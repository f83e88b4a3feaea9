---------------------- MODULE FileManagerServiceProofs ---------------------
(***************************************************************************)
(* The two processes and their queues implement CommandService, for any    *)
(* number of back ends, whatever crashes: the answers never outnumber the  *)
(* commands carried out (Acknowledgeable), and each step is one of the     *)
(* service or none.                                                        *)
(***************************************************************************)
EXTENDS FileManagerSessionProofs

-----------------------------------------------------------------------------
(* Answers.                                                                *)

Replying  == {b \in Backend : pc[b] = "replying"}
Answering == {"replying"}

LEMMA ReplyCount ==
  ASSUME TypeOK, NEW b \in Backend, NEW p, pc' = [pc EXCEPT ![b] = p]
  PROVE  /\ Cardinality(Replying) \in Nat
         /\ (p \in Answering <=> pc[b] \in Answering) =>
              Cardinality(Replying') = Cardinality(Replying)
         /\ p \in Answering /\ pc[b] \notin Answering =>
              Cardinality(Replying') = Cardinality(Replying) + 1
         /\ p \notin Answering /\ pc[b] \in Answering =>
              Cardinality(Replying') = Cardinality(Replying) - 1
<1>1. IsFiniteSet(Replying) /\ Cardinality(Replying) \in Nat
  BY BackendAssumption, FS_Subset, FS_CardinalityType DEF Replying
<1>2. \A x \in Backend : pc'[x] = IF x = b THEN p ELSE pc[x]
  BY DEF TypeOK
<1>3. b \in Replying <=> pc[b] \in Answering
  BY DEF Replying, Answering
<1>4. Cardinality(Replying \cup {b}) =
        IF b \in Replying THEN Cardinality(Replying) ELSE Cardinality(Replying) + 1
  BY <1>1, FS_AddElement
<1>5. Cardinality(Replying \ {b}) =
        IF b \in Replying THEN Cardinality(Replying) - 1 ELSE Cardinality(Replying)
  BY <1>1, FS_RemoveElement
<1>6. CASE p \in Answering
  <2>1. Replying' = Replying \cup {b}
    BY <1>2, <1>6 DEF Replying, Answering
  <2>2. QED
    BY <1>1, <1>3, <1>4, <1>6, <2>1
<1>7. CASE p \notin Answering
  <2>1. Replying' = Replying \ {b}
    BY <1>2, <1>7 DEF Replying, Answering
  <2>2. QED
    BY <1>1, <1>3, <1>5, <1>7, <2>1
<1>8. QED
  BY <1>6, <1>7

LEMMA AcknowledgeableInit == Init => Acknowledgeable
<1> SUFFICES ASSUME Init PROVE Acknowledgeable
  OBVIOUS
<1>1. {b \in Backend : pc[b] = "replying"} = {}
  <2>1. \A b \in Backend : pc[b] = "unused"
    BY DEF Init
  <2>2. QED
    BY <2>1
<1>2. Len(response_queue.msgs) = 0 /\ Len(done) = 0
  BY DEF Init, NoQueue, Queue
<1>3. Cardinality({b \in Backend : pc[b] = "replying"}) = 0
  BY <1>1, FS_EmptySet
<1>4. answered = 0
  BY DEF Init
<1>5. QED
  BY <1>2, <1>3, <1>4 DEF Acknowledgeable

LEMMA AcknowledgeableStep ==
  ASSUME TypeOK, Acknowledgeable, [Next]_vars
  PROVE  Acknowledgeable'
<1> USE DEF uiVars, queues, backendVars, history
<1> DEFINE R  == Cardinality(Replying)
           Nr == Len(response_queue.msgs)
           Nd == Len(done)
<1>a. answered \in Nat /\ Nd \in Nat
  BY DEF TypeOK
<1>b. R \in Nat
  BY BackendAssumption, FS_Subset, FS_CardinalityType DEF Replying
<1>c. Nr \in Nat
  BY SessionTypes, QueueLengths
<1>d. Nd >= answered + Nr + R
  BY DEF Acknowledgeable, Replying
<1>e. SUFFICES Nd' >= answered' + Nr' + R'
  BY DEF Acknowledgeable, Replying
<1>f. /\ pc' = pc => R' = R
      /\ response_queue' = response_queue => Nr' = Nr
      /\ done' = done => Nd' = Nd
  BY DEF Replying
<1>g. /\ Len(Opened(response_queue).msgs) = Nr /\ Len(Removed(response_queue).msgs) = 0
      /\ \A m \in Answer : Len(Sent(response_queue, m).msgs) = Nr + 1
      /\ response_queue.msgs # << >> => Nr > 0 /\ Len(Taken(response_queue).msgs) = Nr - 1
  BY SessionTypes, QueueLengths
<1> USE <1>a, <1>b, <1>c, <1>d
<1> HIDE DEF R, Nr, Nd
<1>1. ASSUME NEW b \in Backend,
             Launch(b) \/ LaunchAgain(b) \/ AttachCommand(b) \/ Receive(b)
      PROVE  Nd' >= answered' + Nr' + R'
  <2>1. R' = R
    <3>1. PICK p : p \notin Answering /\ pc[b] \notin Answering /\ pc' = [pc EXCEPT ![b] = p]
      BY <1>1 DEF Launch, LaunchAgain, Fork, AttachCommand, Receive, Answering
    <3>2. QED
      BY <3>1, ReplyCount DEF R
  <2>2. UNCHANGED <<response_queue, done, answered>>
    BY <1>1 DEF Launch, LaunchAgain, AttachCommand, Receive
  <2>3. QED
    BY <1>f, <2>1, <2>2
<1>2. ASSUME NEW b \in Backend, AttachResponse(b)
      PROVE  Nd' >= answered' + Nr' + R'
  <2>1. Nr' = Nr
    BY <1>2, <1>g DEF AttachResponse, Nr
  <2>2. R' = R
    <3>1. /\ pc[b] \notin Answering /\ "waiting" \notin Answering
          /\ pc' = [pc EXCEPT ![b] = "waiting"]
      BY <1>2 DEF AttachResponse, Answering
    <3>2. QED
      BY <3>1, ReplyCount DEF R
  <2>3. QED
    BY <1>2, <1>f, <2>1, <2>2 DEF AttachResponse
<1>3. ASSUME NEW b \in Backend, Work(b)
      PROVE  Nd' >= answered' + Nr' + R'
  <2>1. Nd' = Nd + 1
    <3>1. buf[b].id \in 1..MaxMessages /\ done' = Append(done, buf[b].id)
      BY <1>3, MessageTypes DEF Work, TypeOK
    <3>2. QED
      BY <3>1 DEF Nd, TypeOK
  <2>2. Nr' = Nr /\ answered' = answered
    BY <1>3, <1>f DEF Work
  <2>3. CASE pc' = [pc EXCEPT ![b] = "waiting"]
    <3>1. R' = R
      <4>1. pc[b] \notin Answering /\ "waiting" \notin Answering
        BY <1>3 DEF Work, Answering
      <4>2. QED
        BY <2>3, <4>1, ReplyCount DEF R
    <3>2. QED
      BY <2>1, <2>2, <3>1
  <2>4. CASE pc' = [pc EXCEPT ![b] = "replying"]
    <3>1. R' = R + 1
      <4>1. pc[b] \notin Answering /\ "replying" \in Answering
        BY <1>3 DEF Work, Answering
      <4>2. QED
        BY <2>4, <4>1, ReplyCount DEF R
    <3>2. QED
      BY <2>1, <2>2, <3>1
  <2>5. QED
    BY <1>3, <2>3, <2>4 DEF Work
<1>4. ASSUME NEW b \in Backend, SendResponse(b)
      PROVE  Nd' >= answered' + Nr' + R'
  <2>1. R' = R - 1
    <3>1. /\ pc[b] \in Answering /\ "waiting" \notin Answering
          /\ pc' = [pc EXCEPT ![b] = "waiting"]
      BY <1>4 DEF SendResponse, Answering
    <3>2. QED
      BY <3>1, ReplyCount DEF R
  <2>2. response[b] \in Answer
    BY <1>4 DEF SendResponse, TypeOK
  <2>3. Nr' = Nr + 1 \/ Nr' = Nr
    <3>1. response_queue' = Sent(response_queue, response[b]) \/ response_queue' = response_queue
      BY <1>4 DEF SendResponse
    <3>2. QED
      BY <1>f, <1>g, <2>2, <3>1 DEF Nr
  <2>4. Nd' = Nd /\ answered' = answered
    BY <1>4, <1>f DEF SendResponse
  <2>5. QED
    BY <2>1, <2>3, <2>4
<1>5. ASSUME Poll
      PROVE  Nd' >= answered' + Nr' + R'
  <2>1. R' = R /\ Nd' = Nd
    BY <1>5, <1>f DEF Poll
  <2>2. CASE response_queue.msgs = << >>
    <3>1. Nr' = Nr /\ answered' = answered
      BY <1>5, <1>g, <2>2 DEF Poll, Nr
    <3>2. QED
      BY <2>1, <3>1
  <2>3. CASE response_queue.msgs # << >>
    <3>1. Nr' = Nr - 1 /\ answered' = answered + 1
      BY <1>5, <1>g, <2>3 DEF Poll, Nr
    <3>2. QED
      BY <2>1, <3>1
  <2>4. QED
    BY <2>2, <2>3
<1>6. ASSUME RemoveResponseQueue
      PROVE  Nd' >= answered' + Nr' + R'
  <2>1. R' = R /\ Nd' = Nd /\ answered' = answered
    BY <1>6, <1>f DEF RemoveResponseQueue
  <2>2. Nr' = 0 \/ Nr' = Nr
    BY <1>6, <1>f, <1>g DEF RemoveResponseQueue, Nr
  <2>3. QED
    BY <2>1, <2>2
<1>7. ASSUME NEW b \in Backend, BackEndDies(b)
      PROVE  Nd' >= answered' + Nr' + R'
  <2>1. pc' = [pc EXCEPT ![b] = "exited"] /\ UNCHANGED <<response_queue, done, answered>>
    BY <1>7 DEF BackEndDies
  <2>2. CASE pc[b] = "replying"
    <3>1. R' = R - 1
      <4>1. pc[b] \in Answering /\ "exited" \notin Answering
        BY <2>2 DEF Answering
      <4>2. QED
        BY <2>1, <4>1, ReplyCount DEF R
    <3>2. QED
      BY <1>f, <2>1, <3>1
  <2>3. CASE pc[b] # "replying"
    <3>1. R' = R
      <4>1. pc[b] \notin Answering /\ "exited" \notin Answering
        BY <2>3 DEF Answering
      <4>2. QED
        BY <2>1, <4>1, ReplyCount DEF R
    <3>2. QED
      BY <1>f, <2>1, <3>1
  <2>4. QED
    BY <2>2, <2>3
<1>8. CASE \/ \E type \in Commands : Request(type) \/ CancelDialog(type) \/ RequestFails(type)
           \/ Quit \/ RequestResumes \/ Refresh \/ QuitResumes \/ RemoveCommandQueue
           \/ FrontEndDies \/ UNCHANGED vars
  <2>1. UNCHANGED <<pc, response_queue, done, answered>>
    BY <1>8 DEF Request, CancelDialog, RequestFails, Quit, RequestResumes, Refresh, QuitResumes,
       RemoveCommandQueue, FrontEndDies, vars
  <2>2. QED
    BY <1>f, <2>1
<1>9. QED
  BY <1>1, <1>2, <1>3, <1>4, <1>5, <1>6, <1>7, <1>8
     DEF Next, UserStep, FrontEndStep, BackEndStep, Fault

(* No answer is read, queued or being sent for a command that was not      *)
(* carried out.                                                            *)
THEOREM Acknowledged == Spec => []Acknowledgeable
<1>1. TypeOK /\ Acknowledgeable /\ [Next]_vars => Acknowledgeable'
  BY AcknowledgeableStep
<1>2. QED
  BY <1>1, AcknowledgeableInit, TypeCorrect, PTL DEF Spec

-----------------------------------------------------------------------------
(* Refinement.                                                             *)

Pending == Queued(command_queue) \cup InHand \cup Unsent

LEMMA ServiceInitially == Init => Service!ServiceInit
<1> SUFFICES ASSUME Init PROVE Service!ServiceInit
  OBVIOUS
<1>1. command_queue.msgs = << >> /\ \A b \in Backend : pc[b] = "unused"
  BY DEF Init, NoQueue, Queue
<1>2. Queued(command_queue) = {} /\ InHand = {} /\ Unsent = {}
  BY <1>1 DEF Init, Queued, InHand, Unsent
<1>3. QED
  BY <1>2 DEF Init, Service!ServiceInit

(* A step that puts nothing into anybody's hands that was not pending.     *)
LEMMA LosingStep ==
  ASSUME Queued(command_queue)' \subseteq Pending,
         InHand' \subseteq Pending, Unsent' \subseteq Pending,
         issued' = issued, done' = done, answered' = answered
  PROVE  Service!ServiceNext
<1>1. Pending' \subseteq Pending
  BY DEF Pending
<1>2. QED
  BY <1>1 DEF Pending, Service!ServiceNext, Service!Lose

(* A confirmed command, or the quit message, is pending from now on.       *)
LEMMA SubmittingStep ==
  ASSUME TypeOK, NEW m \in Message, m.id = issued + 1, Unsent = {},
         \/ command_queue' = Sent(command_queue, m) /\ Unsent' = {}
         \/ command_queue' = command_queue /\ Unsent' = {m.id},
         issued' = issued + 1, UNCHANGED <<pc, buf, done, answered>>
  PROVE  Service!ServiceNext
<1>1. InHand' = InHand
  BY DEF InHand
<1>2. Queued(Sent(command_queue, m)) = Queued(command_queue) \cup {m.id}
  BY SessionTypes, QueueContents
<1>3. Pending' = Pending \cup {issued'}
  BY <1>1, <1>2 DEF Pending
<1>4. QED
  BY <1>3 DEF Pending, Service!ServiceNext, Service!Submit

(* The command a back end works on is pending nowhere else, and the older  *)
(* pending ones are in the hands of other back ends.                       *)
LEMMA PerformingStep ==
  ASSUME TypeOK, CommandOrder, NEW b \in Backend, Work(b)
  PROVE  Service!ServiceNext
<1> USE SessionTypes, OrderTypes DEF uiVars, queues
<1> DEFINE c == buf[b].id
           Others == {x \in Backend \ {b} : pc[x] = "working"}
           Older == {d \in Pending : d < c}
<1>1. /\ pc[b] = "working" /\ Held(b) /\ c \in Nat
      /\ UNCHANGED <<uiVars, queues, issued, answered>>
      /\ done' = Append(done, c)
  BY DEF Work, Held
<1>2. \A x \in Backend : pc'[x] = "working" <=> x \in Others
  BY <1>1 DEF Work, TypeOK
<1>3. \A x \in Others : buf'[x] = buf[x]
  BY DEF Work, TypeOK
<1>4. \A i \in Queued(command_queue) : i \in Nat /\ c < i
  BY <1>1 DEF CommandOrder, HeldOrder, Queued
<1>5. \A i \in Unsent : i \in Nat /\ c < i
  <2> SUFFICES ASSUME NEW i \in Unsent PROVE i \in Nat /\ c < i
    OBVIOUS
  <2>1. Blocked = 1 /\ i = outgoing.id
    BY DEF Unsent, Blocked
  <2>2. i = issued
    BY <2>1 DEF CommandOrder
  <2>3. c + 1 <= issued
    BY <1>1, <2>1 DEF CommandOrder, HeldOrder
  <2>4. QED
    BY <1>1, <2>2, <2>3
<1>6. \A x \in Others : buf[x].id # c
  BY <1>1 DEF CommandOrder, HeldOrder, Held
<1>7. InHand = {buf[x].id : x \in Others} \cup {c}
  BY <1>1 DEF InHand
<1>8. InHand' = {buf[x].id : x \in Others}
  BY <1>2, <1>3 DEF InHand
<1>9. c \in Pending
  BY <1>7 DEF Pending
<1>10. Pending' = Pending \ {c}
  <2>1. Unsent' = Unsent /\ Queued(command_queue)' = Queued(command_queue)
    BY <1>1 DEF Unsent
  <2>2. c \notin Unsent /\ c \notin Queued(command_queue)
    BY <1>1, <1>4, <1>5
  <2>3. c \notin {buf[x].id : x \in Others}
    BY <1>6
  <2> HIDE DEF c, Others
  <2>4. QED
    BY <1>7, <1>8, <2>1, <2>2, <2>3 DEF Pending
<1>11. Cardinality(Older) < Cardinality(Backend)
  <2>1. Older \subseteq {buf[x].id : x \in Others}
    <3> SUFFICES ASSUME NEW d \in Pending, d < c
                 PROVE  d \in {buf[x].id : x \in Others}
      OBVIOUS
    <3>1. d \notin Queued(command_queue) /\ d \notin Unsent /\ d # c
      BY <1>1, <1>4, <1>5
    <3> HIDE DEF c, Others
    <3>2. QED
      BY <1>7, <3>1 DEF Pending
  <2>2. /\ IsFiniteSet(Backend \ {b})
        /\ Cardinality(Backend \ {b}) = Cardinality(Backend) - 1
        /\ Cardinality(Backend) \in Nat
    BY BackendAssumption, FS_RemoveElement, FS_CardinalityType
  <2>3. /\ IsFiniteSet(Others) /\ Cardinality(Others) \in Nat
        /\ Cardinality(Others) <= Cardinality(Backend \ {b})
    <3>1. Others \subseteq Backend \ {b}
      OBVIOUS
    <3> HIDE DEF Others
    <3>2. QED
      BY <2>2, <3>1, FS_Subset, FS_CardinalityType
  <2> HIDE DEF c, Others, Older
  <2>4. /\ IsFiniteSet({buf[x].id : x \in Others})
        /\ Cardinality({buf[x].id : x \in Others}) <= Cardinality(Others)
    <3> DEFINE T == {buf[x].id : x \in Others}
               f == [x \in Others |-> buf[x].id]
    <3>1. f \in Surjection(Others, T)
      BY DEF Surjection
    <3> HIDE DEF T, f
    <3>2. IsFiniteSet(T) /\ Cardinality(T) <= Cardinality(Others)
      BY <2>3, <3>1, FS_Surjection
    <3>3. QED
      BY <3>2 DEF T
  <2>5. /\ Cardinality(Older) <= Cardinality({buf[x].id : x \in Others})
        /\ Cardinality(Older) \in Nat
        /\ Cardinality({buf[x].id : x \in Others}) \in Nat
    BY <2>1, <2>4, FS_Subset, FS_CardinalityType
  <2>6. QED
    BY <2>2, <2>3, <2>4, <2>5
<1> HIDE DEF c
<1>12. Service!Older(c) = Older
  BY DEF Pending, Service!Older
<1> HIDE DEF Older
<1>13. Service!Perform(c)
  <2>1. Service!Cardinality(Service!Older(c)) < Cardinality(Backend)
    BY <1>11, <1>12 DEF Service!Cardinality, Cardinality
  <2>2. done' = Append(done, c) /\ UNCHANGED <<issued, answered>>
    BY <1>1
  <2>3. QED
    BY <1>9, <1>10, <2>1, <2>2 DEF Pending, Service!Perform
<1>14. \E d \in Pending : Service!Perform(d)
  BY <1>9, <1>13
<1>15. QED
  BY <1>14 DEF Pending, Service!ServiceNext

(* An answer is read: there was a command to answer.                       *)
LEMMA AcknowledgingStep ==
  ASSUME TypeOK, Acknowledgeable, Poll, response_queue.msgs # << >>
  PROVE  Service!ServiceNext
<1> USE DEF backendVars
<1>1. answered \in Nat /\ Len(done) \in Nat
  BY DEF TypeOK
<1>2. Len(response_queue.msgs) \in Nat /\ Len(response_queue.msgs) > 0
  BY SessionTypes, QueueLengths
<1>3. Cardinality({b \in Backend : pc[b] = "replying"}) \in Nat
  BY BackendAssumption, FS_Subset, FS_CardinalityType
<1>4. answered < Len(done)
  <2> DEFINE R == Cardinality({b \in Backend : pc[b] = "replying"})
             n == Len(response_queue.msgs)
  <2>1. Len(done) >= answered + n + R
    BY DEF Acknowledgeable
  <2>2. R \in Nat /\ n \in Nat /\ n > 0
    BY <1>2, <1>3
  <2> HIDE DEF R, n
  <2>3. QED
    BY <1>1, <2>1, <2>2
<1>5. /\ answered' = answered + 1
      /\ UNCHANGED <<ui, outgoing, command_queue, pc, buf, issued, done>>
  BY DEF Poll
<1>6. Pending' = Pending
  BY <1>5 DEF Pending, InHand, Unsent
<1>7. QED
  BY <1>4, <1>5, <1>6 DEF Pending, Service!ServiceNext, Service!Acknowledge

LEMMA ServiceStep ==
  ASSUME TypeOK, CommandOrder, Acknowledgeable, [Next]_vars
  PROVE  [Service!ServiceNext]_(Service!serviceVars)
<1> SUFFICES Service!ServiceNext
  OBVIOUS
<1> USE SessionTypes DEF uiVars, queues, backendVars, history
<1>1. ASSUME NEW type \in Commands, Request(type)
      PROVE  Service!ServiceNext
  <2> DEFINE m == [type |-> type, id |-> issued + 1]
  <2>1. m \in Message /\ m.id = issued + 1
    <3>1. issued + 1 \in 1..MaxMessages
      BY <1>1, BoundsAssumption DEF Request, TypeOK
    <3>2. QED
      BY <3>1 DEF Message
  <2>2. /\ Unsent = {} /\ issued' = issued + 1
        /\ UNCHANGED <<pc, buf, done, answered>>
    BY <1>1 DEF Request, Unsent
  <2>3. \/ command_queue' = Sent(command_queue, m) /\ Unsent' = {}
        \/ command_queue' = command_queue /\ Unsent' = {m.id}
    BY <1>1 DEF Request, Deliver, Unsent
  <2> HIDE DEF m
  <2>4. QED
    BY <2>1, <2>2, <2>3, SubmittingStep
<1>2. ASSUME Quit, command_queue.exists
      PROVE  Service!ServiceNext
  <2>1. QuitMessage \in Message /\ QuitMessage.id = issued + 1
    <3>1. issued + 1 \in 1..MaxMessages
      BY <1>2, BoundsAssumption DEF Quit, TypeOK
    <3>2. QED
      BY <3>1 DEF Message, QuitMessage
  <2>2. /\ Unsent = {} /\ issued' = issued + 1
        /\ UNCHANGED <<pc, buf, done, answered>>
    BY <1>2 DEF Quit, Unsent
  <2>3. \/ command_queue' = Sent(command_queue, QuitMessage) /\ Unsent' = {}
        \/ command_queue' = command_queue /\ Unsent' = {QuitMessage.id}
    BY <1>2 DEF Quit, Unsent
  <2>4. QED
    BY <2>1, <2>2, <2>3, SubmittingStep
<1>3. ASSUME NEW b \in Backend, Work(b)
      PROVE  Service!ServiceNext
  BY <1>3, PerformingStep
<1>4. ASSUME Poll, response_queue.msgs # << >>
      PROVE  Service!ServiceNext
  BY <1>4, AcknowledgingStep
<1>5. ASSUME NEW b \in Backend, Receive(b)
      PROVE  Service!ServiceNext
  <2> DEFINE m == Head(command_queue.msgs)
  <2>1. Queued(command_queue) = Queued(command_queue)' \cup {m.id}
    BY <1>5, QueueContents DEF Receive
  <2>2. \A c \in Backend : pc'[c] = "working" =>
          \/ pc[c] = "working" /\ buf'[c] = buf[c]
          \/ buf'[c] = m
    BY <1>5 DEF Receive, TypeOK
  <2> HIDE DEF m
  <2>3. InHand' \subseteq InHand \cup {m.id}
    BY <2>2 DEF InHand
  <2>4. Unsent' = Unsent /\ UNCHANGED <<issued, done, answered>>
    BY <1>5 DEF Receive, Unsent
  <2>5. QED
    BY <2>1, <2>3, <2>4, LosingStep DEF Pending
<1>6. ASSUME RequestResumes \/ QuitResumes
      PROVE  Service!ServiceNext
  <2>1. /\ outgoing \in Message /\ Unsent = {outgoing.id} /\ Unsent' = {}
        /\ command_queue' = Sent(command_queue, outgoing)
        /\ UNCHANGED <<backendVars, history>>
    BY <1>6 DEF RequestResumes, QuitResumes, Deliver, Unsent, TypeOK
  <2>2. Queued(Sent(command_queue, outgoing)) = Queued(command_queue) \cup {outgoing.id}
    BY <2>1, QueueContents
  <2>3. InHand' = InHand
    BY <2>1 DEF InHand
  <2>4. QED
    BY <2>1, <2>2, <2>3, LosingStep DEF Pending
<1>7. ASSUME UNCHANGED <<issued, done, answered>>,
             command_queue'.msgs = command_queue.msgs \/ command_queue'.msgs = << >>,
             Unsent' \subseteq Unsent,
             \A c \in Backend : pc'[c] = "working" => pc[c] = "working" /\ buf'[c] = buf[c]
      PROVE  Service!ServiceNext
  <2>1. InHand' \subseteq InHand
    BY <1>7 DEF InHand
  <2>2. Queued(command_queue)' \subseteq Queued(command_queue)
    BY <1>7 DEF Queued
  <2>3. QED
    BY <1>7, <2>1, <2>2, LosingStep DEF Pending
<1>8. ASSUME NEW b \in Backend,
             \/ Launch(b) \/ LaunchAgain(b) \/ AttachCommand(b) \/ AttachResponse(b)
             \/ SendResponse(b) \/ BackEndDies(b)
      PROVE  Service!ServiceNext
  <2>1. /\ UNCHANGED <<issued, done, answered>>
        /\ command_queue'.msgs = command_queue.msgs
    BY <1>8, QueueParts DEF Launch, LaunchAgain, AttachCommand, AttachResponse,
       SendResponse, BackEndDies
  <2>2. Unsent' \subseteq Unsent
    BY <1>8 DEF Launch, LaunchAgain, AttachCommand, AttachResponse, SendResponse, BackEndDies, Unsent
  <2>3. \A c \in Backend : pc'[c] = "working" => pc[c] = "working" /\ buf'[c] = buf[c]
    BY <1>8 DEF Launch, LaunchAgain, Fork, AttachCommand, AttachResponse, SendResponse,
       BackEndDies, TypeOK
  <2>4. QED
    BY <1>7, <2>1, <2>2, <2>3
<1>9. ASSUME \/ \E type \in Commands : CancelDialog(type) \/ RequestFails(type)
             \/ Quit /\ ~command_queue.exists
             \/ Poll /\ response_queue.msgs = << >>
             \/ Refresh \/ RemoveCommandQueue \/ RemoveResponseQueue \/ FrontEndDies
             \/ UNCHANGED vars
      PROVE  Service!ServiceNext
  <2>1. UNCHANGED <<issued, done, answered, pc, buf>>
    BY <1>9 DEF CancelDialog, RequestFails, Quit, Poll, Refresh, RemoveCommandQueue,
       RemoveResponseQueue, FrontEndDies, vars
  <2>2. command_queue' = command_queue \/ command_queue' = Removed(command_queue)
    BY <1>9 DEF CancelDialog, RequestFails, Quit, Poll, Refresh, RemoveCommandQueue,
       RemoveResponseQueue, FrontEndDies, vars
  <2>3. Unsent' \subseteq Unsent
    BY <1>9 DEF CancelDialog, RequestFails, Quit, Poll, Refresh, RemoveCommandQueue,
       RemoveResponseQueue, FrontEndDies, vars, Unsent
  <2>4. QED
    BY <1>7, <2>1, <2>2, <2>3, QueueParts
<1>10. QED
  BY <1>1, <1>2, <1>3, <1>4, <1>5, <1>6, <1>8, <1>9
     DEF Next, UserStep, FrontEndStep, BackEndStep, Fault

(* The front end, the back ends and the two queues keep the promises of    *)
(* the command service, with as many workers as there are back ends.       *)
THEOREM Implements == Spec => ImplementsService
<1>1. Init => Service!ServiceInit
  BY ServiceInitially
<1>2. TypeOK /\ CommandOrder /\ Acknowledgeable /\ [Next]_vars =>
        [Service!ServiceNext]_(Service!serviceVars)
  BY ServiceStep
<1>3. QED
  BY <1>1, <1>2, TypeCorrect, Ordered, Acknowledged, PTL
     DEF Spec, ImplementsService, Service!ServiceSpec
=============================================================================
