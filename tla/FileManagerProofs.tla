------------------------- MODULE FileManagerProofs -------------------------
(***************************************************************************)
(* Theorems about FileManager, for any number of back ends, any queue      *)
(* capacity and any bounds.                                                *)
(***************************************************************************)
EXTENDS FileManager, FiniteSetTheorems, SequenceTheorems, TLAPS

-----------------------------------------------------------------------------
(* The queue operators keep the type of a queue.                           *)

LEMMA QueueTypes ==
  ASSUME NEW M, NEW q \in QueueOf(M)
  PROVE  /\ Opened(q) \in QueueOf(M)
         /\ Removed(q) \in QueueOf(M)
         /\ \A m \in M : Sent(q, m) \in QueueOf(M)
         /\ q.msgs # << >> => Taken(q) \in QueueOf(M) /\ Head(q.msgs) \in M
<1>1. q.id \in Nat /\ q.exists \in BOOLEAN /\ q.msgs \in Seq(M)
  BY DEF QueueOf
<1>2. \A i \in Nat, e \in BOOLEAN, s \in Seq(M) : Queue(i, e, s) \in QueueOf(M)
  BY DEF Queue, QueueOf
<1>3. << >> \in Seq(M) /\ \A m \in M : Append(q.msgs, m) \in Seq(M)
  BY <1>1
<1>4. q.msgs # << >> => Head(q.msgs) \in M /\ Tail(q.msgs) \in Seq(M)
  BY <1>1
<1>5. Opened(q) \in QueueOf(M) /\ Removed(q) \in QueueOf(M)
  <2>1. TRUE \in BOOLEAN /\ FALSE \in BOOLEAN /\ q.id + 1 \in Nat
    BY <1>1
  <2>2. Queue(q.id, TRUE, q.msgs) \in QueueOf(M)
    BY <1>1, <1>2, <2>1
  <2>3. Queue(q.id + 1, FALSE, << >>) \in QueueOf(M)
    BY <1>2, <1>3, <2>1
  <2>4. QED
    BY <2>2, <2>3 DEF Opened, Removed, NoQueue
<1>6. \A m \in M : Sent(q, m) \in QueueOf(M)
  BY <1>1, <1>2, <1>3 DEF Sent
<1>7. q.msgs # << >> => Taken(q) \in QueueOf(M)
  BY <1>1, <1>2, <1>4 DEF Taken
<1>8. QED
  BY <1>4, <1>5, <1>6, <1>7

LEMMA MessageTypes ==
  /\ NoMessage \notin Message
  /\ NoAnswer \notin Answer
  /\ \A m \in Message : m.type \in Commands \cup {QUIT} /\ m.id \in 1..MaxMessages
  /\ \A i \in 1..MaxMessages, t \in Commands \cup {QUIT} : [type |-> t, id |-> i] \in Message
  /\ \A i \in 1..MaxMessages, t \in {"success", "failed"} : [text |-> t, id |-> i] \in Answer
BY BoundsAssumption DEF NoMessage, Message, NoAnswer, Answer

USE DEF uiVars, queues, backendVars, history

LEMMA TypeInit == Init => TypeOK
<1> SUFFICES ASSUME Init PROVE TypeOK
  OBVIOUS
<1>1. \A M : NoQueue(0) \in QueueOf(M)
  BY DEF NoQueue, Queue, QueueOf
<1>2. is_check_running \in BOOLEAN
  BY DEF Init
<1>3. QED
  BY <1>1, <1>2, BoundsAssumption, MessageTypes DEF Init, TypeOK, Places

LEMMA TypeStep == TypeOK /\ [Next]_vars => TypeOK'
<1> SUFFICES ASSUME TypeOK, [Next]_vars PROVE TypeOK'
  OBVIOUS
<1> USE BoundsAssumption, MessageTypes DEF TypeOK, Places
<1>1. ASSUME NEW b \in Backend, Launch(b) PROVE TypeOK'
  <2>1. is_check_running' \in BOOLEAN
    BY <1>1 DEF Launch
  <2>2. Len(done) \in Nat
    OBVIOUS
  <2>3. QED
    BY <1>1, <2>1, <2>2 DEF Launch, Fork
<1>2. ASSUME NEW b \in Backend, LaunchAgain(b) PROVE TypeOK'
  BY <1>2 DEF LaunchAgain, Fork
<1>3. ASSUME NEW t \in Commands, Request(t) PROVE TypeOK'
  <2> DEFINE m == [type |-> t, id |-> issued + 1]
  <2>1. issued' = issued + 1 /\ issued + 1 \in 1..MaxMessages /\ m \in Message
    <3>1. issued' = issued + 1 /\ issued + 1 \in 1..MaxMessages
      BY <1>3 DEF Request
    <3>2. QED
      BY <3>1
  <2> HIDE DEF m
  <2>2. Sent(command_queue, m) \in QueueOf(Message)
    BY <2>1, QueueTypes
  <2>3. CASE Deliver(m)
    <3>1. is_check_running' \in BOOLEAN
      BY <2>3 DEF Deliver, PollingAfter
    <3>2. QED
      BY <1>3, <2>1, <2>2, <2>3, <3>1 DEF Request, Deliver
  <2>4. CASE ui' = "sending" /\ outgoing' = m /\ UNCHANGED <<is_check_running, command_queue>>
    BY <1>3, <2>1, <2>4 DEF Request
  <2>5. QED
    BY <1>3, <2>3, <2>4 DEF Request, m
<1>4. ASSUME NEW t \in Commands, CancelDialog(t) PROVE TypeOK'
  BY <1>4 DEF CancelDialog
<1>5. CASE Quit
  <2>1. CASE command_queue.exists
    <3>1. issued' = issued + 1 /\ issued + 1 \in 1..MaxMessages
      BY <1>5, <2>1 DEF Quit
    <3>2. QuitMessage \in Message
      BY <3>1 DEF QuitMessage
    <3>3. Sent(command_queue, QuitMessage) \in QueueOf(Message)
      BY <3>2, QueueTypes
    <3>4. is_check_running' \in BOOLEAN
      BY <1>5 DEF Quit
    <3>5. QED
      BY <1>5, <2>1, <3>1, <3>2, <3>3, <3>4 DEF Quit
  <2>2. CASE ~command_queue.exists
    <3>1. is_check_running' \in BOOLEAN
      BY <1>5 DEF Quit
    <3>2. QED
      BY <1>5, <2>2, <3>1 DEF Quit
  <2>3. QED
    BY <2>1, <2>2
<1>6. CASE RequestResumes
  <2>1. outgoing \in Message /\ Sent(command_queue, outgoing) \in QueueOf(Message)
    BY <1>6, QueueTypes DEF RequestResumes
  <2>2. QED
    BY <1>6, <2>1 DEF RequestResumes, Deliver, PollingAfter
<1>7. CASE Poll
  <2>1. CASE response_queue.msgs = << >>
    <3>1. Opened(response_queue) \in QueueOf(Answer)
      BY QueueTypes
    <3>2. QED
      BY <1>7, <2>1, <3>1 DEF Poll
  <2>2. CASE response_queue.msgs # << >>
    <3>1. Taken(response_queue) \in QueueOf(Answer)
      BY <2>2, QueueTypes
    <3>2. refreshes' \in Nat /\ answered' \in Nat
      BY <1>7, <2>2 DEF Poll
    <3>3. QED
      BY <1>7, <2>2, <3>1, <3>2 DEF Poll
  <2>3. QED
    BY <2>1, <2>2
<1>8. CASE Refresh
  BY <1>8 DEF Refresh
<1>9. CASE QuitResumes
  <2>1. outgoing \in Message /\ Sent(command_queue, outgoing) \in QueueOf(Message)
    BY <1>9, QueueTypes DEF QuitResumes
  <2>2. QED
    BY <1>9, <2>1 DEF QuitResumes
<1>10. CASE RemoveCommandQueue
  BY <1>10, QueueTypes DEF RemoveCommandQueue
<1>11. CASE RemoveResponseQueue
  BY <1>11, QueueTypes DEF RemoveResponseQueue
<1>12. ASSUME NEW b \in Backend, AttachCommand(b) PROVE TypeOK'
  <2>1. command_queue.id \in Nat /\ Opened(command_queue) \in QueueOf(Message)
    BY QueueTypes DEF QueueOf
  <2>2. QED
    BY <1>12, <2>1 DEF AttachCommand
<1>13. ASSUME NEW b \in Backend, AttachResponse(b) PROVE TypeOK'
  <2>1. response_queue.id \in Nat /\ Opened(response_queue) \in QueueOf(Answer)
    BY QueueTypes DEF QueueOf
  <2>2. QED
    BY <1>13, <2>1 DEF AttachResponse
<1>14. ASSUME NEW b \in Backend, Receive(b) PROVE TypeOK'
  <2>1. Taken(command_queue) \in QueueOf(Message) /\ Head(command_queue.msgs) \in Message
    BY <1>14, QueueTypes DEF Receive
  <2>2. pc[b] = "waiting" /\ buf[b] = NoMessage
    BY <1>14 DEF Receive
  <2>3. CASE pc' = [pc EXCEPT ![b] = "exited"] /\ buf' = buf
    BY <1>14, <2>1, <2>2, <2>3 DEF Receive
  <2>4. CASE /\ pc' = [pc EXCEPT ![b] = "working"]
             /\ buf' = [buf EXCEPT ![b] = Head(command_queue.msgs)]
    BY <1>14, <2>1, <2>2, <2>4 DEF Receive
  <2>5. QED
    BY <1>14, <2>3, <2>4 DEF Receive
<1>15. ASSUME NEW b \in Backend, Work(b) PROVE TypeOK'
  <2>1. buf[b] \in Message /\ buf[b].id \in 1..MaxMessages
    BY <1>15 DEF Work
  <2>2. Outcomes(buf[b].type) \subseteq {"success", "failed", "none"}
    BY DEF Outcomes
  <2>3. Append(done, buf[b].id) \in Seq(1..MaxMessages)
    BY <2>1
  <2>4. PICK text \in {"success", "failed", "none"} :
          IF text = "none"
          THEN pc' = [pc EXCEPT ![b] = "waiting"] /\ UNCHANGED response
          ELSE /\ pc' = [pc EXCEPT ![b] = "replying"]
               /\ response' = [response EXCEPT ![b] = [text |-> text, id |-> buf[b].id]]
    BY <1>15, <2>2 DEF Work
  <2>5. CASE text = "none"
    <3>1. /\ pc' = [pc EXCEPT ![b] = "waiting"] /\ response' = response
          /\ buf' = [buf EXCEPT ![b] = NoMessage]
          /\ done' \in Seq(1..MaxMessages)
      BY <1>15, <2>3, <2>4, <2>5 DEF Work
    <3>2. pc[b] = "working" /\ response[b] = NoAnswer
      BY <1>15 DEF Work
    <3>3. QED
      BY <1>15, <3>1, <3>2 DEF Work
  <2>6. CASE text # "none"
    <3>1. [text |-> text, id |-> buf[b].id] \in Answer
      BY <2>1, <2>4, <2>6
    <3>2. /\ pc' = [pc EXCEPT ![b] = "replying"]
          /\ response' = [response EXCEPT ![b] = [text |-> text, id |-> buf[b].id]]
          /\ buf' = [buf EXCEPT ![b] = NoMessage]
          /\ done' \in Seq(1..MaxMessages)
      BY <1>15, <2>3, <2>4, <2>6 DEF Work
    <3>3. \A x \in Backend : /\ pc'[x] = "working" <=> buf'[x] # NoMessage
                             /\ pc'[x] = "replying" <=> response'[x] # NoAnswer
      BY <1>15, <3>1, <3>2 DEF Work
    <3>4. QED
      BY <1>15, <2>1, <3>1, <3>2, <3>3 DEF Work
  <2>7. QED
    BY <2>5, <2>6
<1>16. ASSUME NEW b \in Backend, SendResponse(b) PROVE TypeOK'
  <2>1. response[b] \in Answer /\ Sent(response_queue, response[b]) \in QueueOf(Answer)
    BY <1>16, QueueTypes DEF SendResponse
  <2>2. QED
    BY <1>16, <2>1 DEF SendResponse
<1>17. ASSUME NEW t \in Commands, RequestFails(t) PROVE TypeOK'
  BY <1>17 DEF RequestFails, PollingAfter
<1>18. CASE FrontEndDies
  <2>1. is_check_running' \in BOOLEAN
    BY <1>18 DEF FrontEndDies
  <2>2. faults' \in 0..MaxFaults
    BY <1>18 DEF FrontEndDies
  <2>3. QED
    BY <1>18, <2>1, <2>2 DEF FrontEndDies
<1>19. ASSUME NEW b \in Backend, BackEndDies(b) PROVE TypeOK'
  BY <1>19 DEF BackEndDies
<1>20. CASE UNCHANGED vars
  BY <1>20 DEF vars
<1>21. QED
  BY <1>1, <1>2, <1>3, <1>4, <1>5, <1>6, <1>7, <1>8, <1>9, <1>10, <1>11, <1>12,
     <1>13, <1>14, <1>15, <1>16, <1>17, <1>18, <1>19, <1>20
     DEF Next, UserStep, FrontEndStep, BackEndStep, Fault

(* Every variable keeps its type, and a back end holds a command exactly   *)
(* while it works and an answer exactly while it replies.                  *)
THEOREM TypeCorrect == Spec => []TypeOK
BY TypeInit, TypeStep, PTL DEF Spec

-----------------------------------------------------------------------------
(* The backlog that a jam takes.                                           *)

LEMMA QueueLengths ==
  ASSUME NEW M, NEW q \in QueueOf(M)
  PROVE  /\ Len(q.msgs) \in Nat
         /\ Len(Opened(q).msgs) = Len(q.msgs)
         /\ Len(Removed(q).msgs) = 0
         /\ \A m \in M : Len(Sent(q, m).msgs) = Len(q.msgs) + 1
         /\ q.msgs # << >> => Len(q.msgs) > 0 /\ Len(Taken(q).msgs) = Len(q.msgs) - 1
<1>1. q.msgs \in Seq(M)
  BY DEF QueueOf
<1>2. /\ Opened(q).msgs = q.msgs /\ Removed(q).msgs = << >>
      /\ \A m \in M : Sent(q, m).msgs = Append(q.msgs, m)
      /\ Taken(q).msgs = Tail(q.msgs)
  BY DEF Queue, Opened, Removed, NoQueue, Sent, Taken
<1>3. \A m \in M : Len(Append(q.msgs, m)) = Len(q.msgs) + 1
  BY <1>1
<1>4. q.msgs # << >> => Len(q.msgs) > 0 /\ Len(Tail(q.msgs)) = Len(q.msgs) - 1
  BY <1>1, HeadTailProperties, EmptySeq
<1>5. Len(q.msgs) \in Nat /\ Len(<< >>) = 0
  BY <1>1
<1>6. QED
  BY <1>2, <1>3, <1>4, <1>5

(* How many back ends are busy after one of them has moved from a place    *)
(* of the code to another.                                                 *)
Holding == {"working", "replying"}

LEMMA BusyCount ==
  ASSUME TypeOK, NEW b \in Backend, NEW p, pc' = [pc EXCEPT ![b] = p]
  PROVE  /\ Cardinality(Busy) \in Nat
         /\ (p \in Holding <=> pc[b] \in Holding) => Cardinality(Busy') = Cardinality(Busy)
         /\ p \in Holding /\ pc[b] \notin Holding => Cardinality(Busy') = Cardinality(Busy) + 1
         /\ p \notin Holding /\ pc[b] \in Holding => Cardinality(Busy') = Cardinality(Busy) - 1
<1>1. IsFiniteSet(Busy) /\ Cardinality(Busy) \in Nat
  BY BackendAssumption, FS_Subset, FS_CardinalityType DEF Busy
<1>2. \A x \in Backend : pc'[x] = IF x = b THEN p ELSE pc[x]
  BY DEF TypeOK
<1>3. b \in Busy <=> pc[b] \in Holding
  BY DEF Busy, Holding
<1>4. Cardinality(Busy \cup {b}) = IF b \in Busy THEN Cardinality(Busy) ELSE Cardinality(Busy) + 1
  BY <1>1, FS_AddElement
<1>5. Cardinality(Busy \ {b}) = IF b \in Busy THEN Cardinality(Busy) - 1 ELSE Cardinality(Busy)
  BY <1>1, FS_RemoveElement
<1>6. CASE p \in Holding
  <2>1. Busy' = Busy \cup {b}
    BY <1>2, <1>6 DEF Busy, Holding
  <2>2. QED
    BY <1>1, <1>3, <1>4, <1>6, <2>1
<1>7. CASE p \notin Holding
  <2>1. Busy' = Busy \ {b}
    BY <1>2, <1>7 DEF Busy, Holding
  <2>2. QED
    BY <1>1, <1>3, <1>5, <1>7, <2>1
<1>8. QED
  BY <1>6, <1>7

LEMMA AccountingInit == Init => Accounting
<1> SUFFICES ASSUME Init PROVE Accounting
  OBVIOUS
<1>1. Busy = {}
  BY DEF Init, Busy
<1>2. Len(command_queue.msgs) = 0 /\ Len(response_queue.msgs) = 0
  BY DEF Init, NoQueue, Queue
<1>3. QED
  BY <1>1, <1>2, FS_EmptySet DEF Init, Accounting, Blocked

LEMMA AccountingStep == TypeOK /\ Accounting /\ [Next]_vars => Accounting'
<1> SUFFICES ASSUME TypeOK, Accounting, [Next]_vars PROVE Accounting'
  OBVIOUS
<1> DEFINE B  == Cardinality(Busy)
           Nc == Len(command_queue.msgs)
           Nr == Len(response_queue.msgs)
<1>a. /\ issued \in Nat /\ answered \in Nat
      /\ command_queue \in QueueOf(Message) /\ response_queue \in QueueOf(Answer)
  BY BoundsAssumption DEF TypeOK
<1>b. B \in Nat
  BY BackendAssumption, FS_Subset, FS_CardinalityType DEF Busy
<1>c. Nc \in Nat /\ Nr \in Nat
  BY <1>a, QueueLengths
<1>d. issued >= answered + Nr + B + Nc + Blocked /\ Blocked \in Nat
  BY DEF Accounting, Blocked
<1>e. SUFFICES issued' >= answered' + Nr' + B' + Nc' + Blocked'
  BY DEF Accounting
<1>f. /\ pc' = pc => B' = B
      /\ command_queue' = command_queue => Nc' = Nc
      /\ response_queue' = response_queue => Nr' = Nr
  BY DEF Busy
<1>g. \A M : \A q \in QueueOf(M) :
        /\ Len(Opened(q).msgs) = Len(q.msgs) /\ Len(Removed(q).msgs) = 0
        /\ \A m \in M : Len(Sent(q, m).msgs) = Len(q.msgs) + 1
        /\ q.msgs # << >> => Len(Taken(q).msgs) = Len(q.msgs) - 1
  BY QueueLengths
<1> USE <1>b, <1>c, <1>d
<1> HIDE DEF B, Nc, Nr
<1>1. ASSUME NEW b \in Backend, Launch(b) \/ LaunchAgain(b)
      PROVE  issued' >= answered' + Nr' + B' + Nc' + Blocked'
  <2>1. B' = B
    BY <1>1, BusyCount DEF Launch, LaunchAgain, Fork, Holding, B
  <2>2. Nc' = Nc /\ Nr' = Nr /\ issued' = issued /\ answered' = answered /\ Blocked' <= Blocked
    BY <1>1, <1>f DEF Launch, LaunchAgain, Blocked
  <2>3. QED
    BY <1>a, <2>1, <2>2 DEF Blocked
<1>2. ASSUME NEW t \in Commands, Request(t)
      PROVE  issued' >= answered' + Nr' + B' + Nc' + Blocked'
  <2> DEFINE m == [type |-> t, id |-> issued + 1]
  <2>1. m \in Message
    <3>1. issued + 1 \in 1..MaxMessages
      BY <1>2, <1>a, BoundsAssumption DEF Request
    <3>2. QED
      BY <3>1, MessageTypes
  <2>2. Len(Sent(command_queue, m).msgs) = Nc + 1
    BY <1>a, <1>g, <2>1 DEF Nc
  <2>3. Blocked = 0 /\ issued' = issued + 1 /\ answered' = answered /\ Nr' = Nr /\ B' = B
    BY <1>2, <1>f DEF Request, Blocked
  <2>4. CASE Deliver(m)
    <3>1. Nc' = Nc + 1 /\ Blocked' = 0
      BY <2>2, <2>4 DEF Deliver, Blocked, Nc
    <3>2. QED
      BY <1>a, <2>3, <3>1
  <2>5. CASE ui' = "sending" /\ command_queue' = command_queue
    <3>1. Nc' = Nc /\ Blocked' = 1
      BY <1>f, <2>5 DEF Blocked
    <3>2. QED
      BY <1>a, <2>3, <3>1
  <2>6. QED
    BY <1>2, <2>4, <2>5 DEF Request
<1>3. ASSUME NEW t \in Commands, CancelDialog(t) \/ RequestFails(t)
      PROVE  issued' >= answered' + Nr' + B' + Nc' + Blocked'
  <2>1. /\ B' = B /\ Nc' = Nc /\ Nr' = Nr
        /\ issued' = issued /\ answered' = answered /\ Blocked' = 0
    BY <1>3, <1>f DEF CancelDialog, RequestFails, Blocked
  <2>2. QED
    BY <1>a, <2>1
<1>4. CASE Quit
  <2>1. Blocked = 0 /\ answered' = answered /\ Nr' = Nr /\ B' = B
    BY <1>4, <1>f DEF Quit, Blocked
  <2>2. CASE command_queue.exists
    <3>1. issued' = issued + 1 /\ issued + 1 \in 1..MaxMessages
      BY <1>4, <1>a, <2>2, BoundsAssumption DEF Quit
    <3>2. QuitMessage \in Message
      BY <3>1, MessageTypes DEF QuitMessage
    <3>3. Len(Sent(command_queue, QuitMessage).msgs) = Nc + 1
      BY <1>a, <1>g, <3>2 DEF Nc
    <3>4. CASE ui' = "sleeping" /\ command_queue' = Sent(command_queue, QuitMessage)
      <4>1. Nc' = Nc + 1 /\ Blocked' = 0
        BY <3>3, <3>4 DEF Blocked, Nc
      <4>2. QED
        BY <1>a, <2>1, <3>1, <4>1
    <3>5. CASE ui' = "quitting" /\ command_queue' = command_queue
      <4>1. Nc' = Nc /\ Blocked' = 1
        BY <1>f, <3>5 DEF Blocked
      <4>2. QED
        BY <1>a, <2>1, <3>1, <4>1
    <3>6. QED
      BY <1>4, <2>2, <3>4, <3>5 DEF Quit
  <2>3. CASE ~command_queue.exists
    <3>1. Nc' = Nc /\ issued' = issued /\ Blocked' = 0
      BY <1>4, <1>f, <2>3 DEF Quit, Blocked
    <3>2. QED
      BY <1>a, <2>1, <3>1
  <2>4. QED
    BY <2>2, <2>3
<1>5. CASE RequestResumes \/ QuitResumes
  <2>1. outgoing \in Message /\ Blocked = 1
    BY <1>5 DEF RequestResumes, QuitResumes, TypeOK, Blocked
  <2>2. Len(Sent(command_queue, outgoing).msgs) = Nc + 1
    BY <1>a, <1>g, <2>1 DEF Nc
  <2>3. Nc' = Nc + 1 /\ Blocked' = 0
    BY <1>5, <2>2 DEF RequestResumes, QuitResumes, Deliver, Blocked, Nc
  <2>4. B' = B /\ Nr' = Nr /\ issued' = issued /\ answered' = answered
    BY <1>5, <1>f DEF RequestResumes, QuitResumes
  <2>5. QED
    BY <1>a, <2>1, <2>3, <2>4
<1>6. CASE Poll
  <2>1. B' = B /\ Nc' = Nc /\ issued' = issued /\ Blocked' = Blocked
    BY <1>6, <1>f DEF Poll, Blocked
  <2>2. CASE response_queue.msgs = << >>
    <3>1. Nr' = Nr /\ answered' = answered
      BY <1>6, <1>a, <1>g, <2>2 DEF Poll, Nr
    <3>2. QED
      BY <1>a, <2>1, <3>1
  <2>3. CASE response_queue.msgs # << >>
    <3>1. Nr' = Nr - 1 /\ answered' = answered + 1
      BY <1>6, <1>a, <1>g, <2>3 DEF Poll, Nr
    <3>2. QED
      BY <1>a, <2>1, <3>1
  <2>4. QED
    BY <2>2, <2>3
<1>7. CASE RemoveCommandQueue
  <2>1. Nc' = 0
    BY <1>7, <1>a, <1>g DEF RemoveCommandQueue, Nc
  <2>2. B' = B /\ Nr' = Nr /\ issued' = issued /\ answered' = answered /\ Blocked' = 0
    BY <1>7, <1>f DEF RemoveCommandQueue, Blocked
  <2>3. QED
    BY <1>a, <2>1, <2>2
<1>8. CASE RemoveResponseQueue
  <2>1. Nr' = 0 \/ Nr' = Nr
    BY <1>8, <1>a, <1>f, <1>g DEF RemoveResponseQueue, Nr
  <2>2. B' = B /\ Nc' = Nc /\ issued' = issued /\ answered' = answered /\ Blocked' = 0
    BY <1>8, <1>f DEF RemoveResponseQueue, Blocked
  <2>3. QED
    BY <1>a, <2>1, <2>2
<1>9. ASSUME NEW b \in Backend, AttachCommand(b) \/ AttachResponse(b)
      PROVE  issued' >= answered' + Nr' + B' + Nc' + Blocked'
  <2>1. PICK p \in {"attaching", "waiting"} : pc' = [pc EXCEPT ![b] = p]
    BY <1>9 DEF AttachCommand, AttachResponse
  <2>2. pc[b] \notin Holding /\ p \notin Holding
    BY <1>9 DEF AttachCommand, AttachResponse, Holding
  <2>3. B' = B
    BY <2>1, <2>2, BusyCount DEF B
  <2>4. Nc' = Nc /\ Nr' = Nr
    BY <1>9, <1>a, <1>f, <1>g DEF AttachCommand, AttachResponse, Nc, Nr
  <2>5. issued' = issued /\ answered' = answered /\ Blocked' = Blocked
    BY <1>9 DEF AttachCommand, AttachResponse, Blocked
  <2>6. QED
    BY <1>a, <2>3, <2>4, <2>5
<1>10. ASSUME NEW b \in Backend, Receive(b)
       PROVE  issued' >= answered' + Nr' + B' + Nc' + Blocked'
  <2>1. Nc' = Nc - 1
    BY <1>10, <1>a, <1>g DEF Receive, Nc
  <2>2. PICK p \in {"exited", "working"} : pc' = [pc EXCEPT ![b] = p]
    BY <1>10 DEF Receive
  <2>3. pc[b] \notin Holding
    BY <1>10 DEF Receive, Holding
  <2>4. B' = B \/ B' = B + 1
    BY <2>2, <2>3, BusyCount DEF B
  <2>5. Nr' = Nr /\ issued' = issued /\ answered' = answered /\ Blocked' = Blocked
    BY <1>10, <1>f DEF Receive, Blocked
  <2>6. QED
    BY <1>a, <2>1, <2>4, <2>5
<1>11. ASSUME NEW b \in Backend, Work(b) \/ BackEndDies(b)
       PROVE  issued' >= answered' + Nr' + B' + Nc' + Blocked'
  <2>1. PICK p \in {"waiting", "replying", "exited"} : pc' = [pc EXCEPT ![b] = p]
    BY <1>11 DEF Work, BackEndDies
  <2>2. pc[b] \in Holding \/ p \notin Holding
    BY <1>11, <2>1 DEF Work, BackEndDies, Holding, TypeOK
  <2>3. B' = B \/ B' = B - 1
    BY <2>1, <2>2, BusyCount DEF B
  <2>4. /\ Nc' = Nc /\ Nr' = Nr
        /\ issued' = issued /\ answered' = answered /\ Blocked' = Blocked
    BY <1>11, <1>f DEF Work, BackEndDies, Blocked
  <2>5. QED
    BY <1>a, <2>3, <2>4
<1>12. ASSUME NEW b \in Backend, SendResponse(b)
       PROVE  issued' >= answered' + Nr' + B' + Nc' + Blocked'
  <2>1. response[b] \in Answer
    BY <1>12 DEF SendResponse, TypeOK
  <2>2. Nr' = Nr \/ Nr' = Nr + 1
    BY <1>12, <1>a, <1>f, <1>g, <2>1 DEF SendResponse, Nr
  <2>3. pc[b] \in Holding /\ "waiting" \notin Holding /\ pc' = [pc EXCEPT ![b] = "waiting"]
    BY <1>12 DEF SendResponse, Holding
  <2>4. B' = B - 1
    BY <2>3, BusyCount DEF B
  <2>5. Nc' = Nc /\ issued' = issued /\ answered' = answered /\ Blocked' = Blocked
    BY <1>12, <1>f DEF SendResponse, Blocked
  <2>6. QED
    BY <1>a, <2>2, <2>4, <2>5
<1>13. CASE Refresh \/ FrontEndDies \/ UNCHANGED vars
  <2>1. /\ B' = B /\ Nc' = Nc /\ Nr' = Nr
        /\ issued' = issued /\ answered' = answered /\ (Blocked' = Blocked \/ Blocked' = 0)
    BY <1>13, <1>f DEF Refresh, FrontEndDies, vars, Blocked
  <2>2. QED
    BY <1>a, <2>1
<1>14. QED
  BY <1>1, <1>2, <1>3, <1>4, <1>5, <1>6, <1>7, <1>8, <1>9, <1>10, <1>11, <1>12, <1>13
     DEF Next, UserStep, FrontEndStep, BackEndStep, Fault

LEMMA AccountingImpliesBacklog == TypeOK /\ Accounting => JamNeedsBacklog
<1> SUFFICES ASSUME TypeOK, Accounting, NEW b \in Backend, Jammed(b)
             PROVE  issued >= answered + 2 * Capacity + 2
  BY DEF JamNeedsBacklog
<1>1. /\ issued \in Nat /\ answered \in Nat /\ Capacity \in Nat
      /\ command_queue \in QueueOf(Message) /\ response_queue \in QueueOf(Answer)
  BY BoundsAssumption, CapacityAssumption DEF TypeOK
<1>2. Len(command_queue.msgs) \in Nat /\ Len(response_queue.msgs) \in Nat
  BY <1>1, QueueLengths
<1>3. Len(command_queue.msgs) >= Capacity /\ Len(response_queue.msgs) >= Capacity /\ Blocked = 1
  BY DEF Jammed, Full, Blocked
<1>4. Cardinality(Busy) \in Nat /\ Cardinality(Busy) # 0
  <2>1. IsFiniteSet(Busy) /\ Cardinality(Busy) \in Nat
    BY BackendAssumption, FS_Subset, FS_CardinalityType DEF Busy
  <2>2. b \in Busy
    BY DEF Busy, Jammed
  <2>3. QED
    BY <2>1, <2>2, FS_EmptySet
<1>5. QED
  BY <1>1, <1>2, <1>3, <1>4 DEF Accounting

(* The front end blocked on the command queue and a back end blocked on    *)
(* the response queue at the same time: not before 2 * Capacity + 2        *)
(* commands of the session are unanswered, 130 with the kernel's default   *)
(* queue of 16384 bytes.                                                   *)
THEOREM BacklogBeforeJam == Spec => []JamNeedsBacklog
<1>1. Init => TypeOK /\ Accounting
  BY TypeInit, AccountingInit
<1>2. TypeOK /\ Accounting /\ [Next]_vars => (TypeOK /\ Accounting)'
  BY TypeStep, AccountingStep
<1>3. TypeOK /\ Accounting => JamNeedsBacklog
  BY AccountingImpliesBacklog
<1>4. QED
  BY <1>1, <1>2, <1>3, PTL DEF Spec

(* Every answer read, queued message and thing in hand is a command of its *)
(* own.                                                                    *)
THEOREM Accounted == Spec => []Accounting
BY TypeInit, AccountingInit, TypeStep, AccountingStep, PTL DEF Spec

-----------------------------------------------------------------------------
(* No command is carried out twice, and a back end that is alone carries   *)
(* commands out in the order of the user's confirmations: CommandOrder is  *)
(* inductive. One lemma per way a step can touch the commands.             *)


LEMMA OrderTypes ==
  ASSUME TypeOK
  PROVE  /\ issued \in Nat /\ Blocked \in {0, 1}
         /\ command_queue.msgs \in Seq(Message)
         /\ DOMAIN command_queue.msgs = 1..Len(command_queue.msgs)
         /\ \A i \in DOMAIN command_queue.msgs : command_queue.msgs[i].id \in Nat
         /\ \A b \in Backend : Held(b) => buf[b] \in Message /\ buf[b].id \in Nat
         /\ done \in Seq(Nat) /\ DOMAIN done = 1..Len(done)
         /\ \A k \in DOMAIN done : done[k] \in Nat
<1>1. issued \in Nat /\ Blocked \in {0, 1}
  BY BoundsAssumption DEF TypeOK, Blocked
<1>2. command_queue.msgs \in Seq(Message)
  BY DEF TypeOK, QueueOf
<1>3. \A m \in Message : m.id \in Nat
  BY MessageTypes, BoundsAssumption
<1>4. \A b \in Backend : Held(b) => buf[b] \in Message
  BY DEF TypeOK, Held
<1>5. done \in Seq(1..MaxMessages)
  BY DEF TypeOK
<1>6. /\ DOMAIN command_queue.msgs = 1..Len(command_queue.msgs)
      /\ \A i \in DOMAIN command_queue.msgs : command_queue.msgs[i].id \in Nat
  BY <1>2, <1>3
<1>7. /\ done \in Seq(Nat) /\ DOMAIN done = 1..Len(done)
      /\ \A k \in DOMAIN done : done[k] \in Nat
  BY <1>5, BoundsAssumption, SeqMonotonic
<1>8. QED
  BY <1>1, <1>2, <1>3, <1>4, <1>6, <1>7

(* A step that gives nobody a command: queue and back ends may only lose   *)
(* some, or lose them all.                                                 *)
LEMMA OrderFrame ==
  ASSUME TypeOK, TypeOK', CommandOrder,
         issued' = issued, done' = done,
         command_queue'.msgs = command_queue.msgs \/ command_queue'.msgs = << >>,
         Blocked' = 0 \/ (Blocked' = Blocked /\ outgoing' = outgoing),
         \A b \in Backend : Held(b)' => Held(b) /\ buf'[b] = buf[b],
         Alone' => Alone
  PROVE  CommandOrder'
<1> USE OrderTypes
<1>1. Blocked' <= Blocked /\ (Blocked' = 1 => outgoing'.id = issued')
  BY DEF CommandOrder
<1>2. /\ Blocked \in Nat /\ Blocked' \in Nat /\ issued \in Nat
      /\ \A x \in Nat : x + Blocked <= issued => x + Blocked' <= issued'
  BY <1>1 DEF Blocked
<1>3. /\ DOMAIN command_queue'.msgs \subseteq DOMAIN command_queue.msgs
      /\ \A i \in DOMAIN command_queue'.msgs :
           command_queue'.msgs[i] = command_queue.msgs[i]
  <2>1. DOMAIN << >> = {}
    OBVIOUS
  <2>2. QED
    BY <2>1
<1>4. QueueOrder'
  <2> SUFFICES ASSUME NEW i \in DOMAIN command_queue'.msgs
               PROVE  /\ command_queue'.msgs[i].id + Blocked' <= issued'
                      /\ \A j \in DOMAIN command_queue'.msgs :
                           i < j => command_queue'.msgs[i].id < command_queue'.msgs[j].id
    BY DEF QueueOrder
  <2>1. command_queue.msgs[i].id \in Nat /\ command_queue.msgs[i].id + Blocked <= issued
    BY <1>3 DEF CommandOrder, QueueOrder
  <2>2. command_queue'.msgs[i].id + Blocked' <= issued'
    BY <1>2, <1>3, <2>1
  <2>3. ASSUME NEW j \in DOMAIN command_queue'.msgs, i < j
        PROVE  command_queue'.msgs[i].id < command_queue'.msgs[j].id
    BY <1>3, <2>3 DEF CommandOrder, QueueOrder
  <2>4. QED
    BY <2>2, <2>3
<1>5. HeldOrder'
  <2> SUFFICES ASSUME NEW b \in Backend, Held(b)'
               PROVE  /\ buf'[b].id + Blocked' <= issued'
                      /\ \A i \in DOMAIN command_queue'.msgs : buf'[b].id < command_queue'.msgs[i].id
                      /\ \A c \in Backend : Held(c)' /\ b # c => buf'[b].id # buf'[c].id
    BY DEF HeldOrder
  <2>1. Held(b) /\ buf'[b] = buf[b] /\ buf[b].id \in Nat /\ buf[b].id + Blocked <= issued
    BY DEF CommandOrder, HeldOrder
  <2>2. buf'[b].id + Blocked' <= issued'
    BY <1>2, <2>1
  <2>3. ASSUME NEW i \in DOMAIN command_queue'.msgs
        PROVE  buf'[b].id < command_queue'.msgs[i].id
    BY <1>3, <2>1 DEF CommandOrder, HeldOrder
  <2>4. ASSUME NEW c \in Backend, Held(c)', b # c
        PROVE  buf'[b].id # buf'[c].id
    BY <2>1, <2>4 DEF CommandOrder, HeldOrder
  <2>5. QED
    BY <2>2, <2>3, <2>4
<1>6. DoneOrder'
  <2> SUFFICES ASSUME NEW k \in DOMAIN done
               PROVE  /\ done[k] + Blocked' <= issued'
                      /\ \A i \in DOMAIN command_queue'.msgs : done[k] < command_queue'.msgs[i].id
                      /\ \A b \in Backend : Held(b)' => /\ done[k] # buf'[b].id
                                                        /\ Alone' => done[k] < buf'[b].id
    BY DEF DoneOrder
  <2>1. done[k] \in Nat /\ done[k] + Blocked <= issued
    BY DEF CommandOrder, DoneOrder
  <2>2. done[k] + Blocked' <= issued'
    BY <1>2, <2>1
  <2>3. ASSUME NEW i \in DOMAIN command_queue'.msgs
        PROVE  done[k] < command_queue'.msgs[i].id
    BY <1>3 DEF CommandOrder, DoneOrder
  <2>4. ASSUME NEW b \in Backend, Held(b)'
        PROVE  done[k] # buf'[b].id /\ (Alone' => done[k] < buf'[b].id)
    BY <2>4 DEF CommandOrder, DoneOrder
  <2>5. QED
    BY <2>2, <2>3, <2>4
<1>7. AtMostOnce' /\ OneBackendInOrder'
  BY DEF CommandOrder, AtMostOnce, OneBackendInOrder
<1>8. QED
  BY <1>1, <1>4, <1>5, <1>6, <1>7 DEF CommandOrder

(* A message reaches the queue: the newest one, whether it was blocked     *)
(* before or is sent at once.                                              *)
LEMMA OrderSend ==
  ASSUME TypeOK, TypeOK', CommandOrder,
         NEW m \in Message, m.id = issued', issued' = issued + 1 - Blocked,
         command_queue' = Sent(command_queue, m), Blocked' = 0,
         UNCHANGED <<pc, buf, done>>
  PROVE  CommandOrder'
<1> USE OrderTypes
<1> DEFINE q == command_queue.msgs
           n == Len(command_queue.msgs)
           r == command_queue'.msgs
<1>1. r = Append(q, m)
  BY DEF Sent, Queue
<1>2. /\ n \in Nat /\ DOMAIN q = 1..n /\ DOMAIN r = 1..(n + 1)
      /\ \A i \in 1..n : r[i] = q[i]
      /\ r[n + 1] = m
  BY <1>1, AppendProperties
<1> HIDE DEF r
<1>m. \A i \in 1..(n + 1) : i \in 1..n \/ i = n + 1
  BY <1>2
<1>3. m.id \in Nat /\ \A x \in Nat : x + Blocked <= issued => x < m.id
  BY DEF Blocked
<1>4. /\ \A i \in 1..n : q[i].id \in Nat /\ q[i].id < m.id
      /\ \A b \in Backend : Held(b) => buf[b].id < m.id
      /\ \A k \in DOMAIN done : done[k] < m.id
  BY <1>2, <1>3 DEF CommandOrder, QueueOrder, HeldOrder, DoneOrder
<1>5. /\ \A b \in Backend : Held(b)' <=> Held(b)
      /\ Alone' <=> Alone
  BY DEF Held, Alone, Started
<1>6. \A x \in Nat : x <= m.id => x + Blocked' <= issued'
  BY <1>3
<1>7. QueueOrder'
  <2> SUFFICES ASSUME NEW i \in 1..(n + 1)
               PROVE  /\ r[i].id + Blocked' <= issued'
                      /\ \A j \in 1..(n + 1) : i < j => r[i].id < r[j].id
    BY <1>2 DEF QueueOrder, r
  <2>1. CASE i = n + 1
    BY <1>2, <1>3, <1>6, <2>1
  <2>2. CASE i \in 1..n
    <3>1. r[i] = q[i] /\ q[i].id \in Nat /\ q[i].id < m.id
      BY <1>2, <1>4, <2>2
    <3>2. ASSUME NEW j \in 1..(n + 1), i < j
          PROVE  r[i].id < r[j].id
      <4>1. CASE j = n + 1
        BY <1>2, <3>1, <4>1
      <4>2. CASE j \in 1..n
        BY <1>2, <2>2, <3>1, <3>2, <4>2 DEF CommandOrder, QueueOrder
      <4>3. QED
        BY <1>m, <4>1, <4>2
    <3>3. QED
      BY <1>3, <1>6, <3>1, <3>2
  <2>3. QED
    BY <1>2, <2>1, <2>2
<1>8. HeldOrder'
  <2> SUFFICES ASSUME NEW b \in Backend, Held(b)
               PROVE  /\ buf[b].id + Blocked' <= issued'
                      /\ \A i \in 1..(n + 1) : buf[b].id < r[i].id
                      /\ \A c \in Backend : Held(c) /\ b # c => buf[b].id # buf[c].id
    BY <1>2, <1>5 DEF HeldOrder, r
  <2>1. buf[b].id \in Nat /\ buf[b].id < m.id
    BY <1>4
  <2>2. \A i \in 1..n : buf[b].id < q[i].id
    BY <1>2 DEF CommandOrder, HeldOrder
  <2>3. \A i \in 1..(n + 1) : buf[b].id < r[i].id
    BY <1>2, <1>m, <2>1, <2>2
  <2>4. \A c \in Backend : Held(c) /\ b # c => buf[b].id # buf[c].id
    BY DEF CommandOrder, HeldOrder
  <2>5. QED
    BY <1>3, <1>6, <2>1, <2>3, <2>4
<1>9. DoneOrder'
  <2> SUFFICES ASSUME NEW k \in DOMAIN done
               PROVE  /\ done[k] + Blocked' <= issued'
                      /\ \A i \in 1..(n + 1) : done[k] < r[i].id
                      /\ \A b \in Backend : Held(b) => /\ done[k] # buf[b].id
                                                       /\ Alone => done[k] < buf[b].id
    BY <1>2, <1>5 DEF DoneOrder, r
  <2>1. done[k] \in Nat /\ done[k] < m.id
    BY <1>4
  <2>2. \A i \in 1..n : done[k] < q[i].id
    BY <1>2 DEF CommandOrder, DoneOrder
  <2>3. \A i \in 1..(n + 1) : done[k] < r[i].id
    BY <1>2, <1>m, <2>1, <2>2
  <2>4. QED
    BY <1>3, <1>6, <2>1, <2>3 DEF CommandOrder, DoneOrder
<1>10. AtMostOnce' /\ OneBackendInOrder'
  BY <1>5 DEF CommandOrder, AtMostOnce, OneBackendInOrder
<1>11. QED
  BY <1>7, <1>8, <1>9, <1>10 DEF CommandOrder

(* A request finds the queue full: its message waits outside, the newest.  *)
LEMMA OrderBlock ==
  ASSUME TypeOK, TypeOK', CommandOrder,
         Blocked = 0, Blocked' = 1,
         issued' = issued + 1, outgoing'.id = issued',
         UNCHANGED <<command_queue, pc, buf, done>>
  PROVE  CommandOrder'
<1> USE OrderTypes
<1>1. \A x \in Nat : x + Blocked <= issued => x + Blocked' <= issued'
  OBVIOUS
<1>2. /\ \A b \in Backend : Held(b)' <=> Held(b)
      /\ Alone' <=> Alone
  BY DEF Held, Alone, Started
<1>3. QueueOrder'
  BY <1>1 DEF CommandOrder, QueueOrder
<1>4. HeldOrder'
  BY <1>1, <1>2 DEF CommandOrder, HeldOrder
<1>5. DoneOrder'
  BY <1>1, <1>2 DEF CommandOrder, DoneOrder
<1>6. AtMostOnce' /\ OneBackendInOrder'
  BY <1>2 DEF CommandOrder, AtMostOnce, OneBackendInOrder
<1>7. QED
  BY <1>3, <1>4, <1>5, <1>6 DEF CommandOrder

(* The oldest queued message goes to a back end, which keeps it unless it  *)
(* is the quit message.                                                    *)
LEMMA OrderReceive ==
  ASSUME TypeOK, TypeOK', CommandOrder,
         command_queue.msgs # << >>,
         command_queue'.msgs = Tail(command_queue.msgs),
         NEW b \in Backend, ~Held(b),
         \A c \in Backend : Held(c)' =>
           \/ Held(c) /\ buf'[c] = buf[c]
           \/ c = b /\ buf'[c] = Head(command_queue.msgs),
         Alone' <=> Alone,
         Blocked' = Blocked,
         UNCHANGED <<issued, outgoing, done>>
  PROVE  CommandOrder'
<1> USE OrderTypes
<1> DEFINE q == command_queue.msgs
           n == Len(command_queue.msgs)
           r == command_queue'.msgs
<1>1. /\ n \in Nat /\ n >= 1 /\ DOMAIN q = 1..n
      /\ Head(q) = q[1]
      /\ DOMAIN r = 1..(n - 1)
      /\ \A i \in 1..(n - 1) : r[i] = q[i + 1]
  BY HeadTailProperties
<1>2. \A i \in 1..(n - 1) : i \in Nat /\ i + 1 \in 1..n /\ i + 1 > 1
  BY <1>1
<1>3. 1 \in 1..n
  BY <1>1
<1> HIDE DEF n, r
<1>4. QueueOrder'
  <2> SUFFICES ASSUME NEW i \in 1..(n - 1)
               PROVE  /\ r[i].id + Blocked <= issued
                      /\ \A j \in 1..(n - 1) : i < j => r[i].id < r[j].id
    BY <1>1 DEF QueueOrder, r
  <2>1. r[i].id + Blocked <= issued
    BY <1>1, <1>2 DEF CommandOrder, QueueOrder
  <2>2. ASSUME NEW j \in 1..(n - 1), i < j
        PROVE  r[i].id < r[j].id
    <3>1. i + 1 < j + 1
      BY <1>2, <2>2
    <3>2. q[i + 1].id < q[j + 1].id
      BY <1>1, <1>2, <3>1 DEF CommandOrder, QueueOrder
    <3>3. QED
      BY <1>1, <3>2
  <2>3. QED
    BY <2>1, <2>2
<1>5. HeldOrder'
  <2> SUFFICES ASSUME NEW c \in Backend, Held(c)'
               PROVE  /\ buf'[c].id + Blocked <= issued
                      /\ \A i \in 1..(n - 1) : buf'[c].id < r[i].id
                      /\ \A d \in Backend : Held(d)' /\ c # d => buf'[c].id # buf'[d].id
    BY <1>1 DEF HeldOrder, r
  <2>1. \A d \in Backend : Held(d) => \A i \in 1..n : buf[d].id < q[i].id
    BY <1>1 DEF CommandOrder, HeldOrder
  <2>2. \A i \in 1..n : 1 < i => q[1].id < q[i].id
    BY <1>1, <1>3 DEF CommandOrder, QueueOrder
  <2>3. \A d \in Backend : Held(d) => buf[d].id \in Nat /\ buf[d].id < q[1].id
    BY <1>3, <2>1
  <2>4. q[1].id \in Nat
    BY <1>1, <1>3
  <2>5. CASE Held(c) /\ buf'[c] = buf[c]
    <3>1. buf'[c].id + Blocked <= issued
      BY <2>5 DEF CommandOrder, HeldOrder
    <3>2. \A i \in 1..(n - 1) : buf'[c].id < r[i].id
      BY <1>1, <1>2, <2>1, <2>5
    <3>3. ASSUME NEW d \in Backend, Held(d)', c # d
          PROVE  buf'[c].id # buf'[d].id
      <4>1. CASE Held(d) /\ buf'[d] = buf[d]
        BY <2>5, <3>3, <4>1 DEF CommandOrder, HeldOrder
      <4>2. CASE d = b /\ buf'[d] = Head(q)
        BY <1>1, <2>3, <2>4, <2>5, <4>2
      <4>3. QED
        BY <3>3, <4>1, <4>2
    <3>4. QED
      BY <3>1, <3>2, <3>3
  <2>6. CASE c = b /\ buf'[c] = Head(q)
    <3>1. buf'[c].id + Blocked <= issued
      BY <1>1, <1>3, <2>6 DEF CommandOrder, QueueOrder
    <3>2. \A i \in 1..(n - 1) : buf'[c].id < r[i].id
      BY <1>1, <1>2, <2>2, <2>6
    <3>3. ASSUME NEW d \in Backend, Held(d)', c # d
          PROVE  buf'[c].id # buf'[d].id
      BY <1>1, <2>3, <2>4, <2>6, <3>3
    <3>4. QED
      BY <3>1, <3>2, <3>3
  <2>7. QED
    BY <2>5, <2>6
<1>6. DoneOrder'
  <2> SUFFICES ASSUME NEW k \in DOMAIN done
               PROVE  /\ done[k] + Blocked <= issued
                      /\ \A i \in 1..(n - 1) : done[k] < r[i].id
                      /\ \A c \in Backend : Held(c)' => /\ done[k] # buf'[c].id
                                                        /\ Alone => done[k] < buf'[c].id
    BY <1>1 DEF DoneOrder, r
  <2>1. /\ done[k] \in Nat /\ done[k] + Blocked <= issued
        /\ \A i \in 1..n : done[k] < q[i].id
    BY <1>1 DEF CommandOrder, DoneOrder
  <2>2. \A i \in 1..(n - 1) : done[k] < r[i].id
    BY <1>1, <1>2, <2>1
  <2>3. done[k] < q[1].id /\ q[1].id \in Nat
    BY <1>1, <1>3, <2>1
  <2>4. ASSUME NEW c \in Backend, Held(c)'
        PROVE  done[k] # buf'[c].id /\ (Alone => done[k] < buf'[c].id)
    <3>1. CASE Held(c) /\ buf'[c] = buf[c]
      BY <3>1 DEF CommandOrder, DoneOrder
    <3>2. CASE c = b /\ buf'[c] = Head(q)
      BY <1>1, <2>1, <2>3, <3>2
    <3>3. QED
      BY <2>4, <3>1, <3>2
  <2>5. QED
    BY <2>1, <2>2, <2>4
<1>7. AtMostOnce' /\ OneBackendInOrder'
  BY DEF CommandOrder, AtMostOnce, OneBackendInOrder
<1>8. QED
  BY <1>4, <1>5, <1>6, <1>7 DEF CommandOrder

(* A back end carries out the command it holds.                            *)
LEMMA OrderWork ==
  ASSUME TypeOK, TypeOK', CommandOrder,
         NEW b \in Backend, Held(b),
         done' = Append(done, buf[b].id),
         \A c \in Backend : Held(c)' => Held(c) /\ c # b /\ buf'[c] = buf[c],
         Alone' <=> Alone,
         Blocked' = Blocked,
         UNCHANGED <<issued, outgoing, command_queue>>
  PROVE  CommandOrder'
<1> USE OrderTypes
<1> DEFINE x == buf[b].id
           n == Len(done)
<1>1. /\ x \in Nat /\ x + Blocked <= issued
      /\ \A i \in DOMAIN command_queue.msgs : x < command_queue.msgs[i].id
      /\ \A c \in Backend : Held(c) /\ c # b => x # buf[c].id
      /\ \A k \in DOMAIN done : done[k] # x /\ (Alone => done[k] < x)
  BY DEF CommandOrder, HeldOrder, DoneOrder
<1>2. /\ n \in Nat /\ DOMAIN done = 1..n /\ DOMAIN done' = 1..(n + 1)
      /\ \A k \in 1..n : done'[k] = done[k]
      /\ done'[n + 1] = x
  BY <1>1, AppendProperties
<1> HIDE DEF n
<1>3. \A k \in 1..(n + 1) : k \in 1..n \/ k = n + 1
  BY <1>2
<1>4. \A c \in Backend : Alone /\ Held(c) => c = b
  BY DEF Alone, Started, Held
<1>5. QueueOrder'
  BY DEF CommandOrder, QueueOrder
<1>6. HeldOrder'
  BY DEF CommandOrder, HeldOrder
<1>7. DoneOrder'
  <2> SUFFICES ASSUME NEW k \in 1..(n + 1)
               PROVE  /\ done'[k] + Blocked <= issued
                      /\ \A i \in DOMAIN command_queue.msgs : done'[k] < command_queue.msgs[i].id
                      /\ \A c \in Backend : Held(c)' => /\ done'[k] # buf'[c].id
                                                        /\ Alone => done'[k] < buf'[c].id
    BY <1>2 DEF DoneOrder
  <2>1. CASE k = n + 1
    BY <1>1, <1>2, <1>4, <2>1
  <2>2. CASE k \in 1..n
    BY <1>2, <2>2 DEF CommandOrder, DoneOrder
  <2>3. QED
    BY <1>3, <2>1, <2>2
<1>8. AtMostOnce'
  <2> SUFFICES ASSUME NEW i \in 1..(n + 1), NEW j \in 1..(n + 1), done'[i] = done'[j]
               PROVE  i = j
    BY <1>2 DEF AtMostOnce
  <2>1. CASE i \in 1..n /\ j \in 1..n
    BY <1>2, <2>1 DEF CommandOrder, AtMostOnce
  <2>2. CASE i = n + 1 /\ j \in 1..n
    BY <1>1, <1>2, <2>2
  <2>3. CASE i \in 1..n /\ j = n + 1
    BY <1>1, <1>2, <2>3
  <2>4. QED
    BY <1>3, <2>1, <2>2, <2>3
<1>9. OneBackendInOrder'
  <2> SUFFICES ASSUME Alone, NEW i \in 1..(n + 1), NEW j \in 1..(n + 1), i < j
               PROVE  done'[i] < done'[j]
    BY <1>2 DEF OneBackendInOrder
  <2>1. i \in 1..n
    BY <1>2
  <2>2. CASE j \in 1..n
    BY <1>2, <2>1, <2>2 DEF CommandOrder, OneBackendInOrder
  <2>3. CASE j = n + 1
    BY <1>1, <1>2, <2>1, <2>3
  <2>4. QED
    BY <1>3, <2>2, <2>3
<1>10. Blocked' = 1 => outgoing'.id = issued'
  BY DEF CommandOrder
<1>11. QED
  BY <1>5, <1>6, <1>7, <1>8, <1>9, <1>10 DEF CommandOrder

-----------------------------------------------------------------------------
LEMMA OrderInit == Init => CommandOrder
<1> SUFFICES ASSUME Init
             PROVE  CommandOrder
  OBVIOUS
<1>1. DOMAIN command_queue.msgs = {} /\ DOMAIN done = {}
  BY DEF Init, NoQueue, Queue
<1>2. Blocked = 0 /\ \A b \in Backend : ~Held(b)
  BY DEF Init, Blocked, Held
<1>3. QED
  BY <1>1, <1>2 DEF CommandOrder, QueueOrder, HeldOrder, DoneOrder,
                    AtMostOnce, OneBackendInOrder

LEMMA OrderStep ==
  ASSUME TypeOK, TypeOK', CommandOrder, [Next]_vars
  PROVE  CommandOrder'
<1> USE DEF uiVars, queues, backendVars, history
<1>1. ASSUME NEW b \in Backend, Launch(b)
      PROVE  CommandOrder'
  <2>1. Alone' => Alone
    BY <1>1 DEF Launch, Fork, Alone, Started, TypeOK
  <2>2. QED
    BY <1>1, <2>1, OrderFrame DEF Launch, Fork, Held, Blocked, TypeOK
<1>2. ASSUME NEW b \in Backend, LaunchAgain(b)
      PROVE  CommandOrder'
  <2>1. Alone' => Alone
    BY <1>2 DEF LaunchAgain, Fork, Alone, Started, TypeOK
  <2>2. QED
    BY <1>2, <2>1, OrderFrame DEF LaunchAgain, Fork, Held, Blocked, TypeOK
<1>3. ASSUME NEW b \in Backend, AttachCommand(b)
      PROVE  CommandOrder'
  <2>1. Alone' => Alone
    BY <1>3 DEF AttachCommand, Alone, Started, TypeOK
  <2>2. QED
    BY <1>3, <2>1, OrderFrame DEF AttachCommand, Opened, Queue, Held, Blocked, TypeOK
<1>4. ASSUME NEW b \in Backend, AttachResponse(b)
      PROVE  CommandOrder'
  <2>1. Alone' => Alone
    BY <1>4 DEF AttachResponse, Alone, Started, TypeOK
  <2>2. QED
    BY <1>4, <2>1, OrderFrame DEF AttachResponse, Held, Blocked, TypeOK
<1>5. ASSUME NEW type \in Commands, Request(type)
      PROVE  CommandOrder'
  <2> DEFINE m == [type |-> type, id |-> issued + 1]
  <2>1. Blocked = 0 /\ issued \in Nat
    BY <1>5, OrderTypes DEF Request, Blocked
  <2>2. issued + 1 \in 1..MaxMessages
    BY <1>5, BoundsAssumption DEF Request, TypeOK
  <2>3. m \in Message
    BY <2>2 DEF Message
  <2>4. CASE ~Full(command_queue) /\ Deliver(m)
    BY <1>5, <2>1, <2>3, <2>4, OrderSend DEF Request, Deliver, Blocked
  <2>5. CASE ~Deliver(m)
    BY <1>5, <2>1, <2>5, OrderBlock DEF Request, Blocked
  <2>6. CASE Full(command_queue) /\ Deliver(m)
    BY <1>5, <2>1, <2>6, OrderBlock DEF Request, Blocked
  <2>7. QED
    BY <2>4, <2>5, <2>6
<1>6. ASSUME NEW type \in Commands, CancelDialog(type)
      PROVE  CommandOrder'
  BY <1>6, OrderFrame DEF CancelDialog, Held, Blocked, Alone, Started
<1>7. ASSUME Quit
      PROVE  CommandOrder'
  <2>1. Blocked = 0 /\ issued \in Nat
    BY <1>7, OrderTypes DEF Quit, Blocked
  <2>2. CASE command_queue.exists /\ ~Full(command_queue)
    <3>1. issued + 1 \in 1..MaxMessages
      BY <1>7, <2>2, BoundsAssumption DEF Quit, TypeOK
    <3>2. QuitMessage \in Message
      BY <3>1 DEF Message, QuitMessage
    <3>3. QED
      BY <1>7, <2>1, <2>2, <3>2, OrderSend DEF Quit, QuitMessage, Blocked
  <2>3. CASE command_queue.exists /\ Full(command_queue)
    BY <1>7, <2>1, <2>3, OrderBlock DEF Quit, QuitMessage, Blocked
  <2>4. CASE ~command_queue.exists
    BY <1>7, <2>1, <2>4, OrderFrame DEF Quit, Held, Blocked, Alone, Started
  <2>5. QED
    BY <2>2, <2>3, <2>4
<1>8. ASSUME RequestResumes
      PROVE  CommandOrder'
  <2>1. Blocked = 1 /\ Blocked' = 0 /\ outgoing.id = issued /\ issued \in Nat
    BY <1>8, OrderTypes DEF RequestResumes, Deliver, Blocked, CommandOrder
  <2>2. outgoing \in Message
    BY <1>8 DEF RequestResumes, TypeOK
  <2>3. QED
    BY <1>8, <2>1, <2>2, OrderSend DEF RequestResumes, Deliver
<1>9. ASSUME QuitResumes
      PROVE  CommandOrder'
  <2>1. Blocked = 1 /\ Blocked' = 0 /\ outgoing.id = issued /\ issued \in Nat
    BY <1>9, OrderTypes DEF QuitResumes, Blocked, CommandOrder
  <2>2. outgoing \in Message
    BY <1>9 DEF QuitResumes, TypeOK
  <2>3. QED
    BY <1>9, <2>1, <2>2, OrderSend DEF QuitResumes
<1>10. ASSUME Poll
       PROVE  CommandOrder'
  BY <1>10, OrderFrame DEF Poll, Held, Blocked, Alone, Started
<1>11. ASSUME Refresh
       PROVE  CommandOrder'
  BY <1>11, OrderFrame DEF Refresh, Held, Blocked, Alone, Started
<1>12. ASSUME RemoveCommandQueue
       PROVE  CommandOrder'
  BY <1>12, OrderFrame DEF RemoveCommandQueue, Removed, NoQueue, Queue,
                           Held, Blocked, Alone, Started
<1>13. ASSUME RemoveResponseQueue
       PROVE  CommandOrder'
  BY <1>13, OrderFrame DEF RemoveResponseQueue, Held, Blocked, Alone, Started
<1>14. ASSUME NEW b \in Backend, Receive(b)
       PROVE  CommandOrder'
  <2>1. /\ ~Held(b)
        /\ command_queue.msgs # << >>
        /\ command_queue'.msgs = Tail(command_queue.msgs)
    BY <1>14 DEF Receive, Held, Taken, Queue
  <2>2. Alone' <=> Alone
    <3>1. PICK p \in {"exited", "working"} : pc' = [pc EXCEPT ![b] = p]
      BY <1>14 DEF Receive
    <3>2. pc[b] = "waiting"
      BY <1>14 DEF Receive
    <3>3. QED
      BY <3>1, <3>2 DEF Alone, Started, TypeOK
  <2>3. \A c \in Backend : Held(c)' =>
          \/ Held(c) /\ buf'[c] = buf[c]
          \/ c = b /\ buf'[c] = Head(command_queue.msgs)
    BY <1>14 DEF Receive, Held, TypeOK
  <2>4. QED
    BY <1>14, <2>1, <2>2, <2>3, OrderReceive DEF Receive, Blocked
<1>15. ASSUME NEW b \in Backend, Work(b)
       PROVE  CommandOrder'
  <2>1. Held(b) /\ done' = Append(done, buf[b].id)
    BY <1>15 DEF Work, Held
  <2>2. PICK p \in {"waiting", "replying"} : pc' = [pc EXCEPT ![b] = p]
    BY <1>15 DEF Work
  <2>3. Alone' <=> Alone
    BY <2>1, <2>2 DEF Alone, Started, Held, TypeOK
  <2>4. \A c \in Backend : Held(c)' => Held(c) /\ c # b /\ buf'[c] = buf[c]
    BY <1>15, <2>2 DEF Work, Held, TypeOK
  <2>5. QED
    BY <1>15, <2>1, <2>3, <2>4, OrderWork DEF Work, Blocked
<1>16. ASSUME NEW b \in Backend, SendResponse(b)
       PROVE  CommandOrder'
  <2>1. Alone' => Alone
    BY <1>16 DEF SendResponse, Alone, Started, TypeOK
  <2>2. QED
    BY <1>16, <2>1, OrderFrame DEF SendResponse, Held, Blocked, TypeOK
<1>17. ASSUME NEW type \in Commands, RequestFails(type)
       PROVE  CommandOrder'
  <2>1. Blocked' = 0
    BY <1>17 DEF RequestFails, Blocked
  <2>2. QED
    BY <1>17, <2>1, OrderFrame DEF RequestFails, Held, Alone, Started
<1>18. ASSUME FrontEndDies
       PROVE  CommandOrder'
  BY <1>18, OrderFrame DEF FrontEndDies, Held, Blocked, Alone, Started
<1>19. ASSUME NEW b \in Backend, BackEndDies(b)
       PROVE  CommandOrder'
  <2>1. Alone' => Alone
    BY <1>19 DEF BackEndDies, Alone, Started, TypeOK
  <2>2. QED
    BY <1>19, <2>1, OrderFrame DEF BackEndDies, Held, Blocked, TypeOK
<1>20. CASE UNCHANGED vars
  BY <1>20, OrderFrame DEF vars, Held, Blocked, Alone, Started
<1>21. QED
  BY <1>1, <1>2, <1>3, <1>4, <1>5, <1>6, <1>7, <1>8, <1>9, <1>10, <1>11,
     <1>12, <1>13, <1>14, <1>15, <1>16, <1>17, <1>18, <1>19, <1>20
     DEF Next, UserStep, FrontEndStep, BackEndStep, Fault

(* Commands stay in order, for any number of back ends, any capacity and   *)
(* any crashes.                                                            *)
THEOREM Ordered == Spec => []CommandOrder
<1>1. TypeOK /\ TypeOK' /\ CommandOrder /\ [Next]_vars => CommandOrder'
  BY OrderStep
<1>2. QED
  BY <1>1, OrderInit, TypeCorrect, PTL DEF Spec

(* No command is carried out twice.                                        *)
THEOREM NeverTwice == Spec => []AtMostOnce
<1>1. CommandOrder => AtMostOnce
  BY DEF CommandOrder
<1>2. QED
  BY <1>1, Ordered, PTL

(* A back end that is alone carries the commands out in the user's order.  *)
THEOREM InOrder == Spec => []OneBackendInOrder
<1>1. CommandOrder => OneBackendInOrder
  BY DEF CommandOrder
<1>2. QED
  BY <1>1, Ordered, PTL
=============================================================================
