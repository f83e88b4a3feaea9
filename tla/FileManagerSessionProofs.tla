---------------------- MODULE FileManagerSessionProofs ---------------------
(***************************************************************************)
(* What a shutdown leaves behind and what it does not lose: Isolation and  *)
(* Delivery are inductive. Isolation needs the types alone; Delivery also  *)
(* the order of the commands and that an emptied queue stays empty.        *)
(***************************************************************************)
EXTENDS FileManagerProofs

-----------------------------------------------------------------------------
(* What the queue operators do to the ids in a queue.                      *)

LEMMA QueueParts ==
  /\ \A q : /\ Opened(q).id = q.id /\ Opened(q).exists = TRUE /\ Opened(q).msgs = q.msgs
            /\ Removed(q).id = q.id + 1 /\ Removed(q).exists = FALSE
            /\ Removed(q).msgs = << >>
            /\ Taken(q).id = q.id /\ Taken(q).exists = q.exists
            /\ Taken(q).msgs = Tail(q.msgs)
  /\ \A q, m : /\ Sent(q, m).id = q.id /\ Sent(q, m).exists = TRUE
               /\ Sent(q, m).msgs = Append(q.msgs, m)
BY DEF Opened, Removed, NoQueue, Sent, Taken, Queue

LEMMA QueueContents ==
  ASSUME NEW M, NEW q \in QueueOf(M)
  PROVE  /\ Queued(Opened(q)) = Queued(q)
         /\ Queued(Removed(q)) = {}
         /\ \A m \in M : Queued(Sent(q, m)) = Queued(q) \cup {m.id}
         /\ q.msgs # << >> =>
              /\ Head(q.msgs) = q.msgs[1] /\ 1 \in DOMAIN q.msgs
              /\ Queued(q) = Queued(Taken(q)) \cup {Head(q.msgs).id}
         /\ q.msgs = << >> => Queued(q) = {}
<1> DEFINE s == q.msgs
           n == Len(q.msgs)
<1>1. s \in Seq(M) /\ n \in Nat /\ DOMAIN s = 1..n
  BY DEF QueueOf
<1>2. Queued(Opened(q)) = Queued(q) /\ Queued(Removed(q)) = {}
  <2>1. Opened(q).msgs = s /\ Removed(q).msgs = << >>
    BY QueueParts
  <2>2. DOMAIN << >> = {}
    OBVIOUS
  <2>3. QED
    BY <2>1, <2>2 DEF Queued
<1>3. \A p : \A x : x \in Queued(p) <=> \E k \in DOMAIN p.msgs : x = p.msgs[k].id
  BY DEF Queued
<1>4. ASSUME NEW m \in M
      PROVE  Queued(Sent(q, m)) = Queued(q) \cup {m.id}
  <2> DEFINE r == Append(s, m)
  <2>1. DOMAIN r = 1..(n + 1) /\ r[n + 1] = m /\ \A i \in 1..n : r[i] = s[i]
    BY <1>1, AppendProperties
  <2>2. \A i \in 1..(n + 1) : i \in 1..n \/ i = n + 1
    BY <1>1
  <2>3. 1..n \subseteq 1..(n + 1) /\ n + 1 \in 1..(n + 1)
    BY <1>1
  <2>4. Sent(q, m).msgs = r
    BY QueueParts
  <2> HIDE DEF n, r
  <2>5. \A x : x \in Queued(Sent(q, m)) <=> x \in Queued(q) \/ x = m.id
    BY <1>1, <1>3, <2>1, <2>2, <2>3, <2>4
  <2>6. QED
    BY <2>5
<1>5. ASSUME s # << >>
      PROVE  /\ Head(s) = s[1] /\ 1 \in DOMAIN s
             /\ Queued(q) = Queued(Taken(q)) \cup {Head(s).id}
  <2> DEFINE r == Tail(s)
  <2>1. n >= 1 /\ Head(s) = s[1]
    BY <1>1, <1>5, EmptySeq
  <2>2. DOMAIN r = 1..(n - 1) /\ \A i \in 1..(n - 1) : r[i] = s[i + 1]
    BY <1>1, <1>5, HeadTailProperties
  <2>3. 1 \in 1..n /\ \A i \in 1..(n - 1) : i + 1 \in 1..n
    BY <1>1, <2>1
  <2>4. \A i \in 1..n : i # 1 => i - 1 \in 1..(n - 1) /\ (i - 1) + 1 = i
    BY <1>1, <2>1
  <2>5. Taken(q).msgs = r
    BY QueueParts
  <2> HIDE DEF n, r
  <2>6. \A i \in 1..n : i # 1 => s[i] = r[i - 1] /\ i - 1 \in 1..(n - 1)
    BY <2>2, <2>4
  <2>7. \A x : x \in Queued(q) <=> x \in Queued(Taken(q)) \/ x = s[1].id
    <3>1. ASSUME NEW x, x \in Queued(q)
          PROVE  x \in Queued(Taken(q)) \/ x = s[1].id
      <4>1. PICK k \in 1..n : x = s[k].id
        BY <1>1, <1>3, <3>1
      <4>2. CASE k = 1
        BY <4>1, <4>2
      <4>3. CASE k # 1
        <5>1. k - 1 \in DOMAIN r /\ x = r[k - 1].id
          BY <2>2, <2>6, <4>1, <4>3
        <5>2. QED
          BY <1>3, <2>5, <5>1
      <4>4. QED
        BY <4>2, <4>3
    <3>2. ASSUME NEW x, x \in Queued(Taken(q))
          PROVE  x \in Queued(q)
      <4>1. PICK k \in 1..(n - 1) : x = r[k].id
        <5>1. \E k \in DOMAIN r : x = r[k].id
          BY <1>3, <2>5, <3>2
        <5>2. QED
          BY <2>2, <5>1
      <4>2. k + 1 \in DOMAIN s /\ x = s[k + 1].id
        BY <1>1, <2>2, <2>3, <4>1
      <4>3. QED
        BY <1>3, <4>2
    <3>3. s[1].id \in Queued(q)
      BY <1>1, <1>3, <2>3
    <3>4. QED
      BY <3>1, <3>2, <3>3
  <2>8. QED
    BY <1>1, <2>1, <2>3, <2>7
<1>6. s = << >> => Queued(q) = {}
  BY DEF Queued
<1>7. QED
  BY <1>2, <1>4, <1>5, <1>6

(* The facts about the state that the session proofs start from.           *)
LEMMA SessionTypes ==
  ASSUME TypeOK
  PROVE  /\ command_queue \in QueueOf(Message) /\ response_queue \in QueueOf(Answer)
         /\ command_queue.id \in Nat /\ response_queue.id \in Nat
         /\ issued \in Nat /\ base \in Nat /\ faults \in Nat
         /\ \A b \in Backend : response_msgid[b] \in Nat
         /\ \A m \in Message : m.id \in Nat /\ m.id >= 1
<1>1. issued \in Nat /\ faults \in Nat
  BY BoundsAssumption DEF TypeOK
<1>2. \A m \in Message : m.id \in Nat /\ m.id >= 1
  BY MessageTypes, BoundsAssumption
<1>3. QED
  BY <1>1, <1>2 DEF TypeOK, QueueOf

-----------------------------------------------------------------------------
(* Isolation.                                                              *)

LEMMA IsolationInit == Init => Isolation
<1> SUFFICES ASSUME Init PROVE Isolation
  OBVIOUS
<1>1. /\ command_queue.msgs = << >> /\ response_queue.msgs = << >>
      /\ \A b \in Backend : pc[b] = "unused"
  BY DEF Init, NoQueue, Queue
<1>2. Queued(command_queue) = {} /\ Queued(response_queue) = {} /\ Unsent = {}
  BY <1>1 DEF Init, Queued, Unsent
<1>3. QED
  BY <1>1, <1>2 DEF Init, Isolation, QueuesSound, OwnSession, LeftClean, Attached, Busy

(* A step that brings no command and no answer: the queues keep theirs,    *)
(* and a back end that holds one held it before.                           *)
LEMMA IsolationFrame ==
  ASSUME TypeOK, Isolation,
         base' = base, issued' = issued, faults' >= faults, faults' \in Nat,
         command_queue'.msgs = command_queue.msgs,
         response_queue'.msgs = response_queue.msgs,
         response_queue'.id = response_queue.id,
         command_queue'.exists \/ command_queue'.exists = command_queue.exists,
         response_queue'.exists \/ response_queue'.exists = response_queue.exists,
         Unsent' \subseteq Unsent,
         \A b \in Backend : Attached(b)' =>
           \/ Attached(b) /\ response_msgid'[b] = response_msgid[b]
           \/ response_msgid'[b] = response_queue.id /\ response_queue'.exists,
         \A b \in Backend : b \in Busy' =>
           /\ pc'[b] = pc[b] /\ response_msgid'[b] = response_msgid[b]
           /\ buf'[b] = buf[b] /\ response'[b] = response[b],
         faults' = 0 /\ ui' \in {"removing", "off"} =>
           ui' = ui \/ (ui' = "removing" /\ command_queue.msgs = << >>)
  PROVE  Isolation'
<1> USE SessionTypes
<1>1. Queued(command_queue)' = Queued(command_queue)
  BY DEF Queued
<1>2. Queued(response_queue)' = Queued(response_queue)
  BY DEF Queued
<1>3. \A b \in Backend : b \in Busy <=> pc[b] \in {"working", "replying"}
  BY DEF Busy
<1>4. \A b \in Backend : b \in Busy' <=> pc'[b] \in {"working", "replying"}
  BY DEF Busy
<1>5. QueuesSound'
  BY DEF Isolation, QueuesSound, Valid
<1>6. faults' = 0 => faults = 0
  OBVIOUS
<1>7. ASSUME faults' = 0
      PROVE  OwnSession'
  <2>1. OwnSession
    BY <1>6, <1>7 DEF Isolation
  <2>2. ASSUME NEW b \in Backend, Valid(b)'
        PROVE  /\ pc'[b] = "working" => buf'[b].id > base
               /\ pc'[b] = "replying" => response'[b].id > base
    BY <1>4, <2>1, <2>2 DEF OwnSession, Valid
  <2>3. QED
    BY <1>1, <1>2, <2>1, <2>2 DEF OwnSession
<1>8. ASSUME faults' = 0
      PROVE  LeftClean'
  <2>1. LeftClean
    BY <1>6, <1>8 DEF Isolation
  <2>2. ASSUME NEW b \in Busy', ui' = "off"
        PROVE  ~Valid(b)'
    BY <1>3, <1>4, <1>8, <2>1, <2>2 DEF LeftClean, Valid, Busy
  <2>3. QED
    BY <1>8, <2>1, <2>2 DEF LeftClean
<1>9. QED
  BY <1>5, <1>7, <1>8 DEF Isolation

(* A message of the current session reaches the command queue, or waits    *)
(* for room.                                                               *)
LEMMA IsolationSend ==
  ASSUME TypeOK, Isolation, NEW m \in Message, m.id > base,
         base' = base, faults' = faults, issued' >= issued, issued' \in Nat,
         \/ command_queue' = Sent(command_queue, m) /\ Unsent' = {}
         \/ command_queue' = command_queue /\ Unsent' = {m.id},
         UNCHANGED <<response_queue, pc, response_msgid, buf, response>>,
         ui' \notin {"removing", "off"}
  PROVE  Isolation'
<1> USE SessionTypes
<1>1. \/ /\ Queued(command_queue)' = Queued(command_queue) \cup {m.id}
         /\ command_queue'.exists /\ Unsent' = {}
      \/ command_queue' = command_queue /\ Unsent' = {m.id}
  BY QueueContents, QueueParts
<1>2. QueuesSound'
  BY <1>1 DEF Isolation, QueuesSound, Attached, Valid
<1>3. ASSUME faults' = 0
      PROVE  OwnSession' /\ LeftClean'
  <2>1. OwnSession
    BY <1>3 DEF Isolation
  <2>2. Queued(command_queue)' \cup Unsent' \subseteq Queued(command_queue) \cup {m.id}
    BY <1>1
  <2>3. OwnSession'
    BY <2>1, <2>2 DEF OwnSession, Valid
  <2>4. QED
    BY <2>3 DEF LeftClean
<1>4. QED
  BY <1>2, <1>3 DEF Isolation

LEMMA IsolationStep ==
  ASSUME TypeOK, TypeOK', Isolation, [Next]_vars
  PROVE  Isolation'
<1> USE SessionTypes DEF uiVars, queues, backendVars, history
<1>1. ASSUME NEW b \in Backend, Launch(b)
      PROVE  Isolation'
  <2>1. /\ UNCHANGED <<queues, outgoing, issued, faults, response_msgid, buf, response>>
        /\ ui = "off" /\ ui' = "idle" /\ base' = issued
        /\ \A c \in Backend : c \in Busy' => pc'[c] = pc[c]
        /\ \A c \in Backend : Attached(c)' => Attached(c)
    BY <1>1 DEF Launch, Fork, Busy, Attached, TypeOK
  <2>2. QueuesSound'
    BY <2>1 DEF Isolation, QueuesSound, Valid
  <2>3. ASSUME faults' = 0
        PROVE  OwnSession' /\ LeftClean'
    <3>1. LeftClean /\ command_queue.msgs = << >> /\ response_queue.msgs = << >>
      BY <2>1, <2>3 DEF Isolation, LeftClean
    <3>2. Queued(command_queue) = {} /\ Queued(response_queue) = {} /\ Unsent' = {}
      BY <2>1, <3>1, QueueContents DEF Unsent
    <3>3. \A c \in Backend : Valid(c)' => pc'[c] \notin {"working", "replying"}
      BY <2>1, <3>1 DEF LeftClean, Busy, Valid
    <3>4. Queued(command_queue)' = {} /\ Queued(response_queue)' = {}
      BY <2>1, <3>2
    <3>5. QED
      BY <2>1, <3>2, <3>3, <3>4 DEF OwnSession, LeftClean
  <2>4. QED
    BY <2>2, <2>3 DEF Isolation
<1>2. ASSUME NEW b \in Backend, LaunchAgain(b)
      PROVE  Isolation'
  BY <1>2, IsolationFrame DEF LaunchAgain, Fork, Unsent, Busy, Attached, TypeOK
<1>3. ASSUME NEW b \in Backend, AttachCommand(b)
      PROVE  Isolation'
  BY <1>3, IsolationFrame, QueueParts DEF AttachCommand, Unsent, Busy, Attached, TypeOK
<1>4. ASSUME NEW b \in Backend, AttachResponse(b)
      PROVE  Isolation'
  BY <1>4, IsolationFrame, QueueParts DEF AttachResponse, Unsent, Busy, Attached, TypeOK
<1>5. ASSUME NEW type \in Commands, Request(type)
      PROVE  Isolation'
  <2> DEFINE m == [type |-> type, id |-> issued + 1]
  <2>1. issued + 1 \in 1..MaxMessages
    BY <1>5, BoundsAssumption DEF Request, TypeOK
  <2>2. m \in Message /\ m.id > base
    BY <2>1 DEF Message, Isolation, QueuesSound
  <2>3. CASE Deliver(m)
    <3>1. command_queue' = Sent(command_queue, m) /\ Unsent' = {} /\ ui' = "idle"
      BY <2>3 DEF Deliver, Unsent
    <3>2. QED
      BY <1>5, <2>2, <3>1, IsolationSend DEF Request
  <2>4. CASE ~Deliver(m)
    <3>1. command_queue' = command_queue /\ Unsent' = {m.id} /\ ui' = "sending"
      BY <1>5, <2>4 DEF Request, Unsent
    <3>2. QED
      BY <1>5, <2>2, <3>1, IsolationSend DEF Request
  <2>5. QED
    BY <2>3, <2>4
<1>6. ASSUME NEW type \in Commands, CancelDialog(type)
      PROVE  Isolation'
  BY <1>6, IsolationFrame DEF CancelDialog, Unsent, Busy, Attached
<1>7. ASSUME Quit
      PROVE  Isolation'
  <2>1. CASE command_queue.exists
    <3>1. issued + 1 \in 1..MaxMessages
      BY <1>7, <2>1, BoundsAssumption DEF Quit, TypeOK
    <3>2. QuitMessage \in Message /\ QuitMessage.id > base
      BY <3>1 DEF Message, QuitMessage, Isolation, QueuesSound
    <3>3. \/ command_queue' = Sent(command_queue, QuitMessage) /\ Unsent' = {}
          \/ command_queue' = command_queue /\ Unsent' = {QuitMessage.id}
      BY <1>7, <2>1 DEF Quit, Unsent
    <3>4. QED
      BY <1>7, <2>1, <3>2, <3>3, IsolationSend DEF Quit
  <2>2. CASE ~command_queue.exists
    <3>1. command_queue.msgs = << >>
      BY <2>2 DEF Isolation, QueuesSound
    <3>2. QED
      BY <1>7, <2>2, <3>1, IsolationFrame DEF Quit, Unsent, Busy, Attached
  <2>3. QED
    BY <2>1, <2>2
<1>8. ASSUME RequestResumes \/ QuitResumes
      PROVE  Isolation'
  <2>1. /\ outgoing \in Message /\ Unsent = {outgoing.id} /\ Unsent' = {}
        /\ command_queue' = Sent(command_queue, outgoing)
        /\ ui' \notin {"removing", "off"}
    BY <1>8 DEF RequestResumes, QuitResumes, Deliver, Unsent, TypeOK
  <2>2. UNCHANGED <<response_queue, backendVars, history>>
    BY <1>8 DEF RequestResumes, QuitResumes
  <2>3. CASE faults = 0
    <3>1. outgoing.id > base
      BY <2>1, <2>3 DEF Isolation, OwnSession
    <3>2. QED
      BY <2>1, <2>2, <3>1, IsolationSend
  <2>4. CASE faults # 0
    BY <2>1, <2>2, <2>4, QueueParts DEF Isolation, QueuesSound, Attached, Valid
  <2>5. QED
    BY <2>3, <2>4
<1>9. ASSUME Poll
      PROVE  Isolation'
  <2>1. CASE response_queue.msgs = << >>
    BY <1>9, <2>1, IsolationFrame, QueueParts DEF Poll, Unsent, Busy, Attached
  <2>2. CASE response_queue.msgs # << >>
    <3>1. Queued(response_queue)' \subseteq Queued(response_queue)
      BY <1>9, <2>2, QueueContents DEF Poll
    <3>2. /\ response_queue'.id = response_queue.id /\ response_queue.exists
          /\ response_queue'.exists = response_queue.exists
      BY <1>9, <2>2, QueueParts DEF Poll, Isolation, QueuesSound
    <3>3. QueuesSound'
      BY <1>9, <3>2 DEF Poll, Isolation, QueuesSound, Attached, Valid
    <3>4. faults' = 0 => OwnSession'
      BY <1>9, <3>1, <3>2 DEF Poll, Isolation, OwnSession, Valid, Unsent
    <3>5. LeftClean'
      BY <1>9 DEF Poll, LeftClean
    <3>6. QED
      BY <3>3, <3>4, <3>5 DEF Isolation
  <2>3. QED
    BY <2>1, <2>2
<1>10. ASSUME Refresh
       PROVE  Isolation'
  BY <1>10, IsolationFrame DEF Refresh, Unsent, Busy, Attached
<1>11. ASSUME RemoveCommandQueue
       PROVE  Isolation'
  <2>1. Queued(command_queue)' = {} /\ command_queue'.msgs = << >> /\ Unsent' = {}
    BY <1>11, QueueContents, QueueParts DEF RemoveCommandQueue, Unsent
  <2>2. QueuesSound'
    BY <1>11, <2>1 DEF RemoveCommandQueue, Isolation, QueuesSound, Attached, Valid
  <2>3. faults' = 0 => OwnSession'
    BY <1>11, <2>1 DEF RemoveCommandQueue, Isolation, OwnSession, Valid
  <2>4. LeftClean'
    BY <1>11, <2>1 DEF RemoveCommandQueue, LeftClean
  <2>5. QED
    BY <2>2, <2>3, <2>4 DEF Isolation
<1>12. ASSUME RemoveResponseQueue
       PROVE  Isolation'
  <2>1. /\ UNCHANGED <<command_queue, backendVars, history>>
        /\ Unsent' = {} /\ ui = "removing" /\ ui' = "off"
    BY <1>12 DEF RemoveResponseQueue, Unsent
  <2>2. /\ response_queue'.msgs = << >> /\ ~response_queue'.exists
        /\ Queued(response_queue)' = {}
    BY <1>12, QueueParts, QueueContents DEF RemoveResponseQueue, Isolation, QueuesSound
  <2>3. \A b \in Backend : Attached(b) => ~Valid(b)'
    BY <1>12, QueueParts DEF RemoveResponseQueue, Isolation, QueuesSound, Valid
  <2>4. \A b \in Backend : Attached(b) =>
          response_msgid'[b] <= response_queue'.id
    BY <1>12, QueueParts DEF RemoveResponseQueue, Isolation, QueuesSound
  <2>5. QueuesSound'
    BY <2>1, <2>2, <2>3, <2>4 DEF Isolation, QueuesSound, Attached
  <2>6. ASSUME faults' = 0
        PROVE  OwnSession' /\ LeftClean'
    <3>1. OwnSession /\ LeftClean
      BY <2>1, <2>6 DEF Isolation
    <3>2. Queued(command_queue)' = Queued(command_queue)
      BY <2>1
    <3>3. OwnSession'
      BY <2>1, <2>2, <2>3, <3>1, <3>2 DEF OwnSession, Attached
    <3>4. LeftClean'
      BY <2>1, <2>2, <2>3, <3>1 DEF LeftClean, Busy, Attached
    <3>5. QED
      BY <3>3, <3>4
  <2>7. QED
    BY <2>5, <2>6 DEF Isolation
<1>13. ASSUME NEW b \in Backend, Receive(b)
       PROVE  Isolation'
  <2> DEFINE m == Head(command_queue.msgs)
  <2>1. /\ command_queue.msgs # << >> /\ command_queue' = Taken(command_queue)
        /\ UNCHANGED <<uiVars, response_queue, response_msgid, response, history>>
        /\ pc[b] = "waiting"
        /\ \A c \in Backend : c # b => pc'[c] = pc[c] /\ buf'[c] = buf[c]
        /\ \/ pc'[b] = "exited"
           \/ pc'[b] = "working" /\ buf'[b] = m
    BY <1>13 DEF Receive, TypeOK
  <2>2. Queued(command_queue) = Queued(command_queue)' \cup {m.id}
    BY <2>1, QueueContents
  <2>3. command_queue.exists /\ command_queue'.exists
    BY <2>1, QueueParts DEF Isolation, QueuesSound
  <2>4. QueuesSound'
    BY <2>1, <2>3 DEF Isolation, QueuesSound, Attached, Valid
  <2>5. ASSUME faults' = 0
        PROVE  OwnSession' /\ LeftClean'
    <3>1. OwnSession /\ LeftClean
      BY <2>1, <2>5 DEF Isolation
    <3>2. OwnSession'
      BY <2>1, <2>2, <3>1 DEF OwnSession, Valid, Unsent
    <3>3. LeftClean'
      BY <2>1, <3>1 DEF LeftClean
    <3>4. QED
      BY <3>2, <3>3
  <2>6. QED
    BY <2>4, <2>5 DEF Isolation
<1>14. ASSUME NEW b \in Backend, Work(b)
       PROVE  Isolation'
  <2>1. /\ UNCHANGED <<uiVars, queues, response_msgid, issued, base, faults>>
        /\ pc[b] = "working"
        /\ \A c \in Backend : c # b => pc'[c] = pc[c] /\ buf'[c] = buf[c]
                                        /\ response'[c] = response[c]
        /\ \/ pc'[b] = "waiting"
           \/ pc'[b] = "replying" /\ response'[b].id = buf[b].id
    <3>1. PICK text \in Outcomes(buf[b].type) :
            IF text = "none"
            THEN pc' = [pc EXCEPT ![b] = "waiting"] /\ UNCHANGED response
            ELSE /\ pc' = [pc EXCEPT ![b] = "replying"]
                 /\ response' = [response EXCEPT ![b] = [text |-> text, id |-> buf[b].id]]
      BY <1>14 DEF Work
    <3>2. QED
      BY <1>14, <3>1 DEF Work, TypeOK
  <2>2. QueuesSound'
    BY <2>1 DEF Isolation, QueuesSound, Attached, Valid
  <2>3. ASSUME faults' = 0
        PROVE  OwnSession' /\ LeftClean'
    <3>1. OwnSession /\ LeftClean
      BY <2>1, <2>3 DEF Isolation
    <3>2. /\ Queued(command_queue)' = Queued(command_queue)
          /\ Queued(response_queue)' = Queued(response_queue)
          /\ Unsent' = Unsent
      BY <2>1 DEF Unsent
    <3>3. \A c \in Backend : Valid(c)' => /\ pc'[c] = "working" => buf'[c].id > base'
                                          /\ pc'[c] = "replying" => response'[c].id > base'
      BY <2>1, <3>1 DEF OwnSession, Valid
    <3>4. \A i \in Queued(command_queue)' \cup Queued(response_queue)' \cup Unsent' : i > base'
      BY <2>1, <3>1, <3>2 DEF OwnSession
    <3>5. OwnSession'
      BY <3>3, <3>4 DEF OwnSession
    <3>6. LeftClean'
      BY <2>1, <3>1 DEF LeftClean, Busy, Valid
    <3>7. QED
      BY <3>5, <3>6
  <2>4. QED
    BY <2>2, <2>3 DEF Isolation
<1>15. ASSUME NEW b \in Backend, SendResponse(b)
       PROVE  Isolation'
  <2>1. /\ UNCHANGED <<uiVars, command_queue, response_msgid, buf, history>>
        /\ pc[b] = "replying" /\ pc'[b] = "waiting"
        /\ \A c \in Backend : c # b => pc'[c] = pc[c] /\ response'[c] = response[c]
        /\ response[b] \in Answer
    BY <1>15 DEF SendResponse, TypeOK
  <2>2. CASE response_queue' = response_queue
    BY <1>15, <2>1, <2>2, IsolationFrame DEF Unsent, Busy, Attached, TypeOK
  <2>3. CASE response_queue' = Sent(response_queue, response[b]) /\ Valid(b)
    <3>1. /\ Queued(response_queue)' = Queued(response_queue) \cup {response[b].id}
          /\ response_queue'.id = response_queue.id /\ response_queue'.exists
      BY <2>1, <2>3, QueueContents, QueueParts
    <3>2. QueuesSound'
      BY <2>1, <3>1 DEF Isolation, QueuesSound, Attached, Valid
    <3>3. ASSUME faults' = 0
          PROVE  OwnSession' /\ LeftClean'
      <4>1. OwnSession /\ LeftClean /\ response[b].id > base
        BY <2>1, <2>3, <3>3 DEF Isolation, OwnSession
      <4>2. OwnSession'
        BY <2>1, <3>1, <4>1 DEF OwnSession, Valid, Unsent
      <4>3. ui' # "off"
        BY <2>1, <2>3, <4>1 DEF LeftClean, Busy
      <4>4. LeftClean'
        BY <2>1, <4>1, <4>3 DEF LeftClean
      <4>5. QED
        BY <4>2, <4>4
    <3>4. QED
      BY <3>2, <3>3 DEF Isolation
  <2>4. QED
    BY <1>15, <2>2, <2>3 DEF SendResponse, Valid
<1>16. ASSUME (\E type \in Commands : RequestFails(type)) \/ FrontEndDies
              \/ \E b \in Backend : BackEndDies(b)
       PROVE  Isolation'
  <2>1. /\ UNCHANGED <<queues, response_msgid, issued, base>> /\ faults' # 0
        /\ \A c \in Backend : Attached(c)' => Attached(c)
    BY <1>16 DEF RequestFails, FrontEndDies, BackEndDies, Attached, TypeOK
  <2>2. QED
    BY <2>1 DEF Isolation, QueuesSound, Valid
<1>17. CASE UNCHANGED vars
  BY <1>17, IsolationFrame DEF vars, Unsent, Busy, Attached
<1>18. QED
  BY <1>1, <1>2, <1>3, <1>4, <1>5, <1>6, <1>7, <1>8, <1>9, <1>10, <1>11, <1>12,
     <1>13, <1>14, <1>15, <1>16, <1>17
     DEF Next, UserStep, FrontEndStep, BackEndStep, Fault

(* What is in the queues always belongs to the current session, and a      *)
(* session that ends leaves nothing in them, as long as nothing crashed.   *)
THEOREM Isolated == Spec => []Isolation
<1>1. TypeOK /\ TypeOK' /\ Isolation /\ [Next]_vars => Isolation'
  BY IsolationStep
<1>2. QED
  BY <1>1, IsolationInit, TypeCorrect, PTL DEF Spec

(* Whatever back ends a session leaves behind, the next one reads none of  *)
(* its commands and none of its answers.                                   *)
THEOREM SessionsApart == Spec => []SessionIsolation
<1>1. TypeOK /\ Isolation => SessionIsolation
  <2> SUFFICES ASSUME TypeOK, Isolation, faults = 0
               PROVE  /\ \A i \in Queued(command_queue) \cup Queued(response_queue) : i > base
                      /\ ui = "off" => Queued(command_queue) \cup Queued(response_queue) = {}
    BY DEF SessionIsolation
  <2>1. OwnSession /\ LeftClean
    BY DEF Isolation
  <2>2. ui = "off" => Queued(command_queue) = {} /\ Queued(response_queue) = {}
    BY <2>1, SessionTypes, QueueContents DEF LeftClean
  <2>3. QED
    BY <2>1, <2>2 DEF OwnSession
<1>2. QED
  BY <1>1, Isolated, TypeCorrect, PTL

-----------------------------------------------------------------------------
(* Delivery.                                                               *)

LEMMA DeliveryInit == Init => Delivery
<1> SUFFICES ASSUME Init PROVE Delivery
  OBVIOUS
<1>1. /\ issued = 0 /\ ui = "off" /\ command_queue.id = 0
      /\ command_queue.msgs = << >> /\ DOMAIN command_queue.msgs = {}
      /\ \A b \in Backend : pc[b] = "unused"
  BY DEF Init, NoQueue, Queue
<1>2. 1..0 = {}
  OBVIOUS
<1>3. NothingLostBeforeQuit
  BY <1>1, <1>2 DEF NothingLostBeforeQuit
<1>4. QED
  BY <1>1, <1>3 DEF Delivery, QuitIsLast, AllCarriedOut

(* What no step undoes: a fault, the removal of the command queue, the     *)
(* start of a back end.                                                    *)
LEMMA NoWayBack ==
  ASSUME TypeOK, TypeOK', [Next]_vars
  PROVE  /\ faults' = 0 => faults = 0
         /\ command_queue'.id = 0 => command_queue.id = 0
         /\ Started \subseteq Started'
         /\ Alone' => Alone
<1> USE SessionTypes DEF uiVars, queues, backendVars, history
<1>1. \/ faults' = faults
      \/ faults' = faults + 1
  BY DEF Next, UserStep, FrontEndStep, BackEndStep, Fault, vars,
     Launch, LaunchAgain, Request, CancelDialog, Quit, RequestResumes,
     Poll, Refresh, QuitResumes, RemoveCommandQueue, RemoveResponseQueue,
     AttachCommand, AttachResponse, Receive, Work, SendResponse,
     RequestFails, FrontEndDies, BackEndDies
<1>2. \/ command_queue' = command_queue
      \/ command_queue' = Opened(command_queue)
      \/ command_queue' = Taken(command_queue)
      \/ command_queue' = Removed(command_queue)
      \/ \E m : command_queue' = Sent(command_queue, m)
  BY DEF Next, UserStep, FrontEndStep, BackEndStep, Fault, vars,
     Launch, LaunchAgain, Request, Deliver, CancelDialog, Quit, RequestResumes,
     Poll, Refresh, QuitResumes, RemoveCommandQueue, RemoveResponseQueue,
     AttachCommand, AttachResponse, Receive, Work, SendResponse,
     RequestFails, FrontEndDies, BackEndDies
<1>3. \A b \in Backend : pc'[b] = "unused" => pc[b] = "unused"
  <2>1. \/ pc' = pc
        \/ \E b \in Backend, p \in Places \ {"unused"} : pc' = [pc EXCEPT ![b] = p]
    BY DEF Next, UserStep, FrontEndStep, BackEndStep, Fault, vars, Places,
       Launch, LaunchAgain, Fork, Request, CancelDialog, Quit, RequestResumes,
       Poll, Refresh, QuitResumes, RemoveCommandQueue, RemoveResponseQueue,
       AttachCommand, AttachResponse, Receive, Work, SendResponse,
       RequestFails, FrontEndDies, BackEndDies
  <2>2. QED
    BY <2>1 DEF TypeOK
<1>4. Started \subseteq Started'
  BY <1>3 DEF Started
<1>5. Alone' => Alone
  BY <1>4 DEF Alone
<1>6. faults' = 0 => faults = 0
  BY <1>1
<1>7. command_queue'.id = 0 => command_queue.id = 0
  BY <1>2, QueueParts
<1>8. QED
  BY <1>4, <1>5, <1>6, <1>7

(* Where the commands are after a step: all are still known somewhere,     *)
(* unless a queue is removed or a process dies, and except for a quit      *)
(* message that is read.                                                   *)
Known == Queued(command_queue) \cup InHand \cup Unsent \cup Carried

LEMMA InHandSame ==
  ASSUME \A b \in Backend : pc[b] = "working" => pc'[b] = "working" /\ buf'[b] = buf[b]
  PROVE  InHand \subseteq InHand'
BY DEF InHand

LEMMA KnownStep ==
  ASSUME TypeOK, TypeOK', Delivery, [Next]_vars,
         faults' = 0, command_queue'.id = 0
  PROVE  \/ /\ issued' = issued /\ Known \subseteq Known'
            /\ ui = "sleeping" => ui' = "sleeping"
         \/ /\ issued' = issued + 1 /\ Known \cup {issued + 1} \subseteq Known'
            /\ ui # "sleeping"
         \/ /\ issued' = issued /\ Known \ {issued} \subseteq Known'
            /\ ui = "sleeping" /\ ui' = "sleeping"
<1> USE SessionTypes, NoWayBack DEF uiVars, queues, backendVars, history
<1>s. /\ \A m \in Message : command_queue' = Sent(command_queue, m) =>
            Queued(command_queue)' = Queued(command_queue) \cup {m.id}
      /\ command_queue'.msgs = command_queue.msgs =>
            Queued(command_queue)' = Queued(command_queue)
  <2>1. \A m \in Message : Queued(Sent(command_queue, m)) = Queued(command_queue) \cup {m.id}
    BY QueueContents
  <2>2. command_queue'.msgs = command_queue.msgs =>
          Queued(command_queue)' = Queued(command_queue)
    BY DEF Queued
  <2>3. QED
    BY <2>1, <2>2
<1>1. ASSUME NEW b \in Backend, Launch(b) \/ LaunchAgain(b)
      PROVE  issued' = issued /\ Known \subseteq Known' /\ (ui = "sleeping" => ui' = "sleeping")
  <2>1. InHand \subseteq InHand'
    BY <1>1, InHandSame DEF Launch, LaunchAgain, Fork, TypeOK
  <2>2. QED
    BY <1>1, <1>s, <2>1 DEF Launch, LaunchAgain, Known, Unsent, Carried
<1>2. ASSUME NEW type \in Commands, Request(type)
      PROVE  /\ issued' = issued + 1 /\ Known \cup {issued + 1} \subseteq Known'
             /\ ui # "sleeping"
  <2> DEFINE m == [type |-> type, id |-> issued + 1]
  <2>1. m \in Message /\ m.id = issued + 1
    <3>1. issued + 1 \in 1..MaxMessages
      BY <1>2, BoundsAssumption DEF Request, TypeOK
    <3>2. QED
      BY <3>1 DEF Message
  <2>2. InHand' = InHand /\ Carried' = Carried /\ Unsent = {}
    BY <1>2 DEF Request, InHand, Carried, Unsent
  <2>3. CASE Deliver(m)
    BY <1>2, <1>s, <2>1, <2>2, <2>3 DEF Request, Deliver, Known
  <2>4. CASE ~Deliver(m)
    <3>1. command_queue' = command_queue /\ Unsent' = {issued + 1}
      BY <1>2, <2>4 DEF Request, Unsent
    <3>2. QED
      BY <1>2, <2>2, <3>1 DEF Request, Known
  <2>5. QED
    BY <2>3, <2>4
<1>3. ASSUME Quit, command_queue.exists
      PROVE  /\ issued' = issued + 1 /\ Known \cup {issued + 1} \subseteq Known'
             /\ ui # "sleeping"
  <2>1. QuitMessage \in Message /\ QuitMessage.id = issued + 1
    <3>1. issued + 1 \in 1..MaxMessages
      BY <1>3, BoundsAssumption DEF Quit, TypeOK
    <3>2. QED
      BY <3>1 DEF Message, QuitMessage
  <2>2. InHand' = InHand /\ Carried' = Carried /\ Unsent = {}
    BY <1>3 DEF Quit, InHand, Carried, Unsent
  <2>3. CASE command_queue' = Sent(command_queue, QuitMessage)
    BY <1>3, <1>s, <2>1, <2>2, <2>3 DEF Quit, Known
  <2>4. CASE command_queue' = command_queue /\ ui' = "quitting" /\ outgoing' = QuitMessage
    <3>1. Unsent' = {issued + 1}
      BY <2>1, <2>4 DEF Unsent
    <3>2. QED
      BY <1>3, <2>2, <2>4, <3>1 DEF Quit, Known
  <2>5. QED
    BY <1>3, <2>3, <2>4 DEF Quit
<1>4. ASSUME RequestResumes \/ QuitResumes
      PROVE  issued' = issued /\ Known \subseteq Known' /\ (ui = "sleeping" => ui' = "sleeping")
  <2>1. /\ outgoing \in Message /\ Unsent = {outgoing.id}
        /\ command_queue' = Sent(command_queue, outgoing)
        /\ UNCHANGED <<backendVars, history>> /\ ui # "sleeping"
    BY <1>4 DEF RequestResumes, QuitResumes, Deliver, Unsent, TypeOK
  <2>2. InHand' = InHand /\ Carried' = Carried
    BY <2>1 DEF InHand, Carried
  <2>3. QED
    BY <1>s, <2>1, <2>2 DEF Known
<1>5. ASSUME NEW b \in Backend, Receive(b)
      PROVE  \/ /\ issued' = issued /\ Known \subseteq Known'
                /\ ui = "sleeping" => ui' = "sleeping"
             \/ /\ issued' = issued /\ Known \ {issued} \subseteq Known'
                /\ ui = "sleeping" /\ ui' = "sleeping"
  <2> DEFINE m == Head(command_queue.msgs)
  <2>1. /\ command_queue.msgs # << >> /\ command_queue' = Taken(command_queue)
        /\ UNCHANGED <<uiVars, response_queue, response_msgid, response, history>>
        /\ pc[b] = "waiting"
    BY <1>5 DEF Receive
  <2>2. /\ Queued(command_queue) = Queued(command_queue)' \cup {m.id}
        /\ m = command_queue.msgs[1] /\ 1 \in DOMAIN command_queue.msgs
    BY <2>1, QueueContents
  <2>3. InHand \subseteq InHand'
    BY <1>5, <2>1, InHandSame DEF Receive, TypeOK
  <2>4. Carried' = Carried /\ Unsent' = Unsent
    BY <2>1 DEF Carried, Unsent
  <2>5. CASE m.type = QUIT
    <3>1. ui = "sleeping" /\ m.id = issued
      BY <2>2, <2>5 DEF Delivery, QuitIsLast
    <3>2. QED
      BY <2>1, <2>2, <2>3, <2>4, <3>1 DEF Known
  <2>6. CASE m.type # QUIT
    <3>1. pc'[b] = "working" /\ buf'[b] = m
      BY <1>5, <2>6 DEF Receive, TypeOK
    <3>2. m.id \in InHand'
      BY <3>1 DEF InHand
    <3>3. QED
      BY <2>1, <2>2, <2>3, <2>4, <3>2 DEF Known
  <2>7. QED
    BY <2>5, <2>6
<1>6. ASSUME NEW b \in Backend, Work(b)
      PROVE  issued' = issued /\ Known \subseteq Known' /\ (ui = "sleeping" => ui' = "sleeping")
  <2>1. /\ UNCHANGED <<uiVars, queues, issued>> /\ done' = Append(done, buf[b].id)
        /\ pc[b] = "working" /\ buf[b].id \in Nat
        /\ \A c \in Backend : c # b => pc'[c] = pc[c] /\ buf'[c] = buf[c]
    <3>1. \E p : pc' = [pc EXCEPT ![b] = p]
      BY <1>6 DEF Work
    <3>2. buf[b] \in Message
      BY <1>6 DEF Work, TypeOK
    <3>3. QED
      BY <1>6, <3>1, <3>2 DEF Work, TypeOK
  <2>2. Carried' = Carried \cup {buf[b].id}
    <3> DEFINE n == Len(done)
    <3>1. /\ n \in Nat /\ DOMAIN done = 1..n /\ DOMAIN done' = 1..(n + 1)
          /\ \A i \in 1..n : done'[i] = done[i]
          /\ done'[n + 1] = buf[b].id
      BY <2>1, OrderTypes, AppendProperties
    <3>2. \A i \in 1..(n + 1) : i \in 1..n \/ i = n + 1
      BY <3>1
    <3>3. 1..n \subseteq 1..(n + 1) /\ n + 1 \in 1..(n + 1)
      BY <3>1
    <3> HIDE DEF n
    <3>4. \A x : x \in Carried' <=> x \in Carried \/ x = buf[b].id
      BY <3>1, <3>2, <3>3 DEF Carried
    <3>5. QED
      BY <3>4
  <2>3. \A c \in Backend : pc[c] = "working" /\ c # b => buf[c].id \in InHand'
    BY <2>1 DEF InHand
  <2>4. InHand \subseteq InHand' \cup {buf[b].id}
    BY <2>3 DEF InHand
  <2>5. Unsent' = Unsent /\ Queued(command_queue)' = Queued(command_queue)
    BY <2>1 DEF Unsent
  <2>6. QED
    BY <2>1, <2>2, <2>4, <2>5 DEF Known
<1>7. ASSUME \/ \E b \in Backend : AttachCommand(b) \/ AttachResponse(b) \/ SendResponse(b)
             \/ \E type \in Commands : CancelDialog(type)
             \/ Quit /\ ~command_queue.exists
             \/ Poll \/ Refresh \/ RemoveResponseQueue \/ UNCHANGED vars
      PROVE  issued' = issued /\ Known \subseteq Known' /\ (ui = "sleeping" => ui' = "sleeping")
  <2>1. /\ issued' = issued /\ done' = done
        /\ command_queue'.msgs = command_queue.msgs
        /\ ui = "sleeping" => ui' = "sleeping"
    BY <1>7, QueueParts DEF AttachCommand, AttachResponse, SendResponse, CancelDialog, Quit, Poll,
       Refresh, RemoveResponseQueue, vars
  <2>2. Unsent' = Unsent
    BY <1>7 DEF AttachCommand, AttachResponse, SendResponse, CancelDialog, Quit, Poll,
       Refresh, RemoveResponseQueue, vars, Unsent
  <2>3. \A c \in Backend : pc[c] = "working" => pc'[c] = "working" /\ buf'[c] = buf[c]
    BY <1>7 DEF AttachCommand, AttachResponse, SendResponse, CancelDialog, Quit, Poll,
       Refresh, RemoveResponseQueue, vars, TypeOK
  <2>4. InHand \subseteq InHand'
    BY <2>3, InHandSame
  <2>5. QED
    BY <1>s, <2>1, <2>2, <2>4 DEF Known, Carried
<1>8. ~RemoveCommandQueue
  BY QueueParts DEF RemoveCommandQueue
<1>9. ~Fault
  BY DEF Fault, RequestFails, FrontEndDies, BackEndDies
<1>10. QED
  BY <1>1, <1>2, <1>3, <1>4, <1>5, <1>6, <1>7, <1>8, <1>9
     DEF Next, UserStep, FrontEndStep, BackEndStep

LEMMA NothingLostStep ==
  ASSUME TypeOK, TypeOK', Delivery, [Next]_vars
  PROVE  NothingLostBeforeQuit'
<1> USE SessionTypes
<1> SUFFICES ASSUME faults' = 0, command_queue'.id = 0,
                    NEW i \in 1..(IF ui' = "sleeping" THEN issued' - 1 ELSE issued')
             PROVE  i \in Known'
  BY DEF NothingLostBeforeQuit, Known
<1>1. \A j \in 1..(IF ui = "sleeping" THEN issued - 1 ELSE issued) : j \in Known
  BY NoWayBack DEF Delivery, NothingLostBeforeQuit, Known
<1>2. i \in Nat /\ 1 <= i /\ i <= issued' /\ (ui' = "sleeping" => i # issued')
  <2>1. issued' \in Nat
    BY KnownStep
  <2>2. CASE ui' = "sleeping"
    <3>1. i \in 1..(issued' - 1)
      BY <2>2
    <3>2. \A n \in Nat : \A j \in 1..(n - 1) : j \in Nat /\ 1 <= j /\ j <= n /\ j # n
      OBVIOUS
    <3>3. QED
      BY <2>1, <3>1, <3>2
  <2>3. CASE ui' # "sleeping"
    BY <2>1, <2>3
  <2>4. QED
    BY <2>2, <2>3
<1>3. CASE /\ issued' = issued /\ Known \subseteq Known'
           /\ ui = "sleeping" => ui' = "sleeping"
  <2>1. i \in 1..(IF ui = "sleeping" THEN issued - 1 ELSE issued)
    BY <1>2, <1>3
  <2>2. QED
    BY <1>1, <1>3, <2>1
<1>4. CASE /\ issued' = issued + 1 /\ Known \cup {issued + 1} \subseteq Known'
           /\ ui # "sleeping"
  <2>1. i = issued + 1 \/ i \in 1..(IF ui = "sleeping" THEN issued - 1 ELSE issued)
    BY <1>2, <1>4
  <2>2. QED
    BY <1>1, <1>4, <2>1
<1>5. CASE /\ issued' = issued /\ Known \ {issued} \subseteq Known'
           /\ ui = "sleeping" /\ ui' = "sleeping"
  <2>1. i # issued /\ i \in 1..(IF ui = "sleeping" THEN issued - 1 ELSE issued)
    BY <1>2, <1>5
  <2>2. QED
    BY <1>1, <1>5, <2>1
<1>6. QED
  BY <1>3, <1>4, <1>5, KnownStep

LEMMA NoQuitSendingStep ==
  ASSUME TypeOK, ui = "sending" => outgoing.type # QUIT, [Next]_vars
  PROVE  ui' = "sending" => outgoing'.type # QUIT
<1> SUFFICES ASSUME ui' = "sending" PROVE outgoing'.type # QUIT
  OBVIOUS
<1> USE DEF uiVars, queues, backendVars, history
<1>1. ASSUME NEW type \in Commands, Request(type)
      PROVE  outgoing'.type # QUIT
  <2>1. outgoing'.type = type
    BY <1>1 DEF Request, Deliver
  <2>2. type # QUIT
    BY CommandsAssumption DEF QUIT, DELETE, FAVORITE
  <2>3. QED
    BY <2>1, <2>2
<1>2. CASE ui = "sending" /\ outgoing' = outgoing
  BY <1>2
<1>3. CASE UserStep
  <2>1. ~Quit
    BY DEF Quit
  <2>2. \A b \in Backend : ~Launch(b)
    BY DEF Launch
  <2>3. CASE \/ \E b \in Backend : LaunchAgain(b)
             \/ \E type \in Commands : CancelDialog(type)
    BY <1>2, <2>3 DEF LaunchAgain, CancelDialog
  <2>4. QED
    BY <1>1, <1>3, <2>1, <2>2, <2>3 DEF UserStep
<1>4. CASE FrontEndStep
  BY <1>2, <1>4 DEF FrontEndStep, RequestResumes, Deliver, Poll, Refresh, QuitResumes,
     RemoveCommandQueue, RemoveResponseQueue
<1>5. CASE \E b \in Backend : BackEndStep(b)
  BY <1>2, <1>5 DEF BackEndStep, AttachCommand, AttachResponse, Receive, Work, SendResponse
<1>6. CASE Fault
  BY <1>2, <1>6 DEF Fault, RequestFails, FrontEndDies, BackEndDies
<1>7. CASE UNCHANGED vars
  BY <1>2, <1>7 DEF vars
<1>8. QED
  BY <1>3, <1>4, <1>5, <1>6, <1>7 DEF Next

(* Whoever runs, or has removed a queue, has started a back end before.    *)
LEMMA SomeoneStartedStep ==
  ASSUME TypeOK, TypeOK', [Next]_vars,
         ui # "off" \/ command_queue.id > 0 => Started # {}
  PROVE  ui' # "off" \/ command_queue'.id > 0 => Started' # {}
<1> SUFFICES ASSUME Started = {}, ui' # "off" \/ command_queue'.id > 0
             PROVE  Started' # {}
  BY NoWayBack
<1> USE SessionTypes DEF uiVars, queues, backendVars, history
<1>1. /\ ui = "off" /\ ~(command_queue.id > 0)
      /\ \A b \in Backend : pc[b] = "unused"
  BY DEF Started
<1>2. ASSUME NEW b \in Backend, Launch(b)
      PROVE  Started' # {}
  <2>1. pc'[b] = "booting"
    BY <1>2 DEF Launch, Fork, TypeOK
  <2>2. QED
    BY <2>1 DEF Started
<1>3. ~UNCHANGED <<ui, command_queue>>
  BY <1>1
<1>4. QED
  BY <1>1, <1>2, <1>3 DEF Next, UserStep, FrontEndStep, BackEndStep, Fault, vars,
     LaunchAgain, Request, CancelDialog, Quit, RequestResumes,
     Poll, Refresh, QuitResumes, RemoveCommandQueue, RemoveResponseQueue,
     AttachCommand, AttachResponse, Receive, Work, SendResponse,
     RequestFails, FrontEndDies, BackEndDies

(* The quit message is sent last and, until the queue is removed, only a   *)
(* front end that sleeps has sent it.                                      *)
LEMMA QuitIsLastStep ==
  ASSUME TypeOK, TypeOK', CommandOrder, Delivery, [Next]_vars, faults' = 0
  PROVE  QuitIsLast'
<1> SUFFICES ASSUME command_queue'.id = 0,
                    NEW i \in DOMAIN command_queue'.msgs, command_queue'.msgs[i].type = QUIT
             PROVE  ui' = "sleeping" /\ command_queue'.msgs[i].id = issued'
  BY DEF QuitIsLast
<1> USE SessionTypes DEF uiVars, queues, backendVars, history
<1>1. \A k \in DOMAIN command_queue.msgs : command_queue.msgs[k].type = QUIT =>
        ui = "sleeping" /\ command_queue.msgs[k].id = issued
  BY NoWayBack DEF Delivery, QuitIsLast
<1>2. ASSUME NEW m \in Message, command_queue' = Sent(command_queue, m), ui # "sleeping",
             m.type = QUIT => ui' = "sleeping" /\ m.id = issued'
      PROVE  ui' = "sleeping" /\ command_queue'.msgs[i].id = issued'
  <2> DEFINE n == Len(command_queue.msgs)
  <2>1. /\ n \in Nat /\ DOMAIN command_queue.msgs = 1..n
        /\ DOMAIN command_queue'.msgs = 1..(n + 1)
        /\ \A k \in 1..n : command_queue'.msgs[k] = command_queue.msgs[k]
        /\ command_queue'.msgs[n + 1] = m
    <3>1. command_queue'.msgs = Append(command_queue.msgs, m)
      BY <1>2, QueueParts
    <3>2. QED
      BY <3>1, OrderTypes, AppendProperties
  <2>2. i \in 1..n \/ i = n + 1
    BY <2>1
  <2> HIDE DEF n
  <2>3. i = n + 1
    BY <1>1, <1>2, <2>1, <2>2
  <2>4. QED
    BY <1>2, <2>1, <2>3
<1>3. ASSUME command_queue'.msgs = command_queue.msgs, issued' = issued,
             ui = "sleeping" => ui' = "sleeping"
      PROVE  ui' = "sleeping" /\ command_queue'.msgs[i].id = issued'
  BY <1>1, <1>3
<1>4. ASSUME NEW type \in Commands, Request(type)
      PROVE  ui' = "sleeping" /\ command_queue'.msgs[i].id = issued'
  <2> DEFINE m == [type |-> type, id |-> issued + 1]
  <2>1. issued + 1 \in 1..MaxMessages
    BY <1>4, BoundsAssumption DEF Request, TypeOK
  <2>2. m \in Message /\ m.type # QUIT
    BY <2>1, CommandsAssumption DEF Message, QUIT, DELETE, FAVORITE
  <2>3. CASE Deliver(m)
    BY <1>2, <1>4, <2>2, <2>3 DEF Request, Deliver
  <2>4. CASE ~Deliver(m)
    BY <1>1, <1>4, <2>4 DEF Request
  <2>5. QED
    BY <2>3, <2>4
<1>5. ASSUME Quit
      PROVE  ui' = "sleeping" /\ command_queue'.msgs[i].id = issued'
  <2>1. CASE command_queue' = command_queue
    BY <1>1, <1>5, <2>1 DEF Quit
  <2>2. CASE command_queue' # command_queue
    <3>1. /\ issued + 1 \in 1..MaxMessages /\ ui' = "sleeping" /\ issued' = issued + 1
          /\ command_queue' = Sent(command_queue, QuitMessage)
      BY <1>5, <2>2, BoundsAssumption DEF Quit, TypeOK
    <3>2. QuitMessage \in Message /\ QuitMessage.id = issued'
      BY <3>1 DEF Message, QuitMessage
    <3>3. QED
      BY <1>2, <1>5, <3>1, <3>2 DEF Quit
  <2>3. QED
    BY <2>1, <2>2
<1>6. ASSUME RequestResumes
      PROVE  ui' = "sleeping" /\ command_queue'.msgs[i].id = issued'
  <2>1. outgoing \in Message /\ outgoing.type # QUIT
    BY <1>6 DEF RequestResumes, TypeOK, Delivery
  <2>2. QED
    BY <1>2, <1>6, <2>1 DEF RequestResumes, Deliver
<1>7. ASSUME QuitResumes
      PROVE  ui' = "sleeping" /\ command_queue'.msgs[i].id = issued'
  <2>1. outgoing \in Message /\ outgoing.id = issued
    BY <1>7 DEF QuitResumes, TypeOK, CommandOrder, Blocked
  <2>2. QED
    BY <1>2, <1>7, <2>1 DEF QuitResumes
<1>8. ASSUME NEW b \in Backend, Receive(b)
      PROVE  ui' = "sleeping" /\ command_queue'.msgs[i].id = issued'
  <2> DEFINE n == Len(command_queue.msgs)
  <2>1. /\ n \in Nat /\ n >= 1 /\ DOMAIN command_queue.msgs = 1..n
        /\ DOMAIN command_queue'.msgs = 1..(n - 1)
        /\ \A k \in 1..(n - 1) : command_queue'.msgs[k] = command_queue.msgs[k + 1]
    <3>1. command_queue.msgs # << >> /\ command_queue'.msgs = Tail(command_queue.msgs)
      BY <1>8, QueueParts DEF Receive
    <3>2. command_queue.msgs \in Seq(Message) /\ DOMAIN command_queue.msgs = 1..n
      BY OrderTypes
    <3>3. n \in Nat /\ n >= 1
      BY <3>1, <3>2, EmptySeq
    <3>4. QED
      BY <3>1, <3>2, <3>3, HeadTailProperties
  <2>2. i \in 1..(n - 1) /\ i + 1 \in 1..n
    BY <2>1
  <2> HIDE DEF n
  <2>3. /\ command_queue.msgs[i + 1].type = QUIT
        /\ command_queue'.msgs[i].id = command_queue.msgs[i + 1].id
    BY <2>1, <2>2
  <2>4. ui = "sleeping" /\ command_queue.msgs[i + 1].id = issued
    BY <1>1, <2>1, <2>2, <2>3
  <2>5. QED
    BY <1>8, <2>3, <2>4 DEF Receive
<1>9. CASE \/ \E b \in Backend : Launch(b) \/ LaunchAgain(b) \/ AttachCommand(b)
                                 \/ AttachResponse(b) \/ Work(b) \/ SendResponse(b)
           \/ \E type \in Commands : CancelDialog(type)
           \/ Poll \/ Refresh \/ RemoveResponseQueue \/ UNCHANGED vars
  BY <1>3, <1>9, QueueParts DEF Launch, LaunchAgain, AttachCommand, AttachResponse, Work,
     SendResponse, CancelDialog, Poll, Refresh, RemoveResponseQueue, vars
<1>10. ~RemoveCommandQueue
  BY QueueParts DEF RemoveCommandQueue
<1>11. ~Fault
  BY DEF Fault, RequestFails, FrontEndDies, BackEndDies
<1>12. QED
  BY <1>4, <1>5, <1>6, <1>7, <1>8, <1>9, <1>10, <1>11
     DEF Next, UserStep, FrontEndStep, BackEndStep

(* A back end that is alone and reads the quit message has nothing else in *)
(* its queue and has carried out all the commands before it.               *)
LEMMA LastMessage ==
  ASSUME TypeOK, CommandOrder, Isolation, Delivery, faults = 0, Alone,
         NEW b \in Backend, pc[b] = "waiting",
         command_queue.msgs # << >>, Head(command_queue.msgs).type = QUIT
  PROVE  ui = "sleeping" /\ Carried = 1..(issued - 1)
<1> USE SessionTypes, OrderTypes
<1> DEFINE q == command_queue.msgs
<1>1. 1 \in DOMAIN q /\ q[1].type = QUIT
  BY QueueContents
<1>2. command_queue.id = 0
  <2>1. ui \in {"removing", "off"} => q = << >>
    BY DEF Isolation, LeftClean
  <2>2. command_queue.id > 0 => ui \in {"removing", "off"}
    BY DEF Delivery, AllCarriedOut
  <2>3. QED
    BY <2>1, <2>2
<1>3. ui = "sleeping" /\ q[1].id = issued
  BY <1>1, <1>2 DEF Delivery, QuitIsLast
<1>4. \A i \in DOMAIN q : i = 1
  <2> SUFFICES ASSUME NEW i \in DOMAIN q, 1 < i PROVE FALSE
    OBVIOUS
  <2>1. q[1].id < q[i].id /\ q[i].id + Blocked <= issued /\ q[i].id \in Nat
    BY <1>1 DEF CommandOrder, QueueOrder
  <2>2. QED
    BY <1>3, <2>1
<1>5. Queued(command_queue) \subseteq {issued}
  BY <1>3, <1>4 DEF Queued
<1>6. InHand = {} /\ Unsent = {}
  <2>1. \A c \in Backend : pc[c] # "working"
    BY DEF Alone, Started
  <2>2. QED
    BY <1>3, <2>1 DEF InHand, Unsent
<1>7. 1..(issued - 1) \subseteq {issued} \cup Carried
  BY <1>2, <1>3, <1>5, <1>6 DEF Delivery, NothingLostBeforeQuit
<1>8. issued \notin 1..(issued - 1)
  OBVIOUS
<1>9. 1..(issued - 1) \subseteq Carried
  BY <1>7, <1>8
<1>10. Carried \subseteq 1..(issued - 1)
  <2> SUFFICES ASSUME NEW k \in DOMAIN done PROVE done[k] \in 1..(issued - 1)
    BY DEF Carried
  <2>1. done[k] < q[1].id
    BY <1>1 DEF CommandOrder, DoneOrder
  <2>2. done[k] \in 1..MaxMessages
    BY ElementOfSeq DEF TypeOK
  <2>3. QED
    BY <1>3, <2>1, <2>2, BoundsAssumption
<1>11. QED
  BY <1>3, <1>9, <1>10

LEMMA AllCarriedOutStep ==
  ASSUME TypeOK, TypeOK', CommandOrder, Isolation, Delivery, [Next]_vars,
         faults' = 0, Alone'
  PROVE  AllCarriedOut'
<1> USE SessionTypes DEF uiVars, queues, backendVars, history
<1>0. faults = 0 /\ Alone /\ AllCarriedOut
  BY NoWayBack DEF Delivery
<1>1. ASSUME NEW b \in Backend, Launch(b) \/ LaunchAgain(b)
      PROVE  AllCarriedOut'
  <2>1. pc[b] = "unused" /\ pc' = [pc EXCEPT ![b] = "booting"] /\ command_queue' = command_queue
    BY <1>1 DEF Launch, LaunchAgain, Fork
  <2>2. Started = {}
    <3> SUFFICES ASSUME NEW c \in Started PROVE FALSE
      OBVIOUS
    <3>1. c \in Backend /\ c # b /\ c \in Started' /\ b \in Started'
      BY <2>1 DEF Started, TypeOK
    <3>2. QED
      BY <3>1 DEF Alone
  <2>3. ~(command_queue.id > 0) /\ \A c \in Backend : pc[c] = "unused"
    BY <2>2 DEF Delivery, Started
  <2>4. \A c \in Backend : pc'[c] # "exited"
    BY <2>1, <2>3 DEF TypeOK
  <2>5. QED
    BY <2>1, <2>3, <2>4 DEF AllCarriedOut
<1>2. ASSUME NEW b \in Backend, Receive(b)
      PROVE  AllCarriedOut'
  <2>1. /\ pc[b] = "waiting" /\ command_queue.msgs # << >>
        /\ command_queue'.id = command_queue.id
        /\ UNCHANGED <<uiVars, history>>
        /\ \A c \in Backend : c # b => pc'[c] = pc[c]
    BY <1>2, QueueParts DEF Receive, TypeOK
  <2>2. \A c \in Backend : pc[c] # "exited"
    BY <2>1, <1>0 DEF Alone, Started
  <2>3. CASE Head(command_queue.msgs).type = QUIT
    <3>1. ui = "sleeping" /\ Carried = 1..(issued - 1)
      BY <1>0, <2>1, <2>3, LastMessage
    <3>2. Carried' = 1..(issued' - 1)
      BY <2>1, <3>1 DEF Carried
    <3>3. command_queue'.id > 0 => ui' \in {"removing", "off"}
      BY <1>0, <2>1 DEF AllCarriedOut
    <3>4. QED
      BY <2>1, <3>1, <3>2, <3>3 DEF AllCarriedOut
  <2>4. CASE Head(command_queue.msgs).type # QUIT
    <3>1. pc' = [pc EXCEPT ![b] = "working"]
      BY <1>2, <2>4 DEF Receive
    <3>2. \A c \in Backend : pc'[c] # "exited"
      BY <2>1, <2>2, <3>1 DEF TypeOK
    <3>3. QED
      BY <1>0, <2>1, <3>2 DEF AllCarriedOut
  <2>5. QED
    BY <2>3, <2>4
<1>3. ASSUME NEW b \in Backend, Work(b)
      PROVE  AllCarriedOut'
  <2>1. PICK p \in {"waiting", "replying"} : pc' = [pc EXCEPT ![b] = p]
    BY <1>3 DEF Work
  <2>2. pc[b] = "working" /\ UNCHANGED <<uiVars, queues>>
    BY <1>3 DEF Work
  <2>3. \A c \in Backend : pc[c] # "exited"
    BY <1>0, <2>2 DEF Alone, Started
  <2>4. \A c \in Backend : pc'[c] # "exited"
    BY <2>1, <2>3 DEF TypeOK
  <2>5. QED
    BY <1>0, <2>2, <2>4 DEF AllCarriedOut
<1>4. ASSUME \/ \E type \in Commands : Request(type) \/ CancelDialog(type)
             \/ Quit \/ RequestResumes \/ Poll \/ Refresh \/ QuitResumes
      PROVE  AllCarriedOut'
  <2>1. /\ ui \in {"idle", "sending", "quitting"} /\ UNCHANGED backendVars
        /\ \/ command_queue' = command_queue
           \/ \E m : command_queue' = Sent(command_queue, m)
    BY <1>4 DEF Request, CancelDialog, Quit, RequestResumes, Deliver, Poll, Refresh, QuitResumes
  <2>2. command_queue'.id = command_queue.id
    BY <2>1, QueueParts
  <2>3. QED
    BY <1>0, <2>1, <2>2 DEF AllCarriedOut
<1>5. ASSUME RemoveCommandQueue \/ RemoveResponseQueue
      PROVE  AllCarriedOut'
  <2>1. /\ UNCHANGED <<backendVars, history>>
        /\ ui' \in {"removing", "off"}
    BY <1>5 DEF RemoveCommandQueue, RemoveResponseQueue
  <2>2. QED
    BY <1>0, <2>1 DEF AllCarriedOut, Carried
<1>6. ASSUME \/ \E b \in Backend : AttachCommand(b) \/ AttachResponse(b) \/ SendResponse(b)
             \/ UNCHANGED vars
      PROVE  AllCarriedOut'
  <2>1. /\ UNCHANGED <<ui, issued, done>> /\ command_queue'.id = command_queue.id
        /\ \A c \in Backend : pc'[c] = "exited" => pc[c] = "exited"
    <3>1. ASSUME NEW b \in Backend, AttachCommand(b) \/ AttachResponse(b) \/ SendResponse(b)
          PROVE  \A c \in Backend : pc'[c] = "exited" => pc[c] = "exited"
      BY <3>1 DEF AttachCommand, AttachResponse, SendResponse, TypeOK
    <3>2. UNCHANGED <<ui, issued, done>> /\ command_queue'.id = command_queue.id
      BY <1>6, QueueParts DEF AttachCommand, AttachResponse, SendResponse, vars
    <3>3. QED
      BY <1>6, <3>1, <3>2 DEF vars
  <2>2. QED
    BY <1>0, <2>1 DEF AllCarriedOut, Carried
<1>7. ~Fault
  BY DEF Fault, RequestFails, FrontEndDies, BackEndDies
<1>8. QED
  BY <1>1, <1>2, <1>3, <1>4, <1>5, <1>6, <1>7
     DEF Next, UserStep, FrontEndStep, BackEndStep

LEMMA DeliveryStep ==
  ASSUME TypeOK, TypeOK', CommandOrder, Isolation, Delivery, [Next]_vars
  PROVE  Delivery'
<1>1. NothingLostBeforeQuit'
  BY NothingLostStep
<1>2. ui' = "sending" => outgoing'.type # QUIT
  BY NoQuitSendingStep DEF Delivery
<1>3. ui' # "off" \/ command_queue'.id > 0 => Started' # {}
  BY SomeoneStartedStep DEF Delivery
<1>4. faults' = 0 => QuitIsLast' /\ (Alone' => AllCarriedOut')
  BY QuitIsLastStep, AllCarriedOutStep
<1>5. QED
  BY <1>1, <1>2, <1>3, <1>4 DEF Delivery

(* Without a crash a queue is removed only by a front end that leaves, and *)
(* no command disappears before that.                                      *)
THEOREM Delivered == Spec => []Delivery
<1>1. TypeOK /\ TypeOK' /\ CommandOrder /\ Isolation /\ Delivery /\ [Next]_vars => Delivery'
  BY DeliveryStep
<1>2. QED
  BY <1>1, DeliveryInit, TypeCorrect, Ordered, Isolated, PTL DEF Spec

(* Until a queue is removed every confirmed command is queued, in hand,    *)
(* blocked in msgsnd or carried out.                                       *)
THEOREM NothingLost == Spec => []NothingLostBeforeQuit
<1>1. Delivery => NothingLostBeforeQuit
  BY DEF Delivery
<1>2. QED
  BY <1>1, Delivered, PTL

(* A back end that is alone and ends on the quit message has carried out   *)
(* every command before it.                                                *)
THEOREM ExitsGracefully == Spec => []GracefulExit
<1>1. Delivery => GracefulExit
  BY DEF Delivery, AllCarriedOut, GracefulExit
<1>2. QED
  BY <1>1, Delivered, PTL
=============================================================================
