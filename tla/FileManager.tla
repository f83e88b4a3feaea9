---------------------------- MODULE FileManager ----------------------------
(***************************************************************************)
(* The processes of the GTK file manager and the two System V message      *)
(* queues between them (dir_manage_gtk): the front end "column" sends one  *)
(* command per user request and polls for answers once a second, a back    *)
(* end "a.out" takes the commands one at a time, works on the file system  *)
(* and answers.                                                            *)
(*                                                                         *)
(* What a command does to the file system is abstracted to its outcome;    *)
(* who holds which queue, who is blocked and who answers whom is not.      *)
(***************************************************************************)
EXTENDS Naturals, Sequences, FiniteSets

CONSTANTS
  Backend,      (* the back-end processes that may ever be forked           *)
  Commands,     (* the message types the user may cause to be sent          *)
  Capacity,     (* messages a kernel queue holds: msg_qbytes / sizeof mtext *)
  MaxMessages,  (* bound: messages sent on the command queue in a behaviour *)
  MaxFaults     (* bound: crashes and failing system calls in a behaviour   *)

(* The message types of the code: 1 is the quit signal, the others are the *)
(* requests the back end's main loop tells apart.                          *)
QUIT       == 1
DELETE     == 2
NEW_FOLDER == 3
RENAME     == 4
MOVE       == 5
COPY       == 6
CHMOD      == 7
FAVORITE   == 8

ASSUME CommandsAssumption == Commands \subseteq DELETE..FAVORITE
ASSUME BackendAssumption  == IsFiniteSet(Backend)
ASSUME CapacityAssumption == Capacity \in Nat \ {0}
ASSUME BoundsAssumption   == MaxMessages \in Nat /\ MaxFaults \in Nat

VARIABLES
  ui,               (* what the front end's only thread is doing             *)
  outgoing,         (* the message its msgsnd is blocked on                  *)
  is_check_running, (* the poll timer runs: static flag of the process       *)
  refreshes,        (* refreshes scheduled by "success" answers              *)
  command_queue,    (* the queue under ftok("command_keyfile", 1)            *)
  response_queue,   (* the queue under ftok("response_keyfile", 1)           *)
  pc,               (* where each back end is                                *)
  msgid,            (* the command queue identifier it took at start         *)
  response_msgid,   (* the response queue identifier it took at start        *)
  buf,              (* the command it is working on                          *)
  response,         (* the answer it is sending                              *)
  (* History, read by no guard but the bounds:                               *)
  issued,           (* messages handed to the command queue, also its ids    *)
  done,             (* ids of the commands carried out, in order             *)
  answered,         (* answers the front end has read                        *)
  base,             (* value of issued when the current front end started    *)
  shown,            (* Len(done) when the favorites list was last rebuilt    *)
  faults            (* crashes and failures so far                           *)

uiVars      == <<ui, outgoing, is_check_running, refreshes>>
queues      == <<command_queue, response_queue>>
backendVars == <<pc, msgid, response_msgid, buf, response>>
history     == <<issued, done, answered, base, shown, faults>>
vars        == <<uiVars, queues, backendVars, history>>

-----------------------------------------------------------------------------
(* Messages and System V queues.                                           *)

NoMessage == [type |-> 0, id |-> 0]
Message   == [type : Commands \cup {QUIT}, id : 1..MaxMessages]

NoAnswer == [text |-> "none", id |-> 0]
Answer   == [text : {"success", "failed"}, id : 1..MaxMessages]

(* A queue under a key. Removing it invalidates every identifier that was  *)
(* taken for it: the next msgget with IPC_CREAT makes a queue with another *)
(* identifier.                                                             *)
Queue(id, exists, msgs) == [id |-> id, exists |-> exists, msgs |-> msgs]

NoQueue(n) == Queue(n, FALSE, << >>)

(* msgget(key, IPC_CREAT | 0666) *)
Opened(q) == Queue(q.id, TRUE, q.msgs)

(* msgctl(id, IPC_RMID, NULL) *)
Removed(q) == NoQueue(q.id + 1)

(* A msgsnd without IPC_NOWAIT blocks while this holds. A quit message is  *)
(* shorter than the others, but takes the room of one where it matters.    *)
Full(q) == Len(q.msgs) >= Capacity

Sent(q, m) == Queue(q.id, TRUE, Append(q.msgs, m))
Taken(q)   == Queue(q.id, q.exists, Tail(q.msgs))

Init ==
  /\ ui = "off"
  /\ outgoing = NoMessage
  /\ is_check_running = FALSE
  /\ refreshes = 0
  /\ command_queue = NoQueue(0)
  /\ response_queue = NoQueue(0)
  /\ pc = [b \in Backend |-> "unused"]
  /\ msgid = [b \in Backend |-> 0]
  /\ response_msgid = [b \in Backend |-> 0]
  /\ buf = [b \in Backend |-> NoMessage]
  /\ response = [b \in Backend |-> NoAnswer]
  /\ issued = 0 /\ done = << >> /\ answered = 0
  /\ base = 0 /\ shown = 0 /\ faults = 0

-----------------------------------------------------------------------------
(* Starting. main() forks the back end before the application registers    *)
(* itself, so a second launch leaves a back end behind and ends.           *)

Fork(b) ==
  /\ pc[b] = "unused"
  /\ pc' = [pc EXCEPT ![b] = "booting"]
  /\ UNCHANGED <<msgid, response_msgid, buf, response>>

Launch(b) ==
  /\ ui = "off"
  /\ Fork(b)
  /\ ui' = "idle"
  /\ is_check_running' = FALSE
  /\ refreshes' = 0
  /\ base' = issued
  /\ shown' = Len(done)
  /\ UNCHANGED <<outgoing, queues, issued, done, answered, faults>>

LaunchAgain(b) ==
  /\ ui # "off"
  /\ Fork(b)
  /\ UNCHANGED <<uiVars, queues, history>>

(* The back end's main() up to its loop. *)
AttachCommand(b) ==
  /\ pc[b] = "booting"
  /\ pc' = [pc EXCEPT ![b] = "attaching"]
  /\ msgid' = [msgid EXCEPT ![b] = command_queue.id]
  /\ command_queue' = Opened(command_queue)
  /\ UNCHANGED <<uiVars, response_queue, response_msgid, buf, response, history>>

AttachResponse(b) ==
  /\ pc[b] = "attaching"
  /\ pc' = [pc EXCEPT ![b] = "waiting"]
  /\ response_msgid' = [response_msgid EXCEPT ![b] = response_queue.id]
  /\ response_queue' = Opened(response_queue)
  /\ UNCHANGED <<uiVars, command_queue, msgid, buf, response, history>>

-----------------------------------------------------------------------------
(* The front end's handlers. They run on the thread of the main loop, so   *)
(* one that blocks in msgsnd stops the timers too.                         *)

(* The specification does not use this one and those marked likewise: they *)
(* are slips of the definition that follows, which the properties reject.  *)
PollingAfterFavorite(type) == is_check_running \/ type = FAVORITE

(* start_backend_check: on_delete_response is the only one not to call it. *)
PollingAfter(type) == is_check_running \/ type # DELETE

(* Slips of Deliver: the blocked text is kept; the message is sent twice.  *)
DeliverKeeping(m) ==
  /\ command_queue' = Sent(command_queue, m)
  /\ ui' = "idle"
  /\ is_check_running' = PollingAfter(m.type)
  /\ UNCHANGED outgoing

DeliverTwice(m) ==
  /\ command_queue' = Sent(Sent(command_queue, m), m)
  /\ ui' = "idle"
  /\ outgoing' = NoMessage
  /\ is_check_running' = PollingAfter(m.type)

Deliver(m) ==
  /\ command_queue' = Sent(command_queue, m)
  /\ ui' = "idle"
  /\ outgoing' = NoMessage
  /\ is_check_running' = PollingAfter(m.type)

(* A confirmed request: send_message or send_favorite_message. *)
Request(type) ==
  LET m == [type |-> type, id |-> issued + 1]
  IN  /\ ui = "idle"
      /\ issued < MaxMessages
      /\ issued' = issued + 1
      /\ \/ /\ ~Full(command_queue)
            /\ Deliver(m)
         \/ /\ Full(command_queue)
            /\ ui' = "sending"
            /\ outgoing' = m
            /\ UNCHANGED <<is_check_running, command_queue>>
      /\ UNCHANGED <<refreshes, response_queue, backendVars,
                     done, answered, base, shown, faults>>

(* Slip of RequestResumes: an interrupted msgsnd is not repeated.          *)
RequestGivesUp ==
  /\ ui = "sending"
  /\ ui' = "idle"
  /\ outgoing' = NoMessage
  /\ UNCHANGED <<is_check_running, refreshes, queues, backendVars, history>>

(* The kernel wakes the blocked msgsnd when there is room. *)
RequestResumes ==
  /\ ui = "sending"
  /\ ~Full(command_queue)
  /\ Deliver(outgoing)
  /\ UNCHANGED <<refreshes, response_queue, backendVars, history>>

(* ftok, msgget or msgsnd fails: nothing is sent. After the first two      *)
(* send_message frees a text that most callers free again, which ends the  *)
(* process or goes unnoticed.                                              *)
RequestFails(type) ==
  /\ ui = "idle"
  /\ faults < MaxFaults
  /\ faults' = faults + 1
  /\ ui' \in IF type \in {NEW_FOLDER, FAVORITE} THEN {"idle"} ELSE {"idle", "off"}
  /\ is_check_running' = (ui' = "idle" /\ PollingAfter(type))
  /\ refreshes' = IF ui' = "idle" THEN refreshes ELSE 0
  /\ UNCHANGED <<outgoing, queues, backendVars,
                 issued, done, answered, base, shown>>

(* A dialog that is cancelled sends nothing and starts the poll timer; the *)
(* delete question does not even do that.                                  *)
CancelDialog(type) ==
  /\ ui = "idle"
  /\ type \in {RENAME, MOVE, COPY, CHMOD}
  /\ is_check_running' = TRUE
  /\ UNCHANGED <<ui, outgoing, refreshes, queues, backendVars, history>>

(* read_backend_message and on_backend_message_received: at most one       *)
(* answer per tick; "success" schedules a refresh, "failed" does not.      *)
Poll ==
  /\ ui = "idle"
  /\ is_check_running
  /\ IF response_queue.msgs = << >>
     THEN /\ response_queue' = Opened(response_queue)
          /\ UNCHANGED <<answered, refreshes>>
     ELSE /\ response_queue' = Taken(response_queue)
          /\ answered' = answered + 1
          /\ refreshes' = IF Head(response_queue.msgs).text = "success"
                          THEN refreshes + 1 ELSE refreshes
  /\ UNCHANGED <<ui, outgoing, is_check_running, command_queue, backendVars,
                 issued, done, base, shown, faults>>

(* The timers behind a "success": update, update_ui and                    *)
(* update_favorites_list, which read the file system again. The directory  *)
(* list is monitored by GTK as well, the favorites list is not. The last   *)
(* of the three is a void function cast to GSourceFunc: whatever is left   *)
(* in the return register decides whether its timer fires again.           *)
Refresh ==
  /\ ui = "idle"
  /\ refreshes > 0
  /\ refreshes' \in {refreshes - 1, refreshes}
  /\ shown' = Len(done)
  /\ UNCHANGED <<ui, outgoing, is_check_running, queues, backendVars,
                 issued, done, answered, base, faults>>

-----------------------------------------------------------------------------
(* on_application_shutdown, in the order of the code.                      *)

QuitMessage == [type |-> QUIT, id |-> issued + 1]

Quit ==
  /\ ui = "idle"
  /\ IF command_queue.exists
     THEN /\ issued < MaxMessages
          /\ issued' = issued + 1
          /\ \/ /\ ~Full(command_queue)
                /\ command_queue' = Sent(command_queue, QuitMessage)
                /\ ui' = "sleeping"
                /\ UNCHANGED outgoing
             \/ /\ Full(command_queue)
                /\ ui' = "quitting"
                /\ outgoing' = QuitMessage
                /\ UNCHANGED command_queue
     ELSE /\ ui' = "removing"
          /\ UNCHANGED <<outgoing, command_queue, issued>>
  /\ is_check_running' = FALSE
  /\ refreshes' = 0
  /\ UNCHANGED <<response_queue, backendVars, done, answered, base, shown, faults>>

QuitResumes ==
  /\ ui = "quitting"
  /\ ~Full(command_queue)
  /\ command_queue' = Sent(command_queue, outgoing)
  /\ ui' = "sleeping"
  /\ outgoing' = NoMessage
  /\ UNCHANGED <<is_check_running, refreshes, response_queue, backendVars, history>>

(* Slips of RemoveCommandQueue: the queue stays; it is removed only when   *)
(* the quit message was read.                                              *)
KeepCommandQueue ==
  /\ ui = "sleeping"
  /\ ui' = "removing"
  /\ UNCHANGED <<outgoing, is_check_running, refreshes, queues, backendVars, history>>

RemoveWhenDrained ==
  /\ ui = "sleeping"
  /\ command_queue.msgs = << >>
  /\ command_queue' = Removed(command_queue)
  /\ ui' = "removing"
  /\ UNCHANGED <<outgoing, is_check_running, refreshes, response_queue,
                 backendVars, history>>

(* After usleep(100000), which waits for no one. *)
RemoveCommandQueue ==
  /\ ui = "sleeping"
  /\ command_queue' = Removed(command_queue)
  /\ ui' = "removing"
  /\ UNCHANGED <<outgoing, is_check_running, refreshes, response_queue,
                 backendVars, history>>

RemoveResponseQueue ==
  /\ ui = "removing"
  /\ response_queue' = IF response_queue.exists THEN Removed(response_queue)
                       ELSE response_queue
  /\ ui' = "off"
  /\ UNCHANGED <<outgoing, is_check_running, refreshes, command_queue,
                 backendVars, history>>

-----------------------------------------------------------------------------
(* The back end's loop. When its command queue has been removed, msgrcv    *)
(* fails at once and the loop tries again for ever: no step changes the    *)
(* state of such a back end.                                               *)

(* Slip of Receive: msgrcv with a negative type takes the lowest type      *)
(* first, so that deletions and the quit message overtake.                 *)
ReceiveLowest(b) ==
  /\ pc[b] = "waiting"
  /\ msgid[b] = command_queue.id
  /\ \E k \in DOMAIN command_queue.msgs :
       LET q == command_queue.msgs
           m == q[k]
       IN  /\ \A j \in DOMAIN q : m.type <= q[j].type
           /\ command_queue' = Queue(command_queue.id, TRUE,
                  SubSeq(q, 1, k - 1) \o SubSeq(q, k + 1, Len(q)))
           /\ pc' = [pc EXCEPT ![b] = IF m.type = QUIT THEN "exited" ELSE "working"]
           /\ buf' = IF m.type = QUIT THEN buf ELSE [buf EXCEPT ![b] = m]
  /\ UNCHANGED <<uiVars, response_queue, msgid, response_msgid, response, history>>

Receive(b) ==
  /\ pc[b] = "waiting"
  /\ msgid[b] = command_queue.id
  /\ command_queue.msgs # << >>
  /\ command_queue' = Taken(command_queue)
  /\ LET m == Head(command_queue.msgs)
     IN  IF m.type = QUIT
         THEN pc' = [pc EXCEPT ![b] = "exited"] /\ UNCHANGED buf
         ELSE pc' = [pc EXCEPT ![b] = "working"] /\ buf' = [buf EXCEPT ![b] = m]
  /\ UNCHANGED <<uiVars, response_queue, msgid, response_msgid, response, history>>

(* The answers a command of a type can get. Deleting, creating and         *)
(* renaming answer only when they succeed; the others answer "failed" too, *)
(* but nothing when the message holds no second path.                      *)
Outcomes(type) == {"success", "none"} \cup IF type >= MOVE THEN {"failed"} ELSE {}

(* Slip of Work: a command that fails without an answer ends the process.  *)
WorkOrExit(b) ==
  /\ pc[b] = "working"
  /\ \E text \in Outcomes(buf[b].type) :
       IF text = "none"
       THEN pc' = [pc EXCEPT ![b] = "exited"] /\ UNCHANGED response
       ELSE /\ pc' = [pc EXCEPT ![b] = "replying"]
            /\ response' = [response EXCEPT ![b] = [text |-> text, id |-> buf[b].id]]
  /\ done' = Append(done, buf[b].id)
  /\ buf' = [buf EXCEPT ![b] = NoMessage]
  /\ UNCHANGED <<uiVars, queues, msgid, response_msgid,
                 issued, answered, base, shown, faults>>

Work(b) ==
  /\ pc[b] = "working"
  /\ \E text \in Outcomes(buf[b].type) :
       IF text = "none"
       THEN pc' = [pc EXCEPT ![b] = "waiting"] /\ UNCHANGED response
       ELSE /\ pc' = [pc EXCEPT ![b] = "replying"]
            /\ response' = [response EXCEPT ![b] = [text |-> text, id |-> buf[b].id]]
  /\ done' = Append(done, buf[b].id)
  /\ buf' = [buf EXCEPT ![b] = NoMessage]
  /\ UNCHANGED <<uiVars, queues, msgid, response_msgid,
                 issued, answered, base, shown, faults>>

(* Slip of SendResponse: an interrupted msgsnd that had sent the answer is *)
(* repeated.                                                               *)
SendResponseTwice(b) ==
  /\ pc[b] = "replying"
  /\ response_msgid[b] = response_queue.id => ~Full(response_queue)
  /\ response_queue' = IF response_msgid[b] = response_queue.id
                       THEN Sent(Sent(response_queue, response[b]), response[b])
                       ELSE response_queue
  /\ pc' = [pc EXCEPT ![b] = "waiting"]
  /\ response' = [response EXCEPT ![b] = NoAnswer]
  /\ UNCHANGED <<uiVars, command_queue, msgid, response_msgid, buf, history>>

(* send_response: blocks while the queue is full, gives up with perror     *)
(* when the queue it knows has been removed.                               *)
SendResponse(b) ==
  /\ pc[b] = "replying"
  /\ \/ /\ response_msgid[b] = response_queue.id
        /\ ~Full(response_queue)
        /\ response_queue' = Sent(response_queue, response[b])
     \/ /\ response_msgid[b] # response_queue.id
        /\ UNCHANGED response_queue
  /\ pc' = [pc EXCEPT ![b] = "waiting"]
  /\ response' = [response EXCEPT ![b] = NoAnswer]
  /\ UNCHANGED <<uiVars, command_queue, msgid, response_msgid, buf, history>>

-----------------------------------------------------------------------------
(* Processes that end without cleaning up: killed, exit(1) on a failing    *)
(* call, malloc failure or stack overflow in a handler. The queues stay.   *)

FrontEndDies ==
  /\ ui # "off"
  /\ faults < MaxFaults
  /\ faults' = faults + 1
  /\ ui' = "off"
  /\ outgoing' = NoMessage
  /\ is_check_running' = FALSE
  /\ refreshes' = 0
  /\ UNCHANGED <<queues, backendVars, issued, done, answered, base, shown>>

BackEndDies(b) ==
  /\ pc[b] \notin {"unused", "exited"}
  /\ faults < MaxFaults
  /\ faults' = faults + 1
  /\ pc' = [pc EXCEPT ![b] = "exited"]
  /\ buf' = [buf EXCEPT ![b] = NoMessage]
  /\ response' = [response EXCEPT ![b] = NoAnswer]
  /\ UNCHANGED <<uiVars, queues, msgid, response_msgid,
                 issued, done, answered, base, shown>>

UserStep ==
  \/ \E b \in Backend : Launch(b) \/ LaunchAgain(b)
  \/ \E type \in Commands : Request(type) \/ CancelDialog(type)
  \/ Quit

FrontEndStep ==
  RequestResumes \/ Poll \/ Refresh \/ QuitResumes
  \/ RemoveCommandQueue \/ RemoveResponseQueue

BackEndStep(b) ==
  AttachCommand(b) \/ AttachResponse(b) \/ Receive(b) \/ Work(b) \/ SendResponse(b)

Fault ==
  \/ \E type \in Commands : RequestFails(type)
  \/ FrontEndDies
  \/ \E b \in Backend : BackEndDies(b)

Next ==
  \/ UserStep
  \/ FrontEndStep
  \/ \E b \in Backend : BackEndStep(b)
  \/ Fault

Spec == Init /\ [][Next]_vars

(* The kernel schedules every process and GLib fires every timer that is   *)
(* due; nothing obliges the user to do anything.                           *)
Fairness ==
  /\ WF_vars(RequestResumes) /\ WF_vars(QuitResumes)
  /\ WF_vars(Poll) /\ WF_vars(Refresh)
  /\ WF_vars(RemoveCommandQueue) /\ WF_vars(RemoveResponseQueue)
  /\ \A b \in Backend : WF_vars(BackEndStep(b))

FairSpec == Spec /\ Fairness

-----------------------------------------------------------------------------
(* Properties.                                                             *)

Places == {"unused", "booting", "attaching", "waiting", "working", "replying", "exited"}

QueueOf(M) == [id : Nat, exists : BOOLEAN, msgs : Seq(M)]

(* Every variable has its type, and a command or an answer is held exactly *)
(* where the code has one in its hands.                                    *)
TypeOK ==
  /\ ui \in {"off", "idle", "sending", "quitting", "sleeping", "removing"}
  /\ outgoing \in IF ui \in {"sending", "quitting"} THEN Message ELSE {NoMessage}
  /\ is_check_running \in BOOLEAN
  /\ refreshes \in Nat
  /\ command_queue \in QueueOf(Message)
  /\ response_queue \in QueueOf(Answer)
  /\ pc \in [Backend -> Places]
  /\ msgid \in [Backend -> Nat]
  /\ response_msgid \in [Backend -> Nat]
  /\ buf \in [Backend -> Message \cup {NoMessage}]
  /\ response \in [Backend -> Answer \cup {NoAnswer}]
  /\ \A b \in Backend : /\ pc[b] = "working" <=> buf[b] # NoMessage
                        /\ pc[b] = "replying" <=> response[b] # NoAnswer
  /\ issued \in 0..MaxMessages
  /\ done \in Seq(1..MaxMessages)
  /\ answered \in Nat
  /\ base \in Nat /\ shown \in Nat /\ faults \in 0..MaxFaults

Started == {b \in Backend : pc[b] # "unused"}
Busy    == {b \in Backend : pc[b] \in {"working", "replying"}}
Queued(q) == {q.msgs[k].id : k \in DOMAIN q.msgs}
InHand  == {buf[b].id : b \in {x \in Backend : pc[x] = "working"}}
Unsent  == IF ui \in {"sending", "quitting"} THEN {outgoing.id} ELSE {}
Blocked == IF ui \in {"sending", "quitting"} THEN 1 ELSE 0
Carried == {done[k] : k \in DOMAIN done}
Leaving == ui \notin {"idle", "sending"}

Alone == \A b, c \in Started : b = c

(* No command is carried out twice, however many back ends take commands   *)
(* from the queue.                                                         *)
AtMostOnce == \A i, j \in DOMAIN done : done[i] = done[j] => i = j

(* Commands are carried out in the order in which the user confirmed them  *)
(* as long as only one back end was ever started; a second launch breaks   *)
(* the order, because both back ends take from the same queue.             *)
OneBackendInOrder ==
  Alone => \A i, j \in DOMAIN done : i < j => done[i] < done[j]

(* The strengthening of it that is inductive: commands leave the front end *)
(* and the queue in the order of their numbers, so that whoever works      *)
(* holds an older command than those queued, and none that was done.       *)
Held(b) == pc[b] = "working"

QueueOrder ==
  \A i \in DOMAIN command_queue.msgs :
    /\ command_queue.msgs[i].id + Blocked <= issued
    /\ \A j \in DOMAIN command_queue.msgs :
         i < j => command_queue.msgs[i].id < command_queue.msgs[j].id

HeldOrder ==
  \A b \in Backend : Held(b) =>
    /\ buf[b].id + Blocked <= issued
    /\ \A i \in DOMAIN command_queue.msgs : buf[b].id < command_queue.msgs[i].id
    /\ \A c \in Backend : Held(c) /\ b # c => buf[b].id # buf[c].id

DoneOrder ==
  \A k \in DOMAIN done :
    /\ done[k] + Blocked <= issued
    /\ \A i \in DOMAIN command_queue.msgs : done[k] < command_queue.msgs[i].id
    /\ \A b \in Backend : Held(b) => /\ done[k] # buf[b].id
                                     /\ Alone => done[k] < buf[b].id

CommandOrder ==
  /\ Blocked = 1 => outgoing.id = issued
  /\ QueueOrder
  /\ HeldOrder
  /\ DoneOrder
  /\ AtMostOnce
  /\ OneBackendInOrder

(* Nobody can move: the front end is blocked in msgsnd on a full command   *)
(* queue, and a back end in send_response on a full response queue that    *)
(* only the blocked front end reads.                                       *)
Jammed(b) ==
  /\ ui \in {"sending", "quitting"} /\ Full(command_queue)
  /\ pc[b] = "replying" /\ response_msgid[b] = response_queue.id
  /\ Full(response_queue)

(* The two processes block each other only with a backlog that fills both  *)
(* queues, the back end's hands and the front end's: fewer unanswered      *)
(* commands than that can never jam them.                                  *)
JamNeedsBacklog ==
  \A b \in Backend : Jammed(b) => issued >= answered + 2 * Capacity + 2

(* The strengthening of it that is inductive: every answer the front end   *)
(* has read, every queued message and everything in somebody's hands       *)
(* stands for a command of its own.                                        *)
Accounting ==
  issued >= answered + Len(response_queue.msgs) + Cardinality(Busy)
            + Len(command_queue.msgs) + Blocked

(* Until a queue is removed or a process dies every command the user       *)
(* confirmed is queued, in hand or carried out; only the quit message is   *)
(* nowhere once it has been read.                                          *)
NothingLostBeforeQuit ==
  faults = 0 /\ command_queue.id = 0 =>
    1..(IF ui = "sleeping" THEN issued - 1 ELSE issued)
      \subseteq Queued(command_queue) \cup InHand \cup Unsent \cup Carried

(* A session never sees the commands or the answers of an earlier one when *)
(* nothing crashed: on_application_shutdown removes the command queue      *)
(* before the response queue, and a back end that outlives it holds        *)
(* identifiers that are no longer valid.                                   *)
SessionIsolation ==
  faults = 0 =>
    /\ \A i \in Queued(command_queue) \cup Queued(response_queue) : i > base
    /\ ui = "off" => Queued(command_queue) \cup Queued(response_queue) = {}

(* A back end that ends on the quit message has carried out everything the *)
(* user asked for, if it was alone: the quit message never overtakes.      *)
GracefulExit ==
  faults = 0 /\ Alone =>
    \A b \in Backend : pc[b] = "exited" => Carried = 1..(issued - 1)

(* The strengthening of SessionIsolation that is inductive: removing a      *)
(* queue empties it, and an identifier that is still valid when a session  *)
(* starts belongs to a back end that has no command of an earlier session  *)
(* in its hands.                                                           *)
Attached(b) == pc[b] \in {"waiting", "working", "replying"}
Valid(b)    == response_msgid[b] = response_queue.id

QueuesSound ==
  /\ base <= issued
  /\ ~command_queue.exists => command_queue.msgs = << >>
  /\ ~response_queue.exists => response_queue.msgs = << >>
  /\ \A b \in Backend : Attached(b) =>
       /\ response_msgid[b] <= response_queue.id
       /\ Valid(b) => response_queue.exists

OwnSession ==
  /\ \A i \in Queued(command_queue) \cup Queued(response_queue) \cup Unsent : i > base
  /\ \A b \in Backend : Valid(b) =>
       /\ pc[b] = "working" => buf[b].id > base
       /\ pc[b] = "replying" => response[b].id > base

LeftClean ==
  /\ ui \in {"removing", "off"} => command_queue.msgs = << >>
  /\ ui = "off" => /\ response_queue.msgs = << >>
                   /\ \A b \in Busy : ~Valid(b)

Isolation == QueuesSound /\ (faults = 0 => OwnSession /\ LeftClean)

(* The strengthening of NothingLostBeforeQuit and GracefulExit that is     *)
(* inductive: a queue is removed only by a front end that leaves, and the  *)
(* quit message is the last one of its queue.                              *)
QuitIsLast ==
  command_queue.id = 0 =>
    \A i \in DOMAIN command_queue.msgs : command_queue.msgs[i].type = QUIT =>
      ui = "sleeping" /\ command_queue.msgs[i].id = issued

AllCarriedOut ==
  /\ command_queue.id > 0 => ui \in {"removing", "off"}
  /\ \A b \in Backend : pc[b] = "exited" =>
       ui \in {"sleeping", "removing", "off"} /\ Carried = 1..(issued - 1)

Delivery ==
  /\ NothingLostBeforeQuit
  /\ ui = "sending" => outgoing.type # QUIT
  /\ ui # "off" \/ command_queue.id > 0 => Started # {}
  /\ faults = 0 => QuitIsLast /\ (Alone => AllCarriedOut)

(* Every answer read, queued or being sent was given after its command was *)
(* carried out.                                                            *)
Acknowledgeable ==
  Len(done) >= answered + Len(response_queue.msgs)
               + Cardinality({b \in Backend : pc[b] = "replying"})

(* The two processes and their queues implement the command service with   *)
(* one worker per back end.                                                *)
Service == INSTANCE CommandService WITH
  Workers      <- Cardinality(Backend),
  submitted    <- issued,
  pending      <- Queued(command_queue) \cup InHand \cup Unsent,
  performed    <- done,
  acknowledged <- answered

ImplementsService == Service!ServiceSpec

(* A confirmed command is eventually carried out unless the user quits.    *)
EveryCommandExecuted ==
  \A i \in 1..MaxMessages :
    i \in Queued(command_queue) \cup Unsent ~> i \in Carried \/ Leaving

(* "UI responsiveness is kept during file operations": a front end blocked *)
(* in msgsnd comes back to its main loop.                                  *)
UiResponsive == ui = "sending" ~> ui # "sending"

(* After the answer that command i succeeded, the lists are read again, so *)
(* that they show what it did, unless the user quits.                      *)
ViewCatchesUp ==
  \A i \in 1..MaxMessages :
    (\E k \in DOMAIN response_queue.msgs :
        response_queue.msgs[k] = [text |-> "success", id |-> i])
    ~> (\E k \in 1..shown : done[k] = i) \/ Leaving

(* Shutting down comes to an end.                                          *)
QuitCompletes == ui \in {"quitting", "sleeping", "removing"} ~> ui = "off"

(* "Received quit signal. Exiting...": the quit message also ends a back   *)
(* end that is still carrying out a command when it is sent. (To one that  *)
(* already sleeps in msgrcv the kernel hands it at once, which the model   *)
(* does not tell from being about to call msgrcv.)                         *)
QuitStopsBackend ==
  \A b \in Backend : ui = "sleeping" /\ pc[b] = "working" ~> pc[b] = "exited"
=============================================================================
