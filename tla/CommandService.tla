--------------------------- MODULE CommandService ---------------------------
(***************************************************************************)
(* What the front end may rely on when it hands commands to the back end,  *)
(* whatever happens to the processes in between: commands are numbered in  *)
(* the order the user confirmed them; each is carried out at most once;    *)
(* a command is overtaken only when another worker holds the older ones;   *)
(* some may be lost; and no more answers arrive than commands were done.   *)
(* It does not promise that a command is carried out at all.               *)
(***************************************************************************)
EXTENDS Naturals, Sequences, FiniteSets

CONSTANT Workers   (* processes that may be carrying out commands *)

VARIABLES
  submitted,   (* commands submitted so far: they are numbered 1..submitted *)
  pending,     (* those neither carried out nor lost                        *)
  performed,   (* those carried out, in the order they were                 *)
  acknowledged (* answers the submitter has seen                            *)

serviceVars == <<submitted, pending, performed, acknowledged>>

ServiceInit ==
  /\ submitted = 0
  /\ pending = {}
  /\ performed = << >>
  /\ acknowledged = 0

Submit ==
  /\ submitted' = submitted + 1
  /\ pending' = pending \cup {submitted'}
  /\ UNCHANGED <<performed, acknowledged>>

Older(c) == {d \in pending : d < c}

Perform(c) ==
  /\ c \in pending
  /\ Cardinality(Older(c)) < Workers
  /\ pending' = pending \ {c}
  /\ performed' = Append(performed, c)
  /\ UNCHANGED <<submitted, acknowledged>>

Lose ==
  /\ pending' \in SUBSET pending
  /\ UNCHANGED <<submitted, performed, acknowledged>>

Acknowledge ==
  /\ acknowledged < Len(performed)
  /\ acknowledged' = acknowledged + 1
  /\ UNCHANGED <<submitted, pending, performed>>

ServiceNext ==
  \/ Submit
  \/ \E c \in pending : Perform(c)
  \/ Lose
  \/ Acknowledge

ServiceSpec == ServiceInit /\ [][ServiceNext]_serviceVars
=============================================================================
