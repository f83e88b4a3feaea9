---------------------------- MODULE BrowserProofs ----------------------------
(***************************************************************************)
(* Theorems about Browser, for all trees, names and texts the user types,  *)
(* and any number of commands and timers.                                  *)
(***************************************************************************)
EXTENDS Browser, FileTreeProofs

(* The state of a dialog: whether one is open, and what it would act on.   *)
dialogVars == <<dialog, entry, chosen>>

(* A step that touches none of it keeps the dialog's target.               *)
LEMMA DialogFrame ==
  ASSUME DialogKeepsTarget, UNCHANGED dialogVars
  PROVE  DialogKeepsTarget'
BY DEF dialogVars, DialogKeepsTarget, Idle, Target, Full, NoDialog, NoFile

(* Neither does one that leaves no dialog open.                            *)
LEMMA NoDialogKept ==
  ASSUME dialog' = NoDialog
  PROVE  DialogKeepsTarget'
BY DEF DialogKeepsTarget, Idle

(* The menu opens dialogs about what they act on.                          *)
LEMMA DialogOpened ==
  ASSUME NEW type, OpenDialog(type)
  PROVE  DialogKeepsTarget'
BY DEF OpenDialog, FileMenu, DialogKeepsTarget, Idle, Target, Full, view

(* Answers, timers and the selection that GTK makes by itself come at any  *)
(* moment, also while a dialog is open.                                    *)
LEMMA DialogUndisturbed ==
  ASSUME Autoselect \/ Serve \/ read_backend_message \/ Timers
  PROVE  UNCHANGED dialogVars
<1>1. CASE Autoselect
  BY <1>1 DEF Autoselect, dialogVars
<1>2. CASE Serve
  BY <1>2 DEF Serve, dialogVars, view
<1>3. CASE read_backend_message
  BY <1>3 DEF read_backend_message, dialogVars, view
<1>4. CASE Timers
  BY <1>4 DEF Timers, update, update_ui, update_favorites_list, dialogVars, view
<1> QED BY <1>1, <1>2, <1>3, <1>4

(* The user moves around only while no dialog is open.                     *)
LEMMA BrowseIdle ==
  ASSUME Browse
  PROVE  dialog' = NoDialog
<1>1. ASSUME NEW text \in TypedTexts, Type(text) PROVE dialog' = NoDialog
  BY <1>1 DEF Type, Idle
<1>2. CASE update_directory \/ upper_directory
  BY <1>2 DEF update_directory, upper_directory, Idle
<1>3. ASSUME NEW row \in Rows, on_columnview_activate(row) \/ on_selection_changed(row)
      PROVE  dialog' = NoDialog
  BY <1>3 DEF on_columnview_activate, on_selection_changed, Idle
<1>4. ASSUME NEW n \in Names, on_favorites_row_activated(n) PROVE dialog' = NoDialog
  BY <1>4 DEF on_favorites_row_activated, Idle
<1> QED BY <1>1, <1>2, <1>3, <1>4 DEF Browse

(* Every command opens a dialog on its target, closes one, or needs none.  *)
LEMMA CommandTarget ==
  ASSUME Command
  PROVE  DialogKeepsTarget'
<1>1. CASE on_new_directory_action
  BY <1>1, NoDialogKept DEF on_new_directory_action, Idle
<1>2. CASE on_add_to_favorites_action
  BY <1>2, NoDialogKept DEF on_add_to_favorites_action, FileMenu, Idle
<1>3. CASE on_rename_action \/ on_delete_action \/ on_move_action \/ on_copy_action
           \/ on_chmod_action
  BY <1>3, DialogOpened
     DEF on_rename_action, on_delete_action, on_move_action, on_copy_action, on_chmod_action
<1>4. CASE Cancel \/ Rejected \/ on_delete_response
  BY <1>4, NoDialogKept DEF Cancel, Rejected, on_delete_response, Close
<1>5. ASSUME NEW n \in TypedNames, on_dialog_response(n) PROVE DialogKeepsTarget'
  BY <1>5, NoDialogKept DEF on_dialog_response, Close
<1>6. ASSUME NEW dest \in TypedTexts \cup {entry}, on_move_dialog_response(dest)
      PROVE  DialogKeepsTarget'
  BY <1>6, NoDialogKept DEF on_move_dialog_response, Close
<1>7. ASSUME NEW mode \in Modes, on_chmod_dialog_response(mode) PROVE DialogKeepsTarget'
  BY <1>7, NoDialogKept DEF on_chmod_dialog_response, Close
<1> QED BY <1>1, <1>2, <1>3, <1>4, <1>5, <1>6, <1>7 DEF Command

(* A dialog is still about its file when it is confirmed, however many     *)
(* answers and timers come between.                                        *)
THEOREM TargetKept == Spec => []DialogKeepsTarget
<1>1. Init => DialogKeepsTarget
  BY DEF Init, DialogKeepsTarget, Idle
<1>2. DialogKeepsTarget /\ [Next]_vars => DialogKeepsTarget'
  <2> SUFFICES ASSUME DialogKeepsTarget, [Next]_vars
               PROVE  DialogKeepsTarget'
    OBVIOUS
  <2>1. CASE Browse
    BY <2>1, BrowseIdle, NoDialogKept
  <2>2. CASE Command
    BY <2>2, CommandTarget
  <2>3. CASE Autoselect \/ Serve \/ read_backend_message \/ Timers
    BY <2>3, DialogUndisturbed, DialogFrame
  <2>4. CASE UNCHANGED vars
    <3>1. UNCHANGED dialogVars
      BY <2>4 DEF vars, view, dialogVars
    <3> QED BY <3>1, DialogFrame
  <2> QED BY <2>1, <2>2, <2>3, <2>4 DEF Next
<1> QED BY <1>1, <1>2, PTL DEF Spec

-----------------------------------------------------------------------------
(* What a step may do to the list.                                         *)
ListStep == listed' # listed /\ listed' # NoDir => listed' = entry'

(* Every command leaves the list alone.                                    *)
LEMMA CommandKeepsList ==
  ASSUME Command
  PROVE  listed' = listed
<1>1. CASE on_new_directory_action \/ on_add_to_favorites_action
  BY <1>1 DEF on_new_directory_action, on_add_to_favorites_action, view
<1>2. ASSUME NEW type, OpenDialog(type) PROVE listed' = listed
  BY <1>2 DEF OpenDialog, view
<1>3. CASE on_rename_action \/ on_delete_action \/ on_move_action \/ on_copy_action
           \/ on_chmod_action
  BY <1>2, <1>3
     DEF on_rename_action, on_delete_action, on_move_action, on_copy_action, on_chmod_action
<1>4. CASE Cancel \/ Rejected \/ on_delete_response
  BY <1>4 DEF Cancel, Rejected, on_delete_response, view
<1>5. ASSUME NEW n \in TypedNames, on_dialog_response(n) PROVE listed' = listed
  BY <1>5 DEF on_dialog_response, view
<1>6. ASSUME NEW dest \in TypedTexts \cup {entry}, on_move_dialog_response(dest)
      PROVE  listed' = listed
  BY <1>6 DEF on_move_dialog_response, view
<1>7. ASSUME NEW mode \in Modes, on_chmod_dialog_response(mode) PROVE listed' = listed
  BY <1>7 DEF on_chmod_dialog_response, view
<1> QED BY <1>1, <1>3, <1>4, <1>5, <1>6, <1>7 DEF Command

(* Moving around sets the list to the new path, or empties it.             *)
LEMMA BrowseList ==
  ASSUME Browse
  PROVE  ListStep
<1>1. ASSUME NEW text \in TypedTexts, Type(text) PROVE ListStep
  BY <1>1 DEF Type, ListStep
<1>2. CASE update_directory \/ upper_directory
  BY <1>2 DEF update_directory, upper_directory, ShowDir, ListStep
<1>3. ASSUME NEW row \in Rows, on_columnview_activate(row) \/ on_selection_changed(row)
      PROVE  ListStep
  BY <1>3 DEF on_columnview_activate, on_selection_changed, ShowDir, ListStep
<1>4. ASSUME NEW n \in Names, on_favorites_row_activated(n) PROVE ListStep
  BY <1>4 DEF on_favorites_row_activated, ShowDir, ListStep
<1> QED BY <1>1, <1>2, <1>3, <1>4 DEF Browse

(* Whenever the list is set, it is set to the path in the entry, wherever  *)
(* the user went between the two timers of a refresh.                      *)
THEOREM ListFollowsEntry == Spec => ListSetToEntry
<1>1. [Next]_vars => [ListStep]_vars
  <2> SUFFICES ASSUME [Next]_vars
               PROVE  ListStep
    OBVIOUS
  <2>1. CASE Browse
    BY <2>1, BrowseList
  <2>2. CASE Command
    BY <2>2, CommandKeepsList DEF ListStep
  <2>3. CASE Autoselect \/ Serve \/ read_backend_message
    BY <2>3 DEF Autoselect, Serve, read_backend_message, view, ListStep
  <2>4. CASE Timers
    BY <2>4 DEF Timers, update, update_ui, update_favorites_list, ShowDir, view, ListStep
  <2>5. CASE UNCHANGED vars
    BY <2>5 DEF vars, view, ListStep
  <2> QED BY <2>1, <2>2, <2>3, <2>4, <2>5 DEF Next
<1> QED BY <1>1, PTL DEF Spec, ListSetToEntry, ListStep

-----------------------------------------------------------------------------
(* Texts of messages.                                                      *)

(* The texts so far, one after the other: what FlattenSeq builds up.       *)
Builds(s, f, n) ==
  /\ f \in [1..n -> Seq(STRING)]
  /\ \A i \in 1..n : f[i] = IF i = 1 THEN s[i] ELSE f[i - 1] \o s[i]

LEMMA BuildsAll ==
  ASSUME NEW s \in Seq(Seq(STRING))
  PROVE  \A n \in 0..Len(s) : \E f : Builds(s, f, n)
<1> DEFINE Bad == {n \in 0..Len(s) : ~\E f : Builds(s, f, n)}
<1>1. Len(s) \in Nat /\ \A i \in 1..Len(s) : s[i] \in Seq(STRING)
  BY LenProperties, ElementOfSeq
<1>2. SUFFICES ASSUME Bad # {}
               PROVE  FALSE
  OBVIOUS
<1>3. PICK n \in Bad : \A m \in Bad : n <= m
  <2>1. Bad \in SUBSET Nat
    BY <1>1
  <2> HIDE DEF Bad
  <2> QED BY <2>1, <1>2, LeastNatural
<1>4. n # 0
  <2>1. Builds(s, [i \in 1..0 |-> << >>], 0)
    BY DEF Builds
  <2> QED BY <2>1
<1>5. n - 1 \in 0..Len(s) /\ n \in 1..Len(s) /\ n - 1 \notin Bad
  <2>1. n \in 0..Len(s)
    OBVIOUS
  <2>2. n - 1 \in 0..Len(s) /\ n \in 1..Len(s) /\ ~(n <= n - 1)
    BY <2>1, <1>1, <1>4
  <2> HIDE DEF Bad
  <2> QED BY <2>2, <1>3
<1>6. PICK f : Builds(s, f, n - 1)
  BY <1>5
<1> DEFINE last == IF n = 1 THEN s[n] ELSE f[n - 1] \o s[n]
           g == [i \in 1..n |-> IF i = n THEN last ELSE f[i]]
<1>7. last \in Seq(STRING)
  <2>1. CASE n = 1
    BY <2>1, <1>1, <1>5
  <2>2. CASE n # 1
    <3>1. f[n - 1] \in Seq(STRING) /\ s[n] \in Seq(STRING)
      BY <2>2, <1>1, <1>5, <1>6 DEF Builds
    <3> QED BY <2>2, <3>1, ConcatProperties
  <2> QED BY <2>1, <2>2
<1>8. Builds(s, g, n)
  <2> HIDE DEF last
  <2>1. g \in [1..n -> Seq(STRING)]
    BY <1>5, <1>6, <1>7 DEF Builds
  <2>2. ASSUME NEW i \in 1..n
        PROVE  g[i] = IF i = 1 THEN s[i] ELSE g[i - 1] \o s[i]
    <3>1. CASE i = n
      <4>1. n # 1 => g[n - 1] = f[n - 1]
        BY <1>5
      <4> QED BY <3>1, <4>1 DEF last
    <3>2. CASE i # n
      <4>1. i \in 1..(n - 1) /\ g[i] = f[i] /\ (i # 1 => g[i - 1] = f[i - 1])
        BY <3>2, <1>5
      <4> QED BY <4>1, <1>6 DEF Builds
    <3> QED BY <3>1, <3>2
  <2> HIDE DEF g
  <2> QED BY <2>1, <2>2 DEF Builds
<1> QED BY <1>3, <1>8

(* It is what FlattenSeq makes of them.                                    *)
LEMMA FlattenBuilds ==
  ASSUME NEW s \in Seq(Seq(STRING)), s # << >>,
         NEW g, \A i \in 1..Len(s) : g[i] = IF i = 1 THEN s[i] ELSE g[i - 1] \o s[i]
  PROVE  FlattenSeq(s) = g[Len(s)]
<1> DEFINE n == Len(s)
           Step(f) == [i \in 1..Len(s) |-> IF i = 1 THEN s[i] ELSE f[i - 1] \o s[i]]
           flatten == CHOOSE f : f = Step(f)
<1>1. n \in Nat /\ n # 0 /\ n \in 0..Len(s)
  BY LenProperties, EmptySeq
<1>2. PICK f : Builds(s, f, n)
  BY <1>1, BuildsAll
<1>3. f = Step(f)
  BY <1>2 DEF Builds
<1>4. flatten = Step(flatten)
  BY <1>3
<1>5. FlattenSeq(s) = flatten[n]
  BY <1>1 DEF FlattenSeq
<1>6. \A i \in 1..n : flatten[i] = IF i = 1 THEN s[i] ELSE flatten[i - 1] \o s[i]
  BY <1>4, Zenon
<1> HIDE DEF flatten, Step
<1> DEFINE Bad == {i \in 1..n : flatten[i] # g[i]}
<1>7. Bad = {}
  <2> SUFFICES ASSUME Bad # {}
               PROVE  FALSE
    OBVIOUS
  <2>1. Bad \in SUBSET Nat
    BY <1>1
  <2>2. PICK k \in Bad : \A m \in Bad : k <= m
    <3> HIDE DEF Bad
    <3> QED BY <2>1, LeastNatural
  <2>3. k \in 1..n /\ flatten[k] # g[k]
    OBVIOUS
  <2>4. k # 1 => k - 1 \in 1..n /\ ~(k <= k - 1)
    BY <2>3, <1>1
  <2>5. k # 1 => flatten[k - 1] = g[k - 1]
    BY <2>2, <2>4
  <2> QED BY <2>3, <2>5, <1>6
<1> QED BY <1>1, <1>5, <1>7

LEMMA FlattenType ==
  ASSUME NEW s \in Seq(Seq(STRING))
  PROVE  FlattenSeq(s) \in Seq(STRING)
<1>1. CASE s = << >>
  <2>1. Len(s) = 0
    BY <1>1, EmptySeq
  <2>2. FlattenSeq(s) = << >>
    BY <1>1, <2>1 DEF FlattenSeq
  <2> QED BY <2>2, EmptySeq
<1>2. CASE s # << >>
  <2>1. Len(s) \in Nat /\ Len(s) # 0
    BY <1>2, LenProperties, EmptySeq
  <2>2. Len(s) \in 0..Len(s) /\ Len(s) \in 1..Len(s)
    BY <2>1
  <2>3. PICK f : Builds(s, f, Len(s))
    BY <2>2, BuildsAll
  <2>4. FlattenSeq(s) = f[Len(s)]
    BY <1>2, <2>3, FlattenBuilds DEF Builds
  <2> QED BY <2>2, <2>3, <2>4 DEF Builds
<1> QED BY <1>1, <1>2

(* Texts of one part each make up the sequence of their parts.             *)
LEMMA FlattenParts ==
  ASSUME NEW p \in Seq(STRING)
  PROVE  FlattenSeq([i \in DOMAIN p |-> <<p[i]>>]) = p
<1> DEFINE n == Len(p)
           s == [i \in DOMAIN p |-> <<p[i]>>]
           g == [i \in 1..Len(p) |-> SubSeq(p, 1, i)]
<1>1. n \in Nat /\ DOMAIN p = 1..n /\ \A i \in 1..n : p[i] \in STRING
  BY LenProperties, ElementOfSeq
<1>2. s \in Seq(Seq(STRING)) /\ Len(s) = n
  BY <1>1
<1>3. CASE p = << >>
  <2>1. n = 0 /\ s = << >>
    BY <1>3, <1>1, <1>2
  <2> QED BY <2>1, <1>3 DEF FlattenSeq
<1>4. CASE p # << >>
  <2>1. n # 0 /\ s # << >>
    BY <1>4, <1>1, <1>2, EmptySeq
  <2>2. ASSUME NEW i \in 1..n
        PROVE  g[i] = IF i = 1 THEN s[i] ELSE g[i - 1] \o s[i]
    <3>1. s[i] = <<p[i]>> /\ g[i] = SubSeq(p, 1, i)
      BY <1>1
    <3>2. SubSeq(p, 1, i) = SubSeq(p, 1, i - 1) \o <<p[i]>>
      <4>1. 1 \in 1..Len(p) /\ i \in 1..Len(p)
        BY <1>1
      <4> QED BY <4>1, SubSeqRecursiveSecond
    <3>3. CASE i = 1
      <4>1. SubSeq(p, 1, 0) = << >>
        BY SubSeqEmpty
      <4>2. << >> \o <<p[i]>> = <<p[i]>>
        BY <1>1, ConcatEmptySeq
      <4> QED BY <3>1, <3>2, <3>3, <4>1, <4>2
    <3>4. CASE i # 1
      <4>1. i - 1 \in 1..Len(p)
        BY <1>1, <3>4
      <4>2. g[i - 1] = SubSeq(p, 1, i - 1)
        BY <4>1
      <4> QED BY <3>1, <3>2, <3>4, <4>2
    <3> QED BY <3>3, <3>4
  <2>3. g[n] = p
    BY <1>1, <2>1, SubSeqFull
  <2> HIDE DEF s, g
  <2>4. FlattenSeq(s) = g[n]
    BY <1>2, <2>1, <2>2, FlattenBuilds
  <2> QED BY <2>3, <2>4 DEF s
<1> QED BY <1>3, <1>4
LEMMA OnePart ==
  ASSUME NEW S, NEW x \in S
  PROVE  <<x>> \in Seq(S) /\ Len(<<x>>) = 1 /\ <<x>>[1] = x
OBVIOUS

LEMMA TextOfPath ==
  ASSUME NEW p \in Seq(Part)
  PROVE  /\ PathText(p) \in Seq(STRING) /\ Len(PathText(p)) \in Nat \ {0}
         /\ PathText(p)[1] = "/"
         /\ Plain(p) => PathText(p) \in Seq(Part) /\ PathText(p) = <<"/">> \o p
<1> DEFINE s == [i \in DOMAIN p |-> Spelled(p[i])]
<1>1. Len(p) \in Nat /\ DOMAIN p = 1..Len(p) /\ p \in Seq(STRING)
      /\ \A i \in 1..Len(p) : p[i] \in STRING
  BY LenProperties, ElementOfSeq, SeqMonotonic DEF Part
<1>2. \A i \in 1..Len(p) : Spelled(p[i]) \in Seq(STRING)
  <2>1. ASSUME NEW n \in STRING
        PROVE  Spelled(n) \in Seq(STRING)
    <3>1. CASE n \in Names
      BY <3>1, SpellAssumption DEF Spelled
    <3>2. CASE n \notin Names
      BY <3>2, OnePart DEF Spelled
    <3> QED BY <3>1, <3>2
  <2> QED BY <1>1, <2>1
<1>3. s \in Seq(Seq(STRING))
  BY <1>1, <1>2
<1>4. FlattenSeq(s) \in Seq(STRING)
  <2> HIDE DEF s
  <2> QED BY <1>3, FlattenType
<1>5. <<"/">> \in Seq(Part) /\ <<"/">> \in Seq(STRING) /\ Len(<<"/">>) = 1
      /\ <<"/">>[1] = "/"
  <2>1. "/" \in STRING /\ "/" # "$"
    BY LiteralsAssumption
  <2>2. "/" \in Part
    BY <2>1 DEF Part
  <2> QED BY <2>1, <2>2, OnePart
<1>6. PathText(p) = <<"/">> \o FlattenSeq(s)
  BY DEF PathText
<1>7. /\ PathText(p) \in Seq(STRING) /\ Len(PathText(p)) \in Nat \ {0}
      /\ PathText(p)[1] = "/"
  <2> DEFINE t == FlattenSeq(s)
             h == <<"/">>
  <2>1. h \in Seq(STRING) /\ Len(h) = 1 /\ h[1] = "/" /\ t \in Seq(STRING) /\ Len(t) \in Nat
    BY <1>4, <1>5, LenProperties
  <2>2. PathText(p) = h \o t
    BY <1>6
  <2> HIDE DEF h, t
  <2>3. /\ h \o t \in Seq(STRING) /\ Len(h \o t) = Len(h) + Len(t)
        /\ \A i \in 1..(Len(h) + Len(t)) : (h \o t)[i] = IF i <= Len(h) THEN h[i] ELSE t[i - Len(h)]
    BY <2>1, ConcatProperties
  <2>4. 1 \in 1..(1 + Len(t))
    BY <2>1
  <2>5. (h \o t)[1] = "/"
    BY <2>1, <2>3, <2>4
  <2> QED BY <2>1, <2>2, <2>3, <2>5
<1>8. ASSUME Plain(p)
      PROVE  PathText(p) \in Seq(Part) /\ PathText(p) = <<"/">> \o p
  <2>1. \A i \in 1..Len(p) : Spelled(p[i]) = <<p[i]>>
    BY <1>1, <1>8 DEF Plain, Spelled
  <2>2. s = [i \in DOMAIN p |-> <<p[i]>>]
    BY <1>1, <2>1
  <2>3. FlattenSeq(s) = p
    BY <2>2, <1>1, FlattenParts
  <2>4. <<"/">> \o p \in Seq(Part)
    BY <1>5, ConcatProperties
  <2> QED BY <1>6, <2>3, <2>4
<1> QED BY <1>7, <1>8

(* strtok returns the parts up to the first "$".                           *)
LEMMA UptoFirst ==
  ASSUME NEW t \in Seq(STRING)
  PROVE  /\ Upto(t) \in Seq(Part)
         /\ \A k \in 1..Len(t) :
              t[k] = "$" /\ (\A j \in 1..(k - 1) : t[j] # "$") => Upto(t) = SubSeq(t, 1, k - 1)
         /\ (\A j \in 1..Len(t) : t[j] # "$") => Upto(t) = t
<1> DEFINE I == {i \in 1..Len(t) : t[i] = "$"}
<1>1. Len(t) \in Nat /\ \A i \in 1..Len(t) : t[i] \in STRING
  BY LenProperties, ElementOfSeq
<1>2. Upto(t) = LET i == IF I # {} THEN Min(I) ELSE 0
                IN  IF i = 0 THEN t ELSE SubSeq(t, 1, i - 1)
  BY DEF Upto, SelectInSeq
<1>3. CASE I = {}
  <2>1. Upto(t) = t
    BY <1>2, <1>3
  <2>2. \A j \in 1..Len(t) : t[j] # "$"
    BY <1>3
  <2>3. \A j \in 1..Len(t) : t[j] \in Part
    BY <1>1, <2>2 DEF Part
  <2>4. t \in Seq(Part)
    <3>1. SubSeq(t, 1, Len(t)) \in Seq(Part)
      BY <1>1, <2>3, SubSeqProperties
    <3> QED BY <3>1, SubSeqFull
  <2> QED BY <2>1, <2>2, <2>4
<1>4. CASE I # {}
  <2>1. PICK k \in I : \A m \in I : k <= m
    <3>1. I \in SUBSET Nat
      BY <1>1
    <3> HIDE DEF I
    <3> QED BY <1>4, <3>1, LeastNatural
  <2>2. k \in 1..Len(t) /\ k \in Nat /\ t[k] = "$"
    BY <1>1
  <2>3. Min(I) = k
    <3>1. \A m \in I : m \in Nat
      BY <1>1
    <3> HIDE DEF I
    <3>2. \A x \in I : (\A y \in I : x <= y) => x = k
      BY <2>1, <3>1
    <3> QED BY <2>1, <3>2 DEF Min
  <2>4. Upto(t) = SubSeq(t, 1, k - 1)
    <3>1. k # 0
      BY <2>2
    <3> HIDE DEF I
    <3> QED BY <1>2, <1>4, <2>3, <3>1
  <2>5. \A j \in 1..(k - 1) : j \in 1..Len(t) /\ ~(k <= j)
    BY <2>2, <1>1
  <2>6. \A j \in 1..(k - 1) : t[j] # "$"
    BY <2>1, <2>5
  <2>7. \A j \in 1..(k - 1) : t[j] \in Part
    BY <2>5, <2>6, <1>1 DEF Part
  <2>8. Upto(t) \in Seq(Part)
    BY <2>2, <2>4, <2>7, SubSeqProperties
  <2>9. ASSUME NEW m \in 1..Len(t), t[m] = "$", \A j \in 1..(m - 1) : t[j] # "$"
        PROVE  m = k
    <3>1. ~(k \in 1..(m - 1)) /\ ~(m \in 1..(k - 1))
      BY <2>2, <2>6, <2>9
    <3> QED BY <3>1, <2>2, <1>1
  <2> QED BY <2>2, <2>4, <2>8, <2>9
<1> QED BY <1>3, <1>4

(* What is left when strtok has passed a "$", and all that follow it.      *)
LEMMA BeyondType ==
  ASSUME NEW t \in Seq(STRING)
  PROVE  Beyond(t) \in Seq(STRING)
<1> DEFINE n == Len(Upto(t)) + 1
           rest == SubSeq(t, n, Len(t))
           I == {i \in 1..Len(rest) : rest[i] # "$"}
<1>1. Len(t) \in Nat /\ Len(Upto(t)) \in Nat /\ \A i \in 1..Len(t) : t[i] \in STRING
  BY LenProperties, ElementOfSeq, UptoFirst
<1>2. rest \in Seq(STRING) /\ Len(rest) \in Nat /\ \A i \in 1..Len(rest) : rest[i] \in STRING
  <2>1. \A i \in n..Len(t) : t[i] \in STRING
    BY <1>1
  <2>2. rest \in Seq(STRING)
    BY <1>1, <2>1, SubSeqProperties
  <2> HIDE DEF rest
  <2> QED BY <2>2, LenProperties, ElementOfSeq
<1>3. Beyond(t) = LET i == IF I # {} THEN Min(I) ELSE 0
                  IN  IF i = 0 THEN << >> ELSE SubSeq(rest, i, Len(rest))
  BY DEF Beyond, SelectInSeq
<1> HIDE DEF rest
<1>4. CASE I = {}
  BY <1>3, <1>4, EmptySeq
<1>5. CASE I # {}
  <2>1. I \in SUBSET Nat
    BY <1>2
  <2>2. Min(I) \in 1..Len(rest)
    <3>1. \E k \in I : \A m \in I : k <= m
      <4> HIDE DEF I
      <4> QED BY <2>1, <1>5, LeastNatural
    <3>2. Min(I) \in I
      <4> HIDE DEF I
      <4> QED BY <3>1 DEF Min
    <3> QED BY <3>2
  <2> HIDE DEF I
  <2>3. Beyond(t) = SubSeq(rest, Min(I), Len(rest))
    BY <1>3, <1>5, <2>2
  <2>4. \A i \in Min(I)..Len(rest) : rest[i] \in STRING
    BY <1>2, <2>2
  <2> QED BY <1>2, <2>2, <2>3, <2>4, SubSeqProperties
<1> QED BY <1>4, <1>5

LEMMA PairText ==
  ASSUME NEW a \in Seq(STRING), NEW b \in Seq(STRING)
  PROVE  Pair(a, b) \in Seq(STRING) /\ Len(Pair(a, b)) = Len(a) + 1 + Len(b)
<1> DEFINE h == <<"$">>
           u == a \o h
<1>1. h \in Seq(STRING) /\ Len(h) = 1
  BY OnePart, LiteralsAssumption
<1>2. Pair(a, b) = u \o b
  BY DEF Pair
<1> HIDE DEF h
<1>3. u \in Seq(STRING) /\ Len(u) = Len(a) + Len(h)
  BY <1>1, ConcatProperties
<1> HIDE DEF u
<1>4. u \o b \in Seq(STRING) /\ Len(u \o b) = Len(u) + Len(b)
  BY <1>3, ConcatProperties
<1> QED BY <1>1, <1>2, <1>3, <1>4

(* strtok takes apart what a "$" holds together.                           *)
LEMMA FieldsOfPair ==
  ASSUME NEW a \in Seq(Part), NEW b \in Seq(Part)
  PROVE  Field1(Pair(a, b)) = a /\ Field2(Pair(a, b)) = b
<1> DEFINE t == Pair(a, b)
<1>1. /\ a \in Seq(STRING) /\ b \in Seq(STRING) /\ Len(a) \in Nat /\ Len(b) \in Nat
      /\ (\A i \in 1..Len(a) : a[i] # "$") /\ (\A i \in 1..Len(b) : b[i] # "$")
  BY SeqMonotonic, LenProperties, ElementOfSeq DEF Part
<1>2. /\ t \in Seq(STRING) /\ Len(t) = Len(a) + 1 + Len(b)
      /\ \A i \in 1..Len(a) : t[i] = a[i]
      /\ t[Len(a) + 1] = "$"
      /\ \A i \in 1..Len(b) : t[Len(a) + 1 + i] = b[i]
  <2> DEFINE h == <<"$">>
             u == a \o h
  <2>1. h \in Seq(STRING) /\ Len(h) = 1 /\ h[1] = "$"
    BY OnePart, LiteralsAssumption
  <2>2. t = u \o b
    BY DEF Pair
  <2> HIDE DEF h, t
  <2>3. /\ u \in Seq(STRING) /\ Len(u) = Len(a) + Len(h)
        /\ \A i \in 1..(Len(a) + Len(h)) : u[i] = IF i <= Len(a) THEN a[i] ELSE h[i - Len(a)]
    BY <1>1, <2>1, ConcatProperties
  <2> HIDE DEF u
  <2>4. /\ u \o b \in Seq(STRING) /\ Len(u \o b) = Len(u) + Len(b)
        /\ \A i \in 1..(Len(u) + Len(b)) : (u \o b)[i] = IF i <= Len(u) THEN u[i] ELSE b[i - Len(u)]
    <3>1. u \in Seq(STRING) /\ b \in Seq(STRING)
      BY <1>1, <2>3
    <3> QED BY <3>1, ConcatProperties
  <2>5. t \in Seq(STRING) /\ Len(t) = Len(a) + 1 + Len(b)
    BY <2>1, <2>2, <2>3, <2>4
  <2>6. ASSUME NEW i \in 1..(Len(a) + 1)
        PROVE  t[i] = IF i <= Len(a) THEN a[i] ELSE "$"
    <3>1. i \in 1..(Len(u) + Len(b)) /\ i <= Len(u) /\ i \in 1..(Len(a) + Len(h))
      BY <1>1, <2>1, <2>3
    <3>2. t[i] = u[i]
      BY <3>1, <2>2, <2>4
    <3>3. i > Len(a) => i - Len(a) = 1
      BY <1>1
    <3> QED BY <3>1, <3>2, <3>3, <2>1, <2>3
  <2>7. ASSUME NEW i \in 1..Len(b)
        PROVE  t[Len(a) + 1 + i] = b[i]
    <3> DEFINE k == Len(a) + 1 + i
    <3>1. k \in 1..(Len(u) + Len(b)) /\ ~(k <= Len(u)) /\ k - Len(u) = i
      BY <1>1, <2>1, <2>3
    <3> HIDE DEF k
    <3>2. t[k] = b[i]
      BY <3>1, <2>2, <2>4
    <3> QED BY <3>2 DEF k
  <2>8. t[Len(a) + 1] = "$"
    <3>1. Len(a) + 1 \in 1..(Len(a) + 1) /\ ~(Len(a) + 1 <= Len(a))
      BY <1>1
    <3> QED BY <3>1, <2>6
  <2>9. \A i \in 1..Len(a) : t[i] = a[i]
    <3>1. \A i \in 1..Len(a) : i \in 1..(Len(a) + 1) /\ i <= Len(a)
      BY <1>1
    <3> QED BY <3>1, <2>6
  <2> QED BY <2>5, <2>7, <2>8, <2>9
<1> HIDE DEF t
<1>3. Upto(t) = a
  <2> DEFINE k == Len(a) + 1
  <2>1. k \in 1..Len(t) /\ k - 1 = Len(a) /\ t[k] = "$"
    BY <1>1, <1>2
  <2>2. \A j \in 1..(k - 1) : t[j] # "$"
    BY <1>1, <1>2
  <2> HIDE DEF k
  <2>3. Upto(t) = SubSeq(t, 1, k - 1)
    BY <1>2, <2>1, <2>2, UptoFirst
  <2>4. \A i \in 1..Len(a) : t[i] \in STRING
    BY <1>1, <1>2, ElementOfSeq
  <2> DEFINE v == SubSeq(t, 1, Len(a))
  <2>5. v \in Seq(STRING) /\ Len(v) = Len(a) /\ \A i \in 1..Len(a) : v[i] = t[i]
    BY <1>1, <2>4, SubSeqProperties
  <2> HIDE DEF v
  <2>6. v = a
    BY <1>1, <1>2, <2>5, SeqEqual
  <2> QED BY <2>1, <2>3, <2>6 DEF v
<1>4. Beyond(t) = b
  <2> DEFINE rest == SubSeq(t, Len(a) + 1, Len(t))
             I == {i \in 1..Len(rest) : rest[i] # "$"}
  <2>1. \A i \in (Len(a) + 1)..Len(t) : t[i] \in STRING
    BY <1>1, <1>2, ElementOfSeq
  <2>2. /\ rest \in Seq(STRING) /\ Len(rest) = Len(b) + 1
        /\ \A i \in 1..(Len(b) + 1) : rest[i] = t[Len(a) + i]
    BY <1>1, <1>2, <2>1, SubSeqProperties
  <2>3. Beyond(t) = LET i == IF I # {} THEN Min(I) ELSE 0
                    IN  IF i = 0 THEN << >> ELSE SubSeq(rest, i, Len(rest))
    BY <1>3 DEF Beyond, SelectInSeq
  <2> HIDE DEF rest
  <2>4. rest[1] = "$" /\ \A i \in 1..Len(b) : rest[i + 1] = b[i]
    <3>1. 1 \in 1..(Len(b) + 1) /\ \A i \in 1..Len(b) : i + 1 \in 1..(Len(b) + 1)
      BY <1>1
    <3>2. \A i \in 1..Len(b) : Len(a) + (i + 1) = Len(a) + 1 + i
      BY <1>1
    <3> QED BY <3>1, <3>2, <1>2, <2>2
  <2>5. I = 2..(Len(b) + 1)
    <3>1. \A i \in 2..(Len(b) + 1) : i \in 1..Len(rest) /\ i - 1 \in 1..Len(b) /\ (i - 1) + 1 = i
      BY <1>1, <2>2
    <3>2. ASSUME NEW i \in 2..(Len(b) + 1)
          PROVE  rest[i] # "$"
      <4> DEFINE k == i - 1
      <4>1. k \in 1..Len(b) /\ k + 1 = i
        BY <3>1
      <4> HIDE DEF k
      <4> QED BY <4>1, <1>1, <2>4
    <3>3. \A i \in 1..Len(rest) : i = 1 \/ i \in 2..(Len(b) + 1)
      BY <1>1, <2>2
    <3> QED BY <3>1, <3>2, <3>3, <2>4
  <2>6. CASE Len(b) = 0
    <3>1. I = {} /\ b = << >>
      BY <2>5, <2>6, <1>1, EmptySeq
    <3> HIDE DEF I
    <3> QED BY <3>1, <2>3
  <2>7. CASE Len(b) # 0
    <3>1. I = 2..(Len(b) + 1) /\ 2 \in I /\ (\A m \in I : 2 <= m) /\ I \subseteq Nat
      BY <2>5, <2>7, <1>1
    <3> HIDE DEF I
    <3>2. Min(I) = 2
      <4>1. \A x \in I : (\A y \in I : x <= y) => x = 2
        BY <3>1
      <4> QED BY <3>1, <4>1 DEF Min
    <3>3. Beyond(t) = SubSeq(rest, 2, Len(rest))
      BY <2>3, <3>1, <3>2
    <3> DEFINE v == SubSeq(rest, 2, Len(rest))
    <3>4. \A i \in 2..Len(rest) : rest[i] \in STRING
      BY <1>1, <2>2, ElementOfSeq
    <3>5. v \in Seq(STRING) /\ Len(v) = Len(b) /\ \A i \in 1..Len(b) : v[i] = rest[2 + i - 1]
      BY <1>1, <2>2, <2>7, <3>4, SubSeqProperties
    <3>6. \A i \in 1..Len(b) : 2 + i - 1 = i + 1
      BY <1>1
    <3> HIDE DEF v
    <3>7. \A i \in 1..Len(b) : v[i] = b[i]
      BY <2>4, <3>5, <3>6
    <3>8. v = b
      BY <1>1, <3>5, <3>7, SeqEqual
    <3> QED BY <3>3, <3>8 DEF v
  <2> QED BY <2>6, <2>7
<1>5. Upto(b) = b
  BY <1>1, UptoFirst
<1> QED BY <1>3, <1>4, <1>5 DEF Field1, Field2, t

LEMMA CutText ==
  ASSUME NEW t \in Seq(STRING)
  PROVE  Cut(t) \in Seq(STRING) /\ (Len(t) <= TextMax => Cut(t) = t)
<1>1. CASE Len(t) <= TextMax
  BY <1>1 DEF Cut
<1>2. CASE ~(Len(t) <= TextMax)
  <2>1. TextMax \in Nat /\ \A i \in 1..TextMax : t[i] \in STRING
    BY <1>2, TextMaxAssumption, LenProperties, ElementOfSeq
  <2> QED BY <1>2, <2>1, SubSeqProperties DEF Cut
<1> QED BY <1>1, <1>2

LEMMA ReadingType ==
  ASSUME NEW S, NEW text \in Seq(S), NEW written, NEW meant \in Seq(S), "no path" \in S
  PROVE  Reading(text, written, meant) \in Seq(S)
<1>1. NoPath \in Seq(S)
  BY OnePart DEF NoPath
<1>2. text # << >> => Tail(text) \in Seq(S)
  BY HeadTailProperties
<1> QED BY <1>1, <1>2 DEF Reading

-----------------------------------------------------------------------------
(* Messages.                                                               *)

(* What ReadAsMeant says of one message.                                   *)
Meant(m) ==
  LET s == Len(PathText(m.src))
      d == IF m.type \in OnePath THEN 0
           ELSE IF m.type = "chmod" THEN 1 + Len(m.dst) ELSE 1 + Len(PathText(m.dst))
  IN  Plain(m.src) /\ Plain(m.dst) /\ s + d <= TextMax
      => m.from = m.src /\ m.to = m.dst

(* No "$" comes into a link, whatever was cut from the message: this is    *)
(* what keeps it out of the entry and of later messages.                   *)
Legible == {m \in Request : Meant(m) /\ (m.type = "link" => m.from \in Seq(Part))}

LEMMA PartIsString ==
  /\ \A p \in Seq(Part) : p \in Seq(STRING)
  /\ {"no path", "no link", "no directory", "", "755"} \subseteq Part
<1>1. Part \subseteq STRING
  BY DEF Part
<1>2. \A p \in Seq(Part) : p \in Seq(STRING)
  BY <1>1, SeqMonotonic
<1>3. {"no path", "no link", "no directory", "", "755"} \subseteq Part
  BY LiteralsAssumption DEF Part
<1> QED BY <1>2, <1>3

LEMMA OnePathLegible ==
  ASSUME NEW type \in OnePath, NEW src \in Seq(Part)
  PROVE  Message(type, src, NoPath, PathText(src), << >>) \in Legible
<1> DEFINE text == Cut(PathText(src))
           from == Reading(text, PathText(src), src)
           m    == Message(type, src, NoPath, PathText(src), << >>)
<1>1. m = [type |-> type, src |-> src, dst |-> NoPath, from |-> from, to |-> NoPath]
  BY DEF Message
<1>2. NoPath \in Seq(Part) /\ NoPath \in Seq(STRING) /\ src \in Seq(STRING) /\ "no path" \in STRING
  BY PartIsString, OnePart, LiteralsAssumption DEF NoPath
<1>3. PathText(src) \in Seq(STRING)
  BY TextOfPath
<1>4. text \in Seq(STRING) /\ (Len(PathText(src)) <= TextMax => text = PathText(src))
  BY <1>3, CutText
<1> HIDE DEF text
<1>5. from \in Seq(STRING)
  BY <1>2, <1>4, ReadingType
<1>6. text = PathText(src) => from = src
  BY DEF Reading
<1> HIDE DEF from, m
<1>7. type \in DialogTypes \cup {"mkdir", "link"} /\ type # "link"
  BY DEF OnePath, DialogTypes
<1>8. m \in Request
  BY <1>1, <1>2, <1>5, <1>7 DEF Request
<1>9. Meant(m)
  <2>1. Len(PathText(src)) + 0 <= TextMax => from = src
    BY <1>4, <1>6, <1>3, LenProperties
  <2> QED BY <1>1, <2>1 DEF Meant
<1> QED BY <1>1, <1>7, <1>8, <1>9 DEF Legible, m

LEMMA TwoPathsLegible ==
  ASSUME NEW type \in (DialogTypes \cup {"link"}) \ OnePath, NEW src \in Seq(Part), NEW dst \in Seq(Part),
         NEW written, written = IF type = "chmod" THEN dst ELSE PathText(dst)
  PROVE  Message(type, src, dst, PathText(src), written) \in Legible
<1> DEFINE pair == Pair(PathText(src), written)
           text == Cut(pair)
           from == Reading(Field1(text), PathText(src), src)
           to   == Reading(Field2(text), written, dst)
           m    == Message(type, src, dst, PathText(src), written)
<1>1. m = [type |-> type, src |-> src, dst |-> dst, from |-> from, to |-> to]
  BY DEF Message
<1>2. /\ src \in Seq(STRING) /\ dst \in Seq(STRING) /\ "no path" \in STRING /\ "no path" \in Part
      /\ written \in Seq(STRING) /\ PathText(src) \in Seq(STRING)
  BY PartIsString, TextOfPath, LiteralsAssumption
<1>3. pair \in Seq(STRING) /\ Len(pair) = Len(PathText(src)) + 1 + Len(written)
  BY <1>2, PairText
<1>4. text \in Seq(STRING) /\ (Len(pair) <= TextMax => text = pair)
  BY <1>3, CutText
<1> HIDE DEF text
<1>5. Field1(text) \in Seq(Part) /\ Field2(text) \in Seq(Part)
  BY <1>4, BeyondType, UptoFirst DEF Field1, Field2
<1>6. from \in Seq(Part) /\ to \in Seq(Part)
  BY <1>2, <1>5, ReadingType
<1>7. ASSUME Plain(src), Plain(dst), text = pair
      PROVE  from = src /\ to = dst
  <2>1. PathText(src) \in Seq(Part) /\ written \in Seq(Part)
    BY <1>7, TextOfPath
  <2>2. Field1(text) = PathText(src) /\ Field2(text) = written
    BY <1>7, <2>1, FieldsOfPair
  <2> QED BY <2>2 DEF Reading
<1> HIDE DEF from, to, m, pair
<1>8. type \in DialogTypes \cup {"mkdir", "link"} /\ type \notin OnePath
  BY DEF DialogTypes
<1>9. m \in Request
  BY <1>1, <1>6, <1>8, PartIsString DEF Request
<1>10. Meant(m)
  <2> DEFINE d == IF type = "chmod" THEN 1 + Len(dst) ELSE 1 + Len(PathText(dst))
  <2>1. d = 1 + Len(written)
    OBVIOUS
  <2>2. Len(PathText(src)) \in Nat /\ Len(written) \in Nat
    BY <1>2, LenProperties
  <2> HIDE DEF d
  <2>3. Plain(src) /\ Plain(dst) /\ Len(PathText(src)) + d <= TextMax => from = src /\ to = dst
    <3>1. Len(PathText(src)) + d = Len(pair)
      <4>1. \A x, w \in Nat : x + (1 + w) = x + 1 + w
        OBVIOUS
      <4> QED BY <4>1, <1>3, <2>1, <2>2
    <3> QED BY <1>4, <1>7, <3>1
  <2> QED BY <1>1, <1>8, <2>3 DEF Meant, d
<1> QED BY <1>1, <1>6, <1>9, <1>10 DEF Legible, m

-----------------------------------------------------------------------------
(* TypeOK, part by part, with messages that are legible.                   *)
TreeTyped   == fs \in Trees /\ {links, favorites} \subseteq [Names -> Seq(Part)]
PlaceTyped  == {entry, listed} \subseteq Seq(Part)
RowsTyped   == {marked, chosen} \subseteq (Path \ {<< >>}) \cup {NoFile}
DialogTyped ==
  \/ dialog = NoDialog
  \/ /\ dialog \in [type : DialogTypes, about : Seq(Part)]
     /\ Last(dialog.about) \in Names /\ given < MaxCommands
TimersTyped == timers \in [{"update", "update_ui", "favorites"} -> Nat]
SwitchTyped == {typed, checking} \subseteq BOOLEAN
QueueTyped  ==
  requests \in Seq(Legible) /\ answers \in Seq({"success", "failed"}) /\ given \in 0..MaxCommands

Typed ==
  /\ TreeTyped /\ PlaceTyped /\ RowsTyped /\ DialogTyped /\ TimersTyped /\ SwitchTyped /\ QueueTyped
  /\ DialogKeepsTarget

LEMMA TypedIsTypeOK == Typed => TypeOK
<1>1. Legible \subseteq Request
  BY DEF Legible
<1>2. requests \in Seq(Legible) => requests \in Seq(Request)
  BY <1>1, SeqMonotonic
<1> QED BY <1>2 DEF Typed, TypeOK, TreeTyped, PlaceTyped, RowsTyped, DialogTyped, TimersTyped,
                    SwitchTyped, QueueTyped

LEMMA TypedIsReadAsMeant == Typed => ReadAsMeant
<1> SUFFICES ASSUME Typed, NEW i \in DOMAIN requests
             PROVE  Meant(requests[i])
  BY DEF ReadAsMeant, Meant
<1>1. requests[i] \in Legible
  BY LenProperties, ElementOfSeq DEF Typed, QueueTyped
<1> QED BY <1>1 DEF Legible

(* Places in the tree as texts.                                            *)
LEMMA PathParts ==
  /\ \A n \in Names : n \in Part
  /\ \A p \in Path : p \in Seq(Part)
  /\ \A n \in Names : <<n>> \in Seq(Part)
<1>1. Names \subseteq Part
  BY SpellAssumption
<1>2. \A p \in Path : p \in Seq(Part)
  BY <1>1, PathIsSequence, SeqMonotonic
<1>3. \A n \in Names : <<n>> \in Seq(Part)
  BY <1>1, OnePart
<1> QED BY <1>1, <1>2, <1>3

LEMMA TypedTextParts ==
  ASSUME NEW text \in TypedTexts
  PROVE  text \in Seq(Part)
<1>1. Blank \in Seq(Part)
  BY PartIsString, OnePart DEF Blank
<1>2. ASSUME text \in Seq(Names)
      PROVE  text \in Seq(Part)
  BY <1>2, SeqMonotonic, SpellAssumption
<1> QED BY <1>1, <1>2, PlacesAssumption DEF Text

LEMMA AppendPart ==
  ASSUME NEW S, NEW p \in Seq(S), NEW n \in S
  PROVE  Append(p, n) \in Seq(S) /\ Append(p, n) # << >> /\ Last(Append(p, n)) = n
<1>1. /\ Append(p, n) \in Seq(S) /\ Append(p, n) # << >> /\ Len(Append(p, n)) = Len(p) + 1
      /\ Append(p, n)[Len(p) + 1] = n
  BY AppendProperties
<1> QED BY <1>1 DEF Last

LEMMA FullType ==
  ASSUME NEW text \in Seq(Part), NEW n \in Names
  PROVE  Full(text, n) \in Seq(Part) /\ Last(Full(text, n)) = n
<1>1. Cwd \in Seq(Part) /\ n \in Part
  BY PathParts, PlacesAssumption
<1> QED BY <1>1, AppendPart DEF Full

LEMMA ParentParts ==
  ASSUME NEW p \in Seq(Part)
  PROVE  Parent(p) \in Seq(Part)
<1>1. Len(p) \in Nat /\ \A i \in 1..(Len(p) - 1) : p[i] \in Part
  BY LenProperties, ElementOfSeq
<1> QED BY <1>1, SubSeqProperties DEF Parent, Front

LEMMA LastName ==
  ASSUME NEW p \in Path \ {<< >>}
  PROVE  Last(p) \in Names
<1>1. Len(p) \in 1..Len(p)
  BY PathTypes
<1> QED BY <1>1, PathTypes DEF Last

LEMMA RowsAreNamed ==
  ASSUME NEW row \in Rows
  PROVE  row \in Path \ {<< >>}
<1>1. PICK n \in Names : listed \in Path /\ Len(listed) < Depth /\ row = Append(listed, n)
  BY DEF Rows, IsDir, Children
<1> QED BY <1>1, AppendPath

LEMMA TargetType ==
  ASSUME Typed, chosen # NoFile
  PROVE  Target \in Seq(Part) /\ Last(Target) \in Names /\ Last(chosen) \in Names
<1>1. entry \in Seq(Part) /\ chosen \in Path \ {<< >>}
  BY DEF Typed, PlaceTyped, RowsTyped
<1> QED BY <1>1, LastName, FullType DEF Target

(* The list that is set, and what becomes of the row shown as selected.    *)
LEMMA ShowTyped ==
  ASSUME Typed, NEW file \in Seq(Part), ShowDir(file)
  PROVE  listed' \in Seq(Part) /\ marked' \in (Path \ {<< >>}) \cup {NoFile}
BY DEF Typed, PlaceTyped, RowsTyped, ShowDir

LEMMA SendTyped ==
  ASSUME Typed, NEW type, NEW src, NEW dst, NEW text, Send(type, src, dst, text),
         Message(type, src, dst, PathText(src), text) \in Legible, given < MaxCommands
  PROVE  QueueTyped'
<1>1. requests' \in Seq(Legible)
  BY AppendProperties DEF Typed, QueueTyped, Send
<1> QED BY <1>1, PlacesAssumption DEF Typed, QueueTyped, Send

LEMMA TypedInit == Init => Typed
<1> SUFFICES ASSUME Init
             PROVE  Typed
  OBVIOUS
<1>1. NoLink \in Seq(Part) /\ << >> \in Seq(Part)
  BY PartIsString, OnePart, EmptySeq DEF NoLink
<1>2. TreeTyped
  <2>1. fs \in Trees
    BY TreesAssumption DEF Init
  <2>2. links \in [Names -> Seq(Part)]
    BY <1>1 DEF Init
  <2> QED BY <2>1, <2>2 DEF Init, TreeTyped
<1>3. entry \in Seq(Part)
  BY PathParts, PlacesAssumption DEF Init
<1>4. QueueTyped
  BY EmptySeq, PlacesAssumption DEF Init, QueueTyped
<1>5. PlaceTyped /\ RowsTyped
  BY <1>3 DEF Init, PlaceTyped, RowsTyped
<1>6. DialogTyped /\ DialogKeepsTarget
  BY DEF Init, DialogTyped, DialogKeepsTarget, Idle
<1>7. TimersTyped
  BY DEF Init, TimersTyped
<1>8. SwitchTyped
  BY DEF Init, SwitchTyped
<1> QED BY <1>2, <1>4, <1>5, <1>6, <1>7, <1>8 DEF Typed

-----------------------------------------------------------------------------
(* The user moves around: the entry and the list change.                   *)
LEMMA BrowseTyped ==
  ASSUME Typed, NEW text \in Seq(Part), NEW file \in Seq(Part),
         entry' = text \/ UNCHANGED entry, ShowDir(file) \/ UNCHANGED <<listed, marked>>,
         UNCHANGED <<tree, dialog, favorites, checking, queues>>, Idle,
         chosen' \in (Path \ {<< >>}) \cup {NoFile}, typed' \in BOOLEAN,
         timers' \in [{"update", "update_ui", "favorites"} -> Nat]
  PROVE  Typed'
<1>1. TreeTyped' /\ QueueTyped'
  BY DEF Typed, TreeTyped, QueueTyped, tree, queues
<1>2. PlaceTyped' /\ RowsTyped'
  BY ShowTyped DEF Typed, PlaceTyped, RowsTyped
<1>3. DialogTyped' /\ DialogKeepsTarget'
  BY DEF Idle, DialogTyped, DialogKeepsTarget
<1>4. TimersTyped' /\ SwitchTyped'
  BY DEF Typed, TimersTyped, SwitchTyped
<1> QED BY <1>1, <1>2, <1>3, <1>4 DEF Typed

LEMMA TypedBrowse ==
  ASSUME Typed, Browse
  PROVE  Typed'
<1>1. /\ entry \in Seq(Part) /\ listed \in Seq(Part) /\ chosen \in (Path \ {<< >>}) \cup {NoFile}
      /\ typed \in BOOLEAN /\ timers \in [{"update", "update_ui", "favorites"} -> Nat]
      /\ favorites \in [Names -> Seq(Part)]
  BY DEF Typed, PlaceTyped, RowsTyped, SwitchTyped, TimersTyped, TreeTyped
<1>2. Blank \in Seq(Part) /\ NoDir \in Seq(Part)
  BY PartIsString, OnePart DEF Blank, NoDir
<1>3. ASSUME NEW text \in TypedTexts, Type(text)
      PROVE  Typed'
  <2>1. text \in Seq(Part)
    BY TypedTextParts
  <2> QED BY <1>1, <1>3, <2>1, BrowseTyped DEF Type, refresh
<1>4. CASE update_directory
  BY <1>1, <1>4, BrowseTyped DEF update_directory, refresh
<1>5. CASE upper_directory
  BY <1>1, <1>5, ParentParts, BrowseTyped DEF upper_directory, refresh
<1>6. ASSUME NEW row \in Rows, on_columnview_activate(row)
      PROVE  Typed'
  <2>1. row \in Path \ {<< >>}
    BY RowsAreNamed
  <2>2. Last(row) \in Part
    BY <2>1, LastName, PathParts
  <2>3. Append(entry, Last(row)) \in Seq(Part)
    BY <1>1, <2>2, AppendPart
  <2> QED BY <1>1, <1>2, <1>6, <2>3, BrowseTyped DEF on_columnview_activate, refresh
<1>7. ASSUME NEW row \in Rows, on_selection_changed(row)
      PROVE  Typed'
  <2>1. row \in Path \ {<< >>}
    BY RowsAreNamed
  <2>2. RowsTyped' /\ PlaceTyped'
    BY <1>7, <2>1 DEF Typed, RowsTyped, PlaceTyped, on_selection_changed
  <2>3. TreeTyped' /\ QueueTyped'
    BY <1>7 DEF Typed, TreeTyped, QueueTyped, tree, refresh, queues, on_selection_changed
  <2>4. DialogTyped' /\ DialogKeepsTarget'
    BY <1>7 DEF Idle, DialogTyped, DialogKeepsTarget, on_selection_changed
  <2>5. TimersTyped' /\ SwitchTyped'
    BY <1>7 DEF Typed, TimersTyped, SwitchTyped, refresh, on_selection_changed
  <2> QED BY <2>2, <2>3, <2>4, <2>5 DEF Typed
<1>8. ASSUME NEW n \in Names, on_favorites_row_activated(n)
      PROVE  Typed'
  <2>1. Parent(favorites[n]) \in Seq(Part)
    BY <1>1, ParentParts
  <2>2. timers' \in [{"update", "update_ui", "favorites"} -> Nat]
    BY <1>1, <1>8 DEF on_favorites_row_activated
  <2> QED BY <1>1, <1>2, <1>8, <2>1, <2>2, BrowseTyped DEF on_favorites_row_activated
<1> QED BY <1>3, <1>4, <1>5, <1>6, <1>7, <1>8 DEF Browse

(* A command touches the dialog, the queue of requests and checking.       *)
LEMMA CommandTyped ==
  ASSUME Typed, DialogTyped', DialogKeepsTarget', QueueTyped', checking' \in BOOLEAN,
         UNCHANGED <<tree, view, refresh>>
  PROVE  Typed'
<1>1. TreeTyped' /\ PlaceTyped' /\ RowsTyped' /\ TimersTyped' /\ SwitchTyped'
  BY DEF Typed, TreeTyped, PlaceTyped, RowsTyped, TimersTyped, SwitchTyped, tree, view, refresh
<1> QED BY <1>1 DEF Typed

LEMMA ClosedTyped ==
  ASSUME dialog' = NoDialog
  PROVE  DialogTyped' /\ DialogKeepsTarget'
BY DEF DialogTyped, DialogKeepsTarget, Idle

LEMMA OpenTyped ==
  ASSUME Typed, NEW type \in DialogTypes, OpenDialog(type)
  PROVE  Typed'
<1>1. DialogTyped'
  BY TargetType DEF OpenDialog, FileMenu, DialogTyped, queues
<1>2. QueueTyped' /\ checking' \in BOOLEAN
  BY DEF OpenDialog, Typed, QueueTyped, SwitchTyped, queues
<1> QED BY <1>1, <1>2, DialogOpened, CommandTyped DEF OpenDialog

(* A message is sent, and no dialog is open when it was.                   *)
LEMMA SentTyped ==
  ASSUME Typed, NEW type, NEW src, NEW dst, NEW text, Send(type, src, dst, text),
         Message(type, src, dst, PathText(src), text) \in Legible, given < MaxCommands,
         dialog' = NoDialog, checking' \in BOOLEAN, UNCHANGED <<tree, view, refresh>>
  PROVE  Typed'
<1>1. QueueTyped'
  BY SendTyped
<1> QED BY <1>1, ClosedTyped, CommandTyped

LEMMA PairSent ==
  ASSUME Typed, NEW type \in (DialogTypes \cup {"link"}) \ (OnePath \cup {"chmod"}),
         NEW src \in Seq(Part), NEW dst \in Seq(Part), SendPair(type, src, dst), given < MaxCommands,
         dialog' = NoDialog, checking' \in BOOLEAN, UNCHANGED <<tree, view, refresh>>
  PROVE  Typed'
<1>1. Send(type, src, dst, PathText(dst))
  BY DEF SendPair
<1>2. PathText(dst) = IF type = "chmod" THEN dst ELSE PathText(dst)
  OBVIOUS
<1>3. Message(type, src, dst, PathText(src), PathText(dst)) \in Legible
  BY <1>2, TwoPathsLegible
<1> QED BY <1>1, <1>3, SentTyped

LEMMA PathSent ==
  ASSUME Typed, NEW type \in OnePath, NEW src \in Seq(Part), SendPath(type, src),
         given < MaxCommands, dialog' = NoDialog, checking' \in BOOLEAN, UNCHANGED <<tree, view, refresh>>
  PROVE  Typed'
<1>1. Send(type, src, NoPath, << >>)
  BY DEF SendPath
<1> QED BY <1>1, OnePathLegible, SentTyped

LEMMA TypedCommand ==
  ASSUME Typed, Command
  PROVE  Typed'
<1>1. /\ checking \in BOOLEAN /\ entry \in Seq(Part) /\ NewFolder \in Names
      /\ "link" \notin OnePath /\ "chmod" \notin OnePath /\ {"delete", "mkdir"} \subseteq OnePath
      /\ {"rename", "move", "copy"} \subseteq DialogTypes \ (OnePath \cup {"chmod"})
  BY PlacesAssumption DEF Typed, SwitchTyped, PlaceTyped, OnePath, DialogTypes
<1>2. dialog # NoDialog =>
        /\ given < MaxCommands /\ chosen # NoFile /\ Target \in Seq(Part) /\ Target = dialog.about
        /\ Last(chosen) \in Names
  BY TargetType DEF Typed, DialogTyped, DialogKeepsTarget, Idle
<1>3. CASE on_new_directory_action
  <2>1. Full(entry, NewFolder) \in Seq(Part)
    BY <1>1, FullType
  <2> QED BY <1>1, <1>3, <2>1, PathSent DEF on_new_directory_action, Idle, start_backend_check
<1>4. CASE on_add_to_favorites_action
  <2>1. Target \in Seq(Part) /\ <<Last(chosen)>> \in Seq(Part)
    BY <1>4, TargetType, PathParts DEF on_add_to_favorites_action, FileMenu
  <2> QED BY <1>1, <1>4, <2>1, PairSent
          DEF on_add_to_favorites_action, FileMenu, Idle, start_backend_check
<1>5. CASE on_rename_action \/ on_delete_action \/ on_move_action \/ on_copy_action \/ on_chmod_action
  BY <1>5, OpenTyped
     DEF on_rename_action, on_delete_action, on_move_action, on_copy_action, on_chmod_action, DialogTypes
<1>6. CASE Cancel \/ Rejected
  <2>1. QueueTyped' /\ checking' \in BOOLEAN /\ dialog' = NoDialog /\ UNCHANGED <<tree, view, refresh>>
    BY <1>1, <1>6 DEF Cancel, Rejected, Close, Typed, QueueTyped, queues, start_backend_check
  <2> QED BY <2>1, ClosedTyped, CommandTyped
<1>7. CASE on_delete_response
  <2>1. dialog # NoDialog
    BY <1>7 DEF on_delete_response, NoDialog
  <2> QED BY <1>1, <1>2, <1>7, <2>1, PathSent DEF on_delete_response, Close
<1>8. ASSUME NEW n \in TypedNames, on_dialog_response(n)
      PROVE  Typed'
  <2>1. dialog # NoDialog /\ dialog' = NoDialog /\ UNCHANGED <<tree, view, refresh>>
    BY <1>8 DEF on_dialog_response, NoDialog, Close
  <2>2. CASE entry = Blank
    <3>1. QueueTyped' /\ checking' \in BOOLEAN
      BY <1>1, <1>8, <2>2 DEF on_dialog_response, Typed, QueueTyped, queues
    <3> QED BY <2>1, <3>1, ClosedTyped, CommandTyped
  <2>3. CASE entry # Blank
    <3>1. Full(entry, n) \in Seq(Part)
      BY <1>1, FullType, PlacesAssumption
    <3> QED BY <1>1, <1>2, <1>8, <2>1, <2>3, <3>1, PairSent DEF on_dialog_response, start_backend_check
  <2> QED BY <2>2, <2>3
<1>9. ASSUME NEW dest \in TypedTexts \cup {entry}, on_move_dialog_response(dest)
      PROVE  Typed'
  <2>1. /\ dialog.type \in {"move", "copy"} /\ dialog # NoDialog /\ dialog' = NoDialog
        /\ UNCHANGED <<tree, view, refresh>>
    BY <1>9 DEF on_move_dialog_response, NoDialog, Close
  <2>2. dest \in Seq(Part)
    BY <1>1, TypedTextParts
  <2>3. Full(dest, Last(chosen)) \in Seq(Part)
    BY <1>2, <2>1, <2>2, FullType
  <2>4. dialog.type \in (DialogTypes \cup {"link"}) \ (OnePath \cup {"chmod"})
    BY <1>1, <2>1
  <2> QED BY <1>2, <1>9, <2>1, <2>3, <2>4, PairSent DEF on_move_dialog_response, start_backend_check
<1>10. ASSUME NEW mode \in Modes, on_chmod_dialog_response(mode)
       PROVE  Typed'
  <2>1. /\ dialog # NoDialog /\ dialog' = NoDialog /\ Send("chmod", dialog.about, mode, mode)
        /\ UNCHANGED <<tree, view, refresh>> /\ checking' \in BOOLEAN
    BY <1>10 DEF on_chmod_dialog_response, NoDialog, Close, start_backend_check
  <2>2. mode \in Seq(Part)
    <3>1. <<"755">> \in Seq(Part) /\ << >> \in Seq(Part)
      BY PartIsString, OnePart, EmptySeq
    <3> QED BY <3>1 DEF Modes
  <2>3. "chmod" \in (DialogTypes \cup {"link"}) \ OnePath
    BY <1>1 DEF DialogTypes
  <2>4. Message("chmod", dialog.about, mode, PathText(dialog.about), mode) \in Legible
    BY <1>2, <2>1, <2>2, <2>3, TwoPathsLegible
  <2> QED BY <1>2, <2>1, <2>4, SentTyped
<1> QED BY <1>3, <1>4, <1>5, <1>6, <1>7, <1>8, <1>9, <1>10 DEF Command

-----------------------------------------------------------------------------
(* What happens by itself.                                                 *)

LEMMA DialogStays ==
  ASSUME Typed, UNCHANGED <<entry, chosen, dialog, given>>
  PROVE  DialogTyped' /\ DialogKeepsTarget'
<1>1. UNCHANGED dialogVars
  BY DEF dialogVars
<1>2. DialogTyped'
  BY DEF Typed, DialogTyped
<1> QED BY <1>1, <1>2, DialogFrame DEF Typed

LEMMA TypedAutoselect ==
  ASSUME Typed, Autoselect
  PROVE  Typed'
<1>1. RowsTyped'
  BY RowsAreNamed DEF Typed, RowsTyped, Autoselect
<1>2. TreeTyped' /\ PlaceTyped' /\ TimersTyped' /\ SwitchTyped' /\ QueueTyped'
  BY DEF Autoselect, Typed, TreeTyped, PlaceTyped, TimersTyped, SwitchTyped, QueueTyped, tree, refresh, queues
<1> QED BY <1>1, <1>2, DialogStays DEF Autoselect, queues, Typed

(* The back end takes a request: the link that it makes is legible.        *)
LEMMA TypedServe ==
  ASSUME Typed, Serve
  PROVE  Typed'
<1> DEFINE m == Head(requests)
<1>1. requests # << >> /\ requests \in Seq(Legible) /\ answers \in Seq({"success", "failed"})
  BY DEF Serve, Typed, QueueTyped
<1>2. m \in Legible /\ Tail(requests) \in Seq(Legible)
  BY <1>1, HeadTailProperties
<1>3. fs' \in Trees
  BY DEF Serve, Effects
<1>4. PICK answer \in {"success", "failed", "none"} :
        /\ links' \in Links(m, answer)
        /\ answers' = IF answer = "none" THEN answers ELSE Append(answers, answer)
  BY DEF Serve
<1>5. /\ answers' \in {answers, Append(answers, "success"), Append(answers, "failed")}
      /\ requests' = Tail(requests) /\ UNCHANGED <<view, dialog, refresh, checking, given>>
  BY <1>4 DEF Serve
<1> HIDE DEF m
<1>6. links' \in [Names -> Seq(Part)]
  <2>1. links \in [Names -> Seq(Part)] /\ NoLink \in Seq(Part)
    BY PartIsString, OnePart DEF Typed, TreeTyped, NoLink
  <2>2. CASE m.type = "link" /\ m.to \in {<<n>> : n \in Names}
    <3>1. m.to[1] \in Names
      BY <2>2
    <3>2. m.from \in Seq(Part)
      BY <1>2, <2>2 DEF Legible
    <3>3. \A target \in Relinked(answer, m.from, links[m.to[1]]) : target \in Seq(Part)
      BY <2>1, <3>1, <3>2 DEF Relinked
    <3> QED BY <1>4, <2>1, <2>2, <3>1, <3>3 DEF Links
  <2>3. CASE ~(m.type = "link" /\ m.to \in {<<n>> : n \in Names})
    BY <1>4, <2>1, <2>3 DEF Links
  <2> QED BY <2>2, <2>3
<1>7. TreeTyped'
  BY <1>3, <1>5, <1>6 DEF Typed, TreeTyped, refresh
<1>8. QueueTyped'
  <2>1. Append(answers, "success") \in Seq({"success", "failed"}) /\ Append(answers, "failed") \in Seq({"success", "failed"})
    BY <1>1, AppendProperties
  <2> QED BY <1>1, <1>2, <1>5, <2>1 DEF Typed, QueueTyped
<1>9. PlaceTyped' /\ RowsTyped' /\ TimersTyped' /\ SwitchTyped'
  BY <1>5 DEF Typed, PlaceTyped, RowsTyped, TimersTyped, SwitchTyped, view, refresh
<1> QED BY <1>5, <1>7, <1>8, <1>9, DialogStays DEF Typed, view

LEMMA TypedRead ==
  ASSUME Typed, read_backend_message
  PROVE  Typed'
<1>1. QueueTyped'
  BY HeadTailProperties DEF read_backend_message, Typed, QueueTyped
<1>2. TimersTyped'
  <2>1. timers \in [{"update", "update_ui", "favorites"} -> Nat]
    BY DEF Typed, TimersTyped
  <2>2. timers' \in {timers, [timers EXCEPT !.update = @ + 1, !.favorites = @ + 1]}
    BY DEF read_backend_message
  <2> DEFINE u == timers["update"] + 1
             f == timers["favorites"] + 1
  <2>3. u \in Nat /\ f \in Nat
    BY <2>1
  <2>4. timers' = timers \/ timers' = [timers EXCEPT !["update"] = u, !["favorites"] = f]
    BY <2>2
  <2> HIDE DEF u, f
  <2>5. timers' \in [{"update", "update_ui", "favorites"} -> Nat]
    BY <2>1, <2>3, <2>4
  <2> QED BY <2>5 DEF TimersTyped
<1>3. TreeTyped' /\ PlaceTyped' /\ RowsTyped' /\ SwitchTyped'
  BY DEF read_backend_message, Typed, TreeTyped, PlaceTyped, RowsTyped, SwitchTyped, tree, view
<1> QED BY <1>1, <1>2, <1>3, DialogStays DEF read_backend_message, Typed, view

LEMMA TypedTimers ==
  ASSUME Typed, Timers
  PROVE  Typed'
<1>1. /\ UNCHANGED <<tree, entry, chosen, dialog, checking, queues>>
      /\ \/ ShowDir(NoDir) \/ ShowDir(entry) \/ UNCHANGED <<listed, marked>>
      /\ typed' \in BOOLEAN /\ favorites' \in {favorites, links}
  BY DEF Timers, update, update_ui, update_favorites_list, Typed, SwitchTyped, view
<1>2. NoDir \in Seq(Part) /\ entry \in Seq(Part)
  BY PartIsString, OnePart DEF NoDir, Typed, PlaceTyped
<1>3. PlaceTyped' /\ RowsTyped'
  BY <1>1, <1>2, ShowTyped DEF Typed, PlaceTyped, RowsTyped
<1>4. TreeTyped' /\ QueueTyped' /\ SwitchTyped'
  BY <1>1 DEF Typed, TreeTyped, QueueTyped, SwitchTyped, tree, queues
<1>5. TimersTyped'
  BY DEF Timers, update, update_ui, update_favorites_list, Fire, Typed, TimersTyped
<1> QED BY <1>1, <1>3, <1>4, <1>5, DialogStays DEF Typed, queues

LEMMA TypedNext == Typed /\ [Next]_vars => Typed'
<1> SUFFICES ASSUME Typed, [Next]_vars
             PROVE  Typed'
  OBVIOUS
<1>1. CASE UNCHANGED vars
  <2>1. DialogKeepsTarget' /\ DialogTyped'
    BY <1>1, DialogStays DEF vars, view, queues
  <2>2. TreeTyped' /\ PlaceTyped' /\ RowsTyped' /\ TimersTyped' /\ SwitchTyped' /\ QueueTyped'
    BY <1>1 DEF vars, tree, view, refresh, queues, Typed, TreeTyped, PlaceTyped, RowsTyped, TimersTyped, SwitchTyped, QueueTyped
  <2> QED BY <2>1, <2>2 DEF Typed
<1> QED BY <1>1, TypedBrowse, TypedCommand, TypedAutoselect, TypedServe, TypedRead, TypedTimers DEF Next

LEMMA TypedAlways == Spec => []Typed
BY TypedInit, TypedNext, PTL DEF Spec

(* Every variable keeps its type, for any tree, names and spellings: in    *)
(* particular no "$" gets into a path of the window by a link that leads   *)
(* to a place whose path was cut on its way through mtext.                 *)
THEOREM TypeCorrect == Spec => []TypeOK
BY TypedIsTypeOK, TypedAlways, PTL

(* The back end takes from every message that fits into mtext, with no "$" *)
(* in a name, the paths that the handler meant, whatever the length of     *)
(* mtext and of the names (send_message, and strtok in main of backend.c). *)
THEOREM MessagesAreRead == Spec => []ReadAsMeant
BY TypedIsReadAsMeant, TypedAlways, PTL
=============================================================================
