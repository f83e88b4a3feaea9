------------------------------ MODULE FileTree ------------------------------
(***************************************************************************)
(* The file trees that the back end changes and that the window shows. A   *)
(* path is the sequence of its names, a tree says what is at each path.    *)
(***************************************************************************)
EXTENDS Naturals, Sequences, FiniteSets, SequencesExt

CONSTANTS
  Names,   (* names of directory entries *)
  Depth    (* bound: length of a path    *)

ASSUME DepthAssumption == Depth \in Nat \ {0}

Path == UNION {[1..n -> Names] : n \in 0..Depth}

Nothing == [kind |-> "nothing"]
Dir     == [kind |-> "dir"]
File(d) == [kind |-> "file", data |-> d]

Parent(p)      == Front(p)
Children(t, p) == {n \in Names : Len(p) < Depth /\ t[Append(p, n)] # Nothing}
Under(p)       == {q \in Path : IsPrefix(p, q)}
Fresh(t, p)    == p # << >> /\ t[p] = Nothing /\ t[Parent(p)] = Dir

IsTree(t) ==
  /\ t[<< >>] = Dir
  /\ \A p \in Path : p # << >> /\ t[p] # Nothing => t[Parent(p)] = Dir

(* The path that q, at or below src, has once src is called dst.           *)
Rebased(q, src, dst) == dst \o SubSeq(q, Len(src) + 1, Len(q))

Fits(t, src, dst) ==
  \A q \in Under(src) : t[q] # Nothing => Len(Rebased(q, src, dst)) <= Depth

(* rename(2) succeeds: EINVAL, ENOTDIR, EISDIR and ENOTEMPTY do not apply. *)
Renames(t, src, dst) ==
  /\ t[src] # Nothing /\ t[Parent(dst)] = Dir
  /\ ~IsStrictPrefix(src, dst) /\ ~IsStrictPrefix(dst, src)
  /\ \/ t[dst] = Nothing
     \/ t[src] = Dir /\ t[dst] = Dir /\ Children(t, dst) = {}
     \/ t[src] # Dir /\ t[dst] # Dir
     \/ src = dst

Renamed(t, src, dst) ==
  IF src = dst THEN t
  ELSE [p \in Path |->
          IF IsPrefix(dst, p) THEN
            LET q == src \o SubSeq(p, Len(dst) + 1, Len(p))
            IN  IF q \in Path THEN t[q] ELSE Nothing
          ELSE IF IsPrefix(src, p) THEN Nothing ELSE t[p]]
=============================================================================
