--------------------------- MODULE CommandEffects ---------------------------
(***************************************************************************)
(* What a command of the file manager may make of a tree, whatever becomes *)
(* of it and whether it is answered: what the window (Browser) relies on   *)
(* and what the back end's system calls (BackendFs) keep to.               *)
(***************************************************************************)
EXTENDS FileTree

CONSTANT Numbered   (* names for new directories, in the order they are tried *)

ASSUME NumberedAssumption == Numbered \in Seq(Names) /\ Numbered # << >>

NewNames(dir) == {Append(dir, n) : n \in Range(Numbered)}

(* The paths that a command of this type may change. The source of "mkdir" *)
(* is the directory shown.                                                 *)
Named(type, src, dst) ==
  CASE type = "delete"             -> Under(src)
    [] type = "mkdir"              -> NewNames(src)
    [] type \in {"rename", "move"} -> Under(src) \cup Under(dst)
    [] type = "copy"               -> Under(dst)
    [] OTHER                       -> {}

(* What may become of what is at a path: where something is taken away     *)
(* nothing appears; where something is put directories stay, and no file   *)
(* becomes one.                                                            *)
Taken(was, is) == is \in {was, Nothing}
Put(was, is)   == (was = Dir => is = Dir) /\ (was.kind = "file" => is # Dir)

(* t may become u, leaving aside the paths that other processes changed. A *)
(* rename is one system call.                                              *)
Effect(type, src, dst, t, u, others) ==
  /\ \A p \in Path \ others :
       /\ p \notin Named(type, src, dst) => u[p] = t[p]
       /\ type = "mkdir"  => u[p] = t[p] \/ (t[p] = Nothing /\ u[p] = Dir)
       /\ type = "delete" => Taken(t[p], u[p])
       /\ type = "copy"   => Put(t[p], u[p])
       /\ type = "move"   => IF IsPrefix(src, p) THEN Taken(t[p], u[p]) \/ IsPrefix(dst, p)
                             ELSE Put(t[p], u[p])
  /\ type = "rename" => \/ u = t
                        \/ /\ {src, dst} \subseteq Path \ {<< >>}
                           /\ Renames(t, src, dst) /\ u = Renamed(t, src, dst)

NoLink == <<"no link">>   (* where a favorite that is not there leads to *)

(* Where a favorite that led to "was" may lead after the command "link"    *)
(* for src: one that fails may have removed the old link.                  *)
Relinked(answer, src, was) ==
  CASE answer = "success" -> {src}
    [] answer = "failed"  -> {was, NoLink}
    [] answer = "none"    -> {was}
=============================================================================
