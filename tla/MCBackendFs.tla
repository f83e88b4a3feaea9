---------------------------- MODULE MCBackendFs ----------------------------
(* Small instances of BackendFs: two names, of which one is mounted at the *)
(* top, paths of three names and every tree of a few entries.              *)
EXTENDS BackendFs, FiniteSetsExt

CONSTANT MaxEntries   (* bound: entries of a tree *)

MCNumbered == <<"a", "b">>

Inner == {<<"a">>} \cup {<<x, y>> : x, y \in Names}
Leaf  == {<<x, y, z>> : x, y, z \in Names}
Entry == Inner \cup Leaf

Closed(S) == \A p \in S : Len(p) > 1 /\ Front(p) # <<"b">> => Front(p) \in S
HasChild(S, p) == \E q \in S : IsStrictPrefix(p, q)

TreeOf(S, E) ==
  [p \in Path |->
     IF p \in {<< >>, <<"b">>} \cup E \cup {q \in S : HasChild(S, q)} THEN Dir
     ELSE IF p \in S THEN File(p) ELSE Nothing]

(* Entries without contents are files or empty directories.                *)
SmallTrees ==
  UNION {{TreeOf(S, E) : E \in SUBSET {p \in S : ~HasChild(S, p)}} :
           S \in {T \in UNION {kSubset(k, Entry) : k \in 0..MaxEntries} : Closed(T)}}
=============================================================================
