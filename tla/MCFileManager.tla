--------------------------- MODULE MCFileManager ---------------------------
(* Small instances of FileManager. *)
EXTENDS FileManager, TLC

CONSTANTS b1, b2

OneBackend  == {b1}
TwoBackends == {b1, b2}

(* RENAME answers only success, COPY also failure. *)
Ordinary == {RENAME, COPY}
CopyOnly == {COPY}
WithDelete == {DELETE, COPY}

(* Back ends differ in nothing but their name. *)
Symmetry == Permutations(Backend)
=============================================================================
