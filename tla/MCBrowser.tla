------------------------------ MODULE MCBrowser ------------------------------
(* Small instances of Browser: the window opens in the root, which may hold *)
(* a file and a directory; one name has a "$" in it.                        *)
EXTENDS Browser

MCNames == {"f", "x$y", "new", "new0"}
MCSpell == [n \in MCNames |-> IF n = "x$y" THEN <<"f", "$", "y">> ELSE <<n>>]

MCNumbered == <<"new0">>

None    == << >>
MCTexts == {Blank, << >>}
TreeOf(dirs, files) ==
  [p \in Path |-> IF p \in dirs THEN Dir ELSE IF p \in files THEN AFile ELSE Nothing]

SmallTrees ==
  {TreeOf({<< >>} \cup D, F) : D \in SUBSET {<<"new0">>}, F \in SUBSET {<<"f">>}}
=============================================================================
