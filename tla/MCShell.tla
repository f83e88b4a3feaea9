------------------------------- MODULE MCShell -------------------------------
(* Small instances of Shell: a file, a directory or links in the base      *)
(* directory, or no base directory yet. One name serves at the top, where  *)
(* it begins like that of the base directory, and below.                   *)
EXTENDS Shell

MCBase == <<"test">>
Rel(w) == [absolute |-> FALSE, words |-> w]
MCOperands ==
  {Rel(<<"test2">>), Rel(<<"b">>), Rel(<<"b", "test2">>), Rel(<<"test2", "..", "b">>),
   Rel(<<".">>), Rel(<<"test2", ".">>), Rel(<<"..", "b">>),
   [absolute |-> TRUE, words |-> <<"test2">>]}

MCFormats ==
  {[octal |-> TRUE, mode |-> {}],
   [octal |-> FALSE, who |-> {}, op |-> "+", perm |-> {"x"}],
   [octal |-> FALSE, who |-> {"u"}, op |-> "-", perm |-> {"r"}]}

TreeWith(x, y) ==
  [p \in Path |->
     CASE p \in {<< >>, <<"test">>} -> Dir
       [] p = <<"test", "test2">> -> x
       [] p = <<"test", "b">> -> y
       [] OTHER -> Nothing]

Bare == [p \in Path |-> IF p = << >> THEN Dir ELSE Nothing]

ToTest2 == Link(<<"test", "test2">>)
ToB     == Link(<<"test", "b">>)

(* A link to a directory beside the base directory, and a file outside.    *)
Beside  ==
  [TreeWith(File(1), Link(<<"test2">>)) EXCEPT ![<<"test2">>] = Dir, ![<<"b">>] = File(3)]

(* For the way out: the base directory alone, and a name like it.          *)
Alone       == {TreeWith(Nothing, Nothing)}
OutOperands == {Rel(<<"..", "test2">>)}

SmallTrees ==
  {Bare, Beside, TreeWith(File(1), File(2)), TreeWith(File(1), ToTest2),
   TreeWith(Dir, ToTest2), TreeWith(ToB, ToTest2)}
=============================================================================
