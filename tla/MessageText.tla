---------------------------- MODULE MessageText ----------------------------
(***************************************************************************)
(* The text of a command between the two processes of the GTK file         *)
(* manager: written by the front end's handlers, cut by send_message and   *)
(* send_favorite_message, taken apart by the back end. A text is a         *)
(* sequence of parts of names; the slashes between names are left out, as  *)
(* is the /tmp/link of every link.                                         *)
(***************************************************************************)
EXTENDS FileTree

CONSTANTS
  Spell,   (* the parts of each name: one, or several around a "$" in it    *)
  TextMax  (* parts that fit into mtext                                     *)

(* What a text consists of, other than the "$" between its fields. A path  *)
(* that was cut ends in parts of names.                                    *)
Part == STRING \ {"$"}

ASSUME TextMaxAssumption == TextMax \in Nat \ {0}
ASSUME SpellAssumption == Names \subseteq Part /\ Spell \in [Names -> Seq(STRING)]

(* Literals are strings, which the provers do not know.                    *)
ASSUME LiteralsAssumption ==
  {"/", "$", "", "755", "no path", "no link", "no directory"} \subseteq STRING

(* "/" stands for the directory that all paths start from.                *)
Spelled(n)   == IF n \in Names THEN Spell[n] ELSE <<n>>
PathText(p)  == <<"/">> \o FlattenSeq([i \in DOMAIN p |-> Spelled(p[i])])
Pair(s, d)   == s \o <<"$">> \o d

(* Slip of Cut: one more part is given up for the final zero.              *)
CutShort(text) ==
  IF Len(text) < TextMax THEN text ELSE SubSeq(text, 1, TextMax - 1)

(* strncpy into mtext, of which the last byte is overwritten with a zero.  *)
Cut(text) == IF Len(text) <= TextMax THEN text ELSE SubSeq(text, 1, TextMax)

(* strtok(text, "$") and strtok(NULL, "$"): the parts up to the first "$", *)
(* and those between the "$"s that follow and the next one.                *)
Upto(text) ==
  LET i == SelectInSeq(text, LAMBDA w : w = "$")
  IN  IF i = 0 THEN text ELSE SubSeq(text, 1, i - 1)

Beyond(text) ==
  LET rest == SubSeq(text, Len(Upto(text)) + 1, Len(text))
      i    == SelectInSeq(rest, LAMBDA w : w # "$")
  IN  IF i = 0 THEN << >> ELSE SubSeq(rest, i, Len(rest))

Field1(text) == Upto(text)
Field2(text) == Upto(Beyond(text))

(* The path that the back end makes of a text: the one it was written for, *)
(* or one of the parts that are left, or none.                             *)
NoPath == <<"no path">>
Reading(text, written, meant) ==
  IF text = written THEN meant
  ELSE IF text # << >> /\ Head(text) = "/" THEN Tail(text) ELSE NoPath
=============================================================================
