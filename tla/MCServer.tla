----------------------------- MODULE MCServer ------------------------------
(***************************************************************************)
(* Server with up to three editors, the users and the files of the runs.   *)
(***************************************************************************)
EXTENDS Server
CONSTANTS e1, e2, e3

Text(ls, e) == [there |-> TRUE, lines |-> ls, ends |-> e]
U(i)        == Account(<<"u1", "u2", "u3">>[i], "p")

Distinct == [e \in Editors |-> CASE e = e1 -> U(1) [] e = e2 -> U(2) [] OTHER -> U(3)]
TwoKnown == {Text(<<U(1), U(2)>>, FALSE)}
ThreeKnown == {Text(<<U(1), U(2), U(3)>>, FALSE)}
SomeKnown == ThreeKnown \cup {Text(<<U(1)>>, TRUE)}

FileA  == Text(<<Entry(1, "a")>>, FALSE)
FileAB == Text(<<Entry(1, "a"), Entry(2, "b")>>, FALSE)
ListA  == {FileA}
ListAB == {FileAB}
MixedLists == {FileAB, [FileA EXCEPT !.ends = TRUE]}
ListShipped == {[FileA EXCEPT !.ends = TRUE]}
=============================================================================
