---------------------------- MODULE MCOutlineGrep ----------------------------
(* Searches in small outlines.                                             *)
EXTENDS OutlineGrep

\* Line 1 is above the first headline in some of them, nodes have one or two
\* lines, and levels are skipped.
MCOutlines == {<<<<1, 2, 3, 5>>, <<1, 1, 2, 1>>>>, <<<<1, 1, 3, 4>>, <<1, 1, 2, 3>>>>,
               <<<<1, 2, 4, 5>>, <<1, 1, 3, 2>>>>}

MCMatches == {<<>>, <<1>>, <<2>>, <<3>>, <<4>>, <<2, 5>>, <<3, 4, 4>>, <<1, 2, 4, 5>>}
=============================================================================
