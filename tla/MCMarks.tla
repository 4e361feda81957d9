------------------------------- MODULE MCMarks -------------------------------
(***************************************************************************)
(* An instance of Marks with a record of what was saved: the folds that    *)
(* were closed when the folding of their nodes was last saved, or had no o *)
(* at first.                                                               *)
(***************************************************************************)
EXTENDS Marks

CONSTANT MaxSteps

VARIABLES saved, steps

\* Regular outlines, the line of the buffer's name first.
MCOutlines == {<<1, 1, 2, 1>>, <<1, 1, 2, 3>>, <<1, 1, 2, 3, 2>>}

\* Marks in their order, marks behind the = and marks behind another
\* character, which both are ignored.
MCChars == {"x", "o", "=", "~"}
MCTails == {<<>>, <<"x", "=">>, <<"o", "=">>, <<"=", "x", "o">>, <<"~", "x", "o", "=">>}

MCInit ==
  /\ Init
  /\ saved = {ln \in Parents : ~HasO(tails[ln])}
  /\ steps = 0

MCNext ==
  /\ steps < MaxSteps
  /\ steps' = steps + 1
  /\ \/ NotSaving /\ saved' = saved
     \/ \E r \in Ranges :
          LET at == r[1]..FoldingEnd(r[1], r[2])
          IN  FoldingSave(r[1], r[2]) /\ saved' = (saved \ at) \cup (closed \cap at)

MCSpec == MCInit /\ [][MCNext]_<<vars, saved, steps>>

-----------------------------------------------------------------------------
(* Properties.                                                             *)

\* The o marks tell the saved folds, whatever other marks are set.
MarksTellSaved == saved = {ln \in Parents : ~HasO(tails[ln])}

\* Saving looks into closed folds by opening them, and leaves all folds as
\* they were.
SaveKeepsFolds ==
  [][\A r \in Ranges : closed' = closed \/ ~FoldingSave(r[1], r[2])]_vars

\* The folds in which a line is hidden if they are closed.
Hiding(ln) == {f \in Parents : f < ln /\ Covers(f, ln)}

\* Restoring the folding of a range gives the folds that were saved there, and
\* starting Voom again those of the whole outline, except that the selected node
\* comes out of the folds that hide it.
SavedFoldsReturn ==
  [][/\ \A r \in Ranges :
          \/ \A ln \in Parents \cap r[1]..FoldingEnd(r[1], r[2]) : ln \in closed' <=> ln \in saved
          \/ ~FoldingRestore(r[1], r[2])
     /\ closed' = saved \ Hiding(snLn') \/ \A ln \in 1..Len(levels) : ~TreeCreate(ln)]_<<vars, saved>>
=============================================================================
