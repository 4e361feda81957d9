-------------------------------- MODULE Marks --------------------------------
(***************************************************************************)
(* The special marks of a VOoM outline whose headlines have numbered fold  *)
(* markers (the default and the fmr modes).  In the Body, the characters   *)
(* after the level number of a headline tell that its node is marked (x),  *)
(* that its fold in the Tree is open (o) and that it is the startup node   *)
(* (=), in this order; the second column of the Tree repeats the x.  The   *)
(* commands edit the headlines in place and patch the Tree; none of them   *)
(* adds or moves a line, so the outline is given by its levels.            *)
(*                                                                         *)
(* Folds belong to Vim.  TreeFoldexpr gives one to each node with children *)
(* if no level of the outline is skipped.  A fold is open or closed by     *)
(* itself, even while it is hidden in a closed one.                        *)
(***************************************************************************)
EXTENDS Outline

CONSTANTS
  Outlines,     \* sequences of levels, that of the first Tree line included
  Chars,        \* characters
  Tails         \* what may follow the level number of a headline

ASSUME OutlinesAssumption == \A o \in Outlines : o \in Seq(Positive) /\ o # <<>>

VARIABLES
  levels,       \* VO.levels
  tails,        \* what follows the level number in the headline of Tree line i
  marked,       \* the x in the second column of Tree line i
  closed,       \* the Tree lines whose folds are closed
  snLn          \* VO.snLn

vars == <<levels, tails, marked, closed, snLn>>

Nodes == 2..Len(levels)
Parents == {ln \in Nodes : nodeHasChildren(levels, ln)}

-----------------------------------------------------------------------------
(* Marks in a headline.                                                    *)

\* s without the characters C at its beginning.
Lstrip(s, C) ==
  LET rest == {k \in 1..Len(s) : s[k] \notin C}
  IN  IF rest = {} THEN <<>> ELSE SubSeq(s, Min(rest), Len(s))

HasX(tail) == tail # <<>> /\ tail[1] = "x"

\* What follows the match of marker_re, which includes one x.
Rest(tail) == IF HasX(tail) THEN SubSeq(tail, 2, Len(tail)) ELSE tail
WithRest(tail, rest) == (IF HasX(tail) THEN <<"x">> ELSE <<>>) \o rest

HasO(tail) == Rest(tail) # <<>> /\ Rest(tail)[1] = "o"

IsStartup(tail) ==
  LET rest == Rest(tail)
  IN  \/ rest # <<>> /\ rest[1] = "="
      \/ Len(rest) > 1 /\ rest[1] = "o" /\ rest[2] = "="

\* Marks are not doubled and o comes after x, as the commands write them.
MarksInOrder(tail) ==
  LET rest == Rest(tail)
  IN  /\ rest # <<>> => rest[1] # "x"
      /\ Len(rest) > 1 /\ rest[1] = "o" => rest[2] \notin {"x", "o"}

ASSUME TailsAssumption ==
  /\ {"x", "o", "="} \subseteq Chars
  /\ \A tail \in Tails : tail \in Seq(Chars) /\ MarksInOrder(tail)

voom_TreeToStartupNode == {ln \in Nodes : IsStartup(tails[ln])}

-----------------------------------------------------------------------------
(* Folds of Vim, with c the closed ones.                                   *)

Covers(f, ln) == f <= ln /\ ln <= BranchEnd(levels, f)

\* The outermost closed fold at a line, 0 if there is none.
foldclosed(c, ln) ==
  LET at == {f \in c : Covers(f, ln)} IN IF at = {} THEN 0 ELSE Min(at)

Hidden(c, ln) == foldclosed(c, ln) \notin {0, ln}

\* zo opens the outermost closed fold at the line.
zo(c, ln) == c \ {foldclosed(c, ln)}

\* zc closes the innermost open fold that is not in a closed one.
zc(c, ln) ==
  LET open == {f \in Parents : Covers(f, ln) /\ \A g \in c : Covers(g, ln) => f < g}
  IN  IF open = {} THEN c ELSE c \cup {Max(open)}

\* :ln1,ln2foldopen! opens the folds at these lines and, in each closed one,
\* all that are nested.
foldopen(c, ln1, ln2) ==
  LET at == {f \in c : \E ln \in ln1..ln2 : Covers(f, ln)}
  IN  {f \in c \ at : \A g \in at : ~Covers(g, f)}

-----------------------------------------------------------------------------
(* Reading and making folds.  cFolds lists closed folds, the last one      *)
(* first.                                                                  *)

CloseForwards(c, cFolds) == FoldLeft(zc, c, Reverse(cFolds))  \* mutant: line 1620 is missing
Close(c, cFolds) == FoldLeft(zc, c, cFolds)

\* A fold is opened if it is closed and not hidden.
look(acc, ln) ==
  IF foldclosed(acc.c, ln) # ln THEN acc
  ELSE [c |-> zo(acc.c, ln), cFolds |-> <<ln>> \o acc.cFolds]

\* The closed folds at the lines ln1..ln2 and under them: each is opened to
\* see the ones in it, and all are closed again.
foldingGet(c, ln1, ln2) ==
  LET outer == foldclosed(c, ln2)
      last == IF outer = 0 THEN ln2 ELSE BranchEnd(levels, outer)
      lines == [i \in 1..last - ln1 + 1 |-> ln1 + i - 1]
      found == FoldLeft(look, [c |-> c, cFolds |-> <<>>], lines)
  IN  [cFolds |-> found.cFolds, c |-> Close(found.c, found.cFolds)]

foldingClose(c, ln1, ln2, cFolds) == Close(c, cFolds)  \* mutant: no :foldopen!

foldingCreate(c, ln1, ln2, cFolds) == Close(foldopen(c, ln1, ln2), cFolds)

\* The nodes with children that are not among the given ones.
foldingFlip(ln1, ln2, folds) ==
  LET others(ln) == ln \in Parents /\ ln \notin folds IN Reverse(Lines(ln1, ln2, others))

foldingRead(ln1, ln2) ==
  LET unopened(ln) == ln \in Parents /\ ~HasO(tails[ln]) IN Reverse(Lines(ln1, ln2, unopened))

OpenMarkStripped(tail, isClosed) ==  \* mutant: = goes with the o
  CASE HasO(tail) /\ isClosed   -> WithRest(tail, Lstrip(Rest(tail), {"o", "x", "="}))
    [] ~HasO(tail) /\ ~isClosed -> WithRest(tail, <<"o">> \o Rest(tail))
    [] OTHER -> tail

\* The headline with an o if its fold is open.
OpenMark(tail, isClosed) ==
  CASE HasO(tail) /\ isClosed   -> WithRest(tail, Lstrip(Rest(tail), {"o", "x"}))
    [] ~HasO(tail) /\ ~isClosed -> WithRest(tail, <<"o">> \o Rest(tail))
    [] OTHER -> tail

foldingWrite(ln1, ln2, cFolds) ==
  [ln \in 1..Len(levels) |->
     IF ln \in ln1..ln2 /\ ln \in Parents
     THEN OpenMark(tails[ln], \E i \in 1..Len(cFolds) : cFolds[i] = ln)
     ELSE tails[ln]]

foldingCleanup ==
  [ln \in 1..Len(levels) |->
     IF ln \in Nodes \ Parents THEN OpenMark(tails[ln], TRUE) ELSE tails[ln]]

-----------------------------------------------------------------------------
(* Commands.  A range begins at a visible line.                            *)

\* x is put into the headlines of the nodes that have none in the Tree.
voom_OopMark(ln1, ln2) ==
  /\ ~Hidden(closed, ln1)
  /\ tails' = [ln \in 1..Len(levels) |->
                 IF ln \in ln1..ln2 /\ ~marked[ln] THEN <<"x">> \o tails[ln] ELSE tails[ln]]
  /\ marked' = [ln \in 1..Len(levels) |-> ln \in ln1..ln2 \/ marked[ln]]
  /\ UNCHANGED <<levels, closed, snLn>>

\* All x that follow each other are removed.
voom_OopUnmark(ln1, ln2) ==
  /\ ~Hidden(closed, ln1)
  /\ tails' = [ln \in 1..Len(levels) |->
                 IF ln \in ln1..ln2 /\ marked[ln] THEN Lstrip(tails[ln], {"x"}) ELSE tails[ln]]
  /\ marked' = [ln \in 1..Len(levels) |-> ln \notin ln1..ln2 /\ marked[ln]]
  /\ UNCHANGED <<levels, closed, snLn>>

UnstartedKeepX(tail) ==  \* mutant: x and o are not removed with the =
  LET rest == Rest(tail)
  IN  IF ~IsStartup(tail) THEN tail
      ELSE WithRest(tail, IF rest[1] = "o" THEN <<"o">> \o SubSeq(rest, 3, Len(rest))
                          ELSE SubSeq(rest, 2, Len(rest)))
UnstartedNoO(tail) ==  \* mutant: the o goes with the =
  IF IsStartup(tail) THEN WithRest(tail, Lstrip(Rest(tail), {"=", "x", "o"})) ELSE tail

\* x and o behind the = are removed with it.
Unstarted(tail) ==
  LET rest == Rest(tail)
      after == Lstrip(SubSeq(rest, 2, Len(rest)), {"=", "x", "o"})
  IN  IF ~IsStartup(tail) THEN tail
      ELSE WithRest(tail, IF rest[1] = "o" THEN <<"o">> \o after ELSE after)

Started(tail) ==
  LET rest == Rest(tail)
      k == IF HasO(tail) THEN 1 ELSE 0
  IN  IF IsStartup(tail) THEN tail ELSE WithRest(tail, PutAfter(rest, k, <<"=">>))

\* In line 1 no node becomes the startup node.
voom_OopMarkStartup(ln) ==
  /\ ~Hidden(closed, ln)
  /\ tails' = [i \in 1..Len(levels) |->
                 IF i = 1 THEN tails[i] ELSE IF i = ln THEN Started(tails[i]) ELSE Unstarted(tails[i])]
  /\ UNCHANGED <<levels, marked, closed, snLn>>

\* The last line of the range a folding command is for.
FoldingEnd(ln1, ln2) == IF ln1 = ln2 THEN BranchEnd(levels, ln2) ELSE ln2

FoldingSave(ln1, ln2) ==
  LET end == FoldingEnd(ln1, ln2)
      got == foldingGet(closed, ln1, end)
  IN  /\ ~Hidden(closed, ln1)
      /\ ln1 # end
      /\ tails' = foldingWrite(ln1, end, got.cFolds)
      /\ closed' = got.c
      /\ UNCHANGED <<levels, marked, snLn>>

FoldingRestore(ln1, ln2) ==
  LET end == FoldingEnd(ln1, ln2)
  IN  /\ ~Hidden(closed, ln1)
      /\ ln1 # end
      /\ closed' = foldingCreate(closed, ln1, end, foldingRead(ln1, end))
      /\ UNCHANGED <<levels, tails, marked, snLn>>

FoldingCleanup ==
  /\ tails' = foldingCleanup
  /\ UNCHANGED <<levels, marked, closed, snLn>>

\* A line that is hidden becomes visible: the closed folds it lies in are opened
\* from the outside, all but one that begins with it.
TreeZV(c, ln) == {f \in c : f = ln \/ ~Covers(f, ln)}

\* The user opens or closes the fold of a line, or has it shown.
TreeToggleFold(ln) ==
  /\ closed' = IF Hidden(closed, ln) THEN TreeZV(closed, ln)
               ELSE IF ln \in closed THEN zo(closed, ln)
               ELSE IF ln \in Parents THEN zc(closed, ln) ELSE closed
  /\ UNCHANGED <<levels, tails, marked, snLn>>

\* The Tree is drawn with all folds closed; some are opened if there is an o.
CreatedFolds ==
  LET oFolds == {i \in Nodes : HasO(tails[i])}
  IN  IF oFolds = {} THEN Parents
      ELSE foldingCreate(Parents, 2, Len(levels), foldingFlip(2, Len(levels), oFolds))

\* The startup node, the last one if there are several, or the node ln of the
\* cursor in the Body.
CreatedSnLn(ln) == IF voom_TreeToStartupNode = {} THEN ln ELSE Max(voom_TreeToStartupNode)

\* Voom is ended and started again with the cursor in node ln of the Body: the
\* Tree is drawn and folded, and the selected line is shown.
TreeCreate(ln) ==
  /\ marked' = [i \in 1..Len(levels) |-> i \in Nodes /\ HasX(tails[i])]
  /\ snLn' = CreatedSnLn(ln)
  /\ closed' = TreeZV(CreatedFolds, CreatedSnLn(ln))
  /\ UNCHANGED <<levels, tails>>

-----------------------------------------------------------------------------
\* An outline in use: the user has opened and closed folds.
Init ==
  /\ levels \in Outlines
  /\ tails \in {t \in [1..Len(levels) -> Tails \cup {<<>>}] : t[1] = <<>>}
  /\ marked = [ln \in 1..Len(levels) |-> HasX(tails[ln])]
  /\ closed \in SUBSET Parents
  /\ snLn = CreatedSnLn(1)

Ranges == {r \in (1..Len(levels)) \X (1..Len(levels)) : r[1] <= r[2] /\ r[2] # 1}

Saving == \E r \in Ranges : FoldingSave(r[1], r[2])

NotSaving ==
  \/ \E r \in Ranges :
       \/ r[1] # 1 /\ (voom_OopMark(r[1], r[2]) \/ voom_OopUnmark(r[1], r[2]))
       \/ FoldingRestore(r[1], r[2])
  \/ FoldingCleanup
  \/ \E ln \in 1..Len(levels) :
       \/ voom_OopMarkStartup(ln)
       \/ TreeToggleFold(ln)
       \/ TreeCreate(ln)

Next == Saving \/ NotSaving

Spec == Init /\ [][Next]_vars

-----------------------------------------------------------------------------
(* Properties.                                                             *)

\* The Tree shows an x for just the headlines that a new parse would find
\* marked, so none of the edits after the x makes or hides one.
XsAgree == \A ln \in 1..Len(levels) : marked[ln] <=> HasX(tails[ln])

\* Only folds that exist are closed, and the selected line exists.
MarksTypeOK ==
  /\ Len(tails) = Len(levels) /\ Len(marked) = Len(levels)
  /\ XsAgree
  /\ closed \subseteq Parents
  /\ snLn \in 1..Len(levels)

\* Marking the startup node leaves that one, or none for line 1, wherever =
\* was before, and no other command makes or loses a startup node.
OneStartupNode ==
  [][LET before == voom_TreeToStartupNode
         after == voom_TreeToStartupNode'
     IN  /\ \A ln \in 1..Len(levels) : after = {ln} \ {1} \/ ~voom_OopMarkStartup(ln)
         /\ after = before \/ \E ln \in 1..Len(levels) : voom_OopMarkStartup(ln)]_vars
=============================================================================
