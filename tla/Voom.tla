--------------------------------- MODULE Voom ---------------------------------
(***************************************************************************)
(* A VOoM outline at work (voom_vim.py with the handlers of voom.vim that  *)
(* call it).                                                               *)
(*                                                                         *)
(* The text is edited in the Body buffer; the Tree buffer shows one line   *)
(* per headline.  levels and bnodes are cached from the last parse of the  *)
(* Body.  The operations do not parse it again: each one edits the Body,   *)
(* bnodes, levels and the Tree side by side, and the user may afterwards   *)
(* have the result verified (voom_OopVerify).  Edits of the Body, and a    *)
(* new headline, leave the outline stale until the Tree is entered, which  *)
(* parses and redraws (updateTree).                                        *)
(*                                                                         *)
(* The selected node has an = in the Tree and is kept twice: VO.snLn of    *)
(* Python and s:voom_bodies[body].snLn of the script.                      *)
(***************************************************************************)
EXTENDS OutlineSort

CONSTANTS
  Bodies,         \* pairs of a mode and the lines of a Body to begin with
  Clips,          \* lines that the clipboard may hold then in each mode
  Edits,          \* lines that an edit may put into the Body of a mode
  AAMLEFT,        \* g:voom_always_allow_move_left
  MaxLines,       \* bound on the lines of the Body
  MaxClip,        \* bound on the lines of the clipboard
  MaxLevel        \* bound on the levels of headlines

VARIABLES
  mode,           \* VO.mmode
  Body,           \* the lines of the Body buffer
  bnodes, levels, \* VO.bnodes and VO.levels
  Tree,           \* the lines of the Tree buffer
  style,          \* VO.useHash and VO.useCloseHash, VO.useOne and VO.useOneClose, VO.ads_levels
  snLn,           \* VO.snLn
  vimSnLn,        \* s:voom_bodies[body].snLn
  stale,          \* the Body has changed since the last update (tick_ # tick)
  clip,           \* the lines in register CLIP
  hookOK          \* no assertion of a hook has failed

outline == <<bnodes, levels, Tree, snLn, vimSnLn, style>>
vars == <<mode, Body, outline, stale, clip, hookOK>>

BufferName == -2
RootLine == TreeLine(FALSE, FALSE, 1, BufferName)

-----------------------------------------------------------------------------
(* The Tree.                                                               *)

Heads(tree) == [i \in 1..Len(tree) |-> tree[i].head]

Marked(tree, ln) == [tree EXCEPT ![ln].sel = TRUE]
Unmarked(tree, ln) == [tree EXCEPT ![ln].sel = FALSE]

\* Lines tlines with the levels from levels[j] on.
setLevTreeLines(tlines, levs, j) ==
  [i \in 1..Len(tlines) |-> [tlines[i] EXCEPT !.lev = levs[j + i - 1]]]

\* The lines of a region whose levels an operation has changed by levDelta.
RegionLines(levDelta, tlines, levs, j) ==
  IF levDelta = 0 THEN tlines ELSE setLevTreeLines(tlines, levs, j)

\* What updateTree makes of a Body when line sn is selected; a selection
\* beyond the last line moves to it.
Updated(body, sn) ==
  LET o == OutlineOf(mode, body)
      selected == Lesser(sn, Len(o.bnodes) + 1)
  IN  [bnodes |-> <<1>> \o o.bnodes,
       levels |-> <<1>> \o o.levels,
       tree |-> Marked(<<RootLine>> \o o.tlines, selected),
       sn |-> selected]

updateTree(body, sn) ==
  \E u \in {Updated(body, sn)} :
    /\ Body' = body
    /\ bnodes' = u.bnodes
    /\ levels' = u.levels
    /\ Tree' = u.tree
    /\ snLn' = u.sn
    /\ vimSnLn' = u.sn
    /\ style' = StyleOf(mode, body)
    /\ stale' = FALSE

\* The node selected at first is the one the cursor is in, in line blnr.
voom_TreeCreate(m, body, blnr) ==
  \E o \in {OutlineOf(m, body)} :
    /\ bnodes = <<1>> \o o.bnodes
    /\ levels = <<1>> \o o.levels
    /\ snLn = NodeAt(bnodes, blnr)
    /\ vimSnLn = snLn
    /\ Tree = Marked(<<RootLine>> \o o.tlines, snLn)

\* The outline of a Body, whatever its style is.
Start ==
  \E b \in Bodies, blnr \in 1..MaxLines :
    /\ blnr \in 1..Len(b[2])
    /\ mode = b[1]
    /\ Body = b[2]
    /\ voom_TreeCreate(b[1], b[2], blnr)
    /\ stale = FALSE
    /\ clip \in Clips[b[1]]
    /\ hookOK = TRUE

Init == Start /\ style = StyleOf(mode, Body)

\* Entering the Tree after the Body has changed.
UpdateTree ==
  /\ stale
  /\ updateTree(Body, snLn)
  /\ UNCHANGED <<mode, clip, hookOK>>

\* Editing the Body.
SetBody(body) ==
  /\ Body' = IF body = <<>> THEN <<Blank>> ELSE body
  /\ stale' = TRUE
  /\ UNCHANGED <<mode, outline, clip, hookOK>>

EditBody ==
  \E i \in 1..Len(Body) :
    \/ SetBody(CutOut(Body, i, i))
    \/ \E l \in Edits[mode] : \/ SetBody([Body EXCEPT ![i] = l])
                              \/ SetBody(PutAfter(Body, i, <<l>>))

-----------------------------------------------------------------------------
(* Selection.                                                              *)

\* Choosing a line of the Tree.  If the Body has changed behind the Tree,
\* the outline is updated with that line selected.
TreeSelect(ln) ==
  IF stale THEN updateTree(Body, ln) /\ UNCHANGED <<mode, clip, hookOK>>
  ELSE /\ Tree' = IF ln = vimSnLn THEN Tree ELSE Unmarked(Marked(Tree, ln), vimSnLn)
       /\ snLn' = ln
       /\ vimSnLn' = ln
       /\ UNCHANGED <<mode, Body, bnodes, levels, style, stale, clip, hookOK>>

\* Choosing the node of Body line blnr; the Tree is entered, hence updated.
BodySelect(blnr) ==
  \E u \in {IF stale THEN Updated(Body, snLn)
            ELSE [bnodes |-> bnodes, levels |-> levels, tree |-> Tree, sn |-> vimSnLn]} :
    LET sn == NodeAt(u.bnodes, blnr)
    IN  /\ bnodes' = u.bnodes
        /\ levels' = u.levels
        /\ Tree' = IF sn = u.sn THEN u.tree ELSE Marked(Unmarked(u.tree, u.sn), sn)
        /\ snLn' = sn
        /\ vimSnLn' = sn
        /\ style' = IF stale THEN StyleOf(mode, Body) ELSE style
        /\ stale' = FALSE
        /\ UNCHANGED <<mode, Body, clip, hookOK>>

-----------------------------------------------------------------------------
(* Outline operations.  They apply to the branches ln1..ln2, of which the  *)
(* first is at the top: ln2 is the SelEnd of what the user selected.       *)

Hook(S, oop, levDelta, bl1, tl1, bl2, tl2, blCut, tlCut) ==
  AfterOop(mode, S, oop, levDelta, bl1, tl1, bl2, tl2, blCut, tlCut)

DoneInPython(S, tree, sn) ==  \* mutant: voom#SetSnLn is not called
  /\ Body' = S.Body
  /\ bnodes' = S.bnodes
  /\ levels' = S.levels
  /\ hookOK' = (hookOK /\ S.ok)
  /\ Tree' = Marked(tree, sn)
  /\ snLn' = sn
  /\ style' = S.style
  /\ UNCHANGED <<mode, vimSnLn, stale>>

\* The end of an operation: outline S, a Tree from which the mark has been
\* taken, and the line that is selected now.
Done(S, tree, sn) ==
  /\ Body' = S.Body
  /\ bnodes' = S.bnodes
  /\ levels' = S.levels
  /\ hookOK' = (hookOK /\ S.ok)
  /\ Tree' = Marked(tree, sn)
  /\ snLn' = sn
  /\ vimSnLn' = sn
  /\ style' = S.style
  /\ UNCHANGED <<mode, stale>>

\* The last Body line of Tree line ln.
EndOf(ln) == nodesBodyRange(bnodes, Len(Body), ln, ln)[2]

\* Body lines of the nodes ln1..ln2, with headlines moved by levDelta.
Releveled(ln1, ln2, levDelta) ==
  LET heads == {bnodes[i] : i \in ln1..ln2}
      first == bnodes[ln1] - 1
  IN  [k \in 1..EndOf(ln2) - first |->
         IF first + k \in heads /\ levDelta # 0 THEN ChangeLev(mode, Body[first + k], levDelta)
         ELSE Body[first + k]]

\* A new headline after node ln, or after its branch, or as its first child.
\* It is written to the Tree and the Body only; ticks differ until the
\* Tree is entered again.
voom_OopInsert(ln0, folded, as_child) ==
  LET child == nodeHasChildren(levels, ln0)
      lev == IF ln0 = 1 THEN 1
             ELSE IF as_child \/ (child /\ ~folded) THEN levels[ln0] + 1 ELSE levels[ln0]
      ln == IF ln0 # 1 /\ ~as_child /\ child /\ folded THEN BranchEnd(levels, ln0) ELSE ln0
      bLnum == EndOf(ln)
  IN  /\ ~stale
      /\ Body' = PutAfter(Body, bLnum, NewLines(mode, lev, bLnum, ln, Body, bnodes, style))
      /\ Tree' = PutAfter(Unmarked(Tree, snLn), ln, <<TreeLine(TRUE, FALSE, lev, NewHeadline)>>)
      /\ snLn' = ln + 1
      /\ vimSnLn' = ln + 1
      /\ stale' = TRUE
      /\ UNCHANGED <<mode, bnodes, levels, style, clip, hookOK>>

voom_OopCopy(ln1, ln2) ==
  /\ ~stale
  /\ clip' = Slice(Body, bnodes[ln1], EndOf(ln2))
  /\ UNCHANGED <<mode, Body, outline, stale, hookOK>>

\* lnUp1 is the visible line above the region.
voom_OopCut(ln1, ln2, lnUp1) ==
  LET bln1 == bnodes[ln1]
      bln2 == EndOf(ln2)
      rest == CutOut(Body, bln1, bln2)
      S0 == [Body |-> IF rest = <<>> THEN <<Blank>> ELSE rest,
             bnodes |-> CutOut(Shift(bnodes, ln2 + 1, Len(bnodes), bln1 - bln2 - 1), ln1, ln2),
             levels |-> CutOut(levels, ln1, ln2), ok |-> TRUE, style |-> style]
  IN  /\ ~stale
      /\ clip' = Slice(Body, bln1, bln2)
      /\ \E S \in {Hook(S0, "cut", 0, 0, 0, 0, 0, bln1 - 1, ln1 - 1)} :
           Done(S, CutOut(Unmarked(Tree, snLn), ln1, ln2), lnUp1)

\* The clipboard can be pasted if it begins with a headline and has none
\* above that one.
ClipIsOutline(p) ==
  /\ p.bnodes # <<>>
  /\ p.bnodes[1] = 1
  /\ \A i \in 1..Len(p.levels) : p.levels[i] >= p.levels[1]

voom_OopPaste(ln0, folded) == \E p \in {OutlineOf(mode, clip)} :
  LET n == Len(p.bnodes)
      child == nodeHasChildren(levels, ln0)
      lev == IF ln0 = 1 THEN (IF Len(levels) > 1 THEN levels[2] ELSE 1)
             ELSE IF child /\ ~folded THEN levels[ln0] + 1 ELSE levels[ln0]
      ln == IF child /\ folded THEN BranchEnd(levels, ln0) ELSE ln0
      levDelta == lev - p.levels[1]
      heads == {p.bnodes[i] : i \in 1..n}
      pBlines == [k \in 1..Len(clip) |-> IF k \in heads /\ levDelta # 0
                                         THEN ChangeLev(mode, clip[k], levDelta) ELSE clip[k]]
      bln == EndOf(ln)
      S0 == [Body |-> PutAfter(Body, bln, pBlines),
             bnodes |-> PutAfter(Shift(bnodes, ln + 1, Len(bnodes), Len(clip)), ln,
                                 Shift(p.bnodes, 1, n, bln)),
             levels |-> PutAfter(levels, ln, Shift(p.levels, 1, n, levDelta)),
             ok |-> TRUE, style |-> style]
  IN  /\ ~stale
      /\ clip # <<>>
      /\ ClipIsOutline(p)
      /\ \E S \in {Hook(S0, "paste", levDelta, bln + 1, ln + 1, bln + Len(clip), ln + n, 0, 0)} :
           Done(S, PutAfter(Unmarked(Tree, snLn), ln,
                            RegionLines(levDelta, p.tlines, S.levels, ln + 1)), ln + 1)
      /\ UNCHANGED clip

\* The region goes before lnUp1, the visible line above it; lnUp2 is the one
\* above that.
voom_OopUp(ln1, ln2, lnUp1, lnUp2) ==
  LET levNew == IF levels[lnUp2] + 1 = levels[lnUp1] THEN levels[lnUp1] ELSE levels[lnUp2]
      levDelta == levNew - levels[ln1]
      bln1 == bnodes[ln1]
      bln2 == EndOf(ln2)
      blnUp1 == bnodes[lnUp1]
      size == bln2 - bln1 + 1
      n == ln2 - ln1 + 1
      Moved(s, t) == PutAfter(CutOut(s, ln1, ln2), lnUp1 - 1, t)
      bn == Shift(Shift(bnodes, lnUp1, ln1 - 1, size), ln1, ln2, blnUp1 - bln1)
      S0 == [Body |-> PutAfter(CutOut(Body, bln1, bln2), blnUp1 - 1,
                               Releveled(ln1, ln2, levDelta)),
             bnodes |-> Moved(bn, Slice(bn, ln1, ln2)),
             levels |-> Moved(levels, Slice(Shift(levels, ln1, ln2, levDelta), ln1, ln2)),
             ok |-> TRUE, style |-> style]
      tree == Unmarked(Tree, snLn)
  IN  /\ ~stale
      /\ \E S \in {Hook(S0, "up", levDelta, blnUp1, lnUp1, blnUp1 + size - 1, lnUp1 + n - 1,
                        bln1 - 1 + size, ln1 - 1 + n)} :
           Done(S, Moved(tree, RegionLines(levDelta, Slice(tree, ln1, ln2), S.levels, lnUp1)),
                lnUp1)
      /\ UNCHANGED clip

\* The region goes after line ln2 + 1, or after its branch if it is folded.
voom_OopDown(ln1, ln2, folded) ==
  LET lnDn1 == ln2 + 1
      child == nodeHasChildren(levels, lnDn1)
      lnIns == IF child /\ folded THEN BranchEnd(levels, lnDn1) ELSE lnDn1
      levNew == IF child /\ ~folded THEN levels[lnDn1] + 1 ELSE levels[lnDn1]
      levDelta == levNew - levels[ln1]
      bln1 == bnodes[ln1]
      bln2 == EndOf(ln2)
      blnIns == EndOf(lnIns)
      size == bln2 - bln1 + 1
      n == ln2 - ln1 + 1
      sn == lnIns + 1 - n
      Moved(s, t) == CutOut(PutAfter(s, lnIns, t), ln1, ln2)
      bn == Shift(Shift(bnodes, ln1, ln2, blnIns - bln2), ln2 + 1, lnIns, 0 - size)
      S0 == [Body |-> CutOut(PutAfter(Body, blnIns, Releveled(ln1, ln2, levDelta)), bln1, bln2),
             bnodes |-> Moved(bn, Slice(bn, ln1, ln2)),
             levels |-> Moved(levels, Slice(Shift(levels, ln1, ln2, levDelta), ln1, ln2)),
             ok |-> TRUE, style |-> style]
      tree == Unmarked(Tree, snLn)
  IN  /\ ~stale
      /\ ln2 < Len(levels)
      /\ \E blnShow \in {S0.bnodes[sn]} :
           \E S \in {Hook(S0, "down", levDelta, blnShow, sn, blnShow + size - 1, sn + n - 1,
                          bln1 - 1, ln1 - 1)} :
             Done(S, Moved(tree, RegionLines(levDelta, Slice(tree, ln1, ln2), S.levels, sn)), sn)
      /\ UNCHANGED clip

\* The levels of the region change by d and nothing moves.
Promote(ln1, ln2, oop, d) ==
  LET S0 == [Body |-> SubSeq(Body, 1, bnodes[ln1] - 1) \o Releveled(ln1, ln2, d)
                        \o SubSeq(Body, EndOf(ln2) + 1, Len(Body)),
             bnodes |-> bnodes,
             levels |-> Shift(levels, ln1, ln2, d), ok |-> TRUE, style |-> style]
      tree == Unmarked(Tree, snLn)
  IN  \E S \in {Hook(S0, oop, d, bnodes[ln1], ln1, EndOf(ln2), ln2, 0, 0)} :
        Done(S, PutAfter(CutOut(tree, ln1, ln2), ln1 - 1,
                         setLevTreeLines(Slice(tree, ln1, ln2), S.levels, ln1)), ln1)

voom_OopRight(ln1, ln2) ==
  /\ ~stale
  /\ ln1 # 2
  /\ levels[ln1] <= levels[ln1 - 1]
  /\ Promote(ln1, ln2, "right", 1)
  /\ UNCHANGED clip

voom_OopLeft(ln1, ln2) ==
  /\ ~stale
  /\ ln1 # 2
  /\ levels[ln1] # 1
  /\ (ln2 < Len(levels) /\ levels[ln2 + 1] = levels[ln1]) => AAMLEFT
  /\ Promote(ln1, ln2, "left", -1)
  /\ UNCHANGED clip

\* The Body is sorted and the Tree entered.
Sort(siblings, deep, order) ==
  /\ ~stale
  /\ \E body \in voom_OopSort(Body, bnodes, levels, Heads(Tree), siblings, deep, order, FALSE) :
       updateTree(body, snLn)
  /\ UNCHANGED <<mode, clip, hookOK>>

-----------------------------------------------------------------------------
\* The visible lines that may be next above a visible line: the line before
\* it, or the head of a closed branch that ends there.
LineAbove(ln) == {ln - 1} \cup {a \in 2..ln - 2 : BranchEnd(levels, a) = ln - 1}

\* The last lines of the selections that begin with branch ln1.
Ends(ln1) == {SelEnd(levels, ln1, sel) : sel \in ln1..Len(levels)} \ {0}

SortRanges ==
  {SortRange(levels, r[1], r[2]) : r \in {q \in (2..Len(levels)) \X (2..Len(levels)) : q[1] <= q[2]}}
    \ {<<>>}

Bounded ==
  /\ Len(Body) <= MaxLines
  /\ Len(clip) <= MaxClip
  /\ \A i \in 1..Len(levels) : levels[i] <= MaxLevel

Operation ==
  \E ln1 \in 2..Len(levels) : \E ln2 \in Ends(ln1) :
    \/ voom_OopCopy(ln1, ln2)
    \/ \E up \in LineAbove(ln1) : voom_OopCut(ln1, ln2, up)
    \/ /\ ln1 >= 3
       /\ \E up \in LineAbove(ln1) : \E up2 \in LineAbove(up) :
            voom_OopUp(ln1, ln2, up, up2)
    \/ \E folded \in BOOLEAN : voom_OopDown(ln1, ln2, folded)
    \/ voom_OopRight(ln1, ln2)
    \/ voom_OopLeft(ln1, ln2)

Sorting ==
  \E siblings \in SortRanges, deep \in BOOLEAN, order \in Orders : Sort(siblings, deep, order)

Outlining ==
  \/ \E ln \in 1..Len(levels), folded \in BOOLEAN :
       \/ \E as_child \in BOOLEAN : voom_OopInsert(ln, folded, as_child)
       \/ voom_OopPaste(ln, folded)
  \/ Operation

Selecting ==
  \/ \E ln \in 1..Len(Tree) : TreeSelect(ln)
  \/ \E blnr \in 1..Len(Body) : BodySelect(blnr)
  \/ UpdateTree

Next == (Outlining \/ Sorting \/ Selecting \/ EditBody) /\ Bounded'

Spec == Init /\ [][Next]_vars

-----------------------------------------------------------------------------
(* Properties.                                                             *)

\* The Tree has a line for each cached headline; both copies of the selected
\* line agree, are a line of the Tree, and exactly that line has the mark.
VoomTypeOK ==
  /\ mode \in ModeNames
  /\ Body # <<>>
  /\ Len(bnodes) = Len(levels)
  /\ Len(Tree) - Len(levels) \in (IF stale THEN {0, 1} ELSE {0})
  /\ snLn = vimSnLn
  /\ snLn \in 1..Len(Tree)
  /\ \A ln \in 1..Len(Tree) : Tree[ln].sel <=> ln = snLn

\* What voom_OopVerify checks after every operation: the outline that the
\* operation patched together is the one a new parse of the Body gives.
Verified ==
  ~stale => \E u \in {Updated(Body, snLn)} :
              bnodes = u.bnodes /\ levels = u.levels /\ Tree = u.tree

\* A new headline is written to the Tree and the Body without a parse.  The
\* next update finds it in that line and keeps all other lines.  Only the
\* level of the new line, if the mode has no such level, and its + or Project
\* sign may change then.
InsertedIsParsed ==
  LET last == LastLevel(mode)
      inMode(line) == [line EXCEPT !.lev = IF last > 0 THEN Lesser(@, last) ELSE @]
  IN  stale => \E tree \in {Updated(Body, snLn).tree} :
        /\ Len(Tree) = Len(tree)
        /\ \A ln \in 1..Len(Tree) :
             IF ln = snLn THEN inMode(Tree[ln]) = [tree[ln] EXCEPT !.x = Tree[ln].x]
             ELSE Tree[ln] = tree[ln]

\* The assertions of the hooks hold: the lines an operation passes to them
\* are those of the region it moved.
HooksAssert == hookOK
=============================================================================
