------------------------------- MODULE Outline -------------------------------
(***************************************************************************)
(* The outline data of a VOoM buffer and what voom_vim.py reads from it.   *)
(*                                                                         *)
(* An outline is two sequences: levels, the level of each line of the Tree *)
(* buffer, and bnodes, the number of the Body line it stands for.  Line 1  *)
(* of the Tree is the name of the buffer (level 1, Body line 1) and never  *)
(* a node.  Lines of both buffers count from 1, as in Vim.                 *)
(***************************************************************************)
EXTENDS Integers, Sequences, FiniteSets, SequencesExt

\* Lines and levels count from 1.
Positive == Nat \ {0}

-----------------------------------------------------------------------------
(* Slices: s without the elements a..b, and s with t after element k.      *)

Slice(s, a, b) == SubSeq(s, a, b)

CutOut(s, a, b) == SubSeq(s, 1, a - 1) \o SubSeq(s, b + 1, Len(s))

PutAfter(s, k, t) == SubSeq(s, 1, k) \o t \o SubSeq(s, k + 1, Len(s))

\* Elements a..b of a sequence of numbers, moved by d.
Shift(s, a, b, d) == [i \in 1..Len(s) |-> IF i \in a..b THEN s[i] + d ELSE s[i]]

\* s, with every element evaluated once by TLC.
Once(s) == s \o <<>>

\* S in the order of before, which is total on S.
InOrder(S, before(_, _)) ==
  Once([i \in 1..Cardinality(S) |->
          CHOOSE x \in S : Cardinality({y \in S : before(y, x)}) = i - 1])

\* The numbers in S, in order.
Ascending(S) ==
  Once([i \in 1..Cardinality(S) |-> CHOOSE x \in S : Cardinality({y \in S : y < x}) = i - 1])

\* The numbers from a to b that pass the test.
Lines(a, b, Test(_)) == Ascending({i \in a..b : Test(i)})

-----------------------------------------------------------------------------
(* Traversal.                                                              *)

nodeHasChildren(levels, ln) ==
  ln \notin {1, Len(levels)} /\ levels[ln] < levels[ln + 1]

\* The number of all nodes under ln.
nodeSubnodes(levels, ln) ==
  LET after == {i \in ln + 1..Len(levels) : levels[i] <= levels[ln]}
  IN  IF ln \in {1, Len(levels)} THEN 0
      ELSE (IF after = {} THEN Len(levels) ELSE Min(after) - 1) - ln

BranchEndAlone(levels, ln) == ln  \* mutant: nodeSubnodes is not added

\* The last line of the branch of ln.
BranchEnd(levels, ln) == ln + nodeSubnodes(levels, ln)

\* 0 stands for None.
nodeParent(levels, ln) ==
  LET above == {i \in 2..ln - 1 : levels[i] < levels[ln]}
  IN  IF levels[ln] = 1 \/ above = {} THEN 0 ELSE Max(above)

\* The code collects them upwards, each above the last and of a lower level.
nodeAncestors(levels, ln) ==
  {i \in 2..ln - 1 : \A j \in i + 1..ln : levels[i] < levels[j]}

\* The path of headlines that leads to a node; heads is the text of the Tree.
nodeUNL(levels, heads, ln) ==
  LET path == InOrder(nodeAncestors(levels, ln) \cup {ln}, <)
  IN  IF ln = 1 THEN <<"top-of-buffer">> ELSE [i \in 1..Len(path) |-> heads[path[i]]]

\* The nodes with the same parent and level as ln.
nodeSiblings(levels, ln) ==
  LET isSibling(i) == /\ levels[i] = levels[ln]
                      /\ \A j \in (i..ln) \cup (ln..i) : levels[j] >= levels[ln]
  IN  Lines(2, Len(levels), isSibling)

\* The siblings of l1 down to l2, <<>> if a node between them is above them.
rangeSiblings(levels, l1, l2) ==
  LET sameLevel(i) == levels[i] = levels[l1]
  IN  IF l1 > l2 \/ \E i \in l1..l2 : levels[i] < levels[l1] THEN <<>>
      ELSE Lines(l1, l2, sameLevel)

\* The children of p that share the level of the first one, down to line last.
ChildrenGroup(levels, p, last) ==
  LET belongs(i) == /\ levels[i] = levels[p + 1]
                    /\ \A j \in p + 1..i : levels[j] >= levels[p + 1]
  IN  Lines(p + 1, last, belongs)

\* All groups of siblings in the region of a group: deepest level first, and
\* among equal levels the one with the lowest parent first.
getSiblingsGroups(levels, siblings) ==
  LET l1 == Head(siblings)
      l2 == BranchEnd(levels, Last(siblings))
      parents == {p \in l1..l2 - 1 : levels[p] < levels[p + 1]}
      groups == {<<levels[l1], 0, siblings>>}
                  \cup {<<levels[p + 1], p, ChildrenGroup(levels, p, l2)>> : p \in parents}
      before(g, h) == g[1] > h[1] \/ (g[1] = h[1] /\ g[2] > h[2])
      sorted == InOrder(groups, before)
  IN  IF siblings = <<>> THEN <<>> ELSE [i \in 1..Len(sorted) |-> sorted[i][3]]

BodyRangeToNext(bnodes, bodyLen, ln1, ln2) ==  \* mutant: the -1 of line 544 is missing
  <<bnodes[ln1], IF ln2 < Len(bnodes) THEN bnodes[ln2 + 1] ELSE bodyLen>>

\* The Body lines of the nodes ln1..ln2, bodyLen being the length of the Body.
nodesBodyRange(bnodes, bodyLen, ln1, ln2) ==
  <<bnodes[ln1], IF ln2 < Len(bnodes) THEN bnodes[ln2 + 1] - 1 ELSE bodyLen>>

\* The line of the Tree that Body line blnr belongs to (bisect_right).
NodeAt(bnodes, blnr) == Cardinality({i \in 1..Len(bnodes) : bnodes[i] <= blnr})

\* The last line of the branches selected by ln1..ln2, 0 if a selected node
\* is above the first.
SelEnd(levels, ln1, ln2) ==
  LET after == {i \in ln2 + 1..Len(levels) : levels[i] <= levels[ln1]}
  IN  IF ln1 = 1 \/ \E i \in ln1..ln2 : levels[i] < levels[ln1] THEN 0
      ELSE IF after = {} THEN Len(levels) ELSE Min(after) - 1
=============================================================================
