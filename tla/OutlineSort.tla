----------------------------- MODULE OutlineSort -----------------------------
(***************************************************************************)
(* Sorting of siblings (voom_OopSort and sortSiblings of voom_vim.py).     *)
(* Only the Body is rewritten, group after group with the deepest first;   *)
(* levels, bnodes and Tree stay as they were before the first group.       *)
(*                                                                         *)
(* Texts of headlines are numbers: 2k - 1 and 2k stand for the upper and   *)
(* the lower case of the same letters.                                     *)
(***************************************************************************)
EXTENDS Modes

Orders == {"sort", "r", "flip", "shuffle"}

lower(head) == (head + 1) \div 2

\* The orders in which indices 1..z may come out for the headlines heads:
\* one, unless they are shuffled.  r keeps the order of equal headlines.
SortedIndices(heads, order, ignorecase) ==
  LET z == Len(heads)
      key == [i \in 1..z |-> IF ignorecase THEN lower(heads[i]) ELSE heads[i]]
      before(i, j) == CASE order = "sort" -> key[i] < key[j] \/ (key[i] = key[j] /\ i < j)
                        [] order = "r"    -> key[i] > key[j] \/ (key[i] = key[j] /\ i < j)
                        [] OTHER          -> i > j
  IN  IF order = "shuffle"
      THEN {p \in [1..z -> 1..z] : \A i, j \in 1..z : p[i] = p[j] => i = j}
      ELSE {InOrder(1..z, before)}

\* The Body after one group of siblings is put in order p.
Arranged(Body, bnodes, levels, sibs, p) ==
  LET z == Len(sibs)
      last(sib) == BranchEnd(levels, sib)
      region(j) == nodesBodyRange(bnodes, Len(Body), sibs[j],
                                  IF j < z THEN sibs[j + 1] - 1 ELSE last(sibs[z]))
      branch(j) == Slice(Body, region(j)[1], region(j)[2])
      whole == nodesBodyRange(bnodes, Len(Body), sibs[1], last(sibs[z]))
  IN  SubSeq(Body, 1, whole[1] - 1)
        \o FlattenSeq([i \in 1..z |-> branch(p[i])])
        \o SubSeq(Body, whole[2] + 1, Len(Body))

\* The Bodies a group may leave behind.
sortSiblings(Body, bnodes, levels, heads, sibs, order, ignorecase) ==
  LET indices == SortedIndices([i \in 1..Len(sibs) |-> heads[sibs[i]]], order, ignorecase)
  IN  IF Len(sibs) < 2 THEN {Body}
      ELSE {Arranged(Body, bnodes, levels, sibs, p) : p \in indices}

\* The siblings that a range of the Tree stands for.
SortRange(levels, ln1, ln2) ==
  IF ln1 = ln2 THEN nodeSiblings(levels, ln1) ELSE rangeSiblings(levels, ln1, ln2)

\* The Bodies that sorting siblings, and with deep all nodes under them, may
\* lead to; heads are the headlines of the Tree.
voom_OopSort(Body, bnodes, levels, heads, siblings, deep, order, ignorecase) ==
  LET groups == IF deep THEN getSiblingsGroups(levels, siblings) ELSE <<siblings>>
      after[k \in 0..Len(groups)] ==
        IF k = 0 THEN {Body}
        ELSE UNION {sortSiblings(B, bnodes, levels, heads, groups[k], order, ignorecase) :
                      B \in after[k - 1]}
  IN  after[Len(groups)]
=============================================================================
