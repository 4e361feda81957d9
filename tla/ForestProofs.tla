----------------------------- MODULE ForestProofs -----------------------------
(***************************************************************************)
(* The outline operations and sorting, for Bodies of any length and the    *)
(* modes of VoomProofs, as steps of the abstract forest: each of them      *)
(* moves, raises, takes, puts in or reorders whole branches.               *)
(***************************************************************************)
EXTENDS MCForest, VoomProofs

-----------------------------------------------------------------------------
(* The forest.                                                             *)

\* A node at another level.
LEMMA NodeLevIs ==
  ASSUME NEW x \in NodeType, NEW v \in Int
  PROVE  /\ WithLev(x, v) \in NodeType /\ WithLev(x, v).lev = v
         /\ WithLev(x, x.lev) = x /\ x.lev \in Int
BY DEF WithLev, NodeType

\* Sequences with the same elements are the same.
LEMMA SameSeq ==
  ASSUME NEW T, NEW s \in Seq(T), NEW t \in Seq(T), Len(s) = Len(t),
         \A i \in 1 .. Len(s) : s[i] = t[i]
  PROVE  s = t
BY SeqEqual

\* The forest has the nodes of the outline.
LEMMA NodesInAre ==
  ASSUME NEW m, NEW bn, NEW lv, NEW B, Told(m, bn, lv, B), NEW ns, ns = NodesIn(bn, lv, B)
  PROVE  /\ ns \in Seq(NodeType) /\ Len(ns) = Len(bn) - 1 /\ Len(ns) \in Nat
         /\ \A i \in 1 .. Len(bn) - 1 : ns[i] = NodeIn(bn, lv, B, i + 1) /\ ns[i].lev = lv[i + 1]
<1>1. PICK N \in Nat : N = Len(bn) /\ N >= 1
  BY StartsAre
<1>2. PICK n \in Nat : n = N - 1
  BY <1>1
<1>3. ns = [i \in 1 .. n |-> NodeIn(bn, lv, B, i + 1)]
  BY <1>1, <1>2 DEF NodesIn
<1>4. ASSUME NEW i \in 1 .. n
      PROVE  NodeIn(bn, lv, B, i + 1) \in NodeType /\ NodeIn(bn, lv, B, i + 1).lev = lv[i + 1]
  <2>1. PICK j \in Int : j = i + 1
    OBVIOUS
  <2>2. j \in 2 .. Len(bn)
    BY <1>1, <1>2, <2>1
  <2>3. NodeIn(bn, lv, B, j) \in NodeType /\ NodeIn(bn, lv, B, j).lev = lv[j]
    BY <2>2, NodeIsTyped
  <2> QED
    BY <2>1, <2>3
<1>5. ns \in [1 .. n -> NodeType]
  BY <1>3, <1>4
<1>6. ns \in Seq(NodeType) /\ Len(ns) = n
  BY <1>5, FunctionIsSeq
<1>7. \A i \in 1 .. n : ns[i] = NodeIn(bn, lv, B, i + 1)
  BY <1>3
<1> QED
  BY <1>1, <1>2, <1>4, <1>6, <1>7

\* A branch at another level.
LEMMA AtLevelIs ==
  ASSUME mode \in OneLineModes, NEW s \in Seq(NodeType), s # <<>>, NEW l \in Int
  PROVE  /\ F!AtLevel(s, l) \in Seq(NodeType) /\ Len(F!AtLevel(s, l)) = Len(s)
         /\ \A i \in 1 .. Len(s) : F!AtLevel(s, l)[i] = WithLev(s[i], s[i].lev + l - s[1].lev)
<1>1. LastLevel(mode) = 0
  BY DEF LastLevel, OneLineModes, MTYPE0
<1>2. PICK n \in Nat : n = Len(s) /\ n >= 1
  <2>1. Len(s) \in Nat /\ Len(s) # 0
    BY EmptySeq
  <2> QED
    BY <2>1
<1>3. F!AtLevel(s, l) = [i \in 1 .. n |-> WithLev(s[i], s[i].lev + l - s[1].lev)]
  BY <1>1, <1>2 DEF F!AtLevel, WithLev
<1>4. \A i \in 1 .. n : s[i] \in NodeType
  BY <1>2
<1>5. ASSUME NEW i \in 1 .. n
      PROVE  WithLev(s[i], s[i].lev + l - s[1].lev) \in NodeType
  <2>1. 1 \in 1 .. n
    BY <1>2
  <2>2. s[i].lev \in Int /\ s[1].lev \in Int
    BY <1>4, <2>1 DEF NodeType
  <2>3. s[i].lev + l - s[1].lev \in Int
    BY <2>2
  <2> QED
    BY <1>4, <2>3, NodeLevIs
<1>6. F!AtLevel(s, l) \in [1 .. n -> NodeType]
  BY <1>3, <1>5
<1>7. F!AtLevel(s, l) \in Seq(NodeType) /\ Len(F!AtLevel(s, l)) = n
  BY <1>6, FunctionIsSeq
<1> QED
  BY <1>2, <1>3, <1>7

\* Nodes new are rest with branch after node k, at a level changed by d.
HasBranch(new, rest, k, branch, d) ==
  /\ new \in Seq(NodeType) /\ rest \in Seq(NodeType) /\ branch \in Seq(NodeType)
  /\ Len(new) = Len(rest) + Len(branch) /\ Len(branch) >= 1 /\ k \in 0 .. Len(rest) /\ d \in Int
  /\ \A i \in 1 .. k : new[i] = rest[i]
  /\ \A j \in 1 .. Len(branch) : new[k + j] = WithLev(branch[j], branch[j].lev + d)
  /\ \A i \in k + 1 .. Len(rest) : new[i + Len(branch)] = rest[i]

\* The nodes of a branch, by their levels.
LEMMA HasBranchIs ==
  ASSUME mode \in OneLineModes, NEW new, NEW rest, NEW k, NEW branch, NEW d,
         HasBranch(new, rest, k, branch, d)
  PROVE  new = PutAfter(rest, k, F!AtLevel(branch, new[k + 1].lev))
<1>1. PICK n \in Nat, N \in Nat : n = Len(branch) /\ N = Len(rest) /\ n >= 1 /\ k \in 0 .. N /\ Len(new) = N + n
  BY DEF HasBranch
<1>2. new \in Seq(NodeType) /\ rest \in Seq(NodeType) /\ branch \in Seq(NodeType) /\ d \in Int
  BY DEF HasBranch
<1>3. /\ \A i \in 1 .. k : new[i] = rest[i]
      /\ \A j \in 1 .. n : new[k + j] = WithLev(branch[j], branch[j].lev + d)
      /\ \A i \in k + 1 .. N : new[i + n] = rest[i]
  BY <1>1 DEF HasBranch
<1>4. \A j \in 1 .. n : branch[j] \in NodeType /\ branch[j].lev \in Int
  <2>1. \A j \in 1 .. n : branch[j] \in NodeType
    BY <1>1, <1>2
  <2> QED
    BY <2>1 DEF NodeType
<1>5. 1 \in 1 .. n
  BY <1>1
<1>6. PICK l \in Int : l = new[k + 1].lev /\ l = branch[1].lev + d
  <2>1. branch[1].lev + d \in Int /\ branch[1] \in NodeType
    BY <1>2, <1>4, <1>5
  <2>2. new[k + 1] = WithLev(branch[1], branch[1].lev + d)
    BY <1>3, <1>5
  <2> QED
    BY <2>1, <2>2, NodeLevIs
<1> DEFINE t == F!AtLevel(branch, l)
<1>7. /\ t \in Seq(NodeType) /\ Len(t) = n
      /\ \A i \in 1 .. n : t[i] = WithLev(branch[i], branch[i].lev + l - branch[1].lev)
  <2>1. branch # <<>>
    BY <1>1, <1>2, EmptySeq
  <2> QED
    BY <1>1, <1>2, <2>1, AtLevelIs
<1> HIDE DEF t
<1>8. \A i \in 1 .. n : t[i] = new[k + i]
  <2>1. ASSUME NEW i \in 1 .. n
        PROVE  branch[i].lev + l - branch[1].lev = branch[i].lev + d
    <3>1. branch[i].lev \in Int /\ branch[1].lev \in Int
      BY <1>4, <1>5
    <3> QED
      BY <1>2, <1>6, <3>1
  <2> QED
    BY <1>3, <1>7, <2>1
<1> DEFINE w == PutAfter(rest, k, t)
<1>9. IsPut(NodeType, w, rest, k, t)
  BY <1>1, <1>2, <1>7, PutAfterIs
<1> HIDE DEF w
<1>10. /\ w \in Seq(NodeType) /\ Len(w) = N + n
       /\ \A i \in 1 .. k : w[i] = rest[i]
       /\ \A i \in k + 1 .. k + n : w[i] = t[i - k]
       /\ \A i \in k + n + 1 .. N + n : w[i] = rest[i - n]
  BY <1>1, <1>7, <1>9 DEF IsPut
<1>11. ASSUME NEW i \in 1 .. N + n
       PROVE  w[i] = new[i]
  <2>1. CASE i <= k
    <3>1. i \in 1 .. k
      BY <1>1, <2>1
    <3> QED
      BY <1>3, <1>10, <3>1
  <2>2. CASE i \in k + 1 .. k + n
    <3>1. i - k \in 1 .. n /\ k + (i - k) = i
      BY <1>1, <2>2
    <3> QED
      BY <1>8, <1>10, <2>2, <3>1
  <2>3. CASE i \in k + n + 1 .. N + n
    <3>1. i - n \in k + 1 .. N /\ (i - n) + n = i
      BY <1>1, <2>3
    <3> QED
      BY <1>3, <1>10, <2>3, <3>1
  <2> QED
    BY <1>1, <2>1, <2>2, <2>3
<1>12. w = new
  BY <1>1, <1>2, <1>10, <1>11, SameSeq
<1> QED
  BY <1>6, <1>12 DEF w, t

\* The n nodes from a on are in new after k others, at a level changed by d.
AreMoved(old, new, a, n, k, d) ==
  /\ old \in Seq(NodeType) /\ new \in Seq(NodeType) /\ Len(new) = Len(old) /\ d \in Int
  /\ a \in 1 .. Len(old) /\ n \in 1 .. Len(old) - a + 1 /\ k \in 0 .. Len(old) - n
  /\ \A i \in 1 .. k : new[i] = old[IF i < a THEN i ELSE i + n]
  /\ \A j \in 1 .. n : new[k + j] = WithLev(old[a + j - 1], old[a + j - 1].lev + d)
  /\ \A i \in k + 1 .. Len(old) - n : new[i + n] = old[IF i < a THEN i ELSE i + n]

\* A region of whole branches is one whose levels stay below the level of its first node.
LEMMA MovedHaveBranch ==
  ASSUME NEW old, NEW new, NEW a, NEW n, NEW k, NEW d, AreMoved(old, new, a, n, k, d),
         NEW b, b = a + n - 1
  PROVE  HasBranch(new, CutOut(old, a, b), k, Slice(old, a, b), d)
<1>1. PICK N \in Nat : N = Len(old)
  BY DEF AreMoved
<1>2. /\ old \in Seq(NodeType) /\ new \in Seq(NodeType) /\ Len(new) = N /\ d \in Int
      /\ a \in 1 .. N /\ n \in 1 .. N - a + 1 /\ k \in 0 .. N - n
      /\ a \in Int /\ n \in Int /\ k \in Int /\ b \in Int
  BY <1>1 DEF AreMoved
<1>3. /\ \A i \in 1 .. k : new[i] = old[IF i < a THEN i ELSE i + n]
      /\ \A j \in 1 .. n : new[k + j] = WithLev(old[a + j - 1], old[a + j - 1].lev + d)
      /\ \A i \in k + 1 .. N - n : new[i + n] = old[IF i < a THEN i ELSE i + n]
  BY <1>1 DEF AreMoved
<1>4. b \in a .. N /\ b - a + 1 = n
  BY <1>2
<1> DEFINE r == CutOut(old, a, b)
           t == Slice(old, a, b)
<1>5. IsCut(NodeType, r, old, a, b)
  BY <1>1, <1>2, <1>4, CutOutIs
<1>6. t \in Seq(NodeType) /\ Len(t) = b - a + 1 /\ \A i \in 1 .. b - a + 1 : t[i] = old[a + i - 1]
  <2>1. old \in Seq(NodeType) /\ a \in 1 .. Len(old) /\ b \in a .. Len(old)
    BY <1>1, <1>2, <1>4
  <2> QED
    BY <2>1, SliceIs
<1> HIDE DEF r, t
<1>7. /\ r \in Seq(NodeType) /\ Len(r) = N - n
      /\ \A i \in 1 .. a - 1 : r[i] = old[i]
      /\ \A i \in a .. N - n : r[i] = old[i + n]
  BY <1>1, <1>4, <1>5 DEF IsCut
<1>8. \A i \in 1 .. N - n : r[i] = old[IF i < a THEN i ELSE i + n]
  <2>1. ASSUME NEW i \in 1 .. N - n
        PROVE  r[i] = old[IF i < a THEN i ELSE i + n]
    <3>1. CASE i < a
      <4>1. i \in 1 .. a - 1
        BY <1>2, <3>1
      <4> QED
        BY <1>7, <3>1, <4>1
    <3>2. CASE ~(i < a)
      <4>1. i \in a .. N - n
        BY <1>2, <3>2
      <4> QED
        BY <1>7, <3>2, <4>1
    <3> QED
      BY <3>1, <3>2
  <2> QED
    BY <2>1
<1>9. t \in Seq(NodeType) /\ Len(t) = n /\ \A i \in 1 .. n : t[i] = old[a + i - 1]
  BY <1>4, <1>6
<1>10. /\ Len(new) = Len(r) + Len(t) /\ Len(t) >= 1 /\ k \in 0 .. Len(r)
  BY <1>2, <1>7, <1>9
<1>11. \A i \in 1 .. k : i \in 1 .. N - n
  BY <1>2
<1>12. \A i \in k + 1 .. N - n : i \in 1 .. N - n
  BY <1>2
<1>13. \A i \in 1 .. k : new[i] = r[i]
  BY <1>3, <1>8, <1>11
<1>14. \A j \in 1 .. Len(t) : new[k + j] = WithLev(t[j], t[j].lev + d)
  BY <1>3, <1>9
<1>15. \A i \in k + 1 .. Len(r) : new[i + Len(t)] = r[i]
  BY <1>3, <1>7, <1>8, <1>9, <1>12
<1>16. HasBranch(new, r, k, t, d)
  BY <1>2, <1>7, <1>9, <1>10, <1>13, <1>14, <1>15 DEF HasBranch
<1> QED
  BY <1>16 DEF r, t

\* The operators of the forest are those of the outline.
LEMMA ForestOperators ==
  ASSUME NEW s, NEW a, NEW b, NEW k, NEW t
  PROVE  F!CutOut(s, a, b) = CutOut(s, a, b) /\ F!Slice(s, a, b) = Slice(s, a, b)
         /\ F!PutAfter(s, k, t) = PutAfter(s, k, t)
BY DEF F!CutOut, CutOut, F!Slice, Slice, F!PutAfter, PutAfter

\* Whole branches move if they are attached and take no other node along.
LEMMA MovedIsMove ==
  ASSUME mode \in OneLineModes, NEW old, NEW new, NEW a, NEW n, NEW k, NEW d,
         AreMoved(old, new, a, n, k, d), NEW b, b = a + n - 1, F!Branches(old, a, b),
         F!Attached(new, k + 1),
         F!Regular(CutOut(old, a, b)) /\ k < Len(CutOut(old, a, b))
           => CutOut(old, a, b)[k + 1].lev <= new[k + 1].lev
  PROVE  F!Move(old, new)
<1>1. PICK N \in Nat : N = Len(old)
  BY DEF AreMoved
<1>2. a \in 1 .. N /\ n \in 1 .. N - a + 1 /\ k \in 0 .. N - n /\ Len(new) = N
  BY <1>1 DEF AreMoved
<1>3. b \in a .. N /\ b - a + 1 = n
  BY <1>2
<1>4. new = PutAfter(CutOut(old, a, b), k, F!AtLevel(Slice(old, a, b), new[k + 1].lev))
  BY MovedHaveBranch, HasBranchIs
<1>5. F!Placed(new, F!CutOut(old, a, b), k, F!Slice(old, a, b))
  <2> DEFINE r == CutOut(old, a, b)
             t == Slice(old, a, b)
  <2>1. F!CutOut(old, a, b) = r /\ F!Slice(old, a, b) = t
    BY ForestOperators
  <2>2. F!PutAfter(r, k, F!AtLevel(t, new[k + 1].lev)) = PutAfter(r, k, F!AtLevel(t, new[k + 1].lev))
    BY ForestOperators
  <2>3. new = PutAfter(r, k, F!AtLevel(t, new[k + 1].lev))
    BY <1>4
  <2>4. F!Regular(r) /\ k < Len(r) => r[k + 1].lev <= new[k + 1].lev
    OBVIOUS
  <2> HIDE DEF r, t
  <2>5. F!Placed(new, r, k, t)
    BY <2>2, <2>3, <2>4 DEF F!Placed
  <2> QED
    BY <2>1, <2>5
<1>6. k \in 0 .. Len(old) - (b - a + 1)
  BY <1>1, <1>2, <1>3
<1> QED
  BY <1>1, <1>2, <1>3, <1>5, <1>6 DEF F!Move

\* The nodes of both outlines.
AreNodes(bn, lv, B, bn2, lv2, B2, o, old, new, L) ==
  /\ old \in Seq(NodeType) /\ new \in Seq(NodeType) /\ Len(old) = L /\ Len(new) = L
  /\ \A i \in 1 .. L : old[i] \in NodeType /\ old[i].lev = lv[i + 1] /\ lv[i + 1] \in Int
  /\ \A i \in 1 .. L : /\ o[i + 1] - 1 \in 1 .. L
                       /\ new[i] = WithLev(old[o[i + 1] - 1], lv2[i + 1])

\* The nodes of a rearranged outline are those of the old one, with other levels.
LEMMA RenumberedNodes ==
  ASSUME NEW m, NEW bn, NEW lv, NEW B, Told(m, bn, lv, B), NEW bn2, NEW lv2, NEW B2, Told(m, bn2, lv2, B2),
         Len(bn2) = Len(bn), NEW o, AreRenumbered(bn, lv, B, bn2, lv2, B2, o),
         NEW old, old = NodesIn(bn, lv, B), NEW new, new = NodesIn(bn2, lv2, B2),
         NEW L \in Int, L = Len(bn) - 1
  PROVE  AreNodes(bn, lv, B, bn2, lv2, B2, o, old, new, L)
<1>1. /\ old \in Seq(NodeType) /\ Len(old) = L /\ L \in Nat
      /\ \A i \in 1 .. L : old[i] = NodeIn(bn, lv, B, i + 1) /\ old[i].lev = lv[i + 1]
  BY NodesInAre
<1>2. /\ new \in Seq(NodeType) /\ Len(new) = L
      /\ \A i \in 1 .. L : new[i] = NodeIn(bn2, lv2, B2, i + 1)
  BY NodesInAre
<1>3. PICK N \in Nat : N = Len(bn) /\ L = N - 1
  BY StartsAre
<1>4. ASSUME NEW i \in 1 .. L
      PROVE  old[i] \in NodeType /\ old[i].lev = lv[i + 1] /\ lv[i + 1] \in Int
  <2>1. old[i] \in NodeType
    BY <1>1
  <2>2. old[i].lev \in Int
    BY <2>1 DEF NodeType
  <2> QED
    BY <1>1, <2>1, <2>2
<1>5. ASSUME NEW i \in 1 .. L
      PROVE  o[i + 1] - 1 \in 1 .. L /\ new[i] = WithLev(old[o[i + 1] - 1], lv2[i + 1])
  <2>1. PICK x \in Int : x = i + 1 /\ x \in 2 .. Len(bn2)
    BY <1>3
  <2>2. IsNodeOf(bn, lv, B, bn2, lv2, B2, x, o[x])
    BY <2>1 DEF AreRenumbered
  <2>3. o[x] \in 2 .. N /\ NodeIn(bn2, lv2, B2, x) = [NodeIn(bn, lv, B, o[x]) EXCEPT !.lev = lv2[x]]
    BY <1>3, <2>2 DEF IsNodeOf
  <2>4. PICK y \in Int : y = o[x] - 1 /\ y + 1 = o[x] /\ y \in 1 .. L
    BY <1>3, <2>3
  <2>5. old[y] = NodeIn(bn, lv, B, o[x])
    BY <1>1, <2>4
  <2>6. new[i] = WithLev(old[y], lv2[x])
    BY <1>2, <2>1, <2>3, <2>5 DEF WithLev
  <2> QED
    BY <2>1, <2>4, <2>6
<1> QED
  BY <1>1, <1>2, <1>4, <1>5 DEF AreNodes

\* A node at its own level.
LEMMA NodeStays ==
  ASSUME NEW x \in NodeType, NEW v, v = x.lev
  PROVE  WithLev(x, v) = x
BY NodeLevIs

\* Block 2 goes up and block 1 keeps its levels, or is empty.
LEMMA SwapMovesUp ==
  ASSUME NEW m \in OneLineModes, NEW bn, NEW lv, NEW B, Told(m, bn, lv, B),
         NEW bn2, NEW lv2, NEW B2, Told(m, bn2, lv2, B2),
         NEW p \in Int, NEW n1 \in Int, NEW n2 \in Int, NEW d \in Int, n2 > 0,
         NEW bl \in Int, NEW size1 \in Int, NEW size2 \in Int,
         CanSwap(bn, lv, B, p, n1, n2, bl, size1, size2, 0, d),
         SwapsNodes(bn, B, p, n1, n2, bl, size1, size2),
         IsSwapped(m, bn, lv, B, p, n1, n2, bl, size1, size2, 0, d, bn2, lv2, B2)
  PROVE  AreMoved(NodesIn(bn, lv, B), NodesIn(bn2, lv2, B2), p + n1 - 1, n2, p - 2, d)
<1> DEFINE o == SwapOrigin(p, n1, n2)
<1>1. PICK N \in Nat : N = Len(bn) /\ N = Len(bn2)
  BY DEF Told, IsSwapped
<1>2. p > 1 /\ n1 >= 0 /\ p + n1 + n2 - 1 <= N
  BY <1>1 DEF CanSwap
<1>3. /\ \A i \in (1 .. p - 1) \cup (p + n1 + n2 .. N) : lv2[i] = lv[i]
      /\ \A i \in p .. p + n2 - 1 : lv2[i] = lv[i + n1] + d
      /\ \A i \in p + n2 .. p + n2 + n1 - 1 : lv2[i] = lv[i - n2] + 0
  BY <1>1 DEF IsSwapped
<1>4. AreRenumbered(bn, lv, B, bn2, lv2, B2, o)
  <2>1. PICK z \in Int : z = 0
    OBVIOUS
  <2>2. /\ CanSwap(bn, lv, B, p, n1, n2, bl, size1, size2, z, d)
        /\ IsSwapped(m, bn, lv, B, p, n1, n2, bl, size1, size2, z, d, bn2, lv2, B2)
    BY <2>1
  <2> QED
    BY <2>2, SwapKeepsNodes
<1>5. ASSUME NEW i \in Int
      PROVE  o[i] = IF i \in p .. p + n2 - 1 THEN i + n1
                    ELSE IF i \in p + n2 .. p + n2 + n1 - 1 THEN i - n2 ELSE i
  BY DEF SwapOrigin
<1> HIDE DEF o
<1>6. PICK L \in Nat : L = N - 1
  BY <1>2
<1>7. PICK old, new : old = NodesIn(bn, lv, B) /\ new = NodesIn(bn2, lv2, B2)
  OBVIOUS
<1>8. AreNodes(bn, lv, B, bn2, lv2, B2, o, old, new, L)
  <2>1. Len(bn2) = Len(bn) /\ L \in Int /\ L = Len(bn) - 1
    BY <1>1, <1>6
  <2> QED
    BY <1>4, <1>7, <2>1, RenumberedNodes
<1>9. PICK a \in Int, k \in Int : a = p + n1 - 1 /\ k = p - 2
  BY <1>2
<1>10. /\ old \in Seq(NodeType) /\ new \in Seq(NodeType) /\ Len(old) = L /\ Len(new) = L
       /\ \A i \in 1 .. L : old[i] \in NodeType /\ old[i].lev = lv[i + 1] /\ lv[i + 1] \in Int
       /\ \A i \in 1 .. L : /\ o[i + 1] - 1 \in 1 .. L
                            /\ new[i] = WithLev(old[o[i + 1] - 1], lv2[i + 1])
  BY <1>8 DEF AreNodes
<1>11. ASSUME NEW i \in 1 .. k
       PROVE  new[i] = old[IF i < a THEN i ELSE i + n2]
  <2>1. PICK x \in Int : x = i + 1 /\ x \in 1 .. p - 1 /\ x - 1 = i /\ i \in 1 .. L /\ i < a
    BY <1>2, <1>6, <1>9
  <2>2. o[x] = x
    BY <1>5, <2>1
  <2>3. lv2[x] = lv[x]
    BY <1>3, <2>1
  <2>4. new[i] = WithLev(old[i], old[i].lev) /\ old[i] \in NodeType
    BY <1>10, <2>1, <2>2, <2>3
  <2> QED
    BY <2>1, <2>4, NodeStays
<1>12. ASSUME NEW j \in 1 .. n2
       PROVE  new[k + j] = WithLev(old[a + j - 1], old[a + j - 1].lev + d)
  <2>1. PICK x \in Int, y \in Int, i \in Int : x = p + j - 1 /\ y = a + j - 1 /\ i = k + j
    BY <1>2
  <2>2. x \in p .. p + n2 - 1 /\ x = i + 1 /\ i \in 1 .. L /\ y \in 1 .. L /\ x + n1 = y + 1
    BY <1>2, <1>6, <1>9, <2>1
  <2>3. o[x] = y + 1 /\ (y + 1) - 1 = y
    BY <1>5, <2>2
  <2>4. lv2[x] = lv[y + 1] + d
    BY <1>3, <2>2
  <2>5. new[i] = WithLev(old[y], lv2[x])
    BY <1>10, <2>2, <2>3
  <2>6. old[y].lev = lv[y + 1]
    BY <1>10, <2>2
  <2> QED
    BY <2>1, <2>4, <2>5, <2>6
<1>13. ASSUME NEW j \in k + 1 .. L - n2
       PROVE  new[j + n2] = old[IF j < a THEN j ELSE j + n2]
  <2>1. PICK x \in Int, i \in Int : x = j + n2 + 1 /\ i = j + n2
    BY <1>2
  <2>2. x = i + 1 /\ i \in 1 .. L /\ x >= p + n2 /\ x <= N
    BY <1>2, <1>6, <1>9, <2>1
  <2>3. CASE j < a
    <3>1. x \in p + n2 .. p + n2 + n1 - 1 /\ x - n2 = j + 1 /\ x \notin p .. p + n2 - 1 /\ j \in 1 .. L
      BY <1>2, <1>6, <1>9, <2>1, <2>3
    <3>2. o[x] = j + 1 /\ (j + 1) - 1 = j
      BY <1>5, <3>1
    <3>3. lv2[x] = lv[j + 1]
      <4>1. lv2[x] = lv[x - n2] + 0 /\ x - n2 = j + 1
        BY <1>3, <3>1
      <4>2. lv[j + 1] \in Int
        BY <1>10, <3>1
      <4> QED
        BY <4>1, <4>2
    <3>4. new[i] = WithLev(old[j], old[j].lev) /\ old[j] \in NodeType
      BY <1>10, <2>2, <3>1, <3>2, <3>3
    <3> QED
      BY <2>1, <2>3, <3>4, NodeStays
  <2>4. CASE ~(j < a)
    <3>1. x \in p + n1 + n2 .. N /\ x \notin p + n2 .. p + n2 + n1 - 1 /\ x \notin p .. p + n2 - 1
      BY <1>2, <1>6, <1>9, <2>1, <2>2, <2>4
    <3>2. o[x] = i + 1 /\ (i + 1) - 1 = i
      BY <1>5, <2>2, <3>1
    <3>3. lv2[x] = lv[i + 1]
      BY <1>3, <2>2, <3>1
    <3>4. new[i] = WithLev(old[i], old[i].lev) /\ old[i] \in NodeType
      BY <1>10, <2>2, <3>2, <3>3
    <3> QED
      BY <2>1, <2>4, <3>4, NodeStays
  <2> QED
    BY <2>3, <2>4
<1>14. a \in 1 .. L /\ n2 \in 1 .. L - a + 1 /\ k \in 0 .. L - n2
  BY <1>2, <1>6, <1>9
<1>15. AreMoved(old, new, a, n2, k, d)
  BY <1>10, <1>11, <1>12, <1>13, <1>14 DEF AreMoved
<1> QED
  BY <1>7, <1>9, <1>15

\* Block 1 goes down and block 2 keeps its levels.
LEMMA SwapMovesDown ==
  ASSUME NEW m \in OneLineModes, NEW bn, NEW lv, NEW B, Told(m, bn, lv, B),
         NEW bn2, NEW lv2, NEW B2, Told(m, bn2, lv2, B2),
         NEW p \in Int, NEW n1 \in Int, NEW n2 \in Int, NEW d \in Int, n1 > 0,
         NEW bl \in Int, NEW size1 \in Int, NEW size2 \in Int,
         CanSwap(bn, lv, B, p, n1, n2, bl, size1, size2, d, 0),
         SwapsNodes(bn, B, p, n1, n2, bl, size1, size2),
         IsSwapped(m, bn, lv, B, p, n1, n2, bl, size1, size2, d, 0, bn2, lv2, B2)
  PROVE  AreMoved(NodesIn(bn, lv, B), NodesIn(bn2, lv2, B2), p - 1, n1, p - 2 + n2, d)
<1> DEFINE o == SwapOrigin(p, n1, n2)
<1>1. PICK N \in Nat : N = Len(bn) /\ N = Len(bn2)
  BY DEF Told, IsSwapped
<1>2. p > 1 /\ n2 >= 0 /\ p + n1 + n2 - 1 <= N
  BY <1>1 DEF CanSwap
<1>3. /\ \A i \in (1 .. p - 1) \cup (p + n1 + n2 .. N) : lv2[i] = lv[i]
      /\ \A i \in p .. p + n2 - 1 : lv2[i] = lv[i + n1] + 0
      /\ \A i \in p + n2 .. p + n2 + n1 - 1 : lv2[i] = lv[i - n2] + d
  BY <1>1 DEF IsSwapped
<1>4. AreRenumbered(bn, lv, B, bn2, lv2, B2, o)
  <2>1. PICK z \in Int : z = 0
    OBVIOUS
  <2>2. /\ CanSwap(bn, lv, B, p, n1, n2, bl, size1, size2, d, z)
        /\ IsSwapped(m, bn, lv, B, p, n1, n2, bl, size1, size2, d, z, bn2, lv2, B2)
    BY <2>1
  <2> QED
    BY <2>2, SwapKeepsNodes
<1>5. ASSUME NEW i \in Int
      PROVE  o[i] = IF i \in p .. p + n2 - 1 THEN i + n1
                    ELSE IF i \in p + n2 .. p + n2 + n1 - 1 THEN i - n2 ELSE i
  BY DEF SwapOrigin
<1> HIDE DEF o
<1>6. PICK L \in Nat : L = N - 1
  BY <1>2
<1>7. PICK old, new : old = NodesIn(bn, lv, B) /\ new = NodesIn(bn2, lv2, B2)
  OBVIOUS
<1>8. AreNodes(bn, lv, B, bn2, lv2, B2, o, old, new, L)
  <2>1. Len(bn2) = Len(bn) /\ L \in Int /\ L = Len(bn) - 1
    BY <1>1, <1>6
  <2> QED
    BY <1>4, <1>7, <2>1, RenumberedNodes
<1>9. PICK a \in Int, k \in Int : a = p - 1 /\ k = p - 2 + n2
  BY <1>2
<1>10. /\ old \in Seq(NodeType) /\ new \in Seq(NodeType) /\ Len(old) = L /\ Len(new) = L
       /\ \A i \in 1 .. L : old[i] \in NodeType /\ old[i].lev = lv[i + 1] /\ lv[i + 1] \in Int
       /\ \A i \in 1 .. L : /\ o[i + 1] - 1 \in 1 .. L
                            /\ new[i] = WithLev(old[o[i + 1] - 1], lv2[i + 1])
  BY <1>8 DEF AreNodes
<1>11. ASSUME NEW i \in 1 .. k
       PROVE  new[i] = old[IF i < a THEN i ELSE i + n1]
  <2>0. PICK x \in Int : x = i + 1 /\ i \in 1 .. L
    BY <1>2, <1>6, <1>9
  <2>1. CASE i < a
    <3>1. x \in 1 .. p - 1 /\ x - 1 = i
      BY <1>9, <2>0, <2>1
    <3>2. o[x] = x
      <4>1. x \notin p .. p + n2 - 1 /\ x \notin p + n2 .. p + n2 + n1 - 1
        BY <1>2, <3>1
      <4> QED
        BY <1>5, <4>1
    <3>3. lv2[x] = lv[x]
      BY <1>3, <3>1
    <3>4. new[i] = WithLev(old[i], old[i].lev) /\ old[i] \in NodeType
      BY <1>10, <2>0, <3>1, <3>2, <3>3
    <3> QED
      BY <2>1, <3>4, NodeStays
  <2>2. CASE ~(i < a)
    <3>0. PICK y \in Int : y = i + n1
      OBVIOUS
    <3>1. x \in p .. p + n2 - 1 /\ x + n1 = y + 1 /\ y \in 1 .. L
      BY <1>2, <1>6, <1>9, <2>0, <2>2, <3>0
    <3>2. o[x] = y + 1 /\ (y + 1) - 1 = y
      BY <1>5, <3>1
    <3>3. lv2[x] = lv[y + 1]
      <4>1. lv2[x] = lv[x + n1] + 0 /\ x + n1 = y + 1
        BY <1>3, <3>1
      <4>2. lv[y + 1] \in Int
        BY <1>10, <3>1
      <4> QED
        BY <4>1, <4>2
    <3>4. new[i] = WithLev(old[y], old[y].lev) /\ old[y] \in NodeType
      BY <1>10, <2>0, <3>1, <3>2, <3>3
    <3> QED
      BY <2>2, <3>0, <3>4, NodeStays
  <2> QED
    BY <2>1, <2>2
<1>12. ASSUME NEW j \in 1 .. n1
       PROVE  new[k + j] = WithLev(old[a + j - 1], old[a + j - 1].lev + d)
  <2>1. PICK x \in Int, y \in Int, i \in Int : x = p - 1 + n2 + j /\ y = a + j - 1 /\ i = k + j
    BY <1>2
  <2>2. /\ x \in p + n2 .. p + n2 + n1 - 1 /\ x \notin p .. p + n2 - 1
        /\ x = i + 1 /\ i \in 1 .. L /\ y \in 1 .. L /\ x - n2 = y + 1
    BY <1>2, <1>6, <1>9, <2>1
  <2>3. o[x] = y + 1 /\ (y + 1) - 1 = y
    BY <1>5, <2>2
  <2>4. lv2[x] = lv[y + 1] + d
    BY <1>3, <2>2
  <2>5. new[i] = WithLev(old[y], lv2[x])
    BY <1>10, <2>2, <2>3
  <2>6. old[y].lev = lv[y + 1]
    BY <1>10, <2>2
  <2> QED
    BY <2>1, <2>4, <2>5, <2>6
<1>13. ASSUME NEW j \in k + 1 .. L - n1
       PROVE  new[j + n1] = old[IF j < a THEN j ELSE j + n1]
  <2>1. PICK x \in Int, i \in Int : x = j + n1 + 1 /\ i = j + n1
    BY <1>2
  <2>2. x = i + 1 /\ i \in 1 .. L /\ ~(j < a)
    BY <1>2, <1>6, <1>9, <2>1
  <2>3. x \in p + n1 + n2 .. N /\ x \notin p + n2 .. p + n2 + n1 - 1 /\ x \notin p .. p + n2 - 1
    BY <1>2, <1>6, <1>9, <2>1, <2>2
  <2>4. o[x] = i + 1 /\ (i + 1) - 1 = i
    BY <1>5, <2>2, <2>3
  <2>5. lv2[x] = lv[i + 1]
    BY <1>3, <2>2, <2>3
  <2>6. new[i] = WithLev(old[i], old[i].lev) /\ old[i] \in NodeType
    BY <1>10, <2>2, <2>4, <2>5
  <2> QED
    BY <2>1, <2>2, <2>6, NodeStays
<1>14. a \in 1 .. L /\ n1 \in 1 .. L - a + 1 /\ k \in 0 .. L - n1
  BY <1>2, <1>6, <1>9
<1>15. AreMoved(old, new, a, n1, k, d)
  BY <1>10, <1>11, <1>12, <1>13, <1>14 DEF AreMoved
<1> QED
  BY <1>7, <1>9, <1>15

\* The end of an operation: Tree V with line sn selected.
Shows(V, sn) ==
  /\ Tree' = Marked(V, sn) /\ snLn' = sn /\ vimSnLn' = sn
  /\ mode' = mode /\ stale' = stale /\ (hookOK => hookOK')

\* Two blocks of nodes change places.
SwapsTo(p, n1, n2, d1, d2) ==
  \E bl \in Int, size1 \in Int, size2 \in Int :
    /\ CanSwap(bnodes, levels, Body, p, n1, n2, bl, size1, size2, d1, d2)
    /\ SwapsNodes(bnodes, Body, p, n1, n2, bl, size1, size2)
    /\ IsSwapped(mode, bnodes, levels, Body, p, n1, n2, bl, size1, size2, d1, d2,
                 bnodes', levels', Body')

\* How an operation ends.
LEMMA DoneShows ==
  ASSUME NEW S, NEW V, NEW sn, S.ok, Done(S, V, sn)
  PROVE  Shows(V, sn) /\ Body' = S.Body /\ bnodes' = S.bnodes /\ levels' = S.levels
<1>1. hookOK' = (hookOK /\ S.ok)
  BY DEF Done
<1>2. hookOK => hookOK'
  BY <1>1
<1> QED
  BY <1>2, Zenon DEF Done, Shows

\* The lines of a region.
LEMMA RegionStarts ==
  ASSUME NEW m, NEW bn, NEW lv, NEW B, Told(m, bn, lv, B), NEW p \in Int, NEW r \in Int,
         p > 1, p <= r, r <= Len(bn)
  PROVE  StartIn(bn, B, p) = bn[p] /\ StartIn(bn, B, r + 1) = EndIn(bn, B, r) + 1
         /\ bn[p] \in Int /\ EndIn(bn, B, r) \in Int
<1>1. PICK N \in Nat : N = Len(bn)
  BY StartsAre
<1>2. p \in 1 .. Len(bn) /\ r \in 1 .. Len(bn)
  BY <1>1
<1>3. StartIn(bn, B, p) = bn[p] /\ StartIn(bn, B, p) \in Int
  BY <1>2, EndIsStart
<1>4. EndIn(bn, B, r) = StartIn(bn, B, r + 1) - 1 /\ StartIn(bn, B, r + 1) \in Int
  BY <1>2, EndIsStart
<1> QED
  BY <1>3, <1>4

\* voom_OopUp puts the region before a line above it.
LEMMA UpSwaps ==
  ASSUME OutlineTells, NEW ln1 \in 2 .. Len(levels), NEW ln2 \in Ends(ln1), ln1 >= 3,
         NEW up \in LineAbove(ln1), NEW up2 \in LineAbove(up), voom_OopUp(ln1, ln2, up, up2),
         NEW levNew, levNew = IF levels[up2] + 1 = levels[up] THEN levels[up] ELSE levels[up2],
         NEW d, d = levNew - levels[ln1], NEW U, U = Unmarked(Tree, snLn)
  PROVE  /\ up \in Int /\ up > 1 /\ up < ln1 /\ up2 \in Int /\ up2 >= 1 /\ up2 < up /\ d \in Int
         /\ SwapsTo(up, ln1 - up, ln2 + 1 - ln1, 0, d) /\ clip' = clip
         /\ Shows(UpIn(U, up, ln1, ln2, RegionLines(d, Slice(U, ln1, ln2), levels', up)), up)
<1> DEFINE bp == bnodes[up]
           bq == bnodes[ln1]
           e == EndOf(ln2)
           t == Releveled(ln1, ln2, d)
           B2 == UpIn(Body, bp, bq, e, t)
           bn2 == UpBnodes(bnodes, up, ln1, ln2, bp, bq, e)
           lv2 == UpLevels(levels, up, ln1, ln2, d)
           V == UpIn(U, up, ln1, ln2, RegionLines(d, Slice(U, ln1, ln2), lv2, up))
           S0 == [Body |-> B2, bnodes |-> bn2, levels |-> lv2, ok |-> TRUE, style |-> style]
<1>1. Tells(mode, Body, bnodes, levels, Tree, snLn) /\ mode \in OneLineModes
      /\ Told(mode, bnodes, levels, Body)
  BY DEF OutlineTells, Tells
<1>2. /\ ln1 \in Int /\ ln2 \in Int /\ ln1 > 1 /\ ln1 <= ln2 /\ ln2 <= Len(levels)
      /\ Len(levels) \in Nat /\ Len(bnodes) = Len(levels)
      /\ ln1 \in 2 .. Len(bnodes) /\ ln2 \in ln1 .. Len(bnodes)
      /\ bq \in Int /\ e \in Int /\ e = EndIn(bnodes, Body, ln2)
      /\ levels[ln1] \in Int
      /\ \A x \in Int : levels[ln1] + x > 0 => \A i \in ln1 .. ln2 : levels[i] + x > 0
  BY <1>1, RegionIs, Zenon
<1>3. up \in Int /\ up > 1 /\ up < ln1 /\ up2 \in Int /\ up2 >= 1 /\ up2 < up
  <2>1. up \in Int /\ up >= 1 /\ up < ln1 /\ up > 1
    BY <1>2, LineAboveIs
  <2> QED
    BY <2>1, LineAboveIs
<1>4. levels[up] \in Int /\ levels[up] > 0 /\ levels[up2] \in Int /\ levels[up2] > 0
  <2>1. up \in 1 .. Len(levels) /\ up2 \in 1 .. Len(levels)
    BY <1>2, <1>3
  <2> QED
    BY <1>1, <2>1, LevelsArePositive
<1>5. d \in Int /\ levels[ln1] + d > 0
  <2>1. levNew \in Int /\ levNew > 0
    BY <1>4
  <2>2. PICK x \in Int, y \in Int : x = levNew /\ y = levels[ln1] /\ x > 0
    BY <1>2, <2>1
  <2>3. d = x - y
    BY <2>2
  <2>4. y + (x - y) > 0
    BY <2>2
  <2> QED
    BY <2>2, <2>3, <2>4
<1>6. bp \in Int
  <2>1. up \in 2 .. Len(bnodes)
    BY <1>2, <1>3
  <2> QED
    BY <1>1, <2>1, NodeBegins
<1>7. /\ \E S \in {Hook(S0, "up", d, bp, up, bp + (e - bq + 1) - 1, up + (ln2 - ln1 + 1) - 1,
                        bq - 1 + (e - bq + 1), ln1 - 1 + (ln2 - ln1 + 1))} :
           Done(S, UpIn(U, up, ln1, ln2, RegionLines(d, Slice(U, ln1, ln2), S.levels, up)), up)
      /\ clip' = clip
  BY Zenon DEF voom_OopUp, UpIn, UpBnodes, UpLevels
<1> HIDE DEF t
<1>8. Done(S0, V, up)
  <2> HIDE DEF bp, bq, e, B2, bn2, lv2
  <2>1. PICK S \in {Hook(S0, "up", d, bp, up, bp + (e - bq + 1) - 1, up + (ln2 - ln1 + 1) - 1,
                         bq - 1 + (e - bq + 1), ln1 - 1 + (ln2 - ln1 + 1))} :
          Done(S, UpIn(U, up, ln1, ln2, RegionLines(d, Slice(U, ln1, ln2), S.levels, up)), up)
    BY <1>7
  <2>2. S = S0
    BY <1>1, <2>1, HookIs, SMT
  <2>3. S0.levels = lv2
    OBVIOUS
  <2> QED
    BY <2>1, <2>2, <2>3, Zenon
<1>9. IsRegion(mode, bnodes, Body, ln1, ln2, d, t)
  BY <1>1, <1>2, <1>5, ReleveledIs DEF t
<1>10. CanGoUp(mode, bnodes, levels, Body, up, ln1, ln2, d, t, bp, bq, e)
  BY <1>2, <1>3, <1>5, <1>9 DEF CanGoUp
<1>11. /\ CanSwap(bnodes, levels, Body, up, ln1 - up, ln2 + 1 - ln1, bp, bq - bp, e + 1 - bq, 0, d)
       /\ IsSwapped(mode, bnodes, levels, Body, up, ln1 - up, ln2 + 1 - ln1, bp, bq - bp,
                    e + 1 - bq, 0, d, bn2, lv2, B2)
  BY <1>1, <1>2, <1>3, <1>5, <1>6, <1>10, UpIsSwap, Zenon
<1>12. SwapsNodes(bnodes, Body, up, ln1 - up, ln2 + 1 - ln1, bp, bq - bp, e + 1 - bq)
  <2> HIDE DEF bp, bq, e
  <2>1. up <= up /\ up <= Len(bnodes) /\ ln1 <= Len(bnodes) /\ ln2 <= Len(bnodes)
    BY <1>2, <1>3
  <2>2. StartIn(bnodes, Body, up) = bp
    BY <1>1, <1>3, <2>1, RegionStarts DEF bp
  <2>3. StartIn(bnodes, Body, ln1) = bq /\ StartIn(bnodes, Body, ln2 + 1) = e + 1
    BY <1>1, <1>2, <2>1, RegionStarts DEF bq
  <2>4. up + (ln1 - up) = ln1 /\ up + (ln1 - up) + (ln2 + 1 - ln1) = ln2 + 1
        /\ bp + (bq - bp) = bq /\ bp + (bq - bp) + (e + 1 - bq) = e + 1
    BY <1>2, <1>3, <1>6
  <2> QED
    BY <2>2, <2>3, <2>4 DEF SwapsNodes
<1> HIDE DEF bp, bq, e, B2, bn2, lv2, V
<1>13. Shows(V, up) /\ Body' = B2 /\ bnodes' = bn2 /\ levels' = lv2
  <2>1. S0.Body = B2 /\ S0.bnodes = bn2 /\ S0.levels = lv2 /\ S0.ok
    OBVIOUS
  <2> HIDE DEF S0
  <2> QED
    BY <1>8, <2>1, DoneShows, Zenon
<1>14. SwapsTo(up, ln1 - up, ln2 + 1 - ln1, 0, d)
  <2>1. bq - bp \in Int /\ e + 1 - bq \in Int
    BY <1>2, <1>6
  <2> QED
    BY <1>6, <1>11, <1>12, <1>13, <2>1, Zenon DEF SwapsTo
<1> QED
  BY <1>3, <1>5, <1>7, <1>13, <1>14, Zenon DEF V

\* The outline still tells the headlines after it.
LEMMA SwapTells ==
  ASSUME OutlineTells, NEW p \in Int, NEW n1 \in Int, NEW n2 \in Int, NEW d1 \in Int, NEW d2 \in Int,
         SwapsTo(p, n1, n2, d1, d2),
         NEW V, IsBare(V), IsTreeRearranged(Unmarked(Tree, snLn), V, levels', SwapOrigin(p, n1, n2)),
         NEW sn \in 1 .. Len(V), Shows(V, sn)
  PROVE  OutlineTells'
<1>1. PICK bl \in Int, size1 \in Int, size2 \in Int :
        /\ CanSwap(bnodes, levels, Body, p, n1, n2, bl, size1, size2, d1, d2)
        /\ IsSwapped(mode, bnodes, levels, Body, p, n1, n2, bl, size1, size2, d1, d2,
                     bnodes', levels', Body')
  BY DEF SwapsTo
<1>2. Tells(mode, Body, bnodes, levels, Tree, snLn) /\ mode \in OneLineModes
      /\ Told(mode, bnodes, levels, Body)
  BY DEF OutlineTells, Tells
<1>3. PICK bn2, lv2, B2 : bn2 = bnodes' /\ lv2 = levels' /\ B2 = Body'
  OBVIOUS
<1>4. IsRearranged(mode, bnodes, levels, Body, bn2, lv2, B2, SwapOrigin(p, n1, n2),
                   SwapDelta(p, n1, n2, d1, d2))
  BY <1>1, <1>2, <1>3, SwappedIsRearranged, Zenon
<1>5. Tells(mode, B2, bn2, lv2, Marked(V, sn), sn)
  BY <1>2, <1>3, <1>4, MoveTells, Zenon
<1> QED
  BY <1>3, <1>5, Zenon DEF Shows, OutlineTells

\* voom_OopUp puts the region before node p.
LEMMA UpTells2 ==
  ASSUME OutlineTells, NEW ln1 \in 2 .. Len(levels), NEW ln2 \in Ends(ln1), ln1 >= 3,
         NEW up \in LineAbove(ln1), NEW up2 \in LineAbove(up), voom_OopUp(ln1, ln2, up, up2)
  PROVE  OutlineTells'
<1> DEFINE levNew == IF levels[up2] + 1 = levels[up] THEN levels[up] ELSE levels[up2]
<1>1. PICK d, U : d = levNew - levels[ln1] /\ U = Unmarked(Tree, snLn)
  OBVIOUS
<1> DEFINE V == UpIn(U, up, ln1, ln2, RegionLines(d, Slice(U, ln1, ln2), levels', up))
<1>2. /\ up \in Int /\ up > 1 /\ up < ln1 /\ d \in Int
      /\ SwapsTo(up, ln1 - up, ln2 + 1 - ln1, 0, d)
      /\ Shows(V, up)
  BY <1>1, UpSwaps, Zenon
<1>3. Tells(mode, Body, bnodes, levels, Tree, snLn) /\ mode \in OneLineModes
      /\ Told(mode, bnodes, levels, Body)
  BY DEF OutlineTells, Tells
<1>4. /\ ln1 \in Int /\ ln2 \in Int /\ ln1 > 1 /\ ln1 <= ln2 /\ ln2 <= Len(levels)
      /\ Len(levels) \in Nat /\ Len(bnodes) = Len(levels) /\ Len(U) = Len(levels)
      /\ IsBare(U) /\ Shown(U, bnodes, levels, Body)
  BY <1>1, <1>3, RegionIs, Zenon
<1>5. PICK bl \in Int, size1 \in Int, size2 \in Int :
        IsSwapped(mode, bnodes, levels, Body, up, ln1 - up, ln2 + 1 - ln1, bl, size1, size2, 0, d,
                  bnodes', levels', Body')
  BY <1>2 DEF SwapsTo
<1>6. CanTreeUp(U, up, ln1, ln2)
  BY <1>2, <1>4 DEF CanTreeUp
<1>7. IsBare(V) /\ IsTreeRearranged(U, V, levels', SwapOrigin(up, ln1 - up, ln2 + 1 - ln1))
  BY <1>2, <1>3, <1>4, <1>5, <1>6, TreeUpIs, Zenon
<1>8. up \in 1 .. Len(V)
  <2>1. Len(V) = Len(levels') /\ Len(levels') = Len(bnodes)
    BY <1>5, <1>7 DEF IsTreeRearranged, IsSwapped
  <2>2. up \in 1 .. Len(bnodes)
    BY <1>2, <1>4
  <2> QED
    BY <2>1, <2>2, Zenon
<1>9. ln1 - up \in Int /\ ln2 + 1 - ln1 \in Int /\ 0 \in Int
  BY <1>2, <1>4
<1> HIDE DEF V
<1> QED
  BY <1>1, <1>2, <1>7, <1>8, <1>9, SwapTells, Zenon

\* Where the region goes when it moves down, and the level it gets there.
LowerLine(ln2, folded) ==
  IF nodeHasChildren(levels, ln2 + 1) /\ folded THEN BranchEnd(levels, ln2 + 1) ELSE ln2 + 1
LowerLevel(ln2, folded) ==
  IF nodeHasChildren(levels, ln2 + 1) /\ ~folded THEN levels[ln2 + 1] + 1 ELSE levels[ln2 + 1]

\* voom_OopDown puts the region behind line r.
LEMMA DownSwaps ==
  ASSUME OutlineTells, NEW ln1 \in 2 .. Len(levels), NEW ln2 \in Ends(ln1),
         NEW folded \in BOOLEAN, voom_OopDown(ln1, ln2, folded),
         NEW r, r = LowerLine(ln2, folded), NEW d, d = LowerLevel(ln2, folded) - levels[ln1],
         NEW U, U = Unmarked(Tree, snLn), NEW sn, sn = r + 1 - (ln2 - ln1 + 1)
  PROVE  /\ ~stale /\ ln2 < Len(levels) /\ r \in Int /\ ln2 < r /\ r <= Len(levels) /\ d \in Int
         /\ SwapsTo(ln1, ln2 + 1 - ln1, r - ln2, d, 0) /\ clip' = clip
         /\ Shows(DownIn(U, ln1, ln2, r, RegionLines(d, Slice(U, ln1, ln2), levels', sn)), sn)
<1> DEFINE child == nodeHasChildren(levels, ln2 + 1)
           bp == bnodes[ln1]
           e1 == EndOf(ln2)
           e2 == EndOf(r)
           t == Releveled(ln1, ln2, d)
           B2 == DownIn(Body, bp, e1, e2, t)
           bn2 == DownBnodes(bnodes, ln1, ln2, r, bp, e1, e2)
           lv2 == DownLevels(levels, ln1, ln2, r, d)
           V == DownIn(U, ln1, ln2, r, RegionLines(d, Slice(U, ln1, ln2), lv2, sn))
           S0 == [Body |-> B2, bnodes |-> bn2, levels |-> lv2, ok |-> TRUE, style |-> style]
<1>1. Tells(mode, Body, bnodes, levels, Tree, snLn) /\ mode \in OneLineModes
      /\ Told(mode, bnodes, levels, Body)
  BY DEF OutlineTells, Tells
<1>2. /\ ln1 \in Int /\ ln2 \in Int /\ ln1 > 1 /\ ln1 <= ln2 /\ ln2 <= Len(levels)
      /\ Len(levels) \in Nat /\ Len(bnodes) = Len(levels)
      /\ ln1 \in 2 .. Len(bnodes) /\ ln2 \in ln1 .. Len(bnodes)
      /\ bp \in Int /\ e1 \in Int /\ e1 = EndIn(bnodes, Body, ln2)
      /\ levels[ln1] \in Int
      /\ \A x \in Int : levels[ln1] + x > 0 => \A i \in ln1 .. ln2 : levels[i] + x > 0
  BY <1>1, RegionIs, Zenon
<1>3. ~stale /\ ln2 < Len(levels) /\ ln2 + 1 \in 1 .. Len(levels)
  <2>1. ~stale /\ ln2 < Len(levels)
    BY DEF voom_OopDown
  <2> QED
    BY <1>2, <2>1
<1>4. levels \in Seq(Positive) /\ levels[ln2 + 1] \in Int /\ levels[ln2 + 1] > 0
  BY <1>1, <1>3, LevelsArePositive
<1>5. r \in Int /\ ln2 < r /\ r <= Len(levels)
  <2>1. BranchEnd(levels, ln2 + 1) \in ln2 + 1 .. Len(levels)
    BY <1>3, <1>4, BranchEndIs
  <2>2. r = BranchEnd(levels, ln2 + 1) \/ r = ln2 + 1
    BY Zenon DEF LowerLine
  <2> QED
    BY <1>2, <1>3, <2>1, <2>2
<1>6. d \in Int /\ levels[ln1] + d > 0
  <2>1. PICK v : v = LowerLevel(ln2, folded)
    OBVIOUS
  <2>2. v = levels[ln2 + 1] + 1 \/ v = levels[ln2 + 1]
    BY <2>1, Zenon DEF LowerLevel
  <2>3. v \in Int /\ v > 0
    BY <1>4, <2>2
  <2>4. PICK x \in Int, y \in Int : x = v /\ y = levels[ln1] /\ x > 0
    BY <1>2, <2>3
  <2>5. d = x - y
    BY <2>1, <2>4
  <2>6. y + (x - y) > 0
    BY <2>4
  <2> QED
    BY <2>4, <2>5, <2>6
<1>7. e2 = EndIn(bnodes, Body, r) /\ e2 \in Int
  <2>1. r \in 2 .. Len(bnodes) /\ r \in r .. Len(bnodes)
    BY <1>2, <1>5
  <2>2. EndIn(bnodes, Body, r) \in Int
    BY <1>1, <2>1, RegionEnds
  <2> QED
    BY <2>2, EndOfIs
<1>8. /\ \E blnShow \in {S0.bnodes[sn]} :
           \E S \in {Hook(S0, "down", d, blnShow, sn, blnShow + (e1 - bp + 1) - 1,
                          sn + (ln2 - ln1 + 1) - 1, bp - 1, ln1 - 1)} :
             Done(S, DownIn(U, ln1, ln2, r, RegionLines(d, Slice(U, ln1, ln2), S.levels, sn)), sn)
      /\ clip' = clip
  <2> DEFINE rr == IF child /\ folded THEN BranchEnd(levels, ln2 + 1) ELSE ln2 + 1
             dd == (IF child /\ ~folded THEN levels[ln2 + 1] + 1 ELSE levels[ln2 + 1]) - levels[ln1]
             ss == rr + 1 - (ln2 - ln1 + 1)
             UU == Unmarked(Tree, snLn)
             TT == [Body |-> DownIn(Body, bp, e1, EndOf(rr), Releveled(ln1, ln2, dd)),
                    bnodes |-> DownBnodes(bnodes, ln1, ln2, rr, bp, e1, EndOf(rr)),
                    levels |-> DownLevels(levels, ln1, ln2, rr, dd), ok |-> TRUE, style |-> style]
  <2>1. /\ \E blnShow \in {TT.bnodes[ss]} :
             \E S \in {Hook(TT, "down", dd, blnShow, ss, blnShow + (e1 - bp + 1) - 1,
                            ss + (ln2 - ln1 + 1) - 1, bp - 1, ln1 - 1)} :
               Done(S, DownIn(UU, ln1, ln2, rr, RegionLines(dd, Slice(UU, ln1, ln2), S.levels, ss)), ss)
        /\ clip' = clip
    BY Zenon DEF voom_OopDown, DownIn, DownBnodes, DownLevels
  <2>2. rr = r
    BY Zenon DEF LowerLine
  <2>3. dd = d
    BY Zenon DEF LowerLevel
  <2>4. ss = sn /\ UU = U
    BY <2>2, Zenon
  <2>5. TT = S0
    <3> HIDE DEF rr, dd
    <3> QED
      BY <2>2, <2>3, Zenon
  <2> HIDE DEF rr, dd, ss, UU, TT, S0, bp, e1
  <2> QED
    BY <2>1, <2>2, <2>3, <2>4, <2>5
<1> HIDE DEF t
<1>9. Done(S0, V, sn)
  <2> HIDE DEF bp, e1, e2, B2, bn2, lv2
  <2>1. PICK blnShow : \E S \in {Hook(S0, "down", d, blnShow, sn, blnShow + (e1 - bp + 1) - 1,
                          sn + (ln2 - ln1 + 1) - 1, bp - 1, ln1 - 1)} :
             Done(S, DownIn(U, ln1, ln2, r, RegionLines(d, Slice(U, ln1, ln2), S.levels, sn)), sn)
    BY <1>8, Zenon
  <2>2. PICK S \in {Hook(S0, "down", d, blnShow, sn, blnShow + (e1 - bp + 1) - 1,
                          sn + (ln2 - ln1 + 1) - 1, bp - 1, ln1 - 1)} :
             Done(S, DownIn(U, ln1, ln2, r, RegionLines(d, Slice(U, ln1, ln2), S.levels, sn)), sn)
    BY <2>1
  <2>3. S = S0
    BY <1>1, <2>2, HookIs, SMT
  <2>4. S0.levels = lv2
    OBVIOUS
  <2> QED
    BY <2>2, <2>3, <2>4, Zenon
<1>10. IsRegion(mode, bnodes, Body, ln1, ln2, d, t)
  BY <1>1, <1>2, <1>6, ReleveledIs DEF t
<1>11. CanGoDown(mode, bnodes, levels, Body, ln1, ln2, r, d, t, bp, e1, e2)
  BY <1>2, <1>5, <1>6, <1>7, <1>10 DEF CanGoDown
<1>12. /\ CanSwap(bnodes, levels, Body, ln1, ln2 + 1 - ln1, r - ln2, bp, e1 + 1 - bp, e2 - e1, d, 0)
       /\ IsSwapped(mode, bnodes, levels, Body, ln1, ln2 + 1 - ln1, r - ln2, bp, e1 + 1 - bp,
                    e2 - e1, d, 0, bn2, lv2, B2)
  BY <1>1, <1>2, <1>5, <1>6, <1>7, <1>11, DownIsSwap, Zenon
<1>13. SwapsNodes(bnodes, Body, ln1, ln2 + 1 - ln1, r - ln2, bp, e1 + 1 - bp, e2 - e1)
  <2> HIDE DEF bp, e1, e2
  <2>1. ln1 <= Len(bnodes) /\ ln2 <= Len(bnodes) /\ r <= Len(bnodes) /\ r > 1 /\ r <= r
    BY <1>2, <1>5
  <2>2. StartIn(bnodes, Body, ln1) = bp /\ StartIn(bnodes, Body, ln2 + 1) = e1 + 1
    BY <1>1, <1>2, <2>1, RegionStarts DEF bp
  <2>3. StartIn(bnodes, Body, r + 1) = e2 + 1
    BY <1>1, <1>5, <1>7, <2>1, RegionStarts
  <2>4. ln1 + (ln2 + 1 - ln1) = ln2 + 1 /\ ln1 + (ln2 + 1 - ln1) + (r - ln2) = r + 1
    BY <1>2, <1>5
  <2>5. bp + (e1 + 1 - bp) = e1 + 1 /\ bp + (e1 + 1 - bp) + (e2 - e1) = e2 + 1
    BY <1>2, <1>7
  <2> QED
    BY <2>2, <2>3, <2>4, <2>5 DEF SwapsNodes
<1> HIDE DEF bp, e1, e2, B2, bn2, lv2, V
<1>14. Shows(V, sn) /\ Body' = B2 /\ bnodes' = bn2 /\ levels' = lv2
  <2>1. S0.Body = B2 /\ S0.bnodes = bn2 /\ S0.levels = lv2 /\ S0.ok
    OBVIOUS
  <2> HIDE DEF S0
  <2> QED
    BY <1>9, <2>1, DoneShows, Zenon
<1>15. SwapsTo(ln1, ln2 + 1 - ln1, r - ln2, d, 0)
  <2>1. e1 + 1 - bp \in Int /\ e2 - e1 \in Int
    BY <1>2, <1>7
  <2> QED
    BY <1>2, <1>12, <1>13, <1>14, <2>1, Zenon DEF SwapsTo
<1> QED
  BY <1>3, <1>5, <1>6, <1>8, <1>14, <1>15, Zenon DEF V

\* voom_OopRight and voom_OopLeft swap the region with no node.
LEMMA PromoteSwaps ==
  ASSUME OutlineTells, NEW ln1 \in 2 .. Len(levels), NEW ln2 \in Ends(ln1), NEW oop,
         NEW d \in Int, levels[ln1] + d > 0, Promote(ln1, ln2, oop, d), NEW U, U = Unmarked(Tree, snLn)
  PROVE  /\ SwapsTo(ln1, 0, ln2 + 1 - ln1, 0, d)
         /\ Shows(PutAfter(CutOut(U, ln1, ln2), ln1 - 1,
                           setLevTreeLines(Slice(U, ln1, ln2), levels', ln1)), ln1)
<1> DEFINE bp == bnodes[ln1]
           e == EndOf(ln2)
           t == Releveled(ln1, ln2, d)
           B2 == PromotedIn(Body, bp, e, t)
           lv2 == Shift(levels, ln1, ln2, d)
           V == PutAfter(CutOut(U, ln1, ln2), ln1 - 1, setLevTreeLines(Slice(U, ln1, ln2), lv2, ln1))
           S0 == [Body |-> B2, bnodes |-> bnodes, levels |-> lv2, ok |-> TRUE, style |-> style]
<1>1. Tells(mode, Body, bnodes, levels, Tree, snLn) /\ mode \in OneLineModes
      /\ Told(mode, bnodes, levels, Body)
  BY DEF OutlineTells, Tells
<1>2. /\ ln1 \in Int /\ ln2 \in Int /\ ln1 > 1 /\ ln1 <= ln2 /\ ln2 <= Len(levels)
      /\ Len(levels) \in Nat /\ Len(bnodes) = Len(levels)
      /\ ln1 \in 2 .. Len(bnodes) /\ ln2 \in ln1 .. Len(bnodes)
      /\ bp \in Int /\ e \in Int /\ e = EndIn(bnodes, Body, ln2)
      /\ \A i \in ln1 .. ln2 : levels[i] + d > 0
  BY <1>1, RegionIs, Zenon
<1>3. \E S \in {Hook(S0, oop, d, bp, ln1, e, ln2, 0, 0)} :
        Done(S, PutAfter(CutOut(U, ln1, ln2), ln1 - 1,
                         setLevTreeLines(Slice(U, ln1, ln2), S.levels, ln1)), ln1)
  BY Zenon DEF Promote, PromotedIn
<1> HIDE DEF t
<1>4. Done(S0, V, ln1)
  <2> HIDE DEF bp, e, B2, lv2
  <2>1. PICK S \in {Hook(S0, oop, d, bp, ln1, e, ln2, 0, 0)} :
          Done(S, PutAfter(CutOut(U, ln1, ln2), ln1 - 1,
                           setLevTreeLines(Slice(U, ln1, ln2), S.levels, ln1)), ln1)
    BY <1>3
  <2>2. S = S0
    BY <1>1, <2>1, HookIs, SMT
  <2>3. S0.levels = lv2
    OBVIOUS
  <2> QED
    BY <2>1, <2>2, <2>3, Zenon
<1>5. IsRegion(mode, bnodes, Body, ln1, ln2, d, t)
  BY <1>1, <1>2, ReleveledIs DEF t
<1>6. CanPromote(mode, bnodes, levels, Body, ln1, ln2, d, t, bp, e)
  BY <1>2, <1>5 DEF CanPromote
<1>7. /\ CanSwap(bnodes, levels, Body, ln1, 0, ln2 + 1 - ln1, bp, 0, e + 1 - bp, 0, d)
      /\ IsSwapped(mode, bnodes, levels, Body, ln1, 0, ln2 + 1 - ln1, bp, 0, e + 1 - bp, 0, d,
                   bnodes, lv2, B2)
  BY <1>1, <1>2, <1>6, PromotedIsSwap, Zenon
<1>8. SwapsNodes(bnodes, Body, ln1, 0, ln2 + 1 - ln1, bp, 0, e + 1 - bp)
  <2> HIDE DEF bp, e
  <2>1. ln1 <= Len(bnodes) /\ ln2 <= Len(bnodes)
    BY <1>2
  <2>2. StartIn(bnodes, Body, ln1) = bp /\ StartIn(bnodes, Body, ln2 + 1) = e + 1
    BY <1>1, <1>2, <2>1, RegionStarts DEF bp
  <2>3. ln1 + 0 = ln1 /\ ln1 + 0 + (ln2 + 1 - ln1) = ln2 + 1
        /\ bp + 0 = bp /\ bp + 0 + (e + 1 - bp) = e + 1
    BY <1>2
  <2> QED
    BY <2>2, <2>3 DEF SwapsNodes
<1> HIDE DEF bp, e, B2, lv2, V
<1>9. Shows(V, ln1) /\ Body' = B2 /\ bnodes' = bnodes /\ levels' = lv2
  <2>1. S0.Body = B2 /\ S0.bnodes = bnodes /\ S0.levels = lv2 /\ S0.ok
    OBVIOUS
  <2> HIDE DEF S0
  <2> QED
    BY <1>4, <2>1, DoneShows, Zenon
<1>10. SwapsTo(ln1, 0, ln2 + 1 - ln1, 0, d)
  <2>1. 0 \in Int /\ e + 1 - bp \in Int
    BY <1>2
  <2> QED
    BY <1>2, <1>7, <1>8, <1>9, <2>1, Zenon DEF SwapsTo
<1> QED
  BY <1>9, <1>10, Zenon DEF V

\* The nodes p .. p+n-1 leave the outline.
TrimsTo(p, n) ==
  \E bl \in Int, size \in Int :
    /\ CanTrim(bnodes, Body, p, n, bl, size)
    /\ TrimsNodes(bnodes, Body, p, n, bl, size, Body')
    /\ IsTrimmed(bnodes, levels, Body, p, n, bl, size, bnodes', levels', Body')

\* voom_OopCut takes the region into the clipboard.
LEMMA CutTrims ==
  ASSUME OutlineTells, NEW ln1 \in 2 .. Len(levels), NEW ln2 \in Ends(ln1),
         NEW up \in LineAbove(ln1), voom_OopCut(ln1, ln2, up)
  PROVE  /\ ~stale /\ TrimsTo(ln1, ln2 + 1 - ln1) /\ Shows(CutOut(Unmarked(Tree, snLn), ln1, ln2), up)
         /\ clip' = Slice(Body, bnodes[ln1], EndIn(bnodes, Body, ln2))
<1> DEFINE bp == bnodes[ln1]
           e == EndOf(ln2)
           B2 == CutBody(Body, bp, e)
           bn2 == CutBnodes(bnodes, ln1, ln2, bp, e)
           lv2 == CutOut(levels, ln1, ln2)
           V == CutOut(Unmarked(Tree, snLn), ln1, ln2)
           S0 == [Body |-> B2, bnodes |-> bn2, levels |-> lv2, ok |-> TRUE, style |-> style]
<1>1. Tells(mode, Body, bnodes, levels, Tree, snLn) /\ mode \in OneLineModes
      /\ Told(mode, bnodes, levels, Body)
  BY DEF OutlineTells, Tells
<1>2. /\ ln1 \in Int /\ ln2 \in Int /\ ln1 > 1 /\ ln1 <= ln2 /\ ln2 <= Len(levels)
      /\ Len(levels) \in Nat /\ Len(bnodes) = Len(levels)
      /\ bp \in Int /\ e \in Int /\ e = EndIn(bnodes, Body, ln2)
  BY <1>1, RegionIs, Zenon
<1>3. /\ ~stale /\ clip' = Slice(Body, bp, e)
      /\ \E S \in {Hook(S0, "cut", 0, 0, 0, 0, 0, bp - 1, ln1 - 1)} : Done(S, V, up)
  BY Zenon DEF voom_OopCut, CutBody, CutBnodes
<1>4. Done(S0, V, up)
  <2> HIDE DEF bp, e, B2, bn2, lv2
  <2>1. PICK S \in {Hook(S0, "cut", 0, 0, 0, 0, 0, bp - 1, ln1 - 1)} : Done(S, V, up)
    BY <1>3
  <2>2. S = S0
    BY <1>1, <2>1, HookIs, SMT
  <2> QED
    BY <2>1, <2>2, Zenon
<1>5. CanCut(bnodes, Body, ln1, ln2, bp, e)
  BY <1>2 DEF CanCut
<1>6. /\ CanTrim(bnodes, Body, ln1, ln2 + 1 - ln1, bp, e + 1 - bp)
      /\ IsTrimmed(bnodes, levels, Body, ln1, ln2 + 1 - ln1, bp, e + 1 - bp, bn2, lv2, B2)
  BY <1>1, <1>2, <1>5, CutIsTrim, Zenon
<1>7. TrimsNodes(bnodes, Body, ln1, ln2 + 1 - ln1, bp, e + 1 - bp, B2)
  <2>1. /\ StartIn(bnodes, Body, ln1) = bp
        /\ StartIn(bnodes, Body, ln1 + (ln2 + 1 - ln1)) = bp + (e + 1 - bp)
    <3> HIDE DEF bp, e
    <3>1. ln1 <= Len(bnodes) /\ ln2 <= Len(bnodes)
      BY <1>2
    <3>2. StartIn(bnodes, Body, ln1) = bp /\ StartIn(bnodes, Body, ln2 + 1) = e + 1
      BY <1>1, <1>2, <3>1, RegionStarts DEF bp
    <3>3. ln1 + (ln2 + 1 - ln1) = ln2 + 1 /\ bp + (e + 1 - bp) = e + 1
      BY <1>2
    <3> QED
      BY <3>2, <3>3
  <2>2. IF e + 1 - bp < Len(Body)
        THEN /\ Len(B2) = Len(Body) - (e + 1 - bp)
             /\ \A k \in 1 .. bp - 1 : B2[k] = Body[k]
             /\ \A k \in bp .. Len(Body) - (e + 1 - bp) : B2[k] = Body[k + (e + 1 - bp)]
        ELSE B2 = <<Blank>> /\ Len(bnodes) - (ln2 + 1 - ln1) = 1
    <3>1. PICK Z \in Nat : Z = Len(Body) /\ Body \in Seq(LineType)
      BY <1>1 DEF Told
    <3>2. CASE ~(e + 1 - bp < Len(Body))
      BY <1>6, <3>2 DEF IsTrimmed
    <3>3. CASE e + 1 - bp < Len(Body)
      <4>1. bp > 0 /\ e + 1 - bp > 0 /\ e <= Z
        <5>1. bp > 0 /\ bp + (e + 1 - bp) - 1 <= Z
          BY <1>6, <3>1 DEF CanTrim
        <5>2. e >= bp
          <6>1. ln1 \in 2 .. Len(bnodes) /\ ln2 \in ln1 .. Len(bnodes)
            BY <1>2
          <6> QED
            BY <1>1, <1>2, <6>1, RegionEnds
        <5> QED
          BY <1>2, <5>1, <5>2
      <4> DEFINE rest == CutOut(Body, bp, e)
      <4>2. IsCut(LineType, rest, Body, bp, e)
        <5>1. bp \in 1 .. Len(Body) /\ e \in bp .. Len(Body)
          BY <1>2, <3>1, <4>1
        <5> QED
          BY <3>1, <5>1, CutOutIs
      <4>3. B2 = IF rest = <<>> THEN <<Blank>> ELSE rest
        BY DEF CutBody
      <4> HIDE DEF rest, B2
      <4>4. /\ rest \in Seq(LineType) /\ Len(rest) = Z - (e - bp + 1)
            /\ \A k \in 1 .. bp - 1 : rest[k] = Body[k]
            /\ \A k \in bp .. Z - (e - bp + 1) : rest[k] = Body[k + (e - bp + 1)]
        BY <3>1, <4>2 DEF IsCut
      <4>5. rest # <<>> /\ e - bp + 1 = e + 1 - bp
        BY <1>2, <3>1, <3>3, <4>4
      <4>6. B2 = rest
        BY <4>3, <4>5
      <4> HIDE DEF bp, e
      <4> QED
        BY <3>1, <3>3, <4>4, <4>5, <4>6
    <3> QED
      BY <3>2, <3>3, Zenon
  <2> HIDE DEF bp, e, B2
  <2> QED
    BY <2>1, <2>2, Zenon DEF TrimsNodes
<1> HIDE DEF bp, e, B2, bn2, lv2, V
<1>8. Shows(V, up) /\ Body' = B2 /\ bnodes' = bn2 /\ levels' = lv2
  <2>1. S0.Body = B2 /\ S0.bnodes = bn2 /\ S0.levels = lv2 /\ S0.ok
    OBVIOUS
  <2> HIDE DEF S0
  <2> QED
    BY <1>4, <2>1, DoneShows, Zenon
<1>9. TrimsTo(ln1, ln2 + 1 - ln1)
  <2>1. e + 1 - bp \in Int
    BY <1>2
  <2> QED
    BY <1>2, <1>6, <1>7, <1>8, <2>1, Zenon DEF TrimsTo
<1>10. clip' = Slice(Body, bp, EndIn(bnodes, Body, ln2))
  BY <1>2, <1>3
<1> QED
  BY <1>3, <1>8, <1>9, <1>10 DEF V, bp

-----------------------------------------------------------------------------
(* The forest of a Body and a clipboard, as a parse tells it.              *)

BnodesOf(m, B) == << 1 >> \o OutlineOf(m, B).bnodes
LevelsOf(m, B) == << 1 >> \o OutlineOf(m, B).levels
ParsedNodes(m, B) == NodesIn(BnodesOf(m, B), LevelsOf(m, B), B)
ParsedForest(m, B, c) ==
  [top |-> TopIn(BnodesOf(m, B), B), nodes |-> ParsedNodes(m, B), clip |-> ParsedNodes(m, c)]

\* There is one forest of a Body and a clipboard: the one that their parse tells.
LEMMA ForestIsParsed ==
  ASSUME mode \in OneLineModes, NEW B \in Seq(LineType), NEW c \in Seq(LineType),
         NEW f, f \in ForestsOf(B, c)
  PROVE  f = ParsedForest(mode, B, c)
<1>1. ASSUME NEW C \in Seq(LineType)
      PROVE  /\ NodesOf(C, OutlineOf(mode, C)) = ParsedNodes(mode, C)
             /\ TopOf(C, OutlineOf(mode, C)) = TopIn(BnodesOf(mode, C), C)
  <2>1. PICK o, bn, lv : o = OutlineOf(mode, C) /\ bn = BnodesOf(mode, C) /\ lv = LevelsOf(mode, C)
    OBVIOUS
  <2>2. IsOutline(mode, C, o)
    BY <2>1, ParseIsOutline
  <2>3. bn = << 1 >> \o o.bnodes /\ lv = << 1 >> \o o.levels
    BY <2>1, Zenon DEF BnodesOf, LevelsOf
  <2>4. NodesOf(C, o) = NodesIn(bn, lv, C) /\ TopOf(C, o) = Texts(C, 1, EndIn(bn, C, 1))
    BY <2>2, <2>3, NodesAre
  <2> QED
    BY <2>1, <2>4, Zenon DEF ParsedNodes, TopIn
<1>2. f = [top |-> TopOf(B, OutlineOf(mode, B)), nodes |-> NodesOf(B, OutlineOf(mode, B)),
           clip |-> NodesOf(c, OutlineOf(mode, c))]
  <2>1. PICK o \in {OutlineOf(mode, B)}, p \in {OutlineOf(mode, c)} :
          f = [top |-> TopOf(B, o), nodes |-> NodesOf(B, o), clip |-> NodesOf(c, p)]
    BY DEF ForestsOf
  <2> QED
    BY <2>1
<1> QED
  BY <1>1, <1>2, Zenon DEF ParsedForest

\* The nodes of a Body whose headlines the outline tells.
LEMMA ParsedIsTold ==
  ASSUME NEW m \in OneLineModes, NEW bn, NEW lv, NEW B, Told(m, bn, lv, B)
  PROVE  ParsedNodes(m, B) = NodesIn(bn, lv, B) /\ BnodesOf(m, B) = bn /\ LevelsOf(m, B) = lv
<1>1. B \in Seq(LineType) /\ B # <<>>
  BY DEF Told
<1>2. PICK o, c, v, T : o = OutlineOf(m, B) /\ c = << 1 >> \o o.bnodes /\ v = << 1 >> \o o.levels
                        /\ T = <<RootLine>> \o o.tlines
  OBVIOUS
<1>3. Told(m, c, v, B)
  BY <1>1, <1>2, ParseTells
<1>4. c = bn /\ v = lv
  BY <1>3, ToldIsUnique
<1>5. BnodesOf(m, B) = bn /\ LevelsOf(m, B) = lv
  BY <1>2, <1>4, Zenon DEF BnodesOf, LevelsOf
<1> QED
  BY <1>5, Zenon DEF ParsedNodes

-----------------------------------------------------------------------------
(* Moves of whole branches.                                                *)

\* The nodes of a forest have these levels.
LevelsAre(old, lv, L) ==
  /\ old \in Seq(NodeType) /\ Len(old) = L /\ L \in Nat
  /\ \A i \in 1 .. L : old[i].lev = lv[i + 1] /\ old[i].lev \in Int

\* The levels of the nodes.
LEMMA NodeLevels ==
  ASSUME NEW m, NEW bn, NEW lv, NEW B, Told(m, bn, lv, B), NEW old, old = NodesIn(bn, lv, B)
  PROVE  LevelsAre(old, lv, Len(lv) - 1)
<1>1. /\ old \in Seq(NodeType) /\ Len(old) = Len(bn) - 1 /\ Len(old) \in Nat
      /\ \A i \in 1 .. Len(bn) - 1 : old[i].lev = lv[i + 1]
  BY NodesInAre
<1>2. PICK N \in Nat : N = Len(bn) /\ N = Len(lv)
  BY DEF Told
<1>3. ASSUME NEW i \in 1 .. N - 1
      PROVE  old[i].lev \in Int
  <2>1. old[i] \in NodeType
    BY <1>1, <1>2
  <2> QED
    BY <2>1 DEF NodeType
<1> QED
  BY <1>1, <1>2, <1>3 DEF LevelsAre

\* The end of a region is the end of a branch.
LEMMA RegionIsClosed ==
  ASSUME Told(mode, bnodes, levels, Body), NEW ln1 \in 2 .. Len(levels), NEW ln2 \in Ends(ln1),
         ln2 < Len(levels)
  PROVE  levels[ln2 + 1] <= levels[ln1]
<1>1. PICK sel \in ln1 .. Len(levels) : ln2 = SelEnd(levels, ln1, sel) /\ ln2 # 0
  BY DEF Ends
<1> DEFINE after == {i \in sel + 1 .. Len(levels) : levels[i] <= levels[ln1]}
<1>2. PICK N \in Nat : N = Len(levels)
  BY DEF Told
<1>3. ln2 = IF after = {} THEN N ELSE Min(after) - 1
  BY <1>1, <1>2 DEF SelEnd
<1>4. after # {} /\ ln2 = Min(after) - 1
  BY <1>2, <1>3
<1>5. after \in SUBSET Nat
  BY <1>2
<1>6. PICK x \in Int : x = Min(after) /\ x \in after
  <2> HIDE DEF after
  <2>1. Min(after) \in after /\ Min(after) \in Nat
    BY <1>4, <1>5, LeastElement
  <2> QED
    BY <2>1
<1> HIDE DEF after
<1>7. ln2 + 1 = x
  BY <1>4, <1>6
<1> QED
  BY <1>6, <1>7 DEF after

\* It is one branch, or several with the same parent.
LEMMA RegionBranches ==
  ASSUME Told(mode, bnodes, levels, Body), NEW ln1 \in 2 .. Len(levels), NEW ln2 \in Ends(ln1),
         NEW old, LevelsAre(old, levels, Len(levels) - 1)
  PROVE  F!Branches(old, ln1 - 1, ln2 - 1)
<1>1. PICK N \in Nat : N = Len(levels)
  BY DEF Told
<1>2. ln2 \in ln1 .. N /\ \A i \in ln1 .. ln2 : levels[i] >= levels[ln1]
  BY <1>1, EndsAre
<1>3. ln2 < N => levels[ln2 + 1] <= levels[ln1]
  BY <1>1, RegionIsClosed
<1>4. Len(old) = N - 1 /\ \A i \in 1 .. N - 1 : old[i].lev = levels[i + 1]
  BY <1>1 DEF LevelsAre
<1>5. ASSUME NEW i \in ln1 .. N
      PROVE  old[i - 1].lev = levels[i]
  <2>1. PICK j \in Int : j = i - 1 /\ j + 1 = i /\ j \in 1 .. N - 1
    BY <1>1
  <2> QED
    BY <1>4, <2>1
<1>6. ASSUME NEW i \in ln1 - 1 .. ln2 - 1
      PROVE  old[i].lev >= old[ln1 - 1].lev
  <2>1. PICK j \in Int : j = i + 1 /\ j - 1 = i /\ j \in ln1 .. ln2 /\ j \in ln1 .. N /\ ln1 \in ln1 .. N
    BY <1>1, <1>2
  <2> QED
    BY <1>2, <1>5, <2>1
<1>7. ASSUME ln2 - 1 < Len(old)
      PROVE  old[ln2 - 1 + 1].lev <= old[ln1 - 1].lev
  <2>1. ln2 < N /\ ln2 - 1 + 1 = ln2 /\ ln2 \in 1 .. N - 1 /\ ln1 \in ln1 .. N
    BY <1>1, <1>2, <1>4, <1>7
  <2> QED
    BY <1>3, <1>4, <1>5, <2>1
<1> QED
  BY <1>6, <1>7 DEF F!Branches

\* A branch ends before the next node that is not under it.
LEMMA BranchEndsAt ==
  ASSUME NEW lev \in Seq(Positive), NEW s \in 2 .. Len(lev), NEW e, e = BranchEnd(lev, s)
  PROVE  /\ e \in s .. Len(lev) /\ \A j \in s + 1 .. e : lev[s] < lev[j]
         /\ e < Len(lev) => lev[e + 1] <= lev[s]
<1>1. PICK N \in Nat : N = Len(lev) /\ s \in 1 .. N /\ s \in Int /\ s # 1
  OBVIOUS
<1>2. /\ e \in s .. N
      /\ \A t \in s + 1 .. N : t <= e <=> \A j \in s + 1 .. t : lev[s] < lev[j]
  BY <1>1, BranchEndIs
<1>3. \A i \in 1 .. N : lev[i] \in Int
  BY <1>1 DEF Positive
<1>4. \A j \in s + 1 .. e : lev[s] < lev[j]
  BY <1>1, <1>2
<1>5. ASSUME e < N
      PROVE  lev[e + 1] <= lev[s]
  <2>1. PICK t \in Int : t = e + 1 /\ t \in s + 1 .. N /\ ~(t <= e)
    BY <1>1, <1>2, <1>5
  <2>2. PICK j \in s + 1 .. t : ~(lev[s] < lev[j])
    BY <1>2, <2>1
  <2>3. j = t
    BY <1>1, <1>2, <1>4, <2>1, <2>2
  <2>4. lev[t] \in Int /\ lev[s] \in Int
    BY <1>1, <1>3, <2>1
  <2> QED
    BY <2>1, <2>2, <2>3, <2>4
<1> QED
  BY <1>1, <1>2, <1>4, <1>5

\* The level of node i when the n nodes from a on are gone.
RestLevel(old, a, n, i) == old[IF i < a THEN i ELSE i + n].lev

\* The rest is regular.
RestIsRegular(old, a, n) ==
  /\ Len(old) - n >= 1 => RestLevel(old, a, n, 1) = 1
  /\ \A i \in 2 .. Len(old) - n : RestLevel(old, a, n, i) <= RestLevel(old, a, n, i - 1) + 1

\* What is left when n elements from a on are cut out.
IsRest(r, old, a, n) ==
  /\ r \in Seq(NodeType) /\ Len(r) = Len(old) - n
  /\ \A i \in 1 .. Len(old) - n : r[i] = old[IF i < a THEN i ELSE i + n]

\* The nodes that are left are those before and after the ones cut out.
LEMMA RestIs ==
  ASSUME NEW old, NEW a, NEW n, NEW b, NEW r, old \in Seq(NodeType), a \in 1 .. Len(old),
         n \in 1 .. Len(old) - a + 1, b = a + n - 1, r = CutOut(old, a, b)
  PROVE  IsRest(r, old, a, n) /\ (F!Regular(r) => RestIsRegular(old, a, n))
<1>1. PICK N \in Nat : N = Len(old)
  OBVIOUS
<1>2. a \in 1 .. N /\ n \in 1 .. N - a + 1 /\ b \in a .. N /\ b - a + 1 = n
  BY <1>1
<1>3. IsCut(NodeType, r, old, a, b)
  BY <1>1, <1>2, CutOutIs
<1>4. /\ r \in Seq(NodeType) /\ Len(r) = N - n
      /\ \A i \in 1 .. a - 1 : r[i] = old[i]
      /\ \A i \in a .. N - n : r[i] = old[i + n]
  BY <1>1, <1>2, <1>3 DEF IsCut
<1>5. ASSUME NEW i \in 1 .. N - n
      PROVE  r[i] = old[IF i < a THEN i ELSE i + n]
  <2>1. CASE i < a
    <3>1. i \in 1 .. a - 1
      BY <1>2, <2>1
    <3> QED
      BY <1>4, <2>1, <3>1
  <2>2. CASE ~(i < a)
    <3>1. i \in a .. N - n
      BY <1>2, <2>2
    <3> QED
      BY <1>4, <2>2, <3>1
  <2> QED
    BY <2>1, <2>2
<1>6. ASSUME F!Regular(r)
      PROVE  RestIsRegular(old, a, n)
  <2>1. \A i \in 1 .. N - n : r[i].lev = RestLevel(old, a, n, i)
    BY <1>5 DEF RestLevel
  <2>2. r # <<>> => r[1].lev = 1
    BY <1>6 DEF F!Regular
  <2>3. r # <<>> => \A i \in 1 .. N - n : F!Attached(r, i)
    BY <1>4, <1>6 DEF F!Regular
  <2>4. N - n >= 1 => r # <<>>
    BY <1>2, <1>4
  <2>5. N - n >= 1 => RestLevel(old, a, n, 1) = 1
    BY <1>2, <2>1, <2>2, <2>4
  <2>6. ASSUME NEW i \in 2 .. N - n
        PROVE  RestLevel(old, a, n, i) <= RestLevel(old, a, n, i - 1) + 1
    <3>1. PICK j \in Int : j = i - 1 /\ j \in 1 .. N - n /\ i \in 1 .. N - n /\ i # 1 /\ N - n >= 1
      BY <1>2
    <3>2. r[i].lev <= r[j].lev + 1
      BY <2>3, <2>4, <3>1 DEF F!Attached
    <3> QED
      BY <2>1, <3>1, <3>2
  <2> QED
    BY <1>1, <2>5, <2>6 DEF RestIsRegular
<1> QED
  BY <1>1, <1>4, <1>5, <1>6 DEF IsRest

\* Nodes that are moved are attached to the rest.
LEMMA MoveAttaches ==
  ASSUME mode \in OneLineModes, NEW old, NEW new, NEW a, NEW n, NEW k, NEW d,
         AreMoved(old, new, a, n, k, d), NEW b, b = a + n - 1, F!Branches(old, a, b),
         NEW w \in Int, w = old[a].lev + d,
         k # 0 => w <= RestLevel(old, a, n, k) + 1,
         RestIsRegular(old, a, n) /\ k < Len(old) - n => RestLevel(old, a, n, k + 1) <= w
  PROVE  F!Move(old, new)
<1>1. PICK N \in Nat : N = Len(old)
  BY DEF AreMoved
<1>2. /\ old \in Seq(NodeType) /\ new \in Seq(NodeType) /\ Len(new) = N /\ d \in Int
      /\ a \in 1 .. N /\ n \in 1 .. N - a + 1 /\ k \in 0 .. N - n /\ k \in Int
  BY <1>1 DEF AreMoved
<1>3. /\ \A i \in 1 .. k : new[i] = old[IF i < a THEN i ELSE i + n]
      /\ \A j \in 1 .. n : new[k + j] = WithLev(old[a + j - 1], old[a + j - 1].lev + d)
  BY DEF AreMoved
<1>4. new[k + 1].lev = w
  <2>1. 1 \in 1 .. n /\ a + 1 - 1 = a
    BY <1>2
  <2>2. new[k + 1] = WithLev(old[a], old[a].lev + d)
    BY <1>3, <2>1
  <2>3. old[a] \in NodeType
    BY <1>1, <1>2
  <2> QED
    BY <2>2, <2>3, NodeLevIs
<1>5. F!Attached(new, k + 1)
  <2>1. CASE k = 0
    BY <2>1 DEF F!Attached
  <2>2. CASE k # 0
    <3>1. k \in 1 .. k /\ (k + 1) - 1 = k
      BY <1>2, <2>2
    <3>2. new[k].lev = RestLevel(old, a, n, k)
      BY <1>3, <3>1 DEF RestLevel
    <3> QED
      BY <1>4, <2>2, <3>1, <3>2 DEF F!Attached
  <2> QED
    BY <2>1, <2>2
<1>9. PICK r : r = CutOut(old, a, b)
  OBVIOUS
<1>6. /\ Len(r) = N - n
      /\ \A i \in 1 .. N - n : r[i] = old[IF i < a THEN i ELSE i + n]
      /\ F!Regular(r) => RestIsRegular(old, a, n)
  <2>1. a \in 1 .. Len(old) /\ n \in 1 .. Len(old) - a + 1
    BY <1>1, <1>2
  <2>2. old \in Seq(NodeType)
    BY <1>2
  <2>3. IsRest(r, old, a, n) /\ (F!Regular(r) => RestIsRegular(old, a, n))
    BY <1>9, <2>1, <2>2, RestIs, Zenon
  <2> QED
    BY <1>1, <2>3 DEF IsRest
<1>7. F!Regular(r) /\ k < Len(r) => r[k + 1].lev <= new[k + 1].lev
  <2> SUFFICES ASSUME F!Regular(r), k < Len(r)
               PROVE  r[k + 1].lev <= new[k + 1].lev
    OBVIOUS
  <2>1. k + 1 \in 1 .. N - n
    BY <1>2, <1>6
  <2>2. r[k + 1].lev = RestLevel(old, a, n, k + 1)
    BY <1>6, <2>1 DEF RestLevel
  <2> QED
    BY <1>1, <1>4, <1>6, <2>2
<1> QED
  BY <1>5, <1>7, <1>9, MovedIsMove

-----------------------------------------------------------------------------
(* Two blocks of nodes have changed places.                                *)

\* Nodes that go up change places with those they pass.
LEMMA SwapNodesUp ==
  ASSUME mode \in OneLineModes, Told(mode, bnodes, levels, Body),
         NEW bn2, bn2 = bnodes', NEW lv2, lv2 = levels', NEW B2, B2 = Body', Told(mode, bn2, lv2, B2),
         NEW p \in Int, NEW n1 \in Int, NEW n2 \in Int, NEW d \in Int, SwapsTo(p, n1, n2, 0, d), n2 > 0
  PROVE  /\ AreMoved(NodesIn(bnodes, levels, Body), NodesIn(bn2, lv2, B2), p + n1 - 1, n2, p - 2, d)
         /\ TopIn(bn2, B2) = TopIn(bnodes, Body)
<1>1. PICK bl \in Int, size1 \in Int, size2 \in Int :
        /\ CanSwap(bnodes, levels, Body, p, n1, n2, bl, size1, size2, 0, d)
        /\ SwapsNodes(bnodes, Body, p, n1, n2, bl, size1, size2)
        /\ IsSwapped(mode, bnodes, levels, Body, p, n1, n2, bl, size1, size2, 0, d, bn2, lv2, B2)
  BY DEF SwapsTo
<1>2. AreMoved(NodesIn(bnodes, levels, Body), NodesIn(bn2, lv2, B2), p + n1 - 1, n2, p - 2, d)
  BY <1>1, SwapMovesUp, Zenon
<1>3. PICK z \in Int : z = 0
  OBVIOUS
<1>4. TopIn(bn2, B2) = TopIn(bnodes, Body)
  BY <1>1, <1>3, SwapKeepsNodes
<1> QED
  BY <1>2, <1>4

\* Nodes that go down change places with those they pass.
LEMMA SwapNodesDown ==
  ASSUME mode \in OneLineModes, Told(mode, bnodes, levels, Body),
         NEW bn2, bn2 = bnodes', NEW lv2, lv2 = levels', NEW B2, B2 = Body', Told(mode, bn2, lv2, B2),
         NEW p \in Int, NEW n1 \in Int, NEW n2 \in Int, NEW d \in Int, SwapsTo(p, n1, n2, d, 0), n1 > 0
  PROVE  /\ AreMoved(NodesIn(bnodes, levels, Body), NodesIn(bn2, lv2, B2), p - 1, n1, p - 2 + n2, d)
         /\ TopIn(bn2, B2) = TopIn(bnodes, Body)
<1>1. PICK bl \in Int, size1 \in Int, size2 \in Int :
        /\ CanSwap(bnodes, levels, Body, p, n1, n2, bl, size1, size2, d, 0)
        /\ SwapsNodes(bnodes, Body, p, n1, n2, bl, size1, size2)
        /\ IsSwapped(mode, bnodes, levels, Body, p, n1, n2, bl, size1, size2, d, 0, bn2, lv2, B2)
  BY DEF SwapsTo
<1>2. AreMoved(NodesIn(bnodes, levels, Body), NodesIn(bn2, lv2, B2), p - 1, n1, p - 2 + n2, d)
  BY <1>1, SwapMovesDown, Zenon
<1>3. PICK z \in Int : z = 0
  OBVIOUS
<1>4. TopIn(bn2, B2) = TopIn(bnodes, Body)
  BY <1>1, <1>3, SwapKeepsNodes
<1> QED
  BY <1>2, <1>4

\* A step to the same mode leaves an outline that tells the headlines.
LEMMA ToldNext ==
  ASSUME OutlineTells', mode' = mode
  PROVE  Told(mode, bnodes', levels', Body')
BY DEF OutlineTells, Tells

\* The level that voom_OopUp chooses.
LEMMA UpLevelFits ==
  ASSUME levels \in Seq(Positive), NEW up \in 2 .. Len(levels), NEW up2 \in LineAbove(up), up2 >= 1,
         NEW v, v = IF levels[up2] + 1 = levels[up] THEN levels[up] ELSE levels[up2]
  PROVE  /\ v \in Int /\ v >= 1
         /\ up > 2 => v <= levels[up - 1] + 1
         /\ up > 2 /\ levels[up] <= levels[up - 1] + 1 => levels[up] <= v
<1>1. PICK N \in Nat : N = Len(levels)
  OBVIOUS
<1>2. \A i \in 1 .. N : levels[i] \in Int /\ levels[i] >= 1
  BY <1>1 DEF Positive
<1>3. up2 \in 1 .. N /\ up \in 2 .. N /\ up - 1 \in 1 .. N
  BY <1>1 DEF LineAbove
<1>4. PICK x \in Int, y \in Int, z \in Int :
        x = levels[up] /\ y = levels[up2] /\ z = levels[up - 1] /\ x >= 1 /\ y >= 1
  BY <1>2, <1>3
<1>5. v = IF y + 1 = x THEN x ELSE y
  BY <1>4
<1>6. CASE up2 = up - 1
  BY <1>4, <1>5, <1>6
<1>7. CASE up2 # up - 1
  <2>1. up2 \in 2 .. up - 2 /\ BranchEnd(levels, up2) = up - 1
    BY <1>7 DEF LineAbove
  <2>2. PICK e \in Int : e = up - 1 /\ e + 1 = up /\ e < N
    BY <1>3
  <2>3. up2 \in 2 .. Len(levels) /\ e = BranchEnd(levels, up2)
    BY <1>1, <1>3, <2>1, <2>2
  <2>4. /\ \A j \in up2 + 1 .. e : levels[up2] < levels[j]
        /\ e < Len(levels) => levels[e + 1] <= levels[up2]
    BY <2>3, BranchEndsAt
  <2>5. e \in up2 + 1 .. e
    BY <2>1, <2>2
  <2>6. y < z /\ x <= y
    BY <1>1, <1>4, <2>2, <2>4, <2>5
  <2> QED
    BY <1>4, <1>5, <2>6
<1> QED
  BY <1>6, <1>7

\* voom_OopUp moves the region.
LEMMA UpMoves ==
  ASSUME OutlineTells, NEW ln1 \in 2 .. Len(levels), NEW ln2 \in Ends(ln1), ln1 >= 3,
         NEW up \in LineAbove(ln1), NEW up2 \in LineAbove(up), voom_OopUp(ln1, ln2, up, up2),
         NEW bn2, bn2 = bnodes', NEW lv2, lv2 = levels', NEW B2, B2 = Body', Told(mode, bn2, lv2, B2)
  PROVE  /\ F!Move(NodesIn(bnodes, levels, Body), NodesIn(bn2, lv2, B2))
         /\ TopIn(bn2, B2) = TopIn(bnodes, Body)
         /\ clip' = clip /\ mode' = mode /\ (hookOK => hookOK')
<1>1. PICK v, d, U : /\ v = IF levels[up2] + 1 = levels[up] THEN levels[up] ELSE levels[up2]
                     /\ d = v - levels[ln1] /\ U = Unmarked(Tree, snLn)
  OBVIOUS
<1>2. Told(mode, bnodes, levels, Body) /\ mode \in OneLineModes
  BY DEF OutlineTells, Tells
<1>3. PICK N \in Nat : N = Len(levels)
  BY <1>2 DEF Told
<1>4. ln2 \in ln1 .. N
  BY <1>2, <1>3, EndsAre
<1>5. /\ up \in Int /\ up > 1 /\ up < ln1 /\ up2 \in Int /\ up2 >= 1 /\ up2 < up /\ d \in Int
      /\ SwapsTo(up, ln1 - up, ln2 + 1 - ln1, 0, d) /\ clip' = clip
      /\ Shows(UpIn(U, up, ln1, ln2, RegionLines(d, Slice(U, ln1, ln2), levels', up)), up)
  BY <1>1, UpSwaps, Zenon
<1>6. PICK a \in Int, n \in Int, k \in Int, n1 \in Int :
        a = ln1 - 1 /\ n = ln2 + 1 - ln1 /\ k = up - 2 /\ n1 = ln1 - up
  BY <1>3, <1>4, <1>5
<1>7. n > 0 /\ up + n1 - 1 = a /\ a + n - 1 = ln2 - 1 /\ k < a /\ k + 1 < a
  BY <1>4, <1>5, <1>6
<1>8. PICK old, new : old = NodesIn(bnodes, levels, Body) /\ new = NodesIn(bn2, lv2, B2)
  OBVIOUS
<1>9. AreMoved(old, new, a, n, k, d) /\ TopIn(bn2, B2) = TopIn(bnodes, Body)
  <2>1. SwapsTo(up, n1, n, 0, d)
    BY <1>5, <1>6, Zenon
  <2>2. AreMoved(old, new, up + n1 - 1, n, up - 2, d) /\ TopIn(bn2, B2) = TopIn(bnodes, Body)
    BY <1>2, <1>5, <1>7, <1>8, <2>1, SwapNodesUp
  <2> QED
    BY <1>6, <1>7, <2>2, Zenon
<1>10. LevelsAre(old, levels, Len(levels) - 1)
  BY <1>2, <1>8, NodeLevels
<1>11. F!Branches(old, ln1 - 1, ln2 - 1)
  BY <1>2, <1>10, RegionBranches
<1>12. \A i \in 1 .. N - 1 : old[i].lev = levels[i + 1] /\ old[i].lev \in Int
  BY <1>3, <1>10 DEF LevelsAre
<1>13. /\ v \in Int /\ v >= 1
       /\ up > 2 => v <= levels[up - 1] + 1
       /\ up > 2 /\ levels[up] <= levels[up - 1] + 1 => levels[up] <= v
  <2>1. levels \in Seq(Positive) /\ up \in 2 .. Len(levels)
    BY <1>2, <1>3, <1>5, LevelsArePositive
  <2> QED
    BY <1>1, <1>5, <2>1, UpLevelFits
<1>14. v = old[a].lev + d
  <2>1. a \in 1 .. N - 1 /\ a + 1 = ln1
    BY <1>3, <1>4, <1>6
  <2>2. PICK x \in Int : x = levels[ln1] /\ old[a].lev = x
    BY <1>12, <2>1
  <2> QED
    BY <1>1, <1>13, <2>2
<1>15. RestLevel(old, a, n, k + 1) = levels[up]
  <2>1. PICK j \in Int : j = k + 1 /\ j \in 1 .. N - 1 /\ j + 1 = up /\ j < a
    BY <1>3, <1>5, <1>6, <1>7
  <2> QED
    BY <1>12, <2>1 DEF RestLevel
<1>16. k # 0 => k >= 1 /\ up > 2 /\ RestLevel(old, a, n, k) = levels[up - 1]
  <2> SUFFICES ASSUME k # 0
               PROVE  k >= 1 /\ up > 2 /\ RestLevel(old, a, n, k) = levels[up - 1]
    OBVIOUS
  <2>1. k \in 1 .. N - 1 /\ k + 1 = up - 1 /\ k >= 1 /\ up > 2
    BY <1>3, <1>5, <1>6
  <2> QED
    BY <1>7, <1>12, <2>1 DEF RestLevel
<1>17. k # 0 => v <= RestLevel(old, a, n, k) + 1
  BY <1>13, <1>16
<1>18. ASSUME RestIsRegular(old, a, n), k < Len(old) - n
       PROVE  RestLevel(old, a, n, k + 1) <= v
  <2>1. Len(old) = N - 1
    BY <1>3, <1>10 DEF LevelsAre
  <2>2. CASE k = 0
    <3>1. RestLevel(old, a, n, 1) = 1
      BY <1>6, <1>18, <2>1, <2>2 DEF RestIsRegular
    <3> QED
      BY <1>13, <2>2, <3>1
  <2>3. CASE k # 0
    <3>1. PICK j \in Int : j = k + 1 /\ j \in 2 .. Len(old) - n /\ j - 1 = k
      <4>1. PICK q \in Int : q = Len(old) - n
        BY <1>6, <2>1
      <4>2. k \in Int /\ k >= 1 /\ k < q
        BY <1>6, <1>16, <1>18, <2>3, <4>1
      <4>3. k + 1 \in 2 .. q /\ k + 1 \in Int /\ (k + 1) - 1 = k
        BY <4>2
      <4> QED
        BY <4>1, <4>3
    <3>2. RestLevel(old, a, n, j) <= RestLevel(old, a, n, j - 1) + 1
      BY <1>18, <3>1 DEF RestIsRegular
    <3>3. levels[up] <= levels[up - 1] + 1
      BY <1>15, <1>16, <2>3, <3>1, <3>2
    <3> QED
      BY <1>13, <1>15, <1>16, <2>3, <3>3
  <2> QED
    BY <2>2, <2>3
<1>19. PICK b : b = a + n - 1 /\ F!Branches(old, a, b)
  BY <1>6, <1>7, <1>11
<1>20. F!Move(old, new)
  BY <1>2, <1>9, <1>13, <1>14, <1>17, <1>18, <1>19, MoveAttaches, Zenon
<1>21. mode' = mode /\ (hookOK => hookOK')
  BY <1>5, Zenon DEF Shows
<1> QED
  BY <1>5, <1>8, <1>9, <1>20, <1>21

\* The level that voom_OopDown chooses, and what is behind it there.
LEMMA DownLevelFits ==
  ASSUME levels \in Seq(Positive), NEW ln2 \in 2 .. Len(levels), ln2 < Len(levels),
         NEW folded \in BOOLEAN, NEW r, r = LowerLine(ln2, folded), NEW v, v = LowerLevel(ln2, folded)
  PROVE  /\ v \in Int /\ v >= 1 /\ r \in ln2 + 1 .. Len(levels)
         /\ v <= levels[r] + 1
         /\ r < Len(levels) /\ levels[r + 1] <= levels[r] + 1 => levels[r + 1] <= v
<1>1. PICK N \in Nat, s \in Int : N = Len(levels) /\ s = ln2 + 1 /\ s \in 2 .. N
  OBVIOUS
<1>2. \A i \in 1 .. N : levels[i] \in Int /\ levels[i] >= 1
  BY <1>1 DEF Positive
<1>3. PICK x \in Int : x = levels[s] /\ x >= 1
  BY <1>1, <1>2
<1>4. nodeHasChildren(levels, s) <=> (s # N /\ x < levels[s + 1])
  BY <1>1, <1>3 DEF nodeHasChildren
<1>5. CASE nodeHasChildren(levels, s) /\ ~folded
  <2>1. r = s /\ v = x + 1
    BY <1>1, <1>3, <1>5 DEF LowerLine, LowerLevel
  <2> QED
    BY <1>1, <1>2, <1>3, <2>1
<1>6. CASE nodeHasChildren(levels, s) /\ folded
  <2>1. PICK e : e = BranchEnd(levels, s) /\ r = e /\ v = x
    BY <1>1, <1>3, <1>6 DEF LowerLine, LowerLevel
  <2>2. /\ e \in s .. N /\ \A j \in s + 1 .. e : levels[s] < levels[j]
        /\ e < N => levels[e + 1] <= levels[s]
    BY <1>1, <2>1, BranchEndsAt
  <2>3. PICK y \in Int : y = levels[e] /\ e \in Int
    BY <1>1, <1>2, <2>2
  <2>4. x <= y
    <3>1. CASE e = s
      BY <1>3, <2>3, <3>1
    <3>2. CASE e # s
      <4>1. e \in s + 1 .. e
        BY <1>1, <2>2, <3>2
      <4> QED
        BY <1>3, <2>2, <2>3, <4>1
    <3> QED
      BY <3>1, <3>2
  <2> QED
    BY <1>1, <1>3, <2>1, <2>2, <2>3, <2>4
<1>7. CASE ~nodeHasChildren(levels, s)
  <2>1. r = s /\ v = x
    BY <1>1, <1>3, <1>7 DEF LowerLine, LowerLevel
  <2>2. s < N => levels[s + 1] \in Int
    <3>1. s < N => s + 1 \in 1 .. N
      BY <1>1
    <3> QED
      BY <1>2, <3>1
  <2>3. s < N => levels[s + 1] <= x
    BY <1>1, <1>3, <1>4, <1>7, <2>2
  <2> QED
    BY <1>1, <1>3, <2>1, <2>3
<1> QED
  BY <1>5, <1>6, <1>7

\* voom_OopDown moves the region.
LEMMA DownMoves ==
  ASSUME OutlineTells, NEW ln1 \in 2 .. Len(levels), NEW ln2 \in Ends(ln1),
         NEW folded \in BOOLEAN, voom_OopDown(ln1, ln2, folded),
         NEW bn2, bn2 = bnodes', NEW lv2, lv2 = levels', NEW B2, B2 = Body', Told(mode, bn2, lv2, B2)
  PROVE  /\ F!Move(NodesIn(bnodes, levels, Body), NodesIn(bn2, lv2, B2))
         /\ TopIn(bn2, B2) = TopIn(bnodes, Body)
         /\ clip' = clip /\ mode' = mode /\ (hookOK => hookOK')
<1>1. PICK v, r, d, U, sn : /\ v = LowerLevel(ln2, folded) /\ r = LowerLine(ln2, folded)
                            /\ d = v - levels[ln1] /\ U = Unmarked(Tree, snLn)
                            /\ sn = r + 1 - (ln2 - ln1 + 1)
  OBVIOUS
<1>2. Told(mode, bnodes, levels, Body) /\ mode \in OneLineModes
  BY DEF OutlineTells, Tells
<1>3. PICK N \in Nat : N = Len(levels)
  BY <1>2 DEF Told
<1>4. ln2 \in ln1 .. N
  BY <1>2, <1>3, EndsAre
<1>5. /\ ~stale /\ ln2 < Len(levels) /\ r \in Int /\ ln2 < r /\ r <= Len(levels) /\ d \in Int
      /\ SwapsTo(ln1, ln2 + 1 - ln1, r - ln2, d, 0) /\ clip' = clip
      /\ Shows(DownIn(U, ln1, ln2, r, RegionLines(d, Slice(U, ln1, ln2), levels', sn)), sn)
  BY <1>1, DownSwaps, Zenon
<1>6. PICK a \in Int, n \in Int, k \in Int, n2 \in Int :
        a = ln1 - 1 /\ n = ln2 + 1 - ln1 /\ n2 = r - ln2 /\ k = r - 1 - n
  BY <1>3, <1>4, <1>5
<1>7. n > 0 /\ a >= 1 /\ ln1 - 2 + n2 = k /\ a + n - 1 = ln2 - 1 /\ k >= a /\ k + n = r - 1 /\ k >= 1
  BY <1>4, <1>5, <1>6
<1>8. PICK old, new : old = NodesIn(bnodes, levels, Body) /\ new = NodesIn(bn2, lv2, B2)
  OBVIOUS
<1>9. AreMoved(old, new, a, n, k, d) /\ TopIn(bn2, B2) = TopIn(bnodes, Body)
  <2>1. SwapsTo(ln1, n, n2, d, 0)
    BY <1>5, <1>6, Zenon
  <2>2. AreMoved(old, new, ln1 - 1, n, ln1 - 2 + n2, d) /\ TopIn(bn2, B2) = TopIn(bnodes, Body)
    BY <1>2, <1>5, <1>7, <1>8, <2>1, SwapNodesDown
  <2> QED
    BY <1>6, <1>7, <2>2, Zenon
<1>10. LevelsAre(old, levels, Len(levels) - 1)
  BY <1>2, <1>8, NodeLevels
<1>11. F!Branches(old, ln1 - 1, ln2 - 1)
  BY <1>2, <1>10, RegionBranches
<1>12. \A i \in 1 .. N - 1 : old[i].lev = levels[i + 1] /\ old[i].lev \in Int
  BY <1>3, <1>10 DEF LevelsAre
<1>13. /\ v \in Int /\ v >= 1
       /\ v <= levels[r] + 1
       /\ r < N /\ levels[r + 1] <= levels[r] + 1 => levels[r + 1] <= v
  <2>1. levels \in Seq(Positive) /\ ln2 \in 2 .. Len(levels)
    BY <1>2, <1>3, <1>4, LevelsArePositive
  <2> QED
    BY <1>1, <1>3, <1>5, <2>1, DownLevelFits
<1>14. v = old[a].lev + d
  <2>1. a \in 1 .. N - 1 /\ a + 1 = ln1
    BY <1>3, <1>4, <1>6
  <2>2. PICK x \in Int : x = levels[ln1] /\ old[a].lev = x
    BY <1>12, <2>1
  <2> QED
    BY <1>1, <1>13, <2>2
<1>15. RestLevel(old, a, n, k) = levels[r]
  <2>1. PICK j \in Int : j = k + n /\ j \in 1 .. N - 1 /\ j + 1 = r
    BY <1>3, <1>4, <1>5, <1>6, <1>7
  <2> QED
    BY <1>7, <1>12, <2>1 DEF RestLevel
<1>16. v <= RestLevel(old, a, n, k) + 1
  BY <1>13, <1>15
<1>17. ASSUME RestIsRegular(old, a, n), k < Len(old) - n
       PROVE  RestLevel(old, a, n, k + 1) <= v
  <2>1. Len(old) = N - 1
    BY <1>3, <1>10 DEF LevelsAre
  <2>2. PICK j \in Int : j = k + 1 /\ j \in 2 .. Len(old) - n /\ j - 1 = k
    <3>1. PICK q \in Int : q = Len(old) - n
      BY <1>6, <2>1
    <3>2. k \in Int /\ k >= 1 /\ k < q
      BY <1>6, <1>7, <1>17, <3>1
    <3>3. k + 1 \in 2 .. q /\ k + 1 \in Int /\ (k + 1) - 1 = k
      BY <3>2
    <3> QED
      BY <3>1, <3>3
  <2>3. r < N /\ j + n \in 1 .. N - 1 /\ (j + n) + 1 = r + 1 /\ ~(j < a)
    <3>1. j \in Int /\ n \in Int /\ n > 0 /\ r \in Int /\ a \in Int /\ k \in Int
      BY <1>5, <1>6, <1>7, <2>2
    <3>2. j >= 2 /\ j + n <= N - 1
      BY <2>1, <2>2, <3>1
    <3>3. j + n = r
      BY <1>7, <2>2, <3>1
    <3>4. ~(j < a)
      BY <1>7, <2>2, <3>1
    <3> QED
      BY <3>1, <3>2, <3>3, <3>4
  <2>4. RestLevel(old, a, n, j) = levels[r + 1]
    BY <1>12, <2>3 DEF RestLevel
  <2>5. RestLevel(old, a, n, j) <= RestLevel(old, a, n, j - 1) + 1
    BY <1>17, <2>2 DEF RestIsRegular
  <2>6. levels[r + 1] <= levels[r] + 1
    BY <1>15, <2>2, <2>4, <2>5
  <2> QED
    BY <1>13, <2>2, <2>3, <2>4, <2>6
<1>18. PICK b : b = a + n - 1 /\ F!Branches(old, a, b)
  BY <1>6, <1>7, <1>11
<1>19. F!Move(old, new)
  BY <1>2, <1>9, <1>13, <1>14, <1>16, <1>17, <1>18, MoveAttaches, Zenon
<1>20. mode' = mode /\ (hookOK => hookOK')
  BY <1>5, Zenon DEF Shows
<1> QED
  BY <1>5, <1>8, <1>9, <1>19, <1>20

\* Nodes whose level changes stay where they are.
LEMMA PromoteMoves ==
  ASSUME OutlineTells, NEW ln1 \in 2 .. Len(levels), NEW ln2 \in Ends(ln1), NEW oop,
         NEW d \in Int, levels[ln1] + d > 0, Promote(ln1, ln2, oop, d),
         NEW bn2, bn2 = bnodes', NEW lv2, lv2 = levels', NEW B2, B2 = Body', Told(mode, bn2, lv2, B2),
         NEW old, old = NodesIn(bnodes, levels, Body), NEW new, new = NodesIn(bn2, lv2, B2)
  PROVE  /\ AreMoved(old, new, ln1 - 1, ln2 + 1 - ln1, ln1 - 2, d)
         /\ ln2 \in ln1 .. Len(levels) /\ LevelsAre(old, levels, Len(levels) - 1)
         /\ F!Branches(old, ln1 - 1, ln2 - 1)
         /\ TopIn(bn2, B2) = TopIn(bnodes, Body)
         /\ mode' = mode /\ (hookOK => hookOK')
<1>1. PICK U : U = Unmarked(Tree, snLn)
  OBVIOUS
<1>2. Told(mode, bnodes, levels, Body) /\ mode \in OneLineModes
  BY DEF OutlineTells, Tells
<1>3. PICK N \in Nat : N = Len(levels)
  BY <1>2 DEF Told
<1>4. ln2 \in ln1 .. N
  BY <1>2, <1>3, EndsAre
<1>5. /\ SwapsTo(ln1, 0, ln2 + 1 - ln1, 0, d)
      /\ Shows(PutAfter(CutOut(U, ln1, ln2), ln1 - 1,
                        setLevTreeLines(Slice(U, ln1, ln2), levels', ln1)), ln1)
  BY <1>1, PromoteSwaps, Zenon
<1>6. PICK n \in Int, z \in Int : n = ln2 + 1 - ln1 /\ n > 0 /\ z = 0 /\ ln1 + z - 1 = ln1 - 1
  BY <1>3, <1>4
<1>7. AreMoved(old, new, ln1 + z - 1, n, ln1 - 2, d) /\ TopIn(bn2, B2) = TopIn(bnodes, Body)
  <2>1. SwapsTo(ln1, z, n, 0, d)
    BY <1>5, <1>6, Zenon
  <2> QED
    BY <1>2, <1>6, <2>1, SwapNodesUp
<1>8. AreMoved(old, new, ln1 - 1, ln2 + 1 - ln1, ln1 - 2, d)
  BY <1>6, <1>7, Zenon
<1>9. LevelsAre(old, levels, Len(levels) - 1)
  BY <1>2, NodeLevels
<1>10. F!Branches(old, ln1 - 1, ln2 - 1)
  BY <1>2, <1>9, RegionBranches
<1>11. mode' = mode /\ (hookOK => hookOK')
  BY <1>5, Zenon DEF Shows
<1> QED
  BY <1>3, <1>4, <1>7, <1>8, <1>9, <1>10, <1>11

\* voom_OopRight makes the region children of the node before it.
LEMMA RightMoves ==
  ASSUME OutlineTells, NEW ln1 \in 2 .. Len(levels), NEW ln2 \in Ends(ln1), voom_OopRight(ln1, ln2),
         NEW bn2, bn2 = bnodes', NEW lv2, lv2 = levels', NEW B2, B2 = Body', Told(mode, bn2, lv2, B2)
  PROVE  /\ F!Move(NodesIn(bnodes, levels, Body), NodesIn(bn2, lv2, B2))
         /\ TopIn(bn2, B2) = TopIn(bnodes, Body)
         /\ clip' = clip /\ mode' = mode /\ (hookOK => hookOK')
<1>1. /\ ln1 # 2 /\ levels[ln1] <= levels[ln1 - 1]
      /\ Promote(ln1, ln2, "right", 1) /\ clip' = clip
  BY Zenon DEF voom_OopRight
<1>2. Told(mode, bnodes, levels, Body) /\ mode \in OneLineModes
  BY DEF OutlineTells, Tells
<1>3. PICK N \in Nat : N = Len(levels) /\ ln1 \in 2 .. N /\ ln1 \in Int
  BY <1>2 DEF Told
<1>4. \A i \in 1 .. N : levels[i] \in Int /\ levels[i] > 0
  BY <1>2, <1>3, LevelsArePositive
<1>5. PICK x \in Int, y \in Int : x = levels[ln1] /\ y = levels[ln1 - 1] /\ x > 0 /\ x <= y
  <2>1. ln1 \in 1 .. N /\ ln1 - 1 \in 1 .. N
    BY <1>3
  <2> QED
    BY <1>1, <1>4, <2>1
<1>6. PICK old, new : old = NodesIn(bnodes, levels, Body) /\ new = NodesIn(bn2, lv2, B2)
  OBVIOUS
<1>7. /\ AreMoved(old, new, ln1 - 1, ln2 + 1 - ln1, ln1 - 2, 1)
      /\ ln2 \in ln1 .. Len(levels) /\ LevelsAre(old, levels, Len(levels) - 1)
      /\ F!Branches(old, ln1 - 1, ln2 - 1)
      /\ TopIn(bn2, B2) = TopIn(bnodes, Body)
      /\ mode' = mode /\ (hookOK => hookOK')
  <2>1. PICK d \in Int : d = 1 /\ levels[ln1] + d > 0
    BY <1>5
  <2>2. Promote(ln1, ln2, "right", d)
    BY <1>1, <2>1
  <2> QED
    BY <1>6, <2>1, <2>2, PromoteMoves
<1>8. PICK a \in Int, n \in Int, k \in Int :
        a = ln1 - 1 /\ n = ln2 + 1 - ln1 /\ k = ln1 - 2
  BY <1>3, <1>7
<1>9. n > 0 /\ a + n - 1 = ln2 - 1 /\ k + 1 = a /\ k >= 1 /\ a + 1 = ln1 /\ k < a /\ a \in 1 .. N - 1
      /\ k \in 1 .. N - 1 /\ k + 1 = ln1 - 1
  BY <1>1, <1>3, <1>7, <1>8
<1>10. \A i \in 1 .. N - 1 : old[i].lev = levels[i + 1] /\ old[i].lev \in Int
  BY <1>3, <1>7 DEF LevelsAre
<1>11. PICK w \in Int : w = x + 1 /\ w = old[a].lev + 1
  <2>1. old[a].lev = x
    BY <1>5, <1>9, <1>10
  <2> QED
    BY <1>5, <2>1
<1>12. w <= RestLevel(old, a, n, k) + 1
  BY <1>5, <1>9, <1>10, <1>11 DEF RestLevel
<1>13. ASSUME k < Len(old) - n
       PROVE  RestLevel(old, a, n, k + 1) <= w
  <2>1. Len(old) = N - 1
    BY <1>3, <1>7 DEF LevelsAre
  <2>2. PICK j \in Int : j = k + 1 /\ ~(j < a) /\ j + n = ln2 /\ ln2 \in 1 .. N - 1 /\ ln2 < N
    BY <1>3, <1>7, <1>8, <1>9, <1>13, <2>1
  <2>3. RestLevel(old, a, n, j) = levels[ln2 + 1] /\ levels[ln2 + 1] \in Int
    BY <1>10, <2>2 DEF RestLevel
  <2>4. levels[ln2 + 1] <= levels[ln1]
    BY <1>2, <1>3, <2>2, RegionIsClosed
  <2> QED
    BY <1>5, <1>11, <2>2, <2>3, <2>4
<1>14. PICK b : b = a + n - 1 /\ F!Branches(old, a, b)
  BY <1>7, <1>8, <1>9
<1>15. AreMoved(old, new, a, n, k, 1)
  BY <1>7, <1>8, Zenon
<1>16. F!Move(old, new)
  BY <1>2, <1>11, <1>12, <1>13, <1>14, <1>15, MoveAttaches, Zenon
<1> QED
  BY <1>1, <1>6, <1>7, <1>16

\* A branch at its place with level l.
IsRaised(old, new, a, b, l) ==
  new = SubSeq(old, 1, a - 1) \o F!AtLevel(Slice(old, a, b), l) \o SubSeq(old, b + 1, Len(old))

\* A change of level.
LEMMA RaisedIs ==
  ASSUME mode \in OneLineModes, NEW old, NEW new, NEW a \in Int, NEW n \in Int, NEW d \in Int,
         NEW k, k = a - 1, AreMoved(old, new, a, n, k, d), NEW b, b = a + n - 1
  PROVE  IsRaised(old, new, a, b, old[a].lev + d)
<1>1. PICK N \in Nat : N = Len(old)
  BY DEF AreMoved
<1>2. /\ old \in Seq(NodeType) /\ new \in Seq(NodeType) /\ Len(new) = N
      /\ a \in 1 .. N /\ n \in 1 .. N - a + 1 /\ k \in 0 .. N - n
  BY <1>1 DEF AreMoved
<1>3. \A j \in 1 .. n : new[k + j] = WithLev(old[a + j - 1], old[a + j - 1].lev + d)
  BY DEF AreMoved
<1>4. b \in a .. N /\ b - a + 1 = n /\ b \in Int /\ b + 1 = a + n /\ k + 1 = a
  BY <1>2
<1>5. new[k + 1].lev = old[a].lev + d /\ old[a].lev + d \in Int
  <2>1. 1 \in 1 .. n /\ a + 1 - 1 = a
    BY <1>2
  <2>2. new[k + 1] = WithLev(old[a], old[a].lev + d)
    BY <1>3, <2>1
  <2>3. old[a] \in NodeType
    BY <1>1, <1>2
  <2>4. old[a].lev + d \in Int
    <3>1. old[a].lev \in Int
      BY <2>3 DEF NodeType
    <3> QED
      BY <3>1
  <2> QED
    <3>1. PICK y \in NodeType, w \in Int : y = old[a] /\ w = old[a].lev + d
      BY <2>3, <2>4
    <3>2. WithLev(y, w).lev = w
      BY NodeLevIs
    <3> QED
      BY <2>2, <3>1, <3>2
<1>6. PICK r, t, u : /\ r = CutOut(old, a, b) /\ t = Slice(old, a, b)
                     /\ u = F!AtLevel(t, old[a].lev + d)
  OBVIOUS
<1>7. new = PutAfter(r, k, u)
  <2>1. new = PutAfter(r, k, F!AtLevel(t, new[k + 1].lev))
    BY <1>6, MovedHaveBranch, HasBranchIs
  <2> QED
    BY <1>5, <1>6, <2>1
<1>8. /\ r \in Seq(NodeType) /\ Len(r) = N - n
      /\ \A i \in 1 .. N - n : r[i] = old[IF i < a THEN i ELSE i + n]
  <2>1. a \in 1 .. Len(old) /\ n \in 1 .. Len(old) - a + 1
    BY <1>1, <1>2
  <2>2. old \in Seq(NodeType)
    BY <1>2
  <2>3. IsRest(r, old, a, n)
    BY <1>6, <2>1, <2>2, RestIs, Zenon
  <2> QED
    BY <1>1, <2>3 DEF IsRest
<1>9. SubSeq(r, 1, k) = SubSeq(old, 1, a - 1)
  <2> DEFINE s1 == SubSeq(r, 1, k)
             s2 == SubSeq(old, 1, a - 1)
  <2>1. s1 \in Seq(NodeType) /\ Len(s1) = k /\ \A i \in 1 .. k : s1[i] = r[i]
    <3>1. k \in Nat /\ k <= Len(r) /\ r \in Seq(NodeType)
      BY <1>2, <1>8
    <3> QED
      BY <3>1
  <2>2. s2 \in Seq(NodeType) /\ Len(s2) = k /\ \A i \in 1 .. k : s2[i] = old[i]
    BY <1>1, <1>2
  <2> HIDE DEF s1, s2
  <2>3. \A i \in 1 .. k : i < a /\ i \in 1 .. N - n
    BY <1>2
  <2>4. \A i \in 1 .. k : s1[i] = s2[i]
    BY <1>8, <2>1, <2>2, <2>3
  <2>5. s1 = s2
    BY <2>1, <2>2, <2>4, SameSeq
  <2> QED
    BY <2>5 DEF s1, s2
<1>10. SubSeq(r, k + 1, Len(r)) = SubSeq(old, b + 1, Len(old))
  <2> DEFINE s1 == SubSeq(r, k + 1, Len(r))
             s2 == SubSeq(old, b + 1, Len(old))
  <2>1. PICK z \in Nat : z = N - n - k /\ z = N - b
    BY <1>2, <1>4
  <2>2. s1 \in Seq(NodeType) /\ Len(s1) = z /\ \A i \in 1 .. z : s1[i] = r[k + 1 + i - 1]
    BY <1>2, <1>8, <2>1
  <2>3. s2 \in Seq(NodeType) /\ Len(s2) = z /\ \A i \in 1 .. z : s2[i] = old[b + 1 + i - 1]
    BY <1>1, <1>2, <1>4, <2>1
  <2> HIDE DEF s1, s2
  <2>4. ASSUME NEW i \in 1 .. z
        PROVE  s1[i] = s2[i]
    <3>1. PICK j \in Int : j = k + 1 + i - 1 /\ ~(j < a) /\ j \in 1 .. N - n /\ j + n = b + 1 + i - 1
      BY <1>2, <1>4, <2>1
    <3> QED
      BY <1>8, <2>2, <2>3, <3>1
  <2>5. s1 = s2
    BY <2>2, <2>3, <2>4, SameSeq
  <2> QED
    BY <2>5 DEF s1, s2
<1> QED
  BY <1>6, <1>7, <1>9, <1>10 DEF PutAfter, IsRaised

\* voom_OopLeft makes the region siblings of their parent.
LEMMA LeftRaises ==
  ASSUME OutlineTells, NEW ln1 \in 2 .. Len(levels), NEW ln2 \in Ends(ln1), voom_OopLeft(ln1, ln2),
         NEW bn2, bn2 = bnodes', NEW lv2, lv2 = levels', NEW B2, B2 = Body', Told(mode, bn2, lv2, B2)
  PROVE  /\ F!Raise(NodesIn(bnodes, levels, Body), NodesIn(bn2, lv2, B2))
         /\ TopIn(bn2, B2) = TopIn(bnodes, Body)
         /\ clip' = clip /\ mode' = mode /\ (hookOK => hookOK')
<1>1. /\ levels[ln1] # 1 /\ (ln2 < Len(levels) /\ levels[ln2 + 1] = levels[ln1] => AAMLEFT)
      /\ Promote(ln1, ln2, "left", -1) /\ clip' = clip
  BY Zenon DEF voom_OopLeft
<1>2. Told(mode, bnodes, levels, Body) /\ mode \in OneLineModes
  BY DEF OutlineTells, Tells
<1>3. PICK N \in Nat : N = Len(levels) /\ ln1 \in 2 .. N /\ ln1 \in Int
  BY <1>2 DEF Told
<1>4. \A i \in 1 .. N : levels[i] \in Int /\ levels[i] > 0
  BY <1>2, <1>3, LevelsArePositive
<1>5. PICK x \in Int : x = levels[ln1] /\ x > 1
  <2>1. ln1 \in 1 .. N
    BY <1>3
  <2> QED
    BY <1>1, <1>4, <2>1
<1>6. PICK old, new : old = NodesIn(bnodes, levels, Body) /\ new = NodesIn(bn2, lv2, B2)
  OBVIOUS
<1>7. PICK d \in Int : d = -1 /\ levels[ln1] + d > 0
  BY <1>5
<1>8. /\ AreMoved(old, new, ln1 - 1, ln2 + 1 - ln1, ln1 - 2, d)
      /\ ln2 \in ln1 .. Len(levels) /\ LevelsAre(old, levels, Len(levels) - 1)
      /\ F!Branches(old, ln1 - 1, ln2 - 1)
      /\ TopIn(bn2, B2) = TopIn(bnodes, Body)
      /\ mode' = mode /\ (hookOK => hookOK')
  <2>1. Promote(ln1, ln2, "left", d)
    BY <1>1, <1>7
  <2> QED
    BY <1>6, <1>7, <2>1, PromoteMoves
<1>9. PICK a \in Int, n \in Int, k \in Int, b \in Int :
        a = ln1 - 1 /\ n = ln2 + 1 - ln1 /\ k = ln1 - 2 /\ b = ln2 - 1
  BY <1>3, <1>8
<1>10. a + n - 1 = b /\ k = a - 1 /\ a + 1 = ln1 /\ a \in 1 .. N - 1 /\ b \in a .. N - 1 /\ b + 1 = ln2
  BY <1>3, <1>8, <1>9
<1>11. Len(old) = N - 1 /\ \A i \in 1 .. N - 1 : old[i].lev = levels[i + 1] /\ old[i].lev \in Int
  BY <1>3, <1>8 DEF LevelsAre
<1>12. old[a].lev = x /\ old[a].lev + d = old[a].lev - 1
  BY <1>5, <1>7, <1>10, <1>11
<1>13. AreMoved(old, new, a, n, k, d) /\ F!Branches(old, a, b)
  BY <1>8, <1>9, Zenon
<1>14. new = SubSeq(old, 1, a - 1) \o F!AtLevel(F!Slice(old, a, b), old[a].lev - 1)
               \o SubSeq(old, b + 1, Len(old))
  <2>1. IsRaised(old, new, a, b, old[a].lev + d)
    <3>1. k = a - 1 /\ b = a + n - 1 /\ a \in Int /\ n \in Int /\ d \in Int
      BY <1>7, <1>9, <1>10
    <3> QED
      BY <1>2, <1>13, <3>1, RaisedIs, Zenon
  <2> QED
    BY <1>12, <2>1, ForestOperators DEF IsRaised
<1>15. AAMLEFT \/ b = Len(old) \/ old[b + 1].lev < old[a].lev
  <2> SUFFICES ASSUME ~AAMLEFT, b # Len(old)
               PROVE  old[b + 1].lev < old[a].lev
    OBVIOUS
  <2>1. ln2 < N /\ b + 1 \in 1 .. N - 1 /\ (b + 1) + 1 = ln2 + 1
    BY <1>3, <1>10, <1>11
  <2>2. levels[ln2 + 1] <= levels[ln1]
    BY <1>2, <1>3, <2>1, RegionIsClosed
  <2>3. levels[ln2 + 1] # levels[ln1]
    BY <1>1, <1>3, <2>1
  <2>4. PICK y \in Int : y = levels[ln2 + 1] /\ old[b + 1].lev = y
    BY <1>11, <2>1
  <2> QED
    BY <1>5, <1>12, <2>2, <2>3, <2>4
<1>16. a \in 1 .. Len(old) /\ b \in a .. Len(old) /\ old[a].lev > 1
  BY <1>5, <1>10, <1>11, <1>12
<1>17. F!Raise(old, new)
  BY <1>13, <1>14, <1>15, <1>16, Zenon DEF F!Raise
<1> QED
  BY <1>1, <1>6, <1>8, <1>17

-----------------------------------------------------------------------------
(* Copies.                                                                 *)

\* The clipboard holds the nodes of the region.
LEMMA RegionIsTaken ==
  ASSUME mode \in OneLineModes, Told(mode, bnodes, levels, Body),
         NEW ln1 \in 2 .. Len(levels), NEW ln2 \in Ends(ln1),
         NEW C, C = Slice(Body, bnodes[ln1], EndIn(bnodes, Body, ln2)),
         NEW old, old = NodesIn(bnodes, levels, Body),
         NEW new, new = old \/ new = CutOut(old, ln1 - 1, ln2 - 1)
  PROVE  F!Take(old, new, ParsedNodes(mode, C))
<1>1. PICK N \in Nat : N = Len(levels) /\ N = Len(bnodes) /\ ln1 \in 2 .. N /\ ln1 \in Int
  BY DEF Told
<1>2. ln2 \in ln1 .. Len(levels) /\ ln2 \in ln1 .. N /\ ln2 \in Int
  BY <1>1, EndsAre
<1>3. PICK a \in Int, b \in Int, n \in Int :
        a = ln1 - 1 /\ b = ln2 - 1 /\ n = ln2 - ln1 + 1
  BY <1>1, <1>2
<1>4. n >= 1 /\ b - a + 1 = n /\ a \in 1 .. N - 1 /\ b \in a .. N - 1
  BY <1>1, <1>2, <1>3
<1>5. PICK cn, cv : cn = RegionBnodes(bnodes, ln1, ln2) /\ cv = RegionLevels(levels, ln1, ln2)
  OBVIOUS
<1>6. Told(mode, cn, cv, C) /\ IsCopy(bnodes, levels, Body, ln1, ln2, cn, cv, C)
  <2>1. ln1 \in 2 .. Len(bnodes) /\ ln2 \in ln1 .. Len(bnodes)
    BY <1>1, <1>2
  <2> QED
    BY <1>5, <2>1, RegionKeepsNodes
<1>7. PICK held : held = ParsedNodes(mode, C) /\ held = NodesIn(cn, cv, C)
  BY <1>6, ParsedIsTold
<1>8. /\ held \in Seq(NodeType) /\ Len(held) = Len(cn) - 1
      /\ \A i \in 1 .. Len(cn) - 1 : held[i] = NodeIn(cn, cv, C, i + 1)
  BY <1>6, <1>7, NodesInAre
<1>9. /\ Len(cn) = n + 1
      /\ \A j \in 1 .. n : /\ IsNodeOf(bnodes, levels, Body, cn, cv, C, j + 1, ln1 + j - 1)
                           /\ cv[j + 1] = levels[ln1 + j - 1]
  <2>1. ln2 - ln1 + 2 = n + 1
    BY <1>1, <1>2, <1>3
  <2> QED
    BY <1>3, <1>6, <2>1 DEF IsCopy
<1>10. /\ old \in Seq(NodeType) /\ Len(old) = N - 1
       /\ \A i \in 1 .. N - 1 : /\ old[i] = NodeIn(bnodes, levels, Body, i + 1)
                                /\ old[i].lev = levels[i + 1]
  BY <1>1, NodesInAre
<1> DEFINE t == Slice(old, a, b)
<1>11. t \in Seq(NodeType) /\ Len(t) = n /\ \A j \in 1 .. n : t[j] = old[a + j - 1]
  <2>1. old \in Seq(NodeType) /\ a \in 1 .. Len(old) /\ b \in a .. Len(old)
    BY <1>4, <1>10
  <2> QED
    BY <1>4, <2>1, SliceIs
<1> HIDE DEF t
<1>12. ASSUME NEW j \in 1 .. n
       PROVE  held[j] = t[j] /\ t[j] \in NodeType
  <2>1. PICK i \in Int : i = a + j - 1 /\ i + 1 = ln1 + j - 1 /\ i \in 1 .. N - 1
    BY <1>1, <1>2, <1>3
  <2>2. held[j] = NodeIn(cn, cv, C, j + 1)
    BY <1>8, <1>9
  <2>3. /\ NodeIn(cn, cv, C, j + 1) = [NodeIn(bnodes, levels, Body, i + 1) EXCEPT !.lev = cv[j + 1]]
        /\ cv[j + 1] = levels[i + 1]
    BY <1>9, <2>1 DEF IsNodeOf
  <2>4. held[j] = WithLev(old[i], old[i].lev)
    BY <1>10, <2>1, <2>2, <2>3 DEF WithLev
  <2>5. old[i] \in NodeType
    BY <1>10, <2>1
  <2>6. WithLev(old[i], old[i].lev) = old[i]
    <3>1. old[i].lev \in Int
      BY <2>5 DEF NodeType
    <3> QED
      BY <2>5, <3>1, NodeLevIs
  <2> QED
    BY <1>11, <2>1, <2>4, <2>5, <2>6
<1>13. held = t
  BY <1>8, <1>9, <1>11, <1>12, SameSeq
<1>14. 1 \in 1 .. n
  BY <1>4
<1>15. PICK l \in Int : l = old[a].lev /\ l = t[1].lev
  <2>1. a + 1 - 1 = a
    OBVIOUS
  <2>2. t[1] = old[a]
    BY <1>11, <1>14, <2>1
  <2>3. t[1].lev \in Int
    BY <1>12, <1>14 DEF NodeType
  <2> QED
    BY <2>2, <2>3
<1>16. F!AtLevel(t, l) = t
  <2>1. t # <<>>
    BY <1>4, <1>11, EmptySeq
  <2>2. /\ F!AtLevel(t, l) \in Seq(NodeType) /\ Len(F!AtLevel(t, l)) = n
        /\ \A i \in 1 .. n : F!AtLevel(t, l)[i] = WithLev(t[i], t[i].lev + l - t[1].lev)
    BY <1>11, <2>1, AtLevelIs
  <2>3. ASSUME NEW i \in 1 .. n
        PROVE  WithLev(t[i], t[i].lev + l - t[1].lev) = t[i]
    <3>1. t[i] \in NodeType /\ t[i].lev \in Int
      BY <1>12 DEF NodeType
    <3>2. t[i].lev + l - t[1].lev = t[i].lev
      BY <1>15, <3>1
    <3> QED
      BY <3>1, <3>2, NodeLevIs
  <2> QED
    BY <1>11, <2>2, <2>3, SameSeq
<1>17. LevelsAre(old, levels, Len(levels) - 1)
  BY NodeLevels
<1>18. F!Branches(old, a, b)
  BY <1>3, <1>17, RegionBranches
<1>19. ~(mode = "rest")
  BY DEF OneLineModes, MTYPE0
<1>20. held = F!AtLevel(F!Slice(old, a, b), IF mode = "rest" THEN 1 ELSE old[a].lev)
  BY <1>13, <1>15, <1>16, <1>19, ForestOperators DEF t
<1>21. new \in {old, F!CutOut(old, a, b)}
  BY <1>3, ForestOperators
<1>22. a \in 1 .. Len(old) /\ b \in a .. Len(old)
  BY <1>4, <1>10
<1> QED
  BY <1>7, <1>18, <1>20, <1>21, <1>22, Zenon DEF F!Take

\* voom_OopCopy takes branches to the clipboard.
LEMMA CopyTakes ==
  ASSUME OutlineTells, NEW ln1 \in 2 .. Len(levels), NEW ln2 \in Ends(ln1), voom_OopCopy(ln1, ln2)
  PROVE  /\ F!Take(NodesIn(bnodes, levels, Body), NodesIn(bnodes, levels, Body), ParsedNodes(mode, clip'))
         /\ Body' = Body /\ mode' = mode /\ (hookOK => hookOK')
<1>1. Told(mode, bnodes, levels, Body) /\ mode \in OneLineModes
  BY DEF OutlineTells, Tells
<1>2. clip' = Slice(Body, bnodes[ln1], EndOf(ln2)) /\ Body' = Body /\ mode' = mode /\ hookOK' = hookOK
  BY Zenon DEF voom_OopCopy
<1>3. clip' = Slice(Body, bnodes[ln1], EndIn(bnodes, Body, ln2))
  BY <1>2, EndOfIs
<1>4. PICK C, old : C = clip' /\ old = NodesIn(bnodes, levels, Body)
  OBVIOUS
<1>5. F!Take(old, old, ParsedNodes(mode, C))
  BY <1>1, <1>3, <1>4, RegionIsTaken
<1> QED
  BY <1>2, <1>4, <1>5

\* voom_OopCut takes branches to the clipboard and leaves the rest.
LEMMA CutTakes ==
  ASSUME OutlineTells, NEW ln1 \in 2 .. Len(levels), NEW ln2 \in Ends(ln1),
         NEW up \in LineAbove(ln1), voom_OopCut(ln1, ln2, up),
         NEW bn2, bn2 = bnodes', NEW lv2, lv2 = levels', NEW B2, B2 = Body', Told(mode, bn2, lv2, B2)
  PROVE  /\ F!Take(NodesIn(bnodes, levels, Body), NodesIn(bn2, lv2, B2), ParsedNodes(mode, clip'))
         /\ TopIn(bn2, B2) = TopIn(bnodes, Body)
         /\ mode' = mode /\ (hookOK => hookOK')
<1>1. Told(mode, bnodes, levels, Body) /\ mode \in OneLineModes
  BY DEF OutlineTells, Tells
<1>2. /\ TrimsTo(ln1, ln2 + 1 - ln1) /\ Shows(CutOut(Unmarked(Tree, snLn), ln1, ln2), up)
      /\ clip' = Slice(Body, bnodes[ln1], EndIn(bnodes, Body, ln2))
  BY CutTrims, Zenon
<1>3. mode' = mode /\ (hookOK => hookOK')
  BY <1>2, Zenon DEF Shows
<1>4. PICK N \in Nat : N = Len(levels) /\ N = Len(bnodes) /\ ln1 \in 2 .. N /\ ln1 \in Int
  BY <1>1 DEF Told
<1>5. ln2 \in ln1 .. N /\ ln2 \in Int
  BY <1>1, <1>4, EndsAre
<1>6. PICK p \in Int, n \in Int : p = ln1 /\ n = ln2 + 1 - ln1 /\ n >= 1 /\ p + n - 1 <= N /\ TrimsTo(p, n)
  BY <1>2, <1>4, <1>5
<1>7. PICK bl \in Int, size \in Int :
        /\ CanTrim(bnodes, Body, p, n, bl, size)
        /\ TrimsNodes(bnodes, Body, p, n, bl, size, B2)
        /\ IsTrimmed(bnodes, levels, Body, p, n, bl, size, bn2, lv2, B2)
  BY <1>6 DEF TrimsTo
<1>8. /\ AreRenumbered(bnodes, levels, Body, bn2, lv2, B2, TrimOrigin(p, n))
      /\ TopIn(bn2, B2) = TopIn(bnodes, Body)
  BY <1>1, <1>7, TrimKeepsNodes
<1>9. /\ Len(bn2) = N - n
      /\ \A i \in 1 .. p - 1 : lv2[i] = levels[i]
      /\ \A i \in p .. N - n : lv2[i] = levels[i + n]
  BY <1>4, <1>7 DEF IsTrimmed
<1>10. PICK old, new : old = NodesIn(bnodes, levels, Body) /\ new = NodesIn(bn2, lv2, B2)
  OBVIOUS
<1>11. /\ old \in Seq(NodeType) /\ Len(old) = N - 1
       /\ \A i \in 1 .. N - 1 : /\ old[i] = NodeIn(bnodes, levels, Body, i + 1)
                                /\ old[i].lev = levels[i + 1]
  <2>1. /\ old \in Seq(NodeType) /\ Len(old) = Len(bnodes) - 1
        /\ \A i \in 1 .. Len(bnodes) - 1 : old[i] = NodeIn(bnodes, levels, Body, i + 1) /\ old[i].lev = levels[i + 1]
    <3>1. LevelsAre(old, levels, Len(levels) - 1)
      BY <1>1, <1>10, NodeLevels
    <3>2. \A i \in 1 .. Len(bnodes) - 1 : old[i] = NodeIn(bnodes, levels, Body, i + 1)
      BY <1>10 DEF NodesIn
    <3>3. Len(levels) = N /\ Len(bnodes) = N
      BY <1>4
    <3> QED
      BY <3>1, <3>2, <3>3 DEF LevelsAre
  <2> QED
    BY <1>4, <2>1
<1>12. /\ new \in Seq(NodeType) /\ Len(new) = N - n - 1
       /\ \A i \in 1 .. N - n - 1 : new[i] = NodeIn(bn2, lv2, B2, i + 1)
  <2>1. /\ new \in Seq(NodeType) /\ Len(new) = Len(bn2) - 1
        /\ \A i \in 1 .. Len(bn2) - 1 : new[i] = NodeIn(bn2, lv2, B2, i + 1)
    BY <1>10, NodesInAre
  <2> QED
    BY <1>9, <2>1
<1>13. PICK a \in Int, b \in Int : a = ln1 - 1 /\ b = ln2 - 1 /\ b = a + n - 1
                                   /\ a \in 1 .. N - 1 /\ n \in 1 .. (N - 1) - a + 1
  BY <1>4, <1>5, <1>6
<1>14. PICK r : r = CutOut(old, a, b)
  OBVIOUS
<1>15. /\ r \in Seq(NodeType) /\ Len(r) = N - 1 - n
       /\ \A i \in 1 .. N - 1 - n : r[i] = old[IF i < a THEN i ELSE i + n]
  <2>1. a \in 1 .. Len(old) /\ n \in 1 .. Len(old) - a + 1
    BY <1>11, <1>13
  <2>2. old \in Seq(NodeType) /\ b = a + n - 1
    BY <1>11, <1>13
  <2>3. IsRest(r, old, a, n)
    BY <1>14, <2>1, <2>2, RestIs, Zenon
  <2> QED
    BY <1>11, <2>3 DEF IsRest
<1>16. ASSUME NEW i \in 1 .. N - n - 1
       PROVE  new[i] = r[i]
  <2>1. PICK x \in Int : x = (IF i < a THEN i ELSE i + n) /\ x \in 1 .. N - 1
    BY <1>6, <1>13
  <2>2. i + 1 \in 2 .. Len(bn2) /\ i \in 1 .. N - 1 - n
    BY <1>9
  <2>3. TrimOrigin(p, n)[i + 1] = x + 1 /\ lv2[i + 1] = levels[x + 1]
    <3>1. CASE i < a
      <4>1. PICK y \in Int : y = i + 1 /\ y < p /\ x = i /\ y \in 1 .. p - 1
        BY <1>6, <1>13, <2>1, <3>1
      <4> QED
        BY <1>9, <4>1 DEF TrimOrigin
    <3>2. CASE ~(i < a)
      <4>1. PICK y \in Int : y = i + 1
        OBVIOUS
      <4>3. x = i + n /\ a <= i /\ i <= N - n - 1 /\ a + 1 = p
        BY <1>4, <1>6, <1>13, <2>1, <3>2
      <4>5. ~(y < p)
        BY <4>1, <4>3
      <4>6. y + n = x + 1
        BY <4>1, <4>3
      <4>2. ~(y < p) /\ y + n = x + 1 /\ y \in p .. N - n
        BY <4>1, <4>3, <4>5, <4>6
      <4> QED
        BY <1>9, <4>1, <4>2, <4>3 DEF TrimOrigin
    <3> QED
      BY <3>1, <3>2
  <2>4. IsNodeOf(bnodes, levels, Body, bn2, lv2, B2, i + 1, x + 1)
    BY <1>8, <2>2, <2>3 DEF AreRenumbered
  <2>5. new[i] = WithLev(old[x], old[x].lev)
    BY <1>11, <1>12, <2>1, <2>3, <2>4 DEF IsNodeOf, WithLev
  <2>6. old[x] \in NodeType
    BY <1>11, <2>1
  <2>7. old[x].lev \in Int
    BY <2>6 DEF NodeType
  <2>8. WithLev(old[x], old[x].lev) = old[x]
    BY <2>6, <2>7, NodeLevIs
  <2> QED
    BY <1>15, <2>1, <2>2, <2>5, <2>8
<1>17. new = r
  <2>1. N - n - 1 = N - 1 - n
    BY <1>6
  <2> QED
    BY <1>12, <1>15, <1>16, <2>1, SameSeq
<1>18. new = CutOut(old, ln1 - 1, ln2 - 1)
  BY <1>13, <1>14, <1>17
<1>19. PICK C : C = clip' /\ C = Slice(Body, bnodes[ln1], EndIn(bnodes, Body, ln2))
  BY <1>2
<1>20. F!Take(old, new, ParsedNodes(mode, C))
  BY <1>1, <1>10, <1>18, <1>19, RegionIsTaken
<1> QED
  BY <1>3, <1>8, <1>10, <1>19, <1>20

-----------------------------------------------------------------------------
(* New nodes.                                                              *)

\* The levels of an outline with n others after node r.
LevelsJoined(lv, cv, lv2, r, n, N, d) ==
  /\ \A i \in 1 .. r : lv2[i] = lv[i]
  /\ \A j \in 1 .. n : lv2[r + j] = cv[j + 1] + d
  /\ \A i \in r + 1 .. N : lv2[i + n] = lv[i]

\* The nodes of an outline.
AreNodesOf(ns, bn, lv, B) ==
  /\ ns \in Seq(NodeType) /\ Len(ns) = Len(bn) - 1
  /\ \A i \in 1 .. Len(bn) - 1 : ns[i] = NodeIn(bn, lv, B, i + 1) /\ ns[i].lev = lv[i + 1]

\* The nodes of an outline and their levels.
LEMMA NodesInHave ==
  ASSUME NEW m, NEW bn, NEW lv, NEW B, Told(m, bn, lv, B)
  PROVE  AreNodesOf(NodesIn(bn, lv, B), bn, lv, B)
<1>1. PICK ns : ns = NodesIn(bn, lv, B)
  OBVIOUS
<1>2. /\ ns \in Seq(NodeType) /\ Len(ns) = Len(bn) - 1
      /\ \A i \in 1 .. Len(bn) - 1 : ns[i] = NodeIn(bn, lv, B, i + 1) /\ ns[i].lev = lv[i + 1]
  BY <1>1, NodesInAre
<1> QED
  BY <1>1, <1>2 DEF AreNodesOf

\* The nodes that are put in are whole branches in the new outline.
LEMMA JoinedHaveBranch ==
  ASSUME NEW m, NEW bn, NEW lv, NEW B, Told(m, bn, lv, B), NEW cn, NEW cv, NEW C, Told(m, cn, cv, C),
         NEW bn2, NEW lv2, NEW B2, Told(m, bn2, lv2, B2),
         NEW N \in Nat, NEW r \in 1 .. N, NEW n \in Nat, n >= 1, NEW d \in Int,
         N = Len(bn), Len(cn) = n + 1,
         AreJoined(bn, lv, B, cn, cv, C, bn2, lv2, B2, r, n), LevelsJoined(lv, cv, lv2, r, n, N, d)
  PROVE  HasBranch(NodesIn(bn2, lv2, B2), NodesIn(bn, lv, B), r - 1, NodesIn(cn, cv, C), d)
<1>1. PICK old, held, new : /\ old = NodesIn(bn, lv, B) /\ held = NodesIn(cn, cv, C)
                            /\ new = NodesIn(bn2, lv2, B2)
  OBVIOUS
<1>2. /\ Len(bn2) = N + n
      /\ \A i \in 2 .. r : IsNodeOf(bn, lv, B, bn2, lv2, B2, i, i)
      /\ \A j \in 1 .. n : IsNodeOf(cn, cv, C, bn2, lv2, B2, r + j, j + 1)
      /\ \A i \in r + 1 .. N : IsNodeOf(bn, lv, B, bn2, lv2, B2, i + n, i)
  BY DEF AreJoined
<1>3. /\ \A i \in 1 .. r : lv2[i] = lv[i]
      /\ \A j \in 1 .. n : lv2[r + j] = cv[j + 1] + d
      /\ \A i \in r + 1 .. N : lv2[i + n] = lv[i]
  BY DEF LevelsJoined
<1>4. /\ old \in Seq(NodeType) /\ Len(old) = N - 1
      /\ \A i \in 1 .. N - 1 : old[i] = NodeIn(bn, lv, B, i + 1) /\ old[i].lev = lv[i + 1]
  <2>1. /\ old \in Seq(NodeType) /\ Len(old) = Len(bn) - 1
        /\ \A i \in 1 .. Len(bn) - 1 : old[i] = NodeIn(bn, lv, B, i + 1) /\ old[i].lev = lv[i + 1]
    BY <1>1, NodesInAre
  <2> QED
    BY <2>1
<1>5. /\ held \in Seq(NodeType) /\ Len(held) = n
      /\ \A i \in 1 .. n : held[i] = NodeIn(cn, cv, C, i + 1) /\ held[i].lev = cv[i + 1]
  <2>1. /\ held \in Seq(NodeType) /\ Len(held) = Len(cn) - 1
        /\ \A i \in 1 .. Len(cn) - 1 : held[i] = NodeIn(cn, cv, C, i + 1) /\ held[i].lev = cv[i + 1]
    <3>1. AreNodesOf(held, cn, cv, C)
      BY <1>1, NodesInHave, Zenon
    <3> QED
      BY <3>1 DEF AreNodesOf
  <2>2. Len(cn) - 1 = n
    OBVIOUS
  <2> QED
    BY <2>1, <2>2
<1>6. /\ new \in Seq(NodeType) /\ Len(new) = N - 1 + n
      /\ \A i \in 1 .. N - 1 + n : new[i] = NodeIn(bn2, lv2, B2, i + 1)
  <2>1. /\ new \in Seq(NodeType) /\ Len(new) = Len(bn2) - 1
        /\ \A i \in 1 .. Len(bn2) - 1 : new[i] = NodeIn(bn2, lv2, B2, i + 1)
    BY <1>1, NodesInAre
  <2>2. Len(bn2) - 1 = N - 1 + n
    BY <1>2
  <2> QED
    BY <2>1, <2>2
<1>7. ASSUME NEW i \in 1 .. N - 1
      PROVE  WithLev(old[i], lv[i + 1]) = old[i]
  <2>1. old[i] \in NodeType
    BY <1>4
  <2>2. old[i].lev \in Int
    BY <2>1 DEF NodeType
  <2> QED
    BY <1>4, <2>1, <2>2, NodeLevIs
<1>8. ASSUME NEW i \in 1 .. r - 1
      PROVE  new[i] = old[i]
  <2>1. PICK j \in Int : j = i + 1 /\ j \in 2 .. r /\ j \in 1 .. r /\ i \in 1 .. N - 1 /\ i \in 1 .. N - 1 + n
    OBVIOUS
  <2>2. NodeIn(bn2, lv2, B2, j) = [NodeIn(bn, lv, B, j) EXCEPT !.lev = lv2[j]] /\ lv2[j] = lv[j]
    BY <1>2, <1>3, <2>1 DEF IsNodeOf
  <2>3. new[i] = WithLev(old[i], lv[i + 1])
    BY <1>4, <1>6, <2>1, <2>2 DEF WithLev
  <2> QED
    BY <1>7, <2>1, <2>3
<1>9. ASSUME NEW j \in 1 .. n
      PROVE  new[r - 1 + j] = WithLev(held[j], held[j].lev + d)
  <2>1. PICK i \in Int : i = r - 1 + j /\ i + 1 = r + j /\ i \in 1 .. N - 1 + n
    OBVIOUS
  <2>2. /\ NodeIn(bn2, lv2, B2, r + j) = [NodeIn(cn, cv, C, j + 1) EXCEPT !.lev = lv2[r + j]]
        /\ lv2[r + j] = cv[j + 1] + d
    BY <1>2, <1>3 DEF IsNodeOf
  <2> QED
    BY <1>5, <1>6, <2>1, <2>2 DEF WithLev
<1>10. ASSUME NEW i \in r .. N - 1
       PROVE  new[i + n] = old[i]
  <2>1. PICK j \in Int : /\ j = i + 1 /\ j \in r + 1 .. N /\ i \in 1 .. N - 1
                         /\ i + n \in 1 .. N - 1 + n /\ i + n + 1 = j + n
    OBVIOUS
  <2>2. /\ NodeIn(bn2, lv2, B2, j + n) = [NodeIn(bn, lv, B, j) EXCEPT !.lev = lv2[j + n]]
        /\ lv2[j + n] = lv[j]
    BY <1>2, <1>3, <2>1 DEF IsNodeOf
  <2>3. new[i + n] = WithLev(old[i], lv[i + 1])
    BY <1>4, <1>6, <2>1, <2>2 DEF WithLev
  <2> QED
    BY <1>7, <2>1, <2>3
<1>11. r - 1 \in 0 .. N - 1 /\ r - 1 + 1 = r
  OBVIOUS
<1> QED
  BY <1>1, <1>4, <1>5, <1>6, <1>8, <1>9, <1>10, <1>11 DEF HasBranch

\* Nodes that begin at level w may go after node k.
MayFollow(rest, k, w) ==
  /\ k # 0 => w <= rest[k].lev + 1
  /\ F!Regular(rest) /\ k < Len(rest) => rest[k + 1].lev <= w

\* A branch is placed if it is attached and takes no other node along.
LEMMA PlacedIs ==
  ASSUME mode \in OneLineModes, NEW new, NEW rest, NEW k, NEW branch, NEW d,
         HasBranch(new, rest, k, branch, d), NEW w \in Int, w = branch[1].lev + d,
         MayFollow(rest, k, w)
  PROVE  F!Placed(new, rest, k, branch) /\ k \in 0 .. Len(rest)
<1>1. PICK N \in Nat, n \in Nat : N = Len(rest) /\ n = Len(branch) /\ n >= 1 /\ k \in 0 .. N /\ k \in Int
  BY DEF HasBranch
<1>2. /\ rest \in Seq(NodeType) /\ branch \in Seq(NodeType) /\ d \in Int
      /\ \A i \in 1 .. k : new[i] = rest[i]
      /\ \A j \in 1 .. n : new[k + j] = WithLev(branch[j], branch[j].lev + d)
  BY <1>1 DEF HasBranch
<1>3. new[k + 1].lev = w
  <2>1. 1 \in 1 .. n
    BY <1>1
  <2>2. PICK x \in NodeType : x = branch[1]
    BY <1>1, <1>2, <2>1
  <2>3. new[k + 1] = WithLev(x, w)
    BY <1>2, <2>1, <2>2
  <2>4. WithLev(x, w).lev = w
    BY NodeLevIs
  <2> QED
    BY <2>3, <2>4
<1>4. F!Attached(new, k + 1)
  <2>1. CASE k = 0
    BY <2>1 DEF F!Attached
  <2>2. CASE k # 0
    <3>1. k \in 1 .. k /\ (k + 1) - 1 = k
      BY <1>1, <2>2
    <3> QED
      BY <1>2, <1>3, <2>2, <3>1 DEF F!Attached, MayFollow
  <2> QED
    BY <2>1, <2>2
<1>5. new = PutAfter(rest, k, F!AtLevel(branch, new[k + 1].lev))
  BY HasBranchIs
<1>6. new = F!PutAfter(rest, k, F!AtLevel(branch, new[k + 1].lev))
  BY <1>5, ForestOperators
<1>7. F!Regular(rest) /\ k < Len(rest) => rest[k + 1].lev <= new[k + 1].lev
  BY <1>3 DEF MayFollow
<1>8. F!Placed(new, rest, k, branch)
  BY <1>4, <1>6, <1>7, Zenon DEF F!Placed
<1> QED
  BY <1>1, <1>8

\* Where new nodes go, after node r at level w, when node ln0 is selected:
\* before all nodes, below ln0 as its first child, or behind its branch.
FitsAt(ln0, r, w) ==
  \/ ln0 = 1 /\ r = 1 /\ (w = 1 \/ (Len(levels) > 1 => w = levels[2]))
  \/ ln0 # 1 /\ r = ln0 /\ w = levels[ln0] + 1
  \/ ln0 # 1 /\ r = ln0 /\ w = levels[ln0] /\ ~nodeHasChildren(levels, ln0)
  \/ ln0 # 1 /\ r = BranchEnd(levels, ln0) /\ w = levels[ln0]

\* No node there becomes a child of them.
LEMMA LevelFits ==
  ASSUME levels \in Seq(Positive), NEW ln0 \in 1 .. Len(levels), NEW r, NEW w \in Int, FitsAt(ln0, r, w),
         NEW old, LevelsAre(old, levels, Len(levels) - 1), NEW k, k = r - 1
  PROVE  r \in 1 .. Len(levels) /\ MayFollow(old, k, w)
<1>1. PICK N \in Nat : N = Len(levels) /\ ln0 \in 1 .. N /\ ln0 \in Int
  OBVIOUS
<1>2. \A i \in 1 .. N : levels[i] \in Int /\ levels[i] >= 1
  BY <1>1 DEF Positive
<1>3. /\ old \in Seq(NodeType) /\ Len(old) = N - 1
      /\ \A i \in 1 .. N - 1 : old[i].lev = levels[i + 1] /\ old[i].lev \in Int
  BY <1>1 DEF LevelsAre
<1>4. PICK x \in Int : x = levels[ln0] /\ x >= 1
  BY <1>1, <1>2
<1>5. CASE ln0 = 1 /\ r = 1 /\ (w = 1 \/ (N > 1 => w = levels[2]))
  <2>1. k = 0 /\ k + 1 = 1
    BY <1>5
  <2>2. ASSUME F!Regular(old), k < Len(old)
        PROVE  old[1].lev <= w
    <3>1. 1 \in 1 .. N - 1 /\ N > 1 /\ 1 + 1 = 2 /\ old # <<>>
      BY <1>3, <2>1, <2>2
    <3>2. old[1].lev = 1 /\ old[1].lev = levels[2]
      BY <1>3, <2>2, <3>1 DEF F!Regular
    <3> QED
      BY <1>5, <3>1, <3>2
  <2> QED
    BY <1>1, <1>5, <2>1, <2>2 DEF MayFollow
<1>6. CASE ln0 # 1 /\ r = ln0 /\ w = levels[ln0] + 1
  <2>1. k \in 1 .. N - 1 /\ k + 1 = ln0 /\ k \in Int /\ w = x + 1
    BY <1>1, <1>4, <1>6
  <2>2. old[k].lev = x
    BY <1>3, <1>4, <2>1
  <2>3. ASSUME F!Regular(old), k < Len(old)
        PROVE  old[k + 1].lev <= w
    <3>1. PICK j \in Int : j = k + 1 /\ j # 1 /\ j - 1 = k /\ j \in 1 .. N - 1
      BY <1>3, <2>1, <2>3
    <3>2. F!Attached(old, j)
      <4>1. old # <<>>
        BY <1>3, <3>1
      <4> QED
        BY <1>3, <2>3, <3>1, <4>1 DEF F!Regular
    <3>3. old[j].lev <= old[k].lev + 1
      BY <3>1, <3>2 DEF F!Attached
    <3> QED
      BY <2>1, <2>2, <3>1, <3>3
  <2> QED
    BY <1>1, <1>6, <2>1, <2>2, <2>3 DEF MayFollow
<1>7. CASE ln0 # 1 /\ r = ln0 /\ w = levels[ln0] /\ ~nodeHasChildren(levels, ln0)
  <2>1. k \in 1 .. N - 1 /\ k + 1 = ln0 /\ k \in Int /\ w = x
    BY <1>1, <1>4, <1>7
  <2>2. old[k].lev = x
    BY <1>3, <1>4, <2>1
  <2>3. ASSUME k < Len(old)
        PROVE  old[k + 1].lev <= w
    <3>1. ln0 # N /\ k + 1 \in 1 .. N - 1 /\ (k + 1) + 1 = ln0 + 1
      BY <1>1, <1>3, <2>1, <2>3
    <3>2. PICK y \in Int : y = old[k + 1].lev /\ y = levels[ln0 + 1]
      BY <1>3, <3>1
    <3>3. ~(x < y)
      BY <1>1, <1>4, <1>7, <3>1, <3>2 DEF nodeHasChildren
    <3> QED
      BY <2>1, <3>2, <3>3
  <2> QED
    BY <1>1, <1>7, <2>1, <2>2, <2>3 DEF MayFollow
<1>8. CASE ln0 # 1 /\ r = BranchEnd(levels, ln0) /\ w = levels[ln0]
  <2>1. /\ r \in ln0 .. N /\ \A j \in ln0 + 1 .. r : levels[ln0] < levels[j]
        /\ r < N => levels[r + 1] <= levels[ln0]
    <3>1. ln0 \in 2 .. Len(levels)
      BY <1>1, <1>8
    <3> QED
      BY <1>1, <1>8, <3>1, BranchEndsAt
  <2>2. k \in 1 .. N - 1 /\ k + 1 = r /\ k \in Int /\ w = x /\ r \in Int /\ r \in 1 .. N
    BY <1>1, <1>4, <1>8, <2>1
  <2>3. PICK y \in Int : y = old[k].lev /\ y = levels[r]
    BY <1>3, <2>2
  <2>4. x <= y
    <3>1. CASE r = ln0
      BY <1>4, <2>3, <3>1
    <3>2. CASE r # ln0
      <4>1. r \in ln0 + 1 .. r
        BY <1>1, <2>1, <2>2, <3>2
      <4> QED
        BY <1>4, <2>1, <2>3, <4>1
    <3> QED
      BY <3>1, <3>2
  <2>5. ASSUME k < Len(old)
        PROVE  old[k + 1].lev <= w
    <3>1. r < N /\ k + 1 \in 1 .. N - 1 /\ (k + 1) + 1 = r + 1
      BY <1>1, <1>3, <2>2, <2>5
    <3>2. old[k + 1].lev = levels[r + 1]
      BY <1>3, <3>1
    <3> QED
      BY <1>4, <2>1, <2>2, <3>1, <3>2
  <2> QED
    BY <1>1, <2>2, <2>3, <2>4, <2>5 DEF MayFollow
<1> QED
  BY <1>1, <1>5, <1>6, <1>7, <1>8 DEF FitsAt

\* Where a paste or a new headline puts its nodes, none of the others becomes
\* a child of them.
LEMMA PastedIsPlaced ==
  ASSUME mode \in OneLineModes, Told(mode, bnodes, levels, Body),
         NEW C, NEW p, NEW r, NEW d, NEW e, NEW cn, NEW cv, NEW bn2, NEW lv2, NEW B2, NEW n, NEW z,
         IsPasteOf(mode, bnodes, levels, Body, C, p, r, d, e, cn, cv, bn2, lv2, B2, n, z),
         NEW ln0 \in 1 .. Len(levels), NEW w \in Int, FitsAt(ln0, r, w), w = p.levels[1] + d,
         NEW old, old = NodesIn(bnodes, levels, Body), NEW new, new = NodesIn(bn2, lv2, B2),
         NEW held, held = NodesIn(cn, cv, C)
  PROVE  /\ HasBranch(new, old, r - 1, held, d)
         /\ F!Placed(new, old, r - 1, held) /\ r - 1 \in 0 .. Len(old)
         /\ TopIn(bn2, B2) = TopIn(bnodes, Body)
<1>0. /\ r \in Int /\ d \in Int /\ e \in Int /\ n \in Nat /\ z \in Nat
      /\ CanPaste(mode, bnodes, Body, C, p, r, d, e) /\ p.bnodes[1] = 1
      /\ cn = << 1 >> \o p.bnodes /\ cv = << 1 >> \o p.levels /\ Told(mode, cn, cv, C)
      /\ Told(mode, bn2, lv2, B2) /\ n = Len(p.bnodes) /\ z = Len(C)
      /\ IsPasted(mode, bnodes, levels, Body, C, p, r, d, e, bn2, lv2, B2, n, z)
  BY DEF IsPasteOf
<1>1. /\ AreJoined(bnodes, levels, Body, cn, cv, C, bn2, lv2, B2, r, n)
      /\ TopIn(bn2, B2) = TopIn(bnodes, Body)
  BY PasteKeepsNodes
<1>2. PICK N \in Nat : N = Len(bnodes) /\ N = Len(levels)
  BY DEF Told
<1>3. r \in 1 .. N
  BY <1>0, <1>2 DEF CanPaste
<1>4. /\ Len(cn) = n + 1 /\ n >= 1
      /\ \A j \in 1 .. n : cv[j + 1] = p.levels[j]
  <2>1. p.bnodes \in Seq(Int) /\ p.levels \in Seq(Int) /\ Len(p.levels) = n
    BY <1>0 DEF CanPaste, IsOutline
  <2>2. Len(cn) = n + 1 /\ \A j \in 1 .. n : cn[j + 1] = p.bnodes[j]
    BY <1>0, <2>1, WithFirst
  <2>3. Len(cv) = n + 1 /\ \A j \in 1 .. n : cv[j + 1] = p.levels[j]
    BY <1>0, <2>1, WithFirst
  <2>4. p.bnodes # <<>>
    BY <1>0 DEF CanPaste
  <2>5. n >= 1
    BY <1>0, <2>1, <2>4, EmptySeq
  <2> QED
    BY <2>2, <2>3, <2>5
<1>5. LevelsJoined(levels, cv, lv2, r, n, N, d)
  <2>1. /\ \A i \in 1 .. r : lv2[i] = levels[i]
        /\ \A j \in 1 .. n : lv2[r + j] = p.levels[j] + d
        /\ \A i \in r + 1 .. N : lv2[i + n] = levels[i]
    BY <1>0, <1>2 DEF IsPasted
  <2> QED
    BY <1>4, <2>1 DEF LevelsJoined
<1>6. HasBranch(new, old, r - 1, held, d)
  BY <1>0, <1>1, <1>2, <1>3, <1>4, <1>5, JoinedHaveBranch
<1>7. held[1].lev = p.levels[1]
  <2>1. AreNodesOf(held, cn, cv, C)
    BY <1>0, NodesInHave, Zenon
  <2>2. 1 \in 1 .. Len(cn) - 1 /\ 1 \in 1 .. n
    BY <1>0, <1>4
  <2>3. held[1].lev = cv[1 + 1]
    BY <2>1, <2>2 DEF AreNodesOf
  <2> QED
    BY <1>4, <2>2, <2>3
<1>8. PICK k \in Int : k = r - 1
  BY <1>0
<1>9. MayFollow(old, k, w)
  <2>1. LevelsAre(old, levels, Len(levels) - 1)
    BY NodeLevels
  <2>2. levels \in Seq(Positive)
    BY LevelsArePositive
  <2> QED
    BY <1>8, <2>1, <2>2, LevelFits
<1>10. HasBranch(new, old, k, held, d) /\ w = held[1].lev + d
  BY <1>6, <1>7, <1>8
<1>11. F!Placed(new, old, k, held) /\ k \in 0 .. Len(old)
  BY <1>9, <1>10, PlacedIs, Zenon
<1> QED
  BY <1>1, <1>6, <1>8, <1>11

\* The clipboard p goes after node r, at level w; e is the last line of r.
PastesTo(p, ln0, r, w, d, e) ==
  /\ r \in Int /\ w \in Int /\ d \in Int /\ e \in Int
  /\ p = OutlineOf(mode, clip) /\ p.bnodes[1] = 1 /\ w = p.levels[1] + d
  /\ CanPaste(mode, bnodes, Body, clip, p, r, d, e) /\ FitsAt(ln0, r, w)
  /\ IsPasted(mode, bnodes, levels, Body, clip, p, r, d, e, bnodes', levels', Body',
              Len(p.bnodes), Len(clip))
  /\ Shows(PutAfter(Unmarked(Tree, snLn), r, RegionLines(d, p.tlines, levels', r + 1)), r + 1)
  /\ clip' = clip /\ clip # <<>>

\* Nodes put between the others are pasted.
LEMMA PastePastes ==
  ASSUME OutlineTells, clip \in Seq(LineType), NEW ln0 \in 1 .. Len(levels), NEW folded \in BOOLEAN,
         voom_OopPaste(ln0, folded)
  PROVE  \E p, r, w, d, e : PastesTo(p, ln0, r, w, d, e)
<1> DEFINE p == OutlineOf(mode, clip)
           n == Len(p.bnodes)
           child == nodeHasChildren(levels, ln0)
           lev == IF ln0 = 1 THEN (IF Len(levels) > 1 THEN levels[2] ELSE 1)
                  ELSE IF child /\ ~folded THEN levels[ln0] + 1 ELSE levels[ln0]
           r == IF child /\ folded THEN BranchEnd(levels, ln0) ELSE ln0
           d == lev - p.levels[1]
           heads == {p.bnodes[i] : i \in 1 .. n}
           t == [k \in 1 .. Len(clip) |-> IF k \in heads /\ d # 0
                                         THEN ChangeLev(mode, clip[k], d) ELSE clip[k]]
           e == EndOf(r)
           U == Unmarked(Tree, snLn)
           B2 == PutAfter(Body, e, t)
           bn2 == PutAfter(Shift(bnodes, r + 1, Len(bnodes), Len(clip)), r, Shift(p.bnodes, 1, n, e))
           lv2 == PutAfter(levels, r, Shift(p.levels, 1, n, d))
           V == PutAfter(U, r, RegionLines(d, p.tlines, lv2, r + 1))
           S0 == [Body |-> B2, bnodes |-> bn2, levels |-> lv2, ok |-> TRUE, style |-> style]
<1>1. Told(mode, bnodes, levels, Body) /\ mode \in OneLineModes
  BY DEF OutlineTells, Tells
<1>3. /\ clip # <<>> /\ ClipIsOutline(p) /\ clip' = clip
      /\ \E S \in {Hook(S0, "paste", d, e + 1, r + 1, e + Len(clip), r + n, 0, 0)} :
           Done(S, PutAfter(U, r, RegionLines(d, p.tlines, S.levels, r + 1)), r + 1)
  BY DEF voom_OopPaste
<1>4. IsOutline(mode, clip, p)
  BY <1>1, ParseIsOutline, Zenon
<1> HIDE DEF p
<1>5. Done(S0, V, r + 1)
  <2> HIDE DEF n, d, e, B2, bn2, lv2, r, U
  <2>1. PICK S \in {Hook(S0, "paste", d, e + 1, r + 1, e + Len(clip), r + n, 0, 0)} :
          Done(S, PutAfter(U, r, RegionLines(d, p.tlines, S.levels, r + 1)), r + 1)
    BY <1>3
  <2>2. S = S0
    BY <1>1, <2>1, HookIs, SMT
  <2>3. S0.levels = lv2
    OBVIOUS
  <2> QED
    BY <2>1, <2>2, <2>3, Zenon
<1>6. PICK N \in Nat : N = Len(levels) /\ N = Len(bnodes) /\ ln0 \in 1 .. N
  BY <1>1 DEF Told
<1>7. levels \in Seq(Positive) /\ \A i \in 1 .. N : levels[i] \in Int /\ levels[i] > 0
  BY <1>1, <1>6, LevelsArePositive
<1>8. FitsAt(ln0, r, lev)
  <2>1. ln0 = 1 => ~child
    BY DEF nodeHasChildren
  <2> HIDE DEF child
  <2>2. CASE ln0 = 1
    <3>1. r = 1 /\ lev = (IF Len(levels) > 1 THEN levels[2] ELSE 1)
      BY <2>1, <2>2
    <3>2. lev = 1 \/ (Len(levels) > 1 => lev = levels[2])
      BY <3>1
    <3> HIDE DEF r, lev
    <3> QED
      BY <2>2, <3>1, <3>2 DEF FitsAt
  <2>3. CASE ln0 # 1 /\ child /\ ~folded
    <3>1. r = ln0 /\ lev = levels[ln0] + 1
      BY <2>3
    <3> HIDE DEF r, lev
    <3> QED
      BY <2>3, <3>1 DEF FitsAt
  <2>4. CASE ln0 # 1 /\ child /\ folded
    <3>1. r = BranchEnd(levels, ln0) /\ lev = levels[ln0]
      BY <2>4
    <3> HIDE DEF r, lev
    <3> QED
      BY <2>4, <3>1 DEF FitsAt
  <2>5. CASE ln0 # 1 /\ ~child
    <3>1. r = ln0 /\ lev = levels[ln0]
      BY <2>5
    <3>2. ~nodeHasChildren(levels, ln0)
      BY <2>5 DEF child
    <3> HIDE DEF r, lev
    <3> QED
      BY <2>5, <3>1, <3>2 DEF FitsAt
  <2> QED
    BY <2>2, <2>3, <2>4, <2>5
<1>9. lev \in Int /\ lev > 0
  <2>1. levels[ln0] \in Int /\ levels[ln0] > 0
    BY <1>6, <1>7
  <2>2. CASE ln0 = 1 /\ N > 1
    <3>1. 2 \in 1 .. N
      BY <2>2
    <3> QED
      BY <1>6, <1>7, <2>2, <3>1
  <2>3. CASE ln0 = 1 /\ ~(N > 1)
    BY <1>6, <2>3
  <2>4. CASE ln0 # 1
    <3> HIDE DEF child
    <3> QED
      BY <2>1, <2>4
  <2> QED
    BY <2>2, <2>3, <2>4
<1> HIDE DEF lev
<1>21. r \in 1 .. N
  <2>1. BranchEnd(levels, ln0) \in ln0 .. Len(levels)
    BY <1>7, BranchEndIs
  <2>2. BranchEnd(levels, ln0) \in 1 .. N
    BY <1>6, <2>1
  <2> HIDE DEF child
  <2> QED
    BY <1>6, <2>2
<1> HIDE DEF r
<1>10. /\ n \in Nat /\ n > 0 /\ p.bnodes # <<>> /\ Len(p.levels) = n /\ p.bnodes[1] = 1
       /\ \A j \in 1 .. n : p.levels[j] \in Int /\ p.levels[j] >= p.levels[1]
  <2>1. p.bnodes \in Seq(Int) /\ p.levels \in Seq(Int) /\ Len(p.levels) = n
    BY <1>4 DEF IsOutline
  <2>2. p.bnodes # <<>> /\ p.bnodes[1] = 1 /\ \A i \in 1 .. Len(p.levels) : p.levels[i] >= p.levels[1]
    BY <1>3 DEF ClipIsOutline
  <2> QED
    BY <2>1, <2>2
<1>11. d \in Int /\ lev = p.levels[1] + d /\ \A j \in 1 .. n : p.levels[j] + d > 0
  <2>1. PICK y \in Int : y = p.levels[1]
    <3>1. 1 \in 1 .. n
      BY <1>10
    <3> QED
      BY <1>10, <3>1
  <2>2. d = lev - y
    BY <2>1
  <2>3. ASSUME NEW j \in 1 .. n
        PROVE  p.levels[j] + d > 0
    <3>1. PICK x \in Int : x = p.levels[j] /\ x >= y
      BY <1>10, <2>1
    <3>2. x + (lev - y) > 0
      BY <1>9, <3>1
    <3> QED
      BY <2>2, <3>1, <3>2
  <2> QED
    BY <1>9, <2>1, <2>2, <2>3
<1> HIDE DEF d
<1>12. e = EndIn(bnodes, Body, r) /\ e \in Int
  <2>1. e = EndIn(bnodes, Body, r)
    BY EndOfIs
  <2>2. EndIn(bnodes, Body, r) \in Int
    BY <1>1, <1>6, <1>21, EndIs
  <2> QED
    BY <2>1, <2>2
<1> HIDE DEF e
<1>13. CanPaste(mode, bnodes, Body, clip, p, r, d, e)
  BY <1>4, <1>6, <1>21, <1>10, <1>11, <1>12 DEF CanPaste
<1>14. IsClip(mode, clip, d, t)
  <2>1. t = PastedLinesOf(mode, clip, p, d)
    BY Zenon DEF PastedLinesOf
  <2> HIDE DEF t
  <2> QED
    BY <1>1, <1>13, <2>1, ClipIs, Zenon
<1> HIDE DEF t, U
<1>15. PICK z \in Nat : z = Len(clip)
  OBVIOUS
<1>16. IsPasted(mode, bnodes, levels, Body, clip, p, r, d, e, bn2, lv2, B2, n, z)
  BY <1>1, <1>10, <1>13, <1>14, <1>15, PasteIs
<1> HIDE DEF B2, bn2, lv2
<1>17. /\ Body' = B2 /\ bnodes' = bn2 /\ levels' = lv2 /\ Shows(V, r + 1)
  BY <1>5 DEF Done, Shows
<1>18. Shows(PutAfter(U, r, RegionLines(d, p.tlines, levels', r + 1)), r + 1)
  BY <1>17
<1>19. IsPasted(mode, bnodes, levels, Body, clip, p, r, d, e, bnodes', levels', Body', Len(p.bnodes), Len(clip))
  BY <1>15, <1>16, <1>17
<1>20. PastesTo(p, ln0, r, lev, d, e)
  BY <1>3, <1>8, <1>9, <1>10, <1>11, <1>12, <1>13, <1>18, <1>19, <1>21 DEF PastesTo, U, p
<1> QED
  BY <1>20, Zenon

\* voom_OopPaste puts the nodes of the clipboard between the others.
LEMMA PasteMoves ==
  ASSUME OutlineTells, clip \in Seq(LineType), NEW ln0 \in 1 .. Len(levels), NEW folded \in BOOLEAN,
         voom_OopPaste(ln0, folded),
         NEW bn2, bn2 = bnodes', NEW lv2, lv2 = levels', NEW B2, B2 = Body', Told(mode, bn2, lv2, B2)
  PROVE  /\ F!Paste(NodesIn(bnodes, levels, Body), NodesIn(bn2, lv2, B2), ParsedNodes(mode, clip))
         /\ TopIn(bn2, B2) = TopIn(bnodes, Body)
         /\ clip' = clip /\ mode' = mode /\ (hookOK => hookOK')
<1>1. Told(mode, bnodes, levels, Body) /\ mode \in OneLineModes
  BY DEF OutlineTells, Tells
<1>2. PICK p, r, w, d, e : PastesTo(p, ln0, r, w, d, e)
  BY PastePastes
<1>3. /\ r \in Int /\ w \in Int /\ d \in Int /\ e \in Int
      /\ p = OutlineOf(mode, clip) /\ p.bnodes[1] = 1 /\ w = p.levels[1] + d
      /\ CanPaste(mode, bnodes, Body, clip, p, r, d, e) /\ FitsAt(ln0, r, w)
      /\ IsPasted(mode, bnodes, levels, Body, clip, p, r, d, e, bn2, lv2, B2, Len(p.bnodes), Len(clip))
      /\ clip' = clip /\ clip # <<>>
  BY <1>2 DEF PastesTo
<1>4. mode' = mode /\ (hookOK => hookOK')
  BY <1>2, Zenon DEF PastesTo, Shows
<1>5. PICK cn, cv : cn = << 1 >> \o p.bnodes /\ cv = << 1 >> \o p.levels
  OBVIOUS
<1>6. Told(mode, cn, cv, clip)
  <2>1. PICK T : T = <<RootLine>> \o p.tlines
    OBVIOUS
  <2> QED
    BY <1>1, <1>3, <1>5, <2>1, ParseTells
<1>7. PICK n \in Nat, z \in Nat : n = Len(p.bnodes) /\ z = Len(clip)
  <2>1. p.bnodes \in Seq(Int)
    BY <1>3 DEF CanPaste, IsOutline
  <2>2. Len(p.bnodes) \in Nat
    BY <2>1
  <2>3. Len(clip) \in Nat
    OBVIOUS
  <2> QED
    BY <2>2, <2>3
<1>8. IsPasteOf(mode, bnodes, levels, Body, clip, p, r, d, e, cn, cv, bn2, lv2, B2, n, z)
  BY <1>3, <1>5, <1>6, <1>7, Zenon DEF IsPasteOf
<1>9. PICK old, new, held : /\ old = NodesIn(bnodes, levels, Body) /\ new = NodesIn(bn2, lv2, B2)
                            /\ held = NodesIn(cn, cv, clip)
  OBVIOUS
<1>10. /\ HasBranch(new, old, r - 1, held, d)
       /\ F!Placed(new, old, r - 1, held) /\ r - 1 \in 0 .. Len(old)
       /\ TopIn(bn2, B2) = TopIn(bnodes, Body)
  BY <1>1, <1>3, <1>8, <1>9, PastedIsPlaced
<1>11. Len(new) = Len(old) + Len(held) /\ held # <<>>
  <2>1. held \in Seq(NodeType) /\ Len(held) >= 1 /\ Len(new) = Len(old) + Len(held)
    BY <1>10 DEF HasBranch
  <2> QED
    BY <2>1, EmptySeq
<1>12. held = ParsedNodes(mode, clip)
  BY <1>1, <1>6, <1>9, ParsedIsTold
<1>13. F!Paste(old, new, held)
  BY <1>10, <1>11, Zenon DEF F!Paste
<1> QED
  BY <1>3, <1>4, <1>9, <1>10, <1>12, <1>13

\* A new headline p goes after node r, at level w.
InsertsTo(new, p, ln0, r, w, e, bn2, lv2) ==
  /\ r \in Int /\ w \in Int /\ e \in Int
  /\ IsOneNode(mode, new, p, w) /\ p = OutlineOf(mode, new)
  /\ CanPaste(mode, bnodes, Body, new, p, r, 0, e) /\ FitsAt(ln0, r, w)
  /\ IsPasted(mode, bnodes, levels, Body, new, p, r, 0, e, bn2, lv2, Body', 1, 2)
  /\ clip' = clip /\ mode' = mode /\ hookOK' = hookOK

\* A new headline is put between the nodes.
LEMMA InsertPastes ==
  ASSUME Told(mode, bnodes, levels, Body), mode \in OneLineModes,
         NEW ln0 \in 1 .. Len(levels), NEW folded \in BOOLEAN, NEW as_child \in BOOLEAN,
         voom_OopInsert(ln0, folded, as_child)
  PROVE  \E new, p, r, w, e, bn2, lv2 : InsertsTo(new, p, ln0, r, w, e, bn2, lv2)
<1> DEFINE child == nodeHasChildren(levels, ln0)
           lev == IF ln0 = 1 THEN 1
                  ELSE IF as_child \/ (child /\ ~folded) THEN levels[ln0] + 1 ELSE levels[ln0]
           ln == IF ln0 # 1 /\ ~as_child /\ child /\ folded THEN BranchEnd(levels, ln0) ELSE ln0
           b == EndOf(ln)
           new == NewLines(mode, lev, b, ln, Body, bnodes, style)
           p == OutlineOf(mode, new)
           B2 == PutAfter(Body, b, new)
           bn2 == PutAfter(Shift(bnodes, ln + 1, Len(bnodes), 2), ln, Shift(p.bnodes, 1, 1, b))
           lv2 == PutAfter(levels, ln, Shift(p.levels, 1, 1, 0))
<1>1. Body' = B2 /\ clip' = clip /\ mode' = mode /\ hookOK' = hookOK
  BY DEF voom_OopInsert
<1>4. PICK N \in Nat : N = Len(levels) /\ N = Len(bnodes) /\ ln0 \in 1 .. N
  BY DEF Told
<1>5. levels \in Seq(Positive) /\ levels[ln0] \in Int /\ levels[ln0] > 0
  BY <1>4, LevelsArePositive
<1>6. FitsAt(ln0, ln, lev)
  <2> HIDE DEF child
  <2>2. CASE ln0 = 1
    <3>1. ln = 1 /\ lev = 1
      BY <2>2
    <3> HIDE DEF ln, lev
    <3> QED
      BY <2>2, <3>1 DEF FitsAt
  <2>3. CASE ln0 # 1 /\ (as_child \/ (child /\ ~folded))
    <3>1. ln = ln0 /\ lev = levels[ln0] + 1
      BY <2>3
    <3> HIDE DEF ln, lev
    <3> QED
      BY <2>3, <3>1 DEF FitsAt
  <2>4. CASE ln0 # 1 /\ ~as_child /\ child /\ folded
    <3>1. ln = BranchEnd(levels, ln0) /\ lev = levels[ln0]
      BY <2>4
    <3> HIDE DEF ln, lev
    <3> QED
      BY <2>4, <3>1 DEF FitsAt
  <2>5. CASE ln0 # 1 /\ ~as_child /\ ~child
    <3>1. ln = ln0 /\ lev = levels[ln0]
      BY <2>5
    <3>2. ~nodeHasChildren(levels, ln0)
      BY <2>5 DEF child
    <3> HIDE DEF ln, lev
    <3> QED
      BY <2>5, <3>1, <3>2 DEF FitsAt
  <2> QED
    BY <2>2, <2>3, <2>4, <2>5
<1>7. lev \in Int /\ lev > 0
  <2> HIDE DEF child
  <2> QED
    BY <1>5
<1> HIDE DEF lev
<1>8. ln \in 1 .. N
  <2>1. BranchEnd(levels, ln0) \in ln0 .. Len(levels)
    BY <1>5, BranchEndIs
  <2>2. BranchEnd(levels, ln0) \in 1 .. N
    BY <1>4, <2>1
  <2> HIDE DEF child
  <2> QED
    BY <1>4, <2>2
<1> HIDE DEF ln
<1>9. b = EndIn(bnodes, Body, ln) /\ b \in Int
  <2>1. b = EndIn(bnodes, Body, ln)
    BY EndOfIs
  <2>2. EndIn(bnodes, Body, ln) \in Int
    BY <1>4, <1>8, EndIs
  <2> QED
    BY <2>1, <2>2
<1> HIDE DEF b
<1>10. IsNewHeadline(mode, new, lev)
  BY <1>7, NewHeadlineIs
<1> HIDE DEF new
<1>11. IsOneNode(mode, new, p, lev)
  BY <1>7, <1>10, NewHeadlineIsNode, Zenon
<1>12. p = OutlineOf(mode, new)
  OBVIOUS
<1> HIDE DEF p
<1>13. CanPaste(mode, bnodes, Body, new, p, ln, 0, b)
  <2>1. new \in Seq(LineType) /\ IsOutline(mode, new, p) /\ Len(p.bnodes) = 1
    BY <1>11 DEF IsOneNode
  <2>2. Len(p.levels) = 1 /\ p.levels[1] = lev
    BY <1>11 DEF IsOneNode, IsOutline
  <2>3. \A j \in 1 .. Len(p.levels) : p.levels[j] + 0 > 0
    BY <1>7, <2>2
  <2>4. p.bnodes # <<>> /\ 0 \in Int
    <3>1. p.bnodes \in Seq(Int)
      BY <2>1 DEF IsOutline
    <3>2. Len(p.bnodes) # 0
      BY <2>1
    <3>3. p.bnodes # <<>>
      BY <3>1, <3>2, EmptySeq
    <3> QED
      BY <3>3
  <2> QED
    BY <1>4, <1>8, <1>9, <2>1, <2>3, <2>4 DEF CanPaste
<1>14. IsClip(mode, new, 0, new) /\ Len(new) = 2 /\ Len(p.bnodes) = 1
  BY <1>11 DEF IsOneNode, IsClip, WithLevel
<1>15. IsPasted(mode, bnodes, levels, Body, new, p, ln, 0, b, bn2, lv2, B2, 1, 2)
  <2>1. 1 \in Nat /\ 2 \in Nat /\ 1 = Len(p.bnodes) /\ 2 = Len(new)
    BY <1>14
  <2> QED
    BY <1>13, <1>14, <2>1, PasteIs, Zenon
<1> HIDE DEF B2, bn2, lv2
<1>16. IsPasted(mode, bnodes, levels, Body, new, p, ln, 0, b, bn2, lv2, Body', 1, 2)
  BY <1>1, <1>15, Zenon
<1>17. ln \in Int
  BY <1>4, <1>8
<1>18. InsertsTo(new, p, ln0, ln, lev, b, bn2, lv2)
  BY <1>1, <1>6, <1>7, <1>9, <1>11, <1>12, <1>13, <1>16, <1>17, Zenon DEF InsertsTo
<1> QED
  BY <1>18, Zenon

\* voom_OopInsert puts one node between the others.
LEMMA InsertMoves ==
  ASSUME OutlineTells,
         NEW ln0 \in 1 .. Len(levels), NEW folded \in BOOLEAN, NEW as_child \in BOOLEAN,
         voom_OopInsert(ln0, folded, as_child)
  PROVE  /\ \E bn2, lv2 : /\ Told(mode, bn2, lv2, Body')
                          /\ F!New(NodesIn(bnodes, levels, Body), NodesIn(bn2, lv2, Body'))
                          /\ TopIn(bn2, Body') = TopIn(bnodes, Body)
         /\ clip' = clip /\ mode' = mode /\ hookOK' = hookOK
<1>0. Told(mode, bnodes, levels, Body) /\ mode \in OneLineModes
  BY DEF OutlineTells, Tells
<1>1. PICK C, p, r, w, e, bn2, lv2 : InsertsTo(C, p, ln0, r, w, e, bn2, lv2)
  BY <1>0, InsertPastes
<1>2. PICK B2 : B2 = Body'
  OBVIOUS
<1>3. /\ r \in Int /\ w \in Int /\ e \in Int
      /\ IsOneNode(mode, C, p, w) /\ p = OutlineOf(mode, C)
      /\ CanPaste(mode, bnodes, Body, C, p, r, 0, e) /\ FitsAt(ln0, r, w)
      /\ IsPasted(mode, bnodes, levels, Body, C, p, r, 0, e, bn2, lv2, B2, 1, 2)
      /\ clip' = clip /\ mode' = mode /\ hookOK' = hookOK
  BY <1>1, <1>2, Zenon DEF InsertsTo
<1>4. PICK d \in Int, n \in Nat, z \in Nat : d = 0 /\ n = 1 /\ z = 2
  OBVIOUS
<1>5. /\ Len(p.bnodes) = n /\ Len(C) = z /\ C \in Seq(LineType) /\ C # <<>>
      /\ p.bnodes[1] = 1 /\ p.levels[1] = w /\ IsOutline(mode, C, p)
  <2>1. /\ Len(p.bnodes) = 1 /\ Len(C) = 2 /\ C \in Seq(LineType)
        /\ p.bnodes[1] = 1 /\ p.levels[1] = w /\ IsOutline(mode, C, p)
    BY <1>3 DEF IsOneNode
  <2>2. C # <<>>
    <3>1. Len(C) # 0
      BY <2>1
    <3> QED
      BY <2>1, <3>1, EmptySeq
  <2> QED
    BY <1>4, <2>1, <2>2
<1>6. /\ CanPaste(mode, bnodes, Body, C, p, r, d, e)
      /\ IsPasted(mode, bnodes, levels, Body, C, p, r, d, e, bn2, lv2, B2, n, z)
  BY <1>3, <1>4, Zenon
<1>7. Told(mode, bn2, lv2, B2)
  <2>1. PICK U : U = Unmarked(Tree, snLn)
    OBVIOUS
  <2>2. Shown(U, bnodes, levels, Body) /\ IsBare(U) /\ IsRooted(U)
    BY <2>1, UnmarkedTells DEF OutlineTells
  <2>3. PICK V : V = PutAfter(U, r, RegionLines(d, p.tlines, lv2, r + 1))
    OBVIOUS
  <2>4. IsTreePasted(U, V, bnodes, p, r, lv2, n)
    BY <1>0, <1>5, <1>6, <2>2, <2>3, TreePasteIs
  <2> QED
    BY <1>0, <1>5, <1>6, <2>2, <2>4, PastedIsTold
<1>8. PICK cn, cv : cn = << 1 >> \o p.bnodes /\ cv = << 1 >> \o p.levels
  OBVIOUS
<1>9. Told(mode, cn, cv, C)
  <2>1. PICK T : T = <<RootLine>> \o p.tlines
    OBVIOUS
  <2> QED
    BY <1>0, <1>3, <1>5, <1>8, <2>1, ParseTells
<1>10. IsPasteOf(mode, bnodes, levels, Body, C, p, r, d, e, cn, cv, bn2, lv2, B2, n, z)
  BY <1>3, <1>5, <1>6, <1>7, <1>8, <1>9, Zenon DEF IsPasteOf
<1>11. PICK old, new, held : /\ old = NodesIn(bnodes, levels, Body) /\ new = NodesIn(bn2, lv2, B2)
                             /\ held = NodesIn(cn, cv, C)
  OBVIOUS
<1>12. /\ HasBranch(new, old, r - 1, held, d)
       /\ F!Placed(new, old, r - 1, held) /\ r - 1 \in 0 .. Len(old)
       /\ TopIn(bn2, B2) = TopIn(bnodes, Body)
  <2>1. w = p.levels[1] + d
    BY <1>3, <1>4, <1>5
  <2> QED
    BY <1>0, <1>3, <1>10, <1>11, <2>1, PastedIsPlaced
<1>13. PICK k \in Int : k = r - 1
  BY <1>3
<1>14. /\ held \in Seq(NodeType) /\ Len(new) = Len(old) + Len(held) /\ Len(held) = 1
       /\ new[k + 1] = WithLev(held[1], held[1].lev + 0)
  <2>1. /\ held \in Seq(NodeType) /\ Len(new) = Len(old) + Len(held)
        /\ \A j \in 1 .. Len(held) : new[k + j] = WithLev(held[j], held[j].lev + d)
    BY <1>12, <1>13 DEF HasBranch
  <2>2. Len(cn) = 2
    <3>1. p.bnodes \in Seq(Int)
      BY <1>5 DEF IsOutline
    <3> QED
      <4>1. Len(cn) = Len(p.bnodes) + 1
        BY <1>8, <3>1, WithFirst
      <4> QED
        BY <1>4, <1>5, <4>1
  <2>3. AreNodesOf(held, cn, cv, C)
    BY <1>9, <1>11, NodesInHave, Zenon
  <2>4. Len(held) = 1 /\ 1 \in 1 .. Len(held)
    BY <2>2, <2>3 DEF AreNodesOf
  <2> QED
    BY <1>4, <2>1, <2>4
<1>15. held = << new[k + 1] >>
  <2>1. PICK x \in NodeType : x = held[1]
    <3>1. 1 \in 1 .. Len(held)
      BY <1>14
    <3> QED
      BY <1>14, <3>1, ElementOfSeq
  <2>2. x.lev \in Int
    BY DEF NodeType
  <2>3. x.lev + 0 = x.lev
    BY <2>2
  <2>4. WithLev(x, x.lev) = x
    BY <2>2, NodeLevIs
  <2>5. new[k + 1] = x
    BY <1>14, <2>1, <2>3, <2>4
  <2>6. held = << x >>
    BY <1>14, <2>1
  <2> QED
    BY <2>5, <2>6
<1>16. F!New(old, new)
  <2>1. F!Placed(new, old, k, << new[k + 1] >>) /\ k \in 0 .. Len(old)
    BY <1>12, <1>13, <1>15
  <2>2. Len(new) = Len(old) + 1
    BY <1>14
  <2> QED
    BY <2>1, <2>2, Zenon DEF F!New
<1> QED
  BY <1>2, <1>3, <1>7, <1>11, <1>12, <1>16

-----------------------------------------------------------------------------
(* The steps of the forest.                                                *)

\* A step of Forest from nodes old to nodes new and from clipboard c to c2.
IsStepOf(old, new, c, c2) ==
  \/ /\ c2 = c
     /\ \/ F!Move(old, new)
        \/ F!Raise(old, new)
        \/ F!Paste(old, new, ParsedNodes(mode, c2))
        \/ F!New(old, new)
        \/ F!Reorder(old, new)
  \/ F!Take(old, new, ParsedNodes(mode, c2))

\* The same between Bodies.
IsForestStep(B, c, B2, c2) ==
  /\ TopIn(BnodesOf(mode, B2), B2) = TopIn(BnodesOf(mode, B), B)
  /\ IsStepOf(ParsedNodes(mode, B), ParsedNodes(mode, B2), c, c2)

\* A step between the nodes that two outlines tell is one between the Bodies.
LEMMA ToldStep ==
  ASSUME mode \in OneLineModes, NEW bn, NEW lv, NEW B, Told(mode, bn, lv, B),
         NEW bn2, NEW lv2, NEW B2, Told(mode, bn2, lv2, B2), TopIn(bn2, B2) = TopIn(bn, B),
         NEW c, NEW c2, IsStepOf(NodesIn(bn, lv, B), NodesIn(bn2, lv2, B2), c, c2)
  PROVE  IsForestStep(B, c, B2, c2)
<1>1. ParsedNodes(mode, B) = NodesIn(bn, lv, B) /\ BnodesOf(mode, B) = bn
  BY ParsedIsTold
<1>2. ParsedNodes(mode, B2) = NodesIn(bn2, lv2, B2) /\ BnodesOf(mode, B2) = bn2
  BY ParsedIsTold
<1> QED
  BY <1>1, <1>2 DEF IsForestStep

\* The operations are for one mode.
LEMMA OperationKeepsMode ==
  ASSUME Operation
  PROVE  mode' = mode
<1>1. PICK ln1 \in 2 .. Len(levels) : \E ln2 \in Ends(ln1) :
        \/ voom_OopCopy(ln1, ln2)
        \/ \E up \in LineAbove(ln1) : voom_OopCut(ln1, ln2, up)
        \/ ln1 >= 3 /\ \E up \in LineAbove(ln1) : \E up2 \in LineAbove(up) :
                         voom_OopUp(ln1, ln2, up, up2)
        \/ \E folded \in BOOLEAN : voom_OopDown(ln1, ln2, folded)
        \/ voom_OopRight(ln1, ln2)
        \/ voom_OopLeft(ln1, ln2)
  BY Zenon DEF Operation
<1>0. \A S, tree, sn : Done(S, tree, sn) => mode' = mode
  BY Zenon DEF Done
<1>p. \A a, b, oop, d : Promote(a, b, oop, d) => mode' = mode
  BY <1>0, Zenon DEF Promote
<1>2. \A a, b : voom_OopCopy(a, b) => mode' = mode
  BY Zenon DEF voom_OopCopy
<1>3. \A a, b, c : voom_OopCut(a, b, c) => mode' = mode
  BY <1>0, Zenon DEF voom_OopCut
<1>4. ASSUME NEW a, NEW b, NEW c, NEW d, voom_OopUp(a, b, c, d)
      PROVE  mode' = mode
  BY <1>0, <1>4, Zenon DEF voom_OopUp
<1>5. ASSUME NEW a, NEW b, NEW c, voom_OopDown(a, b, c)
      PROVE  mode' = mode
  BY <1>0, <1>5, Zenon DEF voom_OopDown
<1>6. \A a, b : voom_OopRight(a, b) => mode' = mode
  BY <1>p, Zenon DEF voom_OopRight
<1>7. \A a, b : voom_OopLeft(a, b) => mode' = mode
  BY <1>p, Zenon DEF voom_OopLeft
<1> QED
  BY <1>1, <1>2, <1>3, <1>4, <1>5, <1>6, <1>7, Zenon

\* Every operation on a region takes a step of the forest.
LEMMA OperationSteps ==
  ASSUME OutlineTells, Operation
  PROVE  IsForestStep(Body, clip, Body', clip') /\ mode' = mode
<1>1. mode' = mode
  BY OperationKeepsMode
<1>2. Told(mode, bnodes', levels', Body')
  BY <1>1, OperationTells, ToldNext
<1>3. PICK bn2, lv2, B2 : bn2 = bnodes' /\ lv2 = levels' /\ B2 = Body'
  OBVIOUS
<1>4. Told(mode, bn2, lv2, B2) /\ Told(mode, bnodes, levels, Body) /\ mode \in OneLineModes
  BY <1>2, <1>3 DEF OutlineTells, Tells
<1>5. PICK old, new : old = NodesIn(bnodes, levels, Body) /\ new = NodesIn(bn2, lv2, B2)
  OBVIOUS
<1>6. PICK ln1 \in 2 .. Len(levels) : \E ln2 \in Ends(ln1) :
        \/ voom_OopCopy(ln1, ln2)
        \/ \E up \in LineAbove(ln1) : voom_OopCut(ln1, ln2, up)
        \/ ln1 >= 3 /\ \E up \in LineAbove(ln1) : \E up2 \in LineAbove(up) :
                         voom_OopUp(ln1, ln2, up, up2)
        \/ \E folded \in BOOLEAN : voom_OopDown(ln1, ln2, folded)
        \/ voom_OopRight(ln1, ln2)
        \/ voom_OopLeft(ln1, ln2)
  BY Zenon DEF Operation
<1>7. PICK ln2 \in Ends(ln1) :
        \/ voom_OopCopy(ln1, ln2)
        \/ \E up \in LineAbove(ln1) : voom_OopCut(ln1, ln2, up)
        \/ ln1 >= 3 /\ \E up \in LineAbove(ln1) : \E up2 \in LineAbove(up) :
                         voom_OopUp(ln1, ln2, up, up2)
        \/ \E folded \in BOOLEAN : voom_OopDown(ln1, ln2, folded)
        \/ voom_OopRight(ln1, ln2)
        \/ voom_OopLeft(ln1, ln2)
  BY <1>6
<1>8. CASE voom_OopCopy(ln1, ln2)
  <2>1. F!Take(old, old, ParsedNodes(mode, clip')) /\ Body' = Body
    BY <1>5, <1>8, CopyTakes
  <2>2. IsStepOf(old, old, clip, clip')
    BY <2>1, Zenon DEF IsStepOf
  <2>3. IsForestStep(Body, clip, Body, clip')
    BY <1>4, <1>5, <2>2, ToldStep
  <2> QED
    BY <1>1, <2>1, <2>3
<1>9. ASSUME NEW up \in LineAbove(ln1), voom_OopCut(ln1, ln2, up)
      PROVE  IsStepOf(old, new, clip, clip') /\ TopIn(bn2, B2) = TopIn(bnodes, Body)
  <2>1. F!Take(old, new, ParsedNodes(mode, clip')) /\ TopIn(bn2, B2) = TopIn(bnodes, Body)
    BY <1>3, <1>4, <1>5, <1>9, CutTakes
  <2> QED
    BY <2>1, Zenon DEF IsStepOf
<1>10. ASSUME ln1 >= 3, NEW up \in LineAbove(ln1), NEW up2 \in LineAbove(up),
              voom_OopUp(ln1, ln2, up, up2)
       PROVE  IsStepOf(old, new, clip, clip') /\ TopIn(bn2, B2) = TopIn(bnodes, Body)
  <2>1. F!Move(old, new) /\ TopIn(bn2, B2) = TopIn(bnodes, Body) /\ clip' = clip
    BY <1>3, <1>4, <1>5, <1>10, UpMoves
  <2> QED
    BY <2>1, Zenon DEF IsStepOf
<1>11. ASSUME NEW folded \in BOOLEAN, voom_OopDown(ln1, ln2, folded)
       PROVE  IsStepOf(old, new, clip, clip') /\ TopIn(bn2, B2) = TopIn(bnodes, Body)
  <2>1. F!Move(old, new) /\ TopIn(bn2, B2) = TopIn(bnodes, Body) /\ clip' = clip
    BY <1>3, <1>4, <1>5, <1>11, DownMoves
  <2> QED
    BY <2>1, Zenon DEF IsStepOf
<1>12. CASE voom_OopRight(ln1, ln2)
  <2>1. F!Move(old, new) /\ TopIn(bn2, B2) = TopIn(bnodes, Body) /\ clip' = clip
    BY <1>3, <1>4, <1>5, <1>12, RightMoves
  <2>2. IsStepOf(old, new, clip, clip') /\ TopIn(bn2, B2) = TopIn(bnodes, Body)
    BY <2>1, Zenon DEF IsStepOf
  <2> QED
    BY <1>1, <1>3, <1>4, <1>5, <2>2, ToldStep
<1>13. CASE voom_OopLeft(ln1, ln2)
  <2>1. F!Raise(old, new) /\ TopIn(bn2, B2) = TopIn(bnodes, Body) /\ clip' = clip
    BY <1>3, <1>4, <1>5, <1>13, LeftRaises
  <2>2. IsStepOf(old, new, clip, clip') /\ TopIn(bn2, B2) = TopIn(bnodes, Body)
    BY <2>1, Zenon DEF IsStepOf
  <2> QED
    BY <1>1, <1>3, <1>4, <1>5, <2>2, ToldStep
<1>14. CASE IsStepOf(old, new, clip, clip') /\ TopIn(bn2, B2) = TopIn(bnodes, Body)
  <2>1. IsForestStep(Body, clip, B2, clip')
    BY <1>4, <1>5, <1>14, ToldStep
  <2> QED
    BY <1>1, <1>3, <2>1
<1> QED
  BY <1>7, <1>8, <1>9, <1>10, <1>11, <1>12, <1>13, <1>14, Zenon

\* So does pasting.
LEMMA PasteSteps ==
  ASSUME OutlineTells, clip \in Seq(LineType), NEW ln0 \in 1 .. Len(levels), NEW folded \in BOOLEAN,
         voom_OopPaste(ln0, folded)
  PROVE  IsForestStep(Body, clip, Body', clip') /\ mode' = mode
<1>1. mode' = mode
  <2>1. \A S, tree, sn : Done(S, tree, sn) => mode' = mode
    BY Zenon DEF Done
  <2> QED
    BY <2>1, Zenon DEF voom_OopPaste
<1>2. Told(mode, bnodes', levels', Body')
  BY <1>1, PasteTells, ToldNext
<1>3. PICK bn2, lv2, B2 : bn2 = bnodes' /\ lv2 = levels' /\ B2 = Body'
  OBVIOUS
<1>4. Told(mode, bn2, lv2, B2) /\ Told(mode, bnodes, levels, Body) /\ mode \in OneLineModes
  BY <1>2, <1>3 DEF OutlineTells, Tells
<1>5. PICK old, new : old = NodesIn(bnodes, levels, Body) /\ new = NodesIn(bn2, lv2, B2)
  OBVIOUS
<1>6. /\ F!Paste(old, new, ParsedNodes(mode, clip)) /\ TopIn(bn2, B2) = TopIn(bnodes, Body)
      /\ clip' = clip
  BY <1>3, <1>4, <1>5, PasteMoves
<1>7. IsStepOf(old, new, clip, clip')
  BY <1>6 DEF IsStepOf
<1>8. IsForestStep(Body, clip, B2, clip')
  BY <1>4, <1>5, <1>6, <1>7, ToldStep
<1> QED
  BY <1>1, <1>3, <1>8

\* So does a new headline.
LEMMA InsertSteps ==
  ASSUME OutlineTells, NEW ln0 \in 1 .. Len(levels), NEW folded \in BOOLEAN, NEW as_child \in BOOLEAN,
         voom_OopInsert(ln0, folded, as_child)
  PROVE  IsForestStep(Body, clip, Body', clip') /\ mode' = mode
<1>1. PICK B2 : B2 = Body'
  OBVIOUS
<1>2. Told(mode, bnodes, levels, Body) /\ mode \in OneLineModes
  BY DEF OutlineTells, Tells
<1>3. clip' = clip /\ mode' = mode
  BY InsertMoves
<1>4. PICK bn2, lv2 : /\ Told(mode, bn2, lv2, Body')
                      /\ F!New(NodesIn(bnodes, levels, Body), NodesIn(bn2, lv2, Body'))
                      /\ TopIn(bn2, Body') = TopIn(bnodes, Body)
  BY InsertMoves
<1>5. /\ Told(mode, bn2, lv2, B2) /\ TopIn(bn2, B2) = TopIn(bnodes, Body)
      /\ F!New(NodesIn(bnodes, levels, Body), NodesIn(bn2, lv2, B2))
  BY <1>1, <1>4
<1>6. IsStepOf(NodesIn(bnodes, levels, Body), NodesIn(bn2, lv2, B2), clip, clip')
  BY <1>3, <1>5, Zenon DEF IsStepOf
<1>7. IsForestStep(Body, clip, B2, clip')
  BY <1>2, <1>5, <1>6, ToldStep
<1> QED
  BY <1>1, <1>3, <1>7

\* Selecting leaves the lines alone.
LEMMA SelectingStays ==
  ASSUME Selecting
  PROVE  Body' = Body /\ clip' = clip /\ mode' = mode
<1>1. \A sn : updateTree(Body, sn) => Body' = Body
  BY Zenon DEF updateTree
<1>2. \A ln : TreeSelect(ln) => Body' = Body /\ clip' = clip /\ mode' = mode
  BY <1>1, Zenon DEF TreeSelect
<1>3. \A blnr : BodySelect(blnr) => Body' = Body /\ clip' = clip /\ mode' = mode
  BY Zenon DEF BodySelect
<1>4. UpdateTree => Body' = Body /\ clip' = clip /\ mode' = mode
  BY <1>1, Zenon DEF UpdateTree
<1> QED
  BY <1>2, <1>3, <1>4, Zenon DEF Selecting

\* The steps without sorting.
LEMMA OutliningSteps ==
  ASSUME OutlineInv, Outlining
  PROVE  IsForestStep(Body, clip, Body', clip') /\ mode' = mode
<1>1. ~stale => OutlineTells /\ clip \in Seq(LineType)
  BY DEF OutlineInv, IsTyped
<1>2. CASE Operation
  BY <1>1, <1>2, OperationIsFresh, OperationSteps
<1>3. ASSUME NEW ln \in 1 .. Len(levels), NEW folded \in BOOLEAN, NEW as_child \in BOOLEAN,
             voom_OopInsert(ln, folded, as_child)
      PROVE  IsForestStep(Body, clip, Body', clip') /\ mode' = mode
  <2>1. ~stale
    BY <1>3, Zenon DEF voom_OopInsert
  <2> QED
    BY <1>1, <1>3, <2>1, InsertSteps
<1>4. ASSUME NEW ln \in 1 .. Len(levels), NEW folded \in BOOLEAN, voom_OopPaste(ln, folded)
      PROVE  IsForestStep(Body, clip, Body', clip') /\ mode' = mode
  <2>1. ~stale
    BY <1>4, Zenon DEF voom_OopPaste
  <2> QED
    BY <1>1, <1>4, <2>1, PasteSteps
<1> QED
  BY <1>2, <1>3, <1>4, Zenon DEF Outlining

-----------------------------------------------------------------------------
(* The refinement.                                                         *)

\* The forest is what a parse tells of the Body and the clipboard.
ForestTells == forest = ParsedForest(mode, Body, clip)

\* A step between the Bodies is a step of the forest.
LEMMA ForestSteps ==
  ASSUME ForestTells, mode' = mode, forest' = ParsedForest(mode, Body', clip'),
         IsForestStep(Body, clip, Body', clip')
  PROVE  F!Next
<1>1. /\ forest.top = TopIn(BnodesOf(mode, Body), Body) /\ forest.nodes = ParsedNodes(mode, Body)
      /\ forest.clip = ParsedNodes(mode, clip)
  BY Zenon DEF ForestTells, ParsedForest
<1>2. /\ forest'.top = TopIn(BnodesOf(mode, Body'), Body') /\ forest'.nodes = ParsedNodes(mode, Body')
      /\ forest'.clip = ParsedNodes(mode, clip')
  BY Zenon DEF ParsedForest
<1>3. LastLevel(mode)' = LastLevel(mode) /\ (mode = "rest")' = (mode = "rest")
  BY DEF LastLevel
<1>4. forest'.top = forest.top
  BY <1>1, <1>2 DEF IsForestStep
<1>5. IsStepOf(forest.nodes, forest'.nodes, clip, clip')
  BY <1>1, <1>2 DEF IsForestStep
<1>6. clip' = clip => forest'.clip = forest.clip
  BY <1>1, <1>2
<1>7. \/ /\ forest'.clip = forest.clip
         /\ \/ F!Move(forest.nodes, forest'.nodes)
            \/ F!Raise(forest.nodes, forest'.nodes)
            \/ F!Paste(forest.nodes, forest'.nodes, forest'.clip)
            \/ F!New(forest.nodes, forest'.nodes)
            \/ F!Reorder(forest.nodes, forest'.nodes)
      \/ F!Take(forest.nodes, forest'.nodes, forest'.clip)
  BY <1>2, <1>5, <1>6, Zenon DEF IsStepOf
<1> QED
  BY <1>3, <1>4, <1>7, Zenon DEF F!Next

\* The forest stays when the Body and the clipboard do.
LEMMA ForestStays ==
  ASSUME ForestTells, mode' = mode, forest' = ParsedForest(mode, Body', clip'),
         Body' = Body, clip' = clip
  PROVE  UNCHANGED F!vars
<1>1. forest' = forest
  BY DEF ForestTells
<1> QED
  BY <1>1 DEF F!vars, LastLevel

-----------------------------------------------------------------------------
(* A sorted Body has the nodes of the old one under their own parents.     *)

\* Node j of the new outline has the headline of node i.
LEMMA ReorderedNode ==
  ASSUME NEW m, NEW bn, NEW lv, NEW B, Told(m, bn, lv, B), NEW bn2, NEW lv2, NEW B2, Told(m, bn2, lv2, B2),
         NEW P, IsReordered(m, B, B2, P),
         NEW i \in 2 .. Len(bn), NEW j \in 2 .. Len(bn2), bn2[j] = P[bn[i]]
  PROVE  NodeIn(bn2, lv2, B2, j) = NodeIn(bn, lv, B, i) /\ lv2[j] = lv[i]
<1>1. PICK N \in Nat : /\ N = Len(B) /\ N = Len(B2) /\ B \in Seq(LineType) /\ B2 \in Seq(LineType)
                       /\ \A k \in 1 .. N : B2[P[k]] = B[k]
  BY DEF IsReordered
<1>2. PICK v, v2 : v = LevelsAt(m, B) /\ v2 = LevelsAt(m, B2)
  OBVIOUS
<1>3. IsReordering(P, v, v2, N)
  BY <1>1, <1>2 DEF IsReordered
<1>4. /\ \A k \in 1 .. N : v[k] = LevelIn(m, B[k]) /\ v[k] \in Int
      /\ \A k \in 1 .. N : v2[k] = LevelIn(m, B2[k]) /\ v2[k] \in Int
  <2>1. \A k \in 1 .. Len(B) : v[k] = LevelIn(m, B[k]) /\ v[k] \in Int
    <3>1. B \in Seq(LineType) /\ v = LevelsAt(m, B)
      BY <1>1, <1>2
    <3> QED
      BY <3>1, LevelsAtAre, Zenon
  <2>2. \A k \in 1 .. Len(B2) : v2[k] = LevelIn(m, B2[k]) /\ v2[k] \in Int
    <3>1. B2 \in Seq(LineType) /\ v2 = LevelsAt(m, B2)
      BY <1>1, <1>2
    <3> QED
      BY <3>1, LevelsAtAre, Zenon
  <2> QED
    BY <1>1, <2>1, <2>2
<1>5. PICK b \in 1 .. N, x \in 1 .. N :
        /\ b = bn[i] /\ x = bn2[j] /\ x = P[b]
        /\ lv[i] = LevelIn(m, B[b]) /\ lv2[j] = LevelIn(m, B2[x])
  <2>1. bn[i] \in 1 .. N /\ lv[i] = LevelIn(m, B[bn[i]])
    BY <1>1 DEF Told
  <2>2. bn2[j] \in 1 .. N /\ lv2[j] = LevelIn(m, B2[bn2[j]])
    BY <1>1 DEF Told
  <2> QED
    BY <2>1, <2>2
<1>6. B2[x] = B[b] /\ lv2[j] = lv[i]
  BY <1>1, <1>5
<1>7. PICK e, f : e = EndIn(bn, B, i) /\ f = EndIn(bn2, B2, j)
  OBVIOUS
<1>8. IsBlock(v, N, b, e)
  <2>1. i \in 1 .. Len(bn) /\ i # 1
    OBVIOUS
  <2>2. IsBlock(v, Len(B), IF i = 1 THEN 0 ELSE bn[i], EndIn(bn, B, i))
    BY <1>2, <2>1, ToldBlocks
  <2> QED
    BY <1>1, <1>5, <1>7, <2>1, <2>2
<1>9. IsBlock(v2, N, x, f)
  <2>1. j \in 1 .. Len(bn2) /\ j # 1
    OBVIOUS
  <2>2. IsBlock(v2, Len(B2), IF j = 1 THEN 0 ELSE bn2[j], EndIn(bn2, B2, j))
    BY <1>2, <2>1, ToldBlocks
  <2> QED
    BY <1>1, <1>5, <1>7, <2>1, <2>2
<1>10. b \in Int /\ x \in Int /\ e \in b .. N /\ f \in x .. N
  BY <1>5, <1>8, <1>9 DEF IsBlock
<1>11. /\ \A k \in b .. e : P[k] = x + (k - b)
       /\ IsBlock(v2, N, x, x + (e - b))
  <2>1. \A k \in 1 .. N : v[k] \in Int
    BY <1>4
  <2>2. \A k \in b .. e : P[k] = P[b] + (k - b)
    <3>1. MovesAlong(P, b, e)
      BY <1>3, <1>8, <2>1, BlockStays
    <3> QED
      BY <3>1 DEF MovesAlong
  <2>3. IsBlock(v2, N, P[b], P[b] + (e - b))
    BY <1>3, <1>8, <2>1, BlockStays
  <2> QED
    BY <1>5, <2>2, <2>3
<1>12. f = x + (e - b)
  <2>1. PICK g : g = x + (e - b)
    OBVIOUS
  <2>2. IsBlock(v2, N, x, g)
    BY <1>11, <2>1
  <2>3. f = g
    BY <1>4, <1>9, <2>2, BlockIsUnique
  <2> QED
    BY <2>1, <2>3
<1>13. PICK h \in Int, from \in Int, to \in Int :
         /\ h = b - x /\ from = x + 1 /\ to = f /\ from + h = b + 1 /\ to + h = e
  <2>1. b - x \in Int /\ x + 1 \in Int /\ f \in Int /\ e \in Int
    BY <1>10
  <2>2. (x + 1) + (b - x) = b + 1
    BY <1>10
  <2>3. f + (b - x) = e
    BY <1>10, <1>12, <2>1
  <2> QED
    BY <2>1, <2>2, <2>3
<1>14. ASSUME NEW k \in from .. to PROVE B2[k].t = B[k + h].t
  <2>3. PICK bb \in Int, xx \in Int, ee \in Int :
          bb = b /\ xx = x /\ ee = e /\ h = bb - xx /\ from = xx + 1 /\ to + h = ee /\ ee <= N /\ 1 <= bb
    BY <1>10, <1>13
  <2>4. k + h \in bb .. ee /\ k + h \in 1 .. N /\ xx + ((k + h) - bb) = k
    BY <2>3
  <2>1. k + h \in b .. e /\ k + h \in 1 .. N /\ x + ((k + h) - b) = k
    BY <2>3, <2>4
  <2>2. P[k + h] = k
    BY <1>11, <2>1
  <2> QED
    BY <1>1, <2>1, <2>2
<1>15. Texts(B2, from, to) = Texts(B, from + h, to + h)
  <2>1. from \in Int /\ to \in Int /\ h \in Int
    OBVIOUS
  <2>2. \A k \in from .. to : B2[k].t = B[k + h].t
    BY <1>14
  <2>3. PICK f2, t2 : f2 = from + h /\ t2 = to + h
    OBVIOUS
  <2>4. SameTexts(B, B2, from, to, f2, t2, h)
    BY <2>1, <2>2, <2>3 DEF SameTexts
  <2>5. AreTexts(B2, from, to, B, f2, t2)
    BY <2>4, TextsMoved, Zenon
  <2> QED
    BY <2>3, <2>5 DEF AreTexts
<1>16. Texts(B2, x + 1, f) = Texts(B, b + 1, e)
  BY <1>13, <1>15
<1>17. NodeIn(bn2, lv2, B2, j) = [lev |-> lv2[j], x |-> B2[x].k = "marked", head |-> B2[x].t,
                                text |-> <<>> \o Texts(B2, x + 1, f)]
  BY <1>5, <1>7 DEF NodeIn
<1>18. NodeIn(bn, lv, B, i) = [lev |-> lv[i], x |-> B[b].k = "marked", head |-> B[b].t,
                               text |-> <<>> \o Texts(B, b + 1, e)]
  BY <1>5, <1>7 DEF NodeIn
<1> QED
  BY <1>6, <1>16, <1>17, <1>18

\* The text before the first node stays.
LEMMA ReorderedTop ==
  ASSUME NEW m, NEW bn, NEW lv, NEW B, Told(m, bn, lv, B), NEW bn2, NEW lv2, NEW B2, Told(m, bn2, lv2, B2),
         NEW P, IsReordered(m, B, B2, P)
  PROVE  TopIn(bn2, B2) = TopIn(bn, B)
<1>1. PICK N \in Nat : /\ N = Len(B) /\ N = Len(B2) /\ B \in Seq(LineType) /\ B2 \in Seq(LineType)
                       /\ \A k \in 1 .. N : B2[P[k]] = B[k]
  BY DEF IsReordered
<1>2. PICK v, v2 : v = LevelsAt(m, B) /\ v2 = LevelsAt(m, B2)
  OBVIOUS
<1>3. IsReordering(P, v, v2, N) /\ P[0] = 0
  BY <1>1, <1>2 DEF IsReordered, IsReordering
<1>4. /\ \A k \in 1 .. N : v[k] \in Int
      /\ \A k \in 1 .. N : v2[k] \in Int
  <2>1. \A k \in 1 .. Len(B) : v[k] = LevelIn(m, B[k]) /\ v[k] \in Int
    <3>1. B \in Seq(LineType) /\ v = LevelsAt(m, B)
      BY <1>1, <1>2
    <3> QED
      BY <3>1, LevelsAtAre, Zenon
  <2>2. \A k \in 1 .. Len(B2) : v2[k] = LevelIn(m, B2[k]) /\ v2[k] \in Int
    <3>1. B2 \in Seq(LineType) /\ v2 = LevelsAt(m, B2)
      BY <1>1, <1>2
    <3> QED
      BY <3>1, LevelsAtAre, Zenon
  <2> QED
    BY <1>1, <2>1, <2>2
<1>5. PICK e, f : e = EndIn(bn, B, 1) /\ f = EndIn(bn2, B2, 1)
  OBVIOUS
<1>6. IsBlock(v, N, 0, e) /\ IsBlock(v2, N, 0, f)
  <2>1. 1 \in 1 .. Len(bn) /\ 1 \in 1 .. Len(bn2)
    <3>1. bn # <<>> /\ bn \in Seq(Int) /\ bn2 # <<>> /\ bn2 \in Seq(Int)
      BY DEF Told
    <3> QED
      BY <3>1, EmptySeq
  <2>2. PICK o : o = 1 /\ o \in 1 .. Len(bn) /\ o \in 1 .. Len(bn2)
    BY <2>1
  <2>3. IsBlock(v, Len(B), IF o = 1 THEN 0 ELSE bn[o], EndIn(bn, B, o))
    BY <1>2, <2>2, ToldBlocks
  <2>4. IsBlock(v2, Len(B2), IF o = 1 THEN 0 ELSE bn2[o], EndIn(bn2, B2, o))
    BY <1>2, <2>2, ToldBlocks
  <2> QED
    BY <1>1, <1>5, <2>2, <2>3, <2>4
<1>7. PICK z \in Int : z = 0
  OBVIOUS
<1>8. e \in Int /\ e \in z .. N /\ f \in z .. N
  BY <1>6, <1>7 DEF IsBlock
<1>9. /\ \A k \in z .. e : P[k] = P[z] + (k - z)
      /\ IsBlock(v2, N, P[z], P[z] + (e - z))
  <2>1. IsBlock(v, N, z, e) /\ \A k \in 1 .. N : v[k] \in Int
    BY <1>4, <1>6, <1>7
  <2>2. MovesAlong(P, z, e)
    BY <1>3, <2>1, BlockStays
  <2>3. IsBlock(v2, N, P[z], P[z] + (e - z))
    BY <1>3, <2>1, BlockStays
  <2> QED
    BY <2>2, <2>3 DEF MovesAlong
<1>10. /\ \A k \in z .. e : P[k] = k
       /\ P[z] + (e - z) = e /\ P[z] = z
  BY <1>3, <1>7, <1>8, <1>9
<1>11. f = e
  <2>1. IsBlock(v2, N, z, e) /\ IsBlock(v2, N, z, f)
    BY <1>6, <1>7, <1>9, <1>10
  <2> QED
    BY <1>4, <2>1, BlockIsUnique
<1>12. PICK o \in Int : o = 1 /\ o + z = 1 /\ e + z = e
  BY <1>7, <1>8
<1>13. ASSUME NEW k \in o .. e PROVE B2[k].t = B[k + z].t
  <2>1. k \in z .. e /\ k \in 1 .. N /\ k + z = k
    BY <1>7, <1>8, <1>12
  <2> QED
    BY <1>1, <1>10, <2>1
<1>14. Texts(B2, o, e) = Texts(B, o + z, e + z)
  <2>1. o \in Int /\ e \in Int /\ z \in Int
    BY <1>8
  <2>2. \A k \in o .. e : B2[k].t = B[k + z].t
    BY <1>13
  <2>3. PICK f2, t2 : f2 = o + z /\ t2 = e + z
    OBVIOUS
  <2>4. SameTexts(B, B2, o, e, f2, t2, z)
    BY <2>1, <2>2, <2>3 DEF SameTexts
  <2>5. AreTexts(B2, o, e, B, f2, t2)
    BY <2>4, TextsMoved, Zenon
  <2> QED
    BY <2>3, <2>5 DEF AreTexts
<1> QED
  BY <1>5, <1>11, <1>12, <1>14 DEF TopIn

-----------------------------------------------------------------------------
(* Parents.                                                                *)

\* The line of node g, 0 if there is none.
LineOf(bn, g) == IF g = 0 THEN 0 ELSE bn[g + 1]

\* A node's parent in the forest is its parent in the Body.
LEMMA ParentIs ==
  ASSUME NEW m, NEW bn, NEW lv, NEW B, Told(m, bn, lv, B), NEW ns, ns = NodesIn(bn, lv, B),
         NEW v, v = LevelsAt(m, B), NEW i \in 1 .. Len(bn) - 1
  PROVE  /\ F!Parent(ns, i) \in 0 .. i - 1
         /\ IsParentAt(v, bn[i + 1], LineOf(bn, F!Parent(ns, i)))
<1>1. PICK N \in Nat, Z \in Nat : N = Len(bn) /\ Z = Len(B) /\ i \in 1 .. N - 1 /\ B \in Seq(LineType)
  BY DEF Told
<1>2. /\ \A j \in 2 .. N : bn[j] \in 1 .. Z /\ lv[j] > 0 /\ LevelIn(m, B[bn[j]]) = lv[j] /\ lv[j] \in Int
      /\ \A j, k \in 2 .. N : j < k => bn[j] < bn[k]
      /\ \A k \in 1 .. Z : LevelIn(m, B[k]) > 0 => \E j \in 2 .. N : bn[j] = k
  <2>1. \A j \in 2 .. N : lv[j] \in Int
    BY <1>1 DEF Told
  <2> QED
    BY <1>1, <2>1 DEF Told
<1>3. \A k \in 1 .. Z : v[k] = LevelIn(m, B[k]) /\ v[k] \in Int
  <2>1. \A k \in 1 .. Len(B) : v[k] = LevelIn(m, B[k]) /\ v[k] \in Int
    BY <1>1, LevelsAtAre, Zenon
  <2> QED
    BY <1>1, <2>1
<1>4. \A j \in 1 .. N - 1 : ns[j].lev = lv[j + 1]
  <2>1. \A j \in 1 .. Len(bn) - 1 : ns[j].lev = lv[j + 1]
    BY NodesInAre
  <2> QED
    BY <1>1, <2>1
<1> DEFINE S == {0} \cup {j \in 1 .. i - 1 : ns[j].lev < ns[i].lev}
<1>5. F!Parent(ns, i) = Max(S)
  BY Zenon DEF F!Parent, F!Max, Max, S
<1>6. PICK n \in Nat : n = i - 1
  BY <1>1
<1>7. S \in SUBSET (0 .. n) /\ S # {}
  BY <1>6
<1>8. \A j \in 1 .. i - 1 : j \in S <=> lv[j + 1] < lv[i + 1]
  BY <1>1, <1>4
<1>9. \A j \in S : j = 0 \/ j \in 1 .. i - 1
  OBVIOUS
<1> HIDE DEF S
<1>10. PICK g \in S : g = Max(S) /\ \A j \in S : j <= g
  BY <1>7, GreatestElement
<1>11. g \in 0 .. i - 1
  BY <1>1, <1>9
<1>12. PICK k \in 1 .. Z, l \in Int : k = bn[i + 1] /\ l = lv[i + 1] /\ v[k] = l
  <2>1. i + 1 \in 2 .. N
    BY <1>1
  <2>2. bn[i + 1] \in 1 .. Z /\ lv[i + 1] \in Int /\ LevelIn(m, B[bn[i + 1]]) = lv[i + 1]
    BY <1>2, <2>1
  <2>3. v[bn[i + 1]] = lv[i + 1]
    BY <1>3, <2>2
  <2> QED
    BY <2>2, <2>3
<1>13. PICK q : q = LineOf(bn, g)
  OBVIOUS
<1>14. q \in 0 .. k - 1 /\ (q = 0 \/ (v[q] > 0 /\ v[q] < v[k]))
  <2>1. CASE g = 0
    BY <1>13, <2>1 DEF LineOf
  <2>2. CASE g # 0
    <3>1. g \in 1 .. i - 1 /\ g + 1 \in 2 .. N /\ i + 1 \in 2 .. N /\ g + 1 < i + 1
      BY <1>1, <1>11, <2>2
    <3>2. q = bn[g + 1] /\ bn[g + 1] < bn[i + 1] /\ bn[g + 1] \in 1 .. Z
      BY <1>2, <1>13, <2>2, <3>1 DEF LineOf
    <3>3. lv[g + 1] < lv[i + 1] /\ lv[g + 1] > 0 /\ LevelIn(m, B[bn[g + 1]]) = lv[g + 1]
      BY <1>2, <1>8, <3>1
    <3>4. v[q] = lv[g + 1]
      BY <1>3, <3>2, <3>3
    <3> QED
      BY <1>12, <3>2, <3>3, <3>4
  <2> QED
    BY <2>1, <2>2
<1>15. ASSUME NEW x \in q + 1 .. k - 1
       PROVE  v[x] <= 0 \/ v[x] >= v[k]
  <2>1. x \in 1 .. Z /\ q < x /\ x < k
    BY <1>1, <1>12, <1>14
  <2>2. CASE v[x] > 0
    <3>1. PICK j \in 2 .. N : bn[j] = x
      BY <1>2, <1>3, <2>1, <2>2
    <3>2. i + 1 \in 2 .. N
      BY <1>1
    <3>3. j < i + 1
      <4>1. i + 1 < j => k < x
        BY <1>2, <1>12, <3>1, <3>2
      <4>2. i + 1 = j => k = x
        BY <1>12, <3>1
      <4> QED
        BY <1>1, <2>1, <4>1, <4>2
    <3>4. g + 1 < j
      <4>1. CASE g = 0
        BY <4>1
      <4>2. CASE g # 0
        <5>1. g + 1 \in 2 .. N /\ q = bn[g + 1]
          BY <1>1, <1>11, <1>13, <4>2 DEF LineOf
        <5>2. j < g + 1 => x < q
          BY <1>2, <3>1, <5>1
        <5>3. j = g + 1 => x = q
          BY <3>1, <5>1
        <5> QED
          BY <1>1, <1>11, <1>14, <2>1, <5>2, <5>3
      <4> QED
        BY <4>1, <4>2
    <3>5. PICK o \in Int : o = j - 1 /\ o \in 1 .. i - 1 /\ g < o /\ o + 1 = j
      BY <1>1, <1>11, <3>3, <3>4
    <3>6. o \notin S
      BY <1>10, <1>11, <3>5
    <3>7. ~(lv[j] < l)
      BY <1>8, <1>12, <3>5, <3>6
    <3>8. lv[j] \in Int /\ v[x] = lv[j]
      BY <1>2, <1>3, <2>1, <3>1
    <3> QED
      BY <1>12, <3>7, <3>8
  <2>3. v[x] \in Int
    BY <1>3, <2>1
  <2> QED
    BY <2>2, <2>3
<1>16. IsParentAt(v, k, q)
  BY <1>14, <1>15 DEF IsParentAt
<1> QED
  BY <1>5, <1>10, <1>11, <1>12, <1>13, <1>16

\* A reordering of the lines is one of the nodes: under their own parents.
LEMMA ReorderedNodes ==
  ASSUME NEW m, NEW bn, NEW lv, NEW B, Told(m, bn, lv, B), NEW bn2, NEW lv2, NEW B2, Told(m, bn2, lv2, B2),
         NEW P, IsReordered(m, B, B2, P)
  PROVE  F!Reorder(NodesIn(bn, lv, B), NodesIn(bn2, lv2, B2))
<1>0. PICK N \in Nat : N = Len(B)
  BY DEF IsReordered
<1>1. PICK v, v2 : /\ N = Len(B) /\ N = Len(B2) /\ v = LevelsAt(m, B) /\ v2 = LevelsAt(m, B2)
                   /\ B \in Seq(LineType) /\ B2 \in Seq(LineType) /\ IsReordering(P, v, v2, N)
  BY <1>0 DEF IsReordered
<1>2. PICK n \in Nat : n = Len(bn) - 1 /\ HeadsAt([i \in 1 .. n |-> bn[i + 1]], v, Len(B), n)
  BY <1>1, HeadsAtAre
<1>3. PICK n2 \in Nat : n2 = Len(bn2) - 1 /\ HeadsAt([i \in 1 .. n2 |-> bn2[i + 1]], v2, Len(B2), n2)
  BY <1>1, HeadsAtAre
<1>4. PICK h, h2 : h = [i \in 1 .. n |-> bn[i + 1]] /\ h2 = [i \in 1 .. n2 |-> bn2[i + 1]]
  OBVIOUS
<1>5. HeadsAt(h, v, N, n) /\ HeadsAt(h2, v2, N, n2)
  BY <1>1, <1>2, <1>3, <1>4
<1>6. /\ \A i \in 1 .. n : h[i] = bn[i + 1]
      /\ \A i \in 1 .. n2 : h2[i] = bn2[i + 1]
  BY <1>4
<1>a. PICK p : IsMatch(p, h, h2, P, n, n2)
  BY <1>1, <1>5, HeadsMatch, Zenon
<1>7. /\ p \in [1 .. n -> 1 .. n2]
      /\ \A i \in 1 .. n : h2[p[i]] = P[h[i]]
      /\ \A i, j \in 1 .. n : p[i] = p[j] => i = j
      /\ \A x \in 1 .. n2 : \E i \in 1 .. n : p[i] = x
  BY <1>a DEF IsMatch
<1>8. n2 = n
  <2>1. n \in Nat /\ n2 \in Nat
    OBVIOUS
  <2> QED
    BY <1>a, <2>1, SameCount, Zenon
<1>9. PICK ns, ns2 : ns = NodesIn(bn, lv, B) /\ ns2 = NodesIn(bn2, lv2, B2)
  OBVIOUS
<1>10. /\ Len(ns) = n /\ Len(ns2) = n
       /\ \A i \in 1 .. n : ns[i] = NodeIn(bn, lv, B, i + 1)
       /\ \A i \in 1 .. n : ns2[i] = NodeIn(bn2, lv2, B2, i + 1)
  <2>1. Len(ns) = Len(bn) - 1 /\ \A i \in 1 .. Len(bn) - 1 : ns[i] = NodeIn(bn, lv, B, i + 1)
    BY <1>9, NodesInAre
  <2>2. Len(ns2) = Len(bn2) - 1 /\ \A i \in 1 .. Len(bn2) - 1 : ns2[i] = NodeIn(bn2, lv2, B2, i + 1)
    BY <1>9, NodesInAre
  <2>3. n = Len(bn) - 1 /\ n = Len(bn2) - 1
    BY <1>2, <1>3, <1>8
  <2> QED
    BY <2>1, <2>2, <2>3
<1>11. ASSUME NEW i \in 1 .. n
       PROVE  ns2[p[i]] = ns[i]
  <2>1. PICK j \in 1 .. n : j = p[i]
    BY <1>7, <1>8
  <2>2. i + 1 \in 2 .. Len(bn) /\ j + 1 \in 2 .. Len(bn2)
    <3>1. Len(bn) = n + 1 /\ Len(bn2) = n + 1
      <4>1. Len(bn) \in Nat /\ Len(bn2) \in Nat
        BY DEF Told
      <4> QED
        BY <1>2, <1>3, <1>8, <4>1
    <3>2. i + 1 \in 2 .. n + 1 /\ j + 1 \in 2 .. n + 1
      OBVIOUS
    <3> QED
      BY <3>1, <3>2
  <2>3. bn2[j + 1] = P[bn[i + 1]]
    <3>1. h2[j] = P[h[i]]
      BY <1>7, <2>1
    <3>2. h2[j] = bn2[j + 1] /\ h[i] = bn[i + 1]
      BY <1>6, <1>8
    <3> QED
      BY <3>1, <3>2
  <2>4. PICK x \in 2 .. Len(bn), y \in 2 .. Len(bn2) : x = i + 1 /\ y = j + 1 /\ bn2[y] = P[bn[x]]
    BY <2>2, <2>3
  <2>5. NodeIn(bn2, lv2, B2, y) = NodeIn(bn, lv, B, x)
    BY <2>4, ReorderedNode
  <2> QED
    BY <1>10, <2>1, <2>4, <2>5
<1>12. ASSUME NEW i \in 1 .. n
       PROVE  F!Parent(ns2, p[i]) = IF F!Parent(ns, i) = 0 THEN 0 ELSE p[F!Parent(ns, i)]
  <2>1. PICK j \in 1 .. n : j = p[i]
    BY <1>7, <1>8
  <2>2. PICK x \in 1 .. N, y \in 1 .. N : x = bn[i + 1] /\ y = bn2[j + 1] /\ y = P[x] /\ v[x] > 0
    <3>1. h[i] \in 1 .. N /\ v[h[i]] > 0 /\ h2[j] \in 1 .. N
      BY <1>5, <1>8 DEF HeadsAt
    <3>2. h2[j] = P[h[i]] /\ h[i] = bn[i + 1] /\ h2[j] = bn2[j + 1]
      BY <1>6, <1>7, <1>8, <2>1
    <3> QED
      BY <3>1, <3>2
  <2>3. PICK g : g = F!Parent(ns, i) /\ g \in 0 .. i - 1 /\ IsParentAt(v, x, LineOf(bn, g))
    <3>1. i \in 1 .. Len(bn) - 1
      BY <1>2
    <3>2. /\ F!Parent(ns, i) \in 0 .. i - 1
          /\ IsParentAt(v, bn[i + 1], LineOf(bn, F!Parent(ns, i)))
      BY <1>1, <1>9, <3>1, ParentIs
    <3> QED
      BY <2>2, <3>2
  <2>4. PICK g2 : g2 = F!Parent(ns2, j) /\ g2 \in 0 .. j - 1 /\ IsParentAt(v2, y, LineOf(bn2, g2))
    <3>1. j \in 1 .. Len(bn2) - 1
      BY <1>3, <1>8
    <3>2. /\ F!Parent(ns2, j) \in 0 .. j - 1
          /\ IsParentAt(v2, bn2[j + 1], LineOf(bn2, F!Parent(ns2, j)))
      BY <1>1, <1>9, <3>1, ParentIs
    <3> QED
      BY <2>2, <3>2
  <2>5. PICK q, r : q = LineOf(bn, g) /\ r = LineOf(bn2, g2)
    OBVIOUS
  <2>6. q \in 0 .. N /\ IsParentAt(v, x, q)
    <3>1. IsParentAt(v, x, q)
      BY <2>3, <2>5
    <3>2. q \in 0 .. x - 1
      BY <3>1 DEF IsParentAt
    <3> QED
      BY <3>1, <3>2
  <2>7. IsParentAt(v2, y, P[q])
    <3>1. \A k \in 1 .. N : v[k] > 0 => \A f \in 0 .. N : IsParentAt(v, k, f) => IsParentAt(v2, P[k], P[f])
      BY <1>1 DEF IsReordering
    <3> QED
      BY <2>2, <2>6, <3>1
  <2>8. r = P[q]
    <3>1. \A k \in 1 .. N : v2[k] \in Int
      <4>1. \A k \in 1 .. Len(B2) : v2[k] = LevelIn(m, B2[k]) /\ v2[k] \in Int
        <5>1. B2 \in Seq(LineType) /\ v2 = LevelsAt(m, B2)
          BY <1>1
        <5> QED
          BY <5>1, LevelsAtAre, Zenon
      <4> QED
        BY <1>1, <4>1
    <3>2. PICK f : f = P[q]
      OBVIOUS
    <3>3. y \in Int /\ v2[y] \in Int /\ \A k \in 1 .. y : v2[k] \in Int
      BY <3>1
    <3>4. IsParentAt(v2, y, r) /\ IsParentAt(v2, y, f)
      BY <2>4, <2>5, <2>7, <3>2
    <3> QED
      BY <3>2, <3>3, <3>4, ParentAtIsUnique
  <2>9. g = 0 => q = 0
    BY <2>5 DEF LineOf
  <2>10. g # 0 => g \in 1 .. n /\ q = h[g] /\ p[g] \in 1 .. n /\ P[q] = h2[p[g]]
    <3>1. SUFFICES ASSUME g # 0 PROVE g \in 1 .. n /\ q = h[g] /\ p[g] \in 1 .. n /\ P[q] = h2[p[g]]
      OBVIOUS
    <3>2. g \in 1 .. n
      BY <2>3, <3>1
    <3>3. q = h[g]
      BY <1>6, <2>5, <3>1, <3>2 DEF LineOf
    <3> QED
      BY <1>7, <1>8, <3>2, <3>3
  <2>11. g2 = 0 => r = 0
    BY <2>5 DEF LineOf
  <2>12. g2 # 0 => g2 \in 1 .. n /\ r = h2[g2]
    <3>1. SUFFICES ASSUME g2 # 0 PROVE g2 \in 1 .. n /\ r = h2[g2]
      OBVIOUS
    <3>2. g2 \in 1 .. n
      BY <2>4, <3>1
    <3> QED
      BY <1>6, <1>8, <2>5, <3>1, <3>2 DEF LineOf
  <2>13. /\ \A k \in 1 .. n : h2[k] # 0
         /\ \A k, l \in 1 .. n : h2[k] = h2[l] => k = l
    <3>1. \A k \in 1 .. n : h2[k] \in 1 .. N
      BY <1>5, <1>8 DEF HeadsAt
    <3>2. \A k, l \in 1 .. n : h2[k] = h2[l] => k = l
      BY <1>5, <1>8 DEF HeadsAt
    <3> QED
      BY <3>1, <3>2
  <2>14. P[0] = 0
    BY <1>1 DEF IsReordering
  <2>15. g2 = IF g = 0 THEN 0 ELSE p[g]
    <3>1. CASE g = 0
      BY <2>8, <2>9, <2>12, <2>13, <2>14, <3>1
    <3>2. CASE g # 0
      BY <2>8, <2>10, <2>11, <2>12, <2>13, <3>2
    <3> QED
      BY <3>1, <3>2
  <2> QED
    BY <2>1, <2>3, <2>4, <2>15
<1>13. p \in F!Bijection(1 .. n, 1 .. n)
  BY <1>7, <1>8 DEF F!Bijection, F!Injection, F!Surjection, F!IsInjective
<1>14. F!Reorder(ns, ns2)
  BY <1>10, <1>11, <1>12, <1>13 DEF F!Reorder
<1> QED
  BY <1>9, <1>14

\* The parse of a Body tells it.
LEMMA ParsedTells ==
  ASSUME NEW m \in OneLineModes, NEW B \in Seq(LineType), B # <<>>
  PROVE  \E bn, lv : Told(m, bn, lv, B)
<1>1. PICK o, bn, lv, T : o = OutlineOf(m, B) /\ bn = << 1 >> \o o.bnodes /\ lv = << 1 >> \o o.levels
                          /\ T = <<RootLine>> \o o.tlines
  OBVIOUS
<1>2. Told(m, bn, lv, B)
  BY <1>1, ParseTells
<1> QED
  BY <1>2

\* A reordering of the Body is one of the forest.
LEMMA ReorderedSteps ==
  ASSUME mode \in OneLineModes, NEW bn, NEW lv, NEW B, Told(mode, bn, lv, B),
         NEW B2 \in Seq(LineType), B2 # <<>>, NEW P, IsReordered(mode, B, B2, P), NEW c
  PROVE  IsForestStep(B, c, B2, c)
<1>1. PICK bn2, lv2 : Told(mode, bn2, lv2, B2)
  BY ParsedTells
<1>2. F!Reorder(NodesIn(bn, lv, B), NodesIn(bn2, lv2, B2))
  BY <1>1, ReorderedNodes
<1>3. TopIn(bn2, B2) = TopIn(bn, B)
  BY <1>1, ReorderedTop
<1>4. IsStepOf(NodesIn(bn, lv, B), NodesIn(bn2, lv2, B2), c, c)
  BY <1>2 DEF IsStepOf
<1> QED
  BY <1>1, <1>3, <1>4, ToldStep

\* A sort is a step of the forest.
LEMMA SortingSteps ==
  ASSUME OutlineInv, Sorting
  PROVE  IsForestStep(Body, clip, Body', clip') /\ mode' = mode
<1>1. PICK body, P : /\ mode' = mode /\ clip' = clip /\ Body' = body
                     /\ Told(mode, bnodes, levels, Body) /\ IsReordered(mode, Body, body, P)
  BY SortingReorders, Zenon
<1>2. mode \in OneLineModes /\ body \in Seq(LineType) /\ body # <<>>
  BY <1>1, SortingLeavesBody DEF OutlineInv, IsTyped
<1>3. IsForestStep(Body, clip, body, clip)
  BY <1>1, <1>2, ReorderedSteps
<1> QED
  BY <1>1, <1>3

\* The forest goes with the Body.
LEMMA ForestNext ==
  ASSUME LinesAreTyped, OutlineInv, ForestTells, Next, mode' = mode, forest' \in ForestsOf(Body', clip')
  PROVE  OutlineInv' /\ ForestTells' /\ forest' = ParsedForest(mode, Body', clip')
<1>1. OutlineInv'
  BY NextKeeps
<1>2. mode \in OneLineModes /\ Body' \in Seq(LineType) /\ clip' \in Seq(LineType)
  BY <1>1 DEF OutlineInv, IsTyped
<1>3. PICK B, c, f : B = Body' /\ c = clip' /\ f = forest'
  OBVIOUS
<1>4. f = ParsedForest(mode, B, c)
  <2>1. B \in Seq(LineType) /\ c \in Seq(LineType) /\ f \in ForestsOf(B, c)
    BY <1>2, <1>3
  <2> QED
    BY <1>2, <2>1, ForestIsParsed
<1>5. forest' = ParsedForest(mode', Body', clip')
  BY <1>3, <1>4
<1> QED
  BY <1>1, <1>3, <1>4, <1>5, Zenon DEF ForestTells

\* The forest and the invariant in the first state.
LEMMA ForestStarts ==
  ASSUME LinesAreTyped, MCForestInit, mode \in OneLineModes
  PROVE  OutlineInv /\ ForestTells
<1>1. Start /\ forest \in ForestsOf(Body, clip)
  BY DEF MCForestInit, MCInit
<1>2. OutlineInv
  BY <1>1, StartKeeps
<1>3. Body \in Seq(LineType) /\ clip \in Seq(LineType)
  BY <1>2 DEF OutlineInv, IsTyped
<1>4. forest = ParsedForest(mode, Body, clip)
  BY <1>1, <1>3, ForestIsParsed
<1> QED
  BY <1>2, <1>4 DEF ForestTells

\* Every step is one of the forest or leaves it as it is.
LEMMA ForestKeeps ==
  ASSUME LinesAreTyped, OutlineInv, ForestTells, MCForestNext
  PROVE  OutlineInv' /\ ForestTells' /\ [F!Next]_(F!vars)
<1>1. CASE Outlining \/ Sorting
  <2>1. IsForestStep(Body, clip, Body', clip') /\ mode' = mode
    BY <1>1, OutliningSteps, SortingSteps
  <2>2. Next /\ forest' \in ForestsOf(Body', clip')
    BY <1>1, Zenon DEF MCForestNext, Next
  <2>3. OutlineInv' /\ ForestTells' /\ forest' = ParsedForest(mode, Body', clip')
    BY <2>1, <2>2, ForestNext
  <2>4. F!Next
    BY <2>1, <2>3, ForestSteps
  <2> QED
    BY <2>3, <2>4
<1>2. CASE Selecting
  <2>1. Body' = Body /\ clip' = clip /\ mode' = mode
    BY <1>2, SelectingStays
  <2>2. Next /\ forest' \in ForestsOf(Body', clip')
    BY <1>2, Zenon DEF MCForestNext, Next
  <2>3. OutlineInv' /\ ForestTells' /\ forest' = ParsedForest(mode, Body', clip')
    BY <2>1, <2>2, ForestNext
  <2>4. UNCHANGED F!vars
    BY <2>1, <2>3, ForestStays
  <2> QED
    BY <2>3, <2>4
<1>3. Outlining \/ Sorting \/ Selecting
  BY Zenon DEF MCForestNext, Step, Select
<1> QED
  BY <1>1, <1>2, <1>3

\* Nothing happens to the forest when nothing happens.
LEMMA ForestStutters ==
  ASSUME OutlineInv, ForestTells, UNCHANGED <<vars, steps, forest>>
  PROVE  OutlineInv' /\ ForestTells' /\ UNCHANGED F!vars
<1>1. UNCHANGED vars /\ forest' = forest
  OBVIOUS
<1>2. OutlineInv'
  BY <1>1, StutteringKeeps
<1>3. mode' = mode /\ Body' = Body /\ clip' = clip
  BY <1>1 DEF vars
<1>4. UNCHANGED F!vars
  BY <1>1, <1>3 DEF F!vars, LastLevel
<1>5. ForestTells'
  BY <1>1, <1>3 DEF ForestTells
<1> QED
  BY <1>2, <1>4, <1>5

\* The outline operations and sorting implement the abstract forest in every
\* mode in which a line alone tells whether it is a headline and no hook but the
\* one for pasting changes lines: each of voom_OopUp, voom_OopDown, voom_OopLeft,
\* voom_OopRight, voom_OopCopy, voom_OopCut, voom_OopPaste, voom_OopInsert and
\* voom_OopSort moves, changes the level of, copies, takes away, puts in or
\* reorders whole branches, and no line of text or headline is lost or changes
\* its node.
THEOREM OneLineRefinesForest ==
  ASSUME LinesAreTyped
  PROVE  MCForestSpec /\ mode \in OneLineModes => RefinesForest
<1> DEFINE Inv == OutlineInv /\ ForestTells
<1>1. MCForestInit /\ mode \in OneLineModes => Inv
  BY ForestStarts
<1>2. Inv /\ [MCForestNext]_<<vars, steps, forest>> => Inv' /\ [F!Next]_(F!vars)
  BY ForestKeeps, ForestStutters
<1> HIDE DEF Inv
<1> QED
  BY <1>1, <1>2, PTL DEF MCForestSpec, RefinesForest, F!Spec
=============================================================================
