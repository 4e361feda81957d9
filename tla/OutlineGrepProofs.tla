-------------------------- MODULE OutlineGrepProofs --------------------------
(***************************************************************************)
(* Proofs about OutlineGrep: what a search finds, for all outlines,        *)
(* patterns and numbers of patterns.                                       *)
(***************************************************************************)
EXTENDS OutlineGrep, OutlineProofs

(* The search.                                                             *)

OutlineOK ==
  /\ bnodes \in Seq(Positive)
  /\ levels \in Seq(Positive)
  /\ Len(bnodes) = Len(levels)
  /\ bnodes # <<>>
  /\ bnodes[1] = 1

\* For each pattern, the nodes that have it or inherit it.
SetsOK(matches, inhs, tlnums) ==
  /\ matches \in Seq(Matches)
  /\ inhs \in Seq(BOOLEAN)
  /\ tlnums \in Seq(SUBSET TreeLines)
  /\ Len(inhs) = Len(matches)
  /\ Len(tlnums) = Len(matches)
  /\ \A i \in 1 .. Len(matches) :
       tlnums[i] = {t \in TreeLines : Shows(t, matches[i], inhs[i])}

\* The nodes of which an AND pattern is only inherited.
InhOnlyOK ==
  inh_only = {t \in TreeLines : \E i \in 1 .. Len(matchesAND) :
                Shows(t, matchesAND[i], inhAND[i]) /\ ~Has(t, matchesAND[i])}

GrepInv ==
  /\ OutlineOK
  /\ SetsOK(matchesAND, inhAND, tlnumsAND)
  /\ SetsOK(matchesNOT, inhNOT, tlnumsNOT)
  /\ InhOnlyOK

\* Each Body line is in a node.
LEMMA NodeAtType ==
  ASSUME OutlineOK, NEW bln \in Positive
  PROVE  NodeAt(bnodes, bln) \in TreeLines
<1> DEFINE S == {i \in 1 .. Len(bnodes) : bnodes[i] <= bln}
<1>1. Len(bnodes) \in Nat \ {0} /\ Len(levels) = Len(bnodes)
  BY DEF OutlineOK
<1>2. IsFiniteSet(1 .. Len(bnodes)) /\ Cardinality(1 .. Len(bnodes)) = Len(bnodes)
  <2>1. 1 \in Int /\ Len(bnodes) \in Int /\ ~(1 > Len(bnodes)) /\ Len(bnodes) - 1 + 1 = Len(bnodes)
    BY <1>1
  <2> QED
    BY <2>1, FS_Interval
<1>3. IsFiniteSet(S) /\ Cardinality(S) <= Len(bnodes)
  <2> S \in SUBSET (1 .. Len(bnodes))
    OBVIOUS
  <2> HIDE DEF S
  <2> QED
    BY <1>2, FS_Subset
<1>4. 1 \in S
  BY <1>1 DEF OutlineOK, Positive
<1>5. Cardinality(S) \in Nat /\ Cardinality(S) # 0
  <2> HIDE DEF S
  <2> QED
    BY <1>3, <1>4, FS_CardinalityType, FS_EmptySet
<1> QED
  BY <1>1, <1>3, <1>5 DEF NodeAt, TreeLines

LEMMA NodesWithAre ==
  ASSUME OutlineOK, NEW L \in Matches
  PROVE  NodesWith(L) = {t \in TreeLines : Has(t, L)}
<1>1. \A i \in 1 .. Len(L) : NodeAt(bnodes, L[i]) \in TreeLines
  <2> L \in Seq(Positive)
    BY MatchesAssumption
  <2> QED
    BY NodeAtType
<1> QED
  BY <1>1 DEF NodesWith, Has

LEMMA NodesUnderAre ==
  ASSUME OutlineOK, NEW L \in Matches
  PROVE  NodesUnder(NodesWith(L)) =
           {t \in TreeLines : \E s \in nodeAncestors(levels, t) : Has(s, L)}
<1>1. \A s \in TreeLines, t \in Int :
        t \in s + 1 .. BranchEnd(levels, s) <=> t \in TreeLines /\ s \in nodeAncestors(levels, t)
  BY BranchesHoldDescendants DEF OutlineOK, TreeLines
<1>2. \A t \in TreeLines : nodeAncestors(levels, t) \subseteq TreeLines /\ t \in Int
  BY DEF nodeAncestors, TreeLines, OutlineOK
<1>3. \A s \in TreeLines : s + 1 .. BranchEnd(levels, s) \subseteq Int
  OBVIOUS
<1>4. ASSUME NEW t
      PROVE  t \in NodesUnder(NodesWith(L))
               <=> \E s \in TreeLines : Has(s, L) /\ t \in s + 1 .. BranchEnd(levels, s)
  BY NodesWithAre DEF NodesUnder
<1> QED
  BY <1>1, <1>2, <1>3, <1>4

\* What the dictionary of a pattern holds.
LEMMA ShownNodes ==
  ASSUME OutlineOK, NEW L \in Matches, NEW inh \in BOOLEAN
  PROVE  NodesWith(L) \cup (IF inh THEN NodesUnder(NodesWith(L)) ELSE {}) =
           {t \in TreeLines : Shows(t, L, inh)}
BY NodesWithAre, NodesUnderAre DEF Shows

\* A pattern more.
LEMMA SetsGrow ==
  ASSUME NEW matches, NEW inhs, NEW tlnums, SetsOK(matches, inhs, tlnums),
         NEW L \in Matches, NEW inh \in BOOLEAN
  PROVE  SetsOK(Append(matches, L), Append(inhs, inh),
                Append(tlnums, {t \in TreeLines : Shows(t, L, inh)}))
<1> DEFINE new == {t \in TreeLines : Shows(t, L, inh)}
           n == Len(matches)
           tlnums2 == Append(tlnums, new)
<1>1. new \in SUBSET TreeLines
  OBVIOUS
<1> HIDE DEF new
<1>2. /\ Append(matches, L) \in Seq(Matches)
      /\ Append(inhs, inh) \in Seq(BOOLEAN)
      /\ tlnums2 \in Seq(SUBSET TreeLines)
      /\ Len(Append(matches, L)) = n + 1 /\ n \in Nat
      /\ Len(Append(inhs, inh)) = n + 1
      /\ Len(tlnums2) = n + 1
  BY <1>1 DEF SetsOK
<1>3. ASSUME NEW i \in 1 .. n
      PROVE  Append(matches, L)[i] = matches[i] /\ Append(inhs, inh)[i] = inhs[i] /\ tlnums2[i] = tlnums[i]
  BY <1>1 DEF SetsOK
<1>4. Append(matches, L)[n + 1] = L /\ Append(inhs, inh)[n + 1] = inh /\ tlnums2[n + 1] = new
  BY <1>1 DEF SetsOK
<1> HIDE DEF tlnums2, n
<1>5. ASSUME NEW i \in 1 .. n + 1
      PROVE  tlnums2[i] = {t \in TreeLines : Shows(t, Append(matches, L)[i], Append(inhs, inh)[i])}
  <2>1. CASE i = n + 1
    BY <1>4, <2>1 DEF new
  <2>2. CASE i \in 1 .. n
    BY <1>3, <2>2 DEF SetsOK, n
  <2> QED
    BY <1>2, <2>1, <2>2
<1> QED
  BY <1>2, <1>5 DEF SetsOK, tlnums2, new

LEMMA SameOutline ==
  ASSUME UNCHANGED outline
  PROVE  /\ TreeLines' = TreeLines
         /\ OutlineOK => OutlineOK'
         /\ \A L, t : Has(t, L)' <=> Has(t, L)
         /\ \A L, t, inh : Shows(t, L, inh)' <=> Shows(t, L, inh)
         /\ \A matches, inhs, tlnums : SetsOK(matches, inhs, tlnums) => SetsOK(matches, inhs, tlnums)'
<1>1. bnodes' = bnodes /\ levels' = levels
  BY DEF outline
<1>2. TreeLines' = TreeLines /\ (OutlineOK => OutlineOK')
  BY <1>1 DEF TreeLines, OutlineOK
<1>3. ASSUME NEW L, NEW t PROVE Has(t, L)' <=> Has(t, L)
  BY <1>1 DEF Has
<1>4. ASSUME NEW L, NEW t, NEW inh PROVE Shows(t, L, inh)' <=> Shows(t, L, inh)
  BY <1>1, <1>3 DEF Shows
<1>5. ASSUME NEW matches, NEW inhs, NEW tlnums, SetsOK(matches, inhs, tlnums)
      PROVE  SetsOK(matches, inhs, tlnums)'
  BY <1>2, <1>4, <1>5 DEF SetsOK
<1> QED
  BY <1>2, <1>3, <1>4, <1>5

LEMMA GrepInit == Init => GrepInv
<1> SUFFICES ASSUME Init PROVE GrepInv
  OBVIOUS
<1>1. OutlineOK
  BY OutlinesAssumption DEF Init, OutlineOK
<1>2. SetsOK(<<>>, <<>>, <<>>)
  BY DEF SetsOK
<1> QED
  BY <1>1, <1>2 DEF Init, GrepInv, InhOnlyOK

LEMMA GrepStep == GrepInv /\ [Next]_vars => GrepInv'
<1> SUFFICES ASSUME GrepInv, [Next]_vars PROVE GrepInv'
  OBVIOUS
<1>1. ASSUME NEW L \in Matches, NEW inh \in BOOLEAN, GrepAND(L, inh)
      PROVE  GrepInv'
  <2> DEFINE with == NodesWith(L)
             under == IF inh THEN NodesUnder(with) \ with ELSE {}
  <2>1. with \cup under = {t \in TreeLines : Shows(t, L, inh)}
    BY ShownNodes DEF GrepInv
  <2>2. /\ matchesAND' = Append(matchesAND, L)
        /\ inhAND' = Append(inhAND, inh)
        /\ tlnumsAND' = Append(tlnumsAND, {t \in TreeLines : Shows(t, L, inh)})
        /\ inh_only' = inh_only \cup under
        /\ UNCHANGED <<outline, matchesNOT, inhNOT, tlnumsNOT>>
    BY <1>1, <2>1 DEF GrepAND, Inheriting
  <2>3. SetsOK(matchesAND', inhAND', tlnumsAND')
    BY <2>2, SetsGrow DEF GrepInv
  <2>4. under = {t \in TreeLines : Shows(t, L, inh) /\ ~Has(t, L)}
    BY NodesWithAre, NodesUnderAre DEF GrepInv, Shows
  <2>5. inh_only' = {t \in TreeLines : \E i \in 1 .. Len(matchesAND') :
                       Shows(t, matchesAND'[i], inhAND'[i]) /\ ~Has(t, matchesAND'[i])}
    <3>1. /\ Len(matchesAND') = Len(matchesAND) + 1 /\ Len(matchesAND) \in Nat
          /\ matchesAND'[Len(matchesAND) + 1] = L /\ inhAND'[Len(matchesAND) + 1] = inh
          /\ \A i \in 1 .. Len(matchesAND) : matchesAND'[i] = matchesAND[i] /\ inhAND'[i] = inhAND[i]
      BY <2>2 DEF GrepInv, SetsOK
    <3>2. inh_only = {t \in TreeLines : \E i \in 1 .. Len(matchesAND) :
                        Shows(t, matchesAND[i], inhAND[i]) /\ ~Has(t, matchesAND[i])}
      BY DEF GrepInv, InhOnlyOK
    <3> HIDE DEF under
    <3>3. ASSUME NEW t \in TreeLines
          PROVE  (\E i \in 1 .. Len(matchesAND') :
                    Shows(t, matchesAND'[i], inhAND'[i]) /\ ~Has(t, matchesAND'[i]))
                 <=> t \in inh_only \/ t \in under
      <4>1. 1 .. Len(matchesAND') = 1 .. Len(matchesAND) \cup {Len(matchesAND) + 1}
        BY <3>1
      <4> QED
        BY <3>1, <3>2, <2>4, <4>1
    <3> QED
      BY <3>2, <3>3, <2>2, <2>4
  <2>6. InhOnlyOK'
    BY <2>2, <2>5, SameOutline DEF InhOnlyOK
  <2> QED
    BY <2>2, <2>3, <2>6, SameOutline DEF GrepInv
<1>2. ASSUME NEW L \in Matches, NEW inh \in BOOLEAN, GrepNOT(L, inh)
      PROVE  GrepInv'
  <2>1. (IF inh THEN NodesWith(L) \cup NodesUnder(NodesWith(L)) ELSE NodesWith(L))
          = {t \in TreeLines : Shows(t, L, inh)}
    BY ShownNodes DEF GrepInv
  <2>2. /\ matchesNOT' = Append(matchesNOT, L)
        /\ inhNOT' = Append(inhNOT, inh)
        /\ tlnumsNOT' = Append(tlnumsNOT, {t \in TreeLines : Shows(t, L, inh)})
        /\ UNCHANGED <<outline, matchesAND, inhAND, found, tlnumsAND>>
    BY <1>2, <2>1 DEF GrepNOT
  <2>3. SetsOK(matchesNOT', inhNOT', tlnumsNOT')
    BY <2>2, SetsGrow DEF GrepInv
  <2>4. InhOnlyOK'
    BY <2>2, SameOutline DEF GrepInv, InhOnlyOK, found
  <2> QED
    BY <2>2, <2>3, <2>4, SameOutline DEF GrepInv
<1>3. CASE UNCHANGED vars
  BY <1>3, SameOutline DEF vars, found, GrepInv, InhOnlyOK
<1> QED
  BY <1>1, <1>2, <1>3 DEF Next

LEMMA GrepInvariant == Spec => []GrepInv
BY GrepInit, GrepStep, PTL DEF Spec

\* The results of a search are the nodes for which each AND pattern, and no NOT
\* pattern, is found in the node or, for a pattern with *, in it or in an
\* ancestor.
THEOREM SearchFindsMatches == Spec => []ResultsMatch
<1>1. GrepInv => ResultsMatch
  <2> SUFFICES ASSUME GrepInv PROVE ResultsMatch
    OBVIOUS
  <2>1. Len(matchesAND) = 0 <=> matchesAND = <<>>
    BY DEF GrepInv, SetsOK
  <2>2. Len(tlnumsAND) = Len(matchesAND) /\ Len(tlnumsNOT) = Len(matchesNOT)
    BY DEF GrepInv, SetsOK
  <2>3. ASSUME NEW t \in TreeLines
        PROVE  /\ (\A i \in 1 .. Len(tlnumsNOT) : t \notin tlnumsNOT[i])
                    <=> \A i \in 1 .. Len(matchesNOT) : ~Shows(t, matchesNOT[i], inhNOT[i])
               /\ (\A i \in 1 .. Len(tlnumsAND) : t \in tlnumsAND[i])
                    <=> \A i \in 1 .. Len(matchesAND) : Shows(t, matchesAND[i], inhAND[i])
    BY <2>2 DEF GrepInv, SetsOK
  <2>4. CASE matchesAND = <<>>
    <3>1. Results = {t \in TreeLines : \A i \in 1 .. Len(tlnumsNOT) : t \notin tlnumsNOT[i]}
      BY <2>4 DEF Results, intersectDicts
    <3> QED
      BY <2>1, <2>3, <2>4, <3>1 DEF ResultsMatch
  <2>5. CASE matchesAND # <<>>
    <3>1. tlnumsAND # <<>>
      BY <2>1, <2>2, <2>5
    <3>2. Results = {t \in TreeLines : /\ \A i \in 1 .. Len(tlnumsAND) : t \in tlnumsAND[i]
                                       /\ \A i \in 1 .. Len(tlnumsNOT) : t \notin tlnumsNOT[i]}
      BY <2>5, <3>1 DEF Results, intersectDicts
    <3> QED
      BY <2>3, <3>2 DEF ResultsMatch
  <2> QED
    BY <2>4, <2>5
<1> QED
  BY <1>1, GrepInvariant, PTL

\* A result has the sign N if the node has all AND patterns itself, and n if it
\* inherits one of them.
THEOREM SignsTellInheritance == Spec => []SignsRight
<1>1. GrepInv /\ ResultsMatch => SignsRight
  <2> SUFFICES ASSUME GrepInv, ResultsMatch, NEW t \in Results
               PROVE  Result(t).sign = "N" <=>
                        matchesAND # <<>> /\ \A i \in 1 .. Len(matchesAND) : Has(t, matchesAND[i])
    BY DEF SignsRight
  <2>1. t \in TreeLines /\ \A i \in 1 .. Len(matchesAND) : Shows(t, matchesAND[i], inhAND[i])
    BY DEF ResultsMatch
  <2>2. t \in inh_only <=> \E i \in 1 .. Len(matchesAND) : ~Has(t, matchesAND[i])
    BY <2>1 DEF GrepInv, InhOnlyOK
  <2>3. Result(t).sign = IF matchesAND = <<>> \/ t \in inh_only THEN "n" ELSE "N"
    BY DEF Result
  <2> QED
    BY <2>2, <2>3
<1> QED
  BY <1>1, GrepInvariant, SearchFindsMatches, PTL
-----------------------------------------------------------------------------
(* The counts of a search without inherited patterns.                      *)

\* The dictionaries.
Dict == UNION {[S -> Nat] : S \in SUBSET TreeLines}
Counters == [counts : Dict, blnums : Dict]

LEMMA DictIs ==
  ASSUME NEW c
  PROVE  c \in Dict <=> /\ c \in [DOMAIN c -> Nat]
                        /\ DOMAIN c \subseteq TreeLines
BY DEF Dict

\* An entry is put.
Put(c, t, v) == Updated(c, [x \in {t} |-> v])

IsEntered(h, c, t, v) ==
  /\ DOMAIN h = DOMAIN c \cup {t} /\ h[t] = v
  /\ \A x \in DOMAIN c : x # t => h[x] = c[x]

LEMMA PutIs ==
  ASSUME NEW c, NEW t, NEW v
  PROVE  IsEntered(Put(c, t, v), c, t, v)
BY DEF Put, Updated, IsEntered

LEMMA PutInDict ==
  ASSUME NEW c \in Dict, NEW t \in TreeLines, NEW v \in Nat
  PROVE  Put(c, t, v) \in Dict
<1>1. PICK h : h = Put(c, t, v)
  OBVIOUS
<1>2. /\ DOMAIN h = DOMAIN c \cup {t} /\ h[t] = v
      /\ \A x \in DOMAIN c : x # t => h[x] = c[x]
  <2>1. IsEntered(Put(c, t, v), c, t, v)
    BY PutIs, Zenon
  <2> QED
    BY <1>1, <2>1 DEF IsEntered
<1>3. c \in [DOMAIN c -> Nat] /\ DOMAIN c \subseteq TreeLines
  BY DictIs
<1>4. h = [x \in DOMAIN h |-> h[x]]
  BY <1>1 DEF Put, Updated
<1>5. \A x \in DOMAIN h : h[x] \in Nat
  BY <1>2, <1>3
<1>6. h \in [DOMAIN h -> Nat] /\ DOMAIN h \subseteq TreeLines
  BY <1>2, <1>3, <1>4, <1>5
<1> QED
  BY <1>1, <1>6, DictIs

\* What counting a match in node t does.
Counts(acc, acc2, t, bln) ==
  /\ acc2.counts = Put(acc.counts, t, IF t \in DOMAIN acc.counts THEN acc.counts[t] + 1 ELSE 1)
  /\ \E first \in Nat :
       /\ acc2.blnums = Put(acc.blnums, t, first)
       /\ first = IF \/ t \notin DOMAIN acc.blnums
                     \/ acc.blnums[t] > bln
                     \/ acc2.counts[t] = 1
                  THEN bln ELSE acc.blnums[t]

LEMMA CountMatchIs ==
  ASSUME NEW acc \in Counters, NEW bln \in Positive, OutlineOK
  PROVE  CountMatch(acc, bln) \in Counters /\ Counts(acc, CountMatch(acc, bln), NodeAt(bnodes, bln), bln)
<1>1. PICK t \in TreeLines : t = NodeAt(bnodes, bln)
  BY NodeAtType
<1>2. acc.counts \in Dict /\ acc.blnums \in Dict /\ bln \in Nat
  BY DEF Counters, Positive
<1>3. PICK count \in Nat : count = IF t \in DOMAIN acc.counts THEN acc.counts[t] + 1 ELSE 1
  <2>1. t \in DOMAIN acc.counts => acc.counts[t] \in Nat
    BY <1>2, DictIs
  <2> QED
    BY <2>1
<1>4. PICK first \in Nat : first = IF t \notin DOMAIN acc.blnums \/ acc.blnums[t] > bln \/ count = 1
                                   THEN bln ELSE acc.blnums[t]
  <2>1. t \in DOMAIN acc.blnums => acc.blnums[t] \in Nat
    BY <1>2, DictIs
  <2> QED
    BY <1>2, <2>1
<1>5. CountMatch(acc, bln) = [counts |-> Put(acc.counts, t, count), blnums |-> Put(acc.blnums, t, first)]
  BY <1>1, <1>3, <1>4, Zenon DEF CountMatch, Put
<1>6. Put(acc.counts, t, count) \in Dict /\ Put(acc.blnums, t, first) \in Dict
  BY <1>2, PutInDict
<1>7. CountMatch(acc, bln) \in Counters
  BY <1>5, <1>6 DEF Counters
<1>8. PICK acc2 : acc2 = CountMatch(acc, bln)
  OBVIOUS
<1>9. acc2.counts = Put(acc.counts, t, count) /\ acc2.blnums = Put(acc.blnums, t, first)
  BY <1>5, <1>8
<1>10. acc2.counts[t] = count
  <2>1. IsEntered(Put(acc.counts, t, count), acc.counts, t, count)
    BY PutIs, Zenon
  <2> QED
    BY <1>9, <2>1 DEF IsEntered
<1>11. Counts(acc, acc2, t, bln)
  BY <1>3, <1>4, <1>9, <1>10 DEF Counts
<1> QED
  BY <1>1, <1>7, <1>8, <1>11

\* The counts go through the matches one by one.
Steps(f, L, acc) ==
  /\ f \in [0 .. Len(L) -> Counters] /\ f[0] = acc
  /\ \A k \in 1 .. Len(L) : f[k] = CountMatch(f[k - 1], L[k])

LEMMA CountFold ==
  ASSUME OutlineOK, NEW L \in Seq(Positive), NEW acc \in Counters
  PROVE  \E f : Steps(f, L, acc) /\ FoldLeft(CountMatch, acc, L) = f[Len(L)]
<1>1. PICK n \in Nat : n = Len(L) /\ DOMAIN L = 1 .. n
  OBVIOUS
<1> DEFINE g == [q \in (1 .. n) \X Counters |-> CountMatch(q[2], L[q[1]])]
<1>2. IsStep(g, Counters, n)
  <2>1. ASSUME NEW q \in (1 .. n) \X Counters
        PROVE  CountMatch(q[2], L[q[1]]) \in Counters
    <3>1. q[2] \in Counters /\ L[q[1]] \in Positive
      BY <1>1
    <3> QED
      BY <3>1, CountMatchIs
  <2> QED
    BY <2>1 DEF IsStep
<1>3. ASSUME NEW k \in 1 .. n, NEW x \in Counters
      PROVE  g[<<k, x>>] = CountMatch(x, L[k])
  <2>1. <<k, x>> \in (1 .. n) \X Counters
    OBVIOUS
  <2> QED
    BY <2>1
<1> HIDE DEF g
<1>4. PICK f : Recurs(f, Counters, acc, n, g)
  BY <1>2, RecursionIs, Zenon
<1>5. PICK it : IsFold(it, Counters, acc, n, g)
  BY <1>2, FoldExists, Zenon
<1> DEFINE Rec(w) == w = [s \in SUBSET (1 .. n) |-> IF s = {} THEN acc
                                                   ELSE CountMatch(w[s \ {Max(s)}], L[Max(s)])]
           c == CHOOSE w : Rec(w)
<1>6. Rec(it)
  <2>1. ASSUME NEW s \in SUBSET (1 .. n)
        PROVE  it[s] = IF s = {} THEN acc ELSE CountMatch(it[s \ {Max(s)}], L[Max(s)])
    <3>1. CASE s = {}
      BY <1>5, <3>1 DEF IsFold
    <3>2. CASE s # {}
      <4>1. Max(s) \in 1 .. n /\ s \ {Max(s)} \in SUBSET (1 .. n)
        BY <3>2, MaxOfSubset
      <4>2. it[s] = g[<<Max(s), it[s \ {Max(s)}]>>] /\ it[s \ {Max(s)}] \in Counters
        BY <1>5, <3>2, <4>1 DEF IsFold
      <4> QED
        BY <1>3, <3>2, <4>1, <4>2
    <3> QED
      BY <3>1, <3>2
  <2> QED
    BY <1>5, <2>1 DEF IsFold
<1>7. Rec(c)
  <2> HIDE DEF Rec
  <2> QED
    BY <1>6
<1>8. FoldLeft(CountMatch, acc, L) = c[1 .. n]
  BY <1>1, Zenon DEF FoldLeft, MapThenFoldSet
<1>9. /\ c[{}] = acc
      /\ \A k \in 1 .. n : c[1 .. k] = CountMatch(c[1 .. k - 1], L[k])
  <2>1. c = [s \in SUBSET (1 .. n) |-> IF s = {} THEN acc ELSE CountMatch(c[s \ {Max(s)}], L[Max(s)])]
    BY <1>7
  <2> HIDE DEF c
  <2>2. c[{}] = acc
    BY <2>1
  <2>3. ASSUME NEW k \in 1 .. n PROVE c[1 .. k] = CountMatch(c[1 .. k - 1], L[k])
    <3>1. Max(1 .. k) = k /\ (1 .. k) \ {k} = 1 .. k - 1 /\ 1 .. k # {} /\ 1 .. k \in SUBSET (1 .. n)
      BY MaxOfInterval, SMTT(30)
    <3> QED
      BY <2>1, <3>1
  <2> QED
    BY <2>2, <2>3
<1> HIDE DEF c, Rec
<1>10. c[1 .. n] = f[n]
  <2>1. \A k \in 1 .. n : c[1 .. k - 1] \in Counters => c[1 .. k] = g[<<k, c[1 .. k - 1]>>]
    BY <1>3, <1>9
  <2>2. Folds(c, Counters, acc, n, g)
    BY <1>9, <2>1, Zenon DEF Folds
  <2> QED
    BY <1>1, <1>4, <2>2, FoldSteps
<1>11. Steps(f, L, acc)
  <2>1. f \in [0 .. n -> Counters] /\ f[0] = acc /\ \A k \in 1 .. n : f[k] = g[<<k, f[k - 1]>>]
    BY <1>4 DEF Recurs
  <2>2. ASSUME NEW k \in 1 .. n PROVE f[k] = CountMatch(f[k - 1], L[k])
    <3>1. k - 1 \in 0 .. n
      OBVIOUS
    <3> QED
      BY <1>3, <2>1, <3>1
  <2> QED
    BY <1>1, <2>1, <2>2 DEF Steps
<1> QED
  BY <1>1, <1>8, <1>10, <1>11

\* In node t, the dictionaries tell the matches S; ms are the matches of the
\* patterns.
LineIn(ms, p) == ms[p[1]][p[2]]
CountedAt(c, b, ms, S, t) ==
  /\ IsFiniteSet(S)
  /\ \A p \in S : LineIn(ms, p) \in Nat
  /\ S = {} => t \notin DOMAIN c /\ t \notin DOMAIN b
  /\ S # {} => /\ t \in DOMAIN c /\ t \in DOMAIN b /\ c[t] = Cardinality(S)
               /\ \E p \in S : b[t] = LineIn(ms, p)
               /\ \A p \in S : b[t] <= LineIn(ms, p)

\* One match more, in node t.
LEMMA CountHere ==
  ASSUME NEW acc \in Counters, NEW acc2, NEW t, NEW bln \in Nat, Counts(acc, acc2, t, bln),
         NEW ms, NEW S, NEW q, q \notin S, bln = LineIn(ms, q),
         CountedAt(acc.counts, acc.blnums, ms, S, t)
  PROVE  CountedAt(acc2.counts, acc2.blnums, ms, S \cup {q}, t)
<1>1. PICK c, b, c2, b2 : c = acc.counts /\ b = acc.blnums /\ c2 = acc2.counts /\ b2 = acc2.blnums
  OBVIOUS
<1>2. PICK count : count = IF t \in DOMAIN c THEN c[t] + 1 ELSE 1
  OBVIOUS
<1>3. c2 = Put(c, t, count)
  BY <1>1, <1>2 DEF Counts
<1>4. DOMAIN c2 = DOMAIN c \cup {t} /\ c2[t] = count
  <2>1. IsEntered(Put(c, t, count), c, t, count)
    BY PutIs, Zenon
  <2> QED
    BY <1>3, <2>1 DEF IsEntered
<1>5. PICK first \in Nat :
        /\ b2 = Put(b, t, first)
        /\ first = IF t \notin DOMAIN b \/ b[t] > bln \/ count = 1 THEN bln ELSE b[t]
  BY <1>1, <1>4 DEF Counts
<1>6. DOMAIN b2 = DOMAIN b \cup {t} /\ b2[t] = first
  <2>1. IsEntered(Put(b, t, first), b, t, first)
    BY PutIs, Zenon
  <2> QED
    BY <1>5, <2>1 DEF IsEntered
<1> DEFINE S2 == S \cup {q}
<1>7. IsFiniteSet(S2) /\ Cardinality(S2) = Cardinality(S) + 1 /\ IsFiniteSet(S) /\ Cardinality(S) \in Nat
  <2>1. IsFiniteSet(S)
    BY DEF CountedAt
  <2>2. Cardinality(S) \in Nat
    BY <2>1, FS_CardinalityType
  <2> QED
    BY <2>1, <2>2, FS_AddElement
<1>8. \A p \in S2 : LineIn(ms, p) \in Nat
  BY DEF CountedAt
<1>9. CASE S = {}
  <2>1. t \notin DOMAIN c /\ t \notin DOMAIN b
    BY <1>1, <1>9 DEF CountedAt
  <2>2. count = 1 /\ first = bln
    BY <1>2, <1>5, <2>1
  <2>3. Cardinality(S) = 0
    BY <1>9, FS_EmptySet
  <2>4. c2[t] = Cardinality(S2) /\ b2[t] = bln
    BY <1>4, <1>6, <1>7, <2>2, <2>3
  <2>5. S2 = {q}
    BY <1>9
  <2>6. (\E p \in S2 : b2[t] = LineIn(ms, p)) /\ \A p \in S2 : b2[t] <= LineIn(ms, p)
    BY <2>4, <2>5
  <2> HIDE DEF S2
  <2>7. S2 # {}
    BY <2>5
  <2> HIDE <2>5
  <2> QED
    BY <1>1, <1>4, <1>6, <1>7, <1>8, <2>4, <2>6, <2>7 DEF CountedAt, S2
<1>10. CASE S # {}
  <2>1. /\ t \in DOMAIN c /\ t \in DOMAIN b /\ c[t] = Cardinality(S)
        /\ \E p \in S : b[t] = LineIn(ms, p)
        /\ \A p \in S : b[t] <= LineIn(ms, p)
    BY <1>1, <1>10 DEF CountedAt
  <2>2. Cardinality(S) # 0
    BY <1>7, <1>10, FS_EmptySet
  <2>3. count = Cardinality(S) + 1 /\ count # 1
    BY <1>2, <1>7, <2>1, <2>2
  <2>4. PICK v \in Nat : v = b[t]
    BY <2>1 DEF CountedAt
  <2>5. first = IF v > bln THEN bln ELSE v
    BY <1>5, <2>1, <2>3, <2>4
  <2>6. \A p \in S2 : first <= LineIn(ms, p)
    BY <1>8, <2>1, <2>4, <2>5
  <2>7. \E p \in S2 : first = LineIn(ms, p)
    BY <2>1, <2>4, <2>5
  <2>8. c2[t] = Cardinality(S2) /\ b2[t] = first /\ S2 # {}
    BY <1>4, <1>6, <1>7, <2>3
  <2> HIDE DEF S2
  <2>9. (\E p \in S2 : b2[t] = LineIn(ms, p)) /\ \A p \in S2 : b2[t] <= LineIn(ms, p)
    BY <2>6, <2>7, <2>8
  <2> QED
    BY <1>1, <1>4, <1>6, <1>7, <1>8, <2>8, <2>9 DEF CountedAt, S2
<1> QED
  BY <1>9, <1>10

\* The other nodes keep theirs.
LEMMA CountElsewhere ==
  ASSUME NEW acc \in Counters, NEW acc2, NEW u, NEW bln, Counts(acc, acc2, u, bln),
         NEW ms, NEW S, NEW t, t # u,
         CountedAt(acc.counts, acc.blnums, ms, S, t)
  PROVE  CountedAt(acc2.counts, acc2.blnums, ms, S, t)
<1>1. PICK c, b, c2, b2 : c = acc.counts /\ b = acc.blnums /\ c2 = acc2.counts /\ b2 = acc2.blnums
  OBVIOUS
<1>2. PICK count : c2 = Put(c, u, count)
  BY <1>1 DEF Counts
<1>3. PICK first : b2 = Put(b, u, first)
  BY <1>1 DEF Counts
<1>4. IsEntered(c2, c, u, count) /\ IsEntered(b2, b, u, first)
  <2>1. IsEntered(Put(c, u, count), c, u, count) /\ IsEntered(Put(b, u, first), b, u, first)
    BY PutIs, Zenon
  <2> QED
    BY <1>2, <1>3, <2>1
<1>5. /\ t \in DOMAIN c2 <=> t \in DOMAIN c
      /\ t \in DOMAIN b2 <=> t \in DOMAIN b
      /\ t \in DOMAIN c => c2[t] = c[t]
      /\ t \in DOMAIN b => b2[t] = b[t]
  BY <1>4 DEF IsEntered
<1> QED
  BY <1>1, <1>5 DEF CountedAt

\* The places of matches in node t, of the patterns before L, the last one of
\* ms, and of the first k matches of L.
MatchesBefore(ms, t) == {m \in UNION {{i} \X (1 .. Len(ms[i])) : i \in 1 .. Len(ms) - 1} :
                    NodeAt(bnodes, LineIn(ms, m)) = t}
UpTo(ms, L, t, k) == MatchesBefore(ms, t)
                       \cup {<<Len(ms), j>> : j \in {j \in 1 .. k : NodeAt(bnodes, L[j]) = t}}

\* Counting the matches of a pattern.
LEMMA CountingTells ==
  ASSUME OutlineOK, NEW ms, Len(ms) \in Nat, NEW L \in Seq(Positive), ms[Len(ms)] = L,
         NEW f, NEW acc \in Counters, Steps(f, L, acc),
         NEW t, CountedAt(acc.counts, acc.blnums, ms, MatchesBefore(ms, t), t)
  PROVE  LET last == f[Len(L)]
         IN  CountedAt(last.counts, last.blnums, ms, UpTo(ms, L, t, Len(L)), t)
<1>1. PICK n \in Nat : n = Len(L)
  OBVIOUS
<1>2. PICK N \in Nat : N = Len(ms)
  OBVIOUS
<1> DEFINE Counted(k) == CountedAt(f[k].counts, f[k].blnums, ms, UpTo(ms, L, t, k), t)
           Bad == {k \in 0 .. n : ~Counted(k)}
<1>3. Bad = {}
  <2> SUFFICES ASSUME Bad # {} PROVE FALSE
    OBVIOUS
  <2>1. PICK k \in Bad : \A j \in Bad : k <= j
    <3>1. Bad \in SUBSET Nat
      OBVIOUS
    <3> HIDE DEF Bad
    <3> QED
      BY <3>1, LeastElement
  <2>2. k \in 0 .. n /\ ~Counted(k)
    OBVIOUS
  <2>3. CASE k = 0
    <3>1. UpTo(ms, L, t, 0) = MatchesBefore(ms, t)
      BY DEF UpTo
    <3>2. f[0] = acc
      BY DEF Steps
    <3> QED
      BY <2>2, <2>3, <3>1, <3>2
  <2>4. CASE k # 0
    <3>1. k \in 1 .. n /\ k - 1 \in 0 .. n /\ ~(k <= k - 1)
      BY <2>2, <2>4
    <3>2. Counted(k - 1)
      <4>1. k - 1 \notin Bad
        <5> HIDE DEF Bad
        <5> QED
          BY <2>1, <3>1
      <4> HIDE DEF Counted
      <4> QED
        BY <3>1, <4>1
    <3>3. PICK x, y, u : x \in Counters /\ x = f[k - 1] /\ y = f[k] /\ u = NodeAt(bnodes, L[k])
      BY <1>1, <3>1 DEF Steps
    <3>4. L[k] \in Positive /\ L[k] \in Nat
      BY <1>1, <3>1 DEF Positive
    <3>5. Counts(x, y, u, L[k])
      <4>1. y = CountMatch(x, L[k])
        BY <1>1, <3>1, <3>3 DEF Steps
      <4> QED
        BY <3>3, <3>4, <4>1, CountMatchIs
    <3>6. PICK S : S = UpTo(ms, L, t, k - 1)
      OBVIOUS
    <3>7. CountedAt(x.counts, x.blnums, ms, S, t)
      BY <3>2, <3>3, <3>6
    <3>8. CASE u = t
      <4>1. PICK q : q = <<N, k>>
        OBVIOUS
      <4>2. UpTo(ms, L, t, k) = S \cup {q}
        <5>1. {j \in 1 .. k : NodeAt(bnodes, L[j]) = t} = {j \in 1 .. k - 1 : NodeAt(bnodes, L[j]) = t} \cup {k}
          <6>1. \A j : j \in 1 .. k <=> j \in 1 .. k - 1 \/ j = k
            BY <3>1
          <6>2. NodeAt(bnodes, L[k]) = t
            BY <3>3, <3>8
          <6> QED
            BY <6>1, <6>2, Zenon
        <5> QED
          BY <1>2, <3>6, <4>1, <5>1 DEF UpTo
      <4>3. q \notin S
        <5>1. q \notin MatchesBefore(ms, t)
          BY <1>2, <4>1 DEF MatchesBefore
        <5>2. \A j \in 1 .. k - 1 : <<N, j>> # q
          BY <3>1, <4>1
        <5> QED
          BY <1>2, <3>6, <5>1, <5>2 DEF UpTo
      <4>4. L[k] = LineIn(ms, q)
        BY <1>2, <4>1 DEF LineIn
      <4>5. CountedAt(y.counts, y.blnums, ms, S \cup {q}, t)
        BY <3>3, <3>4, <3>5, <3>7, <3>8, <4>3, <4>4, CountHere
      <4> QED
        BY <2>2, <3>3, <4>2, <4>5
    <3>9. CASE u # t
      <4>1. UpTo(ms, L, t, k) = S
        <5>1. {j \in 1 .. k : NodeAt(bnodes, L[j]) = t} = {j \in 1 .. k - 1 : NodeAt(bnodes, L[j]) = t}
          BY <3>1, <3>3, <3>9
        <5> QED
          BY <3>6, <5>1 DEF UpTo
      <4>2. CountedAt(y.counts, y.blnums, ms, S, t)
        BY <3>3, <3>5, <3>7, <3>9, CountElsewhere
      <4> QED
        BY <2>2, <3>3, <4>1, <4>2
    <3> QED
      BY <3>8, <3>9
  <2> QED
    BY <2>3, <2>4
<1>4. n \in 0 .. n
  OBVIOUS
<1> QED
  BY <1>1, <1>3, <1>4

WithoutStar == \A i \in 1 .. Len(inhAND) : ~inhAND[i]

\* The dictionaries tell the matches of the AND patterns.
CountsOK ==
  WithoutStar => /\ counts \in Dict /\ blnums \in Dict
                 /\ \A t : CountedAt(counts, blnums, matchesAND, MatchesIn(t), t)

LEMMA CountsInit == Init => CountsOK
<1> SUFFICES ASSUME Init PROVE CountsOK
  OBVIOUS
<1>1. counts = <<>> /\ blnums = <<>> /\ matchesAND = <<>>
  BY DEF Init
<1>2. <<>> \in Dict
  <2>1. DOMAIN <<>> = {} /\ <<>> \in [{} -> Nat]
    OBVIOUS
  <2> QED
    BY <2>1, DictIs
<1>3. ASSUME NEW t PROVE CountedAt(counts, blnums, matchesAND, MatchesIn(t), t)
  <2>1. 1 .. Len(matchesAND) = {}
    BY <1>1
  <2>2. MatchesIn(t) = {}
    BY <2>1 DEF MatchesIn, AllMatches
  <2>3. t \notin DOMAIN counts /\ t \notin DOMAIN blnums
    BY <1>1
  <2> QED
    BY <2>2, <2>3, FS_EmptySet DEF CountedAt
<1> QED
  BY <1>1, <1>2, <1>3 DEF CountsOK

\* Putting nothing changes nothing.
LEMMA PutNothing ==
  ASSUME NEW f, NEW D, f \in [D -> Nat]
  PROVE  \A g : DOMAIN g = {} => Updated(f, g) = f
BY DEF Updated

IsAppended(r, q, x) ==
  /\ Len(r) = Len(q) + 1 /\ r[Len(q) + 1] = x
  /\ \A i \in 1 .. Len(q) : r[i] = q[i]

LEMMA AppendIs ==
  ASSUME NEW S, NEW q \in Seq(S), NEW x \in S
  PROVE  IsAppended(Append(q, x), q, x)
BY DEF IsAppended

LEMMA CountsAND ==
  ASSUME GrepInv, CountsOK, NEW L \in Matches, NEW inh \in BOOLEAN, GrepAND(L, inh)
  PROVE  CountsOK'
<1> SUFFICES ASSUME WithoutStar'
             PROVE  /\ counts' \in Dict' /\ blnums' \in Dict'
                    /\ \A t : CountedAt(counts', blnums', matchesAND', MatchesIn(t)', t)
  BY DEF CountsOK, CountedAt
<1>1. PICK n \in Nat : n = Len(matchesAND) /\ n = Len(inhAND)
  BY DEF GrepInv, SetsOK
<1>2. PICK ms : ms = matchesAND'
  OBVIOUS
<1>3. /\ matchesAND' = Append(matchesAND, L) /\ inhAND' = Append(inhAND, inh)
      /\ matchesAND \in Seq(Matches) /\ inhAND \in Seq(BOOLEAN)
  BY DEF GrepAND, GrepInv, SetsOK
<1>4. /\ Len(ms) = n + 1 /\ ms[n + 1] = L /\ \A i \in 1 .. n : ms[i] = matchesAND[i]
      /\ Len(inhAND') = n + 1 /\ inhAND'[n + 1] = inh /\ \A i \in 1 .. n : inhAND'[i] = inhAND[i]
  <2>1. IsAppended(matchesAND', matchesAND, L)
    BY <1>3, AppendIs, Zenon
  <2>2. IsAppended(inhAND', inhAND, inh)
    BY <1>3, AppendIs, Zenon
  <2> QED
    BY <1>1, <1>2, <2>1, <2>2 DEF IsAppended
<1>5. WithoutStar /\ ~inh
  <2>1. \A i \in 1 .. n + 1 : ~inhAND'[i]
    BY <1>4 DEF WithoutStar
  <2>2. n + 1 \in 1 .. n + 1 /\ \A i \in 1 .. n : i \in 1 .. n + 1
    OBVIOUS
  <2> QED
    BY <1>1, <1>4, <2>1, <2>2 DEF WithoutStar
<1>6. UNCHANGED outline /\ bnodes' = bnodes /\ levels' = levels /\ Dict' = Dict
  BY DEF GrepAND, outline, Dict, TreeLines
<1> DEFINE acc == [counts |-> counts, blnums |-> blnums]
<1>7. /\ acc \in Counters /\ acc.counts = counts /\ acc.blnums = blnums
      /\ counts \in Dict /\ blnums \in Dict
      /\ \A t : CountedAt(counts, blnums, matchesAND, MatchesIn(t), t)
  BY <1>5 DEF CountsOK, Counters
<1> HIDE DEF acc
<1>8. L \in Seq(Positive) /\ OutlineOK
  BY MatchesAssumption DEF GrepInv
<1>9. PICK f : Steps(f, L, acc) /\ FoldLeft(CountMatch, acc, L) = f[Len(L)]
  BY <1>7, <1>8, CountFold
<1>10. PICK last \in Counters : last = f[Len(L)]
  <2>1. Len(L) \in 0 .. Len(L)
    BY <1>8
  <2> QED
    BY <1>9, <2>1 DEF Steps
<1>11. counts' = last.counts /\ blnums' = last.blnums
  <2>1. FoldLeft(CountMatch, [counts |-> counts, blnums |-> blnums], L) = last
    BY <1>9, <1>10 DEF acc
  <2>2. last.counts \in Dict /\ last.blnums \in Dict
    BY DEF Counters
  <2>3. /\ counts' = Updated(last.counts, [s \in {} |-> 0])
        /\ blnums' = Updated(last.blnums, [s \in {} |-> bnodes[s]])
    BY <1>5, <2>1, Zenon DEF GrepAND
  <2>4. PICK c, b : c = last.counts /\ b = last.blnums
    OBVIOUS
  <2>5. c \in [DOMAIN c -> Nat] /\ b \in [DOMAIN b -> Nat]
    BY <2>2, <2>4, DictIs
  <2>6. DOMAIN [s \in {} |-> 0] = {} /\ DOMAIN [s \in {} |-> bnodes[s]] = {}
    OBVIOUS
  <2>7. Updated(c, [s \in {} |-> 0]) = c /\ Updated(b, [s \in {} |-> bnodes[s]]) = b
    BY <2>5, <2>6, PutNothing, Zenon
  <2> QED
    BY <2>3, <2>4, <2>7
<1>12. ASSUME NEW t PROVE CountedAt(counts', blnums', matchesAND', MatchesIn(t)', t)
  <2>1. MatchesBefore(ms, t) = MatchesIn(t) /\ \A m \in MatchesIn(t) : LineIn(ms, m) = LineIn(matchesAND, m)
    <3>1. 1 .. Len(ms) - 1 = 1 .. n /\ \A i \in 1 .. n : Len(ms[i]) = Len(matchesAND[i])
      BY <1>4
    <3>2. UNION {{i} \X (1 .. Len(ms[i])) : i \in 1 .. Len(ms) - 1} = AllMatches
      BY <1>1, <3>1 DEF AllMatches
    <3>3. \A m \in AllMatches : m[1] \in 1 .. n
      BY <1>1 DEF AllMatches
    <3>4. \A m \in AllMatches : LineIn(ms, m) = LineIn(matchesAND, m) /\ LineIn(matchesAND, m) = LineOf(m)
      BY <1>4, <3>3 DEF LineIn, LineOf
    <3> QED
      BY <3>2, <3>4 DEF MatchesBefore, MatchesIn
  <2>2. CountedAt(acc.counts, acc.blnums, ms, MatchesBefore(ms, t), t)
    BY <1>7, <2>1 DEF CountedAt
  <2>3. CountedAt(last.counts, last.blnums, ms, UpTo(ms, L, t, Len(L)), t)
    <3>1. Len(ms) \in Nat /\ ms[Len(ms)] = L
      BY <1>4
    <3> QED
      BY <1>7, <1>8, <1>9, <1>10, <2>2, <3>1, CountingTells
  <2>4. MatchesIn(t)' = UpTo(ms, L, t, Len(L))
    <3>1. AllMatches' = UNION {{i} \X (1 .. Len(ms[i])) : i \in 1 .. n + 1}
      BY <1>2, <1>4 DEF AllMatches
    <3>2. ASSUME NEW m
          PROVE  m \in MatchesIn(t)' <=> m \in UpTo(ms, L, t, Len(L))
      <4>1. m \in MatchesIn(t)' <=>
              \E i \in 1 .. n + 1 : \E j \in 1 .. Len(ms[i]) : m = <<i, j>> /\ NodeAt(bnodes, ms[i][j]) = t
        BY <1>2, <1>6, <3>1 DEF MatchesIn, LineOf
      <4>2. m \in MatchesBefore(ms, t) <=>
              \E i \in 1 .. n : \E j \in 1 .. Len(ms[i]) : m = <<i, j>> /\ NodeAt(bnodes, ms[i][j]) = t
        <5>1. Len(ms) - 1 = n
          BY <1>4
        <5> QED
          BY <5>1 DEF MatchesBefore, LineIn
      <4>3. m \in UpTo(ms, L, t, Len(L)) <=>
              \/ m \in MatchesBefore(ms, t)
              \/ \E j \in 1 .. Len(L) : m = <<n + 1, j>> /\ NodeAt(bnodes, L[j]) = t
        BY <1>4 DEF UpTo
      <4>4. \A i : i \in 1 .. n + 1 <=> i \in 1 .. n \/ i = n + 1
        OBVIOUS
      <4> QED
        BY <1>4, <4>1, <4>2, <4>3, <4>4
    <3> QED
      BY <3>2
  <2> QED
    BY <1>2, <1>11, <2>3, <2>4
<1>13. counts' \in Dict' /\ blnums' \in Dict'
  BY <1>6, <1>11 DEF Counters
<1> QED
  BY <1>12, <1>13

LEMMA CountsStep == GrepInv /\ CountsOK /\ [Next]_vars => CountsOK'
<1> SUFFICES ASSUME GrepInv, CountsOK, [Next]_vars PROVE CountsOK'
  OBVIOUS
<1>1. ASSUME NEW L \in Matches, NEW inh \in BOOLEAN, GrepAND(L, inh) PROVE CountsOK'
  BY <1>1, CountsAND
<1>2. CASE UNCHANGED <<outline, matchesAND, inhAND, found>>
  <2>1. /\ bnodes' = bnodes /\ levels' = levels /\ matchesAND' = matchesAND /\ inhAND' = inhAND
        /\ counts' = counts /\ blnums' = blnums
    BY <1>2 DEF outline, found
  <2>2. Dict' = Dict /\ \A t : MatchesIn(t)' = MatchesIn(t)
    BY <2>1 DEF Dict, TreeLines, MatchesIn, AllMatches, LineOf
  <2> QED
    BY <2>1, <2>2 DEF CountsOK, WithoutStar, CountedAt
<1> QED
  BY <1>1, <1>2 DEF Next, GrepNOT, vars

\* The least number of a set.
LEMMA MinIs ==
  ASSUME NEW S \in SUBSET Nat, NEW x \in S, \A y \in S : x <= y
  PROVE  Min(S) = x
<1>1. Min(S) \in S /\ \A y \in S : Min(S) <= y
  BY LeastElement
<1>2. PICK m : m = Min(S)
  OBVIOUS
<1>3. m \in Nat /\ x \in Nat /\ m <= x /\ x <= m
  BY <1>1, <1>2
<1> QED
  BY <1>2, <1>3

\* If no pattern is inherited, the number of a result is that of all its AND
\* matches, and its line is the first of them: for patterns that match the same
\* lines, or the same line more than once, too.
THEOREM CountsAreRight == Spec => []CountsWithoutStar
<1>1. Init => GrepInv /\ CountsOK
  BY GrepInit, CountsInit
<1>2. GrepInv /\ CountsOK /\ [Next]_vars => GrepInv' /\ CountsOK'
  BY GrepStep, CountsStep
<1>3. CountsOK => CountsWithoutStar
  <2> SUFFICES ASSUME CountsOK, WithoutStar, NEW t \in Results, MatchesIn(t) # {}
               PROVE  /\ Result(t).count = Cardinality(MatchesIn(t))
                      /\ Result(t).lnum = Min({LineOf(m) : m \in MatchesIn(t)})
    BY DEF CountsWithoutStar, CountsAllMatches, WithoutStar
  <2>1. matchesAND # <<>>
    <3>1. CASE matchesAND = <<>>
      <4>1. 1 .. Len(matchesAND) = {}
        BY <3>1
      <4> QED
        BY <4>1 DEF MatchesIn, AllMatches
    <3> QED
      BY <3>1
  <2>2. Result(t).count = counts[t] /\ Result(t).lnum = blnums[t]
    BY <2>1 DEF Result
  <2>3. /\ counts[t] = Cardinality(MatchesIn(t))
        /\ \A m \in MatchesIn(t) : LineOf(m) \in Nat /\ blnums[t] <= LineOf(m)
        /\ \E m \in MatchesIn(t) : blnums[t] = LineOf(m)
    BY DEF CountsOK, CountedAt, LineIn, LineOf
  <2> DEFINE lines == {LineOf(m) : m \in MatchesIn(t)}
  <2>4. lines \in SUBSET Nat /\ blnums[t] \in lines /\ \A y \in lines : blnums[t] <= y
    BY <2>3
  <2>5. Min(lines) = blnums[t]
    <3> HIDE DEF lines
    <3> QED
      BY <2>4, MinIs
  <2> QED
    BY <2>2, <2>3, <2>5
<1> QED
  BY <1>1, <1>2, <1>3, PTL DEF Spec
=============================================================================
