------------------------------ MODULE VoomProofs ------------------------------
(***************************************************************************)
(* The outline operations, pasting and parsing for Bodies of any length:   *)
(* in the modes in which a line alone tells whether it is a headline, and  *)
(* that have no hook but for pasting, the patched caches and Tree are what *)
(* a new parse of the Body gives.  The last part is about the nodes of a   *)
(* Body and their texts, of which ForestProofs makes a forest.             *)
(***************************************************************************)
EXTENDS MCForest, OutlineProofs, SequenceTheorems

-----------------------------------------------------------------------------
(* The lines of the Tree.                                                  *)

\* No line of Tree U has the mark.
IsBare(U) == U \in Seq(TreeLineType) /\ \A i \in 1 .. Len(U) : ~U[i].sel

\* Just line sn of Tree T has the mark.
IsMarked(T, sn) ==
  /\ T \in Seq(TreeLineType) /\ sn \in 1 .. Len(T)
  /\ \A i \in 1 .. Len(T) : T[i].sel <=> i = sn

\* The lines of Trees T and U are the same but for the mark.
SameLines(T, U) ==
  /\ Len(T) = Len(U)
  /\ \A i \in 1 .. Len(T) : T[i].lev = U[i].lev /\ T[i].head = U[i].head /\ T[i].x = U[i].x

\* The first line of Tree T is the name of the buffer.
IsRooted(T) == T[1].lev = 1 /\ T[1].head = BufferName /\ T[1].x = FALSE

\* Line l of a Tree, but for the mark, or the level.
WithMark(l, s) == [l EXCEPT !.sel = s]
WithLev(l, v) == [l EXCEPT !.lev = v]

LEMMA WithMarkIs ==
  ASSUME NEW l \in TreeLineType, NEW s \in BOOLEAN
  PROVE  /\ WithMark(l, s) \in TreeLineType /\ WithMark(l, s).sel = s
         /\ WithMark(l, s).lev = l.lev /\ WithMark(l, s).head = l.head /\ WithMark(l, s).x = l.x
BY DEF TreeLineType, WithMark

LEMMA WithLevIs ==
  ASSUME NEW l \in TreeLineType, NEW v \in Int
  PROVE  /\ WithLev(l, v) \in TreeLineType /\ WithLev(l, v).lev = v
         /\ WithLev(l, v).sel = l.sel /\ WithLev(l, v).head = l.head /\ WithLev(l, v).x = l.x
BY DEF TreeLineType, WithLev

LEMMA UnmarkedIs ==
  ASSUME NEW T, NEW sn, IsMarked(T, sn)
  PROVE  IsBare(Unmarked(T, sn)) /\ SameLines(Unmarked(T, sn), T)
<1> DEFINE U == Unmarked(T, sn)
<1>1. T \in Seq(TreeLineType) /\ sn \in 1 .. Len(T) /\ Len(T) \in Nat
  BY DEF IsMarked
<1>2. U = [T EXCEPT ![sn] = WithMark(T[sn], FALSE)]
  BY DEF Unmarked, WithMark
<1> HIDE DEF U
<1>3. /\ T[sn] \in TreeLineType /\ WithMark(T[sn], FALSE) \in TreeLineType
      /\ WithMark(T[sn], FALSE).sel = FALSE /\ WithMark(T[sn], FALSE).lev = T[sn].lev
      /\ WithMark(T[sn], FALSE).head = T[sn].head /\ WithMark(T[sn], FALSE).x = T[sn].x
  <2>1. T[sn] \in TreeLineType
    BY <1>1
  <2> QED
    BY <2>1, WithMarkIs
<1>4. U \in Seq(TreeLineType) /\ Len(U) = Len(T)
      /\ \A i \in 1 .. Len(T) : U[i] = IF i = sn THEN WithMark(T[sn], FALSE) ELSE T[i]
  <2>1. PICK l \in TreeLineType : l = WithMark(T[sn], FALSE)
    BY <1>3
  <2>2. U = [T EXCEPT ![sn] = l]
    BY <1>2, <2>1
  <2>3. /\ [T EXCEPT ![sn] = l] \in Seq(TreeLineType)
        /\ Len([T EXCEPT ![sn] = l]) = Len(T)
        /\ \A i \in 1 .. Len(T) : [T EXCEPT ![sn] = l][i] = IF i = sn THEN l ELSE T[i]
    BY <1>1, ExceptSeq
  <2> QED
    BY <2>1, <2>2, <2>3
<1>5. ASSUME NEW i \in 1 .. Len(T)
      PROVE  ~U[i].sel /\ U[i].lev = T[i].lev /\ U[i].head = T[i].head /\ U[i].x = T[i].x
  <2>1. CASE i = sn
    BY <1>3, <1>4, <2>1
  <2>2. CASE i # sn
    BY <1>4, <2>2 DEF IsMarked
  <2> QED
    BY <2>1, <2>2
<1> QED
  BY <1>4, <1>5 DEF IsBare, SameLines, U

LEMMA MarkedIs ==
  ASSUME NEW U, NEW sn \in 1 .. Len(U), IsBare(U)
  PROVE  IsMarked(Marked(U, sn), sn) /\ SameLines(Marked(U, sn), U)
<1> DEFINE T == Marked(U, sn)
<1>1. U \in Seq(TreeLineType) /\ Len(U) \in Nat
  BY DEF IsBare
<1>2. T = [U EXCEPT ![sn] = WithMark(U[sn], TRUE)]
  BY DEF Marked, WithMark
<1> HIDE DEF T
<1>3. /\ U[sn] \in TreeLineType /\ WithMark(U[sn], TRUE) \in TreeLineType
      /\ WithMark(U[sn], TRUE).sel = TRUE /\ WithMark(U[sn], TRUE).lev = U[sn].lev
      /\ WithMark(U[sn], TRUE).head = U[sn].head /\ WithMark(U[sn], TRUE).x = U[sn].x
  <2>1. U[sn] \in TreeLineType
    BY <1>1
  <2> QED
    BY <2>1, WithMarkIs
<1>4. T \in Seq(TreeLineType) /\ Len(T) = Len(U)
      /\ \A i \in 1 .. Len(U) : T[i] = IF i = sn THEN WithMark(U[sn], TRUE) ELSE U[i]
  <2>1. PICK l \in TreeLineType : l = WithMark(U[sn], TRUE)
    BY <1>3
  <2>2. T = [U EXCEPT ![sn] = l]
    BY <1>2, <2>1
  <2>3. /\ [U EXCEPT ![sn] = l] \in Seq(TreeLineType)
        /\ Len([U EXCEPT ![sn] = l]) = Len(U)
        /\ \A i \in 1 .. Len(U) : [U EXCEPT ![sn] = l][i] = IF i = sn THEN l ELSE U[i]
    BY <1>1, ExceptSeq
  <2> QED
    BY <2>1, <2>2, <2>3
<1>5. ASSUME NEW i \in 1 .. Len(U)
      PROVE  (T[i].sel <=> i = sn) /\ T[i].lev = U[i].lev /\ T[i].head = U[i].head /\ T[i].x = U[i].x
  <2>1. CASE i = sn
    BY <1>3, <1>4, <2>1
  <2>2. CASE i # sn
    BY <1>4, <2>2 DEF IsBare
  <2> QED
    BY <2>1, <2>2
<1> QED
  BY <1>4, <1>5 DEF IsMarked, SameLines, T

LEMMA SameLinesAreShown ==
  ASSUME NEW T, NEW U, NEW bn, NEW lv, NEW B, Shown(T, bn, lv, B), SameLines(U, T),
         U \in Seq(TreeLineType)
  PROVE  Shown(U, bn, lv, B)
BY DEF Shown, SameLines

\* t is lines a..b of U with the levels from lv[j] on.
IsTreeRegion(t, U, a, b, lv, j) ==
  /\ t \in Seq(TreeLineType) /\ Len(t) = b - a + 1
  /\ \A k \in 1 .. b - a + 1 : /\ ~t[k].sel
                               /\ t[k].lev = lv[j + k - 1]
                               /\ t[k].head = U[a + k - 1].head
                               /\ t[k].x = U[a + k - 1].x

LEMMA SetLevIs ==
  ASSUME NEW U, IsBare(U), NEW a \in 1 .. Len(U), NEW b \in a .. Len(U),
         NEW lv \in Seq(Int), NEW j \in 1 .. Len(lv), j + (b - a) <= Len(lv)
  PROVE  IsTreeRegion(setLevTreeLines(Slice(U, a, b), lv, j), U, a, b, lv, j)
<1> DEFINE s == Slice(U, a, b)
           t == setLevTreeLines(s, lv, j)
<1>1. U \in Seq(TreeLineType) /\ Len(U) \in Nat /\ Len(lv) \in Nat
  BY DEF IsBare
<1>2. s \in Seq(TreeLineType) /\ Len(s) = b - a + 1 /\ \A i \in 1 .. b - a + 1 : s[i] = U[a + i - 1]
  BY <1>1, SliceIs
<1> HIDE DEF s
<1>3. t = [i \in 1 .. b - a + 1 |-> WithLev(s[i], lv[j + i - 1])]
  BY <1>2 DEF setLevTreeLines, WithLev
<1> HIDE DEF t
<1>4. ASSUME NEW k \in 1 .. b - a + 1
      PROVE  /\ t[k] \in TreeLineType /\ ~t[k].sel /\ t[k].lev = lv[j + k - 1]
             /\ t[k].head = U[a + k - 1].head /\ t[k].x = U[a + k - 1].x
  <2>1. j + k - 1 \in 1 .. Len(lv) /\ a + k - 1 \in 1 .. Len(U)
    BY <1>1
  <2>2. lv[j + k - 1] \in Int
    <3>1. PICK i \in 1 .. Len(lv) : i = j + k - 1
      BY <2>1
    <3>2. lv[i] \in Int
      OBVIOUS
    <3> QED
      BY <3>1, <3>2
  <2>3. s[k] \in TreeLineType /\ s[k] = U[a + k - 1] /\ ~s[k].sel
    <3>1. s[k] = U[a + k - 1]
      BY <1>2
    <3>2. s[k] \in TreeLineType
      <4>1. k \in 1 .. Len(s)
        BY <1>2
      <4> QED
        BY <1>2, <4>1, ElementOfSeq
    <3>3. PICK i \in 1 .. Len(U) : i = a + k - 1
      BY <2>1
    <3>4. ~U[i].sel
      BY DEF IsBare
    <3> QED
      BY <3>1, <3>2, <3>3, <3>4
  <2>4. t[k] = WithLev(s[k], lv[j + k - 1])
    BY <1>3
  <2> QED
    <3>1. PICK l \in TreeLineType, v \in Int : l = s[k] /\ v = lv[j + k - 1]
      BY <2>2, <2>3
    <3>2. /\ WithLev(l, v) \in TreeLineType /\ WithLev(l, v).lev = v
          /\ WithLev(l, v).sel = l.sel /\ WithLev(l, v).head = l.head /\ WithLev(l, v).x = l.x
      BY WithLevIs
    <3>3. t[k] = WithLev(l, v)
      BY <2>4, <3>1
    <3> QED
      BY <2>3, <3>1, <3>2, <3>3
<1>5. b - a + 1 \in Nat
  BY <1>1
<1>6. t \in Seq(TreeLineType) /\ Len(t) = b - a + 1
  <2>1. PICK n \in Nat : n = b - a + 1
    BY <1>5
  <2>2. t \in [1 .. n -> TreeLineType]
    BY <1>3, <1>4, <2>1
  <2>3. t \in Seq(TreeLineType)
    BY <2>2, SeqDef
  <2>4. Len([i \in 1 .. n |-> WithLev(s[i], lv[j + i - 1])]) = n
    BY <2>1
  <2> QED
    BY <1>3, <2>1, <2>3, <2>4
<1> QED
  BY <1>4, <1>6 DEF IsTreeRegion, t, s

LEMMA RegionLinesIs ==
  ASSUME NEW U, IsBare(U), NEW a \in 1 .. Len(U), NEW b \in a .. Len(U), NEW d \in Int,
         NEW lv \in Seq(Int), NEW j \in 1 .. Len(lv), j + (b - a) <= Len(lv),
         d = 0 => \A k \in 1 .. b - a + 1 : U[a + k - 1].lev = lv[j + k - 1]
  PROVE  IsTreeRegion(RegionLines(d, Slice(U, a, b), lv, j), U, a, b, lv, j)
<1> DEFINE s == Slice(U, a, b)
<1>1. U \in Seq(TreeLineType) /\ Len(U) \in Nat
  BY DEF IsBare
<1>2. s \in Seq(TreeLineType) /\ Len(s) = b - a + 1 /\ \A i \in 1 .. b - a + 1 : s[i] = U[a + i - 1]
  BY <1>1, SliceIs
<1>3. CASE d = 0
  <2>1. RegionLines(d, s, lv, j) = s
    BY <1>3 DEF RegionLines
  <2> HIDE DEF s
  <2>2. ASSUME NEW k \in 1 .. b - a + 1
        PROVE  /\ ~s[k].sel /\ s[k].lev = lv[j + k - 1]
               /\ s[k].head = U[a + k - 1].head /\ s[k].x = U[a + k - 1].x
    <3>1. a + k - 1 \in 1 .. Len(U)
      BY <1>1
    <3> QED
      BY <1>2, <1>3, <3>1 DEF IsBare
  <2>3. IsTreeRegion(s, U, a, b, lv, j)
    BY <1>2, <2>2 DEF IsTreeRegion
  <2> QED
    BY <2>1, <2>3 DEF s
<1>4. CASE d # 0
  <2>1. RegionLines(d, s, lv, j) = setLevTreeLines(s, lv, j)
    BY <1>4 DEF RegionLines
  <2> QED
    BY <2>1, SetLevIs
<1> QED
  BY <1>3, <1>4

-----------------------------------------------------------------------------
(* The Tree follows.                                                       *)

\* Line i of V is line j of U with level lev, and has no mark.
IsLineOf(V, i, U, j, lev) ==
  ~V[i].sel /\ V[i].lev = lev /\ V[i].head = U[j].head /\ V[i].x = U[j].x

LEMMA LinesAreRearranged ==
  ASSUME NEW U, NEW V \in Seq(TreeLineType), NEW lv2, NEW o, Len(V) = Len(lv2),
         ~V[1].sel /\ V[1] = U[1],
         \A i \in 2 .. Len(V) : IsLineOf(V, i, U, o[i], lv2[i])
  PROVE  IsBare(V) /\ IsTreeRearranged(U, V, lv2, o)
<1>1. \A i \in 1 .. Len(V) : ~V[i].sel
  <2>1. \A i \in 1 .. Len(V) : i = 1 \/ i \in 2 .. Len(V)
    OBVIOUS
  <2> QED
    BY <2>1 DEF IsLineOf
<1> QED
  BY <1>1 DEF IsBare, IsTreeRearranged, IsLineOf

\* Lines that stay where they are.
LEMMA LineStays ==
  ASSUME NEW U, NEW bn, NEW lv, NEW B, IsBare(U), Shown(U, bn, lv, B), NEW V, NEW i, NEW j,
         NEW lev, j \in 2 .. Len(U), V[i] = U[j], lev = lv[j]
  PROVE  IsLineOf(V, i, U, j, lev)
<1>1. j \in 1 .. Len(U)
  BY DEF IsBare
<1> QED
  BY <1>1 DEF IsLineOf, IsBare, Shown

\* Lines of a region with new levels.
LEMMA LineMoves ==
  ASSUME NEW U, NEW a \in Int, NEW b \in Int, NEW lv2, NEW p \in Int, NEW t,
         IsTreeRegion(t, U, a, b, lv2, p), NEW V, NEW i \in Int, NEW j \in Int,
         NEW k \in 1 .. b - a + 1, V[i] = t[k], j = a + k - 1, i = p + k - 1
  PROVE  IsLineOf(V, i, U, j, lv2[i])
BY DEF IsLineOf, IsTreeRegion

CanTreeUp(U, p, q, r) == p > 1 /\ p < q /\ q <= r /\ r <= Len(U)

LEMMA TreeUpIs ==
  ASSUME NEW m, NEW bn, NEW lv, NEW B, Told(m, bn, lv, B),
         NEW U, IsBare(U), Shown(U, bn, lv, B),
         NEW p \in Int, NEW q \in Int, NEW r \in Int, NEW d \in Int, CanTreeUp(U, p, q, r),
         NEW bl, NEW size1, NEW size2, NEW bn2, NEW lv2, NEW B2,
         IsSwapped(m, bn, lv, B, p, q - p, r + 1 - q, bl, size1, size2, 0, d, bn2, lv2, B2),
         NEW V, V = UpIn(U, p, q, r, RegionLines(d, Slice(U, q, r), lv2, p))
  PROVE  IsBare(V) /\ IsTreeRearranged(U, V, lv2, SwapOrigin(p, q - p, r + 1 - q))
<1> DEFINE t == RegionLines(d, Slice(U, q, r), lv2, p)
           o == SwapOrigin(p, q - p, r + 1 - q)
<1>1. PICK N \in Nat : N = Len(U)
  BY DEF IsBare
<1>2. p > 1 /\ p < q /\ q <= r /\ r <= N
  BY <1>1 DEF CanTreeUp
<1>3. /\ U \in Seq(TreeLineType) /\ lv2 \in Seq(Int) /\ Len(lv2) = N /\ Len(bn) = N
      /\ lv \in Seq(Int) /\ Len(lv) = N
  BY <1>1 DEF IsBare, IsSwapped, Shown, Told
<1>4. /\ \A i \in (1 .. p - 1) \cup (p + (q - p) + (r + 1 - q) .. N) : lv2[i] = lv[i]
      /\ \A i \in p .. p + (r + 1 - q) - 1 : lv2[i] = lv[i + (q - p)] + d
      /\ \A i \in p + (r + 1 - q) .. p + (r + 1 - q) + (q - p) - 1 : lv2[i] = lv[i - (r + 1 - q)] + 0
  BY <1>3 DEF IsSwapped
<1>5. IsTreeRegion(t, U, q, r, lv2, p)
  <2>1. /\ q \in 1 .. Len(U) /\ r \in q .. Len(U) /\ p \in 1 .. Len(lv2)
        /\ p + (r - q) <= Len(lv2)
    <3>1. q \in 1 .. N /\ r \in q .. N /\ p \in 1 .. N /\ p + (r - q) <= N
      BY <1>2
    <3> QED
      BY <1>1, <1>3, <3>1, Zenon
  <2>2. ASSUME d = 0, NEW k \in Int, k \in 1 .. r - q + 1
        PROVE  U[q + k - 1].lev = lv2[p + k - 1]
    <3>1. PICK i \in Int, j \in Int : i = p + k - 1 /\ j = q + k - 1
      BY <1>2
    <3>2. i \in p .. p + (r + 1 - q) - 1 /\ i + (q - p) = j /\ j \in 2 .. N
      BY <1>2, <2>2, <3>1
    <3>3. PICK y \in Int : y = lv[j]
      <4>1. lv[j] \in Int
        BY <1>3, <3>2
      <4> QED
        BY <4>1
    <3>4. lv2[i] = y + d
      BY <1>4, <3>2, <3>3
    <3>5. U[j].lev = y
      BY <1>1, <3>2, <3>3 DEF Shown
    <3> QED
      BY <2>2, <3>1, <3>4, <3>5
  <2>3. d = 0 => \A k \in 1 .. r - q + 1 : U[q + k - 1].lev = lv2[p + k - 1]
    BY <2>2
  <2> QED
    BY <1>3, <2>1, <2>3, RegionLinesIs, Zenon
<1> HIDE DEF t
<1>6. t \in Seq(TreeLineType) /\ Len(t) = r - q + 1
  BY <1>5 DEF IsTreeRegion
<1>7. IsMovedUp(TreeLineType, V, U, p, q, r, t)
  <2>1. p \in 1 .. Len(U) /\ q \in p + 1 .. Len(U) /\ r \in q .. Len(U)
    BY <1>1, <1>2
  <2> QED
    BY <1>3, <1>6, <2>1, MovedUpIs DEF UpIn, t
<1>8. /\ V \in Seq(TreeLineType) /\ Len(V) = N
      /\ \A i \in (1 .. p - 1) \cup (r + 1 .. N) : V[i] = U[i]
      /\ \A i \in p .. p + (r - q) : V[i] = t[i - p + 1]
      /\ \A i \in p + (r - q) + 1 .. r : V[i] = U[i - (r - q + 1)]
  BY <1>1, <1>7 DEF IsMovedUp
<1>9. \A i \in Int : o[i] = IF i \in p .. p + (r + 1 - q) - 1 THEN i + (q - p)
                            ELSE IF i \in p + (r + 1 - q) .. p + (r + 1 - q) + (q - p) - 1
                                 THEN i - (r + 1 - q) ELSE i
  BY DEF SwapOrigin
<1> HIDE DEF o
<1>10. ASSUME NEW i \in Int, i \in 2 .. N
       PROVE  IsLineOf(V, i, U, o[i], lv2[i])
  <2>1. CASE i \in (1 .. p - 1) \cup (r + 1 .. N)
    <3>1. o[i] = i
      BY <1>2, <1>9, <2>1
    <3>2. p + (q - p) + (r + 1 - q) = r + 1
      BY <1>2
    <3>3. V[i] = U[i] /\ lv2[i] = lv[i]
      BY <1>4, <1>8, <2>1, <3>2
    <3> QED
      BY <1>1, <1>10, <3>1, <3>3, LineStays
  <2>2. CASE i \in p .. p + (r - q)
    <3>1. PICK k \in Int : k = i - p + 1
      BY <1>2
    <3>2. k \in 1 .. r - q + 1 /\ i = p + k - 1 /\ i + (q - p) = q + k - 1
          /\ i \in p .. p + (r + 1 - q) - 1
      BY <1>2, <2>2, <3>1
    <3>3. V[i] = t[k] /\ o[i] = i + (q - p)
      BY <1>8, <1>9, <2>2, <3>1, <3>2
    <3>4. PICK j \in Int : j = i + (q - p)
      BY <1>2
    <3>5. IsLineOf(V, i, U, j, lv2[i])
      BY <1>5, <3>2, <3>3, <3>4, LineMoves
    <3> QED
      BY <3>3, <3>4, <3>5
  <2>3. CASE i \in p + (r - q) + 1 .. r
    <3>1. PICK j \in Int : j = i - (r + 1 - q)
      BY <1>2
    <3>2. /\ j \in 2 .. N /\ i - (r - q + 1) = j
          /\ i \in p + (r + 1 - q) .. p + (r + 1 - q) + (q - p) - 1
          /\ i \notin p .. p + (r + 1 - q) - 1
      BY <1>2, <2>3, <3>1
    <3>3. o[i] = j /\ V[i] = U[j] /\ lv2[i] = lv[j] + 0
      BY <1>4, <1>8, <1>9, <2>3, <3>1, <3>2
    <3>4. lv[j] \in Int
      BY <1>3, <3>2
    <3>5. lv2[i] = lv[j]
      BY <3>3, <3>4
    <3> QED
      BY <1>1, <3>2, <3>3, <3>5, LineStays
  <2> QED
    BY <1>2, <1>10, <2>1, <2>2, <2>3
<1>11. ~V[1].sel /\ V[1] = U[1]
  <2>1. 1 \in 1 .. p - 1 /\ 1 \in 1 .. N
    BY <1>2
  <2> QED
    BY <1>1, <1>8, <2>1 DEF IsBare
<1>12. Len(V) = Len(lv2) /\ \A i \in 2 .. Len(V) : IsLineOf(V, i, U, o[i], lv2[i])
  BY <1>3, <1>8, <1>10
<1> QED
  BY <1>8, <1>11, <1>12, LinesAreRearranged, Zenon DEF o

CanTreeDown(U, p, q, r) == p > 1 /\ p <= q /\ q < r /\ r <= Len(U)

LEMMA TreeDownIs ==
  ASSUME NEW m, NEW bn, NEW lv, NEW B, Told(m, bn, lv, B),
         NEW U, IsBare(U), Shown(U, bn, lv, B),
         NEW p \in Int, NEW q \in Int, NEW r \in Int, NEW d \in Int, CanTreeDown(U, p, q, r),
         NEW bl, NEW size1, NEW size2, NEW bn2, NEW lv2, NEW B2,
         IsSwapped(m, bn, lv, B, p, q + 1 - p, r - q, bl, size1, size2, d, 0, bn2, lv2, B2),
         NEW sn \in Int, sn = p + (r - q),
         NEW V, V = DownIn(U, p, q, r, RegionLines(d, Slice(U, p, q), lv2, sn))
  PROVE  IsBare(V) /\ IsTreeRearranged(U, V, lv2, SwapOrigin(p, q + 1 - p, r - q))
<1> DEFINE t == RegionLines(d, Slice(U, p, q), lv2, sn)
           o == SwapOrigin(p, q + 1 - p, r - q)
<1>1. PICK N \in Nat : N = Len(U)
  BY DEF IsBare
<1>2. p > 1 /\ p <= q /\ q < r /\ r <= N
  BY <1>1 DEF CanTreeDown
<1>3. /\ U \in Seq(TreeLineType) /\ lv2 \in Seq(Int) /\ Len(lv2) = N /\ Len(bn) = N
      /\ lv \in Seq(Int) /\ Len(lv) = N
  BY <1>1 DEF IsBare, IsSwapped, Shown, Told
<1>4. /\ \A i \in (1 .. p - 1) \cup (p + (q + 1 - p) + (r - q) .. N) : lv2[i] = lv[i]
      /\ \A i \in p .. p + (r - q) - 1 : lv2[i] = lv[i + (q + 1 - p)] + 0
      /\ \A i \in p + (r - q) .. p + (r - q) + (q + 1 - p) - 1 : lv2[i] = lv[i - (r - q)] + d
  BY <1>3 DEF IsSwapped
<1>5. IsTreeRegion(t, U, p, q, lv2, sn)
  <2>1. /\ p \in 1 .. Len(U) /\ q \in p .. Len(U) /\ sn \in 1 .. Len(lv2)
        /\ sn + (q - p) <= Len(lv2)
    <3>1. p \in 1 .. N /\ q \in p .. N /\ sn \in 1 .. N /\ sn + (q - p) <= N
      BY <1>2
    <3> QED
      BY <1>1, <1>3, <3>1, Zenon
  <2>2. ASSUME d = 0, NEW k \in Int, k \in 1 .. q - p + 1
        PROVE  U[p + k - 1].lev = lv2[sn + k - 1]
    <3>1. PICK i \in Int, j \in Int : i = sn + k - 1 /\ j = p + k - 1
      BY <1>2
    <3>2. i \in p + (r - q) .. p + (r - q) + (q + 1 - p) - 1 /\ i - (r - q) = j /\ j \in 2 .. N
      BY <1>2, <2>2, <3>1
    <3>3. PICK y \in Int : y = lv[j]
      <4>1. lv[j] \in Int
        BY <1>3, <3>2
      <4> QED
        BY <4>1
    <3>4. lv2[i] = y + d
      BY <1>4, <3>2, <3>3
    <3>5. U[j].lev = y
      BY <1>1, <3>2, <3>3 DEF Shown
    <3> QED
      BY <2>2, <3>1, <3>4, <3>5
  <2>3. d = 0 => \A k \in 1 .. q - p + 1 : U[p + k - 1].lev = lv2[sn + k - 1]
    BY <2>2
  <2> QED
    BY <1>3, <2>1, <2>3, RegionLinesIs, Zenon
<1> HIDE DEF t
<1>6. t \in Seq(TreeLineType) /\ Len(t) = q - p + 1
  BY <1>5 DEF IsTreeRegion
<1>7. IsMovedDown(TreeLineType, V, U, p, q, r, t)
  <2>1. p \in 1 .. Len(U) /\ q \in p .. Len(U) /\ r \in q + 1 .. Len(U)
    BY <1>1, <1>2
  <2> QED
    BY <1>3, <1>6, <2>1, MovedDownIs DEF DownIn, t
<1>8. /\ V \in Seq(TreeLineType) /\ Len(V) = N
      /\ \A i \in (1 .. p - 1) \cup (r + 1 .. N) : V[i] = U[i]
      /\ \A i \in p .. p + (r - q) - 1 : V[i] = U[i + (q - p + 1)]
      /\ \A i \in p + (r - q) .. r : V[i] = t[i - (p + (r - q)) + 1]
  BY <1>1, <1>7 DEF IsMovedDown
<1>9. \A i \in Int : o[i] = IF i \in p .. p + (r - q) - 1 THEN i + (q + 1 - p)
                            ELSE IF i \in p + (r - q) .. p + (r - q) + (q + 1 - p) - 1
                                 THEN i - (r - q) ELSE i
  BY DEF SwapOrigin
<1> HIDE DEF o
<1>10. ASSUME NEW i \in Int, i \in 2 .. N
       PROVE  IsLineOf(V, i, U, o[i], lv2[i])
  <2>1. CASE i \in (1 .. p - 1) \cup (r + 1 .. N)
    <3>1. o[i] = i
      BY <1>2, <1>9, <2>1
    <3>2. p + (q + 1 - p) + (r - q) = r + 1
      BY <1>2
    <3>3. V[i] = U[i] /\ lv2[i] = lv[i]
      BY <1>4, <1>8, <2>1, <3>2
    <3> QED
      BY <1>1, <1>10, <3>1, <3>3, LineStays
  <2>2. CASE i \in p .. p + (r - q) - 1
    <3>1. PICK j \in Int : j = i + (q + 1 - p)
      BY <1>2
    <3>2. j \in 2 .. N /\ i + (q - p + 1) = j
      BY <1>2, <2>2, <3>1
    <3>3. o[i] = j /\ V[i] = U[j] /\ lv2[i] = lv[j] + 0
      BY <1>4, <1>8, <1>9, <2>2, <3>1, <3>2
    <3>4. lv[j] \in Int
      BY <1>3, <3>2
    <3>5. lv2[i] = lv[j]
      BY <3>3, <3>4
    <3> QED
      BY <1>1, <3>2, <3>3, <3>5, LineStays
  <2>3. CASE i \in p + (r - q) .. r
    <3>1. PICK k \in Int : k = i - (p + (r - q)) + 1
      BY <1>2
    <3>2. /\ k \in 1 .. q - p + 1 /\ i = sn + k - 1 /\ i - (r - q) = p + k - 1
          /\ i \in p + (r - q) .. p + (r - q) + (q + 1 - p) - 1
          /\ i \notin p .. p + (r - q) - 1
      BY <1>2, <2>3, <3>1
    <3>3. V[i] = t[k] /\ o[i] = i - (r - q)
      BY <1>8, <1>9, <2>3, <3>1, <3>2
    <3>4. PICK j \in Int : j = i - (r - q)
      BY <1>2
    <3>5. IsLineOf(V, i, U, j, lv2[i])
      BY <1>5, <3>2, <3>3, <3>4, LineMoves
    <3> QED
      BY <3>3, <3>4, <3>5
  <2> QED
    BY <1>2, <1>10, <2>1, <2>2, <2>3
<1>11. ~V[1].sel /\ V[1] = U[1]
  <2>1. 1 \in 1 .. p - 1 /\ 1 \in 1 .. N
    BY <1>2
  <2> QED
    BY <1>1, <1>8, <2>1 DEF IsBare
<1>12. Len(V) = Len(lv2) /\ \A i \in 2 .. Len(V) : IsLineOf(V, i, U, o[i], lv2[i])
  BY <1>3, <1>8, <1>10
<1> QED
  BY <1>8, <1>11, <1>12, LinesAreRearranged, Zenon DEF o

CanTreePromote(U, p, r) == p > 1 /\ p <= r /\ r <= Len(U)

LEMMA TreePromoteIs ==
  ASSUME NEW m, NEW bn, NEW lv, NEW B, Told(m, bn, lv, B),
         NEW U, IsBare(U), Shown(U, bn, lv, B),
         NEW p \in Int, NEW r \in Int, NEW d \in Int, CanTreePromote(U, p, r),
         NEW bl, NEW size1, NEW size2, NEW bn2, NEW lv2, NEW B2,
         IsSwapped(m, bn, lv, B, p, 0, r + 1 - p, bl, size1, size2, 0, d, bn2, lv2, B2),
         NEW V, V = PutAfter(CutOut(U, p, r), p - 1, setLevTreeLines(Slice(U, p, r), lv2, p))
  PROVE  IsBare(V) /\ IsTreeRearranged(U, V, lv2, SwapOrigin(p, 0, r + 1 - p))
<1> DEFINE t == setLevTreeLines(Slice(U, p, r), lv2, p)
           o == SwapOrigin(p, 0, r + 1 - p)
<1>1. PICK N \in Nat : N = Len(U)
  BY DEF IsBare
<1>2. p > 1 /\ p <= r /\ r <= N
  BY <1>1 DEF CanTreePromote
<1>3. /\ U \in Seq(TreeLineType) /\ lv2 \in Seq(Int) /\ Len(lv2) = N /\ Len(bn) = N
      /\ lv \in Seq(Int) /\ Len(lv) = N
  BY <1>1 DEF IsBare, IsSwapped, Shown, Told
<1>4. \A i \in (1 .. p - 1) \cup (p + 0 + (r + 1 - p) .. N) : lv2[i] = lv[i]
  BY <1>3 DEF IsSwapped
<1>5. p \in 1 .. Len(U) /\ r \in p .. Len(U) /\ p \in 1 .. Len(lv2) /\ p + (r - p) <= Len(lv2)
  <2>1. p \in 1 .. N /\ r \in p .. N /\ p + (r - p) <= N
    BY <1>2
  <2> QED
    BY <1>1, <1>3, <2>1, Zenon
<1>6. IsTreeRegion(t, U, p, r, lv2, p)
  BY <1>3, <1>5, SetLevIs, Zenon
<1> HIDE DEF t
<1>7. t \in Seq(TreeLineType) /\ Len(t) = r - p + 1
  BY <1>6 DEF IsTreeRegion
<1>8. IsReplaced(TreeLineType, V, U, p, r, t)
  BY <1>3, <1>5, <1>7, ReplacedIs DEF t
<1>9. /\ V \in Seq(TreeLineType) /\ Len(V) = N
      /\ \A i \in (1 .. p - 1) \cup (r + 1 .. N) : V[i] = U[i]
      /\ \A i \in p .. r : V[i] = t[i - p + 1]
  BY <1>1, <1>8 DEF IsReplaced
<1>10. \A i \in Int : o[i] = i
  <2>1. \A i \in Int : o[i] = IF i \in p .. p + (r + 1 - p) - 1 THEN i + 0
                              ELSE IF i \in p + (r + 1 - p) .. p + (r + 1 - p) + 0 - 1
                                   THEN i - (r + 1 - p) ELSE i
    BY DEF SwapOrigin
  <2> HIDE DEF o
  <2> QED
    BY <2>1
<1> HIDE DEF o
<1>11. ASSUME NEW i \in Int, i \in 2 .. N
       PROVE  IsLineOf(V, i, U, o[i], lv2[i])
  <2>1. CASE i \in (1 .. p - 1) \cup (r + 1 .. N)
    <3>1. p + 0 + (r + 1 - p) = r + 1
      BY <1>2
    <3>2. V[i] = U[i] /\ lv2[i] = lv[i]
      BY <1>4, <1>9, <2>1, <3>1
    <3> QED
      BY <1>1, <1>10, <1>11, <3>2, LineStays, ZenonT(40)
  <2>2. CASE i \in p .. r
    <3>1. PICK k \in Int : k = i - p + 1
      BY <1>2
    <3>2. k \in 1 .. r - p + 1 /\ i = p + k - 1
      BY <1>2, <2>2, <3>1
    <3>3. V[i] = t[k] /\ o[i] = i
      BY <1>9, <1>10, <2>2, <3>1
    <3>4. IsLineOf(V, i, U, i, lv2[i])
      BY <1>6, <3>2, <3>3, LineMoves
    <3> QED
      BY <3>3, <3>4
  <2> QED
    BY <1>2, <1>11, <2>1, <2>2
<1>12. ~V[1].sel /\ V[1] = U[1]
  <2>1. 1 \in 1 .. p - 1 /\ 1 \in 1 .. N
    BY <1>2
  <2> QED
    BY <1>1, <1>9, <2>1 DEF IsBare
<1>13. Len(V) = Len(lv2) /\ \A i \in 2 .. Len(V) : IsLineOf(V, i, U, o[i], lv2[i])
  BY <1>3, <1>9, <1>11
<1> QED
  BY <1>9, <1>12, <1>13, LinesAreRearranged, Zenon DEF o

LEMMA TreeCutIs ==
  ASSUME NEW m, NEW bn, NEW lv, NEW B, Told(m, bn, lv, B),
         NEW U, IsBare(U), Shown(U, bn, lv, B),
         NEW p \in Int, NEW r \in Int, CanTreePromote(U, p, r),
         NEW bl, NEW size, NEW bn2, NEW lv2, NEW B2,
         IsTrimmed(bn, lv, B, p, r + 1 - p, bl, size, bn2, lv2, B2),
         NEW V, V = CutOut(U, p, r)
  PROVE  IsBare(V) /\ IsTreeRearranged(U, V, lv2, TrimOrigin(p, r + 1 - p))
         /\ Len(V) >= p - 1
<1> DEFINE o == TrimOrigin(p, r + 1 - p)
<1>1. PICK N \in Nat : N = Len(U)
  BY DEF IsBare
<1>2. p > 1 /\ p <= r /\ r <= N
  BY <1>1 DEF CanTreePromote
<1>3. /\ U \in Seq(TreeLineType) /\ Len(bn) = N
      /\ lv \in Seq(Int) /\ Len(lv) = N
      /\ lv2 \in Seq(Int) /\ Len(lv2) = N - (r + 1 - p)
  BY <1>1 DEF IsBare, IsTrimmed, Shown, Told
<1>4. /\ \A i \in 1 .. p - 1 : lv2[i] = lv[i]
      /\ \A i \in p .. N - (r + 1 - p) : lv2[i] = lv[i + (r + 1 - p)]
  BY <1>3 DEF IsTrimmed
<1>5. p \in 1 .. Len(U) /\ r \in p .. Len(U)
  BY <1>1, <1>2
<1>6. IsCut(TreeLineType, V, U, p, r)
  BY <1>3, <1>5, CutOutIs
<1>7. /\ V \in Seq(TreeLineType) /\ Len(V) = N - (r - p + 1)
      /\ \A i \in 1 .. p - 1 : V[i] = U[i]
      /\ \A i \in p .. N - (r - p + 1) : V[i] = U[i + (r - p + 1)]
  BY <1>1, <1>6 DEF IsCut
<1>8. \A i \in Int : o[i] = IF i < p THEN i ELSE i + (r + 1 - p)
  BY DEF TrimOrigin
<1> HIDE DEF o
<1>9. ASSUME NEW i \in Int, i \in 2 .. N - (r - p + 1)
      PROVE  IsLineOf(V, i, U, o[i], lv2[i])
  <2>1. CASE i < p
    <3>1. i \in 1 .. p - 1 /\ i \in 2 .. N
      BY <1>2, <1>9, <2>1
    <3>2. o[i] = i /\ V[i] = U[i] /\ lv2[i] = lv[i]
      BY <1>4, <1>7, <1>8, <2>1, <3>1
    <3> QED
      BY <1>1, <3>1, <3>2, LineStays
  <2>2. CASE i >= p
    <3>1. PICK j \in Int : j = i + (r + 1 - p)
      BY <1>2
    <3>2. /\ j \in 2 .. N /\ i + (r - p + 1) = j /\ ~(i < p)
          /\ i \in p .. N - (r + 1 - p) /\ i \in p .. N - (r - p + 1)
      BY <1>2, <1>9, <2>2, <3>1
    <3>3. o[i] = j /\ V[i] = U[j] /\ lv2[i] = lv[j]
      BY <1>4, <1>7, <1>8, <3>1, <3>2
    <3> QED
      BY <1>1, <3>2, <3>3, LineStays
  <2> QED
    BY <1>9, <2>1, <2>2
<1>10. ~V[1].sel /\ V[1] = U[1]
  <2>1. 1 \in 1 .. p - 1 /\ 1 \in 1 .. N
    BY <1>2
  <2> QED
    BY <1>1, <1>7, <2>1 DEF IsBare
<1>11. Len(V) = Len(lv2) /\ \A i \in 2 .. Len(V) : IsLineOf(V, i, U, o[i], lv2[i])
  <2>1. N - (r + 1 - p) = N - (r - p + 1)
    BY <1>2
  <2> QED
    BY <1>3, <1>7, <1>9, <2>1
<1>12. Len(V) >= p - 1
  <2>1. N - (r - p + 1) >= p - 1
    BY <1>2
  <2> QED
    BY <1>7, <2>1
<1> QED
  BY <1>7, <1>10, <1>11, <1>12, LinesAreRearranged, Zenon DEF o

-----------------------------------------------------------------------------
(* The arguments of the operations.                                        *)

\* The outline of Body B in mode m is bn and lv, shown by T with line sn marked.
Tells(m, B, bn, lv, T, sn) ==
  /\ m \in OneLineModes
  /\ Told(m, bn, lv, B)
  /\ Shown(T, bn, lv, B)
  /\ IsRooted(T)
  /\ IsMarked(T, sn)

LEMMA EndOfIs ==
  ASSUME NEW ln
  PROVE  EndOf(ln) = EndIn(bnodes, Body, ln)
BY DEF EndOf, nodesBodyRange, EndIn

LEMMA ReleveledIs ==
  ASSUME mode \in OneLineModes, Told(mode, bnodes, levels, Body),
         NEW ln1 \in 2 .. Len(bnodes), NEW ln2 \in ln1 .. Len(bnodes), NEW d \in Int,
         \A i \in ln1 .. ln2 : levels[i] + d > 0
  PROVE  IsRegion(mode, bnodes, Body, ln1, ln2, d, Releveled(ln1, ln2, d))
<1> DEFINE t == Releveled(ln1, ln2, d)
           heads == {bnodes[i] : i \in ln1 .. ln2}
<1>1. PICK N \in Nat, Z \in Nat : N = Len(bnodes) /\ Z = Len(Body)
  BY DEF Told
<1>2. /\ ln1 \in Int /\ ln2 \in Int /\ ln1 > 1 /\ ln1 <= ln2 /\ ln2 <= N
  BY <1>1
<1>3. PICK bp \in Int, e \in Int : bp = bnodes[ln1] /\ e = EndIn(bnodes, Body, ln2)
  <2>1. bnodes[ln1] \in Int
    BY NodeBegins
  <2>2. EndIn(bnodes, Body, ln2) \in Int
    BY RegionEnds
  <2> QED
    BY <2>1, <2>2
<1>4. bp > 0 /\ bp <= Z /\ \A j \in 2 .. N : bnodes[j] < bp <=> j < ln1
  BY <1>1, <1>3, NodeBegins DEF BeginsAt
<1>5. e <= Z /\ e >= bp /\ \A j \in 2 .. N : bnodes[j] < e + 1 <=> j < ln2 + 1
  BY <1>1, <1>3, RegionEnds DEF BeginsAt
<1>6. t = [k \in 1 .. e - (bp - 1) |->
             IF bp - 1 + k \in heads /\ d # 0 THEN ChangeLev(mode, Body[bp - 1 + k], d)
             ELSE Body[bp - 1 + k]]
  BY <1>3, EndOfIs DEF Releveled
<1> HIDE DEF t, heads
<1>7. ASSUME NEW x \in Int, x >= bp, x <= e
      PROVE  x \in heads <=> \E i \in 2 .. N : bnodes[i] = x
  <2>1. ASSUME x \in heads
        PROVE  \E i \in 2 .. N : bnodes[i] = x
    <3>1. PICK i \in ln1 .. ln2 : bnodes[i] = x
      BY <2>1 DEF heads
    <3> QED
      BY <1>2, <3>1
  <2>2. ASSUME NEW i \in 2 .. N, bnodes[i] = x
        PROVE  x \in heads
    <3>1. ~(i < ln1) /\ i < ln2 + 1
      BY <1>4, <1>5, <1>7, <2>2
    <3>2. i \in ln1 .. ln2
      BY <1>2, <3>1
    <3> QED
      BY <2>2, <3>2 DEF heads
  <2> QED
    BY <2>1, <2>2
<1>8. ASSUME NEW k \in Int, k \in 1 .. e - (bp - 1)
      PROVE  t[k] = MovedLine(mode, bnodes, Body, bp - 1 + k, d) /\ t[k] \in LineType
  <2>1. PICK x \in Int : x = bp - 1 + k
    BY <1>3
  <2>2. x >= bp /\ x <= e /\ x \in 1 .. Z
    BY <1>4, <1>5, <1>8, <2>1
  <2>3. Body[x] \in LineType
    <3>1. Body \in Seq(LineType) /\ x \in 1 .. Len(Body)
      BY <1>1, <2>2 DEF Told
    <3> QED
      BY <3>1, ElementOfSeq
  <2>4. t[k] = IF x \in heads /\ d # 0 THEN ChangeLev(mode, Body[x], d) ELSE Body[x]
    BY <1>6, <1>8, <2>1
  <2>5. t[k] = MovedLine(mode, bnodes, Body, x, d)
    <3>1. x \in heads <=> \E i \in 2 .. Len(bnodes) : bnodes[i] = x
      BY <1>1, <1>7, <2>2
    <3> QED
      BY <2>4, <3>1 DEF MovedLine, WithLevel
  <2>6. t[k] \in LineType
    <3>1. CASE x \notin heads
      BY <2>3, <2>4, <3>1
    <3>2. CASE x \in heads
      <4>1. PICK i \in ln1 .. ln2 : bnodes[i] = x
        BY <3>2 DEF heads
      <4>2. i \in 2 .. Len(bnodes)
        BY <1>1, <1>2
      <4>3. LevelIn(mode, Body[x]) = levels[i] /\ levels[i] > 0 /\ levels[i] + d > 0
        BY <4>1, <4>2 DEF Told
      <4>4. WithLevel(mode, Body[x], d) \in LineType
        BY <2>3, <4>3, WithLevelIs
      <4> QED
        BY <2>4, <3>2, <4>4 DEF WithLevel
    <3> QED
      BY <3>1, <3>2
  <2> QED
    BY <2>1, <2>5, <2>6
<1>9. t \in Seq(LineType) /\ Len(t) = e - bp + 1
  <2>1. PICK n \in Nat : n = e - (bp - 1) /\ n = e - bp + 1
    BY <1>5
  <2>2. t \in [1 .. n -> LineType]
    BY <1>6, <1>8, <2>1
  <2>3. t \in Seq(LineType)
    BY <2>2, SeqDef
  <2>4. Len([k \in 1 .. n |-> IF bp - 1 + k \in heads /\ d # 0
                              THEN ChangeLev(mode, Body[bp - 1 + k], d)
                              ELSE Body[bp - 1 + k]]) = n
    BY <2>1
  <2> QED
    BY <1>6, <2>1, <2>3, <2>4
<1>10. \A k \in 1 .. Len(t) : t[k] = MovedLine(mode, bnodes, Body, bp - 1 + k, d)
  <2>1. e - bp + 1 = e - (bp - 1)
    BY <1>5
  <2> QED
    BY <1>8, <1>9, <2>1
<1> QED
  BY <1>3, <1>9, <1>10 DEF IsRegion, t

\* The selections of branches.
LEMMA EndsAre ==
  ASSUME Told(mode, bnodes, levels, Body), NEW ln1 \in 2 .. Len(levels), NEW ln2 \in Ends(ln1)
  PROVE  /\ ln2 \in ln1 .. Len(levels)
         /\ \A i \in ln1 .. ln2 : levels[i] >= levels[ln1]
<1>1. PICK sel \in ln1 .. Len(levels) : ln2 = SelEnd(levels, ln1, sel) /\ ln2 # 0
  BY DEF Ends
<1> DEFINE after == {i \in sel + 1 .. Len(levels) : levels[i] <= levels[ln1]}
<1>2. PICK N \in Nat : N = Len(levels)
  BY DEF Told
<1>3. \A i \in 1 .. N : levels[i] \in Int
  BY <1>2 DEF Told
<1>4. /\ ~\E i \in ln1 .. sel : levels[i] < levels[ln1]
      /\ ln2 = IF after = {} THEN N ELSE Min(after) - 1
  BY <1>1, <1>2 DEF SelEnd
<1>5. CASE after = {}
  <2>1. ln2 = N
    BY <1>4, <1>5
  <2>2. ASSUME NEW i \in Int, i \in ln1 .. N
        PROVE  levels[i] >= levels[ln1]
    <3>1. PICK x \in Int, y \in Int : x = levels[i] /\ y = levels[ln1]
      BY <1>2, <1>3, <2>2
    <3>2. CASE i <= sel
      <4>1. ~(x < y)
        BY <1>4, <2>2, <3>1, <3>2
      <4> QED
        BY <3>1, <4>1
    <3>3. CASE i > sel
      <4>1. ~(x <= y)
        BY <1>2, <1>5, <2>2, <3>1, <3>3
      <4> QED
        BY <3>1, <4>1
    <3> QED
      BY <2>2, <3>2, <3>3
  <2> QED
    BY <1>2, <2>1, <2>2
<1>6. CASE after # {}
  <2>1. PICK a \in Nat : a = Min(after) /\ a \in after /\ \A i \in after : a <= i
    <3>1. after \in SUBSET Nat
      BY <1>2
    <3>2. Min(after) \in after /\ \A i \in after : Min(after) <= i
      <4> HIDE DEF after
      <4> QED
        BY <1>6, <3>1, LeastElement
    <3> HIDE DEF after
    <3> QED
      BY <3>1, <3>2
  <2>2. ln2 = a - 1 /\ a \in sel + 1 .. N
    BY <1>2, <1>4, <1>6, <2>1
  <2>3. ASSUME NEW i \in Int, i \in ln1 .. a - 1
        PROVE  levels[i] >= levels[ln1]
    <3>1. PICK x \in Int, y \in Int : x = levels[i] /\ y = levels[ln1]
      <4>1. i \in 1 .. N /\ ln1 \in 1 .. N
        BY <1>2, <2>2, <2>3
      <4>2. levels[i] \in Int /\ levels[ln1] \in Int
        BY <1>3, <4>1
      <4> QED
        BY <4>2
    <3>2. CASE i <= sel
      <4>1. ~(x < y)
        BY <1>4, <2>3, <3>1, <3>2
      <4> QED
        BY <3>1, <4>1
    <3>3. CASE i > sel
      <4>1. i \notin after
        <5> HIDE DEF after
        <5> QED
          BY <2>1, <2>3
      <4>2. i \in sel + 1 .. Len(levels)
        BY <1>2, <2>2, <2>3, <3>3
      <4>3. ~(x <= y)
        BY <3>1, <4>1, <4>2
      <4> QED
        BY <3>1, <4>3
    <3> QED
      BY <2>3, <3>2, <3>3
  <2> QED
    BY <1>2, <2>2, <2>3
<1> QED
  BY <1>5, <1>6

LEMMA LineAboveIs ==
  ASSUME NEW ln \in Int, ln > 1, NEW up \in LineAbove(ln)
  PROVE  up \in Int /\ up >= 1 /\ up < ln /\ (ln > 2 => up > 1)
BY DEF LineAbove

\* Levels are numbers from 1 on.
LEMMA LevelsArePositive ==
  ASSUME NEW m, NEW bn, NEW lv, NEW B, Told(m, bn, lv, B)
  PROVE  lv \in Seq(Positive) /\ \A i \in 1 .. Len(lv) : lv[i] \in Int /\ lv[i] > 0
<1>1. lv \in Seq(Int) /\ Len(lv) \in Nat /\ Len(bn) = Len(lv) /\ lv[1] = 1
  BY DEF Told
<1>2. ASSUME NEW i \in 1 .. Len(lv)
      PROVE  lv[i] \in Int /\ lv[i] > 0
  <2>1. lv[i] \in Int
    BY <1>1, ElementOfSeq
  <2>2. CASE i = 1
    BY <1>1, <2>2
  <2>3. CASE i \in 2 .. Len(lv)
    BY <1>1, <2>1, <2>3 DEF Told
  <2> QED
    BY <1>1, <2>1, <2>2, <2>3
<1>3. lv \in [1 .. Len(lv) -> Positive]
  <2>1. \A i \in 1 .. Len(lv) : lv[i] \in Positive
    <3>1. ASSUME NEW i \in 1 .. Len(lv)
          PROVE  lv[i] \in Positive
      <4>1. PICK x \in Int : x = lv[i] /\ x > 0
        BY <1>2
      <4>2. x \in Nat \ {0}
        BY <4>1
      <4> QED
        BY <4>1, <4>2 DEF Positive
    <3> QED
      BY <3>1
  <2>2. lv \in [1 .. Len(lv) -> Int]
    BY <1>1, LenProperties
  <2> QED
    BY <2>1, <2>2
<1>4. lv \in Seq(Positive)
  BY <1>1, <1>3, SeqDef
<1> QED
  BY <1>2, <1>4

-----------------------------------------------------------------------------
(* The operations.                                                         *)

\* After a move the outline tells the headlines again.
LEMMA MoveTells ==
  ASSUME NEW m, NEW B, NEW bn, NEW lv, NEW T, NEW sn, Tells(m, B, bn, lv, T, sn),
         NEW B2, NEW bn2, NEW lv2, NEW o, NEW d, IsRearranged(m, bn, lv, B, bn2, lv2, B2, o, d),
         NEW V, IsBare(V), IsTreeRearranged(Unmarked(T, sn), V, lv2, o), NEW sn2 \in 1 .. Len(V)
  PROVE  Tells(m, B2, bn2, lv2, Marked(V, sn2), sn2)
<1> DEFINE U == Unmarked(T, sn)
<1>1. IsBare(U) /\ SameLines(U, T)
  BY UnmarkedIs DEF Tells
<1>2. Shown(U, bn, lv, B)
  BY <1>1, SameLinesAreShown DEF IsBare, Tells
<1>3. Told(m, bn2, lv2, B2) /\ Shown(V, bn2, lv2, B2)
  BY <1>2, RearrangedIsTold DEF Tells
<1>4. IsMarked(Marked(V, sn2), sn2) /\ SameLines(Marked(V, sn2), V)
  BY MarkedIs
<1>5. Shown(Marked(V, sn2), bn2, lv2, B2)
  BY <1>3, <1>4, SameLinesAreShown DEF IsMarked
<1>6. IsRooted(Marked(V, sn2))
  <2>1. 1 \in 1 .. Len(V) /\ 1 \in 1 .. Len(U)
    BY <1>1 DEF Tells, IsMarked, SameLines, IsBare
  <2>2. V[1] = U[1] /\ IsRooted(T)
    BY DEF IsTreeRearranged, Tells
  <2>3. IsRooted(U)
    BY <1>1, <2>1, <2>2 DEF SameLines, IsRooted
  <2> HIDE DEF U
  <2>4. IsRooted(V)
    BY <2>2, <2>3 DEF IsRooted
  <2>5. 1 \in 1 .. Len(Marked(V, sn2))
    BY <1>4, <2>1 DEF SameLines
  <2> QED
    BY <1>4, <2>4, <2>5 DEF SameLines, IsRooted
<1> QED
  BY <1>3, <1>4, <1>5, <1>6 DEF Tells

\* The modes have no hook.
LEMMA HookIs ==
  ASSUME mode \in OneLineModes, NEW S, NEW oop, NEW d, NEW bl1, NEW tl1, NEW bl2, NEW tl2,
         NEW blCut, NEW tlCut
  PROVE  Hook(S, oop, d, bl1, tl1, bl2, tl2, blCut, tlCut) = S
BY NoHook, SMT DEF Hook

\* What an operation starts from: the region ln1..ln2 of the outline.
LEMMA RegionIs ==
  ASSUME Tells(mode, Body, bnodes, levels, Tree, snLn),
         NEW ln1 \in 2 .. Len(levels), NEW ln2 \in Ends(ln1)
  PROVE  /\ ln1 \in Int /\ ln2 \in Int /\ ln1 > 1 /\ ln1 <= ln2 /\ ln2 <= Len(levels)
         /\ Len(levels) \in Nat /\ Len(bnodes) = Len(levels)
         /\ Len(Unmarked(Tree, snLn)) = Len(levels)
         /\ ln1 \in 2 .. Len(bnodes) /\ ln2 \in ln1 .. Len(bnodes) /\ ln2 \in 2 .. Len(bnodes)
         /\ bnodes[ln1] \in Int /\ EndOf(ln2) \in Int
         /\ EndOf(ln2) = EndIn(bnodes, Body, ln2)
         /\ levels[ln1] \in Int /\ levels[ln1] > 0
         /\ \A d \in Int : levels[ln1] + d > 0 => \A i \in ln1 .. ln2 : levels[i] + d > 0
         /\ IsBare(Unmarked(Tree, snLn))
         /\ Shown(Unmarked(Tree, snLn), bnodes, levels, Body)
<1> DEFINE U == Unmarked(Tree, snLn)
<1>1. Told(mode, bnodes, levels, Body) /\ Shown(Tree, bnodes, levels, Body) /\ IsMarked(Tree, snLn)
  BY DEF Tells
<1>2. PICK N \in Nat : N = Len(levels) /\ N = Len(bnodes)
  BY <1>1 DEF Told
<1>3. ln2 \in ln1 .. Len(levels) /\ \A i \in ln1 .. ln2 : levels[i] >= levels[ln1]
  BY <1>1, EndsAre
<1>4. ln1 \in Int /\ ln2 \in Int /\ ln1 > 1 /\ ln1 <= ln2 /\ ln2 <= N
  BY <1>2, <1>3
<1>5. ln1 \in 2 .. Len(bnodes) /\ ln2 \in ln1 .. Len(bnodes) /\ ln2 \in 2 .. Len(bnodes)
  BY <1>2, <1>4
<1>6. bnodes[ln1] \in Int
  BY <1>1, <1>5, NodeBegins
<1>7. EndOf(ln2) = EndIn(bnodes, Body, ln2)
  BY EndOfIs
<1>8. EndIn(bnodes, Body, ln2) \in Int
  BY <1>1, <1>5, RegionEnds
<1>9. IsBare(U) /\ SameLines(U, Tree)
  BY <1>1, UnmarkedIs
<1>10. Shown(U, bnodes, levels, Body)
  BY <1>1, <1>9, SameLinesAreShown DEF IsBare
<1>11. Len(U) = Len(levels)
  BY <1>10 DEF Shown
<1>12. \A i \in 1 .. Len(levels) : levels[i] \in Int /\ levels[i] > 0
  BY <1>1, LevelsArePositive
<1>13. ASSUME NEW d \in Int, levels[ln1] + d > 0, NEW i \in Int, i \in ln1 .. ln2
       PROVE  levels[i] + d > 0
  <2>1. i \in 1 .. Len(levels) /\ ln1 \in 1 .. Len(levels)
    BY <1>2, <1>4, <1>13
  <2>2. levels[i] \in Int /\ levels[ln1] \in Int /\ levels[i] >= levels[ln1]
    BY <1>3, <1>12, <1>13, <2>1
  <2>3. PICK x \in Int, y \in Int : x = levels[i] /\ y = levels[ln1]
    BY <2>2
  <2>4. x >= y /\ y + d > 0
    BY <1>13, <2>2, <2>3
  <2>5. x + d > 0
    BY <2>4
  <2> QED
    BY <2>3, <2>5
<1>14. levels[ln1] \in Int /\ levels[ln1] > 0
  <2>1. ln1 \in 1 .. Len(levels)
    BY <1>2, <1>4
  <2> QED
    BY <1>12, <2>1
<1>15. ln2 <= Len(levels) /\ Len(levels) \in Nat /\ Len(bnodes) = Len(levels)
  BY <1>2, <1>4
<1>16. \A d \in Int : levels[ln1] + d > 0 => \A i \in ln1 .. ln2 : levels[i] + d > 0
  BY <1>13
<1> QED
  BY <1>4, <1>5, <1>6, <1>7, <1>8, <1>9, <1>10, <1>11, <1>14, <1>15, <1>16, Zenon

\* The outline that the operations keep.
OutlineTells ==
  /\ Tells(mode, Body, bnodes, levels, Tree, snLn)
  /\ snLn = vimSnLn

\* What an operation makes: outline S and Tree V, which rearrange the old ones.
Makes(S, V, sn) ==
  \E o, d : /\ IsRearranged(mode, bnodes, levels, Body, S.bnodes, S.levels, S.Body, o, d)
            /\ IsBare(V) /\ IsTreeRearranged(Unmarked(Tree, snLn), V, S.levels, o)
            /\ sn \in 1 .. Len(V)

LEMMA DoneTells ==
  ASSUME OutlineTells, NEW S, NEW V, NEW sn, Makes(S, V, sn), Done(S, V, sn)
  PROVE  OutlineTells'
<1>1. PICK o, d : /\ IsRearranged(mode, bnodes, levels, Body, S.bnodes, S.levels, S.Body, o, d)
                  /\ IsBare(V) /\ IsTreeRearranged(Unmarked(Tree, snLn), V, S.levels, o)
                  /\ sn \in 1 .. Len(V)
  BY DEF Makes
<1>2. Tells(mode, S.Body, S.bnodes, S.levels, Marked(V, sn), sn)
  BY <1>1, MoveTells DEF OutlineTells
<1>3. /\ Body' = S.Body /\ bnodes' = S.bnodes /\ levels' = S.levels /\ Tree' = Marked(V, sn)
      /\ snLn' = sn /\ vimSnLn' = sn /\ mode' = mode
  BY DEF Done
<1>4. Tells(mode', Body', bnodes', levels', Tree', snLn')
  BY <1>2, <1>3, Zenon
<1> QED
  BY <1>3, <1>4 DEF OutlineTells

\* voom_OopUp keeps it.
LEMMA UpTells ==
  ASSUME OutlineTells, NEW ln1 \in 2 .. Len(levels), NEW ln2 \in Ends(ln1), ln1 >= 3,
         NEW up \in LineAbove(ln1), NEW up2 \in LineAbove(up), voom_OopUp(ln1, ln2, up, up2)
  PROVE  OutlineTells'
<1> DEFINE U == Unmarked(Tree, snLn)
           levNew == IF levels[up2] + 1 = levels[up] THEN levels[up] ELSE levels[up2]
           d == levNew - levels[ln1]
           bp == bnodes[up]
           bq == bnodes[ln1]
           e == EndOf(ln2)
           t == Releveled(ln1, ln2, d)
           B2 == UpIn(Body, bp, bq, e, t)
           bn2 == UpBnodes(bnodes, up, ln1, ln2, bp, bq, e)
           lv2 == UpLevels(levels, up, ln1, ln2, d)
           V == UpIn(U, up, ln1, ln2, RegionLines(d, Slice(U, ln1, ln2), lv2, up))
           S0 == [Body |-> B2, bnodes |-> bn2, levels |-> lv2, ok |-> TRUE, style |-> style]
<1>1. Tells(mode, Body, bnodes, levels, Tree, snLn) /\ mode \in OneLineModes
      /\ Told(mode, bnodes, levels, Body)
  BY DEF OutlineTells, Tells
<1>2. /\ ln1 \in Int /\ ln2 \in Int /\ ln1 > 1 /\ ln1 <= ln2 /\ ln2 <= Len(levels)
      /\ Len(levels) \in Nat /\ Len(bnodes) = Len(levels) /\ Len(U) = Len(levels)
      /\ ln1 \in 2 .. Len(bnodes) /\ ln2 \in ln1 .. Len(bnodes)
      /\ bq \in Int /\ e \in Int /\ e = EndIn(bnodes, Body, ln2)
      /\ levels[ln1] \in Int
  BY <1>1, RegionIs, Zenon
<1>3. IsBare(U) /\ Shown(U, bnodes, levels, Body)
      /\ \A x \in Int : levels[ln1] + x > 0 => \A i \in ln1 .. ln2 : levels[i] + x > 0
  BY <1>1, RegionIs, Zenon
<1>4. up \in Int /\ up > 1 /\ up < ln1 /\ up2 \in Int /\ up2 >= 1 /\ up2 < up
  <2>1. up \in Int /\ up >= 1 /\ up < ln1 /\ up > 1
    BY <1>2, LineAboveIs
  <2> QED
    BY <2>1, LineAboveIs
<1>5. levels[up] \in Int /\ levels[up] > 0 /\ levels[up2] \in Int /\ levels[up2] > 0
  <2>1. up \in 1 .. Len(levels) /\ up2 \in 1 .. Len(levels)
    BY <1>2, <1>4
  <2> QED
    BY <1>1, <2>1, LevelsArePositive
<1>6. d \in Int /\ levels[ln1] + d > 0
  <2>1. levNew \in Int /\ levNew > 0
    BY <1>5
  <2>2. PICK x \in Int, y \in Int : x = levNew /\ y = levels[ln1] /\ x > 0
    BY <1>2, <2>1
  <2> HIDE DEF levNew
  <2>3. d = x - y
    BY <2>2
  <2>4. y + (x - y) > 0
    BY <2>2
  <2> QED
    BY <2>2, <2>3, <2>4
<1>7. bp \in Int
  <2>1. up \in 2 .. Len(bnodes)
    BY <1>2, <1>4
  <2> QED
    BY <1>1, <2>1, NodeBegins
<1>8. /\ ~stale
      /\ \E S \in {Hook(S0, "up", d, bp, up, bp + (e - bq + 1) - 1, up + (ln2 - ln1 + 1) - 1,
                        bq - 1 + (e - bq + 1), ln1 - 1 + (ln2 - ln1 + 1))} :
           Done(S, UpIn(U, up, ln1, ln2, RegionLines(d, Slice(U, ln1, ln2), S.levels, up)), up)
  BY Zenon DEF voom_OopUp, UpIn, UpBnodes, UpLevels
<1> HIDE DEF d, U, t
<1>9. Done(S0, V, up)
  <2> HIDE DEF bp, bq, e, B2, bn2, lv2
  <2>1. PICK S \in {Hook(S0, "up", d, bp, up, bp + (e - bq + 1) - 1, up + (ln2 - ln1 + 1) - 1,
                         bq - 1 + (e - bq + 1), ln1 - 1 + (ln2 - ln1 + 1))} :
          Done(S, UpIn(U, up, ln1, ln2, RegionLines(d, Slice(U, ln1, ln2), S.levels, up)), up)
    BY <1>8
  <2>2. S = S0
    BY <1>1, <2>1, HookIs, SMT
  <2>3. S0.levels = lv2
    OBVIOUS
  <2> QED
    BY <2>1, <2>2, <2>3, Zenon
<1>10. IsRegion(mode, bnodes, Body, ln1, ln2, d, t)
  BY <1>1, <1>2, <1>3, <1>6, ReleveledIs DEF t
<1>11. CanGoUp(mode, bnodes, levels, Body, up, ln1, ln2, d, t, bp, bq, e)
  BY <1>2, <1>3, <1>4, <1>6, <1>10 DEF CanGoUp
<1>12. /\ CanSwap(bnodes, levels, Body, up, ln1 - up, ln2 + 1 - ln1, bp, bq - bp, e + 1 - bq, 0, d)
       /\ IsSwapped(mode, bnodes, levels, Body, up, ln1 - up, ln2 + 1 - ln1, bp, bq - bp,
                    e + 1 - bq, 0, d, bn2, lv2, B2)
  BY <1>1, <1>2, <1>4, <1>6, <1>7, <1>11, UpIsSwap, Zenon
<1> HIDE DEF bp, bq, e, B2, bn2, lv2
<1>13. IsRearranged(mode, bnodes, levels, Body, bn2, lv2, B2, SwapOrigin(up, ln1 - up, ln2 + 1 - ln1),
                    SwapDelta(up, ln1 - up, ln2 + 1 - ln1, 0, d))
  <2>1. ln1 - up \in Int /\ ln2 + 1 - ln1 \in Int /\ bq - bp \in Int /\ e + 1 - bq \in Int /\ 0 \in Int
    BY <1>2, <1>4, <1>7
  <2> QED
    BY <1>1, <1>4, <1>6, <1>7, <1>12, <2>1, SwappedIsRearranged, Zenon
<1>14. CanTreeUp(U, up, ln1, ln2)
  BY <1>2, <1>4 DEF CanTreeUp
<1>15. IsBare(V) /\ IsTreeRearranged(U, V, lv2, SwapOrigin(up, ln1 - up, ln2 + 1 - ln1))
  BY <1>1, <1>2, <1>3, <1>4, <1>6, <1>12, <1>14, TreeUpIs, Zenon
<1>16. up \in 1 .. Len(V)
  <2>1. Len(V) = Len(lv2) /\ Len(lv2) = Len(bnodes)
    BY <1>12, <1>15 DEF IsTreeRearranged, IsSwapped
  <2>2. up \in 1 .. Len(bnodes)
    BY <1>2, <1>4
  <2> QED
    BY <2>1, <2>2, Zenon
<1>17. Makes(S0, V, up)
  <2>1. S0.Body = B2 /\ S0.bnodes = bn2 /\ S0.levels = lv2
    OBVIOUS
  <2> HIDE DEF S0, V
  <2> QED
    BY <1>13, <1>15, <1>16, <2>1, Zenon DEF Makes, U
<1> QED
  BY <1>9, <1>17, DoneTells, Zenon

\* voom_OopDown keeps it.
LEMMA DownTells ==
  ASSUME OutlineTells, NEW ln1 \in 2 .. Len(levels), NEW ln2 \in Ends(ln1),
         NEW folded \in BOOLEAN, voom_OopDown(ln1, ln2, folded)
  PROVE  OutlineTells'
<1> DEFINE U == Unmarked(Tree, snLn)
           child == nodeHasChildren(levels, ln2 + 1)
           r == IF child /\ folded THEN BranchEnd(levels, ln2 + 1) ELSE ln2 + 1
           levNew == IF child /\ ~folded THEN levels[ln2 + 1] + 1 ELSE levels[ln2 + 1]
           d == levNew - levels[ln1]
           bp == bnodes[ln1]
           e1 == EndOf(ln2)
           e2 == EndOf(r)
           t == Releveled(ln1, ln2, d)
           sn == r + 1 - (ln2 - ln1 + 1)
           B2 == DownIn(Body, bp, e1, e2, t)
           bn2 == DownBnodes(bnodes, ln1, ln2, r, bp, e1, e2)
           lv2 == DownLevels(levels, ln1, ln2, r, d)
           V == DownIn(U, ln1, ln2, r, RegionLines(d, Slice(U, ln1, ln2), lv2, sn))
           S0 == [Body |-> B2, bnodes |-> bn2, levels |-> lv2, ok |-> TRUE, style |-> style]
<1>1. Tells(mode, Body, bnodes, levels, Tree, snLn) /\ mode \in OneLineModes
      /\ Told(mode, bnodes, levels, Body)
  BY DEF OutlineTells, Tells
<1>2. /\ ln1 \in Int /\ ln2 \in Int /\ ln1 > 1 /\ ln1 <= ln2 /\ ln2 <= Len(levels)
      /\ Len(levels) \in Nat /\ Len(bnodes) = Len(levels) /\ Len(U) = Len(levels)
      /\ ln1 \in 2 .. Len(bnodes) /\ ln2 \in ln1 .. Len(bnodes)
      /\ bp \in Int /\ e1 \in Int /\ e1 = EndIn(bnodes, Body, ln2)
      /\ levels[ln1] \in Int
  BY <1>1, RegionIs, Zenon
<1>3. IsBare(U) /\ Shown(U, bnodes, levels, Body)
      /\ \A x \in Int : levels[ln1] + x > 0 => \A i \in ln1 .. ln2 : levels[i] + x > 0
  BY <1>1, RegionIs, Zenon
<1>4. ln2 < Len(levels) /\ ln2 + 1 \in 1 .. Len(levels)
  <2>1. ln2 < Len(levels)
    BY DEF voom_OopDown
  <2> QED
    BY <1>2, <2>1
<1>5. levels \in Seq(Positive) /\ levels[ln2 + 1] \in Int /\ levels[ln2 + 1] > 0
  BY <1>1, <1>4, LevelsArePositive
<1>6. r \in Int /\ ln2 < r /\ r <= Len(levels)
  <2>1. BranchEnd(levels, ln2 + 1) \in ln2 + 1 .. Len(levels)
    BY <1>4, <1>5, BranchEndIs
  <2>2. CASE r = BranchEnd(levels, ln2 + 1)
    <3> HIDE DEF r
    <3> QED
      BY <1>2, <2>1, <2>2
  <2>3. CASE r = ln2 + 1
    <3> HIDE DEF r
    <3> QED
      BY <1>2, <1>4, <2>3
  <2>4. r = BranchEnd(levels, ln2 + 1) \/ r = ln2 + 1
    <3> HIDE DEF child
    <3> QED
      OBVIOUS
  <2> QED
    BY <2>2, <2>3, <2>4, Zenon
<1> HIDE DEF r
<1>7. d \in Int /\ levels[ln1] + d > 0
  <2>1. levNew \in Int /\ levNew > 0
    <3> HIDE DEF child
    <3> QED
      BY <1>5
  <2>2. PICK x \in Int, y \in Int : x = levNew /\ y = levels[ln1] /\ x > 0
    BY <1>2, <2>1
  <2> HIDE DEF levNew
  <2>3. d = x - y
    BY <2>2
  <2>4. y + (x - y) > 0
    BY <2>2
  <2> QED
    BY <2>2, <2>3, <2>4
<1>8. e2 = EndIn(bnodes, Body, r) /\ e2 \in Int
  <2>1. r \in 2 .. Len(bnodes) /\ r \in r .. Len(bnodes)
    BY <1>2, <1>6
  <2>2. EndIn(bnodes, Body, r) \in Int
    BY <1>1, <2>1, RegionEnds
  <2> QED
    BY <2>2, EndOfIs
<1>9. /\ ~stale
      /\ \E blnShow \in {S0.bnodes[sn]} :
           \E S \in {Hook(S0, "down", d, blnShow, sn, blnShow + (e1 - bp + 1) - 1,
                          sn + (ln2 - ln1 + 1) - 1, bp - 1, ln1 - 1)} :
             Done(S, DownIn(U, ln1, ln2, r, RegionLines(d, Slice(U, ln1, ln2), S.levels, sn)), sn)
  BY Zenon DEF voom_OopDown, DownIn, DownBnodes, DownLevels, r
<1> HIDE DEF d, U, t
<1>10. Done(S0, V, sn)
  <2> HIDE DEF bp, e1, e2, B2, bn2, lv2, sn
  <2>1. PICK blnShow : \E S \in {Hook(S0, "down", d, blnShow, sn, blnShow + (e1 - bp + 1) - 1,
                          sn + (ln2 - ln1 + 1) - 1, bp - 1, ln1 - 1)} :
             Done(S, DownIn(U, ln1, ln2, r, RegionLines(d, Slice(U, ln1, ln2), S.levels, sn)), sn)
    BY <1>9, Zenon
  <2>2. PICK S \in {Hook(S0, "down", d, blnShow, sn, blnShow + (e1 - bp + 1) - 1,
                          sn + (ln2 - ln1 + 1) - 1, bp - 1, ln1 - 1)} :
             Done(S, DownIn(U, ln1, ln2, r, RegionLines(d, Slice(U, ln1, ln2), S.levels, sn)), sn)
    BY <2>1
  <2>3. S = S0
    BY <1>1, <2>2, HookIs, SMT
  <2>4. S0.levels = lv2
    OBVIOUS
  <2> QED
    BY <2>2, <2>3, <2>4, Zenon
<1>11. IsRegion(mode, bnodes, Body, ln1, ln2, d, t)
  BY <1>1, <1>2, <1>3, <1>7, ReleveledIs DEF t
<1>12. CanGoDown(mode, bnodes, levels, Body, ln1, ln2, r, d, t, bp, e1, e2)
  BY <1>2, <1>3, <1>6, <1>7, <1>8, <1>11 DEF CanGoDown
<1>13. /\ CanSwap(bnodes, levels, Body, ln1, ln2 + 1 - ln1, r - ln2, bp, e1 + 1 - bp, e2 - e1, d, 0)
       /\ IsSwapped(mode, bnodes, levels, Body, ln1, ln2 + 1 - ln1, r - ln2, bp, e1 + 1 - bp,
                    e2 - e1, d, 0, bn2, lv2, B2)
  BY <1>1, <1>2, <1>6, <1>7, <1>8, <1>12, DownIsSwap, Zenon
<1> HIDE DEF bp, e1, e2, B2, bn2, lv2
<1>14. IsRearranged(mode, bnodes, levels, Body, bn2, lv2, B2, SwapOrigin(ln1, ln2 + 1 - ln1, r - ln2),
                    SwapDelta(ln1, ln2 + 1 - ln1, r - ln2, d, 0))
  <2>1. ln2 + 1 - ln1 \in Int /\ r - ln2 \in Int /\ e1 + 1 - bp \in Int /\ e2 - e1 \in Int /\ 0 \in Int
    BY <1>2, <1>6, <1>8
  <2> QED
    BY <1>1, <1>2, <1>7, <1>13, <2>1, SwappedIsRearranged, Zenon
<1>15. CanTreeDown(U, ln1, ln2, r)
  BY <1>2, <1>6 DEF CanTreeDown
<1>16. sn \in Int /\ sn = ln1 + (r - ln2)
  BY <1>2, <1>6
<1> HIDE DEF sn
<1>17. IsBare(V) /\ IsTreeRearranged(U, V, lv2, SwapOrigin(ln1, ln2 + 1 - ln1, r - ln2))
  BY <1>1, <1>2, <1>3, <1>6, <1>7, <1>13, <1>15, <1>16, TreeDownIs, Zenon
<1>18. sn \in 1 .. Len(V)
  <2>1. Len(V) = Len(lv2) /\ Len(lv2) = Len(bnodes)
    BY <1>13, <1>17 DEF IsTreeRearranged, IsSwapped
  <2>2. sn \in 1 .. Len(bnodes)
    BY <1>2, <1>6, <1>16
  <2> QED
    BY <2>1, <2>2, Zenon
<1>19. Makes(S0, V, sn)
  <2>1. S0.Body = B2 /\ S0.bnodes = bn2 /\ S0.levels = lv2
    OBVIOUS
  <2> HIDE DEF S0, V
  <2> QED
    BY <1>14, <1>17, <1>18, <2>1, Zenon DEF Makes, U
<1> QED
  BY <1>10, <1>19, DoneTells, Zenon

\* voom_OopRight and voom_OopLeft keep it.
LEMMA PromoteTells ==
  ASSUME OutlineTells, NEW ln1 \in 2 .. Len(levels), NEW ln2 \in Ends(ln1), NEW oop,
         NEW d \in Int, levels[ln1] + d > 0, Promote(ln1, ln2, oop, d)
  PROVE  OutlineTells'
<1> DEFINE U == Unmarked(Tree, snLn)
           bp == bnodes[ln1]
           e == EndOf(ln2)
           t == Releveled(ln1, ln2, d)
           B2 == PromotedIn(Body, bp, e, t)
           lv2 == Shift(levels, ln1, ln2, d)
           V == PutAfter(CutOut(U, ln1, ln2), ln1 - 1, setLevTreeLines(Slice(U, ln1, ln2), lv2, ln1))
           S0 == [Body |-> B2, bnodes |-> bnodes, levels |-> lv2, ok |-> TRUE, style |-> style]
<1>1. Tells(mode, Body, bnodes, levels, Tree, snLn) /\ mode \in OneLineModes
      /\ Told(mode, bnodes, levels, Body)
  BY DEF OutlineTells, Tells
<1>2. /\ ln1 \in Int /\ ln2 \in Int /\ ln1 > 1 /\ ln1 <= ln2 /\ ln2 <= Len(levels)
      /\ Len(levels) \in Nat /\ Len(bnodes) = Len(levels) /\ Len(U) = Len(levels)
      /\ ln1 \in 2 .. Len(bnodes) /\ ln2 \in ln1 .. Len(bnodes)
      /\ bp \in Int /\ e \in Int /\ e = EndIn(bnodes, Body, ln2)
  BY <1>1, RegionIs, Zenon
<1>3. IsBare(U) /\ Shown(U, bnodes, levels, Body) /\ \A i \in ln1 .. ln2 : levels[i] + d > 0
  BY <1>1, RegionIs, Zenon
<1>4. \E S \in {Hook(S0, oop, d, bp, ln1, e, ln2, 0, 0)} :
        Done(S, PutAfter(CutOut(U, ln1, ln2), ln1 - 1,
                         setLevTreeLines(Slice(U, ln1, ln2), S.levels, ln1)), ln1)
  BY Zenon DEF Promote, PromotedIn
<1> HIDE DEF U, t
<1>5. Done(S0, V, ln1)
  <2> HIDE DEF bp, e, B2, lv2
  <2>1. PICK S \in {Hook(S0, oop, d, bp, ln1, e, ln2, 0, 0)} :
          Done(S, PutAfter(CutOut(U, ln1, ln2), ln1 - 1,
                           setLevTreeLines(Slice(U, ln1, ln2), S.levels, ln1)), ln1)
    BY <1>4
  <2>2. S = S0
    BY <1>1, <2>1, HookIs, SMT
  <2>3. S0.levels = lv2
    OBVIOUS
  <2> QED
    BY <2>1, <2>2, <2>3, Zenon
<1>6. IsRegion(mode, bnodes, Body, ln1, ln2, d, t)
  BY <1>1, <1>2, <1>3, ReleveledIs DEF t
<1>7. CanPromote(mode, bnodes, levels, Body, ln1, ln2, d, t, bp, e)
  BY <1>2, <1>3, <1>6 DEF CanPromote
<1>8. /\ CanSwap(bnodes, levels, Body, ln1, 0, ln2 + 1 - ln1, bp, 0, e + 1 - bp, 0, d)
      /\ IsSwapped(mode, bnodes, levels, Body, ln1, 0, ln2 + 1 - ln1, bp, 0, e + 1 - bp, 0, d,
                   bnodes, lv2, B2)
  BY <1>1, <1>2, <1>7, PromotedIsSwap, Zenon
<1> HIDE DEF bp, e, B2, lv2
<1>9. IsRearranged(mode, bnodes, levels, Body, bnodes, lv2, B2, SwapOrigin(ln1, 0, ln2 + 1 - ln1),
                   SwapDelta(ln1, 0, ln2 + 1 - ln1, 0, d))
  <2>1. ln2 + 1 - ln1 \in Int /\ e + 1 - bp \in Int /\ 0 \in Int
    BY <1>2
  <2> QED
    BY <1>1, <1>2, <1>8, <2>1, SwappedIsRearranged, Zenon
<1>10. CanTreePromote(U, ln1, ln2)
  BY <1>2 DEF CanTreePromote
<1>11. IsBare(V) /\ IsTreeRearranged(U, V, lv2, SwapOrigin(ln1, 0, ln2 + 1 - ln1))
  BY <1>1, <1>2, <1>3, <1>8, <1>10, TreePromoteIs, Zenon
<1>12. ln1 \in 1 .. Len(V)
  <2>1. Len(V) = Len(lv2) /\ Len(lv2) = Len(bnodes)
    BY <1>8, <1>11 DEF IsTreeRearranged, IsSwapped
  <2>2. ln1 \in 1 .. Len(bnodes)
    BY <1>2
  <2> QED
    BY <2>1, <2>2, Zenon
<1>13. Makes(S0, V, ln1)
  <2>1. S0.Body = B2 /\ S0.bnodes = bnodes /\ S0.levels = lv2
    OBVIOUS
  <2> HIDE DEF S0, V
  <2> QED
    BY <1>9, <1>11, <1>12, <2>1, Zenon DEF Makes, U
<1> QED
  BY <1>5, <1>13, DoneTells, Zenon

\* voom_OopCut keeps it.
LEMMA CutTells ==
  ASSUME OutlineTells, NEW ln1 \in 2 .. Len(levels), NEW ln2 \in Ends(ln1),
         NEW up \in LineAbove(ln1), voom_OopCut(ln1, ln2, up)
  PROVE  OutlineTells'
<1> DEFINE U == Unmarked(Tree, snLn)
           bp == bnodes[ln1]
           e == EndOf(ln2)
           B2 == CutBody(Body, bp, e)
           bn2 == CutBnodes(bnodes, ln1, ln2, bp, e)
           lv2 == CutOut(levels, ln1, ln2)
           V == CutOut(U, ln1, ln2)
           S0 == [Body |-> B2, bnodes |-> bn2, levels |-> lv2, ok |-> TRUE, style |-> style]
<1>1. Tells(mode, Body, bnodes, levels, Tree, snLn) /\ mode \in OneLineModes
      /\ Told(mode, bnodes, levels, Body)
  BY DEF OutlineTells, Tells
<1>2. /\ ln1 \in Int /\ ln2 \in Int /\ ln1 > 1 /\ ln1 <= ln2 /\ ln2 <= Len(levels)
      /\ Len(levels) \in Nat /\ Len(bnodes) = Len(levels) /\ Len(U) = Len(levels)
      /\ bp \in Int /\ e \in Int /\ e = EndIn(bnodes, Body, ln2)
      /\ IsBare(U) /\ Shown(U, bnodes, levels, Body)
  BY <1>1, RegionIs, Zenon
<1>3. \E S \in {Hook(S0, "cut", 0, 0, 0, 0, 0, bp - 1, ln1 - 1)} : Done(S, V, up)
  BY Zenon DEF voom_OopCut, CutBody, CutBnodes
<1> HIDE DEF U
<1>4. Done(S0, V, up)
  <2> HIDE DEF bp, e, B2, bn2, lv2
  <2>1. PICK S \in {Hook(S0, "cut", 0, 0, 0, 0, 0, bp - 1, ln1 - 1)} : Done(S, V, up)
    BY <1>3
  <2>2. S = S0
    BY <1>1, <2>1, HookIs, SMT
  <2> QED
    BY <2>1, <2>2, Zenon
<1>5. CanCut(bnodes, Body, ln1, ln2, bp, e)
  BY <1>2 DEF CanCut
<1>6. /\ CanTrim(bnodes, Body, ln1, ln2 + 1 - ln1, bp, e + 1 - bp)
      /\ IsTrimmed(bnodes, levels, Body, ln1, ln2 + 1 - ln1, bp, e + 1 - bp, bn2, lv2, B2)
  BY <1>1, <1>2, <1>5, CutIsTrim, Zenon
<1> HIDE DEF bp, e, B2, bn2, lv2
<1>7. IsRearranged(mode, bnodes, levels, Body, bn2, lv2, B2, TrimOrigin(ln1, ln2 + 1 - ln1),
                   [i \in Int |-> 0])
  <2>1. ln2 + 1 - ln1 \in Int /\ e + 1 - bp \in Int
    BY <1>2
  <2> QED
    BY <1>1, <1>2, <1>6, <2>1, TrimmedIsRearranged, Zenon
<1>8. CanTreePromote(U, ln1, ln2)
  BY <1>2 DEF CanTreePromote
<1>9. /\ IsBare(V) /\ IsTreeRearranged(U, V, lv2, TrimOrigin(ln1, ln2 + 1 - ln1))
      /\ Len(V) >= ln1 - 1
  BY <1>1, <1>2, <1>6, <1>8, TreeCutIs, Zenon
<1>10. up \in 1 .. Len(V)
  <2>1. up \in Int /\ up >= 1 /\ up < ln1
    BY <1>2, LineAboveIs
  <2>2. Len(V) \in Nat
    BY <1>9 DEF IsBare
  <2> HIDE DEF V
  <2> QED
    BY <1>2, <1>9, <2>1, <2>2
<1>11. Makes(S0, V, up)
  <2>1. S0.Body = B2 /\ S0.bnodes = bn2 /\ S0.levels = lv2
    OBVIOUS
  <2> HIDE DEF S0, V
  <2> QED
    BY <1>7, <1>9, <1>10, <2>1, Zenon DEF Makes, U
<1> QED
  BY <1>4, <1>11, DoneTells, Zenon

\* Every operation on branches keeps it, in a Body of any length.
LEMMA OperationTells ==
  ASSUME OutlineTells, Operation
  PROVE  OutlineTells'
<1>1. PICK ln1 \in 2 .. Len(levels) : \E ln2 \in Ends(ln1) :
        \/ voom_OopCopy(ln1, ln2)
        \/ \E up \in LineAbove(ln1) : voom_OopCut(ln1, ln2, up)
        \/ ln1 >= 3 /\ \E up \in LineAbove(ln1) : \E up2 \in LineAbove(up) :
                         voom_OopUp(ln1, ln2, up, up2)
        \/ \E folded \in BOOLEAN : voom_OopDown(ln1, ln2, folded)
        \/ voom_OopRight(ln1, ln2)
        \/ voom_OopLeft(ln1, ln2)
  BY Zenon DEF Operation
<1>2. PICK ln2 \in Ends(ln1) :
        \/ voom_OopCopy(ln1, ln2)
        \/ \E up \in LineAbove(ln1) : voom_OopCut(ln1, ln2, up)
        \/ ln1 >= 3 /\ \E up \in LineAbove(ln1) : \E up2 \in LineAbove(up) :
                         voom_OopUp(ln1, ln2, up, up2)
        \/ \E folded \in BOOLEAN : voom_OopDown(ln1, ln2, folded)
        \/ voom_OopRight(ln1, ln2)
        \/ voom_OopLeft(ln1, ln2)
  BY <1>1
<1>3. levels[ln1] \in Int /\ levels[ln1] > 0
  BY RegionIs, Zenon DEF OutlineTells
<1>4. CASE voom_OopCopy(ln1, ln2)
  BY <1>4 DEF voom_OopCopy, outline, OutlineTells
<1>5. CASE \E up \in LineAbove(ln1) : voom_OopCut(ln1, ln2, up)
  BY <1>5, CutTells, Zenon
<1>6. CASE ln1 >= 3 /\ \E up \in LineAbove(ln1) : \E up2 \in LineAbove(up) :
             voom_OopUp(ln1, ln2, up, up2)
  BY <1>6, UpTells, Zenon
<1>7. CASE \E folded \in BOOLEAN : voom_OopDown(ln1, ln2, folded)
  BY <1>7, DownTells, Zenon
<1>8. CASE voom_OopRight(ln1, ln2)
  <2>1. Promote(ln1, ln2, "right", 1) /\ 1 \in Int /\ levels[ln1] + 1 > 0
    BY <1>3, <1>8 DEF voom_OopRight
  <2> QED
    BY <2>1, PromoteTells, Zenon
<1>9. CASE voom_OopLeft(ln1, ln2)
  <2>1. Promote(ln1, ln2, "left", -1) /\ levels[ln1] # 1
    BY <1>9 DEF voom_OopLeft
  <2>2. -1 \in Int /\ levels[ln1] + (-1) > 0
    BY <1>3, <2>1
  <2> QED
    BY <2>1, <2>2, PromoteTells, Zenon
<1> QED
  BY <1>2, <1>4, <1>5, <1>6, <1>7, <1>8, <1>9, Zenon

\* The outline of the caches is the outline of the Body, and the Tree shows it,
\* from wherever they agree and through any sequence of operations on branches:
\* what voom_OopVerify checks, in the modes in which a line is a headline by
\* itself and for Bodies of any length.
THEOREM OperationsTell ==
  OutlineTells /\ [][Operation]_vars => []OutlineTells
<1>1. OutlineTells /\ [Operation]_vars => OutlineTells'
  <2>1. ASSUME OutlineTells, Operation
        PROVE  OutlineTells'
    BY <2>1, OperationTells
  <2>2. ASSUME OutlineTells, UNCHANGED vars
        PROVE  OutlineTells'
    BY <2>2 DEF vars, outline, OutlineTells
  <2> QED
    BY <2>1, <2>2
<1> QED
  BY <1>1, PTL

-----------------------------------------------------------------------------
(* What a parse makes of a Body.                                           *)

HeadlineNumbers(m, B) == {i \in 1 .. Len(B) : LevelIn(m, B[i]) > 0}

\* The line of the Tree for line l of the Body.
LineShown(m, l) == TreeLine(FALSE, l.k = "marked", LevelIn(m, l), l.t)

\* The parse o of Body B has these headlines, in order.
IsParse(m, B, o) ==
  /\ o.levels = [j \in 1 .. Len(o.bnodes) |-> LevelIn(m, B[o.bnodes[j]])]
  /\ o.tlines = [j \in 1 .. Len(o.bnodes) |-> LineShown(m, B[o.bnodes[j]])]
  /\ o.bnodes \in Seq(HeadlineNumbers(m, B))
  /\ \A i \in HeadlineNumbers(m, B) : \E j \in 1 .. Len(o.bnodes) : o.bnodes[j] = i
  /\ \A i, j \in 1 .. Len(o.bnodes) : i < j => o.bnodes[i] < o.bnodes[j]

LEMMA ParseHas ==
  ASSUME NEW m \in OneLineModes, NEW B \in Seq(LineType), NEW o, o = OutlineOf(m, B)
  PROVE  IsParse(m, B, o)
<1> DEFINE bn == Ascending(HeadlineNumbers(m, B))
           lev == [i \in 1 .. Len(B) |-> LevelIn(m, B[i])]
           S == HeadlineNumbers(m, B)
<1>1. o = Headlines(B, lev)
  BY ParseIs
<1>2. S \in SUBSET (1 .. Len(B)) /\ Len(B) \in Nat
  BY DEF HeadlineNumbers
<1>3. {i \in 1 .. Len(B) : lev[i] > 0} = S
  BY DEF HeadlineNumbers
<1>4. /\ bn \in Seq(S)
      /\ \A i \in S : \E j \in 1 .. Len(bn) : bn[j] = i
      /\ \A i, j \in 1 .. Len(bn) : i < j => bn[i] < bn[j]
  <2> HIDE DEF S
  <2>1. /\ Ascending(S) \in Seq(S)
        /\ \A x \in S : \E i \in 1 .. Len(Ascending(S)) : Ascending(S)[i] = x
        /\ \A i, j \in 1 .. Len(Ascending(S)) : i < j => Ascending(S)[i] < Ascending(S)[j]
    BY <1>2, AscendingIs
  <2>2. bn = Ascending(S)
    BY DEF S
  <2> QED
    BY <2>1, <2>2, Zenon
<1> HIDE DEF bn
<1>5. /\ o.bnodes = bn
      /\ o.levels = [j \in 1 .. Len(bn) |-> lev[bn[j]]]
      /\ o.tlines = [j \in 1 .. Len(bn) |->
                       TreeLine(FALSE, B[bn[j]].k = "marked", lev[bn[j]], B[bn[j]].t)]
  <2> HIDE DEF lev, S
  <2>1. Ascending({i \in 1 .. Len(B) : lev[i] > 0}) = bn
    BY <1>3 DEF S, bn
  <2>2. o = [bnodes |-> bn,
             levels |-> [j \in 1 .. Len(bn) |-> lev[bn[j]]],
             tlines |-> [j \in 1 .. Len(bn) |->
                           TreeLine(FALSE, B[bn[j]].k = "marked", lev[bn[j]], B[bn[j]].t)]]
    BY <1>1, <2>1, Zenon DEF Headlines
  <2> QED
    BY <2>2
<1>6. \A j \in 1 .. Len(bn) : lev[bn[j]] = LevelIn(m, B[bn[j]])
  <2>1. ASSUME NEW j \in 1 .. Len(bn)
        PROVE  bn[j] \in 1 .. Len(B)
    <3>1. bn[j] \in S
      <4> HIDE DEF S
      <4> QED
        BY <1>4
    <3> QED
      BY <1>2, <3>1
  <2> QED
    BY <2>1
<1>7. /\ [j \in 1 .. Len(bn) |-> lev[bn[j]]] = [j \in 1 .. Len(bn) |-> LevelIn(m, B[bn[j]])]
      /\ [j \in 1 .. Len(bn) |->
             TreeLine(FALSE, B[bn[j]].k = "marked", lev[bn[j]], B[bn[j]].t)]
           = [j \in 1 .. Len(bn) |-> LineShown(m, B[bn[j]])]
  <2> HIDE DEF lev
  <2> QED
    BY <1>6 DEF LineShown
<1> QED
  BY <1>4, <1>5, <1>7, Zenon DEF S, IsParse

LEMMA FunctionIsSeq ==
  ASSUME NEW T, NEW n \in Nat, NEW f \in [1 .. n -> T]
  PROVE  f \in Seq(T) /\ Len(f) = n
OBVIOUS

LEMMA SeqOfSubset ==
  ASSUME NEW S, NEW T, S \subseteq T, NEW s \in Seq(S)
  PROVE  s \in Seq(T) /\ Len(s) \in Nat
<1>1. PICK n \in Nat : n = Len(s)
  OBVIOUS
<1>2. \A i \in 1 .. n : s[i] \in T
  BY <1>1, ElementOfSeq
<1>3. s \in [1 .. n -> S]
  BY <1>1
<1>4. s \in [1 .. n -> T]
  BY <1>2, <1>3
<1> QED
  BY <1>1, <1>4

\* s with x before it.
LEMMA WithFirst ==
  ASSUME NEW T, NEW x \in T, NEW s \in Seq(T)
  PROVE  /\ <<x>> \o s \in Seq(T)
         /\ Len(<<x>> \o s) = Len(s) + 1
         /\ (<<x>> \o s)[1] = x
         /\ \A j \in 1 .. Len(s) : (<<x>> \o s)[j + 1] = s[j]
         /\ \A i \in 2 .. Len(s) + 1 : i - 1 \in 1 .. Len(s) /\ (<<x>> \o s)[i] = s[i - 1]
<1>1. Len(s) \in Nat
  OBVIOUS
<1>2. <<x>> \in Seq(T) /\ Len(<<x>>) = 1 /\ <<x>>[1] = x
  OBVIOUS
<1>3. /\ <<x>> \o s \in Seq(T)
      /\ Len(<<x>> \o s) = 1 + Len(s)
      /\ \A i \in 1 .. 1 + Len(s) : (<<x>> \o s)[i] = IF i <= 1 THEN <<x>>[i] ELSE s[i - 1]
  BY <1>2, ConcatProperties
<1> DEFINE w == <<x>> \o s
<1> HIDE DEF w
<1>4. w[1] = x
  BY <1>1, <1>2, <1>3 DEF w
<1>5. ASSUME NEW j \in 1 .. Len(s)
      PROVE  w[j + 1] = s[j]
  <2>1. j + 1 \in 1 .. 1 + Len(s) /\ ~(j + 1 <= 1) /\ j + 1 - 1 = j
    BY <1>1
  <2> QED
    BY <1>3, <2>1 DEF w
<1>6. ASSUME NEW i \in 2 .. Len(s) + 1
      PROVE  i - 1 \in 1 .. Len(s) /\ w[i] = s[i - 1]
  <2>1. i - 1 \in 1 .. Len(s) /\ i \in 1 .. 1 + Len(s) /\ ~(i <= 1)
    BY <1>1
  <2> QED
    BY <1>3, <2>1 DEF w
<1>7. 1 + Len(s) = Len(s) + 1
  BY <1>1
<1> QED
  BY <1>3, <1>4, <1>5, <1>6, <1>7 DEF w

\* The outline o of Body B, line by line.
IsOutline(m, B, o) ==
  /\ o.bnodes \in Seq(Int) /\ o.levels \in Seq(Int) /\ Len(o.levels) = Len(o.bnodes)
  /\ IsBare(o.tlines) /\ Len(o.tlines) = Len(o.bnodes)
  /\ \A j \in 1 .. Len(o.bnodes) :
       /\ o.bnodes[j] \in 1 .. Len(B)
       /\ o.levels[j] = LevelIn(m, B[o.bnodes[j]]) /\ o.levels[j] > 0
       /\ o.tlines[j].lev = o.levels[j]
       /\ o.tlines[j].head = B[o.bnodes[j]].t
       /\ o.tlines[j].x = (B[o.bnodes[j]].k = "marked")
  /\ \A i, j \in 1 .. Len(o.bnodes) : i < j => o.bnodes[i] < o.bnodes[j]
  /\ \A k \in 1 .. Len(B) : LevelIn(m, B[k]) > 0 => \E j \in 1 .. Len(o.bnodes) : o.bnodes[j] = k

LEMMA ParseIsOutline ==
  ASSUME NEW m \in OneLineModes, NEW B \in Seq(LineType), NEW o, o = OutlineOf(m, B)
  PROVE  IsOutline(m, B, o)
<1> DEFINE S == HeadlineNumbers(m, B)
           b == o.bnodes
<1>1. /\ o.bnodes = b
      /\ o.levels = [j \in 1 .. Len(b) |-> LevelIn(m, B[b[j]])]
      /\ o.tlines = [j \in 1 .. Len(b) |-> LineShown(m, B[b[j]])]
      /\ b \in Seq(S)
      /\ \A i \in S : \E j \in 1 .. Len(b) : b[j] = i
      /\ \A i, j \in 1 .. Len(b) : i < j => b[i] < b[j]
  <2>1. IsParse(m, B, o)
    BY ParseHas
  <2> QED
    BY <2>1, Zenon DEF IsParse
<1>2. S \in SUBSET (1 .. Len(B)) /\ Len(B) \in Nat /\ \A i \in S : LevelIn(m, B[i]) > 0
  BY DEF HeadlineNumbers
<1>b. \A i \in 1 .. Len(B) : LevelIn(m, B[i]) > 0 => i \in S
  BY DEF HeadlineNumbers
<1> HIDE DEF S, b
<1>3. PICK N \in Nat : N = Len(b)
  BY <1>1
<1>4. ASSUME NEW j \in 1 .. N
      PROVE  /\ b[j] \in 1 .. Len(B) /\ b[j] \in Int /\ B[b[j]] \in LineType
             /\ LevelIn(m, B[b[j]]) \in Int /\ LevelIn(m, B[b[j]]) > 0
             /\ LineShown(m, B[b[j]]) \in TreeLineType
             /\ LineShown(m, B[b[j]]).lev = LevelIn(m, B[b[j]])
             /\ LineShown(m, B[b[j]]).head = B[b[j]].t
             /\ LineShown(m, B[b[j]]).x = (B[b[j]].k = "marked")
             /\ ~LineShown(m, B[b[j]]).sel
  <2>1. PICK i \in S : i = b[j]
    BY <1>1, <1>3
  <2>2. i \in 1 .. Len(B) /\ LevelIn(m, B[i]) > 0
    BY <1>2
  <2>3. PICK l \in LineType : l = B[i]
    BY <2>2
  <2>4. LevelIn(m, l) \in Int
    BY LevelInType
  <2>5. /\ LineShown(m, l) \in TreeLineType /\ LineShown(m, l).lev = LevelIn(m, l)
        /\ LineShown(m, l).head = l.t /\ LineShown(m, l).x = (l.k = "marked")
        /\ ~LineShown(m, l).sel
    <3>1. PICK v \in Int : v = LevelIn(m, l)
      BY <2>4
    <3>2. l.t \in Int
      BY DEF LineType
    <3>3. LineShown(m, l) = [sel |-> FALSE, x |-> (l.k = "marked"), lev |-> v, head |-> l.t]
      BY <3>1 DEF LineShown, TreeLine
    <3>4. (l.k = "marked") \in BOOLEAN
      OBVIOUS
    <3> QED
      BY <3>1, <3>2, <3>3, <3>4 DEF TreeLineType
  <2> QED
    BY <2>1, <2>2, <2>3, <2>4, <2>5
<1>5. /\ o.bnodes \in Seq(Int) /\ Len(o.bnodes) = N
      /\ o.levels \in Seq(Int) /\ Len(o.levels) = N
      /\ \A j \in 1 .. N : o.levels[j] = LevelIn(m, B[b[j]])
      /\ o.tlines \in Seq(TreeLineType) /\ Len(o.tlines) = N
      /\ \A j \in 1 .. N : o.tlines[j] = LineShown(m, B[b[j]])
  <2>1. b \in Seq(Int)
    <3>1. b \in [1 .. N -> Int]
      BY <1>1, <1>3, <1>4
    <3> QED
      BY <3>1
  <2>2. o.levels = [j \in 1 .. N |-> LevelIn(m, B[b[j]])]
        /\ o.tlines = [j \in 1 .. N |-> LineShown(m, B[b[j]])]
    BY <1>1, <1>3, Zenon
  <2> DEFINE f(j) == LevelIn(m, B[b[j]])
             g(j) == LineShown(m, B[b[j]])
  <2>3. \A j \in 1 .. N : f(j) \in Int /\ g(j) \in TreeLineType
    BY <1>4
  <2>4. o.levels = [j \in 1 .. N |-> f(j)] /\ o.tlines = [j \in 1 .. N |-> g(j)]
    BY <2>2
  <2> HIDE DEF f, g
  <2>5. o.levels \in Seq(Int) /\ Len(o.levels) = N /\ \A j \in 1 .. N : o.levels[j] = f(j)
    <3>1. o.levels \in [1 .. N -> Int]
      BY <2>3, <2>4
    <3> QED
      BY <1>3, <2>4, <3>1
  <2>6. o.tlines \in Seq(TreeLineType) /\ Len(o.tlines) = N /\ \A j \in 1 .. N : o.tlines[j] = g(j)
    <3>1. o.tlines \in [1 .. N -> TreeLineType]
      BY <2>3, <2>4
    <3> QED
      BY <1>3, <2>4, <3>1
  <2> QED
    BY <1>1, <1>3, <2>1, <2>5, <2>6 DEF f, g
<1>6. ASSUME NEW k \in 1 .. Len(B), LevelIn(m, B[k]) > 0
      PROVE  \E j \in 1 .. N : b[j] = k
  BY <1>1, <1>3, <1>b, <1>6
<1>7. IsBare(o.tlines)
  BY <1>4, <1>5 DEF IsBare
<1>8. o.bnodes = b /\ \A i, j \in 1 .. N : i < j => b[i] < b[j]
  BY <1>1, <1>3
<1>9. \A j \in 1 .. N :
        /\ b[j] \in 1 .. Len(B)
        /\ o.levels[j] = LevelIn(m, B[b[j]]) /\ o.levels[j] > 0
        /\ o.tlines[j].lev = o.levels[j]
        /\ o.tlines[j].head = B[b[j]].t
        /\ o.tlines[j].x = (B[b[j]].k = "marked")
  BY <1>4, <1>5
<1> QED
  BY <1>5, <1>6, <1>7, <1>8, <1>9 DEF IsOutline

\* A parse tells the outline.
LEMMA ParseTells ==
  ASSUME NEW m \in OneLineModes, NEW B \in Seq(LineType), B # <<>>, NEW o, o = OutlineOf(m, B),
         NEW bn, NEW lv, NEW T,
         bn = << 1 >> \o o.bnodes, lv = << 1 >> \o o.levels, T = <<RootLine>> \o o.tlines
  PROVE  Told(m, bn, lv, B) /\ Shown(T, bn, lv, B) /\ IsBare(T) /\ IsRooted(T)
<1> DEFINE b == o.bnodes
<1>0. IsOutline(m, B, o)
  BY ParseIsOutline
<1>3. PICK N \in Nat : N = Len(b)
  BY <1>0 DEF IsOutline
<1>1. /\ o.bnodes = b /\ b \in Seq(Int)
      /\ o.levels \in Seq(Int) /\ Len(o.levels) = N
      /\ o.tlines \in Seq(TreeLineType) /\ Len(o.tlines) = N
      /\ \A j \in 1 .. N : ~o.tlines[j].sel
      /\ \A i, j \in 1 .. N : i < j => b[i] < b[j]
      /\ \A k \in 1 .. Len(B) : LevelIn(m, B[k]) > 0 => \E j \in 1 .. N : b[j] = k
  BY <1>0, <1>3 DEF IsOutline, IsBare
<1>4. \A j \in 1 .. N :
        /\ b[j] \in 1 .. Len(B)
        /\ o.levels[j] = LevelIn(m, B[b[j]]) /\ o.levels[j] > 0
        /\ o.tlines[j].lev = o.levels[j]
        /\ o.tlines[j].head = B[b[j]].t
        /\ o.tlines[j].x = (B[b[j]].k = "marked")
  BY <1>0, <1>3 DEF IsOutline
<1>5. o.bnodes \in Seq(Int) /\ Len(o.bnodes) = N
  BY <1>1, <1>3
<1> HIDE DEF b
<1>6. /\ bn \in Seq(Int) /\ Len(bn) = N + 1 /\ bn[1] = 1
      /\ \A i \in 2 .. N + 1 : i - 1 \in 1 .. N /\ bn[i] = b[i - 1]
      /\ \A j \in 1 .. N : bn[j + 1] = b[j]
  <2>1. 1 \in Int
    OBVIOUS
  <2> QED
    BY <1>1, <1>3, <1>5, <2>1, WithFirst
<1>7. /\ lv \in Seq(Int) /\ Len(lv) = N + 1 /\ lv[1] = 1
      /\ \A i \in 2 .. N + 1 : lv[i] = o.levels[i - 1]
  <2>1. 1 \in Int
    OBVIOUS
  <2> QED
    BY <1>1, <2>1, WithFirst
<1>8. RootLine \in TreeLineType /\ ~RootLine.sel /\ IsRooted(<<RootLine>>)
  BY DEF RootLine, TreeLine, TreeLineType, BufferName, IsRooted
<1>9. /\ T \in Seq(TreeLineType) /\ Len(T) = N + 1 /\ T[1] = RootLine
      /\ \A i \in 2 .. N + 1 : i - 1 \in 1 .. N /\ T[i] = o.tlines[i - 1]
  BY <1>1, <1>8, WithFirst
<1>10. Told(m, bn, lv, B)
  <2>0. N \in Nat /\ Len(bn) = N + 1
    BY <1>3, <1>6
  <2>1. ASSUME NEW i \in 2 .. Len(bn)
        PROVE  bn[i] \in 1 .. Len(B) /\ lv[i] > 0 /\ LevelIn(m, B[bn[i]]) = lv[i]
    <3>1. PICK j \in 1 .. N : j = i - 1
      BY <1>6, <2>0
    <3>2. bn[i] = b[j] /\ lv[i] = o.levels[j]
      BY <1>6, <1>7, <2>0, <3>1
    <3> QED
      BY <1>4, <3>2
  <2>2. ASSUME NEW i \in 2 .. Len(bn), NEW j \in 2 .. Len(bn), i < j
        PROVE  bn[i] < bn[j]
    <3>1. /\ i - 1 \in 1 .. N /\ j - 1 \in 1 .. N /\ i - 1 < j - 1
          /\ bn[i] = b[i - 1] /\ bn[j] = b[j - 1]
      <4>1. i \in 2 .. N + 1 /\ j \in 2 .. N + 1
        BY <2>0
      <4>2. i - 1 < j - 1
        BY <2>0, <2>2
      <4> QED
        BY <1>6, <4>1, <4>2
    <3> QED
      BY <1>1, <1>3, <3>1
  <2>3. ASSUME NEW k \in 1 .. Len(B), LevelIn(m, B[k]) > 0
        PROVE  \E i \in 2 .. Len(bn) : bn[i] = k
    <3>1. PICK j \in 1 .. N : b[j] = k
      BY <1>1, <2>3
    <3>2. j + 1 \in 2 .. Len(bn)
      BY <2>0
    <3>3. bn[j + 1] = k
      BY <1>6, <3>1
    <3> QED
      BY <3>2, <3>3
  <2>4. bn # <<>>
    BY <1>6
  <2>5. Len(bn) = Len(lv)
    BY <1>6, <1>7
  <2> QED
    BY <1>6, <1>7, <2>1, <2>2, <2>3, <2>4, <2>5 DEF Told
<1>11. ASSUME NEW i \in 2 .. Len(T)
       PROVE  /\ T[i].lev = lv[i] /\ T[i].head = B[bn[i]].t /\ T[i].x = (B[bn[i]].k = "marked")
              /\ ~T[i].sel
  <2>1. i \in 2 .. N + 1
    BY <1>9
  <2>2. PICK j \in 1 .. N : j = i - 1
    BY <1>9, <2>1
  <2>3. T[i] = o.tlines[j] /\ lv[i] = o.levels[j] /\ bn[i] = b[j]
    BY <1>6, <1>7, <1>9, <2>1, <2>2
  <2>4. /\ o.tlines[j].lev = o.levels[j] /\ o.tlines[j].head = B[b[j]].t
        /\ o.tlines[j].x = (B[b[j]].k = "marked") /\ ~o.tlines[j].sel
    BY <1>1, <1>4
  <2> QED
    BY <2>3, <2>4, Zenon
<1>12. Shown(T, bn, lv, B)
  BY <1>7, <1>9, <1>11 DEF Shown
<1>13. IsRooted(T)
  BY <1>8, <1>9 DEF IsRooted
<1>14. IsBare(T)
  <2>1. \A i \in 1 .. Len(T) : i = 1 \/ i \in 2 .. Len(T)
    BY <1>9
  <2>2. ~T[1].sel
    BY <1>8, <1>9
  <2>3. \A i \in 2 .. Len(T) : ~T[i].sel
    BY <1>11
  <2>4. \A i \in 1 .. Len(T) : ~T[i].sel
    BY <2>1, <2>2, <2>3, Zenon
  <2> QED
    BY <1>9, <2>4 DEF IsBare
<1> QED
  BY <1>10, <1>12, <1>13, <1>14

\* u is c without its first element, and has the headlines of B in order.
IsTail(m, B, c, u) ==
  /\ u \in Seq(Int) /\ Len(u) = Len(c) - 1 /\ Len(c) \in Nat /\ Len(c) > 0
  /\ \A i, j \in 1 .. Len(u) : i < j => u[i] < u[j]
  /\ \A i \in 1 .. Len(u) : u[i] \in 1 .. Len(B) /\ LevelIn(m, B[u[i]]) > 0
  /\ \A k \in 1 .. Len(B) : LevelIn(m, B[k]) > 0 => \E i \in 1 .. Len(u) : u[i] = k

LEMMA TailIs ==
  ASSUME NEW m \in OneLineModes, NEW c, NEW v, NEW B, Told(m, c, v, B),
         NEW u, u = [i \in 1 .. Len(c) - 1 |-> c[i + 1]]
  PROVE  IsTail(m, B, c, u)
<1>1. c \in Seq(Int) /\ c # <<>>
  BY DEF Told
<1>2. PICK N \in Nat : N = Len(c) /\ N > 0
  BY <1>1
<1>3. \A i \in 2 .. N : c[i] \in 1 .. Len(B) /\ LevelIn(m, B[c[i]]) > 0
  BY <1>2 DEF Told
<1>4. \A i, j \in 2 .. N : i < j => c[i] < c[j]
  BY <1>2 DEF Told
<1>5. \A k \in 1 .. Len(B) : LevelIn(m, B[k]) > 0 => \E i \in 2 .. N : c[i] = k
  BY <1>2 DEF Told
<1>6. \A i \in 1 .. N - 1 : i + 1 \in 2 .. N
  BY <1>2
<1>7. u \in [1 .. N - 1 -> Int] /\ N - 1 \in Nat /\ \A i \in 1 .. N - 1 : u[i] = c[i + 1]
  BY <1>2, <1>3, <1>6
<1>8. u \in Seq(Int) /\ Len(u) = N - 1
  <2>1. PICK n \in Nat : n = N - 1
    BY <1>7
  <2>2. u \in [1 .. n -> Int]
    BY <1>7, <2>1
  <2>3. u \in Seq(Int) /\ Len(u) = n
    BY <2>2, FunctionIsSeq, Zenon
  <2> QED
    BY <2>1, <2>3
<1>9. ASSUME NEW i \in 1 .. N - 1, NEW j \in 1 .. N - 1, i < j
      PROVE  u[i] < u[j]
  <2>1. i + 1 < j + 1 /\ i + 1 \in 2 .. N /\ j + 1 \in 2 .. N
    BY <1>6, <1>9
  <2> QED
    BY <1>4, <1>7, <2>1
<1>10. ASSUME NEW k \in 1 .. Len(B), LevelIn(m, B[k]) > 0
       PROVE  \E i \in 1 .. N - 1 : u[i] = k
  <2>1. PICK i \in 2 .. N : c[i] = k
    BY <1>5, <1>10
  <2>2. i - 1 \in 1 .. N - 1 /\ i - 1 + 1 = i
    BY <1>2
  <2>3. u[i - 1] = k
    BY <1>7, <2>1, <2>2
  <2> QED
    BY <2>2, <2>3
<1>11. \A i \in 1 .. N - 1 : u[i] \in 1 .. Len(B) /\ LevelIn(m, B[u[i]]) > 0
  BY <1>3, <1>6, <1>7
<1> QED
  BY <1>2, <1>8, <1>9, <1>10, <1>11 DEF IsTail

\* There is no other outline of a Body.
LEMMA ToldIsUnique ==
  ASSUME NEW m \in OneLineModes, NEW bn, NEW lv, NEW bn2, NEW lv2, NEW B,
         Told(m, bn, lv, B), Told(m, bn2, lv2, B)
  PROVE  bn = bn2 /\ lv = lv2
<1> DEFINE s == [i \in 1 .. Len(bn) - 1 |-> bn[i + 1]]
           t == [i \in 1 .. Len(bn2) - 1 |-> bn2[i + 1]]
<1>2. /\ s \in Seq(Int) /\ Len(s) = Len(bn) - 1 /\ Len(bn) \in Nat /\ Len(bn) > 0
      /\ \A i, j \in 1 .. Len(s) : i < j => s[i] < s[j]
      /\ \A i \in 1 .. Len(s) : s[i] \in 1 .. Len(B) /\ LevelIn(m, B[s[i]]) > 0
      /\ \A k \in 1 .. Len(B) : LevelIn(m, B[k]) > 0 => \E i \in 1 .. Len(s) : s[i] = k
  <2>1. IsTail(m, B, bn, s)
    BY TailIs
  <2> QED
    BY <2>1, Zenon DEF IsTail
<1>3. /\ t \in Seq(Int) /\ Len(t) = Len(bn2) - 1 /\ Len(bn2) \in Nat /\ Len(bn2) > 0
      /\ \A i, j \in 1 .. Len(t) : i < j => t[i] < t[j]
      /\ \A i \in 1 .. Len(t) : t[i] \in 1 .. Len(B) /\ LevelIn(m, B[t[i]]) > 0
      /\ \A k \in 1 .. Len(B) : LevelIn(m, B[k]) > 0 => \E i \in 1 .. Len(t) : t[i] = k
  <2>1. IsTail(m, B, bn2, t)
    BY TailIs
  <2> QED
    BY <2>1, Zenon DEF IsTail
<1>4. s = t
  <2> HIDE DEF s, t
  <2>1. /\ \A i \in 1 .. Len(s) : \E j \in 1 .. Len(t) : t[j] = s[i]
        /\ \A j \in 1 .. Len(t) : \E i \in 1 .. Len(s) : s[i] = t[j]
    BY <1>2, <1>3, Zenon
  <2> QED
    BY <1>2, <1>3, <2>1, OrderIsUnique, Zenon
<1>5. PICK N \in Nat : N = Len(bn) /\ N = Len(bn2) /\ N > 0
  <2>1. Len(bn) - 1 = Len(bn2) - 1
    BY <1>2, <1>3, <1>4, Zenon
  <2> HIDE DEF s, t
  <2> QED
    BY <1>2, <1>3, <2>1
<1>6. ASSUME NEW i \in 1 .. N
      PROVE  bn[i] = bn2[i]
  <2>1. CASE i = 1
    BY <2>1 DEF Told
  <2>2. CASE i # 1
    <3>1. i - 1 \in 1 .. N - 1 /\ i - 1 + 1 = i
      BY <1>5, <2>2
    <3>2. s[i - 1] = bn[i] /\ t[i - 1] = bn2[i]
      BY <1>5, <3>1
    <3> QED
      BY <1>4, <3>2
  <2> QED
    BY <2>1, <2>2
<1> HIDE DEF s, t
<1>7. bn = bn2
  <2>1. bn \in Seq(Int) /\ bn2 \in Seq(Int)
    BY DEF Told
  <2> QED
    BY <1>5, <1>6, <2>1, SeqEqual
<1>8. lv = lv2
  <2>1. lv \in Seq(Int) /\ lv2 \in Seq(Int) /\ Len(lv) = N /\ Len(lv2) = N
    BY <1>5 DEF Told
  <2>2. ASSUME NEW i \in 1 .. N
        PROVE  lv[i] = lv2[i]
    <3>1. CASE i = 1
      BY <3>1 DEF Told
    <3>2. CASE i # 1
      <4>1. i \in 2 .. N
        BY <1>5, <3>2
      <4>2. LevelIn(m, B[bn[i]]) = lv[i] /\ LevelIn(m, B[bn2[i]]) = lv2[i]
        BY <1>5, <4>1 DEF Told
      <4> QED
        BY <1>7, <4>2
    <3> QED
      BY <3>1, <3>2
  <2> QED
    BY <2>1, <2>2, SeqEqual
<1> QED
  BY <1>7, <1>8

\* Nor another Tree that shows it.
LEMMA ShownIsUnique ==
  ASSUME NEW bn, NEW lv, NEW B, NEW T, NEW T2, NEW sn,
         Shown(T, bn, lv, B), IsRooted(T), IsMarked(T, sn),
         Shown(T2, bn, lv, B), IsRooted(T2), IsMarked(T2, sn)
  PROVE  T = T2
<1>1. PICK N \in Nat : N = Len(T) /\ N = Len(T2)
  BY DEF Shown
<1>2. T \in Seq(TreeLineType) /\ T2 \in Seq(TreeLineType)
  BY DEF Shown
<1>3. ASSUME NEW i \in 1 .. N
      PROVE  T[i] = T2[i]
  <2>1. T[i] \in TreeLineType /\ T2[i] \in TreeLineType
    BY <1>1, <1>2, ElementOfSeq, Zenon
  <2>2. T[i].sel = T2[i].sel
    <3>1. T[i].sel \in BOOLEAN /\ T2[i].sel \in BOOLEAN
      BY <2>1 DEF TreeLineType
    <3>2. (T[i].sel <=> i = sn) /\ (T2[i].sel <=> i = sn)
      BY <1>1 DEF IsMarked
    <3> QED
      BY <3>1, <3>2
  <2>3. T[i].lev = T2[i].lev /\ T[i].head = T2[i].head /\ T[i].x = T2[i].x
    <3>1. CASE i = 1
      BY <3>1 DEF IsRooted
    <3>2. CASE i # 1
      <4>1. i \in 2 .. N
        BY <3>2
      <4> QED
        BY <1>1, <4>1 DEF Shown
    <3> QED
      BY <3>1, <3>2
  <2> QED
    BY <2>1, <2>2, <2>3 DEF TreeLineType
<1> QED
  BY <1>1, <1>2, <1>3, SeqEqual

\* Two outlines of a Body with the same line marked are the same.
LEMMA TellsIsUnique ==
  ASSUME NEW m, NEW B, NEW bn, NEW lv, NEW T, NEW bn2, NEW lv2, NEW T2, NEW sn,
         Tells(m, B, bn, lv, T, sn), Tells(m, B, bn2, lv2, T2, sn)
  PROVE  bn = bn2 /\ lv = lv2 /\ T = T2
<1>1. m \in OneLineModes /\ Told(m, bn, lv, B) /\ Told(m, bn2, lv2, B)
  BY DEF Tells
<1>2. bn = bn2 /\ lv = lv2
  BY <1>1, ToldIsUnique, Zenon
<1>3. /\ Shown(T, bn, lv, B) /\ IsRooted(T) /\ IsMarked(T, sn)
      /\ Shown(T2, bn, lv, B) /\ IsRooted(T2) /\ IsMarked(T2, sn)
  BY <1>2 DEF Tells
<1>4. T = T2
  BY <1>3, ShownIsUnique, Zenon
<1> QED
  BY <1>2, <1>4

\* Marking a line.
LEMMA MarkedTells ==
  ASSUME NEW m \in OneLineModes, NEW bn, NEW lv, NEW B, NEW V, NEW sn \in 1 .. Len(V),
         Told(m, bn, lv, B), Shown(V, bn, lv, B), IsBare(V), IsRooted(V)
  PROVE  Tells(m, B, bn, lv, Marked(V, sn), sn)
<1>1. IsMarked(Marked(V, sn), sn) /\ SameLines(Marked(V, sn), V)
  BY MarkedIs
<1>2. Shown(Marked(V, sn), bn, lv, B)
  BY <1>1, SameLinesAreShown DEF IsMarked
<1>3. IsRooted(Marked(V, sn))
  <2>1. 1 \in 1 .. Len(Marked(V, sn))
    BY <1>1 DEF IsMarked
  <2> QED
    BY <1>1, <2>1 DEF SameLines, IsRooted
<1> QED
  BY <1>1, <1>2, <1>3 DEF Tells

\* What updateTree makes of a Body tells its headlines.
LEMMA UpdatedTells ==
  ASSUME mode \in OneLineModes, NEW B \in Seq(LineType), B # <<>>, NEW sn \in Int, sn > 0,
         NEW u, u = Updated(B, sn)
  PROVE  /\ Tells(mode, B, u.bnodes, u.levels, u.tree, u.sn)
         /\ u.sn \in 1 .. Len(u.bnodes)
         /\ sn <= Len(u.bnodes) => u.sn = sn
<1> DEFINE o == OutlineOf(mode, B)
           V == <<RootLine>> \o o.tlines
           bn == <<1>> \o o.bnodes
           lv == <<1>> \o o.levels
           selected == Lesser(sn, Len(o.bnodes) + 1)
<1>1. u = [bnodes |-> bn, levels |-> lv, tree |-> Marked(V, selected), sn |-> selected]
  BY Zenon DEF Updated
<1>2. Told(mode, bn, lv, B) /\ Shown(V, bn, lv, B) /\ IsBare(V) /\ IsRooted(V)
  BY ParseTells, Zenon
<1>3. Len(bn) = Len(o.bnodes) + 1 /\ Len(o.bnodes) \in Nat
  <2>1. IsParse(mode, B, o)
    BY ParseHas, Zenon
  <2>2. PICK S : o.bnodes \in Seq(S) /\ S \subseteq Int
    <3>1. o.bnodes \in Seq(HeadlineNumbers(mode, B))
      BY <2>1, Zenon DEF IsParse
    <3>2. HeadlineNumbers(mode, B) \subseteq Int
      BY DEF HeadlineNumbers
    <3> QED
      BY <3>1, <3>2, Zenon
  <2> HIDE DEF o
  <2>3. o.bnodes \in Seq(Int) /\ Len(o.bnodes) \in Nat
    BY <2>2, SeqOfSubset
  <2>4. 1 \in Int
    OBVIOUS
  <2> QED
    BY <2>3, <2>4, WithFirst
<1>4. Len(V) = Len(bn)
  <2> HIDE DEF V, bn, lv
  <2> QED
    BY <1>2 DEF Shown, Told
<1> HIDE DEF o, V, bn, lv
<1>5. selected \in 1 .. Len(V) /\ (sn <= Len(bn) => selected = sn)
  BY <1>3, <1>4 DEF Lesser
<1> HIDE DEF selected
<1>6. Tells(mode, B, bn, lv, Marked(V, selected), selected)
  BY <1>2, <1>5, MarkedTells, Zenon
<1>7. u.bnodes = bn /\ u.levels = lv /\ u.tree = Marked(V, selected) /\ u.sn = selected
  BY <1>1
<1> QED
  BY <1>4, <1>5, <1>6, <1>7, Zenon

\* An outline that tells the headlines passes voom_OopVerify.
LEMMA TellsIsVerified ==
  ASSUME OutlineTells
  PROVE  Verified
<1> DEFINE u == Updated(Body, snLn)
<1>1. /\ Tells(mode, Body, bnodes, levels, Tree, snLn) /\ mode \in OneLineModes
      /\ Told(mode, bnodes, levels, Body)
  BY DEF OutlineTells, Tells
<1>2. Body \in Seq(LineType) /\ Body # <<>> /\ snLn \in 1 .. Len(bnodes) /\ snLn \in Int /\ snLn > 0
  <2>1. snLn \in 1 .. Len(Tree) /\ Len(Tree) = Len(bnodes) /\ Len(bnodes) \in Nat
    BY <1>1 DEF Tells, IsMarked, Shown, Told
  <2> QED
    BY <1>1, <2>1 DEF Told
<1>3. /\ Tells(mode, Body, u.bnodes, u.levels, u.tree, u.sn)
      /\ u.sn \in 1 .. Len(u.bnodes)
      /\ snLn <= Len(u.bnodes) => u.sn = snLn
  BY <1>1, <1>2, UpdatedTells, Zenon
<1> HIDE DEF u
<1>4. u.bnodes = bnodes /\ u.levels = levels
  BY <1>1, <1>3, ToldIsUnique, Zenon DEF Tells
<1>5. u.sn = snLn
  <2>1. snLn <= Len(bnodes)
    BY <1>1, <1>2 DEF Told
  <2> QED
    BY <1>3, <1>4, <2>1
<1>6. Tells(mode, Body, bnodes, levels, u.tree, snLn)
  BY <1>3, <1>4, <1>5, Zenon
<1>7. u.tree = Tree
  BY <1>1, <1>6, TellsIsUnique, Zenon
<1> QED
  BY <1>4, <1>7, Zenon DEF Verified, u

-----------------------------------------------------------------------------
(* Pasting: the lines of the clipboard C, whose outline is o, go after     *)
(* node r, with the levels of its headlines changed by d.                  *)

\* t is these lines.
IsClip(m, C, d, t) ==
  /\ t \in Seq(LineType) /\ Len(t) = Len(C)
  /\ \A k \in 1 .. Len(C) : t[k] = IF LevelIn(m, C[k]) > 0 THEN WithLevel(m, C[k], d) ELSE C[k]

\* They may go after node r, whose last line is e.
CanPaste(m, bn, B, C, o, r, d, e) ==
  /\ C \in Seq(LineType) /\ IsOutline(m, C, o) /\ o.bnodes # <<>>
  /\ r \in 1 .. Len(bn) /\ e = EndIn(bn, B, r) /\ d \in Int
  /\ \A j \in 1 .. Len(o.levels) : o.levels[j] + d > 0

\* w is s with elements t after element k.
IsJoined(T, w, s, k, t, z) ==
  /\ w \in Seq(T) /\ Len(w) = Len(s) + z
  /\ \A i \in 1 .. k : w[i] = s[i]
  /\ \A j \in 1 .. z : w[k + j] = t[j]
  /\ \A i \in k + 1 .. Len(s) : w[i + z] = s[i]

LEMMA PutIsJoined ==
  ASSUME NEW T, NEW s \in Seq(T), NEW t \in Seq(T), NEW k \in 0 .. Len(s), NEW z, z = Len(t)
  PROVE  IsJoined(T, PutAfter(s, k, t), s, k, t, z)
<1> DEFINE w == PutAfter(s, k, t)
<1>1. IsPut(T, w, s, k, t)
  BY PutAfterIs
<1> HIDE DEF w
<1>2. PICK N \in Nat, Z \in Nat : N = Len(s) /\ Z = Len(t) /\ Z = z
  OBVIOUS
<1>3. ASSUME NEW j \in 1 .. Z
      PROVE  w[k + j] = t[j]
  <2>1. PICK x \in Int : x = k + j
    OBVIOUS
  <2>2. x \in k + 1 .. k + Len(t) /\ x - k = j
    BY <1>2, <2>1
  <2>3. w[x] = t[x - k]
    BY <1>1, <2>2 DEF IsPut
  <2> QED
    BY <2>1, <2>2, <2>3
<1>4. ASSUME NEW i \in k + 1 .. N
      PROVE  w[i + Z] = s[i]
  <2>1. i + Z \in k + Len(t) + 1 .. Len(s) + Len(t) /\ i + Z - Len(t) = i
    BY <1>2
  <2> QED
    BY <1>1, <2>1 DEF IsPut
<1>5. w \in Seq(T) /\ Len(w) = N + Z /\ \A i \in 1 .. k : w[i] = s[i]
  BY <1>1, <1>2 DEF IsPut
<1> QED
  BY <1>2, <1>3, <1>4, <1>5 DEF IsJoined, w

\* The patched outline, line by line.
IsPasted(m, bn, lv, B, C, o, r, d, e, bn2, lv2, B2, n, z) ==
  /\ B2 \in Seq(LineType) /\ Len(B2) = Len(B) + z
  /\ \A k \in 1 .. e : B2[k] = B[k]
  /\ \A k \in 1 .. z : B2[e + k] = IF LevelIn(m, C[k]) > 0 THEN WithLevel(m, C[k], d) ELSE C[k]
  /\ \A k \in e + 1 .. Len(B) : B2[k + z] = B[k]
  /\ bn2 \in Seq(Int) /\ Len(bn2) = Len(bn) + n
  /\ \A i \in 1 .. r : bn2[i] = bn[i]
  /\ \A j \in 1 .. n : bn2[r + j] = o.bnodes[j] + e
  /\ \A i \in r + 1 .. Len(bn) : bn2[i + n] = bn[i] + z
  /\ lv2 \in Seq(Int) /\ Len(lv2) = Len(bn) + n
  /\ \A i \in 1 .. r : lv2[i] = lv[i]
  /\ \A j \in 1 .. n : lv2[r + j] = o.levels[j] + d
  /\ \A i \in r + 1 .. Len(bn) : lv2[i + n] = lv[i]

\* The three parts of the patched outline.
IsInParts(N, n, r, i) ==
  \/ i \in 2 .. r
  \/ \E j \in 1 .. n : i = r + j
  \/ \E j \in r + 1 .. N : i = j + n

LEMMA ThreeParts ==
  ASSUME NEW N \in Nat, NEW n \in Nat, NEW r \in 1 .. N, NEW i \in 2 .. N + n
  PROVE  IsInParts(N, n, r, i)
<1>1. CASE i <= r
  BY <1>1 DEF IsInParts
<1>2. CASE i > r /\ i <= r + n
  <2>1. i - r \in 1 .. n /\ i = r + (i - r)
    BY <1>2
  <2> QED
    BY <2>1 DEF IsInParts
<1>3. CASE i > r + n
  <2>1. i - n \in r + 1 .. N /\ i = (i - n) + n
    BY <1>3
  <2> QED
    BY <2>1 DEF IsInParts
<1> QED
  BY <1>1, <1>2, <1>3 DEF IsInParts

\* Every headline of the patched outline tells its line.
PastedTells(m, bn2, lv2, B2, V, i) ==
  /\ bn2[i] \in 1 .. Len(B2) /\ lv2[i] > 0 /\ LevelIn(m, B2[bn2[i]]) = lv2[i]
  /\ V[i].lev = lv2[i]
  /\ V[i].head = B2[bn2[i]].t
  /\ V[i].x = (B2[bn2[i]].k = "marked")

\* V is Tree U with the lines of the clipboard.
IsTreePasted(U, V, bn, o, r, lv2, n) ==
  /\ V \in Seq(TreeLineType) /\ Len(V) = Len(bn) + n
  /\ \A i \in 1 .. r : V[i] = U[i]
  /\ \A j \in 1 .. n : /\ ~V[r + j].sel
                       /\ V[r + j].lev = lv2[r + j]
                       /\ V[r + j].head = o.tlines[j].head
                       /\ V[r + j].x = o.tlines[j].x
  /\ \A i \in r + 1 .. Len(bn) : V[i + n] = U[i]

LEMMA PastedLines ==
  ASSUME NEW m \in OneLineModes, NEW bn, NEW lv, NEW B, Told(m, bn, lv, B), NEW U, Shown(U, bn, lv, B),
         NEW C, NEW o, NEW r, NEW d, NEW e, CanPaste(m, bn, B, C, o, r, d, e),
         NEW bn2, NEW lv2, NEW B2, NEW V, NEW n \in Nat, NEW z \in Nat,
         n = Len(o.bnodes), z = Len(C),
         IsPasted(m, bn, lv, B, C, o, r, d, e, bn2, lv2, B2, n, z),
         IsTreePasted(U, V, bn, o, r, lv2, n), NEW i \in 2 .. Len(bn2)
  PROVE  PastedTells(m, bn2, lv2, B2, V, i)
<1>1. PICK N \in Nat, Z \in Nat : N = Len(bn) /\ Z = Len(B) /\ N = Len(lv) /\ N = Len(U)
  BY DEF Told, Shown
<1>2. /\ r \in 1 .. N /\ e \in 0 .. Z /\ d \in Int
      /\ \A j \in 2 .. N : bn[j] <= e <=> j <= r
  <2>1. r \in 1 .. Len(bn) /\ e = EndIn(bn, B, r) /\ d \in Int
    BY DEF CanPaste
  <2> QED
    BY <1>1, <2>1, EndIs
<1>3. \A j \in 2 .. N :
        /\ bn[j] \in 1 .. Z /\ lv[j] > 0 /\ LevelIn(m, B[bn[j]]) = lv[j]
        /\ U[j].lev = lv[j] /\ U[j].head = B[bn[j]].t /\ U[j].x = (B[bn[j]].k = "marked")
  BY <1>1 DEF Told, Shown
<1>4. Len(B2) = Z + z /\ i \in 2 .. N + n
  BY <1>1 DEF IsPasted
<1>5. CASE i \in 2 .. r
  <2>1. i \in 2 .. N /\ i \in 1 .. r
    BY <1>2, <1>5
  <2>2. bn2[i] = bn[i] /\ lv2[i] = lv[i] /\ V[i] = U[i]
    BY <2>1 DEF IsPasted, IsTreePasted
  <2>3. PICK b \in 1 .. Z : b = bn[i]
    BY <1>3, <2>1
  <2>4. b \in 1 .. e /\ b \in 1 .. Z + z
    BY <1>2, <1>5, <2>1, <2>3
  <2>5. B2[b] = B[b]
    BY <2>4 DEF IsPasted
  <2> QED
    BY <1>3, <1>4, <2>1, <2>2, <2>3, <2>4, <2>5 DEF PastedTells
<1>6. ASSUME NEW j \in 1 .. n, i = r + j
      PROVE  PastedTells(m, bn2, lv2, B2, V, i)
  <2>1. /\ o.bnodes[j] \in 1 .. z
        /\ o.levels[j] = LevelIn(m, C[o.bnodes[j]]) /\ o.levels[j] > 0
        /\ o.tlines[j].head = C[o.bnodes[j]].t
        /\ o.tlines[j].x = (C[o.bnodes[j]].k = "marked")
        /\ o.levels[j] + d > 0
        /\ C \in Seq(LineType)
    BY DEF CanPaste, IsOutline
  <2>2. PICK b \in 1 .. z : b = o.bnodes[j]
    BY <2>1
  <2>3. PICK l \in LineType : l = C[b]
    BY <2>1, ElementOfSeq
  <2>4. LevelIn(m, l) > 0 /\ LevelIn(m, l) = o.levels[j] /\ LevelIn(m, l) + d > 0
    BY <2>1, <2>2, <2>3
  <2>5. /\ LevelIn(m, WithLevel(m, l, d)) = o.levels[j] + d
        /\ WithLevel(m, l, d).k = l.k /\ WithLevel(m, l, d).t = l.t
    BY <1>2, <2>4, WithLevelIs
  <2>6. bn2[i] = b + e /\ lv2[i] = o.levels[j] + d
    BY <1>6, <2>2 DEF IsPasted
  <2>7. B2[e + b] = WithLevel(m, l, d)
    BY <2>3, <2>4 DEF IsPasted
  <2>8. e + b = b + e /\ b + e \in 1 .. Z + z
    BY <1>2
  <2>9. V[i].lev = lv2[i] /\ V[i].head = o.tlines[j].head /\ V[i].x = o.tlines[j].x
    BY <1>6 DEF IsTreePasted
  <2>10. B2[bn2[i]] = WithLevel(m, l, d) /\ bn2[i] \in 1 .. Len(B2)
    BY <1>4, <2>6, <2>7, <2>8
  <2>11. lv2[i] > 0 /\ V[i].head = l.t /\ V[i].x = (l.k = "marked")
    BY <2>1, <2>2, <2>3, <2>6, <2>9
  <2> QED
    BY <2>5, <2>6, <2>9, <2>10, <2>11 DEF PastedTells
<1>7. ASSUME NEW j \in r + 1 .. N, i = j + n
      PROVE  PastedTells(m, bn2, lv2, B2, V, i)
  <2>1. j \in 2 .. N
    BY <1>2
  <2>2. PICK b \in 1 .. Z : b = bn[j]
    BY <1>3, <2>1
  <2>3. b \in e + 1 .. Z /\ b + z \in 1 .. Z + z
    <3>1. ~(b <= e)
      BY <1>2, <2>1, <2>2
    <3> QED
      BY <1>2, <3>1
  <2>4. bn2[i] = b + z /\ lv2[i] = lv[j] /\ V[i] = U[j] /\ B2[b + z] = B[b]
    BY <1>1, <1>7, <2>2, <2>3 DEF IsPasted, IsTreePasted
  <2> QED
    BY <1>3, <1>4, <2>1, <2>2, <2>3, <2>4 DEF PastedTells
<1>8. IsInParts(N, n, r, i)
  BY <1>2, <1>4, ThreeParts
<1> QED
  BY <1>5, <1>6, <1>7, <1>8 DEF IsInParts

\* The outline that voom_OopPaste makes tells the headlines.
LEMMA PastedIsTold ==
  ASSUME NEW m \in OneLineModes, NEW bn, NEW lv, NEW B, Told(m, bn, lv, B), NEW U, Shown(U, bn, lv, B),
         IsBare(U), IsRooted(U),
         NEW C, NEW o, NEW r, NEW d, NEW e, CanPaste(m, bn, B, C, o, r, d, e),
         NEW bn2, NEW lv2, NEW B2, NEW V, NEW n \in Nat, NEW z \in Nat,
         n = Len(o.bnodes), z = Len(C),
         IsPasted(m, bn, lv, B, C, o, r, d, e, bn2, lv2, B2, n, z),
         IsTreePasted(U, V, bn, o, r, lv2, n)
  PROVE  Told(m, bn2, lv2, B2) /\ Shown(V, bn2, lv2, B2) /\ IsBare(V) /\ IsRooted(V)
<1>1. PICK N \in Nat, Z \in Nat : N = Len(bn) /\ Z = Len(B) /\ N = Len(lv) /\ N = Len(U) /\ N > 0
  BY DEF Told, Shown
<1>2. /\ r \in 1 .. N /\ e \in 0 .. Z /\ d \in Int
      /\ \A j \in 2 .. N : bn[j] <= e <=> j <= r
  <2>1. r \in 1 .. Len(bn) /\ e = EndIn(bn, B, r) /\ d \in Int
    BY DEF CanPaste
  <2> QED
    BY <1>1, <2>1, EndIs
<1>3. \A i \in 2 .. N + n : PastedTells(m, bn2, lv2, B2, V, i)
  <2>1. Len(bn2) = N + n
    BY <1>1 DEF IsPasted
  <2> QED
    BY <2>1, PastedLines
<1>4. /\ \A i \in 2 .. N : bn[i] \in 1 .. Z
      /\ \A i, j \in 2 .. N : i < j => bn[i] < bn[j]
      /\ \A k \in 1 .. Z : LevelIn(m, B[k]) > 0 => \E i \in 2 .. N : bn[i] = k
      /\ bn[1] = 1 /\ lv[1] = 1
  BY <1>1 DEF Told
<1>5. /\ \A j \in 1 .. n : o.bnodes[j] \in 1 .. z
      /\ \A i, j \in 1 .. n : i < j => o.bnodes[i] < o.bnodes[j]
      /\ \A k \in 1 .. z : LevelIn(m, C[k]) > 0 => \E j \in 1 .. n : o.bnodes[j] = k
      /\ \A j \in 1 .. n : LevelIn(m, C[o.bnodes[j]]) > 0
  BY DEF CanPaste, IsOutline
<1>6. /\ Len(B2) = Z + z /\ B2 \in Seq(LineType)
      /\ \A k \in 1 .. e : B2[k] = B[k]
      /\ \A k \in 1 .. z : B2[e + k] = IF LevelIn(m, C[k]) > 0 THEN WithLevel(m, C[k], d) ELSE C[k]
      /\ \A k \in e + 1 .. Z : B2[k + z] = B[k]
  BY <1>1 DEF IsPasted
<1>7. /\ bn2 \in Seq(Int) /\ Len(bn2) = N + n /\ lv2 \in Seq(Int) /\ Len(lv2) = N + n
      /\ \A i \in 1 .. r : bn2[i] = bn[i]
      /\ \A j \in 1 .. n : bn2[r + j] = o.bnodes[j] + e
      /\ \A i \in r + 1 .. N : bn2[i + n] = bn[i] + z
      /\ lv2[1] = lv[1] /\ bn2[1] = bn[1]
  <2>1. 1 \in 1 .. r
    BY <1>2
  <2> QED
    BY <1>1, <2>1 DEF IsPasted
<1>8. ASSUME NEW i \in 2 .. N + n, NEW j \in 2 .. N + n, i < j
      PROVE  bn2[i] < bn2[j]
  <2> DEFINE Part(x) == IF x <= r THEN 1 ELSE IF x <= r + n THEN 2 ELSE 3
  <2>1. ASSUME NEW x \in 2 .. N + n, x <= r
        PROVE  x \in 2 .. N /\ bn2[x] = bn[x] /\ bn[x] \in 1 .. Z /\ bn[x] <= e
    <3>1. x \in 2 .. N /\ x \in 1 .. r
      BY <1>2, <2>1
    <3> QED
      BY <1>2, <1>4, <1>7, <2>1, <3>1
  <2>2. ASSUME NEW x \in 2 .. N + n, x > r, x <= r + n
        PROVE  /\ x - r \in 1 .. n /\ bn2[x] = o.bnodes[x - r] + e
               /\ o.bnodes[x - r] \in 1 .. z
    <3>1. x - r \in 1 .. n /\ r + (x - r) = x
      BY <1>2, <2>2
    <3> QED
      BY <1>5, <1>7, <3>1
  <2>3. ASSUME NEW x \in 2 .. N + n, x > r + n
        PROVE  /\ x - n \in 2 .. N /\ bn2[x] = bn[x - n] + z
               /\ bn[x - n] \in 1 .. Z /\ bn[x - n] > e
    <3>1. x - n \in r + 1 .. N /\ (x - n) + n = x /\ x - n \in 2 .. N /\ ~(x - n <= r)
      BY <1>2, <2>3, SMTT(30)
    <3>2. bn[x - n] \in 1 .. Z /\ ~(bn[x - n] <= e)
      BY <1>2, <1>4, <3>1
    <3>3. bn2[x] = bn[x - n] + z
      BY <1>7, <3>1
    <3> QED
      BY <1>2, <3>1, <3>2, <3>3, SMTT(30)
  <2>4. CASE i <= r /\ j <= r
    BY <1>4, <1>8, <2>1, <2>4
  <2>5. CASE i <= r /\ j > r /\ j <= r + n
    <3>1. bn2[i] \in Int /\ bn2[i] <= e
      BY <2>1, <2>5
    <3>2. PICK y \in 1 .. z : bn2[j] = y + e
      BY <2>2, <2>5
    <3> QED
      BY <1>2, <3>1, <3>2
  <2>6. CASE i <= r /\ j > r + n
    <3>1. bn2[i] \in Int /\ bn2[i] <= e
      BY <2>1, <2>6
    <3>2. PICK y \in 1 .. Z : bn2[j] = y + z /\ y > e
      BY <2>3, <2>6
    <3> QED
      BY <1>2, <3>1, <3>2
  <2>7. CASE i > r /\ i <= r + n /\ j > r /\ j <= r + n
    <3>1. PICK x \in 1 .. n : x = i - r /\ bn2[i] = o.bnodes[x] + e
      BY <2>2, <2>7
    <3>2. PICK y \in 1 .. n : y = j - r /\ bn2[j] = o.bnodes[y] + e
      BY <2>2, <2>7
    <3>3. x < y
      BY <1>2, <1>8, <3>1, <3>2
    <3>4. o.bnodes[x] < o.bnodes[y] /\ o.bnodes[x] \in Int /\ o.bnodes[y] \in Int
      BY <1>5, <3>3
    <3>5. PICK v \in Int, w \in Int : v = o.bnodes[x] /\ w = o.bnodes[y] /\ v < w
      BY <3>4
    <3>6. PICK a \in Int : a = e
      BY <1>2
    <3>7. v + a < w + a
      BY <3>5, SMTT(30)
    <3>8. bn2[i] = v + a /\ bn2[j] = w + a
      BY <3>1, <3>2, <3>5, <3>6
    <3> QED
      BY <3>7, <3>8
  <2>8. CASE i > r /\ i <= r + n /\ j > r + n
    <3>1. PICK x \in 1 .. z : bn2[i] = x + e
      BY <2>2, <2>8
    <3>2. PICK y \in 1 .. Z : bn2[j] = y + z /\ y > e
      BY <2>3, <2>8
    <3> QED
      BY <1>2, <3>1, <3>2
  <2>9. CASE i > r + n /\ j > r + n
    <3>1. PICK x \in 2 .. N : x = i - n /\ bn2[i] = bn[x] + z
      BY <2>3, <2>9
    <3>2. PICK y \in 2 .. N : y = j - n /\ bn2[j] = bn[y] + z
      BY <2>3, <2>9
    <3>3. x < y
      BY <1>2, <1>8, <3>1, <3>2
    <3>4. bn[x] < bn[y] /\ bn[x] \in Int /\ bn[y] \in Int
      BY <1>4, <3>3
    <3>5. PICK v \in Int, w \in Int : v = bn[x] /\ w = bn[y] /\ v < w
      BY <3>4
    <3>6. v + z < w + z
      BY <1>2, <3>5
    <3>7. bn2[i] = v + z /\ bn2[j] = w + z
      BY <3>1, <3>2, <3>5
    <3> QED
      BY <3>6, <3>7
  <2> QED
    BY <1>2, <1>8, <2>4, <2>5, <2>6, <2>7, <2>8, <2>9
<1>9. ASSUME NEW k \in 1 .. Z + z, LevelIn(m, B2[k]) > 0
      PROVE  \E i \in 2 .. N + n : bn2[i] = k
  <2>1. CASE k <= e
    <3>1. k \in 1 .. e /\ k \in 1 .. Z
      BY <1>2, <2>1
    <3>2. LevelIn(m, B[k]) > 0
      BY <1>6, <1>9, <3>1
    <3>3. PICK i \in 2 .. N : bn[i] = k
      BY <1>4, <3>1, <3>2
    <3>4. i <= r
      BY <1>2, <2>1, <3>3
    <3>5. i \in 1 .. r /\ i \in 2 .. N + n
      BY <3>4
    <3> QED
      BY <1>7, <3>3, <3>5
  <2>2. CASE k > e /\ k <= e + z
    <3>1. PICK x \in 1 .. z : k = e + x
      <4>1. k - e \in 1 .. z /\ k = e + (k - e)
        BY <1>2, <2>2
      <4> QED
        BY <4>1
    <3>2. LevelIn(m, C[x]) > 0
      <4>1. CASE ~(LevelIn(m, C[x]) > 0)
        <5>1. B2[k] = C[x]
          BY <1>6, <3>1, <4>1
        <5> QED
          BY <1>9, <4>1, <5>1
      <4> QED
        BY <4>1
    <3>3. PICK j \in 1 .. n : o.bnodes[j] = x
      BY <1>5, <3>2
    <3>4. bn2[r + j] = x + e
      BY <1>7, <3>3
    <3>5. x + e = k /\ r + j \in 2 .. N + n
      BY <1>1, <1>2, <3>1
    <3>6. bn2[r + j] = k
      BY <3>4, <3>5
    <3> QED
      BY <3>5, <3>6, Zenon
  <2>3. CASE k > e + z
    <3>1. PICK x \in e + 1 .. Z : k = x + z
      <4>1. k - z \in e + 1 .. Z /\ k = (k - z) + z
        BY <1>2, <2>3
      <4> QED
        BY <4>1
    <3>2. x \in 1 .. Z /\ LevelIn(m, B[x]) > 0
      BY <1>2, <1>6, <1>9, <3>1
    <3>3. PICK i \in 2 .. N : bn[i] = x
      BY <1>4, <3>2
    <3>4. ~(i <= r)
      BY <1>2, <3>1, <3>3
    <3>5. i \in r + 1 .. N /\ i + n \in 2 .. N + n
      BY <1>2, <3>4
    <3>6. bn2[i + n] = k
      BY <1>7, <3>1, <3>3, <3>5
    <3> QED
      BY <3>5, <3>6
  <2> QED
    BY <1>2, <2>1, <2>2, <2>3
<1>10. Told(m, bn2, lv2, B2)
  <2>1. \A i \in 2 .. N + n : bn2[i] \in 1 .. Len(B2) /\ lv2[i] > 0 /\ LevelIn(m, B2[bn2[i]]) = lv2[i]
    BY <1>3 DEF PastedTells
  <2>2. B2 # <<>> /\ bn2 # <<>>
    <3>1. Z > 0
      BY <1>1 DEF Told
    <3>2. Len(B2) > 0 /\ Len(bn2) > 0
      BY <1>1, <1>6, <1>7, <3>1
    <3> QED
      BY <3>2
  <2> QED
    BY <1>4, <1>6, <1>7, <1>8, <1>9, <2>1, <2>2 DEF Told
<1>11. V \in Seq(TreeLineType) /\ Len(V) = N + n
  BY <1>1 DEF IsTreePasted
<1>12. Shown(V, bn2, lv2, B2)
  BY <1>3, <1>7, <1>11 DEF PastedTells, Shown
<1>13. V[1] = U[1] /\ \A i \in 2 .. N + n : ~V[i].sel
  <2>1. 1 \in 1 .. r
    BY <1>2
  <2>2. V[1] = U[1]
    BY <2>1 DEF IsTreePasted
  <2>3. ASSUME NEW i \in 2 .. N + n
        PROVE  ~V[i].sel
    <3>1. CASE i \in 2 .. r
      <4>1. i \in 1 .. r /\ i \in 1 .. N
        BY <1>2, <3>1
      <4> QED
        BY <1>1, <4>1 DEF IsTreePasted, IsBare
    <3>2. ASSUME NEW j \in 1 .. n, i = r + j
          PROVE  ~V[i].sel
      BY <3>2 DEF IsTreePasted
    <3>3. ASSUME NEW j \in r + 1 .. N, i = j + n
          PROVE  ~V[i].sel
      <4>1. V[i] = U[j] /\ j \in 1 .. N
        BY <1>1, <1>2, <3>3 DEF IsTreePasted
      <4> QED
        BY <1>1, <4>1 DEF IsBare
    <3>4. IsInParts(N, n, r, i)
      BY <1>2, ThreeParts
    <3> QED
      BY <3>1, <3>2, <3>3, <3>4 DEF IsInParts
  <2> QED
    BY <2>2, <2>3
<1>14. IsBare(V)
  <2>1. ~V[1].sel
    <3>1. 1 \in 1 .. Len(U)
      BY <1>1
    <3> QED
      BY <1>13, <3>1 DEF IsBare
  <2>2. \A i \in 1 .. N + n : i = 1 \/ i \in 2 .. N + n
    OBVIOUS
  <2>3. \A i \in 1 .. Len(V) : ~V[i].sel
    BY <1>11, <1>13, <2>1, <2>2, Zenon
  <2> QED
    BY <1>11, <2>3 DEF IsBare
<1> QED
  BY <1>10, <1>12, <1>13, <1>14 DEF IsRooted

PastedLinesOf(m, C, o, d) ==
  LET heads == {o.bnodes[j] : j \in 1 .. Len(o.bnodes)}
  IN  [k \in 1 .. Len(C) |-> IF k \in heads /\ d # 0 THEN ChangeLev(m, C[k], d) ELSE C[k]]

\* The lines of the clipboard are pasted with their new levels.
LEMMA ClipIs ==
  ASSUME NEW m \in OneLineModes, NEW bn, NEW B, NEW C, NEW o, NEW r, NEW d, NEW e,
         CanPaste(m, bn, B, C, o, r, d, e), NEW t, t = PastedLinesOf(m, C, o, d)
  PROVE  IsClip(m, C, d, t)
<1> DEFINE heads == {o.bnodes[j] : j \in 1 .. Len(o.bnodes)}
<1>1. PICK z \in Nat, n \in Nat : z = Len(C) /\ n = Len(o.bnodes)
  BY DEF CanPaste, IsOutline
<1>2. C \in Seq(LineType) /\ d \in Int
  BY DEF CanPaste
<1>3. \A j \in 1 .. n :
        /\ o.bnodes[j] \in 1 .. z
        /\ o.levels[j] = LevelIn(m, C[o.bnodes[j]]) /\ o.levels[j] > 0 /\ o.levels[j] + d > 0
  BY <1>1 DEF CanPaste, IsOutline
<1>4. \A k \in 1 .. z : LevelIn(m, C[k]) > 0 => \E j \in 1 .. n : o.bnodes[j] = k
  BY <1>1 DEF CanPaste, IsOutline
<1>5. \A k \in 1 .. z : k \in heads <=> LevelIn(m, C[k]) > 0
  BY <1>1, <1>3, <1>4, SMTT(30)
<1>6. ASSUME NEW k \in 1 .. z
      PROVE  /\ t[k] = IF LevelIn(m, C[k]) > 0 THEN WithLevel(m, C[k], d) ELSE C[k]
             /\ t[k] \in LineType
  <2>1. C[k] \in LineType
    BY <1>1, <1>2, ElementOfSeq
  <2>2. t[k] = IF k \in heads /\ d # 0 THEN ChangeLev(m, C[k], d) ELSE C[k]
    BY <1>1 DEF PastedLinesOf
  <2>3. CASE k \notin heads
    BY <1>5, <2>1, <2>2, <2>3
  <2>4. CASE k \in heads
    <3>1. LevelIn(m, C[k]) > 0 /\ LevelIn(m, C[k]) + d > 0
      <4>1. PICK j \in 1 .. n : o.bnodes[j] = k
        BY <1>1, <2>4
      <4> QED
        BY <1>3, <4>1
    <3>2. WithLevel(m, C[k], d) \in LineType
      BY <1>2, <2>1, <3>1, WithLevelIs
    <3>3. t[k] = WithLevel(m, C[k], d)
      BY <2>2, <2>4 DEF WithLevel
    <3> QED
      BY <3>1, <3>2, <3>3
  <2> QED
    BY <2>3, <2>4
<1>7. t \in [1 .. z -> LineType]
  <2> DEFINE f(k) == IF k \in heads /\ d # 0 THEN ChangeLev(m, C[k], d) ELSE C[k]
  <2>1. t = [k \in 1 .. z |-> f(k)]
    BY <1>1, Zenon DEF PastedLinesOf
  <2>2. \A k \in 1 .. z : f(k) \in LineType
    BY <1>6, <2>1
  <2> HIDE DEF f
  <2> QED
    BY <2>1, <2>2
<1>8. t \in Seq(LineType) /\ Len(t) = z
  BY <1>7, FunctionIsSeq, Zenon
<1> QED
  BY <1>1, <1>6, <1>8 DEF IsClip

\* The patches of voom_OopPaste, line by line.
LEMMA PasteIs ==
  ASSUME NEW m \in OneLineModes, NEW bn, NEW lv, NEW B, Told(m, bn, lv, B),
         NEW C, NEW o, NEW r, NEW d, NEW e, CanPaste(m, bn, B, C, o, r, d, e),
         NEW n \in Nat, NEW z \in Nat, n = Len(o.bnodes), z = Len(C),
         NEW t, IsClip(m, C, d, t),
         NEW B2, B2 = PutAfter(B, e, t),
         NEW bn2, bn2 = PutAfter(Shift(bn, r + 1, Len(bn), z), r, Shift(o.bnodes, 1, n, e)),
         NEW lv2, lv2 = PutAfter(lv, r, Shift(o.levels, 1, n, d))
  PROVE  IsPasted(m, bn, lv, B, C, o, r, d, e, bn2, lv2, B2, n, z)
<1>1. PICK N \in Nat, Z \in Nat : N = Len(bn) /\ Z = Len(B) /\ N = Len(lv)
  BY DEF Told
<1>2. r \in 1 .. N /\ e \in 0 .. Z /\ d \in Int /\ r \in 0 .. N
  <2>1. r \in 1 .. Len(bn) /\ e = EndIn(bn, B, r) /\ d \in Int
    BY DEF CanPaste
  <2>2. e \in 0 .. Len(B)
    BY <2>1, EndIs
  <2> QED
    BY <1>1, <2>1, <2>2
<1>3. /\ bn \in Seq(Int) /\ lv \in Seq(Int) /\ B \in Seq(LineType)
      /\ o.bnodes \in Seq(Int) /\ o.levels \in Seq(Int) /\ Len(o.levels) = n
  BY DEF Told, CanPaste, IsOutline
<1>4. IsJoined(LineType, B2, B, e, t, z)
  <2>1. t \in Seq(LineType) /\ z = Len(t) /\ e \in 0 .. Len(B)
    BY <1>1, <1>2 DEF IsClip
  <2> QED
    BY <1>3, <2>1, PutIsJoined
<1>5. \A k \in 1 .. z : t[k] = IF LevelIn(m, C[k]) > 0 THEN WithLevel(m, C[k], d) ELSE C[k]
  BY DEF IsClip
<1> DEFINE s == Shift(bn, r + 1, Len(bn), z)
           u == Shift(o.bnodes, 1, n, e)
           v == Shift(o.levels, 1, n, d)
<1>6. IsShifted(s, bn, r + 1, Len(bn), z) /\ IsShifted(u, o.bnodes, 1, n, e)
      /\ IsShifted(v, o.levels, 1, n, d)
  <2>1. r + 1 \in Int /\ Len(bn) \in Int /\ z \in Int /\ 1 \in Int /\ n \in Int /\ e \in Int
    BY <1>1, <1>2
  <2> QED
    BY <1>2, <1>3, <2>1, ShiftIs, Zenon
<1> HIDE DEF s, u, v
<1>7. /\ s \in Seq(Int) /\ Len(s) = N
      /\ \A i \in 1 .. r : s[i] = bn[i]
      /\ \A i \in r + 1 .. N : s[i] = bn[i] + z
  <2>1. ASSUME NEW i \in 1 .. r
        PROVE  s[i] = bn[i]
    <3>1. i \in 1 .. Len(bn) /\ i \notin r + 1 .. Len(bn)
      BY <1>1, <1>2
    <3> QED
      BY <1>6, <3>1 DEF IsShifted
  <2>2. ASSUME NEW i \in r + 1 .. N
        PROVE  s[i] = bn[i] + z
    <3>1. i \in 1 .. Len(bn) /\ i \in r + 1 .. Len(bn)
      BY <1>1, <1>2
    <3> QED
      BY <1>6, <3>1 DEF IsShifted
  <2> QED
    BY <1>1, <1>6, <2>1, <2>2 DEF IsShifted
<1>8. /\ u \in Seq(Int) /\ Len(u) = n /\ \A j \in 1 .. n : u[j] = o.bnodes[j] + e
      /\ v \in Seq(Int) /\ Len(v) = n /\ \A j \in 1 .. n : v[j] = o.levels[j] + d
  BY <1>3, <1>6 DEF IsShifted
<1>9. IsJoined(Int, bn2, s, r, u, n)
  <2>1. bn2 = PutAfter(s, r, u) /\ r \in 0 .. Len(s) /\ n = Len(u)
    BY <1>2, <1>7, <1>8 DEF s, u
  <2> QED
    BY <1>7, <1>8, <2>1, PutIsJoined, Zenon
<1>10. IsJoined(Int, lv2, lv, r, v, n)
  <2>1. lv2 = PutAfter(lv, r, v) /\ r \in 0 .. Len(lv) /\ n = Len(v)
    BY <1>1, <1>2, <1>8 DEF v
  <2> QED
    BY <1>3, <1>8, <2>1, PutIsJoined, Zenon
<1>11. /\ B2 \in Seq(LineType) /\ Len(B2) = Len(B) + z
       /\ \A k \in 1 .. e : B2[k] = B[k]
       /\ \A k \in 1 .. z : B2[e + k] = IF LevelIn(m, C[k]) > 0 THEN WithLevel(m, C[k], d) ELSE C[k]
       /\ \A k \in e + 1 .. Len(B) : B2[k + z] = B[k]
  BY <1>4, <1>5 DEF IsJoined
<1>12. /\ bn2 \in Seq(Int) /\ Len(bn2) = Len(bn) + n
       /\ \A i \in 1 .. r : bn2[i] = bn[i]
       /\ \A j \in 1 .. n : bn2[r + j] = o.bnodes[j] + e
       /\ \A i \in r + 1 .. Len(bn) : bn2[i + n] = bn[i] + z
  BY <1>1, <1>7, <1>8, <1>9 DEF IsJoined
<1>13. /\ lv2 \in Seq(Int) /\ Len(lv2) = Len(bn) + n
       /\ \A i \in 1 .. r : lv2[i] = lv[i]
       /\ \A j \in 1 .. n : lv2[r + j] = o.levels[j] + d
       /\ \A i \in r + 1 .. Len(bn) : lv2[i + n] = lv[i]
  BY <1>1, <1>8, <1>10 DEF IsJoined
<1> QED
  BY <1>11, <1>12, <1>13 DEF IsPasted

LEMMA LastOfRegion ==
  ASSUME NEW r \in Int, NEW n \in Int, NEW N \in Int, r <= N
  PROVE  r + 1 + (n - 1) <= N + n
OBVIOUS

\* The lines of the Tree that voom_OopPaste writes.
LEMMA TreePasteIs ==
  ASSUME NEW m \in OneLineModes, NEW bn, NEW lv, NEW B, Told(m, bn, lv, B),
         NEW U, Shown(U, bn, lv, B), IsBare(U),
         NEW C, NEW o, NEW r, NEW d, NEW e, CanPaste(m, bn, B, C, o, r, d, e),
         NEW bn2, NEW lv2, NEW B2, NEW n \in Nat, NEW z \in Nat,
         n = Len(o.bnodes), z = Len(C),
         IsPasted(m, bn, lv, B, C, o, r, d, e, bn2, lv2, B2, n, z),
         NEW V, V = PutAfter(U, r, RegionLines(d, o.tlines, lv2, r + 1))
  PROVE  IsTreePasted(U, V, bn, o, r, lv2, n)
<1> DEFINE w == o.tlines
           q == RegionLines(d, w, lv2, r + 1)
<1>1. PICK N \in Nat : N = Len(bn) /\ N = Len(lv) /\ N = Len(U)
  BY DEF Told, Shown
<1>2. r \in 1 .. N /\ d \in Int
  BY <1>1 DEF CanPaste
<1>3. IsBare(w) /\ w \in Seq(TreeLineType) /\ Len(w) = n /\ n > 0
  BY DEF CanPaste, IsOutline, IsBare
<1>4. \A j \in 1 .. n : w[j].lev = o.levels[j] /\ o.levels[j] \in Int
  BY SMTT(30) DEF CanPaste, IsOutline
<1>5. lv2 \in Seq(Int) /\ Len(lv2) = N + n /\ \A j \in 1 .. n : lv2[r + j] = o.levels[j] + d
  BY <1>1 DEF IsPasted
<1>6. U \in Seq(TreeLineType)
  BY DEF IsBare
<1> HIDE DEF w
<1>7. Slice(w, 1, n) = w
  <2>1. Slice(w, 1, n) \in Seq(TreeLineType) /\ Len(Slice(w, 1, n)) = n - 1 + 1
        /\ \A i \in 1 .. n - 1 + 1 : Slice(w, 1, n)[i] = w[1 + i - 1]
    <3>1. 1 \in 1 .. Len(w) /\ n \in 1 .. Len(w)
      BY <1>3
    <3> QED
      BY <1>3, <3>1, SliceIs, Zenon
  <2> DEFINE sl == Slice(w, 1, n)
  <2> HIDE DEF sl
  <2>2. sl \in Seq(TreeLineType) /\ Len(sl) = n /\ \A i \in 1 .. n : sl[i] = w[i]
    <3>1. n - 1 + 1 = n /\ \A i \in 1 .. n : 1 + i - 1 = i
      OBVIOUS
    <3> QED
      BY <2>1, <3>1 DEF sl
  <2> QED
    BY <1>3, <2>2, SeqEqual DEF sl
<1>8. IsTreeRegion(q, w, 1, n, lv2, r + 1)
  <2>1. /\ 1 \in 1 .. Len(w) /\ n \in 1 .. Len(w) /\ r + 1 \in 1 .. Len(lv2)
        /\ r + 1 + (n - 1) <= Len(lv2)
    <3>1. 1 \in 1 .. n /\ n \in 1 .. n
      BY <1>3
    <3>2. r \in Int /\ r >= 1 /\ r <= N /\ n >= 1
      BY <1>2, <1>3
    <3>3. r + 1 \in 1 .. N + n
      BY <3>2
    <3>4. r + 1 + (n - 1) <= N + n
      <4>1. N \in Int /\ n \in Int
        OBVIOUS
      <4> QED
        BY <3>2, <4>1, LastOfRegion, Zenon
    <3> QED
      BY <1>3, <1>5, <3>1, <3>3, <3>4
  <2>2. ASSUME d = 0, NEW k \in 1 .. n - 1 + 1
        PROVE  w[1 + k - 1].lev = lv2[r + 1 + k - 1]
    <3>1. k \in 1 .. n /\ 1 + k - 1 = k /\ r + 1 + k - 1 = r + k
      BY <1>2
    <3>2. w[k].lev = o.levels[k] /\ lv2[r + k] = o.levels[k] + 0 /\ o.levels[k] \in Int
      BY <1>4, <1>5, <2>2, <3>1
    <3> QED
      BY <3>1, <3>2
  <2>3. IsTreeRegion(RegionLines(d, Slice(w, 1, n), lv2, r + 1), w, 1, n, lv2, r + 1)
    BY <1>2, <1>3, <1>5, <2>1, <2>2, RegionLinesIs
  <2> QED
    BY <1>7, <2>3
<1> HIDE DEF q
<1>9. /\ q \in Seq(TreeLineType) /\ Len(q) = n
      /\ \A k \in 1 .. n : /\ ~q[k].sel /\ q[k].lev = lv2[r + k]
                           /\ q[k].head = w[k].head /\ q[k].x = w[k].x
  <2>1. n - 1 + 1 = n /\ \A k \in 1 .. n : r + 1 + k - 1 = r + k /\ 1 + k - 1 = k
    BY <1>2
  <2> QED
    BY <1>8, <2>1 DEF IsTreeRegion
<1>10. IsJoined(TreeLineType, V, U, r, q, n)
  <2>1. V = PutAfter(U, r, q) /\ r \in 0 .. Len(U) /\ n = Len(q)
    BY <1>1, <1>2, <1>9 DEF q, w
  <2> QED
    BY <1>6, <1>9, <2>1, PutIsJoined, Zenon
<1> QED
  BY <1>1, <1>9, <1>10 DEF IsJoined, IsTreePasted, w

-----------------------------------------------------------------------------
(* The rest of the actions.                                                *)

\* A Tree without its mark.
LEMMA UnmarkedTells ==
  ASSUME NEW m, NEW B, NEW bn, NEW lv, NEW T, NEW sn, Tells(m, B, bn, lv, T, sn),
         NEW U, U = Unmarked(T, sn)
  PROVE  /\ m \in OneLineModes /\ Told(m, bn, lv, B) /\ Shown(U, bn, lv, B)
         /\ IsBare(U) /\ IsRooted(U) /\ Len(U) = Len(T) /\ Len(U) = Len(bn) /\ Len(U) \in Nat
<1>1. IsMarked(T, sn) /\ Shown(T, bn, lv, B) /\ IsRooted(T) /\ m \in OneLineModes /\ Told(m, bn, lv, B)
  BY DEF Tells
<1>2. IsBare(U) /\ SameLines(U, T)
  BY <1>1, UnmarkedIs
<1>3. Shown(U, bn, lv, B)
  BY <1>1, <1>2, SameLinesAreShown DEF IsBare
<1>4. Len(U) = Len(T) /\ Len(U) = Len(bn) /\ Len(U) \in Nat /\ Len(U) > 0
  BY <1>1, <1>2, <1>3 DEF SameLines, Shown, IsBare, IsMarked, Told
<1>5. IsRooted(U)
  <2>1. 1 \in 1 .. Len(T)
    BY <1>4
  <2> QED
    BY <1>1, <1>2, <2>1 DEF SameLines, IsRooted
<1> QED
  BY <1>1, <1>2, <1>3, <1>4, <1>5

\* Moving the mark.
LEMMA SelectTells ==
  ASSUME NEW m, NEW B, NEW bn, NEW lv, NEW T, NEW sn, Tells(m, B, bn, lv, T, sn),
         NEW sn2 \in 1 .. Len(bn)
  PROVE  Tells(m, B, bn, lv, Marked(Unmarked(T, sn), sn2), sn2)
<1> DEFINE U == Unmarked(T, sn)
<1>1. /\ m \in OneLineModes /\ Told(m, bn, lv, B) /\ Shown(U, bn, lv, B)
      /\ IsBare(U) /\ IsRooted(U) /\ Len(U) = Len(bn)
  BY UnmarkedTells
<1> HIDE DEF U
<1>2. sn2 \in 1 .. Len(U)
  BY <1>1
<1> QED
  BY <1>1, <1>2, MarkedTells, Zenon DEF U

\* In either order.
LEMMA MarksCommute ==
  ASSUME NEW T \in Seq(TreeLineType), NEW a \in 1 .. Len(T), NEW b \in 1 .. Len(T), a # b
  PROVE  Unmarked(Marked(T, a), b) = Marked(Unmarked(T, b), a)
<1>1. /\ Marked(T, a) = [T EXCEPT ![a] = WithMark(T[a], TRUE)]
      /\ Unmarked(T, b) = [T EXCEPT ![b] = WithMark(T[b], FALSE)]
  BY DEF Marked, Unmarked, WithMark
<1> DEFINE P == Marked(T, a)
           Q == Unmarked(T, b)
<1>2. P[b] = T[b] /\ Q[a] = T[a]
  <2>1. T[a] \in TreeLineType /\ T[b] \in TreeLineType
    OBVIOUS
  <2>2. PICK k \in TreeLineType, l \in TreeLineType : k = WithMark(T[a], TRUE) /\ l = WithMark(T[b], FALSE)
    BY <2>1, WithMarkIs
  <2>3. P = [T EXCEPT ![a] = k] /\ Q = [T EXCEPT ![b] = l]
    BY <1>1, <2>2
  <2> QED
    BY <2>3, ExceptSeq
<1>3. /\ Unmarked(P, b) = [P EXCEPT ![b] = WithMark(P[b], FALSE)]
      /\ Marked(Q, a) = [Q EXCEPT ![a] = WithMark(Q[a], TRUE)]
  BY DEF Marked, Unmarked, WithMark
<1> HIDE DEF P, Q
<1>4. Unmarked(P, b) = [[T EXCEPT ![a] = WithMark(T[a], TRUE)] EXCEPT ![b] = WithMark(T[b], FALSE)]
  BY <1>1, <1>2, <1>3 DEF P
<1>5. Marked(Q, a) = [[T EXCEPT ![b] = WithMark(T[b], FALSE)] EXCEPT ![a] = WithMark(T[a], TRUE)]
  BY <1>1, <1>2, <1>3 DEF Q
<1> QED
  BY <1>4, <1>5 DEF P, Q

\* The line of the Tree for a line of the Body.
LEMMA NodeAtIs ==
  ASSUME NEW m, NEW bn, NEW lv, NEW B, Told(m, bn, lv, B), NEW blnr \in Int, blnr > 0
  PROVE  NodeAt(bn, blnr) \in 1 .. Len(bn)
<1> DEFINE S == {i \in 1 .. Len(bn) : bn[i] <= blnr}
<1>1. PICK N \in Nat : N = Len(bn) /\ N > 0 /\ bn[1] = 1
  BY DEF Told
<1>2. IsFiniteSet(1 .. N) /\ Cardinality(1 .. N) = N
  BY FS_Interval
<1>3. S \subseteq 1 .. N /\ 1 \in S
  BY <1>1
<1> HIDE DEF S
<1>4. IsFiniteSet(S) /\ Cardinality(S) <= Cardinality(1 .. N)
  BY <1>2, <1>3, FS_Subset
<1>5. Cardinality(S) \in Nat /\ (Cardinality(S) = 0 <=> S = {})
  BY <1>4, FS_CardinalityType, FS_EmptySet
<1>6. Cardinality(S) \in 1 .. N
  BY <1>2, <1>3, <1>4, <1>5
<1> QED
  BY <1>1, <1>6 DEF NodeAt, S

LEMMA NewLinesAre ==
  ASSUME NEW m \in OneLineModes, NEW level \in Int, NEW b, NEW ln, NEW B, NEW bn, NEW st
  PROVE  NewLines(m, level, b, ln, B, bn, st) \in Seq(LineType)
<1> DEFINE w == NewLines(m, level, b, ln, B, bn, st)
<1>1. \A n, c \in Int : <<Line("head", n, c, NewHeadline), Blank>> \in Seq(LineType)
  <2>1. ASSUME NEW n \in Int, NEW c \in Int
        PROVE  Line("head", n, c, NewHeadline) \in LineType
    <3>1. "head" \in Kinds
      BY DEF Kinds
    <3> QED
      BY <3>1 DEF Line, LineType, NewHeadline
  <2> QED
    BY <2>1, BlankIs
<1>2. CASE m \in {"", "fmr"}
  <2>1. w = newHeadline(level)
    <3>1. CASE m = ""
      BY <3>1, Zenon DEF NewLines
    <3>2. CASE m = "fmr"
      BY <3>2, Zenon DEF NewLines
    <3> QED
      BY <1>2, <3>1, <3>2
  <2> QED
    BY <1>1, <2>1 DEF newHeadline
<1>3. CASE m = "fmr1"
  <2>1. w = fmr1_newHeadline(level)
    BY <1>3, Zenon DEF NewLines
  <2> QED
    BY <1>1, <2>1 DEF newHeadline, fmr1_newHeadline
<1>4. CASE m = "fmr2"
  <2>1. w = fmr2_newHeadline(level)
    BY <1>4, Zenon DEF NewLines
  <2> QED
    BY <1>1, <2>1 DEF newHeadline, fmr2_newHeadline
<1>5. CASE m = "hashes"
  <2>1. w = hashes_newHeadline(level)
    BY <1>5, Zenon DEF NewLines
  <2> QED
    BY <1>1, <2>1 DEF hashes_newHeadline
<1>6. CASE m = "org"
  <2>1. w = org_newHeadline(level)
    BY <1>6, Zenon DEF NewLines
  <2> QED
    BY <1>1, <2>1 DEF org_newHeadline
<1>7. CASE m = "cwiki"
  <2>1. w = cwiki_newHeadline(level)
    BY <1>7, Zenon DEF NewLines
  <2> QED
    BY <1>1, <2>1 DEF cwiki_newHeadline
<1>8. CASE m = "wiki"
  <2>1. w = wiki_newHeadline(level)
    BY <1>8, Zenon DEF NewLines
  <2> QED
    BY <1>1, <2>1 DEF wiki_newHeadline
<1>9. CASE m = "vimwiki"
  <2>1. w = vimwiki_newHeadline(level)
    BY <1>9, Zenon DEF NewLines
  <2> QED
    BY <1>1, <2>1 DEF vimwiki_newHeadline
<1>10. CASE m = "html"
  <2>1. w = html_newHeadline(level)
    BY <1>10, Zenon DEF NewLines
  <2> QED
    BY <1>1, <2>1 DEF html_newHeadline
<1>11. \/ m \in {"", "fmr"} \/ m = "fmr1" \/ m = "fmr2" \/ m = "hashes" \/ m = "org"
       \/ m = "cwiki" \/ m = "wiki" \/ m = "vimwiki" \/ m = "html"
  BY DEF OneLineModes, MTYPE0
<1> QED
  BY <1>2, <1>3, <1>4, <1>5, <1>6, <1>7, <1>8, <1>9, <1>10, <1>11, Zenon

\* voom_OopPaste keeps the outline.
LEMMA PasteTells ==
  ASSUME OutlineTells, clip \in Seq(LineType), NEW ln0 \in 1 .. Len(levels), NEW folded \in BOOLEAN,
         voom_OopPaste(ln0, folded)
  PROVE  OutlineTells'
<1> DEFINE p == OutlineOf(mode, clip)
           n == Len(p.bnodes)
           child == nodeHasChildren(levels, ln0)
           lev == IF ln0 = 1 THEN (IF Len(levels) > 1 THEN levels[2] ELSE 1)
                  ELSE IF child /\ ~folded THEN levels[ln0] + 1 ELSE levels[ln0]
           r == IF child /\ folded THEN BranchEnd(levels, ln0) ELSE ln0
           d == lev - p.levels[1]
           heads == {p.bnodes[i] : i \in 1 .. n}
           t == [k \in 1 .. Len(clip) |-> IF k \in heads /\ d # 0
                                         THEN ChangeLev(mode, clip[k], d) ELSE clip[k]]
           e == EndOf(r)
           U == Unmarked(Tree, snLn)
           B2 == PutAfter(Body, e, t)
           bn2 == PutAfter(Shift(bnodes, r + 1, Len(bnodes), Len(clip)), r, Shift(p.bnodes, 1, n, e))
           lv2 == PutAfter(levels, r, Shift(p.levels, 1, n, d))
           V == PutAfter(U, r, RegionLines(d, p.tlines, lv2, r + 1))
           S0 == [Body |-> B2, bnodes |-> bn2, levels |-> lv2, ok |-> TRUE, style |-> style]
<1>1. Tells(mode, Body, bnodes, levels, Tree, snLn) /\ snLn = vimSnLn
  BY DEF OutlineTells
<1>2. /\ mode \in OneLineModes /\ Told(mode, bnodes, levels, Body) /\ Shown(U, bnodes, levels, Body)
      /\ IsBare(U) /\ IsRooted(U)
  BY <1>1, UnmarkedTells, ZenonT(40)
<1>3. /\ clip # <<>> /\ ClipIsOutline(p)
      /\ \E S \in {Hook(S0, "paste", d, e + 1, r + 1, e + Len(clip), r + n, 0, 0)} :
           Done(S, PutAfter(U, r, RegionLines(d, p.tlines, S.levels, r + 1)), r + 1)
  BY DEF voom_OopPaste
<1>4. IsOutline(mode, clip, p)
  BY <1>2, ParseIsOutline, Zenon
<1> HIDE DEF p
<1>5. Done(S0, V, r + 1)
  <2> HIDE DEF n, d, e, B2, bn2, lv2, r, U
  <2>1. PICK S \in {Hook(S0, "paste", d, e + 1, r + 1, e + Len(clip), r + n, 0, 0)} :
          Done(S, PutAfter(U, r, RegionLines(d, p.tlines, S.levels, r + 1)), r + 1)
    BY <1>3
  <2>2. S = S0
    BY <1>2, <2>1, HookIs, SMT
  <2>3. S0.levels = lv2
    OBVIOUS
  <2> QED
    BY <2>1, <2>2, <2>3, Zenon
<1>6. PICK N \in Nat : N = Len(levels) /\ N = Len(bnodes) /\ ln0 \in 1 .. N
  BY <1>2 DEF Told
<1>7. levels \in Seq(Positive) /\ \A i \in 1 .. N : levels[i] \in Int /\ levels[i] > 0
  BY <1>2, <1>6, LevelsArePositive
<1>8. r \in 1 .. N
  <2>1. BranchEnd(levels, ln0) \in ln0 .. Len(levels)
    BY <1>7, BranchEndIs
  <2>2. BranchEnd(levels, ln0) \in 1 .. N
    BY <1>6, <2>1
  <2> HIDE DEF child
  <2> QED
    BY <1>6, <2>2
<1> HIDE DEF r
<1>9. lev \in Int /\ lev > 0
  <2>1. levels[ln0] \in Int /\ levels[ln0] > 0
    BY <1>6, <1>7
  <2>2. CASE ln0 = 1 /\ N > 1
    <3>1. 2 \in 1 .. N
      BY <2>2
    <3> QED
      BY <1>6, <1>7, <2>2, <3>1
  <2>3. CASE ln0 = 1 /\ ~(N > 1)
    BY <1>6, <2>3
  <2>4. CASE ln0 # 1
    <3> HIDE DEF child
    <3> QED
      BY <2>1, <2>4
  <2> QED
    BY <2>2, <2>3, <2>4
<1> HIDE DEF lev
<1>10. /\ n \in Nat /\ n > 0 /\ p.bnodes # <<>> /\ Len(p.levels) = n
       /\ \A j \in 1 .. n : p.levels[j] \in Int /\ p.levels[j] >= p.levels[1]
  <2>1. p.bnodes \in Seq(Int) /\ p.levels \in Seq(Int) /\ Len(p.levels) = n
    BY <1>4 DEF IsOutline
  <2>2. p.bnodes # <<>> /\ \A i \in 1 .. Len(p.levels) : p.levels[i] >= p.levels[1]
    BY <1>3 DEF ClipIsOutline
  <2> QED
    BY <2>1, <2>2
<1>11. d \in Int /\ \A j \in 1 .. n : p.levels[j] + d > 0
  <2>1. PICK y \in Int : y = p.levels[1]
    <3>1. 1 \in 1 .. n
      BY <1>10
    <3> QED
      BY <1>10, <3>1
  <2>2. d = lev - y
    BY <2>1
  <2>3. ASSUME NEW j \in 1 .. n
        PROVE  p.levels[j] + d > 0
    <3>1. PICK x \in Int : x = p.levels[j] /\ x >= y
      BY <1>10, <2>1
    <3>2. x + (lev - y) > 0
      BY <1>9, <3>1
    <3> QED
      BY <2>2, <3>1, <3>2
  <2> QED
    BY <1>9, <2>1, <2>2, <2>3
<1> HIDE DEF d
<1>12. e = EndIn(bnodes, Body, r)
  BY EndOfIs
<1> HIDE DEF e
<1>13. CanPaste(mode, bnodes, Body, clip, p, r, d, e)
  BY <1>4, <1>6, <1>8, <1>10, <1>11, <1>12 DEF CanPaste
<1>14. IsClip(mode, clip, d, t)
  <2>1. t = PastedLinesOf(mode, clip, p, d)
    BY Zenon DEF PastedLinesOf
  <2> HIDE DEF t
  <2> QED
    BY <1>2, <1>13, <2>1, ClipIs, Zenon
<1> HIDE DEF t, U
<1>15. PICK z \in Nat : z = Len(clip)
  OBVIOUS
<1>16. IsPasted(mode, bnodes, levels, Body, clip, p, r, d, e, bn2, lv2, B2, n, z)
  BY <1>2, <1>10, <1>13, <1>14, <1>15, PasteIs
<1> HIDE DEF B2, bn2, lv2
<1>17. IsTreePasted(U, V, bnodes, p, r, lv2, n)
  <2> HIDE DEF n
  <2>1. n = Len(p.bnodes)
    BY DEF n
  <2> QED
    BY <1>2, <1>10, <1>13, <1>15, <1>16, <2>1, TreePasteIs
<1> HIDE DEF V
<1>18. Told(mode, bn2, lv2, B2) /\ Shown(V, bn2, lv2, B2) /\ IsBare(V) /\ IsRooted(V)
  <2> HIDE DEF n
  <2>1. n = Len(p.bnodes)
    BY DEF n
  <2> QED
    BY <1>2, <1>10, <1>13, <1>15, <1>16, <1>17, <2>1, PastedIsTold
<1>19. r + 1 \in 1 .. Len(V)
  <2>1. Len(V) = N + n
    BY <1>6, <1>17 DEF IsTreePasted
  <2> HIDE DEF n
  <2> QED
    BY <1>8, <1>10, <2>1
<1>20. Tells(mode, B2, bn2, lv2, Marked(V, r + 1), r + 1)
  BY <1>2, <1>18, <1>19, MarkedTells, Zenon
<1>21. /\ Body' = B2 /\ bnodes' = bn2 /\ levels' = lv2 /\ Tree' = Marked(V, r + 1)
       /\ snLn' = r + 1 /\ vimSnLn' = r + 1 /\ mode' = mode
  BY <1>5 DEF Done
<1>22. Tells(mode', Body', bnodes', levels', Tree', snLn')
  BY <1>20, <1>21, Zenon
<1> QED
  BY <1>21, <1>22 DEF OutlineTells

-----------------------------------------------------------------------------
(* The invariant.                                                          *)

\* What holds even while the Body has changed behind the Tree.
IsTyped ==
  /\ mode \in OneLineModes
  /\ Body \in Seq(LineType) /\ Body # <<>>
  /\ clip \in Seq(LineType)
  /\ snLn = vimSnLn /\ IsMarked(Tree, snLn)
  /\ Len(bnodes) = Len(levels)
  /\ Len(Tree) - Len(levels) \in {0, 1}

OutlineInv ==
  /\ IsTyped
  /\ ~stale => OutlineTells

\* An outline that tells the headlines of its Body is of the right type.
LEMMA TellsIsTyped ==
  ASSUME NEW m, NEW B, NEW bn, NEW lv, NEW T, NEW sn, Tells(m, B, bn, lv, T, sn)
  PROVE  /\ m \in OneLineModes /\ B \in Seq(LineType) /\ B # <<>> /\ IsMarked(T, sn)
         /\ Len(bn) = Len(lv) /\ Len(T) = Len(lv) /\ Len(lv) \in Nat /\ Len(T) - Len(lv) = 0
<1>1. Told(m, bn, lv, B) /\ Shown(T, bn, lv, B) /\ IsMarked(T, sn) /\ m \in OneLineModes
  BY DEF Tells
<1>2. Len(bn) = Len(lv) /\ Len(T) = Len(lv) /\ Len(lv) \in Nat
  BY <1>1 DEF Told, Shown
<1>3. Len(T) - Len(lv) = 0
  BY <1>2
<1>4. B \in Seq(LineType) /\ B # <<>>
  BY <1>1 DEF Told
<1> QED
  BY <1>1, <1>2, <1>3, <1>4

\* A sort reorders the lines of the Body.
LEMMA SortingReorders ==
  ASSUME OutlineInv, Sorting
  PROVE  \E body : /\ updateTree(body, snLn) /\ mode' = mode /\ clip' = clip /\ Body' = body
                   /\ Told(mode, bnodes, levels, Body)
                   /\ \E P : IsReordered(mode, Body, body, P)
<1>1. PICK siblings \in SortRanges, deep \in BOOLEAN, order \in Orders : Sort(siblings, deep, order)
  BY Zenon DEF Sorting
<1>2. PICK body \in voom_OopSort(Body, bnodes, levels, Heads(Tree), siblings, deep, order, FALSE) :
        updateTree(body, snLn) /\ mode' = mode /\ clip' = clip
  BY <1>1, Zenon DEF Sort
<1>3. ~stale /\ Body' = body
  BY <1>1, <1>2, Zenon DEF Sort, updateTree
<1>4. Told(mode, bnodes, levels, Body) /\ Shown(Tree, bnodes, levels, Body)
  <2>1. Tells(mode, Body, bnodes, levels, Tree, snLn)
    BY <1>3 DEF OutlineInv, OutlineTells
  <2> QED
    BY <2>1 DEF Tells
<1>5. IsNumbered(bnodes, levels, Len(Body)) /\ levels \in Seq(Positive)
  <2>1. levels \in Seq(Positive)
    BY <1>4, LevelsArePositive
  <2> QED
    BY <1>4, <2>1 DEF Told, IsNumbered
<1>6. Heads(Tree) \in Seq(Int) /\ Len(Heads(Tree)) = Len(levels)
  <2>1. Tree \in Seq(TreeLineType) /\ Len(Tree) = Len(levels)
    BY <1>4 DEF Shown
  <2>2. \A i \in 1 .. Len(Tree) : Tree[i].head \in Int
    <3>1. \A i \in 1 .. Len(Tree) : Tree[i] \in TreeLineType
      BY <2>1, ElementOfSeq
    <3> QED
      BY <3>1 DEF TreeLineType
  <2> QED
    BY <2>1, <2>2 DEF Heads
<1>7. IsSiblings(levels, siblings, Len(levels))
  <2>1. PICK N \in Nat : N = Len(levels)
    BY <1>5 DEF IsNumbered
  <2>2. PICK l1 \in 2 .. N, l2 \in 2 .. N : siblings = SortRange(levels, l1, l2)
    BY <2>1 DEF SortRanges
  <2> QED
    BY <1>5, <2>1, <2>2, SortRangeIsSiblings
<1>8. \E P : IsReordered(mode, Body, body, P)
  <2>1. PICK L : L = Len(Body)
    OBVIOUS
  <2> QED
    BY <1>2, <1>4, <1>5, <1>6, <1>7, <2>1, SortedReorders
<1> QED
  BY <1>2, <1>3, <1>4, <1>8, Zenon

\* A sort leaves a Body of as many lines.
LEMMA SortingLeavesBody ==
  ASSUME OutlineInv, Sorting
  PROVE  Body' \in Seq(LineType) /\ Body' # <<>>
<1>1. PICK body, P : Body' = body /\ Told(mode, bnodes, levels, Body) /\ IsReordered(mode, Body, body, P)
  BY SortingReorders, Zenon
<1>2. body \in Seq(LineType) /\ Len(body) = Len(Body)
  BY <1>1 DEF IsReordered
<1>3. Len(Body) > 0
  BY <1>1 DEF Told
<1>4. body # <<>>
  BY <1>2, <1>3
<1> QED
  BY <1>1, <1>2, <1>4

-----------------------------------------------------------------------------
(* The actions.                                                            *)

LEMMA TellsKeep ==
  ASSUME OutlineTells', clip' \in Seq(LineType)
  PROVE  OutlineInv'
<1>1. Tells(mode', Body', bnodes', levels', Tree', snLn') /\ snLn' = vimSnLn'
  BY DEF OutlineTells
<1>2. /\ mode' \in OneLineModes /\ Body' \in Seq(LineType) /\ Body' # <<>> /\ IsMarked(Tree', snLn')
      /\ Len(bnodes') = Len(levels') /\ Len(Tree') - Len(levels') = 0
  BY <1>1, TellsIsTyped
<1>3. IsTyped'
  BY <1>1, <1>2 DEF IsTyped
<1> QED
  BY <1>3 DEF OutlineInv

\* A parse restores the outline.
LEMMA UpdateTells ==
  ASSUME mode \in OneLineModes, NEW B \in Seq(LineType), B # <<>>, NEW sn \in Int, sn > 0,
         updateTree(B, sn), mode' = mode
  PROVE  OutlineTells'
<1>1. PICK u : /\ u = Updated(B, sn)
               /\ Body' = B /\ bnodes' = u.bnodes /\ levels' = u.levels /\ Tree' = u.tree
               /\ snLn' = u.sn /\ vimSnLn' = u.sn
  BY Zenon DEF updateTree
<1>2. Tells(mode, B, u.bnodes, u.levels, u.tree, u.sn)
  BY <1>1, UpdatedTells, Zenon
<1>3. Tells(mode', Body', bnodes', levels', Tree', snLn')
  BY <1>1, <1>2, Zenon
<1> QED
  BY <1>1, <1>3 DEF OutlineTells

LEMMA SelectedIsLine ==
  ASSUME NEW T, NEW sn, IsMarked(T, sn)
  PROVE  sn \in Int /\ sn > 0 /\ T \in Seq(TreeLineType)
BY DEF IsMarked

\* Choosing a line of the Tree.
LEMMA TreeSelectKeeps ==
  ASSUME OutlineInv, NEW ln \in 1 .. Len(Tree), TreeSelect(ln)
  PROVE  OutlineInv'
<1>1. /\ IsTyped /\ mode \in OneLineModes /\ Body \in Seq(LineType) /\ Body # <<>>
      /\ clip \in Seq(LineType) /\ snLn = vimSnLn
  BY DEF OutlineInv, IsTyped
<1>2. CASE stale
  <2>1. updateTree(Body, ln) /\ mode' = mode /\ clip' = clip
    BY <1>2 DEF TreeSelect
  <2>2. ln \in Int /\ ln > 0
    OBVIOUS
  <2>3. OutlineTells'
    BY <1>1, <2>1, <2>2, UpdateTells
  <2> QED
    BY <1>1, <2>1, <2>3, TellsKeep
<1>3. CASE ~stale
  <2>1. Tells(mode, Body, bnodes, levels, Tree, snLn)
    BY <1>3 DEF OutlineInv, OutlineTells
  <2>2. /\ Tree' = IF ln = vimSnLn THEN Tree ELSE Unmarked(Marked(Tree, ln), vimSnLn)
        /\ snLn' = ln /\ vimSnLn' = ln
        /\ mode' = mode /\ Body' = Body /\ bnodes' = bnodes /\ levels' = levels /\ clip' = clip
    BY <1>3 DEF TreeSelect
  <2>3. Tells(mode, Body, bnodes, levels, Tree', ln)
    <3>1. CASE ln = snLn
      BY <1>1, <2>1, <2>2, <3>1
    <3>2. CASE ln # snLn
      <4>1. Tree \in Seq(TreeLineType) /\ snLn \in 1 .. Len(Tree) /\ Len(Tree) = Len(bnodes)
        BY <2>1, TellsIsTyped DEF IsMarked
      <4>2. Tree' = Unmarked(Marked(Tree, ln), snLn)
        BY <1>1, <2>2, <3>2
      <4>3. Unmarked(Marked(Tree, ln), snLn) = Marked(Unmarked(Tree, snLn), ln)
        BY <3>2, <4>1, MarksCommute
      <4>4. Tells(mode, Body, bnodes, levels, Marked(Unmarked(Tree, snLn), ln), ln)
        <5>1. ln \in 1 .. Len(bnodes)
          BY <4>1
        <5> QED
          BY <2>1, <5>1, SelectTells, Zenon
      <4> QED
        BY <4>2, <4>3, <4>4
    <3> QED
      BY <3>1, <3>2
  <2>4. OutlineTells'
    BY <2>2, <2>3 DEF OutlineTells
  <2> QED
    BY <1>1, <2>2, <2>4, TellsKeep
<1> QED
  BY <1>2, <1>3

\* Choosing a line of the Body.
LEMMA BodySelectKeeps ==
  ASSUME OutlineInv, NEW blnr \in 1 .. Len(Body), BodySelect(blnr)
  PROVE  OutlineInv'
<1>1. /\ IsTyped /\ mode \in OneLineModes /\ Body \in Seq(LineType) /\ Body # <<>>
      /\ clip \in Seq(LineType) /\ snLn = vimSnLn /\ IsMarked(Tree, snLn)
  BY DEF OutlineInv, IsTyped
<1>2. PICK u :
        /\ u = IF stale THEN Updated(Body, snLn)
               ELSE [bnodes |-> bnodes, levels |-> levels, tree |-> Tree, sn |-> vimSnLn]
        /\ bnodes' = u.bnodes /\ levels' = u.levels
        /\ Tree' = IF NodeAt(u.bnodes, blnr) = u.sn THEN u.tree
                   ELSE Marked(Unmarked(u.tree, u.sn), NodeAt(u.bnodes, blnr))
        /\ snLn' = NodeAt(u.bnodes, blnr) /\ vimSnLn' = NodeAt(u.bnodes, blnr)
        /\ mode' = mode /\ Body' = Body /\ clip' = clip
  BY DEF BodySelect
<1>3. Tells(mode, Body, u.bnodes, u.levels, u.tree, u.sn)
  <2>1. CASE stale
    <3>1. u = Updated(Body, snLn) /\ snLn \in Int /\ snLn > 0
      BY <1>1, <1>2, <2>1, SelectedIsLine
    <3> QED
      BY <1>1, <3>1, UpdatedTells, Zenon
  <2>2. CASE ~stale
    <3>1. Tells(mode, Body, bnodes, levels, Tree, snLn)
      BY <2>2 DEF OutlineInv, OutlineTells
    <3>2. u.bnodes = bnodes /\ u.levels = levels /\ u.tree = Tree /\ u.sn = snLn
      BY <1>1, <1>2, <2>2
    <3> QED
      BY <3>1, <3>2, Zenon
  <2> QED
    BY <2>1, <2>2
<1> DEFINE sn == NodeAt(u.bnodes, blnr)
<1>4. sn \in 1 .. Len(u.bnodes)
  <2>1. Told(mode, u.bnodes, u.levels, Body) /\ blnr \in Int /\ blnr > 0
    BY <1>3 DEF Tells
  <2> QED
    BY <2>1, NodeAtIs, Zenon
<1> HIDE DEF sn
<1>5. Tells(mode, Body, u.bnodes, u.levels, Tree', sn)
  <2>1. CASE sn = u.sn
    BY <1>2, <1>3, <2>1 DEF sn
  <2>2. CASE sn # u.sn
    <3>1. Tree' = Marked(Unmarked(u.tree, u.sn), sn)
      BY <1>2, <2>2 DEF sn
    <3>2. Tells(mode, Body, u.bnodes, u.levels, Marked(Unmarked(u.tree, u.sn), sn), sn)
      BY <1>3, <1>4, SelectTells, Zenon
    <3> QED
      BY <3>1, <3>2
  <2> QED
    BY <2>1, <2>2
<1>6. OutlineTells'
  BY <1>2, <1>5 DEF OutlineTells, sn
<1> QED
  BY <1>1, <1>2, <1>6, TellsKeep

\* Entering the Tree, and a sort, which enters it.
LEMMA UpdateTreeKeeps ==
  ASSUME OutlineInv, UpdateTree
  PROVE  OutlineInv'
<1>1. /\ mode \in OneLineModes /\ Body \in Seq(LineType) /\ Body # <<>>
      /\ clip \in Seq(LineType) /\ IsMarked(Tree, snLn)
  BY DEF OutlineInv, IsTyped
<1>2. updateTree(Body, snLn) /\ mode' = mode /\ clip' = clip
  BY DEF UpdateTree
<1>3. snLn \in Int /\ snLn > 0
  BY <1>1, SelectedIsLine
<1>4. OutlineTells'
  BY <1>1, <1>2, <1>3, UpdateTells
<1> QED
  BY <1>1, <1>2, <1>4, TellsKeep

LEMMA SortingKeeps ==
  ASSUME OutlineInv, Sorting
  PROVE  OutlineInv'
<1>1. /\ mode \in OneLineModes /\ clip \in Seq(LineType) /\ IsMarked(Tree, snLn)
  BY DEF OutlineInv, IsTyped
<1>2. PICK siblings, deep, order : Sort(siblings, deep, order)
  BY Zenon DEF Sorting
<1>3. PICK body : updateTree(body, snLn) /\ mode' = mode /\ clip' = clip
  BY <1>2, Zenon DEF Sort
<1>4. Body' = body
  BY <1>3, Zenon DEF updateTree
<1>5. body \in Seq(LineType) /\ body # <<>> /\ snLn \in Int /\ snLn > 0
  BY <1>1, <1>4, SelectedIsLine, SortingLeavesBody
<1>6. OutlineTells'
  BY <1>1, <1>3, <1>5, UpdateTells
<1> QED
  BY <1>1, <1>3, <1>6, TellsKeep

\* The lines of these modes that the constants give are lines.
LinesAreTyped ==
  \A m \in OneLineModes :
    /\ Edits[m] \subseteq LineType
    /\ Clips[m] \subseteq Seq(LineType)
    /\ \A b \in Bodies : b[1] = m => b[2] \in Seq(LineType)

\* Editing the Body.
LEMMA SetBodyKeeps ==
  ASSUME OutlineInv, NEW body \in Seq(LineType), SetBody(body)
  PROVE  OutlineInv'
<1>1. IsTyped
  BY DEF OutlineInv
<1>2. /\ Body' = IF body = <<>> THEN <<Blank>> ELSE body
      /\ stale' = TRUE
      /\ mode' = mode /\ bnodes' = bnodes /\ levels' = levels /\ Tree' = Tree /\ snLn' = snLn
      /\ vimSnLn' = vimSnLn /\ clip' = clip
  BY DEF SetBody, outline
<1>3. <<Blank>> \in Seq(LineType) /\ <<Blank>> # <<>>
  BY BlankIs
<1>4. Body' \in Seq(LineType) /\ Body' # <<>>
  BY <1>2, <1>3
<1>5. IsTyped'
  BY <1>1, <1>2, <1>4 DEF IsTyped
<1> QED
  BY <1>2, <1>5 DEF OutlineInv

LEMMA EditBodyKeeps ==
  ASSUME OutlineInv, LinesAreTyped, EditBody
  PROVE  OutlineInv'
<1>1. Body \in Seq(LineType) /\ mode \in OneLineModes
  BY DEF OutlineInv, IsTyped
<1>2. PICK i \in 1 .. Len(Body) :
        \/ SetBody(CutOut(Body, i, i))
        \/ \E l \in Edits[mode] : SetBody([Body EXCEPT ![i] = l]) \/ SetBody(PutAfter(Body, i, <<l>>))
  BY DEF EditBody
<1>3. CASE SetBody(CutOut(Body, i, i))
  <2>1. i \in i .. Len(Body)
    OBVIOUS
  <2>2. CutOut(Body, i, i) \in Seq(LineType)
    BY <1>1, <2>1, CutOutIs DEF IsCut
  <2> QED
    BY <1>3, <2>2, SetBodyKeeps
<1>4. ASSUME NEW l \in Edits[mode], SetBody([Body EXCEPT ![i] = l])
      PROVE  OutlineInv'
  <2>1. l \in LineType
    BY <1>1 DEF LinesAreTyped
  <2>2. [Body EXCEPT ![i] = l] \in Seq(LineType)
    BY <1>1, <2>1, ExceptSeq
  <2> QED
    BY <1>4, <2>2, SetBodyKeeps
<1>5. ASSUME NEW l \in Edits[mode], SetBody(PutAfter(Body, i, <<l>>))
      PROVE  OutlineInv'
  <2>1. <<l>> \in Seq(LineType) /\ i \in 0 .. Len(Body)
    BY <1>1 DEF LinesAreTyped
  <2>2. PutAfter(Body, i, <<l>>) \in Seq(LineType)
    BY <1>1, <2>1, PutAfterIs DEF IsPut
  <2> QED
    BY <1>5, <2>2, SetBodyKeeps
<1> QED
  BY <1>2, <1>3, <1>4, <1>5

\* A new headline.
LEMMA InsertedIsMarked ==
  ASSUME NEW U, IsBare(U), NEW ln \in 1 .. Len(U), NEW l \in TreeLineType, l.sel
  PROVE  /\ IsMarked(PutAfter(U, ln, <<l>>), ln + 1)
         /\ Len(PutAfter(U, ln, <<l>>)) = Len(U) + 1
<1> DEFINE V == PutAfter(U, ln, <<l>>)
<1>1. U \in Seq(TreeLineType) /\ \A i \in 1 .. Len(U) : ~U[i].sel
  BY DEF IsBare
<1>2. PICK N \in Nat : N = Len(U)
  BY <1>1
<1>3. <<l>> \in Seq(TreeLineType) /\ 1 = Len(<<l>>) /\ <<l>>[1] = l /\ ln \in 0 .. Len(U)
  OBVIOUS
<1>4. IsJoined(TreeLineType, V, U, ln, <<l>>, 1)
  BY <1>1, <1>3, PutIsJoined
<1> HIDE DEF V
<1>5. /\ V \in Seq(TreeLineType) /\ Len(V) = N + 1
      /\ \A i \in 1 .. ln : V[i] = U[i]
      /\ V[ln + 1] = l
      /\ \A i \in ln + 1 .. N : V[i + 1] = U[i]
  BY <1>2, <1>3, <1>4 DEF IsJoined
<1>6. ASSUME NEW i \in 1 .. N + 1
      PROVE  V[i].sel <=> i = ln + 1
  <2>1. CASE i <= ln
    <3>1. i \in 1 .. ln /\ i \in 1 .. N /\ i # ln + 1
      BY <1>2, <2>1
    <3> QED
      BY <1>1, <1>2, <1>5, <3>1
  <2>2. CASE i = ln + 1
    BY <1>5, <2>2
  <2>3. CASE i > ln + 1
    <3>1. i - 1 \in ln + 1 .. N /\ (i - 1) + 1 = i /\ i - 1 \in 1 .. N /\ i # ln + 1
      BY <1>2, <2>3
    <3>2. V[i] = U[i - 1]
      BY <1>5, <3>1
    <3> QED
      BY <1>1, <1>2, <3>1, <3>2
  <2> QED
    BY <2>1, <2>2, <2>3
<1>7. ln + 1 \in 1 .. N + 1
  BY <1>2
<1>8. IsMarked(V, ln + 1)
  BY <1>5, <1>6, <1>7 DEF IsMarked
<1> QED
  BY <1>2, <1>5, <1>8 DEF V

LEMMA InsertKeeps ==
  ASSUME OutlineInv, NEW ln0 \in 1 .. Len(levels), NEW folded \in BOOLEAN, NEW as_child \in BOOLEAN,
         voom_OopInsert(ln0, folded, as_child)
  PROVE  OutlineInv'
<1> DEFINE child == nodeHasChildren(levels, ln0)
           lev == IF ln0 = 1 THEN 1
                  ELSE IF as_child \/ (child /\ ~folded) THEN levels[ln0] + 1 ELSE levels[ln0]
           ln == IF ln0 # 1 /\ ~as_child /\ child /\ folded THEN BranchEnd(levels, ln0) ELSE ln0
           b == EndOf(ln)
           new == NewLines(mode, lev, b, ln, Body, bnodes, style)
           U == Unmarked(Tree, snLn)
           l == TreeLine(TRUE, FALSE, lev, NewHeadline)
<1>1. /\ ~stale
      /\ Body' = PutAfter(Body, b, new)
      /\ Tree' = PutAfter(U, ln, <<l>>)
      /\ snLn' = ln + 1 /\ vimSnLn' = ln + 1 /\ stale' = TRUE
      /\ mode' = mode /\ bnodes' = bnodes /\ levels' = levels /\ clip' = clip
  BY DEF voom_OopInsert
<1>2. Tells(mode, Body, bnodes, levels, Tree, snLn) /\ clip \in Seq(LineType)
  BY <1>1 DEF OutlineInv, OutlineTells, IsTyped
<1>3. /\ mode \in OneLineModes /\ Told(mode, bnodes, levels, Body)
      /\ IsBare(U) /\ Len(U) = Len(bnodes) /\ Body \in Seq(LineType)
  <2>1. mode \in OneLineModes /\ Told(mode, bnodes, levels, Body) /\ IsBare(U) /\ Len(U) = Len(bnodes)
    BY <1>2, UnmarkedTells
  <2> QED
    BY <1>2, <2>1 DEF Tells, Told
<1> HIDE DEF U
<1>4. PICK N \in Nat : N = Len(levels) /\ N = Len(bnodes) /\ ln0 \in 1 .. N
  BY <1>3 DEF Told
<1>5. levels \in Seq(Positive) /\ levels[ln0] \in Int
  BY <1>3, <1>4, LevelsArePositive
<1>6. ln \in 1 .. N
  <2>1. BranchEnd(levels, ln0) \in ln0 .. Len(levels)
    BY <1>5, BranchEndIs
  <2>2. BranchEnd(levels, ln0) \in 1 .. N
    BY <1>4, <2>1
  <2> HIDE DEF child
  <2> QED
    BY <1>4, <2>2
<1> HIDE DEF ln
<1>7. lev \in Int
  <2> HIDE DEF child
  <2> QED
    BY <1>5
<1> HIDE DEF lev
<1>8. b \in 0 .. Len(Body)
  <2>1. b = EndIn(bnodes, Body, ln) /\ ln \in 1 .. Len(bnodes)
    BY <1>4, <1>6, EndOfIs
  <2> QED
    BY <1>3, <2>1, EndIs
<1> HIDE DEF b
<1>9. new \in Seq(LineType)
  BY <1>3, <1>7, NewLinesAre
<1> HIDE DEF new
<1>10. IsPut(LineType, PutAfter(Body, b, new), Body, b, new)
  BY <1>3, <1>8, <1>9, PutAfterIs
<1>11. Body' \in Seq(LineType) /\ Body' # <<>>
  <2>1. Body # <<>>
    BY <1>2, TellsIsTyped, Zenon
  <2>2. Len(Body) > 0 /\ Len(new) >= 0
    BY <1>3, <1>9, <2>1
  <2>3. Body' \in Seq(LineType) /\ Len(Body') > 0
    BY <1>1, <1>3, <1>9, <1>10, <2>2 DEF IsPut
  <2> QED
    BY <2>3
<1>12. l \in TreeLineType /\ l.sel
  BY <1>7 DEF TreeLine, TreeLineType, NewHeadline
<1> HIDE DEF l
<1>13. IsMarked(Tree', ln + 1) /\ Len(Tree') = N + 1
  <2>1. ln \in 1 .. Len(U)
    BY <1>3, <1>4, <1>6
  <2> QED
    BY <1>1, <1>3, <1>4, <1>12, <2>1, InsertedIsMarked
<1>14. Len(Tree') - Len(levels') \in {0, 1} /\ Len(bnodes') = Len(levels')
  BY <1>1, <1>4, <1>13
<1>15. IsTyped'
  BY <1>1, <1>2, <1>3, <1>11, <1>13, <1>14 DEF IsTyped
<1> QED
  BY <1>1, <1>15 DEF OutlineInv

\* The other operations need an outline that is not stale, and leave lines in
\* the clipboard.
LEMMA RegionToClip ==
  ASSUME Tells(mode, Body, bnodes, levels, Tree, snLn),
         NEW ln1 \in 2 .. Len(levels), NEW ln2 \in Ends(ln1)
  PROVE  Slice(Body, bnodes[ln1], EndOf(ln2)) \in Seq(LineType)
<1>1. /\ ln1 \in 2 .. Len(bnodes) /\ ln2 \in ln1 .. Len(bnodes)
      /\ EndOf(ln2) = EndIn(bnodes, Body, ln2)
  BY RegionIs, Zenon
<1>2. Told(mode, bnodes, levels, Body) /\ Body \in Seq(LineType)
  BY DEF Tells, Told
<1>3. bnodes[ln1] \in Int /\ bnodes[ln1] > 0 /\ bnodes[ln1] <= Len(Body)
  BY <1>1, <1>2, NodeBegins
<1>4. /\ EndIn(bnodes, Body, ln2) \in Int /\ EndIn(bnodes, Body, ln2) <= Len(Body)
      /\ EndIn(bnodes, Body, ln2) >= bnodes[ln1]
  BY <1>1, <1>2, RegionEnds
<1>5. PICK a \in Int, z \in Int : a = bnodes[ln1] /\ z = EndIn(bnodes, Body, ln2)
  BY <1>3, <1>4
<1>6. a \in 1 .. Len(Body) /\ z \in a .. Len(Body)
  BY <1>2, <1>3, <1>4, <1>5
<1>7. Slice(Body, a, z) \in Seq(LineType)
  BY <1>2, <1>6, SliceIs
<1> QED
  BY <1>1, <1>5, <1>7

LEMMA OperationKeeps ==
  ASSUME OutlineInv, Operation
  PROVE  OutlineInv'
<1>1. PICK ln1 \in 2 .. Len(levels) : \E ln2 \in Ends(ln1) :
        \/ voom_OopCopy(ln1, ln2)
        \/ \E up \in LineAbove(ln1) : voom_OopCut(ln1, ln2, up)
        \/ ln1 >= 3 /\ \E up \in LineAbove(ln1) : \E up2 \in LineAbove(up) :
                         voom_OopUp(ln1, ln2, up, up2)
        \/ \E folded \in BOOLEAN : voom_OopDown(ln1, ln2, folded)
        \/ voom_OopRight(ln1, ln2)
        \/ voom_OopLeft(ln1, ln2)
  BY Zenon DEF Operation
<1>2. PICK ln2 \in Ends(ln1) :
        \/ voom_OopCopy(ln1, ln2)
        \/ \E up \in LineAbove(ln1) : voom_OopCut(ln1, ln2, up)
        \/ ln1 >= 3 /\ \E up \in LineAbove(ln1) : \E up2 \in LineAbove(up) :
                         voom_OopUp(ln1, ln2, up, up2)
        \/ \E folded \in BOOLEAN : voom_OopDown(ln1, ln2, folded)
        \/ voom_OopRight(ln1, ln2)
        \/ voom_OopLeft(ln1, ln2)
  BY <1>1
<1>3. /\ ~stale
      /\ clip' = clip \/ clip' = Slice(Body, bnodes[ln1], EndOf(ln2))
  <2>1. CASE voom_OopCopy(ln1, ln2)
    BY <2>1, Zenon DEF voom_OopCopy
  <2>2. ASSUME NEW up, voom_OopCut(ln1, ln2, up)
        PROVE  ~stale /\ clip' = Slice(Body, bnodes[ln1], EndOf(ln2))
    BY <2>2, Zenon DEF voom_OopCut
  <2>3. ASSUME NEW up, NEW up2, voom_OopUp(ln1, ln2, up, up2)
        PROVE  ~stale /\ clip' = clip
    BY <2>3, Zenon DEF voom_OopUp
  <2>4. ASSUME NEW folded, voom_OopDown(ln1, ln2, folded)
        PROVE  ~stale /\ clip' = clip
    BY <2>4, Zenon DEF voom_OopDown
  <2>5. CASE voom_OopRight(ln1, ln2)
    BY <2>5, Zenon DEF voom_OopRight
  <2>6. CASE voom_OopLeft(ln1, ln2)
    BY <2>6, Zenon DEF voom_OopLeft
  <2> QED
    BY <1>2, <2>1, <2>2, <2>3, <2>4, <2>5, <2>6, Zenon
<1>4. OutlineTells /\ clip \in Seq(LineType)
  BY <1>3 DEF OutlineInv, IsTyped
<1>5. OutlineTells'
  BY <1>4, OperationTells
<1>6. clip' \in Seq(LineType)
  <2>1. Slice(Body, bnodes[ln1], EndOf(ln2)) \in Seq(LineType)
    BY <1>4, RegionToClip, Zenon DEF OutlineTells
  <2> QED
    BY <1>3, <1>4, <2>1
<1> QED
  BY <1>5, <1>6, TellsKeep

LEMMA PasteKeeps ==
  ASSUME OutlineInv, NEW ln0 \in 1 .. Len(levels), NEW folded \in BOOLEAN, voom_OopPaste(ln0, folded)
  PROVE  OutlineInv'
<1>1. ~stale /\ clip' = clip
  BY Zenon DEF voom_OopPaste
<1>2. OutlineTells /\ clip \in Seq(LineType)
  BY <1>1 DEF OutlineInv, IsTyped
<1>3. OutlineTells'
  BY <1>2, PasteTells
<1> QED
  BY <1>1, <1>2, <1>3, TellsKeep

-----------------------------------------------------------------------------
(* The theorems.                                                           *)

LEMMA StartKeeps ==
  ASSUME LinesAreTyped, Start, mode \in OneLineModes
  PROVE  OutlineInv
<1>1. PICK b \in Bodies, blnr \in 1 .. MaxLines :
        /\ blnr \in 1 .. Len(b[2]) /\ mode = b[1] /\ Body = b[2]
        /\ voom_TreeCreate(b[1], b[2], blnr)
        /\ clip \in Clips[b[1]]
  BY DEF Start
<1>2. mode \in OneLineModes /\ Body \in Seq(LineType) /\ clip \in Seq(LineType)
  BY <1>1 DEF LinesAreTyped
<1>3. blnr \in 1 .. Len(Body) /\ voom_TreeCreate(mode, Body, blnr)
  BY <1>1
<1>4. PICK o : /\ o = OutlineOf(mode, Body)
               /\ bnodes = <<1>> \o o.bnodes /\ levels = <<1>> \o o.levels
               /\ snLn = NodeAt(bnodes, blnr) /\ vimSnLn = snLn
               /\ Tree = Marked(<<RootLine>> \o o.tlines, snLn)
  BY <1>3, Zenon DEF voom_TreeCreate
<1>5. Body # <<>> /\ blnr \in Int /\ blnr > 0
  BY <1>2, <1>3
<1>6. PICK V : V = <<RootLine>> \o o.tlines
  OBVIOUS
<1>7. Told(mode, bnodes, levels, Body) /\ Shown(V, bnodes, levels, Body) /\ IsBare(V) /\ IsRooted(V)
  BY <1>2, <1>4, <1>5, <1>6, ParseTells, Zenon
<1>8. snLn \in 1 .. Len(V)
  <2>1. snLn \in 1 .. Len(bnodes)
    BY <1>4, <1>5, <1>7, NodeAtIs
  <2> QED
    BY <1>7, <2>1 DEF Told, Shown
<1>9. Tells(mode, Body, bnodes, levels, Tree, snLn)
  BY <1>2, <1>4, <1>6, <1>7, <1>8, MarkedTells
<1>10. IsTyped
  <2>1. /\ IsMarked(Tree, snLn) /\ Len(bnodes) = Len(levels) /\ Len(Tree) - Len(levels) = 0
    BY <1>9, TellsIsTyped
  <2> QED
    BY <1>2, <1>4, <1>5, <2>1 DEF IsTyped
<1> QED
  BY <1>4, <1>9, <1>10 DEF OutlineInv, OutlineTells

LEMMA NextKeeps ==
  ASSUME LinesAreTyped, OutlineInv, Next
  PROVE  OutlineInv'
<1>1. CASE Outlining
  <2>1. CASE Operation
    BY <2>1, OperationKeeps
  <2>2. CASE \E ln \in 1 .. Len(levels), folded \in BOOLEAN :
               \/ \E as_child \in BOOLEAN : voom_OopInsert(ln, folded, as_child)
               \/ voom_OopPaste(ln, folded)
    BY <2>2, InsertKeeps, PasteKeeps, Zenon
  <2> QED
    BY <1>1, <2>1, <2>2, Zenon DEF Outlining
<1>2. CASE Selecting
  BY <1>2, TreeSelectKeeps, BodySelectKeeps, UpdateTreeKeeps, Zenon DEF Selecting
<1>3. CASE EditBody
  BY <1>3, EditBodyKeeps
<1>4. CASE Sorting
  BY <1>4, SortingKeeps
<1> QED
  BY <1>1, <1>2, <1>3, <1>4, Zenon DEF Next

LEMMA StutteringKeeps ==
  ASSUME OutlineInv, UNCHANGED vars
  PROVE  OutlineInv'
BY DEF OutlineInv, IsTyped, OutlineTells, vars, outline

LEMMA InvIsTypeOK ==
  ASSUME OutlineInv
  PROVE  VoomTypeOK
<1>1. mode \in ModeNames
  BY DEF OutlineInv, IsTyped, OneLineModes, ModeNames
<1>2. /\ Body # <<>> /\ Len(bnodes) = Len(levels) /\ snLn = vimSnLn
      /\ snLn \in 1 .. Len(Tree)
      /\ \A ln \in 1 .. Len(Tree) : Tree[ln].sel <=> ln = snLn
      /\ Len(Tree) - Len(levels) \in {0, 1}
  BY DEF OutlineInv, IsTyped, IsMarked
<1>3. ~stale => Len(Tree) - Len(levels) = 0
  BY TellsIsTyped DEF OutlineInv, OutlineTells
<1> QED
  BY <1>1, <1>2, <1>3 DEF VoomTypeOK

LEMMA InvIsVerified ==
  ASSUME OutlineInv
  PROVE  Verified
<1>1. CASE stale
  BY <1>1 DEF Verified
<1>2. CASE ~stale
  BY <1>2, TellsIsVerified DEF OutlineInv
<1> QED
  BY <1>1, <1>2

\* Whenever the outline is not stale, the levels, Body lines and Tree that the
\* operations have patched are those that a new parse gives (what
\* voom_OopVerify checks): for Bodies and clipboards of any lines and any
\* number of operations, sorts, edits and selections.
THEOREM OneLineVerified ==
  ASSUME LinesAreTyped
  PROVE  Spec /\ mode \in OneLineModes => []Verified
<1>1. Init /\ mode \in OneLineModes => OutlineInv
  BY StartKeeps DEF Init
<1>2. OutlineInv /\ [Next]_vars => OutlineInv'
  BY NextKeeps, StutteringKeeps
<1>3. OutlineInv => Verified
  BY InvIsVerified
<1> QED
  BY <1>1, <1>2, <1>3, PTL DEF Spec

\* The two copies of the selected line (VO.snLn and the one of voom.vim) agree
\* and exactly that line of the Tree has the mark; the Tree has a line for each
\* cached headline, and at most one more.
THEOREM OneLineTypeOK ==
  ASSUME LinesAreTyped
  PROVE  Spec /\ mode \in OneLineModes => []VoomTypeOK
<1>1. Init /\ mode \in OneLineModes => OutlineInv
  BY StartKeeps DEF Init
<1>2. OutlineInv /\ [Next]_vars => OutlineInv'
  BY NextKeeps, StutteringKeeps
<1>3. OutlineInv => VoomTypeOK
  BY InvIsTypeOK
<1> QED
  BY <1>1, <1>2, <1>3, PTL DEF Spec

-----------------------------------------------------------------------------
(* A new headline, before the next parse.                                  *)

\* The lines of a new headline: the headline, and a blank line.
IsNewHeadline(m, new, level) ==
  \E l \in LineType :
    /\ new = <<l, Blank>>
    /\ l.k = "head" /\ l.t = NewHeadline /\ LevelIn(m, l) = level

LEMMA NewHeadlineIs ==
  ASSUME NEW m \in OneLineModes, NEW level \in Int, level > 0, NEW b, NEW ln, NEW B, NEW bn, NEW st
  PROVE  IsNewHeadline(m, NewLines(m, level, b, ln, B, bn, st), level)
<1> DEFINE w == NewLines(m, level, b, ln, B, bn, st)
           h(n, c) == Line("head", n, c, NewHeadline)
<1>1. \A n, c \in Int :
        h(n, c) \in LineType /\ h(n, c).k = "head" /\ h(n, c).t = NewHeadline
          /\ h(n, c).n = n /\ h(n, c).c = c
  BY DEF Line, LineType, Kinds, NewHeadline
<1> HIDE DEF h
<1>2. ASSUME NEW n \in Int, NEW c \in Int, w = <<h(n, c), Blank>>, LevelIn(m, h(n, c)) = level
      PROVE  IsNewHeadline(m, w, level)
  BY <1>1, <1>2, Zenon DEF IsNewHeadline
<1>3. CASE m \in MTYPE0
  <2>1. w = <<h(level, 0), Blank>>
    <3>1. CASE m = ""
      BY <3>1, Zenon DEF NewLines, newHeadline, h
    <3>2. CASE m = "fmr"
      BY <3>2, Zenon DEF NewLines, newHeadline, h
    <3>3. CASE m = "fmr1"
      BY <3>3, Zenon DEF NewLines, newHeadline, fmr1_newHeadline, h
    <3>4. CASE m = "fmr2"
      BY <3>4, Zenon DEF NewLines, newHeadline, fmr2_newHeadline, h
    <3> QED
      BY <1>3, <3>1, <3>2, <3>3, <3>4 DEF MTYPE0
  <2>2. LevelIn(m, h(level, 0)) = level
    <3>1. m \notin {"cwiki", "wiki", "vimwiki"}
      BY <1>3 DEF MTYPE0
    <3>2. PICK x : x = h(level, 0) /\ x.k = "head" /\ x.n = level
      BY <1>1
    <3>3. IsHeadline(m, x)
      BY <1>3, <3>2 DEF IsHeadline
    <3> QED
      BY <3>1, <3>2, <3>3 DEF LevelIn
  <2> QED
    BY <1>2, <2>1, <2>2
<1>4. CASE m = "hashes"
  <2>1. w = <<h(level, 0), Blank>>
    BY <1>4, Zenon DEF NewLines, hashes_newHeadline, h
  <2>2. LevelIn(m, h(level, 0)) = level
    BY <1>1, <1>4 DEF LevelIn, IsHeadline, MTYPE0
  <2> QED
    BY <1>2, <2>1, <2>2
<1>5. CASE m = "org"
  <2>1. w = <<h(level, 0), Blank>>
    BY <1>5, Zenon DEF NewLines, org_newHeadline, h
  <2>2. LevelIn(m, h(level, 0)) = level
    BY <1>1, <1>5 DEF LevelIn, IsHeadline, MTYPE0
  <2> QED
    BY <1>2, <2>1, <2>2
<1>6. CASE m = "cwiki"
  <2>1. w = <<h(level + 2, 0), Blank>>
    BY <1>6, Zenon DEF NewLines, cwiki_newHeadline, h
  <2>2. LevelIn(m, h(level + 2, 0)) = level
    BY <1>1, <1>6 DEF LevelIn, IsHeadline, MTYPE0
  <2> QED
    BY <1>2, <2>1, <2>2
<1>7. CASE m = "wiki"
  <2>1. w = <<h(level, level), Blank>>
    BY <1>7, Zenon DEF NewLines, wiki_newHeadline, h
  <2>2. LevelIn(m, h(level, level)) = level
    BY <1>1, <1>7 DEF LevelIn, IsHeadline, MTYPE0, Lesser
  <2> QED
    BY <1>2, <2>1, <2>2
<1>8. CASE m = "vimwiki"
  <2>1. w = <<h(level, level), Blank>>
    BY <1>8, Zenon DEF NewLines, vimwiki_newHeadline, h
  <2>2. LevelIn(m, h(level, level)) = level
    BY <1>1, <1>8 DEF LevelIn, IsHeadline, MTYPE0, Lesser
  <2> QED
    BY <1>2, <2>1, <2>2
<1>9. CASE m = "html"
  <2>1. w = <<h(level, level), Blank>>
    BY <1>9, Zenon DEF NewLines, html_newHeadline, h
  <2>2. LevelIn(m, h(level, level)) = level
    BY <1>1, <1>9 DEF LevelIn, IsHeadline, MTYPE0
  <2> QED
    BY <1>2, <2>1, <2>2
<1> QED
  BY <1>3, <1>4, <1>5, <1>6, <1>7, <1>8, <1>9 DEF OneLineModes

\* The outline of these lines is one node.
IsOneNode(m, new, o, level) ==
  /\ IsOutline(m, new, o) /\ new \in Seq(LineType) /\ Len(new) = 2
  /\ Len(o.bnodes) = 1 /\ o.bnodes[1] = 1 /\ o.levels[1] = level
  /\ o.tlines[1].lev = level /\ o.tlines[1].head = NewHeadline /\ o.tlines[1].x = FALSE

LEMMA NewHeadlineIsNode ==
  ASSUME NEW m \in OneLineModes, NEW level \in Int, level > 0, NEW new, IsNewHeadline(m, new, level),
         NEW o, o = OutlineOf(m, new)
  PROVE  IsOneNode(m, new, o, level)
<1>1. PICK l \in LineType :
        new = <<l, Blank>> /\ l.k = "head" /\ l.t = NewHeadline /\ LevelIn(m, l) = level
  BY DEF IsNewHeadline
<1>2. /\ new \in Seq(LineType) /\ Len(new) = 2
      /\ new[1] = l /\ new[2] = Blank
  BY <1>1, BlankIs
<1>3. LevelIn(m, Blank) = 0
  <2>1. Blank.k = "text"
    BY DEF Blank, Text, Line
  <2> QED
    BY <2>1 DEF LevelIn, IsHeadline
<1>4. IsOutline(m, new, o)
  BY <1>2, ParseIsOutline, Zenon
<1>5. PICK n \in Nat : n = Len(o.bnodes)
  BY <1>4 DEF IsOutline
<1>6. \A j \in 1 .. n : o.bnodes[j] \in 1 .. 2 /\ LevelIn(m, new[o.bnodes[j]]) > 0
  BY <1>2, <1>4, <1>5 DEF IsOutline
<1>7. \A j \in 1 .. n : o.bnodes[j] = 1
  <2>1. ASSUME NEW j \in 1 .. n
        PROVE  o.bnodes[j] = 1
    <3>1. PICK x \in 1 .. 2 : x = o.bnodes[j] /\ LevelIn(m, new[x]) > 0
      BY <1>6
    <3>2. x # 2
      BY <1>2, <1>3, <3>1
    <3> QED
      BY <3>1, <3>2
  <2> QED
    BY <2>1
<1>8. n > 0
  <2>1. 1 \in 1 .. Len(new) /\ LevelIn(m, new[1]) > 0
    BY <1>1, <1>2
  <2>2. \E j \in 1 .. n : o.bnodes[j] = 1
    BY <1>4, <1>5, <2>1 DEF IsOutline
  <2> QED
    BY <2>2
<1>9. ~(n > 1)
  <2>1. SUFFICES ASSUME n > 1 PROVE FALSE
    OBVIOUS
  <2>2. 1 \in 1 .. n /\ 2 \in 1 .. n
    BY <2>1
  <2>3. o.bnodes[1] < o.bnodes[2]
    <3>1. \A i, j \in 1 .. n : i < j => o.bnodes[i] < o.bnodes[j]
      BY <1>4, <1>5 DEF IsOutline
    <3> QED
      BY <2>2, <3>1
  <2> QED
    BY <1>7, <2>2, <2>3
<1>10. n = 1 /\ 1 \in 1 .. n /\ o.bnodes[1] = 1
  BY <1>7, <1>8, <1>9
<1>11. /\ o.levels[1] = LevelIn(m, new[1]) /\ o.tlines[1].lev = o.levels[1]
       /\ o.tlines[1].head = new[1].t /\ o.tlines[1].x = (new[1].k = "marked")
  BY <1>4, <1>5, <1>10 DEF IsOutline
<1>12. o.tlines[1].x = FALSE
  BY <1>1, <1>2, <1>11
<1> QED
  BY <1>1, <1>2, <1>4, <1>5, <1>10, <1>11, <1>12 DEF IsOneNode

\* The Tree with a line for it shows it where the outline has it.
LEMMA InsertedIsShown ==
  ASSUME NEW U, IsBare(U), NEW N \in Nat, N = Len(U), NEW ln \in 1 .. N,
         NEW l \in TreeLineType, l.sel,
         NEW V, NEW bn, N = Len(bn), NEW o, NEW lv2, IsTreePasted(U, V, bn, o, ln, lv2, 1),
         l.lev = lv2[ln + 1], l.head = o.tlines[1].head, l.x = o.tlines[1].x
  PROVE  /\ SameLines(PutAfter(U, ln, <<l>>), V)
         /\ IsMarked(PutAfter(U, ln, <<l>>), ln + 1)
<1> DEFINE T == PutAfter(U, ln, <<l>>)
<1>1. IsMarked(T, ln + 1) /\ Len(T) = N + 1
  BY InsertedIsMarked
<1>2. IsJoined(TreeLineType, T, U, ln, <<l>>, 1)
  <2>1. <<l>> \in Seq(TreeLineType) /\ 1 = Len(<<l>>) /\ ln \in 0 .. Len(U) /\ U \in Seq(TreeLineType)
    BY DEF IsBare
  <2> QED
    BY <2>1, PutIsJoined, Zenon
<1> HIDE DEF T
<1>3. /\ \A i \in 1 .. ln : T[i] = U[i]
      /\ T[ln + 1] = l
      /\ \A i \in ln + 1 .. N : T[i + 1] = U[i]
  <2>1. <<l>>[1] = l /\ 1 \in 1 .. 1
    OBVIOUS
  <2> QED
    BY <1>2, <2>1 DEF IsJoined
<1>4. /\ Len(V) = N + 1
      /\ \A i \in 1 .. ln : V[i] = U[i]
      /\ V[ln + 1].lev = lv2[ln + 1] /\ V[ln + 1].head = o.tlines[1].head /\ V[ln + 1].x = o.tlines[1].x
      /\ \A i \in ln + 1 .. N : V[i + 1] = U[i]
  <2>1. 1 \in 1 .. 1
    OBVIOUS
  <2> QED
    BY <2>1 DEF IsTreePasted
<1>5. ASSUME NEW i \in 1 .. N + 1
      PROVE  T[i].lev = V[i].lev /\ T[i].head = V[i].head /\ T[i].x = V[i].x
  <2>1. CASE i \in 1 .. ln
    BY <1>3, <1>4, <2>1
  <2>2. CASE i = ln + 1
    BY <1>3, <1>4, <2>2
  <2>3. CASE i > ln + 1
    <3>1. PICK j \in ln + 1 .. N : i = j + 1
      <4>1. i - 1 \in ln + 1 .. N /\ i = (i - 1) + 1
        BY <2>3
      <4> QED
        BY <4>1
    <3> QED
      BY <1>3, <1>4, <3>1
  <2> QED
    BY <2>1, <2>2, <2>3
<1> QED
  BY <1>1, <1>4, <1>5 DEF SameLines, T

\* The Tree tells the headlines of the Body, though the caches may lag behind.
TreeTells == \E bn, lv : Tells(mode, Body, bn, lv, Tree, snLn)

LEMMA InsertTells ==
  ASSUME OutlineInv, NEW ln0 \in 1 .. Len(levels), NEW folded \in BOOLEAN, NEW as_child \in BOOLEAN,
         voom_OopInsert(ln0, folded, as_child)
  PROVE  TreeTells'
<1> DEFINE child == nodeHasChildren(levels, ln0)
           lev == IF ln0 = 1 THEN 1
                  ELSE IF as_child \/ (child /\ ~folded) THEN levels[ln0] + 1 ELSE levels[ln0]
           ln == IF ln0 # 1 /\ ~as_child /\ child /\ folded THEN BranchEnd(levels, ln0) ELSE ln0
           b == EndOf(ln)
           new == NewLines(mode, lev, b, ln, Body, bnodes, style)
           U == Unmarked(Tree, snLn)
           l == TreeLine(TRUE, FALSE, lev, NewHeadline)
           p == OutlineOf(mode, new)
           B2 == PutAfter(Body, b, new)
           bn2 == PutAfter(Shift(bnodes, ln + 1, Len(bnodes), 2), ln, Shift(p.bnodes, 1, 1, b))
           lv2 == PutAfter(levels, ln, Shift(p.levels, 1, 1, 0))
           V == PutAfter(U, ln, RegionLines(0, p.tlines, lv2, ln + 1))
           T2 == PutAfter(U, ln, <<l>>)
<1>1. ~stale /\ Body' = B2 /\ Tree' = T2 /\ snLn' = ln + 1 /\ mode' = mode
  BY DEF voom_OopInsert
<1>2. Tells(mode, Body, bnodes, levels, Tree, snLn)
  BY <1>1 DEF OutlineInv, OutlineTells
<1> HIDE DEF child, lev, ln, b, new, l, p, B2, bn2, lv2, V, T2
<1>3. /\ mode \in OneLineModes /\ Told(mode, bnodes, levels, Body) /\ Shown(U, bnodes, levels, Body)
      /\ IsBare(U) /\ IsRooted(U) /\ Len(U) = Len(bnodes)
  BY <1>2, UnmarkedTells
<1> USE DEF child, lev, ln, b, new, l, p, B2, bn2, lv2, V, T2
<1> HIDE DEF U
<1>4. PICK N \in Nat : N = Len(levels) /\ N = Len(bnodes) /\ ln0 \in 1 .. N
  BY <1>3 DEF Told
<1>5. levels \in Seq(Positive) /\ levels[ln0] \in Int /\ levels[ln0] > 0
  BY <1>3, <1>4, LevelsArePositive
<1>6. ln \in 1 .. N
  <2>1. BranchEnd(levels, ln0) \in ln0 .. Len(levels)
    BY <1>5, BranchEndIs
  <2>2. BranchEnd(levels, ln0) \in 1 .. N
    BY <1>4, <2>1
  <2> HIDE DEF child
  <2> QED
    BY <1>4, <2>2
<1> HIDE DEF ln
<1>7. lev \in Int /\ lev > 0
  <2> HIDE DEF child
  <2> QED
    BY <1>5
<1> HIDE DEF lev
<1>8. b = EndIn(bnodes, Body, ln)
  BY EndOfIs
<1> HIDE DEF b
<1>9. IsNewHeadline(mode, new, lev)
  BY <1>3, <1>7, NewHeadlineIs
<1> HIDE DEF new
<1>10. IsOneNode(mode, new, p, lev)
  BY <1>3, <1>7, <1>9, NewHeadlineIsNode, Zenon
<1> HIDE DEF p
<1>11. CanPaste(mode, bnodes, Body, new, p, ln, 0, b)
  <2>1. new \in Seq(LineType) /\ IsOutline(mode, new, p) /\ Len(p.bnodes) = 1
    BY <1>10 DEF IsOneNode
  <2>2. Len(p.levels) = 1 /\ p.levels[1] = lev
    BY <1>10 DEF IsOneNode, IsOutline
  <2>3. \A j \in 1 .. Len(p.levels) : p.levels[j] + 0 > 0
    BY <1>7, <2>2
  <2>4. p.bnodes # <<>> /\ 0 \in Int
    BY <2>1
  <2> QED
    BY <1>4, <1>6, <1>8, <2>1, <2>3, <2>4 DEF CanPaste
<1>12. IsClip(mode, new, 0, new) /\ Len(new) = 2 /\ Len(p.bnodes) = 1
  BY <1>10 DEF IsOneNode, IsClip, WithLevel
<1>13. IsPasted(mode, bnodes, levels, Body, new, p, ln, 0, b, bn2, lv2, B2, 1, 2)
  <2>1. 1 \in Nat /\ 2 \in Nat /\ 1 = Len(p.bnodes) /\ 2 = Len(new)
    BY <1>12
  <2> QED
    BY <1>3, <1>11, <1>12, <2>1, PasteIs, Zenon
<1> HIDE DEF B2, bn2, lv2
<1>14. IsTreePasted(U, V, bnodes, p, ln, lv2, 1)
  <2>1. 1 \in Nat /\ 2 \in Nat /\ 1 = Len(p.bnodes) /\ 2 = Len(new)
    BY <1>12
  <2> QED
    BY <1>3, <1>11, <1>13, <2>1, TreePasteIs, Zenon
<1> HIDE DEF V
<1>15. Told(mode, bn2, lv2, B2) /\ Shown(V, bn2, lv2, B2) /\ IsBare(V) /\ IsRooted(V)
  <2>1. 1 \in Nat /\ 2 \in Nat /\ 1 = Len(p.bnodes) /\ 2 = Len(new)
    BY <1>12
  <2> QED
    BY <1>3, <1>11, <1>13, <1>14, <2>1, PastedIsTold, Zenon
<1>16. /\ l \in TreeLineType /\ l.sel /\ l.lev = lv2[ln + 1]
       /\ l.head = p.tlines[1].head /\ l.x = p.tlines[1].x
  <2>1. lv2[ln + 1] = p.levels[1] + 0 /\ p.levels[1] = lev
    <3>1. 1 \in 1 .. 1
      OBVIOUS
    <3> QED
      BY <1>10, <1>13, <3>1 DEF IsPasted, IsOneNode
  <2>2. p.tlines[1].head = NewHeadline /\ p.tlines[1].x = FALSE
    BY <1>10 DEF IsOneNode
  <2>3. lv2[ln + 1] = lev
    BY <1>7, <2>1
  <2>4. PICK v \in Int : v = lev /\ l = TreeLine(TRUE, FALSE, v, NewHeadline)
    BY <1>7
  <2> HIDE DEF l
  <2>5. /\ l \in TreeLineType /\ l.sel /\ l.lev = v /\ l.head = NewHeadline /\ l.x = FALSE
    BY <2>4 DEF TreeLine, TreeLineType, NewHeadline
  <2> QED
    BY <2>2, <2>3, <2>4, <2>5
<1> HIDE DEF l
<1>17. SameLines(T2, V) /\ IsMarked(T2, ln + 1)
  <2>1. N = Len(U)
    BY <1>3, <1>4
  <2> QED
    BY <1>3, <1>4, <1>6, <1>14, <1>16, <2>1, InsertedIsShown
<1> HIDE DEF T2
<1>18. Shown(T2, bn2, lv2, B2)
  BY <1>15, <1>17, SameLinesAreShown DEF IsMarked
<1>19. IsRooted(T2)
  <2>1. 1 \in 1 .. Len(T2)
    BY <1>17 DEF IsMarked
  <2> QED
    BY <1>15, <1>17, <2>1 DEF SameLines, IsRooted
<1>20. Tells(mode, B2, bn2, lv2, T2, ln + 1)
  BY <1>3, <1>15, <1>17, <1>18, <1>19 DEF Tells
<1>21. Tells(mode', Body', bn2, lv2, Tree', snLn')
  BY <1>1, <1>20, Zenon
<1> QED
  BY <1>21, Zenon DEF TreeTells

LEMMA TreeTellsIsParsed ==
  ASSUME OutlineInv, TreeTells
  PROVE  InsertedIsParsed
<1> DEFINE u == Updated(Body, snLn)
<1>1. PICK bn, lv : Tells(mode, Body, bn, lv, Tree, snLn)
  BY DEF TreeTells
<1>2. /\ mode \in OneLineModes /\ Told(mode, bn, lv, Body)
      /\ snLn \in 1 .. Len(Tree) /\ Len(Tree) = Len(bn) /\ Tree \in Seq(TreeLineType)
  BY <1>1 DEF Tells, IsMarked, Shown, Told
<1>3. Body \in Seq(LineType) /\ Body # <<>> /\ snLn \in Int /\ snLn > 0 /\ snLn <= Len(bn)
  <2>1. Body \in Seq(LineType) /\ Body # <<>>
    BY <1>2 DEF Told
  <2> QED
    BY <1>2, <2>1
<1>4. /\ Tells(mode, Body, u.bnodes, u.levels, u.tree, u.sn)
      /\ snLn <= Len(u.bnodes) => u.sn = snLn
  BY <1>2, <1>3, UpdatedTells, Zenon
<1> HIDE DEF u
<1>5. u.bnodes = bn /\ u.levels = lv
  BY <1>1, <1>4, ToldIsUnique, Zenon DEF Tells
<1>6. u.sn = snLn
  BY <1>3, <1>4, <1>5
<1>7. Tells(mode, Body, bn, lv, u.tree, snLn)
  BY <1>4, <1>5, <1>6, Zenon
<1>8. u.tree = Tree
  BY <1>1, <1>7, TellsIsUnique, Zenon
<1>9. LastLevel(mode) = 0
  BY <1>2 DEF LastLevel, OneLineModes, MTYPE0
<1>10. ASSUME NEW ln \in 1 .. Len(Tree)
       PROVE  Tree[ln] = [Tree[ln] EXCEPT !.x = Tree[ln].x] /\ [Tree[ln] EXCEPT !.lev = @] = Tree[ln]
  <2>1. PICK l \in TreeLineType : l = Tree[ln]
    BY <1>2
  <2>2. l = [l EXCEPT !.x = l.x] /\ [l EXCEPT !.lev = l.lev] = l
    BY DEF TreeLineType
  <2> QED
    BY <2>1, <2>2
<1>11. InsertedIsParsed <=>
         (stale => \E tree \in {u.tree} :
            /\ Len(Tree) = Len(tree)
            /\ \A ln \in 1 .. Len(Tree) :
                 IF ln = snLn THEN [Tree[ln] EXCEPT !.lev = @] = [tree[ln] EXCEPT !.x = Tree[ln].x]
                 ELSE Tree[ln] = tree[ln])
  BY <1>9 DEF InsertedIsParsed, u
<1> QED
  BY <1>8, <1>10, <1>11

\* No operation is done while the outline is stale.
LEMMA OperationIsFresh ==
  ASSUME Operation
  PROVE  ~stale
<1>1. PICK ln1 \in 2 .. Len(levels) : \E ln2 \in Ends(ln1) :
        \/ voom_OopCopy(ln1, ln2)
        \/ \E up \in LineAbove(ln1) : voom_OopCut(ln1, ln2, up)
        \/ ln1 >= 3 /\ \E up \in LineAbove(ln1) : \E up2 \in LineAbove(up) :
                         voom_OopUp(ln1, ln2, up, up2)
        \/ \E folded \in BOOLEAN : voom_OopDown(ln1, ln2, folded)
        \/ voom_OopRight(ln1, ln2)
        \/ voom_OopLeft(ln1, ln2)
  BY Zenon DEF Operation
<1>2. \A a, b : voom_OopCopy(a, b) => ~stale
  BY Zenon DEF voom_OopCopy
<1>3. \A a, b, c : voom_OopCut(a, b, c) => ~stale
  BY Zenon DEF voom_OopCut
<1>4. ASSUME NEW a, NEW b, NEW c, NEW d, voom_OopUp(a, b, c, d)
      PROVE  ~stale
  BY <1>4, Zenon DEF voom_OopUp
<1>5. ASSUME NEW a, NEW b, NEW c, voom_OopDown(a, b, c)
      PROVE  ~stale
  BY <1>5, Zenon DEF voom_OopDown
<1>6. \A a, b : voom_OopRight(a, b) => ~stale
  BY Zenon DEF voom_OopRight
<1>7. \A a, b : voom_OopLeft(a, b) => ~stale
  BY Zenon DEF voom_OopLeft
<1> QED
  BY <1>1, <1>2, <1>3, <1>4, <1>5, <1>6, <1>7, Zenon

\* Whatever is chosen, the outline is no longer stale.
LEMMA SelectingUpdates ==
  ASSUME Selecting
  PROVE  ~stale'
<1>1. \A body, sn : updateTree(body, sn) => ~stale'
  BY Zenon DEF updateTree
<1>2. \A ln : TreeSelect(ln) => ~stale'
  BY <1>1, Zenon DEF TreeSelect
<1>3. \A blnr : BodySelect(blnr) => ~stale'
  BY Zenon DEF BodySelect
<1>4. UpdateTree => ~stale'
  BY <1>1, Zenon DEF UpdateTree
<1> QED
  BY <1>2, <1>3, <1>4, Zenon DEF Selecting

\* Steps of the program, without edits of the Body by hand.
Unedited == (Outlining \/ Sorting \/ Selecting) /\ Bounded'

LEMMA UneditedKeeps ==
  ASSUME LinesAreTyped, OutlineInv, TreeTells, Unedited
  PROVE  OutlineInv' /\ TreeTells'
<1>1. OutlineInv'
  <2>1. Next
    BY Zenon DEF Unedited, Next
  <2> QED
    BY <2>1, NextKeeps
<1>2. OutlineTells' => TreeTells'
  BY Zenon DEF OutlineTells, TreeTells
<1>3. ~stale' => TreeTells'
  BY <1>1, <1>2, Zenon DEF OutlineInv
<1>4. OutlineInv /\ ~stale => OutlineTells /\ clip \in Seq(LineType)
  BY DEF OutlineInv, IsTyped
<1> SUFFICES TreeTells'
  BY <1>1
<1>5. CASE Operation
  BY <1>2, <1>4, <1>5, OperationIsFresh, OperationTells
<1>6. CASE \E ln \in 1 .. Len(levels), folded \in BOOLEAN :
             \/ \E as_child \in BOOLEAN : voom_OopInsert(ln, folded, as_child)
             \/ voom_OopPaste(ln, folded)
  <2>1. ASSUME NEW ln \in 1 .. Len(levels), NEW folded \in BOOLEAN, voom_OopPaste(ln, folded)
        PROVE  TreeTells'
    <3>1. ~stale
      BY <2>1, Zenon DEF voom_OopPaste
    <3>2. OutlineTells'
      BY <1>4, <2>1, <3>1, PasteTells
    <3> QED
      BY <1>2, <3>2
  <2> QED
    BY <1>6, <2>1, InsertTells, Zenon
<1>7. CASE Sorting
  <2>1. ~stale'
    <3>1. \A body, sn : updateTree(body, sn) => ~stale'
      BY Zenon DEF updateTree
    <3>2. \A siblings, deep, order : Sort(siblings, deep, order) => ~stale'
      BY <3>1, Zenon DEF Sort
    <3> QED
      BY <1>7, <3>2, Zenon DEF Sorting
  <2> QED
    BY <1>3, <2>1
<1>8. CASE Selecting
  BY <1>3, <1>8, SelectingUpdates
<1> QED
  BY <1>5, <1>6, <1>7, <1>8, Zenon DEF Unedited, Outlining

\* A headline that was just inserted is found by the next parse, in the line
\* of the Tree where it was put, and all other lines stay as they were: as long
\* as the Body is changed by the program only.
THEOREM OneLineInserted ==
  ASSUME LinesAreTyped
  PROVE  Init /\ [][Unedited]_vars /\ mode \in OneLineModes => []InsertedIsParsed
<1> DEFINE Inv == OutlineInv /\ TreeTells
<1>1. Init /\ mode \in OneLineModes => Inv
  <2>1. ~stale /\ OutlineInv => TreeTells
    BY Zenon DEF OutlineInv, OutlineTells, TreeTells
  <2>2. Init => ~stale
    BY Zenon DEF Init, Start
  <2> QED
    BY <2>1, <2>2, StartKeeps DEF Init
<1>2. Inv /\ [Unedited]_vars => Inv'
  <2>1. CASE UNCHANGED vars
    BY <2>1, StutteringKeeps DEF TreeTells, vars, outline
  <2> QED
    BY <2>1, UneditedKeeps
<1>3. Inv => InsertedIsParsed
  BY TreeTellsIsParsed
<1> HIDE DEF Inv
<1> QED
  BY <1>1, <1>2, <1>3, PTL

-----------------------------------------------------------------------------
(* The nodes of a Body and their texts.                                    *)

\* What a parse tells of the node of Tree line i.
NodeIn(bn, lv, B, i) ==
  [lev |-> lv[i], x |-> B[bn[i]].k = "marked", head |-> B[bn[i]].t,
   text |-> <<>> \o Texts(B, bn[i] + 1, EndIn(bn, B, i))]

NodesIn(bn, lv, B) == [i \in 1 .. Len(bn) - 1 |-> NodeIn(bn, lv, B, i + 1)]

\* A function computed once is itself.
LEMMA OnceIs ==
  ASSUME NEW n \in Nat, NEW f, f = [i \in 1 .. n |-> f[i]]
  PROVE  Once(f) = f
<1> DEFINE S == {f[i] : i \in 1 .. n}
<1>1. f \in [1 .. n -> S]
  OBVIOUS
<1> HIDE DEF S
<1>2. f \in Seq(S)
  BY <1>1, FunctionIsSeq
<1> QED
  BY <1>2 DEF Once

\* The line that an empty Body gets is no text.
LEMMA NoTextsOfBlank ==
  ASSUME NEW B, B = <<Blank>>
  PROVE  Texts(B, 1, 1) = Texts(B, 1, 0)
<1> DEFINE s == [j \in 1 .. 1 |-> B[1 + j - 1].t]
           u == [j \in 1 .. 0 |-> B[1 + j - 1].t]
<1>1. Texts(B, 1, 1) = NonBlank(s) /\ Texts(B, 1, 0) = NonBlank(u)
  BY DEF Texts
<1>2. Len(s) = 1 /\ s[1] = NoText
  BY DEF Blank, Text, Line
<1>3. Len(u) = 0
  OBVIOUS
<1> HIDE DEF s, u
<1> DEFINE at == Ascending({})
<1>4. {j \in 1 .. Len(s) : s[j] # NoText} = {} /\ {j \in 1 .. Len(u) : u[j] # NoText} = {}
  BY <1>2, <1>3
<1>5. at = <<>>
  <2>1. Cardinality({}) = 0
    BY FS_EmptySet
  <2> QED
    BY <2>1 DEF Ascending, Once
<1>6. NonBlank(s) = <<>> /\ NonBlank(u) = <<>>
  <2>1. NonBlank(s) = Once([i \in 1 .. Len(at) |-> s[at[i]]])
    BY <1>4, Zenon DEF NonBlank
  <2>2. NonBlank(u) = Once([i \in 1 .. Len(at) |-> u[at[i]]])
    BY <1>4, Zenon DEF NonBlank
  <2> HIDE DEF at
  <2> QED
    BY <1>5, <2>1, <2>2 DEF Once
<1> QED
  BY <1>1, <1>6

\* The forest of a Body in these modes: its nodes are those that a parse tells.
LEMMA NodesAre ==
  ASSUME mode \in OneLineModes, NEW B, NEW o, IsOutline(mode, B, o),
         NEW bn, bn = << 1 >> \o o.bnodes, NEW lv, lv = << 1 >> \o o.levels
  PROVE  NodesOf(B, o) = NodesIn(bn, lv, B) /\ TopOf(B, o) = Texts(B, 1, EndIn(bn, B, 1))
<1> DEFINE heads == HeadlinesOf(B, o)
<1>1. /\ o.bnodes \in Seq(Int) /\ o.levels \in Seq(Int) /\ Len(o.levels) = Len(o.bnodes)
      /\ \A j \in 1 .. Len(o.bnodes) :
           /\ o.tlines[j].head = B[o.bnodes[j]].t
           /\ o.tlines[j].x = (B[o.bnodes[j]].k = "marked")
  BY DEF IsOutline
<1>2. PICK n \in Nat : n = Len(o.bnodes)
  BY <1>1
<1>3. /\ Len(bn) = n + 1 /\ \A i \in 1 .. n : bn[i + 1] = o.bnodes[i] /\ lv[i + 1] = o.levels[i]
  BY <1>1, <1>2
<1>4. mode # "rest" /\ mode # "asciidoc" /\ mode \notin HashModes
  BY DEF OneLineModes, MTYPE0, HashModes
<1>5. heads = [i \in 1 .. n |-> HeadAt(o.bnodes[i], o.levels[i], o.bnodes[i], o.bnodes[i] + 1)]
  <2>1. heads = Once([i \in 1 .. n |-> HeadAt(o.bnodes[i], o.levels[i], o.bnodes[i], o.bnodes[i] + 1)])
    BY <1>2, <1>4 DEF HeadlinesOf
  <2> HIDE DEF heads
  <2> QED
    BY <2>1, OnceIs
<1>6. \A i \in 1 .. n : heads[i].next = o.bnodes[i] + 1
  <2> HIDE DEF heads
  <2> QED
    BY <1>5 DEF HeadAt
<1> DEFINE end(i) == IF i < Len(o.bnodes) THEN o.bnodes[i + 1] - 1 ELSE Len(B)
<1>7. \A i \in 1 .. n : end(i) = EndIn(bn, B, i + 1)
  BY <1>2, <1>3 DEF EndIn
<1>8. NodesOf(B, o) = Once([i \in 1 .. n |->
              [lev |-> o.levels[i], x |-> o.tlines[i].x, head |-> o.tlines[i].head,
               text |-> <<>> \o Texts(B, heads[i].next, end(i))]])
  BY <1>2, <1>4, Zenon DEF NodesOf
<1> HIDE DEF heads, end
<1> DEFINE f == [i \in 1 .. n |->
              [lev |-> o.levels[i], x |-> o.tlines[i].x, head |-> o.tlines[i].head,
               text |-> <<>> \o Texts(B, heads[i].next, end(i))]]
<1>9. NodesOf(B, o) = f
  <2>1. f = [i \in 1 .. n |-> f[i]]
    OBVIOUS
  <2> HIDE DEF f
  <2> QED
    BY <1>8, <2>1, OnceIs DEF f
<1>10. ASSUME NEW i \in 1 .. n
       PROVE  f[i] = NodeIn(bn, lv, B, i + 1)
  <2>1. f[i] = [lev |-> o.levels[i], x |-> o.tlines[i].x, head |-> o.tlines[i].head,
                text |-> <<>> \o Texts(B, heads[i].next, end(i))]
    OBVIOUS
  <2>2. o.levels[i] = lv[i + 1] /\ o.bnodes[i] = bn[i + 1]
    BY <1>3
  <2>3. o.tlines[i].x = (B[bn[i + 1]].k = "marked") /\ o.tlines[i].head = B[bn[i + 1]].t
    BY <1>1, <1>2, <2>2
  <2>4. heads[i].next = bn[i + 1] + 1 /\ end(i) = EndIn(bn, B, i + 1)
    BY <1>6, <1>7, <2>2
  <2> HIDE DEF f
  <2> QED
    BY <2>1, <2>2, <2>3, <2>4, Zenon DEF NodeIn
<1>11. NodesIn(bn, lv, B) = [i \in 1 .. n |-> NodeIn(bn, lv, B, i + 1)]
  <2>1. Len(bn) - 1 = n
    BY <1>3
  <2> QED
    BY <2>1 DEF NodesIn
<1>12. f = [i \in 1 .. n |-> f[i]]
  OBVIOUS
<1>13. TopOf(B, o) = Texts(B, 1, EndIn(bn, B, 1))
  <2>1. (IF o.bnodes = <<>> THEN Len(B) ELSE o.bnodes[1] - 1) = EndIn(bn, B, 1)
    <3>1. CASE n = 0
      <4>1. o.bnodes = <<>>
        <5>1. o.bnodes \in Seq(Int) /\ Len(o.bnodes) = 0
          BY <1>1, <1>2, <3>1
        <5> QED
          BY <5>1, EmptySeq
      <4> QED
        BY <1>3, <3>1, <4>1 DEF EndIn
    <3>2. CASE n # 0
      <4>1. o.bnodes # <<>> /\ 1 \in 1 .. n /\ bn[1 + 1] = o.bnodes[1]
        BY <1>2, <1>3, <3>2
      <4>2. bn[2] = o.bnodes[1] /\ 1 < Len(bn)
        BY <1>3, <4>1
      <4> QED
        BY <4>1, <4>2 DEF EndIn
    <3> QED
      BY <3>1, <3>2
  <2> QED
    BY <2>1, Zenon DEF TopOf
<1> HIDE DEF f
<1> QED
  BY <1>9, <1>10, <1>11, <1>12, <1>13

TopIn(bn, B) == Texts(B, 1, EndIn(bn, B, 1))

\* The forest of a Body is told by its headlines.
LEMMA NodesTold ==
  ASSUME mode \in OneLineModes, NEW bn, NEW lv, NEW B, Told(mode, bn, lv, B),
         NEW o, o = OutlineOf(mode, B)
  PROVE  NodesOf(B, o) = NodesIn(bn, lv, B) /\ TopOf(B, o) = TopIn(bn, B)
<1>1. B \in Seq(LineType) /\ B # <<>>
  BY DEF Told
<1>2. PICK c, v, T : c = << 1 >> \o o.bnodes /\ v = << 1 >> \o o.levels /\ T = <<RootLine>> \o o.tlines
  OBVIOUS
<1>3. Told(mode, c, v, B)
  BY <1>1, <1>2, ParseTells
<1>4. IsOutline(mode, B, o)
  BY <1>1, ParseIsOutline
<1>5. NodesOf(B, o) = NodesIn(c, v, B) /\ TopOf(B, o) = Texts(B, 1, EndIn(c, B, 1))
  BY <1>2, <1>4, NodesAre
<1>6. c = bn /\ v = lv
  BY <1>3, ToldIsUnique
<1> QED
  BY <1>5, <1>6 DEF TopIn

\* Lines from..to of B2 have the texts of lines f2..t2 of B, which are h below.
SameTexts(B, B2, from, to, f2, t2, h) ==
  /\ from \in Int /\ to \in Int /\ h \in Int /\ f2 = from + h /\ t2 = to + h
  /\ \A k \in from .. to : B2[k].t = B[k + h].t

AreTexts(B2, from, to, B, f2, t2) == Texts(B2, from, to) = Texts(B, f2, t2)

\* The same lines of text at other places.
LEMMA TextsMoved ==
  ASSUME NEW B, NEW B2, NEW from, NEW to, NEW f2, NEW t2, NEW h, SameTexts(B, B2, from, to, f2, t2, h)
  PROVE  AreTexts(B2, from, to, B, f2, t2)
<1>0. /\ from \in Int /\ to \in Int /\ h \in Int /\ f2 = from + h /\ t2 = to + h
      /\ \A k \in from .. to : B2[k].t = B[k + h].t
  BY DEF SameTexts
<1> DEFINE n == IF from <= to THEN to - from + 1 ELSE 0
<1>1. n \in Int /\ \A j \in 1 .. n : from + j - 1 \in from .. to /\ (from + j - 1) + h = from + h + j - 1
  BY <1>0
<1>2. (IF from + h <= to + h THEN to + h - (from + h) + 1 ELSE 0) = n
  BY <1>0
<1> HIDE DEF n
<1>3. \A j \in 1 .. n : B2[from + j - 1].t = B[from + h + j - 1].t
  BY <1>0, <1>1
<1>4. [j \in 1 .. n |-> B2[from + j - 1].t] = [j \in 1 .. n |-> B[from + h + j - 1].t]
  BY <1>3
<1>5. Texts(B2, from, to) = NonBlank([j \in 1 .. n |-> B2[from + j - 1].t])
  BY DEF Texts, n
<1>6. Texts(B, f2, t2) = NonBlank([j \in 1 .. n |-> B[f2 + j - 1].t])
  <2>1. (IF f2 <= t2 THEN t2 - f2 + 1 ELSE 0) = n
    BY <1>0, <1>2
  <2> QED
    BY <2>1 DEF Texts
<1>7. [j \in 1 .. n |-> B[f2 + j - 1].t] = [j \in 1 .. n |-> B[from + h + j - 1].t]
  BY <1>0
<1> QED
  BY <1>4, <1>5, <1>6, <1>7 DEF AreTexts

NodeType == [lev : Int, x : BOOLEAN, head : Int, text : Seq(Int)]

\* Lines of text.
LEMMA TextsType ==
  ASSUME NEW B \in Seq(LineType), NEW from \in Int, NEW to \in Int, from > 0, to <= Len(B)
  PROVE  Texts(B, from, to) \in Seq(Int)
<1> DEFINE n == IF from <= to THEN to - from + 1 ELSE 0
           s == [j \in 1 .. n |-> B[from + j - 1].t]
<1>1. n \in Nat
  OBVIOUS
<1>2. s \in [1 .. n -> Int]
  <2>1. ASSUME NEW j \in 1 .. n
        PROVE  B[from + j - 1].t \in Int
    <3>1. from + j - 1 \in 1 .. Len(B)
      BY <2>1
    <3>2. B[from + j - 1] \in LineType
      BY <3>1
    <3> QED
      BY <3>2 DEF LineType
  <2> QED
    BY <2>1
<1>3. Texts(B, from, to) = NonBlank(s)
  BY DEF Texts
<1> HIDE DEF n, s
<1> DEFINE S == {j \in 1 .. Len(s) : s[j] # NoText}
           at == Ascending(S)
<1>4. Len(s) = n /\ s \in Seq(Int)
  BY <1>1, <1>2, FunctionIsSeq
<1>5. at \in Seq(S)
  <2>1. Len(s) \in Nat /\ S \in SUBSET (1 .. Len(s))
    BY <1>1, <1>4
  <2> HIDE DEF S
  <2> QED
    BY <2>1, AscendingIs
<1>6. NonBlank(s) = Once([i \in 1 .. Len(at) |-> s[at[i]]])
  BY DEF NonBlank
<1>7. \A j \in S : s[j] \in Int
  BY <1>2, <1>4
<1> HIDE DEF at, S
<1> DEFINE f == [i \in 1 .. Len(at) |-> s[at[i]]]
<1>8. Len(at) \in Nat /\ f \in [1 .. Len(at) -> Int]
  BY <1>5, <1>7
<1>9. f \in Seq(Int)
  <2> HIDE DEF f
  <2> QED
    BY <1>8, FunctionIsSeq
<1>10. NonBlank(s) = f \o <<>>
  BY <1>6 DEF Once
<1> HIDE DEF f
<1>11. f \o <<>> = f
  BY <1>9, ConcatEmptySeq
<1> QED
  BY <1>3, <1>9, <1>10, <1>11

\* The lines of a node and its number.
LEMMA NodeIsTyped ==
  ASSUME NEW m, NEW bn, NEW lv, NEW B, Told(m, bn, lv, B), NEW i \in 2 .. Len(bn)
  PROVE  NodeIn(bn, lv, B, i) \in NodeType /\ NodeIn(bn, lv, B, i).lev = lv[i]
<1> DEFINE e == EndIn(bn, B, i)
           t == Texts(B, bn[i] + 1, e)
<1>1. B \in Seq(LineType) /\ bn[i] \in 1 .. Len(B) /\ lv[i] \in Int
  BY DEF Told
<1>2. e \in 0 .. Len(B)
  BY EndIs
<1> HIDE DEF e
<1>3. t \in Seq(Int)
  BY <1>1, <1>2, TextsType
<1>4. <<>> \o t = t
  <2> HIDE DEF t
  <2> QED
    BY <1>3, ConcatEmptySeq
<1>5. B[bn[i]].t \in Int
  <2>1. B[bn[i]] \in LineType
    BY <1>1
  <2> QED
    BY <2>1 DEF LineType
<1>6. NodeIn(bn, lv, B, i) = [lev |-> lv[i], x |-> B[bn[i]].k = "marked", head |-> B[bn[i]].t, text |-> <<>> \o t]
  BY DEF NodeIn, e
<1> HIDE DEF t
<1> QED
  BY <1>1, <1>3, <1>4, <1>5, <1>6 DEF NodeType

\* The lines of node j have become those of node i, h lines further up, and its
\* level has changed by d.
IsMovedNode(m, bn, lv, B, bn2, lv2, B2, i, j, h, d) ==
  /\ bn2[i] = bn[j] - h /\ lv2[i] = lv[j] + d
  /\ EndIn(bn2, B2, i) = EndIn(bn, B, j) - h
  /\ \A k \in bn2[i] .. EndIn(bn2, B2, i) : B2[k] = MovedLine(m, bn, B, k + h, d)

\* The node then has all of its lines.
LEMMA NodeMoves ==
  ASSUME NEW m \in OneLineModes, NEW bn, NEW lv, NEW B, Told(m, bn, lv, B),
         NEW bn2, NEW lv2, NEW B2, Told(m, bn2, lv2, B2),
         NEW i \in 2 .. Len(bn2), NEW j \in 2 .. Len(bn), NEW h \in Int, NEW d \in Int,
         IsMovedNode(m, bn, lv, B, bn2, lv2, B2, i, j, h, d)
  PROVE  NodeIn(bn2, lv2, B2, i) = [NodeIn(bn, lv, B, j) EXCEPT !.lev = lv2[i]]
<1>1. PICK b2, e2, b, e \in Int :
        /\ b2 = bn2[i] /\ e2 = EndIn(bn2, B2, i) /\ b = bn[j] /\ e = EndIn(bn, B, j)
        /\ b <= e /\ b \in 1 .. Len(B) /\ e <= Len(B)
  <2>1. bn2[i] \in Int /\ bn[j] \in 1 .. Len(B)
    BY DEF Told
  <2>2. EndIn(bn2, B2, i) \in 0 .. Len(B2) /\ EndIn(bn, B, j) \in 0 .. Len(B) /\ bn[j] <= EndIn(bn, B, j)
    <3>1. i \in 1 .. Len(bn2) /\ j \in 1 .. Len(bn) /\ j > 1
      OBVIOUS
    <3> QED
      BY <3>1, EndIs
  <2> QED
    BY <2>1, <2>2
<1>2. lv2[i] = lv[j] + d /\ b2 = b - h /\ e2 = e - h
  BY <1>1 DEF IsMovedNode
<1>10. b2 \in Int /\ e2 \in Int /\ b \in Int /\ e \in Int /\ b2 <= e2 /\ b2 + h = b /\ e2 + h = e
  <2>1. b2 = b - h /\ e2 = e - h /\ b <= e /\ b2 \in Int /\ e2 \in Int /\ b \in Int /\ e \in Int
    BY <1>1, <1>2
  <2> QED
    BY <2>1
<1>3. \A k \in b2 .. e2 : B2[k] = MovedLine(m, bn, B, k + h, d)
  BY <1>1 DEF IsMovedNode
<1>4. B2[b2].k = B[b].k /\ B2[b2].t = B[b].t
  <2>1. b2 \in b2 .. e2 /\ b2 + h = b
    BY <1>10
  <2>2. B2[b2] = WithLevel(m, B[b], d)
    BY <1>1, <1>3, <2>1 DEF MovedLine
  <2>3. B[b] \in LineType /\ LevelIn(m, B[b]) = lv[j] /\ lv[j] > 0 /\ lv[j] \in Int
    <3>1. B \in Seq(LineType) /\ lv \in Seq(Int) /\ Len(bn) = Len(lv)
      BY DEF Told
    <3>2. LevelIn(m, B[bn[j]]) = lv[j] /\ lv[j] > 0
      BY DEF Told
    <3> QED
      BY <1>1, <3>1, <3>2
  <2>4. lv2[i] > 0
    BY DEF Told
  <2>5. LevelIn(m, B[b]) > 0 /\ LevelIn(m, B[b]) + d > 0
    BY <1>2, <2>3, <2>4
  <2> QED
    BY <2>2, <2>3, <2>5, WithLevelIs
<1>5. ASSUME NEW k \in b2 + 1 .. e2
      PROVE  B2[k].t = B[k + h].t
  <2>1. k \in b2 .. e2 /\ k + h \in b + 1 .. e
    BY <1>10
  <2>2. ASSUME NEW x \in 2 .. Len(bn), bn[x] = k + h
        PROVE  FALSE
    <3>1. bn[x] <= e <=> x <= j
      <4>1. j \in 1 .. Len(bn)
        OBVIOUS
      <4>2. \A y \in 2 .. Len(bn) : bn[y] <= EndIn(bn, B, j) <=> y <= j
        BY <4>1, EndIs
      <4> QED
        BY <1>1, <4>2
    <3>2. x <= j
      BY <2>1, <2>2, <3>1
    <3>3. x < j => bn[x] < bn[j]
      BY DEF Told
    <3> QED
      BY <1>1, <2>1, <2>2, <3>2, <3>3
  <2>3. ~(\E x \in 2 .. Len(bn) : bn[x] = k + h)
    BY <2>2
  <2>4. B2[k] = MovedLine(m, bn, B, k + h, d)
    BY <1>3, <2>1
  <2> QED
    BY <2>3, <2>4 DEF MovedLine
<1>6. Texts(B2, b2 + 1, e2) = Texts(B, b + 1, e)
  <2>1. PICK f \in Int : f = b2 + 1 /\ f + h = b + 1
    BY <1>10
  <2>2. \A k \in f .. e2 : B2[k].t = B[k + h].t
    BY <1>5, <2>1
  <2>3. Texts(B2, f, e2) = Texts(B, f + h, e2 + h)
    <3>1. PICK f3, e3 : f3 = f + h /\ e3 = e2 + h
      OBVIOUS
    <3>2. SameTexts(B, B2, f, e2, f3, e3, h)
      BY <2>1, <2>2, <3>1 DEF SameTexts
    <3>3. AreTexts(B2, f, e2, B, f3, e3)
      BY <3>2, TextsMoved, Zenon
    <3> QED
      BY <3>1, <3>3 DEF AreTexts
  <2> QED
    BY <1>10, <2>1, <2>3
<1>7. NodeIn(bn2, lv2, B2, i) = [lev |-> lv2[i], x |-> B2[b2].k = "marked", head |-> B2[b2].t,
                               text |-> <<>> \o Texts(B2, b2 + 1, e2)]
  BY <1>1 DEF NodeIn
<1>8. NodeIn(bn, lv, B, j) = [lev |-> lv[j], x |-> B[b].k = "marked", head |-> B[b].t,
                               text |-> <<>> \o Texts(B, b + 1, e)]
  BY <1>1 DEF NodeIn
<1>9. NodeIn(bn2, lv2, B2, i) = [lev |-> lv2[i], x |-> B[b].k = "marked", head |-> B[b].t,
                               text |-> <<>> \o Texts(B, b + 1, e)]
  BY <1>4, <1>6, <1>7
<1> QED
  BY <1>8, <1>9

\* The line where node q begins, or the end of the Body.
StartIn(bn, B, q) == IF q <= Len(bn) THEN bn[q] ELSE Len(B) + 1

\* A node ends before the next one begins.
LEMMA EndIsStart ==
  ASSUME NEW m, NEW bn, NEW lv, NEW B, Told(m, bn, lv, B), NEW i \in 1 .. Len(bn)
  PROVE  /\ EndIn(bn, B, i) = StartIn(bn, B, i + 1) - 1
         /\ StartIn(bn, B, i) = bn[i] /\ StartIn(bn, B, i) \in Int
         /\ StartIn(bn, B, i + 1) \in Int /\ bn[i] <= StartIn(bn, B, i + 1)
         /\ i > 1 => bn[i] < StartIn(bn, B, i + 1)
<1>1. PICK N \in Nat, Z \in Nat : N = Len(bn) /\ Z = Len(B) /\ i \in 1 .. N
  BY DEF Told
<1>2. bn[i] \in 1 .. Z /\ (i < N => bn[i + 1] \in 1 .. Z)
  <2>1. B # <<>> /\ B \in Seq(LineType) /\ bn[1] = 1 /\ \A j \in 2 .. N : bn[j] \in 1 .. Z
    BY <1>1 DEF Told
  <2>2. 1 \in 1 .. Z
    BY <1>1, <2>1, EmptySeq
  <2> QED
    BY <1>1, <2>1, <2>2
<1>3. i > 1 /\ i < N => bn[i] < bn[i + 1]
  <2>1. \A x, y \in 2 .. N : x < y => bn[x] < bn[y]
    BY <1>1 DEF Told
  <2> QED
    BY <1>1, <2>1
<1>4. i = 1 => bn[i] = 1
  BY DEF Told
<1>5. EndIn(bn, B, i) = IF i < N THEN bn[i + 1] - 1 ELSE Z
  BY <1>1 DEF EndIn
<1>6. /\ StartIn(bn, B, i) = bn[i]
      /\ StartIn(bn, B, i + 1) = IF i < N THEN bn[i + 1] ELSE Z + 1
  BY <1>1 DEF StartIn
<1> QED
  BY <1>1, <1>2, <1>3, <1>4, <1>5, <1>6

\* Nodes begin one after the other.
LEMMA StartsRise ==
  ASSUME NEW m, NEW bn, NEW lv, NEW B, Told(m, bn, lv, B),
         NEW i \in 1 .. Len(bn) + 1, NEW j \in i .. Len(bn) + 1
  PROVE  /\ StartIn(bn, B, i) \in Int /\ StartIn(bn, B, j) \in Int
         /\ 1 <= StartIn(bn, B, i) /\ StartIn(bn, B, i) <= StartIn(bn, B, j)
         /\ StartIn(bn, B, j) <= Len(B) + 1
<1>1. PICK N \in Nat, Z \in Nat : N = Len(bn) /\ Z = Len(B)
  BY DEF Told
<1>2. Z >= 1
  <2>1. B # <<>> /\ B \in Seq(LineType)
    BY DEF Told
  <2> QED
    BY <1>1, <2>1, EmptySeq
<1>3. \A q \in 1 .. N : bn[q] \in 1 .. Z
  <2>1. bn[1] = 1 /\ \A q \in 2 .. N : bn[q] \in 1 .. Z
    BY <1>1 DEF Told
  <2> QED
    BY <1>2, <2>1
<1>4. \A x, y \in 1 .. N : x < y => bn[x] <= bn[y]
  <2>1. bn[1] = 1 /\ \A x, y \in 2 .. N : x < y => bn[x] < bn[y]
    BY <1>1 DEF Told
  <2> QED
    BY <1>3, <2>1
<1>5. \A q \in Int : StartIn(bn, B, q) = IF q <= N THEN bn[q] ELSE Z + 1
  BY <1>1 DEF StartIn
<1>6. i \in 1 .. N + 1 /\ j \in i .. N + 1
  BY <1>1
<1>7. i <= N => bn[i] \in 1 .. Z
  BY <1>3, <1>6
<1>8. j <= N => bn[j] \in 1 .. Z
  BY <1>3, <1>6
<1>9. i <= N /\ j <= N => bn[i] <= bn[j]
  BY <1>4, <1>6, <1>7
<1> QED
  BY <1>1, <1>5, <1>6, <1>7, <1>8, <1>9

\* Nodes a..b of the new outline, with their lines, are those s further on and h
\* lines further down in the old one, at levels changed by d.
IsMovedBlock(m, bn, lv, B, bn2, lv2, B2, a, b, s, h, d) ==
  /\ 1 < a /\ b <= Len(bn2) /\ 1 < a + s /\ b + s <= Len(bn)
  /\ \A i \in a .. b : lv2[i] = lv[i + s] + d
  /\ \A q \in a .. b + 1 : StartIn(bn2, B2, q) = StartIn(bn, B, q + s) - h
  /\ \A k \in StartIn(bn2, B2, a) .. StartIn(bn2, B2, b + 1) - 1 : B2[k] = MovedLine(m, bn, B, k + h, d)

IsNodeOf(bn, lv, B, bn2, lv2, B2, i, j) ==
  /\ i \in 2 .. Len(bn2) /\ j \in 2 .. Len(bn)
  /\ NodeIn(bn2, lv2, B2, i) = [NodeIn(bn, lv, B, j) EXCEPT !.lev = lv2[i]]

\* Nodes whose lines move together keep their text.
LEMMA BlockMoves ==
  ASSUME NEW m \in OneLineModes, NEW bn, NEW lv, NEW B, Told(m, bn, lv, B),
         NEW bn2, NEW lv2, NEW B2, Told(m, bn2, lv2, B2),
         NEW a \in Int, NEW b \in Int, NEW s \in Int, NEW h \in Int, NEW d \in Int,
         IsMovedBlock(m, bn, lv, B, bn2, lv2, B2, a, b, s, h, d), NEW i \in a .. b
  PROVE  IsNodeOf(bn, lv, B, bn2, lv2, B2, i, i + s)
<1>1. PICK N \in Nat, N2 \in Nat : N = Len(bn) /\ N2 = Len(bn2)
  BY DEF Told
<1>2. 1 < a /\ b <= N2 /\ 1 < a + s /\ b + s <= N
  BY <1>1 DEF IsMovedBlock
<1>3. PICK j \in Int : j = i + s
  OBVIOUS
<1>4. /\ i \in 2 .. N2 /\ j \in 2 .. N /\ i \in 1 .. N2 /\ j \in 1 .. N
      /\ i \in a .. b + 1 /\ i + 1 \in a .. b + 1 /\ i + 1 + s = j + 1
      /\ a \in 1 .. N2 + 1 /\ i \in a .. N2 + 1
      /\ i + 1 \in 1 .. N2 + 1 /\ b + 1 \in i + 1 .. N2 + 1
  BY <1>2, <1>3
<1>5. /\ bn2[i] = StartIn(bn2, B2, i) /\ EndIn(bn2, B2, i) = StartIn(bn2, B2, i + 1) - 1
      /\ StartIn(bn2, B2, i + 1) \in Int
  <2>1. i \in 1 .. Len(bn2)
    BY <1>1, <1>4
  <2> QED
    BY <2>1, EndIsStart
<1>6. /\ bn[j] = StartIn(bn, B, j) /\ EndIn(bn, B, j) = StartIn(bn, B, j + 1) - 1
      /\ StartIn(bn, B, j + 1) \in Int
  <2>1. j \in 1 .. Len(bn)
    BY <1>1, <1>4
  <2> QED
    BY <2>1, EndIsStart
<1>7. lv2[i] = lv[j] + d
  BY <1>3 DEF IsMovedBlock
<1>8. StartIn(bn2, B2, i) = StartIn(bn, B, j) - h /\ StartIn(bn2, B2, i + 1) = StartIn(bn, B, j + 1) - h
  BY <1>3, <1>4 DEF IsMovedBlock
<1>9. PICK x, y, u, v \in Int : /\ x = StartIn(bn2, B2, a) /\ y = StartIn(bn2, B2, i)
                                /\ u = StartIn(bn2, B2, i + 1) /\ v = StartIn(bn2, B2, b + 1)
                                /\ x <= y /\ u <= v
  <2>1. /\ StartIn(bn2, B2, a) \in Int /\ StartIn(bn2, B2, i) \in Int
        /\ StartIn(bn2, B2, a) <= StartIn(bn2, B2, i)
    <3>1. a \in 1 .. Len(bn2) + 1 /\ i \in a .. Len(bn2) + 1
      BY <1>1, <1>4
    <3> QED
      BY <3>1, StartsRise
  <2>2. PICK f, g \in Int : f = i + 1 /\ g = b + 1 /\ f \in 1 .. Len(bn2) + 1 /\ g \in f .. Len(bn2) + 1
    BY <1>1, <1>4
  <2>3. /\ StartIn(bn2, B2, f) \in Int /\ StartIn(bn2, B2, g) \in Int
        /\ StartIn(bn2, B2, f) <= StartIn(bn2, B2, g)
    BY <2>2, StartsRise
  <2> QED
    BY <2>1, <2>2, <2>3
<1>10. \A k \in y .. u - 1 : B2[k] = MovedLine(m, bn, B, k + h, d)
  <2>1. \A k \in x .. v - 1 : B2[k] = MovedLine(m, bn, B, k + h, d)
    BY <1>9 DEF IsMovedBlock
  <2>2. \A k \in y .. u - 1 : k \in x .. v - 1
    BY <1>9
  <2> QED
    BY <2>1, <2>2
<1>11. IsMovedNode(m, bn, lv, B, bn2, lv2, B2, i, j, h, d)
  <2>1. bn2[i] = y /\ EndIn(bn2, B2, i) = u - 1
    BY <1>5, <1>9
  <2>2. bn2[i] = bn[j] - h
    BY <1>5, <1>6, <1>8
  <2>3. EndIn(bn2, B2, i) = EndIn(bn, B, j) - h
    BY <1>5, <1>6, <1>8
  <2> QED
    BY <1>7, <1>10, <2>1, <2>2, <2>3 DEF IsMovedNode
<1>12. i \in 2 .. Len(bn2) /\ j \in 2 .. Len(bn)
  BY <1>1, <1>4
<1> QED
  BY <1>3, <1>11, <1>12, NodeMoves DEF IsNodeOf

\* The text before the first node stays.
LEMMA TopStays ==
  ASSUME NEW m, NEW bn, NEW lv, NEW B, Told(m, bn, lv, B), NEW bn2, NEW lv2, NEW B2, Told(m, bn2, lv2, B2),
         StartIn(bn2, B2, 2) = StartIn(bn, B, 2),
         \A k \in 1 .. StartIn(bn, B, 2) - 1 : B2[k] = B[k]
  PROVE  TopIn(bn2, B2) = TopIn(bn, B)
<1>1. 1 \in 1 .. Len(bn) /\ 1 \in 1 .. Len(bn2)
  <2>1. bn # <<>> /\ bn \in Seq(Int) /\ bn2 # <<>> /\ bn2 \in Seq(Int)
    BY DEF Told
  <2> QED
    BY <2>1, EmptySeq
<1>2. EndIn(bn, B, 1) = StartIn(bn, B, 1 + 1) - 1 /\ StartIn(bn, B, 1 + 1) \in Int
  BY <1>1, EndIsStart
<1>3. EndIn(bn2, B2, 1) = StartIn(bn2, B2, 1 + 1) - 1
  BY <1>1, EndIsStart
<1>4. PICK e \in Int, f \in Int, h \in Int :
        /\ e = StartIn(bn, B, 2) - 1 /\ f = 1 /\ h = 0 /\ e + h = e /\ f + h = 1
        /\ e = EndIn(bn, B, 1) /\ e = EndIn(bn2, B2, 1)
  BY <1>2, <1>3
<1>5. \A k \in f .. e : B2[k].t = B[k + h].t
  <2>1. \A k \in f .. e : k \in 1 .. StartIn(bn, B, 2) - 1 /\ k + h = k
    BY <1>4
  <2> QED
    BY <2>1
<1>6. SameTexts(B, B2, f, e, f, e, h)
  BY <1>4, <1>5 DEF SameTexts
<1>7. AreTexts(B2, f, e, B, f, e)
  BY <1>6, TextsMoved, Zenon
<1> QED
  BY <1>4, <1>7 DEF TopIn, AreTexts

\* Where the swapped nodes and lines begin and end.
SwapsNodes(bn, B, p, n1, n2, bl, size1, size2) ==
  /\ StartIn(bn, B, p) = bl
  /\ StartIn(bn, B, p + n1) = bl + size1
  /\ StartIn(bn, B, p + n1 + n2) = bl + size1 + size2

SwapStarts(bn, B, p, n1, n2, size1, size2, bn2, B2) ==
  /\ \A q \in (1 .. p) \cup (p + n1 + n2 .. Len(bn) + 1) : StartIn(bn2, B2, q) = StartIn(bn, B, q)
  /\ \A q \in p .. p + n2 : StartIn(bn2, B2, q) = StartIn(bn, B, q + n1) - size1
  /\ \A q \in p + n2 .. p + n2 + n1 : StartIn(bn2, B2, q) = StartIn(bn, B, q - n2) + size2

\* Where the nodes begin after two regions change places.
LEMMA SwapStartsAre ==
  ASSUME NEW m, NEW bn, NEW lv, NEW B, Told(m, bn, lv, B),
         NEW p \in Int, NEW n1 \in Int, NEW n2 \in Int,
         NEW bl \in Int, NEW size1 \in Int, NEW size2 \in Int, NEW d1 \in Int, NEW d2 \in Int,
         CanSwap(bn, lv, B, p, n1, n2, bl, size1, size2, d1, d2),
         SwapsNodes(bn, B, p, n1, n2, bl, size1, size2),
         NEW bn2, NEW lv2, NEW B2,
         IsSwapped(m, bn, lv, B, p, n1, n2, bl, size1, size2, d1, d2, bn2, lv2, B2)
  PROVE  SwapStarts(bn, B, p, n1, n2, size1, size2, bn2, B2)
<1>1. PICK N \in Nat, Z \in Nat : N = Len(bn) /\ Z = Len(B) /\ N = Len(bn2) /\ Z = Len(B2)
  BY DEF Told, IsSwapped
<1>2. p > 1 /\ n1 >= 0 /\ n2 >= 0 /\ p + n1 + n2 - 1 <= N
  BY <1>1 DEF CanSwap
<1>3. /\ \A i \in (1 .. p - 1) \cup (p + n1 + n2 .. N) : bn2[i] = bn[i]
      /\ \A i \in p .. p + n2 - 1 : bn2[i] = bn[i + n1] - size1
      /\ \A i \in p + n2 .. p + n2 + n1 - 1 : bn2[i] = bn[i - n2] + size2
  BY <1>1 DEF IsSwapped
<1>4. /\ \A q \in Int : StartIn(bn2, B2, q) = IF q <= N THEN bn2[q] ELSE Z + 1
      /\ \A q \in Int : StartIn(bn, B, q) = IF q <= N THEN bn[q] ELSE Z + 1
  BY <1>1 DEF StartIn
<1>5. \A q \in 1 .. N + 1 : StartIn(bn, B, q) \in Int
  <2>1. \A i \in 1 .. N : bn[i] \in Int
    BY <1>1 DEF Told
  <2> QED
    BY <1>4, <2>1
<1>6. /\ StartIn(bn, B, p) = bl
      /\ StartIn(bn, B, p + n1) = bl + size1
      /\ StartIn(bn, B, p + n1 + n2) = bl + size1 + size2
  BY DEF SwapsNodes
<1>7. ASSUME NEW q \in p + n1 + n2 .. N + 1
      PROVE  StartIn(bn2, B2, q) = StartIn(bn, B, q)
  <2>1. q \in Int /\ (q <= N => q \in p + n1 + n2 .. N)
    BY <1>1, <1>2
  <2> QED
    BY <1>3, <1>4, <2>1
<1>8. ASSUME NEW q \in p .. p + n2 - 1
      PROVE  StartIn(bn2, B2, q) = StartIn(bn, B, q + n1) - size1
  <2>1. q \in Int /\ q <= N /\ q + n1 \in Int /\ q + n1 <= N
    BY <1>1, <1>2
  <2> QED
    BY <1>3, <1>4, <2>1
<1>9. ASSUME NEW q \in p + n2 .. p + n2 + n1 - 1
      PROVE  StartIn(bn2, B2, q) = StartIn(bn, B, q - n2) + size2
  <2>1. q \in Int /\ q <= N /\ q - n2 \in Int /\ q - n2 <= N
    BY <1>1, <1>2
  <2> QED
    BY <1>3, <1>4, <2>1
<1>10. ASSUME NEW q \in 1 .. p - 1
       PROVE  StartIn(bn2, B2, q) = StartIn(bn, B, q)
  <2>1. q \in Int /\ q <= N
    BY <1>1, <1>2
  <2> QED
    BY <1>3, <1>4, <2>1
\* Between the blocks.
<1>11. StartIn(bn2, B2, p + n1 + n2) = StartIn(bn, B, p + n1 + n2)
  <2>1. p + n1 + n2 \in p + n1 + n2 .. N + 1
    BY <1>1, <1>2
  <2> QED
    BY <1>7, <2>1
<1>12. StartIn(bn2, B2, p + n2) = bl + size2
  <2>1. CASE n1 > 0
    <3>1. p + n2 \in p + n2 .. p + n2 + n1 - 1 /\ p + n2 - n2 = p
      BY <2>1
    <3> QED
      BY <1>6, <1>9, <3>1
  <2>2. CASE n1 = 0
    <3>1. p + n1 + n2 = p + n2 /\ p + n1 = p
      BY <2>2
    <3> QED
      BY <1>6, <1>11, <3>1
  <2> QED
    BY <1>2, <2>1, <2>2
<1>13. StartIn(bn2, B2, p) = bl
  <2>1. CASE n2 > 0
    <3>1. p \in p .. p + n2 - 1
      BY <2>1
    <3> QED
      BY <1>6, <1>8, <3>1
  <2>2. CASE n2 = 0
    <3>1. p + n1 + n2 = p + n1 /\ p + n2 = p
      BY <2>2
    <3>2. size2 = 0
      BY <1>6, <3>1
    <3> QED
      BY <1>12, <3>1, <3>2
  <2> QED
    BY <1>2, <2>1, <2>2
<1>14. \A q \in (1 .. p) \cup (p + n1 + n2 .. N + 1) : StartIn(bn2, B2, q) = StartIn(bn, B, q)
  <2>1. ASSUME NEW q \in Int, q \in 1 .. p
        PROVE  StartIn(bn2, B2, q) = StartIn(bn, B, q)
    BY <1>6, <1>10, <1>13, <2>1
  <2> QED
    BY <1>7, <2>1
<1>15. ASSUME NEW q \in p .. p + n2
       PROVE  StartIn(bn2, B2, q) = StartIn(bn, B, q + n1) - size1
  <2>1. CASE q = p + n2
    <3>1. q + n1 = p + n1 + n2
      BY <2>1
    <3> QED
      BY <1>6, <1>12, <2>1, <3>1
  <2>2. CASE q # p + n2
    <3>1. q \in p .. p + n2 - 1
      BY <2>2
    <3> QED
      BY <1>8, <3>1
  <2> QED
    BY <2>1, <2>2
<1>16. ASSUME NEW q \in p + n2 .. p + n2 + n1
       PROVE  StartIn(bn2, B2, q) = StartIn(bn, B, q - n2) + size2
  <2>1. CASE q = p + n2 + n1
    <3>1. q - n2 = p + n1 /\ q = p + n1 + n2
      BY <2>1
    <3> QED
      BY <1>6, <1>11, <3>1
  <2>2. CASE q # p + n2 + n1
    <3>1. q \in p + n2 .. p + n2 + n1 - 1
      BY <2>2
    <3> QED
      BY <1>9, <3>1
  <2> QED
    BY <2>1, <2>2
<1> QED
  BY <1>1, <1>14, <1>15, <1>16 DEF SwapStarts

\* Node i of the new outline is node o[i] of the old one at another level.
AreRenumbered(bn, lv, B, bn2, lv2, B2, o) ==
  \A i \in 2 .. Len(bn2) : IsNodeOf(bn, lv, B, bn2, lv2, B2, i, o[i])

\* No line goes from one node to another when nodes are swapped.
LEMMA SwapKeepsNodes ==
  ASSUME NEW m \in OneLineModes, NEW bn, NEW lv, NEW B, Told(m, bn, lv, B),
         NEW p \in Int, NEW n1 \in Int, NEW n2 \in Int,
         NEW bl \in Int, NEW size1 \in Int, NEW size2 \in Int, NEW d1 \in Int, NEW d2 \in Int,
         CanSwap(bn, lv, B, p, n1, n2, bl, size1, size2, d1, d2),
         SwapsNodes(bn, B, p, n1, n2, bl, size1, size2),
         NEW bn2, NEW lv2, NEW B2, Told(m, bn2, lv2, B2),
         IsSwapped(m, bn, lv, B, p, n1, n2, bl, size1, size2, d1, d2, bn2, lv2, B2)
  PROVE  /\ AreRenumbered(bn, lv, B, bn2, lv2, B2, SwapOrigin(p, n1, n2))
         /\ TopIn(bn2, B2) = TopIn(bn, B)
<1>1. PICK N \in Nat, Z \in Nat : N = Len(bn) /\ Z = Len(B) /\ N = Len(bn2) /\ Z = Len(B2)
  BY DEF Told, IsSwapped
<1>2. /\ p > 1 /\ n1 >= 0 /\ n2 >= 0 /\ p + n1 + n2 - 1 <= N
      /\ bl > 0 /\ size1 >= 0 /\ size2 >= 0 /\ bl + size1 + size2 - 1 <= Z
  BY <1>1 DEF CanSwap
<1>3. /\ \A i \in (1 .. p - 1) \cup (p + n1 + n2 .. N) : lv2[i] = lv[i]
      /\ \A i \in p .. p + n2 - 1 : lv2[i] = lv[i + n1] + d2
      /\ \A i \in p + n2 .. p + n2 + n1 - 1 : lv2[i] = lv[i - n2] + d1
  BY <1>1 DEF IsSwapped
<1>4. /\ \A q \in (1 .. p) \cup (p + n1 + n2 .. N + 1) : StartIn(bn2, B2, q) = StartIn(bn, B, q)
      /\ \A q \in p .. p + n2 : StartIn(bn2, B2, q) = StartIn(bn, B, q + n1) - size1
      /\ \A q \in p + n2 .. p + n2 + n1 : StartIn(bn2, B2, q) = StartIn(bn, B, q - n2) + size2
  <2>1. SwapStarts(bn, B, p, n1, n2, size1, size2, bn2, B2)
    BY SwapStartsAre, Zenon
  <2> QED
    BY <1>1, <2>1 DEF SwapStarts
<1>5. /\ \A k \in (1 .. bl - 1) \cup (bl + size1 + size2 .. Z) : B2[k] = B[k]
      /\ \A k \in bl .. bl + size2 - 1 : B2[k] = MovedLine(m, bn, B, k + size1, d2)
      /\ \A k \in bl + size2 .. bl + size2 + size1 - 1 : B2[k] = MovedLine(m, bn, B, k - size2, d1)
  BY <1>1 DEF IsSwapped
<1>6. /\ StartIn(bn, B, p) = bl
      /\ StartIn(bn, B, p + n1) = bl + size1
      /\ StartIn(bn, B, p + n1 + n2) = bl + size1 + size2
  BY DEF SwapsNodes
<1>7. \A i \in 1 .. N : lv[i] \in Int
  <2>1. lv \in Seq(Int) /\ Len(lv) = N
    BY <1>1 DEF Told
  <2> QED
    BY <2>1
<1>8. \A i \in 1 .. N + 1 : 1 <= StartIn(bn, B, i) /\ StartIn(bn, B, i) \in Int /\ StartIn(bn, B, i) <= Z + 1
  <2>1. ASSUME NEW i \in 1 .. Len(bn) + 1
        PROVE  1 <= StartIn(bn, B, i) /\ StartIn(bn, B, i) \in Int /\ StartIn(bn, B, i) <= Len(B) + 1
    <3>1. i \in i .. Len(bn) + 1
      BY <1>1
    <3> QED
      BY <3>1, StartsRise
  <2> QED
    BY <1>1, <2>1
<1> DEFINE moved(a, b, s, h, d) == IsMovedBlock(m, bn, lv, B, bn2, lv2, B2, a, b, s, h, d)
           o == SwapOrigin(p, n1, n2)
           node(i) == IsNodeOf(bn, lv, B, bn2, lv2, B2, i, o[i])
<1>9. moved(2, p - 1, 0, 0, 0)
  <2>1. p - 1 <= Len(bn2) /\ p - 1 + 0 <= Len(bn)
    BY <1>1, <1>2
  <2>2. \A i \in 2 .. p - 1 : lv2[i] = lv[i + 0] + 0
    <3>1. \A i \in 2 .. p - 1 : i + 0 = i /\ i \in 1 .. p - 1 /\ i \in 1 .. N
      BY <1>2
    <3> QED
      BY <1>3, <1>7, <3>1
  <2>3. \A q \in 2 .. p - 1 + 1 : StartIn(bn2, B2, q) = StartIn(bn, B, q + 0) - 0
    <3>1. \A q \in 2 .. p - 1 + 1 : q + 0 = q /\ q \in 1 .. p /\ q \in 1 .. N + 1
      BY <1>2
    <3> QED
      BY <1>4, <1>8, <3>1
  <2>4. ASSUME NEW k \in StartIn(bn2, B2, 2) .. StartIn(bn2, B2, p - 1 + 1) - 1
        PROVE  B2[k] = MovedLine(m, bn, B, k + 0, 0)
    <3>1. p - 1 + 1 = p /\ p \in 1 .. p /\ 2 \in 1 .. p /\ 2 \in 1 .. N + 1
      BY <1>2
    <3>2. k \in 1 .. bl - 1 /\ k + 0 = k
      BY <1>4, <1>6, <1>8, <3>1
    <3> QED
      BY <1>5, <3>2, NotMoved
  <2>5. 1 < 2 /\ 1 < 2 + 0
    OBVIOUS
  <2> QED
    BY <2>1, <2>2, <2>3, <2>4, <2>5 DEF IsMovedBlock
<1>10. moved(p + n1 + n2, N, 0, 0, 0)
  <2>1. N <= Len(bn2) /\ N + 0 <= Len(bn) /\ 1 < p + n1 + n2 /\ 1 < p + n1 + n2 + 0
    BY <1>1, <1>2
  <2>2. \A i \in p + n1 + n2 .. N : lv2[i] = lv[i + 0] + 0
    <3>1. \A i \in p + n1 + n2 .. N : i + 0 = i /\ i \in 1 .. N
      BY <1>2
    <3> QED
      BY <1>3, <1>7, <3>1
  <2>3. \A q \in p + n1 + n2 .. N + 1 : StartIn(bn2, B2, q) = StartIn(bn, B, q + 0) - 0
    <3>1. \A q \in p + n1 + n2 .. N + 1 : q + 0 = q /\ q \in 1 .. N + 1
      BY <1>2
    <3> QED
      BY <1>4, <1>8, <3>1
  <2>4. ASSUME NEW k \in StartIn(bn2, B2, p + n1 + n2) .. StartIn(bn2, B2, N + 1) - 1
        PROVE  B2[k] = MovedLine(m, bn, B, k + 0, 0)
    <3>1. p + n1 + n2 \in p + n1 + n2 .. N + 1 /\ N + 1 \in p + n1 + n2 .. N + 1 /\ N + 1 \in 1 .. N + 1
      BY <1>2
    <3>2. k \in bl + size1 + size2 .. Z /\ k + 0 = k
      BY <1>4, <1>6, <1>8, <3>1
    <3> QED
      BY <1>5, <3>2, NotMoved
  <2> QED
    BY <2>1, <2>2, <2>3, <2>4 DEF IsMovedBlock
<1>11. moved(p, p + n2 - 1, n1, size1, d2)
  <2>1. p + n2 - 1 <= Len(bn2) /\ p + n2 - 1 + n1 <= Len(bn) /\ 1 < p /\ 1 < p + n1
    BY <1>1, <1>2
  <2>2. \A q \in p .. p + n2 - 1 + 1 : StartIn(bn2, B2, q) = StartIn(bn, B, q + n1) - size1
    <3>1. p + n2 - 1 + 1 = p + n2
      OBVIOUS
    <3> QED
      BY <1>4, <3>1
  <2>3. ASSUME NEW k \in StartIn(bn2, B2, p) .. StartIn(bn2, B2, p + n2 - 1 + 1) - 1
        PROVE  B2[k] = MovedLine(m, bn, B, k + size1, d2)
    <3>1. p + n2 - 1 + 1 = p + n2 /\ p + n2 \in p .. p + n2 /\ p \in p .. p + n2 /\ p + n2 + n1 = p + n1 + n2
      BY <1>2
    <3>2. k \in bl .. bl + size2 - 1
      BY <1>4, <1>6, <3>1
    <3> QED
      BY <1>5, <3>2
  <2> QED
    BY <1>3, <2>1, <2>2, <2>3 DEF IsMovedBlock
<1>12. moved(p + n2, p + n2 + n1 - 1, 0 - n2, 0 - size2, d1)
  <2>1. /\ p + n2 + n1 - 1 <= Len(bn2) /\ p + n2 + n1 - 1 + (0 - n2) <= Len(bn)
        /\ 1 < p + n2 /\ 1 < p + n2 + (0 - n2)
    BY <1>1, <1>2
  <2>2. \A i \in p + n2 .. p + n2 + n1 - 1 : lv2[i] = lv[i + (0 - n2)] + d1
    <3>1. \A i \in Int : i + (0 - n2) = i - n2
      OBVIOUS
    <3> QED
      BY <1>3, <3>1
  <2>3. \A q \in p + n2 .. p + n2 + n1 - 1 + 1 : StartIn(bn2, B2, q) = StartIn(bn, B, q + (0 - n2)) - (0 - size2)
    <3>1. p + n2 + n1 - 1 + 1 = p + n2 + n1
      OBVIOUS
    <3>2. \A q \in p + n2 .. p + n2 + n1 : q + (0 - n2) = q - n2 /\ q - n2 \in 1 .. N + 1
      BY <1>2
    <3> QED
      BY <1>4, <1>8, <3>1, <3>2
  <2>4. ASSUME NEW k \in StartIn(bn2, B2, p + n2) .. StartIn(bn2, B2, p + n2 + n1 - 1 + 1) - 1
        PROVE  B2[k] = MovedLine(m, bn, B, k + (0 - size2), d1)
    <3>1. /\ p + n2 + n1 - 1 + 1 = p + n2 + n1 /\ p + n2 + n1 \in p + n2 .. p + n2 + n1
          /\ p + n2 \in p + n2 .. p + n2 + n1 /\ p + n2 + n1 - n2 = p + n1 /\ p + n2 - n2 = p
      BY <1>2
    <3>2. StartIn(bn2, B2, p + n2 + n1) = bl + size1 + size2 /\ StartIn(bn2, B2, p + n2) = bl + size2
      BY <1>4, <1>6, <3>1
    <3>3. k \in bl + size2 .. bl + size2 + size1 - 1 /\ k + (0 - size2) = k - size2
      BY <1>6, <3>1, <3>2
    <3> QED
      BY <1>5, <3>3
  <2> QED
    BY <2>1, <2>2, <2>3, <2>4 DEF IsMovedBlock
<1>13. ASSUME NEW i \in Int
       PROVE  o[i] = IF i \in p .. p + n2 - 1 THEN i + n1
                     ELSE IF i \in p + n2 .. p + n2 + n1 - 1 THEN i - n2 ELSE i
  BY DEF SwapOrigin
<1>14. ASSUME NEW a \in Int, NEW b \in Int, NEW s \in Int, NEW h \in Int, NEW d \in Int,
              moved(a, b, s, h, d), NEW i \in a .. b
       PROVE  IsNodeOf(bn, lv, B, bn2, lv2, B2, i, i + s)
  BY <1>14, BlockMoves
<1> HIDE DEF moved, o
<1>15. ASSUME NEW i \in 2 .. N
       PROVE  node(i)
  <2>1. CASE i < p
    <3>1. PICK b \in Int, c \in Int : b = p - 1 /\ c = 2 /\ i \in c .. b /\ i + 0 = i /\ o[i] = i
      BY <1>2, <1>13, <2>1
    <3>2. moved(c, b, 0, 0, 0) /\ 0 \in Int
      BY <1>9, <3>1
    <3>3. IsNodeOf(bn, lv, B, bn2, lv2, B2, i, i + 0)
      BY <1>14, <3>1, <3>2
    <3> QED
      BY <3>1, <3>3
  <2>2. CASE i >= p + n1 + n2
    <3>1. PICK c \in Int : c = p + n1 + n2 /\ i \in c .. N /\ i + 0 = i /\ o[i] = i
      BY <1>2, <1>13, <2>2
    <3>2. moved(c, N, 0, 0, 0) /\ 0 \in Int /\ N \in Int
      BY <1>10, <3>1
    <3>3. IsNodeOf(bn, lv, B, bn2, lv2, B2, i, i + 0)
      BY <1>14, <3>1, <3>2
    <3> QED
      BY <3>1, <3>3
  <2>3. CASE p <= i /\ i < p + n2
    <3>1. PICK b \in Int : b = p + n2 - 1 /\ i \in p .. b /\ o[i] = i + n1
      BY <1>2, <1>13, <2>3
    <3>2. moved(p, b, n1, size1, d2)
      BY <1>11, <3>1
    <3>3. IsNodeOf(bn, lv, B, bn2, lv2, B2, i, i + n1)
      BY <1>14, <3>1, <3>2
    <3> QED
      BY <3>1, <3>3
  <2>4. CASE p + n2 <= i /\ i < p + n1 + n2
    <3>1. PICK c \in Int, b \in Int, s \in Int, h \in Int :
            /\ c = p + n2 /\ b = p + n2 + n1 - 1 /\ s = 0 - n2 /\ h = 0 - size2
            /\ i \in c .. b /\ o[i] = i + s
      BY <1>2, <1>13, <2>4
    <3>2. moved(c, b, s, h, d1)
      BY <1>12, <3>1
    <3>3. IsNodeOf(bn, lv, B, bn2, lv2, B2, i, i + s)
      BY <1>14, <3>1, <3>2
    <3> QED
      BY <3>1, <3>3
  <2> QED
    BY <1>2, <2>1, <2>2, <2>3, <2>4
<1>16. AreRenumbered(bn, lv, B, bn2, lv2, B2, o)
  BY <1>1, <1>15 DEF AreRenumbered
<1>17. TopIn(bn2, B2) = TopIn(bn, B)
  <2>1. 2 \in 1 .. p /\ 2 \in 1 .. N + 1 /\ p \in 2 .. N + 1
    BY <1>1, <1>2
  <2>2. StartIn(bn2, B2, 2) = StartIn(bn, B, 2)
    BY <1>4, <2>1
  <2>3. StartIn(bn, B, 2) \in Int /\ StartIn(bn, B, 2) <= bl
    BY <1>1, <1>6, <2>1, StartsRise
  <2>4. \A k \in 1 .. StartIn(bn, B, 2) - 1 : B2[k] = B[k]
    <3>1. \A k \in 1 .. StartIn(bn, B, 2) - 1 : k \in 1 .. bl - 1
      BY <2>3
    <3> QED
      BY <1>5, <3>1
  <2> QED
    BY <2>2, <2>4, TopStays
<1> QED
  BY <1>16, <1>17 DEF o

\* Lines that stay the same have moved without a change.
LEMMA LinesStay ==
  ASSUME NEW m, NEW bn, NEW B, NEW B2, NEW a \in Int, NEW b \in Int, NEW h \in Int,
         \A k \in a .. b : B2[k] = B[k + h]
  PROVE  \A k \in a .. b : B2[k] = MovedLine(m, bn, B, k + h, 0)
BY NotMoved

\* The numbers of lines and nodes.
LEMMA StartsAre ==
  ASSUME NEW m, NEW bn, NEW lv, NEW B, Told(m, bn, lv, B)
  PROVE  /\ \A i \in 1 .. Len(bn) + 1 : 1 <= StartIn(bn, B, i) /\ StartIn(bn, B, i) \in Int /\ StartIn(bn, B, i) <= Len(B) + 1
         /\ \A i \in 1 .. Len(bn) : lv[i] \in Int /\ bn[i] \in Int
         /\ \A i \in 1 .. Len(bn) + 1 : \A j \in i .. Len(bn) + 1 : StartIn(bn, B, i) <= StartIn(bn, B, j)
         /\ Len(bn) \in Nat /\ Len(bn) >= 1 /\ Len(B) \in Nat /\ Len(B) >= 1 /\ Len(lv) = Len(bn)
<1>1. PICK N \in Nat, Z \in Nat : N = Len(bn) /\ Z = Len(B) /\ N >= 1 /\ Z >= 1
  <2>1. bn # <<>> /\ bn \in Seq(Int) /\ B # <<>> /\ B \in Seq(LineType)
    BY DEF Told
  <2> QED
    BY <2>1, EmptySeq
<1>2. ASSUME NEW i \in 1 .. N + 1, NEW j \in i .. N + 1
      PROVE  /\ 1 <= StartIn(bn, B, i) /\ StartIn(bn, B, i) \in Int /\ StartIn(bn, B, j) <= Z + 1
             /\ StartIn(bn, B, i) <= StartIn(bn, B, j)
  BY <1>1, StartsRise
<1>3. ASSUME NEW i \in 1 .. N + 1
      PROVE  1 <= StartIn(bn, B, i) /\ StartIn(bn, B, i) \in Int /\ StartIn(bn, B, i) <= Z + 1
  <2>1. i \in i .. N + 1
    OBVIOUS
  <2> QED
    BY <1>2, <2>1
<1>4. Len(lv) = N /\ \A i \in 1 .. N : lv[i] \in Int /\ bn[i] \in Int
  <2>1. lv \in Seq(Int) /\ bn \in Seq(Int) /\ Len(bn) = Len(lv)
    BY DEF Told
  <2> QED
    BY <1>1, <2>1
<1> QED
  BY <1>1, <1>2, <1>3, <1>4

\* Where the removed nodes begin and end, and what is left of the Body.
TrimsNodes(bn, B, p, n, bl, size, B2) ==
  /\ StartIn(bn, B, p) = bl
  /\ StartIn(bn, B, p + n) = bl + size
  /\ IF size < Len(B) THEN /\ Len(B2) = Len(B) - size
                           /\ \A k \in 1 .. bl - 1 : B2[k] = B[k]
                           /\ \A k \in bl .. Len(B) - size : B2[k] = B[k + size]
                      ELSE B2 = <<Blank>> /\ Len(bn) - n = 1

\* No line goes from one node to another when nodes are removed.
LEMMA TrimKeepsNodes ==
  ASSUME NEW m \in OneLineModes, NEW bn, NEW lv, NEW B, Told(m, bn, lv, B),
         NEW p \in Int, NEW n \in Int, NEW bl \in Int, NEW size \in Int,
         CanTrim(bn, B, p, n, bl, size),
         NEW bn2, NEW lv2, NEW B2, Told(m, bn2, lv2, B2), TrimsNodes(bn, B, p, n, bl, size, B2),
         IsTrimmed(bn, lv, B, p, n, bl, size, bn2, lv2, B2)
  PROVE  /\ AreRenumbered(bn, lv, B, bn2, lv2, B2, TrimOrigin(p, n))
         /\ TopIn(bn2, B2) = TopIn(bn, B)
<1>1. PICK N \in Nat, Z \in Nat, N2 \in Nat : N = Len(bn) /\ Z = Len(B) /\ N2 = Len(bn2) /\ N2 = N - n
  BY DEF Told, IsTrimmed
<1>2. /\ p > 1 /\ n >= 0 /\ p + n - 1 <= N
      /\ bl > 0 /\ size >= 0 /\ bl + size - 1 <= Z
  BY <1>1 DEF CanTrim
<1>3. /\ \A i \in 1 .. p - 1 : bn2[i] = bn[i] /\ lv2[i] = lv[i]
      /\ \A i \in p .. N2 : bn2[i] = bn[i + n] - size /\ lv2[i] = lv[i + n]
  BY <1>1 DEF IsTrimmed
<1>4. StartIn(bn, B, p) = bl /\ StartIn(bn, B, p + n) = bl + size
  BY DEF TrimsNodes
<1>5. /\ \A i \in 1 .. N + 1 : 1 <= StartIn(bn, B, i) /\ StartIn(bn, B, i) \in Int /\ StartIn(bn, B, i) <= Z + 1
      /\ \A i \in 1 .. N : lv[i] \in Int /\ bn[i] \in Int
      /\ \A i \in 1 .. N + 1 : \A j \in i .. N + 1 : StartIn(bn, B, i) <= StartIn(bn, B, j)
  BY <1>1, StartsAre
<1> DEFINE o == TrimOrigin(p, n)
           moved(a, b, s, h) == IsMovedBlock(m, bn, lv, B, bn2, lv2, B2, a, b, s, h, 0)
           node(i) == IsNodeOf(bn, lv, B, bn2, lv2, B2, i, o[i])
<1>6. CASE size < Z
  <2>1. PICK Z2 \in Nat : Z2 = Len(B2) /\ Z2 = Z - size
    <3>1. Len(B2) = Z - size
      BY <1>1, <1>6 DEF TrimsNodes
    <3>2. Z - size \in Nat
      BY <1>2, <1>6
    <3> QED
      BY <3>1, <3>2
  <2>2. /\ \A k \in 1 .. bl - 1 : B2[k] = B[k]
        /\ \A k \in bl .. Z2 : B2[k] = B[k + size]
    BY <1>1, <1>6, <2>1 DEF TrimsNodes
  <2>3. /\ \A q \in Int : StartIn(bn2, B2, q) = IF q <= N2 THEN bn2[q] ELSE Z2 + 1
        /\ \A q \in Int : StartIn(bn, B, q) = IF q <= N THEN bn[q] ELSE Z + 1
    BY <1>1, <2>1 DEF StartIn
  <2>4. ASSUME NEW q \in p .. N2 + 1
        PROVE  StartIn(bn2, B2, q) = StartIn(bn, B, q + n) - size
    <3>1. CASE q <= N2
      <4>1. q \in p .. N2 /\ q + n <= N /\ q + n \in Int
        BY <1>1, <3>1
      <4> QED
        BY <1>3, <2>3, <3>1, <4>1
    <3>2. CASE q > N2
      <4>1. q + n \in Int /\ ~(q + n <= N) /\ ~(q <= N2) /\ q \in Int
        BY <1>1, <3>2
      <4>2. StartIn(bn2, B2, q) = Z2 + 1 /\ StartIn(bn, B, q + n) = Z + 1
        BY <2>3, <4>1
      <4> QED
        BY <2>1, <4>2
    <3> QED
      BY <1>1, <1>2, <3>1, <3>2
  <2>5. ASSUME NEW q \in 1 .. p
        PROVE  StartIn(bn2, B2, q) = StartIn(bn, B, q)
    <3>1. CASE q < p
      <4>1. q \in 1 .. p - 1 /\ q <= N2 /\ q <= N
        BY <1>1, <1>2, <3>1
      <4> QED
        BY <1>3, <2>3, <4>1
    <3>2. CASE q = p
      <4>1. p \in p .. N2 + 1
        BY <1>1, <1>2
      <4>2. StartIn(bn2, B2, p) = StartIn(bn, B, p + n) - size
        BY <2>4, <4>1
      <4> QED
        BY <1>4, <3>2, <4>2
    <3> QED
      BY <3>1, <3>2
  <2>6. moved(2, p - 1, 0, 0)
    <3>1. p - 1 <= Len(bn2) /\ p - 1 + 0 <= Len(bn)
      BY <1>1, <1>2
    <3>2. \A i \in 2 .. p - 1 : lv2[i] = lv[i + 0] + 0
      <4>1. \A i \in 2 .. p - 1 : i + 0 = i /\ i \in 1 .. p - 1 /\ i \in 1 .. N
        BY <1>2
      <4> QED
        BY <1>3, <1>5, <4>1
    <3>3. \A q \in 2 .. p - 1 + 1 : StartIn(bn2, B2, q) = StartIn(bn, B, q + 0) - 0
      <4>1. \A q \in 2 .. p - 1 + 1 : q + 0 = q /\ q \in 1 .. p /\ q \in 1 .. N + 1
        BY <1>2
      <4> QED
        BY <1>5, <2>5, <4>1
    <3>4. \A k \in StartIn(bn2, B2, 2) .. StartIn(bn2, B2, p - 1 + 1) - 1 : B2[k] = MovedLine(m, bn, B, k + 0, 0)
      <4>1. p - 1 + 1 = p /\ p \in 1 .. p /\ 2 \in 1 .. p /\ 2 \in 1 .. N + 1
        BY <1>2
      <4>2. \A k \in StartIn(bn2, B2, 2) .. StartIn(bn2, B2, p - 1 + 1) - 1 : k \in 1 .. bl - 1 /\ k + 0 = k
        BY <1>4, <1>5, <2>5, <4>1
      <4> QED
        BY <2>2, <4>2, NotMoved
    <3>5. 1 < 2 /\ 1 < 2 + 0
      OBVIOUS
    <3> QED
      BY <3>1, <3>2, <3>3, <3>4, <3>5 DEF IsMovedBlock
  <2>7. moved(p, N2, n, size)
    <3>1. N2 <= Len(bn2) /\ N2 + n <= Len(bn) /\ 1 < p /\ 1 < p + n
      BY <1>1, <1>2
    <3>2. \A i \in p .. N2 : lv2[i] = lv[i + n] + 0
      <4>1. \A i \in p .. N2 : i + n \in 1 .. N
        BY <1>1, <1>2
      <4> QED
        BY <1>3, <1>5, <4>1
    <3>3. \A k \in StartIn(bn2, B2, p) .. StartIn(bn2, B2, N2 + 1) - 1 : B2[k] = MovedLine(m, bn, B, k + size, 0)
      <4>1. p \in 1 .. p /\ N2 + 1 \in p .. N2 + 1 /\ N2 + 1 + n = N + 1
        BY <1>1, <1>2
      <4>2. StartIn(bn, B, N + 1) = Z + 1
        BY <2>3
      <4>3. \A k \in StartIn(bn2, B2, p) .. StartIn(bn2, B2, N2 + 1) - 1 : k \in bl .. Z2
        BY <1>4, <2>1, <2>4, <2>5, <4>1, <4>2
      <4> QED
        BY <2>2, <4>3, NotMoved
    <3> QED
      BY <2>4, <3>1, <3>2, <3>3 DEF IsMovedBlock
  <2>8. ASSUME NEW a \in Int, NEW b \in Int, NEW s \in Int, NEW h \in Int,
               moved(a, b, s, h), NEW i \in a .. b
        PROVE  IsNodeOf(bn, lv, B, bn2, lv2, B2, i, i + s)
    <3>1. PICK d \in Int : d = 0
      OBVIOUS
    <3>2. IsMovedBlock(m, bn, lv, B, bn2, lv2, B2, a, b, s, h, d)
      BY <2>8, <3>1
    <3> QED
      BY <3>2, BlockMoves
  <2>9. ASSUME NEW i \in 2 .. N2
        PROVE  node(i)
    <3>1. o[i] = IF i < p THEN i ELSE i + n
      BY DEF TrimOrigin
    <3> HIDE DEF o, moved
    <3>2. CASE i < p
      <4>1. PICK b \in Int, c \in Int, z \in Int :
              z = 0 /\ b = p - 1 /\ c = 2 /\ i \in c .. b /\ i + z = i /\ o[i] = i
        BY <1>2, <3>1, <3>2
      <4>2. moved(c, b, z, z)
        BY <2>6, <4>1
      <4>3. IsNodeOf(bn, lv, B, bn2, lv2, B2, i, i + z)
        BY <2>8, <4>1, <4>2
      <4> QED
        BY <4>1, <4>3
    <3>3. CASE i >= p
      <4>1. i \in p .. N2 /\ o[i] = i + n /\ N2 \in Int
        BY <1>2, <3>1, <3>3
      <4>2. IsNodeOf(bn, lv, B, bn2, lv2, B2, i, i + n)
        BY <2>7, <2>8, <4>1
      <4> QED
        BY <4>1, <4>2
    <3> QED
      BY <1>2, <3>2, <3>3
  <2>10. AreRenumbered(bn, lv, B, bn2, lv2, B2, o)
    BY <1>1, <2>9 DEF AreRenumbered
  <2>11. TopIn(bn2, B2) = TopIn(bn, B)
    <3>1. 2 \in 1 .. p /\ 2 \in 1 .. N + 1 /\ p \in 2 .. N + 1
      BY <1>1, <1>2
    <3>2. StartIn(bn2, B2, 2) = StartIn(bn, B, 2)
      BY <2>5, <3>1
    <3>3. StartIn(bn, B, 2) \in Int /\ StartIn(bn, B, 2) <= bl
      BY <1>4, <1>5, <3>1
    <3>4. \A k \in 1 .. StartIn(bn, B, 2) - 1 : B2[k] = B[k]
      <4>1. \A k \in 1 .. StartIn(bn, B, 2) - 1 : k \in 1 .. bl - 1
        BY <3>3
      <4> QED
        BY <2>2, <4>1
    <3> QED
      BY <3>2, <3>4, TopStays
  <2> QED
    BY <2>10, <2>11
<1>7. CASE ~(size < Z)
  <2>1. B2 = <<Blank>> /\ N2 = 1 /\ bl = 1
    BY <1>1, <1>2, <1>7 DEF TrimsNodes
  <2>2. AreRenumbered(bn, lv, B, bn2, lv2, B2, o)
    <3>1. ~ \E i \in 2 .. Len(bn2) : TRUE
      BY <1>1, <2>1
    <3> QED
      BY <3>1 DEF AreRenumbered
  <2>3. TopIn(bn2, B2) = Texts(B2, 1, 1)
    <3>1. Len(bn2) = 1 /\ Len(B2) = 1
      BY <1>1, <2>1
    <3>2. EndIn(bn2, B2, 1) = 1
      BY <3>1 DEF EndIn
    <3> QED
      BY <3>2 DEF TopIn
  <2>4. Texts(B2, 1, 1) = Texts(B2, 1, 0)
    BY <2>1, NoTextsOfBlank
  <2>5. TopIn(bn, B) = Texts(B, 1, 0)
    <3>1. /\ 1 \in 1 .. Len(bn) /\ 2 \in 1 .. N + 1 /\ p \in 2 .. N + 1
      BY <1>1, <1>2
    <3>2. EndIn(bn, B, 1) = StartIn(bn, B, 1 + 1) - 1
      BY <3>1, EndIsStart
    <3>3. StartIn(bn, B, 2) <= 1 /\ 1 <= StartIn(bn, B, 2) /\ StartIn(bn, B, 2) \in Int
      BY <1>4, <1>5, <2>1, <3>1
    <3>4. EndIn(bn, B, 1) = 0
      BY <3>2, <3>3
    <3> QED
      BY <3>4 DEF TopIn
  <2>6. Texts(B2, 1, 0) = Texts(B, 1, 0)
    <3>1. PICK f \in Int, e \in Int : f = 1 /\ e = 0 /\ f + e = 1 /\ e + e = 0
      OBVIOUS
    <3>2. \A k \in f .. e : B2[k].t = B[k + e].t
      BY <3>1
    <3>4. SameTexts(B, B2, f, e, f, e, e)
      BY <3>1, <3>2 DEF SameTexts
    <3>3. AreTexts(B2, f, e, B, f, e)
      BY <3>4, TextsMoved, Zenon
    <3> QED
      BY <3>1, <3>3 DEF AreTexts
  <2> QED
    BY <2>2, <2>3, <2>4, <2>5, <2>6
<1> QED
  BY <1>6, <1>7

\* The nodes of the clipboard are between the others.
AreJoined(bn, lv, B, cn, cv, C, bn2, lv2, B2, r, n) ==
  /\ Len(bn2) = Len(bn) + n
  /\ \A i \in 2 .. r : IsNodeOf(bn, lv, B, bn2, lv2, B2, i, i)
  /\ \A j \in 1 .. n : IsNodeOf(cn, cv, C, bn2, lv2, B2, r + j, j + 1)
  /\ \A i \in r + 1 .. Len(bn) : IsNodeOf(bn, lv, B, bn2, lv2, B2, i + n, i)

\* Where the pasted nodes and lines are.
PastesNodes(m, bn, lv, B, cn, cv, C, r, n, z, d, e, bn2, lv2, B2) ==
  /\ Len(bn2) = Len(bn) + n /\ Len(B2) = Len(B) + z
  /\ Len(cn) = n + 1 /\ Len(C) = z /\ n >= 1 /\ cn[2] = 1
  /\ r \in 1 .. Len(bn) /\ e = EndIn(bn, B, r)
  /\ \A i \in 1 .. r : bn2[i] = bn[i] /\ lv2[i] = lv[i]
  /\ \A j \in 1 .. n : bn2[r + j] = cn[j + 1] + e /\ lv2[r + j] = cv[j + 1] + d
  /\ \A i \in r + 1 .. Len(bn) : bn2[i + n] = bn[i] + z /\ lv2[i + n] = lv[i]
  /\ \A k \in 1 .. e : B2[k] = B[k]
  /\ \A k \in 1 .. z : B2[e + k] = MovedLine(m, cn, C, k, d)
  /\ \A k \in e + 1 .. Len(B) : B2[k + z] = B[k]

\* The nodes of the Body after a paste: those of the Body, and between them those of the clipboard.
LEMMA PastedNodesAre ==
  ASSUME NEW m \in OneLineModes, NEW bn, NEW lv, NEW B, Told(m, bn, lv, B),
         NEW cn, NEW cv, NEW C, Told(m, cn, cv, C),
         NEW bn2, NEW lv2, NEW B2, Told(m, bn2, lv2, B2),
         NEW r \in Int, NEW n \in Int, NEW z \in Int, NEW d \in Int, NEW e \in Int,
         PastesNodes(m, bn, lv, B, cn, cv, C, r, n, z, d, e, bn2, lv2, B2)
  PROVE  /\ AreJoined(bn, lv, B, cn, cv, C, bn2, lv2, B2, r, n)
         /\ TopIn(bn2, B2) = TopIn(bn, B)
<1>1. PICK N \in Nat, Z \in Nat, N2 \in Nat, Z2 \in Nat :
        N = Len(bn) /\ Z = Len(B) /\ N2 = Len(bn2) /\ N2 = N + n /\ Z2 = Len(B2) /\ Z2 = Z + z
  <2>1. Len(bn) \in Nat /\ Len(B) \in Nat /\ Len(bn2) \in Nat /\ Len(B2) \in Nat
    <3>1. Len(bn) \in Nat /\ Len(B) \in Nat
      BY StartsAre
    <3>2. Len(bn2) \in Nat /\ Len(B2) \in Nat
      BY StartsAre
    <3> QED
      BY <3>1, <3>2
  <2>2. Len(bn2) = Len(bn) + n /\ Len(B2) = Len(B) + z
    BY DEF PastesNodes
  <2> QED
    BY <2>1, <2>2
<1>2. /\ 1 <= r /\ r <= N /\ n >= 1 /\ z >= 1 /\ cn[2] = 1
      /\ Len(cn) = n + 1 /\ Len(C) = z
  <2>1. r \in 1 .. N /\ n >= 1 /\ cn[2] = 1 /\ Len(cn) = n + 1 /\ Len(C) = z
    BY <1>1 DEF PastesNodes
  <2>2. Len(C) >= 1
    BY StartsAre
  <2> QED
    BY <2>1, <2>2
<1>3. /\ \A i \in 1 .. r : bn2[i] = bn[i] /\ lv2[i] = lv[i]
      /\ \A j \in 1 .. n : bn2[r + j] = cn[j + 1] + e /\ lv2[r + j] = cv[j + 1] + d
      /\ \A i \in r + 1 .. N : bn2[i + n] = bn[i] + z /\ lv2[i + n] = lv[i]
  BY <1>1 DEF PastesNodes
<1>4. /\ \A k \in 1 .. e : B2[k] = B[k]
      /\ \A k \in e + 1 .. Z : B2[k + z] = B[k]
  BY <1>1 DEF PastesNodes
<1>5. /\ \A i \in 1 .. N + 1 : 1 <= StartIn(bn, B, i) /\ StartIn(bn, B, i) \in Int /\ StartIn(bn, B, i) <= Z + 1
      /\ \A i \in 1 .. N : lv[i] \in Int /\ bn[i] \in Int
      /\ \A i \in 1 .. N + 1 : \A j \in i .. N + 1 : StartIn(bn, B, i) <= StartIn(bn, B, j)
  BY <1>1, StartsAre
<1>6. /\ \A i \in 1 .. N : EndIn(bn, B, i) = StartIn(bn, B, i + 1) - 1
  BY <1>1, EndIsStart
<1>7. StartIn(bn, B, r + 1) = e + 1 /\ e >= 0 /\ e <= Z
  <2>1. r \in 1 .. N /\ r + 1 \in 1 .. N + 1
    BY <1>2
  <2>2. e = EndIn(bn, B, r)
    BY DEF PastesNodes
  <2> QED
    BY <2>2, <1>5, <1>6, <2>1
<1>8. TRUE
  OBVIOUS
<1>9. C \in Seq(LineType)
  BY DEF Told
<1>10. /\ \A j \in 1 .. n + 2 : 1 <= StartIn(cn, C, j) /\ StartIn(cn, C, j) \in Int /\ StartIn(cn, C, j) <= z + 1
       /\ \A j \in 1 .. n + 1 : cv[j] \in Int /\ cn[j] \in Int
  <2>1. n + 2 = (n + 1) + 1
    OBVIOUS
  <2>2. /\ \A j \in 1 .. Len(cn) + 1 : 1 <= StartIn(cn, C, j) /\ StartIn(cn, C, j) \in Int /\ StartIn(cn, C, j) <= Len(C) + 1
        /\ \A j \in 1 .. Len(cn) : cv[j] \in Int /\ cn[j] \in Int
    BY StartsAre
  <2> QED
    BY <1>2, <2>1, <2>2
<1>11. \A k \in 1 .. z : B2[e + k] = MovedLine(m, cn, C, k, d)
  BY DEF PastesNodes
<1>12. /\ \A q \in Int : StartIn(bn2, B2, q) = IF q <= N2 THEN bn2[q] ELSE Z2 + 1
       /\ \A q \in Int : StartIn(bn, B, q) = IF q <= N THEN bn[q] ELSE Z + 1
       /\ \A q \in Int : StartIn(cn, C, q) = IF q <= n + 1 THEN cn[q] ELSE z + 1
  BY <1>1, <1>2 DEF StartIn
<1>13. ASSUME NEW j \in 1 .. n
       PROVE  StartIn(bn2, B2, r + j) = StartIn(cn, C, j + 1) + e
  <2>1. r + j \in Int /\ r + j <= N2 /\ j + 1 \in Int /\ j + 1 <= n + 1
    BY <1>1, <1>2
  <2> QED
    BY <1>3, <1>8, <1>12, <2>1
<1>14. ASSUME NEW q \in r + 1 .. N + 1
       PROVE  StartIn(bn2, B2, q + n) = StartIn(bn, B, q) + z
  <2>1. q \in Int /\ q + n \in Int /\ (q <= N <=> q + n <= N2) /\ (q <= N => q \in r + 1 .. N)
    BY <1>1, <1>2
  <2>2. CASE q <= N
    BY <1>3, <1>12, <2>1, <2>2
  <2>3. CASE ~(q <= N)
    <3>1. StartIn(bn2, B2, q + n) = Z2 + 1 /\ StartIn(bn, B, q) = Z + 1
      BY <1>12, <2>1, <2>3
    <3> QED
      BY <1>1, <3>1
  <2> QED
    BY <2>2, <2>3
<1>15. StartIn(bn2, B2, r + n + 1) = e + 1 + z /\ StartIn(cn, C, n + 2) = z + 1
  <2>1. r + 1 \in r + 1 .. N + 1 /\ r + 1 + n = r + n + 1
    BY <1>2
  <2>2. n + 2 \in Int /\ ~(n + 2 <= n + 1)
    OBVIOUS
  <2> QED
    BY <1>7, <1>12, <1>14, <2>1, <2>2
<1>16. StartIn(bn2, B2, r + 1) = e + 1
  <2>1. 1 \in 1 .. n /\ 1 + 1 = 2 /\ 2 \in Int /\ 2 <= n + 1
    BY <1>2
  <2>2. StartIn(cn, C, 2) = 1
    BY <1>2, <1>12, <2>1
  <2> QED
    BY <1>7, <1>13, <2>1, <2>2
<1>17. ASSUME NEW q \in 1 .. r
       PROVE  StartIn(bn2, B2, q) = StartIn(bn, B, q)
  <2>1. q \in Int /\ q <= N /\ q <= N2
    BY <1>1, <1>2
  <2> QED
    BY <1>3, <1>12, <2>1
\* The three blocks.
<1>18. IsMovedBlock(m, bn, lv, B, bn2, lv2, B2, 2, r, 0, 0, 0)
  <2>1. r <= Len(bn2) /\ r + 0 <= Len(bn) /\ 1 < 2 /\ 1 < 2 + 0
    BY <1>1, <1>2
  <2>2. \A i \in 2 .. r : lv2[i] = lv[i + 0] + 0
    <3>1. \A i \in 2 .. r : i + 0 = i /\ i \in 1 .. r /\ i \in 1 .. N
      BY <1>2
    <3> QED
      BY <1>3, <1>5, <3>1
  <2>3. \A q \in 2 .. r + 1 : StartIn(bn2, B2, q) = StartIn(bn, B, q + 0) - 0
    <3>1. \A q \in 2 .. r + 1 : q + 0 = q /\ (q \in 1 .. r \/ q = r + 1) /\ q \in 1 .. N + 1
      BY <1>2
    <3> QED
      BY <1>5, <1>7, <1>16, <1>17, <3>1
  <2>4. \A k \in StartIn(bn2, B2, 2) .. StartIn(bn2, B2, r + 1) - 1 : B2[k] = MovedLine(m, bn, B, k + 0, 0)
    <3>1. StartIn(bn2, B2, 2) >= 1 /\ StartIn(bn2, B2, 2) \in Int
      <4>1. CASE r = 1
        BY <1>7, <1>16, <4>1
      <4>2. CASE r > 1
        <5>1. 2 \in 1 .. r /\ 2 \in 1 .. N + 1
          BY <1>2, <4>2
        <5> QED
          BY <1>5, <1>17, <5>1
      <4> QED
        BY <1>2, <4>1, <4>2
    <3>2. \A k \in StartIn(bn2, B2, 2) .. StartIn(bn2, B2, r + 1) - 1 : k \in 1 .. e /\ k + 0 = k
      BY <1>7, <1>16, <3>1
    <3> QED
      BY <1>4, <3>2, NotMoved
  <2> QED
    BY <2>1, <2>2, <2>3, <2>4 DEF IsMovedBlock
<1>19. IsMovedBlock(m, cn, cv, C, bn2, lv2, B2, r + 1, r + n, 1 - r, 0 - e, d)
  <2>1. r + n <= Len(bn2) /\ r + n + (1 - r) <= Len(cn) /\ 1 < r + 1 /\ 1 < r + 1 + (1 - r)
    BY <1>1, <1>2, <1>8
  <2>2. \A i \in r + 1 .. r + n : lv2[i] = cv[i + (1 - r)] + d
    <3>1. ASSUME NEW i \in r + 1 .. r + n
          PROVE  lv2[i] = cv[i + (1 - r)] + d
      <4>1. PICK j \in Int : j = i - r
        OBVIOUS
      <4>2. j \in 1 .. n /\ r + j = i /\ i + (1 - r) = j + 1
        BY <4>1
      <4> QED
        BY <1>3, <1>8, <4>2
    <3> QED
      BY <3>1
  <2>3. \A q \in r + 1 .. r + n + 1 : StartIn(bn2, B2, q) = StartIn(cn, C, q + (1 - r)) - (0 - e)
    <3>1. ASSUME NEW q \in r + 1 .. r + n + 1
          PROVE  StartIn(bn2, B2, q) = StartIn(cn, C, q + (1 - r)) - (0 - e)
      <4>0. PICK j \in Int : j = q - r
        OBVIOUS
      <4>1. j \in 1 .. n + 1 /\ r + j = q /\ q + (1 - r) = j + 1 /\ j + 1 \in 1 .. n + 2
        BY <4>0
      <4>2. CASE j \in 1 .. n
        BY <1>7, <1>10, <1>13, <4>1, <4>2
      <4>3. CASE j = n + 1
        <5>1. q = r + n + 1 /\ j + 1 = n + 2
          BY <4>0, <4>3
        <5>2. StartIn(bn2, B2, q) = e + 1 + z /\ StartIn(cn, C, q + (1 - r)) = z + 1
          BY <1>15, <4>1, <5>1
        <5>3. e + 1 + z = (z + 1) - (0 - e)
          OBVIOUS
        <5> QED
          BY <5>2, <5>3
      <4> QED
        BY <4>1, <4>2, <4>3
    <3> QED
      BY <3>1
  <2>4. \A k \in StartIn(bn2, B2, r + 1) .. StartIn(bn2, B2, r + n + 1) - 1 :
          B2[k] = MovedLine(m, cn, C, k + (0 - e), d)
    <3>1. \A k \in StartIn(bn2, B2, r + 1) .. StartIn(bn2, B2, r + n + 1) - 1 :
            k + (0 - e) \in 1 .. z /\ e + (k + (0 - e)) = k
      BY <1>7, <1>15, <1>16
    <3> QED
      BY <1>11, <3>1
  <2> QED
    BY <2>1, <2>2, <2>3, <2>4 DEF IsMovedBlock
<1>20. IsMovedBlock(m, bn, lv, B, bn2, lv2, B2, r + n + 1, N2, 0 - n, 0 - z, 0)
  <2>1. N2 <= Len(bn2) /\ N2 + (0 - n) <= Len(bn) /\ 1 < r + n + 1 /\ 1 < r + n + 1 + (0 - n)
    BY <1>1, <1>2
  <2>2. \A i \in r + n + 1 .. N2 : lv2[i] = lv[i + (0 - n)] + 0
    <3>1. ASSUME NEW i \in r + n + 1 .. N2
          PROVE  lv2[i] = lv[i + (0 - n)] + 0
      <4>0. PICK j \in Int : j = i - n
        OBVIOUS
      <4>1. N2 = N + n /\ 1 <= r
        BY <1>1, <1>2
      <4>2. j \in r + 1 .. N /\ j \in 1 .. N /\ j + n = i /\ i + (0 - n) = j
        BY <4>0, <4>1
      <4> QED
        BY <1>3, <1>5, <4>2
    <3> QED
      BY <3>1
  <2>3. \A q \in r + n + 1 .. N2 + 1 : StartIn(bn2, B2, q) = StartIn(bn, B, q + (0 - n)) - (0 - z)
    <3>1. ASSUME NEW q \in r + n + 1 .. N2 + 1
          PROVE  StartIn(bn2, B2, q) = StartIn(bn, B, q + (0 - n)) - (0 - z)
      <4>0. PICK j \in Int : j = q - n
        OBVIOUS
      <4>1. N2 = N + n /\ 1 <= r
        BY <1>1, <1>2
      <4>2. j \in r + 1 .. N + 1 /\ j \in 1 .. N + 1 /\ j + n = q /\ q + (0 - n) = j
        BY <4>0, <4>1
      <4>3. StartIn(bn2, B2, q) = StartIn(bn, B, j) + z /\ StartIn(bn, B, j) \in Int
        BY <1>5, <1>14, <4>2
      <4> QED
        BY <4>2, <4>3
    <3> QED
      BY <3>1
  <2>4. \A k \in StartIn(bn2, B2, r + n + 1) .. StartIn(bn2, B2, N2 + 1) - 1 :
          B2[k] = MovedLine(m, bn, B, k + (0 - z), 0)
    <3>1. StartIn(bn2, B2, N2 + 1) = Z2 + 1
      BY <1>12
    <3>2. \A k \in StartIn(bn2, B2, r + n + 1) .. StartIn(bn2, B2, N2 + 1) - 1 :
            k + (0 - z) \in e + 1 .. Z /\ (k + (0 - z)) + z = k
      <4>1. StartIn(bn2, B2, r + n + 1) = e + 1 + z /\ Z2 = Z + z
        BY <1>1, <1>15
      <4>2. \A k \in e + 1 + z .. Z + z : k + (0 - z) \in e + 1 .. Z /\ (k + (0 - z)) + z = k
        OBVIOUS
      <4> QED
        BY <3>1, <4>1, <4>2
    <3> QED
      BY <1>4, <3>2, NotMoved
  <2> QED
    BY <2>1, <2>2, <2>3, <2>4 DEF IsMovedBlock
<1>21. ASSUME NEW i \in 2 .. r
       PROVE  IsNodeOf(bn, lv, B, bn2, lv2, B2, i, i)
  <2>1. PICK a \in Int, h \in Int : a = 2 /\ h = 0 /\ i + h = i
    OBVIOUS
  <2>2. IsMovedBlock(m, bn, lv, B, bn2, lv2, B2, a, r, h, h, h) /\ i \in a .. r /\ r \in Int
    BY <1>2, <1>18, <2>1
  <2>3. IsNodeOf(bn, lv, B, bn2, lv2, B2, i, i + h)
    BY <2>2, BlockMoves
  <2> QED
    BY <2>1, <2>3
<1>22. ASSUME NEW j \in 1 .. n
       PROVE  IsNodeOf(cn, cv, C, bn2, lv2, B2, r + j, j + 1)
  <2>0. PICK a \in Int, b \in Int, s \in Int, h \in Int, i \in Int :
          a = r + 1 /\ b = r + n /\ s = 1 - r /\ h = 0 - e /\ i = r + j
    OBVIOUS
  <2>1. /\ a = r + 1 /\ b = r + n /\ s = 1 - r /\ h = 0 - e /\ i = r + j
        /\ i \in a .. b /\ i + s = j + 1
    BY <2>0
  <2>2. IsMovedBlock(m, cn, cv, C, bn2, lv2, B2, a, b, s, h, d) /\ i \in a .. b /\ d \in Int
    BY <1>2, <1>19, <2>1
  <2>3. IsNodeOf(cn, cv, C, bn2, lv2, B2, i, i + s)
    BY <2>2, BlockMoves
  <2> QED
    BY <2>1, <2>3
<1>23. ASSUME NEW i \in r + 1 .. N
       PROVE  IsNodeOf(bn, lv, B, bn2, lv2, B2, i + n, i)
  <2>0. PICK a \in Int, s \in Int, h \in Int, d0 \in Int, x \in Int :
          a = r + n + 1 /\ s = 0 - n /\ h = 0 - z /\ d0 = 0 /\ x = i + n
    OBVIOUS
  <2>4. N2 = N + n
    BY <1>1
  <2>1. /\ a = r + n + 1 /\ s = 0 - n /\ h = 0 - z /\ d0 = 0 /\ x = i + n
        /\ x \in a .. N2 /\ x + s = i
    BY <2>0, <2>4
  <2>2. IsMovedBlock(m, bn, lv, B, bn2, lv2, B2, a, N2, s, h, d0) /\ x \in a .. N2 /\ N2 \in Int
    BY <1>20, <2>1
  <2>3. IsNodeOf(bn, lv, B, bn2, lv2, B2, x, x + s)
    BY <2>2, BlockMoves
  <2> QED
    BY <2>1, <2>3
<1>24. TopIn(bn2, B2) = TopIn(bn, B)
  <2>1. StartIn(bn2, B2, 2) = StartIn(bn, B, 2) /\ StartIn(bn, B, 2) \in Int /\ StartIn(bn, B, 2) <= e + 1
    <3>1. CASE r = 1
      BY <1>7, <1>16, <3>1
    <3>2. CASE r > 1
      <4>1. 2 \in 1 .. r /\ 2 \in 1 .. N + 1 /\ r + 1 \in 2 .. N + 1
        BY <1>2, <3>2
      <4> QED
        BY <1>5, <1>7, <1>17, <4>1
    <3> QED
      BY <1>2, <3>1, <3>2
  <2>2. \A k \in 1 .. StartIn(bn, B, 2) - 1 : B2[k] = B[k]
    <3>1. \A k \in 1 .. StartIn(bn, B, 2) - 1 : k \in 1 .. e
      BY <1>7, <2>1
    <3> QED
      BY <1>4, <3>1
  <2> QED
    BY <2>1, <2>2, TopStays
<1> QED
  BY <1>1, <1>21, <1>22, <1>23, <1>24 DEF AreJoined

\* The nodes cn, cv of the clipboard C, whose outline is o, go after node r.
IsPasteOf(m, bn, lv, B, C, o, r, d, e, cn, cv, bn2, lv2, B2, n, z) ==
  /\ r \in Int /\ d \in Int /\ e \in Int /\ n \in Nat /\ z \in Nat
  /\ CanPaste(m, bn, B, C, o, r, d, e) /\ o.bnodes[1] = 1
  /\ cn = << 1 >> \o o.bnodes /\ cv = << 1 >> \o o.levels /\ Told(m, cn, cv, C)
  /\ Told(m, bn2, lv2, B2) /\ n = Len(o.bnodes) /\ z = Len(C)
  /\ IsPasted(m, bn, lv, B, C, o, r, d, e, bn2, lv2, B2, n, z)

\* No line goes from one node to another when nodes are pasted.
LEMMA PasteKeepsNodes ==
  ASSUME NEW m \in OneLineModes, NEW bn, NEW lv, NEW B, Told(m, bn, lv, B),
         NEW C, NEW o, NEW r, NEW d, NEW e, NEW cn, NEW cv, NEW bn2, NEW lv2, NEW B2, NEW n, NEW z,
         IsPasteOf(m, bn, lv, B, C, o, r, d, e, cn, cv, bn2, lv2, B2, n, z)
  PROVE  /\ AreJoined(bn, lv, B, cn, cv, C, bn2, lv2, B2, r, n)
         /\ TopIn(bn2, B2) = TopIn(bn, B)
<1>0. /\ r \in Int /\ d \in Int /\ e \in Int /\ n \in Nat /\ z \in Nat
      /\ CanPaste(m, bn, B, C, o, r, d, e) /\ o.bnodes[1] = 1
      /\ cn = << 1 >> \o o.bnodes /\ cv = << 1 >> \o o.levels /\ Told(m, cn, cv, C)
      /\ Told(m, bn2, lv2, B2) /\ n = Len(o.bnodes) /\ z = Len(C)
      /\ IsPasted(m, bn, lv, B, C, o, r, d, e, bn2, lv2, B2, n, z)
  BY DEF IsPasteOf
<1>1. /\ Len(cn) = n + 1 /\ Len(cv) = n + 1
      /\ \A j \in 1 .. n : cn[j + 1] = o.bnodes[j] /\ cv[j + 1] = o.levels[j]
  <2>1. o.bnodes \in Seq(Int) /\ o.levels \in Seq(Int) /\ Len(o.levels) = n
    BY <1>0 DEF CanPaste, IsOutline
  <2>2. Len(cn) = n + 1 /\ \A j \in 1 .. n : cn[j + 1] = o.bnodes[j]
    BY <1>0, <2>1, WithFirst
  <2>3. Len(cv) = n + 1 /\ \A j \in 1 .. n : cv[j + 1] = o.levels[j]
    BY <1>0, <2>1, WithFirst
  <2> QED
    BY <2>2, <2>3
<1>2. n >= 1
  <2>1. o.bnodes # <<>> /\ o.bnodes \in Seq(Int)
    BY <1>0 DEF CanPaste, IsOutline
  <2> QED
    BY <1>0, <2>1, EmptySeq
<1>3. cn[2] = 1
  <2>1. 1 \in 1 .. n /\ 1 + 1 = 2
    BY <1>2
  <2> QED
    BY <1>0, <1>1, <2>1
<1>4. \A k \in 1 .. z : B2[e + k] = MovedLine(m, cn, C, k, d)
  <2>1. ASSUME NEW k \in 1 .. z
        PROVE  LevelIn(m, C[k]) > 0 <=> \E i \in 2 .. Len(cn) : cn[i] = k
    <3>1. LevelIn(m, C[k]) > 0 => \E i \in 2 .. Len(cn) : cn[i] = k
      BY <1>0 DEF Told
    <3>2. ASSUME NEW i \in 2 .. Len(cn), cn[i] = k
          PROVE  LevelIn(m, C[k]) > 0
      BY <1>0, <3>2 DEF Told
    <3> QED
      BY <3>1, <3>2
  <2>2. \A k \in 1 .. z : B2[e + k] = IF LevelIn(m, C[k]) > 0 THEN WithLevel(m, C[k], d) ELSE C[k]
    BY <1>0 DEF IsPasted
  <2> QED
    BY <2>1, <2>2 DEF MovedLine
<1>5. /\ Len(bn2) = Len(bn) + n /\ Len(B2) = Len(B) + z
      /\ \A i \in 1 .. r : bn2[i] = bn[i] /\ lv2[i] = lv[i]
      /\ \A j \in 1 .. n : bn2[r + j] = o.bnodes[j] + e /\ lv2[r + j] = o.levels[j] + d
      /\ \A i \in r + 1 .. Len(bn) : bn2[i + n] = bn[i] + z /\ lv2[i + n] = lv[i]
      /\ \A k \in 1 .. e : B2[k] = B[k]
      /\ \A k \in e + 1 .. Len(B) : B2[k + z] = B[k]
  BY <1>0 DEF IsPasted
<1>6. r \in 1 .. Len(bn) /\ e = EndIn(bn, B, r)
  BY <1>0 DEF CanPaste
<1>7. \A j \in 1 .. n : bn2[r + j] = cn[j + 1] + e /\ lv2[r + j] = cv[j + 1] + d
  BY <1>1, <1>5
<1>8. PastesNodes(m, bn, lv, B, cn, cv, C, r, n, z, d, e, bn2, lv2, B2)
  <2>1. Len(cn) = n + 1 /\ Len(C) = z
    BY <1>0, <1>1
  <2> QED
    BY <1>2, <1>3, <1>4, <1>5, <1>6, <1>7, <2>1, Zenon DEF PastesNodes
<1>9. n \in Int /\ z \in Int
  BY <1>0
<1> QED
  BY <1>0, <1>8, <1>9, PastedNodesAre

\* The outline of the nodes p..r alone.
RegionBnodes(bn, p, r) == [i \in 1 .. r - p + 2 |-> IF i = 1 THEN 1 ELSE bn[p + i - 2] - (bn[p] - 1)]
RegionLevels(lv, p, r) == [i \in 1 .. r - p + 2 |-> IF i = 1 THEN 1 ELSE lv[p + i - 2]]

IsCopy(bn, lv, B, p, r, cn, cv, C) ==
  /\ Len(cn) = r - p + 2
  /\ \A j \in 1 .. r - p + 1 : IsNodeOf(bn, lv, B, cn, cv, C, j + 1, p + j - 1) /\ cv[j + 1] = lv[p + j - 1]

\* Copied nodes keep their lines.
LEMMA RegionKeepsNodes ==
  ASSUME NEW m \in OneLineModes, NEW bn, NEW lv, NEW B, Told(m, bn, lv, B),
         NEW p \in 2 .. Len(bn), NEW r \in p .. Len(bn),
         NEW C, C = Slice(B, bn[p], EndIn(bn, B, r)),
         NEW cn, cn = RegionBnodes(bn, p, r), NEW cv, cv = RegionLevels(lv, p, r)
  PROVE  Told(m, cn, cv, C) /\ IsCopy(bn, lv, B, p, r, cn, cv, C)
<1>1. PICK N \in Nat, Z \in Nat : N = Len(bn) /\ Z = Len(B) /\ p \in 2 .. N /\ r \in p .. N
  BY DEF Told
<1>2. PICK b \in Int, e \in Int : b = bn[p] /\ e = EndIn(bn, B, r) /\ 1 <= b /\ b <= e /\ e <= Z
  <2>1. bn[p] \in 1 .. Z
    BY <1>1 DEF Told
  <2>2. EndIn(bn, B, r) \in Int /\ EndIn(bn, B, r) <= Z /\ EndIn(bn, B, r) >= bn[p]
    BY <1>1, RegionEnds
  <2> QED
    BY <2>1, <2>2
<1>3. C \in Seq(LineType) /\ Len(C) = e - b + 1 /\ \A i \in 1 .. e - b + 1 : C[i] = B[b + i - 1]
  <2>1. B \in Seq(LineType) /\ b \in 1 .. Len(B) /\ e \in b .. Len(B)
    BY <1>1, <1>2 DEF Told
  <2>2. C = Slice(B, b, e)
    BY <1>2
  <2> QED
    BY <2>1, <2>2, SliceIs
<1>4. PICK n \in Nat : n = r - p + 2 /\ n >= 2
  BY <1>1
<1>5. /\ \A i \in 2 .. N : bn[i] \in 1 .. Z /\ bn[i] \in Int /\ lv[i] \in Int /\ lv[i] > 0 /\ LevelIn(m, B[bn[i]]) = lv[i]
      /\ \A i, j \in 2 .. N : i < j => bn[i] < bn[j]
      /\ \A k \in 1 .. Z : LevelIn(m, B[k]) > 0 => \E i \in 2 .. N : bn[i] = k
  <2>1. lv \in Seq(Int) /\ bn \in Seq(Int) /\ Len(lv) = N
    BY <1>1 DEF Told
  <2>2. \A i \in 2 .. N : lv[i] \in Int /\ bn[i] \in Int
    BY <1>1, <2>1
  <2> QED
    BY <1>1, <2>2 DEF Told
<1>6. /\ cn = [i \in 1 .. n |-> IF i = 1 THEN 1 ELSE bn[p + i - 2] - (b - 1)]
      /\ cv = [i \in 1 .. n |-> IF i = 1 THEN 1 ELSE lv[p + i - 2]]
  BY <1>2, <1>4 DEF RegionBnodes, RegionLevels
<1>7. \A i \in 2 .. n : p + i - 2 \in 2 .. N /\ p + i - 2 \in p .. r
  BY <1>1, <1>4
<1>8. cn \in Seq(Int) /\ Len(cn) = n /\ cv \in Seq(Int) /\ Len(cv) = n
  <2>1. cn \in [1 .. n -> Int]
    <3>1. \A i \in 1 .. n : (IF i = 1 THEN 1 ELSE bn[p + i - 2] - (b - 1)) \in Int
      <4>1. ASSUME NEW i \in 1 .. n, i # 1
            PROVE  bn[p + i - 2] - (b - 1) \in Int
        <5>1. i \in 2 .. n
          BY <4>1
        <5>2. bn[p + i - 2] \in Int
          BY <1>5, <1>7, <5>1
        <5> QED
          BY <5>2
      <4> QED
        BY <4>1
    <3> QED
      BY <1>6, <3>1
  <2>2. cv \in [1 .. n -> Int]
    <3>1. \A i \in 1 .. n : (IF i = 1 THEN 1 ELSE lv[p + i - 2]) \in Int
      <4>1. ASSUME NEW i \in 1 .. n, i # 1
            PROVE  lv[p + i - 2] \in Int
        <5>1. i \in 2 .. n
          BY <4>1
        <5> QED
          BY <1>5, <1>7, <5>1
      <4> QED
        BY <4>1
    <3> QED
      BY <1>6, <3>1
  <2> QED
    BY <2>1, <2>2, FunctionIsSeq
<1>9. /\ cn[1] = 1 /\ cv[1] = 1
      /\ \A i \in 2 .. n : cn[i] = bn[p + i - 2] - (b - 1) /\ cv[i] = lv[p + i - 2]
  <2>1. \A i \in 2 .. n : i \in 1 .. n /\ i # 1
    OBVIOUS
  <2>2. 1 \in 1 .. n
    BY <1>4
  <2> QED
    BY <1>6, <2>1, <2>2
<1>10. \A i \in p .. r : b <= bn[i] /\ bn[i] <= e
  <2>1. \A j \in 2 .. Len(bn) : bn[j] <= EndIn(bn, B, r) <=> j <= r
    <3>1. r \in 1 .. Len(bn)
      BY <1>1
    <3> QED
      BY <3>1, EndIs
  <2>2. ASSUME NEW i \in p .. r
        PROVE  b <= bn[i] /\ bn[i] <= e
    <3>1. i \in 2 .. N /\ i <= r /\ i \in 2 .. Len(bn)
      BY <1>1
    <3>2. bn[i] <= e
      BY <1>2, <2>1, <3>1
    <3>3. i = p \/ (p < i /\ bn[p] < bn[i])
      BY <1>1, <1>5, <3>1
    <3> QED
      BY <1>2, <1>5, <3>1, <3>2, <3>3
  <2> QED
    BY <2>2
<1>11. ASSUME NEW i \in 2 .. n
       PROVE  cn[i] \in 1 .. Len(C) /\ cv[i] > 0 /\ LevelIn(m, C[cn[i]]) = cv[i] /\ C[cn[i]] = B[bn[p + i - 2]]
  <2>1. PICK j \in Int : j = p + i - 2 /\ j \in 2 .. N /\ j \in p .. r
    BY <1>1, <1>7
  <2>2. cn[i] = bn[j] - (b - 1) /\ cv[i] = lv[j] /\ bn[j] \in Int /\ b <= bn[j] /\ bn[j] <= e
    BY <1>5, <1>9, <1>10, <2>1
  <2>3. cn[i] \in 1 .. e - b + 1 /\ b + cn[i] - 1 = bn[j]
    BY <2>2
  <2>4. C[cn[i]] = B[bn[j]]
    BY <1>3, <2>3
  <2> QED
    BY <1>3, <1>5, <2>1, <2>2, <2>3, <2>4
<1>12. \A i, j \in 2 .. n : i < j => cn[i] < cn[j]
  <2>1. ASSUME NEW i \in 2 .. n, NEW j \in 2 .. n, i < j
        PROVE  cn[i] < cn[j]
    <3>1. PICK x \in Int, y \in Int : x = p + i - 2 /\ y = p + j - 2 /\ x \in 2 .. N /\ y \in 2 .. N /\ x < y
      BY <1>1, <1>7, <2>1
    <3>2. bn[x] < bn[y] /\ bn[x] \in Int /\ bn[y] \in Int
      BY <1>5, <3>1
    <3>3. cn[i] = bn[x] - (b - 1) /\ cn[j] = bn[y] - (b - 1)
      BY <1>9, <3>1
    <3> QED
      BY <3>2, <3>3
  <2> QED
    BY <2>1
<1>13. ASSUME NEW k \in 1 .. Len(C), LevelIn(m, C[k]) > 0
       PROVE  \E i \in 2 .. n : cn[i] = k
  <2>0. PICK x \in Int, z \in Int : x = b + k - 1 /\ z = e - b + 1 /\ k \in 1 .. z
    BY <1>3
  <2>1. x = b + k - 1 /\ x \in 1 .. Z /\ b <= x /\ x <= e /\ C[k] = B[x]
    <3>1. x \in 1 .. Z /\ b <= x /\ x <= e
      <4>1. k \in Int /\ 1 <= k /\ k <= e - b + 1
        BY <2>0
      <4>2. b <= x /\ x <= e
        BY <2>0, <4>1
      <4>3. 1 <= b /\ e <= Z
        BY <1>2
      <4> QED
        BY <4>2, <4>3
    <3>2. C[k] = B[b + k - 1]
      BY <1>3, <2>0
    <3> QED
      BY <2>0, <3>1, <3>2
  <2>2. PICK j \in 2 .. N : bn[j] = x
    BY <1>5, <1>13, <2>1
  <2>3. j <= r
    <3>1. r \in 1 .. Len(bn) /\ j \in 2 .. Len(bn)
      BY <1>1
    <3>2. bn[j] <= EndIn(bn, B, r) <=> j <= r
      BY <3>1, EndIs
    <3> QED
      BY <1>2, <2>1, <2>2, <3>2
  <2>4. p <= j
    <3>1. j < p => bn[j] < bn[p]
      BY <1>1, <1>5
    <3> QED
      BY <1>1, <1>2, <2>1, <2>2, <3>1
  <2>5. PICK i \in Int : i = j - p + 2 /\ i \in 2 .. n /\ p + i - 2 = j
    BY <1>1, <1>4, <2>3, <2>4
  <2>6. cn[i] = x - (b - 1)
    BY <1>9, <2>2, <2>5
  <2>7. x - (b - 1) = k
    BY <2>0
  <2> QED
    BY <2>5, <2>6, <2>7
<1>14. Told(m, cn, cv, C)
  <2>1. C # <<>> /\ cn # <<>>
    <3>1. Len(C) > 0 /\ Len(cn) > 0
      BY <1>2, <1>3, <1>4, <1>8
    <3> QED
      BY <1>3, <1>8, <3>1, EmptySeq
  <2> QED
    BY <1>3, <1>8, <1>9, <1>11, <1>12, <1>13, <2>1 DEF Told
<1>15. PICK s \in Int, h \in Int, d \in Int, a \in Int : s = p - 2 /\ h = b - 1 /\ d = 0 /\ a = 2
  BY <1>1
<1>16. IsMovedBlock(m, bn, lv, B, cn, cv, C, a, n, s, h, d)
  <2>1. 1 < a /\ n <= Len(cn) /\ 1 < a + s /\ n + s <= Len(bn)
    BY <1>1, <1>4, <1>8, <1>15
  <2>2. \A i \in a .. n : cv[i] = lv[i + s] + d
    <3>1. ASSUME NEW i \in 2 .. n
          PROVE  p + i - 2 = i + s /\ i + s \in 2 .. N
      BY <1>7, <1>15
    <3>2. ASSUME NEW i \in 2 .. n
          PROVE  cv[i] = lv[i + s] + 0
      <4>1. cv[i] = lv[i + s] /\ lv[i + s] \in Int
        BY <1>5, <1>9, <3>1
      <4> QED
        BY <4>1
    <3> QED
      BY <1>15, <3>2
  <2>3. StartIn(bn, B, r + 1) = e + 1
    <3>1. r \in 1 .. Len(bn)
      BY <1>1
    <3>2. EndIn(bn, B, r) = StartIn(bn, B, r + 1) - 1 /\ StartIn(bn, B, r + 1) \in Int
      BY <3>1, EndIsStart
    <3> QED
      BY <1>2, <3>2
  <2>4. StartIn(cn, C, n + 1) = e - b + 2
    BY <1>2, <1>3, <1>8 DEF StartIn
  <2>5. \A q \in 2 .. n : StartIn(cn, C, q) = cn[q]
    BY <1>8 DEF StartIn
  <2>6. \A i \in 2 .. N : StartIn(bn, B, i) = bn[i]
    BY <1>1 DEF StartIn
  <2>7. ASSUME NEW q \in a .. n + 1
        PROVE  StartIn(cn, C, q) = StartIn(bn, B, q + s) - h
    <3>1. CASE q \in 2 .. n
      <4>1. p + q - 2 = q + s /\ q + s \in 2 .. N
        BY <1>7, <1>15, <3>1
      <4>2. StartIn(cn, C, q) = bn[q + s] - (b - 1)
        BY <1>9, <2>5, <3>1, <4>1
      <4> QED
        BY <1>15, <2>6, <4>1, <4>2
    <3>2. CASE q = n + 1
      <4>1. q + s = r + 1
        BY <1>1, <1>4, <1>15, <3>2
      <4>2. StartIn(cn, C, q) = e - b + 2 /\ StartIn(bn, B, q + s) = e + 1
        BY <2>3, <2>4, <3>2, <4>1
      <4>3. e - b + 2 = (e + 1) - (b - 1)
        OBVIOUS
      <4> QED
        BY <1>15, <4>2, <4>3
    <3> QED
      BY <1>15, <3>1, <3>2
  <2>8. \A k \in StartIn(cn, C, a) .. StartIn(cn, C, n + 1) - 1 : C[k] = MovedLine(m, bn, B, k + h, d)
    <3>1. StartIn(cn, C, 2) = 1
      <4>1. 2 \in 2 .. n /\ p + 2 - 2 = p
        BY <1>1, <1>4
      <4> QED
        BY <1>2, <1>9, <2>5, <4>1
    <3>2. \A k \in StartIn(cn, C, a) .. StartIn(cn, C, n + 1) - 1 : k \in 1 .. e - b + 1 /\ b + k - 1 = k + h
      <4>1. \A k \in 1 .. (e - b + 2) - 1 : k \in 1 .. e - b + 1 /\ b + k - 1 = k + (b - 1)
        OBVIOUS
      <4> QED
        BY <1>15, <2>4, <3>1, <4>1
    <3> QED
      BY <1>3, <1>15, <3>2, NotMoved
  <2> QED
    BY <2>1, <2>2, <2>7, <2>8 DEF IsMovedBlock
<1>17. ASSUME NEW j \in 1 .. r - p + 1
       PROVE  IsNodeOf(bn, lv, B, cn, cv, C, j + 1, p + j - 1) /\ cv[j + 1] = lv[p + j - 1]
  <2>1. PICK i \in Int : i = j + 1 /\ i \in a .. n /\ i \in 2 .. n /\ i + s = p + j - 1 /\ p + i - 2 = p + j - 1
    BY <1>1, <1>4, <1>15
  <2>2. IsNodeOf(bn, lv, B, cn, cv, C, i, i + s)
    BY <1>14, <1>16, <2>1, BlockMoves
  <2> QED
    BY <1>9, <2>1, <2>2
<1> QED
  BY <1>4, <1>8, <1>14, <1>17 DEF IsCopy

=============================================================================
