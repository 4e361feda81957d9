----------------------------- MODULE MarksProofs -----------------------------
(***************************************************************************)
(* Proofs about Marks: the marks of a headline do not disturb each other,  *)
(* and the folds that are saved as marks come back, for all outlines and   *)
(* headlines with marks in order.                                          *)
(***************************************************************************)
EXTENDS MCMarks, OutlineProofs, SequenceTheorems

-----------------------------------------------------------------------------
(* The marks of one headline.                                              *)

LEMMA MarkChars == "x" \in Chars /\ "o" \in Chars /\ "=" \in Chars
BY TailsAssumption

\* What the commands keep true of the end of a headline.
Good(tail) == tail \in Seq(Chars) /\ MarksInOrder(tail)

\* A sequence behind a character.
LEMMA BehindChar ==
  ASSUME NEW c \in Chars, NEW s \in Seq(Chars)
  PROVE  /\ <<c>> \o s \in Seq(Chars)
         /\ <<c>> \o s # <<>>
         /\ Len(<<c>> \o s) = Len(s) + 1
         /\ (<<c>> \o s)[1] = c
         /\ \A i \in 1 .. Len(s) : (<<c>> \o s)[i + 1] = s[i]
         /\ SubSeq(<<c>> \o s, 2, Len(<<c>> \o s)) = s
<1> SUFFICES ASSUME NEW t, t = <<c>> \o s
             PROVE  /\ t \in Seq(Chars) /\ t # <<>> /\ Len(t) = Len(s) + 1 /\ t[1] = c
                    /\ \A i \in 1 .. Len(s) : t[i + 1] = s[i]
                    /\ SubSeq(t, 2, Len(t)) = s
  OBVIOUS
<1>1. <<c>> \in Seq(Chars) /\ Len(<<c>>) = 1 /\ <<c>>[1] = c
  OBVIOUS
<1>2. /\ t \in Seq(Chars) /\ Len(t) = Len(s) + 1 /\ Len(s) \in Nat
      /\ \A i \in 1 .. Len(s) + 1 : t[i] = IF i <= 1 THEN c ELSE s[i - 1]
  BY <1>1, ConcatProperties, LenProperties
<1>3. t # <<>> /\ t[1] = c /\ \A i \in 1 .. Len(s) : t[i + 1] = s[i]
  BY <1>2
<1>4. SubSeq(t, 2, Len(t)) = s
  <2>1. \A i \in 2 .. Len(t) : t[i] \in Chars
    BY <1>2, ElementOfSeq
  <2>2. /\ SubSeq(t, 2, Len(t)) \in Seq(Chars)
        /\ Len(SubSeq(t, 2, Len(t))) = Len(s)
        /\ \A i \in 1 .. Len(s) : SubSeq(t, 2, Len(t))[i] = t[i + 1]
    <3>1. 2 \in Int /\ Len(t) \in Int /\ Len(t) - 2 + 1 = Len(s) /\ \A i \in 1 .. Len(s) : 2 + i - 1 = i + 1
      BY <1>2
    <3>2. IF 2 <= Len(t) THEN Len(t) - 2 + 1 = Len(s) ELSE Len(s) = 0
      BY <1>2
    <3> QED
      BY <2>1, <3>1, <3>2, SubSeqProperties
  <2> QED
    BY <1>3, <2>2, SeqEqual
<1> QED
  BY <1>2, <1>3, <1>4

\* The sequence behind the first character.
LEMMA TailOf ==
  ASSUME NEW s \in Seq(Chars), s # <<>>
  PROVE  /\ SubSeq(s, 2, Len(s)) \in Seq(Chars)
         /\ Len(SubSeq(s, 2, Len(s))) = Len(s) - 1
         /\ \A i \in 1 .. Len(s) - 1 : SubSeq(s, 2, Len(s))[i] = s[i + 1]
         /\ Len(s) \in Nat \ {0}
         /\ s[1] \in Chars
<1>1. Len(s) \in Nat \ {0}
  BY EmptySeq
<1>2. Tail(s) = SubSeq(s, 2, Len(s))
  BY TailIsSubSeq
<1>3. /\ Tail(s) \in Seq(Chars) /\ Len(Tail(s)) = Len(s) - 1
      /\ \A i \in 1 .. Len(Tail(s)) : Tail(s)[i] = s[i + 1]
  BY HeadTailProperties
<1>4. s[1] \in Chars
  BY <1>1, ElementOfSeq
<1> QED
  BY <1>1, <1>2, <1>3, <1>4

\* What Lstrip leaves begins with another character.
LEMMA Stripped ==
  ASSUME NEW s \in Seq(Chars), NEW C
  PROVE  /\ Lstrip(s, C) \in Seq(Chars)
         /\ Lstrip(s, C) # <<>> => Lstrip(s, C)[1] \notin C
         /\ s # <<>> /\ s[1] \notin C => Lstrip(s, C) = s
         /\ s # <<>> /\ s[1] \in C /\ (Len(s) > 1 => s[2] \notin C)
              => Lstrip(s, C) = SubSeq(s, 2, Len(s))
<1> DEFINE rest == {k \in 1 .. Len(s) : s[k] \notin C}
           m == Min(rest)
<1> Len(s) \in Nat /\ (s # <<>> => Len(s) > 0)
  BY LenProperties, EmptySeq
<1>1. CASE rest = {}
  <2>1. Lstrip(s, C) = <<>>
    BY <1>1 DEF Lstrip
  <2>2. ASSUME s # <<>> /\ s[1] \in C /\ (Len(s) > 1 => s[2] \notin C)
        PROVE  SubSeq(s, 2, Len(s)) = <<>>
    <3>1. Len(s) < 2
      BY <1>1, <2>2
    <3> QED
      BY <3>1, SubSeqEmpty
  <2> QED
    BY <1>1, <2>1, <2>2, EmptySeq
<1>2. CASE rest # {}
  <2>1. m \in rest /\ \A k \in rest : m <= k
    BY <1>2, LeastElement, rest \in SUBSET Nat
  <2>2. Lstrip(s, C) = SubSeq(s, m, Len(s))
    BY <1>2 DEF Lstrip
  <2>3. m \in 1 .. Len(s) /\ s[m] \notin C
    BY <2>1
  <2>4. \A k \in 1 .. Len(s) : s[k] \notin C => m <= k
    BY <2>1
  <2> HIDE DEF m
  <2>5. SubSeq(s, m, Len(s)) \in Seq(Chars) /\ SubSeq(s, m, Len(s))[1] = s[m]
    <3>1. \A i \in m .. Len(s) : s[i] \in Chars
      BY <2>3, ElementOfSeq
    <3>2. m \in Int /\ Len(s) \in Int /\ 1 \in 1 .. Len(s) - m + 1 /\ m + 1 - 1 = m
      BY <2>3
    <3> QED
      BY <3>1, <3>2, SubSeqProperties
  <2>6. ASSUME s # <<>>, s[1] \notin C PROVE SubSeq(s, m, Len(s)) = s
    <3>1. m = 1
      BY <2>3, <2>4, <2>6
    <3> QED
      BY <3>1, SubSeqFull
  <2>7. ASSUME s # <<>>, s[1] \in C, Len(s) > 1 => s[2] \notin C PROVE m = 2
    BY <2>3, <2>4, <2>7
  <2> QED
    BY <2>2, <2>3, <2>5, <2>6, <2>7
<1> QED
  BY <1>1, <1>2

\* x before a headline and what is after it.
LEMMA RestOf ==
  ASSUME NEW tail \in Seq(Chars)
  PROVE  /\ Rest(tail) \in Seq(Chars)
         /\ HasX(tail) \in BOOLEAN
         /\ HasO(tail) \in BOOLEAN
         /\ ~HasX(tail) => Rest(tail) = tail
BY TailOf DEF Rest, HasX, HasO

LEMMA WithRestOf ==
  ASSUME NEW tail \in Seq(Chars), NEW rest \in Seq(Chars), rest # <<>> => rest[1] # "x"
  PROVE  /\ WithRest(tail, rest) \in Seq(Chars)
         /\ HasX(WithRest(tail, rest)) <=> HasX(tail)
         /\ Rest(WithRest(tail, rest)) = rest
<1>1. CASE HasX(tail)
  <2>1. WithRest(tail, rest) = <<"x">> \o rest
    BY <1>1 DEF WithRest
  <2> QED
    BY <1>1, <2>1, BehindChar, MarkChars DEF HasX, Rest
<1>2. CASE ~HasX(tail)
  <2>1. WithRest(tail, rest) = rest
    BY <1>2, ConcatEmptySeq DEF WithRest
  <2> QED
    BY <1>2, <2>1 DEF HasX, Rest
<1> QED
  BY <1>1, <1>2

\* Marking and unmarking.
LEMMA MarkKeeps ==
  ASSUME NEW tail, Good(tail), ~HasX(tail)
  PROVE  /\ Good(<<"x">> \o tail)
         /\ HasX(<<"x">> \o tail)
         /\ IsStartup(<<"x">> \o tail) <=> IsStartup(tail)
         /\ HasO(<<"x">> \o tail) <=> HasO(tail)
<1>1. Rest(<<"x">> \o tail) = Rest(tail) /\ HasX(<<"x">> \o tail) /\ <<"x">> \o tail \in Seq(Chars)
  BY BehindChar, MarkChars DEF Good, HasX, Rest
<1> QED
  BY <1>1 DEF Good, MarksInOrder, IsStartup, HasO

LEMMA UnmarkKeeps ==
  ASSUME NEW tail, Good(tail), HasX(tail)
  PROVE  /\ Good(Lstrip(tail, {"x"}))
         /\ ~HasX(Lstrip(tail, {"x"}))
         /\ IsStartup(Lstrip(tail, {"x"})) <=> IsStartup(tail)
         /\ HasO(Lstrip(tail, {"x"})) <=> HasO(tail)
<1>1. Lstrip(tail, {"x"}) = Rest(tail)
  <2>1. tail # <<>> /\ tail[1] \in {"x"} /\ Rest(tail) = SubSeq(tail, 2, Len(tail))
    BY DEF HasX, Rest
  <2>2. Len(tail) > 1 => tail[2] \notin {"x"}
    <3>1. ASSUME Len(tail) > 1 PROVE Rest(tail) # <<>> /\ Rest(tail)[1] = tail[2]
      <4>1. Len(Rest(tail)) # 0 /\ Rest(tail)[1] = tail[1 + 1]
        BY <2>1, <3>1, TailOf DEF Good
      <4> QED
        BY <4>1, EmptySeq
    <3> QED
      BY <3>1 DEF Good, MarksInOrder
  <2> QED
    BY <2>1, <2>2, Stripped DEF Good
<1>2. Rest(tail) \in Seq(Chars) /\ ~HasX(Rest(tail)) /\ Rest(Rest(tail)) = Rest(tail)
  BY RestOf DEF Good, MarksInOrder, HasX, Rest
<1> QED
  BY <1>1, <1>2 DEF Good, MarksInOrder, IsStartup, HasO

\* The startup mark.
LEMMA StartKeeps ==
  ASSUME NEW tail, Good(tail)
  PROVE  /\ Good(Started(tail))
         /\ HasX(Started(tail)) <=> HasX(tail)
         /\ IsStartup(Started(tail))
         /\ HasO(Started(tail)) <=> HasO(tail)
<1> DEFINE rest == Rest(tail)
<1>0. rest \in Seq(Chars) /\ (rest # <<>> => rest[1] # "x") /\ tail \in Seq(Chars)
  BY RestOf DEF Good, MarksInOrder
<1>1. CASE IsStartup(tail)
  BY <1>1 DEF Started
<1>2. CASE ~IsStartup(tail) /\ ~HasO(tail)
  <2> DEFINE new == <<"=">> \o rest
  <2>1. Started(tail) = WithRest(tail, new)
    <3>1. SubSeq(rest, 1, 0) = <<>> /\ SubSeq(rest, 1, Len(rest)) = rest
      BY <1>0, SubSeqEmpty, SubSeqFull
    <3>2. PutAfter(rest, 0, <<"=">>) = new
      <4>1. <<"=">> \in Seq(Chars)
        BY MarkChars
      <4>2. <<>> \o <<"=">> = <<"=">>
        BY <4>1, ConcatEmptySeq
      <4> QED
        BY <3>1, <4>2 DEF PutAfter
    <3> QED
      BY <1>2, <3>2 DEF Started
  <2>2. new \in Seq(Chars) /\ new # <<>> /\ new[1] = "="
    BY <1>0, BehindChar, MarkChars
  <2> HIDE DEF new
  <2>3. /\ WithRest(tail, new) \in Seq(Chars)
        /\ HasX(WithRest(tail, new)) <=> HasX(tail)
        /\ Rest(WithRest(tail, new)) = new
    BY <1>0, <2>2, WithRestOf
  <2>4. ~HasO(WithRest(tail, new))
    BY <2>2, <2>3 DEF HasO
  <2>5. Good(WithRest(tail, new)) /\ IsStartup(WithRest(tail, new))
    BY <2>2, <2>3 DEF Good, MarksInOrder, IsStartup
  <2> QED
    BY <1>2, <2>1, <2>3, <2>4, <2>5
<1>3. CASE ~IsStartup(tail) /\ HasO(tail)
  <2> DEFINE after == SubSeq(rest, 2, Len(rest))
             new == <<"o">> \o (<<"=">> \o after)
  <2>1. rest # <<>> /\ rest[1] = "o"
    BY <1>3 DEF HasO
  <2>2. after \in Seq(Chars)
    BY <1>0, <2>1, TailOf
  <2>3. SubSeq(rest, 1, 1) = <<"o">>
    <3>1. rest[1] \in Chars /\ Len(rest) \in Nat \ {0}
      BY <1>0, <2>1, TailOf
    <3>2. \A i \in 1 .. 1 : rest[i] \in Chars
      BY <3>1
    <3>3. SubSeq(rest, 1, 1) \in Seq(Chars) /\ Len(SubSeq(rest, 1, 1)) = 1 /\ SubSeq(rest, 1, 1)[1] = "o"
      BY <2>1, <3>2, SubSeqProperties
    <3>4. <<"o">> \in Seq(Chars) /\ Len(<<"o">>) = 1 /\ <<"o">>[1] = "o"
      BY MarkChars
    <3>5. \A i \in 1 .. Len(SubSeq(rest, 1, 1)) : SubSeq(rest, 1, 1)[i] = <<"o">>[i]
      BY <3>3, <3>4
    <3> HIDE DEF rest
    <3> QED
      BY <3>3, <3>4, <3>5, SeqEqual
  <2>4. Started(tail) = WithRest(tail, new)
    <3>1. PutAfter(rest, 1, <<"=">>) = new
      <4>1. <<"o">> \in Seq(Chars) /\ <<"=">> \in Seq(Chars)
        BY MarkChars
      <4>2. (<<"o">> \o <<"=">>) \o after = <<"o">> \o (<<"=">> \o after)
        BY <2>2, <4>1, ConcatAssociative
      <4>3. PutAfter(rest, 1, <<"=">>) = (SubSeq(rest, 1, 1) \o <<"=">>) \o SubSeq(rest, 1 + 1, Len(rest))
        BY DEF PutAfter
      <4>4. SubSeq(rest, 1 + 1, Len(rest)) = after
        OBVIOUS
      <4> HIDE DEF after, rest
      <4> QED
        BY <2>3, <4>2, <4>3, <4>4
    <3> QED
      BY <1>3, <3>1 DEF Started
  <2>5. <<"=">> \o after \in Seq(Chars) /\ <<"=">> \o after # <<>> /\ (<<"=">> \o after)[1] = "="
        /\ Len(<<"=">> \o after) \in Nat \ {0}
    BY <2>2, BehindChar, MarkChars, LenProperties
  <2>6. new \in Seq(Chars) /\ new # <<>> /\ new[1] = "o" /\ Len(new) > 1 /\ new[1 + 1] = "="
    BY <2>5, BehindChar, MarkChars
  <2> HIDE DEF new
  <2>7. /\ WithRest(tail, new) \in Seq(Chars)
        /\ HasX(WithRest(tail, new)) <=> HasX(tail)
        /\ Rest(WithRest(tail, new)) = new
    BY <1>0, <2>6, WithRestOf
  <2>8. HasO(WithRest(tail, new))
    BY <2>6, <2>7 DEF HasO
  <2>9. Good(WithRest(tail, new)) /\ IsStartup(WithRest(tail, new))
    BY <2>6, <2>7 DEF Good, MarksInOrder, IsStartup
  <2> QED
    BY <1>3, <2>4, <2>7, <2>8, <2>9
<1> QED
  BY <1>1, <1>2, <1>3 DEF HasO

LEMMA UnstartKeeps ==
  ASSUME NEW tail, Good(tail)
  PROVE  /\ Good(Unstarted(tail))
         /\ HasX(Unstarted(tail)) <=> HasX(tail)
         /\ ~IsStartup(Unstarted(tail))
         /\ HasO(Unstarted(tail)) <=> HasO(tail)
<1> DEFINE rest == Rest(tail)
           after == Lstrip(SubSeq(rest, 2, Len(rest)), {"=", "x", "o"})
<1>0. rest \in Seq(Chars) /\ tail \in Seq(Chars)
  BY RestOf DEF Good
<1>1. CASE ~IsStartup(tail)
  BY <1>1 DEF Unstarted
<1>2. CASE IsStartup(tail)
  <2>1. rest # <<>>
    BY <1>2, EmptySeq DEF IsStartup
  <2>2. after \in Seq(Chars) /\ (after # <<>> => after[1] \notin {"=", "x", "o"})
    BY <1>0, <2>1, TailOf, Stripped
  <2> HIDE DEF after
  <2>3. CASE rest[1] = "o"
    <3>1. Unstarted(tail) = WithRest(tail, <<"o">> \o after)
      BY <1>2, <2>3 DEF Unstarted, after
    <3>2. /\ <<"o">> \o after \in Seq(Chars) /\ <<"o">> \o after # <<>>
          /\ (<<"o">> \o after)[1] = "o"
          /\ Len(<<"o">> \o after) > 1 => (<<"o">> \o after)[2] \notin {"=", "x", "o"}
      <4>1. /\ <<"o">> \o after \in Seq(Chars) /\ <<"o">> \o after # <<>>
            /\ (<<"o">> \o after)[1] = "o" /\ Len(<<"o">> \o after) = Len(after) + 1
            /\ \A i \in 1 .. Len(after) : (<<"o">> \o after)[i + 1] = after[i]
        BY <2>2, BehindChar, MarkChars
      <4>2. Len(after) \in Nat /\ (Len(after) > 0 => after # <<>>)
        BY <2>2, EmptySeq, LenProperties
      <4>3. Len(after) > 0 => (<<"o">> \o after)[1 + 1] = after[1]
        BY <4>1, <4>2
      <4> QED
        BY <2>2, <4>1, <4>2, <4>3
    <3>3. /\ WithRest(tail, <<"o">> \o after) \in Seq(Chars)
          /\ HasX(WithRest(tail, <<"o">> \o after)) <=> HasX(tail)
          /\ Rest(WithRest(tail, <<"o">> \o after)) = <<"o">> \o after
      BY <1>0, <3>2, WithRestOf
    <3>4. HasO(WithRest(tail, <<"o">> \o after)) /\ HasO(tail)
      BY <2>1, <2>3, <3>2, <3>3 DEF HasO
    <3>5. Good(WithRest(tail, <<"o">> \o after)) /\ ~IsStartup(WithRest(tail, <<"o">> \o after))
      BY <3>2, <3>3 DEF Good, MarksInOrder, IsStartup
    <3> QED
      BY <3>1, <3>3, <3>4, <3>5
  <2>4. CASE rest[1] # "o"
    <3>1. Unstarted(tail) = WithRest(tail, after)
      BY <1>2, <2>4 DEF Unstarted, after
    <3>2. /\ WithRest(tail, after) \in Seq(Chars)
          /\ HasX(WithRest(tail, after)) <=> HasX(tail)
          /\ Rest(WithRest(tail, after)) = after
      BY <1>0, <2>2, WithRestOf
    <3>3. Len(after) > 1 => after # <<>>
      BY EmptySeq
    <3>4. ~HasO(WithRest(tail, after)) /\ ~HasO(tail)
      BY <2>2, <2>4, <3>2 DEF HasO
    <3>5. Good(WithRest(tail, after)) /\ ~IsStartup(WithRest(tail, after))
      BY <2>2, <3>2, <3>3 DEF Good, MarksInOrder, IsStartup
    <3> QED
      BY <3>1, <3>2, <3>4, <3>5
  <2> QED
    BY <2>3, <2>4
<1> QED
  BY <1>1, <1>2

\* The mark of an open fold.
LEMMA OpenKeeps ==
  ASSUME NEW tail, Good(tail), NEW isClosed \in BOOLEAN
  PROVE  /\ Good(OpenMark(tail, isClosed))
         /\ HasX(OpenMark(tail, isClosed)) <=> HasX(tail)
         /\ IsStartup(OpenMark(tail, isClosed)) <=> IsStartup(tail)
         /\ HasO(OpenMark(tail, isClosed)) <=> ~isClosed
<1> DEFINE rest == Rest(tail)
<1>0. rest \in Seq(Chars) /\ (rest # <<>> => rest[1] # "x") /\ tail \in Seq(Chars)
  BY RestOf DEF Good, MarksInOrder
<1>1. CASE HasO(tail) /\ isClosed
  <2> DEFINE new == SubSeq(rest, 2, Len(rest))
  <2>1. /\ rest # <<>> /\ rest[1] = "o"
        /\ Len(rest) > 1 => rest[2] \notin {"o", "x"}
    BY <1>1 DEF HasO, Good, MarksInOrder
  <2>2. Lstrip(rest, {"o", "x"}) = new
    BY <1>0, <2>1, Stripped
  <2>3. OpenMark(tail, isClosed) = WithRest(tail, new)
    BY <1>1, <2>2 DEF OpenMark
  <2>4. /\ new \in Seq(Chars) /\ Len(new) = Len(rest) - 1 /\ Len(rest) \in Nat \ {0}
        /\ \A i \in 1 .. Len(rest) - 1 : new[i] = rest[i + 1]
    BY <1>0, <2>1, TailOf
  <2>5. (new # <<>> <=> Len(rest) > 1) /\ (new # <<>> => new[1] = rest[1 + 1])
    BY <2>4, EmptySeq
  <2> HIDE DEF new, rest
  <2>6. new # <<>> => new[1] \notin {"o", "x"}
    BY <2>1, <2>5
  <2>7. /\ WithRest(tail, new) \in Seq(Chars)
        /\ HasX(WithRest(tail, new)) <=> HasX(tail)
        /\ Rest(WithRest(tail, new)) = new
    BY <1>0, <2>4, <2>6, WithRestOf
  <2>8. IsStartup(tail) <=> Len(rest) > 1 /\ rest[2] = "="
    BY <2>1 DEF IsStartup, rest
  <2>9. Len(new) > 1 => new # <<>>
    BY EmptySeq
  <2>10. IsStartup(WithRest(tail, new)) <=> new # <<>> /\ new[1] = "="
    BY <2>6, <2>7, <2>9 DEF IsStartup
  <2>11. Good(WithRest(tail, new))
    BY <2>6, <2>7, <2>9 DEF Good, MarksInOrder
  <2>12. ~HasO(WithRest(tail, new))
    BY <2>6, <2>7 DEF HasO
  <2>13. IsStartup(WithRest(tail, new)) <=> IsStartup(tail)
    BY <2>5, <2>8, <2>10
  <2> QED
    BY <1>1, <2>3, <2>7, <2>11, <2>12, <2>13, Zenon
<1>2. CASE ~HasO(tail) /\ ~isClosed
  <2> DEFINE new == <<"o">> \o rest
  <2>1. OpenMark(tail, isClosed) = WithRest(tail, new)
    BY <1>2 DEF OpenMark
  <2>2. rest # <<>> => rest[1] \notin {"o", "x"}
    BY <1>0, <1>2 DEF HasO
  <2>3. /\ new \in Seq(Chars) /\ new # <<>> /\ new[1] = "o" /\ Len(new) = Len(rest) + 1
        /\ \A i \in 1 .. Len(rest) : new[i + 1] = rest[i]
    BY <1>0, BehindChar, MarkChars
  <2>4. Len(rest) \in Nat /\ (rest # <<>> <=> Len(rest) > 0)
    BY <1>0, EmptySeq, LenProperties
  <2>5. (Len(new) > 1 <=> rest # <<>>) /\ (Len(new) > 1 => new[1 + 1] = rest[1])
    BY <2>3, <2>4
  <2> HIDE DEF new, rest
  <2>6. /\ WithRest(tail, new) \in Seq(Chars)
        /\ HasX(WithRest(tail, new)) <=> HasX(tail)
        /\ Rest(WithRest(tail, new)) = new
    BY <1>0, <2>3, WithRestOf
  <2>7. IsStartup(WithRest(tail, new)) <=> rest # <<>> /\ rest[1] = "="
    BY <2>3, <2>5, <2>6 DEF IsStartup
  <2>8. IsStartup(tail) <=> rest # <<>> /\ rest[1] = "="
    BY <2>2, <2>4 DEF IsStartup, rest
  <2>9. Good(WithRest(tail, new))
    BY <2>2, <2>3, <2>5, <2>6 DEF Good, MarksInOrder
  <2>10. HasO(WithRest(tail, new))
    BY <2>3, <2>6 DEF HasO
  <2> QED
    BY <1>2, <2>1, <2>6, <2>7, <2>8, <2>9, <2>10
<1>3. CASE OpenMark(tail, isClosed) = tail /\ (HasO(tail) <=> ~isClosed)
  BY <1>3
<1> QED
  BY <1>1, <1>2, <1>3 DEF OpenMark

-----------------------------------------------------------------------------
(* Folds.                                                                  *)

LevelsOK == levels \in Seq(Positive) /\ levels # <<>>

\* A fold covers its own line and ends in the outline.
LEMMA ParentsAre ==
  ASSUME LevelsOK
  PROVE  /\ Len(levels) \in Nat \ {0}
         /\ Parents \subseteq 2 .. Len(levels)
         /\ \A f \in Parents : BranchEnd(levels, f) \in f .. Len(levels) /\ Covers(f, f)
<1>1. Len(levels) \in Nat \ {0}
  BY EmptySeq DEF LevelsOK
<1>2. Parents \subseteq 2 .. Len(levels)
  BY DEF Parents, Nodes
<1>3. ASSUME NEW f \in Parents PROVE BranchEnd(levels, f) \in f .. Len(levels)
  <2>1. f \in 1 .. Len(levels)
    BY <1>1, <1>2
  <2> QED
    BY <2>1, BranchEndIs DEF LevelsOK
<1>4. ASSUME NEW f \in Parents PROVE Covers(f, f)
  <2>1. f \in Nat
    BY <1>1, <1>2
  <2>2. PICK e : e = BranchEnd(levels, f) /\ e \in f .. Len(levels)
    BY <1>3
  <2> QED
    BY <2>1, <2>2 DEF Covers
<1> QED
  BY <1>1, <1>2, <1>3, <1>4

\* The outermost closed fold at a line.
LEMMA FoldClosedIs ==
  ASSUME LevelsOK, NEW c \in SUBSET Parents, NEW ln
  PROVE  /\ foldclosed(c, ln) \in Nat
         /\ foldclosed(c, ln) = 0 <=> \A f \in c : ~Covers(f, ln)
         /\ foldclosed(c, ln) # 0 =>
              /\ foldclosed(c, ln) \in c /\ Covers(foldclosed(c, ln), ln)
              /\ \A f \in c : Covers(f, ln) => foldclosed(c, ln) <= f
<1> DEFINE at == {f \in c : Covers(f, ln)}
<1>1. at \in SUBSET Nat /\ \A f \in at : f # 0
  <2>1. \A f \in Parents : f \in Nat /\ f # 0
    BY ParentsAre
  <2> QED
    BY <2>1
<1>2. foldclosed(c, ln) = IF at = {} THEN 0 ELSE Min(at)
  BY DEF foldclosed
<1>3. CASE at = {}
  <2>1. foldclosed(c, ln) = 0
    BY <1>2, <1>3
  <2>2. \A f \in c : ~Covers(f, ln)
    BY <1>3
  <2> QED
    BY <2>1, <2>2
<1>4. CASE at # {}
  <2>1. PICK m : m = Min(at) /\ m \in at /\ \A x \in at : m <= x
    <3> HIDE DEF at
    <3> QED
      BY <1>1, <1>4, LeastElement
  <2>2. foldclosed(c, ln) = m
    BY <1>2, <1>4, <2>1
  <2>3. m \in Nat /\ m # 0 /\ m \in c /\ Covers(m, ln)
    BY <1>1, <2>1
  <2> QED
    BY <2>1, <2>2, <2>3
<1> QED
  BY <1>3, <1>4

\* No fold that begins above the line hides it.
Seen(c, ln) == \A f \in c : f < ln => ~Covers(f, ln)

LEMMA NotHidden ==
  ASSUME LevelsOK, NEW c \in SUBSET Parents, NEW ln \in Nat, ~Hidden(c, ln)
  PROVE  Seen(c, ln)
<1>1. PICK m \in Nat : m = foldclosed(c, ln) /\ (m = 0 \/ m = ln)
  BY FoldClosedIs DEF Hidden
<1>2. ASSUME NEW f \in c, f < ln, Covers(f, ln) PROVE FALSE
  <2>1. f \in Nat /\ m <= f /\ m # 0
    <3>1. Parents \subseteq 2 .. Len(levels)
      BY ParentsAre
    <3> QED
      BY <1>1, <1>2, <3>1, FoldClosedIs
  <2> QED
    BY <1>1, <1>2, <2>1
<1> QED
  BY <1>2 DEF Seen

\* There, the outermost closed fold is that of the line itself.
LEMMA SeenFold ==
  ASSUME LevelsOK, NEW c \in SUBSET Parents, NEW ln \in Nat \ {0}, Seen(c, ln)
  PROVE  /\ foldclosed(c, ln) = ln <=> ln \in c
         /\ foldclosed(c, ln) \in {0, ln}
<1>1. PICK m \in Nat : m = foldclosed(c, ln)
  BY FoldClosedIs
<1>2. \A f \in c : f \in Nat /\ Covers(f, f)
  <2>1. Parents \subseteq 2 .. Len(levels)
    BY ParentsAre
  <2> QED
    BY <2>1, ParentsAre
<1>3. \A f \in c : Covers(f, ln) => f = ln
  <2>1. \A f \in c : Covers(f, ln) => f <= ln
    BY DEF Covers
  <2> QED
    BY <1>2, <2>1 DEF Seen
<1>4. m # 0 => m \in c /\ Covers(m, ln)
  BY <1>1, FoldClosedIs
<1>5. m = 0 => ln \notin c
  BY <1>1, <1>2, FoldClosedIs
<1> QED
  BY <1>1, <1>3, <1>4, <1>5

\* Closing a fold where none is closed.
LEMMA CloseOne ==
  ASSUME LevelsOK, NEW c \in SUBSET Parents, NEW ln \in Parents, \A f \in c : ~Covers(f, ln)
  PROVE  zc(c, ln) = c \cup {ln}
<1> DEFINE open == {f \in Parents : Covers(f, ln) /\ \A g \in c : Covers(g, ln) => f < g}
<1>1. ln \in open
  BY ParentsAre
<1>2. open \in SUBSET (0 .. Len(levels)) /\ Len(levels) \in Nat
  <2>1. Len(levels) \in Nat /\ \A f \in Parents : f \in 0 .. Len(levels)
    BY ParentsAre
  <2>2. \A f \in open : f \in Parents
    OBVIOUS
  <2> HIDE DEF open
  <2> QED
    BY <2>1, <2>2
<1>3. \A f \in open : f <= ln
  BY DEF Covers
<1>4. zc(c, ln) = IF open = {} THEN c ELSE c \cup {Max(open)}
  BY DEF zc
<1> HIDE DEF open
<1>5. PICK m : m = Max(open) /\ m \in open /\ \A x \in open : x <= m
  BY <1>1, <1>2, GreatestElement
<1>6. m \in Nat /\ ln \in Nat /\ m <= ln /\ ln <= m
  BY <1>1, <1>2, <1>3, <1>5
<1> QED
  BY <1>1, <1>4, <1>5, <1>6

LEMMA ZcKeeps ==
  ASSUME LevelsOK, NEW c \in SUBSET Parents, NEW ln
  PROVE  zc(c, ln) \in SUBSET Parents
<1> DEFINE open == {f \in Parents : Covers(f, ln) /\ \A g \in c : Covers(g, ln) => f < g}
<1>1. open \in SUBSET (0 .. Len(levels)) /\ Len(levels) \in Nat /\ open \subseteq Parents
  <2>1. Len(levels) \in Nat /\ \A f \in Parents : f \in 0 .. Len(levels)
    BY ParentsAre
  <2>2. \A f \in open : f \in Parents
    OBVIOUS
  <2> HIDE DEF open
  <2> QED
    BY <2>1, <2>2
<1>2. zc(c, ln) = IF open = {} THEN c ELSE c \cup {Max(open)}
  BY DEF zc
<1> HIDE DEF open
<1>3. open # {} => Max(open) \in open
  BY <1>1, GreatestElement
<1> QED
  BY <1>1, <1>2, <1>3

\* Sets of closed folds.
FoldSets == SUBSET Parents

\* Folds are closed one by one.
CloseSteps(f, L, c0) ==
  /\ f \in [0 .. Len(L) -> FoldSets] /\ f[0] = c0
  /\ \A k \in 1 .. Len(L) : f[k] = zc(f[k - 1], L[k])

LEMMA CloseFold ==
  ASSUME LevelsOK, NEW L \in Seq(Nat), NEW c0 \in FoldSets
  PROVE  \E f : CloseSteps(f, L, c0) /\ Close(c0, L) = f[Len(L)]
<1>1. PICK n \in Nat : n = Len(L) /\ DOMAIN L = 1 .. n
  OBVIOUS
<1> DEFINE g == [q \in (1 .. n) \X FoldSets |-> zc(q[2], L[q[1]])]
<1>2. IsStep(g, FoldSets, n)
  <2>1. ASSUME NEW q \in (1 .. n) \X FoldSets
        PROVE  zc(q[2], L[q[1]]) \in FoldSets
    <3>1. q[2] \in FoldSets /\ L[q[1]] \in Nat
      BY <1>1
    <3> QED
      BY <3>1, ZcKeeps DEF FoldSets
  <2> QED
    BY <2>1 DEF IsStep
<1>3. ASSUME NEW k \in 1 .. n, NEW x \in FoldSets
      PROVE  g[<<k, x>>] = zc(x, L[k])
  <2>1. <<k, x>> \in (1 .. n) \X FoldSets
    OBVIOUS
  <2> QED
    BY <2>1
<1> HIDE DEF g
<1>4. PICK f : Recurs(f, FoldSets, c0, n, g)
  BY <1>2, RecursionIs, Zenon
<1>5. PICK it : IsFold(it, FoldSets, c0, n, g)
  BY <1>2, FoldExists, Zenon
<1> DEFINE Rec(w) == w = [s \in SUBSET (1 .. n) |-> IF s = {} THEN c0
                                                   ELSE zc(w[s \ {Max(s)}], L[Max(s)])]
           c == CHOOSE w : Rec(w)
<1>6. Rec(it)
  <2>1. ASSUME NEW s \in SUBSET (1 .. n)
        PROVE  it[s] = IF s = {} THEN c0 ELSE zc(it[s \ {Max(s)}], L[Max(s)])
    <3>1. CASE s = {}
      BY <1>5, <3>1 DEF IsFold
    <3>2. CASE s # {}
      <4>1. Max(s) \in 1 .. n /\ s \ {Max(s)} \in SUBSET (1 .. n)
        BY <3>2, MaxOfSubset
      <4>2. it[s] = g[<<Max(s), it[s \ {Max(s)}]>>] /\ it[s \ {Max(s)}] \in FoldSets
        BY <1>5, <3>2, <4>1 DEF IsFold
      <4> QED
        BY <1>3, <3>2, <4>1, <4>2
    <3> QED
      BY <3>1, <3>2
  <2> QED
    BY <1>5, <2>1 DEF IsFold
<1>7. Rec(c)
  <2> HIDE DEF Rec
  <2> QED
    BY <1>6
<1>8. Close(c0, L) = c[1 .. n]
  BY <1>1, Zenon DEF Close, FoldLeft, MapThenFoldSet
<1>9. /\ c[{}] = c0
      /\ \A k \in 1 .. n : c[1 .. k] = zc(c[1 .. k - 1], L[k])
  <2>1. c = [s \in SUBSET (1 .. n) |-> IF s = {} THEN c0 ELSE zc(c[s \ {Max(s)}], L[Max(s)])]
    BY <1>7
  <2> HIDE DEF c
  <2>2. c[{}] = c0
    BY <2>1
  <2>3. ASSUME NEW k \in 1 .. n PROVE c[1 .. k] = zc(c[1 .. k - 1], L[k])
    <3>1. Max(1 .. k) = k /\ (1 .. k) \ {k} = 1 .. k - 1 /\ 1 .. k # {} /\ 1 .. k \in SUBSET (1 .. n)
      BY MaxOfInterval, SMTT(30)
    <3> QED
      BY <2>1, <3>1
  <2> QED
    BY <2>2, <2>3
<1> HIDE DEF c, Rec
<1>10. c[1 .. n] = f[n]
  <2>1. \A k \in 1 .. n : c[1 .. k - 1] \in FoldSets => c[1 .. k] = g[<<k, c[1 .. k - 1]>>]
    BY <1>3, <1>9
  <2>2. Folds(c, FoldSets, c0, n, g)
    BY <1>9, <2>1, Zenon DEF Folds
  <2> QED
    BY <1>1, <1>4, <2>2, FoldSteps
<1>11. CloseSteps(f, L, c0)
  <2>1. f \in [0 .. n -> FoldSets] /\ f[0] = c0 /\ \A k \in 1 .. n : f[k] = g[<<k, f[k - 1]>>]
    BY <1>4 DEF Recurs
  <2>2. ASSUME NEW k \in 1 .. n PROVE f[k] = zc(f[k - 1], L[k])
    <3>1. k - 1 \in 0 .. n
      OBVIOUS
    <3> QED
      BY <1>3, <2>1, <3>1
  <2> QED
    BY <1>1, <2>1, <2>2 DEF CloseSteps
<1> QED
  BY <1>1, <1>8, <1>10, <1>11

\* Lines are looked at one by one.
Looking == [c : FoldSets, cFolds : Seq(Nat)]

LEMMA LookIs ==
  ASSUME NEW acc \in Looking, NEW ln \in Nat
  PROVE  look(acc, ln) \in Looking
<1>1. acc.c \in FoldSets /\ acc.cFolds \in Seq(Nat)
  BY DEF Looking
<1>2. zo(acc.c, ln) \in FoldSets
  BY <1>1 DEF zo, FoldSets
<1>3. <<ln>> \o acc.cFolds \in Seq(Nat)
  BY <1>1
<1> QED
  BY <1>2, <1>3 DEF Looking, look

LookSteps(f, L, acc) ==
  /\ f \in [0 .. Len(L) -> Looking] /\ f[0] = acc
  /\ \A k \in 1 .. Len(L) : f[k] = look(f[k - 1], L[k])

LEMMA LookFold ==
  ASSUME NEW L \in Seq(Nat), NEW acc \in Looking
  PROVE  \E f : LookSteps(f, L, acc) /\ FoldLeft(look, acc, L) = f[Len(L)]
<1>1. PICK n \in Nat : n = Len(L) /\ DOMAIN L = 1 .. n
  OBVIOUS
<1> DEFINE g == [q \in (1 .. n) \X Looking |-> look(q[2], L[q[1]])]
<1>2. IsStep(g, Looking, n)
  <2>1. ASSUME NEW q \in (1 .. n) \X Looking
        PROVE  look(q[2], L[q[1]]) \in Looking
    <3>1. q[2] \in Looking /\ L[q[1]] \in Nat
      BY <1>1
    <3> QED
      BY <3>1, LookIs
  <2> QED
    BY <2>1 DEF IsStep
<1>3. ASSUME NEW k \in 1 .. n, NEW x \in Looking
      PROVE  g[<<k, x>>] = look(x, L[k])
  <2>1. <<k, x>> \in (1 .. n) \X Looking
    OBVIOUS
  <2> QED
    BY <2>1
<1> HIDE DEF g
<1>4. PICK f : Recurs(f, Looking, acc, n, g)
  BY <1>2, RecursionIs, Zenon
<1>5. PICK it : IsFold(it, Looking, acc, n, g)
  BY <1>2, FoldExists, Zenon
<1> DEFINE Rec(w) == w = [s \in SUBSET (1 .. n) |-> IF s = {} THEN acc
                                                   ELSE look(w[s \ {Max(s)}], L[Max(s)])]
           c == CHOOSE w : Rec(w)
<1>6. Rec(it)
  <2>1. ASSUME NEW s \in SUBSET (1 .. n)
        PROVE  it[s] = IF s = {} THEN acc ELSE look(it[s \ {Max(s)}], L[Max(s)])
    <3>1. CASE s = {}
      BY <1>5, <3>1 DEF IsFold
    <3>2. CASE s # {}
      <4>1. Max(s) \in 1 .. n /\ s \ {Max(s)} \in SUBSET (1 .. n)
        BY <3>2, MaxOfSubset
      <4>2. it[s] = g[<<Max(s), it[s \ {Max(s)}]>>] /\ it[s \ {Max(s)}] \in Looking
        BY <1>5, <3>2, <4>1 DEF IsFold
      <4> QED
        BY <1>3, <3>2, <4>1, <4>2
    <3> QED
      BY <3>1, <3>2
  <2> QED
    BY <1>5, <2>1 DEF IsFold
<1>7. Rec(c)
  <2> HIDE DEF Rec
  <2> QED
    BY <1>6
<1>8. FoldLeft(look, acc, L) = c[1 .. n]
  BY <1>1, Zenon DEF FoldLeft, MapThenFoldSet
<1>9. /\ c[{}] = acc
      /\ \A k \in 1 .. n : c[1 .. k] = look(c[1 .. k - 1], L[k])
  <2>1. c = [s \in SUBSET (1 .. n) |-> IF s = {} THEN acc ELSE look(c[s \ {Max(s)}], L[Max(s)])]
    BY <1>7
  <2> HIDE DEF c
  <2>2. c[{}] = acc
    BY <2>1
  <2>3. ASSUME NEW k \in 1 .. n PROVE c[1 .. k] = look(c[1 .. k - 1], L[k])
    <3>1. Max(1 .. k) = k /\ (1 .. k) \ {k} = 1 .. k - 1 /\ 1 .. k # {} /\ 1 .. k \in SUBSET (1 .. n)
      BY MaxOfInterval, SMTT(30)
    <3> QED
      BY <2>1, <3>1
  <2> QED
    BY <2>2, <2>3
<1> HIDE DEF c, Rec
<1>10. c[1 .. n] = f[n]
  <2>1. \A k \in 1 .. n : c[1 .. k - 1] \in Looking => c[1 .. k] = g[<<k, c[1 .. k - 1]>>]
    BY <1>3, <1>9
  <2>2. Folds(c, Looking, acc, n, g)
    BY <1>9, <2>1, Zenon DEF Folds
  <2> QED
    BY <1>1, <1>4, <2>2, FoldSteps
<1>11. LookSteps(f, L, acc)
  <2>1. f \in [0 .. n -> Looking] /\ f[0] = acc /\ \A k \in 1 .. n : f[k] = g[<<k, f[k - 1]>>]
    BY <1>4 DEF Recurs
  <2>2. ASSUME NEW k \in 1 .. n PROVE f[k] = look(f[k - 1], L[k])
    <3>1. k - 1 \in 0 .. n
      OBVIOUS
    <3> QED
      BY <1>3, <2>1, <3>1
  <2> QED
    BY <1>1, <2>1, <2>2 DEF LookSteps
<1> QED
  BY <1>1, <1>8, <1>10, <1>11

\* s lists the numbers in S, the last one first.
IsListed(s, S) ==
  /\ s \in Seq(Nat)
  /\ \A i \in 1 .. Len(s) : s[i] \in S
  /\ \A x \in S : \E i \in 1 .. Len(s) : s[i] = x
  /\ \A i, j \in 1 .. Len(s) : i < j => s[j] < s[i]

\* One more.
LEMMA ListMore ==
  ASSUME NEW s, NEW S, IsListed(s, S), NEW x \in Nat, \A y \in S : y < x
  PROVE  IsListed(<<x>> \o s, S \cup {x})
<1>1. PICK t : t = <<x>> \o s
  OBVIOUS
<1>2. PICK n \in Nat : n = Len(s) /\ s \in Seq(Nat)
  BY DEF IsListed
<1>3. /\ t \in Seq(Nat) /\ Len(t) = n + 1 /\ t[1] = x
      /\ \A i \in 2 .. n + 1 : t[i] = s[i - 1]
  BY <1>1, <1>2
<1>4. \A i \in 1 .. n + 1 : i = 1 \/ (i \in 2 .. n + 1 /\ i - 1 \in 1 .. n)
  OBVIOUS
<1>5. \A i \in 1 .. n + 1 : t[i] \in S \cup {x}
  BY <1>2, <1>3, <1>4 DEF IsListed
<1>6. \A y \in S \cup {x} : \E i \in 1 .. n + 1 : t[i] = y
  <2>1. 1 \in 1 .. n + 1
    OBVIOUS
  <2>2. ASSUME NEW y \in S PROVE \E i \in 1 .. n + 1 : t[i] = y
    <3>1. PICK i \in 1 .. n : s[i] = y
      BY <1>2 DEF IsListed
    <3>2. PICK j : j = i + 1 /\ j \in 2 .. n + 1 /\ j \in 1 .. n + 1 /\ j - 1 = i
      OBVIOUS
    <3>3. t[j] = y
      BY <1>3, <3>1, <3>2
    <3> QED
      BY <3>2, <3>3
  <2> QED
    BY <1>3, <2>1, <2>2
<1>7. ASSUME NEW i \in 1 .. n + 1, NEW j \in 1 .. n + 1, i < j PROVE t[j] < t[i]
  <2>1. j \in 2 .. n + 1 /\ j - 1 \in 1 .. n /\ t[j] = s[j - 1]
    BY <1>3, <1>7
  <2>2. CASE i = 1
    <3>1. s[j - 1] \in S
      BY <1>2, <2>1 DEF IsListed
    <3> QED
      BY <1>3, <2>1, <2>2, <3>1
  <2>3. CASE i # 1
    <3>1. i \in 2 .. n + 1 /\ i - 1 \in 1 .. n /\ i - 1 < j - 1
      BY <1>7, <2>1, <2>3
    <3> QED
      BY <1>2, <1>3, <2>1, <3>1 DEF IsListed
  <2> QED
    BY <2>2, <2>3
<1> QED
  BY <1>1, <1>3, <1>5, <1>6, <1>7 DEF IsListed

\* Closing listed folds, the last one first, closes just these.
LEMMA CloseTells ==
  ASSUME LevelsOK, NEW c \in FoldSets, NEW S \in FoldSets, NEW L, IsListed(L, S),
         \A f \in c, x \in S : ~Covers(f, x)
  PROVE  Close(c, L) = c \cup S
<1>1. PICK n \in Nat : n = Len(L) /\ L \in Seq(Nat)
  BY DEF IsListed
<1>2. PICK f : CloseSteps(f, L, c) /\ Close(c, L) = f[n]
  BY <1>1, CloseFold
<1> DEFINE Done(k) == f[k] = c \cup {L[i] : i \in 1 .. k}
           Bad == {k \in 0 .. n : ~Done(k)}
<1>3. Bad = {}
  <2> SUFFICES ASSUME Bad # {} PROVE FALSE
    OBVIOUS
  <2>1. PICK k \in Bad : \A j \in Bad : k <= j
    <3>1. Bad \in SUBSET Nat
      OBVIOUS
    <3> HIDE DEF Bad
    <3> QED
      BY <3>1, LeastElement
  <2>2. k \in 0 .. n /\ ~Done(k)
    OBVIOUS
  <2>3. CASE k = 0
    <3>1. f[0] = c
      BY <1>2 DEF CloseSteps
    <3>2. {L[i] : i \in 1 .. 0} = {}
      OBVIOUS
    <3> QED
      BY <2>2, <2>3, <3>1, <3>2
  <2>4. CASE k # 0
    <3>1. k \in 1 .. n /\ k - 1 \in 0 .. n /\ ~(k <= k - 1)
      BY <2>2, <2>4
    <3>2. Done(k - 1)
      <4>1. k - 1 \notin Bad
        <5> HIDE DEF Bad
        <5> QED
          BY <2>1, <3>1
      <4> HIDE DEF Done
      <4> QED
        BY <3>1, <4>1
    <3>3. PICK ln \in Parents : ln = L[k] /\ ln \in S
      BY <1>1, <3>1 DEF IsListed, FoldSets
    <3>4. PICK d : d = f[k - 1] /\ d \in FoldSets /\ f[k] = zc(d, ln)
      BY <1>1, <1>2, <3>1, <3>3 DEF CloseSteps
    <3>5. ASSUME NEW g \in d PROVE ~Covers(g, ln)
      <4>1. CASE g \in c
        BY <3>3, <4>1
      <4>2. CASE g \notin c
        <5>1. PICK i \in 1 .. k - 1 : g = L[i]
          BY <3>2, <3>4, <4>2
        <5>2. i \in 1 .. n /\ i < k
          BY <3>1
        <5>3. ln < g /\ ln \in Nat /\ g \in Nat
          <6>1. L[i] \in Nat /\ L[k] \in Nat
            BY <1>1, <3>1, <5>2
          <6>2. L[k] < L[i]
            BY <1>1, <3>1, <5>2 DEF IsListed
          <6> QED
            BY <3>3, <5>1, <6>1, <6>2
        <5> QED
          BY <5>3 DEF Covers
      <4> QED
        BY <4>1, <4>2
    <3>6. zc(d, ln) = d \cup {ln}
      BY <3>4, <3>5, CloseOne DEF FoldSets
    <3>7. {L[i] : i \in 1 .. k} = {L[i] : i \in 1 .. k - 1} \cup {L[k]}
      <4>1. \A i : i \in 1 .. k <=> i \in 1 .. k - 1 \/ i = k
        BY <3>1
      <4> QED
        BY <4>1, Zenon
    <3> QED
      BY <2>2, <3>2, <3>3, <3>4, <3>6, <3>7
  <2> QED
    BY <2>3, <2>4
<1>4. f[n] = c \cup {L[i] : i \in 1 .. n}
  <2>1. n \in 0 .. n
    OBVIOUS
  <2> QED
    BY <1>3, <2>1
<1>5. {L[i] : i \in 1 .. n} = S
  <2>1. \A x : x \in S <=> \E i \in 1 .. n : L[i] = x
    BY <1>1 DEF IsListed
  <2> QED
    BY <2>1
<1> QED
  BY <1>2, <1>4, <1>5

\* Looking at the lines from a visible one on finds the closed folds there.
LEMMA LookTells ==
  ASSUME LevelsOK, NEW c \in FoldSets, NEW a \in Nat \ {0}, NEW m \in Nat, Seen(c, a),
         NEW f, LookSteps(f, [i \in 1 .. m |-> a + i - 1], [c |-> c, cFolds |-> <<>>])
  PROVE  /\ f[m].c = c \ (a .. a + m - 1)
         /\ IsListed(f[m].cFolds, c \cap (a .. a + m - 1))
<1> DEFINE L == [i \in 1 .. m |-> a + i - 1]
           From(k) == a .. a + k - 1
           Done(k) == f[k].c = c \ From(k) /\ IsListed(f[k].cFolds, c \cap From(k))
           Bad == {k \in 0 .. m : ~Done(k)}
<1>1. Len(L) = m /\ \A i \in 1 .. m : L[i] = a + i - 1
  OBVIOUS
<1>2. /\ f \in [0 .. m -> Looking] /\ f[0] = [c |-> c, cFolds |-> <<>>]
      /\ \A k \in 1 .. m : f[k] = look(f[k - 1], L[k])
  <2> HIDE DEF L
  <2> QED
    BY <1>1 DEF LookSteps, L
<1>3. Bad = {}
  <2> SUFFICES ASSUME Bad # {} PROVE FALSE
    OBVIOUS
  <2>1. PICK k \in Bad : \A j \in Bad : k <= j
    <3>1. Bad \in SUBSET Nat
      OBVIOUS
    <3> HIDE DEF Bad
    <3> QED
      BY <3>1, LeastElement
  <2>2. k \in 0 .. m /\ ~Done(k)
    OBVIOUS
  <2>3. CASE k = 0
    <3>1. f[0].c = c /\ f[0].cFolds = <<>>
      BY <1>2
    <3>2. From(0) = {}
      OBVIOUS
    <3>3. IsListed(<<>>, {})
      BY DEF IsListed
    <3> QED
      BY <2>2, <2>3, <3>1, <3>2, <3>3
  <2>4. CASE k # 0
    <3>1. k \in 1 .. m /\ k - 1 \in 0 .. m /\ ~(k <= k - 1)
      BY <2>2, <2>4
    <3>2. Done(k - 1)
      <4>1. k - 1 \notin Bad
        <5> HIDE DEF Bad
        <5> QED
          BY <2>1, <3>1
      <4> HIDE DEF Done
      <4> QED
        BY <3>1, <4>1
    <3>3. PICK ln \in Nat \ {0} : ln = a + k - 1 /\ L[k] = ln
      BY <1>1, <3>1
    <3>4. \A x : x \in From(k) <=> x \in From(k - 1) \/ x = ln
      <4>1. ln - 1 = a + (k - 1) - 1 /\ a <= ln
        BY <3>1, <3>3
      <4>2. \A x : x \in a .. ln <=> x \in a .. ln - 1 \/ x = ln
        BY <3>3, <4>1
      <4> QED
        BY <3>3, <4>1, <4>2
    <3>5. \A x \in From(k - 1) : x < ln
      BY <3>1, <3>3
    <3>6. PICK acc : acc = f[k - 1] /\ acc \in Looking /\ f[k] = look(acc, ln)
      BY <1>2, <3>1, <3>3
    <3> DEFINE F == From(k - 1)
    <3>7. acc.c = c \ F /\ IsListed(acc.cFolds, c \cap F) /\ acc.c \in FoldSets
      BY <3>2, <3>6 DEF Looking
    <3>8. \A g \in Parents : g \in Nat
      BY ParentsAre
    <3>9. Seen(acc.c, ln)
      <4>1. ASSUME NEW g \in acc.c, g < ln, Covers(g, ln) PROVE FALSE
        <5>1. g \in c /\ g \notin F /\ g \in Nat
          BY <3>7, <3>8, <4>1 DEF FoldSets
        <5>2. g < a
          BY <3>1, <3>3, <4>1, <5>1
        <5>3. Covers(g, a)
          <6>1. PICK e : e = BranchEnd(levels, g)
            OBVIOUS
          <6>2. e \in Nat
            <7>1. g \in Parents
              BY <5>1 DEF FoldSets
            <7>2. e \in g .. Len(levels) /\ Len(levels) \in Nat
              BY <6>1, <7>1, ParentsAre
            <7> QED
              BY <5>1, <7>2
          <6>3. ln <= e
            BY <4>1, <6>1 DEF Covers
          <6>4. a <= ln
            BY <3>1, <3>3
          <6>5. g <= a /\ a <= e
            BY <3>3, <5>1, <5>2, <6>2, <6>3, <6>4
          <6> QED
            BY <6>1, <6>5 DEF Covers
        <5> QED
          BY <5>1, <5>2, <5>3 DEF Seen
      <4> QED
        BY <4>1 DEF Seen
    <3>10. foldclosed(acc.c, ln) = ln <=> ln \in acc.c
      BY <3>7, <3>9, SeenFold DEF FoldSets
    <3>11. ln \in acc.c <=> ln \in c
      BY <3>1, <3>3, <3>5, <3>7
    <3>12. CASE ln \in c
      <4>1. f[k] = [c |-> zo(acc.c, ln), cFolds |-> <<ln>> \o acc.cFolds]
        BY <3>6, <3>10, <3>11, <3>12 DEF look
      <4>2. zo(acc.c, ln) = acc.c \ {ln}
        BY <3>10, <3>11, <3>12 DEF zo
      <4>3. f[k].c = c \ From(k) /\ f[k].cFolds = <<ln>> \o acc.cFolds
        <5>1. f[k].c = zo(acc.c, ln) /\ f[k].cFolds = <<ln>> \o acc.cFolds
          BY <4>1
        <5>2. c \ From(k) = (c \ F) \ {ln}
          BY <3>4
        <5> QED
          BY <3>7, <4>2, <5>1, <5>2
      <4>4. IsListed(<<ln>> \o acc.cFolds, (c \cap F) \cup {ln})
        <5>1. \A y \in c \cap F : y < ln
          BY <3>5
        <5> HIDE DEF F
        <5> QED
          BY <3>3, <3>7, <5>1, ListMore
      <4>5. c \cap From(k) = (c \cap F) \cup {ln}
        BY <3>4, <3>12
      <4> QED
        BY <2>2, <4>3, <4>4, <4>5
    <3>13. CASE ln \notin c
      <4>1. f[k] = acc
        BY <3>6, <3>10, <3>11, <3>13 DEF look
      <4>2. c \ From(k) = c \ F /\ c \cap From(k) = c \cap F
        BY <3>4, <3>13
      <4> QED
        BY <2>2, <3>7, <4>1, <4>2
    <3> QED
      BY <3>12, <3>13
  <2> QED
    BY <2>3, <2>4
<1>4. m \in 0 .. m
  OBVIOUS
<1> QED
  BY <1>3, <1>4

\* Lines in order, the last one first.
LEMMA ReverseLists ==
  ASSUME NEW n \in Nat, NEW S \in SUBSET (1 .. n)
  PROVE  IsListed(Reverse(Ascending(S)), S)
<1>1. PICK s : s = Ascending(S)
  OBVIOUS
<1>2. /\ s \in Seq(S)
      /\ \A x \in S : \E i \in 1 .. Len(s) : s[i] = x
      /\ \A i, j \in 1 .. Len(s) : i < j => s[i] < s[j]
  BY <1>1, AscendingIs
<1>3. PICK m \in Nat : m = Len(s)
  BY <1>2
<1>4. PICK t : t = Reverse(s)
  OBVIOUS
<1>5. \A i \in 1 .. m : m - i + 1 \in 1 .. m /\ s[i] \in S /\ s[i] \in Nat
  <2>1. \A i \in 1 .. m : s[i] \in S
    BY <1>2, <1>3, ElementOfSeq
  <2>2. \A x \in S : x \in Nat
    OBVIOUS
  <2>3. \A i \in 1 .. m : m - i + 1 \in 1 .. m
    OBVIOUS
  <2> QED
    BY <2>1, <2>2, <2>3
<1>6. t = [i \in 1 .. m |-> s[m - i + 1]]
  BY <1>3, <1>4 DEF Reverse
<1>7. t \in Seq(Nat) /\ Len(t) = m /\ \A i \in 1 .. m : t[i] = s[m - i + 1]
  BY <1>5, <1>6
<1>8. \A i \in 1 .. m : t[i] \in S
  BY <1>5, <1>7
<1>9. ASSUME NEW x \in S PROVE \E i \in 1 .. m : t[i] = x
  <2>1. PICK j \in 1 .. m : s[j] = x
    BY <1>2, <1>3
  <2>2. PICK i : i = m - j + 1 /\ i \in 1 .. m /\ m - i + 1 = j
    BY <1>5
  <2>3. t[i] = x
    BY <1>7, <2>1, <2>2
  <2> QED
    BY <2>2, <2>3
<1>10. ASSUME NEW i \in 1 .. m, NEW j \in 1 .. m, i < j PROVE t[j] < t[i]
  <2>1. PICK p, q : p = m - j + 1 /\ q = m - i + 1
    OBVIOUS
  <2>2. p \in 1 .. m /\ q \in 1 .. m /\ p < q
    BY <1>10, <2>1
  <2>3. t[j] = s[p] /\ t[i] = s[q]
    BY <1>7, <2>1
  <2> QED
    BY <1>2, <1>3, <2>2, <2>3
<1> QED
  BY <1>1, <1>4, <1>7, <1>8, <1>9, <1>10 DEF IsListed

\* What a saved range is read from: its closed folds are listed, and none of
\* the folds is changed.
LEMMA GetTells ==
  ASSUME LevelsOK, NEW c \in FoldSets, NEW ln1 \in 1 .. Len(levels),
         NEW ln2 \in ln1 .. Len(levels), ~Hidden(c, ln1)
  PROVE  LET got == foldingGet(c, ln1, ln2)
         IN  /\ got.c = c
             /\ \A ln \in ln1 .. ln2 : ln \in c <=> \E i \in 1 .. Len(got.cFolds) : got.cFolds[i] = ln
<1>1. PICK n \in Nat \ {0} : n = Len(levels)
  BY ParentsAre
<1>2. ln1 \in Nat \ {0} /\ ln2 \in Nat /\ ln1 <= ln2 /\ ln2 <= n
  BY <1>1
<1> DEFINE outer == foldclosed(c, ln2)
<1>3. PICK last \in ln2 .. n : last = IF outer = 0 THEN ln2 ELSE BranchEnd(levels, outer)
  <2>1. CASE outer = 0
    BY <1>2, <2>1
  <2>2. CASE outer # 0
    <3>1. PICK g : g = outer /\ g \in Parents /\ Covers(g, ln2)
      BY <2>2, FoldClosedIs DEF FoldSets
    <3>2. PICK e : e = BranchEnd(levels, g) /\ e \in g .. n /\ g \in Nat
      BY <1>1, <3>1, ParentsAre
    <3>3. ln2 <= e
      BY <3>1, <3>2 DEF Covers
    <3>4. e \in ln2 .. n
      BY <1>2, <3>2, <3>3
    <3> QED
      BY <2>2, <3>1, <3>2, <3>4
  <2> QED
    BY <2>1, <2>2
<1> DEFINE lines == [i \in 1 .. last - ln1 + 1 |-> ln1 + i - 1]
           found == FoldLeft(look, [c |-> c, cFolds |-> <<>>], lines)
<1>4. PICK m \in Nat : m = last - ln1 + 1 /\ ln1 + m - 1 = last
  <2>1. last \in Nat /\ ln1 <= last
    BY <1>2, <1>3
  <2>2. last - ln1 + 1 \in Nat /\ ln1 + (last - ln1 + 1) - 1 = last
    BY <1>2, <2>1
  <2> QED
    BY <2>2
<1>5. foldingGet(c, ln1, ln2) = [cFolds |-> found.cFolds, c |-> Close(found.c, found.cFolds)]
  BY <1>3 DEF foldingGet
<1>6. found.c = c \ (ln1 .. last) /\ IsListed(found.cFolds, c \cap (ln1 .. last))
  <2>1. lines = [i \in 1 .. m |-> ln1 + i - 1]
    BY <1>4
  <2>2. lines \in Seq(Nat) /\ Len(lines) = m
    BY <1>2, <2>1
  <2>3. [c |-> c, cFolds |-> <<>>] \in Looking
    BY DEF Looking
  <2> HIDE DEF lines
  <2>4. PICK f : LookSteps(f, lines, [c |-> c, cFolds |-> <<>>]) /\ found = f[m]
    BY <2>2, <2>3, LookFold
  <2>5. Seen(c, ln1)
    BY <1>2, NotHidden DEF FoldSets
  <2>6. f[m].c = c \ (ln1 .. ln1 + m - 1) /\ IsListed(f[m].cFolds, c \cap (ln1 .. ln1 + m - 1))
    BY <1>2, <2>1, <2>4, <2>5, LookTells
  <2> QED
    BY <1>4, <2>4, <2>6
<1> HIDE DEF found
<1> DEFINE S == c \cap (ln1 .. last)
<1>7. Close(found.c, found.cFolds) = c
  <2>1. found.c \in FoldSets /\ S \in FoldSets
    BY <1>6 DEF FoldSets
  <2>2. ASSUME NEW g \in found.c, NEW x \in S PROVE ~Covers(g, x)
    <3>1. g \in c /\ g \in Nat /\ ~(ln1 <= g /\ g <= last)
      <4>1. g \in c /\ g \notin ln1 .. last
        BY <1>6
      <4>2. g \in Nat
        BY <4>1, ParentsAre DEF FoldSets
      <4> QED
        BY <1>2, <1>3, <4>1, <4>2
    <3>2. x \in Nat /\ ln1 <= x /\ x <= last
      BY <1>2, <1>3
    <3>3. CASE g > last
      BY <1>3, <3>1, <3>2, <3>3 DEF Covers
    <3>4. CASE g < ln1
      <4>1. Seen(c, ln1)
        BY <1>2, NotHidden DEF FoldSets
      <4>2. ~Covers(g, ln1)
        BY <3>1, <3>4, <4>1 DEF Seen
      <4>3. PICK e : e = BranchEnd(levels, g) /\ e \in Nat
        <5>1. g \in Parents
          BY <3>1 DEF FoldSets
        <5>2. BranchEnd(levels, g) \in g .. n
          BY <1>1, <5>1, ParentsAre
        <5> QED
          BY <3>1, <5>2
      <4>4. ~(ln1 <= e)
        BY <1>2, <3>1, <3>4, <4>2, <4>3 DEF Covers
      <4>5. ~(x <= e)
        BY <1>2, <3>2, <4>3, <4>4
      <4> QED
        BY <4>3, <4>5 DEF Covers
    <3> QED
      BY <1>2, <1>3, <3>1, <3>3, <3>4
  <2>3. Close(found.c, found.cFolds) = found.c \cup S
    BY <1>6, <2>1, <2>2, CloseTells
  <2> QED
    BY <1>6, <2>3
<1>8. \A ln \in ln1 .. ln2 : ln \in c <=> \E i \in 1 .. Len(found.cFolds) : found.cFolds[i] = ln
  <2>1. \A ln \in ln1 .. ln2 : ln \in ln1 .. last
    BY <1>2, <1>3
  <2> QED
    BY <1>6, <2>1 DEF IsListed
<1> QED
  BY <1>5, <1>7, <1>8

\* Making the folds of a range: its nodes are closed as listed.
LEMMA CreateTells ==
  ASSUME LevelsOK, NEW c \in FoldSets, NEW ln1 \in Nat, NEW ln2 \in Nat,
         NEW S \in FoldSets, S \subseteq ln1 .. ln2, NEW L, IsListed(L, S)
  PROVE  /\ foldingCreate(c, ln1, ln2, L) \in FoldSets
         /\ \A ln \in Parents \cap (ln1 .. ln2) : ln \in foldingCreate(c, ln1, ln2, L) <=> ln \in S
         /\ foldingCreate(c, ln1, ln2, L) = foldopen(c, ln1, ln2) \cup S
         /\ \A g \in foldopen(c, ln1, ln2) : g \notin ln1 .. ln2
<1> DEFINE o == foldopen(c, ln1, ln2)
<1>1. o \in FoldSets /\ \A g \in o, ln \in ln1 .. ln2 : ~Covers(g, ln)
  BY DEF foldopen, FoldSets
<1>2. \A g \in o : g \notin ln1 .. ln2
  BY <1>1, ParentsAre DEF FoldSets
<1> HIDE DEF o
<1>3. Close(o, L) = o \cup S
  <2>1. \A g \in o, x \in S : ~Covers(g, x)
    BY <1>1
  <2> QED
    BY <1>1, <2>1, CloseTells
<1>4. foldingCreate(c, ln1, ln2, L) = o \cup S
  BY <1>3 DEF foldingCreate, o
<1>5. o \cup S \in FoldSets
  BY <1>1 DEF FoldSets
<1> QED
  BY <1>2, <1>4, <1>5 DEF o

-----------------------------------------------------------------------------
(* All headlines.                                                          *)

MarksInv ==
  /\ levels \in Seq(Positive) /\ levels # <<>>
  /\ tails \in [1 .. Len(levels) -> Seq(Chars)]
  /\ \A ln \in 1 .. Len(levels) : Good(tails[ln])
  /\ tails[1] = <<>>
  /\ marked \in [1 .. Len(levels) -> BOOLEAN]
  /\ XsAgree
  /\ snLn \in 1 .. Len(levels)

\* The last startup node.
LEMMA StartupLine ==
  ASSUME levels \in Seq(Positive), levels # <<>>, voom_TreeToStartupNode # {}
  PROVE  Max(voom_TreeToStartupNode) \in 1 .. Len(levels)
<1> DEFINE S == voom_TreeToStartupNode
<1>1. Len(levels) \in Nat
  OBVIOUS
<1>2. S \in SUBSET (0 .. Len(levels)) /\ S \subseteq 1 .. Len(levels)
  BY <1>1 DEF voom_TreeToStartupNode, Nodes
<1> HIDE DEF S
<1>3. Max(S) \in S
  BY <1>1, <1>2, GreatestElement DEF S
<1> QED
  BY <1>2, <1>3 DEF S

LEMMA MarksInit == Init => MarksInv
<1> SUFFICES ASSUME Init PROVE MarksInv
  OBVIOUS
<1>1. levels \in Seq(Positive) /\ levels # <<>>
  BY OutlinesAssumption DEF Init
<1>2. Len(levels) \in Nat \ {0}
  BY <1>1, EmptySeq
<1>3. Good(<<>>)
  <2>1. <<>> \in Seq(Chars) /\ Rest(<<>>) = <<>> /\ ~(Len(<<>>) > 1)
    BY DEF Rest, HasX
  <2> QED
    BY <2>1 DEF Good, MarksInOrder
<1>4. \A tail \in Tails \cup {<<>>} : Good(tail)
  BY <1>3, TailsAssumption DEF Good
<1>5. tails \in [1 .. Len(levels) -> Tails \cup {<<>>}]
  BY DEF Init
<1>6. tails \in [1 .. Len(levels) -> Seq(Chars)] /\ \A ln \in 1 .. Len(levels) : Good(tails[ln])
  BY <1>4, <1>5 DEF Good
<1>7. marked \in [1 .. Len(levels) -> BOOLEAN] /\ XsAgree
  <2>1. \A ln \in 1 .. Len(levels) : HasX(tails[ln]) \in BOOLEAN
    BY DEF HasX
  <2>2. marked = [ln \in 1 .. Len(levels) |-> HasX(tails[ln])]
    BY DEF Init
  <2> QED
    BY <2>1, <2>2, Zenon DEF XsAgree
<1>8. snLn \in 1 .. Len(levels)
  BY <1>1, <1>2, StartupLine DEF Init, CreatedSnLn
<1>9. tails[1] = <<>>
  BY DEF Init
<1> QED
  BY <1>1, <1>6, <1>7, <1>8, <1>9 DEF MarksInv

\* A command that changes headlines, but no startup mark.
Edits ==
  /\ tails' \in [1 .. Len(levels) -> Seq(Chars)]
  /\ tails'[1] = <<>>
  /\ \A ln \in 1 .. Len(levels) : Good(tails'[ln])
  /\ marked' \in [1 .. Len(levels) -> BOOLEAN]
  /\ \A ln \in 1 .. Len(levels) : marked'[ln] <=> HasX(tails'[ln])

KeepsStartups == \A ln \in 1 .. Len(levels) : IsStartup(tails'[ln]) <=> IsStartup(tails[ln])
KeepsOpen == \A ln \in 1 .. Len(levels) : HasO(tails'[ln]) <=> HasO(tails[ln])

\* The nodes in S get an o if their folds are open, the others keep theirs.
OpensBy(S, isClosed) ==
  \A ln \in 1 .. Len(levels) :
    /\ ln \in S => (HasO(tails'[ln]) <=> ~isClosed[ln])
    /\ ln \notin S => (HasO(tails'[ln]) <=> HasO(tails[ln]))

\* Such a command gives each headline an end that is as good as the old one.
LEMMA EditsOf ==
  ASSUME MarksInv, NEW f, tails' = [ln \in 1 .. Len(levels) |-> f[ln]], f[1] = <<>>,
         marked' \in [1 .. Len(levels) -> BOOLEAN],
         \A ln \in 1 .. Len(levels) : Good(f[ln]) /\ (marked'[ln] <=> HasX(f[ln]))
  PROVE  Edits
<1>1. Len(levels) \in Nat \ {0}
  BY EmptySeq DEF MarksInv
<1>2. \A ln \in 1 .. Len(levels) : tails'[ln] = f[ln]
  BY Zenon
<1>3. \A ln \in 1 .. Len(levels) : f[ln] \in Seq(Chars)
  BY DEF Good
<1>4. tails' \in [1 .. Len(levels) -> Seq(Chars)]
  BY <1>3, Zenon
<1>5. tails'[1] = <<>>
  BY <1>1, <1>2
<1> QED
  BY <1>2, <1>4, <1>5, Zenon DEF Edits

LEMMA MarkEdits ==
  ASSUME MarksInv, NEW ln1 \in 2 .. Len(levels), NEW ln2, voom_OopMark(ln1, ln2)
  PROVE  Edits /\ KeepsStartups /\ KeepsOpen
<1> DEFINE f == [ln \in 1 .. Len(levels) |->
                   IF ln \in ln1 .. ln2 /\ ~marked[ln] THEN <<"x">> \o tails[ln] ELSE tails[ln]]
<1>1. Len(levels) \in Nat \ {0}
  BY EmptySeq DEF MarksInv
<1>2. tails' = f /\ marked' = [ln \in 1 .. Len(levels) |-> ln \in ln1 .. ln2 \/ marked[ln]]
  BY DEF voom_OopMark
<1>3. f[1] = <<>>
  BY <1>1 DEF MarksInv
<1>4. marked' \in [1 .. Len(levels) -> BOOLEAN]
  BY <1>2, Zenon DEF MarksInv
<1>5. ASSUME NEW ln \in 1 .. Len(levels)
      PROVE  /\ Good(f[ln])
             /\ marked'[ln] <=> HasX(f[ln])
             /\ IsStartup(f[ln]) <=> IsStartup(tails[ln])
             /\ HasO(f[ln]) <=> HasO(tails[ln])
  <2>1. Good(tails[ln]) /\ (marked[ln] <=> HasX(tails[ln]))
    BY DEF MarksInv, XsAgree
  <2>2. marked'[ln] <=> ln \in ln1 .. ln2 \/ marked[ln]
    BY <1>2, Zenon
  <2>3. CASE ln \in ln1 .. ln2 /\ ~marked[ln]
    BY <2>1, <2>2, <2>3, MarkKeeps
  <2>4. CASE ~(ln \in ln1 .. ln2 /\ ~marked[ln])
    <3>1. f[ln] = tails[ln] /\ (marked'[ln] <=> marked[ln])
      BY <2>2, <2>4
    <3> QED
      BY <2>1, <3>1
  <2> QED
    BY <2>3, <2>4
<1> QED
  <2>1. tails' = [ln \in 1 .. Len(levels) |-> f[ln]]
    BY <1>2
  <2> HIDE DEF f
  <2> QED
    BY <1>2, <1>3, <1>4, <1>5, <2>1, EditsOf DEF KeepsStartups, KeepsOpen

LEMMA UnmarkEdits ==
  ASSUME MarksInv, NEW ln1 \in 2 .. Len(levels), NEW ln2, voom_OopUnmark(ln1, ln2)
  PROVE  Edits /\ KeepsStartups /\ KeepsOpen
<1> DEFINE f == [ln \in 1 .. Len(levels) |->
                   IF ln \in ln1 .. ln2 /\ marked[ln] THEN Lstrip(tails[ln], {"x"}) ELSE tails[ln]]
<1>1. Len(levels) \in Nat \ {0}
  BY EmptySeq DEF MarksInv
<1>2. tails' = f /\ marked' = [ln \in 1 .. Len(levels) |-> ln \notin ln1 .. ln2 /\ marked[ln]]
  BY DEF voom_OopUnmark
<1>3. f[1] = <<>>
  BY <1>1 DEF MarksInv
<1>4. marked' \in [1 .. Len(levels) -> BOOLEAN]
  BY <1>2, Zenon DEF MarksInv
<1>5. ASSUME NEW ln \in 1 .. Len(levels)
      PROVE  /\ Good(f[ln])
             /\ marked'[ln] <=> HasX(f[ln])
             /\ IsStartup(f[ln]) <=> IsStartup(tails[ln])
             /\ HasO(f[ln]) <=> HasO(tails[ln])
  <2>1. Good(tails[ln]) /\ (marked[ln] <=> HasX(tails[ln]))
    BY DEF MarksInv, XsAgree
  <2>2. marked'[ln] <=> ln \notin ln1 .. ln2 /\ marked[ln]
    BY <1>2, Zenon
  <2>3. CASE ln \in ln1 .. ln2 /\ marked[ln]
    BY <2>1, <2>2, <2>3, UnmarkKeeps
  <2>4. CASE ~(ln \in ln1 .. ln2 /\ marked[ln])
    <3>1. f[ln] = tails[ln] /\ (marked'[ln] <=> marked[ln])
      BY <2>2, <2>4
    <3> QED
      BY <2>1, <3>1
  <2> QED
    BY <2>3, <2>4
<1> QED
  <2>1. tails' = [ln \in 1 .. Len(levels) |-> f[ln]]
    BY <1>2
  <2> HIDE DEF f
  <2> QED
    BY <1>2, <1>3, <1>4, <1>5, <2>1, EditsOf DEF KeepsStartups, KeepsOpen

\* Saving the folding, and cleaning it up, give some nodes another o.
LEMMA OpenMarkEdits ==
  ASSUME MarksInv, NEW S \in SUBSET Nodes, NEW isClosed \in [S -> BOOLEAN],
         tails' = [ln \in 1 .. Len(levels) |->
                     IF ln \in S THEN OpenMark(tails[ln], isClosed[ln]) ELSE tails[ln]],
         marked' = marked
  PROVE  Edits /\ KeepsStartups /\ OpensBy(S, isClosed)
<1> DEFINE f == [ln \in 1 .. Len(levels) |->
                   IF ln \in S THEN OpenMark(tails[ln], isClosed[ln]) ELSE tails[ln]]
<1>1. Len(levels) \in Nat \ {0}
  BY EmptySeq DEF MarksInv
<1>2. f[1] = <<>>
  BY <1>1 DEF MarksInv, Nodes
<1>3. ASSUME NEW ln \in 1 .. Len(levels)
      PROVE  /\ Good(f[ln])
             /\ marked'[ln] <=> HasX(f[ln])
             /\ IsStartup(f[ln]) <=> IsStartup(tails[ln])
             /\ ln \in S => (HasO(f[ln]) <=> ~isClosed[ln])
             /\ ln \notin S => (HasO(f[ln]) <=> HasO(tails[ln]))
  <2>1. Good(tails[ln]) /\ (marked'[ln] <=> HasX(tails[ln]))
    BY DEF MarksInv, XsAgree
  <2>2. CASE ln \in S
    <3>1. isClosed[ln] \in BOOLEAN
      BY <2>2
    <3>2. f[ln] = OpenMark(tails[ln], isClosed[ln])
      BY <2>2
    <3> HIDE DEF f
    <3>3. /\ Good(f[ln])
          /\ HasX(f[ln]) <=> HasX(tails[ln])
          /\ IsStartup(f[ln]) <=> IsStartup(tails[ln])
          /\ HasO(f[ln]) <=> ~isClosed[ln]
      BY <2>1, <3>1, <3>2, OpenKeeps, Zenon
    <3> QED
      BY <2>1, <2>2, <3>3, Zenon
  <2>3. CASE ln \notin S
    BY <2>1, <2>3
  <2> QED
    BY <2>2, <2>3
<1>4. marked' \in [1 .. Len(levels) -> BOOLEAN]
  BY DEF MarksInv
<1> QED
  <2>1. tails' = f /\ tails' = [ln \in 1 .. Len(levels) |-> f[ln]]
    OBVIOUS
  <2> HIDE DEF f
  <2> QED
    BY <1>2, <1>3, <1>4, <2>1, EditsOf DEF KeepsStartups, OpensBy

\* The parents on lines a..b get an o if they are not listed.
OpensUnlisted(a, b, cFolds) ==
  \E isClosed :
    /\ OpensBy(Parents \cap (a .. b), isClosed)
    /\ \A ln \in Parents \cap (a .. b) : isClosed[ln] <=> \E i \in 1 .. Len(cFolds) : cFolds[i] = ln

LEMMA SaveEdits ==
  ASSUME MarksInv, NEW ln1, NEW ln2, FoldingSave(ln1, ln2)
  PROVE  LET end == FoldingEnd(ln1, ln2)
         IN  /\ Edits /\ KeepsStartups
             /\ OpensUnlisted(ln1, end, foldingGet(closed, ln1, end).cFolds)
<1> DEFINE end == FoldingEnd(ln1, ln2)
           got == foldingGet(closed, ln1, end)
           S == Parents \cap (ln1 .. end)
           among(ln) == \E i \in 1 .. Len(got.cFolds) : got.cFolds[i] = ln
           isClosed == [ln \in S |-> among(ln)]
<1>1. S \in SUBSET Nodes
  BY DEF Parents
<1>2. isClosed \in [S -> BOOLEAN]
  <2>1. \A ln \in S : among(ln) \in BOOLEAN
    OBVIOUS
  <2> HIDE DEF among, S
  <2> QED
    BY <2>1, Zenon
<1>3. tails' = [ln \in 1 .. Len(levels) |->
                  IF ln \in ln1 .. end /\ ln \in Parents THEN OpenMark(tails[ln], among(ln)) ELSE tails[ln]]
  BY Zenon DEF FoldingSave, foldingWrite
<1>4. tails' = [ln \in 1 .. Len(levels) |->
                  IF ln \in S THEN OpenMark(tails[ln], isClosed[ln]) ELSE tails[ln]]
  <2>1. \A ln : ln \in S <=> ln \in ln1 .. end /\ ln \in Parents
    OBVIOUS
  <2> HIDE DEF among, S
  <2>2. \A ln \in S : isClosed[ln] = among(ln)
    BY Zenon
  <2> HIDE DEF isClosed
  <2>3. \A ln \in 1 .. Len(levels) :
          (IF ln \in ln1 .. end /\ ln \in Parents THEN OpenMark(tails[ln], among(ln)) ELSE tails[ln])
          = IF ln \in S THEN OpenMark(tails[ln], isClosed[ln]) ELSE tails[ln]
    BY <2>1, <2>2, Zenon
  <2> QED
    BY <1>3, <2>3, Zenon
<1>5. marked' = marked
  BY DEF FoldingSave
<1>6. \A ln \in S : isClosed[ln] <=> among(ln)
  <2> HIDE DEF S, among
  <2> QED
    BY Zenon
<1> HIDE DEF isClosed
<1>7. Edits /\ KeepsStartups /\ OpensBy(S, isClosed)
  <2> HIDE DEF S
  <2> QED
    BY <1>1, <1>2, <1>4, <1>5, OpenMarkEdits
<1>8. OpensUnlisted(ln1, end, got.cFolds)
  <2>1. PICK cFolds : cFolds = got.cFolds
    OBVIOUS
  <2>2. \A ln \in S : isClosed[ln] <=> \E i \in 1 .. Len(cFolds) : cFolds[i] = ln
    BY <1>6, <2>1
  <2> QED
    BY <1>7, <2>1, <2>2, Zenon DEF OpensUnlisted
<1> QED
  BY <1>7, <1>8

LEMMA CleanupEdits ==
  ASSUME MarksInv, FoldingCleanup
  PROVE  Edits /\ KeepsStartups /\ \A ln \in Parents : HasO(tails'[ln]) <=> HasO(tails[ln])
<1> DEFINE S == Nodes \ Parents
           isClosed == [ln \in S |-> TRUE]
<1>1. S \in SUBSET Nodes /\ isClosed \in [S -> BOOLEAN]
  OBVIOUS
<1>2. tails' = [ln \in 1 .. Len(levels) |-> IF ln \in S THEN OpenMark(tails[ln], TRUE) ELSE tails[ln]]
  BY Zenon DEF FoldingCleanup, foldingCleanup
<1>3. \A ln \in S : isClosed[ln] = TRUE
  OBVIOUS
<1> HIDE DEF S, isClosed
<1>4. tails' = [ln \in 1 .. Len(levels) |->
                  IF ln \in S THEN OpenMark(tails[ln], isClosed[ln]) ELSE tails[ln]]
  BY <1>2, <1>3, Zenon
<1>5. marked' = marked
  BY DEF FoldingCleanup
<1>6. Edits /\ KeepsStartups /\ OpensBy(S, isClosed)
  BY <1>1, <1>4, <1>5, OpenMarkEdits
<1>7. \A ln \in Parents : ln \in 1 .. Len(levels) /\ ln \notin S
  <2>1. LevelsOK
    BY DEF MarksInv, LevelsOK
  <2> QED
    BY <2>1, ParentsAre DEF S
<1> QED
  BY <1>6, <1>7 DEF OpensBy

LEMMA StartupEdits ==
  ASSUME MarksInv, NEW ln \in 1 .. Len(levels), voom_OopMarkStartup(ln)
  PROVE  Edits /\ KeepsOpen /\ \A i \in Nodes : IsStartup(tails'[i]) <=> i = ln
<1> DEFINE f == [i \in 1 .. Len(levels) |->
                   IF i = 1 THEN tails[i] ELSE IF i = ln THEN Started(tails[i]) ELSE Unstarted(tails[i])]
<1>1. Len(levels) \in Nat \ {0}
  BY EmptySeq DEF MarksInv
<1>2. tails' = f /\ marked' = marked
  BY DEF voom_OopMarkStartup
<1>3. f[1] = <<>>
  BY <1>1 DEF MarksInv
<1>4. ASSUME NEW i \in 1 .. Len(levels)
      PROVE  /\ Good(f[i])
             /\ marked'[i] <=> HasX(f[i])
             /\ i # 1 => (IsStartup(f[i]) <=> i = ln)
             /\ HasO(f[i]) <=> HasO(tails[i])
  <2>1. Good(tails[i]) /\ (marked'[i] <=> HasX(tails[i]))
    BY <1>2 DEF MarksInv, XsAgree
  <2>2. CASE i = 1
    BY <2>1, <2>2
  <2>3. CASE i # 1 /\ i = ln
    BY <2>1, <2>3, StartKeeps
  <2>4. CASE i # 1 /\ i # ln
    BY <2>1, <2>4, UnstartKeeps
  <2> QED
    BY <2>2, <2>3, <2>4
<1> QED
  <2>1. tails' = [i \in 1 .. Len(levels) |-> f[i]] /\ marked' \in [1 .. Len(levels) -> BOOLEAN]
    BY <1>2 DEF MarksInv
  <2>2. \A i \in Nodes : i \in 1 .. Len(levels) /\ i # 1
    BY <1>1 DEF Nodes
  <2> HIDE DEF f
  <2>3. \A i \in 1 .. Len(levels) : tails'[i] = f[i]
    BY <2>1
  <2> QED
    BY <1>2, <1>3, <1>4, <2>1, <2>2, <2>3, EditsOf DEF KeepsOpen

LEMMA CreateEdits ==
  ASSUME MarksInv, NEW ln \in 1 .. Len(levels), TreeCreate(ln)
  PROVE  Edits /\ KeepsStartups /\ KeepsOpen /\ snLn' \in 1 .. Len(levels)
<1>1. Len(levels) \in Nat \ {0}
  BY EmptySeq DEF MarksInv
<1>2. /\ marked' = [i \in 1 .. Len(levels) |-> i \in Nodes /\ HasX(tails[i])]
      /\ tails' = tails
      /\ snLn' = IF voom_TreeToStartupNode = {} THEN ln ELSE Max(voom_TreeToStartupNode)
  BY DEF TreeCreate, CreatedSnLn
<1>3. marked' \in [1 .. Len(levels) -> BOOLEAN]
  BY <1>2, Zenon
<1>4. ASSUME NEW i \in 1 .. Len(levels) PROVE marked'[i] <=> HasX(tails[i])
  <2>1. marked'[i] <=> i \in Nodes /\ HasX(tails[i])
    BY <1>2, Zenon
  <2>2. i \notin Nodes => i = 1
    BY <1>1 DEF Nodes
  <2>3. ~HasX(tails[1])
    BY DEF HasX, MarksInv
  <2> QED
    BY <2>1, <2>2, <2>3
<1>5. snLn' \in 1 .. Len(levels)
  BY <1>2, StartupLine DEF MarksInv
<1> QED
  BY <1>2, <1>3, <1>4, <1>5 DEF Edits, KeepsStartups, KeepsOpen, MarksInv

\* What a step does to the headlines and the startup marks.
LEMMA MarksStep ==
  ASSUME MarksInv, [Next]_vars
  PROVE  /\ MarksInv'
         /\ \/ KeepsStartups
            \/ \E ln \in 1 .. Len(levels) : voom_OopMarkStartup(ln)
<1>1. Len(levels) \in Nat \ {0}
  BY EmptySeq DEF MarksInv
<1>2. ASSUME Edits, levels' = levels, snLn' \in 1 .. Len(levels) PROVE MarksInv'
  BY <1>2 DEF MarksInv, Edits, XsAgree
<1>3. snLn \in 1 .. Len(levels)
  BY DEF MarksInv
<1>4. ASSUME UNCHANGED <<levels, tails, marked, snLn>> PROVE MarksInv' /\ KeepsStartups
  BY <1>4 DEF MarksInv, XsAgree, KeepsStartups
<1>5. ASSUME NEW r \in Ranges, FoldingSave(r[1], r[2]) PROVE MarksInv' /\ KeepsStartups
  <2>1. levels' = levels /\ snLn' = snLn
    BY <1>5 DEF FoldingSave
  <2> QED
    BY <1>2, <1>3, <1>5, <2>1, SaveEdits
<1>6. ASSUME NEW r \in Ranges, r[1] # 1, voom_OopMark(r[1], r[2]) \/ voom_OopUnmark(r[1], r[2])
      PROVE  MarksInv' /\ KeepsStartups
  <2>1. r[1] \in 2 .. Len(levels)
    BY <1>1, <1>6 DEF Ranges
  <2>2. levels' = levels /\ snLn' = snLn
    BY <1>6 DEF voom_OopMark, voom_OopUnmark
  <2> QED
    BY <1>2, <1>3, <1>6, <2>1, <2>2, MarkEdits, UnmarkEdits
<1>7. ASSUME NEW r \in Ranges, FoldingRestore(r[1], r[2]) PROVE MarksInv' /\ KeepsStartups
  BY <1>4, <1>7 DEF FoldingRestore
<1>8. ASSUME FoldingCleanup PROVE MarksInv' /\ KeepsStartups
  <2>1. levels' = levels /\ snLn' = snLn
    BY <1>8 DEF FoldingCleanup
  <2> QED
    BY <1>2, <1>3, <1>8, <2>1, CleanupEdits
<1>9. ASSUME NEW ln \in 1 .. Len(levels), voom_OopMarkStartup(ln) PROVE MarksInv'
  <2>1. levels' = levels /\ snLn' = snLn
    BY <1>9 DEF voom_OopMarkStartup
  <2> QED
    BY <1>2, <1>3, <1>9, <2>1, StartupEdits
<1>10. ASSUME NEW ln \in 1 .. Len(levels), TreeToggleFold(ln) PROVE MarksInv' /\ KeepsStartups
  BY <1>4, <1>10 DEF TreeToggleFold
<1>11. ASSUME NEW ln \in 1 .. Len(levels), TreeCreate(ln) PROVE MarksInv' /\ KeepsStartups
  <2>1. levels' = levels
    BY <1>11 DEF TreeCreate
  <2> QED
    BY <1>2, <1>11, <2>1, CreateEdits
<1>12. CASE UNCHANGED vars
  BY <1>4, <1>12 DEF vars
<1> QED
  BY <1>5, <1>6, <1>7, <1>8, <1>9, <1>10, <1>11, <1>12 DEF Next, Saving, NotSaving

LEMMA MarksInvariant == Spec => []MarksInv
<1>1. MarksInv /\ [Next]_vars => MarksInv'
  BY MarksStep
<1> QED
  BY <1>1, MarksInit, PTL DEF Spec

\* The Tree shows an x for just the headlines that a new parse would find marked,
\* in all outlines and after any commands.
THEOREM XsStayTogether == Spec => []XsAgree
<1>1. MarksInv => XsAgree
  BY DEF MarksInv
<1> QED
  BY <1>1, MarksInvariant, PTL

\* Marking the startup node leaves that one only, or none for line 1, and no other
\* command makes or loses a startup node.
THEOREM StartupNodeIsUnique == Spec => OneStartupNode
<1>1. ASSUME MarksInv, [Next]_vars, NEW ln \in 1 .. Len(levels), voom_OopMarkStartup(ln)
      PROVE  (voom_TreeToStartupNode)' = {ln} \ {1}
  <2>1. levels' = levels
    BY <1>1 DEF voom_OopMarkStartup
  <2>2. Nodes' = Nodes /\ \A i : i \in Nodes => i # 1
    <3>1. Len(levels) \in Nat
      BY DEF MarksInv
    <3> QED
      BY <1>1, <2>1, <3>1 DEF Nodes
  <2>3. ln \in Nodes <=> ln # 1
    <3>1. Len(levels) \in Nat
      BY <1>1 DEF MarksInv
    <3> QED
      BY <3>1 DEF Nodes
  <2>4. \A i \in Nodes : IsStartup(tails'[i]) <=> i = ln
    BY <1>1, StartupEdits
  <2>5. (voom_TreeToStartupNode)' = {i \in Nodes : IsStartup(tails'[i])}
    BY <2>2 DEF voom_TreeToStartupNode
  <2> QED
    BY <2>2, <2>3, <2>4, <2>5
<1>2. ASSUME MarksInv, [Next]_vars, KeepsStartups, levels' = levels
      PROVE  (voom_TreeToStartupNode)' = voom_TreeToStartupNode
  <2>1. Nodes' = Nodes /\ Nodes \subseteq 1 .. Len(levels)
    BY <1>2 DEF Nodes, MarksInv
  <2> QED
    BY <1>2, <2>1 DEF voom_TreeToStartupNode, KeepsStartups
<1>3. ASSUME [Next]_vars PROVE levels' = levels
  BY <1>3 DEF Next, Saving, NotSaving, FoldingSave, FoldingRestore, FoldingCleanup, voom_OopMark,
              voom_OopUnmark, voom_OopMarkStartup, TreeToggleFold, TreeCreate, vars
<1>4. MarksInv /\ [Next]_vars =>
        [LET before == voom_TreeToStartupNode
             after == voom_TreeToStartupNode'
         IN  /\ \A ln \in 1..Len(levels) : after = {ln} \ {1} \/ ~voom_OopMarkStartup(ln)
             /\ after = before \/ \E ln \in 1..Len(levels) : voom_OopMarkStartup(ln)]_vars
  BY <1>1, <1>2, <1>3, MarksStep
<1> QED
  BY <1>4, MarksInvariant, PTL DEF Spec, OneStartupNode

-----------------------------------------------------------------------------
(* The folds after a command.                                              *)

LEMMA RangeIs ==
  ASSUME LevelsOK, NEW r \in Ranges
  PROVE  /\ r[1] \in 1 .. Len(levels)
         /\ FoldingEnd(r[1], r[2]) \in r[1] .. Len(levels)
<1>1. PICK n \in Nat \ {0} : n = Len(levels)
  BY ParentsAre
<1>2. PICK a, b : a = r[1] /\ b = r[2] /\ a \in 1 .. n /\ b \in 1 .. n /\ a <= b
  BY <1>1 DEF Ranges
<1>3. PICK e : e = BranchEnd(levels, b) /\ e \in b .. n
  BY <1>1, <1>2, BranchEndIs DEF LevelsOK
<1>4. FoldingEnd(a, b) \in {e, b}
  BY <1>3 DEF FoldingEnd
<1> QED
  BY <1>1, <1>2, <1>3, <1>4

\* Saving leaves the folds as they are.
LEMMA SaveCloses ==
  ASSUME LevelsOK, closed \in FoldSets, NEW r \in Ranges, FoldingSave(r[1], r[2])
  PROVE  LET end == FoldingEnd(r[1], r[2])
             got == foldingGet(closed, r[1], end)
         IN  /\ closed' = closed
             /\ \A ln \in r[1] .. end :
                  ln \in closed <=> \E i \in 1 .. Len(got.cFolds) : got.cFolds[i] = ln
<1>1. PICK a, e : /\ a = r[1] /\ e = FoldingEnd(r[1], r[2])
                  /\ a \in 1 .. Len(levels) /\ e \in a .. Len(levels)
  BY RangeIs
<1>2. closed' = foldingGet(closed, a, e).c /\ ~Hidden(closed, a)
  BY <1>1 DEF FoldingSave
<1>3. PICK got : got = foldingGet(closed, a, e)
  OBVIOUS
<1>4. /\ got.c = closed
      /\ \A ln \in a .. e : ln \in closed <=> \E i \in 1 .. Len(got.cFolds) : got.cFolds[i] = ln
  BY <1>1, <1>2, <1>3, GetTells
<1>5. closed' = closed
  BY <1>2, <1>3, <1>4
<1> QED
  BY <1>1, <1>3, <1>4, <1>5, Zenon

\* Restoring closes the nodes without an o, in the range.
LEMMA RestoreCloses ==
  ASSUME LevelsOK, closed \in FoldSets, NEW r \in Ranges, FoldingRestore(r[1], r[2])
  PROVE  /\ closed' \in FoldSets
         /\ \A ln \in Parents \cap (r[1] .. FoldingEnd(r[1], r[2])) :
              ln \in closed' <=> ~HasO(tails[ln])
<1>1. PICK n \in Nat : n = Len(levels)
  BY ParentsAre
<1>2. PICK a \in Nat, e \in Nat : /\ a = r[1] /\ e = FoldingEnd(r[1], r[2])
                                  /\ 1 <= a /\ a <= e /\ e <= n
  BY <1>1, RangeIs
<1> DEFINE S == {ln \in a .. e : ln \in Parents /\ ~HasO(tails[ln])}
           L == foldingRead(a, e)
<1>3. closed' = foldingCreate(closed, a, e, L)
  BY <1>2 DEF FoldingRestore
<1>4. IsListed(L, S)
  <2>1. L = Reverse(Ascending(S))
    BY DEF foldingRead, Lines
  <2>2. S \in SUBSET (1 .. n)
    BY <1>2
  <2> HIDE DEF L, S
  <2> QED
    BY <1>1, <2>1, <2>2, ReverseLists
<1>5. S \in FoldSets /\ S \subseteq a .. e
  BY DEF FoldSets
<1>6. \A ln \in Parents \cap (a .. e) : ln \in S <=> ~HasO(tails[ln])
  OBVIOUS
<1> HIDE DEF L, S
<1>7. /\ foldingCreate(closed, a, e, L) \in FoldSets
      /\ \A ln \in Parents \cap (a .. e) : ln \in foldingCreate(closed, a, e, L) <=> ln \in S
  BY <1>4, <1>5, CreateTells
<1> QED
  BY <1>2, <1>3, <1>6, <1>7

\* So does starting Voom again, in the whole outline, before the selected node is
\* shown.
LEMMA CreateCloses ==
  ASSUME LevelsOK
  PROVE  CreatedFolds = {i \in Parents : ~HasO(tails[i])}
<1>1. PICK n \in Nat : n = Len(levels) /\ Nodes = 2 .. n
  BY ParentsAre DEF Nodes
<1> DEFINE oFolds == {i \in Nodes : HasO(tails[i])}
           L == foldingFlip(2, n, oFolds)
           S == {i \in 2 .. n : i \in Parents /\ i \notin oFolds}
<1>2. CreatedFolds = IF oFolds = {} THEN Parents ELSE foldingCreate(Parents, 2, n, L)
  BY <1>1 DEF CreatedFolds
<1>3. Parents \subseteq 2 .. n
  BY <1>1, ParentsAre
<1>4. S = {i \in Parents : ~HasO(tails[i])}
  BY <1>1, <1>3
<1>5. CASE oFolds = {}
  <2>1. \A i \in Parents : ~HasO(tails[i])
    BY <1>1, <1>3, <1>5
  <2> QED
    BY <1>2, <1>5, <2>1
<1>6. CASE oFolds # {}
  <2>1. IsListed(L, S)
    <3>1. L = Reverse(Ascending(S))
      BY DEF foldingFlip, Lines
    <3>2. S \in SUBSET (1 .. n)
      BY <1>1
    <3> HIDE DEF L, S
    <3> QED
      BY <3>1, <3>2, ReverseLists
  <2>2. S \in FoldSets /\ S \subseteq 2 .. n /\ Parents \in FoldSets
    BY DEF FoldSets
  <2> HIDE DEF L, S, oFolds
  <2>3. PICK o : o = foldopen(Parents, 2, n)
    OBVIOUS
  <2>4. foldingCreate(Parents, 2, n, L) = o \cup S /\ \A g \in o : g \notin 2 .. n
    BY <1>1, <2>1, <2>2, <2>3, CreateTells
  <2>5. o = {}
    <3>1. o \subseteq Parents
      BY <2>3 DEF foldopen
    <3> QED
      BY <1>3, <2>4, <3>1
  <2> QED
    BY <1>2, <1>4, <1>6, <2>4, <2>5
<1> QED
  BY <1>5, <1>6

FoldsInv == MarksInv /\ closed \in FoldSets

LEMMA LevelsAre == MarksInv => LevelsOK
BY DEF MarksInv, LevelsOK

LEMMA LevelsStay == [Next]_vars => levels' = levels /\ Nodes' = Nodes /\ Parents' = Parents /\ FoldSets' = FoldSets
<1>1. ASSUME [Next]_vars PROVE levels' = levels
  BY <1>1 DEF Next, Saving, NotSaving, FoldingSave, FoldingRestore, FoldingCleanup, voom_OopMark,
              voom_OopUnmark, voom_OopMarkStartup, TreeToggleFold, TreeCreate, vars
<1>2. levels' = levels => Nodes' = Nodes /\ Parents' = Parents /\ FoldSets' = FoldSets
  BY DEF Nodes, Parents, FoldSets
<1> QED
  BY <1>1, <1>2

\* Only folds that exist are closed.
LEMMA FoldsStep ==
  ASSUME FoldsInv, [Next]_vars
  PROVE  closed' \in FoldSets
<1>1. LevelsOK /\ closed \in FoldSets
  BY LevelsAre DEF FoldsInv
<1>2. ASSUME NEW r \in Ranges, FoldingSave(r[1], r[2]) PROVE closed' \in FoldSets
  BY <1>1, <1>2, SaveCloses
<1>3. ASSUME NEW r \in Ranges, voom_OopMark(r[1], r[2]) \/ voom_OopUnmark(r[1], r[2])
      PROVE  closed' \in FoldSets
  BY <1>1, <1>3 DEF voom_OopMark, voom_OopUnmark
<1>4. ASSUME NEW r \in Ranges, FoldingRestore(r[1], r[2]) PROVE closed' \in FoldSets
  BY <1>1, <1>4, RestoreCloses
<1>5. ASSUME FoldingCleanup PROVE closed' \in FoldSets
  BY <1>1, <1>5 DEF FoldingCleanup
<1>6. ASSUME NEW ln \in 1 .. Len(levels), voom_OopMarkStartup(ln) PROVE closed' \in FoldSets
  BY <1>1, <1>6 DEF voom_OopMarkStartup
<1>7. ASSUME NEW ln \in 1 .. Len(levels), TreeToggleFold(ln) PROVE closed' \in FoldSets
  <2>1. zo(closed, ln) \in FoldSets
    BY <1>1 DEF zo, FoldSets
  <2>2. zc(closed, ln) \in FoldSets
    BY <1>1, ZcKeeps DEF FoldSets
  <2>3. TreeZV(closed, ln) \in FoldSets
    BY <1>1 DEF TreeZV, FoldSets
  <2> QED
    BY <1>1, <1>7, <2>1, <2>2, <2>3 DEF TreeToggleFold
<1>8. ASSUME NEW ln \in 1 .. Len(levels), TreeCreate(ln) PROVE closed' \in FoldSets
  BY <1>1, <1>8, CreateCloses DEF TreeCreate, TreeZV, FoldSets
<1>9. CASE UNCHANGED vars
  BY <1>1, <1>9 DEF vars
<1> QED
  BY <1>2, <1>3, <1>4, <1>5, <1>6, <1>7, <1>8, <1>9 DEF Next, Saving, NotSaving

LEMMA FoldsInvariant == Spec => []FoldsInv
<1>1. Init => FoldsInv
  BY MarksInit DEF Init, FoldsInv, FoldSets
<1>2. FoldsInv /\ [Next]_vars => FoldsInv'
  <2> SUFFICES ASSUME FoldsInv, [Next]_vars PROVE FoldsInv'
    OBVIOUS
  <2>1. MarksInv'
    BY MarksStep DEF FoldsInv
  <2>2. closed' \in FoldSets'
    BY FoldsStep, LevelsStay
  <2> QED
    BY <2>1, <2>2 DEF FoldsInv
<1> QED
  BY <1>1, <1>2, PTL DEF Spec

\* Tree and Body agree on the marked nodes, only folds that exist are closed, and
\* the line that is selected exists, in all outlines and after any commands.
THEOREM MarksTyped == Spec => []MarksTypeOK
<1>1. FoldsInv => MarksTypeOK
  <2> SUFFICES ASSUME FoldsInv PROVE MarksTypeOK
    OBVIOUS
  <2>1. PICK n \in Nat : n = Len(levels)
    BY LevelsAre, ParentsAre DEF FoldsInv
  <2>2. tails \in [1 .. n -> Seq(Chars)] /\ marked \in [1 .. n -> BOOLEAN]
    BY <2>1 DEF FoldsInv, MarksInv
  <2>3. Len(tails) = n /\ Len(marked) = n
    BY <2>1, <2>2
  <2> QED
    BY <2>1, <2>3 DEF MarksTypeOK, FoldsInv, MarksInv, FoldSets
<1> QED
  BY <1>1, FoldsInvariant, PTL

\* The record of what was saved is that of the o marks.
LEMMA SavedStep ==
  ASSUME FoldsInv, MarksTellSaved, [MCNext]_<<vars, saved, steps>>
  PROVE  MarksTellSaved'
<1>1. LevelsOK /\ closed \in FoldSets /\ MarksInv
  BY LevelsAre DEF FoldsInv
<1>2. [Next]_vars
  BY DEF MCNext, Next, Saving, vars
<1>3. Parents' = Parents /\ \A ln \in Parents : ln \in 1 .. Len(levels)
  BY <1>1, <1>2, LevelsStay, ParentsAre
<1>4. ASSUME saved' = saved, \A ln \in Parents : HasO(tails'[ln]) <=> HasO(tails[ln])
      PROVE  MarksTellSaved'
  BY <1>3, <1>4 DEF MarksTellSaved
<1>5. ASSUME NotSaving, saved' = saved PROVE MarksTellSaved'
  <2>1. ASSUME KeepsOpen PROVE MarksTellSaved'
    BY <1>3, <1>4, <1>5, <2>1 DEF KeepsOpen
  <2>2. ASSUME NEW r \in Ranges, r[1] # 1, voom_OopMark(r[1], r[2]) \/ voom_OopUnmark(r[1], r[2])
        PROVE  KeepsOpen
    <3>1. r[1] \in 2 .. Len(levels)
      BY <1>1, <2>2, RangeIs
    <3> QED
      BY <1>1, <2>2, <3>1, MarkEdits, UnmarkEdits
  <2>3. ASSUME tails' = tails PROVE MarksTellSaved'
    BY <1>4, <1>5, <2>3
  <2>4. ASSUME NEW r \in Ranges, FoldingRestore(r[1], r[2]) PROVE tails' = tails
    BY <2>4 DEF FoldingRestore
  <2>5. ASSUME FoldingCleanup PROVE MarksTellSaved'
    BY <1>1, <1>4, <1>5, <2>5, CleanupEdits
  <2>6. ASSUME NEW ln \in 1 .. Len(levels), voom_OopMarkStartup(ln) PROVE KeepsOpen
    BY <1>1, <2>6, StartupEdits
  <2>7. ASSUME NEW ln \in 1 .. Len(levels), TreeToggleFold(ln) \/ TreeCreate(ln) PROVE tails' = tails
    BY <2>7 DEF TreeToggleFold, TreeCreate
  <2> QED
    BY <1>5, <2>1, <2>2, <2>3, <2>4, <2>5, <2>6, <2>7 DEF NotSaving
<1>6. ASSUME NEW r \in Ranges, FoldingSave(r[1], r[2]),
             saved' = (saved \ (r[1] .. FoldingEnd(r[1], r[2]))) \cup (closed \cap (r[1] .. FoldingEnd(r[1], r[2])))
      PROVE  MarksTellSaved'
  <2>1. PICK at : at = r[1] .. FoldingEnd(r[1], r[2])
    OBVIOUS
  <2>2. PICK isClosed : /\ OpensBy(Parents \cap at, isClosed)
                        /\ \A ln \in Parents \cap at : isClosed[ln] <=> ln \in closed
    <3>1. PICK got : got = foldingGet(closed, r[1], FoldingEnd(r[1], r[2]))
      OBVIOUS
    <3>2. \A ln \in at : ln \in closed <=> \E i \in 1 .. Len(got.cFolds) : got.cFolds[i] = ln
      BY <1>1, <1>6, <2>1, <3>1, SaveCloses
    <3>3. PICK isClosed : /\ OpensBy(Parents \cap at, isClosed)
                          /\ \A ln \in Parents \cap at :
                               isClosed[ln] <=> \E i \in 1 .. Len(got.cFolds) : got.cFolds[i] = ln
      <4>1. OpensUnlisted(r[1], FoldingEnd(r[1], r[2]), foldingGet(closed, r[1], FoldingEnd(r[1], r[2])).cFolds)
        BY <1>1, <1>6, SaveEdits
      <4> QED
        BY <2>1, <3>1, <4>1 DEF OpensUnlisted
    <3>4. \A ln \in Parents \cap at : isClosed[ln] <=> ln \in closed
      BY <3>2, <3>3
    <3> QED
      BY <3>3, <3>4
  <2>3. ASSUME NEW ln
        PROVE  ln \in saved' <=> ln \in Parents /\ ~HasO(tails'[ln])
    <3>1. ln \in saved' <=> (ln \in saved /\ ln \notin at) \/ (ln \in closed /\ ln \in at)
      BY <1>6, <2>1
    <3>2. ln \in saved <=> ln \in Parents /\ ~HasO(tails[ln])
      BY DEF MarksTellSaved
    <3>3. ln \in closed => ln \in Parents
      BY <1>1 DEF FoldSets
    <3>4. ln \in Parents /\ ln \in at => (HasO(tails'[ln]) <=> ~(ln \in closed))
      BY <1>3, <2>2 DEF OpensBy
    <3>5. ln \in Parents /\ ln \notin at => (HasO(tails'[ln]) <=> HasO(tails[ln]))
      BY <1>3, <2>2 DEF OpensBy
    <3> QED
      BY <3>1, <3>2, <3>3, <3>4, <3>5
  <2> QED
    BY <1>3, <2>3 DEF MarksTellSaved
<1>7. CASE UNCHANGED <<vars, saved, steps>>
  BY <1>4, <1>7 DEF vars
<1> QED
  BY <1>5, <1>6, <1>7 DEF MCNext

MCInv == FoldsInv /\ MarksTellSaved

LEMMA SavedInvariant == MCSpec => []MCInv
<1>1. MCInit => MCInv
  <2>1. Init => FoldsInv
    BY MarksInit DEF Init, FoldsInv, FoldSets
  <2> QED
    BY <2>1 DEF MCInit, MCInv, MarksTellSaved
<1>2. [MCNext]_<<vars, saved, steps>> => [Next]_vars
  BY DEF MCNext, Next, Saving, vars
<1>3. MCInv /\ [MCNext]_<<vars, saved, steps>> => MCInv'
  <2> SUFFICES ASSUME MCInv, [MCNext]_<<vars, saved, steps>> PROVE MCInv'
    OBVIOUS
  <2>1. MarksInv'
    BY <1>2, MarksStep DEF MCInv, FoldsInv
  <2>2. closed' \in FoldSets'
    BY <1>2, FoldsStep, LevelsStay DEF MCInv
  <2>3. MarksTellSaved'
    BY SavedStep DEF MCInv
  <2> QED
    BY <2>1, <2>2, <2>3 DEF FoldsInv, MCInv
<1> QED
  BY <1>1, <1>3, PTL DEF MCSpec

\* The o marks tell the saved folds in all outlines, whatever other marks are set
\* and whatever commands are given, any number of them.
THEOREM SavedFoldsAreTold == MCSpec => []MarksTellSaved
<1>1. MCInv => MarksTellSaved
  BY DEF MCInv
<1> QED
  BY <1>1, SavedInvariant, PTL

\* Saving opens closed folds to look into them and closes the same ones again.
THEOREM SavingKeepsFolds == MCSpec => SaveKeepsFolds
<1>1. MCInv => \A r \in Ranges : closed' = closed \/ ~FoldingSave(r[1], r[2])
  BY LevelsAre, SaveCloses DEF MCInv, FoldsInv
<1>2. MCInv /\ [MCNext]_<<vars, saved, steps>> =>
        [\A r \in Ranges : closed' = closed \/ ~FoldingSave(r[1], r[2])]_vars
  BY <1>1
<1> QED
  BY <1>2, SavedInvariant, PTL DEF MCSpec, SaveKeepsFolds

\* Restoring the folding of a range gives the folds that were saved there, and
\* starting Voom again those of the whole outline but the ones that would hide the
\* selected node.
THEOREM SavedFoldsAreRestored == MCSpec => SavedFoldsReturn
<1>1. ASSUME MCInv, NEW r \in Ranges, FoldingRestore(r[1], r[2]),
             NEW ln \in Parents \cap (r[1] .. FoldingEnd(r[1], r[2]))
      PROVE  ln \in closed' <=> ln \in saved
  <2>1. ln \in closed' <=> ~HasO(tails[ln])
    BY <1>1, LevelsAre, RestoreCloses DEF MCInv, FoldsInv
  <2>2. ln \in saved <=> ~HasO(tails[ln])
    BY <1>1 DEF MCInv, MarksTellSaved
  <2> QED
    BY <2>1, <2>2
<1>2. ASSUME MCInv, NEW ln \in 1 .. Len(levels), TreeCreate(ln)
      PROVE  closed' = saved \ Hiding(snLn')
  <2>1. PICK s \in 1 .. Len(levels) : s = CreatedSnLn(ln) /\ snLn' = s
    <3>1. snLn' \in 1 .. Len(levels)
      BY <1>2, CreateEdits DEF MCInv, FoldsInv
    <3> QED
      BY <1>2, <3>1 DEF TreeCreate
  <2>2. CreatedFolds = saved /\ saved \subseteq Parents
    BY <1>2, LevelsAre, CreateCloses DEF MCInv, FoldsInv, MarksTellSaved
  <2>3. closed' = {f \in saved : f = s \/ ~Covers(f, s)}
    BY <1>2, <2>1, <2>2 DEF TreeCreate, TreeZV
  <2>4. ASSUME NEW f \in saved PROVE f \in Int /\ (Covers(f, s) => f <= s)
    BY <1>2, <2>2, LevelsAre, ParentsAre DEF MCInv, FoldsInv, Covers
  <2> QED
    BY <2>1, <2>2, <2>3, <2>4 DEF Hiding
<1>3. MCInv =>
        /\ \A r \in Ranges :
             \/ \A ln \in Parents \cap r[1]..FoldingEnd(r[1], r[2]) : ln \in closed' <=> ln \in saved
             \/ ~FoldingRestore(r[1], r[2])
        /\ closed' = saved \ Hiding(snLn') \/ \A ln \in 1..Len(levels) : ~TreeCreate(ln)
  BY <1>1, <1>2
<1>4. MCInv /\ [MCNext]_<<vars, saved, steps>> =>
        [/\ \A r \in Ranges :
              \/ \A ln \in Parents \cap r[1]..FoldingEnd(r[1], r[2]) : ln \in closed' <=> ln \in saved
              \/ ~FoldingRestore(r[1], r[2])
         /\ closed' = saved \ Hiding(snLn') \/ \A ln \in 1..Len(levels) : ~TreeCreate(ln)]_<<vars, saved>>
  BY <1>3
<1> QED
  BY <1>4, SavedInvariant, PTL DEF MCSpec, SavedFoldsReturn
=============================================================================
