--------------------------------- MODULE Rest ---------------------------------
(***************************************************************************)
(* The rest mode of VOoM (voom_mode_rest.py).  A headline is a title with  *)
(* an underline, and perhaps an overline, of any character; the adornment  *)
(* styles get their levels in the order they are found in.  Operations     *)
(* give moved headlines the style that their level has, and take a new     *)
(* style for a level that has none.                                        *)
(*                                                                         *)
(* k is "text" here, where n is 1 for inset text and 2 for text longer     *)
(* than the adornments, or "ad", where n is the character.                 *)
(***************************************************************************)
EXTENDS Markdown

AdLine(ch) == Line("ad", ch, 0, 1)
Inset(t) == Line("text", 1, 0, t)

Ad(ch, over) == [ch |-> ch, over |-> over]

\* The adornment styles in order of preference; the code has 64 of them.
AD_STYLES == <<Ad(1, TRUE), Ad(2, TRUE)>> \o [ch \in 1..13 |-> Ad(ch, FALSE)]

\* A style that ads, which gives the styles of levels, does not use.
get_new_ad(ads) ==
  AD_STYLES[Min({i \in 1..Len(AD_STYLES) : \A lev \in DOMAIN ads : ads[lev] # AD_STYLES[i]})]

\* A line that is a title over a line of adornment.  A line of adornment, which
\* is as long, is not.
IsTitle(l) == l.k = "text" /\ l.t # NoText /\ l.n # 2

\* The parse reads L1 after L2.  An underline is the second or third line of a
\* block that a blank line or a headline precedes, which is line ok or ok + 1;
\* a block without one is skipped.
rest_read(blines) ==
  LET Z == Len(blines)
      found(S, i, ad, bln) ==
        LET known == {lev \in 1..Len(S.ads) : S.ads[lev] = ad}
            ads == IF known = {} THEN Append(S.ads, ad) ELSE S.ads
            lev == IF known = {} THEN Len(ads) ELSE Min(known)
        IN  [L1 |-> Blank, L2 |-> Blank, ok |-> i + 2, ads |-> ads,
             heads |-> Append(S.heads, HeadAt(bln, lev, i - 1, i + 1))]
      read[i \in 0..Z] ==
        IF i = 0 THEN [L1 |-> Blank, L2 |-> Blank, ok |-> 2, ads |-> <<>>, heads |-> <<>>]
        ELSE LET last == read[i - 1]
                 L1 == blines[i]
                 L2 == last.L1
                 L3 == last.L2
                 S == [last EXCEPT !.L1 = L1, !.L2 = L2]
             IN  CASE IsBlank(L1)                -> [S EXCEPT !.ok = i + 2]
                   [] i < S.ok \/ IsBlank(L2)    -> S
                   [] OTHER ->
                      IF L1.k = "ad" /\ IsTitle(L2) /\ IsBlank(L3) /\ L2.n = 0
                      THEN found(S, i, Ad(L1.n, FALSE), i - 1)
                      ELSE IF L1.k = "ad" /\ IsTitle(L2) /\ L3 = L1
                      THEN found(S, i, Ad(L1.n, TRUE), i - 2)
                      ELSE [S EXCEPT !.ok = IF i > @ THEN Z + 1 ELSE @]
  IN  read[Z]

rest_makeOutline(blines) == FromHeads(blines, rest_read(blines).heads)

\* The lines of a new headline after line blnum; line 0 is the last one.  The
\* style of a new level is stored by the next parse only.
rest_newHeadline(level, blnum, Body, style) ==
  LET before == Body[IF blnum = 0 THEN Len(Body) ELSE blnum]
      ad == IF level \in DOMAIN style.ads THEN style.ads[level] ELSE get_new_ad(style.ads)
      over == IF ad.over THEN <<AdLine(ad.ch)>> ELSE <<>>
  IN  (IF IsBlank(before) THEN <<>> ELSE <<Blank>>)
        \o over \o <<Text(NewHeadline), AdLine(ad.ch), Blank>>

-----------------------------------------------------------------------------
(* After an operation.                                                     *)

\* The styles with new ones for those of levs that have none, from the first
\* headline to the last.
AddStyles(ads, levs) ==
  LET add(more, lev) == IF lev \in DOMAIN more THEN more ELSE more @@ (lev :> get_new_ad(more))
  IN  FoldLeft(add, ads, levs)

\* The style of a headline whose first lines are L1, L2 and L3; there is none
\* if the code fails.
deduce_ad_style(L1, L2, L3) ==
  CASE L2.k = "ad" /\ L1.n # 2                          -> {Ad(L2.n, FALSE)}
    [] L2.k # "ad" /\ L1 = L3 /\ L1.k = "ad" /\ L2.n # 2 -> {Ad(L1.n, TRUE)}
    [] OTHER                                            -> {}

\* Gives the headline of Tree line i the style of its level.  An overline that
\* is not wanted is deleted if the line before it is blank, and else becomes a
\* blank line, which the node before gets.
Adorn(S, i) ==
  LET ad == S.style.ads[S.levels[i]]
      line == AdLine(ad.ch)
      bln == S.bnodes[i]
      L1 == S.Body[bln]
      L2 == S.Body[bln + 1]
      L3 == IF bln + 2 <= Len(S.Body) THEN S.Body[bln + 2] ELSE Blank
      has == deduce_ad_style(L1, L2, L3)
      underlined == [S EXCEPT !.Body[bln + 1] = line]
      bare == [S EXCEPT !.Body[bln + 1] = [L2 EXCEPT !.n = 0], !.Body[bln + 2] = line]
  IN  IF has = {} THEN [S EXCEPT !.ok = FALSE]
      ELSE IF has = {ad} THEN S
      ELSE IF \A old \in has : ~old.over
      THEN IF ~ad.over THEN underlined
           ELSE update_bnodes([underlined EXCEPT !.Body = PutAfter(@, bln - 1, <<line>>)],
                              i + 1, 1)
      ELSE IF ad.over THEN [S EXCEPT !.Body[bln] = line, !.Body[bln + 2] = line]
      ELSE IF bln = 1 \/ IsBlank(S.Body[bln - 1])
      THEN update_bnodes([bare EXCEPT !.Body = CutOut(@, bln, bln)], i + 1, -1)
      ELSE [bare EXCEPT !.Body[bln] = Blank, !.bnodes[i] = @ + 1]

\* New styles are kept for later operations.
rest_doBodyAfterOop(S0, oop, levDelta, bl1, tl1, bl2, tl2, blCut, tlCut) ==
  LET adorned == IF levDelta # 0 \/ oop = "paste" THEN SubSeq(S0.levels, tl1, tl2) ELSE <<>>
      S == [S0 EXCEPT !.style.ads = AddStyles(@, adorned)]
  IN  SeparateNodes(S, oop, levDelta, bl1, tl1, bl2, tl2, blCut, tlCut, Adorn)
=============================================================================
