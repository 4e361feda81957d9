------------------------------- MODULE AsciiDoc -------------------------------
(***************************************************************************)
(* The asciidoc mode of VOoM (voom_mode_asciidoc.py) with blank lines      *)
(* between nodes (DO_BLANKS).  A headline is a line with = before and      *)
(* perhaps after its text, or a title with an underline that tells its     *)
(* level from 1 to 5.  Lines in [] right above belong to it.  What follows *)
(* the delimiter of a block is no headline before the same delimiter.      *)
(*                                                                         *)
(* k is "hash" for the first kind of headlines, "under" for an underline,  *)
(* "fence" for a delimiter that underlines nothing, "attr" for a line in   *)
(* [], "comment", "glued" for text behind = without a space, or "text",    *)
(* where n is 2 if the text is longer or shorter than any underline.       *)
(***************************************************************************)
EXTENDS Markdown

Attr(t) == Line("attr", 0, 0, t)

\* Characters that delimit blocks: the underlines =, - and + among them.
Delimiters(l) ==
  IF l.k = "fence" \/ (l.k = "under" /\ l.n \in {1, 2, 5}) THEN {l.n} ELSE {}

CanBeTitle(l) == l.k \in {"text", "glued", "hash"} /\ l.t # NoText /\ l.n # 2

\* The last line up to j that is not of kind k; 0 is no line.
LastNot(blines, j, k) == Max({0} \cup {i \in 1..j : blines[i].k # k})

\* A headline that begins with line bln, or with the [] lines above it, follows
\* a blank line, a headline, a block or [] lines.  Comments do not count.
Separated(S, blines, top, bln) ==
  LET j == LastNot(blines, top - 1, "comment")
  IN  top # bln \/ j = 0 \/ IsBlank(blines[j]) \/ j \in {S.headI, S.blockI}

\* m is 1 or 2 after a line of the first kind with or without closing =, also
\* if it is not a headline, and later headlines with an underline are taken to
\* be of that kind too when the first one and its kind are saved: 2 for = in
\* useOne, 2 for no closing = in useOneClose.
asciidoc_read(blines) ==
  LET Z == Len(blines)
      found(S, i, bln, top, lev) ==
        [S EXCEPT !.headI = i,
                  !.useOne = IF @ # 0 \/ lev > 5 THEN @ ELSE IF S.m # 0 THEN 2 ELSE 1,
                  !.useOneClose = IF @ # 0 THEN @ ELSE S.m,
                  !.heads = Append(@, HeadAt(top, lev, bln, i + 1))]
      \* Line i ends a headline that begins with line bln, if that is separated.
      candidate(S, i, bln, lev) ==
        LET top == LastNot(blines, bln - 1, "attr") + 1
        IN  IF Separated(S, blines, top, bln) THEN {found(S, i, bln, top, lev)} ELSE {}
      read[i \in 0..Z] ==
        IF i = 0
        THEN [fenced |-> {}, headI |-> -1, blockI |-> -1, m |-> 0,
              useOne |-> 0, useOneClose |-> 0, heads |-> <<>>]
        ELSE LET last == read[i - 1]
                 L1 == blines[i]
                 m == CASE L1.k = "hash" -> IF L1.c > 0 THEN 1 ELSE 2
                        [] L1.k = "glued" -> 0
                        [] OTHER -> last.m
                 S == IF last.fenced = {} THEN [last EXCEPT !.m = m] ELSE last
                 heads == CASE L1.k = "hash" -> candidate(S, i, i, L1.n)
                            [] /\ L1.k = "under" /\ i > 1
                               /\ S.headI # i - 1 /\ CanBeTitle(blines[i - 1])
                                             -> candidate(S, i, i - 1, L1.n)
                            [] OTHER         -> {}
             IN  IF S.fenced # {}
                 THEN IF S.fenced = Delimiters(L1) THEN [S EXCEPT !.fenced = {}, !.blockI = i]
                      ELSE S
                 ELSE IF heads # {} THEN CHOOSE h \in heads : TRUE
                 ELSE [S EXCEPT !.fenced = Delimiters(L1)]
  IN  read[Z]

asciidoc_makeOutline(blines) == FromHeads(blines, asciidoc_read(blines).heads)

asciidoc_newHeadline(level, blnum, Body, style) ==
  LET before == Body[IF blnum = 0 THEN Len(Body) ELSE blnum]
      head == IF level < 6 /\ ~style.hash
              THEN <<Text(NewHeadline), Under(level)>>
              ELSE <<Hash(level, style.close, NewHeadline)>>
  IN  (IF IsBlank(before) THEN <<>> ELSE <<Blank>>) \o head \o <<Blank>>

\* Gives the headline of Tree line i the level S.levels[i] in a format that
\* depends on the one it has and on the style.  It is below the [] lines.
asciidoc_Reformat(S, i, oop, levDelta) ==
  LET style == S.style
      lev == S.levels[i]
      lev_ == lev - levDelta
      bln == Min({b \in S.bnodes[i]..Len(S.Body) : S.Body[b].k # "attr"})
      L1 == S.Body[bln]
      hasOne == L1.k = "hash"
      hasClose == IF hasOne THEN L1.c > 0 ELSE style.close
      wantOne == IF oop = "paste" THEN lev > 5 \/ style.hash
                 ELSE IF lev > 5 THEN TRUE
                 ELSE IF lev_ < 6 THEN hasOne ELSE style.hash
      wantClose == IF oop = "paste" \/ (lev < 6 /\ lev_ > 5) THEN style.close ELSE hasClose
      put(k, l) == [S EXCEPT !.Body[k] = l]
      one == put(bln, Hash(lev, wantClose, L1.t))
  IN  CASE ~wantOne /\ ~hasOne -> IF levDelta = 0 THEN S ELSE put(bln + 1, Under(lev))
        [] wantOne /\ hasOne ->
             IF wantClose = hasClose /\ levDelta = 0 THEN S ELSE one
        [] ~wantOne /\ hasOne ->
             LET title == put(bln, Text(L1.t))
             IN  update_bnodes([title EXCEPT !.Body = PutAfter(@, bln, <<Under(lev)>>)], i + 1, 1)
        [] OTHER ->
             update_bnodes([one EXCEPT !.Body = CutOut(@, bln + 1, bln + 1)], i + 1, -1)

asciidoc_doBodyAfterOop(S0, oop, levDelta, bl1, tl1, bl2, tl2, blCut, tlCut) ==
  LET Format(S, i) == asciidoc_Reformat(S, i, oop, levDelta)
  IN  SeparateNodes(S0, oop, levDelta, bl1, tl1, bl2, tl2, blCut, tlCut, Format)
=============================================================================
