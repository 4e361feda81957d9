------------------------------- MODULE Markdown -------------------------------
(***************************************************************************)
(* The markdown and pandoc modes of VOoM (voom_mode_markdown.py and        *)
(* voom_mode_pandoc.py, which share all hooks but the parser).  A headline *)
(* is a line over an underline, of = for level 1 and - for level 2, or a   *)
(* line that begins with as many # as its level, with or without closing #.*)
(* Operations keep the format the Body uses and separate nodes by blank    *)
(* lines, so they insert and delete lines while bnodes must keep up.       *)
(*                                                                         *)
(* k is "text", "hash" or "under" here, n the number of # or the level of  *)
(* the underline, and c is positive for a headline with closing #.         *)
(***************************************************************************)
EXTENDS LineModes

Hash(n, close, t) == Line("hash", n, IF close THEN n ELSE 0, t)
Under(lev) == Line("under", lev, 0, 1)

\* A headline found by a parse: its first line, its level, the line of its
\* title, and the line that follows it.
HeadAt(bln, lev, title, next) == [bln |-> bln, lev |-> lev, title |-> title, next |-> next]

\* The outline of a Body with these headlines.
FromHeads(blines, heads) ==
  [bnodes |-> [j \in 1..Len(heads) |-> heads[j].bln],
   levels |-> [j \in 1..Len(heads) |-> heads[j].lev],
   tlines |-> [j \in 1..Len(heads) |->
                 TreeLine(FALSE, FALSE, heads[j].lev, blines[heads[j].title].t)]]

IsBlank(l) == l.k = "text" /\ l.t = NoText

\* Line i is the underline of line i - 1, which underlines no line itself.
Underlines(blines) ==
  LET u[i \in 0..Len(blines)] ==
        i > 1 /\ blines[i].k = "under" /\ ~IsBlank(blines[i - 1]) /\ ~u[i - 1]
  IN  u

\* For each line, its level, 0 if it is no headline, and whether it is a title
\* with an underline.
markdown_lines(blines) ==
  LET u == Underlines(blines)
      Z == Len(blines)
      titled(i) == i < Z /\ u[i + 1]
  IN  Once([i \in 1..Z |->
              [titled |-> titled(i),
               lev |-> IF IsBlank(blines[i]) \/ u[i] THEN 0
                       ELSE IF titled(i) THEN blines[i + 1].n
                       ELSE IF blines[i].k = "hash" THEN blines[i].n ELSE 0]])

\* Pandoc: a headline follows a blank line, another headline or a fenced block,
\* and is not in such a block; so does the beginning of one.  A line of k
\* "open" begins a block; "fence" begins or ends one.
pandoc_lines(blines) ==
  LET Z == Len(blines)
      read[i \in 0..Z] ==
        IF i = 0 THEN [titled |-> FALSE, lev |-> 0, ok |-> TRUE, fenced |-> FALSE]
        ELSE LET L1 == blines[i]
                 last == read[i - 1]
                 rest == [last EXCEPT !.titled = FALSE, !.lev = 0]
             IN  CASE IsBlank(L1) \/ last.titled -> [rest EXCEPT !.ok = TRUE]
                   [] OTHER ->
                      IF last.fenced THEN [rest EXCEPT !.ok = @ \/ L1.k = "fence",
                                                       !.fenced = L1.k # "fence"]
                      ELSE IF ~last.ok THEN rest
                      ELSE IF L1.k \in {"fence", "open"} THEN [rest EXCEPT !.fenced = TRUE]
                      ELSE IF i < Z /\ blines[i + 1].k = "under"
                      THEN [rest EXCEPT !.titled = TRUE, !.lev = blines[i + 1].n]
                      ELSE IF L1.k = "hash" THEN [rest EXCEPT !.lev = L1.n]
                      ELSE [rest EXCEPT !.ok = FALSE]
  IN  Once([i \in 1..Z |-> [titled |-> read[i].titled, lev |-> read[i].lev]])

markdown_makeOutline(blines) ==
  LET lines == markdown_lines(blines) IN Headlines(blines, [i \in 1..Len(blines) |-> lines[i].lev])
pandoc_makeOutline(blines) ==
  LET lines == pandoc_lines(blines) IN Headlines(blines, [i \in 1..Len(blines) |-> lines[i].lev])

\* "###" ends with # as well as "### title ###".
EndsWithHash(l) == l.k = "hash" /\ (l.c > 0 \/ l.t = NoText)

\* The format of the headlines in lines, which a parse of the Body stores as the
\* style and operations do not: # for levels 1 and 2 as well, and closing #
\* (the default).
useHash(lines) ==
  LET shallow == {i \in 1..Len(lines) : lines[i].lev \in {1, 2}}
  IN  shallow # {} /\ ~lines[Min(shallow)].titled

useCloseHash(Body, lines) ==
  LET hashes == {i \in 1..Len(lines) : lines[i].lev > 0 /\ ~lines[i].titled}
  IN  hashes = {} \/ EndsWithHash(Body[Min(hashes)])

\* The lines of a new headline after line blnum; line 0 is the last one.
markdown_newHeadline(level, blnum, Body, style) ==
  LET before == Body[IF blnum = 0 THEN Len(Body) ELSE blnum]
      head == IF level < 3 /\ ~style.hash
              THEN <<Text(NewHeadline), Under(level)>>
              ELSE <<Hash(level, style.close, NewHeadline)>>
  IN  (IF IsBlank(before) THEN <<>> ELSE <<Blank>>) \o head \o <<Blank>>
pandoc_newHeadline(level, blnum, Body, style) == markdown_newHeadline(level, blnum, Body, style)

-----------------------------------------------------------------------------
(* After an operation.                                                     *)

\* delta is added to bnodes from tlnum on.
update_bnodes(S, tlnum, delta) ==
  [S EXCEPT !.bnodes = [j \in 1..Len(@) |-> IF j >= tlnum THEN @[j] + delta ELSE @[j]]]

\* A blank line after line bln if that line is not blank; 0 is no line.
Separate(S, bln, tlnum) ==
  IF bln = 0 \/ IsBlank(S.Body[bln]) THEN S
  ELSE update_bnodes([S EXCEPT !.Body = PutAfter(@, bln, <<Blank>>)], tlnum, 1)

\* Gives the headline of Tree line i the level S.levels[i] in a format that
\* depends on the one it has and on the style.
Reformat(S, i, oop, levDelta) ==
  LET style == S.style
      lev == S.levels[i]
      lev_ == lev - levDelta
      bln == S.bnodes[i]
      L1 == S.Body[bln]
      next(k) == IF k <= Len(S.Body) THEN S.Body[k] ELSE Blank
      hasHash == next(bln + 1).k # "under"
      hasClose == IF hasHash THEN EndsWithHash(L1) ELSE style.close
      wantHash == IF oop = "paste" THEN lev > 2 \/ style.hash
                  ELSE IF lev > 2 THEN TRUE
                  ELSE IF lev_ < 3 THEN hasHash ELSE style.hash
      wantClose == IF oop = "paste" \/ (lev < 3 /\ lev_ > 2) THEN style.close ELSE hasClose
      hashed == IF hasHash /\ hasClose /\ wantClose /\ L1.t = NoText
                THEN Hash(2 * lev, FALSE, NoText)
                ELSE Hash(lev, wantClose, L1.t)
      put(k, l) == [S EXCEPT !.Body[k] = l]
  IN  CASE ~wantHash /\ ~hasHash -> IF levDelta = 0 THEN S ELSE put(bln + 1, Under(lev))
        [] wantHash /\ hasHash ->
             IF wantClose = hasClose /\ levDelta = 0 THEN S ELSE put(bln, hashed)
        [] ~wantHash /\ hasHash ->
             update_bnodes(
               [S EXCEPT !.Body = PutAfter([@ EXCEPT ![bln] = Text(L1.t)], bln,
                                    <<IF L1.t = NoText THEN Blank ELSE Under(lev)>>)],
               i + 1, 1)
        [] OTHER ->
             IF next(bln + 2).k = "under"
             THEN [put(bln, hashed) EXCEPT !.Body[bln + 1] = Blank]
             ELSE update_bnodes([put(bln, hashed) EXCEPT !.Body = CutOut(@, bln + 1, bln + 1)],
                                i + 1, -1)

\* The hook of a mode that keeps blank lines between nodes and, from the last
\* headline of the region to the first, lets Format give them their levels.
SeparateNodes(S0, oop, levDelta, bl1, tl1, bl2, tl2, blCut, tlCut, Format(_, _)) ==
  LET S == [S0 EXCEPT !.ok = RegionsFit(S0, bl1, tl1, bl2, tl2, blCut, tlCut)]
      inside(bln) == IF bln < Len(S0.Body) THEN bln ELSE 0
      cut(oops) == IF oop \in oops THEN inside(blCut) ELSE 0
      afterCut == Separate(S, cut({"cut", "up"}), tlCut + 1)
      formatted[i \in tl1..tl2 + 1] ==
        IF i = tl2 + 1 THEN Separate(afterCut, inside(bl2), tl2 + 1)
        ELSE Format(formatted[i + 1], i)
      changed == formatted[IF levDelta # 0 \/ oop = "paste" THEN tl1 ELSE tl2 + 1]
      begun == Separate(changed, changed.bnodes[tl1] - 1, tl1)
  IN  IF oop = "cut" THEN afterCut ELSE Separate(begun, cut({"down"}), tlCut + 1)

markdown_doBodyAfterOop(S0, oop, levDelta, bl1, tl1, bl2, tl2, blCut, tlCut) ==
  LET Format(S, i) == Reformat(S, i, oop, levDelta)
  IN  SeparateNodes(S0, oop, levDelta, bl1, tl1, bl2, tl2, blCut, tlCut, Format)

pandoc_doBodyAfterOop(S0, oop, levDelta, bl1, tl1, bl2, tl2, blCut, tlCut) ==
  markdown_doBodyAfterOop(S0, oop, levDelta, bl1, tl1, bl2, tl2, blCut, tlCut)
=============================================================================
