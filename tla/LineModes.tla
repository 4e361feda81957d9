------------------------------ MODULE LineModes ------------------------------
(***************************************************************************)
(* The VOoM markup modes whose headlines are single lines: what each mode  *)
(* makes of a Body, how it changes the level of a headline, and the lines  *)
(* it writes for a new one (hook_makeOutline, hook_changeLevBodyHead,      *)
(* hook_newHeadline and hook_doBodyAfterOop of voom_mode_*.py).            *)
(*                                                                         *)
(* A Body line is a record:                                                *)
(*   k  "head", "marked" (a headline of the second kind: {{{1x, + title +, *)
(*      Project:), "glued" (marker characters without the space that some  *)
(*      modes need), "fence", "open", "close" or "text";                   *)
(*   n  its opening marker characters, its level number or its indent;     *)
(*   c  its closing marker characters or its closing level number;         *)
(*   t  its text, NoText for a blank line.                                 *)
(***************************************************************************)
EXTENDS Outline

NoText == 0
NewHeadline == -1       \* the text of a node that was just inserted

Line(k, n, c, t) == [k |-> k, n |-> n, c |-> c, t |-> t]
Text(t) == Line("text", 0, 0, t)
Blank == Text(NoText)

TreeLine(sel, x, lev, head) == [sel |-> sel, x |-> x, lev |-> lev, head |-> head]

\* The outline of a Body where lev[i] is the level of line i, 0 for none.
Headlines(blines, lev) ==
  LET bnodes == Ascending({i \in 1..Len(blines) : lev[i] > 0})
  IN  [bnodes |-> bnodes,
       levels |-> [j \in 1..Len(bnodes) |-> lev[bnodes[j]]],
       tlines |-> [j \in 1..Len(bnodes) |->
                     TreeLine(FALSE, blines[bnodes[j]].k = "marked",
                              lev[bnodes[j]], blines[bnodes[j]].t)]]

Opening(h, d) == [h EXCEPT !.n = @ + d]
Both(h, d) == [Opening(h, d) EXCEPT !.c = @ + d]

-----------------------------------------------------------------------------
(* Fold markers: the default mode and its variants.                        *)

makeOutline(blines) ==
  Headlines(blines, [i \in 1..Len(blines) |->
    IF blines[i].k \in {"head", "marked"} THEN blines[i].n ELSE 0])

changeLevBodyHead(h, levDelta) == Opening(h, levDelta)

newHeadline(level) == <<Line("head", level, 0, NewHeadline), Blank>>

fmr1_makeOutline(blines) == makeOutline(blines)
fmr1_newHeadline(level) == newHeadline(level)
fmr2_makeOutline(blines) == makeOutline(blines)
fmr2_newHeadline(level) == newHeadline(level)

-----------------------------------------------------------------------------
(* Marker characters at the start of the line.                             *)

\* No space is needed after the marker characters.
hashes_makeOutline(blines) ==
  Headlines(blines, [i \in 1..Len(blines) |->
    IF blines[i].k \in {"head", "glued"} THEN blines[i].n ELSE 0])
hashes_changeLev(h, levDelta) == Opening(h, levDelta)
hashes_newHeadline(level) == <<Line("head", level, 0, NewHeadline), Blank>>

org_makeOutline(blines) ==
  Headlines(blines, [i \in 1..Len(blines) |->
    IF blines[i].k = "head" THEN blines[i].n ELSE 0])
org_changeLev(h, levDelta) == Opening(h, levDelta)
org_newHeadline(level) == <<Line("head", level, 0, NewHeadline), Blank>>

\* A headline has at least three marker characters.
cwiki_makeOutline(blines) ==
  Headlines(blines, [i \in 1..Len(blines) |->
    IF blines[i].k \in {"head", "glued"} /\ blines[i].n > 2 THEN blines[i].n - 2 ELSE 0])
cwiki_changeLev(h, levDelta) == Opening(h, levDelta)
cwiki_newHeadline(level) == <<Line("head", level + 2, 0, NewHeadline), Blank>>

-----------------------------------------------------------------------------
(* Marker characters on both sides of the title.                           *)

Lesser(i, j) == IF i < j THEN i ELSE j

\* The longest run that both sides have.
wiki_makeOutline(blines) ==
  Headlines(blines, [i \in 1..Len(blines) |->
    IF blines[i].k = "head" THEN Lesser(blines[i].n, blines[i].c) ELSE 0])
wiki_changeLev(h, levDelta) == Both(h, levDelta)
wiki_newHeadline(level) == <<Line("head", level, level, NewHeadline), Blank>>

vimwiki_makeOutline(blines) ==
  Headlines(blines, [i \in 1..Len(blines) |->
    IF blines[i].k = "head" THEN Lesser(blines[i].n, blines[i].c) ELSE 0])
vimwiki_changeLev(h, levDelta) == Both(h, levDelta)
vimwiki_newHeadline(level) == <<Line("head", level, level, NewHeadline), Blank>>

\* <h2>...</h2>: both numbers are the same.
html_makeOutline(blines) ==
  Headlines(blines, [i \in 1..Len(blines) |->
    IF blines[i].k = "head" /\ blines[i].n = blines[i].c THEN blines[i].n ELSE 0])
html_changeLev(h, levDelta) == Both(h, levDelta)
html_newHeadline(level) == <<Line("head", level, level, NewHeadline), Blank>>

-----------------------------------------------------------------------------
(* Modes with areas in which headlines are ignored.                        *)

\* Inside[i]: line i is in an area, its first and last lines included.
\* A tag opens an area and the same tag closes it.
txt2tags_makeOutline(blines) ==
  LET tags(i) == Cardinality({j \in 1..i : blines[j].k = "fence"})
  IN  Headlines(blines, [i \in 1..Len(blines) |->
        IF /\ blines[i].k \in {"head", "marked"}
           /\ blines[i].n = blines[i].c
           /\ tags(i) % 2 = 0
        THEN blines[i].n ELSE 0])
txt2tags_changeLev(h, levDelta) == Both(h, levDelta)

\* = or +, like the headline of Tree line tlnum.
txt2tags_newHeadline(level, tlnum, Body, bnodes) ==
  <<Line(IF tlnum > 1 THEN Body[bnodes[tlnum]].k ELSE "head", level, level, NewHeadline),
    Blank>>

\* #Type <<End opens an area, the next End closes it.
viki_makeOutline(blines) ==
  LET fenced[i \in 0..Len(blines)] ==
        IF i = 0 THEN FALSE
        ELSE IF fenced[i - 1] THEN blines[i].k # "close" ELSE blines[i].k = "open"
  IN  Headlines(blines, [i \in 1..Len(blines) |->
        IF blines[i].k = "head" /\ ~fenced[i - 1] THEN blines[i].n ELSE 0])
viki_changeLev(h, levDelta) == Opening(h, levDelta)
viki_newHeadline(level) == <<Line("head", level, 0, NewHeadline), Blank>>

-----------------------------------------------------------------------------
(* Modes in which fewer marker characters are a deeper level, down to the  *)
(* last level MAX.  S is a record of Body, bnodes, levels and ok, which    *)
(* says whether the assertions of the hook hold.                           *)

\* blnum1..blnum2 is the region of the nodes tlnum1..tlnum2, and blnumCut
\* the last line of node tlnumCut; 0 stands for None.
RegionsFit(S, blnum1, tlnum1, blnum2, tlnum2, blnumCut, tlnumCut) ==
  LET end(ln) == IF ln < Len(S.bnodes) THEN S.bnodes[ln + 1] - 1 ELSE Len(S.Body)
  IN  /\ blnum1 # 0 => blnum1 = S.bnodes[tlnum1] /\ blnum2 = end(tlnum2)
      /\ blnumCut # 0 => blnumCut = end(tlnumCut)

dokuwiki_makeOutline(blines, MAX) ==
  Headlines(blines, [i \in 1..Len(blines) |->
    IF blines[i].k = "head" /\ blines[i].n >= 2 /\ blines[i].c >= 2
    THEN IF blines[i].n > MAX THEN 1 ELSE MAX - blines[i].n + 2 ELSE 0])

dokuwiki_newHeadline(level, MAX) ==
  LET n == IF level >= MAX THEN 2 ELSE MAX - level + 2
  IN  <<Line("head", n, n, NewHeadline), Blank>>

\* Levels beyond MAX become MAX; a line already at MAX is left as it is, and
\* closing characters are left when there are too many.
dokuwiki_doBodyAfterOop(S, MAX, levDelta, bl1, tl1, bl2, tl2, blCut, tlCut) ==
  LET moved == {S.bnodes[j] : j \in tl1..tl2}
      lev(b) == S.levels[CHOOSE j \in tl1..tl2 : S.bnodes[j] = b]
      n(b) == IF lev(b) <= MAX THEN MAX - lev(b) + 2 ELSE 2
      fixed(b, L) == IF lev(b) > MAX /\ lev(b) - levDelta = MAX THEN L
                     ELSE [L EXCEPT !.n = n(b), !.c = IF @ <= MAX + 1 THEN n(b) ELSE @]
      ok == RegionsFit(S, bl1, tl1, bl2, tl2, blCut, tlCut)
  IN  IF levDelta = 0 THEN [S EXCEPT !.ok = ok]
      ELSE [S EXCEPT !.ok = ok,
              !.levels = [j \in 1..Len(@) |-> IF j \in tl1..tl2 THEN Lesser(@[j], MAX) ELSE @[j]],
              !.Body = [b \in 1..Len(@) |-> IF b \in moved THEN fixed(b, @[b]) ELSE @[b]]]

inverseAtx_makeOutline(blines, MAX) ==
  Headlines(blines, [i \in 1..Len(blines) |->
    IF blines[i].k \in {"head", "glued"}
    THEN IF blines[i].n >= MAX THEN 1 ELSE MAX - blines[i].n + 1 ELSE 0])

inverseAtx_newHeadline(level, MAX) ==
  <<Line("head", IF level >= MAX THEN 1 ELSE MAX - level + 1, 0, NewHeadline), Blank>>

inverseAtx_doBodyAfterOop(S, MAX, levDelta, bl1, tl1, bl2, tl2, blCut, tlCut) ==
  LET moved == {S.bnodes[j] : j \in tl1..tl2}
      lev(b) == S.levels[CHOOSE j \in tl1..tl2 : S.bnodes[j] = b]
      fixed(b, L) == IF lev(b) > MAX /\ lev(b) - levDelta = MAX THEN L
                     ELSE [L EXCEPT !.n = IF lev(b) <= MAX THEN MAX - lev(b) + 1 ELSE 1]
      ok == RegionsFit(S, bl1, tl1, bl2, tl2, blCut, tlCut)
  IN  IF levDelta = 0 THEN [S EXCEPT !.ok = ok]
      ELSE [S EXCEPT !.ok = ok,
              !.levels = [j \in 1..Len(@) |-> IF j \in tl1..tl2 THEN Lesser(@[j], MAX) ELSE @[j]],
              !.Body = [b \in 1..Len(@) |-> IF b \in moved THEN fixed(b, @[b]) ELSE @[b]]]

-----------------------------------------------------------------------------
(* Modes in which the level is the number of tabs, n, of the line.         *)

IndentLevels(blines, kinds) ==
  Headlines(blines, [i \in 1..Len(blines) |->
    IF blines[i].k \in kinds /\ blines[i].t # NoText THEN blines[i].n + 1 ELSE 0])

\* Every line of the region that is not blank moves by levDelta tabs; to the
\* left only if it has as many.
Reindent(S, levDelta, bl1, tl1, bl2, tl2) ==
  LET moves(b) == b \in bl1..bl2 /\ S.Body[b].t # NoText /\ S.Body[b].n + levDelta >= 0
  IN  IF levDelta = 0 THEN S
      ELSE [S EXCEPT !.ok = RegionsFit(S, bl1, tl1, bl2, tl2, 0, 0),
                     !.Body = [b \in 1..Len(@) |->
                                 IF moves(b) THEN Opening(@[b], levDelta) ELSE @[b]]]

vimoutliner_makeOutline(blines) == IndentLevels(blines, {"head"})
TabsForLevel(level) == <<Line("head", level, 0, NewHeadline)>>  \* mutant: one tab too many
vimoutliner_newHeadline(level) == <<Line("head", level - 1, 0, NewHeadline)>>
vimoutliner_doBodyAfterOop(S, levDelta, bl1, tl1, bl2, tl2) ==
  Reindent(S, levDelta, bl1, tl1, bl2, tl2)

thevimoutliner_makeOutline(blines) == IndentLevels(blines, {"head"})
thevimoutliner_newHeadline(level) == <<Line("head", level - 1, 0, NewHeadline)>>
thevimoutliner_doBodyAfterOop(S, levDelta, bl1, tl1, bl2, tl2) ==
  Reindent(S, levDelta, bl1, tl1, bl2, tl2)

\* Tasks are "head", projects "marked".
taskpaper_makeOutline(blines) == IndentLevels(blines, {"head", "marked"})
taskpaper_newHeadline(level) == <<Line("head", level - 1, 0, NewHeadline)>>
taskpaper_doBodyAfterOop(S, levDelta, bl1, tl1, bl2, tl2) ==
  Reindent(S, levDelta, bl1, tl1, bl2, tl2)
=============================================================================
