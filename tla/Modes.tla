-------------------------------- MODULE Modes --------------------------------
(***************************************************************************)
(* The methods that voom_Init gives an outline, by its markup mode.  A     *)
(* mode has changeLevBodyHead or hook_doBodyAfterOop; the one that it      *)
(* lacks changes nothing.                                                  *)
(***************************************************************************)
EXTENDS Rest, AsciiDoc

CONSTANT InverseAtxMax      \* g:voom_inverseAtx_max

ASSUME InverseAtxMaxAssumption == InverseAtxMax \in Nat \ {0}

DokuwikiMax == 5

MTYPE0 == {"", "fmr", "fmr1", "fmr2"}
TabModes == {"vimoutliner", "thevimoutliner", "taskpaper"}
FencedModes == {"txt2tags", "viki"}
HashModes == {"markdown", "pandoc"}
HeadModes == {"rest", "asciidoc"}

ModeNames == MTYPE0 \cup TabModes \cup FencedModes \cup
  {"hashes", "org", "cwiki", "wiki", "vimwiki", "html", "dokuwiki", "inverseAtx"}
  \cup HashModes \cup HeadModes

\* The last level of a mode, 0 if it has none.
LastLevel(mode) == CASE mode = "dokuwiki" -> DokuwikiMax
                     [] mode = "inverseAtx" -> InverseAtxMax
                     [] OTHER -> 0

OutlineOf(mode, blines) ==
  CASE mode = "fmr1"             -> fmr1_makeOutline(blines)
    [] mode = "fmr2"             -> fmr2_makeOutline(blines)
    [] mode = "hashes"           -> hashes_makeOutline(blines)
    [] mode = "org"              -> org_makeOutline(blines)
    [] mode = "cwiki"            -> cwiki_makeOutline(blines)
    [] mode = "wiki"             -> wiki_makeOutline(blines)
    [] mode = "vimwiki"          -> vimwiki_makeOutline(blines)
    [] mode = "html"             -> html_makeOutline(blines)
    [] mode = "txt2tags"         -> txt2tags_makeOutline(blines)
    [] mode = "viki"             -> viki_makeOutline(blines)
    [] mode = "dokuwiki"         -> dokuwiki_makeOutline(blines, DokuwikiMax)
    [] mode = "inverseAtx"       -> inverseAtx_makeOutline(blines, InverseAtxMax)
    [] mode = "vimoutliner"      -> vimoutliner_makeOutline(blines)
    [] mode = "thevimoutliner"   -> thevimoutliner_makeOutline(blines)
    [] mode = "taskpaper"        -> taskpaper_makeOutline(blines)
    [] mode = "markdown"         -> markdown_makeOutline(blines)
    [] mode = "pandoc"           -> pandoc_makeOutline(blines)
    [] mode = "rest"             -> rest_makeOutline(blines)
    [] mode = "asciidoc"         -> asciidoc_makeOutline(blines)
    [] OTHER                     -> makeOutline(blines)

HashLines(mode, blines) ==
  IF mode = "pandoc" THEN pandoc_lines(blines) ELSE markdown_lines(blines)

\* What a parse of the Body stores besides the outline.
NoStyle == [hash |-> FALSE, close |-> FALSE, ads |-> <<>>]
StyleOf(mode, blines) ==
  LET lines == HashLines(mode, blines)
      read == asciidoc_read(blines)
  IN  CASE mode \in HashModes  -> [NoStyle EXCEPT !.hash = useHash(lines),
                                                 !.close = useCloseHash(blines, lines)]
        [] mode = "asciidoc"   -> [NoStyle EXCEPT !.hash = read.useOne = 2,
                                                 !.close = read.useOneClose < 2]
        [] mode = "rest"       -> [NoStyle EXCEPT !.ads = rest_read(blines).ads]
        [] OTHER               -> NoStyle

\* The lines of a new headline after Body line bLnum and Tree line ln.
NewLines(mode, level, bLnum, ln, Body, bnodes, style) ==
  CASE mode \in {"", "fmr"}      -> newHeadline(level)
    [] mode = "fmr1"             -> fmr1_newHeadline(level)
    [] mode = "fmr2"             -> fmr2_newHeadline(level)
    [] mode = "hashes"           -> hashes_newHeadline(level)
    [] mode = "org"              -> org_newHeadline(level)
    [] mode = "cwiki"            -> cwiki_newHeadline(level)
    [] mode = "wiki"             -> wiki_newHeadline(level)
    [] mode = "vimwiki"          -> vimwiki_newHeadline(level)
    [] mode = "html"             -> html_newHeadline(level)
    [] mode = "txt2tags"         -> txt2tags_newHeadline(level, ln, Body, bnodes)
    [] mode = "viki"             -> viki_newHeadline(level)
    [] mode = "dokuwiki"         -> dokuwiki_newHeadline(level, DokuwikiMax)
    [] mode = "inverseAtx"       -> inverseAtx_newHeadline(level, InverseAtxMax)
    [] mode = "vimoutliner"      -> vimoutliner_newHeadline(level)
    [] mode = "thevimoutliner"   -> thevimoutliner_newHeadline(level)
    [] mode = "taskpaper"        -> taskpaper_newHeadline(level)
    [] mode = "markdown"         -> markdown_newHeadline(level, bLnum, Body, style)
    [] mode = "pandoc"           -> pandoc_newHeadline(level, bLnum, Body, style)
    [] mode = "rest"             -> rest_newHeadline(level, bLnum, Body, style)
    [] mode = "asciidoc"         -> asciidoc_newHeadline(level, bLnum, Body, style)

ChangeLev(mode, h, levDelta) ==
  CASE mode \in MTYPE0     -> changeLevBodyHead(h, levDelta)
    [] mode = "hashes"     -> hashes_changeLev(h, levDelta)
    [] mode = "org"        -> org_changeLev(h, levDelta)
    [] mode = "cwiki"      -> cwiki_changeLev(h, levDelta)
    [] mode = "wiki"       -> wiki_changeLev(h, levDelta)
    [] mode = "vimwiki"    -> vimwiki_changeLev(h, levDelta)
    [] mode = "html"       -> html_changeLev(h, levDelta)
    [] mode = "txt2tags"   -> txt2tags_changeLev(h, levDelta)
    [] mode = "viki"       -> viki_changeLev(h, levDelta)
    [] OTHER               -> h

\* S after the mode's hook.
AfterOop(mode, S, oop, levDelta, bl1, tl1, bl2, tl2, blCut, tlCut) ==
  CASE mode = "dokuwiki" ->
         dokuwiki_doBodyAfterOop(S, DokuwikiMax, levDelta, bl1, tl1, bl2, tl2, blCut, tlCut)
    [] mode = "inverseAtx" ->
         inverseAtx_doBodyAfterOop(S, InverseAtxMax, levDelta, bl1, tl1, bl2, tl2, blCut, tlCut)
    [] mode = "vimoutliner" ->
         vimoutliner_doBodyAfterOop(S, levDelta, bl1, tl1, bl2, tl2)
    [] mode = "thevimoutliner" ->
         thevimoutliner_doBodyAfterOop(S, levDelta, bl1, tl1, bl2, tl2)
    [] mode = "taskpaper" ->
         taskpaper_doBodyAfterOop(S, levDelta, bl1, tl1, bl2, tl2)
    [] mode = "markdown" ->
         markdown_doBodyAfterOop(S, oop, levDelta, bl1, tl1, bl2, tl2, blCut, tlCut)
    [] mode = "pandoc" ->
         pandoc_doBodyAfterOop(S, oop, levDelta, bl1, tl1, bl2, tl2, blCut, tlCut)
    [] mode = "rest" ->
         rest_doBodyAfterOop(S, oop, levDelta, bl1, tl1, bl2, tl2, blCut, tlCut)
    [] mode = "asciidoc" ->
         asciidoc_doBodyAfterOop(S, oop, levDelta, bl1, tl1, bl2, tl2, blCut, tlCut)
    [] OTHER -> S
=============================================================================
