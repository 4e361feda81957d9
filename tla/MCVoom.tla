------------------------------- MODULE MCVoom -------------------------------
(***************************************************************************)
(* Instances of Voom.  Every Body of up to InitLines lines of the mode's   *)
(* alphabet, one more in WideModes, with every clipboard of the mode is an *)
(* initial state, so that one operation reaches every case; MaxSteps       *)
(* bounds them, not counting the update of a stale outline.                *)
(***************************************************************************)
EXTENDS Voom

CONSTANTS TestModes, WideModes, InitLines, ClipLines, MaxSteps

VARIABLE steps

\* Headlines of two or three levels, with lines that only look like one,
\* headlines beyond the last level, and texts.
Alphabet == [m \in ModeNames |->
  CASE m \in MTYPE0  -> {Line("head", 1, 0, 1), Line("marked", 2, 0, 3), Text(9)}
    [] m = "hashes"  -> {Line("head", 1, 0, 1), Line("glued", 2, 0, 3), Text(9)}
    [] m = "org"     -> {Line("head", 1, 0, 1), Line("head", 2, 0, 2), Line("glued", 1, 0, 3)}
    [] m = "cwiki"   -> {Line("head", 3, 0, 1), Line("head", 4, 0, 2), Line("head", 2, 0, 3)}
    [] m \in {"wiki", "vimwiki"} ->
         {Line("head", 1, 1, 1), Line("head", 3, 2, 2), Line("head", 2, 0, 3)}
    [] m = "html"    -> {Line("head", 1, 1, 1), Line("head", 2, 2, 2), Line("head", 2, 1, 3)}
    [] m = "txt2tags" ->
         {Line("head", 1, 1, 1), Line("marked", 2, 2, 2), Line("fence", 0, 0, 4)}
    [] m = "viki"    -> {Line("head", 1, 0, 1), Line("head", 2, 0, 2),
                         Line("open", 0, 0, 4), Line("close", 0, 0, 5)}
    [] m = "dokuwiki" ->
         {Line("head", 7, 7, 1), Line("head", 3, 8, 2), Line("head", 2, 2, 3)}
    [] m = "inverseAtx" ->
         {Line("head", 4, 0, 1), Line("head", 2, 0, 2), Line("glued", 1, 0, 3)}
    [] m \in {"vimoutliner", "thevimoutliner"} ->
         {Line("head", 0, 0, 1), Line("head", 1, 0, 2), Line("text", 1, 0, 9)}
    [] m = "taskpaper" ->
         {Line("head", 0, 0, 1), Line("marked", 1, 0, 2), Line("text", 1, 0, 9)}
    [] m = "markdown" ->
         {Hash(1, TRUE, 1), Hash(3, FALSE, 2), Under(1), Text(9)}
    [] m = "pandoc"  ->
         {Hash(1, TRUE, 1), Hash(3, FALSE, 2), Line("fence", 0, 0, 4), Text(9)}
    [] m = "rest"    -> {Blank}
    [] m = "asciidoc" -> {Line("glued", 1, 0, 9)}]

\* Headlines with their adornments, texts with and without a blank line, and
\* what belongs to a headline or hides one.
Fence == Line("fence", 9, 0, 4)
Blocks == [m \in HeadModes |->
  CASE m = "rest" ->
         {<<Text(1), AdLine(1)>>, <<Text(2), AdLine(7)>>, <<AdLine(1), Inset(3), AdLine(1)>>,
          <<Text(9)>>, <<Text(8), Blank>>}
    [] m = "asciidoc" ->
         {<<Text(1), Under(1)>>, <<Text(2), Under(5)>>, <<Hash(6, FALSE, 3)>>, <<Attr(5)>>,
          <<Fence, Hash(1, TRUE, 3), Fence>>, <<Line("comment", 0, 0, 6)>>,
          <<Text(9)>>, <<Text(8), Blank>>}]

Texts1(S, n) == UNION {[1..k -> S] : k \in 1..n}

\* No area is left open at the end.
Closed(m, b) ==
  CASE m \in {"txt2tags", "pandoc"} -> Cardinality({i \in 1..Len(b) : b[i].k = "fence"}) % 2 = 0
    [] m = "viki" -> \A i \in 1..Len(b) : b[i].k = "open" =>
                        \E j \in i + 1..Len(b) : b[j].k = "close"
    [] m = "asciidoc" -> asciidoc_read(b).fenced = {}
    [] OTHER -> TRUE

\* Markdown titles are not underlined # headlines or underlines.
Plain(m, b) ==
  m \in HashModes => \A i \in 2..Len(b) : b[i].k = "under" => b[i - 1].k = "text"

\* The levels of a rest Body go down one by one.
Regular(m, b) ==
  m = "rest" => LET levs == OutlineOf(m, b).levels
                IN  \A i \in 2..Len(levs) : levs[i] <= levs[i - 1] + 1

TextsOf(m, n) ==
  {b \in (IF m \in HeadModes THEN {FlattenSeq(s) : s \in Texts1(Blocks[m], n)}
                             ELSE Texts1(Alphabet[m], n)) :
     Closed(m, b) /\ Plain(m, b) /\ Regular(m, b)}

MCBodies ==
  UNION {{<<m, b>> : b \in TextsOf(m, IF m \in WideModes THEN InitLines + 1 ELSE InitLines)} :
           m \in TestModes}
\* Clipboards that begin with a headline, as those that can be pasted do.
MCClips == [m \in ModeNames |->
  CASE m \in HashModes -> {<<Hash(1, TRUE, 4)>>, <<Hash(3, FALSE, 4), Text(9)>>,
                           <<Text(4), Under(1), Hash(3, FALSE, 5), Text(9)>>}
    [] m = "rest" -> {<<Text(4), AdLine(3)>>,
                      <<AdLine(2), Inset(4), AdLine(2), Text(5), AdLine(1), Text(9)>>}
    [] m = "asciidoc" -> {<<Hash(5, TRUE, 4), Attr(6), Text(6), Under(3), Text(9)>>}
    [] OTHER -> {b \in TextsOf(m, ClipLines) :
                   OutlineOf(m, b).bnodes # <<>> /\ OutlineOf(m, b).bnodes[1] = 1}]
MCEdits == Alphabet

\* The style is what earlier operations have left, any in markdown; in rest with
\* a style of a level that no headline has any more.
Styles ==
  LET parsed == StyleOf(mode, Body)
  IN  CASE mode = "rest" -> {parsed, [parsed EXCEPT !.ads = Append(@, Ad(9, FALSE))]}
        [] mode = "markdown" -> [hash : BOOLEAN, close : BOOLEAN, ads : {<<>>}]
        [] mode \in {"pandoc", "asciidoc"} ->
             {parsed, [parsed EXCEPT !.hash = ~@, !.close = ~@]}
        [] OTHER -> {NoStyle}

MCInit ==
  /\ Start
  /\ style \in Styles
  /\ snLn = NodeAt(bnodes, 1)
  /\ steps = 0
Step(A) == steps < MaxSteps /\ A /\ steps' = steps + 1
Select == Selecting /\ (stale \/ steps < MaxSteps) /\ steps' = IF stale THEN steps ELSE steps + 1

MCNext == (Step(Outlining \/ Sorting \/ EditBody) \/ Select) /\ Bounded'

MCSpec == MCInit /\ [][MCNext]_<<vars, steps>>
=============================================================================
