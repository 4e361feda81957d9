------------------------------ MODULE MCForest ------------------------------
(***************************************************************************)
(* Voom as an implementation of Forest: each Body and each clipboard is a  *)
(* sequence of nodes, which forest holds, so that it is read once in a     *)
(* state.                                                                  *)
(***************************************************************************)
EXTENDS MCVoom

VARIABLE forest

\* The numbers in s other than NoText, in their order.
NonBlank(s) ==
  LET at == Ascending({j \in 1..Len(s) : s[j] # NoText})
  IN  Once([i \in 1..Len(at) |-> s[at[i]]])

\* The texts of the lines from..to, without blank lines and the indent.
Texts(blines, from, to) ==
  NonBlank([j \in 1..(IF from <= to THEN to - from + 1 ELSE 0) |-> blines[from + j - 1].t])

\* For each headline of o, its title and the first line below it; one in Markdown
\* may have two lines, in rest three, in asciidoc there may be lines above it.
HeadlinesOf(blines, o) ==
  LET below(bln) ==
        IF mode \in HashModes /\ HashLines(mode, blines)[bln].titled THEN bln + 2 ELSE bln + 1
  IN  CASE mode = "rest" -> rest_read(blines).heads
        [] mode = "asciidoc" -> asciidoc_read(blines).heads
        [] OTHER -> Once([i \in 1..Len(o.bnodes) |->
                            HeadAt(o.bnodes[i], o.levels[i], o.bnodes[i], below(o.bnodes[i]))])

\* Each is given the outline o of the lines.
NodesOf(blines, o) ==
  LET heads == HeadlinesOf(blines, o)
      end(i) == IF i < Len(o.bnodes) THEN o.bnodes[i + 1] - 1 ELSE Len(blines)
      above(h) == IF mode = "asciidoc" THEN Texts(blines, h.bln, h.title - 1) ELSE <<>>
  IN  Once([i \in 1..Len(o.bnodes) |->
              [lev |-> o.levels[i], x |-> o.tlines[i].x, head |-> o.tlines[i].head,
               text |-> above(heads[i]) \o Texts(blines, heads[i].next, end(i))]])

TopOf(blines, o) ==
  Texts(blines, 1, IF o.bnodes = <<>> THEN Len(blines) ELSE o.bnodes[1] - 1)

ForestsOf(body, held) ==
  {[top |-> TopOf(body, o), nodes |-> NodesOf(body, o), clip |-> NodesOf(held, p)] :
     o \in {OutlineOf(mode, body)}, p \in {OutlineOf(mode, held)}}

MCForestInit == MCInit /\ forest \in ForestsOf(Body, clip)

\* The Body changes by outline operations only.  Sorting is not one of them in
\* the modes where it may put a headline behind a line of text, which makes it
\* text as well.
MCForestNext ==
  /\ Step(Outlining \/ (mode \notin HeadModes \cup {"pandoc"} /\ Sorting)) \/ Select
  /\ Bounded'
  /\ forest' \in ForestsOf(Body', clip')

MCForestSpec == MCForestInit /\ [][MCForestNext]_<<vars, steps, forest>>

F == INSTANCE Forest WITH top <- forest.top, nodes <- forest.nodes, clip <- forest.clip,
                          last <- LastLevel(mode), relative <- mode = "rest",
                          adopt <- AAMLEFT

\* The operations keep every line of text in its node and every node in its
\* branch.  They move whole branches, with one change of level for all of it,
\* to where they are attached to the outline and take no other node along.
RefinesForest == F!Spec
=============================================================================
