----------------------------- MODULE OutlineGrep -----------------------------
(***************************************************************************)
(* The search of an outline (voom_Grep and intersectDicts of voom_vim.py). *)
(* Patterns are searched for one after the other.  A pattern matches in    *)
(* some Body lines; with a * before it, it is inherited by the nodes under *)
(* those that have a match.  The results are the nodes with all AND and no *)
(* NOT patterns, each with a Body line to go to and a number of matches.   *)
(*                                                                         *)
(* A dictionary is a function from Tree lines to its values.               *)
(***************************************************************************)
EXTENDS Outline

CONSTANTS
  Outlines,     \* pairs of bnodes and levels
  Matches,      \* what a pattern may match: sequences of Body lines, in order
  MaxAND,       \* bound on the number of AND patterns
  MaxNOT        \* bound on the number of NOT patterns

\* Tree line 1 stands for Body line 1.
ASSUME OutlinesAssumption ==
  \A o \in Outlines : /\ o[1] \in Seq(Positive) /\ o[2] \in Seq(Positive)
                      /\ Len(o[1]) = Len(o[2]) /\ o[1] # <<>> /\ o[1][1] = 1
ASSUME MatchesAssumption == Matches \subseteq Seq(Positive)

VARIABLES
  bnodes, levels,
  matchesAND, inhAND,     \* the matches of each AND pattern, and if it is inherited
  matchesNOT, inhNOT,
  counts,       \* the number of AND matches in each node
  blnums,       \* the Body line of the first AND match in each node
  inh_only,     \* nodes with an AND pattern by inheritance only
  tlnumsAND, tlnumsNOT    \* for each pattern, the nodes that have it

outline == <<bnodes, levels>>
found == <<counts, blnums, inh_only>>
vars == <<outline, matchesAND, inhAND, matchesNOT, inhNOT, found, tlnumsAND, tlnumsNOT>>

TreeLines == 1..Len(levels)

-----------------------------------------------------------------------------
\* The nodes of the lines in L.
NodesWith(L) == {NodeAt(bnodes, L[i]) : i \in 1..Len(L)}

NodesUnderButLast(ts) ==  \* mutant: the range ends one node early
  UNION {t + 1..BranchEnd(levels, t) - 1 : t \in ts}

\* All nodes under those in ts.
NodesUnder(ts) == UNION {t + 1..BranchEnd(levels, t) : t \in ts}

\* Dictionary f, in which the entries of g are put.
Updated(f, g) == [x \in DOMAIN f \cup DOMAIN g |-> IF x \in DOMAIN g THEN g[x] ELSE f[x]]

CountOnly(acc, bln) ==  \* mutant: a later pattern does not move the line
  LET tln == NodeAt(bnodes, bln)
      count == IF tln \in DOMAIN acc.counts THEN acc.counts[tln] + 1 ELSE 1
  IN  [counts |-> Updated(acc.counts, [t \in {tln} |-> count]),
       blnums |-> Updated([t \in {tln} |-> bln], acc.blnums)]

\* Matches are counted line by line.  The first one in a node is the line to
\* go to; a later pattern may have an earlier one.
CountMatch(acc, bln) ==
  LET tln == NodeAt(bnodes, bln)
      count == IF tln \in DOMAIN acc.counts THEN acc.counts[tln] + 1 ELSE 1
      first == IF tln \notin DOMAIN acc.blnums \/ acc.blnums[tln] > bln \/ count = 1
               THEN bln ELSE acc.blnums[tln]
  IN  [counts |-> Updated(acc.counts, [t \in {tln} |-> count]),
       blnums |-> Updated(acc.blnums, [t \in {tln} |-> first])]

InheritingNow(under) == under  \* mutant: inh_only is begun anew for each pattern
Inheriting(under) == inh_only \cup under

\* An AND pattern.  Nodes that only inherit it count from 0 and have their
\* headline as the line to go to.
GrepAND(L, inh) ==
  LET with == NodesWith(L)
      under == IF inh THEN NodesUnder(with) \ with ELSE {}
      acc == FoldLeft(CountMatch, [counts |-> counts, blnums |-> blnums], L)
  IN  /\ Len(matchesAND) < MaxAND
      /\ matchesNOT = <<>>
      /\ matchesAND' = Append(matchesAND, L)
      /\ inhAND' = Append(inhAND, inh)
      /\ counts' = Updated(acc.counts, [s \in under |-> 0])
      /\ blnums' = Updated(acc.blnums, [s \in under |-> bnodes[s]])
      /\ inh_only' = Inheriting(under)
      /\ tlnumsAND' = Append(tlnumsAND, with \cup under)
      /\ UNCHANGED <<outline, matchesNOT, inhNOT, tlnumsNOT>>

\* A NOT pattern; it comes after all AND patterns.
GrepNOT(L, inh) ==
  LET with == NodesWith(L)
  IN  /\ Len(matchesNOT) < MaxNOT
      /\ matchesNOT' = Append(matchesNOT, L)
      /\ inhNOT' = Append(inhNOT, inh)
      /\ tlnumsNOT' = Append(tlnumsNOT, IF inh THEN with \cup NodesUnder(with) ELSE with)
      /\ UNCHANGED <<outline, matchesAND, inhAND, found, tlnumsAND>>

\* The nodes in all sets of ands and in none of nots.
intersectDicts(ands, nots) ==
  {t \in TreeLines : /\ ands # <<>>
                     /\ \A i \in 1..Len(ands) : t \in ands[i]
                     /\ \A i \in 1..Len(nots) : t \notin nots[i]}

\* The lines of the quickfix list.
Results == intersectDicts(IF matchesAND = <<>> THEN <<TreeLines>> ELSE tlnumsAND, tlnumsNOT)

\* What a line of it says about a node: N or n, the number of matches, and
\* the line to go to.
Result(t) ==
  IF matchesAND = <<>> THEN [sign |-> "n", count |-> 0, lnum |-> bnodes[t]]
  ELSE [sign |-> IF t \in inh_only THEN "n" ELSE "N", count |-> counts[t], lnum |-> blnums[t]]

-----------------------------------------------------------------------------
Init ==
  /\ \E o \in Outlines : bnodes = o[1] /\ levels = o[2]
  /\ matchesAND = <<>> /\ inhAND = <<>> /\ tlnumsAND = <<>>
  /\ matchesNOT = <<>> /\ inhNOT = <<>> /\ tlnumsNOT = <<>>
  /\ counts = <<>> /\ blnums = <<>> /\ inh_only = {}

\* An AND pattern that is found nowhere ends the search.
Next ==
  \E L \in Matches, inh \in BOOLEAN :
    \/ L # <<>> /\ GrepAND(L, inh)
    \/ GrepNOT(L, inh)

Spec == Init /\ [][Next]_vars

-----------------------------------------------------------------------------
(* Properties.                                                             *)

Has(t, L) == \E i \in 1..Len(L) : NodeAt(bnodes, L[i]) = t

\* The node has a match, or inherits one from an ancestor.
Shows(t, L, inh) ==
  \/ Has(t, L)
  \/ /\ inh
     /\ \E s \in nodeAncestors(levels, t) : Has(s, L)

\* The results are the nodes for which each AND pattern, and no NOT pattern,
\* is found in the node or, for a pattern with *, in it or in an ancestor.
ResultsMatch ==
  Results = {t \in TreeLines :
               /\ \A i \in 1..Len(matchesAND) : Shows(t, matchesAND[i], inhAND[i])
               /\ \A i \in 1..Len(matchesNOT) : ~Shows(t, matchesNOT[i], inhNOT[i])}

\* N is for the nodes that have all AND patterns themselves.
SignsRight ==
  \A t \in Results :
    Result(t).sign = "N" <=> matchesAND # <<>> /\ \A i \in 1..Len(matchesAND) : Has(t, matchesAND[i])

\* The matches of the AND patterns, as pairs of a pattern and one of its matches.
AllMatches == UNION {{i} \X (1..Len(matchesAND[i])) : i \in 1..Len(matchesAND)}
LineOf(m) == matchesAND[m[1]][m[2]]
MatchesIn(t) == {m \in AllMatches : NodeAt(bnodes, LineOf(m)) = t}

\* The number of a node in the results counts all its AND matches, and the
\* line is the first one.
CountsAllMatches ==
  \A t \in Results :
    LET all == MatchesIn(t)
    IN  all # {} => /\ Result(t).count = Cardinality(all)
                    /\ Result(t).lnum = Min({LineOf(m) : m \in all})

\* That is so if no pattern has a *.
CountsWithoutStar == (\A i \in 1..Len(inhAND) : ~inhAND[i]) => CountsAllMatches
=============================================================================
