-------------------------------- MODULE Forest --------------------------------
(***************************************************************************)
(* What the outline operations promise about the text: a Body is some      *)
(* lines before the first headline and a sequence of nodes, each with a    *)
(* level and lines of its own.  An operation moves, removes, copies or     *)
(* adds whole branches, or gives them another level; it neither loses a    *)
(* line nor moves one to another node.  Voom implements this.              *)
(***************************************************************************)
EXTENDS Outline

CONSTANT adopt    \* raising a branch may make its following siblings children

VARIABLES
  top,      \* the lines before the first node
  nodes,    \* records with a level lev and anything else
  clip,     \* the nodes in the clipboard
  last,     \* the last level there is, 0 if there are any number
  relative  \* levels begin with that of the first node, also in the clipboard

vars == <<top, nodes, clip, last, relative>>

\* a..b is a branch of ns, or several that have the same parent.
Branches(ns, a, b) ==
  /\ \A i \in a..b : ns[i].lev >= ns[a].lev
  /\ b < Len(ns) => ns[b + 1].lev <= ns[a].lev

\* Nodes ns with the first one at level l and the others moved as far, none
\* beyond the last level.
AtLevel(ns, l) ==
  LET lev(i) == ns[i].lev + l - ns[1].lev
  IN  [i \in 1..Len(ns) |->
         [ns[i] EXCEPT !.lev = IF last > 0 /\ lev(i) > last THEN last ELSE lev(i)]]

\* Node k is a child or a sibling of the one before it, or of an ancestor of
\* that one.
Attached(ns, k) == k = 1 \/ ns[k].lev <= ns[k - 1].lev + 1

\* No level is skipped.
Regular(ns) == ns # <<>> => ns[1].lev = 1 /\ \A k \in 1..Len(ns) : Attached(ns, k)

\* new is rest with branch after its node k, at the level it has in new.  The
\* nodes after it do not become children of its first node.
Placed(new, rest, k, branch) ==
  /\ new = PutAfter(rest, k, AtLevel(branch, new[k + 1].lev))
  /\ Attached(new, k + 1)
  /\ Regular(rest) /\ k < Len(rest) => rest[k + 1].lev <= new[k + 1].lev

Parent(ns, i) == Max({0} \cup {j \in 1..i - 1 : ns[j].lev < ns[i].lev})

-----------------------------------------------------------------------------
(* The steps from nodes old to nodes new.                                  *)

Move(old, new) ==
  /\ Len(new) = Len(old)
  /\ \E a \in 1..Len(old) : \E b \in a..Len(old) :
       /\ Branches(old, a, b)
       /\ \E k \in 0..Len(old) - (b - a + 1) :
            Placed(new, CutOut(old, a, b), k, Slice(old, a, b))

\* One level up.
Raise(old, new) ==
  \E a \in 1..Len(old) : \E b \in a..Len(old) :
    /\ Branches(old, a, b)
    /\ old[a].lev > 1
    /\ adopt \/ b = Len(old) \/ old[b + 1].lev < old[a].lev
    /\ new = SubSeq(old, 1, a - 1) \o AtLevel(Slice(old, a, b), old[a].lev - 1)
               \o SubSeq(old, b + 1, Len(old))

Paste(old, new, held) ==
  /\ held # <<>>
  /\ Len(new) = Len(old) + Len(held)
  /\ \E k \in 0..Len(old) : Placed(new, old, k, held)

New(old, new) ==
  /\ Len(new) = Len(old) + 1
  /\ \E k \in 0..Len(old) : Placed(new, old, k, <<new[k + 1]>>)

\* Nodes change places and keep their levels, their lines and their parents.
Reorder(old, new) ==
  /\ Len(new) = Len(old)
  /\ \E p \in Bijection(1..Len(old), 1..Len(old)) :
       \A i \in 1..Len(old) :
         /\ new[p[i]] = old[i]
         /\ Parent(new, p[i]) = IF Parent(old, i) = 0 THEN 0 ELSE p[Parent(old, i)]

\* Branches go to the clipboard, cut out or not.
Take(old, new, held) ==
  \E a \in 1..Len(old) : \E b \in a..Len(old) :
    /\ Branches(old, a, b)
    /\ held = AtLevel(Slice(old, a, b), IF relative THEN 1 ELSE old[a].lev)
    /\ new \in {old, CutOut(old, a, b)}

Next ==
  /\ UNCHANGED <<top, last, relative>>
  /\ \E old \in {nodes}, new \in {nodes'}, held \in {clip'} :
       \/ /\ UNCHANGED clip
          /\ \/ Move(old, new)
             \/ Raise(old, new)
             \/ Paste(old, new, held)
             \/ New(old, new)
             \/ Reorder(old, new)
       \/ Take(old, new, held)

Spec == [][Next]_vars
=============================================================================
