------------------------------- MODULE Picking -------------------------------
(**************************************************************************)
(* Lists made of other lists by position: what a loop that appends some   *)
(* of the elements it passes leaves behind, without the recursion.        *)
(**************************************************************************)
EXTENDS Integers, Sequences, FiniteSets

\* The elements of a finite set in the order that a set of pairs gives them: the n-th
\* has n - 1 before it.
InOrder(S, before) ==
  [n \in 1 .. Cardinality(S) |->
     CHOOSE x \in S : Cardinality({y \in S : <<y, x>> \in before}) = n - 1]

Earlier(at) == {p \in at \X at : p[1] < p[2]}

\* The elements of a list at some of its positions, in the list's order.
Pick(list, at) ==
  LET chosen == InOrder(at, Earlier(at))
  IN  [n \in DOMAIN chosen |-> list[chosen[n]]]

\* Where an element occurs for the first time.
Firsts(list) == {n \in DOMAIN list : \A m \in 1 .. n - 1 : list[m] # list[n]}

Places(lists) == UNION {{i} \X DOMAIN lists[i] : i \in DOMAIN lists}

\* One list after the other.
Joined(lists) ==
  LET before == {p \in Places(lists) \X Places(lists) :
                   p[1][1] < p[2][1] \/ (p[1][1] = p[2][1] /\ p[1][2] < p[2][2])}
      chosen == InOrder(Places(lists), before)
  IN  [n \in DOMAIN chosen |-> lists[chosen[n][1]][chosen[n][2]]]

\* What a limit leaves of a set: all of it, or any k of its elements.
Limited(S, k) ==
  IF Cardinality(S) <= k THEN S ELSE CHOOSE T \in SUBSET S : Cardinality(T) = k
=============================================================================
