------------------------------- MODULE Sublists -------------------------------
(***************************************************************************)
(* Parts of a list, in its order: what the list comprehensions of the code *)
(* return ([p for p in order if p in S]).  They are told by positions, not *)
(* by the recursion of SelectSeq and FoldLeft, which no prover can open.   *)
(***************************************************************************)
EXTENDS Integers, Sequences, FiniteSets

\* The k-th of some positions, and the list of what stands there.
Nth(at, k) == CHOOSE i \in at : Cardinality({j \in at : j <= i}) = k
Pick(s, at) == [k \in 1..Cardinality(at) |-> s[Nth(at, k)]]

Keep(s, S) == Pick(s, {i \in DOMAIN s : s[i] \in S})
Drop(s, S) == Pick(s, {i \in DOMAIN s : s[i] \notin S})

\* Repeats dropped: the first of each stays ("if n not in seen").
Once(s) == Pick(s, {i \in DOMAIN s : \A j \in 1..(i - 1) : s[j] # s[i]})
===============================================================================
