------------------------------- MODULE Positions -------------------------------
(****************************************************************************)
(* Sequences by their positions: the part of a sequence at some positions,  *)
(* and a sequence in the order of a key.  The scripts of analysis/ make     *)
(* both all the time, with [x for x in lines if ...] and lines.sort(key=).  *)
(****************************************************************************)
EXTENDS Naturals, FiniteSets

(* The n-th of a set of positions, and what stands at the positions.        *)
Rank(set, i) == Cardinality({j \in set : j <= i})
At(set, n) == CHOOSE i \in set : Rank(set, i) = n
Pick(s, set) == [n \in 1..Cardinality(set) |-> s[At(set, n)]]

(* In the order of a key, one for each position; equal keys leave what they *)
(* belong to in its order.                                                  *)
UpTo(k, i) == {j \in DOMAIN k : k[j] < k[i] \/ (k[j] = k[i] /\ j <= i)}
InOrder(s, k) ==
    [n \in DOMAIN s |-> s[CHOOSE i \in DOMAIN s : Cardinality(UpTo(k, i)) = n]]

ByTime(s) == InOrder(s, [i \in DOMAIN s |-> s[i].time])
================================================================================
