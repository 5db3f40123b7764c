------------------------------- MODULE Lists -------------------------------
(***************************************************************************)
(* std::list as the agent uses it.  The operators are written without      *)
(* recursion so that the prover can reason about them.                     *)
(***************************************************************************)
EXTENDS Integers, FiniteSets, Sequences

Elements(list) == {list[i] : i \in DOMAIN list}

Distinct(list) == \A i, j \in DOMAIN list : list[i] = list[j] => i = j

(* The numbers of a finite set, in increasing order. *)
Ascending(K) ==
  CHOOSE p \in [1..Cardinality(K) -> K] :
    /\ \A k \in K : \E i \in DOMAIN p : p[i] = k
    /\ \A i, j \in DOMAIN p : i < j => p[i] < p[j]

(* remove, for each element of gone: the others stay, in their order. *)
Without(list, gone) ==
  LET kept == {i \in DOMAIN list : list[i] \notin gone}
      pos  == Ascending(kept)
  IN  [i \in 1..Cardinality(kept) |-> list[pos[i]]]

(* pop_front, and push_back of what was at the front. *)
Rotate(list) == Append(Tail(list), Head(list))

(* The lists that hold each element of S once. *)
Orders(S) == {s \in [1..Cardinality(S) -> S] :
                 (\A e \in S : \E i \in DOMAIN s : s[i] = e) /\ Distinct(s)}
=============================================================================
