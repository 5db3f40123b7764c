----------------------------- MODULE MCCallPath -----------------------------
(* A small instance of CallPath for TLC: a port for each mod. *)
EXTENDS CallPath

CONSTANTS m1, m2, p1, p2
NoBudget == [updates |-> 0, gets |-> 0, reports |-> 0, trouble |-> 0, others |-> 0, queries |-> 0]
SomeBudgets == {[NoBudget EXCEPT !.gets = 3, !.trouble = 2],
                [NoBudget EXCEPT !.updates = 2, !.gets = 2, !.trouble = 1],
                [NoBudget EXCEPT !.updates = 1, !.gets = 1, !.reports = 1, !.trouble = 1],
                [NoBudget EXCEPT !.updates = 1, !.reports = 2, !.queries = 1],
                [NoBudget EXCEPT !.updates = 1, !.reports = 2, !.others = 1]}
Ports == m1 :> p1 @@ m2 :> p2
=============================================================================
