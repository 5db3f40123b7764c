------------------------------ MODULE HostPool ------------------------------
(***************************************************************************)
(* What a route's load balancer promises to its callers, without lists,    *)
(* counters or timers: a pool of hosts, the ones of them that are held to  *)
(* be overloaded, and the answer to the last request for a host.           *)
(***************************************************************************)
CONSTANTS Host, NoHost

VARIABLES
  pool,         \* the hosts of the route
  overloaded,   \* those of them judged overloaded
  reply         \* the last answer: its return code and its host

vars == <<pool, overloaded, reply>>

NoReply    == [ret |-> "NONE",         host |-> NoHost]
NotExist   == [ret |-> "RET_NOEXIST",  host |-> NoHost]
Overloaded == [ret |-> "RET_OVERLOAD", host |-> NoHost]
Found(h)   == [ret |-> "RET_SUCC",     host |-> h]

Init == pool = {} /\ overloaded = {} /\ reply = NoReply

(* The pool is replaced; a host that stays keeps the verdict on it, a host  *)
(* that is new starts as not overloaded.                                   *)
Refresh == /\ pool' \in SUBSET Host
           /\ overloaded' = overloaded \cap pool'
           /\ reply' = NoReply

(* The verdict on at most one host of the pool changes. *)
Judge == /\ \E h \in pool : overloaded' \in {overloaded \cup {h}, overloaded \ {h}}
         /\ reply' = NoReply
         /\ UNCHANGED pool

(* A request is answered: "does not exist" exactly when there is no host,   *)
(* "all overloaded" only when there is none but overloaded ones, and        *)
(* otherwise by a host of the pool.  An answer changes no verdict.          *)
Answer == /\ \/ pool = {} /\ reply' = NotExist
             \/ pool # {} /\ overloaded = pool /\ reply' = Overloaded
             \/ \E h \in pool : reply' = Found(h)
          /\ UNCHANGED <<pool, overloaded>>

Forget == reply' = NoReply /\ UNCHANGED <<pool, overloaded>>

Next == Refresh \/ Judge \/ Answer \/ Forget

Spec == Init /\ [][Next]_vars
=============================================================================
