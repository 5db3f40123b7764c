---------------------------- MODULE LoadBalance ----------------------------
(***************************************************************************)
(* One load_balance object of the agent: the hosts of one route, split     *)
(* into an idle and an overload list, the counters of each host and the    *)
(* probing of overloaded hosts.  Every operation runs with the mutex of    *)
(* its route_lb held, so each is one step.                                 *)
(*                                                                         *)
(* Time is kept as ages: the code only asks whether the time since idle_ts *)
(* (of an idle host) or overload_ts (of an overloaded one) has reached a   *)
(* timeout, so one age per host that stops at that timeout is enough.  All *)
(* clock readings within one operation are taken as equal.                 *)
(***************************************************************************)
EXTENDS Lists

CONSTANTS
  Host,              \* the <ip, port> pairs a route may name
  NoHost,            \* no host in an answer
  probe_num,         \* lb_config.probe_num
  init_succ_cnt, init_err_cnt,
  err_rate, succ_rate,                  \* in percent
  contin_err_limit, contin_succ_limit,
  idle_timeout, overload_timeout,
  MaxReports         \* bound: calls counted on one host between two resets

ASSUME HostAssumption == IsFiniteSet(Host) /\ NoHost \notin Host
ASSUME ConfigAssumption ==
  /\ {probe_num, init_succ_cnt, init_err_cnt, err_rate, MaxReports} \subseteq Nat
  /\ {succ_rate, contin_err_limit, contin_succ_limit} \subseteq Nat \ {0}
  /\ {idle_timeout, overload_timeout} \subseteq Nat \ {0}

VARIABLES
  host_map,        \* _host_map: a host_info for each host of the route
  idle_list,       \* _idle_list
  overload_list,   \* _overload_list
  access_cnt,      \* _access_cnt: requests since the last probe
  reply            \* the last answer of choice_one_host, until the next step

vars == <<host_map, idle_list, overload_list, access_cnt, reply>>

Hosts == DOMAIN host_map

-----------------------------------------------------------------------------
(* host_info *)

NewHost == [vsucc_cnt |-> init_succ_cnt, rsucc_cnt |-> 0, contin_succ |-> 0,
            verr_cnt |-> 0, rerr_cnt |-> 0, contin_err |-> 0,
            overload |-> FALSE, age |-> 0]

(* Mutant: the counters reported to the reporter live on. *)
SetOverloadKeepsReal(r) == [r EXCEPT !.vsucc_cnt = 0, !.verr_cnt = init_err_cnt,
                                     !.contin_succ = 0, !.contin_err = 0,
                                     !.overload = TRUE, !.age = 0]

SetOverload(r) == [r EXCEPT !.vsucc_cnt = 0, !.verr_cnt = init_err_cnt,
                            !.rsucc_cnt = 0, !.rerr_cnt = 0,
                            !.contin_succ = 0, !.contin_err = 0,
                            !.overload = TRUE, !.age = 0]

(* Mutant: no head start for the next window. *)
SetIdleNoHeadStart(r) == [r EXCEPT !.vsucc_cnt = 0, !.verr_cnt = 0,
                                   !.rsucc_cnt = 0, !.rerr_cnt = 0,
                                   !.contin_succ = 0, !.contin_err = 0,
                                   !.overload = FALSE, !.age = 0]

SetIdle(r) == [r EXCEPT !.vsucc_cnt = init_succ_cnt, !.verr_cnt = 0,
                        !.rsucc_cnt = 0, !.rerr_cnt = 0,
                        !.contin_succ = 0, !.contin_err = 0,
                        !.overload = FALSE, !.age = 0]

(* report: the stages a host_info goes through. *)

Counted(r, is_succ) ==
  IF is_succ
  THEN [r EXCEPT !.vsucc_cnt = @ + 1, !.rsucc_cnt = @ + 1,
                 !.contin_succ = @ + 1, !.contin_err = 0]
  ELSE [r EXCEPT !.verr_cnt = @ + 1, !.rerr_cnt = @ + 1,
                 !.contin_err = @ + 1, !.contin_succ = 0]

AtRate(part, other, rate) == part * 100 >= rate * (part + other)

(* Mutant: one failure too late. *)
TooManyErrorsLate(r) == \/ AtRate(r.verr_cnt, r.vsucc_cnt, err_rate)
                        \/ r.contin_err > contin_err_limit

TooManyErrors(r) == \/ AtRate(r.verr_cnt, r.vsucc_cnt, err_rate)
                    \/ r.contin_err >= contin_err_limit

EnoughSuccess(r) == \/ AtRate(r.vsucc_cnt, r.verr_cnt, succ_rate)
                    \/ r.contin_succ >= contin_succ_limit

Judged(r, is_succ) ==
  IF ~r.overload /\ ~is_succ /\ TooManyErrors(r) THEN SetOverload(r)
  ELSE IF r.overload /\ is_succ /\ EnoughSuccess(r) THEN SetIdle(r)
  ELSE r

Timeout(r) == IF r.overload THEN overload_timeout ELSE idle_timeout

(* A timed-out overloaded host is taken back, the window of a timed-out    *)
(* idle one is cleared: set_idle either way.                               *)
TimedOut(r) == IF r.age >= Timeout(r) THEN SetIdle(r) ELSE r

Reported(r, is_succ) == TimedOut(Judged(Counted(r, is_succ), is_succ))

-----------------------------------------------------------------------------
NoReply    == [ret |-> "NONE",         host |-> NoHost]
NotExist   == [ret |-> "RET_NOEXIST",  host |-> NoHost]
Overloaded == [ret |-> "RET_OVERLOAD", host |-> NoHost]
Found(h)   == [ret |-> "RET_SUCC",     host |-> h]

NoHosts == [h \in {} |-> NewHost]

Init == /\ host_map = NoHosts
        /\ idle_list = <<>>
        /\ overload_list = <<>>
        /\ access_cnt = 0
        /\ reply = NoReply

(* Mutant: hosts that are gone are taken off the idle list only. *)
UpdateIdleList(remote) ==
  /\ host_map' = [h \in remote |-> IF h \in Hosts THEN host_map[h] ELSE NewHost]
  /\ \E added \in Orders(remote \ Hosts) :
        idle_list' = Without(idle_list, Hosts \ remote) \o added
  /\ reply' = NoReply
  /\ UNCHANGED <<overload_list, access_cnt>>

(* update: a response that names the hosts of remote, at least one.  New   *)
(* hosts go to the tail of the idle list in the order of the response; a   *)
(* host that is gone is taken off the list its own flag names.             *)
Update(remote) ==
  LET gone == Hosts \ remote
      down == {h \in gone : host_map[h].overload}
  IN  /\ host_map' = [h \in remote |-> IF h \in Hosts THEN host_map[h] ELSE NewHost]
      /\ \E added \in Orders(remote \ Hosts) :
            idle_list' = Without(idle_list, gone \ down) \o added
      /\ overload_list' = Without(overload_list, down)
      /\ reply' = NoReply
      /\ UNCHANGED access_cnt

(* Mutant: no idle host is taken for no host. *)
ChoiceNoneIdle == /\ idle_list = <<>>
                  /\ reply' = NotExist
                  /\ UNCHANGED <<host_map, idle_list, overload_list, access_cnt>>

(* choice_one_host, one action for each way through it. *)
ChoiceNone == /\ Hosts = {}
              /\ reply' = NotExist
              /\ UNCHANGED <<host_map, idle_list, overload_list, access_cnt>>

ChoiceOverload == /\ Hosts # {} /\ idle_list = <<>>
                  /\ access_cnt < probe_num
                  /\ access_cnt' = access_cnt + 1
                  /\ reply' = Overloaded
                  /\ UNCHANGED <<host_map, idle_list, overload_list>>

ChoiceProbe == /\ Hosts # {}
               /\ idle_list = <<>> \/ overload_list # <<>>
               /\ access_cnt >= probe_num
               /\ access_cnt' = 0
               /\ reply' = Found(Head(overload_list))
               /\ overload_list' = Rotate(overload_list)
               /\ UNCHANGED <<host_map, idle_list>>

(* Mutants: every request is counted, or none; the host served stays at    *)
(* the front.                                                              *)
ChoiceIdleCounts == /\ Hosts # {} /\ idle_list # <<>>
                    /\ overload_list = <<>> \/ access_cnt < probe_num
                    /\ access_cnt' = access_cnt + 1
                    /\ reply' = Found(Head(idle_list))
                    /\ idle_list' = Rotate(idle_list)
                    /\ UNCHANGED <<host_map, overload_list>>

ChoiceIdleUncounted == /\ Hosts # {} /\ idle_list # <<>>
                       /\ overload_list = <<>> \/ access_cnt < probe_num
                       /\ reply' = Found(Head(idle_list))
                       /\ idle_list' = Rotate(idle_list)
                       /\ UNCHANGED <<host_map, overload_list, access_cnt>>

ChoiceIdleFront == /\ Hosts # {} /\ idle_list # <<>>
                   /\ \/ overload_list = <<>> /\ UNCHANGED access_cnt
                      \/ /\ overload_list # <<>> /\ access_cnt < probe_num
                         /\ access_cnt' = access_cnt + 1
                   /\ reply' = Found(Head(idle_list))
                   /\ UNCHANGED <<host_map, idle_list, overload_list>>

ChoiceIdle == /\ Hosts # {} /\ idle_list # <<>>
              /\ \/ overload_list = <<>> /\ UNCHANGED access_cnt
                 \/ /\ overload_list # <<>> /\ access_cnt < probe_num
                    /\ access_cnt' = access_cnt + 1
              /\ reply' = Found(Head(idle_list))
              /\ idle_list' = Rotate(idle_list)
              /\ UNCHANGED <<host_map, overload_list>>

ChoiceOneHost == ChoiceNone \/ ChoiceOverload \/ ChoiceProbe \/ ChoiceIdle

(* report of a call to h.  A host the route does not know is ignored. The  *)
(* bound MaxReports never holds back the report that finds the timeout     *)
(* reached, for that one resets the counters.                              *)
Report(h, is_succ) ==
  /\ h \in Hosts
  /\ LET r == host_map[h]
         s == Reported(r, is_succ)
     IN  /\ r.rsucc_cnt + r.rerr_cnt < MaxReports \/ r.age >= Timeout(r)
         /\ host_map' = [host_map EXCEPT ![h] = s]
         /\ \/ /\ s.overload = r.overload
               /\ UNCHANGED <<idle_list, overload_list>>
            \/ /\ s.overload /\ ~r.overload
               /\ idle_list' = Without(idle_list, {h})
               /\ overload_list' = Append(overload_list, h)
            \/ /\ ~s.overload /\ r.overload
               /\ overload_list' = Without(overload_list, {h})
               /\ idle_list' = Append(idle_list, h)
  /\ reply' = NoReply
  /\ UNCHANGED access_cnt

(* A response without hosts: route_lb erases the object, and the next      *)
(* request makes a new one.                                                *)
Erase == /\ host_map' = NoHosts
         /\ idle_list' = <<>>
         /\ overload_list' = <<>>
         /\ access_cnt' = 0
         /\ reply' = NoReply

(* One second passes. *)
Older(r) == [r EXCEPT !.age = IF @ < Timeout(r) THEN @ + 1 ELSE @]

Tick == /\ host_map' = [h \in Hosts |-> Older(host_map[h])]
        /\ reply' = NoReply
        /\ UNCHANGED <<idle_list, overload_list, access_cnt>>

Next == \/ \E remote \in SUBSET Host \ {{}} : Update(remote)
        \/ ChoiceOneHost
        \/ \E h \in Host, is_succ \in BOOLEAN : Report(h, is_succ)
        \/ Erase
        \/ Tick

Spec == Init /\ [][Next]_vars

(* Callers keep asking, a host that is given out again and again has its   *)
(* calls reported again and again, and the clock goes on.  A host that is  *)
(* not given out need not be reported, and updates come as they will.      *)
ReportOfCall(h) == reply = Found(h) /\ \E is_succ \in BOOLEAN : Report(h, is_succ)

Fairness == /\ WF_vars(ChoiceOneHost)
            /\ WF_vars(Tick)
            /\ \A h \in Host : SF_vars(ReportOfCall(h))

FairSpec == Spec /\ Fairness
-----------------------------------------------------------------------------
HostInfo == [vsucc_cnt : Nat, rsucc_cnt : Nat, contin_succ : Nat,
             verr_cnt : Nat, rerr_cnt : Nat, contin_err : Nat,
             overload : BOOLEAN, age : Nat]

Replies == {NoReply, NotExist, Overloaded} \cup {Found(h) : h \in Host}

(* Every variable has its type; the progress towards a probe stays within  *)
(* probe_num (load_balance.h:61).                                          *)
TypeOK == /\ Hosts \subseteq Host
          /\ host_map \in [Hosts -> HostInfo]
          /\ idle_list \in Seq(Host)
          /\ overload_list \in Seq(Host)
          /\ access_cnt \in 0..probe_num
          /\ reply \in Replies

(* Every host of the route is on exactly one of the two lists, once, and   *)
(* its flag says which: the code keeps the same fact in three places and   *)
(* finds the list to remove a host from by the flag alone                  *)
(* (load_balance.cpp:58-65, 164-239).                                      *)
ListsPartitionHosts ==
  /\ Distinct(idle_list) /\ Distinct(overload_list)
  /\ Elements(idle_list) = {h \in Hosts : ~host_map[h].overload}
  /\ Elements(overload_list) = {h \in Hosts : host_map[h].overload}

CountsMatch(r) ==
  /\ r.vsucc_cnt = r.rsucc_cnt + (IF r.overload THEN 0 ELSE init_succ_cnt)
  /\ r.verr_cnt = r.rerr_cnt + (IF r.overload THEN init_err_cnt ELSE 0)
  /\ r.contin_succ <= r.rsucc_cnt /\ r.contin_err <= r.rerr_cnt
  /\ r.contin_succ = 0 \/ r.contin_err = 0

(* The virtual counters are the real ones plus the head start of the list  *)
(* the host is on, through every switch, timeout and reset; a run of       *)
(* successes excludes a run of failures (host_info.h:28-33).               *)
VirtualCountsMatch == \A h \in Hosts : CountsMatch(host_map[h])

VerdictCurrent(r) ==
  IF r.overload
  THEN /\ r.contin_succ < contin_succ_limit
       /\ r.rsucc_cnt > 0 => ~AtRate(r.vsucc_cnt, r.verr_cnt, succ_rate)
  ELSE /\ r.contin_err < contin_err_limit
       /\ r.rerr_cnt > 0 => ~AtRate(r.verr_cnt, r.vsucc_cnt, err_rate)

(* No host is left on a list that its counters say it should have left:    *)
(* every way a counter can change is followed by the judgement that it     *)
(* calls for, in the same call (load_balance.cpp:163-227).                 *)
VerdictsCurrent == \A h \in Hosts : VerdictCurrent(host_map[h])

SwitchEarned(r, s) ==
  /\ (~r.overload /\ s.overload) =>
        \/ r.rerr_cnt + 1 >= contin_err_limit
        \/ AtRate(r.rerr_cnt + 1, init_succ_cnt, err_rate)
  /\ (r.overload /\ ~s.overload) =>
        \/ r.rsucc_cnt + 1 >= contin_succ_limit
        \/ AtRate(r.rsucc_cnt + 1, init_err_cnt, succ_rate)
        \/ r.age >= overload_timeout

(* A head start does what it is there for (host_info.h:28, 31): a host is   *)
(* not declared overloaded on a few early failures, nor idle on a few early *)
(* successes before its time is up, whatever calls come in between.        *)
NoHastySwitch ==
  [][\A h \in Hosts \cap Hosts' : SwitchEarned(host_map[h], host_map'[h])]_vars

(* Probing does not starve the idle hosts: one is served, or it leaves     *)
(* the idle list (load_balance.cpp:94-112).                                *)
IdleHostServed ==
  \A h \in Host : (h \in Elements(idle_list))
                    ~> (reply = Found(h) \/ h \notin Elements(idle_list))

(* A host does not stay overloaded for good: it is probed, the probes are  *)
(* reported, and at the latest the report after the timeout takes it back  *)
(* (load_balance.cpp:79-112, 229-239).                                     *)
OverloadedHostTakenBack ==
  \A h \in Host : (h \in Elements(overload_list)) ~> (h \notin Elements(overload_list))

(* The load balancer keeps the promise of HostPool. *)
Pool == INSTANCE HostPool WITH
          pool       <- Hosts,
          overloaded <- Elements(overload_list)
ImplementsHostPool == Pool!Spec
=============================================================================
