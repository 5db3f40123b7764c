------------------------------ MODULE CallPath ------------------------------
(***************************************************************************)
(* The way of a report from the api to the table: report_req_cb has the    *)
(* load balancer count and commit its counters, the report client carries  *)
(* them to the reporter (ClientThread; here its queue, its buffers and the *)
(* connection are one channel, which the end of the connection closes for  *)
(* good), a worker deals them to a database thread.  Another agent uses    *)
(* the same rows: every agent reports as caller 123.                       *)
(***************************************************************************)
EXTENDS ApiCall, Reporter

CONSTANT Agent   \* the worker that has this agent's connection

ASSUME PathAssumption == Agent \in Worker /\ Key = Mod

VARIABLES
  counted,   \* of each mod, how many reports its balancer has committed
  uplink,    \* reports on their way to the reporter
  linked     \* the connection to the reporter has not ended

pathVars == <<counted, uplink, linked>>
vars == <<apiVars, reporterVars, pathVars>>

Init == /\ ApiInit /\ faults = budget.queries /\ ReporterInit
        /\ counted = [m \in Mod |-> 0] /\ uplink = <<>> /\ linked = TRUE
-----------------------------------------------------------------------------
(* report_req_cb, report_host, commit: the counters of all hosts of a      *)
(* route that has any.                                                     *)
ReportHost(p) ==
  LET m == Head(mailbox[p]).mod
  IN /\ ReportReqCb(p)
     /\ \/ /\ route[m] # NoHosts
           /\ counted' = [counted EXCEPT ![m] = @ + 1]
           /\ uplink' = Append(uplink, [mod |-> m, by |-> Agent, n |-> counted'[m]])
        \/ route[m] = NoHosts /\ UNCHANGED <<counted, uplink>>
     /\ UNCHANGED <<reporterVars, linked>>

(* The worker of this agent's connection reads a report. *)
Carry == /\ linked /\ uplink # <<>>
         /\ ReadsIndex(Agent, Head(uplink))
         /\ uplink' = Tail(uplink)
         /\ UNCHANGED <<apiVars, counted, linked>>

LinkEnds == /\ linked /\ linked' = FALSE
            /\ UNCHANGED <<apiVars, reporterVars, counted, uplink>>

(* Another worker reads a report of another agent.  Bound: it is about a   *)
(* route that this agent has reported too.                                 *)
OtherReports(w, m) ==
  /\ Costs({"others"}) /\ counted[m] > 0
  /\ ReadsIndex(w, [mod |-> m, by |-> w, n |-> budget.others])
  /\ UNCHANGED <<check_seq, call, peer, inbox, mailbox, route, updates, told, failed, lost, pathVars>>

Api    == /\ \/ \E c \in Caller : Sending(c) \/ Receiving(c) \/ RecvFails(c)
             \/ \E p \in Port : Serving(p)
             \/ \E m \in Mod : UpdateHost(m)
          /\ UNCHANGED <<reporterVars, pathVars>>
Reporting == /\ \/ \E w \in Worker : DealsReport(w)
                \/ \E i \in DbThread : Store(i)
             /\ UNCHANGED <<apiVars, pathVars>>

Next == \/ Api \/ Reporting
        \/ \E p \in Port : ReportHost(p)
        \/ Carry \/ LinkEnds
        \/ \E w \in Worker \ {Agent}, m \in Mod : OtherReports(w, m)

(* What the threads have at hand to do.  It ends, so that it is enough     *)
(* that some one of them goes on; nobody has to call.                      *)
Work == \/ /\ \/ \E c \in Caller : Receiving(c)
              \/ \E p \in Port : Serving(p)
           /\ UNCHANGED <<reporterVars, pathVars>>
        \/ Reporting
        \/ Carry \/ \E p \in Port : ReportHost(p)

FairSpec == Init /\ [][Next]_vars /\ WF_vars(Work)
-----------------------------------------------------------------------------
InTable(r, h) == \E i \in DbThread :
  (\E k \in 1..Len(given[i]) : given[i][k] = r) /\ ~Unstored(i, r, h)

Committed == UNION {{[mod |-> m, by |-> Agent, n |-> n] : n \in 1..counted[m]} : m \in Mod}

(* Time and again, when calls pause (they are bounded), what the agent has *)
(* committed for its routes has come to the query of every host, which is  *)
(* not tried again (store_report.cpp:53), unless the connection to the     *)
(* reporter ends or two workers deal reports at once, when the turn may be *)
(* off (ylars_reporter.cpp:21-22).                                         *)
CommittedIsStored ==
  []<>(~linked \/ raced \/ \A r \in Committed, h \in Host : InTable(r, h))
=============================================================================
