------------------------------ MODULE ApiCall ------------------------------
(***************************************************************************)
(* Calls of ylars_api and the udp servers of the agent that answer them.   *)
(* A caller is an api object: a blocking socket which every call connects  *)
(* anew, to the port of its mod, and no timeout.  What a call leaves in    *)
(* the socket the next one finds.                                          *)
(*                                                                         *)
(* Hosts are told apart by their mod and the update that brought them: the *)
(* n-th update of all.  A route without hosts is one that is not there.    *)
(***************************************************************************)
EXTENDS Integers, Sequences, FiniteSets, SequencesExt

CONSTANTS
  Caller, Mod, Port,
  NoPort,      \* where an unconnected socket is connected to
  PortOf,      \* of each mod, 9995 + (modid + cmdid) % 3
  Budgets      \* bounds: how many updates of routes, gets, reports, failures
               \* of recvfrom and lost datagrams (trouble) and, in CallPath,
               \* reports of other agents and failing queries there may be

ASSUME ApiAssumption == /\ NoPort \notin Port
                        /\ PortOf \in [Mod -> Port]
                        /\ Budgets \subseteq [updates : Nat, gets : Nat, reports : Nat,
                                              trouble : Nat, others : Nat, queries : Nat]

VARIABLES
  check_seq,  \* get_host's static, of all callers
  call,       \* of each caller, the call it waits in, or Idle
  peer,       \* of each caller, the port its socket is connected to
  inbox,      \* of each caller, the answers in its socket
  mailbox,    \* of each port, the requests in the socket of the udp server
  route,      \* of each mod, the hosts of its route
  updates,    \* how often routes were updated
  budget,     \* what is left of the bounds
  told,       \* history: of each caller, the hosts its last call returned
  failed,     \* history: of each caller, how often recvfrom failed
  lost        \* history: of each caller, how many of its datagrams were lost

apiVars == <<check_seq, call, peer, inbox, mailbox, route, updates, budget, told, failed, lost>>

NoHosts == <<>>
Idle    == [op |-> "none"]
Nothing == [op |-> "none"]

ApiInit == /\ check_seq = 0 /\ budget \in Budgets /\ updates = 0
           /\ call = [c \in Caller |-> Idle]
           /\ peer = [c \in Caller |-> NoPort]
           /\ inbox = [c \in Caller |-> <<>>]
           /\ mailbox = [p \in Port |-> <<>>]
           /\ route = [m \in Mod |-> NoHosts]
           /\ told = [c \in Caller |-> Nothing]
           /\ failed = [c \in Caller |-> 0] /\ lost = [c \in Caller |-> 0]
-----------------------------------------------------------------------------
Costs(kinds) == /\ \A k \in kinds : budget[k] > 0
                /\ budget' = [k \in DOMAIN budget |->
                                IF k \in kinds THEN budget[k] - 1 ELSE budget[k]]
Loses(c) == lost' = [lost EXCEPT ![c] = @ + 1]

(* Sending: connect to the port of the mod, then one datagram, which may   *)
(* be lost.                                                                *)
Connects(c, m) == /\ call[c] = Idle
                  /\ peer' = [peer EXCEPT ![c] = PortOf[m]]
                  /\ told' = [told EXCEPT ![c] = Nothing]

Posts(m, d) == mailbox' = [mailbox EXCEPT ![PortOf[m]] = Append(@, d)]

Sends(c, m, d) ==
  \/ Costs({"gets"}) /\ Posts(m, d) /\ UNCHANGED lost
  \/ Costs({"gets", "trouble"}) /\ Loses(c) /\ UNCHANGED mailbox

(* get_host up to its recvfrom.  A call remembers the route at that time,  *)
(* for the property.                                                       *)
GetHostSends(c, m) ==
  /\ Connects(c, m)
  /\ Sends(c, m, [op |-> "get_host", from |-> c, mod |-> m, seq |-> check_seq])
  /\ call' = [call EXCEPT ![c] =
       [op |-> "get_host", mod |-> m, seq |-> check_seq,
        had |-> route[m], since |-> updates]]
  /\ check_seq' = check_seq + 1
  /\ UNCHANGED <<inbox, route, updates, failed>>

GetRouteSends(c, m) ==
  /\ Connects(c, m)
  /\ Sends(c, m, [op |-> "get_route", from |-> c, mod |-> m, seq |-> 0])
  /\ call' = [call EXCEPT ![c] =
       [op |-> "get_route", mod |-> m, seq |-> 0,
        had |-> route[m], since |-> updates]]
  /\ UNCHANGED <<check_seq, inbox, route, updates, failed>>

(* report waits for nothing.  (One that is lost is one not made.) *)
Report(c, m) == /\ Connects(c, m) /\ Costs({"reports"})
                /\ Posts(m, [op |-> "report", from |-> c, mod |-> m, seq |-> 0])
                /\ UNCHANGED <<check_seq, call, inbox, route, updates, failed, lost>>
-----------------------------------------------------------------------------
(* The call returns, with hosts v or with none (an error, RET_NOEXIST,     *)
(* RET_OVERLOAD).                                                          *)
Returns(c, v) == /\ call' = [call EXCEPT ![c] = Idle]
                 /\ told' = [told EXCEPT ![c] =
                      IF v = NoHosts THEN Nothing
                      ELSE [op |-> call[c].op, mod |-> call[c].mod, hosts |-> v,
                            had |-> call[c].had, since |-> call[c].since]]

Recvs(c) == /\ call[c] # Idle /\ inbox[c] # <<>>
            /\ inbox' = [inbox EXCEPT ![c] = Tail(@)]
            /\ UNCHANGED <<check_seq, peer, mailbox, route, updates, budget, failed, lost>>

(* Mutant: one recvfrom, and no look at the sequence number. *)
GetHostRecvsFirst(c) ==
  LET d == Head(inbox[c])
  IN /\ call[c].op = "get_host" /\ Recvs(c)
     /\ Returns(c, IF d.op = "get_host" /\ d.mod = call[c].mod THEN d.hosts ELSE NoHosts)

(* A round of get_host's loop: an answer to an earlier call is passed      *)
(* over, anything else ends the call.                                      *)
GetHostRecvs(c) ==
  LET d == Head(inbox[c])
      older == d.op = "get_host" /\ d.seq < call[c].seq
      mine  == d.op = "get_host" /\ d.seq = call[c].seq /\ d.mod = call[c].mod
  IN /\ call[c].op = "get_host" /\ Recvs(c)
     /\ \/ older /\ UNCHANGED <<call, told>>
        \/ mine /\ Returns(c, d.hosts)
        \/ ~older /\ ~mine /\ Returns(c, NoHosts)

(* get_route takes the first answer, if it is one for its mod. *)
GetRouteRecvs(c) ==
  LET d == Head(inbox[c])
  IN /\ call[c].op = "get_route" /\ Recvs(c)
     /\ Returns(c, IF d.op = "get_route" /\ d.mod = call[c].mod THEN d.hosts ELSE NoHosts)

(* recvfrom fails (a signal): the call gives up, its answer may still come. *)
RecvFails(c) == /\ call[c] # Idle /\ Costs({"trouble"})
                /\ failed' = [failed EXCEPT ![c] = @ + 1]
                /\ Returns(c, NoHosts)
                /\ UNCHANGED <<check_seq, peer, inbox, mailbox, route, updates, lost>>
-----------------------------------------------------------------------------
(* An answer reaches the socket if that is still connected to the port it  *)
(* comes from, unless it is lost.                                          *)
Answers(p, c, d) ==
  \/ /\ inbox' = IF peer[c] = p THEN [inbox EXCEPT ![c] = Append(@, d)] ELSE inbox
     /\ UNCHANGED <<budget, lost>>
  \/ Costs({"trouble"}) /\ Loses(c) /\ UNCHANGED inbox

Takes(p, op) == /\ mailbox[p] # <<>> /\ Head(mailbox[p]).op = op
                /\ mailbox' = [mailbox EXCEPT ![p] = Tail(@)]

(* do_read of a udp server takes a datagram and runs its callback to the   *)
(* end, which answers who sent it: host_req_cb, with a host of the route   *)
(* or none (RET_OVERLOAD), ...                                             *)
HostReqCb(p) ==
  LET d == Head(mailbox[p])
  IN /\ Takes(p, "get_host")
     /\ \E v \in {route[d.mod], NoHosts} :
          Answers(p, d.from, [op |-> "get_host", mod |-> d.mod, seq |-> d.seq, hosts |-> v])
     /\ UNCHANGED <<check_seq, call, peer, route, updates, told, failed>>

(* Mutant: the answer goes to the last sender in the socket. *)
RouteReqCbLast(p) ==
  LET d == Head(mailbox[p])
  IN /\ Takes(p, "get_route")
     /\ Answers(p, Last(mailbox[p]).from,
                [op |-> "get_route", mod |-> d.mod, seq |-> 0, hosts |-> route[d.mod]])
     /\ UNCHANGED <<check_seq, call, peer, route, updates, told, failed>>

(* ... route_req_cb, with all of them, ... *)
RouteReqCb(p) ==
  LET d == Head(mailbox[p])
  IN /\ Takes(p, "get_route")
     /\ Answers(p, d.from,
                [op |-> "get_route", mod |-> d.mod, seq |-> 0, hosts |-> route[d.mod]])
     /\ UNCHANGED <<check_seq, call, peer, route, updates, told, failed>>

(* Mutant: a report is acknowledged. *)
ReportReqCbAnswers(p) ==
  LET d == Head(mailbox[p])
  IN /\ Takes(p, "report")
     /\ Answers(p, d.from, [op |-> "report", mod |-> d.mod, seq |-> 0, hosts |-> NoHosts])
     /\ UNCHANGED <<check_seq, call, peer, route, updates, told, failed>>

(* ... and report_req_cb, which answers nothing; CallPath has its effect.  *)
ReportReqCb(p) == /\ Takes(p, "report")
                  /\ UNCHANGED <<check_seq, call, peer, inbox, route, updates, budget, told,
                                 failed, lost>>

(* The dns client updates a route, or erases it; AgentRoute has how it     *)
(* comes to that.                                                          *)
UpdateHost(m) == /\ Costs({"updates"})
                 /\ updates' = updates + 1
                 /\ \E v \in {<<m, updates'>>, NoHosts} \ {route[m]} :
                      route' = [route EXCEPT ![m] = v]
                 /\ UNCHANGED <<check_seq, call, peer, inbox, mailbox, told, failed, lost>>

Sending(c)   == \E m \in Mod : GetHostSends(c, m) \/ GetRouteSends(c, m) \/ Report(c, m)
Receiving(c) == GetHostRecvs(c) \/ GetRouteRecvs(c)
Serving(p)   == HostReqCb(p) \/ RouteReqCb(p)
-----------------------------------------------------------------------------
(* The datagrams that c waits for or has given up waiting for. *)
Asks(d, c) == d.from = c /\ d.op # "report"
Asked(c) == UNION {{p} \X {i \in DOMAIN mailbox[p] : Asks(mailbox[p][i], c)} : p \in Port}
Owed(c)  == Cardinality(Asked(c)) + Len(inbox[c])

(* The hosts a call returns are of the route it asked for, as the route    *)
(* was during the call: for get_host whatever the socket had left over     *)
(* (ylars_api.cpp:92-125), for get_route, which has no sequence number, as *)
(* long as no call of this object has failed to receive (:176).            *)
AnswersThisCall ==
  \A c \in Caller :
    told[c] # Nothing /\ (told[c].op = "get_host" \/ failed[c] = 0)
    => /\ told[c].hosts[1] = told[c].mod
       /\ told[c].hosts = told[c].had \/ told[c].hosts[2] > told[c].since

(* What is left over comes of failed receives alone: answers do not add up *)
(* in a socket, however calls of two kinds meet in it.                     *)
LeftOverByFailures ==
  \A c \in Caller : Owed(c) <= failed[c] + (IF call[c] = Idle THEN 0 ELSE 1)

(* A call returns unless a datagram was lost (ylars_api.cpp:95, 176: there *)
(* is no timeout), with the answers of others, or late ones, in its way.   *)
CallReturns == \A c \in Caller : (call[c] # Idle) ~> (call[c] = Idle \/ lost[c] > 0)
=============================================================================
