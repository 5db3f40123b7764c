----------------------------- MODULE AgentRoute -----------------------------
(***************************************************************************)
(* The routes of an agent: a route_lb (the three of an agent share the     *)
(* routes by (modid + cmdid) % 3, so each route has one, and its mutex     *)
(* makes every operation one step), the dns client thread that carries     *)
(* pulls to the dns server and brings answers and pushes back, and the     *)
(* connection between the two, which nothing re-opens once it is gone.     *)
(*                                                                         *)
(* What a route does with its hosts is LoadBalance; here a route is the    *)
(* set of them.  The dns server is kept to what an agent sees of it.       *)
(***************************************************************************)
EXTENDS Integers, Sequences, SequencesExt

CONSTANTS
  Mod,               \* the <modid, cmdid> pairs
  NoMod,             \* no request at hand
  Host,
  update_timeout,    \* lb_config.update_timeout
  MaxChanges,        \* bound: how often the table of the server changes
  MaxInFlight        \* bound: pulls, requests and responses on their way

ASSUME RouteAssumption == /\ {update_timeout, MaxChanges, MaxInFlight} \subseteq Nat
                          /\ NoMod \notin Mod

VARIABLES
  routes,     \* the keys of _route_map
  hosts,      \* of each route, the keys of its _host_map
  status,     \* of each route, load_balance::status
  age,        \* of each route, the time since last_update_ts, up to update_timeout
  dns_queue,  \* dns_queue: pulls the dns client has not seen
  link,       \* the connection: "connecting", "up", "failed" at once, "down" later
  requests,   \* GetRouteRequest messages on their way to the server
  responses,  \* GetRouteResponse messages on their way to the agent
  table,      \* server: the hosts of each mod in its route map
  subscribed, \* server: the mods this agent has asked for
  serving,    \* server: the mod get_req has subscribed to and is to answer for
  changed,    \* server: mods in the new route map, still to be published
  push_list,  \* server: _push_list of this agent's connection
  silent,     \* server: mods that changed without a push, not asked for since
  changes     \* how often the table has changed

agentVars  == <<routes, hosts, status, age>>
serverVars == <<table, subscribed, serving, changed, push_list, silent, changes>>
vars == <<agentVars, dns_queue, link, requests, responses, serverVars>>

Init == /\ routes = {}
        /\ hosts = [m \in Mod |-> {}]
        /\ status = [m \in Mod |-> "PULLING"]
        /\ age = [m \in Mod |-> 0]
        /\ dns_queue = <<>> /\ requests = <<>> /\ responses = <<>>
        /\ link = "connecting"
        /\ table \in [Mod -> SUBSET Host]
        /\ subscribed = {} /\ serving = NoMod
        /\ changed = {} /\ push_list = {} /\ silent = {}
        /\ changes = 0

-----------------------------------------------------------------------------
(* The threads of the agent *)

Room == Len(dns_queue) + Len(requests) + Len(responses) < MaxInFlight

(* load_balance::pull *)
Pull(m) == /\ Room
           /\ dns_queue' = Append(dns_queue, m)
           /\ status' = [status EXCEPT ![m] = "PULLING"]

(* get_host, and get_route, for a route that is not there yet. *)
GetNew(m) == /\ m \notin routes
             /\ routes' = routes \cup {m}
             /\ hosts' = [hosts EXCEPT ![m] = {}]
             /\ Pull(m)
             /\ UNCHANGED <<age, link, requests, responses, serverVars>>

(* For one whose data are old.  (A call that finds them fresh, or a pull   *)
(* on its way, changes nothing here.)                                      *)
GetOld(m) == /\ m \in routes /\ status[m] = "NEW"
             /\ age[m] >= update_timeout
             /\ Pull(m)
             /\ UNCHANGED <<routes, hosts, age, link, requests, responses, serverVars>>

GetHost(m) == GetNew(m) \/ GetOld(m)

(* dns_task_cb: attached when the connection came up, and still so after   *)
(* it went down; then it drops what it takes.                              *)
DnsTask == /\ link \in {"up", "down"} /\ dns_queue # <<>>
           /\ dns_queue' = <<>>
           /\ requests' = IF link = "up" THEN requests \o dns_queue ELSE requests
           /\ UNCHANGED <<agentVars, link, responses, serverVars>>

(* Mutant: the route goes on waiting. *)
UpdateKeepsPulling ==
  /\ link = "up" /\ responses # <<>>
  /\ responses' = Tail(responses)
  /\ LET res == Head(responses)
         m   == res.mod
     IN  \/ /\ m \notin routes
            /\ UNCHANGED agentVars
         \/ /\ m \in routes /\ res.hosts = {}
            /\ routes' = routes \ {m}
            /\ hosts' = [hosts EXCEPT ![m] = {}]
            /\ UNCHANGED <<status, age>>
         \/ /\ m \in routes /\ res.hosts # {}
            /\ hosts' = [hosts EXCEPT ![m] = res.hosts]
            /\ age' = [age EXCEPT ![m] = 0]
            /\ UNCHANGED <<routes, status>>
  /\ UNCHANGED <<dns_queue, link, requests, serverVars>>

(* dns_res_cb: update_host of the route's route_lb. *)
UpdateHost ==
  /\ link = "up" /\ responses # <<>>
  /\ responses' = Tail(responses)
  /\ LET res == Head(responses)
         m   == res.mod
     IN  \/ /\ m \notin routes
            /\ UNCHANGED agentVars
         \/ /\ m \in routes /\ res.hosts = {}
            /\ routes' = routes \ {m}
            /\ hosts' = [hosts EXCEPT ![m] = {}]
            /\ UNCHANGED <<status, age>>
         \/ /\ m \in routes /\ res.hosts # {}
            /\ hosts' = [hosts EXCEPT ![m] = res.hosts]
            /\ status' = [status EXCEPT ![m] = "NEW"]
            /\ age' = [age EXCEPT ![m] = 0]
            /\ UNCHANGED routes
  /\ UNCHANGED <<dns_queue, link, requests, serverVars>>

(* connect_ser, and conn2_dns_ser with it; or the connection fails. *)
Connect == /\ link = "connecting"
           /\ link' \in {"up", "failed"}
           /\ UNCHANGED <<agentVars, dns_queue, requests, responses, serverVars>>

(* do_read or do_write finds the connection gone: clean.  What was on its  *)
(* way is lost.                                                            *)
Disconnect == /\ link = "up"
              /\ link' = "down"
              /\ requests' = <<>> /\ responses' = <<>>
              /\ UNCHANGED <<agentVars, dns_queue, serverVars>>

Tick == /\ age' = [m \in Mod |-> IF m \in routes /\ age[m] < update_timeout
                                 THEN age[m] + 1 ELSE age[m]]
        /\ UNCHANGED <<routes, hosts, status, dns_queue, link, requests, responses, serverVars>>

-----------------------------------------------------------------------------
(* The dns server *)

(* get_req: subscribes ... *)
Subscribe == /\ link = "up" /\ requests # <<>> /\ serving = NoMod
             /\ serving' = Head(requests)
             /\ subscribed' = subscribed \cup {Head(requests)}
             /\ requests' = Tail(requests)
             /\ UNCHANGED <<agentVars, dns_queue, link, responses, table, changed,
                            push_list, silent, changes>>

Send(m) == /\ responses' = Append(responses, [mod |-> m, hosts |-> table[m]])
           /\ silent' = silent \ {m}

(* ... and then reads the hosts and answers. *)
Answer == /\ link = "up" /\ serving # NoMod
          /\ Send(serving)
          /\ serving' = NoMod
          /\ UNCHANGED <<agentVars, dns_queue, link, requests, table, subscribed, changed,
                         push_list, changes>>

(* A new route map is swapped in.  With a new version the change is then   *)
(* published; the forced reload does not publish what it brings.           *)
Change(m, new) ==
  /\ changes < MaxChanges /\ new # table[m]
  /\ changes' = changes + 1
  /\ table' = [table EXCEPT ![m] = new]
  /\ \/ changed' = changed \cup {m} /\ UNCHANGED silent
     \/ silent' = silent \cup {m} /\ UNCHANGED changed
  /\ UNCHANGED <<agentVars, dns_queue, link, requests, responses, subscribed, serving,
                 push_list>>

(* Mutant: a change under way while a request is answered is not published. *)
PublishSkipsServed(m) ==
  /\ m \in changed
  /\ changed' = changed \ {m}
  /\ push_list' = push_list \cup ({m} \cap (subscribed \ {serving}))
  /\ UNCHANGED <<agentVars, dns_queue, link, requests, responses, table, subscribed,
                 serving, silent, changes>>

(* publish, in the thread that watches the database: to the subscribers of  *)
(* that moment.                                                            *)
Publish(m) ==
  /\ m \in changed
  /\ changed' = changed \ {m}
  /\ push_list' = push_list \cup ({m} \cap subscribed)
  /\ UNCHANGED <<agentVars, dns_queue, link, requests, responses, table, subscribed,
                 serving, silent, changes>>

(* publish_change_task, in the loop that also runs get_req. *)
Push(m) ==
  /\ link = "up" /\ serving = NoMod
  /\ m \in push_list /\ Room
  /\ push_list' = push_list \ {m}
  /\ Send(m)
  /\ UNCHANGED <<agentVars, dns_queue, link, requests, table, subscribed, serving,
                 changed, changes>>

-----------------------------------------------------------------------------
Next == \/ \E m \in Mod : GetHost(m) \/ Publish(m) \/ Push(m)
        \/ DnsTask \/ UpdateHost \/ Connect \/ Disconnect \/ Tick
        \/ Subscribe \/ Answer
        \/ \E m \in Mod, new \in SUBSET Host : Change(m, new)

Spec == Init /\ [][Next]_vars

(* Callers keep asking for every route; the threads of the agent and of    *)
(* the server run on, and time does.  The connection owes nothing.         *)
Fairness == /\ WF_vars(DnsTask) /\ WF_vars(UpdateHost)
            /\ WF_vars(Subscribe) /\ WF_vars(Answer)
            /\ WF_vars(Tick) /\ WF_vars(Connect)
            /\ \A m \in Mod : SF_vars(GetHost(m)) /\ WF_vars(Publish(m)) /\ SF_vars(Push(m))

FairSpec == Spec /\ Fairness
-----------------------------------------------------------------------------
Response == [mod : Mod, hosts : SUBSET Host]

TypeOK == /\ routes \in SUBSET Mod
          /\ hosts \in [Mod -> SUBSET Host]
          /\ status \in [Mod -> {"PULLING", "NEW"}]
          /\ age \in [Mod -> 0..update_timeout]
          /\ dns_queue \in Seq(Mod) /\ requests \in Seq(Mod)
          /\ responses \in Seq(Response)
          /\ link \in {"connecting", "up", "failed", "down"}
          /\ table \in [Mod -> SUBSET Host]
          /\ {subscribed, changed, push_list, silent} \subseteq SUBSET Mod
          /\ serving \in Mod \cup {NoMod}
          /\ changes \in 0..MaxChanges

Answering(m) == \E i \in DOMAIN responses : responses[i].mod = m

(* A route that waits for an answer will get one, as long as the           *)
(* connection lasts: PULLING is left only by an answer, and no further     *)
(* pull is sent before (load_balance.cpp:17, route_lb.cpp:41, 88, 115-134).*)
PullOutstanding ==
  link \in {"connecting", "up"} =>
    \A m \in routes : status[m] = "PULLING" =>
       m \in ToSet(dns_queue) \cup ToSet(requests) \cup {serving} \/ Answering(m)

(* What an agent holds is what the server has, unless news of it are on    *)
(* their way or were never sent: an answer read before a change, a push    *)
(* after it and the erasure of an empty route cannot leave the agent with  *)
(* the older of two states, and no change falls between the subscription   *)
(* and the answer (dns_service.cpp:57-90, route_lb.cpp:113-137).           *)
AgentInSync ==
  link = "up" =>
    \A m \in routes :
       (hosts[m] # {} /\ ~Answering(m) /\ m \notin changed \cup push_list \cup silent)
         => hosts[m] = table[m]

HostsOf(m) == IF m \in routes THEN hosts[m] ELSE {}

(* If the connection comes up and lasts, an agent ends up with the         *)
(* server's hosts for every route it is asked for, even those of changes   *)
(* that were never pushed: the pull after update_timeout brings them       *)
(* (route_lb.cpp:40-44).                                                   *)
Converges ==
  [](link \in {"connecting", "up"}) => <>[](\A m \in Mod : HostsOf(m) = table[m])
=============================================================================
