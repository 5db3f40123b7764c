----------------------------- MODULE DnsPublish -----------------------------
(***************************************************************************)
(* The dns server: the route tables in the database, the thread that       *)
(* watches their version and publishes what changed, the two route maps of *)
(* Router, the subscriptions, and the worker loops that answer requests    *)
(* and push changes.  A callback of a worker is a few steps, one for each  *)
(* lock it takes; the worker does nothing else until it is through.        *)
(***************************************************************************)
EXTENDS Integers, FiniteSets

CONSTANTS
  Mod,          \* the <modid, cmdid> pairs
  Host,
  Fd,           \* descriptors of connections
  Worker,       \* the threads of the pool
  NoWorker,     \* no connection on a descriptor
  MaxCommits,   \* bound: changes of the database
  MaxFaults     \* bound: queries that fail, and versions that stand still

ASSUME PublishAssumption ==
  /\ {MaxCommits, MaxFaults} \subseteq Nat
  /\ NoWorker \notin Worker

VARIABLES
  route_data,    \* database, RouteData: the hosts of each mod
  route_change,  \* database, RouteChange: a mod and a version in each row
  db_version,    \* database, RouteVersion
  commits,       \* how often the database has changed
  faults,        \* how often a query failed or a version stood still
  version,       \* Router::_version
  data_map,      \* what _data_pointer points to
  temp_map,      \* what _temp_pointer points to
  pc,            \* where changet_publish is
  mods,          \* its mods
  forced,        \* more than update_sec have passed since it started
  book_list,     \* _book_list, as pairs <<mod, fd>>
  push_list,     \* _push_list
  tasks,         \* publish tasks that wait at each worker
  at,            \* the callback each worker is in
  loop_of,       \* the worker whose loop has the connection on a descriptor
  mod_set,       \* conn->param of the connection
  told,          \* the hosts last sent on a connection for each mod, none at first
  silent         \* <<fd, mod>> that missed a change nothing records

dbVars     == <<route_data, route_change, db_version, commits>>
routerVars == <<version, data_map, temp_map>>
connVars   == <<loop_of, mod_set, told>>
vars == <<dbVars, faults, routerVars, pc, mods, forced, book_list, push_list, tasks,
          at, connVars, silent>>

Idle == [op |-> "idle"]
NoHosts == [m \in Mod |-> {}]

Init == /\ route_data \in [Mod -> SUBSET Host]
        /\ route_change = {} /\ db_version = 0 /\ commits = 0 /\ faults = 0
        /\ version = 0
        /\ data_map = route_data /\ temp_map = NoHosts
        /\ pc = "sleep" /\ mods = {} /\ forced = FALSE
        /\ book_list = {}
        /\ push_list = [fd \in Fd |-> {}]
        /\ tasks = [w \in Worker |-> 0]
        /\ at = [w \in Worker |-> Idle]
        /\ loop_of = [fd \in Fd |-> NoWorker]
        /\ mod_set = [fd \in Fd |-> {}]
        /\ told = [fd \in Fd |-> NoHosts]
        /\ silent = {}

Fault == faults < MaxFaults /\ faults' = faults + 1

-----------------------------------------------------------------------------
(* Whoever keeps the tables: a transaction that changes the hosts of a mod *)
(* and the version, with a row in RouteChange or without one.  Versions    *)
(* are seconds (dns_test_version.sql:4): two changes may share one.        *)
Commit(m, new) ==
  /\ commits < MaxCommits /\ new # route_data[m]
  /\ commits' = commits + 1
  /\ route_data' = [route_data EXCEPT ![m] = new]
  /\ \/ db_version' = db_version + 1 /\ UNCHANGED faults
     \/ db_version > 0 /\ Fault /\ UNCHANGED db_version
  /\ \/ route_change' = route_change \cup {[mod |-> m, version |-> db_version']}
     \/ UNCHANGED route_change
  /\ UNCHANGED <<routerVars, pc, mods, forced, book_list, push_list, tasks, at,
                 connVars, silent>>

-----------------------------------------------------------------------------
(* The thread changet_publish *)

(* check_version, a second after the last round. *)
CheckVersion ==
  /\ pc = "sleep"
  /\ \/ /\ db_version > version
        /\ version' = db_version
        /\ mods' = {} /\ pc' = "load"
        /\ UNCHANGED <<faults, forced>>
     \/ /\ db_version <= version
        /\ forced' \in {forced, TRUE}
        /\ pc' = IF forced' THEN "reload" ELSE "sleep"
        /\ UNCHANGED <<version, mods, faults>>
     \/ /\ Fault
        /\ pc' = "ended"
        /\ UNCHANGED <<version, mods, forced>>
  /\ UNCHANGED <<dbVars, data_map, temp_map, book_list, push_list, tasks, at, connVars,
                 silent>>

(* build_map clears the map before the query. *)
LoadRouteData ==
  /\ pc \in {"load", "reload"}
  /\ \/ temp_map' = route_data /\ UNCHANGED faults
     \/ temp_map' = NoHosts /\ Fault
  /\ pc' = IF pc = "load" THEN "swap" ELSE "reswap"
  /\ UNCHANGED <<dbVars, version, data_map, mods, forced, book_list, push_list, tasks,
                 at, connVars, silent>>

(* What load_change_mod finds gone: mods with a host in old and not in new. *)
Removed(old, new) == {m \in Mod : old[m] \ new[m] # {}}

Recorded(m) == \E row \in route_change : row.mod = m

(* A change that no row records and that is no removal, or that the forced *)
(* reload brings, is never going to be published.                          *)
Swap ==
  /\ pc \in {"swap", "reswap"}
  /\ data_map' = temp_map /\ temp_map' = data_map
  /\ LET missed == {m \in Mod : /\ data_map[m] # temp_map[m] /\ ~Recorded(m)
                                /\ pc = "swap" => m \notin Removed(data_map, temp_map)}
     IN  silent' = silent \cup (Fd \X missed)
  /\ pc' = IF pc = "swap" THEN "collect" ELSE "sleep"
  /\ UNCHANGED <<dbVars, faults, version, mods, forced, book_list, push_list, tasks,
                 at, connVars>>

(* Mutant: the rows of the version itself are left for later. *)
LoadChangeModBefore ==
  /\ pc = "collect"
  /\ \/ /\ mods' = {row.mod : row \in {r \in route_change : r.version < version}}
                      \cup Removed(temp_map, data_map)
        /\ UNCHANGED faults
     \/ UNCHANGED mods /\ Fault
  /\ pc' = "publish"
  /\ UNCHANGED <<dbVars, routerVars, forced, book_list, push_list, tasks, at, connVars,
                 silent>>

LoadChangeMod ==
  /\ pc = "collect"
  /\ \/ /\ mods' = {row.mod : row \in {r \in route_change : r.version <= version}}
                      \cup Removed(temp_map, data_map)
        /\ UNCHANGED faults
     \/ UNCHANGED mods /\ Fault
  /\ pc' = "publish"
  /\ UNCHANGED <<dbVars, routerVars, forced, book_list, push_list, tasks, at, connVars,
                 silent>>

(* publish: the lists ... *)
Publish ==
  /\ pc = "publish"
  /\ push_list' = [fd \in Fd |-> push_list[fd] \cup {m \in mods : <<m, fd>> \in book_list}]
  /\ pc' = "notify"
  /\ UNCHANGED <<dbVars, faults, routerVars, mods, forced, book_list, tasks, at,
                 connVars, silent>>

(* ... and a task for each worker. *)
AddAsyncTask ==
  /\ pc = "notify"
  /\ tasks' = [w \in Worker |-> tasks[w] + 1]
  /\ pc' = "drop"
  /\ UNCHANGED <<dbVars, faults, routerVars, mods, forced, book_list, push_list, at,
                 connVars, silent>>

(* Mutant: every row is deleted, those of a version to come as well. *)
DropAll ==
  /\ pc = "drop"
  /\ \/ route_change' = {} /\ UNCHANGED faults
     \/ UNCHANGED route_change /\ Fault
  /\ pc' = "sleep"
  /\ UNCHANGED <<route_data, db_version, commits, routerVars, mods, forced, book_list,
                 push_list, tasks, at, connVars, silent>>

DropSynchronousMod ==
  /\ pc = "drop"
  /\ \/ route_change' = {r \in route_change : r.version > version} /\ UNCHANGED faults
     \/ UNCHANGED route_change /\ Fault
  /\ pc' = "sleep"
  /\ UNCHANGED <<route_data, db_version, commits, routerVars, mods, forced, book_list,
                 push_list, tasks, at, connVars, silent>>

ChangetPublish == \/ CheckVersion \/ LoadRouteData \/ Swap \/ LoadChangeMod
                  \/ Publish \/ AddAsyncTask \/ DropSynchronousMod

-----------------------------------------------------------------------------
(* The worker w *)

Goes(w, callback) == at' = [at EXCEPT ![w] = callback]

(* get_hosts and send_msg *)
Tell(fd, m) == /\ told' = [told EXCEPT ![fd][m] = data_map[m]]
               /\ silent' = silent \ {<<fd, m>>}

(* A new connection, and create_subscribe. *)
CreateSubscribe(w, fd) ==
  /\ at[w] = Idle /\ loop_of[fd] = NoWorker
  /\ loop_of' = [loop_of EXCEPT ![fd] = w]
  /\ mod_set' = [mod_set EXCEPT ![fd] = {}]
  /\ told' = [told EXCEPT ![fd] = NoHosts]
  /\ silent' = {p \in silent : p[1] # fd}
  /\ UNCHANGED <<dbVars, faults, routerVars, pc, mods, forced, book_list, push_list,
                 tasks, at>>

(* get_req subscribes at the first request for a mod ... *)
Subscribe(w, fd, m) ==
  /\ at[w] = Idle /\ loop_of[fd] = w
  /\ mod_set' = [mod_set EXCEPT ![fd] = @ \cup {m}]
  /\ book_list' = IF m \in mod_set[fd] THEN book_list ELSE book_list \cup {<<m, fd>>}
  /\ Goes(w, [op |-> "answer", fd |-> fd, mod |-> m])
  /\ UNCHANGED <<dbVars, faults, routerVars, pc, mods, forced, push_list, tasks,
                 loop_of, told, silent>>

(* ... and answers. *)
Answer(w) ==
  /\ at[w].op = "answer"
  /\ Tell(at[w].fd, at[w].mod)
  /\ Goes(w, Idle)
  /\ UNCHANGED <<dbVars, faults, routerVars, pc, mods, forced, book_list, push_list,
                 tasks, loop_of, mod_set>>

(* Mutant: the subscriptions are left. *)
CloseWithoutHook(w, fd) ==
  /\ at[w] = Idle /\ loop_of[fd] = w
  /\ Goes(w, [op |-> "close", fd |-> fd, todo |-> {}])
  /\ UNCHANGED <<dbVars, faults, routerVars, pc, mods, forced, book_list, push_list,
                 tasks, connVars, silent>>

(* The connection is closed: clean_subscribe, ... *)
CloseConn(w, fd) ==
  /\ at[w] = Idle /\ loop_of[fd] = w
  /\ Goes(w, [op |-> "close", fd |-> fd, todo |-> mod_set[fd]])
  /\ UNCHANGED <<dbVars, faults, routerVars, pc, mods, forced, book_list, push_list,
                 tasks, connVars, silent>>

Unsubscribe(w) ==
  /\ at[w].op = "close"
  /\ \E m \in at[w].todo :
       /\ book_list' = book_list \ {<<m, at[w].fd>>}
       /\ Goes(w, [at[w] EXCEPT !.todo = @ \ {m}])
  /\ UNCHANGED <<dbVars, faults, routerVars, pc, mods, forced, push_list, tasks,
                 connVars, silent>>

(* ... and the event leaves the loop. *)
Closed(w) ==
  /\ at[w].op = "close" /\ at[w].todo = {}
  /\ mod_set' = [mod_set EXCEPT ![at[w].fd] = {}]
  /\ loop_of' = [loop_of EXCEPT ![at[w].fd] = NoWorker]
  /\ Goes(w, Idle)
  /\ UNCHANGED <<dbVars, faults, routerVars, pc, mods, forced, book_list, push_list,
                 tasks, told, silent>>

(* publish_change_task: make_publish_map for the connections of the loop ... *)
MakePublishMap(w) ==
  /\ at[w] = Idle /\ tasks[w] > 0
  /\ tasks' = [tasks EXCEPT ![w] = @ - 1]
  /\ LET mine == {fd \in Fd : loop_of[fd] = w}
     IN  /\ push_list' = [fd \in Fd |-> IF fd \in mine THEN {} ELSE push_list[fd]]
         /\ Goes(w, [op |-> "push",
                     todo |-> {p \in mine \X Mod : p[2] \in push_list[p[1]]}])
  /\ UNCHANGED <<dbVars, faults, routerVars, pc, mods, forced, book_list, connVars, silent>>

(* ... and the pushes, one mod at a time. *)
PushOne(w) ==
  /\ at[w].op = "push"
  /\ \E p \in at[w].todo :
       /\ Tell(p[1], p[2])
       /\ Goes(w, [at[w] EXCEPT !.todo = @ \ {p}])
  /\ UNCHANGED <<dbVars, faults, routerVars, pc, mods, forced, book_list, push_list,
                 tasks, loop_of, mod_set>>

Pushed(w) ==
  /\ at[w].op = "push" /\ at[w].todo = {}
  /\ Goes(w, Idle)
  /\ UNCHANGED <<dbVars, faults, routerVars, pc, mods, forced, book_list, push_list,
                 tasks, connVars, silent>>

InCallback(w) == Answer(w) \/ Unsubscribe(w) \/ Closed(w) \/ PushOne(w) \/ Pushed(w)

-----------------------------------------------------------------------------
Next == \/ \E m \in Mod, new \in SUBSET Host : Commit(m, new)
        \/ ChangetPublish
        \/ \E w \in Worker :
             \/ InCallback(w) \/ MakePublishMap(w)
             \/ \E fd \in Fd : \/ CreateSubscribe(w, fd) \/ CloseConn(w, fd)
                               \/ \E m \in Mod : Subscribe(w, fd, m)

Spec == Init /\ [][Next]_vars

(* The threads run on; a task is not kept waiting for good by requests,    *)
(* for a loop takes its events in turn.  Clients and tables owe nothing.   *)
Fairness == /\ WF_vars(ChangetPublish)
            /\ \A w \in Worker : WF_vars(InCallback(w)) /\ SF_vars(MakePublishMap(w))

FairSpec == Spec /\ Fairness
-----------------------------------------------------------------------------
Callbacks ==
  {Idle}
  \cup [op : {"answer"}, fd : Fd, mod : Mod]
  \cup [op : {"close"}, fd : Fd, todo : SUBSET Mod]
  \cup [op : {"push"}, todo : SUBSET (Fd \X Mod)]

TypeOK ==
  /\ {route_data, data_map, temp_map} \subseteq [Mod -> SUBSET Host]
  /\ route_change \in SUBSET [mod : Mod, version : Nat]
  /\ {db_version, version} \subseteq Nat
  /\ commits \in 0..MaxCommits /\ faults \in 0..MaxFaults
  /\ pc \in {"sleep", "load", "swap", "collect", "publish", "notify", "drop",
             "reload", "reswap", "ended"}
  /\ mods \in SUBSET Mod /\ forced \in BOOLEAN
  /\ book_list \in SUBSET (Mod \X Fd)
  /\ push_list \in [Fd -> SUBSET Mod]
  /\ tasks \in [Worker -> Nat]
  /\ at \in [Worker -> Callbacks]
  /\ loop_of \in [Fd -> Worker \cup {NoWorker}]
  /\ mod_set \in [Fd -> SUBSET Mod]
  /\ told \in [Fd -> [Mod -> SUBSET Host]]
  /\ silent \in SUBSET (Fd \X Mod)

Unsubscribed(fd, m) ==
  LET w == loop_of[fd]
  IN  at[w].op = "close" /\ at[w].fd = fd /\ m \notin at[w].todo

(* The two records of a subscription agree: the one of the connection, by  *)
(* which it is cancelled, and the one changes are published by.  No        *)
(* subscription outlives its connection, whose number may be given out     *)
(* again (subscribe.cpp:71-93, dns_service.cpp:24-62).                     *)
SubscriptionsAgree ==
  \A fd \in Fd, m \in Mod :
    <<m, fd>> \in book_list <=>
      loop_of[fd] # NoWorker /\ m \in mod_set[fd] /\ ~Unsubscribed(fd, m)

(* What is going to be told on the connection fd about m. *)
OnItsWay(fd, m) ==
  LET w == loop_of[fd]
  IN  \/ at[w].op = "answer" /\ at[w].fd = fd /\ at[w].mod = m
      \/ at[w].op = "push" /\ <<fd, m>> \in at[w].todo
      \/ m \in push_list[fd] /\ (tasks[w] > 0 \/ pc = "notify")
      \/ m \in mods /\ pc = "publish"
      \/ m \in Removed(temp_map, data_map) /\ pc = "collect"
      \/ \E row \in route_change :
           /\ row.mod = m
           /\ row.version > version \/ pc \in {"load", "swap", "collect"}

(* A subscriber that holds other hosts for a mod than the server has is    *)
(* going to be told, whatever requests, closes, commits and forced reloads *)
(* come between the steps of publishing, unless the change is one that     *)
(* nothing records (subscribe.cpp:177-223, dns_router.cpp:152-260).  This  *)
(* is for versions that advance and queries that succeed.                  *)
SubscriberInformed ==
  faults = 0 =>
    \A fd \in Fd, m \in Mod :
      (/\ <<m, fd>> \in book_list
       /\ told[fd][m] # data_map[m]
       /\ <<fd, m>> \notin silent) => OnItsWay(fd, m)

(* Once the tables change no more, every subscriber comes to hold what     *)
(* they say, by pushes alone, if the changes are recorded, the queries     *)
(* succeed and the connection lasts.                                       *)
EverySubscriberUpToDate ==
  [](faults = 0 /\ silent = {}) =>
    \A fd \in Fd, m \in Mod :
      <>[](m \in mod_set[fd]) => <>[](told[fd][m] = route_data[m] \/ m \notin mod_set[fd])

(* subscribe.cpp:203 calls what drop_synchronous_mod deletes the data that *)
(* have been synchronised: the mod of each such row has been published.    *)
DroppedIsPublished ==
  [][\A row \in route_change \ route_change' : row.mod \in mods]_vars
=============================================================================
