------------------------- MODULE DnsPublish_proofs -------------------------
(***************************************************************************)
(* The subscriptions of the dns server: what a connection remembers of     *)
(* them and what changes are published by agree, and a subscriber that is  *)
(* behind is going to be told, for any mods, hosts, descriptors and        *)
(* workers, and any number of changes and faults.                          *)
(***************************************************************************)
EXTENDS DnsPublish, TLAPS

(* A worker that closes a connection has it in its loop, and cancels what  *)
(* the connection has subscribed to: no other worker can open or close     *)
(* the descriptor meanwhile.                                               *)
ClosesItsOwn ==
  \A w \in Worker :
    at[w].op = "close" => /\ loop_of[at[w].fd] = w
                          /\ at[w].todo \subseteq mod_set[at[w].fd]

Inv == TypeOK /\ SubscriptionsAgree /\ ClosesItsOwn

(* The shapes of a callback. *)
LEMMA CallbackShape ==
  ASSUME TypeOK, NEW w \in Worker
  PROVE  /\ at[w] \in Callbacks
         /\ at[w].op = "answer" => at[w] \in [op : {"answer"}, fd : Fd, mod : Mod]
         /\ at[w].op = "close" => at[w] \in [op : {"close"}, fd : Fd, todo : SUBSET Mod]
         /\ at[w].op = "push" => at[w] \in [op : {"push"}, todo : SUBSET (Fd \X Mod)]
<1>1. at[w] \in Callbacks
  BY DEF TypeOK
<1> QED  BY <1>1 DEF Callbacks, Idle

LEMMA InitInv == Init => Inv
<1> SUFFICES ASSUME Init PROVE Inv
  OBVIOUS
<1>1. TypeOK
  <2>1. at \in [Worker -> Callbacks]
    BY DEF Init, Callbacks
  <2>2. {route_data, data_map, temp_map} \subseteq [Mod -> SUBSET Host]
    BY DEF Init, NoHosts
  <2>3. route_change \in SUBSET [mod : Mod, version : Nat] /\ mods \in SUBSET Mod
    BY DEF Init
  <2>8. {db_version, version} \subseteq Nat
    BY DEF Init
  <2>9. forced \in BOOLEAN
    BY DEF Init
  <2>4. /\ book_list \in SUBSET (Mod \X Fd) /\ push_list \in [Fd -> SUBSET Mod]
        /\ tasks \in [Worker -> Nat] /\ loop_of \in [Fd -> Worker \cup {NoWorker}]
        /\ mod_set \in [Fd -> SUBSET Mod]
    BY DEF Init
  <2>5. told \in [Fd -> [Mod -> SUBSET Host]] /\ silent \in SUBSET (Fd \X Mod)
    <3>1. NoHosts \in [Mod -> SUBSET Host]
      BY DEF NoHosts
    <3> QED  BY <3>1 DEF Init
  <2>6. commits \in 0..MaxCommits /\ faults \in 0..MaxFaults
    BY PublishAssumption DEF Init
  <2>7. pc = "sleep"
    BY DEF Init
  <2> QED  BY <2>1, <2>2, <2>3, <2>4, <2>5, <2>6, <2>7, <2>8, <2>9 DEF TypeOK
<1>2. SubscriptionsAgree
  BY DEF Init, SubscriptionsAgree
<1>3. ClosesItsOwn
  BY DEF Init, ClosesItsOwn, Idle
<1> QED  BY <1>1, <1>2, <1>3 DEF Inv
-----------------------------------------------------------------------------
(* Types *)

LEMMA FaultBound ==
  ASSUME TypeOK, Fault \/ UNCHANGED faults
  PROVE  faults' \in 0..MaxFaults
<1>1. faults \in 0..MaxFaults /\ MaxFaults \in Nat
  BY PublishAssumption DEF TypeOK
<1> QED  BY <1>1 DEF Fault

LEMMA PublishingType ==
  ASSUME TypeOK, ChangetPublish
  PROVE  TypeOK'
<1> USE PublishAssumption DEF TypeOK, Fault, dbVars, connVars, routerVars
<1>1. CASE CheckVersion
  <2>1. version' \in Nat
    BY <1>1 DEF CheckVersion
  <2>2. mods' \in SUBSET Mod
    BY <1>1 DEF CheckVersion
  <2>3. forced' \in BOOLEAN
    BY <1>1 DEF CheckVersion
  <2>4. faults' \in 0..MaxFaults
    <3>1. Fault \/ UNCHANGED faults
      BY <1>1 DEF CheckVersion
    <3> QED  BY <3>1, FaultBound
  <2>5. pc' \in {"load", "reload", "sleep", "ended"}
    BY <1>1 DEF CheckVersion
  <2> QED  BY <1>1, <2>1, <2>2, <2>3, <2>4, <2>5 DEF CheckVersion
<1>2. CASE LoadRouteData
  <2>1. NoHosts \in [Mod -> SUBSET Host]
    BY DEF NoHosts
  <2> QED  BY <1>2, <2>1 DEF LoadRouteData
<1>3. CASE Swap
  <2>1. silent' \subseteq Fd \X Mod
    BY <1>3 DEF Swap
  <2> QED  BY <1>3, <2>1 DEF Swap
<1>4. CASE LoadChangeMod
  <2>1. mods' \subseteq Mod
    BY <1>4 DEF LoadChangeMod, Removed
  <2> QED  BY <1>4, <2>1 DEF LoadChangeMod
<1>5. CASE Publish
  BY <1>5 DEF Publish
<1>6. CASE AddAsyncTask
  BY <1>6 DEF AddAsyncTask
<1>7. CASE DropSynchronousMod
  BY <1>7 DEF DropSynchronousMod
<1> QED  BY <1>1, <1>2, <1>3, <1>4, <1>5, <1>6, <1>7 DEF ChangetPublish

LEMMA CommitType ==
  ASSUME TypeOK, NEW m \in Mod, NEW new \in SUBSET Host, Commit(m, new)
  PROVE  TypeOK'
<1> USE PublishAssumption DEF TypeOK, Fault, connVars, routerVars
<1>1. db_version' \in Nat /\ commits' \in 0..MaxCommits /\ faults' \in 0..MaxFaults
  BY DEF Commit
<1>2. route_data' \in [Mod -> SUBSET Host]
  BY DEF Commit
<1>3. route_change' \in SUBSET [mod : Mod, version : Nat]
  BY <1>1 DEF Commit
<1> QED  BY <1>1, <1>2, <1>3 DEF Commit

(* What a worker does has a shape of its own: a callback, and the sets of  *)
(* what is left to do in it.                                               *)
LEMMA GoesType ==
  ASSUME TypeOK, NEW w \in Worker, NEW c \in Callbacks, Goes(w, c)
  PROVE  at' \in [Worker -> Callbacks]
  BY DEF Goes, TypeOK

LEMMA TellType ==
  ASSUME TypeOK, NEW fd \in Fd, NEW m \in Mod, Tell(fd, m)
  PROVE  told' \in [Fd -> [Mod -> SUBSET Host]] /\ silent' \in SUBSET (Fd \X Mod)
<1>1. data_map[m] \in SUBSET Host
  BY DEF TypeOK
<1>2. [told[fd] EXCEPT ![m] = data_map[m]] \in [Mod -> SUBSET Host]
  BY <1>1 DEF TypeOK
<1> QED  BY <1>2 DEF Tell, TypeOK

LEMMA CallbackType ==
  ASSUME TypeOK, NEW w \in Worker, InCallback(w)
  PROVE  TypeOK'
<1> USE DEF dbVars, connVars, routerVars
<1>0. Idle \in Callbacks
  BY DEF Callbacks
<1>1. CASE Answer(w)
  <2>1. at[w].fd \in Fd /\ at[w].mod \in Mod
    BY <1>1, CallbackShape DEF Answer
  <2>2. at' \in [Worker -> Callbacks]
    BY <1>0, <1>1, GoesType DEF Answer
  <2>3. told' \in [Fd -> [Mod -> SUBSET Host]] /\ silent' \in SUBSET (Fd \X Mod)
    BY <1>1, <2>1, TellType DEF Answer
  <2> QED  BY <1>1, <2>2, <2>3 DEF Answer, TypeOK
<1>2. CASE Unsubscribe(w)
  <2>1. at[w] \in [op : {"close"}, fd : Fd, todo : SUBSET Mod]
    BY <1>2, CallbackShape DEF Unsubscribe
  <2>2. PICK m \in at[w].todo :
          /\ book_list' = book_list \ {<<m, at[w].fd>>}
          /\ Goes(w, [at[w] EXCEPT !.todo = @ \ {m}])
    BY <1>2 DEF Unsubscribe
  <2>3. [at[w] EXCEPT !.todo = @ \ {m}] \in Callbacks
    BY <2>1 DEF Callbacks
  <2>4. at' \in [Worker -> Callbacks]
    BY <2>2, <2>3, GoesType
  <2>5. book_list' \in SUBSET (Mod \X Fd)
    BY <2>2 DEF TypeOK
  <2> QED  BY <1>2, <2>4, <2>5 DEF Unsubscribe, TypeOK
<1>3. CASE Closed(w)
  <2>1. at[w].fd \in Fd
    BY <1>3, CallbackShape DEF Closed
  <2>2. at' \in [Worker -> Callbacks]
    BY <1>0, <1>3, GoesType DEF Closed
  <2> QED  BY <1>3, <2>1, <2>2 DEF Closed, TypeOK
<1>4. CASE PushOne(w)
  <2>1. at[w] \in [op : {"push"}, todo : SUBSET (Fd \X Mod)]
    BY <1>4, CallbackShape DEF PushOne
  <2>2. PICK p \in at[w].todo :
          /\ Tell(p[1], p[2])
          /\ Goes(w, [at[w] EXCEPT !.todo = @ \ {p}])
    BY <1>4 DEF PushOne
  <2>3. p[1] \in Fd /\ p[2] \in Mod
    BY <2>1
  <2>4. [at[w] EXCEPT !.todo = @ \ {p}] \in Callbacks
    BY <2>1 DEF Callbacks
  <2>5. at' \in [Worker -> Callbacks]
    BY <2>2, <2>4, GoesType
  <2>6. told' \in [Fd -> [Mod -> SUBSET Host]] /\ silent' \in SUBSET (Fd \X Mod)
    BY <2>2, <2>3, TellType
  <2> QED  BY <1>4, <2>5, <2>6 DEF PushOne, TypeOK
<1>5. CASE Pushed(w)
  <2>1. at' \in [Worker -> Callbacks]
    BY <1>0, <1>5, GoesType DEF Pushed
  <2> QED  BY <1>5, <2>1 DEF Pushed, TypeOK
<1> QED  BY <1>1, <1>2, <1>3, <1>4, <1>5 DEF InCallback

LEMMA MakePublishMapType ==
  ASSUME TypeOK, NEW w \in Worker, MakePublishMap(w)
  PROVE  TypeOK'
<1> DEFINE mine == {fd \in Fd : loop_of[fd] = w}
           c == [op |-> "push", todo |-> {p \in mine \X Mod : p[2] \in push_list[p[1]]}]
<1>1. c \in Callbacks
  BY DEF Callbacks
<1> HIDE DEF c
<1>2. Goes(w, c) /\ push_list' = [fd \in Fd |-> IF fd \in mine THEN {} ELSE push_list[fd]]
  BY DEF MakePublishMap, c
<1>3. at' \in [Worker -> Callbacks]
  BY <1>1, <1>2, GoesType
<1>4. push_list' \in [Fd -> SUBSET Mod]
  BY <1>2 DEF TypeOK
<1>5. tasks' \in [Worker -> Nat]
  BY DEF MakePublishMap, TypeOK
<1> QED
  BY <1>3, <1>4, <1>5 DEF MakePublishMap, TypeOK, dbVars, connVars, routerVars

LEMMA ConnectionType ==
  ASSUME TypeOK, NEW w \in Worker, NEW fd \in Fd,
         CreateSubscribe(w, fd) \/ CloseConn(w, fd) \/ \E m \in Mod : Subscribe(w, fd, m)
  PROVE  TypeOK'
<1> USE DEF dbVars, connVars, routerVars
<1>1. CASE CreateSubscribe(w, fd)
  <2>1. NoHosts \in [Mod -> SUBSET Host]
    BY DEF NoHosts
  <2>2. told' \in [Fd -> [Mod -> SUBSET Host]] /\ silent' \in SUBSET (Fd \X Mod)
    BY <1>1, <2>1 DEF CreateSubscribe, TypeOK
  <2> QED  BY <1>1, <2>2 DEF CreateSubscribe, TypeOK
<1>2. CASE CloseConn(w, fd)
  <2>1. [op |-> "close", fd |-> fd, todo |-> mod_set[fd]] \in Callbacks
    BY DEF Callbacks, TypeOK
  <2>2. at' \in [Worker -> Callbacks]
    BY <1>2, <2>1, GoesType DEF CloseConn
  <2> QED  BY <1>2, <2>2 DEF CloseConn, TypeOK
<1>3. ASSUME NEW m \in Mod, Subscribe(w, fd, m) PROVE TypeOK'
  <2>1. [op |-> "answer", fd |-> fd, mod |-> m] \in Callbacks
    BY DEF Callbacks
  <2>2. at' \in [Worker -> Callbacks]
    BY <1>3, <2>1, GoesType DEF Subscribe
  <2>3. book_list' \in SUBSET (Mod \X Fd)
    BY <1>3 DEF Subscribe, TypeOK
  <2> QED  BY <1>3, <2>2, <2>3 DEF Subscribe, TypeOK
<1> QED  BY <1>1, <1>2, <1>3

LEMMA NextType == TypeOK /\ [Next]_vars => TypeOK'
<1> SUFFICES ASSUME TypeOK, [Next]_vars PROVE TypeOK'
  OBVIOUS
<1>1. CASE UNCHANGED vars
  BY <1>1 DEF vars, dbVars, connVars, routerVars, TypeOK
<1> QED
  BY <1>1, CommitType, PublishingType, CallbackType, MakePublishMapType, ConnectionType DEF Next
-----------------------------------------------------------------------------
(* The records of a subscription *)

Subscriptions == <<book_list, loop_of, mod_set>>

(* A step that closes nothing and leaves the records alone. *)
LEMMA RecordsKept ==
  ASSUME TypeOK, SubscriptionsAgree, ClosesItsOwn, UNCHANGED Subscriptions,
         \A v \in Worker : at'[v] = at[v] \/ (at[v].op # "close" /\ at'[v].op # "close")
  PROVE  SubscriptionsAgree' /\ ClosesItsOwn'
<1>1. ASSUME NEW fd \in Fd, NEW m \in Mod, loop_of[fd] # NoWorker
      PROVE  Unsubscribed(fd, m)' = Unsubscribed(fd, m)
  <2>1. loop_of[fd] \in Worker
    BY <1>1 DEF TypeOK
  <2> QED  BY <2>1 DEF Unsubscribed, Subscriptions
<1>2. SubscriptionsAgree'
  BY <1>1 DEF SubscriptionsAgree, Subscriptions
<1>3. ClosesItsOwn'
  BY DEF ClosesItsOwn, Subscriptions
<1> QED  BY <1>2, <1>3

(* A new connection has nothing: its number is in no list. *)
LEMMA CreateAgrees ==
  ASSUME TypeOK, SubscriptionsAgree, ClosesItsOwn,
         NEW w \in Worker, NEW fd \in Fd, CreateSubscribe(w, fd)
  PROVE  SubscriptionsAgree' /\ ClosesItsOwn'
<1>1. /\ at' = at /\ book_list' = book_list
      /\ loop_of[fd] = NoWorker /\ at[w] = Idle
      /\ loop_of' = [loop_of EXCEPT ![fd] = w]
      /\ mod_set' = [mod_set EXCEPT ![fd] = {}]
  BY DEF CreateSubscribe
<1>2. ASSUME NEW f \in Fd, NEW m \in Mod
      PROVE  <<m, f>> \in book_list' <=>
               loop_of'[f] # NoWorker /\ m \in mod_set'[f] /\ ~Unsubscribed(f, m)'
  <2>1. CASE f = fd
    BY <1>1, <2>1 DEF SubscriptionsAgree, TypeOK
  <2>2. CASE f # fd
    BY <1>1, <2>2 DEF SubscriptionsAgree, TypeOK, Unsubscribed
  <2> QED  BY <2>1, <2>2
<1>3. ClosesItsOwn'
  <2>1. ASSUME NEW v \in Worker, at[v].op = "close"
        PROVE  loop_of'[at[v].fd] = v /\ at[v].todo \subseteq mod_set'[at[v].fd]
    <3>1. loop_of[at[v].fd] = v /\ at[v].todo \subseteq mod_set[at[v].fd]
      BY <2>1 DEF ClosesItsOwn
    <3>2. at[v].fd # fd /\ at[v].fd \in Fd
      BY <1>1, <2>1, <3>1, PublishAssumption, CallbackShape
    <3> QED  BY <1>1, <3>1, <3>2 DEF TypeOK
  <2> QED  BY <1>1, <2>1 DEF ClosesItsOwn
<1> QED  BY <1>2, <1>3 DEF SubscriptionsAgree

LEMMA SubscribeAgrees ==
  ASSUME TypeOK, SubscriptionsAgree, ClosesItsOwn,
         NEW w \in Worker, NEW fd \in Fd, NEW m \in Mod, Subscribe(w, fd, m)
  PROVE  SubscriptionsAgree' /\ ClosesItsOwn'
<1>1. /\ loop_of' = loop_of /\ loop_of[fd] = w
      /\ mod_set' = [mod_set EXCEPT ![fd] = @ \cup {m}]
      /\ book_list' = IF m \in mod_set[fd] THEN book_list ELSE book_list \cup {<<m, fd>>}
      /\ at[w].op = "idle" /\ at' = [at EXCEPT ![w] = [op |-> "answer", fd |-> fd, mod |-> m]]
  BY DEF Subscribe, Goes, Idle
<1>2. \A v \in Worker : at'[v] = at[v] \/ (at[v].op # "close" /\ at'[v].op # "close")
  BY <1>1 DEF TypeOK
<1>3. ASSUME NEW f \in Fd, NEW n \in Mod, loop_of[f] # NoWorker
      PROVE  Unsubscribed(f, n)' = Unsubscribed(f, n)
  <2>1. loop_of[f] \in Worker
    BY <1>3 DEF TypeOK
  <2> QED  BY <1>1, <1>2, <2>1 DEF Unsubscribed
<1>4. ~Unsubscribed(fd, m)
  BY <1>1 DEF Unsubscribed
<1>5. loop_of[fd] # NoWorker
  BY <1>1, PublishAssumption
<1>6. SubscriptionsAgree'
  <2>1. ASSUME NEW f \in Fd, NEW n \in Mod
        PROVE  <<n, f>> \in book_list' <=>
                 loop_of'[f] # NoWorker /\ n \in mod_set'[f] /\ ~Unsubscribed(f, n)'
    <3>1. <<n, f>> \in book_list <=>
            loop_of[f] # NoWorker /\ n \in mod_set[f] /\ ~Unsubscribed(f, n)
      BY DEF SubscriptionsAgree
    <3>2. CASE f = fd /\ n = m
      BY <1>1, <1>3, <1>4, <1>5, <3>1, <3>2 DEF TypeOK
    <3>3. CASE ~(f = fd /\ n = m)
      <4>1. <<n, f>> \in book_list' <=> <<n, f>> \in book_list
        BY <1>1, <3>3
      <4>2. n \in mod_set'[f] <=> n \in mod_set[f]
        BY <1>1, <3>3 DEF TypeOK
      <4> QED  BY <1>1, <1>3, <3>1, <4>1, <4>2
    <3> QED  BY <3>2, <3>3
  <2> QED  BY <2>1 DEF SubscriptionsAgree
<1>7. ClosesItsOwn'
  <2>1. ASSUME NEW v \in Worker, at'[v].op = "close"
        PROVE  loop_of'[at'[v].fd] = v /\ at'[v].todo \subseteq mod_set'[at'[v].fd]
    <3>1. at'[v] = at[v]
      BY <1>2, <2>1
    <3>2. loop_of[at[v].fd] = v /\ at[v].todo \subseteq mod_set[at[v].fd] /\ at[v].fd \in Fd
      BY <2>1, <3>1, CallbackShape DEF ClosesItsOwn
    <3> QED  BY <1>1, <3>1, <3>2 DEF TypeOK
  <2> QED  BY <2>1 DEF ClosesItsOwn
<1> QED  BY <1>6, <1>7

(* A close begins with every subscription of the connection to cancel. *)
LEMMA CloseAgrees ==
  ASSUME TypeOK, SubscriptionsAgree, ClosesItsOwn,
         NEW w \in Worker, NEW fd \in Fd, CloseConn(w, fd)
  PROVE  SubscriptionsAgree' /\ ClosesItsOwn'
<1> DEFINE c == [op |-> "close", fd |-> fd, todo |-> mod_set[fd]]
<1>1. /\ UNCHANGED Subscriptions /\ loop_of[fd] = w
      /\ at[w].op = "idle" /\ at' = [at EXCEPT ![w] = c]
  BY DEF CloseConn, Goes, Idle, connVars, Subscriptions
<1>2. at'[w] = c /\ \A v \in Worker \ {w} : at'[v] = at[v]
  BY <1>1 DEF TypeOK
<1>3. ASSUME NEW f \in Fd, NEW m \in Mod, loop_of[f] # NoWorker, m \in mod_set[f]
      PROVE  Unsubscribed(f, m)' = Unsubscribed(f, m)
  <2>1. loop_of[f] \in Worker
    BY <1>3 DEF TypeOK
  <2>2. CASE loop_of[f] = w
    BY <1>1, <1>2, <1>3, <2>2 DEF Unsubscribed, Subscriptions
  <2>3. CASE loop_of[f] # w
    BY <1>1, <1>2, <2>1, <2>3 DEF Unsubscribed, Subscriptions
  <2> QED  BY <2>2, <2>3
<1>4. SubscriptionsAgree'
  BY <1>1, <1>3 DEF SubscriptionsAgree, Subscriptions
<1>5. ClosesItsOwn'
  BY <1>1, <1>2 DEF ClosesItsOwn, Subscriptions
<1> QED  BY <1>4, <1>5

LEMMA UnsubscribeAgrees ==
  ASSUME TypeOK, SubscriptionsAgree, ClosesItsOwn, NEW w \in Worker, Unsubscribe(w)
  PROVE  SubscriptionsAgree' /\ ClosesItsOwn'
<1> DEFINE fd == at[w].fd
<1>1. at[w] \in [op : {"close"}, fd : Fd, todo : SUBSET Mod]
  BY CallbackShape DEF Unsubscribe
<1>2. PICK m \in at[w].todo :
        /\ book_list' = book_list \ {<<m, fd>>}
        /\ at' = [at EXCEPT ![w] = [at[w] EXCEPT !.todo = @ \ {m}]]
  BY DEF Unsubscribe, Goes
<1>3. loop_of' = loop_of /\ mod_set' = mod_set
  BY DEF Unsubscribe, connVars
<1>4. loop_of[fd] = w /\ at[w].todo \subseteq mod_set[fd] /\ fd \in Fd
  BY <1>1 DEF ClosesItsOwn
<1>5. /\ at'[w].op = "close" /\ at'[w].fd = fd /\ at'[w].todo = at[w].todo \ {m}
      /\ \A v \in Worker \ {w} : at'[v] = at[v]
  BY <1>1, <1>2 DEF TypeOK
<1>6. SubscriptionsAgree'
  <2>1. ASSUME NEW f \in Fd, NEW n \in Mod
        PROVE  <<n, f>> \in book_list' <=>
                 loop_of'[f] # NoWorker /\ n \in mod_set'[f] /\ ~Unsubscribed(f, n)'
    <3>1. <<n, f>> \in book_list <=>
            loop_of[f] # NoWorker /\ n \in mod_set[f] /\ ~Unsubscribed(f, n)
      BY DEF SubscriptionsAgree
    <3>2. CASE f = fd /\ n = m
      <4>1. <<n, f>> \notin book_list'
        BY <1>2, <3>2
      <4>2. Unsubscribed(f, n)'
        BY <1>3, <1>4, <1>5, <3>2 DEF Unsubscribed
      <4> QED  BY <4>1, <4>2
    <3>3. CASE ~(f = fd /\ n = m)
      <4>1. <<n, f>> \in book_list' <=> <<n, f>> \in book_list
        BY <1>2, <3>3
      <4>2. CASE loop_of[f] = NoWorker
        BY <1>3, <3>1, <4>1, <4>2
      <4>3. CASE loop_of[f] = w
        <5>1. Unsubscribed(f, n)' = Unsubscribed(f, n)
          BY <1>1, <1>3, <1>4, <1>5, <3>3, <4>3 DEF Unsubscribed
        <5> QED  BY <1>3, <3>1, <4>1, <5>1
      <4>4. CASE loop_of[f] \in Worker \ {w}
        <5>1. Unsubscribed(f, n)' = Unsubscribed(f, n)
          BY <1>3, <1>5, <4>4 DEF Unsubscribed
        <5> QED  BY <1>3, <3>1, <4>1, <5>1
      <4> QED  BY <4>2, <4>3, <4>4 DEF TypeOK
    <3> QED  BY <3>2, <3>3
  <2> QED  BY <2>1 DEF SubscriptionsAgree
<1>7. ClosesItsOwn'
  <2>1. ASSUME NEW v \in Worker, at'[v].op = "close"
        PROVE  loop_of'[at'[v].fd] = v /\ at'[v].todo \subseteq mod_set'[at'[v].fd]
    <3>1. CASE v = w
      BY <1>3, <1>4, <1>5, <3>1
    <3>2. CASE v # w
      <4>1. at'[v] = at[v]
        BY <1>5, <3>2
      <4> QED  BY <1>3, <2>1, <4>1 DEF ClosesItsOwn
    <3> QED  BY <3>1, <3>2
  <2> QED  BY <2>1 DEF ClosesItsOwn
<1> QED  BY <1>6, <1>7

(* When a connection leaves its loop, all it subscribed to is cancelled. *)
LEMMA ClosedAgrees ==
  ASSUME TypeOK, SubscriptionsAgree, ClosesItsOwn, NEW w \in Worker, Closed(w)
  PROVE  SubscriptionsAgree' /\ ClosesItsOwn'
<1> DEFINE fd == at[w].fd
<1>1. /\ at[w].op = "close" /\ at[w].todo = {} /\ book_list' = book_list
      /\ mod_set' = [mod_set EXCEPT ![fd] = {}]
      /\ loop_of' = [loop_of EXCEPT ![fd] = NoWorker]
      /\ at' = [at EXCEPT ![w] = Idle]
  BY DEF Closed, Goes
<1>2. loop_of[fd] = w /\ fd \in Fd
  BY <1>1, CallbackShape DEF ClosesItsOwn
<1>3. at'[w].op # "close" /\ \A v \in Worker \ {w} : at'[v] = at[v]
  BY <1>1 DEF TypeOK, Idle
<1>4. SubscriptionsAgree'
  <2>1. ASSUME NEW f \in Fd, NEW n \in Mod
        PROVE  <<n, f>> \in book_list' <=>
                 loop_of'[f] # NoWorker /\ n \in mod_set'[f] /\ ~Unsubscribed(f, n)'
    <3>1. <<n, f>> \in book_list <=>
            loop_of[f] # NoWorker /\ n \in mod_set[f] /\ ~Unsubscribed(f, n)
      BY DEF SubscriptionsAgree
    <3>2. CASE f = fd
      <4>1. Unsubscribed(f, n)
        BY <1>1, <1>2, <3>2 DEF Unsubscribed
      <4>2. loop_of'[f] = NoWorker
        BY <1>1, <1>2, <3>2 DEF TypeOK
      <4> QED  BY <1>1, <3>1, <4>1, <4>2
    <3>3. CASE f # fd
      <4>1. loop_of'[f] = loop_of[f] /\ mod_set'[f] = mod_set[f]
        BY <1>1, <3>3 DEF TypeOK
      <4>2. CASE loop_of[f] = NoWorker
        BY <1>1, <3>1, <4>1, <4>2
      <4>3. CASE loop_of[f] = w
        <5>1. ~Unsubscribed(f, n)
          BY <3>3, <4>3 DEF Unsubscribed
        <5>2. ~Unsubscribed(f, n)'
          BY <1>3, <4>1, <4>3 DEF Unsubscribed
        <5> QED  BY <1>1, <3>1, <4>1, <5>1, <5>2
      <4>4. CASE loop_of[f] \in Worker \ {w}
        <5>1. Unsubscribed(f, n)' = Unsubscribed(f, n)
          BY <1>3, <4>1, <4>4 DEF Unsubscribed
        <5> QED  BY <1>1, <3>1, <4>1, <5>1
      <4> QED  BY <4>2, <4>3, <4>4 DEF TypeOK
    <3> QED  BY <3>2, <3>3
  <2> QED  BY <2>1 DEF SubscriptionsAgree
<1>5. ClosesItsOwn'
  <2>1. ASSUME NEW v \in Worker, at'[v].op = "close"
        PROVE  loop_of'[at'[v].fd] = v /\ at'[v].todo \subseteq mod_set'[at'[v].fd]
    <3>1. v # w /\ at'[v] = at[v]
      BY <1>3, <2>1
    <3>2. loop_of[at[v].fd] = v /\ at[v].todo \subseteq mod_set[at[v].fd] /\ at[v].fd \in Fd
      BY <2>1, <3>1, CallbackShape DEF ClosesItsOwn
    <3>3. at[v].fd # fd
      BY <1>2, <3>1, <3>2
    <3> QED  BY <1>1, <3>1, <3>2, <3>3 DEF TypeOK
  <2> QED  BY <2>1 DEF ClosesItsOwn
<1> QED  BY <1>4, <1>5

LEMMA NextAgrees ==
  ASSUME Inv, [Next]_vars
  PROVE  SubscriptionsAgree' /\ ClosesItsOwn'
<1> USE DEF Inv
<1>1. CASE UNCHANGED vars \/ ChangetPublish \/ \E m \in Mod, new \in SUBSET Host : Commit(m, new)
  <2>1. UNCHANGED <<Subscriptions, at>>
    BY <1>1 DEF vars, ChangetPublish, CheckVersion, LoadRouteData, Swap, LoadChangeMod, Publish,
                AddAsyncTask, DropSynchronousMod, Commit, connVars, Subscriptions
  <2> QED  BY <2>1, RecordsKept
<1>2. ASSUME NEW w \in Worker, Answer(w) \/ PushOne(w) \/ Pushed(w) \/ MakePublishMap(w)
      PROVE  SubscriptionsAgree' /\ ClosesItsOwn'
  <2>1. UNCHANGED Subscriptions
    BY <1>2 DEF Answer, PushOne, Pushed, MakePublishMap, connVars, Subscriptions
  <2>2. \A v \in Worker \ {w} : at'[v] = at[v]
    BY <1>2 DEF Answer, PushOne, Pushed, MakePublishMap, Goes, TypeOK
  <2>3. at[w].op # "close"
    BY <1>2 DEF Answer, PushOne, Pushed, MakePublishMap, Idle
  <2>4. at'[w].op # "close"
    <3>1. CASE Answer(w) \/ Pushed(w)
      BY <3>1 DEF Answer, Pushed, Goes, Idle, TypeOK
    <3>2. CASE MakePublishMap(w)
      BY <3>2 DEF MakePublishMap, Goes, TypeOK
    <3>3. CASE PushOne(w)
      <4>1. at[w] \in [op : {"push"}, todo : SUBSET (Fd \X Mod)]
        BY <3>3, CallbackShape DEF PushOne
      <4>2. PICK p \in at[w].todo : at' = [at EXCEPT ![w] = [at[w] EXCEPT !.todo = @ \ {p}]]
        BY <3>3 DEF PushOne, Goes
      <4> QED  BY <4>1, <4>2 DEF TypeOK
    <3> QED  BY <1>2, <3>1, <3>2, <3>3
  <2> QED  BY <2>1, <2>2, <2>3, <2>4, RecordsKept
<1> QED
  BY <1>1, <1>2, CreateAgrees, SubscribeAgrees, CloseAgrees, UnsubscribeAgrees, ClosedAgrees
     DEF Next, InCallback
-----------------------------------------------------------------------------
LEMMA Inductive == Spec => []Inv
<1>1. Inv /\ [Next]_vars => Inv'
  BY NextType, NextAgrees DEF Inv
<1> QED  BY <1>1, InitInv, PTL DEF Spec

(* Every reachable state of the dns server has its type. *)
THEOREM TypeCorrect == Spec => []TypeOK
BY Inductive, PTL DEF Inv

(* What a connection remembers it has subscribed to is what changes are    *)
(* published by, so that every subscription is cancelled when its          *)
(* connection closes, and none serves a later connection of the same       *)
(* number (subscribe.cpp:71-93, dns_service.cpp:24-62).                    *)
THEOREM SubscriptionsAlwaysAgree == Spec => []SubscriptionsAgree
BY Inductive, PTL DEF Inv
-----------------------------------------------------------------------------
(* What a subscriber has not been told *)

(* The three places what is to be told can be: the callback of a worker,   *)
(* the list that a worker is going to look at, and the publishing thread   *)
(* or the rows it is going to read.                                        *)
InCallbackOf(w, fd, m) ==
  \/ at[w].op = "answer" /\ at[w].fd = fd /\ at[w].mod = m
  \/ at[w].op = "push" /\ <<fd, m>> \in at[w].todo

InPushList(fd, m) == m \in push_list[fd] /\ (tasks[loop_of[fd]] > 0 \/ pc = "notify")

ToPublish(m) ==
  \/ m \in mods /\ pc = "publish"
  \/ m \in Removed(temp_map, data_map) /\ pc = "collect"
  \/ \E row \in route_change :
       /\ row.mod = m
       /\ row.version > version \/ pc \in {"load", "swap", "collect"}

Behind(fd, m) == <<m, fd>> \in book_list /\ told[fd][m] # data_map[m] /\ <<fd, m>> \notin silent

(* Between the rounds of the publishing thread no row is one that it has   *)
(* passed over: a forced reload, which publishes nothing, finds only rows  *)
(* that the next round is going to read.                                   *)
RowsAhead ==
  /\ version <= db_version
  /\ faults = 0 =>
       /\ pc # "ended"
       /\ pc \in {"sleep", "reload", "reswap"} => \A row \in route_change : row.version > version

Informed ==
  faults = 0 =>
    \A fd \in Fd, m \in Mod :
      Behind(fd, m) => InCallbackOf(loop_of[fd], fd, m) \/ InPushList(fd, m) \/ ToPublish(m)

LEMMA InformedMeans == Informed => SubscriberInformed
BY DEF Informed, SubscriberInformed, Behind, OnItsWay, InCallbackOf, InPushList, ToPublish

(* A fault is not undone. *)
LEMMA FaultsStay ==
  ASSUME TypeOK, [Next]_vars, faults' = 0
  PROVE  faults = 0 /\ ~Fault
<1>1. faults \in Nat
  BY PublishAssumption DEF TypeOK
<1>2. Fault => faults' # 0
  BY <1>1 DEF Fault
<1>3. CASE UNCHANGED faults
  BY <1>1, <1>2, <1>3 DEF Fault
<1>4. CASE Fault
  BY <1>2, <1>4
<1>5. Fault \/ UNCHANGED faults
  <2>1. CASE UNCHANGED vars
    BY <2>1 DEF vars
  <2>2. CASE ChangetPublish
    BY <2>2 DEF ChangetPublish, CheckVersion, LoadRouteData, Swap, LoadChangeMod, Publish,
                AddAsyncTask, DropSynchronousMod
  <2>3. ASSUME NEW m \in Mod, NEW new \in SUBSET Host, Commit(m, new) PROVE Fault \/ UNCHANGED faults
    BY <2>3 DEF Commit
  <2>4. ASSUME NEW w \in Worker, InCallback(w) \/ MakePublishMap(w) PROVE UNCHANGED faults
    BY <2>4 DEF InCallback, Answer, Unsubscribe, Closed, PushOne, Pushed, MakePublishMap
  <2>5. ASSUME NEW w \in Worker, NEW fd \in Fd,
               CreateSubscribe(w, fd) \/ CloseConn(w, fd) \/ \E m \in Mod : Subscribe(w, fd, m)
        PROVE  UNCHANGED faults
    BY <2>5 DEF CreateSubscribe, CloseConn, Subscribe
  <2> QED  BY <2>1, <2>2, <2>3, <2>4, <2>5 DEF Next
<1> QED  BY <1>3, <1>4, <1>5

(* What the workers do changes nothing of the versions. *)
WorkerStep ==
  \E w \in Worker : \/ InCallback(w) \/ MakePublishMap(w)
                    \/ \E fd \in Fd : \/ CreateSubscribe(w, fd) \/ CloseConn(w, fd)
                                      \/ \E m \in Mod : Subscribe(w, fd, m)

LEMMA WorkersLeave ==
  WorkerStep => UNCHANGED <<dbVars, faults, routerVars, pc, mods>>
BY DEF WorkerStep, InCallback, Answer, Unsubscribe, Closed, PushOne, Pushed, MakePublishMap,
       CreateSubscribe, CloseConn, Subscribe

LEMMA NextRowsAhead ==
  ASSUME TypeOK, RowsAhead, [Next]_vars
  PROVE  RowsAhead'
<1>1. /\ version \in Nat /\ db_version \in Nat /\ version <= db_version
      /\ \A row \in route_change : row.version \in Nat
  BY DEF TypeOK, RowsAhead
<1>2. faults' = 0 => faults = 0 /\ ~Fault
  BY FaultsStay
<1>3. CASE UNCHANGED vars \/ WorkerStep
  <2>1. UNCHANGED <<dbVars, faults, routerVars, pc>>
    BY <1>3, WorkersLeave DEF vars
  <2> QED  BY <2>1 DEF RowsAhead, dbVars, routerVars
<1>4. ASSUME NEW m \in Mod, NEW new \in SUBSET Host, Commit(m, new) PROVE RowsAhead'
  <2>1. UNCHANGED <<version, pc>> /\ db_version' \in {db_version, db_version + 1}
    BY <1>4 DEF Commit, routerVars
  <2>2. version' <= db_version'
    BY <1>1, <2>1
  <2>3. ASSUME faults' = 0 PROVE db_version' = db_version + 1
    BY <1>2, <1>4, <2>3 DEF Commit
  <2>4. \A row \in route_change' : row \in route_change \/ row.version = db_version'
    BY <1>4 DEF Commit
  <2>5. ASSUME faults' = 0, pc \in {"sleep", "reload", "reswap"}, NEW row \in route_change'
        PROVE  row.version > version
    <3>1. CASE row \in route_change
      BY <1>2, <2>5, <3>1 DEF RowsAhead
    <3>2. CASE row.version = db_version'
      BY <1>1, <2>3, <2>5, <3>2
    <3> QED  BY <2>4, <3>1, <3>2
  <2> QED  BY <1>2, <2>1, <2>2, <2>5 DEF RowsAhead
<1>5. CASE CheckVersion
  <2>1. UNCHANGED dbVars /\ version' \in {version, db_version}
    BY <1>5 DEF CheckVersion
  <2>2. faults' = 0 => /\ pc = "sleep" /\ pc' \in {"load", "reload", "sleep"}
                       /\ pc' # "load" => version' = version
    BY <1>2, <1>5 DEF CheckVersion
  <2> QED  BY <1>1, <1>2, <2>1, <2>2 DEF RowsAhead, dbVars
<1>6. CASE LoadRouteData \/ Swap
  <2>1. UNCHANGED <<dbVars, version>>
    BY <1>6 DEF LoadRouteData, Swap
  <2>2. /\ pc' \in {"swap", "reswap", "collect", "sleep"}
        /\ pc' \in {"reswap", "sleep"} => pc \in {"reload", "reswap"}
    BY <1>6 DEF LoadRouteData, Swap
  <2> QED  BY <1>2, <2>1, <2>2 DEF RowsAhead, dbVars
<1>7. CASE LoadChangeMod \/ Publish \/ AddAsyncTask
  <2>1. UNCHANGED <<dbVars, version>> /\ pc' \in {"publish", "notify", "drop"}
    BY <1>7 DEF LoadChangeMod, Publish, AddAsyncTask, routerVars
  <2> QED  BY <2>1 DEF RowsAhead, dbVars
<1>8. CASE DropSynchronousMod
  <2>1. UNCHANGED <<db_version, version>> /\ pc' = "sleep"
    BY <1>8 DEF DropSynchronousMod, routerVars
  <2>2. faults' = 0 => route_change' = {r \in route_change : r.version > version}
    BY <1>2, <1>8 DEF DropSynchronousMod
  <2> QED  BY <2>1, <2>2 DEF RowsAhead
<1> QED
  BY <1>3, <1>4, <1>5, <1>6, <1>7, <1>8 DEF Next, ChangetPublish, WorkerStep

(* Through a commit and through each step of the publishing thread but     *)
(* Swap, no subscriber falls behind, and who is behind stays informed.     *)
LEMMA PublishingInforms ==
  ASSUME Inv, RowsAhead, Informed, faults = 0, ~Fault,
         \/ CheckVersion \/ LoadRouteData \/ LoadChangeMod \/ Publish \/ AddAsyncTask
         \/ DropSynchronousMod \/ \E m \in Mod, new \in SUBSET Host : Commit(m, new)
  PROVE  Informed'
<1> SUFFICES ASSUME NEW fd \in Fd, NEW m \in Mod, Behind(fd, m)'
             PROVE  (InCallbackOf(loop_of[fd], fd, m) \/ InPushList(fd, m) \/ ToPublish(m))'
  BY DEF Informed
<1>1. UNCHANGED <<at, loop_of, book_list, told, data_map, silent>>
  BY DEF CheckVersion, LoadRouteData, LoadChangeMod, Publish, AddAsyncTask, DropSynchronousMod,
         Commit, connVars, routerVars
<1>2. InCallbackOf(loop_of[fd], fd, m) \/ InPushList(fd, m) \/ ToPublish(m)
  BY <1>1 DEF Informed, Behind
<1>3. InCallbackOf(loop_of[fd], fd, m)' = InCallbackOf(loop_of[fd], fd, m)
  BY <1>1 DEF InCallbackOf
<1>4. <<m, fd>> \in book_list /\ loop_of[fd] \in Worker
  BY <1>1 DEF Behind, Inv, TypeOK, SubscriptionsAgree
<1>5. /\ tasks \in [Worker -> Nat] /\ push_list \in [Fd -> SUBSET Mod] /\ mods \in SUBSET Mod
      /\ version \in Nat /\ db_version \in Nat /\ version <= db_version
      /\ \A row \in route_change : row.version \in Nat
  BY DEF Inv, TypeOK, RowsAhead
<1>6. ASSUME NEW n \in Mod, NEW new \in SUBSET Host, Commit(n, new)
      PROVE  (InPushList(fd, m) \/ ToPublish(m)) => (InPushList(fd, m) \/ ToPublish(m))'
  <2>1. UNCHANGED <<version, data_map, temp_map, pc, mods, push_list, tasks, loop_of>>
        /\ route_change \subseteq route_change'
    BY <1>6 DEF Commit, routerVars, connVars
  <2> QED  BY <2>1 DEF InPushList, ToPublish
<1>7. CASE CheckVersion
  <2>1. UNCHANGED <<route_change, push_list, tasks>> /\ pc = "sleep"
        /\ (version' = version \/ pc' = "load")
    BY <1>7 DEF CheckVersion, dbVars
  <2>2. InPushList(fd, m) => InPushList(fd, m)'
    BY <1>1, <2>1 DEF InPushList
  <2>3. ToPublish(m) => ToPublish(m)'
    BY <2>1 DEF ToPublish
  <2> QED  BY <1>2, <1>3, <2>2, <2>3
<1>8. CASE LoadRouteData
  <2>1. /\ UNCHANGED <<route_change, version, push_list, tasks>> /\ pc \in {"load", "reload"}
        /\ pc' = IF pc = "load" THEN "swap" ELSE "reswap"
    BY <1>8 DEF LoadRouteData, dbVars
  <2>2. InPushList(fd, m) => InPushList(fd, m)'
    BY <1>1, <2>1 DEF InPushList
  <2>3. ToPublish(m) => ToPublish(m)'
    BY <2>1 DEF ToPublish
  <2> QED  BY <1>2, <1>3, <2>2, <2>3
<1>9. CASE LoadChangeMod
  <2>1. /\ UNCHANGED <<route_change, version, temp_map, data_map, push_list, tasks>>
        /\ pc = "collect" /\ pc' = "publish"
        /\ mods' = {row.mod : row \in {r \in route_change : r.version <= version}}
                      \cup Removed(temp_map, data_map)
    BY <1>9 DEF LoadChangeMod, dbVars, routerVars
  <2>2. InPushList(fd, m) => InPushList(fd, m)'
    BY <1>1, <2>1 DEF InPushList
  <2>3. ToPublish(m) => ToPublish(m)'
    <3>1. ASSUME NEW row \in route_change, row.mod = m, ~(row.version > version)
          PROVE  m \in mods'
      BY <1>5, <2>1, <3>1
    <3> QED  BY <2>1, <3>1 DEF ToPublish
  <2> QED  BY <1>2, <1>3, <2>2, <2>3
<1>10. CASE Publish
  <2>1. /\ UNCHANGED <<route_change, version, tasks>> /\ pc = "publish" /\ pc' = "notify"
        /\ push_list' = [f \in Fd |-> push_list[f] \cup {n \in mods : <<n, f>> \in book_list}]
    BY <1>10 DEF Publish, dbVars, routerVars
  <2>2. InPushList(fd, m) => InPushList(fd, m)'
    BY <1>1, <2>1 DEF InPushList
  <2>3. ToPublish(m) => ToPublish(m)' \/ InPushList(fd, m)'
    BY <1>1, <1>4, <2>1 DEF ToPublish, InPushList
  <2> QED  BY <1>2, <1>3, <2>2, <2>3
<1>11. CASE AddAsyncTask
  <2>1. /\ UNCHANGED <<route_change, version, push_list>> /\ pc = "notify" /\ pc' = "drop"
        /\ tasks' = [w \in Worker |-> tasks[w] + 1]
    BY <1>11 DEF AddAsyncTask, dbVars, routerVars
  <2>2. InPushList(fd, m) => InPushList(fd, m)'
    BY <1>1, <1>4, <1>5, <2>1 DEF InPushList
  <2>3. ToPublish(m) => ToPublish(m)'
    BY <2>1 DEF ToPublish
  <2> QED  BY <1>2, <1>3, <2>2, <2>3
<1>12. CASE DropSynchronousMod
  <2>1. /\ UNCHANGED <<version, push_list, tasks>> /\ pc = "drop" /\ pc' = "sleep"
        /\ \A row \in route_change : row.version > version => row \in route_change'
    BY <1>12 DEF DropSynchronousMod, routerVars
  <2>2. InPushList(fd, m) => InPushList(fd, m)'
    BY <1>1, <2>1 DEF InPushList
  <2>3. ToPublish(m) => ToPublish(m)'
    BY <2>1 DEF ToPublish
  <2> QED  BY <1>2, <1>3, <2>2, <2>3
<1> QED  BY <1>2, <1>3, <1>6, <1>7, <1>8, <1>9, <1>10, <1>11, <1>12

(* At a swap subscribers fall behind: of each of these changes there is a  *)
(* row, or the thread is about to find a host gone.                        *)
LEMMA SwapInforms ==
  ASSUME Inv, RowsAhead, Informed, faults = 0, Swap
  PROVE  Informed'
<1> SUFFICES ASSUME NEW fd \in Fd, NEW m \in Mod, Behind(fd, m)'
             PROVE  (InCallbackOf(loop_of[fd], fd, m) \/ InPushList(fd, m) \/ ToPublish(m))'
  BY DEF Informed
<1>1. /\ UNCHANGED <<at, loop_of, book_list, told, push_list, tasks, route_change, version>>
      /\ pc \in {"swap", "reswap"} /\ pc' = IF pc = "swap" THEN "collect" ELSE "sleep"
      /\ data_map' = temp_map /\ temp_map' = data_map
      /\ silent \subseteq silent'
  BY DEF Swap, dbVars, connVars
<1>2. CASE told[fd][m] # data_map[m]
  <2>1. InCallbackOf(loop_of[fd], fd, m) \/ InPushList(fd, m) \/ ToPublish(m)
    BY <1>1, <1>2 DEF Informed, Behind
  <2>2. /\ InCallbackOf(loop_of[fd], fd, m) => InCallbackOf(loop_of[fd], fd, m)'
        /\ InPushList(fd, m) => InPushList(fd, m)'
    BY <1>1 DEF InCallbackOf, InPushList
  <2>3. ToPublish(m) => ToPublish(m)'
    BY <1>1 DEF ToPublish
  <2> QED  BY <2>1, <2>2, <2>3
<1>3. CASE told[fd][m] = data_map[m]
  <2>1. data_map[m] # temp_map[m] /\ <<fd, m>> \notin silent'
    BY <1>1, <1>3 DEF Behind
  <2>2. Recorded(m) \/ (pc = "swap" /\ m \in Removed(data_map, temp_map))
    BY <2>1 DEF Swap
  <2>3. CASE pc = "swap"
    BY <1>1, <2>2, <2>3 DEF ToPublish, Recorded
  <2>4. CASE pc = "reswap"
    <3>1. PICK row \in route_change : row.mod = m
      BY <2>2, <2>4 DEF Recorded
    <3>2. row.version > version
      BY <2>4 DEF RowsAhead
    <3> QED  BY <1>1, <3>1, <3>2 DEF ToPublish
  <2> QED  BY <1>1, <2>3, <2>4
<1> QED  BY <1>2, <1>3

(* A worker that takes up a callback at a time it is in none. *)
LEMMA RequestInforms ==
  ASSUME Inv, Inv', RowsAhead, Informed, faults = 0, NEW w \in Worker, NEW fd \in Fd,
         CreateSubscribe(w, fd) \/ CloseConn(w, fd) \/ \E m \in Mod : Subscribe(w, fd, m)
  PROVE  Informed'
<1> SUFFICES ASSUME NEW f \in Fd, NEW n \in Mod, Behind(f, n)'
             PROVE  (InCallbackOf(loop_of[f], f, n) \/ InPushList(f, n) \/ ToPublish(n))'
  BY DEF Informed
<1>1. /\ UNCHANGED <<dbVars, routerVars, pc, mods, push_list, tasks>> /\ at[w].op = "idle"
      /\ \A v \in Worker \ {w} : at'[v] = at[v]
  BY DEF CreateSubscribe, CloseConn, Subscribe, Goes, Idle, Inv, TypeOK
<1>2. loop_of'[f] \in Worker
  BY DEF Behind, Inv, TypeOK, SubscriptionsAgree
<1>3. ToPublish(n)' = ToPublish(n)
  BY <1>1 DEF ToPublish, dbVars, routerVars
<1>4. CASE CreateSubscribe(w, fd)
  <2>1. /\ loop_of[fd] = NoWorker /\ UNCHANGED <<book_list, at>>
        /\ silent' = {p \in silent : p[1] # fd}
        /\ \A g \in Fd : g # fd => loop_of'[g] = loop_of[g] /\ told'[g] = told[g]
    BY <1>4 DEF CreateSubscribe, Inv, TypeOK
  <2>2. f # fd
    BY <2>1 DEF Behind, Inv, SubscriptionsAgree
  <2>3. Behind(f, n)
    BY <1>1, <2>1, <2>2 DEF Behind, routerVars
  <2>4. InCallbackOf(loop_of[f], f, n) \/ InPushList(f, n) \/ ToPublish(n)
    BY <2>3 DEF Informed
  <2> QED  BY <1>1, <1>3, <2>1, <2>2, <2>4 DEF InCallbackOf, InPushList
<1>5. CASE CloseConn(w, fd)
  <2>1. UNCHANGED <<book_list, loop_of, told, silent>>
    BY <1>5 DEF CloseConn, connVars
  <2>2. InCallbackOf(loop_of[f], f, n) \/ InPushList(f, n) \/ ToPublish(n)
    BY <1>1, <2>1 DEF Informed, Behind, routerVars
  <2>3. InCallbackOf(loop_of[f], f, n) => InCallbackOf(loop_of[f], f, n)'
    BY <1>1, <1>2, <2>1 DEF InCallbackOf
  <2> QED  BY <1>1, <1>3, <2>1, <2>2, <2>3 DEF InPushList
<1>6. ASSUME NEW m \in Mod, Subscribe(w, fd, m)
      PROVE  (InCallbackOf(loop_of[f], f, n) \/ InPushList(f, n) \/ ToPublish(n))'
  <2>1. /\ UNCHANGED <<loop_of, told, silent>> /\ loop_of[fd] = w
        /\ book_list' \subseteq book_list \cup {<<m, fd>>}
        /\ at'[w] = [op |-> "answer", fd |-> fd, mod |-> m]
    BY <1>6 DEF Subscribe, Goes, Inv, TypeOK
  <2>2. CASE f = fd /\ n = m
    BY <2>1, <2>2 DEF InCallbackOf
  <2>3. CASE <<n, f>> \in book_list
    <3>1. InCallbackOf(loop_of[f], f, n) \/ InPushList(f, n) \/ ToPublish(n)
      BY <1>1, <2>1, <2>3 DEF Informed, Behind, routerVars
    <3>2. InCallbackOf(loop_of[f], f, n) => InCallbackOf(loop_of[f], f, n)'
      BY <1>1, <1>2, <2>1 DEF InCallbackOf
    <3> QED  BY <1>1, <1>3, <2>1, <3>1, <3>2 DEF InPushList
  <2> QED  BY <2>1, <2>2, <2>3 DEF Behind
<1> QED  BY <1>4, <1>5, <1>6

(* Who has been told is not behind; the others have it as before. *)
LEMMA TellInforms ==
  ASSUME Inv, NEW fd \in Fd, NEW m \in Mod, Tell(fd, m), UNCHANGED <<book_list, data_map>>,
         NEW f \in Fd, NEW n \in Mod, Behind(f, n)'
  PROVE  Behind(f, n) /\ <<f, n>> # <<fd, m>>
<1>1. told \in [Fd -> [Mod -> SUBSET Host]]
  BY DEF Inv, TypeOK
<1>2. <<f, n>> # <<fd, m>>
  <2> SUFFICES ASSUME f = fd, n = m PROVE FALSE
    OBVIOUS
  <2>1. told'[fd][m] = data_map[m]
    BY <1>1 DEF Tell
  <2> QED  BY <2>1 DEF Behind
<1>3. told'[f][n] = told[f][n]
  BY <1>1, <1>2 DEF Tell
<1>4. <<f, n>> \notin silent
  BY <1>2 DEF Tell, Behind
<1> QED  BY <1>2, <1>3, <1>4 DEF Behind

LEMMA CallbackInforms ==
  ASSUME Inv, Inv', RowsAhead, Informed, faults = 0, NEW w \in Worker,
         InCallback(w) \/ MakePublishMap(w)
  PROVE  Informed'
<1> SUFFICES ASSUME NEW f \in Fd, NEW n \in Mod, Behind(f, n)'
             PROVE  (InCallbackOf(loop_of[f], f, n) \/ InPushList(f, n) \/ ToPublish(n))'
  BY DEF Informed
<1>1. /\ UNCHANGED <<dbVars, routerVars, pc, mods>>
      /\ \A v \in Worker \ {w} : at'[v] = at[v]
  BY DEF InCallback, Answer, Unsubscribe, Closed, PushOne, Pushed, MakePublishMap, Goes, Inv, TypeOK
<1>2. loop_of'[f] \in Worker
  BY DEF Behind, Inv, TypeOK, SubscriptionsAgree
<1>3. ToPublish(n)' = ToPublish(n)
  BY <1>1 DEF ToPublish, dbVars, routerVars
<1>4. at \in [Worker -> Callbacks]
  BY DEF Inv, TypeOK
<1>5. CASE Answer(w)
  <2>1. /\ at[w].op = "answer" /\ Tell(at[w].fd, at[w].mod)
        /\ UNCHANGED <<book_list, loop_of, push_list, tasks>>
    BY <1>5 DEF Answer
  <2>2. at[w].fd \in Fd /\ at[w].mod \in Mod
    BY <2>1, CallbackShape DEF Inv
  <2>3. Behind(f, n) /\ <<f, n>> # <<at[w].fd, at[w].mod>>
    BY <1>1, <2>1, <2>2, TellInforms DEF routerVars
  <2>4. InCallbackOf(loop_of[f], f, n) \/ InPushList(f, n) \/ ToPublish(n)
    BY <2>3 DEF Informed
  <2>5. InCallbackOf(loop_of[f], f, n) => InCallbackOf(loop_of[f], f, n)'
    BY <1>1, <1>2, <2>1, <2>3 DEF InCallbackOf
  <2> QED  BY <1>1, <1>3, <2>1, <2>4, <2>5 DEF InPushList
<1>6. CASE PushOne(w)
  <2>1. at[w] \in [op : {"push"}, todo : SUBSET (Fd \X Mod)]
    BY <1>6, CallbackShape DEF PushOne, Inv
  <2>2. PICK p \in at[w].todo :
          /\ Tell(p[1], p[2])
          /\ at' = [at EXCEPT ![w] = [at[w] EXCEPT !.todo = @ \ {p}]]
    BY <1>6 DEF PushOne, Goes
  <2>3. UNCHANGED <<book_list, loop_of, push_list, tasks>>
    BY <1>6 DEF PushOne
  <2>4. p = <<p[1], p[2]>> /\ p[1] \in Fd /\ p[2] \in Mod
    BY <2>1
  <2>5. Behind(f, n) /\ <<f, n>> # p
    BY <1>1, <2>2, <2>3, <2>4, TellInforms DEF routerVars
  <2>6. InCallbackOf(loop_of[f], f, n) \/ InPushList(f, n) \/ ToPublish(n)
    BY <2>5 DEF Informed
  <2>7. at'[w].op = "push" /\ at'[w].todo = at[w].todo \ {p} /\ at[w].op = "push"
    BY <1>4, <2>1, <2>2
  <2>8. InCallbackOf(loop_of[f], f, n) => InCallbackOf(loop_of[f], f, n)'
    BY <1>1, <1>2, <2>3, <2>5, <2>7 DEF InCallbackOf
  <2> QED  BY <1>1, <1>3, <2>3, <2>6, <2>8 DEF InPushList
<1>7. CASE Unsubscribe(w) \/ Pushed(w)
  <2>1. /\ UNCHANGED <<loop_of, told, silent, push_list, tasks>> /\ book_list' \subseteq book_list
        /\ at[w].op # "answer" /\ (at[w].op = "push" => at[w].todo = {})
    BY <1>7 DEF Unsubscribe, Pushed, connVars
  <2>2. InCallbackOf(loop_of[f], f, n) \/ InPushList(f, n) \/ ToPublish(n)
    BY <1>1, <2>1 DEF Informed, Behind, routerVars
  <2>3. InCallbackOf(loop_of[f], f, n) => InCallbackOf(loop_of[f], f, n)'
    BY <1>1, <1>2, <2>1 DEF InCallbackOf
  <2> QED  BY <1>1, <1>3, <2>1, <2>2, <2>3 DEF InPushList
<1>8. CASE Closed(w)
  <2>1. /\ UNCHANGED <<book_list, told, silent, push_list, tasks>> /\ at[w].op = "close"
        /\ loop_of' = [loop_of EXCEPT ![at[w].fd] = NoWorker]
    BY <1>8 DEF Closed
  <2>2. loop_of'[f] = loop_of[f]
    BY <1>2, <2>1, PublishAssumption DEF Inv, TypeOK
  <2>3. InCallbackOf(loop_of[f], f, n) \/ InPushList(f, n) \/ ToPublish(n)
    BY <1>1, <2>1 DEF Informed, Behind, routerVars
  <2>4. InCallbackOf(loop_of[f], f, n) => InCallbackOf(loop_of[f], f, n)'
    BY <1>1, <1>2, <2>1, <2>2 DEF InCallbackOf
  <2> QED  BY <1>1, <1>3, <2>1, <2>2, <2>3, <2>4 DEF InPushList
<1>9. CASE MakePublishMap(w)
  <2>1. /\ UNCHANGED <<book_list, loop_of, told, silent>> /\ at[w].op = "idle"
        /\ tasks' = [tasks EXCEPT ![w] = @ - 1]
        /\ push_list' = [g \in Fd |-> IF loop_of[g] = w THEN {} ELSE push_list[g]]
        /\ at'[w] = [op |-> "push",
                     todo |-> {p \in {g \in Fd : loop_of[g] = w} \X Mod : p[2] \in push_list[p[1]]}]
    BY <1>4, <1>9 DEF MakePublishMap, Goes, connVars, Idle
  <2>2. InCallbackOf(loop_of[f], f, n) \/ InPushList(f, n) \/ ToPublish(n)
    BY <1>1, <2>1 DEF Informed, Behind, routerVars
  <2>3. InCallbackOf(loop_of[f], f, n) => InCallbackOf(loop_of[f], f, n)'
    BY <1>1, <1>2, <2>1 DEF InCallbackOf
  <2>4. InPushList(f, n) => InPushList(f, n)' \/ InCallbackOf(loop_of[f], f, n)'
    <3>1. CASE loop_of[f] = w
      BY <2>1, <3>1 DEF InPushList, InCallbackOf
    <3>2. CASE loop_of[f] # w
      <4>1. tasks'[loop_of[f]] = tasks[loop_of[f]]
        BY <1>2, <2>1, <3>2 DEF Inv, TypeOK
      <4> QED  BY <1>1, <2>1, <3>2, <4>1 DEF InPushList
    <3> QED  BY <3>1, <3>2
  <2> QED  BY <1>3, <2>2, <2>3, <2>4
<1> QED  BY <1>5, <1>6, <1>7, <1>8, <1>9 DEF InCallback

LEMMA NextInformed ==
  ASSUME Inv, Inv', RowsAhead, Informed, [Next]_vars
  PROVE  Informed'
<1>1. CASE faults' # 0
  BY <1>1 DEF Informed
<1>2. CASE faults' = 0
  <2>1. faults = 0 /\ ~Fault
    BY <1>2, FaultsStay DEF Inv
  <2>2. CASE UNCHANGED vars
    BY <2>2 DEF vars, dbVars, routerVars, connVars, Informed, Behind, InCallbackOf, InPushList,
                ToPublish
  <2> QED
    BY <2>1, <2>2, PublishingInforms, SwapInforms, RequestInforms, CallbackInforms
       DEF Next, ChangetPublish
<1> QED  BY <1>1, <1>2

(* Whoever subscribes to a mod and holds other hosts than the server has   *)
(* is going to be told, at whatever steps of the publishing thread the     *)
(* requests, closes and commits come, if queries succeed and versions      *)
(* advance (subscribe.cpp:177-223, dns_router.cpp:152-260).                *)
THEOREM SubscribersStayInformed == Spec => []SubscriberInformed
<1>1. Init => RowsAhead /\ Informed
  BY DEF Init, RowsAhead, Informed, Behind
<1>2. Inv /\ Inv' /\ RowsAhead /\ Informed /\ [Next]_vars => (RowsAhead /\ Informed)'
  BY NextRowsAhead, NextInformed DEF Inv
<1> QED  BY <1>1, <1>2, Inductive, InformedMeans, PTL DEF Spec
=============================================================================
