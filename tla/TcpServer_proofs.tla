-------------------------- MODULE TcpServer_proofs --------------------------
(***************************************************************************)
(* The server's variables keep their types, in particular the turn of the  *)
(* workers, which indexes their queues; the two signals of a pending       *)
(* release agree; a descriptor has one holder and is registered while it   *)
(* is served; for any number of workers and descriptors.                   *)
(***************************************************************************)
EXTENDS TcpServer, SequenceTheorems, FiniteSetTheorems, TLAPS

(* Both are inductive together: DecreaseConn signals if the flag is set,   *)
(* which leaves the eventfd readable only because the two agreed before.   *)
Inv == TypeOK /\ ActivationAgrees

LEMMA InitInv == Init => Inv
<1> SUFFICES ASSUME Init PROVE Inv
  OBVIOUS
<1>1. 0 \in Worker
  BY ServerAssumption DEF Worker
<1>2. <<>> \in Seq(Fd) /\ <<>> \in Seq(Fd \cup {NoFd})
  OBVIOUS
<1>3. TypeOK
  BY <1>1, <1>2 DEF Init, TypeOK
<1> QED  BY <1>3 DEF Inv, Init, ActivationAgrees

(* The accept thread. *)
LEMMA AcceptInv ==
  ASSUME Inv, NEW fd \in Fd, Accept(fd)
  PROVE  Inv'
<1>1. polling' \in Worker
  <2>1. polling \in 0..(thread_num - 1) /\ thread_num \in Nat \ {0}
    BY ServerAssumption DEF Inv, TypeOK, Worker
  <2> QED  BY <2>1 DEF Accept, Worker
<1>2. task_queue' \in [Worker -> Seq(Fd)]
  <2>1. polling \in Worker /\ task_queue[polling] \in Seq(Fd)
    BY DEF Inv, TypeOK
  <2>2. Append(task_queue[polling], fd) \in Seq(Fd)
    BY <2>1
  <2> QED  BY <2>1, <2>2 DEF Accept, Inv, TypeOK
<1>3. peer' \in [Fd -> {"none", "open", "closed"}]
  BY DEF Accept, Inv, TypeOK
<1>4. UNCHANGED <<workerVars, conns, releaseVars>>
  BY DEF Accept
<1> QED
  BY <1>1, <1>2, <1>3, <1>4 DEF Inv, TypeOK, ActivationAgrees, workerVars, releaseVars

LEMMA ReleaseInv ==
  ASSUME Inv, ReleaseStep
  PROVE  Inv'
<1> USE DEF Inv, TypeOK, ActivationAgrees
<1>1. CASE StartRelease
  BY <1>1 DEF StartRelease, workerVars
<1>2. CASE PopReleased
  <2>1. Head(rel_conns) \in Fd \cup {NoFd} /\ Tail(rel_conns) \in Seq(Fd \cup {NoFd})
    BY <1>2 DEF PopReleased
  <2> QED  BY <1>2, <2>1 DEF PopReleased, workerVars
<1>3. CASE DeleteConn
  BY <1>3 DEF DeleteConn, workerVars
<1>4. CASE NothingReleased
  BY <1>4 DEF NothingReleased, workerVars
<1>5. CASE ResetActivate
  BY <1>5 DEF ResetActivate, workerVars
<1> QED  BY <1>1, <1>2, <1>3, <1>4, <1>5 DEF ReleaseStep

LEMMA WorkerInv ==
  ASSUME Inv, NEW w \in Worker, WorkerStep(w)
  PROVE  Inv'
<1> USE DEF Inv, TypeOK, ActivationAgrees
<1>1. CASE RecvTasks(w)
  <2>1. task_queue[w] \in Seq(Fd) /\ <<>> \in Seq(Fd)
    OBVIOUS
  <2> QED  BY <1>1, <2>1 DEF RecvTasks, releaseVars
<1>2. CASE NewConn(w)
  <2>1. Head(local[w]) \in Fd /\ Tail(local[w]) \in Seq(Fd)
    BY <1>2 DEF NewConn
  <2> QED  BY <1>2, <2>1 DEF NewConn, releaseVars
<1>3. CASE IncreaseConn(w)
  BY <1>3 DEF IncreaseConn, releaseVars
<1>4. CASE \E fd \in Fd : Clean(w, fd)
  BY <1>4 DEF Clean, releaseVars
<1>5. CASE DecreaseConn(w)
  <2> DEFINE r == IF closing[w] \in conns THEN closing[w] ELSE NoFd
  <2>1. r \in Fd \cup {NoFd}
    OBVIOUS
  <2> HIDE DEF r
  <2>2. Append(rel_conns, r) \in Seq(Fd \cup {NoFd})
    BY <2>1
  <2>3. rel_conns' = Append(rel_conns, r)
    BY <1>5 DEF DecreaseConn, r
  <2>4. TypeOK'
    BY <1>5, <2>2, <2>3 DEF DecreaseConn
  <2>5. ActivationAgrees'
    BY <1>5 DEF DecreaseConn
  <2> QED  BY <2>4, <2>5
<1> QED  BY <1>1, <1>2, <1>3, <1>4, <1>5 DEF WorkerStep

LEMMA NextInv == Inv /\ [Next]_vars => Inv'
<1> SUFFICES ASSUME Inv, [Next]_vars PROVE Inv'
  OBVIOUS
<1>1. ASSUME NEW fd \in Fd, PeerClose(fd) PROVE Inv'
  BY <1>1 DEF PeerClose, Inv, TypeOK, ActivationAgrees, workerVars, releaseVars
<1>2. CASE UNCHANGED vars
  BY <1>2 DEF vars, Inv, TypeOK, ActivationAgrees
<1> QED  BY <1>1, <1>2, AcceptInv, ReleaseInv, WorkerInv DEF Next

(* Every reachable state of a server has its type: the turn is always that *)
(* of a worker there is (thread_pool.cpp), a released object is a          *)
(* connection or null.                                                     *)
THEOREM TypeCorrect == Spec => []TypeOK
<1> QED  BY InitInv, NextInv, PTL DEF Spec, Inv

(* The flag and the eventfd of a pending release agree, whatever workers   *)
(* close while the accept thread releases (tcp_server.cpp:212-261).        *)
THEOREM SignalsAgree == Spec => []ActivationAgrees
<1> QED  BY InitInv, NextInv, PTL DEF Spec, Inv
-----------------------------------------------------------------------------
(* Where a descriptor is *)

(* The holders of a descriptor as a relation: fd is in the hands of kind k *)
(* of worker v, at position i of a sequence of tasks; v is 0 for the       *)
(* accept thread, i is 0 where there is no sequence.                       *)
At(fd, k, v, i) ==
  \/ k = "queue" /\ v \in Worker /\ i \in 1..Len(task_queue[v]) /\ task_queue[v][i] = fd
  \/ k = "local" /\ v \in Worker /\ i \in 1..Len(local[v]) /\ local[v][i] = fd
  \/ k = "served" /\ v \in Worker /\ i = 0 /\ fd \in io_evns[v]
  \/ k = "closing" /\ v \in Worker /\ i = 0 /\ closing[v] = fd
  \/ k = "released" /\ v = 0 /\ i \in 1..Len(rel_conns) /\ rel_conns[i] = fd
  \/ k = "deleting" /\ v = 0 /\ i = 0 /\ deleting = fd

AtOnePlace(fd) ==
  \A k, v, i, l, u, j : At(fd, k, v, i) /\ At(fd, l, u, j) => k = l /\ v = u /\ i = j

InUse(fd) == peer[fd] # "none" <=> \E k, v, i : At(fd, k, v, i)

(* OneHolder and Registered need each other: decrease_conn passes on the   *)
(* object that it finds in conns, and a worker may take a descriptor out   *)
(* of conns only because no other worker serves it.  Between the           *)
(* constructor of a tcp_conn and increase_conn the event is in the loop.   *)
Placed ==
  /\ \A fd \in Fd : AtOnePlace(fd) /\ InUse(fd)
  /\ Registered
  /\ \A w \in Worker : creating[w] # NoFd => creating[w] \in io_evns[w]
  /\ release # "delete" => deleting = NoFd

(* The set of holders is the relation. *)
LEMMA HolderAt ==
  ASSUME TypeOK, NEW fd \in Fd, NEW x
  PROVE  x \in Holders(fd) <=>
           \E k, v, i : /\ At(fd, k, v, i)
                        /\ x = IF k \in {"queue", "local"} THEN <<k, v, i>>
                               ELSE IF k \in {"served", "closing"} THEN <<k, v>>
                               ELSE IF k = "released" THEN <<k, i>> ELSE <<k>>
<1>1. \A v \in Worker : /\ DOMAIN task_queue[v] = 1..Len(task_queue[v])
                        /\ DOMAIN local[v] = 1..Len(local[v])
  BY DEF TypeOK
<1>2. DOMAIN rel_conns = 1..Len(rel_conns)
  BY DEF TypeOK
<1> DEFINE
  Queued == UNION {{<<"queue", v, i>> : i \in {j \in DOMAIN task_queue[v] : task_queue[v][j] = fd}}
                      : v \in Worker}
  Taken  == UNION {{<<"local", v, i>> : i \in {j \in DOMAIN local[v] : local[v][j] = fd}}
                      : v \in Worker}
  Served == {<<"served", v>> : v \in {u \in Worker : fd \in io_evns[u]}}
  Closed == {<<"closing", v>> : v \in {u \in Worker : closing[u] = fd}}
  Passed == {<<"released", i>> : i \in {j \in DOMAIN rel_conns : rel_conns[j] = fd}}
  Popped == IF deleting = fd THEN {<<"deleting">>} ELSE {}
<1>3. x \in Queued <=> \E v \in Worker : \E i \in 1..Len(task_queue[v]) :
                          task_queue[v][i] = fd /\ x = <<"queue", v, i>>
  BY <1>1
<1>4. x \in Taken <=> \E v \in Worker : \E i \in 1..Len(local[v]) :
                         local[v][i] = fd /\ x = <<"local", v, i>>
  BY <1>1
<1>5. x \in Served <=> \E v \in Worker : fd \in io_evns[v] /\ x = <<"served", v>>
  OBVIOUS
<1>6. x \in Closed <=> \E v \in Worker : closing[v] = fd /\ x = <<"closing", v>>
  OBVIOUS
<1>7. x \in Passed <=> \E i \in 1..Len(rel_conns) : rel_conns[i] = fd /\ x = <<"released", i>>
  BY <1>2
<1>8. x \in Popped <=> deleting = fd /\ x = <<"deleting">>
  OBVIOUS
<1>9. Holders(fd) = Queued \cup Taken \cup Served \cup Closed \cup Passed \cup Popped
  BY Zenon DEF Holders
<1> HIDE DEF Queued, Taken, Served, Closed, Passed, Popped
<1> QED  BY <1>3, <1>4, <1>5, <1>6, <1>7, <1>8, <1>9 DEF At

LEMMA PlacedMeansOneHolder ==
  ASSUME TypeOK, Placed
  PROVE  OneHolder
<1> SUFFICES ASSUME NEW fd \in Fd
             PROVE  Cardinality(Holders(fd)) = IF peer[fd] = "none" THEN 0 ELSE 1
  BY DEF OneHolder
<1>1. AtOnePlace(fd) /\ InUse(fd)
  BY DEF Placed
<1>2. CASE peer[fd] = "none"
  <2>1. \A x : x \notin Holders(fd)
    BY <1>1, <1>2, HolderAt DEF InUse
  <2> QED  BY <1>2, <2>1, FS_EmptySet
<1>3. CASE peer[fd] # "none"
  <2>1. PICK k, v, i : At(fd, k, v, i)
    BY <1>1, <1>3 DEF InUse
  <2> DEFINE x == IF k \in {"queue", "local"} THEN <<k, v, i>>
                  ELSE IF k \in {"served", "closing"} THEN <<k, v>>
                  ELSE IF k = "released" THEN <<k, i>> ELSE <<k>>
  <2>2. x \in Holders(fd)
    BY <2>1, HolderAt
  <2>3. \A y \in Holders(fd) : y = x
    <3> SUFFICES ASSUME NEW y \in Holders(fd) PROVE y = x
      OBVIOUS
    <3>1. PICK l, u, j : /\ At(fd, l, u, j)
                         /\ y = IF l \in {"queue", "local"} THEN <<l, u, j>>
                                ELSE IF l \in {"served", "closing"} THEN <<l, u>>
                                ELSE IF l = "released" THEN <<l, j>> ELSE <<l>>
      BY HolderAt
    <3>2. k = l /\ v = u /\ i = j
      BY <1>1, <2>1, <3>1 DEF AtOnePlace
    <3> QED  BY <3>1, <3>2
  <2> HIDE DEF x
  <2>4. Holders(fd) = {x}
    BY <2>2, <2>3
  <2> QED  BY <1>3, <2>4, FS_Singleton
<1> QED  BY <1>2, <1>3

LEMMA InitPlaced == Init => Placed
<1> SUFFICES ASSUME Init PROVE Placed
  OBVIOUS
<1>1. \A fd \in Fd : \A k, v, i : ~At(fd, k, v, i)
  BY ServerAssumption DEF Init, At
<1>2. Registered
  BY ServerAssumption DEF Init, Registered, ToSet
<1> QED  BY <1>1, <1>2 DEF Placed, AtOnePlace, InUse, Init

(* A step that moves no descriptor. *)
LEMMA NothingMoves ==
  ASSUME Placed, UNCHANGED <<task_queue, local, io_evns, closing, rel_conns, deleting>>,
         \A fd \in Fd : peer'[fd] = "none" <=> peer[fd] = "none"
  PROVE  \A fd \in Fd : (AtOnePlace(fd) /\ InUse(fd))'
<1>1. \A fd \in Fd : \A k, v, i : At(fd, k, v, i)' <=> At(fd, k, v, i)
  BY DEF At
<1> QED  BY <1>1 DEF Placed, AtOnePlace, InUse

LEMMA AcceptPlaced ==
  ASSUME TypeOK, Placed, NEW fd \in Fd, Accept(fd)
  PROVE  Placed'
<1>p. PICK p \in Worker, n \in Nat \ {0} : p = polling /\ n = Len(task_queue[p]) + 1
  <2>1. polling \in Worker /\ Len(task_queue[polling]) + 1 \in Nat \ {0}
    BY DEF TypeOK
  <2> QED  BY <2>1
<1>0. ~\E k, v, i : At(fd, k, v, i)
  BY DEF Placed, InUse, Accept
<1>1. ASSUME NEW d \in Fd, NEW k, NEW v, NEW i
      PROVE  At(d, k, v, i)' <=>
               \/ At(d, k, v, i)
               \/ d = fd /\ k = "queue" /\ v = p /\ i = n
  <2>1. task_queue[p] \in Seq(Fd)
    BY DEF TypeOK
  <2>2. /\ \A u \in Worker \ {p} : task_queue'[u] = task_queue[u]
        /\ task_queue'[p] = Append(task_queue[p], fd)
    BY <1>p, <2>1 DEF Accept, TypeOK
  <2>3. /\ Len(task_queue'[p]) = n
        /\ \A j \in 1..n : task_queue'[p][j] = IF j = n THEN fd ELSE task_queue[p][j]
    BY <1>p, <2>1, <2>2
  <2>4. CASE k = "queue" /\ v = p
    <3>1. At(d, k, v, i)' <=> i \in 1..n /\ task_queue'[p][i] = d
      BY <1>p, <2>1, <2>3, <2>4 DEF At
    <3>2. At(d, k, v, i) <=> i \in 1..(n - 1) /\ task_queue[p][i] = d
      BY <1>p, <2>1, <2>4 DEF At
    <3>3. i \in 1..n <=> i \in 1..(n - 1) \/ i = n
      OBVIOUS
    <3>4. \A j \in 1..(n - 1) : task_queue'[p][j] = task_queue[p][j]
      BY <2>3
    <3>5. task_queue'[p][n] = fd
      BY <2>3
    <3> QED  BY <2>4, <3>1, <3>2, <3>3, <3>4, <3>5
  <2>5. CASE ~(k = "queue" /\ v = p)
    <3>1. UNCHANGED <<local, io_evns, closing, rel_conns, deleting>>
      BY DEF Accept, workerVars, releaseVars
    <3>2. At(d, k, v, i)' <=> At(d, k, v, i)
      BY <2>2, <2>5, <3>1 DEF At
    <3> QED  BY <2>5, <3>2
  <2> QED  BY <2>4, <2>5
<1>2. ASSUME NEW d \in Fd PROVE (AtOnePlace(d) /\ InUse(d))'
  <2>1. AtOnePlace(d)'
    BY <1>0, <1>1 DEF Placed, AtOnePlace
  <2>2. peer'[d] = IF d = fd THEN "open" ELSE peer[d]
    BY DEF Accept, TypeOK
  <2>3. InUse(d)'
    <3>1. CASE d = fd
      <4>1. At(d, "queue", p, n)'
        BY <1>1, <3>1
      <4> QED  BY <2>2, <3>1, <4>1 DEF InUse
    <3>2. CASE d # fd
      <4>1. \A k, v, i : At(d, k, v, i)' <=> At(d, k, v, i)
        BY <1>1, <3>2
      <4> QED  BY <2>2, <3>2, <4>1 DEF Placed, InUse
    <3> QED  BY <3>1, <3>2
  <2> QED  BY <2>1, <2>3
<1>3. UNCHANGED <<io_evns, creating, closing, conns, rel_conns, release, deleting>>
  BY DEF Accept, workerVars, releaseVars
<1> QED  BY <1>2, <1>3 DEF Placed, Registered

(* do_release takes one object from the front of the list ... *)
LEMMA PopReleasedPlaced ==
  ASSUME TypeOK, Placed, PopReleased
  PROVE  Placed'
<1>0. /\ rel_conns \in Seq(Fd \cup {NoFd}) /\ Len(rel_conns) \in Nat \ {0}
      /\ deleting' = rel_conns[1] /\ deleting = NoFd
      /\ Len(rel_conns') = Len(rel_conns) - 1
      /\ \A j \in 1..Len(rel_conns') : rel_conns'[j] = rel_conns[j + 1]
      /\ DOMAIN rel_conns = 1..Len(rel_conns) /\ DOMAIN rel_conns' = 1..Len(rel_conns')
  BY DEF PopReleased, TypeOK, Placed
<1>1. ASSUME NEW d \in Fd, NEW k, NEW v, NEW i
      PROVE  At(d, k, v, i)' <=>
               \/ k # "released" /\ At(d, k, v, i)
               \/ k = "released" /\ i \in Nat \ {0} /\ At(d, k, v, i + 1)
               \/ k = "deleting" /\ i = 0 /\ At(d, "released", v, 1)
  <2>1. deleting # d
    BY <1>0, ServerAssumption
  <2> QED  BY <1>0, <2>1 DEF At, PopReleased, workerVars
<1>2. ASSUME NEW d \in Fd PROVE (AtOnePlace(d) /\ InUse(d))'
  <2>0. \A k, v, i : At(d, k, v, i) => i \in Nat
    BY DEF At
  <2>1. AtOnePlace(d)'
    BY <1>1, <2>0 DEF Placed, AtOnePlace
  <2>2. ASSUME NEW v, NEW i, At(d, "released", v, i)
        PROVE  \E k, j : At(d, k, v, j)'
    <3>1. i \in Nat \ {0}
      BY <1>0, <2>2 DEF At
    <3>2. CASE i = 1
      BY <1>1, <2>2, <3>2
    <3>3. CASE i # 1
      <4>1. i - 1 \in Nat \ {0} /\ (i - 1) + 1 = i
        BY <3>1, <3>3
      <4> QED  BY <1>1, <2>2, <4>1
    <3> QED  BY <3>2, <3>3
  <2>3. InUse(d)'
    BY <1>1, <2>2 DEF Placed, InUse, PopReleased
  <2> QED  BY <2>1, <2>3
<1>3. NoFd \notin ToSet(rel_conns')
  <2>1. \A j \in 1..Len(rel_conns') : j + 1 \in 1..Len(rel_conns)
    BY <1>0
  <2> QED  BY <1>0, <2>1 DEF Placed, Registered, ToSet
<1>4. UNCHANGED <<io_evns, creating, closing, conns>> /\ release' = "delete"
  BY DEF PopReleased, workerVars
<1> QED  BY <1>2, <1>3, <1>4 DEF Placed, Registered

(* ... and the destructor frees its number. *)
LEMMA DeleteConnPlaced ==
  ASSUME TypeOK, Placed, DeleteConn
  PROVE  Placed'
<1>1. ASSUME NEW d \in Fd, NEW k, NEW v, NEW i
      PROVE  At(d, k, v, i)' <=> k # "deleting" /\ At(d, k, v, i)
  BY ServerAssumption DEF At, DeleteConn, workerVars
<1>2. ASSUME NEW d \in Fd PROVE (AtOnePlace(d) /\ InUse(d))'
  <2>1. AtOnePlace(d)'
    BY <1>1 DEF Placed, AtOnePlace
  <2>2. peer'[d] = IF d = deleting THEN "none" ELSE peer[d]
    BY ServerAssumption DEF DeleteConn, TypeOK
  <2>3. deleting = d <=> At(d, "deleting", 0, 0)
    BY DEF At
  <2>4. \A v, i : At(d, "deleting", v, i) => v = 0 /\ i = 0
    BY DEF At
  <2>5. InUse(d)'
    <3>1. CASE d = deleting
      <4>1. \A k, v, i : At(d, k, v, i) => k = "deleting"
        BY <2>3, <3>1 DEF Placed, AtOnePlace
      <4> QED  BY <1>1, <2>2, <3>1, <4>1 DEF InUse
    <3>2. CASE d # deleting
      <4>1. \A k, v, i : At(d, k, v, i) => k # "deleting"
        BY <2>3, <2>4, <3>2
      <4> QED  BY <1>1, <2>2, <3>2, <4>1 DEF InUse, Placed
    <3> QED  BY <3>1, <3>2
  <2> QED  BY <2>1, <2>5
<1>3. UNCHANGED <<io_evns, creating, closing, conns, rel_conns>> /\ deleting' = NoFd
  BY DEF DeleteConn, workerVars
<1> QED  BY <1>2, <1>3 DEF Placed, Registered

(* The steps of a worker. *)
LEMMA RecvTasksPlaced ==
  ASSUME TypeOK, Placed, NEW w \in Worker, RecvTasks(w)
  PROVE  Placed'
<1>0. /\ local[w] = <<>> /\ local'[w] = task_queue[w] /\ task_queue'[w] = <<>>
      /\ \A u \in Worker \ {w} : local'[u] = local[u] /\ task_queue'[u] = task_queue[u]
      /\ UNCHANGED <<peer, io_evns, creating, closing, conns, rel_conns, release, deleting>>
  BY DEF RecvTasks, InLoop, TypeOK, releaseVars
<1>1. ASSUME NEW d \in Fd, NEW k, NEW v, NEW i
      PROVE  At(d, k, v, i)' <=>
               \/ ~(k \in {"queue", "local"} /\ v = w) /\ At(d, k, v, i)
               \/ k = "local" /\ v = w /\ At(d, "queue", w, i)
  BY <1>0 DEF At
<1>2. \A d \in Fd : \A i : ~At(d, "local", w, i)
  BY <1>0 DEF At
<1>3. ASSUME NEW d \in Fd PROVE (AtOnePlace(d) /\ InUse(d))'
  BY <1>0, <1>1, <1>2 DEF Placed, AtOnePlace, InUse
<1> QED  BY <1>0, <1>3 DEF Placed, Registered

(* A new tcp_conn: its descriptor is not registered, for it is nowhere but *)
(* in the hand of this worker.                                             *)
LEMMA NewConnPlaced ==
  ASSUME TypeOK, Placed, NEW w \in Worker, NewConn(w)
  PROVE  Placed'
<1> DEFINE fd == Head(local[w])
<1>0. /\ local[w] \in Seq(Fd) /\ Len(local[w]) \in Nat \ {0} /\ fd \in Fd /\ local[w][1] = fd
      /\ Len(local'[w]) = Len(local[w]) - 1
      /\ \A j \in 1..Len(local'[w]) : local'[w][j] = local[w][j + 1]
      /\ \A u \in Worker \ {w} : /\ local'[u] = local[u] /\ io_evns'[u] = io_evns[u]
                                 /\ creating'[u] = creating[u]
      /\ io_evns'[w] = io_evns[w] \cup {fd}
      /\ creating[w] = NoFd /\ creating'[w] = fd
      /\ UNCHANGED <<peer, task_queue, closing, conns, rel_conns, release, deleting>>
  BY DEF NewConn, TypeOK, releaseVars
<1> HIDE DEF fd
<1>1. At(fd, "local", w, 1)
  BY <1>0 DEF At
<1>2. \A v \in Worker : fd \notin io_evns[v] /\ closing[v] # fd
  <2>1. \A v, i : ~At(fd, "served", v, i) /\ ~At(fd, "closing", v, i)
    BY <1>0, <1>1 DEF Placed, AtOnePlace
  <2> QED  BY <2>1 DEF At
<1>3. ASSUME NEW d \in Fd, NEW k, NEW v, NEW i
      PROVE  At(d, k, v, i)' <=>
               \/ ~(k = "local" /\ v = w) /\ At(d, k, v, i)
               \/ k = "local" /\ v = w /\ i \in Nat \ {0} /\ At(d, k, v, i + 1)
               \/ k = "served" /\ v = w /\ i = 0 /\ At(d, "local", w, 1)
  <2>1. CASE k = "local"
    BY <1>0, <2>1 DEF At
  <2>2. CASE k = "served"
    BY <1>0, <2>2 DEF At
  <2>3. CASE k \notin {"local", "served"}
    BY <1>0, <2>3 DEF At
  <2> QED  BY <2>1, <2>2, <2>3
<1>4. ASSUME NEW d \in Fd PROVE (AtOnePlace(d) /\ InUse(d))'
  <2>0. \A k, v, i : At(d, k, v, i) => i \in Nat
    BY DEF At
  <2>1. AtOnePlace(d)'
    BY <1>3, <2>0 DEF Placed, AtOnePlace
  <2>2. ASSUME NEW i, At(d, "local", w, i)
        PROVE  \E k, j : At(d, k, w, j)'
    <3>1. i \in Nat \ {0}
      BY <1>0, <2>2 DEF At
    <3>2. CASE i = 1
      BY <1>3, <2>2, <3>2
    <3>3. CASE i # 1
      <4>1. i - 1 \in Nat \ {0} /\ (i - 1) + 1 = i
        BY <3>1, <3>3
      <4> QED  BY <1>3, <2>2, <4>1
    <3> QED  BY <3>2, <3>3
  <2>3. (\E k, v, i : At(d, k, v, i)') <=> (\E k, v, i : At(d, k, v, i))
    <3>1. ASSUME NEW k, NEW v, NEW i, At(d, k, v, i) PROVE \E l, u, j : At(d, l, u, j)'
      BY <1>3, <2>2, <3>1
    <3>2. ASSUME NEW k, NEW v, NEW i, At(d, k, v, i)' PROVE \E l, u, j : At(d, l, u, j)
      BY <1>3, <3>2
    <3> QED  BY <3>1, <3>2
  <2>4. InUse(d)'
    BY <1>0, <2>3 DEF Placed, InUse
  <2> QED  BY <2>1, <2>4
<1>5. Registered'
  BY <1>0, <1>2, ServerAssumption DEF Placed, Registered
<1>6. \A u \in Worker : creating'[u] # NoFd => creating'[u] \in io_evns'[u]
  BY <1>0 DEF Placed
<1> QED  BY <1>0, <1>4, <1>5, <1>6 DEF Placed

LEMMA IncreaseConnPlaced ==
  ASSUME TypeOK, Placed, NEW w \in Worker, IncreaseConn(w)
  PROVE  Placed'
<1> DEFINE fd == creating[w]
<1>0. /\ fd \in Fd /\ fd \in io_evns[w]
      /\ creating'[w] = NoFd /\ \A u \in Worker \ {w} : creating'[u] = creating[u]
      /\ conns' = conns \cup {fd}
      /\ UNCHANGED <<peer, task_queue, local, io_evns, closing, rel_conns, release, deleting>>
  BY DEF IncreaseConn, TypeOK, Placed, releaseVars
<1> HIDE DEF fd
<1>1. \A d \in Fd : (AtOnePlace(d) /\ InUse(d))'
  BY <1>0, NothingMoves
<1>2. \A u \in Worker : io_evns[u] \subseteq Fd
  BY DEF TypeOK
<1>3. Registered'
  BY <1>0, <1>2, ServerAssumption DEF Placed, Registered, fd
<1> QED  BY <1>0, <1>1, <1>3 DEF Placed

(* clean moves the connection from the loop to the worker's hand: it stays *)
(* registered.                                                             *)
LEMMA CleanPlaced ==
  ASSUME TypeOK, Placed, NEW w \in Worker, NEW fd \in Fd, Clean(w, fd)
  PROVE  Placed'
<1>0. /\ fd \in io_evns[w] /\ creating[w] = NoFd /\ closing[w] = NoFd
      /\ io_evns'[w] = io_evns[w] \ {fd} /\ closing'[w] = fd
      /\ \A u \in Worker \ {w} : io_evns'[u] = io_evns[u] /\ closing'[u] = closing[u]
      /\ UNCHANGED <<peer, task_queue, local, creating, conns, rel_conns, release, deleting>>
  BY DEF Clean, InLoop, TypeOK, releaseVars
<1>1. ASSUME NEW d \in Fd, NEW k, NEW v, NEW i
      PROVE  At(d, k, v, i)' <=>
               \/ ~(d = fd /\ k = "served" /\ v = w) /\ At(d, k, v, i)
               \/ d = fd /\ k = "closing" /\ v = w /\ i = 0
  BY <1>0, ServerAssumption DEF At
<1>2. At(fd, "served", w, 0)
  BY <1>0 DEF At
<1>3. ASSUME NEW d \in Fd PROVE (AtOnePlace(d) /\ InUse(d))'
  <2>1. CASE d = fd
    <3>1. \A k, v, i : At(fd, k, v, i) => k = "served" /\ v = w
      BY <1>2 DEF Placed, AtOnePlace
    <3>2. \A k, v, i : At(fd, k, v, i)' <=> k = "closing" /\ v = w /\ i = 0
      BY <1>1, <3>1
    <3> QED  BY <1>0, <1>2, <2>1, <3>2 DEF Placed, AtOnePlace, InUse
  <2>2. CASE d # fd
    BY <1>0, <1>1, <2>2 DEF Placed, AtOnePlace, InUse
  <2> QED  BY <2>1, <2>2
<1>4. Registered'
  BY <1>0, ServerAssumption DEF Placed, Registered
<1>5. \A u \in Worker : creating'[u] # NoFd => creating'[u] \in io_evns'[u]
  BY <1>0 DEF Placed
<1> QED  BY <1>0, <1>3, <1>4, <1>5 DEF Placed

(* decrease_conn finds in conns what the worker has in its hand, for it is *)
(* registered, and no other worker has it.                                 *)
LEMMA DecreaseConnPlaced ==
  ASSUME TypeOK, Placed, NEW w \in Worker, DecreaseConn(w)
  PROVE  Placed'
<1>p. PICK fd \in Fd, n \in Nat \ {0} : fd = closing[w] /\ n = Len(rel_conns) + 1
  <2>1. closing[w] \in Fd /\ Len(rel_conns) + 1 \in Nat \ {0}
    BY DEF DecreaseConn, TypeOK
  <2> QED  BY <2>1
<1>0. /\ closing[w] = fd /\ fd \in conns
      /\ closing'[w] = NoFd /\ \A u \in Worker \ {w} : closing'[u] = closing[u]
      /\ conns' = conns \ {fd}
      /\ UNCHANGED <<peer, task_queue, local, io_evns, creating, release, deleting>>
  BY <1>p DEF DecreaseConn, TypeOK, Placed, Registered
<1>1. /\ Len(rel_conns) = n - 1 /\ Len(rel_conns') = n
      /\ \A j \in 1..n : rel_conns'[j] = IF j = n THEN fd ELSE rel_conns[j]
      /\ DOMAIN rel_conns = 1..(n - 1) /\ DOMAIN rel_conns' = 1..n
  <2>1. rel_conns' = Append(rel_conns, fd) /\ rel_conns \in Seq(Fd \cup {NoFd})
    BY <1>0 DEF DecreaseConn, TypeOK
  <2> QED  BY <1>p, <1>0, <2>1
<1>2. At(fd, "closing", w, 0)
  BY <1>0 DEF At
<1>3. ASSUME NEW d \in Fd, NEW k, NEW v, NEW i
      PROVE  At(d, k, v, i)' <=>
               \/ ~(d = fd /\ k = "closing" /\ v = w) /\ At(d, k, v, i)
               \/ d = fd /\ k = "released" /\ v = 0 /\ i = n
  <2>1. CASE k = "released"
    BY <1>0, <1>1, <2>1 DEF At
  <2>2. CASE k = "closing"
    BY <1>0, <2>2, ServerAssumption DEF At
  <2>3. CASE k \notin {"released", "closing"}
    BY <1>0, <2>3 DEF At
  <2> QED  BY <2>1, <2>2, <2>3
<1>4. \A k, v, i : At(fd, k, v, i) => k = "closing" /\ v = w /\ i = 0
  BY <1>0, <1>2 DEF Placed, AtOnePlace
<1>5. ASSUME NEW d \in Fd PROVE (AtOnePlace(d) /\ InUse(d))'
  <2>1. CASE d = fd
    <3>2. \A k, v, i : At(fd, k, v, i)' <=> k = "released" /\ v = 0 /\ i = n
      BY <1>0, <1>3, <1>4
    <3> QED  BY <1>0, <1>2, <2>1, <3>2 DEF Placed, AtOnePlace, InUse
  <2>2. CASE d # fd
    BY <1>0, <1>3, <2>2 DEF Placed, AtOnePlace, InUse
  <2> QED  BY <2>1, <2>2
<1>6. Registered'
  <2>0. \A u \in Worker : ~At(fd, "served", u, 0) /\ (u # w => ~At(fd, "closing", u, 0))
    BY <1>4
  <2>1. \A u \in Worker : fd \notin io_evns[u]
    BY <2>0 DEF At
  <2>2. \A u \in Worker \ {w} : closing[u] # fd
    BY <2>0 DEF At
  <2>3. fd # NoFd /\ closing[w] = fd
    BY <1>0, ServerAssumption
  <2>4. conns' = {d \in Fd : \E u \in Worker :
                    \/ d \in io_evns'[u] /\ creating'[u] # d
                    \/ closing'[u] = d}
    BY <1>0, <2>1, <2>2, <2>3, ServerAssumption DEF Placed, Registered
  <2>5. NoFd \notin ToSet(rel_conns')
    BY <1>1, <2>3 DEF Placed, Registered, ToSet
  <2> QED  BY <2>4, <2>5 DEF Registered
<1> QED  BY <1>0, <1>5, <1>6 DEF Placed

LEMMA NextPlaced == TypeOK /\ Placed /\ [Next]_vars => Placed'
<1> SUFFICES ASSUME TypeOK, Placed, [Next]_vars PROVE Placed'
  OBVIOUS
<1>1. CASE UNCHANGED vars
  <2>1. \A d \in Fd : (AtOnePlace(d) /\ InUse(d))'
    BY <1>1, NothingMoves DEF vars
  <2> QED  BY <1>1, <2>1 DEF vars, Placed, Registered
<1>2. CASE StartRelease \/ NothingReleased \/ ResetActivate
  <2>1. UNCHANGED <<peer, task_queue, local, io_evns, creating, closing, conns, rel_conns,
                    deleting>>
        /\ release # "delete"
    BY <1>2 DEF StartRelease, NothingReleased, ResetActivate, workerVars
  <2>2. \A d \in Fd : (AtOnePlace(d) /\ InUse(d))'
    BY <2>1, NothingMoves
  <2> QED  BY <2>1, <2>2 DEF Placed, Registered
<1>3. ASSUME NEW fd \in Fd, PeerClose(fd) PROVE Placed'
  <2>1. UNCHANGED <<task_queue, local, io_evns, creating, closing, conns, rel_conns, release,
                    deleting>>
        /\ \A d \in Fd : peer'[d] = "none" <=> peer[d] = "none"
    BY <1>3 DEF PeerClose, workerVars, releaseVars, TypeOK
  <2>2. \A d \in Fd : (AtOnePlace(d) /\ InUse(d))'
    BY <2>1, NothingMoves
  <2> QED  BY <2>1, <2>2 DEF Placed, Registered
<1> QED
  BY <1>1, <1>2, <1>3, AcceptPlaced, PopReleasedPlaced, DeleteConnPlaced, RecvTasksPlaced,
     NewConnPlaced, IncreaseConnPlaced, CleanPlaced, DecreaseConnPlaced
     DEF Next, ReleaseStep, WorkerStep

LEMMA AlwaysPlaced == Spec => [](TypeOK /\ Placed)
<1>1. Init => TypeOK /\ Placed
  BY InitInv, InitPlaced DEF Inv
<1>2. Inv /\ Placed /\ [Next]_vars => (Inv /\ Placed)'
  BY NextInv, NextPlaced DEF Inv
<1>3. Init => Inv /\ Placed
  BY InitInv, InitPlaced
<1>4. Inv /\ Placed => TypeOK /\ Placed
  BY DEF Inv
<1> QED  BY <1>2, <1>3, <1>4, PTL DEF Spec

(* A descriptor in use is in one thread's hands, from the accept to the    *)
(* destructor, and one that is free is in no one's, for any number of      *)
(* workers, descriptors and connections (tcp_server.cpp:151-261,           *)
(* tcp_conn.cpp:40-60).                                                    *)
THEOREM AlwaysOneHolder == Spec => []OneHolder
<1>1. TypeOK /\ Placed => OneHolder
  BY PlacedMeansOneHolder
<1> QED  BY <1>1, AlwaysPlaced, PTL

(* conns holds what is served or about to be taken out and no more: what   *)
(* do_release deletes is never a null pointer (tcp_server.cpp:212-261).    *)
THEOREM ConnsAreRegistered == Spec => []Registered
<1>1. Placed => Registered
  BY DEF Placed
<1> QED  BY <1>1, AlwaysPlaced, PTL
=============================================================================
