----------------------------- MODULE TcpServer -----------------------------
(***************************************************************************)
(* The life of the connections of a tcp_server with a thread pool: the     *)
(* accept thread hands a new descriptor to a worker, the worker makes the  *)
(* tcp_conn and serves it, and when the peer closes, it leaves the object  *)
(* in _rel_conns for the accept thread to delete, which is what closes the *)
(* descriptor.  A descriptor number may be given out again after that.     *)
(* A thread_queue hands its tasks over in order (ThreadQueue): here it is  *)
(* a sequence.                                                             *)
(***************************************************************************)
EXTENDS Integers, Sequences, FiniteSets, SequencesExt

CONSTANTS
  Fd,            \* the descriptors the process can have for connections
  NoFd,          \* no descriptor, and a null tcp_conn
  thread_num,    \* _thread_num, at least one
  max_conn_fd    \* _max_conn_fd

ASSUME ServerAssumption == /\ NoFd \notin Fd
                           /\ thread_num \in Nat \ {0}
                           /\ max_conn_fd \in Nat

Worker == 0..(thread_num - 1)

VARIABLES
  peer,         \* of each descriptor: "none" (not in use), "open", or "closed" by the peer
  polling,      \* _polling: the worker that gets the next connection
  task_queue,   \* _task_queue: for each worker, NEW_CONN tasks
  local,        \* the tasks deal_task of a worker has taken
  io_evns,      \* the connections in the event loop of each worker
  creating,     \* a tcp_conn of the worker that increase_conn has yet to enter
  closing,      \* one that decrease_conn has yet to take out
  conns,        \* conns: the registered connections, by descriptor
  rel_conns,    \* _rel_conns
  isactivate,   \* _isactivate
  activatefd,   \* the eventfd _activatefd is readable
  release,      \* do_release: "no", "loop", "delete", "reset"
  deleting      \* the tcp_conn that do_release has popped

vars == <<peer, polling, task_queue, local, io_evns, creating, closing, conns,
          rel_conns, isactivate, activatefd, release, deleting>>
workerVars == <<local, io_evns, creating, closing>>
releaseVars == <<rel_conns, isactivate, activatefd, release, deleting>>

Init == /\ peer = [fd \in Fd |-> "none"]
        /\ polling = 0
        /\ task_queue = [w \in Worker |-> <<>>]
        /\ local = [w \in Worker |-> <<>>]
        /\ io_evns = [w \in Worker |-> {}]
        /\ creating = [w \in Worker |-> NoFd]
        /\ closing = [w \in Worker |-> NoFd]
        /\ conns = {}
        /\ rel_conns = <<>>
        /\ isactivate = TRUE /\ activatefd = FALSE
        /\ release = "no" /\ deleting = NoFd

-----------------------------------------------------------------------------
(* The accept thread *)

(* Mutant: _polling wraps one too late. *)
AcceptWrapsLate(fd) ==
  /\ release = "no"
  /\ peer[fd] = "none"
  /\ Cardinality(conns) + 1 <= max_conn_fd
  /\ peer' = [peer EXCEPT ![fd] = "open"]
  /\ task_queue' = [task_queue EXCEPT ![polling] = Append(@, fd)]
  /\ polling' = IF polling + 1 > thread_num THEN 0 ELSE polling + 1
  /\ UNCHANGED <<workerVars, conns, releaseVars>>

(* do_accept of a connection that is let in, and add_conn_task. *)
Accept(fd) ==
  /\ release = "no"
  /\ peer[fd] = "none"
  /\ Cardinality(conns) + 1 <= max_conn_fd
  /\ peer' = [peer EXCEPT ![fd] = "open"]
  /\ task_queue' = [task_queue EXCEPT ![polling] = Append(@, fd)]
  /\ polling' = IF polling + 1 >= thread_num THEN 0 ELSE polling + 1
  /\ UNCHANGED <<workerVars, conns, releaseVars>>

(* release_cb: the eventfd is readable. *)
StartRelease ==
  /\ release = "no" /\ activatefd
  /\ release' = "loop"
  /\ UNCHANGED <<peer, polling, task_queue, workerVars, conns, rel_conns,
                 isactivate, activatefd, deleting>>

PopReleased ==
  /\ release = "loop" /\ rel_conns # <<>>
  /\ deleting' = Head(rel_conns) /\ rel_conns' = Tail(rel_conns)
  /\ release' = "delete"
  /\ UNCHANGED <<peer, polling, task_queue, workerVars, conns, isactivate, activatefd>>

(* The destructor closes the descriptor; a null pointer is deleted too. *)
DeleteConn ==
  /\ release = "delete"
  /\ peer' = IF deleting = NoFd THEN peer ELSE [peer EXCEPT ![deleting] = "none"]
  /\ deleting' = NoFd
  /\ release' = "loop"
  /\ UNCHANGED <<polling, task_queue, workerVars, conns, rel_conns, isactivate, activatefd>>

NothingReleased ==
  /\ release = "loop" /\ rel_conns = <<>>
  /\ release' = "reset"
  /\ UNCHANGED <<peer, polling, task_queue, workerVars, conns, rel_conns,
                 isactivate, activatefd, deleting>>

(* Mutants: the flag, or the eventfd, is left as it was. *)
ResetEventOnly ==
  /\ release = "reset"
  /\ activatefd' = FALSE
  /\ release' = "no"
  /\ UNCHANGED <<peer, polling, task_queue, workerVars, conns, rel_conns, isactivate,
                 deleting>>

ResetFlagOnly ==
  /\ release = "reset"
  /\ isactivate' = TRUE
  /\ release' = "no"
  /\ UNCHANGED <<peer, polling, task_queue, workerVars, conns, rel_conns, activatefd,
                 deleting>>

(* After the loop, under the mutex once more. *)
ResetActivate ==
  /\ release = "reset"
  /\ activatefd' = FALSE /\ isactivate' = TRUE
  /\ release' = "no"
  /\ UNCHANGED <<peer, polling, task_queue, workerVars, conns, rel_conns, deleting>>

ReleaseStep == StartRelease \/ PopReleased \/ DeleteConn \/ NothingReleased \/ ResetActivate

-----------------------------------------------------------------------------
(* A worker: one callback of its event loop at a time. *)

InLoop(w) == local[w] = <<>> /\ creating[w] = NoFd /\ closing[w] = NoFd

(* Mutant: only the first task is kept. *)
RecvFirst(w) ==
  /\ InLoop(w) /\ task_queue[w] # <<>>
  /\ local' = [local EXCEPT ![w] = <<Head(task_queue[w])>>]
  /\ task_queue' = [task_queue EXCEPT ![w] = <<>>]
  /\ UNCHANGED <<peer, polling, io_evns, creating, closing, conns, releaseVars>>

(* deal_task: recv_tasks ... *)
RecvTasks(w) ==
  /\ InLoop(w) /\ task_queue[w] # <<>>
  /\ local' = [local EXCEPT ![w] = task_queue[w]]
  /\ task_queue' = [task_queue EXCEPT ![w] = <<>>]
  /\ UNCHANGED <<peer, polling, io_evns, creating, closing, conns, releaseVars>>

(* ... and for each a new tcp_conn, which adds its event to the loop ... *)
NewConn(w) ==
  /\ local[w] # <<>> /\ creating[w] = NoFd
  /\ creating' = [creating EXCEPT ![w] = Head(local[w])]
  /\ io_evns' = [io_evns EXCEPT ![w] = @ \cup {Head(local[w])}]
  /\ local' = [local EXCEPT ![w] = Tail(@)]
  /\ UNCHANGED <<peer, polling, task_queue, closing, conns, releaseVars>>

(* ... and increase_conn. *)
IncreaseConn(w) ==
  /\ creating[w] # NoFd
  /\ conns' = conns \cup {creating[w]}
  /\ creating' = [creating EXCEPT ![w] = NoFd]
  /\ UNCHANGED <<peer, polling, task_queue, local, io_evns, closing, releaseVars>>

(* Mutant: clean closes the descriptor itself. *)
CleanCloses(w, fd) ==
  /\ InLoop(w) /\ fd \in io_evns[w] /\ peer[fd] = "closed"
  /\ io_evns' = [io_evns EXCEPT ![w] = @ \ {fd}]
  /\ closing' = [closing EXCEPT ![w] = fd]
  /\ peer' = [peer EXCEPT ![fd] = "none"]
  /\ UNCHANGED <<polling, task_queue, local, creating, conns, releaseVars>>

(* do_read finds the peer gone: clean takes the event out of the loop ... *)
Clean(w, fd) ==
  /\ InLoop(w) /\ fd \in io_evns[w] /\ peer[fd] = "closed"
  /\ io_evns' = [io_evns EXCEPT ![w] = @ \ {fd}]
  /\ closing' = [closing EXCEPT ![w] = fd]
  /\ UNCHANGED <<peer, polling, task_queue, local, creating, conns, releaseVars>>

(* Mutant: the connection stays registered. *)
DecreaseKeepsConn(w) ==
  /\ closing[w] # NoFd
  /\ rel_conns' = Append(rel_conns, IF closing[w] \in conns THEN closing[w] ELSE NoFd)
  /\ isactivate' = FALSE
  /\ activatefd' = (activatefd \/ isactivate)
  /\ closing' = [closing EXCEPT ![w] = NoFd]
  /\ UNCHANGED <<peer, polling, task_queue, local, io_evns, creating, conns, release,
                 deleting>>

(* ... and calls decrease_conn: conns[connfd] of a descriptor that is not   *)
(* registered would be a null pointer.                                     *)
DecreaseConn(w) ==
  /\ closing[w] # NoFd
  /\ conns' = conns \ {closing[w]}
  /\ rel_conns' = Append(rel_conns, IF closing[w] \in conns THEN closing[w] ELSE NoFd)
  /\ isactivate' = FALSE
  /\ activatefd' = (activatefd \/ isactivate)
  /\ closing' = [closing EXCEPT ![w] = NoFd]
  /\ UNCHANGED <<peer, polling, task_queue, local, io_evns, creating, release, deleting>>

WorkerStep(w) == \/ RecvTasks(w) \/ NewConn(w) \/ IncreaseConn(w)
                 \/ \E fd \in Fd : Clean(w, fd)
                 \/ DecreaseConn(w)

-----------------------------------------------------------------------------
(* The client at the other end closes. *)
PeerClose(fd) ==
  /\ peer[fd] = "open"
  /\ peer' = [peer EXCEPT ![fd] = "closed"]
  /\ UNCHANGED <<polling, task_queue, workerVars, conns, releaseVars>>

Next == \/ \E fd \in Fd : Accept(fd) \/ PeerClose(fd)
        \/ ReleaseStep
        \/ \E w \in Worker : WorkerStep(w)

Spec == Init /\ [][Next]_vars

(* The threads of the server run on.  Clients owe nothing. *)
Fairness == /\ WF_vars(ReleaseStep)
            /\ \A w \in Worker :
                  /\ WF_vars(RecvTasks(w) \/ NewConn(w) \/ IncreaseConn(w) \/ DecreaseConn(w))
                  /\ \A fd \in Fd : SF_vars(Clean(w, fd))

FairSpec == Spec /\ Fairness
-----------------------------------------------------------------------------
TypeOK == /\ peer \in [Fd -> {"none", "open", "closed"}]
          /\ polling \in Worker
          /\ task_queue \in [Worker -> Seq(Fd)] /\ local \in [Worker -> Seq(Fd)]
          /\ io_evns \in [Worker -> SUBSET Fd]
          /\ creating \in [Worker -> Fd \cup {NoFd}]
          /\ closing \in [Worker -> Fd \cup {NoFd}]
          /\ conns \in SUBSET Fd
          /\ rel_conns \in Seq(Fd \cup {NoFd})
          /\ isactivate \in BOOLEAN /\ activatefd \in BOOLEAN
          /\ release \in {"no", "loop", "delete", "reset"}
          /\ deleting \in Fd \cup {NoFd}

(* The places where a descriptor can be on its way through the server. *)
Holders(fd) ==
       (UNION {{<<"queue", w, i>> : i \in {j \in DOMAIN task_queue[w] : task_queue[w][j] = fd}}
                   : w \in Worker})
  \cup (UNION {{<<"local", w, i>> : i \in {j \in DOMAIN local[w] : local[w][j] = fd}}
                   : w \in Worker})
  \cup {<<"served", w>> : w \in {v \in Worker : fd \in io_evns[v]}}
  \cup {<<"closing", w>> : w \in {v \in Worker : closing[v] = fd}}
  \cup {<<"released", i>> : i \in {j \in DOMAIN rel_conns : rel_conns[j] = fd}}
  \cup (IF deleting = fd THEN {<<"deleting">>} ELSE {})

(* A descriptor in use is in exactly one thread's hands, from the accept   *)
(* to the destructor, and a number that is free is in no one's: so no      *)
(* event, task or pending release of an old connection can meet a new one  *)
(* with the same number (tcp_server.cpp:151-261, tcp_conn.cpp:40-60).      *)
OneHolder ==
  \A fd \in Fd : Cardinality(Holders(fd)) = IF peer[fd] = "none" THEN 0 ELSE 1

(* conns holds the connections that are served or about to be taken out,   *)
(* and no others: no null pointer reaches _rel_conns                       *)
(* (tcp_server.cpp:212-232, thread_pool.cpp:26-32).                        *)
Registered ==
  /\ conns = {fd \in Fd : \E w \in Worker :
                \/ fd \in io_evns[w] /\ creating[w] # fd
                \/ closing[w] = fd}
  /\ NoFd \notin ToSet(rel_conns)

(* The flag and the eventfd agree, or a close could be signalled twice, or *)
(* never again (tcp_server.cpp:226-230, 256-260).                          *)
ActivationAgrees == isactivate = ~activatefd

(* Every accepted connection comes to be registered with a worker, or is   *)
(* through already.                                                        *)
AcceptedIsServed ==
  \A fd \in Fd : (\E w \in Worker : fd \in ToSet(task_queue[w])) ~> (fd \in conns)

(* A connection that waits to be released is, at the latest when another   *)
(* closes while the accept thread is in its loop: a signal that was lost   *)
(* is made up for (tcp_server.cpp:219-261).                                *)
ReleasedByNextClose ==
  \A fd \in Fd :
    (/\ fd \in ToSet(rel_conns)
     /\ release = "no" /\ \E w \in Worker : closing[w] # NoFd) ~> (fd \notin ToSet(rel_conns))

(* tcp_conn.cpp:57 says of the call of decrease_conn that it marks the     *)
(* connection object to be released: every one marked comes to be.         *)
MarkedIsReleased ==
  \A fd \in Fd : (fd \in ToSet(rel_conns)) ~> (fd \notin ToSet(rel_conns))

(* tcp_server.cpp:183 calls the test in do_accept the judgement whether    *)
(* the maximum number of connections is exceeded.                          *)
WithinMaxConn == Cardinality(conns) <= max_conn_fd
=============================================================================
