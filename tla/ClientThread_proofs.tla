------------------------ MODULE ClientThread_proofs ------------------------
(***************************************************************************)
(* In a client thread of the agent the tables of the event loop agree, no  *)
(* wake-up of the thread queue is lost, no event of a batch is stale, and  *)
(* what was dealt is written in order, for any tasks, descriptors and      *)
(* sizes of sockets.                                                       *)
(***************************************************************************)
EXTENDS ClientThread, FiniteSetTheorems, SequenceTheorems, TLAPS

-----------------------------------------------------------------------------
(* The thread queue, alone: it never loses a wake-up, and hands its tasks  *)
(* over as a TaskChannel does, for any tasks and any number of them.       *)

(* NoLostWakeup is inductive as it stands, for it also says where the loop *)
(* must find tasks and where its own queue must be empty.                  *)
Inv == TypeOK /\ NoLostWakeup

LEMMA InitInv == Init => Inv
<1> SUFFICES ASSUME Init PROVE Inv
  OBVIOUS
<1>1. <<>> \in Seq(Task) /\ 0 \in 0..MaxSent
  BY BoundAssumption, EmptySeq
<1>2. TypeOK
  BY <1>1 DEF Init, TypeOK
<1>3. NoLostWakeup
  BY DEF Init, NoLostWakeup
<1> QED BY <1>2, <1>3 DEF Inv

LEMMA NextInv == Inv /\ [Next]_vars => Inv'
<1> SUFFICES ASSUME Inv, [Next]_vars PROVE Inv'
  OBVIOUS
<1> USE DEF Inv
<1>1. CASE UNCHANGED vars
  BY <1>1 DEF vars, TypeOK, NoLostWakeup
<1>2. ASSUME NEW t \in Task, SendTask(t) PROVE Inv'
  <2>1. tasks' \in Seq(Task) /\ tasks' # <<>>
    BY <1>2, AppendProperties, EmptySeq DEF SendTask, TypeOK
  <2>2. notice' \in Nat /\ notice' > 0 /\ sent' \in 0..MaxSent
    BY <1>2, BoundAssumption DEF SendTask, TypeOK
  <2> QED BY <1>2, <2>1, <2>2 DEF SendTask, TypeOK, NoLostWakeup
<1>3. CASE SetTaskCb
  BY <1>3 DEF SetTaskCb, TypeOK, NoLostWakeup
<1>4. CASE EpollWait
  BY <1>4 DEF EpollWait, TypeOK, NoLostWakeup
<1>5. CASE RecvTasks
  BY <1>5 DEF RecvTasks, TypeOK, NoLostWakeup
<1>6. CASE DealTask
  <2>1. Head(local) \in Task /\ Tail(local) \in Seq(Task)
    BY <1>6, HeadTailProperties DEF DealTask, TypeOK
  <2>2. dealt' \in Seq(Task)
    BY <1>6, <2>1, AppendProperties DEF DealTask, TypeOK
  <2> QED BY <1>6, <2>1, <2>2 DEF DealTask, TypeOK, NoLostWakeup
<1>7. CASE Return
  BY <1>7 DEF Return, TypeOK, NoLostWakeup
<1> QED BY <1>1, <1>2, <1>3, <1>4, <1>5, <1>6, <1>7 DEF Next, LoopStep

(* Tasks never wait behind an eventfd that is not readable, whenever the   *)
(* senders run and whenever the loop attaches.                             *)
THEOREM WakeupNotLost == Spec => []NoLostWakeup
<1>1. Spec => []Inv
  BY InitInv, NextInv, PTL DEF Spec
<1> QED BY <1>1, PTL DEF Inv

-----------------------------------------------------------------------------
LEMMA AppendToConcat ==
  ASSUME NEW s \in Seq(Task), NEW u \in Seq(Task), NEW t \in Task
  PROVE  s \o Append(u, t) = Append(s \o u, t)
<1>1. s \o u \in Seq(Task) /\ <<t>> \in Seq(Task)
  BY ConcatProperties
<1>2. Append(u, t) = u \o <<t>> /\ Append(s \o u, t) = (s \o u) \o <<t>>
  BY <1>1, AppendIsConcat
<1> QED BY <1>1, <1>2, ConcatAssociative

LEMMA FrontOfConcat ==
  ASSUME NEW s \in Seq(Task), NEW u \in Seq(Task), s # <<>>
  PROVE  /\ s \o u # <<>>
         /\ Head(s \o u) = Head(s)
         /\ Tail(s \o u) = Tail(s) \o u
<1> DEFINE c == s \o u
<1>1. Len(s) \in Nat \ {0} /\ Len(u) \in Nat
  BY EmptySeq, LenProperties
<1>2. /\ c \in Seq(Task) /\ Len(c) = Len(s) + Len(u)
      /\ \A i \in 1..Len(s) + Len(u) : c[i] = IF i <= Len(s) THEN s[i] ELSE u[i - Len(s)]
  BY ConcatProperties
<1>3. c # <<>>
  BY <1>1, <1>2
<1>4. /\ Tail(s) \in Seq(Task) /\ Head(s) = s[1] /\ Len(Tail(s)) = Len(s) - 1
      /\ \A i \in 1..Len(s) - 1 : Tail(s)[i] = s[i+1]
  BY HeadTailProperties
<1>5. /\ Tail(c) \in Seq(Task) /\ Head(c) = c[1] /\ Len(Tail(c)) = Len(c) - 1
      /\ \A i \in 1..Len(c) - 1 : Tail(c)[i] = c[i+1]
  BY <1>2, <1>3, HeadTailProperties
<1> DEFINE d == Tail(s) \o u
<1>6. /\ d \in Seq(Task) /\ Len(d) = Len(s) - 1 + Len(u)
      /\ \A i \in 1..Len(s) - 1 + Len(u) :
            d[i] = IF i <= Len(s) - 1 THEN Tail(s)[i] ELSE u[i - (Len(s) - 1)]
  BY <1>4, ConcatProperties
<1> HIDE DEF c, d
<1>7. Len(Tail(c)) = Len(d)
  BY <1>1, <1>2, <1>5, <1>6
<1>8. ASSUME NEW i \in 1..Len(d) PROVE Tail(c)[i] = d[i]
  <2>1. i \in 1..Len(c) - 1 /\ i + 1 \in 1..Len(s) + Len(u)
    BY <1>1, <1>2, <1>6
  <2>2. Tail(c)[i] = c[i+1]
    BY <1>5, <2>1
  <2>3. CASE i <= Len(s) - 1
    BY <1>1, <1>2, <1>4, <1>6, <2>1, <2>2, <2>3
  <2>4. CASE ~(i <= Len(s) - 1)
    <3>1. ~(i + 1 <= Len(s)) /\ (i + 1) - Len(s) = i - (Len(s) - 1)
      BY <1>1, <2>4
    <3> QED BY <1>2, <1>6, <2>1, <2>2, <2>4, <3>1
  <2> QED BY <2>3, <2>4
<1>9. Tail(c) = d
  BY <1>5, <1>6, <1>7, <1>8, SeqEqual
<1>10. Head(c) = Head(s)
  BY <1>1, <1>2, <1>4, <1>5
<1> QED BY <1>3, <1>9, <1>10 DEF c, d

LEMMA ChannelInit == Init => Channel!Init
BY DEF Init, Channel!Init

LEMMA ChannelStep == Inv /\ [Next]_vars => [Channel!Next]_Channel!vars
<1> SUFFICES ASSUME Inv, [Next]_vars PROVE [Channel!Next]_Channel!vars
  OBVIOUS
<1> USE DEF Inv
<1> tasks \in Seq(Task) /\ local \in Seq(Task)
  BY DEF TypeOK
<1>1. CASE UNCHANGED vars
  BY <1>1 DEF vars, Channel!vars
<1>2. ASSUME NEW t \in Task, SendTask(t) PROVE Channel!Send(t)
  BY <1>2, AppendToConcat DEF SendTask, Channel!Send
<1>3. CASE SetTaskCb
  BY <1>3 DEF SetTaskCb, Channel!Open, Channel!Next
<1>6. CASE EpollWait \/ Return
  BY <1>6 DEF EpollWait, Return, Channel!vars
<1>4. CASE RecvTasks
  <2>1. local = <<>> /\ tasks' = <<>> /\ local' = tasks
    BY <1>4 DEF RecvTasks, NoLostWakeup
  <2>2. local' \o tasks' = local \o tasks
    BY <2>1, ConcatEmptySeq
  <2> QED BY <1>4, <2>2 DEF RecvTasks, Channel!vars
<1>5. CASE DealTask
  <2>1. /\ local \o tasks # <<>>
        /\ Head(local \o tasks) = Head(local)
        /\ Tail(local \o tasks) = Tail(local) \o tasks
    BY <1>5, FrontOfConcat DEF DealTask
  <2>2. Channel!Deal
    BY <1>5, <2>1 DEF DealTask, Channel!Deal, NoLostWakeup
  <2> QED BY <2>2 DEF Channel!Next
<1> QED BY <1>1, <1>2, <1>3, <1>4, <1>5, <1>6 DEF Next, LoopStep, Channel!Next

(* Safety of the refinement: tasks are dealt with once each, in the order  *)
(* in which send_task was called.                                          *)
THEOREM ThreadQueueImplementsTaskChannel == Spec => Channel!Spec
<1>1. Spec => []Inv
  BY InitInv, NextInv, PTL DEF Spec
<1> QED BY <1>1, ChannelInit, ChannelStep, PTL DEF Spec, Channel!Spec

-----------------------------------------------------------------------------
(* The tables of the event loop *)

Cb == {"read_cb", "write_cb", "connect_ser", "task_cb"}
Events == {"IN", "OUT"}
IoEvent == [mask : SUBSET Events, read_cb : Cb \cup {NoCb}, write_cb : Cb \cup {NoCb}]

(* The shape of the tables; what epoll keeps is a function. *)
IsTables(T) ==
  /\ T = [io |-> T.io, lfds |-> T.lfds, epoll |-> T.epoll]
  /\ T.io \in [DOMAIN T.io -> IoEvent]
  /\ T.epoll = [fd \in DOMAIN T.epoll |-> T.epoll[fd]]

Good(T) == IsTables(T) /\ Agree(T)
-----------------------------------------------------------------------------
(* add_event, both del_event *)

LEMMA NoTablesGood == Good(NoTables)
  BY DEF Good, IsTables, Agree, NoTables, Empty

(* Taking a descriptor out of all tables keeps the agreement. *)
LEMMA DelFdGood ==
  ASSUME NEW T, Good(T), NEW fd
  PROVE  Good(DelFd(T, fd))
<1> DEFINE U == DelFd(T, fd)
<1>1. /\ U.io = [x \in DOMAIN T.io \ {fd} |-> T.io[x]]
      /\ U.lfds = T.lfds \ {fd}
      /\ U.epoll = [x \in DOMAIN T.epoll \ {fd} |-> T.epoll[x]]
      /\ U = [io |-> U.io, lfds |-> U.lfds, epoll |-> U.epoll]
  BY DEF DelFd, Remove1, Restrict
<1> HIDE DEF U
<1>2. IsTables(U)
  BY <1>1 DEF Good, IsTables
<1>3. Agree(U)
  BY <1>1 DEF Good, IsTables, Agree
<1> QED  BY <1>2, <1>3 DEF Good, U

(* A new registration, or one more event of an old one. *)
LEMMA PutGood ==
  ASSUME NEW T, Good(T), NEW fd, NEW e \in IoEvent, NEW U,
         e.mask # {},
         "IN" \in e.mask => e.read_cb # NoCb,
         "OUT" \in e.mask => e.write_cb # NoCb,
         U = [io    |-> Put1(T.io, fd, e),
              lfds  |-> T.lfds \cup {fd},
              epoll |-> IF fd = BadFd THEN T.epoll ELSE Put1(T.epoll, fd, e.mask)]
  PROVE  Good(U)
<1>1. /\ U.io = [y \in DOMAIN T.io \cup {fd} |-> IF y = fd THEN e ELSE T.io[y]]
      /\ U.lfds = T.lfds \cup {fd}
      /\ U.epoll = IF fd = BadFd THEN T.epoll
                   ELSE [y \in DOMAIN T.epoll \cup {fd} |-> IF y = fd THEN e.mask ELSE T.epoll[y]]
      /\ U = [io |-> U.io, lfds |-> U.lfds, epoll |-> U.epoll]
  BY DEF Put1
<1>2. IsTables(U)
  <2>1. U.io \in [DOMAIN U.io -> IoEvent]
    BY <1>1 DEF Good, IsTables
  <2>2. U.epoll = [x \in DOMAIN U.epoll |-> U.epoll[x]]
    BY <1>1 DEF Good, IsTables
  <2> QED  BY <1>1, <2>1, <2>2 DEF IsTables
<1>3. Agree(U)
  <2>1. U.lfds = DOMAIN U.io /\ DOMAIN U.epoll = DOMAIN U.io \ {BadFd}
    BY <1>1 DEF Good, Agree
  <2>2. \A x \in DOMAIN U.epoll : U.epoll[x] = U.io[x].mask
    BY <1>1 DEF Good, Agree
  <2>3. \A x \in DOMAIN U.io : /\ U.io[x].mask # {}
                               /\ "IN" \in U.io[x].mask => U.io[x].read_cb # NoCb
                               /\ "OUT" \in U.io[x].mask => U.io[x].write_cb # NoCb
    BY <1>1 DEF Good, Agree
  <2> QED  BY <2>1, <2>2, <2>3 DEF Agree
<1> QED  BY <1>2, <1>3 DEF Good

(* add_event keeps the agreement: epoll is told to add what it has not and *)
(* to modify what it has.                                                  *)
LEMMA AddEventGood ==
  ASSUME NEW T, Good(T), NEW fd, NEW ev \in Events, NEW cb \in Cb
  PROVE  Good(AddEvent(T, fd, ev, cb))
<1> DEFINE old == IF Registered(T, fd) THEN T.io[fd] ELSE NoEvent
           new == IF ev = "IN" THEN [old EXCEPT !.mask = @ \cup {ev}, !.read_cb = cb]
                               ELSE [old EXCEPT !.mask = @ \cup {ev}, !.write_cb = cb]
           opt == IF Registered(T, fd) THEN "MOD" ELSE "ADD"
           U == [io    |-> Put1(T.io, fd, new),
                 lfds  |-> T.lfds \cup {fd},
                 epoll |-> EpollCtl(T.epoll, opt, fd, new.mask)]
<1>1. CASE ev \in old.mask
  BY <1>1 DEF AddEvent
<1>2. CASE ev \notin old.mask
  <2>1. old \in IoEvent
    BY DEF Registered, NoEvent, Good, IsTables, IoEvent
  <2>2. /\ "IN" \in old.mask => old.read_cb # NoCb
        /\ "OUT" \in old.mask => old.write_cb # NoCb
    BY DEF Registered, NoEvent, Good, Agree
  <2>3. cb # NoCb
    BY ClientAssumption DEF Cb
  <2> HIDE DEF old
  <2>4. /\ new \in IoEvent /\ new.mask # {}
        /\ "IN" \in new.mask => new.read_cb # NoCb
        /\ "OUT" \in new.mask => new.write_cb # NoCb
    BY <2>1, <2>2, <2>3 DEF IoEvent, Events
  <2> HIDE DEF new
  <2>5. EpollCtl(T.epoll, opt, fd, new.mask)
          = IF fd = BadFd THEN T.epoll ELSE Put1(T.epoll, fd, new.mask)
    BY DEF EpollCtl, Registered, Good, Agree
  <2>6. Good(U)
    BY <2>4, <2>5, PutGood
  <2>7. AddEvent(T, fd, ev, cb) = U
    BY <1>2 DEF AddEvent, old, new
  <2> QED  BY <2>6, <2>7
<1> QED  BY <1>1, <1>2

(* So does del_event with a mask, of which nothing may be left. *)
LEMMA DelEventGood ==
  ASSUME NEW T, Good(T), NEW fd, NEW mask
  PROVE  Good(DelEvent(T, fd, mask))
<1> DEFINE left == T.io[fd].mask \ mask
           e == [T.io[fd] EXCEPT !.mask = left]
           U == [io    |-> Put1(T.io, fd, [T.io[fd] EXCEPT !.mask = left]),
                 lfds  |-> T.lfds,
                 epoll |-> IF fd \in DOMAIN T.epoll THEN Put1(T.epoll, fd, left) ELSE T.epoll]
<1>1. CASE ~Registered(T, fd) \/ left = {}
  BY <1>1, DelFdGood DEF DelEvent
<1>2. CASE Registered(T, fd) /\ left # {}
  <2>1. fd \in DOMAIN T.io /\ T.io[fd] \in IoEvent
    BY <1>2 DEF Registered, Good, IsTables
  <2>2. /\ e \in IoEvent /\ e.mask = left
        /\ "IN" \in e.mask => e.read_cb # NoCb
        /\ "OUT" \in e.mask => e.write_cb # NoCb
    BY <2>1 DEF IoEvent, Good, Agree
  <2>3. U.io = Put1(T.io, fd, e)
    BY <2>1 DEF Put1, Good, IsTables
  <2>4. U.lfds = T.lfds \cup {fd}
    BY <2>1 DEF Good, Agree, IsTables
  <2>5. U.epoll = IF fd = BadFd THEN T.epoll ELSE Put1(T.epoll, fd, e.mask)
    BY <2>1, <2>2 DEF Good, Agree, IsTables
  <2>6. U = [io |-> U.io, lfds |-> U.lfds, epoll |-> U.epoll]
    BY DEF Good, IsTables
  <2> HIDE DEF U, e
  <2>7. Good(U)
    BY <1>2, <2>2, <2>3, <2>4, <2>5, <2>6, PutGood
  <2>8. DelEvent(T, fd, mask) = U
    BY <1>2 DEF DelEvent, U
  <2> QED  BY <2>7, <2>8
<1> QED  BY <1>1, <1>2
-----------------------------------------------------------------------------
(* The thread *)

LEMMA CleanGood ==
  ASSUME Good(tables), NEW T, Good(T), Clean(T)
  PROVE  Good(tables)'
  BY DelFdGood DEF Clean

(* Every step of a client thread keeps the agreement. *)
LEMMA StepGood ==
  ASSUME Good(tables), [ThreadNext]_allVars
  PROVE  Good(tables)'
<1> USE DEF Events, Cb
<1>1. CASE ConnectAtOnce
  <2>1. Good(DelEvent(tables, Sock, {"OUT"}))
    BY DelEventGood
  <2> QED  BY <1>1, <2>1, AddEventGood DEF ConnectAtOnce
<1>2. CASE ConnectInProgress
  BY <1>2, AddEventGood DEF ConnectInProgress
<1>3. CASE ConnectFails
  BY <1>3, CleanGood DEF ConnectFails
<1>4. CASE ConnectSer
  <2> DEFINE T1 == AddEvent(DelEvent(tables, first, {"OUT"}), first, "IN", "read_cb")
             T2 == IF obuf # <<>> THEN AddEvent(T1, first, "OUT", "write_cb") ELSE T1
  <2>1. Good(DelEvent(tables, first, {"OUT"}))
    BY DelEventGood
  <2>2. Good(T1)
    BY <2>1, AddEventGood
  <2> HIDE DEF T1
  <2>3. Good(T2)
    BY <2>2, AddEventGood
  <2> HIDE DEF T2
  <2>4. tables' = AddEvent(T2, Notice, "IN", "task_cb")
    BY <1>4 DEF ConnectSer, T1, T2
  <2> QED  BY <2>3, <2>4, AddEventGood
<1>5. CASE ConnectSerFails
  <2>1. Good(DelEvent(tables, first, {"OUT"}))
    BY DelEventGood
  <2> QED  BY <1>5, <2>1, CleanGood DEF ConnectSerFails
<1>6. CASE SendMsg
  BY <1>6, AddEventGood DEF SendMsg
<1>7. CASE DoWrite
  BY <1>7, DelEventGood DEF DoWrite
<1>8. CASE DoWriteFails
  BY <1>8, CleanGood DEF DoWriteFails
<1>9. CASE DoReadCloses
  BY <1>9, CleanGood DEF DoReadCloses
<1>10. CASE EpollWaits \/ StartProcessReturns
  BY <1>10 DEF EpollWaits, StartProcessReturns, Wait, StopLoop
<1>11. CASE TaskCb \/ TaskCbRecvs \/ TaskCbReturns \/ DoRead
  BY <1>11 DEF TaskCb, TaskCbRecvs, TaskCbReturns, DoRead, loopVars
<1>12. CASE (\E t \in Task : SendsTask(t)) \/ Handshake \/ ServerTakes \/ ServerSends \/ ServerCloses
  BY <1>12 DEF SendsTask, Handshake, ServerTakes, ServerSends, ServerCloses, loopVars
<1>13. CASE UNCHANGED allVars
  BY <1>13 DEF allVars, loopVars
<1> QED
  BY <1>1, <1>2, <1>3, <1>4, <1>5, <1>6, <1>7, <1>8, <1>9, <1>10, <1>11, <1>12, <1>13
     DEF ThreadNext, Thread, Construct

(* The set that keeps the loop alive, the callbacks and what epoll watches *)
(* agree in every state of a client thread, whatever the order of its      *)
(* callbacks (event_loop.cpp:93-156, tcp_client.cpp).                      *)
THEOREM TablesAlwaysAgree == ThreadFairSpec => []TablesAgree
<1>1. ThreadInit => Good(tables)
  BY NoTablesGood DEF ThreadInit, LoopInit
<1>2. Good(tables) /\ [ThreadNext]_allVars => Good(tables)'
  BY StepGood
<1>3. Good(tables) => TablesAgree
  BY DEF Good, TablesAgree
<1> QED  BY <1>1, <1>2, <1>3, PTL DEF ThreadFairSpec
-----------------------------------------------------------------------------
(* The thread queue in the client thread *)

(* Each step of a client thread is one of its queue, or none. *)
LEMMA StepOfQueue == [ThreadNext]_allVars => [Next]_vars
<1> SUFFICES ASSUME [ThreadNext]_allVars PROVE [Next]_vars
  OBVIOUS
<1> USE DEF Next, LoopStep, vars, queueVars, allVars
<1>1. CASE Construct
  BY <1>1 DEF Construct, ConnectAtOnce, ConnectInProgress, ConnectFails
<1>2. CASE EpollWaits \/ StartProcessReturns
  BY <1>2 DEF EpollWaits, StartProcessReturns
<1>3. CASE ConnectSer \/ ConnectSerFails
  BY <1>3 DEF ConnectSer, ConnectSerFails
<1>4. CASE TaskCb \/ TaskCbRecvs \/ SendMsg \/ TaskCbReturns
  BY <1>4 DEF TaskCb, TaskCbRecvs, SendMsg, TaskCbReturns
<1>5. CASE DoWrite \/ DoWriteFails \/ DoRead \/ DoReadCloses
  BY <1>5 DEF DoWrite, DoWriteFails, DoRead, DoReadCloses
<1>6. CASE (\E t \in Task : SendsTask(t)) \/ Handshake \/ ServerTakes \/ ServerSends \/ ServerCloses
  BY <1>6 DEF SendsTask, Handshake, ServerTakes, ServerSends, ServerCloses
<1>7. CASE UNCHANGED allVars
  BY <1>7
<1> QED  BY <1>1, <1>2, <1>3, <1>4, <1>5, <1>6, <1>7 DEF ThreadNext, Thread

(* A client thread loses no wake-up of its queue, though it attaches to it *)
(* only when its connection is up (agent_report_client.cpp:27-36).         *)
THEOREM ClientLosesNoWakeup == ThreadFairSpec => []NoLostWakeup
<1>1. ThreadInit => Init
  BY DEF ThreadInit
<1>2. Init /\ [][Next]_vars => []NoLostWakeup
  BY WakeupNotLost DEF Spec
<1> QED  BY <1>1, <1>2, StepOfQueue, PTL DEF ThreadFairSpec

(* The safety part of the refinement, for the queue as a client thread     *)
(* uses it: what the task callback is given is what was sent, in order.    *)
THEOREM ClientImplementsTaskChannel == ThreadFairSpec => Channel!Spec
<1>1. ThreadInit => Init
  BY DEF ThreadInit
<1>2. Init /\ [][Next]_vars => Channel!Spec
  BY ThreadQueueImplementsTaskChannel DEF Spec
<1> QED  BY <1>1, <1>2, StepOfQueue, PTL DEF ThreadFairSpec
-----------------------------------------------------------------------------
(* The batch and the buffers *)

(* What the tables have of the two descriptors, in each phase. *)
Shape ==
  /\ phase \in {"new", "connecting", "up", "ended"}
  /\ sockfd = IF phase = "ended" THEN BadFd ELSE Sock
  /\ DOMAIN tables.io \subseteq {Sock, Notice, BadFd}
  /\ Notice \in DOMAIN tables.io <=> attached
  /\ attached => /\ phase \in {"up", "ended"}
                 /\ tables.io[Notice].mask = {"IN"} /\ tables.io[Notice].read_cb = "task_cb"
  /\ Sock \in DOMAIN tables.io <=> phase \in {"connecting", "up"}
  /\ phase = "connecting" => /\ tables.io[Sock].mask = {"OUT"}
                             /\ tables.io[Sock].write_cb = "connect_ser"
  /\ phase = "up" => /\ "IN" \in tables.io[Sock].mask /\ tables.io[Sock].read_cb = "read_cb"
                     /\ "OUT" \in tables.io[Sock].mask => tables.io[Sock].write_cb = "write_cb"

(* A descriptor is in a batch once, so that what its callback does to its  *)
(* registration no event after it can meet.                                *)
FiredEvent == [fd : Fd, events : SUBSET {"IN", "OUT", "HUP"}]

OnlyOut(e) == "OUT" \in e.events /\ "IN" \notin e.events

InPlace(e) ==
  /\ e.fd \in DOMAIN tables.io
  /\ e.fd = Notice => e.events = {"IN"}
  /\ e.fd = Sock /\ phase = "connecting" => OnlyOut(e)
  /\ e.fd = Sock /\ phase = "up" /\ OnlyOut(e) => "OUT" \in tables.io[Sock].mask

Batch ==
  /\ fired \in Seq(FiredEvent)
  /\ \A i, j \in DOMAIN fired : fired[i].fd = fired[j].fd => i = j
  /\ \A i \in DOMAIN fired : InPlace(fired[i])
  /\ phase = "connecting" /\ fired # <<>> => first = Sock

Buffers ==
  /\ obuf \in Seq(Task) /\ written \in Seq(Task)
  /\ taken \in 0..Len(written) /\ Len(written) - taken <= SockCap
  /\ ~attached => dealt = <<>>
  /\ phase \in {"new", "connecting"} => obuf = <<>> /\ written = <<>>
  /\ phase = "up" => /\ dealt = written \o obuf
                     /\ obuf # <<>> => "OUT" \in tables.io[Sock].mask

ThreadInv == Inv /\ Good(tables) /\ Shape /\ Batch /\ Buffers

(* What the invariant is for. *)
LEMMA InvMeansFresh == ThreadInv => FreshBatch
<1> SUFFICES ASSUME ThreadInv, NEW i \in DOMAIN fired
             PROVE  Known(fired[i].fd) /\ Handler(fired[i]) # NoCb
  BY DEF FreshBatch
<1> DEFINE e == fired[i]
<1>1. InPlace(e) /\ e \in FiredEvent
  BY DEF ThreadInv, Batch
<1>2. Known(e.fd)
  BY <1>1 DEF ThreadInv, InPlace, Known, Registered, Good, Agree
<1>3. e.fd = Sock \/ e.fd = Notice
  BY <1>1, ClientAssumption DEF FiredEvent
<1>4. Handler(e) # NoCb
  BY <1>1, <1>3, ClientAssumption DEF ThreadInv, Shape, InPlace, OnlyOut, Handler
<1> QED  BY <1>2, <1>4

LEMMA InvMeansUnderWay == ThreadInv => DealtIsUnderWay
<1> SUFFICES ASSUME ThreadInv PROVE DealtIsUnderWay
  OBVIOUS
<1>1. phase = "up" => Sock \in DOMAIN tables.epoll /\ tables.epoll[Sock] = tables.io[Sock].mask
  BY ClientAssumption, LoopAssumption DEF ThreadInv, Shape, Good, Agree
<1> QED  BY <1>1 DEF ThreadInv, Shape, Buffers, Batch, DealtIsUnderWay

(* What add_event and both del_event do to the callbacks and masks. *)
LEMMA AddEventEffect ==
  ASSUME NEW T, Good(T), NEW fd, NEW ev \in Events, NEW cb \in Cb
  PROVE  LET U == AddEvent(T, fd, ev, cb)
             old == IF fd \in DOMAIN T.io THEN T.io[fd] ELSE NoEvent
         IN  /\ DOMAIN U.io = DOMAIN T.io \cup {fd}
             /\ \A x \in DOMAIN T.io \ {fd} : U.io[x] = T.io[x]
             /\ U.io[fd].mask = old.mask \cup {ev}
             /\ ev = "IN" => /\ U.io[fd].read_cb = IF "IN" \in old.mask THEN old.read_cb ELSE cb
                             /\ U.io[fd].write_cb = old.write_cb
             /\ ev = "OUT" => /\ U.io[fd].write_cb = IF "OUT" \in old.mask THEN old.write_cb ELSE cb
                              /\ U.io[fd].read_cb = old.read_cb
<1> DEFINE old == IF fd \in DOMAIN T.io THEN T.io[fd] ELSE NoEvent
           new == IF ev = "IN" THEN [old EXCEPT !.mask = @ \cup {ev}, !.read_cb = cb]
                               ELSE [old EXCEPT !.mask = @ \cup {ev}, !.write_cb = cb]
           U == AddEvent(T, fd, ev, cb)
<1>1. old \in IoEvent
  BY DEF NoEvent, Good, IsTables, IoEvent
<1>2. CASE ev \in old.mask
  <2>1. U = T /\ fd \in DOMAIN T.io
    BY <1>2 DEF AddEvent, Registered, NoEvent
  <2> QED  BY <1>2, <2>1
<1>3. CASE ev \notin old.mask
  <2>1. U.io = Put1(T.io, fd, new)
    BY <1>3 DEF AddEvent, Registered
  <2>2. /\ DOMAIN U.io = DOMAIN T.io \cup {fd} /\ U.io[fd] = new
        /\ \A x \in DOMAIN T.io \ {fd} : U.io[x] = T.io[x]
    BY <2>1 DEF Put1
  <2>3. /\ new.mask = old.mask \cup {ev}
        /\ ev = "IN" => new.read_cb = cb /\ new.write_cb = old.write_cb
        /\ ev = "OUT" => new.write_cb = cb /\ new.read_cb = old.read_cb
    BY <1>1 DEF IoEvent
  <2> HIDE DEF U, old, new
  <2> QED  BY <1>3, <2>2, <2>3 DEF U, old
<1> QED  BY <1>2, <1>3

LEMMA DelFdEffect ==
  ASSUME NEW T, NEW fd
  PROVE  /\ DOMAIN DelFd(T, fd).io = DOMAIN T.io \ {fd}
         /\ \A x \in DOMAIN T.io \ {fd} : DelFd(T, fd).io[x] = T.io[x]
BY DEF DelFd, Remove1, Restrict

LEMMA DelEventEffect ==
  ASSUME NEW T, Good(T), NEW fd
  PROVE  LET U == DelEvent(T, fd, {"OUT"})
         IN  /\ DOMAIN T.io \ {fd} \subseteq DOMAIN U.io /\ DOMAIN U.io \subseteq DOMAIN T.io
             /\ \A x \in DOMAIN T.io \ {fd} : U.io[x] = T.io[x]
             /\ fd \in DOMAIN U.io <=> fd \in DOMAIN T.io /\ "IN" \in T.io[fd].mask
             /\ fd \in DOMAIN U.io => /\ U.io[fd].mask = T.io[fd].mask \ {"OUT"}
                                      /\ U.io[fd].read_cb = T.io[fd].read_cb
                                      /\ U.io[fd].write_cb = T.io[fd].write_cb
<1> DEFINE left == T.io[fd].mask \ {"OUT"}
           U == DelEvent(T, fd, {"OUT"})
<1>1. CASE ~Registered(T, fd) \/ left = {}
  <2>1. U = DelFd(T, fd)
    BY <1>1 DEF DelEvent
  <2>2. fd \in DOMAIN T.io => "IN" \notin T.io[fd].mask
    BY <1>1 DEF Registered
  <2> QED  BY <2>1, <2>2, DelFdEffect
<1>2. CASE Registered(T, fd) /\ left # {}
  <2>1. fd \in DOMAIN T.io /\ T.io[fd] \in IoEvent
    BY <1>2 DEF Registered, Good, IsTables
  <2>2. "IN" \in T.io[fd].mask
    BY <1>2, <2>1 DEF IoEvent, Events
  <2>3. U.io = Put1(T.io, fd, [T.io[fd] EXCEPT !.mask = left])
    BY <1>2 DEF DelEvent
  <2>4. /\ DOMAIN U.io = DOMAIN T.io
        /\ U.io[fd] = [T.io[fd] EXCEPT !.mask = left]
        /\ \A x \in DOMAIN T.io \ {fd} : U.io[x] = T.io[x]
    BY <2>1, <2>3 DEF Put1
  <2>5. /\ U.io[fd].mask = left /\ U.io[fd].read_cb = T.io[fd].read_cb
        /\ U.io[fd].write_cb = T.io[fd].write_cb
    BY <2>1, <2>4 DEF IoEvent
  <2> HIDE DEF U
  <2> QED  BY <2>1, <2>2, <2>4, <2>5 DEF U
<1> QED  BY <1>1, <1>2

(* The head of a batch, and the rest of it. *)
LEMMA BatchHead ==
  ASSUME Batch, fired # <<>>
  PROVE  /\ Event \in FiredEvent /\ InPlace(Event)
         /\ Tail(fired) \in Seq(FiredEvent)
         /\ \A i \in DOMAIN Tail(fired) :
              /\ InPlace(Tail(fired)[i]) /\ Tail(fired)[i].fd # Event.fd
              /\ \A j \in DOMAIN Tail(fired) : Tail(fired)[i].fd = Tail(fired)[j].fd => i = j
<1>1. /\ fired \in Seq(FiredEvent) /\ Len(fired) \in Nat \ {0} /\ DOMAIN fired = 1..Len(fired)
  BY EmptySeq, LenProperties DEF Batch
<1>2. Event = fired[1] /\ 1 \in DOMAIN fired
  BY <1>1, HeadTailProperties DEF Event
<1>3. /\ Tail(fired) \in Seq(FiredEvent) /\ DOMAIN Tail(fired) = 1..(Len(fired) - 1)
      /\ \A i \in 1..(Len(fired) - 1) : Tail(fired)[i] = fired[i + 1]
  BY <1>1, HeadTailProperties, LenProperties
<1>4. \A i \in 1..(Len(fired) - 1) : i + 1 \in DOMAIN fired /\ i + 1 # 1
  BY <1>1
<1>5. ASSUME NEW i \in DOMAIN Tail(fired)
      PROVE  /\ InPlace(Tail(fired)[i]) /\ Tail(fired)[i].fd # Event.fd
             /\ \A j \in DOMAIN Tail(fired) : Tail(fired)[i].fd = Tail(fired)[j].fd => i = j
  <2>1. InPlace(fired[i + 1]) /\ fired[i + 1].fd # fired[1].fd
    BY <1>2, <1>3, <1>4 DEF Batch
  <2>2. ASSUME NEW j \in DOMAIN Tail(fired), fired[i + 1].fd = fired[j + 1].fd PROVE i = j
    <3>1. i + 1 = j + 1
      BY <1>3, <1>4, <2>2 DEF Batch
    <3> QED  BY <1>1, <1>3, <3>1
  <2> QED  BY <1>2, <1>3, <2>1, <2>2
<1> QED  BY <1>1, <1>2, <1>3, <1>5, LenProperties DEF Batch

(* The batch after a step that deals with its head or with none of it. *)
LEMMA BatchGoesOn ==
  ASSUME Batch, UNCHANGED first, phase' = "connecting" => phase = "connecting",
         UNCHANGED fired \/ (fired # <<>> /\ fired' = Tail(fired)),
         \A e \in FiredEvent : InPlace(e) /\ (UNCHANGED fired \/ e.fd # Event.fd) => InPlace(e)'
  PROVE  Batch'
<1>1. \A i \in DOMAIN fired : fired[i] \in FiredEvent
  BY LenProperties DEF Batch
<1>2. CASE UNCHANGED fired
  BY <1>1, <1>2 DEF Batch
<1>3. CASE fired # <<>> /\ fired' = Tail(fired)
  <2>1. \A i \in DOMAIN Tail(fired) : Tail(fired)[i] \in FiredEvent
    BY <1>3, BatchHead, LenProperties
  <2>2. ASSUME NEW i \in DOMAIN fired' PROVE InPlace(fired[i])'
    <3>1. PICK e \in FiredEvent : e = Tail(fired)[i]
      BY <1>3, <2>1
    <3>2. InPlace(e)'
      BY <1>3, <3>1, BatchHead
    <3> QED  BY <1>3, <3>1, <3>2 DEF InPlace, OnlyOut
  <2>3. phase' = "connecting" => first' = Sock
    BY <1>3 DEF Batch
  <2> QED  BY <1>3, <2>2, <2>3, BatchHead DEF Batch
<1> QED  BY <1>2, <1>3

LEMMA EmptyBatch == fired' = <<>> => Batch'
<1>1. <<>> \in Seq(FiredEvent)
  BY EmptySeq
<1> QED  BY <1>1 DEF Batch

(* While the client is new or connects the batch holds no other events     *)
(* than the one of its socket.                                             *)
LEMMA NewHasNoBatch == ThreadInv /\ phase = "new" => fired = <<>>
<1> SUFFICES ASSUME ThreadInv, phase = "new", fired # <<>> PROVE FALSE
  OBVIOUS
<1>1. Event \in FiredEvent /\ InPlace(Event)
  BY BatchHead DEF ThreadInv
<1>2. Event.fd = Sock \/ Event.fd = Notice
  BY <1>1, ClientAssumption DEF FiredEvent
<1> QED  BY <1>1, <1>2 DEF InPlace, ThreadInv, Shape

LEMMA ConnectingBatch ==
  ThreadInv /\ phase = "connecting" /\ fired # <<>> => Event.fd = Sock /\ first = Sock /\ Tail(fired) = <<>>
<1> SUFFICES ASSUME ThreadInv, phase = "connecting", fired # <<>>
             PROVE  Event.fd = Sock /\ first = Sock /\ Tail(fired) = <<>>
  OBVIOUS
<1>1. ASSUME NEW e \in FiredEvent, InPlace(e) PROVE e.fd = Sock
  <2>1. e.fd = Sock \/ e.fd = Notice
    BY ClientAssumption DEF FiredEvent
  <2> QED  BY <1>1, <2>1 DEF InPlace, ThreadInv, Shape
<1>2. Event.fd = Sock
  BY <1>1, BatchHead DEF ThreadInv
<1>3. Tail(fired) = <<>>
  <2> SUFFICES ASSUME Tail(fired) # <<>> PROVE FALSE
    OBVIOUS
  <2>1. Tail(fired) \in Seq(FiredEvent)
    BY BatchHead DEF ThreadInv
  <2>2. 1 \in DOMAIN Tail(fired) /\ Tail(fired)[1] \in FiredEvent
    BY <2>1, EmptySeq, LenProperties
  <2> QED  BY <1>1, <1>2, <2>2, BatchHead DEF ThreadInv
<1> QED  BY <1>2, <1>3 DEF ThreadInv, Batch

(* Which descriptor a callback is called for, and in which phase. *)
LEMMA CallsFor ==
  ASSUME ThreadInv, NEW cb, Calls(cb)
  PROVE  /\ cb \in {"read_cb", "write_cb"} => phase = "up" /\ Event.fd = Sock
         /\ cb = "connect_ser" => phase = "connecting" /\ Event.fd = Sock
         /\ fired # <<>> /\ fired' = Tail(fired) /\ first' = first
<1>1. fired # <<>> /\ Handler(Event) = cb /\ fired' = Tail(fired) /\ first' = first
  BY DEF Calls
<1>2. Event \in FiredEvent /\ InPlace(Event)
  BY <1>1, BatchHead DEF ThreadInv
<1>3. CASE Event.fd = Notice
  <2>1. Handler(Event) = "task_cb"
    BY <1>2, <1>3 DEF Handler, InPlace, ThreadInv, Shape
  <2> QED  BY <1>1, <2>1
<1>4. CASE Event.fd = Sock
  <2>1. phase \in {"connecting", "up"}
    BY <1>2, <1>4 DEF InPlace, ThreadInv, Shape
  <2>2. CASE phase = "connecting"
    <3>1. Handler(Event) = "connect_ser"
      BY <1>2, <1>4, <2>2 DEF Handler, InPlace, OnlyOut, ThreadInv, Shape
    <3> QED  BY <1>1, <1>4, <2>2, <3>1
  <2>3. CASE phase = "up"
    <3>1. Handler(Event) \in {"read_cb", "write_cb"}
      BY <1>2, <1>4, <2>3 DEF Handler, InPlace, OnlyOut, ThreadInv, Shape
    <3> QED  BY <1>1, <1>4, <2>3, <3>1
  <2> QED  BY <2>1, <2>2, <2>3
<1> QED  BY <1>2, <1>3, <1>4, ClientAssumption DEF FiredEvent

(* Most steps leave the tables and the buffers as they are. *)
LEMMA QuietStep ==
  ASSUME ThreadInv, UNCHANGED <<tables, phase, sockfd, attached, obuf, written, dealt>>,
         taken' \in 0..Len(written) /\ Len(written) - taken' <= SockCap
  PROVE  /\ Shape' /\ Buffers'
         /\ UNCHANGED first /\ (UNCHANGED fired \/ (fired # <<>> /\ fired' = Tail(fired))) => Batch'
<1>1. Shape'
  BY DEF ThreadInv, Shape
<1>2. Buffers'
  BY DEF ThreadInv, Buffers
<1>3. ASSUME UNCHANGED first, UNCHANGED fired \/ (fired # <<>> /\ fired' = Tail(fired))
      PROVE  Batch'
  <2>1. \A e \in FiredEvent : InPlace(e) => InPlace(e)'
    BY DEF InPlace
  <2> QED  BY <1>3, <2>1, BatchGoesOn DEF ThreadInv
<1> QED  BY <1>1, <1>2, <1>3

(* What the descriptors can be ready for. *)
LEMMA ReadyShape ==
  /\ Ready[Notice] \subseteq {"IN"}
  /\ Ready[Sock] \subseteq {"IN", "OUT", "HUP"}
  /\ "HUP" \in Ready[Sock] => "OUT" \in Ready[Sock]
<1> DEFINE r == CASE link = "refused" -> {"OUT", "HUP"}
                  [] link = "open"    -> (IF incoming # "nothing" THEN {"IN"} ELSE {})
                                            \cup (IF Room > 0 THEN {"OUT"} ELSE {})
                  [] link = "closed"  -> {"IN", "OUT"}
                  [] OTHER            -> {}
<1>1. Ready[Notice] = (IF notice > 0 THEN {"IN"} ELSE {}) /\ Ready[Sock] = r
  BY ClientAssumption DEF Ready
<1>2. r \subseteq {"IN", "OUT", "HUP"} /\ ("HUP" \in r => "OUT" \in r)
  <2>1. CASE link = "refused"
    BY <2>1
  <2>2. CASE link = "open"
    BY <2>2
  <2>3. CASE link = "closed"
    BY <2>3
  <2>4. CASE link \notin {"refused", "open", "closed"}
    BY <2>4
  <2> QED  BY <2>1, <2>2, <2>3, <2>4
<1> QED  BY <1>1, <1>2

LEMMA WaitBatch ==
  ASSUME ThreadInv, EpollWaits
  PROVE  Batch'
<1> DEFINE F == {fd \in DOMAIN tables.epoll : Reported(Ready, fd) # {}}
<1>1. PICK s \in SetToSeqs(F) :
        /\ fired' = [i \in DOMAIN s |-> [fd |-> s[i], events |-> Reported(Ready, s[i])]]
        /\ fired' # <<>> /\ first' = fired'[1].fd
  BY DEF EpollWaits, Wait, Batches
<1>2. UNCHANGED <<tables, phase>>
  BY DEF EpollWaits, Wait, clientVars
<1>3. F \subseteq Fd /\ F \subseteq DOMAIN tables.io
  BY ClientAssumption DEF ThreadInv, Shape, Good, Agree
<1>4. Cardinality(F) \in Nat
  <2>1. IsFiniteSet({Sock} \cup {Notice})
    BY FS_Singleton, FS_AddElement
  <2>2. F \subseteq {Sock} \cup {Notice}
    BY <1>3, ClientAssumption
  <2> HIDE DEF F
  <2> QED  BY <2>1, <2>2, FS_Subset, FS_CardinalityType
<1>5. /\ s \in [1..Cardinality(F) -> F]
      /\ \A i, j \in 1..Cardinality(F) : i # j => s[i] # s[j]
  BY DEF SetToSeqs
<1>6. ASSUME NEW fd \in F
      PROVE  /\ [fd |-> fd, events |-> Reported(Ready, fd)] \in FiredEvent
             /\ InPlace([fd |-> fd, events |-> Reported(Ready, fd)])
  <2>1. /\ fd \in Fd /\ fd \in DOMAIN tables.io /\ Reported(Ready, fd) # {}
        /\ tables.epoll[fd] = tables.io[fd].mask
    BY <1>3 DEF ThreadInv, Good, Agree
  <2>2. Reported(Ready, fd) = Ready[fd] \cap (tables.io[fd].mask \cup {"HUP"})
    BY <2>1 DEF Reported
  <2>3. CASE fd = Notice
    <3>1. tables.io[fd].mask = {"IN"}
      BY <2>1, <2>3 DEF ThreadInv, Shape
    <3>2. Reported(Ready, fd) = {"IN"}
      BY <2>1, <2>2, <2>3, <3>1, ReadyShape
    <3> QED  BY <2>1, <2>3, <3>2, ClientAssumption DEF FiredEvent, InPlace
  <2>4. CASE fd = Sock
    <3>1. Reported(Ready, fd) \subseteq {"IN", "OUT", "HUP"}
      BY <2>2, <2>4, ReadyShape
    <3>2. ASSUME phase = "connecting"
          PROVE  "OUT" \in Reported(Ready, fd) /\ "IN" \notin Reported(Ready, fd)
      <4>1. tables.io[fd].mask = {"OUT"}
        BY <2>4, <3>2 DEF ThreadInv, Shape
      <4> QED  BY <2>1, <2>2, <2>4, <3>1, <4>1, ReadyShape
    <3>3. ASSUME phase = "up", "OUT" \in Reported(Ready, fd)
          PROVE  "OUT" \in tables.io[fd].mask
      BY <2>2, <3>3
    <3> QED  BY <2>1, <2>4, <3>1, <3>2, <3>3, ClientAssumption DEF FiredEvent, InPlace, OnlyOut
  <2> QED  BY <2>1, <2>3, <2>4, ClientAssumption
<1>7. DOMAIN fired' = 1..Cardinality(F) /\ \A i \in 1..Cardinality(F) :
        fired'[i] = [fd |-> s[i], events |-> Reported(Ready, s[i])] /\ s[i] \in F
  BY <1>1, <1>5
<1> HIDE DEF F
<1>8. fired' \in Seq(FiredEvent)
  <2>1. fired' \in [1..Cardinality(F) -> FiredEvent]
    BY <1>1, <1>5, <1>6, <1>7
  <2> QED  BY <1>4, <2>1
<1>9. \A i, j \in DOMAIN fired' : fired'[i].fd = fired'[j].fd => i = j
  BY <1>5, <1>7
<1>10. ASSUME NEW i \in DOMAIN fired' PROVE InPlace(fired[i])'
  <2>1. PICK e \in FiredEvent : e = fired'[i] /\ InPlace(e)
    BY <1>6, <1>7, <1>10
  <2> QED  BY <1>2, <2>1 DEF InPlace, OnlyOut
<1>11. ASSUME phase = "connecting" PROVE first' = Sock
  <2>1. 1 \in DOMAIN fired'
    BY <1>1, <1>4, <1>7, <1>8, EmptySeq, LenProperties
  <2>2. first' \in Fd /\ first' \in DOMAIN tables.io
    BY <1>1, <1>3, <1>7, <2>1
  <2> QED  BY <1>11, <2>2, ClientAssumption DEF ThreadInv, Shape
<1> QED  BY <1>2, <1>8, <1>9, <1>10, <1>11 DEF Batch

LEMMA ConstructShapes ==
  ASSUME ThreadInv, Construct
  PROVE  Shape' /\ Batch' /\ Buffers'
<1> USE ClientAssumption, LoopAssumption DEF Events, Cb
<1>1. /\ phase = "new" /\ fired = <<>> /\ fired' = fired /\ sockfd = Sock /\ ~attached
      /\ UNCHANGED <<attached, dealt, written, taken>>
      /\ DOMAIN tables.io \subseteq {BadFd} /\ Good(tables)
      /\ obuf = <<>> /\ written = <<>> /\ dealt = <<>> /\ written \o <<>> = <<>>
  BY NewHasNoBatch, ConcatEmptySeq
     DEF Construct, ConnectAtOnce, ConnectInProgress, ConnectFails, ThreadInv, Shape, Buffers, queueVars
<1>2. Batch'
  BY <1>1, EmptyBatch
<1>3. CASE ConnectAtOnce
  <2> DEFINE U == DelEvent(tables, Sock, {"OUT"})
  <2>1. DOMAIN U.io \subseteq {BadFd} /\ Good(U)
    BY <1>1, DelEventEffect, DelEventGood
  <2> HIDE DEF U
  <2>2. tables' = AddEvent(U, Sock, "IN", "read_cb") /\ phase' = "up" /\ UNCHANGED <<sockfd, obuf>>
    BY <1>3 DEF ConnectAtOnce, U
  <2>3. /\ DOMAIN tables'.io = DOMAIN U.io \cup {Sock}
        /\ tables'.io[Sock].mask = {"IN"} /\ tables'.io[Sock].read_cb = "read_cb"
    BY <2>1, <2>2, AddEventEffect DEF NoEvent
  <2>4. Shape'
    BY <1>1, <2>1, <2>2, <2>3 DEF Shape
  <2>5. Buffers'
    BY <1>1, <2>2 DEF Buffers, ThreadInv
  <2> QED  BY <1>2, <2>4, <2>5
<1>4. CASE ConnectInProgress
  <2>2. /\ tables' = AddEvent(tables, Sock, "OUT", "connect_ser") /\ phase' = "connecting"
        /\ UNCHANGED <<sockfd, obuf>>
    BY <1>4 DEF ConnectInProgress
  <2>3. /\ DOMAIN tables'.io = DOMAIN tables.io \cup {Sock}
        /\ tables'.io[Sock].mask = {"OUT"} /\ tables'.io[Sock].write_cb = "connect_ser"
    BY <1>1, <2>2, AddEventEffect DEF NoEvent
  <2>4. Shape'
    BY <1>1, <2>2, <2>3 DEF Shape
  <2>5. Buffers'
    BY <1>1, <2>2 DEF Buffers, ThreadInv
  <2> QED  BY <1>2, <2>4, <2>5
<1>5. CASE ConnectFails
  <2>1. tables' = DelFd(tables, Sock) /\ phase' = "ended" /\ sockfd' = BadFd /\ obuf' = <<>>
    BY <1>1, <1>5 DEF ConnectFails, Clean
  <2>2. DOMAIN tables'.io \subseteq {BadFd}
    BY <1>1, <2>1, DelFdEffect
  <2>3. Shape'
    BY <1>1, <2>1, <2>2 DEF Shape
  <2>4. Buffers'
    BY <1>1, <2>1, EmptySeq DEF Buffers, ThreadInv
  <2> QED  BY <1>2, <2>3, <2>4
<1> QED  BY <1>3, <1>4, <1>5 DEF Construct

(* connect_ser finds one descriptor in the tables and one event in the     *)
(* batch, its own, and leaves the batch empty.                             *)
LEMMA ConnectSerShapes ==
  ASSUME ThreadInv, ConnectSer \/ ConnectSerFails
  PROVE  Shape' /\ Batch' /\ Buffers'
<1> USE ClientAssumption, LoopAssumption DEF Events, Cb
<1>1. Calls("connect_ser")
  BY DEF ConnectSer, ConnectSerFails
<1>2. /\ phase = "connecting" /\ first = Sock /\ fired' = <<>>
  BY <1>1, CallsFor, ConnectingBatch
<1>3. Batch'
  BY <1>2, EmptyBatch
<1>4. /\ sockfd = Sock /\ ~attached /\ Good(tables)
      /\ DOMAIN tables.io \subseteq {Sock, BadFd} /\ Sock \in DOMAIN tables.io
      /\ tables.io[Sock].mask = {"OUT"}
      /\ obuf = <<>> /\ written = <<>> /\ dealt = <<>> /\ written \o <<>> = <<>>
  BY <1>2, ConcatEmptySeq DEF ThreadInv, Shape, Buffers
<1> DEFINE U == DelEvent(tables, Sock, {"OUT"})
<1>5. DOMAIN U.io \subseteq {BadFd} /\ Good(U)
  BY <1>4, DelEventEffect, DelEventGood
<1> HIDE DEF U
<1>6. CASE ConnectSer
  <2> DEFINE T1 == AddEvent(U, Sock, "IN", "read_cb")
  <2>1. /\ tables' = AddEvent(T1, Notice, "IN", "task_cb") /\ phase' = "up" /\ attached' = TRUE
        /\ UNCHANGED <<sockfd, obuf, written, taken, dealt>>
    BY <1>2, <1>4, <1>6 DEF ConnectSer, SetTaskCb, U
  <2>2. /\ DOMAIN T1.io = DOMAIN U.io \cup {Sock} /\ Good(T1)
        /\ T1.io[Sock].mask = {"IN"} /\ T1.io[Sock].read_cb = "read_cb"
    BY <1>5, AddEventEffect, AddEventGood DEF NoEvent
  <2> HIDE DEF T1
  <2>3. /\ DOMAIN tables'.io = DOMAIN T1.io \cup {Notice}
        /\ tables'.io[Sock] = T1.io[Sock]
        /\ tables'.io[Notice].mask = {"IN"} /\ tables'.io[Notice].read_cb = "task_cb"
    BY <1>5, <2>1, <2>2, AddEventEffect DEF NoEvent
  <2>4. Shape'
    BY <1>4, <1>5, <2>1, <2>2, <2>3 DEF Shape
  <2>5. Buffers'
    BY <1>4, <2>1 DEF Buffers, ThreadInv
  <2> QED  BY <1>3, <2>4, <2>5
<1>7. CASE ConnectSerFails
  <2>1. /\ tables' = DelFd(U, Sock) /\ phase' = "ended" /\ sockfd' = BadFd /\ obuf' = <<>>
        /\ UNCHANGED <<attached, written, taken, dealt>>
    BY <1>2, <1>4, <1>7 DEF ConnectSerFails, Clean, U, queueVars
  <2>2. DOMAIN tables'.io \subseteq {BadFd}
    BY <1>5, <2>1, DelFdEffect
  <2>3. Shape'
    BY <1>4, <2>1, <2>2 DEF Shape
  <2>4. Buffers'
    BY <1>4, <2>1, EmptySeq DEF Buffers, ThreadInv
  <2> QED  BY <1>3, <2>3, <2>4
<1> QED  BY <1>6, <1>7

(* A task goes from the callback's queue to the buffer, or, when the       *)
(* client has ended, to a buffer that nobody empties.                      *)
LEMMA SendMsgShapes ==
  ASSUME ThreadInv, SendMsg
  PROVE  Shape' /\ Batch' /\ Buffers'
<1> USE ClientAssumption, LoopAssumption DEF Events, Cb
<1>1. /\ obuf' = Append(obuf, Head(local)) /\ dealt' = Append(dealt, Head(local))
      /\ tables' = AddEvent(tables, sockfd, "OUT", "write_cb")
      /\ UNCHANGED <<fired, first, phase, sockfd, written, taken, attached>>
      /\ loop = "deal" /\ local # <<>>
  BY DEF SendMsg, DealTask
<1>2. attached /\ phase \in {"up", "ended"} /\ Good(tables)
  BY <1>1 DEF ThreadInv, Inv, NoLostWakeup, Shape
<1>3. Head(local) \in Task /\ obuf' \in Seq(Task) /\ written \in Seq(Task) /\ obuf \in Seq(Task)
  <2>1. local \in Seq(Task) /\ obuf \in Seq(Task) /\ written \in Seq(Task)
    BY DEF ThreadInv, Inv, TypeOK, Buffers
  <2>2. Head(local) \in Task
    BY <1>1, <2>1, HeadTailProperties
  <2> QED  BY <1>1, <2>1, <2>2, AppendProperties
<1>4. CASE phase = "up"
  <2>1. sockfd = Sock /\ Sock \in DOMAIN tables.io
    BY <1>4 DEF ThreadInv, Shape
  <2>2. /\ DOMAIN tables'.io = DOMAIN tables.io
        /\ \A x \in DOMAIN tables.io \ {Sock} : tables'.io[x] = tables.io[x]
        /\ tables'.io[Sock].mask = tables.io[Sock].mask \cup {"OUT"}
        /\ tables'.io[Sock].read_cb = tables.io[Sock].read_cb
        /\ tables'.io[Sock].write_cb = "write_cb"
    <3>1. "OUT" \in tables.io[Sock].mask => tables.io[Sock].write_cb = "write_cb"
      BY <1>4 DEF ThreadInv, Shape
    <3>2. tables' = AddEvent(tables, Sock, "OUT", "write_cb")
      BY <1>1, <2>1
    <3>3. /\ DOMAIN tables'.io = DOMAIN tables.io \cup {Sock}
          /\ \A x \in DOMAIN tables.io \ {Sock} : tables'.io[x] = tables.io[x]
          /\ tables'.io[Sock].mask = tables.io[Sock].mask \cup {"OUT"}
          /\ tables'.io[Sock].read_cb = tables.io[Sock].read_cb
          /\ tables'.io[Sock].write_cb = IF "OUT" \in tables.io[Sock].mask
                                         THEN tables.io[Sock].write_cb ELSE "write_cb"
      BY <1>2, <2>1, <3>2, AddEventEffect
    <3> QED  BY <2>1, <3>1, <3>3
  <2>3. Shape'
    BY <1>1, <1>2, <1>4, <2>1, <2>2 DEF ThreadInv, Shape
  <2>4. Batch'
    <3>1. \A e \in FiredEvent : InPlace(e) => InPlace(e)'
      BY <1>1, <1>4, <2>2 DEF InPlace, OnlyOut
    <3> QED  BY <1>1, <3>1, BatchGoesOn DEF ThreadInv
  <2>5. dealt' = written \o obuf'
    <3>1. dealt = written \o obuf
      BY <1>4 DEF ThreadInv, Buffers
    <3> QED  BY <1>1, <1>3, <3>1, AppendToConcat
  <2>6. Buffers'
    BY <1>1, <1>2, <1>3, <1>4, <2>2, <2>5 DEF ThreadInv, Buffers
  <2> QED  BY <2>3, <2>4, <2>6
<1>5. CASE phase = "ended"
  <2>1. sockfd = BadFd /\ BadFd # Sock /\ BadFd # Notice
    BY <1>5 DEF ThreadInv, Shape
  <2>2. /\ DOMAIN tables'.io = DOMAIN tables.io \cup {BadFd}
        /\ \A x \in DOMAIN tables.io \ {BadFd} : tables'.io[x] = tables.io[x]
    BY <1>1, <1>2, <2>1, AddEventEffect
  <2>3. Shape'
    BY <1>1, <1>2, <1>5, <2>1, <2>2 DEF ThreadInv, Shape
  <2>4. Batch'
    <3>1. \A e \in FiredEvent : InPlace(e) => InPlace(e)'
      BY <1>1, <1>5, <2>2 DEF InPlace, OnlyOut
    <3> QED  BY <1>1, <3>1, BatchGoesOn DEF ThreadInv
  <2>5. Buffers'
    BY <1>1, <1>2, <1>3, <1>5 DEF ThreadInv, Buffers
  <2> QED  BY <2>3, <2>4, <2>5
<1> QED  BY <1>2, <1>4, <1>5

LEMMA CutTasks ==
  ASSUME NEW s \in Seq(Task), NEW n \in 0..Len(s)
  PROVE  /\ SubSeq(s, 1, n) \in Seq(Task) /\ SubSeq(s, n + 1, Len(s)) \in Seq(Task)
         /\ Len(SubSeq(s, 1, n)) = n
         /\ SubSeq(s, 1, n) \o SubSeq(s, n + 1, Len(s)) = s
<1>1. Len(s) \in Nat /\ \A i \in 1..Len(s) : s[i] \in Task
  BY LenProperties
<1>2. SubSeq(s, 1, n) \in Seq(Task) /\ Len(SubSeq(s, 1, n)) = n
  BY <1>1, SubSeqProperties, n \in Int
<1>3. SubSeq(s, n + 1, Len(s)) \in Seq(Task)
  <2>1. n + 1 \in Int /\ Len(s) \in Int /\ \A i \in (n + 1)..Len(s) : s[i] \in Task
    BY <1>1
  <2> QED  BY <2>1, SubSeqProperties
<1>4. SubSeq(s, 1, n) \o SubSeq(s, n + 1, Len(s)) = SubSeq(s, 1, Len(s))
  <2>1. 1 \in 1..(Len(s) + 1) /\ n \in (1 - 1)..Len(s) /\ Len(s) \in n..Len(s)
    BY <1>1
  <2> QED  BY <2>1, ConcatAdjacentSubSeq
<1> QED  BY <1>2, <1>3, <1>4, SubSeqFull

LEMMA DoWriteShapes ==
  ASSUME ThreadInv, DoWrite
  PROVE  Shape' /\ Batch' /\ Buffers'
<1> USE ClientAssumption, LoopAssumption DEF Events, Cb
<1> DEFINE n == IF Room < Len(obuf) THEN Room ELSE Len(obuf)
<1>1. /\ phase = "up" /\ Event.fd = Sock /\ fired # <<>> /\ fired' = Tail(fired) /\ first' = first
      /\ UNCHANGED <<phase, sockfd, taken, attached, dealt>>
  BY CallsFor DEF DoWrite, queueVars
<1>2. /\ obuf \in Seq(Task) /\ written \in Seq(Task)
      /\ taken \in 0..Len(written) /\ Len(written) - taken <= SockCap
      /\ dealt = written \o obuf /\ sockfd = Sock /\ Good(tables) /\ Sock \in DOMAIN tables.io
      /\ "IN" \in tables.io[Sock].mask
  BY <1>1 DEF ThreadInv, Shape, Buffers
<1>3. n \in 0..Len(obuf) /\ n <= Room
  <2>1. Len(obuf) \in Nat /\ Len(written) \in Nat
    BY <1>2, LenProperties
  <2> QED  BY <1>2, <2>1 DEF Room
<1>4. PICK x \in Seq(Task), y \in Seq(Task) :
        /\ x \o y = obuf /\ Len(x) = n
        /\ written' = written \o x /\ obuf' = y
  <2>1. written' = written \o SubSeq(obuf, 1, n) /\ obuf' = SubSeq(obuf, n + 1, Len(obuf))
    BY DEF DoWrite
  <2> HIDE DEF n
  <2> QED  BY <1>2, <1>3, <2>1, CutTasks
<1> HIDE DEF n
<1>5. /\ written' \in Seq(Task) /\ Len(written') = Len(written) + n
      /\ written' \o obuf' = written \o obuf
  <2>0. written \in Seq(Task)
    BY <1>2
  <2>1. (written \o x) \o y = written \o (x \o y)
    BY <2>0, ConcatAssociative, SMTT(20)
  <2> QED  BY <1>2, <1>4, <2>1, ConcatProperties
<1>6. taken' \in 0..Len(written') /\ Len(written') - taken' <= SockCap
  <2>1. Len(written) \in Nat /\ n \in Nat /\ n <= SockCap - (Len(written) - taken)
    BY <1>2, <1>3, LenProperties DEF Room
  <2> QED  BY <1>1, <1>2, <1>5, <2>1
<1>7. \/ tables' = tables
      \/ obuf' = <<>> /\ tables' = DelEvent(tables, Sock, {"OUT"})
  <2>1. tables' = IF obuf' = <<>> THEN DelEvent(tables, sockfd, {"OUT"}) ELSE tables
    BY DEF DoWrite
  <2> QED  BY <1>2, <2>1
<1>8. /\ DOMAIN tables'.io = DOMAIN tables.io
      /\ \A d \in DOMAIN tables.io \ {Sock} : tables'.io[d] = tables.io[d]
      /\ tables'.io[Sock].mask \in {tables.io[Sock].mask, tables.io[Sock].mask \ {"OUT"}}
      /\ obuf' # <<>> => tables' = tables
      /\ tables'.io[Sock].read_cb = tables.io[Sock].read_cb
      /\ tables'.io[Sock].write_cb = tables.io[Sock].write_cb
  <2>1. CASE tables' = tables
    BY <2>1
  <2>2. CASE obuf' = <<>> /\ tables' = DelEvent(tables, Sock, {"OUT"})
    <3>1. tables' = DelEvent(tables, Sock, {"OUT"}) /\ obuf' = <<>>
      BY <2>2
    <3>2. /\ DOMAIN tables.io \ {Sock} \subseteq DOMAIN tables'.io
          /\ DOMAIN tables'.io \subseteq DOMAIN tables.io
          /\ \A d \in DOMAIN tables.io \ {Sock} : tables'.io[d] = tables.io[d]
          /\ Sock \in DOMAIN tables'.io <=> Sock \in DOMAIN tables.io /\ "IN" \in tables.io[Sock].mask
          /\ Sock \in DOMAIN tables'.io => /\ tables'.io[Sock].mask = tables.io[Sock].mask \ {"OUT"}
                                          /\ tables'.io[Sock].read_cb = tables.io[Sock].read_cb
                                          /\ tables'.io[Sock].write_cb = tables.io[Sock].write_cb
      BY <1>2, <3>1, DelEventEffect
    <3>3. Sock \in DOMAIN tables'.io
      BY <1>2, <3>2
    <3> QED  BY <1>2, <3>1, <3>2, <3>3
  <2> QED  BY <1>7, <2>1, <2>2
<1>9. Shape'
  BY <1>1, <1>8 DEF ThreadInv, Shape
<1>10. Batch'
  <2>1. \A e \in FiredEvent : InPlace(e) /\ e.fd # Event.fd => InPlace(e)'
    BY <1>1, <1>8 DEF InPlace, OnlyOut
  <2> QED  BY <1>1, <2>1, BatchGoesOn DEF ThreadInv
<1>11. Buffers'
  <2>1. obuf' # <<>> => "OUT" \in tables'.io[Sock].mask
    <3>1. y # <<>> => obuf # <<>>
      <4> SUFFICES ASSUME obuf = <<>> PROVE y = <<>>
        OBVIOUS
      <4>1. Len(x) \in Nat /\ Len(y) \in Nat /\ Len(x) + Len(y) = 0
        BY <1>4, LenProperties, ConcatProperties
      <4> QED  BY <4>1, EmptySeq
    <3> QED  BY <1>1, <1>4, <1>8, <3>1 DEF ThreadInv, Buffers
  <2> QED  BY <1>1, <1>2, <1>4, <1>5, <1>6, <2>1 DEF ThreadInv, Buffers
<1> QED  BY <1>9, <1>10, <1>11

(* The client ends in the callback of its socket: what is left of the      *)
(* batch is of the queue.                                                  *)
LEMMA ClosingShapes ==
  ASSUME ThreadInv, DoWriteFails \/ DoReadCloses
  PROVE  Shape' /\ Batch' /\ Buffers'
<1>1. /\ phase = "up" /\ Event.fd = Sock /\ fired # <<>> /\ fired' = Tail(fired) /\ first' = first
      /\ Clean(tables) /\ UNCHANGED <<taken, attached, dealt, written>>
  <2>1. Calls("write_cb") \/ Calls("read_cb")
    BY DEF DoWriteFails, DoReadCloses
  <2> QED  BY <2>1, CallsFor DEF DoWriteFails, DoReadCloses, queueVars
<1>2. sockfd = Sock /\ tables' = DelFd(tables, Sock) /\ phase' = "ended" /\ sockfd' = BadFd
      /\ obuf' = <<>>
  BY <1>1 DEF Clean, ThreadInv, Shape
<1>3. /\ DOMAIN tables'.io = DOMAIN tables.io \ {Sock}
      /\ \A x \in DOMAIN tables.io \ {Sock} : tables'.io[x] = tables.io[x]
  BY <1>2, DelFdEffect
<1>4. Shape'
  BY <1>1, <1>2, <1>3, ClientAssumption DEF ThreadInv, Shape
<1>5. Batch'
  <2>1. \A e \in FiredEvent : InPlace(e) /\ e.fd # Event.fd => InPlace(e)'
    BY <1>1, <1>2, <1>3 DEF InPlace, OnlyOut
  <2> QED  BY <1>1, <1>2, <2>1, BatchGoesOn DEF ThreadInv
<1>6. Buffers'
  BY <1>1, <1>2, EmptySeq DEF ThreadInv, Buffers
<1> QED  BY <1>4, <1>5, <1>6

LEMMA NextThreadInv ==
  ASSUME ThreadInv, [ThreadNext]_allVars
  PROVE  ThreadInv'
<1>1. Inv'
  BY StepOfQueue, NextInv DEF ThreadInv
<1>2. Good(tables)'
  BY StepGood DEF ThreadInv
<1>3. Shape' /\ Batch' /\ Buffers'
  <2>0. /\ taken \in 0..Len(written) /\ Len(written) - taken <= SockCap
        /\ Len(written) \in Nat /\ SockCap \in Nat
    BY ClientAssumption, LenProperties DEF ThreadInv, Buffers
  <2>1. CASE Construct
    BY <2>1, ConstructShapes
  <2>2. CASE ConnectSer \/ ConnectSerFails
    BY <2>2, ConnectSerShapes
  <2>3. CASE SendMsg
    BY <2>3, SendMsgShapes
  <2>4. CASE DoWrite
    BY <2>4, DoWriteShapes
  <2>5. CASE DoWriteFails \/ DoReadCloses
    BY <2>5, ClosingShapes
  <2>6. CASE EpollWaits
    <3>1. UNCHANGED <<tables, phase, sockfd, attached, obuf, written, dealt, taken>>
      BY <2>6 DEF EpollWaits, Wait, queueVars, clientVars
    <3> QED  BY <2>0, <2>6, <3>1, QuietStep, WaitBatch
  <2>7. CASE StartProcessReturns \/ TaskCb \/ TaskCbRecvs \/ TaskCbReturns \/ DoRead
    <3>1. UNCHANGED <<tables, phase, sockfd, attached, obuf, written, dealt, taken, first>>
      BY <2>7 DEF StartProcessReturns, StopLoop, TaskCb, EpollWait, TaskCbRecvs, RecvTasks,
                  TaskCbReturns, Return, DoRead, Calls, queueVars, clientVars, loopVars
    <3>2. UNCHANGED fired \/ (fired # <<>> /\ fired' = Tail(fired))
      BY <2>7 DEF StartProcessReturns, StopLoop, TaskCb, TaskCbRecvs, TaskCbReturns, DoRead, Calls,
                  loopVars
    <3> QED  BY <2>0, <3>1, <3>2, QuietStep
  <2>8. CASE (\E t \in Task : SendsTask(t)) \/ Handshake \/ ServerTakes \/ ServerSends \/ ServerCloses
    <3>1. UNCHANGED <<tables, phase, sockfd, attached, obuf, written, dealt, fired, first>>
      BY <2>8 DEF SendsTask, SendTask, Handshake, ServerTakes, ServerSends, ServerCloses,
                  queueVars, clientVars, loopVars
    <3>2. taken' = taken \/ (taken < Len(written) /\ taken' = taken + 1)
      BY <2>8 DEF SendsTask, Handshake, ServerTakes, ServerSends, ServerCloses, clientVars
    <3>3. taken' \in 0..Len(written) /\ Len(written) - taken' <= SockCap
      BY <2>0, <3>2
    <3> QED  BY <3>1, <3>3, QuietStep
  <2>9. CASE UNCHANGED allVars
    <3>1. UNCHANGED <<tables, phase, sockfd, attached, obuf, written, dealt, taken, fired, first>>
      BY <2>9 DEF allVars, queueVars, clientVars, loopVars
    <3> QED  BY <2>0, <3>1, QuietStep
  <2> QED
    BY <2>1, <2>2, <2>3, <2>4, <2>5, <2>6, <2>7, <2>8, <2>9 DEF ThreadNext, Thread
<1> QED  BY <1>1, <1>2, <1>3 DEF ThreadInv

LEMMA InitThreadInv == ThreadInit => ThreadInv
<1> SUFFICES ASSUME ThreadInit PROVE ThreadInv
  OBVIOUS
<1>1. <<>> \in Seq(Task) /\ <<>> \in Seq(FiredEvent) /\ Len(<<>>) = 0
  BY EmptySeq
<1>2. Inv /\ Good(tables)
  BY InitInv, NoTablesGood DEF ThreadInit, LoopInit
<1>3. Shape
  BY ClientAssumption DEF ThreadInit, LoopInit, Init, Shape, NoTables, Empty
<1>4. Batch
  BY <1>1 DEF ThreadInit, LoopInit, Batch
<1>5. Buffers
  BY <1>1, ClientAssumption DEF ThreadInit, Init, Buffers
<1> QED  BY <1>2, <1>3, <1>4, <1>5 DEF ThreadInv

LEMMA ThreadInductive == ThreadFairSpec => []ThreadInv
BY InitThreadInv, NextThreadInv, PTL DEF ThreadFairSpec

(* No event of a batch is stale, whatever the callbacks before it in the   *)
(* batch have registered and deleted (event_loop.cpp:38-80).               *)
THEOREM BatchIsAlwaysFresh == ThreadFairSpec => []FreshBatch
BY ThreadInductive, InvMeansFresh, PTL

(* A task that was dealt with was written or is in the buffer, in its      *)
(* order, and the socket is watched for it with do_write, as long as the   *)
(* client lasts (tcp_client.cpp:25-56, 123-144, 200-219).                  *)
THEOREM DealtStaysUnderWay == ThreadFairSpec => []DealtIsUnderWay
BY ThreadInductive, InvMeansUnderWay, PTL
=============================================================================
