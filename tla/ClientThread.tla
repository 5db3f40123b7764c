---------------------------- MODULE ClientThread ----------------------------
(***************************************************************************)
(* A client thread of the agent, of dns_client or report_client: an event  *)
(* loop, a tcp_client in it, and the thread_queue that the connection hook *)
(* attaches to the loop.  The udp threads send tasks; the thread passes    *)
(* them on to the server while it is connected, and to nobody afterwards.  *)
(* What goes through the socket are whole messages here, TcpConnection has *)
(* their bytes.                                                            *)
(***************************************************************************)
EXTENDS ThreadQueue, EventLoop

CONSTANTS
  Sock, Notice,  \* the descriptors of the socket and of the queue
  SockCap        \* messages the kernels hold

ASSUME ClientAssumption ==
  /\ Fd = {Sock, Notice} /\ Sock # Notice /\ SockCap \in Nat \ {0}
  /\ NoCb \notin {"read_cb", "write_cb", "connect_ser", "task_cb"}

VARIABLES
  phase,     \* of the tcp_client: "new", "connecting", "up" or "ended"
  link,      \* the connection, as the kernel has it
  sockfd,    \* _sockfd
  obuf,      \* messages in the output buffer
  written,   \* history: messages given to the kernel
  taken,     \* how many of them the server has read
  incoming,  \* what the server has sent: "nothing", "messages" or "abnormal"
  said       \* how often the server has sent

clientVars == <<phase, link, sockfd, obuf, written, taken, incoming,
                said>>
queueVars == <<tasks, notice, attached, loop, local, sent, dealt>>
allVars == <<queueVars, loopVars, clientVars>>

ThreadInit == /\ Init /\ LoopInit
              /\ phase = "new" /\ link = "none" /\ sockfd = Sock
              /\ obuf = <<>> /\ written = <<>> /\ taken = 0
              /\ incoming = "nothing" /\ said = 0

Room == SockCap - (Len(written) - taken)

(* What the two descriptors are ready for. *)
Ready == [fd \in Fd |->
  IF fd = Notice THEN IF notice > 0 THEN {"IN"} ELSE {}
  ELSE CASE link = "refused" -> {"OUT", "HUP"}
         [] link = "open"    -> (IF incoming # "nothing" THEN {"IN"} ELSE {})
                                  \cup (IF Room > 0 THEN {"OUT"} ELSE {})
         [] link = "closed"  -> {"IN", "OUT"}
         [] OTHER            -> {}]

(* Mutant: the queue leaves the loop with the connection. *)
CleanDetachesQueue(T) == /\ tables' = DelFd(DelFd(T, sockfd), Notice)
                         /\ obuf' = <<>> /\ sockfd' = BadFd
                         /\ phase' = "ended"

(* clean, from tables T. *)
Clean(T) == /\ tables' = DelFd(T, sockfd)
            /\ obuf' = <<>> /\ sockfd' = BadFd
            /\ phase' = "ended"
-----------------------------------------------------------------------------
(* The constructor: connect.  Success at once runs connect_ser, and no     *)
(* hook, for the hook is registered after the constructor.                 *)
ConnectAtOnce == /\ phase = "new"
                 /\ tables' = AddEvent(DelEvent(tables, Sock, {"OUT"}), Sock, "IN", "read_cb")
                 /\ phase' = "up" /\ link' = "open"
                 /\ UNCHANGED <<queueVars, fired, first, running, sockfd, obuf, written,
                                taken, incoming, said>>

(* Mutant: the queue is attached before there is a connection. *)
ConnectInProgressAttaches ==
  /\ phase = "new"
  /\ tables' = AddEvent(AddEvent(tables, Sock, "OUT", "connect_ser"), Notice, "IN", "task_cb")
  /\ phase' = "connecting" /\ link' = "pending"
  /\ UNCHANGED <<queueVars, fired, first, running, sockfd, obuf, written, taken, incoming, said>>

ConnectInProgress == /\ phase = "new"
                     /\ tables' = AddEvent(tables, Sock, "OUT", "connect_ser")
                     /\ phase' = "connecting" /\ link' = "pending"
                     /\ UNCHANGED <<queueVars, fired, first, running, sockfd, obuf,
                                    written, taken, incoming, said>>

ConnectFails == /\ phase = "new" /\ Clean(tables)
                /\ UNCHANGED <<queueVars, fired, first, running, link, written, taken,
                               incoming, said>>

(* The loop runs and no callback is in the middle of something. *)
AtLoop == phase # "new" /\ loop = "wait"

EpollWaits == /\ AtLoop /\ Wait(Ready)
              /\ UNCHANGED <<queueVars, clientVars>>

StartProcessReturns == /\ AtLoop /\ StopLoop
                       /\ UNCHANGED <<queueVars, clientVars>>

(* connect_ser, on the descriptor that the loop passes, which is that of   *)
(* the first event of the batch; success ends with the hook, which         *)
(* attaches the queue (conn2_dns_ser, conn2_report_ser).                   *)
ConnectSer ==
  LET T1 == AddEvent(DelEvent(tables, first, {"OUT"}), first, "IN", "read_cb")
      T2 == IF obuf # <<>> THEN AddEvent(T1, first, "OUT", "write_cb") ELSE T1
  IN /\ AtLoop /\ Calls("connect_ser") /\ link # "refused"
     /\ SetTaskCb
     /\ tables' = AddEvent(T2, Notice, "IN", "task_cb")
     /\ phase' = "up"
     /\ UNCHANGED <<link, sockfd, obuf, written, taken, incoming, said>>

ConnectSerFails == /\ AtLoop /\ Calls("connect_ser") /\ link = "refused"
                   /\ Clean(DelEvent(tables, first, {"OUT"}))
                   /\ UNCHANGED <<queueVars, link, written, taken, incoming, said>>

(* dns_task_cb, report_task_cb: the queue is emptied, ... *)
TaskCb == /\ AtLoop /\ Calls("task_cb") /\ EpollWait
          /\ UNCHANGED <<tables, clientVars>>
TaskCbRecvs == RecvTasks /\ UNCHANGED <<loopVars, clientVars>>

(* Mutant: the message is buffered, nothing watches for the socket. *)
SendMsgUnwatched == /\ DealTask
                    /\ obuf' = Append(obuf, Head(local))
                    /\ UNCHANGED <<loopVars, phase, link, sockfd, written, taken, incoming, said>>

(* ... and each task is sent, on a client that may have ended: its buffer  *)
(* grows and -1 is registered.                                             *)
SendMsg == /\ DealTask
           /\ obuf' = Append(obuf, Head(local))
           /\ tables' = AddEvent(tables, sockfd, "OUT", "write_cb")
           /\ UNCHANGED <<fired, first, running, phase, link, sockfd, written, taken, incoming, said>>
TaskCbReturns == Return /\ UNCHANGED <<loopVars, clientVars>>

(* do_write: up to an empty buffer or a full socket. *)
DoWrite == LET n == IF Room < Len(obuf) THEN Room ELSE Len(obuf)
               rest == SubSeq(obuf, n + 1, Len(obuf))
           IN /\ AtLoop /\ Calls("write_cb")
              /\ written' = written \o SubSeq(obuf, 1, n) /\ obuf' = rest
              /\ tables' = IF rest = <<>> THEN DelEvent(tables, sockfd, {"OUT"}) ELSE tables
              /\ UNCHANGED <<queueVars, phase, link, sockfd, taken, incoming, said>>

(* A write after the server has closed may fail. *)
DoWriteFails == /\ AtLoop /\ Calls("write_cb") /\ link = "closed"
                /\ Clean(tables)
                /\ UNCHANGED <<queueVars, link, written, taken, incoming, said>>

(* do_read: messages go to their callbacks, which only read them; the end  *)
(* of the stream, and an abnormal message, close.                          *)
DoRead == /\ AtLoop /\ Calls("read_cb") /\ incoming = "messages"
          /\ incoming' = "nothing"
          /\ UNCHANGED <<tables, queueVars, phase, link, sockfd, obuf, written, taken, said>>

DoReadCloses == /\ AtLoop /\ Calls("read_cb") /\ incoming # "messages"
                /\ incoming' = "nothing"
                /\ Clean(tables)
                /\ UNCHANGED <<queueVars, link, written, taken, said>>

Construct == ConnectAtOnce \/ ConnectInProgress \/ ConnectFails
Thread == \/ Construct
          \/ EpollWaits \/ StartProcessReturns
          \/ ConnectSer \/ ConnectSerFails
          \/ TaskCb \/ TaskCbRecvs \/ SendMsg \/ TaskCbReturns
          \/ DoWrite \/ DoWriteFails \/ DoRead \/ DoReadCloses
-----------------------------------------------------------------------------
(* A udp thread has a task for the server. *)
SendsTask(t) == SendTask(t) /\ UNCHANGED <<loopVars, clientVars>>

(* The network and the server. *)
Handshake == /\ link = "pending" /\ link' \in {"open", "refused"}
             /\ UNCHANGED <<queueVars, loopVars, phase, sockfd, obuf, written, taken, incoming, said>>

ServerTakes == /\ link = "open" /\ taken < Len(written)
               /\ taken' = taken + 1
               /\ UNCHANGED <<queueVars, loopVars, phase, link, sockfd, obuf, written, incoming, said>>

(* Bound: the server sends no more often than it has read, and once more. *)
ServerSends == /\ link = "open" /\ incoming = "nothing" /\ said <= taken
               /\ incoming' \in {"messages", "abnormal"} /\ said' = said + 1
               /\ UNCHANGED <<queueVars, loopVars, phase, link, sockfd, obuf, written, taken>>

ServerCloses == /\ link = "open" /\ link' = "closed"
                /\ UNCHANGED <<queueVars, loopVars, phase, sockfd, obuf, written, taken, incoming, said>>

ThreadNext == \/ Thread \/ \E t \in Task : SendsTask(t)
              \/ Handshake \/ ServerTakes \/ ServerSends \/ ServerCloses

(* The thread runs on, an attempt to connect ends, and the server reads.   *)
(* Nobody has to send, and the server may close at any time.               *)
ThreadFairSpec == /\ ThreadInit /\ [][ThreadNext]_allVars
                  /\ WF_allVars(Thread) /\ WF_allVars(Handshake) /\ WF_allVars(ServerTakes)
-----------------------------------------------------------------------------
(* A message that goes from the hand of the task callback is in the buffer *)
(* or was written, in the order of the tasks, while the client lasts; the  *)
(* callback of its EPOLLOUT is then the one that writes; and connect_ser,  *)
(* the only callback that uses the descriptor it is given                  *)
(* (tcp_client.cpp:25-56), is given its own.                               *)
DealtIsUnderWay ==
  /\ phase = "up" => /\ dealt = written \o obuf
                     /\ obuf # <<>> => /\ "OUT" \in tables.epoll[Sock]
                                       /\ tables.io[Sock].write_cb = "write_cb"
  /\ phase = "connecting" /\ fired # <<>> => first = Sock

(* A task sent to a thread that is or gets attached is dealt with, and is  *)
(* written unless the connection ends: it neither waits in the queue nor   *)
(* in the buffer (thread_queue.h:41, event_loop.cpp:22,                    *)
(* agent_report_client.cpp:5-26, tcp_client.cpp:123-144, 200-219).         *)
TaskGetsOut ==
  \A n \in 1..MaxSent :
    (attached /\ sent >= n) ~> (Len(dealt) >= n /\ (Len(written) >= n \/ phase = "ended"))
=============================================================================
