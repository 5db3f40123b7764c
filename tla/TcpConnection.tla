--------------------------- MODULE TcpConnection ---------------------------
(***************************************************************************)
(* The two ends of one connection, a tcp_client and a tcp_conn, and the    *)
(* messages that go over it as a stream of bytes: send_msg appends a       *)
(* header and its data to the output buffer, do_write passes to the socket *)
(* what it takes, do_read appends what has arrived to the input buffer and *)
(* hands each message that is complete to the router.  Each end is driven  *)
(* by the events its loop has in its mask.                                 *)
(*                                                                         *)
(* A byte is a record that says of which message it is, and where in it; a *)
(* header has MSG_HEAD_LEN of them, so that it can arrive in pieces.       *)
(***************************************************************************)
EXTENDS Integers, Sequences, SequencesExt

CONSTANTS
  MSG_HEAD_LEN,   \* bytes of a header
  MSG_MAX_LIMIT,  \* the largest message a tcp_conn takes
  ClientLimit,    \* the largest one a tcp_client takes, _SC_NL_MSGMAX
  DataLen,        \* the lengths of messages
  SockCap,        \* bytes the two kernels hold in one direction
  MaxSent         \* bound: messages that an end sends

ASSUME ConnectionAssumption ==
  /\ MSG_HEAD_LEN \in Nat \ {0} /\ SockCap \in Nat \ {0}
  /\ MSG_MAX_LIMIT \in Nat /\ ClientLimit \in Nat
  /\ DataLen \subseteq Nat

End == {"client", "conn"}
Peer(e) == IF e = "client" THEN "conn" ELSE "client"
Limit(e) == IF e = "client" THEN ClientLimit ELSE MSG_MAX_LIMIT

VARIABLES
  phase,    \* of a client: "connecting", "refused", "open", "closed";
            \* of a conn: "none", "open", "cleaned" (to be released), "closed"
  mask,     \* the events the loop of each end watches the socket for
  obuf,     \* the output buffer of each end
  wire,     \* what each end has written and its peer has not read
  ibuf,     \* the input buffer of each end
  reading,  \* the end is in the loop of do_read
  sent,     \* history: the bytes put in obuf
  got       \* history: the bytes taken from ibuf for the calls of the router

vars == <<phase, mask, obuf, wire, ibuf, reading, sent, got>>

Init == /\ phase = [e \in End |-> IF e = "client" THEN "connecting" ELSE "none"]
        /\ mask = [e \in End |-> IF e = "client" THEN {"out"} ELSE {}]
        /\ obuf = [e \in End |-> <<>>] /\ wire = [e \in End |-> <<>>]
        /\ ibuf = [e \in End |-> <<>>]
        /\ reading = [e \in End |-> FALSE]
        /\ sent = [e \in End |-> <<>>] /\ got = [e \in End |-> <<>>]

Byte == [msg : Nat, len : Nat, at : Nat]
Message(k, len) ==
  [i \in 1..(MSG_HEAD_LEN + len) |-> [msg |-> k, len |-> len, at |-> i]]
Sent(e) == IF sent[e] = <<>> THEN 0 ELSE Last(sent[e]).msg
-----------------------------------------------------------------------------
(* The connection *)

(* Mutant: what was sent before is not looked at. *)
ConnectForgetsObuf ==
  /\ phase["client"] = "connecting"
  /\ phase' = [phase EXCEPT !["client"] = "open"]
  /\ mask' = [mask EXCEPT !["client"] = {"in"}]
  /\ UNCHANGED <<obuf, wire, ibuf, reading, sent, got>>

(* connect_ser, when the socket of the client is writable: connected ...   *)
ConnectSucceeds ==
  /\ phase["client"] = "connecting"
  /\ phase' = [phase EXCEPT !["client"] = "open"]
  /\ mask' = [mask EXCEPT !["client"] =
                 IF obuf["client"] # <<>> THEN {"in", "out"} ELSE {"in"}]
  /\ UNCHANGED <<obuf, wire, ibuf, reading, sent, got>>

(* ... or not; nothing connects again. *)
ConnectFails ==
  /\ phase["client"] = "connecting" /\ phase["conn"] = "none"
  /\ phase' = [phase EXCEPT !["client"] = "refused"]
  /\ mask' = [mask EXCEPT !["client"] = {}]
  /\ obuf' = [obuf EXCEPT !["client"] = <<>>]
  /\ UNCHANGED <<wire, ibuf, reading, sent, got>>

(* The server has accepted: the constructor of tcp_conn. *)
NewConn ==
  /\ phase["conn"] = "none" /\ phase["client"] # "refused"
  /\ phase' = [phase EXCEPT !["conn"] = "open"]
  /\ mask' = [mask EXCEPT !["conn"] = {"in"}]
  /\ UNCHANGED <<obuf, wire, ibuf, reading, sent, got>>

(* clean and disconnect: a client closes its socket, a conn leaves that to *)
(* its destructor.                                                         *)
Clean(e) ==
  /\ phase' = [phase EXCEPT ![e] = IF e = "client" THEN "closed" ELSE "cleaned"]
  /\ mask' = [mask EXCEPT ![e] = {}]
  /\ obuf' = [obuf EXCEPT ![e] = <<>>]
  /\ ibuf' = [ibuf EXCEPT ![e] = <<>>]
  /\ reading' = [reading EXCEPT ![e] = FALSE]

(* ~tcp_conn, in the accept thread. *)
Release ==
  /\ phase["conn"] = "cleaned"
  /\ phase' = [phase EXCEPT !["conn"] = "closed"]
  /\ UNCHANGED <<mask, obuf, wire, ibuf, reading, sent, got>>
-----------------------------------------------------------------------------
(* Sending *)

(* out_buf::send_data of a header and its data; the buffer grows to hold   *)
(* them.                                                                   *)
SendData(e, bytes) == obuf' = [obuf EXCEPT ![e] = @ \o bytes]

(* send_msg: out_buf::send_data fails when there is no data; the header is *)
(* in the buffer by then and the event is not added.  While a client is    *)
(* connecting, the event is there already, with connect_ser.               *)
SendMsg(e, len) ==
  /\ Sent(e) < MaxSent
  /\ sent' = [sent EXCEPT ![e] = @ \o Message(Sent(e) + 1, len)]
  /\ SendData(e, Message(Sent(e) + 1, len))
  /\ mask' = [mask EXCEPT ![e] = IF len > 0 THEN @ \cup {"out"} ELSE @]

(* Another callback of the loop sends: a task, a push, a start hook. *)
Send(e, len) ==
  /\ phase[e] \in {"connecting", "open"} /\ ~reading[e]
  /\ SendMsg(e, len)
  /\ UNCHANGED <<phase, wire, ibuf, reading, got>>

(* The socket has something to read, an end of file or an error included. *)
Gone(e) == phase[e] \in {"refused", "closed"}
Readable(e) == wire[Peer(e)] # <<>> \/ Gone(Peer(e))

(* A writable socket is looked at only when it is not readable. *)
Writable(e) ==
  /\ phase[e] = "open" /\ ~reading[e]
  /\ "out" \in mask[e] /\ Len(wire[e]) < SockCap
  /\ ~("in" \in mask[e] /\ Readable(e))

(* do_write writes until obuf is empty or the socket is full. *)
Written(e) == Min({Len(obuf[e]), SockCap - Len(wire[e])})

(* Mutants: what was written is not popped when the socket is full; the    *)
(* descriptor leaves the loop altogether.                                  *)
DoWritePopsAll(e) ==
  /\ Writable(e)
  /\ wire' = [wire EXCEPT ![e] = @ \o SubSeq(obuf[e], 1, Written(e))]
  /\ obuf' = [obuf EXCEPT ![e] = <<>>]
  /\ mask' = [mask EXCEPT ![e] = @ \ {"out"}]
  /\ UNCHANGED <<phase, ibuf, reading, sent, got>>

DoWriteForgets(e) ==
  /\ Writable(e)
  /\ wire' = [wire EXCEPT ![e] = @ \o SubSeq(obuf[e], 1, Written(e))]
  /\ obuf' = [obuf EXCEPT ![e] = SubSeq(@, Written(e) + 1, Len(@))]
  /\ mask' = [mask EXCEPT ![e] = IF obuf'[e] = <<>> THEN {} ELSE @]
  /\ UNCHANGED <<phase, ibuf, reading, sent, got>>

DoWrite(e) ==
  /\ Writable(e)
  /\ wire' = [wire EXCEPT ![e] = @ \o SubSeq(obuf[e], 1, Written(e))]
  /\ obuf' = [obuf EXCEPT ![e] = SubSeq(@, Written(e) + 1, Len(@))]
  /\ mask' = [mask EXCEPT ![e] = IF obuf'[e] = <<>> THEN @ \ {"out"} ELSE @]
  /\ UNCHANGED <<phase, ibuf, reading, sent, got>>

(* The peer has gone since the wait. *)
WriteFails(e) ==
  /\ phase[e] = "open" /\ ~reading[e] /\ "out" \in mask[e] /\ obuf[e] # <<>>
  /\ Gone(Peer(e))
  /\ Clean(e)
  /\ UNCHANGED <<wire, sent, got>>
-----------------------------------------------------------------------------
(* Receiving *)

(* do_read: in_buf::readfd takes all that has arrived ... *)
Read(e) ==
  /\ phase[e] = "open" /\ ~reading[e] /\ "in" \in mask[e]
  /\ \E n \in 1..Len(wire[Peer(e)]) :
        /\ ibuf' = [ibuf EXCEPT ![e] = @ \o SubSeq(wire[Peer(e)], 1, n)]
        /\ wire' = [wire EXCEPT ![Peer(e)] = SubSeq(@, n + 1, Len(@))]
  /\ reading' = [reading EXCEPT ![e] = TRUE]
  /\ UNCHANGED <<phase, mask, obuf, sent, got>>

(* ... or finds the end of the stream, or a reset that may have lost the   *)
(* rest of it.                                                             *)
ReadEnd(e) ==
  /\ phase[e] = "open" /\ ~reading[e] /\ "in" \in mask[e]
  /\ Gone(Peer(e))
  /\ Clean(e)
  /\ UNCHANGED <<wire, sent, got>>

Headed(e) == reading[e] /\ Len(ibuf[e]) >= MSG_HEAD_LEN
MsgLen(e) == Head(ibuf[e]).len

(* Mutant: the header is counted as data. *)
CompleteWithHead(e) == Len(ibuf[e]) >= MsgLen(e)

Complete(e) == Len(ibuf[e]) - MSG_HEAD_LEN >= MsgLen(e)

(* A message that is complete goes to the router, and its bytes are popped; *)
(* io_buf::pop takes no more than there is.                                *)
Popped(e) == Min({Len(ibuf[e]), MSG_HEAD_LEN + MsgLen(e)})

Call(e) ==
  /\ Headed(e) /\ MsgLen(e) <= Limit(e) /\ Complete(e)
  /\ got' = [got EXCEPT ![e] = @ \o SubSeq(ibuf[e], 1, Popped(e))]

Pop(e) == ibuf' = [ibuf EXCEPT ![e] = SubSeq(@, Popped(e) + 1, Len(@))]

(* Mutant: one message for each do_read. *)
DispatchOne(e) ==
  /\ Call(e) /\ Pop(e)
  /\ reading' = [reading EXCEPT ![e] = FALSE]
  /\ UNCHANGED <<phase, mask, obuf, wire, sent>>

Dispatch(e) ==
  /\ Call(e) /\ Pop(e)
  /\ UNCHANGED <<phase, mask, obuf, wire, reading, sent>>

(* The callback answers ... *)
DispatchReply(e, len) ==
  /\ Call(e) /\ Pop(e)
  /\ SendMsg(e, len)
  /\ UNCHANGED <<phase, wire, reading>>

(* ... or disconnects: the buffers are gone and the loop ends. *)
DispatchDisconnect ==
  /\ Call("client") /\ Clean("client")
  /\ UNCHANGED <<wire, sent>>

Abnormal(e) ==
  /\ Headed(e) /\ MsgLen(e) > Limit(e)
  /\ Clean(e)
  /\ UNCHANGED <<wire, sent, got>>

(* The loop ends when no message is complete. *)
EndRead(e) ==
  /\ reading[e] /\ ~(Headed(e) /\ (MsgLen(e) > Limit(e) \/ Complete(e)))
  /\ reading' = [reading EXCEPT ![e] = FALSE]
  /\ UNCHANGED <<phase, mask, obuf, wire, ibuf, sent, got>>

ReadStep(e) ==
  \/ Read(e) \/ ReadEnd(e) \/ Abnormal(e) \/ EndRead(e)
  \/ Dispatch(e) \/ \E len \in DataLen : DispatchReply(e, len)

Next == \/ ConnectSucceeds \/ ConnectFails \/ NewConn \/ Release
        \/ \E e \in End :
              \/ \E len \in DataLen : Send(e, len)
              \/ DoWrite(e) \/ WriteFails(e)
              \/ ReadStep(e)
        \/ DispatchDisconnect

Spec == Init /\ [][Next]_vars

(* The loops run on, the server accepts; what is left to the callbacks,    *)
(* to send or to disconnect, need not happen.                              *)
Fairness == /\ WF_vars(ConnectSucceeds \/ ConnectFails) /\ WF_vars(NewConn)
            /\ \A e \in End : WF_vars(DoWrite(e) \/ WriteFails(e)) /\ WF_vars(ReadStep(e))

FairSpec == Spec /\ Fairness
-----------------------------------------------------------------------------
TypeOK ==
  /\ phase \in [End -> {"connecting", "refused", "none", "open", "cleaned", "closed"}]
  /\ mask \in [End -> SUBSET {"in", "out"}]
  /\ obuf \in [End -> Seq(Byte)] /\ wire \in [End -> Seq(Byte)] /\ ibuf \in [End -> Seq(Byte)]
  /\ sent \in [End -> Seq(Byte)] /\ got \in [End -> Seq(Byte)]
  /\ reading \in [End -> BOOLEAN]

(* Nothing is lost, repeated or reordered between the calls of send_msg at *)
(* one end and those of the router at the other, however the stream is cut *)
(* into writes and reads, and the router is called with whole messages     *)
(* only (tcp_conn.cpp:67-154, tcp_client.cpp:123-219).                     *)
InOrder ==
  \A e \in End :
    /\ IsPrefix(got[Peer(e)], sent[e])
    /\ got[e] # <<>> => Last(got[e]).at = MSG_HEAD_LEN + Last(got[e]).len

(* As long as neither end has closed, every byte is in one of the three    *)
(* buffers, or was taken (reactor_buf.cpp:46-189, io_buf.cpp:54-98).       *)
BothInUse == phase["client"] \in {"connecting", "open"} /\ phase["conn"] \in {"none", "open"}

StreamIntact ==
  BothInUse => \A e \in End : sent[e] = got[Peer(e)] \o ibuf[Peer(e)] \o wire[e] \o obuf[e]

(* An end that is in use and has a message that was accepted, so that its  *)
(* send_msg has returned 0, in its buffer is waiting to write it, before   *)
(* and after the connection comes about (tcp_client.cpp:42, 142, 217).     *)
WriteWatched ==
  \A e \in End :
    (phase[e] \in {"connecting", "open"} /\ \E i \in DOMAIN obuf[e] : obuf[e][i].len > 0)
      => "out" \in mask[e]

(* A message that was accepted reaches the other end's router, though the  *)
(* socket holds less than is to be written, both ends write and each looks *)
(* at writing only when there is nothing to read; or an end has closed     *)
(* (event_loop.cpp:44-54).                                                 *)
Has(bytes, k) == \E i \in DOMAIN bytes : bytes[i].msg = k /\ bytes[i].len > 0

AcceptedIsDelivered ==
  \A e \in End, k \in 1..MaxSent :
    (BothInUse /\ Has(sent[e], k)) ~> (~BothInUse \/ Has(got[Peer(e)], k))

(* A server that serves a client that has closed learns of it, whatever it *)
(* has left to write (tcp_conn.cpp:89-105, event_loop.cpp:44-80).          *)
CloseIsNoticed ==
  (phase["client"] = "closed") ~> (phase["conn"] \in {"cleaned", "closed"})

(* message.h:7 sets the limit of a message, MSG_MAX_LIMIT, and do_read     *)
(* calls what exceeds its limit abnormal data: a message within            *)
(* MSG_MAX_LIMIT is not taken for abnormal, at either end.                 *)
LegalIsNotAbnormal ==
  \A e \in End : Headed(e) /\ MsgLen(e) <= MSG_MAX_LIMIT => MsgLen(e) <= Limit(e)
=============================================================================
