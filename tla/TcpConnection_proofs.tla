------------------------ MODULE TcpConnection_proofs ------------------------
(***************************************************************************)
(* No byte of a message is lost, repeated or put out of order between      *)
(* send_msg at one end and do_read at the other, an end with something to  *)
(* write watches for the chance to, and the routers are called with whole  *)
(* messages in order, for any messages, limits and sockets.                *)
(***************************************************************************)
EXTENDS TcpConnection, SequenceTheorems, TLAPS

USE DEF End, Peer
-----------------------------------------------------------------------------
(* Numbers and sequences *)

(* The smaller of two numbers. *)
LEMMA MinOfTwo ==
  ASSUME NEW a \in Int, NEW b \in Int
  PROVE  Min({a, b}) \in {a, b} /\ Min({a, b}) <= a /\ Min({a, b}) <= b
<1>1. PICK m \in {a, b} : m <= a /\ m <= b
  OBVIOUS
<1>2. \A y \in {a, b} : m <= y
  BY <1>1
<1> QED BY <1>1, <1>2 DEF Min

(* A sequence cut in two has lost nothing. *)
LEMMA Cut ==
  ASSUME NEW S, NEW s \in Seq(S), NEW n \in 0..Len(s)
  PROVE  /\ SubSeq(s, 1, n) \in Seq(S)
         /\ SubSeq(s, n + 1, Len(s)) \in Seq(S)
         /\ SubSeq(s, 1, n) \o SubSeq(s, n + 1, Len(s)) = s
<1>1. Len(s) \in Nat /\ \A i \in 1..Len(s) : s[i] \in S
  BY LenProperties
<1>2. SubSeq(s, 1, n) \in Seq(S)
  BY <1>1, SubSeqProperties, n \in Int
<1>3. SubSeq(s, n + 1, Len(s)) \in Seq(S)
  <2>1. n + 1 \in Int /\ Len(s) \in Int /\ \A i \in (n + 1)..Len(s) : s[i] \in S
    BY <1>1
  <2> QED BY <2>1, SubSeqProperties
<1>4. SubSeq(s, 1, n) \o SubSeq(s, n + 1, Len(s)) = SubSeq(s, 1, Len(s))
  <2>1. 1 \in 1..(Len(s) + 1) /\ n \in (1 - 1)..Len(s) /\ Len(s) \in n..Len(s)
    BY <1>1
  <2> QED BY <2>1, ConcatAdjacentSubSeq
<1> QED BY <1>2, <1>3, <1>4, SubSeqFull

(* What is moved from one buffer to the next stays at its place in the     *)
(* stream: only the brackets move.                                         *)
LEMMA Move ==
  ASSUME NEW a \in Seq(Byte), NEW b \in Seq(Byte), NEW c \in Seq(Byte)
  PROVE  (a \o b) \o c = a \o (b \o c)
BY ConcatAssociative

(* The bytes of a message. *)
LEMMA MessageType ==
  ASSUME NEW k \in Nat, NEW len \in Nat
  PROVE  /\ Message(k, len) \in Seq(Byte)
         /\ \A i \in DOMAIN Message(k, len) : Message(k, len)[i].len = len
<1>1. MSG_HEAD_LEN + len \in Nat
  BY ConnectionAssumption
<1>2. Message(k, len) \in [1..(MSG_HEAD_LEN + len) -> Byte]
  BY <1>1 DEF Message, Byte
<1>3. Message(k, len) \in Seq(Byte)
  BY <1>1, <1>2
<1> QED BY <1>3 DEF Message
-----------------------------------------------------------------------------
(* What the two properties need besides each other: a server that has not *)
(* accepted has nothing to write, and only an open end is in do_read.      *)
Quiet == /\ phase["conn"] = "none" => obuf["conn"] = <<>>
         /\ \A e \in End : reading[e] => phase[e] = "open"

Inv == TypeOK /\ StreamIntact /\ WriteWatched /\ Quiet

LEMMA InitInv == Init => Inv
<1> SUFFICES ASSUME Init PROVE Inv
  OBVIOUS
<1>1. <<>> \in Seq(Byte)
  BY EmptySeq
<1>2. TypeOK
  BY <1>1 DEF Init, TypeOK
<1>3. StreamIntact
  <2>1. <<>> = <<>> \o <<>> \o <<>> \o <<>>
    BY <1>1, ConcatEmptySeq
  <2> QED BY <2>1 DEF Init, StreamIntact
<1>4. WriteWatched /\ Quiet
  BY DEF Init, WriteWatched, Quiet
<1> QED BY <1>2, <1>3, <1>4 DEF Inv

(* clean takes the end out of all that is claimed. *)
LEMMA CleanInv ==
  ASSUME Inv, NEW e \in End, Clean(e), UNCHANGED <<wire, sent>>,
         got' \in [End -> Seq(Byte)]
  PROVE  Inv'
<1> USE DEF Inv
<1>1. <<>> \in Seq(Byte)
  BY EmptySeq
<1>2. TypeOK'
  BY <1>1 DEF TypeOK, Clean
<1>3. phase'[e] \in {"closed", "cleaned"}
  BY DEF Clean, TypeOK
<1>4. StreamIntact'
  BY <1>3 DEF StreamIntact, BothInUse
<1>5. WriteWatched'
  BY <1>3 DEF WriteWatched, Clean, TypeOK
<1>6. Quiet'
  BY <1>3 DEF Quiet, Clean, TypeOK
<1> QED BY <1>2, <1>4, <1>5, <1>6

(* The connection comes about, or not. *)
LEMMA ConnectInv ==
  ASSUME Inv, ConnectSucceeds \/ ConnectFails \/ NewConn \/ Release
  PROVE  Inv'
<1> USE DEF Inv
<1>0. <<>> \in Seq(Byte)
  BY EmptySeq
<1>1. CASE ConnectSucceeds
  <2>1. TypeOK'
    BY <1>0, <1>1 DEF ConnectSucceeds, TypeOK
  <2>2. StreamIntact'
    BY <1>1 DEF ConnectSucceeds, TypeOK, StreamIntact, BothInUse
  <2>3. WriteWatched'
    BY <1>1 DEF ConnectSucceeds, TypeOK, WriteWatched, Quiet
  <2>4. Quiet'
    BY <1>1 DEF ConnectSucceeds, TypeOK, Quiet
  <2> QED BY <2>1, <2>2, <2>3, <2>4
<1>2. CASE ConnectFails
  <2>1. TypeOK'
    BY <1>0, <1>2 DEF ConnectFails, TypeOK
  <2>2. StreamIntact'
    BY <1>2 DEF ConnectFails, TypeOK, StreamIntact, BothInUse
  <2>3. WriteWatched'
    BY <1>2 DEF ConnectFails, TypeOK, WriteWatched, Quiet
  <2>4. Quiet'
    BY <1>2 DEF ConnectFails, TypeOK, Quiet
  <2> QED BY <2>1, <2>2, <2>3, <2>4
<1>3. CASE NewConn
  <2>1. TypeOK'
    BY <1>0, <1>3 DEF NewConn, TypeOK
  <2>2. StreamIntact'
    BY <1>3 DEF NewConn, TypeOK, StreamIntact, BothInUse
  <2>3. WriteWatched'
    BY <1>3 DEF NewConn, TypeOK, WriteWatched, Quiet
  <2>4. Quiet'
    BY <1>3 DEF NewConn, TypeOK, Quiet
  <2> QED BY <2>1, <2>2, <2>3, <2>4
<1>4. CASE Release
  <2>1. TypeOK'
    BY <1>0, <1>4 DEF Release, TypeOK
  <2>2. StreamIntact'
    BY <1>4 DEF Release, TypeOK, StreamIntact, BothInUse
  <2>3. WriteWatched'
    BY <1>4 DEF Release, TypeOK, WriteWatched, Quiet
  <2>4. Quiet'
    BY <1>4 DEF Release, TypeOK, Quiet
  <2> QED BY <2>1, <2>2, <2>3, <2>4
<1> QED BY <1>1, <1>2, <1>3, <1>4

-----------------------------------------------------------------------------
(* Steps of the stream *)

(* What send_msg does, whether or not the router called for it. *)
LEMMA SendMsgEffect ==
  ASSUME Inv, NEW e \in End, NEW len \in DataLen, SendMsg(e, len)
  PROVE  /\ sent' \in [End -> Seq(Byte)] /\ obuf' \in [End -> Seq(Byte)]
         /\ mask' \in [End -> SUBSET {"in", "out"}]
         /\ \A d \in End \ {e} : sent'[d] = sent[d] /\ obuf'[d] = obuf[d] /\ mask'[d] = mask[d]
         /\ \A h \in Seq(Byte) : sent[e] = h \o obuf[e] => sent'[e] = h \o obuf'[e]
         /\ (phase[e] \in {"connecting", "open"} /\ \E i \in DOMAIN obuf'[e] : obuf'[e][i].len > 0)
               => "out" \in mask'[e]
<1> USE DEF Inv
<1> DEFINE m == Message(Sent(e) + 1, len)
<1>1. len \in Nat
  BY ConnectionAssumption
<1>2. Sent(e) \in Nat
  <2>1. sent[e] # <<>> => sent[e][Len(sent[e])] \in Byte
    BY DEF TypeOK
  <2> QED BY <2>1 DEF Sent, Last, Byte
<1>3. m \in Seq(Byte) /\ \A i \in DOMAIN m : m[i].len = len
  <2>1. Sent(e) + 1 \in Nat
    BY <1>2
  <2> QED BY <1>1, <2>1, MessageType, Zenon
<1>4. sent'[e] = sent[e] \o m /\ obuf'[e] = obuf[e] \o m
  BY DEF SendMsg, SendData, TypeOK
<1>5. mask'[e] = IF len > 0 THEN mask[e] \cup {"out"} ELSE mask[e]
  BY DEF SendMsg, TypeOK
<1> HIDE DEF m
<1>6. obuf[e] \in Seq(Byte) /\ sent[e] \in Seq(Byte) /\ obuf[e] \o m \in Seq(Byte)
      /\ sent[e] \o m \in Seq(Byte)
  BY <1>3 DEF TypeOK
<1>7. sent' = [sent EXCEPT ![e] = sent[e] \o m] /\ obuf' = [obuf EXCEPT ![e] = obuf[e] \o m]
  BY DEF SendMsg, SendData, m
<1>8. sent' \in [End -> Seq(Byte)] /\ obuf' \in [End -> Seq(Byte)]
  BY <1>6, <1>7 DEF TypeOK
<1>9. mask' \in [End -> SUBSET {"in", "out"}]
  BY DEF SendMsg, TypeOK
<1>10. \A d \in End \ {e} : sent'[d] = sent[d] /\ obuf'[d] = obuf[d] /\ mask'[d] = mask[d]
  BY DEF SendMsg, SendData, TypeOK
<1>11. ASSUME NEW h \in Seq(Byte), sent[e] = h \o obuf[e]
       PROVE  sent'[e] = h \o obuf'[e]
  <2>1. ASSUME NEW b \in Seq(Byte), NEW c \in Seq(Byte)
        PROVE  (h \o b) \o c = h \o (b \o c)
    BY SMT
  <2>2. (h \o obuf[e]) \o m = h \o (obuf[e] \o m)
    BY <1>3, <1>6, <2>1, Zenon
  <2> QED BY <2>2, <1>4, <1>11, Zenon
<1>12. ASSUME phase[e] \in {"connecting", "open"}, NEW i \in DOMAIN obuf'[e], obuf'[e][i].len > 0
       PROVE  "out" \in mask'[e]
  <2>1. CASE len > 0
    BY <2>1, <1>5
  <2>2. CASE ~(len > 0)
    <3>1. len = 0
      BY <1>1, <2>2
    <3>2. CASE i \in DOMAIN obuf[e]
      <4>1. obuf'[e][i] = obuf[e][i]
        BY <1>3, <1>4, <1>6, <3>2
      <4> QED BY <4>1, <3>2, <1>5, <1>12 DEF WriteWatched
    <3>3. CASE i \notin DOMAIN obuf[e]
      <4>1. i - Len(obuf[e]) \in DOMAIN m /\ obuf'[e][i] = m[i - Len(obuf[e])]
        BY <1>3, <1>4, <1>6, <1>12, <3>3
      <4> QED BY <4>1, <1>3, <3>1, <1>12
    <3> QED BY <3>2, <3>3
  <2> QED BY <2>1, <2>2
<1> QED BY <1>8, <1>9, <1>10, <1>11, <1>12, Zenon

LEMMA SendInv ==
  ASSUME Inv, NEW e \in End, NEW len \in DataLen, Send(e, len)
  PROVE  Inv'
<1> USE DEF Inv
<1>1. /\ sent' \in [End -> Seq(Byte)] /\ obuf' \in [End -> Seq(Byte)]
      /\ mask' \in [End -> SUBSET {"in", "out"}]
      /\ \A d \in End \ {e} : sent'[d] = sent[d] /\ obuf'[d] = obuf[d] /\ mask'[d] = mask[d]
      /\ \A h \in Seq(Byte) : sent[e] = h \o obuf[e] => sent'[e] = h \o obuf'[e]
      /\ (phase[e] \in {"connecting", "open"} /\ \E i \in DOMAIN obuf'[e] : obuf'[e][i].len > 0)
            => "out" \in mask'[e]
  BY SendMsgEffect DEF Send
<1>2. TypeOK'
  BY <1>1 DEF Send, TypeOK
<1>3. StreamIntact'
  <2> SUFFICES ASSUME BothInUse, NEW d \in End
               PROVE  sent'[d] = got[Peer(d)] \o ibuf[Peer(d)] \o wire[d] \o obuf'[d]
    BY DEF StreamIntact, BothInUse, Send
  <2>1. got[Peer(d)] \o ibuf[Peer(d)] \o wire[d] \in Seq(Byte)
    BY DEF TypeOK
  <2>2. sent[d] = got[Peer(d)] \o ibuf[Peer(d)] \o wire[d] \o obuf[d]
    BY DEF StreamIntact
  <2> QED BY <2>1, <2>2, <1>1, Zenon
<1>4. WriteWatched'
  BY <1>1 DEF WriteWatched, Send
<1>5. Quiet'
  BY <1>1 DEF Quiet, Send, TypeOK
<1> QED BY <1>2, <1>3, <1>4, <1>5

(* do_write moves the front of obuf to the back of the wire. *)
LEMMA DoWriteInv ==
  ASSUME Inv, NEW e \in End, DoWrite(e)
  PROVE  Inv'
<1> USE DEF Inv
<1> DEFINE n == Written(e)
<1>1. obuf[e] \in Seq(Byte) /\ wire[e] \in Seq(Byte)
  BY DEF TypeOK
<1>2. n \in 0..Len(obuf[e])
  <2>1. Len(obuf[e]) \in Nat /\ SockCap - Len(wire[e]) \in Nat
    BY <1>1, ConnectionAssumption DEF DoWrite, Writable
  <2>2. Written(e) \in {Len(obuf[e]), SockCap - Len(wire[e])} /\ Written(e) <= Len(obuf[e])
    <3>1. Len(obuf[e]) \in Int /\ SockCap - Len(wire[e]) \in Int
      BY <2>1
    <3> QED BY <3>1, MinOfTwo, Zenon DEF Written
  <2> QED BY <2>1, <2>2
<1>3. PICK x \in Seq(Byte), y \in Seq(Byte) :
        /\ x \o y = obuf[e]
        /\ wire' = [wire EXCEPT ![e] = wire[e] \o x]
        /\ obuf' = [obuf EXCEPT ![e] = y]
  <2>1. /\ wire' = [wire EXCEPT ![e] = wire[e] \o SubSeq(obuf[e], 1, n)]
        /\ obuf' = [obuf EXCEPT ![e] = SubSeq(obuf[e], n + 1, Len(obuf[e]))]
    BY DEF DoWrite
  <2> HIDE DEF n
  <2>2. /\ SubSeq(obuf[e], 1, n) \in Seq(Byte) /\ SubSeq(obuf[e], n + 1, Len(obuf[e])) \in Seq(Byte)
        /\ SubSeq(obuf[e], 1, n) \o SubSeq(obuf[e], n + 1, Len(obuf[e])) = obuf[e]
    BY <1>1, <1>2, Cut
  <2> QED BY <2>1, <2>2, Zenon
<1>5. wire[e] \o x \in Seq(Byte)
  BY <1>1, ConcatProperties
<1>6. TypeOK'
  <2>1. wire' \in [End -> Seq(Byte)]
    BY <1>3, <1>5 DEF TypeOK
  <2>2. obuf' \in [End -> Seq(Byte)]
    BY <1>3 DEF TypeOK
  <2>3. mask' \in [End -> SUBSET {"in", "out"}]
    BY DEF DoWrite, TypeOK
  <2> QED BY <2>1, <2>2, <2>3 DEF DoWrite, TypeOK
<1>7. /\ wire'[e] = wire[e] \o x /\ obuf'[e] = y
      /\ \A d \in End \ {e} : wire'[d] = wire[d] /\ obuf'[d] = obuf[d]
  BY <1>3 DEF TypeOK
<1>8. StreamIntact'
  <2> SUFFICES ASSUME BothInUse, NEW d \in End
               PROVE  sent[d] = got[Peer(d)] \o ibuf[Peer(d)] \o wire'[d] \o obuf'[d]
    BY DEF StreamIntact, BothInUse, DoWrite
  <2>1. sent[d] = got[Peer(d)] \o ibuf[Peer(d)] \o wire[d] \o obuf[d]
    BY DEF StreamIntact
  <2>2. CASE d # e
    BY <2>1, <2>2, <1>7
  <2>3. CASE d = e
    <3>1. got[Peer(e)] \o ibuf[Peer(e)] \in Seq(Byte)
      BY DEF TypeOK
    <3> DEFINE g == got[Peer(e)] \o ibuf[Peer(e)]
    <3> HIDE DEF g
    <3>2. (g \o (wire[e] \o x)) \o y = (g \o wire[e]) \o obuf[e]
      <4>1. g \in Seq(Byte) /\ g \o wire[e] \in Seq(Byte)
        BY <1>1, <3>1, ConcatProperties DEF g
      <4>2. (g \o wire[e]) \o x = g \o (wire[e] \o x)
        <5>1. \A b \in Seq(Byte), c \in Seq(Byte) : (g \o b) \o c = g \o (b \o c)
          BY <4>1, Move, Zenon
        <5> QED BY <1>1, <5>1, Zenon
      <4>3. ((g \o wire[e]) \o x) \o y = (g \o wire[e]) \o (x \o y)
        BY <4>1, Move, Zenon
      <4> QED BY <1>3, <4>2, <4>3, Zenon
    <3> QED BY <1>7, <2>1, <2>3, <3>2, Zenon DEF g
  <2> QED BY <2>2, <2>3
<1>9. WriteWatched'
  <2>1. obuf'[e] # <<>> => mask' = mask
    BY DEF DoWrite, TypeOK
  <2>2. \A d \in End \ {e} : mask'[d] = mask[d]
    BY DEF DoWrite, TypeOK
  <2>3. "out" \in mask[e] /\ phase' = phase
    BY DEF DoWrite, Writable
  <2>4. (\E i \in DOMAIN obuf'[e] : obuf'[e][i].len > 0) => obuf'[e] # <<>>
    BY <1>6 DEF TypeOK
  <2> QED BY <2>1, <2>2, <2>3, <2>4, <1>7 DEF WriteWatched
<1>10. Quiet'
  BY <1>7 DEF Quiet, DoWrite, Writable
<1> QED BY <1>6, <1>8, <1>9, <1>10

(* readfd moves the front of the wire to the back of ibuf. *)
LEMMA ReadEffect ==
  ASSUME Inv, NEW e \in End, Read(e)
  PROVE  /\ ibuf' \in [End -> Seq(Byte)] /\ wire' \in [End -> Seq(Byte)]
         /\ ibuf'[Peer(e)] = ibuf[Peer(e)] /\ wire'[e] = wire[e]
         /\ got[e] \o ibuf'[e] \o wire'[Peer(e)] = got[e] \o ibuf[e] \o wire[Peer(e)]
<1> USE DEF Inv
<1> DEFINE p == Peer(e)
<1>1. /\ p \in End /\ p # e /\ Peer(p) = e
      /\ wire[p] \in Seq(Byte) /\ ibuf[e] \in Seq(Byte) /\ got[e] \in Seq(Byte)
  BY DEF TypeOK
<1>2. PICK x \in Seq(Byte), y \in Seq(Byte) :
        /\ x \o y = wire[p]
        /\ ibuf' = [ibuf EXCEPT ![e] = ibuf[e] \o x]
        /\ wire' = [wire EXCEPT ![p] = y]
  <2>1. PICK n \in 1..Len(wire[p]) :
          /\ ibuf' = [ibuf EXCEPT ![e] = ibuf[e] \o SubSeq(wire[p], 1, n)]
          /\ wire' = [wire EXCEPT ![p] = SubSeq(wire[p], n + 1, Len(wire[p]))]
    BY DEF Read
  <2>2. n \in 0..Len(wire[p])
    BY <1>1
  <2> HIDE DEF p
  <2>3. /\ SubSeq(wire[p], 1, n) \in Seq(Byte) /\ SubSeq(wire[p], n + 1, Len(wire[p])) \in Seq(Byte)
        /\ SubSeq(wire[p], 1, n) \o SubSeq(wire[p], n + 1, Len(wire[p])) = wire[p]
    BY <1>1, <2>2, Cut
  <2> QED BY <2>1, <2>3, Zenon
<1>3. ibuf[e] \o x \in Seq(Byte)
  BY <1>1, ConcatProperties
<1> HIDE DEF p
<1>4. /\ ibuf'[e] = ibuf[e] \o x /\ wire'[p] = y
      /\ ibuf'[p] = ibuf[p] /\ wire'[e] = wire[e]
  BY <1>1, <1>2 DEF TypeOK
<1>5. ibuf' \in [End -> Seq(Byte)] /\ wire' \in [End -> Seq(Byte)]
  BY <1>1, <1>2, <1>3 DEF TypeOK
<1>6. (got[e] \o (ibuf[e] \o x)) \o y = (got[e] \o ibuf[e]) \o wire[p]
  <2>1. got[e] \in Seq(Byte) /\ ibuf[e] \in Seq(Byte) /\ got[e] \o ibuf[e] \in Seq(Byte)
    BY <1>1, ConcatProperties
  <2>2. (got[e] \o ibuf[e]) \o x = got[e] \o (ibuf[e] \o x)
    BY <2>1, Move, Zenon
  <2>3. ((got[e] \o ibuf[e]) \o x) \o y = (got[e] \o ibuf[e]) \o (x \o y)
    BY <2>1, Move, Zenon
  <2> QED BY <1>2, <2>2, <2>3, Zenon
<1>7. (got[e] \o ibuf'[e]) \o wire'[p] = (got[e] \o ibuf[e]) \o wire[p]
  BY <1>4, <1>6, Zenon
<1> QED BY <1>4, <1>5, <1>7 DEF p

LEMMA ReadInv ==
  ASSUME Inv, NEW e \in End, Read(e)
  PROVE  Inv'
<1> USE DEF Inv
<1> DEFINE p == Peer(e)
<1>1. /\ ibuf' \in [End -> Seq(Byte)] /\ wire' \in [End -> Seq(Byte)]
      /\ ibuf'[p] = ibuf[p] /\ wire'[e] = wire[e]
      /\ got[e] \o ibuf'[e] \o wire'[p] = got[e] \o ibuf[e] \o wire[p]
  BY ReadEffect
<1>2. TypeOK'
  BY <1>1 DEF Read, TypeOK
<1>3. StreamIntact'
  <2> SUFFICES ASSUME BothInUse, NEW d \in End
               PROVE  sent[d] = got[Peer(d)] \o ibuf'[Peer(d)] \o wire'[d] \o obuf[d]
    BY DEF StreamIntact, BothInUse, Read
  <2>1. sent[d] = got[Peer(d)] \o ibuf[Peer(d)] \o wire[d] \o obuf[d]
    BY DEF StreamIntact
  <2>2. CASE d = e
    BY <1>1, <2>1, <2>2
  <2>3. CASE d = p
    <3>1. Peer(d) = e
      BY <2>3
    <3> HIDE DEF p
    <3> QED BY <1>1, <2>1, <2>3, <3>1, Zenon
  <2> QED BY <2>2, <2>3
<1>4. WriteWatched' /\ Quiet'
  BY DEF WriteWatched, Quiet, Read, TypeOK
<1> QED BY <1>2, <1>3, <1>4

(* A message goes from the front of ibuf to the router. *)
LEMMA CallEffect ==
  ASSUME Inv, NEW e \in End, Call(e)
  PROVE  /\ phase[e] = "open"
         /\ got' \in [End -> Seq(Byte)] /\ got'[Peer(e)] = got[Peer(e)]
         /\ Pop(e) => /\ ibuf' \in [End -> Seq(Byte)] /\ ibuf'[Peer(e)] = ibuf[Peer(e)]
                      /\ got'[e] \o ibuf'[e] = got[e] \o ibuf[e]
<1> USE DEF Inv
<1> DEFINE n == Popped(e)
<1>1. ibuf[e] \in Seq(Byte) /\ got[e] \in Seq(Byte) /\ Peer(e) \in End /\ Peer(e) # e
  BY DEF TypeOK
<1>2. reading[e] /\ phase[e] = "open"
  BY DEF Call, Headed, Quiet
<1>3. n \in 0..Len(ibuf[e])
  <2>1. Len(ibuf[e]) \in Nat /\ Len(ibuf[e]) >= 1
    BY <1>1, ConnectionAssumption DEF Call, Headed
  <2>2. MsgLen(e) \in Nat
    <3>1. Head(ibuf[e]) \in Byte
      BY <1>1, <2>1, HeadTailProperties
    <3> QED BY <3>1 DEF MsgLen, Byte
  <2>3. Len(ibuf[e]) \in Int /\ MSG_HEAD_LEN + MsgLen(e) \in Nat /\ MSG_HEAD_LEN + MsgLen(e) \in Int
    BY <2>1, <2>2, ConnectionAssumption
  <2>4. Popped(e) \in {Len(ibuf[e]), MSG_HEAD_LEN + MsgLen(e)} /\ Popped(e) <= Len(ibuf[e])
    BY <2>3, MinOfTwo, Zenon DEF Popped
  <2> QED BY <2>1, <2>3, <2>4
<1>4. got' = [got EXCEPT ![e] = got[e] \o SubSeq(ibuf[e], 1, n)]
  BY DEF Call
<1>5. Pop(e) => ibuf' = [ibuf EXCEPT ![e] = SubSeq(ibuf[e], n + 1, Len(ibuf[e]))]
  BY DEF Pop
<1> HIDE DEF n
<1>6. /\ SubSeq(ibuf[e], 1, n) \in Seq(Byte)
      /\ SubSeq(ibuf[e], n + 1, Len(ibuf[e])) \in Seq(Byte)
  BY <1>1, <1>3, Cut
<1>7. got[e] \o SubSeq(ibuf[e], 1, n) \in Seq(Byte)
  BY <1>1, <1>6, ConcatProperties
<1>8. got' \in [End -> Seq(Byte)] /\ got'[Peer(e)] = got[Peer(e)]
      /\ got'[e] = got[e] \o SubSeq(ibuf[e], 1, n)
  BY <1>1, <1>4, <1>7 DEF TypeOK
<1>9. ASSUME Pop(e)
      PROVE  /\ ibuf' \in [End -> Seq(Byte)] /\ ibuf'[Peer(e)] = ibuf[Peer(e)]
             /\ got'[e] \o ibuf'[e] = got[e] \o ibuf[e]
  <2>1. ibuf' \in [End -> Seq(Byte)] /\ ibuf'[Peer(e)] = ibuf[Peer(e)]
        /\ ibuf'[e] = SubSeq(ibuf[e], n + 1, Len(ibuf[e]))
    BY <1>1, <1>5, <1>6, <1>9 DEF TypeOK
  <2>2. (got[e] \o SubSeq(ibuf[e], 1, n)) \o SubSeq(ibuf[e], n + 1, Len(ibuf[e])) = got[e] \o ibuf[e]
    <3>1. SubSeq(ibuf[e], 1, n) \o SubSeq(ibuf[e], n + 1, Len(ibuf[e])) = ibuf[e]
      BY <1>1, <1>3, Cut
    <3>2. (got[e] \o SubSeq(ibuf[e], 1, n)) \o SubSeq(ibuf[e], n + 1, Len(ibuf[e]))
            = got[e] \o (SubSeq(ibuf[e], 1, n) \o SubSeq(ibuf[e], n + 1, Len(ibuf[e])))
      BY <1>1, <1>6, Move, Zenon
    <3> QED BY <3>1, <3>2, Zenon
  <2>3. got'[e] \o ibuf'[e] = got[e] \o ibuf[e]
    BY <1>8, <2>1, <2>2, Zenon
  <2> QED BY <2>1, <2>3
<1> QED BY <1>2, <1>8, <1>9

LEMMA DispatchInv ==
  ASSUME Inv, NEW e \in End, Call(e), Pop(e), UNCHANGED <<phase, wire, reading>>,
         UNCHANGED <<mask, obuf, sent>> \/ \E len \in DataLen : SendMsg(e, len)
  PROVE  Inv'
<1> USE DEF Inv
<1> DEFINE p == Peer(e)
<1>1. p \in End /\ p # e /\ Peer(p) = e /\ End = {e, p}
  OBVIOUS
<1>2. /\ phase[e] = "open"
      /\ got' \in [End -> Seq(Byte)] /\ ibuf' \in [End -> Seq(Byte)]
      /\ got'[p] = got[p] /\ ibuf'[p] = ibuf[p]
      /\ got'[e] \o ibuf'[e] = got[e] \o ibuf[e]
  BY CallEffect
<1>3. /\ sent' \in [End -> Seq(Byte)] /\ obuf' \in [End -> Seq(Byte)]
      /\ mask' \in [End -> SUBSET {"in", "out"}]
      /\ sent'[p] = sent[p] /\ obuf'[p] = obuf[p] /\ mask'[p] = mask[p]
      /\ \A h \in Seq(Byte) : sent[e] = h \o obuf[e] => sent'[e] = h \o obuf'[e]
      /\ (\E i \in DOMAIN obuf'[e] : obuf'[e][i].len > 0) => "out" \in mask'[e]
  <2>1. CASE UNCHANGED <<mask, obuf, sent>>
    BY <1>1, <1>2, <2>1 DEF TypeOK, WriteWatched
  <2>2. CASE \E len \in DataLen : SendMsg(e, len)
    BY <1>1, <1>2, <2>2, SendMsgEffect
  <2> QED BY <2>1, <2>2
<1>4. mask' \in [End -> SUBSET {"in", "out"}] /\ UNCHANGED <<phase, wire, reading>>
  BY <1>3
<1> HIDE DEF p
<1>5. TypeOK'
  BY <1>2, <1>3, <1>4 DEF TypeOK
<1>6. StreamIntact'
  <2> SUFFICES ASSUME BothInUse, NEW d \in End
               PROVE  sent'[d] = got'[Peer(d)] \o ibuf'[Peer(d)] \o wire[d] \o obuf'[d]
    BY <1>4 DEF StreamIntact, BothInUse
  <2>1. sent[d] = got[Peer(d)] \o ibuf[Peer(d)] \o wire[d] \o obuf[d]
    BY DEF StreamIntact
  <2>2. CASE d = e
    <3>1. got[p] \o ibuf[p] \o wire[e] \in Seq(Byte)
      BY <1>1 DEF TypeOK
    <3>2. sent[e] = (got[p] \o ibuf[p] \o wire[e]) \o obuf[e]
      BY <2>1, <2>2 DEF p
    <3>3. sent'[e] = (got[p] \o ibuf[p] \o wire[e]) \o obuf'[e]
      BY <1>3, <3>1, <3>2, Zenon
    <3>4. sent'[e] = (got'[p] \o ibuf'[p] \o wire[e]) \o obuf'[e]
      BY <1>2, <3>3, Zenon
    <3> QED BY <2>2, <3>4 DEF p
  <2>3. CASE d = p
    <3>1. sent[p] = got[e] \o ibuf[e] \o wire[p] \o obuf[p]
      BY <1>1, <2>1, <2>3, Zenon
    <3>2. sent'[p] = got'[e] \o ibuf'[e] \o wire[p] \o obuf'[p]
      BY <1>2, <1>3, <3>1, Zenon
    <3> QED BY <1>1, <2>3, <3>2, Zenon
  <2> QED BY <1>1, <2>2, <2>3
<1>7. WriteWatched'
  <2> SUFFICES ASSUME NEW d \in End, phase[d] \in {"connecting", "open"},
                      \E i \in DOMAIN obuf'[d] : obuf'[d][i].len > 0
               PROVE  "out" \in mask'[d]
    BY <1>4 DEF WriteWatched
  <2> QED BY <1>1, <1>3 DEF WriteWatched
<1>8. Quiet'
  BY <1>1, <1>2, <1>3, <1>4 DEF Quiet
<1> QED BY <1>5, <1>6, <1>7, <1>8
-----------------------------------------------------------------------------
LEMMA NextInv == Inv /\ [Next]_vars => Inv'
<1> SUFFICES ASSUME Inv, [Next]_vars PROVE Inv'
  OBVIOUS
<1>1. CASE UNCHANGED vars
  BY <1>1 DEF vars, Inv, TypeOK, StreamIntact, BothInUse, WriteWatched, Quiet
<1>2. CASE ConnectSucceeds \/ ConnectFails \/ NewConn \/ Release
  BY <1>2, ConnectInv
<1>3. ASSUME NEW e \in End, NEW len \in DataLen, Send(e, len) PROVE Inv'
  BY <1>3, SendInv
<1>4. ASSUME NEW e \in End, DoWrite(e) PROVE Inv'
  BY <1>4, DoWriteInv
<1>5. ASSUME NEW e \in End, WriteFails(e) \/ ReadEnd(e) \/ Abnormal(e) PROVE Inv'
  <2>1. Clean(e) /\ UNCHANGED <<wire, sent, got>> /\ got \in [End -> Seq(Byte)]
    BY <1>5 DEF WriteFails, ReadEnd, Abnormal, Inv, TypeOK
  <2> QED BY <2>1, CleanInv
<1>6. CASE DispatchDisconnect
  <2>1. /\ Call("client") /\ Clean("client") /\ UNCHANGED <<wire, sent>>
    BY <1>6 DEF DispatchDisconnect
  <2>2. got' \in [End -> Seq(Byte)]
    BY <2>1, CallEffect
  <2> QED BY <2>1, <2>2, CleanInv
<1>7. ASSUME NEW e \in End, Read(e) PROVE Inv'
  BY <1>7, ReadInv
<1>8. ASSUME NEW e \in End, Dispatch(e) \/ \E len \in DataLen : DispatchReply(e, len) PROVE Inv'
  <2>1. /\ Call(e) /\ Pop(e) /\ UNCHANGED <<phase, wire, reading>>
        /\ UNCHANGED <<mask, obuf, sent>> \/ \E len \in DataLen : SendMsg(e, len)
    BY <1>8 DEF Dispatch, DispatchReply
  <2> QED BY <2>1, DispatchInv
<1>9. ASSUME NEW e \in End, EndRead(e) PROVE Inv'
  BY <1>9 DEF EndRead, Inv, TypeOK, StreamIntact, BothInUse, WriteWatched, Quiet
<1> QED
  <2>1. CASE Next
    BY <2>1, <1>2, <1>3, <1>4, <1>5, <1>6, <1>7, <1>8, <1>9 DEF Next, ReadStep
  <2> QED BY <2>1, <1>1

(* The invariant holds always: so each of its parts does. *)
THEOREM InvariantHolds == Spec => []Inv
BY InitInv, NextInv, PTL DEF Spec

(* As long as neither end has closed, each byte given to send_msg is in    *)
(* obuf, on the wire, in ibuf or taken, in that order, whatever the        *)
(* messages, their lengths, the sockets and the cuts of the stream         *)
(* (reactor_buf.cpp:46-189).                                               *)
THEOREM StreamStaysIntact == Spec => []StreamIntact
BY InvariantHolds, PTL DEF Inv

(* No end in use has an accepted message in its buffer without watching    *)
(* for the socket to become writable (tcp_client.cpp:42, 142, 217).        *)
THEOREM WritesAreWatched == Spec => []WriteWatched
BY InvariantHolds, PTL DEF Inv
-----------------------------------------------------------------------------
(* In order, and whole *)

Begins(s, t) == \E u \in Seq(Byte) : t = s \o u

(* Each byte of s is within its message, from the first byte of the header *)
(* to the last of the data, at its place.                                  *)
InMessages(s) ==
  \A i \in DOMAIN s :
    /\ s[i].at \in 1..(MSG_HEAD_LEN + s[i].len)
    /\ s[i].at <= i /\ i - s[i].at + MSG_HEAD_LEN + s[i].len <= Len(s)
    /\ \A k \in 1..(MSG_HEAD_LEN + s[i].len) :
         s[i - s[i].at + k].at = k /\ s[i - s[i].at + k].len = s[i].len

EndsMessage(s) == s # <<>> => Last(s).at = MSG_HEAD_LEN + Last(s).len

InUse(e) == phase[e] \in IF e = "client" THEN {"connecting", "open"} ELSE {"none", "open"}

(* What the streams are when one end has closed: StreamIntact says nothing *)
(* of them then, and the other end may still read what is on the wire.     *)
(* What is lost with the buffers of the end that closed is the last of     *)
(* what was sent.                                                          *)
Ordered ==
  \A e \in End :
    /\ Begins(got[Peer(e)], sent[e])
    /\ InUse(Peer(e)) => Begins(got[Peer(e)] \o ibuf[Peer(e)] \o wire[e], sent[e])
    /\ InMessages(sent[e])
    /\ EndsMessage(got[e])

(* The elements of one sequence after another, and of what they begin. *)
LEMMA ConcatElements ==
  ASSUME NEW a \in Seq(Byte), NEW b \in Seq(Byte), NEW c, c = a \o b
  PROVE  /\ Len(a) \in Nat /\ Len(b) \in Nat /\ Len(c) = Len(a) + Len(b)
         /\ \A i \in 1..Len(a) : c[i] = a[i]
         /\ \A i \in 1..Len(b) : c[Len(a) + i] = b[i]
<1>1. /\ Len(a \o b) = Len(a) + Len(b)
      /\ \A i \in 1..(Len(a) + Len(b)) : (a \o b)[i] = IF i <= Len(a) THEN a[i] ELSE b[i - Len(a)]
  BY ConcatProperties
<1>2. Len(a) \in Nat /\ Len(b) \in Nat
  BY LenProperties
<1>3. /\ Len(c) = Len(a) + Len(b)
      /\ \A i \in 1..(Len(a) + Len(b)) : c[i] = IF i <= Len(a) THEN a[i] ELSE b[i - Len(a)]
  BY <1>1
<1>4. \A i \in 1..Len(a) : c[i] = a[i]
  BY <1>2, <1>3
<1>5. ASSUME NEW i \in 1..Len(b) PROVE c[Len(a) + i] = b[i]
  <2>1. Len(a) + i \in 1..(Len(a) + Len(b)) /\ ~(Len(a) + i <= Len(a)) /\ Len(a) + i - Len(a) = i
    BY <1>2
  <2> QED  BY <1>3, <2>1
<1> QED  BY <1>2, <1>3, <1>4, <1>5

LEMMA BeginsElements ==
  ASSUME NEW a \in Seq(Byte), NEW b \in Seq(Byte), NEW s \in Seq(Byte), Begins(a \o b, s)
  PROVE  /\ Len(a) + Len(b) <= Len(s)
         /\ \A i \in 1..Len(a) : s[i] = a[i]
         /\ \A i \in 1..Len(b) : s[Len(a) + i] = b[i]
<1>1. PICK t \in Seq(Byte), u \in Seq(Byte) : t = a \o b /\ s = t \o u
  BY ConcatProperties DEF Begins
<1>2. /\ Len(a) \in Nat /\ Len(b) \in Nat /\ Len(t) = Len(a) + Len(b)
      /\ \A i \in 1..Len(a) : t[i] = a[i]
      /\ \A i \in 1..Len(b) : t[Len(a) + i] = b[i]
  <2>1. t = a \o b
    BY <1>1
  <2> QED  BY <2>1, ConcatElements
<1>3. /\ Len(u) \in Nat /\ Len(s) = Len(t) + Len(u)
      /\ \A i \in 1..Len(t) : s[i] = t[i]
  <2>1. s = t \o u
    BY <1>1
  <2> QED  BY <2>1, ConcatElements
<1> QED  BY <1>2, <1>3

LEMMA BeginsIsPrefix ==
  ASSUME NEW s \in Seq(Byte), NEW t \in Seq(Byte), Begins(s, t)
  PROVE  IsPrefix(s, t)
<1>1. PICK u \in Seq(Byte) : t = s \o u
  BY DEF Begins
<1>2. Len(t) = Len(s) + Len(u) /\ Len(s) \in Nat /\ Len(u) \in Nat
  BY <1>1
<1>3. SubSeq(t, 1, Len(s)) = s
  BY <1>1, <1>2, SubSeqOfConcat1, SubSeqFull
<1>4. SubSeq(s, 1, Len(s)) = s
  BY SubSeqFull
<1> QED  BY <1>2, <1>3, <1>4 DEF IsPrefix

LEMMA BeginsTransitive ==
  ASSUME NEW r \in Seq(Byte), NEW s \in Seq(Byte), NEW t, Begins(r, s), Begins(s, t)
  PROVE  Begins(r, t)
<1>1. PICK u \in Seq(Byte), v \in Seq(Byte) : s = r \o u /\ t = s \o v
  BY DEF Begins
<1>2. t = r \o (u \o v) /\ u \o v \in Seq(Byte)
  BY <1>1, Move, ConcatProperties
<1> QED  BY <1>2 DEF Begins

LEMMA BeginsItself ==
  ASSUME NEW s \in Seq(Byte)
  PROVE  Begins(s, s)
<1>1. <<>> \in Seq(Byte) /\ s = s \o <<>>
  BY EmptySeq, ConcatEmptySeq
<1> QED  BY <1>1 DEF Begins

(* After a message that has ended, or at the start, comes a first byte.    *)
LEMMA HeaderIsNext ==
  ASSUME NEW s \in Seq(Byte), InMessages(s), NEW g \in Nat, g < Len(s),
         g = 0 \/ s[g].at = MSG_HEAD_LEN + s[g].len
  PROVE  s[g + 1].at = 1
<1>1. PICK h \in DOMAIN s : h = g + 1
  OBVIOUS
<1> DEFINE a == s[h].at
           n == MSG_HEAD_LEN + s[h].len
<1>2. /\ a \in 1..n /\ a <= h
      /\ \A k \in 1..n : s[h - a + k].at = k /\ s[h - a + k].len = s[h].len
  BY Zenon DEF InMessages
<1>3. SUFFICES ASSUME a # 1 PROVE FALSE
  BY <1>1
<1>4. n \in Nat
  <2>1. s[h] \in Byte
    BY LenProperties
  <2> QED  BY <2>1, ConnectionAssumption DEF Byte
<1>5. g # 0 /\ a - 1 \in 1..n /\ h - a + (a - 1) = g
  <2>1. a \in 1..n /\ a <= h /\ h = g + 1
    BY <1>1, <1>2
  <2> HIDE DEF a, n
  <2> QED  BY <1>3, <1>4, <2>1
<1>6. s[g].at = a - 1 /\ s[g].len = s[h].len
  BY <1>2, <1>5
<1>7. a - 1 = n
  BY <1>5, <1>6
<1> QED  BY <1>2, <1>4, <1>7

(* send_msg appends a message.                                             *)
LEMMA AppendedMessage ==
  ASSUME NEW s \in Seq(Byte), InMessages(s), NEW k \in Nat, NEW len \in Nat
  PROVE  InMessages(s \o Message(k, len))
<1> DEFINE m == Message(k, len)
           n == MSG_HEAD_LEN + len
           t == s \o m
<1>1. n \in Nat /\ m \in Seq(Byte) /\ Len(m) = n
      /\ \A i \in 1..n : m[i].at = i /\ m[i].len = len
  <2>1. n \in Nat
    BY ConnectionAssumption
  <2>2. m \in Seq(Byte) /\ DOMAIN m = 1..n
    BY MessageType DEF Message
  <2>3. Len(m) = n
    BY <2>1, <2>2
  <2> QED  BY <2>1, <2>2, <2>3 DEF Message
<1> HIDE DEF m, n
<1>2. /\ t \in Seq(Byte) /\ Len(t) = Len(s) + n /\ DOMAIN t = 1..(Len(s) + n)
      /\ \A i \in 1..Len(s) : t[i] = s[i]
      /\ \A i \in 1..n : t[Len(s) + i] = m[i]
  BY <1>1
<1> HIDE DEF t
<1>3. Len(s) \in Nat
  OBVIOUS
<1> SUFFICES ASSUME NEW i \in DOMAIN t
             PROVE  /\ t[i].at \in 1..(MSG_HEAD_LEN + t[i].len)
                    /\ t[i].at <= i /\ i - t[i].at + MSG_HEAD_LEN + t[i].len <= Len(t)
                    /\ \A j \in 1..(MSG_HEAD_LEN + t[i].len) :
                         t[i - t[i].at + j].at = j /\ t[i - t[i].at + j].len = t[i].len
  BY DEF InMessages, t, m
<1>4. CASE i <= Len(s)
  <2>1. i \in 1..Len(s) /\ t[i] = s[i] /\ s[i] \in Byte
    BY <1>2, <1>3, <1>4
  <2>2. /\ s[i].at \in 1..(MSG_HEAD_LEN + s[i].len)
        /\ s[i].at <= i /\ i - s[i].at + MSG_HEAD_LEN + s[i].len <= Len(s)
        /\ \A j \in 1..(MSG_HEAD_LEN + s[i].len) :
             s[i - s[i].at + j].at = j /\ s[i - s[i].at + j].len = s[i].len
    BY <2>1 DEF InMessages
  <2>3. MSG_HEAD_LEN + s[i].len \in Nat /\ s[i].len \in Nat /\ s[i].at \in Nat
    BY <2>1, ConnectionAssumption DEF Byte
  <2>4. \A j \in 1..(MSG_HEAD_LEN + s[i].len) : i - s[i].at + j \in 1..Len(s)
    BY <1>3, <2>1, <2>2, <2>3, ConnectionAssumption
  <2>5. i - s[i].at + MSG_HEAD_LEN + s[i].len <= Len(t)
    BY <1>1, <1>2, <1>3, <2>1, <2>2, <2>3, ConnectionAssumption
  <2> QED  BY <1>2, <2>1, <2>2, <2>4, <2>5
<1>5. CASE i > Len(s)
  <2>1. i - Len(s) \in 1..n /\ i = Len(s) + (i - Len(s))
    BY <1>1, <1>2, <1>3, <1>5
  <2>2. t[i].at = i - Len(s) /\ t[i].len = len
    BY <1>1, <1>2, <2>1
  <2>3. i - t[i].at = Len(s) /\ MSG_HEAD_LEN + t[i].len = n
    <3>1. i \in Nat
      BY <1>1, <1>2, <1>3
    <3>2. i - t[i].at = Len(s)
      BY <1>3, <2>2, <3>1
    <3> QED  BY <2>2, <3>2 DEF n
  <2>4. i - t[i].at + MSG_HEAD_LEN + t[i].len = Len(t)
    <3>1. Len(t) = Len(s) + n
      BY <1>2
    <3>2. t[i].len = len /\ i - t[i].at = Len(s)
      BY <2>2, <2>3
    <3>3. i - t[i].at + MSG_HEAD_LEN + t[i].len = Len(s) + MSG_HEAD_LEN + len
      BY ONLY <3>2
    <3>4. Len(s) + MSG_HEAD_LEN + len = Len(s) + n
      BY ONLY <1>3, len \in Nat, ConnectionAssumption DEF n
    <3> QED  BY ONLY <3>1, <3>3, <3>4
  <2>5. t[i].at \in 1..n /\ t[i].at <= i
    BY <1>1, <1>2, <1>3, <2>1, <2>2
  <2>6. \A j \in 1..n : t[Len(s) + j].at = j /\ t[Len(s) + j].len = t[i].len
    BY <1>1, <1>2, <2>2
  <2>7. \A j \in 1..n : i - t[i].at + j = Len(s) + j
    BY <2>3
  <2>8. \A j \in 1..n : t[i - t[i].at + j].at = j /\ t[i - t[i].at + j].len = t[i].len
    BY <2>6, <2>7
  <2> QED  BY <2>3, <2>4, <2>5, <2>8
<1> QED  BY <1>2, <1>3, <1>4, <1>5

(* A step that puts more at the end of what was sent, moves bytes on       *)
(* towards a buffer in use, and takes from its front.                      *)
LEMMA StreamsGoOn ==
  ASSUME Inv, Inv', Ordered,
         \A e \in End : Begins(sent[e], sent'[e]),
         \A e \in End : InUse(e)' => InUse(e),
         \A e \in End : InUse(Peer(e))' /\ ~InUse(e)' =>
            got'[Peer(e)] \o ibuf'[Peer(e)] \o wire'[e] = got[Peer(e)] \o ibuf[Peer(e)] \o wire[e],
         \A e \in End : \/ got'[e] = got[e]
                        \/ InUse(e) /\ Begins(got'[e], got[e] \o ibuf[e])
  PROVE  \A e \in End :
           /\ Begins(got'[Peer(e)], sent'[e])
           /\ InUse(Peer(e))' => Begins(got'[Peer(e)] \o ibuf'[Peer(e)] \o wire'[e], sent'[e])
<1> SUFFICES ASSUME NEW e \in End
             PROVE  /\ Begins(got'[Peer(e)], sent'[e])
                    /\ InUse(Peer(e))' => Begins(got'[Peer(e)] \o ibuf'[Peer(e)] \o wire'[e], sent'[e])
  OBVIOUS
<1> DEFINE p == Peer(e)
<1>0. p \in End
  OBVIOUS
<1>1. /\ {got[p], ibuf[p], wire[e], sent[e], got'[p], ibuf'[p], wire'[e], obuf'[e], sent'[e]}
            \subseteq Seq(Byte)
      /\ got[p] \o ibuf[p] \in Seq(Byte) /\ got[p] \o ibuf[p] \o wire[e] \in Seq(Byte)
      /\ got'[p] \o ibuf'[p] \in Seq(Byte) /\ got'[p] \o ibuf'[p] \o wire'[e] \in Seq(Byte)
  <2>1. /\ {got[p], ibuf[p], wire[e], sent[e]} \subseteq Seq(Byte)
        /\ {got'[p], ibuf'[p], wire'[e], obuf'[e], sent'[e]} \subseteq Seq(Byte)
    BY <1>0 DEF Inv, TypeOK
  <2> HIDE DEF p
  <2> QED  BY <2>1, ConcatProperties
<1>2. /\ Begins(got[p], sent[e])
      /\ InUse(p) => Begins(got[p] \o ibuf[p] \o wire[e], sent[e])
      /\ Begins(sent[e], sent'[e])
  BY DEF Ordered
<1>3. ASSUME InUse(p)'
      PROVE  Begins(got'[p] \o ibuf'[p] \o wire'[e], sent'[e])
  <2>1. CASE InUse(e)'
    <3>2. BothInUse'
      BY <1>3, <2>1 DEF BothInUse, InUse
    <3>3. sent'[e] = got'[p] \o ibuf'[p] \o wire'[e] \o obuf'[e]
      BY <3>2 DEF Inv, StreamIntact
    <3> HIDE DEF p
    <3> QED  BY <1>1, <3>3 DEF Begins
  <2>2. CASE ~InUse(e)'
    <3>1. got'[p] \o ibuf'[p] \o wire'[e] = got[p] \o ibuf[p] \o wire[e] /\ InUse(p)
      BY <1>0, <1>3, <2>2
    <3> HIDE DEF p
    <3> QED  BY <1>1, <1>2, <3>1, BeginsTransitive
  <2> QED  BY <2>1, <2>2
<1>4. Begins(got'[p], sent'[e])
  <2>1. CASE got'[p] = got[p]
    <3> HIDE DEF p
    <3> QED  BY <1>1, <1>2, <2>1, BeginsTransitive
  <2>2. CASE InUse(p) /\ Begins(got'[p], got[p] \o ibuf[p])
    <3> HIDE DEF p
    <3>1. Begins(got[p] \o ibuf[p], got[p] \o ibuf[p] \o wire[e])
      BY <1>1 DEF Begins
    <3>2. Begins(got'[p], got[p] \o ibuf[p] \o wire[e])
      BY <1>1, <2>2, <3>1, BeginsTransitive
    <3>3. Begins(got'[p], sent[e])
      BY <1>1, <1>2, <2>2, <3>2, BeginsTransitive
    <3> QED  BY <1>1, <1>2, <3>3, BeginsTransitive
  <2> QED  BY <1>0, <2>1, <2>2
<1> QED  BY <1>3, <1>4

(* What do_read takes for a message that is complete is one: its input     *)
(* buffer starts with a header, whatever was cut off at earlier calls.     *)
LEMMA CallTakesMessage ==
  ASSUME Inv, Ordered, NEW e \in End, Call(e)
  PROVE  /\ Begins(got'[e], got[e] \o ibuf[e])
         /\ got'[Peer(e)] = got[Peer(e)]
         /\ EndsMessage(got'[e])
<1> DEFINE p == Peer(e)
<1>1. /\ p \in End /\ Peer(p) = e
      /\ ibuf[e] \in Seq(Byte) /\ got[e] \in Seq(Byte) /\ wire[p] \in Seq(Byte)
      /\ sent[p] \in Seq(Byte) /\ got \in [End -> Seq(Byte)]
  BY DEF Inv, TypeOK
<1>2. phase[e] = "open"
  BY DEF Inv, Quiet, Call, Headed
<1>3. Begins(got[e] \o ibuf[e], sent[p])
  <2>1. InUse(e)
    BY <1>2 DEF InUse
  <2>2. Begins(got[e] \o ibuf[e] \o wire[p], sent[p])
    BY <1>1, <2>1, Zenon DEF Ordered
  <2>3. PICK t \in Seq(Byte), v \in Seq(Byte) : t = got[e] \o ibuf[e] /\ v = t \o wire[p]
    BY <1>1, ConcatProperties
  <2>4. Begins(t, v) /\ Begins(v, sent[p])
    BY <1>1, <2>2, <2>3 DEF Begins
  <2> QED  BY <2>3, <2>4, BeginsTransitive
<1>4. Len(ibuf[e]) \in Nat /\ Len(ibuf[e]) >= MSG_HEAD_LEN /\ MSG_HEAD_LEN \in Nat \ {0}
  BY <1>1, ConnectionAssumption DEF Call, Headed
<1>5. PICK len \in Nat : len = ibuf[e][1].len /\ len = MsgLen(e)
  <2>1. ibuf[e][1] \in Byte /\ Head(ibuf[e]) = ibuf[e][1]
    BY <1>1, <1>4
  <2> QED  BY <2>1 DEF MsgLen, Byte
<1> DEFINE n == MSG_HEAD_LEN + len
<1>6. n \in 1..Len(ibuf[e]) /\ Popped(e) = n
  <2>1. n \in Nat \ {0} /\ n <= Len(ibuf[e])
    BY <1>4, <1>5 DEF Call, Complete
  <2>2. Popped(e) \in {Len(ibuf[e]), n} /\ Popped(e) <= n /\ Popped(e) <= Len(ibuf[e])
    <3>1. Len(ibuf[e]) \in Int /\ n \in Int
      BY <1>4, <2>1
    <3> HIDE DEF n
    <3>2. Popped(e) = Min({Len(ibuf[e]), n})
      BY <1>5 DEF Popped, n
    <3> QED  BY <3>1, <3>2, MinOfTwo
  <2> QED  BY <1>4, <2>1, <2>2
<1>7. got' = [got EXCEPT ![e] = got[e] \o SubSeq(ibuf[e], 1, n)]
  BY <1>6 DEF Call
<1> DEFINE x == SubSeq(ibuf[e], 1, n)
<1>8. /\ x \in Seq(Byte) /\ Len(x) = n /\ x[n] = ibuf[e][n]
      /\ SubSeq(ibuf[e], n + 1, Len(ibuf[e])) \in Seq(Byte)
      /\ x \o SubSeq(ibuf[e], n + 1, Len(ibuf[e])) = ibuf[e]
  <2>1. n \in 0..Len(ibuf[e])
    BY <1>4, <1>6
  <2> HIDE DEF n
  <2>2. /\ x \in Seq(Byte) /\ SubSeq(ibuf[e], n + 1, Len(ibuf[e])) \in Seq(Byte)
        /\ x \o SubSeq(ibuf[e], n + 1, Len(ibuf[e])) = ibuf[e]
    BY <1>1, <2>1, Cut
  <2>3. Len(x) = n /\ x[n] = ibuf[e][n]
    BY <1>1, <1>6
  <2> QED  BY <2>2, <2>3
<1> HIDE DEF x
<1>9. got'[e] = got[e] \o x /\ got'[Peer(e)] = got[Peer(e)]
  BY <1>1, <1>7 DEF x
<1>10. Begins(got'[e], got[e] \o ibuf[e])
  <2>1. got[e] \o ibuf[e] = (got[e] \o x) \o SubSeq(ibuf[e], n + 1, Len(ibuf[e]))
    <3>1. PICK y \in Seq(Byte) : y = SubSeq(ibuf[e], n + 1, Len(ibuf[e]))
      BY <1>8
    <3>2. (got[e] \o x) \o y = got[e] \o (x \o y)
      <4>1. got[e] \in Seq(Byte) /\ x \in Seq(Byte)
        BY <1>1, <1>8
      <4> QED  BY <4>1, Move, Zenon
    <3> QED  BY <1>8, <3>1, <3>2
  <2> QED  BY <1>8, <1>9, <2>1 DEF Begins
<1>11. ibuf[e][n].at = n /\ ibuf[e][n].len = len
  <2> DEFINE s == sent[p]
             g == Len(got[e])
  <2>1. g \in Nat /\ s \in Seq(Byte) /\ InMessages(s) /\ EndsMessage(got[e])
    BY <1>1 DEF Ordered
  <2>2. /\ g + Len(ibuf[e]) <= Len(s)
        /\ \A i \in 1..g : s[i] = got[e][i]
        /\ \A i \in 1..Len(ibuf[e]) : s[g + i] = ibuf[e][i]
    <3>1. got[e] \in Seq(Byte) /\ ibuf[e] \in Seq(Byte) /\ s \in Seq(Byte)
          /\ Begins(got[e] \o ibuf[e], s)
      BY <1>1, <1>3
    <3> HIDE DEF s, p
    <3> QED  BY <3>1, BeginsElements
  <2>3. s[g + 1].at = 1
    <3>1. g < Len(s)
      <4>1. g \in Nat /\ Len(s) \in Nat /\ g + Len(ibuf[e]) <= Len(s)
        BY <2>1, <2>2, LenProperties
      <4> HIDE DEF s, g
      <4> QED  BY <1>4, <4>1
    <3>2. g = 0 \/ s[g].at = MSG_HEAD_LEN + s[g].len
      <4>1. CASE got[e] = <<>>
        BY <4>1
      <4>2. CASE got[e] # <<>>
        <5>1. g \in 1..g
          BY <1>1, <4>2
        <5> QED  BY <2>1, <2>2, <4>2, <5>1 DEF EndsMessage, Last
      <4> QED  BY <4>1, <4>2
    <3> HIDE DEF s, g
    <3> QED  BY <2>1, <3>1, <3>2, HeaderIsNext
  <2>4. s[g + 1].len = len /\ g + 1 \in DOMAIN s
    <3>1. Len(s) \in Nat /\ DOMAIN s = 1..Len(s)
      BY <2>1
    <3> HIDE DEF s, g
    <3>2. g + 1 \in 1..Len(s)
      BY <1>4, <2>1, <2>2, <3>1
    <3>3. s[g + 1] = ibuf[e][1]
      BY <1>4, <2>2
    <3> QED  BY <1>5, <3>1, <3>2, <3>3
  <2> HIDE DEF s, g
  <2>5. PICK h \in DOMAIN s : h = g + 1
    BY <2>4
  <2>6. \A k \in 1..(MSG_HEAD_LEN + s[h].len) :
          s[h - s[h].at + k].at = k /\ s[h - s[h].at + k].len = s[h].len
    BY <2>1, Zenon DEF InMessages
  <2>7. s[h - s[h].at + n].at = n /\ s[h - s[h].at + n].len = len
    BY <1>6, <2>4, <2>5, <2>6
  <2>8. h - s[h].at + n = g + n
    <3>1. s[h].at = 1 /\ h - 1 = g
      BY <2>1, <2>3, <2>5
    <3> HIDE DEF n
    <3> QED  BY <3>1
  <2> QED  BY <1>6, <2>2, <2>7, <2>8
<1>12. EndsMessage(got'[e])
  <2>1. Len(got[e] \o x) = Len(got[e]) + n /\ (got[e] \o x)[Len(got[e]) + n] = x[n]
    <3>1. n \in 1..Len(x)
      BY <1>4, <1>6, <1>8
    <3>2. got[e] \in Seq(Byte) /\ x \in Seq(Byte)
      BY <1>1, <1>8
    <3> DEFINE y == got[e] \o x
    <3>3. /\ Len(y) = Len(got[e]) + Len(x)
          /\ \A i \in 1..Len(x) : y[Len(got[e]) + i] = x[i]
      BY <3>2, ConcatElements
    <3> HIDE DEF y
    <3>4. Len(y) = Len(got[e]) + n /\ y[Len(got[e]) + n] = x[n]
      BY <1>8, <3>1, <3>3
    <3> QED  BY <3>4 DEF y
  <2> QED  BY <1>8, <1>9, <1>11, <2>1 DEF EndsMessage, Last
<1> QED  BY <1>9, <1>10, <1>12

LEMMA OrderedGoesOn ==
  ASSUME Inv, Inv', Ordered,
         \A e \in End : Begins(sent[e], sent'[e]) /\ InMessages(sent'[e]),
         \A e \in End : InUse(e)' => InUse(e),
         \A e \in End : InUse(Peer(e))' /\ ~InUse(e)' =>
            got'[Peer(e)] \o ibuf'[Peer(e)] \o wire'[e] = got[Peer(e)] \o ibuf[Peer(e)] \o wire[e],
         \A e \in End : \/ got'[e] = got[e]
                        \/ /\ InUse(e) /\ Begins(got'[e], got[e] \o ibuf[e])
                           /\ EndsMessage(got'[e])
  PROVE  Ordered'
<1>1. \A e \in End : EndsMessage(got'[e])
  BY DEF Ordered
<1> QED  BY <1>1, StreamsGoOn DEF Ordered

(* Most steps leave the streams alone, the ends that close apart. *)
LEMMA ClosingOrdered ==
  ASSUME Inv, Inv', Ordered, UNCHANGED <<wire, sent, got>>,
         \A e \in End : InUse(e)' => InUse(e) /\ ibuf'[e] = ibuf[e]
  PROVE  Ordered'
<1>1. \A e \in End : Begins(sent[e], sent'[e]) /\ InMessages(sent'[e])
  BY BeginsItself DEF Inv, TypeOK, Ordered
<1>2. \A e \in End : got'[Peer(e)] = got[Peer(e)] /\ wire'[e] = wire[e] /\ got'[e] = got[e]
  OBVIOUS
<1> QED  BY <1>1, <1>2, OrderedGoesOn

LEMMA SendOrdered ==
  ASSUME Inv, Ordered, NEW e \in End, NEW len \in DataLen, SendMsg(e, len)
  PROVE  \A d \in End : Begins(sent[d], sent'[d]) /\ InMessages(sent'[d])
<1>1. PICK k \in Nat : sent' = [sent EXCEPT ![e] = sent[e] \o Message(k, len)]
  <2>1. Sent(e) + 1 \in Nat
    <3>1. sent[e] \in Seq(Byte)
      BY DEF Inv, TypeOK
    <3>2. sent[e] # <<>> => Last(sent[e]) \in Byte
      BY <3>1 DEF Last
    <3> QED  BY <3>2 DEF Sent, Byte
  <2> QED  BY <2>1 DEF SendMsg
<1>2. sent \in [End -> Seq(Byte)] /\ len \in Nat
  BY ConnectionAssumption DEF Inv, TypeOK
<1>3. ASSUME NEW d \in End, d # e PROVE Begins(sent[d], sent'[d]) /\ InMessages(sent'[d])
  BY <1>1, <1>2, <1>3, BeginsItself DEF Ordered
<1>4. Begins(sent[e], sent'[e]) /\ InMessages(sent'[e])
  <2>1. sent'[e] = sent[e] \o Message(k, len) /\ Message(k, len) \in Seq(Byte)
    BY <1>1, <1>2, MessageType
  <2>2. InMessages(sent[e] \o Message(k, len))
    BY <1>2, AppendedMessage DEF Ordered
  <2> QED  BY <2>1, <2>2 DEF Begins
<1> QED  BY <1>3, <1>4

LEMMA CallOrdered ==
  ASSUME Inv, Inv', Ordered, NEW e \in End, Call(e), Pop(e), UNCHANGED <<phase, wire, reading>>,
         UNCHANGED <<mask, obuf, sent>> \/ \E len \in DataLen : SendMsg(e, len)
  PROVE  Ordered'
<1>1. \A d \in End : Begins(sent[d], sent'[d]) /\ InMessages(sent'[d])
  BY SendOrdered, BeginsItself DEF Inv, TypeOK, Ordered
<1>2. \A d \in End : (InUse(d)' => InUse(d)) /\ wire'[d] = wire[d]
  BY DEF InUse
<1>3. /\ got'[Peer(e)] = got[Peer(e)] /\ ibuf'[Peer(e)] = ibuf[Peer(e)]
      /\ got'[e] \o ibuf'[e] = got[e] \o ibuf[e]
      /\ InUse(e)
  BY CallEffect DEF InUse
<1>4. Begins(got'[e], got[e] \o ibuf[e]) /\ EndsMessage(got'[e])
  BY CallTakesMessage
<1>5. \A d \in End : d = e \/ d = Peer(e)
  OBVIOUS
<1>6. \A d \in End : got'[Peer(d)] \o ibuf'[Peer(d)] = got[Peer(d)] \o ibuf[Peer(d)]
  BY <1>3
<1>7. \A d \in End : \/ got'[d] = got[d]
                     \/ InUse(d) /\ Begins(got'[d], got[d] \o ibuf[d]) /\ EndsMessage(got'[d])
  BY <1>3, <1>4, <1>5
<1> QED  BY <1>1, <1>2, <1>6, <1>7, OrderedGoesOn

LEMMA NextOrdered == Inv /\ Inv' /\ Ordered /\ [Next]_vars => Ordered'
<1> SUFFICES ASSUME Inv, Inv', Ordered, [Next]_vars PROVE Ordered'
  OBVIOUS
<1>0. \A e \in End : Begins(sent[e], sent[e]) /\ InMessages(sent[e])
  BY BeginsItself DEF Inv, TypeOK, Ordered
<1>1. CASE UNCHANGED vars
  BY <1>1 DEF vars, Ordered, InUse
<1>2. CASE \/ ConnectSucceeds \/ ConnectFails \/ NewConn \/ Release
           \/ \E e \in End : EndRead(e)
  <2>1. UNCHANGED <<wire, sent, got>> /\ \A e \in End : InUse(e)' => InUse(e) /\ ibuf'[e] = ibuf[e]
    BY <1>2 DEF ConnectSucceeds, ConnectFails, NewConn, Release, EndRead, InUse, Inv, TypeOK
  <2> QED  BY <2>1, ClosingOrdered
<1>3. ASSUME NEW e \in End, NEW len \in DataLen, Send(e, len) PROVE Ordered'
  <2>1. \A d \in End : Begins(sent[d], sent'[d]) /\ InMessages(sent'[d])
    BY <1>3, SendOrdered DEF Send
  <2>2. UNCHANGED <<phase, wire, ibuf, got>>
    BY <1>3 DEF Send
  <2>3. \A d \in End : /\ InUse(d)' => InUse(d)
                       /\ got'[d] = got[d] /\ ibuf'[d] = ibuf[d] /\ wire'[d] = wire[d]
    BY <2>2 DEF InUse
  <2> QED  BY <2>1, <2>3, OrderedGoesOn
<1>4. ASSUME NEW e \in End, DoWrite(e) PROVE Ordered'
  <2>1. UNCHANGED <<phase, ibuf, sent, got>> /\ phase[e] = "open"
        /\ \A d \in End : d # e => wire'[d] = wire[d]
    BY <1>4 DEF DoWrite, Writable, Inv, TypeOK
  <2>2. \A d \in End : /\ InUse(d)' => InUse(d)
                       /\ got'[d] = got[d] /\ ibuf'[d] = ibuf[d]
                       /\ ~InUse(d)' => wire'[d] = wire[d]
                       /\ Begins(sent[d], sent'[d]) /\ InMessages(sent'[d])
    BY <1>0, <2>1 DEF InUse
  <2> QED  BY <2>2, OrderedGoesOn
<1>5. ASSUME NEW e \in End, WriteFails(e) \/ ReadEnd(e) \/ Abnormal(e) PROVE Ordered'
  <2>1. Clean(e) /\ UNCHANGED <<wire, sent, got>>
    BY <1>5 DEF WriteFails, ReadEnd, Abnormal
  <2>2. \A d \in End : InUse(d)' => InUse(d) /\ ibuf'[d] = ibuf[d]
    BY <2>1 DEF Clean, InUse, Inv, TypeOK
  <2> QED  BY <2>1, <2>2, ClosingOrdered
<1>6. CASE DispatchDisconnect
  <2>1. Call("client") /\ Clean("client") /\ UNCHANGED <<wire, sent>>
    BY <1>6 DEF DispatchDisconnect
  <2>2. InUse("client") /\ ~InUse("client")' /\ (InUse("conn")' => InUse("conn"))
        /\ ibuf'["conn"] = ibuf["conn"]
    BY <2>1, CallEffect DEF Clean, InUse, Inv, TypeOK
  <2>3. /\ Begins(got'["client"], got["client"] \o ibuf["client"])
        /\ got'["conn"] = got["conn"] /\ EndsMessage(got'["client"])
    BY <2>1, CallTakesMessage
  <2>4. \A d \in End : /\ InUse(d)' => InUse(d) /\ d = "conn"
                       /\ Begins(sent[d], sent'[d]) /\ InMessages(sent'[d])
                       /\ \/ got'[d] = got[d]
                          \/ InUse(d) /\ Begins(got'[d], got[d] \o ibuf[d]) /\ EndsMessage(got'[d])
    BY <1>0, <2>1, <2>2, <2>3
  <2> QED  BY <2>1, <2>2, <2>3, <2>4, OrderedGoesOn
<1>7. ASSUME NEW e \in End, Read(e) PROVE Ordered'
  <2>1. /\ ibuf'[Peer(e)] = ibuf[Peer(e)] /\ wire'[e] = wire[e]
        /\ got[e] \o ibuf'[e] \o wire'[Peer(e)] = got[e] \o ibuf[e] \o wire[Peer(e)]
    BY <1>7, ReadEffect
  <2>2. UNCHANGED <<phase, sent, got>>
    BY <1>7 DEF Read
  <2>3. \A d \in End : got'[Peer(d)] \o ibuf'[Peer(d)] \o wire'[d] = got[Peer(d)] \o ibuf[Peer(d)] \o wire[d]
    <3> SUFFICES ASSUME NEW d \in End
                 PROVE  got'[Peer(d)] \o ibuf'[Peer(d)] \o wire'[d] = got[Peer(d)] \o ibuf[Peer(d)] \o wire[d]
      OBVIOUS
    <3>1. got'[Peer(d)] = got[Peer(d)]
      BY <2>2
    <3>2. CASE d = e
      <4>1. ibuf'[Peer(d)] = ibuf[Peer(d)] /\ wire'[d] = wire[d]
        BY <2>1, <3>2
      <4> QED  BY <3>1, <4>1, Zenon
    <3>3. CASE d = Peer(e)
      <4>1. Peer(d) = e /\ d = Peer(e)
        BY <3>3
      <4>2. got[Peer(d)] \o ibuf'[Peer(d)] \o wire'[d] = got[Peer(d)] \o ibuf[Peer(d)] \o wire[d]
        BY <2>1, <4>1, Zenon
      <4> QED  BY <3>1, <4>2, Zenon
    <3> QED  BY <3>2, <3>3
  <2>4. \A d \in End : /\ InUse(d)' => InUse(d)
                       /\ Begins(sent[d], sent'[d]) /\ InMessages(sent'[d]) /\ got'[d] = got[d]
    BY <1>0, <2>2 DEF InUse
  <2> QED  BY <2>3, <2>4, OrderedGoesOn
<1>8. ASSUME NEW e \in End, Dispatch(e) \/ \E len \in DataLen : DispatchReply(e, len) PROVE Ordered'
  <2>1. /\ Call(e) /\ Pop(e) /\ UNCHANGED <<phase, wire, reading>>
        /\ UNCHANGED <<mask, obuf, sent>> \/ \E len \in DataLen : SendMsg(e, len)
    BY <1>8 DEF Dispatch, DispatchReply
  <2> QED  BY <2>1, CallOrdered
<1> QED
  <2>1. CASE Next
    BY <2>1, <1>2, <1>3, <1>4, <1>5, <1>6, <1>7, <1>8 DEF Next, ReadStep
  <2> QED  BY <2>1, <1>1

LEMMA InitOrdered == Init => Ordered
<1> SUFFICES ASSUME Init PROVE Ordered
  OBVIOUS
<1>1. <<>> \in Seq(Byte) /\ <<>> \o <<>> \o <<>> = <<>> /\ Begins(<<>>, <<>>)
  BY EmptySeq, ConcatEmptySeq, BeginsItself
<1>2. InMessages(<<>>) /\ EndsMessage(<<>>)
  BY DEF InMessages, EndsMessage
<1>3. \A e \in End : sent[e] = <<>> /\ got[e] = <<>> /\ ibuf[e] = <<>> /\ wire[e] = <<>>
  BY DEF Init
<1> QED  BY <1>1, <1>2, <1>3 DEF Ordered

(* What the routers are called with is, in order and without a gap, what   *)
(* the other end sent, and whole messages, also after an end has closed    *)
(* and however the stream was cut (tcp_conn.cpp:67-154,                    *)
(* tcp_client.cpp:123-219).                                                *)
THEOREM MessagesComeInOrder == Spec => []InOrder
<1>1. Inv /\ Ordered => InOrder
  BY BeginsIsPrefix DEF Ordered, InOrder, EndsMessage, Inv, TypeOK
<1> QED  BY <1>1, InvariantHolds, InitOrdered, NextOrdered, PTL DEF Spec
=============================================================================
