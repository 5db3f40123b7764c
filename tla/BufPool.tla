------------------------------ MODULE BufPool ------------------------------
(***************************************************************************)
(* The pool of buffers that all threads share, and the input and output    *)
(* buffers (in_buf, out_buf) that take their memory from it.  alloc_buf    *)
(* and release are critical sections of _mem_mutex; a buffer that outgrows *)
(* its memory takes a larger piece, copies, and releases the old one.      *)
(* Bytes are numbered in the order in which they come to a buffer.         *)
(***************************************************************************)
EXTENDS Integers, FiniteSets, SequencesExt

CONSTANTS
  InBuf, OutBuf,     \* the reactor_bufs of the connections
  Class,             \* the sizes of the pool, m4K to m16M
  Made,              \* the classes of the io_bufs made at start, one by one
  MAX_BUF_POOL_CAP,
  PutLen,            \* lengths of what is sent, or has arrived
  Null,
  MaxBytes           \* bound: bytes that come to a buffer

Buf == InBuf \cup OutBuf
Largest  == CHOOSE c \in Class : \A d \in Class : d <= c
Smallest == CHOOSE c \in Class : \A d \in Class : c <= d

NewIoBuf(c) == [capacity |-> c, data |-> <<>>, head |-> 0]
(* What make_io_buf_pool makes, class by class, as far as the limit allows. *)
InitIo == [i \in DOMAIN Made |-> NewIoBuf(Made[i])]

(* What io_bufs hold together. *)
Capacity(io) ==
  LET upto[k \in 0..Len(io)] == IF k = 0 THEN 0 ELSE upto[k - 1] + io[k].capacity
  IN upto[Len(io)]

ASSUME PoolAssumption ==
  /\ Class \subseteq Nat \ {0} /\ Class # {} /\ IsFiniteSet(Class)
  /\ Made \in Seq(Class)
  /\ MAX_BUF_POOL_CAP \in Nat /\ Capacity(InitIo) <= MAX_BUF_POOL_CAP
  /\ PutLen \subseteq Nat \ {0} /\ MaxBytes \in Nat
  /\ InBuf \cap OutBuf = {} /\ Null \notin Nat

VARIABLES
  mem,      \* the io_bufs there are, the free ones of each class, _curr_cap
  buf,      \* _buf of each reactor_buf
  new_buf,  \* the larger piece a reactor_buf has been given, until it is swapped
  put,      \* how many bytes are to go there
  parsing,  \* the in_bufs whose do_read is between two pops
  came,     \* history: how many bytes came to a buffer, ...
  gone,     \* ... and were taken from it
  beyond,   \* the buffers that asked for more than the largest class holds
  crashed   \* a null pointer was used, or the end of a piece run over

vars == <<mem, buf, new_buf, put, parsing, came, gone, beyond, crashed>>

(* The constructor: all io_bufs are free, and counted. *)
Init == /\ mem = [io   |-> InitIo,
                  free |-> [c \in Class |-> SetToSeq({i \in DOMAIN Made : Made[i] = c})],
                  cap  |-> Capacity(InitIo)]
        /\ buf = [b \in Buf |-> Null] /\ new_buf = [b \in Buf |-> Null]
        /\ put = [b \in Buf |-> 0]
        /\ parsing = {}
        /\ came = [b \in Buf |-> 0] /\ gone = [b \in Buf |-> 0]
        /\ beyond = {} /\ crashed = FALSE

(* get_mem_len: the smallest class that holds len, and the smallest of all *)
(* for a length that none holds.                                           *)
GetMemLen(len) ==
  IF len <= Largest THEN CHOOSE c \in Class : len <= c /\ \A d \in Class : len <= d => c <= d
                    ELSE Smallest

(* Mutant: memory that is made is not counted. *)
AllocUncounted(len) ==
  LET c == GetMemLen(len)
  IN IF mem.free[c] # <<>>
     THEN [got |-> Head(mem.free[c]), mem |-> [mem EXCEPT !.free[c] = Tail(@)]]
     ELSE [got |-> Len(mem.io) + 1, mem |-> [mem EXCEPT !.io = Append(@, NewIoBuf(c))]]

(* alloc_buf: the piece, or Null, and the memory then.  A class that has   *)
(* none left gets a new one while the limit allows; no larger class is     *)
(* looked at.                                                              *)
Alloc(len) ==
  LET c == GetMemLen(len)
  IN IF mem.free[c] # <<>>
     THEN [got |-> Head(mem.free[c]), mem |-> [mem EXCEPT !.free[c] = Tail(@)]]
     ELSE IF mem.cap + c > MAX_BUF_POOL_CAP
     THEN [got |-> Null, mem |-> mem]
     ELSE [got |-> Len(mem.io) + 1,
           mem |-> [mem EXCEPT !.io = Append(@, NewIoBuf(c)), !.cap = @ + c]]

(* release of piece i: it is emptied and heads the list of its class. *)
Released(i) == [mem EXCEPT !.free[mem.io[i].capacity] = <<i>> \o @,
                           !.io[i] = NewIoBuf(@.capacity)]

(* n more bytes for b behind those of piece i of memory m. *)
Extended(m, i, b, n) == [m EXCEPT !.io[i].data = @ \o [k \in 1..n |-> came[b] + k]]
Overrun(m, i, n) == m.io[i].head + Len(m.io[i].data) + n > m.io[i].capacity

CanPut(b, n) == /\ ~crashed /\ new_buf[b] = Null /\ b \notin parsing
                /\ came[b] + n <= MaxBytes

(* send_data or readfd of n bytes, for a buffer without memory, ... *)
PutFirst(b, n) ==
  LET a == Alloc(n)
  IN /\ CanPut(b, n) /\ buf[b] = Null
     /\ beyond' = IF n > Largest THEN beyond \cup {b} ELSE beyond
     /\ \/ /\ a.got = Null
           /\ UNCHANGED <<mem, buf, came, crashed>>
        \/ /\ a.got # Null
           /\ mem' = Extended(a.mem, a.got, b, n)
           /\ buf' = [buf EXCEPT ![b] = a.got]
           /\ came' = [came EXCEPT ![b] = @ + n]
           /\ crashed' = Overrun(a.mem, a.got, n)
     /\ UNCHANGED <<new_buf, put, parsing, gone>>

Need(b, n) == n + Len(mem.io[buf[b]].data)

(* ... for one that has room left, ... *)
PutFits(b, n) ==
  /\ CanPut(b, n) /\ buf[b] # Null
  /\ Need(b, n) <= mem.io[buf[b]].capacity
  /\ mem' = Extended(mem, buf[b], b, n)
  /\ came' = [came EXCEPT ![b] = @ + n]
  /\ crashed' = Overrun(mem, buf[b], n)
  /\ UNCHANGED <<buf, new_buf, put, parsing, gone, beyond>>

(* Mutant: the larger piece is taken without the bytes there were. *)
PutGrowsEmpty(b, n) ==
  LET a == Alloc(Need(b, n))
  IN /\ CanPut(b, n) /\ buf[b] # Null
     /\ Need(b, n) > mem.io[buf[b]].capacity
     /\ a.got # Null
     /\ mem' = a.mem
     /\ new_buf' = [new_buf EXCEPT ![b] = a.got]
     /\ put' = [put EXCEPT ![b] = n]
     /\ beyond' = IF Need(b, n) > Largest THEN beyond \cup {b} ELSE beyond
     /\ UNCHANGED <<buf, parsing, came, gone, crashed>>

(* ... and for one that has not: a larger piece, into which copy() brings  *)
(* what there is, or nothing if that does not fit.  The test for null is   *)
(* made on the old piece, so one that was refused is used all the same.    *)
PutGrows(b, n) ==
  LET a == Alloc(Need(b, n))
      old == mem.io[buf[b]].data
      copied == IF Len(old) <= a.mem.io[a.got].capacity THEN old ELSE <<>>
  IN /\ CanPut(b, n) /\ buf[b] # Null
     /\ Need(b, n) > mem.io[buf[b]].capacity
     /\ \/ /\ a.got = Null
           /\ crashed' = TRUE
           /\ UNCHANGED <<mem, new_buf, put>>
        \/ /\ a.got # Null
           /\ mem' = [a.mem EXCEPT !.io[a.got].data = copied]
           /\ new_buf' = [new_buf EXCEPT ![b] = a.got]
           /\ put' = [put EXCEPT ![b] = n]
           /\ UNCHANGED crashed
     /\ beyond' = IF Need(b, n) > Largest THEN beyond \cup {b} ELSE beyond
     /\ UNCHANGED <<buf, parsing, came, gone>>

(* Mutant: the old piece is not given back. *)
SwapLeaks(b) == /\ ~crashed /\ new_buf[b] # Null
                /\ mem' = Extended(mem, new_buf[b], b, put[b])
                /\ crashed' = Overrun(mem, new_buf[b], put[b])
                /\ buf' = [buf EXCEPT ![b] = new_buf[b]]
                /\ new_buf' = [new_buf EXCEPT ![b] = Null]
                /\ put' = [put EXCEPT ![b] = 0]
                /\ came' = [came EXCEPT ![b] = @ + put[b]]
                /\ UNCHANGED <<parsing, gone, beyond>>

(* The old piece is released, the new one takes its place and the bytes.   *)
Swap(b) == /\ ~crashed /\ new_buf[b] # Null
           /\ mem' = Extended(Released(buf[b]), new_buf[b], b, put[b])
           /\ crashed' = Overrun(mem, new_buf[b], put[b])
           /\ buf' = [buf EXCEPT ![b] = new_buf[b]]
           /\ new_buf' = [new_buf EXCEPT ![b] = Null]
           /\ put' = [put EXCEPT ![b] = 0]
           /\ came' = [came EXCEPT ![b] = @ + put[b]]
           /\ UNCHANGED <<parsing, gone, beyond>>

(* clear: the connection ends. *)
Clear(b) == /\ ~crashed /\ new_buf[b] = Null /\ buf[b] # Null
            /\ mem' = Released(buf[b])
            /\ buf' = [buf EXCEPT ![b] = Null]
            /\ parsing' = parsing \ {b}
            /\ gone' = [gone EXCEPT ![b] = came[b]]
            /\ beyond' = beyond \ {b}
            /\ UNCHANGED <<new_buf, put, came, crashed>>

(* pop, of n bytes there are. *)
Popped(m, i, n) ==
  LET p == m.io[i]
  IN [m EXCEPT !.io[i] = [capacity |-> p.capacity, data |-> SubSeq(p.data, n + 1, Len(p.data)),
                          head     |-> p.head + n]]
Adjusted(m, i) == [m EXCEPT !.io[i].head = 0]

Takes(b, n) == /\ ~crashed /\ new_buf[b] = Null /\ buf[b] # Null
               /\ n <= Len(mem.io[buf[b]].data)
               /\ gone' = [gone EXCEPT ![b] = @ + n]

(* write2fd: the socket takes n bytes, and the rest moves to the front. *)
Write2fd(b, n) == /\ b \in OutBuf /\ Takes(b, n)
                  /\ mem' = Adjusted(Popped(mem, buf[b], n), buf[b])
                  /\ UNCHANGED <<buf, new_buf, put, parsing, came, beyond, crashed>>

(* do_read pops headers and data one by one, with the callbacks in between *)
(* (which may end the connection, Clear), ...                              *)
Pop(b, n) == /\ b \in InBuf /\ Takes(b, n)
             /\ mem' = Popped(mem, buf[b], n)
             /\ parsing' = parsing \cup {b}
             /\ UNCHANGED <<buf, new_buf, put, came, beyond, crashed>>

(* Mutant: do_read returns without adjust when a message is incomplete. *)
AdjustIfEmpty(b) == /\ ~crashed /\ b \in parsing
                    /\ mem' = IF mem.io[buf[b]].data = <<>> THEN Adjusted(mem, buf[b]) ELSE mem
                    /\ parsing' = parsing \ {b}
                    /\ UNCHANGED <<buf, new_buf, put, came, gone, beyond, crashed>>

(* ... and adjusts the buffer once, in the end. *)
Adjust(b) == /\ ~crashed /\ b \in parsing
             /\ mem' = Adjusted(mem, buf[b])
             /\ parsing' = parsing \ {b}
             /\ UNCHANGED <<buf, new_buf, put, came, gone, beyond, crashed>>

Next == \E b \in Buf :
          \/ \E n \in PutLen : \/ PutFirst(b, n) \/ PutFits(b, n) \/ PutGrows(b, n)
                               \/ Write2fd(b, n) \/ Pop(b, n)
          \/ Swap(b) \/ Clear(b) \/ Adjust(b)

Spec == Init /\ [][Next]_vars
-----------------------------------------------------------------------------
(* Each piece of memory has one place: once in the free list of its class, *)
(* clean, or in one buffer, or on its way to one: threads that take and    *)
(* give back at the same time never share a piece, and none is lost        *)
(* (buf_pool.cpp:15-68, reactor_buf.cpp:71-79, 150-158).                   *)
InUse == {b \in Buf : buf[b] # Null}
Coming == {b \in Buf : new_buf[b] # Null}
FreePlaces == {p \in Class \X (1..Len(mem.io)) : p[2] <= Len(mem.free[p[1]])}
OnePlace ==
  /\ \A c \in Class, k \in 1..Len(mem.io) : k <= Len(mem.free[c]) =>
       mem.io[mem.free[c][k]] = NewIoBuf(c)
  /\ \A i \in DOMAIN mem.io :
         Cardinality({p \in FreePlaces : mem.free[p[1]][p[2]] = i})
       + Cardinality({b \in InUse : buf[b] = i})
       + Cardinality({b \in Coming : new_buf[b] = i}) = 1

(* The account of the pool is what was made, and stays within its limit    *)
(* (buf_pool.cpp:27-43, 93-118).                                           *)
CapacityCounted ==
  mem.cap = Capacity(mem.io) /\ mem.cap <= MAX_BUF_POOL_CAP

(* A buffer holds the bytes that came and were not taken, in order, in a   *)
(* piece large enough, through any growth, for as long as it has not       *)
(* outgrown the largest class: then copy() brings nothing and the bytes    *)
(* are gone (buf_pool.cpp:121-153, io_buf.cpp:85-98, reactor_buf.cpp).     *)
HoldsWhatCame ==
  \A b \in InUse \ beyond :
    LET i == mem.io[buf[b]]
    IN ~crashed => /\ i.data = [k \in 1..(came[b] - gone[b]) |-> gone[b] + k]
                   /\ Len(i.data) <= i.capacity

(* What readfd and send_data assert, that the data start at the head of    *)
(* the piece (reactor_buf.cpp:67, 146): true whenever one is called.       *)
DataAtHead == \A b \in InUse \ parsing : mem.io[buf[b]].head = 0
=============================================================================
