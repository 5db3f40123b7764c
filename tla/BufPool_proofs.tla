--------------------------- MODULE BufPool_proofs ---------------------------
(***************************************************************************)
(* No two buffers share a piece of memory and none is lost, the account of *)
(* the pool is right, and a buffer holds the bytes that came to it, for    *)
(* any buffers, classes, lengths and limits.                               *)
(***************************************************************************)
EXTENDS BufPool, FiniteSetTheorems, SequenceTheorems, WellFoundedInduction, TLAPS

LEMMA LeastOf ==
  ASSUME NEW S \in SUBSET Nat, S # {}
  PROVE  \E m \in S : \A k \in S : m <= k
<1>1. PICK m \in S : \A k \in S : ~ (<<k, m>> \in OpToRel(<, Nat))
  BY NatLessThanWellFounded, WFMin
<1>2. \A k \in S : ~ (k < m)
  BY <1>1 DEF OpToRel
<1> QED  BY <1>2

-----------------------------------------------------------------------------
(* Classes *)

(* A finite set of numbers, unless empty, has a largest: a smallest subset *)
(* without one would lack it after an element is added to a smaller one.   *)
LEMMA LargestOf ==
  ASSUME NEW S \in SUBSET Nat, IsFiniteSet(S), S # {}
  PROVE  \E m \in S : \A k \in S : k <= m
<1> DEFINE HasLargest(T) == \E m \in T : \A k \in T : k <= m
           Bad == {T \in SUBSET S : T # {} /\ ~HasLargest(T)}
<1>1. SUFFICES ASSUME Bad # {} PROVE FALSE
  OBVIOUS
<1>2. FiniteSubsetsOf(S) = SUBSET S
  BY FS_FiniteSubsetsOfFinite
<1>3. PICK T \in Bad : \A U \in Bad : ~ (<<U, T>> \in StrictSubsetOrdering(S))
  <2>1. IsWellFoundedOn(StrictSubsetOrdering(S), SUBSET S)
    BY <1>2, FS_StrictSubsetOrderingWellFounded
  <2>2. Bad \subseteq SUBSET S
    OBVIOUS
  <2> HIDE DEF Bad
  <2> QED  BY <1>1, <2>1, <2>2, WFMin
<1>4. PICK x \in T : TRUE
  OBVIOUS
<1>5. T \ {x} \notin Bad
  <2>1. <<T \ {x}, T>> \in StrictSubsetOrdering(S)
    BY <1>4 DEF StrictSubsetOrdering
  <2> QED  BY <1>3, <2>1
<1>6. CASE T \ {x} = {}
  <2>1. T = {x} /\ x \in Nat
    BY <1>4, <1>6
  <2> QED  BY <2>1
<1>7. CASE HasLargest(T \ {x})
  <2>1. PICK m \in T \ {x} : \A k \in T \ {x} : k <= m
    BY <1>7
  <2>2. x \in Nat /\ m \in Nat /\ T \subseteq Nat
    OBVIOUS
  <2>3. CASE x <= m
    BY <2>1, <2>3
  <2>4. CASE m <= x
    BY <2>1, <2>2, <2>4
  <2> QED  BY <2>2, <2>3, <2>4
<1> QED  BY <1>5, <1>6, <1>7

LEMMA LargestIs == Largest \in Class /\ Largest \in Nat
<1>1. Class \in SUBSET Nat /\ Class # {} /\ IsFiniteSet(Class)
  BY PoolAssumption
<1>2. Largest \in Class
  BY <1>1, LargestOf DEF Largest
<1> QED  BY <1>1, <1>2

(* get_mem_len returns a class, which holds what the largest class can.    *)
LEMMA ClassFits ==
  ASSUME NEW len \in Nat
  PROVE  GetMemLen(len) \in Class /\ (len <= Largest => len <= GetMemLen(len))
<1>1. Class \in SUBSET Nat /\ Class # {} /\ IsFiniteSet(Class)
  BY PoolAssumption
<1>2. CASE len <= Largest
  <2>1. Largest \in Class
    BY <1>1, LargestOf DEF Largest
  <2>2. \E c \in {d \in Class : len <= d} : \A d \in {e \in Class : len <= e} : c <= d
    BY <1>1, <1>2, <2>1, LeastOf
  <2>3. \E c : c \in Class /\ len <= c /\ \A d \in Class : len <= d => c <= d
    BY <2>2
  <2>4. \E c \in Class : len <= c /\ \A d \in Class : len <= d => c <= d
    BY <2>3
  <2> QED  BY <1>2, <2>4 DEF GetMemLen
<1>3. CASE ~(len <= Largest)
  <2>1. Smallest \in Class
    BY <1>1, LeastOf DEF Smallest
  <2> QED  BY <1>3, <2>1 DEF GetMemLen
<1> QED  BY <1>2, <1>3

-----------------------------------------------------------------------------
(* The account *)
Upto(g, n, io) == g = [k \in 0..n |-> IF k = 0 THEN 0 ELSE g[k - 1] + io[k].capacity]

LEMMA CapacityIs ==
  ASSUME NEW io
  PROVE  Capacity(io) = (CHOOSE g : Upto(g, Len(io), io))[Len(io)]
BY DEF Capacity, Upto

LEMMA UptoExists ==
  ASSUME NEW io, NEW n \in Nat
  PROVE  \E g : Upto(g, n, io)
<1> DEFINE Bad == {m \in Nat : ~ \E g : Upto(g, m, io)}
<1>1. SUFFICES ASSUME Bad # {} PROVE FALSE
  OBVIOUS
<1>2. PICK m \in Bad : \A k \in Bad : m <= k
  BY <1>1, LeastOf
<1>3. CASE m = 0
  <2>1. Upto([k \in 0..0 |-> 0], 0, io)
    BY DEF Upto
  <2> QED  BY <1>3, <2>1
<1>4. CASE m # 0
  <2>1. m - 1 \in Nat /\ m - 1 \notin Bad
    BY <1>2, <1>4
  <2>2. PICK g : Upto(g, m - 1, io)
    BY <2>1
  <2> DEFINE h == [k \in 0..m |-> IF k = m THEN g[m - 1] + io[m].capacity ELSE g[k]]
  <2>3. ASSUME NEW k \in 0..m
        PROVE  h[k] = IF k = 0 THEN 0 ELSE h[k - 1] + io[k].capacity
    <3>1. CASE k = m
      <4>1. h[k] = g[m - 1] + io[m].capacity /\ m - 1 \in 0..m /\ m - 1 # m /\ k # 0
        BY <1>4, <2>1, <3>1
      <4>2. h[m - 1] = g[m - 1]
        BY <4>1
      <4> QED  BY <3>1, <4>1, <4>2
    <3>2. CASE k # m
      <4>1. k \in 0..(m - 1) /\ h[k] = g[k]
        BY <3>2
      <4>2. g[k] = IF k = 0 THEN 0 ELSE g[k - 1] + io[k].capacity
        BY <2>2, <4>1 DEF Upto
      <4>3. k # 0 => k - 1 \in 0..m /\ k - 1 # m
        BY <3>2
      <4>4. k # 0 => h[k - 1] = g[k - 1]
        BY <4>3
      <4> QED  BY <4>1, <4>2, <4>4
    <3> QED  BY <3>1, <3>2
  <2>4. Upto(h, m, io)
    BY <2>3 DEF Upto
  <2> QED  BY <2>4
<1> QED  BY <1>3, <1>4

(* Of two tables what the io_bufs hold alike is counted alike. *)
LEMMA UptoAgree ==
  ASSUME NEW io, NEW jo, NEW g, NEW h, NEW n \in Nat, NEW m \in Nat,
         Upto(g, n, io), Upto(h, m, jo), n <= m,
         \A k \in 1..n : io[k].capacity = jo[k].capacity
  PROVE  g[n] = h[n]
<1> DEFINE Bad == {k \in 0..n : g[k] # h[k]}
<1>1. SUFFICES ASSUME Bad # {} PROVE FALSE
  OBVIOUS
<1>2. PICK k \in Bad : \A i \in Bad : k <= i
  <2>1. Bad \in SUBSET Nat
    OBVIOUS
  <2> HIDE DEF Bad
  <2> QED  BY <1>1, <2>1, LeastOf
<1>3. /\ g[k] = IF k = 0 THEN 0 ELSE g[k - 1] + io[k].capacity
      /\ h[k] = IF k = 0 THEN 0 ELSE h[k - 1] + jo[k].capacity
  BY DEF Upto
<1>4. k # 0 => k \in 1..n /\ k - 1 \in 0..n /\ k - 1 \notin Bad
  BY <1>2
<1> QED  BY <1>3, <1>4

LEMMA SameCapacity ==
  ASSUME NEW io, NEW jo, Len(io) \in Nat, Len(jo) = Len(io),
         \A k \in 1..Len(io) : io[k].capacity = jo[k].capacity
  PROVE  Capacity(jo) = Capacity(io)
<1>1. PICK n \in Nat : n = Len(io)
  OBVIOUS
<1>2. PICK g : Upto(g, n, io) /\ Capacity(io) = g[n]
  <2>1. Upto(CHOOSE g : Upto(g, n, io), n, io)
    BY UptoExists
  <2> QED  BY <1>1, <2>1, CapacityIs
<1>3. PICK h : Upto(h, n, jo) /\ Capacity(jo) = h[n]
  <2>1. Upto(CHOOSE h : Upto(h, n, jo), n, jo)
    BY UptoExists
  <2> QED  BY <1>1, <2>1, CapacityIs
<1>4. n <= n /\ \A k \in 1..n : io[k].capacity = jo[k].capacity
  BY <1>1
<1>5. g[n] = h[n]
  BY ONLY n \in Nat, <1>2, <1>3, <1>4, UptoAgree
<1> QED  BY <1>2, <1>3, <1>5

LEMMA MoreCapacity ==
  ASSUME NEW io, NEW jo, Len(io) \in Nat, Len(jo) = Len(io) + 1,
         \A k \in 1..Len(io) : io[k].capacity = jo[k].capacity
  PROVE  Capacity(jo) = Capacity(io) + jo[Len(jo)].capacity
<1>1. PICK n \in Nat : n = Len(io)
  OBVIOUS
<1>2. PICK g : Upto(g, n, io) /\ Capacity(io) = g[n]
  <2>1. Upto(CHOOSE g : Upto(g, n, io), n, io)
    BY UptoExists
  <2> QED  BY <1>1, <2>1, CapacityIs
<1>3. PICK h : Upto(h, n + 1, jo) /\ Capacity(jo) = h[n + 1]
  <2>1. Upto(CHOOSE h : Upto(h, n + 1, jo), n + 1, jo)
    BY UptoExists
  <2> QED  BY <1>1, <2>1, CapacityIs
<1>4. g[n] = h[n]
  <2>1. PICK m \in Nat : m = n + 1
    OBVIOUS
  <2>2. Upto(h, m, jo)
    BY <1>3, <2>1
  <2>3. n <= m /\ \A k \in 1..n : io[k].capacity = jo[k].capacity
    BY <1>1, <2>1
  <2> QED  BY ONLY n \in Nat, m \in Nat, <1>2, <2>2, <2>3, UptoAgree
<1>5. h[n + 1] = h[n] + jo[n + 1].capacity
  BY <1>3 DEF Upto
<1> QED  BY <1>1, <1>2, <1>3, <1>4, <1>5

-----------------------------------------------------------------------------
(* Memory, and the pieces of it that are used *)
IoBuf == [capacity : Class, data : Seq(Nat), head : Nat]
MemType == [io : Seq(IoBuf), free : [Class -> Seq(Nat)], cap : Nat]

(* The free lists hold, clean and once, in the list of its class, just     *)
(* what is not used.                                                       *)
FreeClean(m, used) ==
  \A c \in Class : \A k \in 1..Len(m.free[c]) :
    /\ m.free[c][k] \in 1..Len(m.io) /\ m.free[c][k] \notin used
    /\ m.io[m.free[c][k]] = NewIoBuf(c)
FreeOnce(m) ==
  \A c \in Class : \A j \in 1..Len(m.free[c]), k \in 1..Len(m.free[c]) :
    m.free[c][j] = m.free[c][k] => j = k
NoneLost(m, used) ==
  \A i \in 1..Len(m.io) : i \notin used =>
    \E k \in 1..Len(m.free[m.io[i].capacity]) : m.free[m.io[i].capacity][k] = i
Kept(m, used) == /\ used \subseteq 1..Len(m.io)
                 /\ FreeClean(m, used) /\ FreeOnce(m) /\ NoneLost(m, used)

Accounted(m) == m.cap = Capacity(m.io) /\ m.cap <= MAX_BUF_POOL_CAP

(* What the operations of the pool make of memory m. *)
TakesFree(m, c, t, i) == t = [m EXCEPT !.free[c] = Tail(@)] /\ i = Head(m.free[c])
MakesNew(m, c, t, i) == /\ t = [m EXCEPT !.io = Append(@, NewIoBuf(c)), !.cap = @ + c]
                        /\ i = Len(m.io) + 1 /\ m.cap + c <= MAX_BUF_POOL_CAP
Changes(m, i, x, t) == t = [io |-> [m.io EXCEPT ![i] = x], free |-> m.free, cap |-> m.cap]
GivesBack(m, i, r, t) == LET c == m.io[i].capacity
                         IN /\ r = <<i>> \o m.free[c]
                            /\ t = [io |-> m.io, free |-> [m.free EXCEPT ![c] = r], cap |-> m.cap]

LEMMA ClassNat == Class \subseteq Nat /\ \A c \in Class : c # 0 /\ NewIoBuf(c) \in IoBuf
<1>1. Class \subseteq Nat /\ \A c \in Class : c # 0
  BY PoolAssumption
<1>2. <<>> \in Seq(Nat)
  OBVIOUS
<1> QED  BY <1>1, <1>2 DEF NewIoBuf, IoBuf

(* A free piece is taken from the head of its list. *)
LEMMA TakeFree ==
  ASSUME NEW m \in MemType, NEW used, Kept(m, used),
         NEW c \in Class, m.free[c] # <<>>,
         NEW t, NEW i, TakesFree(m, c, t, i)
  PROVE  /\ t \in MemType /\ t.io = m.io /\ t.cap = m.cap
         /\ i \in 1..Len(m.io) /\ i \notin used /\ m.io[i] = NewIoBuf(c)
         /\ Kept(t, used \cup {i})
<1> DEFINE f == m.free
<1>1. /\ f \in [Class -> Seq(Nat)] /\ f[c] \in Seq(Nat) /\ f[c] # <<>>
      /\ m.io \in Seq(IoBuf) /\ m.cap \in Nat
  BY DEF MemType
<1>2. t.io = m.io /\ t.cap = m.cap /\ t.free = [f EXCEPT ![c] = Tail(@)]
      /\ t = [m EXCEPT !.free[c] = Tail(@)] /\ i = Head(f[c])
  BY DEF MemType, TakesFree
<1>3. /\ Tail(f[c]) \in Seq(Nat) /\ Len(f[c]) \in Nat /\ Len(f[c]) >= 1 /\ i = f[c][1]
      /\ Len(Tail(f[c])) = Len(f[c]) - 1
      /\ \A k \in 1..Len(Tail(f[c])) : Tail(f[c])[k] = f[c][k + 1]
  BY <1>1, <1>2
<1> DEFINE r == Tail(f[c])
<1>3a. PICK n \in Nat : n = Len(f[c]) /\ n >= 1 /\ Len(r) = n - 1
  BY <1>3
<1>3b. ASSUME NEW k \in 1..Len(r)
       PROVE  k + 1 \in 1..Len(f[c]) /\ 1 \in 1..Len(f[c]) /\ k + 1 # 1 /\ r[k] = f[c][k + 1]
  BY <1>3, <1>3a
<1>4. t \in MemType
  BY <1>1, <1>2, <1>3 DEF MemType
<1>5. i \in 1..Len(m.io) /\ i \notin used /\ m.io[i] = NewIoBuf(c)
  BY <1>1, <1>3 DEF Kept, FreeClean
<1>6. FreeClean(t, used \cup {i})
  <2> SUFFICES ASSUME NEW d \in Class, NEW k \in 1..Len(t.free[d])
               PROVE  /\ t.free[d][k] \in 1..Len(m.io) /\ t.free[d][k] \notin used
                      /\ t.free[d][k] # i /\ m.io[t.free[d][k]] = NewIoBuf(d)
    BY <1>2 DEF FreeClean
  <2>1. CASE d = c
    <3>1. t.free[d] = Tail(f[c])
      BY <1>1, <1>2, <2>1
    <3>2. k + 1 \in 1..Len(f[c]) /\ 1 \in 1..Len(f[c]) /\ k + 1 # 1 /\ t.free[d][k] = f[c][k + 1]
      BY ONLY <1>3b, <3>1, k \in 1..Len(t.free[d])
    <3>3. f[c][k + 1] # f[c][1]
      BY <3>2 DEF Kept, FreeOnce
    <3>4. /\ f[c][k + 1] \in 1..Len(m.io) /\ f[c][k + 1] \notin used
          /\ m.io[f[c][k + 1]] = NewIoBuf(c)
      BY <3>2 DEF Kept, FreeClean
    <3> QED  BY <1>3, <2>1, <3>2, <3>3, <3>4
  <2>2. CASE d # c
    <3>1. t.free[d] = f[d]
      BY <1>1, <1>2, <2>2
    <3>2. NewIoBuf(d) # NewIoBuf(c)
      BY <2>2 DEF NewIoBuf
    <3> QED  BY <1>5, <3>1, <3>2 DEF Kept, FreeClean
  <2> QED  BY <2>1, <2>2
<1>7. FreeOnce(t)
  <2> SUFFICES ASSUME NEW d \in Class, NEW j \in 1..Len(t.free[d]), NEW k \in 1..Len(t.free[d]),
                      t.free[d][j] = t.free[d][k]
               PROVE  j = k
    BY DEF FreeOnce
  <2>1. CASE d = c
    <3>1. t.free[d] = Tail(f[c])
      BY <1>1, <1>2, <2>1
    <3>2. /\ k + 1 \in 1..Len(f[c]) /\ t.free[d][k] = f[c][k + 1]
          /\ j + 1 \in 1..Len(f[c]) /\ t.free[d][j] = f[c][j + 1]
      BY ONLY <1>3b, <3>1, k \in 1..Len(t.free[d]), j \in 1..Len(t.free[d])
    <3>3. j + 1 = k + 1
      BY <3>2 DEF Kept, FreeOnce
    <3>4. j \in Int /\ k \in Int
      OBVIOUS
    <3> QED  BY ONLY <3>3, <3>4
  <2>2. CASE d # c
    <3>1. t.free[d] = f[d]
      BY <1>1, <1>2, <2>2
    <3> QED  BY <3>1 DEF Kept, FreeOnce
  <2> QED  BY <2>1, <2>2
<1>8. NoneLost(t, used \cup {i})
  <2> SUFFICES ASSUME NEW j \in 1..Len(m.io), j \notin used, j # i, NEW d, d = m.io[j].capacity
               PROVE  \E k \in 1..Len(t.free[d]) : t.free[d][k] = j
    BY <1>2 DEF NoneLost
  <2>1. d \in Class
    <3>1. m.io[j] \in IoBuf
      BY <1>1
    <3> QED  BY <3>1 DEF IoBuf
  <2>2. PICK k \in 1..Len(f[d]) : f[d][k] = j
    BY DEF Kept, NoneLost
  <2>3. CASE d = c
    <3>1. t.free[d] = Tail(f[c])
      BY <1>1, <1>2, <2>3
    <3>2. k # 1
      BY <1>3, <2>2, <2>3
    <3>3. k - 1 \in 1..Len(r) /\ (k - 1) + 1 = k
      BY <1>3a, <2>2, <2>3, <3>2
    <3>4. r[k - 1] = j
      BY <1>3, <2>2, <2>3, <3>3
    <3> QED  BY <3>1, <3>3, <3>4
  <2>4. CASE d # c
    <3>1. t.free[d] = f[d]
      BY <1>1, <1>2, <2>1, <2>4
    <3> QED  BY <2>2, <3>1
  <2> QED  BY <2>3, <2>4
<1> QED  BY <1>2, <1>4, <1>5, <1>6, <1>7, <1>8 DEF Kept

(* A new piece is made at the end of the table. *)
LEMMA MakeNew ==
  ASSUME NEW m \in MemType, NEW used, Kept(m, used),
         NEW c \in Class,
         NEW t, NEW i, MakesNew(m, c, t, i)
  PROVE  /\ t \in MemType /\ Len(t.io) = i /\ t.io[i] = NewIoBuf(c) /\ i \notin used
         /\ \A j \in 1..Len(m.io) : t.io[j] = m.io[j]
         /\ Kept(t, used \cup {i})
         /\ Accounted(m) => Accounted(t)
<1>1. m.io \in Seq(IoBuf) /\ Len(m.io) \in Nat /\ m.free \in [Class -> Seq(Nat)] /\ m.cap \in Nat
  BY DEF MemType
<1>2. /\ t.io = Append(m.io, NewIoBuf(c)) /\ t.free = m.free /\ t.cap = m.cap + c
      /\ i = Len(m.io) + 1 /\ t = [io |-> t.io, free |-> t.free, cap |-> t.cap]
      /\ m.cap + c <= MAX_BUF_POOL_CAP
  BY DEF MemType, MakesNew
<1>3. /\ t.io \in Seq(IoBuf) /\ Len(t.io) = i /\ t.io[i] = NewIoBuf(c)
      /\ \A j \in 1..Len(m.io) : t.io[j] = m.io[j]
  BY <1>1, <1>2, ClassNat
<1>4. t \in MemType
  <2>1. t = [io |-> t.io, free |-> m.free, cap |-> m.cap + c]
    BY <1>2
  <2>2. m.cap + c \in Nat
    BY <1>1, ClassNat
  <2> QED  BY <1>1, <1>3, <2>1, <2>2 DEF MemType
<1>5. i \notin 1..Len(m.io) /\ 1..Len(t.io) = (1..Len(m.io)) \cup {i}
  BY <1>1, <1>2, <1>3
<1>6. i \notin used
  BY <1>5 DEF Kept
<1>7. FreeClean(t, used \cup {i})
  BY <1>2, <1>3, <1>5 DEF Kept, FreeClean
<1>8. FreeOnce(t)
  BY <1>2 DEF Kept, FreeOnce
<1>9. NoneLost(t, used \cup {i})
  BY <1>2, <1>3, <1>5 DEF Kept, NoneLost
<1>10. used \cup {i} \subseteq 1..Len(t.io)
  BY <1>5 DEF Kept
<1>11. ASSUME Accounted(m) PROVE Accounted(t)
  <2>1. Len(t.io) = Len(m.io) + 1 /\ t.io[Len(t.io)].capacity = c
    BY <1>2, <1>3 DEF NewIoBuf
  <2>2. \A j \in 1..Len(m.io) : m.io[j].capacity = t.io[j].capacity
    BY <1>3
  <2>3. Capacity(t.io) = Capacity(m.io) + t.io[Len(t.io)].capacity
    <3>1. PICK io, jo : io = m.io /\ jo = t.io
      OBVIOUS
    <3> QED  BY ONLY <1>1, <2>1, <2>2, <3>1, MoreCapacity
  <2> QED  BY <1>2, <1>11, <2>1, <2>3 DEF Accounted
<1> QED  BY <1>3, <1>4, <1>6, <1>7, <1>8, <1>9, <1>10, <1>11 DEF Kept

(* What a piece holds changes, not its class. *)
LEMMA ChangeUsed ==
  ASSUME NEW m \in MemType, NEW used, Kept(m, used), NEW i \in used,
         NEW x \in IoBuf, x.capacity = m.io[i].capacity,
         NEW t, Changes(m, i, x, t)
  PROVE  /\ t \in MemType /\ Len(t.io) = Len(m.io) /\ i \in 1..Len(m.io)
         /\ t.io[i] = x /\ \A j \in 1..Len(m.io) : j # i => t.io[j] = m.io[j]
         /\ Kept(t, used)
         /\ Accounted(m) => Accounted(t)
<1>1. m.io \in Seq(IoBuf) /\ Len(m.io) \in Nat /\ m.free \in [Class -> Seq(Nat)] /\ m.cap \in Nat
  BY DEF MemType
<1>2. /\ t.io = [m.io EXCEPT ![i] = x] /\ t.free = m.free /\ t.cap = m.cap
      /\ t = [io |-> t.io, free |-> t.free, cap |-> t.cap]
  BY DEF MemType, Changes
<1>3. i \in 1..Len(m.io)
  BY DEF Kept
<1>4. /\ t.io \in Seq(IoBuf) /\ Len(t.io) = Len(m.io)
      /\ t.io[i] = x /\ \A j \in 1..Len(m.io) : j # i => t.io[j] = m.io[j]
  BY <1>1, <1>2, <1>3
<1>5. t \in MemType
  <2>1. t = [io |-> t.io, free |-> m.free, cap |-> m.cap]
    BY <1>2
  <2> QED  BY <1>1, <1>4, <2>1 DEF MemType
<1>6. FreeClean(t, used)
  BY <1>2, <1>4 DEF Kept, FreeClean
<1>7. FreeOnce(t)
  BY <1>2 DEF Kept, FreeOnce
<1>8. \A j \in 1..Len(m.io) : m.io[j].capacity = t.io[j].capacity
  BY <1>4
<1>9. NoneLost(t, used)
  BY <1>2, <1>4, <1>8 DEF Kept, NoneLost
<1>10. ASSUME Accounted(m) PROVE Accounted(t)
  <2>1. Capacity(t.io) = Capacity(m.io)
    <3>1. PICK io, jo : io = m.io /\ jo = t.io
      OBVIOUS
    <3> QED  BY ONLY <1>1, <1>4, <1>8, <3>1, SameCapacity
  <2> QED  BY <1>2, <1>10, <2>1 DEF Accounted
<1> QED  BY <1>3, <1>4, <1>5, <1>6, <1>7, <1>9, <1>10 DEF Kept

LEMMA Consed ==
  ASSUME NEW s \in Seq(Nat), NEW i \in Nat
  PROVE  /\ <<i>> \o s \in Seq(Nat) /\ Len(<<i>> \o s) = Len(s) + 1
         /\ (<<i>> \o s)[1] = i
         /\ \A k \in 1..Len(s) : (<<i>> \o s)[k + 1] = s[k]
<1>1. <<i>> \in Seq(Nat) /\ Len(<<i>>) = 1 /\ <<i>>[1] = i
  OBVIOUS
<1>2. PICK z \in Seq(Nat) : z = <<i>>
  BY <1>1
<1>3. PICK n \in Nat : n = Len(s)
  OBVIOUS
<1>4. Len(z) = 1 /\ z[1] = i
  BY <1>1, <1>2
<1>5. /\ z \o s \in Seq(Nat) /\ Len(z \o s) = n + 1
      /\ \A k \in 1..(n + 1) : (z \o s)[k] = IF k <= 1 THEN z[k] ELSE s[k - 1]
  <2>1. /\ z \o s \in Seq(Nat) /\ Len(z \o s) = Len(z) + Len(s)
        /\ \A k \in 1..(Len(z) + Len(s)) :
             (z \o s)[k] = IF k <= Len(z) THEN z[k] ELSE s[k - Len(z)]
    BY ONLY z \in Seq(Nat), s \in Seq(Nat), ConcatProperties
  <2>2. 1 + n = n + 1
    OBVIOUS
  <2> QED  BY ONLY <1>3, <1>4, <2>1, <2>2
<1>6. \A k \in 1..n : k + 1 \in 1..(n + 1) /\ ~(k + 1 <= 1) /\ (k + 1) - 1 = k
  OBVIOUS
<1>7. 1 \in 1..(n + 1) /\ 1 <= 1
  OBVIOUS
<1> QED  BY ONLY <1>2, <1>3, <1>4, <1>5, <1>6, <1>7

(* A used piece, emptied, goes to the head of its list. *)
LEMMA GiveBack ==
  ASSUME NEW m \in MemType, NEW used, Kept(m, used), NEW i \in used,
         NEW c, c = m.io[i].capacity, m.io[i] = NewIoBuf(c),
         NEW r, NEW t, GivesBack(m, i, r, t)
  PROVE  /\ t \in MemType /\ t.io = m.io /\ t.cap = m.cap
         /\ Kept(t, used \ {i})
<1> DEFINE f == m.free
<1>1. m.io \in Seq(IoBuf) /\ f \in [Class -> Seq(Nat)] /\ m.cap \in Nat
  BY DEF MemType
<1>2. i \in 1..Len(m.io) /\ i \in Nat /\ c \in Class
  <2>1. i \in 1..Len(m.io)
    BY DEF Kept
  <2>2. m.io[i] \in IoBuf /\ i \in Nat
    BY ONLY <1>1, <2>1
  <2>3. m.io[i].capacity \in Class
    BY ONLY <2>2 DEF IoBuf
  <2> QED  BY <2>1, <2>2, <2>3
<1>3. /\ t.io = m.io /\ t.cap = m.cap /\ t.free = [f EXCEPT ![c] = r]
      /\ t = [io |-> t.io, free |-> t.free, cap |-> t.cap]
  BY DEF MemType, GivesBack
<1>3a. t.io = m.io
  BY <1>3
<1>4. PICK n \in Nat : n = Len(f[c])
  BY ONLY <1>1, <1>2
<1>5. r \in Seq(Nat) /\ Len(r) = n + 1 /\ r[1] = i
      /\ \A k \in 1..Len(f[c]) : r[k + 1] = f[c][k]
  <2>1. PICK s \in Seq(Nat) : s = f[c]
    BY ONLY <1>1, <1>2
  <2>2. r = <<i>> \o s
    BY <2>1 DEF GivesBack
  <2> QED  BY ONLY <1>2, <1>4, <2>1, <2>2, Consed
<1>6. ASSUME NEW k \in 1..Len(r)
      PROVE  k = 1 \/ (k - 1 \in 1..Len(f[c]) /\ r[k] = f[c][k - 1])
  <2>1. k \in 1..(n + 1) /\ (k # 1 => k - 1 \in 1..n /\ (k - 1) + 1 = k)
    BY ONLY <1>5, n \in Nat, k \in 1..Len(r)
  <2> QED  BY ONLY <1>4, <1>5, <2>1
<1>7. t \in MemType
  <2>1. t = [io |-> m.io, free |-> t.free, cap |-> m.cap]
    BY <1>3
  <2> QED  BY <1>1, <1>3, <1>5, <2>1 DEF MemType
<1>8. t.free[c] = r /\ \A d \in Class : d # c => t.free[d] = f[d]
  BY <1>1, <1>2, <1>3
<1>9. FreeClean(t, used \ {i})
  <2>1. ASSUME NEW d \in Class, NEW k \in 1..Len(t.free[d])
        PROVE  /\ t.free[d][k] \in 1..Len(m.io) /\ t.free[d][k] \notin used \ {i}
               /\ m.io[t.free[d][k]] = NewIoBuf(d)
    <3>1. CASE d # c
      BY <1>8, <3>1 DEF Kept, FreeClean
    <3>2. CASE d = c /\ k = 1
      BY <1>2, <1>5, <1>8, <3>2
    <3>3. CASE d = c /\ k # 1
      <4>1. k - 1 \in 1..Len(f[c]) /\ t.free[d][k] = f[c][k - 1]
        BY <1>6, <1>8, <3>3
      <4> QED  BY <1>2, <3>3, <4>1 DEF Kept, FreeClean
    <3> QED  BY <3>1, <3>2, <3>3
  <2> QED  BY ONLY <1>3a, <2>1 DEF FreeClean
<1>10. FreeOnce(t)
  <2> SUFFICES ASSUME NEW d \in Class, NEW j \in 1..Len(t.free[d]), NEW k \in 1..Len(t.free[d]),
                      t.free[d][j] = t.free[d][k]
               PROVE  j = k
    BY DEF FreeOnce
  <2>1. CASE d # c
    BY <1>8, <2>1 DEF Kept, FreeOnce
  <2>2. CASE d = c
    <3>1. j \in 1..Len(r) /\ k \in 1..Len(r) /\ r[j] = r[k] /\ j \in Int /\ k \in Int
      BY ONLY <1>8, <2>2, j \in 1..Len(t.free[d]), k \in 1..Len(t.free[d]), t.free[d][j] = t.free[d][k]
    <3>2. \A l \in 1..Len(f[c]) : f[c][l] # i
      BY <1>2 DEF Kept, FreeClean
    <3>3. CASE j = 1 \/ k = 1
      <4>1. /\ j # 1 => r[j] # i
            /\ k # 1 => r[k] # i
        BY ONLY <1>6, <3>1, <3>2
      <4> QED  BY ONLY <1>5, <3>1, <3>3, <4>1
    <3>4. CASE j # 1 /\ k # 1
      <4>1. /\ j - 1 \in 1..Len(f[c]) /\ k - 1 \in 1..Len(f[c])
            /\ f[c][j - 1] = f[c][k - 1]
        BY <1>6, <3>1, <3>4
      <4>2. j - 1 = k - 1
        BY <1>2, <4>1 DEF Kept, FreeOnce
      <4> QED  BY ONLY <3>1, <4>2
    <3> QED  BY <3>3, <3>4
  <2> QED  BY <2>1, <2>2
<1>11. NoneLost(t, used \ {i})
  <2>1. ASSUME NEW j \in 1..Len(m.io), j \notin used \ {i}, NEW d, d = m.io[j].capacity
        PROVE  \E k \in 1..Len(t.free[d]) : t.free[d][k] = j
    <3>1. d \in Class
      <4>1. m.io[j] \in IoBuf
        BY ONLY <1>1, j \in 1..Len(m.io)
      <4> QED  BY ONLY <4>1, d = m.io[j].capacity DEF IoBuf
    <3>2. CASE j = i
      <4>1. 1 \in 1..Len(r)
        BY ONLY <1>5, n \in Nat
      <4>2. d = c
        BY ONLY <3>2, c = m.io[i].capacity, d = m.io[j].capacity
      <4> QED  BY ONLY <1>5, <1>8, <3>2, <4>1, <4>2
    <3>3. CASE j # i
      <4>1. PICK k \in 1..Len(f[d]) : f[d][k] = j
        BY ONLY Kept(m, used), j \in 1..Len(m.io), j \notin used \ {i},
                d = m.io[j].capacity, <3>3 DEF Kept, NoneLost
      <4>2. CASE d = c
        <5>1. k + 1 \in 1..Len(r)
          BY ONLY n \in Nat, <1>4, <1>5, <4>1, <4>2
        <5> QED  BY ONLY <1>5, <1>8, <4>1, <4>2, <5>1
      <4>3. CASE d # c
        BY <1>8, <3>1, <4>1, <4>3
      <4> QED  BY <4>2, <4>3
    <3> QED  BY <3>2, <3>3
  <2> QED  BY ONLY <1>3a, <2>1 DEF NoneLost
<1> QED  BY <1>3, <1>7, <1>9, <1>10, <1>11 DEF Kept

-----------------------------------------------------------------------------
(* The operations on the pool *)
TypeOK ==
  /\ mem \in MemType
  /\ buf \in [Buf -> Nat \cup {Null}] /\ new_buf \in [Buf -> Nat \cup {Null}]
  /\ put \in [Buf -> Nat] /\ came \in [Buf -> Nat] /\ gone \in [Buf -> Nat]
  /\ parsing \subseteq Buf /\ beyond \subseteq Buf /\ crashed \in BOOLEAN

(* A piece that alloc_buf hands out was not used, and is clean. *)
LEMMA AllocGives ==
  ASSUME TypeOK, NEW used, Kept(mem, used), NEW len \in Nat, Alloc(len).got # Null
  PROVE  LET a == Alloc(len)
         IN  /\ a.mem \in MemType /\ a.got \in 1..Len(a.mem.io) /\ a.got \notin used
             /\ a.mem.io[a.got] = NewIoBuf(GetMemLen(len))
             /\ \A j \in 1..Len(mem.io) : j \in 1..Len(a.mem.io) /\ a.mem.io[j] = mem.io[j]
             /\ Kept(a.mem, used \cup {a.got})
             /\ Accounted(mem) => Accounted(a.mem)
<1>0. PICK a : a = Alloc(len) /\ a.got # Null
  OBVIOUS
<1> SUFFICES /\ a.mem \in MemType /\ a.got \in 1..Len(a.mem.io) /\ a.got \notin used
             /\ a.mem.io[a.got] = NewIoBuf(GetMemLen(len))
             /\ \A j \in 1..Len(mem.io) : j \in 1..Len(a.mem.io) /\ a.mem.io[j] = mem.io[j]
             /\ Kept(a.mem, used \cup {a.got})
             /\ Accounted(mem) => Accounted(a.mem)
  BY <1>0
<1> DEFINE c == GetMemLen(len)
<1>1. c \in Class /\ mem \in MemType
  BY ClassFits DEF TypeOK
<1> HIDE DEF c
<1>2. CASE mem.free[c] # <<>>
  <2>1. a.got = Head(mem.free[c]) /\ a.mem = [mem EXCEPT !.free[c] = Tail(@)]
    BY <1>0, <1>2 DEF Alloc, c
  <2>2. /\ a.mem \in MemType /\ a.mem.io = mem.io /\ a.mem.cap = mem.cap
        /\ a.got \in 1..Len(mem.io) /\ a.got \notin used /\ mem.io[a.got] = NewIoBuf(c)
        /\ Kept(a.mem, used \cup {a.got})
    <3>1. TakesFree(mem, c, a.mem, a.got)
      BY <2>1 DEF TakesFree
    <3> QED  BY ONLY <1>1, <1>2, <3>1, Kept(mem, used), TakeFree
  <2> QED  BY ONLY <2>2 DEF Accounted, c
<1>3. CASE mem.free[c] = <<>>
  <2>1. /\ mem.cap + c <= MAX_BUF_POOL_CAP /\ a.got = Len(mem.io) + 1
        /\ a.mem = [mem EXCEPT !.io = Append(@, NewIoBuf(c)), !.cap = @ + c]
    <3>1. ~ (mem.cap + c > MAX_BUF_POOL_CAP)
      BY <1>0, <1>3 DEF Alloc, c
    <3>2. /\ a.got = Len(mem.io) + 1
          /\ a.mem = [mem EXCEPT !.io = Append(@, NewIoBuf(c)), !.cap = @ + c]
      BY <1>0, <1>3, <3>1 DEF Alloc, c
    <3>3. mem.cap \in Nat /\ c \in Nat /\ MAX_BUF_POOL_CAP \in Nat
      BY <1>1, ClassNat, PoolAssumption DEF MemType
    <3> QED  BY ONLY <3>1, <3>2, <3>3
  <2>2. /\ a.mem \in MemType /\ Len(a.mem.io) = a.got /\ a.mem.io[a.got] = NewIoBuf(c)
        /\ a.got \notin used /\ \A j \in 1..Len(mem.io) : a.mem.io[j] = mem.io[j]
        /\ Kept(a.mem, used \cup {a.got})
        /\ Accounted(mem) => Accounted(a.mem)
    <3>1. MakesNew(mem, c, a.mem, a.got)
      BY <2>1 DEF MakesNew
    <3>2. PICK t, i : t = a.mem /\ i = a.got
      OBVIOUS
    <3>3. MakesNew(mem, c, t, i) /\ mem \in MemType /\ c \in Class
      BY ONLY <1>1, <3>1, <3>2
    <3>4. /\ t \in MemType /\ Len(t.io) = i /\ t.io[i] = NewIoBuf(c) /\ i \notin used
          /\ \A j \in 1..Len(mem.io) : t.io[j] = mem.io[j]
          /\ Kept(t, used \cup {i})
          /\ Accounted(mem) => Accounted(t)
      BY ONLY <3>3, Kept(mem, used), MakeNew
    <3> QED  BY ONLY <3>2, <3>4
  <2>3. Len(mem.io) \in Nat
    BY ONLY <1>1 DEF MemType
  <2>4. /\ a.got \in 1..Len(a.mem.io)
        /\ \A j \in 1..Len(mem.io) : j \in 1..Len(a.mem.io)
    BY ONLY <2>1, <2>2, <2>3
  <2> QED  BY ONLY <2>2, <2>4 DEF c
<1> QED  BY <1>2, <1>3

LEMMA PieceIs ==
  ASSUME NEW m \in MemType, NEW i \in 1..Len(m.io)
  PROVE  /\ m.io[i] \in IoBuf /\ m.io[i].capacity \in Class /\ m.io[i].capacity \in Nat
         /\ m.io[i].data \in Seq(Nat) /\ m.io[i].head \in Nat
<1>1. m.io[i] \in IoBuf
  BY DEF MemType
<1> QED  BY <1>1, ClassNat DEF IoBuf

(* A piece that is released is clean, and no longer used. *)
LEMMA ReleasedGives ==
  ASSUME TypeOK, NEW used, Kept(mem, used), NEW i \in used
  PROVE  LET t == Released(i)
         IN  /\ t \in MemType /\ Len(t.io) = Len(mem.io) /\ i \in 1..Len(mem.io)
             /\ \A j \in 1..Len(mem.io) : j # i => t.io[j] = mem.io[j]
             /\ Kept(t, used \ {i})
             /\ Accounted(mem) => Accounted(t)
<1>0. PICK t : t = Released(i)
  OBVIOUS
<1> DEFINE c == mem.io[i].capacity
           m == [mem EXCEPT !.io[i] = NewIoBuf(c)]
           r == <<i>> \o m.free[c]
<1>1. mem \in MemType /\ i \in 1..Len(mem.io)
  BY DEF TypeOK, Kept
<1>2. c \in Class /\ NewIoBuf(c) \in IoBuf /\ NewIoBuf(c).capacity = c
  BY <1>1, PieceIs, ClassNat DEF NewIoBuf
<1>3. /\ m \in MemType /\ Len(m.io) = Len(mem.io)
      /\ m.io[i] = NewIoBuf(c) /\ \A j \in 1..Len(mem.io) : j # i => m.io[j] = mem.io[j]
      /\ Kept(m, used)
      /\ Accounted(mem) => Accounted(m)
  <2>1. Changes(mem, i, NewIoBuf(c), m)
    BY <1>1 DEF Changes, MemType
  <2> HIDE DEF m
  <2> QED  BY ONLY <1>1, <1>2, <2>1, Kept(mem, used), i \in used, ChangeUsed
<1>4. m.free = mem.free /\ m.cap = mem.cap
  BY <1>1 DEF MemType
<1>5. c = m.io[i].capacity
  BY <1>2, <1>3
<1>6. /\ t.io = m.io /\ t.free = [m.free EXCEPT ![c] = r] /\ t.cap = m.cap
      /\ t = [io |-> t.io, free |-> t.free, cap |-> t.cap]
  BY <1>0, <1>1, <1>4 DEF Released, MemType
<1> HIDE DEF m
<1>7. GivesBack(m, i, r, t)
  <2>1. t = [io |-> m.io, free |-> [m.free EXCEPT ![c] = r], cap |-> m.cap] /\ r = <<i>> \o m.free[c]
    BY <1>6
  <2> QED  BY <1>5, <2>1 DEF GivesBack
<1> HIDE DEF c, r
<1>8. t \in MemType /\ t.io = m.io /\ t.cap = m.cap /\ Kept(t, used \ {i})
  BY ONLY <1>3, <1>5, <1>7, i \in used, GiveBack
<1> QED  BY ONLY <1>0, <1>1, <1>3, <1>8 DEF Accounted

-----------------------------------------------------------------------------
(* Bytes *)

(* The bytes from g to c. *)
Span(g, c) == [k \in 1..(c - g) |-> g + k]

LEMMA SpanIs ==
  ASSUME NEW g \in Nat, NEW c \in Nat, g <= c
  PROVE  Span(g, c) \in Seq(Nat) /\ Len(Span(g, c)) = c - g
<1>1. PICK l \in Nat : l = c - g
  OBVIOUS
<1>2. Span(g, c) = [k \in 1..l |-> g + k]
  BY <1>1 DEF Span
<1>3. \A k \in 1..l : g + k \in Nat
  OBVIOUS
<1>4. [k \in 1..l |-> g + k] \in Seq(Nat) /\ Len([k \in 1..l |-> g + k]) = l
  BY ONLY l \in Nat, <1>3
<1> QED  BY <1>1, <1>2, <1>4

LEMMA SpanGrows ==
  ASSUME NEW g \in Nat, NEW c \in Nat, g <= c, NEW n \in Nat
  PROVE  Span(g, c) \o [k \in 1..n |-> c + k] = Span(g, c + n)
<1>1. PICK l \in Nat : l = c - g
  OBVIOUS
<1>2. PICK s \in Seq(Nat) : s = Span(g, c) /\ Len(s) = l
  BY <1>1, SpanIs
<1>3. PICK r \in Seq(Nat) : r = [k \in 1..n |-> c + k] /\ Len(r) = n
  <2>1. \A k \in 1..n : c + k \in Nat
    OBVIOUS
  <2>2. [k \in 1..n |-> c + k] \in Seq(Nat) /\ Len([k \in 1..n |-> c + k]) = n
    BY ONLY n \in Nat, <2>1
  <2> QED  BY <2>2
<1>4. /\ s \o r \in Seq(Nat) /\ Len(s \o r) = l + n
      /\ \A k \in 1..(l + n) : (s \o r)[k] = IF k <= l THEN s[k] ELSE r[k - l]
  <2>1. /\ s \o r \in Seq(Nat) /\ Len(s \o r) = Len(s) + Len(r)
        /\ \A k \in 1..(Len(s) + Len(r)) :
             (s \o r)[k] = IF k <= Len(s) THEN s[k] ELSE r[k - Len(s)]
    BY ONLY s \in Seq(Nat), r \in Seq(Nat), ConcatProperties
  <2> QED  BY ONLY <1>2, <1>3, <2>1
<1>5. PICK z \in Seq(Nat) : z = Span(g, c + n) /\ Len(z) = l + n
  <2>1. c + n \in Nat /\ g <= c + n /\ (c + n) - g = l + n
    BY <1>1
  <2> QED  BY <2>1, SpanIs
<1>6. ASSUME NEW k \in 1..(l + n)
      PROVE  (s \o r)[k] = z[k]
  <2>1. z[k] = g + k
    <3>1. k \in 1..((c + n) - g)
      BY <1>1
    <3> QED  BY <1>5, <3>1 DEF Span
  <2>2. CASE k <= l
    <3>1. k \in 1..(c - g)
      BY <1>1, <2>2
    <3>2. s[k] = g + k
      BY <1>2, <3>1 DEF Span
    <3> QED  BY <1>4, <2>1, <2>2, <3>2
  <2>3. CASE ~(k <= l)
    <3>1. k - l \in 1..n /\ c + (k - l) = g + k
      BY <1>1, <2>3
    <3>2. r[k - l] = c + (k - l)
      BY <1>3, <3>1
    <3> QED  BY <1>4, <2>1, <2>3, <3>1, <3>2
  <2> QED  BY <2>2, <2>3
<1>7. s \o r = z
  BY ONLY <1>4, <1>5, <1>6, SeqEqual
<1> QED  BY <1>2, <1>3, <1>5, <1>7

LEMMA SpanShrinks ==
  ASSUME NEW g \in Nat, NEW c \in Nat, g <= c, NEW n \in Nat, n <= c - g
  PROVE  SubSeq(Span(g, c), n + 1, Len(Span(g, c))) = Span(g + n, c)
<1>1. PICK l \in Nat : l = c - g
  OBVIOUS
<1>2. PICK s \in Seq(Nat) : s = Span(g, c) /\ Len(s) = l
  BY <1>1, SpanIs
<1>3. PICK r : r = SubSeq(s, n + 1, l)
  OBVIOUS
<1>4. /\ r \in Seq(Nat) /\ Len(r) = l - n
      /\ \A k \in 1..(l - n) : r[k] = s[k + n]
  BY <1>1, <1>2, <1>3
<1>5. PICK z \in Seq(Nat) : z = Span(g + n, c) /\ Len(z) = l - n
  <2>1. g + n \in Nat /\ g + n <= c /\ c - (g + n) = l - n
    BY <1>1
  <2> QED  BY <2>1, SpanIs
<1>6. ASSUME NEW k \in 1..(l - n)
      PROVE  r[k] = z[k]
  <2>1. k \in 1..(c - (g + n)) /\ k + n \in 1..(c - g) /\ g + (k + n) = (g + n) + k
    BY <1>1
  <2>2. s[k + n] = g + (k + n)
    BY <1>2, <2>1 DEF Span
  <2>3. z[k] = (g + n) + k
    BY <1>5, <2>1 DEF Span
  <2> QED  BY <1>4, <2>1, <2>2, <2>3
<1>7. r = z
  BY ONLY <1>4, <1>5, <1>6, SeqEqual
<1> QED  BY <1>2, <1>3, <1>5, <1>7

-----------------------------------------------------------------------------
(* What is done to the piece of a buffer *)

(* The n bytes that come after the first c. *)
Following(c, n) == [k \in 1..n |-> c + k]

(* Only what piece i holds differs between m and t. *)
SameBut(m, t, i) ==
  /\ t \in MemType /\ Len(t.io) = Len(m.io) /\ t.io[i].capacity = m.io[i].capacity
  /\ \A j \in 1..Len(m.io) : j # i => t.io[j] = m.io[j]

LEMMA PieceChanges ==
  ASSUME NEW m \in MemType, NEW used, Kept(m, used), NEW i \in used,
         NEW d \in Seq(Nat), NEW h \in Nat, NEW t,
         Changes(m, i, [capacity |-> m.io[i].capacity, data |-> d, head |-> h], t)
  PROVE  /\ i \in 1..Len(m.io) /\ SameBut(m, t, i) /\ Kept(t, used)
         /\ Accounted(m) => Accounted(t)
         /\ t.io[i].data = d /\ t.io[i].head = h
<1>1. i \in 1..Len(m.io)
  BY DEF Kept
<1>2. PICK x \in IoBuf : x = [capacity |-> m.io[i].capacity, data |-> d, head |-> h]
  <2>1. m.io[i].capacity \in Class
    BY ONLY m \in MemType, <1>1, PieceIs
  <2> QED  BY <2>1 DEF IoBuf
<1>3. Changes(m, i, x, t) /\ x.capacity = m.io[i].capacity /\ x.data = d /\ x.head = h
  BY <1>2
<1>4. /\ t \in MemType /\ Len(t.io) = Len(m.io)
      /\ t.io[i] = x /\ \A j \in 1..Len(m.io) : j # i => t.io[j] = m.io[j]
      /\ Kept(t, used)
      /\ Accounted(m) => Accounted(t)
  BY ONLY m \in MemType, Kept(m, used), i \in used, x \in IoBuf, <1>3, ChangeUsed
<1> QED  BY <1>1, <1>3, <1>4 DEF SameBut

(* n more bytes follow. *)
LEMMA ExtendGives ==
  ASSUME TypeOK, NEW m \in MemType, NEW used, Kept(m, used), NEW i \in used,
         NEW b \in Buf, NEW n \in Nat
  PROVE  LET t == Extended(m, i, b, n)
         IN  /\ i \in 1..Len(m.io) /\ SameBut(m, t, i) /\ Kept(t, used)
             /\ Accounted(m) => Accounted(t)
             /\ t.io[i].data = m.io[i].data \o Following(came[b], n)
             /\ t.io[i].head = m.io[i].head
<1> DEFINE d == m.io[i].data \o Following(came[b], n)
           t == Extended(m, i, b, n)
<1>1. i \in 1..Len(m.io)
  BY DEF Kept
<1>2. /\ m.io[i] \in IoBuf /\ m.io[i].data \in Seq(Nat) /\ m.io[i].head \in Nat
  BY <1>1, PieceIs
<1>3. d \in Seq(Nat)
  <2>1. came[b] \in Nat
    BY DEF TypeOK
  <2>2. \A k \in 1..n : came[b] + k \in Nat
    BY <2>1
  <2>3. Following(came[b], n) \in Seq(Nat)
    BY ONLY n \in Nat, <2>2 DEF Following
  <2> QED  BY ONLY <1>2, <2>3, ConcatProperties
<1>4. Changes(m, i, [capacity |-> m.io[i].capacity, data |-> d, head |-> m.io[i].head], t)
  <2>1. t = [m EXCEPT !.io[i].data = d]
    BY DEF Extended, Following
  <2> HIDE DEF d
  <2>2. [m.io[i] EXCEPT !.data = d] = [capacity |-> m.io[i].capacity, data |-> d, head |-> m.io[i].head]
    BY ONLY <1>2 DEF IoBuf
  <2>3. t = [io |-> [m.io EXCEPT ![i] = [m.io[i] EXCEPT !.data = d]], free |-> m.free, cap |-> m.cap]
    BY ONLY <1>1, <2>1, m \in MemType DEF MemType
  <2> QED  BY ONLY <2>2, <2>3 DEF Changes
<1> HIDE DEF d, t
<1>5. /\ i \in 1..Len(m.io) /\ SameBut(m, t, i) /\ Kept(t, used)
      /\ Accounted(m) => Accounted(t)
      /\ t.io[i].data = d /\ t.io[i].head = m.io[i].head
  BY ONLY m \in MemType, Kept(m, used), i \in used, <1>2, <1>3, <1>4, PieceChanges
<1> QED  BY ONLY <1>5 DEF d, t

(* The piece is told to hold d, as copy() does. *)
Copied(m, i, d) == [m EXCEPT !.io[i].data = d]

LEMMA CopyGives ==
  ASSUME NEW m \in MemType, NEW used, Kept(m, used), NEW i \in used, NEW d \in Seq(Nat)
  PROVE  LET t == Copied(m, i, d)
         IN  /\ i \in 1..Len(m.io) /\ SameBut(m, t, i) /\ Kept(t, used)
             /\ Accounted(m) => Accounted(t)
             /\ t.io[i].data = d /\ t.io[i].head = m.io[i].head
<1> DEFINE t == Copied(m, i, d)
<1>1. i \in 1..Len(m.io)
  BY DEF Kept
<1>2. m.io[i] \in IoBuf /\ m.io[i].head \in Nat
  BY <1>1, PieceIs
<1>3. Changes(m, i, [capacity |-> m.io[i].capacity, data |-> d, head |-> m.io[i].head], t)
  <2>1. [m.io[i] EXCEPT !.data = d] = [capacity |-> m.io[i].capacity, data |-> d, head |-> m.io[i].head]
    BY <1>2 DEF IoBuf
  <2>2. t = [m EXCEPT !.io[i].data = d]
    BY DEF Copied
  <2> HIDE DEF t
  <2>3. t = [io |-> [m.io EXCEPT ![i] = [m.io[i] EXCEPT !.data = d]], free |-> m.free, cap |-> m.cap]
    BY ONLY <1>1, <2>2, m \in MemType DEF MemType
  <2> QED  BY ONLY <2>1, <2>3 DEF Changes
<1> HIDE DEF t
<1>4. /\ i \in 1..Len(m.io) /\ SameBut(m, t, i) /\ Kept(t, used)
      /\ Accounted(m) => Accounted(t)
      /\ t.io[i].data = d /\ t.io[i].head = m.io[i].head
  BY ONLY m \in MemType, Kept(m, used), i \in used, d \in Seq(Nat), <1>2, <1>3, PieceChanges
<1> QED  BY ONLY <1>4 DEF t

(* The first n bytes are taken. *)
LEMMA PopGives ==
  ASSUME NEW m \in MemType, NEW used, Kept(m, used), NEW i \in used,
         NEW n \in Nat, n <= Len(m.io[i].data)
  PROVE  LET t == Popped(m, i, n)
         IN  /\ i \in 1..Len(m.io) /\ SameBut(m, t, i) /\ Kept(t, used)
             /\ Accounted(m) => Accounted(t)
             /\ t.io[i].data = SubSeq(m.io[i].data, n + 1, Len(m.io[i].data))
<1> DEFINE d == SubSeq(m.io[i].data, n + 1, Len(m.io[i].data))
           h == m.io[i].head + n
           t == Popped(m, i, n)
<1>1. i \in 1..Len(m.io)
  BY DEF Kept
<1>2. /\ m.io[i] \in IoBuf /\ m.io[i].data \in Seq(Nat) /\ m.io[i].head \in Nat
  BY <1>1, PieceIs
<1>3. d \in Seq(Nat) /\ h \in Nat
  BY <1>2
<1>4. Changes(m, i, [capacity |-> m.io[i].capacity, data |-> d, head |-> h], t)
  <2> DEFINE x == [capacity |-> m.io[i].capacity, data |-> d, head |-> h]
  <2>1. t = [m EXCEPT !.io[i] = x]
    BY DEF Popped
  <2> HIDE DEF x
  <2>2. t = [io |-> [m.io EXCEPT ![i] = x], free |-> m.free, cap |-> m.cap]
    BY ONLY <1>1, <2>1, m \in MemType DEF MemType
  <2>3. Changes(m, i, x, t)
    BY ONLY <2>2 DEF Changes
  <2> QED  BY ONLY <2>3 DEF x
<1> HIDE DEF d, h, t
<1>5. /\ i \in 1..Len(m.io) /\ SameBut(m, t, i) /\ Kept(t, used)
      /\ Accounted(m) => Accounted(t)
      /\ t.io[i].data = d
  BY ONLY m \in MemType, Kept(m, used), i \in used, <1>3, <1>4, PieceChanges
<1> QED  BY ONLY <1>5 DEF d, t

(* The data move to the head of the piece. *)
LEMMA AdjustGives ==
  ASSUME NEW m \in MemType, NEW used, Kept(m, used), NEW i \in used
  PROVE  LET t == Adjusted(m, i)
         IN  /\ i \in 1..Len(m.io) /\ SameBut(m, t, i) /\ Kept(t, used)
             /\ Accounted(m) => Accounted(t)
             /\ t.io[i].data = m.io[i].data /\ t.io[i].head = 0
<1> DEFINE t == Adjusted(m, i)
<1>1. i \in 1..Len(m.io)
  BY DEF Kept
<1>2. m.io[i] \in IoBuf /\ m.io[i].data \in Seq(Nat)
  BY <1>1, PieceIs
<1>3. Changes(m, i, [capacity |-> m.io[i].capacity, data |-> m.io[i].data, head |-> 0], t)
  <2>1. [m.io[i] EXCEPT !.head = 0] = [capacity |-> m.io[i].capacity, data |-> m.io[i].data, head |-> 0]
    BY <1>2 DEF IoBuf
  <2>2. t = [m EXCEPT !.io[i].head = 0]
    BY DEF Adjusted
  <2> HIDE DEF t
  <2>3. t = [io |-> [m.io EXCEPT ![i] = [m.io[i] EXCEPT !.head = 0]], free |-> m.free, cap |-> m.cap]
    BY ONLY <1>1, <2>2, m \in MemType DEF MemType
  <2> QED  BY ONLY <2>1, <2>3 DEF Changes
<1> HIDE DEF t
<1>4. /\ i \in 1..Len(m.io) /\ SameBut(m, t, i) /\ Kept(t, used)
      /\ Accounted(m) => Accounted(t)
      /\ t.io[i].data = m.io[i].data /\ t.io[i].head = 0
  BY ONLY m \in MemType, Kept(m, used), i \in used, <1>2, <1>3, 0 \in Nat, PieceChanges
<1> QED  BY ONLY <1>4 DEF t

-----------------------------------------------------------------------------
(* The invariant *)

(* The pieces that are in a buffer, or on their way to one: each is so in  *)
(* one place only.                                                         *)
Used == {i \in Nat : \E b \in Buf : buf[b] = i \/ new_buf[b] = i}
Owners ==
  \A b \in Buf, d \in Buf :
    /\ (buf[b] # Null /\ buf[b] = buf[d]) => b = d
    /\ (new_buf[b] # Null /\ new_buf[b] = new_buf[d]) => b = d
    /\ buf[b] # Null => buf[b] # new_buf[d]

(* Piece i of m holds the bytes between gone and came, and has room for n. *)
HasBytes(m, i, g, c, n) == /\ g <= c /\ (c - g) + n <= m.io[i].capacity
                           /\ m.io[i].data = Span(g, c)
Whole(b) == b \notin beyond /\ ~crashed
Contents(b) ==
  /\ buf[b] = Null => gone[b] = came[b] /\ b \notin parsing /\ new_buf[b] = Null
  /\ (buf[b] # Null /\ b \notin parsing) => mem.io[buf[b]].head = 0
  /\ (buf[b] # Null /\ Whole(b)) => HasBytes(mem, buf[b], gone[b], came[b], 0)
  /\ new_buf[b] # Null => b \notin parsing /\ mem.io[new_buf[b]].head = 0
  /\ (new_buf[b] # Null /\ Whole(b)) => HasBytes(mem, new_buf[b], gone[b], came[b], put[b])

IInv == /\ TypeOK /\ Kept(mem, Used) /\ Owners /\ Accounted(mem)
        /\ \A b \in Buf : Contents(b)

(* What the invariant says of one buffer. *)
LEMMA BufferIs ==
  ASSUME IInv, NEW b \in Buf
  PROVE  /\ Contents(b) /\ mem \in MemType
         /\ put[b] \in Nat /\ came[b] \in Nat /\ gone[b] \in Nat
         /\ buf[b] # Null => buf[b] \in Used /\ buf[b] \in 1..Len(mem.io)
         /\ new_buf[b] # Null => /\ new_buf[b] \in Used /\ new_buf[b] \in 1..Len(mem.io)
                                 /\ new_buf[b] # buf[b] /\ buf[b] # Null
<1>1. Contents(b) /\ mem \in MemType /\ put[b] \in Nat /\ came[b] \in Nat /\ gone[b] \in Nat
  BY DEF IInv, TypeOK
<1>2. buf[b] # Null => buf[b] \in Used
  BY DEF IInv, TypeOK, Used
<1>3. new_buf[b] # Null => new_buf[b] \in Used /\ buf[b] # Null
  BY <1>1 DEF IInv, TypeOK, Used, Contents
<1>4. Used \subseteq 1..Len(mem.io)
  BY DEF IInv, Kept
<1>5. new_buf[b] # Null => new_buf[b] # buf[b]
  BY <1>3 DEF IInv, Owners
<1> QED  BY <1>1, <1>2, <1>3, <1>4, <1>5

(* What a step says of a buffer whose state and pieces it leaves alone. *)
LEMMA Untouched ==
  ASSUME IInv, ~crashed, NEW d \in Buf,
         buf'[d] = buf[d], new_buf'[d] = new_buf[d], put'[d] = put[d],
         came'[d] = came[d], gone'[d] = gone[d],
         d \in parsing' <=> d \in parsing, d \in beyond' <=> d \in beyond,
         \A i \in 1..Len(mem.io) : (i = buf[d] \/ i = new_buf[d]) => mem'.io[i] = mem.io[i]
  PROVE  Contents(d)'
<1>1. Contents(d)
  BY DEF IInv
<1>2. /\ buf[d] # Null => mem'.io[buf[d]] = mem.io[buf[d]]
      /\ new_buf[d] # Null => mem'.io[new_buf[d]] = mem.io[new_buf[d]]
  BY BufferIs
<1>3. Whole(d)' => Whole(d)
  BY DEF Whole
<1> QED  BY <1>1, <1>2, <1>3 DEF Contents, HasBytes

(* The pieces of the other buffers are other pieces. *)
LEMMA Apart ==
  ASSUME IInv, NEW b \in Buf, NEW d \in Buf, b # d
  PROVE  /\ buf[b] # Null => buf[d] # buf[b] /\ new_buf[d] # buf[b]
         /\ new_buf[b] # Null => buf[d] # new_buf[b] /\ new_buf[d] # new_buf[b]
<1>1. Owners
  BY DEF IInv
<1>2. buf[b] # Null => buf[d] # buf[b] /\ new_buf[d] # buf[b]
  BY <1>1 DEF Owners
<1>3. new_buf[b] # Null => buf[d] # new_buf[b] /\ new_buf[d] # new_buf[b]
  BY <1>1 DEF Owners
<1> QED  BY <1>2, <1>3

LEMMA AdjustKeeps ==
  ASSUME IInv, NEW b \in Buf, Adjust(b)
  PROVE  IInv'
<1> DEFINE i == buf[b]
<1>1. /\ ~crashed /\ b \in parsing /\ mem' = Adjusted(mem, i) /\ parsing' = parsing \ {b}
      /\ UNCHANGED <<buf, new_buf, put, came, gone, beyond, crashed>>
  BY DEF Adjust
<1>2. TypeOK /\ mem \in MemType /\ Kept(mem, Used) /\ Accounted(mem) /\ Contents(b)
  BY DEF IInv, TypeOK
<1>3. i # Null /\ new_buf[b] = Null
  BY <1>1, <1>2 DEF Contents
<1>4. i \in Used /\ i \in 1..Len(mem.io)
  BY <1>3, BufferIs
<1>5. /\ SameBut(mem, mem', i) /\ Kept(mem', Used) /\ Accounted(mem')
      /\ mem'.io[i].data = mem.io[i].data /\ mem'.io[i].head = 0
  <2> HIDE DEF i
  <2> QED  BY ONLY <1>1, <1>2, <1>4, AdjustGives
<1>6. TypeOK'
  BY <1>1, <1>2, <1>5 DEF TypeOK, SameBut
<1>7. Used' = Used /\ Owners'
  BY <1>1 DEF IInv, Used, Owners
<1>8. Contents(b)'
  <2>1. Whole(b)' => Whole(b)
    BY <1>1 DEF Whole
  <2>2. Whole(b)' => HasBytes(mem, i, gone[b], came[b], 0)'
    BY <1>1, <1>2, <1>3, <1>5, <2>1 DEF Contents, HasBytes, SameBut
  <2> QED  BY <1>1, <1>3, <1>5, <2>2 DEF Contents
<1>9. ASSUME NEW d \in Buf, d # b PROVE Contents(d)'
  <2>1. buf[d] # i /\ new_buf[d] # i
    BY <1>3, <1>9, Apart
  <2>2. \A j \in 1..Len(mem.io) : (j = buf[d] \/ j = new_buf[d]) => mem'.io[j] = mem.io[j]
    BY <1>5, <2>1 DEF SameBut
  <2> QED  BY <1>1, <1>9, <2>2, Untouched
<1> QED  BY <1>5, <1>6, <1>7, <1>8, <1>9 DEF IInv

(* Bytes that are taken, and bytes that are added. *)
LEMMA LessBytes ==
  ASSUME NEW m \in MemType, NEW t, NEW i \in 1..Len(m.io), SameBut(m, t, i),
         NEW g \in Nat, NEW c \in Nat, HasBytes(m, i, g, c, 0),
         NEW n \in Nat, n <= Len(m.io[i].data),
         t.io[i].data = SubSeq(m.io[i].data, n + 1, Len(m.io[i].data))
  PROVE  HasBytes(t, i, g + n, c, 0)
<1>1. PICK s : s = m.io[i].data
  OBVIOUS
<1>2. PICK k \in Nat : k = m.io[i].capacity /\ k = t.io[i].capacity
  BY PieceIs DEF SameBut
<1>3. g <= c /\ (c - g) + 0 <= k /\ s = Span(g, c)
  BY <1>1, <1>2 DEF HasBytes
<1>4. n <= c - g
  BY <1>1, <1>3, SpanIs
<1>5. t.io[i].data = Span(g + n, c)
  <2>1. SubSeq(Span(g, c), n + 1, Len(Span(g, c))) = Span(g + n, c)
    BY ONLY n \in Nat, <1>3, <1>4, g \in Nat, c \in Nat, SpanShrinks
  <2>2. t.io[i].data = SubSeq(s, n + 1, Len(s))
    BY <1>1
  <2> QED  BY ONLY <1>3, <2>1, <2>2
<1>6. g + n <= c /\ (c - (g + n)) + 0 <= k
  BY ONLY <1>3, <1>4, k \in Nat, g \in Nat, c \in Nat, n \in Nat
<1> QED  BY <1>2, <1>5, <1>6 DEF HasBytes

LEMMA MoreBytes ==
  ASSUME NEW m \in MemType, NEW t, NEW i \in 1..Len(m.io), SameBut(m, t, i),
         NEW g \in Nat, NEW c \in Nat, NEW n \in Nat, HasBytes(m, i, g, c, n),
         t.io[i].data = m.io[i].data \o Following(c, n)
  PROVE  HasBytes(t, i, g, c + n, 0)
<1>1. PICK s : s = m.io[i].data
  OBVIOUS
<1>2. PICK k \in Nat : k = m.io[i].capacity /\ k = t.io[i].capacity
  BY PieceIs DEF SameBut
<1>3. g <= c /\ (c - g) + n <= k /\ s = Span(g, c)
  BY <1>1, <1>2 DEF HasBytes
<1>4. t.io[i].data = Span(g, c + n)
  <2>1. Span(g, c) \o Following(c, n) = Span(g, c + n)
    BY ONLY n \in Nat, <1>3, g \in Nat, c \in Nat, SpanGrows DEF Following
  <2>2. t.io[i].data = s \o Following(c, n)
    BY <1>1
  <2> QED  BY ONLY <1>3, <2>1, <2>2
<1>5. g <= c + n /\ ((c + n) - g) + 0 <= k
  BY ONLY <1>3, k \in Nat, g \in Nat, c \in Nat, n \in Nat
<1> QED  BY <1>2, <1>4, <1>5 DEF HasBytes

LEMMA PopKeeps ==
  ASSUME IInv, NEW b \in Buf, NEW n \in PutLen, Pop(b, n)
  PROVE  IInv'
<1> DEFINE i == buf[b]
<1>1. /\ ~crashed /\ new_buf[b] = Null /\ i # Null /\ n <= Len(mem.io[i].data)
      /\ mem' = Popped(mem, i, n) /\ parsing' = parsing \cup {b}
      /\ gone' = [gone EXCEPT ![b] = @ + n]
      /\ UNCHANGED <<buf, new_buf, put, came, beyond, crashed>>
  BY DEF Pop, Takes
<1>2. TypeOK /\ mem \in MemType /\ Kept(mem, Used) /\ Accounted(mem) /\ Contents(b) /\ n \in Nat
  BY PoolAssumption DEF IInv, TypeOK
<1>3. i \in Used /\ i \in 1..Len(mem.io) /\ gone[b] \in Nat /\ came[b] \in Nat
  BY <1>1, BufferIs
<1>4. /\ SameBut(mem, mem', i) /\ Kept(mem', Used) /\ Accounted(mem')
      /\ mem'.io[i].data = SubSeq(mem.io[i].data, n + 1, Len(mem.io[i].data))
  <2> HIDE DEF i
  <2> QED  BY ONLY <1>1, <1>2, <1>3, PopGives
<1>5. gone' \in [Buf -> Nat] /\ gone'[b] = gone[b] + n /\ \A d \in Buf : d # b => gone'[d] = gone[d]
  BY <1>1, <1>2, <1>3 DEF TypeOK
<1>6. TypeOK'
  BY <1>1, <1>2, <1>4, <1>5 DEF TypeOK, SameBut
<1>7. Used' = Used /\ Owners'
  BY <1>1 DEF IInv, Used, Owners
<1>8. Contents(b)'
  <2>1. ASSUME Whole(b)' PROVE HasBytes(mem, i, gone[b], came[b], 0)'
    <3>1. HasBytes(mem, i, gone[b], came[b], 0)
      BY <1>1, <1>2, <2>1 DEF Contents, Whole
    <3>2. HasBytes(mem', i, gone[b] + n, came[b], 0)
      BY ONLY <1>1, <1>2, <1>3, <1>4, <3>1, LessBytes
    <3> QED  BY <1>1, <1>5, <3>2 DEF HasBytes
  <2> QED  BY <1>1, <2>1 DEF Contents
<1>9. ASSUME NEW d \in Buf, d # b PROVE Contents(d)'
  <2>1. buf[d] # i /\ new_buf[d] # i
    BY <1>1, <1>9, Apart
  <2>2. \A j \in 1..Len(mem.io) : (j = buf[d] \/ j = new_buf[d]) => mem'.io[j] = mem.io[j]
    BY <1>4, <2>1 DEF SameBut
  <2> QED  BY <1>1, <1>5, <1>9, <2>2, Untouched
<1> QED  BY <1>4, <1>6, <1>7, <1>8, <1>9 DEF IInv

LEMMA Write2fdKeeps ==
  ASSUME IInv, NEW b \in Buf, NEW n \in PutLen, Write2fd(b, n)
  PROVE  IInv'
<1> DEFINE i == buf[b]
           m == Popped(mem, i, n)
<1>1. /\ ~crashed /\ new_buf[b] = Null /\ i # Null /\ n <= Len(mem.io[i].data)
      /\ mem' = Adjusted(m, i) /\ gone' = [gone EXCEPT ![b] = @ + n]
      /\ UNCHANGED <<buf, new_buf, put, parsing, came, beyond, crashed>>
  BY DEF Write2fd, Takes
<1>2. TypeOK /\ mem \in MemType /\ Kept(mem, Used) /\ Accounted(mem) /\ Contents(b) /\ n \in Nat
  BY PoolAssumption DEF IInv, TypeOK
<1>3. i \in Used /\ i \in 1..Len(mem.io) /\ gone[b] \in Nat /\ came[b] \in Nat
  BY <1>1, BufferIs
<1>4. /\ SameBut(mem, mem', i) /\ Kept(mem', Used) /\ Accounted(mem')
      /\ mem'.io[i].data = SubSeq(mem.io[i].data, n + 1, Len(mem.io[i].data))
      /\ mem'.io[i].head = 0
  <2> HIDE DEF i
  <2>1. /\ SameBut(mem, m, i) /\ Kept(m, Used) /\ Accounted(m)
        /\ m.io[i].data = SubSeq(mem.io[i].data, n + 1, Len(mem.io[i].data))
    BY ONLY <1>1, <1>2, <1>3, PopGives
  <2> HIDE DEF m
  <2>2. m \in MemType
    BY <2>1 DEF SameBut
  <2>3. /\ SameBut(m, mem', i) /\ Kept(mem', Used) /\ Accounted(mem')
        /\ mem'.io[i].data = m.io[i].data /\ mem'.io[i].head = 0
    BY ONLY <1>1, <1>3, <2>1, <2>2, AdjustGives
  <2> QED  BY <2>1, <2>3 DEF SameBut
<1> HIDE DEF m
<1>5. gone' \in [Buf -> Nat] /\ gone'[b] = gone[b] + n /\ \A d \in Buf : d # b => gone'[d] = gone[d]
  BY <1>1, <1>2, <1>3 DEF TypeOK
<1>6. TypeOK'
  BY <1>1, <1>2, <1>4, <1>5 DEF TypeOK, SameBut
<1>7. Used' = Used /\ Owners'
  BY <1>1 DEF IInv, Used, Owners
<1>8. Contents(b)'
  <2>1. ASSUME Whole(b)' PROVE HasBytes(mem, i, gone[b], came[b], 0)'
    <3>1. HasBytes(mem, i, gone[b], came[b], 0)
      BY <1>1, <1>2, <2>1 DEF Contents, Whole
    <3>2. HasBytes(mem', i, gone[b] + n, came[b], 0)
      BY ONLY <1>1, <1>2, <1>3, <1>4, <3>1, LessBytes
    <3> QED  BY <1>1, <1>5, <3>2 DEF HasBytes
  <2> QED  BY <1>1, <1>4, <2>1 DEF Contents
<1>9. ASSUME NEW d \in Buf, d # b PROVE Contents(d)'
  <2>1. buf[d] # i /\ new_buf[d] # i
    BY <1>1, <1>9, Apart
  <2>2. \A j \in 1..Len(mem.io) : (j = buf[d] \/ j = new_buf[d]) => mem'.io[j] = mem.io[j]
    BY <1>4, <2>1 DEF SameBut
  <2> QED  BY <1>1, <1>5, <1>9, <2>2, Untouched
<1> QED  BY <1>4, <1>6, <1>7, <1>8, <1>9 DEF IInv

LEMMA PutFitsKeeps ==
  ASSUME IInv, NEW b \in Buf, NEW n \in PutLen, PutFits(b, n)
  PROVE  IInv'
<1> DEFINE i == buf[b]
<1>1. /\ ~crashed /\ new_buf[b] = Null /\ b \notin parsing /\ i # Null
      /\ n + Len(mem.io[i].data) <= mem.io[i].capacity
      /\ mem' = Extended(mem, i, b, n) /\ came' = [came EXCEPT ![b] = @ + n]
      /\ crashed' = Overrun(mem, i, n)
      /\ UNCHANGED <<buf, new_buf, put, parsing, gone, beyond>>
  BY DEF PutFits, CanPut, Need
<1>2. TypeOK /\ mem \in MemType /\ Kept(mem, Used) /\ Accounted(mem) /\ Contents(b) /\ n \in Nat
  BY PoolAssumption DEF IInv, TypeOK
<1>3. i \in Used /\ i \in 1..Len(mem.io) /\ gone[b] \in Nat /\ came[b] \in Nat
  BY <1>1, BufferIs
<1>4. /\ SameBut(mem, mem', i) /\ Kept(mem', Used) /\ Accounted(mem')
      /\ mem'.io[i].data = mem.io[i].data \o Following(came[b], n)
      /\ mem'.io[i].head = mem.io[i].head
  <2> HIDE DEF i
  <2>1. LET t == Extended(mem, i, b, n)
        IN  /\ SameBut(mem, t, i) /\ Kept(t, Used)
            /\ Accounted(mem) => Accounted(t)
            /\ t.io[i].data = mem.io[i].data \o Following(came[b], n)
            /\ t.io[i].head = mem.io[i].head
    <3>1. PICK k \in Nat : k = n
      BY <1>2
    <3>2. LET t == Extended(mem, i, b, k)
          IN  /\ SameBut(mem, t, i) /\ Kept(t, Used)
              /\ Accounted(mem) => Accounted(t)
              /\ t.io[i].data = mem.io[i].data \o Following(came[b], k)
              /\ t.io[i].head = mem.io[i].head
      <4>1. TypeOK /\ mem \in MemType /\ Kept(mem, Used) /\ i \in Used
        BY ONLY <1>2, <1>3
      <4> QED  BY ONLY <4>1, k \in Nat, b \in Buf, ExtendGives
    <3> QED  BY ONLY <3>1, <3>2
  <2> QED  BY ONLY <1>1, <1>2, <2>1
<1>5. came' \in [Buf -> Nat] /\ came'[b] = came[b] + n /\ \A d \in Buf : d # b => came'[d] = came[d]
  BY <1>1, <1>2, <1>3 DEF TypeOK
<1>6. TypeOK'
  <2>1. crashed' \in BOOLEAN
    BY <1>1 DEF Overrun
  <2> QED  BY <1>1, <1>2, <1>4, <1>5, <2>1 DEF TypeOK, SameBut
<1>7. Used' = Used /\ Owners'
  BY <1>1 DEF IInv, Used, Owners
<1>8. Contents(b)'
  <2>1. ASSUME Whole(b)' PROVE HasBytes(mem, i, gone[b], came[b], 0)'
    <3>1. HasBytes(mem, i, gone[b], came[b], 0)
      BY <1>1, <1>2, <2>1 DEF Contents, Whole
    <3>2. HasBytes(mem, i, gone[b], came[b], n)
      <4>1. PICK k \in Nat : k = mem.io[i].capacity
        BY <1>2, <1>3, PieceIs
      <4>2. Len(Span(gone[b], came[b])) = came[b] - gone[b] /\ gone[b] <= came[b]
        BY <1>3, <3>1, SpanIs DEF HasBytes
      <4>3. (came[b] - gone[b]) + n <= k
        BY <1>1, <1>2, <1>3, <3>1, <4>1, <4>2 DEF HasBytes
      <4> QED  BY <3>1, <4>1, <4>3 DEF HasBytes
    <3>3. HasBytes(mem', i, gone[b], came[b] + n, 0)
      BY ONLY <1>2, <1>3, <1>4, <3>2, MoreBytes
    <3> QED  BY <1>1, <1>5, <3>3 DEF HasBytes
  <2> QED  BY <1>1, <1>2, <1>4, <2>1 DEF Contents
<1>9. ASSUME NEW d \in Buf, d # b PROVE Contents(d)'
  <2>1. buf[d] # i /\ new_buf[d] # i
    BY <1>1, <1>9, Apart
  <2>2. \A j \in 1..Len(mem.io) : (j = buf[d] \/ j = new_buf[d]) => mem'.io[j] = mem.io[j]
    BY <1>4, <2>1 DEF SameBut
  <2> QED  BY <1>1, <1>5, <1>9, <2>2, Untouched
<1> QED  BY <1>4, <1>6, <1>7, <1>8, <1>9 DEF IInv

LEMMA ClearKeeps ==
  ASSUME IInv, NEW b \in Buf, Clear(b)
  PROVE  IInv'
<1> DEFINE i == buf[b]
<1>1. /\ ~crashed /\ new_buf[b] = Null /\ i # Null
      /\ mem' = Released(i) /\ buf' = [buf EXCEPT ![b] = Null]
      /\ parsing' = parsing \ {b} /\ gone' = [gone EXCEPT ![b] = came[b]] /\ beyond' = beyond \ {b}
      /\ UNCHANGED <<new_buf, put, came, crashed>>
  BY DEF Clear
<1>2. TypeOK /\ mem \in MemType /\ Kept(mem, Used) /\ Accounted(mem) /\ Contents(b)
  BY DEF IInv, TypeOK
<1>3. i \in Used /\ i \in 1..Len(mem.io) /\ came[b] \in Nat
  BY <1>1, BufferIs
<1>4. /\ mem' \in MemType /\ Kept(mem', Used \ {i}) /\ Accounted(mem')
      /\ \A j \in 1..Len(mem.io) : j # i => mem'.io[j] = mem.io[j]
  <2> HIDE DEF i
  <2> QED  BY ONLY <1>1, <1>2, <1>3, ReleasedGives
<1>5. /\ gone' \in [Buf -> Nat] /\ gone'[b] = came[b] /\ \A d \in Buf : d # b => gone'[d] = gone[d]
      /\ buf' \in [Buf -> Nat \cup {Null}] /\ buf'[b] = Null /\ \A d \in Buf : d # b => buf'[d] = buf[d]
  BY <1>1, <1>2, <1>3 DEF TypeOK
<1>6. TypeOK'
  BY <1>1, <1>2, <1>4, <1>5 DEF TypeOK
<1>7. Used' = Used \ {i}
  <2>1. ASSUME NEW d \in Buf, d # b PROVE buf[d] # i /\ new_buf[d] # i
    BY <1>1, <2>1, Apart
  <2>2. i \in Nat /\ Null \notin Nat
    BY <1>3, PoolAssumption
  <2> QED  BY <1>1, <1>5, <2>1, <2>2 DEF Used
<1>8. Owners'
  BY <1>1, <1>5 DEF IInv, Owners
<1>9. Contents(b)'
  BY <1>1, <1>5 DEF Contents
<1>10. ASSUME NEW d \in Buf, d # b PROVE Contents(d)'
  <2>1. buf[d] # i /\ new_buf[d] # i
    BY <1>1, <1>10, Apart
  <2>2. \A j \in 1..Len(mem.io) : (j = buf[d] \/ j = new_buf[d]) => mem'.io[j] = mem.io[j]
    BY <1>4, <2>1
  <2> QED  BY <1>1, <1>5, <1>10, <2>2, Untouched
<1> QED  BY <1>4, <1>6, <1>7, <1>8, <1>9, <1>10 DEF IInv

LEMMA SwapKeeps ==
  ASSUME IInv, NEW b \in Buf, Swap(b)
  PROVE  IInv'
<1> DEFINE i == buf[b]
           j == new_buf[b]
           n == put[b]
           m == Released(i)
<1>1. /\ ~crashed /\ j # Null
      /\ mem' = Extended(m, j, b, n) /\ crashed' = Overrun(mem, j, n)
      /\ buf' = [buf EXCEPT ![b] = j] /\ new_buf' = [new_buf EXCEPT ![b] = Null]
      /\ put' = [put EXCEPT ![b] = 0] /\ came' = [came EXCEPT ![b] = @ + n]
      /\ UNCHANGED <<parsing, gone, beyond>>
  BY DEF Swap
<1>2. TypeOK /\ mem \in MemType /\ Kept(mem, Used) /\ Accounted(mem) /\ Contents(b) /\ Null \notin Nat
  BY PoolAssumption DEF IInv, TypeOK
<1>3. /\ i \in Used /\ i \in 1..Len(mem.io) /\ i # Null
      /\ j \in Used /\ j \in 1..Len(mem.io) /\ i # j
      /\ gone[b] \in Nat /\ came[b] \in Nat /\ n \in Nat
  BY <1>1, BufferIs
<1>4. /\ m \in MemType /\ Len(m.io) = Len(mem.io) /\ Kept(m, Used \ {i}) /\ Accounted(m)
      /\ \A l \in 1..Len(mem.io) : l # i => m.io[l] = mem.io[l]
  <2> HIDE DEF i
  <2> QED  BY ONLY <1>1, <1>2, <1>3, ReleasedGives
<1> HIDE DEF m
<1>5. /\ SameBut(m, mem', j) /\ Kept(mem', Used \ {i}) /\ Accounted(mem')
      /\ mem'.io[j].data = m.io[j].data \o Following(came[b], n)
      /\ mem'.io[j].head = m.io[j].head
  <2>1. j \in Used \ {i}
    BY <1>3
  <2> HIDE DEF i, j, n
  <2>2. LET t == Extended(m, j, b, n)
        IN  /\ SameBut(m, t, j) /\ Kept(t, Used \ {i})
            /\ Accounted(m) => Accounted(t)
            /\ t.io[j].data = m.io[j].data \o Following(came[b], n)
            /\ t.io[j].head = m.io[j].head
    <3>1. PICK k \in Nat, used \in SUBSET Used : k = n /\ used = Used \ {i}
      BY <1>3
    <3>2. TypeOK /\ m \in MemType /\ Kept(m, used) /\ j \in used
      BY ONLY <1>2, <1>4, <2>1, <3>1
    <3>3. LET t == Extended(m, j, b, k)
          IN  /\ SameBut(m, t, j) /\ Kept(t, used)
              /\ Accounted(m) => Accounted(t)
              /\ t.io[j].data = m.io[j].data \o Following(came[b], k)
              /\ t.io[j].head = m.io[j].head
      BY ONLY <3>2, k \in Nat, b \in Buf, ExtendGives
    <3> QED  BY ONLY <3>1, <3>3
  <2> QED  BY ONLY <1>1, <1>4, <2>2
<1>6. /\ came' \in [Buf -> Nat] /\ came'[b] = came[b] + n /\ \A d \in Buf : d # b => came'[d] = came[d]
      /\ put' \in [Buf -> Nat] /\ \A d \in Buf : d # b => put'[d] = put[d]
      /\ buf' \in [Buf -> Nat \cup {Null}] /\ buf'[b] = j /\ \A d \in Buf : d # b => buf'[d] = buf[d]
      /\ new_buf' \in [Buf -> Nat \cup {Null}] /\ new_buf'[b] = Null
      /\ \A d \in Buf : d # b => new_buf'[d] = new_buf[d]
  BY <1>1, <1>2, <1>3 DEF TypeOK
<1>7. TypeOK'
  <2>1. crashed' \in BOOLEAN
    BY <1>1 DEF Overrun
  <2> QED  BY <1>1, <1>2, <1>5, <1>6, <2>1 DEF TypeOK, SameBut
<1>8. ASSUME NEW d \in Buf, d # b
      PROVE  buf[d] # i /\ new_buf[d] # i /\ buf[d] # j /\ new_buf[d] # j
  BY <1>1, <1>3, <1>8, Apart
<1>9. Used' = Used \ {i}
  <2>1. i \in Nat /\ j \in Nat /\ j # i /\ Null \notin Nat
    BY <1>2, <1>3
  <2>2. ASSUME NEW l \in Nat
        PROVE  l \in Used' <=> l \in Used /\ l # i
    <3>1. CASE l = i
      BY <1>6, <1>8, <2>1, <3>1 DEF Used
    <3>2. CASE l = j
      BY <1>6, <2>1, <3>2 DEF Used
    <3>3. CASE l # i /\ l # j
      BY <1>6, <1>8, <2>1, <3>3 DEF Used
    <3> QED  BY <3>1, <3>2, <3>3
  <2>3. Used \subseteq Nat /\ Used' \subseteq Nat
    BY DEF Used
  <2> QED  BY ONLY <2>2, <2>3
<1>10. Owners'
  <2>1. Owners
    BY DEF IInv
  <2> QED  BY <1>1, <1>3, <1>6, <1>8, <2>1 DEF Owners
<1>11. Contents(b)'
  <2>1. mem.io[j] = m.io[j]
    BY <1>3, <1>4
  <2>2. ASSUME Whole(b)' PROVE HasBytes(mem', j, gone'[b], came'[b], 0)
    <3>1. HasBytes(m, j, gone[b], came[b], n)
      BY <1>1, <1>2, <2>1, <2>2 DEF Contents, Whole, HasBytes
    <3>2. HasBytes(mem', j, gone[b], came[b] + n, 0)
      BY ONLY <1>3, <1>4, <1>5, <3>1, MoreBytes
    <3>3. gone'[b] = gone[b] /\ came'[b] = came[b] + n
      BY <1>1, <1>6
    <3> QED  BY ONLY <3>2, <3>3
  <2>3. j # Null /\ b \notin parsing /\ mem'.io[j].head = 0
    BY <1>1, <1>2, <1>5, <2>1 DEF Contents
  <2> QED  BY <1>1, <1>6, <2>2, <2>3 DEF Contents
<1>12. ASSUME NEW d \in Buf, d # b PROVE Contents(d)'
  <2>1. \A l \in 1..Len(mem.io) : (l = buf[d] \/ l = new_buf[d]) => mem'.io[l] = mem.io[l]
    BY <1>4, <1>5, <1>8, <1>12 DEF SameBut
  <2> QED  BY <1>1, <1>6, <1>12, <2>1, Untouched
<1> QED  BY <1>5, <1>7, <1>9, <1>10, <1>11, <1>12 DEF IInv

LEMMA PutFirstKeeps ==
  ASSUME IInv, NEW b \in Buf, NEW n \in PutLen, PutFirst(b, n)
  PROVE  IInv'
<1> DEFINE a == Alloc(n)
           i == a.got
           m == a.mem
<1>1. /\ ~crashed /\ new_buf[b] = Null /\ b \notin parsing /\ buf[b] = Null
      /\ beyond' = IF n > Largest THEN beyond \cup {b} ELSE beyond
      /\ UNCHANGED <<new_buf, put, parsing, gone>>
  BY DEF PutFirst, CanPut
<1>2. /\ TypeOK /\ mem \in MemType /\ Kept(mem, Used) /\ Accounted(mem) /\ Contents(b) /\ Owners
      /\ n \in Nat /\ Null \notin Nat
  BY PoolAssumption DEF IInv, TypeOK
<1>3. gone[b] \in Nat /\ came[b] \in Nat /\ gone[b] = came[b]
  BY <1>1, <1>2, BufferIs DEF Contents
<1>4. beyond' \subseteq Buf /\ \A d \in Buf : d # b => (d \in beyond' <=> d \in beyond)
  BY <1>1, <1>2 DEF TypeOK
<1>5. CASE i = Null
  <2>1. UNCHANGED <<mem, buf, came, crashed>>
    BY <1>5 DEF PutFirst
  <2>2. TypeOK' /\ Used' = Used /\ Owners' /\ Kept(mem', Used') /\ Accounted(mem')
    BY <1>1, <1>2, <1>4, <2>1 DEF TypeOK, Used, Owners
  <2>3. Contents(b)'
    BY <1>1, <1>2, <2>1 DEF Contents
  <2>4. ASSUME NEW d \in Buf, d # b PROVE Contents(d)'
    BY <1>1, <1>4, <2>1, <2>4, Untouched
  <2> QED  BY <2>2, <2>3, <2>4 DEF IInv
<1>6. CASE i # Null
  <2>1. /\ mem' = Extended(m, i, b, n) /\ buf' = [buf EXCEPT ![b] = i]
        /\ came' = [came EXCEPT ![b] = @ + n] /\ crashed' = Overrun(m, i, n)
    BY <1>6 DEF PutFirst
  <2>2. /\ m \in MemType /\ i \in 1..Len(m.io) /\ i \notin Used
        /\ m.io[i] = NewIoBuf(GetMemLen(n))
        /\ \A j \in 1..Len(mem.io) : j \in 1..Len(m.io) /\ m.io[j] = mem.io[j]
        /\ Kept(m, Used \cup {i}) /\ Accounted(m)
    <3>1. PICK k \in Nat : k = n
      BY <1>2
    <3>2. Alloc(k).got # Null
      BY <1>6, <3>1
    <3> DEFINE c == Alloc(k)
    <3>3. /\ c.mem \in MemType /\ c.got \in 1..Len(c.mem.io) /\ c.got \notin Used
          /\ c.mem.io[c.got] = NewIoBuf(GetMemLen(k))
          /\ \A j \in 1..Len(mem.io) : j \in 1..Len(c.mem.io) /\ c.mem.io[j] = mem.io[j]
          /\ Kept(c.mem, Used \cup {c.got})
          /\ Accounted(mem) => Accounted(c.mem)
      <4>1. TypeOK /\ Kept(mem, Used)
        BY ONLY <1>2
      <4> QED  BY ONLY <3>2, <4>1, k \in Nat, AllocGives
    <3> QED  BY <1>2, <3>1, <3>2, <3>3
  <2> HIDE DEF a, i, m
  <2>3. /\ SameBut(m, mem', i) /\ Kept(mem', Used \cup {i}) /\ Accounted(mem')
        /\ mem'.io[i].data = m.io[i].data \o Following(came[b], n)
        /\ mem'.io[i].head = m.io[i].head
    <3>1. PICK k \in Nat : k = n
      BY <1>2
    <3>2. PICK used : used = Used \cup {i}
      OBVIOUS
    <3>3. TypeOK /\ m \in MemType /\ Kept(m, used) /\ i \in used
      BY ONLY <1>2, <2>2, <3>2
    <3>4. LET t == Extended(m, i, b, k)
          IN  /\ SameBut(m, t, i) /\ Kept(t, used)
              /\ Accounted(m) => Accounted(t)
              /\ t.io[i].data = m.io[i].data \o Following(came[b], k)
              /\ t.io[i].head = m.io[i].head
      BY ONLY <3>3, k \in Nat, b \in Buf, ExtendGives
    <3> QED  BY ONLY <2>1, <2>2, <3>1, <3>4, <3>2
  <2>4. i \in Nat /\ \A d \in Buf : buf[d] # i /\ new_buf[d] # i
    BY <2>2 DEF Used
  <2>5. /\ came' \in [Buf -> Nat] /\ came'[b] = came[b] + n /\ \A d \in Buf : d # b => came'[d] = came[d]
        /\ buf' \in [Buf -> Nat \cup {Null}] /\ buf'[b] = i /\ \A d \in Buf : d # b => buf'[d] = buf[d]
    BY <1>2, <1>3, <2>1, <2>4 DEF TypeOK
  <2>6. TypeOK'
    <3>1. crashed' \in BOOLEAN
      BY <2>1 DEF Overrun
    <3> QED  BY <1>1, <1>2, <1>4, <2>3, <2>5, <3>1 DEF TypeOK, SameBut
  <2>7. Used' = Used \cup {i}
    BY <1>1, <1>2, <2>4, <2>5 DEF Used
  <2>8. Owners'
    BY <1>1, <1>2, <2>4, <2>5 DEF Owners
  <2>9. Contents(b)'
    <3>1. m.io[i].data = <<>> /\ m.io[i].head = 0 /\ m.io[i].capacity = GetMemLen(n)
      BY <2>2 DEF NewIoBuf
    <3>2. ASSUME Whole(b)' PROVE HasBytes(mem', i, gone'[b], came'[b], 0)
      <4>1. n <= GetMemLen(n)
        <5>1. ~(n > Largest)
          BY <1>1, <3>2 DEF Whole
        <5> QED  BY <1>2, <5>1, LargestIs, ClassFits
      <4>2. HasBytes(m, i, gone[b], came[b], n)
        <5>1. PICK g \in Nat : g = gone[b] /\ g = came[b]
          BY <1>3
        <5>2. Span(g, g) = <<>>
          BY SpanIs
        <5>3. g <= g /\ (g - g) + n <= GetMemLen(n)
          <6>1. (g - g) + n = n
            BY <1>2
          <6> QED  BY <4>1, <6>1
        <5> QED  BY <3>1, <5>1, <5>2, <5>3 DEF HasBytes
      <4>3. HasBytes(mem', i, gone[b], came[b] + n, 0)
        BY ONLY <1>2, <1>3, <2>2, <2>3, <4>2, MoreBytes
      <4>4. gone'[b] = gone[b] /\ came'[b] = came[b] + n
        BY <1>1, <2>5
      <4> QED  BY ONLY <4>3, <4>4
    <3> QED  BY <1>1, <1>2, <2>3, <2>4, <2>5, <3>1, <3>2 DEF Contents
  <2>10. ASSUME NEW d \in Buf, d # b PROVE Contents(d)'
    <3>1. \A j \in 1..Len(mem.io) : (j = buf[d] \/ j = new_buf[d]) => mem'.io[j] = mem.io[j]
      BY <2>2, <2>3, <2>4 DEF SameBut
    <3> QED  BY <1>1, <1>4, <2>5, <2>10, <3>1, Untouched
  <2> QED  BY <2>3, <2>6, <2>7, <2>8, <2>9, <2>10 DEF IInv
<1> QED  BY <1>5, <1>6

LEMMA PutGrowsKeeps ==
  ASSUME IInv, NEW b \in Buf, NEW n \in PutLen, PutGrows(b, n)
  PROVE  IInv'
<1> DEFINE h == buf[b]
           old == mem.io[h].data
           l == n + Len(old)
           a == Alloc(l)
           i == a.got
           m == a.mem
           copied == IF Len(old) <= m.io[i].capacity THEN old ELSE <<>>
<1>1. /\ ~crashed /\ new_buf[b] = Null /\ b \notin parsing /\ h # Null
      /\ beyond' = IF l > Largest THEN beyond \cup {b} ELSE beyond
      /\ UNCHANGED <<buf, parsing, came, gone>>
  BY DEF PutGrows, CanPut, Need
<1>2. /\ TypeOK /\ mem \in MemType /\ Kept(mem, Used) /\ Accounted(mem) /\ Contents(b) /\ Owners
      /\ n \in Nat /\ Null \notin Nat
  BY PoolAssumption DEF IInv, TypeOK
<1>3. h \in Used /\ h \in 1..Len(mem.io) /\ gone[b] \in Nat /\ came[b] \in Nat
  BY <1>1, BufferIs
<1>4. old \in Seq(Nat) /\ Len(old) \in Nat /\ l \in Nat
  <2>1. old \in Seq(Nat)
    <3> HIDE DEF h
    <3> QED  BY ONLY <1>2, <1>3, PieceIs
  <2> HIDE DEF old
  <2> QED  BY ONLY <1>2, <2>1
<1>5. beyond' \subseteq Buf /\ \A d \in Buf : d # b => (d \in beyond' <=> d \in beyond)
  BY <1>1, <1>2 DEF TypeOK
<1>6. CASE i = Null
  <2>1. crashed' = TRUE /\ UNCHANGED <<mem, new_buf, put>>
    BY <1>6 DEF PutGrows, Need
  <2>2. TypeOK' /\ Used' = Used /\ Owners' /\ Kept(mem', Used') /\ Accounted(mem')
    BY <1>1, <1>2, <1>5, <2>1 DEF TypeOK, Used, Owners
  <2>3. ASSUME NEW d \in Buf PROVE Contents(d)'
    <3>1. Contents(d)
      BY DEF IInv
    <3> QED  BY <1>1, <2>1, <3>1 DEF Contents, Whole
  <2> QED  BY <2>2, <2>3 DEF IInv
<1>7. CASE i # Null
  <2>1. /\ mem' = [m EXCEPT !.io[i].data = copied]
        /\ new_buf' = [new_buf EXCEPT ![b] = i] /\ put' = [put EXCEPT ![b] = n]
        /\ UNCHANGED crashed
    BY <1>7 DEF PutGrows, Need
  <2>2. /\ m \in MemType /\ i \in 1..Len(m.io) /\ i \notin Used
        /\ m.io[i] = NewIoBuf(GetMemLen(l))
        /\ \A j \in 1..Len(mem.io) : j \in 1..Len(m.io) /\ m.io[j] = mem.io[j]
        /\ Kept(m, Used \cup {i}) /\ Accounted(m)
    <3>1. PICK k \in Nat : k = l
      BY <1>4
    <3>2. Alloc(k).got # Null
      BY <1>7, <3>1
    <3> DEFINE c == Alloc(k)
    <3>3. /\ c.mem \in MemType /\ c.got \in 1..Len(c.mem.io) /\ c.got \notin Used
          /\ c.mem.io[c.got] = NewIoBuf(GetMemLen(k))
          /\ \A j \in 1..Len(mem.io) : j \in 1..Len(c.mem.io) /\ c.mem.io[j] = mem.io[j]
          /\ Kept(c.mem, Used \cup {c.got})
          /\ Accounted(mem) => Accounted(c.mem)
      <4>1. TypeOK /\ Kept(mem, Used)
        BY ONLY <1>2
      <4> QED  BY ONLY <3>2, <4>1, k \in Nat, AllocGives
    <3> QED  BY <1>2, <3>1, <3>2, <3>3
  <2> HIDE DEF a, i, m
  <2>3. copied \in Seq(Nat)
    BY <1>4
  <2> HIDE DEF copied
  <2>4. /\ SameBut(m, mem', i) /\ Kept(mem', Used \cup {i}) /\ Accounted(mem')
        /\ mem'.io[i].data = copied /\ mem'.io[i].head = m.io[i].head
    <3>1. PICK used : used = Used \cup {i}
      OBVIOUS
    <3>2. m \in MemType /\ Kept(m, used) /\ i \in used
      BY ONLY <2>2, <3>1
    <3>3. LET t == Copied(m, i, copied)
          IN  /\ SameBut(m, t, i) /\ Kept(t, used)
              /\ Accounted(m) => Accounted(t)
              /\ t.io[i].data = copied /\ t.io[i].head = m.io[i].head
      BY ONLY <2>3, <3>2, CopyGives
    <3>4. mem' = Copied(m, i, copied)
      BY <2>1 DEF Copied
    <3> QED  BY ONLY <2>2, <3>1, <3>3, <3>4
  <2>5. i \in Nat /\ \A d \in Buf : buf[d] # i /\ new_buf[d] # i
    BY <2>2 DEF Used
  <2>6. /\ put' \in [Buf -> Nat] /\ put'[b] = n /\ \A d \in Buf : d # b => put'[d] = put[d]
        /\ new_buf' \in [Buf -> Nat \cup {Null}] /\ new_buf'[b] = i
        /\ \A d \in Buf : d # b => new_buf'[d] = new_buf[d]
    BY <1>2, <1>3, <2>1, <2>5 DEF TypeOK
  <2>7. TypeOK'
    BY <1>1, <1>2, <1>5, <2>1, <2>4, <2>6 DEF TypeOK, SameBut
  <2>8. Used' = Used \cup {i}
    BY <1>1, <1>2, <2>5, <2>6 DEF Used
  <2>9. Owners'
    BY <1>1, <1>2, <2>5, <2>6 DEF Owners
  <2>10. Contents(b)'
    <3>1. m.io[i].head = 0 /\ m.io[i].capacity = GetMemLen(l)
      BY <2>2 DEF NewIoBuf
    <3>2. mem'.io[h] = mem.io[h] /\ h # i
      BY <1>3, <2>2, <2>4 DEF SameBut
    <3>3. ASSUME Whole(b)'
          PROVE  HasBytes(mem', h, gone[b], came[b], 0) /\ HasBytes(mem', i, gone[b], came[b], n)
      <4>1. HasBytes(mem, h, gone[b], came[b], 0)
        BY <1>1, <1>2, <2>1, <3>3 DEF Contents, Whole
      <4>2. l <= GetMemLen(l)
        <5>1. ~(l > Largest)
          BY <1>1, <3>3 DEF Whole
        <5> QED  BY <1>4, <5>1, LargestIs, ClassFits
      <4>3. PICK g \in Nat, c \in Nat : g = gone[b] /\ c = came[b]
        BY <1>3
      <4>4. g <= c /\ old = Span(g, c) /\ Len(old) = c - g
        BY <4>1, <4>3, SpanIs DEF HasBytes
      <4>5. PICK k \in Nat : k = GetMemLen(l) /\ k = mem'.io[i].capacity
        BY <1>4, <2>4, <3>1, ClassFits, ClassNat DEF SameBut
      <4>6. (c - g) + n <= k /\ Len(old) <= m.io[i].capacity
        BY <1>2, <1>4, <3>1, <4>2, <4>4, <4>5
      <4>7. copied = Span(g, c)
        BY <4>4, <4>6 DEF copied
      <4>8. HasBytes(mem', i, g, c, n)
        BY <2>4, <4>4, <4>5, <4>6, <4>7 DEF HasBytes
      <4>9. HasBytes(mem', h, gone[b], came[b], 0)
        BY <3>2, <4>1 DEF HasBytes
      <4> QED  BY <4>3, <4>8, <4>9
    <3>4. h # Null /\ b \notin parsing /\ mem.io[h].head = 0 /\ i # Null
      BY <1>1, <1>2, <1>7 DEF Contents
    <3> QED  BY <1>1, <2>4, <2>6, <3>1, <3>2, <3>3, <3>4 DEF Contents
  <2>11. ASSUME NEW d \in Buf, d # b PROVE Contents(d)'
    <3>1. \A j \in 1..Len(mem.io) : (j = buf[d] \/ j = new_buf[d]) => mem'.io[j] = mem.io[j]
      BY <2>2, <2>4, <2>5 DEF SameBut
    <3> QED  BY <1>1, <1>5, <2>1, <2>6, <2>11, <3>1, Untouched
  <2> QED  BY <2>4, <2>7, <2>8, <2>9, <2>10, <2>11 DEF IInv
<1> QED  BY <1>6, <1>7

-----------------------------------------------------------------------------
(* The invariant holds *)

(* The sequence of a set of numbers has each of them, once. *)
LEMMA SetToSeqIs ==
  ASSUME NEW S \in SUBSET Nat, IsFiniteSet(S)
  PROVE  LET s == SetToSeq(S)
         IN  /\ s \in Seq(Nat) /\ \A k \in 1..Len(s) : s[k] \in S
             /\ \A j \in 1..Len(s), k \in 1..Len(s) : s[j] = s[k] => j = k
             /\ \A i \in S : \E k \in 1..Len(s) : s[k] = i
<1> DEFINE n == Cardinality(S)
           s == SetToSeq(S)
<1>1. n \in Nat /\ ExistsBijection(1..n, S)
  BY FS_CardinalityType
<1>2. PICK f \in [1..n -> S] : IsInjective(f)
  BY <1>1 DEF ExistsBijection, Bijection, Injection
<1>3. s \in [1..n -> S] /\ IsInjective(s)
  BY <1>2 DEF SetToSeq
<1> HIDE DEF s
<1>4. s \in Injection(1..n, S)
  BY <1>3 DEF Injection
<1>5. IsFiniteSet(1..n) /\ Cardinality(1..n) = n
  BY <1>1, FS_Interval
<1>6. s \in Surjection(1..n, S)
  BY <1>4, <1>5, FS_Injection
<1>7. s \in Seq(Nat) /\ Len(s) = n
  <2>1. s \in [1..n -> Nat]
    BY <1>3
  <2> QED  BY ONLY <1>1, <2>1
<1>8. \A i \in S : \E k \in 1..n : s[k] = i
  BY <1>6 DEF Surjection
<1>9. \A j \in 1..n, k \in 1..n : s[j] = s[k] => j = k
  BY <1>3 DEF IsInjective
<1> QED  BY ONLY <1>3, <1>7, <1>8, <1>9 DEF s

LEMMA CapacityNat ==
  ASSUME NEW io \in Seq(IoBuf)
  PROVE  Capacity(io) \in Nat
<1>1. PICK n \in Nat : n = Len(io)
  OBVIOUS
<1>2. PICK g : Upto(g, n, io) /\ Capacity(io) = g[n]
  <2>1. Upto(CHOOSE g : Upto(g, n, io), n, io)
    BY UptoExists
  <2> QED  BY <1>1, <2>1, CapacityIs
<1> DEFINE Bad == {k \in 0..n : g[k] \notin Nat}
<1>3. SUFFICES ASSUME Bad # {} PROVE FALSE
  BY <1>2
<1>4. PICK k \in Bad : \A i \in Bad : k <= i
  <2>1. Bad \in SUBSET Nat
    OBVIOUS
  <2> HIDE DEF Bad
  <2> QED  BY <1>3, <2>1, LeastOf
<1>5. g[k] = IF k = 0 THEN 0 ELSE g[k - 1] + io[k].capacity
  BY <1>2 DEF Upto
<1>6. k # 0
  BY <1>5
<1>7. k \in 1..n /\ k - 1 \in 0..n /\ k - 1 \notin Bad
  BY <1>4, <1>6
<1>8. io[k].capacity \in Nat
  <2>1. io[k] \in IoBuf
    BY <1>1, <1>7
  <2> QED  BY <2>1, ClassNat DEF IoBuf
<1> QED  BY <1>5, <1>6, <1>7, <1>8

LEMMA InitInvariant == Init => IInv
<1> SUFFICES ASSUME Init PROVE IInv
  OBVIOUS
<1> DEFINE Of(c) == {i \in DOMAIN Made : Made[i] = c}
           free == [c \in Class |-> SetToSeq(Of(c))]
<1>1. /\ Made \in Seq(Class) /\ Capacity(InitIo) <= MAX_BUF_POOL_CAP /\ Null \notin Nat
  BY PoolAssumption
<1>2. PICK n \in Nat : n = Len(Made) /\ DOMAIN Made = 1..n
  BY <1>1
<1>3. /\ InitIo \in Seq(IoBuf) /\ Len(InitIo) = n
      /\ \A i \in 1..n : Made[i] \in Class /\ InitIo[i] = NewIoBuf(Made[i])
  <2>1. \A i \in 1..n : Made[i] \in Class
    BY <1>1, <1>2
  <2>2. InitIo = [i \in 1..n |-> NewIoBuf(Made[i])]
    BY <1>2 DEF InitIo
  <2>3. \A i \in 1..n : NewIoBuf(Made[i]) \in IoBuf
    BY <2>1, ClassNat
  <2>4. InitIo \in [1..n -> IoBuf]
    BY <2>2, <2>3
  <2>5. InitIo \in Seq(IoBuf) /\ Len(InitIo) = n
    BY ONLY <2>4, n \in Nat
  <2> QED  BY <2>1, <2>2, <2>5
<1>4. /\ mem = [io |-> InitIo, free |-> free, cap |-> Capacity(InitIo)]
      /\ buf = [b \in Buf |-> Null] /\ new_buf = [b \in Buf |-> Null]
      /\ put = [b \in Buf |-> 0] /\ came = [b \in Buf |-> 0] /\ gone = [b \in Buf |-> 0]
      /\ parsing = {} /\ beyond = {} /\ crashed = FALSE
  BY DEF Init
<1>5. ASSUME NEW c \in Class
      PROVE  /\ free[c] \in Seq(Nat) /\ \A k \in 1..Len(free[c]) : free[c][k] \in Of(c)
             /\ \A j \in 1..Len(free[c]), k \in 1..Len(free[c]) : free[c][j] = free[c][k] => j = k
             /\ \A i \in Of(c) : \E k \in 1..Len(free[c]) : free[c][k] = i
  <2>1. Of(c) \in SUBSET (1..n) /\ IsFiniteSet(1..n)
    BY <1>2, FS_Interval
  <2>2. Of(c) \in SUBSET Nat /\ IsFiniteSet(Of(c))
    <3>1. IsFiniteSet(Of(c))
      BY <2>1, FS_Subset
    <3> QED  BY <2>1, <3>1
  <2>3. free[c] = SetToSeq(Of(c))
    OBVIOUS
  <2> HIDE DEF Of, free
  <2>4. PICK S \in SUBSET Nat : S = Of(c) /\ IsFiniteSet(S)
    BY <2>2
  <2>5. LET s == SetToSeq(S)
        IN  /\ s \in Seq(Nat) /\ \A k \in 1..Len(s) : s[k] \in S
            /\ \A j \in 1..Len(s), k \in 1..Len(s) : s[j] = s[k] => j = k
            /\ \A i \in S : \E k \in 1..Len(s) : s[k] = i
    BY ONLY <2>4, S \in SUBSET Nat, SetToSeqIs
  <2> QED  BY ONLY <2>3, <2>4, <2>5
<1> HIDE DEF free
<1>6. mem \in MemType
  <2>1. free \in [Class -> Seq(Nat)]
    <3>1. free = [c \in Class |-> free[c]]
      BY DEF free
    <3> QED  BY <1>5, <3>1
  <2> QED  BY <1>3, <1>4, <2>1, CapacityNat DEF MemType
<1>7. TypeOK
  BY <1>4, <1>6 DEF TypeOK
<1>8. Used = {}
  BY <1>1, <1>4 DEF Used
<1>9. Kept(mem, {})
  <2>1. mem.io = InitIo /\ mem.free = free
    BY <1>4
  <2>2. FreeClean(mem, {})
    BY <1>2, <1>3, <1>5, <2>1 DEF FreeClean
  <2>3. FreeOnce(mem)
    BY <1>5, <2>1 DEF FreeOnce
  <2>4. NoneLost(mem, {})
    <3>1. ASSUME NEW i \in 1..n
          PROVE  \E k \in 1..Len(free[InitIo[i].capacity]) : free[InitIo[i].capacity][k] = i
      <4>1. InitIo[i].capacity = Made[i] /\ Made[i] \in Class /\ i \in Of(Made[i])
        <5>1. InitIo[i] = NewIoBuf(Made[i]) /\ Made[i] \in Class /\ i \in DOMAIN Made
          BY <1>2, <1>3
        <5>2. NewIoBuf(Made[i]).capacity = Made[i]
          BY DEF NewIoBuf
        <5> QED  BY <5>1, <5>2
      <4> HIDE DEF Of
      <4> QED  BY ONLY <1>5, <4>1
    <3> QED  BY ONLY <1>3, <2>1, <3>1 DEF NoneLost
  <2> QED  BY <2>2, <2>3, <2>4 DEF Kept
<1>10. Owners /\ Accounted(mem) /\ \A b \in Buf : Contents(b)
  BY <1>1, <1>4 DEF Owners, Accounted, Contents
<1> QED  BY <1>7, <1>8, <1>9, <1>10 DEF IInv

LEMMA NextInvariant == IInv /\ [Next]_vars => IInv'
<1> SUFFICES ASSUME IInv, [Next]_vars PROVE IInv'
  OBVIOUS
<1>1. CASE UNCHANGED vars
  BY <1>1 DEF IInv, TypeOK, Used, Owners, Contents, Whole, HasBytes, vars
<1>2. ASSUME NEW b \in Buf, NEW n \in PutLen, PutFirst(b, n) PROVE IInv'
  BY <1>2, PutFirstKeeps
<1>3. ASSUME NEW b \in Buf, NEW n \in PutLen, PutFits(b, n) PROVE IInv'
  BY <1>3, PutFitsKeeps
<1>4. ASSUME NEW b \in Buf, NEW n \in PutLen, PutGrows(b, n) PROVE IInv'
  BY <1>4, PutGrowsKeeps
<1>5. ASSUME NEW b \in Buf, NEW n \in PutLen, Write2fd(b, n) PROVE IInv'
  BY <1>5, Write2fdKeeps
<1>6. ASSUME NEW b \in Buf, NEW n \in PutLen, Pop(b, n) PROVE IInv'
  BY <1>6, PopKeeps
<1>7. ASSUME NEW b \in Buf, Swap(b) PROVE IInv'
  BY <1>7, SwapKeeps
<1>8. ASSUME NEW b \in Buf, Clear(b) PROVE IInv'
  BY <1>8, ClearKeeps
<1>9. ASSUME NEW b \in Buf, Adjust(b) PROVE IInv'
  BY <1>9, AdjustKeeps
<1> QED  BY <1>1, <1>2, <1>3, <1>4, <1>5, <1>6, <1>7, <1>8, <1>9 DEF Next

(* The pool and the buffers keep their invariant. *)
THEOREM PoolInvariant == Spec => []IInv
BY InitInvariant, NextInvariant, PTL DEF Spec

-----------------------------------------------------------------------------
(* The properties *)

LEMMA CardinalityOne ==
  ASSUME NEW S, NEW x \in S, \A y \in S : y = x
  PROVE  Cardinality(S) = 1
<1>1. S = {x}
  OBVIOUS
<1> QED  BY <1>1, FS_Singleton

LEMMA CardinalityZero ==
  ASSUME NEW S, \A y \in S : FALSE
  PROVE  Cardinality(S) = 0
<1>1. S = {}
  OBVIOUS
<1> QED  BY <1>1, FS_EmptySet

(* A free list is not longer than the table of the pieces. *)
LEMMA FreeIsShort ==
  ASSUME NEW m \in MemType, NEW used, Kept(m, used), NEW c \in Class
  PROVE  Len(m.free[c]) <= Len(m.io)
<1>1. PICK n \in Nat, l \in Nat : n = Len(m.free[c]) /\ l = Len(m.io)
  BY DEF MemType
<1> DEFINE f == [k \in 1..n |-> m.free[c][k]]
<1>2. f \in [1..n -> 1..l]
  BY <1>1 DEF Kept, FreeClean
<1>3. \A j \in 1..n, k \in 1..n : f[j] = f[k] => j = k
  BY <1>1 DEF Kept, FreeOnce
<1>4. f \in Injection(1..n, 1..l)
  <2>1. DOMAIN f = 1..n
    OBVIOUS
  <2> HIDE DEF f
  <2> QED  BY ONLY <1>2, <1>3, <2>1 DEF Injection, IsInjective
<1>5. /\ IsFiniteSet(1..n) /\ Cardinality(1..n) = n
      /\ IsFiniteSet(1..l) /\ Cardinality(1..l) = l
  <2>1. /\ IsFiniteSet(1..n) /\ Cardinality(1..n) = IF 1 > n THEN 0 ELSE n - 1 + 1
        /\ IsFiniteSet(1..l) /\ Cardinality(1..l) = IF 1 > l THEN 0 ELSE l - 1 + 1
    BY FS_Interval
  <2> QED  BY ONLY <2>1, n \in Nat, l \in Nat
<1> HIDE DEF f
<1> QED  BY ONLY <1>1, <1>4, <1>5, FS_Injection

(* Each piece is in one free list, once, or in one buffer, or on its way   *)
(* to one.                                                                 *)
LEMMA PiecesHaveOnePlace == IInv => OnePlace
<1> SUFFICES ASSUME IInv PROVE OnePlace
  OBVIOUS
<1>1. /\ mem \in MemType /\ Kept(mem, Used) /\ Owners /\ Null \notin Nat
      /\ mem.free \in [Class -> Seq(Nat)]
      /\ buf \in [Buf -> Nat \cup {Null}] /\ new_buf \in [Buf -> Nat \cup {Null}]
  BY PoolAssumption DEF IInv, TypeOK, MemType
<1>2. PICK n \in Nat : n = Len(mem.io) /\ DOMAIN mem.io = 1..n
  BY <1>1 DEF MemType
<1>3. \A c \in Class : Len(mem.free[c]) \in Nat
  BY <1>1
<1>4. ASSUME NEW c \in Class, NEW k \in 1..n, k <= Len(mem.free[c])
      PROVE  /\ mem.io[mem.free[c][k]] = NewIoBuf(c)
             /\ mem.free[c][k] \in 1..n /\ mem.free[c][k] \notin Used
  <2>1. k \in 1..Len(mem.free[c])
    BY <1>3, <1>4
  <2> QED  BY <1>1, <1>2, <2>1 DEF Kept, FreeClean
<1>5. ASSUME NEW i \in 1..n
      PROVE    Cardinality({p \in FreePlaces : mem.free[p[1]][p[2]] = i})
             + Cardinality({b \in InUse : buf[b] = i})
             + Cardinality({b \in Coming : new_buf[b] = i}) = 1
  <2> DEFINE F == {p \in FreePlaces : mem.free[p[1]][p[2]] = i}
             B == {b \in InUse : buf[b] = i}
             C == {b \in Coming : new_buf[b] = i}
  <2>1. i \in Nat /\ i # Null
    BY <1>1
  <2>2. ASSUME i \in Used PROVE Cardinality(F) = 0
    <3>1. \A p \in F : FALSE
      BY <1>2, <1>4, <2>2 DEF FreePlaces
    <3> HIDE DEF F
    <3> QED  BY <3>1, CardinalityZero
  <2>3. CASE \E b \in Buf : buf[b] = i
    <3>1. PICK b \in Buf : buf[b] = i
      BY <2>3
    <3>2. Cardinality(F) = 0
      BY <2>1, <2>2, <3>1 DEF Used
    <3>3. b \in B /\ \A d \in B : d = b
      BY <1>1, <2>1, <3>1 DEF InUse, Owners
    <3>4. \A d \in C : FALSE
      BY <1>1, <2>1, <3>1 DEF Coming, Owners
    <3> HIDE DEF B, C, F
    <3>5. Cardinality(B) = 1 /\ Cardinality(C) = 0
      BY <3>3, <3>4, CardinalityOne, CardinalityZero
    <3> QED  BY <3>2, <3>5 DEF B, C, F
  <2>4. CASE (~ \E b \in Buf : buf[b] = i) /\ \E b \in Buf : new_buf[b] = i
    <3>1. PICK b \in Buf : new_buf[b] = i
      BY <2>4
    <3>2. Cardinality(F) = 0
      BY <2>1, <2>2, <3>1 DEF Used
    <3>3. b \in C /\ \A d \in C : d = b
      BY <1>1, <2>1, <3>1 DEF Coming, Owners
    <3>4. \A d \in B : FALSE
      BY <2>4 DEF InUse
    <3> HIDE DEF B, C, F
    <3>5. Cardinality(C) = 1 /\ Cardinality(B) = 0
      BY <3>3, <3>4, CardinalityOne, CardinalityZero
    <3> QED  BY <3>2, <3>5 DEF B, C, F
  <2>5. CASE ~ \E b \in Buf : buf[b] = i \/ new_buf[b] = i
    <3> DEFINE c == mem.io[i].capacity
    <3>1. i \notin Used
      BY <2>5 DEF Used
    <3>2. c \in Class
      BY <1>1, <1>2, PieceIs
    <3>3. PICK k \in 1..Len(mem.free[c]) : mem.free[c][k] = i
      BY <1>1, <1>2, <3>1 DEF Kept, NoneLost
    <3> HIDE DEF c
    <3>4. k \in 1..n /\ k <= Len(mem.free[c])
      <4>1. Len(mem.free[c]) <= n
        BY <1>1, <1>2, <3>2, FreeIsShort
      <4> QED  BY <1>3, <3>2, <4>1
    <3>5. <<c, k>> \in F
      BY <1>2, <3>2, <3>3, <3>4 DEF FreePlaces
    <3>6. ASSUME NEW p \in F PROVE p = <<c, k>>
      <4>1. PICK d \in Class, j \in 1..n : p = <<d, j>>
        BY <1>2 DEF FreePlaces
      <4>2. j <= Len(mem.free[d]) /\ mem.free[d][j] = i
        BY <4>1 DEF FreePlaces
      <4>3. mem.io[i] = NewIoBuf(d) /\ mem.io[i] = NewIoBuf(c)
        BY <1>4, <3>2, <3>3, <3>4, <4>2
      <4>4. d = c
        BY <4>3 DEF NewIoBuf
      <4>5. j \in 1..Len(mem.free[c])
        BY <1>3, <3>2, <4>2, <4>4
      <4>6. j = k
        BY <1>1, <3>2, <3>3, <4>2, <4>4, <4>5 DEF Kept, FreeOnce
      <4> QED  BY <4>1, <4>4, <4>6
    <3>7. (\A d \in B : FALSE) /\ \A d \in C : FALSE
      BY <2>5 DEF InUse, Coming
    <3> HIDE DEF B, C, F
    <3>8. Cardinality(F) = 1
      <4>1. PICK x : x = <<c, k>>
        OBVIOUS
      <4> QED  BY <3>5, <3>6, <4>1, CardinalityOne
    <3>9. Cardinality(B) = 0 /\ Cardinality(C) = 0
      BY <3>7, CardinalityZero
    <3> QED  BY <3>8, <3>9 DEF B, C, F
  <2> QED  BY <2>3, <2>4, <2>5
<1> QED  BY <1>2, <1>4, <1>5 DEF OnePlace

(* What a buffer holds is what came and was not taken. *)
LEMMA BuffersHold == IInv => HoldsWhatCame
<1> SUFFICES ASSUME IInv, NEW b \in InUse \ beyond, ~crashed
             PROVE  /\ mem.io[buf[b]].data = [k \in 1..(came[b] - gone[b]) |-> gone[b] + k]
                    /\ Len(mem.io[buf[b]].data) <= mem.io[buf[b]].capacity
  BY DEF HoldsWhatCame
<1>1. b \in Buf /\ buf[b] # Null /\ Whole(b)
  BY DEF InUse, Whole
<1>2. gone[b] \in Nat /\ came[b] \in Nat /\ mem.io[buf[b]].capacity \in Nat
  BY <1>1, BufferIs, PieceIs
<1>3. HasBytes(mem, buf[b], gone[b], came[b], 0)
  BY <1>1, BufferIs DEF Contents
<1>4. mem.io[buf[b]].data = Span(gone[b], came[b]) /\ gone[b] <= came[b]
  BY <1>3 DEF HasBytes
<1>5. Len(mem.io[buf[b]].data) <= mem.io[buf[b]].capacity
  <2>1. Len(Span(gone[b], came[b])) = came[b] - gone[b]
    BY <1>2, <1>4, SpanIs
  <2>2. (came[b] - gone[b]) + 0 <= mem.io[buf[b]].capacity
    BY <1>3 DEF HasBytes
  <2>3. (came[b] - gone[b]) + 0 = came[b] - gone[b]
    BY <1>2
  <2> QED  BY <1>4, <2>1, <2>2, <2>3
<1> QED  BY <1>4, <1>5 DEF Span

(* Each piece of memory is in one free list, once, or in one buffer, or on *)
(* its way to one: no two buffers ever share one, and none is lost         *)
(* (buf_pool.cpp:15-68, reactor_buf.cpp:71-79, 150-158).                   *)
THEOREM EveryPieceHasOnePlace == Spec => []OnePlace
BY PoolInvariant, PiecesHaveOnePlace, PTL

(* _curr_cap is the memory that was made, and within the limit             *)
(* (buf_pool.cpp:27-43, 93-118).                                           *)
THEOREM TheAccountIsRight == Spec => []CapacityCounted
<1>1. IInv => CapacityCounted
  BY DEF IInv, Accounted, CapacityCounted
<1> QED  BY <1>1, PoolInvariant, PTL

(* A buffer that never outgrew the largest class holds the bytes that came *)
(* and were not taken, in order (buf_pool.cpp:121-153, io_buf.cpp:85-98).  *)
THEOREM BuffersHoldWhatCame == Spec => []HoldsWhatCame
BY PoolInvariant, BuffersHold, PTL

(* The data start at the head of the piece whenever more are put there, as *)
(* readfd and send_data assert (reactor_buf.cpp:67, 146).                  *)
THEOREM DataStartAtHead == Spec => []DataAtHead
<1>1. IInv => DataAtHead
  <2> SUFFICES ASSUME IInv, NEW b \in InUse \ parsing PROVE mem.io[buf[b]].head = 0
    BY DEF DataAtHead
  <2>1. b \in Buf /\ buf[b] # Null /\ b \notin parsing
    BY DEF InUse
  <2> QED  BY <2>1, BufferIs DEF Contents
<1> QED  BY <1>1, PoolInvariant, PTL
=============================================================================
