------------------------- MODULE LoadBalance_proofs -------------------------
(***************************************************************************)
(* The safety properties of LoadBalance for every set of hosts and every   *)
(* configuration, and that it implements HostPool, from what the list      *)
(* operators do to every list.                                             *)
(***************************************************************************)
EXTENDS LoadBalance, FiniteSetTheorems, SequenceTheorems, WellFoundedInduction, TLAPS

-----------------------------------------------------------------------------
(* What the operators of Lists return, for every list. *)

IsAscending(p, K) ==
  /\ p \in [1..Cardinality(K) -> K]
  /\ \A k \in K : \E i \in DOMAIN p : p[i] = k
  /\ \A i, j \in DOMAIN p : i < j => p[i] < p[j]

LEMMA FinitePositions ==
  ASSUME NEW n \in Nat, NEW K \in SUBSET (1..n)
  PROVE  IsFiniteSet(K) /\ Cardinality(K) \in Nat
<1>1. IsFiniteSet(1..n)
  BY FS_Interval
<1>2. IsFiniteSet(K)
  BY <1>1, FS_Subset
<1> QED BY <1>2, FS_CardinalityType

(* Taking one position out of a set of positions keeps them enumerable in  *)
(* increasing order: the step of the induction below.                      *)
LEMMA AscendingDrop ==
  ASSUME NEW n \in Nat, NEW K \in SUBSET (1..n), NEW x \in (1..n) \ K,
         NEW q, IsAscending(q, K \cup {x})
  PROVE  \E p : IsAscending(p, K)
<1> DEFINE c == Cardinality(K)
<1>1. IsFiniteSet(K) /\ c \in Nat
  BY FinitePositions
<1>2. Cardinality(K \cup {x}) = c + 1
  BY <1>1, FS_AddElement
<1>3. /\ q \in [1..c+1 -> K \cup {x}]
      /\ \A k \in K \cup {x} : \E i \in 1..c+1 : q[i] = k
      /\ \A i, j \in 1..c+1 : i < j => q[i] < q[j]
  BY <1>2 DEF IsAscending
<1>4. PICK d \in 1..c+1 : q[d] = x
  BY <1>3
<1> DEFINE p == [i \in 1..c |-> IF i < d THEN q[i] ELSE q[i+1]]
<1> HIDE DEF c
<1>5. \A i \in 1..c+1 : i # d => q[i] \in K
  <2> TAKE i \in 1..c+1
  <2> HAVE i # d
  <2>1. q[i] \in Int /\ q[d] \in Int
    <3>1. K \cup {x} \subseteq Int
      OBVIOUS
    <3> QED BY <1>3, <3>1
  <2>2. i < d \/ d < i
    BY <1>1
  <2> QED BY <1>3, <1>4, <2>1, <2>2
<1>6. p \in [1..c -> K]
  BY <1>1, <1>4, <1>5
<1>7. \A k \in K : \E i \in 1..c : p[i] = k
  <2> TAKE k \in K
  <2>1. PICK j \in 1..c+1 : q[j] = k
    BY <1>3
  <2>2. j # d
    BY <2>1, <1>4
  <2>3. CASE j < d
    BY <2>1, <2>3, <1>1
  <2>4. CASE j > d
    <3>1. j - 1 \in 1..c /\ p[j-1] = q[j]
      BY <2>4, <1>1
    <3> QED BY <3>1, <2>1
  <2> QED BY <2>2, <2>3, <2>4, <1>1
<1>8. \A i, j \in 1..c : i < j => p[i] < p[j]
  <2> TAKE i, j \in 1..c
  <2> HAVE i < j
  <2>1. \E a, b \in 1..c+1 : p[i] = q[a] /\ p[j] = q[b] /\ a < b
    <3>1. CASE j < d
      BY <3>1, <1>1
    <3>2. CASE i < d /\ ~(j < d)
      <4>1. p[i] = q[i] /\ p[j] = q[j+1] /\ i \in 1..c+1 /\ j+1 \in 1..c+1 /\ i < j+1
        BY <3>2, <1>1
      <4> QED BY <4>1
    <3>3. CASE ~(i < d) /\ ~(j < d)
      <4>1. p[i] = q[i+1] /\ p[j] = q[j+1] /\ i+1 \in 1..c+1 /\ j+1 \in 1..c+1 /\ i+1 < j+1
        BY <3>3, <1>1
      <4> QED BY <4>1
    <3> QED BY <3>1, <3>2, <3>3, <1>1
  <2> QED BY <2>1, <1>3
<1>9. IsAscending(p, K)
  BY <1>6, <1>7, <1>8 DEF IsAscending, c
<1> QED BY <1>9

(* Every set of positions of a list has an increasing enumeration, by      *)
(* well-founded induction on the positions left out.                       *)
LEMMA AscendingExists ==
  ASSUME NEW n \in Nat, NEW K \in SUBSET (1..n)
  PROVE  IsAscending(Ascending(K), K)
<1> DEFINE Bad == {G \in SUBSET (1..n) : ~ \E p : IsAscending(p, (1..n) \ G)}
<1>1. ASSUME Bad # {} PROVE FALSE
  <2>1. Bad \subseteq FiniteSubsetsOf(1..n)
    BY FS_FiniteSubsetsOfFinite, FS_Interval
  <2>2. PICK G \in Bad : \A H \in Bad : <<H, G>> \notin StrictSubsetOrdering(1..n)
    BY <1>1, <2>1, WFMin, FS_StrictSubsetOrderingWellFounded
  <2>3. G # {}
    <3> DEFINE id == [i \in 1..n |-> i]
    <3>1. Cardinality(1..n) = n
      BY FS_Interval
    <3>2. IsAscending(id, 1..n)
      BY <3>1 DEF IsAscending
    <3>3. (1..n) \ {} = 1..n
      OBVIOUS
    <3> QED BY <2>2, <3>2, <3>3
  <2>4. PICK x \in G : TRUE
    BY <2>3
  <2>5. G \ {x} \notin Bad
    BY <2>2, <2>4 DEF StrictSubsetOrdering
  <2>6. PICK q : IsAscending(q, (1..n) \ (G \ {x}))
    BY <2>2, <2>5
  <2>7. (1..n) \ (G \ {x}) = ((1..n) \ G) \cup {x}
    BY <2>2, <2>4
  <2>8. x \in (1..n) \ ((1..n) \ G)
    BY <2>2, <2>4
  <2>9. IsAscending(q, ((1..n) \ G) \cup {x})
    BY <2>6, <2>7
  <2>10. \E p : IsAscending(p, (1..n) \ G)
    BY <2>8, <2>9, AscendingDrop
  <2> QED BY <2>2, <2>10
<1>2. (1..n) \ ((1..n) \ K) = K
  OBVIOUS
<1>3. (1..n) \ K \notin Bad
  BY <1>1
<1>4. \E p : IsAscending(p, K)
  BY <1>2, <1>3
<1> QED BY <1>4 DEF IsAscending, Ascending

(* Without is std::list::remove: what is left are the other elements, and  *)
(* a list without duplicates stays one.                                    *)
LEMMA WithoutProperties ==
  ASSUME NEW S, NEW list \in Seq(S), NEW gone
  PROVE  /\ Without(list, gone) \in Seq(S)
         /\ Elements(Without(list, gone)) = Elements(list) \ gone
         /\ Distinct(list) => Distinct(Without(list, gone))
<1> DEFINE kept == {i \in DOMAIN list : list[i] \notin gone}
           c    == Cardinality(kept)
           pos  == Ascending(kept)
           w    == Without(list, gone)
<1>1. list \in [1..Len(list) -> S] /\ Len(list) \in Nat /\ DOMAIN list = 1..Len(list)
  BY LenProperties
<1>2. kept \in SUBSET (1..Len(list))
  BY <1>1
<1>3. c \in Nat
  BY <1>1, <1>2, FinitePositions
<1>4. /\ pos \in [1..c -> kept]
      /\ \A k \in kept : \E i \in 1..c : pos[i] = k
      /\ \A i, j \in 1..c : i < j => pos[i] < pos[j]
  BY <1>1, <1>2, AscendingExists DEF IsAscending
<1>5. w = [i \in 1..c |-> list[pos[i]]]
  BY DEF Without
<1> HIDE DEF c, pos, w
<1>6. w \in [1..c -> S]
  BY <1>1, <1>2, <1>4, <1>5
<1>7. w \in Seq(S)
  BY <1>3, <1>6, SeqDef
<1>8. Elements(w) = Elements(list) \ gone
  BY <1>1, <1>4, <1>5 DEF Elements
<1>9. ASSUME Distinct(list), NEW i \in 1..c, NEW j \in 1..c, w[i] = w[j]
      PROVE  i = j
  <2>1. list[pos[i]] = list[pos[j]] /\ pos[i] \in DOMAIN list /\ pos[j] \in DOMAIN list
    BY <1>4, <1>5, <1>9
  <2>2. pos[i] = pos[j]
    BY <2>1, <1>9 DEF Distinct
  <2>3. pos[i] \in Int /\ i \in Int /\ j \in Int
    BY <1>2, <1>3, <1>4
  <2> QED BY <1>4, <2>2, <2>3
<1>10. Distinct(list) => Distinct(w)
  BY <1>5, <1>9 DEF Distinct
<1> QED BY <1>7, <1>8, <1>10 DEF w

(* push_back of an element that is not on the list. *)
LEMMA PushBackProperties ==
  ASSUME NEW S, NEW list \in Seq(S), NEW e \in S
  PROVE  /\ Append(list, e) \in Seq(S)
         /\ Elements(Append(list, e)) = Elements(list) \cup {e}
         /\ Distinct(list) /\ e \notin Elements(list) => Distinct(Append(list, e))
<1> DEFINE n == Len(list)
           w == Append(list, e)
<1>1. list \in [1..n -> S] /\ n \in Nat /\ DOMAIN list = 1..n
  BY LenProperties
<1>2. /\ w \in Seq(S) /\ DOMAIN w = 1..n+1
      /\ \A i \in 1..n : w[i] = list[i]
      /\ w[n+1] = e
  BY AppendProperties, LenProperties
<1> HIDE DEF n, w
<1>3. \A i \in 1..n+1 : i \in 1..n \/ i = n+1
  BY <1>1
<1>4. Elements(w) = Elements(list) \cup {e}
  BY <1>1, <1>2, <1>3 DEF Elements
<1>5. ASSUME Distinct(list), e \notin Elements(list) PROVE Distinct(w)
  BY <1>1, <1>2, <1>3, <1>5 DEF Distinct, Elements
<1> QED BY <1>2, <1>4, <1>5 DEF w

(* Taking the front to the tail changes the order only. *)
LEMMA RotateProperties ==
  ASSUME NEW S, NEW list \in Seq(S), list # <<>>
  PROVE  /\ Rotate(list) \in Seq(S)
         /\ Elements(Rotate(list)) = Elements(list)
         /\ Distinct(list) => Distinct(Rotate(list))
         /\ Head(list) \in Elements(list)
<1> DEFINE n == Len(list)
           t == Tail(list)
<1>1. list \in [1..n -> S] /\ n \in Nat \ {0} /\ DOMAIN list = 1..n
  BY LenProperties, EmptySeq
<1>2. /\ t \in Seq(S) /\ Head(list) = list[1] /\ Len(t) = n-1
      /\ \A i \in 1..n-1 : t[i] = list[i+1]
  BY HeadTailProperties
<1>3. DOMAIN t = 1..n-1
  BY <1>2, LenProperties
<1> HIDE DEF n, t
<1>4. list[1] \in S /\ list[1] \in Elements(list)
  BY <1>1 DEF Elements
<1>5. Elements(t) \cup {list[1]} = Elements(list)
  <2>1. ASSUME NEW i \in 1..n PROVE list[i] \in Elements(t) \cup {list[1]}
    <3>1. i = 1 \/ (i-1 \in 1..n-1 /\ t[i-1] = list[i])
      BY <1>1, <1>2
    <3> QED BY <3>1, <1>3 DEF Elements
  <2>2. ASSUME NEW i \in 1..n-1 PROVE t[i] \in Elements(list)
    <3>1. i+1 \in 1..n /\ t[i] = list[i+1]
      BY <1>1, <1>2
    <3> QED BY <3>1, <1>1 DEF Elements
  <2> QED BY <1>1, <1>3, <1>4, <2>1, <2>2 DEF Elements
<1>6. ASSUME Distinct(list) PROVE Distinct(t) /\ list[1] \notin Elements(t)
  <2>1. ASSUME NEW i \in 1..n-1, NEW j \in 1..n-1, t[i] = t[j] PROVE i = j
    <3>1. i+1 \in 1..n /\ j+1 \in 1..n /\ list[i+1] = list[j+1]
      BY <1>1, <1>2, <2>1
    <3> QED BY <3>1, <1>1, <1>6 DEF Distinct
  <2>2. ASSUME NEW i \in 1..n-1 PROVE t[i] # list[1]
    <3>1. i+1 \in 1..n /\ 1 \in 1..n /\ i+1 # 1 /\ t[i] = list[i+1]
      BY <1>1, <1>2
    <3> QED BY <3>1, <1>1, <1>6 DEF Distinct
  <2> QED BY <1>3, <2>1, <2>2 DEF Distinct, Elements
<1>7. Rotate(list) = Append(t, list[1])
  BY <1>2 DEF Rotate, t
<1>8. /\ Append(t, list[1]) \in Seq(S)
      /\ Elements(Append(t, list[1])) = Elements(t) \cup {list[1]}
      /\ Distinct(t) /\ list[1] \notin Elements(t) => Distinct(Append(t, list[1]))
  BY <1>2, <1>4, PushBackProperties
<1> QED BY <1>2, <1>4, <1>5, <1>6, <1>7, <1>8

(* Appending, one after the other, elements that are not on the list. *)
LEMMA AppendOrderProperties ==
  ASSUME NEW S, NEW list \in Seq(S), NEW T \in SUBSET S, IsFiniteSet(T),
         NEW added \in Orders(T)
  PROVE  /\ list \o added \in Seq(S)
         /\ Elements(list \o added) = Elements(list) \cup T
         /\ Distinct(list) /\ Elements(list) \cap T = {} => Distinct(list \o added)
<1> DEFINE n == Len(list)
           c == Cardinality(T)
           w == list \o added
<1>1. list \in [1..n -> S] /\ n \in Nat /\ DOMAIN list = 1..n
  BY LenProperties
<1>2. c \in Nat
  BY FS_CardinalityType
<1>3. /\ added \in [1..c -> T] /\ DOMAIN added = 1..c
      /\ \A e \in T : \E i \in 1..c : added[i] = e
      /\ Distinct(added)
  BY DEF Orders
<1>4. added \in [1..c -> S]
  BY <1>3
<1>5. added \in Seq(S) /\ Len(added) = c
  BY <1>2, <1>3, <1>4, SeqDef, LenProperties
<1>6. /\ w \in Seq(S) /\ Len(w) = n + c
      /\ \A i \in 1..n+c : w[i] = IF i <= n THEN list[i] ELSE added[i-n]
  BY <1>5, ConcatProperties
<1>7. DOMAIN w = 1..n+c
  BY <1>6, LenProperties
<1> HIDE DEF n, c, w
<1>8. ASSUME NEW i \in 1..n+c
      PROVE  \/ i \in 1..n /\ w[i] = list[i]
             \/ i-n \in 1..c /\ w[i] = added[i-n]
  BY <1>1, <1>2, <1>6
<1>9. \A i \in 1..n : i \in 1..n+c /\ w[i] = list[i]
  BY <1>1, <1>2, <1>6
<1>10. ASSUME NEW i \in 1..c PROVE i+n \in 1..n+c /\ w[i+n] = added[i]
  <2>1. i+n \in 1..n+c /\ ~(i+n <= n) /\ (i+n)-n = i
    BY <1>1, <1>2
  <2> QED BY <2>1, <1>6
<1>11. Elements(w) = Elements(list) \cup T
  <2>1. Elements(w) \subseteq Elements(list) \cup T
    BY <1>1, <1>3, <1>7, <1>8 DEF Elements
  <2>2. Elements(list) \subseteq Elements(w)
    BY <1>1, <1>7, <1>9 DEF Elements
  <2>3. T \subseteq Elements(w)
    BY <1>3, <1>7, <1>10 DEF Elements
  <2> QED BY <2>1, <2>2, <2>3
<1>12. ASSUME Distinct(list), Elements(list) \cap T = {},
              NEW i \in 1..n+c, NEW j \in 1..n+c, w[i] = w[j]
       PROVE  i = j
  <2>1. CASE i \in 1..n /\ w[i] = list[i] /\ j \in 1..n /\ w[j] = list[j]
    BY <1>1, <1>12, <2>1 DEF Distinct
  <2>2. CASE i-n \in 1..c /\ w[i] = added[i-n] /\ j-n \in 1..c /\ w[j] = added[j-n]
    <3>1. i-n = j-n
      BY <1>3, <1>12, <2>2 DEF Distinct
    <3> QED BY <3>1, <1>1, <1>2
  <2>3. ASSUME NEW a \in 1..n, NEW b \in 1..c, list[a] = added[b] PROVE FALSE
    BY <1>1, <1>3, <1>12, <2>3 DEF Elements
  <2> QED BY <1>8, <1>12, <2>1, <2>2, <2>3
<1> QED BY <1>6, <1>7, <1>11, <1>12 DEF Distinct, w

-----------------------------------------------------------------------------
(* One host_info *)

LEMMA SetProperties ==
  ASSUME NEW r \in HostInfo
  PROVE  /\ SetIdle(r) \in HostInfo /\ CountsMatch(SetIdle(r))
         /\ SetOverload(r) \in HostInfo /\ CountsMatch(SetOverload(r))
<1> USE ConfigAssumption
<1>1. SetIdle(r) \in HostInfo /\ SetOverload(r) \in HostInfo
  BY DEF SetIdle, SetOverload, HostInfo
<1>2. CountsMatch(SetIdle(r))
  BY DEF SetIdle, HostInfo, CountsMatch
<1>3. CountsMatch(SetOverload(r))
  BY DEF SetOverload, HostInfo, CountsMatch
<1> QED BY <1>1, <1>2, <1>3

(* Which counters a report moves. *)
LEMMA CountedProperties ==
  ASSUME NEW r \in HostInfo, NEW is_succ \in BOOLEAN
  PROVE  LET c == Counted(r, is_succ) IN
         /\ c \in HostInfo
         /\ c.overload = r.overload /\ c.age = r.age
         /\ is_succ  => /\ c.vsucc_cnt = r.vsucc_cnt + 1 /\ c.rsucc_cnt = r.rsucc_cnt + 1
                        /\ c.contin_succ = r.contin_succ + 1 /\ c.contin_err = 0
                        /\ c.verr_cnt = r.verr_cnt /\ c.rerr_cnt = r.rerr_cnt
         /\ ~is_succ => /\ c.verr_cnt = r.verr_cnt + 1 /\ c.rerr_cnt = r.rerr_cnt + 1
                        /\ c.contin_err = r.contin_err + 1 /\ c.contin_succ = 0
                        /\ c.vsucc_cnt = r.vsucc_cnt /\ c.rsucc_cnt = r.rsucc_cnt
<1> DEFINE c == Counted(r, is_succ)
<1>1. /\ r.vsucc_cnt + 1 \in Nat /\ r.rsucc_cnt + 1 \in Nat /\ r.contin_succ + 1 \in Nat
      /\ r.verr_cnt + 1 \in Nat /\ r.rerr_cnt + 1 \in Nat /\ r.contin_err + 1 \in Nat
  BY DEF HostInfo
<1>2. c \in HostInfo
  <2>1. CASE is_succ
    BY <1>1, <2>1, Zenon DEF Counted, HostInfo
  <2>2. CASE ~is_succ
    BY <1>1, <2>2, Zenon DEF Counted, HostInfo
  <2> QED BY <2>1, <2>2
<1>3. CASE is_succ
  <2>1. c = [r EXCEPT !.vsucc_cnt = @ + 1, !.rsucc_cnt = @ + 1,
                      !.contin_succ = @ + 1, !.contin_err = 0]
    BY <1>3 DEF Counted
  <2> HIDE DEF c
  <2>2. c.overload = r.overload /\ c.age = r.age /\ c.vsucc_cnt = r.vsucc_cnt + 1
        /\ c.rsucc_cnt = r.rsucc_cnt + 1 /\ c.contin_succ = r.contin_succ + 1
        /\ c.contin_err = 0 /\ c.verr_cnt = r.verr_cnt /\ c.rerr_cnt = r.rerr_cnt
    BY <2>1 DEF HostInfo
  <2> QED BY <1>2, <1>3, <2>2 DEF c
<1>4. CASE ~is_succ
  <2>1. c = [r EXCEPT !.verr_cnt = @ + 1, !.rerr_cnt = @ + 1,
                      !.contin_err = @ + 1, !.contin_succ = 0]
    BY <1>4 DEF Counted
  <2> HIDE DEF c
  <2>2. c.overload = r.overload /\ c.age = r.age /\ c.verr_cnt = r.verr_cnt + 1
        /\ c.rerr_cnt = r.rerr_cnt + 1 /\ c.contin_err = r.contin_err + 1
        /\ c.contin_succ = 0 /\ c.vsucc_cnt = r.vsucc_cnt /\ c.rsucc_cnt = r.rsucc_cnt
    BY <2>1 DEF HostInfo
  <2> QED BY <1>2, <1>4, <2>2 DEF c
<1> QED BY <1>3, <1>4

LEMMA CountedMatch ==
  ASSUME NEW r \in HostInfo, NEW is_succ \in BOOLEAN, CountsMatch(r)
  PROVE  CountsMatch(Counted(r, is_succ))
<1> DEFINE c == Counted(r, is_succ)
<1>1. /\ c \in HostInfo /\ c.overload = r.overload
      /\ is_succ  => /\ c.vsucc_cnt = r.vsucc_cnt + 1 /\ c.rsucc_cnt = r.rsucc_cnt + 1
                     /\ c.contin_succ = r.contin_succ + 1 /\ c.contin_err = 0
                     /\ c.verr_cnt = r.verr_cnt /\ c.rerr_cnt = r.rerr_cnt
      /\ ~is_succ => /\ c.verr_cnt = r.verr_cnt + 1 /\ c.rerr_cnt = r.rerr_cnt + 1
                     /\ c.contin_err = r.contin_err + 1 /\ c.contin_succ = 0
                     /\ c.vsucc_cnt = r.vsucc_cnt /\ c.rsucc_cnt = r.rsucc_cnt
  BY CountedProperties
<1> HIDE DEF c
<1>2. CountsMatch(c)
  <2>1. CASE is_succ /\ r.overload
    BY <1>1, <2>1, ConfigAssumption DEF HostInfo, CountsMatch
  <2>2. CASE is_succ /\ ~r.overload
    BY <1>1, <2>2, ConfigAssumption DEF HostInfo, CountsMatch
  <2>3. CASE ~is_succ /\ r.overload
    BY <1>1, <2>3, ConfigAssumption DEF HostInfo, CountsMatch
  <2>4. CASE ~is_succ /\ ~r.overload
    BY <1>1, <2>4, ConfigAssumption DEF HostInfo, CountsMatch
  <2> QED BY <2>1, <2>2, <2>3, <2>4
<1> QED BY <1>2 DEF c

(* What report makes of a host_info is one, with consistent counters.      *)
LEMMA ReportedProperties ==
  ASSUME NEW r \in HostInfo, NEW is_succ \in BOOLEAN
  PROVE  /\ Reported(r, is_succ) \in HostInfo
         /\ CountsMatch(r) => CountsMatch(Reported(r, is_succ))
<1> DEFINE c == Counted(r, is_succ)
           j == Judged(c, is_succ)
<1>1. c \in HostInfo
  BY CountedProperties
<1>2. CountsMatch(r) => CountsMatch(c)
  BY CountedMatch
<1> HIDE DEF c
<1>3. j \in HostInfo /\ (CountsMatch(c) => CountsMatch(j))
  BY <1>1, SetProperties DEF Judged
<1> HIDE DEF j
<1>4. TimedOut(j) \in HostInfo /\ (CountsMatch(j) => CountsMatch(TimedOut(j)))
  BY <1>3, SetProperties DEF TimedOut
<1> QED BY <1>2, <1>3, <1>4 DEF Reported, c, j

(* Counting one more on the other side does not reach a rate.              *)
LEMMA RateFalls ==
  ASSUME NEW part \in Nat, NEW other \in Nat, NEW rate \in Nat,
         ~AtRate(part, other, rate)
  PROVE  ~AtRate(part, other + 1, rate)
<1>1. part * 100 < rate * (part + other)
  BY DEF AtRate
<1>2. rate * (part + (other + 1)) = rate * (part + other) + rate
  OBVIOUS
<1>3. rate * (part + other) \in Nat
  OBVIOUS
<1> QED BY <1>1, <1>2, <1>3 DEF AtRate

-----------------------------------------------------------------------------
(* Types and lists *)

Inv == TypeOK /\ ListsPartitionHosts

LEMMA InitInv == Init => Inv
<1> SUFFICES ASSUME Init PROVE Inv
  OBVIOUS
<1>1. TypeOK
  BY ConfigAssumption, EmptySeq
     DEF Init, NoHosts, Hosts, TypeOK, Replies
<1>2. ListsPartitionHosts
  BY DEF Init, NoHosts, Hosts, ListsPartitionHosts, Distinct, Elements
<1> QED BY <1>1, <1>2 DEF Inv

LEMMA UpdateInv ==
  ASSUME Inv, NEW remote \in SUBSET Host, Update(remote)
  PROVE  Inv'
<1> USE DEF Inv
<1> DEFINE gone == Hosts \ remote
           down == {h \in gone : host_map[h].overload}
           up   == {h \in gone : ~host_map[h].overload}
           new  == remote \ Hosts
<1>1. /\ host_map' = [h \in remote |-> IF h \in Hosts THEN host_map[h] ELSE NewHost]
      /\ overload_list' = Without(overload_list, down)
      /\ reply' = NoReply
      /\ access_cnt' = access_cnt
  BY DEF Update
<1>2. PICK added \in Orders(new) : idle_list' = Without(idle_list, gone \ down) \o added
  BY DEF Update
<1>3. gone \ down = up
  BY DEF Hosts, TypeOK
<1>4. NewHost \in HostInfo
  BY ConfigAssumption DEF NewHost, HostInfo
<1>5. Hosts' = remote
  BY <1>1 DEF Hosts
<1>6. host_map' \in [remote -> HostInfo]
  BY <1>1, <1>4 DEF TypeOK
<1>7. /\ overload_list' \in Seq(Host)
      /\ Elements(overload_list') = Elements(overload_list) \ down
      /\ Distinct(overload_list')
  BY <1>1, WithoutProperties DEF TypeOK, ListsPartitionHosts
<1> DEFINE kept == Without(idle_list, up)
<1>8. /\ kept \in Seq(Host)
      /\ Elements(kept) = Elements(idle_list) \ up
      /\ Distinct(kept)
  BY WithoutProperties DEF TypeOK, ListsPartitionHosts
<1>9. IsFiniteSet(new) /\ new \in SUBSET Host
  BY HostAssumption, FS_Subset
<1>10. Elements(kept) \cap new = {}
  BY <1>8 DEF ListsPartitionHosts
<1> HIDE DEF kept, new
<1>11. /\ kept \o added \in Seq(Host)
       /\ Elements(kept \o added) = Elements(kept) \cup new
       /\ Distinct(kept) /\ Elements(kept) \cap new = {} => Distinct(kept \o added)
  BY <1>8, <1>9, AppendOrderProperties
<1>12. idle_list' = kept \o added
  BY <1>2, <1>3 DEF kept
<1>13. TypeOK'
  BY <1>1, <1>5, <1>6, <1>7, <1>11, <1>12 DEF TypeOK, Replies
<1>14. \A h \in remote : host_map'[h].overload <=> h \in Hosts /\ host_map[h].overload
  BY <1>1 DEF NewHost
<1>15. Elements(overload_list') = {h \in remote : host_map'[h].overload}
  BY <1>7, <1>14 DEF ListsPartitionHosts
<1>16. Elements(idle_list') = {h \in remote : ~host_map'[h].overload}
  BY <1>8, <1>11, <1>12, <1>14 DEF ListsPartitionHosts, new
<1> QED BY <1>5, <1>7, <1>8, <1>10, <1>11, <1>12, <1>13, <1>15, <1>16
        DEF ListsPartitionHosts

LEMMA ChoiceInv ==
  ASSUME Inv, ChoiceOneHost
  PROVE  Inv'
<1> USE DEF Inv
<1>1. idle_list # <<>> => /\ Rotate(idle_list) \in Seq(Host)
                         /\ Elements(Rotate(idle_list)) = Elements(idle_list)
                         /\ Distinct(Rotate(idle_list))
                         /\ Head(idle_list) \in Elements(idle_list)
  BY RotateProperties DEF TypeOK, ListsPartitionHosts
<1>2. overload_list # <<>> => /\ Rotate(overload_list) \in Seq(Host)
                             /\ Elements(Rotate(overload_list)) = Elements(overload_list)
                             /\ Distinct(Rotate(overload_list))
                             /\ Head(overload_list) \in Elements(overload_list)
  BY RotateProperties DEF TypeOK, ListsPartitionHosts
<1>3. probe_num \in Nat
  BY ConfigAssumption
<1>4. CASE ChoiceNone
  BY <1>4 DEF ChoiceNone, TypeOK, ListsPartitionHosts, Hosts, Replies
<1>5. CASE ChoiceOverload
  BY <1>3, <1>5 DEF ChoiceOverload, TypeOK, ListsPartitionHosts, Hosts, Replies
<1>6. CASE ChoiceProbe
  <2>1. overload_list # <<>>
    <3>1. idle_list = <<>> => Elements(idle_list) = {}
      BY DEF Elements
    <3>2. overload_list = <<>> => Elements(overload_list) = {}
      BY DEF Elements
    <3>3. ~(Elements(idle_list) = {} /\ Elements(overload_list) = {})
      BY <1>6 DEF ChoiceProbe, ListsPartitionHosts
    <3> QED BY <1>6, <3>1, <3>2, <3>3 DEF ChoiceProbe
  <2>2. Head(overload_list) \in Host
    BY <1>2, <2>1 DEF ListsPartitionHosts, TypeOK
  <2>3. TypeOK'
    BY <1>2, <1>3, <1>6, <2>1, <2>2 DEF ChoiceProbe, TypeOK, Hosts, Replies
  <2>4. ListsPartitionHosts'
    BY <1>2, <1>6, <2>1 DEF ChoiceProbe, ListsPartitionHosts, Hosts
  <2> QED BY <2>3, <2>4
<1>7. CASE ChoiceIdle
  <2>1. Head(idle_list) \in Host
    BY <1>1, <1>7 DEF ChoiceIdle, ListsPartitionHosts, TypeOK
  <2>2. access_cnt' \in 0..probe_num
    BY <1>3, <1>7 DEF ChoiceIdle, TypeOK
  <2>3. TypeOK'
    BY <1>1, <1>7, <2>1, <2>2 DEF ChoiceIdle, TypeOK, Hosts, Replies
  <2>4. ListsPartitionHosts'
    BY <1>1, <1>7 DEF ChoiceIdle, ListsPartitionHosts, Hosts
  <2> QED BY <2>3, <2>4
<1> QED BY <1>4, <1>5, <1>6, <1>7 DEF ChoiceOneHost

LEMMA ReportInv ==
  ASSUME Inv, NEW h \in Host, NEW is_succ \in BOOLEAN, Report(h, is_succ)
  PROVE  Inv'
<1> USE DEF Inv
<1> DEFINE r == host_map[h]
           s == Reported(r, is_succ)
<1>1. h \in Hosts /\ r \in HostInfo
  BY DEF Report, TypeOK
<1>2. s \in HostInfo
  BY <1>1, ReportedProperties
<1>3. /\ host_map' = [host_map EXCEPT ![h] = s]
      /\ reply' = NoReply
      /\ access_cnt' = access_cnt
  BY DEF Report
<1> HIDE DEF s
<1>4. Hosts' = Hosts /\ host_map' \in [Hosts -> HostInfo]
  BY <1>1, <1>2, <1>3 DEF TypeOK, Hosts
<1>5. \A g \in Hosts : host_map'[g] = IF g = h THEN s ELSE host_map[g]
  BY <1>3 DEF TypeOK
<1>6. r.overload \in BOOLEAN /\ s.overload \in BOOLEAN
  BY <1>1, <1>2 DEF HostInfo
<1>7. CASE /\ s.overload = r.overload
           /\ UNCHANGED <<idle_list, overload_list>>
  <2>1. TypeOK'
    BY <1>3, <1>4, <1>7 DEF TypeOK, Replies
  <2>2. \A g \in Hosts : host_map'[g].overload = host_map[g].overload
    BY <1>5, <1>7
  <2>3. ListsPartitionHosts'
    BY <1>4, <1>7, <2>2 DEF ListsPartitionHosts
  <2> QED BY <2>1, <2>3
<1>8. CASE /\ s.overload /\ ~r.overload
           /\ idle_list' = Without(idle_list, {h})
           /\ overload_list' = Append(overload_list, h)
  <2>1. /\ idle_list' \in Seq(Host)
        /\ Elements(idle_list') = Elements(idle_list) \ {h}
        /\ Distinct(idle_list')
    BY <1>8, WithoutProperties DEF TypeOK, ListsPartitionHosts
  <2>2. h \notin Elements(overload_list)
    BY <1>8 DEF ListsPartitionHosts
  <2>3. /\ overload_list' \in Seq(Host)
        /\ Elements(overload_list') = Elements(overload_list) \cup {h}
        /\ Distinct(overload_list')
    BY <1>8, <2>2, PushBackProperties DEF TypeOK, ListsPartitionHosts
  <2>4. TypeOK'
    BY <1>3, <1>4, <2>1, <2>3 DEF TypeOK, Replies
  <2>5. \A g \in Hosts : host_map'[g].overload = IF g = h THEN TRUE ELSE host_map[g].overload
    BY <1>5, <1>6, <1>8
  <2>6. Elements(idle_list') = {g \in Hosts' : ~host_map'[g].overload}
    BY <1>1, <1>4, <2>1, <2>3, <2>5 DEF ListsPartitionHosts
  <2>7. Elements(overload_list') = {g \in Hosts' : host_map'[g].overload}
    BY <1>1, <1>4, <2>1, <2>3, <2>5 DEF ListsPartitionHosts
  <2>8. ListsPartitionHosts'
    BY <2>1, <2>3, <2>6, <2>7 DEF ListsPartitionHosts
  <2> QED BY <2>4, <2>8
<1>9. CASE /\ ~s.overload /\ r.overload
           /\ overload_list' = Without(overload_list, {h})
           /\ idle_list' = Append(idle_list, h)
  <2>1. /\ overload_list' \in Seq(Host)
        /\ Elements(overload_list') = Elements(overload_list) \ {h}
        /\ Distinct(overload_list')
    BY <1>9, WithoutProperties DEF TypeOK, ListsPartitionHosts
  <2>2. h \notin Elements(idle_list)
    BY <1>9 DEF ListsPartitionHosts
  <2>3. /\ idle_list' \in Seq(Host)
        /\ Elements(idle_list') = Elements(idle_list) \cup {h}
        /\ Distinct(idle_list')
    BY <1>9, <2>2, PushBackProperties DEF TypeOK, ListsPartitionHosts
  <2>4. TypeOK'
    BY <1>3, <1>4, <2>1, <2>3 DEF TypeOK, Replies
  <2>5. \A g \in Hosts : host_map'[g].overload = IF g = h THEN FALSE ELSE host_map[g].overload
    BY <1>5, <1>6, <1>9
  <2>6. Elements(idle_list') = {g \in Hosts' : ~host_map'[g].overload}
    BY <1>1, <1>4, <2>1, <2>3, <2>5 DEF ListsPartitionHosts
  <2>7. Elements(overload_list') = {g \in Hosts' : host_map'[g].overload}
    BY <1>1, <1>4, <2>1, <2>3, <2>5 DEF ListsPartitionHosts
  <2>8. ListsPartitionHosts'
    BY <2>1, <2>3, <2>6, <2>7 DEF ListsPartitionHosts
  <2> QED BY <2>4, <2>8
<1> QED BY <1>7, <1>8, <1>9 DEF Report, s

LEMMA EraseInv ==
  ASSUME Erase PROVE Inv'
<1>1. TypeOK'
  BY ConfigAssumption, EmptySeq
     DEF Erase, NoHosts, Hosts, TypeOK, Replies
<1>2. ListsPartitionHosts'
  BY DEF Erase, NoHosts, Hosts, ListsPartitionHosts, Distinct, Elements
<1> QED BY <1>1, <1>2 DEF Inv

LEMMA OlderProperties ==
  ASSUME NEW r \in HostInfo
  PROVE  /\ Older(r) \in HostInfo
         /\ \A f \in {"vsucc_cnt", "rsucc_cnt", "contin_succ", "verr_cnt", "rerr_cnt",
                     "contin_err", "overload"} : Older(r)[f] = r[f]
<1>1. (IF r.age < Timeout(r) THEN r.age + 1 ELSE r.age) \in Nat
  BY DEF HostInfo
<1> QED BY <1>1 DEF Older, HostInfo

LEMMA TickInv ==
  ASSUME Inv, Tick PROVE Inv'
<1> USE DEF Inv
<1>1. Hosts' = Hosts
  BY DEF Tick, Hosts
<1>2. \A h \in Hosts : host_map'[h] \in HostInfo /\ host_map'[h].overload = host_map[h].overload
  BY OlderProperties DEF Tick, TypeOK
<1>3. host_map' \in [Hosts -> HostInfo]
  BY <1>2 DEF Tick
<1>4. TypeOK'
  BY <1>1, <1>3 DEF Tick, TypeOK, Replies
<1>5. ListsPartitionHosts'
  BY <1>1, <1>2 DEF Tick, ListsPartitionHosts
<1> QED BY <1>4, <1>5

LEMMA NextInv == Inv /\ [Next]_vars => Inv'
<1> SUFFICES ASSUME Inv, [Next]_vars PROVE Inv'
  OBVIOUS
<1>1. CASE UNCHANGED vars
  BY <1>1 DEF Inv, TypeOK, ListsPartitionHosts, Hosts, vars
<1>2. ASSUME NEW remote \in SUBSET Host \ {{}}, Update(remote) PROVE Inv'
  BY <1>2, UpdateInv
<1>3. CASE ChoiceOneHost
  BY <1>3, ChoiceInv
<1>4. ASSUME NEW h \in Host, NEW is_succ \in BOOLEAN, Report(h, is_succ) PROVE Inv'
  BY <1>4, ReportInv
<1>5. CASE Erase
  BY <1>5, EraseInv
<1>6. CASE Tick
  BY <1>6, TickInv
<1> QED BY <1>1, <1>2, <1>3, <1>4, <1>5, <1>6 DEF Next

(* Types: no operation leaves a variable outside its type, and the         *)
(* progress counter never passes probe_num.                                *)
THEOREM TypeCorrect == Spec => []TypeOK
<1>1. Spec => []Inv
  BY InitInv, NextInv, PTL DEF Spec
<1> QED BY <1>1, PTL DEF Inv

(* The two lists and the overload flags agree, whatever sequence of        *)
(* requests, reports, updates and timeouts a route goes through.           *)
THEOREM ListsPartition == Spec => []ListsPartitionHosts
<1>1. Spec => []Inv
  BY InitInv, NextInv, PTL DEF Spec
<1> QED BY <1>1, PTL DEF Inv
-----------------------------------------------------------------------------
(* Counters *)

(* A host_info that report has dealt with is on the list it belongs to.    *)
LEMMA ReportedVerdict ==
  ASSUME NEW r \in HostInfo, NEW is_succ \in BOOLEAN, VerdictCurrent(r)
  PROVE  VerdictCurrent(Reported(r, is_succ))
<1> DEFINE c == Counted(r, is_succ)
           j == Judged(c, is_succ)
<1>1. ASSUME NEW x \in HostInfo
      PROVE  VerdictCurrent(SetIdle(x)) /\ VerdictCurrent(SetOverload(x))
  <2>1. contin_err_limit \in Nat \ {0} /\ contin_succ_limit \in Nat \ {0}
    BY ConfigAssumption
  <2>2. VerdictCurrent(SetIdle(x))
    BY <2>1 DEF SetIdle, HostInfo, VerdictCurrent
  <2>3. VerdictCurrent(SetOverload(x))
    BY <2>1 DEF SetOverload, HostInfo, VerdictCurrent
  <2> QED BY <2>2, <2>3
<1>2. c \in HostInfo /\ c.overload = r.overload /\ c.overload \in BOOLEAN
  <2>1. c \in HostInfo /\ c.overload = r.overload
    BY CountedProperties
  <2> HIDE DEF c
  <2> QED BY <2>1 DEF HostInfo
<1>3. {err_rate, succ_rate} \subseteq Nat
  BY ConfigAssumption
<1>4. contin_err_limit \in Nat \ {0} /\ contin_succ_limit \in Nat \ {0}
  BY ConfigAssumption
<1>5. /\ is_succ  => /\ c.vsucc_cnt = r.vsucc_cnt + 1 /\ c.rsucc_cnt = r.rsucc_cnt + 1
                     /\ c.verr_cnt = r.verr_cnt /\ c.rerr_cnt = r.rerr_cnt /\ c.contin_err = 0
      /\ ~is_succ => /\ c.verr_cnt = r.verr_cnt + 1 /\ c.rerr_cnt = r.rerr_cnt + 1
                     /\ c.vsucc_cnt = r.vsucc_cnt /\ c.rsucc_cnt = r.rsucc_cnt /\ c.contin_succ = 0
  BY CountedProperties
<1> HIDE DEF c
<1>6. VerdictCurrent(j)
  <2>1. CASE ~c.overload /\ ~is_succ
    <3>1. CASE TooManyErrors(c)
      BY <1>1, <1>2, <2>1, <3>1 DEF Judged
    <3>2. CASE ~TooManyErrors(c)
      <4>1. j = c
        BY <2>1, <3>2 DEF Judged
      <4>2. ~(c.contin_err >= contin_err_limit) /\ ~AtRate(c.verr_cnt, c.vsucc_cnt, err_rate)
        BY <3>2 DEF TooManyErrors
      <4>3. c.contin_err < contin_err_limit
        BY <4>2, <1>2, <1>4 DEF HostInfo
      <4> QED BY <4>1, <4>2, <4>3, <2>1 DEF VerdictCurrent
    <3> QED BY <3>1, <3>2
  <2>2. CASE c.overload /\ is_succ
    <3>1. CASE EnoughSuccess(c)
      BY <1>1, <1>2, <2>2, <3>1 DEF Judged
    <3>2. CASE ~EnoughSuccess(c)
      <4>1. j = c
        BY <2>2, <3>2 DEF Judged
      <4>2. ~(c.contin_succ >= contin_succ_limit) /\ ~AtRate(c.vsucc_cnt, c.verr_cnt, succ_rate)
        BY <3>2 DEF EnoughSuccess
      <4>3. c.contin_succ < contin_succ_limit
        BY <4>2, <1>2, <1>4 DEF HostInfo
      <4> QED BY <4>1, <4>2, <4>3, <2>2 DEF VerdictCurrent
    <3> QED BY <3>1, <3>2
  <2>3. CASE ~c.overload /\ is_succ
    <3>1. j = c
      BY <2>3 DEF Judged
    <3>2. c.contin_err < contin_err_limit
      BY <1>4, <1>5, <2>3
    <3>3. r.rerr_cnt > 0 => ~AtRate(r.verr_cnt, r.vsucc_cnt + 1, err_rate)
      BY <1>2, <1>3, <2>3, RateFalls DEF VerdictCurrent, HostInfo
    <3> QED BY <1>5, <2>3, <3>1, <3>2, <3>3 DEF VerdictCurrent
  <2>4. CASE c.overload /\ ~is_succ
    <3>1. j = c
      BY <2>4 DEF Judged
    <3>2. c.contin_succ < contin_succ_limit
      BY <1>4, <1>5, <2>4
    <3>3. r.rsucc_cnt > 0 => ~AtRate(r.vsucc_cnt, r.verr_cnt + 1, succ_rate)
      BY <1>2, <1>3, <2>4, RateFalls DEF VerdictCurrent, HostInfo
    <3> QED BY <1>5, <2>4, <3>1, <3>2, <3>3 DEF VerdictCurrent
  <2> QED BY <1>2, <2>1, <2>2, <2>3, <2>4
<1>7. j \in HostInfo
  BY <1>2, SetProperties DEF Judged
<1> HIDE DEF j
<1>8. VerdictCurrent(TimedOut(j))
  BY <1>1, <1>6, <1>7 DEF TimedOut
<1> QED BY <1>8 DEF Reported, c, j

Counters == VirtualCountsMatch /\ VerdictsCurrent

LEMMA OlderCounters ==
  ASSUME NEW r \in HostInfo
  PROVE  /\ CountsMatch(r) => CountsMatch(Older(r))
         /\ VerdictCurrent(r) => VerdictCurrent(Older(r))
<1>1. /\ Older(r).vsucc_cnt = r.vsucc_cnt /\ Older(r).rsucc_cnt = r.rsucc_cnt
      /\ Older(r).contin_succ = r.contin_succ /\ Older(r).verr_cnt = r.verr_cnt
      /\ Older(r).rerr_cnt = r.rerr_cnt /\ Older(r).contin_err = r.contin_err
      /\ Older(r).overload = r.overload
  BY OlderProperties
<1> QED BY <1>1 DEF CountsMatch, VerdictCurrent

LEMMA NextCounters == TypeOK /\ Counters /\ [Next]_vars => Counters'
<1> SUFFICES ASSUME TypeOK, Counters, [Next]_vars PROVE Counters'
  OBVIOUS
<1> DEFINE Good(r) == CountsMatch(r) /\ VerdictCurrent(r)
<1>1. \A h \in Hosts : host_map[h] \in HostInfo /\ Good(host_map[h])
  BY DEF TypeOK, Counters, VirtualCountsMatch, VerdictsCurrent
<1>2. SUFFICES \A h \in DOMAIN host_map' : Good(host_map'[h])
  BY DEF Counters, VirtualCountsMatch, VerdictsCurrent, Hosts
<1>3. CASE UNCHANGED host_map
  BY <1>1, <1>3 DEF Hosts
<1>4. ASSUME NEW remote \in SUBSET Host, Update(remote)
      PROVE  \A h \in DOMAIN host_map' : Good(host_map'[h])
  <2>1. host_map' = [h \in remote |-> IF h \in Hosts THEN host_map[h] ELSE NewHost]
    BY <1>4 DEF Update
  <2>2. Good(NewHost)
    BY ConfigAssumption DEF NewHost, CountsMatch, VerdictCurrent
  <2> HIDE DEF Good
  <2> QED BY <1>1, <2>1, <2>2
<1>5. ASSUME NEW g \in Host, NEW is_succ \in BOOLEAN, Report(g, is_succ)
      PROVE  \A h \in DOMAIN host_map' : Good(host_map'[h])
  <2>1. g \in Hosts /\ host_map' = [host_map EXCEPT ![g] = Reported(host_map[g], is_succ)]
    BY <1>5 DEF Report
  <2>2. Good(Reported(host_map[g], is_succ))
    BY <1>1, <2>1, ReportedProperties, ReportedVerdict
  <2> HIDE DEF Good
  <2> QED BY <1>1, <2>1, <2>2 DEF Hosts
<1>6. CASE Erase
  BY <1>6 DEF Erase, NoHosts
<1>7. CASE Tick
  BY <1>1, <1>7, OlderCounters DEF Tick
<1>8. CASE ChoiceOneHost
  BY <1>8, <1>3 DEF ChoiceOneHost, ChoiceNone, ChoiceOverload, ChoiceProbe, ChoiceIdle
<1> QED BY <1>3, <1>4, <1>5, <1>6, <1>7, <1>8 DEF Next, vars

LEMMA InvCounters == Spec => [](Inv /\ Counters)
<1>1. Init => Counters
  BY DEF Init, NoHosts, Hosts, Counters, VirtualCountsMatch, VerdictsCurrent
<1>2. Inv /\ Counters /\ [Next]_vars => Inv' /\ Counters'
  BY NextInv, NextCounters DEF Inv
<1> QED BY <1>1, <1>2, InitInv, PTL DEF Spec

(* The virtual counters never drift from the real ones, in any order of    *)
(* reports, switches and resets.                                           *)
THEOREM CountersMatch == Spec => []VirtualCountsMatch
<1>1. Counters => VirtualCountsMatch
  BY DEF Counters
<1> QED BY <1>1, InvCounters, PTL

(* A host is always on the list that its counters call for.                *)
THEOREM VerdictsAreCurrent == Spec => []VerdictsCurrent
<1>1. Counters => VerdictsCurrent
  BY DEF Counters
<1> QED BY <1>1, InvCounters, PTL
-----------------------------------------------------------------------------
(* Switches *)

LEMMA RateAtFewer ==
  ASSUME NEW part \in Nat, NEW more \in Nat, NEW other \in Nat, NEW rate \in Nat,
         AtRate(part, more, rate), other <= more
  PROVE  AtRate(part, other, rate)
<1>1. part * 100 >= rate * (part + more)
  BY DEF AtRate
<1>2. more - other \in Nat /\ rate * (more - other) \in Nat
  OBVIOUS
<1>3. rate * (part + more) = rate * (part + other) + rate * (more - other)
  OBVIOUS
<1>4. rate * (part + other) \in Nat /\ rate * (part + more) \in Nat
  OBVIOUS
<1> QED BY <1>1, <1>2, <1>3, <1>4 DEF AtRate

LEMMA ReportedEarned ==
  ASSUME NEW r \in HostInfo, NEW is_succ \in BOOLEAN, CountsMatch(r)
  PROVE  SwitchEarned(r, Reported(r, is_succ))
<1> DEFINE c == Counted(r, is_succ)
           j == Judged(c, is_succ)
           s == Reported(r, is_succ)
<1> {err_rate, succ_rate, init_succ_cnt, init_err_cnt} \subseteq Nat
  BY ConfigAssumption
<1> {contin_err_limit, contin_succ_limit, overload_timeout} \subseteq Nat
  BY ConfigAssumption
<1>1. /\ c \in HostInfo /\ c.overload = r.overload /\ c.age = r.age
      /\ is_succ  => c.rsucc_cnt = r.rsucc_cnt + 1
      /\ ~is_succ => c.rerr_cnt = r.rerr_cnt + 1
  BY CountedProperties
<1>2. CountsMatch(c)
  BY CountedMatch
<1>3. \A x \in HostInfo : ~SetIdle(x).overload /\ SetOverload(x).overload
  BY DEF SetIdle, SetOverload, HostInfo
<1>4. s = TimedOut(j)
  BY DEF Reported
<1> HIDE DEF c, s
<1>5. j \in HostInfo
  BY <1>1, SetProperties DEF Judged
<1>6. ASSUME ~r.overload, s.overload
      PROVE  \/ r.rerr_cnt + 1 >= contin_err_limit
             \/ AtRate(r.rerr_cnt + 1, init_succ_cnt, err_rate)
  <2>1. j.overload
    BY <1>3, <1>4, <1>5, <1>6 DEF TimedOut
  <2>2. ~is_succ /\ TooManyErrors(c)
    BY <1>1, <1>3, <1>6, <2>1 DEF Judged
  <2>3. c.rerr_cnt = r.rerr_cnt + 1 /\ c.verr_cnt = c.rerr_cnt
        /\ c.vsucc_cnt = c.rsucc_cnt + init_succ_cnt /\ c.contin_err <= c.rerr_cnt
    BY <1>1, <1>2, <1>6, <2>2 DEF CountsMatch, HostInfo
  <2>4. CASE c.contin_err >= contin_err_limit
    BY <1>1, <2>3, <2>4 DEF HostInfo
  <2>5. CASE AtRate(c.verr_cnt, c.vsucc_cnt, err_rate)
    <3>1. c.verr_cnt \in Nat /\ c.vsucc_cnt \in Nat /\ init_succ_cnt <= c.vsucc_cnt
      BY <1>1, <2>3 DEF HostInfo
    <3>2. AtRate(c.verr_cnt, init_succ_cnt, err_rate)
      BY <2>5, <3>1, RateAtFewer
    <3> QED BY <2>3, <3>2
  <2> QED BY <2>2, <2>4, <2>5 DEF TooManyErrors
<1>7. ASSUME r.overload, ~s.overload
      PROVE  \/ r.rsucc_cnt + 1 >= contin_succ_limit
             \/ AtRate(r.rsucc_cnt + 1, init_err_cnt, succ_rate)
             \/ r.age >= overload_timeout
  <2>1. CASE is_succ /\ EnoughSuccess(c)
    <3>1. c.rsucc_cnt = r.rsucc_cnt + 1 /\ c.vsucc_cnt = c.rsucc_cnt
          /\ c.verr_cnt = c.rerr_cnt + init_err_cnt /\ c.contin_succ <= c.rsucc_cnt
      BY <1>1, <1>2, <1>7, <2>1 DEF CountsMatch, HostInfo
    <3>2. CASE c.contin_succ >= contin_succ_limit
      BY <1>1, <3>1, <3>2 DEF HostInfo
    <3>3. CASE AtRate(c.vsucc_cnt, c.verr_cnt, succ_rate)
      <4>1. c.vsucc_cnt \in Nat /\ c.verr_cnt \in Nat /\ init_err_cnt <= c.verr_cnt
        BY <1>1, <3>1 DEF HostInfo
      <4>2. AtRate(c.vsucc_cnt, init_err_cnt, succ_rate)
        BY <3>3, <4>1, RateAtFewer
      <4> QED BY <3>1, <4>2
    <3> QED BY <2>1, <3>2, <3>3 DEF EnoughSuccess
  <2>2. CASE ~(is_succ /\ EnoughSuccess(c))
    <3>1. j = c
      BY <1>1, <1>7, <2>2 DEF Judged
    <3>2. c.overload
      BY <1>1, <1>7
    <3>3. c.age >= Timeout(c)
      BY <1>4, <1>7, <3>1, <3>2 DEF TimedOut
    <3> QED BY <1>1, <3>2, <3>3 DEF Timeout
  <2> QED BY <2>1, <2>2
<1> QED BY <1>6, <1>7 DEF SwitchEarned, s

LEMMA StepEarned ==
  TypeOK /\ VirtualCountsMatch /\ [Next]_vars
    => [\A h \in Hosts \cap Hosts' : SwitchEarned(host_map[h], host_map'[h])]_vars
<1> SUFFICES ASSUME TypeOK, VirtualCountsMatch, Next,
                    NEW h \in Hosts \cap DOMAIN host_map'
             PROVE  SwitchEarned(host_map[h], host_map'[h])
  BY DEF Hosts
<1>1. host_map[h] \in HostInfo /\ CountsMatch(host_map[h])
  BY DEF TypeOK, VirtualCountsMatch
<1>2. \A s : s.overload = host_map[h].overload => SwitchEarned(host_map[h], s)
  BY DEF SwitchEarned
<1>3. ASSUME NEW remote \in SUBSET Host, Update(remote)
      PROVE  SwitchEarned(host_map[h], host_map'[h])
  BY <1>2, <1>3 DEF Update, Hosts
<1>4. CASE ChoiceOneHost
  BY <1>2, <1>4 DEF ChoiceOneHost, ChoiceNone, ChoiceOverload, ChoiceProbe, ChoiceIdle
<1>5. ASSUME NEW g \in Host, NEW is_succ \in BOOLEAN, Report(g, is_succ)
      PROVE  SwitchEarned(host_map[h], host_map'[h])
  <2>1. host_map' = [host_map EXCEPT ![g] = Reported(host_map[g], is_succ)]
    BY <1>5 DEF Report
  <2>2. CASE g = h
    BY <1>1, <2>1, <2>2, ReportedEarned DEF Hosts
  <2>3. CASE g # h
    BY <1>2, <2>1, <2>3 DEF Hosts
  <2> QED BY <2>2, <2>3
<1>6. CASE Erase
  BY <1>6 DEF Erase, NoHosts
<1>7. CASE Tick
  <2>1. host_map'[h] = Older(host_map[h])
    BY <1>7 DEF Tick
  <2> QED BY <1>1, <1>2, <2>1, OlderProperties
<1> QED BY <1>3, <1>4, <1>5, <1>6, <1>7 DEF Next

(* No host is switched before its head start is used up.                   *)
THEOREM SwitchesEarned == Spec => NoHastySwitch
<1>1. Inv /\ Counters => TypeOK /\ VirtualCountsMatch
  BY DEF Inv, Counters
<1> QED BY <1>1, InvCounters, StepEarned, PTL DEF Spec, NoHastySwitch

-----------------------------------------------------------------------------
(* Refinement *)

LEMMA PoolInit == Init => Pool!Init
BY DEF Init, Pool!Init, NoHosts, Hosts, Elements, NoReply, Pool!NoReply

LEMMA PoolStep == Inv /\ Inv' /\ [Next]_vars => [Pool!Next]_Pool!vars
<1> SUFFICES ASSUME Inv, Inv', [Next]_vars PROVE [Pool!Next]_Pool!vars
  OBVIOUS
<1> USE DEF Inv
<1> /\ Hosts \subseteq Host /\ Hosts' \subseteq Host
    /\ Elements(overload_list) = {h \in Hosts : host_map[h].overload}
    /\ Elements(overload_list)' = {h \in Hosts' : host_map'[h].overload}
  BY DEF TypeOK, ListsPartitionHosts
<1> reply' = NoReply => reply' = Pool!NoReply
  BY DEF NoReply, Pool!NoReply
<1>1. CASE UNCHANGED vars
  BY <1>1 DEF vars, Pool!vars, Hosts, Elements
<1>2. ASSUME NEW remote \in SUBSET Host, Update(remote) PROVE Pool!Refresh
  <2>1. /\ host_map' = [h \in remote |-> IF h \in Hosts THEN host_map[h] ELSE NewHost]
        /\ reply' = NoReply
    BY <1>2 DEF Update
  <2>2. Hosts' = remote
    BY <2>1 DEF Hosts
  <2>3. \A h \in remote : host_map'[h].overload <=> h \in Hosts /\ host_map[h].overload
    BY <2>1 DEF NewHost
  <2>4. Elements(overload_list)' = Elements(overload_list) \cap Hosts'
    BY <2>2, <2>3
  <2> QED BY <2>1, <2>4 DEF Pool!Refresh
<1>3. CASE ChoiceOneHost
  <2>1. Hosts' = Hosts /\ host_map' = host_map
    BY <1>3 DEF ChoiceOneHost, ChoiceNone, ChoiceOverload, ChoiceProbe, ChoiceIdle, Hosts
  <2>2. Elements(overload_list)' = Elements(overload_list)
    BY <2>1
  <2>3. CASE ChoiceNone
    BY <2>1, <2>2, <2>3 DEF ChoiceNone, Pool!Answer, Pool!Next, NotExist, Pool!NotExist
  <2>4. CASE ChoiceOverload
    <3>1. Elements(idle_list) = {}
      BY <2>4 DEF ChoiceOverload, Elements
    <3>2. Elements(overload_list) = Hosts
      BY <3>1 DEF ListsPartitionHosts
    <3> QED BY <2>1, <2>2, <2>4, <3>2
            DEF ChoiceOverload, Pool!Answer, Pool!Next, Overloaded, Pool!Overloaded
  <2>5. CASE ChoiceProbe \/ ChoiceIdle
    <3>1. PICK h \in Host : reply' = Found(h) /\ h \in Hosts
      <4>1. \/ idle_list # <<>> /\ reply' = Found(Head(idle_list))
            \/ overload_list # <<>> /\ reply' = Found(Head(overload_list))
        <5>1. idle_list = <<>> /\ overload_list = <<>> => Hosts = {}
          BY DEF ListsPartitionHosts, Elements
        <5> QED BY <2>5, <5>1 DEF ChoiceProbe, ChoiceIdle
      <4>2. idle_list # <<>> => Head(idle_list) \in Elements(idle_list)
        BY RotateProperties DEF TypeOK
      <4>3. overload_list # <<>> => Head(overload_list) \in Elements(overload_list)
        BY RotateProperties DEF TypeOK
      <4> QED BY <4>1, <4>2, <4>3 DEF ListsPartitionHosts
    <3>2. reply' = Pool!Found(h)
      BY <3>1 DEF Found, Pool!Found
    <3> QED BY <2>1, <2>2, <3>1, <3>2 DEF Pool!Answer, Pool!Next
  <2> QED BY <1>3, <2>3, <2>4, <2>5 DEF ChoiceOneHost
<1>4. ASSUME NEW g \in Host, NEW is_succ \in BOOLEAN, Report(g, is_succ) PROVE Pool!Judge
  <2>1. /\ g \in Hosts /\ reply' = NoReply
        /\ host_map' = [host_map EXCEPT ![g] = Reported(host_map[g], is_succ)]
    BY <1>4 DEF Report
  <2>2. Hosts' = Hosts /\ \A h \in Hosts : h # g => host_map'[h] = host_map[h]
    BY <2>1 DEF Hosts, TypeOK
  <2>3. Elements(overload_list)' \in {Elements(overload_list) \cup {g},
                                     Elements(overload_list) \ {g}}
    <3>1. CASE host_map'[g].overload
      BY <2>1, <2>2, <3>1
    <3>2. CASE ~host_map'[g].overload
      BY <2>1, <2>2, <3>2
    <3> QED BY <3>1, <3>2
  <2> QED BY <2>1, <2>2, <2>3 DEF Pool!Judge
<1>5. CASE Erase
  <2>1. Hosts' = {} /\ reply' = NoReply
    BY <1>5 DEF Erase, NoHosts, Hosts
  <2>2. Elements(overload_list)' = Elements(overload_list) \cap Hosts'
    BY <2>1
  <2> QED BY <2>1, <2>2 DEF Pool!Next, Pool!Refresh
<1>6. CASE Tick
  <2>1. Hosts' = Hosts /\ UNCHANGED overload_list /\ reply' = NoReply
    BY <1>6 DEF Tick, Hosts
  <2>2. UNCHANGED Elements(overload_list)
    BY <2>1 DEF Elements
  <2> QED BY <2>1, <2>2 DEF Pool!Next, Pool!Forget
<1> QED BY <1>1, <1>2, <1>3, <1>4, <1>5, <1>6 DEF Next, Pool!Next

(* The load balancer is a host pool: it answers only with hosts the route  *)
(* has, says that all are overloaded only when all are, and an update      *)
(* keeps the verdict on every host that stays.                             *)
THEOREM LoadBalanceImplementsHostPool == Spec => ImplementsHostPool
<1>1. Spec => []Inv
  BY InitInv, NextInv, PTL DEF Spec
<1> QED BY <1>1, PoolInit, PoolStep, PTL DEF Spec, ImplementsHostPool, Pool!Spec
=============================================================================
