-------------------------- MODULE CallPath_proofs ---------------------------
(***************************************************************************)
(* The calls of an api get answers of their own route, and the rows of the *)
(* table are the last some one of the database threads has dealt with, for *)
(* any callers, mods, ports, workers, threads and bounds.                  *)
(***************************************************************************)
EXTENDS CallPath, SequenceTheorems, FiniteSetTheorems, TLAPS

(* A sequence without its first element. *)
LEMMA FirstTaken ==
  ASSUME NEW S, NEW s \in Seq(S), s # <<>>
  PROVE  /\ Head(s) \in S /\ Head(s) = s[1]
         /\ Len(s) \in Nat \ {0} /\ DOMAIN s = 1..Len(s)
         /\ Tail(s) \in Seq(S) /\ Len(Tail(s)) = Len(s) - 1
         /\ DOMAIN Tail(s) = 1..(Len(s) - 1)
         /\ \A i \in 1..(Len(s) - 1) : Tail(s)[i] = s[i + 1]
<1>1. /\ Head(s) \in S /\ Tail(s) \in Seq(S) /\ Len(Tail(s)) = Len(s) - 1
      /\ \A i \in 1..Len(Tail(s)) : Tail(s)[i] = s[i + 1]
  BY HeadTailProperties
<1>2. Len(s) \in Nat \ {0} /\ DOMAIN s = 1..Len(s) /\ DOMAIN Tail(s) = 1..(Len(s) - 1)
  BY <1>1, LenProperties, EmptySeq
<1> QED  BY <1>1, <1>2

-----------------------------------------------------------------------------
(* What is in the sockets and in the hands of the callers. *)
Hosts   == {NoHosts} \cup (Mod \X Nat)
Request == [op : {"get_host", "get_route", "report"}, from : Caller, mod : Mod, seq : Nat]
Reply   == [op : {"get_host", "get_route"}, mod : Mod, seq : Nat, hosts : Hosts]
Waiting == [op : {"get_host", "get_route"}, mod : Mod, seq : Nat, had : Hosts, since : Nat]
Result  == [op : {"get_host", "get_route"}, mod : Mod, hosts : Hosts, had : Hosts, since : Nat]

ApiTypes == /\ check_seq \in Nat /\ updates \in Nat
            /\ call \in [Caller -> Waiting \cup {Idle}]
            /\ inbox \in [Caller -> Seq(Reply)]
            /\ mailbox \in [Port -> Seq(Request)]
            /\ route \in [Mod -> Hosts]
            /\ told \in [Caller -> Result \cup {Nothing}]
            /\ failed \in [Caller -> Nat]

(* A step of the api and of the servers of the agent, or none. *)
ApiStep == \/ \E c \in Caller : Sending(c) \/ Receiving(c) \/ RecvFails(c)
           \/ \E p \in Port : Serving(p) \/ ReportReqCb(p)
           \/ \E m \in Mod : UpdateHost(m)

apiState == <<check_seq, call, inbox, mailbox, route, updates, told, failed>>

LEMMA StepsOfTheApi == [Next]_vars => [ApiStep]_apiState
<1> SUFFICES ASSUME [Next]_vars PROVE [ApiStep]_apiState
  OBVIOUS
<1> USE DEF apiState
<1>1. CASE UNCHANGED vars
  BY <1>1 DEF vars, apiVars
<1>2. CASE Api
  BY <1>2 DEF Api, ApiStep
<1>3. CASE Reporting
  BY <1>3 DEF Reporting, apiVars
<1>4. ASSUME NEW p \in Port, ReportHost(p) PROVE ApiStep
  BY <1>4 DEF ReportHost, ApiStep
<1>5. CASE Carry \/ LinkEnds
  BY <1>5 DEF Carry, LinkEnds, apiVars
<1>6. ASSUME NEW w \in Worker, NEW m \in Mod, OtherReports(w, m) PROVE UNCHANGED apiState
  BY <1>6 DEF OtherReports
<1> QED  BY <1>1, <1>2, <1>3, <1>4, <1>5, <1>6 DEF Next

LEMMA InitApiTypes == Init => ApiTypes
<1> SUFFICES ASSUME Init PROVE ApiTypes
  OBVIOUS
<1>1. <<>> \in Seq(Reply) /\ <<>> \in Seq(Request)
  OBVIOUS
<1> QED  BY <1>1 DEF Init, ApiInit, ApiTypes, Hosts

LEMMA IdleIsNoCall == Idle \notin Waiting /\ Nothing \notin Result
<1>1. \A r \in Waiting : r.op # "none"
  BY DEF Waiting
<1>2. \A r \in Result : r.op # "none"
  BY DEF Result
<1> QED  BY <1>1, <1>2 DEF Idle, Nothing

(* What a caller, a server and an update do to the state. *)
LEMMA SendEffect ==
  ASSUME ApiTypes, NEW c \in Caller, Sending(c)
  PROVE  \E m \in Mod, d \in Request :
           /\ call[c] = Idle /\ d.from = c /\ d.mod = m
           /\ mailbox' = [mailbox EXCEPT ![PortOf[m]] = Append(@, d)] \/ mailbox' = mailbox
           /\ d.op = "get_host" => d.seq = check_seq
           /\ \/ /\ d.op # "report"
                 /\ call' = [call EXCEPT ![c] =
                      [op |-> d.op, mod |-> m, seq |-> d.seq, had |-> route[m], since |-> updates]]
                 /\ check_seq' = IF d.op = "get_host" THEN check_seq + 1 ELSE check_seq
              \/ d.op = "report" /\ UNCHANGED <<call, check_seq>>
           /\ told' = [told EXCEPT ![c] = Nothing]
           /\ UNCHANGED <<inbox, route, updates, failed>>
<1>1. PICK m \in Mod : GetHostSends(c, m) \/ GetRouteSends(c, m) \/ Report(c, m)
  BY DEF Sending
<1> DEFINE D(op, n) == [op |-> op, from |-> c, mod |-> m, seq |-> n]
<1>2. CASE GetHostSends(c, m)
  <2> DEFINE d == D("get_host", check_seq)
  <2>1. d \in Request /\ d.op = "get_host" /\ d.from = c /\ d.mod = m /\ d.seq = check_seq
    BY DEF Request, ApiTypes
  <2>2. /\ call[c] = Idle /\ told' = [told EXCEPT ![c] = Nothing]
        /\ mailbox' = [mailbox EXCEPT ![PortOf[m]] = Append(@, d)] \/ mailbox' = mailbox
        /\ call' = [call EXCEPT ![c] =
             [op |-> "get_host", mod |-> m, seq |-> check_seq, had |-> route[m], since |-> updates]]
        /\ check_seq' = check_seq + 1
        /\ UNCHANGED <<inbox, route, updates, failed>>
    BY <1>2 DEF GetHostSends, Connects, Sends, Posts
  <2> HIDE DEF d
  <2> QED  BY <2>1, <2>2
<1>3. CASE GetRouteSends(c, m)
  <2> DEFINE d == D("get_route", 0)
  <2>1. d \in Request /\ d.op = "get_route" /\ d.from = c /\ d.mod = m /\ d.seq = 0
    BY DEF Request
  <2>2. /\ call[c] = Idle /\ told' = [told EXCEPT ![c] = Nothing]
        /\ mailbox' = [mailbox EXCEPT ![PortOf[m]] = Append(@, d)] \/ mailbox' = mailbox
        /\ call' = [call EXCEPT ![c] =
             [op |-> "get_route", mod |-> m, seq |-> 0, had |-> route[m], since |-> updates]]
        /\ UNCHANGED <<check_seq, inbox, route, updates, failed>>
    BY <1>3 DEF GetRouteSends, Connects, Sends, Posts
  <2> HIDE DEF d
  <2> QED  BY <2>1, <2>2
<1>4. CASE Report(c, m)
  <2> DEFINE d == D("report", 0)
  <2>1. d \in Request /\ d.op = "report" /\ d.from = c /\ d.mod = m /\ d.seq = 0
    BY DEF Request
  <2>2. /\ call[c] = Idle /\ told' = [told EXCEPT ![c] = Nothing]
        /\ mailbox' = [mailbox EXCEPT ![PortOf[m]] = Append(@, d)]
        /\ UNCHANGED <<check_seq, call, inbox, route, updates, failed>>
    BY <1>4 DEF Report, Connects, Posts
  <2> HIDE DEF d
  <2> QED  BY <2>1, <2>2
<1> QED  BY <1>1, <1>2, <1>3, <1>4

LEMMA ReceiveEffect ==
  ASSUME ApiTypes, NEW c \in Caller, Receiving(c) \/ RecvFails(c)
  PROVE  LET d == Head(inbox[c]) IN
         /\ call[c] \in Waiting
         /\ UNCHANGED <<check_seq, mailbox, route, updates>>
         /\ \/ /\ failed' = [failed EXCEPT ![c] = @ + 1] /\ inbox' = inbox
               /\ call' = [call EXCEPT ![c] = Idle] /\ told' = [told EXCEPT ![c] = Nothing]
            \/ /\ inbox[c] # <<>> /\ inbox' = [inbox EXCEPT ![c] = Tail(@)] /\ failed' = failed
               /\ \/ UNCHANGED <<call, told>>
                  \/ /\ call' = [call EXCEPT ![c] = Idle]
                     /\ \/ told' = [told EXCEPT ![c] = Nothing]
                        \/ /\ d.op = call[c].op /\ d.mod = call[c].mod /\ d.hosts # NoHosts
                           /\ d.op = "get_host" => d.seq = call[c].seq
                           /\ told' = [told EXCEPT ![c] =
                                [op |-> call[c].op, mod |-> call[c].mod, hosts |-> d.hosts,
                                 had |-> call[c].had, since |-> call[c].since]]
<1> DEFINE d == Head(inbox[c])
           told1 == [op |-> call[c].op, mod |-> call[c].mod, hosts |-> d.hosts,
                     had |-> call[c].had, since |-> call[c].since]
<1>0. call[c] \in Waiting \cup {Idle}
  BY DEF ApiTypes
<1>1. CASE RecvFails(c)
  <2>1. /\ call[c] # Idle /\ UNCHANGED <<check_seq, mailbox, route, updates>>
        /\ failed' = [failed EXCEPT ![c] = @ + 1] /\ inbox' = inbox
        /\ call' = [call EXCEPT ![c] = Idle] /\ told' = [told EXCEPT ![c] = Nothing]
    BY <1>1 DEF RecvFails, Returns
  <2> QED  BY <1>0, <2>1
<1>2. CASE Receiving(c)
  <2>1. /\ call[c] # Idle /\ inbox[c] # <<>>
        /\ inbox' = [inbox EXCEPT ![c] = Tail(@)]
        /\ UNCHANGED <<check_seq, mailbox, route, updates, failed>>
    BY <1>2 DEF Receiving, GetHostRecvs, GetRouteRecvs, Recvs
  <2>2. \/ UNCHANGED <<call, told>>
        \/ Returns(c, NoHosts)
        \/ /\ Returns(c, d.hosts) /\ d.op = call[c].op /\ d.mod = call[c].mod
           /\ d.op = "get_host" => d.seq = call[c].seq
    BY <1>2 DEF Receiving, GetHostRecvs, GetRouteRecvs
  <2>3. ASSUME NEW v, Returns(c, v)
        PROVE  /\ call' = [call EXCEPT ![c] = Idle]
               /\ told' = [told EXCEPT ![c] =
                      IF v = NoHosts THEN Nothing
                      ELSE [op |-> call[c].op, mod |-> call[c].mod, hosts |-> v,
                            had |-> call[c].had, since |-> call[c].since]]
    BY <2>3 DEF Returns
  <2>4. \/ UNCHANGED <<call, told>>
        \/ /\ call' = [call EXCEPT ![c] = Idle]
           /\ \/ told' = [told EXCEPT ![c] = Nothing]
              \/ /\ d.op = call[c].op /\ d.mod = call[c].mod /\ d.hosts # NoHosts
                 /\ d.op = "get_host" => d.seq = call[c].seq
                 /\ told' = [told EXCEPT ![c] = told1]
    <3> HIDE DEF d
    <3> QED  BY <2>2, <2>3
  <2> HIDE DEF d, told1
  <2>5. call[c] \in Waiting
    BY <1>0, <2>1
  <2> QED  BY <2>1, <2>4, <2>5 DEF d, told1
<1> QED  BY <1>1, <1>2

LEMMA ServeEffect ==
  ASSUME ApiTypes, NEW p \in Port, Serving(p) \/ ReportReqCb(p)
  PROVE  \E d \in Request :
           /\ mailbox[p] # <<>> /\ d = Head(mailbox[p])
           /\ mailbox' = [mailbox EXCEPT ![p] = Tail(@)]
           /\ \/ inbox' = inbox
              \/ \E r \in Reply :
                   /\ d.op # "report" /\ r.op = d.op /\ r.mod = d.mod
                   /\ r.op = "get_host" => r.seq = d.seq
                   /\ r.hosts \in {route[d.mod], NoHosts}
                   /\ inbox' = [inbox EXCEPT ![d.from] = Append(@, r)]
           /\ UNCHANGED <<check_seq, call, route, updates, told, failed>>
<1> DEFINE d == Head(mailbox[p])
<1>1. /\ mailbox[p] # <<>> /\ mailbox' = [mailbox EXCEPT ![p] = Tail(@)]
      /\ UNCHANGED <<check_seq, call, route, updates, told, failed>>
  BY DEF Serving, HostReqCb, RouteReqCb, ReportReqCb, Takes
<1>2. d \in Request
  <2>1. mailbox[p] \in Seq(Request)
    BY DEF ApiTypes
  <2> QED  BY <1>1, <2>1, HeadTailProperties
<1>3. d.mod \in Mod /\ d.seq \in Nat /\ route[d.mod] \in Hosts
  BY <1>2 DEF Request, ApiTypes
<1>4. ASSUME NEW r, Answers(p, d.from, r)
      PROVE  inbox' \in {inbox, [inbox EXCEPT ![d.from] = Append(@, r)]}
  BY <1>4 DEF Answers
<1>5. CASE HostReqCb(p)
  <2>1. /\ d.op = "get_host"
        /\ \E v \in {route[d.mod], NoHosts} :
             Answers(p, d.from, [op |-> "get_host", mod |-> d.mod, seq |-> d.seq, hosts |-> v])
    BY <1>5 DEF HostReqCb, Takes
  <2> HIDE DEF d
  <2>2. PICK v \in {route[d.mod], NoHosts} :
          Answers(p, d.from, [op |-> "get_host", mod |-> d.mod, seq |-> d.seq, hosts |-> v])
    BY <2>1
  <2> DEFINE r == [op |-> "get_host", mod |-> d.mod, seq |-> d.seq, hosts |-> v]
  <2>3. r \in Reply /\ r.op = "get_host" /\ r.mod = d.mod /\ r.seq = d.seq /\ r.hosts = v
    BY <1>3, <2>2 DEF Reply, Hosts
  <2>4. inbox' \in {inbox, [inbox EXCEPT ![d.from] = Append(@, r)]}
    BY <1>4, <2>2
  <2> HIDE DEF r
  <2> QED  BY <1>1, <1>2, <2>1, <2>2, <2>3, <2>4 DEF d
<1>6. CASE RouteReqCb(p)
  <2> DEFINE r == [op |-> "get_route", mod |-> d.mod, seq |-> 0, hosts |-> route[d.mod]]
  <2>1. d.op = "get_route" /\ Answers(p, d.from, r)
    BY <1>6 DEF RouteReqCb, Takes
  <2> HIDE DEF d
  <2>2. r \in Reply /\ r.op = "get_route" /\ r.mod = d.mod /\ r.hosts = route[d.mod]
    BY <1>3 DEF Reply
  <2>3. inbox' \in {inbox, [inbox EXCEPT ![d.from] = Append(@, r)]}
    BY <1>4, <2>1
  <2> HIDE DEF r
  <2> QED  BY <1>1, <1>2, <2>1, <2>2, <2>3 DEF d
<1>7. CASE ReportReqCb(p)
  <2>1. inbox' = inbox
    BY <1>7 DEF ReportReqCb
  <2> QED  BY <1>1, <1>2, <2>1
<1> QED  BY <1>5, <1>6, <1>7 DEF Serving

LEMMA UpdateEffect ==
  ASSUME ApiTypes, NEW m \in Mod, UpdateHost(m)
  PROVE  /\ updates' = updates + 1
         /\ \E v \in {<<m, updates + 1>>, NoHosts} : route' = [route EXCEPT ![m] = v]
         /\ UNCHANGED <<check_seq, call, inbox, mailbox, told, failed>>
BY DEF UpdateHost

LEMMA ApiStepTypes ==
  ASSUME ApiTypes, ApiStep
  PROVE  ApiTypes'
<1>1. ASSUME NEW c \in Caller, Sending(c) PROVE ApiTypes'
  <2>1. PICK m \in Mod, d \in Request :
           /\ mailbox' = [mailbox EXCEPT ![PortOf[m]] = Append(@, d)] \/ mailbox' = mailbox
           /\ \/ /\ d.op # "report"
                 /\ call' = [call EXCEPT ![c] =
                      [op |-> d.op, mod |-> m, seq |-> d.seq, had |-> route[m], since |-> updates]]
                 /\ check_seq' = IF d.op = "get_host" THEN check_seq + 1 ELSE check_seq
              \/ d.op = "report" /\ UNCHANGED <<call, check_seq>>
           /\ told' = [told EXCEPT ![c] = Nothing]
           /\ UNCHANGED <<inbox, route, updates, failed>>
    BY <1>1, SendEffect
  <2>2. mailbox' \in [Port -> Seq(Request)]
    <3>1. mailbox \in [Port -> Seq(Request)]
      BY DEF ApiTypes
    <3>2. \A p \in Port : Append(mailbox[p], d) \in Seq(Request)
      BY <3>1, AppendProperties
    <3>3. mailbox' = [mailbox EXCEPT ![PortOf[m]] = Append(@, d)] \/ mailbox' = mailbox
      BY <2>1
    <3> QED  BY <3>1, <3>2, <3>3
  <2>3. call' \in [Caller -> Waiting \cup {Idle}] /\ check_seq' \in Nat
    <3>1. d.op # "report" =>
            [op |-> d.op, mod |-> m, seq |-> d.seq, had |-> route[m], since |-> updates] \in Waiting
      BY DEF Request, Waiting, ApiTypes
    <3>2. call \in [Caller -> Waiting \cup {Idle}] /\ check_seq \in Nat
      BY DEF ApiTypes
    <3>3. /\ check_seq' \in {check_seq, check_seq + 1}
          /\ \/ call' = call
             \/ \E w \in Waiting : call' = [call EXCEPT ![c] = w]
      BY <2>1, <3>1
    <3> QED  BY <3>2, <3>3
  <2>4. told' \in [Caller -> Result \cup {Nothing}]
    BY <2>1 DEF ApiTypes
  <2> QED  BY <2>1, <2>2, <2>3, <2>4 DEF ApiTypes
<1>2. ASSUME NEW c \in Caller, Receiving(c) \/ RecvFails(c) PROVE ApiTypes'
  <2> DEFINE d == Head(inbox[c])
             told1 == [op |-> call[c].op, mod |-> call[c].mod, hosts |-> d.hosts,
                       had |-> call[c].had, since |-> call[c].since]
  <2>1. /\ call[c] \in Waiting
        /\ UNCHANGED <<check_seq, mailbox, route, updates>>
        /\ failed' = [failed EXCEPT ![c] = @ + 1] \/ failed' = failed
        /\ inbox' = inbox \/ (inbox[c] # <<>> /\ inbox' = [inbox EXCEPT ![c] = Tail(@)])
        /\ call' = call \/ call' = [call EXCEPT ![c] = Idle]
        /\ \/ told' = told \/ told' = [told EXCEPT ![c] = Nothing]
           \/ inbox[c] # <<>> /\ told' = [told EXCEPT ![c] = told1]
    <3> HIDE DEF told1, d
    <3> QED  BY <1>2, ReceiveEffect DEF told1, d
  <2>2. inbox[c] # <<>> => d \in Reply /\ Tail(inbox[c]) \in Seq(Reply)
    <3>1. inbox[c] \in Seq(Reply)
      BY DEF ApiTypes
    <3> QED  BY <3>1, HeadTailProperties
  <2>3. inbox[c] # <<>> => told1 \in Result
    BY <2>1, <2>2 DEF Reply, Waiting, Result
  <2> HIDE DEF d, told1
  <2>4. inbox' \in [Caller -> Seq(Reply)] /\ told' \in [Caller -> Result \cup {Nothing}]
    BY <2>1, <2>2, <2>3 DEF ApiTypes
  <2>5. failed' \in [Caller -> Nat] /\ call' \in [Caller -> Waiting \cup {Idle}]
    <3>1. failed \in [Caller -> Nat] /\ call \in [Caller -> Waiting \cup {Idle}]
      BY DEF ApiTypes
    <3>2. /\ failed' = [failed EXCEPT ![c] = @ + 1] \/ failed' = failed
          /\ call' = call \/ call' = [call EXCEPT ![c] = Idle]
      BY <2>1
    <3>3. failed[c] + 1 \in Nat
      BY <3>1
    <3> QED  BY <3>1, <3>2, <3>3
  <2> QED  BY <2>1, <2>4, <2>5 DEF ApiTypes
<1>3. ASSUME NEW p \in Port, Serving(p) \/ ReportReqCb(p) PROVE ApiTypes'
  <2>1. PICK d \in Request :
           /\ mailbox[p] # <<>> /\ d = Head(mailbox[p])
           /\ mailbox' = [mailbox EXCEPT ![p] = Tail(@)]
           /\ \/ inbox' = inbox
              \/ \E r \in Reply : inbox' = [inbox EXCEPT ![d.from] = Append(@, r)]
           /\ UNCHANGED <<check_seq, call, route, updates, told, failed>>
    BY <1>3, ServeEffect
  <2>2. mailbox' \in [Port -> Seq(Request)]
    <3>1. mailbox[p] \in Seq(Request)
      BY DEF ApiTypes
    <3>2. Tail(mailbox[p]) \in Seq(Request)
      BY <2>1, <3>1, HeadTailProperties
    <3> QED  BY <2>1, <3>2 DEF ApiTypes
  <2>3. inbox' \in [Caller -> Seq(Reply)]
    <3>1. \A r \in Reply : Append(inbox[d.from], r) \in Seq(Reply)
      BY AppendProperties DEF ApiTypes, Request
    <3> QED  BY <2>1, <3>1 DEF ApiTypes
  <2> QED  BY <2>1, <2>2, <2>3 DEF ApiTypes
<1>4. ASSUME NEW m \in Mod, UpdateHost(m) PROVE ApiTypes'
  <2>1. PICK v \in {<<m, updates + 1>>, NoHosts} :
          /\ updates' = updates + 1 /\ route' = [route EXCEPT ![m] = v]
          /\ UNCHANGED <<check_seq, call, inbox, mailbox, told, failed>>
    BY <1>4, UpdateEffect
  <2>2. v \in Hosts /\ updates' \in Nat
    BY <2>1 DEF ApiTypes, Hosts
  <2> QED  BY <2>1, <2>2 DEF ApiTypes
<1> QED  BY <1>1, <1>2, <1>3, <1>4 DEF ApiStep

LEMMA NextApiTypes == ApiTypes /\ [Next]_vars => ApiTypes'
<1>1. ApiTypes /\ UNCHANGED apiState => ApiTypes'
  BY DEF ApiTypes, apiState
<1> QED  BY <1>1, StepsOfTheApi, ApiStepTypes

-----------------------------------------------------------------------------
(* What a caller is owed: its requests in the mailboxes ... *)
LEMMA AskedPlaces ==
  \A c, p, i : <<p, i>> \in Asked(c) <=> /\ p \in Port /\ i \in DOMAIN mailbox[p]
                                         /\ Asks(mailbox[p][i], c)
BY DEF Asked

LEMMA AskedArePairs ==
  \A c : \A x \in Asked(c) : x = <<x[1], x[2]>>
BY DEF Asked

LEMMA AskedPosted ==
  ASSUME ApiTypes, NEW q \in Port, NEW d \in Request, NEW c, IsFiniteSet(Asked(c)),
         mailbox' = [mailbox EXCEPT ![q] = Append(@, d)]
  PROVE  /\ IsFiniteSet(Asked(c)')
         /\ Cardinality(Asked(c)') <= Cardinality(Asked(c)) + (IF Asks(d, c) THEN 1 ELSE 0)
<1> DEFINE x == <<q, Len(mailbox[q]) + 1>>
<1>1. /\ mailbox[q] \in Seq(Request) /\ mailbox'[q] = Append(mailbox[q], d)
      /\ \A p \in Port \ {q} : mailbox'[p] = mailbox[p]
  BY DEF ApiTypes
<1>2. /\ Len(mailbox[q]) \in Nat /\ DOMAIN mailbox[q] = 1..Len(mailbox[q])
      /\ DOMAIN mailbox'[q] = 1..(Len(mailbox[q]) + 1)
      /\ \A i \in 1..Len(mailbox[q]) : mailbox'[q][i] = mailbox[q][i]
      /\ mailbox'[q][Len(mailbox[q]) + 1] = d
  BY <1>1, AppendProperties, LenProperties
<1>3. Asked(c)' \subseteq IF Asks(d, c) THEN Asked(c) \cup {x} ELSE Asked(c)
  <2> SUFFICES ASSUME NEW y \in Asked(c)' PROVE y \in Asked(c) \/ (Asks(d, c) /\ y = x)
    OBVIOUS
  <2>1. PICK p, i : /\ p \in Port /\ i \in DOMAIN mailbox'[p]
                   /\ y = <<p, i>> /\ Asks(mailbox'[p][i], c)
    BY DEF Asked, Asks
  <2>2. CASE p # q \/ i \in 1..Len(mailbox[q])
    BY <1>1, <1>2, <2>1, <2>2, AskedPlaces
  <2>3. CASE p = q /\ i \notin 1..Len(mailbox[q])
    <3>1. i = Len(mailbox[q]) + 1
      BY <1>2, <2>1, <2>3
    <3> QED  BY <1>2, <2>1, <2>3, <3>1
  <2> QED  BY <2>2, <2>3
<1> HIDE DEF x
<1>4. Cardinality(Asked(c)) \in Nat
  BY FS_CardinalityType
<1>5. CASE Asks(d, c)
  <2>0. /\ IsFiniteSet(Asked(c) \cup {x})
        /\ Cardinality(Asked(c) \cup {x}) \in {Cardinality(Asked(c)), Cardinality(Asked(c)) + 1}
    BY FS_AddElement
  <2>1. /\ IsFiniteSet(Asked(c) \cup {x})
        /\ Cardinality(Asked(c) \cup {x}) <= Cardinality(Asked(c)) + 1
    BY <1>4, <2>0
  <2>2. Cardinality(Asked(c) \cup {x}) \in Nat
    BY <2>1, FS_CardinalityType
  <2>3. /\ IsFiniteSet(Asked(c)') /\ Cardinality(Asked(c)') <= Cardinality(Asked(c) \cup {x})
    BY <1>3, <1>5, <2>1, FS_Subset
  <2>4. Cardinality(Asked(c)') \in Nat
    BY <2>3, FS_CardinalityType
  <2> QED  BY <1>4, <1>5, <2>1, <2>2, <2>3, <2>4
<1>6. CASE ~Asks(d, c)
  <2>1. /\ IsFiniteSet(Asked(c)') /\ Cardinality(Asked(c)') <= Cardinality(Asked(c))
    BY <1>3, <1>6, FS_Subset
  <2> QED  BY <1>4, <1>6, <2>1
<1> QED  BY <1>5, <1>6

(* ... which move up by one when the first is taken. *)
LEMMA AskedTaken ==
  ASSUME ApiTypes, NEW p \in Port, NEW c, IsFiniteSet(Asked(c)), mailbox[p] # <<>>,
         mailbox' = [mailbox EXCEPT ![p] = Tail(@)]
  PROVE  /\ IsFiniteSet(Asked(c)')
         /\ Cardinality(Asked(c)') <=
              Cardinality(Asked(c)) - (IF Asks(Head(mailbox[p]), c) THEN 1 ELSE 0)
<1>1. /\ mailbox[p] \in Seq(Request) /\ mailbox'[p] = Tail(mailbox[p])
      /\ \A q \in Port \ {p} : mailbox'[q] = mailbox[q]
  BY DEF ApiTypes
<1>2. /\ mailbox'[p] \in Seq(Request) /\ Len(mailbox'[p]) = Len(mailbox[p]) - 1
      /\ Head(mailbox[p]) = mailbox[p][1]
      /\ \A i \in 1..(Len(mailbox[p]) - 1) : mailbox'[p][i] = mailbox[p][i + 1]
  <2>1. mailbox[p] \in Seq(Request)
    BY <1>1
  <2>2. /\ Tail(mailbox[p]) \in Seq(Request) /\ Len(Tail(mailbox[p])) = Len(mailbox[p]) - 1
        /\ Head(mailbox[p]) = mailbox[p][1]
        /\ \A i \in 1..(Len(mailbox[p]) - 1) : Tail(mailbox[p])[i] = mailbox[p][i + 1]
    BY ONLY <2>1, mailbox[p] # <<>>, FirstTaken
  <2> QED  BY <1>1, <2>2
<1>3. /\ Len(mailbox[p]) \in Nat \ {0} /\ DOMAIN mailbox[p] = 1..Len(mailbox[p])
      /\ DOMAIN mailbox'[p] = 1..(Len(mailbox[p]) - 1)
  BY <1>1, FirstTaken
<1>4. PICK A, B : A = Asked(c) /\ B = Asked(c)'
  OBVIOUS
<1> DEFINE T == A \ {<<p, 1>>}
           up(y) == IF y[1] = p THEN <<p, y[2] + 1>> ELSE y
           f == [y \in B |-> up(y)]
<1>5. ASSUME NEW y \in B
      PROVE  /\ y = <<y[1], y[2]>> /\ (y[1] = p => y[2] \in Nat) /\ up(y) \in T
  <2>1. PICK q, i : /\ q \in Port /\ i \in DOMAIN mailbox'[q]
                   /\ y = <<q, i>> /\ Asks(mailbox'[q][i], c)
    BY <1>4, <1>5 DEF Asked, Asks
  <2>2. CASE q # p
    <3>1. <<q, i>> \in Asked(c)
      BY <1>1, <2>1, <2>2, AskedPlaces
    <3> QED  BY <1>4, <2>1, <2>2, <3>1
  <2>3. CASE q = p
    <3>1. i \in 1..(Len(mailbox[p]) - 1) /\ i + 1 \in DOMAIN mailbox[p] /\ i + 1 # 1 /\ i \in Nat
      BY <1>2, <1>3, <2>1, <2>3
    <3>2. <<p, i + 1>> \in Asked(c)
      BY <1>2, <2>1, <2>3, <3>1, AskedPlaces
    <3> QED  BY <1>4, <2>1, <2>3, <3>1, <3>2
  <2> QED  BY <2>2, <2>3
<1>6. f \in Injection(B, T)
  <2>1. f \in [B -> T]
    BY <1>5
  <2>2. ASSUME NEW y \in B, NEW z \in B, f[y] = f[z] PROVE y = z
    <3>1. up(y) = up(z) /\ y = <<y[1], y[2]>> /\ z = <<z[1], z[2]>>
      BY <1>5, <2>2
    <3>2. CASE y[1] = p /\ z[1] = p
      <4>1. y[2] \in Nat /\ z[2] \in Nat /\ y[2] + 1 = z[2] + 1
        BY <1>5, <3>1, <3>2
      <4>2. y[2] = z[2]
        BY <4>1
      <4> QED  BY <3>1, <3>2, <4>2
    <3>3. CASE y[1] # p \/ z[1] # p
      BY <3>1, <3>3
    <3> QED  BY <3>2, <3>3
  <2> HIDE DEF f
  <2> QED  BY <2>1, <2>2 DEF Injection, IsInjective
<1>7. <<p, 1>> \in A <=> Asks(Head(mailbox[p]), c)
  BY <1>2, <1>3, <1>4, AskedPlaces
<1>8. /\ IsFiniteSet(T) /\ Cardinality(A) \in Nat
      /\ Cardinality(T) = Cardinality(A) - (IF Asks(Head(mailbox[p]), c) THEN 1 ELSE 0)
  <2>1. IsFiniteSet(A)
    BY <1>4
  <2> HIDE DEF T
  <2>2. Cardinality(A) \in Nat
    BY <2>1, FS_CardinalityType
  <2>3. /\ IsFiniteSet(T)
        /\ Cardinality(T) = IF <<p, 1>> \in A THEN Cardinality(A) - 1 ELSE Cardinality(A)
    BY <2>1, FS_RemoveElement DEF T
  <2> QED  BY <1>7, <2>2, <2>3
<1> HIDE DEF f, T
<1>9. IsFiniteSet(B) /\ Cardinality(B) <= Cardinality(T)
  BY <1>6, <1>8, FS_Injection
<1> QED  BY <1>4, <1>8, <1>9

-----------------------------------------------------------------------------
(* Both are needed: without a bound on the ports nothing else says that    *)
(* the requests of a caller are finitely many.                             *)
Owing(c) == /\ IsFiniteSet(Asked(c))
            /\ Owed(c) <= failed[c] + (IF call[c] = Idle THEN 0 ELSE 1)

LEMMA OwingMeans ==
  ASSUME ApiTypes, NEW c \in Caller, IsFiniteSet(Asked(c))
  PROVE  /\ Cardinality(Asked(c)) \in Nat /\ Len(inbox[c]) \in Nat /\ failed[c] \in Nat
         /\ Owed(c) = Cardinality(Asked(c)) + Len(inbox[c])
<1>1. inbox[c] \in Seq(Reply)
  BY DEF ApiTypes
<1>2. Len(inbox[c]) \in Nat
  BY <1>1, LenProperties
<1> QED  BY <1>2, FS_CardinalityType DEF Owed, ApiTypes

LEMMA SendOwing ==
  ASSUME ApiTypes, ApiTypes', NEW c \in Caller, Sending(c), NEW b \in Caller, Owing(b)
  PROVE  Owing(b)'
<1>1. PICK m \in Mod, d \in Request :
        /\ call[c] = Idle /\ d.from = c
        /\ mailbox' = [mailbox EXCEPT ![PortOf[m]] = Append(@, d)] \/ mailbox' = mailbox
        /\ \/ /\ d.op # "report"
              /\ call' = [call EXCEPT ![c] =
                   [op |-> d.op, mod |-> m, seq |-> d.seq, had |-> route[m], since |-> updates]]
           \/ d.op = "report" /\ UNCHANGED <<call, check_seq>>
        /\ UNCHANGED <<inbox, failed>>
  BY SendEffect
<1> DEFINE more == IF Asks(d, b) THEN 1 ELSE 0
<1>2. /\ IsFiniteSet(Asked(b)')
      /\ Cardinality(Asked(b)') <= Cardinality(Asked(b)) + more
  <2>1. CASE mailbox' = [mailbox EXCEPT ![PortOf[m]] = Append(@, d)]
    <3>1. PortOf[m] \in Port /\ IsFiniteSet(Asked(b))
      BY ApiAssumption DEF Owing
    <3> QED  BY <2>1, <3>1, AskedPosted
  <2>2. CASE mailbox' = mailbox
    <3>1. Asked(b)' = Asked(b) /\ IsFiniteSet(Asked(b))
      BY <2>2 DEF Asked, Asks, Owing
    <3>2. Cardinality(Asked(b)) \in Nat
      BY <3>1, FS_CardinalityType
    <3> QED  BY <3>1, <3>2
  <2> QED  BY <1>1, <2>1, <2>2
<1>3. more = 1 => b = c /\ call[b] = Idle /\ call'[b] # Idle
  <2> SUFFICES ASSUME Asks(d, b) PROVE b = c /\ call[b] = Idle /\ call'[b] # Idle
    OBVIOUS
  <2>1. d.op # "report" /\ b = c
    BY <1>1 DEF Asks
  <2>2. call'[c].op = d.op /\ d.op # "none"
    BY <1>1, <2>1 DEF ApiTypes, Request
  <2> QED  BY <1>1, <2>1, <2>2 DEF Idle
<1>4. call'[b] = Idle => call[b] = Idle
  BY <1>1 DEF ApiTypes
<1>5. /\ Cardinality(Asked(b)) \in Nat /\ Len(inbox[b]) \in Nat /\ failed[b] \in Nat
      /\ Owed(b) = Cardinality(Asked(b)) + Len(inbox[b])
      /\ Cardinality(Asked(b)') \in Nat
      /\ Owed(b)' = Cardinality(Asked(b)') + Len(inbox[b])
  <2>1. Owed(b)' = Cardinality(Asked(b)') + Len(inbox[b])
    BY <1>1 DEF Owed
  <2> QED  BY <1>2, <2>1, OwingMeans, FS_CardinalityType DEF Owing
<1>6. more \in {0, 1} /\ failed'[b] = failed[b]
  BY <1>1
<1> HIDE DEF more
<1>7. Owed(b) <= failed[b] + (IF call[b] = Idle THEN 0 ELSE 1)
  BY DEF Owing
<1>8. Owed(b)' <= failed'[b] + (IF call'[b] = Idle THEN 0 ELSE 1)
  BY <1>2, <1>3, <1>4, <1>5, <1>6, <1>7
<1> QED  BY <1>2, <1>8 DEF Owing

LEMMA ReceiveOwing ==
  ASSUME ApiTypes, NEW c \in Caller, Receiving(c) \/ RecvFails(c), NEW b \in Caller, Owing(b)
  PROVE  Owing(b)'
<1>1. /\ call[c] \in Waiting /\ mailbox' = mailbox
      /\ \/ /\ failed' = [failed EXCEPT ![c] = @ + 1] /\ inbox' = inbox
            /\ call' = [call EXCEPT ![c] = Idle]
         \/ /\ inbox[c] # <<>> /\ inbox' = [inbox EXCEPT ![c] = Tail(@)] /\ failed' = failed
            /\ call' = call \/ call' = [call EXCEPT ![c] = Idle]
  BY ReceiveEffect
<1>2. Asked(b)' = Asked(b) /\ IsFiniteSet(Asked(b))
  BY <1>1 DEF Asked, Asks, Owing
<1>3. /\ Cardinality(Asked(b)) \in Nat /\ Len(inbox[b]) \in Nat /\ failed[b] \in Nat
      /\ Owed(b) = Cardinality(Asked(b)) + Len(inbox[b])
      /\ Owed(b)' = Cardinality(Asked(b)) + Len(inbox'[b])
  BY <1>2, OwingMeans DEF Owed
<1>4. call \in [Caller -> Waiting \cup {Idle}] /\ failed \in [Caller -> Nat]
      /\ inbox \in [Caller -> Seq(Reply)]
  BY DEF ApiTypes
<1>5. Owed(b) <= failed[b] + (IF call[b] = Idle THEN 0 ELSE 1)
  BY DEF Owing
<1>6. CASE b # c
  <2>1. call'[b] = call[b] /\ failed'[b] = failed[b] /\ inbox'[b] = inbox[b]
    BY <1>1, <1>4, <1>6
  <2> QED  BY <1>2, <1>3, <1>5, <2>1 DEF Owing
<1>7. CASE b = c
  <2>1. call[b] # Idle
    BY <1>1, <1>7, IdleIsNoCall
  <2>2. CASE /\ failed' = [failed EXCEPT ![c] = @ + 1] /\ inbox' = inbox
             /\ call' = [call EXCEPT ![c] = Idle]
    <3>1. failed'[b] = failed[b] + 1 /\ inbox'[b] = inbox[b]
      BY <1>4, <1>7, <2>2
    <3> QED  BY <1>2, <1>3, <1>5, <2>1, <3>1 DEF Owing
  <2>3. CASE /\ inbox[c] # <<>> /\ inbox' = [inbox EXCEPT ![c] = Tail(@)] /\ failed' = failed
             /\ call' = call \/ call' = [call EXCEPT ![c] = Idle]
    <3>1. failed'[b] = failed[b] /\ inbox'[b] = Tail(inbox[b]) /\ inbox[b] \in Seq(Reply)
          /\ inbox[b] # <<>>
      BY <1>4, <1>7, <2>3
    <3>2. Len(inbox'[b]) = Len(inbox[b]) - 1
      BY <3>1, HeadTailProperties
    <3> QED  BY <1>2, <1>3, <1>5, <2>1, <3>1, <3>2 DEF Owing
  <2> QED  BY <1>1, <2>2, <2>3
<1> QED  BY <1>6, <1>7

LEMMA ServeOwing ==
  ASSUME ApiTypes, NEW p \in Port, Serving(p) \/ ReportReqCb(p), NEW b \in Caller, Owing(b)
  PROVE  Owing(b)'
<1>1. PICK d \in Request :
        /\ mailbox[p] # <<>> /\ d = Head(mailbox[p])
        /\ mailbox' = [mailbox EXCEPT ![p] = Tail(@)]
        /\ \/ inbox' = inbox
           \/ \E r \in Reply : d.op # "report" /\ inbox' = [inbox EXCEPT ![d.from] = Append(@, r)]
        /\ UNCHANGED <<call, failed>>
  BY ServeEffect
<1> DEFINE less == IF Asks(d, b) THEN 1 ELSE 0
<1>2. /\ IsFiniteSet(Asked(b)')
      /\ Cardinality(Asked(b)') <= Cardinality(Asked(b)) - less
  BY <1>1, AskedTaken DEF Owing
<1>3. inbox \in [Caller -> Seq(Reply)]
  BY DEF ApiTypes
<1>4. Len(inbox'[b]) <= Len(inbox[b]) + less /\ Len(inbox'[b]) \in Nat
  <2>1. Len(inbox[b]) \in Nat
    BY <1>3, LenProperties
  <2>2. CASE inbox'[b] = inbox[b]
    <3>1. less \in {0, 1}
      OBVIOUS
    <3> HIDE DEF less
    <3> QED  BY <2>1, <2>2, <3>1
  <2>3. ASSUME NEW r \in Reply, d.op # "report", inbox' = [inbox EXCEPT ![d.from] = Append(@, r)],
               inbox'[b] # inbox[b]
        PROVE  Len(inbox'[b]) <= Len(inbox[b]) + less /\ Len(inbox'[b]) \in Nat
    <3>1. b = d.from /\ inbox'[b] = Append(inbox[b], r) /\ inbox[b] \in Seq(Reply)
      BY <1>3, <2>3
    <3>2. Len(inbox'[b]) = Len(inbox[b]) + 1
      BY <3>1, AppendProperties
    <3>3. less = 1
      BY <2>3, <3>1 DEF Asks
    <3> HIDE DEF less
    <3> QED  BY <2>1, <3>2, <3>3
  <2> QED  BY <1>1, <2>2, <2>3
<1>5. /\ Cardinality(Asked(b)) \in Nat /\ Len(inbox[b]) \in Nat /\ failed[b] \in Nat
      /\ Owed(b) = Cardinality(Asked(b)) + Len(inbox[b])
      /\ Owed(b) <= failed[b] + (IF call[b] = Idle THEN 0 ELSE 1)
  BY OwingMeans DEF Owing
<1>6. /\ Cardinality(Asked(b)') \in Nat
      /\ Owed(b)' = Cardinality(Asked(b)') + Len(inbox'[b])
      /\ failed' = failed /\ call' = call /\ less \in {0, 1}
  BY <1>1, <1>2, FS_CardinalityType DEF Owed
<1> HIDE DEF less
<1>7. Owed(b)' <= failed'[b] + (IF call'[b] = Idle THEN 0 ELSE 1)
  BY <1>2, <1>4, <1>5, <1>6
<1> QED  BY <1>2, <1>7 DEF Owing

LEMMA NextOwing ==
  ApiTypes /\ (\A c \in Caller : Owing(c)) /\ [Next]_vars => \A c \in Caller : Owing(c)'
<1> SUFFICES ASSUME ApiTypes, [Next]_vars, NEW b \in Caller, Owing(b) PROVE Owing(b)'
  OBVIOUS
<1>1. CASE UNCHANGED apiState
  BY <1>1 DEF apiState, Owing, Owed, Asked, Asks
<1>2. ASSUME NEW m \in Mod, UpdateHost(m) PROVE Owing(b)'
  <2>1. UNCHANGED <<call, inbox, mailbox, failed>>
    BY <1>2 DEF UpdateHost
  <2> QED  BY <2>1 DEF Owing, Owed, Asked, Asks
<1> QED
  BY <1>1, <1>2, NextApiTypes, StepsOfTheApi, SendOwing, ReceiveOwing, ServeOwing DEF ApiStep

LEMMA InitOwing == Init => \A c \in Caller : Owing(c)
<1> SUFFICES ASSUME Init, NEW c \in Caller PROVE Owing(c)
  OBVIOUS
<1>1. \A p \in Port : DOMAIN mailbox[p] = {}
  BY DEF Init, ApiInit
<1>2. Asked(c) = {} /\ inbox[c] = <<>> /\ failed[c] = 0 /\ call[c] = Idle
  BY <1>1 DEF Init, ApiInit, Asked
<1> QED  BY <1>2, FS_EmptySet DEF Owing, Owed

LEMMA ApiAlwaysOwing == FairSpec => [](ApiTypes /\ \A c \in Caller : Owing(c))
<1> DEFINE I == ApiTypes /\ \A c \in Caller : Owing(c)
<1>1. Init => I
  BY InitApiTypes, InitOwing
<1>2. I /\ [Next]_vars => I'
  BY NextApiTypes, NextOwing
<1> QED  BY <1>1, <1>2, PTL DEF FairSpec

(* What is left over in a socket, or still to come to it, comes of failed  *)
(* receives alone, however calls of two kinds and their callers meet       *)
(* (ylars_api.cpp:86-126, 166-185).                                        *)
THEOREM LeftOverIsByFailures == FairSpec => []LeftOverByFailures
<1>1. (\A c \in Caller : Owing(c)) => LeftOverByFailures
  BY DEF Owing, LeftOverByFailures
<1> QED  BY <1>1, ApiAlwaysOwing, PTL

-----------------------------------------------------------------------------
LEMMA ElementsAppended ==
  ASSUME NEW S, NEW s \in Seq(S), NEW e \in S
  PROVE  ToSet(Append(s, e)) = ToSet(s) \cup {e}
<1>1. /\ Append(s, e) \in Seq(S) /\ Len(Append(s, e)) = Len(s) + 1
      /\ \A i \in 1..Len(s) : Append(s, e)[i] = s[i]
      /\ Append(s, e)[Len(s) + 1] = e
  BY AppendProperties
<1>2. Len(s) \in Nat /\ DOMAIN s = 1..Len(s) /\ DOMAIN Append(s, e) = 1..(Len(s) + 1)
  BY <1>1, LenProperties
<1>3. 1..(Len(s) + 1) = 1..Len(s) \cup {Len(s) + 1}
  BY <1>2
<1> QED  BY <1>1, <1>2, <1>3 DEF ToSet

LEMMA ElementsTaken ==
  ASSUME NEW S, NEW s \in Seq(S), s # <<>>
  PROVE  Head(s) \in ToSet(s) /\ ToSet(Tail(s)) \subseteq ToSet(s)
<1>1. /\ Head(s) = s[1] /\ Len(s) \in Nat \ {0} /\ DOMAIN s = 1..Len(s)
      /\ DOMAIN Tail(s) = 1..(Len(s) - 1)
      /\ \A i \in 1..(Len(s) - 1) : Tail(s)[i] = s[i + 1]
  BY FirstTaken
<1>2. 1 \in DOMAIN s /\ \A i \in 1..(Len(s) - 1) : i + 1 \in DOMAIN s
  BY <1>1
<1> QED  BY <1>1, <1>2 DEF ToSet

-----------------------------------------------------------------------------
(* Hosts of mod m, as they were when a call began, or newer, or none.      *)
Fits(v, m, had, since) == v = NoHosts \/ (v[1] = m /\ (v = had \/ v[2] > since))

(* No sequence number is on its way before it is given to a call.          *)
Numbered == /\ \A c \in Caller : \A r \in ToSet(inbox[c]) :
                 r.op = "get_host" => r.seq < check_seq
            /\ \A p \in Port : \A d \in ToSet(mailbox[p]) :
                 d.op = "get_host" => d.seq < check_seq

(* The hosts of a route are its own, of an update so far.                  *)
Updated == \A m \in Mod : route[m] # NoHosts => route[m][1] = m /\ route[m][2] <= updates

(* What the call that c waits in would take for its answer.                *)
Mine(r, c) == /\ r.op = call[c].op /\ r.mod = call[c].mod
              /\ r.op = "get_host" => r.seq = call[c].seq
              /\ r.op = "get_route" => failed[c] = 0

Answered(c) ==
  call[c] # Idle =>
    /\ call[c].since <= updates
    /\ Fits(route[call[c].mod], call[c].mod, call[c].had, call[c].since)
    /\ \A r \in ToSet(inbox[c]) :
         Mine(r, c) => Fits(r.hosts, call[c].mod, call[c].had, call[c].since)

Told(c) ==
  told[c] # Nothing /\ (told[c].op = "get_host" \/ failed[c] = 0) =>
    told[c].hosts # NoHosts /\ Fits(told[c].hosts, told[c].mod, told[c].had, told[c].since)

CallInv == Numbered /\ Updated /\ \A c \in Caller : Answered(c) /\ Told(c)

LEMMA InitCallInv == Init => CallInv
BY DEF Init, ApiInit, CallInv, Numbered, Updated, Answered, Told, ToSet

(* Without a failed receive nothing is left in the socket of an idle api.  *)
LEMMA IdleAndEmpty ==
  ASSUME ApiTypes, NEW c \in Caller, Owing(c), call[c] = Idle, failed[c] = 0
  PROVE  inbox[c] = <<>>
<1>1. /\ Cardinality(Asked(c)) \in Nat /\ Len(inbox[c]) \in Nat
      /\ Cardinality(Asked(c)) + Len(inbox[c]) <= 0
  BY OwingMeans DEF Owing
<1>2. inbox[c] \in Seq(Reply) /\ Len(inbox[c]) = 0
  BY <1>1 DEF ApiTypes
<1> QED  BY <1>2, EmptySeq

LEMMA SendCallInv ==
  ASSUME ApiTypes, NEW c \in Caller, Owing(c), CallInv, Sending(c)
  PROVE  CallInv'
<1>1. PICK m \in Mod, d \in Request :
        /\ call[c] = Idle
        /\ mailbox' = [mailbox EXCEPT ![PortOf[m]] = Append(@, d)] \/ mailbox' = mailbox
        /\ d.op = "get_host" => d.seq = check_seq
        /\ \/ /\ d.op # "report"
              /\ call' = [call EXCEPT ![c] =
                   [op |-> d.op, mod |-> m, seq |-> d.seq, had |-> route[m], since |-> updates]]
              /\ check_seq' = IF d.op = "get_host" THEN check_seq + 1 ELSE check_seq
           \/ d.op = "report" /\ UNCHANGED <<call, check_seq>>
        /\ told' = [told EXCEPT ![c] = Nothing]
        /\ UNCHANGED <<inbox, route, updates, failed>>
  BY SendEffect
<1>2. /\ check_seq \in Nat /\ check_seq' \in {check_seq, check_seq + 1}
      /\ d.op = "get_host" => check_seq' = check_seq + 1
  BY <1>1 DEF ApiTypes
<1>3. Updated'
  BY <1>1 DEF CallInv, Updated
<1>4. Numbered'
  <2>1. \A b \in Caller : \A r \in ToSet(inbox[b]) : r \in Reply
    BY DEF ApiTypes, ToSet
  <2>2. \A p \in Port : \A x \in ToSet(mailbox[p]) : x \in Request
    BY DEF ApiTypes, ToSet
  <2>3. \A p \in Port : \A x \in ToSet(mailbox'[p]) : x \in ToSet(mailbox[p]) \/ x = d
    <3>1. \A p \in Port : ToSet(Append(mailbox[p], d)) = ToSet(mailbox[p]) \cup {d}
      BY ElementsAppended DEF ApiTypes
    <3>2. mailbox \in [Port -> Seq(Request)]
      BY DEF ApiTypes
    <3>3. \A p \in Port : mailbox'[p] \in {mailbox[p], Append(mailbox[p], d)}
      BY <1>1, <3>2
    <3> QED  BY <3>1, <3>3
  <2>4. \A n \in Nat : n < check_seq => n < check_seq'
    BY <1>2
  <2>5. ASSUME NEW b \in Caller, NEW r \in ToSet(inbox'[b]), r.op = "get_host"
        PROVE  r.seq < check_seq'
    <3>1. r \in ToSet(inbox[b])
      BY <1>1, <2>5
    <3>2. r.seq \in Nat /\ r.seq < check_seq
      BY <2>1, <2>5, <3>1 DEF CallInv, Numbered, Reply
    <3> QED  BY <2>4, <3>2
  <2>6. ASSUME NEW p \in Port, NEW x \in ToSet(mailbox'[p]), x.op = "get_host"
        PROVE  x.seq < check_seq'
    <3>1. CASE x \in ToSet(mailbox[p])
      <4>1. x.seq \in Nat /\ x.seq < check_seq
        BY <2>2, <2>6, <3>1 DEF CallInv, Numbered, Request
      <4> QED  BY <2>4, <4>1
    <3>2. CASE x = d
      BY <1>1, <1>2, <2>6, <3>2
    <3> QED  BY <2>3, <2>6, <3>1, <3>2
  <2> QED  BY <2>5, <2>6 DEF Numbered, ToSet
<1>5. ASSUME NEW b \in Caller, b # c PROVE Answered(b)' /\ Told(b)'
  <2>1. /\ call'[b] = call[b] /\ inbox'[b] = inbox[b] /\ failed'[b] = failed[b]
        /\ told'[b] = told[b] /\ route' = route /\ updates' = updates
    BY <1>1, <1>5 DEF ApiTypes
  <2> QED  BY <1>5, <2>1 DEF CallInv, Answered, Told, Mine, ToSet
<1>6. Told(c)'
  BY <1>1 DEF Told, ApiTypes
<1>7. Answered(c)'
  <2>1. CASE d.op = "report"
    BY <1>1, <2>1 DEF Answered
  <2>2. CASE d.op # "report"
    <3>1. /\ call'[c].op = d.op /\ call'[c].mod = m /\ call'[c].had = route[m]
          /\ call'[c].since = updates /\ call'[c].seq = d.seq
      BY <1>1, <2>2 DEF ApiTypes
    <3>2. Fits(route'[m], m, route[m], updates) /\ updates <= updates'
      <4>1. updates \in Nat /\ route' = route /\ updates' = updates
        BY <1>1 DEF ApiTypes
      <4>2. route[m] = NoHosts \/ route[m][1] = m
        BY DEF CallInv, Updated
      <4> QED  BY <4>1, <4>2 DEF Fits
    <3>3. ASSUME NEW r \in ToSet(inbox'[c]), Mine(r, c)' PROVE FALSE
      <4>1. inbox[c] # <<>> /\ r \in ToSet(inbox[c]) /\ r.op = d.op /\ failed' = failed
        BY <1>1, <3>1, <3>3 DEF ToSet, Mine
      <4>2. CASE d.op = "get_host"
        <5>1. r.seq < check_seq /\ r.seq = check_seq
          BY <1>1, <2>2, <3>1, <3>3, <4>1, <4>2 DEF CallInv, Numbered, Mine
        <5> QED  BY <1>2, <5>1
      <4>3. CASE d.op = "get_route"
        BY <1>1, <3>3, <4>1, <4>3, IdleAndEmpty DEF Mine
      <4> QED  BY <2>2, <4>2, <4>3 DEF Request
    <3> QED  BY <3>1, <3>2, <3>3 DEF Answered
  <2> QED  BY <2>1, <2>2
<1> QED  BY <1>3, <1>4, <1>5, <1>6, <1>7 DEF CallInv

LEMMA ReceiveCallInv ==
  ASSUME ApiTypes, NEW c \in Caller, CallInv, Receiving(c) \/ RecvFails(c)
  PROVE  CallInv'
<1> DEFINE d == Head(inbox[c])
           told1 == [op |-> call[c].op, mod |-> call[c].mod, hosts |-> d.hosts,
                     had |-> call[c].had, since |-> call[c].since]
<1>1. /\ call[c] \in Waiting /\ UNCHANGED <<check_seq, mailbox, route, updates>>
      /\ \/ /\ failed' = [failed EXCEPT ![c] = @ + 1] /\ inbox' = inbox
            /\ call' = [call EXCEPT ![c] = Idle] /\ told' = [told EXCEPT ![c] = Nothing]
         \/ /\ inbox[c] # <<>> /\ inbox' = [inbox EXCEPT ![c] = Tail(@)] /\ failed' = failed
            /\ \/ UNCHANGED <<call, told>>
               \/ /\ call' = [call EXCEPT ![c] = Idle]
                  /\ \/ told' = [told EXCEPT ![c] = Nothing]
                     \/ /\ d.op = call[c].op /\ d.mod = call[c].mod /\ d.hosts # NoHosts
                        /\ d.op = "get_host" => d.seq = call[c].seq
                        /\ told' = [told EXCEPT ![c] = told1]
  <2> HIDE DEF d, told1
  <2> QED  BY ReceiveEffect DEF d, told1
<1>2. /\ call \in [Caller -> Waiting \cup {Idle}] /\ inbox \in [Caller -> Seq(Reply)]
      /\ failed \in [Caller -> Nat] /\ told \in [Caller -> Result \cup {Nothing}]
  BY DEF ApiTypes
<1>3. /\ d.hosts = told1.hosts /\ told1.op = call[c].op /\ told1.mod = call[c].mod
      /\ told1.had = call[c].had /\ told1.since = call[c].since
  OBVIOUS
<1>4. inbox[c] # <<>> => d \in ToSet(inbox[c]) /\ ToSet(Tail(inbox[c])) \subseteq ToSet(inbox[c])
  BY <1>2, ElementsTaken
<1> HIDE DEF d, told1
<1>5. \A b \in Caller : ToSet(inbox'[b]) \subseteq ToSet(inbox[b])
  <2>1. inbox' = inbox \/ (inbox[c] # <<>> /\ inbox' = [inbox EXCEPT ![c] = Tail(@)])
    BY <1>1
  <2> QED  BY <1>2, <1>4, <2>1
<1>6. Updated' /\ Numbered'
  <2>1. UNCHANGED <<check_seq, mailbox, route, updates>>
    BY <1>1
  <2>2. \A b \in Caller : \A r \in ToSet(inbox'[b]) : r.op = "get_host" => r.seq < check_seq
    BY <1>5 DEF CallInv, Numbered
  <2>3. Numbered'
    BY <2>1, <2>2 DEF CallInv, Numbered, ToSet
  <2> QED  BY <2>1, <2>3 DEF CallInv, Updated
<1>7. ASSUME NEW b \in Caller, b # c PROVE Answered(b)' /\ Told(b)'
  <2>1. /\ call'[b] = call[b] /\ inbox'[b] = inbox[b] /\ failed'[b] = failed[b]
        /\ told'[b] = told[b] /\ route' = route /\ updates' = updates
    BY <1>1, <1>2, <1>7
  <2> QED  BY <1>7, <2>1 DEF CallInv, Answered, Told, Mine, ToSet
<1>8. Answered(c)'
  <2>1. CASE call'[c] = Idle
    BY <2>1 DEF Answered
  <2>2. CASE call'[c] # Idle
    <3>1. call' = call /\ failed' = failed /\ route' = route /\ updates' = updates
      BY <1>1, <1>2, <2>2
    <3> QED  BY <1>5, <2>2, <3>1 DEF CallInv, Answered, Mine, ToSet
  <2> QED  BY <2>1, <2>2
<1>9. Told(c)'
  <2>1. CASE told'[c] = Nothing
    BY <2>1 DEF Told
  <2>2. CASE told' = told /\ failed' = failed
    BY <2>2 DEF CallInv, Told
  <2>3. CASE /\ inbox[c] # <<>> /\ failed' = failed /\ told' = [told EXCEPT ![c] = told1]
             /\ d.op = call[c].op /\ d.mod = call[c].mod /\ d.hosts # NoHosts
             /\ d.op = "get_host" => d.seq = call[c].seq
    <3>1. told'[c] = told1 /\ call[c] # Idle
      BY <1>1, <1>2, <2>3, IdleIsNoCall
    <3>2. SUFFICES ASSUME told1.op = "get_host" \/ failed[c] = 0
                   PROVE  Fits(d.hosts, call[c].mod, call[c].had, call[c].since)
      BY <1>3, <2>3, <3>1 DEF Told
    <3>3. Mine(d, c)
      BY <1>3, <2>3, <3>2 DEF Mine
    <3> QED  BY <1>4, <2>3, <3>1, <3>3 DEF CallInv, Answered
  <2>4. told' = [told EXCEPT ![c] = Nothing] => told'[c] = Nothing
    BY <1>2
  <2> QED  BY <1>1, <2>1, <2>2, <2>3, <2>4
<1> QED  BY <1>6, <1>7, <1>8, <1>9 DEF CallInv

LEMMA ServeCallInv ==
  ASSUME ApiTypes, NEW p \in Port, CallInv, Serving(p) \/ ReportReqCb(p)
  PROVE  CallInv'
<1>1. PICK d \in Request :
        /\ mailbox[p] # <<>> /\ d = Head(mailbox[p])
        /\ mailbox' = [mailbox EXCEPT ![p] = Tail(@)]
        /\ \/ inbox' = inbox
           \/ \E r \in Reply :
                /\ r.op = d.op /\ r.mod = d.mod
                /\ r.op = "get_host" => r.seq = d.seq
                /\ r.hosts \in {route[d.mod], NoHosts}
                /\ inbox' = [inbox EXCEPT ![d.from] = Append(@, r)]
        /\ UNCHANGED <<check_seq, call, route, updates, told, failed>>
  BY ServeEffect
<1>2. mailbox \in [Port -> Seq(Request)] /\ inbox \in [Caller -> Seq(Reply)]
  BY DEF ApiTypes
<1>3. d \in ToSet(mailbox[p]) /\ \A q \in Port : ToSet(mailbox'[q]) \subseteq ToSet(mailbox[q])
  <2>1. d \in ToSet(mailbox[p]) /\ ToSet(Tail(mailbox[p])) \subseteq ToSet(mailbox[p])
    BY <1>1, <1>2, ElementsTaken
  <2> QED  BY <1>1, <1>2, <2>1
<1>4. ASSUME NEW b \in Caller, NEW r \in ToSet(inbox'[b])
      PROVE  \/ r \in ToSet(inbox[b])
             \/ /\ r.op = d.op /\ r.mod = d.mod /\ r.hosts \in {route[d.mod], NoHosts}
                /\ r.op = "get_host" => r.seq = d.seq
  <2>1. CASE inbox'[b] = inbox[b]
    BY <1>4, <2>1
  <2>2. ASSUME NEW x \in Reply, x.op = d.op, x.mod = d.mod, x.op = "get_host" => x.seq = d.seq,
               x.hosts \in {route[d.mod], NoHosts},
               inbox' = [inbox EXCEPT ![d.from] = Append(@, x)], inbox'[b] # inbox[b]
        PROVE  r \in ToSet(inbox[b]) \/ r = x
    <3>1. inbox'[b] = Append(inbox[b], x) /\ inbox[b] \in Seq(Reply)
      BY <1>2, <2>2
    <3>2. ToSet(inbox'[b]) = ToSet(inbox[b]) \cup {x}
      BY <3>1, ElementsAppended
    <3> QED  BY <1>4, <3>2
  <2> QED  BY <1>1, <2>1, <2>2
<1>5. Numbered'
  <2>1. d.op = "get_host" => d.seq < check_seq
    BY <1>3 DEF CallInv, Numbered
  <2>2. \A b \in Caller : \A r \in ToSet(inbox'[b]) : r.op = "get_host" => r.seq < check_seq
    BY <1>4, <2>1 DEF CallInv, Numbered
  <2>3. \A q \in Port : \A x \in ToSet(mailbox'[q]) : x.op = "get_host" => x.seq < check_seq
    BY <1>3 DEF CallInv, Numbered
  <2>4. check_seq' = check_seq
    BY <1>1
  <2> QED  BY <2>2, <2>3, <2>4 DEF Numbered, ToSet
<1>6. Updated'
  BY <1>1 DEF CallInv, Updated
<1>7. ASSUME NEW b \in Caller PROVE Answered(b)' /\ Told(b)'
  <2>1. Told(b)'
    BY <1>1 DEF CallInv, Told
  <2>2. SUFFICES ASSUME call[b] # Idle, NEW r \in ToSet(inbox'[b]), Mine(r, b)
                 PROVE  Fits(r.hosts, call[b].mod, call[b].had, call[b].since)
    BY <1>1, <2>1 DEF CallInv, Answered, Mine, ToSet
  <2>3. Fits(route[call[b].mod], call[b].mod, call[b].had, call[b].since)
    BY <2>2 DEF CallInv, Answered
  <2>4. CASE r \in ToSet(inbox[b])
    BY <2>2, <2>4 DEF CallInv, Answered
  <2>5. CASE r.mod = d.mod /\ r.hosts \in {route[d.mod], NoHosts}
    <3>1. d.mod = call[b].mod
      BY <2>2, <2>5 DEF Mine
    <3> QED  BY <2>3, <2>5, <3>1 DEF Fits
  <2> QED  BY <1>4, <2>4, <2>5
<1> QED  BY <1>5, <1>6, <1>7 DEF CallInv

LEMMA UpdateCallInv ==
  ASSUME ApiTypes, NEW m \in Mod, CallInv, UpdateHost(m)
  PROVE  CallInv'
<1>1. PICK v \in {<<m, updates + 1>>, NoHosts} :
        /\ updates' = updates + 1 /\ route' = [route EXCEPT ![m] = v]
        /\ UNCHANGED <<check_seq, call, inbox, mailbox, told, failed>>
  BY UpdateEffect
<1>2. updates \in Nat /\ route \in [Mod -> Hosts]
  BY DEF ApiTypes
<1>3. v = NoHosts \/ (v[1] = m /\ v[2] = updates + 1)
  BY <1>1
<1>4. Updated'
  <2> SUFFICES ASSUME NEW n \in Mod, route'[n] # NoHosts
               PROVE  route'[n][1] = n /\ route'[n][2] <= updates'
    BY DEF Updated
  <2>1. CASE n = m
    <3>1. route'[n] = v
      BY <1>1, <1>2, <2>1
    <3> QED  BY <1>1, <1>2, <1>3, <2>1, <3>1
  <2>2. CASE n # m
    <3>1. route'[n] = route[n] /\ route[n] # NoHosts /\ route[n] \in Hosts
      BY <1>1, <1>2, <2>2
    <3>2. route[n][1] = n /\ route[n][2] <= updates /\ route[n][2] \in Nat
      BY <3>1 DEF CallInv, Updated, Hosts
    <3> QED  BY <1>1, <1>2, <3>1, <3>2
  <2> QED  BY <2>1, <2>2
<1>5. Numbered'
  BY <1>1 DEF CallInv, Numbered, ToSet
<1>6. ASSUME NEW b \in Caller PROVE Answered(b)' /\ Told(b)'
  <2>1. Told(b)'
    BY <1>1 DEF CallInv, Told
  <2>2. CASE call[b] = Idle
    BY <1>1, <2>1, <2>2 DEF Answered
  <2>3. CASE call[b] # Idle
    <3>1. call[b].since \in Nat /\ call[b].since <= updates /\ call[b].mod \in Mod
      BY <2>3 DEF CallInv, Answered, ApiTypes, Waiting
    <3>2. call[b].since <= updates' /\ updates + 1 > call[b].since
      BY <1>1, <1>2, <3>1
    <3>3. Fits(route'[call[b].mod], call[b].mod, call[b].had, call[b].since)
      <4>1. CASE call[b].mod = m
        <5>1. route'[call[b].mod] = v
          BY <1>1, <1>2, <4>1
        <5> QED  BY <1>3, <3>2, <4>1, <5>1 DEF Fits
      <4>2. CASE call[b].mod # m
        <5>1. route'[call[b].mod] = route[call[b].mod]
          BY <1>1, <1>2, <3>1, <4>2
        <5> QED  BY <2>3, <5>1 DEF CallInv, Answered
      <4> QED  BY <4>1, <4>2
    <3>4. \A r \in ToSet(inbox[b]) :
            Mine(r, b) => Fits(r.hosts, call[b].mod, call[b].had, call[b].since)
      BY <2>3 DEF CallInv, Answered
    <3> QED  BY <1>1, <2>1, <3>2, <3>3, <3>4 DEF Answered, Mine, ToSet
  <2> QED  BY <2>2, <2>3
<1> QED  BY <1>4, <1>5, <1>6 DEF CallInv

LEMMA NextCallInv ==
  ApiTypes /\ (\A c \in Caller : Owing(c)) /\ CallInv /\ [Next]_vars => CallInv'
<1> SUFFICES ASSUME ApiTypes, \A c \in Caller : Owing(c), CallInv, [Next]_vars PROVE CallInv'
  OBVIOUS
<1>1. CASE UNCHANGED apiState
  BY <1>1 DEF apiState, CallInv, Numbered, Updated, Answered, Told, Mine, ToSet
<1> QED
  BY <1>1, StepsOfTheApi, SendCallInv, ReceiveCallInv, ServeCallInv, UpdateCallInv DEF ApiStep

(* The hosts a call returns are of the route it asked for, as the route    *)
(* was during the call: for get_host whatever the socket had left over     *)
(* (ylars_api.cpp:92-125), for get_route, which has no sequence number, as *)
(* long as no call of this object has failed to receive (:176), which is   *)
(* where LeftOverIsByFailures comes in.                                    *)
THEOREM AnswersAreOfThisCall == FairSpec => []AnswersThisCall
<1> DEFINE I == ApiTypes /\ (\A c \in Caller : Owing(c)) /\ CallInv
<1>1. Init => I
  BY InitApiTypes, InitOwing, InitCallInv
<1>2. I /\ [Next]_vars => I'
  BY NextApiTypes, NextOwing, NextCallInv
<1>3. I => AnswersThisCall
  BY DEF CallInv, Told, Fits, AnswersThisCall
<1> QED  BY <1>1, <1>2, <1>3, PTL DEF FairSpec

-----------------------------------------------------------------------------
(* The reports: where they are and what is left of them to store. *)
DbReport == [mod : Mod, by : Worker, n : Nat]

ReportTypes == /\ at \in [Worker -> {"out", "read", "sent", "reduce"}]
               /\ hand \in [Worker -> DbReport \cup {NoReport}]
               /\ given \in [DbThread -> Seq(DbReport)]
               /\ queue \in [DbThread -> Seq(DbReport)]
               /\ todo \in [DbThread -> SUBSET Host]
               /\ rows \in [Mod -> [Host -> DbReport \cup {NoReport}]]
               /\ counted \in [Mod -> Nat] /\ uplink \in Seq(DbReport)
               /\ "others" \in DOMAIN budget /\ budget["others"] \in Nat

reportState == <<at, hand, given, queue, todo, rows, refused, counted, uplink>>

(* The bound on other agents' reports, which also numbers them.            *)
LEMMA CostsShrink ==
  ASSUME "others" \in DOMAIN budget, budget["others"] \in Nat, NEW kinds, Costs(kinds)
  PROVE  /\ "others" \in DOMAIN budget' /\ budget'["others"] \in Nat
         /\ budget'["others"] <= budget["others"]
         /\ "others" \in kinds => budget'["others"] = budget["others"] - 1 /\ budget["others"] > 0
<1>1. /\ \A k \in kinds : budget[k] > 0
      /\ budget' = [k \in DOMAIN budget |-> IF k \in kinds THEN budget[k] - 1 ELSE budget[k]]
  BY DEF Costs
<1> QED  BY <1>1

LEMMA ApiCosts ==
  Api => UNCHANGED budget \/ \E kinds : Costs(kinds)
<1> SUFFICES ASSUME Api PROVE UNCHANGED budget \/ \E kinds : Costs(kinds)
  OBVIOUS
<1>1. ASSUME NEW c \in Caller, NEW m \in Mod,
             GetHostSends(c, m) \/ GetRouteSends(c, m) \/ Report(c, m)
      PROVE  \E kinds : Costs(kinds)
  BY <1>1 DEF GetHostSends, GetRouteSends, Report, Sends
<1>2. ASSUME NEW c \in Caller, Receiving(c) PROVE UNCHANGED budget
  BY <1>2 DEF Receiving, GetHostRecvs, GetRouteRecvs, Recvs
<1>3. ASSUME NEW c \in Caller, RecvFails(c) PROVE \E kinds : Costs(kinds)
  BY <1>3 DEF RecvFails
<1>4. ASSUME NEW p \in Port, Serving(p) PROVE UNCHANGED budget \/ \E kinds : Costs(kinds)
  BY <1>4 DEF Serving, HostReqCb, RouteReqCb, Answers
<1>5. ASSUME NEW m \in Mod, UpdateHost(m) PROVE \E kinds : Costs(kinds)
  BY <1>5 DEF UpdateHost
<1> QED  BY <1>1, <1>2, <1>3, <1>4, <1>5 DEF Api, Sending

LEMMA BudgetShrinks ==
  ASSUME ReportTypes, [Next]_vars
  PROVE  /\ "others" \in DOMAIN budget' /\ budget'["others"] \in Nat
         /\ budget'["others"] <= budget["others"]
<1>1. "others" \in DOMAIN budget /\ budget["others"] \in Nat
  BY DEF ReportTypes
<1>2. UNCHANGED budget \/ \E kinds : Costs(kinds)
  <2>1. CASE Api
    BY <2>1, ApiCosts
  <2>2. CASE Reporting
    BY <2>2 DEF Reporting, apiVars
  <2>3. ASSUME NEW p \in Port, ReportHost(p) PROVE UNCHANGED budget
    BY <2>3 DEF ReportHost, ReportReqCb
  <2>4. CASE Carry \/ LinkEnds
    BY <2>4 DEF Carry, LinkEnds, apiVars
  <2>5. ASSUME NEW w \in Worker, NEW m \in Mod, OtherReports(w, m) PROVE \E kinds : Costs(kinds)
    BY <2>5 DEF OtherReports
  <2>6. CASE UNCHANGED vars
    BY <2>6 DEF vars, apiVars
  <2> QED  BY <2>1, <2>2, <2>3, <2>4, <2>5, <2>6 DEF Next
<1> QED  BY <1>1, <1>2, CostsShrink

(* The steps that concern reports, and what they do with them.             *)
LEMMA StepsOfReports ==
  ASSUME [Next]_vars
  PROVE  \/ UNCHANGED reportState
         \/ \E p \in Port : ReportHost(p)
         \/ Carry
         \/ \E w \in Worker \ {Agent}, m \in Mod : OtherReports(w, m)
         \/ Reporting
<1> USE DEF reportState
<1>1. CASE Api
  BY <1>1 DEF Api, reporterVars, pathVars
<1>2. CASE LinkEnds
  BY <1>2 DEF LinkEnds, reporterVars
<1>3. CASE UNCHANGED vars
  BY <1>3 DEF vars, reporterVars, pathVars
<1> QED  BY <1>1, <1>2, <1>3 DEF Next

LEMMA CommitEffect ==
  ASSUME ApiTypes, ReportTypes, NEW p \in Port, ReportHost(p)
  PROVE  /\ UNCHANGED <<at, hand, given, queue, todo, rows, refused>>
         /\ \/ UNCHANGED <<counted, uplink>>
            \/ \E r \in DbReport :
                 /\ r.by = Agent /\ r.n = counted[r.mod] + 1
                 /\ counted' = [counted EXCEPT ![r.mod] = @ + 1]
                 /\ uplink' = Append(uplink, r)
<1> DEFINE m == Head(mailbox[p]).mod
           r == [mod |-> m, by |-> Agent, n |-> counted[m] + 1]
<1>1. m \in Mod
  <2>1. mailbox[p] \in Seq(Request) /\ mailbox[p] # <<>>
    BY DEF ReportHost, ReportReqCb, Takes, ApiTypes
  <2>2. Head(mailbox[p]) \in Request
    BY ONLY <2>1, FirstTaken
  <2> QED  BY <2>2 DEF Request
<1>2. /\ UNCHANGED <<at, hand, given, queue, todo, rows, refused>>
      /\ \/ UNCHANGED <<counted, uplink>>
         \/ /\ counted' = [counted EXCEPT ![m] = @ + 1]
            /\ uplink' = Append(uplink, [mod |-> m, by |-> Agent, n |-> counted'[m]])
  BY DEF ReportHost, reporterVars
<1> HIDE DEF m
<1>3. counted' = [counted EXCEPT ![m] = @ + 1] => counted'[m] = counted[m] + 1
  BY <1>1 DEF ReportTypes
<1>4. r \in DbReport /\ r.by = Agent /\ r.mod = m /\ r.n = counted[m] + 1
  BY <1>1, PathAssumption DEF DbReport, ReportTypes
<1>5. \/ UNCHANGED <<counted, uplink>>
      \/ counted' = [counted EXCEPT ![m] = @ + 1] /\ uplink' = Append(uplink, r)
  BY <1>2, <1>3
<1> HIDE DEF r
<1> QED  BY <1>2, <1>4, <1>5

LEMMA ReadEffect ==
  ASSUME NEW w \in Worker, NEW r, ReadsIndex(w, r)
  PROVE  /\ at[w] = "out" /\ at' = [at EXCEPT ![w] = "read"]
         /\ hand' = [hand EXCEPT ![w] = r]
         /\ UNCHANGED <<given, queue, todo, rows, refused>>
BY DEF ReadsIndex, Goes

LEMMA DealEffect ==
  ASSUME ReportTypes, NEW w \in Worker, DealsReport(w)
  PROVE  /\ UNCHANGED <<rows, refused>>
         /\ \/ /\ at[w] # "read" /\ \E s \in {"reduce", "out"} : at' = [at EXCEPT ![w] = s]
               /\ UNCHANGED <<hand, given, queue, todo>>
            \/ /\ at[w] = "read" /\ at' = [at EXCEPT ![w] = "sent"]
               /\ hand' = [hand EXCEPT ![w] = NoReport]
               /\ \/ UNCHANGED <<given, queue, todo>>
                  \/ \E i \in DbThread :
                       /\ queue' = [queue EXCEPT ![i] = Append(@, hand[w])]
                       /\ given' = [given EXCEPT ![i] = Append(@, hand[w])]
                       /\ todo' = IF queue[i] = <<>> THEN [todo EXCEPT ![i] = Host] ELSE todo
<1>1. CASE SendTask(w)
  BY <1>1 DEF SendTask, Goes
<1>2. CASE ReadsBack(w)
  BY <1>2 DEF ReadsBack, Goes
<1>3. CASE Reduces(w)
  BY <1>3 DEF Reduces, Goes
<1> QED  BY <1>1, <1>2, <1>3 DEF DealsReport

LEMMA StoreEffect ==
  ASSUME NEW i \in DbThread, Store(i)
  PROVE  \E h \in Host :
           /\ h \in todo[i] /\ StoredOne(i, h)
           /\ UNCHANGED <<at, hand, given>>
           /\ \/ /\ rows' = [rows EXCEPT ![Head(queue[i]).mod][h] = Head(queue[i])]
                 /\ refused' = refused
              \/ rows' = rows /\ refused' = refused \cup {<<Head(queue[i]), h>>}
<1>1. PICK h \in Host : Stores(i, h) \/ StoreFails(i, h)
  BY DEF Store
<1> QED  BY <1>1 DEF Stores, StoreFails

LEMMA InitReportTypes == Init => ReportTypes
<1> SUFFICES ASSUME Init PROVE ReportTypes
  OBVIOUS
<1>1. "others" \in DOMAIN budget /\ budget["others"] \in Nat
  BY ApiAssumption DEF Init, ApiInit
<1>2. <<>> \in Seq(DbReport)
  OBVIOUS
<1>3. /\ at \in [Worker -> {"out", "read", "sent", "reduce"}]
      /\ hand \in [Worker -> DbReport \cup {NoReport}]
      /\ given \in [DbThread -> Seq(DbReport)] /\ queue \in [DbThread -> Seq(DbReport)]
      /\ todo \in [DbThread -> SUBSET Host]
  BY <1>2 DEF Init, ReporterInit
<1>4. rows \in [Mod -> [Host -> DbReport \cup {NoReport}]]
  BY PathAssumption DEF Init, ReporterInit
<1> QED  BY <1>1, <1>2, <1>3, <1>4 DEF Init, ReportTypes

LEMMA StoredOneTypes ==
  ASSUME ReportTypes, NEW i \in DbThread, NEW h \in todo[i], queue[i] # <<>>, StoredOne(i, h)
  PROVE  /\ queue' \in [DbThread -> Seq(DbReport)] /\ todo' \in [DbThread -> SUBSET Host]
         /\ \A j \in DbThread \ {i} : queue'[j] = queue[j] /\ todo'[j] = todo[j]
         /\ IF todo[i] = {h}
            THEN /\ queue'[i] = Tail(queue[i])
                 /\ todo'[i] = IF queue'[i] = <<>> THEN {} ELSE Host
            ELSE queue'[i] = queue[i] /\ todo'[i] = todo[i] \ {h}
<1> DEFINE next == IF todo[i] = {h} THEN Tail(queue[i]) ELSE queue[i]
           left == IF todo[i] # {h} THEN todo[i] \ {h} ELSE IF next = <<>> THEN {} ELSE Host
<1>1. queue \in [DbThread -> Seq(DbReport)] /\ todo \in [DbThread -> SUBSET Host]
  BY DEF ReportTypes
<1>2. queue' = [queue EXCEPT ![i] = next] /\ todo' = [todo EXCEPT ![i] = left]
  BY DEF StoredOne
<1>3. next \in Seq(DbReport)
  <2>1. queue[i] \in Seq(DbReport)
    BY <1>1
  <2>2. Tail(queue[i]) \in Seq(DbReport)
    BY ONLY <2>1, queue[i] # <<>>, FirstTaken
  <2> QED  BY <2>1, <2>2
<1>4. left \in SUBSET Host
  BY <1>1
<1>5. IF todo[i] = {h}
      THEN next = Tail(queue[i]) /\ left = IF next = <<>> THEN {} ELSE Host
      ELSE next = queue[i] /\ left = todo[i] \ {h}
  OBVIOUS
<1> HIDE DEF next, left
<1>6. queue'[i] = next /\ todo'[i] = left
  BY <1>1, <1>2
<1> QED  BY <1>1, <1>2, <1>3, <1>4, <1>5, <1>6

(* A worker between deal_report's first read and its send has a report,    *)
(* and a database thread has something to store only with one to store.    *)
AtHand == /\ \A w \in Worker : IF at[w] = "read" THEN hand[w] \in DbReport
                                ELSE hand[w] = NoReport
          /\ \A i \in DbThread : queue[i] = <<>> => todo[i] = {}

LEMMA NextReportTypes ==
  ASSUME ApiTypes, ReportTypes, AtHand, [Next]_vars
  PROVE  ReportTypes'
<1>1. "others" \in DOMAIN budget' /\ budget'["others"] \in Nat
  BY BudgetShrinks
<1>2. CASE UNCHANGED reportState
  BY <1>1, <1>2 DEF reportState, ReportTypes
<1>3. ASSUME NEW p \in Port, ReportHost(p) PROVE ReportTypes'
  <2>1. UNCHANGED <<at, hand, given, queue, todo, rows, refused>>
    BY <1>3, CommitEffect
  <2>2. counted' \in [Mod -> Nat] /\ uplink' \in Seq(DbReport)
    <3>1. counted \in [Mod -> Nat] /\ uplink \in Seq(DbReport)
      BY DEF ReportTypes
    <3>2. \/ UNCHANGED <<counted, uplink>>
          \/ \E r \in DbReport : /\ counted' = [counted EXCEPT ![r.mod] = @ + 1]
                                 /\ uplink' = Append(uplink, r)
      BY <1>3, CommitEffect
    <3>3. \A r \in DbReport : r.mod \in Mod /\ counted[r.mod] + 1 \in Nat
      BY <3>1 DEF DbReport
    <3>4. ASSUME NEW r \in DbReport, counted' = [counted EXCEPT ![r.mod] = @ + 1],
                 uplink' = Append(uplink, r)
          PROVE  counted' \in [Mod -> Nat] /\ uplink' \in Seq(DbReport)
      BY <3>1, <3>3, <3>4, AppendProperties
    <3> QED  BY <3>1, <3>2, <3>4
  <2> QED  BY <1>1, <2>1, <2>2 DEF ReportTypes
<1>4. ASSUME NEW w \in Worker, NEW r \in DbReport, ReadsIndex(w, r), uplink' \in Seq(DbReport),
             counted' = counted
      PROVE  ReportTypes'
  <2>1. /\ at' = [at EXCEPT ![w] = "read"] /\ hand' = [hand EXCEPT ![w] = r]
        /\ UNCHANGED <<given, queue, todo, rows>>
    BY <1>4, ReadEffect
  <2> QED  BY <1>1, <1>4, <2>1 DEF ReportTypes
<1>5. CASE Carry
  <2>1. uplink \in Seq(DbReport) /\ uplink # <<>>
    BY <1>5 DEF Carry, ReportTypes
  <2>2. Head(uplink) \in DbReport /\ Tail(uplink) \in Seq(DbReport)
    BY ONLY <2>1, FirstTaken
  <2> QED  BY <1>4, <1>5, <2>2, PathAssumption DEF Carry
<1>6. ASSUME NEW w \in Worker, NEW m \in Mod, OtherReports(w, m) PROVE ReportTypes'
  <2>1. [mod |-> m, by |-> w, n |-> budget.others] \in DbReport
    BY DEF DbReport, ReportTypes
  <2>2. uplink' \in Seq(DbReport) /\ counted' = counted
    BY <1>6 DEF OtherReports, pathVars, ReportTypes
  <2> QED  BY <1>4, <1>6, <2>1, <2>2 DEF OtherReports
<1>7. ASSUME NEW w \in Worker, DealsReport(w), UNCHANGED pathVars PROVE ReportTypes'
  <2>1. at' \in [Worker -> {"out", "read", "sent", "reduce"}] /\ UNCHANGED <<rows, counted, uplink>>
    BY <1>7, DealEffect DEF ReportTypes, pathVars
  <2>2. CASE UNCHANGED <<hand, given, queue, todo>>
    BY <1>1, <2>1, <2>2 DEF ReportTypes
  <2>3. CASE at[w] = "read" /\ hand' = [hand EXCEPT ![w] = NoReport]
             /\ UNCHANGED <<given, queue, todo>>
    BY <1>1, <2>1, <2>3 DEF ReportTypes
  <2>4. ASSUME NEW i \in DbThread, hand[w] \in DbReport,
               hand' = [hand EXCEPT ![w] = NoReport],
               queue' = [queue EXCEPT ![i] = Append(@, hand[w])],
               given' = [given EXCEPT ![i] = Append(@, hand[w])],
               todo' = IF queue[i] = <<>> THEN [todo EXCEPT ![i] = Host] ELSE todo
        PROVE  ReportTypes'
    <3>1. /\ Append(queue[i], hand[w]) \in Seq(DbReport)
          /\ Append(given[i], hand[w]) \in Seq(DbReport)
      BY <2>4, AppendProperties DEF ReportTypes
    <3> QED  BY <1>1, <2>1, <2>4, <3>1 DEF ReportTypes
  <2>5. at[w] = "read" => hand[w] \in DbReport
    BY DEF AtHand
  <2> QED  BY <1>7, <2>2, <2>3, <2>4, <2>5, DealEffect
<1>8. ASSUME NEW i \in DbThread, Store(i), UNCHANGED pathVars PROVE ReportTypes'
  <2>1. PICK h \in Host :
           /\ h \in todo[i] /\ StoredOne(i, h)
           /\ UNCHANGED <<at, hand, given>>
           /\ \/ rows' = [rows EXCEPT ![Head(queue[i]).mod][h] = Head(queue[i])]
              \/ rows' = rows
    BY <1>8, StoreEffect
  <2>2. queue[i] \in Seq(DbReport) /\ queue[i] # <<>>
    BY <2>1 DEF AtHand, ReportTypes
  <2>3. Head(queue[i]) \in DbReport
    BY ONLY <2>2, FirstTaken
  <2>4. rows' \in [Mod -> [Host -> DbReport \cup {NoReport}]]
    <3>1. rows \in [Mod -> [Host -> DbReport \cup {NoReport}]]
      BY DEF ReportTypes
    <3>2. PICK r \in DbReport : r = Head(queue[i])
      BY <2>3
    <3>3. PICK m : m = r.mod
      OBVIOUS
    <3>4. rows' = [rows EXCEPT ![m][h] = r] \/ rows' = rows
      BY <2>1, <3>2, <3>3
    <3>5. rows' = [rows EXCEPT ![m] = [rows[m] EXCEPT ![h] = r]] \/ rows' = rows
      BY <3>4
    <3>6. m \in Mod => [rows[m] EXCEPT ![h] = r] \in [Host -> DbReport \cup {NoReport}]
      BY <3>1
    <3> QED  BY ONLY <3>1, <3>5, <3>6
  <2>5. queue' \in [DbThread -> Seq(DbReport)] /\ todo' \in [DbThread -> SUBSET Host]
    BY <2>1, <2>2, StoredOneTypes
  <2> QED  BY <1>1, <1>8, <2>1, <2>4, <2>5 DEF ReportTypes, pathVars
<1> QED  BY <1>2, <1>3, <1>5, <1>6, <1>7, <1>8, StepsOfReports DEF Reporting

LEMMA NoReportIsNone == NoReport \notin DbReport
<1>1. \A r \in DbReport : DOMAIN r = {"mod", "by", "n"}
  BY DEF DbReport
<1>2. DOMAIN NoReport = {"mod"}
  BY DEF NoReport
<1> QED  BY <1>1, <1>2

LEMMA InitAtHand == Init => AtHand
BY DEF Init, ReporterInit, AtHand

LEMMA NextAtHand ==
  ASSUME ApiTypes, ReportTypes, AtHand, [Next]_vars
  PROVE  AtHand'
<1>0. /\ at \in [Worker -> {"out", "read", "sent", "reduce"}]
      /\ hand \in [Worker -> DbReport \cup {NoReport}]
      /\ queue \in [DbThread -> Seq(DbReport)] /\ todo \in [DbThread -> SUBSET Host]
  BY DEF ReportTypes
<1>1. CASE UNCHANGED reportState
  BY <1>1 DEF reportState, AtHand
<1>2. ASSUME NEW p \in Port, ReportHost(p) PROVE AtHand'
  <2>1. UNCHANGED <<at, hand, queue, todo>>
    BY <1>2, CommitEffect
  <2> QED  BY <2>1 DEF AtHand
<1>3. ASSUME NEW w \in Worker, NEW r \in DbReport, ReadsIndex(w, r) PROVE AtHand'
  <2>1. /\ at' = [at EXCEPT ![w] = "read"] /\ hand' = [hand EXCEPT ![w] = r]
        /\ UNCHANGED <<queue, todo>>
    BY <1>3, ReadEffect
  <2> QED  BY <1>0, <2>1 DEF AtHand
<1>4. CASE Carry
  <2>1. uplink \in Seq(DbReport) /\ uplink # <<>>
    BY <1>4 DEF Carry, ReportTypes
  <2>2. Head(uplink) \in DbReport
    BY ONLY <2>1, FirstTaken
  <2> QED  BY <1>3, <1>4, <2>2, PathAssumption DEF Carry
<1>5. ASSUME NEW w \in Worker, NEW m \in Mod, OtherReports(w, m) PROVE AtHand'
  <2>1. [mod |-> m, by |-> w, n |-> budget.others] \in DbReport
    BY DEF DbReport, ReportTypes
  <2> QED  BY <1>3, <1>5, <2>1 DEF OtherReports
<1>6. ASSUME NEW w \in Worker, DealsReport(w) PROVE AtHand'
  <2>1. CASE at[w] # "read" /\ UNCHANGED <<hand, queue, todo>>
    <3>1. \E s \in {"reduce", "out", "sent"} : at' = [at EXCEPT ![w] = s]
      BY <1>6, DealEffect
    <3> QED  BY <1>0, <2>1, <3>1 DEF AtHand
  <2>2. CASE at' = [at EXCEPT ![w] = "sent"] /\ hand' = [hand EXCEPT ![w] = NoReport]
    <3>1. \A v \in Worker : IF at'[v] = "read" THEN hand'[v] \in DbReport ELSE hand'[v] = NoReport
      BY <1>0, <2>2 DEF AtHand
    <3>2. CASE UNCHANGED <<queue, todo>>
      BY <3>1, <3>2 DEF AtHand
    <3>3. ASSUME NEW i \in DbThread, hand[w] \in DbReport,
                 queue' = [queue EXCEPT ![i] = Append(@, hand[w])],
                 todo' = IF queue[i] = <<>> THEN [todo EXCEPT ![i] = Host] ELSE todo
          PROVE  AtHand'
      <4>1. Append(queue[i], hand[w]) # <<>>
        <5>1. queue[i] \in Seq(DbReport)
          BY <1>0
        <5>2. Len(Append(queue[i], hand[w])) = Len(queue[i]) + 1 /\ Len(queue[i]) \in Nat
          BY ONLY <3>3, <5>1, AppendProperties, LenProperties
        <5> QED  BY <5>2, EmptySeq
      <4>2. ASSUME NEW j \in DbThread, queue'[j] = <<>> PROVE todo'[j] = {}
        <5>1. j # i /\ queue[j] = <<>> /\ todo'[j] = todo[j]
          BY <1>0, <3>3, <4>1, <4>2
        <5> QED  BY <5>1 DEF AtHand
      <4> QED  BY <3>1, <4>2 DEF AtHand
    <3>4. hand[w] \in DbReport \/ UNCHANGED <<queue, todo>>
      BY <1>6, DealEffect DEF AtHand
    <3>5. \/ UNCHANGED <<queue, todo>>
          \/ \E i \in DbThread :
               /\ queue' = [queue EXCEPT ![i] = Append(@, hand[w])]
               /\ todo' = IF queue[i] = <<>> THEN [todo EXCEPT ![i] = Host] ELSE todo
      BY <1>6, DealEffect
    <3> QED  BY <3>2, <3>3, <3>4, <3>5
  <2> QED  BY <1>6, <2>1, <2>2, DealEffect
<1>7. ASSUME NEW i \in DbThread, Store(i) PROVE AtHand'
  <2>1. PICK h \in Host : h \in todo[i] /\ StoredOne(i, h) /\ UNCHANGED <<at, hand>>
    BY <1>7, StoreEffect
  <2>2. queue[i] # <<>>
    BY <2>1 DEF AtHand
  <2>3. /\ \A j \in DbThread \ {i} : queue'[j] = queue[j] /\ todo'[j] = todo[j]
        /\ IF todo[i] = {h}
           THEN /\ queue'[i] = Tail(queue[i])
                /\ todo'[i] = IF queue'[i] = <<>> THEN {} ELSE Host
           ELSE queue'[i] = queue[i] /\ todo'[i] = todo[i] \ {h}
    BY <2>1, <2>2, StoredOneTypes
  <2>4. queue'[i] = <<>> => todo'[i] = {}
    BY <2>2, <2>3
  <2> QED  BY <2>1, <2>3, <2>4 DEF AtHand
<1> QED  BY <1>1, <1>2, <1>4, <1>5, <1>6, <1>7, StepsOfReports DEF Reporting

-----------------------------------------------------------------------------
Distinct(s) == \A i, j \in DOMAIN s : s[i] = s[j] => i = j

LEMMA DistinctAppended ==
  ASSUME NEW S, NEW s \in Seq(S), NEW e \in S, Distinct(s), e \notin ToSet(s)
  PROVE  Distinct(Append(s, e))
<1>1. /\ Append(s, e) \in Seq(S) /\ Len(Append(s, e)) = Len(s) + 1
      /\ \A i \in 1..Len(s) : Append(s, e)[i] = s[i]
      /\ Append(s, e)[Len(s) + 1] = e
  BY AppendProperties
<1>2. Len(s) \in Nat /\ DOMAIN s = 1..Len(s) /\ DOMAIN Append(s, e) = 1..(Len(s) + 1)
  BY <1>1, LenProperties
<1>3. \A i \in 1..(Len(s) + 1) : i \in 1..Len(s) \/ i = Len(s) + 1
  BY <1>2
<1>4. \A i \in 1..Len(s) : s[i] # e
  BY <1>2 DEF ToSet
<1> QED  BY <1>1, <1>2, <1>3, <1>4 DEF Distinct

LEMMA DistinctTaken ==
  ASSUME NEW S, NEW s \in Seq(S), s # <<>>, Distinct(s)
  PROVE  Distinct(Tail(s)) /\ Head(s) \notin ToSet(Tail(s))
<1>1. /\ Head(s) = s[1] /\ Len(s) \in Nat \ {0} /\ DOMAIN s = 1..Len(s)
      /\ DOMAIN Tail(s) = 1..(Len(s) - 1)
      /\ \A i \in 1..(Len(s) - 1) : Tail(s)[i] = s[i + 1]
  BY FirstTaken
<1>2. \A i \in 1..(Len(s) - 1) : i + 1 \in 1..Len(s) /\ i + 1 # 1
  BY <1>1
<1>3. ASSUME NEW i \in DOMAIN Tail(s), NEW j \in DOMAIN Tail(s), Tail(s)[i] = Tail(s)[j]
      PROVE  i = j
  <2>1. i \in Int /\ j \in Int /\ i + 1 = j + 1
    BY <1>1, <1>2, <1>3 DEF Distinct
  <2> QED  BY <2>1
<1>4. \A i \in DOMAIN Tail(s) : Tail(s)[i] # Head(s)
  <2>1. 1 \in 1..Len(s)
    BY <1>1
  <2> QED  BY <1>1, <1>2, <2>1 DEF Distinct
<1> QED  BY <1>3, <1>4 DEF Distinct, ToSet

(* The reports are numbered: those this agent has committed, and those of  *)
(* others.                                                                 *)
Counted(r) == IF r.by = Agent THEN r.n <= counted[r.mod] ELSE r.n > budget["others"]
Given(r)   == \E i \in DbThread : r \in ToSet(given[i])

(* No report is dealt twice: one that is on its way or at hand is at one   *)
(* place, and no database thread has been given it.                        *)
Once == /\ \A r \in ToSet(uplink) : /\ r.by = Agent /\ Counted(r) /\ ~Given(r)
                                    /\ \A w \in Worker : hand[w] # r
        /\ Distinct(uplink)
        /\ \A w \in Worker : \A r \in DbReport :
             hand[w] = r => r.by = w /\ Counted(r) /\ ~Given(r)
        /\ \A r \in DbReport : Given(r) => Counted(r)
        /\ \A i \in DbThread : Distinct(given[i])

LEMMA InitOnce == Init => Once
<1> SUFFICES ASSUME Init PROVE Once
  OBVIOUS
<1>1. uplink = <<>> /\ ToSet(uplink) = {}
  BY DEF Init, ToSet
<1>2. Distinct(uplink)
  BY <1>1 DEF Distinct
<1>3. \A i \in DbThread : given[i] = <<>> /\ ToSet(given[i]) = {} /\ Distinct(given[i])
  BY DEF Init, ReporterInit, ToSet, Distinct
<1>4. \A w \in Worker : hand[w] = NoReport
  BY DEF Init, ReporterInit
<1> QED  BY <1>1, <1>2, <1>3, <1>4, NoReportIsNone DEF Once, Given

LEMMA CountedGrows ==
  ASSUME ApiTypes, ReportTypes, [Next]_vars
  PROVE  \A r \in DbReport : Counted(r) => Counted(r)'
<1>1. /\ budget'["others"] \in Nat /\ budget["others"] \in Nat
      /\ budget'["others"] <= budget["others"]
  BY BudgetShrinks DEF ReportTypes
<1>2. counted \in [Mod -> Nat]
  BY DEF ReportTypes
<1>3. \A m \in Mod : counted'[m] \in Nat /\ counted[m] <= counted'[m]
  <2>1. CASE counted' = counted
    BY <1>2, <2>1
  <2>2. ASSUME NEW p \in Port, ReportHost(p), counted' # counted
        PROVE  \A m \in Mod : counted'[m] \in Nat /\ counted[m] <= counted'[m]
    <3>1. PICK r \in DbReport : counted' = [counted EXCEPT ![r.mod] = @ + 1]
      BY <2>2, CommitEffect
    <3> QED  BY <1>2, <3>1 DEF DbReport
  <2>3. counted' = counted \/ \E p \in Port : ReportHost(p)
    BY StepsOfReports DEF reportState, Carry, OtherReports, Reporting, pathVars
  <2> QED  BY <2>1, <2>2, <2>3
<1>4. ASSUME NEW r \in DbReport, Counted(r) PROVE Counted(r)'
  <2>1. r.n \in Nat /\ r.mod \in Mod
    BY DEF DbReport
  <2> QED  BY <1>1, <1>2, <1>3, <1>4, <2>1 DEF Counted
<1> QED  BY <1>4

LEMMA NextOnce ==
  ASSUME ApiTypes, ReportTypes, AtHand, Once, [Next]_vars
  PROVE  Once'
<1>0. /\ at \in [Worker -> {"out", "read", "sent", "reduce"}]
      /\ hand \in [Worker -> DbReport \cup {NoReport}]
      /\ given \in [DbThread -> Seq(DbReport)] /\ uplink \in Seq(DbReport)
      /\ ToSet(uplink) \subseteq DbReport
  BY DEF ReportTypes, ToSet
<1>1. \A r \in DbReport : Counted(r) => Counted(r)'
  BY CountedGrows
<1>2. CASE UNCHANGED <<hand, given, uplink>>
  <2>1. \A r : Given(r)' <=> Given(r)
    BY <1>2 DEF Given, ToSet
  <2>2. \A w \in Worker : \A r \in DbReport :
          hand'[w] = r => r.by = w /\ Counted(r)' /\ ~Given(r)'
    BY <1>1, <1>2, <2>1 DEF Once
  <2>3. \A r \in ToSet(uplink) : /\ r.by = Agent /\ Counted(r)' /\ ~Given(r)'
                                 /\ \A w \in Worker : hand'[w] # r
    BY <1>0, <1>1, <1>2, <2>1 DEF Once
  <2>4. Distinct(uplink') /\ \A i \in DbThread : Distinct(given'[i])
    BY <1>2 DEF Once
  <2>5. \A r \in DbReport : Given(r)' => Counted(r)'
    BY <1>1, <2>1 DEF Once
  <2>6. ToSet(uplink') = ToSet(uplink)
    BY <1>2
  <2> QED  BY <2>2, <2>3, <2>4, <2>5, <2>6 DEF Once, Distinct, ToSet
<1>3. ASSUME NEW p \in Port, ReportHost(p), uplink' # uplink PROVE Once'
  <2>1. PICK r \in DbReport :
          /\ r.by = Agent /\ r.n = counted[r.mod] + 1
          /\ counted' = [counted EXCEPT ![r.mod] = @ + 1]
          /\ uplink' = Append(uplink, r)
          /\ UNCHANGED <<hand, given>>
    BY <1>3, CommitEffect
  <2>2. ~Counted(r) /\ Counted(r)'
    <3>1. r.mod \in Mod /\ counted[r.mod] \in Nat
      BY DEF DbReport, ReportTypes
    <3>2. counted'[r.mod] = r.n
      BY <2>1, <3>1 DEF ReportTypes
    <3> QED  BY <2>1, <3>1, <3>2 DEF Counted
  <2>3. \A x : Given(x)' <=> Given(x)
    BY <2>1 DEF Given, ToSet
  <2>4. ToSet(uplink') = ToSet(uplink) \cup {r} /\ Distinct(uplink')
    <3>1. r \notin ToSet(uplink) /\ Distinct(uplink)
      BY <2>2 DEF Once
    <3> QED  BY <1>0, <2>1, <3>1, ElementsAppended, DistinctAppended
  <2>5. ~Given(r) /\ \A w \in Worker : hand[w] # r
    BY <2>2 DEF Once
  <2>6. \A x \in ToSet(uplink') : /\ x.by = Agent /\ Counted(x)' /\ ~Given(x)'
                                  /\ \A w \in Worker : hand'[w] # x
    BY <1>0, <1>1, <2>1, <2>2, <2>3, <2>4, <2>5 DEF Once
  <2>7. \A w \in Worker : \A x \in DbReport :
          hand'[w] = x => x.by = w /\ Counted(x)' /\ ~Given(x)'
    BY <1>1, <2>1, <2>3 DEF Once
  <2>8. \A x \in DbReport : Given(x)' => Counted(x)'
    BY <1>1, <2>3 DEF Once
  <2>9. \A i \in DbThread : Distinct(given'[i])
    BY <2>1 DEF Once
  <2> QED  BY <2>4, <2>6, <2>7, <2>8, <2>9 DEF Once, Distinct, ToSet
<1>4. ASSUME NEW w \in Worker, NEW r \in DbReport, ReadsIndex(w, r),
             r.by = w, Counted(r)', ~Given(r), r \notin ToSet(uplink'),
             ToSet(uplink') \subseteq ToSet(uplink), Distinct(uplink')
      PROVE  Once'
  <2>1. hand' = [hand EXCEPT ![w] = r] /\ given' = given
    BY <1>4, ReadEffect
  <2>2. \A x : Given(x)' <=> Given(x)
    BY <2>1 DEF Given, ToSet
  <2>3. \A v \in Worker : hand'[v] = IF v = w THEN r ELSE hand[v]
    BY <1>0, <2>1
  <2>4. \A x \in ToSet(uplink') : /\ x.by = Agent /\ Counted(x)' /\ ~Given(x)'
                                  /\ \A v \in Worker : hand'[v] # x
    BY <1>0, <1>1, <1>4, <2>2, <2>3 DEF Once
  <2>5. \A v \in Worker : \A x \in DbReport :
          hand'[v] = x => x.by = v /\ Counted(x)' /\ ~Given(x)'
    BY <1>1, <1>4, <2>2, <2>3 DEF Once
  <2>6. \A x \in DbReport : Given(x)' => Counted(x)'
    BY <1>1, <2>2 DEF Once
  <2>7. \A i \in DbThread : Distinct(given'[i])
    BY <2>1 DEF Once
  <2> QED  BY <1>4, <2>4, <2>5, <2>6, <2>7 DEF Once, Distinct, ToSet
<1>5. CASE Carry
  <2>1. uplink # <<>> /\ uplink' = Tail(uplink) /\ ReadsIndex(Agent, Head(uplink))
    BY <1>5 DEF Carry
  <2>2. /\ Head(uplink) \in DbReport /\ Head(uplink) \in ToSet(uplink)
        /\ ToSet(Tail(uplink)) \subseteq ToSet(uplink)
        /\ Distinct(Tail(uplink)) /\ Head(uplink) \notin ToSet(Tail(uplink))
    <3>1. uplink \in Seq(DbReport) /\ uplink # <<>> /\ Distinct(uplink)
      BY <1>0, <2>1 DEF Once
    <3> QED  BY ONLY <3>1, FirstTaken, ElementsTaken, DistinctTaken
  <2>3. PICK r \in DbReport : r = Head(uplink)
    BY <2>2
  <2>4. r.by = Agent /\ Counted(r) /\ ~Given(r)
    BY <2>2, <2>3 DEF Once
  <2> QED  BY <1>1, <1>4, <2>1, <2>2, <2>3, <2>4, PathAssumption
<1>6. ASSUME NEW w \in Worker \ {Agent}, NEW m \in Mod, OtherReports(w, m) PROVE Once'
  <2> DEFINE x == [mod |-> m, by |-> w, n |-> budget["others"]]
  <2>1. /\ budget["others"] \in Nat /\ budget'["others"] = budget["others"] - 1
        /\ budget["others"] > 0
    <3>1. Costs({"others"}) /\ "others" \in DOMAIN budget /\ budget["others"] \in Nat
      BY <1>6 DEF OtherReports, ReportTypes
    <3> QED  BY <3>1, CostsShrink
  <2>2. ReadsIndex(w, x) /\ uplink' = uplink
    BY <1>6 DEF OtherReports, pathVars
  <2>3. PICK r \in DbReport : r = x /\ r.by = w /\ r.n = budget["others"]
    <3>1. m \in Mod /\ w \in Worker /\ budget["others"] \in Nat
      BY <2>1, <1>6
    <3>2. x \in DbReport /\ x.by = w /\ x.n = budget["others"]
      BY ONLY <3>1 DEF DbReport
    <3> QED  BY ONLY <3>2
  <2> HIDE DEF x
  <2>4. ~Counted(r) /\ Counted(r)'
    BY <2>1, <2>3 DEF Counted
  <2>5. ~Given(r) /\ r \notin ToSet(uplink) /\ Distinct(uplink)
    BY <2>4 DEF Once
  <2> QED  BY <1>4, <2>2, <2>3, <2>4, <2>5
<1>7. ASSUME NEW w \in Worker, DealsReport(w), uplink' = uplink PROVE Once'
  <2>1. CASE UNCHANGED <<hand, given>>
    BY <1>2, <1>7, <2>1
  <2>2. CASE hand' = [hand EXCEPT ![w] = NoReport] /\ given' = given
    <3>1. \A x : Given(x)' <=> Given(x)
      BY <2>2 DEF Given, ToSet
    <3>2. \A v \in Worker : hand'[v] = IF v = w THEN NoReport ELSE hand[v]
      BY <1>0, <2>2
    <3>3. \A x \in ToSet(uplink) : /\ x.by = Agent /\ Counted(x)' /\ ~Given(x)'
                                   /\ \A v \in Worker : hand'[v] # x
      BY <1>0, <1>1, <3>1, <3>2, NoReportIsNone DEF Once
    <3>4. \A v \in Worker : \A x \in DbReport :
            hand'[v] = x => x.by = v /\ Counted(x)' /\ ~Given(x)'
      BY <1>1, <3>1, <3>2, NoReportIsNone DEF Once
    <3>5. \A x \in DbReport : Given(x)' => Counted(x)'
      BY <1>1, <3>1 DEF Once
    <3>6. Distinct(uplink') /\ \A i \in DbThread : Distinct(given'[i])
      BY <1>7, <2>2 DEF Once
    <3>7. ToSet(uplink') = ToSet(uplink)
      BY <1>7
    <3> QED  BY <3>3, <3>4, <3>5, <3>6, <3>7 DEF Once, Distinct, ToSet
  <2>3. ASSUME NEW i \in DbThread, hand[w] \in DbReport,
               hand' = [hand EXCEPT ![w] = NoReport],
               given' = [given EXCEPT ![i] = Append(@, hand[w])]
        PROVE  Once'
    <3>1. PICK r \in DbReport : r = hand[w]
      BY <2>3
    <3>2. r.by = w /\ Counted(r) /\ ~Given(r) /\ r \notin ToSet(uplink)
      BY <3>1 DEF Once
    <3>3. /\ given'[i] = Append(given[i], r)
          /\ \A j \in DbThread \ {i} : given'[j] = given[j]
      BY <1>0, <2>3, <3>1
    <3>4. /\ ToSet(Append(given[i], r)) = ToSet(given[i]) \cup {r}
          /\ Distinct(Append(given[i], r))
      <4>1. given[i] \in Seq(DbReport) /\ Distinct(given[i]) /\ r \notin ToSet(given[i])
        BY <1>0, <3>2 DEF Once, Given
      <4> QED  BY ONLY <4>1, ElementsAppended, DistinctAppended
    <3>5. \A x : Given(x)' <=> Given(x) \/ x = r
      <4>1. \A x : Given(x)' <=> \E j \in DbThread : x \in ToSet(given'[j])
        BY DEF Given, ToSet
      <4> QED  BY <3>3, <3>4, <4>1 DEF Given
    <3>6. \A v \in Worker : hand'[v] = IF v = w THEN NoReport ELSE hand[v]
      BY <1>0, <2>3
    <3>7. \A v \in Worker : \A x \in DbReport :
            hand'[v] = x => x.by = v /\ Counted(x)' /\ ~Given(x)'
      BY <1>1, <3>2, <3>5, <3>6, NoReportIsNone DEF Once
    <3>8. \A x \in ToSet(uplink) : /\ x.by = Agent /\ Counted(x)' /\ ~Given(x)'
                                   /\ \A v \in Worker : hand'[v] # x
      BY <1>0, <1>1, <3>2, <3>5, <3>6, NoReportIsNone DEF Once
    <3>9. \A x \in DbReport : Given(x)' => Counted(x)'
      BY <1>1, <3>2, <3>5 DEF Once
    <3>10. \A j \in DbThread : Distinct(given'[j])
      BY <3>3, <3>4 DEF Once
    <3>11. Distinct(uplink') /\ ToSet(uplink') = ToSet(uplink)
      BY <1>7 DEF Once
    <3> QED  BY <3>7, <3>8, <3>9, <3>10, <3>11 DEF Once, Distinct, ToSet
  <2>4. at[w] = "read" => hand[w] \in DbReport
    BY DEF AtHand
  <2> QED  BY <1>7, <2>1, <2>2, <2>3, <2>4, DealEffect
<1>8. ASSUME NEW i \in DbThread, Store(i), uplink' = uplink PROVE Once'
  BY <1>2, <1>8, StoreEffect
<1>9. CASE UNCHANGED reportState
  BY <1>2, <1>9 DEF reportState
<1>10. ASSUME NEW p \in Port, ReportHost(p), uplink' = uplink PROVE Once'
  BY <1>2, <1>10, CommitEffect
<1> QED
  BY <1>3, <1>5, <1>6, <1>7, <1>8, <1>9, <1>10, StepsOfReports DEF Reporting, pathVars

-----------------------------------------------------------------------------
(* A database thread is given a report, or deals with a result of one.     *)
Sent(i, r) == /\ queue' = [queue EXCEPT ![i] = Append(@, r)]
              /\ given' = [given EXCEPT ![i] = Append(@, r)]
              /\ todo' = IF queue[i] = <<>> THEN [todo EXCEPT ![i] = Host] ELSE todo
              /\ UNCHANGED <<rows, refused>>

Dealt(i, h) == /\ h \in todo[i] /\ StoredOne(i, h) /\ given' = given
               /\ \/ /\ rows' = [rows EXCEPT ![Head(queue[i]).mod][h] = Head(queue[i])]
                     /\ refused' = refused
                  \/ rows' = rows /\ refused' = refused \cup {<<Head(queue[i]), h>>}

LEMMA StepsOfRows ==
  ASSUME ApiTypes, ReportTypes, AtHand, [Next]_vars
  PROVE  \/ UNCHANGED <<given, queue, todo, rows, refused>>
         \/ \E i \in DbThread, r \in DbReport : Sent(i, r)
         \/ \E i \in DbThread, h \in Host : Dealt(i, h)
<1>1. CASE UNCHANGED reportState
  BY <1>1 DEF reportState
<1>2. ASSUME NEW p \in Port, ReportHost(p) PROVE UNCHANGED <<given, queue, todo, rows, refused>>
  BY <1>2, CommitEffect
<1>3. CASE Carry
  BY <1>3, ReadEffect, PathAssumption DEF Carry
<1>4. ASSUME NEW w \in Worker, NEW m \in Mod, OtherReports(w, m)
      PROVE  UNCHANGED <<given, queue, todo, rows, refused>>
  BY <1>4, ReadEffect DEF OtherReports
<1>5. ASSUME NEW w \in Worker, DealsReport(w)
      PROVE  \/ UNCHANGED <<given, queue, todo, rows, refused>>
             \/ \E i \in DbThread, r \in DbReport : Sent(i, r)
  <2>1. at[w] = "read" => hand[w] \in DbReport
    BY DEF AtHand
  <2>2. /\ UNCHANGED <<rows, refused>>
        /\ \/ UNCHANGED <<given, queue, todo>>
           \/ /\ at[w] = "read"
              /\ \E i \in DbThread :
                   /\ queue' = [queue EXCEPT ![i] = Append(@, hand[w])]
                   /\ given' = [given EXCEPT ![i] = Append(@, hand[w])]
                   /\ todo' = IF queue[i] = <<>> THEN [todo EXCEPT ![i] = Host] ELSE todo
    BY <1>5, DealEffect
  <2> QED  BY <2>1, <2>2 DEF Sent
<1>6. ASSUME NEW i \in DbThread, Store(i) PROVE \E h \in Host : Dealt(i, h)
  BY <1>6, StoreEffect DEF Dealt
<1> QED  BY <1>1, <1>2, <1>3, <1>4, <1>5, <1>6, StepsOfReports DEF Reporting

(* Sequence q is the end of g. *)
Ends(q, g) == /\ Len(q) <= Len(g)
              /\ \A j \in 1..Len(q) : q[j] = g[Len(g) - Len(q) + j]

LEMMA EndsAppended ==
  ASSUME NEW S, NEW q \in Seq(S), NEW g \in Seq(S), NEW e \in S, Ends(q, g)
  PROVE  Ends(Append(q, e), Append(g, e))
<1>1. PICK a \in Nat, b \in Nat : a = Len(g) /\ b = Len(q)
  BY LenProperties
<1>2. b <= a /\ \A j \in 1..b : q[j] = g[a - b + j]
  BY <1>1 DEF Ends
<1>3. /\ Len(Append(g, e)) = a + 1 /\ Append(g, e)[a + 1] = e
      /\ \A j \in 1..a : Append(g, e)[j] = g[j]
  BY <1>1, AppendProperties
<1>4. /\ Len(Append(q, e)) = b + 1 /\ Append(q, e)[b + 1] = e
      /\ \A j \in 1..b : Append(q, e)[j] = q[j]
  BY <1>1, AppendProperties
<1>5. ASSUME NEW j \in 1..(b + 1)
      PROVE  Append(q, e)[j] = Append(g, e)[(a + 1) - (b + 1) + j]
  <2>1. CASE j \in 1..b
    <3>1. (a + 1) - (b + 1) + j = a - b + j /\ a - b + j \in 1..a
      BY ONLY a \in Nat, b \in Nat, <1>2, <2>1
    <3> QED  BY <1>2, <1>3, <1>4, <2>1, <3>1
  <2>2. CASE j = b + 1
    <3>1. (a + 1) - (b + 1) + j = a + 1
      BY <2>2
    <3> QED  BY <1>3, <1>4, <2>2, <3>1
  <2>3. j \in 1..b \/ j = b + 1
    OBVIOUS
  <2> QED  BY <2>1, <2>2, <2>3
<1>6. Len(Append(g, e)) = a + 1 /\ Len(Append(q, e)) = b + 1 /\ b + 1 <= a + 1
  BY <1>2, <1>3, <1>4
<1> QED  BY ONLY <1>5, <1>6 DEF Ends

LEMMA EndsTaken ==
  ASSUME NEW S, NEW q \in Seq(S), NEW g \in Seq(S), q # <<>>, Ends(q, g)
  PROVE  Ends(Tail(q), g)
<1>1. PICK a \in Nat, b \in Nat \ {0} : a = Len(g) /\ b = Len(q)
  BY FirstTaken, LenProperties
<1>2. b <= a /\ \A j \in 1..b : q[j] = g[a - b + j]
  BY <1>1 DEF Ends
<1>3. Len(Tail(q)) = b - 1 /\ \A j \in 1..(b - 1) : Tail(q)[j] = q[j + 1]
  BY <1>1, FirstTaken
<1>4. ASSUME NEW j \in 1..(b - 1)
      PROVE  Tail(q)[j] = g[a - (b - 1) + j]
  <2>1. j + 1 \in 1..b /\ a - b + (j + 1) = a - (b - 1) + j
    OBVIOUS
  <2> QED  BY <1>2, <1>3, <2>1
<1> QED  BY <1>1, <1>2, <1>3, <1>4 DEF Ends

(* A queue is the end of what its thread has been given. *)
Queues  == \A i \in DbThread : Ends(queue[i], given[i])

LEMMA InitQueues == Init => Queues
<1> SUFFICES ASSUME Init PROVE Queues
  OBVIOUS
<1>1. \A i \in DbThread : given[i] = <<>> /\ queue[i] = <<>>
  BY DEF Init, ReporterInit
<1>2. Ends(<<>>, <<>>)
  BY DEF Ends
<1> QED  BY <1>1, <1>2 DEF Queues

LEMMA NextQueues ==
  ASSUME ApiTypes, ReportTypes, AtHand, Queues, [Next]_vars
  PROVE  Queues'
<1>0. given \in [DbThread -> Seq(DbReport)] /\ queue \in [DbThread -> Seq(DbReport)]
  BY DEF ReportTypes
<1>1. CASE UNCHANGED <<given, queue, todo, rows, refused>>
  BY <1>1 DEF Queues
<1>2. ASSUME NEW i \in DbThread, NEW r \in DbReport, Sent(i, r) PROVE Queues'
  <2>1. \A j \in DbThread :
          /\ queue'[j] = IF j = i THEN Append(queue[j], r) ELSE queue[j]
          /\ given'[j] = IF j = i THEN Append(given[j], r) ELSE given[j]
    BY <1>0, <1>2 DEF Sent
  <2>2. Ends(Append(queue[i], r), Append(given[i], r))
    BY <1>0, EndsAppended DEF Queues
  <2> QED  BY <2>1, <2>2 DEF Queues
<1>3. ASSUME NEW i \in DbThread, NEW h \in Host, Dealt(i, h) PROVE Queues'
  <2>1. queue[i] # <<>> /\ given' = given /\ h \in todo[i] /\ StoredOne(i, h)
    BY <1>3 DEF AtHand, Dealt
  <2>2. /\ \A j \in DbThread \ {i} : queue'[j] = queue[j]
        /\ queue'[i] = queue[i] \/ queue'[i] = Tail(queue[i])
    BY <2>1, StoredOneTypes
  <2>3. Ends(Tail(queue[i]), given[i])
    BY <1>0, <2>1, EndsTaken DEF Queues
  <2> QED  BY <2>1, <2>2, <2>3 DEF Queues
<1> QED  BY <1>1, <1>2, <1>3, StepsOfRows

LEMMA EndsDistinct ==
  ASSUME NEW S, NEW q \in Seq(S), NEW g \in Seq(S), Ends(q, g), Distinct(g)
  PROVE  Distinct(q)
<1>1. PICK a \in Nat, b \in Nat : a = Len(g) /\ b = Len(q)
  BY LenProperties
<1>2. /\ b <= a /\ \A j \in 1..b : q[j] = g[a - b + j]
      /\ DOMAIN q = 1..b /\ DOMAIN g = 1..a
  BY <1>1, LenProperties DEF Ends
<1>3. ASSUME NEW j \in 1..b, NEW k \in 1..b, q[j] = q[k] PROVE j = k
  <2>1. a - b + j \in 1..a /\ a - b + k \in 1..a
    BY ONLY a \in Nat, b \in Nat, <1>2, <1>3
  <2>2. a - b + j = a - b + k
    BY <1>2, <1>3, <2>1 DEF Distinct
  <2> QED  BY ONLY a \in Nat, b \in Nat, <1>3, <2>2
<1> QED  BY <1>2, <1>3 DEF Distinct

LEMMA EndsHead ==
  ASSUME NEW S, NEW q \in Seq(S), NEW g \in Seq(S), Ends(q, g), q # <<>>
  PROVE  \E k \in 1..Len(g) : /\ g[k] = Head(q)
                              /\ \A j \in (k + 1)..Len(g) : g[j] \in ToSet(Tail(q))
<1>1. PICK a \in Nat, b \in Nat \ {0} : a = Len(g) /\ b = Len(q)
  BY FirstTaken, LenProperties
<1>2. b <= a /\ \A j \in 1..b : q[j] = g[a - b + j]
  BY <1>1 DEF Ends
<1>3. /\ Head(q) = q[1] /\ DOMAIN Tail(q) = 1..(b - 1)
      /\ \A j \in 1..(b - 1) : Tail(q)[j] = q[j + 1]
  BY <1>1, FirstTaken
<1>4. PICK k \in 1..a : k = a - b + 1
  BY <1>2
<1>5. g[k] = Head(q)
  BY <1>2, <1>3, <1>4
<1>6. ASSUME NEW j \in (k + 1)..a PROVE g[j] \in ToSet(Tail(q))
  <2>1. PICK n \in 1..(b - 1) : n = j - k
    BY <1>2, <1>4
  <2>2. n + 1 \in 1..b /\ a - b + (n + 1) = j
    BY <1>4, <2>1
  <2>3. Tail(q)[n] = g[j]
    BY <1>2, <1>3, <2>1, <2>2
  <2> QED  BY <1>3, <2>3 DEF ToSet
<1> QED  BY <1>1, <1>5, <1>6

LEMMA ElementsSplit ==
  ASSUME NEW S, NEW s \in Seq(S), s # <<>>
  PROVE  /\ ToSet(s) = {Head(s)} \cup ToSet(Tail(s))
         /\ \A r : r \in ToSet(Tail(s)) <=> \E j \in 2..Len(s) : s[j] = r
<1>1. PICK b \in Nat \ {0} : b = Len(s)
  BY FirstTaken
<1>2. /\ Head(s) = s[1] /\ DOMAIN s = 1..b /\ DOMAIN Tail(s) = 1..(b - 1)
      /\ \A j \in 1..(b - 1) : Tail(s)[j] = s[j + 1]
  BY <1>1, FirstTaken
<1>3. ASSUME NEW r, r \in ToSet(Tail(s)) PROVE \E j \in 2..b : s[j] = r
  <2>1. PICK n \in 1..(b - 1) : Tail(s)[n] = r
    BY <1>2, <1>3 DEF ToSet
  <2>2. n + 1 \in 2..b
    OBVIOUS
  <2> QED  BY <1>2, <2>1, <2>2
<1>4. ASSUME NEW r, NEW j \in 2..b, s[j] = r PROVE r \in ToSet(Tail(s))
  <2>1. PICK n \in 1..(b - 1) : n = j - 1
    OBVIOUS
  <2>2. n + 1 = j
    BY <2>1
  <2>3. Tail(s)[n] = r
    BY <1>2, <1>4, <2>2
  <2> QED  BY <1>2, <2>3 DEF ToSet
<1>5. \A j \in 1..b : j = 1 \/ j \in 2..b
  OBVIOUS
<1>6. \A r \in ToSet(s) : r = Head(s) \/ r \in ToSet(Tail(s))
  BY <1>2, <1>4, <1>5 DEF ToSet
<1>7. {Head(s)} \cup ToSet(Tail(s)) \subseteq ToSet(s)
  BY ElementsTaken
<1> QED  BY <1>1, <1>3, <1>4, <1>6, <1>7

(* Of a queue q whose first report has t left to do, result h of report r  *)
(* is not stored.  What is left is the results of its later reports, and   *)
(* what is to do of its first.                                             *)
Open(q, t, r, h) == \/ \E j \in 2..Len(q) : q[j] = r
                    \/ q # <<>> /\ Head(q) = r /\ h \in t

LEMMA OpenIs ==
  ASSUME NEW q \in Seq(DbReport), NEW t
  PROVE  /\ q = <<>> => \A r, h : ~Open(q, t, r, h)
         /\ q # <<>> => \A r, h : Open(q, t, r, h) <=> \/ r \in ToSet(Tail(q))
                                                       \/ r = Head(q) /\ h \in t
<1>1. CASE q = <<>>
  <2>1. Len(q) = 0 /\ 2..0 = {}
    BY <1>1
  <2> QED  BY <1>1, <2>1 DEF Open
<1>2. CASE q # <<>>
  <2>1. \A r : r \in ToSet(Tail(q)) <=> \E j \in 2..Len(q) : q[j] = r
    BY <1>2, ElementsSplit
  <2> QED  BY <1>2, <2>1 DEF Open
<1> QED  BY <1>1, <1>2

LEMMA OpenAppended ==
  ASSUME NEW q \in Seq(DbReport), NEW x \in DbReport, NEW t, NEW r, NEW h \in Host
  PROVE  Open(Append(q, x), IF q = <<>> THEN Host ELSE t, r, h)
           <=> Open(q, t, r, h) \/ r = x
<1>1. Append(q, x) \in Seq(DbReport) /\ Append(q, x) # <<>>
  BY AppendProperties, EmptySeq
<1>2. CASE q = <<>>
  <2>1. Head(Append(q, x)) = x /\ Tail(Append(q, x)) = <<>>
    BY <1>2
  <2>2. ToSet(<<>>) = {}
    BY DEF ToSet
  <2> QED  BY <1>1, <1>2, <2>1, <2>2, OpenIs
<1>3. CASE q # <<>>
  <2>1. /\ Head(Append(q, x)) = Head(q) /\ Tail(Append(q, x)) = Append(Tail(q), x)
        /\ Tail(q) \in Seq(DbReport)
    BY <1>3
  <2>2. ToSet(Append(Tail(q), x)) = ToSet(Tail(q)) \cup {x}
    <3>1. \A s \in Seq(DbReport) : ToSet(Append(s, x)) = ToSet(s) \cup {x}
      BY ElementsAppended
    <3> QED  BY <2>1, <3>1
  <2> QED  BY <1>1, <1>3, <2>1, <2>2, OpenIs
<1> QED  BY <1>2, <1>3

LEMMA OpenTaken ==
  ASSUME NEW q \in Seq(DbReport), q # <<>>, NEW r, NEW h \in Host
  PROVE  Open(Tail(q), IF Tail(q) = <<>> THEN {} ELSE Host, r, h) <=> r \in ToSet(Tail(q))
<1>1. Tail(q) \in Seq(DbReport)
  BY FirstTaken
<1>2. CASE Tail(q) = <<>>
  <2>1. ToSet(<<>>) = {}
    BY DEF ToSet
  <2> QED  BY <1>1, <1>2, <2>1, OpenIs
<1>3. CASE Tail(q) # <<>>
  <2>1. ToSet(Tail(q)) = {Head(Tail(q))} \cup ToSet(Tail(Tail(q)))
    BY <1>1, <1>3, ElementsSplit
  <2> QED  BY <1>1, <1>3, <2>1, OpenIs
<1> QED  BY <1>2, <1>3

LEMMA SentOpen ==
  ASSUME ReportTypes, NEW i \in DbThread, NEW x \in DbReport, Sent(i, x)
  PROVE  \A j \in DbThread, h \in Host : \A r :
           Open(queue'[j], todo'[j], r, h)
             <=> Open(queue[j], todo[j], r, h) \/ (j = i /\ r = x)
<1>1. queue \in [DbThread -> Seq(DbReport)] /\ todo \in [DbThread -> SUBSET Host]
  BY DEF ReportTypes
<1>2. \A j \in DbThread :
        /\ queue'[j] = IF j = i THEN Append(queue[i], x) ELSE queue[j]
        /\ todo'[j] = IF j = i THEN IF queue[i] = <<>> THEN Host ELSE todo[i] ELSE todo[j]
  BY <1>1 DEF Sent
<1>3. \A h \in Host : \A r :
        Open(Append(queue[i], x), IF queue[i] = <<>> THEN Host ELSE todo[i], r, h)
          <=> Open(queue[i], todo[i], r, h) \/ r = x
  BY <1>1, OpenAppended
<1> QED  BY ONLY i \in DbThread, <1>2, <1>3

LEMMA DealtOpen ==
  ASSUME ReportTypes, AtHand, NEW i \in DbThread, NEW g \in Host, Dealt(i, g),
         Distinct(queue[i])
  PROVE  \A j \in DbThread, h \in Host : \A r :
           Open(queue'[j], todo'[j], r, h)
             <=> /\ Open(queue[j], todo[j], r, h)
                 /\ ~(j = i /\ r = Head(queue[i]) /\ h = g)
<1>1. /\ queue[i] \in Seq(DbReport) /\ queue[i] # <<>> /\ g \in todo[i]
      /\ StoredOne(i, g) /\ todo[i] \subseteq Host
  BY DEF ReportTypes, AtHand, Dealt
<1>2. /\ \A j \in DbThread \ {i} : queue'[j] = queue[j] /\ todo'[j] = todo[j]
      /\ IF todo[i] = {g}
         THEN /\ queue'[i] = Tail(queue[i])
              /\ todo'[i] = IF queue'[i] = <<>> THEN {} ELSE Host
         ELSE queue'[i] = queue[i] /\ todo'[i] = todo[i] \ {g}
  BY <1>1, StoredOneTypes
<1>3. \A t, r, h : Open(queue[i], t, r, h) <=> \/ r \in ToSet(Tail(queue[i]))
                                               \/ r = Head(queue[i]) /\ h \in t
  BY <1>1, OpenIs
<1>4. Head(queue[i]) \notin ToSet(Tail(queue[i]))
  BY <1>1, DistinctTaken
<1>5. ASSUME NEW r, NEW h \in Host
      PROVE  Open(queue'[i], todo'[i], r, h)
               <=> Open(queue[i], todo[i], r, h) /\ ~(r = Head(queue[i]) /\ h = g)
  <2>1. CASE todo[i] = {g}
    <3>1. Open(queue'[i], todo'[i], r, h) <=> r \in ToSet(Tail(queue[i]))
      <4>1. Open(Tail(queue[i]), IF Tail(queue[i]) = <<>> THEN {} ELSE Host, r, h)
              <=> r \in ToSet(Tail(queue[i]))
        BY <1>1, OpenTaken
      <4>2. /\ queue'[i] = Tail(queue[i])
            /\ todo'[i] = IF Tail(queue[i]) = <<>> THEN {} ELSE Host
        BY ONLY <1>2, <2>1
      <4> QED  BY ONLY <4>1, <4>2
    <3> QED  BY ONLY <1>3, <1>4, <2>1, <3>1
  <2>2. CASE todo[i] # {g}
    BY ONLY <1>2, <1>3, <1>4, <2>2
  <2> QED  BY <2>1, <2>2
<1> QED  BY ONLY i \in DbThread, <1>2, <1>5

(* The inductive invariant of the theorem.  That no report is dealt twice  *)
(* is needed: one dealt again would be unstored again, the row it has made *)
(* with it.                                                                *)
Rows == /\ ApiTypes /\ ReportTypes /\ AtHand /\ Once /\ Queues
        /\ RowIsSomeonesLast

(* Element k of g, what a thread has been given, is the last about m whose *)
(* result h is dealt with, when q and t are left to do and R was refused.  *)
IsLast(g, q, t, R, m, h, k) ==
  /\ ~Open(q, t, g[k], h)
  /\ \A j \in (k + 1)..Len(g) : g[j].mod = m => Open(q, t, g[j], h) \/ <<g[j], h>> \in R

HasLast(m, h, i) == \E k \in 1..Len(given[i]) :
                      /\ given[i][k] = rows[m][h]
                      /\ IsLast(given[i], queue[i], todo[i], refused, m, h, k)

LEMMA RowMeans ==
  RowIsSomeonesLast <=>
    \A m \in Mod, h \in Host : rows[m][h] # NoReport => \E i \in DbThread : HasLast(m, h, i)
BY PathAssumption DEF RowIsSomeonesLast, HasLast, IsLast, Unstored, Open

LEMMA LastStays ==
  ASSUME NEW g, NEW q, NEW t, NEW R, NEW m, NEW h, NEW k, IsLast(g, q, t, R, m, h, k),
         NEW p, NEW u, NEW V, R \subseteq V,
         \A r : Open(p, u, r, h) => Open(q, t, r, h),
         \A r : Open(q, t, r, h) /\ r.mod = m => Open(p, u, r, h) \/ <<r, h>> \in V
  PROVE  IsLast(g, p, u, V, m, h, k)
BY DEF IsLast

LEMMA LastOfMore ==
  ASSUME NEW g \in Seq(DbReport), NEW q, NEW t, NEW R, NEW m, NEW h, NEW k \in 1..Len(g),
         IsLast(g, q, t, R, m, h, k),
         NEW x \in DbReport, NEW p, NEW u, g[k] # x,
         \A r : Open(p, u, r, h) <=> Open(q, t, r, h) \/ r = x
  PROVE  IsLast(Append(g, x), p, u, R, m, h, k)
<1>1. PICK l \in Nat : l = Len(g)
  BY LenProperties
<1>2. /\ Len(Append(g, x)) = l + 1 /\ Append(g, x)[l + 1] = x
      /\ \A j \in 1..l : Append(g, x)[j] = g[j]
  BY <1>1, AppendProperties
<1>3. k \in 1..l /\ Append(g, x)[k] = g[k]
  BY <1>1, <1>2
<1>4. ASSUME NEW j \in (k + 1)..(l + 1), Append(g, x)[j].mod = m
      PROVE  Open(p, u, Append(g, x)[j], h) \/ <<Append(g, x)[j], h>> \in R
  <2>1. CASE j = l + 1
    BY <1>2, <2>1
  <2>2. CASE j \in (k + 1)..l
    <3>1. j \in 1..l
      BY ONLY l \in Nat, <1>3, <2>2
    <3>2. Append(g, x)[j] = g[j]
      BY <1>2, <3>1
    <3> QED  BY <1>1, <1>4, <2>2, <3>2 DEF IsLast
  <2>3. j = l + 1 \/ j \in (k + 1)..l
    BY ONLY l \in Nat, <1>3, <1>4
  <2> QED  BY <2>1, <2>2, <2>3
<1>5. ~Open(p, u, Append(g, x)[k], h)
  BY <1>3 DEF IsLast
<1>6. \A j \in (k + 1)..Len(Append(g, x)) :
        Append(g, x)[j].mod = m =>
          Open(p, u, Append(g, x)[j], h) \/ <<Append(g, x)[j], h>> \in R
  BY ONLY <1>2, <1>4
<1> QED  BY ONLY <1>5, <1>6 DEF IsLast

LEMMA NextRow ==
  ASSUME ApiTypes, ReportTypes, AtHand, Once, Queues, RowIsSomeonesLast,
         [Next]_vars, Once'
  PROVE  RowIsSomeonesLast'
<1>0. /\ given \in [DbThread -> Seq(DbReport)] /\ queue \in [DbThread -> Seq(DbReport)]
      /\ rows \in [Mod -> [Host -> DbReport \cup {NoReport}]]
  BY DEF ReportTypes
<1> DEFINE Last1(m, h, i, k) == /\ given'[i][k] = rows'[m][h]
                                /\ IsLast(given'[i], queue'[i], todo'[i], refused', m, h, k)
<1>1. \A m \in Mod, h \in Host : rows[m][h] # NoReport => \E i \in DbThread : HasLast(m, h, i)
  BY RowMeans
<1>2. SUFFICES ASSUME NEW m \in Mod, NEW h \in Host, rows'[m][h] # NoReport
               PROVE  \E i \in DbThread : \E k \in 1..Len(given'[i]) : Last1(m, h, i, k)
  BY PathAssumption DEF RowIsSomeonesLast, IsLast, Unstored, Open
<1> HIDE DEF Last1
<1>3. CASE UNCHANGED <<given, queue, todo, rows, refused>>
  BY <1>1, <1>2, <1>3 DEF HasLast, Last1
<1>4. ASSUME NEW n \in DbThread, NEW x \in DbReport, Sent(n, x)
      PROVE  \E i \in DbThread : \E k \in 1..Len(given'[i]) : Last1(m, h, i, k)
  <2>1. rows' = rows /\ refused' = refused
    BY <1>4 DEF Sent
  <2>2. PICK i \in DbThread : HasLast(m, h, i)
    BY <1>1, <1>2, <2>1
  <2>3. PICK k \in 1..Len(given[i]) :
          /\ given[i][k] = rows[m][h]
          /\ IsLast(given[i], queue[i], todo[i], refused, m, h, k)
    BY <2>2 DEF HasLast
  <2>4. \A r : Open(queue'[i], todo'[i], r, h)
                 <=> Open(queue[i], todo[i], r, h) \/ (i = n /\ r = x)
    BY <1>4, SentOpen
  <2>5. CASE i # n
    <3>1. given'[i] = given[i] /\ queue'[i] = queue[i] /\ todo'[i] = todo[i]
      BY <1>0, <1>4, <2>5 DEF Sent, ReportTypes
    <3> QED  BY <2>1, <2>3, <3>1 DEF Last1
  <2>6. CASE i = n
    <3>1. given[i] \in Seq(DbReport) /\ given'[i] = Append(given[i], x)
      BY <1>0, <1>4, <2>6 DEF Sent
    <3>2. given[i][k] # x /\ given'[i][k] = given[i][k] /\ k \in 1..Len(given'[i])
      <4>1. Distinct(given'[i])
        BY DEF Once
      <4>2. PICK l \in Nat : l = Len(given[i])
        BY <3>1, LenProperties
      <4>3. /\ Len(given'[i]) = l + 1 /\ given'[i][l + 1] = x
            /\ DOMAIN given'[i] = 1..(l + 1)
            /\ \A j \in 1..l : given'[i][j] = given[i][j]
        BY ONLY x \in DbReport, <3>1, <4>2, AppendProperties, LenProperties
      <4>4. k \in 1..l /\ k \in 1..(l + 1) /\ l + 1 \in 1..(l + 1) /\ k # l + 1
        BY <4>2
      <4> QED  BY ONLY <4>1, <4>3, <4>4 DEF Distinct
    <3>3. IsLast(Append(given[i], x), queue'[i], todo'[i], refused, m, h, k)
      BY <2>3, <2>4, <2>6, <3>1, <3>2, LastOfMore
    <3> QED  BY <2>1, <2>3, <3>1, <3>2, <3>3 DEF Last1
  <2> QED  BY <2>5, <2>6
<1>5. ASSUME NEW n \in DbThread, NEW g \in Host, Dealt(n, g)
      PROVE  \E i \in DbThread : \E k \in 1..Len(given'[i]) : Last1(m, h, i, k)
  <2>1. Distinct(queue[n])
    BY <1>0, EndsDistinct DEF Queues, Once
  <2>2. /\ given' = given /\ queue[n] # <<>> /\ queue[n] \in Seq(DbReport)
        /\ given[n] \in Seq(DbReport) /\ Ends(queue[n], given[n])
    BY <1>0, <1>5 DEF Dealt, AtHand, Queues
  <2>3. PICK r \in DbReport : r = Head(queue[n]) /\ r.mod \in Mod
    <3>1. Head(queue[n]) \in DbReport
      BY <2>2, FirstTaken
    <3> QED  BY ONLY <3>1 DEF DbReport
  <2>4. \A i \in DbThread : \A x :
          Open(queue'[i], todo'[i], x, h) <=> /\ Open(queue[i], todo[i], x, h)
                                              /\ ~(i = n /\ x = r /\ h = g)
    BY <1>5, <2>1, <2>3, DealtOpen
  <2>5. CASE rows'[m][h] = r /\ h = g
    <3>1. PICK k \in 1..Len(given[n]) :
            /\ given[n][k] = r
            /\ \A j \in (k + 1)..Len(given[n]) : given[n][j] \in ToSet(Tail(queue[n]))
      BY <2>2, <2>3, EndsHead
    <3>2. r \notin ToSet(Tail(queue[n]))
      BY <2>1, <2>2, <2>3, DistinctTaken
    <3>3. \A x \in ToSet(Tail(queue[n])) : Open(queue[n], todo[n], x, h)
      BY <2>2, OpenIs
    <3>4. \A x \in ToSet(Tail(queue[n])) : Open(queue'[n], todo'[n], x, h)
      BY <2>4, <3>2, <3>3
    <3>5. ~Open(queue'[n], todo'[n], r, h)
      BY <2>4, <2>5
    <3>6. IsLast(given[n], queue'[n], todo'[n], refused', m, h, k)
      BY ONLY <3>1, <3>4, <3>5 DEF IsLast
    <3> QED  BY <2>2, <2>5, <3>1, <3>6 DEF Last1
  <2>6. CASE /\ rows'[m][h] = rows[m][h]
             /\ refused \subseteq refused'
             /\ (m = r.mod /\ h = g => <<r, h>> \in refused')
    <3>1. PICK i \in DbThread : HasLast(m, h, i)
      BY <1>1, <1>2, <2>6
    <3>2. PICK k \in 1..Len(given[i]) :
            /\ given[i][k] = rows[m][h]
            /\ IsLast(given[i], queue[i], todo[i], refused, m, h, k)
      BY <3>1 DEF HasLast
    <3>3. \A x : Open(queue[i], todo[i], x, h) /\ x.mod = m =>
                   Open(queue'[i], todo'[i], x, h) \/ <<x, h>> \in refused'
      BY <2>4, <2>6
    <3>4. \A x : Open(queue'[i], todo'[i], x, h) => Open(queue[i], todo[i], x, h)
      BY <2>4
    <3>5. IsLast(given[i], queue'[i], todo'[i], refused', m, h, k)
      BY <2>6, <3>2, <3>3, <3>4, LastStays
    <3> QED  BY <2>2, <2>6, <3>2, <3>5 DEF Last1
  <2>7. \/ /\ rows' = [rows EXCEPT ![r.mod] = [rows[r.mod] EXCEPT ![g] = r]]
           /\ refused' = refused
        \/ rows' = rows /\ refused' = refused \cup {<<r, g>>}
    BY <1>5, <2>3 DEF Dealt
  <2>8. CASE /\ rows' = [rows EXCEPT ![r.mod] = [rows[r.mod] EXCEPT ![g] = r]]
             /\ refused' = refused
    <3>1. rows'[m][h] = IF m = r.mod /\ h = g THEN r ELSE rows[m][h]
      BY ONLY <1>0, <2>3, <2>8, m \in Mod, h \in Host, g \in Host
    <3> QED  BY <2>5, <2>6, <2>8, <3>1
  <2>9. CASE rows' = rows /\ refused' = refused \cup {<<r, g>>}
    BY <2>6, <2>9
  <2> QED  BY <2>7, <2>8, <2>9
<1> QED  BY <1>3, <1>4, <1>5, StepsOfRows

(* A row is from the last report of its mod that some one of the database  *)
(* threads has dealt with, in whatever order workers deal and threads      *)
(* store (ylars_reporter.cpp:21, thread_report.cpp:14-19).                 *)
THEOREM RowsAreSomeonesLast == FairSpec => []RowIsSomeonesLast
<1>1. Init => Rows
  <2>1. Init => RowIsSomeonesLast
    BY DEF Init, ReporterInit, RowIsSomeonesLast
  <2> QED  BY <2>1, InitApiTypes, InitReportTypes, InitAtHand, InitOnce, InitQueues DEF Rows
<1>2. Rows /\ [Next]_vars => Rows'
  BY NextApiTypes, NextReportTypes, NextAtHand, NextOnce, NextQueues, NextRow DEF Rows
<1>3. Rows => RowIsSomeonesLast
  BY DEF Rows
<1> QED  BY <1>1, <1>2, <1>3, PTL DEF FairSpec
=============================================================================
