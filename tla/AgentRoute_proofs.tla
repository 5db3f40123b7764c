------------------------- MODULE AgentRoute_proofs --------------------------
(***************************************************************************)
(* A route that waits for an answer has a pull or the answer on its way,   *)
(* and what an agent holds is what the server has unless news are on their *)
(* way, for any mods, hosts and bounds.                                    *)
(***************************************************************************)
EXTENDS AgentRoute, SequenceTheorems, TLAPS

(* Sequences and the sets of their elements. *)
LEMMA AppendToSet ==
  ASSUME NEW S, NEW s \in Seq(S), NEW e \in S
  PROVE  Append(s, e) \in Seq(S) /\ ToSet(Append(s, e)) = ToSet(s) \cup {e}
<1>1. /\ Append(s, e) \in Seq(S) /\ Len(Append(s, e)) = Len(s) + 1
      /\ \A i \in 1..Len(s) : Append(s, e)[i] = s[i]
      /\ Append(s, e)[Len(s) + 1] = e
  BY AppendProperties
<1>2. Len(s) \in Nat /\ DOMAIN s = 1..Len(s) /\ DOMAIN Append(s, e) = 1..(Len(s) + 1)
  BY <1>1, LenProperties
<1>3. 1..(Len(s) + 1) = 1..Len(s) \cup {Len(s) + 1}
  BY <1>2
<1> QED  BY <1>1, <1>2, <1>3 DEF ToSet

LEMMA ConcatToSet ==
  ASSUME NEW S, NEW s \in Seq(S), NEW t \in Seq(S)
  PROVE  s \o t \in Seq(S) /\ ToSet(s \o t) = ToSet(s) \cup ToSet(t)
<1>1. /\ s \o t \in Seq(S) /\ Len(s \o t) = Len(s) + Len(t)
      /\ \A i \in 1..Len(s) + Len(t) :
            (s \o t)[i] = IF i <= Len(s) THEN s[i] ELSE t[i - Len(s)]
  BY ConcatProperties
<1>2. Len(s) \in Nat /\ Len(t) \in Nat /\ DOMAIN s = 1..Len(s) /\ DOMAIN t = 1..Len(t)
      /\ DOMAIN (s \o t) = 1..(Len(s) + Len(t))
  BY <1>1, LenProperties
<1>3. ASSUME NEW x \in ToSet(s \o t) PROVE x \in ToSet(s) \cup ToSet(t)
  <2>1. PICK i \in 1..(Len(s) + Len(t)) : x = (s \o t)[i]
    BY <1>2 DEF ToSet
  <2>2. CASE i <= Len(s)
    BY <1>1, <1>2, <2>1, <2>2 DEF ToSet
  <2>3. CASE ~(i <= Len(s))
    <3>1. i - Len(s) \in 1..Len(t)
      BY <1>2, <2>3
    <3> QED  BY <1>1, <1>2, <2>1, <2>3, <3>1 DEF ToSet
  <2> QED  BY <2>2, <2>3
<1>4. ASSUME NEW x \in ToSet(s) PROVE x \in ToSet(s \o t)
  <2>1. PICK i \in 1..Len(s) : x = s[i]
    BY <1>2, <1>4 DEF ToSet
  <2>2. i \in 1..(Len(s) + Len(t)) /\ i <= Len(s)
    BY <1>2
  <2> QED  BY <1>1, <1>2, <2>1, <2>2 DEF ToSet
<1>5. ASSUME NEW x \in ToSet(t) PROVE x \in ToSet(s \o t)
  <2>1. PICK i \in 1..Len(t) : x = t[i]
    BY <1>2, <1>5 DEF ToSet
  <2>2. Len(s) + i \in 1..(Len(s) + Len(t)) /\ ~(Len(s) + i <= Len(s)) /\ (Len(s) + i) - Len(s) = i
    BY <1>2
  <2>3. (s \o t)[Len(s) + i] = t[i]
    BY <1>1, <2>2
  <2> QED  BY <1>2, <2>1, <2>2, <2>3 DEF ToSet
<1> QED  BY <1>1, <1>3, <1>4, <1>5

LEMMA TailToSet ==
  ASSUME NEW S, NEW s \in Seq(S), s # <<>>
  PROVE  /\ Head(s) \in S /\ Tail(s) \in Seq(S)
         /\ ToSet(s) = {Head(s)} \cup ToSet(Tail(s))
<1>1. /\ Head(s) \in S /\ Tail(s) \in Seq(S) /\ Len(Tail(s)) = Len(s) - 1
      /\ Head(s) = s[1]
      /\ \A i \in 1..Len(Tail(s)) : Tail(s)[i] = s[i + 1]
  BY HeadTailProperties
<1>2. Len(s) \in Nat \ {0} /\ DOMAIN s = 1..Len(s) /\ DOMAIN Tail(s) = 1..(Len(s) - 1)
  BY <1>1, LenProperties, EmptySeq
<1>3. ASSUME NEW x \in ToSet(s) PROVE x \in {Head(s)} \cup ToSet(Tail(s))
  <2>1. PICK i \in 1..Len(s) : x = s[i]
    BY <1>2, <1>3 DEF ToSet
  <2>2. CASE i = 1
    BY <1>1, <2>1, <2>2
  <2>3. CASE i # 1
    <3>1. i - 1 \in 1..(Len(s) - 1) /\ (i - 1) + 1 = i
      BY <1>2, <2>3
    <3> QED  BY <1>1, <1>2, <2>1, <3>1 DEF ToSet
  <2> QED  BY <2>2, <2>3
<1>4. ASSUME NEW x \in ToSet(Tail(s)) PROVE x \in ToSet(s)
  <2>1. PICK i \in 1..(Len(s) - 1) : x = Tail(s)[i]
    BY <1>2, <1>4 DEF ToSet
  <2>2. i + 1 \in 1..Len(s) /\ x = s[i + 1]
    BY <1>1, <1>2, <2>1
  <2> QED  BY <1>2, <2>2 DEF ToSet
<1>5. Head(s) \in ToSet(s)
  BY <1>1, <1>2 DEF ToSet
<1> QED  BY <1>1, <1>3, <1>4, <1>5

-----------------------------------------------------------------------------
LEMMA InitTypes == Init => TypeOK
BY RouteAssumption DEF Init, TypeOK

(* One step of the agent's threads ... *)
LEMMA AgentTypes ==
  ASSUME TypeOK, DnsTask \/ UpdateHost \/ Connect \/ Disconnect \/ Tick
  PROVE  TypeOK'
<1> USE DEF TypeOK, agentVars, serverVars
<1>1. CASE DnsTask
  <2>1. requests \o dns_queue \in Seq(Mod)
    BY ConcatToSet
  <2> QED  BY <1>1, <2>1 DEF DnsTask
<1>2. CASE UpdateHost
  <2>1. Head(responses) \in Response /\ Tail(responses) \in Seq(Response)
    BY <1>2, TailToSet DEF UpdateHost
  <2>2. Head(responses).mod \in Mod /\ Head(responses).hosts \in SUBSET Host
    BY <2>1 DEF Response
  <2>3. 0 \in 0..update_timeout
    BY RouteAssumption
  <2> DEFINE res == Head(responses)
  <2>4. /\ responses' = Tail(responses)
        /\ UNCHANGED <<dns_queue, link, requests, serverVars>>
        /\ \/ UNCHANGED agentVars
           \/ /\ routes' = routes \ {res.mod} /\ hosts' = [hosts EXCEPT ![res.mod] = {}]
              /\ UNCHANGED <<status, age>>
           \/ /\ hosts' = [hosts EXCEPT ![res.mod] = res.hosts]
              /\ status' = [status EXCEPT ![res.mod] = "NEW"]
              /\ age' = [age EXCEPT ![res.mod] = 0]
              /\ UNCHANGED routes
    BY <1>2 DEF UpdateHost
  <2> HIDE DEF res
  <2>5. /\ routes' \in SUBSET Mod /\ hosts' \in [Mod -> SUBSET Host]
        /\ status' \in [Mod -> {"PULLING", "NEW"}] /\ age' \in [Mod -> 0..update_timeout]
    <3>1. res.mod \in Mod /\ res.hosts \in SUBSET Host
      BY <2>2 DEF res
    <3>2. /\ routes \in SUBSET Mod /\ hosts \in [Mod -> SUBSET Host]
          /\ status \in [Mod -> {"PULLING", "NEW"}] /\ age \in [Mod -> 0..update_timeout]
      OBVIOUS
    <3> QED  BY ONLY <2>3, <2>4, <3>1, <3>2 DEF agentVars
  <2>6. responses' \in Seq(Response)
    BY <2>1, <2>4
  <2> QED  BY <2>4, <2>5, <2>6
<1>3. CASE Connect
  BY <1>3 DEF Connect
<1>4. CASE Disconnect
  <2>1. <<>> \in Seq(Mod) /\ <<>> \in Seq(Response)
    OBVIOUS
  <2> QED  BY <1>4, <2>1 DEF Disconnect
<1>5. CASE Tick
  <2>1. \A m \in Mod : age[m] \in 0..update_timeout /\ update_timeout \in Nat
    BY RouteAssumption
  <2>2. \A m \in Mod : age[m] < update_timeout => age[m] + 1 \in 0..update_timeout
    BY <2>1
  <2>3. age' \in [Mod -> 0..update_timeout]
    BY <1>5, <2>1, <2>2 DEF Tick
  <2> QED  BY <1>5, <2>3 DEF Tick
<1> QED  BY <1>1, <1>2, <1>3, <1>4, <1>5

(* ... of a caller of the agent ... *)
LEMMA GetTypes ==
  ASSUME TypeOK, NEW m \in Mod, GetHost(m)
  PROVE  TypeOK'
<1>1. Append(dns_queue, m) \in Seq(Mod)
  BY AppendToSet DEF TypeOK
<1> QED  BY <1>1 DEF GetHost, GetNew, GetOld, Pull, TypeOK, agentVars, serverVars

(* ... and of the server. *)
LEMMA ServerTypes ==
  ASSUME TypeOK, \/ Subscribe \/ Answer
                 \/ \E m \in Mod : Publish(m) \/ Push(m)
                 \/ \E m \in Mod, new \in SUBSET Host : Change(m, new)
  PROVE  TypeOK'
<1> USE DEF TypeOK, agentVars, serverVars
<1>1. CASE Subscribe
  <2>1. Head(requests) \in Mod /\ Tail(requests) \in Seq(Mod)
    BY <1>1, TailToSet DEF Subscribe
  <2> QED  BY <1>1, <2>1 DEF Subscribe
<1>2. ASSUME NEW m \in Mod, Send(m)
      PROVE  responses' \in Seq(Response) /\ silent' \in SUBSET Mod
  <2>1. [mod |-> m, hosts |-> table[m]] \in Response
    BY DEF Response
  <2> QED  BY <1>2, <2>1, AppendToSet DEF Send
<1>3. CASE Answer
  <2>1. serving \in Mod /\ Send(serving)
    BY <1>3 DEF Answer
  <2> QED  BY <1>2, <1>3, <2>1 DEF Answer
<1>4. ASSUME NEW m \in Mod, Publish(m) PROVE TypeOK'
  BY <1>4 DEF Publish
<1>5. ASSUME NEW m \in Mod, Push(m) PROVE TypeOK'
  <2>1. responses' \in Seq(Response) /\ silent' \in SUBSET Mod
    BY <1>2, <1>5 DEF Push
  <2> QED  BY <1>5, <2>1 DEF Push
<1>6. ASSUME NEW m \in Mod, NEW new \in SUBSET Host, Change(m, new) PROVE TypeOK'
  <2>1. changes' \in 0..MaxChanges
    BY <1>6, RouteAssumption DEF Change
  <2> QED  BY <1>6, <2>1 DEF Change
<1> QED  BY <1>1, <1>3, <1>4, <1>5, <1>6

LEMMA NextTypes == TypeOK /\ [Next]_vars => TypeOK'
<1> SUFFICES ASSUME TypeOK, [Next]_vars PROVE TypeOK'
  OBVIOUS
<1>1. CASE UNCHANGED vars
  BY <1>1 DEF vars, agentVars, serverVars, TypeOK
<1> QED  BY <1>1, AgentTypes, GetTypes, ServerTypes DEF Next

-----------------------------------------------------------------------------
(* Where an answer for a mod can still come from. *)
Pending(m) == \/ m \in ToSet(dns_queue) \cup ToSet(requests) \cup {serving}
              \/ Answering(m)

LEMMA AnsweringToSet ==
  \A m : Answering(m) <=> \E r \in ToSet(responses) : r.mod = m
BY DEF Answering, ToSet

LEMMA AnsweringSent ==
  ASSUME TypeOK, NEW m \in Mod, Send(m)
  PROVE  \A d : Answering(d)' <=> Answering(d) \/ d = m
<1> DEFINE r == [mod |-> m, hosts |-> table[m]]
<1>1. r \in Response /\ r.mod = m
  BY DEF Response, TypeOK
<1>2. ToSet(responses') = ToSet(responses) \cup {r}
  <2>1. responses' = Append(responses, r)
    BY DEF Send
  <2> QED  BY <1>1, <2>1, AppendToSet DEF TypeOK
<1>3. \A d : Answering(d)' <=> \E x \in ToSet(responses') : x.mod = d
  BY DEF Answering, ToSet
<1> HIDE DEF r
<1> QED  BY <1>1, <1>2, <1>3, AnsweringToSet

LEMMA AnsweringTaken ==
  ASSUME TypeOK, responses # <<>>, responses' = Tail(responses)
  PROVE  /\ Head(responses).mod \in Mod /\ Head(responses).hosts \in SUBSET Host
         /\ \A d : Answering(d) <=> Answering(d)' \/ d = Head(responses).mod
<1>1. Head(responses) \in Response /\ ToSet(responses) = {Head(responses)} \cup ToSet(responses')
  BY TailToSet DEF TypeOK
<1>2. \A d : Answering(d)' <=> \E x \in ToSet(responses') : x.mod = d
  BY DEF Answering, ToSet
<1> QED  BY <1>1, <1>2, AnsweringToSet DEF Response

(* The server's steps hand what is pending on. *)
LEMMA ServerKeepsPending ==
  ASSUME TypeOK, \/ Subscribe \/ Answer
                 \/ \E m \in Mod : Publish(m) \/ Push(m)
                 \/ \E m \in Mod, new \in SUBSET Host : Change(m, new)
  PROVE  /\ \A m \in Mod : Pending(m) => Pending(m)'
         /\ UNCHANGED <<routes, status, link>>
<1> USE DEF agentVars, serverVars
<1>1. CASE Subscribe
  <2>1. ToSet(requests) = {serving'} \cup ToSet(requests')
    BY <1>1, TailToSet DEF Subscribe, TypeOK
  <2>2. serving = NoMod /\ UNCHANGED <<dns_queue, responses, routes, status, link>>
    BY <1>1 DEF Subscribe
  <2> QED  BY <2>1, <2>2, RouteAssumption DEF Pending, Answering
<1>2. CASE Answer
  <2>1. serving \in Mod /\ Send(serving)
    BY <1>2 DEF Answer, TypeOK
  <2>2. UNCHANGED <<dns_queue, requests, routes, status, link>>
    BY <1>2 DEF Answer
  <2> QED  BY <2>1, <2>2, AnsweringSent DEF Pending
<1>3. ASSUME NEW m \in Mod, Push(m)
      PROVE  /\ \A d \in Mod : Pending(d) => Pending(d)'
             /\ UNCHANGED <<routes, status, link>>
  <2>1. Send(m) /\ UNCHANGED <<dns_queue, requests, serving, routes, status, link>>
    BY <1>3 DEF Push
  <2> QED  BY <2>1, AnsweringSent DEF Pending
<1>4. ASSUME NEW m \in Mod, \/ Publish(m)
                            \/ \E new \in SUBSET Host : Change(m, new)
      PROVE  /\ \A d \in Mod : Pending(d) => Pending(d)'
             /\ UNCHANGED <<routes, status, link>>
  BY <1>4 DEF Publish, Change, Pending, Answering
<1> QED  BY <1>1, <1>2, <1>3, <1>4

(* A pull is what makes a route wait, and an answer what ends that. *)
LEMMA NextPending == TypeOK /\ PullOutstanding /\ [Next]_vars => PullOutstanding'
<1> SUFFICES ASSUME TypeOK, PullOutstanding, [Next]_vars,
                    link' \in {"connecting", "up"},
                    NEW m \in routes', status'[m] = "PULLING"
             PROVE  Pending(m)'
  BY DEF PullOutstanding, Pending
<1> USE DEF agentVars, serverVars
<1>1. link \in {"connecting", "up"} =>
        \A d \in routes : status[d] = "PULLING" => Pending(d)
  BY DEF PullOutstanding, Pending
<1>2. routes \subseteq Mod /\ status \in [Mod -> {"PULLING", "NEW"}]
  BY DEF TypeOK
<1>3. CASE UNCHANGED vars
  BY <1>1, <1>3 DEF vars, Pending, Answering
<1>4. ASSUME NEW d \in Mod, GetHost(d) PROVE Pending(m)'
  <2>1. /\ ToSet(dns_queue') = ToSet(dns_queue) \cup {d}
        /\ routes' \subseteq routes \cup {d} /\ \A x \in Mod \ {d} : status'[x] = status[x]
        /\ UNCHANGED <<link, requests, responses, serving>>
    <3>1. /\ dns_queue' = Append(dns_queue, d) /\ status' = [status EXCEPT ![d] = "PULLING"]
          /\ routes' = routes \cup {d} \/ routes' = routes
          /\ UNCHANGED <<link, requests, responses, serving>>
      BY <1>4 DEF GetHost, GetNew, GetOld, Pull
    <3>2. ToSet(dns_queue') = ToSet(dns_queue) \cup {d}
      BY <3>1, AppendToSet DEF TypeOK
    <3> QED  BY <1>2, <3>1, <3>2
  <2>2. CASE m = d
    BY <2>1, <2>2 DEF Pending
  <2>3. CASE m # d
    BY <1>1, <1>2, <2>1, <2>3 DEF Pending, Answering
  <2> QED  BY <2>2, <2>3
<1>5. CASE DnsTask
  <2>1. /\ link = "up" /\ dns_queue' = <<>> /\ requests' = requests \o dns_queue
        /\ UNCHANGED <<routes, status, link, responses, serving>>
    BY <1>5 DEF DnsTask
  <2>2. ToSet(requests') = ToSet(requests) \cup ToSet(dns_queue)
    BY <2>1, ConcatToSet DEF TypeOK
  <2> QED  BY <1>1, <2>1, <2>2 DEF Pending, Answering
<1>6. CASE UpdateHost
  <2>1. /\ link = "up" /\ responses # <<>> /\ responses' = Tail(responses)
        /\ UNCHANGED <<dns_queue, requests, serving>>
    BY <1>6 DEF UpdateHost
  <2> DEFINE d == Head(responses).mod
  <2>2. d \in Mod /\ \A x : Answering(x) <=> Answering(x)' \/ x = d
    BY <2>1, AnsweringTaken
  <2>3. /\ m # d /\ m \in routes /\ status[m] = "PULLING"
    BY <1>2, <1>6, <2>2 DEF UpdateHost
  <2> QED  BY <1>1, <2>1, <2>2, <2>3 DEF Pending
<1>7. CASE Connect \/ Tick
  BY <1>1, <1>7 DEF Connect, Tick, Pending, Answering
<1>8. CASE Disconnect
  BY <1>8 DEF Disconnect
<1>9. CASE \/ Subscribe \/ Answer
           \/ \E d \in Mod : Publish(d) \/ Push(d)
           \/ \E d \in Mod, new \in SUBSET Host : Change(d, new)
  BY <1>1, <1>2, <1>9, ServerKeepsPending
<1> QED  BY <1>3, <1>4, <1>5, <1>6, <1>7, <1>8, <1>9 DEF Next

(* A route that waits for an answer will get one, as long as the           *)
(* connection lasts: its pull, or the answer, is on its way                *)
(* (load_balance.cpp:17, route_lb.cpp:41, 88, 115-134).                    *)
THEOREM PullsStayOutstanding == Spec => []PullOutstanding
<1>1. Init => TypeOK /\ PullOutstanding
  BY InitTypes DEF Init, PullOutstanding
<1>2. TypeOK /\ PullOutstanding /\ [Next]_vars => (TypeOK /\ PullOutstanding)'
  BY NextTypes, NextPending
<1> QED  BY <1>1, <1>2, PTL DEF Spec

-----------------------------------------------------------------------------
(* The server answers and pushes to whom has subscribed: what an agent     *)
(* holds, and what is on its way, is of mods it has subscribed to.         *)
Known == /\ push_list \subseteq subscribed
         /\ serving \in subscribed \cup {NoMod}
         /\ \A m : Answering(m) => m \in subscribed
         /\ \A m \in Mod : hosts[m] # {} => m \in subscribed

LEMMA InitKnown == Init => Known
BY DEF Init, Known, Answering

LEMMA NextKnown == TypeOK /\ Known /\ [Next]_vars => Known'
<1> SUFFICES ASSUME TypeOK, Known, [Next]_vars PROVE Known'
  OBVIOUS
<1> USE DEF agentVars, serverVars
<1>1. hosts \in [Mod -> SUBSET Host]
  BY DEF TypeOK
<1>2. CASE UNCHANGED vars
  BY <1>2 DEF vars, Known, Answering
<1>3. ASSUME NEW d \in Mod, GetHost(d) PROVE Known'
  <2>1. UNCHANGED <<push_list, serving, subscribed, responses>>
        /\ \A m \in Mod : hosts'[m] \in {hosts[m], {}}
    BY <1>1, <1>3 DEF GetHost, GetNew, GetOld
  <2> QED  BY <2>1 DEF Known, Answering
<1>4. CASE DnsTask \/ Connect \/ Tick
  BY <1>4 DEF DnsTask, Connect, Tick, Known, Answering
<1>5. CASE Disconnect
  BY <1>5 DEF Disconnect, Known, Answering
<1>6. CASE UpdateHost
  <2>1. /\ responses # <<>> /\ responses' = Tail(responses)
        /\ UNCHANGED <<push_list, serving, subscribed>>
    BY <1>6 DEF UpdateHost
  <2> DEFINE d == Head(responses).mod
  <2>2. d \in Mod /\ \A x : Answering(x) <=> Answering(x)' \/ x = d
    BY <2>1, AnsweringTaken
  <2>3. \A m \in Mod : hosts'[m] # {} => hosts[m] # {} \/ m = d
    BY <1>1, <1>6, <2>2 DEF UpdateHost
  <2> QED  BY <2>1, <2>2, <2>3 DEF Known
<1>7. CASE Subscribe
  BY <1>7 DEF Subscribe, Known, Answering
<1>8. CASE Answer
  <2>1. serving \in Mod /\ Send(serving) /\ UNCHANGED <<push_list, subscribed, hosts>>
        /\ serving' = NoMod
    BY <1>8 DEF Answer, TypeOK
  <2> QED  BY <2>1, AnsweringSent, RouteAssumption DEF Known
<1>9. ASSUME NEW m \in Mod, Publish(m) PROVE Known'
  BY <1>9 DEF Publish, Known, Answering
<1>10. ASSUME NEW m \in Mod, Push(m) PROVE Known'
  <2>1. /\ Send(m) /\ m \in push_list /\ push_list' = push_list \ {m}
        /\ UNCHANGED <<serving, subscribed, hosts>>
    BY <1>10 DEF Push
  <2> QED  BY <2>1, AnsweringSent DEF Known
<1>11. ASSUME NEW m \in Mod, NEW new \in SUBSET Host, Change(m, new) PROVE Known'
  BY <1>11 DEF Change, Known, Answering
<1> QED
  BY <1>2, <1>3, <1>4, <1>5, <1>6, <1>7, <1>8, <1>9, <1>10, <1>11 DEF Next

-----------------------------------------------------------------------------
(* The last of the answers on their way for mod m brings the hosts h. *)
Newest(m, h) ==
  \E i \in DOMAIN responses :
    /\ responses[i].mod = m /\ responses[i].hosts = h
    /\ \A j \in DOMAIN responses : j > i => responses[j].mod # m

LEMMA NewestSent ==
  ASSUME TypeOK, NEW m \in Mod, Send(m), NEW d, NEW h, Newest(d, h)'
  PROVE  IF d = m THEN h = table[m] ELSE Newest(d, h)
<1> DEFINE r == [mod |-> m, hosts |-> table[m]]
<1>1. r \in Response /\ r.mod = m /\ r.hosts = table[m]
  BY DEF Response, TypeOK
<1>2. responses' = Append(responses, r)
  BY DEF Send
<1> HIDE DEF r
<1>3. /\ responses \in Seq(Response) /\ responses' \in Seq(Response)
      /\ Len(responses') = Len(responses) + 1
      /\ \A i \in 1..Len(responses) : responses'[i] = responses[i]
      /\ responses'[Len(responses) + 1] = r
  BY <1>1, <1>2, AppendProperties DEF TypeOK
<1>4. /\ Len(responses) \in Nat /\ DOMAIN responses = 1..Len(responses)
      /\ DOMAIN responses' = 1..(Len(responses) + 1)
  BY <1>3, LenProperties
<1>5. PICK i \in DOMAIN responses' :
        /\ responses'[i].mod = d /\ responses'[i].hosts = h
        /\ \A j \in DOMAIN responses' : j > i => responses'[j].mod # d
  BY DEF Newest
<1>6. CASE i = Len(responses) + 1
  BY <1>1, <1>3, <1>5, <1>6
<1>7. CASE i # Len(responses) + 1
  <2>1. i \in 1..Len(responses)
    BY <1>4, <1>5, <1>7
  <2>2. Len(responses) + 1 \in DOMAIN responses' /\ Len(responses) + 1 > i
    BY <1>4, <2>1
  <2>3. d # m
    BY <1>1, <1>3, <1>5, <2>2
  <2>4. \A j \in 1..Len(responses) : j > i => responses[j].mod # d
    BY <1>3, <1>4, <1>5
  <2> QED  BY <1>3, <1>4, <1>5, <2>1, <2>3, <2>4 DEF Newest
<1> QED  BY <1>6, <1>7

LEMMA NewestTaken ==
  ASSUME TypeOK, responses # <<>>, responses' = Tail(responses)
  PROVE  /\ \A d, h : Newest(d, h)' => Newest(d, h)
         /\ \A d : d = Head(responses).mod /\ ~Answering(d)'
                    => Newest(d, Head(responses).hosts)
<1>1. /\ responses \in Seq(Response) /\ responses' \in Seq(Response)
      /\ Len(responses') = Len(responses) - 1
      /\ Head(responses) = responses[1]
      /\ \A i \in 1..Len(responses') : responses'[i] = responses[i + 1]
  BY HeadTailProperties DEF TypeOK
<1>2. /\ Len(responses) \in Nat \ {0} /\ DOMAIN responses = 1..Len(responses)
      /\ DOMAIN responses' = 1..(Len(responses) - 1)
  BY <1>1, LenProperties, EmptySeq
<1>3. \A j \in 2..Len(responses) : /\ j - 1 \in DOMAIN responses'
                                  /\ responses'[j - 1] = responses[j]
  <2> SUFFICES ASSUME NEW j \in 2..Len(responses)
               PROVE  j - 1 \in DOMAIN responses' /\ responses'[j - 1] = responses[j]
    OBVIOUS
  <2>1. j - 1 \in 1..(Len(responses) - 1) /\ (j - 1) + 1 = j
    BY <1>2
  <2> QED  BY <1>1, <1>2, <2>1
<1>4. ASSUME NEW d, NEW h, Newest(d, h)' PROVE Newest(d, h)
  <2>1. PICK i \in DOMAIN responses' :
          /\ responses'[i].mod = d /\ responses'[i].hosts = h
          /\ \A j \in DOMAIN responses' : j > i => responses'[j].mod # d
    BY <1>4 DEF Newest
  <2>2. i + 1 \in DOMAIN responses /\ responses[i + 1] = responses'[i]
    BY <1>1, <1>2, <2>1
  <2>3. ASSUME NEW j \in DOMAIN responses, j > i + 1 PROVE responses[j].mod # d
    <3>1. j \in 2..Len(responses) /\ j - 1 > i
      BY <1>2, <2>1, <2>3
    <3> QED  BY <1>3, <2>1, <3>1
  <2> QED  BY <2>1, <2>2, <2>3 DEF Newest
<1>5. ASSUME NEW d, d = Head(responses).mod, ~Answering(d)'
      PROVE  Newest(d, Head(responses).hosts)
  <2>1. \A k \in DOMAIN responses' : responses'[k].mod # responses[1].mod
    BY <1>1, <1>5 DEF Answering
  <2>2. ASSUME NEW j \in DOMAIN responses, j > 1 PROVE responses[j].mod # responses[1].mod
    <3>1. j \in 2..Len(responses)
      BY <1>2, <2>2
    <3> QED  BY <1>3, <2>1, <3>1
  <2>3. 1 \in DOMAIN responses
    BY <1>2
  <2> QED  BY <1>1, <1>5, <2>2, <2>3 DEF Newest
<1> QED  BY <1>4, <1>5

-----------------------------------------------------------------------------
(* The mods whose last change the agent need not have heard of.            *)
Unsettled == changed \cup push_list \cup silent

(* Until the connection goes down: the last answer on its way for a mod is *)
(* the server's state, and without one what the agent holds is.  The two   *)
(* are needed together: an answer becomes what the agent holds.            *)
Synced ==
  link # "down" =>
    /\ \A m \in Mod \ Unsettled : \A h : Newest(m, h) => h = table[m]
    /\ \A m \in routes \ Unsettled :
         hosts[m] # {} /\ ~Answering(m) => hosts[m] = table[m]

LEMMA InitSynced == Init => Synced
BY DEF Init, Synced, Newest

(* What moves no answer and changes nothing at the server. *)
LEMMA QuietSynced ==
  ASSUME Synced, UNCHANGED <<responses, table, changed, push_list, silent>>,
         link' # "down" => link # "down",
         \A m \in routes' : hosts'[m] = {} \/ (m \in routes /\ hosts'[m] = hosts[m])
  PROVE  Synced'
<1>1. /\ Unsettled' = Unsettled
      /\ \A m : Answering(m)' <=> Answering(m)
      /\ \A m, h : Newest(m, h)' <=> Newest(m, h)
  BY DEF Unsettled, Answering, Newest
<1> QED  BY <1>1 DEF Synced

LEMMA UpdateSynced ==
  ASSUME TypeOK, Synced, UpdateHost
  PROVE  Synced'
<1>1. /\ link = "up" /\ responses # <<>> /\ responses' = Tail(responses)
      /\ Unsettled' = Unsettled /\ table' = table
  BY DEF UpdateHost, serverVars, Unsettled
<1>2. PICK m \in Mod, new \in SUBSET Host :
        m = Head(responses).mod /\ new = Head(responses).hosts
  BY <1>1, AnsweringTaken
<1>3. /\ \A x : Answering(x) <=> Answering(x)' \/ x = m
      /\ \A d, h : Newest(d, h)' => Newest(d, h)
      /\ ~Answering(m)' => Newest(m, new)
  <2>1. \A x : Answering(x) <=> Answering(x)' \/ x = m
    BY <1>1, <1>2, AnsweringTaken
  <2> QED  BY <1>1, <1>2, <2>1, NewestTaken
<1>4. \A d \in routes' : \/ d # m /\ d \in routes /\ hosts'[d] = hosts[d]
                         \/ d = m /\ hosts'[d] = new
  <2>1. hosts \in [Mod -> SUBSET Host] /\ routes \subseteq Mod
    BY DEF TypeOK
  <2>2. \/ m \notin routes /\ routes' = routes /\ hosts' = hosts
        \/ routes' = routes \ {m} /\ hosts' = [hosts EXCEPT ![m] = {}]
        \/ routes' = routes /\ hosts' = [hosts EXCEPT ![m] = new]
    BY <1>2 DEF UpdateHost, agentVars
  <2> QED  BY <2>1, <2>2
<1> QED  BY <1>1, <1>3, <1>4 DEF Synced

(* What is sent is the state of the moment; news of other mods stay        *)
(* unsettled.                                                              *)
LEMMA SendSynced ==
  ASSUME TypeOK, Synced, NEW m \in Mod, Send(m), UNCHANGED <<routes, hosts, link, table>>,
         Unsettled \subseteq Unsettled' \cup {m}
  PROVE  Synced'
<1>1. \A d : Answering(d)' <=> Answering(d) \/ d = m
  BY AnsweringSent
<1>2. \A d, h : Newest(d, h)' => IF d = m THEN h = table[m] ELSE Newest(d, h)
  BY NewestSent
<1> QED  BY <1>1, <1>2 DEF Synced

(* A change makes its mod unsettled, and only a push or, without a         *)
(* subscription, nothing to push ends that.                                *)
LEMMA ChangeSynced ==
  ASSUME TypeOK, Synced, NEW m \in Mod, NEW new \in SUBSET Host, Change(m, new)
  PROVE  Synced'
<1>1. /\ UNCHANGED <<routes, hosts, link, responses>>
      /\ Unsettled' = Unsettled \cup {m}
      /\ \A d \in Mod \ {m} : table'[d] = table[d]
  BY DEF Change, agentVars, Unsettled, TypeOK
<1>2. /\ \A d : Answering(d)' <=> Answering(d)
      /\ \A d, h : Newest(d, h)' <=> Newest(d, h)
  BY <1>1 DEF Answering, Newest
<1>3. routes \subseteq Mod
  BY DEF TypeOK
<1> QED  BY <1>1, <1>2, <1>3 DEF Synced

LEMMA PublishSynced ==
  ASSUME TypeOK, Known, Synced, NEW m \in Mod, Publish(m)
  PROVE  Synced'
<1>1. /\ UNCHANGED <<routes, hosts, link, responses, table>>
      /\ Unsettled \subseteq Unsettled' \cup {m}
      /\ m \in subscribed => m \in Unsettled'
  BY DEF Publish, agentVars, Unsettled
<1>2. /\ \A d : Answering(d)' <=> Answering(d)
      /\ \A d, h : Newest(d, h)' <=> Newest(d, h)
  BY <1>1 DEF Answering, Newest
<1>3. m \notin subscribed => hosts[m] = {} /\ \A h : ~Newest(m, h)
  BY DEF Known, Newest, Answering
<1> QED  BY <1>1, <1>2, <1>3 DEF Synced

LEMMA NextSynced == TypeOK /\ Known /\ Synced /\ [Next]_vars => Synced'
<1> SUFFICES ASSUME TypeOK, Known, Synced, [Next]_vars PROVE Synced'
  OBVIOUS
<1> USE DEF agentVars, serverVars
<1>1. CASE UNCHANGED vars
  BY <1>1, QuietSynced DEF vars
<1>2. ASSUME NEW d \in Mod, GetHost(d) PROVE Synced'
  <2>1. UNCHANGED <<responses, table, changed, push_list, silent, link>>
    BY <1>2 DEF GetHost, GetNew, GetOld
  <2>2. \A m \in routes' : hosts'[m] = {} \/ (m \in routes /\ hosts'[m] = hosts[m])
    <3>1. \/ d \notin routes /\ routes' = routes \cup {d} /\ hosts' = [hosts EXCEPT ![d] = {}]
          \/ UNCHANGED <<routes, hosts>>
      BY <1>2 DEF GetHost, GetNew, GetOld
    <3>2. routes \subseteq Mod /\ hosts \in [Mod -> SUBSET Host]
      BY DEF TypeOK
    <3> QED  BY <3>1, <3>2
  <2> QED  BY <2>1, <2>2, QuietSynced
<1>3. CASE DnsTask \/ Connect \/ Tick \/ Subscribe
  <2>1. /\ UNCHANGED <<responses, table, changed, push_list, silent, routes, hosts>>
        /\ link' # "down" => link # "down"
    BY <1>3 DEF DnsTask, Connect, Tick, Subscribe
  <2> QED  BY <2>1, QuietSynced
<1>4. CASE Disconnect
  BY <1>4 DEF Disconnect, Synced
<1>5. CASE Answer
  <2>1. serving \in Mod /\ Send(serving) /\ UNCHANGED <<routes, hosts, link, table>>
    BY <1>5 DEF Answer, TypeOK
  <2>2. Unsettled \subseteq Unsettled' \cup {serving}
    BY <1>5 DEF Answer, Send, Unsettled
  <2> QED  BY <2>1, <2>2, SendSynced
<1>6. ASSUME NEW m \in Mod, Push(m) PROVE Synced'
  <2>1. Send(m) /\ UNCHANGED <<routes, hosts, link, table>>
    BY <1>6 DEF Push
  <2>2. Unsettled \subseteq Unsettled' \cup {m}
    BY <1>6 DEF Push, Send, Unsettled
  <2> QED  BY <2>1, <2>2, SendSynced
<1> QED
  BY <1>1, <1>2, <1>3, <1>4, <1>5, <1>6, UpdateSynced, ChangeSynced, PublishSynced DEF Next

(* What an agent holds is what the server has, unless news of it are on    *)
(* their way or were never sent, whatever the order of answers, pushes,    *)
(* changes and subscriptions (dns_service.cpp:57-90, route_lb.cpp:113-137). *)
THEOREM AgentStaysInSync == Spec => []AgentInSync
<1> DEFINE I == TypeOK /\ Known /\ Synced
<1>1. Init => I
  BY InitTypes, InitKnown, InitSynced
<1>2. I /\ [Next]_vars => I'
  BY NextTypes, NextKnown, NextSynced
<1>3. I => AgentInSync
  BY DEF TypeOK, Synced, AgentInSync, Unsettled
<1> QED  BY <1>1, <1>2, <1>3, PTL DEF Spec
=============================================================================
