------------------------- MODULE SuperClient_proofs -------------------------
(***************************************************************************)
(* Proofs about SuperClient, for any pool of clients, any dispatches and   *)
(* activities, any size of the channel and any number of publications that *)
(* fail: the type invariant and the four invariants of the results.        *)
(***************************************************************************)
EXTENDS SuperClient, NaturalLemmas, SequenceTheorems, FiniteSetTheorems

Item == [client : Client, message : Message]

(* A new client is a client.                                               *)
LEMMA NewClientType == NewInnerClient \in ClientState
BY VersionAssumption DEF NewInnerClient, ClientState, CrippleMode

(* An activity that is carried out leaves a client in a state it can have. *)
LEMMA ExecuteActivityType ==
  ASSUME NEW s \in ClientState, NEW a \in Offered, a.type \in ActivityType
  PROVE  LET o == ExecuteActivity(a, s)
         IN o.state \in ClientState /\ o.status \in {"success", "fail", "error"}
<1>1. a.package \in Package \cup {NoPackage} /\ a.config \in 0..MaxVersion
  BY OfferedAssumption
<1>2. CASE a.type \in PackageOps
  <2>1. ExecuteActivity(a, s) = ExecutePackageOp(a, s)
    BY <1>2 DEF ExecuteActivity, PackageOps
  <2>2. CASE a.package = NoPackage
    BY <2>1, <2>2 DEF ExecutePackageOp, Outcome
  <2>3. CASE a.package # NoPackage /\ ((a.type = "install_package") = (a.package \in s.packages))
    BY <2>1, <2>3 DEF ExecutePackageOp, Outcome
  <2>4. CASE a.package # NoPackage /\ ((a.type = "install_package") # (a.package \in s.packages))
    <3>. DEFINE after == IF a.type = "remove_package" THEN s.packages \ {a.package}
                                                      ELSE s.packages \cup {a.package}
    <3>1. ExecuteActivity(a, s) = Outcome([s EXCEPT !.packages = after], "success")
      BY <2>1, <2>4 DEF ExecutePackageOp
    <3>2. after \in SUBSET Package
      BY <1>1, <2>4 DEF ClientState
    <3>. QED
      BY <3>1, <3>2 DEF Outcome, ClientState
  <2>. QED
    BY <2>2, <2>3, <2>4
<1>3. CASE a.type = "reboot"
  <2>1. ExecuteActivity(a, s) = Outcome([s EXCEPT !.mode = "none"], "success")
    BY <1>3 DEF ExecuteActivity, PackageOps
  <2>. QED
    BY <2>1 DEF Outcome, ClientState, CrippleMode
<1>4. CASE a.type = "apply_config"
  BY <1>1, <1>4 DEF ExecuteActivity, PackageOps, Outcome, ClientState
<1>5. CASE a.type = "validate_config"
  BY <1>5 DEF ExecuteActivity, PackageOps, Outcome
<1>6. CASE a.type = "run_script"
  BY <1>6 DEF ExecuteActivity, PackageOps, Outcome
<1>. QED
  BY <1>2, <1>3, <1>4, <1>5, <1>6 DEF ActivityType, ConfigOps

(* Drift leads to states a client can have.                                *)
LEMMA DriftedType ==
  ASSUME NEW s \in ClientState, NEW t \in Drifted(s)
  PROVE  t \in ClientState
BY DEF Drifted, ClientState

(* Every outcome of a message is a result, and a silent client only        *)
(* pretends: its state stays.                                              *)
LEMMA OutcomesSound ==
  ASSUME NEW m \in Message, NEW s \in ClientState, NEW o \in Outcomes(m, s)
  PROVE  /\ o.state \in ClientState /\ o.status \in {"success", "fail", "error"}
         /\ s.mode = "silent" => o.state = s /\ o.status \in {"success", "error"}
<1>. DEFINE a == m.activity
            done == ExecuteActivity(a, s)
<1>1. a \in Offered
  BY DEF Message
<1>2. CASE a.type \notin ActivityType
  BY <1>2 DEF Outcomes, Outcome
<1>3. CASE a.type \in ActivityType
  <2>1. o \in Execute(a, s)
    BY <1>3 DEF Outcomes
  <2>2. done.state \in ClientState /\ done.status \in {"success", "fail", "error"}
    BY <1>1, <1>3, ExecuteActivityType
  <2>3. CASE IsCrippledForActivity(s, a.type)
    BY <2>1, <2>3 DEF Execute, Outcome
  <2>4. CASE ~IsCrippledForActivity(s, a.type)
    <3>1. s.mode # "silent"
      BY <1>3, <2>4 DEF IsCrippledForActivity, BlockedBy
    <3>2. CASE \E k \in (CrippleMode \ {"none"}) \cup {s.mode} : o = Outcome([s EXCEPT !.mode = k], "fail")
      BY <3>1, <3>2 DEF Outcome, ClientState, CrippleMode
    <3>3. CASE \E t \in Drifted(done.state) : o = Outcome(t, done.status)
      <4>1. PICK t \in Drifted(done.state) : o = Outcome(t, done.status)
        BY <3>3
      <4>2. t \in ClientState
        BY <2>2, <4>1, DriftedType
      <4>. QED
        BY <2>2, <3>1, <4>1, <4>2 DEF Outcome
    <3>. QED
      BY <2>1, <2>4, <3>2, <3>3 DEF Execute
  <2>. QED
    BY <2>3, <2>4
<1>. QED
  BY <1>2, <1>3
-----------------------------------------------------------------------------
(* The elements of a sequence that grows, shrinks or is joined to another. *)
LEMMA Elements ==
  ASSUME NEW S, NEW s \in Seq(S)
  PROVE  /\ ToSet(<<>>) = {}
         /\ \A x \in S : ToSet(Append(s, x)) = ToSet(s) \cup {x}
         /\ \A u \in Seq(S) : ToSet(s \o u) = ToSet(s) \cup ToSet(u)
         /\ s # <<>> => ToSet(s) = {Head(s)} \cup ToSet(Tail(s))
<1>1. ToSet(<<>>) = {}
  BY DEF ToSet
<1>2. ASSUME NEW x \in S PROVE ToSet(Append(s, x)) = ToSet(s) \cup {x}
  <2>. DEFINE r == Append(s, x)
  <2>1. /\ DOMAIN s = 1..Len(s) /\ DOMAIN r = 1..(Len(s) + 1) /\ Len(s) \in Nat
        /\ \A i \in 1..Len(s) : r[i] = s[i]
        /\ r[Len(s) + 1] = x
    BY AppendProperties
  <2>. HIDE DEF r
  <2>2. ToSet(r) = {r[i] : i \in 1..(Len(s) + 1)}
    BY <2>1 DEF ToSet
  <2>3. ToSet(r) = {r[i] : i \in 1..Len(s)} \cup {r[Len(s) + 1]}
    BY <2>1, <2>2
  <2>4. {r[i] : i \in 1..Len(s)} = {s[i] : i \in 1..Len(s)}
    BY <2>1
  <2>. QED
    BY <2>1, <2>3, <2>4 DEF r, ToSet
<1>3. ASSUME NEW u \in Seq(S) PROVE ToSet(s \o u) = ToSet(s) \cup ToSet(u)
  <2>. DEFINE r == s \o u
  <2>1. /\ DOMAIN s = 1..Len(s) /\ DOMAIN u = 1..Len(u) /\ DOMAIN r = 1..(Len(s) + Len(u))
        /\ Len(s) \in Nat /\ Len(u) \in Nat
        /\ \A i \in 1..(Len(s) + Len(u)) : r[i] = IF i <= Len(s) THEN s[i] ELSE u[i - Len(s)]
    BY ConcatProperties
  <2>. HIDE DEF r
  <2>2. \A i \in DOMAIN r : r[i] \in ToSet(s) \cup ToSet(u)
    <3>1. ASSUME NEW i \in DOMAIN r, i <= Len(s) PROVE r[i] = s[i] /\ i \in DOMAIN s
      BY <2>1, <3>1
    <3>2. ASSUME NEW i \in DOMAIN r, ~(i <= Len(s))
          PROVE  r[i] = u[i - Len(s)] /\ i - Len(s) \in DOMAIN u
      BY <2>1, <3>2
    <3>. QED
      BY <3>1, <3>2 DEF ToSet
  <2>3. \A i \in DOMAIN s : i \in DOMAIN r /\ r[i] = s[i]
    BY <2>1
  <2>4. \A i \in DOMAIN u : i + Len(s) \in DOMAIN r /\ r[i + Len(s)] = u[i]
    BY <2>1
  <2>5. ToSet(s) \subseteq ToSet(r) /\ ToSet(u) \subseteq ToSet(r)
    BY <2>3, <2>4 DEF ToSet
  <2>6. ToSet(r) \subseteq ToSet(s) \cup ToSet(u)
    BY <2>2 DEF ToSet
  <2>. QED
    BY <2>5, <2>6 DEF r
<1>4. ASSUME s # <<>> PROVE ToSet(s) = {Head(s)} \cup ToSet(Tail(s))
  <2>. DEFINE r == Tail(s)
  <2>1. /\ DOMAIN s = 1..Len(s) /\ DOMAIN r = 1..(Len(s) - 1) /\ Len(s) \in Nat \ {0}
        /\ \A i \in 1..(Len(s) - 1) : r[i] = s[i + 1]
        /\ Head(s) = s[1]
    BY <1>4, HeadTailProperties, EmptySeq
  <2>. HIDE DEF r
  <2>2. \A i \in DOMAIN s : i = 1 \/ (i - 1 \in DOMAIN r /\ s[i] = r[i - 1])
    BY <2>1
  <2>3. 1 \in DOMAIN s /\ \A i \in DOMAIN r : i + 1 \in DOMAIN s /\ r[i] = s[i + 1]
    BY <2>1
  <2>4. ToSet(s) \subseteq {s[1]} \cup ToSet(r)
    BY <2>2 DEF ToSet
  <2>5. s[1] \in ToSet(s) /\ ToSet(r) \subseteq ToSet(s)
    BY <2>3 DEF ToSet
  <2>. QED
    BY <2>1, <2>4, <2>5 DEF r
<1>. QED
  BY <1>1, <1>2, <1>3, <1>4

(* The largest index of a sequence that has just grown is the new one.     *)
LEMMA LargestIndex ==
  ASSUME NEW n \in Nat, NEW S \in SUBSET (1..n), n \in S
  PROVE  Max(S) = n
<1>1. n \in S /\ \A y \in S : n >= y
  OBVIOUS
<1>2. \A x \in S : (\A y \in S : x >= y) => x = n
  OBVIOUS
<1>. QED
  BY <1>1, <1>2 DEF Max

(* A new result is the last report of its client, and of no other.         *)
LEMMA ReportAppended ==
  ASSUME NEW s \in Seq(Results), NEW r \in Results, NEW c \in Client
  PROVE  LastReport(Append(s, r), c) = IF r.client = c THEN r.state ELSE LastReport(s, c)
<1>. DEFINE u == Append(s, r)
            n == Len(s) + 1
            old == {i \in DOMAIN s : s[i].client = c}
            new == {i \in DOMAIN u : u[i].client = c}
<1>1. /\ DOMAIN s = 1..Len(s) /\ DOMAIN u = 1..n /\ Len(s) \in Nat /\ n \in Nat
      /\ \A i \in 1..Len(s) : u[i] = s[i]
      /\ u[n] = r
  BY AppendProperties
<1>. HIDE DEF u
<1>2. CASE r.client = c
  <2>1. n \in new /\ new \subseteq 1..n
    BY <1>1, <1>2
  <2>2. Max(new) = n
    BY <1>1, <2>1, LargestIndex
  <2>3. LastReport(u, c) = u[Max(new)].state
    BY <2>1 DEF LastReport
  <2>. QED
    BY <1>1, <1>2, <2>2, <2>3 DEF u
<1>3. CASE r.client # c
  <2>1. \A i \in 1..n : i \in new <=> i \in old
    BY <1>1, <1>3
  <2>2. new = old
    BY <1>1, <2>1
  <2>3. old # {} => Max(old) \in old
    <3>1. SUFFICES ASSUME old # {} PROVE Max(old) \in old
      OBVIOUS
    <3>2. old \in SUBSET Nat /\ \A i \in old : i <= Len(s)
      BY <1>1
    <3>3. \E m \in old : \A i \in old : i <= m
      BY <1>1, <3>1, <3>2, GreatestOfNat, Zenon
    <3>4. \E m \in old : \A i \in old : m >= i
      BY <3>2, <3>3
    <3>. QED
      BY <3>4, Zenon DEF Max
  <2>4. old # {} => u[Max(old)] = s[Max(old)]
    BY <1>1, <2>3
  <2>5. LastReport(u, c) = IF old = {} THEN NewInnerClient ELSE u[Max(old)].state
    BY <2>2 DEF LastReport
  <2>6. LastReport(s, c) = IF old = {} THEN NewInnerClient ELSE s[Max(old)].state
    BY DEF LastReport
  <2>. QED
    BY <1>3, <2>4, <2>5, <2>6 DEF u
<1>. QED
  BY <1>2, <1>3
-----------------------------------------------------------------------------
(* While nothing has failed a flush has one result at most, and while one  *)
(* publication has, what failed is not followed by anything.               *)
InOrder ==
  /\ failures = 0 => queue = <<>> /\ failed = <<>> /\ Len(flushing) <= 1
  /\ failures = 1 => failed = <<>> \/ flushing = <<>>
  /\ OrderSurvivesOneFailure

(* What was executed is what is published or still to be.                  *)
Accounted ==
  LET all == published \o flushing \o failed \o queue
  IN ToSet(all) = ToSet(executed) /\ Len(all) = Len(executed)

(* Every dispatch was sent once, and is in one place: a subscription, the  *)
(* channel, or executed.                                                   *)
Traced ==
  /\ \A c \in Client : \A i \in DOMAIN sub[c] : sub[c][i].id \in sent
  /\ \A i \in DOMAIN channel : channel[i].message.id \in sent
  /\ \A i \in DOMAIN executed : executed[i].id \in sent
  /\ \A c, d \in Client : \A i \in DOMAIN sub[c], j \in DOMAIN sub[d] :
       sub[c][i].id = sub[d][j].id => c = d /\ i = j
  /\ \A i, j \in DOMAIN channel : channel[i].message.id = channel[j].message.id => i = j
  /\ \A c \in Client : \A i \in DOMAIN sub[c], j \in DOMAIN channel :
       sub[c][i].id # channel[j].message.id
  /\ \A c \in Client : \A i \in DOMAIN sub[c], j \in DOMAIN executed :
       sub[c][i].id # executed[j].id
  /\ \A i \in DOMAIN channel, j \in DOMAIN executed : channel[i].message.id # executed[j].id

(* So that the results have as many ids as there are results.              *)
Counted == /\ IsFiniteSet(Ids(executed)) /\ Cardinality(Ids(executed)) = Len(executed)

(* The store holds the state that was last reported, and once that is the  *)
(* state of a silent client nothing changes it.                            *)
Remembered ==
  /\ \A c \in Client : store[c] = LastReport(executed, c)
  /\ \A i \in DOMAIN executed :
       executed[i].state.mode = "silent" => store[executed[i].client] = executed[i].state
  /\ SilentForEver

SInv == TypeOK /\ InOrder /\ Accounted /\ Traced /\ Counted /\ Remembered

(* The sequences that a step takes apart or puts together.                 *)
LEMMA Types ==
  ASSUME TypeOK
  PROVE  /\ queue \in Seq(Results) /\ flushing \in Seq(Results) /\ failed \in Seq(Results)
         /\ published \in Seq(Results) /\ executed \in Seq(Results)
         /\ failures \in Nat
BY FailuresAssumption DEF TypeOK

(* The invariant holds when the process starts.                            *)
LEMMA SInvInit == Init => SInv
<1>. SUFFICES ASSUME Init PROVE SInv
  OBVIOUS
<1>1. <<>> \in Seq(Results) /\ <<>> \in Seq(Message) /\ <<>> \in Seq(Item) /\ Len(<<>>) = 0
  OBVIOUS
<1>2. TypeOK
  <2>1. sub \in [Client -> Seq(Message)] /\ store \in [Client -> ClientState]
    BY <1>1, NewClientType DEF Init
  <2>2. channel \in Seq([client : Client, message : Message]) /\ Len(channel) <= ChannelSize
    BY <1>1, ChannelAssumption DEF Init, Item
  <2>3. {queue, flushing, failed, published, executed} \subseteq Seq(Results)
    BY <1>1 DEF Init
  <2>4. failures \in 0..MaxFailures /\ sent \subseteq Dispatch
    BY FailuresAssumption DEF Init
  <2>. QED
    BY <2>1, <2>2, <2>3, <2>4 DEF Init, TypeOK
<1>3. /\ published = <<>> /\ flushing = <<>> /\ failed = <<>> /\ queue = <<>> /\ executed = <<>>
      /\ channel = <<>> /\ \A c \in Client : sub[c] = <<>> /\ store[c] = NewInnerClient
  BY DEF Init
<1>4. <<>> \o <<>> = <<>>
  OBVIOUS
<1>5. InOrder /\ Accounted
  BY <1>1, <1>3, <1>4 DEF InOrder, OrderSurvivesOneFailure, Accounted
<1>6. \A i \in DOMAIN <<>> : FALSE
  OBVIOUS
<1>7. Traced
  <2>1. DOMAIN executed = {} /\ DOMAIN channel = {} /\ \A c \in Client : DOMAIN sub[c] = {}
    BY <1>3
  <2>. QED
    BY <2>1 DEF Traced
<1>8. Ids(executed) = {}
  BY <1>3, <1>6 DEF Ids, ToSet
<1>9. Counted
  BY <1>1, <1>3, <1>8, FS_EmptySet DEF Counted
<1>10. \A c \in Client : LastReport(executed, c) = NewInnerClient
  BY <1>3, <1>6 DEF LastReport
<1>11. Remembered
  <2>1. DOMAIN executed = {}
    BY <1>3
  <2>. QED
    BY <1>3, <2>1, <1>10 DEF Remembered, SilentForEver
<1>. QED
  BY <1>2, <1>5, <1>7, <1>9, <1>11 DEF SInv

(* What a dispatch that is taken from the channel comes to.                *)
LEMMA Handled ==
  ASSUME TypeOK, HandleDispatch
  PROVE  \E c \in Client, m \in Message :
           /\ channel[1] = [client |-> c, message |-> m]
           /\ \/ \E o \in Outcomes(m, store[c]) :
                   /\ store' = [store EXCEPT ![c] = o.state]
                   /\ Result(m, c, o) \in Results
                   /\ executed' = Append(executed, Result(m, c, o))
                   /\ flushing' = Append(queue, Result(m, c, o))
              \/ UNCHANGED <<store, executed>> /\ flushing' = queue
<1>. DEFINE m == Head(channel).message
            c == Head(channel).client
<1>1. channel \in Seq(Item) /\ channel # <<>>
  BY DEF TypeOK, HandleDispatch, Item
<1>2. Head(channel) \in Item /\ Head(channel) = channel[1]
  BY <1>1, HeadTailProperties
<1>3. c \in Client /\ m \in Message /\ channel[1] = [client |-> c, message |-> m]
  BY <1>2 DEF Item
<1>4. CASE m.addressed
  <2>1. PICK o \in Outcomes(m, store[c]) :
               /\ store' = [store EXCEPT ![c] = o.state]
               /\ executed' = Append(executed, Result(m, c, o))
               /\ flushing' = Append(queue, Result(m, c, o))
    BY <1>4 DEF HandleDispatch, FlushResults, Collect
  <2>2. store[c] \in ClientState
    BY <1>3 DEF TypeOK
  <2>3. o.state \in ClientState /\ o.status \in {"success", "fail", "error"}
    BY <1>3, <2>2, OutcomesSound
  <2>4. Result(m, c, o) \in Results
    BY <1>3, <2>3 DEF Result, Results, Message
  <2>. QED
    BY <1>3, <2>1, <2>4
<1>5. CASE ~m.addressed
  <2>1. UNCHANGED <<store, executed>> /\ flushing' = queue
    BY <1>5 DEF HandleDispatch, FlushResults, poolVars
  <2>. QED
    BY <1>3, <2>1
<1>. QED
  BY <1>4, <1>5

(* What every callback does to the subscription it serves.                 *)
LEMMA CalledBack ==
  ASSUME TypeOK, NEW c \in Client, Callback(c)
  PROVE  /\ sub' \in [Client -> Seq(Message)] /\ Head(sub[c]) \in Message
         /\ Head(sub[c]) = sub[c][1] /\ 1 \in DOMAIN sub[c]
         /\ \A d \in Client \ {c} : sub'[d] = sub[d]
         /\ \A i \in DOMAIN sub'[c] : i + 1 \in DOMAIN sub[c] /\ sub'[c][i] = sub[c][i + 1]
         /\ \A i \in DOMAIN sub'[c] : i # 0
<1>1. sub[c] \in Seq(Message) /\ sub[c] # <<>> /\ sub' = [sub EXCEPT ![c] = Tail(sub[c])]
  BY DEF TypeOK, Callback
<1>2. /\ Head(sub[c]) \in Message /\ Tail(sub[c]) \in Seq(Message)
      /\ Len(Tail(sub[c])) = Len(sub[c]) - 1
      /\ \A i \in 1..Len(Tail(sub[c])) : Tail(sub[c])[i] = sub[c][i + 1]
      /\ DOMAIN Tail(sub[c]) = 1..Len(Tail(sub[c])) /\ DOMAIN sub[c] = 1..Len(sub[c])
      /\ Len(sub[c]) \in Nat \ {0} /\ Head(sub[c]) = sub[c][1]
  BY <1>1, HeadTailProperties, EmptySeq
<1>3. sub' \in [Client -> Seq(Message)] /\ sub'[c] = Tail(sub[c])
  BY <1>1, <1>2 DEF TypeOK
<1>. HIDE DEF TypeOK
<1>4. \A d \in Client \ {c} : sub'[d] = sub[d]
  BY <1>1 DEF TypeOK
<1>. QED
  BY <1>2, <1>3, <1>4

(* The parts of the type invariant that are about sequences of results.    *)
ResultTypes == /\ queue \in Seq(Results) /\ flushing \in Seq(Results) /\ failed \in Seq(Results)
               /\ published \in Seq(Results) /\ executed \in Seq(Results)
               /\ failures \in 0..MaxFailures
               /\ at \in {"select", "exited"} => flushing = <<>> /\ failed = <<>>

(* The parts that are about messages and the process.                      *)
InputTypes == /\ sub \in [Client -> Seq(Message)]
              /\ channel \in Seq(Item) /\ Len(channel) <= ChannelSize
              /\ cancelled \in BOOLEAN /\ closed \in BOOLEAN /\ (closed => cancelled)
              /\ at \in {"select", "flush", "final", "shutdown", "exited", "crashed"}
              /\ store \in [Client -> ClientState]
              /\ sent \subseteq Dispatch

(* Together they are the type invariant.                                   *)
LEMMA TypeParts == /\ TypeOK <=> ResultTypes /\ InputTypes
                   /\ TypeOK' <=> ResultTypes' /\ InputTypes'
BY DEF TypeOK, ResultTypes, InputTypes, Item

(* The steps of the callbacks keep the types.                              *)
LEMMA ReceiveType ==
  ASSUME TypeOK, NEW c \in Client, Receive(c)
  PROVE  TypeOK'
<1>1. Callback(c)
  BY DEF Receive, Malformed, Enqueue, GiveUp, SendOnClosed
<1>2. /\ UNCHANGED <<sent, cancelled, closed, store, executed, queue, flushing, failed, published, failures>>
      /\ Running
  BY <1>1 DEF Callback, poolVars, collectVars
<1>3. sub' \in [Client -> Seq(Message)] /\ Head(sub[c]) \in Message
  BY <1>1, CalledBack
<1>4. ResultTypes /\ InputTypes
  BY TypeParts
<1>5. CASE Enqueue(c)
  <2>. DEFINE x == [client |-> c, message |-> Head(sub[c])]
  <2>1. channel' = Append(channel, x) /\ Len(channel) < ChannelSize /\ at' = at
    BY <1>5 DEF Enqueue
  <2>2. x \in Item /\ channel \in Seq(Item)
    BY <1>3, <1>4 DEF Item, InputTypes
  <2>. HIDE DEF x
  <2>3. channel' \in Seq(Item) /\ Len(channel') = Len(channel) + 1 /\ Len(channel) \in Nat
    BY <2>1, <2>2, AppendProperties
  <2>4. Len(channel') <= ChannelSize
    BY <2>1, <2>3, ChannelAssumption
  <2>5. ResultTypes' /\ InputTypes'
    BY <1>2, <1>3, <1>4, <2>1, <2>3, <2>4 DEF ResultTypes, InputTypes
  <2>. QED
    BY <2>5, TypeParts
<1>6. CASE Malformed(c) \/ GiveUp(c) \/ SendOnClosed(c)
  <2>1. channel' = channel /\ (at' = at \/ at' = "crashed")
    BY <1>6 DEF Malformed, GiveUp, SendOnClosed
  <2>2. ResultTypes' /\ InputTypes'
    BY <1>2, <1>3, <1>4, <2>1 DEF ResultTypes, InputTypes
  <2>. QED
    BY <2>2, TypeParts
<1>. QED
  BY <1>5, <1>6 DEF Receive

(* Sending, and the end of the process being near, keep them.              *)
LEMMA OutsideType ==
  ASSUME TypeOK,
         (\E c \in Client, m \in Message : SendDispatch(c, m)) \/ Cancel \/ CloseChannel
  PROVE  TypeOK'
<1>1. ResultTypes /\ InputTypes
  BY TypeParts
<1>2. UNCHANGED <<channel, at, store, executed, queue, flushing, failed, published, failures>>
  BY DEF SendDispatch, Cancel, CloseChannel, poolVars, collectVars
<1>3. ResultTypes'
  BY <1>1, <1>2 DEF ResultTypes
<1>4. CASE \E c \in Client, m \in Message : SendDispatch(c, m)
  <2>1. PICK c \in Client, m \in Message : SendDispatch(c, m)
    BY <1>4
  <2>2. /\ sub' = [sub EXCEPT ![c] = Append(sub[c], m)] /\ sent' = sent \cup {m.id}
        /\ UNCHANGED <<cancelled, closed>>
    BY <2>1 DEF SendDispatch
  <2>3. sub[c] \in Seq(Message) /\ m.id \in Dispatch
    BY <1>1 DEF InputTypes, Message
  <2>4. Append(sub[c], m) \in Seq(Message)
    BY <2>3, AppendProperties
  <2>5. sub' \in [Client -> Seq(Message)] /\ sent' \subseteq Dispatch
    BY <1>1, <2>2, <2>3, <2>4 DEF InputTypes
  <2>6. InputTypes'
    BY <1>1, <1>2, <2>2, <2>5 DEF InputTypes
  <2>. QED
    BY <1>3, <2>6, TypeParts
<1>5. CASE Cancel \/ CloseChannel
  <2>1. InputTypes'
    BY <1>1, <1>2, <1>5 DEF Cancel, CloseChannel, InputTypes, natsVars
  <2>. QED
    BY <1>3, <2>1, TypeParts
<1>. QED
  BY <1>4, <1>5

(* The main goroutine keeps them.                                          *)
LEMMA RunType ==
  ASSUME TypeOK, Run
  PROVE  TypeOK'
<1>1. ResultTypes /\ InputTypes
  BY TypeParts
<1>2. UNCHANGED <<sub, sent, cancelled, closed>>
  BY DEF Run, HandleDispatch, Done, Drained, PublishResult, EndFlush, natsVars
<1>3. <<>> \in Seq(Results)
  OBVIOUS
<1>4. CASE HandleDispatch
  <2>1. PICK c \in Client, m \in Message :
           \/ \E o \in Outcomes(m, store[c]) :
                /\ store' = [store EXCEPT ![c] = o.state]
                /\ Result(m, c, o) \in Results
                /\ executed' = Append(executed, Result(m, c, o))
                /\ flushing' = Append(queue, Result(m, c, o))
           \/ UNCHANGED <<store, executed>> /\ flushing' = queue
    BY <1>4, Handled
  <2>2. /\ queue' = <<>> /\ failed' = <<>> /\ at' = "flush" /\ UNCHANGED <<published, failures>>
        /\ channel # <<>> /\ channel' = Tail(channel)
    BY <1>4 DEF HandleDispatch, FlushResults
  <2>3. channel' \in Seq(Item) /\ Len(channel') = Len(channel) - 1 /\ Len(channel) \in Nat
    BY <1>1, <2>2, HeadTailProperties DEF InputTypes
  <2>4. Len(channel') <= ChannelSize
    BY <1>1, <2>3, ChannelAssumption DEF InputTypes
  <2>5. store' \in [Client -> ClientState] /\ executed' \in Seq(Results) /\ flushing' \in Seq(Results)
    <3>1. CASE UNCHANGED <<store, executed>> /\ flushing' = queue
      BY <1>1, <3>1 DEF ResultTypes, InputTypes
    <3>2. ASSUME NEW o \in Outcomes(m, store[c]),
                 store' = [store EXCEPT ![c] = o.state],
                 Result(m, c, o) \in Results,
                 executed' = Append(executed, Result(m, c, o)),
                 flushing' = Append(queue, Result(m, c, o))
          PROVE  store' \in [Client -> ClientState] /\ executed' \in Seq(Results) /\ flushing' \in Seq(Results)
      <4>1. o.state \in ClientState
        BY <1>1, OutcomesSound DEF InputTypes
      <4>2. executed' \in Seq(Results) /\ flushing' \in Seq(Results)
        BY <1>1, <3>2, AppendProperties DEF ResultTypes
      <4>. QED
        BY <1>1, <3>2, <4>1, <4>2 DEF InputTypes
    <3>. QED
      BY <2>1, <3>1, <3>2
  <2>6. ResultTypes' /\ InputTypes'
    BY <1>1, <1>2, <1>3, <2>2, <2>3, <2>4, <2>5 DEF ResultTypes, InputTypes
  <2>. QED
    BY <2>6, TypeParts
<1>5. CASE Done \/ Drained
  <2>1. /\ flushing' = queue /\ queue' = <<>> /\ failed' = <<>> /\ at' \in {"final", "shutdown"}
        /\ UNCHANGED <<channel, store, executed, published, failures>>
    BY <1>5 DEF Done, Drained, FlushResults, poolVars
  <2>2. ResultTypes' /\ InputTypes'
    BY <1>1, <1>2, <1>3, <2>1 DEF ResultTypes, InputTypes
  <2>. QED
    BY <2>2, TypeParts
<1>6. CASE PublishResult
  <2>. DEFINE h == Head(flushing)
  <2>1. /\ flushing # <<>> /\ flushing' = Tail(flushing) /\ Running
        /\ UNCHANGED <<channel, at, queue, store, executed>>
        /\ \/ published' = Append(published, h) /\ UNCHANGED <<failed, failures>>
           \/ /\ failures < MaxFailures /\ failures' = failures + 1
              /\ failed' = Append(failed, h) /\ UNCHANGED published
    BY <1>6 DEF PublishResult, poolVars
  <2>2. flushing' \in Seq(Results) /\ h \in Results
    BY <1>1, <2>1, HeadTailProperties DEF ResultTypes
  <2>. HIDE DEF h
  <2>3. published' \in Seq(Results) /\ failed' \in Seq(Results)
    <3>1. Append(published, h) \in Seq(Results) /\ Append(failed, h) \in Seq(Results)
      BY <1>1, <2>2, AppendProperties DEF ResultTypes
    <3>. QED
      BY <1>1, <2>1, <3>1 DEF ResultTypes
  <2>4. failures' \in 0..MaxFailures
    BY <1>1, <2>1, FailuresAssumption DEF ResultTypes
  <2>5. at' \notin {"select", "exited"}
    BY <1>1, <2>1 DEF ResultTypes
  <2>6. ResultTypes' /\ InputTypes'
    BY <1>1, <1>2, <2>1, <2>2, <2>3, <2>4, <2>5 DEF ResultTypes, InputTypes
  <2>. QED
    BY <2>6, TypeParts
<1>7. CASE EndFlush
  <2>1. /\ flushing = <<>> /\ failed' = <<>> /\ UNCHANGED <<channel, store, executed, published, failures>>
        /\ \/ at' \in {"select", "exited"} /\ queue' = failed \o queue /\ flushing' = flushing
           \/ at' = "shutdown" /\ queue' = <<>> /\ flushing' = failed \o queue
    BY <1>7 DEF EndFlush, Remaining, FlushResults, poolVars
  <2>2. failed \o queue \in Seq(Results)
    BY <1>1, ConcatProperties DEF ResultTypes
  <2>3. ResultTypes' /\ InputTypes'
    BY <1>1, <1>2, <1>3, <2>1, <2>2 DEF ResultTypes, InputTypes
  <2>. QED
    BY <2>3, TypeParts
<1>. QED
  BY <1>4, <1>5, <1>6, <1>7 DEF Run

(* So does every step.                                                     *)
LEMMA TypeNext == TypeOK /\ [Next]_vars => TypeOK'
<1>. SUFFICES ASSUME TypeOK, [Next]_vars PROVE TypeOK'
  OBVIOUS
<1>1. CASE UNCHANGED vars
  BY <1>1 DEF TypeOK, vars, natsVars, poolVars, collectVars
<1>2. CASE Next
  BY <1>2, OutsideType, ReceiveType, RunType DEF Next
<1>. QED
  BY <1>1, <1>2
-----------------------------------------------------------------------------
Still == UNCHANGED <<queue, flushing, failed, published, executed, failures>>

(* The queue is taken for a flush, with a new result at its end or as it   *)
(* is.                                                                     *)
Taken == /\ flushing = <<>> /\ failed = <<>> /\ queue' = <<>> /\ failed' = <<>>
         /\ UNCHANGED <<published, failures>>
         /\ \/ flushing' = queue /\ executed' = executed
            \/ \E r \in Results : flushing' = Append(queue, r) /\ executed' = Append(executed, r)

Delivered == /\ flushing # <<>> /\ flushing' = Tail(flushing)
             /\ published' = Append(published, Head(flushing))
             /\ UNCHANGED <<queue, failed, executed, failures>>

Undelivered == /\ flushing # <<>> /\ flushing' = Tail(flushing)
               /\ failed' = Append(failed, Head(flushing)) /\ failures' = failures + 1
               /\ UNCHANGED <<queue, published, executed>>

(* What failed goes back, to wait or to be flushed at once.                *)
Returned == /\ flushing = <<>> /\ failed' = <<>> /\ UNCHANGED <<published, executed, failures>>
            /\ \/ queue' = failed \o queue /\ flushing' = <<>>
               \/ queue' = <<>> /\ flushing' = failed \o queue

(* No step does anything else to the results.                              *)
LEMMA Flow ==
  ASSUME TypeOK, [Next]_vars
  PROVE  Still \/ Taken \/ Delivered \/ Undelivered \/ Returned
<1>1. CASE UNCHANGED vars \/ Cancel \/ CloseChannel \/ \E c \in Client, m \in Message : SendDispatch(c, m)
  BY <1>1 DEF vars, poolVars, collectVars, Cancel, CloseChannel, SendDispatch, Still
<1>2. CASE \E c \in Client : Receive(c)
  BY <1>2 DEF Receive, Malformed, Enqueue, GiveUp, SendOnClosed, Callback, poolVars, collectVars, Still
<1>3. CASE HandleDispatch
  <2>1. \/ flushing' = queue /\ executed' = executed
        \/ \E r \in Results : flushing' = Append(queue, r) /\ executed' = Append(executed, r)
    BY <1>3, Handled
  <2>2. /\ queue' = <<>> /\ failed' = <<>> /\ UNCHANGED <<published, failures>> /\ at = "select"
    BY <1>3 DEF HandleDispatch, FlushResults
  <2>. QED
    BY <2>1, <2>2 DEF TypeOK, Taken
<1>4. CASE Done \/ Drained
  BY <1>4 DEF Done, Drained, FlushResults, poolVars, TypeOK, Taken
<1>5. CASE PublishResult
  BY <1>5 DEF PublishResult, poolVars, Delivered, Undelivered
<1>6. CASE EndFlush
  BY <1>6 DEF EndFlush, FlushResults, Remaining, poolVars, Returned
<1>. QED
  BY <1>1, <1>2, <1>3, <1>4, <1>5, <1>6 DEF Next, Run

(* Three sequences of results are joined in either order.                  *)
LEMMA Regrouped ==
  ASSUME NEW s \in Seq(Results), NEW u \in Seq(Results), NEW v \in Seq(Results)
  PROVE  (s \o u) \o v = s \o (u \o v)
BY ConcatAssociative

(* Joining with nothing, and joining one more result.                      *)
LEMMA Joins ==
  ASSUME NEW s \in Seq(Results), NEW u \in Seq(Results), NEW r \in Results
  PROVE  /\ s \o <<>> = s /\ <<>> \o s = s /\ s \o u \in Seq(Results)
         /\ s \o Append(u, r) = Append(s \o u, r)
         /\ u # <<>> => Append(s, Head(u)) \o Tail(u) = s \o u
<1>1. s \o <<>> = s /\ <<>> \o s = s /\ s \o u \in Seq(Results)
  BY ConcatEmptySeq, ConcatProperties
<1>2. s \o Append(u, r) = Append(s \o u, r)
  <2>1. <<r>> \in Seq(Results)
    OBVIOUS
  <2>2. Append(u, r) = u \o <<r>> /\ Append(s \o u, r) = (s \o u) \o <<r>>
    BY <1>1, AppendIsConcat
  <2>. QED
    BY <2>1, <2>2, Regrouped
<1>3. ASSUME u # <<>> PROVE Append(s, Head(u)) \o Tail(u) = s \o u
  <2>1. Head(u) \in Results /\ Tail(u) \in Seq(Results) /\ <<Head(u)>> \in Seq(Results)
    BY <1>3, HeadTailProperties
  <2>2. Append(s, Head(u)) = s \o <<Head(u)>>
    BY <2>1, AppendIsConcat
  <2>3. <<Head(u)>> \o Tail(u) = u
    BY <1>3
  <2>. QED
    BY <2>1, <2>2, <2>3, Regrouped
<1>. QED
  BY <1>1, <1>2, <1>3

(* The order of execution survives one failure.                            *)
LEMMA InOrderNext == TypeOK /\ InOrder /\ [Next]_vars => InOrder'
<1>. SUFFICES ASSUME TypeOK, InOrder, [Next]_vars PROVE InOrder'
  OBVIOUS
<1>1. /\ queue \in Seq(Results) /\ flushing \in Seq(Results) /\ failed \in Seq(Results)
      /\ published \in Seq(Results) /\ executed \in Seq(Results) /\ failures \in Nat
      /\ <<>> \in Seq(Results)
  BY Types
<1>2. CASE Still
  BY <1>2 DEF Still, InOrder, OrderSurvivesOneFailure
<1>3. CASE Taken
  <2>1. /\ flushing = <<>> /\ failed = <<>> /\ queue' = <<>> /\ failed' = <<>>
        /\ published' = published /\ failures' = failures
    BY <1>3 DEF Taken
  <2>2. failures <= 1 => published \o queue = executed
    BY <1>1, <2>1, Joins DEF InOrder, OrderSurvivesOneFailure
  <2>3. CASE flushing' = queue /\ executed' = executed
    <3>1. failures <= 1 => published' \o failed' \o flushing' \o queue' = executed'
      BY <1>1, <2>1, <2>2, <2>3, Joins
    <3>. QED
      BY <2>1, <2>3, <3>1 DEF InOrder, OrderSurvivesOneFailure
  <2>4. CASE \E r \in Results : flushing' = Append(queue, r) /\ executed' = Append(executed, r)
    <3>1. PICK r \in Results : flushing' = Append(queue, r) /\ executed' = Append(executed, r)
      BY <2>4
    <3>2. Append(queue, r) \in Seq(Results) /\ (queue = <<>> => Len(Append(queue, r)) = 1)
      BY <1>1, AppendProperties
    <3>3. published \o Append(queue, r) = Append(published \o queue, r)
      BY <1>1, Joins
    <3>4. published \o <<>> = published /\ (published \o Append(queue, r)) \o <<>> = published \o Append(queue, r)
      BY <1>1, <3>2, Joins
    <3>5. failures <= 1 => published' \o failed' \o flushing' \o queue' = executed'
      BY <2>1, <2>2, <3>1, <3>3, <3>4
    <3>. QED
      BY <2>1, <3>1, <3>2, <3>5 DEF InOrder, OrderSurvivesOneFailure
  <2>. QED
    BY <1>3, <2>3, <2>4 DEF Taken
<1>4. CASE Delivered
  <2>1. /\ flushing # <<>> /\ flushing' = Tail(flushing) /\ published' = Append(published, Head(flushing))
        /\ UNCHANGED <<queue, failed, executed, failures>>
    BY <1>4 DEF Delivered
  <2>2. /\ Head(flushing) \in Results /\ Tail(flushing) \in Seq(Results)
        /\ Len(Tail(flushing)) = Len(flushing) - 1 /\ Len(flushing) \in Nat
    BY <1>1, <2>1, HeadTailProperties
  <2>3. Append(published, Head(flushing)) \in Seq(Results)
    BY <1>1, <2>2, AppendProperties
  <2>4. Append(published, Head(flushing)) \o Tail(flushing) = published \o flushing
    BY <1>1, <2>1, <2>2, Joins
  <2>5. failures <= 1 => failed = <<>>
    BY <1>1, <2>1 DEF InOrder
  <2>6. failures <= 1 => published' \o failed' \o flushing' \o queue' = executed'
    <3>1. SUFFICES ASSUME failures <= 1
                   PROVE  published' \o failed' \o flushing' \o queue' = executed'
      OBVIOUS
    <3>2. published \o failed = published
          /\ Append(published, Head(flushing)) \o failed = Append(published, Head(flushing))
      BY <1>1, <2>3, <2>5, <3>1, Joins
    <3>. QED
      BY <2>1, <2>4, <3>1, <3>2 DEF InOrder, OrderSurvivesOneFailure
  <2>7. failures = 0 => queue = <<>> /\ Len(Tail(flushing)) <= 1
    BY <2>2 DEF InOrder
  <2>8. failures' = 0 => queue' = <<>> /\ failed' = <<>> /\ Len(flushing') <= 1
    BY <1>1, <2>1, <2>5, <2>7
  <2>9. failures' = 1 => failed' = <<>>
    BY <2>1, <2>5
  <2>. QED
    BY <2>1, <2>6, <2>8, <2>9 DEF InOrder, OrderSurvivesOneFailure
<1>5. CASE Undelivered
  <2>1. /\ flushing # <<>> /\ flushing' = Tail(flushing) /\ failed' = Append(failed, Head(flushing))
        /\ failures' = failures + 1 /\ UNCHANGED <<queue, published, executed>>
    BY <1>5 DEF Undelivered
  <2>2. CASE failures # 0
    <3>1. failures' # 0 /\ (failures' = 1 => FALSE) /\ ~(failures' <= 1)
      BY <1>1, <2>1, <2>2
    <3>. QED
      BY <3>1 DEF InOrder, OrderSurvivesOneFailure
  <2>3. CASE failures = 0
    <3>1. queue = <<>> /\ failed = <<>> /\ Len(flushing) <= 1 /\ failures' = 1
      BY <1>1, <2>1, <2>3 DEF InOrder
    <3>2. Tail(flushing) = <<>> /\ Head(flushing) \in Results
      <4>1. /\ Tail(flushing) \in Seq(Results) /\ Len(Tail(flushing)) = Len(flushing) - 1
            /\ Len(flushing) \in Nat /\ Head(flushing) \in Results /\ Len(Tail(flushing)) \in Nat
        BY <1>1, <2>1, HeadTailProperties
      <4>2. Len(Tail(flushing)) = 0
        BY <3>1, <4>1
      <4>. QED
        BY <4>1, <4>2, EmptySeq
    <3>3. published \o flushing = executed
      BY <1>1, <2>3, <3>1, Joins DEF InOrder, OrderSurvivesOneFailure
    <3>4. Append(<<>>, Head(flushing)) \o Tail(flushing) = flushing
      BY <1>1, <2>1, Joins
    <3>5. Append(<<>>, Head(flushing)) \in Seq(Results)
      BY <1>1, <3>2, AppendProperties
    <3>6. failed' = flushing
      BY <2>1, <3>1, <3>2, <3>4, <3>5, Joins
    <3>7. published' \o failed' \o flushing' \o queue' = executed'
      <4>1. published \o flushing \in Seq(Results)
        BY <1>1, Joins
      <4>2. (published \o flushing) \o <<>> = published \o flushing
        BY <1>1, <4>1, Joins
      <4>. QED
        BY <2>1, <3>1, <3>2, <3>3, <3>6, <4>2
    <3>. QED
      BY <2>1, <3>1, <3>2, <3>7 DEF InOrder, OrderSurvivesOneFailure
  <2>. QED
    BY <2>2, <2>3
<1>6. CASE Returned
  <2>1. flushing = <<>> /\ failed' = <<>> /\ UNCHANGED <<published, executed, failures>>
    BY <1>6 DEF Returned
  <2>2. failed \o queue \in Seq(Results)
    BY <1>1, Joins
  <2>3. failures <= 1 => published \o (failed \o queue) = executed
    <3>1. published \o failed \in Seq(Results) /\ (published \o failed) \o <<>> = published \o failed
      BY <1>1, Joins
    <3>2. (published \o failed) \o queue = published \o (failed \o queue)
      BY <1>1, Regrouped
    <3>. QED
      BY <2>1, <3>1, <3>2 DEF InOrder, OrderSurvivesOneFailure
  <2>4. published \o <<>> = published
        /\ (published \o (failed \o queue)) \o <<>> = published \o (failed \o queue)
    BY <1>1, <2>2, Joins
  <2>5. failures = 0 => failed \o queue = <<>>
    BY <1>1, Joins DEF InOrder
  <2>6. Len(<<>>) = 0
    OBVIOUS
  <2>7. CASE queue' = failed \o queue /\ flushing' = <<>>
    <3>1. failures <= 1 => published' \o failed' \o flushing' \o queue' = executed'
      BY <2>1, <2>3, <2>4, <2>7
    <3>. QED
      BY <2>1, <2>5, <2>6, <2>7, <3>1 DEF InOrder, OrderSurvivesOneFailure
  <2>8. CASE queue' = <<>> /\ flushing' = failed \o queue
    <3>1. failures <= 1 => published' \o failed' \o flushing' \o queue' = executed'
      BY <2>1, <2>3, <2>4, <2>8
    <3>. QED
      BY <2>1, <2>5, <2>6, <2>8, <3>1 DEF InOrder, OrderSurvivesOneFailure
  <2>. QED
    BY <1>6, <2>7, <2>8 DEF Returned
<1>. QED
  BY <1>2, <1>3, <1>4, <1>5, <1>6, Flow

(* Two sequences of results joined, and one result more.                   *)
LEMMA Joined ==
  ASSUME NEW s \in Seq(Results)
  PROVE  /\ Len(s) \in Nat
         /\ \A u \in Seq(Results) : /\ s \o u \in Seq(Results) /\ Len(s \o u) = Len(s) + Len(u)
                                   /\ ToSet(s \o u) = ToSet(s) \cup ToSet(u)
         /\ \A r \in Results : /\ Len(Append(s, r)) = Len(s) + 1
                              /\ ToSet(Append(s, r)) = ToSet(s) \cup {r}
<1>1. Len(s) \in Nat
  BY LenProperties
<1>2. ASSUME NEW u \in Seq(Results)
      PROVE  s \o u \in Seq(Results) /\ Len(s \o u) = Len(s) + Len(u)
  BY ConcatProperties
<1>3. ASSUME NEW r \in Results PROVE Len(Append(s, r)) = Len(s) + 1
  BY AppendProperties
<1>. QED
  BY <1>1, <1>2, <1>3, Elements

(* The results that are published or still to be, by set and by number.    *)
LEMMA Parts ==
  ASSUME NEW p \in Seq(Results), NEW l \in Seq(Results), NEW f \in Seq(Results), NEW q \in Seq(Results)
  PROVE  /\ ToSet(p \o l \o f \o q) = ToSet(p) \cup ToSet(l) \cup ToSet(f) \cup ToSet(q)
         /\ Len(p \o l \o f \o q) = Len(p) + Len(l) + Len(f) + Len(q)
<1>. DEFINE pl == p \o l
            plf == pl \o f
<1>1. pl \in Seq(Results) /\ Len(pl) = Len(p) + Len(l) /\ ToSet(pl) = ToSet(p) \cup ToSet(l)
  BY Joined
<1>. HIDE DEF pl
<1>2. plf \in Seq(Results) /\ Len(plf) = Len(pl) + Len(f) /\ ToSet(plf) = ToSet(pl) \cup ToSet(f)
  BY <1>1, Joined
<1>. HIDE DEF plf
<1>3. Len(plf \o q) = Len(plf) + Len(q) /\ ToSet(plf \o q) = ToSet(plf) \cup ToSet(q)
  BY <1>2, Joined
<1>4. plf \o q = p \o l \o f \o q
  BY DEF plf, pl
<1>. QED
  BY <1>1, <1>2, <1>3, <1>4

(* No result is lost or doubled on its way.                                *)
LEMMA AccountedNext == TypeOK /\ Accounted /\ [Next]_vars => Accounted'
<1>. SUFFICES ASSUME TypeOK, Accounted, [Next]_vars PROVE Accounted'
  OBVIOUS
<1>1. /\ queue \in Seq(Results) /\ flushing \in Seq(Results) /\ failed \in Seq(Results)
      /\ published \in Seq(Results) /\ executed \in Seq(Results)
      /\ <<>> \in Seq(Results) /\ Len(<<>>) = 0 /\ ToSet(<<>>) = {}
  BY Types, Elements
<1>2. /\ queue' \in Seq(Results) /\ flushing' \in Seq(Results) /\ failed' \in Seq(Results)
      /\ published' \in Seq(Results) /\ executed' \in Seq(Results)
  BY TypeNext, TypeParts DEF ResultTypes
<1>3. /\ ToSet(published) \cup ToSet(flushing) \cup ToSet(failed) \cup ToSet(queue) = ToSet(executed)
      /\ Len(published) + Len(flushing) + Len(failed) + Len(queue) = Len(executed)
  BY <1>1, Parts DEF Accounted
<1>4. ASSUME /\ ToSet(published') \cup ToSet(flushing') \cup ToSet(failed') \cup ToSet(queue')
                = ToSet(executed'),
             Len(published') + Len(flushing') + Len(failed') + Len(queue') = Len(executed')
      PROVE  Accounted'
  <2>. DEFINE all == published' \o flushing' \o failed' \o queue'
  <2>1. /\ ToSet(all) = ToSet(published') \cup ToSet(flushing') \cup ToSet(failed') \cup ToSet(queue')
        /\ Len(all) = Len(published') + Len(flushing') + Len(failed') + Len(queue')
    BY <1>2, Parts
  <2>2. ToSet(all) = ToSet(executed') /\ Len(all) = Len(executed')
    BY <1>4, <2>1
  <2>. QED
    BY <2>2 DEF Accounted
<1>5. /\ Len(queue) \in Nat /\ Len(flushing) \in Nat /\ Len(failed) \in Nat
      /\ Len(published) \in Nat /\ Len(executed) \in Nat
  BY <1>1, LenProperties
<1>6. CASE Still
  BY <1>3, <1>4, <1>6 DEF Still
<1>7. CASE Taken
  <2>1. /\ flushing = <<>> /\ failed = <<>> /\ queue' = <<>> /\ failed' = <<>>
        /\ published' = published
    BY <1>7 DEF Taken
  <2>2. CASE flushing' = queue /\ executed' = executed
    BY <1>1, <1>3, <1>4, <1>5, <2>1, <2>2
  <2>3. CASE \E r \in Results : flushing' = Append(queue, r) /\ executed' = Append(executed, r)
    <3>1. PICK r \in Results : flushing' = Append(queue, r) /\ executed' = Append(executed, r)
      BY <2>3
    <3>2. /\ ToSet(flushing') = ToSet(queue) \cup {r} /\ ToSet(executed') = ToSet(executed) \cup {r}
          /\ Len(flushing') = Len(queue) + 1 /\ Len(executed') = Len(executed) + 1
      BY <1>1, <3>1, Joined
    <3>3. Len(published') + Len(flushing') + Len(failed') + Len(queue') = Len(executed')
      <4>1. /\ Len(queue') = 0 /\ Len(flushing) = 0 /\ Len(failed) = 0 /\ Len(failed') = 0
            /\ Len(published') = Len(published)
        BY <2>1
      <4>. QED
        BY <1>3, <1>5, <3>2, <4>1
    <3>4. ToSet(published') \cup ToSet(flushing') \cup ToSet(failed') \cup ToSet(queue')
          = ToSet(executed')
      BY <1>1, <1>3, <2>1, <3>2
    <3>. QED
      BY <1>4, <3>3, <3>4
  <2>. QED
    BY <1>7, <2>2, <2>3 DEF Taken
<1>8. CASE Delivered \/ Undelivered
  <2>. DEFINE h == Head(flushing)
  <2>1. flushing # <<>> /\ flushing' = Tail(flushing) /\ UNCHANGED <<queue, executed>>
    BY <1>8 DEF Delivered, Undelivered
  <2>2. /\ h \in Results /\ ToSet(flushing) = {h} \cup ToSet(flushing')
        /\ Len(flushing') = Len(flushing) - 1
    BY <1>1, <2>1, HeadTailProperties, Elements
  <2>3. \/ published' = Append(published, h) /\ failed' = failed
        \/ failed' = Append(failed, h) /\ published' = published
    BY <1>8 DEF Delivered, Undelivered
  <2>. HIDE DEF h
  <2>4. /\ ToSet(Append(published, h)) = ToSet(published) \cup {h}
        /\ Len(Append(published, h)) = Len(published) + 1
        /\ ToSet(Append(failed, h)) = ToSet(failed) \cup {h}
        /\ Len(Append(failed, h)) = Len(failed) + 1
    BY <1>1, <2>2, Joined
  <2>5. Len(published') + Len(flushing') + Len(failed') + Len(queue') = Len(executed')
    <3>1. Len(queue') = Len(queue) /\ Len(executed') = Len(executed)
      BY <2>1
    <3>2. \/ Len(published') = Len(published) + 1 /\ Len(failed') = Len(failed)
          \/ Len(published') = Len(published) /\ Len(failed') = Len(failed) + 1
      BY <2>3, <2>4
    <3>3. /\ Len(published) + Len(flushing) + Len(failed) + Len(queue) = Len(executed)
          /\ Len(flushing') = Len(flushing) - 1
      BY <1>3, <2>2
    <3>. QED
      BY <1>5, <3>1, <3>2, <3>3
  <2>6. ToSet(published') \cup ToSet(flushing') \cup ToSet(failed') \cup ToSet(queue') = ToSet(executed')
    BY <1>3, <2>1, <2>2, <2>3, <2>4
  <2>. QED
    BY <1>4, <2>5, <2>6
<1>9. CASE Returned
  <2>1. flushing = <<>> /\ failed' = <<>> /\ UNCHANGED <<published, executed>>
    BY <1>9 DEF Returned
  <2>2. /\ ToSet(failed \o queue) = ToSet(failed) \cup ToSet(queue)
        /\ Len(failed \o queue) = Len(failed) + Len(queue)
    BY <1>1, Joined
  <2>3. \/ queue' = failed \o queue /\ flushing' = <<>>
        \/ queue' = <<>> /\ flushing' = failed \o queue
    BY <1>9 DEF Returned
  <2>4. Len(published') + Len(flushing') + Len(failed') + Len(queue') = Len(executed')
    <3>1. /\ Len(flushing) = 0 /\ Len(failed') = 0 /\ Len(published') = Len(published)
          /\ Len(executed') = Len(executed)
      BY <1>1, <2>1
    <3>2. \/ Len(queue') = Len(failed) + Len(queue) /\ Len(flushing') = 0
          \/ Len(queue') = 0 /\ Len(flushing') = Len(failed) + Len(queue)
      BY <1>1, <2>2, <2>3
    <3>3. Len(published) + Len(flushing) + Len(failed) + Len(queue) = Len(executed)
      BY <1>3
    <3>. QED
      BY <1>5, <3>1, <3>2, <3>3
  <2>5. ToSet(published') \cup ToSet(flushing') \cup ToSet(failed') \cup ToSet(queue') = ToSet(executed')
    BY <1>1, <1>3, <2>1, <2>2, <2>3
  <2>. QED
    BY <1>4, <2>4, <2>5
<1>. QED
  BY <1>6, <1>7, <1>8, <1>9, Flow
-----------------------------------------------------------------------------
(* Taking the first message off a subscription, on its way or not, keeps   *)
(* the traces.                                                             *)
LEMMA TracedReceive ==
  ASSUME TypeOK, Traced, NEW c \in Client, Receive(c)
  PROVE  Traced'
<1>1. Callback(c) /\ UNCHANGED <<sent, executed>>
  BY DEF Receive, Malformed, Enqueue, GiveUp, SendOnClosed, Callback, poolVars
<1>. DEFINE At(d, i) == IF d = c THEN i + 1 ELSE i
<1>2. \A d \in Client : \A i \in DOMAIN sub'[d] :
        /\ At(d, i) \in DOMAIN sub[d] /\ sub'[d][i] = sub[d][At(d, i)]
        /\ d = c => At(d, i) # 1
  <2>1. \A i \in DOMAIN sub'[c] : i \in Nat \ {0}
    <3>1. sub'[c] \in Seq(Message)
      BY <1>1, CalledBack
    <3>. QED
      BY <3>1
  <2>2. \A i \in DOMAIN sub'[c] : i + 1 \in DOMAIN sub[c] /\ sub'[c][i] = sub[c][i + 1] /\ i + 1 # 1
    BY <1>1, <2>1, CalledBack
  <2>. QED
    BY <1>1, <2>2, CalledBack
<1>3. \A d \in Client : \A i, j \in DOMAIN sub'[d] : At(d, i) = At(d, j) => i = j
  <2>1. \A d \in Client : \A i \in DOMAIN sub'[d] : i \in Nat
    <3>1. \A d \in Client : sub'[d] \in Seq(Message)
      BY <1>1, CalledBack
    <3>. QED
      BY <3>1
  <2>. QED
    BY <2>1
<1>. HIDE DEF At
<1>4. /\ \A d \in Client : \A i \in DOMAIN sub'[d] : sub'[d][i].id \in sent'
      /\ \A d, e \in Client : \A i \in DOMAIN sub'[d], j \in DOMAIN sub'[e] :
           sub'[d][i].id = sub'[e][j].id => d = e /\ i = j
      /\ \A d \in Client : \A i \in DOMAIN sub'[d], j \in DOMAIN executed' :
           sub'[d][i].id # executed'[j].id
      /\ \A i \in DOMAIN executed' : executed'[i].id \in sent'
  <2>1. \A d \in Client : \A i \in DOMAIN sub'[d] : sub'[d][i].id \in sent'
    BY <1>1, <1>2 DEF Traced
  <2>2. ASSUME NEW d \in Client, NEW e \in Client, NEW i \in DOMAIN sub'[d], NEW j \in DOMAIN sub'[e],
               sub'[d][i].id = sub'[e][j].id
        PROVE  d = e /\ i = j
    <3>1. d = e /\ At(d, i) = At(e, j)
      BY <1>2, <2>2 DEF Traced
    <3>. QED
      BY <1>3, <2>2, <3>1
  <2>3. \A d \in Client : \A i \in DOMAIN sub'[d], j \in DOMAIN executed' :
          sub'[d][i].id # executed'[j].id
    BY <1>1, <1>2 DEF Traced
  <2>4. \A i \in DOMAIN executed' : executed'[i].id \in sent'
    BY <1>1 DEF Traced
  <2>. QED
    BY <2>1, <2>2, <2>3, <2>4
<1>5. CASE channel' = channel
  BY <1>1, <1>2, <1>4, <1>5 DEF Traced
<1>6. CASE Enqueue(c)
  <2>. DEFINE x == [client |-> c, message |-> Head(sub[c])]
              n == Len(channel) + 1
  <2>1. channel' = Append(channel, x) /\ channel \in Seq(Item)
    BY <1>6 DEF Enqueue, TypeOK, Item
  <2>2. /\ x \in Item /\ x.message = sub[c][1] /\ 1 \in DOMAIN sub[c]
    BY <1>1, CalledBack DEF Item
  <2>. HIDE DEF x
  <2>3. /\ DOMAIN channel' = 1..n /\ n \in Nat /\ DOMAIN channel = 1..(n - 1)
        /\ \A i \in DOMAIN channel : channel'[i] = channel[i]
        /\ channel'[n] = x
    BY <2>1, <2>2, AppendProperties
  <2>. HIDE DEF n
  <2>4. \A i \in DOMAIN channel' : \/ i \in DOMAIN channel /\ channel'[i].message = channel[i].message
                                   \/ i = n /\ channel'[i].message = sub[c][1]
    BY <2>2, <2>3
  <2>5. \A i \in DOMAIN channel' : channel'[i].message.id \in sent'
    BY <1>1, <2>2, <2>4 DEF Traced
  <2>6. \A i, j \in DOMAIN channel' : channel'[i].message.id = channel'[j].message.id => i = j
    BY <2>2, <2>4 DEF Traced
  <2>7. \A d \in Client : \A i \in DOMAIN sub'[d], j \in DOMAIN channel' :
          sub'[d][i].id # channel'[j].message.id
    <3>1. \A d \in Client : \A i \in DOMAIN sub'[d] : sub'[d][i].id # sub[c][1].id
      BY <1>2, <2>2 DEF Traced
    <3>2. \A d \in Client : \A i \in DOMAIN sub'[d], j \in DOMAIN channel :
            sub'[d][i].id # channel[j].message.id
      BY <1>2 DEF Traced
    <3>. QED
      BY <2>4, <3>1, <3>2
  <2>8. \A i \in DOMAIN channel', j \in DOMAIN executed' : channel'[i].message.id # executed'[j].id
    BY <1>1, <2>2, <2>4 DEF Traced
  <2>. QED
    BY <1>4, <2>5, <2>6, <2>7, <2>8 DEF Traced
<1>. QED
  BY <1>5, <1>6 DEF Receive, Malformed, GiveUp, SendOnClosed

(* A message that is sent has an id of its own.                            *)
LEMMA TracedSend ==
  ASSUME TypeOK, Traced, NEW c \in Client, NEW m \in Message, SendDispatch(c, m)
  PROVE  Traced'
<1>1. /\ m.id \notin sent /\ sent' = sent \cup {m.id} /\ UNCHANGED <<channel, executed>>
      /\ sub' = [sub EXCEPT ![c] = Append(sub[c], m)]
  BY DEF SendDispatch, poolVars
<1>2. sub \in [Client -> Seq(Message)]
  BY DEF TypeOK
<1>. DEFINE n == Len(sub[c]) + 1
<1>3. /\ DOMAIN sub'[c] = 1..n /\ DOMAIN sub[c] = 1..(n - 1) /\ n \in Nat
      /\ \A i \in DOMAIN sub[c] : sub'[c][i] = sub[c][i]
      /\ sub'[c][n] = m
  BY <1>1, <1>2, AppendProperties
<1>. HIDE DEF n
<1>4. \A d \in Client : \A i \in DOMAIN sub'[d] :
        \/ i \in DOMAIN sub[d] /\ sub'[d][i] = sub[d][i]
        \/ d = c /\ i = n /\ sub'[d][i] = m
  BY <1>1, <1>2, <1>3
<1>5. \A d \in Client : \A i \in DOMAIN sub'[d] : sub'[d][i].id \in sent'
  BY <1>1, <1>4 DEF Traced
<1>6. \A d, e \in Client : \A i \in DOMAIN sub'[d], j \in DOMAIN sub'[e] :
        sub'[d][i].id = sub'[e][j].id => d = e /\ i = j
  BY <1>1, <1>4 DEF Traced
<1>7. /\ \A d \in Client : \A i \in DOMAIN sub'[d], j \in DOMAIN channel :
           sub'[d][i].id # channel[j].message.id
      /\ \A d \in Client : \A i \in DOMAIN sub'[d], j \in DOMAIN executed :
           sub'[d][i].id # executed[j].id
  BY <1>1, <1>4 DEF Traced
<1>. QED
  BY <1>1, <1>5, <1>6, <1>7 DEF Traced

(* A dispatch that is handled leaves the channel, and may be executed.     *)
LEMMA TracedHandle ==
  ASSUME TypeOK, Traced, HandleDispatch
  PROVE  Traced'
<1>1. channel \in Seq(Item) /\ channel # <<>> /\ channel' = Tail(channel) /\ UNCHANGED <<sub, sent>>
  BY DEF TypeOK, HandleDispatch, Item, natsVars
<1>2. /\ DOMAIN channel' = 1..(Len(channel) - 1) /\ DOMAIN channel = 1..Len(channel)
      /\ Len(channel) \in Nat \ {0}
      /\ \A i \in 1..(Len(channel) - 1) : channel'[i] = channel[i + 1]
  BY <1>1, HeadTailProperties, EmptySeq
<1>3. /\ \A i \in DOMAIN channel' : i \in Nat \ {0} /\ i + 1 \in DOMAIN channel /\ channel'[i] = channel[i + 1]
      /\ 1 \in DOMAIN channel
  BY <1>2
<1>4. /\ \A i \in DOMAIN channel' : channel'[i].message.id \in sent
      /\ \A c \in Client : \A i \in DOMAIN sub[c], j \in DOMAIN channel' :
           sub[c][i].id # channel'[j].message.id
      /\ \A i \in DOMAIN channel', j \in DOMAIN executed : channel'[i].message.id # executed[j].id
  BY <1>3 DEF Traced
<1>5. \A i, j \in DOMAIN channel' : channel'[i].message.id = channel'[j].message.id => i = j
  <2>1. \A i, j \in DOMAIN channel' : i + 1 = j + 1 => i = j
    BY <1>3
  <2>. QED
    BY <1>3, <2>1 DEF Traced
<1>6. \A i \in DOMAIN channel' : channel'[i].message.id # channel[1].message.id
  <2>1. \A i \in DOMAIN channel' : i + 1 # 1
    BY <1>3
  <2>. QED
    BY <1>3, <2>1 DEF Traced
<1>7. CASE executed' = executed
  BY <1>1, <1>4, <1>5, <1>7 DEF Traced
<1>8. CASE \E r \in Results : executed' = Append(executed, r) /\ r.id = channel[1].message.id
  <2>1. PICK r \in Results : executed' = Append(executed, r) /\ r.id = channel[1].message.id
    BY <1>8
  <2>2. executed \in Seq(Results)
    BY DEF TypeOK
  <2>3. \A i \in DOMAIN executed' : \/ i \in DOMAIN executed /\ executed'[i] = executed[i]
                                    \/ executed'[i] = r
    <3>1. /\ DOMAIN executed' = 1..(Len(executed) + 1) /\ DOMAIN executed = 1..Len(executed)
          /\ Len(executed) \in Nat /\ executed'[Len(executed) + 1] = r
          /\ \A i \in 1..Len(executed) : executed'[i] = executed[i]
      BY <2>1, <2>2, AppendProperties
    <3>. QED
      BY <3>1
  <2>4. \A i \in DOMAIN executed' : executed'[i].id \in sent
    BY <1>3, <2>1, <2>3 DEF Traced
  <2>5. \A c \in Client : \A i \in DOMAIN sub[c], j \in DOMAIN executed' : sub[c][i].id # executed'[j].id
    BY <1>3, <2>1, <2>3 DEF Traced
  <2>6. \A i \in DOMAIN channel', j \in DOMAIN executed' : channel'[i].message.id # executed'[j].id
    BY <1>4, <1>6, <2>1, <2>3
  <2>. QED
    BY <1>1, <1>4, <1>5, <2>4, <2>5, <2>6 DEF Traced
<1>9. executed' = executed \/ \E r \in Results : executed' = Append(executed, r) /\ r.id = channel[1].message.id
  <2>1. PICK c \in Client, m \in Message :
           /\ channel[1] = [client |-> c, message |-> m]
           /\ \/ \E o \in Outcomes(m, store[c]) : /\ Result(m, c, o) \in Results
                                                  /\ executed' = Append(executed, Result(m, c, o))
              \/ executed' = executed
    BY Handled
  <2>2. ASSUME NEW o \in Outcomes(m, store[c]), Result(m, c, o) \in Results,
               executed' = Append(executed, Result(m, c, o))
        PROVE  \E r \in Results : executed' = Append(executed, r) /\ r.id = channel[1].message.id
    <3>1. Result(m, c, o).id = channel[1].message.id
      BY <2>1 DEF Result
    <3>. QED
      BY <2>2, <3>1
  <2>. QED
    BY <2>1, <2>2
<1>. QED
  BY <1>7, <1>8, <1>9

(* Every step keeps the traces.                                            *)
LEMMA TracedNext == TypeOK /\ Traced /\ [Next]_vars => Traced'
<1>. SUFFICES ASSUME TypeOK, Traced, [Next]_vars PROVE Traced'
  OBVIOUS
<1>1. ASSUME UNCHANGED <<sub, sent, channel, executed>> PROVE Traced'
  BY <1>1 DEF Traced
<1>2. CASE UNCHANGED vars \/ Cancel \/ CloseChannel \/ Done \/ Drained \/ PublishResult \/ EndFlush
  BY <1>1, <1>2 DEF vars, natsVars, poolVars, Cancel, CloseChannel, Done, Drained, PublishResult, EndFlush
<1>. QED
  BY <1>2, TracedReceive, TracedSend, TracedHandle DEF Next, Run

(* What is executed grows by a dispatch that was not executed before, and  *)
(* then only.                                                              *)
LEMMA Grown ==
  ASSUME TypeOK, [Next]_vars
  PROVE  UNCHANGED <<store, executed>> \/ HandleDispatch
BY DEF Next, Run, vars, natsVars, poolVars, Cancel, CloseChannel, Done, Drained, PublishResult, EndFlush,
       SendDispatch, Receive, Malformed, Enqueue, GiveUp, SendOnClosed, Callback

(* A dispatch that is handled for the first time counts one more id.       *)
LEMMA CountedNext == TypeOK /\ Traced /\ Counted /\ [Next]_vars => Counted'
<1>. SUFFICES ASSUME TypeOK, Traced, Counted, [Next]_vars PROVE Counted'
  OBVIOUS
<1>1. CASE executed' = executed
  BY <1>1 DEF Counted, Ids
<1>2. CASE HandleDispatch
  <2>1. PICK c \in Client, m \in Message :
           /\ channel[1] = [client |-> c, message |-> m]
           /\ \/ \E o \in Outcomes(m, store[c]) : /\ Result(m, c, o) \in Results
                                                  /\ executed' = Append(executed, Result(m, c, o))
              \/ executed' = executed
    BY <1>2, Handled
  <2>2. ASSUME NEW o \in Outcomes(m, store[c]), Result(m, c, o) \in Results,
               executed' = Append(executed, Result(m, c, o))
        PROVE  Counted'
    <3>. DEFINE r == Result(m, c, o)
    <3>1. r.id = channel[1].message.id /\ r \in Results /\ executed' = Append(executed, r)
      BY <2>1, <2>2 DEF Result
    <3>. HIDE DEF r
    <3>2. executed \in Seq(Results) /\ channel \in Seq(Item) /\ channel # <<>>
      BY <1>2 DEF TypeOK, HandleDispatch, Item
    <3>3. ToSet(executed') = ToSet(executed) \cup {r} /\ Len(executed') = Len(executed) + 1
      BY <3>1, <3>2, Joined
    <3>4. Ids(executed') = Ids(executed) \cup {r.id}
      BY <3>3 DEF Ids
    <3>5. 1 \in DOMAIN channel
      BY <3>2, EmptySeq
    <3>6. r.id \notin Ids(executed)
      BY <3>1, <3>5 DEF Traced, Ids, ToSet
    <3>7. IsFiniteSet(Ids(executed')) /\ Cardinality(Ids(executed')) = Cardinality(Ids(executed)) + 1
      BY <3>4, <3>6, FS_AddElement DEF Counted
    <3>. QED
      BY <3>3, <3>7 DEF Counted
  <2>. QED
    BY <1>1, <2>1, <2>2
<1>. QED
  BY <1>1, <1>2, Grown

(* The store is what the last report says, and a silent client is as it    *)
(* was.                                                                    *)
LEMMA RememberedNext == TypeOK /\ Remembered /\ [Next]_vars => Remembered'
<1>. SUFFICES ASSUME TypeOK, Remembered, [Next]_vars PROVE Remembered'
  OBVIOUS
<1>1. CASE UNCHANGED <<store, executed>>
  BY <1>1 DEF Remembered, LastReport, SilentForEver
<1>2. CASE HandleDispatch
  <2>1. PICK c \in Client, m \in Message :
           \/ \E o \in Outcomes(m, store[c]) : /\ store' = [store EXCEPT ![c] = o.state]
                                               /\ Result(m, c, o) \in Results
                                               /\ executed' = Append(executed, Result(m, c, o))
           \/ UNCHANGED <<store, executed>>
    BY <1>2, Handled
  <2>2. ASSUME NEW o \in Outcomes(m, store[c]), Result(m, c, o) \in Results,
               store' = [store EXCEPT ![c] = o.state],
               executed' = Append(executed, Result(m, c, o))
        PROVE  Remembered'
    <3>. DEFINE r == Result(m, c, o)
                n == Len(executed) + 1
    <3>1. /\ r \in Results /\ r.client = c /\ r.state = o.state /\ r.status = o.status
          /\ executed' = Append(executed, r)
      BY <2>2 DEF Result
    <3>. HIDE DEF r
    <3>2. executed \in Seq(Results) /\ store \in [Client -> ClientState]
      BY DEF TypeOK
    <3>3. /\ DOMAIN executed' = 1..n /\ n \in Nat /\ DOMAIN executed = 1..(n - 1)
          /\ \A i \in DOMAIN executed : executed'[i] = executed[i]
          /\ executed'[n] = r
      BY <3>1, <3>2, AppendProperties
    <3>. HIDE DEF n
    <3>4. store'[c] = o.state /\ \A d \in Client \ {c} : store'[d] = store[d]
      BY <2>2, <3>2
    <3>5. \A d \in Client : store'[d] = LastReport(executed', d)
      <4>1. ASSUME NEW d \in Client
            PROVE  LastReport(executed', d) = IF r.client = d THEN r.state ELSE LastReport(executed, d)
        BY <3>1, <3>2, ReportAppended
      <4>. QED
        BY <3>1, <3>4, <4>1 DEF Remembered
    <3>6. store[c].mode = "silent" => o.state = store[c] /\ o.status \in {"success", "error"}
      BY <3>2, OutcomesSound
    <3>7. \A i \in DOMAIN executed' : i = n \/ i \in DOMAIN executed
      BY <3>3
    <3>8. \A i \in DOMAIN executed : executed[i].client \in Client
      <4>1. \A i \in DOMAIN executed : executed[i] \in Results
        BY <3>2
      <4>. QED
        BY <4>1 DEF Results
    <3>9. \A i \in DOMAIN executed :
            executed[i].state.mode = "silent" /\ executed[i].client = c =>
              /\ store[c] = executed[i].state
              /\ o.state = executed[i].state /\ o.status \in {"success", "error"}
      BY <3>6 DEF Remembered
    <3>10. \A i \in DOMAIN executed' :
             executed'[i].state.mode = "silent" => store'[executed'[i].client] = executed'[i].state
      BY <3>1, <3>3, <3>4, <3>7, <3>8, <3>9 DEF Remembered
    <3>11. ASSUME NEW i \in DOMAIN executed', NEW j \in DOMAIN executed', i < j,
                  executed'[i].client = executed'[j].client, executed'[i].state.mode = "silent"
           PROVE  /\ executed'[j].state = executed'[i].state
                  /\ executed'[j].status \in {"success", "error"}
      <4>1. i \in DOMAIN executed
        BY <3>3, <3>11
      <4>2. CASE j = n
        BY <3>1, <3>3, <3>9, <3>11, <4>1, <4>2
      <4>3. CASE j \in DOMAIN executed
        BY <3>3, <3>11, <4>1, <4>3 DEF Remembered, SilentForEver
      <4>. QED
        BY <3>7, <4>2, <4>3
    <3>. QED
      BY <3>5, <3>10, <3>11 DEF Remembered, SilentForEver
  <2>. QED
    BY <1>1, <2>1, <2>2
<1>. QED
  BY <1>1, <1>2, Grown
-----------------------------------------------------------------------------
(* The invariant holds of every behaviour.                                 *)
THEOREM Invariance == Spec => []SInv
<1>1. SInv /\ [Next]_vars => SInv'
  BY TypeNext, InOrderNext, AccountedNext, TracedNext, CountedNext, RememberedNext DEF SInv
<1>. QED
  BY <1>1, SInvInit, PTL DEF Spec

(* Every variable has its type, the channel is within its size, and a      *)
(* flush is under way only where the main goroutine flushes.               *)
THEOREM Typing == Spec => []TypeOK
<1>1. SInv => TypeOK
  BY DEF SInv
<1>. QED
  BY <1>1, Invariance, PTL

(* Every result that was executed is in exactly one place until it is      *)
(* published, and nothing is executed twice, whatever fails.               *)
THEOREM ExactlyOnce == Spec => []EachResultOnce
<1>1. SInv => EachResultOnce
  BY DEF SInv, EachResultOnce, Accounted, Counted
<1>. QED
  BY <1>1, Invariance, PTL

(* It takes two failed publications for results to change their order.     *)
THEOREM Ordering == Spec => []OrderSurvivesOneFailure
<1>1. SInv => OrderSurvivesOneFailure
  BY DEF SInv, InOrder
<1>. QED
  BY <1>1, Invariance, PTL

(* A pool at rest is what the server was last told, but for two failures.  *)
THEOREM Knowledge == Spec => []ServerKnowsState
<1>1. SInv => ServerKnowsState
  <2>. SUFFICES ASSUME SInv, at = "select", queue = <<>>, failures <= 1, NEW c \in Client
                PROVE  LastReport(published, c) = store[c]
    BY DEF ServerKnowsState
  <2>1. flushing = <<>> /\ failed = <<>> /\ published \in Seq(Results)
    BY DEF SInv, TypeOK
  <2>2. published \o <<>> = published
    BY <2>1, ConcatEmptySeq
  <2>3. published = executed
    BY <2>1, <2>2 DEF SInv, InOrder, OrderSurvivesOneFailure
  <2>. QED
    BY <2>3 DEF SInv, Remembered
<1>. QED
  BY <1>1, Invariance, PTL

(* A silent client answers with the same state for ever.                   *)
THEOREM Silence == Spec => []SilentForEver
<1>1. SInv => SilentForEver
  BY DEF SInv, Remembered
<1>. QED
  BY <1>1, Invariance, PTL
-----------------------------------------------------------------------------
(* A dispatch that was sent with the name of its activity, and that has    *)
(* not been decoded.                                                       *)
Mute(d) ==
  /\ d \in sent
  /\ \A c \in Client : \A i \in DOMAIN sub[c] : sub[c][i].id = d => sub[c][i].form = "name"
  /\ \A i \in DOMAIN channel : channel[i].message.id # d
  /\ \A i \in DOMAIN executed : executed[i].id # d

(* A dispatch that waits in the server's form is in no other place.        *)
LEMMA WaitingMute ==
  ASSUME SInv, NEW m \in Waiting("name")
  PROVE  Mute(m.id)
<1>0. PICK c \in Client : m \in ToSet(sub[c]) /\ m.form = "name"
  BY DEF Waiting
<1>1. PICK i \in DOMAIN sub[c] : m = sub[c][i] /\ m.form = "name"
  BY <1>0 DEF ToSet
<1>2. Traced
  BY DEF SInv
<1>3. m.id \in sent /\ \A d \in Client : \A j \in DOMAIN sub[d] : sub[d][j].id = m.id => sub[d][j] = m
  BY <1>1, <1>2 DEF Traced
<1>4. /\ \A j \in DOMAIN channel : channel[j].message.id # m.id
      /\ \A j \in DOMAIN executed : executed[j].id # m.id
  BY <1>1, <1>2 DEF Traced
<1>. QED
  BY <1>1, <1>3, <1>4 DEF Mute

(* It is dropped by the callback, and nothing else can become of it.       *)
LEMMA MuteNext ==
  ASSUME SInv, [Next]_vars, NEW d \in Dispatch, Mute(d)
  PROVE  Mute(d)'
<1>1. TypeOK /\ Traced
  BY DEF SInv
<1>2. ASSUME UNCHANGED <<sub, sent, channel, executed>> PROVE Mute(d)'
  BY <1>2 DEF Mute
<1>3. CASE UNCHANGED vars \/ Cancel \/ CloseChannel \/ Done \/ Drained \/ PublishResult \/ EndFlush
  BY <1>2, <1>3 DEF vars, natsVars, poolVars, Cancel, CloseChannel, Done, Drained, PublishResult, EndFlush
<1>4. ASSUME NEW c \in Client, NEW m \in Message, SendDispatch(c, m) PROVE Mute(d)'
  <2>1. /\ m.id \notin sent /\ sent' = sent \cup {m.id} /\ UNCHANGED <<channel, executed>>
        /\ sub' = [sub EXCEPT ![c] = Append(sub[c], m)]
    BY <1>4 DEF SendDispatch, poolVars
  <2>2. sub \in [Client -> Seq(Message)]
    BY <1>1 DEF TypeOK
  <2>3. \A i \in DOMAIN sub'[c] : \/ i \in DOMAIN sub[c] /\ sub'[c][i] = sub[c][i]
                                  \/ sub'[c][i] = m
    <3>1. /\ DOMAIN sub'[c] = 1..(Len(sub[c]) + 1) /\ DOMAIN sub[c] = 1..Len(sub[c])
          /\ Len(sub[c]) \in Nat /\ sub'[c][Len(sub[c]) + 1] = m
          /\ \A i \in 1..Len(sub[c]) : sub'[c][i] = sub[c][i]
      BY <2>1, <2>2, AppendProperties
    <3>. QED
      BY <3>1
  <2>4. \A e \in Client \ {c} : sub'[e] = sub[e]
    BY <2>1, <2>2
  <2>. QED
    BY <2>1, <2>3, <2>4 DEF Mute
<1>5. ASSUME NEW c \in Client, Receive(c) PROVE Mute(d)'
  <2>1. Callback(c) /\ UNCHANGED <<sent, executed>>
    BY <1>5 DEF Receive, Malformed, Enqueue, GiveUp, SendOnClosed, Callback, poolVars
  <2>2. \A e \in Client : \A i \in DOMAIN sub'[e] :
          sub'[e][i].id = d => sub'[e][i].form = "name"
    BY <1>1, <2>1, CalledBack DEF Mute
  <2>3. CASE channel' = channel
    BY <2>1, <2>2, <2>3 DEF Mute
  <2>4. CASE Enqueue(c)
    <3>. DEFINE x == [client |-> c, message |-> Head(sub[c])]
    <3>1. channel' = Append(channel, x) /\ channel \in Seq(Item) /\ Head(sub[c]).form = "object"
      BY <1>1, <2>4 DEF Enqueue, TypeOK, Item
    <3>2. x \in Item /\ x.message.id # d
      BY <1>1, <2>1, <3>1, CalledBack DEF Item, Mute
    <3>. HIDE DEF x
    <3>3. \A i \in DOMAIN channel' : channel'[i].message.id # d
      <4>1. /\ DOMAIN channel' = 1..(Len(channel) + 1) /\ DOMAIN channel = 1..Len(channel)
            /\ Len(channel) \in Nat /\ channel'[Len(channel) + 1] = x
            /\ \A i \in 1..Len(channel) : channel'[i] = channel[i]
        BY <3>1, <3>2, AppendProperties
      <4>. QED
        BY <3>2, <4>1 DEF Mute
    <3>. QED
      BY <2>1, <2>2, <3>3 DEF Mute
  <2>. QED
    BY <1>5, <2>3, <2>4 DEF Receive, Malformed, GiveUp, SendOnClosed
<1>6. CASE HandleDispatch
  <2>1. channel \in Seq(Item) /\ channel # <<>> /\ channel' = Tail(channel) /\ UNCHANGED <<sub, sent>>
    BY <1>1, <1>6 DEF TypeOK, HandleDispatch, Item, natsVars
  <2>2. 1 \in DOMAIN channel /\ \A i \in DOMAIN channel' : i + 1 \in DOMAIN channel /\ channel'[i] = channel[i + 1]
    <3>1. /\ DOMAIN channel' = 1..(Len(channel) - 1) /\ DOMAIN channel = 1..Len(channel)
          /\ Len(channel) \in Nat \ {0}
          /\ \A i \in 1..(Len(channel) - 1) : channel'[i] = channel[i + 1]
      BY <2>1, HeadTailProperties, EmptySeq
    <3>. QED
      BY <3>1
  <2>3. PICK c \in Client, m \in Message :
           /\ channel[1] = [client |-> c, message |-> m]
           /\ \/ \E o \in Outcomes(m, store[c]) : /\ Result(m, c, o) \in Results
                                                  /\ executed' = Append(executed, Result(m, c, o))
              \/ executed' = executed
    BY <1>1, <1>6, Handled
  <2>4. m.id # d
    BY <2>2, <2>3 DEF Mute
  <2>5. ASSUME NEW o \in Outcomes(m, store[c]), Result(m, c, o) \in Results,
               executed' = Append(executed, Result(m, c, o))
        PROVE  \A i \in DOMAIN executed' : executed'[i].id # d
    <3>. DEFINE r == Result(m, c, o)
    <3>1. r.id # d /\ r \in Results /\ executed \in Seq(Results) /\ executed' = Append(executed, r)
      BY <1>1, <2>4, <2>5 DEF Result, TypeOK
    <3>. HIDE DEF r
    <3>2. /\ DOMAIN executed' = 1..(Len(executed) + 1) /\ DOMAIN executed = 1..Len(executed)
          /\ Len(executed) \in Nat /\ executed'[Len(executed) + 1] = r
          /\ \A i \in 1..Len(executed) : executed'[i] = executed[i]
      BY <3>1, AppendProperties
    <3>. QED
      BY <3>1, <3>2 DEF Mute
  <2>6. \A i \in DOMAIN executed' : executed'[i].id # d
    BY <2>3, <2>5 DEF Mute
  <2>. QED
    BY <2>1, <2>2, <2>6 DEF Mute
<1>. QED
  BY <1>3, <1>4, <1>5, <1>6 DEF Next, Run

(* No dispatch that comes in the form the server sends is ever answered.   *)
THEOREM Muteness == Spec => ServerDispatchUnanswered
<1>1. SUFFICES ASSUME NEW d \in Dispatch
               PROVE  Spec => []((\E m \in Waiting("name") : m.id = d) => [](d \notin Ids(published)))
  BY DEF ServerDispatchUnanswered
<1>2. SInv => ((\E m \in Waiting("name") : m.id = d) => Mute(d))
  BY WaitingMute
<1>3. SInv /\ [Next]_vars => (Mute(d) => Mute(d)')
  BY MuteNext
<1>4. SInv => (Mute(d) => d \notin Ids(published))
  <2>1. SInv => published \in Seq(Results) /\ flushing \in Seq(Results) /\ failed \in Seq(Results)
                /\ queue \in Seq(Results)
    BY DEF SInv, TypeOK
  <2>2. SInv => ToSet(published) \subseteq ToSet(executed)
    BY <2>1, Parts DEF SInv, Accounted
  <2>. QED
    BY <2>2 DEF Mute, Ids, ToSet
<1>. QED
  BY <1>2, <1>3, <1>4, Invariance, PTL DEF Spec
=============================================================================
