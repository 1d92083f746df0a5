----------------------------- MODULE MeshProofs -----------------------------
(***************************************************************************)
(* What holds of the nodes of a mesh, for every mesh and configuration.    *)
(* Gossip: the service implements the event log, and an honest node never  *)
(* raises the alarm about its own identity unless retention took an event  *)
(* from it.  Rewards: what the nodes are paid for what they are heard and  *)
(* seen to do stays within the bucket it is paid from, and no stake is     *)
(* paid twice for an epoch.                                                *)
(***************************************************************************)
EXTENDS Gossip, ContentMesh, Sums

-----------------------------------------------------------------------------
(* Gossip: the inductive invariant                                         *)

\* The events some node has originated.
Issued == {e \in Events : issued[e] >= 0}

\* A message between two nodes; the events it carries were originated.
Carries(v) ==
  /\ v.from \in Nodes /\ v.to \in Nodes
  /\ v.type = "Push" => v.event \in Issued
  /\ v.type = "RecoveryResponse" =>
       Len(v.events) \in Nat /\ \A i \in 1..Len(v.events) : v.events[i].event \in Issued

\* The clock, and logs and histories that are functions of the nodes.
Shapes ==
  /\ issued \in [Events -> Int] /\ now \in Nat /\ \A e \in Events : issued[e] <= now
  /\ stored = [n \in Nodes |-> stored[n]]
  /\ started \in [Nodes -> Int] /\ alarmed \in [Nodes -> BOOLEAN]
  /\ shed \in [Nodes -> SUBSET Events]
  /\ handed \subseteq Nodes \X Events

\* What is held or in flight was originated.
OnlyIssued == (\A n \in Nodes : Held(n) \subseteq Issued) /\ (\A v \in wire : Carries(v))

\* Of its own events since it booted a node lost only what retention took.
KeepsItsOwn == \A n \in Nodes, e \in Events : Impostor(n, e) => e \in Held(n) \cup shed[n]

GossipInv == Shapes /\ OnlyIssued /\ KeepsItsOwn

\* Nothing is held, in flight or shed at the start.
LEMMA InitGossip == GossipInit => GossipInv
<1> SUFFICES ASSUME GossipInit PROVE GossipInv
  OBVIOUS
<1>1. /\ issued = [e \in Events |-> -1] /\ stored = [n \in Nodes |-> EmptyFn] /\ handed = {}
      /\ alarmed = [n \in Nodes |-> FALSE] /\ shed = [n \in Nodes |-> {}]
      /\ started = [n \in Nodes |-> 0] /\ wire = {} /\ now = 0
  BY DEF GossipInit
<1>2. Shapes
  BY <1>1 DEF Shapes
<1>3. OnlyIssued
  BY <1>1 DEF OnlyIssued, Held, EmptyFn
<1>4. KeepsItsOwn
  BY <1>1 DEF KeepsItsOwn, Impostor
<1> QED BY <1>2, <1>3, <1>4 DEF GossipInv

-----------------------------------------------------------------------------
(* Gossip: what a run of envelopes does                                    *)

\* One unfolding of the run, and the function of module Gossip's Receive.
Next1(n, peer, envelopes, f, i) ==
  IF i = 0 THEN Ledger(n, peer)
  ELSE Taken(n, peer, f[i - 1], envelopes[i].event, envelopes[i].ttl)
IsRun(n, peer, envelopes, f) ==
  f = [i \in 0..Len(envelopes) |-> Next1(n, peer, envelopes, f, i)]

\* The run of any sequence of envelopes exists.
LEMMA RunExists ==
  ASSUME NEW n, NEW peer, NEW envelopes, Len(envelopes) \in Nat
  PROVE  \E f : IsRun(n, peer, envelopes, f)
<1> DEFINE upTo(f, k) == \A i \in 0..k : f[i] = Next1(n, peer, envelopes, f, i)
           G == {k \in Nat : \E f : upTo(f, k)}
<1>1. 0 \in G
  <2> DEFINE g == [i \in {0} |-> Ledger(n, peer)]
  <2>1. upTo(g, 0)
    BY DEF Next1
  <2> QED BY <2>1
<1>2. ASSUME NEW k \in Nat, k \in G PROVE k + 1 \in G
  <2>1. PICK f : upTo(f, k)
    BY <1>2
  <2> DEFINE g == [i \in 0..(k + 1) |-> IF i <= k THEN f[i] ELSE Next1(n, peer, envelopes, f, i)]
  <2>2. \A i \in 0..(k + 1) : g[i] = Next1(n, peer, envelopes, f, i)
    BY <2>1
  <2>3. \A i \in 0..(k + 1) : i # 0 => i - 1 \in 0..k /\ g[i - 1] = f[i - 1]
    OBVIOUS
  <2> HIDE DEF g
  <2>4. \A i \in 0..(k + 1) : Next1(n, peer, envelopes, g, i) = Next1(n, peer, envelopes, f, i)
    BY <2>3 DEF Next1
  <2>5. upTo(g, k + 1)
    BY <2>2, <2>4
  <2>6. \E h : upTo(h, k + 1)
    <3> HIDE DEF upTo
    <3> QED BY <2>5
  <2> QED BY <2>6
<1>3. Len(envelopes) \in G
  <2> HIDE DEF G
  <2> QED BY <1>1, <1>2, NatSetInduction
<1>4. PICK f : upTo(f, Len(envelopes))
  BY <1>3
<1> DEFINE g == [i \in 0..Len(envelopes) |-> f[i]]
<1>5. \A i \in 0..Len(envelopes) : i # 0 => i - 1 \in 0..Len(envelopes) /\ g[i - 1] = f[i - 1]
  OBVIOUS
<1>6. \A i \in 0..Len(envelopes) : Next1(n, peer, envelopes, g, i) = Next1(n, peer, envelopes, f, i)
  <2> HIDE DEF g
  <2> QED BY <1>5 DEF Next1
<1>7. \A i \in 0..Len(envelopes) : f[i] = Next1(n, peer, envelopes, g, i)
  <2> HIDE DEF g
  <2> QED BY <1>4, <1>6
<1>8. g = [i \in 0..Len(envelopes) |-> f[i]]
  OBVIOUS
<1> HIDE DEF g
<1>9. g = [i \in 0..Len(envelopes) |-> Next1(n, peer, envelopes, g, i)]
  BY <1>7, <1>8, ZenonT(60)
<1> QED BY <1>9 DEF IsRun

\* Receive is the end of the run.
LEMMA ReceiveIsRun ==
  ASSUME NEW n, NEW peer, NEW envelopes, Len(envelopes) \in Nat
  PROVE  \E f : /\ f[0] = Ledger(n, peer)
                /\ \A i \in 1..Len(envelopes) :
                     f[i] = Taken(n, peer, f[i - 1], envelopes[i].event, envelopes[i].ttl)
                /\ Receive(n, peer, envelopes) = f[Len(envelopes)]
<1> DEFINE f == CHOOSE g : IsRun(n, peer, envelopes, g)
<1>1. IsRun(n, peer, envelopes, f)
  BY RunExists
<1>2. Receive(n, peer, envelopes) = f[Len(envelopes)]
  BY DEF Receive, IsRun, Next1
<1> HIDE DEF f
<1>3. \A i \in 0..Len(envelopes) : f[i] = Next1(n, peer, envelopes, f, i)
  BY <1>1 DEF IsRun
<1>4. f[0] = Ledger(n, peer)
  BY <1>3 DEF Next1
<1>5. \A i \in 1..Len(envelopes) :
        f[i] = Taken(n, peer, f[i - 1], envelopes[i].event, envelopes[i].ttl)
  BY <1>3 DEF Next1
<1> QED BY <1>2, <1>4, <1>5

\* What a node may have learned from a peer: originated events it did not hold, each
\* entered in its log; an alarm only for an event of its own it does not hold.
Fields == {"log", "bucket", "new", "alarm", "relays", "short", "hangup"}
IsLedger(l) == l = [x \in Fields |-> l[x]]
Learned(n, l) ==
  /\ IsLedger(l)
  /\ l.new \subseteq Issued \ Held(n) /\ DOMAIN l.log = Held(n) \cup l.new
  /\ l.alarm \in BOOLEAN
  /\ l.alarm => \E e \in Events : Impostor(n, e) /\ e \notin Held(n)
  /\ \A v \in l.relays : Carries(v)

\* A broadcast of an originated event.
LEMMA BroadcastCarries ==
  ASSUME NEW n \in Nodes, NEW e \in Issued, NEW ttl, NEW exclude
  PROVE  \A v \in Broadcast(n, e, ttl, exclude) : Carries(v)
<1>1. \A m \in Nodes : Carries(Push(n, m, e, ttl))
  BY DEF Carries, Push
<1>2. \A v \in Broadcast(n, e, ttl, exclude) : \E m \in Nodes : v = Push(n, m, e, ttl)
  BY DEF Broadcast, Neighbours
<1> QED BY <1>1, <1>2

\* Nothing is learned before the first envelope.
LEMMA LedgerLearned ==
  ASSUME NEW n, NEW peer PROVE Learned(n, Ledger(n, peer))
  BY ZenonT(60) DEF Learned, Ledger, IsLedger, Fields, Held

\* The fields of a ledger after a drop, an alarm and a receipt.
Same(s, l) == s.log = l.log /\ s.new = l.new /\ s.alarm = l.alarm /\ s.relays = l.relays
Dropped(l, b, h, q) == [l EXCEPT !.bucket = b, !.hangup = h, !.short = q]
Raised(l, q) == [l EXCEPT !.alarm = q]
Enters(s, l, g, w, r) ==
  IsLedger(s) /\ s.log = g /\ s.new = w /\ s.alarm = l.alarm /\ s.relays = r
Entered(l, g, w, r) == [l EXCEPT !.log = g, !.new = w, !.relays = r]

\* A drop for want of credit.
LEMMA DropWrites ==
  ASSUME NEW l, IsLedger(l), NEW b, NEW h, NEW q
  PROVE  IsLedger(Dropped(l, b, h, q)) /\ Same(Dropped(l, b, h, q), l)
  BY ZenonT(60) DEF IsLedger, Fields, Dropped, Same

\* An alarm.
LEMMA AlarmWrites ==
  ASSUME NEW l, IsLedger(l), NEW q
  PROVE  LET s == Raised(l, q) IN
         IsLedger(s) /\ s.log = l.log /\ s.new = l.new /\ s.alarm = q /\ s.relays = l.relays
  BY DEF IsLedger, Fields, Raised

\* An event entered and relayed.
LEMMA EntryWrites ==
  ASSUME NEW l, IsLedger(l), NEW g, NEW w, NEW r
  PROVE  Enters(Entered(l, g, w, r), l, g, w, r)
  BY ZenonT(60) DEF IsLedger, Fields, Entered, Enters

\* One envelope more, whatever the credit.
LEMMA TakenLearns ==
  ASSUME NEW n \in Nodes, NEW peer, NEW l, NEW e \in Issued, NEW ttl, Learned(n, l)
  PROVE  Learned(n, Taken(n, peer, l, e, ttl))
<1> DEFINE c == Charged(l)
           kept == Min({ttl, MaxTtl})
<1>1. IsLedger(l) /\ l.new \subseteq Issued \ Held(n) /\ DOMAIN l.log = Held(n) \cup l.new
      /\ l.alarm \in BOOLEAN /\ (l.alarm => \E d \in Events : Impostor(n, d) /\ d \notin Held(n))
      /\ \A v \in l.relays : Carries(v)
  BY DEF Learned
<1>2. e \in Events
  BY DEF Issued
<1>3. IsLedger(c) /\ c.log = l.log /\ c.new = l.new /\ c.alarm = l.alarm /\ c.relays = l.relays
  BY <1>1 DEF IsLedger, Fields, Charged
<1>4. CASE e \in DOMAIN l.log
  BY <1>4 DEF Taken
<1>5. CASE e \notin DOMAIN l.log /\ l.bucket.tokens = 0
  <2> DEFINE s == Starved(l)
  <2>1. IsLedger(s) /\ s.log = l.log /\ s.new = l.new /\ s.alarm = l.alarm /\ s.relays = l.relays
    <3>1. PICK b, h, q : s = Dropped(l, b, h, q)
      BY ZenonT(60) DEF Starved, Dropped
    <3> HIDE DEF s
    <3>2. IsLedger(s) /\ Same(s, l)
      BY <1>1, <3>1, DropWrites, ZenonT(60)
    <3> QED BY <3>2 DEF Same
  <2>2. Taken(n, peer, l, e, ttl) = s
    BY <1>5 DEF Taken
  <2> HIDE DEF s
  <2> QED BY <1>1, <2>1, <2>2 DEF Learned
<1>6. CASE e \notin DOMAIN l.log /\ l.bucket.tokens # 0 /\ Impostor(n, e)
  <2> DEFINE s == [c EXCEPT !.alarm = TRUE]
  <2>1. Taken(n, peer, l, e, ttl) = s
    BY <1>6 DEF Taken
  <2> HIDE DEF c
  <2>2. IsLedger(s) /\ s.log = c.log /\ s.new = c.new /\ s.alarm = TRUE /\ s.relays = c.relays
    <3>1. s = Raised(c, TRUE)
      BY ZenonT(60) DEF Raised
    <3> HIDE DEF s
    <3> QED BY <1>3, <3>1, AlarmWrites, ZenonT(60)
  <2> HIDE DEF s
  <2> QED BY <1>1, <1>2, <1>3, <1>6, <2>1, <2>2, ZenonT(60) DEF Learned
<1>7. CASE e \notin DOMAIN l.log /\ l.bucket.tokens # 0 /\ ~Impostor(n, e)
  <2> DEFINE g == With(l.log, e, kept)
             r == l.relays \cup Relays(n, peer, e, kept)
             w == l.new \cup {e}
             s == [c EXCEPT !.log = g, !.new = w, !.relays = r]
  <2>1. Taken(n, peer, l, e, ttl) = s
    BY <1>7 DEF Taken
  <2>2. DOMAIN g = DOMAIN l.log \cup {e}
    BY DEF With
  <2>3. \A v \in r : Carries(v)
    <3>1. \A v \in Relays(n, peer, e, kept) : Carries(v)
      BY BroadcastCarries DEF Relays
    <3> QED BY <1>1, <3>1
  <2> HIDE DEF c, g, w, r
  <2>4. IsLedger(s) /\ s.log = g /\ s.new = w /\ s.alarm = c.alarm /\ s.relays = r
    <3>1. s = Entered(c, g, w, r)
      BY ZenonT(60) DEF Entered
    <3> HIDE DEF s
    <3>2. IsLedger(c)
      BY <1>3
    <3>3. Enters(Entered(c, g, w, r), c, g, w, r)
      BY <3>2, EntryWrites, ZenonT(60)
    <3>4. Enters(s, c, g, w, r)
      BY <3>1, <3>3, ZenonT(60)
    <3> QED BY <3>4, ZenonT(60) DEF Enters
  <2> HIDE DEF s
  <2>5. s.new \subseteq Issued \ Held(n) /\ DOMAIN s.log = Held(n) \cup s.new
    BY <1>1, <1>7, <2>2, <2>4 DEF w
  <2> QED BY <1>1, <1>3, <2>1, <2>3, <2>4, <2>5 DEF Learned
<1> QED BY <1>4, <1>5, <1>6, <1>7

\* A whole run of envelopes.
LEMMA ReceiveLearns ==
  ASSUME NEW n \in Nodes, NEW peer, NEW envelopes, Len(envelopes) \in Nat,
         \A i \in 1..Len(envelopes) : envelopes[i].event \in Issued
  PROVE  Learned(n, Receive(n, peer, envelopes))
<1>1. PICK f : /\ f[0] = Ledger(n, peer)
               /\ \A i \in 1..Len(envelopes) :
                    f[i] = Taken(n, peer, f[i - 1], envelopes[i].event, envelopes[i].ttl)
               /\ Receive(n, peer, envelopes) = f[Len(envelopes)]
  BY ReceiveIsRun
<1> DEFINE G == {k \in Nat : k <= Len(envelopes) => Learned(n, f[k])}
<1>2. 0 \in G
  BY <1>1, LedgerLearned
<1>3. ASSUME NEW k \in Nat, k \in G PROVE k + 1 \in G
  <2> SUFFICES ASSUME k + 1 <= Len(envelopes) PROVE Learned(n, f[k + 1])
    OBVIOUS
  <2>1. Learned(n, f[k])
    BY <1>3
  <2>2. k + 1 \in 1..Len(envelopes) /\ (k + 1) - 1 = k
    OBVIOUS
  <2>3. f[k + 1] = Taken(n, peer, f[k], envelopes[k + 1].event, envelopes[k + 1].ttl)
    BY <1>1, <2>2
  <2> QED BY <2>1, <2>2, <2>3, TakenLearns
<1>4. Len(envelopes) \in G
  <2> HIDE DEF G
  <2> QED BY <1>2, <1>3, NatSetInduction
<1> QED BY <1>1, <1>4

-----------------------------------------------------------------------------
(* Gossip: steps                                                           *)

\* A step of the abstract log, and an alarm only after retention took something.
StepOK == GossipInv' /\ [Log!LogNext]_Log!logVars /\ AccusesOnlyTheShed

\* The abstract log stands still, or forgets nothing, when no log changes.
LEMMA QuietLog ==
  ASSUME Shapes, UNCHANGED <<issued, stored>>, handed' = {}
  PROVE  [Log!LogNext]_Log!logVars
<1>1. {e \in Events : issued'[e] >= 0} = {e \in Events : issued[e] >= 0}
      /\ [n \in Nodes |-> Held(n)'] = [n \in Nodes |-> Held(n)]
  BY DEF Held
<1>2. CASE handed = {}
  BY <1>1, <1>2 DEF Log!logVars
<1>3. CASE handed # {}
  <2>1. PICK n \in Nodes : TRUE
    BY <1>3 DEF Shapes
  <2>2. [m \in Nodes |-> Held(m)'] = [[m \in Nodes |-> Held(m)] EXCEPT ![n] = Held(n) \ {}]
    BY <1>1
  <2>3. Log!LogForget(n, {})
    BY <1>1, <2>2 DEF Log!LogForget
  <2>4. {} \in SUBSET Events
    OBVIOUS
  <2> QED BY <2>3, <2>4 DEF Log!LogNext
<1> QED BY <1>2, <1>3

\* A step of connections, requests and time.
LEMMA QuietStep ==
  ASSUME GossipInv, UNCHANGED <<issued, stored, alarmed, started, shed>>, handed' = {},
         now' \in Nat, now <= now', \A v \in wire' : Carries(v)
  PROVE  StepOK
<1>1. Issued' = Issued /\ \A n \in Nodes : Held(n)' = Held(n)
  BY DEF Issued, Held
<1>2. Shapes'
  <2>1. \A e \in Events : issued[e] <= now'
    BY DEF GossipInv, Shapes
  <2> QED BY <2>1 DEF GossipInv, Shapes
<1>3. OnlyIssued'
  BY <1>1 DEF GossipInv, OnlyIssued, Carries
<1>4. KeepsItsOwn'
  BY <1>1 DEF GossipInv, KeepsItsOwn, Impostor
<1>5. [Log!LogNext]_Log!logVars
  BY QuietLog DEF GossipInv
<1>6. AccusesOnlyTheShed
  BY DEF AccusesOnlyTheShed
<1> QED BY <1>2, <1>3, <1>4, <1>5, <1>6 DEF GossipInv, StepOK

\* An event is originated: it enters its origin's log and is in flight.
LEMMA OriginateKeeps ==
  ASSUME GossipInv, NEW e \in Events, Originate(e) PROVE StepOK
<1> DEFINE n == OriginOf[e]
<1>1. n \in Nodes
  BY GossipAssumption
<1>2. /\ issued[e] = -1 /\ issued' = [issued EXCEPT ![e] = now]
      /\ stored' = [stored EXCEPT ![n] = With(stored[n], e, Ttl)] /\ handed' = {<<n, e>>}
      /\ wire' = wire \cup Broadcast(n, e, Ttl, {})
      /\ UNCHANGED <<alarmed, started, shed, now>>
  BY DEF Originate
<1> HIDE DEF n
<1>3. Issued' = Issued \cup {e} /\ e \notin Issued
  BY <1>2 DEF GossipInv, Shapes, Issued
<1>4. Held(n)' = Held(n) \cup {e} /\ \A m \in Nodes : m # n => Held(m)' = Held(m)
  <2>1. DOMAIN With(stored[n], e, Ttl) = DOMAIN stored[n] \cup {e}
    BY DEF With
  <2> QED BY <1>1, <1>2, <2>1 DEF GossipInv, Shapes, Held
<1>5. Shapes'
  <2>1. stored' = [m \in Nodes |-> stored'[m]]
    BY <1>2 DEF GossipInv, Shapes
  <2>2. issued' \in [Events -> Int] /\ \A d \in Events : issued'[d] <= now
    BY <1>2 DEF GossipInv, Shapes
  <2> QED BY <1>1, <1>2, <2>1, <2>2 DEF GossipInv, Shapes
<1>6. OnlyIssued'
  <2>1. \A v : Carries(v) => Carries(v)'
    BY <1>3 DEF Carries
  <2>2. \A v \in Broadcast(n, e, Ttl, {}) : Carries(v)'
    <3>1. \A m \in Nodes : Carries(Push(n, m, e, Ttl))'
      BY <1>1, <1>3 DEF Carries, Push
    <3>2. \A v \in Broadcast(n, e, Ttl, {}) : \E m \in Nodes : v = Push(n, m, e, Ttl)
      BY DEF Broadcast, Neighbours
    <3> QED BY <3>1, <3>2
  <2> QED BY <1>2, <1>3, <1>4, <2>1, <2>2 DEF GossipInv, OnlyIssued
<1>7. KeepsItsOwn'
  <2> SUFFICES ASSUME NEW m \in Nodes, NEW d \in Events, Impostor(m, d)'
               PROVE  d \in Held(m)' \cup shed[m]
    BY <1>2 DEF KeepsItsOwn
  <2>1. CASE d = e
    BY <1>4, <2>1 DEF Impostor, n
  <2>2. CASE d # e
    <3>1. Impostor(m, d)
      BY <1>2, <2>2 DEF Impostor, GossipInv, Shapes
    <3>2. d \in Held(m) \cup shed[m]
      BY <3>1 DEF GossipInv, KeepsItsOwn
    <3> QED BY <1>4, <3>2
  <2> QED BY <2>1, <2>2
<1>8. [Log!LogNext]_Log!logVars
  <2>1. [m \in Nodes |-> Held(m)'] = [[m \in Nodes |-> Held(m)] EXCEPT ![n] = Held(n) \cup {e}]
    BY <1>1, <1>4, ZenonT(60)
  <2>2. handed' = {n} \X {e}
    BY <1>2
  <2>3. Log!LogOriginate(n, e)
    BY <1>1, <1>3, <2>1, <2>2 DEF Log!LogOriginate, Log!Enter, Issued
  <2> QED BY <1>1, <2>3 DEF Log!LogNext
<1>9. AccusesOnlyTheShed
  BY <1>2 DEF AccusesOnlyTheShed
<1> QED BY <1>5, <1>6, <1>7, <1>8, <1>9 DEF GossipInv, StepOK

\* A receipt, whether it ends in a hangup or not.
LEMMA SettleKeeps ==
  ASSUME GossipInv, NEW n \in Nodes, NEW peer, NEW l, NEW rest, Learned(n, l),
         rest \subseteq wire, Settle(n, peer, l, rest)
  PROVE  StepOK
<1>1. /\ stored' = [stored EXCEPT ![n] = l.log] /\ handed' = {n} \X l.new
      /\ alarmed' = [alarmed EXCEPT ![n] = alarmed[n] \/ l.alarm]
      /\ UNCHANGED <<issued, started, shed, now>>
  BY DEF Settle
<1>2. /\ l.new \subseteq Issued \ Held(n) /\ DOMAIN l.log = Held(n) \cup l.new
      /\ l.alarm \in BOOLEAN /\ (l.alarm => \E e \in Events : Impostor(n, e) /\ e \notin Held(n))
      /\ \A v \in l.relays : Carries(v)
  BY DEF Learned
<1>3. \A v \in wire' : Carries(v)
  <2>1. wire' \subseteq rest \cup l.relays
    BY DEF Settle, Drained
  <2> QED BY <1>2, <2>1 DEF GossipInv, OnlyIssued
<1>4. Issued' = Issued /\ \A v : Carries(v)' <=> Carries(v)
  BY <1>1 DEF Issued, Carries
<1>5. Held(n)' = Held(n) \cup l.new /\ \A m \in Nodes : m # n => Held(m)' = Held(m)
  BY <1>1, <1>2 DEF Held, GossipInv, Shapes
<1>6. Shapes'
  <2>1. stored' = [m \in Nodes |-> stored'[m]]
    BY <1>1, ZenonT(60) DEF GossipInv, Shapes
  <2>2. alarmed' \in [Nodes -> BOOLEAN]
    BY <1>1, <1>2, ZenonT(60) DEF GossipInv, Shapes
  <2>3. handed' \subseteq Nodes \X Events
    BY <1>1, <1>2 DEF Issued
  <2> QED BY <1>1, <2>1, <2>2, <2>3 DEF GossipInv, Shapes
<1>7. OnlyIssued'
  <2>1. \A m \in Nodes : Held(m)' \subseteq Issued'
    BY <1>2, <1>4, <1>5 DEF GossipInv, OnlyIssued
  <2> QED BY <1>3, <1>4, <2>1 DEF OnlyIssued
<1>8. KeepsItsOwn'
  <2>1. \A m \in Nodes : Held(m) \subseteq Held(m)'
    BY <1>5
  <2>2. \A m \in Nodes, e \in Events : Impostor(m, e)' <=> Impostor(m, e)
    BY <1>1 DEF Impostor
  <2> QED BY <1>1, <2>1, <2>2 DEF GossipInv, KeepsItsOwn
<1>9. [Log!LogNext]_Log!logVars
  <2>1. [m \in Nodes |-> Held(m)'] = [[m \in Nodes |-> Held(m)] EXCEPT ![n] = Held(n) \cup l.new]
    BY <1>5, ZenonT(60)
  <2>2. CASE l.new = {}
    <3>1. handed' = {}
      BY <1>1, <2>2
    <3>2. [m \in Nodes |-> Held(m)'] = [[m \in Nodes |-> Held(m)] EXCEPT ![n] = Held(n) \ {}]
      BY <1>5, <2>2
    <3>3. Log!LogForget(n, {})
      BY <1>4, <3>1, <3>2 DEF Log!LogForget, Issued
    <3>4. {} \in SUBSET Events
      OBVIOUS
    <3> QED BY <3>3, <3>4 DEF Log!LogNext
  <2>3. CASE l.new # {}
    <3>1. l.new \in SUBSET Events /\ l.new \subseteq {e \in Events : issued[e] >= 0}
          /\ l.new \cap Held(n) = {}
      BY <1>2 DEF Issued
    <3>2. Log!LogHear(n, l.new)
      BY <1>1, <1>4, <2>1, <2>3, <3>1, SMTT(30) DEF Log!LogHear, Log!Enter, Issued
    <3> QED BY <3>1, <3>2 DEF Log!LogNext
  <2> QED BY <2>2, <2>3
<1>10. AccusesOnlyTheShed
  <2> SUFFICES ASSUME NEW m \in Nodes, alarmed'[m], ~alarmed[m] PROVE shed[m] # {}
    BY DEF AccusesOnlyTheShed
  <2>1. m = n /\ l.alarm
    BY <1>1, ZenonT(60) DEF GossipInv, Shapes
  <2>2. PICK e \in Events : Impostor(n, e) /\ e \notin Held(n)
    BY <1>2, <2>1
  <2> QED BY <2>1, <2>2, SMTT(30) DEF GossipInv, KeepsItsOwn
<1> QED BY <1>6, <1>7, <1>8, <1>9, <1>10, SMTT(30) DEF GossipInv, StepOK

\* A push, and the answer to a recovery request.
LEMMA ReceiptKeeps ==
  ASSUME GossipInv, NEW msg \in wire, ReceivePush(msg) \/ ReceiveRecovery(msg) PROVE StepOK
<1>1. Carries(msg)
  BY DEF GossipInv, OnlyIssued
<1>2. msg.to \in Nodes /\ wire \ {msg} \subseteq wire
  BY <1>1 DEF Carries
<1>3. CASE ReceivePush(msg)
  <2> DEFINE s == <<[event |-> msg.event, ttl |-> msg.ttl]>>
  <2>1. msg.event \in Issued
    BY <1>1, <1>3 DEF ReceivePush, Carries
  <2>2. Len(s) \in Nat /\ \A i \in 1..Len(s) : s[i].event \in Issued
    BY <2>1
  <2>3. Settle(msg.to, msg.from, Receive(msg.to, msg.from, s), wire \ {msg})
    BY <1>3 DEF ReceivePush
  <2> HIDE DEF s
  <2>4. Learned(msg.to, Receive(msg.to, msg.from, s))
    BY <1>2, <2>2, ReceiveLearns
  <2> QED BY <1>2, <2>3, <2>4, SettleKeeps
<1>4. CASE ReceiveRecovery(msg)
  <2>1. Len(msg.events) \in Nat /\ \A i \in 1..Len(msg.events) : msg.events[i].event \in Issued
    BY <1>1, <1>4 DEF ReceiveRecovery, Carries
  <2>2. Settle(msg.to, msg.from, Receive(msg.to, msg.from, msg.events), wire \ {msg})
    BY <1>4 DEF ReceiveRecovery
  <2>3. Learned(msg.to, Receive(msg.to, msg.from, msg.events))
    BY <1>2, <2>1, ReceiveLearns
  <2> QED BY <1>2, <2>2, <2>3, SettleKeeps
<1> QED BY <1>3, <1>4

\* A recovery answer carries events of the log it was taken from.
LEMMA AnswerKeeps ==
  ASSUME GossipInv, NEW msg \in wire, AnswerRecovery(msg) PROVE StepOK
<1> DEFINE n == msg.to
           peer == msg.from
           k == Min({Cardinality(Held(n)), RecoveryBudget})
<1>1. Carries(msg) /\ n \in Nodes /\ peer \in Nodes
  BY DEF GossipInv, OnlyIssued, Carries
<1>2. PICK events \in IF peer \in served[n] THEN {<<>>} ELSE Recoverable(n) :
        wire' = (wire \ {msg}) \cup {Answer(n, peer, events)}
  BY DEF AnswerRecovery
<1>3. handed' = {} /\ UNCHANGED <<issued, stored, alarmed, started, shed, now>>
  BY DEF AnswerRecovery
<1>4. k \in Nat
  <2>1. Held(n) \subseteq Issued /\ Issued \subseteq Events
    BY <1>1 DEF GossipInv, OnlyIssued, Issued
  <2>2. IsFiniteSet(Held(n))
    BY <2>1, GossipAssumption, FS_Subset
  <2>3. Cardinality(Held(n)) \in Nat /\ RecoveryBudget \in Nat
    BY <2>2, FS_CardinalityType, GossipAssumption
  <2> QED BY <2>3 DEF Min
<1>5. Len(events) \in Nat /\ \A i \in 1..Len(events) : events[i].event \in Issued
  <2>1. CASE peer \in served[n]
    BY <1>2, <2>1
  <2>2. CASE peer \notin served[n]
    <3>1. PICK s \in OldestFirst(n, k) :
            events = [i \in DOMAIN s |-> [event |-> s[i], ttl |-> stored[n][s[i]]]]
      BY <1>2, <2>2 DEF Recoverable
    <3> HIDE DEF k
    <3>2. s \in [1..k -> Held(n)]
      BY <3>1 DEF OldestFirst
    <3>3. DOMAIN events = 1..k /\ \A i \in 1..k : events[i].event = s[i]
      BY <3>1, <3>2
    <3>4. Len(events) = k
      BY <1>4, <3>1, <3>2
    <3> QED BY <1>1, <1>4, <3>2, <3>3, <3>4, SMTT(30) DEF GossipInv, OnlyIssued
  <2> QED BY <2>1, <2>2
<1>6. Carries(Answer(n, peer, events))
  BY <1>1, <1>5 DEF Carries, Answer
<1>7. \A v \in wire' : Carries(v)
  BY <1>2, <1>6 DEF GossipInv, OnlyIssued
<1>8. now \in Nat /\ now <= now'
  BY <1>3 DEF GossipInv, Shapes
<1> QED BY <1>3, <1>7, <1>8, QuietStep

\* Connections open and close, requests are lost, time passes.
LEMMA ConnectionKeeps ==
  ASSUME GossipInv,
         \/ \E n, m \in Nodes : Connect(n, m) \/ Close(n, m)
         \/ \E msg \in wire : Lose(msg)
         \/ Tick
  PROVE  StepOK
<1>1. handed' = {} /\ UNCHANGED <<issued, stored, alarmed, started, shed>>
  BY ZenonT(60) DEF Connect, Close, Lose, Tick
<1>2. now' \in Nat /\ now <= now'
  <2>1. now' = now \/ now' = now + 1
    BY ZenonT(60) DEF Connect, Close, Lose, Tick
  <2>2. now \in Nat
    BY DEF GossipInv, Shapes
  <2> QED BY <2>1, <2>2
<1>3. \A v \in wire' : Carries(v)
  <2>1. ASSUME NEW n \in Nodes, NEW m \in Nodes, Connect(n, m) PROVE \A v \in wire' : Carries(v)
    <3>1. Carries(Ask(n, m)) /\ Carries(Ask(m, n))
      BY DEF Carries, Ask
    <3> QED BY <2>1, <3>1 DEF Connect, AskEachOther, GossipInv, OnlyIssued
  <2>2. ASSUME NEW n \in Nodes, NEW m \in Nodes, Close(n, m) PROVE wire' \subseteq wire
    <3>1. PICK kept \in IF links[{n, m}] > 1 THEN SUBSET Between(wire, n, m) ELSE {{}} :
            wire' = Drained(wire, n, m) \cup kept
      BY <2>2, ZenonT(60) DEF Close
    <3>2. kept \subseteq Between(wire, n, m)
      BY <3>1
    <3> QED BY <3>1, <3>2 DEF Drained, Between
  <2>3. (\E msg \in wire : Lose(msg)) \/ Tick => wire' \subseteq wire
    BY ZenonT(60) DEF Lose, Tick
  <2>4. wire' \subseteq wire => \A v \in wire' : Carries(v)
    BY DEF GossipInv, OnlyIssued
  <2> QED BY <2>1, <2>2, <2>3, <2>4, ZenonT(60)
<1> QED BY <1>1, <1>2, <1>3, QuietStep

\* A restart, with the log or without it: the node boots after all it ever issued.
LEMMA RestartKeeps ==
  ASSUME GossipInv, NEW n \in Nodes, NEW keepLog \in BOOLEAN, Restart(n, keepLog) PROVE StepOK
<1> DEFINE g == IF keepLog THEN stored[n] ELSE EmptyFn
           gone == Held(n) \ DOMAIN g
<1>1. /\ started' = [started EXCEPT ![n] = now] /\ stored' = [stored EXCEPT ![n] = g]
      /\ alarmed' = [alarmed EXCEPT ![n] = FALSE] /\ shed' = [shed EXCEPT ![n] = {}]
      /\ wire' = {v \in wire : n \notin {v.from, v.to}} /\ handed' = {}
      /\ issued' = issued /\ now' = now
  BY DEF Restart
<1>2. DOMAIN g \subseteq Held(n)
  BY DEF EmptyFn, Held
<1> HIDE DEF g
<1>3. Held(n)' = Held(n) \ gone /\ \A m \in Nodes : m # n => Held(m)' = Held(m)
  BY <1>1, <1>2, ZenonT(60) DEF Held, GossipInv, Shapes
<1>4. Issued' = Issued /\ \A v : Carries(v)' <=> Carries(v)
  BY <1>1 DEF Issued, Carries
<1>5. Shapes'
  <2>1. stored' = [m \in Nodes |-> stored'[m]]
    BY <1>1, ZenonT(60) DEF GossipInv, Shapes
  <2>2. alarmed' \in [Nodes -> BOOLEAN]
    BY <1>1, ZenonT(60) DEF GossipInv, Shapes
  <2>3. started' \in [Nodes -> Int] /\ shed' \in [Nodes -> SUBSET Events]
    BY <1>1 DEF GossipInv, Shapes
  <2> QED BY <1>1, <2>1, <2>2, <2>3 DEF GossipInv, Shapes
<1>6. OnlyIssued'
  <2>1. \A m \in Nodes : Held(m)' \subseteq Issued'
    BY <1>3, <1>4 DEF GossipInv, OnlyIssued
  <2>2. \A v \in wire' : Carries(v)'
    BY <1>1, <1>4 DEF GossipInv, OnlyIssued
  <2> QED BY <2>1, <2>2 DEF OnlyIssued
<1>7. KeepsItsOwn'
  <2> SUFFICES ASSUME NEW m \in Nodes, NEW e \in Events, Impostor(m, e)'
               PROVE  e \in Held(m)' \cup shed'[m]
    BY DEF KeepsItsOwn
  <2>1. m # n
    BY <1>1 DEF Impostor, GossipInv, Shapes
  <2>2. Impostor(m, e)
    BY <1>1, <2>1 DEF Impostor, GossipInv, Shapes
  <2>3. e \in Held(m) \cup shed[m]
    BY <2>2 DEF GossipInv, KeepsItsOwn
  <2>4. shed'[m] = shed[m]
    BY <1>1, <2>1 DEF GossipInv, Shapes
  <2> QED BY <1>3, <2>1, <2>3, <2>4
<1>8. [Log!LogNext]_Log!logVars
  <2>1. [m \in Nodes |-> Held(m)'] = [[m \in Nodes |-> Held(m)] EXCEPT ![n] = Held(n) \ gone]
    BY <1>3, ZenonT(60)
  <2>2. gone \in SUBSET Events
    BY SMTT(30) DEF GossipInv, OnlyIssued, Issued
  <2> HIDE DEF gone
  <2>3. Log!LogForget(n, gone)
    BY <1>1, <2>1 DEF Log!LogForget
  <2> QED BY <2>2, <2>3 DEF Log!LogNext
<1>9. AccusesOnlyTheShed
  BY <1>1, ZenonT(60) DEF AccusesOnlyTheShed, GossipInv, Shapes
<1> QED BY <1>5, <1>6, <1>7, <1>8, <1>9 DEF GossipInv, StepOK

\* The retention sweep notes which of the node's own events it took.
LEMMA PruneKeeps ==
  ASSUME GossipInv, NEW n \in Nodes, Prune(n) PROVE StepOK
<1> DEFINE old == {e \in Held(n) : issued[e] < now - LogRetention}
           own == {e \in old : Impostor(n, e)}
<1>1. /\ stored' = [stored EXCEPT ![n] = Less(stored[n], old)]
      /\ shed' = [shed EXCEPT ![n] = shed[n] \cup own]
      /\ handed' = {} /\ UNCHANGED <<issued, alarmed, started, wire, now>>
  BY DEF Prune
<1>2. old \subseteq Events
  BY DEF GossipInv, OnlyIssued, Issued
<1>3. own \subseteq old /\ \A e \in old : Impostor(n, e) => e \in own
  OBVIOUS
<1> HIDE DEF old, own
<1>4. Held(n)' = Held(n) \ old /\ \A m \in Nodes : m # n => Held(m)' = Held(m)
  <2>1. DOMAIN Less(stored[n], old) = DOMAIN stored[n] \ old
    BY SMTT(30) DEF Less
  <2> QED BY <1>1, <2>1 DEF Held, GossipInv, Shapes
<1>5. Issued' = Issued /\ \A v : Carries(v)' <=> Carries(v)
  BY <1>1 DEF Issued, Carries
<1>6. Shapes'
  <2>1. stored' = [m \in Nodes |-> stored'[m]]
    BY <1>1, SMTT(30) DEF GossipInv, Shapes
  <2>2. shed' \in [Nodes -> SUBSET Events]
    BY <1>1, <1>2, <1>3 DEF GossipInv, Shapes
  <2> QED BY <1>1, <2>1, <2>2 DEF GossipInv, Shapes
<1>7. OnlyIssued'
  <2>1. \A m \in Nodes : Held(m)' \subseteq Issued'
    BY <1>4, <1>5 DEF GossipInv, OnlyIssued
  <2> QED BY <1>1, <1>5, <2>1 DEF GossipInv, OnlyIssued
<1>8. KeepsItsOwn'
  <2> SUFFICES ASSUME NEW m \in Nodes, NEW e \in Events, Impostor(m, e)'
               PROVE  e \in Held(m)' \cup shed'[m]
    BY DEF KeepsItsOwn
  <2>1. Impostor(m, e)
    BY <1>1 DEF Impostor
  <2>2. e \in Held(m) \cup shed[m]
    BY <2>1 DEF GossipInv, KeepsItsOwn
  <2>3. shed'[n] = shed[n] \cup own /\ (m # n => shed'[m] = shed[m])
    BY <1>1 DEF GossipInv, Shapes
  <2> QED BY <1>3, <1>4, <2>1, <2>2, <2>3
<1>9. [Log!LogNext]_Log!logVars
  <2>1. [m \in Nodes |-> Held(m)'] = [[m \in Nodes |-> Held(m)] EXCEPT ![n] = Held(n) \ old]
    BY <1>4, ZenonT(60)
  <2>2. Log!LogForget(n, old)
    BY <1>1, <2>1 DEF Log!LogForget
  <2> QED BY <1>2, <2>2 DEF Log!LogNext
<1>10. AccusesOnlyTheShed
  BY <1>1 DEF AccusesOnlyTheShed
<1> QED BY <1>6, <1>7, <1>8, <1>9, <1>10 DEF GossipInv, StepOK

-----------------------------------------------------------------------------
(* Gossip: the service                                                     *)

\* Every step of the mesh keeps the invariant, is a step of the event log, and raises no
\* alarm that retention did not cause.
LEMMA GossipStep == GossipInv /\ [GossipNext]_gossipVars =>
                      GossipInv' /\ [Log!LogNext]_Log!logVars /\ [AccusesOnlyTheShed]_gossipVars
<1> SUFFICES ASSUME GossipInv, [GossipNext]_gossipVars
             PROVE  GossipInv' /\ [Log!LogNext]_Log!logVars /\ [AccusesOnlyTheShed]_gossipVars
  OBVIOUS
<1>1. CASE GossipNext
  BY <1>1, OriginateKeeps, ReceiptKeeps, AnswerKeeps, ConnectionKeeps, RestartKeeps, PruneKeeps
     DEF GossipNext, StepOK
<1>2. CASE UNCHANGED gossipVars
  <2>1. GossipInv'
    BY <1>2 DEF gossipVars, GossipInv, Shapes, OnlyIssued, KeepsItsOwn, Carries, Issued, Held,
                Impostor
  <2>2. UNCHANGED Log!logVars
    BY <1>2 DEF gossipVars, Log!logVars, Held
  <2> QED BY <1>2, <2>1, <2>2
<1> QED BY <1>1, <1>2

\* Whatever connections, losses, floods, retention and restarts do, in a mesh of any size
\* the gossip service implements the event log: receive_event gives an event to the
\* handlers exactly when it enters the log, and only originated events ever enter.
THEOREM GossipImplementsEventLog == GossipSpec => ImplementsEventLog
<1>1. GossipInit => GossipInv
  BY InitGossip
<1>2. GossipInit => Log!LogInit
  <2> SUFFICES ASSUME GossipInit PROVE Log!LogInit
    OBVIOUS
  <2>1. issued = [e \in Events |-> -1] /\ stored = [n \in Nodes |-> EmptyFn] /\ handed = {}
    BY DEF GossipInit
  <2>2. {e \in Events : issued[e] >= 0} = {}
    BY <2>1
  <2>3. [n \in Nodes |-> Held(n)] = [n \in Nodes |-> {}]
    BY <2>1 DEF Held, EmptyFn
  <2> QED BY <2>1, <2>2, <2>3 DEF Log!LogInit
<1>3. GossipInv /\ [GossipNext]_gossipVars => GossipInv' /\ [Log!LogNext]_Log!logVars
  BY GossipStep
<1> QED BY <1>1, <1>2, <1>3, PTL DEF GossipSpec, ImplementsEventLog, Log!LogSpec

\* is_impostor never accuses an honest node, through any restart, echo or loss of the
\* data directory: the alarm is raised only after retention took an event of its own from
\* a node since it booted.
THEOREM HonestRestartsNeverAccuse == GossipSpec => RestartNeverAccuses
<1>1. GossipInit => GossipInv
  BY InitGossip
<1>2. GossipInv /\ [GossipNext]_gossipVars => GossipInv' /\ [AccusesOnlyTheShed]_gossipVars
  BY GossipStep
<1> QED BY <1>1, <1>2, PTL DEF GossipSpec, RestartNeverAccuses

-----------------------------------------------------------------------------
(* Rewards: products, rounded division and sums of shares                  *)

\* A product of naturals is a natural.
LEMMA ProductNat == ASSUME NEW x \in Nat, NEW y \in Nat PROVE x * y \in Nat
  OBVIOUS

\* Division rounds down.
LEMMA Quotient ==
  ASSUME NEW x \in Nat, NEW y \in Nat, y > 0
  PROVE  x \div y \in Nat /\ y * (x \div y) <= x
  OBVIOUS

\* Multiplication distributes over a sum.
LEMMA Distribute ==
  ASSUME NEW x \in Nat, NEW y \in Nat, NEW z \in Nat
  PROVE  x * (y + z) = x * y + x * z
  OBVIOUS

\* A positive factor cancels.
LEMMA Cancel ==
  ASSUME NEW t \in Nat, t > 0, NEW x \in Nat, NEW y \in Nat, t * x <= y * t
  PROVE  x <= y
<1> SUFFICES ASSUME x > y PROVE FALSE
  OBVIOUS
<1>1. PICK d \in Nat : x = y + (1 + d)
  <2>1. x - y - 1 \in Nat /\ x = y + (1 + (x - y - 1))
    OBVIOUS
  <2> QED BY <2>1
<1>2. t * x = t * y + t * (1 + d)
  BY <1>1, Distribute
<1>3. t * (1 + d) = t + t * d /\ t * d \in Nat /\ t * y \in Nat
  BY Distribute, ProductNat
<1>4. t * y = y * t
  OBVIOUS
<1> QED BY <1>2, <1>3, <1>4

\* Part of a sum of naturals is no more than the sum.
LEMMA SumPart ==
  ASSUME NEW S, IsFiniteSet(S), NEW f, \A x \in S : f[x] \in Nat, NEW T \in SUBSET S
  PROVE  SumFunctionOnSet(f, T) <= SumFunctionOnSet(f, S)
<1> DEFINE G == {U \in SUBSET S : SumFunctionOnSet(f, U \cap T) <= SumFunctionOnSet(f, U)}
<1>1. {} \in G
  <2>1. {} \cap T = {}
    OBVIOUS
  <2> QED BY <2>1, SumEmpty
<1>2. ASSUME NEW U \in SUBSET S, U # {}, U \ {Pick(U)} \in G
      PROVE  U \in G
  <2> DEFINE x == Pick(U)
             V == U \ {x}
  <2>1. x \in U /\ x \in S /\ IsFiniteSet(U) /\ IsFiniteSet(V) /\ V \in SUBSET S
    <3>1. x \in U
      BY <1>2, PickIn
    <3> HIDE DEF x
    <3> QED BY <3>1, FS_Subset
  <2>2. SumFunctionOnSet(f, U) = f[x] + SumFunctionOnSet(f, V)
    BY <1>2, <2>1, SumPick
  <2>3. /\ SumFunctionOnSet(f, V) \in Nat /\ f[x] \in Nat
        /\ SumFunctionOnSet(f, V \cap T) \in Nat
    <3>1. IsFiniteSet(V \cap T) /\ V \cap T \in SUBSET S
      BY <2>1, FS_Subset
    <3> QED BY <2>1, <3>1, SumNat
  <2>4. SumFunctionOnSet(f, V \cap T) <= SumFunctionOnSet(f, V)
    BY <1>2
  <2>5. CASE x \in T
    <3>1. (U \cap T) \ {x} = V \cap T /\ x \in U \cap T /\ IsFiniteSet(U \cap T)
      BY <2>1, <2>5, FS_Subset
    <3>2. \A y \in U \cap T : f[y] \in Int
      BY <2>1
    <3> HIDE DEF x, V
    <3>3. SumFunctionOnSet(f, U \cap T) = f[x] + SumFunctionOnSet(f, (U \cap T) \ {x})
      BY <3>1, <3>2, SumTake
    <3>4. SumFunctionOnSet(f, U \cap T) = f[x] + SumFunctionOnSet(f, V \cap T)
      BY <3>1, <3>3
    <3>5. SumFunctionOnSet(f, U \cap T) <= SumFunctionOnSet(f, U)
      BY <2>2, <2>3, <2>4, <3>4
    <3> QED BY <3>5
  <2>6. CASE x \notin T
    <3>1. U \cap T = V \cap T
      BY <2>6
    <3> HIDE DEF x, V
    <3>2. SumFunctionOnSet(f, U \cap T) = SumFunctionOnSet(f, V \cap T)
      BY <3>1
    <3>3. SumFunctionOnSet(f, U \cap T) <= SumFunctionOnSet(f, U)
      BY <2>2, <2>3, <2>4, <3>2
    <3> QED BY <3>3
  <2> QED BY <2>5, <2>6
<1> HIDE DEF G
<1>3. S \in G
  BY <1>1, <1>2, SubsetInduction
<1>4. S \cap T = T
  OBVIOUS
<1> QED BY <1>3, <1>4 DEF G

\* Shares that are each within their part of e, by weight, are together within it.
LEMMA SharesAddUp ==
  ASSUME NEW S, IsFiniteSet(S), NEW t \in Nat, NEW e \in Nat, NEW w, NEW a,
         \A x \in S : w[x] \in Nat /\ a[x] \in Nat /\ t * a[x] <= e * w[x]
  PROVE  t * SumFunctionOnSet(a, S) <= e * SumFunctionOnSet(w, S)
<1> DEFINE G == {U \in SUBSET S : t * SumFunctionOnSet(a, U) <= e * SumFunctionOnSet(w, U)}
<1>1. {} \in G
  <2>1. t * 0 = 0 /\ e * 0 = 0
    OBVIOUS
  <2>2. SumFunctionOnSet(a, {}) = 0 /\ SumFunctionOnSet(w, {}) = 0
    BY SumEmpty
  <2> QED BY <2>1, <2>2
<1>2. ASSUME NEW U \in SUBSET S, U # {}, U \ {Pick(U)} \in G
      PROVE  U \in G
  <2> DEFINE x == Pick(U)
             A == SumFunctionOnSet(a, U \ {x})
             W == SumFunctionOnSet(w, U \ {x})
  <2>1. x \in S /\ IsFiniteSet(U) /\ IsFiniteSet(U \ {x}) /\ U \ {x} \in SUBSET S
    <3>1. x \in U
      BY <1>2, PickIn
    <3> HIDE DEF x
    <3> QED BY <3>1, FS_Subset
  <2>2. SumFunctionOnSet(a, U) = a[x] + A /\ SumFunctionOnSet(w, U) = w[x] + W
    BY <1>2, <2>1, SumPick, ZenonT(60)
  <2>3. A \in Nat /\ W \in Nat
    BY <2>1, SumNat
  <2>4. a[x] \in Nat /\ w[x] \in Nat /\ t * a[x] <= e * w[x]
    BY <2>1
  <2>5. t * A <= e * W
    BY <1>2
  <2> HIDE DEF x, A, W
  <2>6. t * (a[x] + A) = t * a[x] + t * A /\ e * (w[x] + W) = e * w[x] + e * W
    BY <2>3, <2>4, Distribute
  <2>7. t * a[x] \in Nat /\ t * A \in Nat /\ e * w[x] \in Nat /\ e * W \in Nat
    BY <2>3, <2>4, ProductNat
  <2>8. t * (a[x] + A) <= e * (w[x] + W)
    BY <2>4, <2>5, <2>6, <2>7
  <2> QED BY <2>2, <2>8
<1> HIDE DEF G
<1>3. S \in G
  BY <1>1, <1>2, SubsetInduction
<1> QED BY <1>3 DEF G

-----------------------------------------------------------------------------
(* Rewards: what a ledger holds                                            *)

Slices == 0 .. Buckets - 1

\* An epoch of a ledger: what was seen of finitely many peers, in slices the epoch has.
EpochOK(x) == IsFiniteSet(DOMAIN x) /\ x \in PeerLiveness(DOMAIN x, Slices)
LedgerOK(l) == \A e \in DOMAIN l : EpochOK(l[e])

Live == [buckets_seen : SUBSET Slices, announced_blockhash : BOOLEAN, served_content : BOOLEAN]

\* The parameters an operator runs with.
LEMMA ParamsNat ==
  /\ EpochTicks \in Nat /\ EpochTicks > 0 /\ Buckets \in Nat /\ Buckets > 0
  /\ BpsDenominator \in Nat /\ BpsDenominator > 0 /\ Emission \in Nat
  /\ RpcBps \in Nat /\ GossipBps \in Nat /\ ServingBps \in Nat /\ AbsentBps \in Nat
  BY ContentAssumption DEF RewardParamsValid

\* The slice of a time is one the epoch has.
LEMMA BucketInEpoch == ASSUME NEW at \in Nat PROVE BucketOf(at) \in Slices
<1>1. at \div EpochTicks \in Nat /\ EpochTicks * (at \div EpochTicks) <= at
  BY ParamsNat, Quotient
<1>2. EpochTicks * (at \div EpochTicks) \in Nat
  BY <1>1, ParamsNat, ProductNat
<1>3. at - (at \div EpochTicks) * EpochTicks \in Nat
  <2>1. (at \div EpochTicks) * EpochTicks = EpochTicks * (at \div EpochTicks)
    BY <1>1, ParamsNat
  <2> QED BY <1>1, <1>2, <2>1
<1> DEFINE slice == AtLeastOne(EpochTicks \div Buckets)
           elapsed == at - (at \div EpochTicks) * EpochTicks
<1>4. EpochTicks \div Buckets \in Nat
  BY ParamsNat, Quotient
<1>5. slice \in Nat /\ slice > 0
  BY <1>4 DEF AtLeastOne
<1> HIDE DEF slice
<1>6. elapsed \div slice \in Nat
  <2> HIDE DEF elapsed
  <2> QED BY <1>3, <1>5, Quotient DEF elapsed
<1>7. BucketOf(at) = IF elapsed \div slice < Buckets THEN elapsed \div slice ELSE Buckets - 1
  BY DEF BucketOf, EpochStart, EpochIndex, slice
<1> HIDE DEF elapsed
<1> QED BY <1>6, <1>7, ParamsNat DEF Slices

\* What a peer was seen to do before it was seen in the epoch.
LEMMA UnseenLive == Unseen \in Live
  BY DEF Unseen, Live

\* An observation is filed in an epoch that stays one.
LEMMA ObserveKeeps ==
  ASSUME NEW l, LedgerOK(l), NEW peer, NEW at \in Nat, NEW announcement
  PROVE  LedgerOK(ObservePeer(l, peer, at, announcement))
<1> DEFINE epoch == EpochIndex(at)
           old == EpochOf(l, epoch)
           seen == SeenOf(l, epoch, peer)
           entry == [buckets_seen |-> seen.buckets_seen \cup {BucketOf(at)},
                     announced_blockhash |-> seen.announced_blockhash \/ announcement,
                     served_content |-> seen.served_content]
           new == Put(old, peer, entry)
<1>1. EpochOK(old)
  <2>1. CASE epoch \in DOMAIN l
    BY <2>1 DEF LedgerOK, EpochOf
  <2>2. CASE epoch \notin DOMAIN l
    <3>1. old = EmptyStore /\ DOMAIN EmptyStore = {}
      BY <2>2 DEF EpochOf, EmptyStore
    <3>2. IsFiniteSet({})
      BY FS_EmptySet
    <3>3. EmptyStore \in PeerLiveness({}, Slices)
      BY DEF EmptyStore, PeerLiveness
    <3> QED BY <3>1, <3>2, <3>3 DEF EpochOK
  <2> QED BY <2>1, <2>2
<1>2. seen \in Live
  <2>1. CASE peer \in DOMAIN old
    <3>1. old[peer] \in Live
      BY <1>1, <2>1 DEF EpochOK, PeerLiveness, Live
    <3> QED BY <2>1, <3>1 DEF SeenOf
  <2>2. CASE peer \notin DOMAIN old
    BY <2>2, UnseenLive DEF SeenOf
  <2> QED BY <2>1, <2>2
<1>3. BucketOf(at) \in Slices
  BY BucketInEpoch
<1>4. entry \in Live
  <2> HIDE DEF seen
  <2>1. seen.buckets_seen \in SUBSET Slices /\ seen.served_content \in BOOLEAN
    BY <1>2 DEF Live
  <2>2. seen.buckets_seen \cup {BucketOf(at)} \in SUBSET Slices
    BY <1>3, <2>1
  <2>3. (seen.announced_blockhash \/ announcement) \in BOOLEAN
    BY ZenonT(60)
  <2> QED BY <2>1, <2>2, <2>3, ZenonT(60) DEF Live
<1> HIDE DEF entry, seen, old
<1>5. EpochOK(new)
  <2>1. DOMAIN new = DOMAIN old \cup {peer}
    BY DEF Put
  <2>2. IsFiniteSet(DOMAIN new)
    BY <1>1, <2>1, FS_AddElement DEF EpochOK
  <2>3. \A p \in DOMAIN new : new[p] \in Live
    BY <1>1, <1>4 DEF Put, EpochOK, PeerLiveness, Live
  <2>4. new = [p \in DOMAIN new |-> new[p]]
    BY DEF Put
  <2>5. new \in [DOMAIN new -> Live]
    <3> HIDE DEF new
    <3> QED BY <2>3, <2>4, SMTT(30)
  <2> QED BY <2>2, <2>5 DEF EpochOK, PeerLiveness, Live
<1>6. ObservePeer(l, peer, at, announcement) = Put(l, epoch, new)
  BY DEF ObservePeer, entry, seen, old
<1> HIDE DEF new, epoch
<1>7. LedgerOK(Put(l, epoch, new))
  BY <1>5 DEF LedgerOK, Put
<1> QED BY <1>6, <1>7

\* So is a challenge that was met.
LEMMA ServedKeeps ==
  ASSUME NEW l, LedgerOK(l), NEW peer, NEW at \in Nat
  PROVE  LedgerOK(ContentServed(l, peer, at))
<1> DEFINE k == ObservePeer(l, peer, at, FALSE)
           e == EpochIndex(at)
           r == [k EXCEPT ![e][peer].served_content = TRUE]
<1>1. LedgerOK(k)
  BY ObserveKeeps, ZenonT(60)
<1>2. ContentServed(l, peer, at) = r
  BY DEF ContentServed
<1> HIDE DEF k, e
<1>3. DOMAIN r = DOMAIN k /\ \A d \in DOMAIN k : d # e => r[d] = k[d]
  OBVIOUS
<1>4. ASSUME e \in DOMAIN k PROVE EpochOK(r[e])
  <2> DEFINE x == k[e]
             y == [x EXCEPT ![peer].served_content = TRUE]
  <2>1. r[e] = y
    BY <1>4
  <2>2. IsFiniteSet(DOMAIN x) /\ x \in [DOMAIN x -> Live]
    BY <1>1, <1>4 DEF LedgerOK, EpochOK, PeerLiveness, Live
  <2> HIDE DEF x
  <2>3. DOMAIN y = DOMAIN x /\ \A p \in DOMAIN x : y[p] \in Live
    <3>1. \A p \in DOMAIN x : p # peer => y[p] = x[p]
      OBVIOUS
    <3>2. ASSUME peer \in DOMAIN x PROVE y[peer] \in Live
      <4>1. y[peer] = [x[peer] EXCEPT !.served_content = TRUE]
        BY <3>2
      <4>2. x[peer] \in Live
        BY <2>2, <3>2
      <4> DEFINE v == x[peer]
      <4>3. [v EXCEPT !.served_content = TRUE] \in Live
        <5>1. v \in Live
          BY <4>2
        <5> HIDE DEF v
        <5> QED BY <5>1, ZenonT(60) DEF Live
      <4> QED BY <4>1, <4>3
    <3> QED BY <2>2, <3>1, <3>2, ZenonT(60)
  <2>4. y \in [DOMAIN y -> Live]
    BY <2>2, <2>3, ZenonT(60)
  <2> QED BY <2>1, <2>2, <2>3, <2>4, ZenonT(60) DEF EpochOK, PeerLiveness, Live
<1> HIDE DEF r
<1>5. LedgerOK(r)
  BY <1>1, <1>3, <1>4 DEF LedgerOK
<1> QED BY <1>2, <1>5

\* A sweep drops whole epochs.
LEMMA PrunedKeeps == ASSUME NEW l, LedgerOK(l), NEW t PROVE LedgerOK(Pruned(l, t))
  BY DEF LedgerOK, Pruned, Without

-----------------------------------------------------------------------------
(* Rewards: the schedule of an epoch                                       *)

\* A quality factor is a natural.
LEMMA QualityNat == ASSUME NEW x \in Live PROVE QualityBps(x) \in Nat
<1>1. ConnectivityBps(x) \in Nat
  BY ParamsNat DEF ConnectivityBps
<1>2. PinningBps(x) \in Nat
  BY ParamsNat DEF PinningBps
<1>3. AvailabilityBps(x) \in Nat
  <2> DEFINE c == Cardinality(x.buckets_seen)
             m == Capped(c, Buckets)
  <2>1. c \in Nat
    <3>1. x.buckets_seen \in SUBSET Slices
      BY DEF Live
    <3>2. IsFiniteSet(Slices)
      BY ParamsNat, FS_Interval DEF Slices
    <3> QED BY <3>1, <3>2, FS_Subset, FS_CardinalityType
  <2> HIDE DEF c
  <2>2. m \in Nat
    BY <2>1, ParamsNat DEF Capped
  <2> HIDE DEF m
  <2>3. m * BpsDenominator \in Nat
    BY <2>2, ParamsNat, ProductNat
  <2>4. (m * BpsDenominator) \div Buckets \in Nat
    BY <2>3, ParamsNat, Quotient
  <2> QED BY <2>4 DEF AvailabilityBps, m, c
<1> DEFINE q == ConnectivityBps(x) * AvailabilityBps(x) * PinningBps(x)
           d == BpsDenominator * BpsDenominator
<1>4. q \in Nat
  BY <1>1, <1>2, <1>3, ProductNat
<1>5. d \in Nat /\ d > 0
  BY ParamsNat
<1>6. QualityBps(x) = q \div d
  BY DEF QualityBps
<1> HIDE DEF q, d
<1> QED BY <1>4, <1>5, <1>6, Quotient

\* Stakes by peer.
StakesNat(el) == \A p \in DOMAIN el : el[p].effective_stake \in Nat

\* So is a weight.
LEMMA WeightNat ==
  ASSUME NEW el, StakesNat(el), NEW peers, EpochOK(peers), NEW p \in DOMAIN peers
  PROVE  Weight(el, peers, p) \in Nat
<1>1. peers[p] \in Live
  BY DEF EpochOK, PeerLiveness, Live
<1>2. CASE Weighable(el, p)
  <2>1. el[p].effective_stake \in Nat
    BY <1>2 DEF Weighable, StakesNat
  <2>2. QualityBps(peers[p]) \in Nat
    BY <1>1, QualityNat
  <2>3. el[p].effective_stake * QualityBps(peers[p]) \in Nat
    BY <2>1, <2>2, ProductNat
  <2> QED BY <1>2, <2>3 DEF Weight
<1>3. CASE ~Weighable(el, p)
  BY <1>3, SMTT(30) DEF Weight
<1> QED BY <1>2, <1>3

\* A schedule gives away no more than its emission, keeps the rest as dust, and pays a
\* stake once.
LEMMA ScheduleWithin ==
  ASSUME NEW l, LedgerOK(l), NEW el, StakesNat(el), NEW epoch \in DOMAIN l, NEW emission \in Nat
  PROVE  LET s == Schedule(l, el, epoch, emission)
             sum == SumFunction(s.entries)
         IN  /\ sum \in Nat /\ sum <= emission
             /\ s.emission - s.dust = sum
             /\ \A p, q \in DOMAIN s.entries :
                  el[p].stake_account = el[q].stake_account => p = q
<1> DEFINE peers == l[epoch]
           w == [p \in DOMAIN peers |-> Weight(el, peers, p)]
           total == SumFunction(w)
           amount(p) == IF total = 0 THEN 0 ELSE (emission * Weight(el, peers, p)) \div total
           D == {p \in DOMAIN peers : amount(p) > 0}
           entries == [p \in D |-> amount(p)]
           s == Schedule(l, el, epoch, emission)
           sum == SumFunction(entries)
<1>1. EpochOK(peers)
  BY DEF LedgerOK
<1>2. /\ s.entries = entries /\ s.emission = emission
      /\ s.dust = emission - sum
  BY ZenonT(60) DEF Schedule, EpochOf
<1> HIDE DEF peers, s
<1>3. \A p \in DOMAIN peers : w[p] = Weight(el, peers, p) /\ w[p] \in Nat
  BY <1>1, WeightNat
<1>4. IsFiniteSet(DOMAIN peers) /\ DOMAIN w = DOMAIN peers
  BY <1>1 DEF EpochOK
<1>5. total \in Nat /\ total = SumFunctionOnSet(w, DOMAIN peers)
  <2>1. total = SumFunctionOnSet(w, DOMAIN peers)
    BY <1>4 DEF SumFunction
  <2> HIDE DEF w, total
  <2> QED BY <2>1, <1>3, <1>4, SumNat
<1> HIDE DEF w, total
<1>6. ASSUME NEW p \in DOMAIN peers, total > 0
      PROVE  amount(p) \in Nat /\ total * amount(p) <= emission * w[p]
  <2>1. emission * w[p] \in Nat
    BY <1>3, ProductNat
  <2>2. amount(p) = (emission * w[p]) \div total
    BY <1>3, <1>5, <1>6
  <2> QED BY <2>1, <2>2, <1>5, <1>6, Quotient
<1>7. DOMAIN entries = D /\ D \in SUBSET DOMAIN peers /\ IsFiniteSet(D)
  BY <1>4, FS_Subset, ZenonT(60)
<1>8. sum = SumFunctionOnSet(entries, D)
  BY <1>7 DEF SumFunction
<1>9. sum \in Nat /\ sum <= emission
  <2>1. CASE total = 0
    <3>1. D = {}
      BY <2>1
    <3>2. sum = SumFunctionOnSet(entries, {})
      BY <1>8, <3>1
    <3> QED BY <3>2, SumEmpty
  <2>2. CASE total # 0
    <3>1. total > 0
      BY <2>2, <1>5, SMTT(30)
    <3>2. \A p \in D : w[p] \in Nat /\ entries[p] \in Nat /\ total * entries[p] <= emission * w[p]
      BY <1>3, <1>6, <1>7, <3>1, SMTT(30)
    <3> HIDE DEF entries, D
    <3>3. total * SumFunctionOnSet(entries, D) <= emission * SumFunctionOnSet(w, D)
      BY <1>5, <1>7, <3>2, SharesAddUp, SMTT(30)
    <3>4. SumFunctionOnSet(entries, D) \in Nat /\ SumFunctionOnSet(w, D) \in Nat
      BY <1>7, <3>2, SumNat, SMTT(30)
    <3>5. SumFunctionOnSet(w, D) <= total
      BY <1>3, <1>4, <1>5, <1>7, SumPart
    <3>6. emission * SumFunctionOnSet(w, D) <= emission * total
      BY <1>5, <3>4, <3>5
    <3>7. total * SumFunctionOnSet(entries, D) <= emission * total
      <4>1. /\ total * SumFunctionOnSet(entries, D) \in Nat
            /\ emission * SumFunctionOnSet(w, D) \in Nat /\ emission * total \in Nat
        BY <1>5, <3>4, ProductNat
      <4> QED BY <4>1, <3>3, <3>6
    <3>8. SumFunctionOnSet(entries, D) <= emission
      BY <1>5, <3>1, <3>4, <3>7, Cancel
    <3> QED BY <3>4, <3>8, <1>8
  <2> QED BY <2>1, <2>2
<1>10. \A p \in D : Weighable(el, p)
  <2> SUFFICES ASSUME NEW p \in D, ~Weighable(el, p) PROVE FALSE
    OBVIOUS
  <2>1. p \in DOMAIN peers /\ amount(p) > 0
    OBVIOUS
  <2>2. Weight(el, peers, p) = 0
    BY DEF Weight
  <2>3. total > 0
    BY <2>1, <1>5
  <2>4. emission * 0 = 0 /\ 0 \div total = 0
    BY <2>3, <1>5
  <2> QED BY <2>1, <2>2, <2>3, <2>4
<1>11. \A p, q \in D : el[p].stake_account = el[q].stake_account => p = q
  BY <1>10 DEF Weighable
<1>12. s.emission - s.dust = sum
  <2> HIDE DEF sum
  <2> QED BY <1>2, <1>9, SMTT(30)
<1> HIDE DEF entries, D
<1> QED BY <1>2, <1>7, <1>9, <1>11, <1>12 DEF s

-----------------------------------------------------------------------------
(* Rewards: the invariant and its steps                                    *)

\* What was paid, out of which bucket, to stakes of which eligibility.
Given(x) == SumFunction([e \in x.epochs |-> SumFunction(x.owed[e])])
PaidOK(x, bucket, el) ==
  /\ x.left \in Nat /\ x.left + Given(x) = bucket
  /\ IsFiniteSet(x.epochs) /\ x.epochs \subseteq DOMAIN x.owed
  /\ \A e \in x.epochs :
       /\ SumFunction(x.owed[e]) \in Nat
       /\ \A p, q \in DOMAIN x.owed[e] : el[p].stake_account = el[q].stake_account => p = q

\* Ledgers from which an epoch can be paid, and what has been paid.
LedgersInv == DOMAIN ledger = Hosts /\ \A n \in Hosts : LedgerOK(ledger[n])
PaidInv == PaidOK(paid, workload.bucket, workload.eligibility)
RewardInv == workload \in Workloads /\ clock \in Nat /\ LedgersInv /\ PaidInv

\* What the run checks follows.
LEMMA RewardInvSafe == RewardInv => RewardsWithinBucket
<1> SUFFICES ASSUME RewardInv PROVE RewardsWithinBucket
  OBVIOUS
<1>1. \A n \in Hosts : \A e \in DOMAIN ledger[n] :
        ledger[n][e] \in PeerLiveness(DOMAIN ledger[n][e], 0 .. Buckets - 1)
  BY DEF RewardInv, LedgersInv, LedgerOK, EpochOK, Slices
<1>2. PaidOK(paid, workload.bucket, workload.eligibility)
  BY SMTT(30) DEF RewardInv, PaidInv
<1> QED BY <1>1, <1>2 DEF RewardsWithinBucket, PaidOK, Given

\* One more epoch, paid out of what is left.
LEMMA PayOne ==
  ASSUME NEW x, NEW bucket \in Nat, NEW el, PaidOK(x, bucket, el),
         NEW e, e \notin x.epochs, NEW entries, NEW sum \in Nat,
         SumFunction(entries) = sum, sum <= x.left,
         \A p, q \in DOMAIN entries : el[p].stake_account = el[q].stake_account => p = q
  PROVE  PaidOK([epochs |-> x.epochs \cup {e}, left |-> x.left - sum,
                 owed |-> Put(x.owed, e, entries)], bucket, el)
<1> DEFINE S == x.epochs \cup {e}
           o == Put(x.owed, e, entries)
           f == [d \in x.epochs |-> SumFunction(x.owed[d])]
           g == [d \in S |-> SumFunction(o[d])]
           y == [epochs |-> S, left |-> x.left - sum, owed |-> o]
<1>1. /\ S \subseteq DOMAIN o /\ o[e] = entries
      /\ \A d \in x.epochs : o[d] = x.owed[d]
  BY SMTT(30) DEF Put, PaidOK
<1>2. IsFiniteSet(S) /\ IsFiniteSet(x.epochs)
  BY FS_AddElement, SMTT(30) DEF PaidOK
<1> HIDE DEF o
<1>3. g[e] = sum /\ \A d \in x.epochs : g[d] = f[d] /\ f[d] \in Nat
  BY <1>1, SMTT(30) DEF PaidOK
<1>4. DOMAIN g = S /\ DOMAIN f = x.epochs /\ S \ {e} = x.epochs /\ e \in S
  OBVIOUS
<1> HIDE DEF f, g
<1>5. \A d \in S : g[d] \in Int
  BY <1>3
<1>6. SumFunctionOnSet(g, S) = g[e] + SumFunctionOnSet(g, S \ {e})
  <2> HIDE DEF S
  <2> QED BY <1>2, <1>4, <1>5, SumTake, SMTT(30)
<1>7. SumFunctionOnSet(g, x.epochs) = SumFunctionOnSet(f, x.epochs)
  BY <1>2, <1>3, SumAgree
<1>8. SumFunctionOnSet(f, x.epochs) \in Nat
  BY <1>2, <1>3, SumNat
<1>9. SumFunction(g) = sum + SumFunction(f) /\ SumFunction(f) \in Nat
  <2>1. SumFunction(g) = SumFunctionOnSet(g, S) /\ SumFunction(f) = SumFunctionOnSet(f, x.epochs)
    BY <1>4, SMTT(30) DEF SumFunction
  <2> QED BY <2>1, <1>3, <1>4, <1>6, <1>7, <1>8, ZenonT(60)
<1>10. Given(y) = SumFunction(g) /\ Given(x) = SumFunction(f)
  BY SMTT(30) DEF Given, f, g
<1>11. x.left \in Nat /\ x.left + SumFunction(f) = bucket
  BY <1>10, SMTT(30) DEF PaidOK
<1>12. x.left - sum \in Nat /\ (x.left - sum) + SumFunction(g) = bucket
  BY <1>9, <1>11, SMTT(30)
<1>13. ASSUME NEW d \in S
       PROVE  /\ SumFunction(o[d]) \in Nat
              /\ \A p, q \in DOMAIN o[d] : el[p].stake_account = el[q].stake_account => p = q
  <2>1. CASE d = e
    BY <2>1, <1>1, SMTT(30)
  <2>2. CASE d # e
    BY <2>2, <1>1 DEF PaidOK
  <2> QED BY <2>1, <2>2
<1>14. y.epochs = S /\ y.left = x.left - sum /\ y.owed = o
  BY ZenonT(60)
<1> HIDE DEF y, S
<1>15. PaidOK(y, bucket, el)
  BY <1>1, <1>2, <1>10, <1>12, <1>13, <1>14 DEF PaidOK
<1> QED BY <1>15, SMTT(30) DEF y, S, o

\* Nothing is owed to begin with.
LEMMA RewardInvInit == ContentInit => RewardInv
<1> SUFFICES ASSUME ContentInit PROVE RewardInv
  OBVIOUS
<1>1. LedgersInv
  <2>1. LedgerOK(EmptyStore)
    BY SMTT(30) DEF LedgerOK, EmptyStore
  <2> QED BY <2>1 DEF ContentInit, LedgersInv
<1>2. workload \in Workloads /\ clock \in Nat /\ workload.bucket \in Nat
  BY ContentAssumption DEF ContentInit
<1>3. paid.epochs = {} /\ paid.left = workload.bucket
  BY DEF ContentInit
<1>4. Given(paid) = 0
  <2> DEFINE f == [e \in paid.epochs |-> SumFunction(paid.owed[e])]
  <2>1. DOMAIN f = {}
    BY <1>3
  <2>2. SumFunction(f) = SumFunctionOnSet(f, {})
    BY <2>1 DEF SumFunction
  <2> HIDE DEF f
  <2>3. SumFunction(f) = 0
    BY <2>2, SumEmpty
  <2> QED BY <2>3 DEF Given, f
<1>5. IsFiniteSet(paid.epochs)
  BY <1>3, FS_EmptySet
<1>6. PaidInv
  BY <1>2, <1>3, <1>4, <1>5 DEF PaidInv, PaidOK
<1> QED BY <1>1, <1>2, <1>6 DEF RewardInv

\* A step that leaves ledgers and payments alone.
LEMMA SameRewards ==
  ASSUME RewardInv, UNCHANGED <<workload, ledger, paid>>, clock' \in Nat
  PROVE  RewardInv'
  BY DEF RewardInv, LedgersInv, PaidInv

\* A step that changes one ledger.
LEMMA OneLedger ==
  ASSUME RewardInv, NEW n \in Hosts, NEW l, LedgerOK(l), ledger' = [ledger EXCEPT ![n] = l],
         UNCHANGED <<workload, paid, clock>>
  PROVE  RewardInv'
<1>1. LedgersInv'
  BY SMTT(30) DEF RewardInv, LedgersInv
<1> QED BY <1>1 DEF RewardInv, PaidInv

\* The pinning tick observes a peer that met a challenge, or nobody.
LEMMA PinningKeeps ==
  ASSUME RewardInv, NEW n \in workload.listening, NEW available, NEW answers,
         PinningTick(n, available, answers)
  PROVE  RewardInv'
<1>1. n \in Hosts /\ LedgerOK(ledger[n]) /\ clock \in Nat
  BY ContentAssumption, SMTT(30) DEF RewardInv, LedgersInv
<1>2. UNCHANGED <<workload, paid, clock>>
  BY DEF PinningTick
<1>3. CASE UNCHANGED ledger
  BY <1>1, <1>2, <1>3, SameRewards
<1>4. ASSUME NEW peer, NEW cid, ledger' = [ledger EXCEPT ![n] = Challenged(n, peer, cid, answers)]
      PROVE  RewardInv'
  <2>1. LedgerOK(Challenged(n, peer, cid, answers))
    BY <1>1, ServedKeeps, SMTT(30) DEF Challenged
  <2> QED BY <1>1, <1>2, <1>4, <2>1, OneLedger, ZenonT(60)
<1> QED BY <1>3, <1>4, SMTT(30) DEF PinningTick

\* Every step keeps the invariant.
LEMMA RewardStep == RewardInv /\ [ContentNext]_contentVars => RewardInv'
<1> SUFFICES ASSUME RewardInv, [ContentNext]_contentVars PROVE RewardInv'
  OBVIOUS
<1>1. clock \in Nat
  BY SMTT(30) DEF RewardInv
<1>2. CASE PutContent
  BY <1>1, <1>2, SameRewards DEF PutContent
<1>3. ASSUME NEW n \in workload.listening, NEW e \in workload.events, Hear(n, e)
      PROVE  RewardInv'
  <2>1. n \in Hosts /\ LedgerOK(ledger[n]) /\ e.timestamp \in Nat
    BY ContentAssumption, SMTT(30) DEF RewardInv, LedgersInv
  <2> DEFINE l == IF n \in workload.payers
                  THEN ObservePeer(ledger[n], e.origin, e.timestamp,
                                   e.kind = "BlockhashAnnounced")
                  ELSE ledger[n]
  <2>2. LedgerOK(l)
    BY <2>1, ObserveKeeps, SMTT(30)
  <2>3. ledger' = [ledger EXCEPT ![n] = l] /\ UNCHANGED <<workload, paid, clock>>
    BY <1>3 DEF Hear
  <2> HIDE DEF l
  <2> QED BY <2>1, <2>2, <2>3, OneLedger, ZenonT(60)
<1>4. ASSUME NEW n \in workload.listening, Pin(n) \/ PinAlone(n)
      PROVE  RewardInv'
  BY <1>4, PinningKeeps, ZenonT(60) DEF Pin, PinAlone
<1>5. ASSUME NEW m, OnBitswap(m) \/ LoseMessage(m)
      PROVE  RewardInv'
  BY <1>1, <1>5, SameRewards, ZenonT(60) DEF OnBitswap, LoseMessage
<1>6. ASSUME NEW n \in workload.listening, RestartNode(n)
      PROVE  RewardInv'
  <2>1. n \in Hosts /\ LedgerOK(EmptyStore)
    BY ContentAssumption, ZenonT(60) DEF RewardInv, LedgerOK, EmptyStore
  <2> QED BY <1>6, <2>1, OneLedger, ZenonT(60) DEF RestartNode
<1>7. ASSUME NEW n \in workload.listening, SweepLedger(n)
      PROVE  RewardInv'
  <2>1. n \in Hosts /\ LedgerOK(Pruned(ledger[n], clock))
    BY ContentAssumption, PrunedKeeps, SMTT(30) DEF RewardInv, LedgersInv
  <2> QED BY <1>7, <2>1, OneLedger, ZenonT(60) DEF SweepLedger
<1>8. ASSUME NEW n \in workload.payers, NEW epoch \in DOMAIN ledger[n], Pay(n, epoch)
      PROVE  RewardInv'
  <2> DEFINE el == workload.eligibility
             emission == Capped(Emission, paid.left)
             s == Schedule(ledger[n], el, epoch, emission)
             sum == SumFunction(s.entries)
  <2>1. /\ n \in Hosts /\ LedgerOK(ledger[n]) /\ StakesNat(el)
        /\ workload.bucket \in Nat /\ PaidOK(paid, workload.bucket, el)
    BY ContentAssumption, SMTT(30) DEF RewardInv, LedgersInv, PaidInv, StakesNat
  <2>2. emission \in Nat /\ emission <= paid.left
    BY <2>1, ParamsNat, SMTT(30) DEF Capped, PaidOK
  <2>3. s = Compute(ledger[n], el, epoch, paid.left)
    BY DEF Compute
  <2>4. /\ paid' = [epochs |-> paid.epochs \cup {epoch}, left |-> paid.left - (s.emission - s.dust),
                    owed |-> Put(paid.owed, epoch, s.entries)]
        /\ epoch \notin paid.epochs
        /\ UNCHANGED <<workload, ledger, clock>>
    BY <1>8, <2>3, ZenonT(60) DEF Pay, PayableEpochs
  <2> HIDE DEF emission
  <2>5. /\ sum \in Nat /\ sum <= emission /\ s.emission - s.dust = sum
        /\ \A p, q \in DOMAIN s.entries : el[p].stake_account = el[q].stake_account => p = q
    BY <2>1, <2>2, ScheduleWithin, ZenonT(60)
  <2>6. sum <= paid.left
    <3>1. paid.left \in Nat
      BY <2>1, ZenonT(60) DEF PaidOK
    <3>2. sum \in Nat /\ sum <= emission
      BY <2>5
    <3> HIDE DEF sum, s
    <3> QED BY <2>2, <3>1, <3>2
  <2> HIDE DEF s, el
  <2>7. paid' = [epochs |-> paid.epochs \cup {epoch}, left |-> paid.left - sum,
                 owed |-> Put(paid.owed, epoch, s.entries)]
    BY <2>4, <2>5, ZenonT(60)
  <2>8. PaidOK(paid', workload.bucket, el)
    <3> DEFINE entries == s.entries
    <3>1. SumFunction(entries) = sum
      BY ZenonT(60)
    <3> HIDE DEF sum
    <3> QED BY <2>1, <2>4, <2>5, <2>6, <2>7, <3>1, PayOne, ZenonT(60)
  <2>9. PaidInv'
    BY <2>4, <2>8 DEF PaidInv, el
  <2>10. workload' \in Workloads /\ clock' \in Nat /\ LedgersInv'
    BY <2>4 DEF RewardInv, LedgersInv
  <2> QED BY <2>9, <2>10 DEF RewardInv
<1>9. CASE TickClock
  <2>1. clock' = clock + 1
    BY <1>9, ZenonT(60) DEF TickClock
  <2>2. clock' \in Nat
    BY <1>1, <2>1
  <2> QED BY <1>9, <2>2, SameRewards, ZenonT(60) DEF TickClock
<1>10. CASE UNCHANGED contentVars
  BY <1>1, <1>10, SameRewards DEF contentVars
<1> QED
  BY <1>2, <1>3, <1>4, <1>5, <1>6, <1>7, <1>8, <1>9, <1>10, SMTT(30) DEF ContentNext

\* For every bucket, emission, stakes, parameters that pass validate and order of what a
\* node hears, proves and pays: no more is paid than the bucket held, what is left and what
\* was paid add up to it, and no stake is paid twice for an epoch.
THEOREM RewardsAlwaysWithinBucket == ContentSpec => []RewardsWithinBucket
  BY RewardInvInit, RewardStep, RewardInvSafe, PTL DEF ContentSpec
=============================================================================
