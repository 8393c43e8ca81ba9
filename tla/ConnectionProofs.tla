-------------------------- MODULE ConnectionProofs --------------------------
(***************************************************************************)
(* Proofs about Connection, for any number of clients and any settings of  *)
(* the sockets.                                                            *)
(***************************************************************************)
EXTENDS Connection, DistinctSeqs

Entries(n) == DOMAIN peers[n]
InFlightTo(l) == ToSet(net[l])

\* Who speaks to whom: only clients ask and only the host accepts, so the host
\* has clients in its list and a client nobody but the host.
Roles ==
  /\ \A n \in Nodes : \A i \in Entries(n) : <<n, peers[n][i].addr>> \in Links
  /\ \A c \in Clients :
       /\ \A p \in InFlightTo(<<Host, c>>) : p.cmd # "peerinfo_replay"
       /\ \A p \in InFlightTo(<<c, Host>>) :
            /\ p.cmd # "connect_accept"
            /\ p.cmd = "peer_disconnect" => p.addr = Host

\* A network that is within its bound.
Fits(w) == w \in [Links -> Seq(Packet)] /\ IsFiniteSet(Slots(w)) /\ Load(w) <= InFlight

Types == TypeOK /\ Fits(net) /\ Roles

\* Whose request is pending, or failed, does not have the host in its list.
Waiting ==
  \A c \in Clients :
    /\ c \in Pending \cup failed => peers[c] = <<>>
    /\ c \in failed => c \notin Pending

-----------------------------------------------------------------------------
(* Identities, as long as no client closes with the host in its list twice. *)

\* The DISCONNECT messages of client c in flight, and its removed entries.
GoodbyesIn(w, c) == {i \in DOMAIN w[<<c, Host>>] : w[<<c, Host>>][i].cmd = "disconnect"}
Goodbyes(c) == GoodbyesIn(net, c)
Dismissed(c) == {i \in Entries(Host) : peers[Host][i].addr = c /\ peers[Host][i].removed}

\* A client takes its leave once, so the host removes it once.
LeavesOnce ==
  \A c \in Clients :
    /\ \A i, j \in Goodbyes(c) : i = j
    /\ c \in open => Goodbyes(c) = {} /\ Dismissed(c) = {}
    /\ Goodbyes(c) # {} => Dismissed(c) = {}

ClosedIsEmpty == \A n \in Nodes \ open : peers[n] = <<>>

\* The identity is reserved for client c: the host serves it under it, or the
\* client has it or will have it.
Served(c, id) ==
  \E i \in Entries(Host) : peers[Host][i].addr = c /\ peers[Host][i].id = id /\ ~peers[Host][i].removed
Promised(c, id) == \E p \in InFlightTo(<<Host, c>>) : p.cmd = "connect_accept" /\ p.id = id
Believed(c, id) == \E i \in Entries(c) : peers[c][i].id = id

Reserved(c, id) == Served(c, id) \/ (c \in open /\ (Promised(c, id) \/ Believed(c, id)))

IdsReserved ==
  \A c \in Clients, id \in AllIds :
    Reserved(c, id) => /\ id \in usedIds[Host]
                       /\ \A d \in Clients : Reserved(d, id) => d = c

ServedDiffer == IdsDiffer(peers[Host])

Identities == LeavesOnce /\ ClosedIsEmpty /\ IdsReserved /\ ServedDiffer

-----------------------------------------------------------------------------
(* The network.  A step of socket n takes datagrams out of it and sends    *)
(* some of P; only a client that sends DISCONNECT may have more of them in *)
(* flight than before.                                                     *)

Calm(w, v, c) ==
  /\ GoodbyesIn(w, c) = {} => GoodbyesIn(v, c) = {}
  /\ (\A i, j \in GoodbyesIn(w, c) : i = j) => \A i, j \in GoodbyesIn(v, c) : i = j

Leaves(n, P, c) == c = n /\ \E p \in P : p.cmd = "disconnect"

Goes(w, v, n, P) ==
  /\ Fits(v)
  /\ \A l \in Links : \A p \in ToSet(v[l]) : p \in ToSet(w[l]) \/ (l[1] = n /\ p \in P)
  /\ \A c \in Clients : Leaves(n, P, c) \/ Calm(w, v, c)

LEMMA GoesNowhere ==
  ASSUME NEW w, Fits(w), NEW n, NEW P
  PROVE  Goes(w, w, n, P)
BY DEF Goes, Calm

LEMMA GoesFurther ==
  ASSUME NEW w, NEW v, NEW u, NEW n, NEW P, NEW Q, Goes(w, v, n, P), Goes(v, u, n, Q)
  PROVE  Goes(w, u, n, P \cup Q)
<1>1. Fits(u)
  BY DEF Goes
<1>2. \A l \in Links : \A p \in ToSet(u[l]) : p \in ToSet(w[l]) \/ (l[1] = n /\ p \in P \cup Q)
  BY DEF Goes
<1>3. \A c \in Clients : Leaves(n, P \cup Q, c) \/ Calm(w, u, c)
  <2> TAKE c \in Clients
  <2>1. Calm(w, v, c) /\ Calm(v, u, c) => Calm(w, u, c)
    BY DEF Calm
  <2>2. Leaves(n, P, c) \/ Leaves(n, Q, c) => Leaves(n, P \cup Q, c)
    BY DEF Leaves
  <2> QED
    BY <2>1, <2>2 DEF Goes
<1> QED
  BY <1>1, <1>2, <1>3 DEF Goes

LEMMA GoesWider ==
  ASSUME NEW w, NEW v, NEW n, NEW P, NEW Q, Goes(w, v, n, P), P \subseteq Q
  PROVE  Goes(w, v, n, Q)
<1>1. \A c \in Clients : Leaves(n, P, c) => Leaves(n, Q, c)
  BY DEF Leaves
<1> QED
  BY <1>1 DEF Goes

LEMMA LinksAre ==
  /\ \A c \in Clients : <<c, Host>> \in Links /\ <<Host, c>> \in Links /\ c # Host
  /\ \A l \in Links : l = <<l[1], l[2]>> /\ (\/ l[1] \in Clients /\ l[2] = Host
                                             \/ l[1] = Host /\ l[2] \in Clients)
  /\ \A n, m \in Nodes : <<n, m>> \in Links <=> (n = Host /\ m \in Clients) \/ (m = Host /\ n \in Clients)
BY ConnectionAssumption DEF Links, Nodes

\* A datagram is sent.
LEMMA SendGoes ==
  ASSUME NEW w, Fits(w), NEW n, NEW m, NEW p \in Packet
  PROVE  Goes(w, Sent(w, n, m, p), n, {p})
<1> DEFINE l == <<n, m>>
           v == [w EXCEPT ![l] = Append(@, p)]
<1>0. w \in [Links -> Seq(Packet)] /\ IsFiniteSet(Slots(w)) /\ Load(w) <= InFlight
  BY DEF Fits
<1>1. CASE ~(Load(w) < InFlight) \/ l \notin Links
  <2>1. Sent(w, n, m, p) = w
    BY <1>0, <1>1 DEF Sent
  <2> QED
    BY <2>1, GoesNowhere
<1>2. CASE Load(w) < InFlight /\ l \in Links
  <2>1. Sent(w, n, m, p) = v
    BY <1>2 DEF Sent
  <2>2. /\ v \in [Links -> Seq(Packet)] /\ \A k \in Links \ {l} : v[k] = w[k]
        /\ v[l] = Append(w[l], p) /\ w[l] \in Seq(Packet)
    BY <1>0, <1>2
  <2> HIDE DEF l, v
  <2>3. /\ Len(w[l]) \in Nat /\ DOMAIN w[l] = 1..Len(w[l]) /\ DOMAIN v[l] = 1..(Len(w[l]) + 1)
        /\ v[l][Len(w[l]) + 1] = p /\ \A i \in 1..Len(w[l]) : v[l][i] = w[l][i]
    BY <2>2, AppendProperties
  <2>4. Slots(v) = Slots(w) \cup {<<l, Len(w[l]) + 1>>} /\ <<l, Len(w[l]) + 1>> \notin Slots(w)
    <3>1. \A k \in Links \ {l} : {k} \X DOMAIN v[k] = {k} \X DOMAIN w[k]
      BY <2>2
    <3>2. {l} \X DOMAIN v[l] = ({l} \X DOMAIN w[l]) \cup {<<l, Len(w[l]) + 1>>}
      BY <2>3
    <3>3. <<l, Len(w[l]) + 1>> \notin {l} \X DOMAIN w[l]
      BY <2>3
    <3> QED
      BY <1>2, <3>1, <3>2, <3>3 DEF Slots
  <2>5. Fits(v)
    <3>1. IsFiniteSet(Slots(v)) /\ Load(v) = Load(w) + 1 /\ Load(w) \in Nat
      BY <1>0, <2>4, FS_AddElement, FS_CardinalityType DEF Load
    <3> QED
      BY <1>2, <2>2, <3>1, ConnectionAssumption DEF Fits
  <2>6. \A k \in Links : \A q \in ToSet(v[k]) : q \in ToSet(w[k]) \/ (k[1] = n /\ q \in {p})
    <3>1. l[1] = n
      BY DEF l
    <3>2. \A q \in ToSet(v[l]) : q \in ToSet(w[l]) \/ q = p
      BY <2>3 DEF ToSet
    <3> QED
      BY <2>2, <3>1, <3>2
  <2>7. \A c \in Clients : Leaves(n, {p}, c) \/ Calm(w, v, c)
    <3> SUFFICES ASSUME NEW c \in Clients, p.cmd # "disconnect" \/ c # n
                 PROVE  GoodbyesIn(v, c) = GoodbyesIn(w, c)
      BY DEF Calm, Leaves
    <3>1. CASE <<c, Host>> = l
      <4>1. p.cmd # "disconnect"
        BY <3>1 DEF l
      <4> QED
        BY <2>3, <3>1, <4>1 DEF GoodbyesIn
    <3>2. CASE <<c, Host>> # l
      <4>1. v[<<c, Host>>] = w[<<c, Host>>]
        BY <2>2, <3>2, LinksAre
      <4> QED
        BY <4>1 DEF GoodbyesIn
    <3> QED
      BY <3>1, <3>2
  <2> QED
    BY <2>1, <2>5, <2>6, <2>7 DEF Goes
<1> QED
  BY <1>1, <1>2

LEMMA SentElsewhere ==
  ASSUME NEW w, Fits(w), NEW n, NEW m, NEW p, NEW l \in Links \ {<<n, m>>}
  PROVE  Sent(w, n, m, p)[l] = w[l]
BY DEF Sent, Fits

\* A datagram is taken out.
LEMMA TakeGoes ==
  ASSUME NEW w, Fits(w), NEW l \in Links, NEW i \in DOMAIN w[l], NEW n
  PROVE  Goes(w, [w EXCEPT ![l] = RemoveAt(@, i)], n, {})
<1> DEFINE v == [w EXCEPT ![l] = RemoveAt(@, i)]
<1>1. w \in [Links -> Seq(Packet)] /\ IsFiniteSet(Slots(w)) /\ Load(w) <= InFlight /\ w[l] \in Seq(Packet)
  BY DEF Fits
<1>2. /\ RemoveAt(w[l], i) \in Seq(Packet) /\ Len(RemoveAt(w[l], i)) = Len(w[l]) - 1
      /\ \A j \in 1..(Len(w[l]) - 1) : RemoveAt(w[l], i)[j] = IF j < i THEN w[l][j] ELSE w[l][j + 1]
      /\ ToSet(RemoveAt(w[l], i)) \subseteq ToSet(w[l])
  BY <1>1, ToSetRemoveAt
<1>3. /\ v \in [Links -> Seq(Packet)] /\ \A k \in Links \ {l} : v[k] = w[k]
      /\ v[l] = RemoveAt(w[l], i)
  BY <1>1, <1>2
<1> HIDE DEF v
<1>4. /\ Len(w[l]) \in Nat /\ DOMAIN w[l] = 1..Len(w[l]) /\ DOMAIN v[l] = 1..(Len(w[l]) - 1)
      /\ i \in 1..Len(w[l])
  BY <1>1, <1>2, <1>3
<1>5. Fits(v)
  <2>1. Slots(v) \subseteq Slots(w)
    <3>1. \A k \in Links : DOMAIN v[k] \subseteq DOMAIN w[k]
      BY <1>3, <1>4
    <3> QED
      BY <3>1 DEF Slots
  <2>2. IsFiniteSet(Slots(v)) /\ Load(v) <= Load(w) /\ Load(v) \in Nat /\ Load(w) \in Nat
    BY <1>1, <2>1, FS_Subset, FS_CardinalityType DEF Load
  <2> QED
    BY <1>1, <1>3, <2>2, ConnectionAssumption DEF Fits
<1>6. \A k \in Links : ToSet(v[k]) \subseteq ToSet(w[k])
  BY <1>2, <1>3
<1>7. \A c \in Clients : Calm(w, v, c)
  <2> SUFFICES ASSUME NEW c \in Clients
               PROVE  /\ GoodbyesIn(w, c) = {} => GoodbyesIn(v, c) = {}
                      /\ (\A g, h \in GoodbyesIn(w, c) : g = h) => \A g, h \in GoodbyesIn(v, c) : g = h
    BY DEF Calm
  <2>1. CASE <<c, Host>> # l
    <3>1. v[<<c, Host>>] = w[<<c, Host>>]
      BY <1>3, <2>1, LinksAre
    <3> QED
      BY <3>1 DEF GoodbyesIn
  <2>2. CASE <<c, Host>> = l
    <3> DEFINE old(g) == IF g < i THEN g ELSE g + 1
    <3>0. /\ GoodbyesIn(v, c) = {g \in DOMAIN v[l] : v[l][g].cmd = "disconnect"}
          /\ GoodbyesIn(w, c) = {g \in DOMAIN w[l] : w[l][g].cmd = "disconnect"}
      BY <2>2 DEF GoodbyesIn
    <3>1. ASSUME NEW g \in GoodbyesIn(v, c)
          PROVE  g \in 1..(Len(w[l]) - 1) /\ old(g) \in GoodbyesIn(w, c)
      <4>1. g \in 1..(Len(w[l]) - 1) /\ v[l][g].cmd = "disconnect"
        BY <1>4, <3>0
      <4>2. v[l][g] = w[l][old(g)] /\ old(g) \in DOMAIN w[l]
        <5>1. v[l][g] = IF g < i THEN w[l][g] ELSE w[l][g + 1]
          BY <1>2, <1>3, <4>1
        <5>2. g \in Int /\ i \in Int /\ g \in 1..Len(w[l]) /\ g + 1 \in 1..Len(w[l])
          BY <1>4, <4>1
        <5>3. CASE g < i
          BY <1>4, <5>1, <5>2, <5>3
        <5>4. CASE ~(g < i)
          BY <1>4, <5>1, <5>2, <5>4
        <5> QED
          BY <5>3, <5>4
      <4> QED
        BY <3>0, <4>1, <4>2
    <3>2. \A g, h \in 1..(Len(w[l]) - 1) : old(g) = old(h) => g = h
      BY <1>4
    <3> HIDE DEF old
    <3> QED
      BY <3>1, <3>2
  <2> QED
    BY <2>1, <2>2
<1>8. Goes(w, v, n, {})
  BY <1>5, <1>6, <1>7 DEF Goes
<1> QED
  BY <1>8 DEF v

-----------------------------------------------------------------------------
(* The list of peers.                                                      *)

LEMMA PositionIs ==
  ASSUME NEW ps \in Seq(Peer), NEW a
  PROVE  /\ Position(ps, a) \in 0..Len(ps)
         /\ Position(ps, a) # 0 => Position(ps, a) \in DOMAIN ps /\ ps[Position(ps, a)].addr = a
         /\ Position(ps, a) = 0 <=> \A i \in DOMAIN ps : ps[i].addr # a
<1> DEFINE I == {i \in 1..Len(ps) : ps[i].addr = a}
<1>1. Len(ps) \in Nat /\ DOMAIN ps = 1..Len(ps)
  OBVIOUS
<1>2. Position(ps, a) = IF I # {} THEN Min(I) ELSE 0
  BY DEF Position, SelectInSeq
<1>3. I # {} => Min(I) \in I
  <2>1. I \in SUBSET (1..Len(ps))
    OBVIOUS
  <2> HIDE DEF I
  <2> QED
    BY <1>1, <2>1, LeastIndex
<1>4. CASE I = {}
  BY <1>1, <1>2, <1>4
<1>5. CASE I # {}
  <2>1. PICK k : k = Min(I)
    OBVIOUS
  <2>2. k \in 1..Len(ps) /\ ps[k].addr = a /\ Position(ps, a) = k /\ k # 0
    BY <1>2, <1>3, <1>5, <2>1
  <2> QED
    BY <1>1, <2>2
<1> QED
  BY <1>4, <1>5

LEMMA KnowsIs ==
  ASSUME NEW n, peers[n] \in Seq(Peer), NEW a
  PROVE  Knows(n, a) <=> \E i \in Entries(n) : peers[n][i].addr = a
BY PositionIs DEF Knows, Entries

\* A list in which nothing but the silence has changed; in that of a client an
\* entry may be removed.
Alike(n, ps, qs) ==
  /\ ps \in Seq(Peer) /\ qs \in Seq(Peer) /\ Len(qs) = Len(ps)
  /\ \A i \in 1..Len(ps) : /\ qs[i].addr = ps[i].addr /\ qs[i].id = ps[i].id
                           /\ n = Host => qs[i].removed = ps[i].removed

LEMMA HeardIs ==
  ASSUME NEW n, NEW ps \in Seq(Peer), NEW a
  PROVE  Alike(n, ps, Heard(ps, a))
<1> DEFINE k == Position(ps, a)
           qs == [ps EXCEPT ![k].silence = 0]
<1>1. k = 0 \/ k \in DOMAIN ps
  BY PositionIs
<1>2. CASE k = 0
  BY <1>2 DEF Heard, Alike
<1>3. CASE k # 0
  <2>1. Heard(ps, a) = qs
    BY <1>3 DEF Heard
  <2>2. k \in 1..Len(ps) /\ Len(ps) \in Nat /\ \A i \in 1..Len(ps) : ps[i] \in Peer
    BY <1>1, <1>3
  <2> HIDE DEF k
  <2>3. DOMAIN qs = 1..Len(ps) /\ \A i \in 1..Len(ps) :
          qs[i] = IF i = k THEN [ps[k] EXCEPT !.silence = 0] ELSE ps[i]
    BY <2>2
  <2>4. [ps[k] EXCEPT !.silence = 0] \in Peer
    BY <2>2, ConnectionAssumption DEF Peer
  <2>5. qs \in Seq(Peer) /\ Len(qs) = Len(ps)
    BY <2>2, <2>4
  <2>6. \A i \in 1..Len(ps) : /\ qs[i].addr = ps[i].addr /\ qs[i].id = ps[i].id
                              /\ qs[i].removed = ps[i].removed
    BY <2>2, <2>3 DEF Peer
  <2> QED
    BY <2>1, <2>5, <2>6 DEF Alike
<1> QED
  BY <1>2, <1>3

\* removePeer marks an entry.
Marked(ps, k) == [ps EXCEPT ![k].removed = TRUE]

LEMMA MarkedIs ==
  ASSUME NEW ps \in Seq(Peer), NEW k \in DOMAIN ps, NEW qs, qs = Marked(ps, k)
  PROVE  /\ qs \in Seq(Peer) /\ Len(qs) = Len(ps) /\ DOMAIN qs = DOMAIN ps
         /\ \A i \in 1..Len(ps) : /\ qs[i].addr = ps[i].addr /\ qs[i].id = ps[i].id
                                  /\ qs[i].removed = (i = k \/ ps[i].removed)
<1>1. k \in 1..Len(ps) /\ Len(ps) \in Nat /\ \A i \in 1..Len(ps) : ps[i] \in Peer
  OBVIOUS
<1>2. DOMAIN qs = 1..Len(ps) /\ \A i \in 1..Len(ps) :
        qs[i] = IF i = k THEN [ps[k] EXCEPT !.removed = TRUE] ELSE ps[i]
  BY <1>1 DEF Marked
<1>3. [ps[k] EXCEPT !.removed = TRUE] \in Peer
  BY <1>1 DEF Peer
<1>4. qs \in Seq(Peer) /\ Len(qs) = Len(ps)
  BY <1>1, <1>3 DEF Marked
<1>5. \A i \in 1..Len(ps) : /\ qs[i].addr = ps[i].addr /\ qs[i].id = ps[i].id
                           /\ qs[i].removed = (i = k \/ ps[i].removed)
  <2> TAKE i \in 1..Len(ps)
  <2>1. CASE i = k
    <3>1. qs[i] = [ps[k] EXCEPT !.removed = TRUE] /\ ps[k] \in Peer
      BY <1>1, <1>2, <2>1
    <3> QED
      BY <2>1, <3>1 DEF Peer
  <2>2. CASE i # k
    <3>1. qs[i] = ps[i] /\ ps[i].removed \in BOOLEAN
      BY <1>1, <1>2, <2>2 DEF Peer
    <3> QED
      BY <2>2, <3>1
  <2> QED
    BY <2>1, <2>2
<1> QED
  BY <1>2, <1>4, <1>5

\* getFreeID finds one if there is one.
LEMMA FreeIdIs ==
  ASSUME NEW n, Ids(n) \ usedIds[n] # {}
  PROVE  FreeId(n) \in Ids(n) /\ FreeId(n) \notin usedIds[n]
<1> DEFINE free == Ids(n) \ usedIds[n]
           S == {i + 1 : i \in free}
<1>0. MaxPeers(n) \in Nat
  BY ConnectionAssumption DEF MaxPeers
<1>1. S \in SUBSET (1..(MaxPeers(n) + 1)) /\ S # {}
  BY <1>0 DEF Ids
<1>2. Min(S) \in S /\ \A i \in S : Min(S) <= i
  <2>1. MaxPeers(n) + 1 \in Nat
    BY <1>0
  <2> HIDE DEF S
  <2> QED
    BY <1>1, <2>1, LeastIndex
<1>3. PICK i \in free : \A j \in free : i + 1 <= j + 1
  BY <1>2
<1>4. \A j \in free : i <= j
  BY <1>0, <1>3 DEF Ids
<1> QED
  BY <1>4 DEF FreeId

-----------------------------------------------------------------------------
(* Sending to a whole list.                                                *)

Unfolds(s, w, n, ps, p) ==
  /\ s[0] = w
  /\ \A k \in 1..Len(ps) :
       s[k] = IF ps[k].removed THEN s[k - 1] ELSE Sent(s[k - 1], n, ps[k].addr, p)

LEMMA SentToFirstIs ==
  ASSUME NEW w, Fits(w), NEW n, NEW ps \in Seq(Peer), NEW p \in Packet
  PROVE  /\ Unfolds(SentToFirst(w, n, ps, p), w, n, ps, p)
         /\ \A k \in 0..Len(ps) : Goes(w, SentToFirst(w, n, ps, p)[k], n, {p})
<1> DEFINE N == Len(ps)
           Step(v, k) == IF ps[k].removed THEN v ELSE Sent(v, n, ps[k].addr, p)
           Is(s) == s = [k \in 0..N |-> IF k = 0 THEN w ELSE Step(s[k - 1], k)]
           G == {v \in [Links -> Seq(Packet)] : Goes(w, v, n, {p})}
           s == SentToFirst(w, n, ps, p)
<1>0. N \in Nat
  OBVIOUS
<1>1. w \in G
  BY GoesNowhere DEF Fits
<1>2. ASSUME NEW v \in G, NEW k \in 1..N
      PROVE  Step(v, k) \in G
  <2>1. CASE ps[k].removed
    BY <2>1
  <2>2. CASE ~ps[k].removed
    <3> DEFINE u == Sent(v, n, ps[k].addr, p)
    <3>1. Goes(w, v, n, {p}) /\ Fits(v)
      BY DEF Goes
    <3>2. Goes(v, u, n, {p})
      BY <3>1, SendGoes
    <3>3. {p} \cup {p} = {p}
      OBVIOUS
    <3> HIDE DEF u
    <3>4. Goes(w, u, n, {p})
      BY <3>1, <3>2, <3>3, GoesFurther
    <3>5. u \in [Links -> Seq(Packet)]
      BY <3>4 DEF Goes, Fits
    <3>6. u \in G
      BY <3>4, <3>5
    <3> QED
      BY <2>2, <3>6 DEF u
  <2> QED
    BY <2>1, <2>2
<1>3. s = CHOOSE f : Is(f)
  BY DEF SentToFirst
<1> HIDE DEF G, Step
<1>4. \E f : Is(f)
  <2> DEFINE W == [k \in 0..N |-> G]
             F == [k \in 1..N |-> [v \in G |-> Step(v, k)]]
  <2>1. w \in W[0] /\ \A k \in 1..N : \A v \in W[k - 1] : F[k][v] \in W[k]
    BY <1>0, <1>1, <1>2
  <2>2. /\ \A k \in 0..N : W[k] = G
        /\ \A k \in 1..N : \A v \in G : F[k][v] = Step(v, k)
    OBVIOUS
  <2> HIDE DEF W, F, N
  <2>3. PICK f : Iterates(f, N, W, F, w)
    BY <1>0, <2>1, Iterated
  <2>4. \A k \in 0..N : f[k] = IF k = 0 THEN w ELSE Step(f[k - 1], k)
    <3> TAKE k \in 0..N
    <3>1. CASE k = 0
      BY <2>3, <3>1 DEF Iterates
    <3>2. CASE k # 0
      <4>1. k \in 1..N /\ k - 1 \in 0..N
        BY <1>0, <3>2
      <4>2. f[k - 1] \in G
        BY <2>2, <2>3, <4>1 DEF Iterates
      <4>3. f[k] = Step(f[k - 1], k)
        BY <2>2, <2>3, <4>1, <4>2 DEF Iterates
      <4> QED
        BY <3>2, <4>3
    <3> QED
      BY <3>1, <3>2
  <2>5. Is(f)
    BY <2>3, <2>4 DEF Iterates
  <2> QED
    BY <2>5
<1>5. Is(s)
  <2> HIDE DEF s, Is
  <2> QED
    BY <1>3, <1>4
<1> HIDE DEF s
<1>6. s[0] = w /\ \A k \in 1..N : s[k] = Step(s[k - 1], k)
  BY <1>0, <1>5
<1>7. \A k \in 0..N : s[k] \in G
  <2> DEFINE S == {k \in 0..N : s[k] \in G}
  <2>1. 0 \in S
    BY <1>0, <1>1, <1>6
  <2>2. ASSUME NEW k \in 0..(N - 1), k \in S
        PROVE  k + 1 \in S
    <3>1. k + 1 \in 1..N /\ k + 1 \in 0..N /\ (k + 1) - 1 = k
      BY <1>0
    <3>2. s[k + 1] = Step(s[k], k + 1)
      BY <1>6, <3>1
    <3> QED
      BY <1>2, <2>2, <3>1, <3>2
  <2>3. 0..N \subseteq S
    <3> HIDE DEF S, N
    <3> QED
      BY <1>0, <2>1, <2>2, GoesOn
  <2> QED
    BY <2>3
<1>8. Unfolds(s, w, n, ps, p)
  BY <1>6 DEF Unfolds, Step
<1> QED
  BY <1>7, <1>8 DEF G, s

LEMMA SendToAllGoes ==
  ASSUME NEW w, Fits(w), NEW n, NEW ps \in Seq(Peer), NEW p \in Packet
  PROVE  Goes(w, SentToAll(w, n, ps, p), n, {p})
<1>1. Len(ps) \in 0..Len(ps)
  OBVIOUS
<1> QED
  BY <1>1, SentToFirstIs DEF SentToAll

-----------------------------------------------------------------------------
(* processClients.                                                         *)

\* What a visit sends, and what of the first k entries of ps may be left in qs.
VisitPackets(ps) ==
  {[cmd |-> "ping"]} \cup {[cmd |-> "peer_disconnect", addr |-> ps[i].addr] : i \in DOMAIN ps}

Stays(ps, k, qs) ==
  /\ qs \in Seq(Peer) /\ Len(qs) <= k
  /\ \E g \in [1..Len(qs) -> 1..k] :
       /\ \A i, j \in 1..Len(qs) : i < j => g[i] < g[j]
       /\ \A i \in 1..Len(qs) : /\ qs[i].addr = ps[g[i]].addr /\ qs[i].id = ps[g[i]].id
                                /\ ~qs[i].removed /\ ~ps[g[i]].removed

LEMMA NothingStays ==
  ASSUME NEW ps, NEW qs \in Seq(Peer), Len(qs) = 0
  PROVE  Stays(ps, 0, qs)
<1>1. PICK g \in [1..0 -> 1..0] : TRUE
  <2>1. [i \in 1..0 |-> 0] \in [1..0 -> 1..0]
    OBVIOUS
  <2> QED
    BY <2>1
<1>2. \A i \in 1..Len(qs) : FALSE
  OBVIOUS
<1>3. g \in [1..Len(qs) -> 1..0] /\ Len(qs) <= 0
  OBVIOUS
<1> QED
  BY <1>2, <1>3 DEF Stays

LEMMA StaysOn ==
  ASSUME NEW ps, NEW k \in Nat \ {0}, NEW qs, Stays(ps, k - 1, qs)
  PROVE  Stays(ps, k, qs)
<1>1. PICK g \in [1..Len(qs) -> 1..(k - 1)] :
         /\ \A i, j \in 1..Len(qs) : i < j => g[i] < g[j]
         /\ \A i \in 1..Len(qs) : /\ qs[i].addr = ps[g[i]].addr /\ qs[i].id = ps[g[i]].id
                                  /\ ~qs[i].removed /\ ~ps[g[i]].removed
  BY DEF Stays
<1>2. g \in [1..Len(qs) -> 1..k]
  BY <1>1
<1>3. qs \in Seq(Peer) /\ Len(qs) <= k
  BY DEF Stays
<1> QED
  BY <1>1, <1>2, <1>3 DEF Stays

LEMMA StaysToo ==
  ASSUME NEW ps, NEW k \in Nat \ {0}, NEW qs, Stays(ps, k - 1, qs), ~ps[k].removed,
         NEW e \in Peer, e.addr = ps[k].addr, e.id = ps[k].id, ~e.removed
  PROVE  Stays(ps, k, Append(qs, e))
<1>1. PICK g \in [1..Len(qs) -> 1..(k - 1)] :
         /\ \A i, j \in 1..Len(qs) : i < j => g[i] < g[j]
         /\ \A i \in 1..Len(qs) : /\ qs[i].addr = ps[g[i]].addr /\ qs[i].id = ps[g[i]].id
                                  /\ ~qs[i].removed /\ ~ps[g[i]].removed
  BY DEF Stays
<1>2. qs \in Seq(Peer) /\ Len(qs) <= k - 1 /\ Len(qs) \in Nat
  BY DEF Stays
<1> DEFINE rs == Append(qs, e)
           n == Len(qs) + 1
           h == [i \in 1..n |-> IF i = n THEN k ELSE g[i]]
<1>3. /\ rs \in Seq(Peer) /\ Len(rs) = n /\ n <= k /\ rs[n] = e
      /\ \A i \in 1..Len(qs) : rs[i] = qs[i]
  BY <1>2, AppendProperties
<1>4. \A i \in 1..n : i = n \/ i \in 1..Len(qs)
  BY <1>2
<1>5. \A i \in 1..Len(qs) : i # n /\ g[i] \in 1..(k - 1) /\ i \in 1..n
  BY <1>1, <1>2
<1>6. h[n] = k /\ \A i \in 1..Len(qs) : h[i] = g[i]
  BY <1>2, <1>5
<1>7. h \in [1..n -> 1..k]
  BY <1>4, <1>5
<1> HIDE DEF h, rs
<1>8. \A i, j \in 1..n : i < j => h[i] < h[j]
  <2> SUFFICES ASSUME NEW i \in 1..n, NEW j \in 1..n, i < j PROVE h[i] < h[j]
    OBVIOUS
  <2>1. i \in 1..Len(qs)
    BY <1>2
  <2>2. CASE j = n
    BY <1>5, <1>6, <2>1, <2>2
  <2>3. CASE j \in 1..Len(qs)
    BY <1>1, <1>6, <2>1, <2>3
  <2> QED
    BY <1>4, <2>2, <2>3
<1>9. \A i \in 1..n : /\ rs[i].addr = ps[h[i]].addr /\ rs[i].id = ps[h[i]].id
                      /\ ~rs[i].removed /\ ~ps[h[i]].removed
  <2> HIDE DEF n
  <2> QED
    BY <1>1, <1>3, <1>4, <1>6
<1> QED
  BY <1>3, <1>7, <1>8, <1>9 DEF Stays, rs

\* One visit.
VisitsTo(n, k) ==
  {v \in [net : [Links -> Seq(Packet)], kept : Seq(Peer), left : Seq(Peer)] :
     /\ Goes(net, v.net, n, VisitPackets(peers[n]))
     /\ Stays(peers[n], k, v.kept)
     /\ Len(v.left) = Len(peers[n]) - k}

LEMMA VisitIs ==
  ASSUME TypeOK, Fits(net), NEW n \in Nodes, NEW elapsed \in 0..1, NEW k \in 1..Len(peers[n]),
         NEW w \in VisitsTo(n, k - 1)
  PROVE  VisitPeer(n, w, peers[n][k], elapsed) \in VisitsTo(n, k)
<1> DEFINE ps == peers[n]
           e == ps[k]
           v == VisitPeer(n, w, e, elapsed)
           P == VisitPackets(ps)
<1>1. /\ ps \in Seq(Peer) /\ Len(ps) \in Nat /\ e \in Peer /\ k \in DOMAIN ps /\ k \in Nat \ {0}
      /\ peers[n] \in Seq(Peer)
  BY DEF TypeOK
<1>2. /\ w = [net |-> w.net, kept |-> w.kept, left |-> w.left]
      /\ w.net \in [Links -> Seq(Packet)] /\ w.kept \in Seq(Peer) /\ w.left \in Seq(Peer)
      /\ Goes(net, w.net, n, P) /\ Stays(ps, k - 1, w.kept) /\ Len(w.left) = Len(ps) - (k - 1)
  BY DEF VisitsTo
<1>3. Tail(w.left) \in Seq(Peer) /\ Len(Tail(w.left)) = Len(ps) - k
  <2>1. w.left # <<>>
    BY <1>1, <1>2
  <2> QED
    BY <1>1, <1>2, <2>1
<1>4. Fits(w.net)
  BY <1>2 DEF Goes
<1>5. /\ [cmd |-> "ping"] \in Packet /\ [cmd |-> "ping"] \in P
      /\ [cmd |-> "peer_disconnect", addr |-> e.addr] \in Packet
      /\ [cmd |-> "peer_disconnect", addr |-> e.addr] \in P
  BY <1>1 DEF VisitPackets, Packet, Peer
<1>6. ASSUME NEW x, NEW q \in P, Goes(w.net, x, n, {q})
      PROVE  Goes(net, x, n, P) /\ x \in [Links -> Seq(Packet)]
  <2>1. Goes(net, x, n, P \cup {q}) /\ P \cup {q} = P
    BY <1>2, <1>6, GoesFurther
  <2> QED
    BY <1>6, <2>1 DEF Goes, Fits
<1>7. ASSUME NEW x, NEW kept,
             v = [net |-> x, kept |-> kept, left |-> Tail(w.left)],
             x \in [Links -> Seq(Packet)], Goes(net, x, n, P), Stays(ps, k, kept)
      PROVE  v \in VisitsTo(n, k)
  <2>1. kept \in Seq(Peer)
    BY <1>7 DEF Stays
  <2> HIDE DEF v
  <2> QED
    BY <1>3, <1>7, <2>1 DEF VisitsTo
<1>8. CASE e.removed
  <2>1. v = [net |-> w.net, kept |-> w.kept, left |-> Tail(w.left)]
    BY <1>2, <1>8 DEF VisitPeer
  <2>2. Stays(ps, k, w.kept)
    BY <1>1, <1>2, StaysOn
  <2> QED
    BY <1>2, <1>7, <2>1, <2>2
<1>9. CASE ~e.removed /\ Late(e, elapsed)
  <2> DEFINE q == [cmd |-> "peer_disconnect", addr |-> e.addr]
             x == SentToAll(w.net, n, w.kept \o w.left, q)
  <2>1. v = [net |-> x, kept |-> w.kept, left |-> Tail(w.left)]
    BY <1>2, <1>9 DEF VisitPeer
  <2>2. Stays(ps, k, w.kept)
    BY <1>1, <1>2, StaysOn
  <2>3. w.kept \o w.left \in Seq(Peer)
    BY <1>2
  <2>4. Goes(w.net, x, n, {q})
    BY <1>4, <1>5, <2>3, SendToAllGoes
  <2> HIDE DEF x, q
  <2>5. Goes(net, x, n, P) /\ x \in [Links -> Seq(Packet)]
    BY <1>5, <1>6, <2>4 DEF q
  <2> QED
    BY <1>7, <2>1, <2>2, <2>5
<1>10. CASE ~e.removed /\ ~Late(e, elapsed)
  <2> DEFINE x == IF elapsed > 0 THEN Sent(w.net, n, e.addr, [cmd |-> "ping"]) ELSE w.net
  <2>1. v = [net |-> x, kept |-> Append(w.kept, Waited(e, elapsed)), left |-> Tail(w.left)]
    BY <1>2, <1>10 DEF VisitPeer
  <2>2. /\ Waited(e, elapsed) \in Peer /\ Waited(e, elapsed).addr = e.addr
        /\ Waited(e, elapsed).id = e.id /\ ~Waited(e, elapsed).removed
    BY <1>1, <1>10, ConnectionAssumption DEF Waited, Late, Peer
  <2>3. Stays(ps, k, Append(w.kept, Waited(e, elapsed)))
    BY <1>1, <1>2, <1>10, <2>2, StaysToo
  <2>4. Goes(net, x, n, P) /\ x \in [Links -> Seq(Packet)]
    <3>1. CASE elapsed > 0
      <4>1. Goes(w.net, Sent(w.net, n, e.addr, [cmd |-> "ping"]), n, {[cmd |-> "ping"]})
        BY <1>4, <1>5, SendGoes
      <4> QED
        BY <1>5, <1>6, <3>1, <4>1
    <3>2. CASE ~(elapsed > 0)
      BY <1>2, <3>2
    <3> QED
      BY <3>1, <3>2
  <2> HIDE DEF x
  <2> QED
    BY <1>7, <2>1, <2>3, <2>4
<1> QED
  BY <1>8, <1>9, <1>10

LEMMA VisitsAre ==
  ASSUME TypeOK, Fits(net), NEW n \in Nodes, NEW elapsed \in 0..1
  PROVE  Visits(n, elapsed)[Len(peers[n])] \in VisitsTo(n, Len(peers[n]))
<1> DEFINE N == Len(peers[n])
           a == [net |-> net, kept |-> <<>>, left |-> peers[n]]
           Step(v, k) == VisitPeer(n, v, peers[n][k], elapsed)
           Is(s) == s = [k \in 0..N |-> IF k = 0 THEN a ELSE Step(s[k - 1], k)]
           s == Visits(n, elapsed)
<1>0. N \in Nat /\ peers[n] \in Seq(Peer)
  BY DEF TypeOK
<1>1. a \in VisitsTo(n, 0)
  <2>1. Goes(net, net, n, VisitPackets(peers[n]))
    BY GoesNowhere
  <2>2. Stays(peers[n], 0, <<>>)
    <3>1. <<>> \in Seq(Peer) /\ Len(<<>>) = 0
      OBVIOUS
    <3> QED
      BY <3>1, NothingStays
  <2>3. net \in [Links -> Seq(Packet)] /\ <<>> \in Seq(Peer) /\ N = N - 0
    BY <1>0 DEF Fits
  <2> QED
    BY <1>0, <2>1, <2>2, <2>3 DEF VisitsTo
<1>2. ASSUME NEW k \in 1..N, NEW v \in VisitsTo(n, k - 1)
      PROVE  Step(v, k) \in VisitsTo(n, k)
  BY VisitIs
<1>3. s = CHOOSE f : Is(f)
  BY DEF Visits
<1> HIDE DEF a, Step
<1>4. \E f : Is(f)
  <2> DEFINE W == [k \in 0..N |-> VisitsTo(n, k)]
             F == [k \in 1..N |-> [v \in VisitsTo(n, k - 1) |-> Step(v, k)]]
  <2>1. \A k \in 1..N : k - 1 \in 0..N /\ k \in 0..N
    BY <1>0
  <2>2. /\ \A k \in 0..N : W[k] = VisitsTo(n, k)
        /\ \A k \in 1..N : \A v \in VisitsTo(n, k - 1) : F[k][v] = Step(v, k)
    OBVIOUS
  <2> HIDE DEF W, F, N
  <2>3. a \in W[0] /\ \A k \in 1..N : \A v \in W[k - 1] : F[k][v] \in W[k]
    BY <1>0, <1>1, <1>2, <2>1, <2>2
  <2>4. PICK f : Iterates(f, N, W, F, a)
    BY <1>0, <2>3, Iterated
  <2>5. \A k \in 0..N : f[k] = IF k = 0 THEN a ELSE Step(f[k - 1], k)
    <3> TAKE k \in 0..N
    <3>1. CASE k = 0
      BY <2>4, <3>1 DEF Iterates
    <3>2. CASE k # 0
      <4>1. k \in 1..N /\ k - 1 \in 0..N
        BY <1>0, <3>2
      <4>2. f[k - 1] \in VisitsTo(n, k - 1)
        BY <2>2, <2>4, <4>1 DEF Iterates
      <4>3. f[k] = Step(f[k - 1], k)
        BY <2>2, <2>4, <4>1, <4>2 DEF Iterates
      <4> QED
        BY <3>2, <4>3
    <3> QED
      BY <3>1, <3>2
  <2>6. Is(f)
    BY <2>4, <2>5 DEF Iterates
  <2> QED
    BY <2>6
<1>5. Is(s)
  <2> HIDE DEF s, Is
  <2> QED
    BY <1>3, <1>4
<1> HIDE DEF s
<1>6. s[0] = a /\ \A k \in 1..N : s[k] = Step(s[k - 1], k)
  BY <1>0, <1>5
<1> DEFINE S == {k \in 0..N : s[k] \in VisitsTo(n, k)}
<1>7. 0 \in S
  BY <1>0, <1>1, <1>6
<1>8. ASSUME NEW k \in 0..(N - 1), k \in S
      PROVE  k + 1 \in S
  <2>1. k + 1 \in 1..N /\ k + 1 \in 0..N /\ (k + 1) - 1 = k
    BY <1>0
  <2>2. s[k + 1] = Step(s[k], k + 1)
    BY <1>6, <2>1
  <2> QED
    BY <1>2, <1>8, <2>1, <2>2
<1>9. 0..N \subseteq S
  <2> HIDE DEF S, N
  <2> QED
    BY <1>0, <1>7, <1>8, GoesOn
<1>10. N \in 0..N
  BY <1>0
<1> QED
  BY <1>9, <1>10 DEF s

-----------------------------------------------------------------------------
(* What a step does to the list of a socket.  Most steps only thin it out. *)

Thins(n, ps, qs) ==
  /\ qs \in Seq(Peer) /\ Len(qs) <= Len(ps)
  /\ \E g \in [1..Len(qs) -> 1..Len(ps)] :
       /\ \A i, j \in 1..Len(qs) : i < j => g[i] < g[j]
       /\ \A i \in 1..Len(qs) : /\ qs[i].addr = ps[g[i]].addr /\ qs[i].id = ps[g[i]].id
                                /\ n = Host => qs[i].removed = ps[g[i]].removed

LEMMA StayingThins ==
  ASSUME NEW n, NEW ps \in Seq(Peer), NEW qs, Stays(ps, Len(ps), qs)
  PROVE  Thins(n, ps, qs)
<1>1. PICK g \in [1..Len(qs) -> 1..Len(ps)] :
         /\ \A i, j \in 1..Len(qs) : i < j => g[i] < g[j]
         /\ \A i \in 1..Len(qs) : /\ qs[i].addr = ps[g[i]].addr /\ qs[i].id = ps[g[i]].id
                                  /\ ~qs[i].removed /\ ~ps[g[i]].removed
  BY DEF Stays
<1>2. qs \in Seq(Peer) /\ Len(qs) <= Len(ps)
  BY DEF Stays
<1>3. ASSUME NEW i \in 1..Len(qs)
      PROVE  qs[i].removed = ps[g[i]].removed
  <2>1. qs[i] \in Peer /\ ps[g[i]] \in Peer
    BY <1>1, <1>2
  <2>2. qs[i].removed \in BOOLEAN /\ ps[g[i]].removed \in BOOLEAN
    BY <2>1 DEF Peer
  <2> QED
    BY <1>1, <2>2
<1> QED
  BY <1>1, <1>2, <1>3 DEF Thins

LEMMA AlikeThins ==
  ASSUME NEW n, NEW ps, NEW qs, Alike(n, ps, qs)
  PROVE  Thins(n, ps, qs)
<1>1. /\ qs \in Seq(Peer) /\ Len(qs) \in Nat /\ Len(qs) <= Len(ps) /\ Len(qs) = Len(ps)
      /\ \A i \in 1..Len(ps) : /\ qs[i].addr = ps[i].addr /\ qs[i].id = ps[i].id
                               /\ n = Host => qs[i].removed = ps[i].removed
  BY DEF Alike
<1>2. [i \in 1..Len(qs) |-> i] \in [1..Len(qs) -> 1..Len(ps)]
  BY <1>1
<1>3. PICK g \in [1..Len(qs) -> 1..Len(ps)] : \A i \in 1..Len(qs) : g[i] = i
  BY <1>2
<1>4. \A i, j \in 1..Len(qs) : i < j => g[i] < g[j]
  BY <1>3
<1>5. \A i \in 1..Len(qs) : /\ qs[i].addr = ps[g[i]].addr /\ qs[i].id = ps[g[i]].id
                            /\ n = Host => qs[i].removed = ps[g[i]].removed
  BY <1>1, <1>3
<1> QED
  BY <1>1, <1>4, <1>5 DEF Thins

LEMMA EmptyThins ==
  ASSUME NEW n, NEW ps \in Seq(Peer), NEW qs \in Seq(Peer), Len(qs) = 0
  PROVE  Thins(n, ps, qs)
<1>1. PICK g \in [1..0 -> 1..Len(ps)] : TRUE
  <2>1. [i \in 1..0 |-> 0] \in [1..0 -> 1..Len(ps)]
    OBVIOUS
  <2> QED
    BY <2>1
<1>2. \A i \in 1..Len(qs) : FALSE
  OBVIOUS
<1>3. g \in [1..Len(qs) -> 1..Len(ps)] /\ Len(qs) <= Len(ps)
  OBVIOUS
<1> QED
  BY <1>2, <1>3 DEF Thins

\* What is left comes from different entries that say the same.
Comes(n, ps, qs, g) ==
  /\ \A i, j \in DOMAIN qs : i # j => g[i] # g[j]
  /\ \A i \in DOMAIN qs : /\ qs[i].addr = ps[g[i]].addr /\ qs[i].id = ps[g[i]].id
                          /\ n = Host => qs[i].removed = ps[g[i]].removed

LEMMA ThinsFrom ==
  ASSUME NEW n, NEW ps \in Seq(Peer), NEW qs, Thins(n, ps, qs)
  PROVE  \E g \in [DOMAIN qs -> DOMAIN ps] : Comes(n, ps, qs, g)
<1>1. qs \in Seq(Peer) /\ DOMAIN qs = 1..Len(qs) /\ DOMAIN ps = 1..Len(ps)
      /\ Len(qs) \in Nat /\ Len(ps) \in Nat
  BY DEF Thins
<1>2. PICK g \in [1..Len(qs) -> 1..Len(ps)] :
         /\ \A i, j \in 1..Len(qs) : i < j => g[i] < g[j]
         /\ \A i \in 1..Len(qs) : /\ qs[i].addr = ps[g[i]].addr /\ qs[i].id = ps[g[i]].id
                                  /\ n = Host => qs[i].removed = ps[g[i]].removed
  BY DEF Thins
<1>3. \A i, j \in 1..Len(qs) : i # j => g[i] # g[j]
  <2> SUFFICES ASSUME NEW i \in 1..Len(qs), NEW j \in 1..Len(qs), i # j PROVE g[i] # g[j]
    OBVIOUS
  <2>1. g[i] \in 1..Len(ps) /\ g[j] \in 1..Len(ps)
    BY <1>2
  <2>2. i < j \/ j < i
    BY <1>1
  <2>3. g[i] < g[j] \/ g[j] < g[i]
    BY <1>2, <2>2
  <2> QED
    BY <1>1, <2>1, <2>3
<1>4. Comes(n, ps, qs, g)
  BY <1>1, <1>2, <1>3 DEF Comes
<1> QED
  BY <1>1, <1>4

LEMMA ThinsEmpty ==
  ASSUME NEW n, NEW ps, NEW qs, Thins(n, ps, qs), ps = <<>>
  PROVE  qs = <<>>
BY DEF Thins

\* What socket n may send in its role.
Proper(n, P) ==
  \A p \in P : IF n = Host THEN p.cmd # "peerinfo_replay"
               ELSE p.cmd # "connect_accept" /\ (p.cmd = "peer_disconnect" => p.addr = Host)

\* A step of socket n that serves nobody new and takes no leave.
PlainStep(n) ==
  /\ open' = open
  /\ usedIds' \in [Nodes -> SUBSET AllIds] /\ usedIds'[Host] = usedIds[Host]
  /\ \E qs : Thins(n, peers[n], qs) /\ peers' = [peers EXCEPT ![n] = qs]
  /\ \E P : /\ Goes(net, net', n, P) /\ Proper(n, P)
            /\ \A p \in P : p.cmd \notin {"connect_accept", "disconnect"}

RequestFields ==
  /\ request \in [Clients -> Passwords \cup {"none"}]
  /\ attempts \in [Clients -> 0..MaxRequest]
  /\ failed \subseteq Clients

RequestTypes == RequestFields /\ twice \subseteq Clients

LEMMA TypesKept ==
  ASSUME Types, NEW n \in Nodes, NEW qs \in Seq(Peer), Len(qs) <= MaxPeers(n),
         \A i \in DOMAIN qs : <<n, qs[i].addr>> \in Links,
         peers' = [peers EXCEPT ![n] = qs],
         NEW P, Goes(net, net', n, P), Proper(n, P),
         usedIds' \in [Nodes -> SUBSET AllIds], open' \subseteq Nodes, RequestTypes'
  PROVE  Types'
<1>1. /\ peers \in [Nodes -> Seq(Peer)] /\ \A m \in Nodes : Len(peers[m]) <= MaxPeers(m)
      /\ Fits(net) /\ Roles
  BY DEF Types, TypeOK
<1>2. peers' \in [Nodes -> Seq(Peer)] /\ peers'[n] = qs /\ \A m \in Nodes \ {n} : peers'[m] = peers[m]
  BY <1>1
<1>3. Fits(net')
  BY DEF Goes
<1>4. \A m \in Nodes : Len(peers'[m]) <= MaxPeers(m)
  BY <1>1, <1>2
<1>5. TypeOK'
  BY <1>2, <1>3, <1>4 DEF TypeOK, Fits, RequestTypes, RequestFields, MaxPeers
<1>6. Roles'
  <2>1. \A m \in Nodes : \A i \in DOMAIN peers'[m] : <<m, peers'[m][i].addr>> \in Links
    BY <1>1, <1>2 DEF Roles, Entries
  <2>2. ASSUME NEW c \in Clients, NEW p \in ToSet(net'[<<Host, c>>])
        PROVE  p.cmd # "peerinfo_replay"
    <3>1. p \in ToSet(net[<<Host, c>>]) \/ (n = Host /\ p \in P)
      BY <2>2, LinksAre DEF Goes
    <3> QED
      BY <1>1, <3>1 DEF Roles, InFlightTo, Proper
  <2>3. ASSUME NEW c \in Clients, NEW p \in ToSet(net'[<<c, Host>>])
        PROVE  p.cmd # "connect_accept" /\ (p.cmd = "peer_disconnect" => p.addr = Host)
    <3>1. (p \in ToSet(net[<<c, Host>>]) \/ (n = c /\ p \in P)) /\ c # Host
      BY <2>3, LinksAre DEF Goes
    <3> QED
      BY <1>1, <3>1 DEF Roles, InFlightTo, Proper
  <2> QED
    BY <2>1, <2>2, <2>3 DEF Roles, Entries, InFlightTo
<1> QED
  BY <1>3, <1>5, <1>6 DEF Types

LEMMA PlainTypes ==
  ASSUME Types, NEW n \in Nodes, PlainStep(n), RequestTypes'
  PROVE  Types'
<1>1. PICK qs : Thins(n, peers[n], qs) /\ peers' = [peers EXCEPT ![n] = qs]
  BY DEF PlainStep
<1>2. PICK P : Goes(net, net', n, P) /\ Proper(n, P)
  BY DEF PlainStep
<1>3. /\ peers[n] \in Seq(Peer) /\ Len(peers[n]) <= MaxPeers(n) /\ Len(peers[n]) \in Nat
      /\ MaxPeers(n) \in Nat /\ \A i \in DOMAIN peers[n] : <<n, peers[n][i].addr>> \in Links
  BY ConnectionAssumption DEF Types, TypeOK, Roles, Entries, MaxPeers
<1>4. qs \in Seq(Peer) /\ Len(qs) <= MaxPeers(n) /\ \A i \in DOMAIN qs : <<n, qs[i].addr>> \in Links
  <2>0. qs \in Seq(Peer) /\ Len(qs) <= Len(peers[n])
    BY <1>1 DEF Thins
  <2>1. Len(qs) <= Len(peers[n]) /\ Len(qs) \in Nat
    BY <2>0
  <2>2. \A i \in DOMAIN qs : \E j \in DOMAIN peers[n] : qs[i].addr = peers[n][j].addr
    <3>1. PICK g \in [DOMAIN qs -> DOMAIN peers[n]] : Comes(n, peers[n], qs, g)
      BY <1>1, <1>3, ThinsFrom
    <3> QED
      BY <3>1 DEF Comes
  <2>3. Len(qs) <= MaxPeers(n)
    BY <1>3, <2>1
  <2>4. ASSUME NEW i \in DOMAIN qs
        PROVE  <<n, qs[i].addr>> \in Links
    <3>1. PICK j \in DOMAIN peers[n] : qs[i].addr = peers[n][j].addr
      BY <2>2
    <3>2. <<n, peers[n][j].addr>> \in Links
      BY <1>3
    <3> QED
      BY <3>1, <3>2
  <2> QED
    BY <2>0, <2>3, <2>4
<1>5. usedIds' \in [Nodes -> SUBSET AllIds] /\ open' \subseteq Nodes
  BY DEF PlainStep, Types, TypeOK
<1> QED
  BY <1>1, <1>2, <1>4, <1>5, TypesKept

-----------------------------------------------------------------------------
(* The plain steps.                                                        *)

\* Socket n has taken p, which socket from sent it, out of the network.
Receipt(n, from, p, rest) ==
  /\ <<from, n>> \in Links /\ n \in Nodes /\ from \in Nodes
  /\ p \in Packet /\ p \in InFlightTo(<<from, n>>)
  /\ Goes(net, rest, n, {})

LEMMA Receipts ==
  ASSUME Types, NEW l \in Links, NEW i \in Arrivals(l)
  PROVE  /\ i \in DOMAIN net[l] /\ Goes(net, Without(l, i), l[1], {})
         /\ Receipt(l[2], l[1], net[l][i], Without(l, i))
<1>1. net[l] \in Seq(Packet) /\ Fits(net) /\ i \in DOMAIN net[l]
  BY DEF Types, TypeOK, Arrivals
<1>2. net[l][i] \in Packet /\ net[l][i] \in InFlightTo(l)
  BY <1>1 DEF InFlightTo, ToSet
<1>3. Goes(net, Without(l, i), l[1], {}) /\ Goes(net, Without(l, i), l[2], {})
  BY <1>1, TakeGoes DEF Without
<1>4. l = <<l[1], l[2]>> /\ l[1] \in Nodes /\ l[2] \in Nodes
  BY LinksAre DEF Nodes
<1> QED
  BY <1>1, <1>2, <1>3, <1>4 DEF Receipt

\* What n answers goes out; it may also answer nothing.
LEMMA AnswerGoes ==
  ASSUME NEW n, NEW from, NEW p, NEW rest, Receipt(n, from, p, rest),
         NEW m, NEW q \in Packet
  PROVE  Goes(net, Sent(rest, n, m, q), n, {q})
<1>1. Goes(net, rest, n, {}) /\ Fits(rest)
  BY DEF Receipt, Goes
<1>2. Goes(rest, Sent(rest, n, m, q), n, {q})
  BY <1>1, SendGoes
<1>3. Goes(net, Sent(rest, n, m, q), n, {} \cup {q})
  BY <1>1, <1>2, GoesFurther
<1>4. {} \cup {q} = {q}
  OBVIOUS
<1> QED
  BY <1>3, <1>4

LEMMA HeardThins ==
  ASSUME Types, NEW n \in Nodes, NEW a
  PROVE  Thins(n, peers[n], Heard(peers[n], a))
<1>1. peers[n] \in Seq(Peer)
  BY DEF Types, TypeOK
<1> QED
  BY <1>1, HeardIs, AlikeThins

LEMMA SameThins ==
  ASSUME Types, NEW n \in Nodes
  PROVE  Thins(n, peers[n], peers[n]) /\ peers = [peers EXCEPT ![n] = peers[n]]
<1>1. peers[n] \in Seq(Peer) /\ peers \in [Nodes -> Seq(Peer)]
  BY DEF Types, TypeOK
<1>2. Alike(n, peers[n], peers[n])
  BY <1>1 DEF Alike
<1> QED
  BY <1>1, <1>2, AlikeThins

\* A step is plain when the list is thinned out and nothing special is sent.
LEMMA IsPlain ==
  ASSUME Types, NEW n \in Nodes, NEW qs, Thins(n, peers[n], qs),
         peers' = [peers EXCEPT ![n] = qs], open' = open, usedIds' = usedIds,
         NEW P, Goes(net, net', n, P), Proper(n, P),
         \A p \in P : p.cmd \notin {"connect_accept", "disconnect"}
  PROVE  PlainStep(n)
BY DEF PlainStep, Types, TypeOK

\* Nothing is sent.
LEMMA IsSilent ==
  ASSUME Types, NEW n \in Nodes, NEW qs, Thins(n, peers[n], qs),
         peers' = [peers EXCEPT ![n] = qs], open' = open, usedIds' = usedIds,
         Goes(net, net', n, {})
  PROVE  PlainStep(n)
<1>1. PICK P : P = {}
  OBVIOUS
<1>2. /\ Goes(net, net', n, P) /\ Proper(n, P)
      /\ \A p \in P : p.cmd \notin {"connect_accept", "disconnect"}
  BY <1>1 DEF Proper
<1> QED
  BY <1>2, IsPlain

\* One datagram is sent.
LEMMA IsAnswer ==
  ASSUME Types, NEW n \in Nodes, NEW qs, Thins(n, peers[n], qs),
         peers' = [peers EXCEPT ![n] = qs], open' = open, usedIds' = usedIds,
         NEW q \in Packet, Goes(net, net', n, {q}),
         q.cmd \in {"connect_request", "peerinfo", "max_clients", "invalid_password",
                    "ping", "pong", "connected", "peerinfo_replay"},
         q.cmd = "peerinfo_replay" => n # Host
  PROVE  PlainStep(n)
<1>1. PICK P : P = {q}
  OBVIOUS
<1>2. /\ Goes(net, net', n, P) /\ Proper(n, P)
      /\ \A p \in P : p.cmd \notin {"connect_accept", "disconnect"}
  BY <1>1 DEF Proper
<1> QED
  BY <1>2, IsPlain

\* The handlers that answer, or only take notice.
Handled(n, from, p, rest) ==
  \/ ConnectRequest(n, from, p, rest)
  \/ PeerInfo(n, from, p, rest)
  \/ PeerInfoReplay(n, from, p, rest) /\ ~(p.password = "right" /\ HasRoom(n))
  \/ ConnectAccept(n, from, p, rest) /\ ~HasRoom(n)
  \/ Refusal(n, from, p, rest)
  \/ Ping(n, from, p, rest)
  \/ OnlyHeard(n, from, p, rest)

LEMMA HandledIsPlain ==
  ASSUME Types, NEW n, NEW from, NEW p, NEW rest, Receipt(n, from, p, rest),
         Handled(n, from, p, rest), open' = open
  PROVE  PlainStep(n)
<1>1. n \in Nodes /\ Thins(n, peers[n], Heard(peers[n], from)) /\ Goes(net, rest, n, {})
  BY HeardThins DEF Receipt
<1>2. HearFrom(n, from)
  BY DEF Handled, ConnectRequest, PeerInfo, PeerInfoReplay, ConnectAccept, Refusal, Ping, OnlyHeard
<1>3. peers' = [peers EXCEPT ![n] = Heard(peers[n], from)] /\ usedIds' = usedIds
  BY <1>2 DEF HearFrom
<1>4. ASSUME NEW q \in Packet, net' = Sent(rest, n, from, q),
             q.cmd \in {"connect_request", "peerinfo", "max_clients", "invalid_password",
                        "ping", "pong", "connected", "peerinfo_replay"},
             q.cmd = "peerinfo_replay" => n # Host
      PROVE  PlainStep(n)
  <2>1. Goes(net, net', n, {q})
    BY <1>4, AnswerGoes
  <2> QED
    BY <1>1, <1>3, <1>4, <2>1, IsAnswer
<1>5. CASE net' = rest
  BY <1>1, <1>3, <1>5, IsSilent
<1>6. CASE ConnectRequest(n, from, p, rest) /\ net' # rest
  <2>1. PICK cmd \in {"peerinfo", "max_clients"} : net' = Sent(rest, n, from, [cmd |-> cmd])
    <3>1. net' = Sent(rest, n, from,
                      [cmd |-> IF Len(peers[n]) < MaxPeers(n) THEN "peerinfo" ELSE "max_clients"])
      BY <1>6 DEF ConnectRequest
    <3> QED
      BY <3>1
  <2>2. [cmd |-> cmd] \in Packet
    BY DEF Packet
  <2> QED
    BY <1>4, <2>1, <2>2
<1>7. CASE PeerInfo(n, from, p, rest) /\ net' # rest
  <2>1. n \in Pending /\ net' = Sent(rest, n, from, [cmd |-> "peerinfo_replay", password |-> request[n]])
    BY <1>7 DEF PeerInfo
  <2>2. n \in Clients /\ request[n] \in Passwords
    BY <2>1 DEF Pending, Types, TypeOK
  <2>3. [cmd |-> "peerinfo_replay", password |-> request[n]] \in Packet /\ n # Host
    BY <2>2, ConnectionAssumption DEF Packet
  <2> QED
    BY <1>4, <2>1, <2>3
<1>8. CASE PeerInfoReplay(n, from, p, rest) /\ ~(p.password = "right" /\ HasRoom(n))
  <2>1. PICK cmd \in {"max_clients", "invalid_password"} : net' = Sent(rest, n, from, [cmd |-> cmd])
    <3>1. net' = Sent(rest, n, from,
                      [cmd |-> IF p.password = "right" THEN "max_clients" ELSE "invalid_password"])
      BY <1>8 DEF PeerInfoReplay
    <3> QED
      BY <3>1
  <2>2. [cmd |-> cmd] \in Packet
    BY DEF Packet
  <2> QED
    BY <1>4, <2>1, <2>2
<1>9. CASE Ping(n, from, p, rest)
  <2>1. net' = Sent(rest, n, from, [cmd |-> "pong"])
    BY <1>9 DEF Ping
  <2>2. [cmd |-> "pong"] \in Packet
    BY DEF Packet
  <2> QED
    BY <1>4, <2>1, <2>2
<1>10. net' = rest \/ ConnectRequest(n, from, p, rest) \/ PeerInfo(n, from, p, rest)
       \/ Ping(n, from, p, rest)
       \/ (PeerInfoReplay(n, from, p, rest) /\ ~(p.password = "right" /\ HasRoom(n)))
  BY DEF Handled, ConnectAccept, Refusal, OnlyHeard
<1> QED
  BY <1>5, <1>6, <1>7, <1>8, <1>9, <1>10

\* A client drops the host from its list.
LEMMA DropIsPlain ==
  ASSUME Types, NEW n \in Clients, NEW from, NEW p, NEW rest, Receipt(n, from, p, rest),
         NEW a, RemovePeer(n, from, a), net' = rest, open' = open
  PROVE  PlainStep(n)
<1> DEFINE ps == Heard(peers[n], from)
           k == Position(ps, a)
           qs == IF k = 0 THEN ps ELSE [ps EXCEPT ![k].removed = TRUE]
<1>1. /\ peers[n] \in Seq(Peer) /\ usedIds \in [Nodes -> SUBSET AllIds]
      /\ n \in Nodes /\ n # Host /\ Host \in Nodes
  BY LinksAre DEF Types, TypeOK, Nodes
<1>2. Alike(n, peers[n], ps)
  BY <1>1, HeardIs
<1>3. ps \in Seq(Peer) /\ Len(ps) = Len(peers[n]) /\ Len(ps) \in Nat
  BY <1>2 DEF Alike
<1>4. peers' = [peers EXCEPT ![n] = qs] /\ usedIds' = [usedIds EXCEPT ![n] = @ \ Released(ps, a)]
  BY DEF RemovePeer
<1>5. Alike(n, peers[n], qs)
  <2>1. CASE k = 0
    BY <1>2, <2>1
  <2>2. CASE k # 0
    <3>1. k \in DOMAIN ps
      BY <1>3, <2>2, PositionIs
    <3> HIDE DEF ps, k
    <3>0. qs = Marked(ps, k)
      BY <2>2 DEF Marked
    <3> HIDE DEF qs
    <3>2. /\ qs \in Seq(Peer) /\ Len(qs) = Len(ps)
          /\ \A i \in 1..Len(ps) : qs[i].addr = ps[i].addr /\ qs[i].id = ps[i].id
      BY <1>3, <3>0, <3>1, MarkedIs
    <3> QED
      BY <1>1, <1>2, <1>3, <3>2 DEF Alike
  <2> QED
    BY <2>1, <2>2
<1> HIDE DEF qs, ps, k
<1>6. \E rs : Thins(n, peers[n], rs) /\ peers' = [peers EXCEPT ![n] = rs]
  BY <1>4, <1>5, AlikeThins
<1>7. usedIds' \in [Nodes -> SUBSET AllIds] /\ usedIds'[Host] = usedIds[Host]
  BY <1>1, <1>4
<1>8. \E P : /\ Goes(net, net', n, P) /\ Proper(n, P)
             /\ \A q \in P : q.cmd \notin {"connect_accept", "disconnect"}
  <2>1. PICK P : P = {}
    OBVIOUS
  <2>2. Goes(net, net', n, P) /\ Proper(n, P) /\ \A q \in P : q.cmd \notin {"connect_accept", "disconnect"}
    BY <2>1 DEF Receipt, Proper
  <2> QED
    BY <2>2
<1> QED
  BY <1>6, <1>7, <1>8 DEF PlainStep

\* The host is not in its own list: a client that names it removes nobody.
LEMMA NamedInVain ==
  ASSUME Types, NEW from, NEW p, NEW rest, Receipt(Host, from, p, rest),
         PeerDisconnect(Host, from, p, rest), open' = open
  PROVE  PlainStep(Host)
<1> DEFINE ps == Heard(peers[Host], from)
<1>1. Host \in Nodes /\ peers[Host] \in Seq(Peer) /\ usedIds \in [Nodes -> SUBSET AllIds]
  BY DEF Types, TypeOK, Nodes
<1>2. from \in Clients
  BY LinksAre DEF Receipt
<1>3. p.addr = Host
  BY <1>2 DEF Receipt, Types, Roles, PeerDisconnect
<1>4. Alike(Host, peers[Host], ps)
  BY <1>1, HeardIs
<1>5. ps \in Seq(Peer) /\ \A i \in DOMAIN ps : ps[i].addr # Host
  <2>1. \A i \in DOMAIN peers[Host] : peers[Host][i].addr # Host
    BY <1>1, LinksAre DEF Types, Roles, Entries
  <2> QED
    BY <1>1, <1>4, <2>1 DEF Alike
<1> HIDE DEF ps
<1>6. Position(ps, Host) = 0
  BY <1>5, PositionIs
<1>7. peers' = [peers EXCEPT ![Host] = ps] /\ usedIds' = [usedIds EXCEPT ![Host] = @ \ {}]
  BY <1>3, <1>6 DEF PeerDisconnect, RemovePeer, Released, ps
<1>8. usedIds' = usedIds
  BY <1>1, <1>7
<1>9. net' = rest /\ Goes(net, rest, Host, {}) /\ Thins(Host, peers[Host], ps)
  BY <1>4, AlikeThins DEF PeerDisconnect, Receipt
<1> QED
  BY <1>1, <1>7, <1>8, <1>9, IsSilent

\* The steps in which no datagram is read: one is lost, a request is sent, or
\* given up, or nothing happens at all.
LEMMA UnreadIsPlain ==
  ASSUME Types, UNCHANGED <<open, peers, usedIds>>,
         \/ \E l \in Links : Lose(l)
         \/ net' = net
         \/ \E c \in Clients : net' = Sent(net, c, Host, [cmd |-> "connect_request"])
  PROVE  \E n \in Nodes : PlainStep(n)
<1>1. \A n \in Nodes : Thins(n, peers[n], peers[n]) /\ peers' = [peers EXCEPT ![n] = peers[n]]
  BY SameThins
<1>2. open' = open /\ usedIds' = usedIds /\ Fits(net)
  BY DEF Types
<1>3. CASE \E l \in Links : Lose(l)
  <2>1. PICK l \in Links : \E i \in Arrivals(l) : net' = Without(l, i)
    BY <1>3 DEF Lose
  <2>2. Goes(net, net', l[1], {}) /\ l[1] \in Nodes
    BY <2>1, Receipts, LinksAre DEF Nodes
  <2> QED
    BY <1>1, <1>2, <2>2, IsSilent
<1>4. CASE net' = net
  <2>1. Goes(net, net', Host, {}) /\ Host \in Nodes
    BY <1>2, <1>4, GoesNowhere DEF Nodes
  <2> QED
    BY <1>1, <1>2, <2>1, IsSilent
<1>5. CASE \E c \in Clients : net' = Sent(net, c, Host, [cmd |-> "connect_request"])
  <2>1. PICK c \in Clients : net' = Sent(net, c, Host, [cmd |-> "connect_request"])
    BY <1>5
  <2>2. PICK q \in Packet : q = [cmd |-> "connect_request"]
    BY DEF Packet
  <2>3. Goes(net, net', c, {q}) /\ c \in Nodes
    BY <1>2, <2>1, <2>2, SendGoes DEF Nodes
  <2>4. q.cmd = "connect_request"
    BY <2>2
  <2> QED
    BY <1>1, <1>2, <2>3, <2>4, IsAnswer
<1> QED
  BY <1>3, <1>4, <1>5

LEMMA PassIsPlain ==
  ASSUME Types, NEW n \in Nodes, NEW elapsed \in 0..1, ProcessClients(n, elapsed)
  PROVE  PlainStep(n)
<1>1. TypeOK /\ Fits(net) /\ peers[n] \in Seq(Peer) /\ usedIds \in [Nodes -> SUBSET AllIds]
  BY DEF Types, TypeOK
<1>2. PICK w \in VisitsTo(n, Len(peers[n])) : w = Visits(n, elapsed)[Len(peers[n])]
  BY <1>1, VisitsAre
<1>3. /\ net' = w.net /\ peers' = [peers EXCEPT ![n] = w.kept] /\ open' = open
      /\ usedIds' = [usedIds EXCEPT ![n] = usedIds[n]]
  BY <1>2 DEF ProcessClients, IdsKept
<1>4. usedIds' = usedIds
  BY <1>1, <1>3
<1>5. PICK P : P = VisitPackets(peers[n])
  OBVIOUS
<1>6. Goes(net, net', n, P) /\ Thins(n, peers[n], w.kept)
  BY <1>1, <1>2, <1>3, <1>5, StayingThins DEF VisitsTo
<1>7. ASSUME NEW p \in P
      PROVE  p.cmd \in {"ping", "peer_disconnect"} /\ (n # Host /\ p.cmd = "peer_disconnect" => p.addr = Host)
  <2>1. CASE p = [cmd |-> "ping"]
    BY <2>1
  <2>2. CASE \E i \in DOMAIN peers[n] : p = [cmd |-> "peer_disconnect", addr |-> peers[n][i].addr]
    <3>1. PICK i \in DOMAIN peers[n] : p = [cmd |-> "peer_disconnect", addr |-> peers[n][i].addr]
      BY <2>2
    <3>2. <<n, peers[n][i].addr>> \in Links
      BY DEF Types, Roles, Entries
    <3>3. n # Host => peers[n][i].addr = Host
      BY <3>2 DEF Links
    <3> QED
      BY <3>1, <3>3
  <2> QED
    BY <1>5, <2>1, <2>2 DEF VisitPackets
<1>8. Proper(n, P) /\ \A p \in P : p.cmd \notin {"connect_accept", "disconnect"}
  BY <1>7 DEF Proper
<1> QED
  BY <1>3, <1>4, <1>6, <1>8, IsPlain

-----------------------------------------------------------------------------
(* What a step can be: plain, or one of these, or Close.                   *)

\* The host accepts client c under a free identity.
Serves(c) ==
  /\ open' = open /\ Host \in open /\ HasRoom(Host)
  /\ \E ps : /\ Alike(Host, peers[Host], ps)
             /\ peers' = [peers EXCEPT ![Host] = Append(ps, NewPeer(c, FreeId(Host)))]
  /\ usedIds' = [usedIds EXCEPT ![Host] = @ \cup {FreeId(Host)}]
  /\ Goes(net, net', Host, {[cmd |-> "connect_accept", id |-> FreeId(Host)]})
  /\ \A l \in Links \ {<<Host, c>>} : ToSet(net'[l]) \subseteq ToSet(net[l])

\* Client c learns its identity.
Joins(c) ==
  /\ open' = open /\ c \in open /\ HasRoom(c)
  /\ \E ps, p : /\ p \in InFlightTo(<<Host, c>>) /\ p \in Packet /\ p.cmd = "connect_accept"
                /\ Alike(c, peers[c], ps)
                /\ peers' = [peers EXCEPT ![c] = Append(ps, NewPeer(Host, p.id))]
  /\ usedIds' = [usedIds EXCEPT ![c] = @ \cup {FreeId(c)}]
  /\ Goes(net, net', c, {[cmd |-> "connected"]})
  /\ RemoveRequest(c) /\ (Knows(c, Host) \/ c \in Pending)

\* The host reads the DISCONNECT of client c.
Dismisses(c) ==
  /\ open' = open
  /\ \E ps : /\ Alike(Host, peers[Host], ps)
             /\ LET k == Position(ps, c)
                IN  peers' = [peers EXCEPT ![Host] = IF k = 0 THEN ps ELSE Marked(ps, k)]
             /\ usedIds' = [usedIds EXCEPT ![Host] = @ \ Released(ps, c)]
  /\ \E i \in GoodbyesIn(net, c) :
       Goes(Without(<<c, Host>>, i), net', Host, {[cmd |-> "peer_disconnect", addr |-> c]})

LEMMA ReceiptIs ==
  ASSUME Types, NEW l \in Links, Receive(l)
  PROVE  \/ \E n \in Nodes : PlainStep(n)
         \/ \E c \in Clients : Serves(c) \/ Joins(c) \/ Dismisses(c)
<1> DEFINE from == l[1]  n == l[2]
<1>1. PICK i \in Arrivals(l) :
        LET p == net[l][i]  rest == Without(l, i) IN
        \/ net' = rest /\ UNCHANGED <<peers, usedIds>>
        \/ /\ Welcome(n, from, p.cmd)
           /\ \/ ConnectRequest(n, from, p, rest) \/ PeerInfo(n, from, p, rest)
              \/ PeerInfoReplay(n, from, p, rest) \/ ConnectAccept(n, from, p, rest)
              \/ Refusal(n, from, p, rest) \/ Ping(n, from, p, rest)
              \/ OnlyHeard(n, from, p, rest) \/ Disconnect(n, from, p, rest)
              \/ PeerDisconnect(n, from, p, rest)
  BY DEF Receive
<1> DEFINE p == net[l][i]
           rest == Without(l, i)
<1>2. /\ Receipt(n, from, p, rest) /\ l = <<from, n>> /\ n \in Nodes /\ from \in Nodes
      /\ i \in DOMAIN net[l] /\ open' = open /\ n \in open
      /\ \/ from \in Clients /\ n = Host
         \/ from = Host /\ n \in Clients
  BY Receipts, LinksAre DEF Receive, Nodes
<1>3. p \in Packet /\ p \in InFlightTo(l) /\ Goes(net, rest, n, {}) /\ Fits(rest)
  BY <1>2 DEF Receipt, Goes
<1>4. Heard(peers[n], from) \in Seq(Peer) /\ Alike(n, peers[n], Heard(peers[n], from))
  <2>1. peers[n] \in Seq(Peer)
    BY <1>2 DEF Types, TypeOK
  <2> QED
    BY <2>1, HeardIs DEF Alike
<1>5. CASE net' = rest /\ UNCHANGED <<peers, usedIds>>
  <2>1. Thins(n, peers[n], peers[n]) /\ peers' = [peers EXCEPT ![n] = peers[n]]
    BY <1>2, <1>5, SameThins
  <2>2. Goes(net, net', n, {})
    BY <1>3, <1>5
  <2> HIDE DEF n
  <2>3. PlainStep(n)
    BY <1>2, <1>5, <2>1, <2>2, IsSilent
  <2> QED
    BY <1>2, <2>3
<1>6. CASE Handled(n, from, p, rest)
  <2> HIDE DEF n, from, p, rest
  <2> QED
    BY <1>2, <1>6, HandledIsPlain
<1>7. CASE PeerInfoReplay(n, from, p, rest) /\ p.password = "right" /\ HasRoom(n)
  <2>1. n = Host /\ from \in Clients
    <3>1. p.cmd = "peerinfo_replay"
      BY <1>7 DEF PeerInfoReplay
    <3> HIDE DEF p
    <3> QED
      BY <1>2, <1>3, <3>1 DEF Types, Roles
  <2> HIDE DEF n, from, p, rest
  <2>2. /\ AddPeer(n, from, FreeId(n))
        /\ net' = Sent(rest, n, from, [cmd |-> "connect_accept", id |-> FreeId(n)])
    BY <1>7 DEF PeerInfoReplay
  <2>3. FreeId(Host) \in Ids(Host)
    BY <1>7, <2>1, FreeIdIs DEF HasRoom
  <2>4. [cmd |-> "connect_accept", id |-> FreeId(Host)] \in Packet
    BY <2>3 DEF Packet
  <2>5. Goes(net, net', Host, {[cmd |-> "connect_accept", id |-> FreeId(Host)]})
    BY <1>2, <2>1, <2>2, <2>4, AnswerGoes
  <2>6. \A k \in Links \ {<<Host, from>>} : ToSet(net'[k]) \subseteq ToSet(net[k])
    <3>1. \A k \in Links \ {<<Host, from>>} : net'[k] = rest[k]
      BY <1>3, <2>1, <2>2, SentElsewhere
    <3>2. \A k \in Links : ToSet(rest[k]) \subseteq ToSet(net[k])
      BY <1>3 DEF Goes
    <3> QED
      BY <3>1, <3>2
  <2>7. Serves(from)
    BY <1>2, <1>4, <1>7, <2>1, <2>2, <2>5, <2>6 DEF Serves, AddPeer
  <2> QED
    BY <2>1, <2>7
<1>8. CASE Welcome(n, from, p.cmd) /\ ConnectAccept(n, from, p, rest) /\ HasRoom(n)
  <2>1. n \in Clients /\ from = Host /\ p.cmd = "connect_accept"
    <3>1. p.cmd = "connect_accept"
      BY <1>8 DEF ConnectAccept
    <3> HIDE DEF p
    <3> QED
      BY <1>2, <1>3, <3>1 DEF Types, Roles
  <2> HIDE DEF n, from, p, rest
  <2>2. /\ AddPeer(n, from, p.id) /\ RemoveRequest(n)
        /\ net' = Sent(rest, n, from, [cmd |-> "connected"])
    BY <1>8 DEF ConnectAccept
  <2>3. [cmd |-> "connected"] \in Packet
    BY DEF Packet
  <2>4. Goes(net, net', n, {[cmd |-> "connected"]})
    BY <1>2, <2>2, <2>3, AnswerGoes
  <2>5. Knows(n, Host) \/ n \in Pending
    BY <1>8, <2>1 DEF Welcome, Strangers
  <2>6. \E ps, q : /\ q \in InFlightTo(<<Host, n>>) /\ q \in Packet /\ q.cmd = "connect_accept"
                  /\ Alike(n, peers[n], ps)
                  /\ peers' = [peers EXCEPT ![n] = Append(ps, NewPeer(Host, q.id))]
    BY <1>2, <1>3, <1>4, <2>1, <2>2 DEF AddPeer
  <2>7. usedIds' = [usedIds EXCEPT ![n] = @ \cup {FreeId(n)}]
    BY <2>2 DEF AddPeer
  <2>8. Joins(n)
    BY <1>2, <1>8, <2>2, <2>4, <2>5, <2>6, <2>7 DEF Joins
  <2> QED
    BY <2>1, <2>8
<1>9. CASE Disconnect(n, from, p, rest) /\ n # Host
  <2> HIDE DEF n, from, p, rest
  <2>1. n \in Clients /\ RemovePeer(n, from, from) /\ net' = rest
    BY <1>2, <1>9 DEF Disconnect
  <2> QED
    BY <1>2, <2>1, DropIsPlain
<1>10. CASE PeerDisconnect(n, from, p, rest) /\ n # Host
  <2> HIDE DEF n, from, p, rest
  <2>1. n \in Clients /\ RemovePeer(n, from, p.addr) /\ net' = rest
    BY <1>2, <1>10 DEF PeerDisconnect
  <2> QED
    BY <1>2, <2>1, DropIsPlain
<1>11. CASE PeerDisconnect(n, from, p, rest) /\ n = Host
  <2> HIDE DEF n, from, p, rest
  <2> QED
    BY <1>2, <1>11, NamedInVain
<1>12. CASE Disconnect(n, from, p, rest) /\ n = Host
  <2>1. i \in GoodbyesIn(net, from)
    BY <1>2, <1>12 DEF GoodbyesIn, Disconnect
  <2>2. rest = Without(<<from, Host>>, i)
    BY <1>2, <1>12
  <2> HIDE DEF n, from, p, rest
  <2> DEFINE ps == Heard(peers[Host], from)
             k == Position(ps, from)
             qs == IF k = 0 THEN ps ELSE Marked(ps, k)
             q == [cmd |-> "peer_disconnect", addr |-> from]
  <2>3. ps \in Seq(Peer) /\ Alike(Host, peers[Host], ps)
    BY <1>4, <1>12
  <2>4. /\ peers' = [peers EXCEPT ![Host] = qs]
        /\ usedIds' = [usedIds EXCEPT ![Host] = @ \ Released(ps, from)]
        /\ net' = SentToAll(rest, Host, peers'[Host], q)
    BY <1>12 DEF Disconnect, RemovePeer, Marked
  <2>5. q \in Packet /\ from \in Clients
    BY <1>2, <1>12, LinksAre DEF Packet, Nodes
  <2>6. qs \in Seq(Peer)
    <3>1. k # 0 => k \in DOMAIN ps
      BY <2>3, PositionIs
    <3> HIDE DEF ps, k
    <3> QED
      BY <2>3, <3>1, MarkedIs
  <2>7. peers'[Host] = qs
    <3>1. peers \in [Nodes -> Seq(Peer)] /\ Host \in Nodes
      BY DEF Types, TypeOK, Nodes
    <3> HIDE DEF qs
    <3> QED
      BY <2>4, <3>1
  <2> HIDE DEF qs, q
  <2>8. Goes(rest, net', Host, {q})
    BY <1>3, <2>4, <2>5, <2>6, <2>7, SendToAllGoes
  <2>9. Dismisses(from)
    BY <1>2, <2>1, <2>2, <2>3, <2>4, <2>8 DEF Dismisses, qs, q
  <2> QED
    BY <2>5, <2>9
<1>13. \/ net' = rest /\ UNCHANGED <<peers, usedIds>>
       \/ Handled(n, from, p, rest)
       \/ PeerInfoReplay(n, from, p, rest) /\ p.password = "right" /\ HasRoom(n)
       \/ Welcome(n, from, p.cmd) /\ ConnectAccept(n, from, p, rest) /\ HasRoom(n)
       \/ Disconnect(n, from, p, rest)
       \/ PeerDisconnect(n, from, p, rest)
  BY <1>1 DEF Handled
<1> QED
  BY <1>2, <1>5, <1>6, <1>7, <1>8, <1>9, <1>10, <1>11, <1>12, <1>13

LEMMA StepIs ==
  ASSUME Types, [Next]_vars
  PROVE  \/ \E n \in Nodes : PlainStep(n)
         \/ \E c \in Clients : Serves(c) \/ Joins(c) \/ Dismisses(c)
         \/ \E n \in Nodes : Close(n)
<1>1. CASE \E l \in Links : Receive(l)
  BY <1>1, ReceiptIs
<1>2. CASE \E l \in Links : Lose(l)
  <2>1. UNCHANGED <<open, peers, usedIds>>
    BY <1>2 DEF Lose
  <2> QED
    BY <1>2, <2>1, UnreadIsPlain
<1>3. CASE \E c \in Clients : Connect(c) \/ Retry(c)
  <2>1. /\ UNCHANGED <<open, peers, usedIds>>
        /\ \E c \in Clients : net' = Sent(net, c, Host, [cmd |-> "connect_request"])
    BY <1>3 DEF Connect, Retry
  <2> QED
    BY <2>1, UnreadIsPlain
<1>4. CASE UNCHANGED vars \/ \E c \in Clients : GiveUp(c)
  <2>1. UNCHANGED <<open, peers, usedIds>> /\ net' = net
    BY <1>4 DEF GiveUp, vars
  <2> QED
    BY <2>1, UnreadIsPlain
<1>5. CASE \E n \in Nodes : \E elapsed \in 0..1 : ProcessClients(n, elapsed)
  BY <1>5, PassIsPlain
<1> QED
  BY <1>1, <1>2, <1>3, <1>4, <1>5 DEF Next

\* What a step does to the request of a client.
LEMMA RequestFieldsTyped ==
  ASSUME Types, [Next]_vars
  PROVE  RequestFields'
<1>1. RequestFields
  BY DEF Types, TypeOK, RequestFields
<1>2. CASE UNCHANGED requestVars
  BY <1>1, <1>2 DEF RequestFields, requestVars
<1>3. ASSUME NEW n \in Nodes, RemoveRequest(n)
      PROVE  RequestFields'
  BY <1>1, <1>3 DEF RequestFields, RemoveRequest
<1>4. ASSUME NEW c \in Clients, Connect(c)
      PROVE  RequestFields'
  <2>1. PICK password \in Passwords : request' = [request EXCEPT ![c] = password]
    BY <1>4 DEF Connect
  <2>2. attempts' = [attempts EXCEPT ![c] = 0] /\ failed' = failed \ {c} /\ 0 \in 0..MaxRequest
    BY <1>4, ConnectionAssumption DEF Connect
  <2> QED
    BY <1>1, <2>1, <2>2 DEF RequestFields
<1>5. ASSUME NEW c \in Clients, Retry(c)
      PROVE  RequestFields'
  <2>1. attempts[c] \in 0..MaxRequest /\ attempts[c] < MaxRequest
    BY <1>1, <1>5 DEF RequestFields, Retry
  <2>2. attempts[c] + 1 \in 0..MaxRequest
    BY <2>1, ConnectionAssumption
  <2>3. attempts' = [attempts EXCEPT ![c] = @ + 1] /\ UNCHANGED <<request, failed>>
    BY <1>5 DEF Retry
  <2> QED
    BY <1>1, <2>2, <2>3 DEF RequestFields
<1>6. ASSUME NEW c \in Clients, GiveUp(c)
      PROVE  RequestFields'
  BY <1>1, <1>6 DEF RequestFields, GiveUp
<1>7. ASSUME NEW l \in Links, Receive(l)
      PROVE  RequestFields'
  <2>1. UNCHANGED requestVars \/ RemoveRequest(l[2])
    BY <1>7 DEF Receive, ConnectRequest, PeerInfo, PeerInfoReplay, ConnectAccept, Refusal, Ping,
                OnlyHeard, Disconnect, PeerDisconnect
  <2>2. l[2] \in Nodes
    BY LinksAre DEF Nodes
  <2> QED
    BY <1>2, <1>3, <2>1, <2>2
<1>8. CASE \/ UNCHANGED vars \/ \E l \in Links : Lose(l)
           \/ \E n \in Nodes : Close(n) \/ \E elapsed \in 0..1 : ProcessClients(n, elapsed)
  <2>1. UNCHANGED requestVars
    BY <1>8 DEF Lose, Close, ProcessClients, vars
  <2> QED
    BY <1>2, <2>1
<1> QED
  BY <1>4, <1>5, <1>6, <1>7, <1>8 DEF Next

\* The clients that closed with more than one peer are never forgotten.
LEMMA TwiceGrows ==
  ASSUME Types, [Next]_vars
  PROVE  twice \subseteq twice' /\ twice' \subseteq Clients
<1>0. twice \subseteq Clients
  BY DEF Types, TypeOK
<1>1. CASE \E n \in Nodes : Close(n)
  <2>1. PICK n \in Nodes : Close(n)
    BY <1>1
  <2>2. twice' = twice \/ (n # Host /\ twice' = twice \cup {n})
    BY <2>1 DEF Close
  <2> QED
    BY <1>0, <2>2 DEF Nodes
<1>2. CASE \/ \E l \in Links : Receive(l) \/ Lose(l)
           \/ \E c \in Clients : Connect(c) \/ Retry(c) \/ GiveUp(c)
           \/ \E n \in Nodes : \E elapsed \in 0..1 : ProcessClients(n, elapsed)
           \/ UNCHANGED vars
  <2>1. twice' = twice
    BY <1>2 DEF Receive, Lose, Connect, Retry, GiveUp, ProcessClients, vars
  <2> QED
    BY <1>0, <2>1
<1> QED
  BY <1>1, <1>2 DEF Next

LEMMA RequestTyped ==
  ASSUME Types, [Next]_vars
  PROVE  RequestTypes'
BY RequestFieldsTyped, TwiceGrows DEF RequestTypes

\* No request is begun, or given up, by a client that has the host in its list.
StillWaiting ==
  \A c \in Clients :
    /\ c \in (Pending \cup failed)' => peers[c] = <<>>
    /\ c \in failed' => c \notin Pending'

LEMMA KnowsNobody ==
  ASSUME Types, NEW c \in Clients
  PROVE  Knows(c, Host) <=> peers[c] # <<>>
<1>1. peers[c] \in Seq(Peer)
  BY DEF Types, TypeOK, Nodes
<1>2. \A i \in Entries(c) : peers[c][i].addr = Host
  <2>1. \A i \in Entries(c) : <<c, peers[c][i].addr>> \in Links
    BY DEF Types, Roles, Nodes
  <2> QED
    BY <2>1, LinksAre DEF Links
<1>3. peers[c] # <<>> <=> Entries(c) # {}
  <2>1. CASE Len(peers[c]) = 0
    <3>1. peers[c] = <<>> /\ DOMAIN peers[c] = {}
      BY <1>1, <2>1
    <3> QED
      BY <3>1 DEF Entries
  <2>2. CASE Len(peers[c]) # 0
    <3>1. peers[c] # <<>> /\ 1 \in DOMAIN peers[c]
      BY <1>1, <2>2
    <3> QED
      BY <3>1 DEF Entries
  <2> QED
    BY <2>1, <2>2
<1> QED
  BY <1>1, <1>2, <1>3, KnowsIs

LEMMA WaitsOn ==
  ASSUME Types, Waiting, [Next]_vars
  PROVE  StillWaiting
<1>1. request \in [Clients -> Passwords \cup {"none"}] /\ request' \in [Clients -> Passwords \cup {"none"}]
  BY RequestFieldsTyped DEF Types, TypeOK, RequestFields
<1>2. CASE UNCHANGED requestVars
  BY <1>2 DEF Waiting, StillWaiting, requestVars, Pending
<1>3. ASSUME NEW n, RemoveRequest(n)
      PROVE  StillWaiting
  <2>1. Pending' \subseteq Pending /\ failed' = failed
    BY <1>1, <1>3 DEF RemoveRequest, Pending
  <2> QED
    BY <2>1 DEF Waiting, StillWaiting
<1>4. ASSUME NEW c \in Clients, Connect(c)
      PROVE  StillWaiting
  <2>1. peers[c] = <<>> /\ failed' = failed \ {c} /\ Pending' \subseteq Pending \cup {c}
    BY <1>1, <1>4, KnowsNobody DEF Connect, Pending
  <2> QED
    BY <2>1 DEF Waiting, StillWaiting
<1>5. ASSUME NEW c \in Clients, GiveUp(c)
      PROVE  StillWaiting
  <2>1. c \in Pending /\ Pending' = Pending \ {c} /\ failed' = failed \cup {c}
    BY <1>1, <1>5 DEF GiveUp, Pending
  <2> QED
    BY <2>1 DEF Waiting, StillWaiting
<1>6. ASSUME NEW c \in Clients, Retry(c)
      PROVE  StillWaiting
  <2>1. Pending' = Pending /\ failed' = failed
    BY <1>6 DEF Retry, Pending
  <2> QED
    BY <2>1 DEF Waiting, StillWaiting
<1>7. ASSUME NEW l \in Links, Receive(l)
      PROVE  UNCHANGED requestVars \/ RemoveRequest(l[2])
  BY <1>7 DEF Receive, ConnectRequest, PeerInfo, PeerInfoReplay, ConnectAccept, Refusal, Ping,
              OnlyHeard, Disconnect, PeerDisconnect
<1>8. ASSUME \/ UNCHANGED vars \/ \E l \in Links : Lose(l)
             \/ \E n \in Nodes : Close(n) \/ \E elapsed \in 0..1 : ProcessClients(n, elapsed)
      PROVE  UNCHANGED requestVars
  BY <1>8 DEF Lose, Close, ProcessClients, vars
<1> QED
  BY <1>2, <1>3, <1>4, <1>5, <1>6, <1>7, <1>8 DEF Next

-----------------------------------------------------------------------------
(* Types.                                                                  *)

\* An entry is added behind a list that is like the old one.
Grown(n, rs, qs, e) ==
  /\ qs \in Seq(Peer) /\ Len(qs) = Len(rs) + 1 /\ Len(rs) \in Nat
  /\ DOMAIN rs = 1..Len(rs) /\ DOMAIN qs = 1..(Len(rs) + 1)
  /\ qs[Len(rs) + 1] = e
  /\ \A i \in DOMAIN rs : /\ qs[i].addr = rs[i].addr /\ qs[i].id = rs[i].id
                          /\ n = Host => qs[i].removed = rs[i].removed

LEMMA Added ==
  ASSUME NEW n, NEW rs, NEW ps, Alike(n, rs, ps), NEW e \in Peer
  PROVE  Grown(n, rs, Append(ps, e), e)
<1>0. PICK qs : qs = Append(ps, e)
  OBVIOUS
<1>1. /\ rs \in Seq(Peer) /\ ps \in Seq(Peer) /\ Len(ps) = Len(rs)
      /\ \A i \in 1..Len(rs) : /\ ps[i].addr = rs[i].addr /\ ps[i].id = rs[i].id
                               /\ n = Host => ps[i].removed = rs[i].removed
  BY DEF Alike
<1>2. Len(rs) \in Nat /\ DOMAIN rs = 1..Len(rs)
  BY <1>1
<1>3. qs \in Seq(Peer) /\ Len(qs) = Len(rs) + 1 /\ qs[Len(rs) + 1] = e
  BY <1>0, <1>1, <1>2, AppendProperties
<1>4. \A i \in 1..Len(rs) : qs[i] = ps[i]
  BY <1>0, <1>1, <1>2, AppendProperties
<1>5. DOMAIN qs = 1..(Len(rs) + 1)
  BY <1>2, <1>3
<1>6. Grown(n, rs, qs, e)
  BY <1>1, <1>2, <1>3, <1>4, <1>5 DEF Grown
<1> QED
  BY <1>0, <1>6

LEMMA NewPeerIs ==
  ASSUME NEW a \in Nodes, NEW id \in AllIds
  PROVE  /\ NewPeer(a, id) \in Peer /\ NewPeer(a, id).addr = a /\ NewPeer(a, id).id = id
         /\ NewPeer(a, id).removed = FALSE
BY ConnectionAssumption DEF NewPeer, Peer

\* The list of n is typed after an entry was added.
LEMMA AddedTyped ==
  ASSUME Types, NEW n \in Nodes, NEW a, <<n, a>> \in Links, NEW id \in AllIds, HasRoom(n),
         NEW ps, Alike(n, peers[n], ps), NEW qs, qs = Append(ps, NewPeer(a, id))
  PROVE  /\ qs \in Seq(Peer) /\ Len(qs) <= MaxPeers(n)
         /\ \A i \in DOMAIN qs : <<n, qs[i].addr>> \in Links
<1>1. a \in Nodes /\ NewPeer(a, id) \in Peer /\ NewPeer(a, id).addr = a
  BY NewPeerIs DEF Links, Nodes
<1>2. PICK e \in Peer : e = NewPeer(a, id)
  BY <1>1
<1>3. /\ qs \in Seq(Peer) /\ Len(qs) = Len(peers[n]) + 1 /\ Len(peers[n]) \in Nat
      /\ DOMAIN peers[n] = 1..Len(peers[n]) /\ DOMAIN qs = 1..(Len(peers[n]) + 1)
      /\ qs[Len(peers[n]) + 1].addr = a
      /\ \A i \in DOMAIN peers[n] : qs[i].addr = peers[n][i].addr
  <2>1. Grown(n, peers[n], qs, e) /\ e.addr = a
    BY <1>1, <1>2, Added
  <2> QED
    BY <2>1 DEF Grown
<1>4. Len(peers[n]) < MaxPeers(n) /\ MaxPeers(n) \in Nat
  BY ConnectionAssumption DEF HasRoom, MaxPeers
<1>5. Len(qs) <= MaxPeers(n)
  BY <1>3, <1>4
<1>6. ASSUME NEW i \in DOMAIN qs
      PROVE  <<n, qs[i].addr>> \in Links
  <2>1. i = Len(peers[n]) + 1 \/ i \in DOMAIN peers[n]
    BY <1>3
  <2>2. \A j \in DOMAIN peers[n] : <<n, peers[n][j].addr>> \in Links
    BY DEF Types, Roles, Entries
  <2> QED
    BY <1>3, <2>1, <2>2
<1> QED
  BY <1>3, <1>5, <1>6

LEMMA IdsAre == \A n \in Nodes : Ids(n) \subseteq AllIds
BY DEF Ids, AllIds, MaxPeers

LEMMA ServesTypes ==
  ASSUME Types, NEW c \in Clients, Serves(c), RequestTypes'
  PROVE  Types'
<1>1. PICK id : id = FreeId(Host)
  OBVIOUS
<1>2. id \in AllIds /\ Host \in Nodes /\ <<Host, c>> \in Links
  BY <1>1, FreeIdIs, IdsAre, LinksAre DEF Serves, HasRoom, Nodes
<1>3. PICK ps : Alike(Host, peers[Host], ps) /\ peers' = [peers EXCEPT ![Host] = Append(ps, NewPeer(c, id))]
  BY <1>1 DEF Serves
<1>4. PICK qs : qs = Append(ps, NewPeer(c, id))
  OBVIOUS
<1>5. /\ qs \in Seq(Peer) /\ Len(qs) <= MaxPeers(Host) /\ HasRoom(Host)
      /\ \A i \in DOMAIN qs : <<Host, qs[i].addr>> \in Links
  BY <1>2, <1>3, <1>4, AddedTyped DEF Serves
<1>6. PICK P : P = {[cmd |-> "connect_accept", id |-> id]}
  OBVIOUS
<1>7. Goes(net, net', Host, P) /\ Proper(Host, P)
  BY <1>1, <1>6 DEF Serves, Proper
<1>8. usedIds' \in [Nodes -> SUBSET AllIds] /\ open' \subseteq Nodes
  <2>1. usedIds' = [usedIds EXCEPT ![Host] = @ \cup {id}] /\ open' = open
    BY <1>1 DEF Serves
  <2> QED
    BY <1>2, <2>1 DEF Types, TypeOK
<1> QED
  BY <1>2, <1>3, <1>4, <1>5, <1>7, <1>8, TypesKept

LEMMA JoinsTypes ==
  ASSUME Types, NEW c \in Clients, Joins(c), RequestTypes'
  PROVE  Types' /\ usedIds'[Host] = usedIds[Host]
<1>1. PICK id : id = FreeId(c)
  OBVIOUS
<1>2. id \in AllIds /\ c \in Nodes /\ c # Host /\ <<c, Host>> \in Links /\ HasRoom(c) /\ Host \in Nodes
  <2>1. c \in Nodes
    BY DEF Nodes
  <2> QED
    BY <1>1, <2>1, FreeIdIs, IdsAre, LinksAre DEF Joins, HasRoom, Nodes
<1>3. PICK ps, p : /\ p \in Packet /\ p.cmd = "connect_accept" /\ Alike(c, peers[c], ps)
                   /\ peers' = [peers EXCEPT ![c] = Append(ps, NewPeer(Host, p.id))]
  BY DEF Joins
<1>4. p.id \in AllIds
  BY <1>3 DEF Packet, AllIds
<1>5. PICK qs : qs = Append(ps, NewPeer(Host, p.id))
  OBVIOUS
<1>6. /\ qs \in Seq(Peer) /\ Len(qs) <= MaxPeers(c)
      /\ \A i \in DOMAIN qs : <<c, qs[i].addr>> \in Links
  BY <1>2, <1>3, <1>4, <1>5, AddedTyped
<1>7. PICK P : P = {[cmd |-> "connected"]}
  OBVIOUS
<1>8. Goes(net, net', c, P) /\ Proper(c, P)
  BY <1>7 DEF Joins, Proper
<1>9. usedIds' \in [Nodes -> SUBSET AllIds] /\ open' \subseteq Nodes /\ usedIds'[Host] = usedIds[Host]
  <2>1. usedIds' = [usedIds EXCEPT ![c] = @ \cup {id}] /\ open' = open
    BY <1>1 DEF Joins
  <2> QED
    BY <1>2, <2>1 DEF Types, TypeOK
<1> QED
  BY <1>2, <1>3, <1>5, <1>6, <1>8, <1>9, TypesKept

LEMMA DismissedIs ==
  ASSUME Types, NEW c \in Clients, NEW ps, Alike(Host, peers[Host], ps), NEW k, k = Position(ps, c),
         NEW qs, qs = IF k = 0 THEN ps ELSE Marked(ps, k)
  PROVE  /\ qs \in Seq(Peer) /\ Len(qs) = Len(peers[Host]) /\ DOMAIN qs = DOMAIN peers[Host]
         /\ \A i \in DOMAIN qs : /\ qs[i].addr = peers[Host][i].addr /\ qs[i].id = peers[Host][i].id
                                 /\ qs[i].removed = (i = k \/ peers[Host][i].removed)
         /\ k # 0 => /\ k \in DOMAIN qs /\ peers[Host][k].addr = c
                     /\ Released(ps, c) = {peers[Host][k].id}
         /\ k = 0 => Released(ps, c) = {} /\ \A i \in DOMAIN qs : peers[Host][i].addr # c
<1>1. PICK rs : rs = peers[Host]
  OBVIOUS
<1>2. /\ rs \in Seq(Peer) /\ ps \in Seq(Peer) /\ Len(ps) = Len(rs) /\ Len(rs) \in Nat
      /\ \A i \in 1..Len(rs) : /\ ps[i].addr = rs[i].addr /\ ps[i].id = rs[i].id
                               /\ ps[i].removed = rs[i].removed
  BY <1>1 DEF Alike
<1>3. DOMAIN ps = 1..Len(rs) /\ DOMAIN rs = 1..Len(rs)
  BY <1>2
<1>4. /\ k # 0 => k \in DOMAIN ps /\ ps[k].addr = c
      /\ k = 0 <=> \A i \in DOMAIN ps : ps[i].addr # c
  BY <1>2, PositionIs
<1>5. CASE k = 0
  <2>1. qs = ps /\ Released(ps, c) = {}
    BY <1>5 DEF Released
  <2>2. \A i \in DOMAIN qs : /\ qs[i].addr = rs[i].addr /\ qs[i].id = rs[i].id
                            /\ qs[i].removed = (i = k \/ rs[i].removed)
    <3> TAKE i \in DOMAIN qs
    <3>0. i \in 1..Len(rs) /\ i # k
      BY <1>2, <1>3, <1>5, <2>1
    <3>1. rs[i] \in Peer
      BY <1>2, <3>0
    <3>2. rs[i].removed \in BOOLEAN
      BY <3>1 DEF Peer
    <3> QED
      BY <1>2, <2>1, <3>0, <3>2
  <2> QED
    BY <1>1, <1>2, <1>3, <1>4, <1>5, <2>1, <2>2
<1>6. CASE k # 0
  <2>1. k \in DOMAIN ps /\ qs = Marked(ps, k)
    BY <1>4, <1>6
  <2>2. /\ qs \in Seq(Peer) /\ Len(qs) = Len(ps) /\ DOMAIN qs = DOMAIN ps
        /\ \A i \in 1..Len(ps) : /\ qs[i].addr = ps[i].addr /\ qs[i].id = ps[i].id
                                 /\ qs[i].removed = (i = k \/ ps[i].removed)
    BY <1>2, <2>1, MarkedIs
  <2>3. \A i \in DOMAIN qs : /\ qs[i].addr = rs[i].addr /\ qs[i].id = rs[i].id
                            /\ qs[i].removed = (i = k \/ rs[i].removed)
    BY <1>2, <1>3, <2>2
  <2>4. rs[k].addr = c /\ Released(ps, c) = {rs[k].id}
    <3>1. {Position(ps, c)} \ {0} = {k}
      BY <1>6
    <3>2. Released(ps, c) = {ps[k].id}
      BY <3>1 DEF Released
    <3> QED
      BY <1>2, <1>3, <1>4, <1>6, <3>2
  <2> QED
    BY <1>1, <1>2, <1>3, <1>6, <2>1, <2>2, <2>3, <2>4
<1> QED
  BY <1>5, <1>6

LEMMA DismissesTypes ==
  ASSUME Types, NEW c \in Clients, Dismisses(c), RequestTypes'
  PROVE  Types'
<1>1. PICK ps : /\ Alike(Host, peers[Host], ps)
                /\ LET k == Position(ps, c)
                   IN  peers' = [peers EXCEPT ![Host] = IF k = 0 THEN ps ELSE Marked(ps, k)]
                /\ usedIds' = [usedIds EXCEPT ![Host] = @ \ Released(ps, c)]
  BY DEF Dismisses
<1>2. PICK k : k = Position(ps, c)
  OBVIOUS
<1>3. PICK qs : qs = IF k = 0 THEN ps ELSE Marked(ps, k)
  OBVIOUS
<1>4. peers' = [peers EXCEPT ![Host] = qs] /\ Host \in Nodes
  BY <1>1, <1>2, <1>3 DEF Nodes
<1>5. /\ qs \in Seq(Peer) /\ Len(qs) = Len(peers[Host]) /\ DOMAIN qs = DOMAIN peers[Host]
      /\ \A i \in DOMAIN qs : qs[i].addr = peers[Host][i].addr
  BY <1>1, <1>2, <1>3, DismissedIs
<1>6. Len(qs) <= MaxPeers(Host)
  BY <1>4, <1>5 DEF Types, TypeOK
<1>7. \A i \in DOMAIN qs : <<Host, qs[i].addr>> \in Links
  BY <1>4, <1>5 DEF Types, Roles, Entries
<1>8. PICK P : P = {[cmd |-> "peer_disconnect", addr |-> c]}
  OBVIOUS
<1>9. Goes(net, net', Host, P)
  <2>1. PICK i \in GoodbyesIn(net, c) : Goes(Without(<<c, Host>>, i), net', Host, P)
    BY <1>8 DEF Dismisses
  <2>2. Goes(net, Without(<<c, Host>>, i), Host, {})
    <3>1. <<c, Host>> \in Links /\ i \in DOMAIN net[<<c, Host>>] /\ Fits(net)
      BY LinksAre DEF GoodbyesIn, Types
    <3> QED
      BY <3>1, TakeGoes DEF Without
  <2>3. {} \cup P = P
    OBVIOUS
  <2> QED
    BY <2>1, <2>2, <2>3, GoesFurther
<1>10. Proper(Host, P)
  BY <1>8 DEF Proper
<1>11. usedIds' \in [Nodes -> SUBSET AllIds] /\ open' \subseteq Nodes
  BY <1>1 DEF Dismisses, Types, TypeOK
<1> QED
  BY <1>4, <1>5, <1>6, <1>7, <1>9, <1>10, <1>11, TypesKept

LEMMA CloseTypes ==
  ASSUME Types, NEW n \in Nodes, Close(n), RequestTypes'
  PROVE  Types'
<1>1. PICK qs \in Seq(Peer) : qs = <<>>
  <2>1. <<>> \in Seq(Peer)
    OBVIOUS
  <2> QED
    BY <2>1
<1>2. PICK P : P = {[cmd |-> "disconnect"]}
  OBVIOUS
<1>3. Goes(net, net', n, P) /\ Proper(n, P)
  <2>1. peers[n] \in Seq(Peer) /\ Fits(net)
    BY DEF Types, TypeOK
  <2>2. [cmd |-> "disconnect"] \in Packet
    BY DEF Packet
  <2>3. Goes(net, net', n, {[cmd |-> "disconnect"]})
    BY <2>1, <2>2, SendToAllGoes DEF Close
  <2> QED
    BY <1>2, <2>3 DEF Proper
<1>4. Len(qs) <= MaxPeers(n) /\ \A i \in DOMAIN qs : <<n, qs[i].addr>> \in Links
  BY <1>1, ConnectionAssumption DEF MaxPeers
<1>5. peers' = [peers EXCEPT ![n] = qs] /\ open' = open \ {n} /\ usedIds' = usedIds
  BY <1>1 DEF Close
<1>6. usedIds' \in [Nodes -> SUBSET AllIds] /\ open' \subseteq Nodes
  BY <1>5 DEF Types, TypeOK
<1> QED
  BY <1>3, <1>4, <1>5, <1>6, TypesKept

LEMMA TypesStep ==
  ASSUME Types, [Next]_vars
  PROVE  Types'
<1>1. RequestTypes'
  BY RequestTyped
<1> QED
  BY <1>1, StepIs, PlainTypes, ServesTypes, JoinsTypes, DismissesTypes, CloseTypes

LEMMA TypesInit == Init => Types
<1> SUFFICES ASSUME Init PROVE Types
  OBVIOUS
<1>1. /\ open = Nodes /\ peers = [n \in Nodes |-> <<>>] /\ usedIds = [n \in Nodes |-> {}]
      /\ request = [c \in Clients |-> "none"] /\ failed = {} /\ twice = {} /\ attempts = [c \in Clients |-> 0]
      /\ net = [l \in Links |-> <<>>]
  BY DEF Init
<1>2. Fits(net)
  <2>1. net \in [Links -> Seq(Packet)] /\ \A l \in Links : DOMAIN net[l] = {}
    BY <1>1
  <2>2. Slots(net) = {}
    BY <2>1 DEF Slots
  <2>3. IsFiniteSet(Slots(net)) /\ Load(net) = 0
    BY <2>2, FS_EmptySet DEF Load
  <2> QED
    BY <2>1, <2>3, ConnectionAssumption DEF Fits
<1>3. peers \in [Nodes -> Seq(Peer)] /\ \A n \in Nodes : Len(peers[n]) <= MaxPeers(n)
  BY <1>1, ConnectionAssumption DEF MaxPeers
<1>4. TypeOK
  BY <1>1, <1>2, <1>3, ConnectionAssumption DEF TypeOK, Fits
<1>5. Roles
  BY <1>1, LinksAre DEF Roles, Entries, InFlightTo, ToSet, Nodes
<1> QED
  BY <1>2, <1>4, <1>5 DEF Types

-----------------------------------------------------------------------------
(* Waiting.                                                                *)

LEMMA PlainThins ==
  ASSUME Types, NEW n \in Nodes, PlainStep(n)
  PROVE  \A m \in Nodes : Thins(m, peers[m], peers'[m])
<1>1. PICK qs : Thins(n, peers[n], qs) /\ peers' = [peers EXCEPT ![n] = qs]
  BY DEF PlainStep
<1>2. peers'[n] = qs /\ \A m \in Nodes \ {n} : peers'[m] = peers[m]
  BY <1>1 DEF Types, TypeOK
<1> QED
  BY <1>1, <1>2, SameThins

LEMMA WaitingStep ==
  ASSUME Types, Waiting, [Next]_vars
  PROVE  Waiting'
<1>1. StillWaiting
  BY WaitsOn
<1>2. SUFFICES ASSUME NEW c \in Clients, c \in (Pending \cup failed)'
               PROVE  peers'[c] = <<>>
  BY <1>1 DEF Waiting, StillWaiting
<1>3. peers[c] = <<>> /\ c \in Nodes /\ c # Host
  BY <1>1, <1>2, LinksAre DEF StillWaiting, Nodes
<1>4. peers \in [Nodes -> Seq(Peer)]
  BY DEF Types, TypeOK
<1>5. CASE \E n \in Nodes : PlainStep(n)
  <2>1. Thins(c, peers[c], peers'[c]) /\ peers[c] \in Seq(Peer)
    BY <1>3, <1>4, <1>5, PlainThins
  <2> QED
    BY <1>3, <2>1, ThinsEmpty
<1>6. CASE \E d \in Clients : Serves(d) \/ Dismisses(d)
  BY <1>3, <1>4, <1>6 DEF Serves, Dismisses
<1>7. CASE \E d \in Clients : Joins(d)
  <2>1. PICK d \in Clients : Joins(d)
    BY <1>7
  <2>2. CASE d # c
    BY <1>3, <1>4, <2>1, <2>2 DEF Joins
  <2>3. CASE d = c
    <3>1. ~Knows(c, Host)
      BY <1>3, KnowsNobody
    <3>2. c \in Pending /\ c \notin Pending' /\ failed' = failed
      BY <2>1, <2>3, <3>1 DEF Joins, RemoveRequest, Pending, Types, TypeOK
    <3>3. c \in failed /\ c \notin failed
      BY <1>2, <3>2 DEF Waiting
    <3> QED
      BY <3>3
  <2> QED
    BY <2>2, <2>3
<1>8. CASE \E n \in Nodes : Close(n)
  BY <1>3, <1>4, <1>8 DEF Close
<1> QED
  BY <1>5, <1>6, <1>7, <1>8, StepIs

-----------------------------------------------------------------------------
(* Identities.                                                             *)

\* When lists only lose entries and nobody is accepted, nothing new is reserved.
LEMMA Fewer ==
  ASSUME Types, \A m \in Nodes : Thins(m, peers[m], peers'[m]), open' \subseteq open,
         \A c \in Clients : \A p \in ToSet(net'[<<Host, c>>]) :
           p \in ToSet(net[<<Host, c>>]) \/ p.cmd # "connect_accept"
  PROVE  /\ \A c \in Clients, id \in AllIds : Reserved(c, id)' => Reserved(c, id)
         /\ \A c \in Clients : Dismissed(c) = {} => Dismissed(c)' = {}
         /\ ServedDiffer => ServedDiffer'
<1>0. peers \in [Nodes -> Seq(Peer)] /\ Host \in Nodes /\ Clients \subseteq Nodes
  BY DEF Types, TypeOK, Nodes
<1>1. PICK rs \in Seq(Peer) : rs = peers[Host]
  BY <1>0
<1>2. PICK qs : qs = peers'[Host]
  OBVIOUS
<1>3. Thins(Host, rs, qs)
  BY <1>0, <1>1, <1>2
<1>4. PICK g \in [DOMAIN qs -> DOMAIN rs] :
        /\ \A i, j \in DOMAIN qs : i # j => g[i] # g[j]
        /\ \A i \in DOMAIN qs : /\ qs[i].addr = rs[g[i]].addr /\ qs[i].id = rs[g[i]].id
                                /\ qs[i].removed = rs[g[i]].removed
  <2>1. \E g \in [DOMAIN qs -> DOMAIN rs] : Comes(Host, rs, qs, g)
    BY <1>3, ThinsFrom
  <2> QED
    BY <2>1 DEF Comes
<1>5. ASSUME NEW c \in Clients, NEW id \in AllIds
      PROVE  Reserved(c, id)' => Reserved(c, id)
  <2>1. Served(c, id)' => Served(c, id)
    <3> SUFFICES ASSUME NEW i \in DOMAIN qs, qs[i].addr = c, qs[i].id = id, ~qs[i].removed
                 PROVE  Served(c, id)
      BY <1>2 DEF Served, Entries
    <3>1. g[i] \in DOMAIN rs /\ rs[g[i]].addr = c /\ rs[g[i]].id = id /\ ~rs[g[i]].removed
      BY <1>4
    <3> QED
      BY <1>1, <3>1 DEF Served, Entries
  <2>2. Promised(c, id)' => Promised(c, id)
    BY DEF Promised, InFlightTo
  <2>3. Believed(c, id)' => Believed(c, id)
    <3>1. PICK ps \in Seq(Peer) : ps = peers[c]
      BY <1>0
    <3>2. PICK os : os = peers'[c]
      OBVIOUS
    <3>3. Thins(c, ps, os)
      BY <1>0, <3>1, <3>2
    <3>4. PICK f \in [DOMAIN os -> DOMAIN ps] : Comes(c, ps, os, f)
      BY <3>3, ThinsFrom
    <3>5. (\E i \in DOMAIN os : os[i].id = id) => \E i \in DOMAIN ps : ps[i].id = id
      BY <3>4 DEF Comes
    <3> QED
      BY <3>1, <3>2, <3>5 DEF Believed, Entries
  <2> QED
    BY <2>1, <2>2, <2>3 DEF Reserved
<1>6. ASSUME NEW c \in Clients, Dismissed(c) = {}
      PROVE  Dismissed(c)' = {}
  <2> SUFFICES ASSUME NEW i \in DOMAIN qs, qs[i].addr = c, qs[i].removed
               PROVE  FALSE
    BY <1>2 DEF Dismissed, Entries
  <2>1. g[i] \in DOMAIN rs /\ rs[g[i]].addr = c /\ rs[g[i]].removed
    BY <1>4
  <2>2. g[i] \in Dismissed(c)
    BY <1>1, <2>1 DEF Dismissed, Entries
  <2> QED
    BY <1>6, <2>2
<1>7. ASSUME ServedDiffer
      PROVE  ServedDiffer'
  <2>1. \A i, j \in DOMAIN rs : i # j /\ ~rs[i].removed /\ ~rs[j].removed => rs[i].id # rs[j].id
    BY <1>1, <1>7 DEF ServedDiffer, IdsDiffer
  <2>2. \A i, j \in DOMAIN qs : i # j /\ ~qs[i].removed /\ ~qs[j].removed => qs[i].id # qs[j].id
    <3> SUFFICES ASSUME NEW i \in DOMAIN qs, NEW j \in DOMAIN qs, i # j, ~qs[i].removed, ~qs[j].removed
                 PROVE  qs[i].id # qs[j].id
      OBVIOUS
    <3>1. /\ g[i] \in DOMAIN rs /\ g[j] \in DOMAIN rs /\ g[i] # g[j]
          /\ ~rs[g[i]].removed /\ ~rs[g[j]].removed
          /\ qs[i].id = rs[g[i]].id /\ qs[j].id = rs[g[j]].id
      BY <1>4
    <3> QED
      BY <2>1, <3>1
  <2> QED
    BY <1>2, <2>2 DEF ServedDiffer, IdsDiffer
<1> QED
  BY <1>5, <1>6, <1>7

LEMMA PlainIdentities ==
  ASSUME Types, Identities, NEW n \in Nodes, PlainStep(n)
  PROVE  Identities'
<1>1. \A m \in Nodes : Thins(m, peers[m], peers'[m])
  BY PlainThins
<1>2. PICK P : Goes(net, net', n, P) /\ \A p \in P : p.cmd \notin {"connect_accept", "disconnect"}
  BY DEF PlainStep
<1>3. open' = open /\ usedIds'[Host] = usedIds[Host]
  BY DEF PlainStep
<1>4. \A c \in Clients : Calm(net, net', c)
  BY <1>2 DEF Goes, Leaves
<1>5. \A c \in Clients : \A p \in ToSet(net'[<<Host, c>>]) :
        p \in ToSet(net[<<Host, c>>]) \/ p.cmd # "connect_accept"
  BY <1>2, LinksAre DEF Goes
<1>6. /\ \A c \in Clients, id \in AllIds : Reserved(c, id)' => Reserved(c, id)
      /\ \A c \in Clients : Dismissed(c) = {} => Dismissed(c)' = {}
      /\ ServedDiffer => ServedDiffer'
  BY <1>1, <1>3, <1>5, Fewer
<1>7. LeavesOnce'
  <2> SUFFICES ASSUME NEW c \in Clients
               PROVE  /\ \A i, j \in Goodbyes(c)' : i = j
                      /\ c \in open' => Goodbyes(c)' = {} /\ Dismissed(c)' = {}
                      /\ Goodbyes(c)' # {} => Dismissed(c)' = {}
    BY DEF LeavesOnce
  <2>1. /\ Goodbyes(c) = {} => Goodbyes(c)' = {}
        /\ (\A i, j \in Goodbyes(c) : i = j) => \A i, j \in Goodbyes(c)' : i = j
    BY <1>4 DEF Goodbyes, Calm
  <2>2. /\ \A i, j \in Goodbyes(c) : i = j
        /\ c \in open => Goodbyes(c) = {} /\ Dismissed(c) = {}
        /\ Goodbyes(c) # {} => Dismissed(c) = {}
    BY DEF Identities, LeavesOnce
  <2>3. Dismissed(c) = {} => Dismissed(c)' = {}
    BY <1>6
  <2> QED
    BY <1>3, <2>1, <2>2, <2>3
<1>8. ClosedIsEmpty'
  <2> SUFFICES ASSUME NEW m \in Nodes \ open
               PROVE  peers'[m] = <<>>
    BY <1>3 DEF ClosedIsEmpty
  <2>1. peers[m] = <<>> /\ Thins(m, peers[m], peers'[m]) /\ peers[m] \in Seq(Peer)
    BY <1>1 DEF Identities, ClosedIsEmpty, Types, TypeOK
  <2> QED
    BY <2>1, ThinsEmpty
<1>9. IdsReserved'
  BY <1>3, <1>6 DEF Identities, IdsReserved
<1> QED
  BY <1>6, <1>7, <1>8, <1>9 DEF Identities

\* A client with a free identity: whoever is served has another one.
LEMMA ServesIdentities ==
  ASSUME Types, Identities, NEW c \in Clients, Serves(c), Types'
  PROVE  Identities'
<1>1. PICK id : id = FreeId(Host)
  OBVIOUS
<1>2. id \in AllIds /\ id \notin usedIds[Host] /\ Host \in Nodes /\ Clients \subseteq Nodes /\ c # Host
  <2>1. Host \in Nodes /\ Clients \subseteq Nodes /\ c # Host
    BY LinksAre DEF Nodes
  <2> QED
    BY <1>1, <2>1, FreeIdIs, IdsAre DEF Serves, HasRoom
<1>3. PICK rs \in Seq(Peer) : rs = peers[Host]
  BY <1>2 DEF Types, TypeOK
<1>4. PICK ps : Alike(Host, rs, ps) /\ peers' = [peers EXCEPT ![Host] = Append(ps, NewPeer(c, id))]
  BY <1>1, <1>3 DEF Serves
<1>5. PICK e \in Peer : e = NewPeer(c, id) /\ e.addr = c /\ e.id = id /\ e.removed = FALSE
  BY <1>2, NewPeerIs
<1>6. PICK qs : qs = Append(ps, e)
  OBVIOUS
<1>7. peers'[Host] = qs /\ \A n \in Nodes \ {Host} : peers'[n] = peers[n]
  BY <1>2, <1>4, <1>5, <1>6 DEF Types, TypeOK
<1> DEFINE L == Len(rs) + 1
<1>8. /\ DOMAIN qs = DOMAIN rs \cup {L} /\ L \notin DOMAIN rs /\ qs[L] = e
      /\ \A i \in DOMAIN rs : /\ qs[i].addr = rs[i].addr /\ qs[i].id = rs[i].id
                              /\ qs[i].removed = rs[i].removed
  <2>1. Grown(Host, rs, qs, e)
    BY <1>4, <1>6, Added
  <2>2. /\ DOMAIN rs = 1..Len(rs) /\ DOMAIN qs = 1..(Len(rs) + 1) /\ Len(rs) \in Nat /\ qs[L] = e
        /\ \A i \in DOMAIN rs : /\ qs[i].addr = rs[i].addr /\ qs[i].id = rs[i].id
                                /\ qs[i].removed = rs[i].removed
    BY <2>1 DEF Grown
  <2>3. DOMAIN qs = DOMAIN rs \cup {L} /\ L \notin DOMAIN rs
    BY <2>2
  <2> QED
    BY <2>2, <2>3
<1> HIDE DEF L
<1>9. /\ open' = open /\ usedIds' = [usedIds EXCEPT ![Host] = @ \cup {id}]
      /\ Goes(net, net', Host, {[cmd |-> "connect_accept", id |-> id]})
  BY <1>1 DEF Serves
<1>10. usedIds'[Host] = usedIds[Host] \cup {id}
  BY <1>2, <1>9 DEF Types, TypeOK
<1>11. \A d \in Clients : Calm(net, net', d)
  BY <1>9 DEF Goes, Leaves
<1>12. \A d \in Clients : Dismissed(d)' = Dismissed(d)
  <2> TAKE d \in Clients
  <2>1. {i \in DOMAIN qs : qs[i].addr = d /\ qs[i].removed} = {i \in DOMAIN rs : rs[i].addr = d /\ rs[i].removed}
    BY <1>5, <1>8
  <2> QED
    BY <1>3, <1>7, <2>1 DEF Dismissed, Entries
<1>13. LeavesOnce'
  <2> SUFFICES ASSUME NEW d \in Clients
               PROVE  /\ \A i, j \in Goodbyes(d)' : i = j
                      /\ d \in open' => Goodbyes(d)' = {} /\ Dismissed(d)' = {}
                      /\ Goodbyes(d)' # {} => Dismissed(d)' = {}
    BY DEF LeavesOnce
  <2>1. /\ Goodbyes(d) = {} => Goodbyes(d)' = {}
        /\ (\A i, j \in Goodbyes(d) : i = j) => \A i, j \in Goodbyes(d)' : i = j
    BY <1>11 DEF Goodbyes, Calm
  <2>2. /\ \A i, j \in Goodbyes(d) : i = j
        /\ d \in open => Goodbyes(d) = {} /\ Dismissed(d) = {}
        /\ Goodbyes(d) # {} => Dismissed(d) = {}
    BY DEF Identities, LeavesOnce
  <2> QED
    BY <1>9, <1>12, <2>1, <2>2
<1>14. ClosedIsEmpty'
  <2>1. Host \in open
    BY DEF Serves
  <2> QED
    BY <1>7, <1>9, <2>1 DEF Identities, ClosedIsEmpty
<1>15. ASSUME NEW d \in Clients, NEW j \in AllIds, Reserved(d, j)'
       PROVE  (d = c /\ j = id) \/ Reserved(d, j)
  <2>1. Served(d, j)' => (d = c /\ j = id) \/ Served(d, j)
    <3>1. (\E i \in DOMAIN qs : qs[i].addr = d /\ qs[i].id = j /\ ~qs[i].removed)
            => (d = c /\ j = id) \/ \E i \in DOMAIN rs : rs[i].addr = d /\ rs[i].id = j /\ ~rs[i].removed
      BY <1>5, <1>8
    <3> QED
      BY <1>3, <1>7, <3>1 DEF Served, Entries
  <2>2. Promised(d, j)' => (d = c /\ j = id) \/ Promised(d, j)
    <3> SUFFICES ASSUME NEW p \in ToSet(net'[<<Host, d>>]), p.cmd = "connect_accept", p.id = j
                 PROVE  (d = c /\ j = id) \/ Promised(d, j)
      BY DEF Promised, InFlightTo
    <3>1. CASE p \in ToSet(net[<<Host, d>>])
      BY <3>1 DEF Promised, InFlightTo
    <3>2. CASE p \notin ToSet(net[<<Host, d>>])
      <4>1. p = [cmd |-> "connect_accept", id |-> id]
        BY <1>9, <3>2, LinksAre DEF Goes
      <4>2. d = c
        <5>1. <<Host, d>> \in Links
          BY LinksAre
        <5>2. <<Host, d>> = <<Host, c>>
          BY <3>2, <5>1 DEF Serves
        <5> QED
          BY <5>2
      <4> QED
        BY <4>1, <4>2
    <3> QED
      BY <3>1, <3>2
  <2>3. Believed(d, j)' => Believed(d, j)
    BY <1>2, <1>7, LinksAre DEF Believed, Entries
  <2> QED
    BY <1>9, <1>15, <2>1, <2>2, <2>3 DEF Reserved
<1>16. IdsReserved'
  <2> SUFFICES ASSUME NEW d \in Clients, NEW j \in AllIds, Reserved(d, j)'
               PROVE  /\ j \in usedIds'[Host]
                      /\ \A h \in Clients : Reserved(h, j)' => h = d
    BY DEF IdsReserved
  <2>1. \A h \in Clients, k \in AllIds :
          Reserved(h, k) => k \in usedIds[Host] /\ \A g \in Clients : Reserved(g, k) => g = h
    BY DEF Identities, IdsReserved
  <2>2. \A h \in Clients : ~Reserved(h, id)
    BY <1>2, <2>1
  <2>3. (d = c /\ j = id) \/ Reserved(d, j)
    BY <1>15
  <2>4. \A h \in Clients : Reserved(h, j)' => (h = c /\ j = id) \/ Reserved(h, j)
    BY <1>15
  <2> QED
    BY <1>10, <2>1, <2>2, <2>3, <2>4
<1>17. ServedDiffer'
  <2>1. ASSUME NEW i \in DOMAIN rs, ~rs[i].removed
        PROVE  rs[i].id # id
    <3>1. <<Host, rs[i].addr>> \in Links /\ rs[i] \in Peer
      BY <1>2, <1>3 DEF Types, Roles, Entries
    <3>2. rs[i].addr \in Clients /\ rs[i].id \in AllIds
      BY <3>1, LinksAre DEF Peer
    <3>3. Served(rs[i].addr, rs[i].id)
      BY <1>3, <2>1 DEF Served, Entries
    <3>4. rs[i].id \in usedIds[Host]
      BY <3>2, <3>3 DEF Identities, IdsReserved, Reserved
    <3> QED
      BY <1>2, <3>4
  <2>2. \A i, j \in DOMAIN rs : i # j /\ ~rs[i].removed /\ ~rs[j].removed => rs[i].id # rs[j].id
    BY <1>3 DEF Identities, ServedDiffer, IdsDiffer
  <2>3. \A i, j \in DOMAIN qs : i # j /\ ~qs[i].removed /\ ~qs[j].removed => qs[i].id # qs[j].id
    BY <1>5, <1>8, <2>1, <2>2
  <2> QED
    BY <1>7, <2>3 DEF ServedDiffer, IdsDiffer
<1> QED
  BY <1>13, <1>14, <1>16, <1>17 DEF Identities

\* A client that learns its identity was promised it.
LEMMA JoinsIdentities ==
  ASSUME Types, Identities, NEW c \in Clients, Joins(c), RequestTypes'
  PROVE  Identities'
<1>1. Host \in Nodes /\ c \in Nodes /\ c # Host /\ peers \in [Nodes -> Seq(Peer)] /\ Clients \subseteq Nodes
  BY LinksAre DEF Nodes, Types, TypeOK
<1>2. PICK ps, p : /\ p \in InFlightTo(<<Host, c>>) /\ p \in Packet /\ p.cmd = "connect_accept"
                   /\ Alike(c, peers[c], ps)
                   /\ peers' = [peers EXCEPT ![c] = Append(ps, NewPeer(Host, p.id))]
  BY DEF Joins
<1>3. p.id \in AllIds
  BY <1>2 DEF Packet, AllIds
<1>4. PICK e \in Peer : e = NewPeer(Host, p.id) /\ e.id = p.id
  BY <1>1, <1>3, NewPeerIs
<1>5. PICK rs \in Seq(Peer) : rs = peers[c]
  BY <1>1
<1>6. PICK qs : qs = Append(ps, e)
  OBVIOUS
<1>7. peers'[c] = qs /\ \A n \in Nodes \ {c} : peers'[n] = peers[n]
  BY <1>1, <1>2, <1>4, <1>6
<1>8. \A i \in DOMAIN qs : qs[i].id = p.id \/ \E j \in DOMAIN rs : qs[i].id = rs[j].id
  <2>1. Grown(c, rs, qs, e)
    BY <1>2, <1>5, <1>6, Added
  <2>2. /\ DOMAIN rs = 1..Len(rs) /\ DOMAIN qs = 1..(Len(rs) + 1) /\ Len(rs) \in Nat
        /\ qs[Len(rs) + 1] = e /\ \A i \in DOMAIN rs : qs[i].id = rs[i].id
    BY <2>1 DEF Grown
  <2>3. \A i \in DOMAIN qs : i = Len(rs) + 1 \/ i \in DOMAIN rs
    BY <2>2
  <2> QED
    BY <1>4, <2>2, <2>3
<1>9. open' = open /\ c \in open /\ usedIds'[Host] = usedIds[Host]
  BY JoinsTypes DEF Joins
<1>10. PICK P : P = {[cmd |-> "connected"]} /\ Goes(net, net', c, P)
  BY DEF Joins
<1>11. \A d \in Clients : Calm(net, net', d)
  BY <1>10 DEF Goes, Leaves
<1>12. peers'[Host] = peers[Host]
  BY <1>1, <1>7
<1>13. LeavesOnce'
  <2> SUFFICES ASSUME NEW d \in Clients
               PROVE  /\ \A i, j \in Goodbyes(d)' : i = j
                      /\ d \in open' => Goodbyes(d)' = {} /\ Dismissed(d)' = {}
                      /\ Goodbyes(d)' # {} => Dismissed(d)' = {}
    BY DEF LeavesOnce
  <2>1. /\ Goodbyes(d) = {} => Goodbyes(d)' = {}
        /\ (\A i, j \in Goodbyes(d) : i = j) => \A i, j \in Goodbyes(d)' : i = j
    BY <1>11 DEF Goodbyes, Calm
  <2>2. /\ \A i, j \in Goodbyes(d) : i = j
        /\ d \in open => Goodbyes(d) = {} /\ Dismissed(d) = {}
        /\ Goodbyes(d) # {} => Dismissed(d) = {}
    BY DEF Identities, LeavesOnce
  <2>3. Dismissed(d)' = Dismissed(d)
    BY <1>12 DEF Dismissed, Entries
  <2> QED
    BY <1>9, <2>1, <2>2, <2>3
<1>14. ClosedIsEmpty'
  BY <1>7, <1>9 DEF Identities, ClosedIsEmpty
<1>15. ASSUME NEW d \in Clients, NEW j \in AllIds, Reserved(d, j)'
       PROVE  Reserved(d, j)
  <2>1. Served(d, j)' => Served(d, j)
    BY <1>12 DEF Served, Entries
  <2>2. Promised(d, j)' => Promised(d, j)
    <3> SUFFICES ASSUME NEW q \in ToSet(net'[<<Host, d>>]), q.cmd = "connect_accept", q.id = j
                 PROVE  q \in ToSet(net[<<Host, d>>])
      BY DEF Promised, InFlightTo
    <3> QED
      BY <1>10, LinksAre DEF Goes
  <2>3. Believed(d, j)' => Believed(d, j) \/ (d = c /\ Promised(d, j))
    <3>1. CASE d = c
      <4>1. (\E i \in DOMAIN qs : qs[i].id = j) => j = p.id \/ \E i \in DOMAIN rs : rs[i].id = j
        BY <1>8
      <4>2. j = p.id => Promised(c, j)
        BY <1>2 DEF Promised
      <4> QED
        BY <1>5, <1>7, <3>1, <4>1, <4>2 DEF Believed, Entries
    <3>2. CASE d # c
      BY <1>1, <1>7, <3>2 DEF Believed, Entries
    <3> QED
      BY <3>1, <3>2
  <2> QED
    BY <1>9, <1>15, <2>1, <2>2, <2>3 DEF Reserved
<1>16. IdsReserved'
  BY <1>9, <1>15 DEF Identities, IdsReserved
<1>17. ServedDiffer'
  BY <1>12 DEF Identities, ServedDiffer, IdsDiffer
<1> QED
  BY <1>13, <1>14, <1>16, <1>17 DEF Identities

\* Once the only DISCONNECT of a client is read, there is none.
LEMMA LastGoodbye ==
  ASSUME NEW w, Fits(w), NEW c \in Clients, \A i, j \in GoodbyesIn(w, c) : i = j,
         NEW i \in GoodbyesIn(w, c)
  PROVE  GoodbyesIn([w EXCEPT ![<<c, Host>>] = RemoveAt(@, i)], c) = {}
<1>1. PICK l \in Links : l = <<c, Host>>
  BY LinksAre
<1>2. PICK v : v = [w EXCEPT ![l] = RemoveAt(@, i)]
  OBVIOUS
<1>3. w \in [Links -> Seq(Packet)] /\ w[l] \in Seq(Packet) /\ i \in DOMAIN w[l]
  BY <1>1 DEF Fits, GoodbyesIn
<1>4. /\ RemoveAt(w[l], i) \in Seq(Packet) /\ Len(RemoveAt(w[l], i)) = Len(w[l]) - 1
      /\ \A j \in 1..(Len(w[l]) - 1) : RemoveAt(w[l], i)[j] = IF j < i THEN w[l][j] ELSE w[l][j + 1]
  BY <1>3, ToSetRemoveAt
<1>5. v[l] = RemoveAt(w[l], i)
  BY <1>2, <1>3
<1>6. /\ Len(w[l]) \in Nat /\ DOMAIN w[l] = 1..Len(w[l]) /\ DOMAIN v[l] = 1..(Len(w[l]) - 1)
      /\ i \in 1..Len(w[l])
  BY <1>3, <1>4, <1>5
<1>7. ASSUME NEW g \in DOMAIN v[l], v[l][g].cmd = "disconnect"
      PROVE  FALSE
  <2>1. g \in 1..(Len(w[l]) - 1) /\ g \in Int /\ i \in Int /\ g \in 1..Len(w[l]) /\ g + 1 \in 1..Len(w[l])
    BY <1>6
  <2>2. v[l][g] = IF g < i THEN w[l][g] ELSE w[l][g + 1]
    BY <1>4, <1>5, <2>1
  <2>3. CASE g < i
    <3>1. g \in GoodbyesIn(w, c)
      BY <1>1, <1>6, <1>7, <2>1, <2>2, <2>3 DEF GoodbyesIn
    <3>2. g = i
      BY <3>1
    <3> QED
      BY <2>1, <2>3, <3>2
  <2>4. CASE ~(g < i)
    <3>1. g + 1 \in GoodbyesIn(w, c)
      BY <1>1, <1>6, <1>7, <2>1, <2>2, <2>4 DEF GoodbyesIn
    <3>2. g + 1 = i
      BY <3>1
    <3> QED
      BY <2>1, <2>4, <3>2
  <2> QED
    BY <2>3, <2>4
<1>8. GoodbyesIn(v, c) = {}
  BY <1>1, <1>7 DEF GoodbyesIn
<1> QED
  BY <1>1, <1>2, <1>8

\* The entry that is removed was served under an identity that was reserved for
\* this client alone: nobody needs it any more.
LEMMA DismissesIdentities ==
  ASSUME Types, Identities, NEW c \in Clients, Dismisses(c)
  PROVE  Identities'
<1>1. /\ Host \in Nodes /\ Clients \subseteq Nodes /\ peers \in [Nodes -> Seq(Peer)]
      /\ usedIds \in [Nodes -> SUBSET AllIds] /\ Fits(net) /\ <<c, Host>> \in Links
  BY LinksAre DEF Nodes, Types, TypeOK
<1>2. PICK rs \in Seq(Peer) : rs = peers[Host]
  BY <1>1
<1>3. PICK ps : /\ Alike(Host, peers[Host], ps)
                /\ LET k == Position(ps, c)
                   IN  peers' = [peers EXCEPT ![Host] = IF k = 0 THEN ps ELSE Marked(ps, k)]
                /\ usedIds' = [usedIds EXCEPT ![Host] = @ \ Released(ps, c)]
  BY DEF Dismisses
<1>4. PICK k : k = Position(ps, c)
  OBVIOUS
<1>5. PICK qs : qs = IF k = 0 THEN ps ELSE Marked(ps, k)
  OBVIOUS
<1>6. peers'[Host] = qs /\ \A n \in Nodes \ {Host} : peers'[n] = peers[n]
  BY <1>1, <1>3, <1>4, <1>5
<1>7. /\ DOMAIN qs = DOMAIN rs
      /\ \A i \in DOMAIN qs : /\ qs[i].addr = rs[i].addr /\ qs[i].id = rs[i].id
                              /\ qs[i].removed = (i = k \/ rs[i].removed)
      /\ k # 0 => k \in DOMAIN qs /\ rs[k].addr = c /\ Released(ps, c) = {rs[k].id}
      /\ k = 0 => Released(ps, c) = {} /\ \A i \in DOMAIN qs : rs[i].addr # c
  BY <1>2, <1>3, <1>4, <1>5, DismissedIs
<1>8. usedIds'[Host] = usedIds[Host] \ Released(ps, c) /\ open' = open
  BY <1>1, <1>3 DEF Dismisses
<1>0. PICK P : P = {[cmd |-> "peer_disconnect", addr |-> c]} /\ \A p \in P : p.cmd = "peer_disconnect"
  <2>1. PICK p : p = [cmd |-> "peer_disconnect", addr |-> c]
    OBVIOUS
  <2>2. PICK P : P = {p}
    OBVIOUS
  <2>3. \A q \in P : q.cmd = "peer_disconnect"
    BY <2>1, <2>2
  <2>4. P = {[cmd |-> "peer_disconnect", addr |-> c]}
    BY <2>1, <2>2
  <2> QED
    BY <2>3, <2>4
<1>9. PICK g \in GoodbyesIn(net, c) : Goes(Without(<<c, Host>>, g), net', Host, P)
  BY <1>0 DEF Dismisses
<1>10. PICK w : w = Without(<<c, Host>>, g)
  OBVIOUS
<1>11. Goes(net, w, Host, {}) /\ Goes(w, net', Host, P)
  <2>1. g \in DOMAIN net[<<c, Host>>]
    BY DEF GoodbyesIn
  <2> QED
    BY <1>1, <1>9, <1>10, <2>1, TakeGoes DEF Without
<1>12. Goes(net, net', Host, P)
  <2>1. {} \cup P = P
    OBVIOUS
  <2> QED
    BY <1>11, <2>1, GoesFurther
<1>13. \A d \in Clients : Calm(net, net', d) /\ Calm(w, net', d)
  BY <1>0, <1>11, <1>12 DEF Goes, Leaves
<1>14. Goodbyes(c) # {} /\ Goodbyes(c)' = {} /\ c \notin open /\ Dismissed(c) = {}
  <2>1. g \in Goodbyes(c)
    BY DEF Goodbyes
  <2>2. (\A i, j \in GoodbyesIn(net, c) : i = j) /\ c \notin open /\ Dismissed(c) = {}
    BY <2>1 DEF Identities, LeavesOnce, Goodbyes
  <2>3. GoodbyesIn(w, c) = {}
    BY <1>1, <1>10, <2>2, LastGoodbye DEF Without
  <2> QED
    BY <1>13, <2>1, <2>2, <2>3 DEF Calm, Goodbyes
<1>15. LeavesOnce'
  <2> SUFFICES ASSUME NEW d \in Clients
               PROVE  /\ \A i, j \in Goodbyes(d)' : i = j
                      /\ d \in open' => Goodbyes(d)' = {} /\ Dismissed(d)' = {}
                      /\ Goodbyes(d)' # {} => Dismissed(d)' = {}
    BY DEF LeavesOnce
  <2>1. CASE d = c
    BY <1>8, <1>14, <2>1
  <2>2. CASE d # c
    <3>1. /\ Goodbyes(d) = {} => Goodbyes(d)' = {}
          /\ (\A i, j \in Goodbyes(d) : i = j) => \A i, j \in Goodbyes(d)' : i = j
      BY <1>13 DEF Goodbyes, Calm
    <3>2. /\ \A i, j \in Goodbyes(d) : i = j
          /\ d \in open => Goodbyes(d) = {} /\ Dismissed(d) = {}
          /\ Goodbyes(d) # {} => Dismissed(d) = {}
      BY DEF Identities, LeavesOnce
    <3>3. Dismissed(d)' = Dismissed(d)
      <4>0. \A i \in DOMAIN qs : rs[i].addr = d => i # k
        <5>1. DOMAIN rs = 1..Len(rs) /\ Len(rs) \in Nat
          OBVIOUS
        <5> QED
          BY <1>7, <2>2, <5>1
      <4>1. {i \in DOMAIN qs : qs[i].addr = d /\ qs[i].removed} = {i \in DOMAIN rs : rs[i].addr = d /\ rs[i].removed}
        BY <1>7, <4>0
      <4> QED
        BY <1>2, <1>6, <4>1 DEF Dismissed, Entries
    <3> QED
      BY <1>8, <3>1, <3>2, <3>3
  <2> QED
    BY <2>1, <2>2
<1>16. ClosedIsEmpty'
  <2> SUFFICES ASSUME NEW n \in Nodes \ open
               PROVE  peers'[n] = <<>>
    BY <1>8 DEF ClosedIsEmpty
  <2>1. peers[n] = <<>>
    BY DEF Identities, ClosedIsEmpty
  <2>2. CASE n # Host
    BY <1>6, <2>1, <2>2
  <2>3. CASE n = Host
    <3>1. rs = <<>>
      BY <1>2, <2>1, <2>3
    <3>2. DOMAIN qs = {} /\ qs \in Seq(Peer) /\ Len(qs) = 0
      <4>1. qs \in Seq(Peer) /\ Len(qs) = Len(peers[Host])
        BY <1>3, <1>4, <1>5, DismissedIs
      <4>2. Len(peers[Host]) = 0
        BY <1>2, <3>1
      <4> QED
        BY <4>1, <4>2
    <3> QED
      BY <1>6, <2>3, <3>2
  <2> QED
    BY <2>2, <2>3
<1>17. ASSUME NEW d \in Clients, NEW j \in AllIds, Reserved(d, j)'
       PROVE  Reserved(d, j) /\ (Served(d, j)' \/ d \in open)
  <2>1. Served(d, j)' => Served(d, j)
    <3>1. (\E i \in DOMAIN qs : qs[i].addr = d /\ qs[i].id = j /\ ~qs[i].removed)
            => \E i \in DOMAIN rs : rs[i].addr = d /\ rs[i].id = j /\ ~rs[i].removed
      BY <1>7
    <3> QED
      BY <1>2, <1>6, <3>1 DEF Served, Entries
  <2>2. Promised(d, j)' => Promised(d, j)
    <3> SUFFICES ASSUME NEW q \in ToSet(net'[<<Host, d>>]), q.cmd = "connect_accept", q.id = j
                 PROVE  q \in ToSet(net[<<Host, d>>])
      BY DEF Promised, InFlightTo
    <3>1. <<Host, d>> \in Links /\ q \notin P
      BY <1>0, LinksAre
    <3> QED
      BY <1>12, <3>1 DEF Goes
  <2>3. Believed(d, j)' => Believed(d, j)
    BY <1>1, <1>6, LinksAre DEF Believed, Entries
  <2> QED
    BY <1>8, <1>17, <2>1, <2>2, <2>3 DEF Reserved
<1>18. \A h \in Clients, j \in AllIds :
         Reserved(h, j) => j \in usedIds[Host] /\ \A d \in Clients : Reserved(d, j) => d = h
  BY DEF Identities, IdsReserved
<1>19. \A i, j \in DOMAIN rs : i # j /\ ~rs[i].removed /\ ~rs[j].removed => rs[i].id # rs[j].id
  BY <1>2 DEF Identities, ServedDiffer, IdsDiffer
<1>20. ASSUME NEW d \in Clients, NEW j \in AllIds, Reserved(d, j)'
       PROVE  j \notin Released(ps, c)
  <2>1. CASE k = 0
    BY <1>7, <2>1
  <2>2. CASE k # 0
    <3> SUFFICES ASSUME j = rs[k].id
                 PROVE  FALSE
      BY <1>7, <2>2
    <3>1. k \in DOMAIN rs /\ rs[k].addr = c /\ ~rs[k].removed
      BY <1>2, <1>7, <1>14, <2>2 DEF Dismissed, Entries
    <3>2. Reserved(c, j)
      BY <1>2, <3>1 DEF Reserved, Served, Entries
    <3>3. d = c
      BY <1>17, <1>18, <1>20, <3>2
    <3>4. Served(c, j)'
      BY <1>14, <1>17, <1>20, <3>3
    <3>5. PICK i \in DOMAIN qs : qs[i].addr = c /\ qs[i].id = j /\ ~qs[i].removed
      BY <1>6, <3>4 DEF Served, Entries
    <3>6. i # k /\ i \in DOMAIN rs /\ ~rs[i].removed /\ rs[i].id = j
      BY <1>7, <3>5
    <3> QED
      BY <1>19, <3>1, <3>6
  <2> QED
    BY <2>1, <2>2
<1>21. IdsReserved'
  <2> SUFFICES ASSUME NEW d \in Clients, NEW j \in AllIds, Reserved(d, j)'
               PROVE  /\ j \in usedIds'[Host]
                      /\ \A h \in Clients : Reserved(h, j)' => h = d
    BY DEF IdsReserved
  <2> QED
    BY <1>8, <1>17, <1>18, <1>20
<1>22. ServedDiffer'
  <2>1. \A i, j \in DOMAIN qs : i # j /\ ~qs[i].removed /\ ~qs[j].removed => qs[i].id # qs[j].id
    BY <1>7, <1>19
  <2> QED
    BY <1>6, <2>1 DEF ServedDiffer, IdsDiffer
<1> QED
  BY <1>15, <1>16, <1>21, <1>22 DEF Identities

\* A socket that closes tells each entry of its list once, so that a client with
\* one entry sends one DISCONNECT.
LEMMA ClosesOnce ==
  ASSUME Types, Identities, NEW c \in Clients, Len(peers[c]) <= 1, c \in open,
         NEW w, w = SentToAll(net, c, peers[c], [cmd |-> "disconnect"])
  PROVE  \A i, j \in GoodbyesIn(w, c) : i = j
<1>1. PICK ps \in Seq(Peer) : ps = peers[c]
  BY DEF Types, TypeOK, Nodes
<1>2. PICK p \in Packet : p = [cmd |-> "disconnect"]
  BY DEF Packet
<1>3. Len(ps) = 0 \/ Len(ps) = 1
  <2>1. PICK k \in Nat : k = Len(ps) /\ k <= 1
    BY <1>1
  <2>2. k = 0 \/ k = 1
    BY <2>1
  <2> QED
    BY <2>1, <2>2
<1>4. Fits(net) /\ GoodbyesIn(net, c) = {}
  BY DEF Types, Identities, LeavesOnce, Goodbyes
<1>5. PICK s : s = SentToFirst(net, c, ps, p)
  OBVIOUS
<1>6. /\ s[0] = net /\ w = s[Len(ps)]
      /\ \A k \in 1..Len(ps) :
           s[k] = IF ps[k].removed THEN s[k - 1] ELSE Sent(s[k - 1], c, ps[k].addr, p)
  <2>1. w = SentToAll(net, c, ps, p)
    BY <1>1, <1>2
  <2>2. w = s[Len(ps)]
    BY <1>5, <2>1 DEF SentToAll
  <2>3. /\ s[0] = net
        /\ \A k \in 1..Len(ps) :
             s[k] = IF ps[k].removed THEN s[k - 1] ELSE Sent(s[k - 1], c, ps[k].addr, p)
    <3>1. Unfolds(s, net, c, ps, p)
      BY <1>4, <1>5, SentToFirstIs
    <3> QED
      BY <3>1 DEF Unfolds
  <2> QED
    BY <2>2, <2>3
<1>7. w = net \/ \E m : w = Sent(net, c, m, p)
  <2>1. CASE Len(ps) = 0
    BY <1>6, <2>1
  <2>2. CASE Len(ps) = 1
    <3>1. w = s[1] /\ 1 \in 1..Len(ps) /\ 1 - 1 = 0
      BY <1>6, <2>2
    <3>2. s[1] = IF ps[1].removed THEN s[0] ELSE Sent(s[0], c, ps[1].addr, p)
      BY <1>6, <3>1
    <3> QED
      BY <1>6, <3>1, <3>2
  <2> QED
    BY <1>3, <2>1, <2>2
<1>8. ASSUME NEW m, w = Sent(net, c, m, p), w # net
      PROVE  \A i, j \in GoodbyesIn(w, c) : i = j
  <2>1. PICK l : l = <<c, Host>>
    OBVIOUS
  <2>2. l \in Links /\ net \in [Links -> Seq(Packet)]
    BY <1>4, <2>1, LinksAre DEF Fits
  <2>3. w[l] = net[l] \/ w[l] = Append(net[l], p)
    BY <1>8, <2>2 DEF Sent
  <2>4. \A i \in DOMAIN net[l] : net[l][i].cmd # "disconnect"
    BY <1>4, <2>1 DEF GoodbyesIn
  <2>5. CASE w[l] = net[l]
    BY <2>1, <2>4, <2>5 DEF GoodbyesIn
  <2>6. CASE w[l] = Append(net[l], p)
    <3>1. net[l] \in Seq(Packet)
      BY <2>2
    <3>2. /\ Len(net[l]) \in Nat /\ DOMAIN net[l] = 1..Len(net[l]) /\ DOMAIN w[l] = 1..(Len(net[l]) + 1)
          /\ \A i \in 1..Len(net[l]) : w[l][i] = net[l][i]
      BY <2>6, <3>1, AppendProperties
    <3>3. \A i \in GoodbyesIn(w, c) : i = Len(net[l]) + 1
      <4> TAKE i \in GoodbyesIn(w, c)
      <4>1. i \in DOMAIN w[l] /\ w[l][i].cmd = "disconnect"
        BY <2>1 DEF GoodbyesIn
      <4>2. i \notin 1..Len(net[l])
        BY <2>4, <3>2, <4>1
      <4> QED
        BY <3>2, <4>1, <4>2
    <3> QED
      BY <3>3
  <2> QED
    BY <2>3, <2>5, <2>6
<1> QED
  BY <1>4, <1>7, <1>8

LEMMA CloseIdentities ==
  ASSUME Types, Identities, NEW n \in Nodes, Close(n), twice' = {}
  PROVE  Identities'
<1>1. /\ Host \in Nodes /\ Clients \subseteq Nodes /\ peers \in [Nodes -> Seq(Peer)] /\ Fits(net)
  BY DEF Nodes, Types, TypeOK
<1>2. /\ n \in open /\ open' = open \ {n} /\ peers' = [peers EXCEPT ![n] = <<>>] /\ usedIds' = usedIds
      /\ net' = SentToAll(net, n, peers[n], [cmd |-> "disconnect"])
  BY DEF Close
<1>3. PICK P : (\A p \in P : p.cmd = "disconnect") /\ Goes(net, net', n, P)
  <2>1. [cmd |-> "disconnect"] \in Packet
    BY DEF Packet
  <2>2. Goes(net, net', n, {[cmd |-> "disconnect"]})
    BY <1>1, <1>2, <2>1, SendToAllGoes
  <2> QED
    BY <2>2
<1>4. \A m \in Nodes : Thins(m, peers[m], peers'[m])
  <2>1. PICK qs \in Seq(Peer) : qs = <<>> /\ Len(qs) = 0
    <3>1. <<>> \in Seq(Peer) /\ Len(<<>>) = 0
      OBVIOUS
    <3> QED
      BY <3>1
  <2>2. Thins(n, peers[n], qs)
    BY <1>1, <2>1, EmptyThins
  <2>3. peers'[n] = qs /\ \A m \in Nodes \ {n} : peers'[m] = peers[m]
    BY <1>1, <1>2, <2>1
  <2> QED
    BY <2>2, <2>3, SameThins
<1>5. \A c \in Clients : \A p \in ToSet(net'[<<Host, c>>]) :
        p \in ToSet(net[<<Host, c>>]) \/ p.cmd # "connect_accept"
  BY <1>3, LinksAre DEF Goes
<1>6. /\ \A c \in Clients, id \in AllIds : Reserved(c, id)' => Reserved(c, id)
      /\ \A c \in Clients : Dismissed(c) = {} => Dismissed(c)' = {}
      /\ ServedDiffer => ServedDiffer'
  BY <1>2, <1>4, <1>5, Fewer
<1>7. LeavesOnce'
  <2> SUFFICES ASSUME NEW c \in Clients
               PROVE  /\ \A i, j \in Goodbyes(c)' : i = j
                      /\ c \in open' => Goodbyes(c)' = {} /\ Dismissed(c)' = {}
                      /\ Goodbyes(c)' # {} => Dismissed(c)' = {}
    BY DEF LeavesOnce
  <2>1. /\ \A i, j \in Goodbyes(c) : i = j
        /\ c \in open => Goodbyes(c) = {} /\ Dismissed(c) = {}
        /\ Goodbyes(c) # {} => Dismissed(c) = {}
    BY DEF Identities, LeavesOnce
  <2>2. Dismissed(c) = {} => Dismissed(c)' = {}
    BY <1>6
  <2>3. CASE c # n
    <3>1. Calm(net, net', c)
      BY <1>3, <2>3 DEF Goes, Leaves
    <3> QED
      BY <1>2, <2>1, <2>2, <3>1 DEF Goodbyes, Calm
  <2>4. CASE c = n
    <3>1. c \in open /\ c \notin open'
      BY <1>2, <2>4
    <3>2. \A i, j \in Goodbyes(c)' : i = j
      <4>1. PICK w : w = net'
        OBVIOUS
      <4>2. Len(peers[c]) <= 1
        <5>1. ~(Len(peers[n]) > 1)
          BY <2>4, LinksAre DEF Close
        <5>2. Len(peers[n]) \in Nat
          BY <1>1
        <5> QED
          BY <2>4, <5>1, <5>2
      <4>3. \A i, j \in GoodbyesIn(w, c) : i = j
        BY <1>2, <2>4, <3>1, <4>1, <4>2, ClosesOnce
      <4> QED
        BY <4>1, <4>3 DEF Goodbyes
    <3> QED
      BY <2>1, <2>2, <3>1, <3>2
  <2> QED
    BY <2>3, <2>4
<1>8. ClosedIsEmpty'
  BY <1>1, <1>2 DEF Identities, ClosedIsEmpty
<1>9. IdsReserved'
  BY <1>2, <1>6 DEF Identities, IdsReserved
<1> QED
  BY <1>6, <1>7, <1>8, <1>9 DEF Identities

-----------------------------------------------------------------------------
(* The theorems.                                                           *)

\* Each variable of the sockets keeps its type, no list of peers exceeds
\* m_maxPeers although the host promises places it may not have any more, and
\* the network is never over its bound.
THEOREM ConnectionTypeCorrect == Spec => []TypeOK
<1>1. Init => Types
  BY TypesInit
<1>2. Types /\ [Next]_vars => Types'
  BY TypesStep
<1>3. Types => TypeOK
  BY DEF Types
<1> QED
  BY <1>1, <1>2, <1>3, PTL DEF Spec

LEMMA WaitingInit == Init => Waiting
BY DEF Init, Waiting, Pending, Nodes

\* Whoever was told CONNECT_FAILED is not connected by a late CONNECT_ACCEPT:
\* parsePacket drops it, because the host is a stranger again.
THEOREM LateAnswersAreDropped == Spec => []FailedStaysFailed
<1>1. Init => Types /\ Waiting
  BY TypesInit, WaitingInit
<1>2. Types /\ Waiting /\ [Next]_vars => (Types /\ Waiting)'
  BY TypesStep, WaitingStep
<1>3. Types /\ Waiting => FailedStaysFailed
  BY KnowsNobody DEF Waiting, FailedStaysFailed, Types, TypeOK
<1> QED
  BY <1>1, <1>2, <1>3, PTL DEF Spec

LEMMA IdentitiesInit == Init => Identities
<1> SUFFICES ASSUME Init PROVE Identities
  OBVIOUS
<1>1. /\ open = Nodes /\ peers = [n \in Nodes |-> <<>>] /\ net = [l \in Links |-> <<>>]
  BY DEF Init
<1>2. Host \in Nodes /\ Clients \subseteq Nodes
  BY DEF Nodes
<1>3. \A n \in Nodes : Entries(n) = {}
  BY <1>1 DEF Entries
<1>4. \A l \in Links : DOMAIN net[l] = {} /\ InFlightTo(l) = {}
  BY <1>1 DEF InFlightTo, ToSet
<1>5. LeavesOnce
  BY <1>2, <1>3, <1>4, LinksAre DEF LeavesOnce, Goodbyes, GoodbyesIn, Dismissed
<1>6. ClosedIsEmpty
  BY <1>1 DEF ClosedIsEmpty
<1>7. \A c \in Clients, id \in AllIds : ~Reserved(c, id)
  BY <1>2, <1>3, <1>4, LinksAre DEF Reserved, Served, Promised, Believed
<1>8. IdsReserved
  BY <1>7 DEF IdsReserved
<1>9. ServedDiffer
  BY <1>2, <1>3 DEF ServedDiffer, IdsDiffer, Entries
<1> QED
  BY <1>5, <1>6, <1>8, <1>9 DEF Identities

LEMMA IdentitiesStep ==
  ASSUME Types, Identities, [Next]_vars, twice' = {}
  PROVE  Identities'
<1>1. RequestTypes' /\ Types'
  BY RequestTyped, TypesStep
<1>2. CASE \E n \in Nodes : PlainStep(n)
  BY <1>2, PlainIdentities
<1>3. CASE \E c \in Clients : Serves(c)
  BY <1>1, <1>3, ServesIdentities
<1>4. CASE \E c \in Clients : Joins(c)
  BY <1>1, <1>4, JoinsIdentities
<1>5. CASE \E c \in Clients : Dismisses(c)
  BY <1>5, DismissesIdentities
<1>6. CASE \E n \in Nodes : Close(n)
  BY <1>6, CloseIdentities
<1> QED
  BY <1>2, <1>3, <1>4, <1>5, <1>6, StepIs

LEMMA IdentitiesAlways == Spec => [](Types /\ (twice = {} => Identities))
<1>1. Init => Types /\ Identities
  BY TypesInit, IdentitiesInit
<1>2. Types /\ (twice = {} => Identities) /\ [Next]_vars => (Types /\ (twice = {} => Identities))'
  BY TypesStep, TwiceGrows, IdentitiesStep
<1> QED
  BY <1>1, <1>2, PTL DEF Spec

\* The host never serves two peers under one identity, whatever is lost, comes
\* late or out of order, however often a client is in its list and whoever is
\* dropped: addNewPeer takes an identity nobody has, and removePeer frees one that
\* nobody needs any more.  Only the second DISCONNECT of a client that closes with
\* the host in its list twice has removePeer free what may be somebody else's.
THEOREM HostGivesEachItsOwn == Spec => []HostIdsDiffer
<1>1. (twice = {} => Identities) => HostIdsDiffer
  BY DEF Identities, HostIdsDiffer, ServedDiffer
<1> QED
  BY <1>1, IdentitiesAlways, PTL

\* Nor do two clients believe in the same identity, whoever the host has dropped
\* and served meanwhile: what a client was told it may keep as long as it is open,
\* with the same exception.
THEOREM ClientsBelieveDifferent == Spec => []ClientIdsDiffer
<1>1. Types /\ (twice = {} => Identities) => ClientIdsDiffer
  <2> SUFFICES ASSUME Types, Identities, NEW c \in Clients, NEW d \in Clients, c # d,
                      NEW i \in DOMAIN peers[c], NEW j \in DOMAIN peers[d]
               PROVE  peers[c][i].id # peers[d][j].id
    BY DEF ClientIdsDiffer, IdsDifferBetween
  <2>1. peers[c] \in Seq(Peer) /\ peers[d] \in Seq(Peer) /\ c \in Nodes /\ d \in Nodes
    BY DEF Types, TypeOK, Nodes
  <2>2. peers[c][i].id \in AllIds
    <3>1. peers[c][i] \in Peer
      BY <2>1
    <3> QED
      BY <3>1 DEF Peer
  <2>3. peers[c] # <<>> /\ peers[d] # <<>>
    OBVIOUS
  <2>4. c \in open /\ d \in open
    BY <2>1, <2>3 DEF Identities, ClosedIsEmpty
  <2>5. Reserved(c, peers[c][i].id) /\ Reserved(d, peers[d][j].id)
    BY <2>4 DEF Reserved, Believed, Entries
  <2> QED
    BY <2>2, <2>5 DEF Identities, IdsReserved
<1> QED
  BY <1>1, IdentitiesAlways, PTL

=============================================================================
