----------------------------- MODULE Connection -----------------------------
(***************************************************************************)
(* The connections of Win32Socket (src/Engine/mrayNet/win32socket.cpp)     *)
(* without a reliable socket: m_tcpSocket is 0 and every packet is one     *)
(* datagram, which the network may lose, delay or reorder.  One host and   *)
(* some clients, which share all the code: each has a list of peers, the   *)
(* identities in use and the connection request it still repeats.  All     *)
(* the clients know the host's address, not all of them its password.      *)
(*                                                                         *)
(* Each socket has a thread that reads what arrived, then processes its    *)
(* requests and its peers (Win32Socket::update); connectToHost and close   *)
(* are calls of the application.  A client takes a fresh port, and so a    *)
(* fresh address, whenever it creates a socket: what is closed stays       *)
(* closed.                                                                 *)
(***************************************************************************)
EXTENDS Naturals, FiniteSets, Sequences, SequencesExt

CONSTANTS Host, Clients,
          Passwords,      \* what an application may send: "right", "wrong"
          HostPeers,      \* m_maxPeers of the host
          ClientPeers,    \* m_maxPeers of a client
          MaxRequest,     \* m_maxRequest
          SilenceLimit,   \* the ping intervals a silent peer is kept, 3 in the code
          Reorder,        \* datagrams may overtake each other
          InFlight        \* bound: the datagrams in flight

ASSUME ConnectionAssumption ==
  /\ Host \notin Clients /\ Passwords \subseteq {"right", "wrong"}
  /\ HostPeers \in Nat \ {0} /\ ClientPeers \in Nat \ {0}
  /\ MaxRequest \in Nat /\ SilenceLimit \in Nat /\ InFlight \in Nat \ {0}
  /\ Reorder \in BOOLEAN

VARIABLES open,      \* the sockets that are not m_closed
          peers,     \* m_connectedPeers of each socket
          usedIds,   \* m_usedID of each socket
          request,   \* the password of the request in m_requestPeers, or "none"
          attempts,  \* its requestCount
          failed,    \* the clients that were told CONNECT_FAILED last
          net,       \* the datagrams in flight, by sender and receiver
          twice      \* history: the clients that closed with more than one peer, all
                     \* of them the host

requestVars == <<request, attempts, failed>>
vars == <<open, peers, usedIds, requestVars, net, twice>>

Nodes == Clients \cup {Host}
Pending == {c \in Clients : request[c] # "none"}
Links == (Clients \X {Host}) \cup ({Host} \X Clients)
MaxPeers(n) == IF n = Host THEN HostPeers ELSE ClientPeers
Ids(n) == 0..MaxPeers(n)                        \* m_usedID.resize(maxPeers+1)
AllIds == Ids(Host) \cup 0..ClientPeers

Peer == [addr : Nodes, id : AllIds, removed : BOOLEAN, silence : 0..SilenceLimit]
\* the datagrams in flight
Slots(network) == UNION {{l} \X DOMAIN network[l] : l \in Links}
Load(network) == Cardinality(Slots(network))

Packet ==
  [cmd : {"connect_request", "peerinfo", "max_clients", "invalid_password",
          "connected", "disconnect", "ping", "pong"}]
  \cup [cmd : {"peerinfo_replay"}, password : Passwords]
  \cup [cmd : {"connect_accept"}, id : Ids(Host)]
  \cup [cmd : {"peer_disconnect"}, addr : Nodes]

\* Each variable keeps its type, and the list of a socket never exceeds
\* m_maxPeers: the host promises a place (CONNECT_REQUEST) long before it
\* gives it away (PEERINFO_REPLAY).
TypeOK ==
  /\ open \subseteq Nodes
  /\ peers \in [Nodes -> Seq(Peer)]
  /\ \A n \in Nodes : Len(peers[n]) <= MaxPeers(n)
  /\ usedIds \in [Nodes -> SUBSET AllIds]
  /\ request \in [Clients -> Passwords \cup {"none"}]
  /\ attempts \in [Clients -> 0..MaxRequest]
  /\ failed \subseteq Clients /\ twice \subseteq Clients
  /\ net \in [Links -> Seq(Packet)]
  /\ Load(net) <= InFlight

Init ==
  /\ open = Nodes
  /\ peers = [n \in Nodes |-> <<>>]
  /\ usedIds = [n \in Nodes |-> {}]
  /\ request = [c \in Clients |-> "none"] /\ failed = {} /\ twice = {}
  /\ attempts = [c \in Clients |-> 0]
  /\ net = [l \in Links |-> <<>>]

-----------------------------------------------------------------------------
(* The list of peers.                                                      *)

\* getPeer: the first entry of that address, removed or not; 0 when there is none
Position(ps, a) == SelectInSeq(ps, LAMBDA e : e.addr = a)
Knows(n, a) == Position(peers[n], a) # 0

\* peer->lastMsgTime = currTime
Heard(ps, a) ==
  LET i == Position(ps, a) IN IF i = 0 THEN ps ELSE [ps EXCEPT ![i].silence = 0]

\* addNewPeer returns an entry: there is room in the list and a free identity
HasRoomIdsOnly(n) == Ids(n) \ usedIds[n] # {}   \* variant: the length is not tested
HasRoom(n) == Len(peers[n]) < MaxPeers(n) /\ Ids(n) \ usedIds[n] # {}
FreeId(n) == CHOOSE i \in Ids(n) \ usedIds[n] : \A j \in Ids(n) \ usedIds[n] : i <= j

NewPeer(a, i) == [addr |-> a, id |-> i, removed |-> FALSE, silence |-> 0]

\* variant: setUsedID is forgotten
AddPeerUnmarked(n, a, i) ==
  /\ peers' = [peers EXCEPT ![n] = Append(Heard(@, a), NewPeer(a, i))]
  /\ UNCHANGED usedIds

\* addNewPeer, and the identity the caller writes over the one that was reserved
AddPeer(n, a, i) ==
  /\ peers' = [peers EXCEPT ![n] = Append(Heard(@, a), NewPeer(a, i))]
  /\ usedIds' = [usedIds EXCEPT ![n] = @ \cup {FreeId(n)}]

\* the entries of the list whose identity is given back
Released(ps, a) == {ps[i].id : i \in {Position(ps, a)} \ {0}}

\* removePeer: the first entry of the address, once more if it is removed already
RemovePeer(n, from, a) ==
  LET ps == Heard(peers[n], from)
      i  == Position(ps, a)
  IN /\ peers' = [peers EXCEPT ![n] = IF i = 0 THEN ps ELSE [ps EXCEPT ![i].removed = TRUE]]
     /\ usedIds' = [usedIds EXCEPT ![n] = @ \ Released(ps, a)]

-----------------------------------------------------------------------------
(* Sending.  A datagram for which there is no room in the network is lost. *)

Sent(network, from, to, p) ==
  IF Load(network) < InFlight THEN [network EXCEPT ![<<from, to>>] = Append(@, p)]
  ELSE network

\* sendMessageToPeers: to every entry of the list that is not removed
SentToFirst(network, from, ps, p) ==
  LET sent[k \in 0..Len(ps)] ==
        IF k = 0 THEN network
        ELSE IF ps[k].removed THEN sent[k - 1]
        ELSE Sent(sent[k - 1], from, ps[k].addr, p)
  IN sent

SentToAll(network, from, ps, p) == SentToFirst(network, from, ps, p)[Len(ps)]

\* a datagram reaches its receiver, or vanishes
Arrivals(l) == IF Reorder THEN 1..Len(net[l]) ELSE 1..Len(net[l]) \cap {1}
Without(l, i) == [net EXCEPT ![l] = RemoveAt(@, i)]

Lose(l) ==
  /\ \E i \in Arrivals(l) : net' = Without(l, i)
  /\ UNCHANGED <<open, peers, usedIds, requestVars, twice>>

-----------------------------------------------------------------------------
(* parsePacket.  Handlers of a packet p that n received from the socket at *)
(* address from; rest is the network without p.                            *)

\* a stranger is only listened to for these, or while a request to it is pending
StrangersAll ==                                  \* variant: also for a late answer
  {"connect_request", "ping", "pong", "peerinfo_replay", "connect_accept"}
Strangers == {"connect_request", "ping", "pong", "peerinfo_replay"}
Welcome(n, from, cmd) ==
  Knows(n, from) \/ cmd \in Strangers \/ (from = Host /\ n \in Pending)

HearFrom(n, from) ==
  peers' = [peers EXCEPT ![n] = Heard(@, from)] /\ UNCHANGED usedIds

RemoveRequest(n) == request' = [request EXCEPT ![n] = "none"] /\ UNCHANGED <<attempts, failed>>

ConnectRequest(n, from, p, rest) ==
  /\ p.cmd = "connect_request"
  /\ HearFrom(n, from)
  /\ net' = IF Knows(n, from) THEN rest
            ELSE Sent(rest, n, from,
                      [cmd |-> IF Len(peers[n]) < MaxPeers(n) THEN "peerinfo" ELSE "max_clients"])
  /\ UNCHANGED requestVars

PeerInfo(n, from, p, rest) ==
  /\ p.cmd = "peerinfo"
  /\ HearFrom(n, from)
  /\ net' = IF n \in Pending
            THEN Sent(rest, n, from, [cmd |-> "peerinfo_replay", password |-> request[n]])
            ELSE rest
  /\ UNCHANGED requestVars

\* a peer that is known already is added once more; which refusal is sent does not
\* matter to the client
PeerInfoReplay(n, from, p, rest) ==
  /\ p.cmd = "peerinfo_replay"
  /\ \/ /\ p.password = "right" /\ HasRoom(n)
        /\ AddPeer(n, from, FreeId(n))
        /\ net' = Sent(rest, n, from, [cmd |-> "connect_accept", id |-> FreeId(n)])
     \/ /\ ~(p.password = "right" /\ HasRoom(n))
        /\ HearFrom(n, from)
        /\ net' = Sent(rest, n, from,
                       [cmd |-> IF p.password = "right" THEN "max_clients" ELSE "invalid_password"])
  /\ UNCHANGED requestVars

\* when no peer can be added the request stays: the handler breaks before removeRequest
ConnectAccept(n, from, p, rest) ==
  /\ p.cmd = "connect_accept"
  /\ \/ /\ HasRoom(n)
        /\ AddPeer(n, from, p.id)
        /\ net' = Sent(rest, n, from, [cmd |-> "connected"])
        /\ RemoveRequest(n)
     \/ /\ ~HasRoom(n)
        /\ HearFrom(n, from)
        /\ net' = rest
        /\ UNCHANGED requestVars

Refusal(n, from, p, rest) ==
  /\ p.cmd \in {"max_clients", "invalid_password"}
  /\ HearFrom(n, from)
  /\ RemoveRequest(n)
  /\ net' = rest

Ping(n, from, p, rest) ==
  /\ p.cmd = "ping"
  /\ HearFrom(n, from)
  /\ net' = Sent(rest, n, from, [cmd |-> "pong"])
  /\ UNCHANGED requestVars

OnlyHeard(n, from, p, rest) ==
  /\ p.cmd \in {"pong", "connected"}
  /\ HearFrom(n, from)
  /\ net' = rest
  /\ UNCHANGED requestVars

\* the host tells the peers that are left
Disconnect(n, from, p, rest) ==
  /\ p.cmd = "disconnect"
  /\ RemovePeer(n, from, from)
  /\ net' = IF n = Host
            THEN SentToAll(rest, n, peers'[n], [cmd |-> "peer_disconnect", addr |-> from])
            ELSE rest
  /\ UNCHANGED requestVars

PeerDisconnect(n, from, p, rest) ==
  /\ p.cmd = "peer_disconnect"
  /\ RemovePeer(n, from, p.addr)
  /\ net' = rest
  /\ UNCHANGED requestVars

\* update: the next datagram that arrived is parsed, or dropped unread
Receive(l) ==
  LET from == l[1]  n == l[2] IN
  /\ n \in open
  /\ \E i \in Arrivals(l) :
       LET p == net[l][i]  rest == Without(l, i) IN
       \/ /\ ~Welcome(n, from, p.cmd)
          /\ net' = rest
          /\ UNCHANGED <<peers, usedIds, requestVars>>
       \/ /\ Welcome(n, from, p.cmd)
          /\ \/ ConnectRequest(n, from, p, rest)
             \/ PeerInfo(n, from, p, rest)
             \/ PeerInfoReplay(n, from, p, rest)
             \/ ConnectAccept(n, from, p, rest)
             \/ Refusal(n, from, p, rest)
             \/ Ping(n, from, p, rest)
             \/ OnlyHeard(n, from, p, rest)
             \/ Disconnect(n, from, p, rest)
             \/ PeerDisconnect(n, from, p, rest)
  /\ UNCHANGED <<open, twice>>

-----------------------------------------------------------------------------
(* The application and the rest of update().                               *)

\* connectToHost: a new request is sent at once
Connect(c) ==
  /\ c \in open /\ ~Knows(c, Host) /\ c \notin Pending
  /\ \E password \in Passwords : request' = [request EXCEPT ![c] = password]
  /\ attempts' = [attempts EXCEPT ![c] = 0]
  /\ failed' = failed \ {c}
  /\ net' = Sent(net, c, Host, [cmd |-> "connect_request"])
  /\ UNCHANGED <<open, peers, usedIds, twice>>

\* close: the peers are told and forgotten
Close(n) ==
  /\ n \in open
  /\ open' = open \ {n}
  /\ net' = SentToAll(net, n, peers[n], [cmd |-> "disconnect"])
  /\ peers' = [peers EXCEPT ![n] = <<>>]
  /\ twice' = IF n # Host /\ Len(peers[n]) > 1 THEN twice \cup {n} ELSE twice
  /\ UNCHANGED <<usedIds, requestVars>>

\* variant: requestCount is not advanced
RetryUncounted(c) ==
  /\ c \in open \cap Pending /\ attempts[c] < MaxRequest
  /\ net' = Sent(net, c, Host, [cmd |-> "connect_request"])
  /\ UNCHANGED <<open, peers, usedIds, requestVars, twice>>

\* processRequestList: requestTime has come
Retry(c) ==
  /\ c \in open \cap Pending /\ attempts[c] < MaxRequest
  /\ attempts' = [attempts EXCEPT ![c] = @ + 1]
  /\ net' = Sent(net, c, Host, [cmd |-> "connect_request"])
  /\ UNCHANGED <<open, peers, usedIds, request, failed, twice>>

\* processRequestList: the last attempt is not waited for
GiveUp(c) ==
  /\ c \in open \cap Pending /\ attempts[c] >= MaxRequest
  /\ request' = [request EXCEPT ![c] = "none"]
  /\ failed' = failed \cup {c}
  /\ UNCHANGED <<open, peers, usedIds, attempts, net, twice>>

\* currTime-lastMsgTime > 3*m_pingInterval, elapsed intervals later
Late(e, elapsed) == ~e.removed /\ e.silence + elapsed > SilenceLimit

\* the silence of a peer that stays goes on; the variant starts it anew at a ping
WaitedFromPing(e, elapsed) == [e EXCEPT !.silence = IF elapsed > 0 THEN 0 ELSE @]
Waited(e, elapsed) == [e EXCEPT !.silence = @ + elapsed]

\* one entry of the list w.left: kicked, or pinged when its time has come
VisitPeer(n, w, e, elapsed) ==
  IF e.removed THEN [w EXCEPT !.left = Tail(@)]
  ELSE IF Late(e, elapsed)
  THEN [w EXCEPT !.net = SentToAll(@, n, w.kept \o w.left,
                                   [cmd |-> "peer_disconnect", addr |-> e.addr]),
                 !.left = Tail(@)]
  ELSE [w EXCEPT !.net = IF elapsed > 0 THEN Sent(@, n, e.addr, [cmd |-> "ping"]) ELSE @,
                 !.kept = Append(@, Waited(e, elapsed)),
                 !.left = Tail(@)]

\* a peer that is dropped for its silence keeps its identity in use: no freeID;
\* the variant gives it back
IdsFreed(n, elapsed) ==
  usedIds[n] \ {peers[n][i].id : i \in {j \in DOMAIN peers[n] : Late(peers[n][j], elapsed)}}
IdsKept(n, elapsed) == usedIds[n]

\* after the first k entries of the list
Visits(n, elapsed) ==
  LET w[k \in 0..Len(peers[n])] ==
        IF k = 0 THEN [net |-> net, kept |-> <<>>, left |-> peers[n]]
        ELSE VisitPeer(n, w[k - 1], peers[n][k], elapsed)
  IN w

\* processClients, elapsed ping intervals after the last pass
ProcessClients(n, elapsed) ==
  LET w == Visits(n, elapsed)[Len(peers[n])]
  IN /\ n \in open
     /\ peers[n] # <<>>
     /\ elapsed > 0 \/ \E i \in DOMAIN peers[n] : peers[n][i].removed
     /\ net' = w.net
     /\ peers' = [peers EXCEPT ![n] = w.kept]
     /\ usedIds' = [usedIds EXCEPT ![n] = IdsKept(n, elapsed)]
     /\ UNCHANGED <<open, requestVars, twice>>

Next ==
  \/ \E l \in Links : Receive(l) \/ Lose(l)
  \/ \E c \in Clients : Connect(c) \/ Retry(c) \/ GiveUp(c)
  \/ \E n \in Nodes : Close(n) \/ \E elapsed \in 0..1 : ProcessClients(n, elapsed)

\* The thread of a socket keeps running, and time passes; nothing is assumed of
\* the network but that what it neither loses nor holds back for ever is read.
Fairness ==
  /\ \A l \in Links : WF_vars(Receive(l))
  /\ \A c \in Clients : WF_vars(Retry(c)) /\ WF_vars(GiveUp(c))
  /\ \A n \in Nodes : WF_vars(ProcessClients(n, 1))

Spec == Init /\ [][Next]_vars
FairSpec == Spec /\ Fairness

-----------------------------------------------------------------------------
(* Properties.                                                             *)

IdsDiffer(ps) ==
  \A i, j \in DOMAIN ps : i # j /\ ~ps[i].removed /\ ~ps[j].removed => ps[i].id # ps[j].id

IdsDifferBetween(ps, qs) == \A i \in DOMAIN ps, j \in DOMAIN qs : ps[i].id # qs[j].id

\* No two peers the host serves have the same identity, however the attempts of a
\* client overlap, however often a client is in the list or has the host in its own,
\* and whatever is removed or dropped for its silence.  Only a client that closes
\* with the host in its list twice ends this: it says DISCONNECT twice.
HostIdsDiffer == twice = {} => IdsDiffer(peers[Host])

\* No two clients believe to have the same identity at the host, although the host
\* may have dropped one of them long ago and served others since; with the same
\* exception.
ClientIdsDiffer ==
  twice = {} => \A c, d \in Clients : c # d => IdsDifferBetween(peers[c], peers[d])

\* setUsedID and freeID: an identity belongs to one peer.  No run has this property,
\* because it does not hold of clients with room for more than one peer (maxPeers is
\* whatever the caller of createSocket says): one may have the host in its list
\* twice, and of the two DISCONNECT it sends when it closes, the second has
\* removePeer free the identity again, which may be somebody else's by then.
IdsAlwaysDiffer == IdsDiffer(peers[Host])

\* A client that was told that its request failed is not connected afterwards by
\* a late answer to it.
FailedStaysFailed == \A c \in failed : ~Knows(c, Host)

\* A request comes to an end, whatever is lost: accepted, refused or given up.
RequestsEnd == \A c \in Clients : c \in Pending ~> (c \notin Pending \/ c \notin open)

\* Who has gone is forgotten, also when its DISCONNECT was lost and when the
\* client was in the list more than once.
GoneAreForgotten ==
  \A n \in Clients, m \in {Host} :
     /\ n \notin open ~> (m \notin open \/ ~Knows(m, n))
     /\ m \notin open ~> (n \notin open \/ ~Knows(n, m))

\* processClients sends the disconnect message: a client the host dropped learns it.
KickedLearns ==
  \A c \in Clients :
     Knows(c, Host) /\ ~Knows(Host, c) ~> \/ ~Knows(c, Host) \/ Knows(Host, c)
                                           \/ {c, Host} \cap open # {c, Host}

\* processRequestList: the offline message indicates that the request failed; the
\* host, which may have accepted it, does not keep the client for ever.  No run has
\* this property, because it does not hold: the client answers the host's pings.
FailedIsForgotten ==
  \A c \in Clients :
     c \in failed ~> (c \notin failed \/ {c, Host} \cap open # {c, Host} \/ ~Knows(Host, c))

=============================================================================
