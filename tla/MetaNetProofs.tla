--------------------------- MODULE MetaNetProofs ----------------------------
(***************************************************************************)
(* Proofs about MetaNet for any set of nodes, any configuration and any    *)
(* bounds: the tables keep their types, and every bufferevent that can     *)
(* call back is in exactly one of the two lists, once.  The ports of the   *)
(* UDP table were really bound, whatever restarts, crashes and lost        *)
(* connections there were; while no connection is reset, every endpoint    *)
(* stands for a connection of its own.                                     *)
(***************************************************************************)
EXTENDS MetaNet, NumberLemmas, SequenceTheorems, TLAPS

\* What v_mc_insert and v_udp_insert do to a vector.
LEMMA AppendLemma ==
    ASSUME NEW S, NEW v \in Seq(S), NEW e \in S
    PROVE  /\ Append(v, e) \in Seq(S)
           /\ Elems(Append(v, e)) = Elems(v) \cup {e}
           /\ (NoDup(v) /\ e \notin Elems(v)) => NoDup(Append(v, e))
<1>1. /\ Append(v, e) \in Seq(S)
      /\ Len(Append(v, e)) = Len(v) + 1
      /\ Append(v, e)[Len(v) + 1] = e
      /\ \A i \in 1..Len(v) : Append(v, e)[i] = v[i]
      /\ DOMAIN Append(v, e) = 1..(Len(v) + 1)
      /\ DOMAIN v = 1..Len(v)
      /\ Len(v) \in Nat
    OBVIOUS
<1>2. Elems(Append(v, e)) = Elems(v) \cup {e}
    BY <1>1 DEF Elems
<1>3. ASSUME NoDup(v), e \notin Elems(v)
      PROVE  NoDup(Append(v, e))
    BY <1>1, <1>3 DEF NoDup, Elems
<1> QED
    BY <1>1, <1>2, <1>3

\* What v_mc_erase and v_udp_erase do to a vector, at any position.
LEMMA EraseType ==
    ASSUME NEW S, NEW v \in Seq(S), NEW i, v # <<>>
    PROVE  Erase(v, i) \in Seq(S)
<1>1. /\ Len(v) \in Nat \ {0}
      /\ DOMAIN v = 1..Len(v)
      /\ \A j \in 1..Len(v) : v[j] \in S
    OBVIOUS
<1>2. Len(v) - 1 \in Nat
    BY <1>1
<1>3. \A j \in 1..(Len(v) - 1) : (IF j < i THEN v[j] ELSE v[j + 1]) \in S
    BY <1>1
<1> QED
    BY <1>2, <1>3 DEF Erase

\* Erasing the entry of connection c removes c and nothing else.
LEMMA WithoutLemma ==
    ASSUME NEW S, NEW v \in Seq(S), NEW c \in Elems(v)
    PROVE  /\ Without(v, c) \in Seq(S)
           /\ NoDup(v) => /\ NoDup(Without(v, c))
                          /\ Elems(Without(v, c)) = Elems(v) \ {c}
<1> DEFINE p == PosOf(v, c)
           w == Without(v, c)
<1>1. p \in DOMAIN v /\ v[p] = c
    BY DEF PosOf, Elems
<1>2. DOMAIN v = 1..Len(v) /\ Len(v) \in Nat /\ v # <<>>
    BY <1>1
<1>3. w \in Seq(S)
    BY <1>2, EraseType DEF Without
<1>4. /\ DOMAIN w = 1..(Len(v) - 1)
      /\ \A j \in 1..(Len(v) - 1) : w[j] = IF j < p THEN v[j] ELSE v[j + 1]
    BY DEF Without, Erase
<1>5. ASSUME NoDup(v)
      PROVE  NoDup(w)
    BY <1>1, <1>2, <1>4, <1>5 DEF NoDup
<1>6. ASSUME NoDup(v)
      PROVE  Elems(w) = Elems(v) \ {c}
  <2>1. ASSUME NEW x \in Elems(w)
        PROVE  x \in Elems(v) \ {c}
    BY <1>1, <1>2, <1>4, <1>6, <2>1 DEF NoDup, Elems
  <2>2. ASSUME NEW x \in Elems(v), x # c
        PROVE  x \in Elems(w)
    <3>1. PICK i \in 1..Len(v) : v[i] = x
        BY <1>2 DEF Elems
    <3>2. i # p
        BY <1>1, <2>2, <3>1
    <3>3. CASE i < p
        BY <1>1, <1>2, <1>4, <3>1, <3>3 DEF Elems
    <3>4. CASE i > p
      <4>1. i - 1 \in 1..(Len(v) - 1) /\ w[i - 1] = v[i]
        BY <1>1, <1>2, <1>4, <3>1, <3>4
      <4> QED
        BY <1>4, <3>1, <4>1 DEF Elems
    <3> QED
        BY <1>1, <1>2, <3>1, <3>2, <3>3, <3>4
  <2> QED
    BY <2>1, <2>2
<1> QED
    BY <1>3, <1>5, <1>6

\* Dropping the first endpoint of an address keeps a table of endpoints.
LEMMA DropFirstType ==
    ASSUME NEW S, NEW v \in Seq(S), NEW a
    PROVE  DropFirst(v, a) \in Seq(S)
<1> DEFINE hits == {i \in DOMAIN v : v[i].addr = a}
<1>1. CASE hits = {}
    BY <1>1 DEF DropFirst
<1>2. CASE hits # {}
  <2>1. v # <<>>
    BY <1>2
  <2>2. DropFirst(v, a) = Erase(v, CHOOSE i \in hits : \A j \in hits : i <= j)
    BY <1>2 DEF DropFirst
  <2> QED
    BY <2>1, <2>2, EraseType
<1> QED
    BY <1>1, <1>2

----------------------------------------------------------------------------
(* How the two lists of one daemon follow its sockets. *)

Tracked == {"connecting", "accepted", "open"}

\* mc_peer_connect and mc_peer_accept insert into pending_peers.
LEMMA InsertPending ==
    ASSUME NEW pe \in Seq(Conns), NEW pr \in Seq(Conns),
           NEW sk \in [Conns -> EndStates], NEW c \in Conns,
           ListsAgree(pe, pr, sk), sk[c] \notin Tracked
    PROVE  /\ ListsAgree(Append(pe, c), pr, [sk EXCEPT ![c] = "connecting"])
           /\ ListsAgree(Append(pe, c), pr, [sk EXCEPT ![c] = "accepted"])
<1>1. c \notin Elems(pe)
    BY DEF ListsAgree, Tracked
<1>2. Elems(Append(pe, c)) = Elems(pe) \cup {c} /\ NoDup(Append(pe, c))
    BY <1>1, AppendLemma DEF ListsAgree
<1> QED
    BY <1>2 DEF ListsAgree, Tracked

\* listen_callback without TLS: accepted and approved in one go.
LEMMA InsertPeer ==
    ASSUME NEW pe \in Seq(Conns), NEW pr \in Seq(Conns),
           NEW sk \in [Conns -> EndStates], NEW c \in Conns,
           ListsAgree(pe, pr, sk), sk[c] \notin Tracked
    PROVE  ListsAgree(pe, Append(pr, c), [sk EXCEPT ![c] = "open"])
<1>1. c \notin Elems(pr)
    BY DEF ListsAgree, Tracked
<1>2. Elems(Append(pr, c)) = Elems(pr) \cup {c} /\ NoDup(Append(pr, c))
    BY <1>1, AppendLemma DEF ListsAgree
<1> QED
    BY <1>2 DEF ListsAgree, Tracked

\* The CONNECTED event moves an entry from one list to the other.
LEMMA MoveToPeers ==
    ASSUME NEW pe \in Seq(Conns), NEW pr \in Seq(Conns),
           NEW sk \in [Conns -> EndStates], NEW c \in Elems(pe),
           ListsAgree(pe, pr, sk)
    PROVE  ListsAgree(Without(pe, c), Append(pr, c), [sk EXCEPT ![c] = "open"])
<1>1. c \in Conns /\ c \notin Elems(pr)
    BY DEF ListsAgree
<1>2. Elems(Append(pr, c)) = Elems(pr) \cup {c} /\ NoDup(Append(pr, c))
    BY <1>1, AppendLemma DEF ListsAgree
<1>3. Elems(Without(pe, c)) = Elems(pe) \ {c} /\ NoDup(Without(pe, c))
    BY WithoutLemma DEF ListsAgree
<1> QED
    BY <1>1, <1>2, <1>3 DEF ListsAgree

\* mc_close and v_mc_erase on a pending entry.
LEMMA ClosePending ==
    ASSUME NEW pe \in Seq(Conns), NEW pr \in Seq(Conns),
           NEW sk \in [Conns -> EndStates], NEW c \in Elems(pe),
           ListsAgree(pe, pr, sk)
    PROVE  ListsAgree(Without(pe, c), pr, [sk EXCEPT ![c] = "dropped"])
<1>1. c \in Conns /\ c \notin Elems(pr)
    BY DEF ListsAgree
<1>2. Elems(Without(pe, c)) = Elems(pe) \ {c} /\ NoDup(Without(pe, c))
    BY WithoutLemma DEF ListsAgree
<1> QED
    BY <1>1, <1>2 DEF ListsAgree

\* mc_close and v_mc_erase on an approved entry.
LEMMA ClosePeer ==
    ASSUME NEW pe \in Seq(Conns), NEW pr \in Seq(Conns),
           NEW sk \in [Conns -> EndStates], NEW c \in Elems(pr),
           ListsAgree(pe, pr, sk)
    PROVE  /\ ListsAgree(pe, Without(pr, c), [sk EXCEPT ![c] = "closed"])
           /\ ListsAgree(pe, Without(pr, c), [sk EXCEPT ![c] = "dropped"])
<1>1. c \in Conns /\ c \notin Elems(pe)
    BY DEF ListsAgree
<1>2. Elems(Without(pr, c)) = Elems(pr) \ {c} /\ NoDup(Without(pr, c))
    BY WithoutLemma DEF ListsAgree
<1> QED
    BY <1>1, <1>2 DEF ListsAgree

\* A socket no list knows of changes to another such state.
LEMMA UntrackedChange ==
    ASSUME NEW pe, NEW pr, NEW sk \in [Conns -> EndStates], NEW c \in Conns,
           ListsAgree(pe, pr, sk), sk[c] \notin Tracked,
           NEW s, s \notin Tracked
    PROVE  ListsAgree(pe, pr, [sk EXCEPT ![c] = s])
    BY DEF ListsAgree, Tracked

\* A process that ends has empty lists and no connection.
LEMMA EmptyLists ==
    ASSUME NEW sk, \A c \in Conns : sk[c] \notin Tracked
    PROVE  ListsAgree(<<>>, <<>>, sk)
    BY DEF ListsAgree, Tracked, Elems, NoDup

----------------------------------------------------------------------------
(* Types. *)

\* The lines a daemon sends are lines of the protocol.
LEMMA GreetType ==
    ASSUME TypeOK, NEW n \in Nodes, NEW c \in Conns, Greet(n, c)
    PROVE  inbox' \in [Nodes -> [Conns -> Seq(Lines)]]
<1>1. Other(n, c) \in Nodes
    BY DEF Other, Conns
<1>2. udp_port[n] \in 0..MaxStarts /\ 0 \in 0..MaxStarts
    BY MetaNetAssumption DEF TypeOK
<1>3. Greeting(n) \in Seq(Lines)
    BY <1>2 DEF Greeting, Lines
<1>4. inbox[Other(n, c)][c] \o Greeting(n) \in Seq(Lines)
    BY <1>1, <1>3 DEF TypeOK
<1> QED
    BY <1>1, <1>4 DEF Greet, TypeOK

\* The end of a process leaves well-typed tables.
LEMMA ProcessEndsType ==
    ASSUME TypeOK, NEW n \in Nodes, NEW how \in {"down", "crashed"},
           NEW ordered, ProcessEnds(n, how, ordered)
    PROVE  TypeOK'
<1>1. <<>> \in Seq(Conns) /\ <<>> \in Seq(Endpoints) /\ <<>> \in Seq(Lines)
    OBVIOUS
<1>2. sock' \in [Nodes -> [Conns -> EndStates]]
    BY DEF ProcessEnds, TypeOK, EndStates
<1>3. inbox' \in [Nodes -> [Conns -> Seq(Lines)]]
    BY <1>1 DEF ProcessEnds, TypeOK
<1> QED
    BY <1>1, <1>2, <1>3 DEF ProcessEnds, TypeOK

\* A change of one end keeps the table of sockets.
LEMMA SockType ==
    ASSUME TypeOK, NEW n \in Nodes, NEW c \in Conns, NEW s \in EndStates,
           sock' = [sock EXCEPT ![n][c] = s]
    PROVE  sock' \in [Nodes -> [Conns -> EndStates]]
    BY DEF TypeOK

\* mc_peer_connect keeps the types of what it writes.
LEMMA ConnectType ==
    ASSUME TypeOK, NEW n \in Nodes, NEW m \in Nodes,
           mc_peer_connect(n, m)
    PROVE  /\ sock' \in [Nodes -> [Conns -> EndStates]]
           /\ pending' \in [Nodes -> Seq(Conns)]
           /\ faults' \in 0..MaxFaults
<1>1. PICK c \in Fresh(n, m) : ConnectWith(n, m, c)
    BY DEF mc_peer_connect
<1>2. c \in Conns
    BY DEF Fresh
<1>3. Append(pending[n], c) \in Seq(Conns)
    BY <1>2, AppendLemma DEF TypeOK
<1>4. sock' \in [Nodes -> [Conns -> EndStates]]
  <2>1. CASE sock' = sock
    BY <2>1 DEF TypeOK
  <2>2. CASE sock' = [sock EXCEPT ![n][c] = "connecting"]
    BY <1>2, <2>2, SockType DEF EndStates
  <2>3. CASE sock' = [sock EXCEPT ![n][c] = "leaked"]
    BY <1>2, <2>3, SockType DEF EndStates
  <2> QED
    BY <1>1, <2>1, <2>2, <2>3 DEF ConnectWith
<1>5. pending' \in [Nodes -> Seq(Conns)]
    BY <1>1, <1>3 DEF TypeOK, ConnectWith
<1>6. faults' \in 0..MaxFaults
  <2>1. faults' = faults \/ (faults < MaxFaults /\ faults' = faults + 1)
    BY <1>1 DEF ConnectWith
  <2>2. faults \in 0..MaxFaults
    BY DEF TypeOK
  <2> QED
    BY <2>1, <2>2, MetaNetAssumption
<1> QED
    BY <1>4, <1>5, <1>6

\* One step of server_init's loop and of the life of a process.
LEMMA LifeType ==
    ASSUME TypeOK, NEW n \in Nodes,
           \/ server_start(n) \/ server_init(n) \/ server_set_device(n)
           \/ server_delete(n) \/ \E m \in Nodes : client_add_peer(n, m)
    PROVE  TypeOK'
<1>1. CASE server_start(n)
  <2>1. proc' \in [Nodes -> {"down", "init", "up", "crashed"}]
    BY <1>1 DEF server_start, RunState, TypeOK
  <2>2. it_peer' \in [Nodes -> Nat \ {0}]
    BY <1>1 DEF server_start, TypeOK
  <2>3. udp_port' \in [Nodes -> 0..MaxStarts]
    <3>1. /\ udp_port \in [Nodes -> 0..MaxStarts]
          /\ udp_port[n] < MaxStarts
          /\ udp_port' = [udp_port EXCEPT ![n] = @ + 1]
      BY <1>1 DEF server_start, TypeOK
    <3> QED
      BY <3>1, MetaNetAssumption
  <2> QED
    BY <1>1, <2>1, <2>2, <2>3 DEF server_start, TypeOK
<1>2. CASE server_init(n)
  <2>1. PeerAddrs[n][it_peer[n]] \in Nodes
    <3>1. PICK c \in Fresh(n, PeerAddrs[n][it_peer[n]]) : TRUE
      BY <1>2 DEF server_init, mc_peer_connect
    <3> QED
      BY <3>1 DEF Fresh, Conns
  <2>2. /\ sock' \in [Nodes -> [Conns -> EndStates]]
        /\ pending' \in [Nodes -> Seq(Conns)]
        /\ faults' \in 0..MaxFaults
    BY <1>2, <2>1, ConnectType DEF server_init
  <2>3. proc' \in [Nodes -> {"down", "init", "up", "crashed"}]
    BY <1>2 DEF server_init, RunState, TypeOK
  <2>4. it_peer' \in [Nodes -> Nat \ {0}]
    <3>1. /\ it_peer \in [Nodes -> Nat \ {0}]
          /\ it_peer' = [it_peer EXCEPT ![n] = @ + 1]
      BY <1>2 DEF server_init, TypeOK
    <3> QED
      BY <3>1
  <2> QED
    BY <1>2, <2>2, <2>3, <2>4 DEF server_init, TypeOK
<1>3. CASE server_set_device(n)
    BY <1>3 DEF server_set_device, TypeOK
<1>4. CASE server_delete(n)
    BY <1>4, ProcessEndsType DEF server_delete
<1>5. ASSUME NEW m \in Nodes, client_add_peer(n, m)
      PROVE  TypeOK'
  <2>1. /\ sock' \in [Nodes -> [Conns -> EndStates]]
        /\ pending' \in [Nodes -> Seq(Conns)]
        /\ faults' \in 0..MaxFaults
    BY <1>5, ConnectType DEF client_add_peer
  <2> QED
    BY <1>5, <2>1 DEF client_add_peer, life, TypeOK
<1> QED
    BY <1>1, <1>2, <1>3, <1>4, <1>5

\* One event on one end of a connection.
LEMMA EventType ==
    ASSUME TypeOK, NEW c \in Conns, NEW n \in {c.from, c.to},
           \/ TcpConnect(c) \/ listen_callback(n, c)
           \/ server_mc_event_cb_connected(n, c)
           \/ server_mc_event_cb_eof(n, c) \/ server_mc_event_cb_error(n, c)
           \/ server_mc_read_cb(n, c)
    PROVE  TypeOK'
<1>0. n \in Nodes /\ c.to \in Nodes /\ Other(n, c) \in Nodes
    BY DEF Conns, Other
<1>1. CASE TcpConnect(c)
  <2>1. sock' \in [Nodes -> [Conns -> EndStates]]
    BY <1>0, <1>1 DEF TcpConnect, TypeOK, EndStates
  <2> QED
    BY <1>1, <2>1 DEF TcpConnect, life, TypeOK
<1>2. CASE listen_callback(n, c)
  <2>1. CASE mc_established(n, Other(n, c))
    BY <1>0, <1>2, <2>1, ProcessEndsType DEF listen_callback, mc_peer_accept
  <2>2. CASE ~mc_established(n, Other(n, c)) /\ Encryption
    <3>1. /\ sock' = [sock EXCEPT ![n][c] = "accepted"]
          /\ pending' = [pending EXCEPT ![n] = Append(@, c)]
          /\ UNCHANGED <<life, peers, udp_peers, inbox, faults>>
      BY <1>2, <2>2, Zenon DEF listen_callback, mc_peer_accept
    <3>2. sock' \in [Nodes -> [Conns -> EndStates]]
      BY <1>0, <3>1, SockType DEF EndStates
    <3>3. Append(pending[n], c) \in Seq(Conns)
      BY <1>0, AppendLemma DEF TypeOK
    <3> QED
      BY <1>0, <3>1, <3>2, <3>3 DEF life, TypeOK
  <2>3. CASE ~mc_established(n, Other(n, c)) /\ ~Encryption
    <3>1. /\ sock' = [sock EXCEPT ![n][c] = "open"]
          /\ peers' = [peers EXCEPT ![n] = Append(@, c)]
          /\ Greet(n, c)
          /\ UNCHANGED <<life, pending, udp_peers, faults>>
      BY <1>2, <2>3, Zenon DEF listen_callback, mc_peer_accept
    <3>2. sock' \in [Nodes -> [Conns -> EndStates]]
      BY <1>0, <3>1, SockType DEF EndStates
    <3>3. Append(peers[n], c) \in Seq(Conns)
      BY <1>0, AppendLemma DEF TypeOK
    <3>4. inbox' \in [Nodes -> [Conns -> Seq(Lines)]]
      BY <1>0, <3>1, GreetType
    <3> QED
      BY <1>0, <3>1, <3>2, <3>3, <3>4 DEF life, TypeOK
  <2> QED
    BY <1>2, <2>1, <2>2, <2>3
<1>3. CASE server_mc_event_cb_connected(n, c)
  <2>1. sock' \in [Nodes -> [Conns -> EndStates]]
    BY <1>0, <1>3 DEF server_mc_event_cb_connected, TypeOK, EndStates
  <2>2. Append(peers[n], c) \in Seq(Conns)
    BY <1>0, AppendLemma DEF TypeOK
  <2>3. Without(pending[n], c) \in Seq(Conns)
    BY <1>0, <1>3, WithoutLemma DEF server_mc_event_cb_connected, TypeOK
  <2>4. inbox' \in [Nodes -> [Conns -> Seq(Lines)]]
    BY <1>0, <1>3, GreetType DEF server_mc_event_cb_connected
  <2> QED
    BY <1>0, <1>3, <2>1, <2>2, <2>3, <2>4
       DEF server_mc_event_cb_connected, life, TypeOK
<1>4. CASE server_mc_event_cb_eof(n, c)
  <2>1. sock' \in [Nodes -> [Conns -> EndStates]]
    BY <1>0, <1>4 DEF server_mc_event_cb_eof, TypeOK, EndStates
  <2>2. Without(peers[n], c) \in Seq(Conns)
    BY <1>0, <1>4, WithoutLemma DEF server_mc_event_cb_eof, TypeOK
  <2>3. DropFirst(udp_peers[n], Other(n, c)) \in Seq(Endpoints)
    BY <1>0, DropFirstType DEF TypeOK
  <2>4. inbox' \in [Nodes -> [Conns -> Seq(Lines)]]
    <3>1. <<>> \in Seq(Lines)
      OBVIOUS
    <3> QED
      BY <1>0, <1>4, <3>1 DEF server_mc_event_cb_eof, TypeOK
  <2> QED
    BY <1>0, <1>4, <2>1, <2>2, <2>3, <2>4 DEF server_mc_event_cb_eof, life, TypeOK
<1>5. CASE server_mc_event_cb_error(n, c)
  <2>1. sock' \in [Nodes -> [Conns -> EndStates]]
    BY <1>0, <1>5 DEF server_mc_event_cb_error, TypeOK, EndStates
  <2>2. pending' \in [Nodes -> Seq(Conns)] /\ peers' \in [Nodes -> Seq(Conns)]
    <3>1. CASE /\ c \in Elems(pending[n])
               /\ pending' = [pending EXCEPT ![n] = Without(@, c)]
               /\ UNCHANGED peers
      <4>1. Without(pending[n], c) \in Seq(Conns)
        BY <1>0, <3>1, WithoutLemma DEF TypeOK
      <4> QED
        BY <1>0, <3>1, <4>1 DEF TypeOK
    <3>2. CASE /\ c \in Elems(peers[n])
               /\ peers' = [peers EXCEPT ![n] = Without(@, c)]
               /\ UNCHANGED pending
      <4>1. Without(peers[n], c) \in Seq(Conns)
        BY <1>0, <3>2, WithoutLemma DEF TypeOK
      <4> QED
        BY <1>0, <3>2, <4>1 DEF TypeOK
    <3> QED
      BY <1>5, <3>1, <3>2 DEF server_mc_event_cb_error
  <2>3. inbox' \in [Nodes -> [Conns -> Seq(Lines)]]
    <3>1. <<>> \in Seq(Lines)
      OBVIOUS
    <3>2. inbox' = [inbox EXCEPT ![n][c] = <<>>]
      BY <1>5 DEF server_mc_event_cb_error
    <3> QED
      BY <1>0, <3>1, <3>2 DEF TypeOK
  <2>4. faults' \in 0..MaxFaults
    <3>1. faults' = faults \/ (faults < MaxFaults /\ faults' = faults + 1)
      BY <1>5 DEF server_mc_event_cb_error, ErrorCause
    <3>2. faults \in 0..MaxFaults
      BY DEF TypeOK
    <3> QED
      BY <3>1, <3>2, MetaNetAssumption
  <2> QED
    <3>1. UNCHANGED <<proc, it_peer, listening, udp_port, udp_peers>>
      BY <1>5 DEF server_mc_event_cb_error, life
    <3> QED
      BY <2>1, <2>2, <2>3, <2>4, <3>1 DEF TypeOK
<1>6. CASE server_mc_read_cb(n, c)
  <2>1. inbox[n][c] \in Seq(Lines) /\ inbox[n][c] # <<>>
    <3>1. inbox[n][c] # <<>>
      BY <1>6 DEF server_mc_read_cb
    <3>2. inbox[n][c] \in Seq(Lines)
      BY <1>0 DEF TypeOK
    <3> QED
      BY <3>1, <3>2
  <2>2. Tail(inbox[n][c]) \in Seq(Lines) /\ Head(inbox[n][c]) \in Lines
    BY <2>1
  <2>3. inbox' \in [Nodes -> [Conns -> Seq(Lines)]]
    BY <1>0, <1>6, <2>2 DEF server_mc_read_cb, TypeOK
  <2>4. [addr |-> Other(n, c), port |-> Head(inbox[n][c]).port] \in Endpoints
    BY <1>0, <2>2 DEF Endpoints, Lines
  <2>5. Append(udp_peers[n], [addr |-> Other(n, c),
                              port |-> Head(inbox[n][c]).port])
          \in Seq(Endpoints)
    BY <1>0, <2>4, AppendLemma DEF TypeOK
  <2>6. udp_peers' \in [Nodes -> Seq(Endpoints)]
    BY <1>0, <1>6, <2>5 DEF server_mc_read_cb, TypeOK
  <2> QED
    BY <1>6, <2>3, <2>6 DEF server_mc_read_cb, life, TypeOK
<1> QED
    BY <1>1, <1>2, <1>3, <1>4, <1>5, <1>6

\* Every step keeps the types.
LEMMA NextType ==
    TypeOK /\ [Next]_vars => TypeOK'
<1> SUFFICES ASSUME TypeOK, [Next]_vars
             PROVE  TypeOK'
    OBVIOUS
<1>1. CASE UNCHANGED vars
    BY <1>1 DEF vars, TypeOK
<1>2. ASSUME NEW n \in Nodes,
             \/ server_start(n) \/ server_init(n) \/ server_set_device(n)
             \/ server_delete(n) \/ \E m \in Nodes : client_add_peer(n, m)
      PROVE  TypeOK'
    BY <1>2, LifeType
<1>3. ASSUME NEW c \in Conns, TcpConnect(c)
      PROVE  TypeOK'
    BY <1>3, EventType
<1>4. ASSUME NEW c \in Conns, NEW n \in {c.from, c.to},
             \/ listen_callback(n, c) \/ server_mc_event_cb_connected(n, c)
             \/ server_mc_event_cb_eof(n, c) \/ server_mc_event_cb_error(n, c)
             \/ server_mc_read_cb(n, c)
      PROVE  TypeOK'
    BY <1>4, EventType
<1> QED
    BY <1>1, <1>2, <1>3, <1>4 DEF Next

\* In every reachable state of any network of daemons the tables have the
\* shape server.c gives them.
THEOREM TypeCorrect == Spec => []TypeOK
<1>1. Init => TypeOK
  <2> SUFFICES ASSUME Init PROVE TypeOK
    OBVIOUS
  <2>1. <<>> \in Seq(Conns) /\ <<>> \in Seq(Endpoints) /\ <<>> \in Seq(Lines)
    OBVIOUS
  <2>2. inbox \in [Nodes -> [Conns -> Seq(Lines)]]
    BY <2>1 DEF Init
  <2>3. sock \in [Nodes -> [Conns -> EndStates]]
    BY DEF Init, EndStates
  <2> QED
    BY <2>1, <2>2, <2>3, MetaNetAssumption DEF Init, TypeOK
<1>2. TypeOK /\ [Next]_vars => TypeOK'
    BY NextType
<1> QED
    BY <1>1, <1>2, PTL DEF Spec

----------------------------------------------------------------------------
(* Every bufferevent that can call back is listed exactly once. *)

\* A step that changes the lists and sockets of one daemon only.
LEMMA OneNodeStep ==
    ASSUME TypeOK, ListedExactlyOnce, NEW n \in Nodes,
           ListsAgree(pending'[n], peers'[n], sock'[n]),
           \A m \in Nodes \ {n} : /\ pending'[m] = pending[m]
                                  /\ peers'[m] = peers[m]
                                  /\ sock'[m] = sock[m]
    PROVE  ListedExactlyOnce'
    BY DEF ListedExactlyOnce

\* The first part of mc_peer_connect, taken by server_init and by the client.
LEMMA ConnectLists ==
    ASSUME TypeOK, ListedExactlyOnce, NEW n \in Nodes, NEW m \in Nodes,
           mc_peer_connect(n, m), UNCHANGED peers
    PROVE  ListedExactlyOnce'
<1>1. PICK c \in Fresh(n, m) : ConnectWith(n, m, c)
    BY DEF mc_peer_connect
<1>2. c \in Conns /\ sock[n][c] \notin Tracked
    BY DEF Fresh, Tracked
<1>3. /\ pending[n] \in Seq(Conns) /\ peers[n] \in Seq(Conns)
      /\ sock[n] \in [Conns -> EndStates]
      /\ ListsAgree(pending[n], peers[n], sock[n])
    BY DEF TypeOK, ListedExactlyOnce
<1>4. CASE UNCHANGED <<sock, pending>>
    BY <1>4 DEF ListedExactlyOnce
<1>5. CASE /\ sock' = [sock EXCEPT ![n][c] = "connecting"]
           /\ pending' = [pending EXCEPT ![n] = Append(@, c)]
  <2>1. /\ sock'[n] = [sock[n] EXCEPT ![c] = "connecting"]
        /\ pending'[n] = Append(pending[n], c)
        /\ peers'[n] = peers[n]
    BY <1>5 DEF TypeOK
  <2>2. ListsAgree(pending'[n], peers'[n], sock'[n])
    <3>1. ListsAgree(Append(pending[n], c), peers[n],
                     [sock[n] EXCEPT ![c] = "connecting"])
      BY <1>2, <1>3, InsertPending
    <3> QED
      BY <2>1, <3>1
  <2>3. \A k \in Nodes \ {n} : /\ pending'[k] = pending[k]
                               /\ peers'[k] = peers[k]
                               /\ sock'[k] = sock[k]
    BY <1>5 DEF TypeOK
  <2> QED
    BY <2>2, <2>3, OneNodeStep
<1>6. CASE /\ sock' = [sock EXCEPT ![n][c] = "leaked"]
           /\ UNCHANGED pending
  <2>1. /\ sock'[n] = [sock[n] EXCEPT ![c] = "leaked"]
        /\ pending'[n] = pending[n]
        /\ peers'[n] = peers[n]
    BY <1>6 DEF TypeOK
  <2>2. "leaked" \notin Tracked
    BY DEF Tracked
  <2>3. ListsAgree(pending'[n], peers'[n], sock'[n])
    BY <1>2, <1>3, <2>1, <2>2, UntrackedChange
  <2>4. \A k \in Nodes \ {n} : /\ pending'[k] = pending[k]
                               /\ peers'[k] = peers[k]
                               /\ sock'[k] = sock[k]
    BY <1>6 DEF TypeOK
  <2> QED
    BY <2>3, <2>4, OneNodeStep
<1> QED
    BY <1>1, <1>4, <1>5, <1>6 DEF ConnectWith

\* The end of a process.
LEMMA ProcessEndsLists ==
    ASSUME TypeOK, ListedExactlyOnce, NEW n \in Nodes, NEW how, NEW ordered,
           ProcessEnds(n, how, ordered)
    PROVE  ListedExactlyOnce'
<1>1. /\ pending'[n] = <<>> /\ peers'[n] = <<>>
      /\ \A c \in Conns : sock'[n][c] = IF sock[n][c] \in {"none", "closed", "dropped"}
                                        THEN sock[n][c]
                                        ELSE IF c \in ordered THEN "closed"
                                        ELSE "dropped"
      /\ \A m \in Nodes \ {n} : /\ pending'[m] = pending[m]
                                /\ peers'[m] = peers[m]
                                /\ sock'[m] = sock[m]
    BY DEF ProcessEnds, TypeOK
<1>2. \A c \in Conns : sock'[n][c] \notin Tracked
    BY <1>1 DEF Tracked
<1>3. ListsAgree(pending'[n], peers'[n], sock'[n])
    BY <1>1, <1>2, EmptyLists
<1> QED
    BY <1>1, <1>3, OneNodeStep

\* The life of a process.
LEMMA LifeLists ==
    ASSUME TypeOK, ListedExactlyOnce, NEW n \in Nodes,
           \/ server_start(n) \/ server_init(n) \/ server_set_device(n)
           \/ server_delete(n) \/ \E m \in Nodes : client_add_peer(n, m)
    PROVE  ListedExactlyOnce'
<1>1. CASE server_start(n) \/ server_set_device(n)
    BY <1>1 DEF server_start, server_set_device, ListedExactlyOnce
<1>2. CASE server_init(n)
  <2>1. PICK c \in Fresh(n, PeerAddrs[n][it_peer[n]]) : TRUE
    BY <1>2 DEF server_init, mc_peer_connect
  <2>2. PeerAddrs[n][it_peer[n]] \in Nodes
    BY <2>1 DEF Fresh, Conns
  <2> QED
    BY <1>2, <2>2, ConnectLists DEF server_init
<1>3. CASE server_delete(n)
    BY <1>3, ProcessEndsLists DEF server_delete
<1>4. ASSUME NEW m \in Nodes, client_add_peer(n, m)
      PROVE  ListedExactlyOnce'
    BY <1>4, ConnectLists DEF client_add_peer
<1> QED
    BY <1>1, <1>2, <1>3, <1>4

\* The events of one connection.
LEMMA EventLists ==
    ASSUME TypeOK, ListedExactlyOnce, NEW c \in Conns, NEW n \in {c.from, c.to},
           \/ TcpConnect(c) \/ listen_callback(n, c)
           \/ server_mc_event_cb_connected(n, c)
           \/ server_mc_event_cb_eof(n, c) \/ server_mc_event_cb_error(n, c)
           \/ server_mc_read_cb(n, c)
    PROVE  ListedExactlyOnce'
<1>0. n \in Nodes /\ c.to \in Nodes
    BY DEF Conns
<1>a. \A m \in Nodes : /\ pending[m] \in Seq(Conns) /\ peers[m] \in Seq(Conns)
                       /\ sock[m] \in [Conns -> EndStates]
                       /\ ListsAgree(pending[m], peers[m], sock[m])
    BY DEF TypeOK, ListedExactlyOnce
<1>1. CASE TcpConnect(c)
  <2>1. /\ sock'[c.to] = [sock[c.to] EXCEPT ![c] = "queued"]
        /\ \A m \in Nodes \ {c.to} : sock'[m] = sock[m]
        /\ UNCHANGED <<pending, peers>>
        /\ sock[c.to][c] \notin Tracked
    BY <1>0, <1>1 DEF TcpConnect, TypeOK, Tracked
  <2>2. "queued" \notin Tracked
    BY DEF Tracked
  <2>3. ListsAgree(pending'[c.to], peers'[c.to], sock'[c.to])
    <3>1. ListsAgree(pending[c.to], peers[c.to],
                     [sock[c.to] EXCEPT ![c] = "queued"])
      BY <1>0, <1>a, <2>1, <2>2, UntrackedChange
    <3> QED
      BY <2>1, <3>1
  <2> QED
    BY <1>0, <2>1, <2>3, OneNodeStep
<1>2. CASE listen_callback(n, c)
  <2>0. sock[n][c] \notin Tracked
    BY <1>2 DEF listen_callback, Tracked
  <2>1. CASE mc_established(n, Other(n, c))
    BY <1>0, <1>2, <2>1, ProcessEndsLists DEF listen_callback, mc_peer_accept
  <2>2. CASE ~mc_established(n, Other(n, c)) /\ Encryption
    <3>1. /\ sock' = [sock EXCEPT ![n][c] = "accepted"]
          /\ pending' = [pending EXCEPT ![n] = Append(@, c)]
          /\ UNCHANGED peers
      BY <1>2, <2>2, Zenon DEF listen_callback, mc_peer_accept
    <3>2. /\ sock'[n] = [sock[n] EXCEPT ![c] = "accepted"]
          /\ pending'[n] = Append(pending[n], c)
          /\ peers'[n] = peers[n]
      BY <1>0, <3>1 DEF TypeOK
    <3>3. ListsAgree(pending'[n], peers'[n], sock'[n])
      <4>1. ListsAgree(Append(pending[n], c), peers[n],
                       [sock[n] EXCEPT ![c] = "accepted"])
        BY <1>0, <1>a, <2>0, InsertPending
      <4> QED
        BY <3>2, <4>1
    <3>4. \A m \in Nodes \ {n} : /\ pending'[m] = pending[m]
                                 /\ peers'[m] = peers[m]
                                 /\ sock'[m] = sock[m]
      BY <1>0, <3>1 DEF TypeOK
    <3> QED
      BY <1>0, <3>3, <3>4, OneNodeStep
  <2>3. CASE ~mc_established(n, Other(n, c)) /\ ~Encryption
    <3>1. /\ sock' = [sock EXCEPT ![n][c] = "open"]
          /\ peers' = [peers EXCEPT ![n] = Append(@, c)]
          /\ UNCHANGED pending
      BY <1>2, <2>3, Zenon DEF listen_callback, mc_peer_accept
    <3>2. /\ sock'[n] = [sock[n] EXCEPT ![c] = "open"]
          /\ peers'[n] = Append(peers[n], c)
          /\ pending'[n] = pending[n]
      BY <1>0, <3>1 DEF TypeOK
    <3>3. ListsAgree(pending'[n], peers'[n], sock'[n])
      <4>1. ListsAgree(pending[n], Append(peers[n], c),
                       [sock[n] EXCEPT ![c] = "open"])
        BY <1>0, <1>a, <2>0, InsertPeer
      <4> QED
        BY <3>2, <4>1
    <3>4. \A m \in Nodes \ {n} : /\ pending'[m] = pending[m]
                                 /\ peers'[m] = peers[m]
                                 /\ sock'[m] = sock[m]
      BY <1>0, <3>1 DEF TypeOK
    <3> QED
      BY <1>0, <3>3, <3>4, OneNodeStep
  <2> QED
    BY <1>2, <2>1, <2>2, <2>3
<1>3. CASE server_mc_event_cb_connected(n, c)
  <2>1. /\ c \in Elems(pending[n])
        /\ sock' = [sock EXCEPT ![n][c] = "open"]
        /\ pending' = [pending EXCEPT ![n] = Without(@, c)]
        /\ peers' = [peers EXCEPT ![n] = Append(@, c)]
    BY <1>3 DEF server_mc_event_cb_connected
  <2>2. /\ sock'[n] = [sock[n] EXCEPT ![c] = "open"]
        /\ pending'[n] = Without(pending[n], c)
        /\ peers'[n] = Append(peers[n], c)
    BY <1>0, <2>1 DEF TypeOK
  <2>3. ListsAgree(pending'[n], peers'[n], sock'[n])
    <3>1. ListsAgree(Without(pending[n], c), Append(peers[n], c),
                     [sock[n] EXCEPT ![c] = "open"])
      BY <1>0, <1>a, <2>1, MoveToPeers
    <3> QED
      BY <2>2, <3>1
  <2>4. \A m \in Nodes \ {n} : /\ pending'[m] = pending[m]
                               /\ peers'[m] = peers[m]
                               /\ sock'[m] = sock[m]
    BY <1>0, <2>1 DEF TypeOK
  <2> QED
    BY <1>0, <2>3, <2>4, OneNodeStep
<1>4. CASE server_mc_event_cb_eof(n, c)
  <2>1. /\ c \in Elems(peers[n])
        /\ sock' = [sock EXCEPT ![n][c] = "closed"]
        /\ peers' = [peers EXCEPT ![n] = Without(@, c)]
        /\ UNCHANGED pending
    BY <1>4 DEF server_mc_event_cb_eof
  <2>2. /\ sock'[n] = [sock[n] EXCEPT ![c] = "closed"]
        /\ peers'[n] = Without(peers[n], c)
        /\ pending'[n] = pending[n]
    BY <1>0, <2>1 DEF TypeOK
  <2>3. ListsAgree(pending'[n], peers'[n], sock'[n])
    <3>1. ListsAgree(pending[n], Without(peers[n], c),
                     [sock[n] EXCEPT ![c] = "closed"])
      BY <1>0, <1>a, <2>1, ClosePeer
    <3> QED
      BY <2>2, <3>1
  <2>4. \A m \in Nodes \ {n} : /\ pending'[m] = pending[m]
                               /\ peers'[m] = peers[m]
                               /\ sock'[m] = sock[m]
    BY <1>0, <2>1 DEF TypeOK
  <2> QED
    BY <1>0, <2>3, <2>4, OneNodeStep
<1>5. CASE server_mc_event_cb_error(n, c)
  <2>1. sock' = [sock EXCEPT ![n][c] = "dropped"]
    BY <1>5 DEF server_mc_event_cb_error
  <2>2. sock'[n] = [sock[n] EXCEPT ![c] = "dropped"]
    BY <1>0, <2>1 DEF TypeOK
  <2>3. CASE /\ c \in Elems(pending[n])
             /\ pending' = [pending EXCEPT ![n] = Without(@, c)]
             /\ UNCHANGED peers
    <3>1. pending'[n] = Without(pending[n], c) /\ peers'[n] = peers[n]
      BY <1>0, <2>3 DEF TypeOK
    <3>2. ListsAgree(pending'[n], peers'[n], sock'[n])
      <4>1. ListsAgree(Without(pending[n], c), peers[n],
                       [sock[n] EXCEPT ![c] = "dropped"])
        BY <1>0, <1>a, <2>3, ClosePending
      <4> QED
        BY <2>2, <3>1, <4>1
    <3>3. \A m \in Nodes \ {n} : /\ pending'[m] = pending[m]
                                 /\ peers'[m] = peers[m]
                                 /\ sock'[m] = sock[m]
      BY <1>0, <2>1, <2>3 DEF TypeOK
    <3> QED
      BY <1>0, <3>2, <3>3, OneNodeStep
  <2>4. CASE /\ c \in Elems(peers[n])
             /\ peers' = [peers EXCEPT ![n] = Without(@, c)]
             /\ UNCHANGED pending
    <3>1. peers'[n] = Without(peers[n], c) /\ pending'[n] = pending[n]
      BY <1>0, <2>4 DEF TypeOK
    <3>2. ListsAgree(pending'[n], peers'[n], sock'[n])
      <4>1. ListsAgree(pending[n], Without(peers[n], c),
                       [sock[n] EXCEPT ![c] = "dropped"])
        BY <1>0, <1>a, <2>4, ClosePeer
      <4> QED
        BY <2>2, <3>1, <4>1
    <3>3. \A m \in Nodes \ {n} : /\ pending'[m] = pending[m]
                                 /\ peers'[m] = peers[m]
                                 /\ sock'[m] = sock[m]
      BY <1>0, <2>1, <2>4 DEF TypeOK
    <3> QED
      BY <1>0, <3>2, <3>3, OneNodeStep
  <2> QED
    BY <1>5, <2>3, <2>4 DEF server_mc_event_cb_error
<1>6. CASE server_mc_read_cb(n, c)
    BY <1>6 DEF server_mc_read_cb, ListedExactlyOnce
<1> QED
    BY <1>1, <1>2, <1>3, <1>4, <1>5, <1>6

\* For any network, configuration and bounds: pending_peers and peers hold
\* every bufferevent that can still call back, each in one list and once, and
\* nothing that server.c has freed.
THEOREM ListsCorrect == Spec => []ListedExactlyOnce
<1>1. Init => ListedExactlyOnce
  <2> SUFFICES ASSUME Init, NEW n \in Nodes
               PROVE  ListsAgree(pending[n], peers[n], sock[n])
    BY DEF ListedExactlyOnce
  <2>1. \A c \in Conns : sock[n][c] \notin Tracked
    BY DEF Init, Tracked
  <2> QED
    BY <2>1, EmptyLists DEF Init
<1>2. TypeOK /\ ListedExactlyOnce /\ [Next]_vars => ListedExactlyOnce'
  <2> SUFFICES ASSUME TypeOK, ListedExactlyOnce, [Next]_vars
               PROVE  ListedExactlyOnce'
    OBVIOUS
  <2>1. CASE UNCHANGED vars
    BY <2>1 DEF vars, ListedExactlyOnce
  <2>2. ASSUME NEW n \in Nodes,
               \/ server_start(n) \/ server_init(n) \/ server_set_device(n)
               \/ server_delete(n) \/ \E m \in Nodes : client_add_peer(n, m)
        PROVE  ListedExactlyOnce'
    BY <2>2, LifeLists
  <2>3. ASSUME NEW c \in Conns, TcpConnect(c)
        PROVE  ListedExactlyOnce'
    BY <2>3, EventLists
  <2>4. ASSUME NEW c \in Conns, NEW n \in {c.from, c.to},
               \/ listen_callback(n, c) \/ server_mc_event_cb_connected(n, c)
               \/ server_mc_event_cb_eof(n, c) \/ server_mc_event_cb_error(n, c)
               \/ server_mc_read_cb(n, c)
        PROVE  ListedExactlyOnce'
    BY <2>4, EventLists
  <2> QED
    BY <2>1, <2>2, <2>3, <2>4 DEF Next
<1> QED
    BY <1>1, <1>2, TypeCorrect, PTL DEF Spec

-----------------------------------------------------------------------------
(* The ports *)

\* The endpoints and the lines that hold a port their daemon has bound.
SoundEndpoints == {e \in Endpoints : e.port \in 1..udp_port[e.addr]}
SoundLines(m) == {l \in Lines : l.cmd = "udp_port" => l.port \in 1..udp_port[m]}

\* What AnnouncedPortsOnly rests on: a daemon that runs has a port, and the
\* lines that are still in a socket are as sound as the table they will fill.
HasPort == \A n \in Nodes : proc[n] \in {"init", "up"} => udp_port[n] # 0
TablesSound == \A n \in Nodes : udp_peers[n] \in Seq(SoundEndpoints)
InboxesSound ==
    \A c \in Conns : \A n \in {c.from, c.to} :
        inbox[n][c] \in Seq(SoundLines(Other(n, c)))
PortsInv == HasPort /\ TablesSound /\ InboxesSound

----------------------------------------------------------------------------

\* A vector over a set is a vector over a larger one.
LEMMA SeqMonotone ==
    ASSUME NEW S, NEW T, S \subseteq T, NEW v \in Seq(S)
    PROVE  v \in Seq(T)
<1>1. Len(v) \in Nat /\ v \in [1..Len(v) -> S]
  OBVIOUS
<1>2. v \in [1..Len(v) -> T]
  BY <1>1
<1> QED
  BY <1>1, <1>2

\* The ends of a connection are each other's other ends.
LEMMA EndsLemma ==
    ASSUME NEW c \in Conns, NEW n \in {c.from, c.to}
    PROVE  /\ n \in Nodes
           /\ Other(n, c) \in {c.from, c.to}
           /\ Other(n, c) \in Nodes
           /\ Other(n, c) # n
           /\ Other(Other(n, c), c) = n
BY DEF Conns, Other

\* Where the ports stay, soundness is that of the same sets.
LEMMA SamePorts ==
    ASSUME UNCHANGED udp_port
    PROVE  /\ SoundEndpoints' = SoundEndpoints
           /\ \A m : SoundLines(m)' = SoundLines(m)
BY DEF SoundEndpoints, SoundLines

\* server_start binds a new port: what was sound stays so.
LEMMA StartPorts ==
    ASSUME TypeOK, PortsInv, NEW n \in Nodes, server_start(n)
    PROVE  PortsInv'
<1>1. /\ udp_port \in [Nodes -> Nat]
      /\ udp_port' = [udp_port EXCEPT ![n] = @ + 1]
      /\ UNCHANGED <<udp_peers, inbox>>
  BY MetaNetAssumption DEF TypeOK, server_start
<1>2. \A m \in Nodes : udp_port[m] \in Nat /\ udp_port'[m] \in Nat /\ udp_port[m] <= udp_port'[m]
  BY <1>1
<1>3. SoundEndpoints \subseteq SoundEndpoints'
  BY <1>2 DEF SoundEndpoints, Endpoints
<1>4. \A m \in Nodes : SoundLines(m) \subseteq SoundLines(m)'
  BY <1>2 DEF SoundLines
<1>5. HasPort'
  <2>1. proc' = [proc EXCEPT ![n] = RunState(n, 1)]
    BY DEF server_start
  <2>2. udp_port'[n] # 0
    BY <1>1
  <2> QED
    BY <1>1, <2>1, <2>2 DEF HasPort, PortsInv, TypeOK
<1>6. TablesSound'
  BY <1>1, <1>3, SeqMonotone DEF TablesSound, PortsInv
<1>7. InboxesSound'
  BY <1>1, <1>4, SeqMonotone, EndsLemma DEF InboxesSound, PortsInv
<1> QED
  BY <1>5, <1>6, <1>7 DEF PortsInv

\* A process that ends leaves nothing of its tables.
LEMMA EndsPorts ==
    ASSUME TypeOK, PortsInv, NEW n \in Nodes, NEW how \in {"down", "crashed"},
           NEW ordered, ProcessEnds(n, how, ordered)
    PROVE  PortsInv'
<1>1. UNCHANGED udp_port /\ <<>> \in Seq(SoundEndpoints) /\ \A m : <<>> \in Seq(SoundLines(m))
  BY DEF ProcessEnds
<1>2. HasPort'
  BY <1>1 DEF HasPort, PortsInv, ProcessEnds, TypeOK
<1>3. TablesSound'
  BY <1>1, SamePorts DEF TablesSound, PortsInv, ProcessEnds, TypeOK
<1>4. InboxesSound'
  BY <1>1, SamePorts, EndsLemma DEF InboxesSound, PortsInv, ProcessEnds, TypeOK
<1> QED
  BY <1>2, <1>3, <1>4 DEF PortsInv

\* mc_establish_tunnel announces the port of a daemon that runs.
LEMMA GreetPorts ==
    ASSUME TypeOK, PortsInv, NEW c \in Conns, NEW n \in {c.from, c.to},
           proc[n] = "up", Greet(n, c), UNCHANGED udp_port
    PROVE  InboxesSound'
<1> DEFINE o == Other(n, c)
<1>1. n \in Nodes /\ o \in {c.from, c.to} /\ o \in Nodes /\ Other(o, c) = n
  BY EndsLemma
<1>2. udp_port[n] \in 0..MaxStarts /\ udp_port[n] # 0 /\ 0 \in 0..MaxStarts
  BY <1>1, MetaNetAssumption DEF TypeOK, PortsInv, HasPort
<1>3. udp_port[n] \in 1..udp_port[n]
  BY <1>2
<1>4. /\ [cmd |-> "Hello", port |-> 0] \in SoundLines(n)
      /\ [cmd |-> "udp_port", port |-> udp_port[n]] \in SoundLines(n)
  BY <1>2, <1>3 DEF SoundLines, Lines
<1>5. Greeting(n) \in Seq(SoundLines(n))
  BY <1>4 DEF Greeting
<1>6. inbox[o][c] \o Greeting(n) \in Seq(SoundLines(Other(o, c)))
  BY <1>1, <1>5 DEF PortsInv, InboxesSound
<1>7. ASSUME NEW d \in Conns, NEW m \in {d.from, d.to}
      PROVE  inbox'[m][d] \in Seq(SoundLines(Other(m, d)))
  <2>1. m \in Nodes /\ inbox[m][d] \in Seq(SoundLines(Other(m, d)))
    BY EndsLemma DEF PortsInv, InboxesSound
  <2>2. CASE m = o /\ d = c
    BY <1>1, <1>6, <2>1, <2>2 DEF Greet, TypeOK
  <2>3. CASE ~(m = o /\ d = c)
    BY <1>1, <2>1, <2>3 DEF Greet, TypeOK
  <2> QED
    BY <2>2, <2>3
<1> QED
  BY <1>7, SamePorts DEF InboxesSound

\* Clearing one end leaves the others.
LEMMA ClearPorts ==
    ASSUME TypeOK, PortsInv, NEW c \in Conns, NEW n \in {c.from, c.to},
           NEW v \in Seq(SoundLines(Other(n, c))),
           inbox' = [inbox EXCEPT ![n][c] = v], UNCHANGED udp_port
    PROVE  InboxesSound'
<1>1. ASSUME NEW d \in Conns, NEW m \in {d.from, d.to}
      PROVE  inbox'[m][d] \in Seq(SoundLines(Other(m, d)))
  <2>1. m \in Nodes /\ n \in Nodes /\ inbox[m][d] \in Seq(SoundLines(Other(m, d)))
    BY EndsLemma DEF PortsInv, InboxesSound
  <2>2. CASE m = n /\ d = c
    BY <2>1, <2>2 DEF TypeOK
  <2>3. CASE ~(m = n /\ d = c)
    BY <2>1, <2>3 DEF TypeOK
  <2> QED
    BY <2>2, <2>3
<1> QED
  BY <1>1, SamePorts DEF InboxesSound

\* Steps that neither read nor write a table or a line, and start no process.
LEMMA QuietPorts ==
    ASSUME PortsInv, UNCHANGED <<udp_port, udp_peers, inbox>>,
           \A n \in Nodes : proc'[n] \in {"init", "up"} => proc[n] \in {"init", "up"}
    PROVE  PortsInv'
<1>1. HasPort'
  BY DEF HasPort, PortsInv
<1>2. TablesSound' /\ InboxesSound'
  BY SamePorts DEF TablesSound, InboxesSound, PortsInv
<1> QED
  BY <1>1, <1>2 DEF PortsInv

\* The life of a process: server_start, server_init, server_set_device,
\* server_delete and the client.
LEMMA LifePorts ==
    ASSUME TypeOK, PortsInv, NEW n \in Nodes,
           \/ server_start(n) \/ server_init(n) \/ server_set_device(n)
           \/ server_delete(n) \/ \E m \in Nodes : client_add_peer(n, m)
    PROVE  PortsInv'
<1>1. CASE server_start(n)
  BY <1>1, StartPorts
<1>2. CASE server_init(n)
  <2>1. \A k \in Nodes : proc'[k] \in {"init", "up"} => proc[k] \in {"init", "up"}
    BY <1>2 DEF server_init, TypeOK
  <2> QED
    BY <1>2, <2>1, QuietPorts DEF server_init
<1>3. CASE server_set_device(n)
  BY <1>3, QuietPorts DEF server_set_device
<1>4. CASE server_delete(n)
  BY <1>4, EndsPorts DEF server_delete
<1>5. CASE \E m \in Nodes : client_add_peer(n, m)
  BY <1>5, QuietPorts DEF client_add_peer, life
<1> QED
  BY <1>1, <1>2, <1>3, <1>4, <1>5

\* An event on one end of a connection.
LEMMA EventPorts ==
    ASSUME TypeOK, PortsInv, NEW c \in Conns, NEW n \in {c.from, c.to},
           \/ listen_callback(n, c) \/ server_mc_event_cb_connected(n, c)
           \/ server_mc_event_cb_eof(n, c) \/ server_mc_event_cb_error(n, c)
           \/ server_mc_read_cb(n, c)
    PROVE  PortsInv'
<1> DEFINE o == Other(n, c)
<1>1. n \in Nodes /\ o \in Nodes
  BY EndsLemma
<1>2. /\ udp_peers[n] \in Seq(SoundEndpoints)
      /\ inbox[n][c] \in Seq(SoundLines(o))
      /\ <<>> \in Seq(SoundLines(o))
  BY <1>1 DEF PortsInv, TablesSound, InboxesSound
<1>3. CASE listen_callback(n, c)
  <2>1. CASE ProcessEnds(n, "crashed", IF Encryption THEN {} ELSE Finished(n))
    BY <1>1, <2>1, EndsPorts
  <2>2. CASE UNCHANGED <<life, peers, udp_peers, inbox, faults>>
    BY <2>2, QuietPorts DEF life
  <2>3. CASE Greet(n, c) /\ UNCHANGED <<life, pending, udp_peers, faults>>
    <3>1. InboxesSound'
      BY <1>3, <2>3, GreetPorts DEF listen_callback, life
    <3> QED
      BY <2>3, <3>1, SamePorts DEF PortsInv, HasPort, TablesSound, life
  <2> QED
    BY <1>3, <2>1, <2>2, <2>3 DEF listen_callback
<1>4. CASE server_mc_event_cb_connected(n, c)
  <2>1. InboxesSound'
    BY <1>4, GreetPorts DEF server_mc_event_cb_connected, Connected, life
  <2> QED
    BY <1>4, <2>1, SamePorts DEF server_mc_event_cb_connected, PortsInv, HasPort, TablesSound, life
<1>5. CASE server_mc_event_cb_eof(n, c)
  <2>1. InboxesSound'
    BY <1>5, <1>2, ClearPorts DEF server_mc_event_cb_eof, life
  <2>2. DropFirst(udp_peers[n], o) \in Seq(SoundEndpoints)
    BY <1>2, DropFirstType
  <2>3. TablesSound'
    BY <1>1, <1>5, <2>2, SamePorts DEF server_mc_event_cb_eof, PortsInv, TablesSound, TypeOK, life
  <2> QED
    BY <1>5, <2>1, <2>3 DEF server_mc_event_cb_eof, PortsInv, HasPort, life
<1>6. CASE server_mc_event_cb_error(n, c)
  <2>1. InboxesSound'
    BY <1>6, <1>2, ClearPorts DEF server_mc_event_cb_error, life
  <2> QED
    BY <1>6, <2>1, SamePorts DEF server_mc_event_cb_error, PortsInv, HasPort, TablesSound, life
<1>7. CASE server_mc_read_cb(n, c)
  <2>1. inbox[n][c] # <<>>
    BY <1>7 DEF server_mc_read_cb
  <2>2. Head(inbox[n][c]) \in SoundLines(o) /\ Tail(inbox[n][c]) \in Seq(SoundLines(o))
    BY <1>2, <2>1
  <2>3. InboxesSound'
    BY <1>7, <2>2, ClearPorts DEF server_mc_read_cb, life
  <2>4. TablesSound'
    <3>1. CASE Head(inbox[n][c]).cmd = "udp_port"
      <4> DEFINE e == [addr |-> o, port |-> Head(inbox[n][c]).port]
      <4>1. e \in SoundEndpoints
        BY <1>1, <2>2, <3>1 DEF SoundLines, SoundEndpoints, Lines, Endpoints
      <4>2. Append(udp_peers[n], e) \in Seq(SoundEndpoints)
        BY <1>2, <4>1
      <4>3. udp_peers' = [udp_peers EXCEPT ![n] = Append(@, e)] /\ UNCHANGED udp_port
        BY <1>7, <3>1 DEF server_mc_read_cb, life
      <4> QED
        BY <1>1, <4>2, <4>3, SamePorts DEF PortsInv, TablesSound, TypeOK
    <3>2. CASE Head(inbox[n][c]).cmd # "udp_port"
      BY <1>7, <3>2, SamePorts DEF server_mc_read_cb, PortsInv, TablesSound, life
    <3> QED
      BY <3>1, <3>2
  <2> QED
    BY <1>7, <2>3, <2>4 DEF server_mc_read_cb, PortsInv, HasPort, life
<1> QED
  BY <1>3, <1>4, <1>5, <1>6, <1>7

\* Every step keeps PortsInv.
LEMMA NextPorts == TypeOK /\ PortsInv /\ [Next]_vars => PortsInv'
<1> SUFFICES ASSUME TypeOK, PortsInv, [Next]_vars
             PROVE  PortsInv'
  OBVIOUS
<1>1. CASE UNCHANGED vars
  BY <1>1, QuietPorts DEF vars
<1>2. ASSUME NEW n \in Nodes,
             \/ server_start(n) \/ server_init(n) \/ server_set_device(n)
             \/ server_delete(n) \/ \E m \in Nodes : client_add_peer(n, m)
      PROVE  PortsInv'
  BY <1>2, LifePorts
<1>3. ASSUME NEW c \in Conns, TcpConnect(c)
      PROVE  PortsInv'
  BY <1>3, QuietPorts DEF TcpConnect, life
<1>4. ASSUME NEW c \in Conns, NEW n \in {c.from, c.to},
             \/ listen_callback(n, c) \/ server_mc_event_cb_connected(n, c)
             \/ server_mc_event_cb_eof(n, c) \/ server_mc_event_cb_error(n, c)
             \/ server_mc_read_cb(n, c)
      PROVE  PortsInv'
  BY <1>4, EventPorts
<1> QED
  BY <1>1, <1>2, <1>3, <1>4 DEF Next

\* An endpoint that server_mc_read_cb registered holds a port that the daemon at
\* its address has bound, for any number of daemons, restarts and faults.
THEOREM PortsCorrect == Spec => []AnnouncedPortsOnly
<1>1. Init => PortsInv
  <2> SUFFICES ASSUME Init PROVE PortsInv
    OBVIOUS
  <2>1. HasPort
    BY DEF Init, HasPort
  <2>2. TablesSound
    <3>1. \A n \in Nodes : udp_peers[n] = <<>>
      BY DEF Init
    <3>2. <<>> \in Seq(SoundEndpoints)
      OBVIOUS
    <3> QED
      BY <3>1, <3>2 DEF TablesSound
  <2>3. ASSUME NEW c \in Conns, NEW n \in {c.from, c.to}
        PROVE  inbox[n][c] \in Seq(SoundLines(Other(n, c)))
    <3>1. n \in Nodes
      BY EndsLemma
    <3>2. inbox[n][c] = <<>>
      BY <3>1 DEF Init
    <3> QED
      BY <3>2
  <2> QED
    BY <2>1, <2>2, <2>3 DEF PortsInv, InboxesSound
<1>2. PortsInv => AnnouncedPortsOnly
  <2> SUFFICES ASSUME PortsInv, NEW n \in Nodes, NEW e \in Elems(udp_peers[n])
               PROVE  e.port \in 1..udp_port[e.addr]
    BY DEF AnnouncedPortsOnly
  <2>1. udp_peers[n] \in Seq(SoundEndpoints)
    BY DEF PortsInv, TablesSound
  <2>2. e \in SoundEndpoints
    BY <2>1 DEF Elems
  <2> QED
    BY <2>2 DEF SoundEndpoints
<1> QED
  BY <1>1, <1>2, NextPorts, TypeCorrect, PTL DEF Spec

-----------------------------------------------------------------------------
(* The connections *)

\* The unread lines of a connection still hold its announcement.
Announced(v) == \E i \in DOMAIN v : v[i].cmd = "udp_port"

\* The approved connections of n to a that may already have left an endpoint:
\* the other end approved them too, and its announcement is not waiting.
Counted(n, a) == {c \in Established(n, a) : /\ sock[a][c] \in {"open", "closed"}
                                            /\ ~Announced(inbox[n][c])}

\* The elements of C are enough to give each element of E one of its own.
Cover(E, C) == \E f \in [E -> C] : \A i, j \in E : f[i] = f[j] => i = j

\* What EndpointsBelongToPeers rests on: a connection has two ends, lines come
\* from an end that was approved and wait for one that is still there, an end
\* announces its port once, and an address has no more endpoints than counted
\* connections, so that the one endpoint that each EOF drops is enough.
TwoEnds == \A n \in Nodes : \A c \in Conns :
             sock[n][c] # "none" => n \in {c.from, c.to}
OneAnnouncement(n, c) ==
    /\ inbox[n][c] # <<>> => /\ sock[Other(n, c)][c] \in {"open", "closed"}
                             /\ sock[n][c] \notin {"closed", "dropped"}
    /\ \A i, j \in DOMAIN inbox[n][c] :
         inbox[n][c][i].cmd = "udp_port" /\ inbox[n][c][j].cmd = "udp_port" => i = j
AnnouncedOnce == \A c \in Conns : \A n \in {c.from, c.to} : OneAnnouncement(n, c)
Covered == \A n \in Nodes : \A a \in Nodes : Cover(Entries(n, a), Counted(n, a))
EndpointsInv == TwoEnds /\ AnnouncedOnce /\ Covered

\* The network of the runs that check EndpointsBelongToPeers: plain TCP, ends
\* that are closed in order, no spontaneous fault.
Orderly == ~Encryption /\ ~ResetOnClose /\ MaxFaults = 0

----------------------------------------------------------------------------

\* Nothing needs no cover.
LEMMA CoverNone == \A C : Cover({}, C)
<1> SUFFICES ASSUME NEW C PROVE Cover({}, C)
  OBVIOUS
<1>1. [i \in {} |-> i] \in [{} -> C]
  OBVIOUS
<1> QED
  BY <1>1 DEF Cover

\* A larger set covers what a smaller one does.
LEMMA CoverMore ==
    ASSUME NEW E, NEW C, NEW D, C \subseteq D, Cover(E, C)
    PROVE  Cover(E, D)
BY DEF Cover

\* A new endpoint is covered by a new connection.
LEMMA CoverAdd ==
    ASSUME NEW E, NEW C, NEW i, NEW c, NEW D, i \notin E, c \notin C,
           C \subseteq D, c \in D, Cover(E, C)
    PROVE  Cover(E \cup {i}, D)
<1>1. PICK f \in [E -> C] : \A j, k \in E : f[j] = f[k] => j = k
  BY DEF Cover
<1> DEFINE g == [j \in E \cup {i} |-> IF j = i THEN c ELSE f[j]]
<1>2. g \in [E \cup {i} -> D]
  BY <1>1
<1>3. \A j, k \in E \cup {i} : g[j] = g[k] => j = k
  BY <1>1
<1> QED
  BY <1>2, <1>3 DEF Cover

\* Dropping one endpoint makes up for the loss of any one connection.
LEMMA CoverDrop ==
    ASSUME NEW E, NEW C, NEW i \in E, NEW c, Cover(E, C)
    PROVE  Cover(E \ {i}, C \ {c})
<1>1. PICK f \in [E -> C] : \A j, k \in E : f[j] = f[k] => j = k
  BY DEF Cover
<1> DEFINE g == [j \in E \ {i} |-> IF f[j] = c THEN f[i] ELSE f[j]]
<1>2. ASSUME NEW j \in E \ {i}
      PROVE  g[j] \in C \ {c}
  BY <1>1
<1>3. \A j, k \in E \ {i} : g[j] = g[k] => j = k
  BY <1>1
<1>4. g \in [E \ {i} -> C \ {c}]
  BY <1>2
<1> QED
  BY <1>3, <1>4 DEF Cover

\* The names of the endpoints do not matter.
LEMMA CoverRename ==
    ASSUME NEW E, NEW F, NEW C, Cover(E, C), NEW r \in [F -> E],
           \A j, k \in F : r[j] = r[k] => j = k
    PROVE  Cover(F, C)
<1>1. PICK f \in [E -> C] : \A j, k \in E : f[j] = f[k] => j = k
  BY DEF Cover
<1> DEFINE g == [j \in F |-> f[r[j]]]
<1>2. g \in [F -> C]
  BY <1>1
<1>3. \A j, k \in F : g[j] = g[k] => j = k
  BY <1>1
<1> QED
  BY <1>2, <1>3 DEF Cover

\* The positions of address a in a table of endpoints.
Hits(v, a) == {i \in DOMAIN v : v[i].addr = a}

\* v_udp_erase at position p: what is left stood at positions other than p.
LEMMA EraseCover ==
    ASSUME NEW v \in Seq(Endpoints), NEW p \in DOMAIN v, NEW a, NEW C,
           Cover(Hits(v, a) \ {p}, C)
    PROVE  Cover(Hits(Erase(v, p), a), C)
<1> DEFINE w == Erase(v, p)
           r == [j \in Hits(w, a) |-> IF j < p THEN j ELSE j + 1]
<1>1. Len(v) \in Nat /\ DOMAIN v = 1..Len(v) /\ p \in 1..Len(v)
  OBVIOUS
<1>2. /\ DOMAIN w = 1..(Len(v) - 1)
      /\ \A j \in 1..(Len(v) - 1) : w[j] = IF j < p THEN v[j] ELSE v[j + 1]
  BY DEF Erase
<1>3. ASSUME NEW j \in Hits(w, a)
      PROVE  r[j] \in Hits(v, a) \ {p}
  BY <1>1, <1>2 DEF Hits
<1>4. \A j, k \in Hits(w, a) : r[j] = r[k] => j = k
  BY <1>1, <1>2 DEF Hits
<1>5. r \in [Hits(w, a) -> Hits(v, a) \ {p}]
  BY <1>3
<1> HIDE DEF r, w
<1>6. Cover(Hits(w, a), C)
  BY <1>4, <1>5, CoverRename
<1> QED
  BY <1>6 DEF w

\* v_udp_erase of the first endpoint of address a: the endpoints of a that are
\* left can do without any one connection, and those of the others stay covered.
LEMMA DropFirstCover ==
    ASSUME NEW v \in Seq(Endpoints), NEW a, NEW b, NEW C, NEW c,
           Cover(Hits(v, b), C)
    PROVE  /\ b = a => Cover(Hits(DropFirst(v, a), b), C \ {c})
           /\ b # a => Cover(Hits(DropFirst(v, a), b), C)
<1>1. CASE Hits(v, a) = {}
  <2>1. DropFirst(v, a) = v
    BY <1>1 DEF DropFirst, Hits
  <2> QED
    BY <1>1, <2>1, CoverNone
<1>2. CASE Hits(v, a) # {}
  <2> DEFINE p == CHOOSE i \in Hits(v, a) : \A j \in Hits(v, a) : i <= j
  <2>1. Hits(v, a) \subseteq Nat
    BY DEF Hits
  <2>2. p \in Hits(v, a)
    BY <1>2, <2>1, LeastNumber
  <2>3. DropFirst(v, a) = Erase(v, p) /\ p \in DOMAIN v
    BY <1>2, <2>2 DEF DropFirst, Hits
  <2> HIDE DEF p
  <2>4. CASE b = a
    <3>1. Cover(Hits(v, b) \ {p}, C \ {c})
      BY <2>2, <2>4, CoverDrop
    <3> QED
      BY <2>3, <2>4, <3>1, EraseCover
  <2>5. CASE b # a
    <3>1. Hits(v, b) \ {p} = Hits(v, b)
      BY <2>2, <2>5 DEF Hits
    <3> QED
      BY <2>3, <2>5, <3>1, EraseCover
  <2> QED
    BY <2>4, <2>5
<1> QED
  BY <1>1, <1>2

----------------------------------------------------------------------------

\* Where the endpoints stay, covering only asks for no fewer connections.
LEMMA CoveredGrows ==
    ASSUME Covered, UNCHANGED udp_peers,
           \A n, a \in Nodes : Counted(n, a) \subseteq Counted(n, a)'
    PROVE  Covered'
<1> SUFFICES ASSUME NEW n \in Nodes, NEW a \in Nodes
             PROVE  Cover(Entries(n, a)', Counted(n, a)')
  BY DEF Covered
<1>1. Entries(n, a)' = Entries(n, a) /\ Cover(Entries(n, a), Counted(n, a))
  BY DEF Covered, Entries
<1> QED
  BY <1>1, CoverMore

\* An established connection of n to a is an open end of n.
LEMMA EstablishedEnd ==
    ASSUME ListedExactlyOnce, TwoEnds, NEW n \in Nodes, NEW a, NEW c \in Established(n, a)
    PROVE  /\ c \in Conns
           /\ n \in {c.from, c.to}
           /\ a = Other(n, c)
           /\ sock[n][c] = "open"
<1>1. c \in Elems(peers[n]) /\ a = Other(n, c)
  BY DEF Established
<1>2. c \in Conns /\ sock[n][c] = "open"
  BY <1>1 DEF ListedExactlyOnce, ListsAgree
<1> QED
  BY <1>1, <1>2 DEF TwoEnds

\* Steps that only bring an unused end into being.
LEMMA EarlyEndpoints ==
    ASSUME ListedExactlyOnce, EndpointsInv, UNCHANGED <<peers, udp_peers, inbox>>,
           \A n \in Nodes : \A c \in Conns :
             \/ sock'[n][c] = sock[n][c]
             \/ /\ n \in {c.from, c.to}
                /\ sock[n][c] = "none"
                /\ sock'[n][c] \in {"connecting", "queued"}
    PROVE  EndpointsInv'
<1>1. AnnouncedOnce'
  <2> SUFFICES ASSUME NEW c \in Conns, NEW n \in {c.from, c.to}
               PROVE  OneAnnouncement(n, c)'
    BY DEF AnnouncedOnce
  <2>1. n \in Nodes /\ Other(n, c) \in Nodes
    BY EndsLemma
  <2>2. OneAnnouncement(n, c)
    BY DEF EndpointsInv, AnnouncedOnce
  <2>3. inbox[n][c] # <<>> => sock'[Other(n, c)][c] = sock[Other(n, c)][c]
    BY <2>1, <2>2 DEF OneAnnouncement
  <2>4. sock'[n][c] \in {"closed", "dropped"} => sock[n][c] \in {"closed", "dropped"}
    BY <2>1
  <2> QED
    BY <2>2, <2>3, <2>4 DEF OneAnnouncement
<1>2. \A n, a \in Nodes : Counted(n, a) \subseteq Counted(n, a)'
  <2> SUFFICES ASSUME NEW n \in Nodes, NEW a \in Nodes, NEW c \in Counted(n, a)
               PROVE  c \in Counted(n, a)'
    OBVIOUS
  <2>1. c \in Established(n, a) /\ sock[a][c] \in {"open", "closed"}
    BY DEF Counted
  <2>2. c \in Conns
    BY <2>1, EstablishedEnd DEF EndpointsInv
  <2>3. sock'[a][c] = sock[a][c]
    BY <2>1, <2>2
  <2> QED
    BY <2>3 DEF Counted, Established
<1>3. TwoEnds'
  BY DEF EndpointsInv, TwoEnds
<1> QED
  BY <1>1, <1>2, <1>3, CoveredGrows DEF EndpointsInv

\* A process that ends over plain TCP closes in order what it had approved.
LEMMA EndsEndpoints ==
    ASSUME TypeOK, ListedExactlyOnce, EndpointsInv, NEW n \in Nodes, NEW how,
           ProcessEnds(n, how, Finished(n))
    PROVE  EndpointsInv'
<1>1. /\ \A m \in Nodes : \A c \in Conns :
            /\ m # n => sock'[m][c] = sock[m][c] /\ inbox'[m][c] = inbox[m][c]
            /\ inbox'[n][c] = <<>>
            /\ sock'[n][c] = IF sock[n][c] \in {"none", "closed", "dropped"} THEN sock[n][c]
                             ELSE IF c \in Finished(n) THEN "closed" ELSE "dropped"
      /\ \A m \in Nodes \ {n} : peers'[m] = peers[m] /\ udp_peers'[m] = udp_peers[m]
      /\ udp_peers'[n] = <<>>
  BY DEF ProcessEnds, TypeOK
<1>2. \A c \in Conns : sock[n][c] \in {"open", "closed"} => sock'[n][c] = "closed"
  BY <1>1 DEF ListedExactlyOnce, ListsAgree, Finished
<1>3. TwoEnds'
  BY <1>1 DEF EndpointsInv, TwoEnds
<1>4. AnnouncedOnce'
  <2> SUFFICES ASSUME NEW c \in Conns, NEW m \in {c.from, c.to}
               PROVE  OneAnnouncement(m, c)'
    BY DEF AnnouncedOnce
  <2>1. m \in Nodes /\ Other(m, c) \in Nodes
    BY EndsLemma
  <2>2. OneAnnouncement(m, c)
    BY DEF EndpointsInv, AnnouncedOnce
  <2>3. CASE m = n
    BY <1>1, <2>3 DEF OneAnnouncement
  <2>4. CASE m # n
    <3>1. sock[Other(m, c)][c] \in {"open", "closed"} => sock'[Other(m, c)][c] \in {"open", "closed"}
      BY <1>1, <1>2, <2>1
    <3> QED
      BY <1>1, <2>1, <2>2, <2>4, <3>1 DEF OneAnnouncement
  <2> QED
    BY <2>3, <2>4
<1>5. Covered'
  <2> SUFFICES ASSUME NEW m \in Nodes, NEW a \in Nodes
               PROVE  Cover(Entries(m, a)', Counted(m, a)')
    BY DEF Covered
  <2>1. CASE m = n
    <3>1. Entries(m, a)' = {}
      BY <1>1, <2>1 DEF Entries
    <3> QED
      BY <3>1, CoverNone
  <2>2. CASE m # n
    <3>1. Entries(m, a)' = Entries(m, a) /\ Cover(Entries(m, a), Counted(m, a))
      BY <1>1, <2>2 DEF EndpointsInv, Covered, Entries
    <3>2. ASSUME NEW c \in Counted(m, a)
          PROVE  c \in Counted(m, a)'
      <4>1. c \in Established(m, a) /\ sock[a][c] \in {"open", "closed"}
        BY DEF Counted
      <4>2. c \in Conns
        BY <4>1, EstablishedEnd DEF EndpointsInv
      <4>3. sock'[a][c] \in {"open", "closed"}
        BY <1>1, <1>2, <4>1, <4>2
      <4> QED
        BY <1>1, <2>2, <4>2, <4>3 DEF Counted, Established
    <3> QED
      BY <3>1, <3>2, CoverMore
  <2> QED
    BY <2>1, <2>2
<1> QED
  BY <1>3, <1>4, <1>5 DEF EndpointsInv

\* A connection is approved: the announcement goes to an end that has none.
LEMMA ApproveEndpoints ==
    ASSUME TypeOK, ListedExactlyOnce, EndpointsInv,
           NEW c \in Conns, NEW n \in {c.from, c.to},
           sock[n][c] \in {"queued", "connecting", "accepted"}, Greet(n, c),
           sock' = [sock EXCEPT ![n][c] = "open"],
           peers' = [peers EXCEPT ![n] = Append(@, c)], UNCHANGED udp_peers
    PROVE  EndpointsInv'
<1> DEFINE o == Other(n, c)
<1>1. n \in Nodes /\ o \in Nodes /\ o # n /\ o \in {c.from, c.to} /\ Other(o, c) = n
  BY EndsLemma
<1>2. /\ \A m \in Nodes : \A d \in Conns : (m # n \/ d # c) => sock'[m][d] = sock[m][d]
      /\ sock'[n][c] = "open"
  BY <1>1 DEF TypeOK
<1>3. \A m \in Nodes : \A d \in Conns : (m # o \/ d # c) => inbox'[m][d] = inbox[m][d]
  BY <1>1 DEF TypeOK, Greet
<1>4. inbox[o][c] = <<>> /\ inbox'[o][c] \in {<<>>, Greeting(n)}
  <2>1. OneAnnouncement(o, c)
    BY <1>1 DEF EndpointsInv, AnnouncedOnce
  <2>2. inbox[o][c] = <<>>
    BY <1>1, <2>1 DEF OneAnnouncement
  <2>3. <<>> \o Greeting(n) = Greeting(n)
    BY DEF Greeting
  <2> QED
    BY <1>1, <2>2, <2>3 DEF TypeOK, Greet
<1>5. TwoEnds'
  BY <1>2 DEF EndpointsInv, TwoEnds
<1>6. AnnouncedOnce'
  <2> SUFFICES ASSUME NEW d \in Conns, NEW m \in {d.from, d.to}
               PROVE  OneAnnouncement(m, d)'
    BY DEF AnnouncedOnce
  <2>1. m \in Nodes /\ Other(m, d) \in Nodes
    BY EndsLemma
  <2>2. OneAnnouncement(m, d)
    BY DEF EndpointsInv, AnnouncedOnce
  <2>3. CASE m = o /\ d = c
    <3>1. sock[o][c] \in {"closed", "dropped"} => inbox'[o][c] = <<>>
      BY <1>4 DEF Greet
    <3>2. sock'[o][c] = sock[o][c] /\ sock'[n][c] = "open"
      BY <1>1, <1>2
    <3>3. \A i, j \in DOMAIN inbox'[o][c] :
            inbox'[o][c][i].cmd = "udp_port" /\ inbox'[o][c][j].cmd = "udp_port" => i = j
      BY <1>4 DEF Greeting
    <3> QED
      BY <1>1, <2>3, <3>1, <3>2, <3>3 DEF OneAnnouncement
  <2>4. CASE m # o \/ d # c
    <3>1. inbox'[m][d] = inbox[m][d]
      BY <1>3, <2>1, <2>4
    <3>2. sock'[Other(m, d)][d] = sock[Other(m, d)][d] \/ sock'[Other(m, d)][d] = "open"
      BY <1>2, <2>1
    <3>3. sock'[m][d] = sock[m][d] \/ sock'[m][d] = "open"
      BY <1>2, <2>1
    <3> QED
      BY <2>2, <3>1, <3>2, <3>3 DEF OneAnnouncement
  <2> QED
    BY <2>3, <2>4
<1>7. \A m, a \in Nodes : Counted(m, a) \subseteq Counted(m, a)'
  <2> SUFFICES ASSUME NEW m \in Nodes, NEW a \in Nodes, NEW d \in Counted(m, a)
               PROVE  d \in Counted(m, a)'
    OBVIOUS
  <2>1. d \in Established(m, a) /\ sock[a][d] \in {"open", "closed"}
    BY DEF Counted
  <2>2. d \in Conns /\ a = Other(m, d) /\ m \in {d.from, d.to}
    BY <2>1, EstablishedEnd DEF EndpointsInv
  <2>3. a # n \/ d # c
    BY <2>1
  <2>4. m # o \/ d # c
    BY <1>1, <2>2, <2>3
  <2>5. d \in Elems(peers'[m])
    <3>1. Elems(peers[m]) \subseteq Elems(peers'[m])
      <4>1. CASE m = n
        <5>1. peers[n] \in Seq(Conns) /\ peers'[n] = Append(peers[n], c)
          BY <1>1 DEF TypeOK
        <5> QED
          BY <4>1, <5>1, AppendLemma
      <4>2. CASE m # n
        BY <1>1, <4>2 DEF TypeOK
      <4> QED
        BY <4>1, <4>2
    <3> QED
      BY <2>1, <3>1 DEF Established
  <2>6. sock'[a][d] = sock[a][d] /\ inbox'[m][d] = inbox[m][d]
    BY <1>2, <1>3, <2>2, <2>3, <2>4
  <2> QED
    BY <2>2, <2>5, <2>6 DEF Counted, Established
<1> QED
  BY <1>5, <1>6, <1>7, CoveredGrows DEF EndpointsInv

\* Erasing an approved connection from peers.
LEMMA GonePeer ==
    ASSUME TypeOK, ListedExactlyOnce, NEW n \in Nodes, NEW c \in Elems(peers[n]),
           peers' = [peers EXCEPT ![n] = Without(@, c)]
    PROVE  Elems(peers'[n]) = Elems(peers[n]) \ {c}
<1>1. peers[n] \in Seq(Conns) /\ NoDup(peers[n])
  BY DEF TypeOK, ListedExactlyOnce, ListsAgree
<1>2. Elems(Without(peers[n], c)) = Elems(peers[n]) \ {c}
  BY <1>1, WithoutLemma
<1> QED
  BY <1>2 DEF TypeOK

\* Lines and announcements when an end that nobody writes to goes away.
LEMMA GoneAnnounced ==
    ASSUME TypeOK, ListedExactlyOnce, EndpointsInv,
           NEW c \in Conns, NEW n \in {c.from, c.to},
           NEW s \in {"closed", "dropped"}, sock' = [sock EXCEPT ![n][c] = s],
           inbox' = [inbox EXCEPT ![n][c] = <<>>],
           s # "closed" => inbox[Other(n, c)][c] = <<>>
    PROVE  TwoEnds' /\ AnnouncedOnce'
<1>1. /\ \A m \in Nodes : \A d \in Conns : (m # n \/ d # c) =>
           sock'[m][d] = sock[m][d] /\ inbox'[m][d] = inbox[m][d]
      /\ sock'[n][c] = s /\ inbox'[n][c] = <<>>
  BY EndsLemma DEF TypeOK
<1>2. TwoEnds'
  BY <1>1 DEF EndpointsInv, TwoEnds
<1>3. AnnouncedOnce'
  <2> SUFFICES ASSUME NEW d \in Conns, NEW m \in {d.from, d.to}
               PROVE  OneAnnouncement(m, d)'
    BY DEF AnnouncedOnce
  <2>1. m \in Nodes /\ Other(m, d) \in Nodes /\ Other(m, d) # m /\ Other(Other(m, d), d) = m
    BY EndsLemma
  <2>2. OneAnnouncement(m, d)
    BY DEF EndpointsInv, AnnouncedOnce
  <2>3. CASE m = n /\ d = c
    BY <1>1, <2>3 DEF OneAnnouncement
  <2>4. CASE Other(m, d) = n /\ d = c
    <3>1. sock'[m][d] = sock[m][d] /\ inbox'[m][d] = inbox[m][d]
      BY <1>1, <2>1, <2>4
    <3>2. inbox[m][d] # <<>> => sock'[Other(m, d)][d] = "closed"
      BY <1>1, <2>1, <2>4
    <3> QED
      BY <2>2, <3>1, <3>2 DEF OneAnnouncement
  <2>5. CASE d # c \/ m \notin {n, Other(n, c)}
    <3>1. (m # n \/ d # c) /\ (Other(m, d) # n \/ d # c)
      BY <2>1, <2>5
    <3> QED
      BY <1>1, <2>1, <2>2, <3>1 DEF OneAnnouncement
  <2>6. m = Other(n, c) /\ d = c => Other(m, d) = n
    BY EndsLemma
  <2> QED
    BY <2>3, <2>4, <2>5, <2>6
<1> QED
  BY <1>2, <1>3

\* server_mc_event_cb, EOF: one connection less, one endpoint less.
LEMMA EofEndpoints ==
    ASSUME TypeOK, ListedExactlyOnce, EndpointsInv,
           NEW c \in Conns, NEW n \in {c.from, c.to}, server_mc_event_cb_eof(n, c)
    PROVE  EndpointsInv'
<1> DEFINE o == Other(n, c)
<1>1. n \in Nodes /\ o \in Nodes /\ o # n /\ Other(o, c) = n /\ o \in {c.from, c.to}
  BY EndsLemma
<1>2. /\ sock[n][c] = "open" /\ sock[o][c] = "closed" /\ c \in Elems(peers[n])
      /\ sock' = [sock EXCEPT ![n][c] = "closed"]
      /\ inbox' = [inbox EXCEPT ![n][c] = <<>>]
      /\ peers' = [peers EXCEPT ![n] = Without(@, c)]
      /\ udp_peers' = [udp_peers EXCEPT ![n] = DropFirst(@, o)]
  BY DEF server_mc_event_cb_eof
<1>3. /\ \A m \in Nodes : \A d \in Conns : (m # n \/ d # c) =>
           sock'[m][d] = sock[m][d] /\ inbox'[m][d] = inbox[m][d]
      /\ sock'[n][c] = "closed"
  BY <1>1, <1>2 DEF TypeOK
<1>4. TwoEnds' /\ AnnouncedOnce'
  BY <1>2, GoneAnnounced
<1>5. /\ udp_peers[n] \in Seq(Endpoints) /\ udp_peers'[n] = DropFirst(udp_peers[n], o)
      /\ \A m \in Nodes \ {n} : udp_peers'[m] = udp_peers[m] /\ peers'[m] = peers[m]
      /\ Elems(peers'[n]) = Elems(peers[n]) \ {c}
  BY <1>1, <1>2, GonePeer DEF TypeOK
<1>6. ASSUME NEW m \in Nodes, NEW a \in Nodes, NEW d \in Counted(m, a), m # n \/ d # c
      PROVE  d \in Counted(m, a)'
  <2>1. d \in Established(m, a) /\ sock[a][d] \in {"open", "closed"}
    BY <1>6 DEF Counted
  <2>2. d \in Conns /\ a = Other(m, d) /\ d \in Elems(peers[m])
    BY <2>1, EstablishedEnd DEF EndpointsInv, Established
  <2>3. sock'[a][d] \in {"open", "closed"} /\ inbox'[m][d] = inbox[m][d]
    BY <1>1, <1>3, <1>6, <2>1, <2>2
  <2>4. d \in Elems(peers'[m])
    BY <1>5, <1>6, <2>2
  <2> QED
    BY <1>6, <2>2, <2>3, <2>4 DEF Counted, Established
<1>7. Covered'
  <2> SUFFICES ASSUME NEW m \in Nodes, NEW a \in Nodes
               PROVE  Cover(Entries(m, a)', Counted(m, a)')
    BY DEF Covered
  <2>1. Cover(Entries(m, a), Counted(m, a))
    BY DEF EndpointsInv, Covered
  <2>2. CASE m # n
    <3>1. Entries(m, a)' = Entries(m, a)
      BY <1>5, <2>2 DEF Entries
    <3>2. Counted(m, a) \subseteq Counted(m, a)'
      BY <1>6, <2>2
    <3> QED
      BY <2>1, <3>1, <3>2, CoverMore
  <2>3. CASE m = n
    <3>1. Entries(m, a) = Hits(udp_peers[n], a) /\ Entries(m, a)' = Hits(DropFirst(udp_peers[n], o), a)
      BY <1>5, <2>3 DEF Entries, Hits
    <3>2. CASE a = o
      <4>1. Cover(Entries(m, a)', Counted(m, a) \ {c})
        <5>1. Cover(Hits(udp_peers[n], a), Counted(m, a)) /\ udp_peers[n] \in Seq(Endpoints)
          BY <1>5, <2>1, <3>1
        <5>2. Cover(Hits(DropFirst(udp_peers[n], o), a), Counted(m, a) \ {c})
          BY <3>2, <5>1, DropFirstCover
        <5> QED
          BY <3>1, <5>2
      <4>2. Counted(m, a) \ {c} \subseteq Counted(m, a)'
        BY <1>6
      <4> QED
        BY <4>1, <4>2, CoverMore
    <3>3. CASE a # o
      <4>1. Cover(Entries(m, a)', Counted(m, a))
        <5>1. Cover(Hits(udp_peers[n], a), Counted(m, a)) /\ udp_peers[n] \in Seq(Endpoints)
          BY <1>5, <2>1, <3>1
        <5>2. Cover(Hits(DropFirst(udp_peers[n], o), a), Counted(m, a))
          BY <3>3, <5>1, DropFirstCover
        <5> QED
          BY <3>1, <5>2
      <4>2. c \notin Counted(m, a)
        BY <2>3, <3>3 DEF Counted, Established
      <4>3. Counted(m, a) \subseteq Counted(m, a)'
        BY <1>6, <4>2
      <4> QED
        BY <4>1, <4>3, CoverMore
    <3> QED
      BY <3>2, <3>3
  <2> QED
    BY <2>2, <2>3
<1> QED
  BY <1>4, <1>7 DEF EndpointsInv

\* server_mc_event_cb, ERROR: while nothing is reset and the network is sound,
\* the other end never approved the connection, or never existed, so that it
\* had left no endpoint.
LEMMA ErrorEndpoints ==
    ASSUME Orderly, TypeOK, ListedExactlyOnce, EndpointsInv,
           NEW c \in Conns, NEW n \in {c.from, c.to}, server_mc_event_cb_error(n, c)
    PROVE  EndpointsInv'
<1> DEFINE o == Other(n, c)
<1>1. n \in Nodes /\ o \in Nodes /\ o # n /\ Other(o, c) = n /\ o \in {c.from, c.to}
  BY EndsLemma
<1>2. /\ sock' = [sock EXCEPT ![n][c] = "dropped"]
      /\ inbox' = [inbox EXCEPT ![n][c] = <<>>]
      /\ UNCHANGED udp_peers
  BY DEF server_mc_event_cb_error
<1>3. \/ sock[n][c] = "connecting" /\ sock[o][c] = "none"
      \/ sock[o][c] = "dropped"
  <2>1. ~(faults < MaxFaults)
    BY DEF Orderly, TypeOK
  <2> QED
    BY <2>1 DEF server_mc_event_cb_error, ErrorCause, Orderly
<1>4. inbox[o][c] = <<>>
  <2>1. OneAnnouncement(o, c)
    BY <1>1 DEF EndpointsInv, AnnouncedOnce
  <2> QED
    BY <1>1, <1>3, <2>1 DEF OneAnnouncement
<1>5. TwoEnds' /\ AnnouncedOnce'
  BY <1>2, <1>4, GoneAnnounced
<1>6. \A m \in Nodes : \A d \in Conns : (m # n \/ d # c) =>
        sock'[m][d] = sock[m][d] /\ inbox'[m][d] = inbox[m][d]
  BY <1>1, <1>2 DEF TypeOK
<1>7. \A m \in Nodes : Elems(peers[m]) \ {c} \subseteq Elems(peers'[m])
                       /\ (m # n => peers'[m] = peers[m])
  <2>1. CASE UNCHANGED peers
    BY <2>1
  <2>2. CASE c \in Elems(peers[n]) /\ peers' = [peers EXCEPT ![n] = Without(@, c)]
    <3>1. Elems(peers'[n]) = Elems(peers[n]) \ {c}
      BY <1>1, <2>2, GonePeer
    <3>2. \A m \in Nodes : m # n => peers'[m] = peers[m]
      BY <2>2 DEF TypeOK
    <3> QED
      BY <3>1, <3>2
  <2> QED
    BY <2>1, <2>2 DEF server_mc_event_cb_error
<1>8. \A m, a \in Nodes : Counted(m, a) \subseteq Counted(m, a)'
  <2> SUFFICES ASSUME NEW m \in Nodes, NEW a \in Nodes, NEW d \in Counted(m, a)
               PROVE  d \in Counted(m, a)'
    OBVIOUS
  <2>1. d \in Established(m, a) /\ sock[a][d] \in {"open", "closed"} /\ ~Announced(inbox[m][d])
    BY DEF Counted
  <2>2. d \in Conns /\ a = Other(m, d) /\ m \in {d.from, d.to} /\ sock[m][d] = "open"
    BY <2>1, EstablishedEnd DEF EndpointsInv
  <2>3. m # n \/ d # c
    BY <1>3, <2>1, <2>2
  <2>4. a # n \/ d # c
    <3>1. a = n /\ d = c => m = o
      BY <1>1, <2>2, EndsLemma
    <3> QED
      BY <1>3, <2>2, <3>1
  <2>5. d \in Elems(peers'[m])
    BY <1>7, <2>1, <2>3 DEF Established
  <2>6. sock'[a][d] = sock[a][d] /\ inbox'[m][d] = inbox[m][d]
    BY <1>6, <2>2, <2>3, <2>4
  <2> QED
    BY <2>1, <2>2, <2>5, <2>6 DEF Counted, Established
<1> QED
  BY <1>2, <1>5, <1>8, CoveredGrows DEF EndpointsInv

\* server_mc_read_cb: the announcement of a connection becomes an endpoint.
LEMMA ReadEndpoints ==
    ASSUME TypeOK, ListedExactlyOnce, EndpointsInv,
           NEW c \in Conns, NEW n \in {c.from, c.to}, server_mc_read_cb(n, c)
    PROVE  EndpointsInv'
<1> DEFINE o == Other(n, c)
           v == inbox[n][c]
<1>1. n \in Nodes /\ o \in Nodes
  BY EndsLemma
<1>2. /\ v \in Seq(Lines) /\ v # <<>> /\ c \in Elems(peers[n])
      /\ UNCHANGED <<sock, peers>>
      /\ inbox'[n][c] = Tail(v)
      /\ \A m \in Nodes : \A d \in Conns : (m # n \/ d # c) => inbox'[m][d] = inbox[m][d]
  BY <1>1 DEF TypeOK, server_mc_read_cb
<1>3. /\ DOMAIN Tail(v) = 1..(Len(v) - 1) /\ Len(v) \in Nat \ {0} /\ DOMAIN v = 1..Len(v)
      /\ \A i \in 1..(Len(v) - 1) : Tail(v)[i] = v[i + 1]
      /\ Head(v) = v[1]
  BY <1>2
<1>4. OneAnnouncement(n, c)
  BY DEF EndpointsInv, AnnouncedOnce
<1> HIDE DEF v
<1>5. TwoEnds'
  BY <1>2 DEF EndpointsInv, TwoEnds
<1>6. AnnouncedOnce'
  <2> SUFFICES ASSUME NEW d \in Conns, NEW m \in {d.from, d.to}
               PROVE  OneAnnouncement(m, d)'
    BY DEF AnnouncedOnce
  <2>1. m \in Nodes /\ OneAnnouncement(m, d)
    BY EndsLemma DEF EndpointsInv, AnnouncedOnce
  <2>2. CASE m = n /\ d = c
    <3>1. \A i, j \in DOMAIN Tail(v) :
            Tail(v)[i].cmd = "udp_port" /\ Tail(v)[j].cmd = "udp_port" => i = j
      BY <1>3, <1>4 DEF OneAnnouncement, v
    <3>2. sock[o][c] \in {"open", "closed"} /\ sock[n][c] \notin {"closed", "dropped"}
      BY <1>2, <1>4 DEF OneAnnouncement, v
    <3>3. inbox'[n][c] = Tail(v) /\ sock' = sock
      BY <1>2
    <3> QED
      BY <2>2, <3>1, <3>2, <3>3 DEF OneAnnouncement
  <2>3. CASE m # n \/ d # c
    BY <1>2, <2>1, <2>3 DEF OneAnnouncement
  <2> QED
    BY <2>2, <2>3
<1>7. ASSUME NEW m \in Nodes, NEW a \in Nodes, NEW d \in Counted(m, a)
      PROVE  d \in Counted(m, a)'
  <2>1. d \in Established(m, a) /\ sock[a][d] \in {"open", "closed"} /\ ~Announced(inbox[m][d])
    BY <1>7 DEF Counted
  <2>2. d \in Conns
    BY <2>1, EstablishedEnd DEF EndpointsInv
  <2>3. ~Announced(inbox'[m][d])
    <3>1. CASE m = n /\ d = c
      <4>1. \A i \in 1..(Len(v) - 1) : i + 1 \in DOMAIN v /\ Tail(v)[i] = v[i + 1]
        BY <1>3
      <4>2. ~Announced(v) => ~Announced(Tail(v))
        BY <1>3, <4>1 DEF Announced
      <4> QED
        BY <1>2, <2>1, <3>1, <4>2 DEF v
    <3>2. CASE m # n \/ d # c
      BY <1>2, <2>1, <2>2, <3>2
    <3> QED
      BY <3>1, <3>2
  <2> QED
    BY <1>2, <2>1, <2>3 DEF Counted, Established
<1>8. CASE Head(v).cmd # "udp_port"
  <2>1. UNCHANGED udp_peers
    BY <1>8 DEF server_mc_read_cb, v
  <2> QED
    BY <1>5, <1>6, <1>7, <2>1, CoveredGrows DEF EndpointsInv
<1>9. CASE Head(v).cmd = "udp_port"
  <2> DEFINE e == [addr |-> o, port |-> Head(v).port]
  <2>1. /\ udp_peers[n] \in Seq(Endpoints)
        /\ udp_peers'[n] = Append(udp_peers[n], e)
        /\ \A m \in Nodes : m # n => udp_peers'[m] = udp_peers[m]
    BY <1>1, <1>9 DEF server_mc_read_cb, v, TypeOK
  <2>2. /\ Len(udp_peers[n]) \in Nat /\ DOMAIN udp_peers[n] = 1..Len(udp_peers[n])
        /\ DOMAIN udp_peers'[n] = 1..(Len(udp_peers[n]) + 1)
        /\ udp_peers'[n][Len(udp_peers[n]) + 1] = e
        /\ \A i \in 1..Len(udp_peers[n]) : udp_peers'[n][i] = udp_peers[n][i]
    BY <2>1
  <2>3. c \notin Counted(n, o) /\ c \in Counted(n, o)'
    <3>1. Announced(v) /\ ~Announced(Tail(v))
      BY <1>3, <1>4, <1>9 DEF Announced, OneAnnouncement, v
    <3>2. sock[o][c] \in {"open", "closed"}
      BY <1>2, <1>4 DEF OneAnnouncement, v
    <3>3. c \notin Counted(n, o)
      BY <3>1 DEF Counted, v
    <3>4. c \in Counted(n, o)'
      BY <1>2, <3>1, <3>2 DEF Counted, Established
    <3> QED
      BY <3>3, <3>4
  <2>4. Covered'
    <3> SUFFICES ASSUME NEW m \in Nodes, NEW a \in Nodes
                 PROVE  Cover(Entries(m, a)', Counted(m, a)')
      BY DEF Covered
    <3>1. Cover(Entries(m, a), Counted(m, a)) /\ Counted(m, a) \subseteq Counted(m, a)'
      BY <1>7 DEF EndpointsInv, Covered
    <3>2. CASE m = n /\ a = o
      <4>1. /\ Len(udp_peers[n]) + 1 \notin Entries(m, a)
            /\ Entries(m, a)' = Entries(m, a) \cup {Len(udp_peers[n]) + 1}
        BY <2>2, <3>2 DEF Entries
      <4>2. c \notin Counted(m, a) /\ c \in Counted(m, a)'
        BY <2>3, <3>2
      <4> QED
        BY <3>1, <4>1, <4>2, CoverAdd
    <3>3. CASE ~(m = n /\ a = o)
      <4>1. Entries(m, a)' = Entries(m, a)
        BY <2>1, <2>2, <3>3 DEF Entries
      <4> QED
        BY <3>1, <4>1, CoverMore
    <3> QED
      BY <3>2, <3>3
  <2> QED
    BY <1>5, <1>6, <2>4 DEF EndpointsInv
<1> QED
  BY <1>8, <1>9

\* Every step keeps EndpointsInv.
LEMMA NextEndpoints ==
    ASSUME Orderly
    PROVE  TypeOK /\ ListedExactlyOnce /\ EndpointsInv /\ [Next]_vars => EndpointsInv'
<1> SUFFICES ASSUME TypeOK, ListedExactlyOnce, EndpointsInv, [Next]_vars
             PROVE  EndpointsInv'
  OBVIOUS
<1>0. ~(faults < MaxFaults) /\ ~Encryption
  BY DEF Orderly, TypeOK
<1>1. CASE UNCHANGED vars
  BY <1>1, EarlyEndpoints DEF vars
<1>2. ASSUME NEW n \in Nodes, server_start(n) \/ server_set_device(n)
      PROVE  EndpointsInv'
  BY <1>2, EarlyEndpoints DEF server_start, server_set_device
<1>3. ASSUME NEW n \in Nodes, NEW m, mc_peer_connect(n, m), UNCHANGED <<peers, udp_peers, inbox>>
      PROVE  EndpointsInv'
  <2>1. PICK c \in Fresh(n, m) : ConnectWith(n, m, c)
    BY <1>3 DEF mc_peer_connect
  <2>2. c \in Conns /\ n \in {c.from, c.to} /\ sock[n][c] = "none"
    BY DEF Fresh
  <2>3. sock' = sock \/ sock' = [sock EXCEPT ![n][c] = "connecting"]
    BY <1>0, <2>1 DEF ConnectWith
  <2>4. \A k \in Nodes : \A d \in Conns :
          \/ sock'[k][d] = sock[k][d]
          \/ k \in {d.from, d.to} /\ sock[k][d] = "none" /\ sock'[k][d] \in {"connecting", "queued"}
    <3>1. CASE sock' = sock
      BY <3>1
    <3>2. CASE sock' = [sock EXCEPT ![n][c] = "connecting"]
      <4>1. sock \in [Nodes -> [Conns -> EndStates]]
        BY DEF TypeOK
      <4>2. /\ sock'[n][c] = "connecting"
            /\ \A k \in Nodes : \A d \in Conns : (k # n \/ d # c) => sock'[k][d] = sock[k][d]
        BY <2>2, <3>2, <4>1
      <4> QED
        BY <2>2, <4>2
    <3> QED
      BY <2>3, <3>1, <3>2
  <2> QED
    BY <1>3, <2>4, EarlyEndpoints
<1>4. ASSUME NEW n \in Nodes, server_init(n)
      PROVE  EndpointsInv'
  BY <1>3, <1>4 DEF server_init
<1>5. ASSUME NEW n \in Nodes, NEW m \in Nodes, client_add_peer(n, m)
      PROVE  EndpointsInv'
  BY <1>3, <1>5 DEF client_add_peer
<1>6. ASSUME NEW n \in Nodes, server_delete(n)
      PROVE  EndpointsInv'
  BY <1>0, <1>6, EndsEndpoints DEF server_delete
<1>7. ASSUME NEW c \in Conns, TcpConnect(c)
      PROVE  EndpointsInv'
  <2>1. c.to \in Nodes
    BY DEF Conns
  <2>2. \A k \in Nodes : \A d \in Conns :
          \/ sock'[k][d] = sock[k][d]
          \/ k \in {d.from, d.to} /\ sock[k][d] = "none" /\ sock'[k][d] \in {"connecting", "queued"}
    BY <1>7, <2>1 DEF TcpConnect, TypeOK
  <2> QED
    BY <1>7, <2>2, EarlyEndpoints DEF TcpConnect
<1>8. ASSUME NEW c \in Conns, NEW n \in {c.from, c.to},
             \/ listen_callback(n, c) \/ server_mc_event_cb_connected(n, c)
             \/ server_mc_event_cb_eof(n, c) \/ server_mc_event_cb_error(n, c)
             \/ server_mc_read_cb(n, c)
      PROVE  EndpointsInv'
  <2>0. n \in Nodes
    BY EndsLemma
  <2>1. CASE listen_callback(n, c)
    <3>1. CASE ProcessEnds(n, "crashed", Finished(n))
      BY <2>0, <3>1, EndsEndpoints
    <3>2. CASE Greet(n, c) /\ UNCHANGED udp_peers /\ sock' = [sock EXCEPT ![n][c] = "open"]
               /\ peers' = [peers EXCEPT ![n] = Append(@, c)]
      BY <2>1, <3>2, ApproveEndpoints DEF listen_callback
    <3> QED
      BY <1>0, <2>1, <3>1, <3>2 DEF listen_callback, mc_peer_accept
  <2>2. CASE server_mc_event_cb_connected(n, c)
    BY <2>2, ApproveEndpoints DEF server_mc_event_cb_connected, Connected
  <2> QED
    BY <1>8, <2>1, <2>2, EofEndpoints, ErrorEndpoints, ReadEndpoints
<1> QED
  BY <1>1, <1>2, <1>4, <1>5, <1>6, <1>7, <1>8 DEF Next

\* Over plain TCP, while every end is closed in order, a daemon sends frames to
\* no address without an approved meta-connection, for any number of daemons,
\* of connections between the same two and of restarts: the one endpoint that
\* server_mc_event_cb drops at EOF is always enough.
THEOREM EndpointsCorrect ==
    ASSUME Orderly
    PROVE  Spec => []EndpointsBelongToPeers
<1>1. Init => EndpointsInv
  <2> SUFFICES ASSUME Init PROVE EndpointsInv
    OBVIOUS
  <2>1. TwoEnds
    BY DEF Init, TwoEnds
  <2>2. ASSUME NEW c \in Conns, NEW n \in {c.from, c.to}
        PROVE  OneAnnouncement(n, c)
    <3>1. inbox[n][c] = <<>>
      BY EndsLemma DEF Init
    <3> QED
      BY <3>1 DEF OneAnnouncement
  <2>3. ASSUME NEW n \in Nodes, NEW a \in Nodes
        PROVE  Cover(Entries(n, a), Counted(n, a))
    <3>1. udp_peers[n] = <<>>
      BY DEF Init
    <3>2. Entries(n, a) = {}
      BY <3>1 DEF Entries
    <3> QED
      BY <3>2, CoverNone
  <2> QED
    BY <2>1, <2>2, <2>3 DEF EndpointsInv, AnnouncedOnce, Covered
<1>2. EndpointsInv => EndpointsBelongToPeers
  <2> SUFFICES ASSUME EndpointsInv, NEW n \in Nodes, NEW a \in Nodes,
                      NEW i \in Entries(n, a)
               PROVE  Established(n, a) # {}
    BY DEF EndpointsBelongToPeers
  <2>1. PICK f \in [Entries(n, a) -> Counted(n, a)] : TRUE
    BY DEF EndpointsInv, Covered, Cover
  <2>2. f[i] \in Established(n, a)
    BY <2>1 DEF Counted
  <2> QED
    BY <2>2
<1> QED
  BY <1>1, <1>2, NextEndpoints, TypeCorrect, ListsCorrect, PTL DEF Spec

=============================================================================
