------------------------------ MODULE MetaNet ------------------------------
(***************************************************************************)
(* The meta-connections of a set of tNETacle daemons: src/server.c,        *)
(* src/mc.c and the peer table of src/udp.c.                               *)
(*                                                                         *)
(* Every node runs one unprivileged daemon.  A daemon connects to the      *)
(* PeerAddress entries of its configuration, accepts connections once the  *)
(* tap device is set, keeps each connection in pending_peers until the     *)
(* CONNECTED event and in peers afterwards, and announces its UDP port on  *)
(* every connection it approves.  A received announcement adds an endpoint *)
(* to udp_peers, the table the data plane sends to.                        *)
(*                                                                         *)
(* libevent, OpenSSL and the kernel are external: they are the socket      *)
(* states below and the moments at which they call back.  A struct mc is   *)
(* named by its connection: the code finds it by its bufferevent (find_bev)*)
(* and its p.address is the address of the other end.                      *)
(***************************************************************************)
EXTENDS Naturals, Sequences

CONSTANTS
    Nodes,         \* the daemons; a node also stands for its IP address
    PeerAddrs,     \* serv_opts.peer_addrs of each node, in file order
    ClientPeers,   \* the addresses each node's client may ask to add
    Encryption,    \* serv_opts.encryption: TLS, or plain TCP
    ResetOnClose,  \* a close by one end may reach the other as a reset
    MaxConns,      \* bound: connections one node opens to another
    MaxStarts,     \* bound: times a node is started
    MaxFaults      \* bound: spontaneous network faults

ASSUME MetaNetAssumption ==
    /\ PeerAddrs \in [Nodes -> Seq(Nodes)]
    /\ ClientPeers \in [Nodes -> SUBSET Nodes]
    /\ \A n \in Nodes : n \notin ClientPeers[n]
    /\ \A n \in Nodes : \A i \in DOMAIN PeerAddrs[n] : PeerAddrs[n][i] # n
    /\ Encryption \in BOOLEAN
    /\ ResetOnClose \in BOOLEAN
    /\ MaxConns \in Nat
    /\ MaxStarts \in Nat
    /\ MaxFaults \in Nat

\* The k-th connection opened by daemon `from' to daemon `to'.
Conns == {c \in [from : Nodes, to : Nodes, k : 1..MaxConns] : c.from # c.to}

\* The far end of connection c, seen from node n: mc->p.address.
Other(n, c) == IF n = c.from THEN c.to ELSE c.from

\* One end of a connection.  queued: in the backlog of the listener, not yet
\* accepted.  connecting, accepted: a bufferevent whose CONNECTED event has
\* not been delivered.  open: CONNECTED delivered.  leaked: a bufferevent
\* whose connect() failed at once.  closed: shut down in order (a FIN, after
\* the close alert under TLS).  dropped: gone without that.
EndStates == {"none", "queued", "connecting", "accepted", "open", "leaked",
              "closed", "dropped"}

\* The ends on which libevent may still call back.
Live == {"connecting", "accepted", "open"}

\* A line of the meta protocol.
Lines == [cmd : {"Hello", "udp_port"}, port : 0..MaxStarts]

\* An entry of udp_peers.  A daemon binds a new random port at every start,
\* so the number of the start stands for the port.
Endpoints == [addr : Nodes, port : 0..MaxStarts]

VARIABLES
    proc,       \* per node: the daemon process
    it_peer,    \* per node: server_init's iterator over peer_addrs
    listening,  \* per node: the listeners are enabled
    udp_port,   \* per node: the port of the UDP socket, 0 before any start
    pending,    \* per node: s->pending_peers
    peers,      \* per node: s->peers
    udp_peers,  \* per node: s->udp->udp_peers
    sock,       \* per node and connection: the state of this end
    inbox,      \* per node and connection: lines sent to this end, unread
    faults      \* spontaneous network faults so far

vars == <<proc, it_peer, listening, udp_port, pending, peers, udp_peers,
          sock, inbox, faults>>

\* The daemon's memory that only the peer-table handlers touch.
life == <<proc, it_peer, listening, udp_port>>

----------------------------------------------------------------------------
(* The vectors of calm-containers (external). *)

\* The elements of a vector.
Elems(v) == {v[i] : i \in DOMAIN v}

\* v_xx_erase: the elements after position i move down by one.
Erase(v, i) == [j \in 1..(Len(v) - 1) |-> IF j < i THEN v[j] ELSE v[j + 1]]

\* v_mc_find_if(v, find_bev, bev): the position of connection c.
PosOf(v, c) == CHOOSE i \in DOMAIN v : v[i] = c

\* v_mc_erase of what find_bev finds.
Without(v, c) == Erase(v, PosOf(v, c))

\* v_udp_find_if(udp_peers, find_udppeer, addr) and v_udp_erase of what it
\* finds: the first entry with this address, whatever its port.
DropFirst(v, a) ==
    LET hits == {i \in DOMAIN v : v[i].addr = a}
    IN  IF hits = {} THEN v
        ELSE Erase(v, CHOOSE i \in hits : \A j \in hits : i <= j)

----------------------------------------------------------------------------
Init ==
    /\ proc = [n \in Nodes |-> "down"]
    /\ it_peer = [n \in Nodes |-> 1]
    /\ listening = [n \in Nodes |-> FALSE]
    /\ udp_port = [n \in Nodes |-> 0]
    /\ pending = [n \in Nodes |-> <<>>]
    /\ peers = [n \in Nodes |-> <<>>]
    /\ udp_peers = [n \in Nodes |-> <<>>]
    /\ sock = [n \in Nodes |-> [c \in Conns |-> "none"]]
    /\ inbox = [n \in Nodes |-> [c \in Conns |-> <<>>]]
    /\ faults = 0

\* The connections n has not opened yet to m.
Fresh(n, m) == {c \in Conns : c.from = n /\ c.to = m /\ sock[n][c] = "none"}

\* mc_established: an approved connection with this address exists.
mc_established(n, m) == \E i \in DOMAIN peers[n] : Other(n, peers[n][i]) = m

\* mc_peer_connect with connection c.  An address already in peers is refused
\* (pending_peers is not looked at).  When connect() fails at once the
\* bufferevent is kept by nobody.
ConnectWith(n, m, c) ==
    \/ /\ mc_established(n, m)
       /\ UNCHANGED <<sock, pending, faults>>
    \/ /\ ~mc_established(n, m)
       /\ sock' = [sock EXCEPT ![n][c] = "connecting"]
       /\ pending' = [pending EXCEPT ![n] = Append(@, c)]
       /\ UNCHANGED faults
    \/ /\ ~mc_established(n, m)
       /\ faults < MaxFaults
       /\ faults' = faults + 1
       /\ sock' = [sock EXCEPT ![n][c] = "leaked"]
       /\ UNCHANGED pending

\* The connection is the next one from n to m.
mc_peer_connect(n, m) ==
    \E c \in Fresh(n, m) : /\ \A d \in Fresh(n, m) : c.k <= d.k
                           /\ ConnectWith(n, m, c)

\* The state of a daemon whose server_init has reached peer address i.
RunState(n, i) == IF i > Len(PeerAddrs[n]) THEN "up" ELSE "init"

\* tnt_fork and the first part of server_init: empty vectors, listeners bound
\* but disabled, the UDP socket bound to a random port.
server_start(n) ==
    /\ proc[n] = "down"
    /\ udp_port[n] < MaxStarts
    /\ \A i \in DOMAIN PeerAddrs[n] : Fresh(n, PeerAddrs[n][i]) # {}
    /\ proc' = [proc EXCEPT ![n] = RunState(n, 1)]
    /\ it_peer' = [it_peer EXCEPT ![n] = 1]
    /\ udp_port' = [udp_port EXCEPT ![n] = @ + 1]
    /\ UNCHANGED <<listening, pending, peers, udp_peers, sock, inbox, faults>>

\* One turn of server_init's loop over peer_addrs.  The daemon handles no
\* event before the loop ends.
server_init(n) ==
    /\ proc[n] = "init"
    /\ mc_peer_connect(n, PeerAddrs[n][it_peer[n]])
    /\ it_peer' = [it_peer EXCEPT ![n] = @ + 1]
    /\ proc' = [proc EXCEPT ![n] = RunState(n, it_peer[n] + 1)]
    /\ UNCHANGED <<listening, udp_port, peers, udp_peers, inbox>>

\* client_add_peer: the client asks for a connection to address m.
client_add_peer(n, m) ==
    /\ proc[n] = "up"
    /\ m \in ClientPeers[n]
    /\ mc_peer_connect(n, m)
    /\ UNCHANGED <<life, peers, udp_peers, inbox>>

\* server_set_device: the tap device is there, the listeners are enabled.
server_set_device(n) ==
    /\ proc[n] = "up"
    /\ ~listening[n]
    /\ listening' = [listening EXCEPT ![n] = TRUE]
    /\ UNCHANGED <<proc, it_peer, udp_port, pending, peers, udp_peers,
                   sock, inbox, faults>>

\* The connections of n whose end at n the kernel shuts down in order when
\* the process ends, as far as TCP is concerned.
Finished(n) == Elems(peers[n]) \cup
               {c \in Elems(pending[n]) : sock[n][c] = "connecting"}

\* The process of node n ends and the kernel closes its sockets; ordered are
\* those whose other end sees an orderly end of file.
ProcessEnds(n, how, ordered) ==
    /\ proc' = [proc EXCEPT ![n] = how]
    /\ listening' = [listening EXCEPT ![n] = FALSE]
    /\ pending' = [pending EXCEPT ![n] = <<>>]
    /\ peers' = [peers EXCEPT ![n] = <<>>]
    /\ udp_peers' = [udp_peers EXCEPT ![n] = <<>>]
    /\ sock' = [sock EXCEPT ![n] =
                 [c \in Conns |-> IF sock[n][c] \in {"none", "closed", "dropped"}
                                  THEN sock[n][c]
                                  ELSE IF c \in ordered THEN "closed"
                                  ELSE "dropped"]]
    /\ inbox' = [inbox EXCEPT ![n] = [c \in Conns |-> <<>>]]
    /\ UNCHANGED <<it_peer, udp_port, faults>>

\* server_delete after SIGTERM or SIGINT: mc_close on every connection.  Under
\* TLS only a completed handshake is followed by the close alert.
server_delete(n) ==
    /\ proc[n] = "up"
    /\ ProcessEnds(n, "down", IF Encryption THEN Elems(peers[n])
                              ELSE Finished(n))

\* TCP reaches the listening socket of c.to (external).  The socket listens
\* from evconnlistener_new_bind on, whether or not its event is enabled.
TcpConnect(c) ==
    /\ sock[c.from][c] = "connecting"
    /\ sock[c.to][c] = "none"
    /\ proc[c.to] \in {"init", "up"}
    /\ sock' = [sock EXCEPT ![c.to][c] = "queued"]
    /\ UNCHANGED <<life, pending, peers, udp_peers, inbox, faults>>

\* Mutant: the port is read before getsockname filled it in.
Greeting_port_unset(n) == <<[cmd |-> "Hello", port |-> 0],
                            [cmd |-> "udp_port", port |-> 0]>>

\* Mutant: the announced port is off by one.
Greeting_next_port(n) == <<[cmd |-> "Hello", port |-> 0],
                           [cmd |-> "udp_port", port |-> udp_port[n] + 1]>>

\* Mutant: mc_establish_tunnel is not called.
Greeting_hello_only(n) == <<[cmd |-> "Hello", port |-> 0]>>

\* mc_hello and mc_establish_tunnel: the lines sent once a connection is
\* approved.
Greeting(n) == <<[cmd |-> "Hello", port |-> 0],
                 [cmd |-> "udp_port", port |-> udp_port[n]]>>

\* The lines of n reach the other end of c, if it is still there.
Greet(n, c) ==
    inbox' = IF sock[Other(n, c)][c] \in {"closed", "dropped"} THEN inbox
             ELSE [inbox EXCEPT ![Other(n, c)][c] = @ \o Greeting(n)]

\* mc_peer_accept of an address that is not established: under TLS the
\* connection is pending until the handshake is done.
mc_peer_accept(n, c) ==
    /\ ~mc_established(n, Other(n, c))
    /\ Encryption
    /\ sock' = [sock EXCEPT ![n][c] = "accepted"]
    /\ pending' = [pending EXCEPT ![n] = Append(@, c)]

\* listen_callback.  mc_peer_accept returns NULL for an address that is
\* already established, and the callback reads mc->ssl_flags.
\* Otherwise the connection becomes pending; without TLS the callback calls
\* server_mc_event_cb(CONNECTED) itself, which moves it to peers.
listen_callback(n, c) ==
    /\ proc[n] = "up"
    /\ listening[n]
    /\ sock[n][c] = "queued"
    /\ \/ /\ mc_established(n, Other(n, c))
          /\ ProcessEnds(n, "crashed", IF Encryption THEN {} ELSE Finished(n))
       \/ /\ mc_peer_accept(n, c)
          /\ UNCHANGED <<life, peers, udp_peers, inbox, faults>>
       \/ /\ ~mc_established(n, Other(n, c))
          /\ ~Encryption
          /\ sock' = [sock EXCEPT ![n][c] = "open"]
          /\ peers' = [peers EXCEPT ![n] = Append(@, c)]
          /\ Greet(n, c)
          /\ UNCHANGED <<life, pending, udp_peers, faults>>

\* libevent reports CONNECTED on n's end of c: the TCP connection, or the TLS
\* handshake over it, is complete.
Connected(n, c) ==
    /\ proc[n] = "up"
    /\ sock[n][c] \in {"connecting", "accepted"}
    /\ IF Encryption THEN sock[Other(n, c)][c] \in Live \cup {"closed"}
       ELSE sock[Other(n, c)][c] # "none"

\* Mutant: the entry is copied to peers but not erased from pending_peers.
connected_without_erase(n, c) ==
    /\ Connected(n, c)
    /\ c \in Elems(pending[n])
    /\ peers' = [peers EXCEPT ![n] = Append(@, c)]
    /\ sock' = [sock EXCEPT ![n][c] = "open"]
    /\ Greet(n, c)
    /\ UNCHANGED <<life, pending, udp_peers, faults>>

\* server_mc_event_cb, CONNECTED: from pending_peers to peers.
server_mc_event_cb_connected(n, c) ==
    /\ Connected(n, c)
    /\ c \in Elems(pending[n])
    /\ pending' = [pending EXCEPT ![n] = Without(@, c)]
    /\ peers' = [peers EXCEPT ![n] = Append(@, c)]
    /\ sock' = [sock EXCEPT ![n][c] = "open"]
    /\ Greet(n, c)
    /\ UNCHANGED <<life, udp_peers, faults>>

\* Mutant: the UDP endpoint is not looked for.
eof_keeps_endpoint(n, c) ==
    /\ proc[n] = "up"
    /\ sock[n][c] = "open"
    /\ sock[Other(n, c)][c] = "closed"
    /\ c \in Elems(peers[n])
    /\ peers' = [peers EXCEPT ![n] = Without(@, c)]
    /\ sock' = [sock EXCEPT ![n][c] = "closed"]
    /\ inbox' = [inbox EXCEPT ![n][c] = <<>>]
    /\ UNCHANGED <<life, pending, udp_peers, faults>>

\* server_mc_event_cb, EOF.  Only peers is searched, and end of file is only
\* reported on an approved connection (a TLS handshake that is cut short is an
\* ERROR).  The first UDP endpoint with the same address goes, then the
\* connection.  Lines the other end never flushed before closing are lost.
server_mc_event_cb_eof(n, c) ==
    /\ proc[n] = "up"
    /\ sock[n][c] = "open"
    /\ sock[Other(n, c)][c] = "closed"
    /\ c \in Elems(peers[n])
    /\ udp_peers' = [udp_peers EXCEPT ![n] = DropFirst(@, Other(n, c))]
    /\ peers' = [peers EXCEPT ![n] = Without(@, c)]
    /\ sock' = [sock EXCEPT ![n][c] = "closed"]
    /\ inbox' = [inbox EXCEPT ![n][c] = <<>>]
    /\ UNCHANGED <<life, pending, faults>>

\* Why libevent reports an error on n's end of c: nobody listens at the other
\* end, the other end vanished or closed with a reset, or the network failed.
ErrorCause(n, c) ==
    \/ /\ sock[n][c] = "connecting"
       /\ sock[Other(n, c)][c] = "none"
       /\ proc[Other(n, c)] \in {"down", "crashed"}
       /\ UNCHANGED faults
    \/ /\ \/ sock[Other(n, c)][c] = "dropped"
          \/ ResetOnClose /\ sock[Other(n, c)][c] = "closed"
       /\ UNCHANGED faults
    \/ /\ faults < MaxFaults
       /\ faults' = faults + 1

\* Mutant: only an approved connection is looked for.
error_peers_only(n, c) ==
    /\ proc[n] = "up"
    /\ sock[n][c] \in Live
    /\ ErrorCause(n, c)
    /\ c \in Elems(peers[n])
    /\ peers' = [peers EXCEPT ![n] = Without(@, c)]
    /\ sock' = [sock EXCEPT ![n][c] = "dropped"]
    /\ inbox' = [inbox EXCEPT ![n][c] = <<>>]
    /\ UNCHANGED <<life, pending, udp_peers>>

\* Mutant: only a pending connection is looked for.
error_pending_only(n, c) ==
    /\ proc[n] = "up"
    /\ sock[n][c] \in Live
    /\ ErrorCause(n, c)
    /\ c \in Elems(pending[n])
    /\ pending' = [pending EXCEPT ![n] = Without(@, c)]
    /\ sock' = [sock EXCEPT ![n][c] = "dropped"]
    /\ inbox' = [inbox EXCEPT ![n][c] = <<>>]
    /\ UNCHANGED <<life, peers, udp_peers>>

\* server_mc_event_cb, ERROR: the connection is closed and erased from the
\* list it is in.  udp_peers is left alone.
server_mc_event_cb_error(n, c) ==
    /\ proc[n] = "up"
    /\ sock[n][c] \in Live
    /\ ErrorCause(n, c)
    /\ \/ /\ c \in Elems(pending[n])
          /\ pending' = [pending EXCEPT ![n] = Without(@, c)]
          /\ UNCHANGED peers
       \/ /\ c \notin Elems(pending[n])
          /\ c \in Elems(peers[n])
          /\ peers' = [peers EXCEPT ![n] = Without(@, c)]
          /\ UNCHANGED pending
    /\ sock' = [sock EXCEPT ![n][c] = "dropped"]
    /\ inbox' = [inbox EXCEPT ![n][c] = <<>>]
    /\ UNCHANGED <<life, udp_peers>>

\* server_mc_read_cb: a connection that is not in peers is not read; a
\* udp_port line registers the endpoint made of the connection's address and
\* the announced port (udp_register_new_peer, which accepts duplicates).
\* The lines of one callback are taken one by one.
server_mc_read_cb(n, c) ==
    /\ proc[n] = "up"
    /\ sock[n][c] = "open"
    /\ inbox[n][c] # <<>>
    /\ c \in Elems(peers[n])
    /\ inbox' = [inbox EXCEPT ![n][c] = Tail(@)]
    /\ udp_peers' = IF Head(inbox[n][c]).cmd = "udp_port"
                    THEN [udp_peers EXCEPT ![n] =
                           Append(@, [addr |-> Other(n, c),
                                      port |-> Head(inbox[n][c]).port])]
                    ELSE udp_peers
    /\ UNCHANGED <<life, pending, peers, sock, faults>>

Next ==
    \/ \E n \in Nodes :
         \/ server_start(n)
         \/ server_init(n)
         \/ server_set_device(n)
         \/ server_delete(n)
         \/ \E m \in Nodes : client_add_peer(n, m)
    \/ \E c \in Conns :
         \/ TcpConnect(c)
         \/ \E n \in {c.from, c.to} :
              \/ listen_callback(n, c)
              \/ server_mc_event_cb_connected(n, c)
              \/ server_mc_event_cb_eof(n, c)
              \/ server_mc_event_cb_error(n, c)
              \/ server_mc_read_cb(n, c)

Spec == Init /\ [][Next]_vars

\* The kernels make progress and each event loop serves what is ready.  Starts,
\* signals, clients and network faults are not promised.
Fairness ==
    /\ \A n \in Nodes : /\ WF_vars(server_init(n))
                        /\ WF_vars(server_set_device(n))
    /\ \A c \in Conns :
         /\ WF_vars(TcpConnect(c))
         /\ \A n \in {c.from, c.to} :
              /\ WF_vars(listen_callback(n, c))
              /\ WF_vars(server_mc_event_cb_connected(n, c))
              /\ WF_vars(server_mc_read_cb(n, c))
              /\ WF_vars(\/ server_mc_event_cb_eof(n, c)
                         \/ server_mc_event_cb_error(n, c) /\ UNCHANGED faults)

FairSpec == Spec /\ Fairness

----------------------------------------------------------------------------
(* Properties *)

\* The tables and sockets of every daemon have the shape the code gives them.
TypeOK ==
    /\ proc \in [Nodes -> {"down", "init", "up", "crashed"}]
    /\ it_peer \in [Nodes -> Nat \ {0}]
    /\ listening \in [Nodes -> BOOLEAN]
    /\ udp_port \in [Nodes -> 0..MaxStarts]
    /\ pending \in [Nodes -> Seq(Conns)]
    /\ peers \in [Nodes -> Seq(Conns)]
    /\ udp_peers \in [Nodes -> Seq(Endpoints)]
    /\ sock \in [Nodes -> [Conns -> EndStates]]
    /\ inbox \in [Nodes -> [Conns -> Seq(Lines)]]
    /\ faults \in 0..MaxFaults

NoDup(v) == \A i, j \in DOMAIN v : v[i] = v[j] => i = j

\* The two lists of one daemon agree with the states of its sockets.
ListsAgree(pe, pr, sk) ==
    /\ NoDup(pe)
    /\ NoDup(pr)
    /\ Elems(pe) = {c \in Conns : sk[c] \in {"connecting", "accepted"}}
    /\ Elems(pr) = {c \in Conns : sk[c] = "open"}

\* A bufferevent is in pending_peers exactly while its CONNECTED event is
\* outstanding, in peers exactly while it is connected, and in each at most
\* once: a connection of libevent that still calls back is always found by
\* find_bev, and mc_close never meets one that is already freed.
ListedExactlyOnce ==
    \A n \in Nodes : ListsAgree(pending[n], peers[n], sock[n])

\* An endpoint never holds a port its daemon has not bound.
AnnouncedPortsOnly ==
    \A n \in Nodes : \A e \in Elems(udp_peers[n]) :
      e.port \in 1..udp_port[e.addr]

\* What the two tables of node n hold for address a.
Entries(n, a) == {i \in DOMAIN udp_peers[n] : udp_peers[n][i].addr = a}
Established(n, a) == {c \in Elems(peers[n]) : Other(n, c) = a}

\* The daemon sends frames to no address without a meta-connection in "the
\* actual list of peers" (include/server.h:66).
EndpointsBelongToPeers ==
    \A n \in Nodes : \A a \in Nodes :
      Entries(n, a) # {} => Established(n, a) # {}

\* "our code does not segfault" (sys/unix/tnetacled.c:80).
NoSegfault == \A n \in Nodes : proc[n] # "crashed"

\* A connection that is pending does not stay pending.
PendingResolves ==
    \A n \in Nodes : \A c \in Conns :
      (c \in Elems(pending[n])) ~> (c \notin Elems(pending[n]))

\* An approved connection whose other end is gone leaves the list of peers.
GoneIsDropped ==
    \A n \in Nodes : \A c \in Conns :
      (c \in Elems(peers[n]) /\ sock[Other(n, c)][c] \in {"closed", "dropped"})
        ~> (c \notin Elems(peers[n]))

\* Node n holds the endpoint of the other end of c.
Tunnel(n, c) == [addr |-> Other(n, c), port |-> udp_port[Other(n, c)]]
                  \in Elems(udp_peers[n])

\* A connection that reaches a listener becomes a tunnel in both directions,
\* unless one of its ends goes away.
QueuedBecomesTunnel ==
    \A c \in Conns :
      (sock[c.to][c] = "queued")
        ~> \/ Tunnel(c.from, c) /\ Tunnel(c.to, c)
           \/ \E n \in {c.from, c.to} : sock[n][c] \in {"closed", "dropped"}
=============================================================================
