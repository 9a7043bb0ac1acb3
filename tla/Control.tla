------------------------------ MODULE Control ------------------------------
(***************************************************************************)
(* The control connection of the daemon (src/client.c and                  *)
(* listen_client_callback of src/server.c) together with its two clients:  *)
(* the Qt client (client/qt) and the broadcaster (client/tnt_broadcast).   *)
(*                                                                         *)
(* A command is a text of two halves, so that TCP may cut it.  libtclt     *)
(* parses and prints the commands and is external: it executes the whole   *)
(* commands a text begins with, at least one and not always all of them,   *)
(* and fails when the text does not begin with a whole command.            *)
(***************************************************************************)
EXTENDS Naturals, Sequences, FiniteSets

CONSTANTS
    Names,        \* what a user types as the name of a contact
    IllFormed,    \* those of them that checkName refuses
    Nodes,        \* the other broadcasters, each named by the length of the
                  \* text "address:port" it announces
    Similar,      \* the nodes whose address contains the address of this one
    MaxAdds,      \* bound on the contacts the user adds
    MaxLosses     \* bound on the connections that break

ASSUME ControlAssumption ==
    /\ IllFormed \subseteq Names
    /\ Similar \subseteq Nodes
    /\ Nodes \subseteq Nat \ {0}
    /\ MaxAdds \in Nat /\ MaxLosses \in Nat

VARIABLES
    tls,          \* does the daemon have an SSL context?
    mc_client,    \* the client whose connection s->mc_client holds
    accepted,     \* the clients the daemon accepted
    bevs,         \* those of them whose bufferevent has its callbacks
    conn,         \* the TCP connection of each client, as the client sees it
    up,           \* the bytes from each client to the daemon
    down,         \* the bytes from the daemon to the Qt client
    qt,           \* the Qt client: see TypeOK
    bc,           \* the broadcaster: see TypeOK
    net,          \* the announcements under way
    history       \* what the user and the network did so far

vars == <<tls, mc_client, accepted, bevs, conn, up, down, qt, bc, net, history>>
daemon == <<tls, mc_client, accepted, bevs>>

Clients == {"qt", "bc"}
Bodies == {"CONNEXION", "MAIN", "ADDCONTACT"}
\* The shapes of address a user may type.
Addresses == {"ipv4", "ipv6", "host", "malformed"}
Halves == {"ADD", "DELETE"} \X (Names \cup {"bite"}) \X {1, 2}
Chars == Nodes \cup {0}

\* The connections, the windows of the Qt client and the buffer of the
\* broadcaster have the values the code gives them.
TypeOK ==
    /\ tls \in BOOLEAN
    /\ mc_client \in Clients \cup {"none"}
    /\ accepted \subseteq Clients /\ bevs \subseteq accepted
    /\ conn \in [Clients -> {"none", "syn", "open", "dead"}]
    /\ \A c \in Clients : up[c] \in Seq(Halves)
    /\ down \in Seq(Halves)
    /\ qt.isConnected \in BOOLEAN /\ qt.state \in Bodies
    /\ qt.contacts \subseteq Names /\ qt.list \in Seq(Names)
    /\ qt.socket \in Seq(Halves)
    /\ bc.stream \in BOOLEAN /\ bc.buffer \in Seq(Nodes)
    /\ bc.from \in Chars /\ bc.sent \in Seq(Nodes)
    /\ net \subseteq Nodes
    /\ history.asked \subseteq Names /\ history.refused \subseteq Names
    /\ history.garbled \in BOOLEAN
    /\ history.adds \in 0..MaxAdds /\ history.losses \in 0..MaxLosses

-----------------------------------------------------------------------------
(* libtclt: the commands as text *)

\* One command for each of some names.
Text(op, ids) ==
    [p \in 1..(2 * Len(ids)) |-> <<op, ids[(p + 1) \div 2], 2 - (p % 2)>>]

\* The number of whole commands a text begins with.
Whole(text) ==
    LET Starts(m) == \A i \in 1..m :
            /\ text[2 * i - 1][3] = 1
            /\ text[2 * i] = [text[2 * i - 1] EXCEPT ![3] = 2]
    IN  CHOOSE m \in 0..Len(text) \div 2 :
            Starts(m) /\ \A n \in 0..Len(text) \div 2 : Starts(n) => n <= m

\* How many commands tclt_dispatch_command may execute; 0 is its failure.
tclt_dispatch_command(text) ==
    IF Whole(text) = 0 THEN {0} ELSE 1..Whole(text)

Command(text, i) == [op |-> text[2 * i][1], id |-> text[2 * i][2]]
Ids(cmds) == [i \in 1..Len(cmds) |-> cmds[i].id]

\* The positions S in increasing order: the set of that one sequence.
InOrder(S) ==
    {e \in [1..Cardinality(S) -> S] : \A i, j \in DOMAIN e : i < j => e[i] < e[j]}
\* What a sequence has at the positions S, in order: the set of that one
\* sequence.
At(s, S) == {[i \in DOMAIN e |-> s[e[i]]] : e \in InOrder(S)}

-----------------------------------------------------------------------------
(* The daemon *)

\* listen_client_callback: there is one slot for the connection of a client,
\* and each client that connects takes it.  When mc_init fails nothing reads
\* from the connection.
listen_client_callback(c) ==
    /\ conn[c] = "open" /\ c \notin accepted
    /\ accepted' = accepted \cup {c}
    /\ mc_client' = c
    /\ bevs' \in {bevs, bevs \cup {c}}
    /\ UNCHANGED <<tls, conn, up, down, qt, bc, net, history>>

\* add_peer: the peer is dialled, and the command is sent back to the client
\* it came from when the dialling has started.  delete_peer does nothing.
\* The broadcaster never reads its replies, which are not kept here.
Replies(cmds, dialled) ==
    {Text("ADD", ids) : ids \in
        At(Ids(cmds), {i \in 1..Len(cmds) :
                          cmds[i].op = "ADD" /\ cmds[i].id \in dialled})}

\* Mutant: the reply goes to the connection in s->mc_client.
add_peer_slot(c) == mc_client
\* The connection add_peer answers on, intern->bev.
add_peer(c) == c

\* client_mc_read_cb: what has arrived is a text of its own, wherever TCP cut
\* it.  The text is dropped whether libtclt could use it or not.
client_mc_read_cb(c) ==
    /\ c \in bevs /\ ~tls /\ conn[c] = "open"
    /\ \E k \in 1..Len(up[c]) :
       LET text == SubSeq(up[c], 1, k)
       IN  \E j \in tclt_dispatch_command(text) :
           LET cmds == [i \in 1..j |-> Command(text, i)]
               ids  == {cmds[i].id : i \in 1..j}
           IN  \E dialled \in SUBSET ids : \E reply \in Replies(cmds, dialled) :
               /\ up' = [up EXCEPT ![c] = SubSeq(@, k + 1, Len(@))]
               /\ down' = IF add_peer(c) = "qt"
                          THEN down \o reply ELSE down
               /\ history' = [history EXCEPT
                    !.refused = @ \cup ((ids \ dialled) \cap Names),
                    !.garbled = @ \/ (c = "qt" /\ Text(text[1][1], <<text[1][2]>>) # text)]
    /\ UNCHANGED <<daemon, conn, qt, bc, net>>

\* The connection breaks.  client_mc_event_cb only logs: the bufferevent is
\* neither freed nor forgotten, and is never called back again.
client_mc_event_cb(c) ==
    /\ conn[c] = "open" /\ history.losses < MaxLosses
    /\ conn' = [conn EXCEPT ![c] = "dead"]
    /\ up' = [up EXCEPT ![c] = << >>]
    /\ down' \in {down} \cup {<< >> : x \in {c} \cap {"qt"}}
    /\ accepted' = accepted \ {c} /\ bevs' = bevs \ {c}
    /\ history' = [history EXCEPT !.losses = @ + 1]
    /\ UNCHANGED <<tls, mc_client, qt, bc, net>>

-----------------------------------------------------------------------------
(* The Qt client *)

checkIPv4(a) == a = "ipv4"
checkIPv6(a) == a = "ipv6"
checkHostNameFormat(a) == a = "host"
checkIP(a) == checkIPv4(a) \/ checkIPv6(a) \/ checkHostNameFormat(a)
checkName(name) == name \notin IllFormed

changeNextBody(state, newState) ==
    CASE state = "CONNEXION" -> "MAIN"
      [] state = "MAIN" -> newState
      [] state = "ADDCONTACT" -> "MAIN"

changePrevBody(state) ==
    CASE state = "MAIN" -> "CONNEXION"
      [] state = "ADDCONTACT" -> "MAIN"
      [] OTHER -> state

\* The OK button of the first window.  Qt ignores connectToHost on a socket
\* that is connecting, and what ModelConnexion keeps only fills the form again.
changeRootNode(a) ==
    /\ qt.state = "CONNEXION"
    /\ checkIP(a)
    /\ ~qt.isConnected /\ conn["qt"] = "none"
    /\ conn' = [conn EXCEPT !["qt"] = "syn"]
    /\ UNCHANGED <<daemon, up, down, qt, bc, net, history>>

\* Controller::connected and QClient::connected.
ViewConnected(q) == [q EXCEPT !.state = changeNextBody(@, "MAIN")]

\* Network::connected.
connected ==
    /\ conn["qt"] = "syn"
    /\ conn' = [conn EXCEPT !["qt"] = "open"]
    /\ qt' = [ViewConnected(qt) EXCEPT !.isConnected = TRUE]
    /\ history' = [history EXCEPT !.garbled = FALSE, !.refused = {}]
    /\ UNCHANGED <<daemon, up, down, bc, net>>

\* Network::error before a connection exists.
error ==
    /\ conn["qt"] = "syn"
    /\ conn' = [conn EXCEPT !["qt"] = "none"]
    /\ UNCHANGED <<daemon, up, down, qt, bc, net, history>>

\* Mutant: the window goes one step back.
ViewDisconnected_prev(q) == [q EXCEPT !.state = changePrevBody(@)]
\* QClient::disconnected.
ViewDisconnected(q) == [q EXCEPT !.state = "CONNEXION"]
\* ModelContact::clear.
ClearContacts(q) == [q EXCEPT !.contacts = {}]
\* Controller::disconnected: the list of BodyMain keeps its items.
ControllerDisconnected(q) == ClearContacts(ViewDisconnected(q))
\* Network::disconnected.
Disconnected(q) ==
    [ControllerDisconnected(q) EXCEPT !.isConnected = FALSE, !.socket = << >>]

Closed == /\ conn' = [conn EXCEPT !["qt"] = "none"]
          /\ down' = << >>

disconnected ==
    /\ conn["qt"] = "dead"
    /\ qt' = Disconnected(qt)
    /\ Closed
    /\ UNCHANGED <<daemon, up, bc, net, history>>

\* Network::write of some commands by the client q, which it leaves as r.  The
\* write goes nowhere when the connection is dead, and waitForBytesWritten may
\* notice that and run disconnected.
Write(text, q, r) ==
    \/ /\ conn["qt"] # "dead"
       /\ up' = IF q.isConnected THEN [up EXCEPT !["qt"] = @ \o text] ELSE up
       /\ r = q
       /\ UNCHANGED <<conn, down>>
    \/ /\ conn["qt"] = "dead"
       /\ r = q
       /\ UNCHANGED <<up, conn, down>>
    \/ /\ conn["qt"] = "dead"
       /\ r = Disconnected(q)
       /\ Closed
       /\ UNCHANGED up

\* ModelContact::addContact of a name the model does not have.
AddToModel(q, name) == [q EXCEPT !.contacts = @ \cup {name}]
PrevBody(q) == [q EXCEPT !.state = changePrevBody(@)]

\* The body of addContact once the fields have been accepted.
addContact_accepted(name) ==
    LET q == AddToModel(qt, name)
    IN  \E r \in {q, Disconnected(q)} :
            Write(Text("ADD", <<name>>), q, r) /\ qt' = PrevBody(r)

\* The OK button of the window for a new contact.
addContact(name) ==
    /\ qt.state = "ADDCONTACT" /\ history.adds < MaxAdds
    /\ name # "" /\ checkName(name) /\ name \notin qt.contacts
    /\ addContact_accepted(name)
    /\ history' = [history EXCEPT !.adds = @ + 1, !.asked = @ \cup {name}]
    /\ UNCHANGED <<daemon, bc, net>>

\* Controller::deleteContact: only the daemon is told.
DeleteCommand(names) == Text("DELETE", names)

\* BodyMain::deleteContact: a DELETE for each selected item, which leaves the
\* list; the model keeps the contact.
deleteContact ==
    /\ qt.state = "MAIN"
    /\ \E selected \in SUBSET (1..Len(qt.list)) \ {{}} :
       \E peers \in At(qt.list, selected),
          kept \in At(qt.list, (1..Len(qt.list)) \ selected) :
       \E r \in {qt, Disconnected(qt)} :
          /\ Write(DeleteCommand(peers), qt, r)
          /\ qt' = [r EXCEPT !.list = kept]
    /\ UNCHANGED <<daemon, bc, net, history>>

viewAddContact ==
    /\ qt.state = "MAIN"
    /\ qt' = [qt EXCEPT !.state = changeNextBody(@, "ADDCONTACT")]
    /\ UNCHANGED <<daemon, conn, up, down, bc, net, history>>

unuseAddContact ==
    /\ qt.state = "ADDCONTACT"
    /\ qt' = PrevBody(qt)
    /\ UNCHANGED <<daemon, conn, up, down, bc, net, history>>

\* An item for each of some names, at the end of the list.
addNewPeer(list, names) == list \o names

\* The callbacks of the controller: add_peer_controll shows the peer, the
\* others only print.
Controll(list, cmds) ==
    {addNewPeer(list, names) : names \in
        At(Ids(cmds), {i \in 1..Len(cmds) : cmds[i].op = "ADD"})}

\* Mutant: the bytes are taken from the socket although libtclt failed.
Unread_drop(text, j) == << >>
\* What stays in the socket after a dispatch of j commands.
Unread(text, j) == IF j = 0 THEN text ELSE << >>

\* Network::read looks at everything that has arrived.
read ==
    /\ conn["qt"] \in {"open", "dead"} /\ qt.isConnected
    /\ \E k \in 1..Len(down) :
       LET text == qt.socket \o SubSeq(down, 1, k)
       IN  \E j \in tclt_dispatch_command(text) :
           \E list \in Controll(qt.list, [i \in 1..j |-> Command(text, i)]) :
           /\ down' = SubSeq(down, k + 1, Len(down))
           /\ qt' = [qt EXCEPT !.socket = Unread(text, j), !.list = list]
           /\ history' = [history EXCEPT !.garbled = @ \/ Len(text) > 2]
    /\ UNCHANGED <<daemon, conn, up, bc, net>>

-----------------------------------------------------------------------------
(* The broadcaster *)

NodeText(n) == [i \in 1..n |-> n]

\* handle_announce of another node, every five seconds, and start before it.
\* A datagram may stay under way for any time, which is also how one is lost:
\* the next announcement of its node is the same.
handle_announce(n) ==
    /\ n \notin net
    /\ net' = net \cup {n}
    /\ UNCHANGED <<daemon, conn, up, down, qt, bc, history>>

\* Mutant: the last byte of the datagram is not stored.
Received_short(n, buffer) ==
    LET new == SubSeq(NodeText(n), 1, n - 1)
    IN  new \o SubSeq(buffer, Len(new) + 1, Len(buffer))
\* The C string in the buffer after a datagram: the buffer is not cleared, so
\* the end of a longer text stays.
Received(n, buffer) ==
    NodeText(n) \o SubSeq(buffer, n + 1, Len(buffer))

\* handl_recv: the text is passed on when it does not contain the address of
\* this node.  Writing blocks while the connection is full.  A receive that
\* fails changes nothing: the next one is started all the same.
handl_recv(n) ==
    LET data == Received(n, bc.buffer)
        mine == data # << >> /\ data[1] \in Similar
        write == bc.stream /\ ~mine
    IN  /\ n \in net
        /\ write => up["bc"] = << >>
        /\ net' \in {net, net \ {n}}
        /\ up' = IF write /\ conn["bc"] = "open"
                 THEN [up EXCEPT !["bc"] = Text("ADD", <<"bite">>)] ELSE up
        /\ bc' = [bc EXCEPT
             !.buffer = data,
             !.stream = @ /\ (write => conn["bc"] = "open"),
             !.from   = IF write THEN n ELSE @,
             !.sent   = IF write THEN data ELSE @]
        /\ UNCHANGED <<daemon, conn, down, qt, history>>

-----------------------------------------------------------------------------
(* The specification *)

QtInit == [isConnected |-> FALSE, state |-> "CONNEXION", contacts |-> {},
           list |-> << >>, socket |-> << >>]

\* The constructor of the broadcaster connects to the daemon, once.
BroadcasterInit(connects) ==
    [stream |-> connects, buffer |-> << >>, from |-> 0, sent |-> << >>]

\* main of the Qt client shows the window for a connection.
QtMain == qt = QtInit

\* main of the broadcaster: the daemon may be there or not.
BroadcasterMain ==
    \E c \in {"none", "open"} :
       /\ conn = [x \in Clients |-> IF x = "bc" THEN c ELSE "none"]
       /\ bc = BroadcasterInit(c = "open")

Init ==
    /\ tls \in BOOLEAN
    /\ mc_client = "none" /\ accepted = {} /\ bevs = {}
    /\ QtMain /\ BroadcasterMain
    /\ up = [c \in Clients |-> << >>] /\ down = << >>
    /\ net = {}
    /\ history = [asked |-> {}, refused |-> {}, garbled |-> FALSE,
                  adds |-> 0, losses |-> 0]

Next ==
    \/ \E c \in Clients : listen_client_callback(c) \/ client_mc_read_cb(c)
                          \/ client_mc_event_cb(c)
    \/ \E a \in Addresses : changeRootNode(a)
    \/ connected \/ error \/ disconnected
    \/ \E name \in Names : addContact(name)
    \/ deleteContact \/ viewAddContact \/ unuseAddContact \/ read
    \/ \E n \in Nodes : handle_announce(n) \/ handl_recv(n)

Spec == Init /\ [][Next]_vars

\* The event loops serve what is ready, a broken connection is noticed, the
\* timers of the other nodes expire again and again, and not every datagram of
\* a node is lost.
Fairness ==
    /\ \A c \in Clients : WF_vars(listen_client_callback(c))
                          /\ WF_vars(client_mc_read_cb(c))
    /\ WF_vars(read) /\ WF_vars(disconnected) /\ WF_vars(connected \/ error)
    /\ \A n \in Nodes : WF_vars(handle_announce(n)) /\ SF_vars(handl_recv(n))

FairSpec == Spec /\ Fairness

-----------------------------------------------------------------------------
(* Properties *)

\* The Qt client shows the connection window exactly while it has no
\* connection, although a disconnection may be noticed in the middle of a slot
\* that changes the window itself (Network::write, addContact).
ViewMatchesConnection == (qt.state = "CONNEXION") <=> ~qt.isConnected

\* The contacts in the model of the Qt client are those of the current
\* connection: none outlives Controller::disconnected, wherever in addContact
\* that runs.
ContactsOfConnection == qt.contacts # {} => qt.isConnected

\* The list shows only contacts that this user added: answers to other clients
\* of the daemon never reach it, although there is one slot for clients
\* (add_peer of src/client.c, listen_client_callback).
ShownWasAsked == \A i \in 1..Len(qt.list) : qt.list[i] \in history.asked

Occurs(s, x) == \E i \in DOMAIN s : s[i] = x

\* A contact that the user added to a daemon without TLS is shown, unless the
\* connection breaks, mc_init failed, the daemon could not dial the peer, or
\* TCP cut or joined commands (client_mc_read_cb and Network::read).
AddedIsShown ==
    \A name \in Names :
        (Occurs(up["qt"], <<"ADD", name, 1>>) /\ ~tls)
            ~> \/ Occurs(qt.list, name)
               \/ ~qt.isConnected \/ history.garbled
               \/ name \in history.refused
               \/ "qt" \in accepted \ bevs

\* What the broadcaster reports to the daemon is the address that a node
\* announced, unless a longer announcement was received before (handl_recv
\* does not clear its buffer).
ReportedIntact ==
    [][bc'.sent # bc.sent =>
         \/ bc'.sent = NodeText(bc'.from)
         \/ Len(bc.buffer) > bc'.from]_vars

\* While the connection to the daemon works, each node with the longest
\* address is reported intact again and again, whatever datagrams are lost and
\* whatever the other nodes announce.
LongestReported ==
    <>[](~tls /\ "bc" \in bevs)
        => \A n \in Nodes \ Similar :
              (\A m \in Nodes : m <= n)
                  => []<>(bc.from = n /\ bc.sent = NodeText(n))

\* The Qt client follows its connection: its window, its contacts and what it
\* shows are those of the connection it has.
ClientFollowsConnection == ViewMatchesConnection /\ ContactsOfConnection /\ ShownWasAsked

\* The broadcaster reports nodes as they announced themselves, and goes on
\* reporting them.
AnnouncementsReported == ReportedIntact /\ LongestReported

=============================================================================
