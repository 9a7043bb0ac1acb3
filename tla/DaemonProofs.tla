---------------------------- MODULE DaemonProofs ----------------------------
(***************************************************************************)
(* Proofs about the start of a daemon, for any number of options, signals  *)
(* and failures: the options of Conf, the sockets of Startup opened for    *)
(* them, and the messages between the processes of Privsep.                *)
(***************************************************************************)
EXTENDS Daemon, NumberLemmas, SequenceTheorems

Families == {AF_UNSPEC, AF_INET, AF_INET6}
Tables == [1..MAX_PORTS -> Ports]
Records ==
    [ready : BOOLEAN, tunnel : 0..2, tunnel_index : Int, mode : {0}, debug : BOOLEAN,
     compression : BOOLEAN, encryption : BOOLEAN, ports : Tables, cports : Tables,
     addr_family : InRange, listen_addrs : Seq(Addresses), client_addrs : Seq(Addresses),
     peer_addrs : Seq(Addresses), addr : Strings \cup {NULL}, key_path : Strings \cup {NULL},
     cert_path : Strings \cup {NULL}]

\* The ports that are used are those before the first free entry.
LEMMA UsedPorts ==
    ASSUME NEW p \in Tables
    PROVE  /\ Used(p) \in Seq(InRange) /\ Len(Used(p)) \in 0..MAX_PORTS
           /\ \A i \in 1..Len(Used(p)) : i \in 1..MAX_PORTS /\ Used(p)[i] = p[i] /\ p[i] # -1
<1> DEFINE free == {i \in 1..MAX_PORTS : p[i] = -1}
           least == CHOOSE i \in free : \A j \in free : i <= j
           n == IF free = {} THEN MAX_PORTS ELSE least - 1
<1>1. Used(p) = SubSeq(p, 1, n)
  BY DEF Used
<1>2. MAX_PORTS \in Nat
  BY ConfAssumption
<1>3. n \in 0..MAX_PORTS /\ \A i \in 1..n : i \in 1..MAX_PORTS /\ i \notin free
  <2>1. CASE free = {}
    BY <1>2, <2>1
  <2>2. CASE free # {}
    <3>1. \E x \in free : \A y \in free : x <= y
      <4>1. free \subseteq Nat
        OBVIOUS
      <4> HIDE DEF free
      <4> QED
        BY <2>2, <4>1, LeastNumber
    <3>2. least \in free /\ \A j \in free : least <= j
      BY <3>1
    <3> HIDE DEF least
    <3>3. least \in 1..MAX_PORTS /\ n = least - 1
      BY <2>2, <3>2
    <3> HIDE DEF n
    <3> QED
      BY <1>2, <3>2, <3>3
  <2> QED
    BY <2>1, <2>2
<1>4. \A i \in 1..n : p[i] \in InRange /\ p[i] # -1
  <2>1. \A i \in 1..n : i \in 1..MAX_PORTS /\ p[i] # -1
    BY <1>3
  <2> HIDE DEF n
  <2> QED
    BY <2>1 DEF Tables, Ports
<1> HIDE DEF n
<1>5. n \in Int /\ 1 \in Int
  BY <1>3
<1>6. /\ SubSeq(p, 1, n) \in Seq(InRange)
      /\ Len(SubSeq(p, 1, n)) = IF 1 <= n THEN n - 1 + 1 ELSE 0
      /\ \A i \in 1 .. n - 1 + 1 : SubSeq(p, 1, n)[i] = p[1 + i - 1]
  BY <1>4, <1>5, SubSeqProperties
<1>7. Len(Used(p)) = n /\ \A i \in 1..n : Used(p)[i] = p[i]
  BY <1>1, <1>3, <1>5, <1>6
<1> QED
  BY <1>1, <1>3, <1>4, <1>6, <1>7

\* The wildcards of one family are one for each port.
LEMMA WildcardsAre ==
    ASSUME NEW v \in {AF_INET, AF_INET6}, NEW u \in Seq(InRange)
    PROVE  /\ Wildcards(v, u) \in Seq(Addresses) /\ Len(Wildcards(v, u)) = Len(u)
           /\ \A i \in 1..Len(u) : Wildcards(v, u)[i].port = u[i]
<1>1. Len(u) \in Nat /\ DOMAIN u = 1..Len(u) /\ \A i \in 1..Len(u) : u[i] \in InRange
  OBVIOUS
<1>2. \A i \in 1..Len(u) : Addr("any", v, u[i]) \in Addresses /\ Addr("any", v, u[i]).port = u[i]
  BY <1>1 DEF Addresses, Addr
<1> QED
  BY <1>1, <1>2 DEF Wildcards

\* The wildcards of both families are two for each port.
LEMMA BothWildcardsAre ==
    ASSUME NEW u \in Seq(InRange)
    PROVE  /\ BothWildcards(u) \in Seq(Addresses) /\ Len(BothWildcards(u)) = 2 * Len(u)
           /\ \A i \in 1..(2 * Len(u)) : \E k \in 1..Len(u) : BothWildcards(u)[i].port = u[k]
           /\ \A k \in 1..Len(u) : BothWildcards(u)[2 * k].port = u[k]
<1> DEFINE e(i) == IF i % 2 = 1 THEN Addr("any", AF_INET, u[(i + 1) \div 2])
                   ELSE Addr("any", AF_INET6, u[i \div 2])
           n == Len(u)
<1>1. n \in Nat /\ \A i \in 1..n : u[i] \in InRange
  OBVIOUS
<1>2. ASSUME NEW v \in {AF_INET, AF_INET6}, NEW k \in 1..n
      PROVE  Addr("any", v, u[k]) \in Addresses /\ Addr("any", v, u[k]).port = u[k]
  BY <1>1 DEF Addresses, Addr
<1> HIDE DEF n
<1>3. ASSUME NEW i \in 1..(2 * n), i % 2 = 1
      PROVE  (i + 1) \div 2 \in 1..n
  BY <1>1, <1>3
<1>4. ASSUME NEW i \in 1..(2 * n), i % 2 # 1
      PROVE  i \div 2 \in 1..n
  BY <1>1, <1>4
<1>5. \A i \in 1..(2 * n) : e(i) \in Addresses /\ \E k \in 1..n : e(i).port = u[k]
  BY <1>2, <1>3, <1>4
<1>6. \A k \in 1..n : 2 * k \in 1..(2 * n) /\ (2 * k) % 2 # 1 /\ (2 * k) \div 2 = k
  BY <1>1
<1>7. \A k \in 1..n : e(2 * k).port = u[k]
  BY <1>2, <1>6
<1>8. BothWildcards(u) = [i \in 1..(2 * n) |-> e(i)]
  BY DEF BothWildcards, n
<1> HIDE DEF e
<1>9. BothWildcards(u) \in Seq(Addresses) /\ Len(BothWildcards(u)) = 2 * n
  BY <1>1, <1>5, <1>8
<1> QED
  BY <1>5, <1>6, <1>7, <1>8, <1>9 DEF n

\* The addresses that add_listen_addrs_ports adds are for used ports only, and
\* for all of them if the family is one.
LEMMA ExpandIs ==
    ASSUME NEW f \in InRange, NEW p \in Tables
    PROVE  /\ Expand(f, p) \in Seq(Addresses)
           /\ \A i \in 1..Len(Expand(f, p)) :
                \E k \in 1..MAX_PORTS : p[k] # -1 /\ Expand(f, p)[i].port = p[k]
           /\ f \in Families => \A k \in 1..Len(Used(p)) :
                \E i \in 1..Len(Expand(f, p)) : Expand(f, p)[i].port = Used(p)[k]
<1>1. PICK u \in Seq(InRange) : /\ u = Used(p) /\ Len(u) \in Nat
                                 /\ \A i \in 1..Len(u) : i \in 1..MAX_PORTS /\ u[i] = p[i] /\ p[i] # -1
  BY UsedPorts
<1>2. CASE f \in {AF_INET, AF_INET6}
  <2>1. Expand(f, p) = Wildcards(f, u)
    <3>1. CASE f = AF_INET
      BY <1>1, <3>1 DEF Expand, AF_INET, AF_INET6, AF_UNSPEC
    <3>2. CASE f = AF_INET6
      BY <1>1, <3>2 DEF Expand, AF_INET, AF_INET6, AF_UNSPEC
    <3> QED
      BY <1>2, <3>1, <3>2
  <2> QED
    BY <1>1, <1>2, <2>1, WildcardsAre
<1>3. CASE f = AF_UNSPEC
  <2>1. Expand(f, p) = BothWildcards(u)
    BY <1>1, <1>3 DEF Expand, AF_INET, AF_INET6, AF_UNSPEC
  <2>2. \A k \in 1..Len(u) : 2 * k \in 1..(2 * Len(u))
    BY <1>1
  <2>3. PICK w \in Seq(Addresses) :
          /\ w = BothWildcards(u) /\ Len(w) = 2 * Len(u)
          /\ \A i \in 1..(2 * Len(u)) : \E k \in 1..Len(u) : w[i].port = u[k]
          /\ \A k \in 1..Len(u) : w[2 * k].port = u[k]
    BY BothWildcardsAre
  <2>4. ASSUME NEW i \in 1..Len(w)
        PROVE  \E k \in 1..MAX_PORTS : p[k] # -1 /\ w[i].port = p[k]
    <3>1. PICK k \in 1..Len(u) : w[i].port = u[k]
      BY <2>3
    <3>2. k \in 1..MAX_PORTS /\ u[k] = p[k] /\ p[k] # -1
      BY <1>1
    <3> QED
      BY <3>1, <3>2
  <2>5. \A k \in 1..Len(u) : \E i \in 1..Len(w) : w[i].port = u[k]
    BY <2>2, <2>3
  <2> QED
    BY <1>1, <2>1, <2>3, <2>4, <2>5
<1>4. CASE f \notin Families
  <2>1. Expand(f, p) = <<>>
    BY <1>4 DEF Expand, Families
  <2> QED
    BY <1>4, <2>1
<1> QED
  BY <1>2, <1>3, <1>4 DEF Families

\* The name that a key is taken for is the first one it matches.
LEMMA FirstMatchIs ==
    ASSUME NEW chain, DOMAIN chain \subseteq Nat, NEW key
    PROVE  \/ FirstMatch(chain, key) = NULL /\ \A j \in DOMAIN chain : ~strncmp(chain[j], key)
           \/ \E i \in DOMAIN chain :
                /\ FirstMatch(chain, key) = chain[i] /\ strncmp(chain[i], key)
                /\ \A j \in DOMAIN chain : strncmp(chain[j], key) => i <= j
<1> DEFINE hits == {i \in DOMAIN chain : strncmp(chain[i], key)}
           first == CHOOSE i \in hits : \A j \in hits : i <= j
<1>1. CASE hits = {}
  BY <1>1 DEF FirstMatch
<1>2. CASE hits # {}
  <2>1. \E x \in hits : \A y \in hits : x <= y
    BY <1>2, LeastNumber
  <2>2. first \in hits /\ \A j \in hits : first <= j
    BY <2>1
  <2>3. FirstMatch(chain, key) = chain[first]
    BY <1>2 DEF FirstMatch
  <2> HIDE DEF first
  <2> QED
    BY <2>2, <2>3
<1> QED
  BY <1>1, <1>2

\* Among the keys of strings only PeerAddress is taken for it; the empty key is
\* taken for Address.
LEMMA StringKeys ==
    ASSUME NEW key
    PROVE  /\ FirstMatch(StringNames, key) = "PeerAddress" => key = "PeerAddress"
           /\ key = "ListenAddress" => FirstMatch(StringNames, key) = "ListenAddress"
<1>1. /\ DOMAIN StringNames = 1..8 /\ StringNames[1] = "Address" /\ StringNames[2] = "AddressFamily"
      /\ StringNames[3] = "Mode" /\ StringNames[4] = "Tunnel" /\ StringNames[5] = "PrivateKey"
      /\ StringNames[6] = "CertFile" /\ StringNames[7] = "PeerAddress"
      /\ StringNames[8] = "ListenAddress"
  BY DEF StringNames
<1>2. DOMAIN StringNames \subseteq Nat
  BY <1>1
<1>3. CASE FirstMatch(StringNames, key) = NULL /\ \A j \in DOMAIN StringNames : ~strncmp(StringNames[j], key)
  <2>1. ~strncmp("ListenAddress", key)
    BY <1>1, <1>3
  <2> QED
    BY <1>3, <2>1 DEF strncmp, NULL
<1>4. ASSUME NEW i \in DOMAIN StringNames,
             FirstMatch(StringNames, key) = StringNames[i], strncmp(StringNames[i], key),
             \A j \in DOMAIN StringNames : strncmp(StringNames[j], key) => i <= j
      PROVE  /\ FirstMatch(StringNames, key) = "PeerAddress" => key = "PeerAddress"
             /\ key = "ListenAddress" => FirstMatch(StringNames, key) = "ListenAddress"
  <2>1. 1 \in DOMAIN StringNames /\ strncmp(StringNames[1], "")
    BY <1>1 DEF strncmp
  <2>2. key = "" => i <= 1
    BY <1>4, <2>1
  <2>3. StringNames[i] = "PeerAddress" => key = "PeerAddress"
    <3>1. key = "" => StringNames[i] = "Address"
      <4>1. i \in 1..8
        BY <1>1
      <4>2. ASSUME key = "" PROVE i = 1
        <5>1. i <= 1
          BY <2>2, <4>2
        <5> QED
          BY <4>1, <5>1
      <4> QED
        BY <1>1, <4>2
    <3>2. <<key, "PeerAddress">> \notin Prefixes
      BY DEF Prefixes
    <3> QED
      BY <1>4, <3>1, <3>2 DEF strncmp
  <2>4. key = "ListenAddress" => StringNames[i] = "ListenAddress"
    BY <1>4 DEF strncmp, Prefixes
  <2> QED
    BY <1>4, <2>3, <2>4
<1> QED
  BY <1>2, <1>3, <1>4, FirstMatchIs
----------------------------------------------------------------------------
\* What most options leave alone.
Kept(o, q) ==
    /\ q \in Records /\ q.ready = o.ready /\ q.ports = o.ports /\ q.cports = o.cports
    /\ q.addr_family = o.addr_family /\ q.listen_addrs = o.listen_addrs
    /\ q.client_addrs = o.client_addrs /\ q.peer_addrs = o.peer_addrs

\* A flag is stored.
LEMMA KeepsFlags ==
    ASSUME NEW o \in Records, NEW v \in BOOLEAN
    PROVE  /\ Kept(o, [o EXCEPT !.compression = v])
           /\ Kept(o, [o EXCEPT !.encryption = v])
           /\ Kept(o, [o EXCEPT !.debug = v])
<1>1. Kept(o, [o EXCEPT !.compression = v])
  <2>1. [o EXCEPT !.compression = v] \in Records
    BY DEF Records
  <2> QED
    BY <2>1 DEF Kept, Records
<1>2. Kept(o, [o EXCEPT !.encryption = v])
  <2>1. [o EXCEPT !.encryption = v] \in Records
    BY DEF Records
  <2> QED
    BY <2>1 DEF Kept, Records
<1>3. Kept(o, [o EXCEPT !.debug = v])
  <2>1. [o EXCEPT !.debug = v] \in Records
    BY DEF Records
  <2> QED
    BY <2>1 DEF Kept, Records
<1> QED
  BY <1>1, <1>2, <1>3

\* A string is stored.
LEMMA KeepsNames ==
    ASSUME NEW o \in Records, NEW v \in Strings \cup {NULL}
    PROVE  /\ Kept(o, [o EXCEPT !.addr = v])
           /\ Kept(o, [o EXCEPT !.key_path = v])
           /\ Kept(o, [o EXCEPT !.cert_path = v])
<1>1. Kept(o, [o EXCEPT !.addr = v])
  <2>1. [o EXCEPT !.addr = v] \in Records
    BY DEF Records
  <2> QED
    BY <2>1 DEF Kept, Records
<1>2. Kept(o, [o EXCEPT !.key_path = v])
  <2>1. [o EXCEPT !.key_path = v] \in Records
    BY DEF Records
  <2> QED
    BY <2>1 DEF Kept, Records
<1>3. Kept(o, [o EXCEPT !.cert_path = v])
  <2>1. [o EXCEPT !.cert_path = v] \in Records
    BY DEF Records
  <2> QED
    BY <2>1 DEF Kept, Records
<1> QED
  BY <1>1, <1>2, <1>3

\* A tunnel mode is stored.
LEMMA KeepsTunnel ==
    ASSUME NEW o \in Records, NEW v \in 0..2
    PROVE  Kept(o, [o EXCEPT !.tunnel = v])
<1>1. [o EXCEPT !.tunnel = v] \in Records
  BY DEF Records
<1> QED
  BY <1>1 DEF Kept, Records

\* The index of the device is stored.
LEMMA KeepsIndex ==
    ASSUME NEW o \in Records, NEW v \in Int
    PROVE  Kept(o, [o EXCEPT !.tunnel_index = v])
<1>1. [o EXCEPT !.tunnel_index = v] \in Records
  BY DEF Records
<1> QED
  BY <1>1 DEF Kept, Records

\* The options field by field, as far as the properties are about them.
Is(q, ready, ports, cports, family, listen, client, peer) ==
    /\ q \in Records /\ q.ready = ready /\ q.ports = ports /\ q.cports = cports
    /\ q.addr_family = family /\ q.listen_addrs = listen /\ q.client_addrs = client
    /\ q.peer_addrs = peer

\* An assignment to ports.
LEMMA SetPorts ==
    ASSUME NEW o \in Records, NEW v \in Tables
    PROVE  Is([o EXCEPT !.ports = v], o.ready, v, o.cports, o.addr_family, o.listen_addrs, o.client_addrs, o.peer_addrs)
<1>1. [o EXCEPT !.ports = v] \in Records
  BY DEF Records
<1> QED
  BY <1>1 DEF Is, Records

\* An assignment to cports.
LEMMA SetCports ==
    ASSUME NEW o \in Records, NEW v \in Tables
    PROVE  Is([o EXCEPT !.cports = v], o.ready, o.ports, v, o.addr_family, o.listen_addrs, o.client_addrs, o.peer_addrs)
<1>1. [o EXCEPT !.cports = v] \in Records
  BY DEF Records
<1> QED
  BY <1>1 DEF Is, Records

\* An assignment to addr_family.
LEMMA SetFamily ==
    ASSUME NEW o \in Records, NEW v \in InRange
    PROVE  Is([o EXCEPT !.addr_family = v], o.ready, o.ports, o.cports, v, o.listen_addrs, o.client_addrs, o.peer_addrs)
<1>1. [o EXCEPT !.addr_family = v] \in Records
  BY DEF Records
<1> QED
  BY <1>1 DEF Is, Records

\* An assignment to listen_addrs.
LEMMA SetListen ==
    ASSUME NEW o \in Records, NEW v \in Seq(Addresses)
    PROVE  Is([o EXCEPT !.listen_addrs = v], o.ready, o.ports, o.cports, o.addr_family, v, o.client_addrs, o.peer_addrs)
<1>1. [o EXCEPT !.listen_addrs = v] \in Records
  BY DEF Records
<1> QED
  BY <1>1 DEF Is, Records

\* An assignment to client_addrs.
LEMMA SetClient ==
    ASSUME NEW o \in Records, NEW v \in Seq(Addresses)
    PROVE  Is([o EXCEPT !.client_addrs = v], o.ready, o.ports, o.cports, o.addr_family, o.listen_addrs, v, o.peer_addrs)
<1>1. [o EXCEPT !.client_addrs = v] \in Records
  BY DEF Records
<1> QED
  BY <1>1 DEF Is, Records

\* An assignment to peer_addrs.
LEMMA SetPeer ==
    ASSUME NEW o \in Records, NEW v \in Seq(Addresses)
    PROVE  Is([o EXCEPT !.peer_addrs = v], o.ready, o.ports, o.cports, o.addr_family, o.listen_addrs, o.client_addrs, v)
<1>1. [o EXCEPT !.peer_addrs = v] \in Records
  BY DEF Records
<1> QED
  BY <1>1 DEF Is, Records

\* yajl_boolean changes nothing that the properties are about.
LEMMA BooleanKeeps ==
    ASSUME NEW o \in Records, NEW key, NEW val \in BOOLEAN
    PROVE  Kept(o, SetBoolean(o, key, val))
<1>1. PICK name : name = FirstMatch(<<"Compression", "Encryption", "Debug">>, key)
  OBVIOUS
<1>2. CASE name = "Compression"
  <2>1. SetBoolean(o, key, val) = [o EXCEPT !.compression = val]
    BY <1>1, <1>2 DEF SetBoolean
  <2> QED
    BY <2>1, KeepsFlags
<1>3. CASE name = "Encryption"
  <2>1. SetBoolean(o, key, val) = [o EXCEPT !.encryption = val]
    BY <1>1, <1>3 DEF SetBoolean
  <2> QED
    BY <2>1, KeepsFlags
<1>4. CASE name = "Debug"
  <2>1. SetBoolean(o, key, val) = [o EXCEPT !.debug = val]
    BY <1>1, <1>4 DEF SetBoolean
  <2> QED
    BY <2>1, KeepsFlags
<1>5. CASE name \notin {"Compression", "Encryption", "Debug"}
  <2>1. SetBoolean(o, key, val) = o
    BY <1>1, <1>5 DEF SetBoolean
  <2> QED
    BY <2>1 DEF Kept
<1> QED
  BY <1>2, <1>3, <1>4, <1>5

\* What yajl_number may change: ports become the number or stay, and the family
\* stays unless a port is stored behind its array.
Numbered(o, q, n) ==
    /\ q \in Records /\ q.ready = o.ready /\ q.listen_addrs = o.listen_addrs
    /\ q.client_addrs = o.client_addrs /\ q.peer_addrs = o.peer_addrs
    /\ \A i \in 1..MAX_PORTS : q.ports[i] \in {o.ports[i]} \cup ({n} \cap InRange)
    /\ \A i \in 1..MAX_PORTS : q.cports[i] \in {o.cports[i]} \cup ({n} \cap InRange)

\* A port goes to its array, or to the first client port.
LEMMA PortStored ==
    ASSUME NEW o \in Records, NEW n \in InRange
    PROVE  Numbered(o, AddPort(o, n), n) /\ AddPort(o, n).addr_family = o.addr_family
<1>1. o.ports \in Tables /\ o.cports \in Tables
  BY DEF Records
<1>2. PICK i \in Nat : i = FirstFree(o.ports) /\ i >= 1
  BY <1>1, UsedPorts DEF FirstFree
<1>3. CASE i <= MAX_PORTS
  <2>1. PICK t \in Tables : t = [o.ports EXCEPT ![i] = n]
    BY <1>1, <1>2, <1>3, ConfAssumption DEF Tables, Ports
  <2>2. AddPort(o, n) = [o EXCEPT !.ports = t]
    BY <1>2, <1>3, <2>1 DEF AddPort
  <2>3. PICK q \in Records :
          /\ q = AddPort(o, n) /\ q.ready = o.ready /\ q.ports = t /\ q.cports = o.cports
          /\ q.addr_family = o.addr_family /\ q.listen_addrs = o.listen_addrs
          /\ q.client_addrs = o.client_addrs /\ q.peer_addrs = o.peer_addrs
    BY <2>2, SetPorts DEF Is
  <2>4. \A j \in 1..MAX_PORTS : t[j] \in {o.ports[j]} \cup ({n} \cap InRange)
    BY <1>1, <2>1 DEF Tables
  <2> QED
    BY <2>3, <2>4 DEF Numbered
<1>4. CASE ~(i <= MAX_PORTS)
  <2>1. PICK t \in Tables : t = [o.cports EXCEPT ![1] = n]
    BY <1>1, ConfAssumption DEF Tables, Ports
  <2>2. AddPort(o, n) = [o EXCEPT !.cports = t]
    BY <1>2, <1>4, <2>1 DEF AddPort
  <2>3. PICK q \in Records :
          /\ q = AddPort(o, n) /\ q.ready = o.ready /\ q.ports = o.ports /\ q.cports = t
          /\ q.addr_family = o.addr_family /\ q.listen_addrs = o.listen_addrs
          /\ q.client_addrs = o.client_addrs /\ q.peer_addrs = o.peer_addrs
    BY <2>2, SetCports DEF Is
  <2>4. \A j \in 1..MAX_PORTS : t[j] \in {o.cports[j]} \cup ({n} \cap InRange)
    BY <1>1, <2>1 DEF Tables
  <2> QED
    BY <2>3, <2>4 DEF Numbered
<1> QED
  BY <1>3, <1>4

\* A client port goes to its array, or to the family behind it.
LEMMA ClientPortStored ==
    ASSUME NEW o \in Records, NEW n \in InRange
    PROVE  /\ Numbered(o, AddClientPort(o, n), n)
           /\ FirstFree(o.cports) <= MAX_PORTS => AddClientPort(o, n).addr_family = o.addr_family
<1>1. o.ports \in Tables /\ o.cports \in Tables
  BY DEF Records
<1>2. PICK i \in Nat : i = FirstFree(o.cports) /\ i >= 1
  BY <1>1, UsedPorts DEF FirstFree
<1>3. CASE i <= MAX_PORTS
  <2>1. PICK t \in Tables : t = [o.cports EXCEPT ![i] = n]
    BY <1>1, <1>2, <1>3, ConfAssumption DEF Tables, Ports
  <2>2. AddClientPort(o, n) = [o EXCEPT !.cports = t]
    BY <1>2, <1>3, <2>1 DEF AddClientPort
  <2>3. PICK q \in Records :
          /\ q = AddClientPort(o, n) /\ q.ready = o.ready /\ q.ports = o.ports /\ q.cports = t
          /\ q.addr_family = o.addr_family /\ q.listen_addrs = o.listen_addrs
          /\ q.client_addrs = o.client_addrs /\ q.peer_addrs = o.peer_addrs
    BY <2>2, SetCports DEF Is
  <2>4. \A j \in 1..MAX_PORTS : t[j] \in {o.cports[j]} \cup ({n} \cap InRange)
    BY <1>1, <2>1 DEF Tables
  <2> QED
    BY <2>3, <2>4 DEF Numbered
<1>4. CASE ~(i <= MAX_PORTS)
  <2>1. AddClientPort(o, n) = [o EXCEPT !.addr_family = n]
    BY <1>2, <1>4 DEF AddClientPort
  <2>2. PICK q \in Records :
          /\ q = AddClientPort(o, n) /\ q.ready = o.ready /\ q.ports = o.ports /\ q.cports = o.cports
          /\ q.listen_addrs = o.listen_addrs
          /\ q.client_addrs = o.client_addrs /\ q.peer_addrs = o.peer_addrs
    BY <2>1, SetFamily DEF Is
  <2> QED
    BY <1>2, <1>4, <2>2 DEF Numbered
<1> QED
  BY <1>3, <1>4

\* yajl_number, whatever the key and the number.
LEMMA NumberStored ==
    ASSUME NEW o \in Records, NEW key, NEW n
    PROVE  /\ Numbered(o, SetNumber(o, key, n), n)
           /\ ~Overflows(o, key, n) => SetNumber(o, key, n).addr_family = o.addr_family
<1>1. PICK name : name = NumberName(key)
  OBVIOUS
<1>2. Numbered(o, o, n)
  BY DEF Numbered
<1>3. CASE n \notin InRange
  BY <1>2, <1>3 DEF SetNumber
<1>4. CASE n \in InRange /\ name = "TunnelIndex"
  <2>1. SetNumber(o, key, n) = [o EXCEPT !.tunnel_index = n]
    BY <1>1, <1>4 DEF SetNumber
  <2>2. n \in Int
    <3>1. InRange \subseteq Int
      BY SMT DEF InRange
    <3> QED
      BY <1>4, <3>1
  <2>3. Kept(o, SetNumber(o, key, n))
    BY <2>1, <2>2, KeepsIndex
  <2> QED
    BY <2>3 DEF Kept, Numbered
<1>5. CASE n \in InRange /\ name = "Port"
  <2>1. SetNumber(o, key, n) = AddPort(o, n)
    BY <1>1, <1>5 DEF SetNumber
  <2> QED
    BY <1>5, <2>1, PortStored
<1>6. CASE n \in InRange /\ name = "ClientPort"
  <2>1. SetNumber(o, key, n) = AddClientPort(o, n)
    BY <1>1, <1>6 DEF SetNumber
  <2>2. FirstFree(o.cports) \in Nat
    <3>1. o.cports \in Tables
      BY DEF Records
    <3> QED
      BY <3>1, UsedPorts DEF FirstFree
  <2>3. ~Overflows(o, key, n) => FirstFree(o.cports) <= MAX_PORTS
    BY <1>1, <1>6, <2>2, ConfAssumption DEF Overflows
  <2> QED
    BY <1>6, <2>1, <2>3, ClientPortStored
<1>7. CASE n \in InRange /\ name \notin {"TunnelIndex", "Port", "ClientPort"}
  <2>1. SetNumber(o, key, n) = o
    BY <1>1, <1>7 DEF SetNumber
  <2> QED
    BY <1>2, <2>1
<1> QED
  BY <1>3, <1>4, <1>5, <1>6, <1>7
----------------------------------------------------------------------------
\* A vector grows by addresses of known hosts and by wildcards for ports in use.
Grows(v, w, p) ==
    /\ v \in Seq(Addresses) /\ w \in Seq(Addresses) /\ Len(v) <= Len(w)
    /\ \A i \in 1..Len(v) : w[i] = v[i]
    /\ \A i \in 1..Len(w) : i <= Len(v) \/ w[i].ip # "any" \/
                              \E k \in 1..MAX_PORTS : p[k] # -1 /\ w[i].port = p[k]

\* add_listen_addrs_ports and add_client_addrs_ports.
LEMMA GrowsByPorts ==
    ASSUME NEW v \in Seq(Addresses), NEW f \in InRange, NEW p \in Tables
    PROVE  /\ Grows(v, v \o Expand(f, p), p)
           /\ f \in Families => \A k \in 1..Len(Used(p)) :
                \E j \in 1..Len(v \o Expand(f, p)) : (v \o Expand(f, p))[j].port = Used(p)[k]
<1>1. PICK e \in Seq(Addresses) :
        /\ e = Expand(f, p)
        /\ \A i \in 1..Len(e) : \E k \in 1..MAX_PORTS : p[k] # -1 /\ e[i].port = p[k]
        /\ f \in Families => \A k \in 1..Len(Used(p)) :
             \E i \in 1..Len(e) : e[i].port = Used(p)[k]
  BY ExpandIs
<1>2. PICK w \in Seq(Addresses) :
        /\ w = v \o e /\ Len(w) = Len(v) + Len(e)
        /\ \A i \in 1..Len(v) + Len(e) : w[i] = IF i <= Len(v) THEN v[i] ELSE e[i - Len(v)]
  <2>1. /\ v \o e \in Seq(Addresses) /\ Len(v \o e) = Len(v) + Len(e)
        /\ \A i \in 1..Len(v) + Len(e) : (v \o e)[i] = IF i <= Len(v) THEN v[i] ELSE e[i - Len(v)]
    BY ConcatProperties
  <2> QED
    BY <2>1
<1>3. Len(v) \in Nat /\ Len(e) \in Nat
  OBVIOUS
<1>4. \A i \in 1..Len(v) : w[i] = v[i]
  BY <1>2, <1>3
<1>5. ASSUME NEW i \in 1..Len(w), ~(i <= Len(v))
      PROVE  \E k \in 1..MAX_PORTS : p[k] # -1 /\ w[i].port = p[k]
  <2>1. i - Len(v) \in 1..Len(e) /\ w[i] = e[i - Len(v)]
    BY <1>2, <1>3, <1>5
  <2> QED
    BY <1>1, <2>1
<1>6. \A j \in 1..Len(e) : j + Len(v) \in 1..Len(w) /\ w[j + Len(v)] = e[j]
  BY <1>2, <1>3
<1>7. Grows(v, w, p)
  BY <1>2, <1>3, <1>4, <1>5 DEF Grows
<1>8. f \in Families => \A k \in 1..Len(Used(p)) : \E j \in 1..Len(w) : w[j].port = Used(p)[k]
  <2> SUFFICES ASSUME f \in Families, NEW k \in 1..Len(Used(p))
               PROVE  \E j \in 1..Len(w) : w[j].port = Used(p)[k]
    OBVIOUS
  <2>1. PICK i \in 1..Len(e) : e[i].port = Used(p)[k]
    BY <1>1
  <2>2. i + Len(v) \in 1..Len(w) /\ w[i + Len(v)].port = Used(p)[k]
    BY <1>6, <2>1
  <2> QED
    BY <2>2
<1> QED
  BY <1>1, <1>2, <1>7, <1>8

\* add_sockaddr
LEMMA GrowsByAddress ==
    ASSUME NEW v \in Seq(Addresses), NEW str, NEW p
    PROVE  /\ Grows(v, add_sockaddr(v, str), p)
           /\ str # "192.0.2.1:7" => add_sockaddr(v, str) = v
<1>1. CASE str # "192.0.2.1:7"
  <2>1. add_sockaddr(v, str) = v
    BY <1>1 DEF add_sockaddr
  <2> QED
    BY <1>1, <2>1 DEF Grows
<1>2. CASE str = "192.0.2.1:7"
  <2>1. PICK a \in Addresses : a = Addr("192.0.2.1", AF_INET, 7) /\ a.ip # "any"
    <3>1. 7 \in InRange
      BY SMT DEF InRange
    <3>2. [ip |-> "192.0.2.1", family |-> AF_INET, port |-> 7] \in Addresses
      BY <3>1 DEF Addresses
    <3> QED
      BY <3>2 DEF Addr
  <2>2. PICK w \in Seq(Addresses) : w = Append(v, a) /\ Len(w) = Len(v) + 1 /\ w[Len(v) + 1] = a
                                    /\ \A i \in 1..Len(v) : w[i] = v[i]
    <3>1. /\ Append(v, a) \in Seq(Addresses) /\ Len(Append(v, a)) = Len(v) + 1
          /\ \A i \in 1..Len(v) : Append(v, a)[i] = v[i]
          /\ Append(v, a)[Len(v) + 1] = a
      BY AppendProperties
    <3> QED
      BY <3>1
  <2>3. add_sockaddr(v, str) = w
    BY <1>2, <2>1, <2>2 DEF add_sockaddr
  <2>4. Len(v) \in Nat
    OBVIOUS
  <2>5. \A i \in 1..Len(w) : i <= Len(v) \/ w[i].ip # "any"
    BY <2>1, <2>2, <2>4
  <2> QED
    BY <1>2, <2>2, <2>3, <2>4, <2>5 DEF Grows
<1> QED
  BY <1>1, <1>2

\* What yajl_string may change.
Strung(o, q, key, str) ==
    /\ q \in Records /\ q.ready = o.ready /\ q.ports = o.ports /\ q.cports = o.cports
    /\ q.addr_family \in {o.addr_family} \cup Families
    /\ Grows(o.listen_addrs, q.listen_addrs, o.ports)
    /\ Grows(o.client_addrs, q.client_addrs, o.cports)
    /\ q.peer_addrs # <<>> => o.peer_addrs # <<>> \/ (key = "PeerAddress" /\ str = "192.0.2.1:7")
    /\ key = "ListenAddress" /\ str = "any" /\ o.addr_family \in Families =>
         \A k \in 1..Len(Used(o.ports)) : \E j \in 1..Len(q.listen_addrs) :
             q.listen_addrs[j].port = Used(o.ports)[k]

\* A string that changes no address.
LEMMA KeptIsStrung ==
    ASSUME NEW o \in Records, NEW q, Kept(o, q), NEW key, key # "ListenAddress", NEW str
    PROVE  Strung(o, q, key, str)
<1>1. o.listen_addrs \in Seq(Addresses) /\ o.client_addrs \in Seq(Addresses)
  BY DEF Records
<1>2. \A v \in Seq(Addresses) : \A p : Grows(v, v, p)
  BY DEF Grows
<1> QED
  BY <1>1, <1>2 DEF Kept, Strung

\* The key AddressFamily: "inet6" stands for AF_INET and "inet" for AF_INET6.
LEMMA FamilyStored ==
    ASSUME NEW o \in Records, NEW key, key # "ListenAddress", NEW str
    PROVE  Strung(o, AddressFamily(o, str), key, str)
<1>1. PICK name : name = FirstMatch(<<"inet6", "inet", "any">>, str)
  OBVIOUS
<1>2. \/ \E f \in Families : AddressFamily(o, str) = [o EXCEPT !.addr_family = f]
      \/ AddressFamily(o, str) = o
  <2>1. CASE name = "inet6"
    BY <1>1, <2>1 DEF AddressFamily, Families
  <2>2. CASE name = "inet"
    BY <1>1, <2>2 DEF AddressFamily, Families
  <2>3. CASE name = "any"
    BY <1>1, <2>3 DEF AddressFamily, Families
  <2>4. CASE name \notin {"inet6", "inet", "any"}
    BY <1>1, <2>4 DEF AddressFamily
  <2> QED
    BY <2>1, <2>2, <2>3, <2>4
<1>3. Families \subseteq InRange
  BY SMT DEF Families, InRange, AF_UNSPEC, AF_INET, AF_INET6
<1>4. o.listen_addrs \in Seq(Addresses) /\ o.client_addrs \in Seq(Addresses)
  BY DEF Records
<1>5. \A v \in Seq(Addresses) : \A p : Grows(v, v, p)
  BY DEF Grows
<1>6. ASSUME NEW f \in Families, AddressFamily(o, str) = [o EXCEPT !.addr_family = f]
      PROVE  Strung(o, AddressFamily(o, str), key, str)
  <2>1. PICK q \in Records :
          /\ q = AddressFamily(o, str) /\ q.ready = o.ready /\ q.ports = o.ports
          /\ q.cports = o.cports /\ q.addr_family = f /\ q.listen_addrs = o.listen_addrs
          /\ q.client_addrs = o.client_addrs /\ q.peer_addrs = o.peer_addrs
    BY <1>3, <1>6, SetFamily DEF Is
  <2> QED
    BY <1>4, <1>5, <2>1 DEF Strung
<1>7. CASE AddressFamily(o, str) = o
  BY <1>7, KeptIsStrung DEF Kept
<1> QED
  BY <1>2, <1>6, <1>7
\* The key ListenAddress, in the state of the options it is read in.
LEMMA ListenStored ==
    ASSUME NEW o \in Records, NEW key, NEW str
    PROVE  Strung(o, ListenAddress(o, str), key, str)
<1>1. /\ o.listen_addrs \in Seq(Addresses) /\ o.client_addrs \in Seq(Addresses)
      /\ o.ports \in Tables /\ o.cports \in Tables /\ o.addr_family \in InRange
  BY DEF Records
<1>2. PICK l : l = IF strncmp("any", str) THEN o.listen_addrs \o Expand(o.addr_family, o.ports)
                   ELSE add_sockaddr(o.listen_addrs, str)
  OBVIOUS
<1>3. PICK c : c = o.client_addrs \o Expand(o.addr_family, o.cports)
  OBVIOUS
<1>4. Grows(o.listen_addrs, l, o.ports)
  BY <1>1, <1>2, GrowsByPorts, GrowsByAddress
<1>5. Grows(o.client_addrs, c, o.cports)
  BY <1>1, <1>3, GrowsByPorts
<1>6. str = "any" /\ o.addr_family \in Families =>
        \A k \in 1..Len(Used(o.ports)) : \E j \in 1..Len(l) : l[j].port = Used(o.ports)[k]
  <2>1. str = "any" => strncmp("any", str)
    BY DEF strncmp
  <2> QED
    BY <1>1, <1>2, <2>1, GrowsByPorts
<1>7. l \in Seq(Addresses) /\ c \in Seq(Addresses)
  BY <1>4, <1>5 DEF Grows
<1>8. PICK a \in Records :
        /\ a = [o EXCEPT !.listen_addrs = l] /\ a.ready = o.ready /\ a.ports = o.ports
        /\ a.cports = o.cports /\ a.addr_family = o.addr_family /\ a.listen_addrs = l
        /\ a.client_addrs = o.client_addrs /\ a.peer_addrs = o.peer_addrs
  BY <1>7, SetListen DEF Is
<1>9. PICK q \in Records :
        /\ q = [a EXCEPT !.client_addrs = c] /\ q.ready = a.ready /\ q.ports = a.ports
        /\ q.cports = a.cports /\ q.addr_family = a.addr_family /\ q.listen_addrs = a.listen_addrs
        /\ q.client_addrs = c /\ q.peer_addrs = a.peer_addrs
  BY <1>7, SetClient DEF Is
<1>10. ListenAddress(o, str) = q
  BY <1>2, <1>3, <1>8, <1>9 DEF ListenAddress
<1>11. /\ q.ready = o.ready /\ q.ports = o.ports /\ q.cports = o.cports
       /\ q.addr_family = o.addr_family /\ q.listen_addrs = l /\ q.client_addrs = c
       /\ q.peer_addrs = o.peer_addrs
  BY <1>8, <1>9
<1> QED
  BY <1>4, <1>5, <1>6, <1>10, <1>11 DEF Strung

\* The keys Mode and Tunnel store a tunnel mode.
LEMMA TunnelStored ==
    ASSUME NEW o \in Records, NEW str
    PROVE  Kept(o, Mode(o, str)) /\ Kept(o, Tunnel(o, str))
<1>1. PICK name : name = FirstMatch(<<"router", "switch", "hub">>, str)
  OBVIOUS
<1>2. Mode(o, str) = o \/ \E v \in 0..2 : Mode(o, str) = [o EXCEPT !.tunnel = v]
  <2>1. CASE name = "router"
    BY <1>1, <2>1 DEF Mode
  <2>2. CASE name = "switch"
    BY <1>1, <2>2 DEF Mode
  <2>3. CASE name = "hub"
    BY <1>1, <2>3 DEF Mode
  <2>4. CASE name \notin {"router", "switch", "hub"}
    BY <1>1, <2>4 DEF Mode
  <2> QED
    BY <2>1, <2>2, <2>3, <2>4
<1>3. PICK n : n = FirstMatch(<<"point-to-point", "ethernet">>, str)
  OBVIOUS
<1>4. Tunnel(o, str) = o \/ \E v \in 0..2 : Tunnel(o, str) = [o EXCEPT !.tunnel = v]
  <2>1. CASE n = "point-to-point"
    BY <1>3, <2>1 DEF Tunnel
  <2>2. CASE n = "ethernet"
    BY <1>3, <2>2 DEF Tunnel
  <2>3. CASE n \notin {"point-to-point", "ethernet"}
    BY <1>3, <2>3 DEF Tunnel
  <2> QED
    BY <2>1, <2>2, <2>3
<1>5. Kept(o, o)
  BY DEF Kept
<1> QED
  BY <1>2, <1>4, <1>5, KeepsTunnel

\* The key PeerAddress.
LEMMA PeerStored ==
    ASSUME NEW o \in Records, NEW str
    PROVE  Strung(o, [o EXCEPT !.peer_addrs = add_sockaddr(@, str)], "PeerAddress", str)
<1>1. /\ o.listen_addrs \in Seq(Addresses) /\ o.client_addrs \in Seq(Addresses)
      /\ o.peer_addrs \in Seq(Addresses)
  BY DEF Records
<1>2. PICK p \in Seq(Addresses) :
        p = add_sockaddr(o.peer_addrs, str) /\ (str # "192.0.2.1:7" => p = o.peer_addrs)
  BY <1>1, GrowsByAddress DEF Grows
<1>3. PICK q \in Records :
        /\ q = [o EXCEPT !.peer_addrs = p] /\ q.ready = o.ready /\ q.ports = o.ports
        /\ q.cports = o.cports /\ q.addr_family = o.addr_family
        /\ q.listen_addrs = o.listen_addrs /\ q.client_addrs = o.client_addrs /\ q.peer_addrs = p
  BY SetPeer DEF Is
<1>4. \A v \in Seq(Addresses) : \A t : Grows(v, v, t)
  BY DEF Grows
<1>5. Strung(o, q, "PeerAddress", str)
  BY <1>1, <1>2, <1>3, <1>4 DEF Strung
<1> QED
  BY <1>2, <1>3, <1>5

\* yajl_string, whatever the key and the string.
LEMMA StringStored ==
    ASSUME NEW o \in Records, NEW key, NEW str \in Strings
    PROVE  Strung(o, SetString(o, key, str), key, str)
<1>1. PICK name : /\ name = FirstMatch(StringNames, key)
                  /\ name = "PeerAddress" => key = "PeerAddress"
                  /\ key = "ListenAddress" => name = "ListenAddress"
  BY StringKeys
<1>2. CASE name = "Address"
  <2>1. SetString(o, key, str) = [o EXCEPT !.addr = str]
    BY <1>1, <1>2 DEF SetString
  <2> QED
    BY <1>1, <1>2, <2>1, KeepsNames, KeptIsStrung
<1>3. CASE name = "AddressFamily"
  <2>1. SetString(o, key, str) = AddressFamily(o, str)
    BY <1>1, <1>3 DEF SetString
  <2> QED
    BY <1>1, <1>3, <2>1, FamilyStored
<1>4. CASE name = "Mode"
  <2>1. SetString(o, key, str) = Mode(o, str)
    BY <1>1, <1>4 DEF SetString
  <2> QED
    BY <1>1, <1>4, <2>1, TunnelStored, KeptIsStrung
<1>5. CASE name = "Tunnel"
  <2>1. SetString(o, key, str) = Tunnel(o, str)
    BY <1>1, <1>5 DEF SetString
  <2> QED
    BY <1>1, <1>5, <2>1, TunnelStored, KeptIsStrung
<1>6. CASE name = "PrivateKey"
  <2>1. SetString(o, key, str) = [o EXCEPT !.key_path = str]
    BY <1>1, <1>6 DEF SetString
  <2> QED
    BY <1>1, <1>6, <2>1, KeepsNames, KeptIsStrung
<1>7. CASE name = "CertFile"
  <2>1. SetString(o, key, str) = [o EXCEPT !.cert_path = str]
    BY <1>1, <1>7 DEF SetString
  <2> QED
    BY <1>1, <1>7, <2>1, KeepsNames, KeptIsStrung
<1>8. CASE name = "PeerAddress"
  <2>1. SetString(o, key, str) = [o EXCEPT !.peer_addrs = add_sockaddr(@, str)]
    BY <1>1, <1>8 DEF SetString
  <2> QED
    BY <1>1, <1>8, <2>1, PeerStored
<1>9. CASE name = "ListenAddress"
  <2>1. SetString(o, key, str) = ListenAddress(o, str)
    BY <1>1, <1>9 DEF SetString
  <2> QED
    BY <2>1, ListenStored
<1>10. CASE name \notin {"Address", "AddressFamily", "Mode", "Tunnel", "PrivateKey", "CertFile",
                         "PeerAddress", "ListenAddress"}
  <2>1. SetString(o, key, str) = o
    BY <1>1, <1>10 DEF SetString
  <2>2. Kept(o, o)
    BY DEF Kept
  <2> QED
    BY <1>1, <1>10, <2>1, <2>2, KeptIsStrung
<1> QED
  BY <1>2, <1>3, <1>4, <1>5, <1>6, <1>7, <1>8, <1>9, <1>10
----------------------------------------------------------------------------
(* The invariant of the configuration.  P and A are the ports and addresses *)
(* that the file has given, any the ports at its last ListenAddress "any",  *)
(* and over tells whether a port was stored behind its array.               *)

\* While a file is parsed, no default is among the ports yet.
PortsNamed(o, P) ==
    \A i \in 1..MAX_PORTS : o.ports[i] \in P \cup {-1} /\ o.cports[i] \in P \cup {-1}

\* The addresses come from the file.
AddressesNamed(o, P, A) ==
    /\ \A i \in 1..Len(o.listen_addrs) :
         o.listen_addrs[i].ip = "any" => o.listen_addrs[i].port \in P
    /\ \A i \in 1..Len(o.client_addrs) :
         o.client_addrs[i].ip = "any" => o.client_addrs[i].port \in P
    /\ o.peer_addrs # <<>> => "192.0.2.1:7" \in A

OptsInv(o, P, A, any, over, parsing) ==
    /\ parsing => o.ready /\ PortsNamed(o, P) /\ (~over => o.addr_family \in Families)
    /\ o.ready => /\ AddressesNamed(o, P, A)
                  /\ \A i \in 1..MAX_PORTS : o.ports[i] \in P \cup {-1, DEFAULT_PORT}
    /\ ~over => \A k \in 1..Len(any) : \E j \in 1..Len(o.listen_addrs) :
                   o.listen_addrs[j].port = any[k]

\* tnt_parse_buf starts from the options of init_options.
LEMMA OptionsAre ==
    /\ Options(FALSE) \in Records /\ Options(TRUE) \in Records
    /\ \A P, A : OptsInv(Options(FALSE), P, A, <<>>, FALSE, FALSE)
    /\ OptsInv(Options(TRUE), {}, {}, <<>>, FALSE, TRUE)
<1>1. 0 \in InRange
  BY SMT DEF InRange
<1>2. Unset \in Tables /\ [i \in 1..MAX_PORTS |-> 0] \in Tables
  BY <1>1 DEF Unset, Tables, Ports
<1>3. ASSUME NEW b \in BOOLEAN
      PROVE  /\ Options(b) \in Records /\ Options(b).ready = b
             /\ Options(b).listen_addrs = <<>> /\ Options(b).client_addrs = <<>>
             /\ Options(b).peer_addrs = <<>> /\ Options(b).addr_family = AF_UNSPEC
             /\ b => Options(b).ports = Unset /\ Options(b).cports = Unset
  <2>1. PICK t \in Tables : t = IF b THEN Unset ELSE [i \in 1..MAX_PORTS |-> 0]
    BY <1>2
  <2>2. PICK k \in Int : k = IF b THEN -1 ELSE 0
    OBVIOUS
  <2>3. Options(b) = [ready |-> b, tunnel |-> 0, tunnel_index |-> k, mode |-> 0, debug |-> FALSE,
          compression |-> b, encryption |-> b, ports |-> t, cports |-> t,
          addr_family |-> AF_UNSPEC, listen_addrs |-> <<>>, client_addrs |-> <<>>,
          peer_addrs |-> <<>>, addr |-> NULL, key_path |-> NULL, cert_path |-> NULL]
    BY <2>1, <2>2 DEF Options
  <2>4. AF_UNSPEC \in InRange /\ <<>> \in Seq(Addresses)
    BY <1>1 DEF AF_UNSPEC
  <2>5. Options(b) \in Records
    BY <2>3, <2>4 DEF Records
  <2>6. b => t = Unset
    BY <2>1
  <2> QED
    BY <2>3, <2>5, <2>6
<1>4. 1..Len(<<>>) = {} /\ \A i \in 1..MAX_PORTS : Unset[i] = -1
  BY DEF Unset
<1>5. ASSUME NEW P, NEW A
      PROVE  OptsInv(Options(FALSE), P, A, <<>>, FALSE, FALSE)
  <2>1. PICK o : o = Options(FALSE) /\ o.ready = FALSE
    BY <1>3
  <2>2. \A k \in 1..Len(<<>>) : \E j \in 1..Len(o.listen_addrs) :
          o.listen_addrs[j].port = <<>>[k]
    BY <1>4
  <2> QED
    BY <2>1, <2>2 DEF OptsInv
<1>6. OptsInv(Options(TRUE), {}, {}, <<>>, FALSE, TRUE)
  <2>1. PICK o : /\ o = Options(TRUE) /\ o.ready = TRUE /\ o.listen_addrs = <<>>
                 /\ o.client_addrs = <<>> /\ o.peer_addrs = <<>> /\ o.addr_family = AF_UNSPEC
                 /\ o.ports = Unset /\ o.cports = Unset
    BY <1>3
  <2>2. PortsNamed(o, {})
    BY <1>4, <2>1 DEF PortsNamed
  <2>3. AddressesNamed(o, {}, {})
    BY <1>4, <2>1 DEF AddressesNamed
  <2>4. o.addr_family \in Families
    BY <2>1 DEF Families
  <2>5. \A i \in 1..MAX_PORTS : o.ports[i] \in {} \cup {-1, DEFAULT_PORT}
    BY <1>4, <2>1
  <2>6. \A k \in 1..Len(<<>>) : \E j \in 1..Len(o.listen_addrs) :
          o.listen_addrs[j].port = <<>>[k]
    BY <1>4
  <2> QED
    BY <2>1, <2>2, <2>3, <2>4, <2>5, <2>6 DEF OptsInv
<1> QED
  BY <1>3, <1>5, <1>6

\* yajl_boolean and what ends the parse early.
LEMMA KeptSound ==
    ASSUME NEW o, NEW q, NEW P, NEW A, NEW any, NEW over,
           OptsInv(o, P, A, any, over, TRUE), Kept(o, q)
    PROVE  OptsInv(q, P, A, any, over, TRUE) /\ OptsInv(o, P, A, any, over, FALSE)
BY DEF Kept, OptsInv, PortsNamed, AddressesNamed

\* yajl_number
LEMMA NumberSound ==
    ASSUME NEW o \in Records, NEW q, NEW P, NEW A, NEW any, NEW over, NEW n, NEW beyond,
           OptsInv(o, P, A, any, over, TRUE), Numbered(o, q, n),
           ~beyond => q.addr_family = o.addr_family
    PROVE  OptsInv(q, P \cup ({n} \cap InRange), A, any, over \/ beyond, TRUE)
<1>1. PortsNamed(q, P \cup ({n} \cap InRange))
  BY DEF OptsInv, Numbered, PortsNamed
<1>2. AddressesNamed(q, P \cup ({n} \cap InRange), A)
  BY DEF OptsInv, Numbered, AddressesNamed
<1> QED
  BY <1>1, <1>2 DEF OptsInv, Numbered, PortsNamed

\* yajl_string
LEMMA StringSound ==
    ASSUME NEW o \in Records, NEW q, NEW P, NEW A, NEW B, NEW any, NEW any2, NEW over, NEW key, NEW str,
           OptsInv(o, P, A, any, over, TRUE), Strung(o, q, key, str),
           B = A \cup (IF key = "ListenAddress" \/ key = "PeerAddress" THEN {str} ELSE {}),
           any2 = IF key = "ListenAddress" /\ str = "any" THEN Used(o.ports) ELSE any
    PROVE  OptsInv(q, P, B, any2, over, TRUE)
<1>1. PortsNamed(q, P)
  BY DEF OptsInv, Strung, PortsNamed
<1>2. ASSUME NEW v, NEW w, NEW p, Grows(v, w, p), NEW i \in 1..Len(w),
             \A k \in 1..MAX_PORTS : p[k] \in P \cup {-1},
             \A k \in 1..Len(v) : v[k].ip = "any" => v[k].port \in P,
             w[i].ip = "any"
      PROVE  w[i].port \in P
  <2>1. Len(v) \in Nat /\ Len(w) \in Nat
    BY <1>2 DEF Grows
  <2>2. CASE i <= Len(v)
    <3>1. i \in 1..Len(v)
      BY <2>1, <2>2
    <3>2. w[i] = v[i]
      BY <1>2, <3>1 DEF Grows
    <3> QED
      BY <1>2, <3>1, <3>2
  <2>3. CASE ~(i <= Len(v))
    <3>1. \E k \in 1..MAX_PORTS : p[k] # -1 /\ w[i].port = p[k]
      BY <1>2, <2>3 DEF Grows
    <3> QED
      BY <1>2, <3>1
  <2> QED
    BY <2>2, <2>3
<1>3. AddressesNamed(q, P, B)
  <2>1. \A i \in 1..Len(q.listen_addrs) :
          q.listen_addrs[i].ip = "any" => q.listen_addrs[i].port \in P
    <3>1. Grows(o.listen_addrs, q.listen_addrs, o.ports)
      BY DEF Strung
    <3> QED
      BY <1>2, <3>1 DEF OptsInv, PortsNamed, AddressesNamed
  <2>2. \A i \in 1..Len(q.client_addrs) :
          q.client_addrs[i].ip = "any" => q.client_addrs[i].port \in P
    <3>1. Grows(o.client_addrs, q.client_addrs, o.cports)
      BY DEF Strung
    <3> QED
      BY <1>2, <3>1 DEF OptsInv, PortsNamed, AddressesNamed
  <2>3. q.peer_addrs # <<>> => "192.0.2.1:7" \in B
    BY DEF Strung, OptsInv, AddressesNamed
  <2> QED
    BY <2>1, <2>2, <2>3 DEF AddressesNamed
<1>4. ~over => \A k \in 1..Len(any2) : \E j \in 1..Len(q.listen_addrs) :
                  q.listen_addrs[j].port = any2[k]
  <2>1. CASE key = "ListenAddress" /\ str = "any"
    BY <2>1 DEF OptsInv, Strung
  <2>2. CASE ~(key = "ListenAddress" /\ str = "any")
    <3>1. any2 = any /\ Grows(o.listen_addrs, q.listen_addrs, o.ports)
      BY <2>2 DEF Strung
    <3>2. \A j \in 1..Len(o.listen_addrs) : /\ j \in 1..Len(q.listen_addrs)
                                            /\ q.listen_addrs[j] = o.listen_addrs[j]
      BY <3>1 DEF Grows
    <3> QED
      BY <3>1, <3>2 DEF OptsInv
  <2> QED
    BY <2>1, <2>2
<1> QED
  BY <1>1, <1>3, <1>4 DEF OptsInv, Strung, PortsNamed

\* The end of tnt_parse_buf: defaults for the ports that the file has not given.
LEMMA EndsSound ==
    ASSUME NEW o \in Records, NEW q, NEW P, NEW A, NEW any, NEW over,
           OptsInv(o, P, A, any, over, TRUE),
           q = [o EXCEPT !.ports[1] = IF @ = -1 THEN DEFAULT_PORT ELSE @,
                         !.cports[1] = IF @ = -1 THEN CLIENT_DEFAULT_PORT ELSE @]
    PROVE  q \in Records /\ OptsInv(q, P, A, any, over, FALSE)
<1>1. DEFAULT_PORT \in InRange /\ CLIENT_DEFAULT_PORT \in InRange
  BY SMT DEF InRange, DEFAULT_PORT, CLIENT_DEFAULT_PORT
<1>2. o.ports \in Tables /\ o.cports \in Tables
  BY DEF Records
<1>3. PICK a \in Ports : a = IF o.ports[1] = -1 THEN DEFAULT_PORT ELSE o.ports[1]
  BY <1>1, <1>2, ConfAssumption DEF Tables, Ports
<1>4. PICK b \in Ports : b = IF o.cports[1] = -1 THEN CLIENT_DEFAULT_PORT ELSE o.cports[1]
  BY <1>1, <1>2, ConfAssumption DEF Tables, Ports
<1>5. PICK t \in Tables : /\ t = [o.ports EXCEPT ![1] = a]
                          /\ \A i \in 1..MAX_PORTS : t[i] \in {o.ports[i], DEFAULT_PORT}
  <2>1. [o.ports EXCEPT ![1] = a] \in Tables
    BY <1>2 DEF Tables
  <2> QED
    BY <1>2, <1>3, <2>1 DEF Tables
<1>6. PICK u \in Tables : u = [o.cports EXCEPT ![1] = b]
  BY <1>2 DEF Tables
<1>7. PICK r \in Records :
        /\ r = [o EXCEPT !.ports = t] /\ r.ready = o.ready /\ r.ports = t
        /\ r.cports = o.cports /\ r.addr_family = o.addr_family
        /\ r.listen_addrs = o.listen_addrs /\ r.client_addrs = o.client_addrs
        /\ r.peer_addrs = o.peer_addrs
  BY SetPorts DEF Is
<1>8. PICK s \in Records :
        /\ s = [r EXCEPT !.cports = u] /\ s.ready = o.ready /\ s.ports = t
        /\ s.listen_addrs = o.listen_addrs /\ s.client_addrs = o.client_addrs
        /\ s.peer_addrs = o.peer_addrs
  <2>1. Is([r EXCEPT !.cports = u], r.ready, r.ports, u, r.addr_family, r.listen_addrs,
           r.client_addrs, r.peer_addrs)
    BY SetCports
  <2> QED
    BY <1>7, <2>1 DEF Is
<1>9. q = s
  BY <1>3, <1>4, <1>5, <1>6, <1>7, <1>8
<1>10. OptsInv(s, P, A, any, over, FALSE)
  <2>1. AddressesNamed(s, P, A) /\ o.ready /\ PortsNamed(o, P)
    BY <1>8 DEF OptsInv, AddressesNamed
  <2>2. \A i \in 1..MAX_PORTS : s.ports[i] \in P \cup {-1, DEFAULT_PORT}
    BY <1>5, <1>8, <2>1 DEF PortsNamed
  <2> QED
    BY <1>8, <2>1, <2>2 DEF OptsInv
<1> QED
  BY <1>9, <1>10
----------------------------------------------------------------------------
(* The stack of yajl *)

Frames == [kind : {"map", "array"}, key : Keys \cup {NULL}]

\* InnermostKey of any stack.
Innermost(s) ==
    LET maps == {i \in DOMAIN s : s[i].kind = "map"}
    IN  IF maps = {} THEN NULL ELSE s[CHOOSE i \in maps : \A j \in maps : j <= i].key

\* A non-empty set of indices has a greatest element.
LEMMA GreatestIndex ==
    ASSUME NEW n \in Nat, NEW T, T \subseteq 1..n, T # {}
    PROVE  \E x \in T : \A y \in T : y <= x
<1> DEFINE U == {n - x : x \in T}
<1>1. U \subseteq Nat /\ U # {}
  <2>1. \A x \in T : n - x \in Nat
    OBVIOUS
  <2> QED
    BY <2>1
<1>2. \A x \in T : n - x \in U
  OBVIOUS
<1>3. \A m \in U : \E x \in T : m = n - x
  OBVIOUS
<1> HIDE DEF U
<1>4. PICK m \in U : \A k \in U : m <= k
  BY <1>1, LeastNumber
<1>5. PICK x \in T : m = n - x
  BY <1>3
<1>6. ASSUME NEW y \in T
      PROVE  y <= x
  <2>1. m <= n - y
    BY <1>2, <1>4
  <2>2. x \in Int /\ y \in Int
    OBVIOUS
  <2> QED
    BY <1>5, <2>1, <2>2
<1> QED
  BY <1>6

\* The key is that of the top, if the top is a map.
LEMMA InnermostIsTop ==
    ASSUME NEW s \in Seq(Frames), s # <<>>, s[Len(s)].kind = "map"
    PROVE  Innermost(s) = s[Len(s)].key
<1> DEFINE maps == {i \in DOMAIN s : s[i].kind = "map"}
           top == CHOOSE i \in maps : \A j \in maps : j <= i
<1>1. Len(s) \in Nat /\ Len(s) \in maps /\ \A j \in maps : j \in 1..Len(s)
  OBVIOUS
<1>2. Innermost(s) = s[top].key
  BY <1>1 DEF Innermost
<1> HIDE DEF maps
<1>3. top \in maps /\ \A j \in maps : j <= top
  <2>1. \A j \in maps : j <= Len(s)
    BY <1>1
  <2> QED
    BY <1>1, <2>1
<1> HIDE DEF top
<1>4. top = Len(s)
  <2>1. top \in 1..Len(s) /\ Len(s) <= top
    BY <1>1, <1>3
  <2> QED
    BY <1>1, <2>1
<1> QED
  BY <1>2, <1>4

\* yajl_start_array leaves it.
LEMMA InnermostBelowArray ==
    ASSUME NEW s \in Seq(Frames), NEW k
    PROVE  Innermost(Append(s, [kind |-> "array", key |-> k])) = Innermost(s)
<1> DEFINE a == [kind |-> "array", key |-> k]
           w == Append(s, a)
           maps == {i \in DOMAIN s : s[i].kind = "map"}
           more == {i \in DOMAIN w : w[i].kind = "map"}
           top == CHOOSE i \in maps : \A j \in maps : j <= i
<1>1. Len(s) \in Nat /\ DOMAIN s = 1..Len(s)
  OBVIOUS
<1>2. /\ DOMAIN w = 1..(Len(s) + 1) /\ w[Len(s) + 1].kind = "array"
      /\ \A i \in 1..Len(s) : w[i] = s[i]
  OBVIOUS
<1>3. more = maps
  <2> HIDE DEF w
  <2>1. \A i : i \in more <=> i \in maps
    BY <1>1, <1>2
  <2> QED
    BY <2>1
<1>4. CASE maps = {}
  <2>1. Innermost(s) = NULL
    BY <1>4 DEF Innermost
  <2>2. Innermost(w) = NULL
    BY <1>3, <1>4 DEF Innermost
  <2> QED
    BY <2>1, <2>2
<1>5. CASE maps # {}
  <2>1. Innermost(s) = s[top].key
    BY <1>5 DEF Innermost
  <2>2. Innermost(w) = w[CHOOSE i \in more : \A j \in more : j <= i].key
    BY <1>3, <1>5 DEF Innermost
  <2>3. Innermost(w) = w[top].key
    BY <1>3, <2>2
  <2>4. maps \subseteq 1..Len(s)
    BY <1>1
  <2> HIDE DEF maps, w
  <2>5. \E x \in maps : \A y \in maps : y <= x
    BY <1>1, <1>5, <2>4, GreatestIndex
  <2>6. top \in maps
    BY <2>5
  <2> HIDE DEF top
  <2>7. w[top] = s[top]
    BY <1>2, <2>4, <2>6
  <2> QED
    BY <2>1, <2>3, <2>7 DEF w
<1> QED
  BY <1>4, <1>5

\* A value that is complete leaves a stack, and its map waits for a key.
LEMMA AfterValueIs ==
    ASSUME NEW s \in Seq(Frames)
    PROVE  /\ AfterValue(s) \in Seq(Frames)
           /\ s # <<>> => AfterValue(s) # <<>>
           /\ s # <<>> /\ s[Len(s)].kind = "map" =>
                /\ AfterValue(s)[Len(AfterValue(s))].kind = "map"
                /\ AfterValue(s)[Len(AfterValue(s))].key = NULL
           /\ s # <<>> /\ s[Len(s)].kind # "map" => AfterValue(s) = s
<1>1. CASE s = <<>> \/ s[Len(s)].kind # "map"
  <2>1. AfterValue(s) = s
    BY <1>1 DEF AfterValue
  <2> QED
    BY <1>1, <2>1
<1>2. CASE s # <<>> /\ s[Len(s)].kind = "map"
  <2>1. PICK n \in Nat : n = Len(s) /\ n >= 1 /\ DOMAIN s = 1..n
    BY <1>2
  <2>2. PICK f : f = [s[n] EXCEPT !.key = NULL]
    OBVIOUS
  <2>3. s[n] \in Frames
    BY <2>1
  <2>4. f \in Frames /\ f.key = NULL /\ f.kind = "map"
    BY <1>2, <2>1, <2>2, <2>3 DEF Frames
  <2>5. AfterValue(s) = [s EXCEPT ![n] = f]
    BY <1>2, <2>1, <2>2 DEF AfterValue
  <2>6. PICK w \in Seq(Frames) : w = [s EXCEPT ![n] = f] /\ Len(w) = n /\ w[n] = f
    <3>1. /\ [s EXCEPT ![n] = f] \in Seq(Frames) /\ Len([s EXCEPT ![n] = f]) = Len(s)
          /\ [s EXCEPT ![n] = f][n] = f
      BY <2>1, <2>4, ExceptSeq
    <3> QED
      BY <2>1, <3>1
  <2>7. w # <<>>
    BY <2>1, <2>6
  <2> QED
    BY <1>2, <2>4, <2>5, <2>6, <2>7
<1> QED
  BY <1>1, <1>2
----------------------------------------------------------------------------
(* The callbacks and main *)

ConfShape ==
    /\ build \in {"unix", "wnt"} /\ phase \in {"open", "parse", "getopt", "server", "exit"}
    /\ file \in 1..MaxFiles /\ ctx \in Keys \cup {NULL} /\ stack \in Seq(Frames)
    /\ opts \in Records /\ given \in [ports : SUBSET InRange, addrs : SUBSET Strings]
    /\ anyPorts \in Seq(InRange)

\* The parser exists only during tnt_parse_buf.
NoParser == phase # "parse" => stack = <<>> /\ ~whole /\ nvalues = 0 /\ ctx = NULL

\* The inductive invariant of Conf.
ConfInv ==
    /\ ConfShape /\ NoParser /\ KeyIsCurrent
    /\ OptsInv(opts, given.ports, given.addrs, anyPorts, overflow, phase = "parse")

\* No file has been read.
LEMMA ConfInvInit == ConfInit => ConfInv
<1> SUFFICES ASSUME ConfInit
             PROVE  ConfInv
  OBVIOUS
<1>1. ConfShape
  <2>1. NothingGiven \in [ports : SUBSET InRange, addrs : SUBSET Strings]
    BY DEF NothingGiven
  <2>2. <<>> \in Seq(Frames) /\ <<>> \in Seq(InRange)
    OBVIOUS
  <2> QED
    <3>1. 1 \in 1..MaxFiles
      BY ConfAssumption
    <3> QED
      BY <2>1, <2>2, <3>1, OptionsAre DEF ConfInit, ConfShape
<1>2. NoParser /\ KeyIsCurrent
  BY DEF ConfInit, NoParser, KeyIsCurrent, ValueExpected
<1>3. OptsInv(opts, given.ports, given.addrs, anyPorts, overflow, FALSE)
  BY OptionsAre DEF ConfInit
<1>4. (phase = "parse") = FALSE
  BY DEF ConfInit
<1> QED
  BY <1>1, <1>2, <1>3, <1>4 DEF ConfInv

\* The parser without its values: yajl_start_map, yajl_start_array,
\* yajl_map_key, yajl_end_map and yajl_end_array.
LEMMA StructureStep ==
    ASSUME ConfInv,
           \/ yajl_start_map \/ yajl_start_array \/ yajl_end_map \/ yajl_end_array
           \/ \E key \in Keys : yajl_map_key(key)
    PROVE  ConfInv'
<1>1. /\ phase = "parse" /\ phase' = "parse" /\ build' = build /\ file' = file
      /\ opts' = opts /\ given' = given /\ anyPorts' = anyPorts /\ overflow' = overflow
  BY DEF yajl_start_map, yajl_start_array, yajl_end_map, yajl_end_array, yajl_map_key, Open,
         Close, ValueExpected, history
<1>2. stack \in Seq(Frames)
  BY DEF ConfInv, ConfShape
<1>3. Top.kind \in {"map", "array"} => stack # <<>> /\ Top = stack[Len(stack)]
  BY DEF Top
<1>4. stack' \in Seq(Frames) /\ ctx' \in Keys \cup {NULL} /\ KeyIsCurrent'
  <2>1. CASE yajl_start_map
    <3>1. PICK f \in Frames : f = [kind |-> "map", key |-> NULL] /\ f.kind = "map" /\ f.key = NULL
      <4>1. [kind |-> "map", key |-> NULL] \in Frames
        BY DEF Frames
      <4> QED
        BY <4>1
    <3>2. stack' = Append(stack, f) /\ ctx' = ctx
      BY <2>1, <3>1 DEF yajl_start_map, Open
    <3>3. /\ Append(stack, f) \in Seq(Frames) /\ Append(stack, f) # <<>>
          /\ Append(stack, f)[Len(Append(stack, f))] = f
      BY <1>2
    <3>4. Top' = f
      BY <3>2, <3>3 DEF Top
    <3> QED
      BY <3>1, <3>2, <3>3, <3>4 DEF KeyIsCurrent, ValueExpected, ConfInv, ConfShape
  <2>2. CASE yajl_start_array
    <3>1. PICK f \in Frames : f = [kind |-> "array", key |-> NULL]
      BY DEF Frames
    <3>2. stack' = Append(stack, f) /\ ctx' = ctx /\ ValueExpected
      BY <2>2, <3>1 DEF yajl_start_array, Open
    <3>3. Append(stack, f) \in Seq(Frames)
      BY <1>2
    <3>4. InnermostKey' = Innermost(stack') /\ InnermostKey = Innermost(stack)
      BY DEF InnermostKey, Innermost
    <3>5. InnermostKey' = InnermostKey
      BY <1>2, <3>1, <3>2, <3>4, InnermostBelowArray
    <3> QED
      BY <3>2, <3>3, <3>5 DEF KeyIsCurrent, ConfInv, ConfShape
  <2>3. CASE yajl_end_map \/ yajl_end_array
    <3>1. ctx' = NULL /\ stack' = AfterValue(SubSeq(stack, 1, Len(stack) - 1)) /\ stack # <<>>
      BY <1>3, <2>3 DEF yajl_end_map, yajl_end_array, Close
    <3>2. SubSeq(stack, 1, Len(stack) - 1) \in Seq(Frames)
      BY <1>2, <3>1
    <3> QED
      BY <3>1, <3>2, AfterValueIs DEF KeyIsCurrent
  <2>4. ASSUME NEW key \in Keys, yajl_map_key(key)
        PROVE  stack' \in Seq(Frames) /\ ctx' \in Keys \cup {NULL} /\ KeyIsCurrent'
    <3>1. ctx' = key /\ stack # <<>> /\ stack[Len(stack)].kind = "map"
      BY <1>3, <2>4 DEF yajl_map_key
    <3>2. PICK n \in Nat : n = Len(stack) /\ n >= 1 /\ n \in 1..Len(stack) /\ stack[n] \in Frames
      BY <1>2, <3>1
    <3>3. PICK f \in Frames : f = [stack[n] EXCEPT !.key = key] /\ f.kind = "map" /\ f.key = key
      <4>1. PICK g \in Frames : g = stack[n] /\ g.kind = "map"
        BY <3>1, <3>2
      <4>2. [g EXCEPT !.key = key] \in Frames
        BY DEF Frames
      <4> QED
        BY <4>1, <4>2 DEF Frames
    <3>4. stack' = [stack EXCEPT ![n] = f]
      BY <2>4, <3>2, <3>3 DEF yajl_map_key
    <3>5. /\ [stack EXCEPT ![n] = f] \in Seq(Frames)
          /\ Len([stack EXCEPT ![n] = f]) = Len(stack)
          /\ [stack EXCEPT ![n] = f][n] = f
      BY <1>2, <3>2, ExceptSeq
    <3>6. PICK w \in Seq(Frames) : w = stack' /\ w # <<>> /\ w[Len(w)] = f
      <4>1. stack' \in Seq(Frames) /\ Len(stack') = n /\ stack'[n] = f
        BY <3>2, <3>4, <3>5
      <4>2. stack' # <<>>
        BY <3>2, <4>1
      <4> QED
        BY <4>1, <4>2
    <3>7. Innermost(w) = key
      BY <3>3, <3>6, InnermostIsTop
    <3>8. InnermostKey' = Innermost(stack')
      BY DEF InnermostKey, Innermost
    <3> QED
      BY <3>1, <3>6, <3>7, <3>8 DEF KeyIsCurrent
  <2> QED
    BY <2>1, <2>2, <2>3, <2>4
<1>5. ConfShape'
  BY <1>1, <1>4 DEF ConfInv, ConfShape
<1>6. NoParser'
  BY <1>1 DEF NoParser
<1> QED
  BY <1>1, <1>4, <1>5, <1>6 DEF ConfInv

\* What every scalar does to the parser.
LEMMA ScalarStep ==
    ASSUME ConfInv, Scalar
    PROVE  /\ phase = "parse" /\ phase' = "parse" /\ build' = build /\ file' = file
           /\ ctx' = ctx /\ stack' \in Seq(Frames) /\ KeyIsCurrent' /\ NoParser'
<1>1. /\ phase = "parse" /\ phase' = "parse" /\ build' = build /\ file' = file /\ ctx' = ctx
      /\ stack' = AfterValue(stack) /\ whole' = (stack = <<>>) /\ ValueExpected
  BY DEF Scalar, ValueExpected
<1>2. stack \in Seq(Frames) /\ stack' \in Seq(Frames)
  BY <1>1, AfterValueIs DEF ConfInv, ConfShape
<1>3. KeyIsCurrent'
  <2>1. CASE stack = <<>>
    BY <1>1, <2>1 DEF KeyIsCurrent, ValueExpected
  <2>2. CASE stack # <<>> /\ stack[Len(stack)].kind = "map"
    <3>1. Top'.kind = "map" /\ Top'.key = NULL
      BY <1>1, <1>2, <2>2, AfterValueIs DEF Top
    <3> QED
      BY <3>1 DEF KeyIsCurrent, ValueExpected
  <2>3. CASE stack # <<>> /\ stack[Len(stack)].kind # "map"
    <3>1. stack' = stack
      BY <1>1, <1>2, <2>3, AfterValueIs
    <3>2. InnermostKey' = InnermostKey
      BY <3>1 DEF InnermostKey
    <3> QED
      BY <1>1, <3>2 DEF KeyIsCurrent, ConfInv
  <2> QED
    BY <2>1, <2>2, <2>3
<1>4. NoParser'
  BY <1>1 DEF NoParser
<1> QED
  BY <1>1, <1>2, <1>3, <1>4

\* The values: yajl_null, yajl_boolean, yajl_number and yajl_string.
LEMMA ValueStep ==
    ASSUME ConfInv,
           \/ yajl_null \/ \E val \in BOOLEAN : yajl_boolean(val)
           \/ \E n \in Numbers : yajl_number(n)
           \/ \E str \in Strings : yajl_string(str)
    PROVE  ConfInv'
<1>1. Scalar
  BY DEF yajl_null, yajl_boolean, yajl_number, yajl_string
<1>2. /\ phase = "parse" /\ phase' = "parse" /\ build' = build /\ file' = file
      /\ ctx' = ctx /\ stack' \in Seq(Frames) /\ KeyIsCurrent' /\ NoParser'
  BY <1>1, ScalarStep
<1> DEFINE Sound == OptsInv(opts, given.ports, given.addrs, anyPorts, overflow, TRUE)
<1>3. Sound /\ opts \in Records /\ given \in [ports : SUBSET InRange, addrs : SUBSET Strings]
      /\ anyPorts \in Seq(InRange)
  BY <1>2 DEF ConfInv, ConfShape
<1>4. SUFFICES /\ opts' \in Records /\ given' \in [ports : SUBSET InRange, addrs : SUBSET Strings]
               /\ anyPorts' \in Seq(InRange) /\ Sound'
  BY <1>2 DEF ConfInv, ConfShape
<1> HIDE DEF Sound
<1>5. Kept(opts, opts)
  BY <1>3 DEF Kept
<1>6. CASE yajl_null
  BY <1>3, <1>6 DEF yajl_null, Sound
<1>7. ASSUME NEW val \in BOOLEAN, yajl_boolean(val)
      PROVE  /\ opts' \in Records /\ given' \in [ports : SUBSET InRange, addrs : SUBSET Strings]
             /\ anyPorts' \in Seq(InRange) /\ Sound'
  <2>1. given' = given /\ anyPorts' = anyPorts /\ overflow' = overflow
    BY <1>7 DEF yajl_boolean
  <2>2. Kept(opts, opts')
    <3>1. CASE ctx = NULL
      BY <1>5, <1>7, <3>1 DEF yajl_boolean
    <3>2. CASE ctx # NULL
      BY <1>3, <1>7, <3>2, BooleanKeeps DEF yajl_boolean
    <3> QED
      BY <3>1, <3>2
  <2>3. OptsInv(opts', given.ports, given.addrs, anyPorts, overflow, TRUE)
    BY <1>3, <2>2, KeptSound DEF Sound
  <2> QED
    BY <1>3, <2>1, <2>2, <2>3 DEF Kept, Sound
<1>8. ASSUME NEW n \in Numbers, yajl_number(n)
      PROVE  /\ opts' \in Records /\ given' \in [ports : SUBSET InRange, addrs : SUBSET Strings]
             /\ anyPorts' \in Seq(InRange) /\ Sound'
  <2>1. /\ anyPorts' = anyPorts /\ given' = [given EXCEPT !.ports = @ \cup ({n} \cap InRange)]
        /\ overflow' = (overflow \/ Overflows(opts, ctx, n))
    BY <1>8 DEF yajl_number
  <2>2. /\ given' \in [ports : SUBSET InRange, addrs : SUBSET Strings]
        /\ given'.ports = given.ports \cup ({n} \cap InRange) /\ given'.addrs = given.addrs
    BY <1>3, <2>1
  <2>3. Numbered(opts, opts', n) /\ (~Overflows(opts, ctx, n) => opts'.addr_family = opts.addr_family)
    <3>1. CASE ctx = NULL
      <4>1. opts' = opts
        BY <1>8, <3>1 DEF yajl_number
      <4> QED
        BY <1>3, <4>1 DEF Numbered
    <3>2. CASE ctx # NULL
      BY <1>3, <1>8, <3>2, NumberStored DEF yajl_number
    <3> QED
      BY <3>1, <3>2
  <2>4. OptsInv(opts', given.ports \cup ({n} \cap InRange), given.addrs, anyPorts,
                overflow \/ Overflows(opts, ctx, n), TRUE)
    BY <1>3, <2>3, NumberSound DEF Sound
  <2> QED
    BY <1>3, <2>1, <2>2, <2>3, <2>4 DEF Numbered, Sound
<1>9. ASSUME NEW str \in Strings, yajl_string(str)
      PROVE  /\ opts' \in Records /\ given' \in [ports : SUBSET InRange, addrs : SUBSET Strings]
             /\ anyPorts' \in Seq(InRange) /\ Sound'
  <2>1. PICK B : B = given.addrs \cup (IF ctx = "ListenAddress" \/ ctx = "PeerAddress"
                                        THEN {str} ELSE {})
    OBVIOUS
  <2>2. /\ overflow' = overflow /\ given' = [given EXCEPT !.addrs = B]
        /\ anyPorts' = IF ctx = "ListenAddress" /\ str = "any" THEN Used(opts.ports) ELSE anyPorts
    BY <1>9, <2>1 DEF yajl_string
  <2>3. /\ given' \in [ports : SUBSET InRange, addrs : SUBSET Strings]
        /\ given'.ports = given.ports /\ given'.addrs = B
    BY <1>3, <2>1, <2>2
  <2>4. Strung(opts, opts', ctx, str)
    <3>1. CASE ctx = NULL
      <4>1. opts' = opts /\ ctx # "ListenAddress"
        BY <1>9, <3>1 DEF yajl_string, NULL
      <4> QED
        BY <1>3, <1>5, <4>1, KeptIsStrung
    <3>2. CASE ctx # NULL
      BY <1>3, <1>9, <3>2, StringStored DEF yajl_string
    <3> QED
      BY <3>1, <3>2
  <2>5. OptsInv(opts', given.ports, B, anyPorts', overflow, TRUE)
    BY <1>3, <2>1, <2>2, <2>4, StringSound DEF Sound
  <2>6. Used(opts.ports) \in Seq(InRange)
    BY <1>3, UsedPorts DEF Records
  <2>7. anyPorts' \in Seq(InRange)
    BY <1>3, <2>2, <2>6
  <2> QED
    BY <2>2, <2>3, <2>4, <2>5, <2>7 DEF Strung, Sound
<1> QED
  BY <1>6, <1>7, <1>8, <1>9

\* Where main goes on.
LEMMA ReturnIs ==
    ASSUME ConfShape, NEW ret
    PROVE  Return(ret) \in {"server", "exit", "getopt"}
BY DEF ConfShape, Return

\* main between the files, and tnt_parse_file when it fails.
LEMMA MainStep ==
    ASSUME ConfInv,
           \/ \E ret \in {0, -1} : parse_file_fails(ret)
           \/ getopt_d \/ getopt_f \/ usage \/ getopt_end
    PROVE  ConfInv'
<1>1. /\ build' = build /\ opts' = opts /\ given' = given /\ anyPorts' = anyPorts
      /\ overflow' = overflow /\ stack' = stack /\ whole' = whole /\ nvalues' = nvalues
      /\ ctx' = ctx /\ phase # "parse"
  BY DEF parse_file_fails, getopt_d, getopt_f, usage, getopt_end, yajl, history
<1>2. phase' \in {"open", "getopt", "server", "exit"} /\ file' \in 1..MaxFiles
  BY ReturnIs, ConfAssumption DEF ConfInv, ConfShape, parse_file_fails, getopt_d, getopt_f, usage,
     getopt_end
<1>3. ConfShape'
  BY <1>1, <1>2 DEF ConfInv, ConfShape
<1>4. NoParser' /\ KeyIsCurrent'
  BY <1>1, <1>2 DEF ConfInv, NoParser, KeyIsCurrent, ValueExpected
<1>5. (phase = "parse") = FALSE /\ (phase = "parse")' = FALSE
  BY <1>1, <1>2
<1> QED
  BY <1>1, <1>3, <1>4, <1>5 DEF ConfInv

\* tnt_parse_buf starts.
LEMMA BeginStep ==
    ASSUME ConfInv, parse_buf_begins
    PROVE  ConfInv'
<1>1. /\ build' = build /\ file' = file /\ opts' = Options(TRUE) /\ given' = NothingGiven
      /\ anyPorts' = <<>> /\ overflow' = FALSE /\ stack' = stack /\ ctx' = ctx /\ phase' = "parse"
      /\ phase # "parse"
  BY DEF parse_buf_begins, init_options, yajl
<1>2. ConfShape'
  <2>1. NothingGiven \in [ports : SUBSET InRange, addrs : SUBSET Strings]
    BY DEF NothingGiven
  <2>2. <<>> \in Seq(InRange)
    OBVIOUS
  <2> QED
    BY <1>1, <2>1, <2>2, OptionsAre DEF ConfInv, ConfShape
<1>3. NoParser' /\ KeyIsCurrent'
  BY <1>1 DEF ConfInv, NoParser, KeyIsCurrent
<1>4. NothingGiven.ports = {} /\ NothingGiven.addrs = {}
  BY DEF NothingGiven
<1>5. (phase = "parse")' = TRUE
  BY <1>1
<1>6. OptsInv(opts', given'.ports, given'.addrs, anyPorts', overflow', TRUE)
  BY <1>1, <1>4, OptionsAre
<1> QED
  BY <1>2, <1>3, <1>5, <1>6 DEF ConfInv

\* tnt_parse_buf ends, well or not.
LEMMA EndStep ==
    ASSUME ConfInv, parse_buf_fails \/ parse_buf_ends \/ next_piece
    PROVE  ConfInv'
<1>1. /\ phase = "parse" /\ phase' \in {"open", "getopt", "server", "exit"}
      /\ build' = build /\ file' \in 1..MaxFiles /\ yajl_free
      /\ given' = given /\ anyPorts' = anyPorts /\ overflow' = overflow
  BY ReturnIs, ConfAssumption DEF ConfInv, ConfShape, parse_buf_fails, parse_buf_ends, next_piece,
     ParseBufEnds, history
<1>2. OptsInv(opts, given.ports, given.addrs, anyPorts, overflow, TRUE) /\ opts \in Records
  BY <1>1 DEF ConfInv, ConfShape
<1>3. opts' \in Records /\ OptsInv(opts', given.ports, given.addrs, anyPorts, overflow, FALSE)
  <2>1. CASE parse_buf_fails
    <3>1. opts' = opts
      BY <2>1 DEF parse_buf_fails
    <3> QED
      BY <1>2, <3>1, KeptSound DEF Kept
  <2>2. CASE parse_buf_ends \/ next_piece
    <3>1. opts' = [opts EXCEPT !.ports[1] = IF @ = -1 THEN DEFAULT_PORT ELSE @,
                               !.cports[1] = IF @ = -1 THEN CLIENT_DEFAULT_PORT ELSE @]
      BY <2>2 DEF parse_buf_ends, next_piece, ParseBufEnds
    <3> QED
      BY <1>2, <3>1, EndsSound
  <2> QED
    BY <2>1, <2>2
<1>4. ConfShape'
  <2>1. <<>> \in Seq(Frames)
    OBVIOUS
  <2> QED
    BY <1>1, <1>3, <2>1 DEF ConfInv, ConfShape, yajl_free
<1>5. NoParser' /\ KeyIsCurrent'
  BY <1>1 DEF NoParser, KeyIsCurrent, yajl_free
<1>6. (phase = "parse")' = FALSE
  BY <1>1
<1> QED
  BY <1>1, <1>3, <1>4, <1>5, <1>6 DEF ConfInv

\* Every step of Conf keeps its invariant.
LEMMA ConfInvStep ==
    ASSUME ConfInv, ConfNext
    PROVE  ConfInv'
<1>1. \/ yajl_start_map \/ yajl_start_array \/ yajl_end_map \/ yajl_end_array
      \/ \E key \in Keys : yajl_map_key(key)
      \/ yajl_null \/ \E val \in BOOLEAN : yajl_boolean(val)
      \/ \E n \in Numbers : yajl_number(n)
      \/ \E str \in Strings : yajl_string(str)
      \/ \E ret \in {0, -1} : parse_file_fails(ret)
      \/ getopt_d \/ getopt_f \/ usage \/ getopt_end
      \/ parse_buf_begins \/ parse_buf_fails \/ parse_buf_ends \/ next_piece
  BY DEF ConfNext
<1> QED
  BY <1>1, StructureStep, ValueStep, MainStep, BeginStep, EndStep

\* A step of the server leaves the configuration alone.
LEMMA ConfInvStutter ==
    ASSUME ConfInv, UNCHANGED confvars
    PROVE  ConfInv'
<1>1. /\ build' = build /\ phase' = phase /\ file' = file /\ stack' = stack /\ whole' = whole
      /\ nvalues' = nvalues /\ ctx' = ctx /\ opts' = opts /\ given' = given
      /\ anyPorts' = anyPorts /\ overflow' = overflow
  BY DEF confvars, yajl, history
<1>2. ConfShape' /\ NoParser'
  BY <1>1 DEF ConfInv, ConfShape, NoParser
<1>3. KeyIsCurrent'
  BY <1>1 DEF ConfInv, KeyIsCurrent, ValueExpected, InnermostKey, Top
<1> QED
  BY <1>1, <1>2, <1>3 DEF ConfInv

\* The invariant is what the properties need.
LEMMA ConfInvSound == ConfInv => OptionsSound
<1> SUFFICES ASSUME ConfInv
             PROVE  OptionsSound
  OBVIOUS
<1>1. /\ DOMAIN opts.ports = 1..MAX_PORTS
      /\ DOMAIN opts.listen_addrs = 1..Len(opts.listen_addrs)
      /\ DOMAIN opts.client_addrs = 1..Len(opts.client_addrs)
      /\ DOMAIN anyPorts = 1..Len(anyPorts)
  <2>1. /\ opts.ports \in Tables /\ opts.listen_addrs \in Seq(Addresses)
        /\ opts.client_addrs \in Seq(Addresses) /\ anyPorts \in Seq(InRange)
    BY DEF ConfInv, ConfShape, Records
  <2> QED
    BY <2>1 DEF Tables
<1>2. KeyIsCurrent
  BY DEF ConfInv
<1>3. OptionsFromThisFile
  BY <1>1 DEF ConfInv, OptsInv, AddressesNamed, OptionsFromThisFile, Elems
<1>4. AnyCoversEarlierPorts
  BY <1>1 DEF ConfInv, OptsInv, AnyCoversEarlierPorts, Elems
<1> QED
  BY <1>2, <1>3, <1>4 DEF OptionsSound

\* And the types of the options.
LEMMA ConfInvTyped == ConfInv => ConfTypeOK
<1> SUFFICES ASSUME ConfInv
             PROVE  ConfTypeOK
  OBVIOUS
<1>1. /\ opts.ports \in Tables /\ opts.cports \in Tables /\ opts.tunnel \in 0..2
      /\ opts.addr_family \in InRange /\ opts.listen_addrs \in Seq(Addresses)
      /\ opts.client_addrs \in Seq(Addresses) /\ opts.peer_addrs \in Seq(Addresses)
  BY DEF ConfInv, ConfShape, Records
<1>2. Elems(opts.ports) \cup Elems(opts.cports) \subseteq Ports
  BY <1>1 DEF Elems, Tables
<1>3. \A v \in Seq(Addresses) : Elems(v) \subseteq Addresses
  BY DEF Elems
<1> QED
  BY <1>1, <1>2, <1>3 DEF ConfInv, ConfShape, ConfTypeOK

-----------------------------------------------------------------------------

(* server_init and server_set_device *)

Listeners == [addr : Addresses, kind : {"peer", "client"}, enabled : BOOLEAN]

ServerShape ==
    /\ step \in {"start", "listen", "client", "ready", "nodevice", "run", "down"}
    /\ server_ctx \in BOOLEAN /\ device_ip \in BOOLEAN /\ it \in Nat \ {0}
    /\ srv_list \in Seq(Listeners) /\ bound \subseteq Addresses
    /\ udp \in {"garbage", "NULL", "open"} /\ udp_addr \in Addresses \cup {NoAddr}
    /\ failures \in 0..MaxFailures

\* The two properties of the sockets over any list of listeners.
Waiting(s, at) ==
    at \notin {"run", "down"} =>
        \A i \in 1..Len(s) : s[i].kind = "peer" => ~s[i].enabled
Beside(s, sock, a) ==
    sock = "open" =>
        \E i \in 1..Len(s) : /\ s[i].kind = "peer" /\ s[i].addr = a
                             /\ \A j \in 1..Len(s) : s[j].kind = "peer" => j <= i

\* The inductive invariant of Startup.
StartupInv ==
    ConfInv /\ ServerShape /\ Waiting(srv_list, step) /\ Beside(srv_list, udp, udp_addr)

\* server_init has not begun.
LEMMA StartupInvInit == StartupInit => StartupInv
<1> SUFFICES ASSUME StartupInit
             PROVE  StartupInv
  OBVIOUS
<1>1. <<>> \in Seq(Listeners) /\ 1..Len(<<>>) = {}
  OBVIOUS
<1>2. ServerShape
  <2>1. 0 \in 0..MaxFailures /\ 1 \in Nat \ {0}
    BY StartupAssumption
  <2> QED
    BY <1>1, <2>1 DEF StartupInit, ServerShape
<1>3. Waiting(srv_list, step)
  BY <1>1 DEF StartupInit, Waiting
<1>4. Beside(srv_list, udp, udp_addr)
  BY DEF StartupInit, Beside
<1> QED
  BY <1>2, <1>3, <1>4, ConfInvInit DEF StartupInit, StartupInv

\* A disabled listener for daemons with a socket beside it.
LEMMA PeerAdded ==
    ASSUME NEW s \in Seq(Listeners), NEW a \in Addresses, Waiting(s, "listen")
    PROVE  /\ s \o <<Listener(a, "peer", FALSE)>> \in Seq(Listeners)
           /\ Waiting(s \o <<Listener(a, "peer", FALSE)>>, "listen")
           /\ Beside(s \o <<Listener(a, "peer", FALSE)>>, "open", a)
<1>1. PICK l \in Listeners : /\ l = Listener(a, "peer", FALSE) /\ l.kind = "peer"
                             /\ l.addr = a /\ l.enabled = FALSE
  <2>1. [addr |-> a, kind |-> "peer", enabled |-> FALSE] \in Listeners
    BY DEF Listeners
  <2> QED
    BY <2>1 DEF Listener
<1>2. PICK n \in Nat : n = Len(s)
  OBVIOUS
<1>3. <<l>> \in Seq(Listeners) /\ Len(<<l>>) = 1 /\ <<l>>[1] = l
  OBVIOUS
<1>4. /\ s \o <<l>> \in Seq(Listeners) /\ Len(s \o <<l>>) = Len(s) + Len(<<l>>)
      /\ \A i \in 1..(Len(s) + Len(<<l>>)) :
           (s \o <<l>>)[i] = IF i <= Len(s) THEN s[i] ELSE <<l>>[i - Len(s)]
  BY <1>3, ConcatProperties
<1>5. PICK w \in Seq(Listeners) : /\ w = s \o <<l>> /\ Len(w) = n + 1 /\ w[n + 1] = l
                                  /\ \A i \in 1..n : w[i] = s[i]
  <2>1. n + 1 \in 1..(Len(s) + Len(<<l>>)) /\ ~(n + 1 <= Len(s)) /\ (n + 1) - Len(s) = 1
    BY <1>2, <1>3
  <2>2. (s \o <<l>>)[n + 1] = l
    BY <1>3, <1>4, <2>1
  <2>3. \A i \in 1..n : i \in 1..(Len(s) + Len(<<l>>)) /\ i <= Len(s)
    BY <1>2, <1>3
  <2> QED
    BY <1>2, <1>3, <1>4, <2>2, <2>3
<1>6. \A i \in 1..(n + 1) : i \in 1..n \/ i = n + 1
  BY <1>2
<1>7. Waiting(w, "listen")
  BY <1>1, <1>2, <1>5, <1>6 DEF Waiting
<1>8. Beside(w, "open", a)
  <2>1. n + 1 \in 1..(n + 1) /\ \A j \in 1..(n + 1) : j <= n + 1
    BY <1>2
  <2> QED
    BY <1>1, <1>5, <2>1 DEF Beside
<1> QED
  BY <1>1, <1>5, <1>7, <1>8

\* A listener for clients.
LEMMA ClientAdded ==
    ASSUME NEW s \in Seq(Listeners), NEW a \in Addresses, NEW sock, NEW b,
           Waiting(s, "client"), Beside(s, sock, b)
    PROVE  /\ Append(s, Listener(a, "client", TRUE)) \in Seq(Listeners)
           /\ Waiting(Append(s, Listener(a, "client", TRUE)), "client")
           /\ Beside(Append(s, Listener(a, "client", TRUE)), sock, b)
<1>1. PICK l \in Listeners : l = Listener(a, "client", TRUE) /\ l.kind = "client"
  <2>1. [addr |-> a, kind |-> "client", enabled |-> TRUE] \in Listeners
    BY DEF Listeners
  <2> QED
    BY <2>1 DEF Listener
<1>2. PICK n \in Nat : n = Len(s)
  OBVIOUS
<1>3. /\ Append(s, l) \in Seq(Listeners) /\ Len(Append(s, l)) = Len(s) + 1
      /\ \A i \in 1..Len(s) : Append(s, l)[i] = s[i]
      /\ Append(s, l)[Len(s) + 1] = l
  BY AppendProperties
<1>4. PICK w \in Seq(Listeners) : /\ w = Append(s, l) /\ Len(w) = n + 1 /\ w[n + 1] = l
                                  /\ \A i \in 1..n : w[i] = s[i]
  BY <1>2, <1>3
<1>5. \A i \in 1..(n + 1) : i \in 1..n \/ i = n + 1
  BY <1>2
<1>6. \A i \in 1..n : i \in 1..(n + 1)
  BY <1>2
<1>7. Waiting(w, "client")
  <2>1. \A i \in 1..n : s[i].kind = "peer" => ~s[i].enabled
    BY <1>2 DEF Waiting
  <2>2. \A i \in 1..(n + 1) : w[i].kind = "peer" => i \in 1..n /\ w[i] = s[i]
    BY <1>1, <1>4, <1>5
  <2> QED
    BY <1>4, <2>1, <2>2 DEF Waiting
<1>8. Beside(w, sock, b)
  <2>1. SUFFICES ASSUME sock = "open"
                 PROVE  \E i \in 1..Len(w) : /\ w[i].kind = "peer" /\ w[i].addr = b
                                            /\ \A j \in 1..Len(w) : w[j].kind = "peer" => j <= i
    BY DEF Beside
  <2>2. PICK i \in 1..n : /\ s[i].kind = "peer" /\ s[i].addr = b
                          /\ \A j \in 1..n : s[j].kind = "peer" => j <= i
    BY <1>2, <2>1 DEF Beside
  <2>3. i \in 1..(n + 1) /\ w[i].kind = "peer" /\ w[i].addr = b
    BY <1>4, <1>6, <2>2
  <2>4. ASSUME NEW j \in 1..(n + 1), w[j].kind = "peer"
        PROVE  j <= i
    <3>1. j # n + 1
      BY <1>1, <1>4, <2>4
    <3>2. j \in 1..n
      BY <1>5, <3>1
    <3> QED
      BY <1>4, <2>2, <2>4, <3>2
  <2> QED
    BY <1>4, <2>3, <2>4
<1> QED
  BY <1>1, <1>4, <1>7, <1>8

\* server_set_device enables every listener.
LEMMA AllEnabled ==
    ASSUME srv_list \in Seq(Listeners), Beside(srv_list, udp, udp_addr)
    PROVE  Enabled \in Seq(Listeners) /\ Beside(Enabled, udp, udp_addr)
<1>1. PICK s \in Seq(Listeners) : s = srv_list
  OBVIOUS
<1>2. PICK n \in Nat : n = Len(s) /\ DOMAIN s = 1..n /\ \A i \in 1..n : s[i] \in Listeners
  OBVIOUS
<1>3. ASSUME NEW l \in Listeners
      PROVE  /\ [l EXCEPT !.enabled = TRUE] \in Listeners
             /\ [l EXCEPT !.enabled = TRUE].kind = l.kind
             /\ [l EXCEPT !.enabled = TRUE].addr = l.addr
  BY DEF Listeners
<1>4. PICK w : w = [i \in 1..n |-> [s[i] EXCEPT !.enabled = TRUE]]
  OBVIOUS
<1>5. Enabled = w
  BY <1>1, <1>2, <1>4 DEF Enabled
<1>6. \A i \in 1..n : w[i] \in Listeners /\ w[i].kind = s[i].kind /\ w[i].addr = s[i].addr
  BY <1>2, <1>3, <1>4
<1>7. w \in Seq(Listeners) /\ Len(w) = n
  BY <1>2, <1>4, <1>6
<1>8. Beside(s, udp, udp_addr)
  BY <1>1
<1>9. Beside(w, udp, udp_addr)
  BY <1>2, <1>6, <1>7, <1>8 DEF Beside
<1> QED
  BY <1>5, <1>7, <1>9

\* What the loops read is an address.
LEMMA AddressRead ==
    ASSUME ConfInv, ServerShape
    PROVE  /\ it <= Len(opts.listen_addrs) => opts.listen_addrs[it] \in Addresses
           /\ it <= Len(opts.client_addrs) => opts.client_addrs[it] \in Addresses
<1>1. PICK l \in Seq(Addresses) : l = opts.listen_addrs
  BY DEF ConfInv, ConfShape, Records
<1>2. PICK c \in Seq(Addresses) : c = opts.client_addrs
  BY DEF ConfInv, ConfShape, Records
<1>3. it \in Nat /\ it >= 1
  BY DEF ServerShape
<1> QED
  BY <1>1, <1>2, <1>3

\* Steps that leave the sockets alone and do not go back.
LEMMA SameSockets ==
    ASSUME StartupInv, UNCHANGED <<confvars, srv_list, bound, udp, udp_addr, device_ip>>,
           server_ctx' \in BOOLEAN, it' \in Nat \ {0}, failures' \in 0..MaxFailures,
           step \in {"run", "down"} => step' = step,
           step' \in {"start", "listen", "client", "ready", "nodevice", "run", "down"}
    PROVE  StartupInv'
<1>1. ConfInv'
  BY ConfInvStutter DEF StartupInv
<1>2. ServerShape'
  BY DEF StartupInv, ServerShape
<1>3. Waiting(srv_list, step)' /\ Beside(srv_list, udp, udp_addr)'
  BY DEF StartupInv, Waiting, Beside
<1> QED
  BY <1>1, <1>2, <1>3 DEF StartupInv

\* server_start, the ends of the loops, an address that cannot be bound and a
\* device that cannot be opened.
LEMMA ProgressStep ==
    ASSUME StartupInv,
           \/ \E loaded \in BOOLEAN : server_start(loaded)
           \/ listen_done \/ client_done \/ tnt_ttc_open_fails
           \/ bind_fails(opts.listen_addrs, "listen") \/ bind_fails(opts.client_addrs, "client")
    PROVE  StartupInv'
<1>1. /\ server_ctx \in BOOLEAN /\ it \in Nat \ {0} /\ it + 1 \in Nat \ {0}
      /\ failures \in 0..MaxFailures /\ (failures < MaxFailures => failures + 1 \in 0..MaxFailures)
  BY StartupAssumption DEF StartupInv, ServerShape
<1>2. ASSUME NEW loaded \in BOOLEAN, server_start(loaded)
      PROVE  StartupInv'
  BY <1>1, <1>2, SameSockets DEF server_start
<1>3. CASE listen_done
  BY <1>1, <1>3, SameSockets DEF listen_done
<1>4. CASE client_done
  BY <1>1, <1>4, SameSockets DEF client_done
<1>5. CASE tnt_ttc_open_fails
  BY <1>1, <1>5, SameSockets DEF tnt_ttc_open_fails
<1>6. CASE bind_fails(opts.listen_addrs, "listen")
  BY <1>1, <1>6, SameSockets DEF bind_fails, BindFails
<1>7. CASE bind_fails(opts.client_addrs, "client")
  BY <1>1, <1>7, SameSockets DEF bind_fails, BindFails
<1> QED
  BY <1>2, <1>3, <1>4, <1>5, <1>6, <1>7

\* The loop over listen_addrs.
LEMMA ListenStep ==
    ASSUME StartupInv, server_init_listen \/ server_udp_new_fails
    PROVE  StartupInv'
<1>1. /\ UNCHANGED <<confvars, step, server_ctx, device_ip>> /\ step = "listen" /\ it' = it + 1
      /\ it <= Len(opts.listen_addrs) /\ bound' = bound \cup {opts.listen_addrs[it]}
  BY DEF server_init_listen, server_udp_new_fails, ListenOn
<1>2. PICK a \in Addresses : a = opts.listen_addrs[it]
  BY <1>1, AddressRead DEF StartupInv
<1>3. PICK s \in Seq(Listeners) : s = srv_list /\ Waiting(s, "listen")
  BY <1>1 DEF StartupInv, ServerShape
<1>4. ConfInv'
  BY <1>1, ConfInvStutter DEF StartupInv
<1>5. step' = "listen" /\ it' \in Nat \ {0} /\ bound' \subseteq Addresses
  BY <1>1, <1>2 DEF StartupInv, ServerShape
<1>6. failures' \in 0..MaxFailures
  <2>1. failures \in 0..MaxFailures
    BY DEF StartupInv, ServerShape
  <2>2. failures' = failures \/ (failures < MaxFailures /\ failures' = failures + 1)
    BY DEF server_init_listen, server_udp_new_fails, tnt_udp_socket_fails
  <2> QED
    BY <2>1, <2>2, StartupAssumption
<1>7. /\ srv_list' \in Seq(Listeners) /\ udp' \in {"NULL", "open"}
      /\ udp_addr' \in Addresses \cup {NoAddr} /\ Waiting(srv_list', "listen")
      /\ Beside(srv_list', udp', udp_addr')
  <2>1. CASE server_init_listen
    <3>1. srv_list' = s \o <<Listener(a, "peer", FALSE)>> /\ udp' = "open" /\ udp_addr' = a
      BY <1>2, <1>3, <2>1 DEF server_init_listen, ListenOn, PeerListener
    <3> QED
      BY <1>3, <3>1, PeerAdded
  <2>2. CASE server_udp_new_fails
    <3>1. s \o <<>> = s
      BY <1>3
    <3>2. srv_list' = s /\ udp' = "NULL" /\ udp_addr' = NoAddr
      BY <1>3, <2>2, <3>1 DEF server_udp_new_fails, ListenOn
    <3> QED
      BY <1>3, <3>2 DEF Beside
  <2> QED
    BY <2>1, <2>2
<1>8. ServerShape'
  BY <1>1, <1>5, <1>6, <1>7 DEF StartupInv, ServerShape
<1> QED
  BY <1>4, <1>5, <1>7, <1>8 DEF StartupInv

\* The loop over client_addrs.
LEMMA ClientStep ==
    ASSUME StartupInv, server_init_client
    PROVE  StartupInv'
<1>1. /\ UNCHANGED <<confvars, step, server_ctx, device_ip, udp, udp_addr, failures>>
      /\ step = "client" /\ it' = it + 1
      /\ it <= Len(opts.client_addrs) /\ bound' = bound \cup {opts.client_addrs[it]}
  BY DEF server_init_client
<1>2. PICK a \in Addresses : a = opts.client_addrs[it]
  BY <1>1, AddressRead DEF StartupInv
<1>3. PICK s \in Seq(Listeners) : s = srv_list /\ Waiting(s, "client") /\ Beside(s, udp, udp_addr)
  BY <1>1 DEF StartupInv, ServerShape
<1>4. ConfInv'
  BY <1>1, ConfInvStutter DEF StartupInv
<1>5. step' = "client" /\ it' \in Nat \ {0} /\ bound' \subseteq Addresses
  BY <1>1, <1>2 DEF StartupInv, ServerShape
<1>6. srv_list' = Append(s, Listener(a, "client", TRUE))
  BY <1>2, <1>3 DEF server_init_client
<1>7. /\ srv_list' \in Seq(Listeners) /\ Waiting(srv_list', "client")
      /\ Beside(srv_list', udp, udp_addr)
  BY <1>3, <1>6, ClientAdded
<1>8. ServerShape'
  BY <1>1, <1>5, <1>7 DEF StartupInv, ServerShape
<1> QED
  BY <1>1, <1>4, <1>5, <1>7, <1>8 DEF StartupInv

\* The device is there.
LEMMA DeviceStep ==
    ASSUME StartupInv, set_device_unix \/ set_device_wnt
    PROVE  StartupInv'
<1>1. /\ UNCHANGED <<confvars, server_ctx, it, bound, udp, udp_addr, failures>>
      /\ srv_list' \in {srv_list, Enabled} /\ device_ip' \in BOOLEAN
  <2>1. CASE set_device_unix
    BY <2>1 DEF set_device_unix
  <2>2. CASE set_device_wnt
    BY <2>2 DEF set_device_wnt, HasMask
  <2> QED
    BY <2>1, <2>2
<1>2. step' \in {"run", "down"}
  <2>1. Launched \subseteq {"run", "down"}
    BY DEF Launched
  <2> QED
    BY <2>1 DEF set_device_unix, set_device_wnt
<1>3. srv_list' \in Seq(Listeners) /\ Beside(srv_list', udp, udp_addr)
  BY <1>1, AllEnabled DEF StartupInv, ServerShape
<1>4. ConfInv'
  BY <1>1, ConfInvStutter DEF StartupInv
<1>5. ServerShape'
  BY <1>1, <1>2, <1>3 DEF StartupInv, ServerShape
<1>6. Waiting(srv_list', step')
  BY <1>2 DEF Waiting
<1> QED
  BY <1>1, <1>3, <1>4, <1>5, <1>6 DEF StartupInv

\* A step of the two processes leaves all of it alone.
LEMMA StartupInvStutter ==
    ASSUME StartupInv, UNCHANGED startupVars
    PROVE  StartupInv'
<1>1. UNCHANGED <<confvars, step, server_ctx, it, srv_list, bound, udp, udp_addr, device_ip, failures>>
  BY DEF startupVars, servervars
<1> QED
  BY <1>1, SameSockets DEF StartupInv, ServerShape

\* Every step of Startup keeps its invariant.
LEMMA StartupInvStep ==
    ASSUME StartupInv, StartupNext
    PROVE  StartupInv'
<1>1. CASE ConfNext /\ UNCHANGED servervars
  <2>1. UNCHANGED <<step, server_ctx, it, srv_list, bound, udp, udp_addr, device_ip, failures>>
    BY <1>1 DEF servervars
  <2>2. ConfInv'
    BY <1>1, ConfInvStep DEF StartupInv
  <2>3. ServerShape'
    BY <2>1 DEF StartupInv, ServerShape
  <2> QED
    BY <2>1, <2>2, <2>3 DEF StartupInv
<1>2. CASE \/ \E loaded \in BOOLEAN : server_start(loaded)
           \/ listen_done \/ client_done \/ tnt_ttc_open_fails
           \/ bind_fails(opts.listen_addrs, "listen") \/ bind_fails(opts.client_addrs, "client")
  BY <1>2, ProgressStep
<1>3. CASE server_init_listen \/ server_udp_new_fails
  BY <1>3, ListenStep
<1>4. CASE server_init_client
  BY <1>4, ClientStep
<1>5. CASE set_device_unix \/ set_device_wnt
  BY <1>5, DeviceStep
<1> QED
  BY <1>1, <1>2, <1>3, <1>4, <1>5 DEF StartupNext, ServerStep

\* The invariant is what the properties need.
LEMMA StartupInvSound == StartupInv => SocketsSound /\ OptionsSound
<1> SUFFICES ASSUME StartupInv
             PROVE  SocketsSound /\ OptionsSound
  OBVIOUS
<1>1. DOMAIN srv_list = 1..Len(srv_list)
  BY DEF StartupInv, ServerShape
<1>2. PeersWaitForDevice
  BY <1>1 DEF StartupInv, Waiting, PeersWaitForDevice, PeerListeners
<1>3. UdpBesideLastListener
  BY <1>1 DEF StartupInv, Beside, UdpBesideLastListener, PeerListeners
<1> QED
  BY <1>2, <1>3, ConfInvSound DEF StartupInv, SocketsSound

----------------------------------------------------------------------------
(* The two processes *)

\* What the invariants rest on.  The exchange is one message that changes hands:
\* wherever a CREATE_DEV is, the child has no device yet; wherever a SET_IP is,
\* both have it.  Before its loop the parent has answered nothing, and neither
\* has one that a signal killed beside a living child.
Queues(pw, cw, p, c) == parent_w = pw /\ child_w = cw /\ p2c = p /\ c2p = c

Held == device_fd /\ (ParentAlive => dev = "open")

Exchange ==
    \/ Queues(<<>>, <<>>, <<>>, <<>>) /\ (device_fd => Held)
    \/ Queues(<<>>, <<"CREATE_DEV">>, <<>>, <<>>) /\ ~device_fd
    \/ Queues(<<>>, <<>>, <<>>, <<"CREATE_DEV">>) /\ ~device_fd
    \/ /\ \/ Queues(<<"CREATE_DEV">>, <<>>, <<>>, <<>>)
          \/ Queues(<<>>, <<>>, <<"CREATE_DEV">>, <<>>)
       /\ ~device_fd
       /\ ParentAlive => dev = "open"
    \/ Queues(<<>>, <<"SET_IP">>, <<>>, <<>>) /\ Held
    \/ Queues(<<>>, <<>>, <<>>, <<"SET_IP">>) /\ Held

ExchangeInv ==
    /\ Exchange
    /\ child = "init" => Queues(<<>>, <<>>, <<>>, <<>>) /\ ~device_fd
    /\ \/ parent \in {"init", "sigs", "armed"}
       \/ parent = "killed" /\ ChildAlive
       => ~device_fd /\ dev = "none" /\ parent_w = <<>> /\ p2c = <<>>

----------------------------------------------------------------------------

Messages == {"CREATE_DEV", "SET_IP"}

\* What writing and reading does to queues of at most one message.
LEMMA ShortQueues ==
    /\ Len(<<>>) = 0 /\ <<>> \o <<>> = <<>>
    /\ \A x \in Messages : /\ Append(<<>>, x) = <<x>>
                           /\ Head(<<x>>) = x /\ Tail(<<x>>) = <<>>
                           /\ <<x>> \o <<>> = <<x>> /\ <<>> \o <<x>> = <<x>>
                           /\ Len(<<x>>) = 1 /\ <<x>> # <<>>
<1>1. Len(<<>>) = 0 /\ <<>> \o <<>> = <<>>
  OBVIOUS
<1>2. ASSUME NEW x \in Messages
      PROVE  /\ Append(<<>>, x) = <<x>>
             /\ Head(<<x>>) = x /\ Tail(<<x>>) = <<>>
             /\ Len(<<x>>) = 1 /\ <<x>> # <<>>
  OBVIOUS
<1>3. ASSUME NEW x \in Messages
      PROVE  <<x>> \o <<>> = <<x>> /\ <<>> \o <<x>> = <<x>>
  OBVIOUS
<1> QED
  BY <1>1, <1>2, <1>3

\* What the handlers find in a queue.
LEMMA KindsOfQueue ==
    /\ Kinds(<<>>) = {}
    /\ \A x : Kinds(<<x>>) = {x}
BY DEF Kinds

\* The exchange starts with nothing under way and the processes just forked.
LEMMA ExchangeInit == PrivsepInit => ExchangeInv
BY DEF PrivsepInit, ExchangeInv, Exchange, Queues, ParentAlive

\* Signals, the end of a process and the initialisation of the parent move no
\* message, except that parent_exit drops the answer it has not written.
LEMMA ExchangeProcess ==
    ASSUME ExchangeInv,
           \/ child_dies \/ term_parent \/ term_child
           \/ parent_add_events \/ parent_add_sigchld \/ parent_dispatch
           \/ sig_gen_hdlr \/ parent_exit \/ write_space
    PROVE  ExchangeInv'
<1> USE DEF ExchangeInv, Exchange, Queues, Held, ParentAlive, ChildAlive, device, channel, signals
<1>1. CASE child_dies
  BY <1>1 DEF child_dies, ChildEnds
<1>2. CASE term_parent
  BY <1>2 DEF term_parent, DefaultAction
<1>3. CASE term_child
  BY <1>3 DEF term_child
<1>4. CASE parent_add_events
  BY <1>4 DEF parent_add_events
<1>5. CASE parent_add_sigchld
  BY <1>5 DEF parent_add_sigchld
<1>6. CASE parent_dispatch
  BY <1>6 DEF parent_dispatch
<1>7. CASE sig_gen_hdlr
  BY <1>7 DEF sig_gen_hdlr
<1>8. CASE parent_exit
  BY <1>8 DEF parent_exit, tnt_ttc_close
<1>9. CASE write_space
  BY <1>9 DEF write_space
<1> QED
  BY <1>1, <1>2, <1>3, <1>4, <1>5, <1>6, <1>7, <1>8, <1>9

\* The child asks for the device, and what it has queued when it exits is
\* written (child_start, chld_sighdlr).
LEMMA ExchangeChild ==
    ASSUME ExchangeInv, child_start \/ chld_sighdlr
    PROVE  ExchangeInv'
<1> USE DEF ExchangeInv, Exchange, Queues, Held, ParentAlive, ChildAlive, device, channel, signals
<1>1. CASE child_start
  BY <1>1 DEF child_start
<1>2. CASE chld_sighdlr
  BY <1>2, ShortQueues DEF chld_sighdlr, CleanExit, ChildEnds, Messages
<1> QED
  BY <1>1, <1>2

\* The handler of the parent takes a CREATE_DEV and answers it, or takes a
\* SET_IP, or writes the answer it still has.
LEMMA ExchangeParentHandler ==
    ASSUME ExchangeInv, NEW opened \in BOOLEAN, imsg_callback_handler(opened)
    PROVE  ExchangeInv'
<1> DEFINE m == Taken(parent_edge, parent_ready, c2p)
           answers == Reply(m, opened)
<1>1. /\ parent = "loop" /\ child' = child /\ child_w' = child_w /\ device_fd' = device_fd
      /\ c2p' = IF m = <<>> THEN c2p ELSE <<>>
      /\ \/ parent' = parent /\ parent_w' = answers /\ p2c' = p2c
         \/ /\ answers # <<>> /\ parent_w' = Tail(answers)
            /\ ChildAlive => parent' = parent /\ p2c' = Append(p2c, Head(answers))
            /\ ~ChildAlive => parent' = "killed" /\ p2c' = p2c
  BY DEF imsg_callback_handler
<1>2. m \in {<<>>, c2p}
  BY DEF Taken
<1>3. dev' = Device(m, opened)
  BY DEF imsg_callback_handler
<1>4. "CREATE_DEV" \notin Kinds(m) => answers = parent_w /\ dev' = dev
  BY <1>3 DEF Reply, Device
<1>5. "CREATE_DEV" \in Kinds(m) =>
        \/ answers = Append(parent_w, "CREATE_DEV") /\ dev' = "open"
        \/ answers = parent_w /\ dev' = "failed"
  BY <1>3 DEF Reply, Device
<1> HIDE DEF m, answers
<1>6. CASE parent_w = <<>> /\ "CREATE_DEV" \notin Kinds(m)
  <2>1. parent' = parent /\ parent_w' = <<>> /\ p2c' = p2c /\ dev' = dev
    BY <1>1, <1>4, <1>6
  <2>2. c2p' = c2p \/ (c2p' = <<>> /\ c2p # <<"CREATE_DEV">>)
    BY <1>1, <1>2, <1>6, KindsOfQueue
  <2>3. Exchange'
    BY <1>1, <2>1, <2>2 DEF ExchangeInv, Exchange, Queues, Held, ParentAlive
  <2> QED
    BY <1>1, <2>1, <2>2, <2>3 DEF ExchangeInv, Queues, ChildAlive
<1>7. CASE parent_w = <<>> /\ "CREATE_DEV" \in Kinds(m)
  <2>1. m = c2p /\ c2p # <<>>
    BY <1>2, <1>7, KindsOfQueue
  <2>2. c2p # <<"SET_IP">>
    BY <1>7, <2>1, KindsOfQueue
  <2>3. Queues(<<>>, <<>>, <<>>, <<"CREATE_DEV">>) /\ ~device_fd /\ child # "init"
    BY <2>1, <2>2 DEF ExchangeInv, Exchange, Queues
  <2>4. c2p' = <<>> /\ child_w' = <<>> /\ ~device_fd'
    BY <1>1, <2>1, <2>3 DEF Queues
  <2>5. \/ answers = <<"CREATE_DEV">> /\ dev' = "open"
        \/ answers = <<>> /\ dev' = "failed"
    BY <1>5, <1>7, ShortQueues DEF Messages
  <2>6. \/ parent_w' = <<>> /\ p2c' = <<>>
        \/ parent_w' = <<"CREATE_DEV">> /\ p2c' = <<>> /\ dev' = "open"
        \/ parent_w' = <<>> /\ p2c' = <<"CREATE_DEV">> /\ dev' = "open"
    BY <1>1, <2>3, <2>5, ShortQueues DEF Messages, Queues
  <2>7. Exchange'
    BY <2>4, <2>6 DEF Exchange, Queues
  <2> QED
    BY <1>1, <2>3, <2>7 DEF ExchangeInv, ChildAlive
<1>8. CASE parent_w # <<>>
  <2>1. Queues(<<"CREATE_DEV">>, <<>>, <<>>, <<>>) /\ ~device_fd /\ dev = "open"
    BY <1>1, <1>8 DEF ExchangeInv, Exchange, Queues, ParentAlive
  <2>2. m = <<>> /\ answers = <<"CREATE_DEV">> /\ dev' = "open" /\ child # "init"
    BY <1>2, <1>4, <1>8, <2>1, KindsOfQueue DEF Queues, ExchangeInv
  <2>3. c2p' = <<>> /\ child_w' = <<>> /\ ~device_fd'
    BY <1>1, <2>1, <2>2 DEF Queues
  <2>4. \/ parent_w' = <<>> /\ p2c' = <<>>
        \/ parent_w' = <<"CREATE_DEV">> /\ p2c' = <<>>
        \/ parent_w' = <<>> /\ p2c' = <<"CREATE_DEV">>
    BY <1>1, <2>1, <2>2, ShortQueues DEF Messages, Queues
  <2>5. Exchange'
    BY <2>2, <2>3, <2>4 DEF Exchange, Queues
  <2> QED
    BY <1>1, <2>2, <2>5 DEF ExchangeInv, ChildAlive
<1> QED
  BY <1>6, <1>7, <1>8

\* The handler of the child takes the device and asks for its address, or
\* writes the request it still has.
LEMMA ExchangeChildHandler ==
    ASSUME ExchangeInv, tnt_imsg_callback
    PROVE  ExchangeInv'
<1> DEFINE m == Taken(child_edge, child_ready, p2c)
           requests == Request(m)
<1>1. /\ child = "loop" /\ child' = child /\ parent' = parent /\ parent_w' = parent_w
      /\ dev' = dev
      /\ p2c' = IF m = <<>> THEN p2c ELSE <<>>
      /\ \/ child_w' = requests /\ c2p' = c2p
         \/ requests # <<>> /\ child_w' = <<>> /\ c2p' = c2p \o requests
  BY DEF tnt_imsg_callback
<1>2. m \in {<<>>, p2c}
  BY DEF Taken
<1>3. "CREATE_DEV" \notin Kinds(m) => requests = child_w /\ (device_fd' <=> device_fd)
  BY DEF Request, tnt_imsg_callback
<1>4. "CREATE_DEV" \in Kinds(m) => requests = Append(child_w, "SET_IP") /\ device_fd'
  BY DEF Request, tnt_imsg_callback
<1> HIDE DEF m, requests
<1>5. CASE "CREATE_DEV" \notin Kinds(m)
  <2>1. p2c \in {<<>>, <<"CREATE_DEV">>}
    BY DEF ExchangeInv, Exchange, Queues
  <2>2. p2c' = p2c /\ requests = child_w /\ (device_fd' <=> device_fd)
    BY <1>1, <1>2, <1>3, <1>5, <2>1, KindsOfQueue
  <2>3. child_w # <<>> =>
          /\ child_w \in {<<"CREATE_DEV">>, <<"SET_IP">>}
          /\ parent_w = <<>> /\ p2c = <<>> /\ c2p = <<>>
    BY DEF ExchangeInv, Exchange, Queues
  <2>4. child_w # <<>> => c2p \o child_w = child_w
    BY <2>3, ShortQueues DEF Messages
  <2>5. \/ child_w' = child_w /\ c2p' = c2p
        \/ child_w # <<>> /\ child_w' = <<>> /\ c2p' = child_w
    BY <1>1, <2>2, <2>4
  <2>6. Exchange'
    BY <1>1, <2>2, <2>3, <2>5 DEF ExchangeInv, Exchange, Queues, Held, ParentAlive
  <2> QED
    BY <1>1, <2>2, <2>6 DEF ExchangeInv, ChildAlive
<1>6. CASE "CREATE_DEV" \in Kinds(m)
  <2>1. m = p2c /\ p2c # <<>>
    BY <1>2, <1>6, KindsOfQueue
  <2>2. /\ Queues(<<>>, <<>>, <<"CREATE_DEV">>, <<>>) /\ (ParentAlive => dev = "open")
        /\ parent \notin {"init", "sigs", "armed"} /\ (parent = "killed" => ~ChildAlive)
    BY <2>1 DEF ExchangeInv, Exchange, Queues
  <2>3. p2c' = <<>> /\ requests = <<"SET_IP">> /\ device_fd'
    BY <1>1, <1>4, <1>6, <2>1, <2>2, ShortQueues DEF Messages, Queues
  <2>4. \/ child_w' = <<"SET_IP">> /\ c2p' = <<>>
        \/ child_w' = <<>> /\ c2p' = <<"SET_IP">>
    BY <1>1, <2>2, <2>3, ShortQueues DEF Messages, Queues
  <2>5. Exchange'
    BY <1>1, <2>2, <2>3, <2>4 DEF Exchange, Queues, Held, ParentAlive
  <2> QED
    BY <1>1, <2>2, <2>5 DEF ExchangeInv, ChildAlive
<1> QED
  BY <1>5, <1>6

\* A step of other parts of the daemon leaves the exchange as it is.
LEMMA ExchangeStutter ==
    ASSUME ExchangeInv, UNCHANGED privsepVars
    PROVE  ExchangeInv'
BY DEF ExchangeInv, Exchange, Queues, Held, ParentAlive, ChildAlive, device,
       channel, signals, privsepVars

\* ExchangeInv implies the invariants about the messages.
LEMMA ExchangeSafe ==
    ExchangeInv => /\ OneMessageUnderWay
                   /\ AddressAfterDevice
                   /\ DeviceIsShared
                   /\ OrphanHasNoDevice
<1> SUFFICES ASSUME ExchangeInv
             PROVE  /\ OneMessageUnderWay
                    /\ AddressAfterDevice
                    /\ DeviceIsShared
                    /\ OrphanHasNoDevice
  OBVIOUS
<1>1. OneMessageUnderWay
  <2>1. \A x \in Messages : Len(<<x>>) = 1
    BY ShortQueues
  <2>2. Len(<<"CREATE_DEV">>) = 1 /\ Len(<<"SET_IP">>) = 1 /\ Len(<<>>) = 0
    BY <2>1, ShortQueues DEF Messages
  <2>3. \/ Len(parent_w) = 0 /\ Len(child_w) = 0 /\ Len(p2c) = 0 /\ Len(c2p) = 0
        \/ Len(parent_w) = 1 /\ Len(child_w) = 0 /\ Len(p2c) = 0 /\ Len(c2p) = 0
        \/ Len(parent_w) = 0 /\ Len(child_w) = 1 /\ Len(p2c) = 0 /\ Len(c2p) = 0
        \/ Len(parent_w) = 0 /\ Len(child_w) = 0 /\ Len(p2c) = 1 /\ Len(c2p) = 0
        \/ Len(parent_w) = 0 /\ Len(child_w) = 0 /\ Len(p2c) = 0 /\ Len(c2p) = 1
    BY <2>2, Zenon DEF ExchangeInv, Exchange, Queues
  <2>4. ASSUME NEW a, NEW b, NEW c, NEW d,
               \/ a = 0 /\ b = 0 /\ c = 0 /\ d = 0
               \/ a = 1 /\ b = 0 /\ c = 0 /\ d = 0
               \/ a = 0 /\ b = 1 /\ c = 0 /\ d = 0
               \/ a = 0 /\ b = 0 /\ c = 1 /\ d = 0
               \/ a = 0 /\ b = 0 /\ c = 0 /\ d = 1
        PROVE  c + d + a + b <= 1
    BY <2>4
  <2> QED
    BY <2>3, <2>4, Zenon DEF OneMessageUnderWay
<1>2. AddressAfterDevice
  BY KindsOfQueue DEF AddressAfterDevice, ExchangeInv, Exchange, Queues, Held, ParentAlive
<1>3. DeviceIsShared
  BY DEF DeviceIsShared, ExchangeInv, Exchange, Queues, Held
<1>4. OrphanHasNoDevice
  BY DEF OrphanHasNoDevice, ExchangeInv
<1> QED
  BY <1>1, <1>2, <1>3, <1>4

\* Every step of the two processes keeps ExchangeInv.
LEMMA ExchangeStep == ExchangeInv /\ [PrivsepNext]_privsepVars => ExchangeInv'
BY ExchangeProcess, ExchangeChild, ExchangeParentHandler, ExchangeChildHandler,
   ExchangeStutter DEF PrivsepNext

----------------------------------------------------------------------------
(* Types *)

\* The state of the processes without the queues.
ProcessTypes ==
    /\ parent \in ParentStates /\ child \in ChildStates /\ sigchld_recv \in BOOLEAN
    /\ caught \subseteq {"SIGTERM", "SIGCHLD"} /\ child_term \in BOOLEAN
    /\ parent_edge \subseteq Edges /\ child_edge \subseteq Edges
    /\ parent_ready \subseteq Edges /\ child_ready \subseteq Edges
    /\ dev \in {"none", "open", "failed"} /\ dev_up \in BOOLEAN /\ device_fd \in BOOLEAN
    /\ terms \in 0..MaxTerm

\* The processes have just been forked.
LEMMA ProcessTypesInit == PrivsepInit => ProcessTypes
<1>1. 0 \in 0..MaxTerm
  BY PrivsepAssumption
<1> QED
  BY <1>1 DEF PrivsepInit, ProcessTypes, ParentStates, ChildStates

\* The steps of the two processes keep the types.
LEMMA ProcessTypesStep == ProcessTypes /\ [PrivsepNext]_privsepVars => ProcessTypes'
<1> SUFFICES ASSUME ProcessTypes, [PrivsepNext]_privsepVars
             PROVE  ProcessTypes'
  OBVIOUS
<1> USE DEF ProcessTypes, ParentStates, ChildStates, device, channel, signals
<1>1. terms < MaxTerm => terms + 1 \in 0..MaxTerm
  BY PrivsepAssumption
<1>2. \A x, y : FirstEdges(x, y) \subseteq Edges
  BY DEF FirstEdges, Edges
<1>3. \A e, r \in SUBSET Edges : \A x, y : Ready(e, r, x, y) \subseteq Edges
  BY DEF Ready
<1>4. CASE child_dies
  BY <1>4 DEF child_dies, ChildEnds, Edges
<1>5. CASE term_parent
  BY <1>1, <1>5 DEF term_parent, DefaultAction, Edges
<1>6. CASE term_child
  BY <1>1, <1>6 DEF term_child
<1>7. CASE parent_add_events
  BY <1>2, <1>7 DEF parent_add_events
<1>8. CASE parent_add_sigchld
  BY <1>8 DEF parent_add_sigchld
<1>9. CASE parent_dispatch
  BY <1>9 DEF parent_dispatch
<1>10. CASE sig_gen_hdlr
  BY <1>10 DEF sig_gen_hdlr
<1>11. CASE parent_exit
  BY <1>11 DEF parent_exit, tnt_ttc_close, Edges
<1>12. ASSUME NEW opened \in BOOLEAN, imsg_callback_handler(opened)
       PROVE  ProcessTypes'
  BY <1>3, <1>12 DEF imsg_callback_handler, Device, Configured, Edges
<1>13. CASE child_start
  BY <1>2, <1>13 DEF child_start
<1>14. CASE tnt_imsg_callback
  BY <1>3, <1>14 DEF tnt_imsg_callback, Edges
<1>15. CASE chld_sighdlr
  BY <1>15 DEF chld_sighdlr, CleanExit, ChildEnds, Edges
<1>16. CASE write_space
  BY <1>16 DEF write_space, Edges
<1>17. CASE UNCHANGED privsepVars
  BY <1>17 DEF privsepVars
<1> QED
  BY <1>4, <1>5, <1>6, <1>7, <1>8, <1>9, <1>10, <1>11, <1>12, <1>13, <1>14, <1>15, <1>16, <1>17
     DEF PrivsepNext

\* The queues have the messages of the exchange.
LEMMA PrivsepTyped == ExchangeInv /\ ProcessTypes => PrivsepTypeOK
<1> SUFFICES ASSUME ExchangeInv, ProcessTypes
             PROVE  PrivsepTypeOK
  OBVIOUS
<1>1. /\ <<>> \in Seq({"CREATE_DEV"}) /\ <<"CREATE_DEV">> \in Seq({"CREATE_DEV"})
      /\ <<>> \in Seq({"CREATE_DEV", "SET_IP"}) /\ <<"CREATE_DEV">> \in Seq({"CREATE_DEV", "SET_IP"})
      /\ <<"SET_IP">> \in Seq({"CREATE_DEV", "SET_IP"})
  OBVIOUS
<1>2. /\ p2c \in {<<>>, <<"CREATE_DEV">>} /\ parent_w \in {<<>>, <<"CREATE_DEV">>}
      /\ c2p \in {<<>>, <<"CREATE_DEV">>, <<"SET_IP">>}
      /\ child_w \in {<<>>, <<"CREATE_DEV">>, <<"SET_IP">>}
  BY DEF ExchangeInv, Exchange, Queues
<1> QED
  BY <1>1, <1>2 DEF PrivsepTypeOK, ProcessTypes

\* The types of the sockets follow from their invariant.
LEMMA StartupTyped == StartupInv => StartupTypeOK
<1> SUFFICES ASSUME StartupInv
             PROVE  StartupTypeOK
  OBVIOUS
<1>1. \A i \in DOMAIN srv_list : srv_list[i] \in Listeners
  BY DEF StartupInv, ServerShape
<1> QED
  BY <1>1, ConfInvTyped DEF StartupInv, ServerShape, StartupTypeOK, Listeners

----------------------------------------------------------------------------
(* The daemon *)

\* The invariants of both sides.
DaemonInv ==
    StartupInv /\ ExchangeInv /\ ProcessTypes /\ side \in {"startup", "privsep"}

\* A step of one side keeps its invariant and leaves the other side alone.
LEMMA DaemonInvStep == DaemonInv /\ [DaemonNext]_daemonVars => DaemonInv'
<1> SUFFICES ASSUME DaemonInv, [DaemonNext]_daemonVars
             PROVE  DaemonInv'
  OBVIOUS
<1>1. StartupInv'
  <2>1. CASE StartupNext
    BY <2>1, StartupInvStep DEF DaemonInv
  <2>2. CASE UNCHANGED startupVars
    BY <2>2, StartupInvStutter DEF DaemonInv
  <2> QED
    BY <2>1, <2>2 DEF DaemonNext, daemonVars
<1>2. [PrivsepNext]_privsepVars /\ side' = side
  BY DEF DaemonNext, daemonVars
<1> QED
  BY <1>1, <1>2, ExchangeStep, ProcessTypesStep DEF DaemonInv

\* Both invariants hold while a daemon starts.
LEMMA DaemonInvHolds == DaemonSpec => []DaemonInv
<1>1. DaemonInit => DaemonInv
  BY StartupInvInit, ExchangeInit, ProcessTypesInit DEF DaemonInit, DaemonInv
<1> QED
  BY <1>1, DaemonInvStep, PTL DEF DaemonSpec

\* However the addresses fail to bind and the sockets to open, no listener for
\* daemons is enabled before server_set_device, and the UDP socket that is used
\* stands beside the last listener of server_init.
THEOREM SocketsCorrect == DaemonSpec => []SocketsSound
<1>1. DaemonInv => SocketsSound
  BY StartupInvSound DEF DaemonInv
<1> QED
  BY <1>1, DaemonInvHolds, PTL

\* The options are those of the file that was parsed last, key by key, whatever
\* nesting, values and failures the callbacks of conf.c meet.
THEOREM OptionsCorrect == DaemonSpec => []OptionsSound
<1>1. DaemonInv => OptionsSound
  BY StartupInvSound DEF DaemonInv
<1> QED
  BY <1>1, DaemonInvHolds, PTL

\* However signals and the death of the child fall into the exchange of
\* imsg_callback_handler and tnt_imsg_callback, one message is under way at
\* most, so that one read and one write per edge suffice.
THEOREM OneMessageSuffices == DaemonSpec => []OneMessageUnderWay
<1>1. DaemonInv => OneMessageUnderWay
  BY ExchangeSafe DEF DaemonInv
<1> QED
  BY <1>1, DaemonInvHolds, PTL

\* The parent has the device whenever it is asked for its address, and whenever
\* the child has it (dispatch_imsg of both processes).  A child that outlives a
\* killed parent never has it: the exchange has not begun where SIGTERM kills
\* (main, before event_add).
THEOREM DeviceAgreed == DaemonSpec => []DeviceOwned
<1>1. DaemonInv => DeviceOwned
  BY ExchangeSafe DEF DaemonInv, DeviceOwned
<1> QED
  BY <1>1, DaemonInvHolds, PTL

\* Every variable of the start of a daemon keeps its type, for any file and any
\* number of signals and failures.
THEOREM DaemonTyped == DaemonSpec => []DaemonTypeOK
<1>1. DaemonInv => DaemonTypeOK
  BY StartupTyped, PrivsepTyped DEF DaemonInv, DaemonTypeOK
<1> QED
  BY <1>1, DaemonInvHolds, PTL

=============================================================================
