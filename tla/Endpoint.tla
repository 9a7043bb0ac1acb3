------------------------------ MODULE Endpoint ------------------------------
(***************************************************************************)
(* The socket addresses of src/endpoint.c: what a struct endpoint holds    *)
(* after any sequence of calls, and what the comparisons of endpoint.c,    *)
(* server.c and mc.c say of two of them.                                   *)
(*                                                                         *)
(* A sockaddr_storage is a sequence of Storage cells: the family, the port *)
(* in network order, and an address of one cell (sockaddr_in) or the flow, *)
(* the address and the scope (sockaddr_in6).  Byte is the number of values *)
(* of a byte of a port.                                                    *)
(***************************************************************************)
EXTENDS Integers, Sequences, SequencesExt

CONSTANTS
    TextLens,   \* addresses: an address is the length of its text
    PortRange,  \* ports
    Byte,       \* values of a byte
    NameLen     \* INET6_ADDRSTRLEN

VARIABLES
    ends,       \* the endpoints of the caller
    meant       \* the address that each should hold

endpointVars == <<ends, meant>>

AF_INET == 4
AF_INET6 == 6
Storage == 6
Ends == {1, 2}
\* What memory holds before it is written: zero, or an old IPv6 address.
Garbage == {[i \in 1..Storage |-> 0], [i \in 1..Storage |-> 6]}
NoAddr == [fam |-> 0, addr |-> 0, port |-> 0]
Addresses == [fam : {AF_INET, AF_INET6}, addr : TextLens, port : PortRange]

\* htons and ntohs swap the two bytes of a 16 bit number.
htons(n) == ((n % (Byte * Byte)) \div Byte) + Byte * (n % Byte)
ntohs(n) == htons(n)

\* The address as the kernel, or evutil_parse_sockaddr_port, writes it.
Sockaddr(x) ==
    IF x.fam = AF_INET THEN <<AF_INET, htons(x.port), x.addr>>
    ELSE <<AF_INET6, htons(x.port), 0, x.addr, 0>>

memcpy(dst, src, n) == [i \in 1..Storage |-> IF i <= n THEN src[i] ELSE dst[i]]
Zero == [i \in 1..Storage |-> 0]

endpoint_init(e, sa) == [mem |-> memcpy(Zero, sa, Len(sa)), addrlen |-> Len(sa)]

endpoint_new == [mem |-> Zero, addrlen |-> Storage]

\* endpoint_set_ipport and endpoint_assign_sockname: at most addrlen cells are
\* written and addrlen becomes the length of the address.
Filled(e, sa) ==
    [mem |-> memcpy(e.mem, sa \o Zero, IF e.addrlen < Len(sa) THEN e.addrlen ELSE Len(sa)),
     addrlen |-> Len(sa)]

AddrOf(mem) == IF mem[1] = AF_INET THEN mem[3] ELSE mem[4]

endpoint_port(e) == ntohs(e.mem[2])

endpoint_set_port(e, port) ==
    IF e.mem[1] \in {AF_INET, AF_INET6} THEN [e EXCEPT !.mem[2] = htons(port)] ELSE e

endpoint_copy(dst, src) == [mem |-> memcpy(dst.mem, src.mem, src.addrlen),
                            addrlen |-> src.addrlen]

endpoint_clone(src) == endpoint_copy([mem |-> Zero, addrlen |-> 0], src)

\* evutil_sockaddr_cmp is 0: the flow and the scope are not compared.
SameSockaddr(m, n, include_port) ==
    /\ m[1] = n[1] /\ AddrOf(m) = AddrOf(n)
    /\ include_port => m[2] = n[2]

endpoint_cmp(a, b) == IF a.addrlen # b.addrlen \/ ~SameSockaddr(a.mem, b.mem, TRUE)
                      THEN -1 ELSE 0

\* find_established and find_udppeer.
SameHost(a, b) == SameSockaddr(a.mem, b.mem, FALSE)

Colon == -1
\* The text of an address, shorter or longer.
TextOf(addr) == [i \in 1..addr |-> addr]

\* The decimal digits of a port.
RECURSIVE Digits(_)
Digits(n) == IF n < 10 THEN <<n>> ELSE Append(Digits(n \div 10), n % 10)

\* endpoint_presentation and address_presentation: the text of the address, a
\* colon and the port, cut to the buffer.
Presentation(e) ==
    LET text == TextOf(AddrOf(e.mem)) \o <<Colon>> \o Digits(endpoint_port(e))
    IN  IF Len(text) < NameLen THEN text ELSE SubSeq(text, 1, NameLen - 1)

-----------------------------------------------------------------------------
Set(i, e, x) ==
    /\ ends' = [ends EXCEPT ![i] = e]
    /\ meant' = [meant EXCEPT ![i] = x]

\* A new automatic variable.
declare(i) == \E g \in Garbage : Set(i, [mem |-> g, addrlen |-> g[1]], NoAddr)

init(i, x) == Set(i, endpoint_init(ends[i], Sockaddr(x)), x)

new(i, x) == Set(i, Filled(endpoint_new, Sockaddr(x)), x)

\* As server_udp_init does after bind: the socket has the family of the
\* endpoint.
assign_sockname(i, x) ==
    /\ meant[i].fam = x.fam
    /\ Set(i, Filled(ends[i], Sockaddr(x)), x)

set_port(i, port) ==
    /\ meant[i] # NoAddr
    /\ Set(i, endpoint_set_port(ends[i], port), [meant[i] EXCEPT !.port = port])

copy(i, j) == /\ i # j /\ meant[j] # NoAddr
              /\ Set(i, endpoint_copy(ends[i], ends[j]), meant[j])

clone(i, j) == /\ meant[j] # NoAddr
               /\ Set(i, endpoint_clone(ends[j]), meant[j])

EndpointInit ==
    /\ ends = [i \in Ends |-> endpoint_new]
    /\ meant = [i \in Ends |-> NoAddr]

EndpointNext ==
    \/ \E i \in Ends : declare(i)
    \/ \E i \in Ends, x \in Addresses : init(i, x) \/ new(i, x) \/ assign_sockname(i, x)
    \/ \E i \in Ends, port \in PortRange : set_port(i, port)
    \/ \E i, j \in Ends : copy(i, j) \/ clone(i, j)

EndpointSpec == EndpointInit /\ [][EndpointNext]_endpointVars

-----------------------------------------------------------------------------
(* Properties *)

\* The types of the memory and the addrlen of endpoints, within a sockaddr_storage.
EndpointTypeOK ==
    /\ \A i \in Ends : ends[i].addrlen \in 0..Storage /\ Len(ends[i].mem) = Storage
    /\ meant \in [Ends -> Addresses \cup {NoAddr}]

\* An endpoint holds the address it was given last, in full, whatever its
\* memory held before and by whichever calls it got there; the port read back
\* is the one that was set.
HoldsAddress ==
    \A i \in Ends : meant[i] # NoAddr =>
        /\ ends[i].addrlen = Len(Sockaddr(meant[i]))
        /\ SubSeq(ends[i].mem, 1, ends[i].addrlen) = Sockaddr(meant[i])
        /\ endpoint_port(ends[i]) = meant[i].port

\* The comparisons are equality of the addresses: endpoint_cmp with the port,
\* so that a datagram is not sent back to the peer it came from, and those of
\* the tables without; what is left in the memory behind them plays no part.
ComparesAddresses ==
    \A i, j \in Ends : (NoAddr \notin {meant[i], meant[j]}) =>
        /\ endpoint_cmp(ends[i], ends[j]) = 0 <=> meant[i] = meant[j]
        /\ SameHost(ends[i], ends[j])
             <=> [meant[i] EXCEPT !.port = 0] = [meant[j] EXCEPT !.port = 0]

\* In the log two endpoints of one family have the same name only if they are
\* equal, as long as the text of the address leaves room for the port.
NamesTellApart ==
    \A i, j \in Ends :
        (/\ NoAddr \notin {meant[i], meant[j]} /\ meant[i].fam = meant[j].fam
         /\ \A k \in {i, j} : Len(TextOf(meant[k].addr)) + 6 < NameLen
         /\ Presentation(ends[i]) = Presentation(ends[j]))
        => meant[i] = meant[j]

=============================================================================
