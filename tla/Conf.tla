-------------------------------- MODULE Conf --------------------------------
(***************************************************************************)
(* Reading the configuration: the callbacks that src/conf.c gives to       *)
(* the JSON parser yajl, tnt_parse_buf, and the two tnt_parse_file, of     *)
(* sys/unix/conf.c and sys/wnt/conf.c, as main calls them.                 *)
(*                                                                         *)
(* yajl is external: it reports any well-formed nesting of maps and arrays *)
(* and may stop with an error at any point.  Only a callback that returns  *)
(* 0 would cancel the parse; the callbacks return 1 or -1, so a value they *)
(* reject is skipped and the parse goes on.                                *)
(***************************************************************************)
EXTENDS Integers, Sequences

CONSTANTS
    Keys,        \* the keys a file may use
    Numbers,     \* the numbers a file may use
    Strings,     \* the strings a file may use
    MAX_PORTS,   \* TNETACLE_MAX_PORTS
    MaxFiles,    \* bound: the default file and the options -f
    MaxValues,   \* bound: scalar values in a file
    MaxDepth     \* bound: nesting of maps and arrays

ASSUME ConfAssumption ==
    /\ MAX_PORTS \in Nat \ {0}
    /\ MaxFiles \in Nat \ {0}
    /\ MaxValues \in Nat
    /\ MaxDepth \in Nat

NULL == "NULL"
DEFAULT_PORT == 4242
CLIENT_DEFAULT_PORT == 4243
AF_UNSPEC == 0
AF_INET == 2
AF_INET6 == 10

\* The numbers that yajl_number takes.
InRange == 0..65535

\* A configured address.  "any" is 0.0.0.0 or ::, according to the family.
Addr(ip, family, port) == [ip |-> ip, family |-> family, port |-> port]

VARIABLES
    build,      \* the port of the daemon: Unix or Windows
    phase,      \* main: "open" a file, "parse" it, "getopt", "server", "exit"
    file,       \* the default file is 1, those of the options -f follow
    stack,      \* yajl: the open maps and arrays, with the key of each map
    whole,      \* yajl: the outermost value is complete
    ctx,        \* ctx.map: the key the next scalar belongs to
    opts,       \* serv_opts
    debug,      \* the global variable debug
    nvalues,    \* scalars read from this file
    given,      \* history: ports and addresses read from this file
    anyPorts,   \* history: the ports known at the last ListenAddress "any"
    overflow    \* history: a port was stored behind its array

yajl == <<stack, whole, nvalues>>
history == <<given, anyPorts, overflow>>
confvars == <<build, phase, file, yajl, ctx, opts, debug, history>>

Unset == [i \in 1..MAX_PORTS |-> -1]

Options(ready) ==
    [ready |-> ready, tunnel |-> 0, tunnel_index |-> IF ready THEN -1 ELSE 0,
     mode |-> 0, debug |-> FALSE, compression |-> ready, encryption |-> ready,
     ports |-> IF ready THEN Unset ELSE [i \in 1..MAX_PORTS |-> 0],
     cports |-> IF ready THEN Unset ELSE [i \in 1..MAX_PORTS |-> 0],
     addr_family |-> AF_UNSPEC, listen_addrs |-> <<>>, client_addrs |-> <<>>,
     peer_addrs |-> <<>>, addr |-> NULL, key_path |-> NULL, cert_path |-> NULL]

\* Mutant: the vectors of addresses survive from the file read before.
init_options_keeps_vectors ==
    [Options(TRUE) EXCEPT !.listen_addrs = opts.listen_addrs,
                          !.peer_addrs = opts.peer_addrs]

init_options == Options(TRUE)

----------------------------------------------------------------------------
(* Keys.  strncmp(name, key, len) compares the len characters of the key:  *)
(* it succeeds for every prefix of the name.                               *)

Prefixes == {<<"Address", "AddressFamily">>, <<"Tunnel", "TunnelIndex">>,
             <<"inet", "inet6">>}

strncmp(name, key) ==
    \/ key = name
    \/ key = ""
    \/ <<key, name>> \in Prefixes

\* The first name of an if-else chain that the key matches.
FirstMatch(chain, key) ==
    LET hits == {i \in DOMAIN chain : strncmp(chain[i], key)}
    IN  IF hits = {} THEN NULL
        ELSE chain[CHOOSE i \in hits : \A j \in hits : i <= j]

----------------------------------------------------------------------------
(* Addresses and ports. *)

\* The entries of an array of ports before the first -1.
Used(ports) ==
    LET free == {i \in 1..MAX_PORTS : ports[i] = -1}
        n == IF free = {} THEN MAX_PORTS
             ELSE (CHOOSE i \in free : \A j \in free : i <= j) - 1
    IN  SubSeq(ports, 1, n)

\* The wildcard address of a family with each of the ports, and those of both
\* families in turn.
Wildcards(family, some) == [i \in DOMAIN some |-> Addr("any", family, some[i])]
BothWildcards(some) ==
    [i \in 1..(2 * Len(some)) |-> IF i % 2 = 1 THEN Addr("any", AF_INET, some[(i + 1) \div 2])
                                 ELSE Addr("any", AF_INET6, some[i \div 2])]

\* add_listen_addrs_ports and add_client_addrs_ports.
Expand(family, ports) ==
    CASE family = AF_INET -> Wildcards(AF_INET, Used(ports))
      [] family = AF_INET6 -> Wildcards(AF_INET6, Used(ports))
      [] family = AF_UNSPEC -> BothWildcards(Used(ports))
      [] OTHER -> <<>>

\* add_sockaddr: an address that does not parse is not pushed.
add_sockaddr(v, str) ==
    IF str = "192.0.2.1:7" THEN Append(v, Addr("192.0.2.1", AF_INET, 7)) ELSE v

\* The index of the first free port, or the one behind the array: the array
\* cports follows ports in struct options, and addr_family follows cports.
FirstFree(ports) == Len(Used(ports)) + 1

AddPort(o, n) ==
    LET i == FirstFree(o.ports)
    IN  IF i <= MAX_PORTS THEN [o EXCEPT !.ports[i] = n]
        ELSE [o EXCEPT !.cports[1] = n]

AddClientPort(o, n) ==
    LET i == FirstFree(o.cports)
    IN  IF i <= MAX_PORTS THEN [o EXCEPT !.cports[i] = n]
        ELSE [o EXCEPT !.addr_family = n]

----------------------------------------------------------------------------
(* The scalar callbacks: what a value changes in serv_opts. *)

SetBoolean(o, key, val) ==
    LET name == FirstMatch(<<"Compression", "Encryption", "Debug">>, key)
    IN  CASE name = "Compression" -> [o EXCEPT !.compression = val]
          [] name = "Encryption" -> [o EXCEPT !.encryption = val]
          [] name = "Debug" -> [o EXCEPT !.debug = val]
          [] OTHER -> o

NumberName(key) == FirstMatch(<<"TunnelIndex", "Port", "ClientPort">>, key)

\* Mutant: the range is not checked.
SetNumber_any(o, key, n) ==
    CASE NumberName(key) = "TunnelIndex" -> [o EXCEPT !.tunnel_index = n]
      [] NumberName(key) = "Port" -> AddPort(o, n)
      [] NumberName(key) = "ClientPort" -> AddClientPort(o, n)
      [] OTHER -> o

SetNumber(o, key, n) ==
    CASE n \notin InRange -> o
      [] n \in InRange /\ NumberName(key) = "TunnelIndex" ->
             [o EXCEPT !.tunnel_index = n]
      [] n \in InRange /\ NumberName(key) = "Port" -> AddPort(o, n)
      [] n \in InRange /\ NumberName(key) = "ClientPort" ->
             AddClientPort(o, n)
      [] OTHER -> o

\* The number is stored behind the array it belongs to.
Overflows(o, key, n) ==
    /\ n \in InRange
    /\ \/ NumberName(key) = "Port" /\ FirstFree(o.ports) > MAX_PORTS
       \/ NumberName(key) = "ClientPort" /\ FirstFree(o.cports) > MAX_PORTS

AddressFamily(o, str) ==
    LET name == FirstMatch(<<"inet6", "inet", "any">>, str)
    IN  CASE name = "inet6" -> [o EXCEPT !.addr_family = AF_INET]
          [] name = "inet" -> [o EXCEPT !.addr_family = AF_INET6]
          [] name = "any" -> [o EXCEPT !.addr_family = AF_UNSPEC]
          [] OTHER -> o

\* The daemon mode is stored in the field of the tunnel mode.
Mode(o, str) ==
    LET name == FirstMatch(<<"router", "switch", "hub">>, str)
    IN  CASE name = "router" -> [o EXCEPT !.tunnel = 0]
          [] name = "switch" -> [o EXCEPT !.tunnel = 1]
          [] name = "hub" -> [o EXCEPT !.tunnel = 2]
          [] OTHER -> o

Tunnel(o, str) ==
    LET name == FirstMatch(<<"point-to-point", "ethernet">>, str)
    IN  CASE name = "point-to-point" -> [o EXCEPT !.tunnel = 0]
          [] name = "ethernet" -> [o EXCEPT !.tunnel = 1]
          [] OTHER -> o

ListenAddress(o, str) ==
    [o EXCEPT
        !.listen_addrs = IF strncmp("any", str)
                         THEN @ \o Expand(o.addr_family, o.ports)
                         ELSE add_sockaddr(@, str),
        !.client_addrs = @ \o Expand(o.addr_family, o.cports)]

StringNames == <<"Address", "AddressFamily", "Mode", "Tunnel", "PrivateKey",
                 "CertFile", "PeerAddress", "ListenAddress">>

SetString(o, key, str) ==
    LET name == FirstMatch(StringNames, key)
    IN  CASE name = "Address" -> [o EXCEPT !.addr = str]
          [] name = "AddressFamily" -> AddressFamily(o, str)
          [] name = "Mode" -> Mode(o, str)
          [] name = "Tunnel" -> Tunnel(o, str)
          [] name = "PrivateKey" -> [o EXCEPT !.key_path = str]
          [] name = "CertFile" -> [o EXCEPT !.cert_path = str]
          [] name = "PeerAddress" ->
                 [o EXCEPT !.peer_addrs = add_sockaddr(@, str)]
          [] name = "ListenAddress" -> ListenAddress(o, str)
          [] OTHER -> o

----------------------------------------------------------------------------
(* yajl: which callback may come next. *)

\* Outside of every map and array yajl takes one value, as an array does.
Top == IF stack = <<>> THEN [kind |-> "none", key |-> NULL]
       ELSE stack[Len(stack)]

ValueExpected ==
    /\ phase = "parse"
    /\ ~whole
    /\ Top.kind = "map" => Top.key # NULL

\* The value is complete: the map goes on with its next key.
AfterValue(s) ==
    IF s # <<>> /\ s[Len(s)].kind = "map" THEN [s EXCEPT ![Len(s)].key = NULL]
    ELSE s

\* The key that a value at this place belongs to.
InnermostKey ==
    LET maps == {i \in DOMAIN stack : stack[i].kind = "map"}
    IN  IF maps = {} THEN NULL
        ELSE stack[CHOOSE i \in maps : \A j \in maps : j <= i].key

Open(kind) ==
    /\ ValueExpected
    /\ Len(stack) < MaxDepth
    /\ stack' = Append(stack, [kind |-> kind, key |-> NULL])
    /\ UNCHANGED <<build, phase, file, whole, nvalues, ctx, opts, debug, history>>

yajl_start_map == Open("map")
yajl_start_array == Open("array")

yajl_map_key(key) ==
    /\ phase = "parse"
    /\ Top.kind = "map" /\ Top.key = NULL
    /\ nvalues < MaxValues
    /\ stack' = [stack EXCEPT ![Len(stack)].key = key]
    /\ ctx' = key
    /\ UNCHANGED <<build, phase, file, whole, nvalues, opts, debug, history>>

Close(kind) ==
    /\ phase = "parse"
    /\ Top.kind = kind /\ Top.key = NULL
    /\ stack' = AfterValue(SubSeq(stack, 1, Len(stack) - 1))
    /\ whole' = (Len(stack) = 1)
    /\ UNCHANGED <<build, phase, file, nvalues, opts, debug, history>>

yajl_end_map == Close("map") /\ ctx' = NULL

yajl_end_array == Close("array") /\ ctx' = NULL

Scalar ==
    /\ ValueExpected
    /\ nvalues < MaxValues
    /\ nvalues' = nvalues + 1
    /\ stack' = AfterValue(stack)
    /\ whole' = (stack = <<>>)
    /\ UNCHANGED <<build, phase, file, ctx, debug>>

yajl_null == Scalar /\ UNCHANGED <<opts, given, anyPorts, overflow>>

yajl_boolean(val) ==
    /\ Scalar
    /\ opts' = IF ctx = NULL THEN opts ELSE SetBoolean(opts, ctx, val)
    /\ UNCHANGED <<given, anyPorts, overflow>>

yajl_number(n) ==
    /\ Scalar
    /\ opts' = IF ctx = NULL THEN opts ELSE SetNumber(opts, ctx, n)
    /\ given' = [given EXCEPT !.ports = @ \cup ({n} \cap InRange)]
    /\ overflow' = (overflow \/ Overflows(opts, ctx, n))
    /\ UNCHANGED anyPorts

yajl_string(str) ==
    /\ Scalar
    /\ opts' = IF ctx = NULL THEN opts ELSE SetString(opts, ctx, str)
    /\ given' = [given EXCEPT
                    !.addrs = @ \cup IF ctx = "ListenAddress" \/ ctx = "PeerAddress"
                                     THEN {str} ELSE {}]
    /\ anyPorts' = IF ctx = "ListenAddress" /\ str = "any"
                   THEN Used(opts.ports) ELSE anyPorts
    /\ UNCHANGED overflow

----------------------------------------------------------------------------
(* main: the files and the command line. *)

NothingGiven == [ports |-> {}, addrs |-> {}]

ConfInit ==
    /\ build \in {"unix", "wnt"}
    /\ phase = "open"
    /\ file = 1
    /\ stack = <<>>
    /\ whole = FALSE
    /\ ctx = NULL
    /\ opts = Options(FALSE)
    /\ debug = FALSE
    /\ nvalues = 0
    /\ given = NothingGiven
    /\ anyPorts = <<>>
    /\ overflow = FALSE

\* Where main goes on when tnt_parse_file returns.  The result of the first
\* call is ignored on Unix; the Windows version always returns 0.
Return(ret) ==
    CASE build = "wnt" -> "server"
      [] build = "unix" /\ ret = -1 /\ file > 1 -> "exit"
      [] OTHER -> "getopt"

\* The file does not exist (0 on Unix), or cannot be opened, examined or
\* mapped (-1).  The options stay as they are.
parse_file_fails(ret) ==
    /\ phase = "open"
    /\ phase' = Return(ret)
    /\ UNCHANGED <<build, file, yajl, ctx, opts, debug, history>>

\* tnt_parse_file opens the file, tnt_parse_buf starts.
parse_buf_begins ==
    /\ phase = "open"
    /\ phase' = "parse"
    /\ opts' = init_options
    /\ given' = NothingGiven
    /\ anyPorts' = <<>>
    /\ overflow' = FALSE
    /\ UNCHANGED <<build, file, yajl, ctx, debug>>

\* The parser and ctx are gone when tnt_parse_buf returns.
yajl_free == stack' = <<>> /\ whole' = FALSE /\ nvalues' = 0 /\ ctx' = NULL

\* An error of yajl, or the end of the buffer inside a value.  A Windows file
\* is read by pieces of 65000 bytes, each parsed for itself: the first piece
\* of a longer file mostly ends here, and the others are not read.
parse_buf_fails ==
    /\ phase = "parse"
    /\ phase' = Return(-1)
    /\ yajl_free
    /\ UNCHANGED <<build, file, opts, debug, history>>

ParseBufEnds(next) ==
    /\ phase = "parse"
    /\ whole
    /\ phase' = next
    /\ debug' = opts.debug
    /\ opts' = [opts EXCEPT
                   !.ports[1] = IF @ = -1 THEN DEFAULT_PORT ELSE @,
                   !.cports[1] = IF @ = -1 THEN CLIENT_DEFAULT_PORT ELSE @]
    /\ yajl_free
    /\ UNCHANGED <<build, history>>

parse_buf_ends == ParseBufEnds(Return(0)) /\ file' = file

\* Windows: the next 65000 bytes of the file are parsed like another file.
next_piece ==
    /\ build = "wnt"
    /\ file < MaxFiles
    /\ file' = file + 1
    /\ ParseBufEnds("open")

getopt_d ==
    /\ phase = "getopt"
    /\ debug' = TRUE
    /\ UNCHANGED <<build, phase, file, yajl, ctx, opts, history>>

getopt_f ==
    /\ phase = "getopt"
    /\ file < MaxFiles
    /\ file' = file + 1
    /\ phase' = "open"
    /\ UNCHANGED <<build, yajl, ctx, opts, debug, history>>

\* The option -h, and an unknown one.
usage ==
    /\ phase = "getopt"
    /\ phase' = "exit"
    /\ UNCHANGED <<build, file, yajl, ctx, opts, debug, history>>

getopt_end ==
    /\ phase = "getopt"
    /\ phase' = "server"
    /\ UNCHANGED <<build, file, yajl, ctx, opts, debug, history>>

ConfNext ==
    \/ yajl_start_map
    \/ yajl_start_array
    \/ \E key \in Keys : yajl_map_key(key)
    \/ yajl_end_map
    \/ yajl_end_array
    \/ yajl_null
    \/ \E val \in BOOLEAN : yajl_boolean(val)
    \/ \E n \in Numbers : yajl_number(n)
    \/ \E str \in Strings : yajl_string(str)
    \/ \E ret \in {0, -1} : parse_file_fails(ret)
    \/ parse_buf_begins
    \/ parse_buf_fails
    \/ parse_buf_ends
    \/ next_piece
    \/ getopt_d
    \/ getopt_f
    \/ usage
    \/ getopt_end

----------------------------------------------------------------------------
(* Properties. *)

Elems(v) == {v[i] : i \in DOMAIN v}

Ports == InRange \cup {-1}
Addresses == [ip : {"any", "192.0.2.1"}, family : {AF_INET, AF_INET6},
              port : InRange]

\* The types of the options that conf.c fills in, and how far main is with its files.
ConfTypeOK ==
    /\ build \in {"unix", "wnt"}
    /\ phase \in {"open", "parse", "getopt", "server", "exit"}
    /\ file \in 1..MaxFiles
    /\ ctx \in Keys \cup {NULL}
    /\ Elems(opts.ports) \cup Elems(opts.cports) \subseteq Ports
    /\ opts.tunnel \in 0..2
    /\ opts.addr_family \in InRange
    /\ \A v \in {opts.listen_addrs, opts.client_addrs, opts.peer_addrs} :
           Elems(v) \subseteq Addresses

\* A value is never taken for another key than the innermost one around it:
\* ctx.map is that key, or NULL behind a nested map or array, where
\* yajl_end_map and yajl_end_array have forgotten it.
KeyIsCurrent == ValueExpected => ctx \in {NULL, InnermostKey}

\* Reading a file starts from nothing: every port and every address comes from
\* the file whose parse began last, or is a default, although main parses the
\* default file first and each file of -f over it (tnt_parse_buf).
OptionsFromThisFile ==
    opts.ready =>
        /\ Elems(opts.ports) \subseteq given.ports \cup {-1, DEFAULT_PORT}
        /\ \A a \in Elems(opts.listen_addrs) \cup Elems(opts.client_addrs) :
               a.ip = "any" => a.port \in given.ports
        /\ opts.peer_addrs # <<>> => "192.0.2.1:7" \in given.addrs

\* The ListenAddress "any" of a file makes the daemon listen on each port the
\* file named before it (add_listen_addrs_ports), unless a port too many was
\* stored over the address family.
AnyCoversEarlierPorts ==
    ~overflow => Elems(anyPorts) \subseteq {a.port : a \in Elems(opts.listen_addrs)}

\* The options are what the last file says, key by key.
OptionsSound == KeyIsCurrent /\ OptionsFromThisFile /\ AnyCoversEarlierPorts

=============================================================================
