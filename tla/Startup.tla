------------------------------ MODULE Startup ------------------------------
(***************************************************************************)
(* From the configuration to a daemon that listens: server_init            *)
(* (src/server.c) opens a listener and a UDP socket for each of the        *)
(* addresses that Conf has collected, and server_set_device                *)
(* (src/device.c) enables them when the device is there.                   *)
(*                                                                         *)
(* The kernel decides whether a bind succeeds; it refuses an address that  *)
(* has a listener.  struct server is a local variable that nothing clears, *)
(* so the field udp holds anything until it is assigned.                   *)
(***************************************************************************)
EXTENDS Conf

CONSTANT MaxFailures   \* bound: binds that fail without a reason in the model

ASSUME StartupAssumption == MaxFailures \in Nat

VARIABLES
    step,       \* "start", "listen", "client", "ready", "nodevice", "run", "down"
    server_ctx, \* there is a TLS context
    it,         \* the iterator of server_init over the addresses
    srv_list,   \* the listeners: address, kind and whether enabled
    bound,      \* the addresses that are bound, those of lost listeners too
    udp,        \* s->udp: "garbage", "NULL" or "open"
    udp_addr,   \* the address of the socket of s->udp
    device_ip,  \* the tap device has got the Address
    failures

servervars == <<step, server_ctx, it, srv_list, bound, udp, udp_addr,
                device_ip, failures>>
startupVars == <<confvars, servervars>>

NoAddr == Addr("none", AF_UNSPEC, 0)

StartupInit ==
    /\ ConfInit
    /\ step = "start"
    /\ server_ctx = FALSE
    /\ it = 1
    /\ srv_list = <<>>
    /\ bound = {}
    /\ udp = "garbage"
    /\ udp_addr = NoAddr
    /\ device_ip = FALSE
    /\ failures = 0

----------------------------------------------------------------------------

\* The context of evssl_init: NULL if encryption is off or a file that is
\* named is bad; server_init then goes on without TLS.  The vectors are NULL
\* if no file was ever parsed: v_sockaddr_begin goes through the null pointer.
server_start(loaded) ==
    /\ phase = "server"
    /\ step = "start"
    /\ server_ctx' = (/\ opts.encryption
                      /\ loaded \/ NULL \in {opts.key_path, opts.cert_path})
    /\ step' = IF opts.ready THEN "listen" ELSE "down"
    /\ UNCHANGED <<confvars, it, srv_list, bound, udp, udp_addr, device_ip,
                   failures>>

CanBind(a) == a.port = 0 \/ a \notin bound

Listener(a, kind, enabled) == [addr |-> a, kind |-> kind, enabled |-> enabled]

BindFails(v, at, next) ==
    /\ step = at
    /\ it <= Len(v)
    /\ \/ ~CanBind(v[it]) /\ failures' = failures
       \/ failures < MaxFailures /\ failures' = failures + 1
    /\ it' = it + 1
    /\ step' = next
    /\ UNCHANGED <<confvars, server_ctx, srv_list, bound, udp, udp_addr,
                   device_ip>>

\* Mutant: an address that cannot be bound ends the daemon.
bind_fails_exits(v, at) == BindFails(v, at, "down")

\* evconnlistener_new_bind fails: the loop goes on with the next address.
bind_fails(v, at) == BindFails(v, at, at)

\* The socket is bound and its port known, or the UDP socket is not made.
ListenOn(added, socket, at) ==
    /\ step = "listen"
    /\ it <= Len(opts.listen_addrs)
    /\ CanBind(opts.listen_addrs[it])
    /\ srv_list' = srv_list \o added
    /\ bound' = bound \cup {opts.listen_addrs[it]}
    /\ udp' = socket
    /\ udp_addr' = at
    /\ it' = it + 1
    /\ UNCHANGED <<confvars, step, server_ctx, device_ip>>

PeerListener(enabled) == <<Listener(opts.listen_addrs[it], "peer", enabled)>>

\* Mutant: the socket of the address before is kept.
udp_fails_kept ==
    /\ failures < MaxFailures /\ failures' = failures + 1
    /\ ListenOn(PeerListener(FALSE), udp, udp_addr)

\* tnt_udp_socket returns -1, or a later call of server_udp_init does.
tnt_udp_socket_fails == failures < MaxFailures /\ failures' = failures + 1

\* server_udp_new returns NULL: the listener is neither listed nor freed.
server_udp_new_fails ==
    /\ tnt_udp_socket_fails
    /\ ListenOn(<<>>, "NULL", NoAddr)

\* A listener, disabled, and a UDP socket on the same address and a port of
\* its own (server_udp_init).  The socket replaces the one before.
server_init_listen ==
    /\ ListenOn(PeerListener(FALSE), "open", opts.listen_addrs[it])
    /\ failures' = failures

listen_done ==
    /\ step = "listen"
    /\ it > Len(opts.listen_addrs)
    /\ it' = 1
    /\ step' = "client"
    /\ UNCHANGED <<confvars, server_ctx, srv_list, bound, udp, udp_addr,
                   device_ip, failures>>

\* The listeners for clients are enabled at once.
server_init_client ==
    /\ step = "client"
    /\ it <= Len(opts.client_addrs)
    /\ CanBind(opts.client_addrs[it])
    /\ srv_list' = Append(srv_list,
                          Listener(opts.client_addrs[it], "client", TRUE))
    /\ bound' = bound \cup {opts.client_addrs[it]}
    /\ it' = it + 1
    /\ UNCHANGED <<confvars, step, server_ctx, udp, udp_addr, device_ip,
                   failures>>

client_done ==
    /\ step = "client"
    /\ it > Len(opts.client_addrs)
    /\ step' = "ready"
    /\ UNCHANGED <<confvars, server_ctx, it, srv_list, bound, udp, udp_addr,
                   device_ip, failures>>

\* tnt_ttc_open fails, or refuses a tunnel mode it does not know (the mode
\* "hub" of Mode).  Windows opens the device before anything else, with a
\* fixed mode, and exits; on Unix the child goes on without a device.
tnt_ttc_open_fails ==
    /\ phase = "server"
    /\ step = IF build = "wnt" THEN "start" ELSE "ready"
    /\ \/ /\ build = "unix" /\ opts.tunnel \notin {0, 1}
          /\ failures' = failures
       \/ failures < MaxFailures /\ failures' = failures + 1
    /\ step' = IF build = "wnt" THEN "down" ELSE "nodevice"
    /\ UNCHANGED <<confvars, server_ctx, it, srv_list, bound, udp, udp_addr,
                   device_ip>>

\* What the launch of the UDP fibers meets: a null pointer ends the process,
\* an unset one may.
Launched ==
    CASE udp = "NULL" -> {"down"}
      [] udp = "garbage" -> {"down", "run"}
      [] OTHER -> {"run"}

\* tnt_ttc_set_ip takes an address with a mask only.
HasMask(str) == str = "10.0.0.1/8"

Enabled == [i \in DOMAIN srv_list |-> [srv_list[i] EXCEPT !.enabled = TRUE]]

\* Unix: the device is there.  Then the parent is asked to set the Address,
\* which may be a null pointer; its failure goes unnoticed.
set_device_unix ==
    /\ step = "ready"
    /\ build = "unix" /\ opts.tunnel \in {0, 1}
    /\ srv_list' = Enabled
    /\ step' \in IF opts.addr = NULL THEN {"down"} ELSE Launched
    /\ device_ip' = (step' = "run" /\ HasMask(opts.addr))
    /\ UNCHANGED <<confvars, server_ctx, it, bound, udp, udp_addr, failures>>

\* Windows: the Address is set first, and main exits if that fails.
set_device_wnt ==
    /\ step = "ready"
    /\ build = "wnt"
    /\ device_ip' = HasMask(opts.addr)
    /\ srv_list' = IF device_ip' THEN Enabled ELSE srv_list
    /\ step' \in IF device_ip' THEN Launched ELSE {"down"}
    /\ UNCHANGED <<confvars, server_ctx, it, bound, udp, udp_addr, failures>>

----------------------------------------------------------------------------

ServerStep ==
    \/ \E loaded \in BOOLEAN : server_start(loaded)
    \/ server_init_listen
    \/ listen_done
    \/ server_init_client
    \/ client_done
    \/ set_device_unix
    \/ set_device_wnt

StartupNext ==
    \/ ConfNext /\ UNCHANGED servervars
    \/ ServerStep
    \/ bind_fails(opts.listen_addrs, "listen")
    \/ bind_fails(opts.client_addrs, "client")
    \/ server_udp_new_fails
    \/ tnt_ttc_open_fails

\* server_init is one loop after the other and the device comes when the
\* parent answers; a duplicate address is skipped.
StartupFairness ==
    /\ WF_startupVars(ServerStep)
    /\ WF_startupVars(bind_fails(opts.listen_addrs, "listen"))
    /\ WF_startupVars(bind_fails(opts.client_addrs, "client"))

----------------------------------------------------------------------------
(* Properties. *)

\* The types of the listeners, the UDP socket and the progress of server_init.
StartupTypeOK ==
    /\ ConfTypeOK
    /\ step \in {"start", "listen", "client", "ready", "nodevice", "run",
                "down"}
    /\ {server_ctx, device_ip} \subseteq BOOLEAN
    /\ it \in Nat \ {0}
    /\ \A i \in DOMAIN srv_list :
           srv_list[i] \in [addr : Addresses, kind : {"peer", "client"},
                            enabled : BOOLEAN]
    /\ bound \subseteq Addresses
    /\ udp \in {"garbage", "NULL", "open"}
    /\ udp_addr \in Addresses \cup {NoAddr}
    /\ failures \in 0..MaxFailures

PeerListeners == {i \in DOMAIN srv_list : srv_list[i].kind = "peer"}

\* No daemon is accepted before the device is there: the listeners of
\* server_init for other daemons stay disabled until server_set_device.
PeersWaitForDevice ==
    (\E i \in PeerListeners : srv_list[i].enabled) => step \in {"run", "down"}

\* A UDP socket that is used stands beside the last listener for daemons:
\* whatever fails, the port that is announced is on an address where a listener
\* is (the loop of server_init over listen_addrs).
UdpBesideLastListener ==
    udp = "open" =>
        \E i \in PeerListeners :
            /\ srv_list[i].addr = udp_addr
            /\ \A j \in PeerListeners : j <= i

Usable ==
    /\ phase = "server"
    /\ opts.ready
    /\ HasMask(opts.addr)
    /\ opts.listen_addrs # <<>>
    /\ opts.tunnel \in {0, 1}

\* A configuration with an Address that has a mask, a ListenAddress that gives
\* an address and a tunnel mode that exists makes a running daemon whose device
\* has the address, unless a socket or the device could not be opened;
\* duplicate addresses do no harm.
StartsUp == Usable ~> ((step = "run" /\ device_ip) \/ failures > 0)

\* The sockets of server_init are open when and where other daemons may use them.
SocketsSound == PeersWaitForDevice /\ UdpBesideLastListener

=============================================================================
