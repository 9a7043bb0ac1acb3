-------------------------------- MODULE Dtls --------------------------------
(***************************************************************************)
(* The DTLS state of the UDP peers (src/dtls.c, and the parts of src/udp.c *)
(* that create and free it).  The daemon itself registers every peer with  *)
(* DTLS_DISABLE; the flags of the other callers are those of dtls_recvfrom *)
(* and the one that udp_register_new_peer tests for.                       *)
(*                                                                         *)
(* OpenSSL is external: a BIO is alive or freed, an SSL has a BIO or none, *)
(* and every allocation may fail.                                          *)
(***************************************************************************)
EXTENDS Naturals, Sequences

CONSTANTS
    Remotes,       \* the addresses of the peers
    MaxUdpPeers    \* bound on the registered peers

VARIABLES
    udp_ctx,       \* udp->ctx
    udp_peers,     \* udp->udp_peers
    receiving,     \* is a fiber suspended in dtls_recvfrom?
    network,       \* what was handed to async_sendto
    freed_twice,   \* was a BIO freed again?
    late_failure,  \* did the second SSL_new of dtls_new_peer fail?
    daemon_state   \* "runs", "segfault" or "exited"

dtlsVars == <<udp_ctx, udp_peers, receiving, network, freed_twice, late_failure, daemon_state>>

-----------------------------------------------------------------------------
(* Creation *)

\* NULL if the context, the ciphers, or the name of the key or of the
\* certificate is missing.  A file that cannot be loaded is not noticed:
\* the calls return 0 and the code tests for -1.
create_udp_ctx ==
    /\ udp_ctx = "none"
    /\ udp_ctx' \in {"NULL", "with key", "without key"}
    /\ UNCHANGED <<udp_peers, receiving, network, freed_twice, late_failure, daemon_state>>

Plain == [bio |-> "NULL", ssl |-> "NULL"]

\* Mutant: the SSL that was given the BIO is the one that is kept.
KeptSsl_first == "with bio"
\* dtls_new_peer makes a second SSL and keeps that one.
KeptSsl == "without bio"

\* What dtls_new_peer leaves in the peer: no pair; a pair and no SSL; a pair
\* that it freed; or all.
dtls_new_peer ==
    {Plain, [bio |-> "alive", ssl |-> "NULL"]}
      \cup (IF udp_ctx = "NULL" THEN {}
            ELSE {[bio |-> "freed", ssl |-> "NULL"], [bio |-> "alive", ssl |-> KeptSsl]})

Registered(remote, flags, state) ==
    [remote |-> remote, flags |-> flags, bio |-> state.bio, ssl |-> state.ssl]

\* The peer is inserted whatever dtls_new_peer returned.
RegisterPeer(remote, flags) ==
    /\ Len(udp_peers) < MaxUdpPeers
    /\ \E state \in IF flags = {"DTLS_ENABLE"} THEN dtls_new_peer ELSE {Plain} :
         /\ udp_peers' = Append(udp_peers, Registered(remote, flags, state))
         /\ late_failure' = (late_failure \/ state.bio = "freed")

Serving == daemon_state = "runs" /\ udp_ctx # "none"

register_peer(remote, flags) ==
    /\ Serving
    /\ RegisterPeer(remote, flags)
    /\ UNCHANGED <<udp_ctx, receiving, network, freed_twice, daemon_state>>

-----------------------------------------------------------------------------
(* Sending and receiving *)

\* SSL_write needs an SSL, and fails on one without BIO.  What it writes comes
\* out at the other end of the pair, so BIO_read on this end fails and its
\* result is the length of what is sent.
dtls_sendto(i) ==
    /\ Serving /\ i \in 1..Len(udp_peers)
    /\ CASE udp_peers[i].ssl = "NULL" -> daemon_state' = "segfault" /\ UNCHANGED network
         [] udp_peers[i].ssl = "without bio" -> UNCHANGED <<daemon_state, network>>
         [] OTHER -> network' = network \cup {"-1 bytes"} /\ UNCHANGED daemon_state
    /\ UNCHANGED <<udp_ctx, udp_peers, receiving, freed_twice, late_failure>>

dtls_recvfrom ==
    /\ Serving /\ ~receiving
    /\ receiving' = TRUE
    /\ UNCHANGED <<udp_ctx, udp_peers, network, freed_twice, late_failure, daemon_state>>

\* async_recvfrom returns -1.
dtls_recvfrom_fails ==
    /\ Serving /\ receiving
    /\ receiving' = FALSE
    /\ UNCHANGED <<udp_ctx, udp_peers, network, freed_twice, late_failure, daemon_state>>

\* find_peer: the first entry of the address, if there is one.
FindPeer(remote) ==
    {i \in 1..Len(udp_peers) : /\ udp_peers[i].remote = remote
                               /\ \A j \in 1..(i - 1) : udp_peers[j].remote # remote}

\* A datagram from remote.  SSL_read needs an SSL, and an unknown remote gets
\* none, since its flags are not exactly DTLS_ENABLE.  With an SSL the bytes
\* stay in the pair and nothing is pending.
dtls_recvfrom_resumes(remote) ==
    /\ Serving /\ receiving
    /\ receiving' = FALSE
    /\ IF FindPeer(remote) = {}
       THEN /\ RegisterPeer(remote, {"DTLS_ENABLE", "DTLS_SERVER"})
            /\ daemon_state' = "segfault"
       ELSE /\ daemon_state' = IF \E i \in FindPeer(remote) : udp_peers[i].ssl = "NULL"
                               THEN "segfault" ELSE daemon_state
            /\ UNCHANGED <<udp_peers, late_failure>>
    /\ UNCHANGED <<udp_ctx, network, freed_twice>>

-----------------------------------------------------------------------------
(* The end *)

\* The end of file of a connection erases an entry and frees nothing.
erase_peer(i) ==
    /\ Serving /\ i \in 1..Len(udp_peers)
    /\ udp_peers' = [j \in 1..(Len(udp_peers) - 1) |-> udp_peers[IF j < i THEN j ELSE j + 1]]
    /\ UNCHANGED <<udp_ctx, receiving, network, freed_twice, late_failure, daemon_state>>

\* Both ends of the pair are freed, then the SSL with the BIO it has.
FreesAgain(p) == p.bio = "freed" \/ (p.bio = "alive" /\ p.ssl = "with bio")

\* server_udp_exit
udp_peer_free ==
    /\ Serving
    /\ daemon_state' = "exited"
    /\ freed_twice' = \E i \in 1..Len(udp_peers) : FreesAgain(udp_peers[i])
    /\ udp_peers' = << >>
    /\ UNCHANGED <<udp_ctx, receiving, network, late_failure>>

-----------------------------------------------------------------------------
DtlsInit ==
    /\ udp_ctx = "none" /\ udp_peers = << >> /\ receiving = FALSE /\ network = {}
    /\ freed_twice = FALSE /\ late_failure = FALSE /\ daemon_state = "runs"

DtlsNext ==
    \/ create_udp_ctx
    \/ \E r \in Remotes, flags \in {{"DTLS_DISABLE"}, {"DTLS_ENABLE"}} : register_peer(r, flags)
    \/ \E i \in 1..MaxUdpPeers : dtls_sendto(i) \/ erase_peer(i)
    \/ dtls_recvfrom \/ dtls_recvfrom_fails
    \/ \E r \in Remotes : dtls_recvfrom_resumes(r)
    \/ udp_peer_free

DtlsSpec == DtlsInit /\ [][DtlsNext]_dtlsVars

-----------------------------------------------------------------------------
(* Properties *)

\* The types of the SSL and BIO pointers of the peers that dtls.c fills in.
DtlsTypeOK ==
    /\ udp_ctx \in {"none", "NULL", "with key", "without key"}
    /\ \A i \in 1..Len(udp_peers) : /\ udp_peers[i].bio \in {"NULL", "alive", "freed"}
                                    /\ udp_peers[i].ssl \in {"NULL", "with bio", "without bio"}
    /\ daemon_state \in {"runs", "segfault", "exited"}

\* udp_peer_free frees every BIO once, whatever was registered, erased and
\* failed before; except that a peer whose second SSL_new failed keeps the
\* pointers to the pair that dtls_new_peer freed.
BiosFreedOnce == freed_twice => late_failure

\* dtls_sendto hands nothing to the socket but what BIO_read gave it: the SSL
\* that is kept has no BIO, so no length of -1 gets as far as async_sendto.
LengthsAreSound == "-1 bytes" \notin network

\* The pointers that a peer keeps after any failure are safe to use and to free.
PeerStateSound == BiosFreedOnce /\ LengthsAreSound

=============================================================================
