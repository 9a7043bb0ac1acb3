----------------------------- MODULE DataPlane -----------------------------
(***************************************************************************)
(* The data plane of one daemon: the fiber scheduler of src/sched.c        *)
(* and the three fibers that run on it, server_device (src/device.c),      *)
(* server_udp and broadcast_udp (src/udp.c).                               *)
(*                                                                         *)
(* A fiber runs until it calls an async_ function, which records an        *)
(* operation in fib_op, adds a libevent event and gives control back.      *)
(* sched_dispatch is the callback of all those events: it performs the     *)
(* system call the operation names, if the event is of the right kind, and *)
(* resumes the fiber whatever happened.  An action named after a fiber is  *)
(* one call of sched_dispatch: the system call and the code of the fiber   *)
(* up to its next async_ call.  A fiber calls each async_ function at one  *)
(* place, so the operation also tells where the fiber is.                  *)
(*                                                                         *)
(* The tap device, the UDP socket and libevent are external.  The meta     *)
(* connections change udp_peers between any two dispatches.                *)
(***************************************************************************)
EXTENDS Integers, Sequences

CONSTANTS
    Peers,       \* the UDP endpoints of other daemons
    Unsound,     \* the datagrams with a bad checksum
    MaxTap,      \* bound: frames the tap device delivers
    MaxUdp,      \* bound: datagrams the socket receives
    MaxChanges   \* bound: changes of udp_peers

ASSUME DataPlaneAssumption ==
    /\ MaxTap \in Nat
    /\ MaxUdp \in Nat
    /\ MaxChanges \in Nat
    /\ Unsound \subseteq 1..MaxUdp

Fibers == {"device_fib", "udp_recv_fib", "udp_brd_fib"}

\* The operations of enum sched_operation the three fibers use.
Ops == {"NONE", "EVENT", "YIELD", "RECVFROM", "RECV", "SEND", "SENDTO",
        "WRITE", "FREE"}

\* The events of the map_fe of all fibers: a descriptor and a direction.
Events == Fibers \X {"tap", "udp"} \X {"EV_READ", "EV_WRITE"}

\* A datagram, numbered in the order the socket queues them.
Datagrams == [id : 1..MaxUdp, from : Peers]

None == [id |-> 0]

VARIABLES
    alive,           \* no fiber has gone through a freed block yet
    op,              \* per fiber: fib_op.op_type
    ret,             \* fib_op.ret of udp_brd_fib, which may be read stale
    armed,           \* the events libevent waits for
    active,          \* the yield_event of udp_brd_fib is active
    it, ite,         \* per fiber: its iterators over udp_peers
    fit, fite,       \* broadcast_udp's iterators over frames_to_send
    moved,           \* the iterators whose vector moved since
    hdr,             \* server_udp: the datagram whose header was peeked
    current_frame,   \* server_udp: the datagram that was received
    frames_to_send,  \* s->frames_to_send
    udp_peers,       \* s->udp->udp_peers
    tap_in,          \* frames the device has for reading
    tap_out,         \* datagrams whose frame was written to the device
    sock_in,         \* datagrams the socket has for reading
    sent,            \* datagrams sent: origin, number, destination
    tried,           \* frames of the device the broadcast loop has reached
    freed,           \* frames of the device that were freed
    ntap, nudp, changes  \* counters for the bounds

frames == <<fit, fite, frames_to_send, tried, freed>>
reception == <<hdr, current_frame, sock_in, tap_out>>
counters == <<ntap, nudp, changes>>
vars == <<alive, op, ret, armed, active, it, ite, moved, frames, reception,
          udp_peers, tap_in, sent, counters>>

Elems(v) == {v[i] : i \in DOMAIN v}

Init ==
    /\ alive = TRUE
    /\ op = [f \in Fibers |-> "NONE"]
    /\ ret = 0
    /\ armed = {}
    /\ active = FALSE
    /\ it = [f \in Fibers |-> 1]
    /\ ite = [f \in Fibers |-> 1]
    /\ fit = 1
    /\ fite = 1
    /\ moved = {}
    /\ hdr = None
    /\ current_frame = None
    /\ frames_to_send = <<>>
    /\ udp_peers = <<>>
    /\ tap_in = <<>>
    /\ tap_out = <<>>
    /\ sock_in = <<>>
    /\ sent = {}
    /\ tried = {}
    /\ freed = {}
    /\ ntap = 0
    /\ nudp = 0
    /\ changes = 0

----------------------------------------------------------------------------
(* The outside: the tap device, the socket and the meta-connections. *)

TapDelivers ==
    /\ ntap < MaxTap
    /\ ntap' = ntap + 1
    /\ tap_in' = Append(tap_in, ntap + 1)
    /\ UNCHANGED <<alive, op, ret, armed, active, it, ite, moved, frames,
                   reception, udp_peers, sent, nudp, changes>>

UdpDelivers(p) ==
    /\ nudp < MaxUdp
    /\ nudp' = nudp + 1
    /\ sock_in' = Append(sock_in, [id |-> nudp + 1, from |-> p])
    /\ UNCHANGED <<alive, op, ret, armed, active, it, ite, moved, frames, hdr,
                   current_frame, tap_out, udp_peers, tap_in, sent, ntap,
                   changes>>

\* A fiber suspended in async_sendto holds iterators over udp_peers.
Sending(f) == op[f] \in {"SEND", "SENDTO"}

\* udp_register_new_peer, from server_mc_read_cb.  v_udp_insert may move the
\* vector to a larger block, under the iterators of suspended fibers.
udp_register_new_peer(p, grows) ==
    /\ changes < MaxChanges
    /\ changes' = changes + 1
    /\ udp_peers' = Append(udp_peers, p)
    /\ moved' = IF grows THEN moved \cup {<<f, "it">> : f \in {g \in Fibers : Sending(g)}}
                ELSE moved
    /\ UNCHANGED <<alive, op, ret, armed, active, it, ite, frames, reception,
                   tap_in, sent, ntap, nudp>>

\* v_udp_erase of entry i, from the EOF branch of server_mc_event_cb.
v_udp_erase(i) ==
    /\ changes < MaxChanges
    /\ changes' = changes + 1
    /\ udp_peers' = [j \in 1..(Len(udp_peers) - 1) |->
                      IF j < i THEN udp_peers[j] ELSE udp_peers[j + 1]]
    /\ UNCHANGED <<alive, op, ret, armed, active, it, ite, moved, frames,
                   reception, tap_in, sent, ntap, nudp>>

----------------------------------------------------------------------------
(* The scheduler. *)

\* Mutant: the fired event is removed after the new one was added.
Suspend_then_remove(f, o, fired, fd, rw) ==
    /\ op' = [op EXCEPT ![f] = o]
    /\ armed' = (armed \cup {<<f, fd, rw>>}) \ fired

\* The async_ functions: the operation is recorded and the event added.
\* fired is the event being dispatched, no longer pending, if there is one.
Suspend(f, o, fired, fd, rw) ==
    /\ op' = [op EXCEPT ![f] = o]
    /\ armed' = (armed \ fired) \cup {<<f, fd, rw>>}

\* Mutant: async_sendto records the operation of another function.
SendtoOp_read == "READ"

\* The operation async_sendto records.
SendtoOp == "SEND"

\* sched_dispatch on EV_WRITE for a fiber in async_sendto: what the system
\* call returns.  The socket is not connected, so send(), which is given no
\* address, fails.
SendResult(f) == IF op[f] = "SENDTO" THEN 0 ELSE -1

\* ... and what it puts on the network.
Transmit(f, origin, n) ==
    sent' = IF op[f] = "SENDTO" /\ it[f] \in DOMAIN udp_peers
            THEN sent \cup {<<origin, n, udp_peers[it[f]]>>}
            ELSE sent

\* server_set_device: server_udp_launch and sched_fiber_launch run the fibers
\* to their first async_ call.
server_set_device ==
    /\ \A f \in Fibers : op[f] = "NONE"
    /\ op' = [f \in Fibers |-> CASE f = "device_fib" -> "EVENT"
                                 [] f = "udp_recv_fib" -> "RECVFROM"
                                 [] f = "udp_brd_fib" -> "YIELD"]
    /\ armed' = {<<"device_fib", "tap", "EV_READ">>,
                 <<"udp_recv_fib", "udp", "EV_READ">>}
    /\ UNCHANGED <<alive, ret, active, it, ite, moved, frames, reception,
                   udp_peers, tap_in, sent, counters>>

----------------------------------------------------------------------------
(* server_device. *)

\* Mutant: broadcast_udp_to_peers is not called.
device_without_wake(grows) ==
    /\ op["device_fib"] = "EVENT"
    /\ <<"device_fib", "tap", "EV_READ">> \in armed
    /\ tap_in # <<>>
    /\ frames_to_send' = frames_to_send \o tap_in
    /\ tap_in' = <<>>
    /\ UNCHANGED <<alive, op, ret, armed, active, moved, it, ite, fit, fite,
                   tried, freed, reception, udp_peers, sent, counters>>

\* Every frame the device has is pushed on frames_to_send and broadcast_udp
\* is woken (async_wake).  v_frame_push may move the vector.
server_device(grows) ==
    /\ op["device_fib"] = "EVENT"
    /\ <<"device_fib", "tap", "EV_READ">> \in armed
    /\ tap_in # <<>>
    /\ frames_to_send' = frames_to_send \o tap_in
    /\ tap_in' = <<>>
    /\ active' = TRUE
    /\ moved' = IF grows /\ Sending("udp_brd_fib")
                THEN moved \cup {<<"udp_brd_fib", "fit">>} ELSE moved
    /\ Suspend("device_fib", "EVENT", {<<"device_fib", "tap", "EV_READ">>},
               "tap", "EV_READ")
    /\ UNCHANGED <<alive, ret, it, ite, fit, fite, tried, freed, reception,
                   udp_peers, sent, counters>>

----------------------------------------------------------------------------
(* server_udp. *)

RecvReadable == <<"udp_recv_fib", "udp", "EV_READ">>
RecvWritable == <<"udp_recv_fib", "udp", "EV_WRITE">>
TapWritable == <<"udp_recv_fib", "tap", "EV_WRITE">>

\* Mutant: MSG_PEEK is missing.
peek_consumes ==
    /\ op["udp_recv_fib"] = "RECVFROM"
    /\ RecvReadable \in armed
    /\ sock_in # <<>>
    /\ Head(sock_in).id \notin Unsound
    /\ hdr' = Head(sock_in)
    /\ sock_in' = Tail(sock_in)
    /\ Suspend("udp_recv_fib", "RECV", {RecvReadable}, "udp", "EV_READ")
    /\ UNCHANGED <<alive, ret, active, it, ite, moved, frames, current_frame,
                   tap_out, udp_peers, tap_in, sent, counters>>

\* frame_recvfrom peeks the header and the sender of the next datagram.
server_udp_peek ==
    /\ op["udp_recv_fib"] = "RECVFROM"
    /\ RecvReadable \in armed
    /\ sock_in # <<>>
    /\ Head(sock_in).id \notin Unsound
    /\ hdr' = Head(sock_in)
    /\ Suspend("udp_recv_fib", "RECV", {RecvReadable}, "udp", "EV_READ")
    /\ UNCHANGED <<alive, ret, active, it, ite, moved, frames, current_frame,
                   sock_in, tap_out, udp_peers, tap_in, sent, counters>>

\* The kernel finds the checksum wrong, discards the datagram and recvfrom
\* fails with EAGAIN: frame_recvfrom returns -1 and the fiber exits.
server_udp_exits ==
    /\ op["udp_recv_fib"] = "RECVFROM"
    /\ RecvReadable \in armed
    /\ sock_in # <<>>
    /\ Head(sock_in).id \in Unsound
    /\ sock_in' = Tail(sock_in)
    /\ op' = [op EXCEPT !["udp_recv_fib"] = "FREE"]
    /\ armed' = armed \ {RecvReadable}
    /\ UNCHANGED <<alive, ret, active, it, ite, moved, frames, hdr,
                   current_frame, tap_out, udp_peers, tap_in, sent, counters>>

\* forward_udp_frame_to_other_peers from entry i of udp_peers on: the next
\* entry that is not the sender is sent to; after the last one the frame is
\* written to the device.
ForwardFrom(i, end, from, fired) ==
    LET others == {j \in i..(end - 1) :
                     ~(j \in DOMAIN udp_peers /\ udp_peers[j] = from)}
    IN  IF others = {}
        THEN /\ Suspend("udp_recv_fib", "WRITE", fired, "tap", "EV_WRITE")
             /\ moved' = moved \ {<<"udp_recv_fib", "it">>}
             /\ UNCHANGED <<it, ite>>
        ELSE /\ Suspend("udp_recv_fib", SendtoOp, fired, "udp", "EV_WRITE")
             /\ it' = [it EXCEPT !["udp_recv_fib"] =
                         CHOOSE j \in others : \A k \in others : j <= k]
             /\ ite' = [ite EXCEPT !["udp_recv_fib"] = end]
             /\ UNCHANGED moved

\* frame_recvfrom takes the datagram; the sender is the one it peeked.
server_udp_recv ==
    /\ op["udp_recv_fib"] = "RECV"
    /\ RecvReadable \in armed
    /\ sock_in # <<>>
    /\ current_frame' = Head(sock_in)
    /\ sock_in' = Tail(sock_in)
    /\ ForwardFrom(1, Len(udp_peers) + 1, hdr.from, {RecvReadable})
    /\ UNCHANGED <<alive, ret, active, frames, hdr, tap_out, udp_peers,
                   tap_in, sent, counters>>

\* The socket is writable: forwarding goes on, or stops at the first error.
server_udp_sendto ==
    /\ Sending("udp_recv_fib")
    /\ RecvWritable \in armed
    /\ Transmit("udp_recv_fib", "udp", current_frame.id)
    /\ ForwardFrom(IF SendResult("udp_recv_fib") = -1 THEN ite["udp_recv_fib"]
                   ELSE it["udp_recv_fib"] + 1,
                   ite["udp_recv_fib"], hdr.from, {RecvWritable})
    /\ UNCHANGED <<alive, ret, active, frames, reception, udp_peers, tap_in,
                   counters>>

\* The frame is written to the device and freed, and the next one peeked.
server_udp_write ==
    /\ op["udp_recv_fib"] = "WRITE"
    /\ TapWritable \in armed
    /\ tap_out' = Append(tap_out, current_frame)
    /\ hdr' = None
    /\ current_frame' = None
    /\ Suspend("udp_recv_fib", "RECVFROM", {TapWritable}, "udp", "EV_READ")
    /\ UNCHANGED <<alive, ret, active, it, ite, moved, frames, sock_in,
                   udp_peers, tap_in, sent, counters>>

----------------------------------------------------------------------------
(* broadcast_udp. *)

BrdWritable == <<"udp_brd_fib", "udp", "EV_WRITE">>
BrdIterators == {<<"udp_brd_fib", "it">>, <<"udp_brd_fib", "fit">>}

\* The frames at positions i to j - 1 of frames_to_send.
FramesBetween(i, j) == {frames_to_send[k] : k \in i..(j - 1)}

\* _broadcast_udp_to_peers from frame i on: the first peer is sent to.  Behind
\* the last frame, or when there is no peer, every frame of the vector is
\* freed and the fiber yields.
BroadcastFrom(i, end, fired) ==
    IF i = end \/ udp_peers = <<>>
    THEN /\ tried' = tried \cup FramesBetween(i, end)
         /\ freed' = freed \cup Elems(frames_to_send)
         /\ frames_to_send' = <<>>
         /\ op' = [op EXCEPT !["udp_brd_fib"] = "YIELD"]
         /\ armed' = armed \ fired
         /\ moved' = moved \ BrdIterators
         /\ UNCHANGED <<fit, fite, it, ite>>
    ELSE /\ tried' = tried \cup {frames_to_send[i]}
         /\ fit' = i
         /\ fite' = end
         /\ it' = [it EXCEPT !["udp_brd_fib"] = 1]
         /\ ite' = [ite EXCEPT !["udp_brd_fib"] = Len(udp_peers) + 1]
         /\ Suspend("udp_brd_fib", SendtoOp, fired, "udp", "EV_WRITE")
         /\ moved' = moved \ {<<"udp_brd_fib", "it">>}
         /\ UNCHANGED <<freed, frames_to_send>>

\* async_sendto has returned r: the next peer, or after an error or the last
\* peer the next frame.
BroadcastAfter(r, fired) ==
    IF r # -1 /\ it["udp_brd_fib"] + 1 # ite["udp_brd_fib"]
    THEN /\ it' = [it EXCEPT !["udp_brd_fib"] = @ + 1]
         /\ Suspend("udp_brd_fib", SendtoOp, fired, "udp", "EV_WRITE")
         /\ UNCHANGED <<ite, fit, fite, moved, tried, freed, frames_to_send>>
    ELSE BroadcastFrom(fit + 1, fite, fired)

\* The yield_event is dispatched (EV_TIMEOUT): no system call is made.  The
\* fiber goes on from async_yield, or from async_sendto with the old ret, its
\* EV_WRITE event still pending.
broadcast_udp_woken ==
    /\ active
    /\ active' = FALSE
    /\ IF op["udp_brd_fib"] = "YIELD"
       THEN BroadcastFrom(1, Len(frames_to_send) + 1, {})
       ELSE BroadcastAfter(ret, {})
    /\ UNCHANGED <<alive, ret, reception, udp_peers, tap_in, sent, counters>>

\* The socket is writable while the fiber waits in async_sendto.
broadcast_udp_sendto ==
    /\ Sending("udp_brd_fib")
    /\ BrdWritable \in armed
    /\ Transmit("udp_brd_fib", "tap", frames_to_send[fit])
    /\ ret' = SendResult("udp_brd_fib")
    /\ BroadcastAfter(SendResult("udp_brd_fib"), {BrdWritable})
    /\ UNCHANGED <<alive, active, reception, udp_peers, tap_in, counters>>

\* The event left over by a wake-up fires in async_yield: sched_dispatch makes
\* no system call and resumes the fiber.
broadcast_udp_spurious ==
    /\ op["udp_brd_fib"] = "YIELD"
    /\ BrdWritable \in armed
    /\ BroadcastFrom(1, Len(frames_to_send) + 1, {BrdWritable})
    /\ UNCHANGED <<alive, ret, active, reception, udp_peers, tap_in, sent,
                   counters>>

----------------------------------------------------------------------------
\* What async_sendto may return to fiber f at its next dispatch.
Results(f) == {SendResult(f)} \cup
              (IF f = "udp_brd_fib" /\ active THEN {ret} ELSE {})

\* A fiber resumed in async_sendto reads through an iterator whose block was
\* freed: `it' always, `fit' unless the send failed on the last frame.  One
\* outcome is that the process dies; the other, the old block being intact, is
\* the dispatch above.
use_after_free(f) ==
    /\ Sending(f)
    /\ \/ <<f, "it">> \in moved
       \/ /\ <<f, "fit">> \in moved
          /\ fit + 1 # fite \/ \E r \in Results(f) : r # -1
    /\ alive' = FALSE
    /\ UNCHANGED <<op, ret, armed, active, it, ite, moved, frames, reception,
                   udp_peers, tap_in, sent, counters>>

Next ==
    /\ alive
    /\ \/ TapDelivers
       \/ \E p \in Peers : UdpDelivers(p)
       \/ \E p \in Peers, grows \in BOOLEAN : udp_register_new_peer(p, grows)
       \/ \E i \in DOMAIN udp_peers : v_udp_erase(i)
       \/ server_set_device
       \/ \E grows \in BOOLEAN : server_device(grows)
       \/ server_udp_peek
       \/ server_udp_exits
       \/ server_udp_recv
       \/ server_udp_sendto
       \/ server_udp_write
       \/ broadcast_udp_woken
       \/ broadcast_udp_sendto
       \/ broadcast_udp_spurious
       \/ \E f \in Fibers : use_after_free(f)

Spec == Init /\ [][Next]_vars

\* libevent dispatches every event that stays ready.
Fairness ==
    /\ WF_vars(alive /\ \E grows \in BOOLEAN : server_device(grows))
    /\ WF_vars(alive /\ server_udp_peek)
    /\ WF_vars(alive /\ server_udp_exits)
    /\ WF_vars(alive /\ server_udp_recv)
    /\ WF_vars(alive /\ server_udp_sendto)
    /\ WF_vars(alive /\ server_udp_write)
    /\ WF_vars(alive /\ broadcast_udp_woken)
    /\ WF_vars(alive /\ broadcast_udp_sendto)
    /\ WF_vars(alive /\ broadcast_udp_spurious)

FairSpec == Spec /\ Fairness

----------------------------------------------------------------------------
(* Properties. *)

\* The state is well formed.
TypeOK ==
    /\ alive \in BOOLEAN
    /\ op \in [Fibers -> Ops]
    /\ ret \in {-1, 0}
    /\ armed \subseteq Events
    /\ active \in BOOLEAN
    /\ it \in [Fibers -> Nat]
    /\ ite \in [Fibers -> Nat]
    /\ fit \in Nat
    /\ fite \in Nat
    /\ moved \subseteq Fibers \X {"it", "fit"}
    /\ hdr \in Datagrams \cup {None}
    /\ current_frame \in Datagrams \cup {None}
    /\ frames_to_send \in Seq(1..MaxTap)
    /\ udp_peers \in Seq(Peers)
    /\ tap_in \in Seq(1..MaxTap)
    /\ tap_out \in Seq(Datagrams)
    /\ sock_in \in Seq(Datagrams)
    /\ sent \subseteq {"tap", "udp"} \X Nat \X Peers
    /\ tried \subseteq 1..MaxTap
    /\ freed \subseteq 1..MaxTap
    /\ ntap \in 0..MaxTap
    /\ nudp \in 0..MaxUdp
    /\ changes \in 0..MaxChanges

\* Every fiber that has been launched and has not exited can be resumed: a
\* fiber in async_yield by the next wake-up, any other by the one event its
\* operation waits for.  Wake-ups that interrupt async_sendto do not lose the
\* event (sched.c, get_events and sched_dispatch).
WaitsFor(f) ==
    CASE op[f] = "EVENT" -> {<<f, "tap", "EV_READ">>}
      [] op[f] \in {"RECVFROM", "RECV"} -> {<<f, "udp", "EV_READ">>}
      [] op[f] \in {"SEND", "SENDTO"} -> {<<f, "udp", "EV_WRITE">>}
      [] op[f] = "WRITE" -> {<<f, "tap", "EV_WRITE">>}
      [] OTHER -> {}

NoFiberStranded ==
    /\ \A f \in Fibers : WaitsFor(f) \subseteq armed
    /\ armed \subseteq (UNION {WaitsFor(f) : f \in Fibers}) \cup {BrdWritable}

\* No wake-up is lost: while frames wait, broadcast_udp is about to be woken
\* or in the middle of a broadcast (device.c, server_device; udp.c,
\* broadcast_udp).
FramesAwaitBroadcast ==
    frames_to_send # <<>> => active \/ Sending("udp_brd_fib")

\* Every frame read from the device is in frames_to_send, once and in order,
\* until it is freed, and is not in it afterwards: no frame leaks and none is
\* freed twice (udp.c, _broadcast_udp_to_peers).
FramesAccounted ==
    LET waiting == frames_to_send \o tap_in
        gone == ntap - Len(waiting)
    IN  /\ \A i \in DOMAIN waiting : waiting[i] = gone + i
        /\ freed = 1..gone

\* While broadcast_udp waits in async_sendto its iterators are before the ends
\* it saved, and the saved end of the frames is inside the vector as it is now,
\* whatever was pushed meanwhile.
BroadcastInBounds ==
    Sending("udp_brd_fib") =>
        /\ fit < fite
        /\ fite <= Len(frames_to_send) + 1
        /\ it["udp_brd_fib"] < ite["udp_brd_fib"]

\* The header that sized the buffer and the sender that is skipped when
\* forwarding are those of the datagram that was received (udp.c,
\* frame_recvfrom: MSG_PEEK and then recv).
HeaderMatches == current_frame # None => current_frame = hdr

\* The datagrams written to the device, the one in hand and the queued ones.
InHand == IF current_frame = None THEN <<>> ELSE <<current_frame>>
Pipeline == tap_out \o InHand \o sock_in

\* The frames of all sound datagrams reach the device in the order of arrival,
\* each once, as long as the fiber runs; failed forwarding loses none.  The
\* only datagram missing is the one on which the fiber exited (udp.c,
\* server_udp).
DeliveredInOrder ==
    /\ \A i, j \in DOMAIN Pipeline : i < j => Pipeline[i].id < Pipeline[j].id
    /\ Len(Pipeline) = nudp - (IF op["udp_recv_fib"] = "FREE" THEN 1 ELSE 0)

\* A frame read from the device is eventually released (udp.c,
\* _broadcast_udp_to_peers; libevent keeps dispatching).
FramesReleased ==
    \A i \in 1..MaxTap :
        i \in Elems(frames_to_send) ~> (i \in freed \/ ~alive)

\* A datagram the running fiber finds in the socket is eventually written to
\* the device, whatever happens to forwarding (udp.c, server_udp).
DatagramsReachDevice ==
    \A i \in 1..MaxUdp :
        (op["udp_recv_fib"] # "NONE" /\ \E d \in Elems(sock_in) : d.id = i)
          ~> \/ \E d \in Elems(tap_out) : d.id = i
             \/ op["udp_recv_fib"] = "FREE"
             \/ ~alive

\* The program never goes through a freed block (tnetacled.c:80).
NoSegfault == alive

\* A frame is only freed once the loop over "all the frames" has reached it
\* (udp.c:123).
AllFramesBroadcast == freed \subseteq tried

\* When server_udp turns from forwarding to the device, the frame has been
\* sent "to anyone else but except current peer" (udp.c:218).
ForwardedToOthers ==
    [][(op["udp_recv_fib"] = "SEND" /\ op'["udp_recv_fib"] = "WRITE") =>
         \A r \in Elems(udp_peers) \ {hdr.from} :
             <<"udp", current_frame.id, r>> \in sent']_vars

\* The broadcast loses no frame and no wake-up: frames that wait have a
\* broadcast coming, each is freed once and in order, and the iterators of
\* _broadcast_udp_to_peers stay within their vectors.
BroadcastSound == FramesAwaitBroadcast /\ FramesAccounted /\ BroadcastInBounds

\* server_udp writes to the device what the network gave it, in order, with the
\* header that belongs to it.
ReceptionSound == HeaderMatches /\ DeliveredInOrder

\* Data moves in both directions, whatever fails on the way.
DataFlows == FramesReleased /\ DatagramsReachDevice

=============================================================================
