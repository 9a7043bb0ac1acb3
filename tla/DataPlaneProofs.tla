-------------------------- MODULE DataPlaneProofs --------------------------
(***************************************************************************)
(* No fiber of the data plane is stranded, the broadcast loses neither a   *)
(* frame nor a wake-up, reception keeps datagrams in order, and the state  *)
(* is well formed, for any set of peers and any number of frames,          *)
(* datagrams and changes of udp_peers.                                     *)
(***************************************************************************)
EXTENDS DataPlane, NumberLemmas

DevReadable == <<"device_fib", "tap", "EV_READ">>

\* Where each fiber may be.  A wake-up is only pending for a launched fiber.
Places ==
    /\ DOMAIN op = Fibers
    /\ op["device_fib"] \in {"NONE", "EVENT"}
    /\ op["udp_recv_fib"] \in {"NONE", "RECVFROM", "RECV", "SEND", "WRITE", "FREE"}
    /\ op["udp_brd_fib"] \in {"NONE", "YIELD", "SEND"}
    /\ op["device_fib"] = "EVENT" => op["udp_brd_fib"] # "NONE"
    /\ active => op["udp_brd_fib"] # "NONE"

\* NoFiberStranded, fiber by fiber.
Armed ==
    /\ op["device_fib"] = "EVENT" => DevReadable \in armed
    /\ op["udp_recv_fib"] \in {"RECVFROM", "RECV"} => RecvReadable \in armed
    /\ op["udp_recv_fib"] = "SEND" => RecvWritable \in armed
    /\ op["udp_recv_fib"] = "WRITE" => TapWritable \in armed
    /\ op["udp_brd_fib"] = "SEND" => BrdWritable \in armed
    /\ \A e \in armed :
         \/ e = DevReadable /\ op["device_fib"] = "EVENT"
         \/ e = RecvReadable /\ op["udp_recv_fib"] \in {"RECVFROM", "RECV"}
         \/ e = RecvWritable /\ op["udp_recv_fib"] = "SEND"
         \/ e = TapWritable /\ op["udp_recv_fib"] = "WRITE"
         \/ e = BrdWritable

FiberInv == Places /\ Armed

\* The types the broadcast depends on.
BroadcastTypes ==
    /\ DOMAIN it = Fibers /\ it["udp_brd_fib"] \in Nat
    /\ DOMAIN ite = Fibers /\ ite["udp_brd_fib"] \in Nat
    /\ fit \in Nat
    /\ fite \in Nat
    /\ frames_to_send \in Seq(Nat)
    /\ tap_in \in Seq(Nat)
    /\ udp_peers \in Seq(Peers)
    /\ ntap \in Nat

----------------------------------------------------------------------------
\* Armed says what NoFiberStranded says of the places the fibers can be in.
LEMMA ArmedIsNotStranded == FiberInv => NoFiberStranded
<1> SUFFICES ASSUME FiberInv
             PROVE  NoFiberStranded
    OBVIOUS
<1> USE DEF FiberInv, Places, Armed, DevReadable, RecvReadable, RecvWritable,
            TapWritable, BrdWritable
<1>1. /\ op["device_fib"] = "EVENT" => WaitsFor("device_fib") = {DevReadable}
      /\ op["device_fib"] = "NONE" => WaitsFor("device_fib") = {}
    BY DEF WaitsFor
<1>2. /\ op["udp_recv_fib"] \in {"RECVFROM", "RECV"}
            => WaitsFor("udp_recv_fib") = {RecvReadable}
      /\ op["udp_recv_fib"] = "SEND" => WaitsFor("udp_recv_fib") = {RecvWritable}
      /\ op["udp_recv_fib"] = "WRITE" => WaitsFor("udp_recv_fib") = {TapWritable}
      /\ op["udp_recv_fib"] \in {"NONE", "FREE"} => WaitsFor("udp_recv_fib") = {}
    BY DEF WaitsFor
<1>3. /\ op["udp_brd_fib"] = "SEND" => WaitsFor("udp_brd_fib") = {BrdWritable}
      /\ op["udp_brd_fib"] \in {"NONE", "YIELD"} => WaitsFor("udp_brd_fib") = {}
    BY DEF WaitsFor
<1>4. \A f \in Fibers : WaitsFor(f) \subseteq armed
    BY <1>1, <1>2, <1>3 DEF Fibers
<1> DEFINE all == UNION {WaitsFor(f) : f \in Fibers}
<1>5. ASSUME NEW g \in Fibers
      PROVE  WaitsFor(g) \subseteq all
    BY Zenon
<1> HIDE DEF all
<1>6. armed \subseteq all \cup {BrdWritable}
  <2>1. "device_fib" \in Fibers /\ "udp_recv_fib" \in Fibers
    BY DEF Fibers
  <2>2. ASSUME NEW e \in armed
        PROVE  \/ e \in WaitsFor("device_fib") \/ e \in WaitsFor("udp_recv_fib")
               \/ e = BrdWritable
    BY <1>1, <1>2
  <2> QED
    BY <1>5, <2>1, <2>2
<1> QED
    BY <1>4, <1>6, Zenon DEF NoFiberStranded, all

\* An async_ call or an exit of a fiber preserves FiberInv: the fired event
\* goes, the one waited for comes.
LEMMA FiberStep == FiberInv /\ [Next]_vars => FiberInv'
<1> SUFFICES ASSUME FiberInv, [Next]_vars
             PROVE  FiberInv'
    OBVIOUS
<1> USE DEF FiberInv, Places, Armed, DevReadable, RecvReadable, RecvWritable,
            TapWritable, BrdWritable, Fibers
<1>1. CASE UNCHANGED <<op, armed, active>>
    BY <1>1
<1>2. CASE server_set_device
    BY <1>2 DEF server_set_device
<1>3. ASSUME NEW grows \in BOOLEAN, server_device(grows)
      PROVE  FiberInv'
    BY <1>3 DEF server_device, Suspend
<1>4. CASE server_udp_peek
    BY <1>4 DEF server_udp_peek, Suspend
<1>5. CASE server_udp_exits
    BY <1>5 DEF server_udp_exits
<1>6. ASSUME NEW i, NEW end, NEW from, NEW e \in {RecvReadable, RecvWritable},
             ForwardFrom(i, end, from, {e}), UNCHANGED active,
             \/ op["udp_recv_fib"] = "RECV" /\ e = RecvReadable
             \/ op["udp_recv_fib"] = "SEND" /\ e = RecvWritable
      PROVE  FiberInv'
  <2>1. \/ Suspend("udp_recv_fib", "WRITE", {e}, "tap", "EV_WRITE")
        \/ Suspend("udp_recv_fib", "SEND", {e}, "udp", "EV_WRITE")
    BY <1>6 DEF ForwardFrom, SendtoOp
  <2> QED
    BY <1>6, <2>1 DEF Suspend
<1>7. CASE server_udp_recv
    BY <1>6, <1>7 DEF server_udp_recv
<1>8. CASE server_udp_sendto
    BY <1>6, <1>8 DEF server_udp_sendto, Sending
<1>9. CASE server_udp_write
    BY <1>9 DEF server_udp_write, Suspend
<1>10. ASSUME NEW fired \in SUBSET {BrdWritable}, op["udp_brd_fib"] # "NONE",
              active' => active,
              \/ Suspend("udp_brd_fib", "SEND", fired, "udp", "EV_WRITE")
              \/ /\ op' = [op EXCEPT !["udp_brd_fib"] = "YIELD"]
                 /\ armed' = armed \ fired
       PROVE  FiberInv'
    BY <1>10 DEF Suspend
<1>11. ASSUME NEW i, NEW end, NEW fired, BroadcastFrom(i, end, fired)
       PROVE  \/ Suspend("udp_brd_fib", "SEND", fired, "udp", "EV_WRITE")
              \/ /\ op' = [op EXCEPT !["udp_brd_fib"] = "YIELD"]
                 /\ armed' = armed \ fired
    BY <1>11 DEF BroadcastFrom, SendtoOp
<1>12. ASSUME NEW r, NEW fired, BroadcastAfter(r, fired)
       PROVE  \/ Suspend("udp_brd_fib", "SEND", fired, "udp", "EV_WRITE")
              \/ /\ op' = [op EXCEPT !["udp_brd_fib"] = "YIELD"]
                 /\ armed' = armed \ fired
    BY <1>11, <1>12 DEF BroadcastAfter, SendtoOp
<1>13. CASE broadcast_udp_woken
    BY <1>10, <1>11, <1>12, <1>13 DEF broadcast_udp_woken
<1>14. CASE broadcast_udp_sendto
    BY <1>10, <1>12, <1>14 DEF broadcast_udp_sendto, Sending
<1>15. CASE broadcast_udp_spurious
    BY <1>10, <1>11, <1>15 DEF broadcast_udp_spurious
<1>16. \/ UNCHANGED <<op, armed, active>>
       \/ server_set_device \/ \E grows \in BOOLEAN : server_device(grows)
       \/ server_udp_peek \/ server_udp_exits \/ server_udp_recv
       \/ server_udp_sendto \/ server_udp_write \/ broadcast_udp_woken
       \/ broadcast_udp_sendto \/ broadcast_udp_spurious
    BY DEF Next, vars, TapDelivers, UdpDelivers, udp_register_new_peer,
           v_udp_erase, use_after_free
<1> QED
    BY <1>1, <1>2, <1>3, <1>4, <1>5, <1>7, <1>8, <1>9, <1>13, <1>14, <1>15, <1>16

\* Before the device is there no fiber is launched and no event armed.
LEMMA FiberInit == Init => FiberInv
    BY DEF Init, FiberInv, Places, Armed, Fibers

\* Every launched fiber can be resumed, at any time: the wake-up of
\* broadcast_udp in the middle of async_sendto included (sched.c,
\* sched_dispatch and the async_ functions).
THEOREM FibersNotStranded == Spec => []NoFiberStranded
<1>1. Init => FiberInv
    BY FiberInit
<1>2. FiberInv /\ [Next]_vars => FiberInv'
    BY FiberStep
<1>3. FiberInv => NoFiberStranded
    BY ArmedIsNotStranded
<1> QED
    BY <1>1, <1>2, <1>3, PTL DEF Spec

----------------------------------------------------------------------------
\* The frames are numbered from gone + 1 on, and the first gone of them freed.
Numbered(f, t, n, gone) ==
    /\ n = gone + Len(f) + Len(t)
    /\ gone \in Nat
    /\ \A i \in 1..Len(f) : f[i] = gone + i
    /\ \A i \in 1..Len(t) : t[i] = gone + Len(f) + i

\* FramesAccounted, with the two sequences apart.
Accounted ==
    \E gone \in Nat : Numbered(frames_to_send, tap_in, ntap, gone) /\ freed = 1..gone

BroadcastInv == BroadcastTypes /\ FramesAwaitBroadcast /\ Accounted /\ BroadcastInBounds

\* Accounted says what FramesAccounted says.
LEMMA AccountedIsAccounted ==
    ASSUME BroadcastTypes, Accounted
    PROVE  FramesAccounted
<1>1. PICK gone \in Nat : /\ Numbered(frames_to_send, tap_in, ntap, gone)
                          /\ freed = 1..gone
    BY DEF Accounted
<1> DEFINE waiting == frames_to_send \o tap_in
<1>2. Len(waiting) = Len(frames_to_send) + Len(tap_in) /\ DOMAIN waiting = 1..Len(waiting)
    BY DEF BroadcastTypes
<1>3. gone = ntap - Len(waiting)
    BY <1>1, <1>2 DEF Numbered, BroadcastTypes
<1>4. ASSUME NEW i \in DOMAIN waiting
      PROVE  waiting[i] = gone + i
  <2>1. CASE i <= Len(frames_to_send)
    BY <1>1, <1>2, <2>1 DEF Numbered, BroadcastTypes
  <2>2. CASE i > Len(frames_to_send)
    <3>1. /\ i - Len(frames_to_send) \in 1..Len(tap_in)
          /\ waiting[i] = tap_in[i - Len(frames_to_send)]
      BY <1>2, <2>2 DEF BroadcastTypes
    <3>2. Len(frames_to_send) \in Nat /\ i \in Nat
      BY <1>2 DEF BroadcastTypes
    <3> HIDE DEF waiting
    <3> QED
      BY <1>1, <3>1, <3>2 DEF Numbered
  <2> QED
    BY <1>2, <2>1, <2>2 DEF BroadcastTypes
<1> QED
    BY <1>1, <1>3, <1>4 DEF FramesAccounted

\* The device has one more frame.
LEMMA NumberedDelivered ==
    ASSUME NEW f \in Seq(Nat), NEW t \in Seq(Nat), NEW n \in Nat, NEW gone \in Nat,
           Numbered(f, t, n, gone)
    PROVE  Numbered(f, Append(t, n + 1), n + 1, gone)
    BY DEF Numbered

\* The device's frames are pushed on frames_to_send.
LEMMA NumberedPushed ==
    ASSUME NEW f \in Seq(Nat), NEW t \in Seq(Nat), NEW n \in Nat, NEW gone \in Nat,
           Numbered(f, t, n, gone)
    PROVE  Numbered(f \o t, <<>>, n, gone)
<1>1. Len(f \o t) = Len(f) + Len(t) /\ Len(<<>>) = 0
    OBVIOUS
<1>2. ASSUME NEW i \in 1..Len(f \o t)
      PROVE  (f \o t)[i] = gone + i
  <2>1. CASE i <= Len(f)
    BY <1>1, <2>1 DEF Numbered
  <2>2. CASE i > Len(f)
    <3>1. i - Len(f) \in 1..Len(t) /\ (f \o t)[i] = t[i - Len(f)]
      BY <1>1, <2>2
    <3> QED
      BY <1>1, <3>1 DEF Numbered
  <2> QED
    BY <1>1, <2>1, <2>2
<1> QED
    BY <1>1, <1>2 DEF Numbered

\* Every frame of frames_to_send is freed.
LEMMA NumberedFreed ==
    ASSUME NEW f \in Seq(Nat), NEW t \in Seq(Nat), NEW n \in Nat, NEW gone \in Nat,
           Numbered(f, t, n, gone)
    PROVE  /\ gone + Len(f) \in Nat
           /\ Numbered(<<>>, t, n, gone + Len(f))
           /\ (1..gone) \cup Elems(f) = 1..(gone + Len(f))
<1>1. Len(<<>>) = 0 /\ Len(f) \in Nat /\ Len(t) \in Nat /\ DOMAIN f = 1..Len(f)
    OBVIOUS
<1>2. Numbered(<<>>, t, n, gone + Len(f))
    BY <1>1 DEF Numbered
<1>3. ASSUME NEW k \in (1..gone) \cup Elems(f)
      PROVE  k \in 1..(gone + Len(f))
    BY <1>1 DEF Numbered, Elems
<1>4. ASSUME NEW k \in 1..(gone + Len(f))
      PROVE  k \in (1..gone) \cup Elems(f)
  <2>1. CASE k > gone
    <3>1. k - gone \in 1..Len(f) /\ f[k - gone] = k
      BY <1>1, <2>1 DEF Numbered
    <3> QED
      BY <1>1, <3>1 DEF Elems
  <2> QED
    BY <1>1, <2>1
<1>5. (1..gone) \cup Elems(f) = 1..(gone + Len(f))
    BY <1>3, <1>4
<1> QED
    BY <1>1, <1>2, <1>5

\* The code of _broadcast_udp_to_peers between two async_ calls: the rest of
\* the vector is freed, or the fiber waits in async_sendto within its bounds.
LEMMA BroadcastFromStep ==
    ASSUME Places, BroadcastInv, NEW i \in Nat, NEW end \in Nat, NEW fired,
           i <= end, end <= Len(frames_to_send) + 1,
           BroadcastFrom(i, end, fired), UNCHANGED <<udp_peers, tap_in, ntap>>
    PROVE  BroadcastInv'
<1>1. PICK gone \in Nat : /\ Numbered(frames_to_send, tap_in, ntap, gone)
                          /\ freed = 1..gone
    BY DEF BroadcastInv, Accounted
<1>2. CASE i = end \/ udp_peers = <<>>
  <2>1. /\ frames_to_send' = <<>> /\ freed' = freed \cup Elems(frames_to_send)
        /\ op'["udp_brd_fib"] = "YIELD" /\ UNCHANGED <<fit, fite, it, ite>>
    BY <1>2 DEF BroadcastFrom, Places, Fibers
  <2>2. BroadcastTypes'
    BY <2>1 DEF BroadcastInv, BroadcastTypes
  <2>3. Accounted'
    <3>1. /\ gone + Len(frames_to_send) \in Nat
          /\ Numbered(<<>>, tap_in, ntap, gone + Len(frames_to_send))
          /\ (1..gone) \cup Elems(frames_to_send) = 1..(gone + Len(frames_to_send))
      BY <1>1, NumberedFreed DEF BroadcastInv, BroadcastTypes
    <3> QED
      BY <1>1, <2>1, <3>1 DEF Accounted
  <2> QED
    BY <2>1, <2>2, <2>3 DEF BroadcastInv, FramesAwaitBroadcast, BroadcastInBounds, Sending
<1>3. CASE ~(i = end \/ udp_peers = <<>>)
  <2>1. /\ UNCHANGED <<freed, frames_to_send>> /\ fit' = i /\ fite' = end
        /\ op'["udp_brd_fib"] = "SEND"
        /\ it' = [it EXCEPT !["udp_brd_fib"] = 1]
        /\ ite' = [ite EXCEPT !["udp_brd_fib"] = Len(udp_peers) + 1]
    BY <1>3 DEF BroadcastFrom, Suspend, SendtoOp, Places, Fibers
  <2>2. Len(udp_peers) \in Nat /\ Len(udp_peers) # 0
    BY <1>3 DEF BroadcastInv, BroadcastTypes
  <2>3. BroadcastTypes'
    BY <2>1, <2>2 DEF BroadcastInv, BroadcastTypes, Fibers
  <2>4. BroadcastInBounds'
    BY <1>3, <2>1, <2>2 DEF BroadcastInv, BroadcastTypes, BroadcastInBounds, Fibers
  <2>5. Accounted'
    BY <2>1 DEF BroadcastInv, Accounted
  <2> QED
    BY <2>1, <2>3, <2>4, <2>5 DEF BroadcastInv, FramesAwaitBroadcast, Sending
<1> QED
    BY <1>2, <1>3

\* What follows a return from async_sendto.
LEMMA BroadcastAfterStep ==
    ASSUME Places, BroadcastInv, Sending("udp_brd_fib"), NEW r, NEW fired,
           BroadcastAfter(r, fired), UNCHANGED <<udp_peers, tap_in, ntap>>
    PROVE  BroadcastInv'
<1>1. /\ fit \in Nat /\ fite \in Nat /\ fit < fite
      /\ fite <= Len(frames_to_send) + 1
      /\ it["udp_brd_fib"] \in Nat /\ ite["udp_brd_fib"] \in Nat
      /\ it["udp_brd_fib"] < ite["udp_brd_fib"]
    BY DEF BroadcastInv, BroadcastTypes, BroadcastInBounds
<1>2. CASE r # -1 /\ it["udp_brd_fib"] + 1 # ite["udp_brd_fib"]
  <2>1. /\ it' = [it EXCEPT !["udp_brd_fib"] = @ + 1]
        /\ op'["udp_brd_fib"] = "SEND"
        /\ UNCHANGED <<ite, fit, fite, freed, frames_to_send>>
    BY <1>2 DEF BroadcastAfter, Suspend, SendtoOp, Places, Fibers
  <2>2. BroadcastTypes' /\ it'["udp_brd_fib"] = it["udp_brd_fib"] + 1
    BY <1>1, <2>1 DEF BroadcastInv, BroadcastTypes, Fibers
  <2>3. BroadcastInBounds'
    BY <1>1, <1>2, <2>1, <2>2 DEF BroadcastInBounds
  <2>4. Accounted'
    BY <2>1 DEF BroadcastInv, Accounted
  <2> QED
    BY <2>1, <2>2, <2>3, <2>4 DEF BroadcastInv, FramesAwaitBroadcast, Sending
<1>3. CASE ~(r # -1 /\ it["udp_brd_fib"] + 1 # ite["udp_brd_fib"])
  <2>1. BroadcastFrom(fit + 1, fite, fired)
    BY <1>3 DEF BroadcastAfter
  <2>2. fit + 1 \in Nat /\ fit + 1 <= fite
    BY <1>1
  <2> QED
    BY <1>1, <2>1, <2>2, BroadcastFromStep
<1> QED
    BY <1>2, <1>3

\* The steps that leave the broadcast as it is.
LEMMA BroadcastUntouched ==
    ASSUME BroadcastInv, BroadcastTypes',
           UNCHANGED <<active, fit, fite, frames_to_send, freed, tap_in, ntap>>,
           it'["udp_brd_fib"] = it["udp_brd_fib"],
           ite'["udp_brd_fib"] = ite["udp_brd_fib"],
           Sending("udp_brd_fib")' = Sending("udp_brd_fib")
    PROVE  BroadcastInv'
<1>1. Accounted'
    BY DEF BroadcastInv, Accounted
<1>2. FramesAwaitBroadcast' /\ BroadcastInBounds'
    BY DEF BroadcastInv, FramesAwaitBroadcast, BroadcastInBounds
<1> QED
    BY <1>1, <1>2 DEF BroadcastInv

\* Every step preserves BroadcastInv.
LEMMA BroadcastStep == Places /\ BroadcastInv /\ [Next]_vars => BroadcastInv'
<1> SUFFICES ASSUME Places, BroadcastInv, [Next]_vars
             PROVE  BroadcastInv'
    OBVIOUS
<1>0. BroadcastTypes
    BY DEF BroadcastInv
<1>1. PICK gone \in Nat : /\ Numbered(frames_to_send, tap_in, ntap, gone)
                          /\ freed = 1..gone
    BY DEF BroadcastInv, Accounted
<1>2. CASE TapDelivers
  <2>1. /\ tap_in' = Append(tap_in, ntap + 1) /\ ntap' = ntap + 1
        /\ UNCHANGED <<op, active, it, ite, fit, fite, frames_to_send, freed, udp_peers>>
    BY <1>2 DEF TapDelivers, frames
  <2>2. BroadcastTypes'
    BY <1>0, <2>1 DEF BroadcastTypes
  <2>3. Accounted'
    <3>1. Numbered(frames_to_send, Append(tap_in, ntap + 1), ntap + 1, gone)
      BY <1>0, <1>1, NumberedDelivered DEF BroadcastTypes
    <3> QED
      BY <1>1, <2>1, <3>1 DEF Accounted
  <2> QED
    BY <2>1, <2>2, <2>3 DEF BroadcastInv, FramesAwaitBroadcast, BroadcastInBounds, Sending
<1>3. CASE \E grows \in BOOLEAN : server_device(grows)
  <2>1. /\ frames_to_send' = frames_to_send \o tap_in /\ tap_in' = <<>>
        /\ active' = TRUE
        /\ op'["udp_brd_fib"] = op["udp_brd_fib"]
        /\ UNCHANGED <<it, ite, fit, fite, freed, udp_peers, ntap>>
    BY <1>3 DEF server_device, Suspend, Places, Fibers, counters
  <2>2. BroadcastTypes' /\ Len(frames_to_send') >= Len(frames_to_send)
    BY <1>0, <2>1 DEF BroadcastTypes
  <2>3. Accounted'
    <3>1. Numbered(frames_to_send \o tap_in, <<>>, ntap, gone)
      BY <1>0, <1>1, NumberedPushed DEF BroadcastTypes
    <3> QED
      BY <1>1, <2>1, <3>1 DEF Accounted
  <2>4. BroadcastInBounds'
    <3>1. Len(frames_to_send) \in Nat /\ Len(frames_to_send') \in Nat /\ fite \in Nat
      BY <1>0, <2>2 DEF BroadcastTypes
    <3> QED
      BY <2>1, <2>2, <3>1 DEF BroadcastInv, BroadcastInBounds, Sending
  <2> QED
    BY <2>1, <2>2, <2>3, <2>4 DEF BroadcastInv, FramesAwaitBroadcast
<1>4. CASE \/ \E p \in Peers, grows \in BOOLEAN : udp_register_new_peer(p, grows)
           \/ \E i \in DOMAIN udp_peers : v_udp_erase(i)
  <2>1. udp_peers' \in Seq(Peers)
    <3>1. ASSUME NEW p \in Peers, NEW grows \in BOOLEAN, udp_register_new_peer(p, grows)
          PROVE  udp_peers' \in Seq(Peers)
      BY <1>0, <3>1 DEF udp_register_new_peer, BroadcastTypes
    <3>2. ASSUME NEW i \in DOMAIN udp_peers, v_udp_erase(i)
          PROVE  udp_peers' \in Seq(Peers)
      <4>1. Len(udp_peers) - 1 \in Nat /\ i \in 1..Len(udp_peers)
        BY <1>0 DEF BroadcastTypes
      <4>2. \A j \in 1..(Len(udp_peers) - 1) :
              (IF j < i THEN udp_peers[j] ELSE udp_peers[j + 1]) \in Peers
        BY <1>0, <4>1 DEF BroadcastTypes
      <4> QED
        BY <3>2, <4>1, <4>2 DEF v_udp_erase
    <3> QED
      BY <1>4, <3>1, <3>2
  <2>2. UNCHANGED <<op, active, it, ite, fit, fite, frames_to_send, freed, tap_in, ntap>>
    BY <1>4 DEF udp_register_new_peer, v_udp_erase, frames
  <2>3. BroadcastTypes'
    BY <1>0, <2>1, <2>2 DEF BroadcastTypes
  <2> QED
    BY <2>2, <2>3, BroadcastUntouched DEF Sending
<1>5. CASE server_set_device
  <2>1. /\ ~Sending("udp_brd_fib") /\ ~Sending("udp_brd_fib")'
        /\ UNCHANGED <<active, it, ite, fit, fite, frames_to_send, freed,
                       tap_in, ntap, udp_peers>>
    BY <1>5 DEF server_set_device, Sending, Fibers, frames, counters
  <2>2. BroadcastTypes'
    BY <1>0, <2>1 DEF BroadcastTypes
  <2> QED
    BY <2>1, <2>2, BroadcastUntouched DEF Sending
<1>6. CASE \/ server_udp_peek \/ server_udp_exits \/ server_udp_recv
           \/ server_udp_sendto \/ server_udp_write
  <2>1. /\ op'["udp_brd_fib"] = op["udp_brd_fib"]
        /\ UNCHANGED <<active, fit, fite, frames_to_send, freed, tap_in, ntap, udp_peers>>
    BY <1>6 DEF server_udp_peek, server_udp_exits, server_udp_recv, server_udp_sendto,
                server_udp_write, ForwardFrom, Suspend, Places, Fibers, frames, counters
  <2>2. /\ \/ it' = it
           \/ \E j : it' = [it EXCEPT !["udp_recv_fib"] = j]
        /\ \/ ite' = ite
           \/ \E j : ite' = [ite EXCEPT !["udp_recv_fib"] = j]
    BY <1>6 DEF server_udp_peek, server_udp_exits, server_udp_recv, server_udp_sendto,
                server_udp_write, ForwardFrom
  <2>3. /\ DOMAIN it' = Fibers /\ it'["udp_brd_fib"] = it["udp_brd_fib"]
        /\ DOMAIN ite' = Fibers /\ ite'["udp_brd_fib"] = ite["udp_brd_fib"]
    BY <1>0, <2>2 DEF BroadcastTypes, Fibers
  <2>4. BroadcastTypes'
    BY <1>0, <2>1, <2>3 DEF BroadcastTypes
  <2> QED
    BY <2>1, <2>3, <2>4, BroadcastUntouched DEF Sending
<1>7. ASSUME BroadcastFrom(1, Len(frames_to_send) + 1, {})
             \/ BroadcastFrom(1, Len(frames_to_send) + 1, {BrdWritable}),
             UNCHANGED <<udp_peers, tap_in, ntap>>
      PROVE  BroadcastInv'
  <2>1. Len(frames_to_send) \in Nat
    BY <1>0 DEF BroadcastTypes
  <2> QED
    BY <1>7, <2>1, BroadcastFromStep
<1>8. CASE broadcast_udp_woken
  <2>1. UNCHANGED <<udp_peers, tap_in, ntap>> /\ active
    BY <1>8 DEF broadcast_udp_woken, counters
  <2>2. CASE op["udp_brd_fib"] = "YIELD"
    BY <1>7, <1>8, <2>1, <2>2 DEF broadcast_udp_woken
  <2>3. CASE op["udp_brd_fib"] # "YIELD"
    BY <1>8, <2>1, <2>3, BroadcastAfterStep DEF broadcast_udp_woken, Places, Sending
  <2> QED
    BY <2>2, <2>3
<1>9. CASE broadcast_udp_sendto
    BY <1>9, BroadcastAfterStep DEF broadcast_udp_sendto, counters
<1>10. CASE broadcast_udp_spurious
    BY <1>7, <1>10 DEF broadcast_udp_spurious, counters
<1>11. CASE UNCHANGED <<op, active, it, ite, frames, tap_in, ntap, udp_peers>>
  <2>1. BroadcastTypes'
    BY <1>0, <1>11 DEF BroadcastTypes, frames
  <2> QED
    BY <1>11, <2>1, BroadcastUntouched DEF frames, Sending
<1>12. ASSUME \/ \E p \in Peers : UdpDelivers(p)
              \/ \E f \in Fibers : use_after_free(f)
              \/ UNCHANGED vars
       PROVE  UNCHANGED <<op, active, it, ite, frames, tap_in, ntap, udp_peers>>
    BY <1>12 DEF UdpDelivers, use_after_free, vars, counters
<1> QED
    BY <1>2, <1>3, <1>4, <1>5, <1>6, <1>8, <1>9, <1>10, <1>11, <1>12 DEF Next

\* No frame has been read and none freed at the start.
LEMMA BroadcastInit == Init => BroadcastInv
<1> SUFFICES ASSUME Init
             PROVE  BroadcastInv
    OBVIOUS
<1>1. BroadcastTypes /\ FramesAwaitBroadcast /\ BroadcastInBounds
    BY DEF Init, BroadcastTypes, FramesAwaitBroadcast, BroadcastInBounds, Sending, Fibers
<1>2. Numbered(frames_to_send, tap_in, ntap, 0) /\ freed = 1..0
    BY DEF Init, Numbered
<1> QED
    BY <1>1, <1>2 DEF BroadcastInv, Accounted

\* While frames wait a broadcast of them is coming, every frame read from the
\* device is freed once and in order, and the iterators of
\* _broadcast_udp_to_peers stay within the vectors, whatever is pushed, added
\* or erased while the fiber waits in async_sendto (device.c, server_device;
\* udp.c, broadcast_udp).
THEOREM BroadcastCorrect == Spec => []BroadcastSound
<1>1. Init => FiberInv /\ BroadcastInv
    BY FiberInit, BroadcastInit
<1>2. FiberInv /\ BroadcastInv /\ [Next]_vars => (FiberInv /\ BroadcastInv)'
    BY FiberStep, BroadcastStep DEF FiberInv
<1>3. BroadcastInv => BroadcastSound
    BY AccountedIsAccounted DEF BroadcastInv, BroadcastSound
<1> QED
    BY <1>1, <1>2, <1>3, PTL DEF Spec

----------------------------------------------------------------------------
Holding == {"SEND", "WRITE"}

\* DeliveredInOrder, with the parts of the pipeline apart.
Increasing(s) == \A i, j \in DOMAIN s : i < j => s[i].id < s[j].id
Ordered(out, d, in, n) ==
    /\ Increasing(out)
    /\ Increasing(in)
    /\ \A i \in DOMAIN out : /\ out[i].id <= n
                             /\ d # None => out[i].id < d.id
                             /\ \A j \in DOMAIN in : out[i].id < in[j].id
    /\ \A j \in DOMAIN in : /\ in[j].id <= n
                            /\ d # None => d.id < in[j].id
    /\ d # None => d.id <= n
Counted(o, out, d, in, n) ==
    n = Len(out) + (IF d = None THEN 0 ELSE 1) + Len(in)
        + (IF o = "FREE" THEN 1 ELSE 0)

ReceptionTypes ==
    /\ tap_out \in Seq(Datagrams)
    /\ sock_in \in Seq(Datagrams)
    /\ current_frame \in Datagrams \cup {None}
    /\ nudp \in 0..MaxUdp

\* server_udp holds a frame between recv and the write to the device, and its
\* header from the peek on.
ReceptionInv ==
    /\ ReceptionTypes
    /\ current_frame # None <=> op["udp_recv_fib"] \in Holding
    /\ op["udp_recv_fib"] = "RECV" => sock_in # <<>> /\ hdr = Head(sock_in)
    /\ HeaderMatches
    /\ Ordered(tap_out, current_frame, sock_in, nudp)
    /\ Counted(op["udp_recv_fib"], tap_out, current_frame, sock_in, nudp)

\* A datagram is not None.
LEMMA DatagramFacts ==
    ASSUME NEW d \in Datagrams
    PROVE  d # None /\ d.id \in Nat
    BY DEF Datagrams, None

\* The parts in order make a pipeline in order.
LEMMA OrderedPipeline == ReceptionInv => DeliveredInOrder
<1> SUFFICES ASSUME ReceptionInv
             PROVE  DeliveredInOrder
    OBVIOUS
<1> DEFINE hand == IF current_frame = None THEN 0 ELSE 1
           o == Len(tap_out)
<1>0. tap_out \in Seq(Datagrams) /\ sock_in \in Seq(Datagrams)
    BY DEF ReceptionInv, ReceptionTypes
<1>1. /\ InHand \in Seq(Datagrams) /\ Len(InHand) = hand
      /\ hand = 1 => current_frame # None /\ InHand[1] = current_frame
    BY DEF ReceptionInv, ReceptionTypes, InHand
<1>2. /\ o \in Nat /\ hand \in {0, 1} /\ Len(sock_in) \in Nat
      /\ Len(Pipeline) = o + hand + Len(sock_in)
      /\ DOMAIN Pipeline = 1..(o + hand + Len(sock_in))
      /\ DOMAIN tap_out = 1..o /\ DOMAIN sock_in = 1..Len(sock_in)
      /\ tap_out \o InHand \in Seq(Datagrams) /\ Len(tap_out \o InHand) = o + hand
  <2>1. /\ o \in Nat /\ hand \in {0, 1} /\ Len(sock_in) \in Nat
        /\ DOMAIN tap_out = 1..o /\ DOMAIN sock_in = 1..Len(sock_in)
    BY <1>0
  <2> HIDE DEF hand
  <2>2. tap_out \o InHand \in Seq(Datagrams) /\ Len(tap_out \o InHand) = o + hand
    BY <1>0, <1>1
  <2> HIDE DEF o
  <2>3. /\ Len(Pipeline) = o + hand + Len(sock_in)
        /\ DOMAIN Pipeline = 1..(o + hand + Len(sock_in))
    BY <1>0, <2>1, <2>2 DEF Pipeline
  <2> QED
    BY <2>1, <2>2, <2>3
<1>3. \A i \in DOMAIN Pipeline :
        Pipeline[i] = IF i <= o THEN tap_out[i]
                      ELSE IF i <= o + hand THEN current_frame
                      ELSE sock_in[i - o - hand]
  <2> SUFFICES ASSUME NEW i \in DOMAIN Pipeline
               PROVE  Pipeline[i] = IF i <= o THEN tap_out[i]
                                    ELSE IF i <= o + hand THEN current_frame
                                    ELSE sock_in[i - o - hand]
    OBVIOUS
  <2>2. CASE i <= o + hand
    <3>1. Pipeline[i] = (tap_out \o InHand)[i]
      BY <1>0, <1>2, <2>2 DEF Pipeline
    <3>2. CASE i <= o
      BY <1>0, <1>1, <1>2, <3>1, <3>2
    <3>3. CASE i > o
      <4>1. i = o + 1 /\ hand = 1
        BY <1>2, <2>2, <3>3
      <4>2. (tap_out \o InHand)[i] = InHand[1]
        BY <1>0, <1>1, <1>2, <4>1
      <4> QED
        BY <1>1, <1>2, <2>2, <3>1, <3>3, <4>1, <4>2
    <3> QED
      BY <1>2, <3>2, <3>3
  <2>3. CASE i > o + hand
    <3> HIDE DEF hand, o
    <3>1. Pipeline[i] = sock_in[i - (o + hand)]
      BY <1>0, <1>2, <2>3 DEF Pipeline
    <3>2. i - (o + hand) = i - o - hand /\ ~(i <= o) /\ ~(i <= o + hand)
      BY <1>2, <2>3
    <3> QED
      BY <3>1, <3>2
  <2> QED
    BY <1>2, <2>2, <2>3
<1>4. ASSUME NEW i \in DOMAIN Pipeline, NEW j \in DOMAIN Pipeline, i < j
      PROVE  Pipeline[i].id < Pipeline[j].id
  <2>1. hand = 1 => current_frame # None
    BY <1>1
  <2> HIDE DEF hand, o
  <2>2. Ordered(tap_out, current_frame, sock_in, nudp)
    BY DEF ReceptionInv
  <2>3. CASE j <= o
    BY <1>2, <1>3, <1>4, <2>2, <2>3 DEF Ordered, Increasing
  <2>4. CASE j > o /\ j <= o + hand
    BY <1>2, <1>3, <1>4, <2>1, <2>2, <2>4 DEF Ordered
  <2>5. CASE j > o + hand
    <3>1. j - o - hand \in DOMAIN sock_in /\ Pipeline[j] = sock_in[j - o - hand]
      BY <1>2, <1>3, <2>5
    <3>2. CASE i <= o + hand
      BY <1>2, <1>3, <2>1, <2>2, <3>1, <3>2 DEF Ordered
    <3>3. CASE i > o + hand
      <4>1. /\ i - o - hand \in DOMAIN sock_in /\ Pipeline[i] = sock_in[i - o - hand]
            /\ i - o - hand < j - o - hand
        BY <1>2, <1>3, <1>4, <3>3
      <4> QED
        BY <2>2, <3>1, <4>1 DEF Ordered, Increasing
    <3> QED
      BY <1>2, <3>2, <3>3
  <2> QED
    BY <1>2, <2>3, <2>4, <2>5
<1>5. Len(Pipeline) = nudp - (IF op["udp_recv_fib"] = "FREE" THEN 1 ELSE 0)
    BY <1>2 DEF ReceptionInv, ReceptionTypes, Counted
<1> QED
    BY <1>4, <1>5 DEF DeliveredInOrder

\* A datagram arrives behind all others.
LEMMA OrderedArrival ==
    ASSUME NEW out \in Seq(Datagrams), NEW in \in Seq(Datagrams),
           NEW d \in Datagrams \cup {None}, NEW n \in Nat, NEW e \in Datagrams,
           e.id = n + 1, Ordered(out, d, in, n)
    PROVE  Ordered(out, d, Append(in, e), n + 1)
<1> DEFINE queue == Append(in, e)
<1>1. /\ Len(in) \in Nat /\ DOMAIN in = 1..Len(in)
      /\ DOMAIN queue = 1..(Len(in) + 1)
      /\ \A j \in DOMAIN queue : \/ j \in DOMAIN in /\ queue[j] = in[j]
                                 \/ j = Len(in) + 1 /\ queue[j] = e
    OBVIOUS
<1>2. /\ \A i \in DOMAIN out : out[i].id \in Nat
      /\ \A j \in DOMAIN in : in[j].id \in Nat
      /\ d # None => d.id \in Nat
    BY DatagramFacts
<1>3. /\ \A i \in DOMAIN out : out[i].id < e.id /\ out[i].id <= n + 1
      /\ \A j \in DOMAIN in : in[j].id < e.id /\ in[j].id <= n + 1
      /\ d # None => d.id < e.id /\ d.id <= n + 1
      /\ e.id <= n + 1
    BY <1>2 DEF Ordered
<1> HIDE DEF queue
<1>4. ASSUME NEW i \in DOMAIN queue, NEW j \in DOMAIN queue, i < j
      PROVE  queue[i].id < queue[j].id
  <2>1. i \in DOMAIN in /\ queue[i] = in[i]
    BY <1>1, <1>4
  <2>2. CASE j \in DOMAIN in /\ queue[j] = in[j]
    BY <1>4, <2>1, <2>2 DEF Ordered, Increasing
  <2>3. CASE queue[j] = e
    BY <1>3, <2>1, <2>3
  <2> QED
    BY <1>1, <2>2, <2>3
<1>5. \A i \in DOMAIN out : \A j \in DOMAIN queue : out[i].id < queue[j].id
    BY <1>1, <1>3 DEF Ordered
<1>6. \A j \in DOMAIN queue : /\ queue[j].id <= n + 1
                              /\ d # None => d.id < queue[j].id
    BY <1>1, <1>3 DEF Ordered
<1>7. Increasing(queue)
    BY <1>4 DEF Increasing
<1>8. Ordered(out, d, queue, n + 1)
    BY <1>3, <1>5, <1>6, <1>7 DEF Ordered
<1> QED
    BY <1>8 DEF queue

\* The first datagram leaves the socket, and is in hand or lost.
LEMMA OrderedTaken ==
    ASSUME NEW out \in Seq(Datagrams), NEW in \in Seq(Datagrams), NEW n \in Nat,
           in # <<>>, Ordered(out, None, in, n)
    PROVE  Ordered(out, Head(in), Tail(in), n) /\ Ordered(out, None, Tail(in), n)
<1>1. /\ Len(in) \in Nat /\ Len(in) >= 1 /\ DOMAIN in = 1..Len(in) /\ Head(in) = in[1]
      /\ DOMAIN Tail(in) = 1..(Len(in) - 1)
      /\ \A j \in 1..(Len(in) - 1) : Tail(in)[j] = in[j + 1]
    OBVIOUS
<1>2. Increasing(Tail(in))
    BY <1>1 DEF Ordered, Increasing
<1>3. \A j \in DOMAIN Tail(in) : /\ j + 1 \in DOMAIN in /\ Tail(in)[j] = in[j + 1]
                                 /\ Head(in).id < Tail(in)[j].id
    BY <1>1 DEF Ordered, Increasing
<1>4. 1 \in DOMAIN in /\ Head(in) = in[1]
    BY <1>1
<1> QED
    BY <1>2, <1>3, <1>4 DEF Ordered

\* The frame in hand is written behind all others.
LEMMA OrderedWritten ==
    ASSUME NEW out \in Seq(Datagrams), NEW in \in Seq(Datagrams), NEW n \in Nat,
           NEW d \in Datagrams, Ordered(out, d, in, n)
    PROVE  Ordered(Append(out, d), None, in, n)
<1>1. /\ Len(out) \in Nat /\ DOMAIN out = 1..Len(out)
      /\ DOMAIN Append(out, d) = 1..(Len(out) + 1)
      /\ \A i \in 1..Len(out) : Append(out, d)[i] = out[i]
      /\ Append(out, d)[Len(out) + 1] = d
    OBVIOUS
<1>2. d # None
    BY DatagramFacts
<1>3. Increasing(Append(out, d))
    BY <1>1, <1>2 DEF Ordered, Increasing
<1>4. \A i \in DOMAIN Append(out, d) :
        /\ Append(out, d)[i].id <= n
        /\ \A j \in DOMAIN in : Append(out, d)[i].id < in[j].id
    BY <1>1, <1>2 DEF Ordered
<1> QED
    BY <1>3, <1>4 DEF Ordered

\* Every step preserves ReceptionInv.
LEMMA ReceptionStep == Places /\ ReceptionInv /\ [Next]_vars => ReceptionInv'
<1> SUFFICES ASSUME Places, ReceptionInv, [Next]_vars
             PROVE  ReceptionInv'
    OBVIOUS
<1>0. /\ tap_out \in Seq(Datagrams) /\ sock_in \in Seq(Datagrams)
      /\ current_frame \in Datagrams \cup {None} /\ nudp \in Nat /\ nudp \in 0..MaxUdp
      /\ MaxUdp \in Nat
      /\ Ordered(tap_out, current_frame, sock_in, nudp)
      /\ Counted(op["udp_recv_fib"], tap_out, current_frame, sock_in, nudp)
    BY DataPlaneAssumption DEF ReceptionInv, ReceptionTypes
<1>a. /\ Len(tap_out) \in Nat /\ Len(sock_in) \in Nat /\ nudp \in Nat
      /\ Counted(op["udp_recv_fib"], tap_out, current_frame, sock_in, nudp)
    BY <1>0
<1>1. CASE UNCHANGED <<reception, nudp>> /\ op'["udp_recv_fib"] = op["udp_recv_fib"]
    BY <1>1 DEF ReceptionInv, ReceptionTypes, HeaderMatches, reception, Counted
<1>2. ASSUME NEW p \in Peers, UdpDelivers(p)
      PROVE  ReceptionInv'
  <2> DEFINE e == [id |-> nudp + 1, from |-> p]
  <2>1. /\ e \in Datagrams /\ e.id = nudp + 1 /\ nudp + 1 \in 0..MaxUdp
        /\ sock_in' = Append(sock_in, e) /\ nudp' = nudp + 1
        /\ UNCHANGED <<op, hdr, current_frame, tap_out>>
    BY <1>0, <1>2 DEF UdpDelivers, Datagrams
  <2> HIDE DEF e
  <2>2. /\ sock_in' \in Seq(Datagrams) /\ Len(sock_in') = Len(sock_in) + 1
        /\ sock_in # <<>> => sock_in' # <<>> /\ Head(sock_in') = Head(sock_in)
    BY <1>0, <2>1
  <2>3. Ordered(tap_out', current_frame', sock_in', nudp')
    BY <1>0, <2>1, OrderedArrival
  <2>4. Counted(op'["udp_recv_fib"], tap_out', current_frame', sock_in', nudp')
    <3>1. /\ op' = op /\ tap_out' = tap_out /\ current_frame' = current_frame
          /\ nudp' = nudp + 1 /\ Len(sock_in') = Len(sock_in) + 1
      BY <2>1, <2>2
    <3> DEFINE hand == IF current_frame = None THEN 0 ELSE 1
               lost == IF op["udp_recv_fib"] = "FREE" THEN 1 ELSE 0
    <3>2. hand \in Nat /\ lost \in Nat /\ nudp = Len(tap_out) + hand + Len(sock_in) + lost
      BY <1>a DEF Counted
    <3>3. Counted(op["udp_recv_fib"], tap_out, current_frame, sock_in', nudp + 1)
            <=> nudp + 1 = Len(tap_out) + hand + Len(sock_in') + lost
      BY DEF Counted
    <3> HIDE DEF hand, lost
    <3>4. nudp + 1 = Len(tap_out) + hand + (Len(sock_in) + 1) + lost
      BY <1>a, <3>2
    <3> QED
      BY <3>1, <3>3, <3>4
  <2> QED
    BY <1>0, <2>1, <2>2, <2>3, <2>4 DEF ReceptionInv, ReceptionTypes, HeaderMatches
<1>3. CASE server_set_device
  <2>1. /\ op["udp_recv_fib"] = "NONE" /\ op'["udp_recv_fib"] = "RECVFROM"
        /\ UNCHANGED <<reception, nudp>>
    BY <1>3 DEF server_set_device, Fibers, counters
  <2> QED
    BY <2>1 DEF ReceptionInv, ReceptionTypes, HeaderMatches, reception, Counted, Holding
<1>4. CASE server_udp_peek
  <2>1. /\ op["udp_recv_fib"] = "RECVFROM" /\ op'["udp_recv_fib"] = "RECV"
        /\ sock_in # <<>> /\ hdr' = Head(sock_in)
        /\ UNCHANGED <<current_frame, sock_in, tap_out, nudp>>
    BY <1>4 DEF server_udp_peek, Suspend, Places, Fibers, counters
  <2> QED
    BY <2>1 DEF ReceptionInv, ReceptionTypes, HeaderMatches, Counted, Holding
<1>5. CASE server_udp_exits
  <2>1. /\ op["udp_recv_fib"] = "RECVFROM" /\ op'["udp_recv_fib"] = "FREE"
        /\ sock_in # <<>> /\ sock_in' = Tail(sock_in)
        /\ UNCHANGED <<hdr, current_frame, tap_out, nudp>>
    BY <1>5 DEF server_udp_exits, Places, Fibers, counters
  <2>2. current_frame = None
    BY <2>1 DEF ReceptionInv, Holding
  <2>3. Ordered(tap_out', current_frame', sock_in', nudp')
    BY <1>0, <2>1, <2>2, OrderedTaken
  <2>4. sock_in' \in Seq(Datagrams) /\ Len(sock_in') = Len(sock_in) - 1
    BY <1>0, <2>1
  <2>5. Counted(op'["udp_recv_fib"], tap_out', current_frame', sock_in', nudp')
    BY <1>a, <2>1, <2>2, <2>4 DEF Counted
  <2> QED
    BY <1>0, <2>1, <2>2, <2>3, <2>4, <2>5
       DEF ReceptionInv, ReceptionTypes, HeaderMatches, Holding
<1>6. CASE server_udp_recv
  <2>1. /\ op["udp_recv_fib"] = "RECV" /\ op'["udp_recv_fib"] \in Holding
        /\ sock_in # <<>> /\ sock_in' = Tail(sock_in) /\ current_frame' = Head(sock_in)
        /\ UNCHANGED <<hdr, tap_out, nudp>>
    BY <1>6 DEF server_udp_recv, ForwardFrom, Suspend, SendtoOp, Places, Fibers,
                counters, Holding
  <2>2. current_frame = None /\ hdr = Head(sock_in)
    BY <2>1 DEF ReceptionInv, Holding
  <2>3. Ordered(tap_out', current_frame', sock_in', nudp')
    BY <1>0, <2>1, <2>2, OrderedTaken
  <2>4. /\ sock_in' \in Seq(Datagrams) /\ Len(sock_in') = Len(sock_in) - 1
        /\ current_frame' \in Datagrams
    BY <1>0, <2>1
  <2>5. current_frame' # None
    BY <2>4, DatagramFacts
  <2>6. Counted(op'["udp_recv_fib"], tap_out', current_frame', sock_in', nudp')
    BY <1>a, <2>1, <2>2, <2>4, <2>5 DEF Counted, Holding
  <2> QED
    BY <1>0, <2>1, <2>2, <2>3, <2>4, <2>5, <2>6
       DEF ReceptionInv, ReceptionTypes, HeaderMatches, Holding
<1>7. CASE server_udp_sendto
  <2>1. /\ op["udp_recv_fib"] \in Holding /\ op'["udp_recv_fib"] \in Holding
        /\ UNCHANGED <<reception, nudp>>
    BY <1>7 DEF server_udp_sendto, Sending, ForwardFrom, Suspend, SendtoOp, Places,
                Fibers, counters, Holding
  <2> QED
    BY <2>1 DEF ReceptionInv, ReceptionTypes, HeaderMatches, reception, Counted, Holding
<1>8. CASE server_udp_write
  <2>1. /\ op["udp_recv_fib"] = "WRITE" /\ op'["udp_recv_fib"] = "RECVFROM"
        /\ tap_out' = Append(tap_out, current_frame) /\ current_frame' = None
        /\ UNCHANGED <<sock_in, nudp>>
    BY <1>8 DEF server_udp_write, Suspend, Places, Fibers, counters
  <2>2. current_frame # None /\ current_frame \in Datagrams
    BY <1>0, <2>1 DEF ReceptionInv, Holding
  <2>3. Ordered(tap_out', current_frame', sock_in', nudp')
    BY <1>0, <2>1, <2>2, OrderedWritten
  <2>4. tap_out' \in Seq(Datagrams) /\ Len(tap_out') = Len(tap_out) + 1
    BY <1>0, <2>1, <2>2
  <2>5. Counted(op'["udp_recv_fib"], tap_out', current_frame', sock_in', nudp')
    BY <1>a, <2>1, <2>2, <2>4 DEF Counted
  <2> QED
    BY <1>0, <2>1, <2>3, <2>4, <2>5
       DEF ReceptionInv, ReceptionTypes, HeaderMatches, Holding
<1>9. CASE \/ TapDelivers \/ \E grows \in BOOLEAN : server_device(grows)
           \/ \E p \in Peers, grows \in BOOLEAN : udp_register_new_peer(p, grows)
           \/ \E i \in DOMAIN udp_peers : v_udp_erase(i)
           \/ broadcast_udp_woken \/ broadcast_udp_sendto \/ broadcast_udp_spurious
           \/ \E f \in Fibers : use_after_free(f)
           \/ UNCHANGED vars
  <2>1. UNCHANGED <<reception, nudp>>
    BY <1>9 DEF TapDelivers, server_device, udp_register_new_peer, v_udp_erase,
                broadcast_udp_woken, broadcast_udp_sendto, broadcast_udp_spurious,
                use_after_free, vars, counters
  <2>2. op'["udp_recv_fib"] = op["udp_recv_fib"]
    BY <1>9 DEF TapDelivers, server_device, udp_register_new_peer, v_udp_erase,
                broadcast_udp_woken, broadcast_udp_sendto, broadcast_udp_spurious,
                BroadcastFrom, BroadcastAfter, Suspend, use_after_free, vars, Places, Fibers
  <2> QED
    BY <1>1, <2>1, <2>2
<1> QED
    BY <1>2, <1>3, <1>4, <1>5, <1>6, <1>7, <1>8, <1>9 DEF Next

\* Nothing has been received at the start.
LEMMA ReceptionInit == Init => ReceptionInv
<1> SUFFICES ASSUME Init
             PROVE  ReceptionInv
    OBVIOUS
<1>1. /\ ReceptionTypes /\ HeaderMatches /\ op["udp_recv_fib"] = "NONE"
      /\ current_frame = None
    BY DataPlaneAssumption DEF Init, ReceptionTypes, HeaderMatches, Fibers
<1>2. /\ Ordered(tap_out, current_frame, sock_in, nudp)
      /\ Counted(op["udp_recv_fib"], tap_out, current_frame, sock_in, nudp)
    BY DEF Init, Ordered, Increasing, Counted, Fibers
<1> QED
    BY <1>1, <1>2 DEF ReceptionInv, Holding

\* The frames of all sound datagrams reach the device in the order of arrival,
\* each once, with the header and the sender that were peeked, whatever happens
\* to the forwarding between (udp.c, frame_recvfrom and server_udp).
THEOREM ReceptionCorrect == Spec => []ReceptionSound
<1>1. Init => FiberInv /\ ReceptionInv
    BY FiberInit, ReceptionInit
<1>2. FiberInv /\ ReceptionInv /\ [Next]_vars => (FiberInv /\ ReceptionInv)'
    BY FiberStep, ReceptionStep DEF FiberInv
<1>3. ReceptionInv => ReceptionSound
    BY OrderedPipeline DEF ReceptionInv, ReceptionSound
<1> QED
    BY <1>1, <1>2, <1>3, PTL DEF Spec

----------------------------------------------------------------------------
\* What TypeOK says beyond the other invariants.  async_sendto never makes the
\* dispatcher send, so nothing is ever sent.
OtherTypes ==
    /\ alive \in BOOLEAN
    /\ op \in [Fibers -> Ops]
    /\ ret \in {-1, 0}
    /\ active \in BOOLEAN
    /\ it \in [Fibers -> Nat]
    /\ ite \in [Fibers -> Nat]
    /\ moved \subseteq Fibers \X {"it", "fit"}
    /\ hdr \in Datagrams \cup {None}
    /\ sent = {}
    /\ tried \subseteq 1..MaxTap
    /\ ntap \in 0..MaxTap
    /\ changes \in 0..MaxChanges

PlaneInv == FiberInv /\ BroadcastInv /\ ReceptionInv /\ OtherTypes

\* A sequence is one over any set that holds its elements.
LEMMA SeqOver ==
    ASSUME NEW S, NEW T, NEW s \in Seq(S), \A i \in 1..Len(s) : s[i] \in T
    PROVE  s \in Seq(T)
    OBVIOUS

\* The elements of a sequence over a set are in the set.
LEMMA SeqElement ==
    ASSUME NEW T, NEW s \in Seq(T), NEW i \in 1..Len(s)
    PROVE  s[i] \in T
    OBVIOUS

\* The numbers of the frames, waiting or freed, are those of frames that came.
LEMMA FramesInRange ==
    ASSUME BroadcastInv, OtherTypes
    PROVE  /\ frames_to_send \in Seq(1..MaxTap) /\ tap_in \in Seq(1..MaxTap)
           /\ freed \subseteq 1..MaxTap
<1>1. PICK gone \in Nat : /\ Numbered(frames_to_send, tap_in, ntap, gone)
                          /\ freed = 1..gone
    BY DEF BroadcastInv, Accounted
<1>2. /\ frames_to_send \in Seq(Nat) /\ tap_in \in Seq(Nat)
      /\ Len(frames_to_send) \in Nat /\ Len(tap_in) \in Nat
      /\ ntap \in Nat /\ ntap <= MaxTap /\ MaxTap \in Nat
    BY DataPlaneAssumption DEF BroadcastInv, BroadcastTypes, OtherTypes
<1>3. gone + Len(frames_to_send) + Len(tap_in) <= MaxTap
    BY <1>1, <1>2 DEF Numbered
<1>4. \A i \in 1..Len(frames_to_send) : frames_to_send[i] \in 1..MaxTap
    BY <1>1, <1>2, <1>3 DEF Numbered
<1>5. \A i \in 1..Len(tap_in) : tap_in[i] \in 1..MaxTap
    BY <1>1, <1>2, <1>3 DEF Numbered
<1>6. freed \subseteq 1..MaxTap
    BY <1>1, <1>2, <1>3
<1> QED
    BY <1>2, <1>4, <1>5, <1>6, SeqOver

\* The invariants of the fibers, of the broadcast and of the reception, with
\* the rest, give the types.
LEMMA PlaneTyped == PlaneInv => TypeOK
<1> SUFFICES ASSUME PlaneInv
             PROVE  TypeOK
    OBVIOUS
<1>1. armed \subseteq Events
    BY DEF PlaneInv, FiberInv, Armed, Events, Fibers, DevReadable, RecvReadable,
           RecvWritable, TapWritable, BrdWritable
<1>2. /\ frames_to_send \in Seq(1..MaxTap) /\ tap_in \in Seq(1..MaxTap)
      /\ freed \subseteq 1..MaxTap
    BY FramesInRange DEF PlaneInv
<1>3. fit \in Nat /\ fite \in Nat /\ udp_peers \in Seq(Peers)
    BY DEF PlaneInv, BroadcastInv, BroadcastTypes
<1>4. /\ current_frame \in Datagrams \cup {None} /\ tap_out \in Seq(Datagrams)
      /\ sock_in \in Seq(Datagrams) /\ nudp \in 0..MaxUdp
    BY DEF PlaneInv, ReceptionInv, ReceptionTypes
<1> QED
    BY <1>1, <1>2, <1>3, <1>4 DEF PlaneInv, OtherTypes, TypeOK

\* forward_udp_frame_to_other_peers leaves iterators into udp_peers.
LEMMA ForwardTypes ==
    ASSUME OtherTypes, NEW i \in Nat, NEW end \in Nat, NEW from, NEW fired,
           ForwardFrom(i, end, from, fired)
    PROVE  /\ it' \in [Fibers -> Nat] /\ ite' \in [Fibers -> Nat]
           /\ moved' \subseteq Fibers \X {"it", "fit"}
<1> DEFINE others == {j \in i..(end - 1) : ~(j \in DOMAIN udp_peers /\ udp_peers[j] = from)}
<1>1. CASE others = {}
    BY <1>1 DEF ForwardFrom, OtherTypes
<1>2. CASE others # {}
  <2> DEFINE next == CHOOSE j \in others : \A k \in others : j <= k
  <2>1. others \subseteq Nat
    OBVIOUS
  <2>2. \E j \in others : \A k \in others : j <= k
    <3> HIDE DEF others
    <3> QED
      BY <1>2, <2>1, LeastNumber
  <2>3. next \in others
    <3> HIDE DEF others
    <3> QED
      BY <2>2
  <2>4. next \in Nat
    BY <2>1, <2>3
  <2>5. /\ it' = [it EXCEPT !["udp_recv_fib"] = next]
        /\ ite' = [ite EXCEPT !["udp_recv_fib"] = end]
        /\ UNCHANGED moved
    BY <1>2 DEF ForwardFrom
  <2> HIDE DEF next
  <2> QED
    BY <2>4, <2>5 DEF OtherTypes
<1> QED
    BY <1>1, <1>2

\* _broadcast_udp_to_peers reaches frames of the vector only.
LEMMA BroadcastFromTypes ==
    ASSUME BroadcastInv, OtherTypes, NEW i \in Nat, i >= 1, NEW end \in Nat, NEW fired,
           i <= end, end <= Len(frames_to_send) + 1, BroadcastFrom(i, end, fired)
    PROVE  /\ it' \in [Fibers -> Nat] /\ ite' \in [Fibers -> Nat]
           /\ moved' \subseteq Fibers \X {"it", "fit"} /\ tried' \subseteq 1..MaxTap
<1>1. /\ frames_to_send \in Seq(1..MaxTap) /\ Len(frames_to_send) \in Nat
      /\ Len(udp_peers) + 1 \in Nat
    BY FramesInRange DEF BroadcastInv, BroadcastTypes
<1>2. \A k \in i..(end - 1) : frames_to_send[k] \in 1..MaxTap
  <2>1. \A k \in i..(end - 1) : k \in 1..Len(frames_to_send)
    BY <1>1
  <2> QED
    BY <1>1, <2>1, SeqElement
<1>3. CASE i = end \/ udp_peers = <<>>
  <2>1. /\ tried' = tried \cup FramesBetween(i, end) /\ moved' = moved \ BrdIterators
        /\ UNCHANGED <<it, ite>>
    BY <1>3 DEF BroadcastFrom
  <2>2. FramesBetween(i, end) \subseteq 1..MaxTap
    BY <1>2 DEF FramesBetween
  <2> QED
    BY <2>1, <2>2 DEF OtherTypes
<1>4. CASE ~(i = end \/ udp_peers = <<>>)
  <2>1. i \in i..(end - 1)
    BY <1>4
  <2>2. /\ tried' = tried \cup {frames_to_send[i]}
        /\ it' = [it EXCEPT !["udp_brd_fib"] = 1]
        /\ ite' = [ite EXCEPT !["udp_brd_fib"] = Len(udp_peers) + 1]
        /\ moved' = moved \ {<<"udp_brd_fib", "it">>}
    BY <1>4 DEF BroadcastFrom
  <2> QED
    BY <1>1, <1>2, <2>1, <2>2 DEF OtherTypes
<1> QED
    BY <1>3, <1>4

\* So does what follows a return from async_sendto.
LEMMA BroadcastAfterTypes ==
    ASSUME BroadcastInv, OtherTypes, Sending("udp_brd_fib"), NEW r, NEW fired,
           BroadcastAfter(r, fired)
    PROVE  /\ it' \in [Fibers -> Nat] /\ ite' \in [Fibers -> Nat]
           /\ moved' \subseteq Fibers \X {"it", "fit"} /\ tried' \subseteq 1..MaxTap
<1>1. /\ fit \in Nat /\ fite \in Nat /\ fit + 1 \in Nat /\ fit + 1 >= 1 /\ fit + 1 <= fite
      /\ fite <= Len(frames_to_send) + 1
    BY DEF BroadcastInv, BroadcastTypes, BroadcastInBounds
<1>2. CASE r # -1 /\ it["udp_brd_fib"] + 1 # ite["udp_brd_fib"]
  <2>1. it' = [it EXCEPT !["udp_brd_fib"] = @ + 1] /\ UNCHANGED <<ite, moved, tried>>
    BY <1>2 DEF BroadcastAfter
  <2> QED
    BY <2>1 DEF OtherTypes, Fibers
<1>3. CASE ~(r # -1 /\ it["udp_brd_fib"] + 1 # ite["udp_brd_fib"])
  <2>1. BroadcastFrom(fit + 1, fite, fired)
    BY <1>3 DEF BroadcastAfter
  <2> QED
    BY <1>1, <2>1, BroadcastFromTypes
<1> QED
    BY <1>2, <1>3

\* Every step leaves the fibers in operations they know.
LEMMA OperationsStep == OtherTypes /\ [Next]_vars => op' \in [Fibers -> Ops]
<1> SUFFICES ASSUME OtherTypes, [Next]_vars
             PROVE  op' \in [Fibers -> Ops]
    OBVIOUS
<1>0. op \in [Fibers -> Ops]
    BY DEF OtherTypes
<1>1. ASSUME NEW f \in Fibers, NEW o \in Ops, op' = [op EXCEPT ![f] = o]
      PROVE  op' \in [Fibers -> Ops]
    BY <1>0, <1>1
<1>2. CASE server_set_device
    BY <1>2 DEF server_set_device, Fibers, Ops
<1>3. ASSUME NEW grows \in BOOLEAN, server_device(grows)
      PROVE  op' = [op EXCEPT !["device_fib"] = "EVENT"]
    BY <1>3 DEF server_device, Suspend
<1>4. CASE server_udp_peek \/ server_udp_exits \/ server_udp_write
  <2>1. \E o \in {"RECV", "FREE", "RECVFROM"} : op' = [op EXCEPT !["udp_recv_fib"] = o]
    BY <1>4 DEF server_udp_peek, server_udp_exits, server_udp_write, Suspend
  <2> QED
    BY <1>1, <2>1 DEF Fibers, Ops
<1>5. CASE server_udp_recv \/ server_udp_sendto
  <2>1. \E o \in {"SEND", "WRITE"} : op' = [op EXCEPT !["udp_recv_fib"] = o]
    BY <1>5 DEF server_udp_recv, server_udp_sendto, ForwardFrom, Suspend, SendtoOp
  <2> QED
    BY <1>1, <2>1 DEF Fibers, Ops
<1>6. CASE broadcast_udp_woken \/ broadcast_udp_sendto \/ broadcast_udp_spurious
  <2>1. \E o \in {"SEND", "YIELD"} : op' = [op EXCEPT !["udp_brd_fib"] = o]
    BY <1>6 DEF broadcast_udp_woken, broadcast_udp_sendto, broadcast_udp_spurious,
                BroadcastFrom, BroadcastAfter, Suspend, SendtoOp
  <2> QED
    BY <1>1, <2>1 DEF Fibers, Ops
<1>7. CASE \/ TapDelivers \/ \E p \in Peers : UdpDelivers(p)
           \/ \E p \in Peers, grows \in BOOLEAN : udp_register_new_peer(p, grows)
           \/ \E i \in DOMAIN udp_peers : v_udp_erase(i)
           \/ \E f \in Fibers : use_after_free(f)
           \/ UNCHANGED vars
    BY <1>0, <1>7 DEF TapDelivers, UdpDelivers, udp_register_new_peer, v_udp_erase,
                      use_after_free, vars
<1>8. "device_fib" \in Fibers /\ "EVENT" \in Ops
    BY DEF Fibers, Ops
<1> QED
    BY <1>1, <1>2, <1>3, <1>4, <1>5, <1>6, <1>7, <1>8 DEF Next

\* Every step preserves the rest of the types.
LEMMA OtherTypesStep == PlaneInv /\ [Next]_vars => OtherTypes'
<1> SUFFICES ASSUME PlaneInv, [Next]_vars
             PROVE  OtherTypes'
    OBVIOUS
<1>0. Places /\ BroadcastInv /\ ReceptionInv /\ OtherTypes
    BY DEF PlaneInv, FiberInv
<1>a. op' \in [Fibers -> Ops]
    BY <1>0, OperationsStep
<1>1. CASE TapDelivers
  <2>1. ntap \in 0..MaxTap /\ MaxTap \in Nat /\ ntap < MaxTap /\ ntap' = ntap + 1
    BY <1>0, <1>1, DataPlaneAssumption DEF TapDelivers, OtherTypes
  <2>2. UNCHANGED <<alive, ret, active, it, ite, moved, hdr, sent, tried, changes>>
    BY <1>1 DEF TapDelivers, frames, reception
  <2>3. ntap' \in 0..MaxTap
    BY <2>1
  <2> QED
    BY <1>0, <1>a, <2>2, <2>3 DEF OtherTypes
<1>2. CASE \/ \E p \in Peers, grows \in BOOLEAN : udp_register_new_peer(p, grows)
           \/ \E i \in DOMAIN udp_peers : v_udp_erase(i)
  <2>1. changes \in 0..MaxChanges /\ MaxChanges \in Nat /\ changes < MaxChanges
        /\ changes' = changes + 1
    BY <1>0, <1>2, DataPlaneAssumption DEF udp_register_new_peer, v_udp_erase, OtherTypes
  <2>2. UNCHANGED <<alive, ret, active, it, ite, hdr, sent, tried, ntap>>
    BY <1>2 DEF udp_register_new_peer, v_udp_erase, frames, reception
  <2>3. \/ moved' = moved
        \/ moved' = moved \cup {<<f, "it">> : f \in {g \in Fibers : Sending(g)}}
    BY <1>2 DEF udp_register_new_peer, v_udp_erase
  <2>4. moved' \subseteq Fibers \X {"it", "fit"}
    BY <1>0, <2>3 DEF OtherTypes
  <2>5. changes' \in 0..MaxChanges
    BY <2>1
  <2> QED
    BY <1>0, <1>a, <2>2, <2>4, <2>5 DEF OtherTypes
<1>3. CASE \E grows \in BOOLEAN : server_device(grows)
  <2>1. /\ active' = TRUE
        /\ UNCHANGED <<alive, ret, it, ite, hdr, sent, tried, ntap, changes>>
        /\ moved' = moved \/ moved' = moved \cup {<<"udp_brd_fib", "fit">>}
    BY <1>3 DEF server_device, reception, counters
  <2>2. moved' \subseteq Fibers \X {"it", "fit"}
    BY <1>0, <2>1 DEF OtherTypes, Fibers
  <2> QED
    BY <1>0, <1>a, <2>1, <2>2 DEF OtherTypes
<1>4. CASE server_udp_peek
  <2>1. Head(sock_in) \in Datagrams
    BY <1>0, <1>4 DEF server_udp_peek, ReceptionInv, ReceptionTypes
  <2>2. /\ hdr' = Head(sock_in)
        /\ UNCHANGED <<alive, ret, active, it, ite, moved, sent, tried, ntap, changes>>
    BY <1>4 DEF server_udp_peek, frames, counters
  <2> QED
    BY <1>0, <1>a, <2>1, <2>2 DEF OtherTypes
<1>5. CASE server_udp_recv
  <2>1. 1 \in Nat /\ Len(udp_peers) + 1 \in Nat
    BY <1>0 DEF BroadcastInv, BroadcastTypes
  <2>2. /\ ForwardFrom(1, Len(udp_peers) + 1, hdr.from, {RecvReadable})
        /\ UNCHANGED <<alive, ret, active, hdr, sent, tried, ntap, changes>>
    BY <1>5 DEF server_udp_recv, frames, counters
  <2>3. /\ it' \in [Fibers -> Nat] /\ ite' \in [Fibers -> Nat]
        /\ moved' \subseteq Fibers \X {"it", "fit"}
    BY <1>0, <2>1, <2>2, ForwardTypes
  <2> QED
    BY <1>0, <1>a, <2>2, <2>3 DEF OtherTypes
<1>6. CASE server_udp_sendto
  <2>1. op["udp_recv_fib"] = "SEND"
    BY <1>0, <1>6 DEF server_udp_sendto, Sending, Places
  <2>2. ite["udp_recv_fib"] \in Nat
    BY <1>0 DEF OtherTypes, Fibers
  <2>3. /\ ForwardFrom(ite["udp_recv_fib"], ite["udp_recv_fib"], hdr.from, {RecvWritable})
        /\ UNCHANGED <<alive, ret, active, hdr, sent, tried, ntap, changes>>
    BY <1>6, <2>1 DEF server_udp_sendto, Transmit, SendResult, frames, reception, counters
  <2>4. /\ it' \in [Fibers -> Nat] /\ ite' \in [Fibers -> Nat]
        /\ moved' \subseteq Fibers \X {"it", "fit"}
    BY <1>0, <2>2, <2>3, ForwardTypes
  <2> QED
    BY <1>0, <1>a, <2>3, <2>4 DEF OtherTypes
<1>7. CASE server_udp_write
    BY <1>0, <1>a, <1>7 DEF server_udp_write, OtherTypes, frames, counters
<1>8. ASSUME BroadcastFrom(1, Len(frames_to_send) + 1, {})
             \/ BroadcastFrom(1, Len(frames_to_send) + 1, {BrdWritable})
      PROVE  /\ it' \in [Fibers -> Nat] /\ ite' \in [Fibers -> Nat]
             /\ moved' \subseteq Fibers \X {"it", "fit"} /\ tried' \subseteq 1..MaxTap
  <2>1. Len(frames_to_send) + 1 \in Nat /\ 1 <= Len(frames_to_send) + 1
    BY <1>0 DEF BroadcastInv, BroadcastTypes
  <2> QED
    BY <1>0, <1>8, <2>1, BroadcastFromTypes
<1>9. CASE broadcast_udp_woken
  <2>1. /\ active /\ active' = FALSE
        /\ UNCHANGED <<alive, ret, hdr, sent, ntap, changes>>
        /\ op["udp_brd_fib"] = "YIELD" => BroadcastFrom(1, Len(frames_to_send) + 1, {})
        /\ op["udp_brd_fib"] # "YIELD" => BroadcastAfter(ret, {})
    BY <1>9 DEF broadcast_udp_woken, reception, counters
  <2>2. op["udp_brd_fib"] # "YIELD" => Sending("udp_brd_fib")
    BY <1>0, <2>1 DEF Places, Sending
  <2>3. /\ it' \in [Fibers -> Nat] /\ ite' \in [Fibers -> Nat]
        /\ moved' \subseteq Fibers \X {"it", "fit"} /\ tried' \subseteq 1..MaxTap
    BY <1>0, <1>8, <2>1, <2>2, BroadcastAfterTypes
  <2> QED
    BY <1>0, <1>a, <2>1, <2>3 DEF OtherTypes
<1>10. CASE broadcast_udp_sendto
  <2>1. op["udp_brd_fib"] = "SEND" /\ Sending("udp_brd_fib")
    BY <1>0, <1>10 DEF broadcast_udp_sendto, Sending, Places
  <2>2. /\ ret' = -1 /\ BroadcastAfter(-1, {BrdWritable})
        /\ UNCHANGED <<alive, active, hdr, sent, ntap, changes>>
    BY <1>10, <2>1 DEF broadcast_udp_sendto, Transmit, SendResult, reception, counters
  <2>3. /\ it' \in [Fibers -> Nat] /\ ite' \in [Fibers -> Nat]
        /\ moved' \subseteq Fibers \X {"it", "fit"} /\ tried' \subseteq 1..MaxTap
    BY <1>0, <2>1, <2>2, BroadcastAfterTypes
  <2> QED
    BY <1>0, <1>a, <2>2, <2>3 DEF OtherTypes
<1>11. CASE broadcast_udp_spurious
  <2>1. /\ UNCHANGED <<alive, ret, active, hdr, sent, ntap, changes>>
        /\ BroadcastFrom(1, Len(frames_to_send) + 1, {BrdWritable})
    BY <1>11 DEF broadcast_udp_spurious, reception, counters
  <2> QED
    BY <1>0, <1>a, <1>8, <2>1 DEF OtherTypes
<1>12. CASE \/ \E p \in Peers : UdpDelivers(p)
            \/ server_set_device \/ server_udp_exits
            \/ \E f \in Fibers : use_after_free(f)
            \/ UNCHANGED vars
  <2>1. /\ UNCHANGED <<ret, active, it, ite, moved, hdr, sent, tried, ntap, changes>>
        /\ alive' = alive \/ alive' = FALSE
    BY <1>12 DEF UdpDelivers, server_set_device, server_udp_exits, use_after_free, vars,
                 frames, reception, counters
  <2> QED
    BY <1>0, <1>a, <2>1 DEF OtherTypes
<1> QED
    BY <1>1, <1>2, <1>3, <1>4, <1>5, <1>6, <1>7, <1>9, <1>10, <1>11, <1>12 DEF Next

\* The state of the fibers, the vectors and the queues is well formed: the
\* iterators are positions, a header is that of a datagram, and the frames in
\* frames_to_send and those freed are frames of the device (device.c, udp.c).
THEOREM PlaneTypeCorrect == Spec => []TypeOK
<1>1. Init => PlaneInv
  <2> SUFFICES ASSUME Init
               PROVE  PlaneInv
    OBVIOUS
  <2>1. /\ op \in [Fibers -> Ops] /\ it \in [Fibers -> Nat] /\ ite \in [Fibers -> Nat]
    BY DEF Init, Ops
  <2>2. ntap \in 0..MaxTap /\ changes \in 0..MaxChanges
    BY DataPlaneAssumption DEF Init
  <2>3. OtherTypes
    BY <2>1, <2>2 DEF Init, OtherTypes
  <2> QED
    BY <2>3, FiberInit, BroadcastInit, ReceptionInit DEF PlaneInv
<1>2. PlaneInv /\ [Next]_vars => PlaneInv'
    BY FiberStep, BroadcastStep, ReceptionStep, OtherTypesStep DEF PlaneInv, FiberInv
<1>3. PlaneInv => TypeOK
    BY PlaneTyped
<1> QED
    BY <1>1, <1>2, <1>3, PTL DEF Spec

=============================================================================
