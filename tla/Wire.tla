-------------------------------- MODULE Wire --------------------------------
(***************************************************************************)
(* The layout of a frame in memory and on the wire: frame_alloc            *)
(* (src/frame.c), the header that _broadcast_udp_to_peers stores before a  *)
(* frame, and the two reads of frame_recvfrom (src/udp.c).  DataPlane says *)
(* when these run; here a packet is bytes, and the two ends may differ in  *)
(* their byte order.                                                       *)
(*                                                                         *)
(* A byte is a number below Radix, Undefined when malloc left it so.       *)
(***************************************************************************)
EXTENDS Integers, Sequences, FiniteSetsExt

CONSTANTS
    Radix,           \* the values of a byte, 256 in the program
    FRAME_DYN_SIZE   \* the largest frame read from the device

ASSUME WireAssumption ==
    /\ Radix \in Nat \ {0, 1}
    /\ FRAME_DYN_SIZE \in 1..(Radix * Radix - 1)

VARIABLES
    order,      \* the byte order of the sender and of the receiver
    tapped,     \* the frame as the sender's device gave it
    frame,      \* the struct frame at each end
    datagram,   \* what was handed to the socket
    to_tap      \* what the receiver wrote to its device

wireVars == <<order, tapped, frame, datagram, to_tap>>

Undefined == -1
Nothing == << >>
NoFrame == [raw_packet |-> << >>, size |-> 0]

\* sizeof(struct packet_hdr)
PacketHdr == 2

-----------------------------------------------------------------------------
frame_alloc(size) == [raw_packet |-> [i \in 1..(size + PacketHdr) |-> Undefined], size |-> size]

\* A buffer after bytes were stored from the given place; what does not fit
\* is stored outside of it.
Stored(raw_packet, at, bytes) ==
    [i \in DOMAIN raw_packet |-> IF i - at + 1 \in DOMAIN bytes THEN bytes[i - at + 1]
                                 ELSE raw_packet[i]]

\* An unsigned short in memory, and back.
Short(n, o) == IF o = "big" THEN <<n \div Radix, n % Radix>> ELSE <<n % Radix, n \div Radix>>
Value(b, o) == IF o = "big" THEN b[1] * Radix + b[2] ELSE b[1] + b[2] * Radix

htons_on(n, o) == Value(Short(n, "big"), o)
ntohs_on(n, o) == Value(Short(n, o), "big")

\* server_device: the frame is read behind the header, into a buffer of the
\* largest size.
server_device ==
    /\ frame["sender"] = NoFrame
    /\ \E n \in 0..FRAME_DYN_SIZE : \E first \in 0..(Radix - 1) :
         LET bytes == [i \in 1..n |-> (first + i) % Radix]
             tmp   == frame_alloc(FRAME_DYN_SIZE)
         IN  /\ tapped' = bytes
             /\ frame' = [frame EXCEPT !["sender"] =
                   [raw_packet |-> Stored(tmp.raw_packet, PacketHdr + 1, bytes), size |-> n]]
    /\ UNCHANGED <<order, datagram, to_tap>>

Handed(f) == SubSeq(f.raw_packet, 1, Min({f.size + PacketHdr, Len(f.raw_packet)}))

\* The turn of the inner loop of _broadcast_udp_to_peers, for one peer.
broadcast_packet ==
    LET f   == frame["sender"]
        o   == order["sender"]
        raw == Stored(f.raw_packet, 1, Short(htons_on(f.size, o), o))
    IN  /\ f # NoFrame /\ datagram = Nothing
        /\ datagram' = Handed([f EXCEPT !.raw_packet = raw])
        /\ frame' = [frame EXCEPT !["sender"].raw_packet = raw]
        /\ UNCHANGED <<order, tapped, to_tap>>

\* The two reads of frame_recvfrom: the peeked header gives the size of the
\* buffer; the second read takes what fits.
frame_recvfrom ==
    /\ datagram # Nothing /\ frame["receiver"] = NoFrame
    /\ LET o          == order["receiver"]
           local_size == ntohs_on(Value(datagram, o), o)
           new        == frame_alloc(local_size)
       IN  frame' = [frame EXCEPT !["receiver"] =
                       [new EXCEPT !.raw_packet = Stored(@, 1, datagram)]]
    /\ UNCHANGED <<order, tapped, datagram, to_tap>>

\* The frame that server_udp writes to its device.
write_frame ==
    LET f == frame["receiver"]
    IN  /\ f # NoFrame /\ to_tap = Nothing
        /\ to_tap' = SubSeq(f.raw_packet, PacketHdr + 1,
                            Min({f.size + PacketHdr, Len(f.raw_packet)}))
        /\ UNCHANGED <<order, tapped, frame, datagram>>

WireInit ==
    /\ order \in [{"sender", "receiver"} -> {"little", "big"}]
    /\ tapped = Nothing /\ datagram = Nothing /\ to_tap = Nothing
    /\ frame = [e \in {"sender", "receiver"} |-> NoFrame]

WireNext == server_device \/ broadcast_packet \/ frame_recvfrom \/ write_frame

WireSpec == WireInit /\ [][WireNext]_wireVars

-----------------------------------------------------------------------------
(* Properties *)

\* The types of the sizes and the bytes of frames and packets.
WireTypeOK ==
    /\ \A e \in {"sender", "receiver"} :
         frame[e].size \in 0..(Radix * Radix - 1)
    /\ \A i \in DOMAIN datagram : datagram[i] \in Undefined..(Radix - 1)

\* A packet of _broadcast_udp_to_peers has every byte defined, although it is
\* cut out of a buffer of the largest size that was only partly read into.
PacketIsDefined == \A i \in DOMAIN datagram : datagram[i] # Undefined

\* A datagram that gets through makes the receiver write the frame that the
\* sender read, whatever the byte orders of the two are: frame_alloc leaves
\* room for the header at both ends, and it is read the way it was written.
FrameSurvivesWire == frame["receiver"] # NoFrame =>
    /\ frame["receiver"].size = Len(tapped)
    /\ to_tap # Nothing => to_tap = tapped

=============================================================================
