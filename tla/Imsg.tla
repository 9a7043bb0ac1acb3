-------------------------------- MODULE Imsg --------------------------------
(***************************************************************************)
(* The imsg library of sys/unix/imsg.c and imsg-buffer.c, in one           *)
(* direction: the sender's queue of buffers, the UNIX stream socket, the   *)
(* receiver's read buffer and its queue of descriptors.                    *)
(*                                                                         *)
(* The stream carries bytes: a write or a read moves any number of them.   *)
(* A descriptor travels beside the bytes of the sendmsg it was given to.   *)
(* A byte is named by its message and its position in it; the header,      *)
(* HeaderSize bytes, holds the length and the flag IMSGF_HASFD.            *)
(***************************************************************************)
EXTENDS Naturals, Sequences, FiniteSetsExt

CONSTANTS
    HeaderSize,  \* IMSG_HEADER_SIZE
    MaxImsgSize, \* MAX_IMSGSIZE
    ReadSize,    \* IBUF_READ_SIZE
    IovMax,      \* IOV_MAX
    Lens,        \* lengths of the messages composed, header included
    MaxMsgs      \* bound: messages composed

ASSUME ImsgAssumption ==
    /\ HeaderSize \in Nat \ {0}
    /\ MaxImsgSize \in Nat
    /\ HeaderSize <= MaxImsgSize
    /\ ReadSize \in Nat
    /\ MaxImsgSize <= ReadSize
    /\ IovMax \in Nat \ {0}
    /\ Lens \subseteq Nat
    /\ \A l \in Lens : l >= HeaderSize
    /\ MaxMsgs \in Nat

\* fd = -1 in the code.  The n-th message's own descriptor is n.
NoFd == 0

VARIABLES
    composed,   \* every message so far: the bytes composed before it, its length
                \* and its descriptor
    bufs,       \* w.bufs: what is left of each message to write
    wire,       \* the bytes in the socket; fd: a descriptor beside this byte
    rbuf,       \* r.buf up to r.wpos
    fds,        \* the receiver's queue of descriptors
    delivered,  \* the messages imsg_get returned
    reading,    \* the receiver is in its loop over imsg_get
    open,       \* the sender has not closed the socket
    limit       \* the messages that were completely written, once closed

imsgVars == <<composed, bufs, wire, rbuf, fds, delivered, reading, open, limit>>

ImsgInit ==
    /\ composed = <<>>
    /\ bufs = <<>>
    /\ wire = <<>>
    /\ rbuf = <<>>
    /\ fds = <<>>
    /\ delivered = <<>>
    /\ reading = FALSE
    /\ open = TRUE
    /\ limit = 0

----------------------------------------------------------------------------
(* The sender. *)

\* The bytes of the first k messages.
End(k) == IF k = 0 THEN 0 ELSE composed[k].at + composed[k].len

\* imsg_compose: imsg_create refuses what is too long, imsg_close sets the
\* flag and the length and enqueues the buffer.
imsg_compose(len, hasfd) ==
    LET id == Len(composed) + 1
        fd == IF hasfd THEN id ELSE NoFd
    IN  /\ open
        /\ Len(composed) < MaxMsgs
        /\ len <= MaxImsgSize
        /\ composed' = Append(composed, [at |-> End(Len(composed)), len |-> len, fd |-> fd])
        /\ bufs' = Append(bufs, [id |-> id, rpos |-> 0, wpos |-> len, fd |-> fd])
        /\ UNCHANGED <<wire, rbuf, fds, delivered, reading, open, limit>>

\* Where a position of the j-th buffer is in the stream of all bytes.
InStream(j, pos) == composed[bufs[j].id].at + pos

\* The bytes left in the first i buffers: they follow each other in the stream
\* (ImsgTypeOK says that this is the sum of what is left in each).
Left(i) == IF i = 0 THEN 0 ELSE InStream(i, bufs[i].wpos) - InStream(1, bufs[1].rpos)

\* msgbuf_write gathers buffers up to the first one that has a descriptor, at
\* most IOV_MAX of them.
Gathered == {i \in DOMAIN bufs : /\ i <= IovMax
                                 /\ \A j \in 1..(i - 1) : bufs[j].fd = NoFd}

\* The buffer at which the gathering loop stopped, or none: the one with a
\* descriptor, or the first one there was no room for.
Stopped == {i \in DOMAIN bufs :
              /\ \A j \in 1..(i - 1) : bufs[j].fd = NoFd
              /\ i <= IovMax + 1
              /\ bufs[i].fd # NoFd \/ i = IovMax + 1}

\* The descriptor given to sendmsg.
SentFd == IF Stopped = {} THEN NoFd ELSE bufs[Min(Stopped)].fd

\* The j-th byte of what the buffers hold.
ByteAt(j) == LET i == Min({k \in DOMAIN bufs : Left(k) >= j})
             IN  [id |-> bufs[i].id, pos |-> bufs[i].rpos + j - Left(i - 1)]

\* The buffers with the descriptor that was sent closed.
Closed == [i \in DOMAIN bufs |->
             IF i \in Stopped THEN [bufs[i] EXCEPT !.fd = NoFd] ELSE bufs[i]]

\* msgbuf_drain: n bytes of the buffers b are gone.
msgbuf_drain(b, n) ==
    LET k == Max({i \in 0..Len(b) : Left(i) <= n})
    IN  [i \in 1..(Len(b) - k) |->
           IF i = 1 THEN [b[k + 1] EXCEPT !.rpos = @ + n - Left(k)]
           ELSE b[k + i]]

\* msgbuf_write: sendmsg takes n bytes and, with the first of them, the
\* descriptor.
msgbuf_write(n) ==
    /\ open
    /\ n \in 1..Left(Max(Gathered \cup {0}))
    /\ wire' = wire \o [j \in 1..n |->
                          [byte |-> ByteAt(j),
                           fd |-> IF j = 1 THEN SentFd ELSE NoFd]]
    /\ bufs' = msgbuf_drain(Closed, n)
    /\ UNCHANGED <<composed, rbuf, fds, delivered, reading, open, limit>>

\* msgbuf_clear and close: what is queued is dropped.
msgbuf_clear ==
    /\ open
    /\ open' = FALSE
    /\ limit' = Len(composed) - Len(bufs)
    /\ bufs' = <<>>
    /\ UNCHANGED <<composed, wire, rbuf, fds, delivered, reading>>

----------------------------------------------------------------------------
(* The receiver. *)

\* Where there are descriptors beside the bytes of s.
FdsOf(s) == {i \in DOMAIN s : s[i].fd # NoFd}

\* imsg_read: recvmsg takes n bytes, as many as fit in the read buffer; the
\* kernel stops behind the bytes of one descriptor.
imsg_read(n) ==
    LET got == SubSeq(wire, 1, n)
    IN  /\ ~reading
        /\ n \in 1..Len(wire)
        /\ n <= ReadSize - Len(rbuf)
        /\ \A i, j \in FdsOf(got) : i = j
        /\ rbuf' = rbuf \o [i \in 1..n |-> got[i].byte]
        /\ fds' = IF FdsOf(got) = {} THEN fds ELSE Append(fds, got[Min(FdsOf(got))].fd)
        /\ wire' = SubSeq(wire, n + 1, Len(wire))
        /\ reading' = TRUE
        /\ UNCHANGED <<composed, bufs, delivered, open, limit>>

\* The header at the front of the read buffer.
Hdr == composed[rbuf[1].id]

\* There is a whole message at the front of the read buffer.
Complete == Len(rbuf) >= HeaderSize /\ Hdr.len <= Len(rbuf)

\* Mutant: the flag IMSGF_HASFD is not looked at.
get_any_fd ==
    /\ reading
    /\ Complete
    /\ delivered' = Append(delivered,
         [id |-> rbuf[1].id, fd |-> IF fds # <<>> THEN Head(fds) ELSE NoFd])
    /\ fds' = IF fds # <<>> THEN Tail(fds) ELSE fds
    /\ rbuf' = SubSeq(rbuf, Hdr.len + 1, Len(rbuf))
    /\ UNCHANGED <<composed, bufs, wire, reading, open, limit>>

\* imsg_get returns a message: imsg_get_fd takes the first descriptor if the
\* header says there is one, and the rest of the buffer moves to its front.
imsg_get ==
    /\ reading
    /\ Complete
    /\ delivered' = Append(delivered,
         [id |-> rbuf[1].id,
          fd |-> IF Hdr.fd # NoFd /\ fds # <<>> THEN Head(fds) ELSE NoFd])
    /\ fds' = IF Hdr.fd # NoFd /\ fds # <<>> THEN Tail(fds) ELSE fds
    /\ rbuf' = SubSeq(rbuf, Hdr.len + 1, Len(rbuf))
    /\ UNCHANGED <<composed, bufs, wire, reading, open, limit>>

\* imsg_get returns 0 and the loop of the caller ends.
imsg_get_none ==
    /\ reading
    /\ ~Complete
    /\ reading' = FALSE
    /\ UNCHANGED <<composed, bufs, wire, rbuf, fds, delivered, open, limit>>

\* The sender is gone and imsg_read fails: imsg_clear closes the descriptors.
imsg_clear ==
    /\ ~open
    /\ ~reading
    /\ wire = <<>>
    /\ fds' = <<>>
    /\ UNCHANGED <<composed, bufs, wire, rbuf, delivered, reading, open, limit>>

ImsgNext ==
    \/ \E len \in Lens, hasfd \in BOOLEAN : imsg_compose(len, hasfd)
    \/ \E n \in 1..(MaxMsgs * MaxImsgSize) : msgbuf_write(n)
    \/ msgbuf_clear
    \/ \E n \in 1..ReadSize : imsg_read(n)
    \/ imsg_get
    \/ imsg_get_none
    \/ imsg_clear

ImsgSpec == ImsgInit /\ [][ImsgNext]_imsgVars

----------------------------------------------------------------------------
(* Properties *)

\* The queues are well formed: no buffer in w.bufs is completely written.
ImsgTypeOK ==
    /\ composed \in Seq([at : Nat, len : Lens, fd : 0..MaxMsgs])
    /\ bufs \in Seq([id : 1..MaxMsgs, rpos : Nat, wpos : Lens, fd : 0..MaxMsgs])
    /\ \A i \in DOMAIN bufs : /\ bufs[i].rpos < bufs[i].wpos
                             /\ Left(i) = Left(i - 1) + bufs[i].wpos - bufs[i].rpos
    /\ wire \in Seq([byte : [id : 1..MaxMsgs, pos : 1..MaxImsgSize],
                     fd : 0..MaxMsgs])
    /\ rbuf \in Seq([id : 1..MaxMsgs, pos : 1..MaxImsgSize])
    /\ fds \in Seq(1..MaxMsgs)
    /\ delivered \in Seq([id : 1..MaxMsgs, fd : 0..MaxMsgs])
    /\ reading \in BOOLEAN
    /\ open \in BOOLEAN
    /\ limit \in 0..MaxMsgs

\* Where the descriptor d is: with a message that was returned, in the queue of
\* the receiver, beside a byte in the socket, or with a buffer.
Places(d) == {<<1, i>> : i \in {k \in DOMAIN delivered : delivered[k].fd = d}}
        \cup {<<2, i>> : i \in {k \in DOMAIN fds : fds[k] = d}}
        \cup {<<3, i>> : i \in {k \in DOMAIN wire : wire[k].fd = d}}
        \cup {<<4, i>> : i \in {k \in DOMAIN bufs : bufs[k].fd = d}}

Before(x, y) == x[1] < y[1] \/ (x[1] = y[1] /\ x[2] < y[2])

\* Every descriptor is in one place and they keep their order: "fd got sent if
\* sendmsg sent anything" (imsg-buffer.c:273) neither loses nor repeats one,
\* however sendmsg and recvmsg cut the stream.
DescriptorsInOrder ==
    open => \A d \in DOMAIN composed :
              /\ IF composed[d].fd = NoFd THEN Places(d) = {}
                 ELSE \E x \in Places(d) : Places(d) = {x}
              /\ \A x \in Places(d) : \A e \in 1..(d - 1) :
                   \A y \in Places(e) : Before(y, x)

\* A message that announces a descriptor finds it in the queue: imsg_get_fd
\* never returns -1 to imsg_get.
DescriptorArrivesFirst ==
    reading /\ Complete /\ Hdr.fd # NoFd => fds # <<>> /\ Head(fds) = Hdr.fd

\* imsg_read is always called with room in the read buffer; without, recvmsg
\* would return 0 and dispatch_imsg take the pipe for closed.
ReadHasRoom == ~reading => Len(rbuf) < ReadSize

\* The messages under way: composed and not returned, up to the last one that
\* was completely written when the sender closed.
InFlight ==
    LET last == IF open THEN Len(composed) ELSE limit
    IN  [i \in 1..(last - Len(delivered)) |->
           LET id == Len(delivered) + i IN [id |-> id, fd |-> composed[id].fd]]

Fifo == INSTANCE ImsgFifo WITH Messages <- [id : 1..MaxMsgs, fd : 0..MaxMsgs],
                               chan <- InFlight

\* The library is a FIFO of messages with their descriptors.
ImplementsFifo == Fifo!Spec
=============================================================================
