-------------------------------- MODULE Ibuf --------------------------------
(***************************************************************************)
(* The buffers of sys/unix/imsg-buffer.c as a caller of the library uses   *)
(* them: a buffer grows while it is built, is closed into the queue of a   *)
(* msgbuf and leaves it through writev, which takes any number of bytes.   *)
(* Imsg models what imsg.c does with them.                                 *)
(*                                                                         *)
(* The memory of a buffer is the sequence mem of size cells.  A byte is a  *)
(* number, Junk in memory that was never written.                          *)
(***************************************************************************)
EXTENDS Integers, Sequences, FiniteSetsExt

CONSTANTS
    Sizes,       \* arguments len and max of the calls
    IOV_MAX,     \* buffers that one writev takes
    MaxBufs,     \* bound on the queue
    MaxBytes     \* bound on the bytes a caller puts into buffers

ASSUME IbufAssumption ==
    /\ Sizes \subseteq Nat
    /\ IOV_MAX \in Nat \ {0}
    /\ MaxBufs \in Nat
    /\ MaxBytes \in Nat

VARIABLES
    ibuf,        \* the buffer under construction, or NULL
    content,     \* what the caller put into it
    queue,       \* msgbuf->bufs; at: the bytes closed before the buffer
    queued,      \* msgbuf->queued
    draining,    \* what msgbuf_drain has left to drain, 0 outside its loop
    closed,      \* the bytes of all buffers closed so far
    written,     \* the bytes that writev took
    put,         \* how many bytes the caller has produced
    reply        \* the last call to add or reserve, and its result

ibufVars == <<ibuf, content, queue, queued, draining, closed, written, put, reply>>

NoBuf == [mem |-> << >>, max |-> -1, wpos |-> 0, rpos |-> 0]
Junk == 0

NoReply == [len |-> 0, room |-> 0, ok |-> TRUE]

ibuf_open(len) == [mem |-> [i \in 1..len |-> Junk], max |-> len, wpos |-> 0, rpos |-> 0]

\* A static buffer comes from ibuf_open, one that may grow from ibuf_dynamic.
ibuf_dynamic(len, max) ==
    IF max < len THEN NoBuf
    ELSE [ibuf_open(len) EXCEPT !.max = IF max > 0 THEN max ELSE @]

\* realloc keeps what fits; the rest of the memory is new.
Realloc(mem, len) == [i \in 1..len |-> IF i <= Len(mem) THEN mem[i] ELSE Junk]

ibuf_realloc(b, len) ==
    IF b.wpos + len > b.max THEN [buf |-> b, ok |-> FALSE]
    ELSE [buf |-> [b EXCEPT !.mem = Realloc(@, b.wpos + len)], ok |-> TRUE]

\* The test that ibuf_add and ibuf_reserve begin with.
Fit(b, len) ==
    IF b.wpos + len > Len(b.mem) THEN ibuf_realloc(b, len) ELSE [buf |-> b, ok |-> TRUE]

\* memcpy to the position pos of the memory.  Bytes behind its end are lost to
\* the buffer.
Store(b, pos, bytes) ==
    [b EXCEPT !.mem = [i \in DOMAIN @ |-> IF i - pos \in DOMAIN bytes
                                          THEN bytes[i - pos] ELSE @[i]]]

NewBytes(n) == [i \in 1..n |-> put + i]

new_buffer(b) ==
    /\ draining = 0 /\ ibuf = NoBuf
    /\ ibuf' = b /\ content' = << >> /\ reply' = NoReply
    /\ UNCHANGED <<queue, queued, draining, closed, written, put>>

ibuf_size(b) == b.wpos

ibuf_left(b) == b.max - b.wpos

\* ibuf_add, and ibuf_reserve whose caller fills what it reserved.
ibuf_add(n) ==
    LET r == Fit(ibuf, n)
    IN  /\ draining = 0 /\ ibuf # NoBuf /\ put + n <= MaxBytes
        /\ reply' = [len |-> n, room |-> ibuf_left(ibuf), ok |-> r.ok]
        /\ IF r.ok
           THEN /\ ibuf' = [Store(r.buf, ibuf.wpos, NewBytes(n)) EXCEPT !.wpos = @ + n]
                /\ content' = content \o NewBytes(n) /\ put' = put + n
           ELSE UNCHANGED <<ibuf, content, put>>
        /\ UNCHANGED <<queue, queued, draining, closed, written>>

\* ibuf_seek, whose caller changes the bytes it gets.
ibuf_seek(pos, n) ==
    /\ draining = 0 /\ ibuf # NoBuf /\ put + n <= MaxBytes /\ n > 0
    /\ pos + n <= ibuf.wpos
    /\ ibuf' = Store(ibuf, pos, NewBytes(n))
    /\ content' = [i \in DOMAIN content |-> IF i - pos \in 1..n
                                           THEN put + i - pos ELSE content[i]]
    /\ put' = put + n /\ reply' = NoReply
    /\ UNCHANGED <<queue, queued, draining, closed, written>>

ibuf_enqueue(b) == queue' = Append(queue, b) /\ queued' = queued + 1

ibuf_dequeue == queue' = Tail(queue) /\ queued' = queued - 1

\* ibuf_close is ibuf_enqueue.  Nobody reads behind wpos any more.
ibuf_close ==
    /\ draining = 0 /\ ibuf # NoBuf /\ Len(queue) < MaxBufs
    /\ ibuf_enqueue([mem |-> SubSeq(ibuf.mem, 1, ibuf_size(ibuf)),
                     wpos |-> ibuf.wpos, rpos |-> ibuf.rpos, at |-> Len(closed)])
    /\ closed' = closed \o content
    /\ ibuf' = NoBuf /\ content' = << >> /\ reply' = NoReply
    /\ UNCHANGED <<draining, written, put>>

ibuf_free ==
    /\ draining = 0 /\ ibuf # NoBuf
    /\ ibuf' = NoBuf /\ content' = << >> /\ reply' = NoReply
    /\ UNCHANGED <<queue, queued, draining, closed, written, put>>

\* The bytes not yet written in the first i buffers, which follow each other
\* (IbufTypeOK says that this is their sum).
Unwritten(i) == IF i = 0 THEN 0
                ELSE (queue[i].at + queue[i].wpos) - (queue[1].at + queue[1].rpos)

\* The buffers that writev is given, and the j-th byte in them.
Iovs == IF Len(queue) < IOV_MAX THEN Len(queue) ELSE IOV_MAX
IovByte(j) == LET i == Min({k \in DOMAIN queue : Unwritten(k) >= j})
              IN  queue[i].mem[queue[i].rpos + (j - Unwritten(i - 1))]

\* writev takes n bytes, and msgbuf_drain is called.  A result of -1 or 0
\* changes nothing.
ibuf_write(n) ==
    /\ draining = 0
    /\ n \in 1..Unwritten(Iovs)
    /\ written' = written \o [j \in 1..n |-> IovByte(j)]
    /\ draining' = n
    /\ reply' = NoReply
    /\ UNCHANGED <<ibuf, content, queue, queued, closed, put>>

\* Mutant: a buffer that is cut starts over.
Cut_whole(b, n) == b

\* The buffer b when n of its bytes are gone.
Cut(b, n) == [b EXCEPT !.rpos = @ + n]

\* One turn of the loop of msgbuf_drain: whole buffers are dequeued while bytes
\* are left to drain.
msgbuf_drain_next ==
    LET b == queue[1]
    IN  /\ draining > 0 /\ queue # << >>
        /\ IF b.rpos + draining >= b.wpos
           THEN draining' = draining - (b.wpos - b.rpos) /\ ibuf_dequeue
           ELSE /\ draining' = 0
                /\ queue' = [queue EXCEPT ![1] = Cut(b, draining)]
                /\ UNCHANGED queued
        /\ UNCHANGED <<ibuf, content, closed, written, put, reply>>

IbufInit ==
    /\ ibuf = NoBuf /\ content = << >> /\ queue = << >> /\ queued = 0 /\ draining = 0
    /\ closed = << >> /\ written = << >> /\ put = 0 /\ reply = NoReply

IbufNext ==
    \/ \E len \in Sizes : new_buffer(ibuf_open(len))
    \/ \E len \in Sizes, max \in Sizes : new_buffer(ibuf_dynamic(len, max))
    \/ \E n \in Sizes : ibuf_add(n)
    \/ \E pos \in Sizes, n \in Sizes : ibuf_seek(pos, n)
    \/ ibuf_close \/ ibuf_free
    \/ \E n \in 1..MaxBytes : ibuf_write(n)
    \/ msgbuf_drain_next

IbufSpec == IbufInit /\ [][IbufNext]_ibufVars

-----------------------------------------------------------------------------
(* Properties *)

\* The types of the positions of a struct ibuf, within its memory and its limit.
IbufTypeOK ==
    /\ ibuf.mem \in Seq(0..MaxBytes) /\ ibuf.rpos = 0
    /\ ibuf # NoBuf => ibuf.wpos <= Len(ibuf.mem) /\ Len(ibuf.mem) <= ibuf.max
    /\ queue \in Seq([mem : Seq(0..MaxBytes), wpos : Nat, rpos : Nat, at : Nat])
    /\ \A i \in DOMAIN queue : /\ queue[i].rpos <= queue[i].wpos
                              /\ queue[i].wpos = Len(queue[i].mem)
                              /\ Unwritten(i) = Unwritten(i - 1) + (queue[i].wpos - queue[i].rpos)
    /\ queued = Len(queue) /\ put \in 0..MaxBytes
    /\ draining \in 0..Unwritten(Len(queue))

\* Whatever was reserved, grown and rewritten, a buffer holds the bytes its
\* caller put there: realloc moves and memcpy never runs past the memory.
BufferHoldsContent ==
    ibuf.wpos <= Len(ibuf.mem) /\ SubSeq(ibuf.mem, 1, ibuf.wpos) = content

\* writev gets the bytes of the closed buffers once and in order, however it
\* cuts them and however many more buffers there are than IOV_MAX: what it has
\* taken is the beginning of them, and outside msgbuf_drain the buffers hold the
\* rest.
WrittenOnceInOrder ==
    /\ written = SubSeq(closed, 1, Len(written))
    /\ draining = 0 =>
         /\ Len(written) + Unwritten(Len(queue)) = Len(closed)
         /\ \A i \in DOMAIN queue :
              SubSeq(queue[i].mem, queue[i].rpos + 1, queue[i].wpos)
                = SubSeq(closed, Len(written) + Unwritten(i - 1) + 1,
                         Len(written) + Unwritten(i))

\* A caller that asks ibuf_left first is never refused, and one that asks for
\* more always is.
LeftIsRoom == reply.ok <=> reply.len <= reply.room

=============================================================================
