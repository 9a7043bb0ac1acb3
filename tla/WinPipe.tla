------------------------------ MODULE WinPipe ------------------------------
(***************************************************************************)
(* The Windows daemon has two threads: main runs the event loop, IOCPFunc  *)
(* (sys/wnt/main.c) serves the tap device with overlapped operations.      *)
(* They exchange frames over a socket pair, each as a size of two bytes    *)
(* and the frame.                                                          *)
(*                                                                         *)
(* The sockets deliver any number of bytes at a time.  A byte of a packet  *)
(* is named by the packet and its position; the first two are the size.    *)
(* The kernel completes overlapped operations by itself; the completion    *)
(* port tells the thread which handle an operation was on, not which       *)
(* operation it was.                                                       *)
(***************************************************************************)
EXTENDS Integers, Sequences

CONSTANTS
    Sizes,       \* the sizes of frames
    SHORT_MAX,   \* the largest value of a short
    PIPE_BUF,    \* sizeof pipe_buf
    ENTRIES,     \* the length of the array entries
    MaxDevice,   \* bound: frames from the device
    MaxNet,      \* bound: frames from the network
    MaxErrors    \* bound: overlapped calls that fail at once

ASSUME WinPipeAssumption ==
    /\ Sizes \subseteq Nat
    /\ {SHORT_MAX, PIPE_BUF, ENTRIES} \subseteq Nat \ {0}
    /\ {MaxDevice, MaxNet, MaxErrors} \subseteq Nat

VARIABLES
    main,          \* "run", "pipe_read_cb" (in its loop), "join" (waits for
                   \* the thread) or "segfault"
    tap,           \* the frames the device holds for the thread
    reads,         \* overlapped reads of the device under way
    writes,        \* overlapped writes to the device under way: their sizes
    device_buf,    \* the frame read last
    need_dev,      \* need_new_dev_overlapped
    need_pipe,     \* need_new_pipe_overlapped
    pipe_read_on,  \* an overlapped read of the pipe is under way
    pipe_buf,      \* what it has read
    queue,         \* the completion port
    entries,       \* the entries the thread has taken from it
    evb_pipe,      \* the thread's buffer of bytes from main
    in_pipe_read,  \* is the thread in the loop of pipe_read?
    written,       \* the frames written to the device, as bytes
    to_thread,     \* bytes on their way to the thread, main's output included
    to_main,       \* bytes on their way to main
    input,         \* main's input buffer
    frames_to_send,
    woken,         \* broadcast_udp was woken
    broadcast,     \* history: the frames taken by broadcast_udp
    ndevice,       \* frames from the device so far
    net,           \* history: the frames from the network
    sent,          \* history: the packets sent by the thread
    errors

thread == <<reads, device_buf, need_dev, need_pipe, pipe_read_on, pipe_buf,
            queue, entries, evb_pipe, in_pipe_read>>
mainvars == <<main, input, frames_to_send, woken, broadcast>>
vars == <<thread, mainvars, tap, writes, written, to_thread, to_main, ndevice,
          net, sent, errors>>

Frame(id, size) == [id |-> id, size |-> size]
NoFrame == Frame(0, 0)

Byte(k, at) == [pkt |-> k, at |-> at]

\* Packet k of the stream: the size, then that many bytes.
Packet(k, size) == [at \in 1..(size + 2) |-> Byte(k, at)]
Body(k, size) == [at \in 1..size |-> Byte(k, at + 2)]

\* main opens the device, makes the socket pair and the bufferevent and starts
\* the thread with its own copy of IOCPData.
Init ==
    /\ main = "run"
    /\ tap = <<>>
    /\ reads = 0
    /\ writes = <<>>
    /\ device_buf = NoFrame
    /\ need_dev = TRUE
    /\ need_pipe = TRUE
    /\ pipe_read_on = FALSE
    /\ pipe_buf = <<>>
    /\ queue = <<>>
    /\ entries = <<>>
    /\ evb_pipe = <<>>
    /\ in_pipe_read = FALSE
    /\ written = <<>>
    /\ to_thread = <<>>
    /\ to_main = <<>>
    /\ input = <<>>
    /\ frames_to_send = <<>>
    /\ woken = FALSE
    /\ broadcast = <<>>
    /\ ndevice = 0
    /\ net = <<>>
    /\ sent = <<>>
    /\ errors = 0

----------------------------------------------------------------------------
(* The kernel. *)

\* A frame of the device fits in device_buf, which is shorter than a short.
frame_from_tap(size) ==
    /\ size <= SHORT_MAX
    /\ ndevice < MaxDevice
    /\ ndevice' = ndevice + 1
    /\ tap' = Append(tap, Frame(ndevice + 1, size))
    /\ UNCHANGED <<thread, mainvars, writes, written, to_thread, to_main, net,
                   sent, errors>>

\* Every read of the device goes to device_buf.
device_read_completes ==
    /\ reads > 0
    /\ tap # <<>>
    /\ device_buf' = Head(tap)
    /\ tap' = Tail(tap)
    /\ reads' = reads - 1
    /\ queue' = Append(queue, [key |-> "device", size |-> Head(tap).size,
                               read |-> TRUE])
    /\ UNCHANGED <<need_dev, need_pipe, pipe_read_on, pipe_buf, entries,
                   evb_pipe, in_pipe_read, mainvars, writes, written, to_thread,
                   to_main, ndevice, net, sent, errors>>

device_write_completes ==
    /\ writes # <<>>
    /\ writes' = Tail(writes)
    /\ queue' = Append(queue, [key |-> "device", size |-> Head(writes),
                               read |-> FALSE])
    /\ UNCHANGED <<reads, device_buf, need_dev, need_pipe, pipe_read_on,
                   pipe_buf, entries, evb_pipe, in_pipe_read, mainvars, tap,
                   written, to_thread, to_main, ndevice, net, sent, errors>>

pipe_read_completes(n) ==
    /\ pipe_read_on
    /\ n \in 1..Len(to_thread)
    /\ n <= PIPE_BUF
    /\ pipe_buf' = SubSeq(to_thread, 1, n)
    /\ to_thread' = SubSeq(to_thread, n + 1, Len(to_thread))
    /\ pipe_read_on' = FALSE
    /\ queue' = Append(queue, [key |-> "pipe", size |-> n, read |-> TRUE])
    /\ UNCHANGED <<reads, device_buf, need_dev, need_pipe, entries, evb_pipe,
                   in_pipe_read, mainvars, tap, writes, written, to_main,
                   ndevice, net, sent, errors>>

----------------------------------------------------------------------------
(* The thread. *)

\* The top of the loop: reads that are due are started.  A call that fails at
\* once is logged, and nothing starts it again.
StartReads(devOk, pipeOk, pipeDue) ==
    /\ entries = <<>>
    /\ need_dev \/ need_pipe
    /\ LET bad == (IF need_dev /\ ~devOk THEN 1 ELSE 0)
                  + (IF need_pipe /\ ~pipeOk THEN 1 ELSE 0)
       IN  /\ errors + bad <= MaxErrors
           /\ errors' = errors + bad
    /\ reads' = IF need_dev /\ devOk THEN reads + 1 ELSE reads
    /\ pipe_read_on' = (pipe_read_on \/ (pipeDue /\ pipeOk))
    /\ need_dev' = FALSE
    /\ need_pipe' = FALSE
    /\ UNCHANGED <<device_buf, pipe_buf, queue, entries, evb_pipe, in_pipe_read,
                   mainvars, tap, writes, written, to_thread, to_main, ndevice,
                   net, sent>>

start_reads(devOk, pipeOk) == StartReads(devOk, pipeOk, need_pipe)

\* Mutant: the length of the array entries is not respected.
Ready_all == Len(queue)

\* The number of entries that GetQueuedCompletionStatusEx takes.
Ready == IF Len(queue) < ENTRIES THEN Len(queue) ELSE ENTRIES

dequeue ==
    /\ entries = <<>>
    /\ ~need_dev /\ ~need_pipe
    /\ queue # <<>>
    /\ entries' = SubSeq(queue, 1, Ready)
    /\ queue' = SubSeq(queue, Ready + 1, Len(queue))
    /\ UNCHANGED <<reads, device_buf, need_dev, need_pipe, pipe_read_on,
                   pipe_buf, evb_pipe, in_pipe_read, mainvars, tap, writes,
                   written, to_thread, to_main, ndevice, net, sent, errors>>

\* A packet made of the size of the entry and the bytes that are in
\* device_buf now.
handle_frames(size) ==
    /\ sent' = Append(sent, [size |-> size, frame |-> device_buf])
    /\ to_main' = to_main \o Packet(Len(sent) + 1, size)

DeviceEntry(again) ==
    /\ entries # <<>>
    /\ Head(entries).key = "device"
    /\ handle_frames(Head(entries).size)
    /\ need_dev' = again
    /\ entries' = Tail(entries)
    /\ UNCHANGED <<reads, device_buf, need_pipe, pipe_read_on, pipe_buf, queue,
                   evb_pipe, in_pipe_read, mainvars, tap, writes, written,
                   to_thread, ndevice, net, errors>>

\* Mutant: the flag is set at the end of a batch only.
device_entry_last == DeviceEntry(Len(entries) = 1)

\* An entry of the device, taken for a read.
device_entry == DeviceEntry(TRUE)

\* The size a buffer begins with, as a short that is compared with a size_t: a
\* negative one is larger than any length.
SizeIn(b, packets) == packets[b[1].pkt].size

\* The loop of pipe_read goes on: a size is there, and the frame behind it.
Enough(b, packets) ==
    /\ Len(b) >= 2
    /\ SizeIn(b, packets) <= SHORT_MAX
    /\ SizeIn(b, packets) <= Len(b) - 2

FrameIn(b, packets) == SubSeq(b, 3, SizeIn(b, packets) + 2)

\* What is left when the size and the frame have been drained.
Rest(b, packets) == SubSeq(b, SizeIn(b, packets) + 3, Len(b))

\* An entry of the pipe: what was read is added to the buffer, and pipe_read is
\* called.
pipe_entry ==
    /\ entries # <<>> /\ Head(entries).key = "pipe"
    /\ ~in_pipe_read
    /\ evb_pipe' = evb_pipe \o pipe_buf
    /\ in_pipe_read' = TRUE
    /\ UNCHANGED <<reads, device_buf, need_dev, need_pipe, pipe_read_on,
                   pipe_buf, queue, entries, mainvars, tap, writes, written,
                   to_thread, to_main, ndevice, net, sent, errors>>

\* One turn of the loop of pipe_read writes a frame to the device.  A write that
\* fails at once is logged and its frame dropped.
pipe_read(ok) ==
    /\ in_pipe_read
    /\ Enough(evb_pipe, net)
    /\ evb_pipe' = Rest(evb_pipe, net)
    /\ IF ok THEN /\ written' = Append(written, FrameIn(evb_pipe, net))
                  /\ writes' = Append(writes, Len(FrameIn(evb_pipe, net)))
                  /\ errors' = errors
       ELSE /\ errors < MaxErrors
            /\ errors' = errors + 1
            /\ UNCHANGED <<written, writes>>
    /\ UNCHANGED <<reads, device_buf, need_dev, need_pipe, pipe_read_on,
                   pipe_buf, queue, entries, in_pipe_read, mainvars, tap,
                   to_thread, to_main, ndevice, net, sent>>

PipeReadEnds(again) ==
    /\ in_pipe_read
    /\ ~Enough(evb_pipe, net)
    /\ in_pipe_read' = FALSE
    /\ need_pipe' = again
    /\ entries' = Tail(entries)
    /\ UNCHANGED <<reads, device_buf, need_dev, pipe_read_on, pipe_buf, queue,
                   evb_pipe, mainvars, tap, writes, written, to_thread, to_main,
                   ndevice, net, sent, errors>>

\* Mutant: the pipe is not read again.
pipe_read_ends_once == PipeReadEnds(FALSE)

\* pipe_read returns, and the entry has been handled.
pipe_read_ends == PipeReadEnds(TRUE)

----------------------------------------------------------------------------
(* main. *)

\* server_udp has received a frame: send_buffer_to_device_thread.
frame_from_net(size) ==
    /\ main = "run"
    /\ Len(net) < MaxNet
    /\ net' = Append(net, [size |-> size])
    /\ to_thread' = to_thread \o Packet(Len(net) + 1, size)
    /\ UNCHANGED <<thread, mainvars, tap, writes, written, to_main, ndevice,
                   sent, errors>>

\* bufferevent has read n bytes and calls pipe_read_cb.
pipe_read_cb(n) ==
    /\ main = "run"
    /\ n \in 1..Len(to_main)
    /\ input' = input \o SubSeq(to_main, 1, n)
    /\ to_main' = SubSeq(to_main, n + 1, Len(to_main))
    /\ main' = "pipe_read_cb"
    /\ UNCHANGED <<thread, frames_to_send, woken, broadcast, tap, writes,
                   written, to_thread, ndevice, net, sent, errors>>

\* One turn of its loop.
v_frame_push ==
    /\ main = "pipe_read_cb"
    /\ Enough(input, sent)
    /\ frames_to_send' = Append(frames_to_send, FrameIn(input, sent))
    /\ input' = Rest(input, sent)
    /\ UNCHANGED <<thread, main, woken, broadcast, tap, writes, written,
                   to_thread, to_main, ndevice, net, sent, errors>>

\* The loop of pipe_read_cb goes through a null pointer: one byte is there
\* instead of a size, or the frame behind the size is not complete, which the
\* comparison with the whole length does not notice.
Segfaults(b, packets) ==
    \/ Len(b) = 1
    \/ /\ Len(b) >= 2
       /\ SizeIn(b, packets) <= SHORT_MAX
       /\ SizeIn(b, packets) <= Len(b)

PipeReadCbEnds(wake) ==
    /\ main = "pipe_read_cb"
    /\ ~Enough(input, sent)
    /\ main' = IF Segfaults(input, sent) THEN "segfault" ELSE "run"
    /\ woken' = (woken \/ (wake /\ main' = "run"))
    /\ UNCHANGED <<thread, input, frames_to_send, broadcast, tap, writes,
                   written, to_thread, to_main, ndevice, net, sent, errors>>

\* Mutant: the fiber is not woken by the first frame.
pipe_read_cb_ends_silent == PipeReadCbEnds(Len(frames_to_send) > 1)

\* The end of the loop: broadcast_udp_to_peers wakes the fiber.
pipe_read_cb_ends == PipeReadCbEnds(TRUE)

\* The fiber sends and frees all frames.
broadcast_udp ==
    /\ main = "run"
    /\ woken
    /\ woken' = FALSE
    /\ broadcast' = broadcast \o frames_to_send
    /\ frames_to_send' = <<>>
    /\ UNCHANGED <<thread, main, input, tap, writes, written, to_thread,
                   to_main, ndevice, net, sent, errors>>

\* event_base_dispatch returns.  The flag enabled, which main clears for the
\* thread, is read by nobody: main waits for a thread that does not end.
loop_ends ==
    /\ main = "run"
    /\ errors < MaxErrors
    /\ errors' = errors + 1
    /\ main' = "join"
    /\ UNCHANGED <<thread, input, frames_to_send, woken, broadcast, tap, writes,
                   written, to_thread, to_main, ndevice, net, sent>>

----------------------------------------------------------------------------

Kernel ==
    \/ device_read_completes
    \/ device_write_completes
    \/ \E n \in 1..PIPE_BUF : pipe_read_completes(n)

\* The thread goes on while the process does.
IOCPFunc ==
    /\ main # "segfault"
    /\ \/ \E devOk, pipeOk \in BOOLEAN : start_reads(devOk, pipeOk)
       \/ dequeue
       \/ device_entry
       \/ pipe_entry
       \/ \E ok \in BOOLEAN : pipe_read(ok)
       \/ pipe_read_ends

EventLoop ==
    \/ \E n \in 1..Len(to_main) : pipe_read_cb(n)
    \/ v_frame_push \/ pipe_read_cb_ends
    \/ broadcast_udp

Next ==
    \/ \E size \in Sizes : frame_from_tap(size) \/ frame_from_net(size)
    \/ Kernel
    \/ IOCPFunc
    \/ EventLoop
    \/ loop_ends

Spec == Init /\ [][Next]_vars

\* Both threads and the kernel run on.  Which operation the kernel completes
\* first is its choice, but it completes each.
FairSpec ==
    /\ Spec
    /\ WF_vars(device_read_completes)
    /\ WF_vars(device_write_completes)
    /\ WF_vars(\E n \in 1..PIPE_BUF : pipe_read_completes(n))
    /\ WF_vars(IOCPFunc)
    /\ WF_vars(\E n \in 1..Len(to_main) : pipe_read_cb(n))
    /\ WF_vars(v_frame_push \/ pipe_read_cb_ends)
    /\ WF_vars(broadcast_udp)

----------------------------------------------------------------------------
(* Properties. *)

Bytes == [pkt : Nat \ {0}, at : Nat \ {0}]
Entries == [key : {"device", "pipe"}, size : Nat, read : BOOLEAN]

\* The buffers, queues and flags of both threads have the values that
\* sys/wnt/main.c gives them.
TypeOK ==
    /\ main \in {"run", "pipe_read_cb", "join", "segfault"}
    /\ reads \in Nat
    /\ {need_dev, need_pipe, pipe_read_on, in_pipe_read, woken} \subseteq BOOLEAN
    /\ queue \in Seq(Entries) /\ entries \in Seq(Entries)
    /\ {pipe_buf, evb_pipe, to_thread, to_main, input} \subseteq Seq(Bytes)
    /\ Len(pipe_buf) <= PIPE_BUF
    /\ Len(entries) <= ENTRIES
    /\ errors \in 0..MaxErrors

Whole(frames, packets) ==
    \A i \in DOMAIN frames :
        frames[i] # <<>> =>
            LET k == frames[i][1].pkt IN frames[i] = Body(k, packets[k].size)

\* However the stream is cut, pipe_read writes whole frames to the device, in
\* the order the network gave them, and none twice.
WrittenWhole ==
    /\ Whole(written, net)
    /\ \A i, j \in DOMAIN written :
           i < j /\ written[i] # <<>> /\ written[j] # <<>>
               => written[i][1].pkt < written[j][1].pkt

\* Unless a call has failed, the thread always has a read of the device under
\* way, or finished and not yet handled, or due: the flag need_new_dev_overlapped
\* is set by each completion of the batch, though some are of writes.
ReadAlwaysPending ==
    errors = 0 =>
        \/ need_dev
        \/ reads > 0
        \/ \E s \in {queue, entries} :
               \E i \in DOMAIN s : s[i].key = "device" /\ s[i].read

\* The thread's only buffer for the pipe is not read into again before its
\* bytes were added to evb_pipe.
PipeBufferOwned ==
    pipe_read_on =>
        \A s \in {queue, entries} : \A i \in DOMAIN s : s[i].key # "pipe"

\* As long as the thread has written nothing to the device, main broadcasts
\* the frames of the device, whole and in order (handle_frames, pipe_read_cb).
ReadsReachMain ==
    written = <<>> =>
        LET out == broadcast \o frames_to_send
        IN  /\ Len(out) <= Len(sent)
            /\ \A i \in DOMAIN out : out[i] = Body(i, sent[i].size)
            /\ \A i \in DOMAIN sent : sent[i].frame = Frame(i, sent[i].size)

Fit(k) == \A i \in 1..k : i <= Len(net) => net[i].size <= SHORT_MAX

\* A frame from the network reaches the device, unless a call fails, a frame
\* before it is too long for the short that pipe_read takes its size for, or
\* main has ended on a cut frame.
NetReachesDevice ==
    \A k \in 1..MaxNet :
        (k <= Len(net) /\ Fit(k))
            ~> (Len(written) >= k \/ errors > 0 \/ main = "segfault")

\* A frame that the device gives is read, and what the thread made of it is
\* broadcast, unless a call fails or main has ended on a cut frame.
DeviceReachesPeers ==
    \A k \in 1..MaxDevice :
        (ndevice >= k) ~> (Len(broadcast) >= k \/ errors > 0 \/ main = "segfault")

\* Frames cross the pipe whole and in order in both directions, and neither
\* thread stops reading or reads over what the other has not taken.
PipeSound == WrittenWhole /\ ReadAlwaysPending /\ PipeBufferOwned /\ ReadsReachMain

=============================================================================
