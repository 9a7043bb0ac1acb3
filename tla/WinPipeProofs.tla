--------------------------- MODULE WinPipeProofs ---------------------------
(***************************************************************************)
(* The two threads of the Windows daemon exchange frames whole and in      *)
(* order, the device thread never stops reading and never reads over bytes *)
(* it has not taken, and the state of both is well formed, for any sizes   *)
(* of frames and buffers and any number of frames.                         *)
(***************************************************************************)
EXTENDS WinPipe, NumberLemmas, SequenceTheorems, TLAPS

Frames == [id : Nat, size : Nat]
NetPackets == [size : Nat]
SentPackets == [size : Nat, frame : Frames]

\* The packet a stream goes on with.
NextPkt(b, packets) == IF b = <<>> THEN Len(packets) + 1 ELSE b[1].pkt

\* b is the end of the stream of the packets, from the beginning of one of
\* them: each byte follows the one before it.
Stream(b, packets) ==
    /\ b \in Seq(Bytes)
    /\ \A i \in 1..Len(b) : /\ b[i].pkt \in 1..Len(packets)
                            /\ b[i].at \in 1..(packets[b[i].pkt].size + 2)
    /\ \A i \in 1..(Len(b) - 1) :
          b[i + 1] = IF b[i].at < packets[b[i].pkt].size + 2
                     THEN Byte(b[i].pkt, b[i].at + 1) ELSE Byte(b[i].pkt + 1, 1)
    /\ b # <<>> => /\ b[1].at = 1
                   /\ b[Len(b)] = Byte(Len(packets), packets[Len(packets)].size + 2)

\* The entries of the completion port that are on a handle.
On(key, s) == {i \in 1..Len(s) : s[i].key = key}
None(key) == On(key, queue) = {} /\ On(key, entries) = {}
\* There is at most one.
OneAtMost(key) ==
    /\ \A i, j \in On(key, queue) : i = j
    /\ \A i, j \in On(key, entries) : i = j
    /\ On(key, queue) = {} \/ On(key, entries) = {}

Types ==
    /\ main \in {"run", "pipe_read_cb", "join", "segfault"}
    /\ reads \in Nat /\ errors \in 0..MaxErrors /\ ndevice \in Nat
    /\ need_dev \in BOOLEAN /\ need_pipe \in BOOLEAN /\ pipe_read_on \in BOOLEAN
    /\ in_pipe_read \in BOOLEAN /\ woken \in BOOLEAN
    /\ queue \in Seq(Entries) /\ entries \in Seq(Entries)
    /\ Len(entries) <= ENTRIES
    /\ pipe_buf \in Seq(Bytes) /\ Len(pipe_buf) <= PIPE_BUF
    /\ evb_pipe \in Seq(Bytes) /\ to_thread \in Seq(Bytes)
    /\ to_main \in Seq(Bytes) /\ input \in Seq(Bytes)
    /\ written \in Seq(Seq(Bytes)) /\ writes \in Seq(Nat)
    /\ frames_to_send \in Seq(Seq(Bytes)) /\ broadcast \in Seq(Seq(Bytes))
    /\ net \in Seq(NetPackets) /\ sent \in Seq(SentPackets)
    /\ tap \in Seq(Frames) /\ device_buf \in Frames

\* There is one buffer for the pipe: a read of it is due, under way, or finished
\* and not yet handled.
PipeInv ==
    /\ OneAtMost("pipe")
    /\ need_pipe \/ pipe_read_on => None("pipe")
    /\ ~(need_pipe /\ pipe_read_on)
    /\ in_pipe_read => entries # <<>> /\ entries[1].key = "pipe"

\* The bytes in pipe_buf that are not in evb_pipe yet.
Unhandled == IF in_pipe_read \/ None("pipe") THEN <<>> ELSE pipe_buf
ToDevice == evb_pipe \o (Unhandled \o to_thread)

\* The frames w are packets in order, before packet n.
InOrder(w, packets, n) ==
    /\ \A i \in 1..Len(w) : w[i] # <<>> =>
          /\ w[i][1].pkt \in 1..Len(packets)
          /\ w[i][1].pkt < n
          /\ w[i] = Body(w[i][1].pkt, packets[w[i][1].pkt].size)
    /\ \A i, j \in 1..Len(w) :
          i < j /\ w[i] # <<>> /\ w[j] # <<>> => w[i][1].pkt < w[j][1].pkt

\* What is behind the frames already written is the rest of the stream.
WrittenInv ==
    Stream(ToDevice, net) /\ InOrder(written, net, NextPkt(ToDevice, net))

ToMain == input \o to_main
Out == broadcast \o frames_to_send

\* The frames out are the first packets.
Bodies(out, packets) == \A i \in 1..Len(out) : out[i] = Body(i, packets[i].size)

\* What is behind the frames main has taken is the rest of the stream.
OutInv ==
    /\ Stream(ToMain, sent)
    /\ NextPkt(ToMain, sent) = Len(Out) + 1
    /\ Bodies(Out, sent)

\* How many frames the device has given to the thread.
Given == ndevice - Len(tap)

\* The frames the device holds are its last ones.
TapInv == \A i \in 1..Len(tap) : tap[i].id = Given + i

\* The finished reads of the device among s are of the frame in the buffer, the
\* n-th one.
Loaded(s, buf, n) == \A i \in On("device", s) : buf = Frame(n, s[i].size)

\* The packets p are the frames of the device.
Fresh(p) == \A i \in 1..Len(p) : p[i].frame = Frame(i, p[i].size)

\* There is one buffer for the device too: a read of it is due, under way, or
\* finished with its frame in the buffer.
OneRead ==
    /\ writes = <<>>
    /\ OneAtMost("device")
    /\ reads <= 1
    /\ need_dev \/ reads = 1 => None("device")
    /\ ~(need_dev /\ reads = 1)
    /\ Loaded(queue, device_buf, Len(sent) + 1)
    /\ Loaded(entries, device_buf, Len(sent) + 1)
    /\ Given = Len(sent) + (IF None("device") THEN 0 ELSE 1)
    /\ Fresh(sent)

\* That is so while nothing was written to the device.
DeviceInv == TapInv /\ (written = <<>> => OneRead)

WinInv == Types /\ PipeInv /\ ReadAlwaysPending /\ WrittenInv /\ OutInv /\ DeviceInv

-----------------------------------------------------------------------------
(* Streams of packets *)

\* The bytes of a sequence, one by one.
LEMMA Elements ==
    ASSUME NEW S, NEW s \in Seq(S)
    PROVE  /\ Len(s) \in Nat /\ DOMAIN s = 1..Len(s)
           /\ \A i \in 1..Len(s) : s[i] \in S
           /\ s # <<>> => Len(s) >= 1
           /\ s = <<>> => Len(s) = 0
<1>1. Len(s) \in Nat /\ DOMAIN s = 1..Len(s)
  BY LenProperties
<1>2. \A i \in 1..Len(s) : s[i] \in S
  BY ElementOfSeq
<1>3. (s # <<>> => Len(s) \in Nat \ {0}) /\ (s = <<>> => Len(s) = 0)
  BY EmptySeq
<1>4. QED
  BY <1>1, <1>2, <1>3

\* The end of a sequence behind its first m elements.
LEMMA Dropped ==
    ASSUME NEW S, NEW s \in Seq(S), NEW m \in 0..Len(s)
    PROVE  /\ SubSeq(s, m + 1, Len(s)) \in Seq(S)
           /\ Len(SubSeq(s, m + 1, Len(s))) = Len(s) - m
           /\ \A i \in 1..(Len(s) - m) : SubSeq(s, m + 1, Len(s))[i] = s[m + i]
<1>1. Len(s) \in Nat /\ m \in Nat /\ \A i \in 1..Len(s) : s[i] \in S
  BY Elements
<1>2. m + 1 \in Int /\ Len(s) \in Int /\ \A i \in (m + 1)..Len(s) : s[i] \in S
  BY <1>1
<1>3. /\ SubSeq(s, m + 1, Len(s)) \in Seq(S)
      /\ Len(SubSeq(s, m + 1, Len(s)))
            = IF m + 1 <= Len(s) THEN Len(s) - (m + 1) + 1 ELSE 0
      /\ \A i \in 1..(Len(s) - (m + 1) + 1) :
            SubSeq(s, m + 1, Len(s))[i] = s[(m + 1) + i - 1]
  BY <1>2, SubSeqProperties
<1>4. /\ (IF m + 1 <= Len(s) THEN Len(s) - (m + 1) + 1 ELSE 0) = Len(s) - m
      /\ Len(s) - (m + 1) + 1 = Len(s) - m
  BY <1>1
<1>5. ASSUME NEW i \in 1..(Len(s) - m)
      PROVE  SubSeq(s, m + 1, Len(s))[i] = s[m + i]
  <2>1. PICK n \in Nat : n = Len(s)
    BY <1>1
  <2>2. i \in 1..(n - (m + 1) + 1) /\ (m + 1) + i - 1 = m + i
    BY <1>1, <2>1
  <2>3. SubSeq(s, m + 1, Len(s))[i] = s[(m + 1) + i - 1]
    BY <1>3, <2>1, <2>2
  <2>4. QED
    BY <2>2, <2>3
<1>6. QED
  BY <1>3, <1>4, <1>5

\* The first m elements of a sequence.
LEMMA Taken ==
    ASSUME NEW S, NEW s \in Seq(S), NEW m \in 0..Len(s)
    PROVE  /\ SubSeq(s, 1, m) \in Seq(S)
           /\ Len(SubSeq(s, 1, m)) = m
           /\ \A i \in 1..m : SubSeq(s, 1, m)[i] = s[i]
<1>1. Len(s) \in Nat /\ m \in Nat /\ \A i \in 1..Len(s) : s[i] \in S
  BY Elements
<1>2. 1 \in Int /\ m \in Int /\ \A i \in 1..m : s[i] \in S
  BY <1>1
<1>3. /\ SubSeq(s, 1, m) \in Seq(S)
      /\ Len(SubSeq(s, 1, m)) = IF 1 <= m THEN m - 1 + 1 ELSE 0
      /\ \A i \in 1..(m - 1 + 1) : SubSeq(s, 1, m)[i] = s[1 + i - 1]
  BY <1>2, SubSeqProperties
<1>4. /\ (IF 1 <= m THEN m - 1 + 1 ELSE 0) = m
      /\ m - 1 + 1 = m
      /\ \A i \in Int : 1 + i - 1 = i
  BY <1>1
<1>5. QED
  BY <1>3, <1>4

\* Bytes that move from the front of one buffer to the end of another stay
\* where they are in the stream.
LEMMA Moved ==
    ASSUME NEW S, NEW s \in Seq(S), NEW t \in Seq(S), NEW m \in 0..Len(t)
    PROVE  (s \o SubSeq(t, 1, m)) \o SubSeq(t, m + 1, Len(t)) = s \o t
<1>1. /\ SubSeq(t, 1, m) \in Seq(S) /\ SubSeq(t, m + 1, Len(t)) \in Seq(S)
  BY Taken, Dropped
<1>2. SubSeq(t, 1, m) \o SubSeq(t, m + 1, Len(t)) = t
  <2>1. Len(t) \in Nat /\ 1 \in 1..(Len(t) + 1) /\ m \in (1 - 1)..Len(t)
        /\ Len(t) \in m..Len(t)
    BY Elements
  <2>2. SubSeq(t, 1, m) \o SubSeq(t, m + 1, Len(t)) = SubSeq(t, 1, Len(t))
    BY <2>1, ConcatAdjacentSubSeq
  <2>3. QED
    BY <2>2, SubSeqFull
<1>3. (s \o SubSeq(t, 1, m)) \o SubSeq(t, m + 1, Len(t))
        = s \o (SubSeq(t, 1, m) \o SubSeq(t, m + 1, Len(t)))
  <2>1. PICK x \in Seq(S), y \in Seq(S) :
          x = SubSeq(t, 1, m) /\ y = SubSeq(t, m + 1, Len(t))
    BY <1>1
  <2>2. (s \o x) \o y = s \o (x \o y)
    BY ConcatAssociative
  <2>3. QED
    BY <2>1, <2>2
<1>4. QED
  BY <1>2, <1>3

\* Taking from the front of a buffer is taking from the front of the stream.
LEMMA DroppedFirst ==
    ASSUME NEW S, NEW s \in Seq(S), NEW t \in Seq(S), NEW m \in 0..Len(s)
    PROVE  /\ SubSeq(s, m + 1, Len(s)) \o t = SubSeq(s \o t, m + 1, Len(s \o t))
           /\ m <= Len(s \o t)
           /\ \A i \in 1..m : s[i] = (s \o t)[i]
<1> DEFINE u == s \o t
           d == SubSeq(s, m + 1, Len(s))
<1>1. /\ Len(s) \in Nat /\ Len(t) \in Nat /\ m \in Nat
  BY Elements
<1>2. /\ u \in Seq(S) /\ Len(u) = Len(s) + Len(t)
      /\ \A i \in 1..(Len(s) + Len(t)) : u[i] = IF i <= Len(s) THEN s[i] ELSE t[i - Len(s)]
  BY ConcatProperties
<1>3. /\ d \in Seq(S) /\ Len(d) = Len(s) - m
      /\ \A i \in 1..(Len(s) - m) : d[i] = s[m + i]
  BY Dropped
<1> HIDE DEF u, d
<1>4. /\ d \o t \in Seq(S) /\ Len(d \o t) = Len(d) + Len(t)
      /\ \A i \in 1..(Len(d) + Len(t)) : (d \o t)[i] = IF i <= Len(d) THEN d[i] ELSE t[i - Len(d)]
  BY <1>3, ConcatProperties
<1>5. m \in 0..Len(u)
  BY <1>1, <1>2
<1>6. /\ SubSeq(u, m + 1, Len(u)) \in Seq(S)
      /\ Len(SubSeq(u, m + 1, Len(u))) = Len(u) - m
      /\ \A i \in 1..(Len(u) - m) : SubSeq(u, m + 1, Len(u))[i] = u[m + i]
  BY <1>2, <1>5, Dropped
<1>7. Len(d \o t) = Len(SubSeq(u, m + 1, Len(u)))
  BY <1>1, <1>2, <1>3, <1>4, <1>6
<1>8. ASSUME NEW i \in 1..Len(d \o t)
      PROVE  (d \o t)[i] = SubSeq(u, m + 1, Len(u))[i]
  <2>1. /\ i \in Nat /\ i >= 1 /\ i <= Len(s) - m + Len(t)
    BY <1>1, <1>3, <1>4
  <2>2. SubSeq(u, m + 1, Len(u))[i] = u[m + i]
    BY <1>1, <1>2, <1>6, <2>1
  <2>3. CASE i <= Len(s) - m
    <3>1. (d \o t)[i] = s[m + i]
      BY <1>1, <1>3, <1>4, <2>1, <2>3
    <3>2. u[m + i] = s[m + i]
      BY <1>1, <1>2, <2>1, <2>3
    <3>3. QED
      BY <2>2, <3>1, <3>2
  <2>4. CASE i > Len(s) - m
    <3>1. (d \o t)[i] = t[i - (Len(s) - m)]
      BY <1>1, <1>3, <1>4, <2>1, <2>4
    <3>2. u[m + i] = t[m + i - Len(s)]
      BY <1>1, <1>2, <2>1, <2>4
    <3>3. i - (Len(s) - m) = m + i - Len(s)
      BY <1>1, <2>1
    <3>4. QED
      BY <2>2, <3>1, <3>2, <3>3
  <2>5. i <= Len(s) - m \/ i > Len(s) - m
    BY <1>1, <2>1
  <2>6. QED
    BY <2>3, <2>4, <2>5
<1>9. d \o t = SubSeq(u, m + 1, Len(u))
  BY <1>4, <1>6, <1>7, <1>8, SeqEqual
<1>10. m <= Len(u) /\ \A i \in 1..m : s[i] = u[i]
  BY <1>1, <1>2
<1>11. QED
  BY <1>9, <1>10 DEF u, d

\* A stream begins with the bytes of one packet, as far as it goes.
LEMMA HeadBytes ==
    ASSUME NEW P, NEW packets \in Seq(P), \A p \in P : p.size \in Nat,
           NEW b, Stream(b, packets), b # <<>>,
           NEW m, m = packets[b[1].pkt].size + 2
    PROVE  /\ m \in Nat /\ m >= 2
           /\ b[1].pkt \in 1..Len(packets)
           /\ \A j \in 1..m : j <= Len(b) => b[j] = Byte(b[1].pkt, j)
<1>1. /\ Len(b) \in Nat /\ Len(b) >= 1 /\ b \in Seq(Bytes)
      /\ \A i \in 1..Len(b) : b[i] \in Bytes
  BY Elements DEF Stream
<1>2. 1 \in 1..Len(b)
  BY <1>1
<1> DEFINE k == b[1].pkt
<1>3. k \in 1..Len(packets) /\ b[1].at = 1
  BY <1>2 DEF Stream
<1>4. packets[k].size \in Nat
  BY <1>3, ElementOfSeq
<1>5. m \in Nat /\ m >= 2
  BY <1>4
<1> DEFINE Bad == {j \in Nat : j \in 1..m /\ j <= Len(b) /\ b[j] # Byte(k, j)}
<1>6. Bad = {}
  <2> SUFFICES ASSUME Bad # {} PROVE FALSE
    OBVIOUS
  <2>1. PICK j \in Bad : \A y \in Bad : j <= y
    <3>1. Bad \subseteq Nat
      OBVIOUS
    <3> HIDE DEF Bad
    <3>2. QED
      BY <3>1, LeastNumber
  <2>2. b[1] = Byte(k, 1)
    BY <1>1, <1>2, <1>3 DEF Bytes, Byte
  <2>3. j # 1
    BY <2>1, <2>2
  <2>4. /\ j - 1 \in Nat /\ j - 1 \in 1..m /\ j - 1 <= Len(b) /\ j - 1 < j
        /\ j - 1 \in 1..(Len(b) - 1) /\ (j - 1) + 1 = j
    BY <1>1, <1>5, <2>1, <2>3
  <2>5. b[j - 1] = Byte(k, j - 1)
    <3>1. j - 1 \notin Bad
      <4>1. \A y \in Bad : y \in Nat /\ j <= y
        BY <2>1
      <4> HIDE DEF Bad
      <4>2. QED
        BY <2>4, <4>1
    <3>2. QED
      BY <2>4, <3>1
  <2>6. b[j - 1].pkt = k /\ b[j - 1].at = j - 1
    BY <2>5 DEF Byte
  <2>7. j - 1 < m
    BY <1>5, <2>1, <2>4
  <2>8. b[(j - 1) + 1] = IF b[j - 1].at < packets[b[j - 1].pkt].size + 2
                         THEN Byte(b[j - 1].pkt, b[j - 1].at + 1)
                         ELSE Byte(b[j - 1].pkt + 1, 1)
    BY <2>4 DEF Stream
  <2>9. b[j] = Byte(k, (j - 1) + 1)
    BY <2>4, <2>6, <2>7, <2>8
  <2>10. QED
    BY <2>1, <2>4, <2>9
<1>7. QED
  BY <1>3, <1>5, <1>6

\* When the first packet of a stream is taken from it, the stream goes on with
\* the next one; what is behind the size is the frame.
LEMMA StreamDrops ==
    ASSUME NEW P, NEW packets \in Seq(P), \A p \in P : p.size \in Nat,
           NEW b, Stream(b, packets), b # <<>>,
           NEW m, m = packets[b[1].pkt].size + 2, m <= Len(b)
    PROVE  /\ Stream(SubSeq(b, m + 1, Len(b)), packets)
           /\ NextPkt(SubSeq(b, m + 1, Len(b)), packets) = b[1].pkt + 1
           /\ SubSeq(b, 3, m) = Body(b[1].pkt, packets[b[1].pkt].size)
           /\ m \in 2..Len(b)
           /\ b[1].pkt \in 1..Len(packets)
<1> DEFINE k == b[1].pkt
           d == SubSeq(b, m + 1, Len(b))
<1>1. /\ m \in Nat /\ m >= 2 /\ k \in 1..Len(packets)
      /\ \A j \in 1..m : j <= Len(b) => b[j] = Byte(k, j)
  BY HeadBytes
<1>2. b \in Seq(Bytes) /\ Len(b) \in Nat /\ \A i \in 1..Len(b) : b[i] \in Bytes
  BY Elements DEF Stream
<1>3. m \in 0..Len(b) /\ Len(packets) \in Nat
  BY <1>1, <1>2, Elements
<1>4. /\ d \in Seq(Bytes) /\ Len(d) = Len(b) - m
      /\ \A i \in 1..(Len(b) - m) : d[i] = b[m + i]
  BY <1>2, <1>3, Dropped
<1>5. b[m] = Byte(k, m)
  BY <1>1, <1>2
<1>6. b[m].pkt = k /\ b[m].at = m
  BY <1>5 DEF Byte
<1> HIDE DEF d
<1>7. \A i \in 1..Len(d) : /\ d[i].pkt \in 1..Len(packets)
                           /\ d[i].at \in 1..(packets[d[i].pkt].size + 2)
  <2> TAKE i \in 1..Len(d)
  <2>1. PICK L \in Nat : L = Len(b) /\ Len(d) = L - m
    BY <1>2, <1>4
  <2>2. m \in Nat /\ i \in 1..(L - m)
    BY <1>1, <2>1
  <2>3. m + i \in 1..L /\ i \in 1..(L - m)
    BY ONLY <2>2, L \in Nat
  <2>4. d[i] = b[m + i]
    BY <1>4, <2>1, <2>3
  <2>5. QED
    BY <2>1, <2>3, <2>4 DEF Stream
<1>8. \A i \in 1..(Len(d) - 1) :
          d[i + 1] = IF d[i].at < packets[d[i].pkt].size + 2
                     THEN Byte(d[i].pkt, d[i].at + 1) ELSE Byte(d[i].pkt + 1, 1)
  <2> TAKE i \in 1..(Len(d) - 1)
  <2>1. PICK L : /\ L = Len(b) /\ Len(d) = L - m /\ L \in Nat /\ m \in Nat
                 /\ i \in 1..((L - m) - 1)
    BY <1>1, <1>2, <1>4
  <2>2. /\ m + i \in 1..(L - 1) /\ i \in 1..(L - m) /\ i + 1 \in 1..(L - m)
        /\ m + (i + 1) = (m + i) + 1
    BY ONLY <2>1
  <2>3. d[i] = b[m + i] /\ d[i + 1] = b[(m + i) + 1]
    BY <1>4, <2>1, <2>2
  <2>4. QED
    BY <2>1, <2>2, <2>3 DEF Stream
<1>9. ASSUME m = Len(b)
      PROVE  Stream(d, packets) /\ NextPkt(d, packets) = k + 1
  <2>1. d = <<>>
    BY <1>2, <1>4, <1>9, EmptySeq
  <2>2. b[Len(b)] = Byte(Len(packets), packets[Len(packets)].size + 2)
    BY DEF Stream
  <2>3. k = Len(packets)
    BY <1>6, <1>9, <2>2 DEF Byte
  <2>4. Stream(d, packets)
    BY <1>4, <1>7, <1>8, <2>1 DEF Stream
  <2>5. NextPkt(d, packets) = k + 1
    BY <2>1, <2>3 DEF NextPkt
  <2>6. QED
    BY <2>4, <2>5
<1>10. ASSUME m < Len(b)
       PROVE  Stream(d, packets) /\ NextPkt(d, packets) = k + 1
  <2>1. m \in 1..(Len(b) - 1) /\ 1 \in 1..(Len(b) - m) /\ Len(d) # 0
    BY <1>1, <1>2, <1>4, <1>10
  <2>2. d # <<>>
    BY <2>1, EmptySeq
  <2>3. b[m + 1] = Byte(k + 1, 1)
    <3>1. b[m + 1] = IF b[m].at < packets[b[m].pkt].size + 2
                     THEN Byte(b[m].pkt, b[m].at + 1) ELSE Byte(b[m].pkt + 1, 1)
      BY <2>1 DEF Stream
    <3>2. ~(m < m)
      BY <1>1
    <3>3. QED
      BY <1>6, <3>1, <3>2
  <2>4. d[1] = Byte(k + 1, 1)
    BY <1>4, <2>1, <2>3
  <2>5. d[1].pkt = k + 1 /\ d[1].at = 1
    BY <2>4 DEF Byte
  <2>6. d[Len(d)] = b[Len(b)]
    <3>1. PICK L : L = Len(b) /\ Len(d) = L - m /\ L \in Nat /\ m \in Nat /\ m < L
      BY <1>1, <1>2, <1>4, <1>10
    <3>2. L - m \in 1..(L - m) /\ m + (L - m) = L
      BY ONLY <3>1
    <3>3. QED
      BY <1>4, <3>1, <3>2
  <2>7. Stream(d, packets)
    BY <1>4, <1>7, <1>8, <2>5, <2>6 DEF Stream
  <2>8. NextPkt(d, packets) = k + 1
    BY <2>2, <2>5 DEF NextPkt
  <2>9. QED
    BY <2>7, <2>8
<1>11. Stream(d, packets) /\ NextPkt(d, packets) = k + 1
  BY <1>1, <1>2, <1>9, <1>10
<1>12. SubSeq(b, 3, m) = Body(k, packets[k].size)
  <2> DEFINE f == SubSeq(b, 3, m)
             g == Body(k, packets[k].size)
  <2>1. packets[k].size = m - 2
    <3>1. packets[k].size \in Nat
      BY <1>1, ElementOfSeq
    <3>2. QED
      BY <3>1
  <2>2. \A i \in 3..m : b[i] \in Bytes
    BY <1>1, <1>2
  <2>3. /\ f \in Seq(Bytes) /\ Len(f) = (IF 3 <= m THEN m - 3 + 1 ELSE 0)
        /\ \A i \in 1..(m - 3 + 1) : f[i] = b[3 + i - 1]
    BY <1>1, <2>2, SubSeqProperties
  <2>4. Len(f) = m - 2 /\ m - 3 + 1 = m - 2
    BY <1>1, <2>3
  <2>5. ASSUME NEW i \in 1..(m - 2) PROVE f[i] = Byte(k, i + 2)
    <3>1. 3 + i - 1 = i + 2 /\ i + 2 \in 1..m /\ i + 2 <= Len(b)
      BY <1>1, <1>2
    <3>2. f[i] = b[3 + i - 1]
      BY <2>3, <2>4
    <3>3. b[i + 2] = Byte(k, i + 2)
      BY <1>1, <3>1
    <3>4. QED
      BY <3>1, <3>2, <3>3
  <2> HIDE DEF f
  <2>6. f = [i \in 1..(m - 2) |-> f[i]]
    BY <2>3, <2>4, LenProperties
  <2>7. f = [i \in 1..(m - 2) |-> Byte(k, i + 2)]
    BY <2>5, <2>6
  <2>8. QED
    BY <2>1, <2>7 DEF f, Body
<1>13. m \in 2..Len(b)
  BY <1>1, <1>2
<1>14. QED
  BY <1>1, <1>11, <1>12, <1>13 DEF d

\* A packet that is sent is the end of the stream; it goes on with the same
\* packet as before.
LEMMA StreamGrows ==
    ASSUME NEW P, NEW packets \in Seq(P), \A p \in P : p.size \in Nat,
           NEW b, Stream(b, packets), NEW p \in P
    PROVE  /\ Stream(b \o Packet(Len(packets) + 1, p.size), Append(packets, p))
           /\ NextPkt(b \o Packet(Len(packets) + 1, p.size), Append(packets, p))
                 = NextPkt(b, packets)
<1> DEFINE n == Len(packets) + 1
           z == p.size
           k == Packet(n, z)
           c == b \o k
           q == Append(packets, p)
<1>1. Len(packets) \in Nat /\ n \in Nat /\ n >= 1 /\ z \in Nat
  BY Elements
<1>2. b \in Seq(Bytes) /\ Len(b) \in Nat /\ \A i \in 1..Len(b) : b[i] \in Bytes
  BY Elements DEF Stream
<1>3. /\ k \in Seq(Bytes) /\ Len(k) = z + 2
      /\ \A i \in 1..(z + 2) : k[i] = Byte(n, i)
  <2>1. \A i \in 1..(z + 2) : Byte(n, i) \in Bytes
    BY <1>1 DEF Byte, Bytes
  <2>2. k \in [1..(z + 2) -> Bytes]
    BY <2>1 DEF Packet
  <2>3. z + 2 \in Nat
    BY <1>1
  <2>4. k \in Seq(Bytes)
    BY <2>2, <2>3, SeqDef
  <2>5. Len(k) \in Nat /\ DOMAIN k = 1..Len(k)
    BY <2>4, LenProperties
  <2>6. Len(k) = z + 2
    BY <2>2, <2>3, <2>5
  <2>7. QED
    BY <2>4, <2>6 DEF Packet
<1>4. /\ q \in Seq(P) /\ Len(q) = n /\ q[n] = p
      /\ \A i \in 1..Len(packets) : q[i] = packets[i]
  BY AppendProperties
<1>5. q[n].size = z
  BY <1>4
<1> HIDE DEF k, q, n, z
<1>6. /\ c \in Seq(Bytes) /\ Len(c) = Len(b) + (z + 2)
      /\ \A i \in 1..(Len(b) + (z + 2)) : c[i] = IF i <= Len(b) THEN b[i] ELSE k[i - Len(b)]
  <2>1. /\ c \in Seq(Bytes) /\ Len(c) = Len(b) + Len(k)
        /\ \A i \in 1..(Len(b) + Len(k)) : c[i] = IF i <= Len(b) THEN b[i] ELSE k[i - Len(b)]
    BY <1>2, <1>3, ConcatProperties
  <2>2. QED
    BY <1>3, <2>1
<1> HIDE DEF c
<1>7. \A i \in 1..Len(b) : /\ i \in 1..Len(c) /\ c[i] = b[i] /\ c[i].pkt \in 1..Len(packets)
                           /\ c[i].pkt \in 1..n
                           /\ c[i].at \in 1..(packets[c[i].pkt].size + 2)
                           /\ q[c[i].pkt] = packets[c[i].pkt]
  <2> TAKE i \in 1..Len(b)
  <2>1. i \in 1..Len(c) /\ c[i] = b[i]
    BY <1>1, <1>2, <1>6
  <2>2. /\ b[i].pkt \in 1..Len(packets)
        /\ b[i].at \in 1..(packets[b[i].pkt].size + 2)
    BY DEF Stream
  <2>3. b[i].pkt \in 1..n
    BY <1>1, <2>2 DEF n
  <2>4. QED
    BY <1>4, <2>1, <2>2, <2>3
<1>8. ASSUME NEW i \in 1..Len(c), i > Len(b)
      PROVE  /\ i - Len(b) \in 1..(z + 2)
             /\ c[i] = Byte(n, i - Len(b))
             /\ c[i].pkt = n /\ c[i].at = i - Len(b)
  <2>1. i - Len(b) \in 1..(z + 2)
    BY <1>1, <1>2, <1>6, <1>8
  <2>2. c[i] = k[i - Len(b)]
    BY <1>1, <1>2, <1>6, <1>8
  <2>3. c[i] = Byte(n, i - Len(b))
    BY <1>3, <2>1, <2>2
  <2>4. QED
    BY <2>1, <2>3 DEF Byte
<1>9. ASSUME NEW i \in 1..Len(c)
      PROVE  c[i].pkt \in 1..Len(q) /\ c[i].at \in 1..(q[c[i].pkt].size + 2)
  <2>1. CASE i <= Len(b)
    <3>1. i \in 1..Len(b)
      BY <1>2, <2>1
    <3>2. QED
      BY <1>4, <1>7, <3>1
  <2>2. CASE i > Len(b)
    <3>1. n \in 1..n
      BY <1>1
    <3>2. QED
      BY <1>4, <1>5, <1>8, <2>2, <3>1
  <2>3. i <= Len(b) \/ i > Len(b)
    BY <1>2, <1>6
  <2>4. QED
    BY <2>1, <2>2, <2>3
<1>10. b # <<>> => Len(b) >= 1 /\ b[Len(b)] = Byte(n - 1, packets[n - 1].size + 2)
  <2> SUFFICES ASSUME b # <<>>
               PROVE  Len(b) >= 1 /\ b[Len(b)] = Byte(n - 1, packets[n - 1].size + 2)
    OBVIOUS
  <2>1. b[Len(b)] = Byte(Len(packets), packets[Len(packets)].size + 2)
    BY DEF Stream
  <2>2. n - 1 = Len(packets)
    BY <1>1 DEF n
  <2>3. Len(b) >= 1
    BY <1>2, Elements
  <2>4. QED
    BY <2>1, <2>2, <2>3
<1>11. ASSUME NEW i \in 1..(Len(c) - 1)
       PROVE  c[i + 1] = IF c[i].at < q[c[i].pkt].size + 2
                         THEN Byte(c[i].pkt, c[i].at + 1) ELSE Byte(c[i].pkt + 1, 1)
  <2>1. i \in 1..Len(c) /\ i + 1 \in 1..Len(c) /\ i \in Nat
    BY <1>1, <1>2, <1>6
  <2>2. CASE i < Len(b)
    <3>1. i \in 1..Len(b) /\ i + 1 \in 1..Len(b) /\ i \in 1..(Len(b) - 1)
      BY <1>2, <2>1, <2>2
    <3>2. b[i + 1] = IF b[i].at < packets[b[i].pkt].size + 2
                     THEN Byte(b[i].pkt, b[i].at + 1) ELSE Byte(b[i].pkt + 1, 1)
      BY <3>1 DEF Stream
    <3>3. c[i] = b[i] /\ c[i + 1] = b[i + 1] /\ q[c[i].pkt] = packets[c[i].pkt]
      BY <1>7, <3>1
    <3>4. QED
      BY <3>2, <3>3
  <2>3. CASE i = Len(b)
    <3>1. i \in 1..Len(b) /\ b # <<>>
      BY <1>2, <2>1, <2>3, EmptySeq
    <3>2. c[i] = Byte(n - 1, packets[n - 1].size + 2) /\ q[c[i].pkt] = packets[c[i].pkt]
      BY <1>7, <1>10, <2>3, <3>1
    <3>3. c[i].pkt = n - 1 /\ c[i].at = packets[n - 1].size + 2
      BY <3>2 DEF Byte
    <3>4. packets[n - 1].size \in Nat
      <4>1. n - 1 \in 1..Len(packets)
        BY <1>7, <3>1, <3>3
      <4>2. QED
        BY <4>1, ElementOfSeq
    <3>5. ~(c[i].at < q[c[i].pkt].size + 2)
      BY <3>2, <3>3, <3>4
    <3>6. c[i + 1] = Byte(n, 1)
      <4>1. i + 1 > Len(b) /\ (i + 1) - Len(b) = 1
        BY <1>2, <2>3
      <4>2. QED
        BY <1>8, <2>1, <4>1
    <3>7. n = (n - 1) + 1
      BY <1>1
    <3>8. QED
      BY <3>3, <3>5, <3>6, <3>7
  <2>4. CASE i > Len(b)
    <3>1. c[i].pkt = n /\ c[i].at = i - Len(b)
      BY <1>8, <2>1, <2>4
    <3>2. i + 1 > Len(b) /\ (i + 1) - Len(b) = (i - Len(b)) + 1
      BY <1>2, <2>1, <2>4
    <3>3. c[i + 1] = Byte(n, (i - Len(b)) + 1)
      BY <1>8, <2>1, <3>2
    <3>4. i - Len(b) < z + 2
      BY <1>1, <1>2, <1>6, <2>1
    <3>5. QED
      BY <1>5, <3>1, <3>3, <3>4
  <2>5. i < Len(b) \/ i = Len(b) \/ i > Len(b)
    BY <1>2, <2>1
  <2>6. QED
    BY <2>2, <2>3, <2>4, <2>5
<1>12. 1 \in 1..Len(c) /\ Len(c) \in 1..Len(c) /\ Len(c) > Len(b) /\ Len(c) - Len(b) = z + 2
  BY <1>1, <1>2, <1>6
<1>13. c[Len(c)] = Byte(Len(q), q[Len(q)].size + 2)
  BY <1>4, <1>5, <1>8, <1>12
<1>14. c # <<>>
  BY <1>12, EmptySeq
<1>15. CASE b = <<>>
  <2>1. Len(b) = 0
    BY <1>15, EmptySeq
  <2>2. 1 > Len(b) /\ 1 - Len(b) = 1
    BY <2>1
  <2>3. c[1].at = 1 /\ c[1].pkt = n
    BY <1>8, <1>12, <2>2
  <2>4. QED
    BY <1>6, <1>9, <1>11, <1>13, <1>14, <1>15, <2>3 DEF Stream, NextPkt, c, n, q, k, z
<1>16. CASE b # <<>>
  <2>1. 1 \in 1..Len(b)
    BY <1>2, <1>10, <1>16
  <2>2. c[1] = b[1]
    BY <1>7, <2>1
  <2>3. b[1].at = 1
    BY <1>16 DEF Stream
  <2>4. QED
    BY <1>6, <1>9, <1>11, <1>13, <1>14, <1>16, <2>2, <2>3 DEF Stream, NextPkt, c, n, q, k, z
<1>17. QED
  BY <1>15, <1>16


-----------------------------------------------------------------------------
(* The completion port *)

\* An entry that is queued is on its handle and on no other.
LEMMA AppendOn ==
    ASSUME NEW s \in Seq(Entries), NEW x \in Entries, NEW key
    PROVE  /\ Append(s, x) \in Seq(Entries)
           /\ Append(s, x)[Len(s) + 1] = x
           /\ \A i \in 1..Len(s) : Append(s, x)[i] = s[i]
           /\ DOMAIN Append(s, x) = 1..(Len(s) + 1)
           /\ x.key # key => On(key, Append(s, x)) = On(key, s)
           /\ x.key = key /\ On(key, s) = {} => On(key, Append(s, x)) = {Len(s) + 1}
<1>1. Len(s) \in Nat
  BY Elements
<1> DEFINE t == Append(s, x)
<1>2. /\ t \in Seq(Entries) /\ Len(t) = Len(s) + 1 /\ t[Len(s) + 1] = x
      /\ \A i \in 1..Len(s) : t[i] = s[i]
  BY AppendProperties
<1>3. DOMAIN t = 1..(Len(s) + 1)
  BY <1>2, Elements
<1> HIDE DEF t
<1>4. 1..(Len(s) + 1) = (1..Len(s)) \cup {Len(s) + 1}
  BY <1>1
<1>5. \A i : i \in On(key, t) <=> (i \in On(key, s) \/ (i = Len(s) + 1 /\ x.key = key))
  BY <1>2, <1>4 DEF On
<1>6. /\ x.key # key => On(key, t) = On(key, s)
      /\ x.key = key /\ On(key, s) = {} => On(key, t) = {Len(s) + 1}
  BY <1>5
<1>7. QED
  BY <1>2, <1>3, <1>6 DEF t

\* t are the entries of s behind the first one.
Behind(key, s, t) ==
    /\ \A i \in On(key, t) : i + 1 \in On(key, s) /\ t[i] = s[i + 1]
    /\ \A i \in On(key, s) : i # 1 => i - 1 \in On(key, t)
    /\ 1 \in On(key, s) <=> Head(s).key = key

\* Taking the first entry of the completion port leaves the others, each one place
\* further to the front.
LEMMA TailOn ==
    ASSUME NEW s \in Seq(Entries), s # <<>>, NEW key
    PROVE  /\ Tail(s) \in Seq(Entries) /\ Len(Tail(s)) = Len(s) - 1
           /\ Head(s) = s[1] /\ Head(s) \in Entries
           /\ Behind(key, s, Tail(s))
<1>1. Len(s) \in Nat /\ Len(s) >= 1 /\ s[1] \in Entries /\ Head(s) = s[1]
  BY Elements
<1> DEFINE t == Tail(s)
<1>2. /\ t \in Seq(Entries) /\ Len(t) = Len(s) - 1
      /\ \A i \in 1..Len(t) : t[i] = s[i + 1]
  BY HeadTailProperties
<1> HIDE DEF t
<1>3. \A i \in On(key, t) : i + 1 \in On(key, s) /\ t[i] = s[i + 1]
  BY <1>1, <1>2 DEF On
<1>4. \A i \in On(key, s) : i # 1 => i - 1 \in On(key, t)
  <2> SUFFICES ASSUME NEW i \in On(key, s), i # 1 PROVE i - 1 \in On(key, t)
    OBVIOUS
  <2>1. i \in 1..Len(s) /\ s[i].key = key
    BY DEF On
  <2>2. i - 1 \in 1..Len(t) /\ (i - 1) + 1 = i
    BY <1>1, <1>2, <2>1
  <2>3. t[i - 1] = s[i]
    BY <1>2, <2>2
  <2>4. QED
    BY <2>1, <2>2, <2>3 DEF On
<1>5. 1 \in On(key, s) <=> s[1].key = key
  BY <1>1 DEF On
<1>6. QED
  BY <1>1, <1>2, <1>3, <1>4, <1>5 DEF t, Behind

\* When one entry at most is on a handle, taking the first entry takes it or
\* leaves it.
LEMMA TailOne ==
    ASSUME NEW s \in Seq(Entries), s # <<>>, NEW key, \A i, j \in On(key, s) : i = j
    PROVE  /\ \A i, j \in On(key, Tail(s)) : i = j
           /\ Head(s).key = key => On(key, Tail(s)) = {}
           /\ Head(s).key # key => (On(key, Tail(s)) = {} <=> On(key, s) = {})
<1>1. /\ \A i \in On(key, Tail(s)) : i + 1 \in On(key, s)
      /\ \A i \in On(key, s) : i # 1 => i - 1 \in On(key, Tail(s))
      /\ 1 \in On(key, s) <=> Head(s).key = key
  BY TailOn DEF Behind
<1>2. On(key, s) \subseteq Nat /\ On(key, Tail(s)) \subseteq Nat \ {0}
  BY DEF On
<1>3. \A i, j \in On(key, Tail(s)) : i = j
  BY <1>1, <1>2
<1>4. Head(s).key = key => On(key, Tail(s)) = {}
  BY <1>1, <1>2
<1>5. Head(s).key # key => (On(key, Tail(s)) = {} <=> On(key, s) = {})
  BY <1>1
<1>6. QED
  BY <1>3, <1>4, <1>5

\* s is split after r entries into f and g.
Split(key, s, r, f, g) ==
    /\ \A i \in On(key, f) : i \in On(key, s) /\ f[i] = s[i] /\ i <= r
    /\ \A i \in On(key, g) : i + r \in On(key, s) /\ g[i] = s[i + r] /\ i > 0
    /\ \A i \in On(key, s) : i \in On(key, f) \/ i - r \in On(key, g)
    /\ (On(key, f) = {} /\ On(key, g) = {}) <=> On(key, s) = {}
    /\ (\A i, j \in On(key, s) : i = j) =>
          /\ \A i, j \in On(key, f) : i = j
          /\ \A i, j \in On(key, g) : i = j
          /\ On(key, f) = {} \/ On(key, g) = {}

\* The entries a thread takes from the port, and those it leaves there: none is
\* lost and none is there twice.
LEMMA SplitOn ==
    ASSUME NEW s \in Seq(Entries), NEW r \in 0..Len(s), NEW key, NEW f, NEW g,
           f = SubSeq(s, 1, r), g = SubSeq(s, r + 1, Len(s))
    PROVE  /\ f \in Seq(Entries) /\ Len(f) = r /\ g \in Seq(Entries)
           /\ Split(key, s, r, f, g)
<1>1. Len(s) \in Nat /\ r \in Nat
  BY Elements
<1>2. /\ f \in Seq(Entries) /\ Len(f) = r
      /\ \A i \in 1..r : f[i] = s[i]
  BY Taken
<1>3. /\ g \in Seq(Entries) /\ Len(g) = Len(s) - r
      /\ \A i \in 1..(Len(s) - r) : g[i] = s[r + i]
  BY Dropped
<1>4. \A i \in On(key, f) : i \in On(key, s) /\ f[i] = s[i] /\ i <= r
  BY <1>1, <1>2 DEF On
<1>5. ASSUME NEW i \in On(key, g)
      PROVE  i + r \in On(key, s) /\ g[i] = s[i + r] /\ i > 0
  <2>1. i \in 1..(Len(s) - r) /\ g[i].key = key
    BY <1>3 DEF On
  <2>2. i + r \in 1..Len(s) /\ i + r = r + i /\ i > 0
    BY <1>1, <2>1
  <2>3. g[i] = s[i + r]
    BY <1>3, <2>1, <2>2
  <2>4. QED
    BY <2>1, <2>2, <2>3 DEF On
<1>6. ASSUME NEW i \in On(key, s)
      PROVE  i \in On(key, f) \/ i - r \in On(key, g)
  <2>1. i \in 1..Len(s) /\ s[i].key = key
    BY DEF On
  <2>2. CASE i <= r
    <3>1. i \in 1..r
      BY <1>1, <2>1, <2>2
    <3>2. QED
      BY <1>2, <2>1, <3>1 DEF On
  <2>3. CASE i > r
    <3>1. i - r \in 1..(Len(s) - r) /\ r + (i - r) = i
      BY <1>1, <2>1, <2>3
    <3>2. g[i - r] = s[i]
      BY <1>3, <3>1
    <3>3. QED
      BY <1>3, <2>1, <3>1, <3>2 DEF On
  <2>4. i <= r \/ i > r
    BY <1>1, <2>1
  <2>5. QED
    BY <2>2, <2>3, <2>4
<1>7. (On(key, f) = {} /\ On(key, g) = {}) <=> On(key, s) = {}
  BY <1>4, <1>5, <1>6
<1>8. ASSUME \A i, j \in On(key, s) : i = j
      PROVE  /\ \A i, j \in On(key, f) : i = j
             /\ \A i, j \in On(key, g) : i = j
             /\ On(key, f) = {} \/ On(key, g) = {}
  <2>1. On(key, f) \subseteq Nat /\ On(key, g) \subseteq Nat
    BY DEF On
  <2>2. \A i, j \in On(key, f) : i = j
    BY <1>4, <1>8
  <2>3. ASSUME NEW i \in On(key, g), NEW j \in On(key, g)
        PROVE  i = j
    <3>1. i + r = j + r
      BY <1>5, <1>8
    <3>2. QED
      BY <1>1, <2>1, <3>1
  <2>4. ASSUME NEW i \in On(key, f), NEW j \in On(key, g)
        PROVE  FALSE
    <3>1. i = j + r /\ i <= r /\ j > 0
      BY <1>4, <1>5, <1>8
    <3>2. QED
      BY <1>1, <2>1, <3>1
  <2>5. QED
    BY <2>2, <2>3, <2>4
<1>9. QED
  BY <1>2, <1>3, <1>4, <1>5, <1>6, <1>7, <1>8 DEF Split

-----------------------------------------------------------------------------
(* Each step keeps the types *)

\* An entry of the port that the invariant speaks of is an entry.
LEMMA HeadOf ==
    ASSUME Types, entries # <<>>
    PROVE  /\ Head(entries) = entries[1] /\ Head(entries) \in Entries
           /\ Head(entries).size \in Nat
           /\ Tail(entries) \in Seq(Entries) /\ Len(Tail(entries)) <= ENTRIES
<1>1. entries \in Seq(Entries) /\ Len(entries) <= ENTRIES
  BY DEF Types
<1>2. /\ Head(entries) = entries[1] /\ Head(entries) \in Entries
      /\ Tail(entries) \in Seq(Entries) /\ Len(Tail(entries)) = Len(entries) - 1
  BY <1>1, TailOn
<1>3. ENTRIES \in Nat /\ Len(entries) \in Nat
  BY <1>1, WinPipeAssumption, Elements
<1>4. Len(Tail(entries)) <= ENTRIES
  BY <1>1, <1>2, <1>3
<1>5. Head(entries).size \in Nat
  BY <1>2 DEF Entries
<1>6. QED
  BY <1>2, <1>4, <1>5

\* A frame whose bytes are all there has a size, and leaves bytes behind it.
LEMMA FrameTyped ==
    ASSUME NEW P, NEW packets \in Seq(P), \A p \in P : p.size \in Nat,
           NEW a \in Seq(Bytes), NEW t \in Seq(Bytes), Stream(a \o t, packets),
           Enough(a, packets)
    PROVE  /\ FrameIn(a, packets) \in Seq(Bytes)
           /\ Len(FrameIn(a, packets)) \in Nat
           /\ Rest(a, packets) \in Seq(Bytes)
           /\ FrameIn(a, packets)
                = Body(NextPkt(a \o t, packets), packets[NextPkt(a \o t, packets)].size)
           /\ NextPkt(a \o t, packets) \in 1..Len(packets)
           /\ Stream(Rest(a, packets) \o t, packets)
           /\ NextPkt(Rest(a, packets) \o t, packets) = NextPkt(a \o t, packets) + 1
<1> DEFINE b == a \o t
           m == packets[b[1].pkt].size + 2
<1>1. /\ Len(a) \in Nat /\ Len(a) >= 2 /\ Len(t) \in Nat
  BY Elements DEF Enough
<1>2. b \in Seq(Bytes) /\ Len(b) = Len(a) + Len(t) /\ b[1] = a[1]
  <2>1. /\ b \in Seq(Bytes) /\ Len(b) = Len(a) + Len(t)
        /\ \A i \in 1..(Len(a) + Len(t)) : b[i] = IF i <= Len(a) THEN a[i] ELSE t[i - Len(a)]
    BY ConcatProperties
  <2>2. 1 \in 1..(Len(a) + Len(t)) /\ 1 <= Len(a)
    BY <1>1
  <2>3. QED
    BY <2>1, <2>2
<1>3. b # <<>>
  BY <1>1, <1>2, EmptySeq
<1> HIDE DEF b
<1>4. m \in Nat /\ m >= 2 /\ b[1].pkt \in 1..Len(packets)
  BY <1>3, HeadBytes DEF b
<1>5. m = SizeIn(a, packets) + 2 /\ SizeIn(a, packets) \in Nat
  <2>1. packets[b[1].pkt].size \in Nat
    BY <1>4, ElementOfSeq
  <2>2. QED
    BY <1>2, <2>1 DEF SizeIn
<1>6. m <= Len(a) /\ m \in 0..Len(a) /\ SizeIn(a, packets) + 3 = m + 1
  BY <1>1, <1>5 DEF Enough
<1>7. /\ SubSeq(a, m + 1, Len(a)) \o t = SubSeq(b, m + 1, Len(b))
      /\ m <= Len(b)
      /\ \A i \in 1..m : a[i] = b[i]
  BY <1>6, DroppedFirst DEF b
<1> HIDE DEF m
<1>8. /\ Stream(SubSeq(b, m + 1, Len(b)), packets)
      /\ NextPkt(SubSeq(b, m + 1, Len(b)), packets) = b[1].pkt + 1
      /\ SubSeq(b, 3, m) = Body(b[1].pkt, packets[b[1].pkt].size)
  BY <1>3, <1>7, StreamDrops DEF b, m
<1>9. SubSeq(a, 3, m) = SubSeq(b, 3, m)
  <2>1. \A i \in 3..m : a[i] \in Bytes /\ b[i] \in Bytes /\ a[i] = b[i]
    BY <1>1, <1>4, <1>6, <1>7, ElementOfSeq
  <2>2. /\ SubSeq(a, 3, m) \in Seq(Bytes)
        /\ Len(SubSeq(a, 3, m)) = IF 3 <= m THEN m - 3 + 1 ELSE 0
        /\ \A i \in 1..(m - 3 + 1) : SubSeq(a, 3, m)[i] = a[3 + i - 1]
    BY <1>4, <2>1, SubSeqProperties
  <2>3. /\ SubSeq(b, 3, m) \in Seq(Bytes)
        /\ Len(SubSeq(b, 3, m)) = IF 3 <= m THEN m - 3 + 1 ELSE 0
        /\ \A i \in 1..(m - 3 + 1) : SubSeq(b, 3, m)[i] = b[3 + i - 1]
    BY <1>4, <2>1, SubSeqProperties
  <2>4. ASSUME NEW i \in 1..Len(SubSeq(a, 3, m))
        PROVE  SubSeq(a, 3, m)[i] = SubSeq(b, 3, m)[i]
    <3>1. i \in 1..(m - 3 + 1) /\ 3 + i - 1 \in 3..m
      BY <1>4, <2>2
    <3>2. QED
      BY <2>1, <2>2, <2>3, <3>1
  <2>5. QED
    BY <2>2, <2>3, <2>4, SeqEqual
<1>10. FrameIn(a, packets) = SubSeq(b, 3, m) /\ FrameIn(a, packets) \in Seq(Bytes)
  <2>1. FrameIn(a, packets) = SubSeq(a, 3, m)
    BY <1>5 DEF FrameIn
  <2>2. \A i \in 3..m : a[i] \in Bytes
    BY <1>1, <1>4, <1>6, ElementOfSeq
  <2>3. SubSeq(a, 3, m) \in Seq(Bytes)
    BY <1>4, <2>2, SubSeqProperties
  <2>4. QED
    BY <1>9, <2>1, <2>3
<1>11. Rest(a, packets) = SubSeq(a, m + 1, Len(a)) /\ Rest(a, packets) \in Seq(Bytes)
  BY <1>6, Dropped DEF Rest
<1>12. NextPkt(b, packets) = b[1].pkt
  BY <1>3 DEF NextPkt
<1>13. Len(FrameIn(a, packets)) \in Nat
  BY <1>10, Elements
<1>14. Rest(a, packets) \o t = SubSeq(b, m + 1, Len(b))
  BY <1>7, <1>11
<1>15. QED
  BY <1>4, <1>8, <1>10, <1>11, <1>12, <1>13, <1>14 DEF b


\* The packets of both directions have sizes, and the bytes under way are bytes.
LEMMA Sized ==
    ASSUME Types
    PROVE  /\ \A p \in NetPackets : p.size \in Nat
           /\ \A p \in SentPackets : p.size \in Nat
           /\ Unhandled \in Seq(Bytes) /\ Unhandled \o to_thread \in Seq(Bytes)
           /\ ToDevice \in Seq(Bytes) /\ ToMain \in Seq(Bytes)
<1>1. Unhandled \in Seq(Bytes)
  BY DEF Types, Unhandled
<1>2. Unhandled \o to_thread \in Seq(Bytes)
  BY <1>1, ConcatProperties DEF Types
<1>3. ToDevice \in Seq(Bytes) /\ ToMain \in Seq(Bytes)
  BY <1>2, ConcatProperties DEF Types, ToDevice, ToMain
<1>4. (\A p \in NetPackets : p.size \in Nat) /\ (\A p \in SentPackets : p.size \in Nat)
  BY DEF NetPackets, SentPackets
<1>5. QED
  BY <1>1, <1>2, <1>3, <1>4

\* A packet consists of bytes.
LEMMA PacketBytes ==
    ASSUME NEW k \in Nat \ {0}, NEW size \in Nat
    PROVE  Packet(k, size) \in Seq(Bytes)
<1>1. size + 2 \in Nat /\ \A at \in 1..(size + 2) : Byte(k, at) \in Bytes
  BY DEF Byte, Bytes
<1>2. Packet(k, size) \in [1..(size + 2) -> Bytes]
  BY <1>1 DEF Packet
<1>3. QED
  BY <1>1, <1>2, SeqDef

\* Every step leaves the state of both threads well formed.
LEMMA TypesKept ==
    ASSUME WinInv, Next
    PROVE  Types'
<1> USE WinPipeAssumption
<1>1. (\A size \in Sizes : size \in Nat) /\ MaxErrors \in Nat
  OBVIOUS
<1>2. Types /\ Stream(ToDevice, net) /\ Stream(ToMain, sent)
  BY DEF WinInv, WrittenInv, OutInv
<1>3. errors \in 0..MaxErrors
  BY <1>2 DEF Types
<1>4. /\ \A p \in NetPackets : p.size \in Nat
      /\ \A p \in SentPackets : p.size \in Nat
      /\ Unhandled \o to_thread \in Seq(Bytes)
  BY <1>2, Sized
<1>5. ASSUME NEW size \in Sizes, frame_from_tap(size)
      PROVE  Types'
  <2>1. ndevice + 1 \in Nat /\ Frame(ndevice + 1, size) \in Frames
    <3>1. ndevice + 1 \in Nat /\ size \in Nat
      BY <1>2, <1>1 DEF Types
    <3>2. QED
      BY <3>1 DEF Frame, Frames
  <2>2. Append(tap, Frame(ndevice + 1, size)) \in Seq(Frames)
    BY <1>2, <2>1, AppendProperties DEF Types
  <2>3. QED
    BY <1>2, <1>5, <2>1, <2>2 DEF Types, frame_from_tap, thread, mainvars
<1>6. ASSUME NEW size \in Sizes, frame_from_net(size)
      PROVE  Types'
  <2>1. Len(net) \in Nat
    BY <1>2, Elements DEF Types
  <2>2. size \in Nat /\ [size |-> size] \in NetPackets /\ Len(net) + 1 \in Nat \ {0}
    BY <2>1 DEF NetPackets
  <2>3. Append(net, [size |-> size]) \in Seq(NetPackets)
    BY <1>2, <2>2, AppendProperties DEF Types
  <2>4. to_thread \o Packet(Len(net) + 1, size) \in Seq(Bytes)
    BY <1>2, <2>2, PacketBytes, ConcatProperties DEF Types
  <2>5. QED
    BY <1>2, <1>6, <2>3, <2>4 DEF Types, frame_from_net, thread, mainvars
<1>7. CASE device_read_completes
  <2>1. Head(tap) \in Frames /\ Tail(tap) \in Seq(Frames)
    BY <1>2, <1>7, HeadTailProperties DEF Types, device_read_completes
  <2>2. [key |-> "device", size |-> Head(tap).size, read |-> TRUE] \in Entries
    BY <2>1 DEF Frames, Entries
  <2>3. queue' \in Seq(Entries)
    BY <1>2, <1>7, <2>2, AppendProperties DEF Types, device_read_completes
  <2>4. reads - 1 \in Nat
    BY <1>2, <1>7 DEF Types, device_read_completes
  <2>5. QED
    BY <1>2, <1>7, <2>1, <2>3, <2>4 DEF Types, device_read_completes, mainvars
<1>8. CASE device_write_completes
  <2>1. Head(writes) \in Nat /\ Tail(writes) \in Seq(Nat)
    BY <1>2, <1>8, HeadTailProperties DEF Types, device_write_completes
  <2>2. [key |-> "device", size |-> Head(writes), read |-> FALSE] \in Entries
    BY <2>1 DEF Entries
  <2>3. queue' \in Seq(Entries)
    BY <1>2, <1>8, <2>2, AppendProperties DEF Types, device_write_completes
  <2>4. QED
    BY <1>2, <1>8, <2>1, <2>3 DEF Types, device_write_completes, mainvars
<1>9. ASSUME NEW n \in 1..PIPE_BUF, pipe_read_completes(n)
      PROVE  Types'
  <2>1. Len(to_thread) \in Nat
    BY <1>2, Elements DEF Types
  <2>2. n \in 0..Len(to_thread) /\ n \in Nat
    BY <1>9, <2>1 DEF pipe_read_completes
  <2>3. /\ SubSeq(to_thread, 1, n) \in Seq(Bytes) /\ Len(SubSeq(to_thread, 1, n)) = n
        /\ SubSeq(to_thread, n + 1, Len(to_thread)) \in Seq(Bytes)
    BY <1>2, <2>2, Taken, Dropped DEF Types
  <2>4. [key |-> "pipe", size |-> n, read |-> TRUE] \in Entries
    BY <2>2 DEF Entries
  <2>5. queue' \in Seq(Entries)
    BY <1>2, <1>9, <2>4, AppendProperties DEF Types, pipe_read_completes
  <2>6. QED
    BY <1>2, <1>9, <2>3, <2>5 DEF Types, pipe_read_completes, mainvars
<1>10. ASSUME NEW devOk \in BOOLEAN, NEW pipeOk \in BOOLEAN, start_reads(devOk, pipeOk)
      PROVE  Types'
  <2>1. errors \in Nat /\ reads \in Nat
    BY <1>2, <1>1 DEF Types
  <2>2. reads' \in Nat
    BY <1>10, <2>1 DEF start_reads, StartReads
  <2>3. PICK bad \in 0..2 : errors + bad <= MaxErrors /\ errors' = errors + bad
    <3> DEFINE x == IF need_dev /\ ~devOk THEN 1 ELSE 0
               y == IF need_pipe /\ ~pipeOk THEN 1 ELSE 0
    <3>1. errors + (x + y) <= MaxErrors /\ errors' = errors + (x + y)
      BY <1>10 DEF start_reads, StartReads
    <3>2. x + y \in 0..2
      OBVIOUS
    <3>3. QED
      BY <3>1, <3>2
  <2>4. errors' \in 0..MaxErrors /\ reads' \in Nat
    BY <1>1, <2>1, <2>2, <2>3
  <2>5. pipe_read_on' \in BOOLEAN
    BY <1>2, <1>10 DEF Types, start_reads, StartReads
  <2>6. QED
    BY <1>2, <1>10, <2>4, <2>5 DEF Types, start_reads, StartReads, mainvars
<1>11. CASE dequeue
  <2>1. Len(queue) \in Nat
    BY <1>2, Elements DEF Types
  <2>2. Ready \in 0..Len(queue) /\ Ready <= ENTRIES
    BY <2>1 DEF Ready
  <2>3. /\ SubSeq(queue, 1, Ready) \in Seq(Entries) /\ Len(SubSeq(queue, 1, Ready)) = Ready
        /\ SubSeq(queue, Ready + 1, Len(queue)) \in Seq(Entries)
    BY <1>2, <2>2, Taken, Dropped DEF Types
  <2>4. QED
    BY <1>2, <1>11, <2>2, <2>3 DEF Types, dequeue, mainvars
<1>12. CASE device_entry
  <2>1. Head(entries).size \in Nat /\ Tail(entries) \in Seq(Entries) /\ Len(Tail(entries)) <= ENTRIES
    BY <1>2, <1>12, HeadOf DEF device_entry, DeviceEntry
  <2>2. Len(sent) \in Nat
    BY <1>2, Elements DEF Types
  <2>3. Len(sent) + 1 \in Nat \ {0}
    BY <2>2
  <2>4. [size |-> Head(entries).size, frame |-> device_buf] \in SentPackets
    BY <1>2, <2>1 DEF Types, SentPackets
  <2>5. sent' \in Seq(SentPackets)
    BY <1>2, <1>12, <2>4, AppendProperties DEF Types, device_entry, DeviceEntry, handle_frames
  <2>6. to_main \o Packet(Len(sent) + 1, Head(entries).size) \in Seq(Bytes)
    BY <1>2, <2>1, <2>3, PacketBytes, ConcatProperties DEF Types
  <2>7. to_main' \in Seq(Bytes)
    BY <1>12, <2>6 DEF device_entry, DeviceEntry, handle_frames
  <2>8. QED
    BY <1>2, <1>12, <2>1, <2>5, <2>7 DEF Types, device_entry, DeviceEntry, mainvars
<1>13. CASE pipe_entry
  <2>1. evb_pipe \o pipe_buf \in Seq(Bytes)
    BY <1>2, ConcatProperties DEF Types
  <2>2. QED
    BY <1>2, <1>13, <2>1 DEF Types, pipe_entry, mainvars
<1>14. ASSUME NEW ok \in BOOLEAN, pipe_read(ok)
       PROVE  Types'
  <2>1. Stream(evb_pipe \o (Unhandled \o to_thread), net)
    BY <1>2 DEF ToDevice
  <2>2. Enough(evb_pipe, net) /\ evb_pipe \in Seq(Bytes) /\ net \in Seq(NetPackets)
    BY <1>2, <1>14 DEF Types, pipe_read
  <2>3. /\ FrameIn(evb_pipe, net) \in Seq(Bytes) /\ Len(FrameIn(evb_pipe, net)) \in Nat
        /\ Rest(evb_pipe, net) \in Seq(Bytes)
    BY <1>4, <2>1, <2>2, FrameTyped
  <2>4. /\ Append(written, FrameIn(evb_pipe, net)) \in Seq(Seq(Bytes))
        /\ Append(writes, Len(FrameIn(evb_pipe, net))) \in Seq(Nat)
    BY <1>2, <2>3, AppendProperties DEF Types
  <2>5. written' \in Seq(Seq(Bytes)) /\ writes' \in Seq(Nat)
    BY <1>2, <1>14, <2>4 DEF Types, pipe_read
  <2>6. errors' = errors \/ (errors < MaxErrors /\ errors' = errors + 1)
    BY <1>14 DEF pipe_read
  <2>7. errors' \in 0..MaxErrors
    BY <1>1, <1>3, <2>6
  <2>8. QED
    BY <1>2, <1>14, <2>3, <2>5, <2>7 DEF Types, pipe_read, mainvars
<1>15. CASE pipe_read_ends
  <2>1. entries # <<>>
    BY <1>15 DEF pipe_read_ends, PipeReadEnds, WinInv, PipeInv
  <2>2. Tail(entries) \in Seq(Entries) /\ Len(Tail(entries)) <= ENTRIES
    BY <1>2, <2>1, HeadOf
  <2>3. QED
    BY <1>2, <1>15, <2>2 DEF Types, pipe_read_ends, PipeReadEnds, mainvars
<1>16. ASSUME NEW n \in 1..Len(to_main), pipe_read_cb(n)
       PROVE  Types'
  <2>1. Len(to_main) \in Nat
    BY <1>2, Elements DEF Types
  <2>2. n \in 0..Len(to_main)
    BY <2>1
  <2>3. /\ SubSeq(to_main, 1, n) \in Seq(Bytes)
        /\ SubSeq(to_main, n + 1, Len(to_main)) \in Seq(Bytes)
    BY <1>2, <2>2, Taken, Dropped DEF Types
  <2>4. input \o SubSeq(to_main, 1, n) \in Seq(Bytes)
    BY <1>2, <2>3, ConcatProperties DEF Types
  <2>5. QED
    BY <1>2, <1>16, <2>3, <2>4 DEF Types, pipe_read_cb, thread
<1>17. CASE v_frame_push
  <2>1. Stream(input \o to_main, sent)
    BY <1>2 DEF ToMain
  <2>2. Enough(input, sent) /\ input \in Seq(Bytes) /\ to_main \in Seq(Bytes)
        /\ sent \in Seq(SentPackets)
    BY <1>2, <1>17 DEF Types, v_frame_push
  <2>3. FrameIn(input, sent) \in Seq(Bytes) /\ Rest(input, sent) \in Seq(Bytes)
    BY <1>4, <2>1, <2>2, FrameTyped
  <2>4. Append(frames_to_send, FrameIn(input, sent)) \in Seq(Seq(Bytes))
    BY <1>2, <2>3, AppendProperties DEF Types
  <2>5. QED
    BY <1>2, <1>17, <2>3, <2>4 DEF Types, v_frame_push, thread
<1>18. CASE pipe_read_cb_ends
  <2>1. main' \in {"run", "segfault"} /\ woken' \in BOOLEAN
    BY <1>2, <1>18 DEF Types, pipe_read_cb_ends, PipeReadCbEnds
  <2>2. QED
    BY <1>2, <1>18, <2>1 DEF Types, pipe_read_cb_ends, PipeReadCbEnds, thread
<1>19. CASE broadcast_udp
  <2>1. broadcast \o frames_to_send \in Seq(Seq(Bytes)) /\ <<>> \in Seq(Seq(Bytes))
    BY <1>2, ConcatProperties, EmptySeq DEF Types
  <2>2. QED
    BY <1>2, <1>19, <2>1 DEF Types, broadcast_udp, thread
<1>20. CASE loop_ends
  <2>1. errors' \in 0..MaxErrors
    BY <1>1, <1>3, <1>20 DEF loop_ends
  <2>2. QED
    BY <1>2, <1>20, <2>1 DEF Types, loop_ends, thread
<1>21. QED
  BY <1>5, <1>6, <1>7, <1>8, <1>9, <1>10, <1>11, <1>12, <1>13, <1>14, <1>15, <1>16,
     <1>17, <1>18, <1>19, <1>20 DEF Next, Kernel, IOCPFunc, EventLoop


-----------------------------------------------------------------------------
(* Each step keeps the buffer of the pipe to one operation *)

\* The steps that leave the completion port and the thread's flags alone.
Elsewhere ==
    \/ \E size \in Sizes : frame_from_tap(size) \/ frame_from_net(size)
    \/ \E ok \in BOOLEAN : pipe_read(ok)
    \/ EventLoop
    \/ loop_ends

\* The steps of the network, the pipe's reader and the event loop leave the operations
\* of the thread, their completions and its buffer alone.
LEMMA ElsewhereLeaves ==
    ASSUME Elsewhere
    PROVE  UNCHANGED <<queue, entries, need_dev, need_pipe, pipe_read_on,
                       in_pipe_read, pipe_buf, reads, device_buf>>
BY DEF Elsewhere, EventLoop, frame_from_tap, frame_from_net, pipe_read, pipe_read_cb,
       v_frame_push, pipe_read_cb_ends, PipeReadCbEnds, broadcast_udp, loop_ends, thread

\* A step is one of those, or one of the kernel's or of the device thread's.
LEMMA Steps ==
    ASSUME Next
    PROVE  \/ Elsewhere
           \/ device_read_completes \/ device_write_completes
           \/ \E n \in 1..PIPE_BUF : pipe_read_completes(n)
           \/ \E devOk, pipeOk \in BOOLEAN : start_reads(devOk, pipeOk)
           \/ dequeue \/ device_entry \/ pipe_entry \/ pipe_read_ends
BY DEF Next, Kernel, IOCPFunc, Elsewhere

\* There is still one operation on the buffer of the pipe at most.
LEMMA PipeKept ==
    ASSUME WinInv, Next
    PROVE  PipeInv'
<1>1. Types /\ PipeInv
  BY DEF WinInv
<1>2. queue \in Seq(Entries) /\ entries \in Seq(Entries)
  BY <1>1 DEF Types
<1>3. 1 \in On("pipe", entries) <=> entries # <<>> /\ entries[1].key = "pipe"
  <2>1. entries = <<>> \/ (Len(entries) \in Nat /\ 1 \in 1..Len(entries))
    BY <1>2, Elements
  <2>2. entries = <<>> => 1..Len(entries) = {}
    BY <1>2, EmptySeq
  <2>3. QED
    BY <2>1, <2>2 DEF On
<1>4. CASE Elsewhere
  <2>1. UNCHANGED <<queue, entries, need_pipe, pipe_read_on, in_pipe_read>>
    BY <1>4, ElsewhereLeaves
  <2>2. QED
    BY <1>1, <2>1 DEF PipeInv, OneAtMost, None, On
<1>5. CASE device_read_completes \/ device_write_completes
  <2>1. PICK x : x.key = "device" /\ queue' = Append(queue, x)
    BY <1>5 DEF device_read_completes, device_write_completes
  <2>2. queue' \in Seq(Entries)
    BY TypesKept DEF Types
  <2>3. x \in Entries
    <3>1. x = queue'[Len(queue) + 1] /\ Len(queue') = Len(queue) + 1 /\ Len(queue) \in Nat
      BY <1>2, <2>1, <2>2
    <3>2. QED
      BY <2>2, <3>1, ElementOfSeq
  <2>4. On("pipe", queue') = On("pipe", queue)
    BY <1>2, <2>1, <2>3, AppendOn
  <2>5. UNCHANGED <<entries, need_pipe, pipe_read_on, in_pipe_read>>
    BY <1>5 DEF device_read_completes, device_write_completes
  <2>6. QED
    BY <1>1, <2>4, <2>5 DEF PipeInv, OneAtMost, None
<1>6. ASSUME NEW n \in 1..PIPE_BUF, pipe_read_completes(n)
      PROVE  PipeInv'
  <2>1. [key |-> "pipe", size |-> n, read |-> TRUE] \in Entries
    BY WinPipeAssumption DEF Entries
  <2>2. pipe_read_on /\ On("pipe", queue) = {} /\ On("pipe", entries) = {} /\ ~need_pipe
    BY <1>1, <1>6 DEF PipeInv, None, pipe_read_completes
  <2>3. On("pipe", queue') = {Len(queue) + 1}
    BY <1>2, <1>6, <2>1, <2>2, AppendOn DEF pipe_read_completes
  <2>4. UNCHANGED <<entries, need_pipe, in_pipe_read>> /\ pipe_read_on' = FALSE
    BY <1>6 DEF pipe_read_completes
  <2>5. QED
    BY <1>1, <2>2, <2>3, <2>4 DEF PipeInv, OneAtMost, None
<1>7. ASSUME NEW devOk \in BOOLEAN, NEW pipeOk \in BOOLEAN, start_reads(devOk, pipeOk)
      PROVE  PipeInv'
  <2>1. UNCHANGED <<queue, entries, in_pipe_read>> /\ need_pipe' = FALSE
    BY <1>7 DEF start_reads, StartReads
  <2>2. pipe_read_on' => pipe_read_on \/ need_pipe
    BY <1>7 DEF start_reads, StartReads
  <2>3. QED
    BY <1>1, <2>1, <2>2 DEF PipeInv, OneAtMost, None
<1>8. CASE dequeue
  <2>1. Len(queue) \in Nat /\ ENTRIES \in Nat
    BY <1>2, Elements, WinPipeAssumption
  <2>2. Ready \in 0..Len(queue)
    BY <2>1 DEF Ready
  <2>3. entries = <<>> /\ entries' = SubSeq(queue, 1, Ready)
        /\ queue' = SubSeq(queue, Ready + 1, Len(queue))
    BY <1>8 DEF dequeue
  <2>4. PICK f, g : f = SubSeq(queue, 1, Ready) /\ g = SubSeq(queue, Ready + 1, Len(queue))
    OBVIOUS
  <2>5. Split("pipe", queue, Ready, f, g)
    BY <1>2, <2>2, <2>4, SplitOn
  <2>6. /\ (On("pipe", f) = {} /\ On("pipe", g) = {}) <=> On("pipe", queue) = {}
        /\ (\A i, j \in On("pipe", queue) : i = j) =>
              /\ \A i, j \in On("pipe", f) : i = j
              /\ \A i, j \in On("pipe", g) : i = j
              /\ On("pipe", f) = {} \/ On("pipe", g) = {}
    BY <2>5 DEF Split
  <2>7. entries' = f /\ queue' = g
    BY <2>3, <2>4
  <2>8. UNCHANGED <<need_pipe, pipe_read_on, in_pipe_read>>
    BY <1>8 DEF dequeue
  <2>9. QED
    BY <1>1, <2>3, <2>6, <2>8, <2>7 DEF PipeInv, OneAtMost, None
<1>9. CASE device_entry
  <2>1. entries # <<>> /\ Head(entries).key = "device" /\ entries' = Tail(entries)
        /\ UNCHANGED <<queue, need_pipe, pipe_read_on, in_pipe_read>>
    BY <1>9 DEF device_entry, DeviceEntry
  <2>2. Head(entries) = entries[1]
    BY <1>2, <2>1, TailOn
  <2>3. ~in_pipe_read
    BY <1>1, <2>1, <2>2 DEF PipeInv
  <2>4. \A i, j \in On("pipe", entries) : i = j
    BY <1>1 DEF PipeInv, OneAtMost
  <2>5. /\ \A i, j \in On("pipe", entries') : i = j
        /\ On("pipe", entries') = {} <=> On("pipe", entries) = {}
    BY <1>2, <2>1, <2>4, TailOne
  <2>6. QED
    BY <1>1, <2>1, <2>3, <2>5 DEF PipeInv, OneAtMost, None
<1>10. CASE pipe_entry
  <2>1. entries # <<>> /\ Head(entries).key = "pipe"
        /\ UNCHANGED <<queue, entries, need_pipe, pipe_read_on>>
    BY <1>10 DEF pipe_entry
  <2>2. Head(entries) = entries[1]
    BY <1>2, <2>1, TailOn
  <2>3. QED
    BY <1>1, <2>1, <2>2 DEF PipeInv, OneAtMost, None
<1>11. CASE pipe_read_ends
  <2>1. in_pipe_read /\ entries' = Tail(entries) /\ need_pipe' = TRUE
        /\ in_pipe_read' = FALSE /\ UNCHANGED <<queue, pipe_read_on>>
    BY <1>11 DEF pipe_read_ends, PipeReadEnds
  <2>2. entries # <<>> /\ entries[1].key = "pipe"
    BY <1>1, <2>1 DEF PipeInv
  <2>3. /\ \A i, j \in On("pipe", entries) : i = j
        /\ On("pipe", queue) = {} /\ ~pipe_read_on
    BY <1>1, <1>3, <2>2 DEF PipeInv, OneAtMost, None
  <2>4. Head(entries) = entries[1]
    BY <1>2, <2>2, TailOn
  <2>5. On("pipe", entries') = {}
    BY <1>2, <2>1, <2>2, <2>3, <2>4, TailOne
  <2>6. QED
    BY <2>1, <2>3, <2>5 DEF PipeInv, OneAtMost, None
<1>12. QED
  BY <1>4, <1>5, <1>6, <1>7, <1>8, <1>9, <1>10, <1>11, Steps

\* A finished read of the device is among the entries s.
ReadIn(s) == \E i \in On("device", s) : s[i].read

\* Unless a call has failed, a read of the device is still pending.
LEMMA PendingKept ==
    ASSUME WinInv, Next
    PROVE  ReadAlwaysPending'
<1>1. Types /\ PipeInv /\ ReadAlwaysPending
  BY DEF WinInv
<1>2. queue \in Seq(Entries) /\ entries \in Seq(Entries)
      /\ queue' \in Seq(Entries) /\ entries' \in Seq(Entries)
  BY <1>1, TypesKept DEF Types
<1>3. /\ \A s \in Seq(Entries) :
            ReadIn(s) <=> \E i \in DOMAIN s : s[i].key = "device" /\ s[i].read
  BY Elements DEF ReadIn, On
<1>4. /\ ReadAlwaysPending <=>
            (errors = 0 => need_dev \/ reads > 0 \/ ReadIn(queue) \/ ReadIn(entries))
      /\ ReadAlwaysPending' <=>
            (errors' = 0 => need_dev' \/ reads' > 0 \/ ReadIn(queue') \/ ReadIn(entries'))
  BY <1>2, <1>3 DEF ReadAlwaysPending
<1>5. errors \in Nat /\ reads \in Nat
  BY <1>1, WinPipeAssumption DEF Types
<1>6. CASE Elsewhere
  <2>1. UNCHANGED <<queue, entries, need_dev, reads>>
    BY <1>6, ElsewhereLeaves
  <2>2. errors' = errors \/ errors' = errors + 1
    BY <1>6 DEF Elsewhere, EventLoop, frame_from_tap, frame_from_net, pipe_read, pipe_read_cb,
       v_frame_push, pipe_read_cb_ends, PipeReadCbEnds, broadcast_udp, loop_ends
  <2>3. errors' = 0 => errors = 0
    BY <1>5, <2>2
  <2>4. QED
    BY <1>1, <1>4, <2>1, <2>3
<1>7. CASE device_read_completes
  <2>1. PICK x \in Entries : x.key = "device" /\ x.read /\ queue' = Append(queue, x)
    <3>1. Head(tap) \in Frames
      BY <1>1, <1>7, HeadTailProperties DEF Types, device_read_completes
    <3>2. [key |-> "device", size |-> Head(tap).size, read |-> TRUE] \in Entries
      BY <3>1 DEF Frames, Entries
    <3>3. QED
      BY <1>7, <3>2 DEF device_read_completes
  <2>2. queue'[Len(queue) + 1] = x /\ Len(queue') = Len(queue) + 1 /\ Len(queue) \in Nat
    BY <1>2, <2>1, AppendProperties, Elements
  <2>3. ReadIn(queue')
    BY <2>1, <2>2 DEF ReadIn, On
  <2>4. QED
    BY <1>4, <2>3
<1>8. CASE device_write_completes \/ \E n \in 1..PIPE_BUF : pipe_read_completes(n)
  <2>1. PICK x : queue' = Append(queue, x)
    BY <1>8 DEF device_write_completes, pipe_read_completes
  <2>2. UNCHANGED <<entries, need_dev, reads, errors>>
    BY <1>8 DEF device_write_completes, pipe_read_completes
  <2>3. /\ Len(queue) \in Nat /\ Len(queue') = Len(queue) + 1
        /\ \A i \in 1..Len(queue) : queue'[i] = queue[i]
    BY <1>2, <2>1, Elements
  <2>4. ReadIn(queue) => ReadIn(queue')
    BY <2>3 DEF ReadIn, On
  <2>5. QED
    BY <1>1, <1>4, <2>2, <2>4
<1>9. ASSUME NEW devOk \in BOOLEAN, NEW pipeOk \in BOOLEAN, start_reads(devOk, pipeOk)
      PROVE  ReadAlwaysPending'
  <2> DEFINE x == IF need_dev /\ ~devOk THEN 1 ELSE 0
             y == IF need_pipe /\ ~pipeOk THEN 1 ELSE 0
  <2>1. errors' = errors + (x + y) /\ UNCHANGED <<queue, entries>>
        /\ reads' = IF need_dev /\ devOk THEN reads + 1 ELSE reads
    BY <1>9 DEF start_reads, StartReads
  <2>2. x \in 0..1 /\ y \in 0..1
    OBVIOUS
  <2>3. errors' = 0 => errors = 0 /\ x = 0
    BY <1>5, <2>1, <2>2
  <2>4. errors' = 0 /\ need_dev => reads' > 0
    BY <1>5, <2>1, <2>3
  <2>5. ~need_dev => reads' = reads
    BY <2>1
  <2>6. QED
    BY <1>1, <1>4, <2>1, <2>3, <2>4, <2>5
<1>10. CASE dequeue
  <2>1. Len(queue) \in Nat /\ ENTRIES \in Nat
    BY <1>2, Elements, WinPipeAssumption
  <2>2. Ready \in 0..Len(queue)
    BY <2>1 DEF Ready
  <2>3. entries = <<>> /\ entries' = SubSeq(queue, 1, Ready)
        /\ queue' = SubSeq(queue, Ready + 1, Len(queue))
        /\ UNCHANGED <<need_dev, reads, errors>>
    BY <1>10 DEF dequeue
  <2>4. PICK f, g : f = SubSeq(queue, 1, Ready) /\ g = SubSeq(queue, Ready + 1, Len(queue))
    OBVIOUS
  <2>5. queue \in Seq(Entries)
    BY <1>2
  <2>6. Split("device", queue, Ready, f, g)
    BY <2>2, <2>4, <2>5, SplitOn
  <2>7. /\ \A i \in On("device", f) : f[i] = queue[i]
        /\ \A i \in On("device", g) : g[i] = queue[i + Ready]
        /\ \A i \in On("device", queue) : i \in On("device", f) \/ i - Ready \in On("device", g)
    BY <2>6 DEF Split
  <2>8. /\ \A i \in On("device", entries') : entries'[i] = queue[i]
        /\ \A i \in On("device", queue') : queue'[i] = queue[i + Ready]
        /\ \A i \in On("device", queue) :
              i \in On("device", entries') \/ i - Ready \in On("device", queue')
    BY <2>3, <2>4, <2>7
  <2>9. ASSUME ReadIn(queue)
        PROVE  ReadIn(queue') \/ ReadIn(entries')
    <3>1. PICK i \in On("device", queue) : queue[i].read
      BY <2>9 DEF ReadIn
    <3>2. CASE i \in On("device", entries')
      BY <2>8, <3>1, <3>2 DEF ReadIn
    <3>3. CASE i - Ready \in On("device", queue')
      <4>1. i \in Nat /\ Ready \in Nat
        BY <2>1, <2>2 DEF On
      <4>2. (i - Ready) + Ready = i
        BY <4>1
      <4>3. QED
        BY <2>8, <3>1, <3>3, <4>2 DEF ReadIn
    <3>4. QED
      BY <2>8, <3>2, <3>3
  <2>10. ~ReadIn(entries)
    <3>1. 1..Len(<<>>) = {}
      BY EmptySeq
    <3>2. QED
      BY <2>3, <3>1 DEF ReadIn, On
  <2>11. QED
    BY <1>1, <1>4, <2>3, <2>9, <2>10
<1>11. CASE device_entry
  BY <1>4, <1>11 DEF device_entry, DeviceEntry
<1>12. CASE pipe_entry
  BY <1>1, <1>4, <1>12 DEF pipe_entry
<1>13. CASE pipe_read_ends
  <2>1. in_pipe_read /\ entries' = Tail(entries) /\ UNCHANGED <<queue, need_dev, reads, errors>>
    BY <1>13 DEF pipe_read_ends, PipeReadEnds
  <2>2. entries # <<>> /\ entries[1].key = "pipe"
    BY <1>1, <2>1 DEF PipeInv
  <2>3. Behind("device", entries, entries')
    BY <1>2, <2>1, <2>2, TailOn
  <2>4. /\ \A i \in On("device", entries') : entries'[i] = entries[i + 1]
        /\ \A i \in On("device", entries) : i # 1 => i - 1 \in On("device", entries')
    BY <2>3 DEF Behind
  <2>5. ASSUME ReadIn(entries)
        PROVE  ReadIn(entries')
    <3>1. PICK i \in On("device", entries) : entries[i].read
      BY <2>5 DEF ReadIn
    <3>2. i # 1 /\ i \in Int
      BY <2>2 DEF On
    <3>3. i - 1 \in On("device", entries') /\ (i - 1) + 1 = i
      BY <2>4, <3>2
    <3>4. QED
      BY <2>4, <3>1, <3>3 DEF ReadIn
  <2>6. QED
    BY <1>1, <1>4, <2>1, <2>5
<1>14. QED
  BY <1>6, <1>7, <1>8, <1>9, <1>10, <1>11, <1>12, <1>13, Steps


-----------------------------------------------------------------------------
(* Each step keeps the stream to the device *)

\* The entries a thread takes from the port were all in the queue.
LEMMA Dequeued ==
    ASSUME Types, dequeue, NEW key
    PROVE  /\ Split(key, queue, Ready, entries', queue') /\ Ready \in 0..Len(queue)
           /\ On(key, entries) = {}
<1>1. queue \in Seq(Entries)
  BY DEF Types
<1>2. Len(queue) \in Nat /\ ENTRIES \in Nat
  BY <1>1, Elements, WinPipeAssumption
<1>3. Ready \in 0..Len(queue)
  BY <1>2 DEF Ready
<1>4. PICK f, g : f = SubSeq(queue, 1, Ready) /\ g = SubSeq(queue, Ready + 1, Len(queue))
  OBVIOUS
<1>5. Split(key, queue, Ready, f, g)
  BY <1>1, <1>3, <1>4, SplitOn
<1>6. entries = <<>> /\ entries' = f /\ queue' = g
  BY <1>4 DEF dequeue
<1>7. 1..Len(<<>>) = {}
  BY EmptySeq
<1>8. QED
  BY <1>3, <1>5, <1>6, <1>7 DEF On

\* The steps that move no byte between the pipe and the device.
LEMMA StreamStays ==
    ASSUME WinInv, Next,
           \/ device_read_completes \/ device_write_completes
           \/ \E devOk, pipeOk \in BOOLEAN : start_reads(devOk, pipeOk)
           \/ dequeue \/ device_entry \/ pipe_read_ends
    PROVE  UNCHANGED <<evb_pipe, Unhandled, to_thread, net, written>>
<1>1. Types /\ PipeInv
  BY DEF WinInv
<1>2. queue \in Seq(Entries) /\ entries \in Seq(Entries)
  BY <1>1 DEF Types
<1>3. /\ UNCHANGED <<evb_pipe, pipe_buf, to_thread, net, written>>
      /\ ~pipe_read_ends => UNCHANGED in_pipe_read
  BY DEF device_read_completes, device_write_completes, start_reads, StartReads, dequeue,
         device_entry, DeviceEntry, pipe_read_ends, PipeReadEnds
<1>4. ASSUME None("pipe")' <=> None("pipe"), UNCHANGED in_pipe_read
      PROVE  UNCHANGED Unhandled
  BY <1>3, <1>4 DEF Unhandled
<1>5. CASE device_read_completes \/ device_write_completes
  <2>1. PICK x : x.key = "device" /\ x \in Entries /\ queue' = Append(queue, x)
    <3>1. tap # <<>> => Head(tap) \in Frames
      BY <1>1, HeadTailProperties DEF Types
    <3>2. writes # <<>> => Head(writes) \in Nat
      BY <1>1, HeadTailProperties DEF Types
    <3>3. QED
      BY <1>5, <3>1, <3>2 DEF device_read_completes, device_write_completes, Frames, Entries
  <2>2. On("pipe", queue') = On("pipe", queue) /\ entries' = entries
    BY <1>2, <1>5, <2>1, AppendOn DEF device_read_completes, device_write_completes
  <2>3. UNCHANGED in_pipe_read
    BY <1>5 DEF device_read_completes, device_write_completes
  <2>4. QED
    BY <1>3, <1>4, <2>2, <2>3 DEF None
<1>6. CASE \E devOk, pipeOk \in BOOLEAN : start_reads(devOk, pipeOk)
  <2>1. UNCHANGED <<queue, entries, in_pipe_read>>
    BY <1>6 DEF start_reads, StartReads
  <2>2. QED
    BY <1>3, <1>4, <2>1 DEF None
<1>7. CASE dequeue
  <2>1. Split("pipe", queue, Ready, entries', queue') /\ On("pipe", entries) = {}
    BY <1>1, <1>7, Dequeued
  <2>2. (On("pipe", entries') = {} /\ On("pipe", queue') = {}) <=> On("pipe", queue) = {}
    BY <2>1 DEF Split
  <2>3. UNCHANGED in_pipe_read
    BY <1>7 DEF dequeue
  <2>4. QED
    BY <1>3, <1>4, <2>1, <2>2, <2>3 DEF None
<1>8. CASE device_entry
  <2>1. entries # <<>> /\ Head(entries).key = "device" /\ entries' = Tail(entries)
        /\ UNCHANGED <<queue, in_pipe_read>>
    BY <1>8 DEF device_entry, DeviceEntry
  <2>2. \A i, j \in On("pipe", entries) : i = j
    BY <1>1 DEF PipeInv, OneAtMost
  <2>3. On("pipe", entries') = {} <=> On("pipe", entries) = {}
    BY <1>2, <2>1, <2>2, TailOne
  <2>4. QED
    BY <1>3, <1>4, <2>1, <2>3 DEF None
<1>9. CASE pipe_read_ends
  <2>1. need_pipe' = TRUE /\ in_pipe_read
    BY <1>9 DEF pipe_read_ends, PipeReadEnds
  <2>2. PipeInv'
    BY PipeKept
  <2>3. None("pipe")'
    BY <2>1, <2>2 DEF PipeInv
  <2>4. QED
    BY <1>3, <2>1, <2>3 DEF Unhandled
<1>10. QED
  BY <1>5, <1>6, <1>7, <1>8, <1>9


\* A frame more, behind the others.
LEMMA OrderGrows ==
    ASSUME NEW P, NEW packets \in Seq(P), NEW w \in Seq(Seq(Bytes)),
           NEW n \in 1..Len(packets), InOrder(w, packets, n),
           NEW f \in Seq(Bytes), f = Body(n, packets[n].size),
           NEW z \in Nat, packets[n].size = z
    PROVE  InOrder(w, packets, n + 1) /\ InOrder(Append(w, f), packets, n + 1)
<1>1. Len(packets) \in Nat /\ n \in Nat /\ Len(w) \in Nat
      /\ \A i \in 1..Len(w) : w[i] \in Seq(Bytes)
  BY Elements
<1>2. f # <<>> => f[1] = Byte(n, 3) /\ f[1].pkt = n
  <2>1. z = 0 => f = <<>>
    <3>1. z = 0 => 1..z = {}
      OBVIOUS
    <3>2. z = 0 => Len(f) = 0
      BY <3>1, Elements DEF Body
    <3>3. QED
      BY <3>2, Elements
  <2>2. z # 0 => 1 \in 1..z
    OBVIOUS
  <2>3. z # 0 => f[1] = Byte(n, 1 + 2)
    BY <2>2 DEF Body
  <2>4. QED
    BY <2>1, <2>3 DEF Byte
<1>3. \A i \in 1..Len(w) : w[i] # <<>> => w[i][1].pkt \in Nat
  BY <1>1 DEF InOrder
<1>4. InOrder(w, packets, n + 1)
  <2>1. \A i \in 1..Len(w) : w[i] # <<>> => w[i][1].pkt < n + 1
    BY <1>1, <1>3 DEF InOrder
  <2>2. QED
    BY <2>1 DEF InOrder
<1> DEFINE v == Append(w, f)
<1>5. /\ Len(v) = Len(w) + 1 /\ v[Len(w) + 1] = f
      /\ \A i \in 1..Len(w) : v[i] = w[i]
  BY AppendProperties
<1> HIDE DEF v
<1>6. ASSUME NEW i \in 1..Len(v), v[i] # <<>>
      PROVE  /\ v[i][1].pkt \in 1..Len(packets)
             /\ v[i][1].pkt < n + 1
             /\ v[i] = Body(v[i][1].pkt, packets[v[i][1].pkt].size)
             /\ i <= Len(w) => v[i][1].pkt < n
  <2>1. CASE i \in 1..Len(w)
    BY <1>1, <1>3, <1>4, <1>5, <1>6, <2>1 DEF InOrder
  <2>2. CASE i = Len(w) + 1
    BY <1>1, <1>2, <1>5, <1>6, <2>2
  <2>3. QED
    BY <1>1, <1>5, <2>1, <2>2
<1>7. ASSUME NEW i \in 1..Len(v), NEW j \in 1..Len(v), i < j, v[i] # <<>>, v[j] # <<>>
      PROVE  v[i][1].pkt < v[j][1].pkt
  <2>1. i \in 1..Len(w)
    BY <1>1, <1>5, <1>7
  <2>2. CASE j \in 1..Len(w)
    BY <1>5, <1>7, <2>1, <2>2 DEF InOrder
  <2>3. CASE j = Len(w) + 1
    <3>1. v[j][1].pkt = n
      BY <1>2, <1>5, <1>7, <2>3
    <3>2. v[i][1].pkt < n
      BY <1>1, <1>6, <1>7, <2>1
    <3>3. QED
      BY <3>1, <3>2
  <2>4. j \in 1..Len(w) \/ j = Len(w) + 1
    BY <1>1, <1>5
  <2>5. QED
    BY <2>2, <2>3, <2>4
<1>8. QED
  BY <1>4, <1>6, <1>7 DEF InOrder, v

\* What the device was given, and what is under way to it, are still the packets
\* of the network in order.
LEMMA WrittenKept ==
    ASSUME WinInv, Next
    PROVE  WrittenInv'
<1>1. Types /\ PipeInv /\ WrittenInv
  BY DEF WinInv
<1>2. /\ evb_pipe \in Seq(Bytes) /\ to_thread \in Seq(Bytes) /\ pipe_buf \in Seq(Bytes)
      /\ net \in Seq(NetPackets) /\ written \in Seq(Seq(Bytes))
      /\ queue \in Seq(Entries) /\ entries \in Seq(Entries)
  BY <1>1 DEF Types
<1>3. /\ \A p \in NetPackets : p.size \in Nat
      /\ Unhandled \in Seq(Bytes) /\ Unhandled \o to_thread \in Seq(Bytes)
      /\ ToDevice \in Seq(Bytes)
  BY <1>1, Sized
<1>4. ASSUME ToDevice' = ToDevice, UNCHANGED <<net, written>>
      PROVE  WrittenInv'
  BY <1>1, <1>4 DEF WrittenInv
<1>5. ASSUME UNCHANGED <<evb_pipe, Unhandled, to_thread, net, written>>
      PROVE  WrittenInv'
  <2>1. ToDevice' = ToDevice
    BY <1>5 DEF ToDevice
  <2>2. QED
    BY <1>4, <1>5, <2>1
<1>6. 1 \in On("pipe", entries) <=> entries # <<>> /\ entries[1].key = "pipe"
  <2>1. entries = <<>> \/ (Len(entries) \in Nat /\ 1 \in 1..Len(entries))
    BY <1>2, Elements
  <2>2. entries = <<>> => 1..Len(entries) = {}
    BY <1>2, EmptySeq
  <2>3. QED
    BY <2>1, <2>2 DEF On
<1>7. CASE EventLoop \/ loop_ends \/ \E size \in Sizes : frame_from_tap(size)
  <2>1. UNCHANGED <<queue, entries, in_pipe_read, pipe_buf>>
    BY <1>7, ElsewhereLeaves DEF Elsewhere
  <2>2. UNCHANGED Unhandled
    BY <2>1 DEF Unhandled, None, On
  <2>3. UNCHANGED <<evb_pipe, to_thread, net, written>>
    BY <1>7 DEF EventLoop, frame_from_tap, pipe_read_cb, v_frame_push, pipe_read_cb_ends,
                PipeReadCbEnds, broadcast_udp, loop_ends, thread
  <2>4. QED
    BY <1>5, <2>2, <2>3
<1>8. CASE \/ device_read_completes \/ device_write_completes
           \/ \E devOk, pipeOk \in BOOLEAN : start_reads(devOk, pipeOk)
           \/ dequeue \/ device_entry \/ pipe_read_ends
  BY <1>5, <1>8, StreamStays
<1>9. ASSUME NEW size \in Sizes, frame_from_net(size)
      PROVE  WrittenInv'
  <2>1. [size |-> size] \in NetPackets
    BY WinPipeAssumption DEF NetPackets
  <2>2. PICK p \in NetPackets : p = [size |-> size] /\ p.size = size
    BY <2>1
  <2>3. PICK k \in Seq(Bytes) : k = Packet(Len(net) + 1, p.size)
    <3>1. Len(net) \in Nat /\ p.size \in Nat
      BY <1>2, <1>3, Elements
    <3>2. Len(net) + 1 \in Nat \ {0}
      BY <3>1
    <3>3. QED
      BY <3>1, <3>2, PacketBytes
  <2>4. net' = Append(net, p) /\ to_thread' = to_thread \o k /\ written' = written
    BY <1>9, <2>2, <2>3 DEF frame_from_net
  <2>5. UNCHANGED <<evb_pipe, Unhandled>>
    BY <1>9 DEF frame_from_net, thread, Unhandled, None, On
  <2>6. ToDevice' = evb_pipe \o (Unhandled \o (to_thread \o k))
    BY <2>4, <2>5 DEF ToDevice
  <2>7. ToDevice' = ToDevice \o k
    <3>1. /\ evb_pipe \in Seq(Bytes) /\ to_thread \in Seq(Bytes) /\ Unhandled \in Seq(Bytes)
          /\ Unhandled \o to_thread \in Seq(Bytes) /\ k \in Seq(Bytes)
      BY <1>2, <1>3
    <3>2. (Unhandled \o to_thread) \o k = Unhandled \o (to_thread \o k)
      BY ONLY <3>1, ConcatAssociative
    <3>3. PICK y : y = Unhandled \o to_thread /\ y \in Seq(Bytes)
      BY <3>1
    <3>4. evb_pipe \in Seq(Bytes) /\ y \in Seq(Bytes) /\ k \in Seq(Bytes)
      BY <3>1, <3>3
    <3>5. (evb_pipe \o y) \o k = evb_pipe \o (y \o k)
      BY ONLY <3>4, ConcatAssociative
    <3>6. QED
      BY <2>6, <3>2, <3>3, <3>5 DEF ToDevice
  <2>8. Stream(ToDevice, net) /\ InOrder(written, net, NextPkt(ToDevice, net))
    BY <1>1 DEF WrittenInv
  <2>9. /\ Stream(ToDevice \o k, Append(net, p))
        /\ NextPkt(ToDevice \o k, Append(net, p)) = NextPkt(ToDevice, net)
    BY <1>2, <1>3, <2>3, <2>8, StreamGrows
  <2>10. PICK n : n = NextPkt(ToDevice, net)
    OBVIOUS
  <2>11. InOrder(written, Append(net, p), n)
    <3>1. /\ Len(net) \in Nat /\ Len(Append(net, p)) = Len(net) + 1
          /\ \A i \in 1..Len(net) : Append(net, p)[i] = net[i]
      BY <1>2, Elements, AppendProperties
    <3>2. InOrder(written, net, n)
      BY <2>8, <2>10
    <3>3. QED
      BY <3>1, <3>2 DEF InOrder
  <2>12. QED
    BY <2>4, <2>7, <2>9, <2>10, <2>11 DEF WrittenInv
<1>10. ASSUME NEW n \in 1..PIPE_BUF, pipe_read_completes(n)
       PROVE  WrittenInv'
  <2>1. pipe_read_on /\ None("pipe")
    BY <1>1, <1>10 DEF PipeInv, pipe_read_completes
  <2>2. ~in_pipe_read /\ Unhandled = <<>>
    BY <1>1, <1>6, <2>1 DEF PipeInv, None, Unhandled
  <2>3. On("pipe", queue') # {}
    <3>1. [key |-> "pipe", size |-> n, read |-> TRUE] \in Entries
      BY WinPipeAssumption DEF Entries
    <3>2. PICK x \in Entries : x.key = "pipe" /\ queue' = Append(queue, x)
      BY <1>10, <3>1 DEF pipe_read_completes
    <3>3. On("pipe", queue) = {}
      BY <2>1 DEF None
    <3>4. On("pipe", queue') = {Len(queue) + 1}
      BY <1>2, <3>2, <3>3, AppendOn
    <3>5. QED
      BY <3>4
  <2>4. Unhandled' = SubSeq(to_thread, 1, n)
    BY <1>10, <2>2, <2>3 DEF Unhandled, None, pipe_read_completes
  <2>5. n \in 0..Len(to_thread)
    <3>1. Len(to_thread) \in Nat
      BY <1>2, Elements
    <3>2. QED
      BY <1>10, <3>1 DEF pipe_read_completes
  <2>6. /\ SubSeq(to_thread, 1, n) \in Seq(Bytes)
        /\ SubSeq(to_thread, n + 1, Len(to_thread)) \in Seq(Bytes)
        /\ <<>> \in Seq(Bytes)
    BY <1>2, <2>5, Taken, Dropped, EmptySeq
  <2>7. (<<>> \o SubSeq(to_thread, 1, n)) \o SubSeq(to_thread, n + 1, Len(to_thread))
           = <<>> \o to_thread
    BY <1>2, <2>5, <2>6, Moved
  <2>8. <<>> \o SubSeq(to_thread, 1, n) = SubSeq(to_thread, 1, n)
    BY <2>6, ConcatEmptySeq
  <2>9. Unhandled' \o to_thread' = Unhandled \o to_thread
    BY <1>10, <2>2, <2>4, <2>7, <2>8 DEF pipe_read_completes
  <2>10. ToDevice' = ToDevice /\ UNCHANGED <<net, written>>
    BY <1>10, <2>9 DEF ToDevice, pipe_read_completes
  <2>11. QED
    BY <1>4, <2>10
<1>11. CASE pipe_entry
  <2>1. entries # <<>> /\ Head(entries).key = "pipe" /\ ~in_pipe_read
        /\ evb_pipe' = evb_pipe \o pipe_buf /\ in_pipe_read' = TRUE
        /\ UNCHANGED <<to_thread, net, written>>
    BY <1>11 DEF pipe_entry
  <2>2. Head(entries) = entries[1]
    BY <1>2, <2>1, TailOn
  <2>3. Unhandled = pipe_buf /\ Unhandled' = <<>>
    BY <1>6, <2>1, <2>2 DEF Unhandled, None
  <2>4. evb_pipe \in Seq(Bytes) /\ to_thread \in Seq(Bytes) /\ pipe_buf \in Seq(Bytes)
    BY <1>2
  <2>5. (evb_pipe \o pipe_buf) \o to_thread = evb_pipe \o (pipe_buf \o to_thread)
    BY ONLY <2>4, ConcatAssociative
  <2>6. <<>> \o to_thread = to_thread
    BY <1>2, ConcatEmptySeq
  <2>7. ToDevice' = ToDevice
    BY <2>1, <2>3, <2>5, <2>6 DEF ToDevice
  <2>8. QED
    BY <1>4, <2>1, <2>7
<1>12. ASSUME NEW ok \in BOOLEAN, pipe_read(ok)
       PROVE  WrittenInv'
  <2>1. /\ Enough(evb_pipe, net) /\ evb_pipe' = Rest(evb_pipe, net)
        /\ UNCHANGED <<net, to_thread>>
        /\ \/ written' = Append(written, FrameIn(evb_pipe, net))
           \/ written' = written
    BY <1>12 DEF pipe_read
  <2>2. UNCHANGED Unhandled
    BY <1>12 DEF pipe_read, Unhandled, None, On
  <2>3. PICK t \in Seq(Bytes) : t = Unhandled \o to_thread
    BY <1>3
  <2>4. PICK n : n = NextPkt(evb_pipe \o t, net)
    OBVIOUS
  <2>5. Stream(evb_pipe \o t, net) /\ InOrder(written, net, n)
    BY <1>1, <2>3, <2>4 DEF WrittenInv, ToDevice
  <2>6. /\ FrameIn(evb_pipe, net) \in Seq(Bytes)
        /\ FrameIn(evb_pipe, net) = Body(n, net[n].size)
        /\ n \in 1..Len(net)
        /\ Stream(Rest(evb_pipe, net) \o t, net)
        /\ NextPkt(Rest(evb_pipe, net) \o t, net) = n + 1
    BY <1>2, <1>3, <2>1, <2>4, <2>5, FrameTyped
  <2>7. net[n].size \in Nat
    BY <1>2, <1>3, <2>6, ElementOfSeq
  <2>8. PICK f \in Seq(Bytes) : f = FrameIn(evb_pipe, net)
    BY <2>6
  <2>9. InOrder(written, net, n + 1) /\ InOrder(Append(written, f), net, n + 1)
    BY <1>2, <2>5, <2>6, <2>7, <2>8, OrderGrows
  <2>10. ToDevice' = Rest(evb_pipe, net) \o t
    BY <2>1, <2>2, <2>3 DEF ToDevice
  <2>11. Stream(ToDevice', net') /\ NextPkt(ToDevice', net') = n + 1
    BY <2>1, <2>6, <2>10
  <2>12. InOrder(written', net', n + 1)
    BY <2>1, <2>8, <2>9
  <2>13. QED
    BY <2>11, <2>12 DEF WrittenInv
<1>13. QED
  BY <1>7, <1>8, <1>9, <1>10, <1>11, <1>12 DEF Next, Kernel, IOCPFunc


-----------------------------------------------------------------------------
(* Each step keeps the stream to main *)

\* A stream goes on with one of its packets, or with the one behind them.
LEMMA NextIn ==
    ASSUME NEW P, NEW packets \in Seq(P), NEW b, Stream(b, packets)
    PROVE  NextPkt(b, packets) \in 1..(Len(packets) + 1)
<1>1. Len(packets) \in Nat /\ b \in Seq(Bytes)
  BY Elements DEF Stream
<1>2. b # <<>> => Len(b) \in Nat /\ Len(b) >= 1
  BY <1>1, Elements
<1>3. b # <<>> => 1 \in 1..Len(b)
  BY <1>2
<1>4. b # <<>> => b[1].pkt \in 1..Len(packets)
  BY <1>3 DEF Stream
<1>5. QED
  BY <1>1, <1>4 DEF NextPkt

\* What main has taken from the pipe, and what is under way to it, are still the
\* packets of the thread in order.
LEMMA OutKept ==
    ASSUME WinInv, Next
    PROVE  OutInv'
<1>1. Types /\ OutInv
  BY DEF WinInv
<1>2. /\ input \in Seq(Bytes) /\ to_main \in Seq(Bytes) /\ sent \in Seq(SentPackets)
      /\ broadcast \in Seq(Seq(Bytes)) /\ frames_to_send \in Seq(Seq(Bytes))
      /\ entries \in Seq(Entries)
  BY <1>1 DEF Types
<1>3. (\A p \in SentPackets : p.size \in Nat) /\ ToMain \in Seq(Bytes)
  BY <1>1, Sized
<1>4. /\ Stream(ToMain, sent) /\ NextPkt(ToMain, sent) = Len(Out) + 1
      /\ Bodies(Out, sent)
  BY <1>1 DEF OutInv
<1>5. Out \in Seq(Seq(Bytes)) /\ Len(Out) \in Nat
  <2>1. Out \in Seq(Seq(Bytes))
    BY <1>2, ConcatProperties DEF Out
  <2>2. QED
    BY <2>1, Elements
<1>6. Len(sent) \in Nat /\ Len(Out) <= Len(sent)
  <2>1. Len(sent) \in Nat
    BY <1>2, Elements
  <2>2. Len(Out) + 1 \in 1..(Len(sent) + 1)
    BY <1>2, <1>4, NextIn
  <2>3. QED
    BY <1>5, <2>1, <2>2
<1>7. ASSUME ToMain' = ToMain, Out' = Out, sent' = sent
      PROVE  OutInv'
  BY <1>4, <1>7 DEF OutInv
<1>8. ASSUME UNCHANGED <<input, to_main, sent, broadcast, frames_to_send>>
      PROVE  OutInv'
  <2>1. ToMain' = ToMain /\ Out' = Out
    BY <1>8 DEF ToMain, Out
  <2>2. QED
    BY <1>7, <1>8, <2>1
<1>9. CASE device_entry
  <2>1. Head(entries).size \in Nat
    BY <1>1, <1>9, HeadOf DEF device_entry, DeviceEntry
  <2>2. [size |-> Head(entries).size, frame |-> device_buf] \in SentPackets
    BY <1>1, <2>1 DEF Types, SentPackets
  <2>3. PICK p \in SentPackets :
           p = [size |-> Head(entries).size, frame |-> device_buf]
           /\ p.size = Head(entries).size
    BY <2>2
  <2>4. PICK k : k = Packet(Len(sent) + 1, p.size) /\ k \in Seq(Bytes)
    <3>1. Len(sent) + 1 \in Nat \ {0} /\ p.size \in Nat
      BY <1>3, <1>6
    <3>2. QED
      BY <3>1, PacketBytes
  <2>5. /\ sent' = Append(sent, p) /\ to_main' = to_main \o k
        /\ UNCHANGED <<input, broadcast, frames_to_send>>
    BY <1>9, <2>3, <2>4 DEF device_entry, DeviceEntry, handle_frames, mainvars
  <2>6. ToMain' = ToMain \o k
    <3>1. input \in Seq(Bytes) /\ to_main \in Seq(Bytes) /\ k \in Seq(Bytes)
      BY <1>2, <2>4
    <3>2. (input \o to_main) \o k = input \o (to_main \o k)
      BY ONLY <3>1, ConcatAssociative
    <3>3. QED
      BY <2>5, <3>2 DEF ToMain
  <2>7. /\ Stream(ToMain \o k, Append(sent, p))
        /\ NextPkt(ToMain \o k, Append(sent, p)) = NextPkt(ToMain, sent)
    BY <1>2, <1>3, <1>4, <2>4, StreamGrows
  <2>8. Out' = Out
    BY <2>5 DEF Out
  <2>9. Bodies(Out, Append(sent, p))
    <3>1. \A i \in 1..Len(sent) : Append(sent, p)[i] = sent[i]
      BY <1>2, AppendProperties
    <3>2. \A i \in 1..Len(Out) : i \in 1..Len(sent)
      BY <1>5, <1>6
    <3>3. QED
      BY <1>4, <3>1, <3>2 DEF Bodies
  <2>10. QED
    BY <1>4, <2>5, <2>6, <2>7, <2>8, <2>9 DEF OutInv
<1>10. ASSUME NEW n \in 1..Len(to_main), pipe_read_cb(n)
       PROVE  OutInv'
  <2>1. Len(to_main) \in Nat
    BY <1>2, Elements
  <2>2. n \in 0..Len(to_main)
    BY <2>1
  <2>3. (input \o SubSeq(to_main, 1, n)) \o SubSeq(to_main, n + 1, Len(to_main))
           = input \o to_main
    BY <1>2, <2>2, Moved
  <2>4. ToMain' = ToMain
    BY <1>10, <2>3 DEF ToMain, pipe_read_cb
  <2>5. Out' = Out /\ sent' = sent
    BY <1>10 DEF Out, pipe_read_cb
  <2>6. QED
    BY <1>7, <2>4, <2>5
<1>11. CASE v_frame_push
  <2>1. /\ Enough(input, sent) /\ input' = Rest(input, sent)
        /\ frames_to_send' = Append(frames_to_send, FrameIn(input, sent))
        /\ UNCHANGED <<sent, broadcast, to_main>>
    BY <1>11 DEF v_frame_push
  <2>2. Stream(input \o to_main, sent)
    BY <1>4 DEF ToMain
  <2>3. PICK n : n = NextPkt(input \o to_main, sent)
    OBVIOUS
  <2>4. n = Len(Out) + 1
    BY <1>4, <2>3 DEF ToMain
  <2>5. sent \in Seq(SentPackets) /\ input \in Seq(Bytes) /\ to_main \in Seq(Bytes)
    BY <1>2
  <2>6. /\ FrameIn(input, sent) \in Seq(Bytes)
        /\ FrameIn(input, sent) = Body(n, sent[n].size)
        /\ n \in 1..Len(sent)
        /\ Stream(Rest(input, sent) \o to_main, sent)
        /\ NextPkt(Rest(input, sent) \o to_main, sent) = n + 1
    BY <1>3, <2>1, <2>2, <2>3, <2>5, FrameTyped
  <2>7. PICK f \in Seq(Bytes) : f = FrameIn(input, sent)
    BY <2>6
  <2>8. broadcast \o Append(frames_to_send, f) = Append(broadcast \o frames_to_send, f)
    BY <1>2
  <2>9. Out' = Append(Out, f)
    BY <2>1, <2>7, <2>8 DEF Out
  <2>10. /\ Len(Append(Out, f)) = Len(Out) + 1 /\ Append(Out, f)[Len(Out) + 1] = f
        /\ \A i \in 1..Len(Out) : Append(Out, f)[i] = Out[i]
    BY <1>5, AppendProperties
  <2>11. Bodies(Append(Out, f), sent)
    <3>1. ASSUME NEW i \in 1..(Len(Out) + 1)
          PROVE  Append(Out, f)[i] = Body(i, sent[i].size)
      <4>1. CASE i \in 1..Len(Out)
        BY <1>4, <2>10, <4>1 DEF Bodies
      <4>2. CASE i = Len(Out) + 1
        BY <2>4, <2>6, <2>7, <2>10, <4>2
      <4>3. QED
        BY <1>5, <4>1, <4>2
    <3>2. QED
      BY <2>10, <3>1 DEF Bodies
  <2>12. ToMain' = Rest(input, sent) \o to_main
    BY <2>1 DEF ToMain
  <2>13. Stream(ToMain', sent') /\ NextPkt(ToMain', sent') = Len(Out') + 1
    BY <2>1, <2>4, <2>6, <2>9, <2>10, <2>12
  <2>14. QED
    BY <2>1, <2>9, <2>11, <2>13 DEF OutInv
<1>12. CASE broadcast_udp
  <2>1. Out \o <<>> = Out
    BY <1>5, ConcatEmptySeq
  <2>2. Out' = Out
    BY <1>12, <2>1 DEF broadcast_udp, Out
  <2>3. ToMain' = ToMain /\ sent' = sent
    BY <1>12 DEF broadcast_udp, ToMain
  <2>4. QED
    BY <1>7, <2>2, <2>3
<1>13. CASE pipe_read_cb_ends \/ loop_ends
  BY <1>8, <1>13 DEF pipe_read_cb_ends, PipeReadCbEnds, loop_ends
<1>14. CASE \E size \in Sizes : frame_from_tap(size) \/ frame_from_net(size)
  BY <1>8, <1>14 DEF frame_from_tap, frame_from_net, mainvars
<1>15. CASE Kernel
  BY <1>8, <1>15 DEF Kernel, device_read_completes, device_write_completes,
                     pipe_read_completes, mainvars
<1>16. CASE \/ \E devOk, pipeOk \in BOOLEAN : start_reads(devOk, pipeOk)
            \/ dequeue \/ pipe_entry \/ (\E ok \in BOOLEAN : pipe_read(ok)) \/ pipe_read_ends
  BY <1>8, <1>16 DEF start_reads, StartReads, dequeue, pipe_entry, pipe_read,
                     pipe_read_ends, PipeReadEnds, mainvars
<1>17. QED
  BY <1>9, <1>10, <1>11, <1>12, <1>13, <1>14, <1>15, <1>16 DEF Next, IOCPFunc, EventLoop


-----------------------------------------------------------------------------
(* Each step keeps the reads of the device in order *)

\* The device gives its frames in order: only a read that completes takes one.
LEMMA TapKept ==
    ASSUME Types, TapInv, Next
    PROVE  /\ TapInv'
           /\ ~device_read_completes => Given' = Given
           /\ device_read_completes => /\ Given' = Given + 1 /\ Given \in Int
                                       /\ Head(tap) = Frame(Given + 1, Head(tap).size)
                                       /\ Head(tap).size \in Nat
<1>1. tap \in Seq(Frames) /\ ndevice \in Nat /\ Len(tap) \in Nat
  BY Elements DEF Types
<1>2. CASE device_read_completes
  <2>1. /\ tap # <<>> /\ tap' = Tail(tap) /\ ndevice' = ndevice
    BY <1>2 DEF device_read_completes
  <2>2. /\ Head(tap) = tap[1] /\ tap[1] \in Frames /\ Len(tap) >= 1
        /\ Len(tap') = Len(tap) - 1
        /\ \A i \in 1..Len(tap') : tap'[i] = tap[i + 1]
    BY <1>1, <2>1, HeadTailProperties, Elements
  <2>3. Given' = Given + 1 /\ Given \in Int
    BY <1>1, <2>1, <2>2 DEF Given
  <2>4. tap[1].id = Given + 1
    BY <1>1, <2>2 DEF TapInv
  <2>5. tap[1] = Frame(Given + 1, tap[1].size) /\ tap[1].size \in Nat
    BY <2>2, <2>4 DEF Frame, Frames
  <2>6. ASSUME NEW i \in 1..Len(tap')
        PROVE  tap'[i].id = Given' + i
    <3>1. i + 1 \in 1..Len(tap)
      BY <1>1, <2>2
    <3>2. tap[i + 1].id = Given + (i + 1)
      BY <3>1 DEF TapInv
    <3>3. QED
      BY <2>2, <2>3, <3>2
  <2>7. QED
    BY <1>2, <2>2, <2>3, <2>5, <2>6 DEF TapInv
<1>3. ASSUME NEW size \in Sizes, frame_from_tap(size)
      PROVE  TapInv' /\ Given' = Given /\ ~device_read_completes
  <2>1. /\ ndevice' = ndevice + 1
        /\ tap' = Append(tap, Frame(ndevice + 1, size))
        /\ queue' = queue
    BY <1>3 DEF frame_from_tap, thread
  <2>2. Frame(ndevice + 1, size) \in Frames
    <3>1. size \in Nat /\ ndevice + 1 \in Nat
      BY <1>1, WinPipeAssumption
    <3>2. QED
      BY <3>1 DEF Frame, Frames
  <2>3. /\ Len(tap') = Len(tap) + 1 /\ tap'[Len(tap) + 1] = Frame(ndevice + 1, size)
        /\ \A i \in 1..Len(tap) : tap'[i] = tap[i]
    BY <1>1, <2>1, <2>2, AppendProperties
  <2>4. Given' = Given
    BY <1>1, <2>1, <2>3 DEF Given
  <2>5. ASSUME NEW i \in 1..Len(tap')
        PROVE  tap'[i].id = Given' + i
    <3>1. CASE i \in 1..Len(tap)
      BY <2>3, <2>4, <3>1 DEF TapInv
    <3>2. CASE i = Len(tap) + 1
      <4>1. Given + i = ndevice + 1
        BY <1>1, <3>2 DEF Given
      <4>2. tap'[i].id = ndevice + 1
        BY <2>3, <3>2 DEF Frame
      <4>3. QED
        BY <2>4, <4>1, <4>2
    <3>3. QED
      BY <1>1, <2>3, <3>1, <3>2
  <2>6. device_read_completes => Len(tap') = Len(tap) - 1
    BY <1>1, HeadTailProperties DEF device_read_completes
  <2>7. ~device_read_completes
    BY <1>1, <2>3, <2>6
  <2>8. QED
    BY <2>4, <2>5, <2>7 DEF TapInv
<1>4. ASSUME UNCHANGED <<tap, ndevice>>
      PROVE  TapInv' /\ Given' = Given
  BY <1>4 DEF TapInv, Given
<1>5. CASE \E size \in Sizes : frame_from_net(size)
  <2>1. UNCHANGED <<tap, ndevice>>
    BY <1>5 DEF frame_from_net
  <2>2. device_read_completes => Len(tap') = Len(tap) - 1
    BY <1>1, HeadTailProperties DEF device_read_completes
  <2>3. ~device_read_completes
    BY <1>1, <2>1, <2>2
  <2>4. QED
    BY <1>4, <2>1, <2>3
<1>6. CASE EventLoop \/ loop_ends \/ IOCPFunc \/ (Kernel /\ ~device_read_completes)
  <2>1. UNCHANGED <<tap, ndevice>>
    BY <1>6 DEF EventLoop, loop_ends, IOCPFunc, Kernel, pipe_read_cb, v_frame_push,
       pipe_read_cb_ends, PipeReadCbEnds, broadcast_udp, start_reads, StartReads, dequeue,
       device_entry, DeviceEntry, pipe_entry, pipe_read, pipe_read_ends, PipeReadEnds,
       device_write_completes, pipe_read_completes
  <2>2. device_read_completes => Len(tap') = Len(tap) - 1
    BY <1>1, HeadTailProperties DEF device_read_completes
  <2>3. ~device_read_completes
    BY <1>1, <2>1, <2>2
  <2>4. QED
    BY <1>4, <2>1, <2>3
<1>7. QED
  BY <1>2, <1>3, <1>5, <1>6 DEF Next

\* While nothing is written to the device, one read of it at most is due, under
\* way or finished, and what was sent are its frames.
LEMMA OneReadKept ==
    ASSUME WinInv, Next, written' = <<>>
    PROVE  OneRead'
<1>1. Types /\ PipeInv /\ TapInv
  BY DEF WinInv, DeviceInv
<1>2. /\ queue \in Seq(Entries) /\ entries \in Seq(Entries) /\ reads \in Nat
      /\ need_dev \in BOOLEAN /\ sent \in Seq(SentPackets) /\ Len(sent) \in Nat
  BY <1>1, Elements DEF Types
<1>3. written = <<>> /\ (writes' = writes \/ device_write_completes)
  <2>1. written \in Seq(Seq(Bytes))
    BY <1>1 DEF Types
  <2>2. ASSUME NEW f
        PROVE  Append(written, f) # <<>>
    <3>1. Len(written) \in Nat
      BY <2>1, Elements
    <3>2. Len(Append(written, f)) = Len(written) + 1
      BY <2>1, <3>1
    <3>3. Len(<<>>) = 0
      OBVIOUS
    <3>4. QED
      BY <3>1, <3>2, <3>3
  <2>3. \/ written' = written /\ (writes' = writes \/ device_write_completes)
        \/ \E f : written' = Append(written, f)
    BY DEF Next, EventLoop, loop_ends, IOCPFunc, Kernel, pipe_read_cb, v_frame_push,
       pipe_read_cb_ends, PipeReadCbEnds, broadcast_udp, start_reads, StartReads, dequeue,
       device_entry, DeviceEntry, pipe_entry, pipe_read, pipe_read_ends, PipeReadEnds,
       device_read_completes, pipe_read_completes, device_write_completes,
       frame_from_tap, frame_from_net
  <2>4. QED
    BY <2>2, <2>3
<1>4. OneRead
  BY <1>3 DEF WinInv, DeviceInv
<1>5. /\ writes = <<>> /\ OneAtMost("device") /\ reads <= 1
      /\ need_dev \/ reads = 1 => None("device")
      /\ ~(need_dev /\ reads = 1)
      /\ Loaded(queue, device_buf, Len(sent) + 1)
      /\ Loaded(entries, device_buf, Len(sent) + 1)
      /\ Given = Len(sent) + (IF None("device") THEN 0 ELSE 1)
      /\ Fresh(sent)
  BY <1>4 DEF OneRead
<1>6. writes' = <<>>
  <2>1. ~device_write_completes
    BY <1>5 DEF device_write_completes
  <2>2. QED
    BY <1>3, <1>5, <2>1
<1>7. ~device_read_completes => Given' = Given
  BY <1>1, TapKept
\* It is enough to look at the entries on the device.
<1>8. ASSUME UNCHANGED <<sent, device_buf, reads, need_dev, Given>>,
             OneAtMost("device")', None("device")' <=> None("device"),
             Loaded(queue', device_buf, Len(sent) + 1),
             Loaded(entries', device_buf, Len(sent) + 1)
      PROVE  OneRead'
  BY <1>5, <1>6, <1>8 DEF OneRead
<1>9. ASSUME UNCHANGED <<sent, device_buf, reads, need_dev, Given, queue, entries>>
      PROVE  OneRead'
  <2>1. OneAtMost("device")' /\ (None("device")' <=> None("device"))
    BY <1>5, <1>9 DEF OneAtMost, None
  <2>2. QED
    BY <1>5, <1>8, <1>9, <2>1
<1>10. CASE Elsewhere \/ pipe_entry
  <2>1. UNCHANGED <<device_buf, reads, need_dev, queue, entries>>
    BY <1>10, ElsewhereLeaves DEF pipe_entry
  <2>2. UNCHANGED sent
    BY <1>10 DEF pipe_entry, Elsewhere, EventLoop, frame_from_tap, frame_from_net, pipe_read,
       pipe_read_cb, v_frame_push, pipe_read_cb_ends, PipeReadCbEnds, broadcast_udp, loop_ends
  <2>3. device_read_completes => reads' = reads - 1
    BY DEF device_read_completes
  <2>4. ~device_read_completes
    BY <1>2, <2>1, <2>3
  <2>5. QED
    BY <1>7, <1>9, <2>1, <2>2, <2>4
<1>11. CASE device_read_completes
  <2>1. /\ reads > 0 /\ reads' = reads - 1 /\ device_buf' = Head(tap)
        /\ queue' = Append(queue, [key |-> "device", size |-> Head(tap).size, read |-> TRUE])
        /\ UNCHANGED <<entries, sent, need_dev>>
    BY <1>11 DEF device_read_completes
  <2>2. /\ Given' = Given + 1 /\ Head(tap) = Frame(Given + 1, Head(tap).size)
        /\ Head(tap).size \in Nat
    BY <1>1, <1>11, TapKept
  <2>3. PICK x \in Entries : x.key = "device" /\ x.size = Head(tap).size
                             /\ queue' = Append(queue, x)
    <3>1. [key |-> "device", size |-> Head(tap).size, read |-> TRUE] \in Entries
      BY <2>2 DEF Entries
    <3>2. QED
      BY <2>1, <3>1
  <2>4. reads = 1 /\ reads' = 0 /\ ~need_dev
    BY <1>2, <1>5, <2>1
  <2>5. On("device", queue) = {} /\ On("device", entries) = {} /\ None("device")
    BY <1>5, <2>4 DEF None
  <2>6. On("device", queue') = {Len(queue) + 1} /\ queue'[Len(queue) + 1] = x
    BY <1>2, <2>3, <2>5, AppendOn
  <2>7. Given = Len(sent)
    BY <1>2, <1>5, <2>5
  <2>8. device_buf' = Frame(Len(sent) + 1, x.size)
    BY <2>1, <2>2, <2>3, <2>7
  <2>9. Loaded(queue', device_buf', Len(sent) + 1) /\ Loaded(entries', device_buf', Len(sent) + 1)
    BY <2>1, <2>5, <2>6, <2>8 DEF Loaded
  <2>10. OneAtMost("device")' /\ ~None("device")'
    BY <2>1, <2>5, <2>6 DEF OneAtMost, None
  <2>11. Given' = Len(sent') + 1
    BY <2>1, <2>2, <2>7
  <2>12. QED
    BY <1>5, <1>6, <2>1, <2>4, <2>9, <2>10, <2>11 DEF OneRead
<1>12. ASSUME NEW n \in 1..PIPE_BUF, pipe_read_completes(n)
       PROVE  OneRead'
  <2>1. [key |-> "pipe", size |-> n, read |-> TRUE] \in Entries
    BY WinPipeAssumption DEF Entries
  <2>2. PICK x \in Entries : x.key = "pipe" /\ queue' = Append(queue, x)
    BY <1>12, <2>1 DEF pipe_read_completes
  <2>3. UNCHANGED <<sent, device_buf, reads, need_dev, entries, tap, ndevice>>
    BY <1>12 DEF pipe_read_completes
  <2>4. /\ On("device", queue') = On("device", queue)
        /\ \A i \in 1..Len(queue) : queue'[i] = queue[i]
    BY <1>2, <2>2, AppendOn
  <2>5. Loaded(queue', device_buf, Len(sent) + 1)
    BY <1>5, <2>4 DEF Loaded, On
  <2>6. OneAtMost("device")' /\ (None("device")' <=> None("device"))
    BY <1>5, <2>3, <2>4 DEF OneAtMost, None
  <2>7. QED
    BY <1>5, <1>8, <2>3, <2>5, <2>6 DEF Given
<1>13. ASSUME NEW devOk \in BOOLEAN, NEW pipeOk \in BOOLEAN, start_reads(devOk, pipeOk)
       PROVE  OneRead'
  <2>1. /\ UNCHANGED <<sent, device_buf, queue, entries, tap, ndevice>> /\ need_dev' = FALSE
        /\ reads' = IF need_dev /\ devOk THEN reads + 1 ELSE reads
    BY <1>13 DEF start_reads, StartReads
  <2>2. Given' = Given
    BY <2>1 DEF Given
  <2>3. reads' <= 1 /\ (reads' = 1 => need_dev \/ reads = 1)
    BY <1>2, <1>5, <2>1
  <2>4. OneAtMost("device")' /\ (None("device")' <=> None("device"))
    BY <1>5, <2>1 DEF OneAtMost, None
  <2>5. QED
    BY <1>5, <1>6, <2>1, <2>2, <2>3, <2>4 DEF OneRead
<1>14. CASE dequeue
  <2>1. Split("device", queue, Ready, entries', queue') /\ On("device", entries) = {}
        /\ Ready \in 0..Len(queue)
    BY <1>1, <1>14, Dequeued
  <2>2. UNCHANGED <<sent, device_buf, reads, need_dev, tap, ndevice>>
    BY <1>14 DEF dequeue
  <2>3. \A i, j \in On("device", queue) : i = j
    BY <1>5 DEF OneAtMost
  <2>4. OneAtMost("device")'
    BY <2>1, <2>3 DEF Split, OneAtMost
  <2>5. None("device")' <=> None("device")
    BY <2>1 DEF Split, None
  <2>6. Loaded(entries', device_buf, Len(sent) + 1)
    BY <1>5, <2>1 DEF Split, Loaded
  <2>7. Loaded(queue', device_buf, Len(sent) + 1)
    BY <1>5, <2>1 DEF Split, Loaded
  <2>8. QED
    BY <1>8, <2>2, <2>4, <2>5, <2>6, <2>7 DEF Given
<1>15. CASE device_entry
  <2>1. /\ entries # <<>> /\ Head(entries).key = "device" /\ entries' = Tail(entries)
        /\ sent' = Append(sent, [size |-> Head(entries).size, frame |-> device_buf])
        /\ need_dev' = TRUE /\ UNCHANGED <<queue, reads, device_buf, tap, ndevice>>
    BY <1>15 DEF device_entry, DeviceEntry, handle_frames
  <2>2. Behind("device", entries, Tail(entries)) /\ Head(entries) = entries[1]
    BY <1>2, <2>1, TailOn
  <2>3. 1 \in On("device", entries)
    BY <2>1, <2>2 DEF Behind
  <2>4. ~None("device") /\ On("device", queue) = {}
    BY <1>5, <2>3 DEF None, OneAtMost
  <2>5. ~need_dev /\ reads # 1 /\ reads' # 1 /\ reads' <= 1
    BY <1>5, <2>1, <2>4
  <2>6. On("device", entries') = {}
    <3>1. \A i, j \in On("device", entries) : i = j
      BY <1>5 DEF OneAtMost
    <3>2. QED
      BY <1>2, <2>1, <3>1, TailOne
  <2>7. OneAtMost("device")' /\ None("device")'
    BY <2>1, <2>4, <2>6 DEF OneAtMost, None
  <2>8. device_buf = Frame(Len(sent) + 1, Head(entries).size)
    BY <1>5, <2>2, <2>3 DEF Loaded
  <2>9. PICK p \in SentPackets : /\ sent' = Append(sent, p)
                                 /\ p.frame = Frame(Len(sent) + 1, p.size)
    <3>1. Head(entries).size \in Nat
      BY <1>1, <2>1, HeadOf
    <3>2. [size |-> Head(entries).size, frame |-> device_buf] \in SentPackets
      BY <1>1, <3>1 DEF Types, SentPackets
    <3>3. QED
      BY <2>1, <2>8, <3>2
  <2>10. /\ Len(sent') = Len(sent) + 1 /\ sent'[Len(sent) + 1] = p
         /\ \A i \in 1..Len(sent) : sent'[i] = sent[i]
    BY <1>2, <2>9, AppendProperties
  <2>11. Fresh(sent')
    <3>1. ASSUME NEW i \in 1..(Len(sent) + 1)
          PROVE  sent'[i].frame = Frame(i, sent'[i].size)
      <4>1. CASE i \in 1..Len(sent)
        BY <1>5, <2>10, <4>1 DEF Fresh
      <4>2. CASE i = Len(sent) + 1
        BY <2>9, <2>10, <4>2
      <4>3. QED
        BY <1>2, <4>1, <4>2
    <3>2. QED
      BY <2>10, <3>1 DEF Fresh
  <2>12. Given' = Len(sent')
    <3>1. Given = Len(sent) + 1
      BY <1>5, <2>4
    <3>2. QED
      BY <2>1, <2>10, <3>1 DEF Given
  <2>13. /\ Loaded(queue', device_buf', Len(sent') + 1)
         /\ Loaded(entries', device_buf', Len(sent') + 1)
    BY <2>1, <2>4, <2>6 DEF Loaded
  <2>14. Given' = Len(sent') + (IF None("device")' THEN 0 ELSE 1)
    BY <1>2, <2>7, <2>10, <2>12
  <2>15. QED
    BY <1>6, <2>1, <2>5, <2>7, <2>11, <2>13, <2>14 DEF OneRead
<1>16. CASE pipe_read_ends
  <2>1. /\ in_pipe_read /\ entries' = Tail(entries)
        /\ UNCHANGED <<queue, sent, device_buf, reads, need_dev, tap, ndevice>>
    BY <1>16 DEF pipe_read_ends, PipeReadEnds
  <2>2. entries # <<>> /\ entries[1].key = "pipe"
    BY <1>1, <2>1 DEF PipeInv
  <2>3. Behind("device", entries, Tail(entries)) /\ Head(entries) = entries[1]
    BY <1>2, <2>2, TailOn
  <2>4. \A i, j \in On("device", entries) : i = j
    BY <1>5 DEF OneAtMost
  <2>5. /\ \A i, j \in On("device", entries') : i = j
        /\ On("device", entries') = {} <=> On("device", entries) = {}
    BY <1>2, <2>1, <2>2, <2>3, <2>4, TailOne
  <2>6. OneAtMost("device")' /\ (None("device")' <=> None("device"))
    BY <1>5, <2>1, <2>5 DEF OneAtMost, None
  <2>7. Loaded(entries', device_buf, Len(sent) + 1)
    BY <1>5, <2>1, <2>3 DEF Behind, Loaded
  <2>8. QED
    BY <1>5, <1>8, <2>1, <2>6, <2>7 DEF Given
<1>17. ~device_write_completes
  BY <1>5 DEF device_write_completes
<1>18. QED
  BY <1>10, <1>11, <1>12, <1>13, <1>14, <1>15, <1>16, <1>17, Steps


-----------------------------------------------------------------------------
(* The invariant, and what it says *)

\* It holds when main has started the thread.
LEMMA WinInit == Init => WinInv
<1> SUFFICES ASSUME Init PROVE WinInv
  OBVIOUS
<1> USE DEF Init
<1>1. /\ \A S : <<>> \in Seq(S)
      /\ Len(<<>>) = 0 /\ 1..Len(<<>>) = {}
      /\ <<>> \o <<>> = <<>>
  OBVIOUS
<1>2. Types
  <2>1. ENTRIES \in Nat /\ PIPE_BUF \in Nat /\ MaxErrors \in Nat
    BY WinPipeAssumption
  <2>2. Len(entries) <= ENTRIES /\ Len(pipe_buf) <= PIPE_BUF /\ errors \in 0..MaxErrors
    BY <1>1, <2>1
  <2>3. device_buf \in Frames
    BY DEF NoFrame, Frame, Frames
  <2>4. QED
    BY <1>1, <2>2, <2>3 DEF Types
<1>3. \A key : On(key, queue) = {} /\ On(key, entries) = {}
  BY <1>1 DEF On
<1>4. PipeInv
  BY <1>3 DEF PipeInv, OneAtMost, None
<1>5. ReadAlwaysPending
  BY DEF ReadAlwaysPending
<1>6. \A packets : Stream(<<>>, packets)
  BY <1>1 DEF Stream
<1>7. WrittenInv
  <2>1. ToDevice = <<>>
    BY <1>1, <1>3 DEF ToDevice, Unhandled, None
  <2>2. \A packets, n : InOrder(<<>>, packets, n)
    BY <1>1 DEF InOrder
  <2>3. QED
    BY <1>6, <2>1, <2>2 DEF WrittenInv
<1>8. OutInv
  <2>1. ToMain = <<>> /\ Out = <<>>
    BY <1>1 DEF ToMain, Out
  <2>2. NextPkt(<<>>, sent) = Len(<<>>) + 1 /\ Bodies(<<>>, sent)
    BY <1>1 DEF NextPkt, Bodies
  <2>3. QED
    BY <1>6, <2>1, <2>2 DEF OutInv
<1>9. DeviceInv
  <2>1. OneAtMost("device") /\ None("device")
    BY <1>3 DEF OneAtMost, None
  <2>2. ndevice = 0 /\ Len(tap) = 0 /\ Len(sent) = 0
    BY <1>1
  <2>3. Given = 0 /\ Len(sent) = 0
    BY ONLY <2>2 DEF Given
  <2>4. /\ Loaded(queue, device_buf, Len(sent) + 1)
        /\ Loaded(entries, device_buf, Len(sent) + 1) /\ Fresh(sent) /\ TapInv
    BY <1>1, <1>3 DEF Loaded, Fresh, TapInv
  <2>5. QED
    BY <2>1, <2>3, <2>4 DEF DeviceInv, OneRead
<1>10. QED
  BY <1>2, <1>4, <1>5, <1>7, <1>8, <1>9 DEF WinInv

\* A step that changes nothing keeps it.
LEMMA WinStutter == WinInv /\ UNCHANGED vars => WinInv'
<1> SUFFICES ASSUME WinInv, UNCHANGED vars PROVE WinInv'
  OBVIOUS
<1> USE DEF vars, thread, mainvars
<1>1. Types' /\ PipeInv' /\ ReadAlwaysPending'
  BY DEF WinInv, Types, PipeInv, OneAtMost, None, ReadAlwaysPending
<1>2. ToDevice' = ToDevice /\ ToMain' = ToMain /\ Out' = Out
  BY DEF ToDevice, Unhandled, None, ToMain, Out
<1>3. WrittenInv' /\ OutInv'
  BY <1>2 DEF WinInv, WrittenInv, OutInv
<1>4. DeviceInv'
  BY DEF WinInv, DeviceInv, TapInv, OneRead, Given, OneAtMost, None
<1>5. QED
  BY <1>1, <1>3, <1>4 DEF WinInv

\* The invariant holds of both threads and the kernel in every state.
LEMMA WinInvariant == Spec => []WinInv
<1>1. WinInv /\ [Next]_vars => WinInv'
  <2> SUFFICES ASSUME WinInv, [Next]_vars PROVE WinInv'
    OBVIOUS
  <2>1. CASE Next
    <3>1. Types' /\ PipeInv' /\ ReadAlwaysPending' /\ WrittenInv' /\ OutInv'
      BY <2>1, TypesKept, PipeKept, PendingKept, WrittenKept, OutKept
    <3>2. TapInv'
      BY <2>1, TapKept DEF WinInv, DeviceInv
    <3>3. DeviceInv'
      BY <2>1, <3>2, OneReadKept DEF DeviceInv
    <3>4. QED
      BY <3>1, <3>3 DEF WinInv
  <2>2. CASE UNCHANGED vars
    BY <2>2, WinStutter
  <2>3. QED
    BY <2>1, <2>2
<1>2. QED
  BY <1>1, WinInit, PTL DEF Spec

\* The state of both threads of sys/wnt/main.c is well formed: the thread never
\* takes more entries than the array entries holds, and never has more bytes in
\* pipe_buf than fit.
THEOREM PipeTyped == Spec => []TypeOK
<1>1. WinInv => TypeOK
  BY DEF WinInv, Types, TypeOK
<1>2. QED
  BY <1>1, WinInvariant, PTL

\* Whatever the sizes of frames and buffers, however the socket pair cuts the
\* streams and in whatever order the overlapped operations complete: the thread
\* writes whole frames to the device in the order of the network; it never stops
\* reading the device unless a call fails; it does not read over bytes it has not
\* taken; and what main broadcasts are the frames of the device, whole and in
\* order, as long as nothing was written to the device.
THEOREM PipeCorrect == Spec => []PipeSound
<1>1. ASSUME WinInv PROVE WrittenWhole
  <2>1. InOrder(written, net, NextPkt(ToDevice, net)) /\ DOMAIN written = 1..Len(written)
    BY <1>1, Elements DEF WinInv, WrittenInv, Types
  <2>2. QED
    BY <2>1 DEF InOrder, WrittenWhole, Whole
<1>2. ASSUME WinInv PROVE PipeBufferOwned
  <2>1. DOMAIN queue = 1..Len(queue) /\ DOMAIN entries = 1..Len(entries)
    BY <1>2, Elements DEF WinInv, Types
  <2>2. pipe_read_on => On("pipe", queue) = {} /\ On("pipe", entries) = {}
    BY <1>2 DEF WinInv, PipeInv, None
  <2>3. QED
    BY <2>1, <2>2 DEF PipeBufferOwned, On
<1>3. ASSUME WinInv PROVE ReadsReachMain
  <2>1. /\ sent \in Seq(SentPackets) /\ Stream(ToMain, sent)
        /\ NextPkt(ToMain, sent) = Len(Out) + 1 /\ Bodies(Out, sent)
        /\ broadcast \in Seq(Seq(Bytes)) /\ frames_to_send \in Seq(Seq(Bytes))
    BY <1>3 DEF WinInv, Types, OutInv
  <2>2. Out \in Seq(Seq(Bytes))
    BY <2>1, ConcatProperties DEF Out
  <2>3. /\ DOMAIN Out = 1..Len(Out) /\ Len(Out) \in Nat
        /\ DOMAIN sent = 1..Len(sent) /\ Len(sent) \in Nat
    BY <2>1, <2>2, Elements
  <2>4. Len(Out) + 1 \in 1..(Len(sent) + 1)
    BY <2>1, NextIn
  <2>5. Len(Out) <= Len(sent)
    BY <2>3, <2>4
  <2>6. written = <<>> => Fresh(sent)
    BY <1>3 DEF WinInv, DeviceInv, OneRead
  <2>7. QED
    BY <2>1, <2>3, <2>5, <2>6 DEF ReadsReachMain, Bodies, Fresh, Out
<1>4. WinInv => PipeSound
  BY <1>1, <1>2, <1>3 DEF PipeSound, WinInv
<1>5. QED
  BY <1>4, WinInvariant, PTL


=============================================================================
