----------------------------- MODULE ImsgProofs -----------------------------
(***************************************************************************)
(* The imsg library is a FIFO of messages with their descriptors, for any  *)
(* sizes and however sendmsg and recvmsg cut the stream.                   *)
(***************************************************************************)
EXTENDS Imsg, NumberLemmas, SequenceTheorems, TLAPS

\* The shapes of what the queues hold.
Bytes == [id : 1..MaxMsgs, pos : 1..MaxImsgSize]
WireBytes == [byte : Bytes, fd : 0..MaxMsgs]
Composed == [at : Nat, len : Lens, fd : 0..MaxMsgs]
Buffers == [id : 1..MaxMsgs, rpos : Nat, wpos : Lens, fd : 0..MaxMsgs]
Returned == [id : 1..MaxMsgs, fd : 0..MaxMsgs]

ImsgTypes ==
    /\ composed \in Seq(Composed) /\ Len(composed) <= MaxMsgs
    /\ bufs \in Seq(Buffers)
    /\ wire \in Seq(WireBytes) /\ rbuf \in Seq(Bytes) /\ fds \in Seq(1..MaxMsgs)
    /\ delivered \in Seq(Returned)
    /\ reading \in BOOLEAN /\ open \in BOOLEAN /\ limit \in 0..MaxMsgs

\* The messages c follow each other in the stream.
EndOf(c, k) == IF k = 0 THEN 0 ELSE c[k].at + c[k].len
Chained(c) ==
    /\ \A i \in 1..Len(c) :
         /\ c[i].at = EndOf(c, i - 1) /\ c[i].len <= MaxImsgSize
         /\ c[i].fd \in {NoFd, i}
    /\ \A i \in 1..Len(c), j \in 1..Len(c) : i < j => EndOf(c, i) <= c[j].at

\* The byte x is at p in the stream.
IsByte(c, x, p) ==
    /\ x.id \in 1..Len(c) /\ x.pos \in 1..c[x.id].len
    /\ c[x.id].at + x.pos = p

\* The messages that were completely written, the byte behind which rbuf starts,
\* and the bytes that were written.
Whole == IF open THEN Len(composed) - Len(bufs) ELSE limit
Base == EndOf(composed, Len(delivered))
SentTo == Base + Len(rbuf) + Len(wire)

WholeInv ==
    /\ Len(delivered) <= Whole /\ Whole <= Len(composed)
    /\ EndOf(composed, Whole) <= SentTo
    /\ Whole < Len(composed) => SentTo < EndOf(composed, Whole + 1)

\* The buffers are the messages that are left; the first one may be cut.
BufsInv ==
    /\ ~open => bufs = << >>
    /\ \A i \in 1..Len(bufs) :
         /\ bufs[i].id = Whole + i /\ bufs[i].wpos = composed[Whole + i].len
         /\ i > 1 => bufs[i].rpos = 0
         /\ bufs[i].fd \in {NoFd, composed[Whole + i].fd}
         /\ bufs[i].rpos > 0 => bufs[i].fd = NoFd
    /\ bufs # << >> => SentTo = EndOf(composed, Whole) + bufs[1].rpos
    /\ open /\ bufs = << >> => SentTo = EndOf(composed, Whole)

\* What is in the read buffer and in the socket follows what was returned.
StreamInv ==
    /\ \A i \in 1..Len(rbuf) : IsByte(composed, rbuf[i], Base + i)
    /\ \A i \in 1..Len(wire) : IsByte(composed, wire[i].byte, Base + Len(rbuf) + i)
    /\ ~reading => ~Complete
    /\ \A i \in 1..Len(delivered) : delivered[i] = [id |-> i, fd |-> composed[i].fd]

\* The descriptor d of the messages c was not returned with the first n.
Due(c, n, d) == d \in (n + 1)..Len(c) /\ c[d].fd # NoFd

\* The descriptors under way are in order, and none is behind the first byte of
\* its message.
FdsInv ==
    /\ \A i \in 1..Len(fds) : Due(composed, Len(delivered), fds[i])
    /\ \A i \in 1..Len(fds), j \in 1..Len(fds) : i < j => fds[i] < fds[j]
    /\ \A i \in 1..Len(wire) : wire[i].fd # NoFd =>
         /\ Due(composed, Len(delivered), wire[i].fd)
         /\ \A k \in 1..Len(fds) : fds[k] < wire[i].fd
         /\ Base + Len(rbuf) + i <= composed[wire[i].fd].at + 1
    /\ \A i \in 1..Len(wire), j \in 1..Len(wire) :
         i < j /\ wire[i].fd # NoFd /\ wire[j].fd # NoFd => wire[i].fd < wire[j].fd
    /\ \A i \in 1..Len(bufs) : bufs[i].fd # NoFd =>
         /\ \A k \in 1..Len(fds) : fds[k] < bufs[i].fd
         /\ \A k \in 1..Len(wire) : wire[k].fd < bufs[i].fd

\* None is lost, until the receiver gives up.
Found(d) ==
    \/ \E k \in 1..Len(fds) : fds[k] = d
    \/ \E k \in 1..Len(wire) : wire[k].fd = d
    \/ \E k \in 1..Len(bufs) : bufs[k].fd = d
    \/ ~open /\ composed[d].at >= SentTo
    \/ ~open /\ ~reading /\ wire = << >>
FoundInv == \A d \in 1..Len(composed) : Due(composed, Len(delivered), d) => Found(d)

ImsgInv == /\ ImsgTypes /\ Chained(composed) /\ WholeInv /\ BufsInv /\ StreamInv /\ FdsInv /\ FoundInv

----------------------------------------------------------------------------

\* The constants are numbers, and a message is not empty.
LEMMA Numbers ==
    /\ HeaderSize \in Nat /\ HeaderSize > 0 /\ MaxImsgSize \in Nat /\ ReadSize \in Nat
    /\ HeaderSize <= MaxImsgSize /\ MaxImsgSize <= ReadSize
    /\ IovMax \in Nat /\ IovMax > 0 /\ MaxMsgs \in Nat
    /\ \A l \in Lens : l \in Nat /\ l > 0
  BY ImsgAssumption

\* The shapes of the queues.
LEMMA Shapes ==
    ASSUME ImsgTypes
    PROVE  /\ Len(composed) \in Nat /\ Len(bufs) \in Nat /\ Len(wire) \in Nat
           /\ Len(rbuf) \in Nat /\ Len(fds) \in Nat /\ Len(delivered) \in Nat
           /\ \A i \in 1..Len(composed) : composed[i] \in Composed
           /\ \A i \in 1..Len(bufs) : bufs[i] \in Buffers
           /\ \A i \in 1..Len(wire) : wire[i] \in WireBytes
           /\ \A i \in 1..Len(rbuf) : rbuf[i] \in Bytes
           /\ \A i \in 1..Len(fds) : fds[i] \in 1..MaxMsgs
<1>1. /\ composed \in Seq(Composed) /\ bufs \in Seq(Buffers) /\ wire \in Seq(WireBytes)
      /\ rbuf \in Seq(Bytes) /\ fds \in Seq(1..MaxMsgs) /\ delivered \in Seq(Returned)
  BY DEF ImsgTypes
<1> QED
  BY <1>1, ElementOfSeq, LenProperties

\* The ends of the messages in the stream.
LEMMA Ends ==
    ASSUME NEW c \in Seq(Composed), Chained(c)
    PROVE  /\ \A k \in 0..Len(c) : EndOf(c, k) \in Nat
           /\ \A k \in 1..Len(c) :
                /\ c[k].at = EndOf(c, k - 1) /\ c[k].len \in Nat
                /\ c[k].len > 0 /\ c[k].len <= MaxImsgSize
                /\ EndOf(c, k) = EndOf(c, k - 1) + c[k].len
           /\ \A j, k \in 0..Len(c) : j < k => EndOf(c, j) < EndOf(c, k)
           /\ \A j, k \in 0..Len(c) : j <= k => EndOf(c, j) <= EndOf(c, k)
<1>0. Len(c) \in Nat
  OBVIOUS
<1>1. ASSUME NEW k \in 1..Len(c)
      PROVE  /\ c[k].at \in Nat /\ c[k].len \in Nat /\ c[k].len > 0
             /\ c[k].at = EndOf(c, k - 1) /\ c[k].len <= MaxImsgSize
  <2>0. c[k] \in Composed
    BY ElementOfSeq
  <2>1. c[k].at \in Nat /\ c[k].len \in Lens
    BY <2>0 DEF Composed
  <2> QED
    BY <2>1, Numbers DEF Chained
<1>2. ASSUME NEW k \in 0..Len(c) PROVE EndOf(c, k) \in Nat
  <2>1. CASE k = 0
    BY <2>1 DEF EndOf
  <2>2. CASE k \in 1..Len(c)
    BY <1>1, <2>2 DEF EndOf
  <2> QED
    BY <1>0, <2>1, <2>2
<1>3. ASSUME NEW k \in 1..Len(c) PROVE EndOf(c, k) = c[k].at + c[k].len
  BY <1>0 DEF EndOf
<1>4. ASSUME NEW j \in 0..Len(c), NEW k \in 0..Len(c), j < k
      PROVE  EndOf(c, j) < EndOf(c, k)
  <2>0. k \in 1..Len(c)
    BY <1>0, <1>4
  <2>1. /\ c[k].at \in Nat /\ c[k].len \in Nat /\ c[k].len > 0
        /\ EndOf(c, k) = c[k].at + c[k].len
    BY <1>1, <1>3, <2>0
  <2>2. CASE j = 0
    BY <2>1, <2>2 DEF EndOf
  <2>3. CASE j \in 1..Len(c)
    <3>1. EndOf(c, j) <= c[k].at /\ EndOf(c, j) \in Nat
      BY <1>2, <1>4, <2>0, <2>3 DEF Chained
    <3> QED
      BY <2>1, <3>1
  <2> QED
    BY <1>0, <2>2, <2>3
<1>5. ASSUME NEW j \in 0..Len(c), NEW k \in 0..Len(c), j <= k
      PROVE  EndOf(c, j) <= EndOf(c, k)
  <2>1. CASE j = k
    BY <1>2, <2>1
  <2>2. CASE j < k
    BY <1>2, <1>4, <2>2
  <2> QED
    BY <1>0, <1>5, <2>1, <2>2
<1>6. ASSUME NEW k \in 1..Len(c)
      PROVE  /\ c[k].at = EndOf(c, k - 1) /\ c[k].len \in Nat
             /\ c[k].len > 0 /\ c[k].len <= MaxImsgSize
             /\ EndOf(c, k) = EndOf(c, k - 1) + c[k].len
  BY <1>1, <1>3
<1> QED
  BY <1>2, <1>4, <1>5, <1>6

\* A byte belongs to the message between whose ends it is.
LEMMA ByteOf ==
    ASSUME NEW c \in Seq(Composed), Chained(c), NEW x, NEW p \in Nat, IsByte(c, x, p),
           NEW k \in 1..Len(c), EndOf(c, k - 1) < p, p <= EndOf(c, k)
    PROVE  x.id = k /\ x.pos = p - EndOf(c, k - 1)
<1> DEFINE h == x.id
<1>0. Len(c) \in Nat
  OBVIOUS
<1>1. /\ h \in 1..Len(c) /\ x.pos \in 1..c[h].len
      /\ c[h].at + x.pos = p
  BY DEF IsByte
<1> HIDE DEF h
<1>2. /\ k - 1 \in 0..Len(c) /\ h - 1 \in 0..Len(c)
      /\ k \in 0..Len(c) /\ h \in 0..Len(c)
  BY <1>0, <1>1
<1>3. EndOf(c, k) \in Nat /\ EndOf(c, k - 1) \in Nat /\ EndOf(c, h) \in Nat /\ EndOf(c, h - 1) \in Nat
  BY <1>2, Ends
<1>4. c[h].at = EndOf(c, h - 1) /\ c[h].len \in Nat /\ EndOf(c, h) = EndOf(c, h - 1) + c[h].len
  BY <1>1, Ends
<1>5. p = EndOf(c, h - 1) + x.pos /\ x.pos \in Nat /\ x.pos > 0 /\ p <= EndOf(c, h)
  BY <1>1, <1>3, <1>4
<1>6. ~(h < k)
  <2> SUFFICES ASSUME h < k PROVE FALSE
    OBVIOUS
  <2>1. h <= k - 1
    BY <1>0, <1>1
  <2>2. EndOf(c, h) <= EndOf(c, k - 1)
    BY <1>2, <2>1, Ends
  <2> QED
    BY <1>3, <1>5, <2>2
<1>7. ~(k < h)
  <2> SUFFICES ASSUME k < h PROVE FALSE
    OBVIOUS
  <2>1. k <= h - 1
    BY <1>0, <1>1
  <2>2. EndOf(c, k) <= EndOf(c, h - 1)
    BY <1>2, <2>1, Ends
  <2> QED
    BY <1>3, <1>5, <2>2
<1>8. h = k
  BY <1>0, <1>1, <1>6, <1>7
<1> QED
  BY <1>3, <1>5, <1>8 DEF h

\* Nothing is under way at first.
LEMMA ImsgStarts == ImsgInit => ImsgInv
<1> SUFFICES ASSUME ImsgInit PROVE ImsgInv
  OBVIOUS
<1>1. /\ composed = << >> /\ bufs = << >> /\ wire = << >> /\ rbuf = << >> /\ fds = << >>
      /\ delivered = << >> /\ reading = FALSE /\ open = TRUE /\ limit = 0
  BY DEF ImsgInit
<1>3. Len(<< >>) = 0 /\ 1..0 = {} /\ \A S : << >> \in Seq(S)
  OBVIOUS
<1>2. ImsgTypes
  <2>1. /\ composed \in Seq(Composed) /\ bufs \in Seq(Buffers) /\ wire \in Seq(WireBytes)
        /\ rbuf \in Seq(Bytes) /\ fds \in Seq(1..MaxMsgs) /\ delivered \in Seq(Returned)
    BY <1>1, <1>3
  <2>2. Len(composed) <= MaxMsgs /\ limit \in 0..MaxMsgs
    BY <1>1, <1>3, Numbers
  <2>3. reading \in BOOLEAN /\ open \in BOOLEAN
    BY <1>1
  <2> QED
    BY <2>1, <2>2, <2>3 DEF ImsgTypes
<1>4. Chained(composed)
  BY <1>1, <1>3 DEF Chained
<1>5. Whole = 0 /\ Base = 0 /\ SentTo = 0 /\ EndOf(composed, 0) = 0
  BY <1>1, <1>3 DEF Whole, Base, SentTo, EndOf
<1>6. WholeInv
  BY <1>1, <1>3, <1>5 DEF WholeInv
<1>7. BufsInv
  BY <1>1, <1>3, <1>5 DEF BufsInv
<1>8. StreamInv
  BY <1>1, <1>3, Numbers DEF StreamInv, Complete
<1>9. FdsInv
  BY <1>1, <1>3 DEF FdsInv
<1>10. FoundInv
  BY <1>1, <1>3 DEF FoundInv
<1> QED
  BY <1>2, <1>4, <1>6, <1>7, <1>8, <1>9, <1>10 DEF ImsgInv

\* What is added at the end of a queue.
LEMMA Added ==
    ASSUME NEW S, NEW s \in Seq(S), NEW x \in S
    PROVE  /\ Append(s, x) \in Seq(S) /\ Len(Append(s, x)) = Len(s) + 1
           /\ \A i \in 1..Len(s) : Append(s, x)[i] = s[i]
           /\ Append(s, x)[Len(s) + 1] = x
  BY AppendProperties

\* imsg_compose keeps the invariant: the new message comes last in the queue.
LEMMA ComposeKeeps ==
    ASSUME ImsgInv, NEW len \in Lens, NEW hasfd \in BOOLEAN, imsg_compose(len, hasfd)
    PROVE  ImsgInv'
<1> DEFINE c == composed
           d == composed'
           N == Len(composed)
           M == Len(bufs)
           id == N + 1
           fd == IF hasfd THEN id ELSE NoFd
           msg == [at |-> End(N), len |-> len, fd |-> fd]
           buf == [id |-> id, rpos |-> 0, wpos |-> len, fd |-> fd]
<1>1. /\ open /\ N < MaxMsgs /\ len <= MaxImsgSize
      /\ d = Append(c, msg) /\ bufs' = Append(bufs, buf)
      /\ wire' = wire /\ rbuf' = rbuf /\ fds' = fds /\ delivered' = delivered
      /\ reading' = reading /\ open' = open /\ limit' = limit
  BY DEF imsg_compose
<1>2. /\ ImsgTypes /\ Chained(c) /\ WholeInv /\ BufsInv /\ StreamInv /\ FdsInv /\ FoundInv
      /\ c \in Seq(Composed) /\ bufs \in Seq(Buffers)
  BY DEF ImsgInv, ImsgTypes
<1>3. /\ N \in Nat /\ M \in Nat /\ len \in Nat /\ len > 0 /\ MaxMsgs \in Nat
      /\ Len(delivered) \in Nat /\ Len(rbuf) \in Nat /\ Len(wire) \in Nat
  BY <1>2, Shapes, Numbers
<1>4. /\ id \in 1..MaxMsgs /\ fd \in {NoFd, id} /\ fd \in 0..MaxMsgs
  BY <1>1, <1>3 DEF NoFd
<1>5. /\ \A k \in 0..N : EndOf(c, k) \in Nat
      /\ \A j, k \in 0..N : j <= k => EndOf(c, j) <= EndOf(c, k)
  BY <1>2, Ends
<1>6. End(N) = EndOf(c, N) /\ EndOf(c, N) \in Nat
  BY <1>3, <1>5 DEF End, EndOf
<1> HIDE DEF id, fd
<1>7. /\ msg \in Composed /\ buf \in Buffers
  BY <1>4, <1>6 DEF Composed, Buffers
<1>8. /\ msg.at = EndOf(c, N) /\ msg.len = len /\ msg.fd = fd
      /\ buf.id = id /\ buf.rpos = 0 /\ buf.wpos = len /\ buf.fd = fd
  BY <1>6
<1> HIDE DEF msg, buf
<1>9. /\ d \in Seq(Composed) /\ Len(d) = N + 1 /\ d[N + 1] = msg
      /\ \A i \in 1..N : d[i] = c[i]
  BY <1>1, <1>2, <1>7, Added
<1>10. /\ bufs' \in Seq(Buffers) /\ Len(bufs') = M + 1 /\ bufs'[M + 1] = buf
       /\ \A i \in 1..M : bufs'[i] = bufs[i]
  BY <1>1, <1>2, <1>7, Added
<1>11. ImsgTypes'
  <2>1. Len(d) <= MaxMsgs
    BY <1>1, <1>3, <1>9
  <2> QED
    BY <1>1, <1>2, <1>9, <1>10, <2>1 DEF ImsgTypes
<1>12. N = Len(c) /\ M = Len(bufs)
  OBVIOUS
<1> HIDE DEF N, M
<1>13. ASSUME NEW k \in 0..N PROVE EndOf(d, k) = EndOf(c, k)
  <2>1. CASE k = 0
    BY <2>1 DEF EndOf
  <2>2. CASE k \in 1..N
    BY <1>3, <1>9, <2>2 DEF EndOf
  <2> QED
    BY <1>3, <2>1, <2>2
<1>14. EndOf(d, N + 1) = EndOf(c, N) + len
  BY <1>3, <1>8, <1>9 DEF EndOf
<1>15. Chained(d)
  <2>1. ASSUME NEW i \in 1..(N + 1)
        PROVE  d[i].at = EndOf(d, i - 1) /\ d[i].len <= MaxImsgSize /\ d[i].fd \in {NoFd, i}
    <3>1. CASE i \in 1..N
      <4>1. i - 1 \in 0..N
        BY <1>3, <3>1
      <4> QED
        BY <1>2, <1>9, <1>12, <1>13, <3>1, <4>1 DEF Chained
    <3>2. CASE i = N + 1
      <4>1. i - 1 = N /\ N \in 0..N
        BY <1>3, <3>2
      <4> QED
        BY <1>1, <1>4, <1>8, <1>9, <1>13, <3>2, <4>1 DEF id
    <3> QED
      BY <1>3, <3>1, <3>2
  <2>2. ASSUME NEW i \in 1..(N + 1), NEW j \in 1..(N + 1), i < j
        PROVE  EndOf(d, i) <= d[j].at
    <3>0. i \in 1..N /\ i \in 0..N
      BY <1>3, <2>2
    <3>1. CASE j \in 1..N
      BY <1>2, <1>9, <1>12, <1>13, <2>2, <3>0, <3>1 DEF Chained
    <3>2. CASE j = N + 1
      <4>1. N \in 0..N /\ i <= N
        BY <1>3, <3>0
      <4> QED
        BY <1>5, <1>8, <1>9, <1>13, <3>0, <3>2, <4>1
    <3> QED
      BY <1>3, <3>1, <3>2
  <2> QED
    BY <1>9, <2>1, <2>2 DEF Chained
<1>16. /\ Whole' = Whole /\ Whole = N - M /\ Whole \in 0..N /\ Len(delivered) <= Whole
       /\ Len(delivered) \in 0..N
  <2>1. Whole = N - M /\ Len(delivered) <= Whole /\ Whole <= N
    BY <1>1, <1>2, <1>12 DEF Whole, WholeInv
  <2>2. Whole' = (N + 1) - (M + 1)
    BY <1>1, <1>9, <1>10 DEF Whole
  <2> QED
    BY <1>3, <2>1, <2>2
<1>17. Base' = Base /\ SentTo' = SentTo /\ SentTo \in Nat
  <2>1. Base' = Base /\ Base \in Nat
    BY <1>1, <1>5, <1>13, <1>16 DEF Base
  <2> QED
    BY <1>1, <1>3, <2>1 DEF SentTo
<1>18. WholeInv'
  <2>1. Len(delivered') <= Whole' /\ Whole' <= Len(d)
    BY <1>1, <1>3, <1>9, <1>16
  <2>2. EndOf(d, Whole') <= SentTo'
    BY <1>2, <1>13, <1>16, <1>17 DEF WholeInv
  <2>3. SentTo' < EndOf(d, Whole' + 1)
    <3>1. CASE Whole < N
      <4>1. Whole + 1 \in 0..N
        BY <1>3, <1>16, <3>1
      <4> QED
        BY <1>2, <1>12, <1>13, <1>16, <1>17, <3>1, <4>1 DEF WholeInv
    <3>2. CASE Whole = N
      <4>1. bufs = << >>
        BY <1>2, <1>3, <1>12, <1>16, <3>2, EmptySeq
      <4>2. SentTo = EndOf(c, N)
        BY <1>1, <1>2, <3>2, <4>1 DEF BufsInv
      <4> QED
        BY <1>3, <1>6, <1>14, <1>16, <1>17, <3>2, <4>2
    <3> QED
      BY <1>3, <1>16, <3>1, <3>2
  <2> QED
    BY <2>1, <2>2, <2>3 DEF WholeInv
<1>19. BufsInv'
  <2>1. ASSUME NEW i \in 1..(M + 1)
        PROVE  /\ bufs'[i].id = Whole + i /\ bufs'[i].wpos = d[Whole + i].len
               /\ i > 1 => bufs'[i].rpos = 0
               /\ bufs'[i].fd \in {NoFd, d[Whole + i].fd}
               /\ bufs'[i].rpos > 0 => bufs'[i].fd = NoFd
    <3>1. CASE i \in 1..M
      <4>1. Whole + i \in 1..N
        BY <1>3, <1>16, <3>1
      <4>2. bufs'[i] = bufs[i] /\ d[Whole + i] = c[Whole + i]
        BY <1>9, <1>10, <3>1, <4>1
      <4> QED
        BY <1>2, <1>12, <3>1, <4>2 DEF BufsInv
    <3>2. CASE i = M + 1
      <4>1. Whole + i = N + 1
        BY <1>3, <1>16, <3>2
      <4>2. bufs'[i] = buf /\ d[Whole + i] = msg
        BY <1>9, <1>10, <3>2, <4>1
      <4> QED
        BY <1>4, <1>8, <4>1, <4>2 DEF id
    <3> QED
      BY <1>3, <3>1, <3>2
  <2>2. SentTo = EndOf(d, Whole) + bufs'[1].rpos
    <3>1. CASE bufs = << >>
      <4>1. M = 0 /\ bufs'[1] = buf
        BY <1>10, <1>12, <3>1, EmptySeq
      <4>2. SentTo = EndOf(c, Whole) /\ EndOf(c, Whole) \in Nat
        BY <1>1, <1>2, <1>5, <1>16, <3>1 DEF BufsInv
      <4> QED
        BY <1>8, <1>13, <1>16, <4>1, <4>2
    <3>2. CASE bufs # << >>
      <4>1. 1 \in 1..M
        BY <1>2, <1>3, <1>12, <3>2, EmptySeq
      <4> QED
        BY <1>2, <1>10, <1>13, <1>16, <3>2, <4>1 DEF BufsInv
    <3> QED
      BY <3>1, <3>2
  <2>3. bufs' # << >>
    BY <1>3, <1>10, EmptySeq
  <2> QED
    BY <1>1, <1>10, <1>16, <1>17, <2>1, <2>2, <2>3 DEF BufsInv
<1>20. ASSUME NEW x, NEW q, IsByte(c, x, q) PROVE IsByte(d, x, q)
  <2>1. x.id \in 1..N /\ d[x.id] = c[x.id]
    BY <1>9, <1>12, <1>20 DEF IsByte
  <2>2. x.id \in 1..(N + 1)
    BY <1>3, <2>1
  <2> QED
    BY <1>9, <1>20, <2>1, <2>2 DEF IsByte
<1>21. StreamInv'
  <2>1. /\ \A i \in 1..Len(rbuf') : IsByte(d, rbuf'[i], Base' + i)
        /\ \A i \in 1..Len(wire') : IsByte(d, wire'[i].byte, Base' + Len(rbuf') + i)
    BY <1>1, <1>2, <1>17, <1>20 DEF StreamInv
  <2>2. ~reading => ~Complete'
    <3>1. CASE Len(rbuf) >= HeaderSize
      <4>1. 1 \in 1..Len(rbuf)
        BY <1>3, <3>1, Numbers
      <4>2. rbuf[1].id \in 1..N
        BY <1>2, <1>12, <4>1 DEF StreamInv, IsByte
      <4> QED
        BY <1>1, <1>2, <1>9, <4>2 DEF StreamInv, Complete, Hdr
    <3>2. CASE ~(Len(rbuf) >= HeaderSize)
      BY <1>1, <3>2 DEF Complete
    <3> QED
      BY <3>1, <3>2
  <2>3. \A i \in 1..Len(delivered') : delivered'[i] = [id |-> i, fd |-> d[i].fd]
    <3>1. \A i \in 1..Len(delivered) : i \in 1..N
      BY <1>3, <1>16
    <3> QED
      BY <1>1, <1>2, <1>9, <3>1 DEF StreamInv
  <2> QED
    BY <1>1, <2>1, <2>2, <2>3 DEF StreamInv
<1>22. /\ \A e : Due(c, Len(delivered), e) => e \in 1..N /\ Due(d, Len(delivered), e)
       /\ \A e \in 1..N : Due(d, Len(delivered), e) => Due(c, Len(delivered), e)
  <2>1. \A e : e \in (Len(delivered) + 1)..N => e \in 1..N /\ e \in (Len(delivered) + 1)..(N + 1)
    BY <1>3
  <2>2. \A e \in 1..N : e \in (Len(delivered) + 1)..(N + 1) => e \in (Len(delivered) + 1)..N
    BY <1>3
  <2> QED
    BY <1>9, <1>12, <2>1, <2>2 DEF Due
<1>23. FdsInv'
  <2>1. /\ \A i \in 1..Len(fds') : Due(d, Len(delivered'), fds'[i])
        /\ \A i \in 1..Len(fds'), j \in 1..Len(fds') : i < j => fds'[i] < fds'[j]
    BY <1>1, <1>2, <1>22 DEF FdsInv
  <2>2. ASSUME NEW i \in 1..Len(wire), wire[i].fd # NoFd
        PROVE  /\ Due(d, Len(delivered), wire[i].fd)
               /\ \A k \in 1..Len(fds) : fds[k] < wire[i].fd
               /\ Base' + Len(rbuf) + i <= d[wire[i].fd].at + 1
    <3>1. /\ Due(c, Len(delivered), wire[i].fd)
          /\ \A k \in 1..Len(fds) : fds[k] < wire[i].fd
          /\ Base + Len(rbuf) + i <= c[wire[i].fd].at + 1
      BY <1>2, <2>2 DEF FdsInv
    <3> QED
      BY <1>9, <1>17, <1>22, <3>1
  <2>3. \A i \in 1..Len(wire'), j \in 1..Len(wire') :
          i < j /\ wire'[i].fd # NoFd /\ wire'[j].fd # NoFd => wire'[i].fd < wire'[j].fd
    BY <1>1, <1>2 DEF FdsInv
  <2>4. ASSUME NEW i \in 1..(M + 1), bufs'[i].fd # NoFd
        PROVE  /\ \A k \in 1..Len(fds) : fds[k] < bufs'[i].fd
               /\ \A k \in 1..Len(wire) : wire[k].fd < bufs'[i].fd
    <3>1. CASE i \in 1..M
      BY <1>2, <1>10, <1>12, <2>4, <3>1 DEF FdsInv
    <3>2. CASE i = M + 1
      <4>1. bufs'[i].fd = N + 1
        BY <1>4, <1>8, <1>10, <2>4, <3>2 DEF id
      <4>2. ASSUME NEW k \in 1..Len(fds) PROVE fds[k] \in 1..N
        BY <1>2, <1>22 DEF FdsInv
      <4>3. ASSUME NEW k \in 1..Len(wire) PROVE wire[k].fd = 0 \/ wire[k].fd \in 1..N
        BY <1>2, <1>22 DEF FdsInv, NoFd
      <4> QED
        BY <1>3, <4>1, <4>2, <4>3
    <3> QED
      BY <1>3, <3>1, <3>2
  <2> QED
    BY <1>1, <1>10, <2>1, <2>2, <2>3, <2>4 DEF FdsInv
<1>24. FoundInv'
  <2>1. ASSUME NEW e \in 1..(N + 1), Due(d, Len(delivered), e) PROVE Found(e)'
    <3>1. CASE e \in 1..N
      <4>1. \/ \E k \in 1..Len(fds) : fds[k] = e
            \/ \E k \in 1..Len(wire) : wire[k].fd = e
            \/ \E k \in 1..M : bufs[k].fd = e
        BY <1>1, <1>2, <1>12, <1>22, <2>1, <3>1 DEF FoundInv, Found
      <4>2. ASSUME NEW k \in 1..M PROVE k \in 1..(M + 1) /\ bufs'[k] = bufs[k]
        BY <1>3, <1>10
      <4> QED
        BY <1>1, <1>10, <4>1, <4>2 DEF Found
    <3>2. CASE e = N + 1
      <4>1. d[e].fd # NoFd
        BY <2>1 DEF Due
      <4>2. bufs'[M + 1].fd = e /\ M + 1 \in 1..(M + 1)
        BY <1>3, <1>4, <1>8, <1>9, <1>10, <3>2, <4>1 DEF id
      <4> QED
        BY <1>10, <4>2 DEF Found
    <3> QED
      BY <1>3, <3>1, <3>2
  <2> QED
    BY <1>1, <1>9, <2>1 DEF FoundInv
<1> QED
  BY <1>11, <1>15, <1>18, <1>19, <1>21, <1>23, <1>24 DEF ImsgInv

\* What the invariant says of the numbers of messages and of the ends in the stream.
LEMMA Positions ==
    ASSUME ImsgInv
    PROVE  /\ Len(delivered) \in Nat /\ Whole \in Nat /\ Len(composed) \in Nat
           /\ Len(delivered) <= Whole /\ Whole <= Len(composed)
           /\ Base \in Nat /\ SentTo \in Nat
           /\ Len(rbuf) \in Nat /\ Len(wire) \in Nat /\ Len(bufs) \in Nat /\ Len(fds) \in Nat
           /\ open => Whole + Len(bufs) = Len(composed)
<1>1. /\ ImsgTypes /\ Chained(composed) /\ WholeInv /\ composed \in Seq(Composed)
      /\ limit \in 0..MaxMsgs
  BY DEF ImsgInv, ImsgTypes
<1>2. /\ Len(delivered) \in Nat /\ Len(composed) \in Nat /\ Len(bufs) \in Nat
      /\ Len(rbuf) \in Nat /\ Len(wire) \in Nat /\ Len(fds) \in Nat
  BY <1>1, Shapes
<1>3. Len(delivered) <= Whole /\ Whole <= Len(composed)
  BY <1>1 DEF WholeInv
<1>4. Whole \in Nat /\ (open => Whole + Len(bufs) = Len(composed))
  <2>1. CASE open
    BY <1>2, <1>3, <2>1 DEF Whole
  <2>2. CASE ~open
    BY <1>1, <2>2, Numbers DEF Whole
  <2> QED
    BY <2>1, <2>2
<1>5. Len(delivered) \in 0..Len(composed)
  BY <1>2, <1>3, <1>4
<1>6. Base \in Nat
  BY <1>1, <1>5, Ends DEF Base
<1>7. SentTo \in Nat
  BY <1>2, <1>6 DEF SentTo
<1> QED
  BY <1>2, <1>3, <1>4, <1>6, <1>7

\* The loop over imsg_get ends.
LEMMA GetNoneKeeps ==
    ASSUME ImsgInv, imsg_get_none
    PROVE  ImsgInv'
<1>1. /\ composed' = composed /\ bufs' = bufs /\ wire' = wire /\ rbuf' = rbuf /\ fds' = fds
      /\ delivered' = delivered /\ open' = open /\ limit' = limit
      /\ reading /\ reading' = FALSE /\ ~Complete
  BY DEF imsg_get_none
<1>2. /\ ImsgTypes /\ Chained(composed) /\ WholeInv /\ BufsInv /\ StreamInv /\ FdsInv /\ FoundInv
  BY DEF ImsgInv
<1>3. Whole' = Whole /\ Base' = Base /\ SentTo' = SentTo
  BY <1>1 DEF Whole, Base, SentTo
<1>4. ImsgTypes'
  BY <1>1, <1>2 DEF ImsgTypes
<1>5. Chained(composed)' /\ WholeInv' /\ BufsInv' /\ FdsInv'
  BY <1>1, <1>2, <1>3 DEF WholeInv, BufsInv, FdsInv
<1>6. StreamInv'
  BY <1>1, <1>2, <1>3 DEF StreamInv, Complete, Hdr
<1>7. FoundInv'
  BY <1>1, <1>2, <1>3 DEF FoundInv, Found
<1> QED
  BY <1>4, <1>5, <1>6, <1>7 DEF ImsgInv

\* imsg_clear closes the descriptors in the queue.
LEMMA ImsgClearKeeps ==
    ASSUME ImsgInv, imsg_clear
    PROVE  ImsgInv'
<1>1. /\ composed' = composed /\ bufs' = bufs /\ wire' = wire /\ rbuf' = rbuf /\ fds' = << >>
      /\ delivered' = delivered /\ open' = open /\ limit' = limit
      /\ reading' = reading /\ ~open /\ ~reading /\ wire = << >>
  BY DEF imsg_clear
<1>2. /\ ImsgTypes /\ Chained(composed) /\ WholeInv /\ BufsInv /\ StreamInv /\ FdsInv /\ FoundInv
  BY DEF ImsgInv
<1>3. Whole' = Whole /\ Base' = Base /\ SentTo' = SentTo
  BY <1>1 DEF Whole, Base, SentTo
<1>4. fds' \in Seq(1..MaxMsgs) /\ 1..Len(fds') = {}
  BY <1>1
<1>5. ImsgTypes'
  BY <1>1, <1>2, <1>4 DEF ImsgTypes
<1>6. Chained(composed)' /\ WholeInv' /\ BufsInv'
  BY <1>1, <1>2, <1>3 DEF WholeInv, BufsInv
<1>7. StreamInv'
  BY <1>1, <1>2, <1>3 DEF StreamInv, Complete, Hdr
<1>8. FdsInv'
  BY <1>1, <1>2, <1>3, <1>4 DEF FdsInv
<1>9. FoundInv'
  BY <1>1 DEF FoundInv, Found
<1> QED
  BY <1>5, <1>6, <1>7, <1>8, <1>9 DEF ImsgInv

\* msgbuf_clear drops what is queued: the messages completely written stay.
LEMMA MsgbufClearKeeps ==
    ASSUME ImsgInv, msgbuf_clear
    PROVE  ImsgInv'
<1>1. /\ composed' = composed /\ bufs' = << >> /\ wire' = wire /\ rbuf' = rbuf /\ fds' = fds
      /\ delivered' = delivered /\ open /\ open' = FALSE /\ limit' = Len(composed) - Len(bufs)
      /\ reading' = reading
  BY DEF msgbuf_clear
<1>2. /\ ImsgTypes /\ Chained(composed) /\ WholeInv /\ BufsInv /\ StreamInv /\ FdsInv /\ FoundInv
      /\ composed \in Seq(Composed) /\ Len(composed) <= MaxMsgs
  BY DEF ImsgInv, ImsgTypes
<1>3. Whole' = Whole /\ Base' = Base /\ SentTo' = SentTo /\ limit' = Whole
  BY <1>1 DEF Whole, Base, SentTo
<1>4. /\ Whole \in Nat /\ Whole <= Len(composed) /\ Len(composed) \in Nat
      /\ Len(bufs) \in Nat /\ Whole + Len(bufs) = Len(composed) /\ SentTo \in Nat
  BY <1>1, Positions
<1>5. bufs' \in Seq(Buffers) /\ 1..Len(bufs') = {} /\ limit' \in 0..MaxMsgs
  BY <1>1, <1>2, <1>3, <1>4, Numbers
<1>6. ImsgTypes'
  BY <1>1, <1>2, <1>5 DEF ImsgTypes
<1>7. Chained(composed)' /\ WholeInv'
  BY <1>1, <1>2, <1>3 DEF WholeInv
<1>8. BufsInv'
  BY <1>1, <1>5 DEF BufsInv
<1>9. StreamInv'
  BY <1>1, <1>2, <1>3 DEF StreamInv, Complete, Hdr
<1>10. FdsInv'
  BY <1>1, <1>2, <1>3, <1>5 DEF FdsInv
<1>11. ASSUME NEW k \in 1..Len(bufs), bufs[k].fd # NoFd
       PROVE  composed[bufs[k].fd].at >= SentTo
  <2>1. /\ bufs[k].fd = composed[Whole + k].fd /\ Whole + k \in 1..Len(composed)
        /\ ~(bufs[k].rpos > 0) /\ bufs[k].rpos \in Nat
    <3>1. Whole + k \in 1..Len(composed)
      BY <1>4
    <3>2. bufs[k].rpos \in Nat
      BY <1>2, Shapes DEF Buffers
    <3> QED
      BY <1>2, <1>11, <3>1, <3>2 DEF BufsInv
  <2>2. bufs[k].fd = Whole + k
    BY <1>2, <1>11, <2>1 DEF Chained
  <2>3. CASE k = 1
    <3>1. /\ composed[Whole + 1].at = EndOf(composed, (Whole + 1) - 1) /\ (Whole + 1) - 1 = Whole
          /\ EndOf(composed, Whole) \in Nat
      BY <1>2, <1>4, <2>1, <2>3, Ends
    <3>2. SentTo = EndOf(composed, Whole) + bufs[1].rpos
      BY <1>2, <1>4, <2>3, EmptySeq DEF BufsInv
    <3> QED
      BY <2>1, <2>2, <2>3, <3>1, <3>2
  <2>4. CASE k > 1
    <3>1. Whole + 1 \in 1..Len(composed) /\ Whole + 1 < Whole + k /\ Whole < Len(composed)
      BY <1>4, <2>4
    <3>2. EndOf(composed, Whole + 1) <= composed[Whole + k].at
      BY <1>2, <2>1, <3>1 DEF Chained
    <3>3. SentTo < EndOf(composed, Whole + 1) /\ EndOf(composed, Whole + 1) \in Nat
      BY <1>2, <1>4, <3>1, Ends DEF WholeInv
    <3>4. composed[Whole + k].at \in Nat
      BY <1>2, <2>1, Shapes DEF Composed
    <3> QED
      BY <1>4, <2>2, <3>2, <3>3, <3>4
  <2> QED
    BY <1>4, <2>3, <2>4
<1>12. FoundInv'
  <2>1. ASSUME NEW e \in 1..Len(composed), Due(composed, Len(delivered), e) PROVE Found(e)'
    <3>1. Found(e) /\ e # NoFd
      BY <1>2, <1>4, <2>1 DEF FoundInv, NoFd
    <3> QED
      BY <1>1, <1>3, <1>11, <3>1 DEF Found
  <2> QED
    BY <1>1, <2>1 DEF FoundInv
<1> QED
  BY <1>6, <1>7, <1>8, <1>9, <1>10, <1>12 DEF ImsgInv

\* What is left of a queue behind its first n elements.
LEMMA Rest ==
    ASSUME NEW S, NEW s \in Seq(S), NEW n \in 0..Len(s)
    PROVE  /\ SubSeq(s, n + 1, Len(s)) \in Seq(S)
           /\ Len(SubSeq(s, n + 1, Len(s))) = Len(s) - n
           /\ \A i \in 1..(Len(s) - n) : /\ SubSeq(s, n + 1, Len(s))[i] = s[n + i]
                                        /\ n + i \in 1..Len(s)
<1>1. Len(s) \in Nat /\ n \in Nat
  OBVIOUS
<1>2. \A i \in (n + 1)..Len(s) : s[i] \in S
  BY <1>1, ElementOfSeq
<1>3. /\ SubSeq(s, n + 1, Len(s)) \in Seq(S)
      /\ Len(SubSeq(s, n + 1, Len(s))) = IF n + 1 <= Len(s) THEN Len(s) - (n + 1) + 1 ELSE 0
      /\ \A i \in 1..(Len(s) - (n + 1) + 1) : SubSeq(s, n + 1, Len(s))[i] = s[(n + 1) + i - 1]
  BY <1>1, <1>2, SubSeqProperties
<1> QED
  BY <1>1, <1>3

\* The first n elements of a queue.
LEMMA First ==
    ASSUME NEW S, NEW s \in Seq(S), NEW n \in 0..Len(s)
    PROVE  /\ DOMAIN SubSeq(s, 1, n) = 1..n
           /\ \A i \in 1..n : SubSeq(s, 1, n)[i] = s[i] /\ i \in 1..Len(s)
<1>1. Len(s) \in Nat /\ n \in Nat
  OBVIOUS
<1>2. \A i \in 1..n : s[i] \in S
  BY <1>1, ElementOfSeq
<1>3. /\ SubSeq(s, 1, n) \in Seq(S)
      /\ Len(SubSeq(s, 1, n)) = IF 1 <= n THEN n - 1 + 1 ELSE 0
      /\ \A i \in 1..(n - 1 + 1) : SubSeq(s, 1, n)[i] = s[1 + i - 1]
  BY <1>1, <1>2, SubSeqProperties
<1>4. Len(SubSeq(s, 1, n)) = n
  BY <1>1, <1>3
<1> QED
  BY <1>1, <1>3, <1>4, LenProperties

\* What is written behind the n first elements of a queue.
LEMMA Joined ==
    ASSUME NEW S, NEW s \in Seq(S), NEW n \in Nat, NEW f \in [1..n -> S]
    PROVE  /\ s \o f \in Seq(S) /\ Len(s \o f) = Len(s) + n
           /\ \A i \in 1..Len(s) : (s \o f)[i] = s[i]
           /\ \A i \in 1..n : (s \o f)[Len(s) + i] = f[i]
<1>1. f \in Seq(S) /\ Len(f) = n /\ Len(s) \in Nat
  OBVIOUS
<1>2. /\ s \o f \in Seq(S)
      /\ Len(s \o f) = Len(s) + Len(f)
      /\ \A i \in 1..(Len(s) + Len(f)) : (s \o f)[i] =
                     IF i <= Len(s) THEN s[i] ELSE f[i - Len(s)]
  BY <1>1, ConcatProperties
<1>3. \A i \in 1..Len(s) : i \in 1..(Len(s) + n) /\ i <= Len(s)
  BY <1>1
<1>4. \A i \in 1..n : Len(s) + i \in 1..(Len(s) + n) /\ ~(Len(s) + i <= Len(s)) /\ (Len(s) + i) - Len(s) = i
  BY <1>1
<1> QED
  BY <1>1, <1>2, <1>3, <1>4

\* What recvmsg moves: n bytes, and the descriptor beside one of them if there
\* is one.
ReadMoves(n) ==
    /\ rbuf' \in Seq(Bytes) /\ Len(rbuf') = Len(rbuf) + n
    /\ \A i \in 1..Len(rbuf) : rbuf'[i] = rbuf[i]
    /\ \A i \in 1..n : rbuf'[Len(rbuf) + i] = wire[i].byte /\ i \in 1..Len(wire)
    /\ wire' \in Seq(WireBytes) /\ Len(wire') = Len(wire) - n
    /\ \A i \in 1..(Len(wire) - n) : wire'[i] = wire[n + i] /\ n + i \in 1..Len(wire)
    /\ fds' \in Seq(1..MaxMsgs)
    /\ \A i \in 1..Len(fds) : fds'[i] = fds[i]
    /\ \/ Len(fds') = Len(fds) /\ \A i \in 1..n : wire[i].fd = NoFd
       \/ \E m \in 1..n : /\ Len(fds') = Len(fds) + 1 /\ fds'[Len(fds) + 1] = wire[m].fd
                          /\ wire[m].fd # NoFd
                          /\ \A i \in 1..n : wire[i].fd # NoFd => i = m

\* imsg_read moves what recvmsg returns.
LEMMA ReadStep ==
    ASSUME ImsgInv, NEW n \in 1..ReadSize, imsg_read(n)
    PROVE  ReadMoves(n) /\ n \in Nat /\ n <= Len(wire)
<1> DEFINE got == SubSeq(wire, 1, n)
           f == [i \in 1..n |-> got[i].byte]
<1>1. /\ n \in 1..Len(wire) /\ \A i, j \in FdsOf(got) : i = j
      /\ rbuf' = rbuf \o f
      /\ fds' = IF FdsOf(got) = {} THEN fds ELSE Append(fds, got[Min(FdsOf(got))].fd)
      /\ wire' = SubSeq(wire, n + 1, Len(wire))
  BY DEF imsg_read
<1>2. /\ wire \in Seq(WireBytes) /\ rbuf \in Seq(Bytes) /\ fds \in Seq(1..MaxMsgs)
      /\ ImsgTypes
  BY DEF ImsgInv, ImsgTypes
<1>3. n \in 0..Len(wire) /\ n \in Nat /\ Len(wire) \in Nat /\ n <= Len(wire) /\ Len(fds) \in Nat
  BY <1>1, Positions
<1>4. DOMAIN got = 1..n /\ \A i \in 1..n : got[i] = wire[i] /\ i \in 1..Len(wire)
  BY <1>2, <1>3, First
<1> HIDE DEF got
<1>5. /\ wire' \in Seq(WireBytes) /\ Len(wire') = Len(wire) - n
      /\ \A i \in 1..(Len(wire) - n) : wire'[i] = wire[n + i] /\ n + i \in 1..Len(wire)
  BY <1>1, <1>2, <1>3, Rest
<1>6. \A i \in 1..n : got[i] = wire[i] /\ wire[i].byte \in Bytes /\ wire[i].fd \in 0..MaxMsgs
  <2>1. \A i \in 1..n : wire[i] \in WireBytes
    BY <1>2, <1>4, Shapes
  <2> QED
    BY <1>4, <2>1 DEF WireBytes
<1>7. f \in [1..n -> Bytes] /\ \A i \in 1..n : f[i] = wire[i].byte
  BY <1>6
<1> HIDE DEF f
<1>8. /\ rbuf' \in Seq(Bytes) /\ Len(rbuf') = Len(rbuf) + n
      /\ \A i \in 1..Len(rbuf) : rbuf'[i] = rbuf[i]
      /\ \A i \in 1..n : rbuf'[Len(rbuf) + i] = wire[i].byte
  <2>1. /\ rbuf \o f \in Seq(Bytes) /\ Len(rbuf \o f) = Len(rbuf) + n
        /\ \A i \in 1..Len(rbuf) : (rbuf \o f)[i] = rbuf[i]
        /\ \A i \in 1..n : (rbuf \o f)[Len(rbuf) + i] = f[i]
    <3>1. rbuf \in Seq(Bytes) /\ n \in Nat /\ f \in [1..n -> Bytes]
      BY <1>2, <1>3, <1>7
    <3> QED
      BY ONLY <3>1, Joined
  <2>2. rbuf' = rbuf \o f
    BY <1>1
  <2> QED
    BY <1>7, <2>1, <2>2
<1>9. FdsOf(got) = {i \in 1..n : wire[i].fd # NoFd}
  BY <1>4 DEF FdsOf
<1>10. /\ fds' \in Seq(1..MaxMsgs)
       /\ \A i \in 1..Len(fds) : fds'[i] = fds[i]
       /\ \/ Len(fds') = Len(fds) /\ \A i \in 1..n : wire[i].fd = NoFd
          \/ \E m \in 1..n : /\ Len(fds') = Len(fds) + 1 /\ fds'[Len(fds) + 1] = wire[m].fd
                             /\ wire[m].fd # NoFd
                             /\ \A i \in 1..n : wire[i].fd # NoFd => i = m
  <2>1. CASE FdsOf(got) = {}
    BY <1>1, <1>2, <1>9, <2>1
  <2>2. CASE FdsOf(got) # {}
    <3>1. PICK m \in FdsOf(got) : \A i \in FdsOf(got) : i = m
      BY <1>1, <2>2
    <3>2. m \in 1..n /\ wire[m].fd # NoFd /\ m \in Nat /\ \A i \in 1..n : wire[i].fd # NoFd => i = m
      BY <1>3, <1>9, <3>1
    <3>3. FdsOf(got) = {m}
      BY <3>1
    <3>4. Min(FdsOf(got)) = m
      BY <3>2, <3>3 DEF Min
    <3>5. wire[m].fd \in 1..MaxMsgs
      BY <1>6, <3>2, Numbers DEF NoFd
    <3>6. fds' = Append(fds, wire[m].fd)
      BY <1>1, <1>6, <2>2, <3>2, <3>4
    <3>7. /\ fds' \in Seq(1..MaxMsgs) /\ Len(fds') = Len(fds) + 1
          /\ \A i \in 1..Len(fds) : fds'[i] = fds[i]
          /\ fds'[Len(fds) + 1] = wire[m].fd
      BY <1>2, <3>5, <3>6, Added
    <3> QED
      BY <3>2, <3>7
  <2> QED
    BY <2>1, <2>2
<1> QED
  BY <1>3, <1>4, <1>5, <1>8, <1>10 DEF ReadMoves

\* imsg_read keeps the invariant: the bytes it takes from the socket follow those in
\* the read buffer, and the descriptors beside them come after those queued.
LEMMA ReadKeeps ==
    ASSUME ImsgInv, NEW n \in 1..ReadSize, imsg_read(n)
    PROVE  ImsgInv'
<1> DEFINE R == Len(rbuf)
           L == Len(wire)
           F == Len(fds)
           D == Len(delivered)
<1>1. /\ composed' = composed /\ bufs' = bufs /\ delivered' = delivered /\ open' = open
      /\ limit' = limit /\ reading' = TRUE /\ ~reading
  BY DEF imsg_read
<1>2. /\ ImsgTypes /\ Chained(composed) /\ WholeInv /\ BufsInv /\ StreamInv /\ FdsInv /\ FoundInv
      /\ composed \in Seq(Composed)
  BY DEF ImsgInv, ImsgTypes
<1>3. ReadMoves(n) /\ n \in Nat /\ n <= L /\ n > 0
  BY ReadStep
<1>4. /\ R \in Nat /\ L \in Nat /\ F \in Nat /\ Base \in Nat /\ D \in Nat /\ Len(composed) \in Nat
  BY Positions
<1>5. Whole' = Whole /\ Base' = Base
  BY <1>1 DEF Whole, Base
<1>6. SentTo' = SentTo
  BY <1>3, <1>4, <1>5 DEF SentTo, ReadMoves
<1>7. ImsgTypes'
  BY <1>1, <1>2, <1>3 DEF ImsgTypes, ReadMoves
<1>8. Chained(composed)' /\ WholeInv' /\ BufsInv'
  BY <1>1, <1>2, <1>5, <1>6 DEF WholeInv, BufsInv
<1> HIDE DEF R, L, F, D
<1>9. StreamInv'
  <2>1. ASSUME NEW i \in 1..(R + n) PROVE IsByte(composed, rbuf'[i], Base + i)
    <3>1. CASE i \in 1..R
      BY <1>2, <1>3, <3>1 DEF StreamInv, ReadMoves, R
    <3>2. CASE i \in (R + 1)..(R + n)
      <4>1. PICK k \in 1..n : i = R + k
        <5>1. i - R \in 1..n /\ i = R + (i - R)
          BY <1>3, <1>4, <3>2
        <5> QED
          BY <5>1
      <4>2. Base + i = Base + R + k
        BY <1>4, <4>1
      <4> QED
        BY <1>2, <1>3, <4>1, <4>2 DEF StreamInv, ReadMoves, R
    <3> QED
      BY <1>3, <1>4, <3>1, <3>2
  <2>2. ASSUME NEW i \in 1..(L - n) PROVE IsByte(composed, wire'[i].byte, Base + (R + n) + i)
    <3>1. Base + (R + n) + i = Base + R + (n + i)
      BY <1>3, <1>4
    <3> QED
      BY <1>2, <1>3, <3>1 DEF StreamInv, ReadMoves, R, L
  <2> QED
    BY <1>1, <1>2, <1>3, <1>5, <2>1, <2>2 DEF StreamInv, ReadMoves, R, L
<1>10. ASSUME NEW m \in 1..n, wire[m].fd # NoFd
       PROVE  /\ Due(composed, D, wire[m].fd) /\ m \in 1..L
              /\ \A k \in 1..F : fds[k] < wire[m].fd
              /\ \A j \in 1..L : m < j /\ wire[j].fd # NoFd => wire[m].fd < wire[j].fd
  <2>1. m \in 1..L
    BY <1>3, <1>4
  <2> QED
    BY <1>2, <1>10, <2>1 DEF FdsInv, D, F, L
<1>11. FdsInv'
  <2>1. ASSUME NEW i \in 1..Len(fds') PROVE Due(composed, D, fds'[i])
    <3>1. CASE i \in 1..F
      BY <1>2, <1>3, <3>1 DEF FdsInv, ReadMoves, F, D
    <3>2. CASE i \notin 1..F
      <4>1. i = F + 1 /\ \E m \in 1..n : fds'[F + 1] = wire[m].fd /\ wire[m].fd # NoFd
        BY <1>3, <1>4, <3>2 DEF ReadMoves, F
      <4> QED
        BY <1>10, <4>1
    <3> QED
      BY <3>1, <3>2
  <2>2. ASSUME NEW i \in 1..Len(fds'), NEW j \in 1..Len(fds'), i < j
        PROVE  fds'[i] < fds'[j]
    <3>1. CASE j \in 1..F
      <4>1. i \in 1..F
        BY <1>4, <2>2, <3>1
      <4> QED
        BY <1>2, <1>3, <2>2, <3>1, <4>1 DEF FdsInv, ReadMoves, F
    <3>2. CASE j \notin 1..F
      <4>1. j = F + 1 /\ \E m \in 1..n : fds'[F + 1] = wire[m].fd /\ wire[m].fd # NoFd
        BY <1>3, <1>4, <3>2 DEF ReadMoves, F
      <4>2. i \in 1..F
        BY <1>4, <2>2, <4>1
      <4>3. fds'[i] = fds[i]
        BY <1>3, <4>2 DEF ReadMoves, F
      <4> QED
        BY <1>10, <4>1, <4>2, <4>3
    <3> QED
      BY <3>1, <3>2
  <2>3. ASSUME NEW i \in 1..(L - n), wire'[i].fd # NoFd
        PROVE  /\ Due(composed, D, wire'[i].fd)
               /\ \A k \in 1..Len(fds') : fds'[k] < wire'[i].fd
               /\ Base + (R + n) + i <= composed[wire'[i].fd].at + 1
    <3>1. /\ wire'[i] = wire[n + i] /\ n + i \in 1..L
          /\ Base + (R + n) + i = Base + R + (n + i)
      BY <1>3, <1>4 DEF ReadMoves, L
    <3>2. /\ Due(composed, D, wire'[i].fd)
          /\ \A k \in 1..F : fds[k] < wire'[i].fd
          /\ Base + (R + n) + i <= composed[wire'[i].fd].at + 1
      BY <1>2, <2>3, <3>1 DEF FdsInv, D, F, L, R
    <3>3. ASSUME NEW k \in 1..Len(fds') PROVE fds'[k] < wire'[i].fd
      <4>1. CASE k \in 1..F
        BY <1>3, <3>2, <4>1 DEF ReadMoves, F
      <4>2. CASE k \notin 1..F
        <5>1. k = F + 1 /\ \E m \in 1..n : fds'[F + 1] = wire[m].fd /\ wire[m].fd # NoFd
          BY <1>3, <1>4, <4>2 DEF ReadMoves, F
        <5>2. \A m \in 1..n : m < n + i
          BY <1>3, <1>4
        <5> QED
          BY <1>10, <2>3, <3>1, <5>1, <5>2
      <4> QED
        BY <4>1, <4>2
    <3> QED
      BY <3>2, <3>3
  <2>4. ASSUME NEW i \in 1..(L - n), NEW j \in 1..(L - n), i < j,
               wire'[i].fd # NoFd, wire'[j].fd # NoFd
        PROVE  wire'[i].fd < wire'[j].fd
    <3>1. /\ wire'[i] = wire[n + i] /\ n + i \in 1..L /\ wire'[j] = wire[n + j] /\ n + j \in 1..L
          /\ n + i < n + j
      BY <1>3, <1>4, <2>4 DEF ReadMoves, L
    <3> QED
      BY <1>2, <2>4, <3>1 DEF FdsInv, L
  <2>5. ASSUME NEW i \in 1..Len(bufs), bufs[i].fd # NoFd
        PROVE  /\ \A k \in 1..Len(fds') : fds'[k] < bufs[i].fd
               /\ \A k \in 1..(L - n) : wire'[k].fd < bufs[i].fd
    <3>1. /\ \A k \in 1..F : fds[k] < bufs[i].fd
          /\ \A k \in 1..L : wire[k].fd < bufs[i].fd
      BY <1>2, <2>5 DEF FdsInv, F, L
    <3>2. ASSUME NEW k \in 1..Len(fds') PROVE fds'[k] < bufs[i].fd
      <4>1. CASE k \in 1..F
        BY <1>3, <3>1, <4>1 DEF ReadMoves, F
      <4>2. CASE k \notin 1..F
        <5>1. k = F + 1 /\ \E m \in 1..n : fds'[F + 1] = wire[m].fd /\ wire[m].fd # NoFd
          BY <1>3, <1>4, <4>2 DEF ReadMoves, F
        <5> QED
          BY <1>10, <3>1, <5>1
      <4> QED
        BY <4>1, <4>2
    <3> QED
      BY <1>3, <3>1, <3>2 DEF ReadMoves, L
  <2>6. Len(wire') = L - n /\ Len(rbuf') = R + n
    BY <1>3 DEF ReadMoves, L, R
  <2> QED
    BY <1>1, <1>5, <2>1, <2>2, <2>3, <2>4, <2>5, <2>6 DEF FdsInv, D
<1>12. FoundInv'
  <2>1. ASSUME NEW e \in 1..Len(composed), Due(composed, D, e) PROVE Found(e)'
    <3>1. Found(e) /\ e # NoFd
      BY <1>2, <1>4, <2>1 DEF FoundInv, NoFd, D
    <3>2. ASSUME NEW k \in 1..F, fds[k] = e PROVE Found(e)'
      <4>0. Len(fds') = F \/ Len(fds') = F + 1
        BY <1>3 DEF ReadMoves, F
      <4>1. k \in 1..Len(fds')
        BY <1>4, <4>0
      <4>2. fds'[k] = e
        BY <1>3, <3>2 DEF ReadMoves, F
      <4> QED
        BY <4>1, <4>2 DEF Found
    <3>3. ASSUME NEW k \in 1..L, wire[k].fd = e PROVE Found(e)'
      <4>1. CASE k <= n
        <5>1. k \in 1..n
          BY <1>3, <1>4, <4>1
        <5>2. Len(fds') = F + 1 /\ fds'[F + 1] = e
          BY <1>3, <3>1, <3>3, <5>1 DEF ReadMoves, F
        <5>3. F + 1 \in 1..Len(fds')
          BY <1>4, <5>2
        <5> QED
          BY <5>2, <5>3 DEF Found
      <4>2. CASE ~(k <= n)
        <5>1. k - n \in 1..(L - n) /\ n + (k - n) = k
          BY <1>3, <1>4, <4>2
        <5>2. wire'[k - n] = wire[n + (k - n)] /\ k - n \in 1..Len(wire')
          BY <1>3, <5>1 DEF ReadMoves, L
        <5> QED
          BY <3>3, <5>1, <5>2 DEF Found
      <4> QED
        BY <4>1, <4>2
    <3>4. wire # << >>
      BY <1>2, <1>3, EmptySeq DEF L
    <3> QED
      BY <1>1, <1>6, <3>1, <3>2, <3>3, <3>4 DEF Found, F, L
  <2> QED
    BY <1>1, <2>1 DEF FoundInv, D
<1> QED
  BY <1>7, <1>8, <1>9, <1>11, <1>12 DEF ImsgInv

\* What imsg_get finds at the front of the read buffer is the next message.
FrontIs(m) ==
    /\ m \in 1..Len(composed) /\ m <= Whole
    /\ Len(rbuf) > 0 /\ rbuf[1].id = m /\ Hdr = composed[m]
    /\ composed[m].at = Base /\ composed[m].len \in 0..Len(rbuf)
    /\ EndOf(composed, m) = Base + composed[m].len

\* When the read buffer holds a complete message, it is the one after those delivered,
\* and it lies at the front: imsg_get parses a header that imsg_create wrote.
LEMMA FrontMessage ==
    ASSUME ImsgInv, Complete
    PROVE  FrontIs(Len(delivered) + 1)
<1> DEFINE D == Len(delivered)
           m == D + 1
           N == Len(composed)
           h == rbuf[1].id
<1>1. /\ ImsgTypes /\ Chained(composed) /\ WholeInv /\ StreamInv /\ composed \in Seq(Composed)
  BY DEF ImsgInv, ImsgTypes
<1>2. /\ D \in Nat /\ Whole \in Nat /\ N \in Nat /\ D <= Whole /\ Whole <= N
      /\ Base \in Nat /\ SentTo \in Nat /\ Len(rbuf) \in Nat /\ Len(wire) \in Nat
  BY Positions
<1>3. Len(rbuf) > 0 /\ 1 \in 1..Len(rbuf)
  BY <1>2, Numbers DEF Complete
<1>4. IsByte(composed, rbuf[1], Base + 1)
  BY <1>1, <1>3 DEF StreamInv
<1>5. h \in 1..N /\ rbuf[1].pos \in 1..composed[h].len /\ composed[h].at + rbuf[1].pos = Base + 1
  BY <1>4 DEF IsByte
<1>6. Base = EndOf(composed, D)
  BY DEF Base
<1> HIDE DEF D, N, h
<1>7. /\ composed[h].at = EndOf(composed, h - 1) /\ composed[h].len \in Nat
      /\ EndOf(composed, h) = EndOf(composed, h - 1) + composed[h].len
      /\ EndOf(composed, h - 1) \in Nat
  <2>1. h \in 1..Len(composed) /\ h - 1 \in 0..Len(composed)
    BY <1>2, <1>5 DEF N
  <2> QED
    BY <1>1, <2>1, Ends
<1>8. D < h
  <2> SUFFICES ASSUME h <= D PROVE FALSE
    BY <1>2, <1>5
  <2>1. h \in 0..Len(composed) /\ D \in 0..Len(composed)
    BY <1>2, <1>5 DEF N
  <2>2. EndOf(composed, h) <= EndOf(composed, D)
    BY <1>1, <2>1, Ends
  <2> QED
    BY <1>2, <1>5, <1>6, <1>7, <2>2
<1>9. m \in 1..Len(composed) /\ m - 1 = D /\ m - 1 \in 0..Len(composed) /\ m \in 0..Len(composed)
  BY <1>2, <1>5, <1>8 DEF N
<1>10. /\ composed[m].at = Base /\ composed[m].len \in Nat /\ composed[m].len > 0
       /\ EndOf(composed, m) = Base + composed[m].len
  BY <1>1, <1>6, <1>9, Ends
<1>11. h = m
  <2>1. EndOf(composed, m - 1) < Base + 1 /\ Base + 1 <= EndOf(composed, m) /\ Base + 1 \in Nat
    BY <1>2, <1>6, <1>9, <1>10
  <2> QED
    BY <1>1, <1>4, <1>9, <2>1, ByteOf DEF h
<1>12. Hdr = composed[m] /\ composed[m].len <= Len(rbuf)
  BY <1>11 DEF Hdr, Complete, h
<1>13. m <= Whole
  <2> SUFFICES ASSUME ~(m <= Whole) PROVE FALSE
    OBVIOUS
  <2>1. Whole = D /\ Whole < Len(composed) /\ Whole + 1 = m
    BY <1>2, <1>9 DEF N
  <2>2. SentTo < EndOf(composed, m)
    BY <1>1, <2>1 DEF WholeInv
  <2> QED
    BY <1>2, <1>10, <1>12, <2>2 DEF SentTo
<1>14. rbuf[1].id = m /\ composed[m].len \in 0..Len(rbuf)
  BY <1>2, <1>10, <1>11, <1>12 DEF h
<1> QED
  BY <1>3, <1>9, <1>10, <1>12, <1>13, <1>14 DEF FrontIs, D

\* Its descriptor is the first one in the queue.
LEMMA FrontDescriptor ==
    ASSUME ImsgInv, reading, NEW m, m = Len(delivered) + 1, FrontIs(m), composed[m].fd # NoFd
    PROVE  fds # << >> /\ Head(fds) = m /\ composed[m].fd = m /\ 1 \in 1..Len(fds) /\ fds[1] = m
<1>1. /\ ImsgTypes /\ Chained(composed) /\ BufsInv /\ FdsInv /\ FoundInv /\ composed \in Seq(Composed)
      /\ fds \in Seq(1..MaxMsgs)
  BY DEF ImsgInv, ImsgTypes
<1>2. /\ Len(delivered) \in Nat /\ Whole \in Nat /\ Len(composed) \in Nat
      /\ Base \in Nat /\ Len(rbuf) \in Nat /\ Len(wire) \in Nat /\ Len(bufs) \in Nat
      /\ Len(fds) \in Nat
      /\ open => Whole + Len(bufs) = Len(composed)
  BY Positions
<1>3. /\ m \in 1..Len(composed) /\ m <= Whole /\ Len(rbuf) > 0 /\ composed[m].at = Base
  BY DEF FrontIs
<1>4. composed[m].fd = m
  BY <1>1, <1>3 DEF Chained
<1>5. Due(composed, Len(delivered), m)
  BY <1>2, <1>3 DEF Due
<1>6. Found(m)
  BY <1>1, <1>3, <1>5 DEF FoundInv
<1>7. ASSUME NEW k \in 1..Len(wire), wire[k].fd = m PROVE FALSE
  <2>1. Base + Len(rbuf) + k <= composed[m].at + 1
    <3>1. wire[k].fd # NoFd
      BY <1>3, <1>7, <1>2 DEF NoFd
    <3> QED
      BY <1>1, <1>7, <3>1 DEF FdsInv
  <2> QED
    BY <1>2, <1>3, <2>1
<1>8. ASSUME NEW k \in 1..Len(bufs), bufs[k].fd = m PROVE FALSE
  <2>0. open
    BY <1>1, <1>2, EmptySeq DEF BufsInv
  <2>1. Whole + k \in 1..Len(composed) /\ Whole + k # m /\ m # NoFd
    BY <1>2, <1>3, <2>0 DEF NoFd
  <2>2. bufs[k].fd = composed[Whole + k].fd
    BY <1>1, <1>8, <2>1 DEF BufsInv
  <2> QED
    BY <1>1, <1>8, <2>1, <2>2 DEF Chained
<1>9. SentTo > composed[m].at
  BY <1>2, <1>3 DEF SentTo
<1>10. ~(composed[m].at >= SentTo)
  BY <1>2, <1>3, <1>9 DEF SentTo
<1>11. PICK k \in 1..Len(fds) : fds[k] = m
  BY <1>6, <1>7, <1>8, <1>10 DEF Found
<1>12. 1 \in 1..Len(fds) /\ fds # << >>
  BY <1>1, <1>2, <1>11, EmptySeq
<1>13. fds[1] \in (Len(delivered) + 1)..Len(composed)
  BY <1>1, <1>12 DEF FdsInv, Due
<1>14. k = 1
  <2> SUFFICES ASSUME 1 < k PROVE FALSE
    BY <1>2, <1>11
  <2>1. fds[1] < fds[k]
    BY <1>1, <1>11, <1>12 DEF FdsInv
  <2> QED
    BY <1>2, <1>11, <1>13, <2>1
<1>15. Head(fds) = fds[1]
  BY <1>1, <1>12
<1> QED
  BY <1>4, <1>11, <1>12, <1>14, <1>15

\* What imsg_get takes out of the read buffer and the queue of descriptors.
GetMoves(m) ==
    /\ delivered' = Append(delivered, [id |-> m, fd |-> composed[m].fd])
    /\ delivered' \in Seq(Returned) /\ Len(delivered') = m
    /\ \A i \in 1..(m - 1) : delivered'[i] = delivered[i]
    /\ delivered'[m] = [id |-> m, fd |-> composed[m].fd]
    /\ rbuf' \in Seq(Bytes) /\ Len(rbuf') = Len(rbuf) - composed[m].len
    /\ \A i \in 1..(Len(rbuf) - composed[m].len) :
         rbuf'[i] = rbuf[composed[m].len + i] /\ composed[m].len + i \in 1..Len(rbuf)
    /\ fds' \in Seq(1..MaxMsgs)
    /\ \/ composed[m].fd = NoFd /\ fds' = fds
       \/ /\ composed[m].fd = m /\ Len(fds) > 0 /\ fds[1] = m /\ Len(fds') = Len(fds) - 1
          /\ \A i \in 1..(Len(fds) - 1) : fds'[i] = fds[i + 1]

\* imsg_get returns the message at the front of the read buffer with the descriptor
\* it was sent with, and moves the rest of the buffer to the front.
LEMMA GetStep ==
    ASSUME ImsgInv, imsg_get
    PROVE  FrontIs(Len(delivered) + 1) /\ GetMoves(Len(delivered) + 1)
<1>0. PICK m \in Nat : m = Len(delivered) + 1
  BY Positions
<1>1. /\ reading /\ Complete
      /\ delivered' = Append(delivered,
           [id |-> rbuf[1].id,
            fd |-> IF Hdr.fd # NoFd /\ fds # <<>> THEN Head(fds) ELSE NoFd])
      /\ fds' = IF Hdr.fd # NoFd /\ fds # <<>> THEN Tail(fds) ELSE fds
      /\ rbuf' = SubSeq(rbuf, Hdr.len + 1, Len(rbuf))
  BY DEF imsg_get
<1>2. /\ ImsgTypes /\ Chained(composed) /\ rbuf \in Seq(Bytes) /\ fds \in Seq(1..MaxMsgs)
      /\ delivered \in Seq(Returned) /\ Len(composed) <= MaxMsgs
  BY DEF ImsgInv, ImsgTypes
<1>3. FrontIs(m)
  BY <1>0, <1>1, FrontMessage
<1>4. /\ rbuf[1].id = m /\ Hdr = composed[m] /\ composed[m].len \in 0..Len(rbuf)
      /\ m \in 1..Len(composed)
  BY <1>3 DEF FrontIs
<1>5. /\ rbuf' \in Seq(Bytes) /\ Len(rbuf') = Len(rbuf) - composed[m].len
      /\ \A i \in 1..(Len(rbuf) - composed[m].len) :
           rbuf'[i] = rbuf[composed[m].len + i] /\ composed[m].len + i \in 1..Len(rbuf)
  BY <1>1, <1>2, <1>4, Rest
<1>6. composed[m].fd # NoFd =>
         fds # << >> /\ Head(fds) = m /\ composed[m].fd = m /\ 1 \in 1..Len(fds) /\ fds[1] = m
  BY <1>0, <1>1, <1>3, FrontDescriptor
<1>7. delivered' = Append(delivered, [id |-> m, fd |-> composed[m].fd])
  BY <1>1, <1>4, <1>6
<1>8. [id |-> m, fd |-> composed[m].fd] \in Returned
  <2>1. m \in 1..MaxMsgs /\ composed[m].fd \in 0..MaxMsgs
    <3>1. composed[m].fd \in 0..MaxMsgs
      BY <1>2, <1>4, Shapes DEF Composed
    <3>2. Len(composed) \in Nat
      BY Positions
    <3> QED
      BY <1>2, <1>4, <3>1, <3>2, Numbers
  <2> QED
    BY <2>1 DEF Returned
<1>9. /\ delivered' \in Seq(Returned) /\ Len(delivered') = m
      /\ \A i \in 1..(m - 1) : delivered'[i] = delivered[i]
      /\ delivered'[m] = [id |-> m, fd |-> composed[m].fd]
  <2>1. m - 1 = Len(delivered)
    BY <1>0, Positions
  <2> QED
    BY <1>0, <1>2, <1>7, <1>8, <2>1, Added
<1>10. /\ fds' \in Seq(1..MaxMsgs)
       /\ \/ composed[m].fd = NoFd /\ fds' = fds
          \/ /\ composed[m].fd = m /\ Len(fds) > 0 /\ fds[1] = m /\ Len(fds') = Len(fds) - 1
             /\ \A i \in 1..(Len(fds) - 1) : fds'[i] = fds[i + 1]
  <2>1. CASE composed[m].fd = NoFd
    BY <1>1, <1>2, <1>4, <2>1
  <2>2. CASE composed[m].fd # NoFd
    <3>1. fds' = Tail(fds) /\ fds # << >>
      BY <1>1, <1>4, <1>6, <2>2
    <3>2. /\ fds' \in Seq(1..MaxMsgs) /\ Len(fds') = Len(fds) - 1
          /\ \A i \in 1..(Len(fds) - 1) : fds'[i] = fds[i + 1]
      BY <1>2, <3>1, HeadTailProperties
    <3>3. Len(fds) > 0
      BY <1>6, <2>2, Positions
    <3> QED
      BY <1>6, <2>2, <3>2, <3>3
  <2> QED
    BY <2>1, <2>2
<1> QED
  BY <1>0, <1>3, <1>5, <1>7, <1>9, <1>10 DEF GetMoves

\* imsg_get keeps the invariant: what is left starts at the next message.
LEMMA GetKeeps ==
    ASSUME ImsgInv, imsg_get
    PROVE  ImsgInv'
<1>0. PICK m \in Nat : m = Len(delivered) + 1
  BY Positions
<1>1. /\ composed' = composed /\ bufs' = bufs /\ wire' = wire /\ reading /\ reading' = reading
      /\ open' = open /\ limit' = limit
  BY DEF imsg_get
<1>2. /\ ImsgTypes /\ Chained(composed) /\ WholeInv /\ BufsInv /\ StreamInv /\ FdsInv /\ FoundInv
      /\ composed \in Seq(Composed)
  BY DEF ImsgInv, ImsgTypes
<1>3. FrontIs(m) /\ GetMoves(m)
  BY <1>0, GetStep
<1> DEFINE l == composed[m].len
           R == Len(rbuf)
           F == Len(fds)
<1>4. /\ R \in Nat /\ Len(wire) \in Nat /\ F \in Nat /\ Base \in Nat
      /\ Len(composed) \in Nat /\ Len(delivered) \in Nat /\ Len(delivered) = m - 1
  BY <1>0, Positions
<1>5. /\ m \in 1..Len(composed) /\ m <= Whole /\ l \in 0..R /\ EndOf(composed, m) = Base + l
  BY <1>3 DEF FrontIs
<1> HIDE DEF l, R, F
<1>6. Whole' = Whole /\ Base' = Base + l
  BY <1>1, <1>3, <1>5 DEF Whole, Base, GetMoves
<1>7. Len(rbuf') = R - l
  BY <1>3 DEF GetMoves, l, R
<1>8. SentTo' = SentTo
  BY <1>1, <1>4, <1>5, <1>6, <1>7 DEF SentTo, R
<1>9. ImsgTypes'
  BY <1>1, <1>2, <1>3 DEF ImsgTypes, GetMoves
<1>10. Chained(composed)' /\ WholeInv' /\ BufsInv'
  <2>1. WholeInv'
    BY <1>1, <1>2, <1>3, <1>5, <1>6, <1>8 DEF WholeInv, GetMoves
  <2>2. BufsInv'
    BY <1>1, <1>2, <1>6, <1>8 DEF BufsInv
  <2> QED
    BY <1>1, <1>2, <2>1, <2>2
<1>11. StreamInv'
  <2>1. ASSUME NEW i \in 1..(R - l) PROVE IsByte(composed, rbuf'[i], (Base + l) + i)
    <3>1. (Base + l) + i = Base + (l + i)
      BY <1>4, <1>5
    <3> QED
      BY <1>2, <1>3, <3>1 DEF StreamInv, GetMoves, l, R
  <2>2. ASSUME NEW i \in 1..Len(wire)
        PROVE  IsByte(composed, wire[i].byte, (Base + l) + (R - l) + i)
    <3>1. (Base + l) + (R - l) + i = Base + R + i
      BY <1>4, <1>5
    <3> QED
      BY <1>2, <3>1 DEF StreamInv, R
  <2>3. ASSUME NEW i \in 1..m PROVE delivered'[i] = [id |-> i, fd |-> composed[i].fd]
    <3>1. CASE i = m
      BY <1>3, <3>1 DEF GetMoves
    <3>2. CASE i \in 1..(m - 1)
      BY <1>2, <1>3, <1>4, <3>2 DEF GetMoves, StreamInv
    <3> QED
      BY <1>0, <3>1, <3>2
  <2>4. Len(delivered') = m
    BY <1>3 DEF GetMoves
  <2> QED
    BY <1>1, <1>6, <1>7, <2>1, <2>2, <2>3, <2>4 DEF StreamInv
<1>12. ASSUME NEW e PROVE Due(composed, m, e) <=> Due(composed, m - 1, e) /\ e # m
  <2>1. e \in (m + 1)..Len(composed) <=> e \in ((m - 1) + 1)..Len(composed) /\ e # m
    BY <1>0, <1>4
  <2> QED
    BY <2>1 DEF Due
<1>13. /\ \A i \in 1..F : Due(composed, m - 1, fds[i])
       /\ \A i \in 1..F, j \in 1..F : i < j => fds[i] < fds[j]
       /\ \A i \in 1..Len(wire) : wire[i].fd # NoFd =>
            /\ Due(composed, m - 1, wire[i].fd) /\ \A k \in 1..F : fds[k] < wire[i].fd
            /\ Base + R + i <= composed[wire[i].fd].at + 1
       /\ \A i \in 1..Len(bufs) : bufs[i].fd # NoFd =>
            \A k \in 1..F : fds[k] < bufs[i].fd
  BY <1>2, <1>4 DEF FdsInv, F, R
<1>14. \A e : Due(composed, m, e) => composed[m].fd \in {NoFd, m} /\ e \in Nat
  BY <1>3, <1>4 DEF GetMoves, Due
<1>15. ASSUME NEW i \in 1..Len(fds')
       PROVE  /\ Due(composed, m, fds'[i])
              /\ \E k \in 1..F : k >= i /\ fds'[i] = fds[k] /\ (composed[m].fd # NoFd => k = i + 1)
                                /\ (composed[m].fd = NoFd => k = i)
  <2>1. CASE composed[m].fd = NoFd /\ fds' = fds
    <3>1. Due(composed, m - 1, fds[i]) /\ fds[i] # m /\ i \in 1..F /\ i >= i
      BY <1>4, <1>13, <2>1 DEF Due, F
    <3> QED
      BY <1>12, <2>1, <3>1
  <2>2. CASE /\ composed[m].fd = m /\ F > 0 /\ fds[1] = m /\ Len(fds') = F - 1
             /\ \A j \in 1..(F - 1) : fds'[j] = fds[j + 1]
    <3>1. i + 1 \in 1..F /\ 1 \in 1..F /\ 1 < i + 1 /\ i + 1 >= i /\ fds'[i] = fds[i + 1] /\ m # NoFd
      BY <1>4, <1>5, <2>2 DEF NoFd
    <3>2. fds[1] < fds[i + 1] /\ Due(composed, m - 1, fds[i + 1])
      BY <1>13, <3>1
    <3>3. fds[i + 1] # m
      BY <1>0, <2>2, <3>2
    <3> QED
      BY <1>12, <2>2, <3>1, <3>2, <3>3
  <2> QED
    BY <1>3, <2>1, <2>2 DEF GetMoves, F
<1>16. FdsInv'
  <2>1. ASSUME NEW i \in 1..Len(fds'), NEW j \in 1..Len(fds'), i < j PROVE fds'[i] < fds'[j]
    <3>1. PICK k \in 1..F : fds'[i] = fds[k] /\ (composed[m].fd # NoFd => k = i + 1)
                                /\ (composed[m].fd = NoFd => k = i)
      BY <1>15
    <3>2. PICK p \in 1..F : fds'[j] = fds[p] /\ (composed[m].fd # NoFd => p = j + 1)
                                /\ (composed[m].fd = NoFd => p = j)
      BY <1>15
    <3>3. k < p
      BY <1>4, <2>1, <3>1, <3>2
    <3> QED
      BY <1>13, <3>1, <3>2, <3>3
  <2>2. ASSUME NEW i \in 1..Len(wire), wire[i].fd # NoFd
        PROVE  /\ Due(composed, m, wire[i].fd) /\ \A k \in 1..Len(fds') : fds'[k] < wire[i].fd
               /\ (Base + l) + (R - l) + i <= composed[wire[i].fd].at + 1
    <3>1. /\ Due(composed, m - 1, wire[i].fd) /\ \A k \in 1..F : fds[k] < wire[i].fd
          /\ Base + R + i <= composed[wire[i].fd].at + 1
      BY <1>13, <2>2
    <3>2. (Base + l) + (R - l) + i = Base + R + i
      BY <1>4, <1>5
    <3>3. wire[i].fd # m
      <4>1. CASE composed[m].fd = NoFd
        BY <3>1, <4>1 DEF Due
      <4>2. CASE F > 0 /\ fds[1] = m
        <5>1. 1 \in 1..F
          BY <1>4, <4>2
        <5> QED
          BY <1>0, <3>1, <4>2, <5>1
      <4> QED
        BY <1>3, <4>1, <4>2 DEF GetMoves, F
    <3> QED
      BY <1>12, <1>15, <3>1, <3>2, <3>3
  <2>3. ASSUME NEW i \in 1..Len(bufs), bufs[i].fd # NoFd, NEW k \in 1..Len(fds')
        PROVE  fds'[k] < bufs[i].fd
    BY <1>13, <1>15, <2>3
  <2>4. Len(delivered') = m
    BY <1>3 DEF GetMoves
  <2>5. \A i \in 1..Len(fds') : Due(composed, m, fds'[i])
    BY <1>15
  <2> QED
    BY <1>1, <1>2, <1>6, <1>7, <2>1, <2>2, <2>3, <2>4, <2>5 DEF FdsInv
<1>17. FoundInv'
  <2>1. ASSUME NEW e \in 1..Len(composed), Due(composed, m, e) PROVE Found(e)'
    <3>1. Found(e) /\ e # m
      BY <1>2, <1>4, <1>12, <2>1 DEF FoundInv
    <3>2. ASSUME NEW k \in 1..F, fds[k] = e PROVE \E j \in 1..Len(fds') : fds'[j] = e
      <4>1. CASE fds' = fds
        BY <3>2, <4>1 DEF F
      <4>2. CASE /\ fds[1] = m /\ Len(fds') = F - 1
                 /\ \A j \in 1..(F - 1) : fds'[j] = fds[j + 1]
        <5>1. k # 1
          BY <3>1, <3>2, <4>2
        <5>2. k - 1 \in 1..(F - 1) /\ (k - 1) + 1 = k
          BY <1>4, <5>1
        <5>3. fds'[k - 1] = e /\ k - 1 \in 1..Len(fds')
          BY <3>2, <4>2, <5>2
        <5> QED
          BY <5>3
      <4> QED
        BY <1>3, <4>1, <4>2 DEF GetMoves, F
    <3> QED
      BY <1>1, <1>8, <3>1, <3>2 DEF Found, F
  <2>2. Len(delivered') = m
    BY <1>3 DEF GetMoves
  <2> QED
    BY <1>1, <2>1, <2>2 DEF FoundInv
<1> QED
  BY <1>9, <1>10, <1>11, <1>16, <1>17 DEF ImsgInv

\* What the buffers are, while the socket is open.
LEMMA BufferIs ==
    ASSUME ImsgInv, open, NEW i \in 1..Len(bufs)
    PROVE  /\ Whole + i \in 1..Len(composed) /\ Whole + i \in 0..Len(composed)
           /\ (Whole + i) - 1 \in 0..Len(composed)
           /\ bufs[i] \in Buffers
           /\ bufs[i].id = Whole + i /\ bufs[i].rpos \in Nat
           /\ bufs[i].wpos = composed[Whole + i].len
           /\ bufs[i].fd \in {NoFd, Whole + i}
           /\ bufs[i].fd # NoFd => composed[Whole + i].fd # NoFd /\ bufs[i].rpos = 0
           /\ i > 1 => bufs[i].rpos = 0
           /\ i = 1 => SentTo = EndOf(composed, Whole) + bufs[1].rpos
<1>1. /\ ImsgTypes /\ Chained(composed) /\ BufsInv
  BY DEF ImsgInv
<1>2. /\ Whole \in Nat /\ Len(composed) \in Nat /\ Len(bufs) \in Nat
      /\ Whole + Len(bufs) = Len(composed)
  BY Positions
<1>3. /\ Whole + i \in 1..Len(composed) /\ Whole + i \in 0..Len(composed)
      /\ (Whole + i) - 1 \in 0..Len(composed)
  BY <1>2
<1>4. bufs[i] \in Buffers
  BY <1>1, Shapes
<1>5. bufs[i].rpos \in Nat
  BY <1>4 DEF Buffers
<1>6. /\ bufs[i].id = Whole + i /\ bufs[i].wpos = composed[Whole + i].len
      /\ i > 1 => bufs[i].rpos = 0
      /\ bufs[i].fd \in {NoFd, composed[Whole + i].fd}
      /\ bufs[i].rpos > 0 => bufs[i].fd = NoFd
  BY <1>1 DEF BufsInv
<1>7. composed[Whole + i].fd \in {NoFd, Whole + i}
  BY <1>1, <1>3 DEF Chained
<1>8. bufs # << >>
  BY <1>2, EmptySeq
<1>9. SentTo = EndOf(composed, Whole) + bufs[1].rpos
  BY <1>1, <1>8 DEF BufsInv
<1>10. bufs[i].rpos > 0 \/ bufs[i].rpos = 0
  BY <1>5
<1> QED
  BY <1>3, <1>4, <1>5, <1>6, <1>7, <1>9, <1>10

\* What is left in the first buffers ends where the messages end.
LEMMA Lefts ==
    ASSUME ImsgInv, open
    PROVE  /\ \A i \in 0..Len(bufs) : Left(i) \in Nat
           /\ \A i \in 1..Len(bufs) :
                /\ EndOf(composed, Whole + i) = SentTo + Left(i)
                /\ composed[Whole + i].at + bufs[i].rpos = SentTo + Left(i - 1)
                /\ Left(i) = Left(i - 1) + bufs[i].wpos - bufs[i].rpos
                /\ bufs[i].rpos < bufs[i].wpos
           /\ Left(0) = 0
           /\ \A i, j \in 0..Len(bufs) : i < j => Left(i) < Left(j)
<1>1. /\ Chained(composed) /\ composed \in Seq(Composed) /\ WholeInv
  BY DEF ImsgInv, ImsgTypes
<1>2. /\ Whole \in Nat /\ Len(composed) \in Nat /\ Len(bufs) \in Nat /\ SentTo \in Nat
      /\ Whole + Len(bufs) = Len(composed)
  BY Positions
<1>3. Left(0) = 0
  BY DEF Left
<1>4. ASSUME NEW i \in 1..Len(bufs)
      PROVE  /\ EndOf(composed, Whole + i) = SentTo + Left(i) /\ Left(i) \in Int
             /\ EndOf(composed, Whole + i) \in Nat
  <2>0. 1 \in 1..Len(bufs) /\ i # 0
    BY <1>2
  <2>1. /\ Whole + i \in 1..Len(composed) /\ bufs[i].id = Whole + i
        /\ bufs[i].wpos = composed[Whole + i].len /\ Whole + i \in 0..Len(composed)
    BY BufferIs
  <2>2. /\ Whole + 1 \in 1..Len(composed) /\ bufs[1].id = Whole + 1 /\ bufs[1].rpos \in Nat
        /\ SentTo = EndOf(composed, Whole) + bufs[1].rpos
    BY <2>0, BufferIs
  <2>3. EndOf(composed, Whole + i) = composed[Whole + i].at + composed[Whole + i].len
    BY <2>1, <1>2 DEF EndOf
  <2>4. /\ composed[Whole + 1].at = EndOf(composed, (Whole + 1) - 1) /\ (Whole + 1) - 1 = Whole
        /\ EndOf(composed, Whole + i) \in Nat
    <3>1. /\ \A k \in 0..Len(composed) : EndOf(composed, k) \in Nat
          /\ \A k \in 1..Len(composed) : composed[k].at = EndOf(composed, k - 1)
      BY <1>1, Ends
    <3>2. composed[Whole + 1].at = EndOf(composed, (Whole + 1) - 1)
      BY <2>2, <3>1
    <3>3. EndOf(composed, Whole + i) \in Nat
      BY <2>1, <3>1
    <3>4. (Whole + 1) - 1 = Whole
      BY <1>2
    <3> QED
      BY <3>2, <3>3, <3>4
  <2>5. Left(i) = (composed[Whole + i].at + composed[Whole + i].len) - (composed[Whole + 1].at + bufs[1].rpos)
    BY <2>0, <2>1, <2>2 DEF Left, InStream
  <2>6. Left(i) = EndOf(composed, Whole + i) - SentTo
    BY <2>2, <2>3, <2>4, <2>5
  <2> QED
    BY <1>2, <2>4, <2>6
<1>5. ASSUME NEW i \in 0..Len(bufs), NEW j \in 0..Len(bufs), i < j PROVE Left(i) < Left(j)
  <2>0. j \in 1..Len(bufs)
    BY <1>2, <1>5
  <2>1. CASE i = 0
    <3>1. 1 \in 1..Len(bufs) /\ Whole < Len(composed)
      BY <1>2, <2>0
    <3>2. SentTo < EndOf(composed, Whole + 1)
      BY <1>1, <3>1 DEF WholeInv
    <3>3. /\ Whole + 1 \in 0..Len(composed) /\ Whole + j \in 0..Len(composed)
          /\ Whole + 1 <= Whole + j
      BY <1>2, <2>0
    <3>4. EndOf(composed, Whole + 1) <= EndOf(composed, Whole + j)
      BY <1>1, <3>3, Ends
    <3>5. EndOf(composed, Whole + 1) \in Nat
      BY <1>4, <3>1
    <3> QED
      BY <1>2, <1>3, <1>4, <2>0, <2>1, <3>2, <3>4, <3>5
  <2>2. CASE i \in 1..Len(bufs)
    <3>1. /\ Whole + i \in 0..Len(composed) /\ Whole + j \in 0..Len(composed)
          /\ Whole + i < Whole + j
      BY <1>2, <1>5, <2>0, <2>2
    <3>2. EndOf(composed, Whole + i) < EndOf(composed, Whole + j)
      BY <1>1, <3>1, Ends
    <3> QED
      BY <1>2, <1>4, <2>0, <2>2, <3>2
  <2> QED
    BY <1>2, <2>1, <2>2
<1>6. ASSUME NEW i \in 0..Len(bufs) PROVE Left(i) \in Nat
  <2>1. CASE i = 0
    BY <1>3, <2>1
  <2>2. CASE i \in 1..Len(bufs)
    <3>1. 0 \in 0..Len(bufs) /\ 0 < i
      BY <1>2, <2>2
    <3> QED
      BY <1>3, <1>4, <1>5, <2>2, <3>1
  <2> QED
    BY <1>2, <2>1, <2>2
<1>7. ASSUME NEW i \in 1..Len(bufs)
      PROVE  /\ composed[Whole + i].at + bufs[i].rpos = SentTo + Left(i - 1)
             /\ Left(i) = Left(i - 1) + bufs[i].wpos - bufs[i].rpos
             /\ bufs[i].rpos < bufs[i].wpos
  <2>1. /\ Whole + i \in 1..Len(composed) /\ bufs[i].rpos \in Nat
        /\ bufs[i].wpos = composed[Whole + i].len
        /\ i > 1 => bufs[i].rpos = 0
        /\ i = 1 => SentTo = EndOf(composed, Whole) + bufs[1].rpos
        /\ (Whole + i) - 1 \in 0..Len(composed)
    BY BufferIs
  <2>2. /\ composed[Whole + i].at = EndOf(composed, (Whole + i) - 1)
        /\ EndOf(composed, (Whole + i) - 1) \in Nat
        /\ composed[Whole + i].len \in Nat
        /\ EndOf(composed, Whole + i) = EndOf(composed, (Whole + i) - 1) + composed[Whole + i].len
    BY <1>1, <2>1, Ends
  <2>3. i - 1 \in 0..Len(bufs) /\ i \in 0..Len(bufs) /\ i - 1 < i
    BY <1>2
  <2>4. Left(i - 1) \in Nat /\ Left(i) \in Nat /\ Left(i - 1) < Left(i)
    BY <1>5, <1>6, <2>3
  <2>5. composed[Whole + i].at + bufs[i].rpos = SentTo + Left(i - 1)
    <3>1. CASE i = 1
      <4>1. (Whole + i) - 1 = Whole /\ i - 1 = 0
        BY <1>2, <3>1
      <4> QED
        BY <1>2, <1>3, <2>1, <2>2, <3>1, <4>1
    <3>2. CASE i > 1
      <4>1. (Whole + i) - 1 = Whole + (i - 1) /\ i - 1 \in 1..Len(bufs)
        BY <1>2, <3>2
      <4>2. EndOf(composed, Whole + (i - 1)) = SentTo + Left(i - 1)
        BY <1>4, <4>1
      <4> QED
        BY <1>2, <2>1, <2>2, <2>4, <3>2, <4>1, <4>2
    <3> QED
      BY <1>2, <3>1, <3>2
  <2>6. Left(i) = Left(i - 1) + bufs[i].wpos - bufs[i].rpos
    <3> DEFINE at == composed[Whole + i].at
               len == bufs[i].wpos
               rpos == bufs[i].rpos
               l == Left(i - 1)
               l2 == Left(i)
               sent == SentTo
    <3>1. /\ at \in Nat /\ len \in Nat /\ rpos \in Nat /\ l \in Nat /\ l2 \in Nat /\ sent \in Nat
      BY <1>2, <2>1, <2>2, <2>4
    <3>2. at + len = sent + l2
      BY <1>4, <2>1, <2>2
    <3>3. at + rpos = sent + l
      BY <2>5
    <3>4. l2 = l + len - rpos
      <4> HIDE DEF at, len, rpos, l, l2, sent
      <4> QED
        BY <3>1, <3>2, <3>3
    <3> QED
      BY <3>4
  <2> QED
    BY <2>1, <2>2, <2>4, <2>5, <2>6
<1> QED
  BY <1>3, <1>4, <1>5, <1>6, <1>7

\* The j-th byte written is the j-th byte of the stream behind what was written.
LEMMA WrittenByte ==
    ASSUME ImsgInv, open, NEW j \in Nat, j > 0, j <= Left(Len(bufs))
    PROVE  IsByte(composed, ByteAt(j), SentTo + j) /\ ByteAt(j) \in Bytes
<1> DEFINE T == {k \in DOMAIN bufs : Left(k) >= j}
<1>0. /\ bufs \in Seq(Buffers) /\ Chained(composed) /\ composed \in Seq(Composed)
      /\ Len(composed) <= MaxMsgs
  BY DEF ImsgInv, ImsgTypes
<1>1. /\ Whole \in Nat /\ Len(composed) \in Nat /\ Len(bufs) \in Nat /\ SentTo \in Nat
  BY Positions
<1>2. DOMAIN bufs = 1..Len(bufs)
  BY <1>0, LenProperties
<1>3. T \subseteq Nat
  BY <1>1, <1>2
<1>4. Len(bufs) \in T
  <2>1. Len(bufs) \in 0..Len(bufs) /\ 0 \in 0..Len(bufs)
    BY <1>1
  <2>2. Left(Len(bufs)) \in Nat /\ Left(0) = 0
    BY <2>1, Lefts
  <2>3. Len(bufs) # 0
    BY <2>2
  <2> QED
    BY <1>1, <1>2, <2>2, <2>3
<1>5. \E x \in T : \A y \in T : x <= y
  BY <1>3, <1>4, LeastNumber
<1> DEFINE i == Min(T)
<1>6. i \in T /\ \A y \in T : i <= y
  <2> HIDE DEF T
  <2> QED
    BY <1>3, <1>5 DEF Min
<1>7. i \in 1..Len(bufs) /\ Left(i) >= j
  BY <1>2, <1>6
<1>8. i - 1 \notin T
  <2>1. i \in Nat /\ ~(i <= i - 1)
    BY <1>1, <1>7
  <2> HIDE DEF T, i
  <2> QED
    BY <1>6, <2>1
<1>9. ByteAt(j) = [id |-> bufs[i].id, pos |-> bufs[i].rpos + j - Left(i - 1)]
  BY DEF ByteAt
<1> HIDE DEF i
<1>10. Left(i - 1) < j /\ Left(i - 1) \in Nat /\ Left(i) \in Nat
  <2>1. i - 1 \in 0..Len(bufs) /\ i \in 0..Len(bufs)
    BY <1>1, <1>7
  <2>2. Left(i - 1) \in Nat /\ Left(0) = 0 /\ Left(i) \in Nat
    BY <2>1, Lefts
  <2>3. CASE i - 1 = 0
    BY <2>2, <2>3
  <2>4. CASE i - 1 \in 1..Len(bufs)
    BY <1>2, <1>8, <2>2, <2>4
  <2> QED
    BY <1>1, <2>1, <2>2, <2>3, <2>4
<1>11. /\ composed[Whole + i].at + bufs[i].rpos = SentTo + Left(i - 1)
       /\ Left(i) = Left(i - 1) + bufs[i].wpos - bufs[i].rpos
  BY <1>7, Lefts
<1>12. /\ Whole + i \in 1..Len(composed) /\ bufs[i].id = Whole + i /\ bufs[i].rpos \in Nat
       /\ bufs[i].wpos = composed[Whole + i].len
  BY <1>7, BufferIs
<1>13. /\ composed[Whole + i].len \in Nat /\ composed[Whole + i].len <= MaxImsgSize
       /\ composed[Whole + i].at = EndOf(composed, (Whole + i) - 1)
       /\ EndOf(composed, (Whole + i) - 1) \in Nat
  <2>1. (Whole + i) - 1 \in 0..Len(composed)
    BY <1>1, <1>12
  <2> QED
    BY <1>0, <1>12, <2>1, Ends
<1> DEFINE q == bufs[i].rpos + j - Left(i - 1)
<1>14. q \in 1..composed[Whole + i].len /\ q \in 1..MaxImsgSize
  <2>1. \A rpos, l, l2, len \in Nat :
           l < j /\ j <= l2 /\ l2 = l + len - rpos => rpos + j - l \in 1..len
    OBVIOUS
  <2>2. Left(i) = Left(i - 1) + composed[Whole + i].len - bufs[i].rpos /\ j <= Left(i)
    BY <1>7, <1>10, <1>11, <1>12
  <2>3. q \in 1..composed[Whole + i].len
    BY <1>10, <1>12, <1>13, <2>1, <2>2
  <2> HIDE DEF q
  <2> QED
    BY <1>13, <2>3, Numbers
<1>15. composed[Whole + i].at + q = SentTo + j
  <2> DEFINE at == composed[Whole + i].at
             rpos == bufs[i].rpos
             l == Left(i - 1)
             sent == SentTo
  <2>1. at \in Nat /\ rpos \in Nat /\ l \in Nat /\ sent \in Nat /\ at + rpos = sent + l
    BY <1>1, <1>10, <1>11, <1>12, <1>13
  <2>2. at + (rpos + j - l) = sent + j
    <3> HIDE DEF at, rpos, l, sent
    <3> QED
      BY <2>1
  <2> QED
    BY <2>2
<1>16. ByteAt(j) = [id |-> Whole + i, pos |-> q]
  BY <1>9, <1>12
<1>17. Whole + i \in 1..MaxMsgs
  BY <1>0, <1>1, <1>12, Numbers
<1> HIDE DEF q
<1>18. ByteAt(j).id = Whole + i /\ ByteAt(j).pos = q
  BY <1>16
<1> QED
  BY <1>12, <1>14, <1>15, <1>16, <1>17, <1>18 DEF IsByte, Bytes

\* What the sendmsg of n bytes moves: the first k buffers are written, and the
\* descriptor of the buffer at which the gathering stopped.
WriteMoves(n, k) ==
    /\ n \in Nat /\ n > 0 /\ n <= Left(Len(bufs))
    /\ k \in 0..Len(bufs) /\ Left(k) <= n /\ (k < Len(bufs) => n < Left(k + 1))
    /\ bufs' \in Seq(Buffers) /\ Len(bufs') = Len(bufs) - k
    /\ \A i \in 1..(Len(bufs) - k) :
         /\ bufs'[i].id = bufs[k + i].id /\ bufs'[i].wpos = bufs[k + i].wpos
         /\ bufs'[i].rpos = IF i = 1 THEN bufs[k + i].rpos + n - Left(k) ELSE bufs[k + i].rpos
         /\ bufs'[i].fd = IF k + i \in Stopped THEN NoFd ELSE bufs[k + i].fd
    /\ wire' \in Seq(WireBytes) /\ Len(wire') = Len(wire) + n
    /\ \A i \in 1..Len(wire) : wire'[i] = wire[i]
    /\ \A j \in 1..n : /\ wire'[Len(wire) + j].byte = ByteAt(j)
                       /\ wire'[Len(wire) + j].fd = IF j = 1 THEN SentFd ELSE NoFd

\* The buffers whose descriptor goes with the bytes.
StopFacts(k, n) ==
    /\ \A j \in 1..k : bufs[j].fd # NoFd => j \in Stopped
    /\ k < Len(bufs) /\ bufs[k + 1].rpos + n - Left(k) > 0 /\ bufs[k + 1].fd # NoFd => k + 1 \in Stopped
    /\ \/ Stopped = {} /\ SentFd = NoFd
       \/ \E s \in 1..Len(bufs) : /\ Stopped = {s} /\ SentFd = bufs[s].fd
                                  /\ \A j \in 1..(s - 1) : bufs[j].fd = NoFd

\* The gathering stops at one buffer at most.
LEMMA StopsOnce ==
    ASSUME ImsgInv
    PROVE  \/ Stopped = {} /\ SentFd = NoFd
           \/ \E s \in 1..Len(bufs) : /\ Stopped = {s} /\ SentFd = bufs[s].fd
                                      /\ \A j \in 1..(s - 1) : bufs[j].fd = NoFd
<1>1. bufs \in Seq(Buffers) /\ Len(bufs) \in Nat /\ DOMAIN bufs = 1..Len(bufs)
  BY LenProperties DEF ImsgInv, ImsgTypes
<1>2. IovMax \in Nat
  BY Numbers
<1>3. CASE Stopped = {}
  BY <1>3 DEF SentFd
<1>4. CASE Stopped # {}
  <2>1. PICK s \in Stopped : TRUE
    BY <1>4
  <2>2. s \in 1..Len(bufs) /\ s \in Nat /\ \A j \in 1..(s - 1) : bufs[j].fd = NoFd
    BY <1>1, <2>1 DEF Stopped
  <2>3. ASSUME NEW a \in Stopped, NEW b \in Stopped PROVE ~(a < b)
    <3>1. a \in 1..Len(bufs) /\ b \in 1..Len(bufs) /\ b <= IovMax + 1
          /\ (bufs[a].fd # NoFd \/ a = IovMax + 1) /\ \A j \in 1..(b - 1) : bufs[j].fd = NoFd
      BY <1>1 DEF Stopped
    <3> SUFFICES ASSUME a < b PROVE FALSE
      OBVIOUS
    <3>2. a \in 1..(b - 1) /\ a # IovMax + 1
      BY <1>1, <1>2, <3>1
    <3> QED
      BY <3>1, <3>2
  <2>4. ASSUME NEW a \in Stopped PROVE a = s
    <3>1. a \in 1..Len(bufs)
      BY <1>1 DEF Stopped
    <3> QED
      BY <1>1, <2>1, <2>2, <2>3, <3>1
  <2>5. Stopped = {s}
    BY <2>1, <2>4
  <2>6. Min(Stopped) = s
    BY <2>2, <2>5 DEF Min
  <2> QED
    BY <1>4, <2>2, <2>5, <2>6 DEF SentFd
<1> QED
  BY <1>3, <1>4

\* msgbuf_write moves what sendmsg takes, and closes the descriptor it gave.
LEMMA WriteStep ==
    ASSUME ImsgInv, NEW n \in 1..(MaxMsgs * MaxImsgSize), msgbuf_write(n)
    PROVE  \E k \in 0..Len(bufs) : WriteMoves(n, k) /\ StopFacts(k, n)
<1> DEFINE M == Len(bufs)
<1>1. /\ open /\ n \in 1..Left(Max(Gathered \cup {0}))
      /\ wire' = wire \o [j \in 1..n |-> [byte |-> ByteAt(j),
                                          fd |-> IF j = 1 THEN SentFd ELSE NoFd]]
      /\ bufs' = msgbuf_drain(Closed, n)
  BY DEF msgbuf_write
<1>2. /\ bufs \in Seq(Buffers) /\ wire \in Seq(WireBytes) /\ DOMAIN bufs = 1..M /\ M \in Nat
  BY LenProperties DEF ImsgInv, ImsgTypes
<1>3. /\ \A i \in 0..M : Left(i) \in Nat
      /\ \A i, j \in 0..M : i < j => Left(i) < Left(j)
      /\ Left(0) = 0
  BY <1>1, Lefts
<1>4. /\ IovMax \in Nat /\ MaxMsgs \in Nat
  BY Numbers
<1>5. PICK g \in 0..M : /\ g = Max(Gathered \cup {0}) /\ g \in Gathered \cup {0}
  <2>1. Gathered \cup {0} \subseteq 0..M /\ Gathered \cup {0} # {}
    BY <1>2 DEF Gathered
  <2> DEFINE T == Gathered \cup {0}
  <2>2. \E x \in T : \A y \in T : y <= x
    BY <1>2, <2>1, GreatestNumber
  <2>3. \A x \in T, y \in T : y <= x => x >= y
    BY <1>2, <2>1
  <2>4. Max(T) \in T
    <3> HIDE DEF T
    <3> QED
      BY <2>2, <2>3 DEF Max
  <2> QED
    BY <2>1, <2>4
<1>6. n \in Nat /\ n > 0 /\ n <= Left(g) /\ Left(g) \in Nat
  BY <1>1, <1>3, <1>5
<1>7. g \in Gathered /\ g \in 1..M
  BY <1>3, <1>5, <1>6
<1>8. g <= IovMax /\ \A j \in 1..(g - 1) : bufs[j].fd = NoFd
  BY <1>7 DEF Gathered
<1> DEFINE K == {i \in 0..M : Left(i) <= n}
<1>9. PICK k \in K : k = Max(K) /\ \A y \in K : y <= k
  <2>1. K \subseteq 0..M /\ 0 \in K
    BY <1>2, <1>3, <1>6
  <2>2. \E x \in K : \A y \in K : y <= x
    BY <1>2, <2>1, GreatestNumber
  <2>3. \A x \in K, y \in K : y <= x <=> x >= y
    BY <1>2, <2>1
  <2>4. Max(K) \in K /\ \A y \in K : y <= Max(K)
    <3> HIDE DEF K
    <3> QED
      BY <2>2, <2>3 DEF Max
  <2> QED
    BY <2>4
<1>10. k \in 0..M /\ Left(k) <= n /\ Left(k) \in Nat /\ k \in Nat
  BY <1>2, <1>3, <1>9
<1>11. k < M => n < Left(k + 1)
  <2> SUFFICES ASSUME k < M PROVE n < Left(k + 1)
    OBVIOUS
  <2>1. k + 1 \in 0..M /\ ~(k + 1 <= k)
    BY <1>2, <1>10
  <2>2. k + 1 \notin K
    BY <1>9, <2>1
  <2> QED
    BY <1>3, <1>6, <2>1, <2>2
<1>12. k <= g
  <2> SUFFICES ASSUME g < k PROVE FALSE
    BY <1>2, <1>5, <1>10
  <2>1. Left(g) < Left(k)
    BY <1>3, <1>5, <1>10
  <2> QED
    BY <1>6, <1>10, <2>1
<1>13. n <= Left(M)
  <2>1. g = M \/ g < M
    BY <1>2, <1>5
  <2>2. M \in 0..M
    BY <1>2
  <2> QED
    BY <1>3, <1>5, <1>6, <2>1, <2>2
<1>14. /\ DOMAIN Closed = 1..M /\ Len(Closed) = M
       /\ \A i \in 1..M : Closed[i] = IF i \in Stopped THEN [bufs[i] EXCEPT !.fd = NoFd] ELSE bufs[i]
  <2>1. Closed = [i \in 1..M |-> IF i \in Stopped THEN [bufs[i] EXCEPT !.fd = NoFd] ELSE bufs[i]]
    BY <1>2 DEF Closed
  <2> HIDE DEF M
  <2> QED
    BY <1>2, <2>1
<1> DEFINE C == Closed
<1>15. \A i \in 1..M : /\ C[i] \in Buffers /\ C[i].id = bufs[i].id /\ C[i].wpos = bufs[i].wpos
                       /\ C[i].rpos = bufs[i].rpos
                       /\ C[i].fd = IF i \in Stopped THEN NoFd ELSE bufs[i].fd
  <2> SUFFICES ASSUME NEW i \in 1..M
               PROVE  /\ C[i] \in Buffers /\ C[i].id = bufs[i].id /\ C[i].wpos = bufs[i].wpos
                      /\ C[i].rpos = bufs[i].rpos
                      /\ C[i].fd = IF i \in Stopped THEN NoFd ELSE bufs[i].fd
    OBVIOUS
  <2>1. bufs[i] \in Buffers
    BY <1>2, ElementOfSeq
  <2>2. CASE i \in Stopped
    <3>1. C[i] = [bufs[i] EXCEPT !.fd = NoFd]
      BY <1>14, <2>2
    <3>2. NoFd \in 0..MaxMsgs
      BY <1>4 DEF NoFd
    <3> QED
      BY <2>1, <2>2, <3>1, <3>2 DEF Buffers
  <2>3. CASE i \notin Stopped
    <3>1. C[i] = bufs[i]
      BY <1>14, <2>3
    <3> QED
      BY <2>1, <2>3, <3>1
  <2> QED
    BY <2>2, <2>3
<1> HIDE DEF C
<1> DEFINE f == [i \in 1..(M - k) |->
                   IF i = 1 THEN [C[k + 1] EXCEPT !.rpos = @ + n - Left(k)] ELSE C[k + i]]
<1>16. bufs' = f
  BY <1>1, <1>9, <1>14 DEF msgbuf_drain, C
<1>17. ASSUME NEW i \in 1..(M - k)
       PROVE  /\ f[i] \in Buffers
              /\ f[i].id = bufs[k + i].id /\ f[i].wpos = bufs[k + i].wpos
              /\ f[i].rpos = IF i = 1 THEN bufs[k + i].rpos + n - Left(k) ELSE bufs[k + i].rpos
              /\ f[i].fd = IF k + i \in Stopped THEN NoFd ELSE bufs[k + i].fd
  <2>0. k + i \in 1..M
    BY <1>2, <1>10
  <2>1. CASE i = 1
    <3>1. f[i] = [C[k + 1] EXCEPT !.rpos = C[k + 1].rpos + n - Left(k)]
      BY <2>1
    <3>2. C[k + 1] \in Buffers /\ C[k + 1].rpos = bufs[k + 1].rpos
      BY <1>15, <2>0, <2>1
    <3>3. C[k + 1].rpos \in Nat
      BY <3>2 DEF Buffers
    <3>4. C[k + 1].rpos + n - Left(k) \in Nat
      BY <1>6, <1>10, <3>3
    <3> HIDE DEF f
    <3>5. /\ f[i] \in Buffers /\ f[i].id = C[k + 1].id /\ f[i].wpos = C[k + 1].wpos
          /\ f[i].rpos = C[k + 1].rpos + n - Left(k) /\ f[i].fd = C[k + 1].fd
      BY <3>1, <3>2, <3>4 DEF Buffers
    <3> QED
      BY <1>15, <2>0, <2>1, <3>2, <3>5
  <2>2. CASE i # 1
    <3>1. f[i] = C[k + i]
      BY <2>2
    <3> HIDE DEF f
    <3> QED
      BY <1>15, <2>0, <2>2, <3>1
  <2> QED
    BY <2>1, <2>2
<1>18. bufs' \in Seq(Buffers) /\ Len(bufs') = M - k
  <2>1. M - k \in Nat
    BY <1>2, <1>10
  <2>2. f \in [1..(M - k) -> Buffers]
    BY <1>17
  <2> HIDE DEF f, M
  <2> QED
    BY <1>16, <2>1, <2>2
<1> DEFINE w == [j \in 1..n |-> [byte |-> ByteAt(j), fd |-> IF j = 1 THEN SentFd ELSE NoFd]]
<1>19. SentFd \in 0..MaxMsgs
  <2>0. \A s \in 1..M : bufs[s] \in Buffers
    BY <1>2, ElementOfSeq
  <2>1. \A s \in 1..M : bufs[s].fd \in 0..MaxMsgs
    BY <2>0 DEF Buffers
  <2>2. NoFd \in 0..MaxMsgs
    BY <1>4 DEF NoFd
  <2> QED
    BY <2>1, <2>2, StopsOnce
<1>20. w \in [1..n -> WireBytes]
  <2>1. ASSUME NEW j \in 1..n PROVE w[j] \in WireBytes
    <3>1. j \in Nat /\ j > 0 /\ j <= Left(M)
      <4>1. M \in 0..M
        BY <1>2
      <4> QED
        BY <1>3, <1>6, <1>13, <4>1
    <3>2. ByteAt(j) \in Bytes
      BY <1>1, <3>1, WrittenByte
    <3>3. NoFd \in 0..MaxMsgs
      BY <1>4 DEF NoFd
    <3> QED
      BY <1>19, <3>2, <3>3 DEF WireBytes
  <2> QED
    BY <2>1
<1>21. \A j \in 1..n : w[j].byte = ByteAt(j) /\ w[j].fd = IF j = 1 THEN SentFd ELSE NoFd
  OBVIOUS
<1> HIDE DEF w
<1>22. /\ wire' \in Seq(WireBytes) /\ Len(wire') = Len(wire) + n
       /\ \A i \in 1..Len(wire) : wire'[i] = wire[i]
       /\ \A j \in 1..n : wire'[Len(wire) + j] = w[j]
  <2>1. /\ wire \o w \in Seq(WireBytes) /\ Len(wire \o w) = Len(wire) + n
        /\ \A i \in 1..Len(wire) : (wire \o w)[i] = wire[i]
        /\ \A i \in 1..n : (wire \o w)[Len(wire) + i] = w[i]
    <3>1. wire \in Seq(WireBytes) /\ n \in Nat /\ w \in [1..n -> WireBytes]
      BY <1>2, <1>6, <1>20
    <3> QED
      BY ONLY <3>1, Joined
  <2>2. wire' = wire \o w
    BY <1>1 DEF w
  <2> QED
    BY <2>1, <2>2
<1> HIDE DEF f
<1>23. WriteMoves(n, k)
  BY <1>6, <1>10, <1>11, <1>13, <1>16, <1>17, <1>18, <1>21, <1>22 DEF WriteMoves
<1>24. ASSUME NEW j \in 1..M, j <= g, bufs[j].fd # NoFd PROVE j \in Stopped
  <2>1. /\ j \in DOMAIN bufs /\ j <= IovMax + 1 /\ j = g
    <3>1. j = g
      BY <1>2, <1>7, <1>8, <1>24
    <3> QED
      BY <1>2, <1>4, <1>7, <1>8, <3>1
  <2> QED
    BY <1>8, <1>24, <2>1 DEF Stopped
<1>25. \A j \in 1..k : bufs[j].fd # NoFd => j \in Stopped
  <2>1. \A j \in 1..k : j \in 1..M /\ j <= g
    BY <1>2, <1>7, <1>10, <1>12
  <2> QED
    BY <1>24, <2>1
<1>26. ASSUME k < M, bufs[k + 1].rpos + n - Left(k) > 0, bufs[k + 1].fd # NoFd
       PROVE  k + 1 \in Stopped
  <2>0. k + 1 \in 1..M
    BY <1>2, <1>10, <1>26
  <2>1. CASE k < g
    <3>1. k + 1 <= g
      BY <1>7, <1>10, <2>1
    <3> QED
      BY <1>24, <1>26, <2>0, <3>1
  <2>2. CASE k = g
    <3>1. k + 1 > 1 /\ n = Left(k)
      BY <1>6, <1>7, <1>10, <2>2
    <3>2. bufs[k + 1].rpos = 0
      BY <1>1, <2>0, <3>1, BufferIs
    <3> QED
      BY <1>6, <1>26, <3>1, <3>2
  <2> QED
    BY <1>7, <1>10, <1>12, <2>1, <2>2
<1>27. StopFacts(k, n)
  <2>1. k < M /\ bufs[k + 1].rpos + n - Left(k) > 0 /\ bufs[k + 1].fd # NoFd => k + 1 \in Stopped
    BY <1>26
  <2> QED
    BY <1>25, <2>1, StopsOnce DEF StopFacts
<1> QED
  BY <1>10, <1>23, <1>27

\* msgbuf_write keeps the invariant: it writes a prefix of what is queued, and a
\* descriptor only with the first bytes of its message.
LEMMA WriteKeeps ==
    ASSUME ImsgInv, NEW n \in 1..(MaxMsgs * MaxImsgSize), msgbuf_write(n)
    PROVE  ImsgInv'
<1> DEFINE M == Len(bufs)
           N == Len(composed)
           L == Len(wire)
           R == Len(rbuf)
           F == Len(fds)
           D == Len(delivered)
           W == Whole
<1>1. /\ open /\ composed' = composed /\ rbuf' = rbuf /\ fds' = fds /\ delivered' = delivered
      /\ reading' = reading /\ open' = open /\ limit' = limit
  BY DEF msgbuf_write
<1>2. /\ ImsgTypes /\ Chained(composed) /\ WholeInv /\ BufsInv /\ StreamInv /\ FdsInv /\ FoundInv
      /\ composed \in Seq(Composed)
  BY DEF ImsgInv, ImsgTypes
<1>3. PICK k \in 0..M : WriteMoves(n, k) /\ StopFacts(k, n)
  BY WriteStep
<1>4. /\ M \in Nat /\ N \in Nat /\ L \in Nat /\ R \in Nat /\ F \in Nat /\ D \in Nat /\ W \in Nat
      /\ D <= W /\ W + M = N /\ SentTo \in Nat /\ Base \in Nat
  BY <1>1, Positions
<1>5. /\ n \in Nat /\ n > 0 /\ n <= Left(M) /\ k \in Nat /\ k <= M
      /\ Left(k) <= n /\ (k < M => n < Left(k + 1))
      /\ Len(bufs') = M - k /\ Len(wire') = L + n
  BY <1>3, <1>4 DEF WriteMoves
<1>6. /\ \A i \in 0..M : Left(i) \in Nat
      /\ \A i \in 1..M : EndOf(composed, W + i) = SentTo + Left(i)
      /\ \A i \in 1..M : composed[W + i].at + bufs[i].rpos = SentTo + Left(i - 1)
      /\ Left(0) = 0
  BY <1>1, Lefts
<1>7. Base' = Base /\ SentTo' = SentTo + n /\ Base + R + L = SentTo
  <2>1. Base' = Base
    BY <1>1 DEF Base
  <2> QED
    BY <1>1, <1>4, <1>5, <2>1 DEF SentTo
<1>8. Whole' = W + k
  BY <1>1, <1>4, <1>5 DEF Whole
<1>9. ImsgTypes'
  BY <1>1, <1>2, <1>3 DEF ImsgTypes, WriteMoves
<1> HIDE DEF M, N, L, R, F, D, W
<1>10. k > 0 => EndOf(composed, W + k) = SentTo + Left(k)
  BY <1>4, <1>5, <1>6
<1>11. WholeInv'
  <2>1. EndOf(composed, W + k) <= SentTo + n
    <3>1. CASE k = 0
      <4>1. EndOf(composed, W) <= SentTo /\ W + k = W /\ EndOf(composed, W) \in Nat
        <5>1. W \in 0..Len(composed)
          BY <1>4 DEF N
        <5> QED
          BY <1>2, <1>4, <3>1, <5>1, Ends DEF WholeInv, W
      <4> QED
        BY <1>4, <1>5, <4>1
    <3>2. CASE k > 0
      BY <1>3, <1>4, <1>5, <1>6, <1>10, <3>2
    <3> QED
      BY <1>5, <3>1, <3>2
  <2>2. W + k < N => SentTo + n < EndOf(composed, (W + k) + 1)
    <3> SUFFICES ASSUME W + k < N PROVE SentTo + n < EndOf(composed, (W + k) + 1)
      OBVIOUS
    <3>1. k + 1 \in 1..M /\ (W + k) + 1 = W + (k + 1) /\ k < M /\ k + 1 \in 0..M
      BY <1>4, <1>5
    <3>2. EndOf(composed, W + (k + 1)) = SentTo + Left(k + 1) /\ Left(k + 1) \in Nat
      BY <1>6, <3>1
    <3> QED
      BY <1>4, <1>5, <3>1, <3>2
  <2>3. D <= W + k /\ W + k <= N
    BY <1>4, <1>5
  <2> QED
    BY <1>1, <1>7, <1>8, <2>1, <2>2, <2>3 DEF WholeInv, N, D
<1>12. ASSUME NEW i \in 1..(M - k)
       PROVE  /\ k + i \in 1..M /\ (W + k) + i = W + (k + i)
              /\ bufs'[i].id = W + (k + i) /\ bufs'[i].wpos = composed[W + (k + i)].len
              /\ i > 1 => bufs'[i].rpos = 0
              /\ bufs'[i].fd \in {NoFd, composed[W + (k + i)].fd}
              /\ bufs'[i].rpos > 0 => bufs'[i].fd = NoFd
              /\ bufs'[i].fd # NoFd => k + i \notin Stopped /\ bufs'[i].fd = bufs[k + i].fd
              /\ k + i \notin Stopped => bufs'[i].fd = bufs[k + i].fd
              /\ i = 1 => SentTo + n = EndOf(composed, W + k) + bufs'[1].rpos
  <2>1. k + i \in 1..M /\ (W + k) + i = W + (k + i) /\ (i > 1 => k + i > 1)
    BY <1>4, <1>5
  <2>2. /\ bufs'[i].id = bufs[k + i].id /\ bufs'[i].wpos = bufs[k + i].wpos
        /\ bufs'[i].rpos = IF i = 1 THEN bufs[k + i].rpos + n - Left(k) ELSE bufs[k + i].rpos
        /\ bufs'[i].fd = IF k + i \in Stopped THEN NoFd ELSE bufs[k + i].fd
    BY <1>3 DEF WriteMoves, M
  <2>3. /\ bufs[k + i].id = W + (k + i) /\ bufs[k + i].rpos \in Nat
        /\ bufs[k + i].wpos = composed[W + (k + i)].len
        /\ k + i > 1 => bufs[k + i].rpos = 0
        /\ k + i = 1 => SentTo = EndOf(composed, W) + bufs[1].rpos
    BY <1>1, <2>1, BufferIs DEF M, W
  <2>4. bufs[k + i].fd \in {NoFd, composed[W + (k + i)].fd}
    BY <1>2, <2>1 DEF BufsInv, M, W
  <2>5. i > 1 => bufs'[i].rpos = 0
    BY <2>1, <2>2, <2>3
  <2>6. bufs'[i].rpos > 0 => bufs'[i].fd = NoFd
    <3> SUFFICES ASSUME bufs'[i].rpos > 0 PROVE bufs'[i].fd = NoFd
      OBVIOUS
    <3>1. i = 1
      BY <1>4, <2>5
    <3>2. k < M /\ bufs[k + 1].rpos + n - Left(k) > 0
      BY <1>4, <1>5, <2>1, <2>2, <3>1
    <3>3. bufs[k + 1].fd # NoFd => k + 1 \in Stopped
      BY <1>3, <3>2 DEF StopFacts, M
    <3> QED
      BY <2>2, <3>1, <3>3
  <2>7. ASSUME i = 1 PROVE SentTo + n = EndOf(composed, W + k) + bufs'[1].rpos
    <3>1. bufs'[1].rpos = bufs[k + 1].rpos + n - Left(k) /\ Left(k) \in Nat
      BY <1>6, <1>3, <2>2, <2>7
    <3>2. CASE k = 0
      <4>1. W + k = W /\ k + i = 1 /\ W \in 0..Len(composed)
        BY <1>4, <2>7, <3>2 DEF N
      <4>2. EndOf(composed, W) \in Nat
        BY <1>2, <4>1, Ends
      <4>3. bufs'[1].rpos = bufs[1].rpos + n /\ bufs[1].rpos \in Nat
        BY <1>5, <1>6, <2>3, <3>1, <3>2, <4>1
      <4> QED
        BY <1>5, <2>3, <4>1, <4>2, <4>3
    <3>3. CASE k > 0
      <4>1. bufs[k + 1].rpos = 0 /\ EndOf(composed, W + k) = SentTo + Left(k)
        BY <1>5, <1>10, <2>3, <2>7, <3>3
      <4> QED
        BY <1>4, <1>5, <3>1, <4>1
    <3> QED
      BY <1>5, <3>2, <3>3
  <2> QED
    BY <2>1, <2>2, <2>3, <2>4, <2>5, <2>6, <2>7
<1>13. bufs' \in Seq(Buffers)
  BY <1>3 DEF WriteMoves
<1>14. BufsInv'
  <2>1. bufs' # << >> => SentTo + n = EndOf(composed, W + k) + bufs'[1].rpos
    <3> SUFFICES ASSUME bufs' # << >> PROVE SentTo + n = EndOf(composed, W + k) + bufs'[1].rpos
      OBVIOUS
    <3>1. Len(bufs') # 0
      BY <1>13, EmptySeq
    <3>2. 1 \in 1..(M - k)
      BY <1>4, <1>5, <3>1
    <3> QED
      BY <1>12, <3>2
  <2>2. bufs' = << >> => SentTo + n = EndOf(composed, W + k)
    <3> SUFFICES ASSUME bufs' = << >> PROVE SentTo + n = EndOf(composed, W + k)
      OBVIOUS
    <3>1. M = k
      <4>1. Len(bufs') = 0
        BY EmptySeq
      <4> QED
        BY <1>4, <1>5, <4>1
    <3>2. k > 0
      BY <1>5, <1>6, <3>1
    <3>3. n = Left(k) /\ Left(k) \in Nat
      BY <1>3, <1>5, <1>6, <3>1
    <3> QED
      BY <1>10, <3>2, <3>3
  <2>3. \A i \in 1..(M - k) :
          /\ bufs'[i].id = (W + k) + i /\ bufs'[i].wpos = composed[(W + k) + i].len
          /\ i > 1 => bufs'[i].rpos = 0
          /\ bufs'[i].fd \in {NoFd, composed[(W + k) + i].fd}
          /\ bufs'[i].rpos > 0 => bufs'[i].fd = NoFd
    BY <1>12
  <2> QED
    BY <1>1, <1>5, <1>7, <1>8, <2>1, <2>2, <2>3 DEF BufsInv
<1>15. /\ \A i \in 1..L : wire'[i] = wire[i]
       /\ \A j \in 1..n : /\ wire'[L + j].byte = ByteAt(j)
                          /\ wire'[L + j].fd = IF j = 1 THEN SentFd ELSE NoFd
  BY <1>3 DEF WriteMoves, L
<1>16. ASSUME NEW i \in 1..(L + n), i \notin 1..L PROVE \E j \in 1..n : i = L + j
  <2>1. i - L \in 1..n /\ i = L + (i - L)
    BY <1>4, <1>5, <1>16
  <2> QED
    BY <2>1
<1>17. StreamInv'
  <2>1. ASSUME NEW i \in 1..(L + n) PROVE IsByte(composed, wire'[i].byte, Base + R + i)
    <3>1. CASE i \in 1..L
      BY <1>2, <1>15, <3>1 DEF StreamInv, L, R
    <3>2. CASE i \notin 1..L
      <4>1. PICK j \in 1..n : i = L + j
        BY <1>16, <3>2
      <4>2. /\ j \in Nat /\ j > 0 /\ j <= Left(M) /\ Base + R + i = SentTo + j
        <5>1. M \in 0..M
          BY <1>4
        <5> QED
          BY <1>4, <1>5, <1>6, <1>7, <4>1, <5>1
      <4>3. IsByte(composed, ByteAt(j), SentTo + j)
        BY <1>1, <4>2, WrittenByte DEF M
      <4> QED
        BY <1>15, <4>1, <4>2, <4>3
    <3> QED
      BY <3>1, <3>2
  <2>2. ~reading' => ~Complete'
    BY <1>1, <1>2 DEF StreamInv, Complete, Hdr
  <2> QED
    BY <1>1, <1>2, <1>5, <1>7, <2>1, <2>2 DEF StreamInv, R
<1>18. SentFd # NoFd => \E s \in 1..M : /\ Stopped = {s} /\ SentFd = bufs[s].fd
                                        /\ \A j \in 1..(s - 1) : bufs[j].fd = NoFd
  BY <1>3 DEF StopFacts, M
<1>19. ASSUME NEW s \in 1..M, bufs[s].fd # NoFd
       PROVE  /\ Due(composed, D, bufs[s].fd) /\ bufs[s].fd = W + s
              /\ SentTo <= composed[bufs[s].fd].at
              /\ \A i \in 1..F : fds[i] < bufs[s].fd
              /\ \A i \in 1..L : wire[i].fd < bufs[s].fd
  <2>1. /\ bufs[s].fd = W + s /\ composed[W + s].fd # NoFd /\ bufs[s].rpos = 0
        /\ W + s \in 1..Len(composed)
    BY <1>1, <1>19, BufferIs DEF M, W
  <2>2. composed[W + s].at + 0 = SentTo + Left(s - 1) /\ s - 1 \in 0..M
    <3>1. s - 1 \in 0..M
      BY <1>4
    <3>2. composed[W + s].at + bufs[s].rpos = SentTo + Left(s - 1)
      BY <1>6
    <3> QED
      BY <2>1, <3>1, <3>2
  <2>3. Left(s - 1) \in Nat
    BY <1>6, <2>2
  <2>4. composed[W + s].at \in Nat
    BY <1>2, <2>1, Shapes DEF Composed
  <2>5. SentTo <= composed[W + s].at
    BY <1>4, <2>2, <2>3, <2>4
  <2>6. W + s \in (D + 1)..Len(composed)
    BY <1>4, <2>1 DEF N
  <2> QED
    BY <1>2, <1>19, <2>1, <2>5, <2>6 DEF Due, FdsInv, M, F, L
<1>20. ASSUME NEW i \in 1..(L + n), wire'[i].fd # NoFd
       PROVE  \/ i \in 1..L /\ wire'[i].fd = wire[i].fd
              \/ /\ i = L + 1 /\ wire'[i].fd = SentFd
                 /\ \E s \in 1..M : /\ wire'[i].fd = bufs[s].fd /\ Stopped = {s} /\ bufs[s].fd # NoFd
                                    /\ \A j \in 1..(s - 1) : bufs[j].fd = NoFd
  <2>1. CASE i \in 1..L
    BY <1>15, <2>1
  <2>2. CASE i \notin 1..L
    <3>1. PICK j \in 1..n : i = L + j
      BY <1>16, <2>2
    <3>2. j = 1 /\ wire'[i].fd = SentFd
      BY <1>15, <1>20, <3>1
    <3> QED
      BY <1>18, <1>20, <3>1, <3>2
  <2> QED
    BY <2>1, <2>2
<1>21. FdsInv'
  <2>1. ASSUME NEW i \in 1..(L + n), wire'[i].fd # NoFd
        PROVE  /\ Due(composed, D, wire'[i].fd) /\ \A j \in 1..F : fds[j] < wire'[i].fd
               /\ Base + R + i <= composed[wire'[i].fd].at + 1
    <3>1. CASE i \in 1..L /\ wire'[i].fd = wire[i].fd
      BY <1>2, <2>1, <3>1 DEF FdsInv, L, R, F, D
    <3>2. CASE i = L + 1 /\ \E s \in 1..M : wire'[i].fd = bufs[s].fd /\ bufs[s].fd # NoFd
      <4>1. PICK s \in 1..M : wire'[i].fd = bufs[s].fd /\ bufs[s].fd # NoFd
        BY <3>2
      <4>2. /\ Due(composed, D, bufs[s].fd) /\ SentTo <= composed[bufs[s].fd].at
            /\ \A j \in 1..F : fds[j] < bufs[s].fd
        BY <1>19, <4>1
      <4>3. composed[bufs[s].fd].at \in Nat
        <5>1. bufs[s].fd \in 1..Len(composed)
          BY <1>4, <4>2 DEF Due, N
        <5> QED
          BY <1>2, <5>1, Shapes DEF Composed
      <4>4. Base + R + i = SentTo + 1
        BY <1>4, <1>7, <3>2
      <4> QED
        BY <1>4, <4>1, <4>2, <4>3, <4>4
    <3> QED
      BY <1>20, <2>1, <3>1, <3>2
  <2>2. ASSUME NEW i \in 1..(L + n), NEW j \in 1..(L + n), i < j,
               wire'[i].fd # NoFd, wire'[j].fd # NoFd
        PROVE  wire'[i].fd < wire'[j].fd
    <3>1. CASE j \in 1..L /\ wire'[j].fd = wire[j].fd
      <4>1. i \in 1..L
        BY <1>4, <2>2, <3>1
      <4> QED
        BY <1>2, <1>15, <2>2, <3>1, <4>1 DEF FdsInv, L
    <3>2. CASE j = L + 1 /\ \E s \in 1..M : wire'[j].fd = bufs[s].fd /\ bufs[s].fd # NoFd
      <4>1. i \in 1..L
        BY <1>4, <2>2, <3>2
      <4> QED
        BY <1>15, <1>19, <3>2, <4>1
    <3> QED
      BY <1>20, <2>2, <3>1, <3>2
  <2>3. ASSUME NEW i \in 1..(M - k), bufs'[i].fd # NoFd
        PROVE  /\ \A j \in 1..F : fds[j] < bufs'[i].fd
               /\ \A j \in 1..(L + n) : wire'[j].fd < bufs'[i].fd
    <3>1. /\ k + i \in 1..M /\ k + i \notin Stopped /\ bufs'[i].fd = bufs[k + i].fd
          /\ bufs[k + i].fd # NoFd
      BY <1>12, <2>3
    <3>2. /\ \A j \in 1..F : fds[j] < bufs[k + i].fd
          /\ \A j \in 1..L : wire[j].fd < bufs[k + i].fd
          /\ bufs[k + i].fd = W + (k + i)
      BY <1>19, <3>1
    <3>3. ASSUME NEW j \in 1..(L + n) PROVE wire'[j].fd < bufs[k + i].fd
      <4>1. CASE wire'[j].fd = NoFd
        BY <1>4, <3>1, <3>2, <4>1 DEF NoFd
      <4>2. CASE j \in 1..L /\ wire'[j].fd = wire[j].fd
        BY <3>2, <4>2
      <4>3. CASE \E s \in 1..M : /\ wire'[j].fd = bufs[s].fd /\ Stopped = {s} /\ bufs[s].fd # NoFd
                                 /\ \A p \in 1..(s - 1) : bufs[p].fd = NoFd
        <5>1. PICK s \in 1..M : /\ wire'[j].fd = bufs[s].fd /\ Stopped = {s} /\ bufs[s].fd # NoFd
                                /\ \A p \in 1..(s - 1) : bufs[p].fd = NoFd
          BY <4>3
        <5>2. k + i # s /\ k + i \notin 1..(s - 1)
          BY <3>1, <5>1
        <5>3. s < k + i
          BY <1>4, <3>1, <5>2
        <5>4. bufs[s].fd = W + s
          BY <1>19, <5>1
        <5> QED
          BY <1>4, <3>1, <3>2, <5>1, <5>3, <5>4
      <4> QED
        BY <1>20, <4>1, <4>2, <4>3
    <3> QED
      BY <3>1, <3>2, <3>3
  <2> QED
    BY <1>1, <1>2, <1>5, <1>7, <2>1, <2>2, <2>3 DEF FdsInv, F, R, D
<1>22. FoundInv'
  <2>1. ASSUME NEW e \in 1..N, Due(composed, D, e) PROVE Found(e)'
    <3>1. Found(e) /\ e # NoFd
      BY <1>2, <1>4, <2>1 DEF FoundInv, NoFd, D, N
    <3>2. ASSUME NEW j \in 1..L, wire[j].fd = e PROVE \E p \in 1..(L + n) : wire'[p].fd = e
      <4>1. j \in 1..(L + n) /\ wire'[j] = wire[j]
        BY <1>4, <1>5, <1>15
      <4> QED
        BY <3>2, <4>1
    <3>3. ASSUME NEW j \in 1..M, bufs[j].fd = e
          PROVE  \/ \E p \in 1..(L + n) : wire'[p].fd = e
                 \/ \E p \in 1..(M - k) : bufs'[p].fd = e
      <4>1. CASE j \in Stopped
        <5>1. SentFd = e
          BY <1>3, <3>3, <4>1 DEF StopFacts, M
        <5>2. 1 \in 1..n /\ L + 1 \in 1..(L + n)
          BY <1>4, <1>5
        <5>3. wire'[L + 1].fd = e
          BY <1>15, <5>1, <5>2
        <5> QED
          BY <5>2, <5>3
      <4>2. CASE j \notin Stopped
        <5>1. j \notin 1..k
          BY <1>3, <3>1, <3>3, <4>2 DEF StopFacts
        <5>2. j - k \in 1..(M - k) /\ k + (j - k) = j
          BY <1>4, <1>5, <5>1
        <5>3. bufs'[j - k].fd = e
          BY <1>12, <3>3, <4>2, <5>2
        <5> QED
          BY <5>2, <5>3
      <4> QED
        BY <4>1, <4>2
    <3> QED
      BY <1>1, <1>5, <3>1, <3>2, <3>3 DEF Found, L, M
  <2> QED
    BY <1>1, <2>1 DEF FoundInv, D, N
<1>23. Chained(composed)'
  BY <1>1, <1>2
<1> QED
  BY <1>9, <1>11, <1>14, <1>17, <1>21, <1>22, <1>23 DEF ImsgInv

\* Every step keeps the invariant.
LEMMA ImsgNextKeeps ==
    ASSUME ImsgInv, [ImsgNext]_imsgVars
    PROVE  ImsgInv'
<1>1. CASE \E len \in Lens, hasfd \in BOOLEAN : imsg_compose(len, hasfd)
  BY <1>1, ComposeKeeps
<1>2. CASE \E n \in 1..(MaxMsgs * MaxImsgSize) : msgbuf_write(n)
  BY <1>2, WriteKeeps
<1>3. CASE msgbuf_clear
  BY <1>3, MsgbufClearKeeps
<1>4. CASE \E n \in 1..ReadSize : imsg_read(n)
  BY <1>4, ReadKeeps
<1>5. CASE imsg_get
  BY <1>5, GetKeeps
<1>6. CASE imsg_get_none
  BY <1>6, GetNoneKeeps
<1>7. CASE imsg_clear
  BY <1>7, ImsgClearKeeps
<1>8. CASE UNCHANGED imsgVars
  <2>1. /\ composed' = composed /\ bufs' = bufs /\ wire' = wire /\ rbuf' = rbuf /\ fds' = fds
        /\ delivered' = delivered /\ open' = open /\ limit' = limit /\ reading' = reading
    BY <1>8 DEF imsgVars
  <2>2. /\ ImsgTypes /\ Chained(composed) /\ WholeInv /\ BufsInv /\ StreamInv /\ FdsInv /\ FoundInv
    BY DEF ImsgInv
  <2>3. Whole' = Whole /\ Base' = Base /\ SentTo' = SentTo
    BY <2>1 DEF Whole, Base, SentTo
  <2>4. ImsgTypes'
    BY <2>1, <2>2 DEF ImsgTypes
  <2>5. Chained(composed)' /\ WholeInv' /\ BufsInv' /\ FdsInv'
    BY <2>1, <2>2, <2>3 DEF WholeInv, BufsInv, FdsInv
  <2>6. StreamInv'
    BY <2>1, <2>2, <2>3 DEF StreamInv, Complete, Hdr
  <2>7. FoundInv'
    BY <2>1, <2>2, <2>3 DEF FoundInv, Found
  <2> QED
    BY <2>4, <2>5, <2>6, <2>7 DEF ImsgInv
<1> QED
  BY <1>1, <1>2, <1>3, <1>4, <1>5, <1>6, <1>7, <1>8 DEF ImsgNext

\* The invariant holds in every behaviour.
LEMMA ImsgInvariant == ImsgSpec => []ImsgInv
<1>1. ImsgInit => ImsgInv
  BY ImsgStarts
<1>2. ImsgInv /\ [ImsgNext]_imsgVars => ImsgInv'
  BY ImsgNextKeeps
<1> QED
  BY <1>1, <1>2, PTL DEF ImsgSpec

\* The queues are well formed.
LEMMA ImsgTyped ==
    ASSUME ImsgInv
    PROVE  ImsgTypeOK
<1>1. ImsgTypes /\ BufsInv /\ bufs \in Seq(Buffers)
  BY DEF ImsgInv, ImsgTypes
<1>2. DOMAIN bufs = 1..Len(bufs)
  BY <1>1, LenProperties
<1>3. ASSUME NEW i \in DOMAIN bufs
      PROVE  /\ bufs[i].rpos < bufs[i].wpos
             /\ Left(i) = Left(i - 1) + bufs[i].wpos - bufs[i].rpos
  <2>1. open
    BY <1>1, <1>2, EmptySeq DEF BufsInv
  <2> QED
    BY <1>2, <2>1, Lefts
<1> QED
  BY <1>1, <1>3 DEF ImsgTypeOK, ImsgTypes, Composed, Buffers, WireBytes, Bytes, Returned

\* There is room in the read buffer when imsg_read is called.
LEMMA RoomToRead ==
    ASSUME ImsgInv
    PROVE  ReadHasRoom
<1> SUFFICES ASSUME ~reading PROVE Len(rbuf) < ReadSize
  BY DEF ReadHasRoom
<1>1. Chained(composed) /\ StreamInv
  BY DEF ImsgInv
<1>2. Len(rbuf) \in Nat
  BY Positions
<1>3. ~Complete
  BY <1>1 DEF StreamInv
<1>4. CASE ~(Len(rbuf) >= HeaderSize)
  BY <1>2, <1>4, Numbers
<1>5. CASE Len(rbuf) >= HeaderSize
  <2>1. 1 \in 1..Len(rbuf)
    BY <1>2, <1>5, Numbers
  <2>2. rbuf[1].id \in 1..Len(composed)
    BY <1>1, <2>1 DEF StreamInv, IsByte
  <2>3. Hdr.len \in Nat /\ Hdr.len <= MaxImsgSize
    BY <1>1, <2>2, Ends DEF Hdr, ImsgInv, ImsgTypes
  <2>4. ~(Hdr.len <= Len(rbuf))
    BY <1>3, <1>5 DEF Complete
  <2> QED
    BY <1>2, <2>3, <2>4, Numbers
<1> QED
  BY <1>4, <1>5

\* A message that announces a descriptor finds it.
LEMMA DescriptorThere ==
    ASSUME ImsgInv
    PROVE  DescriptorArrivesFirst
<1> SUFFICES ASSUME reading, Complete, Hdr.fd # NoFd
             PROVE  fds # << >> /\ Head(fds) = Hdr.fd
  BY DEF DescriptorArrivesFirst
<1>1. PICK m : m = Len(delivered) + 1
  OBVIOUS
<1>2. FrontIs(m)
  BY <1>1, FrontMessage
<1>3. Hdr = composed[m]
  BY <1>2 DEF FrontIs
<1>4. composed[m].fd # NoFd
  BY <1>3
<1>5. fds # << >> /\ Head(fds) = m /\ composed[m].fd = m
  BY <1>1, <1>2, <1>4, FrontDescriptor
<1> QED
  BY <1>3, <1>5

----------------------------------------------------------------------------
(* The descriptors keep their order. *)

\* The descriptor a is at the place <<p, i>>.
PlacedAt(p, i, a) ==
    \/ p = 1 /\ i \in 1..Len(delivered) /\ delivered[i].fd = a
    \/ p = 2 /\ i \in 1..Len(fds) /\ fds[i] = a
    \/ p = 3 /\ i \in 1..Len(wire) /\ wire[i].fd = a
    \/ p = 4 /\ i \in 1..Len(bufs) /\ bufs[i].fd = a

\* The places of a descriptor.
LEMMA PlacesAre ==
    ASSUME ImsgInv, NEW a
    PROVE  /\ \A x \in Places(a) : \E p \in 1..4, i \in Nat : x = <<p, i>> /\ PlacedAt(p, i, a)
           /\ \A p, i : PlacedAt(p, i, a) => <<p, i>> \in Places(a)
<1>1. /\ DOMAIN delivered = 1..Len(delivered) /\ DOMAIN fds = 1..Len(fds)
      /\ DOMAIN wire = 1..Len(wire) /\ DOMAIN bufs = 1..Len(bufs)
  BY LenProperties DEF ImsgInv, ImsgTypes
<1>2. /\ 1..Len(delivered) \subseteq Nat /\ 1..Len(fds) \subseteq Nat
      /\ 1..Len(wire) \subseteq Nat /\ 1..Len(bufs) \subseteq Nat
  BY Positions
<1>3. 1 \in 1..4 /\ 2 \in 1..4 /\ 3 \in 1..4 /\ 4 \in 1..4
  OBVIOUS
<1>4. ASSUME NEW x \in Places(a)
      PROVE  \E p \in 1..4, i \in Nat : x = <<p, i>> /\ PlacedAt(p, i, a)
  <2>1. CASE \E i \in 1..Len(delivered) : x = <<1, i>> /\ delivered[i].fd = a
    BY <1>2, <1>3, <2>1 DEF PlacedAt
  <2>2. CASE \E i \in 1..Len(fds) : x = <<2, i>> /\ fds[i] = a
    BY <1>2, <1>3, <2>2 DEF PlacedAt
  <2>3. CASE \E i \in 1..Len(wire) : x = <<3, i>> /\ wire[i].fd = a
    BY <1>2, <1>3, <2>3 DEF PlacedAt
  <2>4. CASE \E i \in 1..Len(bufs) : x = <<4, i>> /\ bufs[i].fd = a
    BY <1>2, <1>3, <2>4 DEF PlacedAt
  <2> QED
    BY <1>1, <2>1, <2>2, <2>3, <2>4 DEF Places
<1>5. ASSUME NEW p, NEW i, PlacedAt(p, i, a) PROVE <<p, i>> \in Places(a)
  BY <1>1, <1>5 DEF PlacedAt, Places
<1> QED
  BY <1>4, <1>5

\* Descriptors are placed in their order, while the socket is open.
LEMMA PlacedInOrder ==
    ASSUME ImsgInv, open, NEW a \in 1..Len(composed), NEW b \in 1..Len(composed),
           NEW p \in 1..4, NEW q \in 1..4, NEW i \in Nat, NEW j \in Nat,
           PlacedAt(p, i, a), PlacedAt(q, j, b)
    PROVE  /\ p < q => a < b
           /\ p = q /\ i < j => a < b
           /\ p = q /\ i = j => a = b
           /\ composed[a].fd # NoFd
<1>1. /\ ImsgTypes /\ Chained(composed) /\ StreamInv /\ FdsInv
  BY DEF ImsgInv
<1>2. /\ Len(delivered) \in Nat /\ Whole \in Nat /\ Len(composed) \in Nat
      /\ Len(delivered) <= Whole /\ Whole <= Len(composed)
  BY Positions
<1>3. a # NoFd /\ b # NoFd /\ a \in Nat /\ b \in Nat
  BY <1>2 DEF NoFd
<1>4. ASSUME NEW c \in 1..Len(composed), NEW k \in Nat, PlacedAt(1, k, c)
      PROVE  c = k /\ c <= Len(delivered) /\ composed[c].fd # NoFd
  <2>1. k \in 1..Len(delivered) /\ delivered[k].fd = c
    BY <1>4 DEF PlacedAt
  <2>2. delivered[k] = [id |-> k, fd |-> composed[k].fd]
    BY <1>1, <2>1 DEF StreamInv
  <2>3. composed[k].fd = c /\ k \in 1..Len(composed)
    BY <1>2, <2>1, <2>2
  <2>4. composed[k].fd \in {NoFd, k}
    BY <1>1, <2>3 DEF Chained
  <2> QED
    BY <1>2, <2>1, <2>3, <2>4 DEF NoFd
<1>5. ASSUME NEW c, c # NoFd, NEW k \in Nat, PlacedAt(2, k, c) \/ PlacedAt(3, k, c)
      PROVE  Due(composed, Len(delivered), c) /\ (PlacedAt(2, k, c) => k \in 1..Len(fds) /\ fds[k] = c)
             /\ (PlacedAt(3, k, c) => k \in 1..Len(wire) /\ wire[k].fd = c)
  <2>1. PlacedAt(2, k, c) => k \in 1..Len(fds) /\ fds[k] = c
    BY DEF PlacedAt
  <2>2. PlacedAt(3, k, c) => k \in 1..Len(wire) /\ wire[k].fd = c
    BY DEF PlacedAt
  <2>3. /\ \A n \in 1..Len(fds) : Due(composed, Len(delivered), fds[n])
        /\ \A n \in 1..Len(wire) :
             wire[n].fd # NoFd => Due(composed, Len(delivered), wire[n].fd)
    BY <1>1 DEF FdsInv
  <2>4. PlacedAt(2, k, c) => Due(composed, Len(delivered), c)
    BY <2>1, <2>3
  <2>5. PlacedAt(3, k, c) => Due(composed, Len(delivered), c)
    BY <1>5, <2>2, <2>3
  <2> QED
    BY <1>5, <2>1, <2>2, <2>4, <2>5
<1>6. \A c : Due(composed, Len(delivered), c) => Len(delivered) < c /\ composed[c].fd # NoFd
  BY <1>2 DEF Due
<1>7. ASSUME NEW c, c # NoFd, NEW k \in Nat, PlacedAt(4, k, c)
      PROVE  /\ k \in 1..Len(bufs) /\ bufs[k].fd = c /\ c = Whole + k /\ composed[c].fd # NoFd
             /\ Len(delivered) < c
  <2>1. k \in 1..Len(bufs) /\ bufs[k].fd = c
    BY <1>7 DEF PlacedAt
  <2>2. c = Whole + k /\ composed[c].fd # NoFd
    BY <1>7, <2>1, BufferIs
  <2> QED
    BY <1>2, <2>1, <2>2
<1>8. composed[a].fd # NoFd
  <2>1. p = 1 \/ p = 2 \/ p = 3 \/ p = 4
    OBVIOUS
  <2> QED
    BY <1>3, <1>4, <1>5, <1>6, <1>7, <2>1
<1>9. p = q => (i < j => a < b) /\ (i = j => a = b)
  <2>1. CASE p = 1 /\ q = 1
    BY <1>4, <2>1
  <2>2. CASE p = 2 /\ q = 2
    <3>1. i \in 1..Len(fds) /\ fds[i] = a
      BY <2>2 DEF PlacedAt
    <3>2. j \in 1..Len(fds) /\ fds[j] = b
      BY <2>2 DEF PlacedAt
    <3> QED
      BY <1>1, <3>1, <3>2 DEF FdsInv
  <2>3. CASE p = 3 /\ q = 3
    <3>1. i \in 1..Len(wire) /\ wire[i].fd = a
      BY <2>3 DEF PlacedAt
    <3>2. j \in 1..Len(wire) /\ wire[j].fd = b
      BY <2>3 DEF PlacedAt
    <3> QED
      BY <1>1, <1>3, <3>1, <3>2 DEF FdsInv
  <2>4. CASE p = 4 /\ q = 4
    <3>1. a = Whole + i /\ b = Whole + j
      BY <1>3, <1>7, <2>4
    <3> QED
      BY <1>2, <3>1
  <2> QED
    BY <2>1, <2>2, <2>3, <2>4
<1>10. p < q => a < b
  <2>1. CASE p = 1 /\ q > 1
    <3>1. a <= Len(delivered)
      BY <1>4, <2>1
    <3>2. Len(delivered) < b
      <4>1. q = 2 \/ q = 3 \/ q = 4
        BY <2>1
      <4> QED
        BY <1>3, <1>5, <1>6, <1>7, <4>1
    <3> QED
      BY <1>2, <1>3, <3>1, <3>2
  <2>2. CASE p = 2 /\ q = 3
    <3>1. i \in 1..Len(fds) /\ fds[i] = a
      BY <2>2 DEF PlacedAt
    <3>2. j \in 1..Len(wire) /\ wire[j].fd = b
      BY <2>2 DEF PlacedAt
    <3> QED
      BY <1>1, <1>3, <3>1, <3>2 DEF FdsInv
  <2>3. CASE p = 2 /\ q = 4
    <3>1. i \in 1..Len(fds) /\ fds[i] = a
      BY <2>3 DEF PlacedAt
    <3>2. j \in 1..Len(bufs) /\ bufs[j].fd = b
      BY <2>3 DEF PlacedAt
    <3> QED
      BY <1>1, <1>3, <3>1, <3>2 DEF FdsInv
  <2>4. CASE p = 3 /\ q = 4
    <3>1. i \in 1..Len(wire) /\ wire[i].fd = a
      BY <2>4 DEF PlacedAt
    <3>2. j \in 1..Len(bufs) /\ bufs[j].fd = b
      BY <2>4 DEF PlacedAt
    <3> QED
      BY <1>1, <1>3, <3>1, <3>2 DEF FdsInv
  <2> QED
    BY <2>1, <2>2, <2>3, <2>4
<1> QED
  BY <1>8, <1>9, <1>10

\* Every descriptor is in one place, and they are in order.
LEMMA DescriptorsOrdered ==
    ASSUME ImsgInv
    PROVE  DescriptorsInOrder
<1> SUFFICES ASSUME open, NEW d \in DOMAIN composed
             PROVE  /\ IF composed[d].fd = NoFd THEN Places(d) = {}
                       ELSE \E x \in Places(d) : Places(d) = {x}
                    /\ \A x \in Places(d) : \A e \in 1..(d - 1) :
                         \A y \in Places(e) : Before(y, x)
  BY DEF DescriptorsInOrder
<1>1. /\ ImsgTypes /\ Chained(composed) /\ WholeInv /\ StreamInv /\ FoundInv /\ composed \in Seq(Composed)
  BY DEF ImsgInv, ImsgTypes
<1>2. /\ Len(composed) \in Nat /\ d \in 1..Len(composed) /\ d \in Nat /\ Len(delivered) \in Nat
      /\ Len(fds) \in Nat /\ Len(wire) \in Nat /\ Len(bufs) \in Nat
  BY <1>1, LenProperties, Positions
<1>3. ASSUME NEW x \in Places(d), NEW y \in Places(d) PROVE x = y
  <2>1. PICK p \in 1..4, i \in Nat : x = <<p, i>> /\ PlacedAt(p, i, d)
    BY PlacesAre
  <2>2. PICK q \in 1..4, j \in Nat : y = <<q, j>> /\ PlacedAt(q, j, d)
    BY PlacesAre
  <2>3. ~(p < q) /\ ~(p = q /\ i < j)
    BY <1>2, <2>1, <2>2, PlacedInOrder
  <2>4. ~(q < p) /\ ~(q = p /\ j < i)
    BY <1>2, <2>1, <2>2, PlacedInOrder
  <2>5. p = q /\ i = j
    BY <2>3, <2>4
  <2> QED
    BY <2>1, <2>2, <2>5
<1>4. ASSUME NEW x \in Places(d) PROVE composed[d].fd # NoFd
  <2>1. PICK p \in 1..4, i \in Nat : x = <<p, i>> /\ PlacedAt(p, i, d)
    BY PlacesAre
  <2> QED
    BY <1>2, <2>1, PlacedInOrder
<1>5. ASSUME composed[d].fd # NoFd PROVE Places(d) # {}
  <2>1. CASE d <= Len(delivered)
    <3>1. d \in 1..Len(delivered) /\ composed[d].fd = d
      BY <1>1, <1>2, <1>5, <2>1 DEF Chained
    <3>2. delivered[d] = [id |-> d, fd |-> composed[d].fd]
      BY <1>1, <3>1 DEF StreamInv
    <3>3. PlacedAt(1, d, d)
      BY <3>1, <3>2 DEF PlacedAt
    <3> QED
      BY <3>3, PlacesAre
  <2>2. CASE ~(d <= Len(delivered))
    <3>1. Due(composed, Len(delivered), d)
      BY <1>2, <1>5, <2>2 DEF Due
    <3>2. \/ \E k \in 1..Len(fds) : fds[k] = d
          \/ \E k \in 1..Len(wire) : wire[k].fd = d
          \/ \E k \in 1..Len(bufs) : bufs[k].fd = d
      BY <1>1, <1>2, <3>1 DEF FoundInv, Found
    <3>3. \E p, k : PlacedAt(p, k, d)
      BY <3>2 DEF PlacedAt
    <3> QED
      BY <3>3, PlacesAre
  <2> QED
    BY <2>1, <2>2
<1>6. ASSUME NEW x \in Places(d), NEW e \in 1..(d - 1), NEW y \in Places(e) PROVE Before(y, x)
  <2>0. e \in 1..Len(composed) /\ e < d /\ e \in Nat
    BY <1>2
  <2>1. PICK p \in 1..4, i \in Nat : x = <<p, i>> /\ PlacedAt(p, i, d)
    BY PlacesAre
  <2>2. PICK q \in 1..4, j \in Nat : y = <<q, j>> /\ PlacedAt(q, j, e)
    BY PlacesAre
  <2>3. (p < q => d < e) /\ (p = q /\ i < j => d < e) /\ (p = q /\ i = j => d = e)
    BY <1>2, <2>0, <2>1, <2>2, PlacedInOrder
  <2>4. q < p \/ (q = p /\ j < i)
    BY <1>2, <2>0, <2>3
  <2> QED
    BY <2>1, <2>2, <2>4 DEF Before
<1> QED
  BY <1>3, <1>4, <1>5, <1>6

\* The three properties of the library hold for any lengths and any cuts.
THEOREM ImsgCorrect ==
    ImsgSpec => [](ImsgTypeOK /\ DescriptorsInOrder /\ DescriptorArrivesFirst /\ ReadHasRoom)
<1>1. ImsgInv => ImsgTypeOK /\ DescriptorsInOrder /\ DescriptorArrivesFirst /\ ReadHasRoom
  BY ImsgTyped, DescriptorsOrdered, DescriptorThere, RoomToRead
<1> QED
  BY <1>1, ImsgInvariant, PTL

\* The messages of c from the one behind n up to last.
Flight(c, n, last) == [i \in 1..(last - n) |-> [id |-> n + i, fd |-> c[n + i].fd]]

\* They are a sequence of messages.
LEMMA FlightIs ==
    ASSUME NEW c \in Seq(Composed), Len(c) <= MaxMsgs, NEW n \in Nat, NEW last \in Nat,
           n <= last, last <= Len(c)
    PROVE  /\ Flight(c, n, last) \in Seq(Returned)
           /\ Len(Flight(c, n, last)) = last - n
           /\ \A i \in 1..(last - n) :
                /\ Flight(c, n, last)[i] = [id |-> n + i, fd |-> c[n + i].fd]
                /\ n + i \in 1..Len(c)
<1>1. Len(c) \in Nat /\ last - n \in Nat
  OBVIOUS
<1>2. ASSUME NEW i \in 1..(last - n)
      PROVE  [id |-> n + i, fd |-> c[n + i].fd] \in Returned /\ n + i \in 1..Len(c)
  <2>1. n + i \in 1..Len(c) /\ n + i \in 1..MaxMsgs
    BY <1>1, Numbers
  <2>2. c[n + i] \in Composed
    BY <2>1, ElementOfSeq
  <2>3. c[n + i].fd \in 0..MaxMsgs
    BY <2>2 DEF Composed
  <2> QED
    BY <2>1, <2>3 DEF Returned
<1> DEFINE f == [i \in 1..(last - n) |-> [id |-> n + i, fd |-> c[n + i].fd]]
<1>3. f \in [1..(last - n) -> Returned]
  BY <1>2
<1>4. \A i \in 1..(last - n) : f[i] = [id |-> n + i, fd |-> c[n + i].fd]
  OBVIOUS
<1>5. Flight(c, n, last) = f
  BY DEF Flight
<1> HIDE DEF f
<1>6. f \in Seq(Returned) /\ Len(f) = last - n
  BY <1>1, <1>3
<1> QED
  BY <1>2, <1>4, <1>5, <1>6

\* What is under way.
LEMMA InFlightIs ==
    ASSUME ImsgInv
    PROVE  /\ InFlight = Flight(composed, Len(delivered), IF open THEN Len(composed) ELSE limit)
           /\ ~open => limit = Whole
           /\ Len(composed) <= MaxMsgs /\ composed \in Seq(Composed)
  BY DEF InFlight, Flight, Whole, ImsgInv, ImsgTypes

\* imsg_compose puts a message into the channel.
LEMMA ComposeRefines ==
    ASSUME ImsgInv, NEW len \in Lens, NEW hasfd \in BOOLEAN, imsg_compose(len, hasfd), ImsgInv'
    PROVE  \E m \in Returned : open /\ InFlight' = Append(InFlight, m) /\ UNCHANGED <<delivered, open>>
<1> DEFINE N == Len(composed)
           D == Len(delivered)
           A == Flight(composed, D, N)
           B == Flight(composed', D, N + 1)
           m == [id |-> N + 1, fd |-> composed'[N + 1].fd]
<1>1. /\ open /\ open' = open /\ delivered' = delivered
  BY DEF imsg_compose
<1>2. N \in Nat /\ D \in Nat /\ D <= N
  BY Positions
<1>3. /\ composed \in Seq(Composed) /\ Len(composed) <= MaxMsgs /\ InFlight = A
  BY <1>1, InFlightIs
<1>4. Len(composed') = N + 1 /\ \A i \in 1..N : composed'[i] = composed[i]
  <2>1. PICK x : composed' = Append(composed, x)
    BY DEF imsg_compose
  <2>2. \A i \in 1..N : composed'[i] = composed[i]
    BY <1>3, <2>1
  <2>3. Len(composed') = N + 1
    BY <1>3, <2>1
  <2> QED
    BY <2>2, <2>3
<1>5. /\ composed' \in Seq(Composed) /\ Len(composed') <= MaxMsgs
  BY DEF ImsgInv, ImsgTypes
<1>6. InFlight' = B
  BY <1>1, <1>4 DEF InFlight, Flight
<1> HIDE DEF N, D
<1>7. /\ A \in Seq(Returned) /\ Len(A) = N - D
      /\ \A i \in 1..(N - D) : A[i] = [id |-> D + i, fd |-> composed[D + i].fd] /\ D + i \in 1..N
  <2>1. N <= Len(composed) /\ 1..Len(composed) = 1..N
    BY <1>2 DEF N
  <2> QED
    BY <1>2, <1>3, <2>1, FlightIs
<1>8. /\ B \in Seq(Returned) /\ Len(B) = (N + 1) - D
      /\ \A i \in 1..((N + 1) - D) : B[i] = [id |-> D + i, fd |-> composed'[D + i].fd]
  <2>1. N + 1 \in Nat /\ D <= N + 1 /\ N + 1 <= Len(composed')
    BY <1>2, <1>4
  <2> QED
    BY <1>2, <1>5, <2>1, FlightIs
<1> HIDE DEF A, B
<1>9. m \in Returned
  <2>1. (N + 1) - D \in 1..((N + 1) - D) /\ D + ((N + 1) - D) = N + 1
    BY <1>2
  <2>2. B[(N + 1) - D] = m
    BY <1>8, <2>1
  <2> QED
    BY <1>8, <2>1, <2>2, ElementOfSeq
<1> HIDE DEF m
<1>10. /\ Append(A, m) \in Seq(Returned) /\ Len(Append(A, m)) = (N - D) + 1
       /\ \A i \in 1..(N - D) : Append(A, m)[i] = A[i]
       /\ Append(A, m)[(N - D) + 1] = m
  BY <1>7, <1>9, Added
<1>11. ASSUME NEW i \in 1..Len(B) PROVE B[i] = Append(A, m)[i]
  <2>1. i \in 1..((N + 1) - D)
    BY <1>8
  <2>2. CASE i \in 1..(N - D)
    BY <1>4, <1>7, <1>8, <1>10, <2>1, <2>2
  <2>3. CASE i = (N - D) + 1
    <3>1. D + i = N + 1
      BY <1>2, <2>3
    <3> QED
      BY <1>8, <1>10, <2>1, <2>3, <3>1 DEF m
  <2>4. i \in 1..(N - D) \/ i = (N - D) + 1
    BY <1>2, <2>1
  <2> QED
    BY <2>2, <2>3, <2>4
<1>12. Len(B) = Len(Append(A, m))
  BY <1>2, <1>8, <1>10
<1>13. B = Append(A, m)
  BY <1>8, <1>10, <1>11, <1>12, SeqEqual
<1> QED
  BY <1>1, <1>3, <1>6, <1>9, <1>13

\* imsg_get takes the first message out of the channel.
LEMMA GetRefines ==
    ASSUME ImsgInv, imsg_get
    PROVE  /\ InFlight # << >> /\ delivered' = Append(delivered, Head(InFlight))
           /\ InFlight' = Tail(InFlight) /\ open' = open
<1>0. PICK m \in Nat : m = Len(delivered) + 1
  BY Positions
<1>1. /\ composed' = composed /\ open' = open /\ limit' = limit
  BY DEF imsg_get
<1>2. FrontIs(m) /\ GetMoves(m)
  BY <1>0, GetStep
<1>3. /\ delivered' = Append(delivered, [id |-> m, fd |-> composed[m].fd]) /\ Len(delivered') = m
      /\ m \in 1..Len(composed) /\ m <= Whole
  BY <1>2 DEF FrontIs, GetMoves
<1>4. PICK last : last = IF open THEN Len(composed) ELSE limit
  OBVIOUS
<1>5. /\ last \in Nat /\ Whole <= last /\ last <= Len(composed) /\ Len(composed) \in Nat
      /\ Whole \in Nat /\ Len(delivered) = m - 1
  BY <1>0, <1>4, Positions, InFlightIs
<1> DEFINE A == Flight(composed, m - 1, last)
           B == Flight(composed, m, last)
<1>6. /\ composed \in Seq(Composed) /\ Len(composed) <= MaxMsgs /\ InFlight = A
  BY <1>4, <1>5, InFlightIs
<1>7. InFlight' = B
  BY <1>1, <1>3, <1>4 DEF InFlight, Flight
<1>8. /\ A \in Seq(Returned) /\ Len(A) = last - (m - 1)
      /\ \A i \in 1..(last - (m - 1)) : A[i] = [id |-> (m - 1) + i, fd |-> composed[(m - 1) + i].fd]
  <2>1. m - 1 \in Nat /\ m - 1 <= last
    BY <1>3, <1>5
  <2> QED
    BY <1>5, <1>6, <2>1, FlightIs
<1>9. /\ B \in Seq(Returned) /\ Len(B) = last - m
      /\ \A i \in 1..(last - m) : B[i] = [id |-> m + i, fd |-> composed[m + i].fd]
  <2>1. m <= last
    BY <1>3, <1>5
  <2> QED
    BY <1>5, <1>6, <2>1, FlightIs
<1> HIDE DEF A, B
<1>10. 1 \in 1..(last - (m - 1)) /\ (m - 1) + 1 = m /\ last - (m - 1) # 0
  BY <1>3, <1>5
<1>11. A # << >> /\ Head(A) = A[1]
  BY <1>8, <1>10, EmptySeq
<1>12. Head(A) = [id |-> m, fd |-> composed[m].fd]
  BY <1>8, <1>10, <1>11
<1>13. /\ Tail(A) \in Seq(Returned) /\ Len(Tail(A)) = Len(A) - 1
       /\ \A i \in 1..Len(Tail(A)) : Tail(A)[i] = A[i + 1]
  BY <1>8, <1>11, HeadTailProperties
<1>14. Len(Tail(A)) = Len(B)
  BY <1>3, <1>5, <1>8, <1>9, <1>13
<1>15. ASSUME NEW i \in 1..Len(B) PROVE B[i] = Tail(A)[i]
  <2>1. i \in 1..(last - m) /\ i + 1 \in 1..(last - (m - 1)) /\ (m - 1) + (i + 1) = m + i
    BY <1>3, <1>5, <1>9
  <2> QED
    BY <1>8, <1>9, <1>13, <1>14, <2>1
<1>16. B = Tail(A)
  BY <1>9, <1>13, <1>14, <1>15, SeqEqual
<1> QED
  BY <1>1, <1>3, <1>6, <1>7, <1>11, <1>12, <1>16

\* msgbuf_clear loses the last messages.
LEMMA ClearRefines ==
    ASSUME ImsgInv, msgbuf_clear
    PROVE  /\ open /\ open' = FALSE /\ delivered' = delivered
           /\ \E k \in 0..Len(InFlight) : InFlight' = SubSeq(InFlight, 1, k)
<1> DEFINE N == Len(composed)
           D == Len(delivered)
           W == Whole
           A == Flight(composed, D, N)
           B == Flight(composed, D, W)
<1>1. /\ open /\ open' = FALSE /\ delivered' = delivered /\ composed' = composed
      /\ limit' = Len(composed) - Len(bufs)
  BY DEF msgbuf_clear
<1>2. limit' = W
  BY <1>1 DEF Whole
<1>3. N \in Nat /\ D \in Nat /\ W \in Nat /\ D <= W /\ W <= N
  BY Positions
<1>4. /\ composed \in Seq(Composed) /\ Len(composed) <= MaxMsgs /\ InFlight = A
  BY <1>1, InFlightIs
<1>5. InFlight' = B
  BY <1>1, <1>2 DEF InFlight, Flight
<1> HIDE DEF N, D, W
<1>6. /\ A \in Seq(Returned) /\ Len(A) = N - D
      /\ \A i \in 1..(N - D) : A[i] = [id |-> D + i, fd |-> composed[D + i].fd]
  <2>1. D <= N /\ N <= Len(composed)
    BY <1>3 DEF N
  <2> QED
    BY <1>3, <1>4, <2>1, FlightIs
<1>7. /\ B \in Seq(Returned) /\ Len(B) = W - D
      /\ \A i \in 1..(W - D) : B[i] = [id |-> D + i, fd |-> composed[D + i].fd]
  <2>1. W <= Len(composed)
    BY <1>3 DEF N
  <2> QED
    BY <1>3, <1>4, <2>1, FlightIs
<1> HIDE DEF A, B
<1> DEFINE k == W - D
<1>8. k \in 0..(N - D) /\ k \in Int /\ 1 \in Int /\ k \in Nat
  BY <1>3
<1>9. /\ SubSeq(A, 1, k) \in Seq(Returned) /\ Len(SubSeq(A, 1, k)) = k
      /\ \A i \in 1..k : SubSeq(A, 1, k)[i] = A[i]
  <2> HIDE DEF k
  <2>1. \A i \in 1..k : A[i] \in Returned
    BY <1>6, <1>8, ElementOfSeq
  <2>2. /\ SubSeq(A, 1, k) \in Seq(Returned)
        /\ Len(SubSeq(A, 1, k)) = IF 1 <= k THEN k - 1 + 1 ELSE 0
        /\ \A i \in 1..(k - 1 + 1) : SubSeq(A, 1, k)[i] = A[1 + i - 1]
    BY <1>8, <2>1, SubSeqProperties
  <2> QED
    BY <1>8, <2>2
<1>10. ASSUME NEW i \in 1..Len(B) PROVE B[i] = SubSeq(A, 1, k)[i]
  <2>1. i \in 1..(W - D) /\ i \in 1..(N - D)
    BY <1>3, <1>7
  <2> QED
    BY <1>6, <1>7, <1>9, <2>1
<1>11. B = SubSeq(A, 1, k)
  <2>1. Len(B) = Len(SubSeq(A, 1, k))
    BY <1>7, <1>9
  <2> HIDE DEF k
  <2> QED
    BY <1>7, <1>9, <1>10, <2>1, SeqEqual
<1> HIDE DEF k
<1> QED
  BY <1>1, <1>4, <1>5, <1>6, <1>8, <1>11

\* The other steps leave the channel alone.
LEMMA OthersRefine ==
    ASSUME composed' = composed, delivered' = delivered, open' = open, limit' = limit
    PROVE  InFlight' = InFlight
  BY DEF InFlight

\* The imsg library implements a FIFO of messages with their descriptors,
\* whatever the lengths of the messages and however sendmsg and recvmsg cut the
\* stream (imsg.c, imsg-buffer.c).
THEOREM ImsgRefines == ImsgSpec => ImplementsFifo
<1>1. ImsgInit => Fifo!Init
  <2> SUFFICES ASSUME ImsgInit PROVE Fifo!Init
    OBVIOUS
  <2>1. composed = << >> /\ delivered = << >> /\ open = TRUE
    BY DEF ImsgInit
  <2>2. 1..(Len(composed) - Len(delivered)) = {}
    BY <2>1
  <2>3. InFlight = [i \in {} |-> [id |-> Len(delivered) + i, fd |-> composed[Len(delivered) + i].fd]]
    BY <2>1, <2>2 DEF InFlight
  <2>4. InFlight = << >>
    BY <2>3
  <2> QED
    BY <2>1, <2>4 DEF Fifo!Init
<1>2. ImsgInv /\ ImsgInv' /\ [ImsgNext]_imsgVars => [Fifo!Next]_(Fifo!vars)
  <2> SUFFICES ASSUME ImsgInv, ImsgInv', [ImsgNext]_imsgVars PROVE [Fifo!Next]_(Fifo!vars)
    OBVIOUS
  <2>1. ASSUME NEW len \in Lens, NEW hasfd \in BOOLEAN, imsg_compose(len, hasfd) PROVE Fifo!Next
    BY <2>1, ComposeRefines DEF Fifo!Next, Fifo!Compose, Returned
  <2>2. CASE msgbuf_clear
    BY <2>2, ClearRefines DEF Fifo!Next, Fifo!Close
  <2>3. CASE imsg_get
    BY <2>3, GetRefines DEF Fifo!Next, Fifo!Deliver
  <2>4. ASSUME composed' = composed, delivered' = delivered, open' = open, limit' = limit
        PROVE  UNCHANGED Fifo!vars
    BY <2>4, OthersRefine DEF Fifo!vars
  <2>5. CASE \E n \in 1..(MaxMsgs * MaxImsgSize) : msgbuf_write(n)
    BY <2>4, <2>5 DEF msgbuf_write
  <2>6. CASE \E n \in 1..ReadSize : imsg_read(n)
    BY <2>4, <2>6 DEF imsg_read
  <2>7. CASE imsg_get_none
    BY <2>4, <2>7 DEF imsg_get_none
  <2>8. CASE imsg_clear
    BY <2>4, <2>8 DEF imsg_clear
  <2>9. CASE UNCHANGED imsgVars
    BY <2>4, <2>9 DEF imsgVars
  <2> QED
    BY <2>1, <2>2, <2>3, <2>5, <2>6, <2>7, <2>8, <2>9 DEF ImsgNext
<1> QED
  BY <1>1, <1>2, ImsgInvariant, PTL DEF ImsgSpec, ImplementsFifo, Fifo!Spec
=============================================================================
