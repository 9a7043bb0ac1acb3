------------------------------ MODULE Compress ------------------------------
(***************************************************************************)
(* The compression of src/compress.c: the loop of tnt_compress around      *)
(* deflate, the size that tnt_compress_sized appends and                   *)
(* tnt_uncompress_sized reads, and the sizes of the buffers.               *)
(*                                                                         *)
(* Data is its length.  zlib is external: a stream of n bytes compresses   *)
(* to some number of bytes, at least 8 and at most n + Overhead.           *)
(***************************************************************************)
EXTENDS Integers

CONSTANTS
    MaxSize,   \* bound on the size of the data
    Overhead   \* the most that zlib adds to short data

VARIABLES z    \* the call under way: its step, sizes and result

compressVars == <<z>>

Z_MIN_SPACE == 6
SizeofInt == 4

AtLeast(n) == IF n < Z_MIN_SPACE THEN Z_MIN_SPACE ELSE n

Idle == [step |-> "idle", in_size |-> 0, stream |-> 0, total_out |-> 0, avail_out |-> 0,
         space |-> 0, ret |-> "none", trailer |-> 0, uncompressed_size |-> 0]

\* tnt_compress up to the loop.  deflateInit may fail.
tnt_compress(n, stream) ==
    /\ z.step \in {"idle", "NULL", "done"}
    /\ stream \in 8..(n + Overhead)
    /\ z' = [Idle EXCEPT !.step = "deflate", !.in_size = n, !.stream = stream,
                         !.space = AtLeast(n), !.avail_out = AtLeast(n)]

deflateInit_fails(n) ==
    /\ z.step \in {"idle", "NULL", "done"}
    /\ z' = [Idle EXCEPT !.step = "NULL", !.in_size = n, !.ret = "Z_MEM_ERROR"]

\* deflate(Z_FINISH): the rest of the stream if there is room for it, else as
\* much as there is room for, and an error when there is no room at all.
Deflate(c) ==
    LET rest == c.stream - c.total_out
        n    == IF rest <= c.avail_out THEN rest ELSE c.avail_out
    IN  [c EXCEPT !.total_out = @ + n, !.avail_out = @ - n,
                  !.ret = IF rest <= c.avail_out THEN "Z_STREAM_END"
                          ELSE IF c.avail_out = 0 THEN "Z_BUF_ERROR" ELSE "Z_OK"]

\* Mutant: the smaller size is allocated and the larger one made available.
Grow_swapped(c) ==
    LET half == c.in_size \div 2
    IN  [c EXCEPT !.space = c.total_out + IF half < Z_MIN_SPACE THEN half ELSE Z_MIN_SPACE,
                  !.avail_out = AtLeast(half)]
\* realloc, and the room that deflate is told of.
Grow(c) ==
    LET half == c.in_size \div 2
    IN  [c EXCEPT !.space = c.total_out + AtLeast(half),
                  !.avail_out = IF half < Z_MIN_SPACE THEN half ELSE Z_MIN_SPACE]

deflate ==
    LET d == Deflate(z)
    IN  /\ z.step = "deflate"
        /\ z' = CASE d.ret = "Z_OK" -> Grow(d)
                  [] d.ret = "Z_STREAM_END" -> [d EXCEPT !.step = "compressed"]
                  [] OTHER -> [d EXCEPT !.step = "NULL"]

Trailer(c) == c.in_size

\* The rest of tnt_compress_sized.
tnt_compress_sized ==
    /\ z.step = "compressed"
    /\ z' = [z EXCEPT !.step = "sized", !.space = z.total_out + SizeofInt,
                      !.trailer = Trailer(z), !.total_out = @ + SizeofInt]

\* inflate(Z_FINISH) ends the stream if it is given all of it and has room for
\* what comes out.
tnt_uncompress(c, in_size, original_len) ==
    IF in_size >= c.stream /\ original_len >= c.in_size
    THEN [c EXCEPT !.step = "done", !.uncompressed_size = original_len]
    ELSE [c EXCEPT !.step = "NULL", !.ret = "inflate"]

tnt_uncompress_sized ==
    /\ z.step = "sized"
    /\ z' = tnt_uncompress(z, z.total_out - SizeofInt, z.trailer)

inflateInit_fails ==
    /\ z.step = "sized"
    /\ z' = [z EXCEPT !.step = "NULL", !.ret = "Z_MEM_ERROR"]

CompressInit == z = Idle

CompressNext ==
    \/ \E n \in 0..MaxSize, extra \in 0..(MaxSize + Overhead) : tnt_compress(n, 8 + extra)
    \/ \E n \in 0..MaxSize : deflateInit_fails(n)
    \/ deflate \/ tnt_compress_sized \/ tnt_uncompress_sized \/ inflateInit_fails

CompressSpec == CompressInit /\ [][CompressNext]_compressVars

-----------------------------------------------------------------------------
(* Properties *)

\* The types of the sizes that compress.c computes, and how far the calls are.
CompressTypeOK ==
    /\ z.step \in {"idle", "deflate", "compressed", "sized", "done", "NULL"}
    /\ z.in_size \in 0..MaxSize /\ z.total_out \in 0..(MaxSize + Overhead + SizeofInt)

\* deflate is never told of more room than there is behind what it has
\* written, although the two sizes are computed apart.
DeflateHasRoom == z.step = "deflate" => z.total_out + z.avail_out <= z.space

\* tnt_compress fails, if zlib finds memory, for data of less than two
\* bytes only: half of that is no room at all, and no stream fits in
\* Z_MIN_SPACE.  Longer data is compressed however many rounds it takes.
CompressFailsOnShort ==
    z.ret # "Z_MEM_ERROR" =>
        /\ z.step = "NULL" => z.in_size < 2
        /\ z.step \in {"compressed", "sized", "done"} => z.in_size >= 2

\* What tnt_compress_sized returns is uncompressed to data of the same size.
SizedRoundTrip ==
    /\ z.step = "done" => z.uncompressed_size = z.in_size
    /\ z.ret # "inflate"

=============================================================================
