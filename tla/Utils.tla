------------------------------- MODULE Utils --------------------------------
(***************************************************************************)
(* Small algorithms, checked against what they compute over bounded        *)
(* inputs: hex_dump and cksum (src/hexdump.c), strtonum                    *)
(* (sys/wnt/winstrtonum.c) and strndup (sys/wnt/winstrndup.c), which the   *)
(* configuration parser uses on Windows.                                   *)
(*                                                                         *)
(* A dump goes byte by byte, a step for each; the other calls are single   *)
(* steps made between dumps.  Byte i of the dumped data is the number i,   *)
(* and a character shown for it, a digit or the byte itself, is i as well. *)
(***************************************************************************)
EXTENDS Integers, Sequences, SequencesExt, FiniteSetsExt, Functions

CONSTANTS
    MaxDump,     \* bound on the bytes dumped
    LLONG_MAX,   \* the largest long long
    MaxText,     \* bound on the length of a string to copy
    MaxSummed    \* bound on the bytes summed

VARIABLES
    dump,     \* the running hex_dump
    call      \* the last of the other calls, and its result

utilsVars == <<dump, call>>

LLONG_MIN == -LLONG_MAX - 1
Space == 0
NoCall == [fn |-> "none"]

-----------------------------------------------------------------------------
(* hex_dump *)

Line == 16

\* sizeof hexstr, and the precision of %-50.50s.
HexRoom == Line * 3 + 5
HexPrecision == 50

FirstOf(s, n) == SubSeq(s, 1, Min({n, Len(s)}))
strncat(s, t, room) == s \o FirstOf(t, room - Len(s) - 1)

Shown(d) == [addr |-> d.addr, hex |-> FirstOf(d.hex, HexPrecision), chars |-> d.char]

\* The address of a line is taken at its first byte.
StoresAddress(n) == n % Line = 1

\* One turn of the loop; n counts from 1.
hex_dump ==
    LET n    == dump.n + 1
        addr == IF StoresAddress(n) THEN n - 1 ELSE dump.addr
        hex  == strncat(dump.hex, <<n, n, Space>>, HexRoom)
        char == strncat(dump.char, <<n>>, Line + 5)
        full == [dump EXCEPT !.n = n, !.addr = addr, !.hex = hex, !.char = char]
    IN  /\ dump.n < MaxDump /\ ~dump.done
        /\ dump' =
             IF n % Line = 0
             THEN [full EXCEPT !.out = Append(@, Shown(full)), !.hex = <<>>, !.char = <<>>]
             ELSE IF n % 8 = 0
             THEN [full EXCEPT !.hex = strncat(@, <<Space, Space>>, HexRoom),
                               !.char = strncat(@, <<Space>>, Line + 5)]
             ELSE full
        /\ UNCHANGED call

\* The loop ends: size bytes are dumped.
hex_dump_end ==
    /\ ~dump.done
    /\ dump' = [dump EXCEPT !.done = TRUE,
                            !.out = IF dump.hex # <<>> THEN Append(@, Shown(dump)) ELSE @]
    /\ UNCHANGED call

-----------------------------------------------------------------------------
(* cksum: words of two bytes, and a last byte when their number is odd *)

Base == 3   \* values of a byte
Word(s, i) == s[i] + Base * s[i + 1]

Rest(s, i) == IF i = Len(s) THEN s[i] ELSE 0

Summed(s) ==
    LET sum[i \in 1..(Len(s) + 2)] ==
            IF i < Len(s) THEN Word(s, i) + sum[i + 2] ELSE Rest(s, i)
    IN  sum[1]

\* ~sum
cksum(s) == -Summed(s) - 1

-----------------------------------------------------------------------------
(* strtonum *)

\* A text is the number at its start, if there is one, and whether more follows.
Texts == [num : (LLONG_MIN - 2)..(LLONG_MAX + 2), digits : BOOLEAN, more : BOOLEAN]

\* _strtoi64: the value saturates and errno says so.
strtoi64(t) ==
    IF ~t.digits THEN [ll |-> 0, range |-> FALSE]
    ELSE [ll |-> Max({LLONG_MIN, Min({LLONG_MAX, t.num})}),
          range |-> t.num \notin LLONG_MIN..LLONG_MAX]

TooLarge(r, maxval) == (r.ll = LLONG_MAX /\ r.range) \/ r.ll > maxval
TooSmall(r, minval) == (r.ll = LLONG_MIN /\ r.range) \/ r.ll < minval

strtonum(t, minval, maxval) ==
    LET r     == strtoi64(t)
        error == IF minval > maxval \/ ~t.digits \/ t.more THEN "invalid"
                 ELSE IF TooSmall(r, minval) THEN "too small"
                 ELSE IF TooLarge(r, maxval) THEN "too large"
                 ELSE "none"
    IN  [error |-> error, ll |-> IF error = "none" THEN r.ll ELSE 0]

-----------------------------------------------------------------------------
(* strndup: of bytes 1, ..., len of a text, 0 when the text ends *)

strnlen(s, maxlen) == Min({maxlen} \cup {i - 1 : i \in {j \in 1..Len(s) : s[j] = 0}})

Terminated(s, maxlen) == strnlen(s, maxlen) + 1

\* malloc leaves the memory undefined: -1.
strndup(s, maxlen) ==
    LET len == strnlen(s, maxlen)
    IN  [i \in 1..(len + 1) |-> IF i = Terminated(s, maxlen) THEN 0
                                ELSE IF i <= len THEN s[i] ELSE -1]

-----------------------------------------------------------------------------
UtilsInit ==
    /\ dump = [n |-> 0, addr |-> -1, hex |-> <<>>, char |-> <<>>, out |-> <<>>, done |-> FALSE]
    /\ call = NoCall

BetweenDumps == dump.n = 0 /\ ~dump.done /\ call = NoCall /\ UNCHANGED dump

CallStrtonum ==
    /\ BetweenDumps
    /\ \E t \in Texts : \E lo, hi \in LLONG_MIN..LLONG_MAX :
         call' = [fn |-> "strtonum", t |-> t, lo |-> lo, hi |-> hi, r |-> strtonum(t, lo, hi)]

CallStrndup ==
    /\ BetweenDumps
    /\ \E n \in 0..MaxText : \E s \in [1..n -> {0, 1, 2}] : \E maxlen \in 0..n :
         call' = [fn |-> "strndup", s |-> s, maxlen |-> maxlen, r |-> strndup(s, maxlen)]

CallCksum ==
    /\ BetweenDumps
    /\ \E n \in 0..MaxSummed : \E s \in [1..n -> 0..(Base - 1)] :
         call' = [fn |-> "cksum", s |-> s, r |-> cksum(s)]

UtilsNext ==
    \/ call = NoCall /\ (hex_dump \/ hex_dump_end)
    \/ CallStrtonum \/ CallStrndup \/ CallCksum

UtilsSpec == UtilsInit /\ [][UtilsNext]_utilsVars

-----------------------------------------------------------------------------
(* Properties *)

\* The types of the columns of hex_dump, which leave room for their terminator.
UtilsTypeOK ==
    /\ dump.n \in 0..MaxDump /\ dump.done \in BOOLEAN
    /\ Len(dump.hex) < HexRoom /\ Len(dump.char) < Line + 5

\* A dump shows every byte once, in order, in both columns and beside the
\* address of its line: neither the buffers of hex_dump nor the precision of
\* its format cut a full line with its gap.
DumpShowsEveryByte ==
    LET bytes  == [i \in 1..dump.n |-> i]
        Of(s)  == SelectSeq(s, LAMBDA b : b # Space)
        twice  == FlattenSeq([i \in 1..dump.n |-> <<i, i>>])
    IN  dump.done =>
          /\ Of(FlattenSeq([l \in DOMAIN dump.out |-> dump.out[l].hex])) = twice
          /\ Of(FlattenSeq([l \in DOMAIN dump.out |-> dump.out[l].chars])) = bytes
          /\ \A l \in DOMAIN dump.out : dump.out[l].addr = Line * (l - 1)

\* strtonum accepts exactly the numbers between the bounds and says on which
\* side another one is, also where _strtoi64 saturates.
StrtonumInBounds ==
    call.fn = "strtonum" =>
        LET t == call.t
        IN  IF call.lo > call.hi \/ ~t.digits \/ t.more
            THEN call.r = [error |-> "invalid", ll |-> 0]
            ELSE call.r = [error |-> IF t.num < call.lo THEN "too small"
                                     ELSE IF t.num > call.hi THEN "too large" ELSE "none",
                           ll |-> IF t.num \in call.lo..call.hi THEN t.num ELSE 0]

\* strndup returns the text up to its end or to maxlen, and terminated there:
\* a reader of the copy meets no byte that was not written.
StrndupIsText ==
    call.fn = "strndup" =>
        LET r    == call.r
            Ends == {i \in 1..Len(r) : r[i] = 0}
        IN  /\ Ends # {}
            /\ \A i \in 1..(Min(Ends) - 1) : i <= call.maxlen /\ r[i] = call.s[i]
            /\ Min(Ends) = Len(r)

\* cksum takes every byte of the block into account, the last byte of an odd
\* block included: the first bytes of words count once, the second Base times.
CksumOfEveryByte ==
    call.fn = "cksum" =>
        call.r = -1 - FoldFunction(+, 0, [i \in 1..Len(call.s) |->
                                       IF i % 2 = 1 THEN call.s[i] ELSE Base * call.s[i]])

=============================================================================
