------------------------------ MODULE ImsgFifo ------------------------------
(***************************************************************************)
(* What the imsg library promises to the two processes of the daemon, in   *)
(* one direction: the composed messages come out in order, each with its   *)
(* own descriptor or with none.  When the sender goes away the messages    *)
(* that are not on their way yet, the last ones, are lost.                 *)
(***************************************************************************)
EXTENDS Naturals, Sequences

CONSTANTS Messages  \* what may be composed

VARIABLES
    chan,       \* composed and not yet returned to the receiver
    delivered,  \* returned to the receiver
    open        \* the sender is there

vars == <<chan, delivered, open>>

Init ==
    /\ chan = <<>>
    /\ delivered = <<>>
    /\ open = TRUE

Compose(m) ==
    /\ open
    /\ chan' = Append(chan, m)
    /\ UNCHANGED <<delivered, open>>

Deliver ==
    /\ chan # <<>>
    /\ delivered' = Append(delivered, Head(chan))
    /\ chan' = Tail(chan)
    /\ UNCHANGED open

Close ==
    /\ open
    /\ open' = FALSE
    /\ \E k \in 0..Len(chan) : chan' = SubSeq(chan, 1, k)
    /\ UNCHANGED delivered

Next == Deliver \/ Close \/ \E m \in Messages : Compose(m)

Spec == Init /\ [][Next]_vars
=============================================================================
