----------------------------- MODULE MCMetaNet -----------------------------
(* Instances of MetaNet for TLC. *)
EXTENDS MetaNet

CONSTANTS a, b

\* a's configuration names b; b's names nobody.
OneSided == [n \in Nodes |-> IF n = a THEN <<b>> ELSE <<>>]

\* Each configuration names the other node.
Mutual == [n \in Nodes |-> IF n = a THEN <<b>> ELSE <<a>>]

\* No client asks for anything.
NoClient == [n \in Nodes |-> {}]

\* The client of a may ask for b.
ClientOfA == [n \in Nodes |-> IF n = a THEN {b} ELSE {}]
=============================================================================
