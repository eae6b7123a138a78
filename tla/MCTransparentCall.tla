------------------------- MODULE MCTransparentCall -------------------------
(* Instances of TransparentCall for TLC. *)
EXTENDS TransparentCall

CONSTANTS s1, s2

\* A call to one server, and then one to it again or to all.
OneThenEither == <<{s1}, {s1, SidBroadcast}>>

\* A single call to a server, or to any.
One == <<{s1}>>
Any == <<{SidAny}>>

=============================================================================
