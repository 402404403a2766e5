----------------------------- MODULE MCFrontDoor -----------------------------
\* FrontDoor on small instances.
EXTENDS FrontDoor, TLC

CONSTANTS l1, l2, o1, o2, c1, c2, q1, q2

\* Both launches use the default port, or the second was given another.
OneOrTwoPorts == {l1 :> 8765 @@ l2 :> port : port \in {8765, 8766}}
=============================================================================
