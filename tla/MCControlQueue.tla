--------------------------- MODULE MCControlQueue ---------------------------
(* Small instances of ControlQueue: two bases, one end node, three requests. *)
EXTENDS ControlQueue, TLC

CONSTANTS t1, t2, p1, p2, d1, r1, f1, f2, m1, m2, NONE

MCThread == {t1, t2}
MCPeer == {p1, p2}
ThreadSymmetry == Permutations(MCThread)

\* f1 and f2 name p1; m1 names no base.
MCDeviceOfS == f1 :> NONE @@ f2 :> NONE @@ m1 :> NONE
MCHintOfS == f1 :> p1 @@ f2 :> p1 @@ m1 :> NONE

\* f1 and m1 name p1.
MCDeviceOfV == f1 :> NONE @@ m1 :> NONE
MCHintOfV == f1 :> p1 @@ m1 :> p1

\* f1 names p1, f2 is refused, and m2 is for the end node.
MCDeviceOfL == f1 :> NONE @@ f2 :> NONE @@ m2 :> d1
MCHintOfL == f1 :> p1 @@ f2 :> NONE @@ m2 :> NONE
=============================================================================
