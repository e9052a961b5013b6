---------------------------- MODULE BaseMailbox -----------------------------
(***************************************************************************)
(* What the /gwctl channel promises a user of the gateway, without threads, *)
(* locks or files: every request is decided on once, is then owed to the    *)
(* bases it was decided for, and each base receives what it is owed in      *)
(* order and at most once.  ControlQueue implements it as long as the       *)
(* gateway does not crash and no base polls twice at a time.                *)
(***************************************************************************)
EXTENDS Naturals, Sequences

CONSTANTS Request, Base

VARIABLES
    open,       \* requests made and not decided on
    decided,    \* requests decided on
    owed,       \* what each base is still to receive
    got         \* what each base has received

vars == <<open, decided, owed, got>>

Init ==
    /\ open = {} /\ decided = {}
    /\ owed = [p \in Base |-> <<>>]
    /\ got = [p \in Base |-> <<>>]

Submit(i) ==
    /\ i \notin open \cup decided
    /\ open' = open \cup {i}
    /\ UNCHANGED <<decided, owed, got>>

\* A request is decided on for the bases B, or, with none, dropped.
Decide(i, B) ==
    /\ i \in open
    /\ open' = open \ {i}
    /\ decided' = decided \cup {i}
    /\ owed' = [p \in Base |-> IF p \in B THEN Append(owed[p], i) ELSE owed[p]]
    /\ UNCHANGED got

\* The first n requests owed to a base reach it, or are lost together.
TakeOff(p, n) ==
    owed' = [owed EXCEPT ![p] = SubSeq(@, n + 1, Len(@))]

HandOver(p, n) ==
    /\ TakeOff(p, n)
    /\ got' = [got EXCEPT ![p] = @ \o SubSeq(owed[p], 1, n)]
    /\ UNCHANGED <<open, decided>>

Lose(p, n) ==
    /\ TakeOff(p, n)
    /\ UNCHANGED <<open, decided, got>>

Next ==
    \/ \E i \in Request : Submit(i) \/ \E B \in SUBSET Base : Decide(i, B)
    \/ \E p \in Base : \E n \in 1..Len(owed[p]) : HandOver(p, n) \/ Lose(p, n)

Spec == Init /\ [][Next]_vars
=============================================================================
