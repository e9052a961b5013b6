---------------------------- MODULE MCCreReload ----------------------------
EXTENDS CreReload, TLC

CONSTANTS p1, t1, t2, a1, a2

\* One entry, for the base.
Entries == <<p1>>
\* Neither threads nor addresses are told apart.
Same == Permutations({t1, t2}) \cup Permutations({a1, a2})
=============================================================================
