------------------------------ MODULE MCMcpAuth ------------------------------
\* One sign-in and two refresh tokens, exchanged by two threads on two
\* instances; c2 is an id somebody presents that never registered.
EXTENDS McpAuth, TLC

CONSTANTS c1, c2, u1, u2

MCRegisteredUris == (c1 :> {u1}) @@ (c2 :> {})
Symmetry == Permutations(Slots) \cup Permutations(Instances)
                \cup Permutations(Refreshes)

=============================================================================
