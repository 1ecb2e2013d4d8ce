--------------------------- MODULE MCSessionLease ---------------------------
\* Three requests of one session on two processes; a turn may outlast a lease.
EXTENDS SessionLease, TLC

CONSTANTS r1, r2, r3, i1, i2

MCInstanceOf == (r1 :> i1) @@ (r2 :> i1) @@ (r3 :> i2)

=============================================================================
