--------------------------- MODULE MCAccessStore ---------------------------
EXTENDS AccessStore, TLC

CONSTANTS u1, u2

\* One user that lapses at time 1 and one that never does.
MCUsers == {u1, u2}
MCExpires == (u1 :> 1) @@ (u2 :> Never)
=============================================================================
