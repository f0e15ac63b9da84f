---------------------------- MODULE MCAtomicWrite -----------------------------
(* An instance of AtomicWrite for TLC. *)
EXTENDS AtomicWrite

CONSTANTS w1, w2

TwoWriters == {w1, w2}

=============================================================================
