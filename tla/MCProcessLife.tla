---------------------------- MODULE MCProcessLife -----------------------------
(* A small instance of ProcessLife for TLC. *)
EXTENDS ProcessLife

CONSTANTS c1, c2

TwoCalls == {c1, c2}

=============================================================================
