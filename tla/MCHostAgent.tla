----------------------------- MODULE MCHostAgent -----------------------------
(* Small instances of HostAgent for TLC. *)
EXTENDS HostAgent

CONSTANTS r1, r2, v1

TwoRequests == {r1, r2}
\* The toggles copy the rest of the file, so that one version of it will do.
OneVersion == {v1}

RefusalOnly == {"refuse"}

=============================================================================
