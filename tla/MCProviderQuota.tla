--------------------------- MODULE MCProviderQuota ---------------------------
(* Instances of ProviderQuota for TLC. *)
EXTENDS ProviderQuota, TLC

CONSTANTS r1, r2, r3, k1, k2, k3, free, direct

Anyone == Permutations({r1, r2, r3}) \cup Permutations({k1, k2, k3})

=============================================================================
