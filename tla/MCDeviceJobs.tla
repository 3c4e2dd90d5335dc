----------------------------- MODULE MCDeviceJobs -----------------------------
(* Instances of DeviceJobs for TLC. *)
EXTENDS DeviceJobs, TLC

CONSTANTS r1, r2, d1, d2, w1

SharedIsolate == (r1 :> w1 @@ r2 :> w1)
OneRunner == (r1 :> w1)

Anyone == Permutations({d1, d2})

=============================================================================
