------------------------------- MODULE MCOtp -------------------------------
(***************************************************************************)
(* One customer and two purposes, two codes, calls of both kinds.          *)
(***************************************************************************)
EXTENDS Otp, TLC

SendOf(customer, purpose) ==
  [kind |-> "send", customer |-> customer, purpose |-> purpose, code |-> 1]
VerifyOf(purpose, code) ==
  [kind |-> "verify", customer |-> "ann", purpose |-> purpose, code |-> code]

AnyCalls ==
  {SendOf("ann", "transfer"), SendOf("ann", "freeze"),
   SendOf("stranger", "transfer"),
   VerifyOf("transfer", 1), VerifyOf("transfer", 2)}

\* One OTP under several verifies.
BurstCalls == {SendOf("ann", "transfer"), VerifyOf("transfer", 1)}

Interchangeable == Permutations(Requests)
=============================================================================
