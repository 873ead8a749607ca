----------------------------- MODULE MCPayments -----------------------------
(***************************************************************************)
(* ann's account 1 and bob's account 2, a p2p transfer and a freeze on     *)
(* either side of the ownership check, and the routes of the OTP service.  *)
(***************************************************************************)
EXTENDS Payments, TLC

MCOwner == 1 :> "ann" @@ 2 :> "bob"
MCCurrencyOf == 1 :> "ETB" @@ 2 :> "ETB"
MCInitialRow == 1 :> [status |-> "ACTIVE", balance |-> 4]
             @@ 2 :> [status |-> "ACTIVE", balance |-> 4]

Ask(kind, customer, account, peer, status) ==
  [kind |-> kind, customer |-> customer, account |-> account, peer |-> peer,
   amount |-> 2, currency |-> "ETB", status |-> status]

PaymentCalls ==
  {Ask("p2p", "ann", 1, 2, "NULL"), Ask("p2p", "ann", 2, 1, "NULL"),
   Ask("freeze", "ann", 1, 1, "NULL"), Ask("update", "ann", 1, 1, "CLOSED")}

AskOtp(kind, customer, purpose, code) ==
  [kind |-> kind, customer |-> customer, purpose |-> purpose, code |-> code]

ForTransfer == "TRANSFER_VERIFICATION"

MCOtpCalls ==
  {AskOtp("send", "ann", ForTransfer, 1), AskOtp("send", "ann", "ACCOUNT_FREEZE", 1),
   AskOtp("send", "bob", ForTransfer, 1), AskOtp("verify", "ann", ForTransfer, 1),
   AskOtp("verify", "ann", "ACCOUNT_FREEZE", 1)}

Interchangeable == Permutations(Requests) \cup Permutations(OtpRequests)

\* A transfer asked for twice, with one code.
RetryCalls == {Ask("p2p", "ann", 1, 2, "NULL")}
RetryOtpCalls == {AskOtp("send", "ann", ForTransfer, 1),
                  AskOtp("verify", "ann", ForTransfer, 1)}
=============================================================================
