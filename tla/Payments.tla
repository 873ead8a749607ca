------------------------------ MODULE Payments ------------------------------
(***************************************************************************)
(* The two state-changing tools, execute_p2p_transfer and freeze_account,  *)
(* with their OTP gate: Accounts and Otp over one database.  A request     *)
(* first runs OtpService.verify, which commits, and then goes on in the    *)
(* same session with a new transaction.  Beside the requests run calls of  *)
(* the routes otp/send and otp/verify.  Nothing tells a new request from a *)
(* second attempt at an earlier one (a client that waited ten seconds asks *)
(* again while the first attempt still runs): both are requests here.      *)
(***************************************************************************)
EXTENDS Accounts

CONSTANTS
  OtpRequests,  \* calls of the routes otp/send and otp/verify
  Codes,        \* six-digit codes
  MaxAttempts,  \* settings.otp_max_attempts
  OtpCalls,     \* what such a call, or the gate of a request, may ask for
  NoOtp         \* the answer of a SELECT that finds nothing

ASSUME OtpRequestsAreOthers == OtpRequests \cap Requests = {}
ASSUME OtpAssumptions ==  \* those of Otp
  /\ MaxAttempts \in Nat \ {0} /\ Codes # {}
  /\ NoOtp \notin Requests \cup OtpRequests
  /\ \A c \in OtpCalls : c.kind \in {"send", "verify"} /\ c.code \in Codes
  /\ IsFiniteSet(Requests \cup OtpRequests)

VARIABLES otp, otpCall, otpPc, created, seen, held, before

otpVars == <<otp, otpCall, otpPc, created, seen, held, before>>

O == INSTANCE Otp WITH Requests <- Requests \cup OtpRequests,
                       Calls <- OtpCalls, call <- otpCall, pc <- otpPc

-----------------------------------------------------------------------------
Gated(r) == call[r].kind \in {"p2p", "freeze"}

Purpose == [p2p |-> "TRANSFER_VERIFICATION", freeze |-> "ACCOUNT_FREEZE"]

\* The OtpVerifyRequest of verify_customer_otp.
AsksFor(r) == /\ otpCall[r].kind = "verify"
              /\ otpCall[r].customer = call[r].customer
              /\ Gated(r) => otpCall[r].purpose = Purpose[call[r].kind]

PaymentsInit ==
  /\ Init
  /\ O!Init
  /\ \A r \in Requests : AsksFor(r)

-----------------------------------------------------------------------------
Verify(r) ==
  /\ pc[r] = "gate"
  /\ O!Verify(r)
  /\ UNCHANGED vars

\* Fault: no raise once the OTP is marked EXPIRED.
Pass_Expired(r) ==
  /\ GatePass(r)
  /\ otpPc[r] \in {"ok", "expired"}
  /\ UNCHANGED otpVars

Pass(r) ==
  /\ GatePass(r)
  /\ otpPc[r] = "ok"
  /\ UNCHANGED otpVars

\* An OtpError, or a freeze that names no account and is not asked for a code.
Fail(r) ==
  /\ GateFail(r)
  /\ \/ otpPc[r] \in {"none", "expired", "wrong"}
     \/ otpPc[r] = "find" /\ call[r].kind = "freeze"
  /\ UNCHANGED otpVars

Go(r) == Ungated(r) /\ UNCHANGED otpVars

\* A thread that dies in its gate dies in verify or between verify and the
\* rest.
Die(r) ==
  /\ Lose(r)
  /\ IF pc[r] = "gate" /\ otpPc[r] \notin O!Answers THEN O!Lose(r)
                                                    ELSE UNCHANGED otpVars

PaymentStep(r) == Verify(r) \/ Pass(r) \/ Fail(r) \/ Go(r)

OtpStep(s) == (O!Send(s) \/ O!Verify(s)) /\ UNCHANGED vars
OtpLose(s) == O!Lose(s) /\ UNCHANGED vars
OtpLapse(s) == O!Lapse(s) /\ UNCHANGED vars

PaymentsFinished ==
  /\ AllAnswered
  /\ \A s \in OtpRequests : otpPc[s] \in O!Answers
  /\ UNCHANGED <<vars, otpVars>>

PaymentsNext ==
  \/ \E r \in Requests : PaymentStep(r) \/ Die(r)
  \/ \E s \in OtpRequests : OtpStep(s) \/ OtpLose(s) \/ OtpLapse(s)
  \/ PaymentsFinished

PaymentsSpec == PaymentsInit /\ [][PaymentsNext]_<<vars, otpVars>>

-----------------------------------------------------------------------------
(* Properties *)

\* README.md, "OTP step-up": whatever else is in flight, a p2p transfer or a
\* freeze that commits went through a code that was sent to the owner of the
\* account it changes, for that kind of change, and that can no longer be found.
ChangesAreApproved ==
  \A r \in Requests : Gated(r) /\ pc[r] = "ok" =>
    LET o == held[r].id IN
    /\ o \in OtpRequests
    /\ otpCall[o].kind = "send"
    /\ otpCall[o].customer = Owner[call[r].account]
    /\ otpCall[o].purpose = Purpose[call[r].kind]
    /\ otp[o].code = otpCall[r].code
    /\ otp[o].status # "PENDING"

\* README.md, "require verified OTP", and otp_service.py, "No pending OTP found":
\* one code approves one change.
OneChangePerCode ==
  \A q, r \in Requests :
    /\ q # r /\ Gated(q) /\ Gated(r)
    /\ pc[q] = "ok" /\ pc[r] = "ok"
    => held[q].id # held[r].id
=============================================================================
