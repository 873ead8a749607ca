--------------------------- MODULE PaymentsProofs ---------------------------
(***************************************************************************)
(* Proofs of Payments, on top of those of Otp: every step of a payment is  *)
(* a step of Otp or leaves its tables alone.                               *)
(*                                                                         *)
(* Inv is the invariant of Otp and how the two parts are tied: a gated     *)
(* request that is past its gate was told "ok" for the purpose of its      *)
(* call, one that is past the ownership check asks for its own account,    *)
(* and only a send inserts an OTP.                                         *)
(***************************************************************************)
EXTENDS Payments, TLAPS

P == INSTANCE OtpProofs WITH Requests <- Requests \cup OtpRequests,
                             Calls <- OtpCalls, call <- otpCall, pc <- otpPc

Everyone == Requests \cup OtpRequests

PastGate == {"own", "lock1", "lock2", "settle", "write", "ok"}

Typed == /\ call \in [Requests -> Calls]
         /\ pc \in [Requests -> Steps \cup Answers]

Asking == \A r \in Requests : AsksFor(r)

OnlySendsSend ==
  \A r \in Everyone :
    otpPc[r] \in {"begin", "select", "insert", "sent"} => otpCall[r].kind = "send"

Tied ==
  \A r \in Requests : Gated(r) =>
    /\ pc[r] # "read"
    /\ pc[r] \in PastGate => otpPc[r] = "ok"
    /\ pc[r] \in PastGate \ {"own"} => Owner[call[r].account] = call[r].customer

Inv == P!Inv /\ Typed /\ Asking /\ OnlySendsSend /\ Tied

-----------------------------------------------------------------------------
(* Otp inside Payments *)

LEMMA OtpParameters ==
  /\ P!MaxAttemptsIsPositive /\ P!CodesExist /\ P!NoOtpIsNoRequest
  /\ P!CallsAreTyped /\ P!FiniteRequests
  <1>1. P!MaxAttemptsIsPositive
    BY OtpAssumptions DEF P!MaxAttemptsIsPositive
  <1>2. P!CodesExist
    BY OtpAssumptions DEF P!CodesExist
  <1>3. P!NoOtpIsNoRequest
    BY OtpAssumptions DEF P!NoOtpIsNoRequest
  <1>4. P!CallsAreTyped
    BY OtpAssumptions DEF P!CallsAreTyped
  <1>5. P!FiniteRequests
    BY OtpAssumptions DEF P!FiniteRequests, IsFiniteSet, P!IsFiniteSet
  <1> QED
    BY <1>1, <1>2, <1>3, <1>4, <1>5

LEMMA OtpInit == O!Init => P!Inv
  <1>1. O!Init => P!Init
    BY DEF O!Init, P!Init, O!NoRow, P!NoRow, O!Nothing, P!Nothing
  <1> QED
    BY <1>1, P!InitInv, OtpParameters

LEMMA OtpNext == P!Inv /\ [P!Next]_(P!vars) => P!Inv'
  BY P!NextInv, OtpParameters

LEMMA OtpLocal ==
  ASSUME NEW r \in Everyone, O!Send(r) \/ O!Verify(r) \/ O!Lose(r) \/ O!Lapse(r)
  PROVE  P!Next
  <1>1. O!Send(r) => P!Send(r)
    <2>1. O!SendBegin(r) => P!SendBegin(r)
      <3>1. \A S : O!Cardinality(S) = P!Cardinality(S)
        BY DEF O!Cardinality, P!Cardinality
      <3> QED
        BY <3>1 DEF O!SendBegin, P!SendBegin, O!Goto, P!Goto, O!Stored, P!Stored,
           O!SameKey, P!SameKey
    <2>2. O!SendRefused(r) => P!SendRefused(r)
      BY DEF O!SendRefused, P!SendRefused, O!Goto, P!Goto
    <2>3. O!SelectPending(r) => P!SelectPending(r)
      BY DEF O!SelectPending, P!SelectPending, O!Goto, P!Goto, O!PendingFor,
         P!PendingFor, O!SameKey, P!SameKey
    <2>4. O!SendCommit(r) => P!SendCommit(r)
      BY DEF O!SendCommit, P!SendCommit, O!Goto, P!Goto
    <2> QED
      BY <2>1, <2>2, <2>3, <2>4 DEF O!Send, P!Send
  <1>2. O!Verify(r) => P!Verify(r)
    <2>1. O!FindNothing(r) \/ O!Find(r) => P!FindNothing(r) \/ P!Find(r)
      BY DEF O!FindNothing, P!FindNothing, O!Find, P!Find, O!Goto, P!Goto,
         O!PendingFor, P!PendingFor, O!Newest, P!Newest, O!SameKey, P!SameKey
    <2>2. O!MarkExpired(r) => P!MarkExpired(r)
      BY DEF O!MarkExpired, P!MarkExpired, O!Goto, P!Goto
    <2>3. O!CountMiss(r) => P!CountMiss(r)
      BY DEF O!CountMiss, P!CountMiss, O!Goto, P!Goto, O!RightCode, P!RightCode,
         O!Missed, P!Missed
    <2>4. O!Accept(r) => P!Accept(r)
      BY DEF O!Accept, P!Accept, O!Goto, P!Goto, O!RightCode, P!RightCode
    <2> QED
      BY <2>1, <2>2, <2>3, <2>4 DEF O!Verify, P!Verify
  <1>3. O!Lose(r) => P!Lose(r)
    BY DEF O!Lose, P!Lose, O!Goto, P!Goto, O!Answers, P!Answers
  <1>4. O!Lapse(r) => P!Lapse(r)
    BY DEF O!Lapse, P!Lapse, O!Stored, P!Stored
  <1> QED
    BY <1>1, <1>2, <1>3, <1>4 DEF P!Next, Everyone

\* A step of Otp keeps its invariant, what was asked and what was accepted.
LEMMA OtpStepKeeps ==
  ASSUME P!Inv, OnlySendsSend, NEW r \in Everyone,
         O!Send(r) \/ O!Verify(r) \/ O!Lose(r) \/ O!Lapse(r)
  PROVE  /\ P!Inv' /\ OnlySendsSend' /\ otpCall' = otpCall
         /\ \A q \in Everyone : otpPc[q] = "ok" => otpPc'[q] = "ok"
  <1>1. P!Inv'
    BY OtpLocal, OtpNext
  <1>2. otpPc \in [Everyone -> {"begin", "select", "insert", "find", "judge"} \cup P!Answers]
    BY DEF P!Inv, P!TypeOK, Everyone
  <1>3. otpCall' = otpCall
    BY DEF O!Send, O!SendBegin, O!SendRefused, O!SelectPending, O!SendCommit, O!Verify,
       O!FindNothing, O!Find, O!MarkExpired, O!CountMiss, O!Accept, O!Lose, O!Lapse
  <1>4. \/ otpPc' = otpPc
        \/ /\ otpPc[r] \in {"begin", "select", "insert"}
           /\ \E x \in {"select", "insert", "sent", "refused"} :
                otpPc' = [otpPc EXCEPT ![r] = x]
        \/ /\ otpPc[r] # "ok"
           /\ \E x \in {"none", "judge", "expired", "wrong", "ok", "lost"} :
                otpPc' = [otpPc EXCEPT ![r] = x]
    <2>1. CASE O!Send(r)
      BY <2>1 DEF O!Send, O!SendBegin, O!SendRefused, O!SelectPending, O!SendCommit, O!Goto
    <2>2. CASE O!Verify(r)
      BY <2>2 DEF O!Verify, O!FindNothing, O!Find, O!MarkExpired, O!CountMiss, O!Accept,
         O!Goto
    <2>3. CASE O!Lose(r) \/ O!Lapse(r)
      BY <2>3 DEF O!Lose, O!Lapse, O!Goto, O!Answers
    <2> QED
      BY <2>1, <2>2, <2>3
  <1>5. OnlySendsSend'
    BY <1>2, <1>3, <1>4 DEF OnlySendsSend
  <1>6. \A q \in Everyone : otpPc[q] = "ok" => otpPc'[q] = "ok"
    BY <1>2, <1>4
  <1> QED
    BY <1>1, <1>3, <1>5, <1>6

-----------------------------------------------------------------------------
(* Accounts inside Payments *)

\* The statements of a request that is past its gate, in their order.
LEMMA AccountsMoves ==
  ASSUME NEW r \in Requests, Ungated(r)
  PROVE  /\ call' = call
         /\ \E step \in Steps \cup Answers :
              /\ pc' = [pc EXCEPT ![r] = step]
              /\ \/ step = "refused"
                 \/ pc[r] = "own" /\ Owned(r) /\ step \in {"lock1", "write"}
                 \/ /\ pc[r] \in {"lock1", "lock2", "settle", "write"}
                    /\ step \in {"lock2", "settle", "ok"}
                 \/ pc[r] = "read" /\ step = "write"
  <1>1. CASE OwnerPasses(r) \/ FreezeRead(r) \/ OwnerRefuses(r)
    BY <1>1 DEF OwnerPasses, FreezeRead, OwnerRefuses, Refuse, Finish, Goto, Steps, Answers
  <1>2. CASE Transfer(r)
    BY <1>2 DEF Transfer, SameAccount, LockFirst, LockSecond, Post, TransferRefused, Take,
       Refuse, Finish, Goto, Steps, Answers
  <1>3. CASE Read(r) \/ NumberIsFree(r) \/ ReadRefused(r)
    BY <1>3 DEF Read, NumberIsFree, ReadRefused, Refuse, Finish, Goto, Steps, Answers
  <1>4. CASE FreezeWrite(r) \/ UpdateWrite(r) \/ CashWrite(r) \/ CreateWrite(r)
    BY <1>4 DEF FreezeWrite, UpdateWrite, CashWrite, CreateWrite, Write, Finish, Goto,
       Steps, Answers
  <1>5. CASE WriteRefused(r)
    BY <1>5 DEF WriteRefused, Refuse, Finish, Goto, Steps, Answers
  <1> QED
    BY <1>1, <1>2, <1>3, <1>4, <1>5 DEF Ungated

-----------------------------------------------------------------------------
LEMMA InitInv == PaymentsInit => Inv
  <1> SUFFICES ASSUME PaymentsInit PROVE Inv
    OBVIOUS
  <1>1. P!Inv
    BY OtpInit DEF PaymentsInit
  <1>2. ASSUME NEW r \in Requests
        PROVE  /\ pc[r] = FirstStep[call[r].kind] /\ call[r].kind \in Kinds
               /\ pc[r] \in Steps
               /\ Gated(r) => pc[r] = "gate"
    <2>1. pc[r] = FirstStep[call[r].kind] /\ call[r].kind \in Kinds
      BY CallsTyped DEF PaymentsInit, Init, Call
    <2> QED
      BY <2>1 DEF FirstStep, Kinds, Steps, Gated
  <1>3. Typed
    BY <1>2 DEF PaymentsInit, Init, Typed
  <1>4. Asking /\ OnlySendsSend
    BY DEF PaymentsInit, O!Init, Asking, OnlySendsSend, Everyone
  <1>5. Tied
    BY <1>2 DEF Tied, PastGate
  <1> QED
    BY <1>1, <1>3, <1>4, <1>5 DEF Inv

LEMMA RestKeepsInv ==
  ASSUME Inv, UNCHANGED otpVars, Typed', Asking', Tied'
  PROVE  Inv'
  <1>1. UNCHANGED P!vars
    BY DEF otpVars, P!vars
  <1>2. P!Inv'
    BY <1>1, OtpNext DEF Inv
  <1>3. OnlySendsSend'
    BY DEF otpVars, Inv, OnlySendsSend
  <1> QED
    BY <1>2, <1>3 DEF Inv

LEMMA PaymentKeepsInv ==
  ASSUME Inv, NEW r \in Requests, PaymentStep(r) \/ Die(r)
  PROVE  Inv'
  <1>1. r \in Everyone /\ Typed
    BY DEF Everyone, Inv
  <1>2. CASE Verify(r)
    <2>1. /\ P!Inv' /\ OnlySendsSend' /\ otpCall' = otpCall
          /\ \A q \in Everyone : otpPc[q] = "ok" => otpPc'[q] = "ok"
      BY <1>1, <1>2, OtpStepKeeps DEF Verify, Inv
    <2>2. call' = call /\ pc' = pc
      BY <1>2 DEF Verify, vars
    <2> QED
      BY <2>1, <2>2 DEF Inv, Typed, Asking, AsksFor, Gated, Tied, Everyone
  <1>3. CASE Pass(r)
    <2>1. /\ UNCHANGED otpVars /\ otpPc[r] = "ok" /\ otpPc' = otpPc /\ otpCall' = otpCall
          /\ call' = call /\ pc' = [pc EXCEPT ![r] = "own"]
      BY <1>3 DEF Pass, GatePass, Goto, otpVars
    <2>2. Typed' /\ Asking' /\ Tied'
      BY <1>1, <2>1 DEF Inv, Typed, Asking, AsksFor, Gated, Tied, PastGate, Steps
    <2> QED
      BY <2>1, <2>2, RestKeepsInv
  <1>4. CASE Fail(r)
    <2>1. /\ UNCHANGED otpVars /\ otpPc' = otpPc /\ otpCall' = otpCall
          /\ call' = call /\ pc' = [pc EXCEPT ![r] = "refused"]
      BY <1>4 DEF Fail, GateFail, Refuse, Finish, Goto, otpVars
    <2>2. Typed' /\ Asking' /\ Tied'
      BY <1>1, <2>1 DEF Inv, Typed, Asking, AsksFor, Gated, Tied, PastGate, Answers
    <2> QED
      BY <2>1, <2>2, RestKeepsInv
  <1>5. CASE Go(r)
    <2>1. PICK step \in Steps \cup Answers :
            /\ pc' = [pc EXCEPT ![r] = step]
            /\ \/ step = "refused"
               \/ pc[r] = "own" /\ Owned(r) /\ step \in {"lock1", "write"}
               \/ /\ pc[r] \in {"lock1", "lock2", "settle", "write"}
                  /\ step \in {"lock2", "settle", "ok"}
               \/ pc[r] = "read" /\ step = "write"
      BY <1>5, AccountsMoves DEF Go
    <2>2. UNCHANGED otpVars /\ otpPc' = otpPc /\ otpCall' = otpCall /\ call' = call
      BY <1>5, AccountsMoves DEF Go, otpVars
    <2>3. Typed' /\ Asking'
      BY <1>1, <2>1, <2>2 DEF Inv, Typed, Asking, AsksFor, Gated
    <2>4. Tied'
      BY <1>1, <2>1, <2>2 DEF Inv, Typed, Tied, Gated, PastGate, Owned
    <2> QED
      BY <2>2, <2>3, <2>4, RestKeepsInv
  <1>6. CASE Die(r)
    <2>1. call' = call /\ pc' = [pc EXCEPT ![r] = "lost"]
      BY <1>6 DEF Die, Lose, Finish, Goto
    <2>2. CASE O!Lose(r)
      <3>1. /\ P!Inv' /\ OnlySendsSend' /\ otpCall' = otpCall
            /\ \A q \in Everyone : otpPc[q] = "ok" => otpPc'[q] = "ok"
        BY <1>1, <2>2, OtpStepKeeps DEF Inv
      <3>2. Typed' /\ Asking'
        BY <1>1, <2>1, <3>1 DEF Inv, Typed, Asking, AsksFor, Gated, Answers
      <3>3. Tied'
        BY <1>1, <2>1, <3>1 DEF Inv, Typed, Tied, Gated, PastGate, Everyone
      <3> QED
        BY <3>1, <3>2, <3>3 DEF Inv
    <2>3. CASE UNCHANGED otpVars
      <3>1. otpPc' = otpPc /\ otpCall' = otpCall
        BY <2>3 DEF otpVars
      <3>2. Typed' /\ Asking' /\ Tied'
        BY <1>1, <2>1, <3>1 DEF Inv, Typed, Asking, AsksFor, Gated, Tied, PastGate, Answers
      <3> QED
        BY <2>3, <3>2, RestKeepsInv
    <2> QED
      BY <1>6, <2>2, <2>3 DEF Die
  <1> QED
    BY <1>2, <1>3, <1>4, <1>5, <1>6 DEF PaymentStep

LEMMA NextKeepsInv == Inv /\ [PaymentsNext]_<<vars, otpVars>> => Inv'
  <1> SUFFICES ASSUME Inv, [PaymentsNext]_<<vars, otpVars>> PROVE Inv'
    OBVIOUS
  <1>1. CASE UNCHANGED <<vars, otpVars>>
    <2>1. Typed' /\ Asking' /\ Tied'
      BY <1>1 DEF vars, otpVars, Inv, Typed, Asking, AsksFor, Gated, Tied
    <2> QED
      BY <1>1, <2>1, RestKeepsInv
  <1>2. ASSUME NEW r \in Requests, PaymentStep(r) \/ Die(r) PROVE Inv'
    BY <1>2, PaymentKeepsInv
  <1>3. ASSUME NEW s \in OtpRequests, OtpStep(s) \/ OtpLose(s) \/ OtpLapse(s) PROVE Inv'
    <2>1. UNCHANGED vars /\ (O!Send(s) \/ O!Verify(s) \/ O!Lose(s) \/ O!Lapse(s))
      BY <1>3 DEF OtpStep, OtpLose, OtpLapse
    <2>2. /\ P!Inv' /\ OnlySendsSend' /\ otpCall' = otpCall
          /\ \A q \in Everyone : otpPc[q] = "ok" => otpPc'[q] = "ok"
      BY <2>1, OtpStepKeeps DEF Inv, Everyone
    <2>3. call' = call /\ pc' = pc
      BY <2>1 DEF vars
    <2> QED
      BY <2>2, <2>3 DEF Inv, Typed, Asking, AsksFor, Gated, Tied, Everyone
  <1> QED
    BY <1>1, <1>2, <1>3 DEF PaymentsNext, PaymentsFinished

LEMMA InvApproves == Inv => ChangesAreApproved
  <1> SUFFICES ASSUME Inv, NEW r \in Requests, Gated(r), pc[r] = "ok"
      PROVE  /\ held[r].id \in OtpRequests
             /\ otpCall[held[r].id].kind = "send"
             /\ otpCall[held[r].id].customer = Owner[call[r].account]
             /\ otpCall[held[r].id].purpose = Purpose[call[r].kind]
             /\ otp[held[r].id].code = otpCall[r].code
             /\ otp[held[r].id].status # "PENDING"
    BY DEF ChangesAreApproved
  <1> DEFINE o == held[r].id
  <1>1. otpPc[r] = "ok" /\ Owner[call[r].account] = call[r].customer /\ r \in Everyone
    BY DEF Inv, Tied, PastGate, Everyone
  <1>2. /\ o \in Everyone /\ otp[o].status # "PENDING" /\ otp[o].code = otpCall[r].code
        /\ otpCall[o].customer = otpCall[r].customer
        /\ otpCall[o].purpose = otpCall[r].purpose
    BY <1>1 DEF Inv, P!Inv, P!AcceptedIsSpent, P!SameKey, Everyone
  <1>3. otp[o].status # "ABSENT"
    BY <1>1 DEF Inv, P!Inv, P!HeldWasPending, P!Judging, Everyone
  <1>4. otpPc[o] = "sent"
    BY <1>2, <1>3 DEF Inv, P!Inv, P!RowsOfAnsweredSends, Everyone
  <1>5. otpCall[o].kind = "send"
    BY <1>2, <1>4 DEF Inv, OnlySendsSend
  <1>6. AsksFor(r) /\ (o \in Requests => AsksFor(o))
    BY DEF Inv, Asking
  <1>7. o \in OtpRequests
    BY <1>2, <1>5, <1>6 DEF AsksFor, Everyone
  <1> QED
    BY <1>1, <1>2, <1>5, <1>6, <1>7 DEF AsksFor

\* Whatever runs beside it, a transfer or a freeze that commits went through a
\* code that was sent to the owner of the account, for that kind of change.
THEOREM PaymentsAreApproved == PaymentsSpec => []ChangesAreApproved
  <1>1. PaymentsSpec => []Inv
    BY InitInv, NextKeepsInv, PTL DEF PaymentsSpec
  <1> QED
    BY <1>1, InvApproves, PTL
=============================================================================
