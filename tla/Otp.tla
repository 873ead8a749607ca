-------------------------------- MODULE Otp --------------------------------
(***************************************************************************)
(* services/otp_service.py: the life of the rows of one_time_passwords     *)
(* under concurrent calls of send and verify.  Every call has a session    *)
(* and a transaction of its own; its SELECTs lock nothing, and what it     *)
(* writes at its COMMIT it computed from the row as it was at the SELECT.  *)
(* An OTP is named by the send that inserts it.                            *)
(***************************************************************************)
EXTENDS Integers, FiniteSets

CONSTANTS
  Requests,     \* the calls in flight
  Customers,    \* registered customers
  Codes,        \* six-digit codes
  MaxAttempts,  \* settings.otp_max_attempts
  Calls,        \* what a request may ask for
  NoOtp         \* the answer of a SELECT that finds nothing

ASSUME MaxAttemptsIsPositive == MaxAttempts \in Nat \ {0}
ASSUME CodesExist == Codes # {}
ASSUME NoOtpIsNoRequest == NoOtp \notin Requests
ASSUME CallsAreTyped ==
  \A c \in Calls : c.kind \in {"send", "verify"} /\ c.code \in Codes
ASSUME FiniteRequests == IsFiniteSet(Requests)

VARIABLES
  otp,      \* table one_time_passwords
  call,     \* call[r]: kind, customer, purpose, and the code a verify carries
  pc,       \* pc[r]: the statement r executes next, or its answer
  created,  \* created[s]: when the transaction of send s began, 0 if not yet
  seen,     \* seen[s]: the pending OTPs that send s is about to expire
  held,     \* held[r]: the OTP verify r found, with its attempts at that time
  before    \* history: the OTPs that were there when send s began

vars == <<otp, call, pc, created, seen, held, before>>

Statuses == {"PENDING", "VERIFIED", "EXPIRED", "FAILED"}
OtpRow == [status : Statuses \cup {"ABSENT"}, code : Codes,
           attempts : 0 .. MaxAttempts, lapsed : BOOLEAN]
NoRow == [status |-> "ABSENT", code |-> CHOOSE c \in Codes : TRUE,
          attempts |-> 0, lapsed |-> FALSE]
Found == [id : Requests \cup {NoOtp}, attempts : 0 .. MaxAttempts,
          late : BOOLEAN]
Nothing == [id |-> NoOtp, attempts |-> 0, late |-> FALSE]

Answers == {"sent", "ok", "none", "expired", "wrong", "refused", "lost"}

TypeOK ==
  /\ otp \in [Requests -> OtpRow]
  /\ call \in [Requests -> Calls]
  /\ pc \in [Requests ->
               {"begin", "select", "insert", "find", "judge"} \cup Answers]
  /\ created \in [Requests -> Nat]
  /\ seen \in [Requests -> SUBSET Requests]
  /\ held \in [Requests -> Found]
  /\ before \in [Requests -> SUBSET Requests]

-----------------------------------------------------------------------------
Stored == {o \in Requests : otp[o].status # "ABSENT"}
SameKey(o, r) == /\ call[o].customer = call[r].customer
                 /\ call[o].purpose = call[r].purpose

\* WHERE customer_id = ... AND purpose = ... AND status = 'PENDING'
PendingFor(r) ==
  {o \in Requests : otp[o].status = "PENDING" /\ SameKey(o, r)}

\* ORDER BY created_at DESC
Newest(S) == {o \in S : \A p \in S : created[p] <= created[o]}

Init ==
  /\ otp = [s \in Requests |-> NoRow]
  /\ call \in [Requests -> Calls]
  /\ pc = [r \in Requests |-> IF call[r].kind = "send" THEN "begin" ELSE "find"]
  /\ created = [s \in Requests |-> 0]
  /\ seen = [s \in Requests |-> {}]
  /\ held = [r \in Requests |-> Nothing]
  /\ before = [s \in Requests |-> {}]

Goto(r, step) == pc' = [pc EXCEPT ![r] = step]

-----------------------------------------------------------------------------
(* send *)

\* get_or_404(Customer) is the first statement of the transaction, and
\* CURRENT_TIMESTAMP, the default of created_at, is the time of that one.
SendBegin(s) ==
  /\ pc[s] = "begin"
  /\ call[s].customer \in Customers
  /\ created' = [created EXCEPT
       ![s] = 1 + Cardinality({t \in Requests : created[t] > 0})]
  /\ before' = [before EXCEPT ![s] = {o \in Stored : SameKey(o, s)}]
  /\ Goto(s, "select")
  /\ UNCHANGED <<otp, call, seen, held>>

SendRefused(s) ==
  /\ pc[s] = "begin"
  /\ call[s].customer \notin Customers
  /\ Goto(s, "refused")
  /\ UNCHANGED <<otp, call, created, seen, held, before>>

\* Fault: one row (scalar) instead of all of them (scalars ... all).
SelectPending_Newest(s) ==
  /\ pc[s] = "select"
  /\ seen' = [seen EXCEPT ![s] = Newest(PendingFor(s))]
  /\ Goto(s, "insert")
  /\ UNCHANGED <<otp, call, created, held, before>>

SelectPending(s) ==
  /\ pc[s] = "select"
  /\ seen' = [seen EXCEPT ![s] = PendingFor(s)]
  /\ Goto(s, "insert")
  /\ UNCHANGED <<otp, call, created, held, before>>

\* The UPDATEs of _expire_pending, the INSERT and the COMMIT.
SendCommit(s) ==
  /\ pc[s] = "insert"
  /\ \E code \in Codes :
       otp' = [o \in Requests |->
         IF o = s THEN [status |-> "PENDING", code |-> code, attempts |-> 0,
                        lapsed |-> FALSE]
         ELSE IF o \in seen[s] THEN [otp[o] EXCEPT !.status = "EXPIRED"]
         ELSE otp[o]]
  /\ Goto(s, "sent")
  /\ UNCHANGED <<call, created, seen, held, before>>

-----------------------------------------------------------------------------
(* verify *)

FindNothing(r) ==
  /\ pc[r] = "find"
  /\ PendingFor(r) = {}
  /\ Goto(r, "none")
  /\ UNCHANGED <<otp, call, created, seen, held, before>>

\* The SELECT and the clock read after it.
Find(r) ==
  /\ pc[r] = "find"
  /\ \E o \in Newest(PendingFor(r)) :
       held' = [held EXCEPT ![r] = [id |-> o, attempts |-> otp[o].attempts,
                                    late |-> otp[o].lapsed]]
  /\ Goto(r, "judge")
  /\ UNCHANGED <<otp, call, created, seen, before>>

RightCode(r) == otp[held[r].id].code = call[r].code

\* Fault: a late verify spends the OTP as if all its attempts were used up.
MarkExpired_AsFailed(r) ==
  /\ pc[r] = "judge"
  /\ held[r].late
  /\ otp' = [otp EXCEPT ![held[r].id].status = "FAILED"]
  /\ Goto(r, "expired")
  /\ UNCHANGED <<call, created, seen, held, before>>

\* An UPDATE by primary key of the columns that differ from the row found,
\* and the COMMIT.
MarkExpired(r) ==
  /\ pc[r] = "judge"
  /\ held[r].late
  /\ otp' = [otp EXCEPT ![held[r].id].status = "EXPIRED"]
  /\ Goto(r, "expired")
  /\ UNCHANGED <<call, created, seen, held, before>>

Missed(r) == held[r].attempts + 1

\* Fault: > for >=.
CountMiss_OneMore(r) ==
  /\ pc[r] = "judge"
  /\ ~held[r].late /\ ~RightCode(r)
  /\ otp' = [otp EXCEPT
       ![held[r].id].attempts = Missed(r),
       ![held[r].id].status = IF Missed(r) > MaxAttempts THEN "FAILED" ELSE @]
  /\ Goto(r, "wrong")
  /\ UNCHANGED <<call, created, seen, held, before>>

CountMiss(r) ==
  /\ pc[r] = "judge"
  /\ ~held[r].late /\ ~RightCode(r)
  /\ otp' = [otp EXCEPT
       ![held[r].id].attempts = Missed(r),
       ![held[r].id].status = IF Missed(r) >= MaxAttempts THEN "FAILED" ELSE @]
  /\ Goto(r, "wrong")
  /\ UNCHANGED <<call, created, seen, held, before>>

\* Fault: the answer is given before the COMMIT, which never comes.
Accept_Uncommitted(r) ==
  /\ pc[r] = "judge"
  /\ ~held[r].late /\ RightCode(r)
  /\ Goto(r, "ok")
  /\ UNCHANGED <<otp, call, created, seen, held, before>>

Accept(r) ==
  /\ pc[r] = "judge"
  /\ ~held[r].late /\ RightCode(r)
  /\ otp' = [otp EXCEPT ![held[r].id].status = "VERIFIED"]
  /\ Goto(r, "ok")
  /\ UNCHANGED <<call, created, seen, held, before>>

-----------------------------------------------------------------------------
\* otp_ttl_seconds pass.
Lapse(o) ==
  /\ o \in Stored /\ ~otp[o].lapsed
  /\ otp' = [otp EXCEPT ![o].lapsed = TRUE]
  /\ UNCHANGED <<call, pc, created, seen, held, before>>

\* The worker or its connection dies before the COMMIT.
Lose(r) ==
  /\ pc[r] \notin Answers
  /\ Goto(r, "lost")
  /\ UNCHANGED <<otp, call, created, seen, held, before>>

Send(s) == SendBegin(s) \/ SendRefused(s) \/ SelectPending(s) \/ SendCommit(s)
Verify(r) == \/ FindNothing(r) \/ Find(r)
             \/ MarkExpired(r) \/ CountMiss(r) \/ Accept(r)

Finished == /\ \A r \in Requests : pc[r] \in Answers
            /\ UNCHANGED vars

Next == \/ \E r \in Requests : Send(r) \/ Verify(r) \/ Lose(r) \/ Lapse(r)
        \/ Finished

Spec == Init /\ [][Next]_vars

-----------------------------------------------------------------------------
(* Properties *)

\* An OTP that can still be found has an attempt left: whatever verifies are
\* in flight, the one that uses up the last attempt also takes it out of
\* PENDING, and no stale write brings it back.
PendingHasAttemptsLeft ==
  \A o \in Requests :
    otp[o].status = "PENDING" => otp[o].attempts < MaxAttempts

\* A new code replaces the old ones: an OTP that was there when a send began
\* is out of PENDING once that send is answered.
NewCodeReplacesOld ==
  \A s \in Requests : pc[s] = "sent" =>
    \A o \in before[s] : otp[o].status # "PENDING"

\* An accepted code was the right one, of the right customer and purpose, and
\* its OTP can no longer be found by a verify that starts from here on.
AcceptedIsSpent ==
  \A r \in Requests : pc[r] = "ok" =>
    LET o == held[r].id IN
    /\ o \in Requests
    /\ otp[o].status # "PENDING"
    /\ otp[o].code = call[r].code
    /\ SameKey(o, r)

\* Nobody is locked out early: every counted attempt was a wrong answer given
\* on that OTP, and FAILED takes MaxAttempts of them.
Misses(o) == {r \in Requests : pc[r] = "wrong" /\ held[r].id = o}
LockoutIsEarned ==
  \A o \in Requests :
    /\ otp[o].attempts <= Cardinality(Misses(o))
    /\ otp[o].status = "FAILED" => Cardinality(Misses(o)) >= MaxAttempts

\* otp_service.py, "Attempts remaining": an OTP takes at most
\* otp_max_attempts wrong answers.
AttemptBudget ==
  \A o \in Requests : Cardinality(Misses(o)) <= MaxAttempts
=============================================================================
