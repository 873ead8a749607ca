----------------------------- MODULE OtpProofs -----------------------------
(***************************************************************************)
(* Theorems of Otp, for every set of requests, codes and calls and every   *)
(* MaxAttempts.                                                            *)
(***************************************************************************)
EXTENDS Otp, FiniteSetTheorems, TLAPS

\* An OTP is inserted by the last statement of its send, and only once.
RowsOfAnsweredSends ==
  \A s \in Requests : otp[s].status # "ABSENT" => pc[s] = "sent"

Judging == {"judge", "expired", "wrong", "ok"}

\* What a verify holds is an OTP of its customer and purpose that had an
\* attempt left when it was found.
HeldWasPending ==
  \A r \in Requests : pc[r] \in Judging =>
    /\ held[r].id \in Requests
    /\ otp[held[r].id].status # "ABSENT"
    /\ SameKey(held[r].id, r)
    /\ held[r].attempts < MaxAttempts

\* From the start of a send on, each OTP that was there is out of PENDING, or
\* still to be seen by the SELECT, or seen by it and about to be expired.
OldCodesOnTheirWayOut ==
  \A s \in Requests : \A o \in before[s] :
    /\ otp[o].status # "ABSENT"
    /\ SameKey(o, s)
    /\ \/ otp[o].status # "PENDING"
       \/ pc[s] \notin {"insert", "sent"}
       \/ pc[s] = "insert" /\ o \in seen[s]

SeenIsStored ==
  \A s \in Requests : \A o \in seen[s] : otp[o].status # "ABSENT"

Inv == /\ TypeOK
       /\ RowsOfAnsweredSends
       /\ HeldWasPending
       /\ PendingHasAttemptsLeft
       /\ AcceptedIsSpent
       /\ OldCodesOnTheirWayOut
       /\ SeenIsStored

USE DEF SameKey, Goto

LEMMA InitInv == Init => Inv
<1> SUFFICES ASSUME Init PROVE Inv
  OBVIOUS
<1>1. NoRow \in OtpRow /\ NoRow.status = "ABSENT"
  BY CodesExist, MaxAttemptsIsPositive DEF NoRow, OtpRow
<1>2. TypeOK
  <2>1. Nothing \in Found
    BY MaxAttemptsIsPositive DEF Nothing, Found
  <2> QED BY <1>1, <2>1 DEF Init, TypeOK
<1>3. \A r \in Requests : pc[r] \in {"begin", "find"}
  BY DEF Init
<1> QED BY <1>1, <1>2, <1>3 DEF Init, Inv, RowsOfAnsweredSends,
        HeldWasPending, Judging, PendingHasAttemptsLeft, AcceptedIsSpent,
        OldCodesOnTheirWayOut, SeenIsStored

-----------------------------------------------------------------------------
(* Every kind of step preserves the invariant. *)

\* Steps that only answer.
LEMMA AnswerInv ==
  ASSUME Inv, NEW r \in Requests, SendRefused(r) \/ FindNothing(r) \/ Lose(r)
  PROVE  Inv'
<1>1. /\ UNCHANGED <<otp, call, created, seen, held, before>>
      /\ pc[r] \notin Answers
      /\ \E answer \in {"refused", "none", "lost"} :
           pc' = [pc EXCEPT ![r] = answer]
  BY DEF SendRefused, FindNothing, Lose, Answers
<1>2. TypeOK'
  BY <1>1 DEF Inv, TypeOK, Answers
<1>3. /\ pc'[r] \in {"refused", "none", "lost"} /\ pc[r] # "sent"
      /\ \A q \in Requests \ {r} : pc'[q] = pc[q]
  BY <1>1 DEF Inv, TypeOK, Answers
<1>4. RowsOfAnsweredSends'
  BY <1>1, <1>3 DEF Inv, RowsOfAnsweredSends
<1>5. HeldWasPending'
  BY <1>1, <1>3 DEF Inv, HeldWasPending, Judging
<1>6. PendingHasAttemptsLeft'
  BY <1>1 DEF Inv, PendingHasAttemptsLeft
<1>7. AcceptedIsSpent'
  BY <1>1, <1>3 DEF Inv, AcceptedIsSpent
<1>8. OldCodesOnTheirWayOut'
  BY <1>1, <1>3 DEF Inv, OldCodesOnTheirWayOut
<1>9. SeenIsStored'
  BY <1>1 DEF Inv, SeenIsStored
<1> QED BY <1>2, <1>4, <1>5, <1>6, <1>7, <1>8, <1>9 DEF Inv

LEMMA SendBeginInv ==
  ASSUME Inv, NEW s \in Requests, SendBegin(s)
  PROVE  Inv'
<1>1. /\ UNCHANGED <<otp, call, seen, held>>
      /\ pc' = [pc EXCEPT ![s] = "select"]
      /\ before' = [before EXCEPT ![s] = {o \in Stored : SameKey(o, s)}]
      /\ pc[s] = "begin"
  BY DEF SendBegin
<1>2. TypeOK'
  <2>1. {t \in Requests : created[t] > 0} \in SUBSET Requests
    OBVIOUS
  <2>2. Cardinality({t \in Requests : created[t] > 0}) \in Nat
    BY <2>1, FiniteRequests, FS_Subset, FS_CardinalityType
  <2>3. created' \in [Requests -> Nat]
    BY <2>2 DEF SendBegin, Inv, TypeOK
  <2> QED BY <1>1, <2>3 DEF Inv, TypeOK, Stored
<1>3. /\ pc'[s] = "select" /\ before'[s] = {o \in Stored : SameKey(o, s)}
      /\ \A q \in Requests \ {s} : pc'[q] = pc[q] /\ before'[q] = before[q]
  BY <1>1 DEF Inv, TypeOK
<1>4. RowsOfAnsweredSends'
  BY <1>1, <1>3 DEF Inv, RowsOfAnsweredSends
<1>5. HeldWasPending'
  BY <1>1, <1>3 DEF Inv, HeldWasPending, Judging
<1>6. PendingHasAttemptsLeft'
  BY <1>1 DEF Inv, PendingHasAttemptsLeft
<1>7. AcceptedIsSpent'
  BY <1>1, <1>3 DEF Inv, AcceptedIsSpent
<1>8. OldCodesOnTheirWayOut'
  BY <1>1, <1>3 DEF Inv, OldCodesOnTheirWayOut, Stored
<1>9. SeenIsStored'
  BY <1>1 DEF Inv, SeenIsStored
<1> QED BY <1>2, <1>4, <1>5, <1>6, <1>7, <1>8, <1>9 DEF Inv

LEMMA SelectPendingInv ==
  ASSUME Inv, NEW s \in Requests, SelectPending(s)
  PROVE  Inv'
<1>1. /\ UNCHANGED <<otp, call, created, held, before>>
      /\ pc' = [pc EXCEPT ![s] = "insert"]
      /\ seen' = [seen EXCEPT ![s] = PendingFor(s)]
      /\ pc[s] = "select"
  BY DEF SelectPending
<1>2. TypeOK'
  BY <1>1 DEF Inv, TypeOK, PendingFor
<1>3. /\ pc'[s] = "insert" /\ seen'[s] = PendingFor(s)
      /\ \A q \in Requests \ {s} : pc'[q] = pc[q] /\ seen'[q] = seen[q]
  BY <1>1 DEF Inv, TypeOK
<1>4. RowsOfAnsweredSends'
  BY <1>1, <1>3 DEF Inv, RowsOfAnsweredSends
<1>5. HeldWasPending'
  BY <1>1, <1>3 DEF Inv, HeldWasPending, Judging
<1>6. PendingHasAttemptsLeft'
  BY <1>1 DEF Inv, PendingHasAttemptsLeft
<1>7. AcceptedIsSpent'
  BY <1>1, <1>3 DEF Inv, AcceptedIsSpent
<1>8. OldCodesOnTheirWayOut'
  <2>1. before \in [Requests -> SUBSET Requests]
    BY DEF Inv, TypeOK
  <2> QED BY <1>1, <1>3, <2>1 DEF Inv, OldCodesOnTheirWayOut, PendingFor
<1>9. SeenIsStored'
  BY <1>1, <1>3 DEF Inv, SeenIsStored, PendingFor
<1> QED BY <1>2, <1>4, <1>5, <1>6, <1>7, <1>8, <1>9 DEF Inv

LEMMA FindInv ==
  ASSUME Inv, NEW r \in Requests, Find(r)
  PROVE  Inv'
<1>1. /\ UNCHANGED <<otp, call, created, seen, before>>
      /\ pc' = [pc EXCEPT ![r] = "judge"]
      /\ pc[r] = "find"
  BY DEF Find
<1>2. PICK o \in Newest(PendingFor(r)) :
        held' = [held EXCEPT ![r] = [id |-> o, attempts |-> otp[o].attempts,
                                     late |-> otp[o].lapsed]]
  BY DEF Find
<1>3. /\ o \in Requests /\ otp[o].status = "PENDING" /\ SameKey(o, r)
      /\ otp[o] \in OtpRow /\ otp[o].attempts < MaxAttempts
  BY <1>2 DEF Newest, PendingFor, Inv, TypeOK, PendingHasAttemptsLeft
<1>4. TypeOK'
  BY <1>1, <1>2, <1>3 DEF Inv, TypeOK, Found, OtpRow
<1>5. /\ pc'[r] = "judge" /\ held'[r].id = o
      /\ held'[r].attempts = otp[o].attempts
      /\ \A q \in Requests \ {r} : pc'[q] = pc[q] /\ held'[q] = held[q]
  BY <1>1, <1>2 DEF Inv, TypeOK
<1>6. RowsOfAnsweredSends'
  BY <1>1, <1>5 DEF Inv, RowsOfAnsweredSends
<1>7. HeldWasPending'
  BY <1>1, <1>3, <1>5 DEF Inv, HeldWasPending
<1>8. PendingHasAttemptsLeft'
  BY <1>1 DEF Inv, PendingHasAttemptsLeft
<1>9. AcceptedIsSpent'
  BY <1>1, <1>5 DEF Inv, AcceptedIsSpent
<1>10. OldCodesOnTheirWayOut'
  BY <1>1, <1>5 DEF Inv, OldCodesOnTheirWayOut
<1>11. SeenIsStored'
  BY <1>1 DEF Inv, SeenIsStored
<1> QED BY <1>4, <1>6, <1>7, <1>8, <1>9, <1>10, <1>11 DEF Inv

\* The three ways a verify ends after it has found an OTP: one row is
\* rewritten, with the code it had, and not back into PENDING.
LEMMA JudgeInv ==
  ASSUME Inv, NEW r \in Requests, pc[r] = "judge", NEW new \in OtpRow,
         NEW answer \in {"expired", "wrong", "ok"},
         new.code = otp[held[r].id].code,
         new.status # "ABSENT",
         otp[held[r].id].status # "PENDING" => new.status # "PENDING",
         new.status = "PENDING" => new.attempts < MaxAttempts,
         answer = "ok" => new.status # "PENDING" /\ new.code = call[r].code,
         otp' = [otp EXCEPT ![held[r].id] = new],
         pc' = [pc EXCEPT ![r] = answer],
         UNCHANGED <<call, created, seen, held, before>>
  PROVE  Inv'
<1> DEFINE h == held[r].id
<1>1. /\ h \in Requests /\ otp[h].status # "ABSENT"
      /\ SameKey(h, r) /\ held[r].attempts < MaxAttempts
  BY DEF Inv, HeldWasPending, Judging
<1>2. TypeOK'
  BY <1>1 DEF Inv, TypeOK, Answers
<1>3. /\ otp'[h] = new /\ \A o \in Requests \ {h} : otp'[o] = otp[o]
      /\ pc'[r] = answer /\ \A q \in Requests \ {r} : pc'[q] = pc[q]
  BY <1>1 DEF Inv, TypeOK
<1>4. \A o \in Requests :
        /\ otp[o].status # "ABSENT" <=> otp'[o].status # "ABSENT"
        /\ otp[o].status # "PENDING" => otp'[o].status # "PENDING"
        /\ otp'[o].code = otp[o].code
  BY <1>1, <1>3
<1>5. RowsOfAnsweredSends'
  BY <1>3, <1>4 DEF Inv, RowsOfAnsweredSends
<1>6. HeldWasPending'
  BY <1>1, <1>3, <1>4 DEF Inv, HeldWasPending, Judging
<1>7. PendingHasAttemptsLeft'
  BY <1>1, <1>3 DEF Inv, PendingHasAttemptsLeft
<1>8. AcceptedIsSpent'
  BY <1>1, <1>3, <1>4 DEF Inv, AcceptedIsSpent
<1>9. OldCodesOnTheirWayOut'
  <2>1. before \in [Requests -> SUBSET Requests]
    BY DEF Inv, TypeOK
  <2> QED BY <1>3, <1>4, <2>1 DEF Inv, OldCodesOnTheirWayOut
<1>10. SeenIsStored'
  BY <1>4 DEF Inv, SeenIsStored, TypeOK
<1> QED BY <1>2, <1>5, <1>6, <1>7, <1>8, <1>9, <1>10 DEF Inv

LEMMA VerifyInv ==
  ASSUME Inv, NEW r \in Requests, MarkExpired(r) \/ CountMiss(r) \/ Accept(r)
  PROVE  Inv'
<1> DEFINE h == held[r].id
<1>1. pc[r] = "judge"
  BY DEF MarkExpired, CountMiss, Accept
<1>2. /\ h \in Requests /\ otp[h].status # "ABSENT"
      /\ held[r].attempts < MaxAttempts
  BY <1>1 DEF Inv, HeldWasPending, Judging
<1>3. /\ otp[h] \in OtpRow /\ held[r].attempts \in Nat /\ MaxAttempts \in Nat
      /\ otp \in [Requests -> OtpRow]
  BY <1>2, MaxAttemptsIsPositive DEF Inv, TypeOK, Found
<1>4. CASE MarkExpired(r)
  <2> DEFINE new == [otp[h] EXCEPT !.status = "EXPIRED"]
  <2>1. /\ new \in OtpRow /\ new.code = otp[h].code /\ new.status = "EXPIRED"
        /\ otp' = [otp EXCEPT ![h] = new]
        /\ pc' = [pc EXCEPT ![r] = "expired"]
        /\ UNCHANGED <<call, created, seen, held, before>>
    BY <1>3, <1>4 DEF MarkExpired, OtpRow, Statuses
  <2> QED BY <1>1, <2>1, JudgeInv
<1>5. CASE CountMiss(r)
  <2> DEFINE status == IF Missed(r) >= MaxAttempts THEN "FAILED"
                                                  ELSE otp[h].status
             new == [otp[h] EXCEPT !.attempts = Missed(r), !.status = status]
  <2>1. Missed(r) \in 0 .. MaxAttempts
    BY <1>2, <1>3 DEF Missed
  <2>2. /\ new \in OtpRow /\ new.code = otp[h].code
        /\ new.status = status /\ new.attempts = Missed(r)
    BY <1>3, <2>1 DEF OtpRow, Statuses
  <2>3. otp' = [otp EXCEPT ![h] = new]
    BY <1>2, <1>3, <1>5 DEF CountMiss, OtpRow
  <2>4. /\ pc' = [pc EXCEPT ![r] = "wrong"]
        /\ UNCHANGED <<call, created, seen, held, before>>
    BY <1>5 DEF CountMiss
  <2>5. /\ new.status # "ABSENT"
        /\ otp[h].status # "PENDING" => new.status # "PENDING"
        /\ new.status = "PENDING" => new.attempts < MaxAttempts
    BY <1>2, <1>3, <2>1, <2>2
  <2> QED BY <1>1, <2>2, <2>3, <2>4, <2>5, JudgeInv
<1>6. CASE Accept(r)
  <2> DEFINE new == [otp[h] EXCEPT !.status = "VERIFIED"]
  <2>1. /\ new \in OtpRow /\ new.code = otp[h].code /\ new.status = "VERIFIED"
        /\ otp' = [otp EXCEPT ![h] = new]
        /\ pc' = [pc EXCEPT ![r] = "ok"]
        /\ UNCHANGED <<call, created, seen, held, before>>
        /\ new.code = call[r].code
    BY <1>3, <1>6 DEF Accept, RightCode, OtpRow, Statuses
  <2> QED BY <1>1, <2>1, JudgeInv
<1> QED BY <1>4, <1>5, <1>6

\* The commit of a send gives it its row and takes the rows it saw out of
\* PENDING.
LEMMA SendCommitInv ==
  ASSUME Inv, NEW s \in Requests, SendCommit(s)
  PROVE  Inv'
<1>1. /\ UNCHANGED <<call, created, seen, held, before>>
      /\ pc' = [pc EXCEPT ![s] = "sent"]
      /\ pc[s] = "insert"
  BY DEF SendCommit
<1>2. PICK code \in Codes :
        otp' = [o \in Requests |->
          IF o = s THEN [status |-> "PENDING", code |-> code, attempts |-> 0,
                         lapsed |-> FALSE]
          ELSE IF o \in seen[s] THEN [otp[o] EXCEPT !.status = "EXPIRED"]
          ELSE otp[o]]
  BY DEF SendCommit
<1>3. /\ otp[s].status = "ABSENT"
      /\ \A o \in Requests : otp[o] \in OtpRow
  BY <1>1 DEF Inv, RowsOfAnsweredSends, TypeOK
<1>4. /\ otp'[s].status = "PENDING" /\ otp'[s].attempts = 0
      /\ \A o \in Requests \ {s} : o \in seen[s] =>
           otp'[o].status = "EXPIRED" /\ otp'[o].code = otp[o].code
      /\ \A o \in Requests \ {s} : o \notin seen[s] => otp'[o] = otp[o]
  BY <1>2, <1>3 DEF OtpRow
<1>5. TypeOK'
  <2>1. \A o \in Requests : otp'[o] \in OtpRow
    BY <1>2, <1>3, MaxAttemptsIsPositive DEF OtpRow, Statuses
  <2>2. otp' = [o \in Requests |-> otp'[o]]
    BY <1>2
  <2>3. otp' \in [Requests -> OtpRow]
    BY <2>1, <2>2
  <2> QED BY <1>1, <2>3 DEF Inv, TypeOK, Answers
<1>6. /\ pc'[s] = "sent" /\ \A q \in Requests \ {s} : pc'[q] = pc[q]
  BY <1>1 DEF Inv, TypeOK, Answers
<1>7. \A o \in Requests \ {s} :
        /\ otp[o].status # "ABSENT" <=> otp'[o].status # "ABSENT"
        /\ otp[o].status # "PENDING" => otp'[o].status # "PENDING"
        /\ otp'[o].code = otp[o].code
  BY <1>1, <1>4 DEF Inv, SeenIsStored
<1>8. RowsOfAnsweredSends'
  BY <1>6, <1>7 DEF Inv, RowsOfAnsweredSends
<1>9. HeldWasPending'
  BY <1>1, <1>3, <1>6, <1>7 DEF Inv, HeldWasPending, Judging
<1>10. PendingHasAttemptsLeft'
  BY <1>4, MaxAttemptsIsPositive DEF Inv, PendingHasAttemptsLeft
<1>11. AcceptedIsSpent'
  <2> SUFFICES ASSUME NEW r \in Requests, pc'[r] = "ok"
               PROVE  /\ held[r].id \in Requests
                      /\ otp'[held[r].id].status # "PENDING"
                      /\ otp'[held[r].id].code = call[r].code
                      /\ SameKey(held[r].id, r)
    BY <1>1 DEF AcceptedIsSpent
  <2>1. pc[r] = "ok"
    BY <1>6
  <2>2. otp[held[r].id].status # "ABSENT"
    BY <2>1 DEF Inv, HeldWasPending, Judging
  <2> QED BY <1>3, <1>7, <2>1, <2>2 DEF Inv, AcceptedIsSpent
<1>12. OldCodesOnTheirWayOut'
  <2> SUFFICES ASSUME NEW t \in Requests, NEW o \in before[t]
               PROVE  /\ otp'[o].status # "ABSENT"
                      /\ SameKey(o, t)
                      /\ \/ otp'[o].status # "PENDING"
                         \/ pc'[t] \notin {"insert", "sent"}
                         \/ pc'[t] = "insert" /\ o \in seen[t]
    BY <1>1 DEF OldCodesOnTheirWayOut
  <2>1. o \in Requests /\ otp[o].status # "ABSENT" /\ SameKey(o, t)
    BY DEF Inv, TypeOK, OldCodesOnTheirWayOut
  <2>2. o # s
    BY <1>3, <2>1
  <2>3. CASE t = s
    <3>1. otp[o].status # "PENDING" \/ o \in seen[s]
      BY <1>1, <2>3 DEF Inv, OldCodesOnTheirWayOut
    <3> QED BY <1>4, <1>7, <2>1, <2>2, <3>1
  <2>4. CASE t # s
    BY <1>6, <1>7, <2>1, <2>2, <2>4 DEF Inv, OldCodesOnTheirWayOut
  <2> QED BY <2>3, <2>4
<1>13. SeenIsStored'
  <2> SUFFICES ASSUME NEW t \in Requests, NEW o \in seen[t]
               PROVE  otp'[o].status # "ABSENT"
    BY <1>1 DEF SeenIsStored
  <2>1. o \in Requests /\ otp[o].status # "ABSENT"
    BY DEF Inv, TypeOK, SeenIsStored
  <2> QED BY <1>3, <1>7, <2>1
<1> QED BY <1>5, <1>8, <1>9, <1>10, <1>11, <1>12, <1>13 DEF Inv

LEMMA LapseInv ==
  ASSUME Inv, NEW p \in Requests, Lapse(p)
  PROVE  Inv'
<1>1. /\ UNCHANGED <<call, pc, created, seen, held, before>>
      /\ otp' = [otp EXCEPT ![p].lapsed = TRUE]
  BY DEF Lapse
<1>2. TypeOK'
  <2>1. otp \in [Requests -> OtpRow]
    BY DEF Inv, TypeOK
  <2>2. otp' \in [Requests -> OtpRow]
    BY <1>1, <2>1 DEF OtpRow
  <2> QED BY <1>1, <2>2 DEF Inv, TypeOK
<1>3. \A o \in Requests : /\ otp'[o].status = otp[o].status
                          /\ otp'[o].code = otp[o].code
                          /\ otp'[o].attempts = otp[o].attempts
  BY <1>1 DEF Inv, TypeOK, OtpRow
<1>4. before \in [Requests -> SUBSET Requests]
      /\ seen \in [Requests -> SUBSET Requests]
  BY DEF Inv, TypeOK
<1> QED BY <1>1, <1>2, <1>3, <1>4 DEF Inv, RowsOfAnsweredSends,
        HeldWasPending, Judging, PendingHasAttemptsLeft, AcceptedIsSpent,
        OldCodesOnTheirWayOut, SeenIsStored

LEMMA NextInv == Inv /\ [Next]_vars => Inv'
<1> SUFFICES ASSUME Inv, [Next]_vars PROVE Inv'
  OBVIOUS
<1>1. CASE UNCHANGED vars
  BY <1>1 DEF vars, Inv, TypeOK, RowsOfAnsweredSends, HeldWasPending,
     PendingHasAttemptsLeft, AcceptedIsSpent, OldCodesOnTheirWayOut,
     SeenIsStored
<1>2. ASSUME NEW r \in Requests, Send(r) \/ Verify(r) \/ Lose(r) \/ Lapse(r)
      PROVE  Inv'
  BY <1>2, AnswerInv, SendBeginInv, SelectPendingInv, FindInv, VerifyInv,
     SendCommitInv, LapseInv DEF Send, Verify
<1> QED BY <1>1, <1>2 DEF Next, Finished

LEMMA Invariance == Spec => []Inv
<1>1. Init => Inv
  BY InitInv
<1>2. Inv /\ [Next]_vars => Inv'
  BY NextInv
<1> QED BY <1>1, <1>2, PTL DEF Spec

-----------------------------------------------------------------------------
(* Counting wrong answers. *)

\* What a verify has read, too, was earned by wrong answers: a stale count is
\* low, never high.
HeldIsEarned ==
  \A r, o \in Requests : pc[r] = "judge" /\ held[r].id = o =>
    held[r].attempts <= Cardinality(Misses(o))

LEMMA MissesAreCounted ==
  ASSUME NEW o
  PROVE  IsFiniteSet(Misses(o)) /\ Cardinality(Misses(o)) \in Nat
<1>1. Misses(o) \in SUBSET Requests
  BY DEF Misses
<1> QED BY <1>1, FiniteRequests, FS_Subset, FS_CardinalityType

\* Every step but CountMiss leaves the counts alone, gives no row the status
\* FAILED and takes no wrong answer back.
LEMMA OtherSteps ==
  ASSUME Inv, NEW r \in Requests,
         Send(r) \/ Verify(r) \/ Lose(r) \/ Lapse(r), ~CountMiss(r)
  PROVE  /\ \A o \in Requests :
              /\ otp'[o].attempts = otp[o].attempts \/ otp'[o].attempts = 0
              /\ otp'[o].status = "FAILED" => otp[o].status = "FAILED"
         /\ \A o : Misses(o) \subseteq Misses(o)'
         /\ \A q \in Requests : pc'[q] = "judge" =>
              \/ pc[q] = "judge" /\ held'[q] = held[q]
              \/ /\ held'[q].id \in Requests
                 /\ held'[q].attempts = otp[held'[q].id].attempts
<1>0. /\ pc \in [Requests ->
                  {"begin", "select", "insert", "find", "judge"} \cup Answers]
      /\ held \in [Requests -> Found]
      /\ otp \in [Requests -> OtpRow]
  BY DEF Inv, TypeOK
<1>1. CASE SendBegin(r) \/ SendRefused(r) \/ SelectPending(r)
           \/ FindNothing(r) \/ Lose(r)
  <2>1. /\ otp' = otp /\ held' = held
        /\ pc[r] # "wrong"
        /\ \E x \in {"select", "refused", "insert", "none", "lost"} :
             pc' = [pc EXCEPT ![r] = x]
    BY <1>1 DEF SendBegin, SendRefused, SelectPending, FindNothing, Lose,
                Answers
  <2> QED BY <1>0, <2>1 DEF Misses
<1>2. CASE SendCommit(r)
  <2>1. /\ held' = held /\ pc' = [pc EXCEPT ![r] = "sent"] /\ pc[r] = "insert"
    BY <1>2 DEF SendCommit
  <2>2. \A o \in Requests :
          /\ otp'[o].attempts = otp[o].attempts \/ otp'[o].attempts = 0
          /\ otp'[o].status = "FAILED" => otp[o].status = "FAILED"
    BY <1>0, <1>2 DEF SendCommit, OtpRow
  <2> QED BY <1>0, <2>1, <2>2 DEF Misses
<1>3. CASE Find(r)
  <2>1. /\ otp' = otp /\ pc' = [pc EXCEPT ![r] = "judge"] /\ pc[r] = "find"
    BY <1>3 DEF Find
  <2>2. PICK p \in Newest(PendingFor(r)) :
          held' = [held EXCEPT ![r] = [id |-> p, attempts |-> otp[p].attempts,
                                       late |-> otp[p].lapsed]]
    BY <1>3 DEF Find
  <2>3. p \in Requests
    BY <2>2 DEF Newest, PendingFor
  <2> QED BY <1>0, <2>1, <2>2, <2>3 DEF Misses
<1>4. CASE MarkExpired(r) \/ Accept(r)
  <2>1. /\ held' = held /\ pc[r] = "judge"
        /\ \E x \in {"expired", "ok"} : pc' = [pc EXCEPT ![r] = x]
        /\ \E x \in {"EXPIRED", "VERIFIED"} :
             otp' = [otp EXCEPT ![held[r].id].status = x]
    BY <1>4 DEF MarkExpired, Accept
  <2>2. \A o \in Requests :
          /\ otp'[o].attempts = otp[o].attempts
          /\ otp'[o].status = "FAILED" => otp[o].status = "FAILED"
    BY <1>0, <2>1 DEF OtpRow
  <2> QED BY <1>0, <2>1, <2>2 DEF Misses
<1>5. CASE Lapse(r)
  <2>1. held' = held /\ pc' = pc /\ otp' = [otp EXCEPT ![r].lapsed = TRUE]
    BY <1>5 DEF Lapse
  <2>2. \A o \in Requests : /\ otp'[o].attempts = otp[o].attempts
                            /\ otp'[o].status = otp[o].status
    BY <1>0, <2>1 DEF OtpRow
  <2> QED BY <2>1, <2>2 DEF Misses
<1> QED BY <1>1, <1>2, <1>3, <1>4, <1>5 DEF Send, Verify

LEMMA OtherStepsCount ==
  ASSUME Inv, LockoutIsEarned, HeldIsEarned, NEW r \in Requests,
         Send(r) \/ Verify(r) \/ Lose(r) \/ Lapse(r), ~CountMiss(r)
  PROVE  LockoutIsEarned' /\ HeldIsEarned'
<1>1. ASSUME NEW o
      PROVE  /\ Cardinality(Misses(o)) <= Cardinality(Misses(o)')
             /\ Cardinality(Misses(o)) \in Nat
             /\ Cardinality(Misses(o)') \in Nat
  <2>1. Misses(o)' \in SUBSET Requests
    BY DEF Misses
  <2>2. IsFiniteSet(Misses(o)') /\ Cardinality(Misses(o)') \in Nat
    BY <2>1, FiniteRequests, FS_Subset, FS_CardinalityType
  <2>3. Misses(o) \in SUBSET (Misses(o)')
    BY OtherSteps
  <2> QED BY <2>2, <2>3, FS_Subset, MissesAreCounted
<1>2. /\ MaxAttempts \in Nat
      /\ \A o \in Requests : otp[o].attempts \in Nat
  BY MaxAttemptsIsPositive DEF Inv, TypeOK, OtpRow
<1>3. LockoutIsEarned'
  <2> SUFFICES ASSUME NEW o \in Requests
               PROVE  /\ otp'[o].attempts <= Cardinality(Misses(o)')
                      /\ otp'[o].status = "FAILED" =>
                           Cardinality(Misses(o)') >= MaxAttempts
    BY DEF LockoutIsEarned
  <2>1. /\ otp'[o].attempts = otp[o].attempts \/ otp'[o].attempts = 0
        /\ otp'[o].status = "FAILED" => otp[o].status = "FAILED"
    BY OtherSteps
  <2>2. /\ otp[o].attempts <= Cardinality(Misses(o))
        /\ otp[o].status = "FAILED" => Cardinality(Misses(o)) >= MaxAttempts
    BY DEF LockoutIsEarned
  <2> QED BY <1>1, <1>2, <2>1, <2>2
<1>4. HeldIsEarned'
  <2> SUFFICES ASSUME NEW q \in Requests, NEW o \in Requests,
                      pc'[q] = "judge", held'[q].id = o
               PROVE  held'[q].attempts <= Cardinality(Misses(o)')
    BY DEF HeldIsEarned
  <2>0. /\ Cardinality(Misses(o)) <= Cardinality(Misses(o)')
        /\ Cardinality(Misses(o)) \in Nat
        /\ Cardinality(Misses(o)') \in Nat
    BY <1>1
  <2>1. CASE pc[q] = "judge" /\ held'[q] = held[q]
    <3>1. held[q].attempts <= Cardinality(Misses(o))
      BY <2>1 DEF HeldIsEarned
    <3>2. held[q].attempts \in Nat
      BY DEF Inv, TypeOK, Found
    <3> QED BY <2>0, <2>1, <3>1, <3>2
  <2>2. CASE /\ held'[q].id \in Requests
             /\ held'[q].attempts = otp[held'[q].id].attempts
    <3>1. otp[o].attempts <= Cardinality(Misses(o))
      BY DEF LockoutIsEarned
    <3> QED BY <1>2, <2>0, <2>2, <3>1
  <2> QED BY <2>1, <2>2, OtherSteps
<1> QED BY <1>3, <1>4

LEMMA CountMissCounts ==
  ASSUME Inv, LockoutIsEarned, HeldIsEarned, NEW r \in Requests, CountMiss(r)
  PROVE  LockoutIsEarned' /\ HeldIsEarned'
<1>0. PICK h \in Requests : held[r].id = h
  BY DEF CountMiss, Inv, HeldWasPending, Judging
<1>1. /\ pc[r] = "judge" /\ pc' = [pc EXCEPT ![r] = "wrong"] /\ held' = held
      /\ otp' = [otp EXCEPT
           ![h].attempts = Missed(r),
           ![h].status = IF Missed(r) >= MaxAttempts THEN "FAILED" ELSE @]
  BY <1>0 DEF CountMiss
<1>2. /\ held[r].attempts \in Nat /\ MaxAttempts \in Nat
      /\ pc \in [Requests ->
                  {"begin", "select", "insert", "find", "judge"} \cup Answers]
      /\ otp \in [Requests -> OtpRow]
      /\ \A o \in Requests : otp[o].attempts \in Nat
      /\ \A q \in Requests : held[q].attempts \in Nat
  BY <1>1, MaxAttemptsIsPositive
  DEF Inv, TypeOK, HeldWasPending, Judging, Found, OtpRow
<1>3. /\ pc'[r] = "wrong" /\ \A q \in Requests \ {r} : pc'[q] = pc[q]
      /\ otp'[h].attempts = Missed(r)
      /\ otp'[h].status = "FAILED" =>
           otp[h].status = "FAILED" \/ Missed(r) >= MaxAttempts
      /\ \A o \in Requests \ {h} : otp'[o] = otp[o]
  BY <1>1, <1>2 DEF OtpRow
<1>4. /\ Misses(h)' = Misses(h) \cup {r} /\ r \notin Misses(h)
      /\ \A o : o # h => Misses(o)' = Misses(o)
  BY <1>0, <1>1, <1>3 DEF Misses
<1>5. /\ Cardinality(Misses(h)') = Cardinality(Misses(h)) + 1
      /\ \A o : Cardinality(Misses(o)) \in Nat
  BY <1>4, MissesAreCounted, FS_AddElement
<1>6. held[r].attempts <= Cardinality(Misses(h))
  BY <1>0, <1>1 DEF HeldIsEarned
<1>7. LockoutIsEarned'
  <2> SUFFICES ASSUME NEW o \in Requests
               PROVE  /\ otp'[o].attempts <= Cardinality(Misses(o)')
                      /\ otp'[o].status = "FAILED" =>
                           Cardinality(Misses(o)') >= MaxAttempts
    BY DEF LockoutIsEarned
  <2>1. /\ otp[o].attempts <= Cardinality(Misses(o))
        /\ otp[o].status = "FAILED" => Cardinality(Misses(o)) >= MaxAttempts
    BY DEF LockoutIsEarned
  <2>2. CASE o = h
    <3>1. Cardinality(Misses(o)') = Cardinality(Misses(o)) + 1
      BY <1>4, <1>5, <2>2
    <3>2. held[r].attempts <= Cardinality(Misses(o))
      BY <1>6, <2>2
    <3> QED BY <1>2, <1>3, <1>5, <2>1, <2>2, <3>1, <3>2 DEF Missed
  <2>3. CASE o # h
    <3>1. Misses(o)' = Misses(o)
      BY <1>4, <2>3
    <3> QED BY <1>3, <2>1, <2>3, <3>1
  <2> QED BY <2>2, <2>3
<1>8. HeldIsEarned'
  <2> SUFFICES ASSUME NEW q \in Requests, NEW o \in Requests,
                      pc'[q] = "judge", held[q].id = o
               PROVE  held[q].attempts <= Cardinality(Misses(o)')
    BY <1>1 DEF HeldIsEarned
  <2>1. held[q].attempts <= Cardinality(Misses(o))
    BY <1>3 DEF HeldIsEarned
  <2>2. CASE o = h
    <3>1. Cardinality(Misses(o)') = Cardinality(Misses(o)) + 1
      BY <1>4, <1>5, <2>2
    <3> QED BY <1>2, <1>5, <2>1, <3>1
  <2>3. CASE o # h
    <3>1. Misses(o)' = Misses(o)
      BY <1>4, <2>3
    <3> QED BY <2>1, <3>1
  <2> QED BY <2>2, <2>3
<1> QED BY <1>7, <1>8

LEMMA NextCounts ==
  Inv /\ LockoutIsEarned /\ HeldIsEarned /\ [Next]_vars =>
    LockoutIsEarned' /\ HeldIsEarned'
<1> SUFFICES ASSUME Inv, LockoutIsEarned, HeldIsEarned, [Next]_vars
             PROVE  LockoutIsEarned' /\ HeldIsEarned'
  OBVIOUS
<1>1. CASE UNCHANGED vars
  BY <1>1 DEF vars, LockoutIsEarned, HeldIsEarned, Misses
<1>2. ASSUME NEW r \in Requests, Send(r) \/ Verify(r) \/ Lose(r) \/ Lapse(r)
      PROVE  LockoutIsEarned' /\ HeldIsEarned'
  <2>1. CASE CountMiss(r)
    BY <2>1, CountMissCounts
  <2>2. CASE ~CountMiss(r)
    BY <1>2, <2>2, OtherStepsCount
  <2> QED BY <2>1, <2>2
<1> QED BY <1>1, <1>2 DEF Next, Finished

-----------------------------------------------------------------------------
(* Theorems *)

\* The table of OTPs and the state of the calls keep their types; attempts
\* never goes beyond otp_max_attempts.
THEOREM TypeCorrect == Spec => []TypeOK
<1>1. Inv => TypeOK
  BY DEF Inv
<1> QED BY <1>1, Invariance, PTL

\* Whatever verifies and sends race, an OTP in PENDING has an attempt left.
THEOREM PendingIsUsable == Spec => []PendingHasAttemptsLeft
<1>1. Inv => PendingHasAttemptsLeft
  BY DEF Inv
<1> QED BY <1>1, Invariance, PTL

\* Once verify has accepted a code, no later verify finds that OTP again, and
\* it was the right OTP.
THEOREM AcceptedStaysSpent == Spec => []AcceptedIsSpent
<1>1. Inv => AcceptedIsSpent
  BY DEF Inv
<1> QED BY <1>1, Invariance, PTL

\* An answered send has taken every OTP that was there when it began out of
\* PENDING, for good.
THEOREM OldCodesAreReplaced == Spec => []NewCodeReplacesOld
<1>1. Inv => NewCodeReplacesOld
  BY DEF Inv, NewCodeReplacesOld, OldCodesOnTheirWayOut
<1> QED BY <1>1, Invariance, PTL

\* A lost update may forget a wrong answer, but none is counted twice: an OTP
\* in FAILED has had otp_max_attempts of them.
THEOREM LockoutTakesItsAttempts == Spec => []LockoutIsEarned
<1>1. Init => LockoutIsEarned /\ HeldIsEarned
  <2> SUFFICES ASSUME Init PROVE LockoutIsEarned /\ HeldIsEarned
    OBVIOUS
  <2>1. \A o \in Requests : otp[o].attempts = 0 /\ otp[o].status = "ABSENT"
    BY DEF Init, NoRow
  <2>2. \A r \in Requests : pc[r] # "judge"
    BY DEF Init
  <2> QED BY <2>1, <2>2, MissesAreCounted DEF LockoutIsEarned, HeldIsEarned
<1>2. Inv /\ LockoutIsEarned /\ HeldIsEarned /\ [Next]_vars =>
        LockoutIsEarned' /\ HeldIsEarned'
  BY NextCounts
<1> QED BY <1>1, <1>2, Invariance, PTL DEF Spec
=============================================================================
