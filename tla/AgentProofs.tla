----------------------------- MODULE AgentProofs -----------------------------
(***************************************************************************)
(* Proofs of Agent, for any manifest, any proposals of the model and any   *)
(* limits.                                                                 *)
(*                                                                         *)
(* Inv adds to the properties that a turn waits for its last request, the  *)
(* one of the call at hand, and has no result of it yet (Waiting), and     *)
(* that a report names a request that was posted (Named), and that a model *)
(* is asked again only when no call is left (Rounds).  Script adds what    *)
(* the page relies on when it says that a reply is verified.               *)
(***************************************************************************)
EXTENDS Agent, SequenceTheorems, TLAPS

Job == [tool : STRING, state : JobStates]
Reported == {"success", "invalid", "execution"}

\* The histories are sequences, and what is left of a proposal is one.
Lists ==
  /\ results \in Seq(Result) /\ job \in Seq(Job)
  /\ calls \in Seq(STRING)

Rounds == pc = "complete" => calls = <<>>

\* The parts of EveryCallHasAResult.
Answered == [k \in DOMAIN results |-> results[k].tool]
AsAsked == asked = Answered \o calls
RefusedInTurn ==
  \A k \in DOMAIN results : results[k].job = 0 =>
    \/ results[k].answer = "not_in_manifest" /\ results[k].tool \notin Manifest[intent]
    \/ /\ results[k].answer = "limit_exceeded"
       /\ \E i \in 1 .. k - 1 : results[i].job = MaxInvocations
PostedInTurn ==
  /\ \A i \in DOMAIN job :
       \/ \E k \in DOMAIN results : results[k].job = i
       \/ pc \in {"wait", "failed"} /\ i = Len(job)
  /\ \A i, k \in DOMAIN results :
       i < k /\ results[i].job > 0 /\ results[k].job > 0
         => results[i].job < results[k].job

Named ==
  \A k \in DOMAIN results :
    /\ results[k].job <= Len(job)
    /\ results[k].answer \in Reported => results[k].job > 0

Waiting ==
  pc = "wait" => /\ calls # <<>> /\ Len(job) > 0
                 /\ job[Len(job)].tool = Head(calls)
                 /\ \A k \in DOMAIN results : results[k].job < Len(job)

\* What is left to be shown of TypeOK.
Bounds ==
  /\ intent \in Intents /\ provider \in Providers
  /\ pc \in {"complete", "call", "wait"} \cup Ends
  /\ round \in 1 .. MaxRounds
  /\ Len(job) <= MaxInvocations
  /\ \A i \in DOMAIN job : job[i].tool \in Manifest[intent]
  /\ reply \in {"none", "text", "verified", "not_found"}

Inv == /\ Lists /\ Bounds /\ Named /\ Waiting /\ Rounds
       /\ ReportsAreTrue /\ AsAsked /\ RefusedInTurn /\ PostedInTurn

-----------------------------------------------------------------------------
LEMMA InitInv == Init => Inv
  <1> SUFFICES ASSUME Init PROVE Inv
    OBVIOUS
  <1>1. Lists /\ Bounds /\ Named /\ Waiting /\ Rounds /\ ReportsAreTrue
    BY RoundsArePositive, BudgetIsPositive
       DEF Init, Lists, Bounds, Named, Waiting, Rounds, ReportsAreTrue
  <1>2. [k \in DOMAIN results |-> results[k].tool] = <<>>
    BY DEF Init
  <1>3. AsAsked /\ RefusedInTurn /\ PostedInTurn
    BY <1>2 DEF Init, AsAsked, Answered, RefusedInTurn, PostedInTurn
  <1> QED
    BY <1>1, <1>3 DEF Inv

\* A call that is answered moves from what is left to what is answered.
LEMMA OneMoves ==
  ASSUME NEW S, NEW s \in Seq(S), NEW c \in Seq(S), c # <<>>
  PROVE  Append(s, Head(c)) \o Tail(c) = s \o c
  <1> DEFINE a == Append(s, Head(c)) \o Tail(c)
             b == s \o c
  <1>1. Len(s) \in Nat /\ Len(c) \in Nat /\ Len(c) > 0 /\ Head(c) = c[1]
    OBVIOUS
  <1>2. /\ Append(s, Head(c)) \in Seq(S) /\ Len(Append(s, Head(c))) = Len(s) + 1
        /\ Tail(c) \in Seq(S) /\ Len(Tail(c)) = Len(c) - 1
        /\ \A i \in 1 .. Len(c) - 1 : Tail(c)[i] = c[i + 1]
    BY <1>1
  <1>3. /\ a \in Seq(S) /\ b \in Seq(S) /\ Len(a) = Len(s) + Len(c)
        /\ Len(b) = Len(s) + Len(c)
    BY <1>1, <1>2, ConcatProperties
  <1>4. ASSUME NEW i \in 1 .. Len(s) + Len(c) PROVE a[i] = b[i]
    <2>1. CASE i <= Len(s)
      BY <1>1, <1>2, <2>1, ConcatProperties
    <2>2. CASE i = Len(s) + 1
      BY <1>1, <1>2, <2>2, ConcatProperties
    <2>3. CASE i > Len(s) + 1
      BY <1>1, <1>2, <2>3, ConcatProperties
    <2> QED
      BY <1>1, <2>1, <2>2, <2>3
  <1> HIDE DEF a, b
  <1> QED
    BY <1>3, <1>4, SeqEqual DEF a, b

LEMMA Indices ==
  ASSUME Lists
  PROVE  /\ DOMAIN results = 1 .. Len(results) /\ Len(results) \in Nat
         /\ DOMAIN job = 1 .. Len(job) /\ Len(job) \in Nat
         /\ \A k \in DOMAIN results : results[k] \in Result
         /\ \A i \in DOMAIN job : job[i] \in Job
  BY DEF Lists

LEMMA AnsweredIsTyped == Lists => Answered \in Seq(STRING) /\ Len(Answered) = Len(results)
  <1> SUFFICES ASSUME Lists PROVE Answered \in Seq(STRING) /\ Len(Answered) = Len(results)
    OBVIOUS
  <1>1. Answered \in [1 .. Len(results) -> STRING]
    BY Indices DEF Answered, Result
  <1> QED
    BY <1>1, Indices, SeqDef

\* The model and the rounds: no request is posted and no result comes in.
LEMMA ThinkingKeepsInv ==
  ASSUME Inv, Propose \/ Reply \/ ModelFails \/ NextRound
  PROVE  Inv'
  <1>1. /\ UNCHANGED <<results, job, intent, provider>>
        /\ pc \in {"complete", "call"} /\ pc' # "wait"
        /\ pc' \in {"complete", "call"} \cup Ends
    BY DEF Propose, Reply, ModelFails, NextRound, turn, Ends
  <1>2. calls' \in Seq(STRING)
    BY ProposalsAreLists DEF Propose, Reply, ModelFails, NextRound, Inv, Lists
  <1>3. round' \in 1 .. MaxRounds
    BY RoundsArePositive DEF Propose, Reply, ModelFails, NextRound, Inv, Bounds
  <1>4. reply' \in {"none", "text", "verified", "not_found"}
    BY DEF Propose, Reply, ModelFails, NextRound, Inv, Bounds
  <1>5. Lists' /\ Bounds'
    BY <1>1, <1>2, <1>3, <1>4 DEF Inv, Lists, Bounds
  <1>6. /\ Named' /\ Waiting' /\ ReportsAreTrue' /\ RefusedInTurn' /\ PostedInTurn'
    BY <1>1 DEF Inv, Named, Waiting, ReportsAreTrue, RefusedInTurn, PostedInTurn
  <1>7. Rounds'
    BY DEF Propose, Reply, ModelFails, NextRound, Ends, Rounds
  <1>8. AsAsked'
    <2>1. CASE Propose
      <3>1. calls = <<>> /\ asked' = asked \o calls'
        BY <2>1 DEF Propose, Inv, Rounds
      <3>2. Answered' = Answered /\ Answered \in Seq(STRING)
        BY <1>1, AnsweredIsTyped DEF Inv, Answered
      <3>3. asked = Answered
        BY <3>1, <3>2, ConcatEmptySeq DEF Inv, AsAsked
      <3> QED
        BY <3>1, <3>2, <3>3 DEF AsAsked
    <2>2. CASE UNCHANGED <<asked, calls>>
      BY <1>1, <2>2 DEF Inv, AsAsked, Answered
    <2> QED
      BY <2>1, <2>2 DEF Reply, ModelFails, NextRound
  <1> QED
    BY <1>5, <1>6, <1>7, <1>8 DEF Inv

\* A result is added: of no request (a call refused by the client), or of the
\* last one, which no other result is of (loop.py:104).
LEMMA AnswerKeepsInv ==
  ASSUME Inv, NEW n \in Nat, NEW a \in Errors \cup {"success"}, calls # <<>>,
         Answer(n, a), UNCHANGED job,
         pc \in {"call", "wait"},
         pc = "call" => /\ n = 0 /\ a \notin Reported
                        /\ \/ a = "not_in_manifest" /\ Head(calls) \notin Manifest[intent]
                           \/ a = "limit_exceeded" /\ Len(job) >= MaxInvocations,
         pc = "wait" => n = Len(job) /\ (a \in Reported => a = job[n].state)
  PROVE  Inv'
  <1> DEFINE new == [tool |-> Head(calls), job |-> n, answer |-> a]
  <1>1. Head(calls) \in STRING /\ Tail(calls) \in Seq(STRING)
    BY DEF Inv, Lists
  <1>2. new \in Result /\ new.job = n /\ new.answer = a /\ new.tool = Head(calls)
    BY <1>1 DEF Result
  <1>3. /\ results' = Append(results, new) /\ calls' = Tail(calls) /\ pc' = "call"
        /\ UNCHANGED <<intent, provider, round, asked, job, reply>>
    BY DEF Answer, turn
  <1> HIDE DEF new
  <1>4. PICK L \in Nat : L = Len(results)
    BY Indices DEF Inv
  <1>5. DOMAIN results = 1 .. L
    BY <1>4, Indices DEF Inv
  <1>6. \A k \in 1 .. L : results[k].job \in Nat
    BY <1>5, Indices DEF Inv, Result
  <1>7. Len(job) \in Nat
    BY Indices DEF Inv
  <1>8. results' \in Seq(Result) /\ Len(results') = L + 1
    BY <1>2, <1>3, <1>4 DEF Inv, Lists
  <1>9. /\ DOMAIN results' = 1 .. L + 1 /\ results'[L + 1] = new
        /\ \A k \in 1 .. L : results'[k] = results[k]
    BY <1>2, <1>3, <1>4 DEF Inv, Lists
  <1>10. \A k \in 1 .. L + 1 : k = L + 1 \/ k \in 1 .. L
    OBVIOUS
  <1>11. \A k \in 1 .. L : n > 0 => results[k].job < n
    BY <1>5 DEF Inv, Waiting
  <1>12. n > 0 => job[n].tool = Head(calls) /\ n \in DOMAIN job
    <2> SUFFICES ASSUME n > 0 PROVE job[n].tool = Head(calls) /\ n \in DOMAIN job
      OBVIOUS
    <2>1. pc = "wait" /\ n = Len(job)
      OBVIOUS
    <2>2. n \in 1 .. Len(job)
      BY <1>7, <2>1
    <2> QED
      BY <2>1, <2>2, Indices DEF Inv, Waiting
  <1>13. a \in Reported => n > 0
    BY DEF Inv, Waiting
  <1>14. Lists' /\ Bounds' /\ Waiting'
    BY <1>1, <1>3, <1>8 DEF Inv, Lists, Bounds, Waiting
  <1>15. n <= Len(job)
    BY <1>7
  <1>16. Named'
    <2>1. \A k \in 1 .. L : /\ results'[k].job <= Len(job)
                            /\ results'[k].answer \in Reported => results'[k].job > 0
      BY <1>5, <1>9 DEF Inv, Named
    <2>2. /\ results'[L + 1].job <= Len(job)
          /\ results'[L + 1].answer \in Reported => results'[L + 1].job > 0
      BY <1>2, <1>9, <1>13, <1>15
    <2> QED
      BY <1>3, <1>9, <1>10, <2>1, <2>2 DEF Named
  <1>17. ReportsAreTrue'
    <2> DEFINE Kept(i) == job[results'[i].job] =
                            [tool |-> results'[i].tool, state |-> results'[i].answer]
               Alone(i, k) == results'[k].job = results'[i].job => k = i
    <2>1. ASSUME NEW i \in 1 .. L, results'[i].answer \in Reported
          PROVE  Kept(i) /\ \A k \in 1 .. L + 1 : Alone(i, k)
      <3>1. /\ job[results[i].job] = [tool |-> results[i].tool, state |-> results[i].answer]
            /\ \A k \in 1 .. L : results[k].job = results[i].job => k = i
            /\ results[i].job > 0
        BY <1>5, <1>9, <2>1 DEF Inv, ReportsAreTrue, Reported, Named
      <3>2. results'[L + 1].job # results[i].job
        BY <1>2, <1>6, <1>9, <1>11, <2>1, <3>1
      <3>3. results'[i] = results[i]
        BY <1>9
      <3>4. \A k \in 1 .. L : Alone(i, k)
        BY <1>9, <3>1, <3>3
      <3>5. Alone(i, L + 1)
        BY <3>2, <3>3
      <3> QED
        BY <1>10, <3>1, <3>3, <3>4, <3>5
    <2>2. ASSUME results'[L + 1].answer \in Reported
          PROVE  Kept(L + 1) /\ \A k \in 1 .. L + 1 : Alone(L + 1, k)
      <3>1. n > 0 /\ a = job[n].state /\ job[n].tool = Head(calls) /\ job[n] \in Job
        BY <1>2, <1>9, <1>12, <1>13, <2>2, Indices DEF Inv
      <3>2. job[n] = [tool |-> Head(calls), state |-> a]
        BY <3>1 DEF Job
      <3>3. \A k \in 1 .. L : results'[k].job # n
        BY <1>6, <1>9, <1>11, <3>1
      <3> QED
        BY <1>2, <1>9, <1>10, <3>2, <3>3
    <2> HIDE DEF Kept, Alone
    <2>3. \A i \in 1 .. L + 1 : results'[i].answer \in Reported =>
            Kept(i) /\ \A k \in 1 .. L + 1 : Alone(i, k)
      BY <1>10, <2>1, <2>2
    <2> QED
      BY <1>3, <1>9, <2>3 DEF ReportsAreTrue, Reported, Kept, Alone
  <1>18. AsAsked'
    <2>1. Answered' = Append(Answered, Head(calls))
      <3>1. /\ Answered \in Seq(STRING) /\ Len(Answered) = L
            /\ \A k \in 1 .. L : Answered[k] = results[k].tool
        BY <1>4, <1>5, AnsweredIsTyped DEF Inv, Answered
      <3>2. /\ Answered' \in Seq(STRING) /\ Len(Answered') = L + 1
            /\ \A k \in 1 .. L + 1 : Answered'[k] = results'[k].tool
        <4>1. /\ Answered' = [k \in 1 .. L + 1 |-> results'[k].tool]
              /\ \A k \in 1 .. L + 1 : results'[k].tool \in STRING
          <5>1. DOMAIN results' = 1 .. L + 1
            BY <1>9
          <5>2. \A k \in 1 .. L + 1 : results'[k] \in Result
            BY <1>8, <1>9
          <5> QED
            BY <5>1, <5>2 DEF Answered, Result
        <4>2. L + 1 \in Nat
          OBVIOUS
        <4>3. Answered' \in [1 .. L + 1 -> STRING]
          BY <4>1
        <4>4. Answered' \in Seq(STRING)
          BY <4>2, <4>3, SeqDef
        <4>5. Len(Answered') = L + 1
          BY <4>2, <4>3, <4>4, LenProperties
        <4> QED
          BY <4>1, <4>4, <4>5
      <3>3. /\ Append(Answered, Head(calls)) \in Seq(STRING)
            /\ Len(Append(Answered, Head(calls))) = L + 1
            /\ \A k \in 1 .. L : Append(Answered, Head(calls))[k] = Answered[k]
            /\ Append(Answered, Head(calls))[L + 1] = Head(calls)
        BY <1>1, <3>1, AppendProperties
      <3>4. \A k \in 1 .. L + 1 : Answered'[k] = Append(Answered, Head(calls))[k]
        BY <1>2, <1>9, <1>10, <3>1, <3>2, <3>3
      <3> QED
        BY <3>2, <3>3, <3>4, SeqEqual
    <2>2. Append(Answered, Head(calls)) \o Tail(calls) = Answered \o calls
      BY AnsweredIsTyped, OneMoves DEF Inv, Lists
    <2> QED
      BY <1>3, <2>1, <2>2 DEF Inv, AsAsked
  <1>19. RefusedInTurn'
    <2>1. ASSUME NEW k \in 1 .. L, results'[k].job = 0
          PROVE  \/ /\ results'[k].answer = "not_in_manifest"
                    /\ results'[k].tool \notin Manifest[intent]
                 \/ /\ results'[k].answer = "limit_exceeded"
                    /\ \E i \in 1 .. k - 1 : results'[i].job = MaxInvocations
      <3>1. results'[k] = results[k] /\ k \in DOMAIN results
        BY <1>5, <1>9
      <3>2. \A i \in 1 .. k - 1 : results'[i] = results[i]
        BY <1>9
      <3> QED
        BY <2>1, <3>1, <3>2 DEF Inv, RefusedInTurn
    <2>2. ASSUME n = 0
          PROVE  \/ a = "not_in_manifest" /\ Head(calls) \notin Manifest[intent]
                 \/ /\ a = "limit_exceeded"
                    /\ \E i \in 1 .. L : results'[i].job = MaxInvocations
      <3>1. pc = "call"
        BY <2>2 DEF Inv, Waiting
      <3>2. CASE Len(job) >= MaxInvocations
        <4>1. MaxInvocations = Len(job) /\ MaxInvocations \in DOMAIN job
          <5>1. Len(job) <= MaxInvocations /\ DOMAIN job = 1 .. Len(job)
            BY Indices DEF Inv, Bounds
          <5>2. MaxInvocations \in Nat /\ MaxInvocations > 0
            BY BudgetIsPositive
          <5>3. \A l, m \in Nat : l <= m /\ l >= m /\ m > 0 => m = l /\ m \in 1 .. l
            OBVIOUS
          <5> QED
            BY <1>7, <3>2, <5>1, <5>2, <5>3
        <4>2. PICK i \in 1 .. L : results[i].job = MaxInvocations
          BY <1>5, <3>1, <4>1 DEF Inv, PostedInTurn
        <4> QED
          BY <1>9, <3>1, <4>2
      <3> QED
        BY <3>1, <3>2
    <2>3. L + 1 - 1 = L
      OBVIOUS
    <2> QED
      BY <1>2, <1>3, <1>9, <1>10, <2>1, <2>2, <2>3 DEF RefusedInTurn
  <1>20. Rounds'
    BY <1>3 DEF Rounds
  <1>21. PostedInTurn'
    <2>1. ASSUME NEW i \in DOMAIN job PROVE \E k \in 1 .. L + 1 : results'[k].job = i
      <3>1. ASSUME NEW k \in 1 .. L, results[k].job = i
            PROVE  k \in 1 .. L + 1 /\ results'[k].job = i
        BY <1>9, <3>1
      <3>2. CASE pc = "wait" /\ i = Len(job)
        <4>1. L + 1 \in 1 .. L + 1 /\ results'[L + 1].job = i
          BY <1>2, <1>9, <3>2
        <4> QED
          BY <4>1
      <3>3. \/ \E k \in 1 .. L : results[k].job = i
            \/ pc = "wait" /\ i = Len(job)
        BY <1>5 DEF Inv, PostedInTurn
      <3> QED
        BY <3>1, <3>2, <3>3
    <2>2. ASSUME NEW i \in 1 .. L + 1, NEW k \in 1 .. L + 1, i < k,
                 results'[i].job > 0, results'[k].job > 0
          PROVE  results'[i].job < results'[k].job
      <3>1. i \in 1 .. L
        BY <2>2
      <3>2. CASE k = L + 1
        BY <1>2, <1>9, <1>11, <2>2, <3>1, <3>2
      <3>3. CASE k \in 1 .. L
        BY <1>5, <1>9, <2>2, <3>1, <3>3 DEF Inv, PostedInTurn
      <3> QED
        BY <1>10, <3>2, <3>3
    <2> QED
      BY <1>3, <1>9, <2>1, <2>2 DEF PostedInTurn
  <1> QED
    BY <1>14, <1>16, <1>17, <1>18, <1>19, <1>20, <1>21 DEF Inv

LEMMA ClientKeepsInv ==
  ASSUME Inv, NotInManifest \/ LimitExceeded \/ Receive \/ TimeOut
  PROVE  Inv'
  <1>1. CASE NotInManifest \/ LimitExceeded
    <2>1. PICK a : /\ Deny(a)
                   /\ \/ a = "not_in_manifest" /\ Head(calls) \notin Manifest[intent]
                      \/ a = "limit_exceeded" /\ Len(job) >= MaxInvocations
      BY <1>1 DEF NotInManifest, LimitExceeded
    <2>2. pc = "call" /\ calls # <<>>
      BY <1>1 DEF NotInManifest, LimitExceeded
    <2>3. a \in Errors /\ a \notin Reported
      BY <2>1 DEF Errors, Reported
    <2> QED
      BY <2>1, <2>2, <2>3, AnswerKeepsInv DEF Deny
  <1>2. CASE Receive \/ TimeOut
    <2>1. /\ pc = "wait" /\ calls # <<>> /\ Len(job) \in Nat
          /\ UNCHANGED job
      BY <1>2 DEF Receive, TimeOut, Inv, Waiting, Lists
    <2>2. PICK a \in {"transport", "success", "invalid", "execution"} :
            /\ Answer(Len(job), a)
            /\ a \in Reported => a = job[Len(job)].state
      BY <1>2 DEF Receive, TimeOut, Reported
    <2>3. a \in Errors \cup {"success"}
      BY DEF Errors
    <2> QED
      BY <2>1, <2>2, <2>3, AnswerKeepsInv
  <1> QED
    BY <1>1, <1>2

\* A request is posted: it is the last, and nothing is known of it
\* (mcp_client.py:79, :90).
LEMMA PostKeepsInv ==
  ASSUME Inv, Post
  PROVE  Inv'
  <1> DEFINE new == [tool |-> Head(calls), state |-> "posted"]
             n == Len(job)
  <1>1. /\ DOMAIN results = 1 .. Len(results) /\ Len(results) \in Nat
        /\ DOMAIN job = 1 .. n /\ n \in Nat
        /\ \A k \in DOMAIN results : results[k] \in Result
    BY Indices DEF Inv
  <1>2. /\ pc = "call" /\ calls # <<>> /\ Head(calls) \in Manifest[intent]
        /\ n < MaxInvocations /\ job' = Append(job, new) /\ pc' = "wait"
        /\ UNCHANGED <<intent, provider, round, asked, calls, results, reply>>
    BY DEF Post, turn
  <1>3. Head(calls) \in STRING /\ new \in Job /\ new.tool = Head(calls)
    BY <1>2 DEF Inv, Lists, Job, JobStates
  <1> HIDE DEF new, n
  <1>4. /\ job' \in Seq(Job) /\ Len(job') = n + 1 /\ DOMAIN job' = 1 .. n + 1
        /\ job'[n + 1] = new /\ \A i \in 1 .. n : job'[i] = job[i]
    BY <1>2, <1>3 DEF Inv, Lists, n
  <1>5. Lists'
    BY <1>2, <1>4 DEF Inv, Lists
  <1>6. Bounds'
    <2>1. n + 1 <= MaxInvocations
      BY <1>1, <1>2, BudgetIsPositive
    <2>2. \A i \in 1 .. n + 1 : job'[i].tool \in Manifest[intent]
      BY <1>1, <1>2, <1>3, <1>4 DEF Inv, Bounds
    <2> QED
      BY <1>2, <1>4, <2>1, <2>2 DEF Inv, Bounds
  <1>7. \A k \in DOMAIN results : results[k].job \in 0 .. n
    BY <1>1 DEF Inv, Named, Result, n
  <1>8. Named' /\ Waiting'
    BY <1>1, <1>2, <1>3, <1>4, <1>7 DEF Inv, Named, Waiting
  <1>9. ReportsAreTrue'
    BY <1>1, <1>2, <1>4, <1>7 DEF Inv, ReportsAreTrue, Named, Reported
  <1>10. AsAsked' /\ RefusedInTurn' /\ Rounds'
    BY <1>2 DEF Inv, AsAsked, Answered, RefusedInTurn, Rounds
  <1>11. PostedInTurn'
    <2>1. \A i \in 1 .. n : \E k \in DOMAIN results : results[k].job = i
      BY <1>1, <1>2 DEF Inv, PostedInTurn
    <2>2. \A i \in 1 .. n + 1 : i \in 1 .. n \/ i = Len(job')
      BY <1>1, <1>4
    <2> QED
      BY <1>2, <1>4, <2>1, <2>2 DEF Inv, PostedInTurn
  <1> QED
    BY <1>5, <1>6, <1>8, <1>9, <1>10, <1>11 DEF Inv

LEMMA GarbledKeepsInv ==
  ASSUME Inv, Garbled
  PROVE  Inv'
  <1>1. /\ UNCHANGED <<intent, provider, round, asked, calls, results, job, reply>>
        /\ pc = "wait" /\ pc' = "failed"
    BY DEF Garbled, turn
  <1>2. Lists' /\ Bounds' /\ Named' /\ Waiting'
    BY <1>1 DEF Inv, Lists, Bounds, Named, Waiting, Ends
  <1>3. ReportsAreTrue' /\ Rounds' /\ AsAsked' /\ RefusedInTurn' /\ PostedInTurn'
    BY <1>1 DEF Inv, ReportsAreTrue, Rounds, AsAsked, Answered, RefusedInTurn, PostedInTurn
  <1> QED
    BY <1>2, <1>3 DEF Inv

\* The server decides a request that is still open, so nothing that has been
\* reported changes (mcp/server.py).
LEMMA ServerKeepsInv ==
  ASSUME Inv, Server
  PROVE  Inv'
  <1>1. PICK i \in DOMAIN job, state \in JobStates :
          /\ job[i].state = "posted" /\ job' = [job EXCEPT ![i].state = state]
          /\ UNCHANGED <<intent, provider, pc, round, asked, calls, results, reply>>
    BY DEF Server, RunTool, LoseJob, SetJob, turn, JobStates
  <1>2. /\ DOMAIN results = 1 .. Len(results) /\ Len(results) \in Nat
        /\ DOMAIN job = 1 .. Len(job) /\ Len(job) \in Nat
        /\ \A k \in DOMAIN results : results[k] \in Result
        /\ \A k \in DOMAIN job : job[k] \in Job
    BY Indices DEF Inv
  <1>3. [job[i] EXCEPT !.state = state] \in Job
        /\ [job[i] EXCEPT !.state = state].tool = job[i].tool
    BY <1>1, <1>2 DEF Job
  <1>4. job' = [job EXCEPT ![i] = [job[i] EXCEPT !.state = state]]
    BY <1>1
  <1>5. /\ job' \in Seq(Job) /\ Len(job') = Len(job) /\ DOMAIN job' = DOMAIN job
        /\ job'[i].tool = job[i].tool
        /\ \A k \in DOMAIN job : k # i => job'[k] = job[k]
    BY <1>1, <1>2, <1>3, <1>4, ExceptSeq DEF Inv, Lists
  <1>6. \A k \in DOMAIN job : job'[k].tool = job[k].tool
    BY <1>5
  <1>7. Lists'
    BY <1>1, <1>5 DEF Inv, Lists
  <1>8. Bounds'
    BY <1>1, <1>5, <1>6 DEF Inv, Bounds
  <1>9. Named' /\ Waiting'
    BY <1>1, <1>2, <1>5, <1>6 DEF Inv, Named, Waiting
  <1>10. ReportsAreTrue'
    <2> SUFFICES ASSUME NEW k \in DOMAIN results, results[k].answer \in Reported
                 PROVE  job'[results[k].job] = job[results[k].job]
      BY <1>1 DEF Inv, ReportsAreTrue, Reported
    <2>1. results[k].job \in 1 .. Len(job)
      BY <1>2 DEF Inv, Named, Result
    <2>2. job[results[k].job].state = results[k].answer
      <3>1. job[results[k].job] = [tool |-> results[k].tool, state |-> results[k].answer]
        BY DEF Inv, ReportsAreTrue, Reported
      <3> QED
        BY <3>1
    <2>3. results[k].job # i
      BY <1>1, <2>2 DEF Reported
    <2> QED
      BY <1>2, <1>5, <2>1, <2>3
  <1>11. Rounds' /\ AsAsked' /\ RefusedInTurn' /\ PostedInTurn'
    BY <1>1, <1>5 DEF Inv, Rounds, AsAsked, Answered, RefusedInTurn, PostedInTurn
  <1> QED
    BY <1>7, <1>8, <1>9, <1>10, <1>11 DEF Inv

LEMMA NextKeepsInv == Inv /\ [Next]_vars => Inv'
  <1> SUFFICES ASSUME Inv, [Next]_vars PROVE Inv'
    OBVIOUS
  <1>1. CASE UNCHANGED vars
    BY <1>1 DEF vars, turn, Inv, Lists, Bounds, Named, Waiting, Rounds, ReportsAreTrue,
                AsAsked, Answered, RefusedInTurn, PostedInTurn
  <1>2. CASE Turn
    BY <1>2, ThinkingKeepsInv, ClientKeepsInv, PostKeepsInv, GarbledKeepsInv DEF Turn
  <1>3. CASE Server
    BY <1>3, ServerKeepsInv
  <1> QED
    BY <1>1, <1>2, <1>3 DEF Next, Finished

LEMMA Invariance == Spec => []Inv
  BY InitInv, NextKeepsInv, PTL DEF Spec

\* The budget is kept, and every request that is posted is for a tool that the
\* manifest grants to the intent, whatever the model proposes.
THEOREM BudgetAndManifest ==
  Spec => [](/\ Len(job) <= MaxInvocations
             /\ \A i \in DOMAIN job : job[i].tool \in Manifest[intent])
  <1>1. Inv => /\ Len(job) <= MaxInvocations
               /\ \A i \in DOMAIN job : job[i].tool \in Manifest[intent]
    BY DEF Inv, Bounds
  <1> QED
    BY <1>1, Invariance, PTL

\* What is reported to the model was done, once, and stays so, whatever the
\* calls that were given up on do later.
THEOREM WhatIsReportedWasDone == Spec => []ReportsAreTrue
  <1>1. Inv => ReportsAreTrue
    BY DEF Inv
  <1> QED
    BY <1>1, Invariance, PTL

\* No call is dropped: what the model has asked for is what has a result, in
\* this order, and what is left of the round (loop.py:84-103); a call is refused
\* for the manifest or after the last request of the budget, and no request but
\* the one on its way, or the one whose response has ended the turn, is
\* without a result.
THEOREM NoCallIsDropped == Spec => []EveryCallHasAResult
  <1>1. Inv => EveryCallHasAResult
    BY DEF Inv, AsAsked, Answered, RefusedInTurn, PostedInTurn, EveryCallHasAResult
  <1> QED
    BY <1>1, Invariance, PTL

-----------------------------------------------------------------------------
(* What the page says of a turn.  The script's answer is true because the    *)
(* script makes one call in all (SearchesOnce), so that the result it looks  *)
(* at is of the search, and because nothing follows the reply.  What is left *)
(* to be called is a rest of what the provider has proposed (LeftOver).      *)

LeftOver ==
  \E p \in Proposals \cup {<<>>, Search} :
    \E n \in 0 .. Len(p) : calls = SubSeq(p, n + 1, Len(p))

SearchesOnce ==
  provider = "script" =>
    /\ Len(job) <= 1
    /\ results = <<>> => /\ calls \in {<<>>, Search}
                         /\ job # <<>> => pc \in {"wait", "failed"}
    /\ results # <<>> => /\ calls = <<>> /\ Len(results) = 1
                         /\ results[1].tool = "search_knowledge_base"

RepliesLast ==
  reply = "verified" => /\ provider = "script" /\ pc = "replied" /\ results # <<>>
                        /\ results[Len(results)].answer = "success"

Script == LeftOver /\ SearchesOnce /\ RepliesLast

LEMMA InitScript == Init => Script
  <1> SUFFICES ASSUME Init PROVE Script
    OBVIOUS
  <1>1. calls = <<>> /\ results = <<>> /\ job = <<>> /\ reply = "none"
    BY DEF Init
  <1>2. SubSeq(<<>>, 1, 0) = <<>> /\ Len(<<>>) = 0
    OBVIOUS
  <1>3. LeftOver
    BY <1>1, <1>2 DEF LeftOver
  <1> QED
    BY <1>1, <1>3 DEF Script, SearchesOnce, RepliesLast

\* One call of a rest is made: what is left is a rest.
LEMMA TailIsLeft ==
  ASSUME LeftOver, calls # <<>>, calls' = Tail(calls) PROVE LeftOver'
  <1>1. PICK p \in Proposals \cup {<<>>, Search} :
          \E n \in 0 .. Len(p) : calls = SubSeq(p, n + 1, Len(p))
    BY DEF LeftOver
  <1>2. p \in Seq(STRING)
    BY ProposalsAreLists, EmptySeq
  <1>3. PICK n \in 0 .. Len(p) : calls = SubSeq(p, n + 1, Len(p))
    BY <1>1
  <1>4. /\ Tail(calls) = SubSeq(p, n + 2, Len(p)) /\ n + 1 \in 0 .. Len(p)
        /\ n + 2 = (n + 1) + 1
    BY <1>2, <1>3
  <1> QED
    BY <1>4 DEF LeftOver

LEMMA ThinkingKeepsScript ==
  ASSUME Inv, Script, Propose \/ Reply \/ ModelFails \/ NextRound
  PROVE  Script'
  <1>1. /\ UNCHANGED <<results, job, provider>> /\ pc' # "wait"
        /\ pc \in {"complete", "call"}
    BY DEF Propose, Reply, ModelFails, NextRound, turn
  <1>2. LeftOver'
    <2>1. CASE Propose
      <3>1. PICK p \in Proposals \cup {Search} : calls' = p
        BY <2>1 DEF Propose
      <3>2. p \in Seq(STRING)
        BY ProposalsAreLists
      <3>3. 0 \in 0 .. Len(p) /\ p = SubSeq(p, 0 + 1, Len(p))
        BY <3>2
      <3> QED
        BY <3>1, <3>3 DEF LeftOver
    <2>2. CASE calls' = calls
      BY <2>2 DEF Script, LeftOver
    <2> QED
      BY <2>1, <2>2 DEF Reply, ModelFails, NextRound
  <1>3. SearchesOnce'
    <2>1. calls' = calls \/ (provider = "script" => results = <<>> /\ calls' = Search)
      BY DEF Propose, Reply, ModelFails, NextRound
    <2> QED
      BY <1>1, <2>1 DEF Script, SearchesOnce
  <1>4. RepliesLast'
    <2>1. CASE reply' = reply
      BY <1>1, <2>1 DEF Script, RepliesLast
    <2>2. CASE Reply /\ provider = "script" /\ results # <<>>
      <3>1. reply' = "verified" => results[Len(results)].answer = "success"
        BY <2>2 DEF Reply
      <3> QED
        BY <1>1, <2>2, <3>1 DEF Reply, RepliesLast
    <2> QED
      BY <1>1, <2>1, <2>2 DEF Propose, Reply, ModelFails, NextRound, RepliesLast
  <1> QED
    BY <1>2, <1>3, <1>4 DEF Script

LEMMA AnswerKeepsScript ==
  ASSUME Inv, Script, NotInManifest \/ LimitExceeded \/ Receive \/ TimeOut
  PROVE  Script'
  <1>1. /\ UNCHANGED <<provider, job, reply>> /\ calls # <<>>
        /\ pc \in {"call", "wait"} /\ pc' = "call" /\ calls' = Tail(calls)
    BY DEF NotInManifest, LimitExceeded, Deny, Receive, TimeOut, Answer, turn,
           Inv, Waiting
  <1>2. PICK n, a : results' = Append(results, [tool |-> Head(calls), job |-> n,
                                                answer |-> a])
    BY DEF NotInManifest, LimitExceeded, Deny, Receive, TimeOut, Answer
  <1>3. LeftOver'
    BY <1>1, TailIsLeft DEF Script
  <1>4. RepliesLast'
    BY <1>1 DEF Script, RepliesLast
  <1>5. SearchesOnce'
    <2> SUFFICES ASSUME provider = "script"
                 PROVE  /\ Len(job) <= 1 /\ calls' = <<>> /\ Len(results') = 1
                        /\ results'[1].tool = "search_knowledge_base"
                        /\ results' # <<>>
      BY <1>1 DEF SearchesOnce
    <2>1. results = <<>> /\ calls = Search /\ Len(job) <= 1
      BY <1>1 DEF Script, SearchesOnce
    <2>2. Head(calls) = "search_knowledge_base" /\ Tail(calls) = <<>>
      BY <2>1 DEF Search
    <2> DEFINE new == [tool |-> Head(calls), job |-> n, answer |-> a]
    <2>3. new.tool = Head(calls)
      OBVIOUS
    <2> HIDE DEF new
    <2>4. results' = <<new>>
      BY <1>2, <2>1 DEF new
    <2> QED
      BY <1>1, <2>1, <2>2, <2>3, <2>4
  <1> QED
    BY <1>3, <1>4, <1>5 DEF Script

LEMMA PostKeepsScript ==
  ASSUME Inv, Script, Post PROVE Script'
  <1>1. /\ UNCHANGED <<provider, calls, results, reply>>
        /\ pc = "call" /\ pc' = "wait" /\ calls # <<>>
        /\ job' = Append(job, [tool |-> Head(calls), state |-> "posted"])
    BY DEF Post, turn
  <1>2. LeftOver' /\ RepliesLast'
    BY <1>1 DEF Script, LeftOver, RepliesLast
  <1>3. SearchesOnce'
    <2> SUFFICES ASSUME provider = "script" PROVE results = <<>> /\ Len(job') <= 1
      BY <1>1 DEF Script, SearchesOnce
    <2>1. results = <<>> /\ job = <<>>
      BY <1>1 DEF Script, SearchesOnce
    <2> QED
      BY <1>1, <2>1
  <1> QED
    BY <1>2, <1>3 DEF Script

LEMMA NextKeepsScript == Inv /\ Script /\ [Next]_vars => Script'
  <1> SUFFICES ASSUME Inv, Script, [Next]_vars PROVE Script'
    OBVIOUS
  <1>1. CASE UNCHANGED vars
    BY <1>1 DEF vars, turn, Script, LeftOver, SearchesOnce, RepliesLast
  <1>2. CASE Garbled
    BY <1>2 DEF Garbled, turn, Script, LeftOver, SearchesOnce, RepliesLast
  <1>3. CASE Server
    <2>1. PICK i \in DOMAIN job, state \in JobStates :
            job' = [job EXCEPT ![i].state = state]
      BY <1>3 DEF Server, RunTool, LoseJob, SetJob, JobStates
    <2>2. UNCHANGED <<provider, pc, calls, results, reply>>
      BY <1>3 DEF Server, RunTool, LoseJob, turn
    <2>3. Len(job') = Len(job) /\ job # <<>>
      <3>1. job' \in Seq(Job) /\ job \in Seq(Job) /\ DOMAIN job' = DOMAIN job
        BY <1>3, <2>1, ServerKeepsInv DEF Inv, Lists
      <3> QED
        BY <2>1, <3>1, LenProperties
    <2> QED
      BY <2>2, <2>3 DEF Script, LeftOver, SearchesOnce, RepliesLast
  <1>4. CASE Turn
    BY <1>2, <1>4, ThinkingKeepsScript, AnswerKeepsScript, PostKeepsScript DEF Turn
  <1> QED
    BY <1>1, <1>3, <1>4 DEF Next, Finished

\* Every variable of a turn stays in its type; above all, what is left to be
\* called is always a rest of one proposal of the provider: calls of two
\* rounds never mix.
THEOREM TypeCorrect == Spec => []TypeOK
  <1>1. Inv /\ Script => TypeOK
    <2> SUFFICES ASSUME Inv, Script PROVE TypeOK
      OBVIOUS
    <2>1. /\ \A i \in DOMAIN results : results[i] \in Result
          /\ \A i \in DOMAIN job : job[i].state \in JobStates
      BY Indices DEF Inv, Job
    <2> QED
      BY <2>1 DEF Inv, Bounds, Script, LeftOver, TypeOK
  <1> QED
    BY <1>1, Invariance, InitScript, NextKeepsScript, PTL DEF Spec

\* A result that is a success is of a request that has succeeded.
LEMMA SuccessWasDone ==
  ASSUME Inv, NEW k \in DOMAIN results, results[k].answer = "success"
  PROVE  /\ results[k].job \in DOMAIN job
         /\ job[results[k].job] = [tool |-> results[k].tool, state |-> "success"]
  <1>1. job[results[k].job] = [tool |-> results[k].tool, state |-> results[k].answer]
    BY DEF Inv, ReportsAreTrue
  <1>2. results[k].job > 0 /\ results[k].job <= Len(job) /\ results[k].job \in Nat
    BY Indices DEF Inv, Named, Reported, Result
  <1>3. DOMAIN job = 1 .. Len(job) /\ Len(job) \in Nat
    BY Indices DEF Inv
  <1> QED
    BY <1>1, <1>2, <1>3

LEMMA WhatThePageSays == Inv /\ Script => VerifiedMeansVerified
  <1> DEFINE Done(tool) ==
        \E i \in DOMAIN job : job[i] = [tool |-> tool, state |-> "success"]
  <1> SUFFICES ASSUME Inv, Script, pc \in {"replied", "gave_up"}
               PROVE  /\ StatusLine = "verified" =>
                           /\ \A i \in DOMAIN job : job[i].state = "success"
                           /\ \A i \in DOMAIN results : Done(results[i].tool)
                      /\ \A tool \in Vias : Done(tool)
                      /\ reply = "verified" =>
                           Done("search_knowledge_base") /\ Len(job) = 1
    BY DEF VerifiedMeansVerified
  <1>1. \A k \in DOMAIN results : results[k].answer = "success" => Done(results[k].tool)
    BY SuccessWasDone
  <1>2. ASSUME StatusLine = "verified"
        PROVE  /\ \A i \in DOMAIN job : job[i].state = "success"
               /\ \A i \in DOMAIN results : Done(results[i].tool)
    <2>1. \A k \in DOMAIN results : results[k].answer = "success"
      BY <1>2 DEF StatusLine, Succeeded
    <2>2. ASSUME NEW i \in DOMAIN job PROVE job[i].state = "success"
      <3>1. PICK k \in DOMAIN results : results[k].job = i
        BY DEF Inv, PostedInTurn
      <3>2. job[i] = [tool |-> results[k].tool, state |-> "success"]
        BY <2>1, <3>1, SuccessWasDone
      <3> QED
        BY <3>2
    <2> QED
      BY <1>1, <2>1, <2>2
  <1>3. \A tool \in Vias : Done(tool)
    BY <1>1 DEF Vias, Succeeded
  <1>4. ASSUME reply = "verified"
        PROVE  Done("search_knowledge_base") /\ Len(job) = 1
    <2>1. /\ provider = "script" /\ results # <<>>
          /\ results[Len(results)].answer = "success"
      BY <1>4 DEF Script, RepliesLast
    <2>2. /\ Len(job) <= 1 /\ Len(results) = 1
          /\ results[1].tool = "search_knowledge_base"
      BY <2>1 DEF Script, SearchesOnce
    <2>3. 1 \in DOMAIN results
      BY <2>2, Indices DEF Inv
    <2>4. Done("search_knowledge_base")
      BY <1>1, <2>1, <2>2, <2>3
    <2>5. Len(job) \in Nat /\ DOMAIN job = 1 .. Len(job) /\ DOMAIN job # {}
      BY <2>4, Indices DEF Inv
    <2> QED
      BY <2>2, <2>4, <2>5
  <1> QED
    BY <1>2, <1>3, <1>4

\* "Verified via enterprise tools" (frontend/service.py:99) is never said of a
\* turn of which a request was refused, lost or given up on; the tool a reply
\* is said to come via has run; and the demo's answer comes from its search,
\* the only request of the turn.
THEOREM VerifiedIsVerified == Spec => []VerifiedMeansVerified
  BY WhatThePageSays, Invariance, InitScript, NextKeepsScript, PTL DEF Spec
=============================================================================
