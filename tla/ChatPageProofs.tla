--------------------------- MODULE ChatPageProofs ---------------------------
(***************************************************************************)
(* Proofs of ChatPage, for any number of messages and of clicks on New.    *)
(*                                                                         *)
(* Inv adds to the properties what they rest on: nothing has been said in  *)
(* a turn that has not begun, and a turn that waits has its question on    *)
(* the page, or a new session has overtaken it (Begun); a turn that waits  *)
(* and has not been overtaken was sent in the current session, or in one   *)
(* that an overtaken turn has brought back (SentHere).                     *)
(***************************************************************************)
EXTENDS ChatPage, FiniteSetTheorems, TLAPS

Begun ==
  /\ \A t \in Nat \ Turns : Answer(t) \in thread => Answer(t) = Welcome
  /\ \A t \in waiting : Question(t) \in thread \/ t \in overtaken

Late == overtaken \ waiting
SentHere ==
  \A t \in waiting \ overtaken :
    sent[t] = current \/ \E u \in Late : sent[u] = sent[t]

Inv == /\ TypeOK /\ IsFiniteSet(waiting)
       /\ Begun /\ SentHere
       /\ QuestionsAreAnswered /\ OldSessionsComeBackLate /\ OverlapsNeedNew

-----------------------------------------------------------------------------
(* Counting the turns that wait *)

\* One turn more waits, and it is not counted twice (app.js:188).
LEMMA OneMore ==
  ASSUME NEW S, IsFiniteSet(S), NEW t, t \notin S
  PROVE  /\ IsFiniteSet(S \cup {t})
         /\ Cardinality(S) \in Nat
         /\ Cardinality(S \cup {t}) = Cardinality(S) + 1
  BY FS_AddElement, FS_CardinalityType

\* One turn less waits (app.js:205).
LEMMA OneLess ==
  ASSUME NEW S, IsFiniteSet(S), NEW t \in S
  PROVE  /\ IsFiniteSet(S \ {t})
         /\ Cardinality(S) \in Nat /\ Cardinality(S \ {t}) \in Nat
         /\ Cardinality(S \ {t}) = Cardinality(S) - 1
  BY FS_RemoveElement, FS_CardinalityType

\* The overtaken turns that have been answered (app.js:213).
LEMMA LateIsFinite ==
  TypeOK => IsFiniteSet(Late) /\ Cardinality(Late) \in Nat
  <1> SUFFICES ASSUME TypeOK PROVE IsFiniteSet(Late) /\ Cardinality(Late) \in Nat
    OBVIOUS
  <1>1. IsFiniteSet(Turns) /\ Late \subseteq Turns
    BY FS_Interval DEF TypeOK, Turns, Late
  <1> QED
    BY <1>1, FS_Subset, FS_CardinalityType

LEMMA InitInv == Init => Inv
  <1> SUFFICES ASSUME Init PROVE Inv
    OBVIOUS
  <1>1. Turns = {} /\ waiting = {} /\ Len(sent) = 0
    BY DEF Init, Turns
  <1>2. IsFiniteSet({}) /\ Cardinality({}) = 0
    BY FS_EmptySet
  <1>3. TypeOK
    BY <1>1 DEF Init, TypeOK
  <1>4. Begun /\ SentHere
    BY <1>1 DEF Init, Begun, SentHere
  <1>5. waiting \ overtaken = {} /\ overtaken \ waiting = {}
    BY <1>1 DEF Init
  <1>6. QuestionsAreAnswered
    BY <1>1, <1>2, <1>5 DEF Init, QuestionsAreAnswered
  <1>7. OldSessionsComeBackLate /\ OverlapsNeedNew
    BY <1>1, <1>2 DEF Init, OldSessionsComeBackLate, OverlapsNeedNew
  <1> QED
    BY <1>1, <1>2, <1>3, <1>4, <1>6, <1>7 DEF Inv

-----------------------------------------------------------------------------
(* New, Started, NotStarted *)

LEMMA StartedKeepsTypes == TypeOK /\ Started => TypeOK'
  <1> SUFFICES ASSUME TypeOK, Started PROVE TypeOK'
    OBVIOUS
  <1>1. created' = created + 1 /\ 0 .. created \subseteq 0 .. created'
    BY DEF TypeOK, Started
  <1>2. sent' \in Seq(0 .. created')
    <2>1. \A S, T : S \subseteq T => \A s \in Seq(S) : s \in Seq(T)
      OBVIOUS
    <2> QED
      BY <1>1, <2>1 DEF TypeOK, Started
  <1>3. thread' \subseteq Row
    BY DEF Started, Row, Welcome
  <1>4. sessionId' \in 0 .. created' /\ current' \in 0 .. created' /\ created' \in Nat
    BY <1>1 DEF TypeOK, Started
  <1>5. waiting' \subseteq Turns' /\ overtaken' \subseteq Turns'
    BY DEF TypeOK, Started, Turns
  <1>6. starts' \in Nat /\ typing' \in Nat
    BY DEF TypeOK, Started
  <1>7. busy' \in BOOLEAN
    BY DEF Started
  <1>8. clicks' \in Nat /\ pressed' \in 0 .. clicks'
    BY DEF TypeOK, Started
  <1> QED
    BY <1>2, <1>3, <1>4, <1>5, <1>6, <1>7, <1>8 DEF TypeOK

LEMMA NotStartedKeepsTypes == TypeOK /\ NotStarted => TypeOK'
  <1> SUFFICES ASSUME TypeOK, NotStarted PROVE TypeOK'
    OBVIOUS
  <1>1. starts' \in Nat
    BY DEF TypeOK, NotStarted
  <1>2. busy' \in BOOLEAN
    BY DEF NotStarted
  <1>3. Turns' = Turns
    BY DEF NotStarted, Turns
  <1> QED
    BY <1>1, <1>2, <1>3 DEF TypeOK, NotStarted

\* A click changes nothing of the conversation (app.js:159).
LEMMA NewKeepsInv == Inv /\ New => Inv'
  <1> SUFFICES ASSUME Inv, New PROVE Inv'
    OBVIOUS
  <1> USE DEF Inv, New
  <1>1. Cardinality(waiting) \in Nat
    BY FS_CardinalityType
  <1>2. TypeOK'
    BY DEF TypeOK, Turns
  <1>3. IsFiniteSet(waiting)' /\ Begun' /\ SentHere'
    BY DEF Begun, SentHere, Late, Turns
  <1>4. QuestionsAreAnswered' /\ OldSessionsComeBackLate'
    BY DEF QuestionsAreAnswered, OldSessionsComeBackLate, Turns
  <1>5. OverlapsNeedNew'
    BY <1>1 DEF OverlapsNeedNew, TypeOK
  <1> QED
    BY <1>2, <1>3, <1>4, <1>5

\* The new session overtakes every turn that waits, and the rows of all of
\* them go (app.js:163-165).
LEMMA StartedKeepsInv == Inv /\ Started => Inv'
  <1> SUFFICES ASSUME Inv, Started PROVE Inv'
    OBVIOUS
  <1> USE DEF Inv, Started
  <1>1. Cardinality(waiting) \in Nat
    BY FS_CardinalityType
  <1>2. (waiting \ overtaken)' = {} /\ Cardinality({}) = 0 /\ Turns' = Turns
    BY FS_EmptySet DEF Turns
  <1>3. TypeOK'
    BY StartedKeepsTypes
  <1>4. Begun'
    BY <1>2 DEF Begun, Answer, Welcome
  <1>5. SentHere'
    BY <1>2 DEF SentHere
  <1>6. QuestionsAreAnswered'
    <2>1. /\ typing' = 0 /\ Cardinality((waiting \ overtaken)') = 0
          /\ Cardinality((overtaken \ waiting)') \in Nat
      BY <1>2, <1>3, LateIsFinite DEF Late
    <2>2. \A t \in Turns' : Question(t) \notin thread' /\ Answer(t) \notin thread'
      BY DEF Question, Answer, Welcome, Turns
    <2> QED
      BY <2>1, <2>2 DEF QuestionsAreAnswered
  <1>7. OldSessionsComeBackLate'
    BY DEF OldSessionsComeBackLate
  <1>8. OverlapsNeedNew'
    BY <1>1 DEF OverlapsNeedNew, TypeOK
  <1> QED
    BY <1>3, <1>4, <1>5, <1>6, <1>7, <1>8

LEMMA NotStartedKeepsInv == Inv /\ NotStarted => Inv'
  <1> SUFFICES ASSUME Inv, NotStarted PROVE Inv'
    OBVIOUS
  <1> USE DEF Inv, NotStarted
  <1>1. Cardinality(waiting) \in Nat
    BY FS_CardinalityType
  <1>2. TypeOK'
    BY NotStartedKeepsTypes
  <1>3. IsFiniteSet(waiting)' /\ Begun' /\ SentHere'
    BY DEF Begun, SentHere, Late, Turns
  <1>4. QuestionsAreAnswered' /\ OldSessionsComeBackLate'
    BY DEF QuestionsAreAnswered, OldSessionsComeBackLate, Turns
  <1>5. OverlapsNeedNew'
    BY <1>1 DEF OverlapsNeedNew, TypeOK
  <1> QED
    BY <1>2, <1>3, <1>4, <1>5

-----------------------------------------------------------------------------
(* Send, Replied, Refused *)

LEMMA SendKeepsInv == Inv /\ Send => Inv'
  <1> SUFFICES ASSUME Inv, Send PROVE Inv'
    OBVIOUS
  <1> DEFINE n == Len(sent) + 1
  <1>0. /\ Len(sent) \in Nat /\ n \in Nat \ {0} /\ n \notin Turns /\ n \in Turns'
        /\ Turns' = Turns \cup {n} /\ Turns \subseteq Nat \ {0}
        /\ sent'[n] = sessionId /\ \A t \in Turns : sent'[t] = sent[t]
    BY DEF Inv, Send, TypeOK, Turns
  <1>1. n \notin waiting /\ n \notin overtaken
    BY <1>0 DEF Inv, TypeOK
  <1> HIDE DEF n
  <1>2. /\ waiting' = waiting \cup {n} /\ thread' = thread \cup {Question(n)}
        /\ overtaken' = overtaken
        /\ (waiting \ overtaken)' = (waiting \ overtaken) \cup {n}
        /\ Late' = Late /\ Late \subseteq Turns
    BY <1>0, <1>1 DEF Inv, Send, TypeOK, Late, n
  <1>3. /\ IsFiniteSet(waiting)' /\ Cardinality(waiting) \in Nat
        /\ Cardinality(waiting)' = Cardinality(waiting) + 1
    BY <1>1, <1>2, OneMore DEF Inv
  <1>4. /\ Cardinality(waiting \ overtaken) \in Nat
        /\ Cardinality(waiting \ overtaken)' = Cardinality(waiting \ overtaken) + 1
    <2>1. IsFiniteSet(waiting \ overtaken)
      BY FS_Difference DEF Inv
    <2> QED
      BY <1>1, <1>2, <2>1, OneMore
  <1>5. TypeOK'
    <2>1. /\ waiting' \subseteq Turns' /\ overtaken' \subseteq Turns'
      BY <1>0, <1>2 DEF Inv, TypeOK
    <2>2. Question(n) \in Row
      BY <1>0 DEF Row, Question
    <2>3. thread' \subseteq Row /\ typing' \in Nat
      BY <1>2, <2>2 DEF Inv, Send, TypeOK
    <2>4. sent' \in Seq(0 .. created)
      BY DEF Inv, Send, TypeOK
    <2> QED
      BY <2>1, <2>3, <2>4 DEF Inv, Send, TypeOK
  <1>6. Begun'
    BY <1>0, <1>2 DEF Inv, Begun, Question, Answer
  <1>7. SentHere'
    <2> SUFFICES ASSUME NEW t \in waiting' \ overtaken'
                 PROVE  sent'[t] = current \/ \E u \in Late : sent'[u] = sent'[t]
      BY <1>2 DEF SentHere, Send
    <2>1. CASE t = n
      BY <1>0, <1>2, <2>1 DEF Inv, OldSessionsComeBackLate, Late
    <2>2. CASE t \in waiting \ overtaken
      BY <1>0, <1>2, <2>2 DEF Inv, SentHere, TypeOK
    <2> QED
      BY <1>2, <2>1, <2>2
  <1>8. QuestionsAreAnswered'
    <2>1. /\ typing' <= Cardinality(waiting \ overtaken)'
          /\ Cardinality(waiting \ overtaken)' <= typing' + Cardinality(overtaken \ waiting)'
      <3>1. Cardinality(Late) \in Nat /\ Cardinality(Late)' = Cardinality(Late)
        BY <1>2, LateIsFinite DEF Inv
      <3> QED
        BY <1>4, <3>1 DEF Inv, Send, TypeOK, QuestionsAreAnswered, Late
    <2>2. ASSUME NEW t \in Turns'
          PROVE  /\ Question(t) \in thread' /\ t \notin waiting' => Answer(t) \in thread'
                 /\ Answer(t) \in thread' =>
                      t \notin waiting' /\ (Question(t) \in thread' \/ t \in overtaken')
      <3>1. CASE t = n
        <4>1. Answer(n) \notin thread
          <5>1. Answer(n) # Welcome
            BY <1>0 DEF Answer, Welcome
          <5>2. n \in Nat \ Turns
            BY <1>0
          <5> QED
            BY <5>1, <5>2 DEF Inv, Begun
        <4>2. Answer(n) # Question(n)
          BY DEF Answer, Question
        <4> QED
          BY <1>2, <3>1, <4>1, <4>2
      <3>2. CASE t \in Turns
        BY <1>0, <1>1, <1>2, <3>2 DEF Inv, QuestionsAreAnswered, Question, Answer
      <3> QED
        BY <1>0, <3>1, <3>2
    <2> QED
      BY <2>1, <2>2 DEF QuestionsAreAnswered
  <1>9. OldSessionsComeBackLate'
    BY <1>0, <1>2 DEF Inv, Send, OldSessionsComeBackLate, Late
  <1>10. OverlapsNeedNew'
    BY <1>2, <1>3 DEF Inv, Send, TypeOK, OverlapsNeedNew
  <1> QED
    BY <1>3, <1>5, <1>6, <1>7, <1>8, <1>9, <1>10 DEF Inv

\* What the two ends of a turn have in common, whether or not the session of
\* the page changes (app.js:203-208, :217-222).
LEMMA Settled ==
  ASSUME Inv, NEW t \in waiting,
         waiting' = waiting \ {t}, HideTyping,
         thread' = thread \cup {Answer(t)}, busy' = FALSE,
         UNCHANGED <<starts, sent, created, clicks, pressed, current, overtaken>>
  PROVE  /\ IsFiniteSet(waiting)' /\ Begun' /\ SentHere' /\ Late \subseteq Late'
         /\ QuestionsAreAnswered' /\ OverlapsNeedNew'
         /\ t \in overtaken => t \in Late'
  <1>0. Turns' = Turns /\ t \in Turns /\ Turns \subseteq Nat \ {0}
    BY DEF Inv, TypeOK, Turns
  <1>1. /\ IsFiniteSet(waiting)' /\ Cardinality(waiting) \in Nat
        /\ Cardinality(waiting)' = Cardinality(waiting) - 1
    BY OneLess DEF Inv
  <1>2. Begun'
    BY <1>0 DEF Inv, Begun, Question, Answer
  <1>3. Late \subseteq Late' /\ (t \in overtaken => t \in Late')
    BY DEF Late
  <1>4. SentHere'
    BY <1>3 DEF Inv, SentHere
  <1>5. QuestionsAreAnswered'
    <2>1. /\ typing' <= Cardinality(waiting \ overtaken)'
          /\ Cardinality(waiting \ overtaken)' <= typing' + Cardinality(Late)'
      <3>0. IsFiniteSet(Late) /\ Cardinality(Late) \in Nat
        BY LateIsFinite DEF Inv
      <3>1. IsFiniteSet(waiting \ overtaken)
        BY FS_Difference DEF Inv
      <3>2. Cardinality(waiting \ overtaken) \in Nat
        BY <3>1, FS_CardinalityType
      <3>3. /\ typing \in Nat /\ typing <= Cardinality(waiting \ overtaken)
            /\ Cardinality(waiting \ overtaken) <= typing + Cardinality(Late)
        BY DEF Inv, TypeOK, QuestionsAreAnswered, Late
      <3>4. CASE t \in overtaken
        <4>1. (waiting \ overtaken)' = waiting \ overtaken
          BY <3>4
        <4>2. Cardinality(waiting \ overtaken)' = Cardinality(waiting \ overtaken)
          BY <4>1
        <4>3. Cardinality(Late)' = Cardinality(Late) + 1
          <5>1. Late' = Late \cup {t} /\ t \notin Late
            BY <3>4 DEF Late
          <5> QED
            BY <3>0, <5>1, OneMore
        <4> QED
          BY <3>0, <3>2, <3>3, <4>2, <4>3 DEF HideTyping
      <3>5. CASE t \notin overtaken
        <4>1. (waiting \ overtaken)' = (waiting \ overtaken) \ {t}
          OBVIOUS
        <4>2. /\ Cardinality(waiting \ overtaken)' \in Nat
              /\ Cardinality(waiting \ overtaken)' = Cardinality(waiting \ overtaken) - 1
          BY <3>1, <3>5, <4>1, OneLess
        <4>3. Cardinality(Late)' = Cardinality(Late)
          <5>1. Late' = Late
            BY <3>5 DEF Late
          <5> QED
            BY <5>1
        <4> QED
          BY <3>0, <3>2, <3>3, <4>2, <4>3 DEF HideTyping
      <3> QED
        BY <3>4, <3>5
    <2>2. ASSUME NEW u \in Turns
          PROVE  /\ Question(u) \in thread' /\ u \notin waiting' => Answer(u) \in thread'
                 /\ Answer(u) \in thread' =>
                      u \notin waiting' /\ (Question(u) \in thread' \/ u \in overtaken')
      <3>1. CASE u = t
        BY <3>1 DEF Inv, Begun
      <3>2. CASE u # t
        BY <3>2 DEF Inv, QuestionsAreAnswered, Question, Answer
      <3> QED
        BY <3>1, <3>2
    <2> QED
      BY <1>0, <2>1, <2>2 DEF QuestionsAreAnswered, Late
  <1>6. OverlapsNeedNew'
    BY <1>1 DEF Inv, TypeOK, OverlapsNeedNew
  <1> QED
    BY <1>1, <1>2, <1>3, <1>4, <1>5, <1>6

\* Types, in both cases.
LEMMA SettledTypes ==
  ASSUME TypeOK, NEW t \in waiting,
         waiting' = waiting \ {t}, HideTyping,
         thread' = thread \cup {Answer(t)}, busy' = FALSE,
         sessionId' \in 0 .. created,
         UNCHANGED <<starts, sent, created, clicks, pressed, current, overtaken>>
  PROVE  TypeOK'
  <1>1. Turns' = Turns /\ t \in Nat
    BY DEF TypeOK, Turns
  <1>2. typing' \in Nat
    BY DEF TypeOK, HideTyping
  <1>3. thread' \subseteq Row
    BY <1>1 DEF TypeOK, Row, Answer
  <1> QED
    BY <1>1, <1>2, <1>3 DEF TypeOK

\* The page takes the session of the turn over (app.js:213).
LEMMA RepliedKeepsInv ==
  ASSUME Inv, NEW t \in Turns, Replied(t)
  PROVE  Inv'
  <1> DEFINE S == sent[t]
  <1>1. t \in waiting /\ sessionId' = S /\ S \in 0 .. created
    BY DEF Inv, TypeOK, Replied, Context, Turns
  <1>2. TypeOK'
    BY <1>1, SettledTypes DEF Inv, Replied
  <1>3. /\ IsFiniteSet(waiting)' /\ Begun' /\ SentHere' /\ Late \subseteq Late'
        /\ QuestionsAreAnswered' /\ OverlapsNeedNew'
        /\ t \in overtaken => t \in Late'
    BY <1>1, Settled DEF Replied
  <1>4. OldSessionsComeBackLate'
    <2>1. CASE t \in overtaken
      BY <1>1, <1>3, <2>1 DEF OldSessionsComeBackLate, Late, Replied
    <2>2. CASE t \notin overtaken
      <3>1. S = current \/ \E u \in Late : sent[u] = S
        BY <1>1, <2>2 DEF Inv, SentHere
      <3> QED
        BY <1>1, <1>3, <3>1 DEF OldSessionsComeBackLate, Late, Replied
    <2> QED
      BY <2>1, <2>2
  <1> QED
    BY <1>2, <1>3, <1>4 DEF Inv

\* An apology leaves the session alone (app.js:217).
LEMMA RefusedKeepsInv ==
  ASSUME Inv, NEW t \in Turns, Refused(t)
  PROVE  Inv'
  <1>1. TypeOK'
    BY SettledTypes DEF Inv, TypeOK, Refused
  <1>2. /\ IsFiniteSet(waiting)' /\ Begun' /\ SentHere' /\ Late \subseteq Late'
        /\ QuestionsAreAnswered' /\ OverlapsNeedNew'
    BY Settled DEF Refused
  <1>3. OldSessionsComeBackLate'
    BY <1>2 DEF Inv, OldSessionsComeBackLate, Late, Refused
  <1> QED
    BY <1>1, <1>2, <1>3 DEF Inv

-----------------------------------------------------------------------------
LEMMA NextKeepsInv == Inv /\ [Next]_vars => Inv'
  <1> SUFFICES ASSUME Inv, [Next]_vars PROVE Inv'
    OBVIOUS
  <1>1. CASE New
    BY <1>1, NewKeepsInv
  <1>2. CASE Send
    BY <1>2, SendKeepsInv
  <1>3. CASE Arrive
    BY <1>3, StartedKeepsInv, NotStartedKeepsInv, RepliedKeepsInv, RefusedKeepsInv
       DEF Arrive
  <1>4. CASE UNCHANGED vars
    BY <1>4 DEF vars, Inv, TypeOK, Turns, Begun, SentHere, Late,
                QuestionsAreAnswered, OldSessionsComeBackLate, OverlapsNeedNew
  <1> QED
    BY <1>1, <1>2, <1>3, <1>4 DEF Next

LEMMA AlwaysInv == Spec => []Inv
  BY InitInv, NextKeepsInv, PTL DEF Spec

\* Every variable stays in its type: the sessions a page and its turns are in
\* are sessions the server has made up.
THEOREM TypeCorrect == Spec => []TypeOK
  <1>1. Inv => TypeOK
    BY DEF Inv
  <1> QED
    BY <1>1, AlwaysInv, PTL

\* However many fetches overlap, and in whatever order they end: no question
\* on the page stays without its answer, no answer stands alone but for a turn
\* that was overtaken, no dots are left over, and none are missed but those a
\* late answer took (app.js:182-222).
THEOREM EveryQuestionIsAnswered == Spec => []QuestionsAreAnswered
  <1>1. Inv => QuestionsAreAnswered
    BY DEF Inv
  <1> QED
    BY <1>1, AlwaysInv, PTL

\* The page falls back into an old session only by the answer of a turn that
\* was sent in it and overtaken by a new one (app.js:213).
THEOREM OnlyLateAnswersBringBack == Spec => []OldSessionsComeBackLate
  <1>1. Inv => OldSessionsComeBackLate
    BY DEF Inv
  <1> QED
    BY <1>1, AlwaysInv, PTL

\* The fetches under way are no more than the clicks on New while the page was
\* busy, and one (app.js:177).
THEOREM OverlapsAreBounded == Spec => []OverlapsNeedNew
  <1>1. Inv => OverlapsNeedNew
    BY DEF Inv
  <1> QED
    BY <1>1, AlwaysInv, PTL
=============================================================================
