------------------------------ MODULE ChatPage ------------------------------
(***************************************************************************)
(* The chat page (frontend/static/app.js) in one browser tab, over the two *)
(* routes of frontend/server.py.  Its functions run one at a time and give *)
(* way at each await: startSession and sendMessage are each cut in two at  *)
(* their fetch, and any number of fetches may be under way, answered in    *)
(* any order.  The server keeps nothing of a session: the page sends the   *)
(* one it is in with every message, and takes over the one that comes      *)
(* back.                                                                   *)
(***************************************************************************)
EXTENDS Naturals, Sequences, FiniteSets

CONSTANTS MaxTurns,   \* bound: messages sent
          MaxStarts   \* bound: clicks on New, the load of the page included

ASSUME BoundsAreNat == MaxTurns \in Nat /\ MaxStarts \in Nat \ {0}

VARIABLES
  sessionId,  \* state.sessionId, a number; 0 is the empty string
  busy,       \* state.busy
  thread,     \* the rows of the conversation: who says it, in which turn
  typing,     \* how many of its rows show the three dots
  starts,     \* calls of startSession that wait for /api/session
  waiting,    \* turns whose sendMessage waits for /api/chat
  sent,       \* sent[t]: the session that turn t was sent in
  created,    \* the sessions the server has made up so far
  clicks,     \* history: clicks on New
  pressed,    \* history: those of them while the page was busy
  current,    \* history: the session of the last start that was answered
  overtaken   \* history: turns that were waiting when a start was answered

vars == <<sessionId, busy, thread, typing, starts, waiting, sent, created,
          clicks, pressed, current, overtaken>>

Turns == 1 .. Len(sent)
Row == [by : {"user", "assistant"}, turn : Nat]
Welcome == [by |-> "assistant", turn |-> 0]
Question(t) == [by |-> "user", turn |-> t]
Answer(t) == [by |-> "assistant", turn |-> t]

TypeOK ==
  /\ sessionId \in 0 .. created /\ current \in 0 .. created /\ created \in Nat
  /\ busy \in BOOLEAN
  /\ thread \subseteq Row /\ typing \in Nat
  /\ sent \in Seq(0 .. created)
  /\ waiting \subseteq Turns /\ overtaken \subseteq Turns
  /\ starts \in Nat /\ clicks \in Nat /\ pressed \in 0 .. clicks

\* The page has been loaded and calls startSession.
Init ==
  /\ sessionId = 0 /\ current = 0 /\ created = 0
  /\ busy = TRUE /\ starts = 1
  /\ thread = {} /\ typing = 0
  /\ waiting = {} /\ sent = <<>> /\ overtaken = {}
  /\ clicks = 1 /\ pressed = 0

-----------------------------------------------------------------------------
(* startSession *)

\* The button is never disabled.
New ==
  /\ clicks < MaxStarts
  /\ busy' = TRUE
  /\ starts' = starts + 1
  /\ clicks' = clicks + 1
  /\ pressed' = IF busy THEN pressed + 1 ELSE pressed
  /\ UNCHANGED <<sessionId, thread, typing, waiting, sent, created, current,
                 overtaken>>

\* The rows go, those of the turns that still wait with them.
Started ==
  /\ starts > 0
  /\ starts' = starts - 1
  /\ created' = created + 1
  /\ sessionId' = created + 1 /\ current' = created + 1
  /\ thread' = {Welcome} /\ typing' = 0
  /\ overtaken' = overtaken \cup waiting
  /\ busy' = FALSE
  /\ UNCHANGED <<waiting, sent, clicks, pressed>>

NotStarted ==
  /\ starts > 0
  /\ starts' = starts - 1
  /\ busy' = FALSE
  /\ UNCHANGED <<sessionId, thread, typing, waiting, sent, created, clicks,
                 pressed, current, overtaken>>

-----------------------------------------------------------------------------
(* sendMessage *)

\* Fault: the message is sent although the page is busy.
Send_Anytime ==
  /\ Len(sent) < MaxTurns
  /\ sent' = Append(sent, sessionId)
  /\ waiting' = waiting \cup {Len(sent) + 1}
  /\ thread' = thread \cup {Question(Len(sent) + 1)} /\ typing' = typing + 1
  /\ busy' = TRUE
  /\ UNCHANGED <<sessionId, starts, created, clicks, pressed, current, overtaken>>

Send ==
  /\ ~busy
  /\ Len(sent) < MaxTurns
  /\ sent' = Append(sent, sessionId)
  /\ waiting' = waiting \cup {Len(sent) + 1}
  /\ thread' = thread \cup {Question(Len(sent) + 1)} /\ typing' = typing + 1
  /\ busy' = TRUE
  /\ UNCHANGED <<sessionId, starts, created, clicks, pressed, current, overtaken>>

\* Fault: the session of the reply is a new one.
Context_Fresh(session) == created + 1

\* frontend/service.py, _context: the session that is asked for.
Context(session) == IF session # 0 THEN session ELSE created + 1

\* hideTyping takes one row away, whichever turn it is of, if there is one.
HideTyping == typing' = IF typing > 0 THEN typing - 1 ELSE 0

\* The turn has been run: its reply goes to the conversation that is there,
\* and its session becomes that of the page.
Replied(t) ==
  /\ t \in waiting
  /\ sent[t] # 0
  /\ waiting' = waiting \ {t}
  /\ HideTyping
  /\ thread' = thread \cup {Answer(t)}
  /\ sessionId' = Context(sent[t])
  /\ busy' = FALSE
  /\ UNCHANGED <<starts, sent, created, clicks, pressed, current, overtaken>>

\* Fault: the return of the branch skips what follows it.
Refused_StaysBusy(t) ==
  /\ t \in waiting
  /\ waiting' = waiting \ {t}
  /\ HideTyping
  /\ thread' = thread \cup {Answer(t)}
  /\ UNCHANGED <<sessionId, busy, starts, sent, created, clicks, pressed,
                 current, overtaken>>

\* Fault: the failure is only shown in the status line.
Refused_Silent(t) ==
  /\ t \in waiting
  /\ waiting' = waiting \ {t}
  /\ HideTyping
  /\ busy' = FALSE
  /\ UNCHANGED <<sessionId, thread, starts, sent, created, clicks, pressed,
                 current, overtaken>>

\* 400, 422 (always without a session), 502, or no answer at all: an apology.
Refused(t) ==
  /\ t \in waiting
  /\ waiting' = waiting \ {t}
  /\ HideTyping
  /\ thread' = thread \cup {Answer(t)}
  /\ busy' = FALSE
  /\ UNCHANGED <<sessionId, starts, sent, created, clicks, pressed, current,
                 overtaken>>

-----------------------------------------------------------------------------
Arrive == \/ Started \/ NotStarted
          \/ \E t \in Turns : Replied(t) \/ Refused(t)

Next == New \/ Send \/ Arrive

\* Every fetch is settled: the server's turns end (Agent!TurnEnds), a health
\* check takes a second and a half at most, and a lost connection rejects.
Spec == Init /\ [][Next]_vars /\ WF_vars(Arrive)

-----------------------------------------------------------------------------
(* Properties *)

\* app.js:182, :204, :211, :217: whatever fetches overlap and however they
\* end, a question on the page has its answer once its turn is over, and an
\* answer without its question belongs to a turn that a new session overtook.
\* The dots do not outlive the turns of this conversation, though an answer
\* takes away the first it finds and not its own (app.js:113), and a turn waits
\* without its dots only if a late answer of an overtaken one took them.
QuestionsAreAnswered ==
  /\ typing <= Cardinality(waiting \ overtaken)
  /\ Cardinality(waiting \ overtaken) <= typing + Cardinality(overtaken \ waiting)
  /\ \A t \in Turns :
       /\ Question(t) \in thread /\ t \notin waiting => Answer(t) \in thread
       /\ Answer(t) \in thread =>
            t \notin waiting /\ (Question(t) \in thread \/ t \in overtaken)

\* app.js:213: the page leaves the session of its last start only for that of
\* a turn which the start overtook, and the messages of the new conversation
\* then go to the old session.
OldSessionsComeBackLate ==
  sessionId # current => \E t \in overtaken \ waiting : sent[t] = sessionId

\* app.js:177: more than one fetch is under way only for clicks on New while
\* the page was busy, one for each; a page that nobody clicked so on is busy
\* exactly while it waits, and has one turn at a time.
OverlapsNeedNew ==
  /\ starts + Cardinality(waiting) <= pressed + (IF busy THEN 1 ELSE 0)
  /\ busy => starts > 0 \/ waiting # {}

\* The finally clauses, app.js:168, :222: the page can be used again.
PageIsFreed == busy ~> ~busy
=============================================================================
