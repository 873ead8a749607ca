-------------------------------- MODULE Agent --------------------------------
(***************************************************************************)
(* One agent turn, end to end: orchestrator/loop.py (run_tool_loop), the   *)
(* MCP client with its manifest and budget (worker/), and the MCP server   *)
(* with its tools (mcp/).  The client gives up on a call after ten seconds *)
(* and the server does not notice: it runs every call it has received.     *)
(* The language model may answer anything at any time; the offline script  *)
(* of the demo (orchestrator/llm.py) searches the knowledge base once and  *)
(* answers from what came back.                                            *)
(***************************************************************************)
EXTENDS Naturals, Sequences, FiniteSets

CONSTANTS
  Manifest,        \* Manifest[intent]: tool_permissions.yaml
  Registry,        \* the registered tools
  Proposals,       \* the lists of tool names the model may answer with
  MaxRounds,       \* settings.llm_max_tool_rounds
  MaxInvocations   \* settings.mcp_max_invocations

Intents == DOMAIN Manifest
Providers == {"model", "script"}

ASSUME RoundsArePositive == MaxRounds \in Nat \ {0}
ASSUME BudgetIsPositive == MaxInvocations \in Nat \ {0}
ASSUME ManifestNamesTools == \A i \in Intents : Manifest[i] \subseteq Registry

\* The one call of KnowledgeScriptProvider.
Search == <<"search_knowledge_base">>

ASSUME ProposalsAreLists == \A p \in Proposals \cup {Search} : p \in Seq(STRING)

VARIABLES
  intent,   \* the intent of the turn
  provider, \* the LlmProvider of the turn
  pc,       \* what the turn does next, or how it ended
  round,    \* round_idx
  asked,    \* the tool calls of the assistant messages, in order
  calls,    \* those of this round still to be made
  results,  \* tool_results
  job,      \* job[i]: the i-th request the client has posted, at the server
  reply     \* what the reply is: text, or the script's answer

turn == <<intent, provider>>
vars == <<turn, pc, round, asked, calls, results, job, reply>>

Ends == {"replied", "gave_up", "failed"}
Errors == {"not_in_manifest", "limit_exceeded", "transport", "invalid",
           "execution"}
Result == [tool : STRING, job : Nat, answer : Errors \cup {"success"}]
JobStates == {"posted", "success", "invalid", "execution", "lost"}

TypeOK ==
  /\ intent \in Intents /\ provider \in Providers
  /\ pc \in {"complete", "call", "wait"} \cup Ends
  /\ round \in 1 .. MaxRounds
  /\ \E p \in Proposals \cup {<<>>, Search} :
       \E n \in 0 .. Len(p) : calls = SubSeq(p, n + 1, Len(p))
  /\ \A i \in DOMAIN results : results[i] \in Result
  /\ Len(job) <= MaxInvocations
  /\ \A i \in DOMAIN job : /\ job[i].tool \in Manifest[intent]
                           /\ job[i].state \in JobStates
  /\ reply \in {"none", "text", "verified", "not_found"}

-----------------------------------------------------------------------------
Init ==
  /\ intent \in Intents /\ provider \in Providers
  /\ pc = "complete"
  /\ round = 1
  /\ asked = <<>> /\ calls = <<>>
  /\ results = <<>>
  /\ job = <<>>
  /\ reply = "none"

\* The provider answers with tool calls: the model with any, the script with
\* its search, as long as no message is of a tool.
Propose ==
  /\ pc = "complete"
  /\ \/ provider = "model" /\ calls' \in Proposals \ {<<>>}
     \/ provider = "script" /\ results = <<>> /\ calls' = Search
  /\ asked' = asked \o calls'
  /\ pc' = "call"
  /\ UNCHANGED <<turn, round, results, job, reply>>

\* The provider answers with text: the script tells the customer what the last
\* tool message has found, if that is a success and has found something.
Reply ==
  /\ pc = "complete"
  /\ \/ provider = "model" /\ reply' = "text"
     \/ /\ provider = "script" /\ results # <<>>
        /\ \/ results[Len(results)].answer = "success" /\ reply' = "verified"
           \/ reply' = "not_found"
  /\ pc' = "replied"
  /\ UNCHANGED <<turn, round, asked, calls, results, job>>

\* The model cannot be reached, or does not answer in time.
ModelFails ==
  /\ pc = "complete"
  /\ provider = "model"
  /\ pc' = "failed"
  /\ UNCHANGED <<turn, round, asked, calls, results, job, reply>>

-----------------------------------------------------------------------------
(* McpClient.invoke *)

\* The result of the call at hand goes to the results and to the messages.
Answer(number, answer) ==
  /\ results' = Append(results, [tool |-> Head(calls), job |-> number,
                                 answer |-> answer])
  /\ calls' = Tail(calls)
  /\ pc' = "call"
  /\ UNCHANGED <<turn, round, asked, reply>>

\* Fault: a call the client refuses gets no message.
Deny_Silently(answer) ==
  /\ calls' = Tail(calls)
  /\ UNCHANGED <<turn, pc, round, asked, results, job, reply>>

Deny(answer) == Answer(0, answer) /\ UNCHANGED job

NotInManifest ==
  /\ pc = "call" /\ calls # <<>>
  /\ Head(calls) \notin Manifest[intent]
  /\ Deny("not_in_manifest")

LimitExceeded ==
  /\ pc = "call" /\ calls # <<>>
  /\ Head(calls) \in Manifest[intent]
  /\ Len(job) >= MaxInvocations
  /\ Deny("limit_exceeded")

\* Fault: > for >=.
Post_OneMore ==
  /\ pc = "call" /\ calls # <<>>
  /\ Head(calls) \in Manifest[intent]
  /\ Len(job) <= MaxInvocations
  /\ job' = Append(job, [tool |-> Head(calls), state |-> "posted"])
  /\ pc' = "wait"
  /\ UNCHANGED <<turn, round, asked, calls, results, reply>>

Post ==
  /\ pc = "call" /\ calls # <<>>
  /\ Head(calls) \in Manifest[intent]
  /\ Len(job) < MaxInvocations
  /\ job' = Append(job, [tool |-> Head(calls), state |-> "posted"])
  /\ pc' = "wait"
  /\ UNCHANGED <<turn, round, asked, calls, results, reply>>

\* The response comes back while the client waits for it.
Receive ==
  /\ pc = "wait"
  /\ job[Len(job)].state \in {"success", "invalid", "execution"}
  /\ Answer(Len(job), job[Len(job)].state)
  /\ UNCHANGED job

\* Fault: raise_for_status is not called, and a call that brings no response
\* counts as made.
TimeOut_Optimistic ==
  /\ pc = "wait"
  /\ Answer(Len(job), "success")
  /\ UNCHANGED job

\* Fault: httpx.Client(timeout=None).
TimeOut_Never ==
  /\ pc = "wait"
  /\ job[Len(job)].state = "lost"
  /\ Answer(Len(job), "transport")
  /\ UNCHANGED job

\* httpx.HTTPError: no connection, no response in ten seconds, a 5xx status.
TimeOut ==
  /\ pc = "wait"
  /\ Answer(Len(job), "transport")
  /\ UNCHANGED job

\* A response that is not an McpToolResponse (of a proxy, say, in front of a
\* server that is gone) raises through the loop.
Garbled ==
  /\ pc = "wait"
  /\ job[Len(job)].state # "posted"
  /\ pc' = "failed"
  /\ UNCHANGED <<turn, round, asked, calls, results, job, reply>>

NextRound ==
  /\ pc = "call" /\ calls = <<>>
  /\ IF round < MaxRounds THEN pc' = "complete" /\ round' = round + 1
                          ELSE pc' = "gave_up" /\ UNCHANGED round
  /\ UNCHANGED <<turn, asked, calls, results, job, reply>>

-----------------------------------------------------------------------------
(* The server: a call it has received is run on a thread of its own, whether *)
(* or not the client still waits.  The manifest of the client is all that    *)
(* limits the tool.                                                          *)

SetJob(i, state) == job' = [job EXCEPT ![i].state = state]

\* The tool commits or reads, refuses its parameters, or raises.  (The context
\* is always complete, and the manifest names registered tools only.)
RunTool(i) ==
  /\ job[i].state = "posted"
  /\ \E state \in {"success", "invalid", "execution"} : SetJob(i, state)
  /\ UNCHANGED <<turn, pc, round, asked, calls, results, reply>>

\* The request never arrives, or the server dies before the tool commits.
LoseJob(i) ==
  /\ job[i].state = "posted"
  /\ SetJob(i, "lost")
  /\ UNCHANGED <<turn, pc, round, asked, calls, results, reply>>

Turn == \/ Propose \/ Reply \/ ModelFails
        \/ NotInManifest \/ LimitExceeded \/ Post \/ Receive \/ TimeOut
        \/ Garbled \/ NextRound
Server == \E i \in DOMAIN job : RunTool(i) \/ LoseJob(i)

Finished == /\ pc \in Ends
            /\ \A i \in DOMAIN job : job[i].state # "posted"
            /\ UNCHANGED vars

Next == Turn \/ Server \/ Finished

\* Every wait of the turn has a time limit (httpx.Client(timeout=...)).
Spec == Init /\ [][Next]_vars /\ WF_vars(Turn)

-----------------------------------------------------------------------------
(* frontend/service.py: what the chat page says of a turn. *)

Succeeded(result) == result.answer = "success"

\* Fault: one success is enough.
StatusLine_Any ==
  CASE results = <<>> -> "no tool required"
    [] \A i \in DOMAIN results : ~Succeeded(results[i]) -> "not completed"
    [] OTHER -> "verified"

StatusLine ==
  CASE results = <<>> -> "no tool required"
    [] \E i \in DOMAIN results : ~Succeeded(results[i]) -> "not completed"
    [] OTHER -> "verified"

\* _tool_via: a search if there is one among the successes (which has a title
\* to show), else the first success.
Vias ==
  LET ok == {i \in DOMAIN results : Succeeded(results[i])}
      shown == {i \in ok : <<results[i].tool>> = Search \/ \A k \in ok : i <= k}
  IN {results[i].tool : i \in shown}

-----------------------------------------------------------------------------
(* Properties *)

\* What is reported was done: each result that is of an answer of the server
\* is the outcome of a call of its own, of the tool it names, and that never
\* changes again, whatever the calls the client has given up on do later.
ReportsAreTrue ==
  \A i \in DOMAIN results : results[i].answer \in {"success", "invalid", "execution"} =>
    /\ job[results[i].job] = [tool |-> results[i].tool, state |-> results[i].answer]
    /\ \A k \in DOMAIN results : results[k].job = results[i].job => k = i

\* Every tool call of the model, also one that the client refuses, has its
\* result, in the order of the calls, and nothing else has one: the results and
\* what is left of the round are what was asked.  A call is refused only if the
\* manifest lacks it or the last request of the budget came before it; any other
\* has a request of its own, in the order of the calls, and at most the last of
\* these is without a result.
EveryCallHasAResult ==
  /\ asked = [k \in DOMAIN results |-> results[k].tool] \o calls
  /\ \A k \in DOMAIN results : results[k].job = 0 =>
       \/ results[k].answer = "not_in_manifest" /\ results[k].tool \notin Manifest[intent]
       \/ /\ results[k].answer = "limit_exceeded"
          /\ \E i \in 1 .. k - 1 : results[i].job = MaxInvocations
  /\ \A i \in DOMAIN job :
       \/ \E k \in DOMAIN results : results[k].job = i
       \/ pc \in {"wait", "failed"} /\ i = Len(job)
  /\ \A i, k \in DOMAIN results :
       i < k /\ results[i].job > 0 /\ results[k].job > 0
         => results[i].job < results[k].job

\* "Verified via enterprise tools" (frontend/service.py:99): every call of the
\* turn ran to its end at the server, the tool a reply is said to come via is
\* one that did, and the demo's answer comes from a search that did.
VerifiedMeansVerified ==
  LET Done(tool) == \E i \in DOMAIN job : job[i] = [tool |-> tool, state |-> "success"]
  IN pc \in {"replied", "gave_up"} =>
       /\ StatusLine = "verified" =>
            /\ \A i \in DOMAIN job : job[i].state = "success"
            /\ \A i \in DOMAIN results : Done(results[i].tool)
       /\ \A tool \in Vias : Done(tool)
       /\ reply = "verified" => Done("search_knowledge_base") /\ Len(job) = 1

\* The turn ends, whatever the model and the tools do.
TurnEnds == <>(pc \in Ends)
=============================================================================
