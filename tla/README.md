# A formal model of the Autonomous Customer Service Platform

These TLA+ modules describe the parts of the platform where something can go
wrong that a unit test would hardly reach: database rows under concurrent
requests, one-time passwords under concurrent verifies, locks, lost workers and
stale reads. TLC checks them on small instances; TLAPS proves the theorems for
every value of the constants. `PROJECT.json` ties each definition to the lines
it models.

Run a model with `tlc -config AccountsTransfers.cfg MCAccounts`, check the proofs
with `tlapm AccountsProofs.tla`.

## 1. The system and its parts

A customer talks to a chat page. The orchestrator tokenizes the message, asks a
language model, and lets it call tools. A tool call goes through the MCP client
(manifest, invocation budget) over HTTP to the MCP server, which checks the
intent and runs a tool; a tool calls a domain service on PostgreSQL. A FastAPI
gateway exposes the same services over REST. Every FastAPI handler is a plain
`def`, so requests run concurrently on a thread pool, each with a database
session of its own (`get_db`, `tool_session`).

| Part | State | Operations | Interacts with |
|---|---|---|---|
| Accounts and transfers (`services/account_service.py`, `transaction_service.py`, `base.py`) | tables `accounts`, `transactions`; row locks | create, update, freeze, deposit, withdraw, transfer, p2p transfer, queries | OTPs (gate of freeze and p2p), customers |
| One-time passwords (`services/otp_service.py`) | table `one_time_passwords` | send, verify, queries | the two gated operations, gateway |
| Authentication (`services/auth_service.py`) | table `user_auth` (failed attempts, lock), in-memory sessions | register, log in, bootstrap a session, find the customer of a session | gateway |
| Customers and addresses (`services/customer_service.py`, `address_service.py`) | tables `customers`, `addresses` | create, update, queries | accounts, OTPs |
| Token vault and tokenizer (`security/`) | one vault per session, in the memory of the process; its token map | create session, put, resolve | orchestrator, MCP client |
| MCP client (`worker/mcp_client.py`, `manifest.py`) | invocation count of a workflow | invoke a tool with manifest check, budget and timeout | MCP server, vault |
| MCP server and tools (`mcp/`) | registry of tools | authorize and run a tool | services, knowledge base |
| Orchestrator (`orchestrator/`) | messages of one turn | tool-calling loop | model, MCP client, vault |
| LLM providers (`orchestrator/llm.py`) | none | one HTTP request | external model |
| Knowledge base (`knowledge/`) | a Chroma collection, a keyword index | load, chunk, index, rebuild, search | MCP tool |
| Chat page (`frontend/`) | session id and history in the browser | send a message, start a new session | orchestrator |
| Workbench (`workbench/`) | none | scripted runs of the above | all |
| Masking (`gateway/masking/`) | none | regular expressions over log text | logging |
| Schemas, settings, database set-up (`shared/`, `database/`) | none | declarations | all |

What makes them hard, and what makes them correct:

* **Accounts.** `transfer` locks two rows; everything else reads a row without
  a lock and later overwrites a column. Correct means: no money appears or
  vanishes, no status check is outrun, no statement undoes another's column, no
  wait is circular, a lost worker leaves nothing half done.
* **One-time passwords.** `verify` computes its verdict from a row that may have
  changed since. Correct means: a code is accepted once, only for its customer and
  purpose, the attempts are limited, a new code replaces the old ones.
* **Authentication.** The counter of failed logins is read, incremented and
  written back. Correct means: a locked user stays out, a lock is earned.
* **Customers.** A unique field is looked up and inserted in two statements.
  Correct means: uniqueness survives, the loser is refused.
* **Token vault.** Each turn replaces the vault of its session. Correct means: a
  token stands for one value, and the tokens of a turn resolve until it ends.
* **MCP client, server, loop.** A call that times out may still commit. Correct
  means: no tool outside the manifest, no more than the budget of invocations,
  no state change repeated by a retry without a new approval.
* **Knowledge base.** A rebuild replaces the index under running searches, and the
  first searches of a process may all rebuild it. Correct means: a search that
  nobody disturbs answers, from the chunks the headers of the document call for,
  and an index once filled stays so.
* **Chat page.** Fetches overlap and are answered in any order. Correct means:
  every question gets its answer, the page is freed, and what a late answer of an
  earlier session changes is bounded.

`PROJECT.json` lists the hazards at their lines, with the properties that would
catch each, or the reason why none does.

## 2. Plan

| Order | Module | What it models | Abstract specification / theorems |
|---|---|---|---|
| 1, done | `Accounts` | account rows under concurrent requests | implements `AtomicBank`; safety proved |
| 2, done | `Otp` | OTP rows under concurrent sends and verifies | safety proved |
| 3, done | `Payments` | composes `Accounts` and `Otp`: the gate of p2p and freeze, failures after the gate, second attempts | every gated change went through a code of the owner; proved on top of `OtpProofs` |
| 4, done | `Vault` | token store, tokenizer, concurrent chat turns | the two dictionaries are inverse, sessions stay apart; safety proved |
| 5, done | `Agent` | tool loop, MCP client and server, the offline script of the demo: manifest, budget, timeouts, late commits, the status line of a reply | a report is true; safety proved |
| 6, done | `Customers` | registration, login and lock-out, updates, addresses: uniqueness under check-then-insert | implements `Directory`; proved |
| 7, done | `Chunker`, `Knowledge` | cutting and ranking as functions; the vector index under searches, rebuilds, the indexer and restarts | chunks follow headers, rankings are respected, the index survives rebuilds; safety proved |
| 8, done | `ChatPage` | the page's session, its conversation and late answers | safety proved |
| 9, done | the proof modules of `Accounts`, `Customers`, `Agent`, `Knowledge` | columns, roundings and sums of `Accounts`; the counters and sessions of `Customers`; status lines of `Agent`; chunks and rankings of `Knowledge` | on top of the earlier invariants |

Modules that theorems are about use no RECURSIVE operator. Each component's proofs
live in a module of their own.

## 3. Accounts (`Accounts.tla`, `AtomicBank.tla`)

**State.** `row[a]` is the committed row of table `accounts` (status and balance;
owner and currency never change and are constants). `lock[a]` is the request
whose transaction holds the row through `SELECT ... FOR UPDATE`. `transactions`
is the table of that name. For each request, `call[r]` is its path and body,
`pc[r]` the statement it executes next or its answer, and `copy[r]` the rows
alive in its SQLAlchemy session.

**Actions.** One per statement, because another request may run between any two
statements: `GatePass`/`GateFail` (`verify_customer_otp`), `OwnerPasses`,
`FreezeRead`, `OwnerRefuses` (`require_owned_account` and the two checks of
`freeze_account`), `LockFirst`, `LockSecond` (`_lock_accounts`), `Post`,
`TransferRefused` (`_validate_transfer`, the two new balances, the INSERT, the
COMMIT), `Read`, `NumberIsFree`, `ReadRefused` (`get_or_404` and the number check
of `create`), `FreezeWrite`, `UpdateWrite`, `CashWrite`, `CreateWrite`,
`WriteRefused` (flush and COMMIT with its constraints), and `Lose` (a worker or
connection that dies before the COMMIT).

**What is assumed of the database and of SQLAlchemy.**

* READ COMMITTED: every SELECT sees the last commit; an UPDATE by primary key
  waits for a lock and then overwrites.
* The session is `autoflush=False`; it sends only the columns that changed and no
  UPDATE for an attribute set to its loaded value. It refers to its rows weakly;
  `SELECT ... FOR UPDATE` does not refresh a row still alive in the session.
  `execute_p2p_transfer` is right because it drops the row
  `require_owned_account` returned: the mutant `OwnerPasses_RowKept` shows what
  keeping it would do.
* UPDATEs, INSERT and COMMIT of one flush are one step: nothing can come between
  the decision and the commit that the row locks do not exclude. An UPDATE
  outside `transfer` touches one row only.
* `Numeric(18, 2)` rounds half away from zero. One unit is half a cent, so an odd
  amount needs rounding; smaller fractions round the same way as one of the two
  cases and are left out. (An amount below half a cent is stored as 0, which the CHECK
on `transactions.amount` refuses.)

**`AtomicBank`** is what the services promise when no cash moves: a transfer is one
step, between two active accounts of the right currency, never for more than the
sender holds, for exactly the recorded amount, once per request. `BankSpec` is
the refinement, with the identity on `row`, `transactions` and `call`.

| Run | Instance | Shows |
|---|---|---|
| `accounts_transfers` | 3 requests, 11 calls, accounts 1, 2 and 3 open, 4 unopened | transfers around a ring, p2p, freeze, status change and opening interleaved: `DecidesUnderBothLocks`, `Reconciled`, `OrderedLocking`, refinement of `AtomicBank`, every request is answered |
| `accounts_edges` | 2 requests, 14 calls, balances at both ends | refusals, cash, stale statements, odd amounts: types (no balance below 0 or beyond the column), `WritesItsOwnColumn`, `RoundingStaysInACent` (no step changes the sum of the balances by more than the cash it moves and one cent) |
| `accounts_cash` | 2 requests | `NeverOverdrawn` is **violated**: two withdrawals of the same money are acknowledged |

**Bounds.** A wrong interleaving of these handlers needs two requests at one row;
a third covers a ring of three locks and a status change between two transfers.
Balances go from 0 to `Limit` = 10 half-cents, with amounts of 1 to 4 (8 and 20
to overflow the column). Deposits and withdrawals of the instances are positive;
the routes take any `Decimal`, and a negative deposit behaves as a withdrawal.

**Fairness.** Weak fairness of `Step(r)` per request: a thread keeps running, and
PostgreSQL grants a free row lock to one of its waiters. There is none for
`Lose`. A waiter may see a lock taken and freed again, which weak fairness does
not rule out to starve it; `Answered` holds because each of the finitely many
requests is answered once and then holds nothing.

## 4. One-time passwords (`Otp.tla`)

**State.** `otp[s]` is the row inserted by send `s` (status, code, attempts, and
whether `otp_ttl_seconds` have passed). `created[s]` orders the rows, from the
start of the transaction of `s` as `CURRENT_TIMESTAMP` does, without ties.
`seen[s]` are the rows `_expire_pending` has loaded; `held[r]` is the row verify
`r` found with the attempts and the lateness it saw. `before` is a history
variable for `NewCodeReplacesOld`.

**Actions.** `SendBegin`, `SendRefused`, `SelectPending`, `SendCommit` (`send`),
`FindNothing`, `Find`, `MarkExpired`, `CountMiss`, `Accept` (`verify`), `Lapse` (time) and
`Lose`. Any code may be drawn, the same one twice too.

| Run | Instance | Shows |
|---|---|---|
| `otp_life` | 4 requests, any mix of sends and verifies, 2 purposes, 2 codes, 2 attempts | `PendingHasAttemptsLeft`, `NewCodeReplacesOld`, `AcceptedIsSpent`, `LockoutIsEarned` |
| `otp_attempt_budget` | 4 requests, one send | `AttemptBudget` is **violated**: overlapping wrong answers count once |

**Bounds.** A lost update takes two verifies on one row, a replaced code one more
send, a lock-out two counted answers: four requests and `MaxAttempts` = 2 cover
every pair of them. Requests are interchangeable, no property of these runs is
temporal, so symmetry is sound. No fairness: each call is straight-line code
that waits for nobody, so there is no liveness worth a run.

## 5. Gated payments (`Payments.tla`)

`Payments` EXTENDS `Accounts` and instantiates `Otp` as `O` over the same requests
plus `OtpRequests`, calls of the routes `otp/send` and `otp/verify`. A p2p transfer
or a freeze is at statement `gate` of `Accounts` while it runs the statements of
`O!Verify`, with the customer and the purpose the tool passes (`AsksFor`). Its
answer decides between `Pass` and `Fail`. The verify has committed by then; what
follows is a new transaction, so the code is spent if the transfer fails. A thread that
dies dies in both halves (`Die`). A second attempt at a payment is a second
request: nothing in the code tells the two apart.

| Run | Instance | Shows |
|---|---|---|
| `payments_gate` | 2 payments, 2 OTP calls, 2 accounts of 2 customers | `ChangesAreApproved`: the code was sent to the owner of the account, for that kind of change, and cannot be found again |
| `payments_retry` | a transfer asked for twice, 1 send | `OneChangePerCode` is **violated**: both attempts find the code before either accepts it |

**Bounds.** A gated change needs one send before it; the second OTP call replaces
the code, accepts it elsewhere or sends one to another customer. The second
request is a rival for the account, the code or both. `ChangesAreApproved`
speaks of a payment at the end of its change, so it also covers all that comes
between the gate and the commit.

There is no liveness run of the composition: a payment waits for row locks only,
which `Answered` covers in `Accounts`; its gate is straight-line code.

## 6. Token vault (`Vault.tla`)

**State.** `store` is the module variable `_store`, named by the turn that built
it; `handle[t]` the store in turn t's `Tokenizer`; `records[d][s]` and `index[d][s]`
the two dictionaries of the vault of session s in store d. `todo[t]` are the
values of the message still to be replaced, `meant[t]` the tokens in t's text,
`last[t]` the last rehydration. `fate` is a history variable.

**Actions.** `CheckStore`, `BuildStore`, `LoadStore` (`get_token_store`, which has no
lock), `CreateSession`, `PutKnown`, `PutNew`, `Rehydrate` (each one call of a `TokenStore`
method, under its lock), `Tokenized`, `EndTurn`, and `Expire`, the passing of
`ttl_seconds`. A vault beyond its ttl answers `get` like an empty one and is replaced by
the next `put`, so `Expire` empties it, at any time. A drawn token may be any that
is not in the vault. The kind prefix is left out: the values of an instance are of one
kind, the case where tokens can meet. Values that are redacted are never stored
and play no part.

| Run | Instance | Shows |
|---|---|---|
| `vault_turns` | 2 turns, 2 sessions, 3 tokens, messages with up to 3 values | `IndexMatchesRecords`, `UndisturbedTokensResolve`, `SessionsAreApart`, also with two stores |

**Bounds.** Two turns cover one session used twice, two sessions, and two stores;
two values with three tokens leave a free token to draw at each put and one to
make up. Turns are interchangeable, as are tokens, and no property is temporal.

## 7. Agent turn (`Agent.tla`)

**State.** `provider` is the `LlmProvider` of the turn, the external model or
`KnowledgeScriptProvider`, which the demo of the chat page uses. `round` and
`calls` are `round_idx` and what is left of `turn.tool_calls`; `results` is
`tool_results` with, for each, the posted request it belongs to; `job` are the
requests the client has posted, so `Len(job)` is `_invocations`, with what became
of each at the server. `reply` says what the reply text claims, and `asked` holds all tool
calls of the turn's assistant messages.

**Actions.** The provider: `Propose`, `Reply`, `ModelFails` (a model does anything, at any
completion; the script searches once and then answers from what came back). The
client: `NotInManifest`, `LimitExceeded`, `Post`, `Receive`, `TimeOut` (any
`httpx.HTTPError`), `Garbled` (any other exception, raised by a response). The loop:
`NextRound`. The server: `RunTool`, `LoseJob`, which do not ask whether the client
still waits. `StatusLine` and `Vias` are what `frontend/service.py` derives from the
results for the page: "verified knowledge" and the tools named under a reply.

| Run | Instance | Shows |
|---|---|---|
| `agent_turn` | the repository's manifest, 2 rounds of up to 2 calls, budget 3 | `ReportsAreTrue` (a success, a status line or a claim of the script stands for a job that ran at the server), `EveryCallHasAResult` (the results, then the calls left, are the calls asked, in order; only the manifest or a spent budget refuses one), `VerifiedMeansVerified` ("verified" and the tools named under a reply stand for calls that succeeded), types with the budget, `TurnEnds` |

`VerifiedMeansVerified` is about what a page may claim. It says nothing of a call that a
result reports as failed and that commits later: the code allows that (section 12).

**Bounds.** Four calls against a budget of 3 exhaust it in the middle of a round;
two rounds cover a late call of an earlier round and the round limit.

**Fairness.** `WF(Turn)`: the loop runs on one thread and each of its waits has a time
limit (`timeout_seconds` of the client, `llm_timeout_seconds` of the provider). None for
the server, which may never answer.

## 8. Customers (`Customers.tla`, `Directory.tla`)

**State.** The tables `customer`, `auth` (user_auths, by its customer) and
`addresses`; `sessions`, the dictionary of `AuthService`; for each request its
call, its next statement and the rows alive in its database session. `heard` is a
history of what the logins of a customer were told.

**Actions.** One per SELECT (`Load`, `EmailIsFree`, `PhoneIsFree`, `LoadAuth`,
`UsernameIsFree`, `ReadAuth`, `NoSuchUser`, `Locate`, `LoadResident`), and one for
the statements of a flush with their COMMIT (`Insert`, `Update`, `WriteRefused`,
`CountMiss`, `Admit`, `Place`, `Drop`, `DropRefused`), since nobody sees the rows
before it. `Issue` and `Bootstrap` make a session, `Locked` refuses one, `Lose` is
a worker that dies before its COMMIT. A PATCH sends the columns whose value differs from
the one it loaded; deleting an address makes SQLAlchemy load `Address.customer` and
set its `address_id` to NULL.

**`Directory`** is what the three services promise: a customer is enrolled at one
instant, with a login and under names nobody else has; a change of names finds the
new ones free; a deleted address is nobody's. `DirectorySpec` is the refinement,
with the username column as `username`.

| Run | Instance | Shows |
|---|---|---|
| `customers` | 3 requests, 16 calls, 2 customers at one address | refinement of `Directory`, `FailuresAreCounted`, `LockNeedsOverlap`, `SessionsAreVerified` |

**Bounds.** Two requests race for a name; the third renames, deletes or logs in
between their statements. One customer starts one wrong password from the lock
(`MaxFailedAttempts` = 2; the code has 5, and only reaching it matters). Requests are
interchangeable and every property is a safety property, so symmetry is sound. There
is no fairness: each call is straight-line code.

## 9. Knowledge base (`Chunker.tla`, `Knowledge.tla`)

**`Chunker`** is `ingestion/chunker.py` as functions: the one pass of
`chunk_document` is a fold over lines, `OverlapTail` is `_overlap_tail` on
characters (a word character, a mark, a space, a newline).
`CutAtHeaders` is the reference definition, written from the headers alone:
which lines make a chunk, under which titles. A title is a text: `h2 or h1` takes an h2
whose title is blank for none, so an h3 under it belongs to the h1 (`ParentOf`).
`OverlapsThePrevious` is the reference for the overlap: all of the chunk before if it is short
enough; else the end of it that begins with the first line to begin there (`LineStarts`), or
at a sentence if no line does (`SentenceStarts`), or with the limit if neither does, and of
these only blanks in front are skipped.

**`Knowledge`, state.** `collection` is the Chroma collection on disk, numbered so that
a deleted one differs from its successor; `handle[r]` is `_collection` of the store
built by request r, `global` the module variable `_vector_store`; `pc`, `store`,
`made` belong to a search. `raced` and `calm` are histories of who was under way
beside whom. The scores of a scenario are inputs: what embeddings and tokens say is
not modelled, what becomes of the numbers is.

A stable sort and a filter both arrange places of a list in an order (`ByScore` and `Kept`
are an `Arranged`). Every chunk of a scenario has its two scores (`EveryChunkHasScores`), as
the embedder and the scoring loop of `keyword_search` are applied to each.

**Actions.** `GetStore`, `Open`, `Publish`, `GetStoreAgain` (`get_vector_store`, which has
no lock), `Count`, `KeywordSearch`, `CountAgain`, `Query` (`search_knowledge` and the
store's `search`), `Delete`, `Create`, `Assign`, `Add` (`rebuild`), and `Restart` of the
server. The indexer (`knowledge/index/run_indexer.py`) is a request of type `INDEX`, in a process
of its own; the sample searches it prints after the rebuild are left out. ChromaDB is external; what is assumed of it is in the module's header.

| Run | Instance | Shows |
|---|---|---|
| `knowledge` | every document of up to 4 lines of 7 kinds, of 5 that begins with an h1 or h2, and of up to 4 with an h2 without a title; one search of each type over 3 chunks with every pair of scores 0..3; up to 3 requests at once | `ChunksFollowHeaders`, `OverlapsAreTails`, `HybridRespectsBoth` on the first two; `UndisturbedSearchesAnswer`, `OutageNeedsRace`, `WarmIndexStays` on the last |

**Bounds.** Five lines hold two h2 with text and an h3 between them, with the overlap
(6 characters) cutting inside a line of text: a line of two sentences, one of two questions,
and one with a blank inside a sentence, where a cut must not go; what precedes the first h1 or h2 is in no chunk,
which four lines show. Three requests are two rebuilds at once
and a search beside them, or a search, a rebuild and the indexer. One restart separates
an index that is warm on disk from a process that has no store yet.

`UndisturbedSearchesAnswer` is as strong as the code allows: without its hypothesis it
fails, for the race of section 12. No fairness: no call waits for another.

## 10. Chat page (`ChatPage.tla`)

**State.** `sessionId`, `busy` and the rows of the conversation are those of `app.js`
in one browser tab. `starts` and `waiting` are the calls of `startSession` and
`sendMessage` at their `await fetch`; `sent[t]` is the session in turn t's request.
`clicks`, `pressed`, `current` and `overtaken` are histories.

**Actions.** JavaScript gives way only at an await, so each function is two steps: `New`, then
`Started` or `NotStarted`; `Send`, then `Replied` or `Refused`. `Context` is
`_context` of `frontend/service.py`: the server keeps nothing of a session.

| Run | Instance | Shows |
|---|---|---|
| `chat_page` | 4 messages, the load of the page and 3 clicks on New | `QuestionsAreAnswered`, `OldSessionsComeBackLate`, `OverlapsNeedNew`, `PageIsFreed` |

`QuestionsAreAnswered` bounds the rows of dots from both sides: a waiting turn that no click
on New has overtaken shows its dots, less those that late answers have taken away.

**Bounds.** One click on New during a turn makes an answer late; a second and a third
make a start late as well and let two turns wait. The bounds stop clicks and messages
only, so the run says `CHECK_DEADLOCK FALSE`: an idle page may stay idle.

**Fairness.** `WF(Arrive)`: some fetch that waits is settled. The turns of the
server end (`TurnEnds` of `Agent`), the health check has a limit of a second and a half, and
a connection that is lost rejects its fetch. `New` and `Send` are the customer's.

## 11. What is proved

The proof modules follow one pattern: an inductive invariant, one lemma per
group of actions, and a temporal step.

**`AccountsProofs`**, for any sets of requests, accounts, customers and calls that
satisfy the named assumptions of `Accounts` (account ids are ordered, requests
differ from `NoOne`, `Limit` is in whole cents, the schema's `amount > 0`):

* `TypeCorrect`, `DecidesOnCurrentRows`, `LocksAreOrdered`: from `Inv`, which adds
  to the types that a request about to write found its row there, that only
  transfers hold locks, that a held row is loaded, and that a loaded row of a
  transfer is held and current. The last is what makes `DecidesUnderBothLocks`
  inductive: it must already hold of the first row while the second is awaited.
* `ImplementsAtomicBank`, for calls without cash and with whole cents (the two
  assumptions are in the theorem): each step is a step of `AtomicBank` or a
  stutter. It needs that a request that has posted is answered.
* `OwnColumnsOnly`, `RoundingIsWithinACent`: from `Inv`, step by step. The second rests on
  what `Cents` does to a number of half cents.
* `BalancesReconcile`, under the same two assumptions as the refinement: the only calls
  they leave out are those that lose updates (section 12) and those that round. `Books`
  adds to `Reconciled` that the sums are of finite sets and that a row of the start is never
  opened again. A sum over a set is a fold, of which the provers know nothing. `Total` is
  what such a sum is bound to be, one number for each finite subset; that there is one, that it is
  the fold, and that one more transaction adds its amount, are shown for a smallest subset of
  which they fail (`SmallestSubset`), which there is not. This stands in for induction.

**`OtpProofs`**, for any requests, customers, codes and `MaxAttempts >= 1`:

* `TypeCorrect`, `PendingIsUsable`, `AcceptedStaysSpent`, `OldCodesAreReplaced`: from
  `Inv`, whose core is that an OTP once out of PENDING never returns
  (`CountMiss` writes the status only when it writes FAILED), so a stale verdict may
  change which final status an OTP has and no more.
* `LockoutTakesItsAttempts`: in addition, the count a verify holds is at most the
  number of wrong answers given by now, itself not among them.

**`PaymentsProofs`**, for whatever satisfies the assumptions of `Accounts` and of `Otp`:

* `PaymentsAreApproved`. The invariant of `OtpProofs`, instantiated over both kinds of
  request, is that of the OTP half: every step of a payment is a step of `Otp` or
  leaves its tables alone. To it `Inv` adds that only sends insert an OTP, and how the
  two halves are tied: who is past the gate was told "ok" for the purpose of its call, and
  who is past the ownership check asks for its own account.

**`VaultProofs`**, for any turns, sessions, values, tokens and messages:

* `TypeCorrect`, `VaultsAreOneToOne`, `TokensResolve`, `SessionsStayApart`: from the
  properties themselves, and that a turn has no tokens before it has a vault (`Fresh`), that
  a store is there to be loaded (`Built`), and that whatever is in a vault was said in its
  session (`Local`).

**`AgentProofs`**, for any manifest over the registry, any proposals and limits:

* `BudgetAndManifest`, `WhatIsReportedWasDone`, `NoCallIsDropped`: a turn waits for its
  last request, of the call at hand, and has no result of it yet (`Waiting`); a report names
  a request that was posted (`Named`). Lists are shown to be in `Seq(Names)`, with the name of
  the search tool added to `STRING`, since the provers know no literal to be in it.
  For `NoCallIsDropped` the invariant says of every call, refused or not, that its result stands
  where it was asked (`AsAsked`, `Answered`), that a refusal had its reason when it was made
  (`RefusedInTurn`), and that the posted ones come in the order of their requests
  (`PostedInTurn`).
* `TypeCorrect`: what is left to be called is a rest of what the provider proposed (`LeftOver`).
* `VerifiedIsVerified`: the script makes one call in all, of the search (`SearchesOnce`), so the
  last result is the search's, and nothing follows the reply (`RepliesLast`). It is about the
  claims of the page, not about calls reported as failed.

**`CustomersProofs`**, for any rows at the start and any calls that satisfy the assumptions of
`Customers` (the bodies passed the schemas, rows and their names differ at the start):

* `TypeCorrect` and `LoginsMatchCustomers`: a customer has its login and no two of them the
  same, who has still to insert has not done so (`InsertsOnce`), and the customer a request
  has loaded is still there (`Prepared`).
* `ImplementsDirectory`: under that invariant each step is a step of `Directory` or a stutter.
* `FailuresAreCountedAlways`, `LockNeedsOverlapAlways`: `Counts` ties the column to the wrong passwords
  given (`Heeded`), and the copy that a login at work has read to the row: it holds no more
  failures than were ever given, and while nothing overlapped it is the row's count
  and the login is the only one (`ReadsHold`).
* `SessionsAreVerifiedAlways`: a login past the check was given the password of the row it had
  read (`PasswordVerified`), and is never past it otherwise.

**`KnowledgeProofs`**, for any number of searches, runs of the indexer and restarts, whatever
the documents, the overlap and the scores, as long as every chunk has its scores:

* `ChunksAlwaysFollowHeaders`, for documents of any length: the sections that the pass of
  `chunk_document` has written after line k, the one it has open and the titles it
  remembers are those the headers up to k call for (`SoFar`). The pass is a fold; a fold is shown
  to have a run, a state for each line (`FoldRuns`), and `SoFar` to hold at each state of it,
  since there is no first line after which it does not (`LeastNumber`). `Over` is what an
  h3 belongs to: the last h2 or h1, or the last h1 where that h2 has a blank title.
* `OverlapsAreAlwaysTails`: the first separator that occurs in the window decides where it is
  cut (`SeparatorFacts`), that place is a start of a line or a sentence as the reference wants it
  (`CutIsAllowed`), and stripping skips blanks only (`TailIsOverlap`), for the text of any
  section.
* `BetterChunksAreAhead`: an order of finitely many places, counted by predecessors, fills the
  ranks without a gap (`ArrangedLists`); so a sort by either ranking, its first k, a
  filter by a threshold and the fusion of two rankings are all lists that have no chunk
  without those that are better for both, nor ahead of them (`Respecting`).
* `TypeCorrect`: with the answers of the last, and that no handle is of a collection that has not
  been created (`Numbered`).

* `UndisturbedSearches`, `OutagesNeedARace`, `WarmIndexes`: without a race since the restart,
  who opens the index finds no store (`OpensFirst`), everybody works with the one of the server
  (`OneStore`), and its handle is the collection that is there but for the two statements
  between the deletion and the assignment (`Current`); an undisturbed search keeps what it has
  found (`Seen`).

**`ChatPageProofs`**, for any number of messages and of clicks on New:

* `TypeCorrect`, `EveryQuestionIsAnswered`, `OnlyLateAnswersBringBack`, `OverlapsAreBounded`: the
  turns that wait and the answers that come late are finitely many (`LateIsFinite`), nothing has been said in a turn that has not begun
  (`Begun`), and a turn that waits and was not overtaken was sent in the current session, or in
  one that an overtaken turn has brought back (`SentHere`).

Every invariant and every action property of a passing run is stated by one of these
theorems. Only model-checked are the three liveness properties, `Answered`, `TurnEnds` and
`PageIsFreed`: liveness under fairness rests on `ENABLED`, which the prover does not reason
about. The three properties of section 12 that the code does not have are, of course, not
proved either.

## 12. Divergences

Three have a run that shows them.

* `withdraw` and `deposit` lose updates: `account_service.py:102-110`.
* An OTP may take more wrong answers than `otp_max_attempts`: `otp_service.py:70`.
* One OTP may be accepted twice, so a transfer and its second attempt may both go
  through: `otp_service.py:51-77`.

The others were met while modelling; the properties of the passing runs are stated so as
to hold beside them.

* A transfer with half a cent too many creates a cent, since both balances round up:
  `transaction_service.py:49-50`. `RoundingStaysInACent` bounds it.
* A tool call reported as failed may commit afterwards: `mcp_client.py:105`.
  `ReportsAreTrue` is about results that are an answer of the server.
* A second turn of a session replaces the vault of the first, whose 16-bit tokens may be
  drawn again for other values: `token_store.py:39`, `:50`. `UndisturbedTokensResolve`
  speaks of turns to which this did not happen. Nothing limits a session to one turn
  at a time.
* Two first searches of a process may leave its store with a deleted collection, and every
  later search of that process then fails: `vector_store.py:92-96`. `OutageNeedsRace` says that
  nothing less does it.
* The chat page takes the session of a late answer back: `app.js:213`.
  `OldSessionsComeBackLate` says that it is only ever such a one.
* The demo's examples "OTP requirements" and "Transfer limits" are inferred as
  `FUND_TRANSFER` (`intent.py:10`), whose manifest lacks `search_knowledge_base`: the demo
  then always says that it found nothing.
* `freeze_account` checks the status (`account_service.py:84`) without a lock, so an account
  closed just then becomes FROZEN; `AtomicBank` allows it.
* The manifest lets `ACCOUNT_MANAGEMENT` call `get_account_balance`
  (`tool_permissions.yaml:19`), which the catalogue in `README.md` and the tool's own
  `authorized_intents` do not; only the manifest is enforced.
* An h2 with a blank title is a section of its own, but an h3 under it belongs to the h1
  (`chunker.py:185`).
* Text before the first h2 is in no chunk, and `KnowledgeStore` is never reloaded after
  its first load.
* Overlapping logins lose counts, so a lock-out may come late (`auth_service.py:99`), and a
  customer is let in again whose row was read before the lock. `LockNeedsOverlap`
  says that it takes such an overlap.
* `bootstrap_session` asks for no password, and sessions are never purged.
* Deleting an address sets `address_id` to NULL for the customer it loaded, also when
  that customer has moved in between.

## 13. What is not modelled

`TransactionService.create`, which no route or tool calls; the read-only queries; the
text of an address and its update, which no other row depends on; the age of a login
session. Of the knowledge base: embeddings, tokens and their scores, which are inputs, and
the front matter of a document. Of the LLM providers: the HTTP exchange and the wording.
The masking is regular expressions over log text. The schemas, settings, logging and
database set-up are declarations. The workbench is a scripted caller of what is modelled. None
of these holds a state that concurrent actors share.
