-------------------------------- MODULE Vault --------------------------------
(***************************************************************************)
(* security/: the token vault under concurrent chat turns.  A turn         *)
(* (orchestrator/loop.py, run_tool_loop) takes the process-wide store,     *)
(* gives its session a new vault, replaces the sensitive values of its     *)
(* message by tokens one after the other, and then rehydrates whatever     *)
(* tokens the model puts into its tool calls.  Each method of TokenStore   *)
(* runs under the store's lock, nothing else does.                         *)
(*                                                                         *)
(* A vault beyond its ttl answers like an empty one and is replaced by the *)
(* next put, so expiry empties it; _purge_expired then changes nothing.    *)
(***************************************************************************)
EXTENDS Naturals, Sequences

CONSTANTS
  Turns,      \* calls of run_tool_loop
  Sessions,   \* session ids
  Values,     \* sensitive values, each with its kind
  Tokens,     \* what secrets.token_hex(2) may draw
  Messages,   \* the values of a message in the order the rules find them
  NoStore,    \* _store = None
  NoValue     \* resolve returns None: the token is left as it is

ASSUME MessagesAreValues == Messages \subseteq Seq(Values)
ASSUME NoStoreIsNoTurn == NoStore \notin Turns
ASSUME NoValueIsNoValue == NoValue \notin Values

VARIABLES
  session,  \* session[t]: customer_context.session_id of t
  message,  \* message[t]: the values of t's message
  pc,       \* pc[t]: the call t makes next
  store,    \* _store: the store in use, named by the turn that made it
  handle,   \* handle[t]: the store t's tokenizer refers to
  records,  \* records[d][s]: SessionVault.records of session s in store d
  index,    \* index[d][s]: SessionVault.value_index
  todo,     \* todo[t]: the values of the message still to be replaced
  meant,    \* meant[t]: the tokens in t's text, with the values they replaced
  last,     \* last[t]: the last token t rehydrated, and what it became
  fate      \* history: what became of the vault t made

vars == <<session, message, pc, store, handle, records, index, todo, meant,
          last, fate>>

PartialFunction(S, T) == UNION {[D -> T] : D \in SUBSET S}
Empty == [x \in {} |-> x]

TypeOK ==
  /\ session \in [Turns -> Sessions]
  /\ message \in [Turns -> Messages]
  /\ pc \in [Turns -> {"check", "build", "load", "create", "put", "loop",
                       "done"}]
  /\ store \in Turns \cup {NoStore}
  /\ handle \in [Turns -> Turns \cup {NoStore}]
  /\ \A t \in Turns :
       pc[t] \in {"create", "put", "loop", "done"} => handle[t] \in Turns
  /\ records \in [Turns -> [Sessions -> PartialFunction(Tokens, Values)]]
  /\ index \in [Turns -> [Sessions -> PartialFunction(Values, Tokens)]]
  /\ todo \in [Turns -> Seq(Values)]
  /\ meant \in [Turns -> SUBSET (Tokens \X Values)]
  /\ last \in [Turns -> {<<>>} \cup (Tokens \X (Values \cup {NoValue}))]
  /\ fate \in [Turns -> {"none", "own", "replaced", "expired"}]

-----------------------------------------------------------------------------
Init ==
  /\ session \in [Turns -> Sessions]
  /\ message \in [Turns -> Messages]
  /\ pc = [t \in Turns |-> "check"]
  /\ store = NoStore
  /\ handle = [t \in Turns |-> NoStore]
  /\ records = [d \in Turns |-> [s \in Sessions |-> Empty]]
  /\ index = [d \in Turns |-> [s \in Sessions |-> Empty]]
  /\ todo = message
  /\ meant = [t \in Turns |-> {}]
  /\ last = [t \in Turns |-> <<>>]
  /\ fate = [t \in Turns |-> "none"]

Goto(t, step) == pc' = [pc EXCEPT ![t] = step]
UnchangedVaults == UNCHANGED <<records, index, todo, meant, last, fate>>

\* get_token_store: `if _store is None`, without a lock.
CheckStore(t) ==
  /\ pc[t] = "check"
  /\ Goto(t, IF store = NoStore THEN "build" ELSE "load")
  /\ UNCHANGED <<session, message, store, handle>> /\ UnchangedVaults

\* Fault: no `global _store`, the new store is a local variable.
BuildStore_Local(t) ==
  /\ pc[t] = "build"
  /\ Goto(t, "load")
  /\ UNCHANGED <<session, message, store, handle>> /\ UnchangedVaults

BuildStore(t) ==
  /\ pc[t] = "build"
  /\ store' = t
  /\ Goto(t, "load")
  /\ UNCHANGED <<session, message, handle>> /\ UnchangedVaults

\* `return _store` reads the variable once more.
LoadStore(t) ==
  /\ pc[t] = "load"
  /\ handle' = [handle EXCEPT ![t] = store]
  /\ Goto(t, "create")
  /\ UNCHANGED <<session, message, store>> /\ UnchangedVaults

Vault(t) == <<handle[t], session[t]>>

\* create_session: whatever vault the session had is replaced.
CreateSession(t) ==
  /\ pc[t] = "create"
  /\ records' = [records EXCEPT ![handle[t]][session[t]] = Empty]
  /\ index' = [index EXCEPT ![handle[t]][session[t]] = Empty]
  /\ fate' = [u \in Turns |-> IF u = t THEN "own"
                              ELSE IF fate[u] = "own" /\ Vault(u) = Vault(t)
                                THEN "replaced" ELSE fate[u]]
  /\ Goto(t, "put")
  /\ UNCHANGED <<session, message, store, handle, todo, meant, last>>

-----------------------------------------------------------------------------
(* put *)

Known(t) == records[handle[t]][session[t]]
Indexed(t) == index[handle[t]][session[t]]

\* f with x mapped to y, in or outside its domain.
With(f, x, y) == [z \in DOMAIN f \cup {x} |-> IF z = x THEN y ELSE f[z]]

Replaced(t, token) ==
  /\ todo' = [todo EXCEPT ![t] = Tail(@)]
  /\ meant' = [meant EXCEPT ![t] = @ \cup {<<token, Head(todo[t])>>}]
  /\ UNCHANGED <<session, message, pc, store, handle, last, fate>>

PutKnown(t) ==
  /\ pc[t] = "put" /\ todo[t] # <<>>
  /\ Head(todo[t]) \in DOMAIN Indexed(t)
  /\ Replaced(t, Indexed(t)[Head(todo[t])])
  /\ UNCHANGED <<records, index>>

Store(t, token) ==
  /\ records' = [records EXCEPT
       ![handle[t]][session[t]] = With(@, token, Head(todo[t]))]
  /\ index' = [index EXCEPT
       ![handle[t]][session[t]] = With(@, Head(todo[t]), token)]
  /\ Replaced(t, token)

\* Fault: the first draw is taken (no `while token in vault.records`).
PutNew_FirstDraw(t) ==
  /\ pc[t] = "put" /\ todo[t] # <<>>
  /\ Head(todo[t]) \notin DOMAIN Indexed(t)
  /\ \E token \in Tokens : Store(t, token)

\* Fault: a value that is in the vault already is stored once more.
PutNew_Always(t) ==
  /\ pc[t] = "put" /\ todo[t] # <<>>
  /\ \E token \in Tokens \ DOMAIN Known(t) : Store(t, token)

PutNew(t) ==
  /\ pc[t] = "put" /\ todo[t] # <<>>
  /\ Head(todo[t]) \notin DOMAIN Indexed(t)
  /\ \E token \in Tokens \ DOMAIN Known(t) : Store(t, token)

Tokenized(t) ==
  /\ pc[t] = "put" /\ todo[t] = <<>>
  /\ Goto(t, "loop")
  /\ UNCHANGED <<session, message, store, handle>> /\ UnchangedVaults

-----------------------------------------------------------------------------
\* Fault: the vault of whatever session knows the token.
Resolve_AnySession(t, token) ==
  LET knowing == {s \in Sessions : token \in DOMAIN records[handle[t]][s]} IN
  IF knowing = {} THEN NoValue
  ELSE records[handle[t]][CHOOSE s \in knowing : TRUE][token]

Resolve(t, token) ==
  IF token \in DOMAIN Known(t) THEN Known(t)[token] ELSE NoValue

\* rehydrate_mapping of a tool call: the model writes any token, one it was
\* shown or one it makes up.
Rehydrate(t) ==
  /\ pc[t] = "loop"
  /\ \E token \in Tokens :
       last' = [last EXCEPT ![t] = <<token, Resolve(t, token)>>]
  /\ UNCHANGED <<session, message, pc, store, handle, records, index, todo,
                 meant, fate>>

EndTurn(t) ==
  /\ pc[t] = "loop"
  /\ Goto(t, "done")
  /\ UNCHANGED <<session, message, store, handle>> /\ UnchangedVaults

\* ttl_seconds pass for the vault of session s in store d.
Expire(d, s) ==
  /\ records[d][s] # Empty
  /\ records' = [records EXCEPT ![d][s] = Empty]
  /\ index' = [index EXCEPT ![d][s] = Empty]
  /\ fate' = [u \in Turns |-> IF fate[u] # "none" /\ Vault(u) = <<d, s>>
                                THEN "expired" ELSE fate[u]]
  /\ UNCHANGED <<session, message, pc, store, handle, todo, meant, last>>

Turn(t) == \/ CheckStore(t) \/ BuildStore(t) \/ LoadStore(t)
           \/ CreateSession(t) \/ PutKnown(t) \/ PutNew(t) \/ Tokenized(t)
           \/ Rehydrate(t) \/ EndTurn(t)

Finished == (\A t \in Turns : pc[t] = "done") /\ UNCHANGED vars

Next == \/ \E t \in Turns : Turn(t)
        \/ \E d \in Turns, s \in Sessions : Expire(d, s)
        \/ Finished

Spec == Init /\ [][Next]_vars

-----------------------------------------------------------------------------
(* Properties *)

\* The two dictionaries of a vault stay inverse to each other: a value has one
\* token and a token one value, also when turns of one session fill the vault
\* together.
IndexMatchesRecords ==
  \A d \in Turns, s \in Sessions :
    /\ \A v \in DOMAIN index[d][s] :
         /\ index[d][s][v] \in DOMAIN records[d][s]
         /\ records[d][s][index[d][s][v]] = v
    /\ \A k \in DOMAIN records[d][s] :
         /\ records[d][s][k] \in DOMAIN index[d][s]
         /\ index[d][s][records[d][s][k]] = k

\* A turn whose vault was neither replaced by another turn of its session nor
\* expired gets back, for each token of its text, the value it stands for, and
\* no token of its text stands for two.
UndisturbedTokensResolve ==
  \A t \in Turns : fate[t] = "own" =>
    \A m \in meant[t] : Resolve(t, m[1]) = m[2]

\* Rehydration never leaves the session: what a token becomes was in a message
\* of a turn of the same session, also for a token the model makes up.
SessionsAreApart ==
  \A t \in Turns :
    last[t] # <<>> /\ last[t][2] # NoValue =>
      \E u \in Turns : /\ session[u] = session[t]
                       /\ \E i \in 1 .. Len(message[u]) :
                            message[u][i] = last[t][2]
=============================================================================
