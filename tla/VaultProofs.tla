----------------------------- MODULE VaultProofs -----------------------------
(***************************************************************************)
(* Proofs of Vault, for any number of turns, sessions, values and tokens.  *)
(*                                                                         *)
(* Inv adds to the properties that a turn has no tokens and no vault of    *)
(* its own before it has called create_session (Fresh), that a turn that   *)
(* is about to load the store finds one (Built), and that whatever is in a *)
(* vault, or still to be put there, was in a message of the vault's        *)
(* session (Local).                                                        *)
(***************************************************************************)
EXTENDS Vault, SequenceTheorems, TLAPS

Early == {"check", "build", "load", "create"}

Fresh ==
  \A t \in Turns : pc[t] \in Early => meant[t] = {} /\ fate[t] = "none"

Built == \A t \in Turns : pc[t] = "load" => store \in Turns

Said(s, v) == \E u \in Turns : /\ session[u] = s
                               /\ \E i \in 1 .. Len(message[u]) : message[u][i] = v

Local ==
  /\ \A d \in Turns, s \in Sessions :
       \A k \in DOMAIN records[d][s] : Said(s, records[d][s][k])
  /\ \A t \in Turns : \A i \in 1 .. Len(todo[t]) : Said(session[t], todo[t][i])

Inv == /\ TypeOK /\ Fresh /\ Built /\ Local
       /\ IndexMatchesRecords /\ UndisturbedTokensResolve /\ SessionsAreApart

VaultOf == PartialFunction(Tokens, Values)
IndexOf == PartialFunction(Values, Tokens)

-----------------------------------------------------------------------------
(* Partial functions and families of them *)

LEMMA PartialDef ==
  ASSUME NEW S, NEW T, NEW f
  PROVE  f \in PartialFunction(S, T) <=>
           /\ DOMAIN f \subseteq S
           /\ f \in [DOMAIN f -> T]
  BY DEF PartialFunction

LEMMA EmptyIsPartial ==
  ASSUME NEW S, NEW T
  PROVE  Empty \in PartialFunction(S, T) /\ DOMAIN Empty = {}
  BY PartialDef DEF Empty

\* Assigning to one vault of the family changes no other.
LEMMA OneVault ==
  ASSUME NEW D, NEW S, NEW R, NEW f \in [D -> [S -> R]], NEW d \in D, NEW s \in S,
         NEW e \in R
  PROVE  /\ [f EXCEPT ![d][s] = e] \in [D -> [S -> R]]
         /\ [f EXCEPT ![d][s] = e][d][s] = e
         /\ \A c \in D, r \in S : <<c, r>> # <<d, s>> =>
              [f EXCEPT ![d][s] = e][c][r] = f[c][r]
  OBVIOUS

-----------------------------------------------------------------------------
LEMMA InitInv == Init => Inv
  <1> SUFFICES ASSUME Init PROVE Inv
    OBVIOUS
  <1>1. TypeOK
    <2>1. records \in [Turns -> [Sessions -> PartialFunction(Tokens, Values)]]
      BY EmptyIsPartial DEF Init
    <2>2. index \in [Turns -> [Sessions -> PartialFunction(Values, Tokens)]]
      BY EmptyIsPartial DEF Init
    <2>3. todo \in [Turns -> Seq(Values)]
      BY MessagesAreValues DEF Init
    <2> QED
      BY <2>1, <2>2, <2>3 DEF Init, TypeOK
  <1>2. \A d \in Turns, s \in Sessions : /\ DOMAIN records[d][s] = {}
                                         /\ DOMAIN index[d][s] = {}
    BY DEF Init, Empty
  <1>3. Fresh /\ Built /\ UndisturbedTokensResolve /\ SessionsAreApart
    BY DEF Init, Fresh, Built, UndisturbedTokensResolve, SessionsAreApart
  <1>4. Local
    <2>1. ASSUME NEW t \in Turns, NEW i \in 1 .. Len(todo[t])
          PROVE  Said(session[t], todo[t][i])
      BY DEF Init, Said
    <2> QED
      BY <1>2, <2>1 DEF Local
  <1> QED
    BY <1>1, <1>2, <1>3, <1>4 DEF Inv, IndexMatchesRecords

\* What a turn reads and writes is typed once it has its store.
LEMMA VaultsAreTyped ==
  ASSUME TypeOK, NEW t \in Turns, handle[t] \in Turns
  PROVE  /\ session[t] \in Sessions
         /\ Known(t) \in VaultOf /\ Indexed(t) \in IndexOf
         /\ DOMAIN Known(t) \subseteq Tokens /\ DOMAIN Indexed(t) \subseteq Values
         /\ \A k \in DOMAIN Known(t) : Known(t)[k] \in Values
         /\ \A v \in DOMAIN Indexed(t) : Indexed(t)[v] \in Tokens
  <1>1. session[t] \in Sessions
    BY DEF TypeOK
  <1>2. Known(t) \in VaultOf /\ Indexed(t) \in IndexOf
    BY <1>1 DEF TypeOK, Known, Indexed, VaultOf, IndexOf
  <1>3. DOMAIN Known(t) \subseteq Tokens /\ Known(t) \in [DOMAIN Known(t) -> Values]
    BY <1>2, PartialDef DEF VaultOf
  <1>4. DOMAIN Indexed(t) \subseteq Values /\ Indexed(t) \in [DOMAIN Indexed(t) -> Tokens]
    BY <1>2, PartialDef DEF IndexOf
  <1> QED
    BY <1>1, <1>2, <1>3, <1>4

\* A turn that has a vault of its own, or had one, has a store.
LEMMA OwnersHaveStores ==
  ASSUME Inv, NEW t \in Turns, fate[t] # "none" \/ meant[t] # {}
  PROVE  handle[t] \in Turns
  BY DEF Inv, TypeOK, Fresh, Early

-----------------------------------------------------------------------------
\* Steps that leave the vaults alone.
LEMMA MoveKeepsInv ==
  ASSUME Inv, NEW t \in Turns,
         CheckStore(t) \/ BuildStore(t) \/ LoadStore(t) \/ Tokenized(t) \/ EndTurn(t)
  PROVE  Inv'
  <1>1. /\ UNCHANGED <<session, message, records, index, todo, meant, last, fate>>
        /\ \A u \in Turns : u # t => pc'[u] = pc[u] /\ handle'[u] = handle[u]
        /\ pc[t] \notin Early => handle' = handle /\ pc'[t] \notin Early
    BY DEF CheckStore, BuildStore, LoadStore, Tokenized, EndTurn, Goto,
           UnchangedVaults, Inv, TypeOK, Early
  <1>2. \A u \in Turns : pc'[u] = "load" => store' \in Turns
    <2>1. CASE BuildStore(t)
      BY <2>1 DEF BuildStore
    <2>2. CASE ~BuildStore(t)
      <3>1. store' = store
        BY <2>2 DEF CheckStore, LoadStore, Tokenized, EndTurn
      <3>2. CASE CheckStore(t)
        BY <1>1, <3>1, <3>2 DEF CheckStore, Goto, Inv, TypeOK, Built
      <3>3. CASE LoadStore(t) \/ Tokenized(t) \/ EndTurn(t)
        <4>1. pc'[t] # "load"
          <5>1. pc' = [pc EXCEPT ![t] = "create"] \/ pc' = [pc EXCEPT ![t] = "loop"]
                \/ pc' = [pc EXCEPT ![t] = "done"]
            BY <3>3 DEF LoadStore, Tokenized, EndTurn, Goto
          <5>2. t \in DOMAIN pc
            BY DEF Inv, TypeOK
          <5> QED
            BY <5>1, <5>2
        <4> QED
          BY <1>1, <3>1, <4>1 DEF Inv, Built
      <3> QED
        BY <2>2, <3>2, <3>3
    <2> QED
      BY <2>1, <2>2
  <1>3. /\ pc' \in [Turns -> {"check", "build", "load", "create", "put", "loop", "done"}]
        /\ store' \in Turns \cup {NoStore}
        /\ handle' \in [Turns -> Turns \cup {NoStore}]
    <2>1. pc' \in [Turns -> {"check", "build", "load", "create", "put", "loop", "done"}]
      BY DEF CheckStore, BuildStore, LoadStore, Tokenized, EndTurn, Goto, Inv, TypeOK
    <2>2. store' \in Turns \cup {NoStore}
      BY DEF CheckStore, BuildStore, LoadStore, Tokenized, EndTurn, Inv, TypeOK
    <2>3. handle' \in [Turns -> Turns \cup {NoStore}]
      BY DEF CheckStore, BuildStore, LoadStore, Tokenized, EndTurn, Inv, TypeOK
    <2> QED
      BY <2>1, <2>2, <2>3
  <1>4. pc'[t] \in {"create", "put", "loop", "done"} => handle'[t] \in Turns
    <2>1. CASE LoadStore(t)
      BY <2>1 DEF LoadStore, Inv, TypeOK, Built
    <2>2. CASE ~LoadStore(t)
      BY <2>2 DEF CheckStore, BuildStore, Tokenized, EndTurn, Goto, Inv, TypeOK
    <2> QED
      BY <2>1, <2>2
  <1>5. \A u \in Turns :
          pc'[u] \in {"create", "put", "loop", "done"} => handle'[u] \in Turns
    BY <1>1, <1>4 DEF Inv, TypeOK
  <1>6. TypeOK'
    BY <1>1, <1>3, <1>5 DEF Inv, TypeOK
  <1>7. Fresh'
    BY <1>1 DEF Inv, Fresh
  <1>8. Local' /\ IndexMatchesRecords' /\ SessionsAreApart'
    BY <1>1 DEF Inv, Local, Said, IndexMatchesRecords, SessionsAreApart
  <1>9. UndisturbedTokensResolve'
    <2> SUFFICES ASSUME NEW u \in Turns, fate[u] = "own", NEW m \in meant[u]
                 PROVE  Resolve(u, m[1])' = m[2]
      BY <1>1 DEF UndisturbedTokensResolve
    <2>1. handle'[u] = handle[u]
      BY <1>1 DEF Inv, Fresh
    <2>2. Resolve(u, m[1]) = m[2]
      BY DEF Inv, UndisturbedTokensResolve
    <2> QED
      BY <1>1, <2>1, <2>2 DEF Resolve, Known
  <1> QED
    BY <1>2, <1>6, <1>7, <1>8, <1>9 DEF Inv, Built

-----------------------------------------------------------------------------
\* One vault is replaced by an empty one; whoever still refers to it loses it.
LEMMA EmptiedKeepsInv ==
  ASSUME Inv, NEW d \in Turns, NEW s \in Sessions,
         records' = [records EXCEPT ![d][s] = Empty],
         index' = [index EXCEPT ![d][s] = Empty],
         UNCHANGED <<session, message, store, handle, todo, meant, last>>,
         fate' \in [Turns -> {"none", "own", "replaced", "expired"}],
         \A u \in Turns : fate'[u] = "own" =>
           meant[u] = {} \/ (fate[u] = "own" /\ Vault(u) # <<d, s>>)
  PROVE  Local' /\ IndexMatchesRecords' /\ UndisturbedTokensResolve' /\ SessionsAreApart'
         /\ records' \in [Turns -> [Sessions -> VaultOf]]
         /\ index' \in [Turns -> [Sessions -> IndexOf]]
  <1>1. /\ records \in [Turns -> [Sessions -> VaultOf]]
        /\ index \in [Turns -> [Sessions -> IndexOf]]
        /\ Empty \in VaultOf /\ Empty \in IndexOf
    BY EmptyIsPartial DEF Inv, TypeOK, VaultOf, IndexOf
  <1>2. /\ records' \in [Turns -> [Sessions -> VaultOf]]
        /\ records'[d][s] = Empty
        /\ \A c \in Turns, r \in Sessions : <<c, r>> # <<d, s>> =>
             records'[c][r] = records[c][r]
    BY <1>1, OneVault
  <1>3. /\ index' \in [Turns -> [Sessions -> IndexOf]]
        /\ index'[d][s] = Empty
        /\ \A c \in Turns, r \in Sessions : <<c, r>> # <<d, s>> =>
             index'[c][r] = index[c][r]
    BY <1>1, OneVault
  <1>4. DOMAIN Empty = {}
    BY DEF Empty
  <1>5. Local'
    <2>1. ASSUME NEW c \in Turns, NEW r \in Sessions, NEW k \in DOMAIN records'[c][r]
          PROVE  Said(r, records'[c][r][k])
      BY <1>2, <1>4, <2>1 DEF Inv, Local
    <2> QED
      BY <2>1 DEF Inv, Local, Said
  <1>6. IndexMatchesRecords'
    <2> SUFFICES ASSUME NEW c \in Turns, NEW r \in Sessions
        PROVE /\ \A v \in DOMAIN index'[c][r] :
                   /\ index'[c][r][v] \in DOMAIN records'[c][r]
                   /\ records'[c][r][index'[c][r][v]] = v
              /\ \A k \in DOMAIN records'[c][r] :
                   /\ records'[c][r][k] \in DOMAIN index'[c][r]
                   /\ index'[c][r][records'[c][r][k]] = k
      BY DEF IndexMatchesRecords
    <2>1. CASE <<c, r>> = <<d, s>>
      BY <1>2, <1>3, <1>4, <2>1
    <2>2. CASE <<c, r>> # <<d, s>>
      BY <1>2, <1>3, <2>2 DEF Inv, IndexMatchesRecords
    <2> QED
      BY <2>1, <2>2
  <1>7. UndisturbedTokensResolve'
    <2> SUFFICES ASSUME NEW u \in Turns, fate'[u] = "own", NEW m \in meant[u]
                 PROVE  Resolve(u, m[1])' = m[2]
      BY DEF UndisturbedTokensResolve
    <2>1. fate[u] = "own" /\ Vault(u) # <<d, s>>
      OBVIOUS
    <2>2. handle[u] \in Turns /\ session[u] \in Sessions
      BY <2>1, OwnersHaveStores DEF Inv, TypeOK
    <2>3. records'[handle[u]][session[u]] = records[handle[u]][session[u]]
      BY <1>2, <2>1, <2>2 DEF Vault
    <2>4. Resolve(u, m[1]) = m[2]
      BY <2>1 DEF Inv, UndisturbedTokensResolve
    <2> QED
      BY <2>3, <2>4 DEF Resolve, Known
  <1>8. SessionsAreApart'
    BY DEF Inv, SessionsAreApart
  <1> QED
    BY <1>2, <1>3, <1>5, <1>6, <1>7, <1>8

LEMMA CreateKeepsInv ==
  ASSUME Inv, NEW t \in Turns, CreateSession(t)
  PROVE  Inv'
  <1>1. /\ handle[t] \in Turns /\ session[t] \in Sessions
        /\ meant[t] = {} /\ pc[t] = "create"
    BY DEF CreateSession, Inv, TypeOK, Fresh, Early
  <1>2. /\ fate' \in [Turns -> {"none", "own", "replaced", "expired"}]
        /\ \A u \in Turns : /\ fate'[u] = "own" =>
                                u = t \/ (fate[u] = "own" /\ Vault(u) # Vault(t))
                            /\ u # t /\ fate[u] = "none" => fate'[u] = "none"
    <2>1. fate' = [u \in Turns |-> IF u = t THEN "own"
                                   ELSE IF fate[u] = "own" /\ Vault(u) = Vault(t)
                                     THEN "replaced" ELSE fate[u]]
      BY DEF CreateSession
    <2>2. fate \in [Turns -> {"none", "own", "replaced", "expired"}]
      BY DEF Inv, TypeOK
    <2> QED
      BY <2>1, <2>2
  <1>3. \A u \in Turns : fate'[u] = "own" =>
          meant[u] = {} \/ (fate[u] = "own" /\ Vault(u) # <<handle[t], session[t]>>)
    <2>1. Vault(t) = <<handle[t], session[t]>>
      BY DEF Vault
    <2> QED
      BY <1>1, <1>2, <2>1
  <1>4. /\ Local' /\ IndexMatchesRecords' /\ UndisturbedTokensResolve' /\ SessionsAreApart'
        /\ records' \in [Turns -> [Sessions -> VaultOf]]
        /\ index' \in [Turns -> [Sessions -> IndexOf]]
    <2>1. /\ records' = [records EXCEPT ![handle[t]][session[t]] = Empty]
          /\ index' = [index EXCEPT ![handle[t]][session[t]] = Empty]
          /\ UNCHANGED <<session, message, store, handle, todo, meant, last>>
      BY DEF CreateSession
    <2> QED
      BY <1>1, <1>2, <1>3, <2>1, EmptiedKeepsInv
  <1>5. /\ pc' \in [Turns -> {"check", "build", "load", "create", "put", "loop", "done"}]
        /\ pc'[t] = "put" /\ \A u \in Turns : u # t => pc'[u] = pc[u]
        /\ UNCHANGED <<session, message, store, handle, todo, meant, last>>
    BY DEF CreateSession, Goto, Inv, TypeOK
  <1>6. TypeOK'
    BY <1>1, <1>2, <1>4, <1>5 DEF Inv, TypeOK, VaultOf, IndexOf
  <1>7. Fresh' /\ Built'
    BY <1>2, <1>5 DEF Inv, Fresh, Built, Early
  <1> QED
    BY <1>4, <1>6, <1>7 DEF Inv

LEMMA ExpireKeepsInv ==
  ASSUME Inv, NEW d \in Turns, NEW s \in Sessions, Expire(d, s)
  PROVE  Inv'
  <1>1. /\ fate' \in [Turns -> {"none", "own", "replaced", "expired"}]
        /\ \A u \in Turns : /\ fate'[u] = "own" => fate[u] = "own" /\ Vault(u) # <<d, s>>
                            /\ fate[u] = "none" => fate'[u] = "none"
    BY DEF Expire, Inv, TypeOK
  <1>2. UNCHANGED <<session, message, pc, store, handle, todo, meant, last>>
    BY DEF Expire
  <1>3. /\ Local' /\ IndexMatchesRecords' /\ UndisturbedTokensResolve' /\ SessionsAreApart'
        /\ records' \in [Turns -> [Sessions -> VaultOf]]
        /\ index' \in [Turns -> [Sessions -> IndexOf]]
    BY <1>1, EmptiedKeepsInv DEF Expire
  <1>4. TypeOK'
    BY <1>1, <1>2, <1>3 DEF Inv, TypeOK, VaultOf, IndexOf
  <1>5. Fresh' /\ Built'
    BY <1>1, <1>2 DEF Inv, Fresh, Built
  <1> QED
    BY <1>3, <1>4, <1>5 DEF Inv

\* Rehydration only reads: what a token becomes is in the vault of the session.
LEMMA RehydrateKeepsInv ==
  ASSUME Inv, NEW t \in Turns, Rehydrate(t)
  PROVE  Inv'
  <1>1. PICK token \in Tokens : last' = [last EXCEPT ![t] = <<token, Resolve(t, token)>>]
    BY DEF Rehydrate
  <1>2. /\ UNCHANGED <<session, message, pc, store, handle, records, index, todo,
                       meant, fate>>
        /\ handle[t] \in Turns
    BY DEF Rehydrate, Inv, TypeOK
  <1>3. Resolve(t, token) \in Values \cup {NoValue}
    BY <1>2, VaultsAreTyped DEF Inv, Resolve
  <1>4. Resolve(t, token) # NoValue => Said(session[t], Resolve(t, token))
    <2> SUFFICES ASSUME Resolve(t, token) # NoValue
                 PROVE  Said(session[t], Resolve(t, token))
      OBVIOUS
    <2>1. token \in DOMAIN Known(t) /\ Resolve(t, token) = Known(t)[token]
      BY DEF Resolve
    <2> QED
      BY <1>2, <2>1 DEF Inv, Local, Known, TypeOK
  <1>5. TypeOK'
    BY <1>1, <1>2, <1>3 DEF Inv, TypeOK
  <1>6. SessionsAreApart'
    <2> SUFFICES ASSUME NEW u \in Turns, last'[u] # <<>>, last'[u][2] # NoValue
                 PROVE  Said(session[u], last'[u][2])
      BY <1>2 DEF SessionsAreApart, Said
    <2>1. CASE u = t
      <3>1. last'[u] = <<token, Resolve(t, token)>>
        BY <1>1, <2>1 DEF Inv, TypeOK
      <3> QED
        BY <1>4, <2>1, <3>1
    <2>2. CASE u # t
      <3>1. last'[u] = last[u]
        BY <1>1, <2>2 DEF Inv, TypeOK
      <3> QED
        BY <3>1 DEF Inv, SessionsAreApart, Said
    <2> QED
      BY <2>1, <2>2
  <1>7. Fresh' /\ Built' /\ Local' /\ IndexMatchesRecords'
    BY <1>2 DEF Inv, Fresh, Built, Local, Said, IndexMatchesRecords
  <1>8. UndisturbedTokensResolve'
    BY <1>2 DEF Inv, UndisturbedTokensResolve, Resolve, Known
  <1> QED
    BY <1>5, <1>6, <1>7, <1>8 DEF Inv

-----------------------------------------------------------------------------
(* put *)

\* The token goes into the text of t, and the vault answers with its value.
LEMMA ReplacedKeepsInv ==
  ASSUME Inv, NEW t \in Turns, NEW token \in Tokens, pc[t] = "put", todo[t] # <<>>,
         Replaced(t, token),
         records' \in [Turns -> [Sessions -> VaultOf]],
         index' \in [Turns -> [Sessions -> IndexOf]],
         IndexMatchesRecords',
         \A d \in Turns, s \in Sessions : \A k \in DOMAIN records'[d][s] :
           Said(s, records'[d][s][k]),
         token \in DOMAIN Known(t)' /\ Known(t)'[token] = Head(todo[t]),
         \A u \in Turns : fate[u] = "own" => \A k \in DOMAIN Known(u) :
           k \in DOMAIN Known(u)' /\ Known(u)'[k] = Known(u)[k]
  PROVE  Inv'
  <1>1. /\ todo[t] \in Seq(Values) /\ Head(todo[t]) \in Values
        /\ Tail(todo[t]) \in Seq(Values)
        /\ Len(todo[t]) \in Nat \ {0} /\ Len(Tail(todo[t])) = Len(todo[t]) - 1
        /\ \A i \in 1 .. Len(Tail(todo[t])) : Tail(todo[t])[i] = todo[t][i + 1]
    BY DEF Inv, TypeOK
  <1>2. /\ todo'[t] = Tail(todo[t])
        /\ meant'[t] = meant[t] \cup {<<token, Head(todo[t])>>}
        /\ \A u \in Turns : u # t => todo'[u] = todo[u] /\ meant'[u] = meant[u]
        /\ todo' \in [Turns -> Seq(Values)]
        /\ meant' \in [Turns -> SUBSET (Tokens \X Values)]
        /\ UNCHANGED <<session, message, pc, store, handle, last, fate>>
    BY <1>1 DEF Replaced, Inv, TypeOK
  <1>3. TypeOK'
    BY <1>2 DEF Inv, TypeOK, VaultOf, IndexOf
  <1>4. Fresh' /\ Built' /\ SessionsAreApart'
    <2>1. Fresh'
      BY <1>2 DEF Inv, Fresh, Early
    <2>2. Built'
      BY <1>2 DEF Inv, Built
    <2>3. SessionsAreApart'
      BY <1>2 DEF Inv, SessionsAreApart
    <2> QED
      BY <2>1, <2>2, <2>3
  <1>5. Local'
    <2>1. ASSUME NEW i \in 1 .. Len(Tail(todo[t]))
          PROVE  Said(session[t], Tail(todo[t])[i])
      <3>1. i + 1 \in 1 .. Len(todo[t])
        BY <1>1
      <3> QED
        BY <1>1, <3>1 DEF Inv, Local
    <2>2. \A u \in Turns : \A i \in 1 .. Len(todo'[u]) : Said(session[u], todo'[u][i])
      BY <1>2, <2>1 DEF Inv, Local
    <2>3. \A s, v : Said(s, v)' <=> Said(s, v)
      BY <1>2 DEF Said
    <2> QED
      BY <1>2, <2>2, <2>3 DEF Local
  <1>6. UndisturbedTokensResolve'
    <2> SUFFICES ASSUME NEW u \in Turns, fate[u] = "own", NEW m \in meant'[u]
                 PROVE  m[1] \in DOMAIN Known(u)' /\ Known(u)'[m[1]] = m[2]
      BY <1>2 DEF UndisturbedTokensResolve, Resolve
    <2>1. CASE m \in meant[u]
      <3>1. Resolve(u, m[1]) = m[2] /\ m[2] \in Values
        BY <2>1 DEF Inv, UndisturbedTokensResolve, TypeOK
      <3>2. m[1] \in DOMAIN Known(u) /\ Known(u)[m[1]] = m[2]
        BY <3>1, NoValueIsNoValue DEF Resolve
      <3> QED
        BY <3>2
    <2>2. CASE m \notin meant[u]
      <3>1. u = t /\ m = <<token, Head(todo[t])>>
        BY <1>2, <2>2
      <3> QED
        BY <3>1
    <2> QED
      BY <2>1, <2>2
  <1> QED
    BY <1>3, <1>4, <1>5, <1>6 DEF Inv

LEMMA PutKnownKeepsInv ==
  ASSUME Inv, NEW t \in Turns, PutKnown(t)
  PROVE  Inv'
  <1> DEFINE value == Head(todo[t])
             token == Indexed(t)[value]
  <1>1. /\ pc[t] = "put" /\ todo[t] # <<>> /\ value \in DOMAIN Indexed(t)
        /\ Replaced(t, token) /\ UNCHANGED <<records, index, handle, session>>
    BY DEF PutKnown, Replaced
  <1>2. handle[t] \in Turns /\ session[t] \in Sessions
    BY <1>1 DEF Inv, TypeOK
  <1>3. token \in Tokens
    BY <1>1, <1>2, VaultsAreTyped DEF Inv
  <1>4. token \in DOMAIN Known(t) /\ Known(t)[token] = value
    <2>1. \A v \in DOMAIN Indexed(t) : /\ Indexed(t)[v] \in DOMAIN Known(t)
                                       /\ Known(t)[Indexed(t)[v]] = v
      BY <1>2 DEF Inv, IndexMatchesRecords, Known, Indexed
    <2> QED
      BY <1>1, <2>1
  <1>5. /\ records' \in [Turns -> [Sessions -> VaultOf]]
        /\ index' \in [Turns -> [Sessions -> IndexOf]]
        /\ IndexMatchesRecords'
        /\ \A d \in Turns, s \in Sessions : \A k \in DOMAIN records'[d][s] :
             Said(s, records'[d][s][k])
    BY <1>1 DEF Inv, TypeOK, VaultOf, IndexOf, IndexMatchesRecords, Local
  <1>6. \A u \in Turns : Known(u)' = Known(u)
    BY <1>1 DEF Known
  <1> HIDE DEF token
  <1> QED
    BY <1>1, <1>3, <1>4, <1>5, <1>6, ReplacedKeepsInv
LEMMA PutNewKeepsInv ==
  ASSUME Inv, NEW t \in Turns, PutNew(t)
  PROVE  Inv'
  <1> DEFINE value == Head(todo[t])
             h == handle[t]
             z == session[t]
  <1>1. PICK token \in Tokens : /\ token \notin DOMAIN Known(t)
                                /\ Store(t, token)
    BY DEF PutNew
  <1>2. /\ pc[t] = "put" /\ todo[t] # <<>> /\ value \notin DOMAIN Indexed(t)
        /\ Replaced(t, token) /\ UNCHANGED <<handle, session, message, fate>>
    BY <1>1 DEF PutNew, Store, Replaced
  <1>3. /\ h \in Turns /\ z \in Sessions /\ value \in Values
    BY <1>2 DEF Inv, TypeOK
  <1>4. /\ Known(t) = records[h][z] /\ Indexed(t) = index[h][z]
    BY DEF Known, Indexed
  <1>5. /\ records' = [records EXCEPT ![h][z] = With(Known(t), token, value)]
        /\ index' = [index EXCEPT ![h][z] = With(Indexed(t), value, token)]
    BY <1>1, <1>3, <1>4 DEF Store, Inv, TypeOK
  <1>6. Said(z, value)
    <2>1. 1 \in 1 .. Len(todo[t]) /\ value = todo[t][1]
      BY <1>2 DEF Inv, TypeOK
    <2> QED
      BY <2>1 DEF Inv, Local
  <1> HIDE DEF value, h, z
  <1>7. /\ Known(t) \in PartialFunction(Tokens, Values)
        /\ Indexed(t) \in PartialFunction(Values, Tokens)
    BY <1>3, VaultsAreTyped DEF Inv, VaultOf, IndexOf, h
  <1>8. /\ With(Known(t), token, value) \in VaultOf
        /\ DOMAIN With(Known(t), token, value) = DOMAIN Known(t) \cup {token}
        /\ With(Known(t), token, value)[token] = value
        /\ \A k \in DOMAIN Known(t) : With(Known(t), token, value)[k] = Known(t)[k]
    <2>1. PICK f \in PartialFunction(Tokens, Values), v \in Values :
            f = Known(t) /\ v = value
      BY <1>3, <1>7
    <2>2. /\ With(f, token, v) \in PartialFunction(Tokens, Values)
          /\ DOMAIN With(f, token, v) = DOMAIN f \cup {token}
          /\ With(f, token, v)[token] = v
          /\ \A k \in DOMAIN f : k # token => With(f, token, v)[k] = f[k]
      BY PartialDef DEF With
    <2>3. \A k \in DOMAIN f : k # token
      BY <1>1, <2>1
    <2> QED
      BY <2>1, <2>2, <2>3 DEF VaultOf
  <1>9. /\ With(Indexed(t), value, token) \in IndexOf
        /\ DOMAIN With(Indexed(t), value, token) = DOMAIN Indexed(t) \cup {value}
        /\ With(Indexed(t), value, token)[value] = token
        /\ \A v \in DOMAIN Indexed(t) : With(Indexed(t), value, token)[v] = Indexed(t)[v]
    <2>1. PICK f \in PartialFunction(Values, Tokens), v \in Values :
            f = Indexed(t) /\ v = value
      BY <1>3, <1>7
    <2>2. /\ With(f, v, token) \in PartialFunction(Values, Tokens)
          /\ DOMAIN With(f, v, token) = DOMAIN f \cup {v}
          /\ With(f, v, token)[v] = token
          /\ \A u \in DOMAIN f : u # v => With(f, v, token)[u] = f[u]
      BY PartialDef DEF With
    <2>3. \A u \in DOMAIN f : u # v
      BY <1>2, <2>1 DEF value
    <2> QED
      BY <2>1, <2>2, <2>3 DEF IndexOf
  <1>10. /\ records \in [Turns -> [Sessions -> VaultOf]]
         /\ index \in [Turns -> [Sessions -> IndexOf]]
    BY DEF Inv, TypeOK, VaultOf, IndexOf
  <1>11. /\ records' \in [Turns -> [Sessions -> VaultOf]]
         /\ records'[h][z] = With(Known(t), token, value)
         /\ \A d \in Turns, s \in Sessions : <<d, s>> # <<h, z>> =>
              records'[d][s] = records[d][s]
    BY <1>3, <1>5, <1>8, <1>10, OneVault
  <1>12. /\ index' \in [Turns -> [Sessions -> IndexOf]]
         /\ index'[h][z] = With(Indexed(t), value, token)
         /\ \A d \in Turns, s \in Sessions : <<d, s>> # <<h, z>> =>
              index'[d][s] = index[d][s]
    BY <1>3, <1>5, <1>9, <1>10, OneVault
  <1>13. /\ \A v \in DOMAIN Indexed(t) : /\ Indexed(t)[v] \in DOMAIN Known(t)
                                         /\ Known(t)[Indexed(t)[v]] = v
         /\ \A k \in DOMAIN Known(t) : /\ Known(t)[k] \in DOMAIN Indexed(t)
                                       /\ Indexed(t)[Known(t)[k]] = k
    BY <1>3, <1>4 DEF Inv, IndexMatchesRecords
  <1>14. IndexMatchesRecords'
    <2> SUFFICES ASSUME NEW d \in Turns, NEW s \in Sessions
        PROVE /\ \A v \in DOMAIN index'[d][s] :
                   /\ index'[d][s][v] \in DOMAIN records'[d][s]
                   /\ records'[d][s][index'[d][s][v]] = v
              /\ \A k \in DOMAIN records'[d][s] :
                   /\ records'[d][s][k] \in DOMAIN index'[d][s]
                   /\ index'[d][s][records'[d][s][k]] = k
      BY DEF IndexMatchesRecords
    <2>1. CASE <<d, s>> = <<h, z>>
      <3>1. d = h /\ s = z
        BY <2>1
      <3>2. /\ DOMAIN records'[d][s] = DOMAIN Known(t) \cup {token}
            /\ records'[d][s][token] = value
            /\ \A k \in DOMAIN Known(t) : records'[d][s][k] = Known(t)[k]
        BY <1>8, <1>11, <3>1
      <3>3. /\ DOMAIN index'[d][s] = DOMAIN Indexed(t) \cup {value}
            /\ index'[d][s][value] = token
            /\ \A v \in DOMAIN Indexed(t) : index'[d][s][v] = Indexed(t)[v]
        BY <1>9, <1>12, <3>1
      <3> QED
        BY <1>13, <3>2, <3>3
    <2>2. CASE <<d, s>> # <<h, z>>
      BY <1>11, <1>12, <2>2 DEF Inv, IndexMatchesRecords
    <2> QED
      BY <2>1, <2>2
  <1>15. ASSUME NEW d \in Turns, NEW s \in Sessions, NEW k \in DOMAIN records'[d][s]
         PROVE  Said(s, records'[d][s][k])
    <2>1. CASE <<d, s>> = <<h, z>>
      <3>1. \A j \in DOMAIN Known(t) : Said(z, Known(t)[j])
        BY <1>3, <1>4 DEF Inv, Local
      <3> QED
        BY <1>6, <1>8, <1>11, <2>1, <3>1
    <2>2. CASE <<d, s>> # <<h, z>>
      BY <1>11, <2>2 DEF Inv, Local
    <2> QED
      BY <2>1, <2>2
  <1>16. Known(t)' = With(Known(t), token, value)
    BY <1>2, <1>11 DEF Known, h, z
  <1>17. ASSUME NEW u \in Turns, fate[u] = "own", NEW k \in DOMAIN Known(u)
         PROVE  k \in DOMAIN Known(u)' /\ Known(u)'[k] = Known(u)[k]
    <2>1. handle[u] \in Turns /\ session[u] \in Sessions
      BY <1>17, OwnersHaveStores DEF Inv, TypeOK
    <2>2. CASE <<handle[u], session[u]>> = <<h, z>>
      <3>1. Known(u) = Known(t) /\ Known(u)' = Known(t)'
        BY <1>2, <2>2 DEF Known, h, z
      <3> QED
        BY <1>8, <1>16, <3>1
    <2>3. CASE <<handle[u], session[u]>> # <<h, z>>
      BY <1>2, <1>11, <2>1, <2>3 DEF Known
    <2> QED
      BY <2>2, <2>3
  <1>18. token \in DOMAIN Known(t)' /\ Known(t)'[token] = Head(todo[t])
    BY <1>8, <1>16 DEF value
  <1> QED
    BY <1>1, <1>2, <1>11, <1>12, <1>14, <1>15, <1>17, <1>18, ReplacedKeepsInv

-----------------------------------------------------------------------------
LEMMA NextKeepsInv == Inv /\ [Next]_vars => Inv'
  <1> SUFFICES ASSUME Inv, [Next]_vars PROVE Inv'
    OBVIOUS
  <1>1. CASE UNCHANGED vars
    <2>1. /\ TypeOK' /\ Fresh' /\ Built' /\ IndexMatchesRecords' /\ SessionsAreApart'
      BY <1>1 DEF vars, Inv, TypeOK, Fresh, Built, IndexMatchesRecords, SessionsAreApart
    <2>2. Local' /\ UndisturbedTokensResolve'
      BY <1>1 DEF vars, Inv, Local, Said, UndisturbedTokensResolve, Resolve, Known
    <2> QED
      BY <2>1, <2>2 DEF Inv
  <1>2. ASSUME NEW t \in Turns, Turn(t) PROVE Inv'
    BY <1>2, MoveKeepsInv, CreateKeepsInv, PutKnownKeepsInv, PutNewKeepsInv,
       RehydrateKeepsInv DEF Turn
  <1>3. ASSUME NEW d \in Turns, NEW s \in Sessions, Expire(d, s) PROVE Inv'
    BY <1>3, ExpireKeepsInv
  <1> QED
    BY <1>1, <1>2, <1>3 DEF Next, Finished

LEMMA Invariance == Spec => []Inv
  BY InitInv, NextKeepsInv, PTL DEF Spec

\* The state keeps its types: a turn reads no vault before it has a store.
THEOREM TypeCorrect == Spec => []TypeOK
  <1>1. Inv => TypeOK
    BY DEF Inv
  <1> QED
    BY <1>1, Invariance, PTL

\* The two dictionaries of every vault are inverse to each other, however many
\* turns of its session fill it together.
THEOREM VaultsAreOneToOne == Spec => []IndexMatchesRecords
  <1>1. Inv => IndexMatchesRecords
    BY DEF Inv
  <1> QED
    BY <1>1, Invariance, PTL

\* A turn whose vault was neither replaced nor expired gets back what its
\* tokens stand for.
THEOREM TokensResolve == Spec => []UndisturbedTokensResolve
  <1>1. Inv => UndisturbedTokensResolve
    BY DEF Inv
  <1> QED
    BY <1>1, Invariance, PTL

\* What a token becomes was said in a message of the same session.
THEOREM SessionsStayApart == Spec => []SessionsAreApart
  <1>1. Inv => SessionsAreApart
    BY DEF Inv
  <1> QED
    BY <1>1, Invariance, PTL
=============================================================================
