-------------------------- MODULE CustomersProofs --------------------------
(***************************************************************************)
(* Proofs of Customers, for any requests, customers and addresses of the   *)
(* start, names and calls that the named assumptions admit: types, and the *)
(* refinement of Directory.                                                *)
(*                                                                         *)
(* Inv adds to the types what each statement relies on: a customer has its *)
(* login and no two of them the same (Paired, NamesDiffer), a request that *)
(* has still to insert has not done so (InsertsOnce), and the customer a   *)
(* request has loaded is still there (Prepared): no statement deletes one. *)
(***************************************************************************)
EXTENDS Customers, TLAPS

Paired == \A c \in Ids : customer[c] = NULL <=> auth[c] = NULL

NamesDiffer ==
  \A c \in Ids : \A d \in Ids \ {c} :
    auth[c] # NULL /\ auth[d] # NULL => auth[c].username # auth[d].username

InsertsOnce == \A r \in Requests : customer[r] # NULL => pc[r] \in Answers

Checking == {"email", "phone", "username"}

\* The customer that r works on has been found.
Found(r) == copy[r].who \in Ids /\ customer[copy[r].who] # NULL

Prepared(r) ==
  /\ pc[r] \in {"load", "auth", "write"} => call[r].kind = "update"
  /\ pc[r] \in {"email", "phone"} => call[r].kind \in {"create", "update"}
  /\ pc[r] = "username" => call[r].kind \in {"register", "create", "update"}
  /\ pc[r] = "insert" => call[r].kind \in {"register", "create"}
  /\ pc[r] = "find" => call[r].kind = "bootstrap"
  /\ pc[r] \in {"locate", "child", "drop"} => call[r].kind = "drop"
  /\ pc[r] \in Checking \cup {"auth", "write"} /\ call[r].kind = "update" =>
       Found(r) /\ copy[r].row \in CustomerRow
  /\ pc[r] \in {"username", "write"} /\ Renames(r) => copy[r].auth \in AuthRow
  /\ pc[r] \in {"count", "admit"} => Found(r) /\ copy[r].auth \in AuthRow
  /\ pc[r] = "issue" => Found(r)
  /\ pc[r] = "drop" => copy[r].who = NULL \/ Found(r)

Inv == /\ TypeOK
       /\ Paired /\ NamesDiffer /\ InsertsOnce
       /\ \A r \in Requests : Prepared(r)

-----------------------------------------------------------------------------
(* What the values of an instance are *)

LEMMA IdsAreNotNull ==
  /\ NULL \notin Ids /\ NULL \notin CustomerRow /\ NULL \notin AuthRow
  /\ NULL \notin Names /\ Unset \notin Names
  /\ NULL \notin AddressIds /\ Unset \notin AddressIds /\ Unset # NULL
  /\ Requests \subseteq Ids
  BY NullsAreNotNames DEF Ids

LEMMA CallFields ==
  ASSUME NEW c \in Calls
  PROVE  /\ c.kind \in {"register", "create", "update", "login", "bootstrap",
                        "place", "drop"}
         /\ c.customer \in Ids \cup {NULL}
         /\ c.username \in Names \cup {Unset, NULL}
         /\ c.email \in Names \cup {Unset, NULL}
         /\ c.phone \in Names \cup {Unset, NULL}
         /\ c.ident \in Names \cup {Unset}
         /\ c.address \in AddressIds \cup {Unset, NULL}
         /\ c.password \in Ids \cup {NULL} /\ c.region \in BOOLEAN
  BY CallsTyped DEF Call

LEMMA NothingIsACopy == NothingRead \in Copy
  BY DEF NothingRead, Copy

LEMMA InitInv == Init => Inv
  <1> SUFFICES ASSUME Init PROVE Inv
    OBVIOUS
  <1>1. \A r \in Requests : call[r] \in Calls
    BY DEF Init
  <1>2. \A r \in Requests : FirstStep[call[r].kind] \in Steps
    <2>1. /\ FirstStep["register"] \in Steps /\ FirstStep["create"] \in Steps
          /\ FirstStep["update"] \in Steps /\ FirstStep["login"] \in Steps
          /\ FirstStep["bootstrap"] \in Steps /\ FirstStep["place"] \in Steps
          /\ FirstStep["drop"] \in Steps
      BY DEF FirstStep, Steps
    <2> QED
      BY <1>1, <2>1, CallFields
  <1>3. TypeOK
    <2>1. addresses \subseteq AddressIds
      BY DEF Init, AddressIds
    <2>2. heard \in [Ids -> Heard]
      <3>1. \A c \in Ids : InitialAuth[c] # NULL => InitialAuth[c].failed \in Nat
        BY StartTyped DEF AuthRow
      <3>2. \A n \in Nat : [ever |-> n, since |-> n, mixed |-> FALSE] \in Heard
        BY DEF Heard
      <3> QED
        BY <3>1, <3>2 DEF Init
    <2>3. sessions \in [Requests -> Ids \cup {NULL}] /\ copy \in [Requests -> Copy]
      BY NothingIsACopy DEF Init
    <2>4. pc \in [Requests -> Steps \cup Answers]
      BY <1>2 DEF Init
    <2> QED
      BY <2>1, <2>2, <2>3, <2>4, StartTyped DEF Init, TypeOK
  <1>4. Paired /\ InsertsOnce
    BY StartTyped DEF Init, Paired, InsertsOnce
  <1>5. NamesDiffer
    BY NamesDifferAtFirst DEF Init, NamesDiffer
  <1>6. ASSUME NEW r \in Requests PROVE Prepared(r)
    <2>1. /\ call[r].kind \in {"register", "create", "update", "login", "bootstrap",
                               "place", "drop"}
          /\ pc[r] = FirstStep[call[r].kind]
      BY <1>1, CallFields DEF Init
    <2> QED
      BY <2>1 DEF Prepared, FirstStep, Checking, Renames
  <1> QED
    BY <1>3, <1>4, <1>5, <1>6 DEF Inv

-----------------------------------------------------------------------------
(* One request moves *)

\* The others are prepared as they were, and so is the one that moves, if it
\* is prepared for its next statement and no customer has been deleted.
LEMMA OneMoves ==
  ASSUME Inv, NEW r \in Requests, pc[r] \notin Answers,
         NEW step \in Steps \cup Answers, NEW seen \in Copy,
         Goto(r, step), copy' = [copy EXCEPT ![r] = seen],
         \A c \in Ids : customer[c] # NULL => customer'[c] # NULL,
         \A q \in Requests : customer'[q] # NULL =>
           customer[q] # NULL \/ (q = r /\ step \in Answers),
         Prepared(r)'
  PROVE  /\ InsertsOnce' /\ \A q \in Requests : Prepared(q)'
         /\ pc' \in [Requests -> Steps \cup Answers]
         /\ copy' \in [Requests -> Copy] /\ call' \in [Requests -> Calls]
  <1>1. /\ pc' = [pc EXCEPT ![r] = step] /\ call' = call
        /\ pc \in [Requests -> Steps \cup Answers] /\ copy \in [Requests -> Copy]
        /\ call \in [Requests -> Calls]
    BY DEF Goto, Inv, TypeOK
  <1>2. ASSUME NEW q \in Requests PROVE Prepared(q)'
    <2>1. CASE q = r
      BY <2>1
    <2>2. CASE q # r
      <3>1. pc'[q] = pc[q] /\ copy'[q] = copy[q] /\ call'[q] = call[q]
        BY <1>1, <2>2
      <3>2. Prepared(q)
        BY DEF Inv
      <3>3. Found(q) => Found(q)'
        BY <3>1 DEF Found
      <3>4. Renames(q)' = Renames(q)
        BY <3>1 DEF Renames
      <3> QED
        BY <3>1, <3>2, <3>3, <3>4 DEF Prepared
    <2> QED
      BY <2>1, <2>2
  <1>3. InsertsOnce'
    <2> SUFFICES ASSUME NEW q \in Requests, customer'[q] # NULL
                 PROVE  pc'[q] \in Answers
      BY DEF InsertsOnce
    <2>1. CASE customer[q] # NULL
      <3>1. pc[q] \in Answers /\ q # r
        BY <2>1 DEF Inv, InsertsOnce
      <3> QED
        BY <1>1, <3>1
    <2>2. CASE q = r /\ step \in Answers
      BY <1>1, <2>2
    <2> QED
      BY <2>1, <2>2
  <1> QED
    BY <1>1, <1>2, <1>3

\* A statement that changes no row of customers and no username.
LEMMA ReadersKeepInv ==
  ASSUME Inv, NEW r \in Requests, pc[r] \notin Answers,
         NEW step \in Steps \cup Answers, NEW seen \in Copy,
         Goto(r, step), copy' = [copy EXCEPT ![r] = seen],
         UNCHANGED <<customer, auth>>,
         addresses' \subseteq AddressIds,
         sessions' \in [Requests -> Ids \cup {NULL}], heard' \in [Ids -> Heard],
         Prepared(r)'
  PROVE  Inv'
  <1>1. TypeOK /\ Paired' /\ NamesDiffer'
    BY DEF Inv, Paired, NamesDiffer
  <1>2. /\ InsertsOnce' /\ \A q \in Requests : Prepared(q)'
        /\ pc' \in [Requests -> Steps \cup Answers]
        /\ copy' \in [Requests -> Copy] /\ call' \in [Requests -> Calls]
    BY OneMoves
  <1>3. TypeOK'
    BY <1>1, <1>2 DEF TypeOK
  <1> QED
    BY <1>1, <1>2, <1>3 DEF Inv

\* A request that has its answer has nothing left to be prepared for.
LEMMA Answered ==
  ASSUME TypeOK, NEW r \in Requests, NEW answer \in Answers, Goto(r, answer)
  PROVE  Prepared(r)'
  <1>1. pc'[r] = answer
    BY DEF Goto, TypeOK
  <1> QED
    BY <1>1 DEF Prepared, Answers, Checking

LEMMA FinishKeepsInv ==
  ASSUME Inv, NEW r \in Requests, pc[r] \notin Answers, NEW answer \in Answers,
         Finish(r, answer), UNCHANGED <<tables, heard>>
  PROVE  Inv'
  <1>1. TypeOK /\ Prepared(r)'
    BY Answered DEF Inv, Finish
  <1>2. /\ addresses' \subseteq AddressIds
        /\ sessions' \in [Requests -> Ids \cup {NULL}] /\ heard' \in [Ids -> Heard]
    BY <1>1 DEF TypeOK, tables
  <1> QED
    BY <1>1, <1>2, ReadersKeepInv, NothingIsACopy DEF Finish, tables

LEMMA RefuseKeepsInv ==
  ASSUME Inv, NEW r \in Requests, pc[r] \notin Answers, Refuse(r)
  PROVE  Inv'
  BY FinishKeepsInv DEF Refuse, Answers

LEMMA KeepKeepsInv ==
  ASSUME Inv, NEW r \in Requests, pc[r] \notin Answers,
         NEW step \in Steps, NEW seen \in Copy, Keep(r, seen, step),
         heard' \in [Ids -> Heard],
         Prepared(r)'
  PROVE  Inv'
  <1>1. /\ addresses' \subseteq AddressIds
        /\ sessions' \in [Requests -> Ids \cup {NULL}]
    BY DEF Inv, TypeOK, Keep, tables
  <1> QED
    BY <1>1, ReadersKeepInv DEF Keep, tables

-----------------------------------------------------------------------------
(* The checks of register, create and update *)

\* What a step that keeps the rows it has read leaves as it was.
LEMMA KeptAs ==
  ASSUME Inv, NEW r \in Requests, NEW step, NEW seen, Keep(r, seen, step)
  PROVE  /\ pc'[r] = step /\ copy'[r] = seen /\ call'[r] = call[r]
         /\ customer' = customer /\ Renames(r)' = Renames(r)
         /\ copy[r] \in Copy /\ call[r] \in Calls
  BY DEF Inv, TypeOK, Keep, Goto, tables, Renames

LEMMA HeardTyped == Inv /\ UNCHANGED heard => heard' \in [Ids -> Heard]
  BY DEF Inv, TypeOK

LEMMA LoadKeepsInv ==
  ASSUME Inv, NEW r \in Requests, Load(r)
  PROVE  Inv'
  <1> DEFINE c == call[r].customer
             seen == customer[c]
             row == [who |-> c, row |-> seen, auth |-> NULL]
  <1>1. pc[r] = "load" /\ pc[r] \notin Answers
    BY DEF Load, Answers
  <1>2. call[r].kind = "update" /\ c \in Ids
    BY <1>1, BodiesAreValid DEF Inv, Prepared, TypeOK
  <1>3. CASE seen = NULL /\ Refuse(r)
    BY <1>1, <1>3, RefuseKeepsInv
  <1>4. CASE seen # NULL /\ Keep(r, row, AfterLoad(r, seen)) /\ UNCHANGED heard
    <2>1. row \in Copy /\ seen \in CustomerRow
      BY <1>2, <1>4 DEF Inv, TypeOK, Copy
    <2>2. AfterLoad(r, seen) \in {"email", "phone", "auth", "write"}
          /\ (AfterLoad(r, seen) = "write" => ~Renames(r))
      BY <1>2 DEF AfterLoad, AfterPhone
    <2>3. /\ pc'[r] = AfterLoad(r, seen) /\ copy'[r] = row /\ call'[r] = call[r]
          /\ customer' = customer /\ Renames(r)' = Renames(r)
      BY <1>4, KeptAs
    <2>4. Found(r)' /\ copy'[r].row \in CustomerRow
      BY <1>2, <1>4, <2>1, <2>3 DEF Found
    <2>5. Prepared(r)'
      BY <1>2, <2>2, <2>3, <2>4 DEF Prepared, Checking
    <2> QED
      BY <1>1, <1>4, <2>1, <2>2, <2>5, KeepKeepsInv, HeardTyped DEF Steps
  <1> QED
    BY <1>3, <1>4 DEF Load

\* A check that passes keeps what the request has read.
LEMMA CheckKeepsInv ==
  ASSUME Inv, NEW r \in Requests, pc[r] \notin Answers, NEW taken,
         NEW step \in Steps, Check(r, taken, step),
         Keep(r, copy[r], step) => Prepared(r)'
  PROVE  Inv'
  <1>1. CASE Refuse(r)
    BY <1>1, RefuseKeepsInv
  <1>2. CASE Keep(r, copy[r], step) /\ UNCHANGED heard
    BY <1>2, KeepKeepsInv, HeardTyped DEF Inv, TypeOK
  <1> QED
    BY <1>1, <1>2 DEF Check

LEMMA EmailKeepsInv ==
  ASSUME Inv, NEW r \in Requests, EmailIsFree(r)
  PROVE  Inv'
  <1>1. pc[r] = "email" /\ pc[r] \notin Answers /\ Prepared(r)
    BY DEF EmailIsFree, Answers, Inv
  <1>2. /\ AfterEmail(r) \in {"phone", "username", "auth", "write"}
        /\ AfterEmail(r) \in {"auth", "write"} => call[r].kind # "create"
        /\ AfterEmail(r) = "username" => call[r].kind = "create"
        /\ AfterEmail(r) = "write" => ~Renames(r)
    BY DEF AfterEmail, AfterPhone
  <1>3. ASSUME Keep(r, copy[r], AfterEmail(r)) PROVE Prepared(r)'
    <2>1. /\ pc'[r] = AfterEmail(r) /\ copy'[r] = copy[r] /\ call'[r] = call[r]
          /\ customer' = customer /\ Renames(r)' = Renames(r)
      BY <1>3, KeptAs
    <2>2. Found(r)' = Found(r)
      BY <2>1 DEF Found
    <2> QED
      BY <1>1, <1>2, <2>1, <2>2 DEF Prepared, Checking, Renames
  <1>4. AfterEmail(r) \in Steps
    BY <1>2 DEF Steps
  <1> QED
    BY <1>1, <1>3, <1>4, CheckKeepsInv DEF EmailIsFree

LEMMA PhoneKeepsInv ==
  ASSUME Inv, NEW r \in Requests, PhoneIsFree(r)
  PROVE  Inv'
  <1>1. pc[r] = "phone" /\ pc[r] \notin Answers /\ Prepared(r)
    BY DEF PhoneIsFree, Answers, Inv
  <1>2. /\ AfterPhone(r) \in {"username", "auth", "write"}
        /\ AfterPhone(r) \in {"auth", "write"} => call[r].kind # "create"
        /\ AfterPhone(r) = "username" => call[r].kind = "create"
        /\ AfterPhone(r) = "write" => ~Renames(r)
    BY DEF AfterPhone, Renames
  <1>3. ASSUME Keep(r, copy[r], AfterPhone(r)) PROVE Prepared(r)'
    <2>1. /\ pc'[r] = AfterPhone(r) /\ copy'[r] = copy[r] /\ call'[r] = call[r]
          /\ customer' = customer /\ Renames(r)' = Renames(r)
      BY <1>3, KeptAs
    <2>2. Found(r)' = Found(r)
      BY <2>1 DEF Found
    <2> QED
      BY <1>1, <1>2, <2>1, <2>2 DEF Prepared, Checking, Renames
  <1>4. AfterPhone(r) \in Steps
    BY <1>2 DEF Steps
  <1> QED
    BY <1>1, <1>3, <1>4, CheckKeepsInv DEF PhoneIsFree

LEMMA LoadAuthKeepsInv ==
  ASSUME Inv, NEW r \in Requests, LoadAuth(r)
  PROVE  Inv'
  <1> DEFINE login == auth[copy[r].who]
             seen == [copy[r] EXCEPT !.auth = login]
  <1>1. pc[r] = "auth" /\ pc[r] \notin Answers /\ Prepared(r)
    BY DEF LoadAuth, Answers, Inv
  <1>2. CASE Refuse(r)
    BY <1>1, <1>2, RefuseKeepsInv
  <1>3. CASE login # NULL /\ Keep(r, seen, "username") /\ UNCHANGED heard
    <2>1. copy[r] \in Copy /\ Found(r) /\ call[r].kind = "update"
          /\ copy[r].row \in CustomerRow
      BY <1>1 DEF Inv, TypeOK, Prepared
    <2>2. login \in AuthRow
      BY <1>3, <2>1 DEF Inv, TypeOK, Found
    <2>3. /\ seen \in Copy /\ seen.who = copy[r].who /\ seen.row = copy[r].row
          /\ seen.auth = login
      BY <2>1, <2>2 DEF Copy
    <2> HIDE DEF login, seen
    <2>4. /\ pc'[r] = "username" /\ copy'[r] = seen /\ call'[r] = call[r]
          /\ customer' = customer
      BY <1>3, KeptAs
    <2>5. Found(r)'
      BY <2>1, <2>3, <2>4 DEF Found
    <2>6. Prepared(r)'
      BY <2>1, <2>2, <2>3, <2>4, <2>5 DEF Prepared, Checking
    <2> QED
      BY <1>1, <1>3, <2>3, <2>6, KeepKeepsInv, HeardTyped DEF Steps
  <1> QED
    BY <1>2, <1>3 DEF LoadAuth

LEMMA UsernameKeepsInv ==
  ASSUME Inv, NEW r \in Requests, UsernameIsFree(r)
  PROVE  Inv'
  <1> DEFINE step == IF call[r].kind = "update" THEN "write" ELSE "insert"
  <1>1. pc[r] = "username" /\ pc[r] \notin Answers /\ Prepared(r)
    BY DEF UsernameIsFree, Answers, Inv
  <1>2. step \in Steps
    BY DEF Steps
  <1>3. ASSUME Keep(r, copy[r], step) PROVE Prepared(r)'
    <2>1. /\ pc'[r] = step /\ copy'[r] = copy[r] /\ call'[r] = call[r]
          /\ customer' = customer /\ Renames(r)' = Renames(r)
      BY <1>3, KeptAs
    <2>2. Found(r)' = Found(r)
      BY <2>1 DEF Found
    <2> QED
      BY <1>1, <2>1, <2>2 DEF Prepared, Checking
  <1> QED
    BY <1>1, <1>2, <1>3, CheckKeepsInv DEF UsernameIsFree

-----------------------------------------------------------------------------
(* The writes of register, create and update *)

\* The row of a registration or creation is a row of customers: the schemas
\* and the constraints see to it (auth_service.py:55).
LEMMA NewRowIsARow ==
  ASSUME Inv, NEW r \in Requests, Insert(r)
  PROVE  /\ NewRow(r) \in CustomerRow /\ NewAuth(r) \in AuthRow
         /\ customer[r] = NULL /\ auth[r] = NULL /\ r \in Ids
         /\ pc[r] \notin Answers
         /\ addresses' \subseteq AddressIds
  <1>1. pc[r] = "insert" /\ call[r].kind \in {"register", "create"}
    BY DEF Insert, Inv, Prepared
  <1>2. /\ call[r].email \in Names /\ call[r].phone \in Names
        /\ call[r].ident \in Names /\ call[r].username \in Names
        /\ call[r].address \in AddressIds \cup {NULL} /\ r \in AddressIds
    BY <1>1, BodiesAreValid DEF Inv, TypeOK, AddressIds
  <1>3. NewRow(r) \in CustomerRow /\ NewAuth(r) \in AuthRow
    BY <1>2 DEF NewRow, NewAuth, CustomerRow, AuthRow
  <1>4. pc[r] \notin Answers
    BY <1>1 DEF Answers
  <1>5. customer[r] = NULL /\ auth[r] = NULL /\ r \in Ids
    BY <1>4, IdsAreNotNull DEF Inv, InsertsOnce, Paired
  <1>6. addresses' \subseteq AddressIds
    BY <1>2 DEF Inv, TypeOK, Insert, NewAddresses
  <1> QED
    BY <1>3, <1>4, <1>5, <1>6

LEMMA InsertKeepsInv ==
  ASSUME Inv, NEW r \in Requests, Insert(r)
  PROVE  Inv'
  <1>1. /\ NewRow(r) \in CustomerRow /\ NewAuth(r) \in AuthRow
        /\ customer[r] = NULL /\ auth[r] = NULL /\ r \in Ids
        /\ pc[r] \notin Answers
        /\ addresses' \subseteq AddressIds
    BY NewRowIsARow
  <1>2. /\ NULL \notin CustomerRow /\ NULL \notin AuthRow
        /\ NewAuth(r).username = call[r].username
    BY IdsAreNotNull DEF NewAuth
  <1>3. /\ customer \in [Ids -> CustomerRow \cup {NULL}]
        /\ auth \in [Ids -> AuthRow \cup {NULL}]
        /\ customer' = [customer EXCEPT ![r] = NewRow(r)]
        /\ auth' = [auth EXCEPT ![r] = NewAuth(r)]
        /\ FreeName(r, call[r].username)
        /\ Finish(r, "ok") /\ UNCHANGED <<sessions, heard>>
    BY DEF Inv, TypeOK, Insert, CanInsert
  <1> HIDE DEF NewRow, NewAuth
  <1>4. /\ customer' \in [Ids -> CustomerRow \cup {NULL}]
        /\ auth' \in [Ids -> AuthRow \cup {NULL}]
    BY <1>1, <1>3
  <1>5. Paired'
    BY <1>1, <1>2, <1>3 DEF Inv, Paired
  <1>6. NamesDiffer'
    <2> SUFFICES ASSUME NEW c \in Ids, NEW d \in Ids \ {c},
                        auth'[c] # NULL, auth'[d] # NULL
                 PROVE  auth'[c].username # auth'[d].username
      BY DEF NamesDiffer
    <2>1. CASE c = r
      BY <1>1, <1>2, <1>3, <2>1 DEF FreeName, Named
    <2>2. CASE d = r
      BY <1>1, <1>2, <1>3, <2>2 DEF FreeName, Named
    <2>3. CASE c # r /\ d # r
      BY <1>1, <1>3, <2>3 DEF Inv, NamesDiffer
    <2> QED
      BY <2>1, <2>2, <2>3
  <1>7. "ok" \in Answers /\ Goto(r, "ok") /\ copy' = [copy EXCEPT ![r] = NothingRead]
    BY <1>3 DEF Answers, Finish
  <1>8. Prepared(r)'
    BY <1>7, Answered DEF Inv
  <1>9. /\ \A c \in Ids : customer[c] # NULL => customer'[c] # NULL
        /\ \A q \in Requests : customer'[q] # NULL => customer[q] # NULL \/ q = r
    BY <1>1, <1>2, <1>3, IdsAreNotNull
  <1>10. /\ InsertsOnce' /\ \A q \in Requests : Prepared(q)'
         /\ pc' \in [Requests -> Steps \cup Answers]
         /\ copy' \in [Requests -> Copy] /\ call' \in [Requests -> Calls]
    BY <1>1, <1>7, <1>8, <1>9, OneMoves, NothingIsACopy
  <1>11. TypeOK'
    BY <1>1, <1>3, <1>4, <1>10 DEF Inv, TypeOK
  <1> QED
    BY <1>5, <1>6, <1>10, <1>11 DEF Inv

\* What a PATCH writes, on the rows as they are by then: a row of customers,
\* the identity number untouched, and a login (customer_service.py:54-75).
LEMMA AmendedIsARow ==
  ASSUME Inv, NEW r \in Requests, Update(r)
  PROVE  /\ copy[r].who \in Ids /\ pc[r] \notin Answers
         /\ customer[copy[r].who] \in CustomerRow /\ auth[copy[r].who] \in AuthRow
         /\ Amended(r) \in CustomerRow
         /\ Amended(r).ident = customer[copy[r].who].ident
         /\ Relogin(r) \in AuthRow
         /\ FreeName(copy[r].who, Relogin(r).username)
  <1> DEFINE c == copy[r].who
  <1>1. pc[r] = "write" /\ pc[r] \notin Answers
    BY DEF Update, Answers
  <1>2. call[r].kind = "update" /\ Found(r) /\ copy[r].row \in CustomerRow
        /\ (Renames(r) => copy[r].auth \in AuthRow)
    BY <1>1 DEF Inv, Prepared
  <1>3. c \in Ids /\ customer[c] \in CustomerRow /\ auth[c] \in AuthRow
    BY <1>2 DEF Found, Inv, TypeOK, Paired
  <1>4. /\ call[r] \in Calls /\ call[r].ident = Unset
    BY <1>2, BodiesAreValid DEF Inv, TypeOK
  <1>5. /\ call[r].email \in Names \cup {Unset, NULL}
        /\ call[r].phone \in Names \cup {Unset, NULL}
        /\ call[r].address \in AddressIds \cup {Unset, NULL}
        /\ call[r].username \in Names \cup {Unset, NULL}
    BY <1>4, CallFields
  <1>6. Storable(c, Amended(r), addresses) /\ FreeName(c, Relogin(r).username)
    BY DEF Update, CanUpdate
  <1>7. /\ customer[c]["email"] \in Names /\ customer[c]["phone"] \in Names
        /\ customer[c]["ident"] \in Names /\ customer[c]["address"] \in AddressIds \cup {NULL}
    BY <1>3 DEF CustomerRow
  <1>8. Amended(r)["ident"] = customer[c]["ident"]
    BY <1>4 DEF Amended, Keys, Sent
  <1>9. Amended(r)["email"] \in Names /\ Amended(r)["phone"] \in Names
    <2>1. Amended(r)["email"] # NULL /\ Amended(r)["phone"] # NULL
      BY <1>6 DEF Storable, Keys
    <2>2. /\ Amended(r)["email"] \in Names \cup {NULL}
          /\ Amended(r)["phone"] \in Names \cup {NULL}
      BY <1>5, <1>7 DEF Amended, Keys, Sent
    <2> QED
      BY <2>1, <2>2
  <1>10. Amended(r)["address"] \in AddressIds \cup {NULL}
    BY <1>5, <1>7 DEF Amended, Keys, Sent
  <1>11. Amended(r) \in CustomerRow
    BY <1>7, <1>8, <1>9, <1>10 DEF Amended, CustomerRow, Keys
  <1>12. Relogin(r) \in AuthRow
    BY <1>3, <1>5 DEF Relogin, AuthRow, Renames
  <1> QED
    BY <1>1, <1>3, <1>6, <1>8, <1>11, <1>12

LEMMA UpdateKeepsInv ==
  ASSUME Inv, NEW r \in Requests, Update(r)
  PROVE  Inv'
  <1> DEFINE c == copy[r].who
  <1>1. /\ c \in Ids /\ pc[r] \notin Answers
        /\ customer[c] \in CustomerRow /\ auth[c] \in AuthRow
        /\ Amended(r) \in CustomerRow /\ Relogin(r) \in AuthRow
        /\ FreeName(c, Relogin(r).username)
    BY AmendedIsARow
  <1>2. NULL \notin CustomerRow /\ NULL \notin AuthRow /\ Requests \subseteq Ids
    BY IdsAreNotNull
  <1>3. /\ customer \in [Ids -> CustomerRow \cup {NULL}]
        /\ auth \in [Ids -> AuthRow \cup {NULL}]
        /\ customer' = [customer EXCEPT ![c] = Amended(r)]
        /\ auth' = [auth EXCEPT ![c] = Relogin(r)]
        /\ Finish(r, "ok") /\ UNCHANGED <<addresses, sessions, heard>>
    BY DEF Inv, TypeOK, Update
  <1> HIDE DEF c
  <1>4. /\ customer' \in [Ids -> CustomerRow \cup {NULL}]
        /\ auth' \in [Ids -> AuthRow \cup {NULL}]
    BY <1>1, <1>3
  <1>5. Paired'
    BY <1>1, <1>2, <1>3 DEF Inv, Paired
  <1>6. NamesDiffer'
    <2> SUFFICES ASSUME NEW x \in Ids, NEW y \in Ids \ {x},
                        auth'[x] # NULL, auth'[y] # NULL
                 PROVE  auth'[x].username # auth'[y].username
      BY DEF NamesDiffer
    <2>1. CASE x = c
      BY <1>1, <1>3, <2>1 DEF FreeName, Named
    <2>2. CASE y = c
      BY <1>1, <1>3, <2>2 DEF FreeName, Named
    <2>3. CASE x # c /\ y # c
      BY <1>1, <1>3, <2>3 DEF Inv, NamesDiffer
    <2> QED
      BY <2>1, <2>2, <2>3
  <1>7. "ok" \in Answers /\ Goto(r, "ok") /\ copy' = [copy EXCEPT ![r] = NothingRead]
    BY <1>3 DEF Answers, Finish
  <1>8. Prepared(r)'
    BY <1>7, Answered DEF Inv
  <1>9. \A d \in Ids : customer[d] # NULL <=> customer'[d] # NULL
    BY <1>1, <1>2, <1>3
  <1>10. /\ InsertsOnce' /\ \A q \in Requests : Prepared(q)'
         /\ pc' \in [Requests -> Steps \cup Answers]
         /\ copy' \in [Requests -> Copy] /\ call' \in [Requests -> Calls]
    BY <1>1, <1>2, <1>7, <1>8, <1>9, OneMoves, NothingIsACopy
  <1>11. TypeOK'
    BY <1>3, <1>4, <1>10 DEF Inv, TypeOK
  <1> QED
    BY <1>5, <1>6, <1>10, <1>11 DEF Inv

LEMMA WriteRefusedKeepsInv ==
  ASSUME Inv, NEW r \in Requests, WriteRefused(r)
  PROVE  Inv'
  BY RefuseKeepsInv DEF WriteRefused, Answers

-----------------------------------------------------------------------------
(* login, sessions *)

LEMMA ReadAuthKeepsInv ==
  ASSUME Inv, NEW r \in Requests, ReadAuth(r)
  PROVE  Inv'
  <1>1. pc[r] \notin Answers
    BY DEF ReadAuth, Answers
  <1>2. PICK c \in Ids :
          /\ Named(c, call[r].username)
          /\ Keep(r, [who |-> c, row |-> NULL, auth |-> auth[c]],
                  IF call[r].password = c THEN "admit" ELSE "count")
          /\ heard' = [heard EXCEPT ![c].mixed = @ \/ InLogin(c) # {}]
    BY DEF ReadAuth
  <1> DEFINE seen == [who |-> c, row |-> NULL, auth |-> auth[c]]
             step == IF call[r].password = c THEN "admit" ELSE "count"
  <1>3. /\ auth[c] \in AuthRow /\ customer[c] # NULL
        /\ step \in Steps /\ step \in {"admit", "count"}
    BY <1>2 DEF Named, Inv, TypeOK, Paired, Steps
  <1>4. seen \in Copy /\ seen.who = c /\ seen.auth = auth[c]
    BY <1>3 DEF Copy
  <1>5. heard' \in [Ids -> Heard]
    <2>1. heard \in [Ids -> Heard]
      BY DEF Inv, TypeOK
    <2>2. \A h \in Heard, b \in BOOLEAN : [h EXCEPT !.mixed = b] \in Heard
      BY DEF Heard
    <2>3. \A h \in Heard : (h.mixed \/ InLogin(c) # {}) \in BOOLEAN
      OBVIOUS
    <2> QED
      BY <1>2, <2>1, <2>2, <2>3
  <1> HIDE DEF seen, step
  <1>6. Keep(r, seen, step)
    BY <1>2 DEF seen, step
  <1>7. pc'[r] = step /\ copy'[r] = seen /\ customer' = customer
    BY <1>6, KeptAs
  <1>8. Prepared(r)'
    BY <1>3, <1>4, <1>7 DEF Prepared, Found, Checking
  <1> QED
    BY <1>1, <1>3, <1>4, <1>5, <1>6, <1>8, KeepKeepsInv

\* The statements of a login write failed_attempts and nothing else, and only
\* of a customer that is there (auth_service.py:98-106).
LEMMA CountingKeepsInv ==
  ASSUME Inv, NEW r \in Requests, pc[r] \notin Answers,
         NEW step \in Steps \cup Answers, NEW seen \in Copy,
         Goto(r, step), copy' = [copy EXCEPT ![r] = seen],
         NEW c \in Ids, auth[c] # NULL, NEW n \in Nat,
         auth' = [auth EXCEPT ![c].failed = n],
         UNCHANGED <<customer, addresses, sessions>>,
         heard' \in [Ids -> Heard], Prepared(r)'
  PROVE  Inv'
  <1>1. TypeOK /\ auth[c] \in AuthRow /\ NULL \notin AuthRow
    BY IdsAreNotNull DEF Inv, TypeOK
  <1>2. /\ auth'[c] \in AuthRow /\ auth'[c].username = auth[c].username
        /\ \A d \in Ids \ {c} : auth'[d] = auth[d]
        /\ auth' \in [Ids -> AuthRow \cup {NULL}]
    <2>1. /\ [auth[c] EXCEPT !.failed = n] \in AuthRow
          /\ [auth[c] EXCEPT !.failed = n].username = auth[c].username
      BY <1>1 DEF AuthRow
    <2> QED
      BY <2>1 DEF Inv, TypeOK
  <1>3. Paired' /\ NamesDiffer'
    BY <1>1, <1>2 DEF Inv, Paired, NamesDiffer
  <1>4. /\ InsertsOnce' /\ \A q \in Requests : Prepared(q)'
        /\ pc' \in [Requests -> Steps \cup Answers]
        /\ copy' \in [Requests -> Copy] /\ call' \in [Requests -> Calls]
    BY OneMoves
  <1>5. TypeOK'
    BY <1>1, <1>2, <1>4 DEF TypeOK
  <1> QED
    BY <1>3, <1>4, <1>5 DEF Inv

LEMMA CountMissKeepsInv ==
  ASSUME Inv, NEW r \in Requests, CountMiss(r)
  PROVE  Inv'
  <1> DEFINE c == copy[r].who
  <1>1. pc[r] = "count" /\ pc[r] \notin Answers
    BY DEF CountMiss, Answers
  <1>2. Found(r) /\ copy[r].auth \in AuthRow
    BY <1>1 DEF Inv, Prepared
  <1>3. c \in Ids /\ auth[c] # NULL /\ copy[r].auth.failed + 1 \in Nat
    BY <1>2 DEF Found, Inv, Paired, AuthRow
  <1>4. heard' \in [Ids -> Heard]
    <2>1. ASSUME NEW h \in Heard
          PROVE  [h EXCEPT !.ever = @ + 1, !.since = @ + 1] \in Heard
      <3>1. h.ever + 1 \in Nat /\ h.since + 1 \in Nat
        BY DEF Heard
      <3> QED
        BY <3>1 DEF Heard
    <2>2. heard[c] \in Heard /\ heard \in [Ids -> Heard]
      BY <1>3 DEF Inv, TypeOK
    <2>3. heard' = [heard EXCEPT ![c] =
                      [heard[c] EXCEPT !.ever = @ + 1, !.since = @ + 1]]
      BY <2>2 DEF CountMiss
    <2> QED
      BY <2>1, <2>2, <2>3
  <1>5. "refused" \in Answers /\ Goto(r, "refused")
        /\ copy' = [copy EXCEPT ![r] = NothingRead]
    BY DEF CountMiss, Finish, Answers
  <1>6. Prepared(r)'
    BY <1>5, Answered DEF Inv
  <1>7. /\ auth' = [auth EXCEPT ![c].failed = copy[r].auth.failed + 1]
        /\ UNCHANGED <<customer, addresses, sessions>>
    BY DEF CountMiss
  <1> QED
    BY <1>1, <1>3, <1>4, <1>5, <1>6, <1>7, CountingKeepsInv, NothingIsACopy

LEMMA AdmitKeepsInv ==
  ASSUME Inv, NEW r \in Requests, Admit(r)
  PROVE  Inv'
  <1> DEFINE c == copy[r].who
             n == IF copy[r].auth.failed = 0 THEN auth[c].failed ELSE 0
  <1>1. pc[r] = "admit" /\ pc[r] \notin Answers
    BY DEF Admit, Answers
  <1>2. Found(r)
    BY <1>1 DEF Inv, Prepared
  <1>3. c \in Ids /\ auth[c] # NULL /\ n \in Nat
    BY <1>2 DEF Found, Inv, TypeOK, Paired, AuthRow
  <1>4. heard' \in [Ids -> Heard]
    <2>1. \A h \in Heard : [h EXCEPT !.since = 0] \in Heard
      BY DEF Heard
    <2>2. heard[c] \in Heard /\ heard \in [Ids -> Heard]
      BY <1>3 DEF Inv, TypeOK
    <2> QED
      BY <2>1, <2>2 DEF Admit
  <1>5. "issue" \in Steps /\ Goto(r, "issue") /\ copy' = copy
        /\ copy[r] \in Copy /\ copy' = [copy EXCEPT ![r] = copy[r]]
    BY DEF Admit, Steps, Inv, TypeOK
  <1>6. Prepared(r)'
    <2>1. pc'[r] = "issue" /\ copy'[r] = copy[r] /\ customer' = customer
      BY <1>5 DEF Goto, Inv, TypeOK, Admit
    <2>2. Found(r)'
      BY <1>2, <2>1 DEF Found
    <2> QED
      BY <2>1, <2>2 DEF Prepared, Checking
  <1>7. /\ auth' = [auth EXCEPT ![c].failed = n]
        /\ UNCHANGED <<customer, addresses, sessions>>
    BY <1>3 DEF Admit
  <1> HIDE DEF c, n
  <1> QED
    BY <1>1, <1>3, <1>4, <1>5, <1>6, <1>7, CountingKeepsInv

LEMMA IssueKeepsInv ==
  ASSUME Inv, NEW r \in Requests, Issue(r) \/ Bootstrap(r)
  PROVE  Inv'
  <1>1. pc[r] \notin Answers
    BY DEF Issue, Bootstrap, Answers
  <1>2. CASE Refuse(r)
    BY <1>1, <1>2, RefuseKeepsInv
  <1>3. CASE \E c \in Ids :
               /\ sessions' = [sessions EXCEPT ![r] = c]
               /\ Finish(r, "ok")
               /\ UNCHANGED <<customer, auth, addresses, heard>>
    <2>1. /\ sessions' \in [Requests -> Ids \cup {NULL}]
          /\ addresses' \subseteq AddressIds /\ heard' \in [Ids -> Heard]
          /\ "ok" \in Answers
      BY <1>3 DEF Inv, TypeOK, Answers
    <2>2. Prepared(r)'
      BY <1>3, <2>1, Answered DEF Inv, Finish
    <2> QED
      BY <1>1, <1>3, <2>1, <2>2, ReadersKeepInv, NothingIsACopy DEF Finish
  <1>4. CASE Issue(r)
    <2>1. copy[r].who \in Ids
      BY <1>4 DEF Inv, Prepared, Issue, Found
    <2> QED
      BY <1>3, <1>4, <2>1 DEF Issue
  <1>5. CASE Bootstrap(r)
    <2>1. call[r].customer \in Ids
      BY <1>5, BodiesAreValid DEF Inv, TypeOK, Prepared, Bootstrap
    <2> QED
      BY <1>2, <1>3, <1>5, <2>1 DEF Bootstrap
  <1> QED
    BY <1>4, <1>5

-----------------------------------------------------------------------------
(* Addresses *)

LEMMA PlaceKeepsInv ==
  ASSUME Inv, NEW r \in Requests, Place(r)
  PROVE  Inv'
  <1>1. /\ pc[r] \notin Answers /\ "ok" \in Answers
        /\ Goto(r, "ok") /\ copy' = [copy EXCEPT ![r] = NothingRead]
    BY DEF Place, Answers, Finish
  <1>2. /\ addresses' \subseteq AddressIds /\ heard' \in [Ids -> Heard]
        /\ sessions' \in [Requests -> Ids \cup {NULL}]
        /\ UNCHANGED <<customer, auth>>
    BY DEF Place, Inv, TypeOK, AddressIds
  <1>3. Prepared(r)'
    BY <1>1, Answered DEF Inv
  <1> QED
    BY <1>1, <1>2, <1>3, ReadersKeepInv, NothingIsACopy

LEMMA LocateKeepsInv ==
  ASSUME Inv, NEW r \in Requests, Locate(r)
  PROVE  Inv'
  <1>1. pc[r] = "locate" /\ pc[r] \notin Answers
    BY DEF Locate, Answers
  <1>2. CASE Refuse(r)
    BY <1>1, <1>2, RefuseKeepsInv
  <1>3. CASE Keep(r, NothingRead, "child") /\ UNCHANGED heard
    <2>1. pc'[r] = "child" /\ call'[r] = call[r]
      BY <1>3, KeptAs
    <2>2. call[r].kind = "drop"
      BY <1>1 DEF Inv, Prepared
    <2>3. Prepared(r)'
      BY <2>1, <2>2 DEF Prepared, Checking
    <2> QED
      BY <1>1, <1>3, <2>3, KeepKeepsInv, HeardTyped, NothingIsACopy DEF Steps
  <1> QED
    BY <1>2, <1>3 DEF Locate

LEMMA LoadResidentKeepsInv ==
  ASSUME Inv, NEW r \in Requests, LoadResident(r)
  PROVE  Inv'
  <1>1. pc[r] = "child" /\ pc[r] \notin Answers /\ UNCHANGED heard
    BY DEF LoadResident, Answers
  <1>2. PICK c \in Residents(call[r].address) \cup {NULL} :
          Keep(r, [NothingRead EXCEPT !.who = c], "drop")
    BY DEF LoadResident
  <1> DEFINE seen == [NothingRead EXCEPT !.who = c]
  <1>3. c = NULL \/ (c \in Ids /\ customer[c] # NULL)
    BY <1>2 DEF Residents, Holds
  <1>4. seen \in Copy /\ seen.who = c
    BY <1>3 DEF NothingRead, Copy
  <1> HIDE DEF seen
  <1>5. /\ pc'[r] = "drop" /\ copy'[r] = seen /\ call'[r] = call[r]
        /\ customer' = customer
    BY <1>2, KeptAs DEF seen
  <1>6. Prepared(r)'
    <2>1. call[r].kind = "drop"
      BY <1>1 DEF Inv, Prepared
    <2>2. copy'[r].who = NULL \/ Found(r)'
      BY <1>3, <1>4, <1>5 DEF Found
    <2> QED
      BY <1>5, <2>1, <2>2 DEF Prepared, Checking
  <1> QED
    BY <1>1, <1>2, <1>4, <1>6, KeepKeepsInv, HeardTyped DEF Steps, seen

\* The deletion clears the address of one customer that is there, or of none.
LEMMA MovedOutTyped ==
  ASSUME Inv, NEW r \in Requests, pc[r] = "drop"
  PROVE  /\ MovedOut(r) \in [Ids -> CustomerRow \cup {NULL}]
         /\ \A d \in Ids : customer[d] = NULL <=> MovedOut(r)[d] = NULL
  <1> DEFINE c == copy[r].who
  <1>1. c = NULL \/ (c \in Ids /\ customer[c] # NULL)
    BY DEF Inv, Prepared, Found
  <1>2. customer \in [Ids -> CustomerRow \cup {NULL}] /\ NULL \notin CustomerRow
        /\ NULL \notin Ids
    BY IdsAreNotNull DEF Inv, TypeOK
  <1>3. CASE c = NULL
    BY <1>2, <1>3 DEF MovedOut
  <1>4. CASE c \in Ids /\ customer[c] # NULL
    <2>1. [customer[c] EXCEPT !.address = NULL] \in CustomerRow
      BY <1>2, <1>4 DEF CustomerRow
    <2>2. MovedOut(r) = [customer EXCEPT ![c] = [customer[c] EXCEPT !.address = NULL]]
      BY <1>2, <1>4 DEF MovedOut
    <2> HIDE DEF c
    <2> QED
      BY <1>2, <1>4, <2>1, <2>2
  <1> QED
    BY <1>1, <1>3, <1>4

LEMMA DropKeepsInv ==
  ASSUME Inv, NEW r \in Requests, Drop(r)
  PROVE  Inv'
  <1>1. /\ pc[r] = "drop" /\ pc[r] \notin Answers /\ "ok" \in Answers
        /\ Goto(r, "ok") /\ copy' = [copy EXCEPT ![r] = NothingRead]
        /\ customer' = MovedOut(r)
        /\ UNCHANGED <<auth, sessions, heard>>
    BY DEF Drop, Answers, Finish
  <1>2. /\ customer' \in [Ids -> CustomerRow \cup {NULL}]
        /\ \A d \in Ids : customer[d] = NULL <=> customer'[d] = NULL
    BY <1>1, MovedOutTyped
  <1>3. Prepared(r)'
    BY <1>1, Answered DEF Inv
  <1>4. /\ InsertsOnce' /\ \A q \in Requests : Prepared(q)'
        /\ pc' \in [Requests -> Steps \cup Answers]
        /\ copy' \in [Requests -> Copy] /\ call' \in [Requests -> Calls]
    BY <1>1, <1>2, <1>3, OneMoves, NothingIsACopy, IdsAreNotNull
  <1>5. Paired' /\ NamesDiffer'
    BY <1>1, <1>2 DEF Inv, Paired, NamesDiffer
  <1>6. addresses' \subseteq AddressIds
    BY DEF Inv, TypeOK, Drop
  <1>7. TypeOK'
    BY <1>1, <1>2, <1>4, <1>6 DEF Inv, TypeOK
  <1> QED
    BY <1>4, <1>5, <1>7 DEF Inv

-----------------------------------------------------------------------------
LEMMA NextKeepsInv == Inv /\ [Next]_vars => Inv'
  <1> SUFFICES ASSUME Inv, [Next]_vars PROVE Inv'
    OBVIOUS
  <1>1. CASE UNCHANGED vars
    BY <1>1 DEF vars, tables, Inv, TypeOK, Paired, NamesDiffer, InsertsOnce,
                Prepared, Found, Renames
  <1>2. ASSUME NEW r \in Requests, Enrolment(r) PROVE Inv'
    BY <1>2, LoadKeepsInv, EmailKeepsInv, PhoneKeepsInv, LoadAuthKeepsInv,
       UsernameKeepsInv, InsertKeepsInv, UpdateKeepsInv, WriteRefusedKeepsInv
       DEF Enrolment
  <1>3. ASSUME NEW r \in Requests, Login(r) PROVE Inv'
    <2>1. CASE NoSuchUser(r) \/ Locked(r)
      BY <2>1, RefuseKeepsInv DEF NoSuchUser, Locked, Answers
    <2> QED
      BY <1>3, <2>1, ReadAuthKeepsInv, CountMissKeepsInv, AdmitKeepsInv,
         IssueKeepsInv DEF Login
  <1>4. ASSUME NEW r \in Requests, Address(r) PROVE Inv'
    <2>1. CASE DropRefused(r)
      BY <2>1, RefuseKeepsInv DEF DropRefused, Answers
    <2> QED
      BY <1>4, <2>1, PlaceKeepsInv, LocateKeepsInv, LoadResidentKeepsInv,
         DropKeepsInv DEF Address
  <1>5. ASSUME NEW r \in Requests, Lose(r) PROVE Inv'
    BY <1>5, FinishKeepsInv DEF Lose, Answers
  <1> QED
    BY <1>1, <1>2, <1>3, <1>4, <1>5 DEF Next, Finished

LEMMA Invariance == Spec => []Inv
  BY InitInv, NextKeepsInv, PTL DEF Spec

\* Whatever the requests ask for and wherever they are interrupted, every row
\* keeps the types of its columns: no NULL and no field that was left out of a
\* body ever reaches a NOT NULL column, and no statement writes to a customer
\* it has not found.
THEOREM TypeCorrect == Spec => []TypeOK
  <1>1. Inv => TypeOK
    BY DEF Inv
  <1> QED
    BY <1>1, Invariance, PTL

\* A customer exists together with its login, and no two customers have the
\* same username: the two tables are never seen out of step.
THEOREM LoginsMatchCustomers == Spec => [](Paired /\ NamesDiffer)
  <1>1. Inv => Paired /\ NamesDiffer
    BY DEF Inv
  <1> QED
    BY <1>1, Invariance, PTL

-----------------------------------------------------------------------------
(* The refinement of Directory *)

\* failed_attempts is no business of the directory.
LEMMA CountingStutters ==
  ASSUME Inv, NEW r \in Requests, CountMiss(r) \/ Admit(r)
  PROVE  UNCHANGED D!vars
  <1> DEFINE c == copy[r].who
  <1>1. c \in Ids /\ auth[c] \in AuthRow /\ NULL \notin AuthRow
    <2>1. Found(r)
      BY DEF Inv, Prepared, CountMiss, Admit
    <2> QED
      BY <2>1, IdsAreNotNull DEF Found, Inv, TypeOK, Paired
  <1>2. PICK n : auth' = [auth EXCEPT ![c].failed = n]
    BY DEF CountMiss, Admit
  <1>3. auth \in [Ids -> AuthRow \cup {NULL}]
    BY DEF Inv, TypeOK
  <1> HIDE DEF c
  <1>4. /\ auth'[c].username = auth[c].username /\ auth'[c] # NULL
        /\ \A d \in Ids \ {c} : auth'[d] = auth[d]
    <2>1. [auth[c] EXCEPT !.failed = n].username = auth[c].username
      BY <1>1 DEF AuthRow
    <2>2. auth'[c] = [auth[c] EXCEPT !.failed = n]
          /\ \A d \in Ids \ {c} : auth'[d] = auth[d]
      BY <1>1, <1>2, <1>3
    <2>3. auth'[c] # NULL
      <3>1. Paired' /\ customer' = customer
        BY CountMissKeepsInv, AdmitKeepsInv DEF Inv, CountMiss, Admit
      <3> QED
        BY <1>1, <3>1 DEF Inv, Paired
    <2> QED
      BY <2>1, <2>2, <2>3
  <1>5. Usernames' = Usernames
    BY <1>1, <1>4 DEF Usernames
  <1> QED
    BY <1>5 DEF D!vars, CountMiss, Admit

LEMMA InsertEnrols ==
  ASSUME Inv, NEW r \in Requests, Insert(r)
  PROVE  D!Enrol(r)
  <1>1. /\ NewRow(r) \in CustomerRow /\ NewAuth(r) \in AuthRow
        /\ customer[r] = NULL /\ auth[r] = NULL /\ r \in Ids
    BY NewRowIsARow
  <1>2. /\ NULL \notin CustomerRow /\ NULL \notin AuthRow /\ NULL \notin Names
        /\ NewAuth(r).username = call[r].username /\ NewAuth(r).username \in Names
    BY <1>1, IdsAreNotNull DEF NewAuth, AuthRow
  <1>3. /\ customer \in [Ids -> CustomerRow \cup {NULL}]
        /\ auth \in [Ids -> AuthRow \cup {NULL}]
        /\ customer' = [customer EXCEPT ![r] = NewRow(r)]
        /\ auth' = [auth EXCEPT ![r] = NewAuth(r)]
        /\ addresses' = addresses \cup NewAddresses(r)
        /\ FreeName(r, call[r].username)
        /\ Storable(r, NewRow(r), addresses \cup NewAddresses(r))
    BY DEF Inv, TypeOK, Insert, CanInsert
  <1> HIDE DEF NewRow, NewAuth
  <1>4. /\ customer'[r] = NewRow(r) /\ auth'[r] = NewAuth(r)
        /\ \A d \in Ids \ {r} : customer'[d] = customer[d] /\ auth'[d] = auth[d]
    BY <1>1, <1>3
  <1>5. /\ Usernames[r] = NULL /\ Usernames'[r] = call[r].username
        /\ \A d \in Ids \ {r} : Usernames'[d] = Usernames[d]
    BY <1>1, <1>2, <1>4 DEF Usernames
  <1>6. D!Distinct(r)
    <2>1. ASSUME NEW d \in Ids \ {r} PROVE Usernames'[r] # Usernames[d]
      BY <1>2, <1>3, <1>5 DEF Usernames, FreeName, Named
    <2>2. ASSUME NEW d \in Ids \ {r}, customer[d] # NULL, NEW k \in D!Keys
          PROVE  customer'[r][k] # customer[d][k]
      BY <1>3, <1>4, <2>2 DEF Storable, Holds, Keys, D!Keys
    <2> QED
      BY <2>1, <2>2 DEF D!Distinct
  <1>7. D!Lives(r)
    BY <1>3, <1>4 DEF D!Lives, Storable
  <1>8. D!OnlyCustomer(r)
    BY <1>4, <1>5 DEF D!OnlyCustomer
  <1>9. addresses' \in {addresses, addresses \cup {r}}
    BY <1>3 DEF NewAddresses
  <1> QED
    BY <1>1, <1>2, <1>4, <1>5, <1>6, <1>7, <1>8, <1>9 DEF D!Enrol

LEMMA UpdateAmends ==
  ASSUME Inv, NEW r \in Requests, Update(r)
  PROVE  copy[r].who \in Ids /\ D!Amend(copy[r].who)
  <1> DEFINE c == copy[r].who
  <1>1. /\ c \in Ids
        /\ customer[c] \in CustomerRow /\ auth[c] \in AuthRow
        /\ Amended(r) \in CustomerRow /\ Relogin(r) \in AuthRow
        /\ Amended(r).ident = customer[c].ident
        /\ FreeName(c, Relogin(r).username)
    BY AmendedIsARow
  <1>2. /\ NULL \notin CustomerRow /\ NULL \notin AuthRow /\ NULL \notin Names
        /\ Relogin(r).username \in Names
    BY <1>1, IdsAreNotNull DEF AuthRow
  <1>3. /\ customer \in [Ids -> CustomerRow \cup {NULL}]
        /\ auth \in [Ids -> AuthRow \cup {NULL}]
        /\ customer' = [customer EXCEPT ![c] = Amended(r)]
        /\ auth' = [auth EXCEPT ![c] = Relogin(r)]
        /\ addresses' = addresses
        /\ Storable(c, Amended(r), addresses)
    BY DEF Inv, TypeOK, Update, CanUpdate
  <1> HIDE DEF c
  <1>4. /\ customer'[c] = Amended(r) /\ auth'[c] = Relogin(r)
        /\ \A d \in Ids \ {c} : customer'[d] = customer[d] /\ auth'[d] = auth[d]
    BY <1>1, <1>3
  <1>5. /\ Usernames'[c] = Relogin(r).username
        /\ \A d \in Ids \ {c} : Usernames'[d] = Usernames[d]
    BY <1>1, <1>2, <1>4 DEF Usernames
  <1>6. D!Distinct(c)
    <2>1. ASSUME NEW d \in Ids \ {c} PROVE Usernames'[c] # Usernames[d]
      BY <1>1, <1>2, <1>5 DEF Usernames, FreeName, Named
    <2>2. ASSUME NEW d \in Ids \ {c}, customer[d] # NULL, NEW k \in D!Keys
          PROVE  customer'[c][k] # customer[d][k]
      BY <1>3, <1>4, <2>2 DEF Storable, Holds, Keys, D!Keys
    <2> QED
      BY <2>1, <2>2 DEF D!Distinct
  <1>7. D!Lives(c)
    BY <1>3, <1>4 DEF D!Lives, Storable
  <1>8. D!OnlyCustomer(c)
    BY <1>4, <1>5 DEF D!OnlyCustomer
  <1>9. /\ customer[c] # NULL /\ customer'[c] # NULL /\ Usernames'[c] # NULL
        /\ customer'[c].ident = customer[c].ident
    BY <1>1, <1>2, <1>4, <1>5
  <1>10. D!Amend(c)
    BY <1>3, <1>6, <1>7, <1>8, <1>9 DEF D!Amend
  <1> QED
    BY <1>1, <1>10 DEF c

LEMMA DropDrops ==
  ASSUME Inv, NEW r \in Requests, Drop(r)
  PROVE  call[r].address \in AddressIds /\ D!Drop(call[r].address)
  <1> DEFINE c == copy[r].who
             a == call[r].address
  <1>1. /\ pc[r] = "drop" /\ Unused(r) /\ customer' = MovedOut(r)
        /\ addresses' = addresses \ {a} /\ auth' = auth
    BY DEF Drop
  <1>2. a \in AddressIds
    BY <1>1, BodiesAreValid DEF Inv, Prepared, TypeOK
  <1>3. c = NULL \/ (c \in Ids /\ customer[c] # NULL)
    BY <1>1 DEF Inv, Prepared, Found
  <1>4. NULL \notin Ids /\ NULL \notin AddressIds /\ NULL \notin CustomerRow
        /\ customer \in [Ids -> CustomerRow \cup {NULL}]
    BY IdsAreNotNull DEF Inv, TypeOK
  <1>5. Usernames' = Usernames
    BY <1>1 DEF Usernames
  <1>6. \A d \in Ids \ {c} : customer[d] = NULL \/ customer[d].address # a
    BY <1>1 DEF Unused, Holds
  <1>7. CASE c = NULL
    <2>1. customer' = customer
      BY <1>1, <1>7 DEF MovedOut
    <2> QED
      BY <1>1, <1>2, <1>4, <1>5, <1>6, <1>7, <2>1 DEF D!Drop
  <1>8. CASE c \in Ids /\ customer[c] # NULL
    <2>1. customer' = [customer EXCEPT ![c].address = NULL]
      BY <1>1, <1>4, <1>8 DEF MovedOut
    <2>2. customer'[c].address = NULL
      <3>1. [customer[c] EXCEPT !.address = NULL].address = NULL
        BY <1>4, <1>8 DEF CustomerRow
      <3> QED
        BY <1>4, <1>8, <2>1, <3>1
    <2>3. \A d \in Ids \ {c} : customer'[d] = customer[d]
      BY <1>4, <2>1
    <2>4. \A d \in Ids : customer'[d] = NULL \/ customer'[d].address # a
      BY <1>2, <1>4, <1>6, <2>2, <2>3
    <2> QED
      BY <1>1, <1>2, <1>5, <1>8, <2>1, <2>4 DEF D!Drop
  <1> QED
    BY <1>3, <1>7, <1>8

LEMMA StepSimulation ==
  ASSUME Inv, [Next]_vars
  PROVE  [D!Next]_(D!vars)
  <1>1. CASE UNCHANGED tables
    BY <1>1 DEF tables, D!vars, Usernames
  <1>2. CASE UNCHANGED vars
    BY <1>1, <1>2 DEF vars, tables
  <1>3. ASSUME NEW r \in Requests, Enrolment(r) PROVE [D!Next]_(D!vars)
    <2>1. CASE \/ Load(r) \/ EmailIsFree(r) \/ PhoneIsFree(r) \/ LoadAuth(r)
               \/ UsernameIsFree(r) \/ WriteRefused(r)
      BY <1>1, <2>1 DEF Load, EmailIsFree, PhoneIsFree, LoadAuth, UsernameIsFree,
                        WriteRefused, Check, Keep, Refuse
    <2>2. CASE Insert(r)
      BY <2>2, InsertEnrols, IdsAreNotNull DEF D!Next
    <2>3. CASE Update(r)
      BY <2>3, UpdateAmends DEF D!Next
    <2> QED
      BY <1>3, <2>1, <2>2, <2>3 DEF Enrolment
  <1>4. ASSUME NEW r \in Requests, Login(r) PROVE [D!Next]_(D!vars)
    <2>1. CASE ReadAuth(r) \/ NoSuchUser(r) \/ Locked(r)
      BY <1>1, <2>1 DEF ReadAuth, NoSuchUser, Locked, Keep, Refuse
    <2>2. CASE CountMiss(r) \/ Admit(r)
      BY <2>2, CountingStutters
    <2>3. CASE Issue(r) \/ Bootstrap(r)
      <3>1. UNCHANGED <<customer, auth, addresses>>
        BY <2>3 DEF Issue, Bootstrap, Refuse, tables
      <3> QED
        BY <3>1 DEF D!vars, Usernames
    <2> QED
      BY <1>4, <2>1, <2>2, <2>3 DEF Login
  <1>5. ASSUME NEW r \in Requests, Address(r) PROVE [D!Next]_(D!vars)
    <2>1. CASE Locate(r) \/ LoadResident(r) \/ DropRefused(r)
      BY <1>1, <2>1 DEF Locate, LoadResident, DropRefused, Keep, Refuse
    <2>2. CASE Place(r)
      <3>1. D!Place(r) /\ r \in AddressIds
        BY <2>2 DEF Place, D!Place, Usernames, AddressIds
      <3> QED
        BY <3>1 DEF D!Next
    <2>3. CASE Drop(r)
      BY <2>3, DropDrops DEF D!Next
    <2> QED
      BY <1>5, <2>1, <2>2, <2>3 DEF Address
  <1>6. ASSUME NEW r \in Requests, Lose(r) PROVE [D!Next]_(D!vars)
    BY <1>1, <1>6 DEF Lose
  <1> QED
    BY <1>2, <1>3, <1>4, <1>5, <1>6 DEF Next, Finished

\* Every behaviour of the three services is one of the directory: a customer
\* appears at one instant, complete, under names that are nobody else's, and
\* keeps such names through every PATCH; nobody is left at an address that is
\* deleted, whichever statements interleave and wherever a worker dies.
THEOREM ImplementsDirectory == Spec => DirectorySpec
  <1>1. Init => D!Init
    BY DEF Init, D!Init, Usernames, InitialUsernames
  <1>2. Inv /\ [Next]_vars => [D!Next]_(D!vars)
    BY StepSimulation
  <1> QED
    BY <1>1, <1>2, Invariance, PTL DEF Spec, DirectorySpec, D!Spec
-----------------------------------------------------------------------------
(* Counting wrong passwords.  failed_attempts is written from a value read  *)
(* one statement before.  Counts says when that value is still the one of   *)
(* the row: a customer whose logins never met has at most one under way,    *)
(* and it has read what the row holds.  It needs Inv: a login in flight has *)
(* found its customer, so a row being inserted has none.                    *)

\* What the row says of c, against the history.
Heeded(c) ==
  IF auth[c] = NULL THEN heard[c].since = 0
  ELSE /\ ~heard[c].mixed => auth[c].failed = heard[c].since
       /\ auth[c].failed <= heard[c].ever

\* What the logins of c have read of it.
ReadsHold(c) ==
  \A r \in InLogin(c) :
    /\ copy[r].auth.failed <= heard[c].ever
    /\ ~heard[c].mixed => /\ copy[r].auth.failed = auth[c].failed
                          /\ InLogin(c) = {r}

Counts == \A c \in Ids : Heeded(c) /\ ReadsHold(c)

Verifying == {"count", "admit"}
Elsewhere == (Steps \cup Answers) \ (Verifying \cup {"issue"})

\* A step that counts nothing and resets nothing.
FailuresKept(c) ==
  IF auth[c] = NULL THEN auth'[c] = NULL \/ auth'[c].failed = 0
  ELSE auth'[c] # NULL /\ auth'[c].failed = auth[c].failed

\* r moves on, but not to the count or the reset of a login.
Leaves(r) ==
  \E step \in Elsewhere, seen \in Copy :
    /\ Goto(r, step)
    /\ copy' = [copy EXCEPT ![r] = seen]
    /\ UNCHANGED heard
    /\ \A c \in Ids : FailuresKept(c)

LEMMA InitCounts == Init => Counts
  <1> SUFFICES ASSUME Init, NEW c \in Ids PROVE Heeded(c) /\ ReadsHold(c)
    BY DEF Counts
  <1>1. auth[c] # NULL => auth[c].failed \in Nat
    BY InitInv DEF Inv, TypeOK, AuthRow
  <1>2. Heeded(c)
    BY <1>1 DEF Init, Heeded
  <1>3. InLogin(c) = {}
    <2>1. \A r \in Requests : call[r].kind \in
            {"register", "create", "update", "login", "bootstrap", "place", "drop"}
      BY CallFields DEF Init
    <2>2. \A r \in Requests : pc[r] \notin {"count", "admit"}
      <3> TAKE r \in Requests
      <3>1. pc[r] = FirstStep[call[r].kind]
        BY DEF Init
      <3> QED
        BY <2>1, <3>1 DEF FirstStep
    <2> QED
      BY <2>2 DEF InLogin
  <1> QED
    BY <1>2, <1>3 DEF ReadsHold

\* A login in flight has found its customer and read its row.
LEMMA InLoginHasRead ==
  ASSUME Inv, NEW c \in Ids, NEW r \in InLogin(c)
  PROVE  /\ r \in Requests /\ copy[r].who = c /\ copy[r].auth \in AuthRow
         /\ auth[c] \in AuthRow /\ auth[c] # NULL
  <1>1. /\ r \in Requests /\ pc[r] \in {"count", "admit"} /\ copy[r].who = c
    BY DEF InLogin
  <1>2. Found(r) /\ copy[r].auth \in AuthRow
    BY <1>1 DEF Inv, Prepared
  <1> QED
    BY <1>1, <1>2 DEF Found, Inv, TypeOK, Paired

\* One request moves: the logins of the others are where they were.
LEMMA OthersStay ==
  ASSUME Inv, NEW r \in Requests, NEW step, NEW seen, Goto(r, step),
         copy' = [copy EXCEPT ![r] = seen]
  PROVE  /\ pc'[r] = step /\ copy'[r] = seen
         /\ \A q \in Requests \ {r} : copy'[q] = copy[q] /\ pc'[q] = pc[q]
  BY DEF Goto, Inv, TypeOK

LEMMA LeavingKeepsCounts ==
  ASSUME Inv, Counts, NEW r \in Requests, Leaves(r)
  PROVE  Counts'
  <1> SUFFICES ASSUME NEW c \in Ids PROVE Heeded(c)' /\ ReadsHold(c)'
    BY DEF Counts
  <1>1. PICK step \in Elsewhere, seen \in Copy :
          /\ Goto(r, step)
          /\ copy' = [copy EXCEPT ![r] = seen]
          /\ UNCHANGED heard
          /\ \A d \in Ids : FailuresKept(d)
    BY DEF Leaves
  <1>2. /\ \A q \in Requests \ {r} : copy'[q] = copy[q]
        /\ InLogin(c)' = InLogin(c) \ {r}
    <2>1. step \notin Verifying
      BY DEF Elsewhere
    <2>2. /\ pc'[r] = step
          /\ \A q \in Requests \ {r} : copy'[q] = copy[q] /\ pc'[q] = pc[q]
      BY <1>1, OthersStay
    <2> QED
      BY <2>1, <2>2 DEF InLogin, Verifying
  <1>3. Heeded(c) /\ ReadsHold(c) /\ FailuresKept(c) /\ heard'[c] = heard[c]
        /\ heard[c].ever \in Nat
    BY <1>1 DEF Counts, Inv, TypeOK, Heard
  <1>4. Heeded(c)'
    BY <1>3 DEF Heeded, FailuresKept
  <1>5. ReadsHold(c)'
    <2> SUFFICES ASSUME NEW q \in InLogin(c)'
                 PROVE  /\ copy'[q].auth.failed <= heard'[c].ever
                        /\ ~heard'[c].mixed =>
                             /\ copy'[q].auth.failed = auth'[c].failed
                             /\ InLogin(c)' = {q}
      BY DEF ReadsHold
    <2>1. q \in InLogin(c) /\ q # r /\ q \in Requests /\ copy'[q] = copy[q]
      BY <1>2 DEF InLogin
    <2>2. auth'[c].failed = auth[c].failed
      BY <1>3, <2>1, InLoginHasRead DEF FailuresKept
    <2> QED
      BY <1>2, <1>3, <2>1, <2>2 DEF ReadsHold
  <1> QED
    BY <1>4, <1>5

\* Reading the row is what makes two logins overlap.
LEMMA ReadAuthKeepsCounts ==
  ASSUME Inv, Counts, NEW r \in Requests, ReadAuth(r)
  PROVE  Counts'
  <1> SUFFICES ASSUME NEW d \in Ids PROVE Heeded(d)' /\ ReadsHold(d)'
    BY DEF Counts
  <1>1. PICK c \in Ids :
          /\ Named(c, call[r].username)
          /\ Keep(r, [who |-> c, row |-> NULL, auth |-> auth[c]],
                  IF call[r].password = c THEN "admit" ELSE "count")
          /\ heard' = [heard EXCEPT ![c].mixed = @ \/ InLogin(c) # {}]
    BY DEF ReadAuth
  <1> DEFINE seen == [who |-> c, row |-> NULL, auth |-> auth[c]]
             step == IF call[r].password = c THEN "admit" ELSE "count"
  <1>2. step \in Verifying /\ seen.who = c /\ seen.auth = auth[c]
    BY DEF Verifying
  <1>3. /\ Goto(r, step) /\ copy' = [copy EXCEPT ![r] = seen] /\ auth' = auth
    BY <1>1 DEF Keep, tables
  <1> HIDE DEF seen, step
  <1>4. /\ copy'[r] = seen
        /\ \A q \in Requests \ {r} : copy'[q] = copy[q]
        /\ InLogin(d)' \ {r} = InLogin(d) \ {r}
        /\ r \in InLogin(d)' <=> d = c
    <2>1. /\ pc'[r] = step /\ copy'[r] = seen
          /\ \A q \in Requests \ {r} : copy'[q] = copy[q] /\ pc'[q] = pc[q]
      BY <1>3, OthersStay
    <2> QED
      BY <1>2, <2>1 DEF InLogin, Verifying
  <1>5. r \notin InLogin(d)
    BY DEF ReadAuth, InLogin
  <1>6. Heeded(d) /\ ReadsHold(d)
    BY DEF Counts
  <1>7. /\ heard'[d].ever = heard[d].ever /\ heard'[d].since = heard[d].since
        /\ d # c => heard'[d].mixed = heard[d].mixed
        /\ d = c => (~heard'[d].mixed => ~heard[d].mixed /\ InLogin(d) = {})
    <2>1. heard[d] \in Heard /\ heard \in [Ids -> Heard]
      BY DEF Inv, TypeOK
    <2>2. CASE d = c
      <3> DEFINE b == heard[d].mixed \/ InLogin(d) # {}
      <3>1. heard'[d] = [heard[d] EXCEPT !.mixed = b]
        BY <1>1, <2>1, <2>2
      <3>2. b \in BOOLEAN
        OBVIOUS
      <3>3. /\ [heard[d] EXCEPT !.mixed = b].mixed = b
            /\ [heard[d] EXCEPT !.mixed = b].ever = heard[d].ever
            /\ [heard[d] EXCEPT !.mixed = b].since = heard[d].since
        BY <2>1 DEF Heard
      <3> QED
        BY <2>2, <3>1, <3>3
    <2>3. CASE d # c
      BY <1>1, <2>1, <2>3
    <2> QED
      BY <2>2, <2>3
  <1>8. Heeded(d)'
    BY <1>3, <1>6, <1>7 DEF Heeded
  <1>9. ReadsHold(d)'
    <2> SUFFICES ASSUME NEW q \in InLogin(d)'
                 PROVE  /\ copy'[q].auth.failed <= heard'[d].ever
                        /\ ~heard'[d].mixed =>
                             /\ copy'[q].auth.failed = auth'[d].failed
                             /\ InLogin(d)' = {q}
      BY DEF ReadsHold
    <2>1. CASE q = r
      <3>1. d = c /\ copy'[q].auth = auth[d]
        BY <1>2, <1>4, <2>1
      <3>2. auth[d].failed <= heard[d].ever
        BY <1>1, <1>6, <3>1 DEF Heeded, Named
      <3>3. ~heard'[d].mixed => InLogin(d)' = {r}
        BY <1>4, <1>7, <3>1, <2>1
      <3> QED
        BY <1>3, <1>7, <2>1, <3>1, <3>2, <3>3
    <2>2. CASE q # r
      <3>1. q \in InLogin(d) /\ q \in Requests /\ copy'[q] = copy[q]
        BY <1>4, <2>2 DEF InLogin
      <3>2. CASE d = c
        BY <1>6, <1>7, <3>1, <3>2 DEF ReadsHold
      <3>3. CASE d # c
        <4>1. InLogin(d)' = InLogin(d)
          BY <1>4, <1>5, <3>3
        <4> QED
          BY <1>3, <1>6, <1>7, <3>1, <3>3, <4>1 DEF ReadsHold
      <3> QED
        BY <3>2, <3>3
    <2> QED
      BY <2>1, <2>2
  <1> QED
    BY <1>8, <1>9

\* What the two writes of a login do to the rows of the others, and to its own.
LEMMA OneCounted ==
  ASSUME Inv, NEW r \in Requests, CountMiss(r) \/ Admit(r)
  PROVE  /\ copy[r].who \in Ids /\ r \in InLogin(copy[r].who)
         /\ \A d \in Ids \ {copy[r].who} : auth'[d] = auth[d] /\ heard'[d] = heard[d]
         /\ auth'[copy[r].who] # NULL
         /\ auth'[copy[r].who].failed =
              IF CountMiss(r) THEN copy[r].auth.failed + 1
              ELSE IF copy[r].auth.failed = 0 THEN auth[copy[r].who].failed ELSE 0
         /\ heard'[copy[r].who].mixed = heard[copy[r].who].mixed
         /\ heard'[copy[r].who].since =
              IF CountMiss(r) THEN heard[copy[r].who].since + 1 ELSE 0
         /\ heard'[copy[r].who].ever =
              IF CountMiss(r) THEN heard[copy[r].who].ever + 1
              ELSE heard[copy[r].who].ever
  <1> DEFINE c == copy[r].who
             n == IF CountMiss(r) THEN copy[r].auth.failed + 1
                  ELSE IF copy[r].auth.failed = 0 THEN auth[c].failed ELSE 0
             h == IF CountMiss(r)
                    THEN [heard[c] EXCEPT !.ever = @ + 1, !.since = @ + 1]
                    ELSE [heard[c] EXCEPT !.since = 0]
  <1>1. pc[r] \in {"count", "admit"}
    BY DEF CountMiss, Admit
  <1>2. Found(r)
    BY <1>1 DEF Inv, Prepared
  <1>3. c \in Ids /\ r \in InLogin(c) /\ auth[c] \in AuthRow /\ heard[c] \in Heard
    BY <1>1, <1>2 DEF Found, InLogin, Inv, TypeOK, Paired
  <1>4. auth \in [Ids -> AuthRow \cup {NULL}] /\ heard \in [Ids -> Heard]
    BY DEF Inv, TypeOK
  <1>5. auth' = [auth EXCEPT ![c] = [auth[c] EXCEPT !.failed = n]]
        /\ heard' = [heard EXCEPT ![c] = h]
    <2>1. CASE CountMiss(r)
      BY <1>3, <1>4, <2>1 DEF CountMiss
    <2>2. CASE ~CountMiss(r)
      BY <1>3, <1>4, <2>2 DEF Admit
    <2> QED
      BY <2>1, <2>2
  <1>6. /\ [auth[c] EXCEPT !.failed = n].failed = n
    BY <1>3 DEF AuthRow
  <1>7. /\ h.mixed = heard[c].mixed
        /\ h.since = IF CountMiss(r) THEN heard[c].since + 1 ELSE 0
        /\ h.ever = IF CountMiss(r) THEN heard[c].ever + 1 ELSE heard[c].ever
    BY <1>3 DEF Heard
  <1>8. auth'[c] # NULL
    <2>1. Inv' /\ customer' = customer
      BY CountMissKeepsInv, AdmitKeepsInv DEF CountMiss, Admit
    <2> QED
      BY <1>2, <1>3, <2>1 DEF Found, Inv, Paired
  <1> HIDE DEF n, h, c
  <1>9. /\ auth'[c].failed = n /\ heard'[c] = h
        /\ \A d \in Ids \ {c} : auth'[d] = auth[d] /\ heard'[d] = heard[d]
    BY <1>3, <1>4, <1>5, <1>6
  <1> QED
    BY <1>3, <1>7, <1>8, <1>9 DEF n, c

LEMMA CountingKeepsCounts ==
  ASSUME Inv, Counts, NEW r \in Requests, CountMiss(r) \/ Admit(r)
  PROVE  Counts'
  <1>0. PICK c \in Ids : c = copy[r].who
    BY OneCounted
  <1>1. r \in InLogin(c) /\ copy[r].auth.failed \in Nat
        /\ auth[c].failed \in Nat /\ auth[c] # NULL /\ heard[c] \in Heard
    BY <1>0, OneCounted, InLoginHasRead DEF AuthRow, Inv, TypeOK
  <1>2. /\ pc'[r] \notin Verifying
        /\ \A q \in Requests \ {r} : copy'[q] = copy[q] /\ pc'[q] = pc[q]
    <2>1. PICK step \in (Steps \cup Answers) \ Verifying, seen \in Copy :
            Goto(r, step) /\ copy' = [copy EXCEPT ![r] = seen]
      <3>1. /\ "refused" \in (Steps \cup Answers) \ Verifying
            /\ "issue" \in (Steps \cup Answers) \ Verifying
            /\ NothingRead \in Copy /\ copy[r] \in Copy
        BY NothingIsACopy DEF Steps, Answers, Verifying, Inv, TypeOK
      <3>2. CASE CountMiss(r)
        BY <3>1, <3>2 DEF CountMiss, Finish
      <3>3. CASE Admit(r)
        <4>1. copy' = [copy EXCEPT ![r] = copy[r]] /\ Goto(r, "issue")
          BY <3>3 DEF Admit, Inv, TypeOK
        <4> QED
          BY <3>1, <4>1
      <3> QED
        BY <3>2, <3>3
    <2> QED
      BY <2>1, OthersStay
  <1>3. ASSUME NEW d \in Ids \ {c} PROVE Heeded(d)' /\ ReadsHold(d)'
    <2>1. r \notin InLogin(d)
      BY <1>0 DEF InLogin
    <2>2. /\ InLogin(d)' = InLogin(d)
          /\ \A q \in InLogin(d) : copy'[q] = copy[q]
      BY <1>2, <2>1 DEF InLogin, Verifying
    <2>3. auth'[d] = auth[d] /\ heard'[d] = heard[d]
      BY <1>0, OneCounted
    <2>4. Heeded(d) /\ ReadsHold(d)
      BY DEF Counts
    <2> QED
      BY <2>2, <2>3, <2>4 DEF Heeded, ReadsHold
  <1>4. Heeded(c) /\ ReadsHold(c)
    BY <1>1 DEF Counts
  <1>5. /\ InLogin(c)' = InLogin(c) \ {r}
        /\ copy[r].auth.failed <= heard[c].ever
        /\ ~heard[c].mixed => /\ copy[r].auth.failed = auth[c].failed
                              /\ InLogin(c)' = {}
    <2>1. InLogin(c)' = InLogin(c) \ {r}
      BY <1>2 DEF InLogin, Verifying
    <2> QED
      BY <1>1, <1>4, <2>1 DEF ReadsHold
  <1>6. /\ auth'[c] # NULL /\ heard'[c].mixed = heard[c].mixed
        /\ heard'[c].ever \in Nat /\ heard[c].ever <= heard'[c].ever
        /\ CountMiss(r) => /\ auth'[c].failed = copy[r].auth.failed + 1
                           /\ heard'[c].since = heard[c].since + 1
                           /\ heard'[c].ever = heard[c].ever + 1
        /\ ~CountMiss(r) =>
             /\ auth'[c].failed =
                  IF copy[r].auth.failed = 0 THEN auth[c].failed ELSE 0
             /\ heard'[c].since = 0
    <2>1. heard[c].ever \in Nat
      BY <1>1 DEF Heard
    <2> QED
      BY <1>0, <2>1, OneCounted
  <1>7. Heeded(c)'
    BY <1>1, <1>4, <1>5, <1>6 DEF Heeded, Heard
  <1>8. ReadsHold(c)'
    <2> SUFFICES ASSUME NEW q \in InLogin(c)'
                 PROVE  /\ copy'[q].auth.failed <= heard'[c].ever
                        /\ heard'[c].mixed
      BY DEF ReadsHold
    <2>1. q \in InLogin(c) /\ copy'[q] = copy[q] /\ copy[q].auth.failed \in Nat
      BY <1>1, <1>2, <1>5, InLoginHasRead DEF AuthRow, InLogin
    <2>2. copy[q].auth.failed <= heard[c].ever /\ heard[c].ever \in Nat
      BY <1>1, <1>4, <2>1 DEF ReadsHold, Heard
    <2> QED
      BY <1>1, <1>5, <1>6, <2>1, <2>2
  <1> QED
    BY <1>3, <1>7, <1>8 DEF Counts

\* Every other step moves on without touching the count.
LEMMA OthersLeave ==
  ASSUME Inv, NEW r \in Requests,
         Enrolment(r) \/ Login(r) \/ Address(r) \/ Lose(r),
         ~ReadAuth(r), ~CountMiss(r), ~Admit(r)
  PROVE  Leaves(r)
  <1>1. copy[r] \in Copy /\ NothingRead \in Copy
    BY NothingIsACopy DEF Inv, TypeOK
  <1>2. ASSUME NEW answer \in Answers, Finish(r, answer), UNCHANGED <<auth, heard>>
        PROVE  Leaves(r)
    <2>1. answer \in Elsewhere
      BY DEF Answers, Elsewhere, Verifying
    <2>2. \A c \in Ids : FailuresKept(c)
      BY <1>2 DEF FailuresKept
    <2> QED
      BY <1>1, <1>2, <2>1, <2>2 DEF Leaves, Finish
  <1>3. "ok" \in Answers /\ "refused" \in Answers /\ "lost" \in Answers
    BY DEF Answers
  <1>4. Refuse(r) => Leaves(r)
    BY <1>2, <1>3 DEF Refuse, tables
  <1>5. ASSUME NEW step \in Steps \cap Elsewhere, NEW seen \in Copy,
               Keep(r, seen, step), UNCHANGED heard
        PROVE  Leaves(r)
    <2>1. \A c \in Ids : FailuresKept(c)
      BY <1>5 DEF FailuresKept, Keep, tables
    <2> QED
      BY <1>5, <2>1 DEF Leaves, Keep
  <1>6. ASSUME NEW taken, NEW step \in Steps \cap Elsewhere,
               Check(r, taken, step)
        PROVE  Leaves(r)
    BY <1>1, <1>4, <1>5, <1>6 DEF Check
  <1>7. /\ AfterPhone(r) \in Steps \cap Elsewhere /\ AfterEmail(r) \in Steps \cap Elsewhere
        /\ \A seen : AfterLoad(r, seen) \in Steps \cap Elsewhere
    BY DEF AfterPhone, AfterEmail, AfterLoad, Steps, Elsewhere, Verifying
  <1>8. CASE Load(r)
    <2>1. call[r].kind = "update" /\ call[r].customer \in Ids
      BY <1>8, BodiesAreValid DEF Load, Inv, Prepared, TypeOK
    <2> DEFINE c == call[r].customer
    <2>2. CASE Refuse(r)
      BY <1>4, <2>2
    <2>3. CASE /\ customer[c] # NULL /\ UNCHANGED heard
               /\ Keep(r, [who |-> c, row |-> customer[c], auth |-> NULL],
                       AfterLoad(r, customer[c]))
      <3>1. [who |-> c, row |-> customer[c], auth |-> NULL] \in Copy
        BY <2>1, <2>3 DEF Inv, TypeOK, Copy
      <3> QED
        BY <1>5, <1>7, <2>3, <3>1
    <2> QED
      BY <1>8, <2>2, <2>3 DEF Load
  <1>9. CASE EmailIsFree(r) \/ PhoneIsFree(r)
    BY <1>6, <1>7, <1>9 DEF EmailIsFree, PhoneIsFree
  <1>10. CASE LoadAuth(r)
    <2> DEFINE login == auth[copy[r].who]
    <2>1. CASE Refuse(r)
      BY <1>4, <2>1
    <2>2. CASE /\ login # NULL /\ UNCHANGED heard
               /\ Keep(r, [copy[r] EXCEPT !.auth = login], "username")
      <3>1. login \in AuthRow
        <4>1. pc[r] = "auth"
          BY <1>10 DEF LoadAuth
        <4>2. Found(r)
          BY <4>1 DEF Inv, Prepared
        <4> QED
          BY <2>2, <4>2 DEF Found, Inv, TypeOK
      <3>2. [copy[r] EXCEPT !.auth = login] \in Copy
        BY <1>1, <3>1 DEF Copy
      <3>3. "username" \in Steps \cap Elsewhere
        BY DEF Steps, Elsewhere, Verifying
      <3> QED
        BY <1>5, <2>2, <3>2, <3>3
    <2> QED
      BY <1>10, <2>1, <2>2 DEF LoadAuth
  <1>11. CASE UsernameIsFree(r)
    <2>1. (IF call[r].kind = "update" THEN "write" ELSE "insert")
            \in Steps \cap Elsewhere
      BY DEF Steps, Elsewhere, Verifying
    <2> QED
      BY <1>6, <1>11, <2>1 DEF UsernameIsFree
  <1>12. CASE Insert(r)
    <2>1. /\ NewAuth(r) \in AuthRow /\ auth[r] = NULL /\ r \in Ids
          /\ NewAuth(r).failed = 0
      BY <1>12, NewRowIsARow DEF NewAuth
    <2>2. auth \in [Ids -> AuthRow \cup {NULL}] /\ auth' = [auth EXCEPT ![r] = NewAuth(r)]
      BY <1>12 DEF Insert, Inv, TypeOK
    <2> HIDE DEF NewAuth
    <2>3. \A c \in Ids : FailuresKept(c)
      BY <2>1, <2>2 DEF FailuresKept
    <2>4. "ok" \in Elsewhere
      BY DEF Answers, Elsewhere, Verifying
    <2> QED
      BY <1>1, <1>12, <2>3, <2>4 DEF Insert, Finish, Leaves
  <1>13. CASE Update(r)
    <2> DEFINE c == copy[r].who
    <2>1. c \in Ids /\ auth[c] \in AuthRow /\ Relogin(r) \in AuthRow
      BY <1>13, AmendedIsARow
    <2>2. Relogin(r).failed = auth[c].failed
      BY <2>1 DEF Relogin, AuthRow
    <2>3. /\ auth \in [Ids -> AuthRow \cup {NULL}] /\ NULL \notin AuthRow
          /\ auth' = [auth EXCEPT ![c] = Relogin(r)]
      BY <1>13, IdsAreNotNull DEF Update, Inv, TypeOK
    <2> HIDE DEF c
    <2>4. \A d \in Ids : FailuresKept(d)
      BY <2>1, <2>2, <2>3 DEF FailuresKept
    <2>5. "ok" \in Elsewhere
      BY DEF Answers, Elsewhere, Verifying
    <2> QED
      BY <1>1, <1>13, <2>4, <2>5 DEF Update, Finish, Leaves
  <1>14. CASE WriteRefused(r) \/ NoSuchUser(r) \/ Locked(r) \/ DropRefused(r)
    BY <1>4, <1>14 DEF WriteRefused, NoSuchUser, Locked, DropRefused
  <1>15. CASE Issue(r) \/ Bootstrap(r)
    BY <1>2, <1>3, <1>4, <1>15 DEF Issue, Bootstrap
  <1>16. CASE Place(r) \/ Drop(r) \/ Lose(r)
    BY <1>2, <1>3, <1>16 DEF Place, Drop, Lose, tables
  <1>17. CASE Locate(r)
    <2>1. "child" \in Steps \cap Elsewhere
      BY DEF Steps, Elsewhere, Verifying
    <2> QED
      BY <1>1, <1>4, <1>5, <1>17, <2>1 DEF Locate
  <1>18. CASE LoadResident(r)
    <2>1. PICK c \in Residents(call[r].address) \cup {NULL} :
            Keep(r, [NothingRead EXCEPT !.who = c], "drop")
      BY <1>18 DEF LoadResident
    <2>2. [NothingRead EXCEPT !.who = c] \in Copy /\ "drop" \in Steps \cap Elsewhere
      BY <2>1 DEF NothingRead, Copy, Residents, Steps, Elsewhere, Verifying
    <2> QED
      BY <1>5, <1>18, <2>1, <2>2 DEF LoadResident
  <1> QED
    BY <1>8, <1>9, <1>10, <1>11, <1>12, <1>13, <1>14, <1>15, <1>16, <1>17, <1>18
       DEF Enrolment, Login, Address

LEMMA NextKeepsCounts == Inv /\ Counts /\ [Next]_vars => Counts'
  <1> SUFFICES ASSUME Inv, Counts, [Next]_vars PROVE Counts'
    OBVIOUS
  <1>1. CASE UNCHANGED vars
    BY <1>1 DEF vars, tables, Counts, Heeded, ReadsHold, InLogin
  <1>2. ASSUME NEW r \in Requests, Enrolment(r) \/ Login(r) \/ Address(r) \/ Lose(r)
        PROVE  Counts'
    BY <1>2, ReadAuthKeepsCounts, CountingKeepsCounts, OthersLeave,
       LeavingKeepsCounts
  <1> QED
    BY <1>1, <1>2 DEF Next, Finished

\* auth_service.py:98, :104: while no two logins of a customer overlap,
\* failed_attempts is exactly the wrong passwords since the last success,
\* PATCHes of the username and workers that die notwithstanding; logins that
\* overlap lose counts or undo a reset, but nobody is ever charged with more
\* wrong passwords than were given.
THEOREM FailuresAreCountedAlways == Spec => []FailuresAreCounted
  <1>1. Counts => FailuresAreCounted
    BY DEF Counts, Heeded, FailuresAreCounted
  <1> QED
    BY <1>1, Invariance, InitCounts, NextKeepsCounts, PTL DEF Spec

LEMMA LockHolds ==
  ASSUME Inv, Counts, [Next]_vars, NEW c \in Ids,
         auth[c] # NULL, auth[c].failed >= MaxFailedAttempts
  PROVE  auth'[c].failed >= MaxFailedAttempts \/ heard[c].mixed
  <1>1. CASE UNCHANGED auth
    BY <1>1
  <1>2. ASSUME NEW r \in Requests, Leaves(r)
        PROVE  auth'[c].failed >= MaxFailedAttempts
    BY <1>2 DEF Leaves, FailuresKept
  <1>3. ASSUME NEW r \in Requests, CountMiss(r) \/ Admit(r), ~heard[c].mixed
        PROVE  auth'[c].failed >= MaxFailedAttempts
    <2>1. CASE copy[r].who # c
      BY <1>3, <2>1, OneCounted
    <2>2. CASE copy[r].who = c
      <3>1. r \in InLogin(c) /\ auth[c].failed \in Nat
        BY <1>3, <2>2, OneCounted, InLoginHasRead DEF AuthRow
      <3>2. copy[r].auth.failed = auth[c].failed
        BY <1>3, <3>1 DEF Counts, ReadsHold
      <3>3. CountMiss(r)
        BY <1>3, <3>1, <3>2, LockoutIsPositive DEF Admit
      <3>4. auth'[c].failed = auth[c].failed + 1
        BY <1>3, <2>2, <3>2, <3>3, OneCounted
      <3> QED
        BY <3>1, <3>4, LockoutIsPositive
    <2> QED
      BY <2>1, <2>2
  <1>4. ASSUME NEW r \in Requests, Enrolment(r) \/ Login(r) \/ Address(r) \/ Lose(r)
        PROVE  auth'[c].failed >= MaxFailedAttempts \/ heard[c].mixed
    <2>1. CASE ReadAuth(r)
      BY <1>1, <2>1 DEF ReadAuth, Keep, tables
    <2> QED
      BY <1>2, <1>3, <1>4, <2>1, OthersLeave
  <1> QED
    BY <1>1, <1>4 DEF Next, Finished, vars, tables

\* MAX_FAILED_LOGIN_ATTEMPTS: the lock of a customer comes off only where two
\* of its logins have overlapped, whatever else happens to its row.
THEOREM LockNeedsOverlapAlways == Spec => LockNeedsOverlap
  <1>1. Inv /\ Counts /\ [Next]_vars =>
          [\A c \in Ids :
             auth[c] # NULL /\ auth[c].failed >= MaxFailedAttempts =>
               auth'[c].failed >= MaxFailedAttempts \/ heard[c].mixed]_vars
    BY LockHolds
  <1> QED
    BY <1>1, Invariance, InitCounts, NextKeepsCounts, PTL
       DEF Spec, LockNeedsOverlap

-----------------------------------------------------------------------------
(* Sessions of logins *)

\* From the SELECT on, the customer a login holds is the one whose password
\* was verified.
PasswordVerified(r) ==
  call[r].kind = "login" =>
    /\ pc[r] \in {"admit", "issue"} => copy[r].who = call[r].password
    /\ sessions[r] # NULL => sessions[r] = call[r].password

Verified == \A r \in Requests : PasswordVerified(r)

LEMMA InitVerified == Init => Verified
  <1> SUFFICES ASSUME Init, NEW r \in Requests, call[r].kind = "login"
               PROVE  pc[r] \notin {"admit", "issue"} /\ sessions[r] = NULL
    BY DEF Verified, PasswordVerified
  <1> QED
    BY DEF Init, FirstStep

\* The one request that moves.
LEMMA MovingKeepsVerified ==
  ASSUME Inv, Verified, NEW r \in Requests, NEW step, NEW seen,
         Goto(r, step), copy' = [copy EXCEPT ![r] = seen],
         \A q \in Requests \ {r} : sessions'[q] = sessions[q],
         call[r].kind = "login" =>
           /\ step \in {"admit", "issue"} => seen.who = call[r].password
           /\ sessions'[r] \in {sessions[r], call[r].password}
  PROVE  Verified'
  <1>1. /\ pc'[r] = step /\ copy'[r] = seen /\ call' = call
        /\ \A q \in Requests \ {r} : copy'[q] = copy[q] /\ pc'[q] = pc[q]
    BY DEF Goto, Inv, TypeOK
  <1>2. ASSUME NEW q \in Requests PROVE PasswordVerified(q)'
    <2>1. CASE q = r
      BY <1>1, <2>1 DEF Verified, PasswordVerified
    <2>2. CASE q # r
      BY <1>1, <2>2 DEF Verified, PasswordVerified
    <2> QED
      BY <2>1, <2>2
  <1> QED
    BY <1>2 DEF Verified

LEMMA NextKeepsVerified == Inv /\ Verified /\ [Next]_vars => Verified'
  <1> SUFFICES ASSUME Inv, Verified, [Next]_vars PROVE Verified'
    OBVIOUS
  <1>1. CASE UNCHANGED vars
    BY <1>1 DEF vars, tables, Verified, PasswordVerified
  <1>2. ASSUME NEW r \in Requests, Enrolment(r) \/ Login(r) \/ Address(r) \/ Lose(r)
        PROVE  Verified'
    <2>1. CASE ReadAuth(r)
      <3>1. PICK c \in Ids :
              Keep(r, [who |-> c, row |-> NULL, auth |-> auth[c]],
                   IF call[r].password = c THEN "admit" ELSE "count")
        BY <2>1 DEF ReadAuth
      <3> DEFINE seen == [who |-> c, row |-> NULL, auth |-> auth[c]]
                 step == IF call[r].password = c THEN "admit" ELSE "count"
      <3>2. step \in {"admit", "issue"} => seen.who = call[r].password
        OBVIOUS
      <3>3. Goto(r, step) /\ copy' = [copy EXCEPT ![r] = seen] /\ sessions' = sessions
        BY <3>1 DEF Keep, tables
      <3> HIDE DEF seen, step
      <3> QED
        BY <3>2, <3>3, MovingKeepsVerified
    <2>2. CASE CountMiss(r)
      BY <2>2, MovingKeepsVerified DEF CountMiss, Finish
    <2>3. CASE Admit(r)
      <3>1. /\ copy' = [copy EXCEPT ![r] = copy[r]] /\ Goto(r, "issue")
            /\ sessions' = sessions
        BY <2>3 DEF Admit, Inv, TypeOK
      <3>2. call[r].kind = "login" => copy[r].who = call[r].password
        BY <2>3 DEF Admit, Verified, PasswordVerified
      <3> QED
        BY <3>1, <3>2, MovingKeepsVerified
    <2>4. CASE Issue(r)
      <3>1. /\ copy' = [copy EXCEPT ![r] = NothingRead] /\ Goto(r, "ok")
            /\ sessions' = [sessions EXCEPT ![r] = copy[r].who]
            /\ sessions \in [Requests -> Ids \cup {NULL}]
        BY <2>4 DEF Issue, Finish, Inv, TypeOK
      <3>2. call[r].kind = "login" => copy[r].who = call[r].password
        BY <2>4 DEF Issue, Verified, PasswordVerified
      <3>3. /\ sessions'[r] = copy[r].who
            /\ \A q \in Requests \ {r} : sessions'[q] = sessions[q]
        BY <3>1
      <3> QED
        BY <3>1, <3>2, <3>3, MovingKeepsVerified
    <2>5. CASE Bootstrap(r)
      <3>1. call[r].kind # "login"
        BY <2>5 DEF Bootstrap, Inv, Prepared
      <3>2. \A q \in Requests \ {r} : sessions'[q] = sessions[q]
        BY <2>5 DEF Bootstrap, Refuse, tables, Inv, TypeOK
      <3>3. PICK answer : Finish(r, answer)
        BY <2>5 DEF Bootstrap, Refuse
      <3> QED
        BY <3>1, <3>2, <3>3, MovingKeepsVerified DEF Finish
    <2>6. CASE ~ReadAuth(r) /\ ~CountMiss(r) /\ ~Admit(r) /\ ~Issue(r) /\ ~Bootstrap(r)
      <3>1. PICK step \in Elsewhere, seen \in Copy :
              Goto(r, step) /\ copy' = [copy EXCEPT ![r] = seen]
        BY <1>2, <2>6, OthersLeave DEF Leaves
      <3>2. sessions' = sessions
        <4>1. CASE Enrolment(r)
          BY <4>1 DEF Enrolment, Load, EmailIsFree, PhoneIsFree, LoadAuth,
                      UsernameIsFree, Insert, Update, WriteRefused, Check, Keep,
                      Refuse, tables
        <4>2. CASE Login(r)
          BY <2>6, <4>2 DEF Login, NoSuchUser, Locked, Refuse, tables
        <4>3. CASE Address(r) \/ Lose(r)
          BY <4>3 DEF Address, Place, Locate, LoadResident, Drop, DropRefused,
                      Lose, Keep, Refuse, tables
        <4> QED
          BY <1>2, <4>1, <4>2, <4>3
      <3>3. step \notin {"admit", "issue"}
        BY DEF Elsewhere, Verifying
      <3> QED
        BY <3>1, <3>2, <3>3, MovingKeepsVerified
    <2> QED
      BY <2>1, <2>2, <2>3, <2>4, <2>5, <2>6
  <1> QED
    BY <1>1, <1>2 DEF Next, Finished

\* A session that a login answers with is of the customer whose password was
\* verified, although the username may have passed to another customer between
\* the SELECT and the issue (auth_service.py:85-109).
THEOREM SessionsAreVerifiedAlways == Spec => []SessionsAreVerified
  <1>1. Verified => SessionsAreVerified
    BY DEF Verified, PasswordVerified, SessionsAreVerified
  <1> QED
    BY <1>1, Invariance, InitVerified, NextKeepsVerified, PTL DEF Spec
=============================================================================
