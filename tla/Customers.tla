------------------------------ MODULE Customers ------------------------------
(***************************************************************************)
(* Tables customers, user_auths and addresses, and the login sessions,     *)
(* under the requests of services/auth_service.py, customer_service.py and *)
(* address_service.py.  Each request runs on a thread of its own with a    *)
(* database session of its own (READ COMMITTED, no autoflush): one action  *)
(* per SELECT, and one for the statements of a flush with their COMMIT,    *)
(* since nobody sees their rows before it.  Uniqueness is looked for in    *)
(* SELECTs and kept by the UNIQUE constraints; a statement they refuse is  *)
(* answered 503.                                                           *)
(***************************************************************************)
EXTENDS Naturals

CONSTANTS
  Requests,          \* the requests in flight
  Enrolled,          \* customers of the start
  Homes,             \* addresses of the start
  InitialCustomer,   \* their rows of table customers
  InitialAuth,       \* their rows of table user_auths
  Names,             \* usernames, emails, phone and identity numbers
  MaxFailedAttempts, \* MAX_FAILED_LOGIN_ATTEMPTS
  Calls,             \* what a request may ask for
  Unset,             \* a field the body does not have
  NULL               \* SQL NULL, an explicit null, a row that is not there

\* A request that adds a row gives it its key: uuid_generate_v4() never
\* repeats one.
Ids == Enrolled \cup Requests
AddressIds == Homes \cup Requests

CustomerRow == [email : Names, phone : Names, ident : Names,
                address : AddressIds \cup {NULL}]
AuthRow == [username : Names, failed : Nat]

\* For a login, password is the customer whose password is given; for a
\* registration, region says that it brings an address.
Call == [kind : {"register", "create", "update", "login", "bootstrap", "place",
                 "drop"},
         customer : Ids \cup {NULL}, username : Names \cup {Unset, NULL},
         email : Names \cup {Unset, NULL}, phone : Names \cup {Unset, NULL},
         ident : Names \cup {Unset}, address : AddressIds \cup {Unset, NULL},
         password : Ids \cup {NULL}, region : BOOLEAN]

ASSUME NullsAreNotNames ==
  /\ NULL \notin Names \cup AddressIds \cup Ids \cup CustomerRow \cup AuthRow
  /\ Unset \notin Names \cup AddressIds \cup {NULL}
ASSUME FreshKeys == Requests \cap (Enrolled \cup Homes) = {}
ASSUME CallsTyped == Calls \subseteq Call

\* What the schemas CustomerCreate, CustomerRegister and CustomerUpdate let in.
ASSUME BodiesAreValid ==
  \A c \in Calls :
    /\ c.kind \in {"register", "create"} =>
         /\ {c.email, c.phone, c.ident, c.username} \subseteq Names
         /\ c.address \in AddressIds \cup {NULL}
    /\ c.kind = "update" => c.customer \in Ids /\ c.ident = Unset
    /\ c.kind = "bootstrap" => c.customer \in Ids
    /\ c.kind = "drop" => c.address \in AddressIds
ASSUME StartTyped ==
  /\ InitialCustomer \in [Ids -> CustomerRow \cup {NULL}]
  /\ InitialAuth \in [Ids -> AuthRow \cup {NULL}]
  /\ \A c \in Ids : InitialCustomer[c] = NULL <=> InitialAuth[c] = NULL
  /\ \A r \in Requests : InitialCustomer[r] = NULL
ASSUME NamesDifferAtFirst ==
  \A c \in Ids : \A d \in Ids \ {c} :
    InitialAuth[c] # NULL /\ InitialAuth[d] # NULL =>
      InitialAuth[c].username # InitialAuth[d].username
ASSUME LockoutIsPositive == MaxFailedAttempts \in Nat \ {0}

VARIABLES
  customer,   \* table customers
  auth,       \* table user_auths, by its customer
  addresses,  \* table addresses: the ids it holds
  sessions,   \* AuthService._sessions: the customer of each request's session
  call,       \* call[r]: what r asks for
  pc,         \* pc[r]: the statement r executes next, or its answer
  copy,       \* copy[r]: the rows alive in the session of r
  heard       \* history: heard[c], what the logins of c have been told

tables == <<customer, auth, addresses, sessions>>
vars == <<tables, call, pc, copy, heard>>

Answers == {"ok", "refused", "lost"}
Steps == {"email", "phone", "username", "insert", "load", "auth", "write",
          "login", "count", "admit", "issue", "find", "place", "locate",
          "child", "drop"}

NothingRead == [who |-> NULL, row |-> NULL, auth |-> NULL]
Copy == [who : Ids \cup {NULL}, row : CustomerRow \cup {NULL},
         auth : AuthRow \cup {NULL}]

\* ever: wrong passwords counted, those of the start included; since: those
\* after the last success;
\* mixed: two logins have read the row before either had written it.
Heard == [ever : Nat, since : Nat, mixed : BOOLEAN]

TypeOK ==
  /\ customer \in [Ids -> CustomerRow \cup {NULL}]
  /\ auth \in [Ids -> AuthRow \cup {NULL}]
  /\ addresses \subseteq AddressIds
  /\ sessions \in [Requests -> Ids \cup {NULL}]
  /\ call \in [Requests -> Calls]
  /\ pc \in [Requests -> Steps \cup Answers]
  /\ copy \in [Requests -> Copy]
  /\ heard \in [Ids -> Heard]

-----------------------------------------------------------------------------
(* What a statement looks for. *)

Keys == {"email", "phone", "ident"}

Holds(c, key, value) == customer[c] # NULL /\ customer[c][key] = value
Named(c, name) == auth[c] # NULL /\ auth[c].username = name

\* Fault: no UNIQUE constraint on the email.
Storable_SameEmail(c, row, homes) ==
  /\ \A k \in Keys : /\ row[k] # NULL
                     /\ k # "email" =>
                          \A d \in Ids \ {c} : ~Holds(d, k, row[k])
  /\ row.address \in homes \cup {NULL}

\* Fault: the keys are nullable.
Storable_Nullable(c, row, homes) ==
  /\ \A k \in Keys, d \in Ids \ {c} : row[k] # NULL => ~Holds(d, k, row[k])
  /\ row.address \in homes \cup {NULL}

\* NOT NULL, the three UNIQUE constraints and the FOREIGN KEY of customers.
Storable(c, row, homes) ==
  /\ \A k \in Keys : /\ row[k] # NULL
                     /\ \A d \in Ids \ {c} : ~Holds(d, k, row[k])
  /\ row.address \in homes \cup {NULL}

\* user_auths.username is UNIQUE.
FreeName(c, name) == \A d \in Ids \ {c} : ~Named(d, name)

-----------------------------------------------------------------------------
FirstStep == [register |-> "username", create |-> "email", update |-> "load",
              login |-> "login", bootstrap |-> "find", place |-> "place",
              drop |-> "locate"]

Init ==
  /\ customer = InitialCustomer
  /\ auth = InitialAuth
  /\ addresses = Homes
  /\ sessions = [r \in Requests |-> NULL]
  /\ call \in [Requests -> Calls]
  /\ pc = [r \in Requests |-> FirstStep[call[r].kind]]
  /\ copy = [r \in Requests |-> NothingRead]
  /\ heard = [c \in Ids |->
       LET n == IF InitialAuth[c] = NULL THEN 0 ELSE InitialAuth[c].failed
       IN [ever |-> n, since |-> n, mixed |-> FALSE]]

Goto(r, step) == pc' = [pc EXCEPT ![r] = step] /\ UNCHANGED call

\* A SELECT and what the handler keeps of it.
Keep(r, seen, step) ==
  /\ copy' = [copy EXCEPT ![r] = seen]
  /\ Goto(r, step)
  /\ UNCHANGED tables

\* The handler returns or raises, and its session closes.
Finish(r, answer) ==
  /\ Goto(r, answer)
  /\ copy' = [copy EXCEPT ![r] = NothingRead]

Refuse(r) == Finish(r, "refused") /\ UNCHANGED <<tables, heard>>

\* The SELECT of a uniqueness check: refused when the value is there.
Check(r, taken, step) ==
  \/ taken /\ Refuse(r)
  \/ ~taken /\ Keep(r, copy[r], step) /\ UNCHANGED heard

-----------------------------------------------------------------------------
(* register, CustomerService.create, update *)

\* A field of a PATCH that is sent and is not what the session has loaded:
\* what is checked, and what the UPDATE writes.
Sent(r, field) ==
  call[r][field] # Unset /\ call[r][field] # copy[r].row[field]
Renames(r) == call[r].kind = "update" /\ call[r].username \notin {Unset, NULL}

\* The checks an update has left once it has loaded `seen`.
AfterPhone(r) == CASE call[r].kind = "create" -> "username"
                   [] Renames(r) -> "auth"
                   [] OTHER -> "write"
AfterLoad(r, seen) ==
  CASE call[r].email \notin {Unset, seen.email} -> "email"
    [] call[r].phone \notin {Unset, seen.phone} -> "phone"
    [] OTHER -> AfterPhone(r)
AfterEmail(r) == IF call[r].kind = "create" \/ Sent(r, "phone")
                   THEN "phone" ELSE AfterPhone(r)

Load(r) ==
  /\ pc[r] = "load"
  /\ LET c == call[r].customer
         seen == customer[c]
     IN \/ seen = NULL /\ Refuse(r)
        \/ /\ seen # NULL
           /\ Keep(r, [who |-> c, row |-> seen, auth |-> NULL],
                   AfterLoad(r, seen))
           /\ UNCHANGED heard

EmailIsFree(r) ==
  /\ pc[r] = "email"
  /\ Check(r, \E d \in Ids : call[r].email # NULL
                             /\ Holds(d, "email", call[r].email),
           AfterEmail(r))

PhoneIsFree(r) ==
  /\ pc[r] = "phone"
  /\ Check(r, \E d \in Ids : call[r].phone # NULL
                             /\ Holds(d, "phone", call[r].phone),
           AfterPhone(r))

LoadAuth(r) ==
  /\ pc[r] = "auth"
  /\ \/ auth[copy[r].who] = NULL /\ Refuse(r)
     \/ /\ auth[copy[r].who] # NULL
        /\ Keep(r, [copy[r] EXCEPT !.auth = auth[copy[r].who]], "username")
        /\ UNCHANGED heard

UsernameIsFree(r) ==
  /\ pc[r] = "username"
  /\ Check(r, \E d \in Ids \ {copy[r].who} : Named(d, call[r].username),
           IF call[r].kind = "update" THEN "write" ELSE "insert")

\* The address a registration brings is in the transaction of its customer.
NewAddresses(r) == IF call[r].region THEN {r} ELSE {}
NewRow(r) == [email |-> call[r].email, phone |-> call[r].phone,
              ident |-> call[r].ident,
              address |-> IF call[r].region THEN r ELSE call[r].address]
NewAuth(r) == [username |-> call[r].username, failed |-> 0]
CanInsert(r) == /\ Storable(r, NewRow(r), addresses \cup NewAddresses(r))
                /\ FreeName(r, call[r].username)

\* The flushes of address, customer and user_auth, and their one COMMIT.
Insert(r) ==
  /\ pc[r] = "insert"
  /\ CanInsert(r)
  /\ addresses' = addresses \cup NewAddresses(r)
  /\ customer' = [customer EXCEPT ![r] = NewRow(r)]
  /\ auth' = [auth EXCEPT ![r] = NewAuth(r)]
  /\ Finish(r, "ok")
  /\ UNCHANGED <<sessions, heard>>

Amended(r) ==
  [k \in Keys \cup {"address"} |->
     IF Sent(r, k) THEN call[r][k] ELSE customer[copy[r].who][k]]
Relogin(r) ==
  IF Renames(r) /\ call[r].username # copy[r].auth.username
    THEN [auth[copy[r].who] EXCEPT !.username = call[r].username]
    ELSE auth[copy[r].who]
CanUpdate(r) == /\ Storable(copy[r].who, Amended(r), addresses)
                /\ FreeName(copy[r].who, Relogin(r).username)

\* Fault: the user_auth row is written back as it was loaded.
Update_WholeAuth(r) ==
  /\ pc[r] = "write"
  /\ CanUpdate(r)
  /\ customer' = [customer EXCEPT ![copy[r].who] = Amended(r)]
  /\ auth' = [auth EXCEPT ![copy[r].who] =
               IF Renames(r)
                 THEN [copy[r].auth EXCEPT !.username = call[r].username]
                 ELSE @]
  /\ Finish(r, "ok")
  /\ UNCHANGED <<addresses, sessions, heard>>

\* The UPDATEs name only the columns whose value differs from the loaded one.
Update(r) ==
  /\ pc[r] = "write"
  /\ CanUpdate(r)
  /\ customer' = [customer EXCEPT ![copy[r].who] = Amended(r)]
  /\ auth' = [auth EXCEPT ![copy[r].who] = Relogin(r)]
  /\ Finish(r, "ok")
  /\ UNCHANGED <<addresses, sessions, heard>>

WriteRefused(r) ==
  /\ \/ pc[r] = "insert" /\ ~CanInsert(r)
     \/ pc[r] = "write" /\ ~CanUpdate(r)
  /\ Refuse(r)

-----------------------------------------------------------------------------
(* login: the row is read once, the password verified, and what is written *)
(* is computed from what was read.                                         *)

InLogin(c) == {r \in Requests : pc[r] \in {"count", "admit"} /\ copy[r].who = c}

ReadAuth(r) ==
  /\ pc[r] = "login"
  /\ \E c \in Ids :
       /\ Named(c, call[r].username)
       /\ Keep(r, [who |-> c, row |-> NULL, auth |-> auth[c]],
               IF call[r].password = c THEN "admit" ELSE "count")
       /\ heard' = [heard EXCEPT ![c].mixed = @ \/ InLogin(c) # {}]

NoSuchUser(r) ==
  /\ pc[r] = "login"
  /\ \A c \in Ids : ~Named(c, call[r].username)
  /\ Refuse(r)

\* failed_attempts += 1, on the value read, and COMMIT.
CountMiss(r) ==
  /\ pc[r] = "count"
  /\ LET c == copy[r].who IN
       /\ auth' = [auth EXCEPT ![c].failed = copy[r].auth.failed + 1]
       /\ heard' = [heard EXCEPT ![c].ever = @ + 1, ![c].since = @ + 1]
  /\ Finish(r, "refused")
  /\ UNCHANGED <<customer, addresses, sessions>>

Locked(r) ==
  /\ pc[r] = "admit"
  /\ copy[r].auth.failed >= MaxFailedAttempts
  /\ Refuse(r)

\* Fault: the lock is not looked at.
Admit_Unlocked(r) ==
  /\ pc[r] = "admit"
  /\ LET c == copy[r].who IN
       /\ auth' = [auth EXCEPT ![c].failed =
                     IF copy[r].auth.failed = 0 THEN @ ELSE 0]
       /\ heard' = [heard EXCEPT ![c].since = 0]
  /\ Goto(r, "issue")
  /\ UNCHANGED <<customer, addresses, sessions, copy>>

\* failed_attempts = 0, an UPDATE only when another value was read.
Admit(r) ==
  /\ pc[r] = "admit"
  /\ copy[r].auth.failed < MaxFailedAttempts
  /\ LET c == copy[r].who IN
       /\ auth' = [auth EXCEPT ![c].failed =
                     IF copy[r].auth.failed = 0 THEN @ ELSE 0]
       /\ heard' = [heard EXCEPT ![c].since = 0]
  /\ Goto(r, "issue")
  /\ UNCHANGED <<customer, addresses, sessions, copy>>

\* Fault: the session is issued to whoever has the username by now.
Issue_ByName(r) ==
  /\ pc[r] = "issue"
  /\ sessions' = [sessions EXCEPT ![r] =
       IF \E c \in Ids : Named(c, call[r].username)
         THEN CHOOSE c \in Ids : Named(c, call[r].username)
         ELSE copy[r].who]
  /\ Finish(r, "ok")
  /\ UNCHANGED <<customer, auth, addresses, heard>>

Issue(r) ==
  /\ pc[r] = "issue"
  /\ sessions' = [sessions EXCEPT ![r] = copy[r].who]
  /\ Finish(r, "ok")
  /\ UNCHANGED <<customer, auth, addresses, heard>>

\* bootstrap_session asks for no password.
Bootstrap(r) ==
  /\ pc[r] = "find"
  /\ LET c == call[r].customer IN
       \/ customer[c] = NULL /\ Refuse(r)
       \/ /\ customer[c] # NULL
          /\ sessions' = [sessions EXCEPT ![r] = c]
          /\ Finish(r, "ok")
          /\ UNCHANGED <<customer, auth, addresses, heard>>

-----------------------------------------------------------------------------
(* AddressService: create and delete. *)

Place(r) ==
  /\ pc[r] = "place"
  /\ addresses' = addresses \cup {r}
  /\ Finish(r, "ok")
  /\ UNCHANGED <<customer, auth, sessions, heard>>

Locate(r) ==
  /\ pc[r] = "locate"
  /\ IF call[r].address \in addresses
       THEN Keep(r, NothingRead, "child") /\ UNCHANGED heard
       ELSE Refuse(r)

Residents(a) == {c \in Ids : Holds(c, "address", a)}

\* The flush loads Address.customer: one customer, though there may be more.
LoadResident(r) ==
  /\ pc[r] = "child"
  /\ \E c \in IF Residents(call[r].address) = {} THEN {NULL}
              ELSE Residents(call[r].address) :
       Keep(r, [NothingRead EXCEPT !.who = c], "drop")
  /\ UNCHANGED heard

\* address_id = NULL for the customer loaded, wherever it lives by now.
MovedOut(r) ==
  IF copy[r].who = NULL THEN customer
  ELSE [customer EXCEPT ![copy[r].who].address = NULL]
Unused(r) == \A c \in Ids \ {copy[r].who} : ~Holds(c, "address", call[r].address)

\* The UPDATE, the DELETE and the COMMIT.
Drop(r) ==
  /\ pc[r] = "drop"
  /\ Unused(r)
  /\ customer' = MovedOut(r)
  /\ addresses' = addresses \ {call[r].address}
  /\ Finish(r, "ok")
  /\ UNCHANGED <<auth, sessions, heard>>

DropRefused(r) == pc[r] = "drop" /\ ~Unused(r) /\ Refuse(r)

-----------------------------------------------------------------------------
\* The worker or its connection dies before the COMMIT, or before the session
\* is issued.
Lose(r) ==
  /\ pc[r] \notin Answers
  /\ Finish(r, "lost")
  /\ UNCHANGED <<tables, heard>>

Enrolment(r) == \/ Load(r) \/ EmailIsFree(r) \/ PhoneIsFree(r) \/ LoadAuth(r)
                \/ UsernameIsFree(r) \/ Insert(r) \/ Update(r) \/ WriteRefused(r)
Login(r) == \/ ReadAuth(r) \/ NoSuchUser(r) \/ CountMiss(r) \/ Locked(r)
            \/ Admit(r) \/ Issue(r) \/ Bootstrap(r)
Address(r) == \/ Place(r) \/ Locate(r) \/ LoadResident(r) \/ Drop(r)
              \/ DropRefused(r)

AllAnswered == \A r \in Requests : pc[r] \in Answers
Finished == AllAnswered /\ UNCHANGED vars

Next == \/ \E r \in Requests : Enrolment(r) \/ Login(r) \/ Address(r) \/ Lose(r)
        \/ Finished

Spec == Init /\ [][Next]_vars

-----------------------------------------------------------------------------
(* Properties *)

\* The three services implement the directory: check-then-insert races, a
\* PATCH built from an old read and a worker that dies leave neither two
\* customers of one name, nor a customer without its user_auth, nor a
\* customer at an address that is gone.
Usernames == [c \in Ids |-> IF auth[c] = NULL THEN NULL ELSE auth[c].username]
InitialUsernames ==
  [c \in Ids |-> IF InitialAuth[c] = NULL THEN NULL ELSE InitialAuth[c].username]
D == INSTANCE Directory WITH username <- Usernames,
                             InitialUsername <- InitialUsernames
DirectorySpec == D!Spec

\* auth_service.py:98, :104: as long as no two logins of a customer overlap,
\* failed_attempts is exactly the wrong passwords since the last success,
\* whatever else happens to the row, PATCHes of the username included; and
\* overlapping logins may lose counts, or undo a reset, but invent none: nobody
\* is locked out by attempts that were not made.
FailuresAreCounted ==
  \A c \in Ids : auth[c] # NULL =>
    /\ ~heard[c].mixed => auth[c].failed = heard[c].since
    /\ auth[c].failed <= heard[c].ever

\* MAX_FAILED_LOGIN_ATTEMPTS: a locked customer is let in again only where
\* logins overlapped, so that one of them had read the row before the lock.
LockNeedsOverlap ==
  [][\A c \in Ids :
       auth[c] # NULL /\ auth[c].failed >= MaxFailedAttempts =>
         auth'[c].failed >= MaxFailedAttempts \/ heard[c].mixed]_vars

\* A login's session is of the customer whose password was verified, also
\* when the username has changed hands since.
SessionsAreVerified ==
  \A r \in Requests : call[r].kind = "login" /\ sessions[r] # NULL =>
    sessions[r] = call[r].password
=============================================================================
