--------------------------- MODULE AccountsProofs ---------------------------
(***************************************************************************)
(* Theorems of Accounts, for every set of requests, accounts and calls.    *)
(***************************************************************************)
EXTENDS Accounts, FiniteSetTheorems, TLAPS

\* A statement that updates a row has found it, and rows do not go away.
WritersFoundTheRow ==
  \A r \in Requests :
    pc[r] = "write" /\ call[r].kind # "create" => Exists(call[r].account)

\* Only a transfer reaches the locking statements, with two different
\* accounts from the second one on.
LockersTransfer ==
  \A r \in Requests :
    /\ pc[r] \in {"lock1", "lock2", "settle"} => call[r].kind \in Transfers
    /\ pc[r] \in {"lock2", "settle"} => call[r].account # call[r].peer

\* A held row is in the session of its holder as it is in the table, and the
\* holder is past the statement that took it.
HeldRowsAreLoaded ==
  \A r \in Requests, a \in Accounts :
    lock[a] = r =>
      /\ Exists(a)
      /\ copy[r][a] = row[a]
      /\ \/ pc[r] = "lock2" /\ a = LockOrder(r)[1]
         \/ pc[r] = "settle" /\ a \in {call[r].account, call[r].peer}

\* Nothing is in the session of a transfer that it has not locked.
LoadedRowsAreHeld ==
  \A r \in Requests, a \in Accounts :
    pc[r] \in {"gate", "own", "lock1", "lock2", "settle"} /\ copy[r][a] # AbsentRow
      => lock[a] = r

Inv == /\ TypeOK
       /\ WritersFoundTheRow
       /\ LockersTransfer
       /\ HeldRowsAreLoaded
       /\ LoadedRowsAreHeld

USE DEF Exists

LEMMA CallFields ==
  ASSUME TypeOK, NEW r \in Requests
  PROVE  /\ call[r] \in Call
         /\ call[r].kind \in Kinds
         /\ call[r].account \in Accounts
         /\ call[r].peer \in Accounts
         /\ call[r].amount \in Nat
         /\ call[r].status \in Statuses \cup {"NULL"}
BY CallsTyped DEF TypeOK, Call

LEMMA LockOrderFacts ==
  ASSUME TypeOK, NEW r \in Requests
  PROVE  /\ LockOrder(r)[1] \in Accounts
         /\ LockOrder(r)[2] \in Accounts
         /\ {LockOrder(r)[1], LockOrder(r)[2]} = {call[r].account, call[r].peer}
         /\ call[r].account # call[r].peer =>
              LockOrder(r)[1] < LockOrder(r)[2]
<1> DEFINE a == call[r].account
           b == call[r].peer
<1>1. a \in Accounts /\ b \in Accounts /\ a \in Int /\ b \in Int
  BY CallFields, AccountsAreOrdered
<1>2. CASE a < b
  <2>1. LockOrder(r)[1] = a /\ LockOrder(r)[2] = b
    BY <1>2 DEF LockOrder
  <2> QED BY <1>1, <1>2, <2>1
<1>3. CASE ~(a < b)
  <2>1. LockOrder(r)[1] = b /\ LockOrder(r)[2] = a
    BY <1>3 DEF LockOrder
  <2> QED BY <1>1, <1>3, <2>1
<1> QED BY <1>2, <1>3

LEMMA RowFields ==
  ASSUME NEW x \in Row
  PROVE  /\ x.balance \in Cents
         /\ x.status \in Statuses \cup {"ABSENT"}
         /\ x.status = "ABSENT" <=> x = AbsentRow
         /\ x.status # "ABSENT" => x \in [status : Statuses, balance : Cents]
BY LimitIsCents DEF Row, AbsentRow, Statuses, Cents

LEMMA InitInv == Init => Inv
<1> SUFFICES ASSUME Init PROVE Inv
  OBVIOUS
<1>1. TypeOK
  <2>1. pc \in [Requests -> Steps \cup Answers]
    <3> SUFFICES ASSUME NEW r \in Requests
                 PROVE FirstStep[call[r].kind] \in Steps
      BY DEF Init
    <3>1. call[r].kind \in Kinds
      BY CallsTyped DEF Init, Call
    <3> QED BY <3>1 DEF FirstStep, Kinds, Steps
  <2>2. copy \in [Requests -> [Accounts -> Row]]
    BY DEF Init, NothingRead, Row
  <2> QED BY <2>1, <2>2, InitialRows DEF Init, TypeOK
<1>2. \A r \in Requests : /\ pc[r] \notin {"write", "lock2", "settle"}
                          /\ pc[r] = "lock1" => call[r].kind \in Transfers
  <2> SUFFICES ASSUME NEW r \in Requests
               PROVE /\ pc[r] \notin {"write", "lock2", "settle"}
                     /\ pc[r] = "lock1" => call[r].kind \in Transfers
    OBVIOUS
  <2>1. pc[r] = FirstStep[call[r].kind] /\ call[r].kind \in Kinds
    BY <1>1, CallFields DEF Init
  <2> QED BY <2>1 DEF FirstStep, Kinds, Transfers
<1>3. \A a \in Accounts : lock[a] \notin Requests
  BY NoOneIsNoRequest DEF Init
<1>4. \A r \in Requests, a \in Accounts : copy[r][a] = AbsentRow
  BY DEF Init, NothingRead
<1> QED BY <1>1, <1>2, <1>3, <1>4 DEF Inv, WritersFoundTheRow,
           LockersTransfer, HeldRowsAreLoaded, LoadedRowsAreHeld
-----------------------------------------------------------------------------
(* Every kind of step preserves the invariant. *)

\* An answer that writes nothing: the refusals, the losses, and an update
\* with nothing to change.
LEMMA FinishInv ==
  ASSUME Inv, NEW r \in Requests, NEW answer \in Answers,
         Finish(r, answer), UNCHANGED <<row, transactions>>
  PROVE  Inv'
<1> USE DEF Finish, Goto
<1>0. TypeOK
  BY DEF Inv
<1>1. TypeOK'
  <2>1. NothingRead \in [Accounts -> Row]
    BY DEF NothingRead, Row
  <2> QED BY <1>0, <2>1 DEF TypeOK
<1>2. pc'[r] = answer /\ \A s \in Requests \ {r} : pc'[s] = pc[s]
  BY <1>0 DEF TypeOK
<1>3. \A s \in Requests \ {r} : copy'[s] = copy[s]
  BY <1>0 DEF TypeOK
<1>4. \A a \in Accounts : /\ lock'[a] # r
                          /\ \A s \in Requests \ {r} : lock'[a] = s <=> lock[a] = s
  BY NoOneIsNoRequest, <1>0 DEF TypeOK
<1>5. answer \notin {"write", "lock1", "lock2", "settle", "gate", "own"}
  BY DEF Answers
<1>6. WritersFoundTheRow'
  BY <1>2, <1>5 DEF Inv, WritersFoundTheRow
<1>7. LockersTransfer'
  BY <1>2, <1>5 DEF Inv, LockersTransfer
<1>8. HeldRowsAreLoaded'
  BY <1>2, <1>3, <1>4 DEF Inv, HeldRowsAreLoaded, LockOrder
<1>9. LoadedRowsAreHeld'
  BY <1>2, <1>3, <1>4, <1>5 DEF Inv, LoadedRowsAreHeld
<1> QED BY <1>1, <1>6, <1>7, <1>8, <1>9 DEF Inv

\* A write without a lock of its own overwrites a row that nobody holds.
LEMMA WriteInv ==
  ASSUME Inv, NEW r \in Requests, NEW new \in Row, new.status # "ABSENT",
         Write(r, new)
  PROVE  Inv'
<1> USE DEF Write, Finish, Goto
<1> DEFINE b == call[r].account
<1>0. TypeOK /\ b \in Accounts
  BY CallFields DEF Inv
<1>1. TypeOK'
  <2>1. NothingRead \in [Accounts -> Row]
    BY DEF NothingRead, Row
  <2> QED BY <1>0, <2>1 DEF TypeOK, Answers
<1>2. pc'[r] = "ok" /\ \A s \in Requests \ {r} : pc'[s] = pc[s]
  BY <1>0 DEF TypeOK
<1>3. \A s \in Requests \ {r} : copy'[s] = copy[s]
  BY <1>0 DEF TypeOK
<1>4. \A a \in Accounts : /\ lock'[a] # r
                          /\ \A s \in Requests \ {r} : lock'[a] = s <=> lock[a] = s
  BY NoOneIsNoRequest, <1>0 DEF TypeOK
<1>5. \A a \in Accounts : /\ Exists(a) => Exists(a)'
                          /\ lock[a] # NoOne => row'[a] = row[a]
  BY <1>0 DEF TypeOK
<1>6. WritersFoundTheRow'
  BY <1>0, <1>2, <1>5, CallFields DEF Inv, WritersFoundTheRow
<1>7. LockersTransfer'
  BY <1>2 DEF Inv, LockersTransfer
<1>8. HeldRowsAreLoaded'
  BY <1>2, <1>3, <1>4, <1>5, NoOneIsNoRequest
  DEF Inv, HeldRowsAreLoaded, LockOrder
<1>9. LoadedRowsAreHeld'
  BY <1>2, <1>3, <1>4 DEF Inv, LoadedRowsAreHeld
<1> QED BY <1>1, <1>6, <1>7, <1>8, <1>9 DEF Inv

\* Statements that lock nothing and write nothing.
LEMMA ReadInv ==
  ASSUME Inv, NEW r \in Requests,
         \/ GatePass(r) \/ OwnerPasses(r) \/ FreezeRead(r)
         \/ Read(r) \/ NumberIsFree(r)
  PROVE  Inv'
<1> USE DEF Goto
<1>0. TypeOK /\ call[r].account \in Accounts
  BY CallFields DEF Inv
<1>1. UNCHANGED <<row, lock, transactions, call>>
  BY DEF GatePass, OwnerPasses, FreezeRead, Read, NumberIsFree
<1>2. /\ pc[r] \in {"gate", "own", "read"}
      /\ \/ /\ pc' = [pc EXCEPT ![r] = "own"] /\ pc[r] = "gate" /\ copy' = copy
         \/ /\ pc' = [pc EXCEPT ![r] = "lock1"] /\ pc[r] = "own" /\ copy' = copy
            /\ call[r].kind \in Transfers
         \/ /\ pc' = [pc EXCEPT ![r] = "write"]
            /\ \/ call[r].kind = "create" /\ copy' = copy
               \/ /\ Exists(call[r].account)
                  /\ copy' = [copy EXCEPT
                       ![r][call[r].account] = row[call[r].account]]
  BY DEF GatePass, OwnerPasses, FreezeRead, Read, NumberIsFree, Owned,
         Transfers
<1>3. TypeOK'
  <2>1. pc' \in [Requests -> Steps \cup Answers]
    BY <1>0, <1>2 DEF TypeOK, Steps
  <2>2. copy' \in [Requests -> [Accounts -> Row]]
    <3>1. row[call[r].account] \in Row
      BY <1>0 DEF TypeOK
    <3>2. copy \in [Requests -> [Accounts -> Row]]
      BY <1>0 DEF TypeOK
    <3>3. [copy EXCEPT ![r][call[r].account] = row[call[r].account]]
            \in [Requests -> [Accounts -> Row]]
      BY <1>0, <3>1, <3>2
    <3> QED BY <1>2, <3>2, <3>3
  <2> QED BY <1>0, <1>1, <2>1, <2>2 DEF TypeOK
<1>4. \A s \in Requests \ {r} : pc'[s] = pc[s] /\ copy'[s] = copy[s]
  BY <1>0, <1>2 DEF TypeOK
<1>5. \A a \in Accounts : lock[a] # r
  BY <1>2 DEF Inv, HeldRowsAreLoaded
<1>6. WritersFoundTheRow'
  BY <1>0, <1>1, <1>2, <1>4 DEF Inv, WritersFoundTheRow, TypeOK
<1>7. LockersTransfer'
  BY <1>0, <1>1, <1>2, <1>4 DEF Inv, LockersTransfer, TypeOK
<1>8. HeldRowsAreLoaded'
  BY <1>1, <1>4, <1>5 DEF Inv, HeldRowsAreLoaded, LockOrder
<1>9. LoadedRowsAreHeld'
  BY <1>0, <1>1, <1>2, <1>4 DEF Inv, LoadedRowsAreHeld, TypeOK
<1> QED BY <1>3, <1>6, <1>7, <1>8, <1>9 DEF Inv

\* A locking SELECT: the row, if there is one, becomes the request's.
LEMMA TakeInv ==
  ASSUME Inv, NEW r \in Requests, LockFirst(r) \/ LockSecond(r)
  PROVE  Inv'
<1> USE DEF Goto
<1>0. TypeOK
  BY DEF Inv
<1> DEFINE a == IF pc[r] = "lock1" THEN LockOrder(r)[1] ELSE LockOrder(r)[2]
           next == IF pc[r] = "lock1" THEN "lock2" ELSE "settle"
<1>1. /\ Take(r, a, next)
      /\ pc[r] \in {"lock1", "lock2"}
      /\ call[r].account # call[r].peer
      /\ call[r].kind \in Transfers
  BY DEF LockFirst, LockSecond, Inv, LockersTransfer
<1>2. /\ UNCHANGED <<row, transactions, call>>
      /\ Exists(a) => lock[a] = NoOne
      /\ lock' = IF Exists(a) THEN [lock EXCEPT ![a] = r] ELSE lock
      /\ copy' = [copy EXCEPT ![r][a] = IF @ = AbsentRow THEN row[a] ELSE @]
      /\ pc' = [pc EXCEPT ![r] = next]
  BY <1>1 DEF Take
<1>3. /\ a \in Accounts /\ a \in {call[r].account, call[r].peer}
      /\ LockOrder(r)[1] # LockOrder(r)[2]
      /\ LockOrder(r)[1] \in {call[r].account, call[r].peer}
  <2>1. LockOrder(r)[1] < LockOrder(r)[2] /\ LockOrder(r)[1] \in Int
    BY <1>0, <1>1, LockOrderFacts, AccountsAreOrdered
  <2>2. /\ LockOrder(r)[1] \in {call[r].account, call[r].peer}
        /\ LockOrder(r)[2] \in {call[r].account, call[r].peer}
    BY <1>0, LockOrderFacts
  <2> QED BY <1>0, <2>1, <2>2, LockOrderFacts, AccountsAreOrdered
<1>4. row[a] \in Row /\ copy[r][a] \in Row
  BY <1>0, <1>3 DEF TypeOK
<1>5. lock[a] # r
  BY <1>1, <1>3 DEF Inv, HeldRowsAreLoaded
<1>6. copy[r][a] = AbsentRow
  BY <1>1, <1>3, <1>5 DEF Inv, LoadedRowsAreHeld
<1>7. /\ pc'[r] = next
      /\ copy'[r] = [copy[r] EXCEPT ![a] = row[a]]
      /\ copy'[r][a] = row[a]
      /\ \A b \in Accounts \ {a} : copy'[r][b] = copy[r][b] /\ lock'[b] = lock[b]
      /\ \A s \in Requests \ {r} : pc'[s] = pc[s] /\ copy'[s] = copy[s]
  BY <1>0, <1>2, <1>3, <1>6 DEF TypeOK
<1>8. /\ Exists(a) => lock'[a] = r
      /\ ~Exists(a) => lock'[a] = lock[a]
      /\ ~Exists(a) => row[a] = AbsentRow
  BY <1>0, <1>2, <1>3, <1>4, RowFields DEF TypeOK
<1>9. TypeOK'
  <2>1. pc' \in [Requests -> Steps \cup Answers]
    BY <1>0, <1>2 DEF TypeOK, Steps
  <2>2. copy' \in [Requests -> [Accounts -> Row]]
    BY <1>0, <1>2, <1>3, <1>4 DEF TypeOK
  <2>3. lock' \in [Accounts -> Requests \cup {NoOne}]
    BY <1>0, <1>2 DEF TypeOK
  <2> QED BY <1>0, <1>2, <2>1, <2>2, <2>3 DEF TypeOK
<1>10. WritersFoundTheRow'
  BY <1>2, <1>7 DEF Inv, WritersFoundTheRow
<1>11. LockersTransfer'
  BY <1>1, <1>2, <1>7 DEF Inv, LockersTransfer
<1>12. HeldRowsAreLoaded'
  <2> SUFFICES ASSUME NEW s \in Requests, NEW b \in Accounts, lock'[b] = s
               PROVE  /\ Exists(b)
                      /\ copy'[s][b] = row[b]
                      /\ \/ pc'[s] = "lock2" /\ b = LockOrder(s)[1]
                         \/ /\ pc'[s] = "settle"
                            /\ b \in {call[s].account, call[s].peer}
    BY <1>2 DEF HeldRowsAreLoaded, LockOrder
  <2>1. CASE s = r /\ b = a
    BY <1>1, <1>3, <1>5, <1>7, <1>8, <2>1
  <2>2. CASE s = r /\ b # a
    <3>1. lock[b] = r /\ copy'[r][b] = copy[r][b]
      BY <1>7, <2>2
    <3>2. /\ Exists(b) /\ copy[r][b] = row[b]
          /\ pc[r] = "lock2" /\ b = LockOrder(r)[1]
      BY <1>1, <3>1 DEF Inv, HeldRowsAreLoaded
    <3>3. pc'[r] = "settle"
      BY <1>7, <3>2
    <3> QED BY <1>3, <2>2, <3>1, <3>2, <3>3
  <2>3. CASE s # r
    <3>1. lock[b] = s
      BY <1>7, <1>8, <2>3
    <3> QED BY <1>7, <2>3, <3>1 DEF Inv, HeldRowsAreLoaded
  <2> QED BY <2>1, <2>2, <2>3
<1>13. LoadedRowsAreHeld'
  <2> SUFFICES ASSUME NEW s \in Requests, NEW b \in Accounts,
                      pc'[s] \in {"gate", "own", "lock1", "lock2", "settle"},
                      copy'[s][b] # AbsentRow
               PROVE  lock'[b] = s
    BY DEF LoadedRowsAreHeld
  <2>1. CASE s = r /\ b = a
    BY <1>7, <1>8, <2>1
  <2>2. CASE s = r /\ b # a
    BY <1>1, <1>7, <2>2 DEF Inv, LoadedRowsAreHeld
  <2>3. CASE s # r
    <3>1. lock[b] = s
      BY <1>7, <2>3 DEF Inv, LoadedRowsAreHeld
    <3> QED BY <1>2, <1>7, <1>8, <2>3, <3>1, NoOneIsNoRequest
  <2> QED BY <2>1, <2>2, <2>3
<1> QED BY <1>9, <1>10, <1>11, <1>12, <1>13 DEF Inv

\* The decision point of a transfer: both rows are its own, and current.
LEMMA PostReads ==
  ASSUME Inv, NEW r \in Requests, pc[r] = "settle", ValidTransfer(r)
  PROVE  LET s == call[r].account
             p == call[r].peer
         IN /\ s \in Accounts /\ p \in Accounts /\ s # p
            /\ lock[s] = r /\ lock[p] = r
            /\ Sender(r) = row[s] /\ Receiver(r) = row[p]
            /\ row[s] \in [status : Statuses, balance : Cents]
            /\ row[p] \in [status : Statuses, balance : Cents]
            /\ row[s].status = "ACTIVE" /\ row[p].status = "ACTIVE"
<1> DEFINE s == call[r].account
           p == call[r].peer
<1>0. TypeOK
  BY DEF Inv
<1>1. s \in Accounts /\ p \in Accounts /\ s # p
  BY <1>0, CallFields DEF Inv, LockersTransfer
<1>2. copy[r][s] # AbsentRow /\ copy[r][p] # AbsentRow
  BY DEF ValidTransfer, Sender, Receiver, AbsentRow
<1>3. lock[s] = r /\ lock[p] = r
  BY <1>1, <1>2 DEF Inv, LoadedRowsAreHeld
<1>4. copy[r][s] = row[s] /\ copy[r][p] = row[p]
  BY <1>1, <1>3 DEF Inv, HeldRowsAreLoaded
<1>5. row[s].status = "ACTIVE" /\ row[p].status = "ACTIVE"
  BY <1>4 DEF ValidTransfer, Sender, Receiver
<1>6. row[s] \in Row /\ row[p] \in Row
  BY <1>0, <1>1 DEF TypeOK
<1>7. /\ row[s] \in [status : Statuses, balance : Cents]
      /\ row[p] \in [status : Statuses, balance : Cents]
  BY <1>5, <1>6, RowFields
<1> QED BY <1>1, <1>3, <1>4, <1>5, <1>7 DEF Sender, Receiver

LEMMA ColumnIsWhole ==
  ASSUME NEW x \in Nat
  PROVE  Column(x) \in Nat /\ Column(x) % 2 = 0
BY DEF Column

\* What a posted transfer does to the table.
LEMMA PostWrites ==
  ASSUME Inv, NEW r \in Requests, Post(r)
  PROVE  LET s == call[r].account
             p == call[r].peer
         IN /\ row'[s] = [row[s] EXCEPT !.balance = Debited(r)]
            /\ row'[p] = [row[p] EXCEPT !.balance = Credited(r)]
            /\ \A a \in Accounts \ {s, p} : row'[a] = row[a]
            /\ row' \in [Accounts -> Row]
            /\ \A a \in Accounts : row'[a].status = row[a].status
<1> DEFINE s == call[r].account
           p == call[r].peer
<1>1. /\ pc[r] = "settle" /\ ValidTransfer(r)
      /\ Debited(r) \in Cents /\ Credited(r) \in Cents
      /\ row' = [row EXCEPT ![s].balance = Debited(r),
                            ![p].balance = Credited(r)]
  BY DEF Post, Storable
<1>2. /\ s \in Accounts /\ p \in Accounts /\ s # p
      /\ row[s] \in [status : Statuses, balance : Cents]
      /\ row[p] \in [status : Statuses, balance : Cents]
  BY <1>1, PostReads
<1>3. row \in [Accounts -> Row]
  BY DEF Inv, TypeOK
<1>4. /\ row'[s] = [row[s] EXCEPT !.balance = Debited(r)]
      /\ row'[p] = [row[p] EXCEPT !.balance = Credited(r)]
      /\ \A a \in Accounts \ {s, p} : row'[a] = row[a]
  BY <1>1, <1>2, <1>3
<1>5. row'[s] \in Row /\ row'[p] \in Row
  <2>1. \A x \in [status : Statuses, balance : Cents], b \in Cents :
          [x EXCEPT !.balance = b] \in Row
    BY DEF Row
  <2>2. [row[s] EXCEPT !.balance = Debited(r)] \in Row
    BY <1>1, <1>2, <2>1
  <2>3. [row[p] EXCEPT !.balance = Credited(r)] \in Row
    BY <1>1, <1>2, <2>1
  <2> QED BY <1>4, <2>2, <2>3
<1>6. row'[s].status = row[s].status /\ row'[p].status = row[p].status
  BY <1>2, <1>4
<1>7. row' \in [Accounts -> Row]
  <2>1. row' = [a \in Accounts |-> row'[a]]
    BY <1>1, <1>3
  <2>2. \A a \in Accounts : row'[a] \in Row
    BY <1>3, <1>4, <1>5
  <2> QED BY <2>1, <2>2
<1> QED BY <1>4, <1>6, <1>7

LEMMA PostInv ==
  ASSUME Inv, NEW r \in Requests, Post(r)
  PROVE  Inv'
<1> USE DEF Finish, Goto
<1> DEFINE s == call[r].account
           p == call[r].peer
<1>0. TypeOK
  BY DEF Inv
<1>1. /\ pc[r] = "settle" /\ ValidTransfer(r)
      /\ pc' = [pc EXCEPT ![r] = "ok"]
      /\ lock' = [a \in Accounts |-> IF lock[a] = r THEN NoOne ELSE lock[a]]
      /\ copy' = [copy EXCEPT ![r] = NothingRead]
      /\ call' = call
  BY DEF Post
<1>2. /\ s \in Accounts /\ p \in Accounts /\ lock[s] = r /\ lock[p] = r
  BY <1>1, PostReads
<1>3. /\ row' \in [Accounts -> Row]
      /\ \A a \in Accounts \ {s, p} : row'[a] = row[a]
      /\ \A a \in Accounts : row'[a].status = row[a].status
  BY PostWrites
<1>4. TypeOK'
  <2>1. NothingRead \in [Accounts -> Row]
    BY DEF NothingRead, Row
  <2>2. transactions' \subseteq Transaction
    <3>1. Column(call[r].amount) \in Nat
      BY <1>0, CallFields, ColumnIsWhole
    <3> QED BY <1>0, <1>2, <3>1 DEF TypeOK, Post, Transaction
  <2> QED BY <1>0, <1>1, <1>3, <2>1, <2>2 DEF TypeOK, Answers
<1>5. /\ pc'[r] = "ok"
      /\ \A q \in Requests \ {r} : pc'[q] = pc[q] /\ copy'[q] = copy[q]
  BY <1>0, <1>1 DEF TypeOK
<1>6. \A a \in Accounts : /\ lock'[a] # r
                          /\ \A q \in Requests \ {r} : lock'[a] = q <=> lock[a] = q
  BY NoOneIsNoRequest, <1>0, <1>1 DEF TypeOK
<1>7. WritersFoundTheRow'
  BY <1>0, <1>1, <1>3, <1>5, CallFields DEF Inv, WritersFoundTheRow
<1>8. LockersTransfer'
  BY <1>1, <1>5 DEF Inv, LockersTransfer
<1>9. HeldRowsAreLoaded'
  <2> SUFFICES ASSUME NEW q \in Requests, NEW a \in Accounts, lock'[a] = q
               PROVE  /\ Exists(a)'
                      /\ copy'[q][a] = row'[a]
                      /\ \/ pc'[q] = "lock2" /\ a = LockOrder(q)[1]
                         \/ /\ pc'[q] = "settle"
                            /\ a \in {call[q].account, call[q].peer}
    BY <1>1 DEF HeldRowsAreLoaded, LockOrder
  <2>1. q # r /\ lock[a] = q
    BY <1>6
  <2>2. row'[a] = row[a]
    BY <1>2, <1>3, <2>1
  <2> QED BY <1>5, <2>1, <2>2 DEF Inv, HeldRowsAreLoaded
<1>10. LoadedRowsAreHeld'
  BY <1>5, <1>6 DEF Inv, LoadedRowsAreHeld
<1> QED BY <1>4, <1>7, <1>8, <1>9, <1>10 DEF Inv

\* What the statements without a lock of their own write.
LEMMA UnlockedWrites ==
  ASSUME Inv, NEW r \in Requests,
         \/ FreezeWrite(r) \/ CashWrite(r) \/ CreateWrite(r)
         \/ (UpdateWrite(r) /\ Restatus(r))
  PROVE  \E new \in Row : new.status # "ABSENT" /\ Write(r, new)
<1> DEFINE b == call[r].account
<1>0. TypeOK /\ pc[r] = "write" /\ b \in Accounts
  BY CallFields DEF Inv, FreezeWrite, CashWrite, CreateWrite, UpdateWrite
<1>1. row[b] \in Row
  BY <1>0 DEF TypeOK
<1>2. ASSUME call[r].kind # "create"
      PROVE  row[b] \in [status : Statuses, balance : Cents]
  BY <1>0, <1>1, <1>2, RowFields DEF Inv, WritersFoundTheRow
<1>3. CASE FreezeWrite(r)
  <2>1. [row[b] EXCEPT !.status = "FROZEN"] \in Row
    BY <1>2, <1>3 DEF FreezeWrite, Row, Statuses
  <2>2. [row[b] EXCEPT !.status = "FROZEN"].status # "ABSENT"
    BY <1>2, <1>3 DEF FreezeWrite
  <2> QED BY <1>3, <2>1, <2>2 DEF FreezeWrite
<1>4. CASE UpdateWrite(r) /\ Restatus(r)
  <2>1. call[r].status \in Statuses
    BY <1>0, <1>4, CallFields DEF UpdateWrite
  <2>2. [row[b] EXCEPT !.status = call[r].status] \in Row
    BY <1>2, <1>4, <2>1 DEF UpdateWrite, Row
  <2>3. [row[b] EXCEPT !.status = call[r].status].status # "ABSENT"
    BY <1>2, <1>4, <2>1 DEF UpdateWrite, Statuses
  <2> QED BY <1>4, <2>2, <2>3 DEF UpdateWrite
<1>5. CASE CashWrite(r)
  <2>1. [row[b] EXCEPT !.balance = CashBalance(r)] \in Row
    BY <1>2, <1>5 DEF CashWrite, Row, Storable
  <2>2. [row[b] EXCEPT !.balance = CashBalance(r)].status # "ABSENT"
    BY <1>2, <1>5 DEF CashWrite, Statuses
  <2> QED BY <1>5, <2>1, <2>2 DEF CashWrite
<1>6. CASE CreateWrite(r)
  <2> DEFINE new == [status |-> call[r].status,
                     balance |-> Column(call[r].amount)]
  <2>1. call[r].status \in Statuses
    BY <1>0, <1>6, CreatesAreWellFormed DEF CreateWrite, TypeOK
  <2>2. new \in Row /\ new.status # "ABSENT"
    BY <1>6, <2>1 DEF CreateWrite, Row, Storable, Statuses
  <2> QED BY <1>6, <2>2 DEF CreateWrite
<1> QED BY <1>3, <1>4, <1>5, <1>6

\* Steps that only answer.
LEMMA PlainAnswers ==
  ASSUME NEW r \in Requests,
         \/ GateFail(r) \/ OwnerRefuses(r) \/ SameAccount(r)
         \/ TransferRefused(r) \/ ReadRefused(r) \/ WriteRefused(r)
         \/ Lose(r) \/ (UpdateWrite(r) /\ ~Restatus(r))
  PROVE  /\ UNCHANGED <<row, transactions>>
         /\ \E answer \in Answers : Finish(r, answer)
BY DEF GateFail, OwnerRefuses, SameAccount, TransferRefused, ReadRefused,
       WriteRefused, Lose, UpdateWrite, Refuse, Answers

LEMMA NextInv == Inv /\ [Next]_vars => Inv'
<1> SUFFICES ASSUME Inv, [Next]_vars PROVE Inv'
  OBVIOUS
<1>1. CASE UNCHANGED vars
  BY <1>1 DEF vars, Inv, TypeOK, WritersFoundTheRow, LockersTransfer,
              HeldRowsAreLoaded, LoadedRowsAreHeld, LockOrder
<1>2. ASSUME NEW r \in Requests, Step(r) \/ Lose(r)
      PROVE  Inv'
  <2>1. CASE \/ GatePass(r) \/ OwnerPasses(r) \/ FreezeRead(r)
             \/ Read(r) \/ NumberIsFree(r)
    BY <2>1, ReadInv
  <2>2. CASE \/ GateFail(r) \/ OwnerRefuses(r) \/ SameAccount(r)
             \/ TransferRefused(r) \/ ReadRefused(r) \/ WriteRefused(r)
             \/ Lose(r) \/ (UpdateWrite(r) /\ ~Restatus(r))
    BY <2>2, PlainAnswers, FinishInv
  <2>3. CASE \/ FreezeWrite(r) \/ CashWrite(r) \/ CreateWrite(r)
             \/ (UpdateWrite(r) /\ Restatus(r))
    BY <2>3, UnlockedWrites, WriteInv
  <2>4. CASE LockFirst(r) \/ LockSecond(r)
    BY <2>4, TakeInv
  <2>5. CASE Post(r)
    BY <2>5, PostInv
  <2>6. CASE UpdateWrite(r)
    BY <2>2, <2>3, <2>6
  <2>7. CASE Transfer(r)
    BY <2>2, <2>4, <2>5, <2>7 DEF Transfer
  <2>8. CASE Ungated(r)
    BY <2>1, <2>2, <2>3, <2>6, <2>7, <2>8 DEF Ungated
  <2> QED BY <1>2, <2>1, <2>2, <2>8 DEF Step
<1> QED BY <1>1, <1>2 DEF Next, Finished

LEMMA Invariance == Spec => []Inv
<1>1. Init => Inv
  BY InitInv
<1>2. Inv /\ [Next]_vars => Inv'
  BY NextInv
<1> QED BY <1>1, <1>2, PTL DEF Spec

-----------------------------------------------------------------------------
(* Theorems *)

\* The tables and the requests keep their types; in particular a balance is
\* never negative and never beyond its column.
THEOREM TypeCorrect == Spec => []TypeOK
<1>1. Inv => TypeOK
  BY DEF Inv
<1> QED BY <1>1, Invariance, PTL

\* transfer writes from rows that are locked and current, however many
\* requests of whatever kinds run beside it.
THEOREM DecidesOnCurrentRows == Spec => []DecidesUnderBothLocks
<1>1. Inv => DecidesUnderBothLocks
  <2> SUFFICES ASSUME Inv, NEW r \in Requests, pc[r] = "settle",
                      NEW a \in {call[r].account, call[r].peer},
                      copy[r][a] # AbsentRow
               PROVE  lock[a] = r /\ copy[r][a] = row[a]
    BY DEF DecidesUnderBothLocks
  <2>1. a \in Accounts
    BY CallFields DEF Inv
  <2> QED BY <2>1 DEF Inv, LoadedRowsAreHeld, HeldRowsAreLoaded
<1> QED BY <1>1, Invariance, PTL

\* The lock order of _lock_accounts is kept by every request: what a waiting
\* request holds comes before what it waits for.
THEOREM LocksAreOrdered == Spec => []OrderedLocking
<1>1. Inv => OrderedLocking
  <2> SUFFICES ASSUME Inv, NEW r \in Requests, NEW a \in Accounts, lock[a] = r
               PROVE  \/ pc[r] = "settle"
                      \/ pc[r] = "lock2" /\ a < LockOrder(r)[2]
    BY DEF OrderedLocking
  <2>1. \/ pc[r] = "settle"
        \/ pc[r] = "lock2" /\ a = LockOrder(r)[1]
    BY DEF Inv, HeldRowsAreLoaded
  <2>2. pc[r] = "lock2" => LockOrder(r)[1] < LockOrder(r)[2]
    BY LockOrderFacts DEF Inv, LockersTransfer
  <2> QED BY <2>1, <2>2
<1> QED BY <1>1, Invariance, PTL

-----------------------------------------------------------------------------
(* What a step may change. *)

\* A step is of one request, which has not been answered yet.
LEMMA StepMovesOne ==
  ASSUME NEW r \in Requests, Step(r) \/ Lose(r)
  PROVE  pc[r] # "ok" /\ (\E x : pc' = [pc EXCEPT ![r] = x]) /\ call' = call
<1>1. CASE Transfer(r)
  BY <1>1 DEF Transfer, SameAccount, LockFirst, LockSecond, Post,
              TransferRefused, Take, Refuse, Finish, Goto
<1>2. CASE Lose(r) \/ GatePass(r) \/ GateFail(r) \/ OwnerPasses(r)
           \/ FreezeRead(r) \/ OwnerRefuses(r)
  BY <1>2 DEF Lose, GatePass, GateFail, OwnerPasses, FreezeRead,
              OwnerRefuses, Refuse, Finish, Goto, Answers
<1>3. CASE Read(r) \/ NumberIsFree(r) \/ ReadRefused(r) \/ WriteRefused(r)
  BY <1>3 DEF Read, NumberIsFree, ReadRefused, WriteRefused, Refuse,
              Finish, Goto
<1>4. CASE FreezeWrite(r) \/ UpdateWrite(r) \/ CashWrite(r)
           \/ CreateWrite(r)
  BY <1>4 DEF FreezeWrite, UpdateWrite, CashWrite, CreateWrite, Write,
              Finish, Goto
<1> QED BY <1>1, <1>2, <1>3, <1>4 DEF Step, Ungated

LEMMA AnswersStay ==
  ASSUME Inv, [Next]_vars, NEW q \in Requests, pc[q] = "ok"
  PROVE  pc'[q] = "ok"
<1>1. pc \in [Requests -> Steps \cup Answers]
  BY DEF Inv, TypeOK
<1>2. CASE UNCHANGED vars
  BY <1>2 DEF vars
<1> QED BY <1>1, <1>2, StepMovesOne DEF Next, Finished

\* The four writes of one row, and what they leave of it.
LEMMA UnlockedColumns ==
  ASSUME Inv, NEW r \in Requests,
         \/ FreezeWrite(r) \/ CashWrite(r) \/ CreateWrite(r)
         \/ (UpdateWrite(r) /\ Restatus(r))
  PROVE  /\ pc[r] # "ok" /\ pc'[r] = "ok" /\ call[r].account \in Accounts
         /\ \A a \in Accounts \ {call[r].account} : row'[a] = row[a]
         /\ call[r].kind \notin {"freeze", "update", "create"} =>
              row'[call[r].account].status = row[call[r].account].status
         /\ call[r].kind \in {"freeze", "update"} =>
              row'[call[r].account].balance = row[call[r].account].balance
<1> DEFINE b == call[r].account
<1>0. /\ TypeOK /\ pc[r] = "write" /\ b \in Accounts
      /\ row \in [Accounts -> Row] /\ row[b] \in Row
  BY CallFields DEF Inv, TypeOK, FreezeWrite, CashWrite, CreateWrite, UpdateWrite
<1>1. PICK new \in Row : Write(r, new)
  BY UnlockedWrites
<1>2. pc'[r] = "ok" /\ row' = [row EXCEPT ![b] = new]
  BY <1>0, <1>1 DEF Write, Finish, Goto, TypeOK
<1>3. ASSUME call[r].kind # "create"
      PROVE  row[b] \in [status : Statuses, balance : Cents]
  BY <1>0, <1>3, RowFields DEF Inv, WritersFoundTheRow
<1>4. ASSUME call[r].kind \notin {"freeze", "update", "create"}
      PROVE  row'[b].status = row[b].status
  <2>1. Write(r, [row[b] EXCEPT !.balance = CashBalance(r)])
    BY <1>4 DEF FreezeWrite, CashWrite, CreateWrite, UpdateWrite
  <2>2. row'[b] = [row[b] EXCEPT !.balance = CashBalance(r)]
    BY <1>0, <2>1 DEF Write
  <2> QED BY <1>3, <1>4, <2>2
<1>5. ASSUME call[r].kind \in {"freeze", "update"}
      PROVE  row'[b].balance = row[b].balance
  <2>1. PICK s \in {"FROZEN", call[r].status} :
          Write(r, [row[b] EXCEPT !.status = s])
    BY <1>5 DEF FreezeWrite, CashWrite, CreateWrite, UpdateWrite
  <2>2. row'[b] = [row[b] EXCEPT !.status = s]
    BY <1>0, <2>1 DEF Write
  <2> QED BY <1>3, <1>5, <2>2
<1> QED BY <1>0, <1>2, <1>4, <1>5

\* A statement that only looks, or only answers, leaves the table alone.
LEMMA OthersWriteNothing ==
  ASSUME NEW r \in Requests, Step(r) \/ Lose(r),
         ~FreezeWrite(r), ~CashWrite(r), ~CreateWrite(r), ~Post(r),
         ~(UpdateWrite(r) /\ Restatus(r))
  PROVE  row' = row /\ transactions' = transactions
<1>1. CASE \/ GatePass(r) \/ OwnerPasses(r) \/ FreezeRead(r)
           \/ Read(r) \/ NumberIsFree(r) \/ LockFirst(r) \/ LockSecond(r)
  BY <1>1 DEF GatePass, OwnerPasses, FreezeRead, Read, NumberIsFree,
              LockFirst, LockSecond, Take
<1> QED BY <1>1, PlainAnswers DEF Step, Ungated, Transfer

\* A statement built from a row read earlier writes its own column and no
\* other: a deposit does not thaw an account frozen since it read the row, a
\* freeze does not undo a deposit (account_service.py), a transfer changes no
\* status and no third account (transaction_service.py).
THEOREM OwnColumnsOnly == Spec => WritesItsOwnColumn
<1> DEFINE Kept(a) ==
      /\ row'[a].status # row[a].status =>
           \E r \in Requests : /\ call[r].account = a
                               /\ Answering(r, {"freeze", "update", "create"})
      /\ row'[a].balance # row[a].balance =>
           \E r \in Requests :
             /\ a \in {call[r].account, call[r].peer}
             /\ Answering(r, Kinds \ {"freeze", "update"})
<1>1. ASSUME Inv, NEW r \in Requests, Step(r) \/ Lose(r), NEW a \in Accounts
      PROVE  Kept(a)
  <2>1. CASE row' = row
    BY <2>1
  <2>2. CASE \/ FreezeWrite(r) \/ CashWrite(r) \/ CreateWrite(r)
             \/ (UpdateWrite(r) /\ Restatus(r))
    <3>1. call[r].kind \in Kinds
      BY <1>1, CallFields DEF Inv
    <3>2. /\ pc[r] # "ok" /\ pc'[r] = "ok"
          /\ a # call[r].account => row'[a] = row[a]
          /\ call[r].kind \notin {"freeze", "update", "create"} =>
               row'[call[r].account].status = row[call[r].account].status
          /\ call[r].kind \in {"freeze", "update"} =>
               row'[call[r].account].balance = row[call[r].account].balance
      BY <1>1, <2>2, UnlockedColumns
    <3> QED BY <3>1, <3>2 DEF Answering
  <2>3. CASE Post(r)
    <3>1. /\ row'[a].status = row[a].status
          /\ a \notin {call[r].account, call[r].peer} => row'[a] = row[a]
      BY <1>1, <2>3, PostWrites
    <3>2. pc[r] = "settle" /\ pc'[r] = "ok"
      BY <1>1, <2>3 DEF Post, Finish, Goto, Inv, TypeOK
    <3>3. call[r].kind \in Kinds \ {"freeze", "update"}
      BY <1>1, <3>2 DEF Inv, LockersTransfer, Transfers, Kinds
    <3> QED BY <3>1, <3>2, <3>3 DEF Answering
  <2> QED BY <1>1, <2>1, <2>2, <2>3, OthersWriteNothing
<1>2. Inv /\ [Next]_vars => [\A a \in Accounts : Kept(a)]_vars
  BY <1>1 DEF Next, Finished
<1> QED BY <1>2, Invariance, PTL DEF Spec, WritesItsOwnColumn

\* Only a transfer that posts goes from its decision to "ok".
LEMMA SettledByPost ==
  ASSUME Inv, [Next]_vars, NEW r \in Requests, pc[r] = "settle", pc'[r] = "ok"
  PROVE  Post(r)
<1>0. pc \in [Requests -> Steps \cup Answers]
  BY DEF Inv, TypeOK
<1>1. PICK q \in Requests : Step(q) \/ Lose(q)
  BY DEF Next, Finished, vars
<1>2. q = r
  BY <1>0, <1>1, StepMovesOne
<1>3. ~TransferRefused(r) /\ ~Lose(r)
  BY <1>0 DEF TransferRefused, Lose, Refuse, Finish, Goto
<1> QED BY <1>1, <1>2, <1>3
        DEF Step, Ungated, Transfer, GatePass, GateFail, OwnerPasses, FreezeRead,
            OwnerRefuses, SameAccount, LockFirst, LockSecond, Read, NumberIsFree,
            ReadRefused, FreezeWrite, UpdateWrite, CashWrite, CreateWrite,
            WriteRefused

\* Numeric(18, 2) on a debit and on a credit of m half-cents.
LEMMA Rounded ==
  ASSUME NEW b \in Nat, b % 2 = 0, NEW c \in Nat, c % 2 = 0, NEW m \in Nat, m <= b
  PROVE  /\ Column(c + m) - c = Column(m)
         /\ b - Column(b - m) = IF m % 2 = 0 THEN Column(m) ELSE Column(m) - 2
<1>1. CASE m % 2 = 0
  <2>1. (c + m) % 2 = 0 /\ (b - m) % 2 = 0
    BY <1>1
  <2> QED BY <1>1, <2>1 DEF Column
<1>2. CASE m % 2 # 0
  <2>1. (c + m) % 2 # 0 /\ (b - m) % 2 # 0 /\ b - m > 0 /\ m > 0
    BY <1>2
  <2> QED BY <1>2, <2>1 DEF Column
<1> QED BY <1>1, <1>2

\* transaction_service.py:49-52 rounds both balances and the amount on their
\* own: the receiver is credited exactly what the transactions row says, the
\* sender debited as much, or one cent less where the amount has half a cent.
\* Whatever runs beside the transfer, no other change hides in the difference.
THEOREM RoundingIsWithinACent == Spec => RoundingStaysInACent
<1> DEFINE Paid(r) == row[call[r].account].balance - row'[call[r].account].balance
           Got(r) == row'[call[r].peer].balance - row[call[r].peer].balance
           Booked(r) ==
             /\ \E t \in transactions' : t.request = r /\ t.amount = Got(r)
             /\ Paid(r) = IF call[r].amount % 2 = 0 THEN Got(r) ELSE Got(r) - 2
<1>1. ASSUME Inv, [Next]_vars, NEW r \in Requests, pc[r] = "settle", pc'[r] = "ok"
      PROVE  Booked(r)
  <2> DEFINE s == call[r].account
             p == call[r].peer
             m == call[r].amount
             t == [request |-> r, sender |-> s, receiver |-> p, amount |-> Column(m)]
  <2>1. Post(r) /\ ValidTransfer(r)
    BY <1>1, SettledByPost DEF Post
  <2>2. /\ Sender(r) = row[s] /\ Receiver(r) = row[p]
        /\ row[s] \in [status : Statuses, balance : Cents]
        /\ row[p] \in [status : Statuses, balance : Cents]
    BY <1>1, <2>1, PostReads
  <2>3. /\ row[s].balance \in Nat /\ row[s].balance % 2 = 0
        /\ row[p].balance \in Nat /\ row[p].balance % 2 = 0
        /\ m \in Nat /\ m <= row[s].balance
    BY <1>1, <2>1, <2>2, CallFields, LimitIsCents DEF Cents, ValidTransfer, Inv
  <2>4. row'[s].balance = Debited(r) /\ row'[p].balance = Credited(r)
    BY <1>1, <2>1, <2>2, PostWrites
  <2>5. /\ Got(r) = Column(m)
        /\ Paid(r) = IF m % 2 = 0 THEN Column(m) ELSE Column(m) - 2
    <3>1. /\ row'[s].balance = Column(row[s].balance - m)
          /\ row'[p].balance = Column(row[p].balance + m)
      BY <2>2, <2>4 DEF Debited, Credited
    <3>2. /\ Column(row[p].balance + m) - row[p].balance = Column(m)
          /\ row[s].balance - Column(row[s].balance - m) =
               IF m % 2 = 0 THEN Column(m) ELSE Column(m) - 2
      BY <2>3, Rounded
    <3>3. Column(m) \in Int
      BY <2>3, ColumnIsWhole
    <3> QED BY <3>1, <3>2, <3>3
  <2>6. t \in transactions' /\ t.request = r /\ t.amount = Column(m)
    BY <2>1 DEF Post
  <2> QED BY <2>5, <2>6
<1>2. Inv /\ [Next]_vars =>
        [\A r \in Requests : pc[r] = "settle" /\ pc'[r] = "ok" => Booked(r)]_vars
  BY <1>1
<1> QED BY <1>2, Invariance, PTL DEF Spec, RoundingStaysInACent

-----------------------------------------------------------------------------
(* The refinement of AtomicBank. *)

\* Nothing is paid in or out in cash: deposit and withdraw take no part.
NoCash == \A c \in Calls : c.kind \notin {"deposit", "withdraw"}

\* Every amount is one the column can hold.
WholeCents == \A c \in Calls : c.amount % 2 = 0

\* A transaction is recorded by the step that answers its request.
PostersAnswered == \A t \in transactions : pc[t.request] = "ok"

LEMMA WholeColumn ==
  ASSUME NEW x \in Int, x % 2 = 0
  PROVE  Column(x) = x
BY DEF Column

LEMMA NextPosters == Inv /\ PostersAnswered /\ [Next]_vars => PostersAnswered'
<1> SUFFICES ASSUME Inv, PostersAnswered, [Next]_vars, NEW t \in transactions'
             PROVE  pc'[t.request] = "ok"
  BY DEF PostersAnswered
<1>1. CASE t \in transactions
  <2>1. t.request \in Requests
    BY <1>1 DEF Inv, TypeOK, Transaction
  <2> QED BY <1>1, <2>1, AnswersStay DEF PostersAnswered
<1>2. ASSUME NEW r \in Requests, Post(r), t \notin transactions
      PROVE  pc'[t.request] = "ok"
  <2>1. t.request = r
    BY <1>2 DEF Post
  <2> QED BY <1>2, <2>1 DEF Post, Finish, Goto, Inv, TypeOK
<1>3. ASSUME NEW r \in Requests, Step(r) \/ Lose(r), ~Post(r)
      PROVE  transactions' = transactions
  <2>1. CASE \/ FreezeWrite(r) \/ CashWrite(r) \/ CreateWrite(r)
             \/ (UpdateWrite(r) /\ Restatus(r))
    BY <2>1 DEF FreezeWrite, CashWrite, CreateWrite, UpdateWrite, Write
  <2> QED BY <1>3, <2>1, OthersWriteNothing
<1> QED BY <1>1, <1>2, <1>3 DEF Next, Finished, vars

\* A posted transfer is one Move of the bank.
LEMMA PostMoves ==
  ASSUME WholeCents, Inv, PostersAnswered, NEW r \in Requests, Post(r)
  PROVE  Bank!Move(r)
<1> DEFINE s == call[r].account
           p == call[r].peer
           m == call[r].amount
<1>0. TypeOK
  BY DEF Inv
<1>1. pc[r] = "settle" /\ ValidTransfer(r)
  BY DEF Post
<1>2. /\ s \in Accounts /\ p \in Accounts /\ s # p
      /\ Sender(r) = row[s] /\ Receiver(r) = row[p]
      /\ row[s] \in [status : Statuses, balance : Cents]
      /\ row[p] \in [status : Statuses, balance : Cents]
      /\ row[s].status = "ACTIVE" /\ row[p].status = "ACTIVE"
  BY <1>1, PostReads
<1>3. /\ m \in Nat /\ m % 2 = 0
      /\ row[s].balance \in Nat /\ row[s].balance % 2 = 0
      /\ row[p].balance \in Nat /\ row[p].balance % 2 = 0
  BY <1>0, <1>2, CallFields DEF WholeCents, TypeOK, Cents
<1>4. /\ Debited(r) = row[s].balance - m
      /\ Credited(r) = row[p].balance + m
      /\ Column(m) = m
  <2>1. /\ row[s].balance - m \in Int /\ (row[s].balance - m) % 2 = 0
        /\ row[p].balance + m \in Int /\ (row[p].balance + m) % 2 = 0
    BY <1>3
  <2> QED BY <1>2, <1>3, <2>1, WholeColumn DEF Debited, Credited
<1>5. call[r].kind \in {"transfer", "p2p"}
  BY <1>1 DEF Inv, LockersTransfer, Transfers
<1>6. ~Bank!HasPosted(r)
  BY <1>1 DEF Bank!HasPosted, PostersAnswered
<1>7. /\ CurrencyOf[s] = call[r].currency /\ CurrencyOf[p] = call[r].currency
      /\ m <= row[s].balance
  BY <1>1, <1>2, <1>3 DEF ValidTransfer
<1>8. row[p].balance + m <= Limit
  BY <1>4 DEF Post, Storable, Cents
<1>9. row' = [row EXCEPT ![s].balance = @ - m, ![p].balance = @ + m]
  <2>1. row' = [row EXCEPT ![s].balance = Debited(r),
                           ![p].balance = Credited(r)]
    BY DEF Post
  <2>2. row \in [Accounts -> Row]
    BY <1>0 DEF TypeOK
  <2> QED BY <1>2, <1>4, <2>1, <2>2
<1>10. /\ transactions' = transactions \cup
            {[request |-> r, sender |-> s, receiver |-> p, amount |-> m]}
       /\ call' = call
  BY <1>4 DEF Post, Finish
<1> QED BY <1>2, <1>5, <1>6, <1>7, <1>8, <1>9, <1>10 DEF Bank!Move

LEMMA StepSimulation ==
  ASSUME NoCash, WholeCents, Inv, PostersAnswered, [Next]_vars
  PROVE  [Bank!Next]_(Bank!vars)
<1>0. TypeOK
  BY DEF Inv
<1>1. CASE UNCHANGED vars
  BY <1>1 DEF vars, Bank!vars
<1>2. ASSUME NEW r \in Requests, Step(r) \/ Lose(r)
      PROVE  Bank!Next \/ UNCHANGED <<row, transactions, call>>
  <2>1. call[r].account \in Accounts /\ call[r] \in Calls
    BY <1>0, CallFields DEF TypeOK
  <2>2. CASE \/ GatePass(r) \/ OwnerPasses(r) \/ FreezeRead(r)
             \/ Read(r) \/ NumberIsFree(r) \/ LockFirst(r) \/ LockSecond(r)
    BY <2>2 DEF GatePass, OwnerPasses, FreezeRead, Read, NumberIsFree,
                LockFirst, LockSecond, Take
  <2>3. CASE \/ GateFail(r) \/ OwnerRefuses(r) \/ SameAccount(r)
             \/ TransferRefused(r) \/ ReadRefused(r) \/ WriteRefused(r)
             \/ Lose(r)
    BY <2>3, PlainAnswers DEF Finish
  <2>4. CASE FreezeWrite(r)
    <3>1. Bank!SetStatus(call[r].account, "FROZEN")
      <4>1. row[call[r].account].status # "ABSENT"
        BY <2>4 DEF FreezeWrite, Inv, WritersFoundTheRow
      <4> QED BY <2>4, <4>1 DEF FreezeWrite, Write, Finish, Bank!SetStatus,
                 Bank!Open
    <3> QED BY <2>1, <3>1 DEF Bank!Next, Bank!Statuses
  <2>5. CASE UpdateWrite(r)
    <3>1. CASE ~Restatus(r)
      BY <2>5, <3>1 DEF UpdateWrite, Finish
    <3>2. CASE Restatus(r)
      <4>1. call[r].status \in Statuses
        BY <1>0, <2>5, CallFields DEF UpdateWrite
      <4>2. row[call[r].account].status # "ABSENT"
        BY <2>5 DEF UpdateWrite, Inv, WritersFoundTheRow
      <4>3. Bank!SetStatus(call[r].account, call[r].status)
        BY <2>5, <3>2, <4>2 DEF UpdateWrite, Write, Finish, Bank!SetStatus,
           Bank!Open
      <4> QED BY <2>1, <4>1, <4>3 DEF Bank!Next, Bank!Statuses, Statuses
    <3> QED BY <3>1, <3>2
  <2>6. CASE CashWrite(r)
    BY <2>1, <2>6 DEF CashWrite, NoCash
  <2>7. CASE CreateWrite(r)
    <3>1. Column(call[r].amount) = call[r].amount
      BY <1>0, <2>1, CallFields, WholeColumn DEF WholeCents
    <3> QED BY <2>7, <3>1 DEF CreateWrite, Write, Finish, Bank!Next,
               Bank!OpenAccount, Bank!Open
  <2>8. CASE Post(r)
    BY <2>8, PostMoves DEF Bank!Next
  <2>9. CASE Transfer(r)
    BY <2>2, <2>3, <2>8, <2>9 DEF Transfer
  <2> QED BY <1>2, <2>2, <2>3, <2>4, <2>5, <2>6, <2>7, <2>9
          DEF Step, Ungated
<1> QED BY <1>1, <1>2 DEF Next, Finished, vars, Bank!vars

\* Without cash, and with amounts in whole cents, every behaviour of the
\* services is one of the atomic bank: each transfer takes effect at one
\* instant, on active accounts, for exactly the amount it records, once.
THEOREM ImplementsAtomicBank ==
  ASSUME NoCash, WholeCents
  PROVE  Spec => BankSpec
<1>1. Init => Bank!Init
  BY DEF Init, Bank!Init
<1>2. Init => PostersAnswered
  BY DEF Init, PostersAnswered
<1>3. Inv /\ PostersAnswered /\ [Next]_vars => PostersAnswered'
  BY NextPosters
<1>4. Inv /\ PostersAnswered /\ [Next]_vars => [Bank!Next]_(Bank!vars)
  BY StepSimulation
<1> QED BY <1>1, <1>2, <1>3, <1>4, Invariance, PTL
        DEF Spec, BankSpec, Bank!Spec

-----------------------------------------------------------------------------
(* Sums over finite sets *)

Pick(s) == CHOOSE x \in s : TRUE

\* h is the sum of g over every subset of S, whichever element is taken first.
Total(g, S, h) ==
  /\ h \in [SUBSET S -> Int]
  /\ h[{}] = 0
  /\ \A s \in SUBSET S : \A x \in s : h[s] = g[x] + h[s \ {x}]

\* it is the function MapThenSumSet is defined by: it takes Pick(s) first.
Folds(g, S, it) ==
  it = [s \in SUBSET S |-> IF s = {} THEN 0 ELSE g[Pick(s)] + it[s \ {Pick(s)}]]

LEMMA SmallestSubset ==
  ASSUME NEW S, IsFiniteSet(S), NEW X, X \subseteq SUBSET S, X # {}
  PROVE  \E V \in X : \A W \in X : W \subseteq V => W = V
<1>1. IsWellFoundedOn(StrictSubsetOrdering(S), SUBSET S)
  BY FS_StrictSubsetOrderingWellFounded, FS_FiniteSubsetsOfFinite
<1>2. PICK V \in X : \A W \in X : <<W, V>> \notin StrictSubsetOrdering(S)
  BY <1>1, WFMin
<1> QED BY <1>2 DEF StrictSubsetOrdering

LEMMA PickIsIn == \A s : s # {} => Pick(s) \in s
BY DEF Pick

LEMMA TotalOfNone ==
  ASSUME NEW g PROVE Total(g, {}, [s \in SUBSET {} |-> 0])
BY DEF Total

\* One element more: what contains it is its value more than the rest.
LEMMA TotalOfOneMore ==
  ASSUME NEW g, NEW V, NEW y, y \notin V, g[y] \in Int, \A x \in V : g[x] \in Int,
         NEW h, Total(g, V, h)
  PROVE  \E j : Total(g, V \cup {y}, j)
<1> DEFINE S == V \cup {y}
           j == [s \in SUBSET S |-> IF y \in s THEN g[y] + h[s \ {y}] ELSE h[s]]
<1>1. /\ h \in [SUBSET V -> Int] /\ h[{}] = 0
      /\ \A s \in SUBSET V : \A x \in s : h[s] = g[x] + h[s \ {x}]
  BY DEF Total
<1>2. ASSUME NEW s \in SUBSET S PROVE s \ {y} \in SUBSET V /\ (y \notin s => s \in SUBSET V)
  OBVIOUS
<1>3. j \in [SUBSET S -> Int]
  <2> SUFFICES ASSUME NEW s \in SUBSET S
               PROVE  (IF y \in s THEN g[y] + h[s \ {y}] ELSE h[s]) \in Int
    OBVIOUS
  <2>1. CASE y \in s
    <3>1. h[s \ {y}] \in Int
      BY <1>1, <1>2
    <3> QED BY <2>1, <3>1
  <2>2. CASE y \notin s
    <3>1. h[s] \in Int
      BY <1>1, <1>2, <2>2
    <3> QED BY <2>2, <3>1
  <2> QED BY <2>1, <2>2
<1>4. j[{}] = 0
  BY <1>1
<1>5. ASSUME NEW s \in SUBSET S, NEW x \in s PROVE j[s] = g[x] + j[s \ {x}]
  <2>1. s \ {x} \in SUBSET S
    OBVIOUS
  <2>2. CASE x = y
    <3>1. j[s] = g[y] + h[s \ {y}] /\ j[s \ {y}] = h[s \ {y}]
      BY <2>1, <2>2
    <3> QED BY <2>2, <3>1
  <2>3. CASE x # y /\ y \in s
    <3>1. x \in V /\ x \in s \ {y} /\ s \ {y} \in SUBSET V
      BY <2>3
    <3>2. (s \ {y}) \ {x} = (s \ {x}) \ {y} /\ (s \ {x}) \ {y} \in SUBSET V
      OBVIOUS
    <3>3. h[s \ {y}] = g[x] + h[(s \ {x}) \ {y}]
      <4>1. h[s \ {y}] = g[x] + h[(s \ {y}) \ {x}]
        BY <1>1, <3>1
      <4> QED BY <3>2, <4>1
    <3>4. j[s] = g[y] + h[s \ {y}] /\ j[s \ {x}] = g[y] + h[(s \ {x}) \ {y}]
      BY <2>1, <2>3
    <3>5. g[x] \in Int /\ g[y] \in Int /\ h[(s \ {x}) \ {y}] \in Int
      BY <1>1, <3>1, <3>2
    <3> HIDE DEF j
    <3> QED BY <3>3, <3>4, <3>5
  <2>4. CASE y \notin s
    <3>1. j[s] = h[s]
      BY <2>4
    <3>2. j[s \ {x}] = h[s \ {x}]
      BY <2>1, <2>4
    <3>3. s \in SUBSET V
      BY <1>2, <2>4
    <3>4. h[s] = g[x] + h[s \ {x}]
      BY <1>1, <3>3
    <3> HIDE DEF j
    <3> QED BY <3>1, <3>2, <3>4
  <2> QED BY <2>2, <2>3, <2>4
<1> HIDE DEF j, S
<1>6. Total(g, S, j)
  BY <1>3, <1>4, <1>5 DEF Total
<1> QED BY <1>6 DEF S

\* Every finite set has its sums: no smallest subset can be without.
LEMMA TotalExists ==
  ASSUME NEW S, IsFiniteSet(S), NEW g, \A x \in S : g[x] \in Int
  PROVE  \E h : Total(g, S, h)
<1> DEFINE X == {V \in SUBSET S : ~ \E h : Total(g, V, h)}
<1> SUFFICES ASSUME S \in X PROVE FALSE
  OBVIOUS
<1>1. PICK V \in X : \A W \in X : W \subseteq V => W = V
  <2>1. X \subseteq SUBSET S /\ X # {}
    OBVIOUS
  <2> HIDE DEF X
  <2> QED BY <2>1, SmallestSubset
<1>2. V \in SUBSET S /\ ~ \E h : Total(g, V, h)
  BY <1>1
<1>3. V # {}
  BY <1>2, TotalOfNone
<1>4. PICK y \in V : TRUE
  BY <1>3
<1>5. V \ {y} \notin X /\ V \ {y} \in SUBSET S
  BY <1>1, <1>4
<1>6. PICK h : Total(g, V \ {y}, h)
  BY <1>5
<1>7. \E j : Total(g, (V \ {y}) \cup {y}, j)
  BY <1>2, <1>4, <1>6, TotalOfOneMore
<1>8. (V \ {y}) \cup {y} = V
  BY <1>4
<1> QED BY <1>2, <1>7, <1>8

LEMMA TotalFolds ==
  ASSUME NEW S, NEW g, NEW h, Total(g, S, h) PROVE Folds(g, S, h)
<1>1. /\ h \in [SUBSET S -> Int] /\ h[{}] = 0
      /\ \A s \in SUBSET S : \A x \in s : h[s] = g[x] + h[s \ {x}]
  BY DEF Total
<1>2. ASSUME NEW s \in SUBSET S
      PROVE  h[s] = IF s = {} THEN 0 ELSE g[Pick(s)] + h[s \ {Pick(s)}]
  BY <1>1, PickIsIn
<1> QED BY <1>1, <1>2 DEF Folds

LEMMA FoldsIsTotal ==
  ASSUME NEW S, IsFiniteSet(S), NEW g, NEW h, Total(g, S, h),
         NEW it, Folds(g, S, it)
  PROVE  \A s \in SUBSET S : it[s] = h[s]
<1> DEFINE X == {s \in SUBSET S : it[s] # h[s]}
<1> SUFFICES ASSUME X # {} PROVE FALSE
  OBVIOUS
<1>1. PICK s \in X : \A W \in X : W \subseteq s => W = s
  <2>1. X \subseteq SUBSET S
    OBVIOUS
  <2> HIDE DEF X
  <2> QED BY <2>1, SmallestSubset
<1>2. s \in SUBSET S /\ it[s] # h[s]
  BY <1>1
<1>3. it[s] = IF s = {} THEN 0 ELSE g[Pick(s)] + it[s \ {Pick(s)}]
  BY <1>2 DEF Folds
<1>4. h[s] = IF s = {} THEN 0 ELSE g[Pick(s)] + h[s \ {Pick(s)}]
  <2>1. Folds(g, S, h)
    BY TotalFolds
  <2> QED BY <1>2, <2>1 DEF Folds
<1>5. s # {} /\ Pick(s) \in s
  BY <1>2, <1>3, <1>4, PickIsIn
<1>6. s \ {Pick(s)} \notin X /\ s \ {Pick(s)} \in SUBSET S
  BY <1>1, <1>5
<1>7. it[s \ {Pick(s)}] = h[s \ {Pick(s)}]
  BY <1>6
<1> QED BY <1>2, <1>3, <1>4, <1>5, <1>7

\* The sum over a set and one element more.
LEMMA TotalsAdd ==
  ASSUME NEW S, IsFiniteSet(S), NEW y, y \notin S,
         NEW g, NEW h, Total(g, S, h),
         NEW k, NEW j, Total(k, S \cup {y}, j), \A x \in S : k[x] = g[x]
  PROVE  j[S \cup {y}] = k[y] + h[S]
<1> DEFINE i == [s \in SUBSET S |-> j[s]]
<1>1. /\ j \in [SUBSET (S \cup {y}) -> Int] /\ j[{}] = 0
      /\ \A s \in SUBSET (S \cup {y}) : \A x \in s : j[s] = k[x] + j[s \ {x}]
  BY DEF Total
<1>2. Total(g, S, i)
  <2>1. i \in [SUBSET S -> Int] /\ i[{}] = 0
    BY <1>1
  <2>2. ASSUME NEW s \in SUBSET S, NEW x \in s PROVE i[s] = g[x] + i[s \ {x}]
    <3>1. s \ {x} \in SUBSET S /\ s \in SUBSET (S \cup {y}) /\ k[x] = g[x]
      OBVIOUS
    <3> QED BY <1>1, <3>1
  <2> QED BY <2>1, <2>2 DEF Total
<1>3. i[S] = h[S]
  BY <1>2, TotalFolds, FoldsIsTotal
<1>4. j[S \cup {y}] = k[y] + j[(S \cup {y}) \ {y}]
  BY <1>1
<1>5. (S \cup {y}) \ {y} = S /\ i[S] = j[S]
  OBVIOUS
<1> QED BY <1>3, <1>4, <1>5

\* The two sums of Accounts.
AmountsOf(T) == MapThenSumSet(LAMBDA t : t.amount, T)
OpenedWith(c, S) == MapThenSumSet(LAMBDA r : Column(c[r].amount), S)

AmountFolds(T, it) ==
  it = [s \in SUBSET T |-> IF s = {} THEN 0 ELSE (CHOOSE x \in s : TRUE).amount + it[s \ {CHOOSE x \in s : TRUE}]]
OpenFolds(c, S, it) ==
  it = [s \in SUBSET S |-> IF s = {} THEN 0 ELSE Column(c[CHOOSE x \in s : TRUE].amount) + it[s \ {CHOOSE x \in s : TRUE}]]

LEMMA AmountsAreFolded ==
  ASSUME NEW T, \E it : AmountFolds(T, it)
  PROVE  \E it : AmountFolds(T, it) /\ AmountsOf(T) = it[T]
BY Zenon DEF AmountsOf, MapThenSumSet, MapThenFoldSet, AmountFolds

LEMMA OpeningsAreFolded ==
  ASSUME NEW c, NEW S, \E it : OpenFolds(c, S, it)
  PROVE  \E it : OpenFolds(c, S, it) /\ OpenedWith(c, S) = it[S]
BY Zenon DEF OpenedWith, MapThenSumSet, MapThenFoldSet, OpenFolds

LEMMA AmountsTotal ==
  ASSUME NEW T, IsFiniteSet(T), \A t \in T : t.amount \in Int
  PROVE  \E h : Total([t \in T |-> t.amount], T, h) /\ AmountsOf(T) = h[T]
<1> DEFINE g == [t \in T |-> t.amount]
<1>1. \A it : AmountFolds(T, it) <=> Folds(g, T, it)
  <2> TAKE it
  <2>1. ASSUME NEW s \in SUBSET T
        PROVE  (IF s = {} THEN 0 ELSE (CHOOSE x \in s : TRUE).amount
                                        + it[s \ {CHOOSE x \in s : TRUE}])
               = (IF s = {} THEN 0 ELSE g[Pick(s)] + it[s \ {Pick(s)}])
    BY PickIsIn DEF Pick
  <2> QED BY <2>1 DEF AmountFolds, Folds
<1>2. \A x \in T : g[x] \in Int
  OBVIOUS
<1> HIDE DEF g
<1>3. PICK h : Total(g, T, h)
  BY <1>2, TotalExists
<1>4. PICK it : AmountFolds(T, it) /\ AmountsOf(T) = it[T]
  BY <1>1, <1>3, TotalFolds, AmountsAreFolded
<1>5. it[T] = h[T]
  BY <1>1, <1>3, <1>4, FoldsIsTotal
<1> QED BY <1>3, <1>4, <1>5 DEF g

LEMMA OpeningsTotal ==
  ASSUME NEW c, NEW S, IsFiniteSet(S), \A r \in S : Column(c[r].amount) \in Int
  PROVE  \E h : Total([r \in S |-> Column(c[r].amount)], S, h) /\ OpenedWith(c, S) = h[S]
<1> DEFINE g == [r \in S |-> Column(c[r].amount)]
<1>1. \A it : OpenFolds(c, S, it) <=> Folds(g, S, it)
  <2> TAKE it
  <2>1. ASSUME NEW s \in SUBSET S
        PROVE  (IF s = {} THEN 0 ELSE Column(c[CHOOSE x \in s : TRUE].amount)
                                        + it[s \ {CHOOSE x \in s : TRUE}])
               = (IF s = {} THEN 0 ELSE g[Pick(s)] + it[s \ {Pick(s)}])
    BY PickIsIn DEF Pick
  <2> QED BY <2>1 DEF OpenFolds, Folds
<1>2. \A x \in S : g[x] \in Int
  OBVIOUS
<1> HIDE DEF g
<1>3. PICK h : Total(g, S, h)
  BY <1>2, TotalExists
<1>4. PICK it : OpenFolds(c, S, it) /\ OpenedWith(c, S) = it[S]
  BY <1>1, <1>3, TotalFolds, OpeningsAreFolded
<1>5. it[S] = h[S]
  BY <1>1, <1>3, <1>4, FoldsIsTotal
<1> QED BY <1>3, <1>4, <1>5 DEF g

LEMMA SumsOfNone ==
  ASSUME NEW c PROVE AmountsOf({}) = 0 /\ OpenedWith(c, {}) = 0
<1>1. PICK z : Total([t \in {} |-> t.amount], {}, z) /\ AmountsOf({}) = z[{}]
  BY AmountsTotal, FS_EmptySet
<1>2. PICK y : /\ Total([r \in {} |-> Column(c[r].amount)], {}, y)
              /\ OpenedWith(c, {}) = y[{}]
  BY OpeningsTotal, FS_EmptySet
<1> QED BY <1>1, <1>2 DEF Total

LEMMA AmountsAdd ==
  ASSUME NEW T, IsFiniteSet(T), NEW u, u \notin T, u.amount \in Int,
         \A t \in T : t.amount \in Int
  PROVE  AmountsOf(T \cup {u}) = AmountsOf(T) + u.amount
<1>1. PICK h : Total([t \in T |-> t.amount], T, h) /\ AmountsOf(T) = h[T]
  BY AmountsTotal
<1>2. IsFiniteSet(T \cup {u}) /\ \A t \in T \cup {u} : t.amount \in Int
  BY FS_AddElement
<1>3. PICK j : /\ Total([t \in T \cup {u} |-> t.amount], T \cup {u}, j)
               /\ AmountsOf(T \cup {u}) = j[T \cup {u}]
  BY <1>2, AmountsTotal
<1>4. h[T] \in Int
  BY <1>1 DEF Total
<1>5. j[T \cup {u}] = u.amount + h[T]
  BY <1>1, <1>3, TotalsAdd
<1> QED BY <1>1, <1>3, <1>4, <1>5

LEMMA OpeningsAdd ==
  ASSUME NEW c, NEW S, IsFiniteSet(S), NEW q, q \notin S,
         Column(c[q].amount) \in Int, \A r \in S : Column(c[r].amount) \in Int
  PROVE  OpenedWith(c, S \cup {q}) = OpenedWith(c, S) + Column(c[q].amount)
<1>1. PICK h : Total([r \in S |-> Column(c[r].amount)], S, h) /\ OpenedWith(c, S) = h[S]
  BY OpeningsTotal
<1>2. IsFiniteSet(S \cup {q}) /\ \A r \in S \cup {q} : Column(c[r].amount) \in Int
  BY FS_AddElement
<1>3. PICK j : /\ Total([r \in S \cup {q} |-> Column(c[r].amount)], S \cup {q}, j)
               /\ OpenedWith(c, S \cup {q}) = j[S \cup {q}]
  BY <1>2, OpeningsTotal
<1>4. h[S] \in Int
  BY <1>1 DEF Total
<1>5. j[S \cup {q}] = Column(c[q].amount) + h[S]
  BY <1>1, <1>3, TotalsAdd
<1> QED BY <1>1, <1>3, <1>4, <1>5

-----------------------------------------------------------------------------
(* The balances and the table of transactions tell the same story. *)

In(a) == {t \in transactions : t.receiver = a}
Out(a) == {t \in transactions : t.sender = a}
OpenedBy(a) == {r \in Requests : /\ pc[r] = "ok" /\ call[r].kind = "create"
                                 /\ call[r].account = a}

\* What makes Reconciled inductive: the sums are of finite sets, and a row
\* that was there at the start is never opened again.
Books ==
  /\ Reconciled
  /\ IsFiniteSet(transactions)
  /\ \A a \in Accounts : IsFiniteSet(OpenedBy(a))
  /\ \A a \in Accounts : InitialRow[a] # AbsentRow => Exists(a)

LEMMA Sums ==
  ASSUME NEW a
  PROVE  /\ Received(a) = AmountsOf(In(a))
         /\ Sent(a) = AmountsOf(Out(a))
         /\ Opening(a) = IF InitialRow[a] # AbsentRow THEN InitialRow[a].balance
                         ELSE OpenedWith(call, OpenedBy(a))
BY Zenon DEF Received, Sent, Opening, AmountsOf, OpenedWith, In, Out, OpenedBy

LEMMA NextSums ==
  ASSUME NEW a
  PROVE  /\ Received(a)' = AmountsOf(In(a)')
         /\ Sent(a)' = AmountsOf(Out(a)')
         /\ Opening(a)' = IF InitialRow[a] # AbsentRow THEN InitialRow[a].balance
                          ELSE OpenedWith(call', OpenedBy(a)')
<1>1. Received(a)' = AmountsOf(In(a)')
  BY Zenon DEF Received, AmountsOf, In, MapThenSumSet, MapThenFoldSet
<1>2. Sent(a)' = AmountsOf(Out(a)')
  BY Zenon DEF Sent, AmountsOf, Out, MapThenSumSet, MapThenFoldSet
<1>3. Opening(a)' = IF InitialRow[a] # AbsentRow THEN InitialRow[a].balance
                    ELSE OpenedWith(call', OpenedBy(a)')
  BY Zenon DEF Opening, OpenedWith, OpenedBy, MapThenSumSet, MapThenFoldSet
<1> QED BY <1>1, <1>2, <1>3

\* The sums are whole numbers.
LEMMA SumsAreWhole ==
  ASSUME Inv, Books, NEW a \in Accounts
  PROVE  /\ Received(a) \in Int /\ Sent(a) \in Int /\ Opening(a) \in Int
         /\ IsFiniteSet(In(a)) /\ IsFiniteSet(Out(a))
         /\ \A t \in In(a) \cup Out(a) : t.amount \in Int
         /\ \A r \in OpenedBy(a) : Column(call[r].amount) \in Int
<1>1. IsFiniteSet(In(a)) /\ IsFiniteSet(Out(a))
  BY FS_Subset DEF Books, In, Out
<1>2. \A t \in In(a) \cup Out(a) : t.amount \in Int
  BY DEF Inv, TypeOK, In, Out, Transaction
<1>3. \A r \in OpenedBy(a) : Column(call[r].amount) \in Int
  BY CallFields, ColumnIsWhole DEF Inv, OpenedBy
<1>4. AmountsOf(In(a)) \in Int /\ AmountsOf(Out(a)) \in Int
  <2>1. ASSUME NEW T, IsFiniteSet(T), \A t \in T : t.amount \in Int
        PROVE  AmountsOf(T) \in Int
    <3>1. PICK h : Total([t \in T |-> t.amount], T, h) /\ AmountsOf(T) = h[T]
      BY <2>1, AmountsTotal
    <3> QED BY <3>1 DEF Total
  <2> QED BY <1>1, <1>2, <2>1
<1>5. OpenedWith(call, OpenedBy(a)) \in Int
  <2>1. IsFiniteSet(OpenedBy(a))
    BY DEF Books
  <2>2. PICK h : /\ Total([r \in OpenedBy(a) |-> Column(call[r].amount)], OpenedBy(a), h)
                 /\ OpenedWith(call, OpenedBy(a)) = h[OpenedBy(a)]
    BY <1>3, <2>1, OpeningsTotal
  <2> QED BY <2>2 DEF Total
<1>6. InitialRow[a].balance \in Int
  BY InitialRows, RowFields, LimitIsCents DEF Cents
<1> QED BY <1>1, <1>2, <1>3, <1>4, <1>5, <1>6, Sums

LEMMA InitBooks == Init => Books
<1> SUFFICES ASSUME Init PROVE Books
  OBVIOUS
<1>1. TypeOK
  BY InitInv DEF Inv
<1>2. transactions = {}
  BY DEF Init
<1>3. ASSUME NEW a \in Accounts PROVE OpenedBy(a) = {}
  <2> SUFFICES ASSUME NEW r \in Requests PROVE pc[r] # "ok"
    BY DEF OpenedBy
  <2>1. pc[r] = FirstStep[call[r].kind] /\ call[r].kind \in Kinds
    BY <1>1, CallFields DEF Init
  <2> QED BY <2>1 DEF FirstStep, Kinds
<1>4. ASSUME NEW a \in Accounts
      PROVE  row[a].balance = Opening(a) + Received(a) - Sent(a)
  <2>1. In(a) = {} /\ Out(a) = {}
    BY <1>2 DEF In, Out
  <2>2. AmountsOf({}) = 0 /\ OpenedWith(call, {}) = 0
    BY SumsOfNone
  <2>3. Received(a) = 0 /\ Sent(a) = 0
    BY <2>1, <2>2, Sums
  <2>4. row[a] = InitialRow[a] /\ row[a] \in Row /\ row[a].balance \in Int
    BY <1>1, RowFields, LimitIsCents DEF Init, TypeOK, Cents
  <2>5. row[a].balance = Opening(a)
    <3>1. CASE InitialRow[a] # AbsentRow
      BY <2>4, <3>1, Sums
    <3>2. CASE InitialRow[a] = AbsentRow
      BY <1>3, <2>2, <2>4, <3>2, Sums DEF AbsentRow
    <3> QED BY <3>1, <3>2
  <2> QED BY <2>3, <2>4, <2>5
<1>5. ASSUME NEW a \in Accounts, InitialRow[a] # AbsentRow PROVE Exists(a)
  BY <1>1, <1>5, RowFields DEF Init, TypeOK
<1>6. IsFiniteSet(transactions) /\ \A a \in Accounts : IsFiniteSet(OpenedBy(a))
  BY <1>2, <1>3, FS_EmptySet
<1> QED BY <1>4, <1>5, <1>6 DEF Books, Reconciled

\* Rows do not go away.
LEMMA RowsStay ==
  ASSUME Inv, NEW r \in Requests, Step(r) \/ Lose(r), NEW a \in Accounts, Exists(a)
  PROVE  Exists(a)'
<1>1. CASE \/ FreezeWrite(r) \/ CashWrite(r) \/ CreateWrite(r)
           \/ (UpdateWrite(r) /\ Restatus(r))
  <2>1. PICK new \in Row : new.status # "ABSENT" /\ Write(r, new)
    BY <1>1, UnlockedWrites
  <2>2. row' = [row EXCEPT ![call[r].account] = new] /\ row \in [Accounts -> Row]
    BY <2>1 DEF Write, Inv, TypeOK
  <2> QED BY <2>1, <2>2
<1>2. CASE Post(r)
  BY <1>2, PostWrites
<1> QED BY <1>1, <1>2, OthersWriteNothing

\* Only the INSERT of an account makes a request one that has opened it.
LEMMA OpeningsStay ==
  ASSUME Inv, NEW r \in Requests, Step(r) \/ Lose(r), ~CreateWrite(r),
         NEW a \in Accounts
  PROVE  OpenedBy(a)' = OpenedBy(a)
<1>1. pc[r] # "ok" /\ (\E x : pc' = [pc EXCEPT ![r] = x]) /\ call' = call
  BY StepMovesOne
<1>2. pc \in [Requests -> Steps \cup Answers]
  BY DEF Inv, TypeOK
<1>3. \A q \in Requests \ {r} : pc'[q] = pc[q]
  BY <1>1, <1>2
<1>4. ASSUME pc'[r] = "ok" PROVE call[r].kind # "create"
  <2>1. CASE Post(r)
    BY <2>1 DEF Post, Inv, LockersTransfer, Transfers
  <2>2. CASE FreezeWrite(r) \/ UpdateWrite(r) \/ CashWrite(r)
    BY <2>2 DEF FreezeWrite, UpdateWrite, CashWrite
  <2>3. CASE \/ GatePass(r) \/ OwnerPasses(r) \/ FreezeRead(r)
             \/ Read(r) \/ NumberIsFree(r) \/ LockFirst(r) \/ LockSecond(r)
    BY <1>2, <1>4, <2>3 DEF GatePass, OwnerPasses, FreezeRead, Read, NumberIsFree,
                LockFirst, LockSecond, Take, Goto
  <2>4. CASE \/ GateFail(r) \/ OwnerRefuses(r) \/ SameAccount(r)
             \/ TransferRefused(r) \/ ReadRefused(r) \/ WriteRefused(r)
             \/ Lose(r)
    BY <1>2, <1>4, <2>4 DEF GateFail, OwnerRefuses, SameAccount, TransferRefused,
                ReadRefused, WriteRefused, Lose, Refuse, Finish, Goto
  <2> QED BY <2>1, <2>2, <2>3, <2>4 DEF Step, Ungated, Transfer
<1> QED BY <1>1, <1>3, <1>4 DEF OpenedBy

\* Both sides of a posted transfer are booked.
LEMMA PostBooks ==
  ASSUME WholeCents, Inv, PostersAnswered, Books, NEW r \in Requests, Post(r),
         NEW a \in Accounts
  PROVE  /\ row'[a].balance = Opening(a)' + Received(a)' - Sent(a)'
         /\ IsFiniteSet(transactions')
<1> DEFINE s == call[r].account
           p == call[r].peer
           m == call[r].amount
           t == [request |-> r, sender |-> s, receiver |-> p, amount |-> m]
<1>1. pc[r] = "settle" /\ ValidTransfer(r) /\ call' = call
  BY DEF Post, Finish
<1>2. /\ s \in Accounts /\ p \in Accounts /\ s # p
      /\ Sender(r) = row[s] /\ Receiver(r) = row[p]
      /\ row[s] \in [status : Statuses, balance : Cents]
      /\ row[p] \in [status : Statuses, balance : Cents]
  BY <1>1, PostReads
<1>3. /\ m \in Nat /\ m % 2 = 0 /\ Column(m) = m
      /\ row[s].balance \in Nat /\ row[s].balance % 2 = 0
      /\ row[p].balance \in Nat /\ row[p].balance % 2 = 0
  <2>1. m \in Nat /\ m % 2 = 0
    BY CallFields DEF Inv, TypeOK, WholeCents
  <2> QED BY <1>2, <2>1, WholeColumn, LimitIsCents DEF Cents
<1>4. Debited(r) = row[s].balance - m /\ Credited(r) = row[p].balance + m
  <2>1. /\ row[s].balance - m \in Int /\ (row[s].balance - m) % 2 = 0
        /\ row[p].balance + m \in Int /\ (row[p].balance + m) % 2 = 0
    BY <1>3
  <2> QED BY <1>2, <2>1, WholeColumn DEF Debited, Credited
<1>5. /\ row'[s].balance = row[s].balance - m
      /\ row'[p].balance = row[p].balance + m
      /\ a \notin {s, p} => row'[a] = row[a]
  BY <1>2, <1>4, PostWrites
<1>6. t \notin transactions /\ transactions' = transactions \cup {t}
  <2>1. t \notin transactions
    BY <1>1 DEF PostersAnswered
  <2> QED BY <1>3, <2>1 DEF Post
<1>7. /\ t.sender = s /\ t.receiver = p /\ t.amount = m
      /\ In(a)' = IF p = a THEN In(a) \cup {t} ELSE In(a)
      /\ Out(a)' = IF s = a THEN Out(a) \cup {t} ELSE Out(a)
      /\ t \notin In(a) /\ t \notin Out(a)
  <2>1. t.sender = s /\ t.receiver = p /\ t.amount = m
    OBVIOUS
  <2> HIDE DEF t, s, p, m
  <2> QED BY <1>6, <2>1 DEF In, Out
<1>8. OpenedBy(a)' = OpenedBy(a)
  <2>1. Step(r) /\ ~CreateWrite(r)
    BY <1>1 DEF CreateWrite, Step, Ungated, Transfer
  <2> QED BY <2>1, OpeningsStay
<1>9. /\ Received(a) \in Int /\ Sent(a) \in Int /\ Opening(a) \in Int
      /\ IsFiniteSet(In(a)) /\ IsFiniteSet(Out(a))
      /\ \A u \in In(a) \cup Out(a) : u.amount \in Int
  BY SumsAreWhole
<1> HIDE DEF t, s, p, m
<1>10. Received(a)' = IF p = a THEN Received(a) + m ELSE Received(a)
  <2>1. AmountsOf(In(a) \cup {t}) = AmountsOf(In(a)) + m
    BY <1>3, <1>7, <1>9, AmountsAdd
  <2> QED BY <1>7, <2>1, Sums, NextSums
<1>11. Sent(a)' = IF s = a THEN Sent(a) + m ELSE Sent(a)
  <2>1. AmountsOf(Out(a) \cup {t}) = AmountsOf(Out(a)) + m
    BY <1>3, <1>7, <1>9, AmountsAdd
  <2> QED BY <1>7, <2>1, Sums, NextSums
<1>12. Opening(a)' = Opening(a)
  BY <1>1, <1>8, Sums, NextSums
<1>13. row[a].balance = Opening(a) + Received(a) - Sent(a)
  BY DEF Books, Reconciled
<1>14. IsFiniteSet(transactions')
  BY <1>6, FS_AddElement DEF Books
<1>15. row'[a].balance = Opening(a)' + Received(a)' - Sent(a)'
  <2>1. CASE a = s
    BY <1>2, <1>3, <1>5, <1>9, <1>10, <1>11, <1>12, <1>13, <2>1
  <2>2. CASE a = p
    <3>1. /\ row'[a].balance = row[a].balance + m
          /\ Received(a)' = Received(a) + m /\ Sent(a)' = Sent(a)
      BY <1>2, <1>5, <1>10, <1>11, <2>2
    <3> QED BY <1>3, <1>9, <1>12, <1>13, <3>1
  <2>3. CASE a \notin {s, p}
    BY <1>5, <1>10, <1>11, <1>12, <1>13, <2>3
  <2> QED BY <2>1, <2>2, <2>3
<1> QED BY <1>14, <1>15

\* An account is opened with what its row then holds.
LEMMA CreateBooks ==
  ASSUME Inv, Books, NEW r \in Requests, CreateWrite(r), NEW a \in Accounts
  PROVE  /\ row'[a].balance = Opening(a)' + Received(a)' - Sent(a)'
         /\ IsFiniteSet(OpenedBy(a)')
<1> DEFINE b == call[r].account
           m == Column(call[r].amount)
<1>1. /\ pc[r] = "write" /\ call[r].kind = "create" /\ ~Exists(b)
      /\ Write(r, [status |-> call[r].status, balance |-> m])
  BY DEF CreateWrite
<1>2. /\ b \in Accounts /\ m \in Int /\ row[b] \in Row
      /\ row \in [Accounts -> Row] /\ pc \in [Requests -> Steps \cup Answers]
  <2>1. TypeOK
    BY DEF Inv
  <2>2. call[r].account \in Accounts /\ call[r].amount \in Nat
    BY <2>1, CallFields
  <2> QED BY <2>1, <2>2, ColumnIsWhole DEF TypeOK
<1>3. /\ row'[b].balance = m
      /\ a # b => row'[a] = row[a]
      /\ transactions' = transactions /\ call' = call
      /\ pc' = [pc EXCEPT ![r] = "ok"]
  BY <1>1, <1>2 DEF Write, Finish, Goto
<1>4. row[b].balance = 0 /\ InitialRow[b] = AbsentRow
  BY <1>1, <1>2, RowFields DEF Books, AbsentRow
<1>5. /\ OpenedBy(a)' = IF a = b THEN OpenedBy(a) \cup {r} ELSE OpenedBy(a)
      /\ r \notin OpenedBy(a)
  BY <1>1, <1>2, <1>3 DEF OpenedBy
<1>6. IsFiniteSet(OpenedBy(a)')
  BY <1>5, FS_AddElement DEF Books
<1>7. /\ Received(a) \in Int /\ Sent(a) \in Int /\ Opening(a) \in Int
      /\ \A q \in OpenedBy(a) : Column(call[q].amount) \in Int
  BY SumsAreWhole
<1>8. Received(a)' = Received(a) /\ Sent(a)' = Sent(a)
  <2>1. In(a)' = In(a) /\ Out(a)' = Out(a)
    BY <1>3 DEF In, Out
  <2> QED BY <2>1, Sums, NextSums
<1>9. Opening(a)' = IF a = b THEN Opening(a) + m ELSE Opening(a)
  <2>1. CASE a = b
    <3>1. OpenedWith(call, OpenedBy(a) \cup {r}) = OpenedWith(call, OpenedBy(a)) + m
      BY <1>2, <1>5, <1>7, OpeningsAdd DEF Books
    <3> HIDE DEF b, m
    <3> QED BY <1>3, <1>4, <1>5, <2>1, <3>1, Sums, NextSums
  <2>2. CASE a # b
    BY <1>3, <1>5, <2>2, Sums, NextSums
  <2> QED BY <2>1, <2>2
<1>10. row[a].balance = Opening(a) + Received(a) - Sent(a)
  BY DEF Books, Reconciled
<1> HIDE DEF b, m
<1>11. row'[a].balance = Opening(a)' + Received(a)' - Sent(a)'
  <2>1. CASE a = b
    BY <1>2, <1>3, <1>4, <1>7, <1>8, <1>9, <1>10, <2>1
  <2>2. CASE a # b
    BY <1>3, <1>7, <1>8, <1>9, <1>10, <2>2
  <2> QED BY <2>1, <2>2
<1> QED BY <1>6, <1>11

\* Without cash, every other step leaves all balances alone.
LEMMA BalancesStay ==
  ASSUME NoCash, Inv, NEW r \in Requests, Step(r) \/ Lose(r),
         ~Post(r), ~CreateWrite(r), NEW a \in Accounts
  PROVE  row'[a].balance = row[a].balance /\ transactions' = transactions
<1>1. ~CashWrite(r)
  BY DEF CashWrite, NoCash, Inv, TypeOK
<1>2. CASE FreezeWrite(r) \/ (UpdateWrite(r) /\ Restatus(r))
  <2>1. /\ a # call[r].account => row'[a] = row[a]
        /\ call[r].kind \in {"freeze", "update"}
    BY <1>2, UnlockedColumns DEF FreezeWrite, UpdateWrite
  <2>2. row'[call[r].account].balance = row[call[r].account].balance
    BY <1>2, <2>1, UnlockedColumns
  <2>3. transactions' = transactions
    BY <1>2 DEF FreezeWrite, UpdateWrite, Write
  <2> QED BY <2>1, <2>2, <2>3
<1> QED BY <1>1, <1>2, OthersWriteNothing

LEMMA NextBooks ==
  ASSUME NoCash, WholeCents, Inv, PostersAnswered, Books, [Next]_vars
  PROVE  Books'
<1>1. CASE UNCHANGED vars
  <2>1. \A a : /\ In(a)' = In(a) /\ Out(a)' = Out(a) /\ OpenedBy(a)' = OpenedBy(a)
               /\ call' = call
    BY <1>1 DEF vars, In, Out, OpenedBy
  <2>2. \A a \in Accounts : /\ Received(a)' = Received(a) /\ Sent(a)' = Sent(a)
                            /\ Opening(a)' = Opening(a)
    BY <2>1, Sums, NextSums
  <2> QED BY <1>1, <2>1, <2>2 DEF vars, Books, Reconciled
<1>2. ASSUME NEW r \in Requests, Step(r) \/ Lose(r)
      PROVE  Books'
  <2>1. ASSUME NEW a \in Accounts
        PROVE  /\ row'[a].balance = Opening(a)' + Received(a)' - Sent(a)'
               /\ IsFiniteSet(OpenedBy(a)')
    <3>1. CASE Post(r)
      <4>1. ~CreateWrite(r)
        BY <3>1 DEF Post, CreateWrite
      <4> QED BY <1>2, <3>1, <4>1, PostBooks, OpeningsStay DEF Books
    <3>2. CASE CreateWrite(r)
      BY <3>2, CreateBooks
    <3>3. CASE ~Post(r) /\ ~CreateWrite(r)
      <4>1. /\ row'[a].balance = row[a].balance /\ transactions' = transactions
            /\ OpenedBy(a)' = OpenedBy(a) /\ call' = call
        BY <1>2, <3>3, BalancesStay, OpeningsStay, StepMovesOne
      <4>2. /\ Received(a)' = Received(a) /\ Sent(a)' = Sent(a)
            /\ Opening(a)' = Opening(a)
        <5>1. In(a)' = In(a) /\ Out(a)' = Out(a)
          BY <4>1 DEF In, Out
        <5> QED BY <4>1, <5>1, Sums, NextSums
      <4> QED BY <4>1, <4>2 DEF Books, Reconciled
    <3> QED BY <3>1, <3>2, <3>3
  <2>2. IsFiniteSet(transactions')
    <3>1. CASE Post(r)
      <4>1. transactions' = transactions \cup
              {[request |-> r, sender |-> call[r].account,
                receiver |-> call[r].peer, amount |-> Column(call[r].amount)]}
        BY <3>1 DEF Post
      <4> QED BY <4>1, FS_AddElement DEF Books
    <3>2. CASE ~Post(r)
      <4>1. CASE CreateWrite(r)
        BY <4>1 DEF CreateWrite, Write, Books
      <4>2. CASE ~CreateWrite(r) /\ FreezeWrite(r)
        BY <4>2 DEF FreezeWrite, Write, Books
      <4>3. CASE ~CreateWrite(r) /\ ((UpdateWrite(r) /\ Restatus(r)) \/ CashWrite(r))
        BY <4>3 DEF UpdateWrite, CashWrite, Write, Books
      <4> QED BY <1>2, <3>2, <4>1, <4>2, <4>3, OthersWriteNothing DEF Books
    <3> QED BY <3>1, <3>2
  <2>3. \A a \in Accounts : InitialRow[a] # AbsentRow => Exists(a)'
    BY <1>2, RowsStay DEF Books
  <2> QED BY <2>1, <2>2, <2>3 DEF Books, Reconciled
<1> QED BY <1>1, <1>2 DEF Next, Finished

\* Without cash, and with amounts in whole cents, the table of transactions
\* explains every balance: a row holds what it was opened with, plus what it
\* received, minus what it sent (transaction_service.py:49-62), whatever
\* freezes, updates, refusals and losses come in between.
THEOREM BalancesReconcile ==
  ASSUME NoCash, WholeCents
  PROVE  Spec => []Reconciled
<1>1. Init => Inv /\ PostersAnswered /\ Books
  BY InitInv, InitBooks DEF Init, PostersAnswered
<1>2. Inv /\ PostersAnswered /\ Books /\ [Next]_vars
        => (Inv /\ PostersAnswered /\ Books)'
  BY NextInv, NextPosters, NextBooks
<1>3. Books => Reconciled
  BY DEF Books
<1> QED BY <1>1, <1>2, <1>3, PTL DEF Spec
=============================================================================
