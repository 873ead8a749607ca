------------------------------ MODULE Accounts ------------------------------
(***************************************************************************)
(* The rows of table accounts under the requests that read and write them: *)
(* services/transaction_service.py (transfer, execute_p2p_transfer) and    *)
(* services/account_service.py (create, update, freeze_account, deposit,   *)
(* withdraw).  A request runs on a thread of its own with a database       *)
(* session of its own; PostgreSQL at READ COMMITTED gives every SELECT the *)
(* last committed row, SELECT ... FOR UPDATE holds the row until commit or *)
(* rollback, and an UPDATE waits for such a holder and then overwrites.    *)
(*                                                                         *)
(* Money is counted in half-cents: a request may carry an odd amount, a    *)
(* Numeric(18, 2) column holds even ones only (see Column).                *)
(***************************************************************************)
EXTENDS Integers, FiniteSetsExt

CONSTANTS
  Requests,    \* the requests in flight
  Accounts,    \* account rows, open or still to be opened, in str(id) order
  Customers,   \* registered customers
  Owner,       \* Owner[a]: the customer account a belongs to (never updated)
  CurrencyOf,  \* CurrencyOf[a]: the currency of a (never updated)
  InitialRow,  \* InitialRow[a]: the row the run starts with
  Limit,       \* the largest balance the column holds
  Calls,       \* what a request may ask for
  NoOne        \* the holder of a row that nobody has locked

Statuses == {"ACTIVE", "FROZEN", "CLOSED"}
Kinds == {"transfer", "p2p", "freeze", "update", "deposit", "withdraw",
          "create"}
Transfers == {"transfer", "p2p"}

Cents == {x \in 0 .. Limit : x % 2 = 0}
AbsentRow == [status |-> "ABSENT", balance |-> 0]
Row == [status : Statuses, balance : Cents] \cup {AbsentRow}
NothingRead == [a \in Accounts |-> AbsentRow]

\* A request's path and body; status is the PATCH or POST body's field, where
\* "NULL" is an explicit null.
Call == [kind : Kinds, customer : Customers \cup {"stranger"},
         account : Accounts, peer : Accounts, amount : Nat,
         currency : {CurrencyOf[a] : a \in Accounts} \cup {"other"},
         status : Statuses \cup {"NULL"}]

ASSUME AccountsAreOrdered == Accounts \subseteq Int
ASSUME NoOneIsNoRequest == NoOne \notin Requests
ASSUME LimitIsCents == Limit \in Nat /\ Limit % 2 = 0
ASSUME InitialRows == InitialRow \in [Accounts -> Row]
ASSUME CallsTyped == Calls \subseteq Call
ASSUME TransfersArePositive ==  \* schemas/transaction.py: amount gt=0
  \A c \in Calls : c.kind \in Transfers => c.amount > 0

ASSUME CreatesAreWellFormed ==
  \A c \in Calls : c.kind = "create" =>
    /\ c.status \in Statuses
    /\ c.customer \in Customers => Owner[c.account] = c.customer

VARIABLES
  row,           \* table accounts
  lock,          \* lock[a]: the request whose transaction holds row a
  transactions,  \* table transactions, keyed by the request that wrote it
  call,          \* call[r]: what r asks for
  pc,            \* pc[r]: the statement r executes next, or its answer
  copy           \* copy[r]: the rows alive in the session of r

vars == <<row, lock, transactions, call, pc, copy>>

Answers == {"ok", "refused", "lost"}
Steps == {"gate", "own", "lock1", "lock2", "settle", "read", "write"}

Transaction == [request : Requests, sender : Accounts, receiver : Accounts,
                amount : Nat]

TypeOK ==
  /\ row \in [Accounts -> Row]
  /\ lock \in [Accounts -> Requests \cup {NoOne}]
  /\ transactions \subseteq Transaction
  /\ call \in [Requests -> Calls]
  /\ pc \in [Requests -> Steps \cup Answers]
  /\ copy \in [Requests -> [Accounts -> Row]]

-----------------------------------------------------------------------------
(* What a statement computes. *)

\* Numeric(18, 2): a value with half a cent too many is rounded away from 0.
Column(x) == IF x % 2 = 0 THEN x ELSE IF x > 0 THEN x + 1 ELSE x - 1

\* CHECK (balance >= 0) and the width of the column.
Storable(x) == x \in Cents

Exists(a) == row[a].status # "ABSENT"
Owned(r) == /\ Exists(call[r].account)
            /\ Owner[call[r].account] = call[r].customer

\* Fault: the sender first, then the receiver.
LockOrder_Unsorted(r) == <<call[r].account, call[r].peer>>

\* sorted((sender_id, receiver_id), key=str)
LockOrder(r) == IF call[r].account < call[r].peer
                  THEN <<call[r].account, call[r].peer>>
                  ELSE <<call[r].peer, call[r].account>>

Sender(r) == copy[r][call[r].account]
Receiver(r) == copy[r][call[r].peer]

\* Fault: the receiver's status is not looked at.
ValidTransfer_SenderOnly(r) ==
  /\ Sender(r).status = "ACTIVE"
  /\ CurrencyOf[call[r].account] = call[r].currency
  /\ CurrencyOf[call[r].peer] = call[r].currency
  /\ Sender(r).balance >= call[r].amount

ValidTransfer(r) ==
  /\ Sender(r).status = "ACTIVE"
  /\ Receiver(r).status = "ACTIVE"
  /\ CurrencyOf[call[r].account] = call[r].currency
  /\ CurrencyOf[call[r].peer] = call[r].currency
  /\ Sender(r).balance >= call[r].amount

Debited(r) == Column(Sender(r).balance - call[r].amount)
Credited(r) == Column(Receiver(r).balance + call[r].amount)

\* deposit and withdraw: balance += amount, balance -= amount.
CashBalance(r) ==
  Column(IF call[r].kind = "deposit" THEN Sender(r).balance + call[r].amount
                                     ELSE Sender(r).balance - call[r].amount)

\* Column accounts.status of the row apply_updates changes.
Restatus(r) == call[r].status # Sender(r).status

-----------------------------------------------------------------------------
FirstStep == [transfer |-> "lock1", p2p |-> "gate", freeze |-> "gate",
              update |-> "read", deposit |-> "read", withdraw |-> "read",
              create |-> "read"]

Init ==
  /\ row = InitialRow
  /\ lock = [a \in Accounts |-> NoOne]
  /\ transactions = {}
  /\ call \in [Requests -> Calls]
  /\ pc = [r \in Requests |-> FirstStep[call[r].kind]]
  /\ copy = [r \in Requests |-> NothingRead]

Goto(r, step) == pc' = [pc EXCEPT ![r] = step]

\* Fault: the session of a request that failed is not closed.
Finish_Open(r, answer) ==
  /\ Goto(r, answer)
  /\ lock' = [a \in Accounts |->
                IF lock[a] = r /\ answer = "ok" THEN NoOne ELSE lock[a]]
  /\ copy' = [copy EXCEPT ![r] = NothingRead]
  /\ UNCHANGED call

\* The handler returns or raises, its session closes: what the transaction
\* still holds is released.
Finish(r, answer) ==
  /\ Goto(r, answer)
  /\ lock' = [a \in Accounts |-> IF lock[a] = r THEN NoOne ELSE lock[a]]
  /\ copy' = [copy EXCEPT ![r] = NothingRead]
  /\ UNCHANGED call

Refuse(r) == Finish(r, "refused") /\ UNCHANGED <<row, transactions>>

-----------------------------------------------------------------------------
(* verify_customer_otp: what it answers is any of its two outcomes here; a *)
(* freeze without accountId is refused before it is asked.                 *)

GatePass(r) ==
  /\ pc[r] = "gate"
  /\ Goto(r, "own")
  /\ UNCHANGED <<row, lock, transactions, call, copy>>

GateFail(r) == pc[r] = "gate" /\ Refuse(r)

\* Fault: sender = require_owned_account(...) keeps the row in the session.
OwnerPasses_RowKept(r) ==
  /\ pc[r] = "own" /\ call[r].kind = "p2p"
  /\ Owned(r)
  /\ Goto(r, "lock1")
  /\ copy' = [copy EXCEPT ![r][call[r].account] = row[call[r].account]]
  /\ UNCHANGED <<row, lock, transactions, call>>

\* execute_p2p_transfer drops the row require_owned_account returns: the
\* session, which refers to its rows weakly, forgets it.
OwnerPasses(r) ==
  /\ pc[r] = "own" /\ call[r].kind = "p2p"
  /\ Owned(r)
  /\ Goto(r, "lock1")
  /\ UNCHANGED <<row, lock, transactions, call, copy>>

\* freeze_account keeps it, with the status it has seen.
FreezeRead(r) ==
  /\ pc[r] = "own" /\ call[r].kind = "freeze"
  /\ Owned(r)
  /\ row[call[r].account].status \notin {"CLOSED", "FROZEN"}
  /\ Goto(r, "write")
  /\ copy' = [copy EXCEPT ![r][call[r].account] = row[call[r].account]]
  /\ UNCHANGED <<row, lock, transactions, call>>

OwnerRefuses(r) ==
  /\ pc[r] = "own"
  /\ \/ ~Owned(r)
     \/ /\ call[r].kind = "freeze"
        /\ row[call[r].account].status \in {"CLOSED", "FROZEN"}
  /\ Refuse(r)

-----------------------------------------------------------------------------
(* transfer *)

SameAccount(r) ==
  /\ pc[r] = "lock1"
  /\ call[r].account = call[r].peer
  /\ Refuse(r)

\* Fault: no with_for_update().
Take_Unlocked(r, a, next) ==
  /\ copy' = [copy EXCEPT ![r][a] = row[a]]
  /\ Goto(r, next)
  /\ UNCHANGED <<row, lock, transactions, call>>

\* SELECT ... FOR UPDATE of one row: it waits for the holder and returns the
\* committed row.  A row already alive in the session is not loaded again; a
\* row that is not there locks nothing.
Take(r, a, next) ==
  /\ Exists(a) => lock[a] = NoOne
  /\ lock' = IF Exists(a) THEN [lock EXCEPT ![a] = r] ELSE lock
  /\ copy' = [copy EXCEPT ![r][a] = IF @ = AbsentRow THEN row[a] ELSE @]
  /\ Goto(r, next)
  /\ UNCHANGED <<row, transactions, call>>

LockFirst(r) ==
  /\ pc[r] = "lock1"
  /\ call[r].account # call[r].peer
  /\ Take(r, LockOrder(r)[1], "lock2")

LockSecond(r) == pc[r] = "lock2" /\ Take(r, LockOrder(r)[2], "settle")

\* Both UPDATEs, the INSERT and the COMMIT.
Post(r) ==
  /\ pc[r] = "settle"
  /\ ValidTransfer(r)
  /\ Storable(Debited(r)) /\ Storable(Credited(r))
  /\ row' = [row EXCEPT ![call[r].account].balance = Debited(r),
                        ![call[r].peer].balance = Credited(r)]
  /\ transactions' = transactions \cup
       {[request |-> r, sender |-> call[r].account, receiver |-> call[r].peer,
         amount |-> Column(call[r].amount)]}
  /\ Finish(r, "ok")

\* _lock_accounts or _validate_transfer raises, or the database refuses the
\* new balances.
TransferRefused(r) ==
  /\ pc[r] = "settle"
  /\ ~(ValidTransfer(r) /\ Storable(Debited(r)) /\ Storable(Credited(r)))
  /\ Refuse(r)

-----------------------------------------------------------------------------
(* create, update, deposit, withdraw and the second half of freeze_account: *)
(* a SELECT that locks nothing, then a statement built from what it saw.    *)

Read(r) ==
  /\ pc[r] = "read" /\ call[r].kind # "create"
  /\ Exists(call[r].account)
  /\ Goto(r, "write")
  /\ copy' = [copy EXCEPT ![r][call[r].account] = row[call[r].account]]
  /\ UNCHANGED <<row, lock, transactions, call>>

NumberIsFree(r) ==
  /\ pc[r] = "read" /\ call[r].kind = "create"
  /\ call[r].customer \in Customers
  /\ ~Exists(call[r].account)
  /\ Goto(r, "write")
  /\ UNCHANGED <<row, lock, transactions, call, copy>>

ReadRefused(r) ==
  /\ pc[r] = "read"
  /\ IF call[r].kind = "create"
       THEN call[r].customer \notin Customers \/ Exists(call[r].account)
       ELSE ~Exists(call[r].account)
  /\ Refuse(r)

\* An UPDATE by primary key, and the COMMIT.
Write(r, new) ==
  /\ lock[call[r].account] = NoOne
  /\ row' = [row EXCEPT ![call[r].account] = new]
  /\ Finish(r, "ok")
  /\ UNCHANGED transactions

FreezeWrite(r) ==
  /\ pc[r] = "write" /\ call[r].kind = "freeze"
  /\ Write(r, [row[call[r].account] EXCEPT !.status = "FROZEN"])

\* The session sends no UPDATE for a field set to the value it has loaded.
UpdateWrite(r) ==
  /\ pc[r] = "write" /\ call[r].kind = "update"
  /\ call[r].status # "NULL"
  /\ IF Restatus(r)
       THEN Write(r, [row[call[r].account] EXCEPT !.status = call[r].status])
       ELSE Finish(r, "ok") /\ UNCHANGED <<row, transactions>>

\* Fault: no CHECK constraint, and a column without a width.
CashWrite_Unchecked(r) ==
  /\ pc[r] = "write" /\ call[r].kind \in {"deposit", "withdraw"}
  /\ Write(r, [row[call[r].account] EXCEPT !.balance = CashBalance(r)])

\* Fault: the whole row is written back as it was read.
CashWrite_WholeRow(r) ==
  /\ pc[r] = "write" /\ call[r].kind \in {"deposit", "withdraw"}
  /\ Storable(CashBalance(r))
  /\ Write(r, [Sender(r) EXCEPT !.balance = CashBalance(r)])

CashWrite(r) ==
  /\ pc[r] = "write" /\ call[r].kind \in {"deposit", "withdraw"}
  /\ Storable(CashBalance(r))
  /\ Write(r, [row[call[r].account] EXCEPT !.balance = CashBalance(r)])

CreateWrite(r) ==
  /\ pc[r] = "write" /\ call[r].kind = "create"
  /\ ~Exists(call[r].account)
  /\ Storable(Column(call[r].amount))
  /\ Write(r, [status |-> call[r].status, balance |-> Column(call[r].amount)])

\* NOT NULL, CHECK, the column's width or UNIQUE (account_number) fails.
WriteRefused(r) ==
  /\ pc[r] = "write"
  /\ \/ call[r].kind = "update" /\ call[r].status = "NULL"
     \/ call[r].kind \in {"deposit", "withdraw"} /\ ~Storable(CashBalance(r))
     \/ /\ call[r].kind = "create"
        /\ Exists(call[r].account) \/ ~Storable(Column(call[r].amount))
  /\ Refuse(r)

-----------------------------------------------------------------------------
\* The worker or its connection dies before the COMMIT: the database rolls
\* the transaction back.
Lose(r) ==
  /\ pc[r] \notin Answers
  /\ Finish(r, "lost")
  /\ UNCHANGED <<row, transactions>>

Transfer(r) == \/ SameAccount(r) \/ LockFirst(r) \/ LockSecond(r)
               \/ Post(r) \/ TransferRefused(r)
Ungated(r) == \/ OwnerPasses(r) \/ FreezeRead(r) \/ OwnerRefuses(r)
              \/ Transfer(r)
              \/ Read(r) \/ NumberIsFree(r) \/ ReadRefused(r)
              \/ FreezeWrite(r) \/ UpdateWrite(r) \/ CashWrite(r)
              \/ CreateWrite(r) \/ WriteRefused(r)
Step(r) == GatePass(r) \/ GateFail(r) \/ Ungated(r)

AllAnswered == \A r \in Requests : pc[r] \in Answers
Finished == AllAnswered /\ UNCHANGED vars

Next == \/ \E r \in Requests : Step(r) \/ Lose(r)
        \/ Finished

\* The thread of a request keeps running, and PostgreSQL grants a free lock.
Fairness == \A r \in Requests : WF_vars(Step(r))

Spec == Init /\ [][Next]_vars /\ Fairness
-----------------------------------------------------------------------------
(* Properties *)

\* What a transfer decides and computes on is still what the table holds when
\* it writes, and both rows are locked: no UPDATE gets between the SELECTs and
\* the COMMIT, and no row was loaded before it was locked.
DecidesUnderBothLocks ==
  \A r \in Requests : pc[r] = "settle" =>
    \A a \in {call[r].account, call[r].peer} :
      copy[r][a] # AbsentRow => lock[a] = r /\ copy[r][a] = row[a]

\* _lock_accounts sorts the two ids: a request that waits for a row holds only
\* rows that come before it, so no ring of transfers waits for itself.
OrderedLocking ==
  \A r \in Requests, a \in Accounts :
    lock[a] = r => \/ pc[r] = "settle"
                   \/ pc[r] = "lock2" /\ a < LockOrder(r)[2]

\* The balances and the table of transactions tell the same story: a row holds
\* what it was opened with, plus what it received, minus what it sent.
\* (Of runs that neither deposit nor withdraw, which record no transaction.)
Opening(a) ==
  IF InitialRow[a] # AbsentRow THEN InitialRow[a].balance
  ELSE MapThenSumSet(LAMBDA r : Column(call[r].amount),
         {r \in Requests : /\ pc[r] = "ok" /\ call[r].kind = "create"
                           /\ call[r].account = a})
Received(a) ==
  MapThenSumSet(LAMBDA t : t.amount, {t \in transactions : t.receiver = a})
Sent(a) ==
  MapThenSumSet(LAMBDA t : t.amount, {t \in transactions : t.sender = a})
Reconciled ==
  \A a \in Accounts : row[a].balance = Opening(a) + Received(a) - Sent(a)

\* Seen from outside, each transfer happens at one instant (AtomicBank).
\* (Of runs without cash and with amounts in whole cents.)
Bank == INSTANCE AtomicBank
BankSpec == Bank!Spec

\* A statement built from a row read earlier writes its own column and no
\* other: a deposit does not thaw an account frozen since it read the row, a
\* freeze does not undo a deposit.
Answering(r, kinds) == pc[r] # "ok" /\ pc'[r] = "ok" /\ call[r].kind \in kinds
WritesItsOwnColumn ==
  [][\A a \in Accounts :
       /\ row'[a].status # row[a].status =>
            \E r \in Requests : /\ call[r].account = a
                                /\ Answering(r, {"freeze", "update", "create"})
       /\ row'[a].balance # row[a].balance =>
            \E r \in Requests :
              /\ a \in {call[r].account, call[r].peer}
              /\ Answering(r, Kinds \ {"freeze", "update"})]_vars

\* Every request is answered: no lock is leaked and no wait is circular.
Answered == \A r \in Requests : <>(pc[r] \in Answers)

\* models/account.py, check_positive_balance: an account does not go below
\* zero.  Here counted over what was acknowledged, cash included.
CashMoved(a, kind) ==
  MapThenSumSet(LAMBDA r : call[r].amount,
    {r \in Requests : /\ pc[r] = "ok" /\ call[r].kind = kind
                      /\ call[r].account = a})
NeverOverdrawn ==
  \A a \in Accounts :
    Opening(a) + Received(a) + CashMoved(a, "deposit") >=
      Sent(a) + CashMoved(a, "withdraw")

\* transaction_service.py:49-52: both balances and the amount are rounded on
\* their own.  Whatever cash and status changes run beside it, a transfer
\* credits exactly what its transactions row says, and takes as much from the
\* sender: one cent less for an amount with half a cent, never more.
RoundingStaysInACent ==
  [][\A r \in Requests :
       pc[r] = "settle" /\ pc'[r] = "ok" =>
         LET paid == row[call[r].account].balance - row'[call[r].account].balance
             got == row'[call[r].peer].balance - row[call[r].peer].balance
         IN /\ \E t \in transactions' : t.request = r /\ t.amount = got
            /\ paid = IF call[r].amount % 2 = 0 THEN got ELSE got - 2]_vars
=============================================================================
