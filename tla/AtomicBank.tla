----------------------------- MODULE AtomicBank -----------------------------
(***************************************************************************)
(* What the account and transaction services promise about money when      *)
(* nothing is paid in or out in cash: a transfer happens at one instant,   *)
(* between two accounts that are both active at that instant and of the    *)
(* transfer's currency, never for more than the sender holds, moves        *)
(* exactly the amount of the transaction it records, and does so once per  *)
(* request.  Opening an account and changing a status move no money.       *)
(***************************************************************************)
EXTENDS Integers

CONSTANTS Requests, Accounts, CurrencyOf, InitialRow, Limit, Calls

VARIABLES row, transactions, call

vars == <<row, transactions, call>>

Open(a) == row[a].status # "ABSENT"
Statuses == {"ACTIVE", "FROZEN", "CLOSED"}
HasPosted(r) == \E t \in transactions : t.request = r

Init ==
  /\ row = InitialRow
  /\ transactions = {}
  /\ call \in [Requests -> Calls]

Move(r) ==
  LET c == call[r] IN
  /\ c.kind \in {"transfer", "p2p"}
  /\ ~HasPosted(r)
  /\ c.account # c.peer
  /\ \A a \in {c.account, c.peer} :
       row[a].status = "ACTIVE" /\ CurrencyOf[a] = c.currency
  /\ c.amount <= row[c.account].balance
  /\ row[c.peer].balance + c.amount <= Limit
  /\ row' = [row EXCEPT ![c.account].balance = @ - c.amount,
                        ![c.peer].balance = @ + c.amount]
  /\ transactions' = transactions \cup
       {[request |-> r, sender |-> c.account, receiver |-> c.peer,
         amount |-> c.amount]}
  /\ UNCHANGED call

SetStatus(a, status) ==
  /\ Open(a)
  /\ row' = [row EXCEPT ![a].status = status]
  /\ UNCHANGED <<transactions, call>>

OpenAccount(r) ==
  /\ call[r].kind = "create"
  /\ ~Open(call[r].account)
  /\ row' = [row EXCEPT ![call[r].account] =
               [status |-> call[r].status, balance |-> call[r].amount]]
  /\ UNCHANGED <<transactions, call>>

Next == \/ \E r \in Requests : Move(r) \/ OpenAccount(r)
        \/ \E a \in Accounts, status \in Statuses : SetStatus(a, status)

Spec == Init /\ [][Next]_vars
=============================================================================
