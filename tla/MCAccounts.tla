----------------------------- MODULE MCAccounts -----------------------------
(***************************************************************************)
(* Two customers; accounts 1 and 3 of ann and 2 of bob, open; account 4 of *)
(* ann, still to be opened.  One unit is half a cent.                      *)
(***************************************************************************)
EXTENDS Accounts

MCOwner == [a \in Accounts |-> IF a = 2 THEN "bob" ELSE "ann"]
MCCurrencyOf == [a \in Accounts |-> "ETB"]
MCInitialRow == [a \in Accounts |->
  IF a = 4 THEN AbsentRow ELSE [status |-> "ACTIVE", balance |-> 4]]

Ask(kind, customer, account, peer, amount, status) ==
  [kind |-> kind, customer |-> customer, account |-> account, peer |-> peer,
   amount |-> amount, currency |-> "ETB", status |-> status]

Move(from, to, amount) == Ask("transfer", "ann", from, to, amount, "NULL")
PayAs(who, from, to) == Ask("p2p", who, from, to, 2, "NULL")
Freeze(who, a) == Ask("freeze", who, a, a, 0, "NULL")
Patch(a, status) == Ask("update", "ann", a, a, 0, status)
Pay(kind, a, amount) == Ask(kind, "ann", a, a, amount, "NULL")
Open4th(who, amount) == Ask("create", who, 4, 4, amount, "ACTIVE")

\* Everything but cash, in whole cents, with a ring of transfers.
TransferCalls ==
  {Move(1, 2, 4), Move(2, 1, 2), Move(2, 3, 2), Move(3, 1, 2), Move(2, 4, 2),
   Move(1, 1, 2), [Move(1, 2, 2) EXCEPT !.currency = "other"],
   PayAs("ann", 1, 2), Freeze("ann", 1), Patch(2, "CLOSED"), Open4th("ann", 2)}

\* Refusals, the ends of the column, and writes built from old reads.
EdgeCalls ==
  {PayAs("bob", 1, 2), PayAs("ann", 4, 1), Freeze("bob", 1), Freeze("ann", 1),
   Patch(1, "NULL"), Patch(1, "ACTIVE"), Patch(1, "CLOSED"),
   Patch(4, "FROZEN"), Open4th("stranger", 2), Open4th("ann", 2),
   Open4th("ann", 20), Move(1, 2, 2), Move(2, 1, 1), Pay("deposit", 1, 8),
   Pay("withdraw", 1, 3)}

CashCalls == {Pay("withdraw", 1, 4), Pay("deposit", 1, 2), Move(1, 2, 2)}
=============================================================================
