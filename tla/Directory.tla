------------------------------ MODULE Directory ------------------------------
(***************************************************************************)
(* What the customer, authentication and address services promise of their *)
(* three tables: a customer is enrolled at one instant, with its login and *)
(* under names nobody else has; a change of names finds the new ones free; *)
(* an address that is deleted is nobody's, and takes itself from one       *)
(* customer at most.                                                       *)
(***************************************************************************)
CONSTANTS Ids, AddressIds, NULL, InitialCustomer, InitialUsername, Homes

VARIABLES customer, username, addresses

vars == <<customer, username, addresses>>

\* The UNIQUE columns of a customer row.
Keys == {"email", "phone", "ident"}

Init ==
  /\ customer = InitialCustomer
  /\ username = InitialUsername
  /\ addresses = Homes

\* Customer c, alone, has its names.
Distinct(c) ==
  \A d \in Ids \ {c} :
    /\ username'[c] # username[d]
    /\ customer[d] # NULL => \A k \in Keys : customer'[c][k] # customer[d][k]

OnlyCustomer(c) ==
  \A d \in Ids \ {c} : customer'[d] = customer[d] /\ username'[d] = username[d]

Lives(c) == customer'[c].address \in addresses' \cup {NULL}

Enrol(c) ==
  /\ customer[c] = NULL /\ username[c] = NULL
  /\ customer'[c] # NULL /\ username'[c] # NULL
  /\ addresses' \in {addresses, addresses \cup {c}}
  /\ Distinct(c) /\ Lives(c) /\ OnlyCustomer(c)

Amend(c) ==
  /\ customer[c] # NULL /\ customer'[c] # NULL /\ username'[c] # NULL
  /\ customer'[c].ident = customer[c].ident
  /\ Distinct(c) /\ Lives(c) /\ OnlyCustomer(c)
  /\ UNCHANGED addresses

Place(a) ==
  /\ addresses' = addresses \cup {a}
  /\ UNCHANGED <<customer, username>>

Drop(a) ==
  /\ addresses' = addresses \ {a}
  /\ \/ UNCHANGED customer
     \/ \E c \in Ids : /\ customer[c] # NULL
                       /\ customer' = [customer EXCEPT ![c].address = NULL]
  /\ \A c \in Ids : customer'[c] = NULL \/ customer'[c].address # a
  /\ UNCHANGED username

Next == \/ \E c \in Ids : Enrol(c) \/ Amend(c)
        \/ \E a \in AddressIds : Place(a) \/ Drop(a)

Spec == Init /\ [][Next]_vars
=============================================================================
