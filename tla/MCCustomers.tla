---------------------------- MODULE MCCustomers ----------------------------
(***************************************************************************)
(* Ann, one wrong password from the lock, and bob share an address; a      *)
(* second address is free.  Who is new calls himself "new" or "other", and *)
(* collides with others who do, or with ann.                               *)
(***************************************************************************)
EXTENDS Customers, TLC

MCNames == {"ann", "bob", "new", "other"}
MCInitialCustomer == [c \in Ids |->
  IF c \in Enrolled THEN [email |-> c, phone |-> c, ident |-> c, address |-> "home"]
  ELSE NULL]
MCInitialAuth == [c \in Ids |->
  IF c = "ann" THEN [username |-> c, failed |-> 1]
  ELSE IF c = "bob" THEN [username |-> c, failed |-> 0]
  ELSE NULL]

Nothing == [kind |-> "update", customer |-> NULL, username |-> Unset,
            email |-> Unset, phone |-> Unset, ident |-> Unset,
            address |-> Unset, password |-> NULL, region |-> FALSE]

New(kind, email, phone, ident, name) ==
  [Nothing EXCEPT !.kind = kind, !.email = email, !.phone = phone,
                  !.ident = ident, !.username = name, !.address = NULL]
Patch(c) == [Nothing EXCEPT !.customer = c]
LogIn(name, c) == [Nothing EXCEPT !.kind = "login", !.username = name,
                                  !.password = c]

MCCalls ==
  {[New("register", "new", "new", "new", "new") EXCEPT !.region = TRUE],
   New("register", "other", "new", "other", "new"),
   New("register", "other", "other", "ann", "ann"),
   [New("create", "new", "other", "other", "other") EXCEPT !.address = "shop"],
   New("create", "other", "new", "new", "ann"),
   [Patch("ann") EXCEPT !.email = "new", !.username = "other"],
   [Patch("ann") EXCEPT !.phone = "new", !.address = "shop"],
   [Patch("ann") EXCEPT !.email = NULL],
   [Patch("bob") EXCEPT !.username = "ann", !.address = NULL],
   LogIn("ann", "ann"), LogIn("ann", "bob"), LogIn("new", "ann"),
   [Nothing EXCEPT !.kind = "bootstrap", !.customer = "ann"],
   [Nothing EXCEPT !.kind = "place"],
   [Nothing EXCEPT !.kind = "drop", !.address = "home"],
   [Nothing EXCEPT !.kind = "drop", !.address = "shop"]}

Interchangeable == Permutations(Requests)
=============================================================================
