------------------------------ MODULE MCAgent ------------------------------
(***************************************************************************)
(* The manifest and the tools as they are in the repository, and a model   *)
(* that proposes up to two calls at a time, of any tool or of none there   *)
(* is.                                                                     *)
(***************************************************************************)
EXTENDS Agent, TLC

MCManifest ==
  "GENERAL_INQUIRY" :> {"search_knowledge_base"} @@
  "BALANCE_INQUIRY" :> {"get_account_balance"} @@
  "TRANSACTION_HISTORY" :> {"get_transaction_history"} @@
  "FUND_TRANSFER" :> {"get_account_balance", "execute_p2p_transfer"} @@
  "ACCOUNT_MANAGEMENT" :> {"freeze_account", "get_account_balance"}

MCRegistry == {"get_account_balance", "get_transaction_history",
               "execute_p2p_transfer", "freeze_account", "search_knowledge_base"}

Names == {"get_account_balance", "execute_p2p_transfer", "freeze_account",
          "no_such_tool"}
MCProposals == {<<>>} \cup {<<a>> : a \in Names}
                      \cup {<<a, b>> : a, b \in Names}
=============================================================================
