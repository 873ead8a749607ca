----------------------------- MODULE MCChatPage -----------------------------
(***************************************************************************)
(* The load of the page, three clicks on New and four messages: enough for *)
(* a late answer to take the page back, for the next messages to meet it,  *)
(* and for a start to come in late as well.                                *)
(***************************************************************************)
EXTENDS ChatPage
=============================================================================
