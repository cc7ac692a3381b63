------------------------- MODULE MCWebsocketSessions -------------------------
(***************************************************************************)
(* Enough sessions for a late handler of one to meet the next and for the  *)
(* back-off to reach its cap.                                              *)
(***************************************************************************)
EXTENDS WebsocketSessions
=============================================================================
