---------------------------- MODULE MCAsyncLogger ----------------------------
(***************************************************************************)
(* A queue that a few records fill, with more submissions than it holds.   *)
(***************************************************************************)
EXTENDS AsyncLogger
=============================================================================
