--------------------------- MODULE MCClientSession --------------------------
(***************************************************************************)
(* ClientSession for TLC.                                                  *)
(***************************************************************************)
EXTENDS ClientSession

(* The second session gets an ID that somebody else had.                   *)
MCStale == <<0, 1>>

=============================================================================
