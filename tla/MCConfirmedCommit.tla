-------------------------- MODULE MCConfirmedCommit -------------------------
(* The clients that the runs are about. *)
EXTENDS ConfirmedCommit

EveryTarget == Platforms \X BOOLEAN
Cumulus == {<<"cumulus", TRUE>>}
=============================================================================
