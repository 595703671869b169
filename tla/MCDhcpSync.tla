----------------------------- MODULE MCDhcpSync -----------------------------
(* Values of DhcpSync's constants for TLC.                                 *)
EXTENDS DhcpSync

MCInvalid == {3}
MCRejected == {2}
=============================================================================
