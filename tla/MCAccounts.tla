----------------------------- MODULE MCAccounts ------------------------------
(***************************************************************************)
(* Two clients and two addresses that both register; access tokens live    *)
(* for a tick, refresh tokens for two.                                     *)
(***************************************************************************)
EXTENDS Accounts

CONSTANTS c1, c2, a1, a2

=============================================================================
