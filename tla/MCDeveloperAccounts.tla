-------------------------- MODULE MCDeveloperAccounts --------------------------
(***************************************************************************)
(* An instance of DeveloperAccounts for TLC: two logins from one address.  *)
(***************************************************************************)
EXTENDS DeveloperAccounts
CONSTANTS l1, l2
===============================================================================
