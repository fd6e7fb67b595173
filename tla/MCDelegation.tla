---------------------------- MODULE MCDelegation ----------------------------
(* Small instances of Delegation for TLC.                                     *)
EXTENDS Delegation
=============================================================================
