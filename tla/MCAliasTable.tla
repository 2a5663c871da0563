---------------------------- MODULE MCAliasTable ----------------------------
(* Instantiation of AliasTable for TLC.                                     *)
EXTENDS AliasTable
=============================================================================
