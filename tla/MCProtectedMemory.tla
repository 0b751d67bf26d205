-------------------------- MODULE MCProtectedMemory --------------------------
(* Bytes of one bit for TLC: a byte is {} or {0}, and a hash has one byte *)
(* per value of a byte.                                                   *)
EXTENDS ProtectedMemory

MCBits == {0}
MCHashIdx == SUBSET MCBits
=============================================================================
