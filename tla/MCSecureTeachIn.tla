-------------------------- MODULE MCSecureTeachIn ---------------------------
(***************************************************************************)
(* SecureTeachIn for TLC.  Devices are interchangeable.                    *)
(***************************************************************************)
EXTENDS SecureTeachIn, TLC

Symmetry == Permutations(Ids)
=============================================================================
