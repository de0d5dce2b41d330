--------------------------- MODULE MCProvisioning ---------------------------
(* Small instance of Provisioning. *)
EXTENDS Provisioning, TLC

CONSTANTS i1, i2, f1, f2

ProvisioningSymmetry == Permutations(Inits) \cup Permutations(Forms)
=============================================================================
