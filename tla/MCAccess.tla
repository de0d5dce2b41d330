------------------------------ MODULE MCAccess ------------------------------
(* Small instance of Access: an event of a merchant and one of none. *)
EXTENDS Access, TLC

CONSTANTS e1, e2, m1, k1, k2, s1, s2, r1, r2

TwoEvents == {e1, e2}
MerchantOfEvent == e1 :> None @@ e2 :> m1

AccessSymmetry ==
    Permutations(Sessions) \cup Permutations(Keys) \cup Permutations(Requests)
=============================================================================
