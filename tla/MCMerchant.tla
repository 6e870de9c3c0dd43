----------------------------- MODULE MCMerchant -----------------------------
(***************************************************************************)
(* Instances of Merchant for TLC: claims of one domain.                    *)
(***************************************************************************)
EXTENDS Merchant, TLC

CONSTANT d1

OneDomain == [c \in Claims |-> d1]
ClaimSymmetry == Permutations(Claims)
=============================================================================
