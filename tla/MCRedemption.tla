----------------------------- MODULE MCRedemption -----------------------------
(* Small instances of Redemption: one offer, with one place or two.              *)
EXTENDS Redemption, TLC

CONSTANTS u1, u2, o1, v1, v2, v3

\* Two users compete for the offer's last place, and u1 may claim again.
TwoHolders == v1 :> u1 @@ v2 :> u2 @@ v3 :> u1
OneHolder == [v \in Vouchers |-> u1]
OneOffer == [v \in Vouchers |-> o1]
OneMax == [o \in Offers |-> 1]
TwoMax == [o \in Offers |-> 2]
Interchangeable == Permutations(Requests)
================================================================================
