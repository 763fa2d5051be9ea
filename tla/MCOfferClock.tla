----------------------------- MODULE MCOfferClock -----------------------------
(* Instances of OfferClock for TLC. *)
EXTENDS OfferClock

\* An unlimited offer, one that closes with the day, one of the first hour, one
\* that is always open, and one shorter than the longest warning.
OwnOffers == {OfferOf(T(18, 0), T(21, 0), {}, 0), OfferOf(T(20, 0), T(23, 59), {5}, 10),
              OfferOf(T(0, 0), T(0, 59), {5, 6}, 10), OfferOf(T(18, 0), T(17, 59), {}, 10),
              OfferOf(T(17, 0), T(17, 20), {4}, 10)}
===============================================================================
