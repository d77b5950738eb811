----------------------------- MODULE MCDelivery -----------------------------
(* Small instances of Delivery for TLC, with the inductive invariant of its *)
(* proofs.                                                                  *)
EXTENDS DeliveryProofs, TLC

MCSymmetry == Permutations(Workers)
============================================================================
