------------------------------ MODULE MCDelivery ------------------------------
(* Instances of Delivery for TLC. *)
EXTENDS DeliveryInvariants, TLC

CONSTANTS q1, q2, q3

\* q1 opens a thread; the other questions are typed as replies in it.
MCReplyTo == [m \in Requests |-> IF m = q1 THEN NoRequest ELSE q1]

WorkerSymmetry == Permutations(Workers)
=============================================================================
