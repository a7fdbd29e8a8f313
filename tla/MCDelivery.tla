----------------------------- MODULE MCDelivery -----------------------------
(* Delivery with three devices: a1 and a2 of account A, b1 of account B. *)
EXTENDS DeliveryProps, TLC

CONSTANTS A, B, a1, a2, b1

MCAccount == {A, B}
MCDevice == {a1, a2, b1}
MCRevocable == [k \in Kinds |-> IF k = "dm" THEN {a2} ELSE {}]
MCAckers == [k \in Kinds |-> IF k = "channel" THEN {} ELSE {b1}]
MCDeleters == [k \in Kinds |-> IF k = "room" THEN {B} ELSE {}]
MCOwner == [d \in MCDevice |-> IF d = b1 THEN B ELSE A]
=============================================================================
