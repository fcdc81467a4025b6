---------------------------- MODULE MCInterrupts ----------------------------
(* Instances of Interrupts for TLC: masks as a BIOS may leave them.          *)
EXTENDS Interrupts

AllMasked == [c \in Chips |-> 255]
AllOpen   == [c \in Chips |-> 0]
Usual     == [c \in Chips |-> IF c = "master" THEN 184 ELSE 143]

AnyMask == {AllMasked, AllOpen, Usual}
=============================================================================
