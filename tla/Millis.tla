-------------------------------- MODULE Millis --------------------------------
(* The 32-bit millisecond counter millis() and the unsigned subtraction all *)
(* elapsed-time calculations of the component use.                          *)
EXTENDS Integers

CONSTANT Wrap       (* millis() counts modulo Wrap, 2^32 in the firmware    *)

ASSUME WrapAssumption == Wrap \in Nat \ {0}

Timestamps == 0 .. Wrap - 1

(* uint32_t a - b                                                           *)
Elapsed(now, since) == (now - since) % Wrap
=============================================================================
