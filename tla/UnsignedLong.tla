---------------------------- MODULE UnsignedLong ----------------------------
(* An unsigned long of C, whose increment wraps. *)
EXTENDS Naturals

CONSTANT ULONG_MAX

ASSUME WidthAssumption == ULONG_MAX \in Nat \ {0}

UnsignedLongs == 0 .. ULONG_MAX

Increment(x) == (x + 1) % (ULONG_MAX + 1)
=============================================================================
