---------------------------- MODULE MillisClock ----------------------------
(***************************************************************************)
(* The 32-bit millisecond clock of the firmware.  millis() returns the     *)
(* uptime modulo 2^32, every time stamp of the controller is a uint32_t,   *)
(* and every sum and difference of two of them wraps.  ClockModulus stands *)
(* for 2^32: the proofs hold for every value, TLC is given a small one.    *)
(***************************************************************************)
EXTENDS Integers

CONSTANT ClockModulus

ASSUME ClockModulusAssumption == ClockModulus \in Nat \ {0}

UInt32 == 0 .. ClockModulus - 1

\* What millis() reads when the device has really been up for t.
Millis(t) == t % ClockModulus

Add32(a, b) == (a + b) % ClockModulus

Sub32(a, b) == (a - b) % ClockModulus

\* The helper of controller.cpp: a difference that sticks at zero.
SaturatingSub(a, b) == IF a > b THEN a - b ELSE 0

=============================================================================
