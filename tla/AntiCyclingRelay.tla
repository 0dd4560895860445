-------------------------- MODULE AntiCyclingRelay --------------------------
(***************************************************************************)
(* What a fan controller promises its relay, whatever asks for a change: a *)
(* stretch ON lasts at least MinOn (or until the runtime limit, if that is *)
(* shorter) and at most MaxOn, and a stretch OFF lasts at least MinOff.    *)
(* Time is the real time since power-up.                                   *)
(***************************************************************************)
EXTENDS Integers

CONSTANTS MinOn,    \* shortest stretch ON
          MinOff,   \* shortest stretch OFF
          MaxOn     \* longest stretch ON

VARIABLES on,       \* is the relay energised?
          since,    \* when it last changed (power-up counts as a change)
          starts,   \* how often it has been switched on
          time      \* the time now

vars == <<on, since, starts, time>>

Init ==
  /\ on = FALSE
  /\ since = 0
  /\ starts = 0
  /\ time = 0

TurnOn ==
  /\ ~on
  /\ time - since >= MinOff
  /\ on' = TRUE
  /\ since' = time
  /\ starts' = starts + 1
  /\ UNCHANGED time

TurnOff ==
  /\ on
  /\ time - since >= MinOn
  /\ on' = FALSE
  /\ since' = time
  /\ UNCHANGED <<starts, time>>

\* Time may not run past the longest stretch ON: the relay opens before.
Pass ==
  /\ on => time + 1 - since <= MaxOn
  /\ time' = time + 1
  /\ UNCHANGED <<on, since, starts>>

Next == TurnOn \/ TurnOff \/ Pass

Spec == Init /\ [][Next]_vars

=============================================================================
