------------------------------- MODULE Clock -------------------------------
(***************************************************************************)
(* std::chrono::steady_clock as the components with time limits read it:   *)
(* whole milliseconds, never going back.                                   *)
(***************************************************************************)
EXTENDS Naturals

CONSTANT Horizon   \* bounds the clock

ASSUME HorizonAssumption == Horizon \in Nat

VARIABLE now

ClockTypeOK == now \in 0 .. Horizon

ClockInit == now = 0

Tick == now < Horizon /\ now' = now + 1

=============================================================================
