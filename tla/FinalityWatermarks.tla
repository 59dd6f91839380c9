-------------------------- MODULE FinalityWatermarks --------------------------
(***************************************************************************)
(* What a confirmation tracker promises the chain, whichever of the two    *)
(* schemes it runs: two block numbers, the proposed irreversible block and *)
(* the irreversible block (the LIB).  Neither ever decreases, and the LIB  *)
(* never passes the proposed block.  A step may raise either or both.      *)
(***************************************************************************)
EXTENDS Naturals

VARIABLES
  proposed,   \* proposed irreversible block number
  final       \* last irreversible block number

watermarks == <<proposed, final>>

Init ==
  /\ proposed \in Nat
  /\ final \in 0..proposed

\* Some confirmations arrive: the watermarks move up, in order.
Advance ==
  /\ proposed' \in Nat
  /\ final' \in Nat
  /\ proposed <= proposed'
  /\ final <= final'
  /\ final' <= proposed'

Spec == Init /\ [][Advance]_watermarks

=============================================================================
