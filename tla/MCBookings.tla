----------------------------- MODULE MCBookings -----------------------------
(* Model values for TLC: see bookings.cfg and README.md. *)
EXTENDS Bookings, TLC

CONSTANTS a, b, bot, m1, m2, monday, tuesday, noSlot

Symmetric == Permutations(Services) \cup Permutations(Slots)

\* An order is given to another visit only by a third tool.
MCBudgets == {[tools |-> 2, requests |-> 1, faults |-> 2],
              [tools |-> 3, requests |-> 1, faults |-> 0]}
=============================================================================
