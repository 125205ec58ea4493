-------------------------- MODULE MCTimerContainers -------------------------
\* The timer containers for TLC.
EXTENDS TimerContainers, TLC

\* Addresses are interchangeable: no operator chooses one.  The heap has one
\* more than the list, which is left out; the wheel's are its own.
Symmetry == Permutations(ListTimers)

\* Refused, rounded up, rounded down, a whole round and more than two.
MCTimeouts == {-1, 0, 5, 6, 15}
=============================================================================
