--------------------------- MODULE MCTimerManager ---------------------------
(* Instances of TimerManager for TLC.                                      *)
EXTENDS TimerManager

CONSTANTS a, b, c

\* In units of half a second: 2.5 seconds, every 1.5 seconds, half a second.
MixedTimeout == [t \in {a, b, c} |-> CASE t = a -> 5 [] t = b -> 0 [] t = c -> 1]
MixedInterval == [t \in {a, b, c} |-> IF t = b THEN 3 ELSE 0]

\* In quarters of a second: 2.5 seconds, once.
OnceTimeout == [t \in {a} |-> 10]
OnceInterval == [t \in {a} |-> 0]
=============================================================================
