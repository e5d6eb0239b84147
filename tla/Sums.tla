--------------------------------- MODULE Sums ---------------------------------
(* The totals of the counters that threads keep one of each. *)
EXTENDS Integers, FiniteSets

\* The sum of a function's natural numbers, counted one by one: f[x] of them
\* for each x.
Sum(f) == Cardinality(UNION {{x} \X (1 .. f[x]) : x \in DOMAIN f})
===============================================================================
