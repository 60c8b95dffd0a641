-------------------------- MODULE MCVoyageLifecycle --------------------------
(* VoyageLifecycle for TLC: instants 1 and 2 lie in two different years.   *)
EXTENDS YearViews, TLC

MCYearOf == [t \in Times |-> IF t = 1 THEN 2026 ELSE 2027]

\* Plans are only compared.
MCSymmetry == Permutations(Plans)
=============================================================================
