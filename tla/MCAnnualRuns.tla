----------------------------- MODULE MCAnnualRuns -----------------------------
(* AnnualRuns for TLC: one run for 2026.  The only instant lies after the  *)
(* run's cut-off, so that an actual with an arrival is not counted and one *)
(* without is.  Its configuration has one plan: the planned times, the     *)
(* year and the fuel rows change what a run counts.                        *)
EXTENDS AnnualRuns, TLC

MCYearOf == [t \in Times |-> 2026]
MCRunYear == [r \in Runs |-> 2026]
MCCutOff == [r \in Runs |-> 1]

\* Ship types and sizes are only compared.
MCSymmetry == Permutations(Specs)
=============================================================================
