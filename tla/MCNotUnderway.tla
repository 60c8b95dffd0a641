---------------------------- MODULE MCNotUnderway ----------------------------
(* NotUnderway for TLC: a year ends after instant 2.  The second row of    *)
(* the file to import overlaps the first, the third follows it.            *)
EXTENDS NotUnderway, TLC

MCYearOf == [t \in Times |-> IF t < 3 THEN 2026 ELSE 2027]

MCFiles ==
    {<<[start |-> 1, end |-> 2, value |-> value, key |-> key],
       [start |-> 1, end |-> NULL, value |-> value, key |-> key],
       [start |-> 2, end |-> 3, value |-> value, key |-> key]>> :
          value \in Values, key \in FuelKeys}

\* Periods and values are only compared.
MCSymmetry == Permutations(Periods) \cup Permutations(Values)
=============================================================================
