--------------------------- MODULE MCVoyageImports ---------------------------
(* VoyageImports for TLC: files of which three rows are read.              *)
EXTENDS VoyageImports, TLC

CONSTANTS n1, n2, f1, f2

Line(number, fuel) ==
    [number |-> number, fuel |-> fuel, departure |-> 1, readable |-> TRUE]

\* A voyage of two fuels and another; a voyage with a fuel past the limit and
\* one whose rows disagree; a number with a row that cannot be read.
MCFiles ==
    {<<Line(n1, f1), Line(n1, f2), Line(n2, f1)>>,
     <<Line(n1, f1), Line(n2, f1), [Line(n2, f2) EXCEPT !.departure = NULL],
       Line(n1, f2)>>,
     <<Line(n1, f1), [Line(n1, f2) EXCEPT !.readable = FALSE], Line(n2, f1)>>}

MCSymmetry == Permutations(Imports)
=============================================================================
