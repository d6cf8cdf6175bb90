--------------------------- MODULE MCArchiveReports ---------------------------
(***************************************************************************)
(* Instance of ArchiveReports for TLC: two zones that are alike, and days  *)
(* of two ticks.                                                           *)
(***************************************************************************)
EXTENDS ArchiveReports, TLC

CONSTANTS CarsA, Motos01

TwoZones == {CarsA, Motos01}

Symmetry == Permutations(TwoZones)
===============================================================================
