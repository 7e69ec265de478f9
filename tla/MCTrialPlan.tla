---------------------------- MODULE MCTrialPlan ----------------------------
(* A TLC instance of the plan's arithmetic *)
EXTENDS TrialPlan

\* Below zero, zero, the tolerance and just beyond, odd eighths, the limits of fpe2
\* and the speeds whose plan falls on them
MCRpms == {-8, 0, 8, 9, 300 * 8, 1350 * 8 + 1, 1700 * 8, 16083 * 8, 16083 * 8 + 6, 16383 * 8, 16383 * 8 + 6}

=============================================================================
