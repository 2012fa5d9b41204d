----------------------------- MODULE MCScreens ------------------------------
EXTENDS Screens

\* Unknown, one digit and three digits of the percentage; two lengths of the count.
MCVoltages == {2799, 3000, 4250}
MCCounts == {0, 12}
=============================================================================
