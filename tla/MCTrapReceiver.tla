--------------------------- MODULE MCTrapReceiver ---------------------------
\* Instances of TrapReceiver for TLC.
EXTENDS TrapReceiver

CONSTANTS p162, p10162
=============================================================================
