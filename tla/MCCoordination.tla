---------------------------- MODULE MCCoordination ----------------------------
EXTENDS Coordination, TLC

CONSTANTS p1, ui, cli

\* An interface and a command line at work on one project.
Projects == [s \in {ui, cli} |-> p1]
=============================================================================
