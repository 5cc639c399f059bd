------------------------------ MODULE MCProjects ------------------------------
EXTENDS Projects, TLC

CONSTANTS s1, s2, ui, timer, cli, p1, p2

\* An interface that edits; another whose timer saves and whose user opens projects.
Sessions == (ui :> s1) @@ (timer :> s2) @@ (cli :> s2)
=============================================================================
