----------------------------- MODULE MCSharedFiles -----------------------------
(***************************************************************************)
(* The instance of the components of which processes share a file, with the *)
(* search that validates a Wake-on-LAN sequence.                            *)
(***************************************************************************)
EXTENDS SharedFiles, WakeGraph, TLC

CONSTANTS
    a1, a2, b1, b2, A, B,   \* FileLock: two threads of each of two processes
    ssh, https              \* Servers

Threads == {a1, a2, b1, b2}
Owners == (a1 :> A) @@ (a2 :> A) @@ (b1 :> B) @@ (b2 :> B)
Mains == {a1, b1}

Endpoints == ssh :> 2222 @@ https :> 8443
================================================================================
