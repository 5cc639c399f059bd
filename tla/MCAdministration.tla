---------------------------- MODULE MCAdministration ----------------------------
(***************************************************************************)
(* Components by which the system is administered: the lock and sessions of *)
(* the monitor, its storage, the full-screen interface of LANWIRE, and the  *)
(* desktop interface.                                                       *)
(* They share no variable: a behaviour is one of any of them, chosen by     *)
(* "part", and the others stay as they begin.                               *)
(***************************************************************************)
EXTENDS MonitorSessions, MonitorStorage, WireTui, Desktop, TLC

CONSTANTS
    m1, m2,         \* MonitorSessions: two processes
    k1, k2,         \* MonitorStorage: two sessions
    w1, p1, p2,     \* WireTui: a cable, two names of ports
    g1, g2          \* Desktop: two projects

Runs == <<k1, k2>>
KeptFor == 2 :> 4
Cables == <<w1>>

\* Processes, and names of ports, are only compared.
Alike == Permutations({m1, m2}) \cup Permutations({p1, p2})

VARIABLE part

Parts == {"sessions", "storage", "wire", "desktop"}

vars == <<part, sessionsVars, storageVars, wireTuiVars, desktopVars>>

\* What a part may begin with is fixed while another is looked at.
Init ==
    /\ part \in Parts
    /\ MonitorSessionsInit
    /\ part # "sessions" => sessionRows = << >> /\ lockFile = NoLock
    /\ StorageInit
    /\ WireTuiInit
    /\ part # "wire" => idf.ports = << >>
    /\ lanip = LanipDevices           \* bound: fewer after another session has changed them
    /\ DesktopInit
    /\ known = {FirstGuiProject}      \* bound: the other project is created

Next ==
    \/ part = "sessions" /\ MonitorSessionsNext /\ UNCHANGED <<part, storageVars, wireTuiVars, desktopVars>>
    \/ part = "storage" /\ StorageNext /\ UNCHANGED <<part, sessionsVars, wireTuiVars, desktopVars>>
    \/ part = "wire" /\ WireTuiNext /\ UNCHANGED <<part, sessionsVars, storageVars, desktopVars>>
    \/ part = "desktop" /\ DesktopNext /\ UNCHANGED <<part, sessionsVars, storageVars, wireTuiVars>>

Spec == Init /\ [][Next]_vars

\* The part that is looked at has its types.
TypesOK ==
    /\ part \in Parts
    /\ part = "sessions" => MonitorSessionsTypeOK
    /\ part = "storage" => StorageTypeOK
    /\ part = "wire" => WireTuiTypeOK
    /\ part = "desktop" => DesktopTypeOK
================================================================================
