-------------------------------- MODULE LanScan --------------------------------
(***************************************************************************)
(* The scan of the terminal interface: refresh() empties what is shown as   *)
(* active and starts a thread that runs the list command; the thread tells  *)
(* what it finds through a queue that the interface alone takes from, and   *)
(* the last thing it tells is how the command ended.  A scan that fails or  *)
(* is cancelled leaves what was shown before it.                            *)
(*                                                                         *)
(* Probes are not counted: in a discovery, any device may answer at any     *)
(* time, and it may end at any time.  Response times go with what is active.*)
(***************************************************************************)
EXTENDS Integers, Sequences

CONSTANTS
    LanDevice,
    MaxScans,           \* bound: scans
    MaxPings            \* bound: devices checked by hand

ASSUME LanScanAssumption == MaxScans \in Nat /\ MaxPings \in Nat

VARIABLES
    inventory,      \* the devices of the database
    listed,         \* self.all_devices
    shown,          \* self.active_devices
    previous,       \* _scan_previous_state
    scanning, cancelled,
    worker,         \* the thread: "none", "discovering", "saving", "showing"
    heard,          \* ... and the devices it has found
    mailbox,        \* scan_events
    kept,           \* history: what the last good scan found, and pings since
    scans, pings

scanVars == <<inventory, listed, shown, previous, scanning, cancelled, worker, heard, mailbox,
              kept, scans, pings>>

ScanInit ==
    /\ inventory \in SUBSET LanDevice /\ listed = inventory
    /\ shown = {} /\ previous = {} /\ kept = {}
    /\ scanning = FALSE /\ cancelled = FALSE
    /\ worker = "none" /\ heard = {} /\ mailbox = << >>
    /\ scans = 0 /\ pings = 0

Tells(event) == mailbox' = Append(mailbox, event)
IsFound(d) == [kind |-> "found", ok |-> TRUE, devices |-> {d}]
Complete(ok, devices) == [kind |-> "complete", ok |-> ok, devices |-> devices]

-----------------------------------------------------------------------------
(* The interface *)

\* Fault: a scan under way is not looked for.
ScanAgain ==
    /\ scans < MaxScans /\ scans' = scans + 1
    /\ scanning' = TRUE /\ cancelled' = FALSE
    /\ previous' = shown /\ shown' = {} /\ listed' = inventory
    /\ worker' = "discovering" /\ heard' = {}
    /\ UNCHANGED <<inventory, mailbox, kept, pings>>

\* refresh: what is shown is put aside, and the thread starts.
Scan ==
    /\ ~scanning
    /\ scans < MaxScans /\ scans' = scans + 1
    /\ scanning' = TRUE /\ cancelled' = FALSE
    /\ previous' = shown /\ shown' = {} /\ listed' = inventory
    /\ worker' = "discovering" /\ heard' = {}
    /\ UNCHANGED <<inventory, mailbox, kept, pings>>

\* Fault: the scan is taken to have ended.
CancelAtOnce ==
    /\ scanning /\ ~cancelled /\ cancelled' = TRUE
    /\ scanning' = FALSE /\ shown' = previous
    /\ UNCHANGED <<inventory, listed, previous, worker, heard, mailbox, kept, scans, pings>>

\* cancel_refresh: the thread will see it.
CancelScan ==
    /\ scanning /\ ~cancelled /\ cancelled' = TRUE
    /\ UNCHANGED <<inventory, listed, shown, previous, scanning, worker, heard, mailbox, kept, scans,
                   pings>>

\* _drain_scan_events: the next event.
Drain ==
    /\ mailbox # << >> /\ mailbox' = Tail(mailbox)
    /\ LET event == Head(mailbox) IN
       CASE event.kind = "found" ->
               shown' = shown \cup (event.devices \cap listed)
               /\ UNCHANGED <<listed, scanning, previous, kept>>
         [] event.kind = "complete" ->
               /\ scanning' = FALSE /\ listed' = inventory
               /\ IF event.ok THEN shown' = event.devices /\ kept' = event.devices
                              ELSE shown' = previous /\ UNCHANGED kept
               /\ previous' = {}
    /\ UNCHANGED <<inventory, cancelled, worker, heard, scans, pings>>

\* ping_selected.  What a ping finds during a scan goes with the scan.
Ping(d) ==
    /\ pings < MaxPings /\ pings' = pings + 1
    /\ d \in listed /\ shown' = shown \cup {d} /\ listed' = inventory
    /\ kept' = IF scanning THEN kept ELSE kept \cup {d}
    /\ UNCHANGED <<inventory, previous, scanning, cancelled, worker, heard, mailbox, scans>>

-----------------------------------------------------------------------------
(* The thread: _run_refresh, and run_list with its progress *)

Find(d) ==
    /\ worker = "discovering" /\ ~cancelled
    /\ d \notin heard /\ heard' = heard \cup {d} /\ Tells(IsFound(d))
    /\ UNCHANGED <<inventory, listed, shown, previous, scanning, cancelled, worker, kept, scans, pings>>

\* The discovery ends; whether it was cancelled is not asked again.
Discovered ==
    /\ worker = "discovering" /\ ~cancelled /\ worker' = "saving"
    /\ UNCHANGED <<inventory, listed, shown, previous, scanning, cancelled, heard, mailbox, kept,
                   scans, pings>>

SaveFound ==
    /\ worker = "saving" /\ worker' = "showing"
    /\ inventory' = inventory \cup heard
    /\ UNCHANGED <<listed, shown, previous, scanning, cancelled, heard, mailbox, kept, scans, pings>>

\* InterruptedError, or another error at any time: that it failed is the last thing told.
ScanFails ==
    /\ worker # "none" /\ worker' = "none"
    /\ Tells(Complete(FALSE, {}))
    /\ UNCHANGED <<inventory, listed, shown, previous, scanning, cancelled, heard, kept, scans, pings>>

ScanEnds ==
    /\ worker = "showing" /\ worker' = "none"
    /\ Tells(Complete(TRUE, heard))
    /\ UNCHANGED <<inventory, listed, shown, previous, scanning, cancelled, heard, kept, scans, pings>>

ScanNext ==
    \/ Scan \/ CancelScan \/ Drain \/ Discovered \/ SaveFound \/ ScanFails \/ ScanEnds
    \/ \E d \in LanDevice : Ping(d) \/ Find(d)

ScanSpec == ScanInit /\ [][ScanNext]_scanVars

-----------------------------------------------------------------------------
\* The variables have their types, and a thread runs, or has told that it ended, in a scan.
ScanTypeOK ==
    /\ {inventory, listed, shown, previous, heard, kept} \subseteq SUBSET LanDevice
    /\ scanning \in BOOLEAN /\ cancelled \in BOOLEAN
    /\ worker \in {"none", "discovering", "saving", "showing"}
    /\ \A i \in 1..Len(mailbox) : mailbox[i].kind \in {"found", "complete"}

\* "Se conserva el último estado válido": between scans, what is shown as active is what the
\* last scan that succeeded found and the devices that have answered since, however many
\* scans have failed or been cancelled, and when.
LastStateKept == ~scanning => shown = kept

\* A scan that has ended says no more: nothing of it is left to reach the next one.
EndedScanIsSilent == ~scanning => worker = "none" /\ mailbox = << >>
================================================================================
