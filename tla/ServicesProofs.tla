---------------------------- MODULE ServicesProofs ----------------------------
(***************************************************************************)
(* The components of MCServices, one section for each: the scan of the      *)
(* terminal interface, the registry of plugins, the process of a plugin,    *)
(* the monitor, the terminal interface; and their instance.                 *)
(***************************************************************************)
EXTENDS MCServices, FiniteSetTheorems, TLAPS

-----------------------------------------------------------------------------
(* LanScan *)

Event == [kind : {"found", "complete"}, ok : BOOLEAN, devices : SUBSET LanDevice]

\* A thread that runs has not said that it ended; one that has said so said nothing after it.
MailboxOK ==
    /\ scanning /\ worker # "none" => \A i \in 1..Len(mailbox) : mailbox[i].kind = "found"
    /\ scanning /\ worker = "none" =>
          /\ mailbox # << >> /\ mailbox[Len(mailbox)].kind = "complete"
          /\ \A i \in 1..(Len(mailbox) - 1) : mailbox[i].kind = "found"

ScanInv ==
    /\ mailbox \in Seq(Event)
    /\ inventory \subseteq LanDevice /\ heard \subseteq LanDevice
    /\ MailboxOK
    /\ EndedScanIsSilent
    /\ LastStateKept
    /\ scanning => previous = kept

\* What is told goes to the end of the mailbox.
LEMMA Told ==
  ASSUME mailbox \in Seq(Event), NEW e \in Event
  PROVE  /\ Append(mailbox, e) \in Seq(Event) /\ Append(mailbox, e) # << >>
         /\ Len(Append(mailbox, e)) = Len(mailbox) + 1
         /\ \A i \in 1..Len(mailbox) : Append(mailbox, e)[i] = mailbox[i]
         /\ Append(mailbox, e)[Len(mailbox) + 1] = e
  OBVIOUS

LEMMA ScanSteps == ASSUME ScanInv, [ScanNext]_scanVars PROVE ScanInv'
  <1> USE DEF ScanInv, MailboxOK, EndedScanIsSilent, LastStateKept
  <1>1. CASE Scan
    BY <1>1 DEF Scan
  <1>2. CASE CancelScan
    BY <1>2 DEF CancelScan
  <1>3. CASE Drain
    <2>1. /\ mailbox # << >> /\ mailbox' = Tail(mailbox) /\ mailbox' \in Seq(Event)
          /\ Len(mailbox') = Len(mailbox) - 1
          /\ \A i \in 1..Len(mailbox') : mailbox'[i] = mailbox[i + 1]
          /\ Head(mailbox) = mailbox[1] /\ Len(mailbox) >= 1
      BY <1>3 DEF Drain
    <2>2. mailbox[1] \in Event
      BY <2>1
    <2>3. scanning
      BY <2>1
    <2>4. CASE mailbox[1].kind = "found"
      <3>1. UNCHANGED <<scanning, previous, kept, worker, inventory, heard>>
        BY <1>3, <2>1, <2>4 DEF Drain
      <3>2. worker = "none" => Len(mailbox) > 1
        BY <2>1, <2>3, <2>4
      <3>3. worker = "none" => mailbox'[Len(mailbox')] = mailbox[Len(mailbox)]
        BY <2>1, <3>2
      <3>4. MailboxOK'
        <4>1. CASE worker = "none"
          <5>1. mailbox' # << >>
            <6>1. Len(mailbox') > 0
              BY <2>1, <3>2, <4>1
            <6>2. QED
              BY <6>1
          <5>2. \A i \in 1..(Len(mailbox') - 1) : mailbox'[i].kind = "found"
            BY <2>1, <2>3, <4>1
          <5>3. QED
            BY <2>3, <3>1, <3>3, <4>1, <5>1, <5>2
        <4>2. CASE worker # "none"
          <5>1. \A i \in 1..Len(mailbox') : mailbox'[i].kind = "found"
            BY <2>1, <2>3, <4>2
          <5>2. QED
            BY <3>1, <4>2, <5>1
        <4>3. QED
          BY <4>1, <4>2
      <3>5. QED
        BY <2>1, <2>3, <3>1, <3>4
    <2>5. CASE mailbox[1].kind = "complete"
      <3>1. worker = "none" /\ Len(mailbox) = 1
        BY <2>1, <2>3, <2>5
      <3>2. mailbox' = << >>
        BY <2>1, <3>1
      <3>3. /\ UNCHANGED <<worker, inventory, heard>> /\ scanning' = FALSE
            /\ \/ shown' = mailbox[1].devices /\ kept' = mailbox[1].devices
               \/ shown' = previous /\ kept' = kept
        BY <1>3, <2>1, <2>5 DEF Drain
      <3>4. shown' = kept'
        BY <2>3, <3>3
      <3>5. QED
        BY <3>1, <3>2, <3>3, <3>4
    <2>6. QED
      BY <2>2, <2>4, <2>5 DEF Event
  <1>4. CASE Discovered \/ SaveFound
    BY <1>4 DEF Discovered, SaveFound
  <1>5. CASE ScanFails \/ ScanEnds
    <2>1. PICK e \in Event : e.kind = "complete" /\ mailbox' = Append(mailbox, e)
      BY <1>5 DEF ScanFails, ScanEnds, Tells, Complete, Event
    <2>2. /\ worker # "none" /\ worker' = "none"
          /\ UNCHANGED <<inventory, shown, previous, scanning, heard, kept>>
      BY <1>5 DEF ScanFails, ScanEnds
    <2>3. QED
      BY <2>1, <2>2, Told
  <1>6. ASSUME NEW d \in LanDevice, Ping(d) PROVE ScanInv'
    BY <1>6 DEF Ping
  <1>7. ASSUME NEW d \in LanDevice, Find(d) PROVE ScanInv'
    <2>1. PICK e \in Event : e.kind = "found" /\ mailbox' = Append(mailbox, e)
      BY <1>7 DEF Find, Tells, IsFound, Event
    <2>2. /\ worker # "none" /\ heard' \subseteq LanDevice
          /\ UNCHANGED <<inventory, shown, previous, scanning, worker, kept>>
      BY <1>7 DEF Find
    <2>3. QED
      BY <2>1, <2>2, Told
  <1>8. CASE UNCHANGED scanVars
    BY <1>8 DEF scanVars
  <1>9. QED
    BY <1>1, <1>2, <1>3, <1>4, <1>5, <1>6, <1>7, <1>8 DEF ScanNext

\* The invariant of a scan in the terminal interface: while the thread works there
\* is no end in its queue, and after it just one, the last of its events.
THEOREM ScanInvariant == ScanSpec => []ScanInv
  <1>1. ScanInit => ScanInv
    BY DEF ScanInit, ScanInv, MailboxOK, EndedScanIsSilent, LastStateKept
  <1>2. QED
    BY <1>1, ScanSteps, PTL DEF ScanSpec

\* Whatever scans fail, are cancelled and when, what is shown between scans is the last
\* valid state (tui/main.py, refresh and _drain_scan_events).
THEOREM LastStateIsKept == ScanSpec => []LastStateKept
  <1>1. ScanInv => LastStateKept
    BY DEF ScanInv
  <1>2. QED
    BY <1>1, ScanInvariant, PTL

\* A scan that has ended says no more (tui/main.py, _run_refresh and _drain_scan_events).
THEOREM EndedScansAreSilent == ScanSpec => []EndedScanIsSilent
  <1>1. ScanInv => EndedScanIsSilent
    BY DEF ScanInv
  <1>2. QED
    BY <1>1, ScanInvariant, PTL

\* The rest of the types, which the events in the mailbox carry along.
ScanTyped ==
    /\ listed \subseteq LanDevice /\ shown \subseteq LanDevice
    /\ previous \subseteq LanDevice /\ kept \subseteq LanDevice
    /\ scanning \in BOOLEAN /\ cancelled \in BOOLEAN
    /\ worker \in {"none", "discovering", "saving", "showing"}

LEMMA ScanStaysTyped ==
  ASSUME ScanInv, ScanTyped, [ScanNext]_scanVars
  PROVE  ScanTyped'
  <1>1. CASE Drain
    <2>1. Head(mailbox) \in Event
      BY <1>1 DEF Drain, ScanInv
    <2>2. Head(mailbox).devices \subseteq LanDevice /\ Head(mailbox).kind \in {"found", "complete"}
      BY <2>1 DEF Event
    <2>3. UNCHANGED <<inventory, cancelled, worker>>
      BY <1>1 DEF Drain
    <2>4. CASE Head(mailbox).kind = "found"
      BY <1>1, <2>2, <2>3, <2>4 DEF Drain, ScanTyped
    <2>5. CASE Head(mailbox).kind = "complete"
      BY <1>1, <2>2, <2>3, <2>5 DEF Drain, ScanTyped, ScanInv
    <2>6. QED
      BY <2>2, <2>4, <2>5
  <1>2. CASE Scan \/ CancelScan
    BY <1>2 DEF Scan, CancelScan, ScanTyped, ScanInv
  <1>3. CASE Discovered \/ SaveFound \/ ScanFails \/ ScanEnds
    BY <1>3 DEF Discovered, SaveFound, ScanFails, ScanEnds, ScanTyped
  <1>4. ASSUME NEW d \in LanDevice, Ping(d) \/ Find(d) PROVE ScanTyped'
    BY <1>4 DEF Ping, Find, ScanTyped, ScanInv
  <1>5. CASE UNCHANGED scanVars
    BY <1>5 DEF scanVars, ScanTyped
  <1>6. QED
    BY <1>1, <1>2, <1>3, <1>4, <1>5 DEF ScanNext

\* Only devices that exist are listed, shown and kept, and the mailbox has only what the
\* interface can read.
THEOREM ScanTypes == ScanSpec => []ScanTypeOK
  <1>1. ScanInit => ScanTyped
    BY DEF ScanInit, ScanTyped
  <1>2. ScanInv /\ ScanTyped => ScanTypeOK
    <2>1. SUFFICES ASSUME ScanInv, ScanTyped PROVE ScanTypeOK
      OBVIOUS
    <2>2. ASSUME NEW i \in 1..Len(mailbox) PROVE mailbox[i].kind \in {"found", "complete"}
      <3>1. mailbox[i] \in Event
        BY <2>1, <2>2 DEF ScanInv
      <3>2. QED
        BY <3>1 DEF Event
    <2>3. QED
      BY <2>1, <2>2 DEF ScanInv, ScanTyped, ScanTypeOK
  <1>3. ScanInv /\ ScanTyped /\ [ScanNext]_scanVars => ScanTyped'
    BY ScanStaysTyped
  <1>4. QED
    BY <1>1, <1>2, <1>3, ScanInvariant, PTL DEF ScanSpec

-----------------------------------------------------------------------------
(* Plugins *)

\* What is enabled was chosen as it was recorded, and has what it demands.
Entry(p, record, c, o) ==
    record.state = "ENABLED" /\ p \notin o =>
        <<p, record.checksum>> \in c /\ Demands[record.checksum] \subseteq record.granted

\* The same of what a process holds, which is what was recorded.
Held(p, record, c, o) ==
    Entry(p, record, c, o) /\ (record.state = "ENABLED" /\ p \notin o => record.version = record.checksum)

GoodRegistry(of, c, o) ==
    DOMAIN of \subseteq Plugin /\ \A p \in DOMAIN of : of[p] \in Record /\ Entry(p, of[p], c, o)
GoodView(of, c, o) ==
    DOMAIN of \subseteq Plugin /\ \A p \in DOMAIN of : of[p] \in Installed /\ Held(p, of[p], c, o)
Doings == {"down", "reading", "found", "up", "installing", "removing"}
Moments(read) == [at : Doings, on : SUBSET (Plugin \X (Version \cup {0})), read : {read}]
GoodHost(a, c, o) ==
    /\ a \in Moments(a.read)
    /\ GoodRegistry(a.read, c, o)
    /\ a.at = "installing" => a.on \subseteq Plugin \X Version

PluginsInv ==
    /\ shipped \in Version /\ folder \in [Plugin -> Version \cup {0}]
    /\ GoodRegistry(registry, chosen, overruled)
    /\ DOMAIN view = Host /\ \A h \in Host : GoodView(view[h], chosen, overruled)
    /\ DOMAIN host = Host /\ \A h \in Host : GoodHost(host[h], chosen, overruled)

\* Choices are not taken back.
LEMMA ChoicesGrow ==
  ASSUME NEW c, NEW o, NEW c2, NEW o2, c \subseteq c2, o \subseteq o2, NEW of
  PROVE  /\ GoodRegistry(of, c, o) => GoodRegistry(of, c2, o2)
         /\ GoodView(of, c, o) => GoodView(of, c2, o2)
  BY DEF GoodRegistry, GoodView, Entry, Held

LEMMA RecordedIsGood ==
  ASSUME NEW of, NEW c, NEW o, GoodView(of, c, o)
  PROVE  GoodRegistry(Recorded(of), c, o)
  <1>1. ASSUME NEW p \in DOMAIN of
        PROVE  LET record == [state |-> of[p].state, granted |-> of[p].granted, checksum |-> of[p].checksum]
               IN record \in Record /\ Entry(p, record, c, o)
    BY DEF GoodView, Held, Entry, Installed, Record
  <1>2. QED
    BY <1>1 DEF GoodRegistry, GoodView, Recorded

\* What a host does not change is as good as before.
LEMMA StaysGood ==
  ASSUME PluginsInv, NEW h \in Host, chosen \subseteq chosen', overruled \subseteq overruled'
  PROVE  /\ GoodView(view[h], chosen', overruled')
         /\ GoodRegistry(registry, chosen', overruled')
         /\ GoodHost(host[h], chosen', overruled')
  <1>1. GoodView(view[h], chosen, overruled) /\ GoodRegistry(registry, chosen, overruled)
    BY DEF PluginsInv
  <1>2. GoodHost(host[h], chosen, overruled)
    BY DEF PluginsInv
  <1>3. GoodRegistry(host[h].read, chosen', overruled')
    BY <1>2, ChoicesGrow DEF GoodHost
  <1>4. QED
    BY <1>1, <1>2, <1>3, ChoicesGrow DEF GoodHost

\* One step of a host: what it holds and does is good, and may be saved.
LEMMA HostStep ==
  ASSUME PluginsInv, NEW h \in Host,
         DOMAIN view' = Host, \A k \in Host : k # h => view'[k] = view[k],
         DOMAIN host' = Host, \A k \in Host : k # h => host'[k] = host[k],
         GoodView(view'[h], chosen', overruled'), GoodHost(host'[h], chosen', overruled'),
         registry' \in {registry, Recorded(view'[h])},
         shipped' = shipped, folder' \in [Plugin -> Version \cup {0}],
         chosen \subseteq chosen', overruled \subseteq overruled'
  PROVE  PluginsInv'
  <1>1. GoodRegistry(registry', chosen', overruled')
    <2>1. GoodRegistry(registry, chosen', overruled')
      BY ChoicesGrow DEF PluginsInv
    <2>2. GoodRegistry(Recorded(view'[h]), chosen', overruled')
      BY RecordedIsGood
    <2>3. QED
      BY <2>1, <2>2
  <1>2. ASSUME NEW k \in Host PROVE GoodView(view'[k], chosen', overruled')
    <2>1. GoodView(view[k], chosen', overruled')
      BY ChoicesGrow DEF PluginsInv
    <2>2. QED
      BY <2>1
  <1>3. ASSUME NEW k \in Host PROVE GoodHost(host'[k], chosen', overruled')
    <2>1. GoodHost(host[k], chosen', overruled')
      BY StaysGood
    <2>2. QED
      BY <2>1
  <1>4. QED
    BY <1>1, <1>2, <1>3 DEF PluginsInv

MoveTo(a, at) == [a EXCEPT !.at = at]
MoveOn(a, at, on) == [a EXCEPT !.at = at, !.on = on]

LEMMA HostMoves ==
  ASSUME NEW read, NEW a \in Moments(read), NEW at \in Doings,
         NEW on \in SUBSET (Plugin \X (Version \cup {0}))
  PROVE  /\ MoveTo(a, at) \in Moments(read) /\ MoveTo(a, at).at = at
         /\ MoveTo(a, at).read = read
         /\ MoveOn(a, at, on) \in Moments(read)
         /\ MoveOn(a, at, on).at = at
         /\ MoveOn(a, at, on).on = on /\ MoveOn(a, at, on).read = read
  BY DEF Moments, MoveTo, MoveOn

LEMMA MovedIsGood ==
  ASSUME NEW a, NEW c, NEW o, GoodHost(a, c, o), NEW at \in Doings,
         NEW on \in SUBSET (Plugin \X (Version \cup {0})),
         at = "installing" => on \subseteq Plugin \X Version
  PROVE  /\ at # "installing" => GoodHost(MoveTo(a, at), c, o)
         /\ GoodHost(MoveOn(a, at, on), c, o)
  <1>1. a \in Moments(a.read) /\ GoodRegistry(a.read, c, o)
    BY DEF GoodHost
  <1>2. /\ MoveTo(a, at) \in Moments(a.read) /\ MoveTo(a, at).at = at
        /\ MoveTo(a, at).read = a.read
        /\ MoveOn(a, at, on) \in Moments(a.read) /\ MoveOn(a, at, on).at = at
        /\ MoveOn(a, at, on).on = on /\ MoveOn(a, at, on).read = a.read
    BY <1>1, HostMoves
  <1>3. QED
    BY <1>1, <1>2 DEF GoodHost

LEMMA NothingIsGood ==
  ASSUME NEW c, NEW o
  PROVE  GoodRegistry(<< >>, c, o) /\ GoodView(<< >>, c, o) /\ GoodHost(Idle, c, o)
  <1>1. DOMAIN << >> = {}
    OBVIOUS
  <1>2. GoodRegistry(<< >>, c, o) /\ GoodView(<< >>, c, o)
    BY <1>1 DEF GoodRegistry, GoodView
  <1>3. QED
    BY <1>2 DEF GoodHost, Moments, Doings, Idle, Unread

\* The command changes one plugin that the host holds.
LEMMA ChangedIsGood ==
  ASSUME NEW of, NEW c, NEW o, GoodView(of, c, o), NEW p \in DOMAIN of, NEW record \in Installed,
         Held(p, record, c, o)
  PROVE  GoodView([of EXCEPT ![p] = record], c, o)
  BY DEF GoodView

\* discover: what is found, as saved or by default, is good, and so is what is not as saved.
LEMMA DiscoverIsGood ==
  ASSUME PluginsInv, NEW h \in Host, Discover(h)
  PROVE  PluginsInv'
  <1> DEFINE changed == {p \in Found : Expected(h, p) # folder[p]}
             got == [p \in Found |-> IF p \in changed THEN InQuarantine(h, p)
                                    ELSE IF p \in Saved(h) THEN AsSaved(h, p) ELSE Default(p)]
  <1>1. /\ view' = [view EXCEPT ![h] = got] /\ UNCHANGED <<shipped, registry, overruled>>
        /\ folder' = [p \in Plugin |-> IF p \in changed THEN 0 ELSE folder[p]]
        /\ chosen' = chosen \cup {<<p, folder[p]>> : p \in (Found \cap Bundled) \ Saved(h)}
        /\ host' = [host EXCEPT ![h] = MoveTo(Idle, "found")]
    BY DEF Discover, MoveTo
  <1>2. folder' \in [Plugin -> Version \cup {0}]
    BY <1>1 DEF PluginsInv
  <1>3. GoodHost(MoveTo(Idle, "found"), chosen', overruled')
    <2>1. GoodHost(Idle, chosen', overruled') /\ "found" \in Doings
      BY NothingIsGood DEF Doings
    <2>2. QED
      BY <2>1, MovedIsGood
  <1>4. ASSUME NEW p \in Found PROVE got[p] \in Installed /\ Held(p, got[p], chosen', overruled')
    <2>1. p \in Plugin /\ folder[p] \in Version
      BY DEF Found, PluginsInv
    <2>2. CASE p \in changed
      <3>1. Expected(h, p) \in Version
        BY <2>1 DEF Expected, Saved, PluginsInv, GoodHost, GoodRegistry, Record
      <3>2. QED
        BY <2>1, <2>2, <3>1 DEF InQuarantine, Installed, State, Held, Entry
    <2>3. CASE p \notin changed /\ p \in Saved(h)
      <3>1. /\ host[h].read[p] \in Record /\ host[h].read[p].checksum = folder[p]
            /\ Entry(p, host[h].read[p], chosen, overruled)
        BY <2>1, <2>3 DEF Expected, Saved, PluginsInv, GoodHost, GoodRegistry
      <3>2. got[p] = AsSaved(h, p)
        BY <2>3
      <3>3. AsSaved(h, p) \in Installed
        BY <2>1, <3>1 DEF AsSaved, Installed, Record
      <3>4. Held(p, AsSaved(h, p), chosen', overruled')
        BY <1>1, <3>1 DEF AsSaved, Held, Entry
      <3>5. QED
        BY <3>2, <3>3, <3>4
    <2>4. CASE p \notin changed /\ p \notin Saved(h)
      <3>1. Demands[folder[p]] \in SUBSET Permission
        BY <2>1, PluginsAssumption
      <3>2. got[p] = Default(p)
        BY <2>4
      <3>3. p \in Bundled => <<p, folder[p]>> \in chosen'
        BY <1>1, <2>4
      <3>4. Default(p) \in Installed
        BY <2>1, <3>1 DEF Default, Installed, State
      <3>5. Held(p, Default(p), chosen', overruled')
        BY <3>3 DEF Default, Held, Entry
      <3>6. QED
        BY <3>2, <3>4, <3>5
    <2>5. QED
      BY <2>2, <2>3, <2>4
  <1>5. DOMAIN got = Found /\ Found \subseteq Plugin
    BY DEF Found
  <1> HIDE DEF got, changed
  <1>6. GoodView(got, chosen', overruled')
    BY <1>4, <1>5 DEF GoodView
  <1>7. /\ DOMAIN view' = Host /\ view'[h] = got /\ \A k \in Host : k # h => view'[k] = view[k]
        /\ DOMAIN host' = Host /\ host'[h] = MoveTo(Idle, "found")
        /\ \A k \in Host : k # h => host'[k] = host[k]
    BY <1>1 DEF PluginsInv
  <1>8. QED
    BY <1>1, <1>2, <1>3, <1>6, <1>7, HostStep

\* A command on a plugin that the host holds makes of it what may be held.
LEMMA CommandIsGood ==
  ASSUME PluginsInv, NEW h \in Host, NEW p \in Plugin, NEW grant \in SUBSET Permission,
         \/ Disable(h, p) \/ EnableBlocked(h, p, grant) \/ EnableRefused(h, p, grant)
         \/ Enable(h, p, grant) \/ Revoke(h, p, grant)
  PROVE  PluginsInv'
  <1> DEFINE r == view[h][p]
  <1>1. /\ p \in DOMAIN view[h] /\ r \in Installed /\ Held(p, r, chosen, overruled)
        /\ UNCHANGED <<shipped, folder, host>>
        /\ registry' \in {registry, Recorded(view'[h])}
        /\ chosen \subseteq chosen' /\ overruled \subseteq overruled'
    BY DEF PluginsInv, GoodView, Up, Disable, EnableBlocked, EnableRefused, Enable, Revoke, Save
  <1>2. \E record \in Installed : Held(p, record, chosen', overruled') /\ Set(h, p, record)
    <2>1. CASE Disable(h, p)
      <3>1. LET record == [r EXCEPT !.state = "DISABLED"]
            IN record \in Installed /\ record.state = "DISABLED"
        BY <1>1 DEF Installed, State
      <3>2. QED
        BY <2>1, <3>1 DEF Disable, Held, Entry
    <2>2. CASE EnableBlocked(h, p, grant)
      <3>1. LET record == [r EXCEPT !.granted = grant, !.state = "STOPPED"]
            IN record \in Installed /\ record.state = "STOPPED"
        BY <1>1 DEF Installed, State
      <3>2. QED
        BY <2>2, <3>1 DEF EnableBlocked, Held, Entry
    <2>3. CASE EnableRefused(h, p, grant)
      <3>1. LET record == [r EXCEPT !.granted = grant, !.state = "STOPPED"]
            IN record \in Installed /\ record.state = "STOPPED"
        BY <1>1 DEF Installed, State
      <3>2. LET record == [r EXCEPT !.granted = grant]
            IN /\ record \in Installed /\ record.state = r.state /\ record.version = r.version
               /\ record.checksum = r.checksum /\ record.granted = grant
        BY <1>1 DEF Installed
      <3>3. Demands[r.version] \subseteq grant /\ chosen' = chosen /\ overruled' = overruled
        BY <2>3 DEF EnableRefused
      <3>4. Held(p, [r EXCEPT !.granted = grant], chosen', overruled')
        BY <1>1, <3>2, <3>3 DEF Held, Entry
      <3>5. Held(p, [r EXCEPT !.granted = grant, !.state = "STOPPED"], chosen', overruled')
        BY <3>1 DEF Held, Entry
      <3>6. QED
        BY <2>3, <3>1, <3>2, <3>4, <3>5 DEF EnableRefused
    <2>4. CASE Enable(h, p, grant)
      <3>1. LET record == [r EXCEPT !.granted = grant, !.state = "ENABLED"]
            IN /\ record \in Installed /\ record.version = r.version
               /\ record.checksum = r.checksum /\ record.granted = grant
        BY <1>1 DEF Installed, State
      <3>2. /\ Demands[r.version] \subseteq grant /\ <<p, r.version>> \in chosen'
            /\ r.version # r.checksum => p \in overruled'
        BY <2>4 DEF Enable
      <3>3. Held(p, [r EXCEPT !.granted = grant, !.state = "ENABLED"], chosen', overruled')
        BY <3>1, <3>2 DEF Held, Entry
      <3>4. QED
        BY <2>4, <3>1, <3>3 DEF Enable
    <2>5. CASE Revoke(h, p, grant)
      <3> DEFINE record == [r EXCEPT !.granted = @ \ grant,
                                     !.state = IF @ = "ENABLED" THEN "DISABLED" ELSE @]
      <3>1. record \in Installed /\ record.state # "ENABLED"
        BY <1>1 DEF Installed, State
      <3>2. Held(p, record, chosen', overruled')
        BY <3>1 DEF Held, Entry
      <3>3. QED
        BY <2>5, <3>1, <3>2 DEF Revoke
    <2>6. QED
      BY <2>1, <2>2, <2>3, <2>4, <2>5
  <1>3. PICK record \in Installed : Held(p, record, chosen', overruled') /\ Set(h, p, record)
    BY <1>2
  <1>4. view' = [view EXCEPT ![h] = [view[h] EXCEPT ![p] = record]]
    BY <1>3 DEF Set
  <1>5. GoodView(view[h], chosen', overruled')
    BY <1>1, ChoicesGrow DEF PluginsInv
  <1>6. GoodView([view[h] EXCEPT ![p] = record], chosen', overruled')
    BY <1>1, <1>3, <1>5, ChangedIsGood
  <1>7. /\ DOMAIN view' = Host /\ view'[h] = [view[h] EXCEPT ![p] = record]
        /\ \A k \in Host : k # h => view'[k] = view[k]
        /\ DOMAIN host' = Host /\ host' = host
    BY <1>1, <1>4 DEF PluginsInv
  <1>8. QED
    BY <1>1, <1>6, <1>7, StaysGood, HostStep DEF PluginsInv

LEMMA PluginsSteps == ASSUME PluginsInv, [PluginsNext]_pluginsVars PROVE PluginsInv'
  <1>1. CASE Upgrade
    BY <1>1, ChoicesGrow DEF Upgrade, PluginsInv
  <1>2. ASSUME NEW h \in Host, Bootstrap(h) PROVE PluginsInv'
    <2>1. /\ UNCHANGED <<shipped, registry, view, chosen, overruled>>
          /\ host' = [host EXCEPT ![h] = [at |-> "reading", on |-> {}, read |-> registry]]
          /\ folder' = [p \in Plugin |-> IF p \in Bundled THEN shipped ELSE folder[p]]
      BY <1>2 DEF Bootstrap
    <2>2. folder' \in [Plugin -> Version \cup {0}]
      BY <2>1 DEF PluginsInv
    <2>3. /\ DOMAIN host' = Host /\ \A k \in Host : k # h => host'[k] = host[k]
          /\ host'[h] = [at |-> "reading", on |-> {}, read |-> registry]
      BY <2>1 DEF PluginsInv
    <2>4. GoodHost(host'[h], chosen, overruled)
      BY <2>3 DEF GoodHost, Moments, Doings, PluginsInv
    <2>5. QED
      BY <2>1, <2>2, <2>3, <2>4, StaysGood, HostStep DEF PluginsInv
  <1>3. ASSUME NEW h \in Host, ActivateEnabled(h) PROVE PluginsInv'
    <2>1. PICK failed \in SUBSET {p \in DOMAIN view[h] : view[h][p].state = "ENABLED"} :
             view' = [view EXCEPT ![h] =
                [p \in DOMAIN view[h] |-> IF p \in failed THEN [view[h][p] EXCEPT !.state = "STOPPED"]
                                          ELSE view[h][p]]]
      BY <1>3 DEF ActivateEnabled
    <2> DEFINE now == [p \in DOMAIN view[h] |-> IF p \in failed THEN [view[h][p] EXCEPT !.state = "STOPPED"]
                                                ELSE view[h][p]]
    <2>2. /\ registry' = Recorded(view'[h]) /\ host' = [host EXCEPT ![h].at = "up"]
          /\ UNCHANGED <<shipped, folder, chosen, overruled>>
      BY <1>3 DEF ActivateEnabled, Save
    <2>3. GoodView(view[h], chosen, overruled) /\ GoodHost(host[h], chosen, overruled)
      BY DEF PluginsInv
    <2>4. ASSUME NEW p \in DOMAIN view[h] PROVE now[p] \in Installed /\ Held(p, now[p], chosen, overruled)
      <3>1. view[h][p] \in Installed /\ Held(p, view[h][p], chosen, overruled)
        BY <2>3 DEF GoodView
      <3>2. LET stopped == [view[h][p] EXCEPT !.state = "STOPPED"]
            IN stopped \in Installed /\ stopped.state = "STOPPED"
        BY <3>1 DEF Installed, State
      <3>3. QED
        BY <3>1, <3>2 DEF Held, Entry
    <2>5. DOMAIN now = DOMAIN view[h] /\ DOMAIN view[h] \subseteq Plugin
      BY <2>3 DEF GoodView
    <2> HIDE DEF now
    <2>6. GoodView(now, chosen, overruled)
      BY <2>4, <2>5 DEF GoodView
    <2>7. /\ DOMAIN view' = Host /\ view'[h] = now /\ \A k \in Host : k # h => view'[k] = view[k]
          /\ DOMAIN host' = Host /\ \A k \in Host : k # h => host'[k] = host[k]
          /\ host'[h] = MoveTo(host[h], "up")
      BY <2>1, <2>2 DEF PluginsInv, now, MoveTo
    <2>8. "up" \in Doings
      BY DEF Doings
    <2>9. GoodHost(host'[h], chosen, overruled)
      BY <2>3, <2>7, <2>8, MovedIsGood
    <2>10. QED
      BY <2>2, <2>6, <2>7, <2>9, HostStep DEF PluginsInv
  <1>4. ASSUME NEW h \in Host, Exit(h) PROVE PluginsInv'
    <2>1. /\ UNCHANGED <<shipped, folder, registry, chosen, overruled>>
          /\ DOMAIN view' = Host /\ view'[h] = << >> /\ \A k \in Host : k # h => view'[k] = view[k]
          /\ DOMAIN host' = Host /\ host'[h] = Idle /\ \A k \in Host : k # h => host'[k] = host[k]
      BY <1>4 DEF Exit, PluginsInv
    <2>2. QED
      BY <2>1, NothingIsGood, HostStep DEF PluginsInv
  <1>5. ASSUME NEW h \in Host, NEW p \in Manages[h], NEW v \in Version, Install(h, p, v) PROVE PluginsInv'
    <2>1. p \in Plugin
      BY PluginsAssumption
    <2>2. /\ UNCHANGED <<shipped, registry, view, chosen, overruled>>
          /\ folder' = [folder EXCEPT ![p] = v]
          /\ host' = [host EXCEPT ![h] = MoveOn(host[h], "installing", {<<p, v>>})]
      BY <1>5 DEF Install, PluginsInv, MoveOn
    <2>3. GoodHost(host[h], chosen, overruled)
      BY DEF PluginsInv
    <2>4. /\ DOMAIN host' = Host /\ \A k \in Host : k # h => host'[k] = host[k]
          /\ host'[h] = MoveOn(host[h], "installing", {<<p, v>>})
      BY <2>2 DEF PluginsInv
    <2>5. GoodHost(host'[h], chosen, overruled)
      <3>1. "installing" \in Doings
        BY DEF Doings
      <3>2. {<<p, v>>} \in SUBSET (Plugin \X Version) /\ {<<p, v>>} \in SUBSET (Plugin \X (Version \cup {0}))
        BY <2>1
      <3>3. QED
        BY <2>3, <2>4, <3>1, <3>2, MovedIsGood
    <2>6. folder' \in [Plugin -> Version \cup {0}]
      BY <2>2 DEF PluginsInv
    <2>7. QED
      BY <2>2, <2>4, <2>5, <2>6, StaysGood, HostStep DEF PluginsInv
  <1>6. ASSUME NEW h \in Host, Register(h) PROVE PluginsInv'
    <2>1. PICK x \in host[h].on : view' = [view EXCEPT ![h] = With(view[h], x[1],
             [version |-> x[2], state |-> "DISABLED", granted |-> {}, checksum |-> x[2]])]
      BY <1>6 DEF Register
    <2> DEFINE new == [version |-> x[2], state |-> "DISABLED", granted |-> {}, checksum |-> x[2]]
               now == With(view[h], x[1], new)
    <2>2. GoodView(view[h], chosen, overruled) /\ GoodHost(host[h], chosen, overruled)
      BY DEF PluginsInv
    <2>3. x[1] \in Plugin /\ x[2] \in Version
      BY <1>6, <2>1, <2>2 DEF Register, GoodHost
    <2>4. new \in Installed /\ Held(x[1], new, chosen, overruled)
      BY <2>3 DEF Installed, State, Held, Entry
    <2> HIDE DEF new
    <2>5. GoodView(now, chosen, overruled)
      BY <2>2, <2>3, <2>4 DEF GoodView, With
    <2> HIDE DEF now
    <2>6. /\ UNCHANGED <<shipped, folder, chosen, overruled>> /\ registry' = Recorded(view'[h])
          /\ host' = [host EXCEPT ![h] = MoveOn(host[h], "up", {})]
      BY <1>6 DEF Register, Save, PluginsInv, MoveOn
    <2>7. /\ DOMAIN view' = Host /\ view'[h] = now /\ \A k \in Host : k # h => view'[k] = view[k]
          /\ DOMAIN host' = Host /\ \A k \in Host : k # h => host'[k] = host[k]
          /\ host'[h] = MoveOn(host[h], "up", {})
      BY <2>1, <2>6 DEF PluginsInv, now, new
    <2>8. GoodHost(host'[h], chosen, overruled)
      <3>1. "up" \in Doings
        BY DEF Doings
      <3>2. QED
        BY <2>2, <2>7, <3>1, MovedIsGood
    <2>9. QED
      BY <2>5, <2>6, <2>7, <2>8, HostStep DEF PluginsInv
  <1>7. ASSUME NEW h \in Host, NEW p \in Manages[h], Uninstall(h, p) PROVE PluginsInv'
    <2>1. /\ UNCHANGED <<shipped, registry, view, chosen, overruled>>
          /\ folder' = [folder EXCEPT ![p] = 0]
          /\ host' = [host EXCEPT ![h] = MoveOn(host[h], "removing", {<<p, 0>>})]
      BY <1>7 DEF Uninstall, PluginsInv, MoveOn
    <2>2. GoodHost(host[h], chosen, overruled)
      BY DEF PluginsInv
    <2>3. /\ DOMAIN host' = Host /\ \A k \in Host : k # h => host'[k] = host[k]
          /\ host'[h] = MoveOn(host[h], "removing", {<<p, 0>>})
      BY <2>1 DEF PluginsInv
    <2>4. GoodHost(host'[h], chosen, overruled)
      <3>1. "removing" \in Doings
        BY DEF Doings
      <3>2. {<<p, 0>>} \in SUBSET (Plugin \X (Version \cup {0}))
        BY PluginsAssumption
      <3>3. QED
        BY <2>2, <2>3, <3>1, <3>2, MovedIsGood
    <2>5. folder' \in [Plugin -> Version \cup {0}]
      BY <2>1 DEF PluginsInv
    <2>6. QED
      BY <2>1, <2>3, <2>4, <2>5, StaysGood, HostStep DEF PluginsInv
  <1>8. ASSUME NEW h \in Host, ForgetPlugin(h) PROVE PluginsInv'
    <2>1. PICK x \in host[h].on : view' = [view EXCEPT ![h] = Without(view[h], x[1])]
      BY <1>8 DEF ForgetPlugin
    <2> DEFINE now == Without(view[h], x[1])
    <2>2. GoodView(view[h], chosen, overruled) /\ GoodHost(host[h], chosen, overruled)
      BY DEF PluginsInv
    <2>3. GoodView(now, chosen, overruled)
      BY <2>2 DEF GoodView, Without
    <2> HIDE DEF now
    <2>4. /\ UNCHANGED <<shipped, folder, chosen, overruled>> /\ registry' = Recorded(view'[h])
          /\ host' = [host EXCEPT ![h] = MoveOn(host[h], "up", {})]
      BY <1>8 DEF ForgetPlugin, Save, PluginsInv, MoveOn
    <2>5. /\ DOMAIN view' = Host /\ view'[h] = now /\ \A k \in Host : k # h => view'[k] = view[k]
          /\ DOMAIN host' = Host /\ \A k \in Host : k # h => host'[k] = host[k]
          /\ host'[h] = MoveOn(host[h], "up", {})
      BY <2>1, <2>4 DEF PluginsInv, now
    <2>6. GoodHost(host'[h], chosen, overruled)
      <3>1. "up" \in Doings
        BY DEF Doings
      <3>2. QED
        BY <2>2, <2>5, <3>1, MovedIsGood
    <2>7. QED
      BY <2>3, <2>4, <2>5, <2>6, HostStep DEF PluginsInv
  <1>9. ASSUME NEW h \in Host, NEW p \in Manages[h], NEW granted \in SUBSET Permission,
               \/ Disable(h, p) \/ EnableBlocked(h, p, granted) \/ EnableRefused(h, p, granted)
               \/ Enable(h, p, granted) \/ Revoke(h, p, granted)
        PROVE PluginsInv'
    <2>1. p \in Plugin
      BY PluginsAssumption
    <2>2. QED
      BY <1>9, <2>1, CommandIsGood
  <1>10. CASE UNCHANGED pluginsVars
    BY <1>10 DEF pluginsVars, PluginsInv
  <1>11. QED
    BY <1>1, <1>2, <1>3, <1>4, <1>5, <1>6, <1>7, <1>8, <1>9, <1>10, DiscoverIsGood DEF PluginsNext

\* The invariant of the plugin registry (manager.py): what the registry or the
\* memory of a process enables was chosen, with what it demands granted.
THEOREM PluginsInvariant == PluginsSpec => []PluginsInv
  <1>1. PluginsInit => PluginsInv
    BY NothingIsGood, PluginsAssumption DEF PluginsInit, PluginsInv
  <1>2. QED
    BY <1>1, PluginsSteps, PTL DEF PluginsSpec

\* For any processes that install, enable and save at once, what a process runs as enabled was
\* enabled in that version, with all that it demands (core/plugins/manager.py, discover and enable).
THEOREM EnabledIsChosen == PluginsSpec => []EnabledWasChosen
  <1>1. PluginsInv => EnabledWasChosen
    BY DEF PluginsInv, GoodView, Held, Entry, EnabledWasChosen, Enabled
  <1>2. QED
    BY <1>1, PluginsInvariant, PTL

\* A choice is one of a plugin and a version that there is.
ChoicesTyped == chosen \subseteq Plugin \X Version /\ overruled \subseteq Plugin

LEMMA ChoicesStayTyped ==
  ASSUME PluginsInv, ChoicesTyped, [PluginsNext]_pluginsVars
  PROVE  ChoicesTyped'
  <1>1. ASSUME NEW h \in Host, Discover(h) PROVE ChoicesTyped'
    <2>1. \A p \in Found : p \in Plugin /\ folder[p] \in Version
      BY DEF Found, PluginsInv
    <2>2. {<<p, folder[p]>> : p \in (Found \cap Bundled) \ Saved(h)} \subseteq Plugin \X Version
      BY <2>1
    <2>3. QED
      BY <1>1, <2>2 DEF Discover, ChoicesTyped
  <1>2. ASSUME NEW h \in Host, NEW p \in Plugin, NEW grant \in SUBSET Permission, Enable(h, p, grant)
        PROVE ChoicesTyped'
    <2>1. view[h][p] \in Installed
      BY <1>2 DEF Enable, Up, PluginsInv, GoodView
    <2>2. <<p, view[h][p].version>> \in Plugin \X Version
      BY <2>1 DEF Installed
    <2>3. QED
      BY <1>2, <2>2 DEF Enable, ChoicesTyped
  <1>3. ASSUME UNCHANGED <<chosen, overruled>> PROVE ChoicesTyped'
    BY <1>3 DEF ChoicesTyped
  <1>4. CASE Upgrade \/ UNCHANGED pluginsVars
    BY <1>3, <1>4 DEF Upgrade, pluginsVars
  <1>5. ASSUME NEW h \in Host,
               Bootstrap(h) \/ ActivateEnabled(h) \/ Exit(h) \/ Register(h) \/ ForgetPlugin(h)
        PROVE ChoicesTyped'
    BY <1>3, <1>5 DEF Bootstrap, ActivateEnabled, Exit, Register, ForgetPlugin
  <1>6. ASSUME NEW h \in Host, NEW p \in Manages[h],
               (\E v \in Version : Install(h, p, v)) \/ Disable(h, p) \/ Uninstall(h, p)
        PROVE ChoicesTyped'
    BY <1>3, <1>6 DEF Install, Disable, Uninstall
  <1>7. ASSUME NEW h \in Host, NEW p \in Manages[h], NEW granted \in SUBSET Permission,
               \/ EnableBlocked(h, p, granted) \/ EnableRefused(h, p, granted)
               \/ Enable(h, p, granted) \/ Revoke(h, p, granted)
        PROVE ChoicesTyped'
    <2>1. p \in Plugin
      BY PluginsAssumption
    <2>2. QED
      BY <1>2, <1>3, <1>7, <2>1 DEF EnableBlocked, EnableRefused, Revoke
  <1>8. QED
    BY <1>1, <1>4, <1>5, <1>6, <1>7 DEF PluginsNext

\* What is in the registry, in a process and among the choices is of plugins, versions and
\* permissions that there are.
THEOREM PluginsTypes == PluginsSpec => []PluginsTypeOK
  <1>1. PluginsInit => ChoicesTyped
    BY DEF PluginsInit, ChoicesTyped
  <1>2. PluginsInv /\ ChoicesTyped => PluginsTypeOK
    BY DEF PluginsInv, GoodRegistry, GoodView, ChoicesTyped, PluginsTypeOK
  <1>3. PluginsInv /\ ChoicesTyped /\ [PluginsNext]_pluginsVars => ChoicesTyped'
    BY ChoicesStayTyped
  <1>4. QED
    BY <1>1, <1>2, <1>3, PluginsInvariant, PTL DEF PluginsSpec

-----------------------------------------------------------------------------
(* PluginRuntime *)

\* A refusal is read before it is read that the child is ready.
RefusedFirst ==
    \E i \in 1..Len(mail) : mail[i] = "VIOLATION" /\ \A j \in 1..i-1 : mail[j] # "READY"

NoReady == \A i \in 1..Len(mail) : mail[i] # "READY"

\* What start() will read tells which of the two was sent first.
Starting ==
    caller = "starting" =>
        /\ spoke = "nothing" => NoReady
        /\ spoke = "VIOLATION" => RefusedFirst

RuntimeTypes ==
    /\ caller \in {"idle", "starting", "failing", "running", "answer", "joining"}
    /\ child \in {"none", "booting", "loading", "serving", "leaving", "gone"}
    /\ watchdog \in {"none", "watching", "auditing"} /\ lapsed \in BOOLEAN
    /\ asked \in BOOLEAN /\ terminated \in BOOLEAN /\ booted \in BOOLEAN
    /\ spoke \in {"nothing", "READY", "VIOLATION"}
    /\ mail \in Seq(Kind)

\* Whoever reads the pipe has not counted more than the budget yet.
Counting ==
    /\ calls \in 0 .. MaxCalls + 1 /\ said \in 0..MaxSaid /\ starts \in 0..MaxStarts
    /\ caller = "starting" \/ watchdog = "watching" => calls <= MaxCalls
    /\ watchdog = "watching" => caller = "running"

RuntimeInv ==
    /\ RuntimeTypes
    /\ Counting
    /\ NoProcessLeft
    /\ RunningIsWatched
    /\ Starting
    /\ caller = "running" => booted /\ spoke = "READY"

\* What is sent, whatever it is, comes after what was sent before.
LEMMA Sending ==
  ASSUME RuntimeTypes, Starting, NEW kind \in Kind, Send(kind), UNCHANGED caller
  PROVE  /\ mail' \in Seq(Kind) /\ spoke' \in {"nothing", "READY", "VIOLATION"} /\ Starting'
         /\ spoke = "READY" => spoke' = "READY"
  <1>1. /\ mail' \in Seq(Kind) /\ Len(mail) \in Nat /\ Len(mail') = Len(mail) + 1
        /\ mail'[Len(mail) + 1] = kind /\ \A i \in 1..Len(mail) : mail'[i] = mail[i]
    BY DEF Send, RuntimeTypes
  <1>2. /\ spoke' = IF spoke = "nothing" /\ kind \in {"READY", "VIOLATION"} THEN kind ELSE spoke
        /\ spoke \in {"nothing", "READY", "VIOLATION"}
    BY DEF Send, RuntimeTypes
  <1>3. RefusedFirst => RefusedFirst'
    BY <1>1 DEF RefusedFirst
  <1>4. NoReady /\ kind # "READY" => NoReady'
    BY <1>1 DEF NoReady
  <1>5. ASSUME NoReady, kind = "VIOLATION" PROVE RefusedFirst'
    <2>1. Len(mail) + 1 \in 1..Len(mail') /\ mail'[Len(mail) + 1] = "VIOLATION"
      BY <1>1, <1>5
    <2>2. \A j \in 1..(Len(mail) + 1) - 1 : mail'[j] # "READY"
      BY <1>1, <1>5 DEF NoReady
    <2>3. QED
      BY <2>1, <2>2 DEF RefusedFirst
  <1>6. QED
    BY <1>1, <1>2, <1>3, <1>4, <1>5 DEF Starting

\* A message that is read was the first of those that are left.
LEMMA Reading ==
  ASSUME RuntimeTypes, mail # << >>, mail' = Tail(mail)
  PROVE  /\ mail' \in Seq(Kind)
         /\ RefusedFirst => Head(mail) # "READY"
         /\ RefusedFirst /\ Head(mail) # "VIOLATION" => RefusedFirst'
         /\ NoReady => Head(mail) # "READY" /\ NoReady'
  <1>1. /\ mail' \in Seq(Kind) /\ Len(mail) \in Nat /\ Len(mail) > 0 /\ Len(mail') = Len(mail) - 1
        /\ Head(mail) = mail[1]
        /\ \A i \in 1..Len(mail') : mail'[i] = mail[i + 1]
    BY DEF RuntimeTypes
  <1>2. RefusedFirst => Head(mail) # "READY"
    BY <1>1 DEF RefusedFirst
  <1>3. NoReady => Head(mail) # "READY" /\ NoReady'
    BY <1>1 DEF NoReady
  <1>4. ASSUME RefusedFirst, Head(mail) # "VIOLATION"
        PROVE  RefusedFirst'
    <2>1. PICK i \in 1..Len(mail) : mail[i] = "VIOLATION" /\ \A j \in 1..i-1 : mail[j] # "READY"
      BY <1>4 DEF RefusedFirst
    <2>2. i # 1 /\ i - 1 \in 1..Len(mail') /\ mail'[i - 1] = "VIOLATION"
      BY <1>1, <1>4, <2>1
    <2>3. \A j \in 1..(i - 1) - 1 : mail'[j] # "READY"
      BY <1>1, <2>1, <2>2
    <2>4. QED
      BY <2>2, <2>3 DEF RefusedFirst
  <1>5. QED
    BY <1>1, <1>2, <1>3, <1>4

LEMMA InitRuntimeInv == RuntimeInit => RuntimeInv
  <1> SUFFICES ASSUME RuntimeInit PROVE RuntimeInv
    OBVIOUS
  <1>1. << >> \in Seq(Kind)
    OBVIOUS
  <1>2. RuntimeTypes
    BY <1>1 DEF RuntimeInit, RuntimeTypes
  <1>3. Counting
    BY PluginRuntimeAssumption DEF RuntimeInit, Counting
  <1>4. caller = "idle" /\ ~Alive
    BY DEF RuntimeInit, Alive
  <1>5. QED
    BY <1>2, <1>3, <1>4 DEF RuntimeInv, NoProcessLeft, RunningIsWatched, Starting

\* What the child does.
LEMMA ChildKeepsInv ==
  ASSUME RuntimeInv,
         \/ Boot \/ Activated \/ Obey \/ Leave \/ Die
         \/ \E kind \in Kind : Say(kind)
         \/ \E kind \in {"VIOLATION", "ERROR"} : Fail(kind)
  PROVE  RuntimeInv'
  <1>1. Counting'
    <2>1. UNCHANGED <<caller, watchdog, calls, starts>>
      BY DEF Boot, Activated, Obey, Leave, Die, Say, Fail
    <2>2. said' = said \/ (said < MaxSaid /\ said' = said + 1)
      BY DEF Boot, Activated, Obey, Leave, Die, Say, Fail
    <2>3. said' \in 0..MaxSaid
      BY <2>2, PluginRuntimeAssumption DEF RuntimeInv, Counting
    <2>4. QED
      BY <2>1, <2>3 DEF RuntimeInv, Counting
  <1>2. ASSUME NEW kind \in Kind, Send(kind),
               UNCHANGED <<caller, watchdog, asked, terminated, booted, lapsed>>,
               child' \in {"loading", "serving", "leaving", "gone"}, Alive
        PROVE  RuntimeInv'
    <2>1. /\ mail' \in Seq(Kind) /\ spoke' \in {"nothing", "READY", "VIOLATION"} /\ Starting'
          /\ spoke = "READY" => spoke' = "READY"
      BY <1>2, Sending DEF RuntimeInv
    <2>2. RuntimeTypes'
      BY <1>2, <2>1 DEF RuntimeInv, RuntimeTypes
    <2>3. NoProcessLeft' /\ RunningIsWatched'
      BY <1>2 DEF RuntimeInv, NoProcessLeft, RunningIsWatched, Alive
    <2>4. QED
      BY <1>1, <1>2, <2>1, <2>2, <2>3 DEF RuntimeInv
  <1>3. {"BOOTED", "READY", "STOPPED", "VIOLATION", "ERROR"} \subseteq Kind
    BY DEF Kind
  <1>4. CASE Boot \/ Activated \/ Leave
    BY <1>2, <1>3, <1>4 DEF Boot, Activated, Leave, Alive
  <1>5. ASSUME NEW kind \in Kind, Say(kind) PROVE RuntimeInv'
    BY <1>2, <1>5 DEF Say, PluginRuns, Alive
  <1>6. ASSUME NEW kind \in {"VIOLATION", "ERROR"}, Fail(kind) PROVE RuntimeInv'
    BY <1>2, <1>3, <1>6 DEF Fail, Alive
  <1>7. CASE Obey \/ Die
    BY <1>1, <1>7 DEF Obey, Die, RuntimeInv, RuntimeTypes, NoProcessLeft, RunningIsWatched, Alive,
          Starting, RefusedFirst, NoReady
  <1>8. QED
    BY <1>4, <1>5, <1>6, <1>7

LEMMA ReadingKeepsInv == ASSUME RuntimeInv, ReadWhileStarting PROVE RuntimeInv'
  <1>1. /\ caller = "starting" /\ mail # << >> /\ mail' = Tail(mail)
        /\ UNCHANGED <<child, asked, terminated, said, spoke, lapsed, starts>>
    BY DEF ReadWhileStarting
  <1>2. /\ mail' \in Seq(Kind)
        /\ RefusedFirst => Head(mail) # "READY"
        /\ RefusedFirst /\ Head(mail) # "VIOLATION" => RefusedFirst'
        /\ NoReady => Head(mail) # "READY" /\ NoReady'
    BY <1>1, Reading DEF RuntimeInv
  <1>3. \/ /\ Head(mail) \in {"BOOTED", "CALL"}
           /\ caller' = "starting" /\ watchdog' = watchdog /\ booted' \in BOOLEAN
        \/ /\ Head(mail) = "READY" /\ booted
           /\ caller' = "running" /\ watchdog' = "watching" /\ booted' = booted /\ calls' = calls
        \/ caller' = "failing" /\ watchdog' = watchdog /\ booted' = booted
    BY <1>1 DEF ReadWhileStarting, RuntimeInv, RuntimeTypes
  <1>4. RuntimeTypes'
    BY <1>1, <1>2, <1>3 DEF RuntimeInv, RuntimeTypes
  <1>5. calls \in Nat /\ calls <= MaxCalls /\ MaxCalls \in Nat
    BY <1>1, PluginRuntimeAssumption DEF RuntimeInv, Counting
  <1>6. \/ calls' = calls
        \/ calls' = calls + 1 /\ caller' = "failing" /\ watchdog' = watchdog
        \/ calls' = calls + 1 /\ calls < MaxCalls
    BY DEF ReadWhileStarting
  <1>7. Counting'
    BY <1>1, <1>3, <1>5, <1>6 DEF RuntimeInv, Counting
  <1>8. /\ NoProcessLeft' /\ RunningIsWatched' /\ Starting'
        /\ caller' = "running" => booted' /\ spoke' = "READY"
    <2>1. CASE caller' = "starting"
      <3>1. Head(mail) # "VIOLATION"
        BY <1>3, <2>1
      <3>2. QED
        BY <1>1, <1>2, <2>1, <3>1 DEF RuntimeInv, NoProcessLeft, RunningIsWatched, Starting
    <2>2. CASE caller' = "running"
      <3>1. Head(mail) = "READY" /\ booted /\ watchdog' = "watching" /\ booted' = booted
        BY <1>3, <2>2
      <3>2. spoke = "READY"
        BY <1>1, <1>2, <3>1 DEF RuntimeInv, RuntimeTypes, Starting
      <3>3. QED
        BY <1>1, <2>2, <3>1, <3>2 DEF NoProcessLeft, RunningIsWatched, Starting
    <2>3. CASE caller' = "failing"
      BY <2>3 DEF NoProcessLeft, RunningIsWatched, Starting
    <2>4. QED
      BY <1>3, <2>1, <2>2, <2>3
  <1>9. QED
    BY <1>4, <1>7, <1>8 DEF RuntimeInv

\* What start() and stop() do otherwise.
LEMMA CallerKeepsInv ==
  ASSUME RuntimeInv, StartPlugin \/ GiveUp \/ Abort \/ AskToStop \/ Answered \/ Join
  PROVE  RuntimeInv'
  <1>1. CASE StartPlugin
    <2>1. << >> \in Seq(Kind) /\ 0 <= MaxCalls /\ 0 \in 0 .. MaxCalls + 1 /\ 0 \in 0..MaxSaid
      BY PluginRuntimeAssumption
    <2>2. starts' \in 0..MaxStarts
      BY <1>1, PluginRuntimeAssumption DEF StartPlugin, RuntimeInv, Counting
    <2>3. /\ caller' = "starting" /\ child' = "booting" /\ watchdog' = "none" /\ calls' = 0 /\ said' = 0
          /\ spoke' = "nothing" /\ lapsed' = FALSE /\ asked' = FALSE /\ terminated' = FALSE
          /\ booted' = FALSE /\ mail' = << >>
      BY <1>1 DEF StartPlugin
    <2>4. RuntimeTypes'
      BY <2>1, <2>3 DEF RuntimeTypes
    <2>5. Counting'
      BY <2>1, <2>2, <2>3 DEF Counting
    <2>6. NoReady'
      BY <2>3 DEF NoReady
    <2>7. QED
      BY <2>3, <2>4, <2>5, <2>6 DEF RuntimeInv, NoProcessLeft, RunningIsWatched, Starting
  <1>2. CASE GiveUp \/ Abort \/ Join
    <2>1. Counting' /\ RuntimeTypes'
      BY <1>2 DEF GiveUp, Abort, Join, RuntimeInv, RuntimeTypes, Counting
    <2>2. QED
      BY <1>2, <2>1 DEF GiveUp, Abort, Join, RuntimeInv, NoProcessLeft, Alive, RunningIsWatched, Starting
  <1>3. CASE AskToStop
    <2>1. Counting' /\ RuntimeTypes'
      BY <1>3 DEF AskToStop, RuntimeInv, RuntimeTypes, Counting
    <2>2. QED
      BY <1>3, <2>1 DEF AskToStop, RuntimeInv, NoProcessLeft, RunningIsWatched, Starting
  <1>4. CASE Answered
    <2>1. /\ caller = "answer" /\ caller' = "joining" /\ terminated' \in BOOLEAN
          /\ mail' = mail \/ (mail # << >> /\ mail' = Tail(mail))
          /\ UNCHANGED <<watchdog, child, asked, booted, calls, said, spoke, lapsed, starts>>
      BY <1>4 DEF Answered, RuntimeInv, RuntimeTypes
    <2>2. mail' \in Seq(Kind)
      BY <2>1, Reading DEF RuntimeInv, RuntimeTypes
    <2>3. Counting' /\ RuntimeTypes'
      BY <2>1, <2>2 DEF RuntimeInv, RuntimeTypes, Counting
    <2>4. QED
      BY <2>1, <2>3 DEF RuntimeInv, NoProcessLeft, RunningIsWatched, Starting
  <1>5. QED
    BY <1>1, <1>2, <1>3, <1>4

\* What the watchdog does.
LEMMA WatchdogKeepsInv ==
  ASSUME RuntimeInv, Watch \/ Overuse \/ Audited
  PROVE  RuntimeInv'
  <1>1. CASE Watch
    <2>1. /\ watchdog = "watching" /\ caller = "running" /\ caller' = caller
          /\ UNCHANGED <<child, asked, terminated, booted, said, spoke, lapsed, starts>>
      BY <1>1 DEF Watch, RuntimeInv, Counting
    <2>2. \/ ~Alive /\ watchdog' = "none" /\ mail' = mail /\ calls' = calls
          \/ /\ mail # << >> /\ mail' = Tail(mail)
             /\ \/ watchdog' = "watching" /\ calls < MaxCalls /\ calls' = calls + 1
                \/ watchdog' = "auditing" /\ calls' \in {calls, calls + 1}
      BY <1>1 DEF Watch
    <2>3. mail' \in Seq(Kind)
      BY <2>2, Reading DEF RuntimeInv, RuntimeTypes
    <2>4. RuntimeTypes'
      BY <2>1, <2>2, <2>3 DEF RuntimeInv, RuntimeTypes
    <2>5. calls \in Nat /\ calls <= MaxCalls /\ MaxCalls \in Nat
      BY <2>1, PluginRuntimeAssumption DEF RuntimeInv, Counting
    <2>6. Counting'
      BY <2>1, <2>2, <2>5 DEF RuntimeInv, Counting
    <2>7. QED
      BY <2>1, <2>2, <2>4, <2>6 DEF RuntimeInv, NoProcessLeft, RunningIsWatched, Starting, Alive
  <1>2. CASE Overuse \/ Audited
    <2>1. Counting' /\ RuntimeTypes'
      BY <1>2 DEF Overuse, Audited, RuntimeInv, RuntimeTypes, Counting
    <2>2. QED
      BY <1>2, <2>1
         DEF Overuse, Audited, RuntimeInv, NoProcessLeft, RunningIsWatched, Starting, Alive,
             RefusedFirst, NoReady
  <1>3. QED
    BY <1>1, <1>2

\* The invariant holds in every state.
THEOREM RuntimeInvariant == RuntimeSpec => []RuntimeInv
  <1>1. RuntimeInv /\ [RuntimeNext]_runtimeVars => RuntimeInv'
    <2> SUFFICES ASSUME RuntimeInv, [RuntimeNext]_runtimeVars PROVE RuntimeInv'
      OBVIOUS
    <2>1. CASE RuntimeNext
      BY <2>1, ChildKeepsInv, ReadingKeepsInv, CallerKeepsInv, WatchdogKeepsInv DEF RuntimeNext
    <2>2. CASE UNCHANGED runtimeVars
      BY <2>2 DEF runtimeVars, RuntimeInv, RuntimeTypes, Counting, NoProcessLeft, Alive,
         RunningIsWatched, Starting, RefusedFirst, NoReady
    <2>3. QED
      BY <2>1, <2>2
  <1>2. QED
    BY <1>1, InitRuntimeInv, PTL DEF RuntimeSpec

\* When start() has failed or stop() has returned, no process of the plugin is left
\* (isolated_runtime.py, start and stop).
THEOREM NoProcessIsLeft == RuntimeSpec => []NoProcessLeft
  <1>1. RuntimeInv => NoProcessLeft
    BY DEF RuntimeInv
  <1>2. QED
    BY <1>1, RuntimeInvariant, PTL

\* A plugin that runs is watched, or is about to die, unless the audit of the watchdog raised
\* and ended it (isolated_runtime.py, _watch_runtime).
THEOREM RunningPluginIsWatched == RuntimeSpec => []RunningIsWatched
  <1>1. RuntimeInv => RunningIsWatched
    BY DEF RuntimeInv
  <1>2. QED
    BY <1>1, RuntimeInvariant, PTL

\* Whatever the code of a plugin sends through its connection, one of which a refusal was
\* reported before it had ever said that it was ready does not run: the refusal is read first
\* (isolated_runtime.py, start).
THEOREM RunningPluginWasClean == RuntimeSpec => []ActivationWasClean
  <1>1. RuntimeInv => ActivationWasClean
    BY DEF RuntimeInv, ActivationWasClean
  <1>2. QED
    BY <1>1, RuntimeInvariant, PTL

\* For any budget, and whatever the plugin sends, no more calls are taken than the budget and
\* the one that ends the plugin (isolated_runtime.py, _log_call).
THEOREM RuntimeTypesHold == RuntimeSpec => []RuntimeTypeOK
  <1>1. RuntimeInv => RuntimeTypeOK
    BY DEF RuntimeInv, RuntimeTypes, Counting, RuntimeTypeOK
  <1>2. QED
    BY <1>1, RuntimeInvariant, PTL

-----------------------------------------------------------------------------
(* Monitor *)

MonitorTyped ==
    /\ scheduler \in {"none", "open", "closing"}
    /\ tasks \in [Task -> Nat] /\ made \in [Task -> Nat]
    /\ queue \subseteq Instance /\ Outstanding \subseteq Instance

\* An instance that will be made is not one that is there.
MadeBefore ==
    /\ \A i \in queue \cup Outstanding : i[2] <= made[i[1]]
    /\ \A id \in Task : tasks[id] <= made[id]

SchedulerInv ==
    /\ MonitorTyped
    /\ MadeBefore
    /\ TasksKept
    /\ inflight = {KeyOf[i[1]] : i \in Outstanding}
    /\ scheduler = "none" => Outstanding = {}

\* What a handler does to its own job is nothing to the scheduler.
LEMMA HandlersWork ==
  ASSUME SchedulerInv, NEW i \in Outstanding, Handle(i), ~Rediscover(i)
  PROVE  DOMAIN jobs' = DOMAIN jobs /\ UNCHANGED <<scheduler, tasks, made, queue, inflight>>
  BY DEF Handle, Begin, Raise, Evaluate, Look, Tell, TellFails, TellDevice, Go, Work

LEMMA SchedulerUntouched ==
  ASSUME SchedulerInv, DOMAIN jobs' = DOMAIN jobs,
         UNCHANGED <<scheduler, tasks, made, queue, inflight>>
  PROVE  SchedulerInv'
  <1>1. Outstanding' = Outstanding
    BY DEF Outstanding
  <1>2. QED
    BY <1>1 DEF SchedulerInv, MonitorTyped, MadeBefore, TasksKept

LEMMA StartKeeps == ASSUME SchedulerInv, NEW plan \in SUBSET Device, Start(plan) PROVE SchedulerInv'
  <1> DEFINE chosen0 == {x \in Task : x = Discovery \/ DeviceOf[x] \in plan}
  <1>1. /\ scheduler = "none" /\ scheduler' = "open" /\ Outstanding' = {} /\ Outstanding = {}
        /\ made' = [id \in Task |-> 1] /\ inflight' = inflight
        /\ tasks' = [id \in Task |-> IF id \in chosen0 THEN 1 ELSE 0]
        /\ queue' = {<<id, 1>> : id \in chosen0}
    BY DEF Start, SchedulerInv, Outstanding
  <1>2. MonitorTyped' /\ MadeBefore'
    BY <1>1 DEF MonitorTyped, MadeBefore, Instance
  <1>3. TasksKept'
    BY <1>1 DEF TasksKept
  <1>4. QED
    BY <1>1, <1>2, <1>3 DEF SchedulerInv

LEMMA DropKeeps == ASSUME SchedulerInv, NEW i \in queue, Drop(i) PROVE SchedulerInv'
  <1>1. /\ Outstanding' = Outstanding /\ queue' = queue \ {i}
        /\ UNCHANGED <<scheduler, tasks, made, inflight>>
    BY DEF Drop, Outstanding
  <1>2. \A id \in Task : tasks[id] # 0 => <<id, tasks[id]>> # i
    BY DEF Drop, Live
  <1>3. QED
    BY <1>1, <1>2 DEF SchedulerInv, MonitorTyped, MadeBefore, TasksKept

LEMMA DispatchKeeps == ASSUME SchedulerInv, NEW i \in queue, Dispatch(i) PROVE SchedulerInv'
  <1>1. /\ Outstanding' = Outstanding \cup {i} /\ queue' = queue \ {i}
        /\ inflight' = inflight \cup {KeyOf[i[1]]} /\ KeyOf[i[1]] \notin inflight
        /\ scheduler = "open" /\ UNCHANGED <<scheduler, tasks, made>>
    BY DEF Dispatch, Due, Outstanding
  <1>2. MonitorTyped' /\ MadeBefore'
    BY <1>1 DEF SchedulerInv, MonitorTyped, MadeBefore
  <1>3. \A j \in Outstanding : KeyOf[j[1]] # KeyOf[i[1]]
    BY <1>1 DEF SchedulerInv
  <1>4. TasksKept'
    BY <1>1, <1>3 DEF SchedulerInv, TasksKept
  <1>5. inflight' = {KeyOf[j[1]] : j \in Outstanding'}
    BY <1>1 DEF SchedulerInv
  <1>6. QED
    BY <1>1, <1>2, <1>4, <1>5 DEF SchedulerInv

LEMMA RequeueKeeps == ASSUME SchedulerInv, NEW i \in Outstanding, Requeue(i) PROVE SchedulerInv'
  <1>1. /\ Outstanding' = Outstanding \ {i} /\ inflight' = inflight \ {KeyOf[i[1]]}
        /\ queue' = IF scheduler = "open" /\ Live(i) THEN queue \cup {i} ELSE queue
        /\ UNCHANGED <<scheduler, tasks, made>>
    BY DEF Requeue, Outstanding
  <1>2. MonitorTyped' /\ MadeBefore'
    BY <1>1 DEF SchedulerInv, MonitorTyped, MadeBefore
  <1>3. \A j \in Outstanding : j # i => KeyOf[j[1]] # KeyOf[i[1]]
    BY DEF SchedulerInv, TasksKept
  <1>4. \A id \in Task : tasks[id] # 0 /\ ~Live(i) => <<id, tasks[id]>> # i
    BY DEF Live
  <1>5. TasksKept'
    BY <1>1, <1>4 DEF SchedulerInv, TasksKept
  <1>6. inflight' = {KeyOf[j[1]] : j \in Outstanding'}
    BY <1>1, <1>3 DEF SchedulerInv
  <1>7. QED
    BY <1>1, <1>2, <1>5, <1>6 DEF SchedulerInv

LEMMA RediscoverKeeps == ASSUME SchedulerInv, NEW i \in Outstanding, Rediscover(i) PROVE SchedulerInv'
  <1> DEFINE gone == {id \in Check : tasks[id] # 0 /\ DeviceOf[id] \notin jobs[i].plan}
             new == {id \in Check : tasks[id] = 0 /\ DeviceOf[id] \in jobs[i].plan}
  <1>1. /\ Outstanding' = Outstanding /\ UNCHANGED <<scheduler, inflight>> /\ scheduler # "none"
        /\ made' = [id \in Task |-> IF id \in new THEN made[id] + 1 ELSE made[id]]
        /\ tasks' = [id \in Task |-> IF id \in gone THEN 0
                                     ELSE IF id \in new THEN made'[id] ELSE tasks[id]]
        /\ queue' = queue \cup {<<id, made'[id]>> : id \in new}
    BY DEF Rediscover, Outstanding, Work, SchedulerInv
  <1>2. new \subseteq Task
    BY DEF Check
  <1> HIDE DEF gone, new
  <1>3. made' \in [Task -> Nat] /\ tasks' \in [Task -> Nat]
    BY <1>1 DEF SchedulerInv, MonitorTyped
  <1>4. /\ \A id \in Task : made[id] <= made'[id] /\ (id \in new => made[id] < made'[id])
        /\ \A id \in Task : tasks'[id] <= made'[id]
    BY <1>1 DEF SchedulerInv, MonitorTyped, MadeBefore
  <1>5. queue' \subseteq Instance
    BY <1>1, <1>2, <1>3 DEF SchedulerInv, MonitorTyped, Instance
  <1>6. \A j \in queue \cup Outstanding : j[2] <= made'[j[1]] /\ j[1] \in Task
    <2>1. ASSUME NEW j \in queue \cup Outstanding PROVE j[2] <= made'[j[1]] /\ j[1] \in Task
      <3>1. j[1] \in Task /\ j[2] \in Nat /\ j[2] <= made[j[1]]
        BY DEF SchedulerInv, MonitorTyped, MadeBefore, Instance
      <3>2. made[j[1]] \in Nat /\ made'[j[1]] \in Nat /\ made[j[1]] <= made'[j[1]]
        BY <1>3, <1>4, <3>1 DEF SchedulerInv, MonitorTyped
      <3>3. QED
        BY <3>1, <3>2
    <2>2. QED
      BY <2>1
  <1>7. \A id \in new : <<id, made'[id]>> \notin Outstanding
    <2>1. ASSUME NEW id \in new, <<id, made'[id]>> \in Outstanding PROVE FALSE
      <3>1. made'[id] <= made[id]
        BY <2>1 DEF SchedulerInv, MadeBefore
      <3>2. made[id] \in Nat /\ made'[id] \in Nat /\ made[id] < made'[id]
        BY <1>2, <1>3, <1>4 DEF SchedulerInv, MonitorTyped
      <3>3. QED
        BY <3>1, <3>2
    <2>2. QED
      BY <2>1
  <1>8. MonitorTyped' /\ MadeBefore'
    <2>1. \A id \in new : made'[id] <= made'[id]
      BY <1>2, <1>3
    <2>2. QED
      BY <1>1, <1>3, <1>4, <1>5, <1>6, <2>1 DEF SchedulerInv, MonitorTyped, MadeBefore
  <1>9. TasksKept'
    <2>1. queue' \cap Outstanding' = {}
      <3>1. ASSUME NEW j \in queue', j \in Outstanding PROVE FALSE
        <4>1. CASE j \in queue
          BY <3>1, <4>1 DEF SchedulerInv, TasksKept
        <4>2. CASE \E id \in new : j = <<id, made'[id]>>
          BY <1>7, <3>1, <4>2
        <4>3. QED
          BY <1>1, <3>1, <4>1, <4>2
      <3>2. QED
        BY <1>1, <3>1
    <2>2. ASSUME scheduler = "open", NEW id \in Task, tasks'[id] # 0
          PROVE  <<id, tasks'[id]>> \in queue' \cup Outstanding'
      BY <1>1, <2>2 DEF SchedulerInv, TasksKept
    <2>3. QED
      BY <1>1, <2>1, <2>2 DEF SchedulerInv, TasksKept
  <1>10. QED
    BY <1>1, <1>8, <1>9 DEF SchedulerInv

LEMMA CloseKeeps == ASSUME SchedulerInv, Close \/ Closed \/ Crash PROVE SchedulerInv'
  <1>1. CASE Close
    <2>1. /\ Outstanding' = Outstanding /\ queue' = {} /\ tasks' = [id \in Task |-> 0]
          /\ scheduler' = "closing" /\ UNCHANGED <<made, inflight>>
      BY <1>1 DEF Close, Outstanding
    <2>2. QED
      BY <2>1 DEF SchedulerInv, MonitorTyped, MadeBefore, TasksKept
  <1>2. CASE Closed \/ Crash
    <2>1. /\ Outstanding' = {} /\ inflight' = {} /\ queue' = {} /\ scheduler' = "none"
          /\ tasks' = [id \in Task |-> 0] /\ made' = [id \in Task |-> 0]
      BY <1>2 DEF Closed, Crash, Forget, Outstanding, SchedulerInv
    <2>2. QED
      BY <2>1 DEF SchedulerInv, MonitorTyped, MadeBefore, TasksKept
  <1>3. QED
    BY <1>1, <1>2

LEMMA MonitorSteps == ASSUME SchedulerInv, [MonitorNext]_monitorVars PROVE SchedulerInv'
  <1>1. CASE UNCHANGED monitorVars
    BY <1>1, SchedulerUntouched DEF monitorVars
  <1>2. ASSUME NEW i \in Outstanding, Handle(i) PROVE SchedulerInv'
    BY <1>2, HandlersWork, SchedulerUntouched, RediscoverKeeps
  <1>3. QED
    BY <1>1, <1>2, StartKeeps, CloseKeeps, DropKeeps, DispatchKeeps, RequeueKeeps DEF MonitorNext

\* The invariant of MonitorScheduler: the keys in flight are those of the jobs with
\* the pool, and no late result passes for that of a task made since.
THEOREM SchedulerInvariant == MonitorSpec => []SchedulerInv
  <1>1. MonitorInit => SchedulerInv
    BY DEF MonitorInit, SchedulerInv, MonitorTyped, MadeBefore, TasksKept, Outstanding
  <1>2. QED
    BY <1>1, MonitorSteps, PTL DEF MonitorSpec

\* For any tasks, pool and number of discoveries, no key runs twice at a time and no task that
\* is scheduled is lost (monitor/scheduler.py, tick, _done, cancel and schedule).
THEOREM TasksAreKept == MonitorSpec => []TasksKept
  <1>1. SchedulerInv => TasksKept
    BY DEF SchedulerInv
  <1>2. QED
    BY <1>1, SchedulerInvariant, PTL

\* A monitor that has closed runs nothing, whatever was under way (monitor/scheduler.py, close).
THEOREM ClosedMonitorIsQuiet == MonitorSpec => []ClosedIsQuiet
  <1>1. SchedulerInv => ClosedIsQuiet
    BY DEF SchedulerInv, ClosedIsQuiet
  <1>2. QED
    BY <1>1, SchedulerInvariant, PTL

-----------------------------------------------------------------------------
(* Incidents *)

Flag == BOOLEAN
Label == {"waiting", "running", "told", "save", "device", "done"}
Notice == [op : {"open", "resolve"}, cause : Cause]
Job == [at : Label, todo : SUBSET Notice, found : SUBSET (Cause \X Nat), changed : BOOLEAN,
        plan : SUBSET Device]
Causes(id) == {FailedCause[id], ErrorCause[id]}

\* What the job of an instance may have to tell.
Tellable(id) ==
    {{}, {Open(ErrorCause[id])}, {Resolve(ErrorCause[id])}} \cup
    (IF id = Discovery THEN {} ELSE
        {{Resolve(ErrorCause[id]), Open(FailedCause[id])},
         {Resolve(ErrorCause[id]), Resolve(FailedCause[id])},
         {Open(OfflineCause[DeviceOf[id]])}, {Resolve(OfflineCause[DeviceOf[id]])}})

Mentions(r, c) == \E t \in r.todo : t.cause = c

JobOK(i, r) ==
    /\ r \in Job /\ IsFiniteSet(r.found)
    /\ r.todo \in Tellable(i[1])
    /\ r.at \notin {"told", "save"} => r.todo = {}
    /\ r.at = "device" => i[1] # Discovery
    /\ r.changed = TRUE => i[1] # Discovery

PresenceTyped ==
    device \in [Device -> [presence : {"unknown", "online", "offline"}, health : {"healthy", "warning"},
                           failures : Int, recoveries : Int]]

IncidentsTyped ==
    /\ incidents \subseteq Cause \X Nat /\ IsFiniteSet(incidents)
    /\ IsFiniteSet(Outstanding)
    /\ workers \in Workers /\ PresenceTyped /\ untold \subseteq Check
    /\ health = [id \in Check |-> health[id]]

JobsOK == \A i \in Outstanding : JobOK(i, jobs[i])

OneEach == \A id \in Task : \A c \in Causes(id) : \A x, y \in Opened(c) : x = y

\* What was found of the causes of a check is still all there is.
FoundOK ==
    \A i \in Outstanding : jobs[i].at = "save" => \A c \in Causes(i[1]) :
        Mentions(jobs[i], c) => {x \in jobs[i].found : x[1] = c} = Opened(c)

Matches(id) ==
    /\ health[id] = "warning" => Opened(FailedCause[id]) # {}
    /\ health[id] = "healthy" => Opened(FailedCause[id]) = {}

Telling(id) == {i \in Outstanding : i[1] = id /\ Mentions(jobs[i], FailedCause[id])}

HealthOK ==
    \A id \in Check \ Presence : OwnCause(id) =>
        /\ \A i \in Telling(id) :
              health[id] = IF Open(FailedCause[id]) \in jobs[i].todo THEN "warning" ELSE "healthy"
        /\ Telling(id) = {} => id \in untold \/ Matches(id)

\* Of each cause of a check there is one open incident at most; what a job found when it looked
\* is what is there when it saves; and the last result of a check is told, or being told, or
\* could not be.
IncidentsInv == IncidentsTyped /\ JobsOK /\ OneEach /\ FoundOK /\ HealthOK

LEMMA CausesApart ==
  /\ \A id \in Task : Causes(id) \subseteq Cause
  /\ \A id, other \in Task : Causes(id) \cap Causes(other) # {} => KeyOf[id] = KeyOf[other]
  /\ \A id, other \in Task : FailedCause[id] # ErrorCause[other]
  /\ \A id \in Task, d \in Device : OfflineCause[d] \notin Causes(id)
  /\ \A d \in Device : OfflineCause[d] \in Cause
  /\ \A id \in Check : DeviceOf[id] \in Device
  /\ Check \subseteq Task
  BY MonitorAssumption DEF Causes, Check

LEMMA TellableSets ==
  ASSUME NEW id \in Task, NEW todo \in Tellable(id)
  PROVE  /\ todo \in SUBSET Notice
         /\ \A t \in todo : t.cause \in Causes(id) \/ (id \in Check /\ t.cause = OfflineCause[DeviceOf[id]])
         /\ \A t, u \in todo : t.op = "open" /\ u.op = "open" => t = u
         /\ \A t, u \in todo : t.cause = u.cause => t = u
  <1>1. \A c \in Cause : Open(c) \in Notice /\ Resolve(c) \in Notice
    BY DEF Open, Resolve, Notice
  <1>2. \A c : /\ Open(c).op = "open" /\ Open(c).cause = c
               /\ Resolve(c).op = "resolve" /\ Resolve(c).cause = c
    BY DEF Open, Resolve
  <1>3. FailedCause[id] # ErrorCause[id] /\ FailedCause[id] \in Cause /\ ErrorCause[id] \in Cause
    BY CausesApart DEF Causes
  <1>4. id # Discovery => id \in Check /\ OfflineCause[DeviceOf[id]] \in Cause
    BY CausesApart DEF Check
  <1>5. \/ todo = {} \/ todo = {Open(ErrorCause[id])} \/ todo = {Resolve(ErrorCause[id])}
        \/ /\ id # Discovery
           /\ \/ todo = {Resolve(ErrorCause[id]), Open(FailedCause[id])}
              \/ todo = {Resolve(ErrorCause[id]), Resolve(FailedCause[id])}
              \/ todo = {Open(OfflineCause[DeviceOf[id]])}
              \/ todo = {Resolve(OfflineCause[DeviceOf[id]])}
    BY DEF Tellable
  <1>6. todo \in SUBSET Notice
    BY <1>1, <1>3, <1>4, <1>5
  <1>7. \A t \in todo : t.cause \in Causes(id) \/ (id \in Check /\ t.cause = OfflineCause[DeviceOf[id]])
    BY <1>2, <1>4, <1>5 DEF Causes
  <1>8. \A t, u \in todo : t.op = "open" /\ u.op = "open" => t = u
    BY <1>2, <1>5
  <1>9. \A t, u \in todo : t.cause = u.cause => t = u
    BY <1>2, <1>3, <1>5
  <1>10. QED
    BY <1>6, <1>7, <1>8, <1>9

LEMMA TellableShape ==
  ASSUME NEW id \in Task
  PROVE  /\ {} \in Tellable(id) /\ {Open(ErrorCause[id])} \in Tellable(id)
         /\ {Resolve(ErrorCause[id])} \in Tellable(id)
         /\ id # Discovery =>
              /\ {Resolve(ErrorCause[id]), Open(FailedCause[id])} \in Tellable(id)
              /\ {Resolve(ErrorCause[id]), Resolve(FailedCause[id])} \in Tellable(id)
              /\ {Open(OfflineCause[DeviceOf[id]])} \in Tellable(id)
              /\ {Resolve(OfflineCause[DeviceOf[id]])} \in Tellable(id)
  BY DEF Tellable

\* What a job does that tells nothing of a failure.
Silent(i, r) == JobOK(i, r) /\ r.at # "save" /\ ~Mentions(r, FailedCause[i[1]])

LEMMA SilentStep ==
  ASSUME IncidentsInv, UNCHANGED <<incidents, health, device, workers, untold>>,
         IsFiniteSet(Outstanding'),
         \A i \in Outstanding' : (i \in Outstanding /\ jobs'[i] = jobs[i]) \/ Silent(i, jobs'[i]),
         \A i \in Outstanding : Mentions(jobs[i], FailedCause[i[1]]) =>
            i \in Outstanding' /\ jobs'[i] = jobs[i]
  PROVE  IncidentsInv'
  <1>1. IncidentsTyped' /\ OneEach'
    BY DEF IncidentsInv, IncidentsTyped, PresenceTyped, OneEach, Opened
  <1>2. JobsOK'
    BY DEF IncidentsInv, JobsOK, Silent
  <1>3. \A c : Opened(c)' = Opened(c)
    BY DEF Opened
  <1>4. FoundOK'
    BY <1>3 DEF IncidentsInv, FoundOK, Silent
  <1>5. \A id \in Task : Telling(id)' = Telling(id)
    BY DEF Telling, Silent
  <1>6. \A id \in Task : \A i \in Telling(id) : jobs'[i] = jobs[i]
    BY DEF Telling
  <1>7. \A id \in Task : Matches(id)' = Matches(id)
    BY <1>3 DEF Matches
  <1>8. HealthOK'
    BY <1>5, <1>6, <1>7, CausesApart DEF IncidentsInv, HealthOK, OwnCause
  <1>9. QED
    BY <1>1, <1>2, <1>4, <1>8 DEF IncidentsInv

LEMMA WrittenJob ==
  \A label, todo, changed :
     /\ [NewJob EXCEPT !.at = label, !.todo = todo, !.changed = changed].todo = todo
     /\ [NewJob EXCEPT !.at = label, !.todo = todo, !.changed = changed].at = label
  BY DEF NewJob

\* What a worker may write of its own job.
LEMMA WorkIsJob ==
  ASSUME NEW i \in Instance, NEW label \in Label, NEW todo \in Tellable(i[1]), NEW changed \in BOOLEAN,
         label \notin {"told", "save"} => todo = {},
         label = "device" => i[1] # Discovery,
         changed = TRUE => i[1] # Discovery
  PROVE  JobOK(i, [NewJob EXCEPT !.at = label, !.todo = todo, !.changed = changed])
  <1>1. NewJob \in Job /\ NewJob.found = {}
    BY DEF NewJob, Job, Label
  <1>2. todo \in SUBSET Notice
    BY TellableSets DEF Instance
  <1>3. \A r \in Job :
          /\ [r EXCEPT !.at = label, !.todo = todo, !.changed = changed] \in Job
          /\ [r EXCEPT !.at = label, !.todo = todo, !.changed = changed].at = label
          /\ [r EXCEPT !.at = label, !.todo = todo, !.changed = changed].todo = todo
          /\ [r EXCEPT !.at = label, !.todo = todo, !.changed = changed].changed = changed
          /\ [r EXCEPT !.at = label, !.todo = todo, !.changed = changed].found = r.found
    BY <1>2 DEF Job
  <1> DEFINE worked == [NewJob EXCEPT !.at = label, !.todo = todo, !.changed = changed]
  <1>4. /\ worked \in Job /\ worked.at = label /\ worked.todo = todo
        /\ worked.changed = changed /\ worked.found = {}
    BY <1>1, <1>3
  <1> HIDE DEF worked
  <1>5. IsFiniteSet(worked.found)
    BY <1>4, FS_EmptySet
  <1>6. JobOK(i, worked)
    BY <1>4, <1>5 DEF JobOK
  <1>7. QED
    BY <1>4, <1>6 DEF worked

LEMMA OwnWork ==
  ASSUME SchedulerInv, NEW i \in Outstanding, NEW label \in Label, NEW todo \in Tellable(i[1]),
         NEW changed \in Flag, Work(i, todo, label, changed),
         label \notin {"told", "save"} => todo = {},
         label = "device" => i[1] # Discovery,
         changed = TRUE => i[1] # Discovery
  PROVE  /\ Outstanding' = Outstanding
         /\ JobOK(i, jobs'[i]) /\ jobs'[i].todo = todo /\ jobs'[i].at = label
         /\ \A j \in Outstanding : j # i => jobs'[j] = jobs[j]
  <1>1. i \in Instance
    BY DEF SchedulerInv, MonitorTyped
  <1>2. /\ Outstanding' = Outstanding
        /\ jobs'[i] = [NewJob EXCEPT !.at = label, !.todo = todo, !.changed = changed]
        /\ \A j \in Outstanding : j # i => jobs'[j] = jobs[j]
    BY DEF Work, Outstanding
  <1>3. \A c \in BOOLEAN : (c = TRUE => i[1] # Discovery) =>
              JobOK(i, [NewJob EXCEPT !.at = label, !.todo = todo, !.changed = c])
    BY <1>1, WorkIsJob
  <1>4. JobOK(i, [NewJob EXCEPT !.at = label, !.todo = todo, !.changed = changed])
    BY <1>3 DEF Flag
  <1>5. QED
    BY <1>2, <1>4, WrittenJob

LEMMA OwnGo ==
  ASSUME NEW i \in Outstanding, Outstanding \subseteq Instance, NEW label \in Label, Go(i, label),
         JobOK(i, jobs[i])
  PROVE  /\ Outstanding' = Outstanding
         /\ jobs'[i] \in Job /\ jobs'[i].at = label /\ jobs'[i].todo = jobs[i].todo
         /\ jobs'[i].found = jobs[i].found /\ jobs'[i].changed = jobs[i].changed
         /\ \A j \in Outstanding : j # i => jobs'[j] = jobs[j]
  <1>1. /\ Outstanding' = Outstanding /\ jobs'[i] = [jobs[i] EXCEPT !.at = label]
        /\ \A j \in Outstanding : j # i => jobs'[j] = jobs[j]
    BY DEF Go, Outstanding
  <1>2. \A r \in Job : /\ [r EXCEPT !.at = label] \in Job /\ [r EXCEPT !.at = label].at = label
                       /\ [r EXCEPT !.at = label].todo = r.todo /\ [r EXCEPT !.at = label].found = r.found
                       /\ [r EXCEPT !.at = label].changed = r.changed
    BY DEF Job
  <1>3. QED
    BY <1>1, <1>2 DEF JobOK

LEMMA BeginTells ==
  ASSUME SchedulerInv, IncidentsInv, NEW i \in Outstanding, NEW plan \in SUBSET Device, Begin(i, plan)
  PROVE  IncidentsInv'
  <1>1. /\ i \in Instance /\ Outstanding \subseteq Instance /\ JobOK(i, jobs[i]) /\ jobs[i].at = "waiting"
        /\ UNCHANGED <<incidents, health, device, workers, untold>>
    BY DEF SchedulerInv, MonitorTyped, IncidentsInv, JobsOK, Begin, At
  <1>2. /\ Outstanding' = Outstanding
        /\ \A j \in Outstanding : j # i => jobs'[j] = jobs[j]
        /\ jobs'[i] \in Job /\ jobs'[i].at \in {"done", "running"}
        /\ jobs'[i].todo = jobs[i].todo /\ jobs'[i].found = jobs[i].found
        /\ jobs'[i].changed = jobs[i].changed
    <2>1. CASE i[1] # Discovery /\ tasks[i[1]] = 0
      <3>1. Go(i, "done")
        BY <2>1 DEF Begin
      <3>2. "done" \in Label
        BY DEF Label
      <3>3. QED
        BY <1>1, <3>1, <3>2, OwnGo
    <2>2. CASE ~(i[1] # Discovery /\ tasks[i[1]] = 0)
      <3>1. jobs' = [jobs EXCEPT ![i].at = "running", ![i].plan = plan]
        BY <2>2 DEF Begin
      <3>2. /\ Outstanding' = Outstanding
            /\ \A j \in Outstanding : j # i => jobs'[j] = jobs[j]
            /\ jobs'[i] = [jobs[i] EXCEPT !.at = "running", !.plan = plan]
        BY <3>1 DEF Outstanding
      <3>3. \A r \in Job :
              /\ [r EXCEPT !.at = "running", !.plan = plan] \in Job
              /\ [r EXCEPT !.at = "running", !.plan = plan].at = "running"
              /\ [r EXCEPT !.at = "running", !.plan = plan].todo = r.todo
              /\ [r EXCEPT !.at = "running", !.plan = plan].found = r.found
              /\ [r EXCEPT !.at = "running", !.plan = plan].changed = r.changed
        BY DEF Job, Label
      <3>4. QED
        BY <1>1, <3>2, <3>3 DEF JobOK
    <2>3. QED
      BY <2>1, <2>2
  <1>3. jobs[i].todo = {}
    BY <1>1 DEF JobOK
  <1>4. Silent(i, jobs'[i]) /\ ~Mentions(jobs[i], FailedCause[i[1]])
    BY <1>1, <1>2, <1>3 DEF Silent, JobOK, Mentions
  <1>5. IsFiniteSet(Outstanding')
    BY <1>2 DEF IncidentsInv, IncidentsTyped
  <1>6. QED
    BY <1>1, <1>2, <1>4, <1>5, SilentStep

\* An error, and a device that is offline, are no failure of the check.
LEMMA SilentTodo ==
  ASSUME NEW i \in Instance
  PROVE  /\ \A t : t.cause = ErrorCause[i[1]] => t.cause # FailedCause[i[1]]
         /\ \A t, d \in Device : t.cause = OfflineCause[d] => t.cause # FailedCause[i[1]]
  BY CausesApart DEF Instance, Causes

\* A job that had nothing to tell is at work again, and tells nothing of a failure.
LEMMA WorkedSilently ==
  ASSUME SchedulerInv, IncidentsInv, NEW i \in Outstanding, NEW label \in Label \ {"save"},
         NEW todo \in Tellable(i[1]), NEW changed \in Flag,
         jobs[i].at \notin {"told", "save"}, Work(i, todo, label, changed),
         label # "told" => todo = {}, label = "device" => i[1] # Discovery,
         changed = TRUE => i[1] # Discovery,
         \A t \in todo : t.cause # FailedCause[i[1]],
         UNCHANGED <<incidents, health, device, workers, untold>>
  PROVE  IncidentsInv'
  <1>1. /\ i \in Instance /\ Outstanding \subseteq Instance /\ JobOK(i, jobs[i])
    BY DEF SchedulerInv, MonitorTyped, IncidentsInv, JobsOK
  <1>2. label \in Label /\ (label \notin {"told", "save"} => todo = {})
    OBVIOUS
  <1>3. /\ Outstanding' = Outstanding
        /\ JobOK(i, jobs'[i]) /\ jobs'[i].todo = todo /\ jobs'[i].at = label
        /\ \A j \in Outstanding : j # i => jobs'[j] = jobs[j]
    BY <1>2, OwnWork
  <1>4. Silent(i, jobs'[i]) /\ ~Mentions(jobs[i], FailedCause[i[1]])
    BY <1>1, <1>3 DEF Silent, JobOK, Mentions
  <1>5. IsFiniteSet(Outstanding')
    BY <1>3 DEF IncidentsInv, IncidentsTyped
  <1>6. QED
    BY <1>3, <1>4, <1>5, SilentStep

LEMMA RaiseTells ==
  ASSUME SchedulerInv, IncidentsInv, NEW i \in Outstanding, Raise(i) \/ Rediscover(i)
  PROVE  IncidentsInv'
  <1>1. i \in Instance /\ i[1] \in Task
    BY DEF SchedulerInv, MonitorTyped, Instance
  <1>2. PICK todo \in {{Open(ErrorCause[i[1]])}, {Resolve(ErrorCause[i[1]])}} :
            /\ Work(i, todo, "told", FALSE) /\ jobs[i].at = "running"
            /\ UNCHANGED <<incidents, health, device, workers, untold>>
    BY DEF Raise, Rediscover, At
  <1>3. todo \in Tellable(i[1])
    BY <1>1, <1>2, TellableShape
  <1>4. \A t \in todo : t.cause # FailedCause[i[1]]
    BY <1>1, <1>2, CausesApart DEF Open, Resolve
  <1>5. QED
    BY <1>2, <1>3, <1>4, WorkedSilently DEF Label, Flag

LEMMA TellDeviceTells ==
  ASSUME SchedulerInv, IncidentsInv, NEW i \in Outstanding, TellDevice(i)
  PROVE  IncidentsInv'
  <1>1. /\ i \in Instance /\ i[1] \in Task /\ jobs[i].at = "device" /\ JobOK(i, jobs[i])
        /\ Outstanding \subseteq Instance
        /\ UNCHANGED <<incidents, health, device, workers, untold>>
    BY DEF SchedulerInv, MonitorTyped, Instance, IncidentsInv, JobsOK, TellDevice, At
  <1>2. i[1] # Discovery /\ DeviceOf[i[1]] \in Device /\ jobs[i].todo = {}
    BY <1>1, CausesApart DEF JobOK, Check
  <1>3. CASE Go(i, "done")
    <2>1. /\ Outstanding' = Outstanding
          /\ jobs'[i] \in Job /\ jobs'[i].at = "done" /\ jobs'[i].todo = {}
          /\ jobs'[i].found = jobs[i].found /\ jobs'[i].changed = jobs[i].changed
          /\ \A j \in Outstanding : j # i => jobs'[j] = jobs[j]
      BY <1>1, <1>2, <1>3, OwnGo DEF Label
    <2>2. Silent(i, jobs'[i]) /\ ~Mentions(jobs[i], FailedCause[i[1]])
      BY <1>1, <1>2, <2>1, TellableShape DEF Silent, JobOK, Mentions
    <2>3. IsFiniteSet(Outstanding')
      BY <2>1 DEF IncidentsInv, IncidentsTyped
    <2>4. QED
      BY <1>1, <2>1, <2>2, <2>3, SilentStep
  <1>4. ASSUME NEW todo \in {{Open(OfflineCause[DeviceOf[i[1]]])}, {Resolve(OfflineCause[DeviceOf[i[1]]])}},
               Work(i, todo, "told", FALSE)
        PROVE  IncidentsInv'
    <2>1. todo \in Tellable(i[1])
      BY <1>1, <1>2, <1>4, TellableShape
    <2>2. \A t \in todo : t.cause # FailedCause[i[1]]
      BY <1>1, <1>2, <1>4, CausesApart DEF Open, Resolve, Causes
    <2>3. QED
      BY <1>1, <1>4, <2>1, <2>2, WorkedSilently DEF Label, Flag
  <1>5. QED
    BY <1>3, <1>4 DEF TellDevice

LEMMA DispatchTells ==
  ASSUME SchedulerInv, IncidentsInv, NEW i \in queue, Dispatch(i)
  PROVE  IncidentsInv'
  <1>1. /\ Outstanding' = Outstanding \cup {i} /\ i \notin Outstanding
        /\ jobs'[i] = NewJob /\ \A j \in Outstanding : jobs'[j] = jobs[j]
        /\ UNCHANGED <<incidents, health, device, workers, untold>>
    BY DEF Dispatch, Outstanding, SchedulerInv, TasksKept
  <1>2. i \in Instance /\ i[1] \in Task
    BY DEF SchedulerInv, MonitorTyped, Instance
  <1>3. NewJob \in Job /\ NewJob.todo = {} /\ NewJob.found = {} /\ NewJob.at = "waiting"
        /\ NewJob.changed = FALSE
    BY DEF NewJob, Job, Label
  <1>4. Silent(i, NewJob)
    BY <1>2, <1>3, TellableShape, FS_EmptySet DEF Silent, JobOK, Mentions
  <1>5. IsFiniteSet(Outstanding')
    BY <1>1, FS_AddElement DEF IncidentsInv, IncidentsTyped
  <1>6. QED
    BY <1>1, <1>4, <1>5, SilentStep

LEMMA RequeueTells ==
  ASSUME SchedulerInv, IncidentsInv, NEW i \in Outstanding, Requeue(i)
  PROVE  IncidentsInv'
  <1>1. /\ Outstanding' = Outstanding \ {i} /\ \A j \in Outstanding' : jobs'[j] = jobs[j]
        /\ jobs[i].at = "done" /\ UNCHANGED <<incidents, health, device, workers, untold>>
    BY DEF Requeue, Outstanding
  <1>2. ~Mentions(jobs[i], FailedCause[i[1]])
    BY <1>1 DEF IncidentsInv, JobsOK, JobOK, Mentions
  <1>3. IsFiniteSet(Outstanding')
    BY <1>1, FS_RemoveElement DEF IncidentsInv, IncidentsTyped
  <1>4. QED
    BY <1>1, <1>2, <1>3, SilentStep

LEMMA QueueTells ==
  ASSUME SchedulerInv, IncidentsInv, (\E i \in queue : Drop(i)) \/ (\E plan \in SUBSET Device : Start(plan))
  PROVE  IncidentsInv'
  <1>1. jobs' = jobs /\ UNCHANGED <<incidents, health, device, workers, untold>>
    BY DEF Drop, Start
  <1>2. Outstanding' = Outstanding
    BY <1>1 DEF Outstanding
  <1>3. QED
    BY <1>1, <1>2, SilentStep DEF IncidentsInv, IncidentsTyped

LEMMA CloseTells ==
  ASSUME SchedulerInv, IncidentsInv, Close
  PROVE  IncidentsInv'
  <1>1. /\ Outstanding' = Outstanding
        /\ \A j \in Outstanding : jobs'[j] = IF jobs[j].at # "waiting" THEN jobs[j]
              ELSE [NewJob EXCEPT !.at = "told", !.todo = {Open(ErrorCause[j[1]])}]
        /\ UNCHANGED <<incidents, health, device, workers, untold>>
    BY DEF Close, Outstanding
  <1>2. ASSUME NEW j \in Outstanding, jobs[j].at = "waiting"
        PROVE  Silent(j, jobs'[j]) /\ ~Mentions(jobs[j], FailedCause[j[1]])
    <2> DEFINE worked == [NewJob EXCEPT !.at = "told", !.todo = {Open(ErrorCause[j[1]])}]
    <2>1. j \in Instance /\ j[1] \in Task
      BY DEF SchedulerInv, MonitorTyped, Instance
    <2>2. {Open(ErrorCause[j[1]])} \in Tellable(j[1]) /\ {Open(ErrorCause[j[1]])} \in SUBSET Notice
      BY <2>1, TellableShape, TellableSets
    <2>3. NewJob \in Job /\ NewJob.found = {} /\ NewJob.changed = FALSE
      BY DEF NewJob, Job, Label
    <2>4. \A r \in Job : \A todo \in SUBSET Notice :
              /\ [r EXCEPT !.at = "told", !.todo = todo] \in Job
              /\ [r EXCEPT !.at = "told", !.todo = todo].at = "told"
              /\ [r EXCEPT !.at = "told", !.todo = todo].todo = todo
              /\ [r EXCEPT !.at = "told", !.todo = todo].found = r.found
              /\ [r EXCEPT !.at = "told", !.todo = todo].changed = r.changed
      BY DEF Job, Label
    <2>5. /\ worked \in Job /\ worked.at = "told" /\ worked.todo = {Open(ErrorCause[j[1]])}
          /\ worked.found = {} /\ worked.changed = FALSE
      BY <2>2, <2>3, <2>4
    <2>6. jobs'[j] = worked
      BY <1>1, <1>2
    <2> HIDE DEF worked
    <2>7. ~Mentions(worked, FailedCause[j[1]])
      BY <2>1, <2>5, CausesApart DEF Mentions, Open
    <2>8. JobOK(j, worked)
      BY <2>2, <2>5, FS_EmptySet DEF JobOK
    <2>9. jobs[j].todo = {}
      BY <1>2 DEF IncidentsInv, JobsOK, JobOK
    <2>10. QED
      BY <2>5, <2>6, <2>7, <2>8, <2>9 DEF Silent, Mentions
  <1>3. IsFiniteSet(Outstanding')
    BY <1>1 DEF IncidentsInv, IncidentsTyped
  <1>4. QED
    BY <1>1, <1>2, <1>3, SilentStep

LEMMA ForgetTells ==
  ASSUME SchedulerInv, IncidentsInv, Closed \/ Crash
  PROVE  IncidentsInv'
  <1>1. /\ Outstanding' = {} /\ health' = [id \in Check |-> "none"] /\ untold' = {}
        /\ UNCHANGED <<incidents, device, workers>>
    BY DEF Closed, Crash, Forget, Outstanding, SchedulerInv
  <1>2. IncidentsTyped' /\ OneEach'
    BY <1>1, FS_EmptySet DEF IncidentsInv, IncidentsTyped, PresenceTyped, OneEach, Opened
  <1>3. JobsOK' /\ FoundOK'
    BY <1>1 DEF JobsOK, FoundOK
  <1>4. HealthOK'
    BY <1>1 DEF HealthOK, Telling, Matches
  <1>5. QED
    BY <1>2, <1>3, <1>4 DEF IncidentsInv

\* Look: what is found of a cause is all that is open of it.
LEMMA LookTells ==
  ASSUME SchedulerInv, IncidentsInv, NEW i \in Outstanding, Look(i)
  PROVE  IncidentsInv'
  <1> DEFINE first(c) == {x \in incidents : x[1] = c /\ \A y \in incidents : y[1] = c => x[2] <= y[2]}
             all == UNION {first(t.cause) : t \in jobs[i].todo}
  <1>1. /\ i \in Instance /\ i[1] \in Task /\ JobOK(i, jobs[i]) /\ jobs[i].at = "told"
        /\ UNCHANGED <<incidents, health, device, workers, untold>>
        /\ jobs' = [jobs EXCEPT ![i].at = "save", ![i].found = all]
    BY DEF SchedulerInv, MonitorTyped, Instance, IncidentsInv, JobsOK, Look, At
  <1>2. /\ all \subseteq incidents
        /\ \A c : Mentions(jobs[i], c) => {x \in all : x[1] = c} = first(c)
    BY DEF Mentions
  <1>3. ASSUME NEW c \in Causes(i[1]) PROVE first(c) = Opened(c)
    <2>1. \A x, y \in incidents : x[1] = c /\ y[1] = c => x = y
      BY <1>1, <1>3 DEF IncidentsInv, OneEach, Opened
    <2>2. \A x \in incidents : x[2] \in Nat
      BY DEF IncidentsInv, IncidentsTyped
    <2>3. \A x, y \in incidents : x[1] = c /\ y[1] = c => x[2] <= y[2]
      BY <2>1, <2>2
    <2>4. QED
      BY <2>3 DEF Opened
  <1>4. all \in SUBSET (Cause \X Nat) /\ IsFiniteSet(all)
    BY <1>2, FS_Subset DEF IncidentsInv, IncidentsTyped
  <1>5. \A c \in Causes(i[1]) : Mentions(jobs[i], c) => {x \in all : x[1] = c} = Opened(c)
    BY <1>2, <1>3
  <1> HIDE DEF all, first
  <1>6. /\ Outstanding' = Outstanding
        /\ jobs'[i] = [jobs[i] EXCEPT !.at = "save", !.found = all]
        /\ \A j \in Outstanding : j # i => jobs'[j] = jobs[j]
    BY <1>1 DEF Outstanding
  <1>7. \A r \in Job : /\ [r EXCEPT !.at = "save", !.found = all] \in Job
                       /\ [r EXCEPT !.at = "save", !.found = all].at = "save"
                       /\ [r EXCEPT !.at = "save", !.found = all].found = all
                       /\ [r EXCEPT !.at = "save", !.found = all].todo = r.todo
                       /\ [r EXCEPT !.at = "save", !.found = all].changed = r.changed
    BY <1>4 DEF Job, Label
  <1>8. /\ jobs'[i] \in Job /\ jobs'[i].at = "save" /\ jobs'[i].found = all
        /\ jobs'[i].todo = jobs[i].todo /\ jobs'[i].changed = jobs[i].changed
    BY <1>1, <1>6, <1>7 DEF JobOK
  <1>9. JobsOK'
    BY <1>1, <1>4, <1>6, <1>8 DEF IncidentsInv, JobsOK, JobOK
  <1>10. IncidentsTyped' /\ OneEach'
    BY <1>1, <1>6 DEF IncidentsInv, IncidentsTyped, PresenceTyped, OneEach, Opened
  <1>11. \A c : Opened(c)' = Opened(c)
    BY <1>1 DEF Opened
  <1>12. \A j \in Outstanding : \A c : Mentions(jobs'[j], c) <=> Mentions(jobs[j], c)
    BY <1>6, <1>8 DEF Mentions
  <1>13. FoundOK'
    <2>1. ASSUME NEW j \in Outstanding, jobs'[j].at = "save", NEW c \in Causes(j[1]),
                 Mentions(jobs'[j], c)
          PROVE  {x \in jobs'[j].found : x[1] = c} = Opened(c)
      <3>1. CASE j = i
        BY <1>5, <1>8, <1>12, <2>1, <3>1
      <3>2. CASE j # i
        BY <1>6, <2>1, <3>2 DEF IncidentsInv, FoundOK
      <3>3. QED
        BY <3>1, <3>2
    <2>2. QED
      BY <1>6, <1>11, <2>1 DEF FoundOK
  <1>14. \A id \in Task : Telling(id)' = Telling(id) /\ Matches(id)' = Matches(id)
    BY <1>1, <1>6, <1>11, <1>12 DEF Telling, Matches
  <1>15. \A j \in Outstanding : jobs'[j].todo = jobs[j].todo
    BY <1>6, <1>8
  <1>16. HealthOK'
    <2>1. ASSUME NEW id \in Check \ Presence, OwnCause(id)
          PROVE  /\ \A j \in Telling(id)' : health'[id] =
                       IF Open(FailedCause[id]) \in jobs'[j].todo THEN "warning" ELSE "healthy"
                 /\ Telling(id)' = {} => id \in untold' \/ Matches(id)'
      <3>1. /\ id \in Task /\ Telling(id)' = Telling(id) /\ Telling(id) \subseteq Outstanding
            /\ Matches(id)' = Matches(id)
        BY <1>14, CausesApart DEF Telling
      <3>2. QED
        BY <1>1, <1>15, <2>1, <3>1 DEF IncidentsInv, HealthOK
    <2>2. QED
      BY <2>1 DEF HealthOK, OwnCause
  <1>17. QED
    BY <1>9, <1>10, <1>13, <1>16 DEF IncidentsInv

LEMMA IncidentIsNew ==
  ASSUME IncidentsInv, NEW c \in Cause
  PROVE  New(c) \in Cause \X Nat /\ New(c)[1] = c
  <1> DEFINE known == incidents \cup UNION {jobs[j].found : j \in Outstanding}
             n == Cardinality(known)
  <1>1. IsFiniteSet(known)
    <2>1. IsFiniteSet({jobs[j].found : j \in Outstanding})
      <3> DEFINE foundBy == [j \in Outstanding |-> jobs[j].found]
      <3>1. IsFiniteSet(Outstanding)
        BY DEF IncidentsInv, IncidentsTyped
      <3>2. foundBy \in Surjection(Outstanding, {jobs[j].found : j \in Outstanding})
        BY DEF Surjection
      <3>3. QED
        BY <3>1, <3>2, FS_Surjection
    <2>2. \A found \in {jobs[j].found : j \in Outstanding} : IsFiniteSet(found)
      BY DEF IncidentsInv, JobsOK, JobOK
    <2>3. IsFiniteSet(UNION {jobs[j].found : j \in Outstanding})
      BY <2>1, <2>2, FS_UNION
    <2>4. QED
      BY <2>3, FS_Union DEF IncidentsInv, IncidentsTyped
  <1>2. n \in Nat
    BY <1>1, FS_CardinalityType
  <1> DEFINE number == CHOOSE x \in 1 .. n + 1 : <<c, x>> \notin known
  <1>3. New(c) = <<c, number>>
    BY DEF New
  <1> HIDE DEF known
  <1>4. \E x \in 1 .. n + 1 : <<c, x>> \notin known
    <2>1. SUFFICES ASSUME \A x \in 1 .. n + 1 : <<c, x>> \in known PROVE FALSE
      OBVIOUS
    <2> DEFINE pair == [x \in 1 .. n + 1 |-> <<c, x>>]
    <2>2. IsFiniteSet(1 .. n + 1) /\ Cardinality(known) < Cardinality(1 .. n + 1)
      BY <1>2, FS_Interval
    <2>3. pair \in [1 .. n + 1 -> known]
      BY <2>1
    <2>4. \E x, y \in 1 .. n + 1 : x # y /\ pair[x] = pair[y]
      BY <1>1, <2>2, <2>3, FS_PigeonHole
    <2>5. QED
      BY <2>4
  <1>5. number \in 1 .. n + 1
    BY <1>4
  <1> HIDE DEF number, n
  <1>6. number \in Nat
    BY <1>2, <1>5
  <1>7. QED
    BY <1>3, <1>6

\* What is told, of what a job has to tell, changes the open incidents cause by cause.
LEMMA TellOpens ==
  ASSUME SchedulerInv, IncidentsInv, NEW i \in Outstanding, jobs[i].at = "save",
         NEW told \in SUBSET jobs[i].todo, SaveIncidents(i, told)
  PROVE  /\ incidents' \subseteq Cause \X Nat /\ IsFiniteSet(incidents')
         /\ \A c : (\A t \in told : t.cause # c) => Opened(c)' = Opened(c)
         /\ \A c \in Causes(i[1]) :
               /\ Open(c) \in told =>
                     \/ Opened(c) # {} /\ Opened(c)' = Opened(c)
                     \/ Opened(c)' = {New(c)}
               /\ Resolve(c) \in told => Opened(c)' = {}
         /\ \A t \in jobs[i].todo : t = Open(t.cause) \/ t = Resolve(t.cause)
  <1> DEFINE todo == jobs[i].todo
             found == jobs[i].found
             resolved == {x \in found : Resolve(x[1]) \in told}
             missing == {t \in told : t.op = "open" /\ \A x \in found : x[1] # t.cause}
             made0 == {New(t.cause) : t \in missing}
  <1>1. incidents' = (incidents \ resolved) \cup made0 /\ jobs[i].at = "save"
    BY DEF SaveIncidents
  <1>2. i[1] \in Task /\ todo \in Tellable(i[1]) /\ todo \in SUBSET Notice
    BY TellableSets DEF SchedulerInv, MonitorTyped, Instance, IncidentsInv, JobsOK, JobOK
  <1>3. /\ \A t, u \in todo : t.op = "open" /\ u.op = "open" => t = u
        /\ \A t, u \in todo : t.cause = u.cause => t = u
    BY <1>2, TellableSets
  <1>4. \A c \in Causes(i[1]) : Mentions(jobs[i], c) => {x \in found : x[1] = c} = Opened(c)
    BY <1>1 DEF IncidentsInv, FoundOK
  <1>5. \A t \in todo : (t.op = "open" => t = Open(t.cause)) /\ (t.op # "open" => t = Resolve(t.cause))
    BY <1>2 DEF Notice, Open, Resolve
  <1>6. \A c : /\ Open(c).op = "open" /\ Open(c).cause = c
               /\ Resolve(c).op # "open" /\ Resolve(c).cause = c
    BY DEF Open, Resolve
  <1>7. \A t \in todo : New(t.cause) \in Cause \X Nat /\ New(t.cause)[1] = t.cause
    BY <1>2, IncidentIsNew DEF Notice
  <1>8. missing \subseteq todo /\ missing \subseteq told /\ \A t, u \in missing : t = u
    BY <1>3
  <1>9. made0 \subseteq Cause \X Nat /\ IsFiniteSet(made0)
    <2>1. CASE missing = {}
      BY <2>1, FS_EmptySet
    <2>2. CASE missing # {}
      <3>1. PICK t \in missing : TRUE
        BY <2>2
      <3>2. made0 = {New(t.cause)}
        BY <1>8, <3>1
      <3>3. New(t.cause) \in Cause \X Nat
        BY <1>7, <1>8, <3>1
      <3>4. IsFiniteSet(made0)
        BY <3>2, FS_Singleton
      <3>5. QED
        BY <3>2, <3>3, <3>4
    <2>3. QED
      BY <2>1, <2>2
  <1>10. incidents' \subseteq Cause \X Nat /\ IsFiniteSet(incidents')
    <2>1. IsFiniteSet(incidents \ resolved)
      BY FS_Subset DEF IncidentsInv, IncidentsTyped
    <2>2. QED
      BY <1>1, <1>9, <2>1, FS_Union DEF IncidentsInv, IncidentsTyped
  <1>11. /\ \A x \in resolved : x \in found /\ Resolve(x[1]) \in told
         /\ \A x \in made0 : \E t \in missing : x = New(t.cause) /\ x[1] = t.cause
    BY <1>7
  <1>12. ASSUME NEW c, \A t \in told : t.cause # c PROVE Opened(c)' = Opened(c)
    <2>1. \A x \in resolved \cup made0 : x[1] # c
      BY <1>6, <1>8, <1>11, <1>12
    <2>2. QED
      BY <1>1, <2>1 DEF Opened
  <1>13. ASSUME NEW c \in Causes(i[1]), Open(c) \in told
         PROVE  \/ Opened(c) # {} /\ Opened(c)' = Opened(c)
                \/ Opened(c)' = {New(c)}
    <2>1. Mentions(jobs[i], c) /\ Resolve(c) \notin todo
      BY <1>3, <1>6, <1>13 DEF Mentions
    <2>2. \A x \in resolved : x[1] # c
      BY <1>11, <2>1
    <2>3. {x \in found : x[1] = c} = Opened(c)
      BY <1>4, <2>1
    <2>4. CASE Opened(c) = {}
      <3>1. Open(c) \in missing
        BY <1>6, <1>13, <2>3, <2>4
      <3>2. made0 = {New(c)} /\ New(c)[1] = c
        BY <1>6, <1>7, <1>8, <1>13, <3>1
      <3>3. QED
        BY <1>1, <2>4, <3>2 DEF Opened
    <2>5. CASE Opened(c) # {}
      <3>1. \A t \in missing : t.cause # c
        BY <2>3, <2>5
      <3>2. \A x \in made0 : x[1] # c
        BY <1>11, <3>1
      <3>3. QED
        BY <1>1, <2>2, <2>5, <3>2 DEF Opened
    <2>6. QED
      BY <2>4, <2>5
  <1>14. ASSUME NEW c \in Causes(i[1]), Resolve(c) \in told PROVE Opened(c)' = {}
    <2>1. Mentions(jobs[i], c) /\ \A t \in todo : t.cause = c => t.op # "open"
      BY <1>3, <1>6, <1>14 DEF Mentions
    <2>2. \A x \in Opened(c) : x \in resolved
      BY <1>4, <1>14, <2>1 DEF Opened
    <2>3. \A x \in made0 : x[1] # c
      BY <1>11, <2>1
    <2>4. QED
      BY <1>1, <2>2, <2>3 DEF Opened
  <1>15. QED
    BY <1>5, <1>10, <1>12, <1>13, <1>14

\* Two jobs tell of no cause in common, but for a device that is offline.
LEMMA TellApart ==
  ASSUME SchedulerInv, IncidentsInv, NEW i \in Outstanding, NEW j \in Outstanding, j # i,
         NEW c \in Causes(j[1])
  PROVE  ~Mentions(jobs[i], c)
  <1>1. i[1] \in Task /\ j[1] \in Task /\ KeyOf[i[1]] # KeyOf[j[1]]
    BY DEF SchedulerInv, MonitorTyped, Instance, TasksKept
  <1>2. jobs[i].todo \in Tellable(i[1])
    BY DEF IncidentsInv, JobsOK, JobOK
  <1>3. \A t \in jobs[i].todo :
            t.cause \in Causes(i[1]) \/ (i[1] \in Check /\ t.cause = OfflineCause[DeviceOf[i[1]]])
    BY <1>1, <1>2, TellableSets
  <1>4. c \notin Causes(i[1]) /\ (i[1] \in Check => c # OfflineCause[DeviceOf[i[1]]])
    BY <1>1, CausesApart
  <1>5. QED
    BY <1>3, <1>4 DEF Mentions

\* A failure is told by the check that owns its cause.
LEMMA TellOwn ==
  ASSUME SchedulerInv, IncidentsInv, NEW i \in Outstanding, NEW id \in Check, OwnCause(id),
         Mentions(jobs[i], FailedCause[id])
  PROVE  i[1] = id
  <1>1. i[1] \in Task /\ id \in Task
    BY CausesApart DEF SchedulerInv, MonitorTyped, Instance
  <1>2. jobs[i].todo \in Tellable(i[1])
    BY DEF IncidentsInv, JobsOK, JobOK
  <1>3. \A t \in jobs[i].todo :
            t.cause \in Causes(i[1]) \/ (i[1] \in Check /\ t.cause = OfflineCause[DeviceOf[i[1]]])
    BY <1>1, <1>2, TellableSets
  <1>4. /\ i[1] \in Check => FailedCause[id] # OfflineCause[DeviceOf[i[1]]]
        /\ FailedCause[id] # ErrorCause[i[1]]
        /\ i[1] # id => FailedCause[id] # FailedCause[i[1]]
    BY <1>1, CausesApart DEF OwnCause, Causes
  <1>5. QED
    BY <1>3, <1>4 DEF Mentions, Causes

\* A job tells what it has to tell, or a part of it, and goes on with no failure to tell.
LEMMA SavingTells ==
  ASSUME SchedulerInv, IncidentsInv, NEW i \in Outstanding, jobs[i].at = "save",
         NEW told \in SUBSET jobs[i].todo, SaveIncidents(i, told),
         UNCHANGED <<health, device, workers>>, untold \subseteq untold', untold' \subseteq Check,
         \A t \in jobs[i].todo \ told : t.cause = FailedCause[i[1]] => i[1] \in untold',
         Outstanding' = Outstanding, JobOK(i, jobs'[i]), jobs'[i].at # "save",
         ~Mentions(jobs'[i], FailedCause[i[1]]),
         \A j \in Outstanding : j # i => jobs'[j] = jobs[j]
  PROVE  IncidentsInv'
  <1> DEFINE todo == jobs[i].todo
  <1>1. /\ i \in Instance /\ i[1] \in Task /\ JobOK(i, jobs[i])
    BY DEF SchedulerInv, MonitorTyped, Instance, IncidentsInv, JobsOK
  <1>2. /\ incidents' \subseteq Cause \X Nat /\ IsFiniteSet(incidents')
        /\ \A c : (\A t \in told : t.cause # c) => Opened(c)' = Opened(c)
        /\ \A c \in Causes(i[1]) :
              /\ Open(c) \in told =>
                    \/ Opened(c) # {} /\ Opened(c)' = Opened(c)
                    \/ Opened(c)' = {New(c)}
              /\ Resolve(c) \in told => Opened(c)' = {}
        /\ \A t \in todo : t = Open(t.cause) \/ t = Resolve(t.cause)
    BY TellOpens
  <1>3. \A c : ~Mentions(jobs[i], c) => Opened(c)' = Opened(c)
    BY <1>2 DEF Mentions
  <1>4. IncidentsTyped' /\ JobsOK'
    BY <1>2 DEF IncidentsInv, IncidentsTyped, PresenceTyped, JobsOK
  <1>5. OneEach'
    <2>1. ASSUME NEW id \in Task, NEW c \in Causes(id), NEW x \in Opened(c)', NEW y \in Opened(c)'
          PROVE  x = y
      <3>1. \A u, v \in Opened(c) : u = v
        BY DEF IncidentsInv, OneEach
      <3>2. CASE \A t \in told : t.cause # c
        BY <1>2, <2>1, <3>1, <3>2
      <3>3. ASSUME NEW t \in told, t.cause = c
            PROVE  x = y
        <4>1. c \in Causes(i[1])
          <5>1. t.cause \in Causes(i[1]) \/ (i[1] \in Check /\ t.cause = OfflineCause[DeviceOf[i[1]]])
            BY <1>1, <3>3, TellableSets DEF JobOK
          <5>2. i[1] \in Check => c # OfflineCause[DeviceOf[i[1]]]
            BY CausesApart
          <5>3. QED
            BY <3>3, <5>1, <5>2
        <4>2. \/ Opened(c)' = Opened(c) \/ Opened(c)' = {New(c)} \/ Opened(c)' = {}
          BY <1>2, <3>3, <4>1
        <4>3. QED
          BY <2>1, <3>1, <4>2
      <3>4. QED
        BY <3>2, <3>3
    <2>2. QED
      BY <2>1 DEF OneEach
  <1>6. FoundOK'
    <2>1. ASSUME NEW j \in Outstanding, jobs'[j].at = "save", NEW c \in Causes(j[1]),
                 Mentions(jobs'[j], c)
          PROVE  {x \in jobs'[j].found : x[1] = c} = Opened(c)'
      <3>1. j # i /\ jobs'[j] = jobs[j]
        BY <2>1
      <3>2. Opened(c)' = Opened(c)
        BY <1>3, <3>1, TellApart
      <3>3. QED
        BY <2>1, <3>1, <3>2 DEF IncidentsInv, FoundOK
    <2>2. QED
      BY <2>1 DEF FoundOK
  <1>7. HealthOK'
    <2>1. ASSUME NEW id \in Check \ Presence, OwnCause(id)
          PROVE  /\ \A j \in Telling(id)' : health'[id] =
                       IF Open(FailedCause[id]) \in jobs'[j].todo THEN "warning" ELSE "healthy"
                 /\ Telling(id)' = {} => id \in untold' \/ Matches(id)'
      <3>1. i \notin Telling(id)' /\ \A j \in Telling(id)' : j \in Telling(id) /\ jobs'[j] = jobs[j]
        BY DEF Telling
      <3>2. \A j \in Telling(id) : health[id] =
                IF Open(FailedCause[id]) \in jobs[j].todo THEN "warning" ELSE "healthy"
        BY <2>1 DEF IncidentsInv, HealthOK
      <3>3. CASE Mentions(jobs[i], FailedCause[id])
        <4>1. i[1] = id /\ i \in Telling(id) /\ FailedCause[id] \in Causes(i[1])
          BY <2>1, <3>3, TellOwn DEF Telling, Causes
        <4>2. CASE \E t \in todo \ told : t.cause = FailedCause[id]
          BY <3>1, <3>2, <4>1, <4>2
        <4>3. CASE \A t \in todo : t.cause = FailedCause[id] => t \in told
          <5>1. PICK t \in told : t.cause = FailedCause[id]
            BY <3>3, <4>3 DEF Mentions
          <5>2. \A u \in todo : u.cause = FailedCause[id] => u = t
            BY <1>1, <5>1, TellableSets DEF JobOK
          <5>3. /\ Open(FailedCause[id]).cause = FailedCause[id]
                /\ Open(FailedCause[id]) # Resolve(FailedCause[id])
            BY DEF Open, Resolve
          <5>4. CASE t = Open(FailedCause[id])
            <6>1. health'[id] = "warning" /\ Opened(FailedCause[id])' # {}
              BY <1>2, <3>2, <4>1, <5>1, <5>4
            <6>2. QED
              BY <3>1, <3>2, <6>1 DEF Matches
          <5>5. CASE t = Resolve(FailedCause[id])
            <6>1. health'[id] = "healthy" /\ Opened(FailedCause[id])' = {}
              BY <1>2, <3>2, <4>1, <5>1, <5>2, <5>3, <5>5
            <6>2. QED
              BY <3>1, <3>2, <6>1 DEF Matches
          <5>6. QED
            BY <1>2, <5>1, <5>4, <5>5
        <4>4. QED
          BY <4>2, <4>3
      <3>4. CASE ~Mentions(jobs[i], FailedCause[id])
        <4>1. Opened(FailedCause[id])' = Opened(FailedCause[id]) /\ i \notin Telling(id)
          BY <1>3, <3>4 DEF Telling
        <4>2. Matches(id)' = Matches(id)
          BY <4>1 DEF Matches
        <4>3. \A j \in Telling(id) : j \in Telling(id)'
          BY <4>1 DEF Telling
        <4>4. Telling(id)' = {} => id \in untold \/ Matches(id)
          BY <2>1, <4>3 DEF IncidentsInv, HealthOK
        <4>5. QED
          BY <3>1, <3>2, <4>2, <4>4
      <3>5. QED
        BY <3>3, <3>4
    <2>2. QED
      BY <2>1 DEF HealthOK, OwnCause
  <1>8. QED
    BY <1>4, <1>5, <1>6, <1>7 DEF IncidentsInv

LEMMA TellTells ==
  ASSUME SchedulerInv, IncidentsInv, NEW i \in Outstanding, Tell(i)
  PROVE  IncidentsInv'
  <1>1. /\ i \in Instance /\ i[1] \in Task /\ JobOK(i, jobs[i]) /\ Outstanding \subseteq Instance
        /\ UNCHANGED <<health, device, workers, untold>>
        /\ jobs[i].at = "save" /\ SaveIncidents(i, jobs[i].todo) /\ untold \subseteq Check
        /\ Work(i, {}, IF jobs[i].changed THEN "device" ELSE "done", FALSE)
    BY DEF SchedulerInv, MonitorTyped, Instance, IncidentsInv, IncidentsTyped, JobsOK, Tell, At
  <1>2. /\ Outstanding' = Outstanding /\ JobOK(i, jobs'[i]) /\ jobs'[i].todo = {}
        /\ jobs'[i].at \in {"device", "done"}
        /\ \A j \in Outstanding : j # i => jobs'[j] = jobs[j]
    <2>1. {} \in Tellable(i[1])
      BY <1>1, TellableShape
    <2>2. CASE jobs[i].changed = TRUE
      <3>1. i[1] # Discovery /\ Work(i, {}, "device", FALSE)
        BY <1>1, <2>2 DEF JobOK
      <3>2. QED
        BY <2>1, <3>1, OwnWork DEF Label, Flag
    <2>3. CASE jobs[i].changed = FALSE
      <3>1. Work(i, {}, "done", FALSE)
        BY <1>1, <2>3
      <3>2. QED
        BY <2>1, <3>1, OwnWork DEF Label, Flag
    <2>4. jobs[i].changed \in BOOLEAN
      BY <1>1 DEF JobOK, Job
    <2>5. QED
      BY <2>2, <2>3, <2>4
  <1>3. ~Mentions(jobs'[i], FailedCause[i[1]])
    BY <1>2 DEF Mentions
  <1> DEFINE told == jobs[i].todo
  <1>4. told \in SUBSET jobs[i].todo /\ SaveIncidents(i, told) /\ jobs[i].todo \ told = {}
    BY <1>1
  <1> HIDE DEF told
  <1>5. QED
    BY <1>1, <1>2, <1>3, <1>4, SavingTells

LEMMA TellFailsTells ==
  ASSUME SchedulerInv, IncidentsInv, NEW i \in Outstanding, TellFails(i)
  PROVE  IncidentsInv'
  <1> DEFINE id == i[1]
             todo == jobs[i].todo
  <1>1. /\ i \in Instance /\ id \in Task /\ todo \in Tellable(id)
        /\ jobs[i].at = "save" /\ UNCHANGED <<health, device, workers>>
    BY DEF SchedulerInv, MonitorTyped, Instance, IncidentsInv, JobsOK, JobOK, TellFails, At
  <1>2. PICK told \in SUBSET todo :
            /\ SaveIncidents(i, told)
            /\ untold' = untold \cup {x \in {id} : \E t \in todo \ told : t.cause = FailedCause[x]}
    BY DEF TellFails
  <1>3. PICK rest \in {{}, {Open(ErrorCause[id])}}, label \in {"done", "told"} :
            Work(i, rest, label, FALSE) /\ (label = "done" => rest = {})
    BY DEF TellFails
  <1>4. /\ Outstanding' = Outstanding /\ JobOK(i, jobs'[i]) /\ jobs'[i].todo = rest
        /\ jobs'[i].at = label
        /\ \A j \in Outstanding : j # i => jobs'[j] = jobs[j]
    <2>1. rest \in Tellable(i[1]) /\ label \in Label /\ FALSE \in Flag
      BY <1>1, <1>3, TellableShape DEF Label, Flag
    <2>2. QED
      BY <1>3, <2>1, OwnWork
  <1>5. ~Mentions(jobs'[i], FailedCause[id])
    BY <1>1, <1>3, <1>4, CausesApart DEF Mentions, Open
  <1>6. \A t \in todo \ told : t.cause = FailedCause[id] => id \in untold'
    BY <1>2
  <1>7. untold \subseteq untold' /\ untold' \subseteq Check
    <2>1. \A t \in todo : t.cause = FailedCause[id] => id \in Check
      <3>1. SUFFICES ASSUME id = Discovery, NEW t \in todo PROVE t.cause # FailedCause[id]
        BY <1>1 DEF Check
      <3>2. todo \in {{}, {Open(ErrorCause[id])}, {Resolve(ErrorCause[id])}}
        BY <1>1, <3>1 DEF Tellable
      <3>3. t.cause = ErrorCause[id]
        BY <3>1, <3>2 DEF Open, Resolve
      <3>4. QED
        BY <1>1, <3>3, CausesApart
    <2>2. QED
      BY <1>2, <2>1 DEF IncidentsInv, IncidentsTyped
  <1> HIDE DEF todo, id
  <1>8. told \in SUBSET jobs[i].todo
    BY <1>2 DEF todo
  <1>9. QED
    BY <1>1, <1>2, <1>3, <1>4, <1>5, <1>6, <1>7, <1>8, SavingTells DEF todo, id

LEMMA EvaluateTells ==
  ASSUME SchedulerInv, IncidentsInv, NEW i \in Outstanding, Evaluate(i)
  PROVE  IncidentsInv'
  <1> DEFINE me == i[1]
             d == DeviceOf[me]
  <1>1. /\ i \in Instance /\ me \in Check /\ me \in Task /\ d \in Device /\ JobOK(i, jobs[i])
        /\ jobs[i].at = "running" /\ jobs[i].todo = {}
        /\ UNCHANGED <<incidents, workers>> /\ untold' = untold \ {me} /\ untold \subseteq Check
    BY CausesApart DEF SchedulerInv, MonitorTyped, Instance, IncidentsInv, IncidentsTyped, JobsOK, JobOK,
        Evaluate, At,
        Check
  <1>2. PICK ok \in BOOLEAN :
           LET own == IF me \in Presence THEN {}
                      ELSE {IF ok THEN Resolve(FailedCause[me]) ELSE Open(FailedCause[me])}
               counted == IF me \in Presence THEN Counted(device[d], ok) ELSE device[d]
           IN /\ health' = [health EXCEPT ![me] = IF ok THEN "healthy" ELSE "warning"]
              /\ device' = [device EXCEPT ![d] = [counted EXCEPT !.health = Worst(health', d)]]
              /\ Work(i, own \cup {Resolve(ErrorCause[me])}, "told",
                      \/ device'[d].presence # device[d].presence
                      \/ device'[d].health # device[d].health)
    BY DEF Evaluate
  <1>3. PresenceTyped'
    <2> DEFINE counted == IF me \in Presence THEN Counted(device[d], ok) ELSE device[d]
               Evaluated == [presence : {"unknown", "online", "offline"}, health : {"healthy", "warning"},
                         failures : Int, recoveries : Int]
    <2>1. device \in [Device -> Evaluated]
      BY DEF IncidentsInv, IncidentsTyped, PresenceTyped
    <2>2. FailureThreshold \in Int /\ RecoveryThreshold \in Int
      BY MonitorAssumption
    <2>3. \A s \in Evaluated : Counted(s, ok) \in Evaluated
      <3>1. ASSUME NEW s \in Evaluated PROVE Counted(s, ok) \in Evaluated
        <4> DEFINE f == IF ok THEN 0 ELSE s.failures + 1
                   r == IF ok THEN s.recoveries + 1 ELSE 0
                   p == IF r >= RecoveryThreshold THEN "online"
                        ELSE IF f >= FailureThreshold THEN "offline" ELSE s.presence
                   failures == IF f > FailureThreshold THEN FailureThreshold ELSE f
                   recoveries == IF r > RecoveryThreshold THEN RecoveryThreshold ELSE r
        <4>1. s.failures \in Int /\ s.recoveries \in Int /\ s.presence \in {"unknown", "online", "offline"}
          OBVIOUS
        <4>2. f \in Int /\ r \in Int
          BY <4>1
        <4>3. p \in {"unknown", "online", "offline"}
          BY <4>1
        <4>4. failures \in Int /\ recoveries \in Int
          BY <2>2, <4>2
        <4>5. Counted(s, ok) = [s EXCEPT !.presence = p, !.failures = failures, !.recoveries = recoveries]
          BY DEF Counted
        <4> HIDE DEF p, failures, recoveries, f, r
        <4>6. [s EXCEPT !.presence = p, !.failures = failures, !.recoveries = recoveries] \in Evaluated
          BY <4>3, <4>4
        <4>7. QED
          BY <4>5, <4>6
      <3>2. QED
        BY <3>1
    <2>4. \A s \in Evaluated : \A h \in {"healthy", "warning"} : [s EXCEPT !.health = h] \in Evaluated
      OBVIOUS
    <2>5. Worst(health', d) \in {"healthy", "warning"}
      BY DEF Worst
    <2>6. counted \in Evaluated
      BY <1>1, <2>1, <2>3
    <2>7. device' = [device EXCEPT ![d] = [counted EXCEPT !.health = Worst(health', d)]]
      BY <1>2
    <2> HIDE DEF Evaluated, counted
    <2>8. device' \in [Device -> Evaluated]
      BY <2>1, <2>4, <2>5, <2>6, <2>7
    <2>9. QED
      BY <2>8 DEF PresenceTyped, Evaluated
  <1> DEFINE todo == (IF me \in Presence THEN {}
                      ELSE {IF ok THEN Resolve(FailedCause[me]) ELSE Open(FailedCause[me])})
                     \cup {Resolve(ErrorCause[me])}
  <1>4. todo \in Tellable(me)
    <2>1. \/ todo = {Resolve(ErrorCause[me])}
          \/ todo = {Resolve(ErrorCause[me]), Open(FailedCause[me])}
          \/ todo = {Resolve(ErrorCause[me]), Resolve(FailedCause[me])}
      OBVIOUS
    <2>2. QED
      BY <1>1, <2>1, TellableShape DEF Check
  <1>5. /\ Outstanding' = Outstanding /\ JobOK(i, jobs'[i]) /\ jobs'[i].todo = todo
        /\ jobs'[i].at = "told" /\ \A j \in Outstanding : j # i => jobs'[j] = jobs[j]
    <2>1. PICK changed \in Flag : Work(i, todo, "told", changed)
      BY <1>2 DEF Flag
    <2>2. i[1] # Discovery /\ "told" \in Label
      BY <1>1 DEF Check, Label
    <2> HIDE DEF todo
    <2>3. QED
      BY <1>4, <2>1, <2>2, OwnWork
  <1>6. \A c : Opened(c)' = Opened(c)
    BY <1>1 DEF Opened
  <1>7. health = [id \in Check |-> health[id]]
    BY DEF IncidentsInv, IncidentsTyped
  <1>8. /\ health' = [id \in Check |-> health'[id]]
        /\ health'[me] = IF ok THEN "healthy" ELSE "warning"
        /\ \A id \in Check : id # me => health'[id] = health[id]
    BY <1>1, <1>2, <1>7
  <1>9. IncidentsTyped' /\ JobsOK' /\ OneEach'
    BY <1>1, <1>3, <1>5, <1>6, <1>8 DEF IncidentsInv, IncidentsTyped, JobsOK, OneEach
  <1>10. FoundOK'
    BY <1>5, <1>6 DEF IncidentsInv, FoundOK
  <1>11. HealthOK'
    <2>1. ASSUME NEW id \in Check \ Presence, OwnCause(id)
          PROVE  /\ \A j \in Telling(id)' : health'[id] =
                       IF Open(FailedCause[id]) \in jobs'[j].todo THEN "warning" ELSE "healthy"
                 /\ Telling(id)' = {} => id \in untold' \/ Matches(id)'
      <3>1. CASE id # me
        <4>1. Telling(id)' = Telling(id) /\ \A j \in Telling(id) : jobs'[j] = jobs[j]
          BY <1>5, <3>1 DEF Telling
        <4>2. health'[id] = health[id] /\ Matches(id)' = Matches(id)
          BY <1>6, <1>8, <3>1 DEF Matches
        <4>3. QED
          BY <1>1, <2>1, <3>1, <4>1, <4>2 DEF IncidentsInv, HealthOK
      <3>2. CASE id = me
        <4>1. \A j \in Outstanding : j[1] = id => j = i
          BY <3>2 DEF SchedulerInv, TasksKept
        <4>2. todo = {IF ok THEN Resolve(FailedCause[me]) ELSE Open(FailedCause[me]),
                      Resolve(ErrorCause[me])}
          BY <2>1, <3>2
        <4>3. /\ \A c, e : Resolve(c) # Open(e) /\ Resolve(c).cause = c /\ Open(c).cause = c
              /\ FailedCause[me] # ErrorCause[me]
          BY <1>1, CausesApart DEF Open, Resolve
        <4>4. i \in Telling(id)'
          BY <1>5, <3>2, <4>2, <4>3 DEF Telling, Mentions
        <4>5. \A j \in Telling(id)' : j = i
          BY <1>5, <4>1 DEF Telling
        <4>6. Open(FailedCause[id]) \in jobs'[i].todo <=> ~ok
          BY <1>5, <3>2, <4>2, <4>3
        <4>7. QED
          BY <1>8, <3>2, <4>4, <4>5, <4>6
      <3>3. QED
        BY <3>1, <3>2
    <2>2. QED
      BY <2>1 DEF HealthOK, OwnCause
  <1>12. QED
    BY <1>9, <1>10, <1>11 DEF IncidentsInv

LEMMA IncidentSteps == ASSUME SchedulerInv, IncidentsInv, [MonitorNext]_monitorVars PROVE IncidentsInv'
  <1>1. CASE UNCHANGED monitorVars
    <2>1. /\ Outstanding' = Outstanding /\ jobs' = jobs
          /\ UNCHANGED <<incidents, health, device, workers, untold>>
      BY <1>1 DEF monitorVars, Outstanding
    <2>2. QED
      BY <2>1, SilentStep DEF IncidentsInv, IncidentsTyped
  <1>2. ASSUME NEW i \in Outstanding, Handle(i) PROVE IncidentsInv'
    BY <1>2, BeginTells, RaiseTells, EvaluateTells, LookTells, TellTells, TellFailsTells,
       TellDeviceTells DEF Handle
  <1>3. QED
    BY <1>1, <1>2, QueueTells, DispatchTells, RequeueTells, CloseTells, ForgetTells DEF MonitorNext

\* The invariant of incidents (service.py, incidents.py): one is open for each
\* cause, and what a job found when it looked is there when it saves.
THEOREM IncidentsInvariant == MonitorSpec => [](SchedulerInv /\ IncidentsInv)
  <1>1. MonitorInit => IncidentsInv
    <2>1. SUFFICES ASSUME MonitorInit PROVE IncidentsInv
      OBVIOUS
    <2>2. Outstanding = {} /\ incidents = {} /\ workers \in Workers /\ untold = {}
      BY <2>1 DEF MonitorInit, Outstanding
    <2>3. health = [id \in Check |-> "none"] /\ device = [d \in Device |-> Unknown]
      BY <2>1 DEF MonitorInit
    <2>4. PresenceTyped
      BY <2>3 DEF PresenceTyped, Unknown
    <2>5. IncidentsTyped
      BY <2>2, <2>3, <2>4, FS_EmptySet DEF IncidentsTyped
    <2>6. QED
      BY <2>2, <2>3, <2>5
         DEF IncidentsInv, JobsOK, OneEach, Opened, FoundOK, HealthOK, Telling, Matches
  <1>2. QED
    BY <1>1, SchedulerInvariant, IncidentSteps, PTL DEF MonitorSpec

\* Incidents are looked for in one step and saved in another, by as many workers as there are:
\* a check has one open incident for its failures and one for its errors at most, whatever
\* raises meanwhile, and with no run of it under way the first is open exactly if what it found
\* last was wrong, unless it shares its cause or what it found could not be told (monitor/incidents.py, open and resolve; monitor/service.py, _run_check).
THEOREM IncidentsAreTold == MonitorSpec => []IncidentsTold
  <1>1. SchedulerInv /\ IncidentsInv => IncidentsTold
    <2>1. SUFFICES ASSUME SchedulerInv, IncidentsInv PROVE IncidentsTold
      OBVIOUS
    <2>2. ASSUME NEW id \in Task, NEW c \in Causes(id) PROVE Cardinality(Opened(c)) <= 1
      <3>1. \A x, y \in Opened(c) : x = y
        BY <2>1 DEF IncidentsInv, OneEach
      <3>2. ASSUME NEW x \in Opened(c) PROVE Cardinality(Opened(c)) = 1
        <4>1. Opened(c) = {x}
          BY <3>1
        <4>2. QED
          BY <4>1, FS_Singleton
      <3>3. QED
        BY <3>2, FS_EmptySet
    <2>3. ASSUME NEW id \in Check \ (Presence \cup untold), OwnCause(id),
                 \A i \in Outstanding : KeyOf[i[1]] # KeyOf[id]
          PROVE  Matches(id)
      <3>1. Telling(id) = {}
        BY <2>3 DEF Telling
      <3>2. QED
        BY <2>1, <2>3, <3>1 DEF IncidentsInv, HealthOK
    <2>4. QED
      BY <2>2, <2>3 DEF IncidentsTold, Causes, Matches
  <1>2. QED
    BY <1>1, IncidentsInvariant, PTL

\* The types of the monitor (monitor/scheduler.py, service.py, incidents.py).
THEOREM MonitorTypes == MonitorSpec => []MonitorTypeOK
  <1>1. SchedulerInv /\ IncidentsInv => MonitorTypeOK
    <2>1. SUFFICES ASSUME SchedulerInv, IncidentsInv PROVE MonitorTypeOK
      OBVIOUS
    <2>2. /\ scheduler \in {"none", "open", "closing"}
          /\ tasks \in [Task -> Nat] /\ made \in [Task -> Nat]
          /\ queue \subseteq Instance /\ Outstanding \subseteq Instance
          /\ inflight = {KeyOf[i[1]] : i \in Outstanding}
      BY <2>1 DEF SchedulerInv, MonitorTyped
    <2>3. inflight \subseteq Key
      BY <2>2 DEF Key, Instance
    <2>4. /\ workers \in Workers /\ incidents \subseteq Cause \X Nat /\ untold \subseteq Check
          /\ \A d \in Device : device[d].presence \in {"unknown", "online", "offline"}
      BY <2>1 DEF IncidentsInv, IncidentsTyped, PresenceTyped
    <2>5. \A i \in Outstanding : /\ jobs[i].at \in Label
                                 /\ jobs[i].plan \subseteq Device
      BY <2>1 DEF IncidentsInv, JobsOK, JobOK, Job
    <2>6. QED
      BY <2>2, <2>3, <2>4, <2>5 DEF MonitorTypeOK, Label
  <1>2. QED
    BY <1>1, IncidentsInvariant, PTL

-----------------------------------------------------------------------------
(* Terminal: the list and its rows *)

LEMMA ListsAreLists ==
  /\ \A list \in Lists : /\ Len(list) \in Nat /\ DOMAIN list = 1..Len(list)
                         /\ \A i \in 1..Len(list) : list[i] \in TuiDevice
                         /\ list = << >> <=> Len(list) = 0
  /\ << >> \in Lists
  <1>1. Len(RowOrder) \in Nat
    BY TerminalAssumption
  <1>2. ASSUME NEW list \in Lists
        PROVE  /\ Len(list) \in Nat /\ DOMAIN list = 1..Len(list)
               /\ \A i \in 1..Len(list) : list[i] \in TuiDevice
               /\ list = << >> <=> Len(list) = 0
    <2>1. PICK m \in 0..Len(RowOrder) : list \in [1..m -> TuiDevice]
      BY DEF Lists, SeqOf
    <2>2. m \in Nat
      BY <1>1
    <2>3. list \in Seq(TuiDevice)
      BY <2>1, <2>2
    <2>4. QED
      BY <2>3
  <1>3. << >> \in Lists
    <2>1. << >> \in [1..0 -> TuiDevice]
      OBVIOUS
    <2>2. << >> \in SeqOf(TuiDevice, Len(RowOrder))
      BY <1>1, <2>1 DEF SeqOf
    <2>3. QED
      BY <2>2 DEF Lists
  <1>4. QED
    BY <1>2, <1>3

LEMMA FirstThere ==
  ASSUME NEW T \in SUBSET Nat, T # {}
  PROVE  Min(T) \in T
  <1> DEFINE R == OpToRel(<, Nat)
  <1>1. IsWellFoundedOn(R, Nat)
    BY NatLessThanWellFounded
  <1>2. \A x, y \in Nat : x < y => <<x, y>> \in R
    BY DEF OpToRel
  <1> HIDE DEF R
  <1>3. PICK x \in T : \A y \in T : <<y, x>> \notin R
    BY <1>1, WFMin, Zenon
  <1>4. ASSUME NEW y \in T PROVE x <= y
    <2>1. x \in Nat /\ y \in Nat /\ ~(y < x)
      BY <1>2, <1>3, Zenon
    <2>2. QED
      BY <2>1
  <1>5. QED
    BY <1>3, <1>4 DEF Min

\* The selected device is found again where it is.
LEMMA Followed ==
  ASSUME NEW list \in Lists
  PROVE  /\ Follow(list) \in Nat \ {0} \/ ~(place \in Nat \ {0})
         /\ place \in Nat \ {0} /\ list # << >> => Follow(list) <= Len(list)
         /\ Contains(list, Selected) => list[Follow(list)] = Selected
  <1>1. CASE Contains(list, Selected)
    <2> DEFINE I == {i \in 1..Len(list) : list[i] = Selected}
    <2>1. I # {} /\ I \in SUBSET Nat
      BY <1>1, ListsAreLists DEF Contains
    <2>2. Min(I) \in I
      BY <2>1, FirstThere
    <2>3. Follow(list) = Min(I)
      BY <1>1, <2>1 DEF Follow, SelectInSeq
    <2>4. QED
      BY <1>1, <2>2, <2>3, ListsAreLists
  <1>2. CASE ~Contains(list, Selected)
    BY <1>2, ListsAreLists DEF Follow, Clamp
  <1>3. QED
    BY <1>1, <1>2

-----------------------------------------------------------------------------
(* Once it listens, what is not shown is on its way. *)

\* A step shows what is stored, or changes nothing of that, or has something come, or ends.
ShowsOrComing ==
    \/ records' = current' /\ fresh' = TRUE
    \/ /\ UNCHANGED <<fresh, records, current, watching>> /\ (running' = running \/ running' = FALSE)
       /\ pendingData => pendingData'
       /\ coming => coming' \/ pendingData'
       /\ Scanning => Scanning'
    \/ coming' \/ pendingData' \/ Scanning'
    \/ running' = FALSE \/ watching' = FALSE

LEMMA ShowsOrComes == ASSUME NoStaleDisplay, ShowsOrComing PROVE NoStaleDisplay'
  BY DEF ShowsOrComing, NoStaleDisplay

LEMMA TerminalShows == ASSUME TerminalTypeOK, TerminalNext PROVE ShowsOrComing
  <1> USE DEF ShowsOrComing, Scanning, projectVars, listVars, dialogVars, queueVars, Reload, Rereads
  <1>1. CASE OtherEdits
    BY <1>1 DEF OtherEdits
  <1>2. CASE \E p \in TuiProject : OtherSaves(p)
    BY <1>2 DEF OtherSaves
  <1>3. CASE TakeChange
    BY <1>3 DEF TakeChange
  <1>4. CASE TakeView
    BY <1>4 DEF TakeView
  <1>5. CASE ApplyPutOff
    BY <1>5 DEF ApplyPutOff
  <1>6. CASE ScanTellsFound
    BY <1>6 DEF ScanTellsFound
  <1>7. CASE ScanCompletes
    BY <1>7 DEF ScanCompletes, Stirs
  <1>8. CASE ScanSaves
    BY <1>8 DEF ScanSaves, Edits
  <1>9. CASE CloseKey
    BY <1>9 DEF CloseKey
  <1>10. CASE ListKey
    BY <1>10 DEF ListKey, MoveRow, ConfigureList
  <1>11. CASE RefreshKey
    BY <1>11, TerminalAssumption DEF RefreshKey, StartScan, TerminalTypeOK
  <1>12. CASE WindowKey
    BY <1>12 DEF WindowKey
  <1>13. CASE ManualSave
    BY <1>13 DEF ManualSave, Edits
  <1>14. CASE EditByCommand
    BY <1>14 DEF EditByCommand, Edits
  <1>15. CASE ListByCommand
    BY <1>15 DEF ListByCommand, ConfigureList
  <1>16. CASE \E d \in TuiDevice : SelectByCommand(d)
    BY <1>16 DEF SelectByCommand
  <1>17. CASE \E p \in TuiProject : UseByCommand(p)
    BY <1>17 DEF UseByCommand
  <1>18. CASE LeaveWindow \/ EditKey
    BY <1>18 DEF LeaveWindow, EditKey
  <1>19. CASE AcceptInfo
    BY <1>19 DEF AcceptInfo, Edits
  <1>20. CASE SettingsKey \/ SaveSettings
    BY <1>20 DEF SettingsKey, SaveSettings
  <1>21. CASE AnswerClose
    BY <1>21 DEF AnswerClose
  <1>22. CASE AnswerSwitch
    BY <1>22 DEF AnswerSwitch, Activates, MayLeave
  <1>23. CASE ProjectForm
    BY <1>23 DEF ProjectForm
  <1>24. CASE \E p \in TuiProject : OpenProject(p)
    BY <1>24 DEF OpenProject, Activates, MayLeave
  <1>25. CASE \E p \in TuiProject : CreateProject(p)
    BY <1>25 DEF CreateProject, MayLeave
  <1>26. CASE \E p \in TuiProject : DeleteProject(p)
    BY <1>26 DEF DeleteProject
  <1>27. QED
    BY <1>1, <1>2, <1>3, <1>4, <1>5, <1>6, <1>7, <1>8, <1>9, <1>10, <1>11, <1>12, <1>13, <1>14, <1>15, <1>16, <1>17, <1>18, <1>19, <1>20, <1>21, <1>22, <1>23, <1>24, <1>25, <1>26
       DEF TerminalNext, Others, Execute

-----------------------------------------------------------------------------
(* Types *)

\* What the list has, and where.
PlaceOK(list, at) == list \in Lists /\ at \in Nat \ {0} /\ (list # << >> => at <= Len(list))

LEMMA PlacesFit ==
  ASSUME PlaceOK(rows, place)
  PROVE  /\ \A list \in Lists : PlaceOK(list, Follow(list)) /\ PlaceOK(list, 1) /\ PlaceOK(list, Clamp(place, list))
         /\ Selected \in TuiDevice \cup {NoRow} /\ (rows # << >> => Selected \in TuiDevice)
         /\ \A p : Reload(p) => PlaceOK(rows', place')
         /\ MoveRow => PlaceOK(rows', place')
         /\ ConfigureList => PlaceOK(rows', place')
  <1>1. \A list \in Lists : PlaceOK(list, Follow(list)) /\ PlaceOK(list, 1) /\ PlaceOK(list, Clamp(place, list))
    BY Followed, ListsAreLists DEF PlaceOK, Clamp
  <1>2. Selected \in TuiDevice \cup {NoRow} /\ (rows # << >> => Selected \in TuiDevice)
    BY ListsAreLists DEF PlaceOK, Selected
  <1>3. \A p : Reload(p) => PlaceOK(rows', place')
    BY <1>1 DEF Reload, Rereads
  <1>4. (MoveRow => PlaceOK(rows', place')) /\ (ConfigureList => PlaceOK(rows', place'))
    BY <1>1, ListsAreLists DEF MoveRow, ConfigureList, Rereads, PlaceOK
  <1>5. QED
    BY <1>1, <1>2, <1>3, <1>4

LEMMA WindowShapes ==
  /\ \A kind \in {"pages", "projects", "settings", "info", "exit", "users", "close", "switch", "create"} :
        /\ Plain(kind) \in TuiWindow /\ Plain(kind).kind = kind
        /\ \A d \in TuiDevice :
              /\ [Plain(kind) EXCEPT !.about = d] \in TuiWindow
              /\ [Plain(kind) EXCEPT !.about = d].kind = kind /\ [Plain(kind) EXCEPT !.about = d].about = d
  /\ \A w \in TuiWindow : \A flag \in BOOLEAN :
        /\ [w EXCEPT !.editing = flag] \in TuiWindow /\ [w EXCEPT !.editing = flag].kind = w.kind
        /\ [w EXCEPT !.editing = flag].about = w.about /\ [w EXCEPT !.editing = flag].stirred = w.stirred
        /\ [w EXCEPT !.stirred = flag] \in TuiWindow /\ [w EXCEPT !.stirred = flag].kind = w.kind
        /\ [w EXCEPT !.stirred = flag].stirred = flag
  BY DEF Plain, TuiWindow

\* A window, with the target of its question.
WindowOK(w, of) ==
    /\ w \in TuiWindow \cup {NoWindow} /\ of \in TuiProject \cup {NoProject}
    /\ w # NoWindow /\ w.kind = "switch" => of # NoProject

FlagsOK ==
    /\ pendingData \in BOOLEAN /\ coming \in BOOLEAN /\ running \in BOOLEAN /\ fresh \in BOOLEAN
    /\ watching \in BOOLEAN

ProjectsOK ==
    /\ current \in TuiProject /\ unsaved \subseteq TuiProject /\ archives \subseteq TuiProject
    /\ records \in TuiProject /\ scanOf \in TuiProject \cup {NoProject}

\* The window of a device whose rows have not been stirred shows the selected one.
InfoShown ==
    window # NoWindow /\ window.kind = "info" /\ ~window.stirred => Selected = window.about

TuiInv ==
    /\ ProjectsOK /\ FlagsOK /\ PlaceOK(rows, place) /\ WindowOK(window, target)
    /\ InfoShown /\ astray = FALSE

LEMMA TuiInvTypes == TuiInv => TerminalTypeOK /\ EditsWhatIsShown
  BY DEF TuiInv, ProjectsOK, FlagsOK, PlaceOK, WindowOK, TerminalTypeOK, EditsWhatIsShown

LEMMA StirsKeep ==
  ASSUME TuiInv, rows' \in Lists, place' = Follow(rows') \/ place' = Clamp(place, rows'), Stirs,
         target' = target
  PROVE  PlaceOK(rows', place') /\ WindowOK(window, target)' /\ InfoShown'
  <1>1. PlaceOK(rows', place')
    BY PlacesFit DEF TuiInv
  <1>2. CASE window # NoWindow /\ window.kind = "info" /\ rows' # rows
    <2>1. window' = [window EXCEPT !.stirred = TRUE] /\ window \in TuiWindow
      BY <1>2 DEF Stirs, TuiInv, WindowOK
    <2>2. window' \in TuiWindow /\ window'.kind = "info" /\ window'.stirred = TRUE
      BY <1>2, <2>1, WindowShapes
    <2>3. QED
      BY <1>1, <2>2 DEF WindowOK, InfoShown, TuiInv
  <1>3. CASE ~(window # NoWindow /\ window.kind = "info" /\ rows' # rows)
    <2>1. window' = window
      BY <1>3 DEF Stirs
    <2>2. CASE rows' = rows
      <3>1. Selected' = Selected
        <4>1. CASE rows = << >>
          BY <2>2, <4>1 DEF Selected
        <4>2. CASE rows # << >>
          <5>1. place \in 1..Len(rows) /\ Contains(rows, Selected) /\ rows \in Lists /\ Selected = rows[place]
            BY <4>2, ListsAreLists DEF TuiInv, PlaceOK, Contains, Selected
          <5>2. rows[Follow(rows)] = Selected /\ Clamp(place, rows) = place
            BY <4>2, <5>1, Followed, ListsAreLists DEF Clamp
          <5>3. QED
            BY <2>2, <4>2, <5>1, <5>2 DEF Selected
        <4>3. QED
          BY <4>1, <4>2
      <3>2. QED
        BY <1>1, <2>1, <3>1 DEF TuiInv, WindowOK, InfoShown
    <2>3. CASE rows' # rows
      BY <1>1, <1>3, <2>1, <2>3 DEF TuiInv, WindowOK, InfoShown
    <2>4. QED
      BY <2>2, <2>3
  <1>4. QED
    BY <1>2, <1>3

\* A step that leaves the list and the window alone, or replaces the window by another.
LEMMA WindowsKeep ==
  ASSUME TuiInv, PlaceOK(rows', place'), ProjectsOK', FlagsOK', astray' = FALSE, WindowOK(window, target)',
         \/ UNCHANGED <<rows, place, window>>
         \/ window' = NoWindow \/ window'.kind # "info"
  PROVE  TuiInv'
  BY DEF TuiInv, InfoShown, Selected

\* What other sessions do, and how it is taken.
LEMMA OthersKeep == ASSUME TuiInv, Others \/ TakeChange \/ TakeView \/ ApplyPutOff PROVE TuiInv'
  <1> USE DEF projectVars, listVars, dialogVars, queueVars
  <1>1. PlaceOK(rows, place) /\ WindowOK(window, target) /\ ProjectsOK /\ FlagsOK /\ astray = FALSE
    BY DEF TuiInv
  <1>2. CASE OtherEdits
    <2>1. UNCHANGED <<rows, place, window, target, astray>> /\ ProjectsOK' /\ FlagsOK'
      BY <1>1, <1>2 DEF OtherEdits, Edits, Outdates, ProjectsOK, FlagsOK
    <2>2. QED
      BY <1>1, <2>1, WindowsKeep
  <1>3. ASSUME NEW p \in TuiProject, OtherSaves(p) PROVE TuiInv'
    <2>1. UNCHANGED <<rows, place, window, target, astray>> /\ ProjectsOK' /\ FlagsOK'
      BY <1>1, <1>3 DEF OtherSaves, ProjectsOK, FlagsOK
    <2>2. QED
      BY <1>1, <2>1, WindowsKeep
  <1>4. CASE TakeChange
    <2>1. UNCHANGED <<window, target, astray>> /\ ProjectsOK' /\ FlagsOK'
      BY <1>1, <1>4 DEF TakeChange, Reload, Rereads, ProjectsOK, FlagsOK
    <2>2. PlaceOK(rows', place') /\ (UNCHANGED <<rows, place>> \/ window = NoWindow)
      BY <1>1, <1>4, PlacesFit DEF TakeChange
    <2>3. QED
      BY <1>1, <2>1, <2>2, WindowsKeep
  <1>5. CASE TakeView
    <2>1. UNCHANGED <<rows, place, target, astray>> /\ ProjectsOK' /\ FlagsOK'
      BY <1>1, <1>5 DEF TakeView, ProjectsOK, FlagsOK
    <2>2. window' = NoWindow \/ (window' \in TuiWindow /\ window'.kind \in {"pages", "projects", "settings"})
      BY <1>5, WindowShapes DEF TakeView
    <2>3. QED
      BY <1>1, <2>1, <2>2, WindowsKeep DEF WindowOK
  <1>6. CASE ApplyPutOff
    <2>1. UNCHANGED <<window, target, astray>> /\ ProjectsOK' /\ FlagsOK' /\ window = NoWindow
      BY <1>1, <1>6 DEF ApplyPutOff, PutOff, Reload, Rereads, ProjectsOK, FlagsOK
    <2>2. PlaceOK(rows', place')
      BY <1>1, <1>6, PlacesFit DEF ApplyPutOff
    <2>3. QED
      BY <1>1, <2>1, <2>2, WindowsKeep
  <1>7. QED
    BY <1>2, <1>3, <1>4, <1>5, <1>6 DEF Others

LEMMA ScanKeeps == ASSUME TuiInv, ScanTellsFound \/ ScanCompletes \/ ScanSaves \/ ManualSave PROVE TuiInv'
  <1> USE DEF projectVars, listVars, dialogVars, queueVars
  <1>1. PlaceOK(rows, place) /\ WindowOK(window, target) /\ ProjectsOK /\ FlagsOK /\ astray = FALSE
    BY DEF TuiInv
  <1>2. CASE ScanSaves
    <2>1. UNCHANGED <<rows, place, window, target, astray>> /\ ProjectsOK' /\ FlagsOK'
      BY <1>1, <1>2 DEF ScanSaves, Scanning, Edits, Outdates, ProjectsOK, FlagsOK
    <2>2. QED
      BY <1>1, <2>1, WindowsKeep
  <1>3. CASE ScanTellsFound \/ ScanCompletes \/ ManualSave
    <2>1. /\ rows' \in Lists /\ (place' = Follow(rows') \/ place' = Clamp(place, rows')) /\ Stirs
          /\ target' = target
      BY <1>3 DEF ScanTellsFound, ScanCompletes, ManualSave, Reload, Rereads
    <2>2. PlaceOK(rows', place') /\ WindowOK(window, target)' /\ InfoShown'
      BY <2>1, StirsKeep
    <2>3. CASE ScanTellsFound
      BY <1>1, <2>2, <2>3 DEF TuiInv, ScanTellsFound, ProjectsOK, FlagsOK
    <2>4. CASE ScanCompletes
      BY <1>1, <2>2, <2>4 DEF TuiInv, ScanCompletes, Reload, Rereads, ProjectsOK, FlagsOK
    <2>5. CASE ManualSave
      BY <1>1, <2>2, <2>5 DEF TuiInv, ManualSave, Reload, Rereads, ProjectsOK, FlagsOK
    <2>6. QED
      BY <1>3, <2>3, <2>4, <2>5
  <1>4. QED
    BY <1>2, <1>3

\* Keys without a window, and commands.
LEMMA ListKeysKeep ==
  ASSUME TuiInv, CloseKey \/ ListKey \/ RefreshKey \/ Execute
  PROVE  TuiInv'
  <1> USE DEF projectVars, listVars, dialogVars, queueVars
  <1>1. PlaceOK(rows, place) /\ WindowOK(window, target) /\ ProjectsOK /\ FlagsOK /\ astray = FALSE
    BY DEF TuiInv
  <1>2. CASE CloseKey
    <2>1. UNCHANGED <<rows, place, target, astray>> /\ ProjectsOK' /\ FlagsOK'
      BY <1>1, <1>2 DEF CloseKey, ProjectsOK, FlagsOK
    <2>2. window' = window \/ window' = Plain("close")
      BY <1>2 DEF CloseKey, Opens
    <2>3. window' = window \/ (window' \in TuiWindow /\ window'.kind = "close")
      BY <2>2, WindowShapes
    <2>4. QED
      BY <1>1, <2>1, <2>3, WindowsKeep DEF WindowOK
  <1>3. ASSUME window' = NoWindow, target' = target, astray' = FALSE, ProjectsOK', FlagsOK', PlaceOK(rows', place')
        PROVE  TuiInv'
    BY <1>1, <1>3, WindowsKeep DEF WindowOK
  <1>4. CASE ListKey
    <2>1. PlaceOK(rows', place')
      BY <1>1, <1>4, PlacesFit DEF ListKey
    <2>2. QED
      BY <1>1, <1>3, <1>4, <2>1
         DEF ListKey, OnList, MoveRow, ConfigureList, Reload, Rereads, ProjectsOK, FlagsOK
  <1>5. CASE RefreshKey
    <2>1. << >> \in Lists
      BY ListsAreLists
    <2>2. QED
      BY <1>1, <1>3, <1>5, <2>1 DEF RefreshKey, StartScan, OnList, ProjectsOK, FlagsOK, PlaceOK
  <1>6. CASE EditByCommand
    <2>1. PlaceOK(rows', place')
      BY <1>1, <1>6, PlacesFit DEF EditByCommand
    <2>2. QED
      BY <1>1, <1>3, <1>6, <2>1 DEF EditByCommand, OnList, Edits, Reload, Rereads, ProjectsOK, FlagsOK
  <1>7. CASE ListByCommand
    <2>1. PlaceOK(rows', place')
      BY <1>1, <1>7, PlacesFit DEF ListByCommand
    <2>2. QED
      BY <1>1, <1>3, <1>7, <2>1 DEF ListByCommand, OnList, ConfigureList, Rereads, ProjectsOK, FlagsOK
  <1>8. ASSUME NEW p \in TuiProject, UseByCommand(p) PROVE TuiInv'
    <2>1. PlaceOK(rows', place')
      BY <1>1, <1>8, PlacesFit DEF UseByCommand
    <2>2. QED
      BY <1>1, <1>3, <1>8, <2>1 DEF UseByCommand, OnList, Reload, Rereads, ProjectsOK, FlagsOK
  <1>9. ASSUME NEW d \in TuiDevice, SelectByCommand(d) PROVE TuiInv'
    <2>1. rows' \in Lists
      BY <1>1, <1>9 DEF SelectByCommand, Rereads, PlaceOK
    <2>2. PlaceOK(rows', place')
      <3>1. CASE Contains(rows', d)
        <4> DEFINE I == {i \in 1..Len(rows') : rows'[i] = d}
        <4>1. I # {} /\ I \in SUBSET Nat
          BY <2>1, <3>1, ListsAreLists DEF Contains
        <4>2. Min(I) \in I
          BY <4>1, FirstThere
        <4>3. place' = Min(I)
          BY <1>9, <3>1, <4>1 DEF SelectByCommand, SelectInSeq
        <4>4. QED
          BY <2>1, <4>2, <4>3, ListsAreLists DEF PlaceOK
      <3>2. CASE ~Contains(rows', d)
        BY <2>1, <1>9, <3>2, ListsAreLists DEF SelectByCommand, PlaceOK
      <3>3. QED
        BY <3>1, <3>2
    <2>3. QED
      BY <1>1, <1>3, <1>9, <2>2 DEF SelectByCommand, OnList, Rereads, ProjectsOK, FlagsOK
  <1>10. QED
    BY <1>2, <1>4, <1>5, <1>6, <1>7, <1>8, <1>9 DEF Execute

\* Keys in a window.
LEMMA WindowKeysKeep ==
  ASSUME TuiInv,
         WindowKey \/ LeaveWindow \/ EditKey \/ AcceptInfo \/ SettingsKey \/ SaveSettings \/ AnswerClose
  PROVE  TuiInv'
  <1> USE DEF projectVars, listVars, dialogVars, queueVars
  <1>1. PlaceOK(rows, place) /\ WindowOK(window, target) /\ ProjectsOK /\ FlagsOK /\ astray = FALSE
    BY DEF TuiInv
  <1>2. ASSUME UNCHANGED <<rows, place, target, astray>>, ProjectsOK', FlagsOK',
               \/ window' = NoWindow
               \/ \E kind \in {"pages", "projects", "settings", "exit", "users", "close"} : window' = Plain(kind)
        PROVE  TuiInv'
    <2>1. window' = NoWindow \/ (window' \in TuiWindow /\ window'.kind \notin {"info", "switch"})
      BY <1>2, WindowShapes
    <2>2. QED
      BY <1>1, <1>2, <2>1, WindowsKeep DEF WindowOK
  <1>3. CASE WindowKey
    <2>1. UNCHANGED <<rows, place, target, astray>> /\ ProjectsOK' /\ FlagsOK'
      BY <1>1, <1>3 DEF WindowKey, ProjectsOK, FlagsOK
    <2>2. CASE \E kind \in {"pages", "projects", "settings"} : Opens(Plain(kind))
      BY <1>2, <2>1, <2>2 DEF Opens
    <2>3. CASE rows # << >> /\ Opens([Plain("info") EXCEPT !.about = Selected])
      <3>1. Selected \in TuiDevice
        BY <1>1, <2>3, PlacesFit
      <3>2. window' \in TuiWindow /\ window'.kind = "info" /\ window'.about = Selected
        BY <2>3, <3>1, WindowShapes DEF Opens
      <3>3. Selected' = Selected
        BY <2>1 DEF Selected
      <3>4. QED
        BY <1>1, <2>1, <3>2, <3>3 DEF TuiInv, WindowOK, InfoShown
    <2>4. QED
      BY <1>3, <2>2, <2>3 DEF WindowKey
  <1>4. CASE LeaveWindow
    BY <1>1, <1>2, <1>4 DEF LeaveWindow, ClosesWindow, ProjectsOK, FlagsOK
  <1>5. ASSUME window \in TuiWindow, window' \in TuiWindow, window'.kind = window.kind,
               window'.about = window.about, window'.stirred = window.stirred,
               window # NoWindow, window.kind # "switch",
               UNCHANGED <<rows, place, target>>, astray' = FALSE, ProjectsOK', FlagsOK'
        PROVE  TuiInv'
    <2>1. Selected' = Selected
      BY <1>5 DEF Selected
    <2>2. WindowOK(window, target)'
      BY <1>1, <1>5 DEF WindowOK
    <2>3. InfoShown'
      BY <1>5, <2>1 DEF TuiInv, InfoShown
    <2>4. PlaceOK(rows, place)'
      BY <1>1, <1>5 DEF PlaceOK
    <2>5. QED
      BY <1>5, <2>2, <2>3, <2>4 DEF TuiInv
  <1>6. CASE EditKey
    <2>1. UNCHANGED <<rows, place, target, astray>> /\ ProjectsOK' /\ FlagsOK'
      BY <1>1, <1>6 DEF EditKey, ProjectsOK, FlagsOK
    <2>2. /\ window \in TuiWindow /\ window' = [window EXCEPT !.editing = ~window.editing]
          /\ window # NoWindow /\ window.kind # "switch"
      BY <1>1, <1>6 DEF EditKey, KeyIn, WindowOK, Opens
    <2>3. /\ window' \in TuiWindow /\ window'.kind = window.kind /\ window'.about = window.about
          /\ window'.stirred = window.stirred
      BY <2>2 DEF TuiWindow
    <2>4. QED
      BY <1>1, <1>5, <2>1, <2>2, <2>3
  <1>7. CASE AcceptInfo
    <2>1. window \in TuiWindow /\ window # NoWindow /\ window.kind = "info"
      BY <1>1, <1>7 DEF AcceptInfo, KeyIn, WindowOK
    <2>2. UNCHANGED <<rows, place, target>> /\ ProjectsOK' /\ FlagsOK'
      BY <1>1, <1>7 DEF AcceptInfo, Edits, ProjectsOK, FlagsOK
    <2>3. CASE Selected = NoRow
      BY <1>1, <1>7, <2>2, <2>3, WindowsKeep DEF AcceptInfo
    <2>4. CASE Selected # NoRow
      <3>1. window' = [window EXCEPT !.editing = FALSE]
        BY <1>7, <2>4 DEF AcceptInfo, Opens
      <3>2. ~(~window.stirred /\ Selected # window.about)
        BY <2>1 DEF TuiInv, InfoShown
      <3>3. astray' = FALSE
        BY <1>1, <1>7, <2>4, <3>2 DEF AcceptInfo
      <3>4. /\ window' \in TuiWindow /\ window'.kind = window.kind /\ window'.about = window.about
            /\ window'.stirred = window.stirred
        BY <2>1, <3>1 DEF TuiWindow
      <3>5. QED
        BY <1>5, <2>1, <2>2, <3>3, <3>4
    <2>5. QED
      BY <2>3, <2>4
  <1>8. CASE SettingsKey
    <2>1. UNCHANGED <<rows, place, target, astray>> /\ ProjectsOK' /\ FlagsOK'
      BY <1>1, <1>8 DEF SettingsKey, ProjectsOK, FlagsOK
    <2>2. QED
      BY <1>2, <1>8, <2>1 DEF SettingsKey, Opens, ClosesWindow
  <1>9. CASE SaveSettings
    <2>1. window' = NoWindow /\ target' = target /\ astray' = FALSE /\ ProjectsOK' /\ FlagsOK'
      BY <1>1, <1>9 DEF SaveSettings, ClosesWindow, Reload, Rereads, ProjectsOK, FlagsOK
    <2>2. PlaceOK(rows', place')
      BY <1>1, <1>9, PlacesFit DEF SaveSettings
    <2>3. QED
      BY <1>1, <2>1, <2>2, WindowsKeep DEF WindowOK
  <1>10. CASE AnswerClose
    BY <1>1, <1>2, <1>10 DEF AnswerClose, ClosesWindow, ProjectsOK, FlagsOK
  <1>11. QED
    BY <1>3, <1>4, <1>6, <1>7, <1>8, <1>9, <1>10

\* Opening, leaving, creating and deleting projects.
LEMMA ProjectKeysKeep ==
  ASSUME TuiInv,
         \/ AnswerSwitch \/ ProjectForm
         \/ \E p \in TuiProject : OpenProject(p) \/ CreateProject(p) \/ DeleteProject(p)
  PROVE  TuiInv'
  <1> USE DEF projectVars, listVars, dialogVars, queueVars
  <1>1. PlaceOK(rows, place) /\ WindowOK(window, target) /\ ProjectsOK /\ FlagsOK /\ astray = FALSE
    BY DEF TuiInv
  <1>2. /\ Plain("projects") \in TuiWindow /\ Plain("projects").kind = "projects"
        /\ Plain("switch") \in TuiWindow /\ Plain("switch").kind = "switch"
        /\ Plain("create") \in TuiWindow /\ Plain("create").kind = "create"
    BY WindowShapes
  \* Activating one, or going back to the projects.
  <1>3. ASSUME target' = NoProject, UNCHANGED <<archives, scanOf, queueVars, running, astray>>,
               unsaved' \subseteq TuiProject,
               \/ \E p \in archives : current' = p /\ ClosesWindow /\ Reload(p)
               \/ Opens(Plain("projects")) /\ UNCHANGED <<current, listVars>>
        PROVE  TuiInv'
    <2>1. ProjectsOK' /\ FlagsOK'
      BY <1>1, <1>3 DEF Reload, Rereads, ProjectsOK, FlagsOK
    <2>2. PlaceOK(rows', place')
      BY <1>1, <1>3, PlacesFit
    <2>3. window' = NoWindow \/ window' = Plain("projects")
      BY <1>3 DEF ClosesWindow, Opens
    <2>4. QED
      BY <1>1, <1>2, <1>3, <2>1, <2>2, <2>3, WindowsKeep DEF WindowOK
  <1>4. CASE AnswerSwitch
    <2>1. UNCHANGED <<archives, scanOf, queueVars, running, astray>> /\ target' = NoProject
      BY <1>4 DEF AnswerSwitch, Activates
    <2>2. unsaved' \subseteq TuiProject
      BY <1>1, <1>4 DEF AnswerSwitch, ProjectsOK
    <2>3. \/ \E p \in archives : current' = p /\ ClosesWindow /\ Reload(p)
          \/ Opens(Plain("projects")) /\ UNCHANGED <<current, listVars>>
      BY <1>4 DEF AnswerSwitch, Activates, MayLeave
    <2>4. QED
      BY <1>3, <2>1, <2>2, <2>3
  <1>5. CASE ProjectForm
    <2>1. UNCHANGED <<rows, place, target, astray>> /\ ProjectsOK' /\ FlagsOK'
      BY <1>1, <1>5 DEF ProjectForm, ProjectsOK, FlagsOK
    <2>2. window' = Plain("create") \/ window' = Plain("projects")
      BY <1>5 DEF ProjectForm, Opens
    <2>3. QED
      BY <1>1, <1>2, <2>1, <2>2, WindowsKeep DEF WindowOK
  <1>6. ASSUME NEW p \in TuiProject, OpenProject(p) PROVE TuiInv'
    <2>1. UNCHANGED <<unsaved, archives, scanOf, queueVars, running, astray>> /\ p \in archives
      BY <1>6 DEF OpenProject
    <2>2. CASE p # current /\ current \in unsaved
      <3>1. window' = Plain("switch") /\ target' = p /\ UNCHANGED <<current, listVars>>
        BY <1>6, <2>2 DEF OpenProject, Opens
      <3>2. ProjectsOK' /\ FlagsOK' /\ p # NoProject
        BY <1>1, <2>1, <3>1, TerminalAssumption DEF ProjectsOK, FlagsOK
      <3>3. WindowOK(window, target)'
        BY <1>2, <1>6, <3>1, <3>2 DEF WindowOK
      <3>4. QED
        BY <1>1, <1>2, <2>1, <3>1, <3>2, <3>3, WindowsKeep
    <2>3. CASE ~(p # current /\ current \in unsaved)
      <3>1. /\ target' = NoProject
            /\ \/ current' = p /\ ClosesWindow /\ Reload(p)
               \/ Opens(Plain("projects")) /\ UNCHANGED <<current, listVars>>
        BY <1>6, <2>3 DEF OpenProject, Activates, MayLeave
      <3>2. unsaved' \subseteq TuiProject
        BY <1>1, <2>1 DEF ProjectsOK
      <3>3. QED
        BY <1>3, <2>1, <3>1, <3>2
    <2>4. QED
      BY <2>2, <2>3
  <1>7. ASSUME NEW p \in TuiProject, CreateProject(p) PROVE TuiInv'
    <2>1. UNCHANGED <<scanOf, target, queueVars, running, astray>>
      BY <1>7 DEF CreateProject
    <2>2. ProjectsOK' /\ FlagsOK'
      BY <1>1, <1>7 DEF CreateProject, Reload, Rereads, ProjectsOK, FlagsOK
    <2>3. PlaceOK(rows', place') /\ (UNCHANGED <<rows, place, window>> \/ window' = Plain("projects"))
      BY <1>1, <1>7, PlacesFit DEF CreateProject, Opens
    <2>4. QED
      BY <1>1, <1>2, <2>1, <2>2, <2>3, WindowsKeep DEF WindowOK
  <1>8. ASSUME NEW p \in TuiProject, DeleteProject(p) PROVE TuiInv'
    <2>1. UNCHANGED <<rows, place, window, target, astray>> /\ ProjectsOK' /\ FlagsOK'
      BY <1>1, <1>8 DEF DeleteProject, ProjectsOK, FlagsOK
    <2>2. QED
      BY <1>1, <2>1, WindowsKeep
  <1>9. QED
    BY <1>4, <1>5, <1>6, <1>7, <1>8

LEMMA TerminalKeeps == ASSUME TuiInv, TerminalNext PROVE TuiInv'
  BY OthersKeep, ScanKeeps, ListKeysKeep, WindowKeysKeep, ProjectKeysKeep DEF TerminalNext

LEMMA TerminalStarts == TerminalInit => TuiInv /\ NoStaleDisplay
  <1> SUFFICES ASSUME TerminalInit PROVE TuiInv /\ NoStaleDisplay
    OBVIOUS
  <1>1. ProjectsOK /\ FlagsOK /\ astray = FALSE
    BY TerminalAssumption DEF TerminalInit, ProjectsOK, FlagsOK
  <1>2. PlaceOK(rows, place)
    BY ListsAreLists DEF TerminalInit, PlaceOK
  <1>3. WindowOK(window, target) /\ InfoShown
    BY WindowShapes DEF TerminalInit, WindowOK, InfoShown
  <1>4. NoStaleDisplay
    BY DEF TerminalInit, NoStaleDisplay
  <1>5. QED
    BY <1>1, <1>2, <1>3, <1>4 DEF TuiInv

\* The invariant of the terminal interface of LANIP: a row is selected just if there
\* are rows, and the window of a device shows it until rows are stirred.
THEOREM TerminalInvariant == TerminalSpec => []TuiInv
  <1>1. TuiInv /\ UNCHANGED tuiVars => TuiInv'
    <2> SUFFICES ASSUME TuiInv, UNCHANGED tuiVars PROVE TuiInv'
      OBVIOUS
    <2>1. UNCHANGED <<rows, place, window, target, astray>> /\ ProjectsOK' /\ FlagsOK'
      BY DEF TuiInv, ProjectsOK, FlagsOK, tuiVars, projectVars, listVars, dialogVars, queueVars
    <2>2. QED
      BY <2>1, WindowsKeep DEF TuiInv
  <1>2. QED
    BY <1>1, TerminalStarts, TerminalKeeps, PTL DEF TerminalSpec

\* Every reachable state of the interface has its types, and a selected row when there are rows.
THEOREM TerminalTypes == TerminalSpec => []TerminalTypeOK
  BY TerminalInvariant, TuiInvTypes, PTL

\* An edit in the window of a device goes to the device it shows.
THEOREM EditsGoWhereShown == TerminalSpec => []EditsWhatIsShown
  BY TerminalInvariant, TuiInvTypes, PTL

\* Once it listens, it shows what is stored or is about to read it.
THEOREM DisplayIsNotStale == TerminalSpec => []NoStaleDisplay
  <1>1. NoStaleDisplay /\ UNCHANGED tuiVars => NoStaleDisplay'
    BY DEF NoStaleDisplay, Scanning, tuiVars, projectVars, listVars, queueVars
  <1>2. TuiInv /\ NoStaleDisplay /\ TerminalNext => NoStaleDisplay'
    BY TuiInvTypes, TerminalShows, ShowsOrComes
  <1>3. QED
    BY <1>1, <1>2, TerminalStarts, TerminalInvariant, PTL DEF TerminalSpec
-----------------------------------------------------------------------------
(* MCServices: each part behaves as its specification says, and what is proved of it holds *)
(* of the instance.                                                         *)

LEMMA ServicesParts ==
  /\ Init => /\ MonitorInit /\ RuntimeInit /\ PluginsInit /\ ScanInit /\ TerminalInit /\ part \in Parts
  /\ [Next]_vars => /\ [MonitorNext]_monitorVars /\ [RuntimeNext]_runtimeVars
                    /\ [PluginsNext]_pluginsVars /\ [ScanNext]_scanVars /\ [TerminalNext]_tuiVars
  /\ part \in Parts /\ [Next]_vars => (part \in Parts)'
  BY DEF Init, Next, vars

\* Every behaviour of the instance is one of each of its components.
THEOREM ServicesImplementParts ==
  Spec => /\ MonitorSpec /\ RuntimeSpec /\ PluginsSpec /\ ScanSpec /\ TerminalSpec
          /\ [](part \in Parts)
  BY ServicesParts, PTL DEF Spec, MonitorSpec, RuntimeSpec, PluginsSpec, ScanSpec, TerminalSpec

\* The types of every component hold, for all values of its constants.
THEOREM ServicesTypes == Spec => []TypesOK
  <1>1. /\ part \in Parts /\ MonitorTypeOK /\ RuntimeTypeOK /\ PluginsTypeOK /\ ScanTypeOK /\ TerminalTypeOK
        => TypesOK
    BY DEF TypesOK
  <1>2. QED
    BY <1>1, ServicesImplementParts, MonitorTypes, RuntimeTypesHold, PluginsTypes, ScanTypes,
       TerminalTypes, PTL

\* The invariants that the runs check of the instance hold of it for all values of the constants.
THEOREM ServicesAreSafe ==
  Spec => /\ [](TasksKept /\ ClosedIsQuiet /\ IncidentsTold)
          /\ [](NoProcessLeft /\ RunningIsWatched /\ ActivationWasClean /\ EnabledWasChosen)
          /\ [](LastStateKept /\ EndedScanIsSilent /\ NoStaleDisplay /\ EditsWhatIsShown)
  BY ServicesImplementParts, TasksAreKept, ClosedMonitorIsQuiet, IncidentsAreTold, NoProcessIsLeft,
     RunningPluginIsWatched, RunningPluginWasClean, EnabledIsChosen, LastStateIsKept,
     EndedScansAreSilent, DisplayIsNotStale, EditsGoWhereShown, PTL
===============================================================================
