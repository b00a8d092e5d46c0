------------------------------ MODULE EchoPane ------------------------------
(***************************************************************************)
(* The "Learn mode" pane of one browser tab (web/src/lib/ws.ts,            *)
(* web/src/components/CLIEchoPane.svelte) against the echo store.  The hub *)
(* in between is taken at its best: a tab that is connected and not slow   *)
(* receives every event sent from then on, in order (module Hub shows it). *)
(***************************************************************************)
EXTENDS LearnStore

CONSTANTS
  RecentSize,  \* entries served by /api/learn/recent  (50)
  PaneSize,    \* entries the pane keeps               (500)
  MaxMounts,   \* bound of the model: times the pane is shown
  MaxDrops     \* bound of the model: times the WebSocket is lost

ASSUME PaneAssumption ==
  /\ RecentSize \in Nat /\ PaneSize \in Nat \ {0} /\ RecentSize <= PaneSize
  /\ MaxMounts \in Nat /\ MaxDrops \in Nat

VARIABLES
  online,    \* the tab's WebSocket is connected
  wire,      \* events on their way to the tab
  last,      \* value of wsStore: the last event received (NoEntry: none)
  pane,      \* "off", "fetching", "fetched" or "live"
  fetched,   \* the answer of /api/learn/recent
  entries,   \* what the pane shows
  mounts, drops,
  liveSince  \* history: Len(log) when the pane last subscribed or went online

paneVars == <<online, wire, last, pane, fetched, entries, mounts, drops, liveSince>>
allVars == <<storeVars, paneVars>>

LastN(s, n) == IF Len(s) <= n THEN s ELSE SubSeq(s, Len(s) - n + 1, Len(s))

PaneInit ==
  /\ StoreInit
  /\ online = TRUE
  /\ wire = <<>>
  /\ last = NoEntry
  /\ pane = "off"
  /\ fetched = <<>>
  /\ entries = <<>>
  /\ mounts = 0
  /\ drops = 0
  /\ liveSince = 0

\* Slip: the newest entry of the ring is broadcast, not the one of this call.
PublishNewest(r) ==
  /\ Notify(r)
  /\ wire' = IF online THEN Append(wire, ring[Len(ring)]) ELSE wire
  /\ UNCHANGED <<online, last, pane, fetched, entries, mounts, drops, liveSince>>

\* The store's subscriber broadcasts the entry to the tab.
Publish(r) ==
  /\ Notify(r)
  /\ wire' = IF online THEN Append(wire, entry[r]) ELSE wire
  /\ UNCHANGED <<online, last, pane, fetched, entries, mounts, drops, liveSince>>

\* onMount: fetch the recent entries.
Mount ==
  /\ pane = "off"
  /\ mounts < MaxMounts
  /\ mounts' = mounts + 1
  /\ pane' = "fetching"
  /\ UNCHANGED <<storeVars, online, wire, last, fetched, entries, drops, liveSince>>

ServeRecent ==
  /\ pane = "fetching"
  /\ mu = Free
  /\ fetched' = Recent(RecentSize)
  /\ pane' = "fetched"
  /\ UNCHANGED <<storeVars, online, wire, last, entries, mounts, drops, liveSince>>

\* The fetch fails: the pane starts empty.
FetchFails ==
  /\ pane = "fetching"
  /\ fetched' = <<>>
  /\ pane' = "fetched"
  /\ UNCHANGED <<storeVars, online, wire, last, entries, mounts, drops, liveSince>>

\* Slip: one entry too many is kept.
ShownTooMany(shown, e) == Append(LastN(shown, PaneSize), e)

Shown(shown, e) == Append(LastN(shown, PaneSize - 1), e)

\* entries = data; wsStore.subscribe calls back at once with the current value.
Subscribe ==
  /\ pane = "fetched"
  /\ pane' = "live"
  /\ entries' = IF last = NoEntry THEN fetched ELSE Shown(fetched, last)
  /\ liveSince' = Len(log)
  /\ UNCHANGED <<storeVars, online, wire, last, fetched, mounts, drops>>

\* ws.onmessage: the store is set, and a live pane appends the entry.
Receive ==
  /\ wire # <<>>
  /\ wire' = Tail(wire)
  /\ last' = Head(wire)
  /\ entries' = IF pane = "live" THEN Shown(entries, Head(wire)) ELSE entries
  /\ UNCHANGED <<storeVars, online, pane, fetched, mounts, drops, liveSince>>

Unmount ==
  /\ pane = "live"
  /\ pane' = "off"
  /\ entries' = <<>>
  /\ fetched' = <<>>
  /\ UNCHANGED <<storeVars, online, wire, last, mounts, drops, liveSince>>

\* The WebSocket is lost, with what was on the wire; it reconnects 3 s later.
Disconnect ==
  /\ online
  /\ drops < MaxDrops
  /\ drops' = drops + 1
  /\ online' = FALSE
  /\ wire' = <<>>
  /\ UNCHANGED <<storeVars, last, pane, fetched, entries, mounts, liveSince>>

Reconnect ==
  /\ ~online
  /\ online' = TRUE
  /\ liveSince' = Len(log)
  /\ UNCHANGED <<storeVars, wire, last, pane, fetched, entries, mounts, drops>>

Tab == Mount \/ ServeRecent \/ FetchFails \/ Subscribe \/ Receive \/ Unmount
         \/ Disconnect \/ Reconnect

PaneNext ==
  \/ \E r \in Requests : Publish(r) \/ (Locked(r) /\ UNCHANGED paneVars)
  \/ Tab

PaneSpec == PaneInit /\ [][PaneNext]_allVars

-----------------------------------------------------------------------------
PaneTypeOK ==
  /\ StoreTypeOK
  /\ online \in BOOLEAN
  /\ wire \in Seq(Entry)
  /\ last \in Entry
  /\ pane \in {"off", "fetching", "fetched", "live"}
  /\ fetched \in Seq(Entry)
  /\ entries \in Seq(Entry) /\ Len(entries) <= PaneSize
  /\ mounts \in 0..MaxMounts
  /\ drops \in 0..MaxDrops
  /\ liveSince \in Nat

Times(s, e) == Cardinality({i \in DOMAIN s : s[i] = e})

InFlight(e) ==
  \/ e \in Range(wire)
  \/ \E r \in Requests : phase[r] = "notifying" /\ entry[r] = e

\* The pane is full of other commands, no two the same.
PushedOut(e) == Len(entries) = PaneSize /\ IsInjective(entries) /\ e \notin Range(entries)

(* What is echoed while a pane is live and its socket stays up is shown    *)
(* exactly once as soon as it has arrived, until the pane is full of       *)
(* others, and no command is ever shown more than twice (once from the     *)
(* history, once live).                                                    *)
LiveEchoShownOnce ==
  /\ pane = "live" /\ online =>
       \A i \in (liveSince + 1)..Len(log) :
         \/ Times(entries, log[i]) = IF InFlight(log[i]) THEN 0 ELSE 1
         \/ ~InFlight(log[i]) /\ PushedOut(log[i])
  /\ \A e \in Range(entries) : Times(entries, e) <= 2
=============================================================================
