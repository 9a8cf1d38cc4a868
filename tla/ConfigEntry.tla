---------------------------- MODULE ConfigEntry ----------------------------
(***************************************************************************)
(* One access point in Home Assistant: the config flows that add it, the   *)
(* entry's setup and unload (__init__.py), the registry through which a    *)
(* UnifiBleakClient finds the client (client.py), the diagnostics snapshot *)
(* behind the sensors, and the pinned SSH host key.                        *)
(*                                                                         *)
(* The BleConnClient is represented by its contract, SessionPhase; its     *)
(* GATT layer only by who holds a connection of which session (BleConnGatt *)
(* has the rest).  Every setup makes a new client: load counts them.  Home *)
(* Assistant is external: it does not set up and unload an entry at once.  *)
(***************************************************************************)
EXTENDS Naturals, FiniteSets

CONSTANTS
  Flows,        \* config flows
  Bleaks,       \* UnifiBleakClient objects
  Keys,         \* SSH host keys the access point may present
  None,
  MaxPairs,     \* bound: SSH key pairs generated
  MaxLoads,     \* bound: setups that succeed
  MaxSessions   \* bound: sessions, over all clients

ASSUME EntryAssumption ==
  /\ None \notin Keys /\ IsFiniteSet(Bleaks)
  /\ MaxPairs \in Nat \ {0} /\ MaxLoads \in Nat /\ MaxSessions \in Nat

VARIABLES
  stored,          \* the key pair in Home Assistant's storage, 0 for none
  made,            \* number of key pairs generated so far
  shown,           \* the pair each flow got: its form shows the public key
  own,             \* the pair the entry's setup got
  overlapped,      \* history: a call found no key while another had not
                   \* saved the one it generated
  flow, flowKey,   \* where each config flow is, and the key it observed
  entry,           \* where the config entry is
  pins,            \* entry.data[CONF_HOST_KEYS]
  trusted,         \* host_keys of the entry's transport
  observed,        \* observed_host_keys of it
  server,          \* the key the access point presents now
  load,            \* number of clients made so far
  registered,      \* _CLIENTS[source]: the load it belongs to, 0 for none
  phase, writer, closing,  \* the client, see SessionPhase
  session,         \* number of sessions so far
  peerKey,         \* the key presented for the last of them
  conns,           \* whose connections active_connections counts
  bleak,           \* where each UnifiBleakClient is
  handle,          \* the session its _conn_handle belongs to, 0 for None
  data             \* the coordinator's data

pairs == <<stored, made, shown, own, overlapped>>
setup == <<flow, flowKey, entry, pins, trusted, observed, load, registered>>
client == <<phase, writer, closing, session, peerKey>>
gatt == <<conns, bleak, handle>>
vars == <<pairs, setup, server, client, gatt, data>>

Sess == INSTANCE SessionPhase

IsScanning == writer /\ ~closing

\* (Mutant: a value is left out.)
SnapshotConnected == [connected |-> IsScanning]

\* is_scanning and active_connections of the client, as _snapshot() finds them.
Snapshot == [connected |-> IsScanning, active |-> Cardinality(conns)]

\* What the sensors show of a coordinator that was never refreshed.
NoData == [connected |-> FALSE, active |-> 0]

Init ==
  /\ stored \in {0, 1} /\ made = stored
  /\ shown = [f \in Flows |-> 0] /\ own = 0 /\ overlapped = FALSE
  /\ flow = [f \in Flows |-> "loading"] /\ flowKey = [f \in Flows |-> None]
  \* "idle": an entry made before host keys were pinned.
  /\ entry \in {"none", "idle"}
  /\ pins = None /\ trusted = None /\ observed = None
  /\ server \in Keys
  /\ load = 0 /\ registered = 0
  /\ phase = "dead" /\ writer = FALSE /\ closing = TRUE
  /\ session = 0 /\ peerKey = None
  /\ conns = {}
  /\ bleak = [b \in Bleaks |-> "idle"] /\ handle = [b \in Bleaks |-> 0]
  /\ data = NoData

-----------------------------------------------------------------------------
(* async_get_keypair of ssh.py: loading and saving are awaits, so the calls   *)
(* of flows and setups interleave.                                            *)

\* Some call has generated a pair and not saved it yet.
SomeoneSaves == \/ \E f \in Flows : flow[f] \in {"saving", "resaving"}
                \/ entry = "saving"

\* async_load found nothing.
Generate ==
  /\ stored = 0 /\ made < MaxPairs
  /\ made' = made + 1
  /\ overlapped' = (overlapped \/ SomeoneSaves)
  /\ UNCHANGED stored

\* async_load found a pair.
Found == stored # 0 /\ UNCHANGED <<stored, made, overlapped>>

\* (Mutant: the pair is used without waiting for it to be saved.)
SaveNothing(pair) == UNCHANGED <<stored, made, overlapped>>

\* async_save
Save(pair) == stored' = pair /\ UNCHANGED <<made, overlapped>>

-----------------------------------------------------------------------------
(* The config flow *)

FlowAt(f, at) == flow' = [flow EXCEPT ![f] = at]

\* Every call of async_step_user, without input and with it, gets the pair
\* first: the form shows its public key, the transport uses it.
FlowLoads(f, from, found, missing) ==
  /\ flow[f] = from
  /\ \/ Found /\ FlowAt(f, found) /\ shown' = [shown EXCEPT ![f] = stored]
     \/ Generate /\ FlowAt(f, missing) /\ shown' = [shown EXCEPT ![f] = made']
  /\ UNCHANGED <<own, flowKey, entry, pins, trusted, observed, load, registered,
                 server, client, gatt, data>>

FlowStarts(f) == FlowLoads(f, "loading", "form", "saving")
FlowSubmits(f) == FlowLoads(f, "form", "dialing", "resaving")

FlowSaves(f) ==
  /\ \/ flow[f] = "saving" /\ FlowAt(f, "form")
     \/ flow[f] = "resaving" /\ FlowAt(f, "dialing")
  /\ Save(shown[f])
  /\ UNCHANGED <<shown, own, flowKey, entry, pins, trusted, observed, load,
                 registered, server, client, gatt, data>>

\* probe_transport connects, pinning nothing.
FlowConnects(f) ==
  /\ flow[f] = "dialing"
  /\ FlowAt(f, "probing")
  /\ flowKey' = [flowKey EXCEPT ![f] = server]
  /\ UNCHANGED <<entry, pins, trusted, observed, load, registered,
                 pairs, server, client, gatt, data>>

\* The probe fails, or finds no adapter: the form is shown again.
FlowFails(f) ==
  /\ flow[f] \in {"dialing", "probing"}
  /\ FlowAt(f, "form")
  /\ flowKey' = [flowKey EXCEPT ![f] = None]
  /\ UNCHANGED <<entry, pins, trusted, observed, load, registered,
                 pairs, server, client, gatt, data>>

\* It finds the adapter: the flow ends in an entry, with the observed key, or
\* is aborted because the adapter's address is configured already.
FlowEnds(f) ==
  /\ flow[f] = "probing"
  /\ FlowAt(f, "ended")
  /\ \/ entry = "none" /\ entry' = "idle" /\ pins' = flowKey[f]
     \/ entry # "none" /\ UNCHANGED <<entry, pins>>
  /\ flowKey' = [flowKey EXCEPT ![f] = None]
  /\ shown' = [shown EXCEPT ![f] = 0]
  /\ UNCHANGED <<stored, made, own, overlapped, trusted, observed, load,
                 registered, server, client, gatt, data>>

-----------------------------------------------------------------------------
(* async_setup_entry and async_unload_entry *)

\* The SSH connection is refused if another key is pinned.
Accepts(pinned) == pinned \in {None, server}

\* The setup gets the key pair for its transport.
SetupLoads ==
  /\ entry = "idle"
  /\ \/ Found /\ entry' = "keyed" /\ own' = stored
     \/ Generate /\ entry' = "saving" /\ own' = made'
  /\ UNCHANGED <<shown, flow, flowKey, pins, trusted, observed, load, registered,
                 server, client, gatt, data>>

SetupSaves ==
  /\ entry = "saving" /\ entry' = "keyed"
  /\ Save(own)
  /\ UNCHANGED <<shown, own, flow, flowKey, pins, trusted, observed, load,
                 registered, server, client, gatt, data>>

\* What an entry that is not set up keeps of its transport: nothing.
Forgotten ==
  /\ own' = 0 /\ trusted' = None /\ observed' = None
  /\ UNCHANGED <<stored, made, shown, overlapped>>

\* A new transport, with the pinned key, connects for the probe.
SetupConnects ==
  /\ entry = "keyed" /\ Accepts(pins)
  /\ entry' = "probing"
  /\ trusted' = pins /\ observed' = server
  /\ UNCHANGED <<flow, flowKey, pins, load, registered,
                 pairs, server, client, gatt, data>>

\* ConfigEntryNotReady: Home Assistant will try again.
SetupFails ==
  /\ entry \in {"keyed", "probing"} /\ entry' = "idle"
  /\ Forgotten
  /\ UNCHANGED <<flow, flowKey, pins, load, registered,
                 server, client, gatt, data>>

\* (Mutant: only the entry adopts the key, not the transport in use.)
AdoptInEntry == pins' = (IF pins = None THEN observed ELSE pins) /\ UNCHANGED trusted

\* An entry without a pinned key adopts the one just observed, and so does the
\* transport that run() goes on with.
Adopt ==
  /\ pins' = IF pins = None THEN observed ELSE pins
  /\ trusted' = IF pins = None THEN observed ELSE trusted

\* The probe succeeded: a new client is registered and its task started, all
\* without a suspension.
SetupRegisters ==
  /\ entry = "probing" /\ load < MaxLoads
  /\ Adopt
  /\ load' = load + 1 /\ registered' = load + 1
  /\ phase' = "down" /\ writer' = FALSE /\ closing' = FALSE
  /\ entry' = "starting" /\ data' = NoData
  /\ UNCHANGED <<flow, flowKey, observed, pairs, server, session, peerKey, gatt>>

\* The coordinator's first refresh; then the platforms are set up.
SetupEnds ==
  /\ entry = "starting" /\ entry' = "loaded"
  /\ data' = Snapshot
  /\ UNCHANGED <<flow, flowKey, pins, trusted, observed, load, registered,
                 pairs, server, client, gatt>>

\* Setting up the platforms raises: Home Assistant cancels the background
\* task.  Nothing is unregistered.
SetupBreaks ==
  /\ entry = "starting" /\ entry' = "breaking"
  /\ UNCHANGED <<flow, flowKey, pins, trusted, observed, load, registered,
                 pairs, server, client, gatt, data>>

SetupBroken ==
  /\ entry = "breaking" /\ phase = "dead" /\ entry' = "idle"
  /\ Forgotten
  /\ UNCHANGED <<flow, flowKey, pins, load, registered,
                 server, client, gatt, data>>

\* The platforms are unloaded and the task of run() is cancelled.
Unload ==
  /\ entry = "loaded" /\ entry' = "unloading"
  /\ UNCHANGED <<flow, flowKey, pins, trusted, observed, load, registered,
                 pairs, server, client, gatt, data>>

\* (Mutant: the task is not waited for.)
UnloadHasty ==
  /\ entry = "unloading" /\ entry' = "idle"
  /\ registered' = 0
  /\ Forgotten
  /\ UNCHANGED <<flow, flowKey, pins, load,
                 server, client, gatt, data>>

\* gather() returns: the scanner and the client are unregistered.
Unloaded ==
  /\ entry = "unloading" /\ phase = "dead" /\ entry' = "idle"
  /\ registered' = 0
  /\ Forgotten
  /\ UNCHANGED <<flow, flowKey, pins, load,
                 server, client, gatt, data>>

\* The user removes the entry.
Removed ==
  /\ entry = "idle" /\ entry' = "none"
  /\ pins' = None
  /\ UNCHANGED <<flow, flowKey, trusted, observed, load, registered,
                 pairs, server, client, gatt, data>>

-----------------------------------------------------------------------------
(* The client *)

\* run() before it is cancelled.
Running == entry \in {"starting", "loaded"}

\* A session of the client, with a server that has the trusted key.
Attaches ==
  /\ Running /\ session < MaxSessions
  /\ Accepts(trusted)
  /\ Sess!Attach
  /\ session' = session + 1 /\ peerKey' = server
  /\ UNCHANGED <<setup, pairs, server, gatt, data>>

\* connect() raises, and run() reports "disconnected".
ConnectFails ==
  /\ Running /\ phase = "down"
  /\ data' = Snapshot
  /\ UNCHANGED <<setup, pairs, server, client, gatt>>

\* The session reports "scanning", or the coordinator's interval is over.
Refreshed ==
  /\ Running
  /\ phase = "up" \/ entry = "loaded"
  /\ data' = Snapshot
  /\ UNCHANGED <<setup, pairs, server, client, gatt>>

Loses ==
  /\ Sess!Lose
  /\ UNCHANGED <<setup, pairs, server, session, peerKey, gatt, data>>

Releases ==
  /\ Sess!Release
  /\ UNCHANGED <<setup, pairs, server, session, peerKey, gatt, data>>

\* (Mutant: the disconnect callbacks are dropped without being called.)
FlushSilently ==
  /\ conns' = {}
  /\ bleak' = [b \in Bleaks |-> IF bleak[b] = "connecting" THEN "idle" ELSE bleak[b]]
  /\ UNCHANGED handle

\* _fail_pending: every caller loses its request, and its connection.
Flush ==
  /\ conns' = {}
  /\ bleak' = [b \in Bleaks |-> "idle"]
  /\ handle' = [b \in Bleaks |-> 0]

\* (Mutant: the end of a session is reported before _writer is reset.)
ReportEarly == data' = Snapshot

\* on_state("disconnected"): _session() has reset _writer, _fail_pending has
\* still to remove the connections.
Report == data' = [connected |-> IsScanning', active |-> Cardinality(conns)]

\* The session is over and its exception caught by run().
Clears ==
  /\ Running /\ Sess!Clear
  /\ Report /\ Flush
  /\ UNCHANGED <<setup, pairs, server, session, peerKey>>

\* The cancellation reaches the end of run().
Abandons ==
  /\ entry \in {"unloading", "breaking"} /\ Sess!Abandon
  /\ Flush
  /\ UNCHANGED <<setup, pairs, server, session, peerKey, data>>

-----------------------------------------------------------------------------
(* UnifiBleakClient *)

\* The property _bc: the registered client, if its session is up.
Resolves == registered # 0 /\ IsScanning

BleakAt(b, at) == bleak' = [bleak EXCEPT ![b] = at]

\* connect(): gatt_connect is sent over the session.
BleakConnects(b) ==
  /\ bleak[b] = "idle" /\ handle[b] = 0
  /\ Resolves /\ phase = "up"
  /\ BleakAt(b, "connecting")
  /\ UNCHANGED <<setup, pairs, server, client, conns, handle, data>>

\* gatt_connect returns; the disconnect callback is armed and the discovery
\* of the services starts.
BleakOpened(b) ==
  /\ bleak[b] = "connecting" /\ phase = "up"
  /\ BleakAt(b, "building")
  /\ handle' = [handle EXCEPT ![b] = session]
  /\ conns' = conns \cup {b}
  /\ UNCHANGED <<setup, pairs, server, client, data>>

BleakFails(b) ==
  /\ bleak[b] = "connecting"
  /\ BleakAt(b, "idle")
  /\ UNCHANGED <<setup, pairs, server, client, conns, handle, data>>

\* _build_services returns, or raises out of connect(): the handle stays.
BleakBuilt(b) ==
  /\ bleak[b] = "building"
  /\ \E at \in {"connected", "failed"} : BleakAt(b, at)
  /\ UNCHANGED <<setup, pairs, server, client, conns, handle, data>>

\* disconnect(): with the session gone there is nobody to tell.
BleakDisconnects(b) ==
  /\ bleak[b] \in {"connected", "failed"} /\ handle[b] # 0
  /\ BleakAt(b, "idle")
  /\ handle' = [handle EXCEPT ![b] = 0]
  /\ conns' = IF Resolves /\ phase = "up" THEN conns \ {b} ELSE conns
  /\ UNCHANGED <<setup, pairs, server, client, data>>

\* connClosed: _on_disconnected.
PeerDrops(b) ==
  /\ b \in conns /\ phase = "up"
  /\ BleakAt(b, "idle")
  /\ handle' = [handle EXCEPT ![b] = 0]
  /\ conns' = conns \ {b}
  /\ UNCHANGED <<setup, pairs, server, client, data>>

\* The access point is reset, or something else answers at its address.
KeyChanges ==
  /\ server' \in Keys \ {server}
  /\ UNCHANGED <<setup, pairs, client, gatt, data>>

Next ==
  \/ \E f \in Flows : \/ FlowStarts(f) \/ FlowSubmits(f) \/ FlowSaves(f)
                      \/ FlowConnects(f) \/ FlowFails(f) \/ FlowEnds(f)
  \/ SetupLoads \/ SetupSaves \/ SetupConnects \/ SetupFails
  \/ SetupRegisters \/ SetupEnds \/ SetupBreaks \/ SetupBroken
  \/ Unload \/ Unloaded \/ Removed
  \/ Attaches \/ ConnectFails \/ Refreshed \/ Loses \/ Releases \/ Clears \/ Abandons
  \/ \E b \in Bleaks : \/ BleakConnects(b) \/ BleakOpened(b) \/ BleakFails(b)
                       \/ BleakBuilt(b) \/ BleakDisconnects(b) \/ PeerDrops(b)
  \/ KeyChanges

Spec == Init /\ [][Next]_vars

-----------------------------------------------------------------------------
(* Properties *)

\* Every variable has its type.
TypeOK ==
  /\ {stored, own} \subseteq 0..made /\ made \in 0..MaxPairs
  /\ shown \in [Flows -> 0..made] /\ overlapped \in BOOLEAN
  /\ flow \in [Flows -> {"loading", "saving", "form", "resaving", "dialing",
                         "probing", "ended"}]
  /\ flowKey \in [Flows -> Keys \cup {None}]
  /\ entry \in {"none", "idle", "saving", "keyed", "probing", "starting",
                "breaking", "loaded", "unloading"}
  /\ {pins, trusted, observed, peerKey} \subseteq Keys \cup {None}
  /\ server \in Keys
  /\ load \in 0..MaxLoads /\ registered \in 0..load
  /\ phase \in {"down", "up", "lost", "disc", "dead"}
  /\ writer \in BOOLEAN /\ closing \in BOOLEAN
  /\ session \in 0..MaxSessions
  /\ conns \subseteq Bleaks
  /\ bleak \in [Bleaks -> {"idle", "connecting", "building", "connected", "failed"}]
  /\ handle \in [Bleaks -> 0..session]
  /\ data \in [connected : BOOLEAN, active : 0..Cardinality(Bleaks)]

\* No session is ever up with a server whose key is not the entry's pinned
\* one, although nothing is pinned when an old entry is probed and the server
\* may change between the probe and any session of run().
PinHolds == phase = "up" => pins # None /\ peerKey = pins

\* A bleak client that still has a handle and finds a client in the registry
\* finds the one, and the session, its handle belongs to: never a client that
\* a reload put there, nor a later session, whose handles are others'.
OwnSession ==
  \A b \in Bleaks : handle[b] # 0 /\ Resolves =>
    /\ handle[b] = session
    /\ registered = load

\* Once an entry is unloaded, or its setup has failed at any point, the late
\* ones that leave the client in the registry included, the client has no
\* session, none can be found, and no bleak client believes it is connected.
UnloadedIsGone ==
  entry \in {"none", "idle", "saving", "keyed", "probing"} =>
    /\ phase = "dead" /\ ~IsScanning /\ ~Resolves
    /\ conns = {} /\ \A b \in Bleaks : handle[b] = 0 /\ bleak[b] = "idle"

\* All forms show, and all transports use, the one pair that is stored, unless
\* a call of async_get_keypair loaded nothing while another one had yet to
\* save the pair it generated: only then are there two.
OneKeyPair ==
  ~overlapped =>
    /\ \A f \in Flows : flow[f] \in {"form", "dialing", "probing"} => shown[f] = stored
    /\ entry \in {"keyed", "probing", "starting", "loaded"} => own = stored

\* Between two sessions, and before the first, the connectivity sensor does not
\* show the client as connected: _writer is reset before run() reports the end
\* of a session, and no refresh that comes in the teardown outlasts the report.
DownIsShown == Running /\ phase = "down" => ~data.connected
=============================================================================
