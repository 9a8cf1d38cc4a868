------------------------- MODULE ConfigEntry_proofs -------------------------
(***************************************************************************)
(* ConfigEntry's invariants hold for any number of config flows, keys and  *)
(* bleak clients, any number of setups and sessions.  Five invariants, one *)
(* per concern, are proved one after the other; each may use the ones      *)
(* before it.                                                              *)
(***************************************************************************)
EXTENDS ConfigEntry, FiniteSetTheorems, TLAPS

\* The entry's states in which it has a client of its own.
HasClient == {"starting", "loaded", "breaking", "unloading"}

\* Only an entry that is set up, or being torn down, has a client that lives,
\* and it is the registered one; a client without a session has no connection;
\* whoever has a handle has one of the last session.
ClientInv ==
  /\ phase # "dead" => entry \in HasClient /\ registered = load
  /\ phase = "dead" => closing
  /\ phase = "down" => ~writer
  /\ phase \in {"dead", "down"} =>
       conns = {} /\ \A b \in Bleaks : handle[b] = 0 /\ bleak[b] = "idle"
  /\ \A b \in Bleaks : handle[b] # 0 => handle[b] = session

\* From the probe on the transport trusts what the entry has pinned, from the
\* registration on something is pinned, and no session has another key.
PinInv ==
  /\ entry = "probing" => trusted = pins /\ observed # None
  /\ entry \in HasClient => trusted = pins /\ pins # None
  /\ phase = "up" => peerKey = pins

Holding(f) == flow[f] \in {"form", "dialing", "probing"}
Saving(f) == flow[f] \in {"saving", "resaving"}

\* While no two calls overlapped, one at most has a pair to save, none once a
\* pair is stored, and whoever holds a pair holds the stored one.
PairInv ==
  /\ \A f \in Flows : Saving(f) => shown[f] # 0
  /\ entry = "saving" => own # 0
  /\ ~overlapped =>
       /\ stored # 0 => ~SomeoneSaves
       /\ \A f \in Flows : Saving(f) =>
            entry # "saving" /\ \A g \in Flows : Saving(g) => g = f
       /\ \A f \in Flows : Holding(f) => stored # 0 /\ shown[f] = stored
       /\ entry \in {"keyed", "probing"} \cup HasClient => stored # 0
       /\ entry \in {"keyed", "probing", "starting", "loaded"} => own = stored

-----------------------------------------------------------------------------

\* No action breaks ClientInv.
LEMMA ClientStep == TypeOK /\ ClientInv /\ [Next]_vars => ClientInv'
<1> SUFFICES ASSUME TypeOK, ClientInv, [Next]_vars PROVE ClientInv'
  OBVIOUS
<1> USE DEF pairs, setup, client, gatt, HasClient
<1>1. ASSUME UNCHANGED <<client, gatt, load, registered>>,
             phase = "dead" \/ (entry \in HasClient => entry' \in HasClient)
      PROVE  ClientInv'
  BY <1>1 DEF ClientInv
<1>2. CASE UNCHANGED vars
  BY <1>1, <1>2 DEF vars
<1>3. ASSUME NEW f \in Flows,
             FlowStarts(f) \/ FlowSubmits(f) \/ FlowSaves(f) \/ FlowConnects(f)
               \/ FlowFails(f) \/ FlowEnds(f)
      PROVE  ClientInv'
  <2>1. UNCHANGED <<client, gatt, load, registered>>
    BY <1>3 DEF FlowStarts, FlowSubmits, FlowLoads, FlowSaves, FlowConnects,
       FlowFails, FlowEnds
  <2>2. entry' = entry \/ entry = "none"
    BY <1>3 DEF FlowStarts, FlowSubmits, FlowLoads, FlowSaves, FlowConnects,
       FlowFails, FlowEnds
  <2> QED BY <1>1, <2>1, <2>2
<1>4. CASE SetupLoads \/ SetupSaves \/ SetupConnects \/ SetupFails
  <2>1. UNCHANGED <<client, gatt, load, registered>>
    BY <1>4 DEF SetupLoads, SetupSaves, SetupConnects, SetupFails
  <2>2. entry \in {"idle", "saving", "keyed", "probing"}
    BY <1>4 DEF SetupLoads, SetupSaves, SetupConnects, SetupFails
  <2> QED BY <1>1, <2>1, <2>2
<1>5. CASE SetupEnds \/ SetupBreaks \/ Unload
  BY <1>1, <1>5 DEF SetupEnds, SetupBreaks, Unload
<1>6. CASE SetupBroken \/ Unloaded
  BY <1>6 DEF SetupBroken, Unloaded, ClientInv
<1>7. CASE Removed
  BY <1>1, <1>7 DEF Removed
<1>8. CASE ConnectFails \/ Refreshed \/ KeyChanges
  BY <1>1, <1>8 DEF ConnectFails, Refreshed, KeyChanges
<1>9. CASE SetupRegisters
  <2>1. phase = "dead"
    BY <1>9 DEF SetupRegisters, ClientInv
  <2> QED BY <1>9, <2>1 DEF SetupRegisters, ClientInv
<1>10. CASE Attaches
  <2>1. phase = "down" /\ phase' = "up"
    BY <1>10 DEF Attaches, Sess!Attach
  <2>2. \A b \in Bleaks : handle'[b] = 0
    BY <1>10, <2>1 DEF Attaches, ClientInv
  <2> QED BY <1>10, <2>1, <2>2 DEF Attaches, ClientInv
<1>11. CASE Loses \/ Releases
  BY <1>11 DEF Loses, Releases, Sess!Lose, Sess!Release, ClientInv
<1>12. CASE Clears \/ Abandons
  <2>1. phase # "dead"
    BY <1>12 DEF Clears, Abandons, Sess!Clear, Sess!Abandon
  <2>2. conns' = {} /\ \A b \in Bleaks : handle'[b] = 0 /\ bleak'[b] = "idle"
    BY <1>12 DEF Clears, Abandons, Flush
  <2>3. CASE Clears
    BY <2>1, <2>2, <2>3 DEF Clears, Sess!Clear, ClientInv
  <2>4. CASE Abandons
    BY <2>1, <2>2, <2>4 DEF Abandons, Sess!Abandon, ClientInv
  <2> QED BY <1>12, <2>3, <2>4
<1>13. ASSUME NEW b \in Bleaks,
              BleakConnects(b) \/ BleakOpened(b) \/ BleakFails(b) \/ BleakBuilt(b)
                \/ BleakDisconnects(b) \/ PeerDrops(b)
       PROVE  ClientInv'
  <2>1. UNCHANGED <<client, entry, load, registered>>
    BY <1>13 DEF BleakConnects, BleakOpened, BleakFails, BleakBuilt,
       BleakDisconnects, PeerDrops
  <2>2. phase \notin {"dead", "down"}
    BY <1>13 DEF BleakConnects, BleakOpened, BleakFails, BleakBuilt,
       BleakDisconnects, PeerDrops, ClientInv
  <2>3. handle' \in {handle, [handle EXCEPT ![b] = 0], [handle EXCEPT ![b] = session]}
    BY <1>13 DEF BleakConnects, BleakOpened, BleakFails, BleakBuilt,
       BleakDisconnects, PeerDrops
  <2>4. \A c \in Bleaks : handle'[c] # 0 => handle'[c] = session
    BY <2>3 DEF ClientInv, TypeOK
  <2> QED BY <2>1, <2>2, <2>4 DEF ClientInv
<1> QED
  BY <1>2, <1>3, <1>4, <1>5, <1>6, <1>7, <1>8, <1>9, <1>10, <1>11, <1>12, <1>13
  DEF Next

\* No action breaks PinInv: pins change only while there is no client, or are
\* adopted by entry and transport alike.
LEMMA PinStep == TypeOK /\ ClientInv /\ PinInv /\ [Next]_vars => PinInv'
<1> SUFFICES ASSUME TypeOK, ClientInv, PinInv, [Next]_vars PROVE PinInv'
  OBVIOUS
<1> USE DEF pairs, setup, client, gatt, HasClient
<1>1. ASSUME UNCHANGED <<pins, trusted, observed, phase, peerKey>>,
             entry' \in HasClient => entry \in HasClient,
             entry' = "probing" => entry = "probing"
      PROVE  PinInv'
  BY <1>1 DEF PinInv
<1>2. CASE UNCHANGED vars
  BY <1>1, <1>2 DEF vars
<1>3. ASSUME NEW f \in Flows,
             FlowStarts(f) \/ FlowSubmits(f) \/ FlowSaves(f) \/ FlowConnects(f)
               \/ FlowFails(f)
      PROVE  PinInv'
  <2>1. UNCHANGED <<pins, trusted, observed, phase, peerKey, entry>>
    BY <1>3 DEF FlowStarts, FlowSubmits, FlowLoads, FlowSaves, FlowConnects,
       FlowFails
  <2> QED BY <1>1, <2>1
<1>4. ASSUME NEW f \in Flows, FlowEnds(f) PROVE PinInv'
  <2>1. CASE entry = "none"
    <3>1. phase = "dead"
      BY <2>1 DEF ClientInv
    <3> QED BY <1>4, <2>1, <3>1 DEF FlowEnds, PinInv
  <2>2. CASE entry # "none"
    BY <1>1, <1>4, <2>2 DEF FlowEnds
  <2> QED BY <2>1, <2>2
<1>5. CASE SetupLoads \/ SetupSaves \/ SetupEnds \/ SetupBreaks \/ Unload
  BY <1>1, <1>5 DEF SetupLoads, SetupSaves, SetupEnds, SetupBreaks, Unload
<1>6. CASE SetupConnects
  <2>1. phase = "dead"
    BY <1>6 DEF SetupConnects, ClientInv
  <2>2. server # None
    BY EntryAssumption DEF TypeOK
  <2> QED BY <1>6, <2>1, <2>2 DEF SetupConnects, PinInv
<1>7. CASE SetupFails \/ SetupBroken \/ Unloaded \/ Removed
  <2>1. phase = "dead"
    BY <1>7 DEF SetupFails, SetupBroken, Unloaded, Removed, ClientInv
  <2>2. phase' = phase /\ entry' \in {"idle", "none"}
    BY <1>7 DEF SetupFails, SetupBroken, Unloaded, Removed
  <2> QED BY <2>1, <2>2 DEF PinInv
<1>8. CASE SetupRegisters
  BY <1>8 DEF SetupRegisters, Adopt, PinInv
<1>9. CASE Attaches
  BY <1>9 DEF Attaches, Running, Accepts, Sess!Attach, PinInv
<1>10. CASE ConnectFails \/ Refreshed \/ KeyChanges
  BY <1>1, <1>10 DEF ConnectFails, Refreshed, KeyChanges
<1>11. CASE Loses \/ Releases \/ Clears \/ Abandons
  <2>1. UNCHANGED <<setup, peerKey>> /\ phase' # "up"
    BY <1>11 DEF Loses, Releases, Clears, Abandons, Sess!Lose, Sess!Release,
       Sess!Clear, Sess!Abandon
  <2> QED BY <2>1 DEF PinInv
<1>12. ASSUME NEW b \in Bleaks,
              BleakConnects(b) \/ BleakOpened(b) \/ BleakFails(b) \/ BleakBuilt(b)
                \/ BleakDisconnects(b) \/ PeerDrops(b)
       PROVE  PinInv'
  BY <1>1, <1>12 DEF BleakConnects, BleakOpened, BleakFails, BleakBuilt,
     BleakDisconnects, PeerDrops
<1> QED
  BY <1>2, <1>3, <1>4, <1>5, <1>6, <1>7, <1>8, <1>9, <1>10, <1>11, <1>12
  DEF Next

-----------------------------------------------------------------------------

\* No action breaks PairInv: without an overlap there is one generated pair,
\* and whoever holds one waited for it to be saved or found it saved.
LEMMA PairStep == TypeOK /\ PairInv /\ [Next]_vars => PairInv'
<1> SUFFICES ASSUME TypeOK, PairInv, [Next]_vars PROVE PairInv'
  OBVIOUS
<1> USE DEF pairs, setup, client, gatt, HasClient, Saving, Holding, SomeoneSaves
<1>1. ASSUME UNCHANGED <<pairs, flow>>,
             entry' = "saving" => entry = "saving",
             entry' \in HasClient => entry \in HasClient \cup {"keyed", "probing"},
             entry' \in {"keyed", "probing", "starting", "loaded"} =>
               entry \in {"keyed", "probing", "starting", "loaded"}
      PROVE  PairInv'
  BY <1>1 DEF PairInv
<1>2. CASE UNCHANGED vars
  BY <1>1, <1>2 DEF vars
<1>3. ASSUME NEW f \in Flows, FlowStarts(f) \/ FlowSubmits(f) PROVE PairInv'
  <2>1. UNCHANGED <<own, entry>> /\ ~Saving(f)
    BY <1>3 DEF FlowStarts, FlowSubmits, FlowLoads
  <2>2. CASE Found
    <3>1. /\ flow' \in {[flow EXCEPT ![f] = "form"], [flow EXCEPT ![f] = "dialing"]}
          /\ shown' = [shown EXCEPT ![f] = stored]
      BY <1>3, <2>2 DEF FlowStarts, FlowSubmits, FlowLoads, FlowAt, Found, Generate
    <3> QED BY <2>1, <2>2, <3>1 DEF Found, PairInv, TypeOK
  <2>3. CASE Generate
    <3>1. /\ flow' \in {[flow EXCEPT ![f] = "saving"], [flow EXCEPT ![f] = "resaving"]}
          /\ shown' = [shown EXCEPT ![f] = made']
      BY <1>3, <2>3 DEF FlowStarts, FlowSubmits, FlowLoads, FlowAt, Found, Generate
    <3>2. /\ made' # 0 /\ stored = 0 /\ stored' = 0
          /\ overlapped' = (overlapped \/ SomeoneSaves)
      BY <2>3 DEF Generate, TypeOK
    <3>3. DOMAIN flow = Flows /\ DOMAIN shown = Flows
      BY DEF TypeOK
    <3>4. \A g \in Flows : Saving(g)' => shown'[g] # 0
      BY <3>1, <3>2, <3>3 DEF PairInv
    <3>5. ASSUME ~overlapped'
          PROVE  /\ \A g \in Flows : ~Saving(g) /\ entry # "saving"
                 /\ \A g \in Flows : ~Holding(g)
                 /\ entry \notin {"keyed", "probing"} \cup HasClient
      BY <3>2, <3>5 DEF PairInv
    <3>6. ASSUME ~overlapped'
          PROVE  \A g \in Flows : ~Holding(g)' /\ (Saving(g)' => g = f)
      BY <3>1, <3>3, <3>5, <3>6
    <3> QED BY <2>1, <3>2, <3>4, <3>5, <3>6 DEF PairInv
  <2> QED BY <1>3, <2>2, <2>3 DEF FlowStarts, FlowSubmits, FlowLoads
<1>4. ASSUME NEW f \in Flows, FlowSaves(f) PROVE PairInv'
  <2>1. /\ flow' \in {[flow EXCEPT ![f] = "form"], [flow EXCEPT ![f] = "dialing"]}
        /\ Saving(f)
    BY <1>4 DEF FlowSaves, FlowAt
  <2>2. stored' = shown[f] /\ UNCHANGED <<shown, own, entry, overlapped>>
    BY <1>4 DEF FlowSaves, Save
  <2>3. ~overlapped => stored = 0 /\ \A g \in Flows : ~Holding(g)
    BY <2>1 DEF PairInv
  <2> QED BY <2>1, <2>2, <2>3 DEF PairInv, TypeOK
<1>5. ASSUME NEW f \in Flows, FlowConnects(f) \/ FlowFails(f) PROVE PairInv'
  <2>1. /\ flow' \in {[flow EXCEPT ![f] = "probing"], [flow EXCEPT ![f] = "form"]}
        /\ Holding(f) /\ UNCHANGED <<pairs, entry>>
    BY <1>5 DEF FlowConnects, FlowFails, FlowAt
  <2> QED BY <2>1 DEF PairInv, TypeOK
<1>6. ASSUME NEW f \in Flows, FlowEnds(f) PROVE PairInv'
  <2>1. /\ flow' = [flow EXCEPT ![f] = "ended"]
        /\ shown' = [shown EXCEPT ![f] = 0]
        /\ UNCHANGED <<stored, own, overlapped>>
        /\ entry' = entry \/ entry' = "idle"
    BY <1>6 DEF FlowEnds, FlowAt
  <2> QED BY <2>1 DEF PairInv, TypeOK
<1>7. CASE SetupLoads
  <2>1. CASE Found
    BY <1>7, <2>1 DEF SetupLoads, Found, Generate, PairInv
  <2>2. CASE Generate
    <3>1. /\ made' # 0 /\ stored = 0 /\ stored' = 0
          /\ overlapped' = (overlapped \/ SomeoneSaves)
      BY <2>2 DEF Generate, TypeOK
    <3>2. entry' = "saving" /\ own' = made' /\ UNCHANGED <<shown, flow>>
      BY <1>7, <2>2, <3>1 DEF SetupLoads, Found
    <3>3. ASSUME ~overlapped'
          PROVE  \A g \in Flows : ~Saving(g) /\ ~Holding(g)
      BY <3>1, <3>3 DEF PairInv
    <3> QED BY <3>1, <3>2, <3>3 DEF PairInv
  <2> QED BY <1>7, <2>1, <2>2 DEF SetupLoads
<1>8. CASE SetupSaves
  <2>1. ~overlapped => stored = 0 /\ \A g \in Flows : ~Holding(g) /\ ~Saving(g)
    BY <1>8 DEF SetupSaves, PairInv
  <2> QED BY <1>8, <2>1 DEF SetupSaves, Save, PairInv
<1>9. CASE SetupConnects \/ SetupRegisters \/ SetupEnds \/ SetupBreaks \/ Unload
  BY <1>1, <1>9 DEF SetupConnects, SetupRegisters, SetupEnds, SetupBreaks, Unload
<1>10. CASE SetupFails \/ SetupBroken \/ Unloaded
  BY <1>10 DEF SetupFails, SetupBroken, Unloaded, Forgotten, PairInv
<1>11. CASE Removed
  BY <1>1, <1>11 DEF Removed
<1>12. CASE Attaches \/ ConnectFails \/ Refreshed \/ Loses \/ Releases \/ Clears
              \/ Abandons \/ KeyChanges
  BY <1>1, <1>12 DEF Attaches, ConnectFails, Refreshed, Loses, Releases, Clears,
     Abandons, KeyChanges
<1>13. ASSUME NEW b \in Bleaks,
              BleakConnects(b) \/ BleakOpened(b) \/ BleakFails(b) \/ BleakBuilt(b)
                \/ BleakDisconnects(b) \/ PeerDrops(b)
       PROVE  PairInv'
  BY <1>1, <1>13 DEF BleakConnects, BleakOpened, BleakFails, BleakBuilt,
     BleakDisconnects, PeerDrops
<1> QED
  BY <1>2, <1>3, <1>4, <1>5, <1>6, <1>7, <1>8, <1>9, <1>10, <1>11, <1>12, <1>13
  DEF Next

-----------------------------------------------------------------------------

\* What a coordinator shows before it is refreshed.
LEMMA NoDataType == NoData \in [connected : BOOLEAN, active : 0..Cardinality(Bleaks)]
<1>1. Cardinality(Bleaks) \in Nat
  BY EntryAssumption, FS_CardinalityType
<1>2. 0 \in 0..Cardinality(Bleaks)
  BY <1>1
<1> QED BY <1>2 DEF NoData

\* The snapshot counts a subset of the bleak clients.
LEMMA SnapshotType ==
  ASSUME NEW S \in SUBSET Bleaks, NEW c \in BOOLEAN
  PROVE  [connected |-> c, active |-> Cardinality(S)]
           \in [connected : BOOLEAN, active : 0..Cardinality(Bleaks)]
<1>1. /\ IsFiniteSet(S) /\ Cardinality(S) \in Nat
      /\ Cardinality(Bleaks) \in Nat /\ Cardinality(S) <= Cardinality(Bleaks)
  BY EntryAssumption, FS_Subset, FS_CardinalityType
<1> QED BY <1>1

\* Every action preserves the types.
LEMMA TypeStep == TypeOK /\ [Next]_vars => TypeOK'
<1> SUFFICES ASSUME TypeOK, [Next]_vars PROVE TypeOK'
  OBVIOUS
<1> USE EntryAssumption DEF pairs, setup, client, gatt
<1>1. CASE UNCHANGED vars
  BY <1>1 DEF vars, TypeOK
<1>2. ASSUME NEW f \in Flows, FlowStarts(f) \/ FlowSubmits(f) PROVE TypeOK'
  <2>1. CASE Found
    BY <1>2, <2>1 DEF FlowStarts, FlowSubmits, FlowLoads, FlowAt, Found, Generate, TypeOK
  <2>2. CASE Generate
    BY <1>2, <2>2 DEF FlowStarts, FlowSubmits, FlowLoads, FlowAt, Found, Generate, TypeOK
  <2> QED BY <1>2, <2>1, <2>2 DEF FlowStarts, FlowSubmits, FlowLoads
<1>3. ASSUME NEW f \in Flows,
             FlowSaves(f) \/ FlowConnects(f) \/ FlowFails(f) \/ FlowEnds(f)
      PROVE  TypeOK'
  <2>1. CASE FlowSaves(f)
    BY <2>1 DEF FlowSaves, FlowAt, Save, TypeOK
  <2>2. CASE FlowConnects(f)
    BY <2>2 DEF FlowConnects, FlowAt, TypeOK
  <2>3. CASE FlowFails(f)
    BY <2>3 DEF FlowFails, FlowAt, TypeOK
  <2>4. CASE FlowEnds(f)
    BY <2>4 DEF FlowEnds, FlowAt, TypeOK
  <2> QED BY <1>3, <2>1, <2>2, <2>3, <2>4
<1>4. CASE SetupLoads
  <2>1. CASE Found
    BY <1>4, <2>1 DEF SetupLoads, Found, Generate, TypeOK
  <2>2. CASE Generate
    BY <1>4, <2>2 DEF SetupLoads, Found, Generate, TypeOK
  <2> QED BY <1>4, <2>1, <2>2 DEF SetupLoads
<1>5. CASE SetupSaves
  BY <1>5 DEF SetupSaves, Save, TypeOK
<1>6. CASE SetupConnects
  BY <1>6 DEF SetupConnects, TypeOK
<1>7. CASE SetupFails \/ SetupBroken \/ Unloaded
  BY <1>7 DEF SetupFails, SetupBroken, Unloaded, Forgotten, TypeOK
<1>8. CASE SetupRegisters
  <2>1. /\ {pins', trusted', observed'} \subseteq Keys \cup {None}
        /\ load' \in 0..MaxLoads /\ registered' \in 0..load'
    BY <1>8 DEF SetupRegisters, Adopt, TypeOK
  <2>2. phase' = "down" /\ entry' = "starting" /\ ~writer' /\ ~closing'
    BY <1>8 DEF SetupRegisters
  <2>3. writer' \in BOOLEAN /\ closing' \in BOOLEAN
    BY <1>8 DEF SetupRegisters
  <2>4. UNCHANGED <<flow, flowKey, pairs, server, session, peerKey, gatt>>
    BY <1>8 DEF SetupRegisters
  <2>5. data' \in [connected : BOOLEAN, active : 0..Cardinality(Bleaks)]
    BY <1>8, NoDataType DEF SetupRegisters
  <2> QED BY <2>1, <2>2, <2>3, <2>4, <2>5 DEF TypeOK
<1>9. CASE SetupEnds \/ ConnectFails \/ Refreshed
  <2>1. IsScanning \in BOOLEAN
    BY DEF IsScanning, TypeOK
  <2>2. data' \in [connected : BOOLEAN, active : 0..Cardinality(Bleaks)]
    BY <1>9, <2>1, SnapshotType DEF SetupEnds, ConnectFails, Refreshed, Snapshot, TypeOK
  <2>3. entry' \in {entry, "loaded"}
    BY <1>9 DEF SetupEnds, ConnectFails, Refreshed
  <2>4. UNCHANGED <<pairs, flow, flowKey, pins, trusted, observed, load, registered,
                    server, client, gatt>>
    BY <1>9 DEF SetupEnds, ConnectFails, Refreshed
  <2> QED BY <2>2, <2>3, <2>4 DEF TypeOK
<1>10. CASE SetupBreaks \/ Unload \/ Removed
  BY <1>10 DEF SetupBreaks, Unload, Removed, TypeOK
<1>11. CASE Attaches
  BY <1>11 DEF Attaches, Sess!Attach, TypeOK
<1>12. CASE Loses \/ Releases
  BY <1>12 DEF Loses, Releases, Sess!Lose, Sess!Release, TypeOK
<1>13. CASE Clears
  <2>1. data' \in [connected : BOOLEAN, active : 0..Cardinality(Bleaks)]
    <3>1. conns \in SUBSET Bleaks /\ IsScanning' \in BOOLEAN
      BY DEF TypeOK, IsScanning
    <3>2. data' = [connected |-> IsScanning', active |-> Cardinality(conns)]
      BY <1>13 DEF Clears, Report
    <3> QED BY <3>1, <3>2, SnapshotType
  <2>2. writer' \in BOOLEAN
    BY <1>13 DEF Clears, Sess!Clear
  <2> QED BY <1>13, <2>1, <2>2 DEF Clears, Sess!Clear, Flush, TypeOK
<1>14. CASE Abandons
  <2>1. writer' \in BOOLEAN /\ closing' \in BOOLEAN
    BY <1>14, Zenon DEF Abandons, Sess!Abandon, TypeOK
  <2>2. phase' = "dead" /\ UNCHANGED <<setup, pairs, server, session, peerKey, data>>
    BY <1>14 DEF Abandons, Sess!Abandon
  <2>3. Flush
    BY <1>14 DEF Abandons
  <2> QED BY <2>1, <2>2, <2>3 DEF Flush, TypeOK
<1>15. CASE KeyChanges
  BY <1>15 DEF KeyChanges, TypeOK
<1>16. ASSUME NEW b \in Bleaks,
              BleakConnects(b) \/ BleakOpened(b) \/ BleakFails(b) \/ BleakBuilt(b)
                \/ BleakDisconnects(b) \/ PeerDrops(b)
       PROVE  TypeOK'
  <2>1. UNCHANGED <<pairs, setup, server, client, data>>
    BY <1>16 DEF BleakConnects, BleakOpened, BleakFails, BleakBuilt,
       BleakDisconnects, PeerDrops
  <2>2. \E at \in {"idle", "connecting", "building", "connected", "failed"} :
          bleak' = [bleak EXCEPT ![b] = at]
    BY <1>16 DEF BleakConnects, BleakOpened, BleakFails, BleakBuilt,
       BleakDisconnects, PeerDrops, BleakAt
  <2>3. handle' \in {handle, [handle EXCEPT ![b] = 0], [handle EXCEPT ![b] = session]}
    BY <1>16 DEF BleakConnects, BleakOpened, BleakFails, BleakBuilt,
       BleakDisconnects, PeerDrops
  <2>4. conns' \in {conns, conns \cup {b}, conns \ {b}}
    BY <1>16 DEF BleakConnects, BleakOpened, BleakFails, BleakBuilt,
       BleakDisconnects, PeerDrops
  <2> QED BY <2>1, <2>2, <2>3, <2>4 DEF TypeOK
<1> QED
  BY <1>1, <1>2, <1>3, <1>4, <1>5, <1>6, <1>7, <1>8, <1>9, <1>10, <1>11, <1>12,
     <1>13, <1>14, <1>15, <1>16
  DEF Next

-----------------------------------------------------------------------------

\* No action breaks DownIsShown: whatever refreshes the coordinator while the
\* client is down finds _writer reset, and the end of a session refreshes it.
LEMMA DownStep == ClientInv /\ DownIsShown /\ [Next]_vars => DownIsShown'
<1> SUFFICES ASSUME ClientInv, DownIsShown, [Next]_vars PROVE DownIsShown'
  OBVIOUS
<1> USE DEF pairs, setup, client, gatt
<1>1. ASSUME UNCHANGED data, Running' => Running,
             phase' = "down" => phase = "down"
      PROVE  DownIsShown'
  BY <1>1 DEF DownIsShown
<1> USE DEF Running
<1>2. ASSUME data' = Snapshot, UNCHANGED phase PROVE DownIsShown'
  <2>1. CASE phase = "down"
    <3>1. ~IsScanning
      BY <2>1 DEF ClientInv, IsScanning
    <3> QED BY <1>2, <3>1 DEF Snapshot, DownIsShown
  <2> QED BY <1>2, <2>1 DEF DownIsShown
<1>3. CASE UNCHANGED vars
  BY <1>1, <1>3 DEF vars
<1>4. ASSUME NEW f \in Flows,
             FlowStarts(f) \/ FlowSubmits(f) \/ FlowSaves(f) \/ FlowConnects(f)
               \/ FlowFails(f) \/ FlowEnds(f)
      PROVE  DownIsShown'
  BY <1>1, <1>4 DEF FlowStarts, FlowSubmits, FlowLoads, FlowSaves, FlowConnects,
     FlowFails, FlowEnds
<1>5. CASE SetupLoads \/ SetupSaves \/ SetupConnects \/ SetupFails \/ SetupBreaks
             \/ SetupBroken \/ Unload \/ Unloaded \/ Removed
  BY <1>1, <1>5 DEF SetupLoads, SetupSaves, SetupConnects, SetupFails,
     SetupBreaks, SetupBroken, Unload, Unloaded, Removed
<1>6. CASE SetupRegisters
  BY <1>6 DEF SetupRegisters, NoData, DownIsShown
<1>7. CASE SetupEnds \/ ConnectFails \/ Refreshed
  BY <1>2, <1>7 DEF SetupEnds, ConnectFails, Refreshed
<1>8. CASE Attaches \/ Loses \/ Releases \/ Abandons \/ KeyChanges
  BY <1>1, <1>8 DEF Attaches, Loses, Releases, Abandons, KeyChanges,
     Sess!Attach, Sess!Lose, Sess!Release, Sess!Abandon
<1>9. CASE Clears
  <2>1. ~IsScanning'
    BY <1>9 DEF Clears, Sess!Clear, IsScanning
  <2> QED BY <1>9, <2>1 DEF Clears, Report, DownIsShown
<1>10. ASSUME NEW b \in Bleaks,
              BleakConnects(b) \/ BleakOpened(b) \/ BleakFails(b) \/ BleakBuilt(b)
                \/ BleakDisconnects(b) \/ PeerDrops(b)
       PROVE  DownIsShown'
  BY <1>1, <1>10 DEF BleakConnects, BleakOpened, BleakFails, BleakBuilt,
     BleakDisconnects, PeerDrops
<1> QED
  BY <1>3, <1>4, <1>5, <1>6, <1>7, <1>8, <1>9, <1>10 DEF Next

-----------------------------------------------------------------------------

IInv == TypeOK /\ ClientInv /\ PinInv /\ PairInv /\ DownIsShown

\* The initial states satisfy the invariant.
LEMMA InitIInv == Init => IInv
<1> SUFFICES ASSUME Init PROVE IInv
  OBVIOUS
<1> USE DEF Init, HasClient
<1>1. TypeOK
  <2>1. data \in [connected : BOOLEAN, active : 0..Cardinality(Bleaks)]
    BY NoDataType
  <2>2. overlapped \in BOOLEAN /\ writer \in BOOLEAN /\ closing \in BOOLEAN
    OBVIOUS
  <2>3. {stored, own} \subseteq 0..made /\ made \in 0..MaxPairs
    BY EntryAssumption
  <2> QED BY <2>1, <2>2, <2>3, EntryAssumption DEF TypeOK
<1>2. ClientInv
  BY DEF ClientInv
<1>3. PinInv
  BY DEF PinInv
<1>4. PairInv
  BY DEF PairInv, Saving, Holding, SomeoneSaves
<1>5. DownIsShown
  BY DEF DownIsShown, Running
<1> QED BY <1>1, <1>2, <1>3, <1>4, <1>5 DEF IInv

\* The invariant holds throughout.
LEMMA Invariance == Spec => []IInv
<1>1. IInv /\ [Next]_vars => IInv'
  BY TypeStep, ClientStep, PinStep, PairStep, DownStep DEF IInv
<1> QED BY InitIInv, <1>1, PTL DEF Spec

\* Every variable has its type, for all bounds.
THEOREM TypeCorrect == Spec => []TypeOK
<1>1. IInv => TypeOK
  BY DEF IInv
<1> QED BY <1>1, Invariance, PTL

\* No session is up with a server that does not have the pinned key.
THEOREM PinsHold == Spec => []PinHolds
<1>1. IInv => PinHolds
  BY DEF IInv, ClientInv, PinInv, PinHolds, HasClient
<1> QED BY <1>1, Invariance, PTL

\* A bleak client never uses its handle on a session it does not belong to.
THEOREM OwnSessions == Spec => []OwnSession
<1>1. IInv => OwnSession
  BY DEF IInv, ClientInv, OwnSession
<1> QED BY <1>1, Invariance, PTL

\* Nothing is left of a client once its entry is unloaded or its setup failed.
THEOREM UnloadedGone == Spec => []UnloadedIsGone
<1>1. IInv => UnloadedIsGone
  BY DEF IInv, ClientInv, UnloadedIsGone, HasClient, IsScanning, Resolves
<1> QED BY <1>1, Invariance, PTL

\* Without overlapping calls there is one key pair, stored and shown.
THEOREM PairIsStored == Spec => []OneKeyPair
<1>1. IInv => OneKeyPair
  BY DEF IInv, PairInv, OneKeyPair, Holding
<1> QED BY <1>1, Invariance, PTL

\* A client between two sessions is not shown as connected.
THEOREM DownShown == Spec => []DownIsShown
<1>1. IInv => DownIsShown
  BY DEF IInv
<1> QED BY <1>1, Invariance, PTL
=============================================================================
