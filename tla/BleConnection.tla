---------------------------- MODULE BleConnection ----------------------------
(***************************************************************************)
(* Connections to one light in packages/mesh/src/ble: the operations that  *)
(* share the adapter (noble.ts), their scans (scanSession.ts, scan.ts),    *)
(* and how connections are opened, claimed, fenced and closed (proxy.ts).  *)
(* A native call may settle late or never, so giving it up does not end    *)
(* it.  The light has one peripheral object, which noble uses again and    *)
(* which any operation may find, a fallback of another light included.  An *)
(* action is a section of the code between two awaits, or the settling of  *)
(* a native call with the callbacks that hang on it.                       *)
(***************************************************************************)
EXTENDS FiniteSets

CONSTANTS
    Op,         \* the operations, each run once
    None,       \* undefined
    Kinds       \* which operation may be of which kind

ASSUME KindsAssumption == Kinds \subseteq [Op -> {"writer", "profile", "scan"}]
ASSUME NoneAssumption == None \notin Op \cup (Op \X {"direct", "scanned"})

VARIABLES
    adapter,        \* the operation that holds nobleOperationMutex, or None
    pc,             \* pc[o]: where operation o, and then its handle, stands
    kind,           \* kind[o]: connectProxyWriter, connectMeshProfile or scanDevices
    way,            \* way[o]: its attempt, "direct" or "scanned"
    owned,          \* owned[o]: it has noted the native connection as its own
    addressOwner,   \* connectionGenerations: the generation at the light's addresses
    peripheralOwner,\* peripheralGenerations: the one of its peripheral
    fence,          \* pendingAddressCleanups: native calls no connection may overtake
    scanCleanup,    \* pendingScanCleanups: the operation whose scan is still stopping
    (* native *)
    tasks,          \* the calls that have not settled, with the generation they serve
    peripheral,     \* peripheral.state
    link            \* the generation whose connection is up, or None

program == <<pc, kind, way, owned>>
owners == <<addressOwner, peripheralOwner>>
native == <<peripheral, link>>
vars == <<adapter, program, owners, fence, scanCleanup, tasks, native>>

Generation == Op \X {"direct", "scanned"}
ScanCall == {"start", "stop"}
GattCall == {"connect", "discover", "subscribe", "unsubscribe", "disconnect"}
Task == (ScanCall \cup GattCall) \X Generation
Stage == {"idle", "fence", "begin", "connecting", "scan", "scanning", "found", "unfound",
          "settling", "discovering", "subscribing", "failed", "ready", "unsubscribing",
          "closing", "over"}

TypeOK ==
    /\ adapter \in Op \cup {None}
    /\ pc \in [Op -> Stage] /\ kind \in Kinds
    /\ way \in [Op -> {"direct", "scanned"}]
    /\ owned \in [Op -> BOOLEAN]
    /\ addressOwner \in Generation \cup {None}
    /\ peripheralOwner \in Generation \cup {None}
    /\ tasks \subseteq Task
    /\ fence \subseteq {t \in tasks : t[1] \in GattCall}
    /\ scanCleanup \in Op \cup {None}
    /\ peripheral \in {"disconnected", "connecting", "connected"}
    /\ link \in Generation \cup {None}
    /\ link # None <=> peripheral = "connected"

Init ==
    /\ adapter = None
    /\ pc = [o \in Op |-> "idle"] /\ kind \in Kinds
    /\ way = [o \in Op |-> "scanned"] /\ owned = [o \in Op |-> FALSE]
    /\ addressOwner = None /\ peripheralOwner = None
    /\ fence = {} /\ scanCleanup = None
    /\ tasks = {} /\ peripheral = "disconnected" /\ link = None

Gen(o) == <<o, way[o]>>
Goto(o, stage) == pc' = [pc EXCEPT ![o] = stage]
Free(o) == adapter' = IF adapter = o THEN None ELSE adapter

(* ownsConnection. *)
Owns(g) == peripheralOwner = g /\ addressOwner = g

(* rememberPeripheral, claimConnection: the addresses, and the peripheral  *)
(* if there is one yet.                                                    *)
Claim(g, withPeripheral) ==
    /\ addressOwner' = g
    /\ peripheralOwner' = IF withPeripheral THEN g ELSE peripheralOwner

(* trackAddressCleanup. *)
Fence(calls) == fence' = fence \cup calls

-----------------------------------------------------------------------------
(* ensureScanIdle: refuse while another scan is stopping. *)
ScanIdle == scanCleanup = None

(* waitPoweredOn: the adapter may not get power in time. *)
Powerless(o) == Goto(o, "failed")

(* openProxyPeripheral: there is a direct attempt only with an address     *)
(* type.                                                                   *)
Ways(o) == IF kind[o] = "scan" THEN {"scanned"} ELSE {"direct", "scanned"}

(* withNobleOperation and getNoble: the mutex is taken; the operation ends *)
(* at once if a scan is still stopping.                                    *)
Acquire(o) ==
    /\ pc[o] = "idle" /\ adapter = None
    /\ adapter' = o
    /\ \E w \in Ways(o) :
          /\ way' = [way EXCEPT ![o] = w]
          /\ \/ ~ScanIdle /\ Goto(o, "failed")
             \/ ScanIdle /\ Goto(o, IF w = "direct" THEN "fence" ELSE "scan")
             \/ Powerless(o)
    /\ UNCHANGED <<kind, owned, owners, fence, scanCleanup, tasks, native>>

(* awaitPendingDisconnect: every cleanup under way is over ... *)
FencePassed(o) ==
    /\ pc[o] = "fence" /\ fence = {}
    /\ Goto(o, "begin")
    /\ UNCHANGED <<adapter, kind, way, owned, owners, fence, scanCleanup, tasks, native>>

(* ... and beginConnection looks again: a handle may have started to close *)
(* since.  The seeded fault trusts the wait.                               *)
MayBegin_Trusting == TRUE
MayBegin == fence = {}

(* The addresses are claimed and the native connect is called.  A direct   *)
(* attempt has no peripheral to claim before it succeeds.                  *)
Begin(o) ==
    /\ pc[o] = "begin"
    /\ \/ ~MayBegin /\ Goto(o, "failed") /\ UNCHANGED <<owners, tasks, peripheral>>
       \/ /\ MayBegin
          /\ Claim(Gen(o), way[o] = "scanned")
          /\ tasks' = tasks \cup {<<"connect", Gen(o)>>}
          /\ peripheral' = IF way[o] = "scanned" /\ link = None THEN "connecting" ELSE peripheral
          /\ Goto(o, "connecting")
    /\ UNCHANGED <<adapter, kind, way, owned, fence, scanCleanup, link>>

(* disconnectPeripheral: a disconnect under way is joined, a connection    *)
(* that is up is disconnected.                                             *)
DisconnectCalls(l) ==
    IF l = None \/ \E t \in tasks : t[1] = "disconnect" THEN {} ELSE {<<"disconnect", l>>}

(* What an attempt that is no longer awaited does about a connection that  *)
(* is up when it settles.  The seeded fault forgets the late one.          *)
LateCleanup_Forgotten(l) == {}
LateCleanup(l) == DisconnectCalls(l)

(* A direct attempt that fails or times out leaves it to the scan. *)
FallsBack(o) == Goto(o, "scan") /\ way' = [way EXCEPT ![o] = "scanned"]

(* A native connect settles.  Success is noted in the same callback that   *)
(* hands the connection over; an attempt that is fenced (abandoned) is     *)
(* cleaned up after.  An existing connection makes noble fail or answer    *)
(* with the same one.                                                      *)
ConnectSettles(o) ==
    \E g \in Generation, ok \in BOOLEAN :
       LET call == <<"connect", g>>
           abandoned == call \in fence
           up == IF ok THEN g ELSE link
           cleanup == IF (abandoned /\ (ok \/ g[2] = "scanned"))
                         \/ (~abandoned /\ ~ok /\ g[2] = "scanned")
                      THEN LateCleanup(up) ELSE {}
       IN
       /\ g[1] = o /\ call \in tasks
       /\ link' = up
       /\ peripheral' \in IF up # None THEN {"connected"} ELSE {"disconnected", peripheral}
       /\ tasks' = (tasks \ {call}) \cup cleanup
       /\ fence' = (fence \ {call}) \cup cleanup
       /\ IF ok THEN Claim(g, TRUE) ELSE UNCHANGED owners
       /\ owned' = [owned EXCEPT ![o] = @ \/ (ok /\ ~abandoned)]
       /\ IF abandoned THEN UNCHANGED <<pc, way>>
          ELSE IF ok THEN Goto(o, "settling") /\ UNCHANGED way
          ELSE IF g[2] = "direct" THEN FallsBack(o)
          ELSE Goto(o, "failed") /\ UNCHANGED way
       /\ UNCHANGED <<adapter, kind, scanCleanup>>

-----------------------------------------------------------------------------
(* withScanCleanup starts one unless another is still stopping. *)
Scan(o) ==
    /\ pc[o] = "scan"
    /\ \/ ~ScanIdle /\ Goto(o, "failed") /\ UNCHANGED tasks
       \/ ScanIdle /\ Goto(o, "scanning") /\ tasks' = tasks \cup {<<"start", Gen(o)>>}
    /\ UNCHANGED <<adapter, kind, way, owned, owners, fence, scanCleanup, native>>

(* The scan has its result, or has failed, timed out or been interrupted:  *)
(* stop it, but only after its start has settled.  The seeded fault stops  *)
(* at once.                                                                *)
StopCalls_AtOnce(o) == {<<"stop", Gen(o)>>}
StopCalls(o) == IF <<"start", Gen(o)>> \in tasks THEN {} ELSE {<<"stop", Gen(o)>>}

ScanOver(o) ==
    /\ pc[o] = "scanning"
    /\ Goto(o, "found") \/ Goto(o, "unfound")
    /\ scanCleanup' = o
    /\ tasks' = tasks \cup StopCalls(o)
    /\ UNCHANGED <<adapter, kind, way, owned, owners, fence, native>>

StartSettles(o) ==
    LET call == <<"start", Gen(o)>> IN
    /\ call \in tasks
    /\ tasks' = (tasks \ {call}) \cup (IF scanCleanup = o THEN {<<"stop", Gen(o)>>} ELSE {})
    /\ UNCHANGED <<adapter, program, owners, fence, scanCleanup, native>>

(* The stop settles; if it fails while it is awaited, so does the scan. *)
StopSettles(o) ==
    LET call == <<"stop", Gen(o)>> IN
    /\ call \in tasks
    /\ tasks' = tasks \ {call}
    /\ scanCleanup' = IF scanCleanup = o THEN None ELSE scanCleanup
    /\ \/ pc[o] \notin {"found", "unfound"} /\ UNCHANGED <<pc, adapter>>
       \/ pc[o] \in {"found", "unfound"} /\ Goto(o, "failed") /\ UNCHANGED adapter
       \/ pc[o] = "found" /\ kind[o] = "scan" /\ Goto(o, "over") /\ Free(o)
       \/ pc[o] = "found" /\ kind[o] # "scan" /\ Goto(o, "fence") /\ UNCHANGED adapter
    /\ UNCHANGED <<kind, way, owned, owners, fence, native>>

-----------------------------------------------------------------------------
(* discoverProxyDataIn, discoverProfileCharacteristics: after the settle   *)
(* time, the native discovery ...                                          *)
Discover(o) ==
    /\ pc[o] = "settling"
    /\ Goto(o, "discovering")
    /\ tasks' = tasks \cup {<<"discover", Gen(o)>>}
    /\ UNCHANGED <<adapter, kind, way, owned, owners, fence, scanCleanup, native>>

(* ... settles.  A writer is ready, a profile subscribes. *)
DiscoverSettles(o) ==
    \E ok \in BOOLEAN :
       LET call == <<"discover", Gen(o)>>
           subscribes == ok /\ kind[o] = "profile" /\ pc[o] = "discovering"
       IN
       /\ call \in tasks
       /\ tasks' = (tasks \ {call}) \cup (IF subscribes THEN {<<"subscribe", Gen(o)>>} ELSE {})
       /\ fence' = fence \ {call}
       /\ IF pc[o] # "discovering" THEN UNCHANGED <<pc, adapter>>
          ELSE IF ~ok THEN Goto(o, "failed") /\ UNCHANGED adapter
          ELSE IF subscribes THEN Goto(o, "subscribing") /\ UNCHANGED adapter
          ELSE Goto(o, "ready") /\ Free(o)
       /\ UNCHANGED <<kind, way, owned, owners, scanCleanup, native>>

(* stopSubscription, once the subscription has settled: only the owner     *)
(* unsubscribes.                                                           *)
UnsubscribeCalls(o) == IF Owns(Gen(o)) THEN {<<"unsubscribe", Gen(o)>>} ELSE {}

SubscribeSettles(o) ==
    \E ok \in BOOLEAN :
       LET call == <<"subscribe", Gen(o)>>
           stops == call \in fence \/ (~ok /\ pc[o] = "subscribing")
           cleanup == IF stops THEN UnsubscribeCalls(o) ELSE {}
       IN
       /\ call \in tasks
       /\ tasks' = (tasks \ {call}) \cup cleanup
       /\ fence' = (fence \ {call}) \cup cleanup
       /\ IF pc[o] # "subscribing" THEN UNCHANGED <<pc, adapter>>
          ELSE IF ok THEN Goto(o, "ready") /\ Free(o)
          ELSE Goto(o, "failed") /\ UNCHANGED adapter
       /\ UNCHANGED <<kind, way, owned, owners, scanCleanup, native>>

UnsubscribeSettles(o) ==
    LET call == <<"unsubscribe", Gen(o)>> IN
    /\ call \in tasks
    /\ tasks' = tasks \ {call} /\ fence' = fence \ {call}
    /\ UNCHANGED <<adapter, program, owners, scanCleanup, native>>

-----------------------------------------------------------------------------
(* What a timeout or an interruption of a native call leaves: the call     *)
(* stays in the fence.  A scan is not fenced: scanCleanup guards it.  The  *)
(* seeded fault forgets a discovery.                                       *)
Abandoned_NotDiscovery(o) == {t \in tasks : t[1] \in GattCall \ {"discover"} /\ t[2] = Gen(o)}
Abandoned(o) == {t \in tasks : t[1] \in GattCall /\ t[2] = Gen(o)}

(* withBleTimeout and the other deadlines: every wait has one.  The seeded *)
(* fault waits for a connection without end.                               *)
Waits == {"fence", "begin", "connecting", "scan", "settling", "discovering",
          "subscribing", "found", "unfound"}
Deadlines_NotConnect == Waits \ {"connecting"}
Deadlines == Waits

(* A deadline or an interruption ends what the operation is waiting for. *)
GiveUp(o) ==
    /\ pc[o] \in Deadlines
    /\ Fence(Abandoned(o))
    /\ \/ Goto(o, "failed") /\ UNCHANGED way
       \/ pc[o] = "connecting" /\ way[o] = "direct" /\ FallsBack(o)
    /\ UNCHANGED <<adapter, kind, owned, owners, scanCleanup, tasks, native>>

(* The operation has failed and the mutex is released; the finalizers of a *)
(* profile run after that, those of a writer before.                       *)
Release(o) ==
    /\ pc[o] = "failed" /\ (kind[o] # "writer" \/ ~owned[o])
    /\ Free(o)
    /\ Goto(o, IF owned[o] THEN "unsubscribing" ELSE "over")
    /\ UNCHANGED <<kind, way, owned, owners, fence, scanCleanup, tasks, native>>

(* The scope of a profile closes: stop the notifications, ... *)
CloseScope(o) ==
    LET cleanup == UnsubscribeCalls(o) IN
    /\ pc[o] = "ready" /\ kind[o] = "profile"
    /\ tasks' = tasks \cup cleanup /\ Fence(cleanup)
    /\ Goto(o, "unsubscribing")
    /\ UNCHANGED <<adapter, kind, way, owned, owners, scanCleanup, native>>

(* A writer is closed by whoever has it, or by connectProxyWriter when it  *)
(* fails with a connection.                                                *)
WriterCloses(o) == pc[o] \in {"ready", "failed"} /\ kind[o] = "writer" /\ owned[o]

(* ... wait for that within a bound, and disconnect, as a writer does.     *)
(* Only the owner disconnects, and only what is not down yet.              *)
Close(o) ==
    LET cleanup == IF Owns(Gen(o)) THEN DisconnectCalls(link) ELSE {}
        waits == Owns(Gen(o)) /\ \E t \in tasks \cup cleanup : t[1] = "disconnect"
    IN
    /\ pc[o] = "unsubscribing" \/ WriterCloses(o)
    /\ tasks' = tasks \cup cleanup /\ Fence(cleanup)
    /\ \/ waits /\ Goto(o, "closing") /\ UNCHANGED adapter
       \/ ~waits /\ Goto(o, "over") /\ Free(o)
    /\ UNCHANGED <<kind, way, owned, owners, scanCleanup, native>>

(* The disconnect has succeeded (ok), was rejected or is no longer waited  *)
(* for.  A writer counts as closed only when it has succeeded: whoever was *)
(* handed one may close it again.  A profile, and a connectProxyWriter     *)
(* that has failed, are over in any case.  The seeded fault notes that it  *)
(* is closed before it disconnects.                                        *)
AfterClose_ClosedFirst(o, ok) == "over"
AfterClose(o, ok) == IF ~ok /\ kind[o] = "writer" /\ adapter # o THEN "ready" ELSE "over"

(* awaitDisconnect gives up waiting. *)
CloseTimesOut(o) ==
    /\ pc[o] = "closing"
    /\ Goto(o, AfterClose(o, FALSE)) /\ Free(o)
    /\ UNCHANGED <<kind, way, owned, owners, fence, scanCleanup, tasks, native>>

(* The native disconnect settles: whatever connection there is goes down,  *)
(* or the disconnect is rejected and leaves it up.  The fence is lifted    *)
(* either way, and who waits for the disconnect learns how it ended.       *)
DisconnectSettles ==
    \E g \in Generation, ok \in BOOLEAN :
       /\ <<"disconnect", g>> \in tasks
       /\ tasks' = tasks \ {<<"disconnect", g>>}
       /\ fence' = fence \ {<<"disconnect", g>>}
       /\ \/ ok /\ link' = None /\ peripheral' = "disconnected"
          \/ ~ok /\ UNCHANGED native
       /\ pc' = [o \in Op |-> IF pc[o] = "closing" THEN AfterClose(o, ok) ELSE pc[o]]
       /\ adapter' = IF \E o \in Op : adapter = o /\ pc[o] = "closing" THEN None ELSE adapter
       /\ UNCHANGED <<kind, way, owned, owners, scanCleanup>>

(* The connection drops. *)
Drop ==
    /\ link # None
    /\ link' = None /\ peripheral' = "disconnected"
    /\ UNCHANGED <<adapter, program, owners, fence, scanCleanup, tasks>>

-----------------------------------------------------------------------------
Step(o) ==
    \/ FencePassed(o) \/ Begin(o) \/ Scan(o) \/ ScanOver(o) \/ Discover(o)
    \/ GiveUp(o) \/ Release(o) \/ CloseTimesOut(o)
    \/ pc[o] # "ready" /\ Close(o)

Settle(o) ==
    \/ ConnectSettles(o) \/ StartSettles(o) \/ StopSettles(o) \/ DiscoverSettles(o)
    \/ SubscribeSettles(o) \/ UnsubscribeSettles(o)

Next ==
    \/ \E o \in Op : Acquire(o) \/ Step(o) \/ Settle(o) \/ Close(o) \/ CloseScope(o)
    \/ DisconnectSettles
    \/ Drop

Spec == Init /\ [][Next]_vars

(* An operation takes its own steps, its deadlines among them.  Nothing    *)
(* native ever has to settle.                                              *)
Fairness == \A o \in Op : WF_vars(Step(o))

-----------------------------------------------------------------------------
(* Native calls that have not settled all serve one generation: no late    *)
(* connect, discovery or unsubscribe of an old connection meets the one    *)
(* that replaced it.                                                       *)
Isolated ==
    \A s, t \in tasks : s[1] \in GattCall /\ t[1] \in GattCall => s[2] = t[2]

(* A disconnect that was given up never ends a connection opened since. *)
NoStrayDisconnect ==
    [][\A g \in Generation :
          <<"disconnect", g>> \in tasks /\ <<"disconnect", g>> \notin tasks' =>
              link \in {g, None} /\ peripheral # "connecting"]_vars

(* A scan never runs while the start or the stop of an earlier one is      *)
(* under way: neither can start or stop it.                                *)
ScanIsolated ==
    \A o \in Op : pc[o] = "scanning" =>
        \A t \in tasks : t[1] \in ScanCall => t[2][1] = o

(* Whatever hangs below, the adapter is passed on. *)
AdapterFreed == \A o \in Op : adapter = o ~> adapter # o
=============================================================================
