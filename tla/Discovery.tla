------------------------------ MODULE Discovery ------------------------------
(***************************************************************************)
(* The Homebridge platform (packages/homebridge/src/platform.ts), its      *)
(* startup scan and periodic scan cycles (discovery.ts), and the light     *)
(* registry they share with the command line (packages/core/src/           *)
(* registry.ts, packages/cli/src/godox.ts).  A task is the startup, a scan *)
(* cycle (the interval does not wait for the last one) or a command of the *)
(* CLI; an action is what it does between two awaits.  A light is its      *)
(* address, its name and its file of mesh state in one; what a             *)
(* provisioning does in detail is module Provisioning.                     *)
(***************************************************************************)
EXTENDS Integers, FiniteSets, FiniteSetsExt

CONSTANTS
    Light, Cycle, Cli,
    None,
    Setup,          \* the node addresses of the lights that have one at first
    Configs,        \* the configurations
    MaxStarts       \* how often Homebridge starts

Startup == "startup"
Task == {Startup} \cup Cycle \cup Cli
Flag == {"startupScan", "startupPruneMissing", "autoProvisionOnStartup", "autoProvision"}

ASSUME SetupAssumption == Setup \in [Light -> Nat \cup {None}] /\ None \notin Nat
ASSUME ConfigsAssumption == Configs \subseteq SUBSET Flag
ASSUME TaskAssumption ==
    Startup \notin Cycle \cup Cli /\ Cycle \cap Cli = {} /\ Task \cap Light = {}

VARIABLES
    (* outside *)
    node,           \* node[l]: the mesh and the node address the light has accepted
    meshes,         \* how many networks have been created
    (* on disk *)
    states,         \* states[l]: the mesh and node address in its state file
    registry,       \* the lights in registry.json
    homekit,        \* the accessories Homebridge knows, and caches
    (* the platform *)
    starts, config,
    task,           \* task[t]: where it stands and what it holds
    accessories,    \* accessoriesByUUID: the lights with an accessory,
    live,           \*   and those of them with a GodoxLightAccessory to serve it
    disposals,      \* accessoryDisposals
    stopped,
    awaited,        \* what the shutdown waits for
    down            \* it has ended

world == <<node, meshes>>
disk == <<states, registry>>
serving == <<accessories, live, homekit>>
closing == <<disposals, stopped, awaited, down>>
vars == <<world, disk, starts, config, task, serving, closing>>

Idle == [pc |-> "idle", known |-> {}, recovered |-> {}, fresh |-> {}, visible |-> {},
         mesh |-> None, next |-> None, todo |-> {}, at |-> None, read |-> {}, done |-> {}]

(* What runDiscovery runs, and shutdown aborts. *)
Discovering == {"loading", "scanning", "recovering", "planning", "provisioning",
                "binding", "registering", "writing", "saving", "pruning"}

Init ==
    /\ node = [l \in Light |-> IF Setup[l] = None THEN None ELSE <<1, Setup[l]>>]
    /\ meshes = 1 /\ states = node
    /\ registry = {l \in Light : node[l] # None} /\ homekit = registry
    /\ starts = 1 /\ config \in Configs
    /\ task = [t \in Task |-> Idle]
    /\ accessories = homekit /\ live = {} /\ disposals = {}
    /\ stopped = FALSE /\ awaited = {} /\ down = FALSE

At(t, pc) == task[t].pc = pc
Set(t, record) == task' = [task EXCEPT ![t] = record]
Goto(t, pc) == Set(t, [task[t] EXCEPT !.pc = pc])
End(t, pc) == Set(t, [Idle EXCEPT !.pc = pc])

(* runDiscovery refuses when the platform has stopped; the seeded fault    *)
(* does not ask.                                                           *)
Accepts_Always == TRUE
Accepts == ~stopped

-----------------------------------------------------------------------------
(* didFinishLaunching: the registry is loaded (discoverKnownLights); one   *)
(* that cannot be read counts as empty.                                    *)
Launch ==
    /\ At(Startup, "idle") /\ Accepts
    /\ Goto(Startup, "loading")
    /\ UNCHANGED <<world, disk, starts, config, serving, closing>>

Load ==
    /\ At(Startup, "loading")
    /\ \E known \in {registry, {}} :
          Set(Startup, [task[Startup] EXCEPT !.pc = "loaded", !.known = known])
    /\ UNCHANGED <<world, disk, starts, config, serving, closing>>

(* runStartupScan is another task. *)
Loaded ==
    /\ At(Startup, "loaded")
    /\ IF ~Accepts THEN End(Startup, "over")
       ELSE Goto(Startup, IF "startupScan" \in config THEN "scanning" ELSE "found")
    /\ UNCHANGED <<world, disk, starts, config, serving, closing>>

(* scanCycle, from the interval: it knows the lights that are served. *)
StartCycle(t) ==
    /\ t \in Cycle /\ At(t, "idle") /\ task[Startup].pc \in {"over", "failed"}
    /\ "autoProvision" \in config /\ Accepts
    /\ Set(t, [Idle EXCEPT !.pc = "scanning", !.known = live])
    /\ UNCHANGED <<world, disk, starts, config, serving, closing>>

(* scanGodoxDevices: a scan sees some of the lights, or fails and counts   *)
(* as one that sees none.                                                  *)
Scan(t) ==
    /\ At(t, "scanning")
    /\ \E fresh \in SUBSET {l \in Light : node[l] = None},
          visible \in SUBSET {l \in Light : node[l] # None} :
          Set(t, [task[t] EXCEPT !.pc = IF t = Startup THEN "recovering" ELSE "planning",
                                 !.fresh = fresh, !.visible = visible])
    /\ UNCHANGED <<world, disk, starts, config, serving, closing>>

(* recoverEntriesFromStateFiles: lights that are seen and have a state     *)
(* file, but no entry.                                                     *)
Recover ==
    LET t == task[Startup]
        recovered == {l \in t.visible \ t.known : states[l] # None}
    IN
    /\ At(Startup, "recovering")
    /\ Set(Startup, [t EXCEPT !.known = @ \cup recovered, !.recovered = recovered,
                 !.pc = IF "autoProvisionOnStartup" \in config THEN "planning" ELSE "saving"])
    /\ UNCHANGED <<world, disk, starts, config, serving, closing>>

(* meshProvisioningPlan: the mesh of most visible lights, then of most     *)
(* lights, and the address after its highest.                              *)
Nodes(known, m) == {l \in known : states[l] # None /\ states[l][1] = m}
NodeAddresses(known, m) == {states[l][2] : l \in Nodes(known, m)}
Ranks(known, visible, m, n) ==
    LET v(x) == Cardinality(Nodes(known, x) \cap visible)
        s(x) == Cardinality(NodeAddresses(known, x))
    IN v(m) > v(n) \/ (v(m) = v(n) /\ s(m) >= s(n))

Plan(t) ==
    LET known == task[t].known
        candidates == {m \in 1 .. meshes : Nodes(known, m) # {}}
    IN
    /\ At(t, "planning")
    /\ IF candidates = {}
       THEN Set(t, [task[t] EXCEPT !.pc = "provisioning", !.todo = task[t].fresh, !.fresh = {}])
       ELSE \E m \in candidates :
               /\ \A n \in candidates : Ranks(known, task[t].visible, m, n)
               /\ Set(t, [task[t] EXCEPT !.pc = "provisioning", !.todo = task[t].fresh, !.fresh = {},
                             !.mesh = m, !.next = Max(NodeAddresses(known, m)) + 1])
    /\ UNCHANGED <<world, disk, starts, config, serving, closing>>

-----------------------------------------------------------------------------
(* provisionAndRebind for a candidate: the light may not be there any      *)
(* more, fail, or accept keys that are never saved; an answer it should    *)
(* not give is a defect, which ends the task.  Without a plan the keys are *)
(* new and the address is the default.                                     *)
Provision(t) ==
    \E l \in task[t].todo :
       LET r == task[t]
           m == IF r.mesh = None THEN meshes + 1 ELSE r.mesh
           n == IF r.next = None THEN 2 ELSE r.next
           rest == [r EXCEPT !.todo = @ \ {l}]
       IN
       /\ At(t, "provisioning")
       /\ \/ Set(t, rest) /\ UNCHANGED <<world, states>>
          \/ End(t, "failed") /\ UNCHANGED <<world, states>>
          \/ /\ node[l] = None
             /\ node' = [node EXCEPT ![l] = <<m, n>>]
             /\ meshes' = IF r.mesh = None THEN meshes + 1 ELSE meshes
             /\ \/ Set(t, rest) /\ UNCHANGED states
                \/ /\ Set(t, [rest EXCEPT !.pc = "binding", !.at = l])
                   /\ states' = [states EXCEPT ![l] = <<m, n>>]
       /\ UNCHANGED <<registry, starts, config, serving, closing>>

(* ... and its rebind.  Only success moves the next address on.  A CLI     *)
(* command that fails ends.                                                *)
Bind(t) ==
    LET r == task[t] IN
    /\ At(t, "binding")
    /\ \/ Set(t, [r EXCEPT !.pc = IF t \in Cli THEN "over" ELSE "provisioning", !.at = None])
       \/ Set(t, [r EXCEPT !.pc = "registering",
                           !.next = IF @ = None THEN None ELSE @ + 1])
    /\ UNCHANGED <<world, disk, starts, config, serving, closing>>

(* register: load the registry ... *)
ReadRegistry(t) ==
    /\ At(t, "registering")
    /\ Set(t, [task[t] EXCEPT !.pc = "writing", !.read = registry])
    /\ UNCHANGED <<world, disk, starts, config, serving, closing>>

(* ... and save it with the entry, or fail. *)
WriteRegistry(t) ==
    LET r == task[t]
        next == [r EXCEPT !.pc = IF t \in Cli THEN "over" ELSE "provisioning",
                          !.at = None, !.read = {}]
    IN
    /\ At(t, "writing")
    /\ \/ /\ registry' = r.read \cup {r.at}
          /\ Set(t, [next EXCEPT !.done = @ \cup {r.at}])
       \/ Set(t, next) /\ UNCHANGED registry
    /\ UNCHANGED <<world, states, starts, config, serving, closing>>

(* provisionCandidates has no candidate left. *)
Provisioned(t) ==
    /\ At(t, "provisioning") /\ task[t].todo = {}
    /\ IF t = Startup THEN Goto(t, "saving")
       ELSE Set(t, [Idle EXCEPT !.pc = IF t \in Cycle THEN "found" ELSE "over",
                                !.done = IF t \in Cycle THEN task[t].done ELSE {}])
    /\ UNCHANGED <<world, disk, starts, config, serving, closing>>

(* The rest of runStartupScan: the registry with the recovered entries is  *)
(* saved, if there are any, ...                                            *)
SaveEntries ==
    LET r == task[Startup]
        entries == r.known \cup r.done
    IN
    /\ At(Startup, "saving")
    /\ \/ /\ registry' = IF r.recovered # {} THEN entries ELSE registry
          /\ Set(Startup, [r EXCEPT !.pc = "pruning", !.known = entries])
       \/ r.recovered # {} /\ End(Startup, "failed") /\ UNCHANGED registry
    /\ UNCHANGED <<world, states, starts, config, serving, closing>>

(* ... and then the one without the lights that the scan did not see,      *)
(* unless it saw none.                                                     *)
PruneEntries ==
    LET r == task[Startup]
        prunes == "startupPruneMissing" \in config /\ r.visible # {}
        kept == IF prunes THEN r.known \cap r.visible ELSE r.known
    IN
    /\ At(Startup, "pruning")
    /\ \/ /\ registry' = IF prunes THEN kept ELSE registry
          /\ Set(Startup, [Idle EXCEPT !.pc = "found", !.known = kept])
       \/ prunes /\ End(Startup, "failed") /\ UNCHANGED registry
    /\ UNCHANGED <<world, states, starts, config, serving, closing>>

-----------------------------------------------------------------------------
(* materializeAccessories, after proxyFallbacksFor at startup: nothing     *)
(* when stopped.  The startup reconciles: accessories of unknown lights    *)
(* are disposed of.  The seeded fault does not ask.                        *)
MayMaterialize_Always == TRUE
MayMaterialize == ~stopped
Stale(t) == IF t = Startup THEN accessories \ task[t].known ELSE {}

Materialize(t) ==
    LET entries == task[t].known \cup task[t].done IN
    /\ At(t, "found")
    /\ End(t, "over")
    /\ IF ~MayMaterialize THEN UNCHANGED <<serving, disposals>>
       ELSE /\ accessories' = (accessories \cup entries) \ Stale(t)
            /\ homekit' = (homekit \cup entries) \ Stale(t)
            /\ live' = (live \cup entries) \ Stale(t)
            /\ disposals' = disposals \cup (live \cap Stale(t))
    /\ UNCHANGED <<world, disk, starts, config, stopped, awaited, down>>

(* shutdown: the tasks are aborted and every light disposed of, and their  *)
(* ends awaited.  Anything may be called again after; it changes nothing.  *)
Aborted == {t \in Task \ Cli : task[t].pc \in Discovering}

Shutdown ==
    /\ ~stopped /\ stopped' = TRUE
    /\ disposals' = disposals \cup live /\ live' = {}
    /\ awaited' = Aborted \cup disposals'
    /\ UNCHANGED <<world, disk, starts, config, task, accessories, homekit, down>>

Abort(t) ==
    /\ stopped /\ t \notin Cli /\ task[t].pc \in Discovering
    /\ End(t, "over")
    /\ UNCHANGED <<world, disk, starts, config, serving, closing>>

DisposalSettles(l) ==
    /\ l \in disposals
    /\ disposals' = disposals \ {l}
    /\ UNCHANGED <<world, disk, starts, config, task, serving, stopped, awaited, down>>

ShutdownEnds ==
    /\ stopped /\ ~down /\ awaited \cap disposals = {}
    /\ \A t \in awaited \cap Task : task[t].pc \notin Discovering
    /\ down' = TRUE
    /\ UNCHANGED <<world, disk, starts, config, task, serving, disposals, stopped, awaited>>

(* Homebridge starts again, after a shutdown or a crash: configureAccessory *)
(* restores what it cached.                                                *)
Restart ==
    /\ starts < MaxStarts /\ starts' = starts + 1
    /\ task' = [t \in Task |-> IF t \in Cli THEN task[t] ELSE Idle]
    /\ accessories' = homekit /\ live' = {} /\ disposals' = {}
    /\ stopped' = FALSE /\ awaited' = {} /\ down' = FALSE
    /\ UNCHANGED <<world, disk, config, homekit>>

-----------------------------------------------------------------------------
(* godox provision: keys of its own; and godox forget. *)
CliProvision(t, l) ==
    /\ t \in Cli /\ At(t, "idle") /\ node[l] = None
    /\ Set(t, [Idle EXCEPT !.pc = "provisioning", !.todo = {l}])
    /\ UNCHANGED <<world, disk, starts, config, serving, closing>>

(* removeLight, like register, in two steps. *)
CliForget(t, l) ==
    /\ t \in Cli
    /\ \/ /\ At(t, "idle") /\ l \in registry
          /\ Set(t, [Idle EXCEPT !.pc = "forgetting", !.at = l, !.read = registry])
          /\ UNCHANGED registry
       \/ /\ At(t, "forgetting") /\ task[t].at = l
          /\ registry' = task[t].read \ {l}
          /\ End(t, "over")
    /\ UNCHANGED <<world, states, starts, config, serving, closing>>

Step(t) ==
    \/ StartCycle(t) \/ Scan(t) \/ Plan(t) \/ Provision(t) \/ Bind(t) \/ ReadRegistry(t)
    \/ WriteRegistry(t) \/ Provisioned(t) \/ Materialize(t) \/ Abort(t)
    \/ \E l \in Light : CliProvision(t, l) \/ CliForget(t, l)

Next ==
    \/ Launch \/ Load \/ Loaded \/ Recover \/ SaveEntries \/ PruneEntries
    \/ \E t \in Task : Step(t)
    \/ Shutdown \/ ShutdownEnds \/ Restart
    \/ \E l \in Light : DisposalSettles(l)

Spec == Init /\ [][Next]_vars

-----------------------------------------------------------------------------
(* Once the platform stops, no light is left that is not being disposed    *)
(* of, whatever discovery was still doing: its controller would keep the   *)
(* light's connection.                                                     *)
NoOrphan == stopped => live = {}

(* When the shutdown has ended, no discovery runs and no light is still    *)
(* closing its connection.                                                 *)
ShutdownJoins ==
    down => disposals = {} /\ \A t \in Task \ Cli : task[t].pc \notin Discovering

(* No two lights of one mesh have the same node address. *)
UniqueNodeAddress ==
    \A l, k \in Light : l # k /\ node[l] # None => node[l] # node[k]
=============================================================================
