--------------------------- MODULE DiscoveryProofs ---------------------------
(***************************************************************************)
(* The shutdown of Discovery, for any lights, cycles and commands, however *)
(* often Homebridge starts.                                                *)
(***************************************************************************)
EXTENDS Discovery, TLAPS

Fields == DOMAIN Idle
Platform == Task \ Cli

Shaped == DOMAIN task = Task /\ \A t \in Task : DOMAIN task[t] = Fields

(* The shutdown waits for all that it has not seen end.                    *)
StoppedInv ==
    stopped => /\ live = {}
               /\ disposals \subseteq awaited
               /\ \A t \in Platform : task[t].pc \in Discovering => t \in awaited

IInv == Shaped /\ StoppedInv /\ (down => stopped) /\ ShutdownJoins

-----------------------------------------------------------------------------
LEMMA SetTask ==
    ASSUME Shaped, NEW t \in Task, NEW r, DOMAIN r = Fields, Set(t, r)
    PROVE  Shaped' /\ task'[t] = r /\ \A u \in Task \ {t} : task'[u] = task[u]
  BY DEF Shaped, Set

(* A task moves on: it begins to discover only while the platform runs.    *)
Moves(t) ==
    /\ \E r : /\ DOMAIN r = Fields /\ Set(t, r)
              /\ r.pc \in Discovering =>
                    t \in Cli \/ task[t].pc \in Discovering \/ ~stopped
    /\ UNCHANGED <<live, closing>>

LEMMA MovesKeeps == ASSUME IInv, NEW t \in Task, Moves(t) PROVE IInv'
  <1>1. UNCHANGED <<live, disposals, stopped, awaited, down>>
    BY DEF Moves, closing
  <1>2. PICK r : /\ DOMAIN r = Fields /\ Set(t, r)
                 /\ r.pc \in Discovering =>
                       t \in Cli \/ task[t].pc \in Discovering \/ ~stopped
    BY DEF Moves
  <1>3. Shaped' /\ task'[t] = r /\ \A u \in Task \ {t} : task'[u] = task[u]
    BY <1>2, SetTask DEF IInv
  <1>4. \A u \in Platform : task'[u].pc \in Discovering => task[u].pc \in Discovering \/ ~stopped
    BY <1>2, <1>3 DEF Platform
  <1> QED  BY <1>1, <1>3, <1>4 DEF IInv, StoppedInv, ShutdownJoins, Platform

LEMMA TaskShape ==
    ASSUME Shaped, NEW t \in Task
    PROVE  DOMAIN task[t] = Fields /\ DOMAIN Idle = Fields /\ {"pc"} \subseteq Fields
  BY DEF Shaped, Fields, Idle

(* The startup.                                                            *)
LEMMA StartupMoves ==
    ASSUME IInv, Launch \/ Load \/ Loaded \/ Recover \/ SaveEntries \/ PruneEntries
    PROVE  Moves(Startup)
  <1> USE TaskShape DEF IInv, Moves, At, Discovering, serving, closing
  <1>0. Startup \in Task
    BY DEF Task
  <1>1. CASE Launch
    BY <1>0, <1>1 DEF Launch, Goto, Accepts
  <1>2. CASE Load
    BY <1>0, <1>2 DEF Load
  <1>3. CASE Loaded
    BY <1>0, <1>3 DEF Loaded, Goto, End, Accepts
  <1>4. CASE Recover
    BY <1>0, <1>4 DEF Recover
  <1>5. CASE SaveEntries
    BY <1>0, <1>5 DEF SaveEntries, End
  <1>6. CASE PruneEntries
    BY <1>0, <1>6 DEF PruneEntries, End
  <1> QED  BY <1>1, <1>2, <1>3, <1>4, <1>5, <1>6

(* A scan cycle, a provisioning, a command.                                *)
LEMMA StepMoves ==
    ASSUME IInv, NEW t \in Task,
           \/ StartCycle(t) \/ Scan(t) \/ Plan(t) \/ Provision(t) \/ Bind(t)
           \/ ReadRegistry(t) \/ WriteRegistry(t) \/ Provisioned(t) \/ Abort(t)
           \/ \E l \in Light : CliProvision(t, l) \/ CliForget(t, l)
    PROVE  Moves(t)
  <1> USE TaskShape DEF IInv, Moves, At, Discovering, serving, closing
  <1>1. CASE StartCycle(t)
    BY <1>1 DEF StartCycle, Accepts
  <1>2. CASE Scan(t)
    BY <1>2 DEF Scan
  <1>3. CASE Plan(t)
    BY <1>3 DEF Plan
  <1>4. CASE Provision(t)
    BY <1>4 DEF Provision, End
  <1>5. CASE Bind(t)
    BY <1>5 DEF Bind
  <1>6. CASE ReadRegistry(t)
    BY <1>6 DEF ReadRegistry
  <1>7. CASE WriteRegistry(t)
    BY <1>7 DEF WriteRegistry
  <1>8. CASE Provisioned(t)
    BY <1>8 DEF Provisioned, Goto
  <1>9. CASE Abort(t)
    BY <1>9 DEF Abort, End
  <1>10. ASSUME NEW l \in Light, CliProvision(t, l) \/ CliForget(t, l) PROVE Moves(t)
    BY <1>10 DEF CliProvision, CliForget, End
  <1> QED  BY <1>1, <1>2, <1>3, <1>4, <1>5, <1>6, <1>7, <1>8, <1>9, <1>10

(* A light is served only while the platform runs.                         *)
LEMMA MaterializeKeeps == ASSUME IInv, NEW t \in Task, Materialize(t) PROVE IInv'
  <1> DEFINE r == [Idle EXCEPT !.pc = "over"]
  <1>1. DOMAIN r = Fields /\ r.pc \notin Discovering
    BY DEF Fields, Idle, Discovering
  <1>2. Shaped' /\ task'[t] = r /\ \A u \in Task \ {t} : task'[u] = task[u]
    BY <1>1, SetTask DEF IInv, Materialize, End
  <1>3. UNCHANGED <<stopped, awaited, down>> /\ (stopped => UNCHANGED <<live, disposals>>)
    BY DEF Materialize, MayMaterialize, serving
  <1> QED  BY <1>1, <1>2, <1>3 DEF IInv, StoppedInv, ShutdownJoins, Platform

(* The shutdown.                                                           *)
LEMMA ClosingKeeps ==
    ASSUME IInv,
           \/ Shutdown \/ ShutdownEnds \/ Restart \/ UNCHANGED vars
           \/ \E l \in Light : DisposalSettles(l)
    PROVE  IInv'
  <1> USE DEF IInv, Shaped, StoppedInv, ShutdownJoins, Platform
  <1>1. CASE Shutdown
    BY <1>1 DEF Shutdown, Aborted
  <1>2. CASE ShutdownEnds
    BY <1>2 DEF ShutdownEnds, serving
  <1>3. CASE Restart
    <2>1. Shaped'
      BY <1>3 DEF Restart, Fields
    <2> QED  BY <1>3, <2>1 DEF Restart
  <1>4. CASE UNCHANGED vars
    BY <1>4 DEF vars, serving, closing
  <1>5. CASE \E l \in Light : DisposalSettles(l)
    BY <1>5 DEF DisposalSettles, serving
  <1> QED  BY <1>1, <1>2, <1>3, <1>4, <1>5

LEMMA InitInv == Init => IInv
  BY DEF Init, IInv, Shaped, Fields, StoppedInv, ShutdownJoins

(* The inductive invariant.                                                *)
THEOREM Inductive == Spec => []IInv
  <1>1. IInv /\ [Next]_vars => IInv'
    <2> SUFFICES ASSUME IInv, [Next]_vars PROVE IInv'
      OBVIOUS
    <2>1. Startup \in Task
      BY DEF Task
    <2>2. CASE Launch \/ Load \/ Loaded \/ Recover \/ SaveEntries \/ PruneEntries
      BY <2>1, <2>2, StartupMoves, MovesKeeps
    <2>3. ASSUME NEW t \in Task, Step(t) PROVE IInv'
      BY <2>3, StepMoves, MovesKeeps, MaterializeKeeps DEF Step
    <2> QED  BY <2>2, <2>3, ClosingKeeps DEF Next
  <1> QED  BY <1>1, InitInv, PTL DEF Spec

(* Nothing that discovery still did leaves a light behind that nobody      *)
(* disposes of.                                                            *)
THEOREM NoneOrphaned == Spec => []NoOrphan
  <1>1. IInv => NoOrphan
    BY DEF IInv, StoppedInv, NoOrphan
  <1> QED  BY <1>1, Inductive, PTL

(* When the shutdown has ended, so have discovery and all disposals.       *)
THEOREM ShutdownComplete == Spec => []ShutdownJoins
  <1>1. IInv => ShutdownJoins
    BY DEF IInv
  <1> QED  BY <1>1, Inductive, PTL
=============================================================================
