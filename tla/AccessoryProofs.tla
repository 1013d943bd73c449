--------------------------- MODULE AccessoryProofs ---------------------------
(***************************************************************************)
(* The invariants of Accessory, for any number of settings and commands.   *)
(***************************************************************************)
EXTENDS Accessory, TLAPS

(* The verdict is that of the last command counted, which is the newest.   *)
Counted ==
    /\ \A i \in Id : ~disposed /\ answers[i] # None => i <= lastCompletedCommandId
    /\ lastCompletedCommandId # 0 =>
          /\ answers[lastCompletedCommandId] # None
          /\ communicationFailed = (answers[lastCompletedCommandId] = "failure")

(* What waits is what HomeKit wants. *)
Fresh == pending # None /\ ~overtaken /\ ~disposed => pending = state

(* The actions of HomeKit that schedule a snapshot. *)
Set ==
    \/ SetOn \/ SetOff
    \/ \E level \in Level : SetBrightness(level) \/ SetColorTemperature(level) \/ SetColor(level)

LEMMA Cases ==
    ASSUME Next
    PROVE  \/ Set
           \/ \E mode \in Preset, level \in Level : SetPreset(mode, level)
           \/ EchoWindowEnds \/ Flush \/ Dispose
           \/ \E i \in Id, answer \in {"success", "failure"} : Complete(i, answer)
  BY DEF Next, Set

-----------------------------------------------------------------------------
LEMMA SetFrame ==
    ASSUME TypeOK, Set
    PROVE  /\ overtaken' = FALSE
           /\ UNCHANGED <<commands, answers, nextCommandId, verdict, disposed>>
           /\ sets' \in 0 .. MaxSet
  <1>1. CASE SetOn \/ SetOff
    BY <1>1, BoundsAssumption DEF SetOn, SetOff, Handles, TypeOK
  <1>2. ASSUME NEW level \in Level,
               SetBrightness(level) \/ SetColorTemperature(level) \/ SetColor(level)
        PROVE  /\ overtaken' = FALSE
               /\ UNCHANGED <<commands, answers, nextCommandId, verdict, disposed>>
               /\ sets' \in 0 .. MaxSet
    BY <1>2, BoundsAssumption
    DEF SetBrightness, SetColorTemperature, SetColor, Handles, TypeOK
  <1> QED  BY <1>1, <1>2 DEF Set

(* A setting leaves a state, and what it schedules is that state. *)
LEMMA SetState ==
    ASSUME TypeOK, Set
    PROVE  /\ state' \in Settings /\ lastActiveState' \in Settings
           /\ IF disposed THEN pending' = pending ELSE pending' = state'
  <1>1. CASE SetOn
    <2>1. [lastActiveState EXCEPT !.on = TRUE] \in Settings
      BY DEF TypeOK, Settings
    <2> QED  BY <1>1, <2>1 DEF SetOn, Queue, TypeOK
  <1>2. CASE SetOff
    <2>1. [state EXCEPT !.on = FALSE] \in Settings
      BY DEF TypeOK, Settings
    <2> QED  BY <1>2, <2>1 DEF SetOff, TypeOK
  <1>3. ASSUME NEW level \in Level, SetBrightness(level)
        PROVE  /\ state' \in Settings /\ lastActiveState' \in Settings
               /\ IF disposed THEN pending' = pending ELSE pending' = state'
    <2>1. [state EXCEPT !.level = level, !.on = state.on \/ level > 0] \in Settings
      BY DEF TypeOK, Settings
    <2> QED  BY <1>3, <2>1 DEF SetBrightness, Queue, TypeOK
  <1>4. ASSUME NEW level \in Level, SetColorTemperature(level)
        PROVE  /\ state' \in Settings /\ lastActiveState' \in Settings
               /\ IF disposed THEN pending' = pending ELSE pending' = state'
    <2>1. restoredMode # None => [state EXCEPT !.on = TRUE, !.mode = restoredMode] \in Settings
      BY DEF TypeOK, Settings
    <2>2. [on |-> TRUE, mode |-> "cct", level |-> level] \in Settings
      BY DEF Settings, Mode
    <2> QED  BY <1>4, <2>1, <2>2 DEF SetColorTemperature, Queue, TypeOK
  <1>5. ASSUME NEW level \in Level, SetColor(level)
        PROVE  /\ state' \in Settings /\ lastActiveState' \in Settings
               /\ IF disposed THEN pending' = pending ELSE pending' = state'
    <2>1. [on |-> TRUE, mode |-> "hsi", level |-> level] \in Settings
      BY DEF Settings, Mode
    <2> QED  BY <1>5, <2>1 DEF SetColor, Queue, TypeOK
  <1> QED  BY <1>1, <1>2, <1>3, <1>4, <1>5 DEF Set

(* A setting leaves no mode to be restored but the current one. *)
LEMMA SetEcho ==
    ASSUME TypeOK, EchoIsCurrent, Set
    PROVE  /\ restoredMode' \in Mode \cup {None} /\ echoes' \in BOOLEAN
           /\ EchoIsCurrent'
  <1>1. CASE SetOn
    <2>1. lastActiveState.mode \in Mode
      BY DEF TypeOK, Settings
    <2>2. state'.mode = lastActiveState.mode
      BY <1>1 DEF SetOn, Queue, TypeOK, Settings
    <2> QED  BY <1>1, <2>1, <2>2 DEF SetOn, SuppressEcho, EchoIsCurrent
  <1>2. CASE SetOff
    BY <1>2 DEF SetOff, ClearEcho, EchoIsCurrent
  <1>3. ASSUME NEW level \in Level, SetBrightness(level)
        PROVE  /\ restoredMode' \in Mode \cup {None} /\ echoes' \in BOOLEAN
               /\ EchoIsCurrent'
    <2>1. state'.mode = state.mode
      BY <1>3 DEF SetBrightness, Queue, TypeOK, Settings
    <2> QED  BY <1>3, <2>1 DEF SetBrightness, EchoIsCurrent, TypeOK
  <1>4. ASSUME NEW level \in Level, SetColorTemperature(level)
        PROVE  /\ restoredMode' \in Mode \cup {None} /\ echoes' \in BOOLEAN
               /\ EchoIsCurrent'
    <2>1. CASE restoredMode # None /\ echoes
      <3>1. state'.mode = restoredMode
        BY <1>4, <2>1 DEF SetColorTemperature, Queue, TypeOK, Settings
      <3> QED  BY <1>4, <2>1, <3>1 DEF SetColorTemperature, EchoIsCurrent, TypeOK
    <2>2. CASE ~(restoredMode # None /\ echoes)
      BY <1>4, <2>2 DEF SetColorTemperature, EchoIsCurrent
    <2> QED  BY <2>1, <2>2
  <1>5. ASSUME NEW level \in Level, SetColor(level)
        PROVE  /\ restoredMode' \in Mode \cup {None} /\ echoes' \in BOOLEAN
               /\ EchoIsCurrent'
    BY <1>5 DEF SetColor, SuppressEcho, Queue, EchoIsCurrent, Mode
  <1> QED  BY <1>1, <1>2, <1>3, <1>4, <1>5 DEF Set

-----------------------------------------------------------------------------
(* A command is sent, or, when disposed, nothing is. *)
LEMMA RunSends ==
    ASSUME TypeOK, NEW s \in Settings, Run(s)
    PROVE  /\ commands' \in [Id -> Settings \cup {None}]
           /\ nextCommandId' \in 0 .. MaxCommand
           /\ ~disposed => nextCommandId' > 0 /\ commands'[nextCommandId'] = s
  <1>1. CASE disposed
    BY <1>1 DEF Run, TypeOK
  <1>2. CASE ~disposed
    <2>1. nextCommandId' = nextCommandId + 1 /\ nextCommandId' \in Id
      BY <1>2, BoundsAssumption DEF Run, TypeOK, Id
    <2>2. commands' = [commands EXCEPT ![nextCommandId'] = s]
      BY <1>2 DEF Run
    <2>3. commands'[nextCommandId'] = s
      BY <2>1, <2>2 DEF TypeOK
    <2>4. commands' \in [Id -> Settings \cup {None}]
      BY <2>1, <2>2 DEF TypeOK
    <2> QED  BY <2>1, <2>3, <2>4, BoundsAssumption DEF TypeOK, Id
  <1> QED  BY <1>1, <1>2

IInv == TypeOK /\ EchoIsCurrent /\ Counted /\ Fresh /\ Converges

LEMMA InitInv == Init => IInv
  <1> SUFFICES ASSUME Init PROVE IInv
    OBVIOUS
  <1>1. Initially \in Settings /\ [Initially EXCEPT !.on = TRUE] \in Settings
    BY LevelAssumption DEF Initially, Settings, Mode
  <1>2. TypeOK
    <2>1. /\ commands \in [Id -> Settings \cup {None}]
          /\ answers \in [Id -> {"success", "failure", None}]
      BY DEF Init
    <2>2. /\ nextCommandId \in 0 .. MaxCommand /\ lastCompletedCommandId \in 0 .. MaxCommand
          /\ sets \in 0 .. MaxSet
      BY BoundsAssumption DEF Init
    <2>3. communicationFailed \in BOOLEAN /\ overtaken \in BOOLEAN /\ disposed \in BOOLEAN
      BY DEF Init
    <2>4. /\ state \in Settings /\ lastActiveState \in Settings
          /\ restoredMode \in Mode \cup {None} /\ echoes \in BOOLEAN
          /\ pending \in Settings \cup {None}
      BY <1>1 DEF Init
    <2> QED  BY <2>1, <2>2, <2>3, <2>4, Zenon DEF TypeOK
  <1>3. EchoIsCurrent /\ Fresh /\ Converges
    BY DEF Init, EchoIsCurrent, Fresh, Converges
  <1>4. Counted
    BY DEF Init, Counted
  <1> QED  BY <1>2, <1>3, <1>4 DEF IInv

LEMMA SetInv == ASSUME IInv, Set PROVE IInv'
  <1>1. TypeOK'
    BY SetFrame, SetState, SetEcho DEF IInv, TypeOK, verdict
  <1>2. EchoIsCurrent'
    BY SetEcho DEF IInv
  <1>3. Counted'
    BY SetFrame DEF IInv, Counted, verdict
  <1>4. Fresh' /\ Converges'
    <2>1. ~disposed' => pending' = state' /\ pending' # None
      BY SetFrame, SetState, NoneAssumption DEF IInv
    <2> QED  BY <2>1 DEF Fresh, Converges
  <1> QED  BY <1>1, <1>2, <1>3, <1>4 DEF IInv

LEMMA PresetInv ==
    ASSUME IInv, NEW mode \in Preset, NEW level \in Level, SetPreset(mode, level)
    PROVE  IInv'
  <1>1. state' \in Settings
    BY DEF SetPreset, Settings, Mode
  <1>2. Run(state')
    BY DEF SetPreset
  <1>3. /\ commands' \in [Id -> Settings \cup {None}]
        /\ nextCommandId' \in 0 .. MaxCommand
        /\ ~disposed => nextCommandId' > 0 /\ commands'[nextCommandId'] = state'
    BY <1>1, <1>2, RunSends DEF IInv
  <1>4. TypeOK'
    <2>1. sets' \in 0 .. MaxSet
      BY BoundsAssumption DEF IInv, TypeOK, SetPreset
    <2>2. restoredMode' \in Mode \cup {None} /\ echoes' \in BOOLEAN /\ overtaken' \in BOOLEAN
      BY Zenon DEF SetPreset, ClearEcho
    <2>3. UNCHANGED <<lastActiveState, pending, answers, verdict, disposed>>
      BY DEF SetPreset
    <2> QED  BY <1>1, <1>3, <2>1, <2>2, <2>3 DEF IInv, TypeOK, verdict
  <1>5. EchoIsCurrent'
    BY DEF SetPreset, ClearEcho, EchoIsCurrent
  <1>6. Counted'
    BY DEF IInv, Counted, SetPreset, verdict
  <1>7. Fresh' /\ Converges'
    BY <1>3 DEF SetPreset, Fresh, Converges
  <1> QED  BY <1>4, <1>5, <1>6, <1>7 DEF IInv

LEMMA FlushInv == ASSUME IInv, Flush PROVE IInv'
  <1>1. pending \in Settings
    BY DEF IInv, TypeOK, Flush
  <1>2. Run(pending)
    BY DEF Flush, Snapshot
  <1>3. /\ commands' \in [Id -> Settings \cup {None}]
        /\ nextCommandId' \in 0 .. MaxCommand
        /\ ~disposed => nextCommandId' > 0 /\ commands'[nextCommandId'] = pending
    BY <1>1, <1>2, RunSends DEF IInv
  <1>4. TypeOK'
    BY <1>3 DEF IInv, TypeOK, Flush, desired, verdict
  <1>5. EchoIsCurrent'
    BY DEF IInv, Flush, EchoIsCurrent, desired
  <1>6. Counted'
    BY DEF IInv, Counted, Flush, verdict
  <1>7. Fresh' /\ Converges'
    BY <1>3 DEF IInv, Flush, Fresh, Converges, desired
  <1> QED  BY <1>4, <1>5, <1>6, <1>7 DEF IInv

(* An answer counts only if it is newer than the last one that did. *)
LEMMA CompleteInv ==
    ASSUME IInv, NEW i \in Id, NEW answer \in {"success", "failure"}, Complete(i, answer)
    PROVE  IInv'
  <1> USE DEF IInv
  <1>1. answers' \in [Id -> {"success", "failure", None}]
    BY DEF TypeOK, Complete
  <1>2. /\ answers'[i] = answer /\ answer # None
        /\ \A j \in Id : j # i => answers'[j] = answers[j]
    BY NoneAssumption DEF TypeOK, Complete
  <1>3. TypeOK'
    <2>1. UNCHANGED <<desired, pending, sets, commands, nextCommandId, overtaken, disposed>>
      BY DEF Complete
    <2>2. lastCompletedCommandId' \in 0 .. MaxCommand /\ communicationFailed' \in BOOLEAN
      <3>1. CASE Counts(i)
        <4>1. lastCompletedCommandId' = i /\ communicationFailed' = (answer = "failure")
          BY <3>1 DEF Complete
        <4>2. communicationFailed' \in BOOLEAN
          BY <4>1, Zenon
        <4> QED  BY <4>1, <4>2, BoundsAssumption DEF Id
      <3>2. CASE ~Counts(i)
        BY <3>2 DEF Complete, TypeOK, verdict
      <3> QED  BY <3>1, <3>2
    <2> QED  BY <1>1, <2>1, <2>2 DEF TypeOK, desired
  <1>4. EchoIsCurrent' /\ Fresh' /\ Converges'
    BY DEF EchoIsCurrent, Fresh, Converges, Complete, desired
  <1>5. CASE Counts(i)
    <2>1. lastCompletedCommandId' = i /\ communicationFailed' = (answer = "failure")
      BY <1>5 DEF Complete
    <2>2. \A j \in Id : ~disposed' /\ answers'[j] # None => j <= i
      <3>1. \A j \in Id : answers[j] # None => j <= lastCompletedCommandId
        BY <1>5 DEF Counts, Counted
      <3>2. lastCompletedCommandId <= i
        BY <1>5 DEF Counts, TypeOK, Id
      <3> QED  BY <1>2, <3>1, <3>2, BoundsAssumption DEF Id, TypeOK
    <2>3. Counted'
      BY <1>2, <2>1, <2>2 DEF Counted
    <2> QED  BY <1>3, <1>4, <2>3
  <1>6. CASE ~Counts(i)
    <2>1. UNCHANGED verdict /\ disposed' = disposed
      BY <1>6 DEF Complete
    <2>2. \A j \in Id : ~disposed' /\ answers'[j] # None => j <= lastCompletedCommandId'
      <3>1. ~disposed => i < lastCompletedCommandId
        BY <1>6 DEF Counts, TypeOK, Id
      <3>2. \A j \in Id : ~disposed /\ answers[j] # None => j <= lastCompletedCommandId
        BY DEF Counted
      <3> QED  BY <1>2, <2>1, <3>1, <3>2, BoundsAssumption DEF verdict, Id, TypeOK
    <2>3. lastCompletedCommandId # 0 => lastCompletedCommandId # i
      BY DEF Counted, Complete
    <2>4. lastCompletedCommandId # 0 => lastCompletedCommandId \in Id
      BY BoundsAssumption DEF TypeOK, Id
    <2>5. lastCompletedCommandId' # 0 =>
             answers'[lastCompletedCommandId'] = answers[lastCompletedCommandId]
      BY <1>2, <2>1, <2>3, <2>4 DEF verdict
    <2>6. Counted'
      BY <2>1, <2>2, <2>5 DEF Counted, verdict
    <2> QED  BY <1>3, <1>4, <2>6
  <1> QED  BY <1>5, <1>6

LEMMA OtherInv == ASSUME IInv, EchoWindowEnds \/ Dispose \/ UNCHANGED vars PROVE IInv'
  <1>1. TypeOK'
    BY DEF IInv, TypeOK, EchoWindowEnds, Dispose, vars, desired, sending, verdict
  <1>2. EchoIsCurrent'
    BY DEF IInv, EchoIsCurrent, EchoWindowEnds, Dispose, vars, desired, sending, verdict
  <1>3. Counted'
    BY DEF IInv, Counted, EchoWindowEnds, Dispose, vars, desired, sending, verdict
  <1>4. Fresh' /\ Converges'
    BY DEF IInv, Fresh, Converges, EchoWindowEnds, Dispose, vars, desired, sending, verdict
  <1> QED  BY <1>1, <1>2, <1>3, <1>4 DEF IInv

(* The invariant is inductive: settings, presets, the timer and answers    *)
(* of accessory.ts each preserve it.                                       *)
THEOREM Inductive == Spec => []IInv
  <1>1. ASSUME IInv, [Next]_vars PROVE IInv'
    BY <1>1, Cases, SetInv, PresetInv, FlushInv, CompleteInv, OtherInv
  <1> QED  BY InitInv, <1>1, PTL DEF Spec

(* What HomeKit reads is the verdict of the newest answered command        *)
(* (completeCommand).                                                      *)
THEOREM NewestVerdict == Spec => []VerdictIsNewest
  <1>1. ASSUME IInv PROVE VerdictIsNewest
    <2> SUFFICES ASSUME NEW i \in Id, ~disposed, answers[i] # None,
                        \A j \in Id : answers[j] # None => j <= i
                 PROVE  communicationFailed = (answers[i] = "failure")
      BY DEF VerdictIsNewest
    <2>1. i <= lastCompletedCommandId
      BY <1>1 DEF IInv, Counted
    <2>2. lastCompletedCommandId \in Id
      BY <1>1, <2>1, BoundsAssumption DEF IInv, TypeOK, Id
    <2>3. answers[lastCompletedCommandId] # None
      BY <1>1, <2>2 DEF IInv, Counted, Id
    <2>4. lastCompletedCommandId = i
      BY <2>1, <2>2, <2>3, BoundsAssumption DEF Id
    <2> QED  BY <1>1, <2>2, <2>4 DEF IInv, Counted, Id
  <1> QED  BY <1>1, Inductive, PTL

(* When HomeKit is quiet, the last command sent is the one it wants (queue *)
(* and the debouncer), but for a preset that overtook a snapshot.          *)
THEOREM Convergence == Spec => []Converges
  <1>1. IInv => Converges
    BY DEF IInv
  <1> QED  BY <1>1, Inductive, PTL

(* An echoed colour temperature keeps the current mode.                    *)
THEOREM CurrentEcho == Spec => []EchoIsCurrent
  <1>1. IInv => EchoIsCurrent
    BY DEF IInv
  <1> QED  BY <1>1, Inductive, PTL
=============================================================================
