------------------------------ MODULE Accessory ------------------------------
(***************************************************************************)
(* One light in HomeKit (packages/homebridge/src/accessory.ts) with its    *)
(* debouncer (debounce.ts): the set handlers, the snapshot that waits for  *)
(* quiet, the presets, which do not wait, the answers of the controller    *)
(* and dispose.  The controller (modules CommandQueue and Controller)      *)
(* answers commands in any order.  Brightness, colour, temperature and the *)
(* settings of a preset are one number.                                    *)
(***************************************************************************)
EXTENDS Integers

CONSTANTS
    Level, Full,    \* what a mode can be set to: 0 is dark, Full is the default
    Preset,         \* the modes that presets select, "rgbw" and "fx"
    None,
    MaxSet,         \* how often HomeKit sets something
    MaxCommand      \* how many commands are sent

Mode == {"cct", "hsi"} \cup Preset
Settings == [on : BOOLEAN, mode : Mode, level : Level]

ASSUME LevelAssumption == Level \subseteq Nat /\ Full \in Level \ {0}
ASSUME NoneAssumption ==
    None \notin Mode /\ None \notin Settings /\ None \notin {"success", "failure"}
ASSUME BoundsAssumption == MaxSet \in Nat /\ MaxCommand \in Nat

VARIABLES
    state,          \* what HomeKit wants
    lastActiveState,
    restoredMode,   \* the mode a colour temperature may be an echo of, or None
    echoes,         \* its window is open (suppressColorTemperatureModeSwitchUntil)
    pending,        \* the snapshot in the debouncer, whose timer runs, or None
    sets,           \* how often HomeKit has set something
    commands,       \* commands[i]: the settings of command i
    answers,        \* answers[i]: "success", "failure", or None
    nextCommandId, lastCompletedCommandId,
    communicationFailed,
    overtaken,      \* a preset was sent while an older snapshot waited
    disposed

desired == <<state, lastActiveState, restoredMode, echoes>>
sending == <<commands, answers, nextCommandId, overtaken>>
verdict == <<lastCompletedCommandId, communicationFailed>>
vars == <<desired, pending, sets, sending, verdict, disposed>>

Id == 1 .. MaxCommand
Initially == [on |-> FALSE, mode |-> "cct", level |-> Full]

TypeOK ==
    /\ state \in Settings /\ lastActiveState \in Settings
    /\ restoredMode \in Mode \cup {None} /\ echoes \in BOOLEAN
    /\ pending \in Settings \cup {None}
    /\ commands \in [Id -> Settings \cup {None}]
    /\ answers \in [Id -> {"success", "failure", None}]
    /\ nextCommandId \in 0 .. MaxCommand /\ lastCompletedCommandId \in 0 .. MaxCommand
    /\ sets \in 0 .. MaxSet
    /\ communicationFailed \in BOOLEAN /\ overtaken \in BOOLEAN /\ disposed \in BOOLEAN

Init ==
    /\ state = Initially /\ lastActiveState = [Initially EXCEPT !.on = TRUE]
    /\ restoredMode = None /\ echoes = FALSE
    /\ pending = None /\ sets = 0
    /\ commands = [i \in Id |-> None] /\ answers = [i \in Id |-> None]
    /\ nextCommandId = 0 /\ lastCompletedCommandId = 0
    /\ communicationFailed = FALSE /\ overtaken = FALSE /\ disposed = FALSE

-----------------------------------------------------------------------------
(* clearColorTemperatureEchoSuppression; suppressColorTemperatureEchoFor.  *)
(* The seeded fault forgets to clear.                                      *)
ClearEcho_Forgotten == UNCHANGED <<restoredMode, echoes>>
ClearEcho == restoredMode' = None /\ echoes' = FALSE
SuppressEcho(mode) ==
    IF mode = "cct" THEN restoredMode' = None /\ echoes' = FALSE
    ELSE restoredMode' = mode /\ echoes' = TRUE

(* queue: the snapshot replaces the one that waits, and the timer starts   *)
(* anew; an accessory that is disposed throws after the handler has run.   *)
Queue(s) ==
    /\ state' = s
    /\ IF disposed THEN UNCHANGED <<lastActiveState, pending>>
       ELSE /\ lastActiveState' = IF s.on THEN s ELSE lastActiveState
            /\ pending' = s

Handles ==
    /\ sets < MaxSet /\ sets' = sets + 1
    /\ overtaken' = FALSE
    /\ UNCHANGED <<commands, answers, nextCommandId, verdict, disposed>>

(* On: what was active last is restored.  Off: it is kept. *)
SetOn ==
    /\ Handles
    /\ Queue([lastActiveState EXCEPT !.on = TRUE])
    /\ SuppressEcho(lastActiveState.mode)

SetOff ==
    /\ Handles
    /\ state' = [state EXCEPT !.on = FALSE]
    /\ lastActiveState' = IF state.on THEN state ELSE lastActiveState
    /\ ClearEcho
    /\ pending' = IF disposed THEN pending ELSE state'

SetBrightness(level) ==
    /\ Handles
    /\ Queue([state EXCEPT !.level = level, !.on = @ \/ level > 0])
    /\ UNCHANGED <<restoredMode, echoes>>

(* ColorTemperature: within the window it is an echo and the mode stays. *)
SetColorTemperature(level) ==
    /\ Handles
    /\ IF restoredMode # None /\ echoes
       THEN /\ Queue([state EXCEPT !.on = TRUE, !.mode = restoredMode])
            /\ UNCHANGED <<restoredMode, echoes>>
       ELSE /\ Queue([on |-> TRUE, mode |-> "cct", level |-> level])
            /\ restoredMode' = None /\ echoes' = FALSE

(* Hue, Saturation. *)
SetColor(level) ==
    /\ Handles
    /\ Queue([on |-> TRUE, mode |-> "hsi", level |-> level])
    /\ SuppressEcho("hsi")

EchoWindowEnds ==
    /\ echoes /\ echoes' = FALSE
    /\ UNCHANGED <<state, lastActiveState, restoredMode, pending, sets, sending, verdict,
                   disposed>>

-----------------------------------------------------------------------------
(* runCommand: nothing is sent any more when disposed. *)
Run(s) ==
    IF disposed THEN UNCHANGED <<commands, nextCommandId>>
    ELSE /\ nextCommandId < MaxCommand /\ nextCommandId' = nextCommandId + 1
         /\ commands' = [commands EXCEPT ![nextCommandId'] = s]

(* A preset is sent at once; a snapshot that waits is sent after it. *)
SetPreset(mode, level) ==
    /\ sets < MaxSet /\ sets' = sets + 1
    /\ state' = [on |-> TRUE, mode |-> mode, level |-> level]
    /\ ClearEcho
    /\ Run(state')
    /\ overtaken' = (pending # None)
    /\ UNCHANGED <<lastActiveState, pending, answers, verdict, disposed>>

(* The debouncer's timer: the snapshot that waits is sent.  The seeded     *)
(* fault sends the active settings, even when the light was switched off.  *)
Snapshot_Active == lastActiveState
Snapshot == pending

Flush ==
    /\ pending # None
    /\ Run(Snapshot) /\ pending' = None
    /\ UNCHANGED <<desired, sets, answers, overtaken, verdict, disposed>>

(* completeCommand: an answer that is older than the last one counted does *)
(* not count.  The seeded fault counts any.                                *)
Counts_Any(i) == ~disposed
Counts(i) == ~disposed /\ i >= lastCompletedCommandId

Complete(i, answer) ==
    /\ i <= nextCommandId /\ answers[i] = None
    /\ answers' = [answers EXCEPT ![i] = answer]
    /\ IF Counts(i)
       THEN lastCompletedCommandId' = i /\ communicationFailed' = (answer = "failure")
       ELSE UNCHANGED verdict
    /\ UNCHANGED <<desired, pending, sets, commands, nextCommandId, overtaken, disposed>>

(* dispose: the pending snapshot is discarded; the controller's close      *)
(* answers what is still running.                                          *)
Dispose ==
    /\ ~disposed /\ disposed' = TRUE
    /\ pending' = None
    /\ UNCHANGED <<desired, sets, sending, verdict>>

Next ==
    \/ SetOn \/ SetOff
    \/ \E level \in Level :
          \/ SetBrightness(level) \/ SetColorTemperature(level) \/ SetColor(level)
          \/ \E mode \in Preset : SetPreset(mode, level)
    \/ EchoWindowEnds \/ Flush \/ Dispose
    \/ \E i \in Id, answer \in {"success", "failure"} : Complete(i, answer)

Spec == Init /\ [][Next]_vars

-----------------------------------------------------------------------------
(* What HomeKit reads, the values or No Response, is the verdict of the    *)
(* newest command that has been answered, in whatever order they were.     *)
VerdictIsNewest ==
    \A i \in Id :
        ~disposed /\ answers[i] # None /\ (\A j \in Id : answers[j] # None => j <= i) =>
            communicationFailed = (answers[i] = "failure")

(* Once HomeKit is quiet, the last command sent is what it wants, unless a *)
(* preset overtook a snapshot, which then is sent after it.                *)
Converges ==
    pending = None /\ ~overtaken /\ ~disposed /\ nextCommandId > 0 =>
        commands[nextCommandId] = state

(* The echo of a colour temperature never brings back a mode that has been *)
(* left since.                                                             *)
EchoIsCurrent == restoredMode # None => restoredMode = state.mode
=============================================================================
