----------------------------- MODULE Provisioning -----------------------------
(***************************************************************************)
(* Provisioning one light and binding its AppKey: provisionAndRebind       *)
(* (packages/mesh/src/integration.ts), the exchange over PB-GATT           *)
(* (provisioning/session.ts, pbGatt.ts, pdus.ts), and the config messages  *)
(* that follow or are sent again later (config/session.ts, receiver.ts).   *)
(* The keys of an attempt are its number.  Frames of a connection arrive   *)
(* in order; config messages cross the mesh, where they are lost, delayed, *)
(* repeated and outlive the connection.                                    *)
(***************************************************************************)
EXTENDS Integers, Sequences, SequencesExt

CONSTANTS
    MaxAttempt,     \* how often provisioning is tried
    MaxRebind,      \* how often rebind is run
    Parts           \* the frames a public key takes at the connection's MTU

ASSUME BoundsAssumption ==
    MaxAttempt \in Nat \ {0} /\ MaxRebind \in Nat /\ Parts \in Nat \ {0, 1}

VARIABLES
    (* the program *)
    pc, step,       \* where it is, and the step of the exchange
    attempt, rebinds, \* how many it has started of each
    keys,           \* the keys it works with
    segments,       \* decodeProvisioningPdu: what is assembled so far
    answer,         \* the PDU that a receive returned last
    wrote, status,  \* sendAndAwait: the write is over; what the receiver has
    bound,          \* the keys under which a rebind has returned success
    file,           \* the keys in the state file, 0 if there is none
    (* the light *)
    got,            \* the last step of the exchange it has received
    node,           \* the keys it is provisioned with, or 0
    appKeys, bindings, \* the keys under which it ever had the AppKey, and the binding
    (* on the air *)
    frames,         \* notifications of the connection
    requests, statuses \* config messages

exchange == <<step, attempt, keys, segments, answer>>
config == <<rebinds, wrote, status, bound>>
light == <<got, node, appKeys, bindings>>
mesh == <<requests, statuses>>
vars == <<pc, exchange, config, file, light, frames, mesh>>

(* runProvisioning: what each step waits for.  Step 2 sends Start and      *)
(* PublicKey.                                                              *)
Answers == <<"capabilities", "publicKey", "confirmation", "random", "complete">>
Pdu == Range(Answers) \cup {"failed"}
Stage == <<"appKeyAdd", "modelAppBind">>

Init ==
    /\ pc = "idle" /\ step = 0 /\ attempt = 0 /\ rebinds = 0 /\ keys = 0
    /\ segments = <<>> /\ answer = <<>> /\ wrote = FALSE /\ status = "none"
    /\ bound = {} /\ file = 0
    /\ got = 0 /\ node = 0 /\ appKeys = {} /\ bindings = {}
    /\ frames = <<>> /\ requests = {} /\ statuses = {}

-----------------------------------------------------------------------------
(* encodeProvisioningPdu: a PDU that fits is one complete frame. *)
Length(pdu) == IF pdu = "publicKey" THEN Parts ELSE 1

Frames(pdu) ==
    [i \in 1 .. Length(pdu) |->
        [sar |-> IF Length(pdu) = 1 THEN "complete"
                 ELSE IF i = 1 THEN "first"
                 ELSE IF i = Length(pdu) THEN "last" ELSE "continuation",
         part |-> <<pdu, i>>]]

Whole(pdu) == [i \in 1 .. Length(pdu) |-> <<pdu, i>>]
Foreign == [sar |-> "foreign", part |-> <<"other", 1>>]

(* decodeProvisioningPdu: what a frame adds to the segments (sawFirst is   *)
(* that there are some) ...  The seeded faults keep the segments of an     *)
(* abandoned PDU, and take segments whose first was missed.                *)
Assembled_Keeps(s, f) ==
    CASE f.sar = "complete" -> <<f.part>>
      [] f.sar \in {"first", "continuation", "last"} -> Append(s, f.part)
      [] OTHER -> s
Assembled(s, f) ==
    CASE f.sar \in {"complete", "first"} -> <<f.part>>
      [] f.sar \in {"continuation", "last"} /\ s # <<>> -> Append(s, f.part)
      [] OTHER -> s

(* ... and whether the PDU is then complete. *)
Completes(s, f) == f.sar = "complete" \/ (f.sar = "last" /\ s # <<>>)

-----------------------------------------------------------------------------
(* provisionLight: a connection of its own to the unprovisioned light.     *)
(* Every attempt draws keys.  The first write begins.                      *)
Provision ==
    /\ pc = "idle" /\ node = 0 /\ attempt < MaxAttempt
    /\ attempt' = attempt + 1 /\ keys' = attempt + 1
    /\ step' = 1 /\ segments' = <<>> /\ answer' = <<>>
    /\ pc' = "writing" /\ got' = 0 /\ frames' = <<>>
    /\ UNCHANGED <<config, file, node, appKeys, bindings, mesh>>

(* sendPdu: the frames of the step are written, or a write fails.  Only    *)
(* now does receivePdu listen.                                             *)
WriteSettles ==
    /\ pc = "writing"
    /\ pc' \in {"receiving", "idle"}
    /\ segments' = <<>>
    /\ UNCHANGED <<step, attempt, keys, answer, config, file, light, frames, mesh>>

(* What follows the exchange.  The seeded fault saves the state only when  *)
(* the rebind has succeeded, too.                                          *)
AfterComplete_Late == "rebinding"
AfterComplete == "saving"

(* Failed, an unexpected type or a wrong length ends the exchange, and so  *)
(* may the random, which tells whether the confirmation fits.              *)
Refuses(pdu) == pdu # Whole(Answers[step]) \/ Answers[step] = "random"

(* A notification: nobody hears it between two receives.  A PDU that is    *)
(* complete ends the receive.                                              *)
Notified ==
    LET f == Head(frames)
        s == Assembled(segments, f)
    IN
    /\ frames # <<>> /\ frames' = Tail(frames)
    /\ IF pc # "receiving" THEN UNCHANGED <<pc, step, segments, answer>>
       ELSE IF ~Completes(segments, f)
       THEN segments' = s /\ UNCHANGED <<pc, step, answer>>
       ELSE /\ segments' = <<>> /\ answer' = s
            /\ \/ pc' = "idle" /\ Refuses(s) /\ UNCHANGED step
               \/ /\ s = Whole(Answers[step])
                  /\ IF step = Len(Answers) THEN pc' = AfterComplete /\ UNCHANGED step
                     ELSE pc' = "writing" /\ step' = step + 1
    /\ UNCHANGED <<attempt, keys, config, file, light, mesh>>

(* provisionAndRebind: the state file is written before rebind; the write  *)
(* may fail.                                                               *)
Save ==
    /\ pc = "saving"
    /\ \/ pc' = "rebinding" /\ file' = keys
       \/ pc' = "idle" /\ UNCHANGED file
    /\ UNCHANGED <<exchange, config, light, frames, mesh>>

-----------------------------------------------------------------------------
(* The rebind command: the same with the keys of the state file. *)
Rebind ==
    /\ pc = "idle" /\ file # 0
    /\ pc' = "rebinding" /\ keys' = file
    /\ UNCHANGED <<step, attempt, segments, answer, config, file, light, frames, mesh>>

Message(stage) == [stage |-> stage, keys |-> keys]

(* sendAndAwait: the receiver is forked, then the message is written. *)
Send(stage) ==
    /\ pc' = stage /\ wrote' = FALSE /\ status' = "none"
    /\ requests' = requests \cup {Message(stage)}

(* rebindNode: a connection of its own and a reservation of two numbers    *)
(* (module Reservation), either of which may fail.                         *)
Rebinding ==
    /\ pc = "rebinding"
    /\ \/ /\ rebinds < MaxRebind /\ rebinds' = rebinds + 1
          /\ Send("appKeyAdd")
       \/ pc' = "idle" /\ UNCHANGED <<rebinds, wrote, status, requests>>
    /\ UNCHANGED <<exchange, bound, file, light, frames, statuses>>

ConfigWritten ==
    /\ pc \in Range(Stage) /\ ~wrote
    /\ \/ wrote' = TRUE /\ UNCHANGED pc
       \/ pc' = "idle" /\ UNCHANGED wrote
    /\ UNCHANGED <<exchange, rebinds, status, bound, file, light, frames, mesh>>

(* awaitConfigStatus, tryDecodeProxyNotification: the first status that    *)
(* decrypts with the device key and has the opcode; all else is skipped.   *)
(* The seeded fault takes any device key.                                  *)
Accepts_AnyKey(m) == m.stage = pc
Accepts(m) == m.stage = pc /\ m.keys = keys

StatusArrives ==
    /\ pc \in Range(Stage) /\ status = "none"
    /\ \E m \in statuses : Accepts(m) /\ status' = m.status
    /\ UNCHANGED <<pc, exchange, rebinds, wrote, bound, file, light, frames, mesh>>

(* The receiver's timeout.  The seeded fault waits on. *)
TimesOut_Never == FALSE
TimesOut == status = "none"

StatusTimesOut ==
    /\ pc \in Range(Stage) /\ TimesOut
    /\ status' = "timeout"
    /\ UNCHANGED <<pc, exchange, rebinds, wrote, bound, file, light, frames, mesh>>

(* rebindOverConnection: on success the next message, or the end. *)
ConfigResult ==
    /\ pc \in Range(Stage) /\ wrote /\ status # "none"
    /\ \/ status # "success" /\ pc' = "idle" /\ UNCHANGED <<wrote, status, requests, bound>>
       \/ status = "success" /\ pc = Stage[1] /\ Send(Stage[2]) /\ UNCHANGED bound
       \/ /\ status = "success" /\ pc = Stage[2]
          /\ pc' = "idle" /\ bound' = bound \cup {keys}
          /\ UNCHANGED <<wrote, status, requests>>
    /\ UNCHANGED <<exchange, rebinds, file, light, frames, statuses>>

(* The program is interrupted or dies. *)
Dies ==
    /\ pc # "idle"
    /\ pc' = "idle"
    /\ UNCHANGED <<exchange, config, file, light, frames, mesh>>

-----------------------------------------------------------------------------
(* The light receives the step, and answers it: at once or never, after    *)
(* other traffic, or after the beginning of an answer that it restarts or  *)
(* gives up.  With the data it is provisioned.                             *)
LightAnswers ==
    /\ pc \in {"writing", "receiving"} /\ node = 0 /\ got < step
    /\ got' = step
    /\ \E pdu \in {Answers[step], "failed", "complete"},
          n \in 0 .. Length(Answers[step]) - 1, foreign \in BOOLEAN :
          /\ frames' = frames \o (IF foreign THEN <<Foreign>> ELSE <<>>)
                          \o SubSeq(Frames(Answers[step]), 1, n) \o Frames(pdu)
          /\ node' = IF step = Len(Answers) /\ pdu = "complete" THEN keys ELSE 0
    /\ UNCHANGED <<pc, exchange, config, file, appKeys, bindings, mesh>>

(* A config message reaches the light: it complies, or reports an error.   *)
LightConfigured ==
    \E m \in requests, s \in {"success", "error"} :
       /\ m.keys = node
       /\ m.stage = "modelAppBind" /\ node \notin appKeys => s = "error"
       /\ requests' = requests \ {m}
       /\ statuses' = statuses \cup {[stage |-> m.stage, keys |-> node, status |-> s]}
       /\ appKeys' = IF s = "success" THEN appKeys \cup {node} ELSE appKeys
       /\ bindings' = IF s = "success" /\ m.stage = "modelAppBind"
                      THEN bindings \cup {node} ELSE bindings
       /\ UNCHANGED <<pc, exchange, config, file, got, node, frames>>

(* The owner resets the light. *)
FactoryReset ==
    /\ node # 0
    /\ node' = 0
    /\ UNCHANGED <<pc, exchange, config, file, got, appKeys, bindings, frames, mesh>>

-----------------------------------------------------------------------------
Program ==
    \/ Provision \/ WriteSettles \/ Save \/ Rebind \/ Rebinding \/ ConfigWritten
    \/ StatusTimesOut \/ ConfigResult \/ Dies
Environment == Notified \/ StatusArrives \/ LightAnswers \/ LightConfigured \/ FactoryReset
Next == Program \/ Environment

Spec == Init /\ [][Next]_vars

(* Timers fire and fibers run on; nothing else has to happen. *)
FairSpec == Spec /\ WF_vars(StatusTimesOut) /\ WF_vars(ConfigResult)

-----------------------------------------------------------------------------
(* A receive returns a PDU as the light sent it, whatever was lost before  *)
(* it listened and however often the light started again.                  *)
Reassembled == answer = <<>> \/ \E pdu \in Pdu : answer = Whole(pdu)

(* As long as the light is not reset, the keys that a config message was   *)
(* sent under are on disk, whatever fails afterwards.                      *)
KeysOnDisk ==
    \A m \in requests \cup statuses : m.keys = node => file = node

(* A rebind that returns success has bound the AppKey on the light with    *)
(* this device key: no status of another message, of an earlier run or of  *)
(* the light before a reset stands in for the answer.                      *)
BoundOnSuccess == bound \subseteq bindings

(* Once a config message is written, its stage ends. *)
StageEnds ==
    \A i \in DOMAIN Stage : pc = Stage[i] /\ wrote ~> ~(pc = Stage[i] /\ wrote)
=============================================================================
