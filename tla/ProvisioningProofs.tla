-------------------------- MODULE ProvisioningProofs --------------------------
(***************************************************************************)
(* What Provisioning promises of keys, bindings and reassembled PDUs, for  *)
(* any number of attempts and rebinds and any length of a public key.      *)
(***************************************************************************)
EXTENDS Provisioning, TLAPS

Messages == requests \cup statuses
Configuring == {"rebinding"} \cup {Stage[1], Stage[2]}
Exchanging == {"writing", "receiving", "saving"}

(* The parts of the state the argument is about. *)
KeyTypes ==
    /\ attempt \in Nat /\ keys \in Nat /\ file \in Nat /\ node \in Nat
    /\ pc \in {"idle"} \cup Exchanging \cup Configuring
    /\ status \in {"none", "success", "error", "timeout"}
    /\ \A m \in statuses : m.status \in {"success", "error"}

(* The light has the keys of the last attempt or none, and messages under  *)
(* these keys are only sent when they are on disk.                         *)
KeyInv ==
    /\ node \in {0, attempt}
    /\ \A m \in Messages :
          m.keys \in 1 .. attempt /\ (m.keys = attempt => file = attempt)
    /\ pc \in Exchanging => keys = attempt /\ attempt > 0
    /\ pc \in Configuring => keys = file /\ keys \in 1 .. attempt
    /\ file \in 0 .. attempt

(* A light that says it has bound the AppKey has.                          *)
BindingInv ==
    /\ \A m \in statuses : m.stage = Stage[2] /\ m.status = "success" => m.keys \in bindings
    /\ pc = Stage[2] /\ status = "success" => keys \in bindings
    /\ bound \subseteq bindings

IInv == KeyTypes /\ KeyInv /\ BindingInv

-----------------------------------------------------------------------------
LEMMA Stages == Stage[1] = "appKeyAdd" /\ Stage[2] = "modelAppBind" /\ Len(Answers) = 5
                /\ Range(Stage) = {"appKeyAdd", "modelAppBind"}
  BY DEF Stage, Answers, Range

LEMMA InitInv == Init => IInv
  BY Stages DEF Init, IInv, KeyTypes, KeyInv, BindingInv, Messages, Exchanging, Configuring

(* The exchange: a new attempt has new keys, which no message has yet.     *)
LEMMA ExchangeInv ==
    ASSUME IInv, Provision \/ WriteSettles \/ Notified \/ LightAnswers \/ Save \/ Dies
    PROVE  IInv'
  <1> USE Stages DEF IInv, KeyTypes, KeyInv, BindingInv, Messages, Exchanging, Configuring,
                     config, mesh, light, exchange
  <1>1. CASE Provision
    BY <1>1 DEF Provision
  <1>2. CASE WriteSettles
    BY <1>2 DEF WriteSettles
  <1>3. CASE Notified
    <2>1. /\ pc' = pc \/ (pc = "receiving" /\ pc' \in {"idle", "saving", "writing"})
          /\ UNCHANGED <<attempt, keys, file, node, appKeys, bindings>>
          /\ UNCHANGED <<requests, statuses, status, bound>>
      BY <1>3 DEF Notified, AfterComplete
    <2> QED  BY <2>1
  <1>4. CASE LightAnswers
    <2>1. /\ pc \in {"writing", "receiving"} /\ node' \in {0, keys}
          /\ UNCHANGED <<pc, attempt, keys, file, appKeys, bindings>>
          /\ UNCHANGED <<requests, statuses, status, bound>>
      BY <1>4 DEF LightAnswers
    <2> QED  BY <2>1
  <1>5. CASE Save
    BY <1>5 DEF Save
  <1>6. CASE Dies
    BY <1>6 DEF Dies
  <1> QED  BY <1>1, <1>2, <1>3, <1>4, <1>5, <1>6

(* A message is sent under the keys on disk. *)
LEMMA SendInv ==
    ASSUME IInv, NEW stage \in {"appKeyAdd", "modelAppBind"}, Send(stage),
           pc \in Configuring,
           UNCHANGED <<attempt, keys, file, node, bindings, statuses, bound>>
    PROVE  IInv'
  <1>1. \A m \in requests' : m \in requests \/ m.keys = keys
    BY DEF Send, Message
  <1>2. /\ pc' = stage /\ status' = "none"
    BY DEF Send
  <1> QED
    BY <1>1, <1>2, Stages
    DEF IInv, KeyTypes, KeyInv, BindingInv, Messages, Exchanging, Configuring

(* The config messages, as the program sees them. *)
LEMMA ConfigInv ==
    ASSUME IInv,
           Rebind \/ Rebinding \/ ConfigWritten \/ StatusArrives \/ StatusTimesOut \/ ConfigResult
    PROVE  IInv'
  <1> USE Stages DEF config, mesh, light, exchange
  <1>1. CASE Rebind
    BY <1>1 DEF Rebind, IInv, KeyTypes, KeyInv, BindingInv, Messages, Exchanging, Configuring
  <1>2. CASE Rebinding
    <2>1. CASE Send("appKeyAdd")
      BY <1>2, <2>1, SendInv DEF Rebinding, Configuring
    <2>2. CASE ~Send("appKeyAdd")
      BY <1>2, <2>2
      DEF Rebinding, IInv, KeyTypes, KeyInv, BindingInv, Messages, Exchanging, Configuring
    <2> QED  BY <2>1, <2>2
  <1>3. CASE ConfigWritten
    BY <1>3
    DEF ConfigWritten, IInv, KeyTypes, KeyInv, BindingInv, Messages, Exchanging, Configuring
  <1>4. CASE StatusTimesOut
    BY <1>4
    DEF StatusTimesOut, IInv, KeyTypes, KeyInv, BindingInv, Messages, Exchanging, Configuring
  <1>5. CASE StatusArrives
    <2>1. PICK m \in statuses : m.stage = pc /\ m.keys = keys /\ status' = m.status
      BY <1>5 DEF StatusArrives, Accepts
    <2>2. m.status \in {"success", "error"}
      BY DEF IInv, KeyTypes
    <2> QED
      BY <1>5, <2>1, <2>2
      DEF StatusArrives, IInv, KeyTypes, KeyInv, BindingInv, Messages, Exchanging, Configuring
  <1>6. CASE ConfigResult
    <2>1. CASE Send("modelAppBind")
      <3>1. UNCHANGED <<attempt, keys, file, node, bindings, statuses, bound>>
        BY <1>6, <2>1 DEF ConfigResult, Send
      <3>2. pc \in Configuring
        BY <1>6 DEF ConfigResult, Configuring
      <3> QED  BY <2>1, <3>1, <3>2, SendInv
    <2>2. CASE ~Send("modelAppBind")
      BY <1>6, <2>2
      DEF ConfigResult, IInv, KeyTypes, KeyInv, BindingInv, Messages, Exchanging, Configuring
    <2> QED  BY <2>1, <2>2
  <1> QED  BY <1>1, <1>2, <1>3, <1>4, <1>5, <1>6

(* The light complies with messages under its own keys and says so; a      *)
(* reset leaves it without keys.                                           *)
LEMMA LightInv == ASSUME IInv, LightConfigured \/ FactoryReset PROVE IInv'
  <1> USE Stages DEF config, mesh, light, exchange
  <1>1. CASE LightConfigured
    <2>1. PICK m \in requests, s \in {"success", "error"} :
             /\ m.keys = node
             /\ requests' = requests \ {m}
             /\ statuses' = statuses \cup {[stage |-> m.stage, keys |-> node, status |-> s]}
             /\ bindings' = IF s = "success" /\ m.stage = "modelAppBind"
                            THEN bindings \cup {node} ELSE bindings
             /\ UNCHANGED <<pc, exchange, config, file, node>>
      BY <1>1 DEF LightConfigured
    <2>2. KeyTypes' /\ KeyInv'
      BY <2>1 DEF IInv, KeyTypes, KeyInv, Messages, Exchanging, Configuring
    <2>3. BindingInv'
      BY <2>1 DEF IInv, BindingInv
    <2> QED  BY <2>2, <2>3 DEF IInv
  <1>2. CASE FactoryReset
    BY <1>2
    DEF FactoryReset, IInv, KeyTypes, KeyInv, BindingInv, Messages, Exchanging, Configuring
  <1> QED  BY <1>1, <1>2

(* The inductive invariant.                                                *)
THEOREM Inductive == Spec => []IInv
  <1>1. IInv /\ [Next]_vars => IInv'
    <2> SUFFICES ASSUME IInv, [Next]_vars PROVE IInv'
      OBVIOUS
    <2>1. CASE UNCHANGED vars
      BY <2>1
      DEF vars, exchange, config, light, mesh, IInv, KeyTypes, KeyInv, BindingInv, Messages,
          Exchanging, Configuring
    <2> QED
      BY <2>1, ExchangeInv, ConfigInv, LightInv DEF Next, Program, Environment
  <1> QED  BY <1>1, InitInv, PTL DEF Spec

(* The keys of a config message that a light answers to are on disk,       *)
(* whatever provisionAndRebind has failed with since.                      *)
THEOREM KeysKept == Spec => []KeysOnDisk
  <1>1. IInv => KeysOnDisk
    BY DEF IInv, KeyTypes, KeyInv, Messages, KeysOnDisk
  <1> QED  BY <1>1, Inductive, PTL

(* A rebind that has returned success has bound the AppKey on the light.   *)
THEOREM SuccessIsBound == Spec => []BoundOnSuccess
  <1>1. IInv => BoundOnSuccess
    BY DEF IInv, BindingInv, BoundOnSuccess
  <1> QED  BY <1>1, Inductive, PTL

-----------------------------------------------------------------------------
(* The frames of a connection, as the light may send them: each belongs to *)
(* a PDU, or is none of the exchange's, ...                                *)
Middle == {"continuation", "last"}
Frame == [sar : {"complete", "first", "foreign"} \cup Middle,
          part : (Pdu \cup {"other"}) \X Nat]
Proper(f) == f = Foreign \/ \E pdu \in Pdu : \E i \in 1 .. Length(pdu) : f = Frames(pdu)[i]

(* ... and one from the middle of a PDU follows the one before it.         *)
Chained(fs) ==
    \A i \in 1 .. Len(fs) - 1 : fs[i + 1].sar \in Middle =>
        fs[i].part = <<fs[i + 1].part[1], fs[i + 1].part[2] - 1>>

Good(fs) == fs \in Seq(Frame) /\ (\A i \in 1 .. Len(fs) : Proper(fs[i])) /\ Chained(fs)

(* What begins anew, and what goes on as the frames fs do. *)
Fresh(fs) == Good(fs) /\ (fs # <<>> => Head(fs).sar \notin Middle)
GoesOn(fs, gs) ==
    Good(gs) /\ IF fs = <<>> THEN Fresh(gs) ELSE gs # <<>> /\ Head(gs) = Head(fs)

(* A receive has the beginning of a PDU, or nothing; the next frame on the *)
(* air is the next of this PDU, or starts over.                            *)
SegmentInv ==
    pc = "receiving" /\ segments # <<>> =>
        \E pdu \in Pdu : \E k \in 1 .. Length(pdu) - 1 :
            /\ segments = [i \in 1 .. k |-> <<pdu, i>>]
            /\ frames # <<>> /\ Head(frames).sar \in Middle => Head(frames).part = <<pdu, k + 1>>

FrameInv ==
    /\ pc \in {"writing", "receiving"} => step \in 1 .. 5
    /\ Good(frames)
    /\ SegmentInv
    /\ Reassembled

USE BoundsAssumption

(* The PDUs a light may answer with, each of at least one frame. *)
LEMMA Pdus ==
    /\ Pdu = {"capabilities", "publicKey", "confirmation", "random", "complete", "failed"}
    /\ \A i \in 1 .. 5 : Answers[i] \in Pdu
    /\ \A pdu \in Pdu : Length(pdu) \in Nat \ {0}
    /\ "failed" \in Pdu /\ "complete" \in Pdu /\ "other" \notin Pdu
<1>1. Range(Answers) = {"capabilities", "publicKey", "confirmation", "random", "complete"}
  BY DEF Answers, Range
<1>2. Pdu = {"capabilities", "publicKey", "confirmation", "random", "complete", "failed"}
  BY <1>1 DEF Pdu
<1> QED
  BY <1>2 DEF Answers, Length

(* A frame says which part of its PDU it is. *)
LEMMA FrameFacts ==
    ASSUME NEW pdu \in Pdu, NEW i \in 1 .. Length(pdu)
    PROVE  /\ Frames(pdu)[i] \in Frame
           /\ Frames(pdu)[i].part = <<pdu, i>>
           /\ Frames(pdu)[i].sar \in Middle <=> i > 1
           /\ Frames(pdu)[i].sar = "complete" <=> Length(pdu) = 1
           /\ Frames(pdu)[i].sar = "last" <=> i = Length(pdu) /\ i > 1
           /\ Frames(pdu)[i].sar # "foreign"
<1>1. Length(pdu) \in Nat \ {0}
  BY Pdus
<1>2. Frames(pdu)[i] = [sar |-> IF Length(pdu) = 1 THEN "complete"
                                 ELSE IF i = 1 THEN "first"
                                 ELSE IF i = Length(pdu) THEN "last" ELSE "continuation",
                        part |-> <<pdu, i>>]
  BY DEF Frames
<1> HIDE DEF Length
<1> QED
  BY <1>1, <1>2 DEF Frame, Middle

(* What is none of the exchange's is no part of one of its PDUs. *)
LEMMA ForeignFacts ==
    Foreign \in Frame /\ Foreign.sar = "foreign" /\ Foreign.part = <<"other", 1>>
  BY DEF Foreign, Frame

(* The frames of a PDU, or as many of them as are sent, begin anew. *)
LEMMA FramesFresh ==
    ASSUME NEW pdu \in Pdu, NEW n \in 0 .. Length(pdu)
    PROVE  Fresh(SubSeq(Frames(pdu), 1, n))
<1> DEFINE S == SubSeq(Frames(pdu), 1, n)
<1>1. Length(pdu) \in Nat \ {0} /\ n \in Nat
  BY Pdus
<1>2. Frames(pdu) \in Seq(Frame) /\ Len(Frames(pdu)) = Length(pdu)
  <2>1. \A i \in 1 .. Length(pdu) : Frames(pdu)[i] \in Frame
    BY FrameFacts
  <2>2. Frames(pdu) = [i \in 1 .. Length(pdu) |-> Frames(pdu)[i]]
    BY DEF Frames
  <2> HIDE DEF Frames
  <2> QED
    BY <1>1, <2>1, <2>2
<1>3. S \in Seq(Frame) /\ Len(S) = n /\ \A i \in 1 .. n : S[i] = Frames(pdu)[i]
  BY <1>1, <1>2
<1> HIDE DEF S
<1>4. \A i \in 1 .. n : S[i].part = <<pdu, i>> /\ (S[i].sar \in Middle <=> i > 1)
  BY <1>1, <1>3, FrameFacts
<1>5. \A i \in 1 .. Len(S) : Proper(S[i])
  BY <1>1, <1>3 DEF Proper
<1>6. Chained(S)
  <2> SUFFICES ASSUME NEW i \in 1 .. n - 1
               PROVE  S[i].part = <<S[i + 1].part[1], S[i + 1].part[2] - 1>>
    BY <1>3 DEF Chained
  <2>1. S[i].part = <<pdu, i>> /\ S[i + 1].part = <<pdu, i + 1>>
    BY <1>1, <1>4
  <2> QED
    BY <1>1, <2>1
<1>7. S # <<>> => Head(S).sar \notin Middle
  BY <1>1, <1>3, <1>4
<1> QED
  BY <1>3, <1>5, <1>6, <1>7 DEF Fresh, Good, S

(* In particular all of them do. *)
LEMMA WholeFresh ==
    ASSUME NEW pdu \in Pdu
    PROVE  Fresh(Frames(pdu))
<1>1. Length(pdu) \in Nat \ {0}
  BY Pdus
<1>2. Frames(pdu) \in Seq(Frame) /\ Len(Frames(pdu)) = Length(pdu)
  <2>1. \A i \in 1 .. Length(pdu) : Frames(pdu)[i] \in Frame
    BY FrameFacts
  <2>2. Frames(pdu) = [i \in 1 .. Length(pdu) |-> Frames(pdu)[i]]
    BY DEF Frames
  <2> HIDE DEF Frames
  <2> QED
    BY <1>1, <2>1, <2>2
<1>3. SubSeq(Frames(pdu), 1, Length(pdu)) = Frames(pdu)
  <2> HIDE DEF Frames, Length
  <2> QED
    BY <1>1, <1>2
<1>4. Fresh(SubSeq(Frames(pdu), 1, Length(pdu)))
  <2>1. Length(pdu) \in 0 .. Length(pdu)
    BY <1>1
  <2> HIDE DEF Frames, Length
  <2> QED
    BY <2>1, FramesFresh
<1> QED
  BY <1>3, <1>4

(* Frames that begin anew may follow any. *)
LEMMA Extends ==
    ASSUME NEW fs, NEW gs, NEW hs, GoesOn(fs, gs), Fresh(hs)
    PROVE  GoesOn(fs, gs \o hs)
<1>1. /\ gs \in Seq(Frame) /\ hs \in Seq(Frame)
      /\ Chained(gs) /\ Chained(hs)
      /\ \A i \in 1 .. Len(gs) : Proper(gs[i])
      /\ \A i \in 1 .. Len(hs) : Proper(hs[i])
  BY DEF GoesOn, Fresh, Good
<1>2. /\ gs \o hs \in Seq(Frame) /\ Len(gs \o hs) = Len(gs) + Len(hs)
      /\ Len(gs) \in Nat /\ Len(hs) \in Nat
      /\ \A i \in 1 .. Len(gs) : (gs \o hs)[i] = gs[i]
      /\ \A i \in 1 .. Len(hs) : (gs \o hs)[Len(gs) + i] = hs[i]
  BY <1>1
<1>3. \A i \in 1 .. Len(gs \o hs) : Proper((gs \o hs)[i])
  <2> SUFFICES ASSUME NEW i \in 1 .. Len(gs \o hs) PROVE Proper((gs \o hs)[i])
    OBVIOUS
  <2>1. CASE i <= Len(gs)
    BY <1>1, <1>2, <2>1
  <2>2. CASE i > Len(gs)
    <3>1. i - Len(gs) \in 1 .. Len(hs) /\ i = Len(gs) + (i - Len(gs))
      BY <1>2, <2>2
    <3>2. (gs \o hs)[i] = hs[i - Len(gs)]
      BY <1>2, <3>1
    <3> QED
      BY <1>1, <3>1, <3>2
  <2> QED
    BY <1>2, <2>1, <2>2
<1>4. Chained(gs \o hs)
  <2> SUFFICES ASSUME NEW i \in 1 .. Len(gs \o hs) - 1, (gs \o hs)[i + 1].sar \in Middle
               PROVE  (gs \o hs)[i].part
                          = <<(gs \o hs)[i + 1].part[1], (gs \o hs)[i + 1].part[2] - 1>>
    BY DEF Chained
  <2>1. CASE i + 1 <= Len(gs)
    <3>1. (gs \o hs)[i] = gs[i] /\ (gs \o hs)[i + 1] = gs[i + 1] /\ i \in 1 .. Len(gs) - 1
      BY <1>2, <2>1
    <3> QED
      BY <1>1, <3>1 DEF Chained
  <2>2. CASE i = Len(gs)
    <3>1. hs # <<>> /\ (gs \o hs)[i + 1] = hs[1]
      BY <1>2, <2>2
    <3>2. hs[1].sar \notin Middle
      BY <1>1, <3>1 DEF Fresh
    <3> QED
      BY <3>1, <3>2
  <2>3. CASE i > Len(gs)
    <3> DEFINE j == i - Len(gs)
    <3>1. j \in 1 .. Len(hs) - 1 /\ i = Len(gs) + j /\ i + 1 = Len(gs) + (j + 1)
      BY <1>2, <2>3
    <3>2. (gs \o hs)[i] = hs[j] /\ (gs \o hs)[i + 1] = hs[j + 1]
      <4> HIDE DEF j
      <4>1. j \in 1 .. Len(hs) /\ j + 1 \in 1 .. Len(hs)
        BY <1>2, <3>1
      <4> QED
        BY <1>2, <3>1, <4>1
    <3> HIDE DEF j
    <3> QED
      BY <1>1, <3>1, <3>2 DEF Chained
  <2> QED
    BY <1>2, <2>1, <2>2, <2>3
<1>5. CASE gs = <<>>
  <2>1. gs \o hs = hs
    BY <1>1, <1>5
  <2> QED
    BY <1>5, <2>1 DEF GoesOn, Fresh
<1>6. CASE gs # <<>>
  <2>1. gs \o hs # <<>> /\ Head(gs \o hs) = Head(gs)
    BY <1>1, <1>2, <1>6
  <2> QED
    BY <1>2, <1>3, <1>4, <1>6, <2>1 DEF GoesOn, Fresh, Good
<1> QED
  BY <1>5, <1>6

(* The frames that are left are as good. *)
LEMMA TailGood ==
    ASSUME NEW fs, Good(fs), fs # <<>>
    PROVE  /\ Good(Tail(fs)) /\ Proper(Head(fs)) /\ Head(fs) \in Frame
           /\ Tail(fs) # <<>> => /\ Proper(Head(Tail(fs)))
                                 /\ Head(Tail(fs)).sar \in Middle =>
                                      Head(fs).part = <<Head(Tail(fs)).part[1],
                                                        Head(Tail(fs)).part[2] - 1>>
<1>1. fs \in Seq(Frame) /\ Len(fs) \in Nat \ {0} /\ Chained(fs)
      /\ \A i \in 1 .. Len(fs) : Proper(fs[i])
  BY DEF Good
<1>2. /\ Tail(fs) \in Seq(Frame) /\ Len(Tail(fs)) = Len(fs) - 1
      /\ \A i \in 1 .. Len(fs) - 1 : Tail(fs)[i] = fs[i + 1]
  BY <1>1
<1>3. \A i \in 1 .. Len(Tail(fs)) : Proper(Tail(fs)[i])
  BY <1>1, <1>2
<1>4. Chained(Tail(fs))
  <2> SUFFICES ASSUME NEW i \in 1 .. Len(Tail(fs)) - 1, Tail(fs)[i + 1].sar \in Middle
               PROVE  Tail(fs)[i].part = <<Tail(fs)[i + 1].part[1], Tail(fs)[i + 1].part[2] - 1>>
    BY DEF Chained
  <2>1. Tail(fs)[i] = fs[i + 1] /\ Tail(fs)[i + 1] = fs[i + 1 + 1] /\ i + 1 \in 1 .. Len(fs) - 1
    BY <1>1, <1>2
  <2> QED
    BY <1>1, <2>1 DEF Chained
<1>5. Proper(Head(fs)) /\ Head(fs) \in Frame
  BY <1>1
<1>6. ASSUME Tail(fs) # <<>>
      PROVE  /\ Proper(Head(Tail(fs)))
             /\ Head(Tail(fs)).sar \in Middle =>
                  Head(fs).part = <<Head(Tail(fs)).part[1], Head(Tail(fs)).part[2] - 1>>
  <2>1. 1 \in 1 .. Len(fs) - 1 /\ Head(Tail(fs)) = fs[1 + 1] /\ Head(fs) = fs[1]
    BY <1>1, <1>2, <1>6
  <2> QED
    BY <1>1, <2>1 DEF Chained
<1> QED
  BY <1>2, <1>3, <1>4, <1>5, <1>6 DEF Good

(* The next frame, if it is from the middle of a PDU, is the next of the   *)
(* one that f is from.                                                     *)
LEMMA NextFrame ==
    ASSUME NEW pdu \in Pdu, NEW i \in 1 .. Length(pdu), NEW g, Proper(g), g.sar \in Middle,
           <<pdu, i>> = <<g.part[1], g.part[2] - 1>>
    PROVE  g.part = <<pdu, i + 1>> /\ i < Length(pdu)
<1>1. PICK q \in Pdu : \E j \in 1 .. Length(q) : g = Frames(q)[j]
  BY ForeignFacts DEF Proper, Middle
<1>2. PICK j \in 1 .. Length(q) : g = Frames(q)[j]
  BY <1>1
<1>3. g.part = <<q, j>> /\ Length(q) \in Nat /\ Length(pdu) \in Nat
  BY <1>2, FrameFacts, Pdus
<1> HIDE DEF Length
<1> QED
  BY <1>3

(* What a receive makes of the next frame. *)
LEMMA Receive ==
    ASSUME FrameInv, pc = "receiving", frames # <<>>
    PROVE  LET f == Head(frames)
               s == Assembled(segments, f)
           IN  IF Completes(segments, f) THEN \E pdu \in Pdu : s = Whole(pdu)
               ELSE s # <<>> =>
                      \E pdu \in Pdu : \E k \in 1 .. Length(pdu) - 1 :
                        /\ s = [i \in 1 .. k |-> <<pdu, i>>]
                        /\ Tail(frames) # <<>> /\ Head(Tail(frames)).sar \in Middle =>
                             Head(Tail(frames)).part = <<pdu, k + 1>>
<1> DEFINE f == Head(frames)
           g == Head(Tail(frames))
           s == Assembled(segments, f)
<1>1. /\ Proper(f)
      /\ Tail(frames) # <<>> =>
            /\ Proper(g)
            /\ g.sar \in Middle => f.part = <<g.part[1], g.part[2] - 1>>
  BY TailGood DEF FrameInv
<1>2. CASE f = Foreign
  <2>1. s = segments /\ ~Completes(segments, f)
    BY <1>2, ForeignFacts DEF Assembled, Completes
  <2>2. Tail(frames) # <<>> => g.sar \notin Middle
    <3> SUFFICES ASSUME Tail(frames) # <<>>, g.sar \in Middle PROVE FALSE
      OBVIOUS
    <3> HIDE DEF f, g
    <3>1. PICK q \in Pdu : \E j \in 1 .. Length(q) : g = Frames(q)[j]
      BY <1>1, ForeignFacts DEF Proper, Middle
    <3>2. g.part[1] = q
      BY <3>1, FrameFacts
    <3> QED
      BY <1>1, <1>2, <3>2, ForeignFacts, Pdus
  <2> QED
    BY <2>1, <2>2 DEF FrameInv, SegmentInv
<1>3. CASE f # Foreign
  <2>1. PICK pdu \in Pdu : \E j \in 1 .. Length(pdu) : f = Frames(pdu)[j]
    BY <1>1, <1>3 DEF Proper
  <2>2. PICK j \in 1 .. Length(pdu) : f = Frames(pdu)[j]
    BY <2>1
  <2>3. /\ f.part = <<pdu, j>> /\ f.sar \in {"complete", "first", "foreign"} \cup Middle
        /\ f.sar \in Middle <=> j > 1
        /\ f.sar = "complete" <=> Length(pdu) = 1
        /\ f.sar = "last" <=> j = Length(pdu) /\ j > 1
        /\ f.sar # "foreign"
    BY <2>2, FrameFacts DEF Frame
  <2>4. Length(pdu) \in Nat \ {0}
    BY Pdus
  <2>5. Tail(frames) # <<>> /\ g.sar \in Middle => g.part = <<pdu, j + 1>> /\ j < Length(pdu)
    BY <1>1, <2>3, NextFrame
  <2> HIDE DEF f, g
  <2>6. CASE f.sar \in {"complete", "first"}
    <3>1. j = 1 /\ s = <<f.part>> /\ s = [i \in 1 .. 1 |-> <<pdu, i>>]
      <4>1. j = 1
        BY <2>3, <2>4, <2>6 DEF Middle
      <4>2. s = <<f.part>>
        BY <2>6 DEF Assembled
      <4> QED
        BY <2>3, <4>1, <4>2
    <3>2. CASE f.sar = "complete"
      <4>1. Completes(segments, f) /\ s = Whole(pdu)
        BY <2>3, <3>1, <3>2 DEF Completes, Whole
      <4> QED
        BY <4>1 DEF f
    <3>3. CASE f.sar = "first"
      <4>1. ~Completes(segments, f) /\ 1 \in 1 .. Length(pdu) - 1
        BY <2>3, <2>4, <3>3 DEF Completes
      <4> QED
        BY <2>5, <3>1, <4>1 DEF f, g
    <3> QED
      BY <2>6, <3>2, <3>3
  <2>7. CASE f.sar \in Middle /\ segments = <<>>
    <3>1. s = <<>> /\ ~Completes(segments, f)
      BY <2>7 DEF Assembled, Completes, Middle
    <3> QED
      BY <3>1 DEF f
  <2>8. CASE f.sar \in Middle /\ segments # <<>>
    <3>1. PICK p \in Pdu : \E k \in 1 .. Length(p) - 1 :
              segments = [i \in 1 .. k |-> <<p, i>>] /\ f.part = <<p, k + 1>>
      BY <2>8 DEF FrameInv, SegmentInv, f
    <3>2. PICK k \in 1 .. Length(p) - 1 :
              segments = [i \in 1 .. k |-> <<p, i>>] /\ f.part = <<p, k + 1>>
      BY <3>1
    <3>3. p = pdu /\ j = k + 1 /\ k \in Nat
      BY <2>3, <2>4, <3>2
    <3>4. s = Append(segments, <<pdu, k + 1>>)
      BY <2>3, <2>8, <3>3 DEF Assembled, Middle
    <3>5. s = [i \in 1 .. k + 1 |-> <<pdu, i>>]
      <4>1. segments \in Seq(Pdu \X Nat) /\ Len(segments) = k
        BY <3>2
      <4>2. s \in Seq(Pdu \X Nat) /\ Len(s) = k + 1
        BY <3>3, <3>4, <4>1
      <4>3. \A i \in 1 .. k + 1 : s[i] = <<pdu, i>>
        <5> HIDE DEF s
        <5>1. \A i \in 1 .. k : s[i] = segments[i]
          BY <3>3, <3>4, <4>1
        <5>2. s[k + 1] = <<pdu, k + 1>>
          BY <3>3, <3>4, <4>1
        <5>3. \A i \in 1 .. k : segments[i] = <<pdu, i>>
          BY <3>2, <3>3
        <5> QED
          BY <3>3, <5>1, <5>2, <5>3
      <4>4. s = [i \in 1 .. Len(s) |-> s[i]]
        BY <4>2
      <4> QED
        BY <4>2, <4>3, <4>4
    <3>6. CASE f.sar = "last"
      <4>1. Completes(segments, f) /\ s = Whole(pdu)
        BY <2>3, <2>8, <3>3, <3>5, <3>6 DEF Completes, Whole
      <4> QED
        BY <4>1 DEF f
    <3>7. CASE f.sar = "continuation"
      <4>1. ~Completes(segments, f) /\ k + 1 \in 1 .. Length(pdu) - 1
        BY <2>3, <2>4, <3>3, <3>7 DEF Completes, Middle
      <4> QED
        BY <2>5, <3>3, <3>5, <4>1 DEF f, g
    <3> QED
      BY <2>8, <3>6, <3>7 DEF Middle
  <2> QED
    BY <2>3, <2>6, <2>7, <2>8
<1> QED
  BY <1>2, <1>3

(* Only a connection's own steps touch the exchange. *)
LEMMA FrameStep == FrameInv /\ [Next]_vars => FrameInv'
<1> SUFFICES ASSUME FrameInv, [Next]_vars PROVE FrameInv'
  OBVIOUS
<1> USE DEF exchange
<1>1. CASE Provision
  <2>1. Good(<<>>)
    BY DEF Good, Chained
  <2> QED
    BY <1>1, <2>1 DEF Provision, FrameInv, SegmentInv, Reassembled
<1>2. CASE WriteSettles
  BY <1>2 DEF WriteSettles, FrameInv, SegmentInv, Reassembled
<1>3. CASE Notified
  <2> DEFINE f == Head(frames)
             s == Assembled(segments, f)
  <2>1. frames # <<>> /\ frames' = Tail(frames) /\ Good(frames')
    BY <1>3, TailGood DEF Notified, FrameInv
  <2>2. CASE pc # "receiving"
    <3>1. UNCHANGED <<pc, step, segments, answer>>
      BY <1>3, <2>2 DEF Notified
    <3> QED
      BY <2>1, <2>2, <3>1 DEF FrameInv, SegmentInv, Reassembled
  <2>3. CASE pc = "receiving" /\ ~Completes(segments, f)
    <3>1. segments' = s /\ UNCHANGED <<pc, step, answer>>
      BY <1>3, <2>3 DEF Notified
    <3>2. SegmentInv'
      BY <2>1, <2>3, <3>1, Receive DEF SegmentInv
    <3> QED
      BY <2>1, <3>1, <3>2 DEF FrameInv, Reassembled
  <2>4. CASE pc = "receiving" /\ Completes(segments, f)
    <3>1. /\ segments' = <<>> /\ answer' = s
          /\ \/ pc' \in {"idle", "saving"}
             \/ step # Len(Answers) /\ pc' = "writing" /\ step' = step + 1
      BY <1>3, <2>4 DEF Notified, AfterComplete
    <3>2. Reassembled'
      BY <2>1, <2>4, <3>1, Receive DEF Reassembled
    <3>3. pc' = "writing" => step' \in 1 .. 5
      BY <2>4, <3>1, Stages DEF FrameInv
    <3> QED
      BY <2>1, <3>1, <3>2, <3>3 DEF FrameInv, SegmentInv
  <2> QED
    BY <2>2, <2>3, <2>4
<1>4. CASE LightAnswers
  <2>1. PICK pdu \in {Answers[step], "failed", "complete"},
             n \in 0 .. Length(Answers[step]) - 1, foreign \in BOOLEAN :
                frames' = frames \o (IF foreign THEN <<Foreign>> ELSE <<>>)
                              \o SubSeq(Frames(Answers[step]), 1, n) \o Frames(pdu)
    BY <1>4 DEF LightAnswers
  <2>2. Answers[step] \in Pdu /\ pdu \in Pdu
    BY <1>4, Pdus DEF LightAnswers, FrameInv
  <2>3. GoesOn(frames, frames)
    BY DEF FrameInv, GoesOn, Fresh
  <2>4. Fresh(IF foreign THEN <<Foreign>> ELSE <<>>)
    BY ForeignFacts DEF Fresh, Good, Chained, Proper, Middle
  <2>5. Fresh(SubSeq(Frames(Answers[step]), 1, n))
    <3>1. n \in 0 .. Length(Answers[step])
      BY <2>2, Pdus
    <3> QED
      BY <2>2, <3>1, FramesFresh
  <2>6. GoesOn(frames, frames')
    <3>1. GoesOn(frames, frames \o (IF foreign THEN <<Foreign>> ELSE <<>>))
      BY <2>3, <2>4, Extends
    <3>2. GoesOn(frames, frames \o (IF foreign THEN <<Foreign>> ELSE <<>>)
                               \o SubSeq(Frames(Answers[step]), 1, n))
      BY <2>5, <3>1, Extends
    <3> QED
      BY <2>1, <2>2, <3>2, WholeFresh, Extends
  <2>7. UNCHANGED <<pc, exchange>>
    BY <1>4 DEF LightAnswers
  <2>8. SegmentInv'
    BY <2>6, <2>7 DEF FrameInv, SegmentInv, GoesOn, Fresh
  <2> QED
    BY <2>6, <2>7, <2>8 DEF FrameInv, GoesOn, Reassembled
<1>5. CASE /\ UNCHANGED <<step, segments, answer, frames>>
           /\ pc' = pc \/ pc' \notin {"writing", "receiving"}
  BY <1>5 DEF FrameInv, SegmentInv, Reassembled
<1>6. CASE Save \/ Rebind \/ Rebinding \/ ConfigWritten \/ Dies
  BY <1>5, <1>6 DEF Save, Rebind, Rebinding, ConfigWritten, Dies, Send
<1>7. CASE StatusArrives \/ StatusTimesOut \/ ConfigResult
  BY <1>5, <1>7, Stages DEF StatusArrives, StatusTimesOut, ConfigResult, Send
<1>8. CASE LightConfigured \/ FactoryReset
  BY <1>5, <1>8 DEF LightConfigured, FactoryReset
<1>9. CASE UNCHANGED vars
  BY <1>5, <1>9 DEF vars
<1> QED
  BY <1>1, <1>2, <1>3, <1>4, <1>6, <1>7, <1>8, <1>9 DEF Next, Program, Environment

(* A receive returns a PDU as the light sent it: frames missed before it   *)
(* listened, foreign ones and answers that were given up never end up in   *)
(* it, however many frames a public key takes.                             *)
THEOREM ReceivesWhole == Spec => []Reassembled
<1>1. Init => FrameInv
  BY DEF Init, FrameInv, SegmentInv, Reassembled, Good, Chained
<1>2. FrameInv => Reassembled
  BY DEF FrameInv
<1> QED
  BY <1>1, <1>2, FrameStep, PTL DEF Spec
==============================================================================
