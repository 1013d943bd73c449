--------------------------- MODULE ControllerProofs ---------------------------
(***************************************************************************)
(* Proofs about Controller, for any set of links, any last sequence number *)
(* and IV index and every way of keeping writers: it is type correct, has  *)
(* one link at a time and forgets none, close leaves nothing behind, the   *)
(* lease outlives a late write, and a light is awake for its settings.     *)
(***************************************************************************)
EXTENDS Controller, FiniteSetTheorems, TLAPS

(* The payloads that are left fit into what was reserved. *)
NumberInv == seq + Len(todo) <= MaxSequence + 1

(* What closeWriter touches, and the command fiber's locals. *)
WritersOK ==
    /\ writer \in Link \cup {None} /\ timer \in Link \cup {None}
    /\ power \in {"unknown", "on", "off"}
    /\ confidence \in Place \cup {None}
    /\ closing \in [link : Link, settled : BOOLEAN] \cup {None}
    /\ cleaning \in [Link -> 0..MaxAttempts]

CommandOK ==
    /\ stage \in Stage /\ cmd \in Command \cup {None} /\ attempt \in 1..2
    /\ conn \in Link \cup {None} /\ todo \in Seq(Payload)
    /\ seq \in Sequence /\ reserved \in Sequence /\ verdict \in Failure \cup {None}
    /\ NumberInv

(* The rest of TypeOK. *)
RestOK ==
    /\ mode \in Modes /\ closed \in BOOLEAN
    /\ shutdown \in {"open", "requested", "draining", "cleaning", "done"}
    /\ lease \in BOOLEAN /\ links \subseteq Link
    /\ late \in [link : Link, payload : Payload, at : Place] \cup {None}
    /\ iv \in IvIndex /\ next \in Sequence
    /\ light \in [power : {"on", "off"}, last : Place \cup {None}]

USE ModesAssumption, SequenceAssumption, NoneAssumption

-----------------------------------------------------------------------------
(* TypeOK, cut along what the helpers of the actions touch. *)
LEMMA Parts ==
    /\ TypeOK /\ NumberInv <=> WritersOK /\ CommandOK /\ RestOK
    /\ TypeOK' /\ NumberInv' <=> WritersOK' /\ CommandOK' /\ RestOK'
  BY DEF TypeOK, WritersOK, CommandOK, RestOK

-----------------------------------------------------------------------------
(* closeWriter keeps the types of what it touches. *)
LEMMA CloseWriterType ==
    ASSUME TypeOK, NEW b \in BOOLEAN, CloseWriter(b)
    PROVE  WritersOK'
<1> DEFINE r == Retired(b)
<1>1. r \in Link \cup {None}
  BY DEF TypeOK, Retired
<1>2. /\ writer' = None /\ power' = "unknown" /\ confidence' = None /\ timer' = None
      /\ \/ closing' = closing /\ cleaning' = cleaning
         \/ /\ r # None
            /\ closing' = [link |-> r, settled |-> FALSE]
            /\ cleaning' = [cleaning EXCEPT ![r] = MaxAttempts]
  BY DEF CloseWriter
<1> HIDE DEF r
<1>3. closing' \in [link : Link, settled : BOOLEAN] \cup {None}
  <2>1. CASE closing' = closing
    BY <2>1 DEF TypeOK
  <2>2. CASE r # None /\ closing' = [link |-> r, settled |-> FALSE]
    <3>1. [link |-> r, settled |-> FALSE] \in [link : Link, settled : BOOLEAN]
      BY <1>1, <2>2
    <3> QED
      BY <2>2, <3>1
  <2> QED
    BY <1>2, <2>1, <2>2
<1>4. cleaning' \in [Link -> 0..MaxAttempts]
  BY <1>1, <1>2 DEF TypeOK, MaxAttempts
<1> QED
  BY <1>2, <1>3, <1>4 DEF TypeOK, WritersOK

(* A fiber that leaves for a stage keeps its locals' types, ... *)
LEMMA LeaveType ==
    ASSUME TypeOK, NEW s \in Stage, Leave(s)
    PROVE  CommandOK'
  BY DEF TypeOK, CommandOK, Leave, NumberInv, Sequence

(* ... so does one that fails, ... *)
LEMMA FailType ==
    ASSUME TypeOK, NEW f \in Failure, Fail(f)
    PROVE  CommandOK' /\ WritersOK'
<1>1. CloseWriter(FALSE)
  BY DEF Fail
<1>2. PICK s \in Stage : Leave(s)
  BY DEF Fail, Stage, Waiting
<1> QED
  BY <1>1, <1>2, CloseWriterType, LeaveType

(* ... and one whose write has failed and that still holds the lease. *)
LEMMA WriteFailedType ==
    ASSUME TypeOK, NumberInv, NEW f \in Failure, WriteFailed(f)
    PROVE  CommandOK' /\ WritersOK' /\ lease' \in BOOLEAN
<1>1. CloseWriter(FALSE)
  BY DEF WriteFailed
<1> QED
  BY <1>1, CloseWriterType DEF WriteFailed, TypeOK, CommandOK, NumberInv, Stage, Waiting

(* What is left of the fence is a fence. *)
LEMMA FenceAfterType ==
    ASSUME TypeOK, NEW l \in Link, NEW succeeded \in BOOLEAN
    PROVE  FenceAfter(l, succeeded) \in [link : Link, settled : BOOLEAN] \cup {None}
  BY DEF TypeOK, FenceAfter

(* What is written next is a payload with a place in the source's order. *)
LEMMA HeadType ==
    ASSUME TypeOK, todo # <<>>
    PROVE  Head(todo) \in Payload /\ Now \in Place
  BY DEF TypeOK, Now, Place

(* A command is one to three payloads. *)
LEMMA PayloadsType ==
    Payloads \in Seq(Payload) /\ Len(Payloads) \in 1..3
<1>1. CASE cmd = "Off"
  BY <1>1 DEF Payloads, Payload
<1>2. CASE cmd # "Off" /\ Warm
  BY <1>2 DEF Payloads, Payload
<1>3. CASE cmd # "Off" /\ ~Warm
  BY <1>3 DEF Payloads, Payload
<1> QED
  BY <1>1, <1>2, <1>3

(* A light that gets a payload stays a light. *)
LEMMA AcceptType ==
    ASSUME TypeOK, NEW payload \in Payload, NEW at \in Place, Accept(payload, at)
    PROVE  light' \in [power : {"on", "off"}, last : Place \cup {None}]
  BY DEF TypeOK, Accept, Payload

(* The action lemma: one step per action. *)
LEMMA TypeStep == TypeOK /\ NumberInv /\ [Next]_vars => TypeOK' /\ NumberInv'
<1> SUFFICES ASSUME TypeOK, NumberInv, [Next]_vars PROVE TypeOK' /\ NumberInv'
  OBVIOUS
<1> USE DEF control, writers, command, mesh, NumberInv, WritersOK, CommandOK
<1>1. ASSUME NEW c \in Command, Begin(c) PROVE TypeOK' /\ NumberInv'
  <2>1. CASE CloseWriter(TRUE) /\ stage' = "recover"
    BY <1>1, <2>1, CloseWriterType DEF Begin, TypeOK, Stage, Waiting
  <2>2. CASE stage' = "prepare"
    BY <1>1, <2>2 DEF Begin, TypeOK, Stage, CloseWriter
  <2> QED
    BY <1>1, <2>1, <2>2 DEF Begin
<1>2. CASE Recovered
  BY <1>2 DEF Recovered, TypeOK, Stage
<1>3. CASE Prepare
  <2>1. CASE Fail("other")
    BY <1>3, <2>1, FailType DEF Prepare, TypeOK, Failure
  <2>2. CASE Goto("fenced") /\ UNCHANGED writers
    BY <1>3, <2>2 DEF Prepare, Goto, TypeOK, Stage, Waiting
  <2>3. CASE /\ writer # None /\ stage' = "reserve" /\ conn' = writer
             /\ UNCHANGED <<cmd, attempt, todo, seq, reserved, verdict, writers>>
    BY <1>3, <2>3 DEF Prepare, TypeOK, Stage
  <2>4. CASE Goto("discard") /\ CloseWriter(FALSE)
    <3>1. WritersOK'
      BY <2>4, CloseWriterType
    <3>2. CommandOK' /\ RestOK'
      BY <1>3, <2>4 DEF Prepare, Goto, TypeOK, RestOK, Stage, Waiting
    <3> QED
      BY <3>1, <3>2, Parts
  <2>5. CASE Goto("connect") /\ UNCHANGED writers
    BY <1>3, <2>5 DEF Prepare, Goto, TypeOK, Stage
  <2> QED
    BY <1>3, <2>1, <2>2, <2>3, <2>4, <2>5 DEF Prepare
<1>4. CASE Unfenced
  <2>1. CASE Goto("prepare") /\ UNCHANGED writers
    BY <1>4, <2>1 DEF Unfenced, Goto, TypeOK, Stage
  <2>2. CASE Fail("ble")
    BY <1>4, <2>2, FailType DEF Unfenced, TypeOK, Failure
  <2> QED
    BY <1>4, <2>1, <2>2 DEF Unfenced
<1>5. CASE Discarded
  BY <1>5 DEF Discarded, Goto, TypeOK, Stage
<1>6. CASE Written
  <2>1. CASE CloseWriter(FALSE)
    <3>1. WritersOK'
      BY <2>1, CloseWriterType
    <3>2. CommandOK' /\ RestOK'
      BY <1>6 DEF Written, Goto, TypeOK, RestOK, Stage
    <3> QED
      BY <3>1, <3>2, Parts
  <2>2. CASE /\ power' = IF cmd = "Off" THEN "off" ELSE "on"
             /\ confidence' = [iv |-> iv, seq |-> reserved]
             /\ timer' = IF closed THEN None ELSE writer
             /\ UNCHANGED <<writer, closing, cleaning>>
    <3>1. confidence' \in Place
      BY <2>2 DEF TypeOK, Place
    <3> QED
      BY <1>6, <2>2, <3>1 DEF Written, Goto, TypeOK, Stage
  <2> QED
    BY <1>6, <2>1, <2>2 DEF Written
<1>7. CASE Sent
  <2>1. Leave("idle")
    BY <1>7 DEF Sent
  <2>2. CommandOK'
    BY <2>1, LeaveType DEF Stage
  <2>3. WritersOK'
    BY <1>7 DEF Sent, TypeOK
  <2>4. RestOK'
    BY <1>7 DEF Sent, TypeOK, RestOK
  <2> QED
    BY <2>2, <2>3, <2>4, Parts
<1>8. CASE Settled
  <2>1. CASE verdict # None
    <3>1. Fail(verdict) /\ verdict \in Failure
      BY <1>8, <2>1 DEF Settled, TypeOK
    <3> QED
      BY <1>8, <3>1, FailType DEF Settled, TypeOK
  <2>2. CASE verdict = None
    <3>1. CloseWriter(FALSE) /\ \E s \in Stage : Leave(s)
      BY <1>8, <2>2 DEF Settled, Fail, Stage, Waiting
    <3> QED
      BY <1>8, <3>1, CloseWriterType, LeaveType DEF Settled, TypeOK
  <2> QED
    BY <2>1, <2>2
<1>9. CASE Ended
  <2>1. Leave("idle")
    BY <1>9 DEF Ended
  <2> QED
    BY <1>9, <2>1, LeaveType DEF Ended, TypeOK, Stage
<1>10. CASE ConnectFails
  <2>1. Fail("ble")
    BY <1>10 DEF ConnectFails
  <2> QED
    BY <1>10, <2>1, FailType DEF ConnectFails, TypeOK, Failure
<1>11. CASE Reserve
  <2>1. next + Len(Payloads) <= MaxSequence + 1 /\ next' = next + Len(Payloads)
    <3> USE PayloadsType
    <3> HIDE DEF Payloads
    <3> QED
      BY <1>11 DEF Reserve, Exhausted, TypeOK, Sequence
  <2>2. todo' \in Seq(Payload) /\ seq' = next /\ Len(todo') = Len(Payloads)
    BY <1>11, PayloadsType DEF Reserve
  <2>3. next' \in Sequence /\ seq' + Len(todo') <= MaxSequence + 1
    BY <2>1, <2>2, PayloadsType DEF TypeOK, Sequence
  <2> QED
    BY <1>11, <2>2, <2>3 DEF Reserve, TypeOK, Stage
<1>12. CASE ReserveFails
  <2>1. Fail("other")
    BY <1>12 DEF ReserveFails
  <2> QED
    BY <1>12, <2>1, FailType DEF ReserveFails, TypeOK, Failure
<1>13. CASE Write
  <2>1. Head(todo) \in Payload /\ Now \in Place
    BY <1>13, HeadType DEF Write
  <2>2. light' \in [power : {"on", "off"}, last : Place \cup {None}]
    BY <1>13, <2>1, AcceptType DEF Write
  <2>3. todo' \in Seq(Payload) /\ Len(todo') = Len(todo) - 1 /\ seq' = seq + 1
    BY <1>13 DEF Write, TypeOK
  <2>4. seq' \in Sequence /\ seq' + Len(todo') <= MaxSequence + 1
    BY <2>3 DEF TypeOK, Sequence
  <2> QED
    BY <1>13, <2>2, <2>3, <2>4 DEF Write, TypeOK
<1>14. CASE WriteFails
  <2>1. WriteFailed("other") \/ WriteFailed("ble")
    BY <1>14 DEF WriteFails
  <2>2. Head(todo) \in Payload /\ Now \in Place
    BY <1>14, HeadType DEF WriteFails
  <2>3. light' \in [power : {"on", "off"}, last : Place \cup {None}]
    BY <1>14, <2>2, AcceptType DEF WriteFails, TypeOK
  <2>4. late' \in [link : Link, payload : Payload, at : Place] \cup {None}
    <3>1. CASE late' = late
      BY <3>1 DEF TypeOK
    <3>2. CASE conn \in links /\ late' = [link |-> conn, payload |-> Head(todo), at |-> Now]
      BY <2>2, <3>2 DEF TypeOK
    <3> QED
      BY <1>14, <3>1, <3>2 DEF WriteFails
  <2> QED
    BY <1>14, <2>1, <2>3, <2>4, WriteFailedType DEF WriteFails, TypeOK, Failure
<1>15. ASSUME NEW f \in Failure, Stop(f) PROVE TypeOK' /\ NumberInv'
  <2>1. CASE Fail(f) /\ UNCHANGED <<control, links, late, iv, next, light>> /\ lease' \in BOOLEAN
    BY <2>1, FailType DEF TypeOK
  <2>2. CASE /\ stage = "write" /\ WriteFailed(f)
             /\ UNCHANGED <<control, links, iv, next, light>>
             /\ \/ UNCHANGED late
                \/ /\ todo # <<>> /\ conn \in links
                   /\ late' = [link |-> conn, payload |-> Head(todo), at |-> Now]
    <3>1. late' \in [link : Link, payload : Payload, at : Place] \cup {None}
      <4>1. CASE late' = late
        BY <4>1 DEF TypeOK
      <4>2. CASE /\ todo # <<>> /\ conn \in links
                 /\ late' = [link |-> conn, payload |-> Head(todo), at |-> Now]
        <5>1. Head(todo) \in Payload /\ Now \in Place
          BY <4>2, HeadType
        <5> QED
          BY <4>2, <5>1 DEF TypeOK
      <4> QED
        BY <2>2, <4>1, <4>2
    <3> QED
      BY <2>2, <3>1, WriteFailedType DEF TypeOK
  <2>3. CASE /\ verdict' = f
             /\ UNCHANGED <<stage, cmd, attempt, conn, todo, seq, reserved, control, writers,
                            links, late, mesh>>
    BY <2>3 DEF TypeOK
  <2> QED
    BY <1>15, <2>1, <2>2, <2>3 DEF Stop, TypeOK
<1>16. CASE IdleClose
  <2>1. CASE CloseWriter(FALSE)
    <3>1. WritersOK'
      BY <2>1, CloseWriterType
    <3>2. CommandOK' /\ RestOK'
      BY <1>16 DEF IdleClose, TypeOK, RestOK
    <3> QED
      BY <3>1, <3>2, Parts
  <2>2. CASE timer' = None /\ UNCHANGED <<writer, power, confidence, closing, cleaning>>
    BY <1>16, <2>2 DEF IdleClose, TypeOK
  <2> QED
    BY <1>16, <2>1, <2>2 DEF IdleClose
<1>17. CASE RequestClose
  BY <1>17 DEF RequestClose, TypeOK
<1>18. CASE CloseMailbox
  BY <1>18 DEF CloseMailbox, TypeOK
<1>19. CASE CloseLast
  <2>1. CloseWriter(FALSE)
    BY <1>19 DEF CloseLast
  <2> QED
    BY <1>19, <2>1, CloseWriterType DEF CloseLast, TypeOK
<1>20. CASE Closed
  BY <1>20 DEF Closed, TypeOK
<1>21. CASE Arrive
  <2>1. late.payload \in Payload /\ late.at \in Place /\ Accept(late.payload, late.at)
    BY <1>21 DEF Arrive, TypeOK
  <2> QED
    BY <1>21, <2>1, AcceptType DEF Arrive, TypeOK
<1>22. CASE IvUpdate
  BY <1>22 DEF IvUpdate, TypeOK, IvIndex, Sequence
<1>23. ASSUME NEW c \in Command, OtherSends(c) PROVE TypeOK' /\ NumberInv'
  <2>1. PICK n \in {2, 3} :
            /\ next + n <= MaxSequence + 1 /\ next' = next + n
            /\ \/ light' = [power |-> IF c = "Off" THEN "off" ELSE "on",
                            last |-> [iv |-> iv, seq |-> next + n - 1]]
               \/ UNCHANGED light
    BY <1>23 DEF OtherSends
  <2>2. next' \in Sequence /\ next + n - 1 \in Sequence
    BY <2>1 DEF TypeOK, Sequence
  <2>3. light' \in [power : {"on", "off"}, last : Place \cup {None}]
    <3>1. [iv |-> iv, seq |-> next + n - 1] \in Place
      BY <2>2 DEF TypeOK, Place
    <3> QED
      BY <2>1, <3>1 DEF TypeOK
  <2> QED
    BY <1>23, <2>2, <2>3 DEF OtherSends, TypeOK
<1>24. ASSUME NEW l \in Link, Connect(l) PROVE TypeOK' /\ NumberInv'
  BY <1>24 DEF Connect, TypeOK, Stage
<1>25. ASSUME NEW l \in Link, CleanupSucceeds(l) PROVE TypeOK' /\ NumberInv'
  <2>1. closing' \in [link : Link, settled : BOOLEAN] \cup {None}
    BY <1>25, FenceAfterType DEF CleanupSucceeds
  <2>2. late' \in [link : Link, payload : Payload, at : Place] \cup {None}
    BY <1>25 DEF CleanupSucceeds, Undelivered, TypeOK
  <2>3. cleaning' \in [Link -> 0..MaxAttempts] /\ links' \subseteq Link
    BY <1>25 DEF CleanupSucceeds, TypeOK, MaxAttempts
  <2> QED
    <3>1. WritersOK'
      BY <1>25, <2>1, <2>3 DEF CleanupSucceeds, TypeOK
    <3>2. CommandOK' /\ RestOK'
      BY <1>25, <2>2, <2>3 DEF CleanupSucceeds, TypeOK, RestOK
    <3> QED
      BY <3>1, <3>2, Parts
<1>26. ASSUME NEW l \in Link, CleanupFails(l) PROVE TypeOK' /\ NumberInv'
  <2>1. closing' \in [link : Link, settled : BOOLEAN] \cup {None}
    BY <1>26, FenceAfterType DEF CleanupFails, TypeOK
  <2>2. cleaning' \in [Link -> 0..MaxAttempts]
    BY <1>26 DEF CleanupFails, Remaining, TypeOK, MaxAttempts
  <2> QED
    <3>1. WritersOK'
      BY <1>26, <2>1, <2>2 DEF CleanupFails, TypeOK
    <3>2. CommandOK' /\ RestOK'
      BY <1>26 DEF CleanupFails, TypeOK, RestOK
    <3> QED
      BY <3>1, <3>2, Parts
<1>27. ASSUME NEW l \in Link, LinkDrops(l) PROVE TypeOK' /\ NumberInv'
  <2>1. late' \in [link : Link, payload : Payload, at : Place] \cup {None}
    BY <1>27 DEF LinkDrops, Undelivered, TypeOK
  <2> QED
    BY <1>27, <2>1 DEF LinkDrops, TypeOK
<1>28. CASE UNCHANGED vars
  BY <1>28 DEF vars, TypeOK
<1> QED
  BY <1>1, <1>2, <1>3, <1>4, <1>5, <1>6, <1>7, <1>8, <1>9, <1>10, <1>11, <1>12, <1>13, <1>14,
     <1>15, <1>16, <1>17, <1>18, <1>19, <1>20, <1>21, <1>22, <1>23, <1>24, <1>25, <1>26, <1>27,
     <1>28
     DEF Next, CommandStep, CloseStep, Timeout, Interrupt, Failure

(* Everything starts in its type. *)
LEMMA InitType == Init => TypeOK /\ NumberInv
<1> SUFFICES ASSUME Init PROVE TypeOK /\ NumberInv
  OBVIOUS
<1>1. WritersOK
  BY DEF Init, WritersOK, MaxAttempts
<1>2. CommandOK
  BY DEF Init, CommandOK, NumberInv, Stage, Sequence
<1>3. RestOK
  <2>1. light \in [power : {"on", "off"}, last : Place \cup {None}]
    BY DEF Init
  <2>2. iv \in IvIndex /\ next \in Sequence
    BY DEF Init, IvIndex, Sequence
  <2>3. /\ mode \in Modes /\ closed \in BOOLEAN /\ shutdown = "open"
        /\ lease \in BOOLEAN /\ links \subseteq Link /\ late = None
    BY DEF Init
  <2> QED
    BY <2>1, <2>2, <2>3 DEF RestOK
<1> QED
  BY <1>1, <1>2, <1>3, Parts

(* The controller's state is well typed, and what is reserved is enough    *)
(* for what is sent, in every behaviour.                                   *)
THEOREM TypeCorrect == Spec => [](TypeOK /\ NumberInv)
  BY InitType, TypeStep, PTL DEF Spec

-----------------------------------------------------------------------------
(* The fence: a cleanup under way is that of the retired link, nothing is  *)
(* retired while there is a writer, and no other link is up.               *)
FenceInv ==
    /\ \A l \in Link : cleaning[l] > 0 => closing = [link |-> l, settled |-> FALSE]
    /\ writer # None => closing = None
    /\ NoLinkForgotten

(* When a link may be opened there is neither writer nor fence: the idle   *)
(* timer is not armed, and a writer that is not kept is gone.              *)
StageInv ==
    /\ timer # None => stage \in {"idle", "release"}
    /\ stage = "connect" => writer = None /\ closing = None
    /\ mode = "single" /\ writer # None /\ ~closed => stage \in {"reserve", "write"}

(* Who holds the lease, and what the close fiber relies on. *)
CloseInv ==
    /\ lease => stage \in {"write", "release", "settle"}
    /\ shutdown \in {"cleaning", "done"} => stage = "idle" /\ writer = None /\ timer = None
    /\ shutdown = "done" => ~Pending

IInv == TypeOK /\ NumberInv /\ FenceInv /\ StageInv /\ CloseInv

(* A fence is not None, so a cleanup under way is one of a retired link.   *)
LEMMA FenceIsSomething ==
    ASSUME NEW l \in Link, NEW b \in BOOLEAN
    PROVE  [link |-> l, settled |-> b] # None
<1>1. [link |-> l, settled |-> b] \in [link : Link, settled : BOOLEAN]
  OBVIOUS
<1> QED
  BY <1>1

(* Retiring the only link there can be puts it behind the fence. *)
LEMMA Retire ==
    ASSUME TypeOK, NEW w \in Link, links \subseteq {w}, links' = links,
           \A l \in Link : ~(cleaning[l] > 0),
           writer' = None,
           closing' = [link |-> w, settled |-> FALSE],
           cleaning' = [cleaning EXCEPT ![w] = MaxAttempts]
    PROVE  FenceInv'
<1>1. closing' # None /\ closing'.link = w
  BY FenceIsSomething
<1>2. ASSUME NEW l \in Link, cleaning'[l] > 0 PROVE l = w
  BY <1>2 DEF TypeOK
<1> QED
  BY <1>1, <1>2 DEF FenceInv, NoLinkForgotten

(* closeWriter retires the writer, or finds none. *)
LEMMA CloseWriterFence ==
    ASSUME TypeOK, FenceInv, CloseWriter(FALSE), links' = links
    PROVE  FenceInv'
<1>1. CASE writer = None
  <2>1. writer' = None /\ closing' = closing /\ cleaning' = cleaning
    BY <1>1 DEF CloseWriter, Retired
  <2> QED
    BY <1>1, <2>1 DEF FenceInv, NoLinkForgotten
<1>2. CASE writer # None
  <2>1. writer \in Link /\ closing = None
    BY <1>2 DEF TypeOK, FenceInv
  <2>2. \A l \in Link : ~(cleaning[l] > 0)
    BY <2>1, FenceIsSomething DEF FenceInv
  <2>3. links \subseteq {writer}
    BY <2>1 DEF FenceInv, NoLinkForgotten
  <2>4. /\ writer' = None
        /\ closing' = [link |-> writer, settled |-> FALSE]
        /\ cleaning' = [cleaning EXCEPT ![writer] = MaxAttempts]
    BY <1>2 DEF CloseWriter, Retired
  <2> QED
    BY <2>1, <2>2, <2>3, <2>4, Retire
<1> QED
  BY <1>1, <1>2

(* What a step can do to the fence. *)
LEMMA FenceActions ==
    ASSUME [Next]_vars
    PROVE  \/ UNCHANGED <<writer, closing, cleaning, links>>
           \/ CloseWriter(FALSE) /\ UNCHANGED links
           \/ CloseWriter(TRUE) /\ closing # None /\ closing.settled /\ UNCHANGED links
           \/ \E l \in Link : Connect(l) \/ CleanupSucceeds(l) \/ CleanupFails(l) \/ LinkDrops(l)
<1> DEFINE G == \/ UNCHANGED <<writer, closing, cleaning, links>>
                \/ CloseWriter(FALSE) /\ UNCHANGED links
                \/ CloseWriter(TRUE) /\ closing # None /\ closing.settled /\ UNCHANGED links
<1> USE DEF control, writers, command, mesh, Fail
<1>1. ASSUME NEW c \in Command, Begin(c) PROVE G
  BY <1>1 DEF Begin
<1>2. CASE CommandStep
  <2>1. CASE Recovered
    BY <2>1 DEF Recovered
  <2>2. CASE Prepare
    BY <2>2 DEF Prepare
  <2>3. CASE Unfenced
    BY <2>3 DEF Unfenced
  <2>4. CASE Discarded
    BY <2>4 DEF Discarded
  <2>5. CASE Written
    BY <2>5 DEF Written
  <2>6. CASE Sent
    BY <2>6 DEF Sent
  <2>7. CASE Settled
    BY <2>7 DEF Settled
  <2>8. CASE Ended
    BY <2>8 DEF Ended
  <2> QED
    BY <1>2, <2>1, <2>2, <2>3, <2>4, <2>5, <2>6, <2>7, <2>8 DEF CommandStep
<1>3. CASE ConnectFails \/ ReserveFails
  BY <1>3 DEF ConnectFails, ReserveFails
<1>4. CASE Reserve \/ Write \/ Arrive \/ IvUpdate
  BY <1>4 DEF Reserve, Write, Arrive, IvUpdate
<1>5. CASE WriteFails
  BY <1>5 DEF WriteFails, WriteFailed
<1>6. ASSUME NEW f \in Failure, Stop(f) PROVE G
  BY <1>6 DEF Stop, WriteFailed
<1>7. CASE IdleClose
  BY <1>7 DEF IdleClose
<1>8. CASE RequestClose
  BY <1>8 DEF RequestClose
<1>9. CASE CloseStep
  BY <1>9 DEF CloseStep, CloseMailbox, CloseLast, Closed
<1>10. ASSUME NEW c \in Command, OtherSends(c) PROVE G
  BY <1>10 DEF OtherSends
<1>11. CASE UNCHANGED vars
  BY <1>11 DEF vars
<1> QED
  BY <1>1, <1>2, <1>3, <1>4, <1>5, <1>6, <1>7, <1>8, <1>9, <1>10, <1>11
     DEF Next, Timeout, Interrupt, Failure

(* A link is opened only where there is none, and leaves the fence only    *)
(* when it is down.                                                        *)
LEMMA FenceStep == TypeOK /\ FenceInv /\ StageInv /\ [Next]_vars => FenceInv'
<1> SUFFICES ASSUME TypeOK, FenceInv, StageInv, [Next]_vars PROVE FenceInv'
  OBVIOUS
<1>1. CASE UNCHANGED <<writer, closing, cleaning, links>>
  BY <1>1 DEF FenceInv, NoLinkForgotten
<1>2. CASE CloseWriter(FALSE) /\ UNCHANGED links
  BY <1>2, CloseWriterFence
<1>3. CASE CloseWriter(TRUE) /\ closing # None /\ closing.settled /\ UNCHANGED links
  <2>1. closing.link \in Link /\ writer = None
    BY <1>3 DEF TypeOK, FenceInv
  <2>2. \A l \in Link : ~(cleaning[l] > 0)
    BY <1>3 DEF FenceInv
  <2>3. links \subseteq {closing.link}
    BY <2>1 DEF TypeOK, FenceInv, NoLinkForgotten
  <2>4. /\ writer' = None
        /\ closing' = [link |-> closing.link, settled |-> FALSE]
        /\ cleaning' = [cleaning EXCEPT ![closing.link] = MaxAttempts]
    BY <1>3, <2>1 DEF CloseWriter, Retired
  <2> QED
    BY <1>3, <2>1, <2>2, <2>3, <2>4, Retire
<1>4. ASSUME NEW l \in Link, Connect(l) PROVE FenceInv'
  <2>1. closing = None /\ writer = None
    BY <1>4 DEF Connect, StageInv
  <2>2. links = {} /\ \A k \in Link : ~(cleaning[k] > 0)
    <3>1. links = {}
      BY <2>1 DEF TypeOK, FenceInv, NoLinkForgotten
    <3>2. \A k \in Link : ~(cleaning[k] > 0)
      BY <2>1, FenceIsSomething DEF FenceInv
    <3> QED
      BY <3>1, <3>2
  <2>3. links' = {l} /\ writer' = l /\ closing' = None /\ cleaning' = cleaning
    BY <1>4, <2>1, <2>2 DEF Connect
  <2> QED
    BY <2>2, <2>3 DEF FenceInv, NoLinkForgotten
<1>5. ASSUME NEW l \in Link, CleanupSucceeds(l) PROVE FenceInv'
  <2>1. closing = [link |-> l, settled |-> FALSE] /\ closing # None /\ writer = None
    BY <1>5, FenceIsSomething DEF CleanupSucceeds, FenceInv
  <2>2. links \subseteq {l} /\ \A k \in Link : cleaning[k] > 0 => k = l
    BY <2>1 DEF TypeOK, FenceInv, NoLinkForgotten
  <2>3. closing' = None /\ writer' = None /\ links' = {}
    BY <1>5, <2>1, <2>2 DEF CleanupSucceeds, FenceAfter
  <2>4. \A k \in Link : ~(cleaning'[k] > 0)
    BY <1>5, <2>2 DEF CleanupSucceeds, TypeOK
  <2> QED
    BY <2>3, <2>4 DEF FenceInv, NoLinkForgotten
<1>6. ASSUME NEW l \in Link, CleanupFails(l) PROVE FenceInv'
  <2>1. closing = [link |-> l, settled |-> FALSE] /\ closing # None /\ writer = None
    BY <1>6, FenceIsSomething DEF CleanupFails, FenceInv
  <2>2. links \subseteq {l} /\ \A k \in Link : cleaning[k] > 0 => k = l
    BY <2>1 DEF TypeOK, FenceInv, NoLinkForgotten
  <2>3. /\ writer' = None /\ links' = links
        /\ cleaning' = [cleaning EXCEPT ![l] = @ - 1]
        /\ closing' = IF cleaning'[l] = 0 THEN FenceAfter(l, FALSE) ELSE closing
    BY <1>6, <2>1 DEF CleanupFails, Remaining
  <2>4. CASE cleaning'[l] = 0
    <3>1. closing' = [link |-> l, settled |-> TRUE]
      BY <2>1, <2>3, <2>4 DEF FenceAfter
    <3>2. closing' # None /\ closing'.link = l
      BY <3>1, FenceIsSomething
    <3>3. \A k \in Link : ~(cleaning'[k] > 0)
      BY <2>2, <2>3, <2>4 DEF TypeOK
    <3> QED
      BY <2>2, <2>3, <3>2, <3>3 DEF FenceInv, NoLinkForgotten
  <2>5. CASE cleaning'[l] # 0
    <3>1. closing' = closing /\ \A k \in Link : cleaning'[k] > 0 => k = l
      BY <2>2, <2>3, <2>5 DEF TypeOK
    <3> QED
      BY <2>1, <2>2, <2>3, <3>1 DEF FenceInv, NoLinkForgotten
  <2> QED
    BY <2>4, <2>5
<1>7. ASSUME NEW l \in Link, LinkDrops(l) PROVE FenceInv'
  BY <1>7 DEF LinkDrops, FenceInv, NoLinkForgotten, writers
<1> QED
  BY <1>1, <1>2, <1>3, <1>4, <1>5, <1>6, <1>7, FenceActions

(* A failure leaves no writer and no timer, and no stage that needs one. *)
LEMMA FailStage ==
    ASSUME NEW f, Fail(f)
    PROVE  writer' = None /\ timer' = None /\ stage' \in {"retry", "cancel", "abort"}
  BY DEF Fail, CloseWriter, Leave

(* The stages follow the program, and the close fiber waits its turn. *)
LEMMA StageStep ==
    TypeOK /\ FenceInv /\ StageInv /\ CloseInv /\ [Next]_vars => StageInv' /\ CloseInv'
<1> SUFFICES ASSUME TypeOK, FenceInv, StageInv, CloseInv, [Next]_vars
             PROVE  StageInv' /\ CloseInv'
  OBVIOUS
<1> USE DEF control, writers, command, mesh, StageInv, CloseInv, Goto, Pending
<1>1. ASSUME NEW c \in Command, Begin(c) PROVE StageInv' /\ CloseInv'
  BY <1>1 DEF Begin, CloseWriter
<1>2. CASE Recovered
  BY <1>2 DEF Recovered
<1>3. CASE Prepare
  <2>1. CASE Fail("other")
    BY <1>3, <2>1, FailStage DEF Prepare
  <2>2. CASE Goto("fenced") /\ UNCHANGED writers
    BY <1>3, <2>2 DEF Prepare
  <2>3. CASE /\ writer # None /\ mode # "single" /\ stage' = "reserve"
             /\ UNCHANGED writers
    BY <1>3, <2>3 DEF Prepare
  <2>4. CASE Goto("discard") /\ CloseWriter(FALSE)
    BY <1>3, <2>4 DEF Prepare, CloseWriter
  <2>5. CASE /\ ~closed /\ ~Fenced /\ (writer = None \/ mode = "single")
             /\ Goto("connect") /\ UNCHANGED writers
    BY <1>3, <2>5 DEF Prepare, Fenced
  <2> QED
    BY <1>3, <2>1, <2>2, <2>3, <2>4, <2>5 DEF Prepare
<1>4. CASE Unfenced
  <2>1. CASE Fail("ble")
    BY <1>4, <2>1, FailStage DEF Unfenced
  <2>2. CASE Goto("prepare") /\ UNCHANGED writers
    BY <1>4, <2>2 DEF Unfenced
  <2> QED
    BY <1>4, <2>1, <2>2 DEF Unfenced
<1>5. CASE Discarded
  BY <1>5 DEF Discarded
<1>6. CASE Written
  BY <1>6 DEF Written, CloseWriter
<1>7. CASE Sent
  BY <1>7 DEF Sent, Leave
<1>8. CASE Settled
  BY <1>8, FailStage DEF Settled
<1>9. CASE Ended
  BY <1>9 DEF Ended, Leave
<1>10. CASE ConnectFails
  BY <1>10, FailStage DEF ConnectFails
<1>11. CASE Reserve
  BY <1>11 DEF Reserve
<1>12. CASE ReserveFails
  BY <1>12, FailStage DEF ReserveFails
<1>13. CASE Write
  BY <1>13 DEF Write
<1>14. CASE WriteFails
  BY <1>14 DEF WriteFails, WriteFailed, CloseWriter
<1>15. ASSUME NEW f \in Failure, Stop(f) PROVE StageInv' /\ CloseInv'
  <2>1. CASE /\ stage # "idle" /\ Fail(f) /\ UNCHANGED control
             /\ ~lease'
    BY <2>1, FailStage
  <2>2. CASE /\ stage = "write" /\ WriteFailed(f) /\ UNCHANGED control
    BY <2>2 DEF WriteFailed, CloseWriter
  <2>3. CASE UNCHANGED <<stage, control, writers, mesh>>
    BY <2>3
  <2> QED
    BY <1>15, <2>1, <2>2, <2>3 DEF Stop
<1>16. CASE IdleClose
  BY <1>16 DEF IdleClose, CloseWriter
<1>17. CASE RequestClose
  BY <1>17 DEF RequestClose
<1>18. CASE CloseMailbox
  BY <1>18 DEF CloseMailbox
<1>19. CASE CloseLast
  BY <1>19 DEF CloseLast, CloseWriter
<1>20. CASE Closed
  BY <1>20 DEF Closed, CleanedUp
<1>21. CASE Arrive \/ IvUpdate
  BY <1>21 DEF Arrive, IvUpdate
<1>22. ASSUME NEW c \in Command, OtherSends(c) PROVE StageInv' /\ CloseInv'
  BY <1>22 DEF OtherSends
<1>23. ASSUME NEW l \in Link, Connect(l) PROVE StageInv' /\ CloseInv'
  BY <1>23 DEF Connect
<1>24. ASSUME NEW l \in Link, CleanupSucceeds(l) PROVE StageInv' /\ CloseInv'
  <2>1. closing # None /\ closing = [link |-> l, settled |-> FALSE]
    BY <1>24, FenceIsSomething DEF CleanupSucceeds, FenceInv
  <2>2. closing' = None /\ stage # "connect"
    BY <1>24, <2>1 DEF CleanupSucceeds, FenceAfter
  <2> QED
    BY <1>24, <2>2 DEF CleanupSucceeds
<1>25. ASSUME NEW l \in Link, CleanupFails(l) PROVE StageInv' /\ CloseInv'
  <2>1. closing # None /\ closing = [link |-> l, settled |-> FALSE]
    BY <1>25, FenceIsSomething DEF CleanupFails, FenceInv
  <2>2. stage # "connect" /\ shutdown # "done"
    BY <2>1
  <2> QED
    BY <1>25, <2>2 DEF CleanupFails
<1>26. ASSUME NEW l \in Link, LinkDrops(l) PROVE StageInv' /\ CloseInv'
  BY <1>26 DEF LinkDrops
<1>27. CASE UNCHANGED vars
  BY <1>27 DEF vars
<1> QED
  BY <1>1, <1>2, <1>3, <1>4, <1>5, <1>6, <1>7, <1>8, <1>9, <1>10, <1>11, <1>12, <1>13, <1>14,
     <1>15, <1>16, <1>17, <1>18, <1>19, <1>20, <1>21, <1>22, <1>23, <1>24, <1>25, <1>26, <1>27
     DEF Next, CommandStep, CloseStep, Timeout, Interrupt, Failure

(* The strengthening of the three safety invariants below is inductive. *)
THEOREM Inductive == Spec => []IInv
<1>1. Init => IInv
  <2> SUFFICES ASSUME Init PROVE FenceInv /\ StageInv /\ CloseInv
    BY InitType DEF IInv
  <2> QED
    BY DEF Init, FenceInv, StageInv, CloseInv, NoLinkForgotten
<1>2. IInv /\ [Next]_vars => IInv'
  BY TypeStep, FenceStep, StageStep DEF IInv
<1> QED
  BY <1>1, <1>2, PTL DEF Spec

-----------------------------------------------------------------------------
(* The writer or the fence, whichever there is, is the only link that is   *)
(* up or under cleanup, whatever hangs and whenever commands are stopped.  *)
LEMMA SlotHolder == IInv => OneLink
<1> SUFFICES ASSUME IInv PROVE OneLink
  OBVIOUS
<1> DEFINE S == links \cup {l \in Link : cleaning[l] > 0}
<1>1. ASSUME NEW x, S \subseteq {x} PROVE OneLink
  <2>1. IsFiniteSet({x}) /\ Cardinality({x}) = 1
    BY FS_Singleton
  <2>2. IsFiniteSet(S) /\ Cardinality(S) <= 1 
    BY <1>1, <2>1, FS_Subset
  <2> QED
    BY <2>2 DEF OneLink
<1>2. CASE writer # None
  <2>1. closing = None
    BY <1>2 DEF IInv, FenceInv
  <2>2. S \subseteq {writer}
    BY <2>1, FenceIsSomething DEF IInv, FenceInv, NoLinkForgotten
  <2> QED
    BY <2>2, <1>1
<1>3. CASE writer = None
  <2>1. links \subseteq {closing.link}
    BY <1>3 DEF IInv, FenceInv, NoLinkForgotten, TypeOK
  <2>2. \A l \in Link : cleaning[l] > 0 => l = closing.link
    BY DEF IInv, FenceInv
  <2>3. S \subseteq {closing.link}
    BY <2>1, <2>2
  <2> QED
    BY <2>3, <1>1
<1> QED
  BY <1>2, <1>3

(* A replacement is connected only when the writer before it is down. *)
THEOREM SingleLink == Spec => []OneLink
  BY Inductive, SlotHolder, PTL

(* A link that is up can still be closed. *)
THEOREM NothingForgotten == Spec => []NoLinkForgotten
<1>1. IInv => NoLinkForgotten
  BY DEF IInv, FenceInv
<1> QED
  BY <1>1, Inductive, PTL

(* When close has returned, nothing is left but a link that two attempts   *)
(* could not close.                                                        *)
THEOREM QuietWhenClosed == Spec => []ClosedIsQuiet
<1>1. IInv => ClosedIsQuiet
  <2> SUFFICES ASSUME IInv, shutdown = "done" PROVE ClosedIsQuiet
    BY DEF ClosedIsQuiet
  <2>1. stage = "idle" /\ ~lease /\ writer = None /\ timer = None /\ ~Pending
    BY DEF IInv, CloseInv
  <2>2. ASSUME NEW l \in links PROVE closing = [link |-> l, settled |-> TRUE]
    <3>1. l \in Link /\ closing # None /\ closing.link = l
      BY <2>1 DEF IInv, TypeOK, FenceInv, NoLinkForgotten
    <3>2. closing \in [link : Link, settled : BOOLEAN] /\ closing.settled
      BY <2>1, <3>1 DEF IInv, TypeOK, Pending
    <3> QED
      BY <3>1, <3>2
  <2> QED
    BY <2>1, <2>2 DEF ClosedIsQuiet
<1> QED
  BY <1>1, Inductive, PTL

-----------------------------------------------------------------------------
(* A write that the native stack still holds is on a link that is up, and  *)
(* its writer is retired: the fence stands behind it, and no send is under *)
(* way or about to release its lease as if all was written.                *)
LateInv ==
    /\ late # None => late.link \in links /\ writer = None /\ stage # "release"
    /\ stage \in {"reserve", "write"} => writer # None

(* A late write comes from the stage that writes, where there is none yet. *)
LEMMA LateStep == IInv /\ LateInv /\ [Next]_vars => LateInv'
<1> SUFFICES ASSUME IInv, LateInv, [Next]_vars PROVE LateInv'
  OBVIOUS
<1> USE DEF control, writers, command, mesh, LateInv, Goto
<1>t. TypeOK /\ FenceInv /\ StageInv
  BY DEF IInv
<1>f. ASSUME NEW f, Fail(f), links' = links, late' = late PROVE LateInv'
  BY <1>f, FailStage
<1>w. ASSUME NEW f, WriteFailed(f) PROVE writer' = None /\ stage' = "settle"
  BY <1>w DEF WriteFailed, CloseWriter
<1>1. ASSUME NEW c \in Command, Begin(c) PROVE LateInv'
  BY <1>1 DEF Begin, CloseWriter
<1>2. CASE Recovered \/ Discarded
  BY <1>2 DEF Recovered, Discarded
<1>3. CASE Prepare
  <2>1. CASE Fail("other")
    BY <1>3, <2>1, <1>f DEF Prepare
  <2>2. CASE ~Fail("other")
    BY <1>3, <2>2 DEF Prepare, CloseWriter
  <2> QED
    BY <2>1, <2>2
<1>4. CASE Unfenced
  BY <1>4, <1>f DEF Unfenced
<1>5. CASE Written
  BY <1>5 DEF Written, CloseWriter
<1>6. CASE Sent \/ Ended
  BY <1>6 DEF Sent, Ended, Leave
<1>7. CASE Settled
  BY <1>7, <1>f DEF Settled
<1>8. CASE ConnectFails \/ ReserveFails
  BY <1>8, <1>f DEF ConnectFails, ReserveFails
<1>9. CASE Reserve
  BY <1>9 DEF Reserve
<1>10. CASE Write
  BY <1>10 DEF Write
<1>11. CASE WriteFails
  <2>1. CASE late' = late
    BY <1>11, <2>1, <1>w DEF WriteFails, WriteFailed
  <2>2. CASE conn \in links /\ late' = [link |-> conn, payload |-> Head(todo), at |-> Now]
    <3>1. late'.link \in links
      BY <2>2
    <3> QED
      BY <1>11, <3>1, <1>w DEF WriteFails, WriteFailed
  <2> QED
    BY <1>11, <2>1, <2>2 DEF WriteFails
<1>12. ASSUME NEW f \in Failure, Stop(f) PROVE LateInv'
  <2>1. CASE Fail(f) /\ UNCHANGED <<links, late>>
    BY <2>1, <1>f
  <2>2. CASE stage = "write" /\ WriteFailed(f) /\ UNCHANGED links
    <3>1. late' = late \/ late'.link \in links
      BY <1>12, <2>2 DEF Stop
    <3> QED
      BY <2>2, <3>1, <1>w DEF WriteFailed
  <2>3. CASE UNCHANGED <<stage, writers, links, late>>
    BY <2>3
  <2> QED
    BY <1>12, <2>1, <2>2, <2>3 DEF Stop
<1>13. CASE IdleClose
  BY <1>13, <1>t DEF IdleClose, CloseWriter, StageInv
<1>14. CASE RequestClose \/ CloseMailbox \/ Closed
  BY <1>14 DEF RequestClose, CloseMailbox, Closed
<1>15. CASE CloseLast
  BY <1>15 DEF CloseLast, CloseWriter
<1>16. CASE Arrive \/ IvUpdate
  BY <1>16 DEF Arrive, IvUpdate
<1>17. ASSUME NEW c \in Command, OtherSends(c) PROVE LateInv'
  BY <1>17 DEF OtherSends
<1>18. ASSUME NEW l \in Link, Connect(l) PROVE LateInv'
  <2>1. closing = None /\ writer = None
    BY <1>18, <1>t DEF Connect, StageInv
  <2>2. late = None
    BY <2>1, <1>t DEF TypeOK, FenceInv, NoLinkForgotten
  <2> QED
    BY <1>18, <2>2 DEF Connect
<1>19. ASSUME NEW l \in Link, CleanupSucceeds(l) \/ LinkDrops(l) PROVE LateInv'
  <2>1. links' = links \ {l} /\ late' = Undelivered(l) /\ writer' = writer /\ stage' = stage
    BY <1>19 DEF CleanupSucceeds, LinkDrops
  <2> QED
    BY <2>1 DEF Undelivered
<1>20. ASSUME NEW l \in Link, CleanupFails(l) PROVE LateInv'
  BY <1>20 DEF CleanupFails
<1>21. CASE UNCHANGED vars
  BY <1>21 DEF vars
<1> QED
  BY <1>1, <1>2, <1>3, <1>4, <1>5, <1>6, <1>7, <1>8, <1>9, <1>10, <1>11, <1>12, <1>13, <1>14,
     <1>15, <1>16, <1>17, <1>18, <1>19, <1>20, <1>21
     DEF Next, CommandStep, CloseStep, Timeout, Interrupt, Failure

(* Nothing is late when the source's program starts. *)
LEMMA LateHolds == Spec => [](IInv /\ LateInv)
<1>1. Init => LateInv
  BY DEF Init, LateInv
<1> QED
  BY <1>1, Inductive, LateStep, PTL DEF Spec

(* The lease is let go after a success, when nothing is late, and after a  *)
(* failure once the cleanup of the writer is over: it has failed if the    *)
(* link, and the write on it, are still there.                             *)
LEMMA LeaseStep ==
    IInv /\ LateInv /\ [Next]_vars =>
        (lease /\ ~lease' /\ late' # None =>
            closing' = [link |-> late'.link, settled |-> TRUE])
<1> SUFFICES ASSUME IInv, LateInv, [Next]_vars, lease, ~lease', late' # None
             PROVE  closing' = [link |-> late'.link, settled |-> TRUE]
  OBVIOUS
<1>1. Sent \/ Settled \/ \E f \in Failure : stage = "release" /\ Stop(f)
  <2> USE DEF control, writers, command, mesh
  <2>1. ASSUME NEW c \in Command, Begin(c) \/ OtherSends(c) PROVE FALSE
    BY <2>1 DEF Begin, OtherSends
  <2>2. CASE CommandStep
    BY <2>2 DEF CommandStep, Recovered, Prepare, Unfenced, Discarded, Written, Ended
  <2>3. ASSUME ConnectFails \/ Reserve \/ ReserveFails \/ Write PROVE FALSE
    BY <2>3 DEF ConnectFails, Reserve, ReserveFails, Write
  <2>4. ASSUME WriteFails PROVE FALSE
    BY <2>4 DEF WriteFails, WriteFailed
  <2>5. ASSUME NEW f \in Failure, Stop(f) PROVE stage = "release"
    BY <2>5 DEF Stop, WriteFailed
  <2>6. ASSUME IdleClose \/ RequestClose \/ CloseStep \/ Arrive \/ IvUpdate PROVE FALSE
    BY <2>6 DEF IdleClose, RequestClose, CloseStep, CloseMailbox, CloseLast, Closed, Arrive,
                IvUpdate
  <2>7. ASSUME NEW l \in Link,
               Connect(l) \/ CleanupSucceeds(l) \/ CleanupFails(l) \/ LinkDrops(l)
        PROVE  FALSE
    BY <2>7 DEF Connect, CleanupSucceeds, CleanupFails, LinkDrops
  <2>8. ASSUME UNCHANGED vars PROVE FALSE
    BY <2>8 DEF vars
  <2> QED
    BY <2>1, <2>2, <2>3, <2>4, <2>5, <2>6, <2>7, <2>8 DEF Next, Timeout, Interrupt, Failure
<1>2. stage # "release" /\ Settled
  <2>1. stage = "release" => late' = late
    BY <1>1 DEF Sent, Settled, Stop
  <2> QED
    BY <1>1, <2>1 DEF Sent, LateInv
<1>3. late' = late /\ late # None /\ writer = None /\ ~Pending /\ CloseWriter(FALSE)
  BY <1>2 DEF Settled, Fail, LateInv
<1>4. late.link \in links /\ late.link \in Link
  BY <1>3 DEF LateInv, IInv, TypeOK
<1>5. closing # None /\ closing.link = late.link /\ closing.settled
  BY <1>3, <1>4 DEF IInv, FenceInv, NoLinkForgotten, TypeOK, Pending
<1>6. closing = [link |-> late.link, settled |-> TRUE]
  BY <1>5 DEF IInv, TypeOK
<1>7. closing' = closing
  BY <1>3 DEF CloseWriter, Retired
<1> QED
  BY <1>3, <1>6, <1>7

(* No other command of this source goes out in front of a write that the   *)
(* native stack still holds, unless the link could not be closed.          *)
THEOREM LeaseHeld == Spec => LeaseOutlivesWrite
<1>1. IInv /\ LateInv /\ [Next]_vars =>
          [lease /\ ~lease' /\ late' # None =>
              closing' = [link |-> late'.link, settled |-> TRUE]]_vars
  BY LeaseStep
<1> QED
  BY <1>1, LateHolds, PTL DEF Spec, LeaseOutlivesWrite

-----------------------------------------------------------------------------
(* The order in which a light takes messages of the source, and the place  *)
(* of the next one: the send under way's, or the shared counter's.         *)
Before(a, b) == a.iv < b.iv \/ (a.iv = b.iv /\ a.seq < b.seq)
Front == [iv |-> iv, seq |-> IF stage = "write" THEN seq ELSE next]

(* A send works off its payloads under the lease, in places nobody else    *)
(* has, and turns the light on before the settings unless it is on.        *)
WriteInv ==
    stage = "write" =>
        /\ lease /\ next = reserved /\ next = seq + Len(todo)
        /\ IF cmd = "Off" THEN todo \in {<<"off", "off">>, <<"off">>, <<>>}
           ELSE \/ todo = <<"on", "on", "settings">>
                \/ light.power = "on" /\ todo \in {<<"on", "settings">>, <<"settings">>, <<>>}

(* What the light has taken, and what may still arrive, is older. *)
LightInv ==
    /\ light.last # None => Before(light.last, Front)
    /\ late # None => Before(late.at, Front)

(* What the controller remembers is never newer than the counter; if it is *)
(* as new, nothing goes out or has gone out since, and the light is on.    *)
ConfidenceInv ==
    confidence # None =>
        /\ writer # None
        /\ ~Before([iv |-> iv, seq |-> next], confidence)
        /\ confidence = [iv |-> iv, seq |-> next] =>
               stage # "write" /\ (power = "on" => light.power = "on")

SendInv == WriteInv /\ LightInv /\ ConfidenceInv

(* Outside a send, a step that leaves the light and the counter alone can  *)
(* at most forget what the controller remembers and what may still arrive. *)
LEMMA Quiet ==
    ASSUME SendInv, stage # "write", stage' # "write", UNCHANGED <<light, iv, next>>,
           late' = late \/ late' = None,
           confidence' = None \/ UNCHANGED <<writer, power, confidence>>
    PROVE  SendInv'
  BY DEF SendInv, WriteInv, LightInv, ConfidenceInv, Front, Before

(* So it is during a send with one that leaves the command fiber alone. *)
LEMMA Aside ==
    ASSUME SendInv, UNCHANGED <<command, mesh, writer, power, confidence>>,
           late' = late \/ late' = None
    PROVE  SendInv'
  BY DEF SendInv, WriteInv, LightInv, ConfidenceInv, Front, Before, command, mesh

(* A send that has to stop has given all its places away: the counter is   *)
(* past them, whatever of it arrives.                                      *)
LEMMA Stopped ==
    ASSUME TypeOK, SendInv, stage = "write", stage' # "write",
           confidence' = None, UNCHANGED <<iv, next>>,
           \/ light'.last = light.last
           \/ todo # <<>> /\ light'.last = Now,
           \/ late' = None
           \/ late' = late
           \/ todo # <<>> /\ late'.at = Now
    PROVE  SendInv'
<1>1. next = seq + Len(todo) /\ Len(todo) \in Nat /\ (todo # <<>> => Len(todo) > 0)
  BY DEF TypeOK, SendInv, WriteInv
<1>2. next \in Nat /\ seq \in Nat /\ iv \in Nat
  BY DEF TypeOK, Sequence, IvIndex
<1>3. /\ Front = Now /\ Front' = [iv |-> iv, seq |-> next]
      /\ seq <= next /\ (todo # <<>> => seq < next)
  BY <1>1, <1>2 DEF Front, Now
<1>4. ASSUME NEW p \in Place, Before(p, Front) PROVE Before(p, Front')
  BY <1>2, <1>3, <1>4 DEF Before, Now, Place, IvIndex, Sequence
<1>5. todo # <<>> => Before(Now, Front')
  BY <1>2, <1>3 DEF Before, Now
<1>6. light'.last # None => Before(light'.last, Front')
  BY <1>4, <1>5 DEF TypeOK, SendInv, LightInv
<1>7. late' # None => Before(late'.at, Front')
  BY <1>4, <1>5 DEF TypeOK, SendInv, LightInv
<1> QED
  BY <1>6, <1>7 DEF SendInv, WriteInv, LightInv, ConfidenceInv

(* A failure forgets the writer, and leaves the send. *)
LEMMA FailForgets ==
    ASSUME NEW f, Fail(f)
    PROVE  confidence' = None /\ stage' \in {"retry", "cancel", "abort"}
  BY DEF Fail, CloseWriter, Leave

LEMMA WriteFailedForgets ==
    ASSUME NEW f, WriteFailed(f)
    PROVE  confidence' = None /\ stage' = "settle"
  BY DEF WriteFailed, CloseWriter

(* A light in step with the source accepts what is written next. *)
LEMMA Accepted ==
    ASSUME TypeOK, LightInv, stage = "write", NEW p, Accept(p, Now)
    PROVE  light' = [power |-> IF p = "settings" THEN light.power ELSE p, last |-> Now]
<1>1. light.last # None => light.last \in Place /\ iv \in Nat /\ seq \in Nat
  BY DEF TypeOK, Sequence, IvIndex
<1>2. Newer(Now)
  BY <1>1 DEF Newer, Now, LightInv, Before, Front, Place, IvIndex, Sequence
<1> QED
  BY <1>2 DEF Accept

LEMMA SendStep == IInv /\ LateInv /\ SendInv /\ [Next]_vars => SendInv'
<1> SUFFICES ASSUME IInv, LateInv, SendInv, [Next]_vars PROVE SendInv'
  OBVIOUS
<1> USE DEF Goto
<1>t. TypeOK /\ FenceInv /\ StageInv
  BY DEF IInv
<1>n. next \in Nat /\ seq \in Nat /\ iv \in Nat
  BY <1>t DEF TypeOK, Sequence, IvIndex
<1>f. ASSUME NEW f, Fail(f), stage # "write", UNCHANGED <<light, iv, next, late>>
      PROVE  SendInv'
  BY <1>f, FailForgets, Quiet
<1>1. ASSUME NEW c \in Command, Begin(c) PROVE SendInv'
  BY <1>1, Quiet DEF Begin, CloseWriter, mesh
<1>2. CASE Recovered \/ Discarded
  BY <1>2, Quiet DEF Recovered, Discarded, mesh, writers
<1>3. CASE Prepare
  <2>1. CASE Fail("other")
    BY <1>3, <2>1, <1>f DEF Prepare, mesh
  <2>2. CASE ~Fail("other")
    BY <1>3, <2>2, Quiet DEF Prepare, CloseWriter, mesh, writers
  <2> QED
    BY <2>1, <2>2
<1>4. CASE Unfenced
  <2>1. CASE Fail("ble")
    BY <1>4, <2>1, <1>f DEF Unfenced, mesh
  <2>2. CASE Goto("prepare") /\ UNCHANGED writers
    BY <1>4, <2>2, Quiet DEF Unfenced, mesh, writers
  <2> QED
    BY <1>4, <2>1, <2>2 DEF Unfenced
<1>5. CASE Written
  <2>1. /\ stage = "write" /\ todo = <<>> /\ stage' = "release"
        /\ UNCHANGED <<iv, next, light, late>>
    BY <1>5 DEF Written, mesh
  <2>2. next = reserved /\ next = seq /\ (cmd # "Off" => light.power = "on")
    BY <2>1, <1>n DEF SendInv, WriteInv
  <2>3. CASE CloseWriter(FALSE)
    BY <2>1, <2>3, <1>t, Stopped DEF CloseWriter
  <2>4. CASE /\ power' = (IF cmd = "Off" THEN "off" ELSE "on")
             /\ confidence' = [iv |-> iv, seq |-> reserved] /\ writer' = writer
    <3>1. LightInv'
      BY <2>1, <2>2 DEF SendInv, LightInv, Front
    <3>2. ConfidenceInv'
      <4>1. writer' # None /\ stage' # "write" /\ confidence' = [iv |-> iv', seq |-> next']
        BY <2>1, <2>2, <2>4 DEF LateInv
      <4>2. ~Before([iv |-> iv', seq |-> next'], confidence')
        BY <4>1, <2>1, <1>n DEF Before
      <4>3. power' = "on" => light'.power = "on"
        BY <2>1, <2>2, <2>4
      <4> QED
        BY <4>1, <4>2, <4>3 DEF ConfidenceInv
    <3> QED
      BY <2>1, <3>1, <3>2 DEF SendInv, WriteInv
  <2> QED
    BY <1>5, <2>3, <2>4 DEF Written
<1>6. CASE Sent \/ Ended
  BY <1>6, Quiet DEF Sent, Ended, Leave, mesh, writers
<1>7. CASE Settled
  BY <1>7, <1>f DEF Settled
<1>8. CASE ConnectFails \/ ReserveFails
  BY <1>8, <1>f DEF ConnectFails, ReserveFails, mesh
<1>9. CASE Reserve
  <2>1. /\ stage = "reserve" /\ stage' = "write" /\ lease' /\ todo' = Payloads /\ seq' = next
        /\ next' = next + Len(Payloads) /\ reserved' = next'
        /\ UNCHANGED <<cmd, writer, power, confidence, iv, light, late>>
    BY <1>9 DEF Reserve, writers
  <2>2. Len(Payloads) \in 1..3
    BY PayloadsType
  <2>3. LightInv'
    BY <2>1 DEF SendInv, LightInv, Front
  <2>4. ASSUME ~Before([iv |-> iv, seq |-> next], confidence), confidence \in Place
        PROVE  /\ ~Before([iv |-> iv, seq |-> next'], confidence)
               /\ confidence # [iv |-> iv, seq |-> next']
    <3> PICK n \in 1..3 : n = Len(Payloads)
      BY <2>2
    <3>1. next' \in Nat /\ next < next'
      <4>1. next' = next + n
        BY <2>1
      <4> QED
        BY <4>1, <1>n
    <3>2. confidence.iv \in Nat /\ confidence.seq \in Nat
      BY <2>4 DEF Place, IvIndex, Sequence
    <3> QED
      BY <2>4, <3>1, <3>2, <1>n DEF Before
  <2>5. ConfidenceInv'
    BY <2>1, <2>4, <1>t DEF SendInv, ConfidenceInv, TypeOK
  <2>6. Warm => light.power = "on"
    BY <1>n, <1>t, NoneAssumption DEF Warm, Place, TypeOK, SendInv, ConfidenceInv
  <2>7. IF cmd = "Off" THEN Payloads = <<"off", "off">>
        ELSE \/ Payloads = <<"on", "on", "settings">>
             \/ light.power = "on" /\ Payloads = <<"settings">>
    BY <2>6 DEF Payloads
  <2>8. WriteInv'
    BY <2>1, <2>7 DEF WriteInv
  <2> QED
    BY <2>3, <2>5, <2>8 DEF SendInv
<1>10. CASE Write
  <2>1. /\ stage = "write" /\ stage' = "write" /\ todo # <<>> /\ todo' = Tail(todo)
        /\ seq' = seq + 1 /\ Accept(Head(todo), Now)
        /\ UNCHANGED <<cmd, reserved, writer, power, confidence, late, lease, iv, next>>
    BY <1>10 DEF Write, writers
  <2>2. light' = [power |-> IF Head(todo) = "settings" THEN light.power ELSE Head(todo),
                  last |-> Now]
    BY <2>1, <1>t, Accepted DEF SendInv
  <2>3. LightInv'
    BY <2>1, <2>2, <1>n, <1>t
       DEF SendInv, LightInv, Front, Before, Now, TypeOK, Place, IvIndex, Sequence
  <2>4. WriteInv'
    <3>1. Len(todo') = Len(todo) - 1
      BY <2>1, <1>t DEF TypeOK
    <3>2. lease /\ next = reserved /\ next' = seq' + Len(todo')
      BY <2>1, <3>1, <1>n, <1>t DEF SendInv, WriteInv, TypeOK
    <3>3. CASE cmd = "Off"
      <4>1. CASE todo = <<"off", "off">>
        BY <2>1, <3>2, <3>3, <4>1 DEF WriteInv
      <4>2. CASE todo = <<"off">>
        BY <2>1, <3>2, <3>3, <4>2 DEF WriteInv
      <4> QED
        BY <2>1, <3>3, <4>1, <4>2 DEF SendInv, WriteInv
    <3>4. CASE cmd # "Off"
      <4>1. CASE todo = <<"on", "on", "settings">>
        BY <2>1, <2>2, <3>2, <3>4, <4>1 DEF WriteInv
      <4>2. CASE light.power = "on" /\ todo = <<"on", "settings">>
        BY <2>1, <2>2, <3>2, <3>4, <4>2 DEF WriteInv
      <4>3. CASE light.power = "on" /\ todo = <<"settings">>
        <5>1. light'.power = "on" /\ todo' = <<>>
          BY <2>1, <2>2, <4>3
        <5> QED
          BY <2>1, <3>2, <3>4, <5>1 DEF WriteInv
      <4> QED
        BY <2>1, <3>4, <4>1, <4>2, <4>3 DEF SendInv, WriteInv
    <3> QED
      BY <3>3, <3>4
  <2>5. ConfidenceInv'
    BY <2>1 DEF SendInv, ConfidenceInv
  <2> QED
    BY <2>3, <2>4, <2>5 DEF SendInv
<1>11. CASE WriteFails
  <2>1. /\ stage = "write" /\ todo # <<>> /\ UNCHANGED <<iv, next>>
        /\ \E f : WriteFailed(f)
    BY <1>11 DEF WriteFails
  <2>2. confidence' = None /\ stage' = "settle"
    BY <2>1, WriteFailedForgets
  <2>3. light'.last = light.last \/ light'.last = Now
    BY <1>11 DEF WriteFails, Accept
  <2>4. late' = late \/ late'.at = Now
    BY <1>11 DEF WriteFails
  <2> QED
    BY <2>1, <2>2, <2>3, <2>4, <1>t, Stopped
<1>12. ASSUME NEW f \in Failure, Stop(f) PROVE SendInv'
  <2>1. CASE stage # "write" /\ Fail(f) /\ UNCHANGED <<light, iv, next, late>>
    BY <2>1, <1>f
  <2>2. CASE stage = "write"
    <3>1. WriteFailed(f) /\ UNCHANGED <<light, iv, next>>
      BY <1>12, <2>2 DEF Stop
    <3>2. late' = late \/ (todo # <<>> /\ late'.at = Now)
      BY <1>12, <2>2 DEF Stop
    <3> QED
      BY <2>2, <3>1, <3>2, <1>t, WriteFailedForgets, Stopped
  <2>3. CASE UNCHANGED <<stage, writers, late, mesh>> /\ stage = "settle"
    BY <2>3, Quiet DEF writers, mesh
  <2> QED
    BY <1>12, <2>1, <2>2, <2>3 DEF Stop, mesh
<1>13. CASE IdleClose
  BY <1>13, <1>t, Quiet DEF IdleClose, CloseWriter, StageInv, command, mesh
<1>14. CASE RequestClose \/ CloseMailbox \/ Closed
  BY <1>14, Aside DEF RequestClose, CloseMailbox, Closed, writers
<1>15. CASE CloseLast
  BY <1>15, Quiet DEF CloseLast, CloseWriter, command, mesh
<1>16. CASE Arrive
  <2>1. /\ late # None /\ late' = None
        /\ UNCHANGED <<stage, seq, writer, confidence, iv, next>>
    BY <1>16 DEF Arrive, writers, command
  <2>2. writer = None /\ stage # "write" /\ confidence = None
    BY <2>1 DEF LateInv, SendInv, ConfidenceInv
  <2>3. light'.last = light.last \/ light'.last = late.at
    BY <1>16 DEF Arrive, Accept
  <2> QED
    BY <2>1, <2>2, <2>3 DEF SendInv, WriteInv, LightInv, ConfidenceInv, Front
<1>17. CASE IvUpdate
  <2>1. /\ ~lease /\ iv' = iv + 1 /\ next' = 0
        /\ UNCHANGED <<stage, seq, writer, power, confidence, late, light>>
    BY <1>17 DEF IvUpdate, writers, command
  <2>2. stage # "write"
    BY <2>1 DEF SendInv, WriteInv
  <2>3. ASSUME NEW p \in Place, p.iv <= iv PROVE Before(p, Front')
    BY <2>1, <2>2, <2>3, <1>n DEF Before, Front, Place, IvIndex
  <2> QED
    BY <2>1, <2>2, <2>3, <1>t, <1>n
       DEF SendInv, WriteInv, LightInv, ConfidenceInv, Front, Before, TypeOK, Place, IvIndex,
           Sequence
<1>18. ASSUME NEW c \in Command, OtherSends(c) PROVE SendInv'
  <2>1. PICK n \in {2, 3} :
            /\ ~lease /\ next' = next + n
            /\ \/ light'.last = [iv |-> iv, seq |-> next + n - 1]
               \/ UNCHANGED light
            /\ UNCHANGED <<stage, seq, writer, power, confidence, late, iv>>
    BY <1>18 DEF OtherSends, writers, command
  <2>2. stage # "write"
    BY <2>1 DEF SendInv, WriteInv
  <2>3. Front = [iv |-> iv, seq |-> next] /\ Front' = [iv |-> iv, seq |-> next + n]
    BY <2>1, <2>2 DEF Front
  <2>4. ASSUME NEW p \in Place, Before(p, Front) \/ ~Before(Front, p)
        PROVE  Before(p, Front') /\ p # Front'
    BY <2>3, <2>4, <1>n DEF Before, Place, IvIndex, Sequence
  <2>5. LightInv'
    <3>1. Before([iv |-> iv, seq |-> next + n - 1], Front')
      BY <2>3, <1>n DEF Before
    <3> QED
      BY <2>1, <2>4, <3>1, <1>t DEF SendInv, LightInv, TypeOK
  <2>6. ConfidenceInv'
    <3> SUFFICES ASSUME confidence' # None PROVE ConfidenceInv'
      BY DEF ConfidenceInv
    <3>1. confidence \in Place /\ ~Before(Front, confidence) /\ writer # None
      BY <2>1, <2>3, <1>t DEF SendInv, ConfidenceInv, TypeOK
    <3>2. Before(confidence, Front') /\ confidence # Front'
      BY <3>1, <2>4
    <3>3. ~Before(Front', confidence)
      BY <3>1, <3>2, <2>3, <1>n DEF Before, Place, IvIndex, Sequence
    <3>4. Front' = [iv |-> iv', seq |-> next']
      BY <2>1, <2>3
    <3> QED
      BY <2>1, <3>1, <3>2, <3>3, <3>4 DEF ConfidenceInv
  <2> QED
    BY <2>1, <2>2, <2>5, <2>6 DEF SendInv, WriteInv
<1>19. ASSUME NEW l \in Link, Connect(l) PROVE SendInv'
  BY <1>19, Quiet DEF Connect, mesh
<1>20. ASSUME NEW l \in Link, CleanupSucceeds(l) \/ CleanupFails(l) \/ LinkDrops(l)
       PROVE  SendInv'
  BY <1>20, Aside DEF CleanupSucceeds, CleanupFails, LinkDrops, Undelivered, writers
<1>21. CASE UNCHANGED vars
  BY <1>21, Aside DEF vars, writers
<1> QED
  BY <1>1, <1>2, <1>3, <1>4, <1>5, <1>6, <1>7, <1>8, <1>9, <1>10, <1>11, <1>12, <1>13, <1>14,
     <1>15, <1>16, <1>17, <1>18, <1>19, <1>20, <1>21
     DEF Next, CommandStep, CloseStep, Timeout, Interrupt, Failure

(* No light has taken a message and nothing is remembered at the start. *)
LEMMA SendHolds == Spec => [](IInv /\ LateInv /\ SendInv)
<1>1. Init => SendInv
  BY DEF Init, SendInv, WriteInv, LightInv, ConfidenceInv
<1> QED
  BY <1>1, LateHolds, SendStep, PTL DEF Spec

(* A light that gets new settings is awake, whoever turned it off, and     *)
(* whatever other senders, failures and late writes came between: what the *)
(* controller remembers counts only while the shared counter stands.       *)
THEOREM Awake == Spec => AwakeForSettings
<1>1. IInv /\ LateInv /\ SendInv /\ [Next]_vars =>
          [stage = "write" /\ todo # <<>> /\ todo' = Tail(todo) /\ Head(todo) = "settings" =>
              light.power = "on"]_vars
  <2> SUFFICES ASSUME SendInv, stage = "write", todo # <<>>, Head(todo) = "settings"
               PROVE  light.power = "on"
    OBVIOUS
  <2>1. todo # <<"off", "off">> /\ todo # <<"off">> /\ todo # <<"on", "on", "settings">>
    OBVIOUS
  <2> QED
    BY <2>1 DEF SendInv, WriteInv
<1> QED
  BY <1>1, SendHolds, PTL DEF Spec, AwakeForSettings
=============================================================================
