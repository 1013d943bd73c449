----------------------------- MODULE Controller -----------------------------
(***************************************************************************)
(* makeMeshController of packages/mesh/src/controller.ts: how one command  *)
(* at a time (CommandQueue) gets a BLE writer, reserves sequence numbers   *)
(* under the shared lease (Reservation), writes, retries once, and how     *)
(* writers are retired: by failures, cancellations, an idle timer and the  *)
(* controller's close.  Another controller of the same mesh source takes   *)
(* the lease in between.  A link is a native BLE connection; the profile   *)
(* below it and the other controller are the environment.  An action is a  *)
(* section of the code between two awaits.                                 *)
(***************************************************************************)
EXTENDS Integers, Sequences, FiniteSets

CONSTANTS
    Link,           \* connections; a closed one's name is used again
    None,           \* undefined
    MaxSequence,    \* MAX_SEQUENCE
    MaxIvIndex,     \* the last IV index
    Modes           \* how writers are kept: some of "cached", "instant", "single"

ASSUME ModesAssumption == Modes \subseteq {"cached", "instant", "single"}
ASSUME SequenceAssumption == MaxSequence \in Nat /\ MaxIvIndex \in Nat

IvIndex == 0..MaxIvIndex
Sequence == 0..MaxSequence + 1
Place == [iv : IvIndex, seq : Sequence]

ASSUME NoneAssumption == None \notin Link \cup [link : Link, settled : BOOLEAN] \cup Place

VARIABLES
    mode,           \* persistentConnection with a positive connectionIdleMs is
                    \* "cached", with 0 "instant", and its absence "single"
    closed,         \* closed
    shutdown,       \* how far the close fiber is
    writer,         \* writer: a link, or None
    power,          \* powerState
    confidence,     \* powerConfidenceSource and -NextSequence, or None
    timer,          \* the scheduledWriter of the idle timer, or None
    closing,        \* closing: its link and whether it is settled, or None
    stage,          \* where the command fiber stands
    cmd,            \* the command, or None
    attempt,        \* attempt, 1 or 2
    conn,           \* sendNow's writer, or None
    todo,           \* the payloads sendNow has still to write
    seq,            \* the sequence number of the next of them
    reserved,       \* the reservation's nextSequenceNumber
    verdict,        \* why a send that holds the lease has failed, or None
    lease,          \* this controller holds the source lease
    (* environment *)
    links,          \* the links that are up
    cleaning,       \* cleaning[l]: attempts the cleanup of l has left
    late,           \* a timed-out write still with the native stack, or None
    iv, next,       \* the source's IV index and shared counter
    light           \* the light: its power and the last message it accepted

control == <<mode, closed, shutdown>>
writers == <<writer, power, confidence, timer, closing, cleaning>>
command == <<stage, cmd, attempt, conn, todo, seq, reserved, verdict>>
mesh == <<lease, iv, next, light>>
vars == <<control, writers, command, links, late, mesh>>

Command == {"Off", "Set"}
Payload == {"off", "on", "settings"}
Waiting == {"recover", "discard", "retry", "settle", "abort", "cancel"}
Stage == Waiting \cup {"idle", "prepare", "fenced", "connect", "reserve", "write", "release"}
Failure == {"ble", "other", "timeout", "interrupt"}
MaxAttempts == 2

TypeOK ==
    /\ mode \in Modes /\ closed \in BOOLEAN
    /\ shutdown \in {"open", "requested", "draining", "cleaning", "done"}
    /\ writer \in Link \cup {None}
    /\ power \in {"unknown", "on", "off"}
    /\ confidence \in Place \cup {None}
    /\ timer \in Link \cup {None}
    /\ closing \in [link : Link, settled : BOOLEAN] \cup {None}
    /\ stage \in Stage /\ cmd \in Command \cup {None} /\ attempt \in 1..2
    /\ conn \in Link \cup {None} /\ todo \in Seq(Payload)
    /\ seq \in Sequence /\ reserved \in Sequence /\ verdict \in Failure \cup {None}
    /\ lease \in BOOLEAN
    /\ links \subseteq Link /\ cleaning \in [Link -> 0..MaxAttempts]
    /\ late \in [link : Link, payload : Payload, at : Place] \cup {None}
    /\ iv \in IvIndex /\ next \in Sequence
    /\ light \in [power : {"on", "off"}, last : Place \cup {None}]

Init ==
    /\ mode \in Modes /\ closed = FALSE /\ shutdown = "open"
    /\ writer = None /\ power = "unknown" /\ confidence = None /\ timer = None
    /\ closing = None
    /\ stage = "idle" /\ cmd = None /\ attempt = 1 /\ conn = None /\ todo = <<>>
    /\ seq = 0 /\ reserved = 0 /\ verdict = None
    /\ lease = FALSE /\ links = {} /\ cleaning = [l \in Link |-> 0] /\ late = None
    /\ iv = 0 /\ next = 0
    /\ light \in [power : {"on", "off"}, last : {None}]

-----------------------------------------------------------------------------
(* closeWriter, up to its await: retire the writer or, for a new command,  *)
(* the one whose cleanup has failed, behind the fence "closing".           *)
Retired(retryFailed) ==
    IF writer # None THEN writer
    ELSE IF retryFailed /\ closing # None /\ closing.settled THEN closing.link
    ELSE None

CloseWriter(retryFailed) ==
    /\ writer' = None
    /\ power' = "unknown"
    /\ confidence' = None
    /\ timer' = None
    /\ IF Retired(retryFailed) = None
       THEN UNCHANGED <<closing, cleaning>>
       ELSE /\ closing' = [link |-> Retired(retryFailed), settled |-> FALSE]
            /\ cleaning' = [cleaning EXCEPT ![Retired(retryFailed)] = MaxAttempts]

(* awaitWriterClose waits while this holds. *)
Pending == closing # None /\ ~closing.settled

(* writerForSend's fence.  The seeded fault lets a failed cleanup through. *)
Fenced_PendingOnly == Pending
Fenced == closing # None

-----------------------------------------------------------------------------
(* The fiber leaves for a stage; outside sendNow its locals are gone. *)
Goto(s) ==
    /\ stage' = s
    /\ UNCHANGED <<cmd, attempt, conn, todo, seq, reserved, verdict>>

Leave(s) ==
    /\ stage' = s
    /\ conn' = None /\ todo' = <<>> /\ seq' = 0 /\ reserved' = 0 /\ verdict' = None
    /\ IF s = "idle" THEN cmd' = None /\ attempt' = 1 ELSE UNCHANGED <<cmd, attempt>>

(* withSendTimeout: only a BLE failure of the first attempt is retried;    *)
(* any other failure closes the writer and ends the command.               *)
Fail(failure) ==
    /\ CloseWriter(FALSE)
    /\ Leave(IF failure = "ble" /\ attempt = 1 THEN "retry"
             ELSE IF failure = "interrupt" THEN "cancel"
             ELSE "abort")

(* withSendTimeout: a command starts by retrying a cleanup that failed. *)
Begin(c) ==
    /\ stage = "idle"
    /\ shutdown \in {"open", "requested"}
    /\ cmd' = c
    /\ IF closing # None /\ closing.settled
       THEN /\ CloseWriter(TRUE)
            /\ stage' = "recover"
       ELSE /\ stage' = "prepare"
            /\ timer' = None
            /\ UNCHANGED <<writer, power, confidence, closing, cleaning>>
    /\ UNCHANGED <<attempt, conn, todo, seq, reserved, verdict, control, links, late, mesh>>

(* sendNow starts, for the first or the second time. *)
Recovered ==
    /\ stage \in {"recover", "retry"} /\ ~Pending
    /\ stage' = "prepare"
    /\ attempt' = IF stage = "retry" THEN 2 ELSE attempt
    /\ timer' = None
    /\ UNCHANGED <<cmd, conn, todo, seq, reserved, verdict, writer, power, confidence, closing,
                   cleaning, control, links, late, mesh>>

(* writerForSend: refuse, wait for a cleanup, reuse, discard or connect. *)
Prepare ==
    /\ stage = "prepare"
    /\ \/ closed /\ Fail("other")
       \/ ~closed /\ Fenced /\ Goto("fenced") /\ UNCHANGED writers
       \/ /\ ~closed /\ ~Fenced /\ writer # None /\ mode # "single"
          /\ \/ /\ writer \in links
                /\ stage' = "reserve" /\ conn' = writer
                /\ UNCHANGED <<cmd, attempt, todo, seq, reserved, verdict, writers>>
             \/ writer \notin links /\ Goto("discard") /\ CloseWriter(FALSE)
       \/ /\ ~closed /\ ~Fenced /\ (writer = None \/ mode = "single")
          /\ Goto("connect")
          /\ UNCHANGED writers
    /\ UNCHANGED <<control, links, late, mesh>>

(* writerForSend: the cleanup is over; look again, or fail if it failed. *)
Unfenced ==
    /\ stage = "fenced" /\ ~Pending
    /\ IF closing = None THEN Goto("prepare") /\ UNCHANGED writers ELSE Fail("ble")
    /\ UNCHANGED <<control, links, late, mesh>>

Discarded ==
    /\ stage = "discard" /\ ~Pending
    /\ Goto("prepare")
    /\ UNCHANGED <<control, writers, links, late, mesh>>

(* connectProxyWriter: ownWriter takes the link before anything can        *)
(* interrupt the fiber.  One that fails never hands out a writer; what     *)
(* becomes of its connection is in BleConnection.                          *)
Known == links \cup {l \in Link : cleaning[l] > 0 \/ l = timer \/ l = writer}
           \cup (IF closing = None THEN {} ELSE {closing.link})

Connect(l) ==
    /\ stage = "connect"
    /\ l \notin Known
    /\ links' = links \cup {l}
    /\ writer' = l
    /\ power' = "unknown" /\ confidence' = None
    /\ conn' = l
    /\ stage' = "reserve"
    /\ UNCHANGED <<cmd, attempt, todo, seq, reserved, verdict, timer, closing, cleaning, control,
                   late, mesh>>

ConnectFails ==
    /\ stage = "connect"
    /\ Fail("ble")
    /\ UNCHANGED <<control, links, late, mesh>>

(* Another command of this source may have gone out since the last one of  *)
(* this controller.  The seeded fault does not look for one.               *)
Warm_OwnHistory == power = "on"
Warm == power = "on" /\ confidence = [iv |-> iv, seq |-> next]

Payloads ==
    IF cmd = "Off" THEN <<"off", "off">>
    ELSE IF Warm THEN <<"settings">>
    ELSE <<"on", "on", "settings">>

(* The seeded fault compares the first number only. *)
Exhausted_FirstOnly(n) == next > MaxSequence
Exhausted(n) == next + n > MaxSequence + 1

(* sendNow: the payloads are chosen under the lease and numbered. *)
Reserve ==
    /\ stage = "reserve" /\ ~lease
    /\ ~Exhausted(Len(Payloads))
    /\ lease' = TRUE
    /\ todo' = Payloads
    /\ seq' = next
    /\ next' = next + Len(Payloads)
    /\ reserved' = next'
    /\ stage' = "write"
    /\ UNCHANGED <<cmd, attempt, conn, verdict, control, writers, links, late, iv, light>>

(* The state file or the reservation fails: not a BLE error. *)
ReserveFails ==
    /\ stage = "reserve"
    /\ Fail("other")
    /\ UNCHANGED <<control, links, late, mesh>>

(* The light drops what is not newer than what it has accepted. *)
Newer(at) == light.last = None \/ at.iv > light.last.iv
                \/ (at.iv = light.last.iv /\ at.seq > light.last.seq)
Accept(payload, at) ==
    light' = IF ~Newer(at) THEN light
             ELSE [power |-> IF payload = "settings" THEN light.power ELSE payload, last |-> at]

(* sendNow's onExit: the writer is closed before the lease is released.    *)
(* The seeded fault releases the lease first.                              *)
WriteFailed_LeaseFirst(failure) ==
    /\ CloseWriter(FALSE)
    /\ stage' = "settle" /\ verdict' = failure
    /\ lease' = FALSE
    /\ UNCHANGED <<cmd, attempt, conn, todo, seq, reserved>>

WriteFailed(failure) ==
    /\ CloseWriter(FALSE)
    /\ stage' = "settle" /\ verdict' = failure
    /\ UNCHANGED <<cmd, attempt, conn, todo, seq, reserved, lease>>

Now == [iv |-> iv, seq |-> seq]

(* writePdus: one payload is written ... *)
Write ==
    /\ stage = "write" /\ todo # <<>> /\ ~closed
    /\ conn \in links
    /\ Accept(Head(todo), Now)
    /\ todo' = Tail(todo) /\ seq' = seq + 1
    /\ UNCHANGED <<stage, cmd, attempt, conn, reserved, verdict, control, writers, links, late,
                   lease, iv, next>>

(* ... or fails, whether it has arrived or not; or times out, and may      *)
(* arrive as long as the link is up; or the controller has been closed.    *)
WriteFails ==
    /\ stage = "write" /\ todo # <<>>
    /\ \/ /\ closed
          /\ WriteFailed("other") /\ UNCHANGED <<late, light>>
       \/ /\ ~closed
          /\ WriteFailed("ble") /\ UNCHANGED late
          /\ UNCHANGED light \/ (conn \in links /\ Accept(Head(todo), Now))
       \/ /\ ~closed /\ conn \in links
          /\ WriteFailed("ble") /\ UNCHANGED light
          /\ late' = [link |-> conn, payload |-> Head(todo), at |-> Now]
    /\ UNCHANGED <<control, links, iv, next>>

(* Everything is written: note the power and schedule the idle close,      *)
(* which is immediate when writers are not kept.                           *)
Written ==
    /\ stage = "write" /\ todo = <<>>
    /\ Goto("release")
    /\ IF mode # "cached" /\ ~closed
       THEN CloseWriter(FALSE)
       ELSE /\ power' = IF cmd = "Off" THEN "off" ELSE "on"
            /\ confidence' = [iv |-> iv, seq |-> reserved]
            /\ timer' = IF closed THEN None ELSE writer
            /\ UNCHANGED <<writer, closing, cleaning>>
    /\ UNCHANGED <<control, links, late, mesh>>

(* The lease is released and the command has succeeded. *)
Sent ==
    /\ stage = "release"
    /\ lease' = FALSE
    /\ Leave("idle")
    /\ UNCHANGED <<control, writers, links, late, iv, next, light>>

(* The writer of a failed write is closed, or cannot be: release the lease. *)
Settled ==
    /\ stage = "settle" /\ ~Pending
    /\ lease' = FALSE
    /\ Fail(verdict)
    /\ UNCHANGED <<control, links, late, iv, next, light>>

(* The send timeout fires, or the fiber is interrupted by the cancellation *)
(* of its last caller or by close.  The finalizers of the lease are not    *)
(* interrupted: they run first.                                            *)
Stop(failure) ==
    \/ /\ stage \in {"recover", "prepare", "fenced", "discard", "connect", "reserve", "retry"}
             \cup (IF failure = "interrupt" THEN {"abort"} ELSE {})
       /\ Fail(failure)
       /\ UNCHANGED <<control, links, late, mesh>>
    \/ /\ stage = "write"
       /\ WriteFailed(failure)
       /\ \/ UNCHANGED late
          \/ /\ todo # <<>> /\ conn \in links
             /\ late' = [link |-> conn, payload |-> Head(todo), at |-> Now]
       /\ UNCHANGED <<control, links, iv, next, light>>
    \/ /\ stage = "release"
       /\ lease' = FALSE
       /\ Fail(failure)
       /\ UNCHANGED <<control, links, late, iv, next, light>>
    \/ /\ stage = "settle" /\ verdict # "interrupt" /\ verdict # failure
       /\ verdict' = failure
       /\ UNCHANGED <<stage, cmd, attempt, conn, todo, seq, reserved, control, writers, links,
                      late, mesh>>

Timeout == Stop("timeout")
Interrupt == Stop("interrupt")

(* The cleanup that ends a command is over. *)
Ended ==
    /\ stage \in {"abort", "cancel"} /\ ~Pending
    /\ Leave("idle")
    /\ UNCHANGED <<control, writers, links, late, mesh>>

-----------------------------------------------------------------------------
(* The idle timer fires: its writer is closed if it is still the writer. *)
IdleClose ==
    /\ timer # None
    /\ IF ~closed /\ writer = timer
       THEN CloseWriter(FALSE)
       ELSE timer' = None /\ UNCHANGED <<writer, power, confidence, closing, cleaning>>
    /\ UNCHANGED <<control, command, links, late, mesh>>

(* What a finished cleanup of l leaves of the fence.  The seeded fault     *)
(* lifts it after a failure too.                                           *)
FenceAfter_Lifted(l, succeeded) ==
    IF closing # None /\ closing.link = l THEN None ELSE closing
FenceAfter(l, succeeded) ==
    IF closing = None \/ closing.link # l THEN closing
    ELSE IF succeeded THEN None
    ELSE [closing EXCEPT !.settled = TRUE]

(* A failed attempt at cleanup is made once more.  The seeded fault does   *)
(* not count.                                                              *)
Remaining_Unlimited(n) == n
Remaining(n) == n - 1

Undelivered(l) == IF late # None /\ late.link = l THEN None ELSE late

CleanupSucceeds(l) ==
    /\ cleaning[l] > 0
    /\ links' = links \ {l}
    /\ late' = Undelivered(l)
    /\ cleaning' = [cleaning EXCEPT ![l] = 0]
    /\ closing' = FenceAfter(l, TRUE)
    /\ UNCHANGED <<control, command, writer, power, confidence, timer, mesh>>

(* It fails or takes more than WRITER_CLOSE_ATTEMPT_TIMEOUT_MS. *)
CleanupFails(l) ==
    /\ cleaning[l] > 0
    /\ cleaning' = [cleaning EXCEPT ![l] = Remaining(@)]
    /\ closing' = IF cleaning'[l] = 0 THEN FenceAfter(l, FALSE) ELSE closing
    /\ UNCHANGED <<control, command, links, late, writer, power, confidence, timer, mesh>>

(* close: stop commands, ... *)
RequestClose ==
    /\ shutdown = "open"
    /\ closed' = TRUE /\ shutdown' = "requested"
    /\ timer' = None
    /\ UNCHANGED <<mode, command, writer, power, confidence, closing, cleaning, links, late, mesh>>

CloseMailbox ==
    /\ shutdown = "requested"
    /\ shutdown' = "draining"
    /\ UNCHANGED <<mode, closed, command, writers, links, late, mesh>>

(* ... close the writer once none is left, ... *)
CloseLast ==
    /\ shutdown = "draining" /\ stage = "idle"
    /\ shutdown' = "cleaning"
    /\ CloseWriter(FALSE)
    /\ UNCHANGED <<mode, closed, command, links, late, mesh>>

(* ... and wait for its cleanup.  The seeded faults wait for a success,    *)
(* and do not wait.                                                        *)
CleanedUp_ForCertain == closing = None
CleanedUp_AtOnce == TRUE
CleanedUp == ~Pending

Closed ==
    /\ shutdown = "cleaning" /\ CleanedUp
    /\ shutdown' = "done"
    /\ UNCHANGED <<mode, closed, command, writers, links, late, mesh>>

-----------------------------------------------------------------------------
(* Environment: a link goes down, a write arrives late, another controller *)
(* reserves and sends or fails to, the mesh moves to the next IV index.    *)
LinkDrops(l) ==
    /\ l \in links
    /\ links' = links \ {l}
    /\ late' = Undelivered(l)
    /\ UNCHANGED <<control, writers, command, mesh>>

Arrive ==
    /\ late # None
    /\ Accept(late.payload, late.at)
    /\ late' = None
    /\ UNCHANGED <<control, writers, command, links, lease, iv, next>>

OtherSends(c) ==
    LET n == IF c = "Off" THEN 2 ELSE 3 IN
    /\ ~lease
    /\ next + n <= MaxSequence + 1
    /\ next' = next + n
    /\ \/ light' = [power |-> IF c = "Off" THEN "off" ELSE "on",
                    last |-> [iv |-> iv, seq |-> next + n - 1]]
       \/ UNCHANGED light
    /\ UNCHANGED <<control, writers, command, links, late, lease, iv>>

IvUpdate ==
    /\ ~lease
    /\ iv < MaxIvIndex
    /\ iv' = iv + 1
    /\ next' = 0
    /\ UNCHANGED <<control, writers, command, links, late, lease, light>>

CommandStep ==
    \/ Recovered \/ Prepare \/ Unfenced \/ Discarded \/ Written \/ Sent \/ Settled \/ Ended
CloseStep == CloseMailbox \/ CloseLast \/ Closed

Next ==
    \/ \E c \in Command : Begin(c) \/ OtherSends(c)
    \/ CommandStep \/ ConnectFails \/ Reserve \/ ReserveFails \/ Write \/ WriteFails
    \/ Timeout \/ Interrupt \/ IdleClose \/ RequestClose \/ CloseStep \/ Arrive \/ IvUpdate
    \/ \E l \in Link : Connect(l) \/ CleanupSucceeds(l) \/ CleanupFails(l) \/ LinkDrops(l)

Spec == Init /\ [][Next]_vars

(* The program's own steps are taken and its deadlines fire: that of a     *)
(* command and that of an attempt at cleanup.  Nothing native is fair.     *)
FairSpec ==
    /\ Spec
    /\ WF_vars(CommandStep) /\ WF_vars(Timeout) /\ WF_vars(CloseStep)
    /\ \A l \in Link : WF_vars(CleanupFails(l))

-----------------------------------------------------------------------------
(* A replacement is connected only when the writer before it is known to   *)
(* be down: noble may reuse the peripheral object, and a late disconnect   *)
(* would close the new link.                                               *)
OneLink == Cardinality(links \cup {l \in Link : cleaning[l] > 0}) <= 1

(* A link that is up can still be closed: it is the writer, or the fence   *)
(* remembers it for the next cleanup.                                      *)
NoLinkForgotten ==
    \A l \in links : l = writer \/ (closing # None /\ closing.link = l)

(* A light is awake when it gets new settings, whoever turned it off. *)
AwakeForSettings ==
    [][stage = "write" /\ todo # <<>> /\ todo' = Tail(todo) /\ Head(todo) = "settings" =>
          light.power = "on"]_vars

(* The lease is not released before a write that the native stack still    *)
(* holds, unless both attempts to disconnect have failed: no other command *)
(* of this source goes out in front of it.                                 *)
LeaseOutlivesWrite ==
    [][lease /\ ~lease' /\ late' # None =>
          closing' = [link |-> late'.link, settled |-> TRUE]]_vars

(* When close has returned nothing is left behind but a link that two      *)
(* attempts could not close.                                               *)
ClosedIsQuiet ==
    shutdown = "done" =>
        /\ stage = "idle" /\ ~lease /\ writer = None /\ timer = None
        /\ \A l \in links : closing = [link |-> l, settled |-> TRUE]

(* Every command ends, whatever hangs below it: the deadline and the       *)
(* bounded cleanup see to it.                                              *)
EveryCommandEnds == stage # "idle" ~> stage = "idle"

(* And so does close. *)
CloseEnds == shutdown = "requested" ~> shutdown = "done"
=============================================================================
