---------------------------- MODULE CommandQueue ----------------------------
(***************************************************************************)
(* makeCommandQueue of packages/mesh/src/commandQueue.ts: the scoped       *)
(* serial mailbox through which a controller sends.  Callers publish       *)
(* requests in batches, a worker fiber drains the batches and runs one     *)
(* command for each, and closers shut the mailbox down.  An action is one  *)
(* section of the code without a yield; fibers interleave between them.    *)
(* A batch is named after the request that created it, a worker after the  *)
(* request that launched it.                                               *)
(***************************************************************************)
EXTENDS Naturals, FiniteSets, Sequences, SequencesExt

CONSTANTS
    Request,        \* the calls to send
    Closer,         \* the calls to close
    None,           \* undefined
    Coalescing      \* the values of the coalesce option to consider

Outcome == {"done", "interrupt", "closed"}   \* "done": succeeded or failed

ASSUME CoalescingAssumption == Coalescing \subseteq BOOLEAN
ASSUME NoneAssumption == None \notin Request \cup Closer \cup Outcome

Batch == Request
Worker == Request

VARIABLES
    coalesce,       \* the option
    closed,         \* closed
    mailbox,        \* the batches offered and not yet taken
    queued,         \* the set of the same name
    tail,           \* the batch that callers coalesce into, or None
    requests,       \* requests[b]: the requests of batch b, in insertion order
    active,         \* the batch the worker has claimed, or None
    worker,         \* the current worker, or None
    pc,             \* pc[r]: where the caller of r stands
    batchOf,        \* batchOf[r]: the batch r was added to
    completion,     \* completion[r]: how r was settled, or None
    drain,          \* drain[w]: where the fiber of worker w stands
    mine,           \* mine[w]: the batch that fiber has claimed last
    stop,           \* stop[w]: that fiber has been interrupted
    command,        \* command[b]: how far the command run for b is
    selected,       \* selected[b]: the request whose command that is
    result,         \* result[b]: how it ended
    closing,        \* closing[k]: where closer k stands
    doomed,         \* the batches that close has set out to fail
    joined,         \* the worker that close has set out to join, or None
    published       \* history: the requests in the order they were published

mailboxVars == <<coalesce, closed, mailbox, queued, tail, requests, active, worker>>
callerVars == <<pc, batchOf, completion, published>>
workerVars == <<drain, mine, stop>>
commandVars == <<command, selected, result>>
closerVars == <<closing, doomed, joined>>
vars == <<mailboxVars, callerVars, workerVars, commandVars, closerVars>>

CallerStage == {"new", "starting", "forking", "waiting", "cancelling", "joining",
                "answered", "cancelled", "rejected"}
DrainStage == {"none", "polling", "claimed", "running", "reaping", "exited"}
Executing == {"running", "stopping"}

TypeOK ==
    /\ coalesce \in BOOLEAN /\ closed \in BOOLEAN
    /\ mailbox \in Seq(Batch) /\ IsInjective(mailbox)
    /\ queued = ToSet(mailbox) \/ closed
    /\ tail \in queued \cup {None}
    /\ requests \in [Batch -> Seq(Request)]
    /\ active \in Batch \cup {None}
    /\ worker \in Worker \cup {None}
    /\ pc \in [Request -> CallerStage]
    /\ batchOf \in [Request -> Batch \cup {None}]
    /\ completion \in [Request -> Outcome \cup {None}]
    /\ drain \in [Worker -> DrainStage]
    /\ mine \in [Worker -> Batch \cup {None}]
    /\ stop \in [Worker -> BOOLEAN]
    /\ command \in [Batch -> {"none", "ended"} \cup Executing]
    /\ selected \in [Batch -> Request \cup {None}]
    /\ result \in [Batch -> Outcome \cup {None}]
    /\ closing \in [Closer -> {"idle", "failing", "joining", "awaiting", "done"}]
    /\ doomed \subseteq Batch
    /\ joined \in Worker \cup {None}
    /\ published \in Seq(Request)

Init ==
    /\ coalesce \in Coalescing
    /\ closed = FALSE
    /\ mailbox = <<>> /\ queued = {} /\ tail = None
    /\ requests = [b \in Batch |-> <<>>]
    /\ active = None /\ worker = None
    /\ pc = [r \in Request |-> "new"]
    /\ batchOf = [r \in Request |-> None]
    /\ completion = [r \in Request |-> None]
    /\ drain = [w \in Worker |-> "none"]
    /\ mine = [w \in Worker |-> None]
    /\ stop = [w \in Worker |-> FALSE]
    /\ command = [b \in Batch |-> "none"]
    /\ selected = [b \in Batch |-> None]
    /\ result = [b \in Batch |-> None]
    /\ closing = [k \in Closer |-> "idle"]
    /\ doomed = {} /\ joined = None
    /\ published = <<>>

Goto(r, stage) == pc' = [pc EXCEPT ![r] = stage]
Drain(w, stage) == drain' = [drain EXCEPT ![w] = stage]

(* Deferred.done: the first outcome counts. *)
Settle(rs, outcome) ==
    completion' = [r \in Request |->
                      IF r \in rs /\ completion[r] = None THEN outcome ELSE completion[r]]

(* The Deferred "started" of a worker and of a claimed batch.  The seeded  *)
(* fault loses a worker that ended before it was published.                *)
WorkerStarted_WhileAlive(w) == drain[w] \notin {"none", "exited"}
WorkerStarted(w) == drain[w] # "none"
CommandStarted(b) == command[b] # "none"

(* Fiber.await of a command, its finalizers included.  The seeded fault    *)
(* returns as soon as the interruption is asked for.                       *)
CommandOver_Asked(b) == command[b] \in {"stopping", "ended"}
CommandOver(b) == command[b] = "ended"

-----------------------------------------------------------------------------
(* send: the synchronous section that checks for closure and publishes, in *)
(* the tail batch or in a new one.                                         *)
Publish(r) ==
    /\ pc[r] = "new"
    /\ \/ /\ closed
          /\ Goto(r, "rejected")
          /\ UNCHANGED <<mailboxVars, batchOf, published>>
       \/ /\ ~closed
          /\ LET joins == coalesce /\ tail # None
                 b == IF joins THEN tail ELSE r
             IN  /\ mailbox' = IF joins THEN mailbox ELSE Append(mailbox, b)
                 /\ queued' = queued \cup {b}
                 /\ tail' = b
                 /\ requests' = [requests EXCEPT ![b] = Append(@, r)]
                 /\ batchOf' = [batchOf EXCEPT ![r] = b]
          /\ published' = Append(published, r)
          /\ Goto(r, "starting")
          /\ UNCHANGED <<coalesce, closed, active, worker>>
    /\ UNCHANGED <<completion, workerVars, commandVars, closerVars>>

(* startWorker: the section that decides whether to launch a worker.  The  *)
(* seeded fault does not look for one that is there.                       *)
MayLaunch_Another == ~closed
MayLaunch == worker = None /\ ~closed

Launch(r) ==
    /\ pc[r] = "starting"
    /\ \/ /\ ~MayLaunch
          /\ Goto(r, "waiting")
          /\ UNCHANGED worker
       \/ /\ MayLaunch
          /\ worker' = r
          /\ Goto(r, "forking")
    /\ UNCHANGED <<coalesce, closed, mailbox, queued, tail, requests, active, batchOf,
                   completion, published, workerVars, commandVars, closerVars>>

(* startWorker: fork the worker's fiber and publish it as started. *)
Fork(r) ==
    /\ pc[r] = "forking"
    /\ Drain(r, "polling")
    /\ Goto(r, "waiting")
    /\ UNCHANGED <<mailboxVars, batchOf, completion, published, mine, stop, commandVars,
                   closerVars>>

(* The caller gets its answer ... *)
Answer(r) ==
    /\ pc[r] = "waiting"
    /\ completion[r] # None
    /\ Goto(r, "answered")
    /\ UNCHANGED <<mailboxVars, batchOf, completion, published, workerVars, commandVars,
                   closerVars>>

(* ... or is interrupted while it waits, and cancels. *)
Interrupt(r) ==
    /\ pc[r] = "waiting"
    /\ Goto(r, "cancelling")
    /\ UNCHANGED <<mailboxVars, batchOf, completion, published, workerVars, commandVars,
                   closerVars>>

(* cancel: leave the batch; the last to leave the active one has to        *)
(* interrupt its command.  The seeded faults look at the size before the   *)
(* request is deleted, and not at all.                                     *)
Abandoned_SizeBefore(b, rest) == requests[b] = <<>>
Abandoned_Unchecked(b, rest) == TRUE
Abandoned(b, rest) == rest = <<>>

Cancel(r) ==
    LET b == batchOf[r]
        rest == RemoveFirst(requests[b], r)
    IN
    /\ pc[r] = "cancelling"
    /\ requests' = [requests EXCEPT ![b] = rest]
    /\ tail' = IF Abandoned(b, rest) /\ tail = b THEN None ELSE tail
    /\ Goto(r, IF Abandoned(b, rest) /\ active = b THEN "joining" ELSE "cancelled")
    /\ UNCHANGED <<coalesce, closed, mailbox, queued, active, worker, batchOf, completion,
                   published, workerVars, commandVars, closerVars>>

(* Fiber.interrupt of a batch's command: it starts to stop, if it is still *)
(* running.                                                                *)
InterruptCommand(b) ==
    command' = [command EXCEPT ![b] = IF @ = "running" THEN "stopping" ELSE @]

(* cancel: interrupt the command once it has started and wait for its end. *)
Join(r) ==
    LET b == batchOf[r] IN
    /\ pc[r] = "joining"
    /\ CommandStarted(b)
    /\ InterruptCommand(b)
    /\ IF CommandOver(b) THEN Goto(r, "cancelled") ELSE UNCHANGED pc
    /\ UNCHANGED <<mailboxVars, batchOf, completion, published, workerVars, selected, result,
                   closerVars>>

-----------------------------------------------------------------------------
(* The request a batch is run for, the newest.  The seeded fault keeps the *)
(* oldest.                                                                 *)
Newest_Oldest(b) == Head(requests[b])
Newest(b) == Last(requests[b])

(* What is left of tail and worker: a batch that is taken is no longer     *)
(* coalesced into, a worker that goes idle is no longer there to notice    *)
(* what is published.  Each seeded fault forgets one of the two.           *)
TailBeyond_Kept(taken) == tail
TailBeyond(taken) == IF tail \in taken THEN None ELSE tail
WorkerWithout_Kept(w) == worker
WorkerWithout(w) == IF worker = w THEN None ELSE worker

(* drain: the section that polls the mailbox.  Empty batches are skipped;  *)
(* the first other one is claimed for its newest request; with none left,  *)
(* or once closed, the worker gives up its place in the same section.      *)
Poll(w) ==
    LET live == {i \in 1..Len(mailbox) : requests[mailbox[i]] # <<>>}
        Take(n) ==
            /\ mailbox' = SubSeq(mailbox, n + 1, Len(mailbox))
            /\ queued' = queued \ ToSet(SubSeq(mailbox, 1, n))
            /\ tail' = TailBeyond(ToSet(SubSeq(mailbox, 1, n)))
    IN
    /\ drain[w] = "polling"
    /\ \/ /\ closed \/ live = {}
          /\ IF closed THEN UNCHANGED <<mailbox, queued, tail>> ELSE Take(Len(mailbox))
          /\ worker' = WorkerWithout(w)
          /\ Drain(w, "exited")
          /\ UNCHANGED <<active, mine, selected>>
       \/ /\ ~closed
          /\ \E i \in live :
                /\ \A j \in live : i <= j
                /\ Take(i)
                /\ active' = mailbox[i]
                /\ mine' = [mine EXCEPT ![w] = mailbox[i]]
                /\ selected' = [selected EXCEPT ![mailbox[i]] = Newest(mailbox[i])]
          /\ Drain(w, "claimed")
          /\ UNCHANGED worker
    /\ UNCHANGED <<coalesce, closed, requests, stop, callerVars, command, result, closerVars>>

(* drain: fork the command, unless everybody has left since the claim.     *)
(* Claim and fork are one uninterruptible region.                          *)
StartCommand(w) ==
    LET b == mine[w] IN
    /\ drain[w] = "claimed"
    /\ IF requests[b] = <<>>
       THEN /\ command' = [command EXCEPT ![b] = "ended"]
            /\ result' = [result EXCEPT ![b] = "interrupt"]
       ELSE /\ command' = [command EXCEPT ![b] = "running"]
            /\ UNCHANGED result
    /\ Drain(w, "running")
    /\ UNCHANGED <<mailboxVars, callerVars, mine, stop, selected, closerVars>>

(* The command ends, or its finalizers do after an interruption. *)
CommandEnds(b) ==
    /\ command[b] \in Executing
    /\ \E o \in {"done", "interrupt"} :
          /\ o = "interrupt" => command[b] = "stopping"
          /\ result' = [result EXCEPT ![b] = o]
    /\ command' = [command EXCEPT ![b] = "ended"]
    /\ UNCHANGED <<mailboxVars, callerVars, workerVars, selected, closerVars>>

(* drain: once the command has ended, the requests are settled one by one  *)
Unsettled(b) == {r \in ToSet(requests[b]) : completion[r] = None}

SettleOne(w) ==
    /\ drain[w] = "running"
    /\ CommandOver(mine[w])
    /\ \E r \in Unsettled(mine[w]) : Settle({r}, result[mine[w]])
    /\ UNCHANGED <<mailboxVars, pc, batchOf, published, workerVars, commandVars, closerVars>>

(* ... and the batch is retired. *)
Retire(w) ==
    /\ drain[w] = "running"
    /\ CommandOver(mine[w])
    /\ Unsettled(mine[w]) = {}
    /\ requests' = [requests EXCEPT ![mine[w]] = <<>>]
    /\ active' = IF active = mine[w] THEN None ELSE active
    /\ Drain(w, "polling")
    /\ UNCHANGED <<coalesce, closed, mailbox, queued, tail, worker, callerVars, mine, stop,
                   commandVars, closerVars>>

(* drain's onExit: the interruption that close asked for reaches the fiber *)
(* outside its uninterruptible region.  A worker that is still the current *)
(* one settles what it had claimed; then its command, a child fiber, is    *)
(* interrupted too.                                                        *)
OnExit(w) ==
    /\ stop[w]
    /\ drain[w] \in {"polling", "running"}
    /\ \/ /\ worker = w
          /\ worker' = None
          /\ active' = None
          /\ IF active = None
             THEN UNCHANGED <<requests, completion>>
             ELSE /\ requests' = [requests EXCEPT ![active] = <<>>]
                  /\ Settle(ToSet(requests[active]), "interrupt")
       \/ /\ worker # w
          /\ UNCHANGED <<worker, active, requests, completion>>
    /\ IF mine[w] = None THEN UNCHANGED command ELSE InterruptCommand(mine[w])
    /\ Drain(w, "reaping")
    /\ UNCHANGED <<coalesce, closed, mailbox, queued, tail, pc, batchOf, published, mine, stop,
                   selected, result, closerVars>>

(* The fiber is over when its child is. *)
Exit(w) ==
    /\ drain[w] = "reaping"
    /\ mine[w] # None => CommandOver(mine[w])
    /\ Drain(w, "exited")
    /\ UNCHANGED <<mailboxVars, callerVars, mine, stop, commandVars, closerVars>>

-----------------------------------------------------------------------------
(* The batches close has to fail.  The seeded fault copies queued after it *)
(* has been cleared.                                                       *)
Stranded_Cleared == {active} \ {None}
Stranded == queued \cup ({active} \ {None})

(* close: the first closer marks the mailbox and notes what it must fail   *)
(* and join; a later one waits for the first.                              *)
Close(k) ==
    /\ closing[k] = "idle"
    /\ \/ /\ closed
          /\ closing' = [closing EXCEPT ![k] = "awaiting"]
          /\ UNCHANGED <<closed, queued, tail, doomed, joined>>
       \/ /\ ~closed
          /\ closed' = TRUE
          /\ joined' = worker
          /\ doomed' = Stranded
          /\ queued' = {}
          /\ tail' = None
          /\ closing' = [closing EXCEPT ![k] = "failing"]
    /\ UNCHANGED <<coalesce, mailbox, requests, active, worker, callerVars, workerVars,
                   commandVars>>

(* close: fail the requests of the noted batches one by one, and empty a   *)
(* batch whose requests are settled.                                       *)
FailBatch(k) ==
    /\ closing[k] = "failing"
    /\ \E b \in doomed :
          \/ /\ \E r \in Unsettled(b) : Settle({r}, "closed")
             /\ UNCHANGED <<requests, doomed>>
          \/ /\ Unsettled(b) = {}
             /\ requests' = [requests EXCEPT ![b] = <<>>]
             /\ doomed' = doomed \ {b}
             /\ UNCHANGED completion
    /\ UNCHANGED <<coalesce, closed, mailbox, queued, tail, active, worker, pc, batchOf,
                   published, workerVars, commandVars, closing, joined>>

(* close: interrupt the noted worker once it has started ... *)
StopWorker(k) ==
    /\ closing[k] = "failing"
    /\ doomed = {}
    /\ joined # None => WorkerStarted(joined)
    /\ stop' = [w \in Worker |-> stop[w] \/ w = joined]
    /\ closing' = [closing EXCEPT ![k] = "joining"]
    /\ UNCHANGED <<mailboxVars, callerVars, drain, mine, commandVars, doomed, joined>>

(* ... and wait for its end: closed for everybody. *)
Closed(k) ==
    /\ closing[k] = "joining"
    /\ joined # None => drain[joined] = "exited"
    /\ mailbox' = <<>>
    /\ closing' = [closing EXCEPT ![k] = "done"]
    /\ UNCHANGED <<coalesce, closed, queued, tail, requests, active, worker, callerVars,
                   workerVars, commandVars, doomed, joined>>

AwaitClosed(k) ==
    /\ closing[k] = "awaiting"
    /\ \E first \in Closer : closing[first] = "done"
    /\ closing' = [closing EXCEPT ![k] = "done"]
    /\ UNCHANGED <<mailboxVars, callerVars, workerVars, commandVars, doomed, joined>>

-----------------------------------------------------------------------------
CallerStep(r) == Launch(r) \/ Fork(r) \/ Answer(r) \/ Cancel(r) \/ Join(r)
WorkerStep(w) ==
    Poll(w) \/ StartCommand(w) \/ SettleOne(w) \/ Retire(w) \/ OnExit(w) \/ Exit(w)
CloserStep(k) == FailBatch(k) \/ StopWorker(k) \/ Closed(k) \/ AwaitClosed(k)

Next ==
    \/ \E r \in Request : Publish(r) \/ Interrupt(r) \/ CallerStep(r)
    \/ \E w \in Worker : WorkerStep(w)
    \/ \E b \in Batch : CommandEnds(b)
    \/ \E k \in Closer : Close(k) \/ CloserStep(k)

Spec == Init /\ [][Next]_vars

(* Every fiber that can run does, and a command ends: a controller bounds  *)
(* it with sendTimeoutMs and bounded cleanup.                              *)
Fairness ==
    /\ \A r \in Request : WF_vars(CallerStep(r)) /\ WF_vars(WorkerStep(r))
                             /\ WF_vars(CommandEnds(r))
    /\ \A k \in Closer : WF_vars(CloserStep(k))

FairSpec == Spec /\ Fairness

-----------------------------------------------------------------------------
(* Commands never overlap, the cleanup of an interrupted one included. *)
SerialExecution ==
    \A b, d \in Batch : command[b] \in Executing /\ command[d] \in Executing => b = d

Precedes(seq, r, s) == \E i, j \in 1..Len(seq) : i < j /\ seq[i] = r /\ seq[j] = s
Before(r, s) == Precedes(published, r, s)

(* A caller told how its command ended is told so of its own command or of *)
(* a newer one that superseded it, never of an older one.                  *)
AnsweredByOwnOrNewer ==
    \A r \in Request : completion[r] = "done" =>
        ~Before(selected[batchOf[r]], r)

(* Commands start in the order their requests were published, so that the  *)
(* value set last is the one sent last.                                    *)
InOrder ==
    [][\A b, d \in Batch :
          command[b] = "none" /\ command'[b] = "running" /\ command[d] # "none" =>
              Before(selected[d], selected[b])]_vars

(* A caller that still waits does not see its command interrupted because  *)
(* another caller cancelled.                                               *)
OnlyOwnInterruption ==
    \A r \in Request : pc[r] \in {"waiting", "answered"} /\ completion[r] = "interrupt" => closed

(* When the last caller of a batch has finished cancelling, its command is *)
(* not running and will not: what comes next cannot meet its cleanup.      *)
CancelJoins ==
    \A b \in Batch :
        /\ ~closed
        /\ \E r \in Request : batchOf[r] = b
        /\ \A r \in Request : batchOf[r] = b => pc[r] = "cancelled"
        => command[b] \notin Executing

(* When close returns, no command runs and every caller has its answer. *)
CloseJoins ==
    (\E k \in Closer : closing[k] = "done") =>
        /\ \A b \in Batch : command[b] \notin Executing
        /\ \A r \in Request : pc[r] \in {"starting", "forking", "waiting"} =>
                completion[r] # None

(* Every caller gets an answer: no wakeup is lost between a worker going   *)
(* idle and a request being published, and close strands nobody.           *)
EveryCallerReturns ==
    \A r \in Request : pc[r] = "starting" ~> pc[r] \in {"answered", "cancelled"}

(* And so does every closer. *)
EveryCloseReturns == \A k \in Closer : closing[k] # "idle" ~> closing[k] = "done"
=============================================================================
