---------------------------- MODULE SequenceLock ----------------------------
(***************************************************************************)
(* acquireCounterLock of packages/mesh/src/sequences.ts: a Lamport bakery  *)
(* whose participants register dynamically as symlinks in a lock           *)
(* directory.  A participant is a token, the UUID of one call; its symlink *)
(* holds ticket 0 while it chooses and then the ticket it chose.  Reading  *)
(* the directory is a readdir followed by one readlink per name, so other  *)
(* participants move between any two reads.  A process may die at any      *)
(* moment and leave its symlinks behind.                                   *)
(***************************************************************************)
EXTENDS Integers

CONSTANTS
    Token,      \* the UUIDs drawn by the calls, never reused, as numbers: the
                \* code orders two UUIDs as strings
    Process,    \* the operating-system processes that make calls
    Owner,      \* Owner[t]: the process whose call drew t
    HostOf,     \* HostOf[p]: the machine p runs on
    MaxTicket   \* Number.MAX_SAFE_INTEGER, the largest ticket

ASSUME TokenAssumption == Token \subseteq Nat
ASSUME OwnerAssumption == Owner \in [Token -> Process]
ASSUME MaxTicketAssumption == MaxTicket \in Nat

VARIABLES
    pc,         \* pc[t]: where the call stands
    entry,      \* entry[t]: the ticket in t's symlink, or Absent
    ticket,     \* ticket[t]: the call's local variable
    names,      \* names[t]: names a readdir returned that are still to be read
    seen,       \* seen[t]: the entries lockEntries has read so far
    alive       \* alive[p]: p has not died

vars == <<pc, entry, ticket, names, seen, alive>>

Absent == -1
Choosing == 0

Entry == [token : Token, ticket : 0..MaxTicket]

Reading == {"choosing", "waiting"}              \* inside lockEntries
Listing == {"published", "polling"}             \* about to call it
InLine == {"polling", "waiting", "held"}        \* its ticket is published
Over == {"done", "crashed"}
Stage == Reading \cup Listing \cup Over
           \cup {"idle", "chosen", "held", "unwinding"}

TypeOK ==
    /\ pc \in [Token -> Stage]
    /\ entry \in [Token -> {Absent} \cup 0..MaxTicket]
    /\ ticket \in [Token -> 0..MaxTicket]
    /\ names \in [Token -> SUBSET Token]
    /\ seen \in [Token -> SUBSET Entry]
    /\ alive \in [Process -> BOOLEAN]

Init ==
    /\ pc = [t \in Token |-> "idle"]
    /\ entry = [t \in Token |-> Absent]
    /\ ticket = [t \in Token |-> 0]
    /\ names = [t \in Token |-> {}]
    /\ seen = [t \in Token |-> {}]
    /\ alive = [p \in Process |-> TRUE]

-----------------------------------------------------------------------------
(* Seeded fault: nobody is ever found dead. *)
OwnerIsAlive_Always(reader, u) == TRUE

(* Seeded fault: a process of another host is looked for on this one. *)
OwnerIsAlive_HereOnly(reader, u) ==
    HostOf[Owner[u]] = HostOf[Owner[reader]] /\ alive[Owner[u]]

(* A process on another host always counts as alive. *)
OwnerIsAlive(reader, u) ==
    \/ HostOf[Owner[u]] # HostOf[Owner[reader]]
    \/ alive[Owner[u]]

(* Seeded fault: nobody waits for a participant that is still choosing. *)
Blocks_NotChoosing(e, t) ==
    /\ e.ticket # Choosing
    /\ e.ticket < ticket[t] \/ (e.ticket = ticket[t] /\ e.token < t)

(* An entry that t must wait for: one still choosing, or one before t in   *)
(* the order of (ticket, token).                                           *)
Blocks(e, t) ==
    \/ e.ticket = Choosing
    \/ e.ticket < ticket[t]
    \/ e.ticket = ticket[t] /\ e.token < t

(* lockEntries has returned or thrown: its locals are gone. *)
Forget(t) ==
    /\ names' = [names EXCEPT ![t] = {}]
    /\ seen' = [seen EXCEPT ![t] = {}]

-----------------------------------------------------------------------------
(* symlink(ticket 0, ownPath) *)
Publish(t) ==
    /\ pc[t] = "idle"
    /\ pc' = [pc EXCEPT ![t] = "published"]
    /\ entry' = [entry EXCEPT ![t] = Choosing]
    /\ UNCHANGED <<ticket, names, seen, alive>>

(* The readdir that lockEntries starts with.  The call's own entry is read *)
(* too, anywhere among the others, and tells it nothing.                   *)
ReadDir(t) ==
    /\ pc[t] \in Listing
    /\ pc' = [pc EXCEPT ![t] = IF @ = "published" THEN "choosing" ELSE "waiting"]
    /\ names' = [names EXCEPT ![t] = {u \in Token \ {t} : entry[u] # Absent}]
    /\ seen' = [seen EXCEPT ![t] = {}]
    /\ UNCHANGED <<entry, ticket, alive>>

(* One round of lockEntries' loop: the entry has vanished, or its owner is *)
(* alive and it counts, or its owner is dead and it is unlinked.  The      *)
(* retry on macOS' EINVAL is a round that has not happened yet.            *)
ReadLink(t, u) ==
    /\ pc[t] \in Reading
    /\ u \in names[t]
    /\ names' = [names EXCEPT ![t] = @ \ {u}]
    /\ \/ /\ entry[u] = Absent
          /\ UNCHANGED <<entry, seen>>
       \/ /\ entry[u] # Absent
          /\ OwnerIsAlive(t, u)
          /\ seen' = [seen EXCEPT ![t] = @ \cup {[token |-> u, ticket |-> entry[u]]}]
          /\ UNCHANGED entry
       \/ /\ entry[u] # Absent
          /\ ~OwnerIsAlive(t, u)
          /\ entry' = [entry EXCEPT ![u] = Absent]
          /\ UNCHANGED seen
    /\ UNCHANGED <<pc, ticket, alive>>

(* Seeded fault: the ticket is the largest read, not one more. *)
Choose_NotLarger(t) ==
    /\ pc[t] = "choosing"
    /\ names[t] = {}
    /\ \E m \in {1} \cup {e.ticket : e \in seen[t]} :
          /\ \A e \in seen[t] : e.ticket <= m
          /\ ticket' = [ticket EXCEPT ![t] = m]
          /\ pc' = [pc EXCEPT ![t] = "chosen"]
    /\ Forget(t)
    /\ UNCHANGED <<entry, alive>>

(* Seeded fault: the ticket's size is not checked. *)
Choose_AnyTicket(t) ==
    /\ pc[t] = "choosing"
    /\ names[t] = {}
    /\ \E m \in {0} \cup {e.ticket : e \in seen[t]} :
          /\ \A e \in seen[t] : e.ticket <= m
          /\ ticket' = [ticket EXCEPT ![t] = m + 1]
          /\ pc' = [pc EXCEPT ![t] = "chosen"]
    /\ Forget(t)
    /\ UNCHANGED <<entry, alive>>

(* One more than the largest ticket read, or an error when it overflows. *)
Choose(t) ==
    /\ pc[t] = "choosing"
    /\ names[t] = {}
    /\ \E m \in {0} \cup {e.ticket : e \in seen[t]} :
          /\ \A e \in seen[t] : e.ticket <= m
          /\ \/ /\ m + 1 <= MaxTicket
                /\ ticket' = [ticket EXCEPT ![t] = m + 1]
                /\ pc' = [pc EXCEPT ![t] = "chosen"]
             \/ /\ m + 1 > MaxTicket
                /\ pc' = [pc EXCEPT ![t] = "unwinding"]
                /\ UNCHANGED ticket
    /\ Forget(t)
    /\ UNCHANGED <<entry, alive>>

(* The symlink staged outside the directory replaces the choosing entry. *)
PublishTicket(t) ==
    /\ pc[t] = "chosen"
    /\ entry' = [entry EXCEPT ![t] = ticket[t]]
    /\ pc' = [pc EXCEPT ![t] = "polling"]
    /\ UNCHANGED <<ticket, names, seen, alive>>

(* Nobody read was ahead: the lock is acquired, the entry stays. *)
Enter(t) ==
    /\ pc[t] = "waiting"
    /\ names[t] = {}
    /\ ~ \E e \in seen[t] : Blocks(e, t)
    /\ pc' = [pc EXCEPT ![t] = "held"]
    /\ Forget(t)
    /\ UNCHANGED <<entry, ticket, alive>>

(* Somebody read was ahead: sleep LOCK_POLL_MS and read again. *)
Poll(t) ==
    /\ pc[t] = "waiting"
    /\ names[t] = {}
    /\ \E e \in seen[t] : Blocks(e, t)
    /\ pc' = [pc EXCEPT ![t] = "polling"]
    /\ Forget(t)
    /\ UNCHANGED <<entry, ticket, alive>>

(* checkWaiting throws, on the deadline or on an abort, wherever it is     *)
(* called: before the second symlink, each round of the wait and each      *)
(* readlink, the call's own last of all.  A call that throws before it     *)
(* publishes is one never made.                                            *)
GiveUp(t) ==
    /\ pc[t] \in {"chosen", "polling"} \cup Reading
    /\ pc' = [pc EXCEPT ![t] = "unwinding"]
    /\ ticket' = [ticket EXCEPT ![t] = 0]
    /\ Forget(t)
    /\ UNCHANGED <<entry, alive>>

(* The finally block of a call that published but did not acquire. *)
Withdraw(t) ==
    /\ pc[t] = "unwinding"
    /\ entry' = [entry EXCEPT ![t] = Absent]
    /\ pc' = [pc EXCEPT ![t] = "done"]
    /\ UNCHANGED <<ticket, names, seen, alive>>

(* The release function the call returned. *)
Release(t) ==
    /\ pc[t] = "held"
    /\ entry' = [entry EXCEPT ![t] = Absent]
    /\ pc' = [pc EXCEPT ![t] = "done"]
    /\ ticket' = [ticket EXCEPT ![t] = 0]
    /\ UNCHANGED <<names, seen, alive>>

(* A process dies with every call it has under way; its symlinks stay. *)
Crash(p) ==
    /\ alive[p]
    /\ \E t \in Token : Owner[t] = p /\ pc[t] \notin {"idle", "done"}
    /\ alive' = [alive EXCEPT ![p] = FALSE]
    /\ pc' = [t \in Token |-> IF Owner[t] = p /\ pc[t] # "done" THEN "crashed" ELSE pc[t]]
    /\ ticket' = [t \in Token |-> IF Owner[t] = p THEN 0 ELSE ticket[t]]
    /\ names' = [t \in Token |-> IF Owner[t] = p THEN {} ELSE names[t]]
    /\ seen' = [t \in Token |-> IF Owner[t] = p THEN {} ELSE seen[t]]
    /\ UNCHANGED entry

-----------------------------------------------------------------------------
(* The steps a live call takes by itself once it has registered. *)
Step(t) ==
    \/ ReadDir(t)
    \/ \E u \in Token : ReadLink(t, u)
    \/ Choose(t)
    \/ PublishTicket(t)
    \/ Enter(t)
    \/ Poll(t)
    \/ Withdraw(t)
    \/ Release(t)

Next ==
    \/ \E t \in Token : Publish(t) \/ GiveUp(t) \/ Step(t)
    \/ \E p \in Process : Crash(p)

Spec == Init /\ [][Next]_vars

(* The event loop of a live process runs every callback, and a holder's    *)
(* critical section is bounded by its own timeouts.  Nothing forces a call *)
(* to start, to time out or to die.                                        *)
Fairness == \A t \in Token : WF_vars(Step(t))

FairSpec == Spec /\ Fairness

-----------------------------------------------------------------------------
(* Two calls never hold the lock at once: neither a chooser paused before  *)
(* it publishes its ticket, nor a directory that changes while it is read, *)
(* nor the reaping of dead owners lets a second one in.                    *)
MutualExclusion ==
    \A t, u \in Token : pc[t] = "held" /\ pc[u] = "held" => t = u

(* Somebody has died on another host and left its entry, which no call     *)
(* here will reap.                                                         *)
DeadAbroad(t) ==
    \E u \in Token : /\ entry[u] # Absent /\ ~alive[Owner[u]]
                     /\ HostOf[Owner[u]] # HostOf[Owner[t]]

(* A call that has registered gets the lock, unless it gives up or its     *)
(* process dies: a dead owner on the same host never blocks it for good.   *)
NoStarvation ==
    \A t \in Token :
        pc[t] = "published" ~> pc[t] \in {"held"} \cup Over \/ DeadAbroad(t)

(* What the callers see of the lock. *)
status ==
    [t \in Token |-> IF pc[t] = "held" THEN "held"
                     ELSE IF pc[t] \in Over THEN "over" ELSE "trying"]

Lease == INSTANCE SequenceLease WITH Token <- Token, status <- status

(* The lock directory implements the lease its callers rely on. *)
ImplementsLease == Lease!Spec
=============================================================================
