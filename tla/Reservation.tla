----------------------------- MODULE Reservation -----------------------------
(***************************************************************************)
(* withMeshSequenceReservation and acquireReservation of                   *)
(* packages/mesh/src/sequences.ts, for one network/source pair: which      *)
(* store the callers agree on, how they lock it, and in which order the    *)
(* counter, the pointers beside the state files and a state file are       *)
(* written.  A caller is one process that reserves, sends and reserves     *)
(* again; it may die at any step.  The lock directories are leases         *)
(* (SequenceLease, which SequenceLock implements) whose dead owners are    *)
(* reaped at once.                                                         *)
(***************************************************************************)
EXTENDS Integers, FiniteSets, FiniteSetsExt

CONSTANTS
    Caller,         \* the processes that may control the mesh
    Path,           \* the canonical state file paths, numbers in sorted order
    Dir,            \* the sequence directories, numbers in sorted order
    None,           \* an absent value
    MaxIvIndex,     \* the last IV index, of 32 bits
    MaxSequence,    \* MAX_SEQUENCE, the last sequence number
    Setups          \* the ways in which the mesh may be set up: see Setup

IvIndex == 0..MaxIvIndex
Sequence == 0..(MaxSequence + 1)
Counter == [iv : IvIndex, next : Sequence, paths : SUBSET Path]
State == [iv : IvIndex, seq : Sequence, dir : Dir \cup {None}]

(* A setup says what the state files hold before there is a shared counter *)
(* (file), the old copies that may be restored (backup), how many messages *)
(* a send may need (count), and of each caller its statePath (path), the   *)
(* state files it is told of or sees beside its own (legacy), its          *)
(* sequenceDirectory option, the directory of its environment (default)    *)
(* and its migrateSequenceDirectory option (migrate).                      *)
Config == {k \in [path : Path, legacy : SUBSET Path, option : Dir \cup {None},
                  default : Dir, migrate : BOOLEAN] :
              k.path \in k.legacy /\ (k.migrate => k.option # None)}

IsSetup(s) ==
    /\ DOMAIN s = {"file", "backup", "count", "caller"}
    /\ s.file \in [Path -> State]
    /\ DOMAIN s.backup \subseteq Path
    /\ \A p \in DOMAIN s.backup : s.backup[p] \in State
    /\ s.count \subseteq Nat \ {0}
    /\ DOMAIN s.caller \subseteq Caller
    /\ \A c \in DOMAIN s.caller : s.caller[c] \in Config

ASSUME SetupAssumption == \A s \in Setups : IsSetup(s)
ASSUME BoundAssumption ==
    /\ Path \subseteq Nat /\ Dir \subseteq Nat
    /\ MaxIvIndex \in Nat /\ MaxSequence \in Nat
    /\ None \notin Nat /\ None \notin Caller /\ None \notin Counter

VARIABLES
    setup,          \* the setup, which never changes
    (* files *)
    counter,        \* counter[d]: the shared counter in directory d, or None
    pointer,        \* pointer[s]: the directory named by the pointer beside s, or None
    stateFile,      \* stateFile[s]: what the state file at s says
    holder,         \* holder[l]: the caller that holds lock l, or None
    (* callers *)
    pc,             \* pc[c]: where the call stands
    mem,            \* mem[c]: the state c loaded before it reserved
    known,          \* known[c]: knownPaths
    dir,            \* dir[c]: the directory selected
    priors,         \* priors[c]: priorDirectories
    peers,          \* peers[c]: the peers' states, as read under the pointer locks
    cursor,         \* cursor[c]: the next sequence number c will send
    limit,          \* limit[c]: nextSequenceNumber, the end of its reservation
    (* the mesh *)
    lastSent        \* IV index and sequence number of the last message sent

files == <<counter, pointer, stateFile>>
vars == <<setup, files, holder, pc, mem, known, dir, priors, peers, cursor, limit, lastSent>>

PointerLock(s) == <<"pointer", s>>
StoreLock(d) == <<"store", d>>
Lock == {PointerLock(s) : s \in Path} \cup {StoreLock(d) : d \in Dir}
Held(c) == {l \in Lock : holder[l] = c}

Stage == {"idle", "pointers", "stores", "counter", "pointing", "saving", "use",
          "releasing", "retrying"}

TypeOK ==
    /\ setup \in Setups
    /\ counter \in [Dir -> Counter \cup {None}]
    /\ pointer \in [Path -> Dir \cup {None}]
    /\ stateFile \in [Path -> State]
    /\ holder \in [Lock -> Caller \cup {None}]
    /\ pc \in [Caller -> Stage]
    /\ mem \in [Caller -> State \cup {None}]
    /\ known \in [Caller -> SUBSET Path]
    /\ dir \in [Caller -> Dir \cup {None}]
    /\ priors \in [Caller -> SUBSET Dir]
    /\ peers \in [Caller -> SUBSET State]
    /\ cursor \in [Caller -> Sequence]
    /\ limit \in [Caller -> Sequence]
    /\ lastSent \in [iv : IvIndex, seq : Sequence \cup {-1}]

(* a is a later place in the source's message order than b. *)
Later(a, b) == a.iv > b.iv \/ (a.iv = b.iv /\ a.seq > b.seq)

(* The last message that the light files say was sent. *)
LastOf(file) ==
    LET used == {[iv |-> file[s].iv, seq |-> file[s].seq - 1] :
                    s \in {p \in Path : file[p].seq > 0}}
        none == [iv |-> Min(IvIndex), seq |-> -1]
    IN  CHOOSE m \in used \cup {none} : \A o \in used : ~Later(o, m)

(* The setups for which the package README promises an order: of every two *)
(* callers, one state file is known to both, or they share one store       *)
(* explicitly, and what could lead either of them to another store they    *)
(* learn from callers that share a state file with each of them.           *)
Meet(k, m) == k.legacy \cap m.legacy # {}

ShareStore(s, k, m) ==
    /\ k.option # None /\ m.option = k.option
    /\ ~k.migrate /\ ~m.migrate
    /\ \A p \in Path : s.file[p].dir \in {None, k.option}
    /\ \A p \in DOMAIN s.backup : s.backup[p].dir \in {None, k.option}
    /\ \A c \in DOMAIN s.caller :
          \/ s.caller[c].option = k.option
          \/ Meet(s.caller[c], k) /\ Meet(s.caller[c], m)

Linked(s) ==
    \A c, e \in DOMAIN s.caller :
        Meet(s.caller[c], s.caller[e]) \/ ShareStore(s, s.caller[c], s.caller[e])

(* Every caller knows a state file with the last number used before there  *)
(* was a shared counter, one that nobody restores to an older copy.        *)
KnowsLast(s) ==
    \/ \A p \in Path : s.file[p].seq = 0
    \/ \A c \in DOMAIN s.caller :
          \E p \in s.caller[c].legacy \ DOMAIN s.backup :
              Later(s.file[p], LastOf(s.file))

Init ==
    /\ setup \in Setups
    /\ counter = [d \in Dir |-> None]
    /\ pointer = [s \in Path |-> None]
    /\ stateFile = setup.file
    /\ holder = [l \in Lock |-> None]
    /\ pc = [c \in Caller |-> "idle"]
    /\ mem = [c \in Caller |-> None]
    /\ known = [c \in Caller |-> {}]
    /\ dir = [c \in Caller |-> None]
    /\ priors = [c \in Caller |-> {}]
    /\ peers = [c \in Caller |-> {}]
    /\ cursor = [c \in Caller |-> 0]
    /\ limit = [c \in Caller |-> 0]
    /\ lastSent = LastOf(stateFile)

-----------------------------------------------------------------------------
RequestedDirectory(c) ==
    IF setup.caller[c].option # None THEN setup.caller[c].option
    ELSE IF mem[c].dir # None THEN mem[c].dir
    ELSE setup.caller[c].default

(* What the pointers under c's locks and the known state files name. *)
Stores(c) == {pointer[s] : s \in known[c]} \ {None}
Hints(c) == ({stateFile[s].dir : s \in known[c]} \cup {mem[c].dir}) \ {None}

Conflict(c) ==
    /\ ~setup.caller[c].migrate
    /\ \/ Cardinality(Stores(c)) > 1
       \/ Stores(c) = {} /\ Cardinality(Hints(c)) > 1

(* Without a migration the pointers win over the hints, the hints over the *)
(* caller's own choice.                                                    *)
Selected(c) ==
    IF setup.caller[c].migrate THEN {RequestedDirectory(c)}
    ELSE IF Stores(c) # {} THEN Stores(c)
    ELSE IF Hints(c) # {} THEN Hints(c)
    ELSE {RequestedDirectory(c)}

(* Seeded fault: a state file found again counts as discovered. *)
Discovered_AnyListed(c, ds) ==
    UNION {counter[d].paths : d \in {e \in ds : counter[e] # None}}

(* State files that the counters in ds list and c did not know. *)
Discovered(c, ds) ==
    (UNION {counter[d].paths : d \in {e \in ds : counter[e] # None}}) \ known[c]

(* The part of a set of locks that takeLock has not got yet. *)
Missing(c, locks) == {n \in locks : n[2] = Min({l[2] : l \in locks \ Held(c)})} \ Held(c)
(* Seeded fault: a caller locks beside its own light only. *)
PointerLocks_OwnOnly(c) == {PointerLock(setup.caller[c].path)}
PointerLocks(c) == {PointerLock(s) : s \in known[c]}
StoreLocks(c) == {StoreLock(d) : d \in priors[c]}

Goto(c, stage) == pc' = [pc EXCEPT ![c] = stage]

-----------------------------------------------------------------------------
(* The caller loads its state file and looks for the others. *)
Begin(c) ==
    /\ pc[c] = "idle"
    /\ mem' = [mem EXCEPT ![c] = stateFile[setup.caller[c].path]]
    /\ known' = [known EXCEPT ![c] = setup.caller[c].legacy]
    /\ Goto(c, "pointers")
    /\ UNCHANGED <<setup, files, holder, dir, priors, peers, cursor, limit, lastSent>>

(* takeLock on the next lock of the sorted list. *)
Take(c, locks) ==
    /\ \E l \in Missing(c, locks) :
          /\ holder[l] = None
          /\ holder' = [holder EXCEPT ![l] = c]
    /\ UNCHANGED <<setup, files, pc, mem, known, dir, priors, peers, cursor, limit, lastSent>>

TakePointerLock(c) ==
    /\ pc[c] = "pointers"
    /\ ~(PointerLocks(c) \subseteq Held(c))
    /\ Take(c, PointerLocks(c))

TakeStoreLock(c) ==
    /\ pc[c] = "stores"
    /\ ~(StoreLocks(c) \subseteq Held(c))
    /\ Take(c, StoreLocks(c))

(* Under all pointer locks: read pointers and peers, select a directory,   *)
(* and look into the counters, not locked yet, for more state files.       *)
SelectStore(c) ==
    /\ pc[c] = "pointers"
    /\ PointerLocks(c) \subseteq Held(c)
    /\ \/ /\ Conflict(c)
          /\ Goto(c, "releasing")
          /\ UNCHANGED <<known, dir, priors, peers>>
       \/ /\ ~Conflict(c)
          /\ \E d \in Selected(c) :
                LET all == {d} \cup Stores(c) \cup Hints(c) IN
                \/ /\ Discovered(c, all) # {}
                   /\ known' = [known EXCEPT ![c] = @ \cup Discovered(c, all)]
                   /\ Goto(c, "retrying")
                   /\ UNCHANGED <<dir, priors, peers>>
                \/ /\ Discovered(c, all) = {}
                   /\ dir' = [dir EXCEPT ![c] = d]
                   /\ priors' = [priors EXCEPT ![c] = all]
                   /\ peers' = [peers EXCEPT ![c] = {stateFile[s] : s \in known[c]}]
                   /\ Goto(c, "stores")
                   /\ UNCHANGED known
    /\ UNCHANGED <<setup, files, holder, mem, cursor, limit, lastSent>>

(* Under all locks: the counters are read again. *)
Counters(c) == {counter[d] : d \in priors[c]} \ {None}

(* Seeded fault: the counters are not consulted. *)
HighWater_LightsOnly(c) ==
    Max({mem[c].seq} \cup {p.seq : p \in {q \in peers[c] : q.iv = mem[c].iv}})

(* The highest number any counter or peer of this IV index has given out. *)
HighWater(c) ==
    Max({mem[c].seq}
          \cup {k.next : k \in {m \in Counters(c) : m.iv = mem[c].iv}}
          \cup {p.seq : p \in {q \in peers[c] : q.iv = mem[c].iv}})

(* Seeded fault: only the peers' IV indexes are compared. *)
OlderIvIndex_PeersOnly(c) ==
    Discovered(c, priors[c]) = {} /\ \E p \in peers[c] : p.iv > mem[c].iv

OlderIvIndex(c) ==
    \/ \E k \in Counters(c) : k.iv > mem[c].iv
    \/ Discovered(c, priors[c]) = {} /\ \E p \in peers[c] : p.iv > mem[c].iv

(* Seeded fault: only the first number is compared with the last there is. *)
Exhausted_FirstOnly(c, n) == HighWater(c) > MaxSequence

Exhausted(c, n) == HighWater(c) + n > MaxSequence + 1

Allocate(c) ==
    /\ pc[c] = "stores"
    /\ StoreLocks(c) \subseteq Held(c)
    /\ \/ /\ OlderIvIndex(c)
          /\ Goto(c, "releasing")
          /\ UNCHANGED <<known, cursor, limit>>
       \/ /\ ~OlderIvIndex(c)
          /\ Discovered(c, priors[c]) # {}
          /\ known' = [known EXCEPT ![c] = @ \cup Discovered(c, priors[c])]
          /\ Goto(c, "retrying")
          /\ UNCHANGED <<cursor, limit>>
       \/ /\ ~OlderIvIndex(c)
          /\ Discovered(c, priors[c]) = {}
          /\ \E n \in setup.count :
                \/ /\ Exhausted(c, n)
                   /\ Goto(c, "releasing")
                   /\ UNCHANGED <<cursor, limit>>
                \/ /\ ~Exhausted(c, n)
                   /\ cursor' = [cursor EXCEPT ![c] = HighWater(c)]
                   /\ limit' = [limit EXCEPT ![c] = HighWater(c) + n]
                   /\ Goto(c, "counter")
          /\ UNCHANGED known
    /\ UNCHANGED <<setup, files, holder, mem, dir, priors, peers, lastSent>>

(* The counter is durable before anything points to it. *)
WriteCounter(c) ==
    /\ pc[c] = "counter"
    /\ counter' = [counter EXCEPT ![dir[c]] =
                      [iv |-> mem[c].iv, next |-> limit[c], paths |-> known[c]]]
    /\ Goto(c, "pointing")
    /\ UNCHANGED <<setup, pointer, stateFile, holder, mem, known, dir, priors, peers, cursor, limit,
                   lastSent>>

(* Pointers that already name the directory are left alone. *)
WritePointer(c) ==
    /\ pc[c] = "pointing"
    /\ LET stale == {s \in known[c] : pointer[s] # dir[c]} IN
       \/ /\ stale # {}
          /\ pointer' = [pointer EXCEPT ![Min(stale)] = dir[c]]
          /\ UNCHANGED pc
       \/ /\ stale = {}
          /\ Goto(c, "saving")
          /\ UNCHANGED pointer
    /\ UNCHANGED <<setup, counter, stateFile, holder, mem, known, dir, priors, peers, cursor, limit,
                   lastSent>>

(* The state file follows; the lease is returned, to a caller that uses it *)
(* or, if it was interrupted meanwhile, straight to the finalizer.         *)
SaveState(c) ==
    /\ pc[c] = "saving"
    /\ stateFile' = [stateFile EXCEPT ![setup.caller[c].path] =
                        [iv |-> mem[c].iv, seq |-> limit[c], dir |-> dir[c]]]
    /\ Goto(c, "use") \/ Goto(c, "releasing")
    /\ UNCHANGED <<setup, counter, pointer, holder, mem, known, dir, priors, peers, cursor, limit,
                   lastSent>>

(* One message goes out under the lease. *)
Transmit(c) ==
    /\ pc[c] = "use"
    /\ cursor[c] < limit[c]
    /\ lastSent' = [iv |-> mem[c].iv, seq |-> cursor[c]]
    /\ cursor' = [cursor EXCEPT ![c] = @ + 1]
    /\ UNCHANGED <<setup, files, holder, pc, mem, known, dir, priors, peers, limit>>

(* use has succeeded, failed or been interrupted, with any part sent. *)
Finish(c) ==
    /\ pc[c] = "use"
    /\ Goto(c, "releasing")
    /\ UNCHANGED <<setup, files, holder, mem, known, dir, priors, peers, cursor, limit, lastSent>>

(* One of the writes fails. *)
WriteFails(c) ==
    /\ pc[c] \in {"counter", "pointing", "saving"}
    /\ Goto(c, "releasing")
    /\ UNCHANGED <<setup, files, holder, mem, known, dir, priors, peers, cursor, limit, lastSent>>

(* takeLock times out or is aborted. *)
GiveUp(c) ==
    /\ \/ pc[c] = "pointers" /\ ~(PointerLocks(c) \subseteq Held(c))
       \/ pc[c] = "stores" /\ ~(StoreLocks(c) \subseteq Held(c))
    /\ Goto(c, "releasing")
    /\ UNCHANGED <<setup, files, holder, mem, known, dir, priors, peers, cursor, limit, lastSent>>

(* The call's locals are gone. *)
Reset(c) ==
    /\ mem' = [mem EXCEPT ![c] = None]
    /\ known' = [known EXCEPT ![c] = {}]
    /\ dir' = [dir EXCEPT ![c] = None]
    /\ priors' = [priors EXCEPT ![c] = {}]
    /\ peers' = [peers EXCEPT ![c] = {}]
    /\ cursor' = [cursor EXCEPT ![c] = 0]
    /\ limit' = [limit EXCEPT ![c] = 0]

(* release unlocks everything concurrently; in between nobody can do more  *)
(* than take some of the locks.  Then the call returns, or starts over     *)
(* with the state files it has discovered.                                 *)
Release(c) ==
    /\ holder' = [l \in Lock |-> IF holder[l] = c THEN None ELSE holder[l]]
    /\ \/ /\ pc[c] = "releasing"
          /\ Goto(c, "idle")
          /\ Reset(c)
       \/ /\ pc[c] = "retrying"
          /\ Goto(c, "pointers")
          /\ UNCHANGED <<mem, known, dir, priors, peers, cursor, limit>>
    /\ UNCHANGED <<setup, files, lastSent>>

(* The process dies; its locks are reaped, what it wrote stays. *)
Crash(c) ==
    /\ pc[c] # "idle"
    /\ Goto(c, "idle")
    /\ Reset(c)
    /\ holder' = [l \in Lock |-> IF holder[l] = c THEN None ELSE holder[l]]
    /\ UNCHANGED <<setup, files, lastSent>>

(* Somebody restores an old copy of a light's state file. *)
Restore(s) ==
    /\ s \in DOMAIN setup.backup
    /\ stateFile' = [stateFile EXCEPT ![s] = setup.backup[s]]
    /\ UNCHANGED <<setup, counter, pointer, holder, pc, mem, known, dir, priors, peers, cursor,
                   limit, lastSent>>

-----------------------------------------------------------------------------
(* The steps a caller takes by itself once it has begun. *)
Step(c) ==
    \/ TakePointerLock(c) \/ SelectStore(c)
    \/ TakeStoreLock(c) \/ Allocate(c)
    \/ WriteCounter(c) \/ WritePointer(c) \/ SaveState(c)
    \/ Finish(c) \/ Release(c)

Next ==
    \/ \E c \in DOMAIN setup.caller :
          \/ Begin(c) \/ Step(c) \/ Transmit(c)
          \/ WriteFails(c) \/ GiveUp(c) \/ Crash(c)
    \/ \E s \in Path : Restore(s)

Spec == Init /\ [][Next]_vars

(* Callers keep running, and a lock that is free again and again is taken: *)
(* the bakery serves in order of arrival.                                  *)
FairSpec == Spec /\ \A c \in Caller : SF_vars(Step(c))

-----------------------------------------------------------------------------
(* No sequence number is sent twice or out of order, whichever stores the  *)
(* callers prefer and wherever they die: the lights drop replays.          *)
SequenceOrder == [][lastSent' # lastSent => Later(lastSent', lastSent)]_vars

(* At most one caller sends from this source at a time. *)
SingleSender ==
    \A c, e \in Caller : pc[c] = "use" /\ pc[e] = "use" => c = e

(* A store is never rolled back. *)
StoreNeverRollsBack ==
    [][\A d \in Dir : counter[d] # None =>
          /\ counter'[d] # None
          /\ ~Later([iv |-> counter[d].iv, seq |-> counter[d].next],
                    [iv |-> counter'[d].iv, seq |-> counter'[d].next])]_vars

(* What the counters say has been reserved is not reserved again, as the   *)
(* package README has it of a crash: "it never makes that range available  *)
(* again".                                                                 *)
CrashConsumesRange ==
    \A c \in Caller : pc[c] = "counter" =>
        \A d \in Dir : counter[d] # None /\ counter[d].iv = mem[c].iv =>
            cursor[c] >= counter[d].next

(* Every call that has begun comes to an end: sorted locking cannot        *)
(* deadlock and the discovery of state files cannot go on for ever.        *)
EveryCallEnds == \A c \in Caller : pc[c] # "idle" ~> pc[c] = "idle"
=============================================================================
