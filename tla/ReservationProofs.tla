-------------------------- MODULE ReservationProofs --------------------------
(***************************************************************************)
(* Proofs about Reservation, for any callers, lights, directories and      *)
(* setups: the types, that a store is never rolled back, and, for linked   *)
(* setups, that one caller sends at a time and that no sequence number is  *)
(* sent twice or out of order.                                             *)
(*                                                                         *)
(* The argument: a caller that has selected a store holds the locks beside *)
(* the state files it knows, one that has allocated those of the stores    *)
(* these lead to as well, so nobody else moves what it has read.  Wherever *)
(* the last sender has died, a caller that allocates knows a state file    *)
(* whose pointer leads to a counter past the last message (or uses the     *)
(* store that counter is in), and so reserves later numbers.               *)
(***************************************************************************)
EXTENDS Reservation, TLAPS, FiniteSetTheorems

(* The counter of store d as a place in the message order. *)
Position(d) == [iv |-> counter[d].iv, seq |-> counter[d].next]

Working == {"counter", "pointing", "saving", "use"}
Selecting == Working \cup {"stores"}

-----------------------------------------------------------------------------
(* The inductive invariant.                                                *)

(* A caller that has begun knows its own state files. *)
CallerInv ==
    \A c \in Caller : pc[c] # "idle" =>
        /\ c \in DOMAIN setup.caller
        /\ mem[c] \in State
        /\ setup.caller[c].legacy \subseteq known[c]

(* The locks under which a caller that has selected a store works. *)
LockInv ==
    \A c \in Caller :
        /\ pc[c] \in Selecting => PointerLocks(c) \subseteq Held(c)
        /\ pc[c] \in Working => StoreLocks(c) \subseteq Held(c)

(* What it has selected: its directory is among the stores it locks, and   *)
(* so is whatever the pointers it has locked name.                         *)
SelectionInv ==
    \A c \in Caller : pc[c] \in Selecting =>
        /\ dir[c] \in priors[c]
        /\ \A s \in known[c] : pointer[s] \in priors[c] \cup {None}

(* No store it has locked is ahead of the range it has reserved.           *)
RangeInv ==
    \A c \in Caller : pc[c] \in Working =>
        \A d \in priors[c] : counter[d] # None => 
            ~Later(Position(d), [iv |-> mem[c].iv, seq |-> limit[c]])

(* How far its writes have come. *)
WriteInv ==
    \A c \in Caller :
        /\ pc[c] \in Working \ {"counter"} =>
              counter[dir[c]] = [iv |-> mem[c].iv, next |-> limit[c], paths |-> known[c]]
        /\ pc[c] \in {"saving", "use"} => \A s \in known[c] : pointer[s] = dir[c]

(* The state files nobody restores: as long as a caller selects and writes *)
(* they are as it has read them, and it reserves no less than they say.    *)
PeerInv ==
    \A c \in Caller : pc[c] \in Selecting \ {"use"} =>
        /\ \A s \in known[c] \ DOMAIN setup.backup : stateFile[s] \in peers[c]
        /\ pc[c] # "stores" =>
              \A q \in peers[c] : ~Later(q, [iv |-> mem[c].iv, seq |-> limit[c]])

(* They are never rolled back. *)
FileInv ==
    \A s \in Path \ DOMAIN setup.backup : ~Later(setup.file[s], stateFile[s])

(* If a and b share a store explicitly, whatever leads to another store    *)
(* leads to a counter that lists state files known to each of them, and    *)
(* who works with another store knows these state files.                   *)
Leads(home, d) == d \in {None, home} \/ counter[d] # None

KnownTo(a, b, paths) ==
    paths \cap setup.caller[a].legacy # {} /\ paths \cap setup.caller[b].legacy # {}

SharesHome(a, b, home) ==
    /\ \A d \in Dir \ {home} : counter[d] # None => KnownTo(a, b, counter[d].paths)
    /\ \A s \in Path : Leads(home, pointer[s]) /\ Leads(home, stateFile[s].dir)
    /\ \A c \in Caller : pc[c] # "idle" => Leads(home, mem[c].dir)
    /\ \A c \in Caller : pc[c] \in Selecting /\ dir[c] # home => KnownTo(a, b, known[c])

StoreInv ==
    \A a, b \in DOMAIN setup.caller :
        ShareStore(setup, setup.caller[a], setup.caller[b]) =>
            SharesHome(a, b, setup.caller[a].option)

IInv ==
    /\ TypeOK
    /\ CallerInv
    /\ LockInv
    /\ SelectionInv
    /\ RangeInv
    /\ WriteInv
    /\ PeerInv
    /\ FileInv
    /\ StoreInv

(* A counter, or a pointer's counter, is past the last message. *)
Past(d) == counter[d] # None /\ Later(Position(d), lastSent)
Covered(s) == pointer[s] # None /\ Past(pointer[s])

(* What e knows of the last message: a pointer it will read, the store it  *)
(* shares with the sender, or the state files before the first message.    *)
Informed(e) ==
    \/ \E s \in setup.caller[e].legacy : Covered(s)
    \/ \E c \in DOMAIN setup.caller :
          /\ ShareStore(setup, setup.caller[c], setup.caller[e])
          /\ \A s \in setup.caller[c].legacy : Covered(s)
          /\ Past(setup.caller[e].option)
    \/ lastSent = LastOf(setup.file)

InformedInv == \A e \in DOMAIN setup.caller : Informed(e)

(* Whatever a caller has reserved comes after the last message. *)
AheadInv ==
    \A c \in Caller : pc[c] \in Working =>
        Later([iv |-> mem[c].iv, seq |-> cursor[c]], lastSent)

-----------------------------------------------------------------------------
(* Least and greatest elements exist. *)
LEMMA MinFacts ==
    ASSUME NEW S, S \subseteq Nat, S # {}
    PROVE  Min(S) \in S /\ \A y \in S : Min(S) =< y
<1> DEFINE T == {0..x : x \in S}
<1>1. T \subseteq FiniteSubsetsOf(Nat) /\ T # {}
  <2>1. \A x \in S : 0..x \subseteq Nat /\ IsFiniteSet(0..x)
    BY FS_Interval
  <2> QED
    BY <2>1 DEF FiniteSubsetsOf
<1>2. PICK t \in T : \A u \in T : <<u, t>> \notin StrictSubsetOrdering(Nat)
  BY <1>1, FS_StrictSubsetOrderingWellFounded, WFMin
<1>3. PICK x \in S : t = 0..x
  OBVIOUS
<1>4. ASSUME NEW y \in S PROVE x =< y
  <2>1. ~(y < x)
    <3>1. SUFFICES ASSUME y < x PROVE FALSE
      OBVIOUS
    <3>2. x \in Nat /\ y \in Nat
      OBVIOUS
    <3>3. 0..y \subseteq 0..x /\ 0..y # 0..x
      BY <3>1, <3>2
    <3>4. 0..y \in SUBSET Nat /\ 0..x \in SUBSET Nat
      BY <3>2
    <3>5. <<0..y, 0..x>> \in StrictSubsetOrdering(Nat)
      BY <3>3, <3>4 DEF StrictSubsetOrdering
    <3> QED
      BY <1>2, <1>3, <3>5
  <2> QED
    BY <2>1
<1> QED
  BY <1>4 DEF Min

(* A bounded, non-empty set of numbers has a greatest element. *)
LEMMA MaxFacts ==
    ASSUME NEW n \in Nat, NEW S, S \subseteq 0..n, S # {}
    PROVE  Max(S) \in S /\ \A y \in S : y =< Max(S)
<1> DEFINE T == {n - y : y \in S}
<1>1. T \subseteq Nat /\ T # {}
  <2>1. \A y \in S : y \in 0..n /\ n - y \in Nat
    OBVIOUS
  <2> QED
    BY <2>1
<1>2. PICK y \in S : n - y = Min(T)
  BY <1>1, MinFacts
<1>3. \A z \in S : y >= z
  BY <1>1, <1>2, MinFacts
<1> QED
  BY <1>3 DEF Max

(* The message order. *)
LEMMA LaterFacts ==
    ASSUME NEW a, NEW b, NEW d, a.iv \in Int, a.seq \in Int, b.iv \in Int, b.seq \in Int,
           d.iv \in Int, d.seq \in Int
    PROVE  /\ ~Later(a, b) /\ ~Later(b, d) => ~Later(a, d)
           /\ Later(a, b) /\ ~Later(a, d) => Later(d, b)
           /\ ~Later(a, a)
  BY DEF Later

(* What the assumption on setups says of the present one. *)
LEMMA SetupTyped ==
    ASSUME TypeOK
    PROVE  /\ setup.file \in [Path -> State]
           /\ DOMAIN setup.backup \subseteq Path
           /\ \A p \in DOMAIN setup.backup : setup.backup[p] \in State
           /\ setup.count \subseteq Nat \ {0}
           /\ \A c \in DOMAIN setup.caller :
                 /\ c \in Caller
                 /\ setup.caller[c].path \in setup.caller[c].legacy
                 /\ setup.caller[c].legacy \subseteq Path
                 /\ setup.caller[c].option \in Dir \cup {None}
                 /\ setup.caller[c].default \in Dir
                 /\ setup.caller[c].migrate => setup.caller[c].option # None
  BY SetupAssumption DEF TypeOK, IsSetup, Config
(* Two callers that work on a selection know no state file in common; two  *)
(* that have allocated lock no store in common.                            *)
LEMMA Excluded ==
    ASSUME TypeOK, LockInv, NEW c \in Caller, NEW e \in Caller, c # e,
           pc[c] \in Selecting, pc[e] \in Selecting
    PROVE  /\ known[c] \cap known[e] = {}
           /\ pc[c] \in Working /\ pc[e] \in Working => priors[c] \cap priors[e] = {}
<1>1. Held(c) \cap Held(e) = {}
  BY DEF Held
<1>2. PointerLocks(c) \cap PointerLocks(e) = {}
  BY <1>1 DEF LockInv
<1>3. pc[c] \in Working /\ pc[e] \in Working => StoreLocks(c) \cap StoreLocks(e) = {}
  BY <1>1 DEF LockInv
<1> QED
  BY <1>2, <1>3 DEF PointerLocks, StoreLocks

(* The highest number under the locks: no counter or peer is ahead of it.  *)
LEMMA HighWaterFacts ==
    ASSUME TypeOK, NEW c \in Caller, mem[c] \in State
    PROVE  /\ HighWater(c) \in Sequence
           /\ mem[c].seq =< HighWater(c)
           /\ \A k \in Counters(c) : k.iv = mem[c].iv => k.next =< HighWater(c)
           /\ \A q \in peers[c] : q.iv = mem[c].iv => q.seq =< HighWater(c)
<1> DEFINE S == {mem[c].seq}
                  \cup {k.next : k \in {m \in Counters(c) : m.iv = mem[c].iv}}
                  \cup {p.seq : p \in {q \in peers[c] : q.iv = mem[c].iv}}
<1>1. Counters(c) \subseteq Counter
  BY DEF TypeOK, Counters
<1>2. peers[c] \subseteq State
  BY DEF TypeOK
<1>3. S \subseteq Sequence /\ S # {}
  BY <1>1, <1>2 DEF State, Counter
<1>4. MaxSequence + 1 \in Nat /\ Sequence = 0..(MaxSequence + 1)
  BY BoundAssumption DEF Sequence
<1>5. Max(S) \in S /\ \A y \in S : y =< Max(S)
  <2> HIDE DEF S
  <2> QED
    BY <1>3, <1>4, MaxFacts
<1>6. HighWater(c) = Max(S)
  BY DEF HighWater
<1> QED
  BY <1>3, <1>5, <1>6

(* What SelectStore does: the call ends, starts over with more state files *)
(* or has selected a store among those it is going to lock.                *)
Selection(c) ==
    /\ pc[c] = "pointers" /\ PointerLocks(c) \subseteq Held(c)
    /\ UNCHANGED <<setup, files, holder, mem, cursor, limit, lastSent>>
    /\ pc' = [pc EXCEPT ![c] = pc'[c]] /\ known' = [known EXCEPT ![c] = known'[c]]
    /\ dir' = [dir EXCEPT ![c] = dir'[c]] /\ priors' = [priors EXCEPT ![c] = priors'[c]]
    /\ peers' = [peers EXCEPT ![c] = peers'[c]]
    /\ \/ /\ pc'[c] \in {"releasing", "retrying"}
          /\ known[c] \subseteq known'[c] /\ known'[c] \subseteq Path
          /\ UNCHANGED <<dir, priors, peers>>
       \/ /\ pc'[c] = "stores" /\ known' = known
          /\ dir'[c] \in Selected(c) /\ priors'[c] = {dir'[c]} \cup Stores(c) \cup Hints(c)
          /\ dir'[c] \in Dir /\ priors'[c] \subseteq Dir
          /\ Discovered(c, priors'[c]) = {}
          /\ peers'[c] = {stateFile[s] : s \in known[c]} /\ peers'[c] \subseteq State

(* SelectStore yields stores to lock that are the selected one, those the  *)
(* pointers name and the hints, or begins again with the state files it    *)
(* has discovered.                                                         *)
LEMMA SelectFacts ==
    ASSUME TypeOK, CallerInv, NEW c \in DOMAIN setup.caller, SelectStore(c)
    PROVE  Selection(c)
<1> c \in Caller
  BY SetupTyped
<1>1. Stores(c) \subseteq Dir /\ Hints(c) \subseteq Dir
  <2>1. pc[c] = "pointers"
    BY DEF SelectStore
  <2>2. mem[c] \in State
    BY <2>1 DEF CallerInv
  <2> QED
    BY <2>2 DEF TypeOK, Stores, Hints, State
<1>2. \A d \in Selected(c) : d \in Dir
  <2>1. RequestedDirectory(c) \in Dir
    BY SetupTyped, <1>1 DEF RequestedDirectory, Hints
  <2> QED
    BY <1>1, <2>1 DEF Selected
<1>3. CASE Conflict(c)
  BY <1>3 DEF TypeOK, SelectStore, Selection, Goto
<1>4. CASE ~Conflict(c)
  <2>1. PICK d \in Selected(c) :
          LET all == {d} \cup Stores(c) \cup Hints(c) IN
          \/ /\ Discovered(c, all) # {}
             /\ known' = [known EXCEPT ![c] = @ \cup Discovered(c, all)]
             /\ Goto(c, "retrying")
             /\ UNCHANGED <<dir, priors, peers>>
          \/ /\ Discovered(c, all) = {}
             /\ dir' = [dir EXCEPT ![c] = d]
             /\ priors' = [priors EXCEPT ![c] = all]
             /\ peers' = [peers EXCEPT ![c] = {stateFile[s] : s \in known[c]}]
             /\ Goto(c, "stores")
             /\ UNCHANGED known
    BY <1>4 DEF SelectStore
  <2> DEFINE all == {d} \cup Stores(c) \cup Hints(c)
  <2>2. all \subseteq Dir
    BY <1>1, <1>2
  <2>3. Discovered(c, all) \subseteq Path
    BY <2>2 DEF TypeOK, Discovered, Counter
  <2>4. {stateFile[s] : s \in known[c]} \subseteq State
    BY DEF TypeOK
  <2>5. /\ pc[c] = "pointers" /\ PointerLocks(c) \subseteq Held(c)
        /\ UNCHANGED <<setup, files, holder, mem, cursor, limit, lastSent>>
    BY DEF SelectStore
  <2>6. CASE Discovered(c, all) # {}
    <3>1. /\ known' = [known EXCEPT ![c] = @ \cup Discovered(c, all)]
          /\ pc' = [pc EXCEPT ![c] = "retrying"] /\ UNCHANGED <<dir, priors, peers>>
      BY <2>1, <2>6 DEF Goto
    <3> QED
      BY <2>3, <2>5, <3>1 DEF TypeOK, Selection
  <2>7. CASE Discovered(c, all) = {}
    <3>1. /\ dir' = [dir EXCEPT ![c] = d] /\ priors' = [priors EXCEPT ![c] = all]
          /\ peers' = [peers EXCEPT ![c] = {stateFile[s] : s \in known[c]}]
          /\ pc' = [pc EXCEPT ![c] = "stores"] /\ known' = known
      BY <2>1, <2>7 DEF Goto
    <3>2. /\ dir'[c] = d /\ priors'[c] = all /\ peers'[c] = {stateFile[s] : s \in known[c]}
          /\ pc'[c] = "stores"
      BY <3>1 DEF TypeOK
    <3> QED
      BY <2>2, <2>4, <2>5, <2>7, <3>1, <3>2 DEF TypeOK, Selection
  <2> QED
    BY <2>6, <2>7
<1> QED
  BY <1>3, <1>4

(* What Allocate does: the call ends, starts over with more state files or *)
(* has a range behind everything read under the locks.                     *)
Allocation(c) ==
    /\ pc[c] = "stores" /\ StoreLocks(c) \subseteq Held(c)
    /\ UNCHANGED <<setup, files, holder, mem, dir, priors, peers, lastSent>>
    /\ pc' = [pc EXCEPT ![c] = pc'[c]] /\ known' = [known EXCEPT ![c] = known'[c]]
    /\ cursor' = [cursor EXCEPT ![c] = cursor'[c]] /\ limit' = [limit EXCEPT ![c] = limit'[c]]
    /\ \/ /\ pc'[c] \in {"releasing", "retrying"}
          /\ known[c] \subseteq known'[c] /\ known'[c] \subseteq Path
          /\ UNCHANGED <<cursor, limit>>
       \/ /\ pc'[c] = "counter" /\ known' = known
          /\ cursor'[c] \in Sequence /\ limit'[c] \in Sequence
          /\ \A n \in {cursor'[c], limit'[c]} :
                /\ ~Later(mem[c], [iv |-> mem[c].iv, seq |-> n])
                /\ \A d \in priors[c] : counter[d] # None =>
                      ~Later(Position(d), [iv |-> mem[c].iv, seq |-> n])
                /\ \A q \in peers[c] : ~Later(q, [iv |-> mem[c].iv, seq |-> n])

(* Allocate reserves a range that is past what the caller, the locked      *)
(* counters and the peers say, or gives the locks up again.                *)
LEMMA AllocateFacts ==
    ASSUME TypeOK, CallerInv, NEW c \in DOMAIN setup.caller, Allocate(c)
    PROVE  Allocation(c)
<1> c \in Caller
  BY SetupTyped
<1>1. /\ pc[c] = "stores" /\ StoreLocks(c) \subseteq Held(c)
      /\ UNCHANGED <<setup, files, holder, mem, dir, priors, peers, lastSent>>
  BY DEF Allocate
<1>2. mem[c] \in State
  BY <1>1 DEF CallerInv
<1>3. CASE OlderIvIndex(c)
  BY <1>1, <1>3 DEF TypeOK, Allocate, Allocation, Goto
<1>4. CASE ~OlderIvIndex(c) /\ Discovered(c, priors[c]) # {}
  <2>1. Discovered(c, priors[c]) \subseteq Path
    BY DEF TypeOK, Discovered, Counter
  <2>2. /\ known' = [known EXCEPT ![c] = @ \cup Discovered(c, priors[c])]
        /\ pc' = [pc EXCEPT ![c] = "retrying"] /\ UNCHANGED <<cursor, limit>>
    BY <1>4 DEF Allocate, Goto
  <2> QED
    BY <1>1, <2>1, <2>2 DEF TypeOK, Allocation
<1>5. CASE ~OlderIvIndex(c) /\ Discovered(c, priors[c]) = {}
  <2>1. known' = known
    BY <1>5 DEF Allocate
  <2>2. PICK n \in setup.count :
          \/ Goto(c, "releasing") /\ UNCHANGED <<cursor, limit>>
          \/ /\ ~Exhausted(c, n)
             /\ cursor' = [cursor EXCEPT ![c] = HighWater(c)]
             /\ limit' = [limit EXCEPT ![c] = HighWater(c) + n]
             /\ Goto(c, "counter")
    BY <1>5 DEF Allocate
  <2>3. CASE Goto(c, "releasing") /\ UNCHANGED <<cursor, limit>>
    BY <1>1, <2>1, <2>3 DEF TypeOK, Allocation, Goto
  <2>4. CASE /\ ~Exhausted(c, n)
             /\ cursor' = [cursor EXCEPT ![c] = HighWater(c)]
             /\ limit' = [limit EXCEPT ![c] = HighWater(c) + n]
             /\ Goto(c, "counter")
    <3>1. /\ HighWater(c) \in Sequence /\ mem[c].seq =< HighWater(c)
          /\ \A k \in Counters(c) : k.iv = mem[c].iv => k.next =< HighWater(c)
          /\ \A q \in peers[c] : q.iv = mem[c].iv => q.seq =< HighWater(c)
      BY <1>2, HighWaterFacts
    <3>2. n \in Nat \ {0}
      BY SetupTyped
    <3>3. HighWater(c) + n \in Sequence
      BY <2>4, <3>1, <3>2, BoundAssumption DEF Exhausted, Sequence
    <3>4. /\ cursor'[c] = HighWater(c) /\ limit'[c] = HighWater(c) + n /\ pc'[c] = "counter"
          /\ pc' = [pc EXCEPT ![c] = "counter"]
      BY <2>4 DEF TypeOK, Goto
    <3>5. ASSUME NEW m \in {HighWater(c), HighWater(c) + n}
          PROVE  /\ ~Later(mem[c], [iv |-> mem[c].iv, seq |-> m])
                 /\ \A d \in priors[c] : counter[d] # None =>
                       ~Later(Position(d), [iv |-> mem[c].iv, seq |-> m])
                 /\ \A q \in peers[c] : ~Later(q, [iv |-> mem[c].iv, seq |-> m])
      <4>1. HighWater(c) =< m /\ m \in Int /\ HighWater(c) \in Int
        BY <3>1, <3>2, BoundAssumption DEF Sequence
      <4>2. mem[c].iv \in Int /\ mem[c].seq \in Int
        BY <1>2 DEF State, IvIndex, Sequence
      <4>3. ASSUME NEW d \in priors[c], counter[d] # None
            PROVE  ~Later(Position(d), [iv |-> mem[c].iv, seq |-> m])
        <5>1. counter[d] \in Counters(c) /\ counter[d] \in Counter
          BY <4>3 DEF TypeOK, Counters
        <5>2. counter[d].iv =< mem[c].iv
          BY <1>5, <4>2, <5>1 DEF OlderIvIndex, Counter, IvIndex
        <5> QED
          BY <3>1, <4>1, <4>2, <5>1, <5>2
          DEF Later, Position, Counter, IvIndex, Sequence
      <4>4. ASSUME NEW q \in peers[c]
            PROVE  ~Later(q, [iv |-> mem[c].iv, seq |-> m])
        <5>1. q \in State
          BY DEF TypeOK
        <5>2. q.iv =< mem[c].iv
          BY <1>5, <4>2, <5>1 DEF OlderIvIndex, State, IvIndex
        <5> QED
          BY <3>1, <4>1, <4>2, <5>1, <5>2 DEF Later, State, IvIndex, Sequence
      <4>5. ~Later(mem[c], [iv |-> mem[c].iv, seq |-> m])
        BY <3>1, <4>1, <4>2 DEF Later
      <4> QED
        BY <4>3, <4>4, <4>5
    <3>6. /\ cursor' = [cursor EXCEPT ![c] = HighWater(c)]
          /\ limit' = [limit EXCEPT ![c] = HighWater(c) + n]
      BY <2>4
    <3> QED
      BY <1>1, <2>1, <3>1, <3>3, <3>4, <3>5, <3>6 DEF TypeOK, Allocation
  <2> QED
    BY <2>2, <2>3, <2>4
<1> QED
  BY <1>3, <1>4, <1>5

(* A caller that selects a store other than one that others share learns   *)
(* of it from them.                                                        *)
LEMMA LedElsewhere ==
    ASSUME TypeOK, CallerInv, NEW a \in DOMAIN setup.caller, NEW b \in DOMAIN setup.caller,
           ShareStore(setup, setup.caller[a], setup.caller[b]),
           SharesHome(a, b, setup.caller[a].option),
           NEW c \in DOMAIN setup.caller, pc[c] # "idle",
           NEW d \in Selected(c), d # setup.caller[a].option, d \in Dir,
           Discovered(c, {d} \cup Stores(c) \cup Hints(c)) = {}
    PROVE  KnownTo(a, b, known[c])
<1> DEFINE home == setup.caller[a].option
<1> c \in Caller
  BY SetupTyped
<1>1. setup.caller[c].legacy \subseteq known[c]
  BY DEF CallerInv
<1>2. CASE Meet(setup.caller[c], setup.caller[a]) /\ Meet(setup.caller[c], setup.caller[b])
  BY <1>1, <1>2 DEF Meet, KnownTo
<1>3. CASE setup.caller[c].option = home
  <2>1. home # None
    BY DEF ShareStore
  <2>2. d \in Stores(c) \cup Hints(c)
    BY <1>3, <2>1 DEF Selected, RequestedDirectory
  <2>3. Leads(home, d)
    BY <2>2 DEF SharesHome, Stores, Hints, TypeOK
  <2>4. counter[d] # None
    BY <2>3, BoundAssumption DEF Leads
  <2>5. KnownTo(a, b, counter[d].paths)
    BY <2>4 DEF SharesHome
  <2>6. counter[d].paths \subseteq known[c]
    <3>1. counter[d].paths \subseteq
            UNION {counter[e].paths : e \in {f \in {d} \cup Stores(c) \cup Hints(c) :
                                                counter[f] # None}}
      BY <2>4
    <3> QED
      BY <3>1 DEF Discovered
  <2> QED
    BY <2>5, <2>6 DEF KnownTo
<1> QED
  BY <1>2, <1>3 DEF ShareStore

(* WritePointer turns one pointer c has locked, or finds all of them turned. *)
LEMMA PointerWritten ==
    ASSUME TypeOK, NEW c \in Caller, WritePointer(c)
    PROVE  \/ pointer' = pointer /\ \A s \in known[c] : pointer[s] = dir[c]
           \/ /\ pc'[c] = "pointing"
              /\ \E s \in known[c] : pointer' = [pointer EXCEPT ![s] = dir[c]]
<1> DEFINE stale == {s \in known[c] : pointer[s] # dir[c]}
<1>1. CASE stale = {}
  BY <1>1 DEF WritePointer
<1>2. CASE stale # {}
  <2>1. stale \subseteq Nat
    BY BoundAssumption DEF TypeOK
  <2>2. Min(stale) \in stale
    <3> HIDE DEF stale
    <3> QED
      BY <1>2, <2>1, MinFacts
  <2>3. pointer' = [pointer EXCEPT ![Min(stale)] = dir[c]] /\ pc' = pc /\ pc[c] = "pointing"
    BY <1>2 DEF WritePointer
  <2> QED
    BY <2>2, <2>3
<1> QED
  BY <1>1, <1>2

(* A caller that begins has selected nothing; the state it loads leads     *)
(* where the state file does.                                              *)
LEMMA BeginKeeps ==
    ASSUME IInv, NEW c \in DOMAIN setup.caller, Begin(c)
    PROVE  IInv'
<1> c \in Caller
  BY SetupTyped DEF IInv
<1>a. /\ pc[c] = "idle" /\ pc' = [pc EXCEPT ![c] = "pointers"]
      /\ mem' = [mem EXCEPT ![c] = stateFile[setup.caller[c].path]]
      /\ known' = [known EXCEPT ![c] = setup.caller[c].legacy]
      /\ UNCHANGED <<setup, counter, pointer, stateFile, holder, dir, priors, peers, cursor,
                     limit, lastSent>>
  BY DEF Begin, Goto, files
<1>1. TypeOK'
  BY SetupTyped, BoundAssumption DEF IInv, TypeOK, CallerInv, Begin, Goto, files, Stage
<1>2. CallerInv'
  BY SetupTyped, BoundAssumption DEF IInv, CallerInv, TypeOK, Begin, Goto, files, Stage
<1>3. LockInv'
  BY SetupTyped, BoundAssumption
  DEF IInv, LockInv, TypeOK, CallerInv, PointerLocks, StoreLocks, Held, Selecting,
      Working, Begin, Goto, files
<1>4. SelectionInv'
  BY DEF IInv, SelectionInv, TypeOK, CallerInv, Selecting, Working, Begin, Goto, files
<1>5. RangeInv'
  BY DEF IInv, RangeInv, TypeOK, CallerInv, Position, Working, Begin, Goto, files
<1>6. WriteInv'
  BY DEF IInv, WriteInv, TypeOK, CallerInv, Working, Begin, Goto, files, Stage
<1>7. PeerInv'
  BY DEF IInv, PeerInv, TypeOK, CallerInv, Selecting, Working, Begin, Goto, files
<1>8. FileInv'
  BY DEF IInv, FileInv, CallerInv, Begin, Goto, files
<1>9. StoreInv'
  <2> SUFFICES ASSUME NEW a \in DOMAIN setup.caller, NEW b \in DOMAIN setup.caller,
                      ShareStore(setup, setup.caller[a], setup.caller[b])
               PROVE  SharesHome(a, b, setup.caller[a].option)'
    BY <1>a DEF StoreInv
  <2> DEFINE home == setup.caller[a].option
  <2>a. SharesHome(a, b, home)
    BY DEF IInv, StoreInv
  <2>1. (\A d \in Dir \ {home} : counter[d] # None => KnownTo(a, b, counter[d].paths))'
    BY <1>a, <2>a DEF SharesHome, KnownTo
  <2>2. (\A s \in Path : Leads(home, pointer[s]) /\ Leads(home, stateFile[s].dir))'
    BY <1>a, <2>a DEF SharesHome, Leads
  <2>3. (\A e \in Caller : pc[e] # "idle" => Leads(home, mem[e].dir))'
    BY <1>a, <2>a, SetupTyped DEF IInv, TypeOK, SharesHome, Leads
  <2>4. (\A e \in Caller : pc[e] \in Selecting /\ dir[e] # home => KnownTo(a, b, known[e]))'
    BY <1>a, <2>a DEF IInv, SharesHome, KnownTo, Selecting, Working
  <2> QED
    BY <1>a, <2>1, <2>2, <2>3, <2>4 DEF SharesHome
<1> QED
  BY <1>1, <1>2, <1>3, <1>4, <1>5, <1>6, <1>7, <1>8, <1>9 DEF IInv

(* Taking a lock that is free takes none from anybody. *)
LEMMA TakePointerLockKeeps ==
    ASSUME IInv, NEW c \in DOMAIN setup.caller, TakePointerLock(c)
    PROVE  IInv'
<1>1. TypeOK'
  <2>1. c \in Caller
    BY SetupTyped DEF IInv
  <2>2. PICK l \in PointerLocks(c) : holder' = [holder EXCEPT ![l] = c]
    BY DEF TakePointerLock, Take, Missing
  <2>3. l \in Lock
    BY <2>1 DEF IInv, TypeOK, PointerLocks, Lock
  <2> QED
    BY <2>1, <2>2, <2>3 DEF IInv, TypeOK, TakePointerLock, Take, files
<1>2. CallerInv'
  BY DEF IInv, CallerInv, TypeOK, TakePointerLock, Take, PointerLocks, Missing
<1>3. LockInv'
  BY SetupTyped, BoundAssumption
  DEF IInv, LockInv, TypeOK, CallerInv, PointerLocks, StoreLocks, Held, Selecting,
      Working, TakePointerLock, Take
<1>4. SelectionInv'
  BY SetupTyped, BoundAssumption
  DEF IInv, SelectionInv, Working, TakePointerLock, Take, Goto, files
<1>5. RangeInv'
  BY SetupTyped, BoundAssumption
  DEF IInv, RangeInv, TypeOK, CallerInv, Position, Working, TakePointerLock, Take, Goto,
      files
<1>6. WriteInv'
  BY SetupTyped, BoundAssumption
  DEF IInv, WriteInv, Working, TakePointerLock, Take, Held, Goto, files
<1>7. PeerInv'
  BY SetupTyped, BoundAssumption
  DEF IInv, PeerInv, Working, TakePointerLock, Take, Goto, files
<1>8. FileInv'
  BY SetupTyped, BoundAssumption
  DEF IInv, FileInv, TakePointerLock, Take, PointerLocks, Goto, files
<1>9. StoreInv'
  BY SetupTyped, BoundAssumption
  DEF IInv, StoreInv, TypeOK, CallerInv, SharesHome, Leads, KnownTo, Selecting, Working,
      TakePointerLock, Take, PointerLocks, Missing, Held, Goto, files
<1> QED
  BY <1>1, <1>2, <1>3, <1>4, <1>5, <1>6, <1>7, <1>8, <1>9 DEF IInv

(* The same for the lock of a store. *)
LEMMA TakeStoreLockKeeps ==
    ASSUME IInv, NEW c \in DOMAIN setup.caller, TakeStoreLock(c)
    PROVE  IInv'
<1>1. TypeOK'
  BY SetupTyped, BoundAssumption
  DEF IInv, TypeOK, CallerInv, TakeStoreLock, Take, StoreLocks, Missing, files, Stage,
      Lock
<1>2. CallerInv'
  BY DEF IInv, CallerInv, TypeOK, TakeStoreLock, Take, StoreLocks, Missing
<1>3. LockInv'
  BY SetupTyped, BoundAssumption
  DEF IInv, LockInv, TypeOK, CallerInv, PointerLocks, StoreLocks, Held, Selecting,
      Working, TakeStoreLock, Take
<1>4. SelectionInv'
  BY SetupTyped, BoundAssumption
  DEF IInv, SelectionInv, Working, TakeStoreLock, Take, Goto, files
<1>5. RangeInv'
  BY SetupTyped, BoundAssumption
  DEF IInv, RangeInv, TypeOK, CallerInv, Position, Working, TakeStoreLock, Take, Goto,
      files
<1>6. WriteInv'
  BY SetupTyped, BoundAssumption
  DEF IInv, WriteInv, Working, TakeStoreLock, Take, Held, Goto, files
<1>7. PeerInv'
  BY SetupTyped, BoundAssumption
  DEF IInv, PeerInv, Working, TakeStoreLock, Take, Goto, files
<1>8. FileInv'
  BY SetupTyped, BoundAssumption
  DEF IInv, FileInv, TakeStoreLock, Take, StoreLocks, Goto, files
<1>9. StoreInv'
  BY SetupTyped, BoundAssumption
  DEF IInv, StoreInv, TypeOK, CallerInv, SharesHome, Leads, KnownTo, Selecting, Working,
      TakeStoreLock, Take, StoreLocks, Missing, Held, Goto, files
<1> QED
  BY <1>1, <1>2, <1>3, <1>4, <1>5, <1>6, <1>7, <1>8, <1>9 DEF IInv

(* What is selected is read under the locks of the pointers it is read     *)
(* from, so that it is still true when it is used.                         *)
LEMMA SelectStoreKeeps ==
    ASSUME IInv, NEW c \in DOMAIN setup.caller, SelectStore(c)
    PROVE  IInv'
<1> c \in Caller
  BY SetupTyped DEF IInv
<1>a. Selection(c)
  BY SelectFacts DEF IInv
<1>b. pc[c] # "idle" /\ pc[c] \notin Selecting
  BY <1>a DEF Selection, Selecting, Working
<1>1. TypeOK'
  BY <1>a DEF IInv, TypeOK, Selection, Stage, files
<1>2. CallerInv'
  BY <1>a DEF IInv, TypeOK, CallerInv, Selection
<1>3. LockInv'
  BY <1>a
  DEF IInv, TypeOK, LockInv, PointerLocks, StoreLocks, Held, Selection, Selecting,
      Working
<1>4. SelectionInv'
  BY <1>a DEF IInv, TypeOK, SelectionInv, Selection, Stores, Selecting, Working, files
<1>5. RangeInv'
  BY <1>a DEF IInv, TypeOK, RangeInv, Selection, Position, Working, files
<1>6. WriteInv'
  BY <1>a DEF IInv, TypeOK, WriteInv, Selection, Working, files
<1>7. PeerInv'
  BY <1>a DEF IInv, TypeOK, PeerInv, Selection, Selecting, Working, files
<1>8. FileInv'
  BY <1>a DEF IInv, FileInv, Selection, files
<1>9. StoreInv'
  <2> SUFFICES ASSUME NEW a \in DOMAIN setup.caller, NEW b \in DOMAIN setup.caller,
                      ShareStore(setup, setup.caller[a], setup.caller[b])
               PROVE  SharesHome(a, b, setup.caller[a].option)'
    BY <1>a DEF StoreInv, Selection
  <2> DEFINE home == setup.caller[a].option
  <2>a. SharesHome(a, b, home)
    BY DEF IInv, StoreInv
  <2>1. (\A d \in Dir \ {home} : counter[d] # None => KnownTo(a, b, counter[d].paths))'
    BY <1>a, <2>a DEF SharesHome, KnownTo, Selection, files
  <2>2. (\A s \in Path : Leads(home, pointer[s]) /\ Leads(home, stateFile[s].dir))'
    BY <1>a, <2>a DEF SharesHome, Leads, Selection, files
  <2>3. (\A e \in Caller : pc[e] # "idle" => Leads(home, mem[e].dir))'
    BY <1>a, <1>b, <2>a DEF IInv, TypeOK, SharesHome, Leads, Selection, files
  <2>4. ASSUME NEW e \in Caller, pc'[e] \in Selecting, dir'[e] # home
        PROVE  KnownTo(a, b, known[e])'
    <3>1. CASE e # c
      BY <1>a, <2>4, <2>a, <3>1 DEF IInv, TypeOK, SharesHome, KnownTo, Selection
    <3>2. CASE e = c
      <4>1. pc'[c] = "stores"
        BY <1>a, <2>4, <3>2 DEF Selection, Selecting, Working
      <4>2. KnownTo(a, b, known[c])
        BY <1>a, <1>b, <2>4, <2>a, <3>2, <4>1, LedElsewhere DEF IInv, Selection
      <4> QED
        BY <1>a, <3>2, <4>1, <4>2 DEF Selection, KnownTo
    <3> QED
      BY <3>1, <3>2
  <2> QED
    BY <1>a, <2>1, <2>2, <2>3, <2>4 DEF SharesHome, Selection
<1> QED
  BY <1>1, <1>2, <1>3, <1>4, <1>5, <1>6, <1>7, <1>8, <1>9 DEF IInv

(* The range is computed from counters that are locked, and from the peers *)
(* as read under the pointer locks.                                        *)
LEMMA AllocateKeeps ==
    ASSUME IInv, NEW c \in DOMAIN setup.caller, Allocate(c)
    PROVE  IInv'
<1> c \in Caller
  BY SetupTyped DEF IInv
<1>a. Allocation(c)
  BY AllocateFacts DEF IInv
<1>b. pc[c] # "idle" /\ pc[c] \notin Working
  BY <1>a DEF Allocation, Working
<1>1. TypeOK'
  BY <1>a DEF IInv, TypeOK, Allocation, Stage, files
<1>2. CallerInv'
  BY <1>a DEF IInv, TypeOK, CallerInv, Allocation
<1>3. LockInv'
  BY <1>a
  DEF IInv, TypeOK, LockInv, PointerLocks, StoreLocks, Held, Allocation, Selecting,
      Working
<1>4. SelectionInv'
  BY <1>a DEF IInv, TypeOK, SelectionInv, Allocation, Selecting, Working, files
<1>5. RangeInv'
  BY <1>a DEF IInv, TypeOK, RangeInv, Allocation, Position, Working, files
<1>6. WriteInv'
  BY <1>a DEF IInv, TypeOK, WriteInv, Allocation, Working, files
<1>7. PeerInv'
  BY <1>a DEF IInv, TypeOK, PeerInv, Allocation, Selecting, Working, files
<1>8. FileInv'
  BY <1>a DEF IInv, FileInv, Allocation, files
<1>9. StoreInv'
  <2> SUFFICES ASSUME NEW a \in DOMAIN setup.caller, NEW b \in DOMAIN setup.caller,
                      ShareStore(setup, setup.caller[a], setup.caller[b])
               PROVE  SharesHome(a, b, setup.caller[a].option)'
    BY <1>a DEF StoreInv, Allocation
  <2> DEFINE home == setup.caller[a].option
  <2>a. SharesHome(a, b, home)
    BY DEF IInv, StoreInv
  <2>1. (\A d \in Dir \ {home} : counter[d] # None => KnownTo(a, b, counter[d].paths))'
    BY <1>a, <2>a DEF SharesHome, KnownTo, Allocation, files
  <2>2. (\A s \in Path : Leads(home, pointer[s]) /\ Leads(home, stateFile[s].dir))'
    BY <1>a, <2>a DEF SharesHome, Leads, Allocation, files
  <2>3. (\A e \in Caller : pc[e] # "idle" => Leads(home, mem[e].dir))'
    BY <1>a, <1>b, <2>a DEF IInv, TypeOK, SharesHome, Leads, Allocation, files
  <2>4. (\A e \in Caller : pc[e] \in Selecting /\ dir[e] # home => KnownTo(a, b, known[e]))'
    BY <1>a, <2>a DEF IInv, TypeOK, SharesHome, KnownTo, Allocation, Selecting
  <2> QED
    BY <1>a, <2>1, <2>2, <2>3, <2>4 DEF SharesHome, Allocation
<1> QED
  BY <1>1, <1>2, <1>3, <1>4, <1>5, <1>6, <1>7, <1>8, <1>9 DEF IInv

(* The counter of a store is written under its lock; nobody else works     *)
(* with this store, and it only rises.                                     *)
LEMMA WriteCounterKeeps ==
    ASSUME IInv, NEW c \in DOMAIN setup.caller, WriteCounter(c)
    PROVE  IInv'
<1> c \in Caller
  BY SetupTyped DEF IInv
<1> DEFINE new == [iv |-> mem[c].iv, next |-> limit[c], paths |-> known[c]]
<1>a. /\ pc[c] = "counter" /\ pc' = [pc EXCEPT ![c] = "pointing"]
      /\ counter' = [counter EXCEPT ![dir[c]] = new]
      /\ UNCHANGED <<setup, pointer, stateFile, holder, mem, known, dir, priors, peers,
                     cursor, limit, lastSent>>
  BY DEF WriteCounter, Goto
<1>b. pc[c] \in Working /\ pc[c] \in Selecting
  BY <1>a DEF Working, Selecting
<1>c. dir[c] \in priors[c] /\ dir[c] \in Dir /\ mem[c] \in State /\ new \in Counter
  BY <1>b, <1>a DEF IInv, TypeOK, CallerInv, SelectionInv, Counter, State
<1>d. \A e \in Caller : e # c /\ pc[e] \in Working => dir[c] \notin priors[e]
  BY <1>b, <1>c, Excluded DEF IInv, Selecting
<1> HIDE DEF new
<1>1. TypeOK'
  BY <1>a, <1>c DEF IInv, TypeOK, Stage
<1>2. CallerInv'
  BY DEF IInv, CallerInv, WriteCounter, Goto
<1>3. LockInv'
  BY SetupTyped, BoundAssumption
  DEF IInv, LockInv, TypeOK, CallerInv, PointerLocks, StoreLocks, Held, Selecting,
      Working, WriteCounter, Goto, files
<1>4. SelectionInv'
  BY <1>a, <1>b DEF IInv, SelectionInv
<1>5. RangeInv'
  <2> SUFFICES ASSUME NEW e \in Caller, pc'[e] \in Working, NEW d \in priors[e], counter'[d] # None
               PROVE  ~Later(Position(d)', [iv |-> mem[e].iv, seq |-> limit[e]])
    BY <1>a DEF RangeInv
  <2>1. pc[e] \in Working /\ d \in Dir
    BY <1>a, <1>b DEF IInv, TypeOK, Working
  <2>2. CASE d # dir[c]
    BY <1>a, <2>1, <2>2 DEF IInv, TypeOK, RangeInv, Position
  <2>3. CASE d = dir[c]
    <3>1. e = c
      BY <1>d, <2>1, <2>3
    <3>2. Position(d)' = [iv |-> mem[c].iv, seq |-> limit[c]]
      BY <1>a, <1>c, <2>3 DEF IInv, TypeOK, Position, new
    <3> QED
      BY <3>1, <3>2, <1>c DEF IInv, TypeOK, Later, State, IvIndex, Sequence
  <2> QED
    BY <2>2, <2>3
<1>6. WriteInv'
  <2> SUFFICES ASSUME NEW e \in Caller
               PROVE  /\ pc'[e] \in Working \ {"counter"} =>
                            counter'[dir[e]] = [iv |-> mem[e].iv, next |-> limit[e],
                                                paths |-> known[e]]
                      /\ pc'[e] \in {"saving", "use"} => \A s \in known[e] : pointer[s] = dir[e]
    BY <1>a DEF WriteInv
  <2>1. CASE e = c
    BY <1>a, <1>c, <2>1 DEF IInv, TypeOK, new
  <2>2. CASE e # c
    <3>1. pc'[e] = pc[e]
      BY <1>a, <2>2
    <3>2. pc[e] \in Working => dir[e] \in priors[e] /\ dir[e] # dir[c]
      BY <1>d, <2>2 DEF IInv, SelectionInv, Selecting
    <3> QED
      BY <1>a, <3>1, <3>2 DEF IInv, WriteInv
  <2> QED
    BY <2>1, <2>2
<1>7. PeerInv'
  BY DEF IInv, PeerInv, TypeOK, CallerInv, Selecting, Working, WriteCounter, Goto, files
<1>8. FileInv'
  BY DEF IInv, FileInv, CallerInv, WriteCounter
<1>9. StoreInv'
  <2> SUFFICES ASSUME NEW a \in DOMAIN setup.caller, NEW b \in DOMAIN setup.caller,
                      ShareStore(setup, setup.caller[a], setup.caller[b])
               PROVE  SharesHome(a, b, setup.caller[a].option)'
    BY <1>a DEF StoreInv
  <2> DEFINE home == setup.caller[a].option
  <2>a. SharesHome(a, b, home)
    BY DEF IInv, StoreInv
  <2>b. dir[c] # home => KnownTo(a, b, known[c])
    BY <1>b, <2>a DEF SharesHome
  <2>1. ASSUME NEW d \in Dir \ {home}, counter'[d] # None
        PROVE  KnownTo(a, b, counter[d].paths)'
    <3>1. CASE d = dir[c]
      BY <1>a, <1>c, <2>b, <2>1, <3>1 DEF IInv, TypeOK, KnownTo, new
    <3>2. CASE d # dir[c]
      BY <1>a, <2>a, <2>1, <3>2 DEF IInv, SharesHome, KnownTo
    <3> QED
      BY <3>1, <3>2
  <2>c. \A d \in Dir \cup {None} : Leads(home, d) => d \in {None, home} \/ counter'[d] # None
    BY <1>a, <1>c, BoundAssumption DEF IInv, Leads
  <2>2. (\A s \in Path : Leads(home, pointer[s]) /\ Leads(home, stateFile[s].dir))'
    BY <1>a, <2>a, <2>c DEF IInv, TypeOK, SharesHome, Leads
  <2>3. (\A e \in Caller : pc[e] # "idle" => Leads(home, mem[e].dir))'
    BY <1>a, <2>a, <2>c DEF IInv, TypeOK, SharesHome, Leads
  <2>4. (\A e \in Caller : pc[e] \in Selecting /\ dir[e] # home => KnownTo(a, b, known[e]))'
    BY <1>a, <1>b, <2>a DEF IInv, SharesHome, KnownTo
  <2> QED
    BY <1>a, <2>1, <2>2, <2>3, <2>4 DEF SharesHome
<1> QED
  BY <1>1, <1>2, <1>3, <1>4, <1>5, <1>6, <1>7, <1>8, <1>9 DEF IInv

(* A pointer is written under its lock, after the counter it leads to,     *)
(* which lists the state file it is beside.                                *)
LEMMA WritePointerKeeps ==
    ASSUME IInv, NEW c \in DOMAIN setup.caller, WritePointer(c)
    PROVE  IInv'
<1> c \in Caller
  BY SetupTyped DEF IInv
<1>a. /\ pc[c] = "pointing" /\ pc' = [pc EXCEPT ![c] = pc'[c]] /\ pc'[c] \in {"pointing", "saving"}
      /\ UNCHANGED <<setup, counter, stateFile, holder, mem, known, dir, priors, peers,
                     cursor, limit, lastSent>>
  BY DEF IInv, TypeOK, WritePointer, Goto
<1>b. pc[c] \in Working /\ pc[c] \in Selecting
  BY <1>a DEF Working, Selecting
<1>c. dir[c] \in priors[c] /\ dir[c] \in Dir
  BY <1>b DEF IInv, TypeOK, SelectionInv
<1>d. \/ pointer' = pointer /\ \A s \in known[c] : pointer[s] = dir[c]
      \/ /\ pc'[c] = "pointing"
         /\ \E s \in known[c] : pointer' = [pointer EXCEPT ![s] = dir[c]]
  BY PointerWritten DEF IInv
<1>e. \A e \in Caller : e # c /\ pc[e] \in Selecting => known[c] \cap known[e] = {}
  BY <1>b, Excluded DEF IInv
<1>1. TypeOK'
  BY <1>a, <1>c, <1>d DEF IInv, TypeOK, Stage
<1>2. CallerInv'
  BY DEF IInv, CallerInv, TypeOK, WritePointer, Goto
<1>3. LockInv'
  BY SetupTyped, BoundAssumption
  DEF IInv, LockInv, TypeOK, CallerInv, PointerLocks, StoreLocks, Held, Selecting,
      Working, WritePointer, Goto, files
<1>4. SelectionInv'
  <2> SUFFICES ASSUME NEW e \in Caller, pc'[e] \in Selecting
               PROVE  /\ dir[e] \in priors[e]
                      /\ \A s \in known[e] : pointer'[s] \in priors[e] \cup {None}
    BY <1>a DEF SelectionInv
  <2>1. pc[e] \in Selecting
    BY <1>a, <1>b DEF IInv, TypeOK
  <2>2. \A s \in known[e] : pointer'[s] \in {pointer[s], dir[e]}
    BY <1>d, <1>e, <2>1 DEF IInv, TypeOK
  <2> QED
    BY <2>1, <2>2 DEF IInv, SelectionInv
<1>5. RangeInv'
  BY DEF IInv, RangeInv, TypeOK, CallerInv, Position, Working, WritePointer, Goto, files
<1>6. WriteInv'
  <2> SUFFICES ASSUME NEW e \in Caller
               PROVE  /\ pc'[e] \in Working \ {"counter"} =>
                            counter[dir[e]] = [iv |-> mem[e].iv, next |-> limit[e],
                                               paths |-> known[e]]
                      /\ pc'[e] \in {"saving", "use"} => \A s \in known[e] : pointer'[s] = dir[e]
    BY <1>a DEF WriteInv
  <2>1. CASE e = c
    BY <1>a, <1>b, <1>d, <2>1 DEF IInv, WriteInv
  <2>2. CASE e # c
    <3>1. pc'[e] = pc[e]
      BY <1>a, <2>2 DEF IInv, TypeOK
    <3>2. pc[e] \in Working => \A s \in known[e] : pointer'[s] = pointer[s]
      BY <1>d, <1>e, <2>2 DEF IInv, TypeOK, Selecting
    <3> QED
      BY <3>1, <3>2 DEF IInv, WriteInv, Working
  <2> QED
    BY <2>1, <2>2
<1>7. PeerInv'
  BY DEF IInv, PeerInv, TypeOK, CallerInv, Selecting, Working, WritePointer, Goto, files
<1>8. FileInv'
  BY DEF IInv, FileInv, CallerInv, WritePointer
<1>9. StoreInv'
  <2> SUFFICES ASSUME NEW a \in DOMAIN setup.caller, NEW b \in DOMAIN setup.caller,
                      ShareStore(setup, setup.caller[a], setup.caller[b])
               PROVE  SharesHome(a, b, setup.caller[a].option)'
    BY <1>a DEF StoreInv
  <2> DEFINE home == setup.caller[a].option
  <2>a. SharesHome(a, b, home)
    BY DEF IInv, StoreInv
  <2>b. counter[dir[c]] # None
    <3>1. mem[c] \in State /\ limit[c] \in Sequence /\ known[c] \subseteq Path
      BY <1>a DEF IInv, TypeOK, CallerInv
    <3>2. [iv |-> mem[c].iv, next |-> limit[c], paths |-> known[c]] \in Counter
      BY <3>1 DEF Counter, State
    <3> QED
      BY <1>a, <3>2, BoundAssumption DEF IInv, WriteInv, Working
  <2>c. \A s \in Path : pointer'[s] \in {pointer[s], dir[c]}
    BY <1>d DEF IInv, TypeOK
  <2>1. (\A d \in Dir \ {home} : counter[d] # None => KnownTo(a, b, counter[d].paths))'
    BY <1>a, <2>a DEF SharesHome, KnownTo
  <2>2. (\A s \in Path : Leads(home, pointer[s]) /\ Leads(home, stateFile[s].dir))'
    BY <1>a, <2>a, <2>b, <2>c DEF SharesHome, Leads
  <2>3. (\A e \in Caller : pc[e] # "idle" => Leads(home, mem[e].dir))'
    BY <1>a, <2>a DEF IInv, TypeOK, SharesHome, Leads
  <2>4. (\A e \in Caller : pc[e] \in Selecting /\ dir[e] # home => KnownTo(a, b, known[e]))'
    BY <1>a, <1>b, <2>a DEF IInv, TypeOK, SharesHome, KnownTo
  <2> QED
    BY <1>a, <2>1, <2>2, <2>3, <2>4 DEF SharesHome
<1> QED
  BY <1>1, <1>2, <1>3, <1>4, <1>5, <1>6, <1>7, <1>8, <1>9 DEF IInv

(* The state file saved is not behind the one it replaces, which was read  *)
(* as a peer under the same lock.                                          *)
LEMMA SaveStateKeeps ==
    ASSUME IInv, NEW c \in DOMAIN setup.caller, SaveState(c)
    PROVE  IInv'
<1> c \in Caller
  BY SetupTyped DEF IInv
<1> DEFINE own == setup.caller[c].path
           new == [iv |-> mem[c].iv, seq |-> limit[c], dir |-> dir[c]]
<1>a. /\ pc[c] = "saving" /\ pc' = [pc EXCEPT ![c] = pc'[c]] /\ pc'[c] \in {"use", "releasing"}
      /\ stateFile' = [stateFile EXCEPT ![own] = new]
      /\ UNCHANGED <<setup, counter, pointer, holder, mem, known, dir, priors, peers, cursor, limit,
                     lastSent>>
  BY DEF IInv, TypeOK, SaveState, Goto
<1>b. pc[c] \in Working /\ pc[c] \in Selecting /\ pc[c] # "idle"
  BY <1>a DEF Working, Selecting
<1>c. own \in known[c] /\ own \in Path /\ mem[c] \in State /\ new \in State
  BY <1>b, SetupTyped DEF IInv, TypeOK, CallerInv, State
<1>d. \A e \in Caller : e # c /\ pc[e] \in Selecting => own \notin known[e]
  BY <1>b, <1>c, Excluded DEF IInv
<1>e. own \notin DOMAIN setup.backup => ~Later(stateFile[own], new)
  <2>1. own \notin DOMAIN setup.backup =>
          ~Later(stateFile[own], [iv |-> mem[c].iv, seq |-> limit[c]])
    BY <1>a, <1>b, <1>c DEF IInv, PeerInv
  <2> QED
    BY <2>1 DEF Later
<1> HIDE DEF new, own
<1>1. TypeOK'
  BY <1>a, <1>c DEF IInv, TypeOK, Stage
<1>2. CallerInv'
  BY DEF IInv, CallerInv, TypeOK, SaveState, Goto
<1>3. LockInv'
  BY SetupTyped, BoundAssumption
  DEF IInv, LockInv, TypeOK, CallerInv, PointerLocks, StoreLocks, Held, Selecting,
      Working, SaveState, Goto, files
<1>4. SelectionInv'
  BY DEF IInv, SelectionInv, TypeOK, CallerInv, Selecting, Working, SaveState, Goto,
      files
<1>5. RangeInv'
  BY DEF IInv, RangeInv, TypeOK, CallerInv, Position, Working, SaveState, Goto, files
<1>6. WriteInv'
  BY DEF IInv, WriteInv, TypeOK, CallerInv, Working, SaveState, Goto
<1>7. PeerInv'
  <2> SUFFICES ASSUME NEW e \in Caller, pc'[e] \in Selecting \ {"use"}
               PROVE  /\ \A s \in known[e] \ DOMAIN setup.backup : stateFile'[s] \in peers[e]
                      /\ pc'[e] # "stores" =>
                           \A q \in peers[e] : ~Later(q, [iv |-> mem[e].iv, seq |-> limit[e]])
    BY <1>a DEF PeerInv
  <2>1. e # c /\ pc'[e] = pc[e]
    BY <1>a DEF IInv, TypeOK, Selecting, Working
  <2>2. \A s \in known[e] : stateFile'[s] = stateFile[s]
    BY <1>a, <1>d, <2>1 DEF IInv, TypeOK
  <2> QED
    BY <2>1, <2>2 DEF IInv, PeerInv
<1>8. FileInv'
  <2> SUFFICES ASSUME NEW s \in Path \ DOMAIN setup.backup
               PROVE  ~Later(setup.file[s], stateFile'[s])
    BY <1>a DEF FileInv
  <2>1. ~Later(setup.file[s], stateFile[s])
    BY DEF IInv, FileInv
  <2>2. CASE s # own
    BY <1>a, <2>1, <2>2 DEF IInv, TypeOK
  <2>3. CASE s = own
    <3>1. stateFile'[s] = new /\ ~Later(stateFile[s], new)
      BY <1>a, <1>c, <1>e, <2>3 DEF IInv, TypeOK
    <3>2. setup.file[s] \in State /\ stateFile[s] \in State
      BY SetupTyped DEF IInv, TypeOK
    <3> QED
      BY <1>c, <2>1, <3>1, <3>2 DEF Later, State, IvIndex, Sequence
  <2> QED
    BY <2>2, <2>3
<1>9. StoreInv'
  <2> SUFFICES ASSUME NEW a \in DOMAIN setup.caller, NEW b \in DOMAIN setup.caller,
                      ShareStore(setup, setup.caller[a], setup.caller[b])
               PROVE  SharesHome(a, b, setup.caller[a].option)'
    BY <1>a DEF StoreInv
  <2> DEFINE home == setup.caller[a].option
  <2>a. SharesHome(a, b, home)
    BY DEF IInv, StoreInv
  <2>b. counter[dir[c]] # None
    <3>1. limit[c] \in Sequence /\ known[c] \subseteq Path
      BY DEF IInv, TypeOK
    <3>2. [iv |-> mem[c].iv, next |-> limit[c], paths |-> known[c]] \in Counter
      BY <1>c, <3>1 DEF Counter, State
    <3> QED
      BY <1>a, <3>2, BoundAssumption DEF IInv, WriteInv, Working
  <2>c. \A s \in Path : stateFile'[s].dir \in {stateFile[s].dir, dir[c]}
    BY <1>a, <1>c DEF IInv, TypeOK, new
  <2>1. (\A d \in Dir \ {home} : counter[d] # None => KnownTo(a, b, counter[d].paths))'
    BY <1>a, <2>a DEF SharesHome, KnownTo
  <2>2. (\A s \in Path : Leads(home, pointer[s]) /\ Leads(home, stateFile[s].dir))'
    BY <1>a, <2>a, <2>b, <2>c DEF SharesHome, Leads
  <2>3. (\A e \in Caller : pc[e] # "idle" => Leads(home, mem[e].dir))'
    BY <1>a, <1>b, <2>a DEF IInv, TypeOK, SharesHome, Leads
  <2>4. (\A e \in Caller : pc[e] \in Selecting /\ dir[e] # home => KnownTo(a, b, known[e]))'
    BY <1>a, <1>b, <2>a DEF IInv, TypeOK, SharesHome, KnownTo
  <2> QED
    BY <1>a, <2>1, <2>2, <2>3, <2>4 DEF SharesHome
<1> QED
  BY <1>1, <1>2, <1>3, <1>4, <1>5, <1>6, <1>7, <1>8, <1>9 DEF IInv

(* Sending moves the cursor within the range; no file and no lock changes. *)
LEMMA TransmitKeeps ==
    ASSUME IInv, NEW c \in DOMAIN setup.caller, Transmit(c)
    PROVE  IInv'
<1> c \in Caller
  BY SetupTyped DEF IInv
<1>1. TypeOK'
  <2>1. mem[c] \in State /\ cursor[c] \in Sequence /\ limit[c] \in Sequence /\ cursor[c] < limit[c]
    BY DEF Transmit, IInv, TypeOK, CallerInv
  <2>2. cursor[c] + 1 \in Sequence /\ mem[c].iv \in IvIndex
    BY <2>1, BoundAssumption DEF Sequence, State
  <2> QED
    BY <2>1, <2>2 DEF Transmit, IInv, TypeOK, files
<1>2. CallerInv'
  BY DEF IInv, CallerInv, Transmit
<1>3. LockInv'
  BY SetupTyped, BoundAssumption
  DEF IInv, LockInv, PointerLocks, StoreLocks, Held, Transmit, Goto, files
<1>4. SelectionInv'
  BY DEF IInv, SelectionInv, TypeOK, Working, Transmit, Goto, files
<1>5. RangeInv'
  BY DEF IInv, RangeInv, TypeOK, CallerInv, Position, Working, Transmit, Goto, files
<1>6. WriteInv'
  BY DEF IInv, WriteInv, TypeOK, Transmit, Goto, files, Stage
<1>7. PeerInv'
  BY DEF IInv, PeerInv, TypeOK, Working, Transmit, Goto, files
<1>8. FileInv'
  BY DEF IInv, FileInv, CallerInv, Transmit, Goto, files
<1>9. StoreInv'
  BY SetupTyped, BoundAssumption
  DEF IInv, StoreInv, SharesHome, Leads, KnownTo, Transmit, Goto, files, Stage, Lock
<1> QED
  BY <1>1, <1>2, <1>3, <1>4, <1>5, <1>6, <1>7, <1>8, <1>9 DEF IInv

(* A caller that is done only has its locks to release. *)
LEMMA FinishKeeps ==
    ASSUME IInv, NEW c \in DOMAIN setup.caller, Finish(c)
    PROVE  IInv'
<1>1. TypeOK'
  BY DEF IInv, TypeOK, CallerInv, Finish, Goto, files, Stage
<1>2. CallerInv'
  BY DEF IInv, CallerInv, Finish, Goto
<1>3. LockInv'
  BY SetupTyped, BoundAssumption
  DEF IInv, LockInv, PointerLocks, StoreLocks, Held, Selecting, Working, Finish, Goto,
      files
<1>4. SelectionInv'
  BY DEF IInv, SelectionInv, TypeOK, CallerInv, Selecting, Working, Finish, Goto, files
<1>5. RangeInv'
  BY DEF IInv, RangeInv, TypeOK, CallerInv, Position, Working, Finish, Goto, files
<1>6. WriteInv'
  BY DEF IInv, WriteInv, TypeOK, CallerInv, Working, Finish, Goto, files, Stage
<1>7. PeerInv'
  BY DEF IInv, PeerInv, TypeOK, CallerInv, Selecting, Working, Finish, Goto, files
<1>8. FileInv'
  BY DEF IInv, FileInv, CallerInv, Finish, Goto, files
<1>9. StoreInv'
  BY SetupTyped, BoundAssumption
  DEF IInv, StoreInv, SharesHome, Leads, KnownTo, Selecting, Working, Finish, Goto,
      files
<1> QED
  BY <1>1, <1>2, <1>3, <1>4, <1>5, <1>6, <1>7, <1>8, <1>9 DEF IInv

(* A failed write leaves the files as they are, and the caller releases    *)
(* its locks.                                                              *)
LEMMA WriteFailsKeeps ==
    ASSUME IInv, NEW c \in DOMAIN setup.caller, WriteFails(c)
    PROVE  IInv'
<1>1. TypeOK'
  BY DEF IInv, TypeOK, CallerInv, WriteFails, Goto, files, Stage
<1>2. CallerInv'
  BY DEF IInv, CallerInv, WriteFails, Goto
<1>3. LockInv'
  BY SetupTyped, BoundAssumption
  DEF IInv, LockInv, PointerLocks, StoreLocks, Held, Selecting, Working, WriteFails,
      Goto, files
<1>4. SelectionInv'
  BY DEF IInv, SelectionInv, TypeOK, CallerInv, Selecting, Working, WriteFails, Goto,
      files
<1>5. RangeInv'
  BY DEF IInv, RangeInv, TypeOK, CallerInv, Position, Working, WriteFails, Goto, files
<1>6. WriteInv'
  BY DEF IInv, WriteInv, TypeOK, CallerInv, Working, WriteFails, Goto, files, Stage
<1>7. PeerInv'
  BY DEF IInv, PeerInv, TypeOK, CallerInv, Selecting, Working, WriteFails, Goto, files
<1>8. FileInv'
  BY DEF IInv, FileInv, CallerInv, WriteFails, Goto, files
<1>9. StoreInv'
  BY SetupTyped, BoundAssumption
  DEF IInv, StoreInv, SharesHome, Leads, KnownTo, Selecting, Working, WriteFails, Goto,
      files
<1> QED
  BY <1>1, <1>2, <1>3, <1>4, <1>5, <1>6, <1>7, <1>8, <1>9 DEF IInv

(* So does one that times out while it waits for a lock. *)
LEMMA GiveUpKeeps ==
    ASSUME IInv, NEW c \in DOMAIN setup.caller, GiveUp(c)
    PROVE  IInv'
<1>1. TypeOK'
  BY DEF IInv, TypeOK, CallerInv, GiveUp, Goto, files, Stage
<1>2. CallerInv'
  BY DEF IInv, CallerInv, GiveUp, Goto
<1>3. LockInv'
  BY SetupTyped
  DEF IInv, LockInv, TypeOK, GiveUp, Goto, files, PointerLocks, StoreLocks, Held,
      Selecting, Working
<1>4. SelectionInv'
  BY DEF IInv, SelectionInv, TypeOK, CallerInv, Selecting, Working, GiveUp, Goto, files
<1>5. RangeInv'
  BY DEF IInv, RangeInv, TypeOK, CallerInv, Position, Working, GiveUp, Goto, files
<1>6. WriteInv'
  BY DEF IInv, WriteInv, TypeOK, CallerInv, Working, GiveUp, Goto, files, Stage
<1>7. PeerInv'
  BY DEF IInv, PeerInv, TypeOK, CallerInv, Selecting, Working, GiveUp, Goto, files
<1>8. FileInv'
  BY DEF IInv, FileInv, CallerInv, GiveUp, Goto, files
<1>9. StoreInv'
  BY SetupTyped, BoundAssumption
  DEF IInv, StoreInv, SharesHome, Leads, KnownTo, Selecting, Working, GiveUp, Goto,
      files
<1> QED
  BY <1>1, <1>2, <1>3, <1>4, <1>5, <1>6, <1>7, <1>8, <1>9 DEF IInv

(* The finalizer gives the locks up when nothing rests on them any more,   *)
(* and may start over with more state files known.                         *)
LEMMA ReleaseKeeps ==
    ASSUME IInv, NEW c \in DOMAIN setup.caller, Release(c)
    PROVE  IInv'
<1> c \in Caller
  BY SetupTyped DEF IInv
<1>a. /\ pc[c] # "idle" /\ pc' = [pc EXCEPT ![c] = pc'[c]] /\ pc'[c] \in {"idle", "pointers"}
      /\ holder' = [l \in Lock |-> IF holder[l] = c THEN None ELSE holder[l]]
      /\ UNCHANGED <<setup, counter, pointer, stateFile, lastSent>>
  BY DEF IInv, TypeOK, Release, Goto, files
<1>b. pc'[c] \notin Selecting /\ pc'[c] \notin Working
  BY <1>a DEF Selecting, Working
<1>c. \A e \in Caller \ {c} :
        /\ pc'[e] = pc[e] /\ mem'[e] = mem[e] /\ known'[e] = known[e] /\ dir'[e] = dir[e]
        /\ priors'[e] = priors[e] /\ peers'[e] = peers[e] /\ cursor'[e] = cursor[e]
        /\ limit'[e] = limit[e]
  BY <1>a DEF IInv, TypeOK, Release, Reset
<1>d. \A e \in Caller \ {c} : Held(e)' = Held(e)
  BY <1>a, BoundAssumption DEF IInv, Held
<1>1. TypeOK'
  <2>1. holder' \in [Lock -> Caller \cup {None}]
    BY <1>a DEF IInv, TypeOK
  <2>2. pc' \in [Caller -> Stage]
    BY <1>a DEF IInv, TypeOK, Stage
  <2>3. /\ mem' \in [Caller -> State \cup {None}] /\ known' \in [Caller -> SUBSET Path]
        /\ dir' \in [Caller -> Dir \cup {None}] /\ priors' \in [Caller -> SUBSET Dir]
    BY DEF IInv, TypeOK, Release, Reset
  <2>4. 0 \in Sequence
    BY BoundAssumption DEF Sequence
  <2>5. /\ peers' \in [Caller -> SUBSET State] /\ cursor' \in [Caller -> Sequence]
        /\ limit' \in [Caller -> Sequence]
    BY <2>4 DEF IInv, TypeOK, Release, Reset
  <2> QED
    BY <1>a, <2>1, <2>2, <2>3, <2>5 DEF IInv, TypeOK
<1>2. CallerInv'
  BY DEF IInv, CallerInv, TypeOK, Release, Reset, Goto, files
<1>3. LockInv'
  BY <1>a, <1>b, <1>c, <1>d DEF IInv, LockInv, PointerLocks, StoreLocks
<1>4. SelectionInv'
  BY <1>a, <1>b, <1>c DEF IInv, SelectionInv
<1>5. RangeInv'
  BY <1>a, <1>b, <1>c DEF IInv, RangeInv, Position
<1>6. WriteInv'
  BY <1>a, <1>b, <1>c DEF IInv, WriteInv, Working
<1>7. PeerInv'
  BY <1>a, <1>b, <1>c DEF IInv, PeerInv
<1>8. FileInv'
  BY DEF IInv, FileInv, TypeOK, CallerInv, Release, files, Stage
<1>9. StoreInv'
  <2> SUFFICES ASSUME NEW a \in DOMAIN setup.caller, NEW b \in DOMAIN setup.caller,
                      ShareStore(setup, setup.caller[a], setup.caller[b])
               PROVE  SharesHome(a, b, setup.caller[a].option)'
    BY <1>a DEF StoreInv
  <2> DEFINE home == setup.caller[a].option
  <2>a. SharesHome(a, b, home)
    BY DEF IInv, StoreInv
  <2>1. (\A d \in Dir \ {home} : counter[d] # None => KnownTo(a, b, counter[d].paths))'
    BY <1>a, <2>a DEF SharesHome, KnownTo
  <2>2. (\A s \in Path : Leads(home, pointer[s]) /\ Leads(home, stateFile[s].dir))'
    BY <1>a, <2>a DEF SharesHome, Leads
  <2>3. (\A e \in Caller : pc[e] # "idle" => Leads(home, mem[e].dir))'
    <3>1. \A e \in Caller \ {c} : pc'[e] # "idle" => Leads(home, mem'[e].dir)
      BY <1>c, <2>a DEF SharesHome
    <3>2. pc'[c] # "idle" => mem'[c] = mem[c]
      BY DEF Release, IInv, TypeOK, Goto
    <3>3. pc'[c] # "idle" => Leads(home, mem'[c].dir)
      BY <1>a, <2>a, <3>2 DEF SharesHome
    <3> QED
      BY <1>a, <3>1, <3>3 DEF Leads
  <2>4. (\A e \in Caller : pc[e] \in Selecting /\ dir[e] # home => KnownTo(a, b, known[e]))'
    BY <1>a, <1>b, <1>c, <2>a DEF SharesHome, KnownTo
  <2> QED
    BY <1>a, <2>1, <2>2, <2>3, <2>4 DEF SharesHome
<1> QED
  BY <1>1, <1>2, <1>3, <1>4, <1>5, <1>6, <1>7, <1>8, <1>9 DEF IInv

(* The locks of a caller that dies are free, whatever prefix of the writes *)
(* it has left.                                                            *)
LEMMA CrashKeeps ==
    ASSUME IInv, NEW c \in DOMAIN setup.caller, Crash(c)
    PROVE  IInv'
<1> c \in Caller
  BY SetupTyped DEF IInv
<1>a. /\ pc[c] # "idle" /\ pc' = [pc EXCEPT ![c] = pc'[c]] /\ pc'[c] = "idle"
      /\ holder' = [l \in Lock |-> IF holder[l] = c THEN None ELSE holder[l]]
      /\ UNCHANGED <<setup, counter, pointer, stateFile, lastSent>>
  BY DEF IInv, TypeOK, Crash, Goto, files
<1>b. pc'[c] \notin Selecting /\ pc'[c] \notin Working
  BY <1>a DEF Selecting, Working
<1>c. \A e \in Caller \ {c} :
        /\ pc'[e] = pc[e] /\ mem'[e] = mem[e] /\ known'[e] = known[e] /\ dir'[e] = dir[e]
        /\ priors'[e] = priors[e] /\ peers'[e] = peers[e] /\ cursor'[e] = cursor[e]
        /\ limit'[e] = limit[e]
  BY <1>a DEF IInv, TypeOK, Crash, Reset
<1>d. \A e \in Caller \ {c} : Held(e)' = Held(e)
  BY <1>a, BoundAssumption DEF IInv, Held
<1>1. TypeOK'
  <2>1. holder' \in [Lock -> Caller \cup {None}]
    BY <1>a DEF IInv, TypeOK
  <2>2. pc' \in [Caller -> Stage]
    BY <1>a DEF IInv, TypeOK, Stage
  <2>3. /\ mem' \in [Caller -> State \cup {None}] /\ known' \in [Caller -> SUBSET Path]
        /\ dir' \in [Caller -> Dir \cup {None}] /\ priors' \in [Caller -> SUBSET Dir]
    BY DEF IInv, TypeOK, Crash, Reset
  <2>4. 0 \in Sequence
    BY BoundAssumption DEF Sequence
  <2>5. /\ peers' \in [Caller -> SUBSET State] /\ cursor' \in [Caller -> Sequence]
        /\ limit' \in [Caller -> Sequence]
    BY <2>4 DEF IInv, TypeOK, Crash, Reset
  <2> QED
    BY <1>a, <2>1, <2>2, <2>3, <2>5 DEF IInv, TypeOK
<1>2. CallerInv'
  BY DEF IInv, CallerInv, TypeOK, Crash, Reset, Goto, files
<1>3. LockInv'
  BY <1>a, <1>b, <1>c, <1>d DEF IInv, LockInv, PointerLocks, StoreLocks
<1>4. SelectionInv'
  BY <1>a, <1>b, <1>c DEF IInv, SelectionInv
<1>5. RangeInv'
  BY <1>a, <1>b, <1>c DEF IInv, RangeInv, Position
<1>6. WriteInv'
  BY <1>a, <1>b, <1>c DEF IInv, WriteInv, Working
<1>7. PeerInv'
  BY <1>a, <1>b, <1>c DEF IInv, PeerInv
<1>8. FileInv'
  BY DEF IInv, FileInv, TypeOK, CallerInv, Crash, files, Stage
<1>9. StoreInv'
  <2> SUFFICES ASSUME NEW a \in DOMAIN setup.caller, NEW b \in DOMAIN setup.caller,
                      ShareStore(setup, setup.caller[a], setup.caller[b])
               PROVE  SharesHome(a, b, setup.caller[a].option)'
    BY <1>a DEF StoreInv
  <2> DEFINE home == setup.caller[a].option
  <2>a. SharesHome(a, b, home)
    BY DEF IInv, StoreInv
  <2>1. (\A d \in Dir \ {home} : counter[d] # None => KnownTo(a, b, counter[d].paths))'
    BY <1>a, <2>a DEF SharesHome, KnownTo
  <2>2. (\A s \in Path : Leads(home, pointer[s]) /\ Leads(home, stateFile[s].dir))'
    BY <1>a, <2>a DEF SharesHome, Leads
  <2>3. (\A e \in Caller : pc[e] # "idle" => Leads(home, mem[e].dir))'
    BY <1>a, <1>c, <2>a DEF SharesHome, Leads
  <2>4. (\A e \in Caller : pc[e] \in Selecting /\ dir[e] # home => KnownTo(a, b, known[e]))'
    BY <1>a, <1>b, <1>c, <2>a DEF SharesHome, KnownTo
  <2> QED
    BY <1>a, <2>1, <2>2, <2>3, <2>4 DEF SharesHome
<1> QED
  BY <1>1, <1>2, <1>3, <1>4, <1>5, <1>6, <1>7, <1>8, <1>9 DEF IInv

(* A restored state file is not one of those that FileInv and PeerInv rely *)
(* on, and leads to no store that was not led to before.                   *)
LEMMA RestoreKeeps ==
    ASSUME IInv, NEW s \in Path, Restore(s)
    PROVE  IInv'
<1>a. /\ s \in DOMAIN setup.backup
      /\ stateFile' = [stateFile EXCEPT ![s] = setup.backup[s]]
      /\ UNCHANGED <<setup, counter, pointer, holder, pc, mem, known, dir, priors, peers,
                     cursor, limit, lastSent>>
  BY DEF Restore
<1>1. TypeOK'
  BY SetupTyped DEF IInv, TypeOK, CallerInv, Restore
<1>2. CallerInv'
  BY DEF IInv, CallerInv, Restore
<1>3. LockInv'
  BY SetupTyped, BoundAssumption
  DEF IInv, LockInv, PointerLocks, StoreLocks, Held, Restore, Goto, files
<1>4. SelectionInv'
  BY DEF IInv, SelectionInv, Working, Restore
<1>5. RangeInv'
  BY DEF IInv, RangeInv, CallerInv, Position, Working, Restore
<1>6. WriteInv'
  BY DEF IInv, WriteInv, Restore, Goto
<1>7. PeerInv'
  BY DEF IInv, PeerInv, Working, Restore
<1>8. FileInv'
  BY DEF IInv, FileInv, CallerInv, Restore
<1>9. StoreInv'
  <2> SUFFICES ASSUME NEW a \in DOMAIN setup.caller, NEW b \in DOMAIN setup.caller,
                      ShareStore(setup, setup.caller[a], setup.caller[b])
               PROVE  SharesHome(a, b, setup.caller[a].option)'
    BY <1>a DEF StoreInv
  <2> DEFINE home == setup.caller[a].option
  <2>a. SharesHome(a, b, home)
    BY DEF IInv, StoreInv
  <2>1. (\A d \in Dir \ {home} : counter[d] # None => KnownTo(a, b, counter[d].paths))'
    BY <1>a, <2>a DEF SharesHome, KnownTo
  <2>2. (\A p \in Path : Leads(home, pointer[p]) /\ Leads(home, stateFile[p].dir))'
    BY <1>a, <2>a DEF IInv, SharesHome, Leads, ShareStore
  <2>3. (\A e \in Caller : pc[e] # "idle" => Leads(home, mem[e].dir))'
    BY <1>a, <2>a DEF SharesHome, Leads
  <2>4. (\A e \in Caller : pc[e] \in Selecting /\ dir[e] # home => KnownTo(a, b, known[e]))'
    BY <1>a, <2>a DEF SharesHome, KnownTo
  <2> QED
    BY <1>a, <2>1, <2>2, <2>3, <2>4 DEF SharesHome
<1> QED
  BY <1>1, <1>2, <1>3, <1>4, <1>5, <1>6, <1>7, <1>8, <1>9 DEF IInv

-----------------------------------------------------------------------------
(* The last message of any light files is a place in the message order. *)
LEMMA LastOfType ==
    ASSUME NEW file \in [Path -> State]
    PROVE  LastOf(file) \in [iv : IvIndex, seq : Sequence \cup {-1}]
<1> DEFINE used == {[iv |-> file[s].iv, seq |-> file[s].seq - 1] :
                       s \in {p \in Path : file[p].seq > 0}}
           none == [iv |-> Min(IvIndex), seq |-> -1]
<1>1. used \subseteq [iv : IvIndex, seq : Sequence]
  BY BoundAssumption DEF State, Sequence
<1>2. none \in [iv : IvIndex, seq : Sequence \cup {-1}]
  <2>1. IvIndex \subseteq Nat /\ IvIndex # {}
    BY BoundAssumption DEF IvIndex
  <2> QED
    BY <2>1, MinFacts
<1>3. LastOf(file) = CHOOSE m \in used \cup {none} : \A o \in used : ~Later(o, m)
  BY DEF LastOf
<1> HIDE DEF used, none
<1>4. \E m \in used \cup {none} : \A o \in used : ~Later(o, m)
  <2>1. CASE used = {}
    BY <2>1
  <2>2. CASE used # {}
    <3> DEFINE ivs == {u.iv : u \in used}
    <3>1. ivs \subseteq 0..MaxIvIndex /\ ivs # {} /\ MaxIvIndex \in Nat
      BY <1>1, <2>2, BoundAssumption DEF IvIndex
    <3>2. Max(ivs) \in ivs /\ \A y \in ivs : y =< Max(ivs)
      <4> HIDE DEF ivs
      <4> QED
        BY <3>1, MaxFacts
    <3> DEFINE seqs == {u.seq : u \in {v \in used : v.iv = Max(ivs)}}
    <3>3. seqs \subseteq 0..(MaxSequence + 1) /\ seqs # {} /\ MaxSequence + 1 \in Nat
      <4>1. \A u \in used : u.seq \in 0..(MaxSequence + 1)
        BY <1>1 DEF Sequence
      <4>2. \E u \in used : u.iv = Max(ivs)
        BY <3>2
      <4>3. seqs # {}
        BY <4>2
      <4>4. \A y \in seqs : y \in 0..(MaxSequence + 1)
        BY <4>1
      <4> HIDE DEF seqs
      <4> QED
        BY <4>3, <4>4, BoundAssumption
    <3>4. Max(seqs) \in seqs /\ \A y \in seqs : y =< Max(seqs)
      <4> HIDE DEF seqs
      <4> QED
        BY <3>3, MaxFacts
    <3>5. PICK m \in used : m.iv = Max(ivs) /\ m.seq = Max(seqs)
      BY <3>4
    <3>6. ASSUME NEW o \in used PROVE ~Later(o, m)
      <4>1. o.iv =< m.iv
        BY <3>2, <3>5
      <4>2. o.iv = m.iv => o.seq =< m.seq
        BY <3>4, <3>5
      <4>3. o.iv \in Nat /\ m.iv \in Nat /\ o.seq \in Nat /\ m.seq \in Nat
        BY <1>1 DEF IvIndex, Sequence
      <4> QED
        BY <4>1, <4>2, <4>3 DEF Later
    <3> QED
      BY <3>6
  <2> QED
    BY <2>1, <2>2
<1>5. LastOf(file) \in used \cup {none}
  BY <1>3, <1>4
<1> QED
  BY <1>1, <1>2, <1>5

(* At the start there is no counter, no pointer, no lock and no call. *)
LEMMA InitInv == Init => IInv
<1> SUFFICES ASSUME Init PROVE IInv
  OBVIOUS
<1>1. TypeOK
  <2>1. setup.file \in [Path -> State]
    BY SetupAssumption DEF Init, IsSetup
  <2>2. lastSent \in [iv : IvIndex, seq : Sequence \cup {-1}]
    BY <2>1, LastOfType DEF Init
  <2>3. 0 \in Sequence
    BY BoundAssumption DEF Sequence
  <2> QED
    BY <2>1, <2>2, <2>3 DEF Init, TypeOK, Stage
<1>2. \A c \in Caller : pc[c] = "idle" /\ pc[c] \notin Selecting /\ pc[c] \notin Working
  BY DEF Init, Selecting, Working
<1>3. CallerInv /\ LockInv /\ SelectionInv /\ RangeInv /\ WriteInv /\ PeerInv
  BY <1>2 DEF CallerInv, LockInv, SelectionInv, RangeInv, WriteInv, PeerInv
<1>4. FileInv
  <2>1. \A s \in Path : setup.file[s] \in State
    BY <1>1, SetupTyped
  <2>2. \A s \in Path : ~Later(setup.file[s], setup.file[s])
    BY <2>1 DEF Later, State, IvIndex, Sequence
  <2> QED
    BY <2>2 DEF Init, FileInv
<1>5. StoreInv
  <2> SUFFICES ASSUME NEW a \in DOMAIN setup.caller, NEW b \in DOMAIN setup.caller,
                      ShareStore(setup, setup.caller[a], setup.caller[b])
               PROVE  SharesHome(a, b, setup.caller[a].option)
    BY DEF StoreInv
  <2> QED
    BY <1>2 DEF Init, SharesHome, Leads, ShareStore
<1> QED
  BY <1>1, <1>3, <1>4, <1>5 DEF IInv

(* Every step keeps the invariant. *)
LEMMA NextInv == IInv /\ [Next]_vars => IInv'
<1> SUFFICES ASSUME IInv, [Next]_vars PROVE IInv'
  OBVIOUS
<1>1. CASE \E c \in DOMAIN setup.caller : Begin(c)
  BY <1>1, BeginKeeps
<1>2. CASE \E c \in DOMAIN setup.caller : TakePointerLock(c)
  BY <1>2, TakePointerLockKeeps
<1>3. CASE \E c \in DOMAIN setup.caller : SelectStore(c)
  BY <1>3, SelectStoreKeeps
<1>4. CASE \E c \in DOMAIN setup.caller : TakeStoreLock(c)
  BY <1>4, TakeStoreLockKeeps
<1>5. CASE \E c \in DOMAIN setup.caller : Allocate(c)
  BY <1>5, AllocateKeeps
<1>6. CASE \E c \in DOMAIN setup.caller : WriteCounter(c)
  BY <1>6, WriteCounterKeeps
<1>7. CASE \E c \in DOMAIN setup.caller : WritePointer(c)
  BY <1>7, WritePointerKeeps
<1>8. CASE \E c \in DOMAIN setup.caller : SaveState(c)
  BY <1>8, SaveStateKeeps
<1>9. CASE \E c \in DOMAIN setup.caller : Finish(c)
  BY <1>9, FinishKeeps
<1>10. CASE \E c \in DOMAIN setup.caller : Release(c)
  BY <1>10, ReleaseKeeps
<1>11. CASE \E c \in DOMAIN setup.caller : Transmit(c)
  BY <1>11, TransmitKeeps
<1>12. CASE \E c \in DOMAIN setup.caller : WriteFails(c)
  BY <1>12, WriteFailsKeeps
<1>13. CASE \E c \in DOMAIN setup.caller : GiveUp(c)
  BY <1>13, GiveUpKeeps
<1>14. CASE \E c \in DOMAIN setup.caller : Crash(c)
  BY <1>14, CrashKeeps
<1>15. CASE \E s \in Path : Restore(s)
  BY <1>15, RestoreKeeps
<1>16. CASE UNCHANGED vars
  <2>1. /\ TypeOK' /\ CallerInv' /\ LockInv' /\ SelectionInv' /\ RangeInv' /\ WriteInv'
        /\ PeerInv' /\ FileInv'
    BY <1>16
    DEF IInv, TypeOK, CallerInv, LockInv, PointerLocks, StoreLocks, Held, SelectionInv,
        RangeInv, Position, WriteInv, PeerInv, FileInv, vars, files
  <2>2. StoreInv'
    BY <1>16 DEF IInv, StoreInv, SharesHome, Leads, KnownTo, vars, files
  <2> QED
    BY <2>1, <2>2 DEF IInv
<1> QED
  BY <1>1, <1>2, <1>3, <1>4, <1>5, <1>6, <1>7, <1>8, <1>9, <1>10, <1>11, <1>12, <1>13,
     <1>14, <1>15, <1>16
  DEF Next, Step

(* The invariant holds in every reachable state. *)
THEOREM Inductive == Spec => []IInv
BY InitInv, NextInv, PTL DEF Spec

(* The variables keep to their types: no reservation runs over the last    *)
(* sequence number and no write goes to a store that was not selected.     *)
THEOREM TypeCorrect == Spec => []TypeOK
<1>1. IInv => TypeOK
  BY DEF IInv
<1> QED
  BY <1>1, Inductive, PTL

-----------------------------------------------------------------------------
(* What a step may do to the setup, the stores, the pointers and the mesh. *)
LEMMA StepFacts ==
    ASSUME Next
    PROVE  /\ setup' = setup
           /\ counter' = counter \/ \E c \in DOMAIN setup.caller : WriteCounter(c)
           /\ pointer' = pointer \/ \E c \in DOMAIN setup.caller : WritePointer(c)
           /\ lastSent' = lastSent \/ \E c \in DOMAIN setup.caller : Transmit(c)
BY DEF Next, Step, Begin, TakePointerLock, Take, SelectStore, TakeStoreLock, Allocate,
    WriteCounter, WritePointer, SaveState, Finish, Release, Transmit, WriteFails,
    GiveUp, Crash, Restore, files

(* No step takes a counter back. *)
LEMMA CountersGrow ==
    ASSUME IInv, Next, NEW d \in Dir, counter[d] # None
    PROVE  counter'[d] # None /\ ~Later(Position(d), Position(d)')
<1>1. counter[d] \in Counter
  BY DEF IInv, TypeOK
<1>2. CASE counter'[d] = counter[d]
  BY <1>1, <1>2 DEF Position, Later, Counter, IvIndex, Sequence
<1>3. CASE counter'[d] # counter[d]
  <2>1. PICK c \in DOMAIN setup.caller : WriteCounter(c)
    BY <1>3, StepFacts
  <2>2. c \in Caller
    BY SetupTyped DEF IInv
  <2>3. pc[c] \in Working /\ pc[c] \in Selecting /\ pc[c] # "idle"
    BY <2>1 DEF WriteCounter, Working, Selecting
  <2>4. mem[c] \in State /\ limit[c] \in Sequence /\ known[c] \subseteq Path /\ dir[c] \in priors[c]
    BY <2>2, <2>3 DEF IInv, TypeOK, CallerInv, SelectionInv
  <2> DEFINE new == [iv |-> mem[c].iv, next |-> limit[c], paths |-> known[c]]
  <2>5. new \in Counter
    BY <2>4 DEF Counter, State
  <2>6. d = dir[c] /\ counter'[d] = new
    BY <1>3, <2>1, <2>5 DEF WriteCounter, IInv, TypeOK
  <2>7. ~Later(Position(d), [iv |-> mem[c].iv, seq |-> limit[c]])
    BY <2>2, <2>3, <2>4, <2>6 DEF IInv, RangeInv
  <2>8. Position(d)' = [iv |-> mem[c].iv, seq |-> limit[c]]
    BY <2>6 DEF Position
  <2> QED
    BY <2>5, <2>6, <2>7, <2>8, BoundAssumption
<1> QED
  BY <1>2, <1>3

(* No store is ever rolled back, whatever the setup: the one write to a    *)
(* counter comes from a caller that has read it under its lock and keeps   *)
(* that lock until the write is done.                                      *)
THEOREM NoRollback == Spec => StoreNeverRollsBack
<1>1. IInv /\ [Next]_vars =>
        [\A d \in Dir : counter[d] # None =>
            /\ counter'[d] # None
            /\ ~Later([iv |-> counter[d].iv, seq |-> counter[d].next],
                      [iv |-> counter'[d].iv, seq |-> counter'[d].next])]_vars
  BY CountersGrow DEF Position
<1> QED
  BY <1>1, Inductive, PTL DEF Spec, StoreNeverRollsBack

-----------------------------------------------------------------------------
(* In a linked setup one caller at a time has a range or writes one.       *)
LEMMA OneAtATime ==
    ASSUME IInv, Linked(setup), NEW c \in Caller, NEW e \in Caller,
           pc[c] \in Working, pc[e] \in Working
    PROVE  c = e
<1> SUFFICES ASSUME c # e PROVE FALSE
  OBVIOUS
<1>1. /\ pc[c] \in Selecting /\ pc[e] \in Selecting
      /\ pc[c] # "idle" /\ pc[e] # "idle"
  BY DEF Selecting, Working
<1>2. /\ c \in DOMAIN setup.caller /\ setup.caller[c].legacy \subseteq known[c]
      /\ e \in DOMAIN setup.caller /\ setup.caller[e].legacy \subseteq known[e]
  BY <1>1 DEF IInv, CallerInv
<1>3. known[c] \cap known[e] = {} /\ priors[c] \cap priors[e] = {}
  BY <1>1, Excluded DEF IInv
<1>4. dir[c] # dir[e]
  BY <1>1, <1>3 DEF IInv, SelectionInv
<1>5. CASE Meet(setup.caller[c], setup.caller[e])
  BY <1>2, <1>3, <1>5 DEF Meet
<1>6. CASE ShareStore(setup, setup.caller[c], setup.caller[e])
  <2>1. SharesHome(c, e, setup.caller[c].option)
    BY <1>2, <1>6 DEF IInv, StoreInv
  <2>2. KnownTo(c, e, known[c]) \/ KnownTo(c, e, known[e])
    BY <1>1, <1>4, <2>1 DEF SharesHome
  <2> QED
    BY <1>2, <1>3, <2>2 DEF KnownTo
<1> QED
  BY <1>2, <1>5, <1>6 DEF Linked

(* At most one caller sends at a time, for any number of callers, if every *)
(* two of them share a state file or, explicitly, a store.                 *)
THEOREM Exclusive ==
    ASSUME \A s \in Setups : Linked(s)
    PROVE  Spec => []SingleSender
<1>1. IInv => SingleSender
  <2> SUFFICES ASSUME IInv, NEW c \in Caller, NEW e \in Caller, pc[c] = "use", pc[e] = "use"
               PROVE  c = e
    BY DEF SingleSender
  <2>1. Linked(setup)
    BY DEF IInv, TypeOK
  <2> QED
    BY <2>1, OneAtATime DEF Working
<1> QED
  BY <1>1, Inductive, PTL

-----------------------------------------------------------------------------
(* What the last message is known by stays known until the next one.       *)
LEMMA PastStays ==
    ASSUME IInv, Next, lastSent' = lastSent, NEW d \in Dir, Past(d)
    PROVE  Past(d)'
<1>1. counter'[d] # None /\ ~Later(Position(d), Position(d)')
  BY CountersGrow DEF Past
<1>2. counter[d] \in Counter /\ counter'[d] \in Counter
  <2>1. IInv'
    BY NextInv
  <2> QED
    BY <1>1, <2>1 DEF IInv, TypeOK, Past
<1>3. /\ lastSent.iv \in Int /\ lastSent.seq \in Int
      /\ Position(d).iv \in Int /\ Position(d).seq \in Int
      /\ Position(d)'.iv \in Int /\ Position(d)'.seq \in Int
  BY <1>2 DEF IInv, TypeOK, Position, Counter, IvIndex, Sequence
<1>4. Later(Position(d)', lastSent)
  BY <1>1, <1>3, LaterFacts DEF Past
<1> QED
  BY <1>1, <1>4 DEF Past

(* A state file whose pointer leads past the last message keeps such a     *)
(* pointer: it is only ever moved to a store whose counter is past it too. *)
LEMMA CoveredStays ==
    ASSUME IInv, Next, lastSent' = lastSent, NEW s \in Path, Covered(s)
    PROVE  Covered(s)'
<1>1. pointer[s] \in Dir /\ Past(pointer[s])
  BY DEF IInv, TypeOK, Covered
<1>2. CASE pointer'[s] = pointer[s]
  <2>1. Past(pointer[s])'
    BY <1>1, <1>2, PastStays
  <2> QED
    BY <1>1, <1>2, <2>1, BoundAssumption DEF Covered
<1>3. CASE pointer'[s] # pointer[s]
  <2>1. PICK c \in DOMAIN setup.caller : WritePointer(c)
    BY <1>3, StepFacts
  <2>2. c \in Caller
    BY SetupTyped DEF IInv
  <2>3. pc[c] = "pointing" /\ counter' = counter
    BY <2>1 DEF WritePointer
  <2>4. s \in known[c] /\ pointer'[s] = dir[c]
    BY <1>3, <2>1, <2>2, PointerWritten DEF IInv, TypeOK
  <2>5. dir[c] \in priors[c] /\ pointer[s] \in priors[c] /\ dir[c] \in Dir
    BY <1>1, <2>2, <2>3, <2>4, BoundAssumption
    DEF IInv, TypeOK, SelectionInv, Selecting, Working
  <2>6. mem[c] \in State /\ limit[c] \in Sequence /\ known[c] \subseteq Path
    BY <2>2, <2>3 DEF IInv, TypeOK, CallerInv
  <2> DEFINE range == [iv |-> mem[c].iv, seq |-> limit[c]]
  <2>7. counter[dir[c]] = [iv |-> mem[c].iv, next |-> limit[c], paths |-> known[c]]
    BY <2>2, <2>3 DEF IInv, WriteInv, Working
  <2>8. counter[dir[c]] \in Counter /\ Position(dir[c]) = range
    BY <2>6, <2>7 DEF Counter, State, Position
  <2>9. ~Later(Position(pointer[s]), range) /\ counter[pointer[s]] \in Counter
    BY <1>1, <2>2, <2>3, <2>5 DEF IInv, TypeOK, RangeInv, Working, Past
  <2>10. Later(range, lastSent)
    <3>1. Later(Position(pointer[s]), lastSent)
      BY <1>1 DEF Past
    <3>2. /\ lastSent.iv \in Int /\ lastSent.seq \in Int /\ range.iv \in Int /\ range.seq \in Int
          /\ Position(pointer[s]).iv \in Int /\ Position(pointer[s]).seq \in Int
      BY <2>6, <2>9 DEF IInv, TypeOK, Position, Counter, State, IvIndex, Sequence
    <3> HIDE DEF range
    <3> QED
      BY <2>9, <3>1, <3>2, LaterFacts
  <2>11. Past(dir[c])
    BY <2>8, <2>10, BoundAssumption DEF Past
  <2>12. PICK d \in Dir : d = dir[c]
    BY <2>5
  <2>13. Past(d)'
    BY <2>11, <2>12, PastStays
  <2> QED
    BY <2>4, <2>12, <2>13, BoundAssumption DEF Covered
<1> QED
  BY <1>2, <1>3

(* A caller that allocates has read, under its locks, of a number past the *)
(* last message: that its range is ahead is a fact about one step.         *)
LEMMA AllocationAhead ==
    ASSUME IInv, Linked(setup), KnowsLast(setup), InformedInv,
           NEW c \in DOMAIN setup.caller, Allocate(c), pc'[c] = "counter"
    PROVE  Later([iv |-> mem[c].iv, seq |-> cursor'[c]], lastSent)
<1> c \in Caller
  BY SetupTyped DEF IInv
<1> DEFINE first == [iv |-> mem[c].iv, seq |-> cursor'[c]]
<1>1. Allocation(c)
  BY AllocateFacts DEF IInv
<1>2. pc[c] \in Selecting /\ pc[c] # "idle" /\ pc[c] = "stores"
  BY <1>1 DEF Allocation, Selecting
<1>3. /\ mem[c] \in State /\ setup.caller[c].legacy \subseteq known[c] /\ cursor'[c] \in Sequence
      /\ known[c] \subseteq Path
  BY <1>1, <1>2 DEF IInv, TypeOK, CallerInv, Allocation
<1>4. /\ first.iv \in Int /\ first.seq \in Int /\ first.seq >= 0 /\ first.iv >= 0
      /\ lastSent.iv \in Int /\ lastSent.seq \in Int
  BY <1>3 DEF IInv, TypeOK, State, IvIndex, Sequence
<1>5. ASSUME NEW d \in priors[c], Past(d)
      PROVE  Later(first, lastSent)
  <2>1. ~Later(Position(d), first) /\ Later(Position(d), lastSent)
    BY <1>1, <1>5 DEF Allocation, Past
  <2>2. counter[d] \in Counter
    BY <1>5 DEF IInv, TypeOK, Past
  <2>3. Position(d).iv \in Int /\ Position(d).seq \in Int
    BY <2>2 DEF Position, Counter, IvIndex, Sequence
  <2> HIDE DEF first
  <2> QED
    BY <1>4, <2>1, <2>3, LaterFacts
<1>6. ASSUME NEW s \in known[c], Covered(s)
      PROVE  Later(first, lastSent)
  <2>1. pointer[s] \in priors[c] /\ Past(pointer[s])
    BY <1>2, <1>6 DEF IInv, SelectionInv, Covered
  <2> QED
    BY <1>5, <2>1
<1>7. CASE \E s \in setup.caller[c].legacy : Covered(s)
  BY <1>3, <1>6, <1>7
<1>8. CASE \E e \in DOMAIN setup.caller :
              /\ ShareStore(setup, setup.caller[e], setup.caller[c])
              /\ \A s \in setup.caller[e].legacy : Covered(s)
              /\ Past(setup.caller[c].option)
  <2>1. PICK e \in DOMAIN setup.caller :
              /\ ShareStore(setup, setup.caller[e], setup.caller[c])
              /\ \A s \in setup.caller[e].legacy : Covered(s)
              /\ Past(setup.caller[c].option)
    BY <1>8
  <2>2. setup.caller[e].option = setup.caller[c].option
    BY <2>1 DEF ShareStore
  <2>3. CASE dir[c] = setup.caller[c].option
    BY <1>2, <1>5, <2>1, <2>3 DEF IInv, SelectionInv
  <2>4. CASE dir[c] # setup.caller[c].option
    <3>1. KnownTo(e, c, known[c])
      BY <1>2, <2>1, <2>2, <2>4 DEF IInv, StoreInv, SharesHome
    <3>2. PICK s \in known[c] : s \in setup.caller[e].legacy
      BY <3>1 DEF KnownTo
    <3> QED
      BY <1>6, <2>1, <3>2
  <2> QED
    BY <2>3, <2>4
<1>9. CASE lastSent = LastOf(setup.file)
  <2>1. CASE \A p \in Path : setup.file[p].seq = 0
    <3>1. {p \in Path : setup.file[p].seq > 0} = {}
      BY <2>1
    <3>2. LastOf(setup.file) = [iv |-> Min(IvIndex), seq |-> -1]
      BY <3>1 DEF LastOf
    <3>3. \A i \in IvIndex : Min(IvIndex) =< i
      <4>1. IvIndex \subseteq Nat /\ IvIndex # {}
        BY BoundAssumption DEF IvIndex
      <4> QED
        BY <4>1, MinFacts
    <3>4. mem[c].iv \in IvIndex
      BY <1>3 DEF State
    <3> QED
      BY <1>4, <1>9, <3>2, <3>3, <3>4 DEF Later
  <2>2. CASE \E p \in setup.caller[c].legacy \ DOMAIN setup.backup :
               Later(setup.file[p], LastOf(setup.file))
    <3>1. PICK p \in setup.caller[c].legacy \ DOMAIN setup.backup :
               Later(setup.file[p], lastSent)
      BY <1>9, <2>2
    <3>2. p \in known[c] /\ p \in Path
      BY <1>3, <3>1
    <3>3. stateFile[p] \in peers[c] /\ ~Later(setup.file[p], stateFile[p])
      BY <1>2, <3>1, <3>2 DEF IInv, PeerInv, FileInv
    <3>4. ~Later(stateFile[p], first)
      BY <1>1, <3>3 DEF Allocation
    <3>5. setup.file[p] \in State /\ stateFile[p] \in State
      BY <3>2, SetupTyped DEF IInv, TypeOK
    <3>6. /\ setup.file[p].iv \in Int /\ setup.file[p].seq \in Int
          /\ stateFile[p].iv \in Int /\ stateFile[p].seq \in Int
      BY <3>5 DEF State, IvIndex, Sequence
    <3> HIDE DEF first
    <3>7. ~Later(setup.file[p], first)
      BY <1>4, <3>3, <3>4, <3>6, LaterFacts
    <3>8. Later(first, lastSent)
      BY <1>4, <3>1, <3>6, <3>7, LaterFacts
    <3> QED
      BY <3>8 DEF first
  <2> QED
    BY <2>1, <2>2 DEF KnowsLast
<1> QED
  BY <1>7, <1>8, <1>9 DEF InformedInv, Informed

(* A message is past the last one, and the pointers of everything its      *)
(* sender knows lead to a counter past it.                                 *)
LEMMA SentFacts ==
    ASSUME IInv, AheadInv, NEW c \in DOMAIN setup.caller, Transmit(c)
    PROVE  /\ Later(lastSent', lastSent)
           /\ Later([iv |-> mem[c].iv, seq |-> cursor'[c]], lastSent')
           /\ Past(dir[c])'
           /\ \A s \in known[c] : Covered(s)'
<1> c \in Caller
  BY SetupTyped DEF IInv
<1>1. /\ pc[c] = "use" /\ cursor[c] < limit[c] /\ cursor'[c] = cursor[c] + 1
      /\ lastSent' = [iv |-> mem[c].iv, seq |-> cursor[c]]
      /\ UNCHANGED <<counter, pointer, mem, known, dir, limit>>
  BY DEF Transmit, IInv, TypeOK, files
<1>2. /\ mem[c] \in State /\ cursor[c] \in Sequence /\ limit[c] \in Sequence
      /\ known[c] \subseteq Path /\ dir[c] \in Dir
  BY <1>1 DEF IInv, TypeOK, CallerInv, SelectionInv, Selecting, Working
<1>3. mem[c].iv \in Int /\ cursor[c] \in Int /\ limit[c] \in Int
  BY <1>2 DEF State, IvIndex, Sequence
<1>4. Later(lastSent', lastSent)
  BY <1>1 DEF AheadInv, Working
<1>5. Later([iv |-> mem[c].iv, seq |-> cursor'[c]], lastSent')
  BY <1>1, <1>3 DEF Later
<1>6. counter[dir[c]] = [iv |-> mem[c].iv, next |-> limit[c], paths |-> known[c]]
  BY <1>1 DEF IInv, WriteInv, Working
<1>7. counter[dir[c]] \in Counter
  BY <1>2, <1>6 DEF Counter, State
<1>8. Past(dir[c])'
  BY <1>1, <1>3, <1>6, <1>7, BoundAssumption DEF Past, Position, Later
<1>9. \A s \in known[c] : pointer'[s] = dir[c]
  BY <1>1 DEF IInv, WriteInv
<1>10. \A s \in known[c] : Covered(s)'
  BY <1>1, <1>2, <1>8, <1>9, BoundAssumption DEF Covered
<1> QED
  BY <1>4, <1>5, <1>8, <1>10

(* Whoever would have read of the last message still will: a message is    *)
(* sent after all pointers of its sender lead to a counter past it, and    *)
(* every other caller shares one of them or its store.                     *)
LEMMA InformedStep ==
    ASSUME IInv, Linked(setup), InformedInv, AheadInv, Next
    PROVE  InformedInv'
<1>1. setup' = setup
  BY StepFacts
<1> SUFFICES ASSUME NEW e \in DOMAIN setup.caller PROVE Informed(e)'
  BY <1>1 DEF InformedInv
<1>2. Informed(e)
  BY DEF InformedInv
<1>3. \A c \in DOMAIN setup.caller : setup.caller[c].legacy \subseteq Path
  BY SetupTyped DEF IInv
<1>4. CASE lastSent' = lastSent
  <2>1. CASE \E s \in setup.caller[e].legacy : Covered(s)
    BY <1>1, <1>3, <1>4, <2>1, CoveredStays DEF Informed
  <2>2. CASE \E c \in DOMAIN setup.caller :
               /\ ShareStore(setup, setup.caller[c], setup.caller[e])
               /\ \A s \in setup.caller[c].legacy : Covered(s)
               /\ Past(setup.caller[e].option)
    <3>1. PICK c \in DOMAIN setup.caller :
               /\ ShareStore(setup, setup.caller[c], setup.caller[e])
               /\ \A s \in setup.caller[c].legacy : Covered(s)
               /\ Past(setup.caller[e].option)
      BY <2>2
    <3>2. setup.caller[e].option \in Dir
      BY <3>1, SetupTyped DEF IInv, ShareStore
    <3>3. Past(setup.caller[e].option)'
      BY <1>1, <1>4, <3>1, <3>2, PastStays
    <3>4. \A s \in setup.caller[c].legacy : Covered(s)'
      BY <1>3, <1>4, <3>1, CoveredStays
    <3> QED
      BY <1>1, <3>1, <3>3, <3>4 DEF Informed
  <2>3. CASE lastSent = LastOf(setup.file)
    BY <1>1, <1>4, <2>3 DEF Informed
  <2> QED
    BY <1>2, <2>1, <2>2, <2>3 DEF Informed
<1>5. CASE lastSent' # lastSent
  <2>1. PICK c \in DOMAIN setup.caller : Transmit(c)
    BY <1>5, StepFacts
  <2>2. c \in Caller /\ pc[c] = "use"
    BY <2>1, SetupTyped DEF Transmit, IInv
  <2>3. setup.caller[c].legacy \subseteq known[c]
    BY <2>2 DEF IInv, CallerInv
  <2>4. Past(dir[c])' /\ \A s \in known[c] : Covered(s)'
    BY <2>1, SentFacts
  <2>5. CASE Meet(setup.caller[c], setup.caller[e])
    BY <1>1, <2>3, <2>4, <2>5 DEF Meet, Informed
  <2>6. CASE ShareStore(setup, setup.caller[c], setup.caller[e])
    <3>1. setup.caller[c].option = setup.caller[e].option
      BY <2>6 DEF ShareStore
    <3>2. CASE dir[c] = setup.caller[e].option
      <4>1. dir' = dir
        BY <2>1 DEF Transmit
      <4>2. Past(setup.caller[e].option)'
        BY <1>1, <2>4, <3>2, <4>1 DEF Past, Position
      <4> QED
        BY <1>1, <2>3, <2>4, <2>6, <4>2 DEF Informed
    <3>3. CASE dir[c] # setup.caller[e].option
      <4>1. KnownTo(c, e, known[c])
        BY <2>2, <2>6, <3>1, <3>3 DEF IInv, StoreInv, SharesHome, Selecting, Working
      <4> QED
        BY <1>1, <2>4, <4>1 DEF KnownTo, Informed
    <3> QED
      BY <3>2, <3>3
  <2> QED
    BY <2>5, <2>6 DEF Linked
<1> QED
  BY <1>4, <1>5

(* Apart from allocating and sending, a step gives nobody a range and      *)
(* leaves the ranges there are alone.                                      *)
LEMMA RangesStay ==
    ASSUME IInv, Next, NEW e \in Caller, pc'[e] \in Working,
           ~\E c \in DOMAIN setup.caller : Allocate(c) \/ Transmit(c)
    PROVE  pc[e] \in Working /\ mem'[e] = mem[e] /\ cursor'[e] = cursor[e]
<1> \A c \in DOMAIN setup.caller : c \in Caller
  BY SetupTyped DEF IInv
<1>1. CASE \E c \in DOMAIN setup.caller : Begin(c)
  BY <1>1 DEF IInv, Working, Begin, Goto
<1>2. CASE \E c \in DOMAIN setup.caller : TakePointerLock(c)
  BY <1>2 DEF IInv, TakePointerLock, Take
<1>3. CASE \E c \in DOMAIN setup.caller : SelectStore(c)
  BY <1>3 DEF IInv, TypeOK, Working, SelectStore, Goto
<1>4. CASE \E c \in DOMAIN setup.caller : TakeStoreLock(c)
  BY <1>4 DEF IInv, TakeStoreLock, Take
<1>5. CASE \E c \in DOMAIN setup.caller : WriteCounter(c)
  BY <1>5 DEF IInv, Working, WriteCounter, Goto
<1>6. CASE \E c \in DOMAIN setup.caller : WritePointer(c)
  BY <1>6 DEF IInv, TypeOK, Working, WritePointer, Goto
<1>7. CASE \E c \in DOMAIN setup.caller : SaveState(c)
  BY <1>7 DEF IInv, TypeOK, Working, SaveState, Goto
<1>8. CASE \E c \in DOMAIN setup.caller : Finish(c)
  BY <1>8 DEF IInv, Working, Finish, Goto
<1>9. CASE \E c \in DOMAIN setup.caller : Release(c)
  BY <1>9 DEF IInv, TypeOK, Working, Release, Goto, Reset
<1>10. CASE \E c \in DOMAIN setup.caller : WriteFails(c)
  BY <1>10 DEF IInv, Working, WriteFails, Goto
<1>11. CASE \E c \in DOMAIN setup.caller : GiveUp(c)
  BY <1>11 DEF IInv, Working, GiveUp, Goto
<1>12. CASE \E c \in DOMAIN setup.caller : Crash(c)
  BY <1>12 DEF IInv, TypeOK, Working, Crash, Goto, Reset
<1>13. CASE \E s \in Path : Restore(s)
  BY <1>13 DEF Restore
<1> QED
  BY <1>1, <1>2, <1>3, <1>4, <1>5, <1>6, <1>7, <1>8, <1>9, <1>10, <1>11, <1>12, <1>13
  DEF Next, Step

(* What is reserved is past the last message, since the one who reserves   *)
(* has read of it; and nobody else sends while a caller works.             *)
LEMMA AheadStep ==
    ASSUME IInv, Linked(setup), KnowsLast(setup), InformedInv, AheadInv, Next
    PROVE  AheadInv'
<1> SUFFICES ASSUME NEW e \in Caller, pc'[e] \in Working
             PROVE  Later([iv |-> mem'[e].iv, seq |-> cursor'[e]], lastSent')
  BY DEF AheadInv
<1>1. CASE \E c \in DOMAIN setup.caller : Allocate(c)
  <2>1. PICK c \in DOMAIN setup.caller : Allocate(c)
    BY <1>1
  <2>2. c \in Caller
    BY SetupTyped DEF IInv
  <2>3. Allocation(c)
    BY <2>1, AllocateFacts DEF IInv
  <2>4. CASE e = c
    <3>1. pc'[c] = "counter" /\ mem' = mem /\ lastSent' = lastSent
      BY <2>3, <2>4 DEF Allocation, Working
    <3> QED
      BY <2>1, <2>4, <3>1, AllocationAhead
  <2>5. CASE e # c
    <3>1. pc[e] \in Working /\ mem' = mem /\ lastSent' = lastSent /\ cursor'[e] = cursor[e]
      BY <2>2, <2>3, <2>5 DEF Allocation, IInv, TypeOK
    <3> QED
      BY <3>1 DEF AheadInv
  <2> QED
    BY <2>4, <2>5
<1>2. CASE \E c \in DOMAIN setup.caller : Transmit(c)
  <2>1. PICK c \in DOMAIN setup.caller : Transmit(c)
    BY <1>2
  <2>2. c \in Caller /\ pc[c] \in Working /\ pc' = pc /\ mem' = mem
    BY <2>1, SetupTyped DEF Transmit, IInv, Working
  <2>3. e = c
    BY <2>2, OneAtATime
  <2> QED
    BY <2>1, <2>2, <2>3, SentFacts
<1>3. CASE ~\E c \in DOMAIN setup.caller : Allocate(c) \/ Transmit(c)
  <2>1. pc[e] \in Working /\ mem'[e] = mem[e] /\ cursor'[e] = cursor[e]
    BY <1>3, RangesStay
  <2>2. lastSent' = lastSent
    BY <1>3, StepFacts
  <2> QED
    BY <2>1, <2>2 DEF AheadInv
<1> QED
  BY <1>1, <1>2, <1>3

(* No sequence number is sent twice or out of order, for any number of     *)
(* callers, lights and stores, wherever the callers die and whatever state *)
(* files are restored, if every two callers share a state file or,         *)
(* explicitly, a store, and each knows the last number used before.        *)
THEOREM InOrder ==
    ASSUME \A s \in Setups : Linked(s) /\ KnowsLast(s)
    PROVE  Spec => SequenceOrder
<1> DEFINE Inv == IInv /\ InformedInv /\ AheadInv
<1>1. IInv => Linked(setup) /\ KnowsLast(setup)
  BY DEF IInv, TypeOK
<1>2. Init => Inv
  <2> SUFFICES ASSUME Init PROVE Inv
    OBVIOUS
  <2>1. IInv
    BY InitInv
  <2>2. InformedInv
    BY DEF Init, InformedInv, Informed
  <2>3. AheadInv
    BY DEF Init, AheadInv, Working
  <2> QED
    BY <2>1, <2>2, <2>3
<1>3. Inv /\ [Next]_vars => Inv'
  <2> SUFFICES ASSUME Inv, [Next]_vars PROVE Inv'
    OBVIOUS
  <2>1. IInv'
    BY NextInv
  <2>2. CASE Next
    BY <1>1, <2>1, <2>2, InformedStep, AheadStep
  <2>3. CASE UNCHANGED vars
    BY <2>1, <2>3
    DEF InformedInv, Informed, AheadInv, Covered, Past, Position, vars, files
  <2> QED
    BY <2>2, <2>3
<1>4. Inv /\ [Next]_vars => [lastSent' # lastSent => Later(lastSent', lastSent)]_vars
  BY StepFacts, SentFacts
<1> QED
  BY <1>2, <1>3, <1>4, PTL DEF Spec, SequenceOrder
=============================================================================
