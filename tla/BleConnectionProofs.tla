------------------------- MODULE BleConnectionProofs -------------------------
(***************************************************************************)
(* The safety of BleConnection for any number of operations of any kinds:  *)
(* IInv is inductive, and on top of it HInv, with the history.             *)
(***************************************************************************)
EXTENDS BleConnectionLinks, TLAPS

Before == {"idle", "fence", "begin", "connecting", "scan", "scanning", "found", "unfound"}
Up == {"settling", "discovering", "subscribing"}
Handle == {"ready", "unsubscribing", "closing"}
Gatt == {t \in tasks : t[1] \in GattCall}

(* Whoever is at work on the adapter holds it.                             *)
AdapterInv ==
    \A o \in Op : pc[o] \in (Before \ {"idle"}) \cup Up \cup {"failed"} => adapter = o

(* A scan call belongs to the operation that scans or to the one whose     *)
(* scan is stopping.                                                       *)
ScanInv ==
    /\ \A o \in Op : pc[o] \in {"scan", "scanning"} => way[o] = "scanned"
    /\ \A o \in Op : pc[o] = "scanning" => scanCleanup = None
    /\ scanCleanup # None => pc[scanCleanup] # "idle"
    /\ \A o \in Op, w \in {"direct", "scanned"} :
          /\ <<"start", <<o, w>>>> \in tasks =>
                /\ w = "scanned" /\ way[o] = "scanned"
                /\ scanCleanup = o \/ pc[o] = "scanning"
                /\ <<"stop", <<o, w>>>> \notin tasks
          /\ <<"stop", <<o, w>>>> \in tasks =>
                w = "scanned" /\ way[o] = "scanned" /\ scanCleanup = o

(* A connection is noted as one's own when it is up.                       *)
OwnedInv ==
    \A o \in Op :
       /\ pc[o] \in Before => ~owned[o]
       /\ pc[o] \in Up \cup Handle => owned[o]
       /\ pc[o] \in Up => Owns(Gen(o))
       /\ owned[o] => <<"connect", Gen(o)>> \notin tasks
       /\ owned[o] /\ Owns(Gen(o)) => link \in {None, Gen(o)}

(* A call that nobody waits for is in the fence.                           *)
Awaited ==
    {<<"connect", "connecting">>, <<"discover", "discovering">>, <<"subscribe", "subscribing">>}

FenceInv ==
    \A t \in Gatt \ fence : <<t[1], pc[t[2][1]]>> \in Awaited /\ t[2] = Gen(t[2][1])

(* All calls serve the owner of the address, but for the disconnect of a   *)
(* connection that was in the way.                                         *)
CallInv ==
    /\ \A t \in Gatt : t[2] = addressOwner \/ (t[1] = "disconnect" /\ Gatt = {t})
    /\ \A t \in Gatt : t[1] = "connect" => Gatt = {t}
    /\ \A o \in Op : owned[o] /\ Gen(o) = addressOwner => \A t \in Gatt : t[2] = addressOwner
    /\ \A t \in Gatt : t[1] = "disconnect" => link \in {t[2], None} /\ peripheral # "connecting"

(* A connect that is under way, or the connection of an operation that has *)
(* none yet, is that of its attempt, or of the direct one before it.       *)
LinkInv ==
    /\ \A t \in Gatt : t[1] = "connect" /\ pc[t[2][1]] \in Before =>
          \/ t[2] = Gen(t[2][1]) /\ t \notin fence /\ link # t[2]
          \/ pc[t[2][1]] # "idle" /\ t[2][2] = "direct" /\ way[t[2][1]] = "scanned"
    /\ \A o \in Op : link # None /\ link[1] = o /\ pc[o] \in Before =>
          pc[o] # "idle" /\ way[o] = "scanned" /\ link[2] = "direct"

(* The facts about handles that the connection depends on: who waits for a *)
(* disconnect waits for that of the own connection, ...                    *)
ClosingInv ==
    /\ \A o \in Op : pc[o] = "ready" => adapter # o
    /\ \A o \in Op : pc[o] = "closing" => <<"disconnect", Gen(o)>> \in tasks
    /\ \A o \in Op : owned[o] /\ addressOwner = Gen(o) => peripheralOwner = Gen(o)

(* ... the operation of a writer that was handed out has noted it, ...     *)
HandedInv ==
    handed =>
        /\ link # None /\ link = Gen(link[1])
        /\ kind[link[1]] = "writer" /\ adapter # link[1] /\ owned[link[1]]
        /\ pc[link[1]] \in {"ready", "closing", "over"}

(* ... and a connection without a handle is being closed or could not be.  *)
KeptInv ==
    link # None /\ addressOwner = link =>
        \/ owned[link[1]] /\ link = Gen(link[1]) /\ pc[link[1]] # "over"
        \/ ~handed /\ (refused \/ <<"disconnect", link>> \in tasks)

HInv == ClosingInv /\ HandedInv /\ KeptInv

IInv == TypeOK /\ AdapterInv /\ ScanInv /\ OwnedInv /\ FenceInv /\ CallInv /\ LinkInv

-----------------------------------------------------------------------------
(* The owner of the address that has its connection is the one all calls   *)
(* serve.                                                                  *)
LEMMA OwnersCalls ==
    ASSUME TypeOK, OwnedInv, CallInv, NEW o \in Op, owned[o], Owns(Gen(o))
    PROVE  \A t \in Gatt : t[2] = Gen(o) /\ t[1] # "connect"
  <1>1. <<"connect", Gen(o)>> \notin tasks
    BY DEF OwnedInv
  <1>2. \A t \in Gatt : t[2] = Gen(o)
    BY DEF CallInv, Owns
  <1>3. \A t \in Gatt : t = <<t[1], t[2]>>
    BY DEF TypeOK, Gatt, Task
  <1> QED  BY <1>1, <1>2, <1>3 DEF Gatt

(* Nothing changes for the calls when an operation that has no connection  *)
(* tries another way.                                                      *)
LEMMA OtherWay ==
    ASSUME TypeOK, OwnedInv, CallInv, NEW o \in Op, ~owned[o],
           UNCHANGED <<tasks, owned, owners, native>>,
           \A p \in Op \ {o} : way'[p] = way[p]
    PROVE  CallInv'
  <1>1. Gatt' = Gatt
    BY DEF Gatt
  <1>2. \A p \in Op : owned'[p] => owned[p] /\ Gen(p)' = Gen(p)
    BY DEF Gen
  <1> QED  BY <1>1, <1>2 DEF CallInv, owners, native

(* Every action keeps every part of the invariant. *)
LEMMA AcquireKeeps == ASSUME IInv, NEW o \in Op, Acquire(o) PROVE IInv'
  <1>1. TypeOK'
    BY DEF IInv, Acquire, TypeOK, Ways, Goto, Powerless, owners, native, Stage
  <1>2. AdapterInv'
    BY NoneAssumption DEF IInv, Acquire, TypeOK, AdapterInv, Ways, Goto,
        Powerless
  <1>3. ScanInv'
    BY NoneAssumption DEF IInv, Acquire, TypeOK, ScanInv, Ways, Goto, Powerless
  <1>4. OwnedInv'
    <2>1. ~owned'[o] /\ pc'[o] \in Before \cup {"failed"}
      BY DEF IInv, Acquire, Powerless, Goto, OwnedInv, Before, TypeOK
    <2>2. \A p \in Op \ {o} : Gen(p)' = Gen(p) /\ pc'[p] = pc[p] /\ owned'[p] = owned[p]
      BY DEF IInv, Acquire, Powerless, Goto, Gen, TypeOK
    <2>3. UNCHANGED <<tasks, owners, native>>
      BY DEF Acquire
    <2> QED
      BY <2>1, <2>2, <2>3
      DEF IInv, OwnedInv, Owns, owners, native, Before, Up, Handle
  <1>5. FenceInv'
    BY DEF IInv, Acquire, TypeOK, FenceInv, Ways, Goto, Powerless, Generation,
        Task, Gatt, Awaited, Gen
  <1>6. CallInv'
    <2>1. ~owned[o]
      BY DEF IInv, Acquire, OwnedInv, Before
    <2>2. \A p \in Op \ {o} : way'[p] = way[p]
      BY DEF IInv, TypeOK, Acquire
    <2> QED  BY <2>1, <2>2, OtherWay DEF IInv, Acquire
  <1>7. LinkInv'
    BY DEF IInv, Acquire, TypeOK, FenceInv, LinkInv, Ways, ScanIdle, Goto,
        Powerless, owners, native, Generation, Task, Before, Gen, Gatt, Awaited
  <1> QED  BY <1>1, <1>2, <1>3, <1>4, <1>5, <1>6, <1>7 DEF IInv

LEMMA FencePassedKeeps == ASSUME IInv, NEW o \in Op, FencePassed(o) PROVE IInv'
  <1>1. TypeOK'
    BY DEF IInv, FencePassed, TypeOK, Goto, owners, native, Stage
  <1>2. AdapterInv'
    BY DEF IInv, FencePassed, AdapterInv, Goto, Before
  <1>3. ScanInv'
    BY DEF IInv, FencePassed, ScanInv, Goto
  <1>4. OwnedInv'
    BY DEF IInv, FencePassed, OwnedInv, Goto, owners, native, Before, Up, Handle,
        Owns, Gen
  <1>5. FenceInv'
    BY DEF IInv, FencePassed, FenceInv, Goto, Gatt, Awaited, Gen
  <1>6. CallInv'
    BY DEF IInv, FencePassed, CallInv, owners, native, Gen, Gatt
  <1>7. LinkInv'
    BY DEF IInv, FencePassed, LinkInv, Goto, owners, native, Before, Gen, Gatt
  <1> QED  BY <1>1, <1>2, <1>3, <1>4, <1>5, <1>6, <1>7 DEF IInv

LEMMA BeginKeeps == ASSUME IInv, NEW o \in Op, Begin(o) PROVE IInv'
  <1>1. TypeOK'
    BY DEF IInv, Begin, TypeOK, MayBegin, Goto, owners, Claim, Gen, Stage,
        Generation, Task, GattCall
  <1>2. AdapterInv'
    BY DEF IInv, Begin, TypeOK, AdapterInv, Goto, Before
  <1>3. ScanInv'
    BY DEF IInv, Begin, TypeOK, ScanInv, Goto
  <1>4. OwnedInv'
    BY DEF IInv, Begin, TypeOK, AdapterInv, OwnedInv, MayBegin, Goto, owners,
        Claim, Gen, Before, Up, Handle, Owns
  <1>5. FenceInv'
    BY DEF IInv, Begin, TypeOK, FenceInv, Goto, Gen, Generation, Task, Gatt,
        Awaited
  <1>6. CallInv'
    BY DEF IInv, Begin, TypeOK, AdapterInv, FenceInv, CallInv, MayBegin, owners,
        Claim, Gen, Generation, Task, Before, Up, Gatt, Awaited
  <1>7. LinkInv'
    BY NoneAssumption DEF IInv, Begin, TypeOK, LinkInv, MayBegin, Goto, owners,
        Claim, Gen, Generation, Task, Before, Gatt
  <1> QED  BY <1>1, <1>2, <1>3, <1>4, <1>5, <1>6, <1>7 DEF IInv

LEMMA ConnectSettlesKeeps == ASSUME IInv, NEW o \in Op, ConnectSettles(o) PROVE IInv'
  <1>1. TypeOK'
    BY NoneAssumption DEF IInv, ConnectSettles, TypeOK, Generation, LateCleanup,
        Claim, owners, Goto, FallsBack, Stage, Task, GattCall, DisconnectCalls
  <1>2. AdapterInv'
    BY DEF IInv, ConnectSettles, TypeOK, AdapterInv, FenceInv, LateCleanup, Goto,
        FallsBack, GattCall, Before, Gatt, Awaited
  <1>3. ScanInv'
    BY DEF IInv, ConnectSettles, TypeOK, ScanInv, FenceInv, LateCleanup, Goto,
        FallsBack, GattCall, Gatt, Awaited, DisconnectCalls
  <1>4. OwnedInv'
    BY DEF IInv, ConnectSettles, TypeOK, OwnedInv, FenceInv, CallInv,
        LateCleanup, Claim, owners, Goto, FallsBack, GattCall, Before, Up,
        Handle, Owns, Gen, Gatt, Awaited, DisconnectCalls
  <1>5. FenceInv'
    BY DEF IInv, ConnectSettles, TypeOK, FenceInv, Generation, LateCleanup, Goto,
        FallsBack, Task, GattCall, Gatt, Awaited, Gen
  <1>6. CallInv'
    BY DEF IInv, ConnectSettles, OwnedInv, CallInv, LateCleanup, Claim, owners,
        GattCall, Gen, Gatt, DisconnectCalls
  <1>7. LinkInv'
    BY DEF IInv, ConnectSettles, TypeOK, FenceInv, CallInv, LinkInv, LateCleanup,
        Claim, owners, Goto, FallsBack, GattCall, Before, Gen, Gatt, Awaited,
        DisconnectCalls
  <1> QED  BY <1>1, <1>2, <1>3, <1>4, <1>5, <1>6, <1>7 DEF IInv

LEMMA ScanKeeps == ASSUME IInv, NEW o \in Op, Scan(o) PROVE IInv'
  <1>1. TypeOK'
    BY DEF IInv, Scan, TypeOK, ScanIdle, Goto, Gen, owners, native, Stage,
        Generation, Task, ScanCall
  <1>2. AdapterInv'
    BY DEF IInv, Scan, TypeOK, AdapterInv, Goto, Before
  <1>3. ScanInv'
    BY NoneAssumption DEF IInv, Scan, TypeOK, ScanInv, ScanIdle, Goto, Gen
  <1>4. OwnedInv'
    BY DEF IInv, Scan, TypeOK, OwnedInv, ScanIdle, Goto, Gen, owners, native,
        Before, Up, Handle, Owns
  <1>5. FenceInv'
    BY DEF IInv, Scan, TypeOK, FenceInv, Goto, Gen, Generation, Task, GattCall,
        Gatt, Awaited
  <1>6. CallInv'
    BY DEF IInv, Scan, CallInv, Gen, owners, native, GattCall, Gatt
  <1>7. LinkInv'
    BY DEF IInv, Scan, TypeOK, LinkInv, ScanIdle, Goto, Gen, owners, native,
        Generation, Task, Before, Gatt
  <1> QED  BY <1>1, <1>2, <1>3, <1>4, <1>5, <1>6, <1>7 DEF IInv

LEMMA ScanOverKeeps == ASSUME IInv, NEW o \in Op, ScanOver(o) PROVE IInv'
  <1>1. TypeOK'
    BY DEF IInv, ScanOver, TypeOK, Goto, StopCalls, owners, native, Stage,
        Generation, Task, Gen, ScanCall
  <1>2. AdapterInv'
    BY DEF IInv, ScanOver, TypeOK, AdapterInv, Goto, Before
  <1>3. ScanInv'
    <2>1. adapter = o /\ scanCleanup = None
      BY DEF IInv, ScanOver, AdapterInv, ScanInv, Before
    <2>2. \A p \in Op : p # o => pc[p] # "scanning"
      BY <2>1 DEF IInv, AdapterInv, Before
    <2>3. /\ \A p \in Op : p # o => pc'[p] = pc[p]
          /\ pc'[o] \in {"found", "unfound"}
          /\ scanCleanup' = o /\ way' = way
      BY DEF IInv, TypeOK, ScanOver, Goto
    <2>4. \A p \in Op, w \in {"direct", "scanned"} :
             /\ <<"stop", <<p, w>>>> \notin tasks
             /\ <<"start", <<p, w>>>> \in tasks =>
                   p = o /\ w = "scanned" /\ way[o] = "scanned"
      BY <2>1, <2>2, NoneAssumption DEF IInv, ScanInv
    <2>5. \A p \in Op, w \in {"direct", "scanned"} :
             /\ <<"start", <<p, w>>>> \in tasks' <=> <<"start", <<p, w>>>> \in tasks
             /\ <<"stop", <<p, w>>>> \in tasks' =>
                   p = o /\ w = way[o] /\ <<"start", <<p, w>>>> \notin tasks
      BY <2>4 DEF ScanOver, StopCalls, Gen
    <2>6. way[o] = "scanned"
      BY DEF IInv, ScanOver, ScanInv
    <2> QED  BY <2>2, <2>3, <2>4, <2>5, <2>6 DEF IInv, ScanInv
  <1>4. OwnedInv'
    BY DEF IInv, ScanOver, TypeOK, OwnedInv, Goto, StopCalls, owners, native,
        Before, Up, Handle, Owns, Gen
  <1>5. FenceInv'
    BY DEF IInv, ScanOver, TypeOK, FenceInv, Goto, StopCalls, Generation, Task,
        GattCall, Gatt, Awaited, Gen
  <1>6. CallInv'
    BY DEF IInv, ScanOver, CallInv, StopCalls, owners, native, GattCall, Gen,
        Gatt
  <1>7. LinkInv'
    BY DEF IInv, ScanOver, TypeOK, LinkInv, Goto, StopCalls, owners, native,
        Generation, Task, Before, Gen, Gatt
  <1> QED  BY <1>1, <1>2, <1>3, <1>4, <1>5, <1>6, <1>7 DEF IInv

LEMMA StartSettlesKeeps == ASSUME IInv, NEW o \in Op, StartSettles(o) PROVE IInv'
  <1>1. TypeOK'
    BY DEF IInv, StartSettles, TypeOK, program, owners, native, Task, GattCall,
        ScanCall
  <1>2. AdapterInv'
    BY DEF IInv, StartSettles, AdapterInv, program
  <1>3. ScanInv'
    BY DEF IInv, StartSettles, ScanInv, Gen, program
  <1>4. OwnedInv'
    BY DEF IInv, StartSettles, OwnedInv, Gen, program, owners, native, Owns
  <1>5. FenceInv'
    BY DEF IInv, StartSettles, FenceInv, Gen, program, GattCall, Gatt
  <1>6. CallInv'
    BY DEF IInv, StartSettles, CallInv, Gen, program, owners, native, GattCall,
        Gatt
  <1>7. LinkInv'
    BY DEF IInv, StartSettles, LinkInv, Gen, program, owners, native, Gatt
  <1> QED  BY <1>1, <1>2, <1>3, <1>4, <1>5, <1>6, <1>7 DEF IInv

LEMMA StopSettlesKeeps == ASSUME IInv, NEW o \in Op, StopSettles(o) PROVE IInv'
  <1>1. TypeOK'
    BY DEF IInv, StopSettles, TypeOK, Goto, Free, owners, native, Stage,
        GattCall
  <1>2. AdapterInv'
    BY DEF IInv, StopSettles, TypeOK, AdapterInv, Goto, Before, Up
  <1>3. ScanInv'
    BY DEF IInv, StopSettles, TypeOK, ScanInv, Gen, Goto
  <1>4. OwnedInv'
    BY DEF IInv, StopSettles, TypeOK, OwnedInv, Gen, Goto, owners, native,
        Before, Up, Handle, Owns
  <1>5. FenceInv'
    BY DEF IInv, StopSettles, TypeOK, FenceInv, Gen, Goto, Generation, Task,
        Gatt, Awaited
  <1>6. CallInv'
    BY DEF IInv, StopSettles, CallInv, Gen, owners, native, Gatt
  <1>7. LinkInv'
    BY DEF IInv, StopSettles, TypeOK, LinkInv, Gen, Goto, owners, native,
        Generation, Task, Before, Gatt
  <1> QED  BY <1>1, <1>2, <1>3, <1>4, <1>5, <1>6, <1>7 DEF IInv

LEMMA DiscoverKeeps == ASSUME IInv, NEW o \in Op, Discover(o) PROVE IInv'
  <1>1. TypeOK'
    BY DEF IInv, Discover, TypeOK, Goto, Gen, owners, native, Stage, Generation,
        Task, GattCall
  <1>2. AdapterInv'
    BY DEF IInv, Discover, AdapterInv, Goto, Up
  <1>3. ScanInv'
    BY DEF IInv, Discover, ScanInv, Goto
  <1>4. OwnedInv'
    BY DEF IInv, Discover, OwnedInv, Goto, Gen, owners, native, Before, Up, Owns
  <1>5. FenceInv'
    BY DEF IInv, Discover, TypeOK, FenceInv, Goto, Gen, Gatt, Awaited
  <1>6. CallInv'
    <2>1. owned[o] /\ Owns(Gen(o))
      BY DEF IInv, Discover, OwnedInv, Up
    <2>2. Gatt' = Gatt \cup {<<"discover", Gen(o)>>}
      BY DEF Discover, Gatt, GattCall
    <2>3. \A p \in Op : Gen(p)' = Gen(p)
      BY DEF Discover, Gen
    <2>4. \A t \in Gatt : t[2] = Gen(o) /\ t[1] # "connect"
      BY <2>1, OwnersCalls DEF IInv
    <2> QED  BY <2>1, <2>2, <2>3, <2>4 DEF IInv, CallInv, Discover, Owns, owners, native
  <1>7. LinkInv'
    BY DEF IInv, Discover, LinkInv, Goto, Gen, owners, native, Before, Gatt
  <1> QED  BY <1>1, <1>2, <1>3, <1>4, <1>5, <1>6, <1>7 DEF IInv

LEMMA DiscoverSettlesKeeps == ASSUME IInv, NEW o \in Op, DiscoverSettles(o) PROVE IInv'
  <1>1. TypeOK'
    BY DEF IInv, DiscoverSettles, TypeOK, Goto, Free, owners, native, Stage,
        Task, GattCall
  <1>2. AdapterInv'
    BY DEF IInv, DiscoverSettles, TypeOK, AdapterInv, Goto, Before, Up
  <1>3. ScanInv'
    BY DEF IInv, DiscoverSettles, TypeOK, ScanInv, Goto
  <1>4. OwnedInv'
    BY DEF IInv, DiscoverSettles, TypeOK, OwnedInv, Gen, Goto, owners, native,
        Before, Up, Owns
  <1>5. FenceInv'
    BY DEF IInv, DiscoverSettles, TypeOK, FenceInv, Gen, Goto, Generation, Task,
        Gatt, Awaited
  <1>6. CallInv'
    BY DEF IInv, DiscoverSettles, CallInv, owners, native, GattCall, Gatt
  <1>7. LinkInv'
    BY DEF IInv, DiscoverSettles, TypeOK, CallInv, LinkInv, Gen, Goto, owners,
        native, GattCall, Before, Gatt
  <1> QED  BY <1>1, <1>2, <1>3, <1>4, <1>5, <1>6, <1>7 DEF IInv

LEMMA SubscribeSettlesKeeps == ASSUME IInv, NEW o \in Op, SubscribeSettles(o) PROVE IInv'
  <1>1. TypeOK'
    BY DEF IInv, SubscribeSettles, TypeOK, UnsubscribeCalls, Goto, Free, owners,
        native, Stage, Task, GattCall
  <1>2. AdapterInv'
    BY DEF IInv, SubscribeSettles, TypeOK, AdapterInv, Goto, Before, Up
  <1>3. ScanInv'
    BY DEF IInv, SubscribeSettles, TypeOK, ScanInv, UnsubscribeCalls, Goto
  <1>4. OwnedInv'
    BY DEF IInv, SubscribeSettles, TypeOK, OwnedInv, Gen, UnsubscribeCalls, Goto,
        owners, native, Before, Up, Owns
  <1>5. FenceInv'
    BY DEF IInv, SubscribeSettles, TypeOK, FenceInv, Gen, Goto, Generation, Task,
        Gatt, Awaited
  <1>6. CallInv'
    BY DEF IInv, SubscribeSettles, CallInv, UnsubscribeCalls, owners, native,
        GattCall, Gatt
  <1>7. LinkInv'
    BY DEF IInv, SubscribeSettles, TypeOK, CallInv, LinkInv, Gen,
        UnsubscribeCalls, Goto, owners, native, GattCall, Before, Gatt
  <1> QED  BY <1>1, <1>2, <1>3, <1>4, <1>5, <1>6, <1>7 DEF IInv

LEMMA UnsubscribeSettlesKeeps == ASSUME IInv, NEW o \in Op, UnsubscribeSettles(o) PROVE IInv'
  <1>1. TypeOK'
    BY DEF IInv, UnsubscribeSettles, TypeOK, program, owners, native
  <1>2. AdapterInv'
    BY DEF IInv, UnsubscribeSettles, AdapterInv, program
  <1>3. ScanInv'
    BY DEF IInv, UnsubscribeSettles, ScanInv, program
  <1>4. OwnedInv'
    BY DEF IInv, UnsubscribeSettles, OwnedInv, Gen, program, owners, native,
        Owns
  <1>5. FenceInv'
    BY DEF IInv, UnsubscribeSettles, FenceInv, Gen, program, Gatt
  <1>6. CallInv'
    BY DEF IInv, UnsubscribeSettles, CallInv, Gen, program, owners, native, Gatt
  <1>7. LinkInv'
    BY DEF IInv, UnsubscribeSettles, LinkInv, Gen, program, owners, native, Gatt
  <1> QED  BY <1>1, <1>2, <1>3, <1>4, <1>5, <1>6, <1>7 DEF IInv

LEMMA GiveUpKeeps == ASSUME IInv, NEW o \in Op, GiveUp(o) PROVE IInv'
  <1>1. TypeOK'
    BY DEF IInv, GiveUp, TypeOK, Fence, Abandoned, Goto, FallsBack, owners,
        native, Stage
  <1>2. AdapterInv'
    BY DEF IInv, GiveUp, TypeOK, AdapterInv, Deadlines, Fence, Goto, FallsBack,
        Before, Up, Waits
  <1>3. ScanInv'
    BY DEF IInv, GiveUp, TypeOK, ScanInv, Deadlines, Fence, Goto, FallsBack,
        Waits
  <1>4. OwnedInv'
    <2>1. ASSUME NEW p \in Op PROVE owned'[p] => Gen(p)' = Gen(p)
      BY DEF IInv, TypeOK, GiveUp, FallsBack, OwnedInv, Before, Gen
    <2>2. \A p \in Op : owned'[p] = owned[p]
      BY DEF GiveUp
    <2>3. ASSUME NEW p \in Op
          PROVE  \/ pc'[p] = pc[p]
                 \/ pc'[p] = "failed"
                 \/ pc'[p] = "scan" /\ ~owned[p]
      BY DEF IInv, TypeOK, GiveUp, FallsBack, Goto, OwnedInv, Before
    <2>4. UNCHANGED <<tasks, owners, native>>
      BY DEF GiveUp
    <2> QED
      BY <2>1, <2>2, <2>3, <2>4
      DEF IInv, OwnedInv, Owns, owners, native, Before, Up, Handle
  <1>5. FenceInv'
    BY DEF IInv, GiveUp, TypeOK, FenceInv, Deadlines, Fence, Abandoned, Goto,
        FallsBack, Generation, Task, Gatt, Gen
  <1>6. CallInv'
    <2>1. CASE UNCHANGED way
      <3>1. Gatt' = Gatt /\ \A p \in Op : Gen(p)' = Gen(p)
        BY <2>1 DEF GiveUp, Gatt, Gen
      <3> QED  BY <3>1 DEF IInv, GiveUp, CallInv, owners, native
    <2>2. CASE pc[o] = "connecting" /\ FallsBack(o)
      <3>1. ~owned[o]
        BY <2>2 DEF IInv, OwnedInv, Before
      <3>2. \A p \in Op \ {o} : way'[p] = way[p]
        BY <2>2 DEF IInv, TypeOK, FallsBack
      <3> QED  BY <3>1, <3>2, OtherWay DEF IInv, GiveUp
    <2> QED  BY <2>1, <2>2 DEF GiveUp
  <1>7. LinkInv'
    BY DEF IInv, GiveUp, TypeOK, LinkInv, Deadlines, Fence, Abandoned, Goto,
        FallsBack, owners, native, Generation, Task, Before, Gen, Gatt
  <1> QED  BY <1>1, <1>2, <1>3, <1>4, <1>5, <1>6, <1>7 DEF IInv

LEMMA ReleaseKeeps == ASSUME IInv, NEW o \in Op, Release(o) PROVE IInv'
  <1>1. TypeOK'
    BY DEF IInv, Release, TypeOK, Free, Goto, owners, native, Stage
  <1>2. AdapterInv'
    BY DEF IInv, Release, TypeOK, AdapterInv, Goto, Before, Up
  <1>3. ScanInv'
    BY DEF IInv, Release, ScanInv, Goto
  <1>4. OwnedInv'
    BY DEF IInv, Release, OwnedInv, Free, Goto, owners, native, Before, Up,
        Handle, Owns, Gen
  <1>5. FenceInv'
    BY DEF IInv, Release, FenceInv, Goto, Gatt, Awaited, Gen
  <1>6. CallInv'
    BY DEF IInv, Release, CallInv, owners, native, Gen, Gatt
  <1>7. LinkInv'
    BY DEF IInv, Release, LinkInv, Goto, owners, native, Before, Gen, Gatt
  <1> QED  BY <1>1, <1>2, <1>3, <1>4, <1>5, <1>6, <1>7 DEF IInv

LEMMA CloseScopeKeeps == ASSUME IInv, NEW o \in Op, CloseScope(o) PROVE IInv'
  <1>1. TypeOK'
    BY DEF IInv, CloseScope, TypeOK, UnsubscribeCalls, Fence, Goto, owners,
        native, Stage, Generation, Task, GattCall, Gen
  <1>2. AdapterInv'
    BY DEF IInv, CloseScope, AdapterInv, UnsubscribeCalls, Goto, Before, Up
  <1>3. ScanInv'
    BY DEF IInv, CloseScope, ScanInv, UnsubscribeCalls, Goto
  <1>4. OwnedInv'
    BY DEF IInv, CloseScope, OwnedInv, UnsubscribeCalls, Fence, Goto, owners,
        native, Before, Up, Handle, Owns, Gen
  <1>5. FenceInv'
    BY DEF IInv, CloseScope, FenceInv, Fence, Goto, Gatt, Awaited, Gen
  <1>6. CallInv'
    <2>1. \A p \in Op : Gen(p)' = Gen(p)
      BY DEF CloseScope, Gen
    <2>2. CASE UnsubscribeCalls(o) = {}
      BY <2>1, <2>2 DEF IInv, CloseScope, CallInv, Gatt, owners, native
    <2>3. CASE Owns(Gen(o))
      <3>1. owned[o]
        BY DEF IInv, CloseScope, OwnedInv, Handle
      <3>2. Gatt' = Gatt \cup {<<"unsubscribe", Gen(o)>>}
        BY <2>3 DEF CloseScope, UnsubscribeCalls, Gatt, GattCall
      <3>3. \A t \in Gatt : t[2] = Gen(o) /\ t[1] # "connect"
        BY <2>3, <3>1, OwnersCalls DEF IInv
      <3> QED  BY <2>1, <2>3, <3>2, <3>3 DEF IInv, CallInv, CloseScope, Owns, owners, native
    <2> QED  BY <2>2, <2>3 DEF UnsubscribeCalls
  <1>7. LinkInv'
    BY DEF IInv, CloseScope, LinkInv, UnsubscribeCalls, Fence, Goto, owners,
        native, Before, Gen, Gatt
  <1> QED  BY <1>1, <1>2, <1>3, <1>4, <1>5, <1>6, <1>7 DEF IInv

LEMMA CloseKeeps == ASSUME IInv, NEW o \in Op, Close(o) PROVE IInv'
  <1>1. TypeOK'
    BY DEF IInv, Close, TypeOK, DisconnectCalls, WriterCloses, Goto, Free, Fence,
        owners, native, Stage, Task, GattCall
  <1>2. AdapterInv'
    BY DEF IInv, Close, TypeOK, AdapterInv, DisconnectCalls, Goto, Free, Before,
        Up
  <1>3. ScanInv'
    BY DEF IInv, Close, TypeOK, ScanInv, DisconnectCalls, WriterCloses, Goto,
        Free
  <1>4. OwnedInv'
    BY DEF IInv, Close, TypeOK, OwnedInv, DisconnectCalls, WriterCloses, Owns,
        Gen, Goto, Free, owners, native, Before, Up, Handle
  <1>5. FenceInv'
    BY DEF IInv, Close, TypeOK, FenceInv, DisconnectCalls, WriterCloses, Gen,
        Goto, Fence, Generation, Task, Gatt, Awaited
  <1>6. CallInv'
    <2>1. \A p \in Op : Gen(p)' = Gen(p)
      BY DEF Close, Gen
    <2>2. CASE tasks' = tasks
      BY <2>1, <2>2 DEF IInv, Close, CallInv, Gatt, owners, native
    <2>3. CASE tasks' # tasks
      <3>0. Owns(Gen(o))
        BY <2>3 DEF Close
      <3>1. owned[o]
        BY DEF IInv, Close, WriterCloses, OwnedInv, Handle
      <3>2. link # None /\ tasks' = tasks \cup {<<"disconnect", link>>}
        BY <2>3, <3>0 DEF Close, DisconnectCalls
      <3>3. link = Gen(o)
        BY <3>0, <3>1, <3>2 DEF IInv, OwnedInv
      <3>4. Gatt' = Gatt \cup {<<"disconnect", Gen(o)>>}
        BY <3>2, <3>3 DEF Gatt, GattCall
      <3>5. \A t \in Gatt : t[2] = Gen(o) /\ t[1] # "connect"
        BY <3>0, <3>1, OwnersCalls DEF IInv
      <3>6. peripheral # "connecting"
        BY <3>2 DEF IInv, TypeOK
      <3> QED
        BY <2>1, <3>0, <3>3, <3>4, <3>5, <3>6
        DEF IInv, CallInv, Close, Owns, owners, native
    <2> QED  BY <2>2, <2>3
  <1>7. LinkInv'
    <2>1. \A p \in Op : pc'[p] \in Before => pc'[p] = pc[p]
      BY DEF Close, IInv, TypeOK, Goto, Before
    <2>2. ASSUME NEW t \in Gatt', t[1] = "connect" PROVE t \in Gatt
      BY <2>2 DEF Close, DisconnectCalls, Gatt
    <2>3. \A t \in Gatt : t \in fence' => t \in fence \/ t[1] # "connect"
      BY DEF Close, Fence, DisconnectCalls
    <2>4. \A t \in Gatt : t[2][1] \in Op
      BY DEF IInv, TypeOK, Gatt, Task, Generation
    <2>5. UNCHANGED <<link, way>>
      BY DEF Close, native
    <2> QED  BY <2>1, <2>2, <2>3, <2>4, <2>5 DEF IInv, LinkInv, Gen
  <1> QED  BY <1>1, <1>2, <1>3, <1>4, <1>5, <1>6, <1>7 DEF IInv

LEMMA CloseTimesOutKeeps == ASSUME IInv, NEW o \in Op, CloseTimesOut(o) PROVE IInv'
  <1>1. TypeOK'
    BY DEF IInv, CloseTimesOut, AfterClose, TypeOK, Goto, Free, owners, native, Stage
  <1>2. AdapterInv'
    BY DEF IInv, CloseTimesOut, AfterClose, TypeOK, AdapterInv, Goto, Free, Before, Up
  <1>3. ScanInv'
    BY DEF IInv, CloseTimesOut, AfterClose, TypeOK, ScanInv, Goto
  <1>4. OwnedInv'
    BY DEF IInv, CloseTimesOut, AfterClose, TypeOK, OwnedInv, Goto, owners, native, Before, Up,
        Handle, Owns, Gen
  <1>5. FenceInv'
    BY DEF IInv, CloseTimesOut, AfterClose, TypeOK, FenceInv, Goto, Generation, Task, Gatt, Awaited,
        Gen
  <1>6. CallInv'
    BY DEF IInv, CloseTimesOut, AfterClose, CallInv, owners, native, Gen, Gatt
  <1>7. LinkInv'
    BY DEF IInv, CloseTimesOut, AfterClose, TypeOK, LinkInv, Goto, owners, native, Generation, Task,
        Before, Gen, Gatt
  <1> QED  BY <1>1, <1>2, <1>3, <1>4, <1>5, <1>6, <1>7 DEF IInv

(* A disconnect that settles, or a connection that drops.                  *)
LEMMA DisconnectSettlesKeeps == ASSUME IInv, DisconnectSettles PROVE IInv'
  <1>1. PICK g \in Generation, ok \in BOOLEAN :
          /\ <<"disconnect", g>> \in tasks
          /\ tasks' = tasks \ {<<"disconnect", g>>} /\ fence' = fence \ {<<"disconnect", g>>}
          /\ \/ link' = None /\ peripheral' = "disconnected"
             \/ UNCHANGED native
          /\ pc' = [o \in Op |-> IF pc[o] = "closing" THEN AfterClose(o, ok) ELSE pc[o]]
          /\ adapter' = IF \E o \in Op : adapter = o /\ pc[o] = "closing" THEN None ELSE adapter
          /\ UNCHANGED <<kind, way, owned, owners, scanCleanup>>
    BY DEF DisconnectSettles
  <1>2. \A o \in Op : AfterClose(o, ok) \in {"ready", "over"}
    BY DEF AfterClose
  <1>3. \A o \in Op : pc'[o] = pc[o] \/ (pc[o] = "closing" /\ pc'[o] \in {"ready", "over"})
    BY <1>1, <1>2
  <1>4. TypeOK'
    <2>1. pc' \in [Op -> Stage]
      BY <1>1, <1>2 DEF IInv, TypeOK, Stage
    <2>2. adapter' \in Op \cup {None}
      BY <1>1 DEF IInv, TypeOK
    <2> QED  BY <1>1, <2>1, <2>2, NoneAssumption DEF IInv, TypeOK, owners, native
  <1>5. AdapterInv'
    BY <1>1, <1>3 DEF IInv, AdapterInv, Before, Up
  <1>6. ScanInv'
    <2>1. \A o \in Op, w \in {"direct", "scanned"}, call \in {"start", "stop"} :
             <<call, <<o, w>>>> \in tasks' <=> <<call, <<o, w>>>> \in tasks
      BY <1>1
    <2>2. \A o \in Op : pc'[o] \in {"idle", "scan", "scanning"} <=>
                            pc[o] \in {"idle", "scan", "scanning"}
      BY <1>3
    <2>3. scanCleanup # None => scanCleanup \in Op
      BY DEF IInv, TypeOK
    <2> QED  BY <1>1, <1>3, <2>1, <2>2, <2>3 DEF IInv, ScanInv
  <1>7. OwnedInv'
    BY <1>1, <1>3 DEF IInv, OwnedInv, Owns, Gen, Before, Up, Handle, owners, native
  <1>8. Gatt' \subseteq Gatt
    BY <1>1 DEF Gatt
  <1>9. FenceInv'
    <2>1. ASSUME NEW t \in Gatt' \ fence' PROVE t \in Gatt \ fence
      BY <1>1, <1>8, <2>1 DEF Gatt
    <2>2. ASSUME NEW t \in Gatt \ fence
          PROVE  /\ <<t[1], pc[t[2][1]]>> \in Awaited /\ t[2] = Gen(t[2][1])
                 /\ t[2][1] \in Op
      BY <2>2 DEF IInv, FenceInv, TypeOK, Gatt, Task, Generation
    <2> QED  BY <1>1, <1>3, <2>1, <2>2 DEF FenceInv, Awaited, Gen
  <1>10. CallInv'
    BY <1>1, <1>8 DEF IInv, CallInv, Gen, owners, native
  <1>11. LinkInv'
    <2>1. \A t \in Gatt : t[2][1] \in Op /\ t[2] # None
      BY NoneAssumption DEF IInv, TypeOK, Gatt, Task, Generation
    <2>2. link # None => link[1] \in Op
      BY DEF IInv, TypeOK, Generation
    <2> QED  BY <1>1, <1>3, <1>8, <2>1, <2>2 DEF IInv, LinkInv, Gen, native, Before
  <1> QED  BY <1>4, <1>5, <1>6, <1>7, <1>9, <1>10, <1>11 DEF IInv

LEMMA DropKeeps == ASSUME IInv, Drop PROVE IInv'
  <1> USE DEF Drop, program, owners
  <1>1. Gatt' = Gatt
    BY DEF Gatt
  <1>2. TypeOK' /\ AdapterInv' /\ ScanInv'
    BY DEF IInv, TypeOK, AdapterInv, ScanInv
  <1>3. OwnedInv' /\ FenceInv'
    BY <1>1 DEF IInv, OwnedInv, FenceInv, Owns, Gen
  <1>4. CallInv' /\ LinkInv'
    <2>1. \A t \in Gatt : t[2] # None
      BY NoneAssumption DEF IInv, TypeOK, Gatt, Task, Generation
    <2> QED  BY <1>1, <2>1 DEF IInv, CallInv, LinkInv, Gen
  <1> QED  BY <1>2, <1>3, <1>4 DEF IInv

LEMMA InitInv == Init => IInv
  BY KindsAssumption, NoneAssumption
  DEF Init, IInv, TypeOK, AdapterInv, ScanInv, OwnedInv, FenceInv, CallInv, LinkInv, Gatt,
      Gen, Owns, Generation, Task, Stage, Before, Up, Handle

LEMMA StutterKeeps == ASSUME IInv, UNCHANGED vars PROVE IInv'
  BY DEF vars, program, owners, native, IInv, TypeOK, AdapterInv, ScanInv, OwnedInv, FenceInv,
         CallInv, LinkInv, Gatt, Gen, Owns

(* The inductive invariant.                                                *)
THEOREM Inductive == Spec => []IInv
  <1>1. IInv /\ [Next]_vars => IInv'
    <2> SUFFICES ASSUME IInv, [Next]_vars PROVE IInv'
      OBVIOUS
    <2>1. ASSUME NEW o \in Op, Step(o) PROVE IInv'
      BY <2>1, FencePassedKeeps, BeginKeeps, ScanKeeps, ScanOverKeeps, DiscoverKeeps,
         GiveUpKeeps, ReleaseKeeps, CloseTimesOutKeeps, CloseKeeps DEF Step
    <2>2. ASSUME NEW o \in Op, Settle(o) PROVE IInv'
      BY <2>2, ConnectSettlesKeeps, StartSettlesKeeps, StopSettlesKeeps, DiscoverSettlesKeeps,
         SubscribeSettlesKeeps, UnsubscribeSettlesKeeps DEF Settle
    <2> QED
      BY <2>1, <2>2, AcquireKeeps, CloseKeeps, CloseScopeKeeps,
         DisconnectSettlesKeeps, DropKeeps, StutterKeeps
      DEF Next
  <1> QED  BY <1>1, InitInv, PTL DEF Spec

(* No late call of an old connection meets the one that replaced it.       *)
THEOREM CallsIsolated == Spec => []Isolated
  <1>1. IInv => Isolated
    BY DEF IInv, CallInv, Gatt, Isolated
  <1> QED  BY <1>1, Inductive, PTL

(* No scan runs while the start or the stop of an earlier one is under way. *)
THEOREM ScansIsolated == Spec => []ScanIsolated
  <1>1. ASSUME IInv, NEW o \in Op, pc[o] = "scanning", NEW t \in tasks, t[1] \in ScanCall
        PROVE  t[2][1] = o
    <2>1. PICK p \in Op, w \in {"direct", "scanned"} :
             t = <<"start", <<p, w>>>> \/ t = <<"stop", <<p, w>>>>
      BY <1>1 DEF IInv, TypeOK, Task, Generation, ScanCall
    <2>2. scanCleanup = None
      BY <1>1 DEF IInv, ScanInv
    <2>3. pc[p] = "scanning"
      BY <1>1, <2>1, <2>2, NoneAssumption DEF IInv, ScanInv
    <2> QED  BY <1>1, <2>1, <2>3 DEF IInv, AdapterInv, Before
  <1>2. IInv => ScanIsolated
    BY <1>1 DEF ScanIsolated
  <1> QED  BY <1>2, Inductive, PTL

(* A disconnect that was given up never ends a connection opened since.    *)
THEOREM DisconnectHitsOwn == Spec => NoStrayDisconnect
  <1>1. ASSUME IInv, NEW g \in Generation, <<"disconnect", g>> \in tasks
        PROVE  link \in {g, None} /\ peripheral # "connecting"
    BY <1>1 DEF IInv, CallInv, Gatt, GattCall
  <1>2. IInv => [\A g \in Generation :
                    <<"disconnect", g>> \in tasks /\ <<"disconnect", g>> \notin tasks' =>
                        link \in {g, None} /\ peripheral # "connecting"]_vars
    BY <1>1
  <1> QED  BY <1>2, Inductive, PTL DEF NoStrayDisconnect

-----------------------------------------------------------------------------
(* A connection whose writer is handed out has a handle that knows it.     *)
LEMMA HandedOut ==
    ASSUME IInv', ClosingInv', link' # None,
           NEW o \in Op, HandsOut(o), kind' = kind, way'[o] = way[o]
    PROVE  HInv'
  <1>1. pc'[o] = "ready" /\ owned'[o] /\ kind'[o] = "writer" /\ adapter' # o
    BY DEF HandsOut, IInv, OwnedInv, Handle, ClosingInv
  <1>2. link' = Gen(o)' /\ link'[1] = o
    BY DEF HandsOut, Gen
  <1> QED  BY <1>1, <1>2 DEF HInv, HandedInv, KeptInv

(* What goes on before and beside a handle.                                *)
LEMMA QuietKeeps ==
    ASSUME IInv, IInv', HInv, LinkNext, NEW o \in Op,
           UNCHANGED <<link, addressOwner, peripheralOwner, owned, kind>>,
           \A p \in Op \ {o} : pc'[p] = pc[p] /\ way'[p] = way[p],
           owned[o] => way'[o] = way[o],
           \/ pc'[o] = pc[o]
           \/ /\ \/ pc[o] \notin {"ready", "closing", "over"}
                 \/ pc[o] = "ready" /\ kind[o] # "writer"
              /\ pc'[o] # "closing"
              /\ pc'[o] = "over" => ~owned[o]
              /\ pc'[o] = "ready" => adapter' # o,
           \A p \in Op : adapter' = p => adapter = p \/ (p = o /\ pc[o] = "idle"),
           \A g \in Generation : <<"disconnect", g>> \in tasks => <<"disconnect", g>> \in tasks'
    PROVE  HInv'
  <1>1. \A p \in Op : Gen(p) \in Generation /\ (owned[p] => Gen(p)' = Gen(p))
    BY DEF Gen, Generation, IInv, TypeOK
  <1>2. \A p \in Op : pc[p] \in {"ready", "closing"} => owned[p]
    BY DEF IInv, OwnedInv, Handle
  <1>3. ClosingInv'
    BY <1>1, <1>2 DEF HInv, ClosingInv
  <1>4. ~Rejected
    BY DEF Rejected
  <1>5. link # None => link \in Generation /\ link[1] \in Op
    BY DEF IInv, TypeOK, Generation
  <1>6. CASE link # None /\ \E p \in Op : HandsOut(p)
    <2>1. PICK p \in Op : HandsOut(p)
      BY <1>6
    <2>2. way'[p] = way[p]
      BY <2>1 DEF HandsOut, IInv, OwnedInv, Handle
    <2> QED  BY <1>3, <1>6, <2>1, <2>2, HandedOut
  <1>7. CASE link = None \/ ~ \E p \in Op : HandsOut(p)
    <2>1. handed' <=> (link # None /\ handed)
      BY <1>7 DEF LinkNext
    <2>2. refused' <=> (link # None /\ refused)
      BY <1>4 DEF LinkNext
    <2>3. HandedInv'
      BY <1>1, <1>5, <2>1 DEF HInv, HandedInv, IInv, AdapterInv
    <2>4. KeptInv'
      BY <1>1, <1>5, <2>1, <2>2 DEF HInv, KeptInv
    <2> QED  BY <1>3, <2>3, <2>4 DEF HInv
  <1> QED  BY <1>6, <1>7

LEMMA QuietSteps ==
    ASSUME IInv, IInv', HInv, LinkNext, NEW o \in Op,
           \/ Acquire(o) \/ FencePassed(o) \/ Scan(o) \/ ScanOver(o) \/ Discover(o)
           \/ GiveUp(o) \/ Release(o) \/ CloseScope(o)
           \/ StartSettles(o) \/ StopSettles(o) \/ DiscoverSettles(o)
           \/ SubscribeSettles(o) \/ UnsubscribeSettles(o)
    PROVE  HInv'
  <1> USE DEF owners, native, program, Goto, Gen
  <1>0. pc \in [Op -> Stage] /\ way \in [Op -> {"direct", "scanned"}]
        /\ (pc[o] \in Before => ~owned[o]) /\ None \notin Op
    BY NoneAssumption DEF IInv, TypeOK, OwnedInv
  <1>1. CASE Acquire(o)
    BY <1>0, <1>1, QuietKeeps DEF Acquire, Powerless, Before
  <1>2. CASE FencePassed(o)
    BY <1>0, <1>2, QuietKeeps DEF FencePassed
  <1>3. CASE Scan(o)
    BY <1>0, <1>3, QuietKeeps DEF Scan
  <1>4. CASE ScanOver(o)
    BY <1>0, <1>4, QuietKeeps DEF ScanOver
  <1>5. CASE Discover(o)
    BY <1>0, <1>5, QuietKeeps DEF Discover
  <1>6. CASE GiveUp(o)
    BY <1>0, <1>6, QuietKeeps DEF GiveUp, Deadlines, Waits, FallsBack, Before
  <1>7. CASE Release(o)
    BY <1>0, <1>7, QuietKeeps DEF Release, Free
  <1>8. CASE CloseScope(o)
    BY <1>0, <1>8, QuietKeeps DEF CloseScope
  <1>9. CASE StartSettles(o)
    BY <1>0, <1>9, QuietKeeps DEF StartSettles
  <1>10. CASE StopSettles(o)
    BY <1>0, <1>10, QuietKeeps DEF StopSettles, Free, Before
  <1>11. CASE DiscoverSettles(o)
    BY <1>0, <1>11, QuietKeeps DEF DiscoverSettles, Free
  <1>12. CASE SubscribeSettles(o)
    BY <1>0, <1>12, QuietKeeps DEF SubscribeSettles, Free
  <1>13. CASE UnsubscribeSettles(o)
    BY <1>0, <1>13, QuietKeeps DEF UnsubscribeSettles
  <1> QED
    BY <1>1, <1>2, <1>3, <1>4, <1>5, <1>6, <1>7, <1>8, <1>9, <1>10, <1>11, <1>12, <1>13

(* The address goes to a connection that is not up yet.                    *)
LEMMA BeginKept == ASSUME IInv, IInv', HInv, LinkNext, NEW o \in Op, Begin(o) PROVE HInv'
  <1>0. pc \in [Op -> Stage] /\ ~owned[o] /\ pc[o] = "begin"
    BY DEF IInv, TypeOK, OwnedInv, Begin, Before
  <1>1. CASE ~MayBegin
    BY <1>0, <1>1, QuietKeeps DEF Begin, Goto, owners
  <1>2. CASE MayBegin
    <2>1. /\ pc' = [pc EXCEPT ![o] = "connecting"] /\ addressOwner' = Gen(o)
          /\ tasks' = tasks \cup {<<"connect", Gen(o)>>}
          /\ UNCHANGED <<adapter, kind, way, owned, link>>
      BY <1>2 DEF Begin, Goto, Claim
    <2>2. link = None \/ link # Gen(o)
      BY <1>0 DEF IInv, LinkInv, Gen, Before
    <2>3. ClosingInv'
      BY <1>0, <2>1 DEF HInv, ClosingInv, Gen
    <2>4. CASE link' # None /\ \E p \in Op : HandsOut(p)
      BY <2>1, <2>3, <2>4, HandedOut
    <2>5. CASE ~(link' # None /\ \E p \in Op : HandsOut(p))
      <3>1. handed' => handed
        BY <2>5 DEF LinkNext
      <3>2. link # None => link[1] \in Op
        BY DEF IInv, TypeOK, Generation
      <3> QED  BY <1>0, <2>1, <2>2, <2>3, <3>1, <3>2 DEF HInv, HandedInv, KeptInv, Gen
    <2> QED  BY <2>4, <2>5
  <1> QED  BY <1>1, <1>2

(* A connect that succeeds is noted by its operation, or cleaned up.       *)
LEMMA ConnectSettlesKept ==
    ASSUME IInv, IInv', HInv, LinkNext, NEW o \in Op, ConnectSettles(o)
    PROVE  HInv'
  <1>0. /\ pc \in [Op -> Stage] /\ way \in [Op -> {"direct", "scanned"}]
        /\ owned \in [Op -> BOOLEAN]
    BY DEF IInv, TypeOK
  <1>1. PICK g \in Generation, ok \in BOOLEAN :
          /\ g[1] = o /\ <<"connect", g>> \in tasks
          /\ link' = IF ok THEN g ELSE link
          /\ tasks \ {<<"connect", g>>} \subseteq tasks'
          /\ ok /\ <<"connect", g>> \in fence => LateCleanup(g) \subseteq tasks'
          /\ IF ok THEN Claim(g, TRUE) ELSE UNCHANGED owners
          /\ owned' = [owned EXCEPT ![o] = @ \/ (ok /\ <<"connect", g>> \notin fence)]
          /\ IF <<"connect", g>> \in fence THEN UNCHANGED <<pc, way>>
             ELSE IF ok THEN Goto(o, "settling") /\ UNCHANGED way
             ELSE IF g[2] = "direct" THEN FallsBack(o)
             ELSE Goto(o, "failed") /\ UNCHANGED way
          /\ UNCHANGED <<adapter, kind>>
    BY DEF ConnectSettles
  <1>2. Gatt = {<<"connect", g>>}
    BY <1>1 DEF IInv, CallInv, Gatt, GattCall
  <1>3. <<"connect", g>> \notin fence => pc[o] = "connecting" /\ g = Gen(o) /\ ~owned[o]
    BY <1>1, <1>2 DEF IInv, FenceInv, Awaited, OwnedInv, Before
  <1>4. g # None
    BY NoneAssumption DEF Generation
  <1>5. CASE ~ok
    <2>1. UNCHANGED <<link, addressOwner, peripheralOwner, owned, kind>>
      BY <1>0, <1>1, <1>5 DEF owners
    <2>2. \A h \in Generation : <<"disconnect", h>> \in tasks => <<"disconnect", h>> \in tasks'
      BY <1>1
    <2>3. \/ UNCHANGED <<pc, way>>
          \/ /\ pc[o] = "connecting" /\ ~owned[o] /\ pc'[o] \in {"scan", "failed"}
             /\ \A p \in Op \ {o} : pc'[p] = pc[p] /\ way'[p] = way[p]
      BY <1>0, <1>1, <1>3, <1>5 DEF FallsBack, Goto
    <2> QED  BY <1>1, <2>1, <2>2, <2>3, QuietKeeps
  <1>6. CASE ok
    <2>1. /\ link' = g /\ addressOwner' = g /\ peripheralOwner' = g /\ way' = way
          /\ \A p \in Op : pc'[p] = pc[p] \/ (p = o /\ pc'[p] = "settling")
      BY <1>0, <1>1, <1>6 DEF Claim, Goto
    <2>2. \A t \in tasks : t[1] # "disconnect"
      BY <1>2 DEF Gatt, GattCall
    <2>3. ClosingInv'
      BY <1>1, <2>1, <2>2 DEF HInv, ClosingInv
    <2>4. ~(owned[o] /\ g = Gen(o))
      BY <1>1 DEF IInv, OwnedInv
    <2>5. ~ \E p \in Op : HandsOut(p)
      <3> SUFFICES ASSUME NEW p \in Op, HandsOut(p) PROVE FALSE
        OBVIOUS
      <3>1. p = o /\ g = Gen(o) /\ pc[o] = "ready"
        BY <1>1, <2>1 DEF HandsOut, Gen
      <3> QED  BY <2>4, <3>1 DEF IInv, OwnedInv, Handle
    <2>6. ~handed'
      <3>1. handed /\ link = g => g = Gen(o) /\ owned[o]
        BY <1>1 DEF HInv, HandedInv
      <3> QED  BY <2>1, <2>4, <2>5, <3>1 DEF LinkNext
    <2>7. CASE <<"connect", g>> \in fence
      <3>1. <<"disconnect", g>> \in tasks'
        BY <1>1, <1>4, <1>6, <2>2, <2>7 DEF LateCleanup, DisconnectCalls
      <3> QED  BY <2>1, <2>3, <2>6, <3>1 DEF HInv, HandedInv, KeptInv
    <2>8. CASE <<"connect", g>> \notin fence
      <3>1. owned'[o] /\ pc'[o] = "settling" /\ g = Gen(o)'
        BY <1>0, <1>1, <1>3, <1>6, <2>1, <2>8 DEF Goto, Gen
      <3> QED  BY <1>1, <2>1, <2>3, <2>6, <3>1 DEF HInv, HandedInv, KeptInv
    <2> QED  BY <2>7, <2>8
  <1> QED  BY <1>5, <1>6

(* An owner whose connection is up waits for the disconnect.               *)
LEMMA CloseKept == ASSUME IInv, IInv', HInv, LinkNext, NEW o \in Op, Close(o) PROVE HInv'
  <1>0. pc \in [Op -> Stage] /\ owned[o] /\ None \notin Op
    BY NoneAssumption DEF IInv, TypeOK, OwnedInv, Handle, Close, WriterCloses
  <1>1. /\ tasks \subseteq tasks'
        /\ UNCHANGED <<link, way, owned, kind, addressOwner, peripheralOwner>>
        /\ adapter' \in {adapter, None}
        /\ \A p \in Op \ {o} : pc'[p] = pc[p]
    BY <1>0 DEF Close, Fence, Goto, Free, owners, native
  <1>2. \/ pc'[o] = "closing" /\ <<"disconnect", Gen(o)>> \in tasks'
        \/ pc'[o] = "over" /\ ~(link = Gen(o) /\ addressOwner = link)
    <2> DEFINE cleanup == IF Owns(Gen(o)) THEN DisconnectCalls(link) ELSE {}
               waits == Owns(Gen(o)) /\ \E t \in tasks \cup cleanup : t[1] = "disconnect"
    <2>1. CASE waits
      <3>1. pc'[o] = "closing" /\ tasks' = tasks \cup DisconnectCalls(link) /\ Owns(Gen(o))
        BY <1>0, <2>1 DEF Close, Goto
      <3>2. ASSUME NEW t \in tasks, t[1] = "disconnect" PROVE t = <<"disconnect", Gen(o)>>
        <4>1. t \in Gatt /\ t = <<t[1], t[2]>>
          BY <3>2 DEF IInv, TypeOK, Task, Gatt, GattCall
        <4> QED  BY <1>0, <3>1, <3>2, <4>1, OwnersCalls DEF IInv
      <3>3. link # None => link = Gen(o)
        BY <1>0, <3>1 DEF IInv, OwnedInv
      <3>4. PICK t \in tasks \cup DisconnectCalls(link) : t[1] = "disconnect"
        BY <2>1
      <3>5. t = <<"disconnect", Gen(o)>>
        BY <3>2, <3>3, <3>4 DEF DisconnectCalls
      <3> QED  BY <3>1, <3>4, <3>5
    <2>2. CASE ~waits
      <3>1. pc'[o] = "over"
        BY <1>0, <2>2 DEF Close, Goto
      <3>2. ASSUME link = Gen(o), addressOwner = link PROVE FALSE
        <4>1. Owns(Gen(o))
          BY <1>0, <3>2 DEF HInv, ClosingInv, Owns
        <4>2. link # None
          BY <3>2, NoneAssumption DEF IInv, TypeOK, Gen, Generation
        <4>3. CASE \E t \in tasks : t[1] = "disconnect"
          BY <2>2, <4>1, <4>3
        <4>4. CASE ~ \E t \in tasks : t[1] = "disconnect"
          <5>1. <<"disconnect", link>> \in cleanup
            BY <4>1, <4>2, <4>4 DEF DisconnectCalls
          <5>2. waits
            BY <4>1, <5>1
          <5> QED  BY <2>2, <5>2
        <4> QED  BY <4>3, <4>4
      <3> QED  BY <3>1, <3>2
    <2> QED  BY <2>1, <2>2
  <1>3. ClosingInv'
    BY <1>0, <1>1, <1>2 DEF HInv, ClosingInv, Gen
  <1>4. CASE link' # None /\ \E p \in Op : HandsOut(p)
    BY <1>1, <1>3, <1>4, HandedOut
  <1>5. CASE ~(link' # None /\ \E p \in Op : HandsOut(p))
    <2>1. (handed' => handed) /\ (link # None /\ refused => refused')
      BY <1>1, <1>5 DEF LinkNext
    <2>2. link # None => link[1] \in Op
      BY DEF IInv, TypeOK, Generation
    <2> QED  BY <1>0, <1>1, <1>2, <1>3, <2>1, <2>2 DEF HInv, HandedInv, KeptInv, Gen
  <1> QED  BY <1>4, <1>5

(* Who no longer waits leaves the disconnect under way behind.             *)
LEMMA CloseTimesOutKept ==
    ASSUME IInv, IInv', HInv, LinkNext, NEW o \in Op, CloseTimesOut(o)
    PROVE  HInv'
  <1>0. pc \in [Op -> Stage] /\ None \notin Op /\ pc[o] = "closing"
    BY NoneAssumption DEF IInv, TypeOK, CloseTimesOut
  <1>1. /\ UNCHANGED <<link, way, owned, kind, tasks, addressOwner, peripheralOwner>>
        /\ adapter' \in {adapter, None} /\ adapter' # o
        /\ \A p \in Op \ {o} : pc'[p] = pc[p]
        /\ pc'[o] = IF kind[o] = "writer" /\ adapter # o THEN "ready" ELSE "over"
    BY <1>0 DEF CloseTimesOut, AfterClose, Goto, Free, owners, native
  <1>2. ClosingInv'
    BY <1>0, <1>1 DEF HInv, ClosingInv, Gen
  <1>3. CASE link' # None /\ \E p \in Op : HandsOut(p)
    BY <1>1, <1>2, <1>3, HandedOut
  <1>4. CASE ~(link' # None /\ \E p \in Op : HandsOut(p))
    <2>1. (handed' => handed) /\ (link # None /\ refused => refused')
      BY <1>1, <1>4 DEF LinkNext
    <2>2. link # None => link[1] \in Op
      BY DEF IInv, TypeOK, Generation
    <2>3. HandedInv'
      BY <1>0, <1>1, <2>1, <2>2 DEF HInv, HandedInv, Gen
    <2>4. <<"disconnect", Gen(o)>> \in tasks
      BY <1>0 DEF HInv, ClosingInv
    <2>5. KeptInv'
      BY <1>0, <1>1, <2>1, <2>2, <2>4 DEF HInv, HandedInv, KeptInv, Gen
    <2> QED  BY <1>2, <2>3, <2>5 DEF HInv
  <1> QED  BY <1>3, <1>4

(* A disconnect that is rejected makes the connection a refused one.       *)
LEMMA DisconnectSettlesKept ==
    ASSUME IInv, IInv', HInv, LinkNext, DisconnectSettles
    PROVE  HInv'
  <1>1. PICK g \in Generation, ok \in BOOLEAN :
          /\ <<"disconnect", g>> \in tasks
          /\ tasks' = tasks \ {<<"disconnect", g>>}
          /\ \/ ok /\ link' = None
             \/ ~ok /\ link' = link
          /\ pc' = [o \in Op |-> IF pc[o] = "closing" THEN AfterClose(o, ok) ELSE pc[o]]
          /\ adapter' = IF \E o \in Op : adapter = o /\ pc[o] = "closing" THEN None ELSE adapter
          /\ UNCHANGED <<kind, way, owned, addressOwner, peripheralOwner>>
    BY DEF DisconnectSettles, owners, native
  <1>2. adapter' \in {adapter, None} /\ None \notin Op
    BY <1>1, NoneAssumption
  <1>3. ASSUME NEW o \in Op
        PROVE  \/ pc[o] # "closing" /\ pc'[o] = pc[o]
               \/ pc[o] = "closing" /\ pc'[o] = "over"
               \/ pc[o] = "closing" /\ pc'[o] = "ready" /\ adapter # o
    BY <1>1 DEF AfterClose
  <1>4. ClosingInv'
    BY <1>1, <1>2, <1>3 DEF HInv, ClosingInv, Gen
  <1>5. CASE link' # None /\ \E p \in Op : HandsOut(p)
    BY <1>1, <1>4, <1>5, HandedOut
  <1>6. CASE ~(link' # None /\ \E p \in Op : HandsOut(p))
    <2>1. handed' => handed /\ ~ok /\ link' = link
      BY <1>1, <1>6 DEF LinkNext
    <2>2. link' # None => refused'
      BY <1>1 DEF LinkNext, Rejected
    <2>3. link # None => link[1] \in Op
      BY DEF IInv, TypeOK, Generation
    <2>4. ASSUME handed' PROVE pc'[link[1]] = IF pc[link[1]] = "closing" THEN "ready"
                                              ELSE pc[link[1]]
      BY <1>1, <2>1, <2>3, <2>4 DEF AfterClose, HInv, HandedInv
    <2>5. HandedInv'
      BY <1>1, <1>2, <2>1, <2>3, <2>4 DEF HInv, HandedInv, Gen
    <2>6. KeptInv'
      BY <1>1, <2>1, <2>2, <2>3, <2>4 DEF HInv, KeptInv, Gen
    <2> QED  BY <1>4, <2>5, <2>6 DEF HInv
  <1> QED  BY <1>5, <1>6

LEMMA DropKept == ASSUME HInv, LinkNext, Drop PROVE HInv'
  BY DEF HInv, ClosingInv, HandedInv, KeptInv, LinkNext, Drop, program, owners, Gen

LEMMA LinkStutters == ASSUME HInv, UNCHANGED linkVars PROVE HInv'
  BY DEF linkVars, vars, program, owners, native, HInv, ClosingInv, HandedInv, KeptInv, Gen

(* A connection that is up is closed by a handle that knows of it, is      *)
(* being closed, or could not be closed and is not that of a writer that   *)
(* was handed out.                                                         *)
THEOREM LinkKept == LinkSpec => []NoLinkLost
  <1>1. LinkInit => HInv
    BY NoneAssumption DEF LinkInit, Init, HInv, ClosingInv, HandedInv, KeptInv
  <1>2. IInv /\ IInv' /\ HInv /\ [LinkNext]_linkVars => HInv'
    <2> SUFFICES ASSUME IInv, IInv', HInv, LinkNext PROVE HInv'
      BY LinkStutters
    <2>1. ASSUME NEW o \in Op, Step(o) PROVE HInv'
      BY <2>1, QuietSteps, BeginKept, CloseTimesOutKept, CloseKept DEF Step
    <2>2. ASSUME NEW o \in Op, Settle(o) PROVE HInv'
      BY <2>2, QuietSteps, ConnectSettlesKept DEF Settle
    <2> QED
      BY <2>1, <2>2, QuietSteps, CloseKept, DisconnectSettlesKept, DropKept DEF LinkNext, Next
  <1>3. LinkSpec => Spec
    <2>1. LinkInit => Init
      BY DEF LinkInit
    <2>2. [LinkNext]_linkVars => [Next]_vars
      BY DEF LinkNext, linkVars
    <2> QED  BY <2>1, <2>2, PTL DEF LinkSpec, Spec
  <1>4. HInv => NoLinkLost
    BY DEF HInv, KeptInv, NoLinkLost
  <1> QED  BY <1>1, <1>2, <1>3, <1>4, Inductive, PTL DEF LinkSpec
=============================================================================
