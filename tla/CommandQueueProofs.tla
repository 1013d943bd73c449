------------------------- MODULE CommandQueueProofs -------------------------
(***************************************************************************)
(* The safety of CommandQueue for any number of callers and closers.       *)
(***************************************************************************)
EXTENDS CommandQueue, SequenceTheorems, TLAPS

At == {"polling", "claimed", "running"}         \* the fiber drains the mailbox
Busy == {"running", "reaping"}                  \* it may have a command running
Pending == {"starting", "forking", "waiting"}   \* the caller is yet to be answered

(* The elements of t come in the order they have in s.                     *)
Agrees(t, s) == \A i, j \in 1..Len(t) : i < j => Precedes(s, t[i], t[j])

(* Requests and batches are numbered by what publishes them.               *)
CallerInv ==
    /\ IsInjective(published)
    /\ \A r \in Request :
          /\ r \in ToSet(published) <=> batchOf[r] # None
          /\ pc[r] \in {"new", "rejected"} <=> batchOf[r] = None
          /\ completion[r] # None => batchOf[r] # None
          /\ drain[r] # "none" => pc[r] \notin {"new", "starting", "forking", "rejected"}
          /\ batchOf[r] # None => batchOf[batchOf[r]] = batchOf[r]

(* A batch holds requests that were added to it, in publication order.     *)
BatchInv ==
    \A b \in Batch :
       /\ \A r \in ToSet(requests[b]) : batchOf[r] = b /\ pc[r] \notin {"joining", "cancelled"}
       /\ Agrees(requests[b], published)

(* A batch is claimed once, from the mailbox, whose last one is the tail.  *)
MailboxInv ==
    /\ \A b \in ToSet(mailbox) : batchOf[b] = b /\ selected[b] = None
    /\ tail # None => mailbox # <<>> /\ tail = Last(mailbox)
    /\ closed => tail = None
    /\ active # None => selected[active] # None
    /\ \A b \in Batch :
          /\ selected[b] # None => batchOf[b] = b /\ batchOf[selected[b]] = b
          /\ command[b] # "none" => selected[b] # None
          /\ result[b] # None => command[b] = "ended"
    /\ \A w \in Worker : mine[w] # None => selected[mine[w]] # None

(* One worker drains; once closed, it is the one that close joins.         *)
WorkerInv ==
    /\ \A w \in Worker :
          /\ drain[w] \in At => worker = w
          /\ drain[w] = "reaping" => closed /\ worker = None /\ joined = w
          /\ worker = w => drain[w] \in At \cup {"none"}
          /\ pc[w] = "forking" <=> worker = w /\ drain[w] = "none"
          /\ stop[w] => closed
    /\ closed => worker \in {joined, None}

(* A command runs under the worker that claimed its batch.                 *)
CommandInv ==
    /\ \A b \in Batch :
          command[b] \in Executing => \E w \in Worker : drain[w] \in Busy /\ mine[w] = b
    /\ \A w \in Worker :
          /\ drain[w] \in {"claimed", "running"} => mine[w] # None /\ active = mine[w]
          /\ drain[w] = "claimed" => command[mine[w]] = "none"
          /\ drain[w] = "running" => command[mine[w]] # "none"
          /\ drain[w] = "polling" /\ mine[w] # None => command[mine[w]] = "ended"
          /\ drain[w] = "none" => mine[w] = None
    /\ active # None => \E w \in Worker : drain[w] \in {"claimed", "running"} /\ mine[w] = active

(* Before close, only the callers of a batch interrupt its command, once   *)
(* all have left it, and the last to leave waits for its end.              *)
AbandonInv ==
    /\ \A r \in Request :
          pc[r] = "joining" => requests[batchOf[r]] = <<>> /\ selected[batchOf[r]] # None
    /\ ~closed =>
          /\ \A b \in Batch :
                /\ command[b] = "stopping" \/ result[b] = "interrupt" => requests[b] = <<>>
                /\ command[b] \in Executing =>
                      requests[b] # <<>> \/ \E r \in Request : batchOf[r] = b /\ pc[r] = "joining"
          /\ \A r \in Request : completion[r] # "interrupt"

(* A caller that is yet to be answered is in a batch that will be settled. *)
PendingInv ==
    \A r \in Request : pc[r] \in Pending /\ completion[r] = None =>
       /\ r \in ToSet(requests[batchOf[r]])
       /\ IF closed THEN batchOf[r] \in doomed ELSE batchOf[r] \in queued \cup {active}

(* One closer fails the batches and joins the worker.                      *)
ClosingInv ==
    /\ \A k \in Closer :
          /\ closing[k] # "idle" => closed
          /\ closing[k] \in {"joining", "done"} =>
                doomed = {} /\ (joined # None => WorkerStarted(joined))
          /\ closing[k] = "done" /\ joined # None => drain[joined] = "exited"
    /\ \A k, l \in Closer :
          closing[k] \in {"failing", "joining"} /\ closing[l] \in {"failing", "joining", "done"}
             => k = l

(* The selected request is the newest of its batch and older than those of *)
(* the batches still in the mailbox, which are in publication order.       *)
NewestInv ==
    /\ \A b \in Batch : selected[b] # None =>
          \A r \in ToSet(requests[b]) : ~Before(selected[b], r)
    /\ \A r \in Request : completion[r] = "done" =>
          selected[batchOf[r]] # None /\ ~Before(selected[batchOf[r]], r)

OrderInv ==
    /\ \A a, b \in Batch : Precedes(mailbox, a, b) =>
          \A r \in ToSet(requests[a]), s \in ToSet(requests[b]) : Before(r, s)
    /\ \A d \in Batch, b \in ToSet(mailbox) : selected[d] # None =>
          \A r \in ToSet(requests[b]) : Before(selected[d], r)
    /\ \A w \in Worker, d \in Batch :
          drain[w] = "claimed" /\ selected[d] # None /\ d # mine[w] =>
             Before(selected[d], selected[mine[w]])

IInv == /\ TypeOK /\ CallerInv /\ BatchInv /\ MailboxInv /\ WorkerInv /\ CommandInv
        /\ AbandonInv /\ PendingInv /\ ClosingInv /\ NewestInv /\ OrderInv

-----------------------------------------------------------------------------
(* Sequences: the elements of one that grows, loses one or is cut.         *)
LEMMA EmptySeqFacts ==
  /\ \A S : <<>> \in Seq(S)
  /\ ToSet(<<>>) = {} /\ IsInjective(<<>>)
  /\ \A s : Agrees(<<>>, s)
  /\ \A a, b : ~Precedes(<<>>, a, b)
  BY DEF ToSet, IsInjective, Agrees, Precedes

(* A sequence that is not empty has a last element, which is among its     *)
(* elements.                                                               *)
LEMMA NonEmptySet == ASSUME NEW S, NEW s \in Seq(S), s # <<>>
                     PROVE  ToSet(s) # {} /\ Last(s) \in ToSet(s) /\ ToSet(s) \subseteq S
  BY DEF ToSet, Last

(* Appending e to s adds e to its elements, behind all others, and changes *)
(* no order.                                                               *)
LEMMA GrownSeq == ASSUME NEW S, NEW s \in Seq(S), NEW e \in S
                  PROVE  /\ Append(s, e) \in Seq(S)
                         /\ ToSet(Append(s, e)) = ToSet(s) \cup {e}
                         /\ Append(s, e) # <<>> /\ Last(Append(s, e)) = e
                         /\ IsInjective(s) /\ e \notin ToSet(s) => IsInjective(Append(s, e))
                         /\ \A a, b : Precedes(Append(s, e), a, b) <=>
                                         Precedes(s, a, b) \/ (a \in ToSet(s) /\ b = e)
  <1> DEFINE t == Append(s, e)
  <1>1. /\ t \in Seq(S) /\ t # <<>>
        /\ Len(t) = Len(s) + 1 /\ t[Len(s) + 1] = e
        /\ \A i \in 1..Len(s) : t[i] = s[i]
    BY AppendProperties
  <1> HIDE DEF t
  <1>2. ToSet(t) = ToSet(s) \cup {e} /\ Last(t) = e
    BY <1>1 DEF ToSet, Last
  <1>3. IsInjective(s) /\ e \notin ToSet(s) => IsInjective(t)
    BY <1>1 DEF ToSet, IsInjective
  <1>4. ASSUME NEW a, NEW b
        PROVE  Precedes(t, a, b) <=> Precedes(s, a, b) \/ (a \in ToSet(s) /\ b = e)
    <2>1. ASSUME NEW i \in 1..Len(t), NEW j \in 1..Len(t), i < j, t[i] = a, t[j] = b
          PROVE  Precedes(s, a, b) \/ (a \in ToSet(s) /\ b = e)
      <3>1. i \in 1..Len(s) /\ s[i] = a
        BY <1>1, <2>1
      <3>2. CASE j \in 1..Len(s)
        <4>1. s[j] = b /\ s[i] = a /\ i < j
          BY <1>1, <2>1, <3>1, <3>2
        <4> QED  BY <3>1, <3>2, <4>1 DEF Precedes
      <3>3. CASE j = Len(s) + 1
        BY <1>1, <2>1, <3>1, <3>3 DEF ToSet
      <3> QED  BY <1>1, <3>2, <3>3
    <2>2. Precedes(s, a, b) => Precedes(t, a, b)
      BY <1>1 DEF Precedes
    <2>3. ASSUME NEW i \in 1..Len(s), a = s[i], b = e PROVE Precedes(t, a, b)
      <3>1. i < Len(s) + 1 /\ i \in 1..Len(t) /\ Len(s) + 1 \in 1..Len(t)
        BY <1>1
      <3> QED  BY <1>1, <2>3, <3>1 DEF Precedes
    <2> QED  BY <2>1, <2>2, <2>3 DEF Precedes, ToSet
  <1> QED  BY <1>1, <1>2, <1>3, <1>4 DEF t

(* Precedence of distinct elements is a strict order.                      *)
LEMMA StrictOrder == ASSUME NEW S, NEW s \in Seq(S), IsInjective(s), NEW a, NEW b, NEW c
                     PROVE  /\ ~Precedes(s, a, a)
                            /\ Precedes(s, a, b) /\ Precedes(s, b, c) => Precedes(s, a, c)
                            /\ Precedes(s, a, b) => a \in ToSet(s) /\ b \in ToSet(s)
  BY DEF Precedes, IsInjective, ToSet

(* Nothing comes after the last element. *)
LEMMA NothingAfterLast == ASSUME NEW S, NEW s \in Seq(S), IsInjective(s), NEW b
                          PROVE  ~Precedes(s, Last(s), b)
  BY DEF Precedes, IsInjective, Last

(* Cutting s after its first n elements: what is left keeps its order, its *)
(* end and its distinctness, and comes after what was cut off.             *)
LEMMA CutSeq == ASSUME NEW S, NEW s \in Seq(S), IsInjective(s), NEW n \in 0..Len(s)
                PROVE  LET h == SubSeq(s, 1, n)
                           t == SubSeq(s, n + 1, Len(s))
                       IN  /\ t \in Seq(S) /\ IsInjective(t)
                           /\ ToSet(h) = {s[i] : i \in 1..n}
                           /\ ToSet(t) = ToSet(s) \ ToSet(h)
                           /\ t # <<>> => Last(t) = Last(s)
                           /\ t = <<>> => ToSet(h) = ToSet(s)
                           /\ \A a, b : Precedes(t, a, b) => Precedes(s, a, b)
                           /\ \A b \in ToSet(t) : n # 0 => Precedes(s, s[n], b)
  <1> DEFINE h == SubSeq(s, 1, n)
             t == SubSeq(s, n + 1, Len(s))
  <1>1. h \in Seq(S) /\ Len(h) = n /\ \A i \in 1..n : h[i] = s[i]
    BY SubSeqProperties
  <1>2. t \in Seq(S) /\ Len(t) = Len(s) - n /\ \A i \in 1..(Len(s) - n) : t[i] = s[n + i]
    <2>1. \A i \in n + 1..Len(s) : s[i] \in S
      OBVIOUS
    <2>2. Len(t) = (IF n + 1 <= Len(s) THEN Len(s) - (n + 1) + 1 ELSE 0) /\ t \in Seq(S)
          /\ \A i \in 1..(Len(s) - (n + 1) + 1) : t[i] = s[(n + 1) + i - 1]
      BY <2>1, SubSeqProperties
    <2> QED  BY <2>2
  <1> HIDE DEF h, t
  <1>3. IsInjective(t)
    BY <1>2 DEF IsInjective
  <1>4. ToSet(h) = {s[i] : i \in 1..n}
    BY <1>1 DEF ToSet
  <1>5. ToSet(t) = ToSet(s) \ ToSet(h)
    <2>1. ToSet(t) = {s[i] : i \in (n + 1)..Len(s)}
      <3>1. ASSUME NEW x \in ToSet(t) PROVE x \in {s[i] : i \in (n + 1)..Len(s)}
        BY <1>2 DEF ToSet
      <3>2. ASSUME NEW i \in (n + 1)..Len(s) PROVE s[i] \in ToSet(t)
        <4>1. i - n \in 1..Len(t) /\ t[i - n] = s[i]
          BY <1>2
        <4> QED  BY <4>1, <1>2 DEF ToSet
      <3> QED  BY <3>1, <3>2
    <2>2. ASSUME NEW i \in (n + 1)..Len(s) PROVE s[i] \in ToSet(s) \ ToSet(h)
      BY <1>4 DEF ToSet, IsInjective
    <2>3. ASSUME NEW i \in 1..Len(s), i \notin (n + 1)..Len(s) PROVE s[i] \in ToSet(h)
      <3>1. i \in 1..n
        BY <2>3
      <3> QED  BY <3>1, <1>4
    <2>4. ASSUME NEW x \in ToSet(s) \ ToSet(h) PROVE x \in ToSet(t)
      BY <2>1, <2>3 DEF ToSet
    <2>5. ASSUME NEW x \in ToSet(t) PROVE x \in ToSet(s) \ ToSet(h)
      BY <2>1, <2>2
    <2> QED  BY <2>4, <2>5
  <1>6. t # <<>> => Last(t) = Last(s)
    BY <1>2 DEF Last
  <1>7. t = <<>> => ToSet(h) = ToSet(s)
    <2>1. t = <<>> => ToSet(t) = {}
      BY DEF ToSet
    <2>2. \A i \in 1..n : s[i] \in ToSet(s)
      BY DEF ToSet
    <2> QED  BY <2>1, <2>2, <1>4, <1>5
  <1>8. ASSUME NEW a, NEW b, Precedes(t, a, b) PROVE Precedes(s, a, b)
    <2>1. PICK i, j \in 1..Len(t) : i < j /\ t[i] = a /\ t[j] = b
      BY <1>8 DEF Precedes
    <2>2. n + i \in 1..Len(s) /\ n + j \in 1..Len(s) /\ s[n + i] = a /\ s[n + j] = b
      BY <1>2, <2>1
    <2>3. n + i < n + j
      BY <1>2, <2>1
    <2> QED  BY <2>2, <2>3 DEF Precedes
  <1>9. ASSUME NEW b \in ToSet(t), n # 0 PROVE Precedes(s, s[n], b)
    <2>1. PICK j \in 1..Len(t) : t[j] = b
      BY <1>9 DEF ToSet
    <2>2. n \in 1..Len(s) /\ n + j \in 1..Len(s) /\ s[n + j] = b /\ n < n + j
      BY <1>2, <1>9, <2>1
    <2> QED  BY <2>2 DEF Precedes
  <1> QED  BY <1>2, <1>3, <1>4, <1>5, <1>6, <1>7, <1>8, <1>9 DEF h, t

(* Removing e from s removes it from its elements and changes no order. *)
LEMMA ThinnedSeq == ASSUME NEW S, NEW s \in Seq(S), IsInjective(s), NEW e, NEW o
                    PROVE  /\ RemoveFirst(s, e) \in Seq(S)
                           /\ ToSet(RemoveFirst(s, e)) = ToSet(s) \ {e}
                           /\ Agrees(s, o) => Agrees(RemoveFirst(s, e), o)
  <1>1. CASE ~\E i \in 1..Len(s) : s[i] = e
    BY <1>1 DEF RemoveFirst, ToSet
  <1>2. ASSUME NEW i \in 1..Len(s), s[i] = e
        PROVE  RemoveFirst(s, e) = SubSeq(s, 1, i - 1) \o SubSeq(s, i + 1, Len(s))
    <2>1. {j \in 1..Len(s) : s[j] = e} = {i}
      BY <1>2 DEF IsInjective
    <2>2. SelectInSeq(s, LAMBDA v : v = e) = Min({i})
      BY <2>1 DEF SelectInSeq
    <2>3. Min({i}) = i
      BY DEF Min
    <2> QED  BY <1>2, <2>2, <2>3 DEF RemoveFirst, RemoveAt
  <1>3. ASSUME NEW i \in 1..Len(s), s[i] = e
        PROVE  LET t == RemoveFirst(s, e)
               IN  /\ t \in Seq(S) /\ Len(t) = Len(s) - 1
                   /\ \A j \in 1..Len(t) : t[j] = IF j < i THEN s[j] ELSE s[j + 1]
    <2> DEFINE h == SubSeq(s, 1, i - 1)
               u == SubSeq(s, i + 1, Len(s))
    <2>1. h \in Seq(S) /\ Len(h) = i - 1 /\ \A j \in 1..(i - 1) : h[j] = s[j]
      BY SubSeqProperties
    <2>2. /\ u \in Seq(S) /\ Len(u) = (IF i + 1 <= Len(s) THEN Len(s) - (i + 1) + 1 ELSE 0)
          /\ \A j \in 1..(Len(s) - (i + 1) + 1) : u[j] = s[(i + 1) + j - 1]
      <3>1. \A j \in i + 1..Len(s) : s[j] \in S
        OBVIOUS
      <3> QED  BY <3>1, SubSeqProperties
    <2>3. RemoveFirst(s, e) = h \o u
      BY <1>2, <1>3
    <2> HIDE DEF h, u
    <2>4. /\ h \o u \in Seq(S) /\ Len(h \o u) = Len(h) + Len(u)
          /\ \A j \in 1..Len(h) + Len(u) : (h \o u)[j] = IF j <= Len(h) THEN h[j] ELSE u[j - Len(h)]
      BY <2>1, <2>2, ConcatProperties
    <2> QED  BY <2>1, <2>2, <2>3, <2>4
  <1>4. ASSUME NEW i \in 1..Len(s), s[i] = e
        PROVE  ToSet(RemoveFirst(s, e)) = ToSet(s) \ {e}
    <2> DEFINE t == RemoveFirst(s, e)
    <2>1. /\ t \in Seq(S) /\ Len(t) = Len(s) - 1
          /\ \A j \in 1..Len(t) : t[j] = IF j < i THEN s[j] ELSE s[j + 1]
      BY <1>3, <1>4
    <2> HIDE DEF t
    <2>2. ASSUME NEW x \in ToSet(t) PROVE x \in ToSet(s) \ {e}
      BY <2>1, <1>4 DEF ToSet, IsInjective
    <2>3. ASSUME NEW j \in 1..Len(s), s[j] # e PROVE s[j] \in ToSet(t)
      <3>1. CASE j < i
        BY <3>1, <2>1 DEF ToSet
      <3>2. CASE j > i
        <4>1. j - 1 \in 1..Len(t) /\ t[j - 1] = s[j]
          BY <3>2, <2>1
        <4> QED  BY <4>1, <2>1 DEF ToSet
      <3> QED  BY <3>1, <3>2, <2>3, <1>4
    <2>4. ASSUME NEW x \in ToSet(s) \ {e} PROVE x \in ToSet(t)
      BY <2>3 DEF ToSet
    <2>5. ToSet(t) = ToSet(s) \ {e}
      BY <2>2, <2>4
    <2> QED  BY <2>5 DEF t
  <1>5. ASSUME NEW i \in 1..Len(s), s[i] = e, Agrees(s, o)
        PROVE  Agrees(RemoveFirst(s, e), o)
    <2> DEFINE t == RemoveFirst(s, e)
    <2>1. /\ t \in Seq(S) /\ Len(t) = Len(s) - 1
          /\ \A j \in 1..Len(t) : t[j] = IF j < i THEN s[j] ELSE s[j + 1]
      BY <1>3, <1>5
    <2> HIDE DEF t
    <2>2. ASSUME NEW j \in 1..Len(t), NEW k \in 1..Len(t), j < k PROVE Precedes(o, t[j], t[k])
      <3>1. j \in 1..Len(s) /\ k \in 1..Len(s) /\ j + 1 \in 1..Len(s) /\ k + 1 \in 1..Len(s)
        BY <2>1
      <3>2. CASE k < i
        <4>1. t[j] = s[j] /\ t[k] = s[k]
          BY <3>2, <2>1, <2>2
        <4> QED  BY <4>1, <3>1, <2>2, <1>5 DEF Agrees
      <3>3. CASE j < i /\ k >= i
        <4>1. t[j] = s[j] /\ t[k] = s[k + 1] /\ j < k + 1
          BY <3>3, <2>1, <2>2
        <4> QED  BY <4>1, <3>1, <1>5 DEF Agrees
      <3>4. CASE j >= i
        <4>1. t[j] = s[j + 1] /\ t[k] = s[k + 1] /\ j + 1 < k + 1
          BY <3>4, <2>1, <2>2
        <4> QED  BY <4>1, <3>1, <1>5 DEF Agrees
      <3> QED  BY <3>2, <3>3, <3>4
    <2> QED  BY <2>2 DEF Agrees, t
  <1> QED  BY <1>1, <1>3, <1>4, <1>5

-----------------------------------------------------------------------------
(* How the order of a batch shows in the order of publication.             *)
LEMMA BatchOrder == ASSUME NEW S, NEW s \in Seq(S), NEW p \in Seq(S), IsInjective(p), Agrees(s, p)
                    PROVE  /\ IsInjective(s)
                           /\ \A r \in ToSet(s) : ~Precedes(p, Last(s), r)
  <1>1. ASSUME NEW i \in 1..Len(s), NEW j \in 1..Len(s), s[i] = s[j], i < j PROVE FALSE
    <2>1. Precedes(p, s[i], s[i])
      BY <1>1 DEF Agrees
    <2> QED  BY <2>1, StrictOrder
  <1>2. IsInjective(s)
    <2> SUFFICES ASSUME NEW i \in 1..Len(s), NEW j \in 1..Len(s), s[i] = s[j] PROVE i = j
      BY DEF IsInjective
    <2> QED  BY <1>1
  <1>3. ASSUME NEW i \in 1..Len(s), Precedes(p, s[Len(s)], s[i]) PROVE FALSE
    <2>1. CASE i < Len(s)
      <3>1. Precedes(p, s[i], s[Len(s)])
        BY <2>1 DEF Agrees
      <3> QED  BY <3>1, <1>3, StrictOrder
    <2>2. CASE i = Len(s)
      BY <2>2, <1>3, StrictOrder
    <2> QED  BY <2>1, <2>2
  <1> QED  BY <1>2, <1>3 DEF ToSet, Last

(* Settling requests completes those that are not completed, and no other. *)
LEMMA SettleFacts == ASSUME TypeOK, NEW rs, NEW o \in Outcome \cup {None}, Settle(rs, o)
                     PROVE  /\ completion' \in [Request -> Outcome \cup {None}]
                            /\ \A r \in Request :
                                  completion'[r] = IF r \in rs /\ completion[r] = None
                                                   THEN o ELSE completion[r]
  BY DEF TypeOK, Settle

(* What batches, the mailbox and the publications hold. *)
LEMMA RequestsTyped == ASSUME TypeOK
                       PROVE  /\ \A b \in Batch : ToSet(requests[b]) \subseteq Request
                              /\ ToSet(mailbox) \subseteq Batch
                              /\ ToSet(published) \subseteq Request
  BY NonEmptySet, EmptySeqFacts DEF TypeOK

(* At the start there is no batch, no worker and no closer. *)
LEMMA InitInv == Init => IInv
  <1> SUFFICES ASSUME Init PROVE IInv
    OBVIOUS
  <1>1. TypeOK
    BY CoalescingAssumption, EmptySeqFacts DEF Init, TypeOK, CallerStage, DrainStage
  <1>2. CallerInv /\ WorkerInv /\ ClosingInv
    BY NoneAssumption, EmptySeqFacts
    DEF Init, CallerInv, WorkerInv, ClosingInv, At, Batch, Worker
  <1>3. BatchInv /\ NewestInv
    BY NoneAssumption, EmptySeqFacts DEF Init, BatchInv, NewestInv, Outcome
  <1>5. PendingInv /\ AbandonInv
    BY NoneAssumption DEF Init, PendingInv, AbandonInv, Pending, Executing, Outcome
  <1>4. MailboxInv /\ CommandInv /\ OrderInv
    BY NoneAssumption, EmptySeqFacts
    DEF Init, MailboxInv, CommandInv, OrderInv, Executing
  <1> QED  BY <1>1, <1>2, <1>3, <1>4, <1>5 DEF IInv

(* Settling one request that is not completed completes it. *)
LEMMA SettleSingle == ASSUME TypeOK, NEW r \in Request, completion[r] = None, NEW o, Settle({r}, o)
                      PROVE  completion' = [completion EXCEPT ![r] = o]
  BY DEF TypeOK, Settle

(* A request is rejected, joins the tail, which nobody has claimed, or     *)
(* makes a batch that becomes the last of the mailbox: in each case it is  *)
(* the newest.                                                             *)
LEMMA PublishKeeps == ASSUME IInv, NEW r \in Request, Publish(r) PROVE IInv'
  <1>1. CASE closed
    <2>1. /\ pc' = [pc EXCEPT ![r] = "rejected"] /\ pc[r] = "new"
          /\ UNCHANGED <<mailboxVars, batchOf, completion, published, workerVars, commandVars,
                         closerVars>>
      BY <1>1 DEF Publish, Goto
    <2>2. TypeOK'
      BY <1>1, <2>1
      DEF mailboxVars, workerVars, commandVars, closerVars, IInv, TypeOK, CallerStage
    <2>3. CallerInv'
      BY <1>1, <2>1 DEF workerVars, IInv, CallerInv
    <2>4. BatchInv'
      BY <1>1, <2>1 DEF mailboxVars, IInv, BatchInv
    <2>5. MailboxInv'
      BY <1>1, <2>1
      DEF mailboxVars, workerVars, commandVars, closerVars, IInv, MailboxInv
    <2>6. WorkerInv'
      BY <1>1, <2>1 DEF mailboxVars, workerVars, closerVars, IInv, TypeOK, WorkerInv
    <2>7. CommandInv'
      BY <1>1, <2>1 DEF mailboxVars, workerVars, commandVars, IInv, CommandInv
    <2>8. AbandonInv'
      BY <1>1, <2>1 DEF mailboxVars, commandVars, IInv, AbandonInv
    <2>9. PendingInv'
      BY <1>1, <2>1
      DEF mailboxVars, workerVars, commandVars, closerVars, IInv, TypeOK, PendingInv,
          Batch, At, Pending
    <2>10. ClosingInv'
      BY <1>1, <2>1
      DEF mailboxVars, workerVars, commandVars, closerVars, IInv, ClosingInv, At,
          WorkerStarted
    <2>11. NewestInv'
      BY <1>1, <2>1
      DEF mailboxVars, workerVars, commandVars, closerVars, IInv, CommandInv, NewestInv,
          Batch, Before
    <2>12. OrderInv'
      BY <1>1, <2>1
      DEF mailboxVars, workerVars, commandVars, closerVars, IInv, CommandInv, OrderInv,
          Batch, Before
    <2> QED  BY <2>2, <2>3, <2>4, <2>5, <2>6, <2>7, <2>8, <2>9, <2>10, <2>11, <2>12
         DEF IInv
  <1>2. CASE ~closed
    <2> DEFINE joins == coalesce /\ tail # None
               b == IF joins THEN tail ELSE r
    <2>1. /\ pc[r] = "new" /\ batchOf[r] = None /\ completion[r] = None /\ drain[r] = "none"
          /\ r \notin ToSet(published) /\ r \notin ToSet(mailbox)
          /\ requests[r] = <<>> /\ selected[r] = None
          /\ \A q \in Request : batchOf[q] # r
      <3>1. /\ pc[r] = "new" /\ batchOf[r] = None /\ completion[r] = None /\ drain[r] = "none"
            /\ r \notin ToSet(published) /\ r \notin ToSet(mailbox)
        BY <1>2, NoneAssumption DEF IInv, Publish, CallerInv, MailboxInv
      <3>2. \A q \in Request : batchOf[q] # r
        BY <3>1, NoneAssumption DEF IInv, CallerInv
      <3>3. requests[r] = <<>>
        BY <3>2, NonEmptySet DEF IInv, TypeOK, BatchInv, Batch
      <3>4. selected[r] = None
        BY <3>1, NoneAssumption DEF IInv, MailboxInv, Batch
      <3> QED  BY <3>1, <3>2, <3>3, <3>4
    <2>2. /\ b \in Request /\ b # None /\ b \in ToSet(mailbox) \cup {r}
          /\ selected[b] = None /\ b # active /\ command[b] = "none" /\ result[b] = None
          /\ \A w \in Worker : mine[w] # b
          /\ b # r => batchOf[b] = b
      <3>1. CASE joins
        <4>1. mailbox # <<>> /\ tail = Last(mailbox) /\ mailbox \in Seq(Request)
          BY <3>1 DEF IInv, MailboxInv, TypeOK, Batch
        <4>2. b = tail /\ tail \in ToSet(mailbox) /\ ToSet(mailbox) \subseteq Request
          BY <3>1, <4>1, NonEmptySet
        <4>3. selected[b] = None /\ batchOf[b] = b
          BY <4>2 DEF IInv, MailboxInv
        <4> QED  BY <4>2, <4>3, NoneAssumption DEF IInv, MailboxInv, Batch
      <3>2. CASE ~joins
        BY <3>2, <2>1 DEF IInv, MailboxInv, Batch
      <3> QED  BY <3>1, <3>2
    <2>3. /\ mailbox' \in Seq(Request) /\ IsInjective(mailbox')
          /\ ToSet(mailbox') = ToSet(mailbox) \cup {b} /\ queued' = ToSet(mailbox')
          /\ tail' = b /\ mailbox' # <<>> /\ Last(mailbox') = b
          /\ \A a, c : Precedes(mailbox', a, c) =>
                Precedes(mailbox, a, c) \/ (a \in ToSet(mailbox) /\ c = b /\ b = r)
      <3>1. mailbox' = (IF joins THEN mailbox ELSE Append(mailbox, b)) /\ queued' = queued \cup {b}
            /\ tail' = b
        BY <1>2 DEF Publish
      <3>2. queued = ToSet(mailbox) /\ mailbox \in Seq(Request) /\ IsInjective(mailbox)
        BY <1>2 DEF IInv, TypeOK, Batch
      <3>3. CASE joins
        <4>1. mailbox # <<>> /\ b = Last(mailbox) /\ mailbox' = mailbox
          BY <3>1, <3>3 DEF IInv, MailboxInv
        <4> HIDE DEF b, joins
        <4>2. b \in ToSet(mailbox)
          BY <4>1, <3>2, NonEmptySet
        <4> QED  BY <3>1, <3>2, <4>1, <4>2
      <3>4. CASE ~joins
        <4>1. mailbox' = Append(mailbox, r) /\ b = r
          BY <3>1, <3>4
        <4> HIDE DEF b, joins
        <4>2. /\ Append(mailbox, r) \in Seq(Request) /\ IsInjective(Append(mailbox, r))
              /\ ToSet(Append(mailbox, r)) = ToSet(mailbox) \cup {r}
              /\ Append(mailbox, r) # <<>> /\ Last(Append(mailbox, r)) = r
          BY <3>2, <2>1, GrownSeq
        <4>3. \A a, c : Precedes(Append(mailbox, r), a, c) =>
                           Precedes(mailbox, a, c) \/ (a \in ToSet(mailbox) /\ c = r)
          BY <3>2, GrownSeq
        <4> QED  BY <4>1, <4>2, <4>3, <3>1, <3>2
      <3> QED  BY <3>3, <3>4
    <2>4. /\ requests' = [requests EXCEPT ![b] = Append(requests[b], r)]
          /\ requests' \in [Request -> Seq(Request)]
          /\ ToSet(requests'[b]) = ToSet(requests[b]) \cup {r} /\ requests'[b] # <<>>
          /\ \A d \in Request \ {b} : requests'[d] = requests[d]
      <3>1. requests' = [requests EXCEPT ![b] = Append(requests[b], r)]
        BY <1>2 DEF Publish
      <3>2. requests \in [Request -> Seq(Request)]
        BY DEF IInv, TypeOK, Batch
      <3> HIDE DEF b, joins
      <3>3. /\ Append(requests[b], r) \in Seq(Request) /\ Append(requests[b], r) # <<>>
            /\ ToSet(Append(requests[b], r)) = ToSet(requests[b]) \cup {r}
        BY <3>2, <2>2, GrownSeq
      <3> QED  BY <3>1, <3>2, <3>3, <2>2
    <2>5. /\ published' \in Seq(Request) /\ IsInjective(published')
          /\ ToSet(published') = ToSet(published) \cup {r}
          /\ \A x, y : Precedes(published', x, y) <=>
                          Precedes(published, x, y) \/ (x \in ToSet(published) /\ y = r)
      <3>1. /\ published' = Append(published, r)
            /\ published \in Seq(Request) /\ IsInjective(published)
        BY <1>2 DEF Publish, IInv, TypeOK, CallerInv
      <3> QED  BY <3>1, <2>1, GrownSeq
    <2>6. /\ batchOf' = [batchOf EXCEPT ![r] = b] /\ pc' = [pc EXCEPT ![r] = "starting"]
          /\ UNCHANGED <<coalesce, closed, active, worker, completion, drain, mine, stop, command,
                         selected, result, closing, doomed, joined>>
      BY <1>2 DEF Publish, Goto, workerVars, commandVars, closerVars
    <2>7. \A q : ~Precedes(published, r, q)
      <3> QED  BY <2>1, StrictOrder DEF IInv, TypeOK, CallerInv
    <2>8. \A d \in Request : ToSet(requests[d]) \subseteq ToSet(published)
      <3>1. ASSUME NEW d \in Request, NEW q \in ToSet(requests[d]) PROVE q \in ToSet(published)
        <4>1. q \in Request
          BY NonEmptySet, EmptySeqFacts DEF IInv, TypeOK, Batch
        <4> QED  BY <4>1, NoneAssumption DEF IInv, CallerInv, BatchInv, Batch
      <3> QED  BY <3>1
    <2> HIDE DEF b, joins
    <2>9. TypeOK'
      BY <1>2, <2>2, <2>3, <2>4, <2>5, <2>6 DEF IInv, TypeOK, CallerStage
    <2>10. CallerInv'
      BY <2>1, <2>2, <2>5, <2>6 DEF IInv, CallerInv, TypeOK
    <2>11. BatchInv'
      <3>1. Agrees(requests[b], published) /\ \A d \in Request : Agrees(requests[d], published)
        BY <2>2 DEF IInv, BatchInv, Batch
      <3>2. ASSUME NEW d \in Request, NEW i \in 1..Len(requests'[d]),
                   NEW j \in 1..Len(requests'[d]), i < j
            PROVE  Precedes(published', requests'[d][i], requests'[d][j])
        <4>1. CASE d # b
          <5>1. Precedes(published, requests[d][i], requests[d][j])
            BY <4>1, <3>1, <3>2, <2>4 DEF Agrees
          <5> QED  BY <5>1, <4>1, <2>4, <2>5
        <4>2. CASE d = b
          <5>1. /\ Len(requests'[b]) = Len(requests[b]) + 1
                /\ requests'[b][Len(requests[b]) + 1] = r
                /\ \A k \in 1..Len(requests[b]) : requests'[b][k] = requests[b][k]
                /\ requests[b] \in Seq(Request)
            BY <2>2, <2>4 DEF IInv
          <5>2. CASE j \in 1..Len(requests[b])
            <6>1. /\ i \in 1..Len(requests[b])
                  /\ Precedes(published, requests[b][i], requests[b][j])
              BY <3>1, <3>2, <5>1, <5>2, <4>2 DEF Agrees
            <6> QED  BY <6>1, <5>1, <5>2, <4>2, <2>5
          <5>3. CASE j = Len(requests[b]) + 1
            <6>1. i \in 1..Len(requests[b]) /\ requests'[b][i] = requests[b][i]
              BY <3>2, <5>1, <5>3, <4>2
            <6>2. requests[b][i] \in ToSet(requests[b])
              BY <6>1, <5>1 DEF ToSet
            <6>3. requests[b][i] \in ToSet(published)
              BY <6>2, <2>2, <2>8
            <6> QED  BY <6>1, <6>3, <5>1, <5>3, <4>2, <2>5
          <5> QED  BY <5>1, <5>2, <5>3, <3>2, <4>2
        <4> QED  BY <4>1, <4>2
      <3>3. \A d \in Request : Agrees(requests'[d], published')
        BY <3>2 DEF Agrees
      <3> QED  BY <3>3, <2>1, <2>2, <2>4, <2>6, NoneAssumption
           DEF IInv, TypeOK, BatchInv
    <2>12. MailboxInv'
      BY <1>2, <2>1, <2>2, <2>3, <2>6, NoneAssumption
      DEF IInv, TypeOK, MailboxInv, Batch
    <2>13. WorkerInv'
      BY <2>1, <2>6 DEF IInv, WorkerInv
    <2>14. CommandInv'
      BY <2>6 DEF IInv, CommandInv
    <2>15. AbandonInv'
      <3>1. ASSUME NEW q \in Request, pc'[q] = "joining"
            PROVE  requests'[batchOf'[q]] = <<>> /\ selected[batchOf'[q]] # None
        <4>1. pc[q] = "joining" /\ q # r /\ batchOf'[q] = batchOf[q]
          BY <3>1, <2>1, <2>6 DEF IInv, TypeOK
        <4>2. batchOf[q] \in Request
          BY <4>1 DEF IInv, TypeOK, CallerInv, Batch
        <4>3. requests[batchOf[q]] = <<>> /\ selected[batchOf[q]] # None
          BY <4>1 DEF IInv, AbandonInv
        <4> QED  BY <4>1, <4>2, <4>3, <2>2, <2>4
      <3>2. ASSUME NEW d \in Request, command[d] \in Executing
            PROVE  requests'[d] # <<>> \/ \E q \in Request : batchOf'[q] = d /\ pc'[q] = "joining"
        <4>1. d # b /\ requests'[d] = requests[d]
          BY <3>2, <2>2, <2>4 DEF Executing
        <4>2. \A q \in Request : pc[q] = "joining" => pc'[q] = pc[q] /\ batchOf'[q] = batchOf[q]
          BY <2>1, <2>6 DEF IInv, TypeOK
        <4> QED  BY <1>2, <3>2, <4>1, <4>2 DEF IInv, AbandonInv, Batch
      <3>3. \A d \in Request :
               command[d] = "stopping" \/ result[d] = "interrupt" => requests'[d] = <<>>
        BY <1>2, <2>2, <2>4, NoneAssumption DEF IInv, AbandonInv, Batch, Outcome
      <3> QED  BY <1>2, <3>1, <3>2, <3>3, <2>6 DEF IInv, AbandonInv, Batch
    <2>16. PendingInv'
      <3>1. ASSUME NEW q \in Request, pc'[q] \in Pending, completion'[q] = None
            PROVE  q \in ToSet(requests'[batchOf'[q]]) /\ batchOf'[q] \in queued' \cup {active'}
        <4>1. CASE q = r
          BY <4>1, <2>2, <2>3, <2>4, <2>6 DEF IInv, TypeOK, Batch
        <4>2. CASE q # r
          <5>1. pc'[q] = pc[q] /\ completion'[q] = completion[q] /\ batchOf'[q] = batchOf[q]
            BY <4>2, <2>6 DEF IInv, TypeOK
          <5>2. q \in ToSet(requests[batchOf[q]]) /\ batchOf[q] \in queued \cup {active}
            BY <1>2, <3>1, <5>1 DEF IInv, PendingInv
          <5>3. batchOf[q] \in Request
            BY <3>1, <5>1 DEF IInv, CallerInv, TypeOK, Pending, Batch
          <5> QED  BY <1>2, <5>1, <5>2, <5>3, <2>3, <2>4, <2>6 DEF IInv, TypeOK
        <4> QED  BY <4>1, <4>2
      <3> QED  BY <1>2, <3>1, <2>6 DEF PendingInv
    <2>17. ClosingInv'
      BY <2>6 DEF IInv, ClosingInv, WorkerStarted
    <2>18. NewestInv'
      <3>1. ASSUME NEW d \in Request, selected[d] # None, NEW q \in ToSet(requests'[d])
            PROVE  ~Precedes(published', selected[d], q)
        <4>1. d # b /\ q \in ToSet(requests[d])
          BY <3>1, <2>2, <2>4
        <4>2. q # r
          BY <4>1, <2>1, <2>8
        <4> QED  BY <3>1, <4>1, <4>2, <2>5 DEF IInv, NewestInv, Before, Batch
      <3>2. ASSUME NEW q \in Request, completion[q] = "done"
            PROVE  selected[batchOf'[q]] # None /\ ~Precedes(published', selected[batchOf'[q]], q)
        <4>1. q # r /\ batchOf'[q] = batchOf[q]
          BY <3>2, <2>1, <2>6, NoneAssumption DEF IInv, Outcome
        <4> QED  BY <3>2, <4>1, <2>5 DEF IInv, NewestInv, Before
      <3> QED  BY <3>1, <3>2, <2>6 DEF NewestInv, Before, Batch
    <2>19. OrderInv'
      <3>1. ASSUME NEW a \in Request, NEW d \in Request, Precedes(mailbox', a, d),
                   NEW q \in ToSet(requests'[a]), NEW s \in ToSet(requests'[d])
            PROVE  Precedes(published', q, s)
        <4>1. a # b
          BY <3>1, <2>3, NothingAfterLast
        <4>2. q \in ToSet(requests[a]) /\ q \in ToSet(published)
          BY <3>1, <4>1, <2>4, <2>8
        <4>3. CASE s = r /\ d = b
          BY <4>2, <4>3, <2>5
        <4>4. CASE ~(s = r /\ d = b)
          <5>1. s \in ToSet(requests[d])
            BY <3>1, <4>4, <2>4
          <5>2. d # r
            BY <5>1, <2>1, EmptySeqFacts
          <5>3. Precedes(mailbox, a, d)
            BY <3>1, <5>2, <2>3
          <5> QED  BY <4>2, <5>1, <5>3, <2>5 DEF IInv, OrderInv, Before, Batch
        <4> QED  BY <4>3, <4>4
      <3>2. ASSUME NEW d \in Request, NEW a \in ToSet(mailbox'), selected[d] # None,
                   NEW q \in ToSet(requests'[a])
            PROVE  Precedes(published', selected[d], q)
        <4>1. selected[d] \in ToSet(published)
          BY <3>2, NoneAssumption DEF IInv, TypeOK, MailboxInv, CallerInv, Batch
        <4>2. CASE q = r
          BY <4>1, <4>2, <2>5
        <4>3. CASE q # r
          <5>1. a \in Request /\ q \in ToSet(requests[a])
            BY <3>2, <4>3, <2>2, <2>3, <2>4, RequestsTyped DEF IInv, Batch
          <5>2. a \in ToSet(mailbox)
            BY <3>2, <5>1, <2>1, <2>2, <2>3, EmptySeqFacts
          <5> QED  BY <3>2, <5>1, <5>2, <2>5 DEF IInv, OrderInv, Before, Batch
        <4> QED  BY <4>2, <4>3
      <3> QED  BY <3>1, <3>2, <2>5, <2>6 DEF IInv, OrderInv, Before, Batch
    <2> QED  BY <2>9, <2>10, <2>11, <2>12, <2>13, <2>14, <2>15, <2>16, <2>17, <2>18,
           <2>19
       DEF IInv
  <1> QED  BY <1>1, <1>2

(* A caller starts a worker only if there is none and the queue is open. *)
LEMMA LaunchKeeps == ASSUME IInv, NEW r \in Request, Launch(r) PROVE IInv'
  <1>1. TypeOK'
    BY NoneAssumption
    DEF IInv, Launch, TypeOK, MayLaunch, Goto, workerVars, commandVars, closerVars,
        Batch, Worker, CallerStage, Outcome, DrainStage, Executing
  <1>2. CallerInv'
    BY NoneAssumption DEF IInv, Launch, TypeOK, CallerInv, WorkerInv, Goto, workerVars
  <1>3. BatchInv'
    BY NoneAssumption, RequestsTyped
    DEF IInv, Launch, TypeOK, CallerInv, BatchInv, MayLaunch, Goto
  <1>4. MailboxInv'
    BY NoneAssumption
    DEF IInv, Launch, MailboxInv, CommandInv, Goto, workerVars, commandVars
  <1>5. WorkerInv'
    BY NoneAssumption
    DEF IInv, Launch, TypeOK, CallerInv, WorkerInv, MayLaunch, Goto, workerVars,
        commandVars, closerVars, Batch, Worker
  <1>6. CommandInv'
    BY NoneAssumption
    DEF IInv, Launch, WorkerInv, CommandInv, Goto, workerVars, commandVars
  <1>7. AbandonInv'
    BY NoneAssumption
    DEF IInv, Launch, TypeOK, CallerInv, AbandonInv, MayLaunch, Goto, workerVars,
        commandVars, closerVars
  <1>8. PendingInv'
    BY NoneAssumption, RequestsTyped
    DEF IInv, Launch, TypeOK, PendingInv, MayLaunch, Goto, workerVars, commandVars,
        closerVars, At, Pending
  <1>9. ClosingInv'
    BY NoneAssumption
    DEF IInv, Launch, TypeOK, WorkerInv, ClosingInv, MayLaunch, Goto, workerVars,
        commandVars, closerVars, At, WorkerStarted
  <1>10. NewestInv'
    BY NoneAssumption, RequestsTyped
    DEF IInv, Launch, TypeOK, NewestInv, commandVars, closerVars, Busy, Before
  <1>11. OrderInv'
    BY NoneAssumption, RequestsTyped
    DEF IInv, Launch, TypeOK, OrderInv, MayLaunch, Goto, workerVars, commandVars,
        closerVars, Busy, Before
  <1> QED  BY <1>1, <1>2, <1>3, <1>4, <1>5, <1>6, <1>7, <1>8, <1>9, <1>10, <1>11
       DEF IInv

(* The worker it starts is the one recorded. *)
LEMMA ForkKeeps == ASSUME IInv, NEW r \in Request, Fork(r) PROVE IInv'
  <1>1. TypeOK'
    BY NoneAssumption
    DEF IInv, Fork, TypeOK, Drain, Goto, mailboxVars, commandVars, closerVars,
        CallerStage, Outcome, DrainStage, Executing
  <1>2. CallerInv'
    BY NoneAssumption
    DEF IInv, Fork, TypeOK, CallerInv, WorkerInv, Drain, Goto, mailboxVars
  <1>3. BatchInv'
    BY DEF IInv, Fork, BatchInv, Drain, Goto, mailboxVars
  <1>4. MailboxInv'
    BY NoneAssumption
    DEF IInv, Fork, MailboxInv, CommandInv, Goto, mailboxVars, commandVars
  <1>5. WorkerInv'
    BY NoneAssumption
    DEF IInv, Fork, TypeOK, CallerInv, WorkerInv, Drain, Goto, mailboxVars, commandVars,
        closerVars, Executing, At
  <1>6. CommandInv'
    BY NoneAssumption
    DEF IInv, Fork, MailboxInv, WorkerInv, CommandInv, Drain, Goto, mailboxVars,
        commandVars, closerVars, Batch, Worker
  <1>7. AbandonInv'
    BY DEF IInv, Fork, AbandonInv, Drain, Goto, mailboxVars, commandVars, closerVars
  <1>8. PendingInv'
    BY NoneAssumption, RequestsTyped
    DEF IInv, Fork, TypeOK, PendingInv, Drain, Goto, mailboxVars, commandVars,
        closerVars, At, Pending
  <1>9. ClosingInv'
    BY NoneAssumption
    DEF IInv, Fork, TypeOK, WorkerInv, ClosingInv, Drain, Goto, mailboxVars,
        commandVars, closerVars, At, WorkerStarted
  <1>10. NewestInv'
    BY NoneAssumption, RequestsTyped
    DEF IInv, Fork, TypeOK, NewestInv, Drain, Goto, mailboxVars, commandVars,
        closerVars, Busy, Before
  <1>11. OrderInv'
    BY NoneAssumption, RequestsTyped
    DEF IInv, Fork, TypeOK, OrderInv, Drain, Goto, mailboxVars, commandVars, closerVars,
        Busy, Before
  <1> QED  BY <1>1, <1>2, <1>3, <1>4, <1>5, <1>6, <1>7, <1>8, <1>9, <1>10, <1>11
       DEF IInv

(* An answered caller only stops waiting. *)
LEMMA AnswerKeeps == ASSUME IInv, NEW r \in Request, Answer(r) PROVE IInv'
  <1>1. TypeOK'
    BY NoneAssumption
    DEF IInv, Answer, TypeOK, Goto, mailboxVars, workerVars, commandVars, closerVars,
        CallerStage
  <1>2. CallerInv'
    BY NoneAssumption DEF IInv, Answer, CallerInv, WorkerInv, Goto, workerVars
  <1>3. BatchInv'
    BY DEF IInv, Answer, BatchInv, Goto, mailboxVars
  <1>4. MailboxInv'
    BY NoneAssumption
    DEF IInv, Answer, MailboxInv, CommandInv, mailboxVars, workerVars, commandVars
  <1>5. WorkerInv'
    BY NoneAssumption
    DEF IInv, Answer, CallerInv, WorkerInv, Goto, mailboxVars, workerVars, commandVars,
        closerVars, Batch
  <1>6. CommandInv'
    BY NoneAssumption
    DEF IInv, Answer, WorkerInv, CommandInv, mailboxVars, workerVars, commandVars
  <1>7. AbandonInv'
    BY DEF IInv, Answer, AbandonInv, Goto, mailboxVars, workerVars, commandVars,
        closerVars
  <1>8. PendingInv'
    BY DEF IInv, Answer, PendingInv, Goto, mailboxVars, workerVars, commandVars,
        closerVars
  <1>9. ClosingInv'
    BY NoneAssumption
    DEF IInv, Answer, TypeOK, WorkerInv, ClosingInv, Goto, mailboxVars, workerVars,
        commandVars, closerVars, At, WorkerStarted
  <1>10. NewestInv'
    BY NoneAssumption, RequestsTyped
    DEF IInv, Answer, TypeOK, NewestInv, Goto, mailboxVars, workerVars, commandVars,
        closerVars, Busy, Before
  <1>11. OrderInv'
    BY NoneAssumption, RequestsTyped
    DEF IInv, Answer, TypeOK, OrderInv, Goto, mailboxVars, workerVars, commandVars,
        closerVars, Busy, Before
  <1> QED  BY <1>1, <1>2, <1>3, <1>4, <1>5, <1>6, <1>7, <1>8, <1>9, <1>10, <1>11
       DEF IInv

(* An interrupted caller is still in its batch until it cancels. *)
LEMMA InterruptKeeps == ASSUME IInv, NEW r \in Request, Interrupt(r) PROVE IInv'
  <1>1. TypeOK'
    BY NoneAssumption
    DEF IInv, Interrupt, TypeOK, Goto, mailboxVars, workerVars, commandVars, closerVars,
        CallerStage
  <1>2. CallerInv'
    BY NoneAssumption DEF IInv, Interrupt, CallerInv, WorkerInv, Goto, workerVars
  <1>3. BatchInv'
    BY DEF IInv, Interrupt, BatchInv, Goto, mailboxVars
  <1>4. MailboxInv'
    BY NoneAssumption
    DEF IInv, Interrupt, MailboxInv, CommandInv, mailboxVars, workerVars, commandVars
  <1>5. WorkerInv'
    BY NoneAssumption
    DEF IInv, Interrupt, CallerInv, WorkerInv, Goto, mailboxVars, workerVars,
        commandVars, closerVars, Batch
  <1>6. CommandInv'
    BY NoneAssumption
    DEF IInv, Interrupt, WorkerInv, CommandInv, mailboxVars, workerVars, commandVars
  <1>7. AbandonInv'
    BY DEF IInv, Interrupt, AbandonInv, Goto, mailboxVars, workerVars, commandVars,
        closerVars
  <1>8. PendingInv'
    BY NoneAssumption, RequestsTyped
    DEF IInv, Interrupt, TypeOK, PendingInv, Goto, mailboxVars, workerVars, commandVars,
        closerVars, At, Pending
  <1>9. ClosingInv'
    BY NoneAssumption
    DEF IInv, Interrupt, TypeOK, WorkerInv, ClosingInv, Goto, mailboxVars, workerVars,
        commandVars, closerVars, At, WorkerStarted
  <1>10. NewestInv'
    BY NoneAssumption, RequestsTyped
    DEF IInv, Interrupt, TypeOK, NewestInv, Goto, mailboxVars, workerVars, commandVars,
        closerVars, Busy, Before
  <1>11. OrderInv'
    BY NoneAssumption, RequestsTyped
    DEF IInv, Interrupt, TypeOK, OrderInv, Goto, mailboxVars, workerVars, commandVars,
        closerVars, Busy, Before
  <1> QED  BY <1>1, <1>2, <1>3, <1>4, <1>5, <1>6, <1>7, <1>8, <1>9, <1>10, <1>11
       DEF IInv

(* A caller that cancels leaves its batch; the last to leave makes sure    *)
(* that nobody joins it any more and, if it is the active one, goes on to  *)
(* interrupt its command.                                                  *)
LEMMA CancelKeeps == ASSUME IInv, NEW r \in Request, Cancel(r) PROVE IInv'
  <1> DEFINE b == batchOf[r]
             rest == RemoveFirst(requests[b], r)
  <1>1. /\ pc[r] = "cancelling" /\ b \in Request /\ b # None /\ batchOf[b] = b
        /\ tail' \in {tail, None}
        /\ pc' = [pc EXCEPT ![r] = IF rest = <<>> /\ active = b THEN "joining" ELSE "cancelled"]
        /\ requests' = [requests EXCEPT ![b] = rest]
        /\ UNCHANGED <<coalesce, closed, mailbox, queued, active, worker, batchOf, completion,
                       published, workerVars, commandVars, closerVars>>
    BY DEF Cancel, Abandoned, Goto, IInv, TypeOK, CallerInv, Batch
  <1>2. IsInjective(requests[b])
    BY <1>1, BatchOrder DEF IInv, TypeOK, CallerInv, BatchInv
  <1>3. /\ rest \in Seq(Request) /\ ToSet(rest) = ToSet(requests[b]) \ {r}
        /\ Agrees(rest, published)
    BY <1>1, <1>2, ThinnedSeq DEF IInv, TypeOK, BatchInv
  <1> HIDE DEF rest
  <1>4. /\ requests' \in [Batch -> Seq(Request)]
        /\ \A d \in Batch : requests'[d] = IF d = b THEN rest ELSE requests[d]
    BY <1>1, <1>3 DEF IInv, TypeOK, Batch
  <1> HIDE DEF b
  <1>5. TypeOK'
    BY <1>1, <1>3, <1>4
    DEF workerVars, commandVars, closerVars, IInv, TypeOK, Batch, CallerStage
  <1>6. CallerInv'
    BY <1>1, <1>3, <1>4 DEF workerVars, IInv, CallerInv
  <1>7. BatchInv'
    BY <1>1, <1>3, <1>4 DEF b, IInv, BatchInv
  <1>8. MailboxInv'
    BY <1>1, <1>3, <1>4 DEF workerVars, commandVars, IInv, MailboxInv
  <1>9. WorkerInv'
    BY <1>1, <1>3, <1>4 DEF workerVars, closerVars, IInv, WorkerInv
  <1>10. CommandInv'
    BY <1>1, <1>3, <1>4 DEF workerVars, commandVars, IInv, CommandInv
  <1>11. AbandonInv'
    <2>1. requests[b] = <<>> => rest = <<>>
      BY <1>3, NonEmptySet, EmptySeqFacts
    <2>2. ASSUME NEW q \in Request, pc'[q] = "joining"
          PROVE  requests'[batchOf[q]] = <<>> /\ selected[batchOf[q]] # None
      <3>1. CASE q = r
        BY <2>2, <3>1, <1>1, <1>4 DEF b, IInv, MailboxInv
      <3>2. CASE q # r
        <4>1. pc[q] = "joining" /\ batchOf[q] \in Request
          BY <2>2, <3>2, <1>1 DEF IInv, TypeOK, CallerInv, Batch
        <4> QED  BY <4>1, <2>1, <1>4 DEF IInv, AbandonInv, Batch
      <3> QED  BY <3>1, <3>2
    <2>3. ASSUME ~closed, NEW d \in Request, command[d] \in Executing
          PROVE  requests'[d] # <<>> \/ \E q \in Request : batchOf[q] = d /\ pc'[q] = "joining"
      <3>1. CASE d = b
        <4>1. active = b
          BY <2>3, <3>1 DEF IInv, CommandInv, WorkerInv, Busy, Batch
        <4>2. rest = <<>> => pc'[r] = "joining"
          BY <4>1, <1>1 DEF IInv, TypeOK
        <4> QED  BY <3>1, <4>2, <1>4 DEF b, Batch
      <3>2. CASE d # b
        <4>1. \A q \in Request : batchOf[q] = d => pc'[q] = pc[q]
          BY <3>2, <1>1 DEF b, IInv, TypeOK
        <4>2. requests[d] # <<>> \/ \E q \in Request : batchOf[q] = d /\ pc[q] = "joining"
          BY <2>3 DEF IInv, AbandonInv, Batch
        <4>3. requests'[d] = requests[d]
          BY <3>2, <1>4 DEF Batch
        <4> QED  BY <4>1, <4>2, <4>3
      <3> QED  BY <3>1, <3>2
    <2>4. ~closed => \A d \in Request :
             command[d] = "stopping" \/ result[d] = "interrupt" => requests'[d] = <<>>
      BY <2>1, <1>4 DEF IInv, AbandonInv, Batch
    <2> QED  BY <2>2, <2>3, <2>4, <1>1 DEF commandVars, IInv, AbandonInv, commandVars
  <1>12. PendingInv'
    BY <1>1, <1>3, <1>4 DEF closerVars, IInv, TypeOK, PendingInv, Batch, Pending
  <1>13. ClosingInv'
    BY <1>1, <1>3, <1>4
    DEF workerVars, commandVars, closerVars, IInv, ClosingInv, WorkerStarted
  <1>14. NewestInv'
    BY <1>1, <1>3, <1>4 DEF workerVars, commandVars, IInv, CommandInv, NewestInv, Before
  <1>15. OrderInv'
    BY <1>1, <1>3, <1>4
    DEF workerVars, commandVars, closerVars, IInv, TypeOK, CallerInv, OrderInv, Batch,
        Before
  <1> QED  BY <1>5, <1>6, <1>7, <1>8, <1>9, <1>10, <1>11, <1>12, <1>13, <1>14, <1>15
       DEF IInv

(* The command that the last caller waits for has ended when it returns. *)
LEMMA JoinKeeps == ASSUME IInv, NEW r \in Request, Join(r) PROVE IInv'
  <1>1. TypeOK'
    BY NoneAssumption
    DEF IInv, Join, TypeOK, CommandStarted, InterruptCommand, CommandOver, Goto,
        mailboxVars, workerVars, closerVars, Batch, Worker, CallerStage, Outcome,
        DrainStage, Executing
  <1>2. CallerInv'
    BY NoneAssumption DEF IInv, Join, TypeOK, CallerInv, CommandOver, Goto, workerVars
  <1>3. BatchInv'
    BY NoneAssumption, RequestsTyped
    DEF IInv, Join, TypeOK, CallerInv, BatchInv, CommandOver, Goto, mailboxVars
  <1>4. MailboxInv'
    BY NoneAssumption
    DEF IInv, Join, BatchInv, MailboxInv, InterruptCommand, CommandOver, Goto,
        mailboxVars, workerVars, closerVars
  <1>5. WorkerInv'
    BY NoneAssumption
    DEF IInv, Join, TypeOK, CallerInv, WorkerInv, Goto, mailboxVars, workerVars,
        closerVars, Batch, Worker
  <1>6. CommandInv'
    BY NoneAssumption
    DEF IInv, Join, TypeOK, CommandInv, CommandStarted, InterruptCommand, CommandOver,
        Goto, mailboxVars, workerVars, closerVars
  <1>7. AbandonInv'
    BY NoneAssumption
    DEF IInv, Join, TypeOK, CallerInv, AbandonInv, CommandStarted, InterruptCommand,
        CommandOver, Goto, mailboxVars, workerVars, closerVars, DrainStage, Executing
  <1>8. PendingInv'
    BY NoneAssumption, RequestsTyped
    DEF IInv, Join, TypeOK, WorkerInv, PendingInv, CommandStarted, InterruptCommand,
        CommandOver, Goto, mailboxVars, workerVars, closerVars, Batch, Worker, Busy, At,
        Pending
  <1>9. ClosingInv'
    BY NoneAssumption
    DEF IInv, Join, TypeOK, WorkerInv, ClosingInv, CommandStarted, mailboxVars,
        workerVars, closerVars, At, WorkerStarted
  <1>10. NewestInv'
    BY NoneAssumption, RequestsTyped
    DEF IInv, Join, TypeOK, NewestInv, CommandStarted, mailboxVars, workerVars,
        closerVars, Busy, Before
  <1>11. OrderInv'
    BY NoneAssumption, RequestsTyped
    DEF IInv, Join, TypeOK, OrderInv, CommandStarted, mailboxVars, workerVars,
        closerVars, Busy, Before
  <1> QED  BY <1>1, <1>2, <1>3, <1>4, <1>5, <1>6, <1>7, <1>8, <1>9, <1>10, <1>11
       DEF IInv

(* The worker claims the first batch of the mailbox, whose newest request  *)
(* is newer than all claimed before and older than what is left, or ends   *)
(* when there is none.                                                     *)
LEMMA PollKeeps == ASSUME IInv, NEW w \in Worker, Poll(w) PROVE IInv'
  <1>1. drain[w] = "polling" /\ worker = w /\ active = None /\ w # None
    <2>1. drain[w] = "polling" /\ worker = w /\ w # None
      BY NoneAssumption DEF Poll, IInv, WorkerInv, At, Worker
    <2>2. active = None
      BY <2>1 DEF IInv, WorkerInv, CommandInv, At
    <2> QED  BY <2>1, <2>2
  <1>2. UNCHANGED <<coalesce, closed, requests, stop, callerVars, command, result, closerVars>>
    BY DEF Poll
  <1>3. CASE closed
    <2>1. /\ worker' = None /\ drain' = [drain EXCEPT ![w] = "exited"]
          /\ UNCHANGED <<mailbox, queued, tail, active, mine, selected>>
      BY <1>1, <1>3 DEF Poll, WorkerWithout, Drain
    <2>2. TypeOK'
      BY <1>1, <1>2, <1>3, <2>1 DEF callerVars, closerVars, IInv, TypeOK, DrainStage
    <2>3. CallerInv'
      BY <1>1, <1>2, <1>3, <2>1 DEF callerVars, IInv, CallerInv
    <2>4. BatchInv'
      BY <1>1, <1>2, <1>3, <2>1 DEF callerVars, IInv, BatchInv
    <2>5. MailboxInv'
      BY <1>1, <1>2, <1>3, <2>1 DEF callerVars, IInv, MailboxInv
    <2>6. WorkerInv'
      BY <1>1, <1>2, <1>3, <2>1, NoneAssumption, EmptySeqFacts
      DEF callerVars, closerVars, IInv, TypeOK, CallerInv, WorkerInv, Batch, Worker,
          CallerStage, Executing, At
    <2>7. CommandInv'
      BY <1>1, <1>2, <1>3, <2>1 DEF IInv, CommandInv, Busy
    <2>8. AbandonInv'
      BY <1>1, <1>2, <1>3, <2>1 DEF callerVars, IInv, AbandonInv
    <2>9. PendingInv'
      BY <1>1, <1>2, <1>3, <2>1 DEF callerVars, closerVars, IInv, PendingInv
    <2>10. ClosingInv'
      BY <1>1, <1>2, <1>3, <2>1 DEF closerVars, IInv, ClosingInv, Batch, WorkerStarted
    <2>11. NewestInv'
      BY <1>1, <1>2, <1>3, <2>1, RequestsTyped
      DEF callerVars, IInv, CommandInv, NewestInv, Before
    <2>12. OrderInv'
      BY <1>1, <1>2, <1>3, <2>1, RequestsTyped
      DEF callerVars, IInv, CommandInv, OrderInv, Before
    <2> QED  BY <2>2, <2>3, <2>4, <2>5, <2>6, <2>7, <2>8, <2>9, <2>10, <2>11, <2>12
         DEF IInv
  <1>4. CASE ~closed /\ \A i \in 1..Len(mailbox) : requests[mailbox[i]] = <<>>
    <2>1. /\ worker' = None /\ drain' = [drain EXCEPT ![w] = "exited"]
          /\ UNCHANGED <<active, mine, selected>>
      BY <1>1, <1>4 DEF Poll, WorkerWithout, Drain
    <2>2. mailbox \in Seq(Batch) /\ queued = ToSet(mailbox) /\ tail \in ToSet(mailbox) \cup {None}
      BY <1>4 DEF IInv, TypeOK
    <2>3. mailbox' = <<>> /\ SubSeq(mailbox, 1, Len(mailbox)) = mailbox
      <3>1. mailbox' = SubSeq(mailbox, Len(mailbox) + 1, Len(mailbox))
        BY <1>4 DEF Poll
      <3> QED  BY <2>2, <3>1, SubSeqFull, SubSeqEmpty
    <2>4. queued' = {} /\ tail' = None
      <3>1. /\ queued' = queued \ ToSet(SubSeq(mailbox, 1, Len(mailbox)))
            /\ tail' = IF tail \in ToSet(SubSeq(mailbox, 1, Len(mailbox))) THEN None ELSE tail
        BY <1>4 DEF Poll, TailBeyond
      <3> QED  BY <2>2, <2>3, <3>1
    <2>5. \A b \in ToSet(mailbox) : ToSet(requests[b]) = {}
      BY <1>4, <2>2, EmptySeqFacts DEF ToSet
    <2>6. TypeOK'
      BY <1>1, <1>2, <2>1, <2>3, <2>4, EmptySeqFacts
      DEF callerVars, closerVars, IInv, TypeOK, DrainStage
    <2>7. CallerInv'
      BY <1>1, <1>2, <1>4, <2>1, <2>2, <2>3, <2>4, <2>5 DEF callerVars, IInv, CallerInv
    <2>8. BatchInv'
      BY <1>1, <1>2, <1>4, <2>1, <2>2, <2>3, <2>4, <2>5 DEF callerVars, IInv, BatchInv
    <2>9. MailboxInv'
      BY <1>1, <1>2, <1>4, <2>1, <2>2, <2>3, <2>4, <2>5, EmptySeqFacts
      DEF callerVars, IInv, MailboxInv
    <2>10. WorkerInv'
      BY <1>1, <1>2, <1>4, <2>1, <2>2, <2>3, <2>4, <2>5, NoneAssumption, EmptySeqFacts
      DEF callerVars, closerVars, IInv, TypeOK, CallerInv, WorkerInv, Batch, Worker,
          CallerStage, Executing, At
    <2>11. CommandInv'
      BY <1>1, <1>2, <1>4, <2>1, <2>2, <2>3, <2>4, <2>5 DEF IInv, CommandInv, Busy
    <2>12. AbandonInv'
      BY <1>1, <1>2, <1>4, <2>1, <2>2, <2>3, <2>4, <2>5 DEF callerVars, IInv, AbandonInv
    <2>13. PendingInv'
      BY <1>1, <1>2, <1>4, <2>1, <2>2, <2>3, <2>4, <2>5 DEF callerVars, IInv, PendingInv
    <2>14. ClosingInv'
      BY <1>1, <1>2, <1>4, <2>1, <2>2, <2>3, <2>4, <2>5 DEF closerVars, IInv, ClosingInv
    <2>15. NewestInv'
      BY <1>1, <1>2, <1>4, <2>1, <2>2, <2>3, <2>4, <2>5, RequestsTyped
      DEF callerVars, IInv, CommandInv, NewestInv, Before
    <2>16. OrderInv'
      BY <1>1, <1>2, <2>1, <2>3, EmptySeqFacts DEF callerVars, IInv, OrderInv, Before
    <2> QED  BY <2>6, <2>7, <2>8, <2>9, <2>10, <2>11, <2>12, <2>13, <2>14, <2>15, <2>16
         DEF IInv
  <1>5. ASSUME ~closed, NEW i \in 1..Len(mailbox), requests[mailbox[i]] # <<>>,
               \A j \in 1..(i - 1) : requests[mailbox[j]] = <<>>,
               mailbox' = SubSeq(mailbox, i + 1, Len(mailbox)),
               queued' = queued \ ToSet(SubSeq(mailbox, 1, i)),
               tail' = TailBeyond(ToSet(SubSeq(mailbox, 1, i))),
               active' = mailbox[i],
               mine' = [mine EXCEPT ![w] = mailbox[i]],
               selected' = [selected EXCEPT ![mailbox[i]] = Newest(mailbox[i])],
               Drain(w, "claimed"), UNCHANGED worker
        PROVE  IInv'
    <2> DEFINE c == mailbox[i]
               n == Last(requests[c])
    <2>1. /\ mailbox \in Seq(Batch) /\ IsInjective(mailbox) /\ queued = ToSet(mailbox)
          /\ tail \in ToSet(mailbox) \cup {None}
      BY <1>5 DEF IInv, TypeOK
    <2>2. /\ c \in Batch /\ c \in ToSet(mailbox) /\ c # None
          /\ selected[c] = None /\ command[c] = "none" /\ result[c] = None /\ batchOf[c] = c
          /\ \A v \in Worker : mine[v] # c
      <3>1. c \in Batch /\ c \in ToSet(mailbox)
        BY <2>1 DEF ToSet
      <3> QED  BY <3>1, NoneAssumption DEF IInv, MailboxInv, Batch
    <2>3. /\ n \in Request /\ n # None /\ n \in ToSet(requests[c]) /\ batchOf[n] = c
          /\ \A r \in ToSet(requests[c]) : ~Before(n, r)
      <3>1. requests[c] \in Seq(Request) /\ requests[c] # <<>> /\ Agrees(requests[c], published)
        BY <1>5, <2>2 DEF IInv, TypeOK, BatchInv
      <3>2. n \in Request /\ n \in ToSet(requests[c])
        BY <3>1, NonEmptySet
      <3>3. \A r \in ToSet(requests[c]) : ~Before(n, r)
        BY <3>1, BatchOrder DEF IInv, TypeOK, CallerInv, Before
      <3> QED  BY <2>2, <3>2, <3>3, NoneAssumption DEF IInv, BatchInv
    <2>4. /\ mailbox' \in Seq(Batch) /\ IsInjective(mailbox')
          /\ ToSet(mailbox') = ToSet(mailbox) \ {mailbox[j] : j \in 1..i}
          /\ queued' = ToSet(mailbox')
          /\ \A a, b : Precedes(mailbox', a, b) => Precedes(mailbox, a, b)
          /\ \A b \in ToSet(mailbox') : Precedes(mailbox, c, b)
          /\ mailbox' # <<>> => Last(mailbox') = Last(mailbox)
          /\ mailbox' = <<>> => ToSet(mailbox) = {mailbox[j] : j \in 1..i}
          /\ tail' = IF tail \in {mailbox[j] : j \in 1..i} THEN None ELSE tail
      <3>1. ToSet(SubSeq(mailbox, 1, i)) = {mailbox[j] : j \in 1..i}
        BY <2>1, CutSeq
      <3>2. /\ mailbox' \in Seq(Batch) /\ IsInjective(mailbox')
            /\ ToSet(mailbox') = ToSet(mailbox) \ ToSet(SubSeq(mailbox, 1, i))
            /\ mailbox' # <<>> => Last(mailbox') = Last(mailbox)
            /\ mailbox' = <<>> => ToSet(SubSeq(mailbox, 1, i)) = ToSet(mailbox)
            /\ \A a, b : Precedes(mailbox', a, b) => Precedes(mailbox, a, b)
            /\ \A b \in ToSet(mailbox') : Precedes(mailbox, c, b)
        BY <1>5, <2>1, CutSeq
      <3> QED  BY <1>5, <2>1, <3>1, <3>2 DEF TailBeyond
    <2>5. c \notin ToSet(mailbox') /\ ToSet(mailbox') \subseteq ToSet(mailbox)
      BY <2>4
    <2>6. \A b \in ToSet(mailbox) \ ToSet(mailbox') : b = c \/ ToSet(requests[b]) = {}
      <3>1. ASSUME NEW j \in 1..i PROVE mailbox[j] = c \/ ToSet(requests[mailbox[j]]) = {}
        BY <1>5, EmptySeqFacts
      <3> QED  BY <3>1, <2>4
    <2>7. tail' # None => mailbox' # <<>> /\ tail' = Last(mailbox')
      BY <2>1, <2>4 DEF IInv, MailboxInv
    <2>8. /\ active' = c /\ mine' = [mine EXCEPT ![w] = c] /\ selected' = [selected EXCEPT ![c] = n]
          /\ drain' = [drain EXCEPT ![w] = "claimed"] /\ worker' = worker /\ ~closed
          /\ tail' \in queued' \cup {None}
      BY <1>5, <2>1, <2>4 DEF Drain, Newest
    <2> HIDE DEF c, n
    <2>9. TypeOK'
      BY <1>1, <1>2, <2>2, <2>3, <2>4, <2>5, <2>8
      DEF callerVars, closerVars, IInv, TypeOK, DrainStage
    <2>10. CallerInv'
      BY <1>1, <1>2, <2>2, <2>3, <2>4, <2>5, <2>8 DEF callerVars, IInv, CallerInv
    <2>11. BatchInv'
      BY <1>1, <1>2, <2>2, <2>3, <2>4, <2>5, <2>8 DEF callerVars, IInv, BatchInv
    <2>12. MailboxInv'
      BY <1>1, <1>2, <2>2, <2>3, <2>5, <2>7, <2>8
      DEF callerVars, IInv, TypeOK, MailboxInv
    <2>13. WorkerInv'
      BY <1>1, <1>2, <2>2, <2>3, <2>4, <2>5, <2>8
      DEF callerVars, IInv, CallerInv, WorkerInv, At
    <2>14. CommandInv'
      BY <1>1, <1>2, <2>2, <2>3, <2>4, <2>5, <2>8
      DEF IInv, TypeOK, CallerInv, CommandInv, At, Busy
    <2>15. AbandonInv'
      BY <1>1, <1>2, <2>2, <2>3, <2>4, <2>5, <2>8 DEF callerVars, IInv, AbandonInv
    <2>16. PendingInv'
      <3>1. ASSUME NEW r \in Request, pc[r] \in Pending, completion[r] = None
            PROVE  r \in ToSet(requests[batchOf[r]]) /\ batchOf[r] \in queued' \cup {active'}
        <4>1. r \in ToSet(requests[batchOf[r]]) /\ batchOf[r] \in queued \cup {active}
          BY <1>5, <3>1 DEF IInv, PendingInv
        <4>2. batchOf[r] \in ToSet(mailbox)
          BY <4>1, <3>1, <1>1, <2>1 DEF IInv, CallerInv, Pending
        <4> QED  BY <4>1, <4>2, <2>4, <2>6, <2>8
      <3> QED  BY <3>1, <1>2, <2>8 DEF PendingInv, callerVars
    <2>17. ClosingInv'
      BY <1>1, <1>2, <2>2, <2>3, <2>4, <2>5, <2>8 DEF closerVars, IInv, ClosingInv
    <2>18. NewestInv'
      <3>1. ASSUME NEW d \in Batch, selected'[d] # None, NEW r \in ToSet(requests[d])
            PROVE  ~Before(selected'[d], r)
        BY <3>1, <2>2, <2>3, <2>8 DEF IInv, NewestInv
      <3>2. ASSUME NEW r \in Request, completion[r] = "done"
            PROVE  selected'[batchOf[r]] # None /\ ~Before(selected'[batchOf[r]], r)
        <4>1. selected[batchOf[r]] # None /\ ~Before(selected[batchOf[r]], r)
          BY <3>2 DEF IInv, NewestInv
        <4>2. selected'[batchOf[r]] = selected[batchOf[r]]
          BY <3>2, <4>1, <2>2, <2>8 DEF IInv
        <4> QED  BY <4>1, <4>2
      <3> QED  BY <3>1, <3>2, <1>2 DEF NewestInv, Before, callerVars
    <2>19. OrderInv'
      <3>1. ASSUME NEW a \in Batch, NEW b \in Batch, Precedes(mailbox', a, b),
                   NEW r \in ToSet(requests[a]), NEW s \in ToSet(requests[b])
            PROVE  Before(r, s)
        BY <3>1, <2>4 DEF IInv, OrderInv
      <3>2. ASSUME NEW d \in Batch, NEW b \in ToSet(mailbox'), selected'[d] # None,
                   NEW r \in ToSet(requests[b])
            PROVE  Before(selected'[d], r)
        <4>1. CASE d = c
          <5>1. Precedes(mailbox, c, b) /\ b \in Batch /\ selected'[d] = n
            BY <4>1, <2>2, <2>4, <2>5, <2>8, RequestsTyped DEF IInv, TypeOK
          <5> QED  BY <5>1, <2>2, <2>3 DEF IInv, OrderInv
        <4>2. CASE d # c
          BY <3>2, <4>2, <2>5, <2>8 DEF IInv, OrderInv
        <4> QED  BY <4>1, <4>2
      <3>3. ASSUME NEW v \in Worker, NEW d \in Batch, drain'[v] = "claimed",
                   selected'[d] # None, d # mine'[v]
            PROVE  Before(selected'[d], selected'[mine'[v]])
        <4>1. v = w
          BY <3>3, <1>1, <2>8 DEF IInv, WorkerInv, At
        <4>2. mine'[v] = c /\ selected'[c] = n /\ selected'[d] = selected[d]
          BY <4>1, <3>3, <2>2, <2>8 DEF IInv, TypeOK
        <4> QED  BY <4>2, <3>3, <2>2, <2>3 DEF IInv, OrderInv
      <3> QED  BY <3>1, <3>2, <3>3, <1>2 DEF OrderInv, Before, callerVars
    <2> QED  BY <2>9, <2>10, <2>11, <2>12, <2>13, <2>14, <2>15, <2>16, <2>17, <2>18,
           <2>19
       DEF IInv
  <1>6. CASE ~closed /\ \E i \in 1..Len(mailbox) : requests[mailbox[i]] # <<>>
    <2>1. PICK i \in 1..Len(mailbox) :
             /\ requests[mailbox[i]] # <<>>
             /\ \A j \in 1..Len(mailbox) : requests[mailbox[j]] # <<>> => i <= j
             /\ mailbox' = SubSeq(mailbox, i + 1, Len(mailbox))
             /\ queued' = queued \ ToSet(SubSeq(mailbox, 1, i))
             /\ tail' = TailBeyond(ToSet(SubSeq(mailbox, 1, i)))
             /\ active' = mailbox[i]
             /\ mine' = [mine EXCEPT ![w] = mailbox[i]]
             /\ selected' = [selected EXCEPT ![mailbox[i]] = Newest(mailbox[i])]
      BY <1>6 DEF Poll
    <2>2. Drain(w, "claimed") /\ UNCHANGED worker
      BY <1>6 DEF Poll
    <2>3. \A j \in 1..(i - 1) : requests[mailbox[j]] = <<>>
      BY <2>1 DEF IInv, TypeOK
    <2> QED  BY <1>5, <1>6, <2>1, <2>2, <2>3
  <1> QED  BY <1>3, <1>4, <1>6

(* A claimed batch is started by the worker that claimed it, while no      *)
(* other command runs.                                                     *)
LEMMA StartCommandKeeps == ASSUME IInv, NEW w \in Worker, StartCommand(w) PROVE IInv'
  <1>1. TypeOK'
    BY NoneAssumption
    DEF IInv, StartCommand, TypeOK, Drain, mailboxVars, callerVars, closerVars, Batch,
        Worker, CallerStage, Outcome, DrainStage, Executing
  <1>2. CallerInv'
    BY NoneAssumption DEF IInv, StartCommand, CallerInv, WorkerInv, Drain, callerVars
  <1>3. BatchInv'
    BY DEF IInv, StartCommand, BatchInv, Drain, mailboxVars, callerVars
  <1>4. MailboxInv'
    BY NoneAssumption
    DEF IInv, StartCommand, TypeOK, CallerInv, BatchInv, MailboxInv, CommandInv, Drain,
        mailboxVars, callerVars
  <1>5. WorkerInv'
    BY NoneAssumption
    DEF IInv, StartCommand, WorkerInv, Drain, mailboxVars, callerVars, closerVars,
        Executing, At
  <1>6. CommandInv'
    BY NoneAssumption
    DEF IInv, StartCommand, TypeOK, WorkerInv, CommandInv, Drain, mailboxVars,
        callerVars, closerVars, At, Busy
  <1>7. AbandonInv'
    <2>1. mine[w] # None /\ result[mine[w]] = None /\ mine[w] \in Request
      BY DEF IInv, StartCommand, CommandInv, MailboxInv, TypeOK, Batch
    <2>2. CASE requests[mine[w]] = <<>>
      BY <2>1, <2>2
      DEF IInv, StartCommand, AbandonInv, TypeOK, Executing, Batch, mailboxVars,
          callerVars
    <2>3. CASE requests[mine[w]] # <<>>
      BY <2>1, <2>3 DEF IInv, StartCommand, AbandonInv, TypeOK, mailboxVars, callerVars
    <2> QED  BY <2>2, <2>3
  <1>8. PendingInv'
    BY DEF IInv, StartCommand, PendingInv, Drain, mailboxVars, callerVars, closerVars,
        Batch
  <1>9. ClosingInv'
    BY NoneAssumption
    DEF IInv, StartCommand, ClosingInv, Drain, mailboxVars, callerVars, closerVars, At,
        WorkerStarted
  <1>10. NewestInv'
    BY NoneAssumption, RequestsTyped
    DEF IInv, StartCommand, NewestInv, Drain, mailboxVars, callerVars, closerVars, Busy,
        Before
  <1>11. OrderInv'
    BY NoneAssumption, RequestsTyped
    DEF IInv, StartCommand, OrderInv, Drain, mailboxVars, callerVars, closerVars, Busy,
        Before
  <1> QED  BY <1>1, <1>2, <1>3, <1>4, <1>5, <1>6, <1>7, <1>8, <1>9, <1>10, <1>11
       DEF IInv

(* A command that ends leaves its worker with the result. *)
LEMMA CommandEndsKeeps == ASSUME IInv, NEW b \in Batch, CommandEnds(b) PROVE IInv'
  <1>1. TypeOK'
    BY NoneAssumption
    DEF IInv, CommandEnds, TypeOK, Executing, mailboxVars, callerVars, workerVars,
        closerVars, Outcome
  <1>2. CallerInv'
    BY DEF IInv, CommandEnds, CallerInv, callerVars, workerVars
  <1>3. BatchInv'
    BY DEF IInv, CommandEnds, BatchInv, Executing, mailboxVars, callerVars
  <1>4. MailboxInv'
    BY NoneAssumption
    DEF IInv, CommandEnds, TypeOK, CallerInv, BatchInv, MailboxInv, CommandInv,
        Executing, mailboxVars, callerVars, workerVars, closerVars
  <1>5. WorkerInv'
    BY NoneAssumption
    DEF IInv, CommandEnds, CallerInv, WorkerInv, Executing, mailboxVars, callerVars,
        workerVars, closerVars, Batch
  <1>6. CommandInv'
    BY NoneAssumption
    DEF IInv, CommandEnds, WorkerInv, CommandInv, Executing, mailboxVars, callerVars,
        workerVars
  <1>7. AbandonInv'
    BY NoneAssumption
    DEF IInv, CommandEnds, AbandonInv, Executing, mailboxVars, callerVars, workerVars
  <1>8. PendingInv'
    BY DEF IInv, CommandEnds, PendingInv, Executing, mailboxVars, callerVars,
        workerVars, closerVars
  <1>9. ClosingInv'
    BY NoneAssumption
    DEF IInv, CommandEnds, TypeOK, WorkerInv, ClosingInv, Executing, mailboxVars,
        callerVars, workerVars, closerVars, At, WorkerStarted
  <1>10. NewestInv'
    BY NoneAssumption, RequestsTyped
    DEF IInv, CommandEnds, NewestInv, Executing, mailboxVars, callerVars, workerVars,
        Busy, Before
  <1>11. OrderInv'
    BY NoneAssumption, RequestsTyped
    DEF IInv, CommandEnds, OrderInv, Executing, mailboxVars, callerVars, workerVars,
        Busy, Before
  <1> QED  BY <1>1, <1>2, <1>3, <1>4, <1>5, <1>6, <1>7, <1>8, <1>9, <1>10, <1>11
       DEF IInv

(* The worker settles requests of its batch with the result of the         *)
(* command.                                                                *)
LEMMA SettleOneKeeps == ASSUME IInv, NEW w \in Worker, SettleOne(w) PROVE IInv'
  <1>1. PICK r \in Request :
           r \in ToSet(requests[mine[w]]) /\ completion[r] = None /\ Settle({r}, result[mine[w]])
    BY RequestsTyped DEF IInv, SettleOne, Unsettled, TypeOK, CommandInv
  <1>2. /\ completion' = [completion EXCEPT ![r] = result[mine[w]]]
        /\ UNCHANGED <<mailboxVars, pc, batchOf, published, workerVars, commandVars, closerVars>>
    BY <1>1, SettleSingle DEF IInv, SettleOne
  <1>3. /\ mine[w] \in Request /\ mine[w] # None /\ selected[mine[w]] # None /\ batchOf[r] = mine[w]
        /\ ~closed => result[mine[w]] # "interrupt"
    BY <1>1, RequestsTyped, EmptySeqFacts
    DEF IInv, SettleOne, TypeOK, CommandInv, MailboxInv, BatchInv, AbandonInv, Batch
  <1>4. TypeOK'
    BY <1>1, <1>2, <1>3
    DEF mailboxVars, workerVars, commandVars, closerVars, IInv, TypeOK
  <1>5. CallerInv'
    BY <1>1, <1>2, <1>3 DEF workerVars, IInv, CallerInv
  <1>6. BatchInv'
    BY <1>1, <1>2, <1>3 DEF mailboxVars, IInv, BatchInv
  <1>7. MailboxInv'
    BY <1>1, <1>2, <1>3
    DEF mailboxVars, workerVars, commandVars, closerVars, IInv, MailboxInv
  <1>8. WorkerInv'
    BY <1>1, <1>2, <1>3 DEF mailboxVars, workerVars, closerVars, IInv, TypeOK, WorkerInv
  <1>9. CommandInv'
    BY <1>1, <1>2, <1>3 DEF mailboxVars, workerVars, commandVars, IInv, CommandInv
  <1>10. AbandonInv'
    BY <1>1, <1>2, <1>3 DEF mailboxVars, commandVars, IInv, AbandonInv
  <1>11. PendingInv'
    BY <1>1, <1>2, <1>3 DEF mailboxVars, closerVars, IInv, TypeOK, PendingInv, Batch
  <1>12. ClosingInv'
    BY <1>1, <1>2, <1>3
    DEF mailboxVars, workerVars, commandVars, closerVars, IInv, ClosingInv, At,
        WorkerStarted
  <1>13. NewestInv'
    BY <1>1, <1>2, <1>3
    DEF mailboxVars, workerVars, commandVars, closerVars, IInv, CommandInv, NewestInv,
        Batch, Before
  <1>14. OrderInv'
    BY <1>1, <1>2, <1>3
    DEF mailboxVars, workerVars, commandVars, closerVars, IInv, CommandInv, OrderInv,
        Batch, Before
  <1> QED  BY <1>4, <1>5, <1>6, <1>7, <1>8, <1>9, <1>10, <1>11, <1>12, <1>13, <1>14
       DEF IInv

(* It retires a batch when all its requests are settled. *)
LEMMA RetireKeeps == ASSUME IInv, NEW w \in Worker, Retire(w) PROVE IInv'
  <1>1. TypeOK'
    BY NoneAssumption, EmptySeqFacts
    DEF IInv, Retire, TypeOK, Drain, callerVars, commandVars, closerVars, DrainStage
  <1>2. CallerInv'
    BY DEF IInv, Retire, CallerInv, Drain, callerVars
  <1>3. BatchInv'
    BY NoneAssumption, EmptySeqFacts, RequestsTyped
    DEF IInv, Retire, BatchInv, CommandOver, callerVars
  <1>4. MailboxInv'
    BY DEF IInv, Retire, TypeOK, BatchInv, MailboxInv, callerVars, commandVars
  <1>5. WorkerInv'
    BY NoneAssumption, EmptySeqFacts
    DEF IInv, Retire, TypeOK, CallerInv, WorkerInv, CommandOver, Unsettled, Drain,
        callerVars, commandVars, closerVars, Executing, At
  <1>6. CommandInv'
    BY NoneAssumption, EmptySeqFacts
    DEF IInv, Retire, TypeOK, CallerInv, MailboxInv, WorkerInv, CommandInv, CommandOver,
        Unsettled, Drain, callerVars, commandVars, closerVars, Batch, Worker, Executing,
        At, Busy
  <1>7. AbandonInv'
    BY NoneAssumption, EmptySeqFacts
    DEF IInv, Retire, TypeOK, CommandInv, AbandonInv, CommandOver, Unsettled, Drain,
        callerVars, commandVars, closerVars, DrainStage, Executing
  <1>8. PendingInv'
    BY DEF IInv, Retire, TypeOK, PendingInv, CommandOver, Unsettled, Drain, callerVars,
        commandVars, closerVars, Batch
  <1>9. ClosingInv'
    BY NoneAssumption, EmptySeqFacts
    DEF IInv, Retire, TypeOK, WorkerInv, ClosingInv, CommandOver, Unsettled, Drain,
        callerVars, commandVars, closerVars, At, WorkerStarted
  <1>10. NewestInv'
    BY NoneAssumption, EmptySeqFacts, RequestsTyped
    DEF IInv, Retire, CommandInv, NewestInv, callerVars, commandVars, closerVars, Busy,
        Before
  <1>11. OrderInv'
    BY NoneAssumption, EmptySeqFacts, RequestsTyped
    DEF IInv, Retire, TypeOK, CallerInv, BatchInv, MailboxInv, CommandInv, OrderInv,
        CommandOver, Unsettled, Drain, callerVars, commandVars, closerVars, DrainStage,
        Executing, Busy, Before
  <1> QED  BY <1>1, <1>2, <1>3, <1>4, <1>5, <1>6, <1>7, <1>8, <1>9, <1>10, <1>11
       DEF IInv

(* A worker ends abnormally only after close has settled what was queued;  *)
(* it settles what it was working on.                                      *)
LEMMA OnExitKeeps == ASSUME IInv, NEW w \in Worker, OnExit(w) PROVE IInv'
  <1>1. /\ closed /\ worker = w /\ joined = w /\ drain[w] \in {"polling", "running"}
        /\ active # None => active = mine[w]
    BY NoneAssumption DEF IInv, OnExit, WorkerInv, CommandInv, At, Worker
  <1>2. /\ worker' = None /\ active' = None /\ drain' = [drain EXCEPT ![w] = "reaping"]
        /\ UNCHANGED <<coalesce, closed, mailbox, queued, tail, pc, batchOf, published, mine, stop,
                       selected, result, closing, doomed, joined>>
    BY <1>1 DEF OnExit, Drain, closerVars
  <1>3. /\ requests' \in [Batch -> Seq(Request)]
        /\ \A b \in Batch : requests'[b] = IF b = active THEN <<>> ELSE requests[b]
    <2>1. requests \in [Batch -> Seq(Request)]
      BY DEF IInv, TypeOK
    <2>2. requests' = IF active = None THEN requests ELSE [requests EXCEPT ![active] = <<>>]
      BY <1>1 DEF OnExit
    <2> QED  BY <2>1, <2>2, NoneAssumption, EmptySeqFacts DEF Batch
  <1>4. /\ completion' \in [Request -> Outcome \cup {None}]
        /\ \A r \in Request :
              completion'[r] = IF /\ active # None /\ r \in ToSet(requests[active])
                                  /\ completion[r] = None
                               THEN "interrupt" ELSE completion[r]
    <2>1. CASE active = None
      BY <2>1, <1>1 DEF OnExit, IInv, TypeOK
    <2>2. CASE active # None
      <3>1. Settle(ToSet(requests[active]), "interrupt")
        BY <2>2, <1>1 DEF OnExit
      <3> QED  BY <2>2, <3>1, SettleFacts DEF IInv, Outcome
    <2> QED  BY <2>1, <2>2
  <1>5. /\ command' \in [Batch -> {"none", "ended"} \cup Executing]
        /\ \A b \in Batch :
              command'[b] = IF b = mine[w] /\ command[b] = "running" THEN "stopping" ELSE command[b]
    BY NoneAssumption DEF OnExit, InterruptCommand, IInv, TypeOK, Executing, Batch
  <1>6. TypeOK'
    BY <1>1, <1>2, <1>3, <1>4, <1>5 DEF IInv, TypeOK, DrainStage
  <1>7. CallerInv'
    BY <1>1, <1>2, <1>3, <1>4, <1>5 DEF IInv, TypeOK, CallerInv, BatchInv
  <1>8. BatchInv'
    BY <1>2, <1>3, EmptySeqFacts DEF IInv, BatchInv
  <1>9. MailboxInv'
    BY <1>1, <1>2, <1>3, <1>4, <1>5 DEF IInv, MailboxInv
  <1>10. WorkerInv'
    BY <1>1, <1>2, <1>3, <1>4, <1>5, NoneAssumption, EmptySeqFacts
    DEF IInv, TypeOK, CallerInv, WorkerInv, Batch, Worker, CallerStage, At
  <1>11. CommandInv'
    BY <1>1, <1>2, <1>3, <1>4, <1>5 DEF IInv, TypeOK, WorkerInv, CommandInv, At, Busy
  <1>12. AbandonInv'
    <2>1. ASSUME NEW r \in Request, pc[r] = "joining"
          PROVE  requests'[batchOf[r]] = <<>> /\ selected[batchOf[r]] # None
      <3>1. batchOf[r] \in Batch
        BY <2>1 DEF IInv, TypeOK, CallerInv
      <3>2. requests[batchOf[r]] = <<>> /\ selected[batchOf[r]] # None
        BY <2>1 DEF IInv, AbandonInv
      <3> QED  BY <3>1, <3>2, <1>3
    <2> QED  BY <2>1, <1>1, <1>2 DEF AbandonInv
  <1>13. PendingInv'
    <2>1. ASSUME NEW r \in Request, pc[r] \in Pending, completion'[r] = None
          PROVE  r \in ToSet(requests'[batchOf[r]]) /\ batchOf[r] \in doomed
      <3>1. completion[r] = None /\ ~(active # None /\ r \in ToSet(requests[active]))
        BY <1>4, <2>1, NoneAssumption DEF Outcome
      <3>2. r \in ToSet(requests[batchOf[r]]) /\ batchOf[r] \in doomed
        BY <1>1, <2>1, <3>1 DEF IInv, PendingInv
      <3>3. batchOf[r] \in Batch /\ batchOf[r] # active
        BY <2>1, <3>1, <3>2, NoneAssumption DEF IInv, TypeOK, Batch
      <3> QED  BY <3>2, <3>3, <1>3
    <2> QED  BY <2>1, <1>1, <1>2 DEF PendingInv
  <1>14. ClosingInv'
    BY <1>1, <1>2, <1>3, <1>4, <1>5 DEF IInv, ClosingInv, WorkerStarted
  <1>15. NewestInv'
    <2>1. \A r \in Request : completion'[r] = "done" => completion[r] = "done"
      BY <1>4
    <2> QED  BY <2>1, <1>2, <1>3, EmptySeqFacts DEF IInv, NewestInv, Before
  <1>16. OrderInv'
    BY <1>1, <1>2, <1>3, RequestsTyped, EmptySeqFacts DEF IInv, TypeOK, OrderInv, Before
  <1> QED  BY <1>6, <1>7, <1>8, <1>9, <1>10, <1>11, <1>12, <1>13, <1>14, <1>15, <1>16
       DEF IInv

(* After that nothing of the worker is left. *)
LEMMA ExitKeeps == ASSUME IInv, NEW w \in Worker, Exit(w) PROVE IInv'
  <1>1. TypeOK'
    BY NoneAssumption
    DEF IInv, Exit, TypeOK, CommandOver, Drain, mailboxVars, callerVars, commandVars,
        closerVars, Batch, DrainStage, Executing
  <1>2. CallerInv'
    BY NoneAssumption DEF IInv, Exit, CallerInv, Drain, callerVars
  <1>3. BatchInv'
    BY DEF IInv, Exit, CallerInv, BatchInv, mailboxVars, callerVars
  <1>4. MailboxInv'
    BY NoneAssumption
    DEF IInv, Exit, BatchInv, MailboxInv, Drain, mailboxVars, callerVars, commandVars
  <1>5. WorkerInv'
    BY NoneAssumption
    DEF IInv, Exit, TypeOK, CallerInv, WorkerInv, CommandOver, Drain, mailboxVars,
        callerVars, DrainStage, Executing, At
  <1>6. CommandInv'
    BY NoneAssumption
    DEF IInv, Exit, TypeOK, CommandInv, CommandOver, Drain, mailboxVars, callerVars,
        commandVars, closerVars, Batch, Executing
  <1>7. AbandonInv'
    BY DEF IInv, Exit, AbandonInv, CommandOver, Drain, mailboxVars, callerVars,
        commandVars
  <1>8. PendingInv'
    BY DEF IInv, Exit, TypeOK, PendingInv, CommandOver, Drain, mailboxVars, callerVars,
        commandVars, closerVars
  <1>9. ClosingInv'
    BY NoneAssumption
    DEF IInv, Exit, TypeOK, WorkerInv, ClosingInv, CommandOver, Drain, mailboxVars,
        closerVars, At, WorkerStarted
  <1>10. NewestInv'
    BY NoneAssumption, RequestsTyped
    DEF IInv, Exit, TypeOK, NewestInv, CommandOver, Drain, mailboxVars, callerVars,
        commandVars, Busy, Before
  <1>11. OrderInv'
    BY NoneAssumption, RequestsTyped
    DEF IInv, Exit, TypeOK, OrderInv, CommandOver, Drain, mailboxVars, callerVars,
        commandVars, Busy, Before
  <1> QED  BY <1>1, <1>2, <1>3, <1>4, <1>5, <1>6, <1>7, <1>8, <1>9, <1>10, <1>11
       DEF IInv

(* The first closer takes all batches to fail and the worker to join;      *)
(* nothing can be added any more.                                          *)
LEMMA CloseKeeps == ASSUME IInv, NEW k \in Closer, Close(k) PROVE IInv'
  <1>1. TypeOK'
    <2>1. CASE closed
      BY <2>1 DEF IInv, Close, TypeOK, callerVars, workerVars, commandVars
    <2>2. CASE ~closed
      <3>1. doomed' \subseteq Batch
        BY <2>2, RequestsTyped DEF IInv, Close, Stranded, TypeOK
      <3> QED  BY <2>2, <3>1
           DEF IInv, Close, TypeOK, callerVars, workerVars, commandVars
    <2> QED  BY <2>1, <2>2
  <1>2. CallerInv'
    BY NoneAssumption DEF IInv, Close, CallerInv, callerVars, workerVars
  <1>3. BatchInv'
    BY DEF IInv, Close, BatchInv, Stranded, callerVars
  <1>4. MailboxInv'
    BY NoneAssumption
    DEF IInv, Close, MailboxInv, CommandInv, Stranded, callerVars, workerVars,
        commandVars
  <1>5. WorkerInv'
    BY NoneAssumption DEF IInv, Close, WorkerInv, Stranded, callerVars, workerVars
  <1>6. CommandInv'
    BY NoneAssumption
    DEF IInv, Close, WorkerInv, CommandInv, callerVars, workerVars, commandVars
  <1>7. AbandonInv'
    BY NoneAssumption
    DEF IInv, Close, AbandonInv, Stranded, callerVars, workerVars, commandVars
  <1>8. PendingInv'
    <2>1. CASE closed
      BY <2>1 DEF IInv, Close, PendingInv, callerVars
    <2>2. CASE ~closed
      <3>1. /\ doomed' = queued \cup ({active} \ {None}) /\ closed'
            /\ UNCHANGED <<requests, pc, completion, batchOf>>
        BY <2>2 DEF Close, Stranded, callerVars
      <3>2. \A r \in Request : pc[r] \in Pending => batchOf[r] # None
        BY DEF IInv, CallerInv, Pending
      <3> QED  BY <2>2, <3>1, <3>2 DEF IInv, PendingInv
    <2> QED  BY <2>1, <2>2
  <1>9. ClosingInv'
    BY NoneAssumption
    DEF IInv, Close, TypeOK, WorkerInv, ClosingInv, Stranded, callerVars, workerVars,
        commandVars, Batch, Worker, CallerStage, Outcome, DrainStage, Executing, At,
        WorkerStarted
  <1>10. NewestInv'
    BY NoneAssumption, RequestsTyped
    DEF IInv, Close, NewestInv, Stranded, callerVars, workerVars, commandVars, Busy,
        Before
  <1>11. OrderInv'
    BY NoneAssumption, RequestsTyped
    DEF IInv, Close, OrderInv, Stranded, callerVars, workerVars, commandVars, Busy,
        Before
  <1> QED  BY <1>1, <1>2, <1>3, <1>4, <1>5, <1>6, <1>7, <1>8, <1>9, <1>10, <1>11
       DEF IInv

(* A failed batch is settled as a whole. *)
LEMMA FailBatchKeeps == ASSUME IInv, NEW k \in Closer, FailBatch(k) PROVE IInv'
  <1>1. PICK b \in doomed :
           \/ /\ \E r \in Unsettled(b) : Settle({r}, "closed")
              /\ UNCHANGED <<requests, doomed>>
           \/ /\ Unsettled(b) = {}
              /\ requests' = [requests EXCEPT ![b] = <<>>]
              /\ doomed' = doomed \ {b}
              /\ UNCHANGED completion
    BY DEF FailBatch
  <1>2. /\ b \in Batch /\ closing[k] = "failing" /\ closed
        /\ UNCHANGED <<coalesce, closed, mailbox, queued, tail, active, worker, pc, batchOf,
                       published, workerVars, commandVars, closing, joined>>
    BY DEF FailBatch, IInv, TypeOK, ClosingInv
  <1>3. ASSUME NEW r \in Unsettled(b), Settle({r}, "closed"), UNCHANGED <<requests, doomed>>
        PROVE  IInv'
    <2>1. r \in Request /\ r \in ToSet(requests[b]) /\ completion[r] = None /\ batchOf[r] = b
      BY <1>2, <1>3, RequestsTyped DEF IInv, Unsettled, BatchInv
    <2>2. completion' = [completion EXCEPT ![r] = "closed"]
      BY <1>3, <2>1, SettleSingle DEF IInv
    <2>3. TypeOK'
      BY <1>2, <1>3, <2>1, <2>2 DEF workerVars, commandVars, IInv, TypeOK, Outcome
    <2>4. CallerInv'
      BY <1>2, <1>3, <2>1, <2>2, NoneAssumption DEF workerVars, IInv, CallerInv, Batch
    <2>5. BatchInv'
      BY <1>2, <1>3, <2>1, <2>2 DEF IInv, BatchInv
    <2>6. MailboxInv'
      BY <1>2, <1>3, <2>1, <2>2 DEF workerVars, commandVars, IInv, MailboxInv
    <2>7. WorkerInv'
      BY <1>2, <1>3, <2>1, <2>2 DEF workerVars, IInv, WorkerInv
    <2>8. CommandInv'
      BY <1>2, <1>3, <2>1, <2>2 DEF workerVars, commandVars, IInv, CommandInv
    <2>9. AbandonInv'
      BY <1>2, <1>3, <2>1, <2>2 DEF commandVars, IInv, AbandonInv
    <2>10. PendingInv'
      BY <1>2, <1>3, <2>1, <2>2 DEF IInv, PendingInv
    <2>11. ClosingInv'
      BY <1>2, <1>3, <2>1, <2>2 DEF IInv, ClosingInv
    <2>12. NewestInv'
      BY <1>2, <1>3, <2>1, <2>2 DEF commandVars, IInv, NewestInv, Busy, Before
    <2>13. OrderInv'
      BY <1>2, <1>3, <2>1, <2>2
      DEF workerVars, commandVars, IInv, OrderInv, Busy, Before
    <2> QED  BY <2>3, <2>4, <2>5, <2>6, <2>7, <2>8, <2>9, <2>10, <2>11, <2>12, <2>13
         DEF IInv
  <1>4. ASSUME Unsettled(b) = {}, requests' = [requests EXCEPT ![b] = <<>>],
               doomed' = doomed \ {b}, UNCHANGED completion
        PROVE  IInv'
    <2>1. /\ requests' \in [Batch -> Seq(Request)]
          /\ \A d \in Batch : requests'[d] = IF d = b THEN <<>> ELSE requests[d]
      BY <1>2, <1>4 DEF IInv, TypeOK
    <2>2. \A r \in ToSet(requests[b]) : completion[r] # None
      BY <1>4 DEF Unsettled
    <2>3. TypeOK'
      BY <1>2, <1>4, <2>1, <2>2 DEF workerVars, commandVars, IInv, TypeOK
    <2>4. CallerInv'
      BY <1>2, <1>4, <2>1, <2>2 DEF workerVars, IInv, CallerInv
    <2>5. BatchInv'
      BY <1>2, <1>4, <2>1, <2>2, EmptySeqFacts DEF IInv, BatchInv
    <2>6. MailboxInv'
      BY <1>2, <1>4, <2>1, <2>2 DEF workerVars, commandVars, IInv, MailboxInv
    <2>7. WorkerInv'
      BY <1>2, <1>4, <2>1, <2>2 DEF workerVars, IInv, WorkerInv
    <2>8. CommandInv'
      BY <1>2, <1>4, <2>1, <2>2 DEF workerVars, commandVars, IInv, CommandInv
    <2>9. AbandonInv'
      BY <1>2, <1>4, <2>1, <2>2 DEF commandVars, IInv, AbandonInv
    <2>10. PendingInv'
      BY <1>2, <1>4, <2>1, <2>2 DEF IInv, PendingInv
    <2>11. ClosingInv'
      BY <1>2, <1>4, <2>1, <2>2 DEF IInv, ClosingInv
    <2>12. NewestInv'
      BY <1>2, <1>4, <2>1, <2>2, NoneAssumption, EmptySeqFacts
      DEF workerVars, commandVars, IInv, NewestInv, Busy, Before
    <2>13. OrderInv'
      BY <1>2, <1>4, <2>1, <2>2, NoneAssumption, EmptySeqFacts, RequestsTyped
      DEF workerVars, commandVars, IInv, OrderInv, Busy, Before
    <2> QED  BY <2>3, <2>4, <2>5, <2>6, <2>7, <2>8, <2>9, <2>10, <2>11, <2>12, <2>13
         DEF IInv
  <1> QED  BY <1>1, <1>3, <1>4

(* The worker is told to stop when all batches have failed. *)
LEMMA StopWorkerKeeps == ASSUME IInv, NEW k \in Closer, StopWorker(k) PROVE IInv'
  <1>1. TypeOK'
    BY DEF IInv, StopWorker, TypeOK, mailboxVars, callerVars, commandVars
  <1>2. CallerInv'
    BY DEF IInv, StopWorker, CallerInv, callerVars
  <1>3. BatchInv'
    BY DEF IInv, StopWorker, CallerInv, BatchInv, mailboxVars, callerVars
  <1>4. MailboxInv'
    BY NoneAssumption
    DEF IInv, StopWorker, BatchInv, MailboxInv, mailboxVars, callerVars, commandVars
  <1>5. WorkerInv'
    BY NoneAssumption
    DEF IInv, StopWorker, CallerInv, WorkerInv, ClosingInv, WorkerStarted, Worker,
        mailboxVars, callerVars, commandVars
  <1>6. CommandInv'
    BY NoneAssumption
    DEF IInv, StopWorker, CommandInv, WorkerStarted, Worker, mailboxVars, callerVars,
        commandVars
  <1>7. AbandonInv'
    BY NoneAssumption
    DEF IInv, StopWorker, AbandonInv, WorkerStarted, mailboxVars, callerVars,
        commandVars
  <1>8. PendingInv'
    BY DEF IInv, StopWorker, PendingInv, WorkerStarted, Worker, mailboxVars, callerVars,
        commandVars
  <1>9. ClosingInv'
    BY NoneAssumption DEF IInv, StopWorker, ClosingInv, WorkerStarted, mailboxVars
  <1>10. NewestInv'
    BY NoneAssumption, RequestsTyped
    DEF IInv, StopWorker, NewestInv, WorkerStarted, Worker, mailboxVars, callerVars,
        commandVars, Executing, Busy, Before
  <1>11. OrderInv'
    BY NoneAssumption, RequestsTyped
    DEF IInv, StopWorker, OrderInv, WorkerStarted, Worker, mailboxVars, callerVars,
        commandVars, Executing, Busy, Before
  <1> QED  BY <1>1, <1>2, <1>3, <1>4, <1>5, <1>6, <1>7, <1>8, <1>9, <1>10, <1>11
       DEF IInv

(* The first closer returns when the worker it joined has ended. *)
LEMMA ClosedKeeps == ASSUME IInv, NEW k \in Closer, Closed(k) PROVE IInv'
  <1>1. TypeOK'
    BY NoneAssumption, EmptySeqFacts
    DEF IInv, Closed, TypeOK, ClosingInv, callerVars, workerVars, commandVars
  <1>2. CallerInv'
    BY DEF IInv, Closed, CallerInv, WorkerInv, callerVars, workerVars
  <1>3. BatchInv'
    BY DEF IInv, Closed, BatchInv, callerVars
  <1>4. MailboxInv'
    BY NoneAssumption, EmptySeqFacts
    DEF IInv, Closed, BatchInv, MailboxInv, CommandInv, ClosingInv, callerVars,
        workerVars, commandVars
  <1>5. WorkerInv'
    BY DEF IInv, Closed, WorkerInv, callerVars, workerVars
  <1>6. CommandInv'
    BY DEF IInv, Closed, CommandInv, workerVars, commandVars
  <1>7. AbandonInv'
    BY DEF IInv, Closed, TypeOK, CommandInv, AbandonInv, callerVars, workerVars,
        commandVars
  <1>8. PendingInv'
    BY DEF IInv, Closed, PendingInv, callerVars
  <1>9. ClosingInv'
    BY DEF IInv, Closed, TypeOK, WorkerInv, ClosingInv, callerVars, workerVars,
        WorkerStarted
  <1>10. NewestInv'
    BY DEF IInv, Closed, MailboxInv, CommandInv, NewestInv, callerVars, workerVars,
        commandVars, Busy, Before
  <1>11. OrderInv'
    BY NoneAssumption, EmptySeqFacts, RequestsTyped
    DEF IInv, Closed, MailboxInv, CommandInv, OrderInv, callerVars, workerVars,
        commandVars, Busy, Before
  <1> QED  BY <1>1, <1>2, <1>3, <1>4, <1>5, <1>6, <1>7, <1>8, <1>9, <1>10, <1>11
       DEF IInv

(* The others return after it. *)
LEMMA AwaitClosedKeeps == ASSUME IInv, NEW k \in Closer, AwaitClosed(k) PROVE IInv'
  <1>1. TypeOK'
    BY NoneAssumption
    DEF IInv, AwaitClosed, TypeOK, mailboxVars, callerVars, workerVars, commandVars
  <1>2. CallerInv'
    BY NoneAssumption DEF IInv, AwaitClosed, CallerInv, callerVars, workerVars
  <1>3. BatchInv'
    BY DEF IInv, AwaitClosed, BatchInv, mailboxVars, callerVars
  <1>4. MailboxInv'
    BY NoneAssumption
    DEF IInv, AwaitClosed, MailboxInv, CommandInv, mailboxVars, callerVars, workerVars,
        commandVars
  <1>5. WorkerInv'
    BY NoneAssumption
    DEF IInv, AwaitClosed, WorkerInv, mailboxVars, callerVars, workerVars
  <1>6. CommandInv'
    BY NoneAssumption
    DEF IInv, AwaitClosed, WorkerInv, CommandInv, mailboxVars, callerVars, workerVars,
        commandVars
  <1>7. AbandonInv'
    BY NoneAssumption
    DEF IInv, AwaitClosed, AbandonInv, mailboxVars, callerVars, workerVars, commandVars
  <1>8. PendingInv'
    BY DEF IInv, AwaitClosed, PendingInv, mailboxVars, callerVars
  <1>9. ClosingInv'
    BY NoneAssumption
    DEF IInv, AwaitClosed, ClosingInv, mailboxVars, callerVars, workerVars,
        WorkerStarted
  <1>10. NewestInv'
    BY NoneAssumption, RequestsTyped
    DEF IInv, AwaitClosed, NewestInv, mailboxVars, callerVars, workerVars, commandVars,
        Busy, Before
  <1>11. OrderInv'
    BY NoneAssumption, RequestsTyped
    DEF IInv, AwaitClosed, OrderInv, mailboxVars, callerVars, workerVars, commandVars,
        Busy, Before
  <1> QED  BY <1>1, <1>2, <1>3, <1>4, <1>5, <1>6, <1>7, <1>8, <1>9, <1>10, <1>11
       DEF IInv

(* A step that changes nothing keeps the invariant. *)
LEMMA StutterKeeps == ASSUME IInv, UNCHANGED vars PROVE IInv'
  <1>1. UNCHANGED <<mailboxVars, callerVars, workerVars, commandVars, closerVars>>
    BY DEF vars
  <1>2. TypeOK' /\ CallerInv' /\ BatchInv' /\ MailboxInv'
    BY <1>1
    DEF IInv, TypeOK, CallerInv, BatchInv, MailboxInv, mailboxVars, callerVars,
        workerVars, commandVars, closerVars
  <1>3. WorkerInv' /\ CommandInv' /\ AbandonInv'
    BY <1>1
    DEF IInv, WorkerInv, CommandInv, AbandonInv, mailboxVars, callerVars, workerVars,
        commandVars, closerVars
  <1>4. PendingInv' /\ ClosingInv' /\ NewestInv' /\ OrderInv'
    BY <1>1
    DEF IInv, PendingInv, ClosingInv, WorkerStarted, NewestInv, OrderInv, Before,
        mailboxVars, callerVars, workerVars, commandVars, closerVars
  <1> QED  BY <1>2, <1>3, <1>4 DEF IInv

-----------------------------------------------------------------------------
(* The inductive invariant.                                                *)
THEOREM Inductive == Spec => []IInv
  <1>1. IInv /\ [Next]_vars => IInv'
    <2> SUFFICES ASSUME IInv, [Next]_vars PROVE IInv'
      OBVIOUS
    <2>1. ASSUME NEW r \in Request, Publish(r) \/ Interrupt(r) \/ CallerStep(r) PROVE IInv'
      BY <2>1, PublishKeeps, InterruptKeeps, LaunchKeeps, ForkKeeps, AnswerKeeps,
         CancelKeeps, JoinKeeps
      DEF CallerStep
    <2>2. ASSUME NEW w \in Worker, WorkerStep(w) PROVE IInv'
      BY <2>2, PollKeeps, StartCommandKeeps, SettleOneKeeps, RetireKeeps, OnExitKeeps,
         ExitKeeps
      DEF WorkerStep
    <2>3. ASSUME NEW k \in Closer, Close(k) \/ CloserStep(k) PROVE IInv'
      BY <2>3, CloseKeeps, FailBatchKeeps, StopWorkerKeeps, ClosedKeeps,
         AwaitClosedKeeps
      DEF CloserStep
    <2> QED  BY <2>1, <2>2, <2>3, CommandEndsKeeps, StutterKeeps DEF Next
  <1> QED  BY <1>1, InitInv, PTL DEF Spec

(* Two commands of one mailbox never run at the same time, cleanup included. *)
THEOREM Serial == Spec => []SerialExecution
  <1>1. IInv => SerialExecution
    BY NoneAssumption DEF IInv, WorkerInv, CommandInv, SerialExecution, At, Busy, Worker
  <1> QED  BY <1>1, Inductive, PTL

(* The answer to a caller is that of its own command or of a newer one.    *)
THEOREM AnsweredNewest == Spec => []AnsweredByOwnOrNewer
  <1>1. IInv => AnsweredByOwnOrNewer
    BY DEF IInv, NewestInv, AnsweredByOwnOrNewer
  <1> QED  BY <1>1, Inductive, PTL

(* A caller that waits is not interrupted by another one's cancellation.   *)
THEOREM NoForeignInterruption == Spec => []OnlyOwnInterruption
  <1>1. IInv => OnlyOwnInterruption
    BY DEF IInv, AbandonInv, OnlyOwnInterruption
  <1> QED  BY <1>1, Inductive, PTL

(* When all callers of a batch have cancelled, its command is over.        *)
THEOREM CancellationJoins == Spec => []CancelJoins
  <1>1. ASSUME IInv, ~closed, NEW b \in Batch, command[b] \in Executing
        PROVE  \E r \in Request : batchOf[r] = b /\ pc[r] # "cancelled"
    <2>1. CASE requests[b] # <<>>
      <3>1. PICK r \in ToSet(requests[b]) : TRUE
        BY <2>1, <1>1, NonEmptySet DEF IInv, TypeOK
      <3> QED  BY <1>1, RequestsTyped DEF IInv, BatchInv
    <2>2. CASE requests[b] = <<>>
      BY <2>2, <1>1 DEF IInv, AbandonInv
    <2> QED  BY <2>1, <2>2
  <1>2. IInv => CancelJoins
    BY <1>1 DEF CancelJoins
  <1> QED  BY <1>2, Inductive, PTL

(* When close has returned, no command runs and no caller is unanswered.   *)
THEOREM ClosingJoins == Spec => []CloseJoins
  <1>1. ASSUME IInv, NEW k \in Closer, closing[k] = "done"
        PROVE  /\ \A b \in Batch : command[b] \notin Executing
               /\ \A r \in Request : pc[r] \in Pending => completion[r] # None
    <2>1. closed /\ doomed = {} /\ (joined # None => drain[joined] = "exited")
      BY <1>1 DEF IInv, ClosingInv
    <2>2. \A w \in Worker : drain[w] \notin Busy
      BY <2>1, <1>1, NoneAssumption DEF IInv, WorkerInv, At, Busy, Worker
    <2> QED  BY <1>1, <2>1, <2>2 DEF IInv, CommandInv, PendingInv
  <1>2. IInv => CloseJoins
    BY <1>1 DEF CloseJoins, Pending
  <1> QED  BY <1>2, Inductive, PTL

(* Commands start in the order in which their requests were published.     *)
THEOREM StartsInOrder == Spec => InOrder
  <1>1. ASSUME IInv, [Next]_vars, NEW b \in Batch, NEW d \in Batch,
               command[b] = "none", command'[b] = "running", command[d] # "none"
        PROVE  Before(selected[d], selected[b])
    <2>1. PICK w \in Worker : StartCommand(w) /\ mine[w] = b
      <3>1. PICK w \in Worker : StartCommand(w)
        <4>1. command' # command
          BY <1>1
        <4>2. ASSUME NEW c \in Batch, CommandEnds(c) PROVE FALSE
          BY <4>2, <1>1 DEF CommandEnds, IInv
        <4>3. ASSUME NEW c, InterruptCommand(c) PROVE FALSE
          BY <4>3, <1>1 DEF InterruptCommand, IInv, TypeOK
        <4>4. ASSUME NEW r \in Request, Publish(r) \/ Interrupt(r) \/ CallerStep(r) PROVE FALSE
          BY <4>1, <4>3, <4>4
          DEF Publish, Interrupt, CallerStep, Launch, Fork, Answer, Cancel, Join,
              commandVars
        <4>5. ASSUME NEW k \in Closer, Close(k) \/ CloserStep(k) PROVE FALSE
          BY <4>1, <4>5
          DEF Close, CloserStep, FailBatch, StopWorker, Closed, AwaitClosed, commandVars
        <4>6. ASSUME NEW w \in Worker, WorkerStep(w) PROVE StartCommand(w)
          BY <4>1, <4>3, <4>6
          DEF WorkerStep, Poll, SettleOne, Retire, OnExit, Exit, commandVars
        <4>7. ~UNCHANGED vars
          BY <4>1 DEF vars, commandVars
        <4> QED  BY <1>1, <4>2, <4>4, <4>5, <4>6, <4>7 DEF Next
      <3>2. mine[w] = b
        BY <3>1, <1>1 DEF StartCommand, IInv, TypeOK
      <3> QED  BY <3>1, <3>2
    <2>2. drain[w] = "claimed" /\ selected[d] # None /\ d # mine[w]
      BY <1>1, <2>1 DEF StartCommand, IInv, MailboxInv
    <2> QED  BY <1>1, <2>1, <2>2 DEF IInv, OrderInv
  <1>2. IInv /\ [Next]_vars =>
          [\A b, d \in Batch :
              command[b] = "none" /\ command'[b] = "running" /\ command[d] # "none" =>
                  Before(selected[d], selected[b])]_vars
    BY <1>1
  <1> QED  BY <1>2, Inductive, PTL DEF InOrder, Spec
=============================================================================
