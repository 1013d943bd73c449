-------------------------- MODULE SequenceLockProofs --------------------------
(***************************************************************************)
(* Proofs about SequenceLock, for any number of tokens and processes, any  *)
(* placement on hosts and any ticket bound: it is type correct, it         *)
(* excludes, it implements SequenceLease, and it serves calls in the order *)
(* in which they came.                                                     *)
(***************************************************************************)
EXTENDS SequenceLockOrder, TLAPS

(* Calls whose process must be running. *)
Running == Stage \ Over

(* What a call's stage says of its symlink and its ticket. *)
EntryInv ==
    \A t \in Token :
        /\ pc[t] \in {"idle", "done"} => entry[t] = Absent
        /\ pc[t] \in {"published", "choosing", "chosen"} => entry[t] = Choosing
        /\ pc[t] \in InLine => ticket[t] > 0 /\ entry[t] = ticket[t]
        /\ pc[t] = "chosen" => ticket[t] > 0

(* Calls of a dead process are over, so nobody reaps a running one. *)
AliveInv == \A t \in Token : pc[t] \in Running => alive[Owner[t]]

(* t is served before u. *)
Precedes(t, u) == ticket[t] < ticket[u] \/ (ticket[t] = ticket[u] /\ t < u)

(* While t is in line u can only enter after it: u is out, has still to    *)
(* read t's ticket, has read it, or has chosen behind it.                  *)
After(u, t) ==
    \/ pc[u] \in {"idle", "published", "unwinding", "done", "crashed"}
    \/ pc[u] = "choosing" /\ (\/ t \in names[u]
                              \/ [token |-> t, ticket |-> ticket[t]] \in seen[u])
    \/ pc[u] \in {"chosen", "polling", "waiting", "held"} /\ Precedes(t, u)

(* A call that is reading the queue has, of every other, still to read it, *)
(* an entry of it that blocks, or the certainty that it is behind.         *)
OrderInv ==
    \A t, u \in Token : t # u =>
        /\ pc[t] = "held" => After(u, t)
        /\ pc[t] = "waiting" =>
              \/ u \in names[t]
              \/ \E e \in seen[t] : e.token = u /\ Blocks(e, t)
              \/ After(u, t)

IInv == TypeOK /\ EntryInv /\ AliveInv /\ OrderInv

USE TokenAssumption, OwnerAssumption, MaxTicketAssumption

-----------------------------------------------------------------------------
(* A step keeps every variable in its type. *)
LEMMA TypeOKStep == TypeOK /\ [Next]_vars => TypeOK'
<1> SUFFICES ASSUME TypeOK, [Next]_vars PROVE TypeOK'
  OBVIOUS
<1> USE DEF TypeOK, Stage, Reading, Listing, Over, Entry, Absent, Choosing
<1>1. ASSUME NEW t \in Token, Publish(t) PROVE TypeOK'
  BY <1>1 DEF Publish
<1>2. ASSUME NEW t \in Token, GiveUp(t) PROVE TypeOK'
  BY <1>2 DEF GiveUp, Forget
<1>3. ASSUME NEW t \in Token, ReadDir(t) PROVE TypeOK'
  BY <1>3 DEF ReadDir
<1>4. ASSUME NEW t \in Token, NEW u \in Token, ReadLink(t, u) PROVE TypeOK'
  <2>1. CASE entry[u] = Absent
    BY <1>4, <2>1 DEF ReadLink
  <2>2. CASE entry[u] # Absent
    <3>1. [token |-> u, ticket |-> entry[u]] \in Entry
      BY <2>2
    <3> QED
      BY <1>4, <2>2, <3>1 DEF ReadLink
  <2> QED
    BY <2>1, <2>2
<1>5. ASSUME NEW t \in Token, Choose(t) PROVE TypeOK'
  <2>1. PICK m \in {0} \cup {e.ticket : e \in seen[t]} :
            \/ /\ m + 1 <= MaxTicket
               /\ ticket' = [ticket EXCEPT ![t] = m + 1]
               /\ pc' = [pc EXCEPT ![t] = "chosen"]
            \/ /\ m + 1 > MaxTicket
               /\ pc' = [pc EXCEPT ![t] = "unwinding"]
               /\ UNCHANGED ticket
    BY <1>5 DEF Choose
  <2>2. m \in Nat
    OBVIOUS
  <2> QED
    BY <1>5, <2>1, <2>2 DEF Choose, Forget
<1>6. ASSUME NEW t \in Token, PublishTicket(t) PROVE TypeOK'
  BY <1>6 DEF PublishTicket
<1>7. ASSUME NEW t \in Token, Enter(t) PROVE TypeOK'
  BY <1>7 DEF Enter, Forget
<1>8. ASSUME NEW t \in Token, Poll(t) PROVE TypeOK'
  BY <1>8 DEF Poll, Forget
<1>9. ASSUME NEW t \in Token, Withdraw(t) PROVE TypeOK'
  BY <1>9 DEF Withdraw
<1>10. ASSUME NEW t \in Token, Release(t) PROVE TypeOK'
  BY <1>10 DEF Release
<1>11. ASSUME NEW p \in Process, Crash(p) PROVE TypeOK'
  BY <1>11 DEF Crash
<1>12. CASE UNCHANGED vars
  BY <1>12 DEF vars
<1> QED
  BY <1>1, <1>2, <1>3, <1>4, <1>5, <1>6, <1>7, <1>8, <1>9, <1>10, <1>11, <1>12
     DEF Next, Step

(* The locks' state is well typed in every behaviour. *)
THEOREM TypeCorrect == Spec => []TypeOK
<1>1. Init => TypeOK
  BY DEF Init, TypeOK, Stage, Absent
<1> QED
  BY <1>1, TypeOKStep, PTL DEF Spec

-----------------------------------------------------------------------------
(* Symlinks and tickets follow the stages. *)
LEMMA EntryStep == TypeOK /\ EntryInv /\ AliveInv /\ [Next]_vars => EntryInv' /\ AliveInv'
<1> SUFFICES ASSUME TypeOK, EntryInv, AliveInv, [Next]_vars PROVE EntryInv' /\ AliveInv'
  OBVIOUS
<1> USE DEF TypeOK, EntryInv, AliveInv, Running, InLine, Stage, Reading, Listing, Over,
            Absent, Choosing
<1>1. ASSUME NEW t \in Token, Publish(t) PROVE EntryInv' /\ AliveInv'
  BY <1>1 DEF Publish
<1>2. ASSUME NEW t \in Token, GiveUp(t) PROVE EntryInv' /\ AliveInv'
  BY <1>2 DEF GiveUp, Forget
<1>3. ASSUME NEW t \in Token, ReadDir(t) PROVE EntryInv' /\ AliveInv'
  BY <1>3 DEF ReadDir
<1>4. ASSUME NEW t \in Token, NEW u \in Token, ReadLink(t, u) PROVE EntryInv' /\ AliveInv'
  <2>1. CASE UNCHANGED entry
    BY <1>4, <2>1 DEF ReadLink
  <2>2. CASE entry' = [entry EXCEPT ![u] = Absent] /\ ~OwnerIsAlive(t, u)
    <3>1. pc[u] \in Over
      BY <2>2 DEF OwnerIsAlive
    <3> QED
      BY <1>4, <2>2, <3>1 DEF ReadLink
  <2> QED
    BY <1>4, <2>1, <2>2 DEF ReadLink
<1>5. ASSUME NEW t \in Token, Choose(t) PROVE EntryInv' /\ AliveInv'
  <2>1. PICK m \in {0} \cup {e.ticket : e \in seen[t]} :
            \/ /\ m + 1 <= MaxTicket
               /\ ticket' = [ticket EXCEPT ![t] = m + 1]
               /\ pc' = [pc EXCEPT ![t] = "chosen"]
            \/ /\ m + 1 > MaxTicket
               /\ pc' = [pc EXCEPT ![t] = "unwinding"]
               /\ UNCHANGED ticket
    BY <1>5 DEF Choose
  <2>2. m \in Nat
    BY DEF Entry
  <2> QED
    BY <1>5, <2>1, <2>2 DEF Choose
<1>6. ASSUME NEW t \in Token, PublishTicket(t) PROVE EntryInv' /\ AliveInv'
  BY <1>6 DEF PublishTicket
<1>7. ASSUME NEW t \in Token, Enter(t) PROVE EntryInv' /\ AliveInv'
  BY <1>7 DEF Enter
<1>8. ASSUME NEW t \in Token, Poll(t) PROVE EntryInv' /\ AliveInv'
  BY <1>8 DEF Poll
<1>9. ASSUME NEW t \in Token, Withdraw(t) PROVE EntryInv' /\ AliveInv'
  BY <1>9 DEF Withdraw
<1>10. ASSUME NEW t \in Token, Release(t) PROVE EntryInv' /\ AliveInv'
  BY <1>10 DEF Release
<1>11. ASSUME NEW p \in Process, Crash(p) PROVE EntryInv' /\ AliveInv'
  BY <1>11 DEF Crash
<1>12. CASE UNCHANGED vars
  BY <1>12 DEF vars
<1> QED
  BY <1>1, <1>2, <1>3, <1>4, <1>5, <1>6, <1>7, <1>8, <1>9, <1>10, <1>11, <1>12
     DEF Next, Step

(* Whoever is in line stays ahead of whoever could only enter after it: no *)
(* step of a third call, and no step of u while t keeps its ticket, lets u *)
(* in before t.                                                            *)
LEMMA AfterStable ==
    ASSUME TypeOK, EntryInv, AliveInv, [Next]_vars,
           NEW t \in Token, NEW u \in Token, t # u,
           pc[t] \in InLine, pc'[t] \in InLine, After(u, t)
    PROVE  After(u, t)'
<1> USE DEF TypeOK, InLine, Stage, Reading, Listing, Over, Absent, Choosing, After, Precedes
<1>1. ASSUME NEW v \in Token, Publish(v) PROVE After(u, t)'
  BY <1>1 DEF Publish
<1>2. ASSUME NEW v \in Token, GiveUp(v) PROVE After(u, t)'
  <2>1. v # t
    BY <1>2 DEF GiveUp
  <2> QED
    BY <1>2, <2>1 DEF GiveUp, Forget
<1>3. ASSUME NEW v \in Token, ReadDir(v) PROVE After(u, t)'
  <2>1. entry[t] # Absent
    BY DEF EntryInv
  <2>2. CASE v = u
    BY <1>3, <2>1, <2>2 DEF ReadDir
  <2>3. CASE v # u
    BY <1>3, <2>3 DEF ReadDir
  <2> QED
    BY <2>2, <2>3
<1>4. ASSUME NEW v \in Token, NEW w \in Token, ReadLink(v, w) PROVE After(u, t)'
  <2>1. pc' = pc /\ ticket' = ticket
    BY <1>4 DEF ReadLink
  <2>2. CASE v = u /\ w = t /\ pc[u] = "choosing"
    (* u reads t's symlink: t is alive and its ticket is in it. *)
    <3>1. entry[t] = ticket[t] /\ entry[t] # Absent /\ alive[Owner[t]]
      BY DEF EntryInv, AliveInv, Running
    <3>2. [token |-> t, ticket |-> ticket[t]] \in seen'[u]
      BY <1>4, <2>2, <3>1 DEF ReadLink, OwnerIsAlive
    <3> QED
      BY <2>1, <2>2, <3>2
  <2>3. CASE ~(v = u /\ w = t) /\ pc[u] = "choosing"
    <3>1. names[u] \ {w} \subseteq names'[u] /\ (v # u => names'[u] = names[u])
      BY <1>4 DEF ReadLink
    <3>2. seen[u] \subseteq seen'[u]
      BY <1>4 DEF ReadLink
    <3> QED
      BY <2>1, <2>3, <3>1, <3>2
  <2>4. CASE pc[u] # "choosing"
    BY <2>1, <2>4
  <2> QED
    BY <2>2, <2>3, <2>4
<1>5. ASSUME NEW v \in Token, Choose(v) PROVE After(u, t)'
  <2>1. PICK m \in {0} \cup {e.ticket : e \in seen[v]} :
            /\ \A e \in seen[v] : e.ticket <= m
            /\ \/ /\ m + 1 <= MaxTicket
                  /\ ticket' = [ticket EXCEPT ![v] = m + 1]
                  /\ pc' = [pc EXCEPT ![v] = "chosen"]
               \/ /\ m + 1 > MaxTicket
                  /\ pc' = [pc EXCEPT ![v] = "unwinding"]
                  /\ UNCHANGED ticket
    BY <1>5 DEF Choose
  <2>2. m \in Nat
    BY DEF Entry
  <2>3. v # t /\ ticket'[t] = ticket[t]
    BY <1>5, <2>1 DEF Choose
  <2>4. CASE v = u
    (* u has read t's ticket and chooses a larger one. *)
    <3>1. [token |-> t, ticket |-> ticket[t]] \in seen[u]
      BY <1>5, <2>4 DEF Choose
    <3>2. ticket[t] <= m
      BY <2>1, <2>4, <3>1
    <3>3. CASE pc' = [pc EXCEPT ![u] = "unwinding"]
      BY <3>3
    <3>4. CASE pc' = [pc EXCEPT ![u] = "chosen"] /\ ticket' = [ticket EXCEPT ![u] = m + 1]
      <4>1. ticket[t] < m + 1 /\ ticket'[u] = m + 1 /\ pc'[u] = "chosen"
        BY <2>2, <3>2, <3>4
      <4> QED
        BY <2>3, <4>1
    <3> QED
      BY <2>1, <2>4, <3>3, <3>4
  <2>5. CASE v # u
    BY <1>5, <2>1, <2>3, <2>5 DEF Choose, Forget
  <2> QED
    BY <2>4, <2>5
<1>6. ASSUME NEW v \in Token, PublishTicket(v) PROVE After(u, t)'
  BY <1>6 DEF PublishTicket
<1>7. ASSUME NEW v \in Token, Enter(v) PROVE After(u, t)'
  BY <1>7 DEF Enter, Forget
<1>8. ASSUME NEW v \in Token, Poll(v) PROVE After(u, t)'
  BY <1>8 DEF Poll, Forget
<1>9. ASSUME NEW v \in Token, Withdraw(v) PROVE After(u, t)'
  BY <1>9 DEF Withdraw
<1>10. ASSUME NEW v \in Token, Release(v) PROVE After(u, t)'
  <2>1. v # t
    BY <1>10 DEF Release
  <2> QED
    BY <1>10, <2>1 DEF Release
<1>11. ASSUME NEW p \in Process, Crash(p) PROVE After(u, t)'
  <2>1. Owner[t] # p
    BY <1>11 DEF Crash
  <2> QED
    BY <1>11, <2>1 DEF Crash
<1>12. CASE UNCHANGED vars
  BY <1>12 DEF vars
<1> QED
  BY <1>1, <1>2, <1>3, <1>4, <1>5, <1>6, <1>7, <1>8, <1>9, <1>10, <1>11, <1>12
     DEF Next, Step

(* What t has established about u while reading the queue survives every   *)
(* step that leaves t in line.                                             *)
LEMMA OrderStep ==
    TypeOK /\ EntryInv /\ AliveInv /\ OrderInv /\ [Next]_vars => OrderInv'
<1> SUFFICES ASSUME TypeOK, EntryInv, AliveInv, OrderInv, [Next]_vars,
                    NEW t \in Token, NEW u \in Token, t # u
             PROVE  /\ pc'[t] = "held" => After(u, t)'
                    /\ pc'[t] = "waiting" =>
                          \/ u \in names'[t]
                          \/ \E e \in seen'[t] : e.token = u /\ Blocks(e, t)'
                          \/ After(u, t)'
  BY DEF OrderInv
<1> DEFINE Known == \/ u \in names[t]
                    \/ \E e \in seen[t] : e.token = u /\ Blocks(e, t)
                    \/ After(u, t)
<1> USE DEF InLine, Stage, Reading, Listing, Over, Absent, Choosing
(* If u was already behind, it still is. *)
<1>1. CASE pc[t] \in InLine /\ After(u, t)
  BY <1>1, AfterStable
<1>2. CASE pc[t] = "waiting" /\ ~After(u, t) /\ pc'[t] \in {"waiting", "held"}
  <2>1. Known
    BY <1>2 DEF OrderInv
  <2>2. CASE \E v \in Token : ReadLink(t, v)
    <3>1. PICK v \in Token : ReadLink(t, v)
      BY <2>2
    <3>2. pc' = pc /\ ticket' = ticket /\ names'[t] = names[t] \ {v} /\ seen[t] \subseteq seen'[t]
      BY <3>1 DEF ReadLink, TypeOK
    <3>3. CASE u \in names[t] /\ v = u
      <4>1. CASE entry[u] = Absent
        <5>1. After(u, t)
          BY <4>1 DEF After, EntryInv, TypeOK
        <5> QED
          BY <5>1, <1>2
      <4>2. CASE entry[u] # Absent /\ ~OwnerIsAlive(t, u)
        <5>1. After(u, t)
          BY <4>2 DEF After, AliveInv, Running, OwnerIsAlive, TypeOK
        <5> QED
          BY <5>1, <1>2
      <4>3. CASE entry[u] # Absent /\ OwnerIsAlive(t, u)
        <5>1. [token |-> u, ticket |-> entry[u]] \in seen'[t]
          <6>1. seen' = [seen EXCEPT ![t] = @ \cup {[token |-> u, ticket |-> entry[u]]}]
            BY <3>1, <3>3, <4>3 DEF ReadLink
          <6> QED
            BY <6>1 DEF TypeOK
        <5>2. \/ entry[u] = Choosing
              \/ entry[u] < ticket'[t]
              \/ entry[u] = ticket'[t] /\ u < t
          <6>1. CASE pc[u] \in {"choosing", "chosen"}
            BY <6>1 DEF EntryInv
          <6>2. CASE pc[u] \in {"polling", "waiting", "held"}
            <7>1. entry[u] = ticket[u] /\ ~Precedes(t, u)
              BY <1>2, <6>2 DEF EntryInv, After
            <7>2. ticket[u] \in Nat /\ ticket[t] \in Nat /\ u \in Nat /\ t \in Nat
              BY DEF TypeOK
            <7> QED
              BY <3>2, <7>1, <7>2 DEF Precedes
          <6> QED
            BY <1>2, <6>1, <6>2 DEF After, TypeOK
        <5> QED
          BY <1>2, <3>2, <5>1, <5>2 DEF Blocks
      <4> QED
        BY <4>1, <4>2, <4>3
    <3>4. CASE ~(u \in names[t] /\ v = u)
      BY <1>2, <2>1, <3>2, <3>4 DEF Blocks
    <3> QED
      BY <3>3, <3>4
  <2>3. CASE Enter(t)
    BY <1>2, <2>1, <2>3 DEF Enter, TypeOK
  <2>4. CASE ~Enter(t) /\ ~(\E v \in Token : ReadLink(t, v))
    <3>1. /\ pc'[t] = pc[t] /\ ticket'[t] = ticket[t]
          /\ names'[t] = names[t] /\ seen'[t] = seen[t]
      BY <1>2, <2>4 DEF Next, Step, Publish, GiveUp, ReadDir, ReadLink, Choose, PublishTicket,
           Enter, Poll, Withdraw, Release, Crash, Forget, vars, TypeOK
    <3> QED
      BY <1>2, <2>1, <3>1 DEF Blocks
  <2> QED
    BY <2>2, <2>3, <2>4
<1>3. CASE pc[t] = "polling" /\ ~After(u, t) /\ pc'[t] \in {"waiting", "held"}
  <2>1. ReadDir(t)
    <3>1. PICK v \in Token : ReadDir(v)
      BY <1>3 DEF Next, Step, Publish, GiveUp, ReadLink, Choose, PublishTicket,
           Enter, Poll, Withdraw, Release, Crash, vars, TypeOK
    <3>2. v = t
      BY <1>3, <3>1 DEF ReadDir, TypeOK
    <3> QED
      BY <3>1, <3>2
  <2>2. entry[u] # Absent
    BY <1>3 DEF After, EntryInv, TypeOK
  <2> QED
    BY <2>1, <2>2 DEF ReadDir, TypeOK
<1>4. pc'[t] \in {"waiting", "held"} => pc[t] \in InLine
  BY DEF Next, Step, Publish, GiveUp, ReadDir, ReadLink, Choose, PublishTicket,
       Enter, Poll, Withdraw, Release, Crash, Forget, vars, TypeOK
<1>5. pc[t] = "held" => After(u, t)
  BY DEF OrderInv
<1> QED
  BY <1>1, <1>2, <1>3, <1>4, <1>5

-----------------------------------------------------------------------------
(* The inductive invariant holds in every behaviour. *)
THEOREM Inductive == Spec => []IInv
<1>1. Init => IInv
  BY DEF Init, IInv, TypeOK, EntryInv, AliveInv, OrderInv, Running, InLine, Stage,
         Reading, Listing, Over, Absent, Choosing
<1>2. IInv /\ [Next]_vars => IInv'
  BY TypeOKStep, EntryStep, OrderStep DEF IInv
<1> QED
  BY <1>1, <1>2, PTL DEF Spec

(* Two calls never hold the lock at once. *)
THEOREM Exclusion == Spec => []MutualExclusion
<1>1. IInv => MutualExclusion
  <2> SUFFICES ASSUME IInv, NEW t \in Token, NEW u \in Token,
                      pc[t] = "held", pc[u] = "held", t # u
               PROVE  FALSE
    BY DEF MutualExclusion
  <2>1. Precedes(t, u) /\ Precedes(u, t)
    BY DEF IInv, OrderInv, After
  <2>2. ticket[u] \in Nat /\ ticket[t] \in Nat /\ u \in Nat /\ t \in Nat
    BY DEF IInv, TypeOK
  <2> QED
    BY <2>1, <2>2 DEF Precedes
<1> QED
  BY <1>1, Inductive, PTL

(* The lock directory implements the lease. *)
THEOREM Implementation == Spec => ImplementsLease
<1> USE DEF Stage, Reading, Listing, Over
<1>1. Init => Lease!Init
  BY DEF Init, Lease!Init, status
<1>2. IInv /\ [Next]_vars => [Lease!Next]_status
  <2> SUFFICES ASSUME IInv, [Next]_vars PROVE [Lease!Next]_status
    OBVIOUS
  <2> USE DEF IInv, TypeOK
  <2>1. ASSUME NEW t \in Token, Enter(t) PROVE Lease!Next
    <3>1. \A u \in Token : status[u] # "held"
      <4> SUFFICES ASSUME NEW u \in Token, pc[u] = "held" PROVE FALSE
        BY DEF status
      <4>1. u # t /\ After(t, u)
        BY <2>1 DEF Enter, OrderInv
      <4>2. After(u, t)
        BY <2>1, <4>1 DEF Enter, OrderInv
      <4> QED
        BY <2>1, <4>1, <4>2 DEF Enter, After, Precedes
    <3>2. status[t] = "trying" /\ status' = [status EXCEPT ![t] = "held"]
      BY <2>1 DEF Enter, status
    <3> QED
      BY <3>1, <3>2 DEF Lease!Next, Lease!Acquire
  <2>2. CASE ~ \E t \in Token : Enter(t)
    <3> DEFINE T == {t \in Token : status'[t] = "over"}
    <3>1. \A t \in Token : status'[t] = status[t] \/ status'[t] = "over"
      BY <2>2 DEF Next, Step, Publish, GiveUp, ReadDir, ReadLink, Choose, PublishTicket,
         Poll, Withdraw, Release, Crash, vars, status
    <3>2. status' = [t \in Token |-> IF t \in T THEN "over" ELSE status[t]]
      BY <3>1 DEF status
    <3> QED
      BY <3>2 DEF Lease!Next, Lease!Finish
  <2> QED
    BY <2>1, <2>2
<1> QED
  BY <1>1, <1>2, Inductive, PTL DEF Spec, ImplementsLease, Lease!Spec

-----------------------------------------------------------------------------
(* Whoever was in line when t registered either still is, and t can only   *)
(* enter after it, or is out for good: a call registers once.              *)
AheadInv ==
    \A t \in Token : \A u \in ahead[t] :
        /\ u \in Token /\ u # t /\ pc[t] # "idle"
        /\ \/ pc[u] \in {"unwinding"} \cup Over
           \/ pc[u] \in InLine /\ After(t, u)

(* Being out is for good, and so is having registered. *)
LEMMA OutStaysOut ==
    ASSUME TypeOK, [Next]_vars, NEW u \in Token
    PROVE  /\ pc[u] \in {"unwinding"} \cup Over => pc'[u] \in {"unwinding"} \cup Over
           /\ pc[u] \in InLine => pc'[u] \in InLine \cup {"unwinding"} \cup Over
           /\ pc[u] # "idle" => pc'[u] # "idle"
           /\ pc[u] = "idle" => pc'[u] \in {"idle", "published", "crashed"}
<1> USE DEF TypeOK, InLine, Stage, Reading, Listing, Over
<1> QED
  BY DEF Next, Step, Publish, GiveUp, ReadDir, ReadLink, Choose, PublishTicket, Enter, Poll,
       Withdraw, Release, Crash, vars

(* Who is ahead of t stays ahead: this is what AfterStable says of the     *)
(* queue, from the moment at which t registers.                            *)
LEMMA AheadStep ==
    ASSUME IInv, AheadInv, [OrderNext]_orderVars
    PROVE  AheadInv'
<1>1. [Next]_vars /\ TypeOK /\ EntryInv /\ AliveInv
  BY DEF OrderNext, orderVars, IInv
<1> SUFFICES ASSUME NEW t \in Token, NEW u \in ahead'[t]
             PROVE  /\ u \in Token /\ u # t /\ pc'[t] # "idle"
                    /\ \/ pc'[u] \in {"unwinding"} \cup Over
                       \/ pc'[u] \in InLine /\ After(t, u)'
  BY DEF AheadInv
<1>2. CASE u \in ahead[t]
  <2>1. u \in Token /\ u # t /\ pc'[t] # "idle"
    BY <1>1, <1>2, OutStaysOut DEF AheadInv
  <2>2. CASE pc[u] \in {"unwinding"} \cup Over
    BY <1>1, <2>1, <2>2, OutStaysOut
  <2>3. CASE pc[u] \in InLine /\ After(t, u)
    <3>1. pc'[u] \in InLine => After(t, u)'
      BY <1>1, <2>1, <2>3, AfterStable
    <3> QED
      BY <1>1, <2>1, <2>3, <3>1, OutStaysOut
  <2> QED
    BY <1>2, <2>1, <2>2, <2>3 DEF AheadInv
<1>3. CASE u \notin ahead[t]
  <2>1. u \in Token /\ pc[t] = "idle" /\ pc'[t] = "published" /\ pc[u] \in InLine
    BY <1>3 DEF OrderNext, orderVars
  <2>2. u # t /\ After(t, u)'
    BY <2>1 DEF InLine, After
  <2> QED
    BY <1>1, <2>1, <2>2, OutStaysOut
<1> QED
  BY <1>2, <1>3

(* A call whose ticket was published before another call registered is     *)
(* never overtaken by it, whoever crashes, gives up or reaps meanwhile.    *)
THEOREM ServingOrder == OrderSpec => []FirstComeFirstServed
<1>1. OrderInit => AheadInv
  BY DEF OrderInit, AheadInv
<1>2. OrderInit => Init
  BY DEF OrderInit
<1>3. [OrderNext]_orderVars => [Next]_vars
  BY DEF OrderNext, orderVars
<1>4. IInv /\ AheadInv => FirstComeFirstServed
  <2> SUFFICES ASSUME IInv, AheadInv, NEW t \in Token, NEW u \in ahead[t],
                      pc[t] = "held", pc[u] \in {"polling", "waiting"}
               PROVE  FALSE
    BY DEF FirstComeFirstServed
  <2>1. u \in Token /\ u # t /\ Precedes(u, t)
    BY DEF AheadInv, InLine, Over, After
  <2>2. Precedes(t, u)
    BY <2>1 DEF IInv, OrderInv, After
  <2>3. ticket[u] \in Nat /\ ticket[t] \in Nat /\ u \in Nat /\ t \in Nat
    BY <2>1 DEF IInv, TypeOK
  <2> QED
    BY <2>1, <2>2, <2>3 DEF Precedes
<1>5. OrderSpec => Spec
  BY <1>2, <1>3, PTL DEF OrderSpec, Spec
<1> QED
  BY <1>1, <1>4, <1>5, AheadStep, Inductive, PTL DEF OrderSpec
=============================================================================
