-------------------------- MODULE SchedulerProofs --------------------------
(***************************************************************************)
(* Every fiber of a worker is woken once per park and none is lost, for    *)
(* any number of fibers, guards, tokens and clock ticks.                   *)
(***************************************************************************)
EXTENDS Scheduler, TLAPS

-----------------------------------------------------------------------------
(***************************************************************************)
(* The inductive invariant: where ids are (the slab, the free list, the    *)
(* running fiber and the guards never share one), and where fibers wait.   *)
(***************************************************************************)
Types ==
  /\ slots \in Nat
  /\ present \subseteq Fiber
  /\ free \in Seq(Fiber)
  /\ ready \in Seq(Fiber)
  /\ timers \subseteq [at : Nat, id : Fiber]
  /\ waiters \in [Token -> Fiber \cup {NoFiber}]
  /\ deadlines \subseteq [at : Nat, token : Token, id : Fiber]
  /\ current \in Fiber \cup {NoFiber}
  /\ guards \in [Fiber -> Seq([id : Fiber, kind : {"case", "trap"}])]
  /\ inbox \in Seq(BOOLEAN)
  /\ spawned \in 0 .. MaxSpawns
  /\ guarded \in 0 .. MaxGuards

\* The room left in the slab: every reserved id was spawned or guarded.
Room == slots + Len(inbox) <= 1 + spawned + guarded

\* A free id belongs to nothing, and no two fibers share an id.
Slab ==
  /\ Distinct(free)
  /\ present \subseteq 1 .. slots
  /\ Ids(free) \subseteq 1 .. slots
  /\ present \cap Ids(free) = {}
  /\ current # NoFiber => current \in 1 .. slots /\ current \notin present /\ current \notin Ids(free)

GuardIdsApart ==
  /\ \A f \in Fiber : \A i \in DOMAIN guards[f] :
       /\ guards[f][i].id \in 1 .. slots
       /\ guards[f][i].id \notin present
       /\ guards[f][i].id \notin Ids(free)
       /\ guards[f][i].id # current
  /\ \A f, g \in Fiber : \A i \in DOMAIN guards[f], j \in DOMAIN guards[g] :
       guards[f][i].id = guards[g][j].id => f = g /\ i = j

IInv == Types /\ Room /\ Slab /\ GuardIdsApart /\ WakesOnce /\ NoLostFiber

-----------------------------------------------------------------------------

\* The id reserve_id hands out is new to everything.
LEMMA Reserved ==
  ASSUME Types, Room, Slab, GuardIdsApart, ReserveId,
         slots < 1 + MaxSpawns + MaxGuards
  PROVE  /\ NextId \in Fiber
         /\ NextId \notin present
         /\ NextId # current
         /\ \A f \in Fiber : \A i \in DOMAIN guards[f] : guards[f][i].id # NextId
         /\ slots' \in Nat /\ slots <= slots' /\ slots' <= slots + 1
         /\ NextId \in 1 .. slots'
         /\ free' \in Seq(Fiber)
         /\ Distinct(free')
         /\ Ids(free') \subseteq Ids(free)
         /\ NextId \notin Ids(free')
<1> USE SchedulerAssumption
<1>0. MaxSpawns \in Nat /\ MaxGuards \in Nat
  OBVIOUS
<1>1. CASE free # <<>>
  <2>1. /\ NextId = free[Len(free)]
        /\ free' = SubSeq(free, 1, Len(free) - 1)
        /\ slots' = slots
    BY <1>1 DEF NextId, ReserveId
  <2>2. /\ free' \in Seq(Fiber) /\ NextId \in Fiber /\ NextId \in Ids(free)
        /\ Ids(free') = Ids(free) \ {NextId} /\ Distinct(free')
    BY <1>1, <2>1, FrontId, Zenon DEF Types, Slab
  <2>3. NextId \notin present /\ NextId # current /\ NextId \in 1 .. slots
    BY <2>2 DEF Types, Slab, Fiber, NoFiber
  <2>4. \A f \in Fiber : \A i \in DOMAIN guards[f] : guards[f][i].id # NextId
    BY <2>2 DEF GuardIdsApart
  <2>5. slots' \in Nat /\ slots <= slots' /\ slots' <= slots + 1 /\ NextId \in 1 .. slots'
    BY <2>1, <2>3 DEF Types
  <2>6. Ids(free') \subseteq Ids(free) /\ NextId \notin Ids(free')
    BY <2>2
  <2>7. QED
    BY <2>2, <2>3, <2>4, <2>5, <2>6
<1>2. CASE free = <<>>
  <2>1. NextId = slots + 1 /\ slots' = slots + 1 /\ free' = free
    BY <1>2 DEF NextId, ReserveId
  <2>2. NextId \in Fiber
    BY <1>0, <2>1 DEF Types, Fiber
  <2>3. NextId \notin 1 .. slots /\ NextId \in 1 .. slots'
    BY <2>1 DEF Types
  <2>4. current # NextId
    BY <2>1, <2>3 DEF Types, Slab, NoFiber
  <2>5. QED
    BY <2>1, <2>2, <2>3, <2>4, SMTT(30) DEF Types, Slab, GuardIdsApart
<1>3. QED
  BY <1>1, <1>2

\* A new fiber in the slab: install_fiber keeps the invariant.
LEMMA InstallStep ==
  ASSUME IInv, NEW inCase, InstallFiber(inCase),
         slots < 1 + MaxSpawns + MaxGuards,
         UNCHANGED <<parked, current, guards>>
  PROVE  /\ slots' \in Nat /\ slots' <= slots + 1
         /\ present' \subseteq Fiber
         /\ free' \in Seq(Fiber) /\ ready' \in Seq(Fiber)
         /\ Slab' /\ GuardIdsApart' /\ WakesOnce' /\ NoLostFiber'
<1>1. ReserveId /\ present' = present \cup {NextId} /\ ready' = Append(ready, NextId)
  BY DEF InstallFiber
<1>2. /\ NextId \in Fiber /\ NextId \notin present /\ NextId # current
      /\ \A f \in Fiber : \A i \in DOMAIN guards[f] : guards[f][i].id # NextId
      /\ slots' \in Nat /\ slots <= slots' /\ slots' <= slots + 1
      /\ NextId \in 1 .. slots'
      /\ free' \in Seq(Fiber) /\ Distinct(free')
      /\ Ids(free') \subseteq Ids(free) /\ NextId \notin Ids(free')
  BY <1>1, Reserved DEF IInv
<1>3. NextId \notin Ids(ready) /\ NextId \notin Sleeping /\ NextId \notin Waiting
  BY <1>2 DEF IInv, NoLostFiber, Queued
<1>4. /\ ready' \in Seq(Fiber) /\ Ids(ready') = Ids(ready) \cup {NextId}
      /\ Distinct(ready')
  BY <1>1, <1>2, <1>3, AppendId DEF IInv, Types, WakesOnce
<1>5. Sleeping' = Sleeping /\ Waiting' = Waiting
  BY DEF Sleeping, Waiting, parked
<1>6. Slab'
  <2>1. current' = current
    OBVIOUS
  <2>2. \A n \in 1 .. slots : n \in 1 .. slots'
    BY <1>2 DEF IInv, Types
  <2>3. present' \subseteq 1 .. slots' /\ Ids(free') \subseteq 1 .. slots'
    BY <1>1, <1>2, <2>2 DEF IInv, Slab
  <2>4. present' \cap Ids(free') = {}
    BY <1>1, <1>2 DEF IInv, Slab
  <2>5. current # NoFiber =>
          current \in 1 .. slots' /\ current \notin present' /\ current \notin Ids(free')
    BY <1>1, <1>2, <2>2 DEF IInv, Slab
  <2>6. QED
    BY <1>2, <2>1, <2>3, <2>4, <2>5 DEF Slab
<1>7. GuardIdsApart'
  <2>1. guards' = guards /\ current' = current
    OBVIOUS
  <2>2. ASSUME NEW f \in Fiber, NEW i \in DOMAIN guards[f]
        PROVE  /\ guards[f][i].id \in 1 .. slots'
               /\ guards[f][i].id \notin present'
               /\ guards[f][i].id \notin Ids(free')
               /\ guards[f][i].id # current
    BY <1>1, <1>2, SMTT(30) DEF IInv, Types, GuardIdsApart
  <2>3. QED
    BY <2>1, <2>2 DEF IInv, GuardIdsApart
<1>8. WakesOnce'
  <2>1. Queued' = Queued \cup {NextId}
    BY <1>4 DEF Queued
  <2>2. QED
    BY <1>3, <1>4, <1>5, <2>1 DEF IInv, WakesOnce, parked
<1>9. NoLostFiber'
  BY <1>1, <1>4, <1>5 DEF IInv, NoLostFiber, Queued
<1>10. QED
  BY <1>1, <1>2, <1>4, <1>6, <1>7, <1>8, <1>9 DEF IInv, Types

\* Everything the invariant reads.
placement == <<slab, ready, parked, current, guards, inbox, spawned, guarded>>

LEMMA SameStep ==
  ASSUME IInv, UNCHANGED placement
  PROVE  IInv'
<1> USE DEF IInv, placement, slab, parked
<1>1. Types'
  BY Zenon DEF Types
<1>2. Room' /\ Slab'
  BY DEF Room, Slab
<1>3. GuardIdsApart'
  BY DEF GuardIdsApart
<1>4. Queued' = Queued /\ Sleeping' = Sleeping /\ Waiting' = Waiting
  BY DEF Queued, Sleeping, Waiting
<1>5. WakesOnce'
  BY <1>4 DEF WakesOnce
<1>6. NoLostFiber'
  BY <1>4 DEF NoLostFiber
<1>7. QED
  BY <1>1, <1>2, <1>3, <1>5, <1>6

\* A fiber leaves the ready queue to run.
LEMMA ResumeStep ==
  ASSUME IInv, Resume
  PROVE  IInv'
<1>1. /\ current = NoFiber /\ ready # <<>>
      /\ current' = Head(ready) /\ ready' = Tail(ready) /\ present' = present \ {Head(ready)}
      /\ UNCHANGED <<slots, free, timers, waiters, deadlines, guards, inbox, spawned, guarded>>
  BY DEF Resume, parked, work
<1>2. /\ ready' \in Seq(Fiber) /\ Head(ready) \in Fiber /\ Head(ready) \in Ids(ready)
      /\ Ids(ready') = Ids(ready) \ {Head(ready)} /\ Distinct(ready')
  BY <1>1, TailId DEF IInv, Types, WakesOnce
<1>3. Head(ready) \in present
  BY <1>2 DEF IInv, NoLostFiber, Queued
<1>4. Types'
  BY <1>1, <1>2, Zenon DEF IInv, Types
<1>5. Room'
  BY <1>1 DEF IInv, Room
<1>6. Slab'
  BY <1>1, <1>3, Zenon DEF IInv, Slab
<1>7. GuardIdsApart'
  BY <1>1, <1>3 DEF IInv, GuardIdsApart
<1>8. Sleeping' = Sleeping /\ Waiting' = Waiting
  BY <1>1 DEF Sleeping, Waiting
<1>9. WakesOnce'
  BY <1>1, <1>2, <1>8 DEF IInv, WakesOnce, Queued
<1>10. NoLostFiber'
  BY <1>1, <1>2, <1>8 DEF IInv, WakesOnce, NoLostFiber, Queued
<1>11. QED
  BY <1>4, <1>5, <1>6, <1>7, <1>9, <1>10 DEF IInv

\* What every park does to the ids.
LEMMA SuspendStep ==
  ASSUME IInv, Suspend
  PROVE  /\ current \in Fiber /\ current \notin present
         /\ present' = present \cup {current}
         /\ UNCHANGED <<slots, free, ready, guards, inbox, spawned, guarded>>
         /\ current' = NoFiber
         /\ Room' /\ Slab' /\ GuardIdsApart'
         /\ current \notin Queued /\ current \notin Sleeping /\ current \notin Waiting
         /\ Queued' = Queued
<1>1. /\ current \in Fiber /\ current # NoFiber
      /\ present' = present \cup {current} /\ current' = NoFiber
      /\ UNCHANGED <<slots, free, ready, guards, inbox, spawned, guarded>>
  BY DEF Suspend, Executing, work, IInv, Types
<1>2. current \in 1 .. slots /\ current \notin present /\ current \notin Ids(free)
  BY <1>1 DEF IInv, Slab
<1>3. Room'
  BY <1>1 DEF IInv, Room
<1>4. Slab'
  BY <1>1, <1>2 DEF IInv, Slab
<1>5. GuardIdsApart'
  <2>1. \A n \in 1 .. slots : n # NoFiber
    BY DEF NoFiber
  <2>2. QED
    BY <1>1, <2>1 DEF IInv, GuardIdsApart
<1>6. current \notin Queued /\ current \notin Sleeping /\ current \notin Waiting
  BY <1>2 DEF IInv, NoLostFiber
<1>7. QED
  BY <1>1, <1>2, <1>3, <1>4, <1>5, <1>6 DEF Queued

LEMMA SleepStep ==
  ASSUME IInv, NEW at \in 0 .. MaxTime, Sleep(at)
  PROVE  IInv'
<1>1. Suspend
  BY DEF Sleep
<1>2. /\ timers' = timers \cup {[at |-> at, id |-> current]}
      /\ UNCHANGED <<waiters, deadlines>>
  BY DEF Sleep
<1>3. Sleeping' = Sleeping \cup {current} /\ Waiting' = Waiting
  <2>1. [at |-> at, id |-> current].id = current
    OBVIOUS
  <2>2. Sleeping' = Sleeping \cup {current}
    BY <1>2, <2>1, Zenon DEF Sleeping
  <2>3. QED
    BY <1>2, <2>2 DEF Waiting
<1>4. Types'
  <2>1. at \in Nat
    BY SchedulerAssumption
  <2>2. timers' \subseteq [at : Nat, id : Fiber]
    <3>1. current \in Fiber
      BY <1>1, SuspendStep
    <3>2. [at |-> at, id |-> current] \in [at : Nat, id : Fiber]
      BY <2>1, <3>1
    <3>3. timers \subseteq [at : Nat, id : Fiber]
      BY DEF IInv, Types
    <3>4. QED
      BY <1>2, <3>2, <3>3
  <2>3. /\ present' \subseteq Fiber /\ current' = NoFiber
        /\ UNCHANGED <<slots, free, ready, guards, inbox, spawned, guarded, waiters, deadlines>>
    BY <1>1, <1>2, SuspendStep, Zenon DEF IInv, Types
  <2>4. QED
    BY <2>2, <2>3, Zenon DEF IInv, Types
<1>5. WakesOnce'
  <2>1. \A d, e \in timers' : d.id = e.id => d = e
    BY <1>1, <1>2, SuspendStep DEF IInv, WakesOnce, Sleeping
  <2>2. Distinct(ready')
    BY <1>1, SuspendStep DEF IInv, WakesOnce
  <2>3. QED
    BY <1>1, <1>2, <1>3, <2>1, <2>2, SuspendStep DEF IInv, WakesOnce
<1>6. NoLostFiber'
  BY <1>1, <1>3, SuspendStep DEF IInv, NoLostFiber
<1>7. QED
  BY <1>1, <1>4, <1>5, <1>6, SuspendStep DEF IInv

\* Parking on a token nobody waits on, with or without a deadline.
LEMMA WaitStep ==
  ASSUME IInv, Suspend, NEW t \in Token, waiters[t] = NoFiber,
         waiters' = [waiters EXCEPT ![t] = current], timers' = timers,
         deadlines' \subseteq [at : Nat, token : Token, id : Fiber],
         \A e \in deadlines' : e \in deadlines \/ (e.token = t /\ e.id = current),
         \A d, e \in deadlines' : d.token = t /\ e.token = t => d = e
  PROVE  IInv'
<1>1. /\ current \in Fiber /\ current # NoFiber
      /\ current \notin Queued /\ current \notin Sleeping /\ current \notin Waiting
      /\ present' = present \cup {current} /\ current' = NoFiber
      /\ Room' /\ Slab' /\ GuardIdsApart' /\ Queued' = Queued
      /\ UNCHANGED <<slots, free, ready, guards, inbox, spawned, guarded>>
  BY SuspendStep DEF Fiber, NoFiber
<1>2. waiters \in [Token -> Fiber \cup {NoFiber}]
  BY DEF IInv, Types
<1>3. waiters'[t] = current /\ \A u \in Token : u # t => waiters'[u] = waiters[u]
  BY <1>2
<1>4. Sleeping' = Sleeping
  BY DEF Sleeping
<1>5. Waiting' = Waiting \cup {current}
  BY <1>1, <1>2, <1>3 DEF Waiting
<1>6. Types'
  <2>1. present' \subseteq Fiber /\ waiters' \in [Token -> Fiber \cup {NoFiber}]
    BY <1>1, <1>2 DEF IInv, Types
  <2>2. QED
    BY <1>1, <2>1, Zenon DEF IInv, Types
<1>7. WakesOnce'
  <2>1. \A u \in Token : waiters[u] # current
    BY <1>1 DEF Waiting
  <2>2. \A u, v \in Token : waiters'[u] = waiters'[v] /\ waiters'[u] # NoFiber => u = v
    BY <1>3, <2>1 DEF IInv, WakesOnce
  <2>3. \A e \in deadlines' : waiters'[e.token] = e.id
    <3> TAKE e \in deadlines'
    <3>1. CASE e.token = t /\ e.id = current
      BY <1>3, <3>1
    <3>2. CASE e \in deadlines
      <4>1. waiters[e.token] = e.id /\ e.id \in Fiber /\ e.token \in Token
        BY <3>2 DEF IInv, WakesOnce, Types
      <4>2. e.token # t
        BY <4>1 DEF Fiber, NoFiber
      <4>3. QED
        BY <1>3, <4>1, <4>2
    <3>3. QED
      BY <3>1, <3>2
  <2>4. \A d, e \in deadlines' : d.token = e.token => d = e
    BY DEF IInv, WakesOnce
  <2>5. QED
    BY <1>1, <1>4, <1>5, <2>2, <2>3, <2>4 DEF IInv, WakesOnce
<1>8. NoLostFiber'
  BY <1>1, <1>4, <1>5 DEF IInv, NoLostFiber
<1>9. QED
  BY <1>1, <1>6, <1>7, <1>8 DEF IInv

LEMMA ParkStep ==
  ASSUME IInv, Park
  PROVE  IInv'
<1>1. ASSUME NEW at \in 0 .. MaxTime, Sleep(at) PROVE IInv'
  BY <1>1, SleepStep
<1>2. ASSUME NEW t \in Token, ParkOnReadiness(t) PROVE IInv'
  <2>1. /\ Suspend /\ waiters[t] = NoFiber /\ timers' = timers /\ deadlines' = deadlines
        /\ waiters' = [waiters EXCEPT ![t] = current]
    BY <1>2 DEF ParkOnReadiness, Parkable
  <2>2. deadlines \subseteq [at : Nat, token : Token, id : Fiber]
    BY DEF IInv, Types
  <2>3. \A e \in deadlines : e.token # t
    BY <2>1, <2>2 DEF IInv, WakesOnce, Fiber, NoFiber
  <2>4. QED
    BY <2>1, <2>2, <2>3, WaitStep, Zenon
<1>3. ASSUME NEW t \in Token, NEW at \in 0 .. MaxTime, ParkOnReadinessOrDeadline(t, at)
      PROVE  IInv'
  <2> DEFINE d == [at |-> at, token |-> t, id |-> current]
  <2>1. /\ Suspend /\ waiters[t] = NoFiber /\ timers' = timers
        /\ waiters' = [waiters EXCEPT ![t] = current]
        /\ deadlines' = deadlines \cup {d}
    BY <1>3 DEF ParkOnReadinessOrDeadline, Parkable
  <2>2. current \in Fiber /\ at \in Nat
    BY <2>1, SuspendStep, SchedulerAssumption
  <2>3. d \in [at : Nat, token : Token, id : Fiber] /\ d.token = t /\ d.id = current
    BY <2>2
  <2>4. deadlines \subseteq [at : Nat, token : Token, id : Fiber]
    BY DEF IInv, Types
  <2> HIDE DEF d
  <2>5. /\ deadlines' \subseteq [at : Nat, token : Token, id : Fiber]
        /\ \A e \in deadlines' : e \in deadlines \/ (e.token = t /\ e.id = current)
    BY <2>1, <2>3, <2>4
  <2>6. \A e \in deadlines : e.token # t
    BY <2>1, <2>4 DEF IInv, WakesOnce, Fiber, NoFiber
  <2>7. \A c, e \in deadlines' : c.token = t /\ e.token = t => c = e
    BY <2>1, <2>6
  <2>8. QED
    BY <2>1, <2>5, <2>7, WaitStep, Zenon
<1>4. QED
  BY <1>1, <1>2, <1>3 DEF Park

\* A ready-queue fiber's body returns and its id is freed.
LEMMA FinishStep ==
  ASSUME IInv, Finish
  PROVE  IInv'
<1>1. /\ current \in Fiber /\ current # NoFiber
      /\ current' = NoFiber /\ free' = Append(free, current)
      /\ UNCHANGED <<slots, present, ready, timers, waiters, deadlines, guards, inbox, spawned, guarded>>
  BY DEF Finish, Executing, parked, work, IInv, Types
<1>2. current \in 1 .. slots /\ current \notin present /\ current \notin Ids(free)
  BY <1>1 DEF IInv, Slab
<1>3. free' \in Seq(Fiber) /\ Ids(free') = Ids(free) \cup {current} /\ Distinct(free')
  BY <1>1, <1>2, AppendId DEF IInv, Types, Slab
<1>4. Types'
  BY <1>1, <1>3, Zenon DEF IInv, Types
<1>5. Room'
  BY <1>1 DEF IInv, Room
<1>6. Slab'
  BY <1>1, <1>2, <1>3 DEF IInv, Slab
<1>7. GuardIdsApart'
  <2>1. \A n \in 1 .. slots : n # NoFiber
    BY DEF NoFiber
  <2>2. QED
    BY <1>1, <1>3, <2>1 DEF IInv, GuardIdsApart
<1>8. Queued' = Queued /\ Sleeping' = Sleeping /\ Waiting' = Waiting
  BY <1>1 DEF Queued, Sleeping, Waiting
<1>9. WakesOnce' /\ NoLostFiber'
  BY <1>1, <1>8 DEF IInv, WakesOnce, NoLostFiber
<1>10. QED
  BY <1>4, <1>5, <1>6, <1>7, <1>9 DEF IInv

\* A guarded fiber takes a fresh id on top of the running fiber's stack.
LEMMA EnterGuardStep ==
  ASSUME IInv, NEW kind \in {"case", "trap"}, EnterGuard(kind)
  PROVE  IInv'
<1> DEFINE g == [id |-> NextId, kind |-> kind]
<1>1. /\ current \in Fiber /\ ReserveId
      /\ guarded < MaxGuards /\ guarded' = guarded + 1
      /\ guards' = [guards EXCEPT ![current] = Append(@, g)]
      /\ UNCHANGED <<present, ready, timers, waiters, deadlines, current, inbox, spawned>>
  BY DEF EnterGuard, Executing, parked, IInv, Types
<1>2. slots < 1 + MaxSpawns + MaxGuards
  <2>1. Len(inbox) \in Nat /\ spawned <= MaxSpawns /\ spawned \in Nat /\ guarded \in Nat
    BY SchedulerAssumption DEF IInv, Types
  <2>2. MaxSpawns \in Nat /\ MaxGuards \in Nat
    BY SchedulerAssumption, SMTT(30)
  <2>3. QED
    BY <1>1, <2>1, <2>2 DEF IInv, Room, Types
<1>3. /\ NextId \in Fiber /\ NextId \notin present /\ NextId # current
      /\ \A f \in Fiber : \A i \in DOMAIN guards[f] : guards[f][i].id # NextId
      /\ slots' \in Nat /\ slots <= slots' /\ slots' <= slots + 1
      /\ NextId \in 1 .. slots'
      /\ free' \in Seq(Fiber) /\ Distinct(free')
      /\ Ids(free') \subseteq Ids(free) /\ NextId \notin Ids(free')
  BY <1>1, <1>2, Reserved, SMTT(30) DEF IInv
<1>4. g \in [id : Fiber, kind : {"case", "trap"}] /\ g.id = NextId
  BY <1>3
<1> HIDE DEF g
<1>5. guards \in [Fiber -> Seq([id : Fiber, kind : {"case", "trap"}])]
  BY Zenon DEF IInv, Types
<1>6. /\ guards' \in [Fiber -> Seq([id : Fiber, kind : {"case", "trap"}])]
      /\ guards'[current] = Append(guards[current], g)
      /\ \A f \in Fiber : f # current => guards'[f] = guards[f]
  <2>1. guards[current] \in Seq([id : Fiber, kind : {"case", "trap"}])
    BY <1>1, <1>5, Zenon
  <2>2. Append(guards[current], g) \in Seq([id : Fiber, kind : {"case", "trap"}])
    BY <1>4, <2>1, AppendId
  <2>3. QED
    BY <1>1, <1>5, <2>2, Zenon
<1>7. /\ Len(guards[current]) \in Nat
      /\ DOMAIN guards[current] = 1 .. Len(guards[current])
      /\ DOMAIN guards'[current] = 1 .. Len(guards[current]) + 1
      /\ \A i \in 1 .. Len(guards[current]) : guards'[current][i] = guards[current][i]
      /\ guards'[current][Len(guards[current]) + 1] = g
  BY <1>1, <1>4, <1>5, <1>6
<1>8. Types'
  <2>1. guarded' \in 0 .. MaxGuards
    BY <1>1, SchedulerAssumption DEF IInv, Types
  <2>2. QED
    BY <1>1, <1>3, <1>6, <2>1, Zenon DEF IInv, Types
<1>9. Room'
  BY <1>1, <1>3, SMTT(30) DEF IInv, Room, Types
<1>10. \A n \in 1 .. slots : n \in 1 .. slots'
  BY <1>3 DEF IInv, Types
<1>11. Slab'
  BY <1>1, <1>3, <1>10 DEF IInv, Slab
<1>12. GuardIdsApart'
  <2>1. ASSUME NEW f \in Fiber, NEW i \in DOMAIN guards'[f]
        PROVE  \/ i \in DOMAIN guards[f] /\ guards'[f][i] = guards[f][i]
               \/ f = current /\ i = Len(guards[current]) + 1 /\ guards'[f][i].id = NextId
    <3>1. CASE f # current
      BY <1>6, <3>1
    <3>2. CASE f = current /\ i \in 1 .. Len(guards[current])
      BY <1>7, <3>2
    <3>3. CASE f = current /\ i = Len(guards[current]) + 1
      BY <1>4, <1>7, <3>3
    <3>4. f = current => i \in 1 .. Len(guards[current]) + 1
      BY <1>7, SMTT(30)
    <3>5. QED
      BY <1>7, <3>1, <3>2, <3>3, <3>4
  <2>2. ASSUME NEW f \in Fiber, NEW i \in DOMAIN guards'[f]
        PROVE  /\ guards'[f][i].id \in 1 .. slots'
               /\ guards'[f][i].id \notin present
               /\ guards'[f][i].id \notin Ids(free')
               /\ guards'[f][i].id # current
    <3>1. CASE i \in DOMAIN guards[f] /\ guards'[f][i] = guards[f][i]
      BY <1>3, <1>10, <3>1 DEF IInv, GuardIdsApart
    <3>2. CASE guards'[f][i].id = NextId
      BY <1>3, <3>2
    <3>3. QED
      BY <2>1, <3>1, <3>2, SMTT(30)
  <2>3. ASSUME NEW f \in Fiber, NEW h \in Fiber,
               NEW i \in DOMAIN guards'[f], NEW j \in DOMAIN guards'[h],
               guards'[f][i].id = guards'[h][j].id
        PROVE  f = h /\ i = j
    BY <1>3, <2>1, <2>3 DEF IInv, GuardIdsApart
  <2>4. QED
    BY <1>1, <2>2, <2>3, SMTT(30) DEF GuardIdsApart
<1>13. Queued' = Queued /\ Sleeping' = Sleeping /\ Waiting' = Waiting
  BY <1>1 DEF Queued, Sleeping, Waiting
<1>14. WakesOnce' /\ NoLostFiber'
  BY <1>1, <1>13 DEF IInv, WakesOnce, NoLostFiber
<1>15. QED
  BY <1>8, <1>9, <1>11, <1>12, <1>14 DEF IInv

\* A guard ends: its id, and only its, goes back to the free list.
LEMMA EndGuardStep ==
  ASSUME IInv, current \in Fiber, NEW k \in DOMAIN guards[current], EndGuard(k)
  PROVE  IInv'
<1> DEFINE kept == SubSeq(guards[current], 1, k - 1)
           gone == guards[current][k].id
<1>1. /\ guards' = [guards EXCEPT ![current] = kept]
      /\ free' = Append(free, gone)
      /\ UNCHANGED <<slots, present, ready, timers, waiters, deadlines, current, inbox, spawned, guarded>>
  BY DEF EndGuard, parked, work
<1>2. /\ guards \in [Fiber -> Seq([id : Fiber, kind : {"case", "trap"}])]
      /\ guards[current] \in Seq([id : Fiber, kind : {"case", "trap"}])
  BY Zenon DEF IInv, Types
<1>3. /\ kept \in Seq([id : Fiber, kind : {"case", "trap"}])
      /\ DOMAIN guards[current] = 1 .. Len(guards[current]) /\ Len(guards[current]) \in Nat
      /\ DOMAIN kept = 1 .. k - 1
      /\ \A i \in 1 .. k - 1 : kept[i] = guards[current][i]
  <2>1. ASSUME NEW S, NEW q \in Seq(S), NEW n \in DOMAIN q
        PROVE  /\ SubSeq(q, 1, n - 1) \in Seq(S)
               /\ DOMAIN q = 1 .. Len(q) /\ Len(q) \in Nat
               /\ DOMAIN SubSeq(q, 1, n - 1) = 1 .. n - 1
               /\ \A i \in 1 .. n - 1 : SubSeq(q, 1, n - 1)[i] = q[i]
    OBVIOUS
  <2>2. QED
    BY <1>2, <2>1, Zenon
<1>4. /\ gone \in Fiber /\ gone \in 1 .. slots /\ gone \notin present
      /\ gone \notin Ids(free) /\ gone # current
  <2>1. guards[current][k] \in [id : Fiber, kind : {"case", "trap"}]
    <3>1. ASSUME NEW S, NEW q \in Seq(S), NEW n \in DOMAIN q PROVE q[n] \in S
      OBVIOUS
    <3>2. QED
      BY <1>2, <3>1, Zenon
  <2>2. gone \in Fiber
    BY <2>1
  <2>3. \A i \in DOMAIN guards[current] :
          /\ guards[current][i].id \in 1 .. slots
          /\ guards[current][i].id \notin present
          /\ guards[current][i].id \notin Ids(free)
          /\ guards[current][i].id # current
    BY DEF IInv, GuardIdsApart
  <2>4. QED
    BY <2>2, <2>3
<1> HIDE DEF kept, gone
<1>5. free' \in Seq(Fiber) /\ Ids(free') = Ids(free) \cup {gone} /\ Distinct(free')
  BY <1>1, <1>4, AppendId DEF IInv, Types, Slab
<1>6. /\ guards' \in [Fiber -> Seq([id : Fiber, kind : {"case", "trap"}])]
      /\ guards'[current] = kept
      /\ \A f \in Fiber : f # current => guards'[f] = guards[f]
  BY <1>1, <1>2, <1>3, Zenon
<1>7. Types'
  BY <1>1, <1>5, <1>6, ZenonT(30) DEF IInv, Types
<1>8. Room'
  BY <1>1 DEF IInv, Room
<1>9. Slab'
  BY <1>1, <1>4, <1>5 DEF IInv, Slab
<1>10. GuardIdsApart'
  <2>1. ASSUME NEW f \in Fiber, NEW i \in DOMAIN guards'[f]
        PROVE  i \in DOMAIN guards[f] /\ guards'[f][i] = guards[f][i] /\ (f # current \/ i # k)
    <3>1. CASE f # current
      BY <1>6, <3>1
    <3>2. CASE f = current
      <4>1. i \in 1 .. k - 1
        BY <1>3, <1>6, <3>2
      <4>2. QED
        BY <1>3, <1>6, <3>2, <4>1
    <3>3. QED
      BY <3>1, <3>2
  <2>2. ASSUME NEW f \in Fiber, NEW i \in DOMAIN guards'[f]
        PROVE  guards'[f][i].id # gone
    BY <2>1, SMTT(30) DEF gone, IInv, GuardIdsApart
  <2>3. QED
    BY <1>1, <1>5, <2>1, <2>2 DEF IInv, GuardIdsApart
<1>11. Queued' = Queued /\ Sleeping' = Sleeping /\ Waiting' = Waiting
  BY <1>1, SMTT(30) DEF Queued, Sleeping, Waiting
<1>12. WakesOnce' /\ NoLostFiber'
  BY <1>1, <1>11, Zenon DEF IInv, WakesOnce, NoLostFiber
<1>13. QED
  BY <1>7, <1>8, <1>9, <1>10, <1>12 DEF IInv

\* The three ways a guard ends, or the process with it.
LEMMA UnwindStep ==
  ASSUME IInv, LeaveGuard \/ ExpectFails \/ Fault
  PROVE  IInv'
<1>1. current \in Fiber
  BY DEF LeaveGuard, ExpectFails, Fault, Executing, IInv, Types
<1>2. CASE UNCHANGED placement
  BY <1>2, SameStep
<1>3. CASE \E k \in DOMAIN guards[current] : EndGuard(k)
  BY <1>1, <1>3, EndGuardStep
<1>4. CASE LeaveGuard
  <2>1. guards[current] \in Seq([id : Fiber, kind : {"case", "trap"}])
    BY <1>1, ZenonT(30) DEF IInv, Types
  <2>2. Len(guards[current]) \in DOMAIN guards[current]
    BY <1>4, <2>1 DEF LeaveGuard
  <2>3. QED
    BY <1>3, <1>4, <2>2 DEF LeaveGuard
<1>5. CASE ExpectFails \/ Fault
  <2>1. UNCHANGED placement \/ \E k \in DOMAIN guards[current] : EndGuard(k)
    BY <1>5, Zenon DEF ExpectFails, Fault, Caught, Escape, placement, nesting, work
  <2>2. QED
    BY <1>2, <1>3, <2>1
<1>6. QED
  BY <1>4, <1>5

\* A parked fiber moves to the ready queue: its park is cleared with it.
LEMMA ReadyStep ==
  ASSUME IInv, NEW f \in Fiber,
         f \in Sleeping \cup Waiting,
         ready' = Append(ready, f),
         UNCHANGED <<slots, present, free, current, guards, inbox, spawned, guarded>>,
         timers' \subseteq timers, Sleeping' = Sleeping \ {f},
         waiters' \in [Token -> Fiber \cup {NoFiber}], Waiting' = Waiting \ {f},
         \A t \in Token : waiters'[t] \in {waiters[t], NoFiber},
         deadlines' \subseteq deadlines,
         \A e \in deadlines' : waiters'[e.token] = e.id
  PROVE  IInv'
<1>1. f \notin Ids(ready)
  <2>1. Queued \cap Sleeping = {} /\ Queued \cap Waiting = {}
    BY Zenon DEF IInv, WakesOnce
  <2>2. QED
    BY <2>1, Zenon DEF Queued
<1>2. ready' \in Seq(Fiber) /\ Ids(ready') = Ids(ready) \cup {f} /\ Distinct(ready')
  BY <1>1, AppendId, SMTT(30) DEF IInv, Types, WakesOnce
<1>3. Queued' = Queued \cup {f}
  BY <1>2 DEF Queued
<1>4. Types'
  BY <1>2, Zenon DEF IInv, Types
<1>5. Room' /\ Slab'
  BY DEF IInv, Room, Slab
<1>6. GuardIdsApart'
  BY DEF IInv, GuardIdsApart
<1>7. WakesOnce'
  <2>1. \A d, e \in timers' : d.id = e.id => d = e
    BY DEF IInv, WakesOnce
  <2>2. \A t, u \in Token : waiters'[t] = waiters'[u] /\ waiters'[t] # NoFiber => t = u
    BY DEF IInv, WakesOnce
  <2>3. QED
    BY <1>2, <1>3, <2>1, <2>2 DEF IInv, WakesOnce
<1>8. NoLostFiber'
  BY <1>3 DEF IInv, NoLostFiber
<1>9. QED
  BY <1>4, <1>5, <1>6, <1>7, <1>8, Zenon DEF IInv

LEMMA WakeStep ==
  ASSUME IInv, NEW t \in fired, Wake(t)
  PROVE  IInv'
<1>1. CASE t \in Token /\ waiters[t] # NoFiber
  <2> DEFINE f == waiters[t]
  <2>1. /\ waiters' = [waiters EXCEPT ![t] = NoFiber]
        /\ deadlines' = {e \in deadlines : e.id # f}
        /\ ready' = Append(ready, f)
        /\ UNCHANGED <<slots, present, free, timers, current, guards, inbox, spawned, guarded>>
    BY <1>1, Zenon DEF Wake, slab, nesting, work
  <2>2. waiters \in [Token -> Fiber \cup {NoFiber}] /\ f \in Fiber
    BY <1>1 DEF IInv, Types
  <2>3. /\ waiters' \in [Token -> Fiber \cup {NoFiber}]
        /\ waiters'[t] = NoFiber /\ \A u \in Token : u # t => waiters'[u] = waiters[u]
    BY <1>1, <2>1, <2>2
  <2>4. f \in Waiting
    BY <1>1 DEF Waiting
  <2>5. Sleeping' = Sleeping \ {f}
    <3>1. Sleeping' = Sleeping
      BY <2>1 DEF Sleeping
    <3>2. QED
      BY <2>4, <3>1 DEF IInv, WakesOnce
  <2>6. Waiting' = Waiting \ {f}
    <3>1. \A u \in Token : u # t => waiters[u] # f
      BY <1>1 DEF IInv, WakesOnce
    <3>2. QED
      BY <1>1, <2>3, <3>1 DEF Waiting
  <2>7. \A e \in deadlines' : waiters'[e.token] = e.id
    BY <2>1, <2>3 DEF IInv, WakesOnce, Types
  <2> HIDE DEF f
  <2>8. QED
    BY <2>1, <2>2, <2>3, <2>4, <2>5, <2>6, <2>7, ReadyStep, SMTT(30)
<1>2. CASE ~ (t \in Token /\ waiters[t] # NoFiber)
  <2>1. UNCHANGED placement
    BY <1>2, Zenon DEF Wake, placement, slab, parked, nesting, work
  <2>2. QED
    BY <2>1, SameStep, SMTT(30)
<1>3. QED
  BY <1>1, <1>2

LEMMA SweepTimerStep ==
  ASSUME IInv, NEW e \in timers, SweepTimer(e)
  PROVE  IInv'
<1>1. /\ timers' = timers \ {e} /\ ready' = Append(ready, e.id)
      /\ UNCHANGED <<slots, present, free, waiters, deadlines, current, guards, inbox, spawned, guarded>>
  BY DEF SweepTimer, slab, nesting, work
<1>2. e.id \in Fiber /\ e.id \in Sleeping
  BY SMTT(30) DEF IInv, Types, Sleeping
<1>3. Sleeping' = Sleeping \ {e.id}
  <2>1. \A d \in timers : d.id = e.id => d = e
    BY Zenon DEF IInv, WakesOnce
  <2>2. QED
    BY <1>1, <2>1, Zenon DEF Sleeping
<1>4. Waiting' = Waiting \ {e.id}
  <2>1. Waiting' = Waiting
    BY <1>1 DEF Waiting
  <2>2. QED
    BY <1>2, <2>1 DEF IInv, WakesOnce
<1>5. /\ waiters' \in [Token -> Fiber \cup {NoFiber}]
      /\ \A t \in Token : waiters'[t] \in {waiters[t], NoFiber}
      /\ \A d \in deadlines' : waiters'[d.token] = d.id
  BY <1>1 DEF IInv, Types, WakesOnce
<1>6. QED
  BY <1>1, <1>2, <1>3, <1>4, <1>5, ReadyStep

LEMMA SweepDeadlineStep ==
  ASSUME IInv, NEW e \in deadlines, SweepDeadline(e)
  PROVE  IInv'
<1>1. /\ deadlines' = deadlines \ {e} /\ ready' = Append(ready, e.id)
      /\ waiters' = [waiters EXCEPT ![e.token] = NoFiber]
      /\ UNCHANGED <<slots, present, free, timers, current, guards, inbox, spawned, guarded>>
  BY DEF SweepDeadline, slab, nesting, work
<1>2. /\ e.id \in Fiber /\ e.token \in Token /\ waiters[e.token] = e.id /\ e.id # NoFiber
      /\ waiters \in [Token -> Fiber \cup {NoFiber}]
  BY DEF IInv, Types, WakesOnce, Fiber, NoFiber
<1>3. /\ waiters' \in [Token -> Fiber \cup {NoFiber}] /\ waiters'[e.token] = NoFiber
      /\ \A u \in Token : u # e.token => waiters'[u] = waiters[u]
  BY <1>1, <1>2
<1>4. e.id \in Waiting
  BY <1>2 DEF Waiting
<1>5. Sleeping' = Sleeping \ {e.id}
  <2>1. Sleeping' = Sleeping
    BY <1>1 DEF Sleeping
  <2>2. QED
    BY <1>4, <2>1 DEF IInv, WakesOnce
<1>6. \A u \in Token : u # e.token => waiters[u] # e.id
  BY <1>2 DEF IInv, WakesOnce
<1>7. Waiting' = Waiting \ {e.id}
  BY <1>2, <1>3, <1>6 DEF Waiting
<1>8. \A d \in deadlines' : waiters'[d.token] = d.id
  BY <1>1, <1>2, <1>3, <1>6, SMTT(30) DEF IInv, WakesOnce, Types
<1>9. QED
  BY <1>1, <1>2, <1>3, <1>4, <1>5, <1>7, <1>8, ReadyStep

\* spawn, spawn_placed and drain_inbox: the slab has room for what they add.
LEMMA SpawnStep ==
  ASSUME IInv, Spawn
  PROVE  IInv'
<1> USE SchedulerAssumption
<1>1. /\ spawned < MaxSpawns /\ spawned' = spawned + 1
      /\ InstallFiber(FALSE)
      /\ UNCHANGED <<parked, current, guards>>
      /\ UNCHANGED <<timers, waiters, deadlines, inbox, guarded>>
  BY Zenon DEF Spawn, nesting, parked
<1>2. slots < 1 + MaxSpawns + MaxGuards
  BY <1>1 DEF IInv, Types, Room
<1>3. /\ slots' \in Nat /\ slots' <= slots + 1 /\ present' \subseteq Fiber
      /\ free' \in Seq(Fiber) /\ ready' \in Seq(Fiber)
      /\ Slab' /\ GuardIdsApart' /\ WakesOnce' /\ NoLostFiber'
  BY <1>1, <1>2, InstallStep, Zenon
<1>4. spawned' \in 0 .. MaxSpawns
  BY <1>1 DEF IInv, Types
<1>5. Types'
  BY <1>1, <1>3, <1>4, Zenon DEF IInv, Types
<1>6. Room'
  <2>1. slots \in Nat /\ spawned \in Nat /\ guarded \in Nat /\ Len(inbox) \in Nat
    BY DEF IInv, Types
  <2>2. slots + Len(inbox) <= 1 + spawned + guarded
    BY DEF IInv, Room
  <2>3. slots' \in Nat /\ slots' <= slots + 1 /\ spawned' = spawned + 1
    BY <1>1, <1>3
  <2>4. slots' + Len(inbox) <= 1 + spawned' + guarded
    BY <2>1, <2>2, <2>3
  <2>5. QED
    BY <1>1, <2>4 DEF Room
<1>7. QED
  BY <1>3, <1>5, <1>6 DEF IInv

LEMMA SpawnPlacedStep ==
  ASSUME IInv, NEW handler \in BOOLEAN, SpawnPlaced(handler)
  PROVE  IInv'
<1> USE SchedulerAssumption
<1>1. /\ spawned < MaxSpawns /\ spawned' = spawned + 1
      /\ inbox' = Append(inbox, handler /\ InCase)
      /\ UNCHANGED <<slots, present, free, ready, timers, waiters, deadlines, current, guards, guarded>>
  BY SMTT(30) DEF SpawnPlaced, nesting, parked, slab
<1>2. inbox' \in Seq(BOOLEAN) /\ Len(inbox') = Len(inbox) + 1
  <2>1. (handler /\ InCase) \in BOOLEAN
    OBVIOUS
  <2>2. inbox \in Seq(BOOLEAN)
    BY SMTT(30) DEF IInv, Types
  <2>3. QED
    BY <1>1, <2>1, <2>2, AppendId
<1>3. spawned' \in 0 .. MaxSpawns
  BY <1>1, SMTT(30) DEF IInv, Types
<1>4. Types'
  BY <1>1, <1>2, <1>3, Zenon DEF IInv, Types
<1>5. Room'
  <2>1. slots \in Nat /\ spawned \in Nat /\ guarded \in Nat /\ Len(inbox) \in Nat
    BY DEF IInv, Types
  <2>2. slots + Len(inbox) <= 1 + spawned + guarded
    BY DEF IInv, Room
  <2>3. slots' = slots /\ guarded' = guarded /\ spawned' = spawned + 1
    BY <1>1
  <2>4. slots' + Len(inbox') <= 1 + spawned' + guarded'
    BY <1>2, <2>1, <2>2, <2>3
  <2>5. QED
    BY <2>4 DEF Room
<1>6. Slab' /\ GuardIdsApart'
  BY <1>1, SMTT(30) DEF IInv, Slab, GuardIdsApart
<1>7. Queued' = Queued /\ Sleeping' = Sleeping /\ Waiting' = Waiting
  BY <1>1, Zenon DEF Queued, Sleeping, Waiting
<1>8. WakesOnce' /\ NoLostFiber'
  BY <1>1, <1>7 DEF IInv, WakesOnce, NoLostFiber
<1>9. QED
  BY <1>4, <1>5, <1>6, <1>8 DEF IInv

LEMMA DrainStep ==
  ASSUME IInv, DrainInbox
  PROVE  IInv'
<1> USE SchedulerAssumption
<1>0. UNCHANGED <<parked, current, guards>> /\ UNCHANGED <<timers, waiters, deadlines, spawned, guarded>>
  BY DEF DrainInbox, nesting, parked
<1>1. CASE inbox = <<>>
  <2>1. UNCHANGED placement
    BY <1>0, <1>1 DEF DrainInbox, placement
  <2>2. QED
    BY <2>1, SameStep
<1>2. CASE inbox # <<>>
  <2>1. InstallFiber(Head(inbox)) /\ inbox' = Tail(inbox)
    BY <1>2 DEF DrainInbox
  <2>2. inbox \in Seq(BOOLEAN)
    BY DEF IInv, Types
  <2>3. /\ Len(inbox) \in Nat /\ Len(inbox) >= 1
        /\ inbox' \in Seq(BOOLEAN) /\ Len(inbox') = Len(inbox) - 1
    <3>1. ASSUME NEW S, NEW q \in Seq(S), q # <<>>
          PROVE  /\ Len(q) \in Nat /\ Len(q) >= 1
                 /\ Tail(q) \in Seq(S) /\ Len(Tail(q)) = Len(q) - 1
      <4>1. Len(q) \in Nat /\ Len(q) >= 1 /\ Tail(q) \in Seq(S)
        BY <3>1
      <4>2. DOMAIN Tail(q) = 1 .. Len(q) - 1
        BY <3>1
      <4>3. Len(Tail(q)) = Len(q) - 1
        BY <4>1, <4>2
      <4>4. QED
        BY <4>1, <4>3
    <3>2. QED
      BY <1>2, <2>1, <2>2, <3>1
  <2>4. slots < 1 + MaxSpawns + MaxGuards
    BY <2>3, SMTT(30) DEF IInv, Types, Room
  <2>5. /\ slots' \in Nat /\ slots' <= slots + 1 /\ present' \subseteq Fiber
        /\ free' \in Seq(Fiber) /\ ready' \in Seq(Fiber)
        /\ Slab' /\ GuardIdsApart' /\ WakesOnce' /\ NoLostFiber'
    BY <1>0, <2>1, <2>4, InstallStep
  <2>6. Types'
    <3>1. /\ timers' \subseteq [at : Nat, id : Fiber]
          /\ waiters' \in [Token -> Fiber \cup {NoFiber}]
          /\ deadlines' \subseteq [at : Nat, token : Token, id : Fiber]
          /\ current' \in Fiber \cup {NoFiber}
          /\ guards' \in [Fiber -> Seq([id : Fiber, kind : {"case", "trap"}])]
          /\ spawned' \in 0 .. MaxSpawns
          /\ guarded' \in 0 .. MaxGuards
      BY <1>0, Zenon DEF IInv, Types
    <3>2. QED
      BY <2>3, <2>5, <3>1, Zenon DEF Types
  <2>7. Room'
    <3>1. slots \in Nat /\ spawned \in Nat /\ guarded \in Nat
      BY DEF IInv, Types
    <3>2. slots + Len(inbox) <= 1 + spawned + guarded
      BY DEF IInv, Room
    <3>3. slots' \in Nat /\ slots' <= slots + 1
      BY <2>5
    <3>4. slots' + Len(inbox') <= 1 + spawned + guarded
      BY <2>3, <3>1, <3>2, <3>3
    <3>5. QED
      BY <1>0, <3>4 DEF Room
  <2>8. QED
    BY <2>5, <2>6, <2>7 DEF IInv
<1>3. QED
  BY <1>1, <1>2

-----------------------------------------------------------------------------
LEMMA Start == Init => IInv
<1> SUFFICES ASSUME Init PROVE IInv
  OBVIOUS
<1> USE SchedulerAssumption
<1>1. 1 \in Fiber
  BY SMTT(30) DEF Fiber
<1>2. /\ slots = 1 /\ present = {1} /\ free = <<>> /\ ready = <<1>>
      /\ timers = {} /\ deadlines = {} /\ waiters = [t \in Token |-> NoFiber]
      /\ current = NoFiber /\ guards = [f \in Fiber |-> <<>>]
      /\ inbox = <<>> /\ spawned = 0 /\ guarded = 0
  BY DEF Init
<1>3. Types
  <2>1. free \in Seq(Fiber) /\ inbox \in Seq(BOOLEAN) /\ ready \in Seq(Fiber)
    BY <1>1, <1>2
  <2>2. guards \in [Fiber -> Seq([id : Fiber, kind : {"case", "trap"}])]
    BY <1>2
  <2>3. spawned \in 0 .. MaxSpawns /\ guarded \in 0 .. MaxGuards
    BY <1>2
  <2>4. QED
    BY <1>1, <1>2, <2>1, <2>2, <2>3 DEF Types
<1>4. Ids(ready) = {1} /\ Ids(free) = {} /\ Distinct(ready) /\ Distinct(free)
  BY <1>2 DEF Ids, Distinct
<1>5. Sleeping = {} /\ Waiting = {}
  BY <1>2 DEF Sleeping, Waiting
<1>6. Room
  BY <1>2 DEF Room
<1>7. Slab
  BY <1>2, <1>4 DEF Slab
<1>8. GuardIdsApart
  BY <1>2 DEF GuardIdsApart
<1>9. WakesOnce
  BY <1>2, <1>4, <1>5 DEF WakesOnce, NoFiber
<1>10. NoLostFiber
  BY <1>2, <1>4, <1>5 DEF NoLostFiber, Queued
<1>11. QED
  BY <1>3, <1>6, <1>7, <1>8, <1>9, <1>10 DEF IInv

LEMMA LoopStep ==
  ASSUME IInv, Loop
  PROVE  IInv'
<1>1. CASE IdleWaitPlan \/ ReactorWait \/ WakeDone \/ SweepDone
  <2>1. UNCHANGED placement
    BY <1>1 DEF IdleWaitPlan, ReactorWait, WakeDone, SweepDone, placement, nesting, work
  <2>2. QED
    BY <2>1, SameStep
<1>2. QED
  BY <1>1, DrainStep, ResumeStep, WakeStep, SweepTimerStep, SweepDeadlineStep DEF Loop

LEMMA ProgramStep ==
  ASSUME IInv, Program
  PROVE  IInv'
<1>1. CASE MarkBackground
  <2>1. UNCHANGED placement
    BY <1>1 DEF MarkBackground, placement, nesting, work
  <2>2. QED
    BY <2>1, SameStep
<1>2. QED
  BY <1>1, SpawnStep, SpawnPlacedStep, EnterGuardStep, UnwindStep, ParkStep, FinishStep
  DEF Program

(***************************************************************************)
(* The inductive invariant holds on every behaviour of a worker.           *)
(***************************************************************************)
THEOREM Invariance == Spec => []IInv
<1>1. IInv /\ [Next]_vars => IInv'
  <2> SUFFICES ASSUME IInv, [Next]_vars PROVE IInv'
    OBVIOUS
  <2>1. CASE (\E t \in Token : Fire(t)) \/ Tick \/ Ended \/ UNCHANGED vars
    <3>1. UNCHANGED placement
      BY <2>1 DEF Fire, Tick, Ended, vars, placement, nesting, work
    <3>2. QED
      BY <3>1, SameStep
  <2>2. QED
    BY <2>1, LoopStep, ProgramStep DEF Next
<1>2. QED
  BY <1>1, Start, PTL DEF Spec

(***************************************************************************)
(* Whatever the program spawns, guards and parks on, a fiber is in the     *)
(* ready queue once, or behind one timer or one token, and the slab holds  *)
(* exactly the fibers that are queued or parked: run_ready_queue's unwrap  *)
(* always finds its fiber and no fiber is left without a wake.             *)
(***************************************************************************)
THEOREM OneWakePerPark == Spec => [](WakesOnce /\ NoLostFiber)
<1>1. IInv => WakesOnce /\ NoLostFiber
  BY DEF IInv
<1>2. QED
  BY <1>1, Invariance, PTL

=============================================================================
