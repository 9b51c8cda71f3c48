-------------------------- MODULE SignalTrapProofs --------------------------
(***************************************************************************)
(* For any set of threads and any number of signals and arrivals: an arm   *)
(* never runs twice at once, and a recorded arrival is never stranded.     *)
(***************************************************************************)
EXTENDS SignalTrap, TLAPS

\* Where the leader is in trap.rs fixes which of its registers are in use.
LeaderShape ==
  /\ leader = "free" => scan = 0 /\ claimed = 0
  /\ leader = "dispatch" => scan # 0 /\ claimed = 0
  /\ leader \in {"pid", "uid"} => claimed # 0 /\ scan \in {0, claimed}
  /\ leader = "returned" => claimed # 0 /\ scan = 0

\* What `running` says of a signal's arm fibers, inside trap.rs as well.
ArmFlags ==
  \A s \in Signal :
    /\ Delivering(s) => queued[s] = 0 /\ inArm[s] = 0
    /\ leader = "returned" /\ claimed = s => ~running[s]
    /\ ~running[s] => queued[s] = 0 /\ inArm[s] = 0
    /\ running[s] /\ ~Delivering(s) => queued[s] + inArm[s] = 1

IInv == TypeOK /\ LeaderShape /\ ArmFlags /\ PendingIsNoticed

\* The inductive invariant implies that an arm never runs twice at once.
LEMMA ArmFlagsSuffice == IInv => OneArmPerSignal
<1> SUFFICES ASSUME IInv, NEW s \in Signal
             PROVE  /\ queued[s] + inArm[s] + (IF Delivering(s) THEN 1 ELSE 0) <= 1
                    /\ leader = "free" => (running[s] <=> queued[s] + inArm[s] = 1)
  BY DEF OneArmPerSignal
<1>1. queued[s] \in Nat /\ inArm[s] \in Nat /\ running[s] \in BOOLEAN
  BY DEF IInv, TypeOK
<1>2. CASE Delivering(s)
  BY <1>1, <1>2 DEF IInv, ArmFlags, Delivering
<1>3. CASE ~Delivering(s)
  BY <1>1, <1>3 DEF IInv, ArmFlags
<1> QED  BY <1>2, <1>3

\* Nothing is installed, pending or running at the start.
LEMMA Initially == Init => IInv
<1> SUFFICES ASSUME Init PROVE IInv
  OBVIOUS
<1>1. TypeOK
  <2>1. 0 \in Person /\ 0 \in 0 .. Signals /\ 0 \in 0 .. MaxArrivals
    BY TrapAssumption DEF Person
  <2>2. QED
    BY <2>1 DEF Init, TypeOK, Nobody
<1>2. LeaderShape
  BY DEF Init, LeaderShape
<1>3. ArmFlags
  BY DEF Init, ArmFlags, Delivering
<1>4. PendingIsNoticed
  BY DEF Init, PendingIsNoticed
<1> QED  BY <1>1, <1>2, <1>3, <1>4 DEF IInv

\* A step of the model preserves the types.
LEMMA TypeStep == ASSUME TypeOK, LeaderShape, Next PROVE TypeOK'
<1> USE DEF TypeOK
<1>0. /\ 0 \in 0 .. Signals /\ Nobody \in Person /\ Signal \subseteq 0 .. Signals
      /\ scan # 0 => scan \in Signal
      /\ claimed # 0 => claimed \in Signal
  BY TrapAssumption DEF Person, Nobody, Signal
<1>1. ASSUME NEW t \in Thread, NEW s \in Signal, Arrive(t, s) PROVE TypeOK'
  <2>1. arrivals' \in 0 .. MaxArrivals /\ arrivals' \in Person
    BY <1>1, TrapAssumption DEF Arrive, Person
  <2>2. QED
    BY <1>1, <2>1 DEF Arrive, slots, claim, arms
<1>2. ASSUME NEW t \in Thread, NEW s \in Signal, StorePid(t, s) PROVE TypeOK'
  BY <1>2 DEF StorePid, HandlerGoes, claim, arms
<1>3. ASSUME NEW t \in Thread, NEW s \in Signal, StoreUid(t, s) PROVE TypeOK'
  BY <1>3 DEF StoreUid, HandlerGoes, claim, arms
<1>4. ASSUME NEW t \in Thread, NEW s \in Signal, StorePending(t, s) PROVE TypeOK'
  BY <1>4 DEF StorePending, HandlerGoes, claim, arms
<1>5. ASSUME NEW t \in Thread, NEW s \in Signal, WritePipe(t, s) PROVE TypeOK'
  BY <1>0, <1>5 DEF WritePipe, HandlerGoes, claim, arms
<1>6. ASSUME NEW s \in Signal, TrapInstall(s) PROVE TypeOK'
  BY <1>6 DEF TrapInstall, slots, handlers, claim, arms
<1>7. ASSUME NEW s \in Signal, ArmStarts(s) PROVE TypeOK'
  <2>1. queued[s] - 1 \in Nat /\ inArm[s] + 1 \in Nat
    BY <1>7 DEF ArmStarts
  <2>2. QED
    BY <1>7, <2>1 DEF ArmStarts, slots, handlers, claim
<1>8. ASSUME NEW s \in Signal, ArmReturns(s) PROVE TypeOK'
  <2>1. inArm[s] - 1 \in Nat
    BY <1>8 DEF ArmReturns
  <2>2. <<Nobody, Nobody>> \in Person \X Person
    BY <1>0
  <2>3. QED
    BY <1>0, <1>8, <2>1, <2>2 DEF ArmReturns, handlers
<1>9. CASE DispatchReturns
  BY <1>9, TrapAssumption DEF DispatchReturns, NextIndex, LeaderAt, slots, handlers, arms
<1>10. CASE DispatchClaims
  BY <1>0, <1>10 DEF LeaderShape, DispatchClaims, LeaderAt, handlers, arms
<1>11. CASE LoadPid
  BY <1>0, <1>11 DEF LeaderShape, LoadPid, LeaderAt, slots, handlers, arms
<1>12. CASE LoadUidAndSpawn
  <2>1. claimed \in Signal
    BY <1>0, <1>12 DEF LeaderShape, LoadUidAndSpawn, LeaderAt
  <2>2. scan' \in 0 .. Signals /\ leader' \in {"free", "dispatch"}
    BY <1>12, TrapAssumption DEF LoadUidAndSpawn, NextIndex
  <2>3. queued[claimed] + 1 \in Nat /\ <<claimedPid, uid[claimed]>> \in Person \X Person
    BY <2>1
  <2>4. queued' \in [Signal -> Nat] /\ sender' \in [Signal -> Person \X Person]
    BY <1>12, <2>3 DEF LoadUidAndSpawn
  <2>5. QED
    BY <1>0, <1>12, <2>2, <2>4 DEF LoadUidAndSpawn, handlers
<1>13. CASE Redeliver
  BY <1>0, <1>13 DEF Redeliver, LeaderAt, handlers, arms
<1>14. CASE DispatcherDrains
  <2>1. 1 \in 0 .. Signals
    BY <1>14, TrapAssumption DEF DispatcherDrains, Signal
  <2>2. QED
    BY <1>14, <2>1 DEF DispatcherDrains, slots, handlers, arms
<1>15. CASE MainReturns
  BY <1>15 DEF MainReturns, slots, handlers, claim, arms
<1>16. CASE LoopEnds
  BY <1>16 DEF LoopEnds, slots, handlers, claim, arms
<1> QED
  BY <1>1, <1>2, <1>3, <1>4, <1>5, <1>6, <1>7, <1>8, <1>9, <1>10, <1>11, <1>12,
     <1>13, <1>14, <1>15, <1>16 DEF Next, Handle, InTrap

\* A handler leaves the leader and its arms alone.
LEMMA HandlerStep ==
  ASSUME NEW t \in Thread, NEW s \in Signal, Arrive(t, s) \/ Handle(t, s)
  PROVE  UNCHANGED <<installed, running, scan, leader, claimed, claimedPid, queued,
                     inArm, sender, main>>
BY DEF Arrive, Handle, StorePid, StoreUid, StorePending, WritePipe, HandlerGoes,
       slots, claim, arms

\* So do the program's start, main's return and the end of the loop, and they
\* leave the slots alone too.
LEMMA ProgramStep ==
  ASSUME (\E s \in Signal : TrapInstall(s)) \/ MainReturns \/ LoopEnds
  PROVE  UNCHANGED <<slots, pipe, handlers, claim, arms>>
BY DEF TrapInstall, MainReturns, LoopEnds

\* A step of the model keeps the leader's registers in shape.
LEMMA ShapeStep == ASSUME TypeOK, LeaderShape, Next PROVE LeaderShape'
<1>0. /\ scan \in 0 .. Signals /\ claimed \in 0 .. Signals /\ Signals \in Nat
      /\ Signal = 1 .. Signals
  BY TrapAssumption DEF TypeOK, Signal
<1>1. ASSUME NEW t \in Thread, NEW s \in Signal, Arrive(t, s) \/ Handle(t, s)
      PROVE  LeaderShape'
  BY <1>1, HandlerStep DEF LeaderShape
<1>2. CASE (\E s \in Signal : TrapInstall(s)) \/ MainReturns \/ LoopEnds
  BY <1>2, ProgramStep DEF LeaderShape, claim
<1>3. ASSUME NEW s \in Signal, ArmStarts(s) PROVE LeaderShape'
  BY <1>3 DEF ArmStarts, LeaderShape, claim
<1>4. ASSUME NEW s \in Signal, ArmReturns(s) PROVE LeaderShape'
  BY <1>0, <1>4 DEF ArmReturns, LeaderAt, LeaderShape
<1>5. CASE DispatchReturns
  BY <1>0, <1>5 DEF DispatchReturns, NextIndex, LeaderAt, LeaderShape
<1>6. CASE DispatchClaims
  BY <1>6 DEF DispatchClaims, LeaderAt, LeaderShape
<1>7. CASE LoadPid
  BY <1>7 DEF LoadPid, LeaderAt, LeaderShape
<1>8. CASE LoadUidAndSpawn
  BY <1>0, <1>8 DEF LoadUidAndSpawn, NextIndex, LeaderAt, LeaderShape
<1>9. CASE Redeliver
  BY <1>9 DEF Redeliver, LeaderAt, LeaderShape
<1>10. CASE DispatcherDrains
  BY <1>10 DEF DispatcherDrains, LeaderAt, LeaderShape
<1> QED
  BY <1>1, <1>2, <1>3, <1>4, <1>5, <1>6, <1>7, <1>8, <1>9, <1>10 DEF Next, InTrap

\* A step of the model keeps `running` in agreement with the arms.
LEMMA ArmStep == ASSUME TypeOK, LeaderShape, ArmFlags, Next PROVE ArmFlags'
<1>0. /\ running \in [Signal -> BOOLEAN]
      /\ queued \in [Signal -> Nat] /\ inArm \in [Signal -> Nat]
      /\ scan # 0 => scan \in Signal
      /\ claimed # 0 => claimed \in Signal
  BY TrapAssumption DEF TypeOK, Signal
<1>1. ASSUME NEW t \in Thread, NEW s \in Signal, Arrive(t, s) \/ Handle(t, s)
      PROVE  ArmFlags'
  BY <1>1, HandlerStep DEF ArmFlags, Delivering
<1>2. CASE (\E s \in Signal : TrapInstall(s)) \/ MainReturns \/ LoopEnds
  BY <1>2, ProgramStep DEF ArmFlags, Delivering, slots, claim, arms
<1>3. ASSUME NEW s \in Signal, ArmStarts(s) PROVE ArmFlags'
  BY <1>0, <1>3 DEF ArmStarts, LeaderAt, ArmFlags, Delivering, slots, claim
<1>4. ASSUME NEW s \in Signal, ArmReturns(s) PROVE ArmFlags'
  BY <1>0, <1>4 DEF ArmReturns, LeaderAt, ArmFlags, Delivering
<1>5. CASE DispatchReturns
  BY <1>5 DEF DispatchReturns, NextIndex, LeaderAt, ArmFlags, Delivering, slots, arms
<1>6. CASE DispatchClaims
  BY <1>0, <1>6 DEF DispatchClaims, LeaderAt, LeaderShape, ArmFlags, Delivering, arms
<1>7. CASE LoadPid
  BY <1>7 DEF LoadPid, LeaderAt, ArmFlags, Delivering, slots, arms
<1>8. CASE LoadUidAndSpawn
  <2>1. claimed \in Signal /\ leader' \in {"free", "dispatch"} /\ leader = "uid"
    BY <1>0, <1>8 DEF LoadUidAndSpawn, NextIndex, LeaderAt, LeaderShape
  <2>2. QED
    BY <1>0, <1>8, <2>1 DEF LoadUidAndSpawn, ArmFlags, Delivering
<1>9. CASE Redeliver
  BY <1>0, <1>9 DEF Redeliver, LeaderAt, LeaderShape, ArmFlags, Delivering, arms
<1>10. CASE DispatcherDrains
  BY <1>10 DEF DispatcherDrains, LeaderAt, ArmFlags, Delivering, slots, arms
<1> QED
  BY <1>1, <1>2, <1>3, <1>4, <1>5, <1>6, <1>7, <1>8, <1>9, <1>10 DEF Next, InTrap

\* A step of the model strands no recorded arrival.
LEMMA NoticedStep == ASSUME IInv, Next PROVE PendingIsNoticed'
<1>0. /\ handling \in [Thread -> [Signal -> {"idle", "pid", "uid", "pending", "write"}]]
      /\ pending \in [Signal -> BOOLEAN]
      /\ queued \in [Signal -> Nat] /\ inArm \in [Signal -> Nat]
      /\ scan \in 0 .. Signals /\ claimed \in 0 .. Signals
      /\ Signal = 1 .. Signals /\ Signals \in Nat
      /\ LeaderShape /\ ArmFlags
      /\ running \in [Signal -> BOOLEAN]
  BY TrapAssumption DEF IInv, TypeOK, Signal
<1> SUFFICES ASSUME NEW r \in Signal, pending'[r] PROVE WillLook(r)'
  BY DEF PendingIsNoticed
<1>n. pending[r] => WillLook(r)
  BY DEF IInv, PendingIsNoticed
<1>1. ASSUME NEW t \in Thread, NEW s \in Signal, Arrive(t, s) \/ Handle(t, s)
      PROVE  WillLook(r)'
  <2>0. UNCHANGED <<scan, leader, claimed, queued, inArm>>
    BY <1>1, HandlerStep
  <2>1. CASE WritePipe(t, s)
    BY <2>1 DEF WritePipe, WillLook
  <2>2. CASE StorePending(t, s)
    <3>1. CASE r = s
      BY <1>0, <2>2, <3>1 DEF StorePending, HandlerGoes, WillLook
    <3>2. CASE r # s
      <4>1. /\ pending[r] /\ UNCHANGED pipe
            /\ \A u \in Thread : handling[u][r] = "write" => handling'[u][r] = "write"
        BY <1>0, <2>2, <3>2 DEF StorePending, HandlerGoes
      <4> QED  BY <1>n, <2>0, <4>1 DEF WillLook, Delivering
    <3> QED  BY <3>1, <3>2
  <2>3. CASE Arrive(t, s) \/ StorePid(t, s) \/ StoreUid(t, s)
    <3>1. /\ UNCHANGED <<pending, pipe>>
          /\ handling[t][s] # "write"
          /\ \E l : handling' = [handling EXCEPT ![t][s] = l]
      BY <2>3, Zenon DEF Arrive, StorePid, StoreUid, HandlerGoes, slots
    <3>2. \A u \in Thread : handling[u][r] = "write" => handling'[u][r] = "write"
      BY <1>0, <3>1
    <3> QED  BY <1>n, <2>0, <3>1, <3>2 DEF WillLook, Delivering
  <2> QED  BY <1>1, <2>1, <2>2, <2>3 DEF Handle
<1>2. CASE (\E s \in Signal : TrapInstall(s)) \/ MainReturns \/ LoopEnds
  BY <1>n, <1>2, ProgramStep DEF WillLook, Delivering, slots, handlers, claim, arms
<1>3. ASSUME NEW s \in Signal, ArmStarts(s) PROVE WillLook(r)'
  <2>1. queued'[r] + inArm'[r] = queued[r] + inArm[r]
    BY <1>0, <1>3 DEF ArmStarts
  <2> QED
    BY <1>n, <1>3, <2>1 DEF ArmStarts, WillLook, Delivering, slots, handlers, claim
<1>4. ASSUME NEW s \in Signal, ArmReturns(s) PROVE WillLook(r)'
  <2>1. CASE r = s
    BY <1>4, <2>1 DEF ArmReturns, WillLook
  <2>2. CASE r # s
    BY <1>0, <1>n, <1>4, <2>2 DEF ArmReturns, LeaderAt, WillLook, Delivering, handlers
  <2> QED  BY <2>1, <2>2
<1>5. CASE DispatchReturns
  <2>1. CASE r = scan
    \* Nothing was pending, or the arm is running and looks when it returns.
    <3>1. running[r] /\ leader = "dispatch"
      BY <1>5, <2>1 DEF DispatchReturns, LeaderAt, slots
    <3>2. queued[r] + inArm[r] = 1
      BY <1>0, <3>1 DEF ArmFlags, Delivering
    <3> QED  BY <1>5, <3>2 DEF DispatchReturns, WillLook, arms
  <2>2. CASE r # scan
    BY <1>0, <1>n, <1>5, <2>2
    DEF DispatchReturns, NextIndex, LeaderAt, WillLook, Delivering, slots, handlers, arms
  <2> QED  BY <2>1, <2>2
<1>6. CASE DispatchClaims
  BY <1>0, <1>n, <1>6
  DEF DispatchClaims, LeaderAt, LeaderShape, WillLook, Delivering, handlers, arms
<1>7. CASE LoadPid
  BY <1>n, <1>7 DEF LoadPid, LeaderAt, WillLook, Delivering, slots, handlers, arms
<1>8. CASE LoadUidAndSpawn
  <2>1. CASE r = claimed
    BY <1>0, <1>8, <2>1 DEF LoadUidAndSpawn, WillLook
  <2>2. CASE r # claimed
    <3>1. (scan # 0 /\ scan <= r) => (scan' # 0 /\ scan' <= r)
      BY <1>0, <1>8, <2>2 DEF LoadUidAndSpawn, NextIndex, LeaderAt, LeaderShape
    <3>2. queued'[r] = queued[r] /\ inArm'[r] = inArm[r]
      BY <1>0, <1>8, <2>2 DEF LoadUidAndSpawn
    <3> QED
      BY <1>n, <1>8, <2>2, <3>1, <3>2
      DEF LoadUidAndSpawn, LeaderAt, WillLook, Delivering, handlers
  <2> QED  BY <2>1, <2>2
<1>9. CASE Redeliver
  <2>1. r # claimed /\ pending[r]
    BY <1>0, <1>9 DEF Redeliver
  <2> QED
    BY <1>n, <1>9, <2>1 DEF Redeliver, LeaderAt, WillLook, Delivering, handlers, arms
<1>10. CASE DispatcherDrains
  BY <1>0, <1>10 DEF DispatcherDrains, WillLook
<1> QED
  BY <1>1, <1>2, <1>3, <1>4, <1>5, <1>6, <1>7, <1>8, <1>9, <1>10 DEF Next, InTrap

\* Every reachable state satisfies the inductive invariant.
THEOREM Invariance == Spec => []IInv
<1>1. Init => IInv
  BY Initially
<1>2. IInv /\ [Next]_vars => IInv'
  <2> SUFFICES ASSUME IInv, [Next]_vars PROVE IInv'
    OBVIOUS
  <2>1. CASE Next
    BY <2>1, TypeStep, ShapeStep, ArmStep, NoticedStep DEF IInv
  <2>2. CASE UNCHANGED vars
    BY <2>2 DEF IInv, TypeOK, LeaderShape, ArmFlags, PendingIsNoticed, WillLook,
                Delivering, vars, slots, handlers, claim, arms
  <2> QED  BY <2>1, <2>2
<1> QED  BY <1>1, <1>2, PTL DEF Spec

\* A signal's arm never runs twice at once, with any number of threads and
\* signals (dispatch_if_idle, spawn_run).
THEOREM OneArm == Spec => []OneArmPerSignal
BY Invariance, ArmFlagsSuffice, PTL

\* A recorded arrival is never stranded, with any number of threads and signals
\* (handle_signal racing run_dispatcher's drain and spawn_run's return).
THEOREM Noticed == Spec => []PendingIsNoticed
<1>1. IInv => PendingIsNoticed
  BY DEF IInv
<1> QED  BY <1>1, Invariance, PTL
=============================================================================
