------------------------ MODULE AtomicBindingProofs ------------------------
(***************************************************************************)
(* Mutual exclusion, no lost update and no torn read of atomic bindings,   *)
(* for every set of workers and bindings and any number of trapped faults. *)
(***************************************************************************)
EXTENDS AtomicBinding, TLAPS

(***************************************************************************)
(* The lock discipline: a depth above zero is backed by the lock, only one *)
(* worker has one, and it covers the code the worker is executing.  Depth  *)
(* may exceed the nesting: a trapped fault leaves its begins unmatched.    *)
(***************************************************************************)
LockInv ==
  /\ \A w \in Worker : DEPTH[w] > 0 => LOCK
  /\ \A v, w \in Worker : DEPTH[v] > 0 /\ DEPTH[w] > 0 => v = w
  /\ \A w \in Worker : Nesting(w) <= DEPTH[w]

(***************************************************************************)
(* What the words mean: a load in progress agrees with memory, a store in  *)
(* progress has written its first word, and a binding is whole unless a    *)
(* worker is between the two words of its store.                           *)
(***************************************************************************)
WordInv ==
  /\ \A w \in Worker : pc[w] = "load2" => loaded[w][1] = value[source[w]][1]
  /\ \A w \in Worker : pc[w] \in {"endRead", "store1"} =>
       /\ loaded[w][1] = value[source[w]][1]
       /\ loaded[w][2] = value[source[w]][2]
  /\ \A w \in Worker : pc[w] = "store2" =>
       /\ loaded[w][1] = loaded[w][2]
       /\ value[target[w]][1] = (loaded[w][1] + 1) % Modulus
  /\ \A b \in Binding :
       (\A w \in Worker : pc[w] = "store2" => target[w] # b) => value[b][1] = value[b][2]

IInv == TypeOK /\ LockInv /\ WordInv

-----------------------------------------------------------------------------

\* A word stays a word when it is incremented.
LEMMA NextWord ==
  ASSUME NEW n \in Word
  PROVE  (n + 1) % Modulus \in Word
BY AtomicAssumption, SMT DEF Word

\* Every action keeps the variables in their types, provided no end is
\* called at depth zero.
LEMMA TypeStep ==
  ASSUME TypeOK, LockInv, [Next]_vars
  PROVE  TypeOK'
<1> USE DEF TypeOK, Points, Goto, statement
<1>1. ASSUME NEW w \in Worker, NEW t \in Binding, NEW s \in Binding,
             StartReassignment(w, t, s)
      PROVE  TypeOK'
  BY <1>1 DEF StartReassignment
<1>2. ASSUME NEW w \in Worker, NEW s \in Binding, StartRead(w, s)
      PROVE  TypeOK'
  BY <1>2 DEF StartRead
<1>3. ASSUME NEW w \in Worker, EnterReassignment(w) PROVE TypeOK'
  <2>1. LOCK' \in BOOLEAN
    BY <1>3 DEF EnterReassignment, AtomicBegin
  <2>2. DEPTH' \in [Worker -> Nat]
    BY <1>3 DEF EnterReassignment, AtomicBegin
  <2>3. pc' \in [Worker -> Points]
    BY <1>3 DEF EnterReassignment
  <2>4. UNCHANGED <<value, assigning, target, source, loaded, aborts>>
    BY <1>3 DEF EnterReassignment
  <2>5. QED
    BY <2>1, <2>2, <2>3, <2>4
<1>4. ASSUME NEW w \in Worker, EnterRead(w) PROVE TypeOK'
  <2>1. LOCK' \in BOOLEAN
    BY <1>4 DEF EnterRead, AtomicBegin
  <2>2. DEPTH' \in [Worker -> Nat]
    BY <1>4 DEF EnterRead, AtomicBegin
  <2>3. pc' \in [Worker -> Points]
    BY <1>4 DEF EnterRead
  <2>4. UNCHANGED <<value, assigning, target, source, loaded, aborts>>
    BY <1>4 DEF EnterRead
  <2>5. QED
    BY <2>1, <2>2, <2>3, <2>4
<1>5. ASSUME NEW w \in Worker, NEW word \in 1 .. 2, NEW from, NEW to \in Points,
             Load(w, word, from, to)
      PROVE  TypeOK'
  <2>1. loaded' \in [Worker -> [1 .. 2 -> Word]] /\ pc' \in [Worker -> Points]
    BY <1>5 DEF Load
  <2>2. UNCHANGED <<LOCK, DEPTH, value, assigning, target, source, aborts>>
    BY <1>5 DEF Load
  <2>3. QED
    BY <2>1, <2>2
<1>6. ASSUME NEW w \in Worker, LeaveRead(w) PROVE TypeOK'
  <2>1. DEPTH[w] - 1 \in Nat
    BY <1>6 DEF LeaveRead, LockInv, Nesting
  <2>2. QED
    BY <1>6, <2>1 DEF LeaveRead, AtomicEnd
<1>7. ASSUME NEW w \in Worker, NEW word \in 1 .. 2, NEW from, NEW to \in Points,
             Store(w, word, from, to)
      PROVE  TypeOK'
  <2>1. (loaded[w][word] + 1) % Modulus \in Word
    BY NextWord
  <2>2. value' \in [Binding -> [1 .. 2 -> Word]] /\ pc' \in [Worker -> Points]
    BY <1>7, <2>1 DEF Store
  <2>3. UNCHANGED <<LOCK, DEPTH, loaded, assigning, target, source, aborts>>
    BY <1>7 DEF Store
  <2>4. QED
    BY <2>2, <2>3
<1>8. ASSUME NEW w \in Worker, LeaveReassignment(w) PROVE TypeOK'
  <2>1. DEPTH[w] - 1 \in Nat
    BY <1>8 DEF LeaveReassignment, LockInv, Nesting
  <2>2. QED
    BY <1>8, <2>1 DEF LeaveReassignment, AtomicEnd
<1>9. ASSUME NEW w \in Worker, TrappedFault(w) PROVE TypeOK'
  BY <1>9, AtomicAssumption DEF TrappedFault
<1>10. CASE UNCHANGED vars
  BY <1>10 DEF vars
<1>11. ASSUME NEW w \in Worker, Step(w) PROVE TypeOK'
  <2>1. CASE Load(w, 1, "load1", "load2") \/ Load(w, 2, "load2", "endRead")
    BY <2>1, <1>5
  <2>2. CASE Store(w, 1, "store1", "store2") \/ Store(w, 2, "store2", "endAssign")
    BY <2>2, <1>7
  <2>3. QED
    BY <1>3, <1>4, <1>6, <1>8, <1>11, <2>1, <2>2 DEF Step
<1>12. QED
  BY <1>1, <1>2, <1>9, <1>10, <1>11 DEF Next

\* Only the worker that has the lock has a depth, and a section is left only
\* by the end that matches its first begin.
LEMMA LockStep ==
  ASSUME TypeOK, LockInv, [Next]_vars
  PROVE  LockInv'
<1> USE DEF TypeOK, Points, Goto, statement, LockInv, Nesting
<1>1. ASSUME NEW w \in Worker, NEW t \in Binding, NEW s \in Binding,
             StartReassignment(w, t, s)
      PROVE  LockInv'
  BY <1>1 DEF StartReassignment
<1>2. ASSUME NEW w \in Worker, NEW s \in Binding, StartRead(w, s)
      PROVE  LockInv'
  BY <1>2 DEF StartRead
<1>3. ASSUME NEW w \in Worker, EnterReassignment(w) PROVE LockInv'
  BY <1>3 DEF EnterReassignment, AtomicBegin
<1>4. ASSUME NEW w \in Worker, EnterRead(w) PROVE LockInv'
  BY <1>4 DEF EnterRead, AtomicBegin
<1>5. ASSUME NEW w \in Worker,
             Load(w, 1, "load1", "load2") \/ Load(w, 2, "load2", "endRead")
      PROVE  LockInv'
  BY <1>5 DEF Load
<1>6. ASSUME NEW w \in Worker, LeaveRead(w) PROVE LockInv'
  BY <1>6 DEF LeaveRead, AtomicEnd
<1>7. ASSUME NEW w \in Worker,
             Store(w, 1, "store1", "store2") \/ Store(w, 2, "store2", "endAssign")
      PROVE  LockInv'
  BY <1>7 DEF Store
<1>8. ASSUME NEW w \in Worker, LeaveReassignment(w) PROVE LockInv'
  BY <1>8 DEF LeaveReassignment, AtomicEnd
<1>9. ASSUME NEW w \in Worker, TrappedFault(w) PROVE LockInv'
  BY <1>9 DEF TrappedFault
<1>10. CASE UNCHANGED vars
  BY <1>10 DEF vars
<1>11. QED
  BY <1>1, <1>2, <1>3, <1>4, <1>5, <1>6, <1>7, <1>8, <1>9, <1>10 DEF Next, Step

\* A worker inside a section is the only one there.
LEMMA SoleSection ==
  ASSUME TypeOK, LockInv, NEW v \in Worker, NEW w \in Worker,
         Nesting(v) > 0, Nesting(w) > 0
  PROVE  v = w
BY DEF TypeOK, LockInv, Nesting, Points

\* While a worker loads or stores, no other worker is past its entry points.
LEMMA Alone ==
  ASSUME TypeOK, LockInv,
         NEW v \in Worker, NEW w \in Worker, v # w,
         pc[w] \notin {"idle", "assign", "read"}
  PROVE  pc[v] \in {"idle", "assign", "read"}
<1>1. Nesting(w) > 0
  BY DEF Nesting, TypeOK, Points
<1>2. ~ (Nesting(v) > 0)
  BY <1>1, SoleSection
<1>3. QED
  BY <1>2 DEF Nesting, TypeOK, Points

\* Memory and the words in flight agree: while one worker is between a load
\* and the end of its section, no other worker stores.
LEMMA WordStep ==
  ASSUME TypeOK, LockInv, WordInv, [Next]_vars
  PROVE  WordInv'
<1> USE DEF TypeOK, Goto, statement
<1>1. ASSUME NEW w \in Worker, NEW t \in Binding, NEW s \in Binding,
             StartReassignment(w, t, s)
      PROVE  WordInv'
  BY <1>1 DEF StartReassignment, WordInv
<1>2. ASSUME NEW w \in Worker, NEW s \in Binding, StartRead(w, s)
      PROVE  WordInv'
  BY <1>2 DEF StartRead, WordInv
<1>3. ASSUME NEW w \in Worker, EnterReassignment(w)
      PROVE  WordInv'
  BY <1>3 DEF EnterReassignment, WordInv
<1>4. ASSUME NEW w \in Worker, EnterRead(w)
      PROVE  WordInv'
  BY <1>4 DEF EnterRead, WordInv
<1>5. ASSUME NEW w \in Worker, Load(w, 1, "load1", "load2") PROVE WordInv'
  BY <1>5 DEF Load, WordInv
<1>6. ASSUME NEW w \in Worker, Load(w, 2, "load2", "endRead") PROVE WordInv'
  BY <1>6 DEF Load, WordInv
<1>7. ASSUME NEW w \in Worker, LeaveRead(w) PROVE WordInv'
  BY <1>7 DEF LeaveRead, WordInv
<1>8. ASSUME NEW w \in Worker, Store(w, 1, "store1", "store2") PROVE WordInv'
  <2>1. \A v \in Worker : v # w => pc[v] \in {"idle", "assign", "read"}
    BY <1>8, Alone DEF Store
  <2>2. \A b \in Binding : value[b][1] = value[b][2]
    BY <1>8, <2>1 DEF Store, WordInv
  <2>3. loaded[w][1] = loaded[w][2]
    BY <1>8, <2>2 DEF Store, WordInv
  <2>4. /\ \A v \in Worker : pc'[v] = "store2" <=> v = w
        /\ \A v \in Worker : pc'[v] \notin {"load2", "endRead", "store1"}
    BY <1>8, <2>1 DEF Store
  <2>5. value'[target[w]][1] = (loaded[w][1] + 1) % Modulus
    BY <1>8 DEF Store
  <2>6. \A b \in Binding : b # target[w] => value'[b] = value[b]
    BY <1>8 DEF Store
  <2>7. UNCHANGED <<loaded, target>>
    BY <1>8 DEF Store
  <2>8. QED
    BY <2>2, <2>3, <2>4, <2>5, <2>6, <2>7 DEF WordInv
<1>9. ASSUME NEW w \in Worker, Store(w, 2, "store2", "endAssign") PROVE WordInv'
  <2>1. \A v \in Worker : v # w => pc[v] \in {"idle", "assign", "read"}
    BY <1>9, Alone DEF Store
  <2>2. \A b \in Binding : b # target[w] => value[b][1] = value[b][2]
    BY <1>9, <2>1 DEF Store, WordInv
  <2>3. \A v \in Worker : pc'[v] \notin {"load2", "endRead", "store1", "store2"}
    BY <1>9, <2>1 DEF Store
  <2>4. /\ value'[target[w]][1] = value[target[w]][1]
        /\ value'[target[w]][2] = (loaded[w][2] + 1) % Modulus
    BY <1>9 DEF Store
  <2>5. value[target[w]][1] = (loaded[w][2] + 1) % Modulus
    BY <1>9 DEF Store, WordInv
  <2>6. \A b \in Binding : b # target[w] => value'[b] = value[b]
    BY <1>9 DEF Store
  <2>7. QED
    BY <2>2, <2>3, <2>4, <2>5, <2>6 DEF WordInv
<1>10. ASSUME NEW w \in Worker, LeaveReassignment(w) PROVE WordInv'
  BY <1>10 DEF LeaveReassignment, WordInv
<1>11. ASSUME NEW w \in Worker, TrappedFault(w) PROVE WordInv'
  BY <1>11 DEF TrappedFault, WordInv
<1>12. CASE UNCHANGED vars
  BY <1>12 DEF vars, WordInv
<1>13. QED
  BY <1>1, <1>2, <1>3, <1>4, <1>5, <1>6, <1>7, <1>8, <1>9, <1>10, <1>11, <1>12
  DEF Next, Step

(***************************************************************************)
(* The inductive invariant holds in every state of the specification, for  *)
(* any workers and bindings, trapped faults included.                      *)
(***************************************************************************)
THEOREM Invariance == Spec => []IInv
<1>1. Init => IInv
  <2>1. 0 \in Word
    BY AtomicAssumption DEF Word
  <2>2. Init => TypeOK
    <3>1. Init => LOCK \in BOOLEAN /\ assigning \in [Worker -> BOOLEAN]
      BY DEF Init
    <3>2. Init => /\ value \in [Binding -> [1 .. 2 -> Word]]
                  /\ loaded \in [Worker -> [1 .. 2 -> Word]]
      BY <2>1 DEF Init
    <3>3. Init => /\ DEPTH \in [Worker -> Nat] /\ pc \in [Worker -> Points]
                  /\ target \in [Worker -> Binding] /\ source \in [Worker -> Binding]
                  /\ aborts \in 0 .. MaxAborts
      BY AtomicAssumption DEF Init, Points
    <3>4. QED
      BY <3>1, <3>2, <3>3 DEF TypeOK
  <2>3. Init => LockInv
    BY DEF Init, LockInv, Nesting
  <2>4. Init => WordInv
    BY DEF Init, WordInv
  <2>5. QED
    BY <2>2, <2>3, <2>4 DEF IInv
<1>2. IInv /\ [Next]_vars => IInv'
  BY TypeStep, LockStep, WordStep DEF IInv
<1>3. QED
  BY <1>1, <1>2, PTL DEF Spec

(***************************************************************************)
(* One worker at a time is inside a section of atomic_binding.rs's lock,   *)
(* however sections nest and whatever right sides are abandoned.           *)
(***************************************************************************)
THEOREM Exclusion == Spec => []MutualExclusion
<1>1. IInv => MutualExclusion
  BY SoleSection DEF IInv, MutualExclusion
<1>2. QED
  BY <1>1, Invariance, PTL

(***************************************************************************)
(* `hits := hits + 1` never loses an update and a read is never torn.      *)
(***************************************************************************)
THEOREM AtomicAccess == Spec => [](NoLostUpdate /\ NoTornRead)
<1>1. IInv => NoLostUpdate
  <2> SUFFICES ASSUME IInv, NEW w \in Worker, pc[w] = "store1"
               PROVE  loaded[w] = value[source[w]]
    BY DEF NoLostUpdate
  <2>1. \A word \in 1 .. 2 : loaded[w][word] = value[source[w]][word]
    BY DEF IInv, WordInv
  <2>2. loaded[w] \in [1 .. 2 -> Word] /\ value[source[w]] \in [1 .. 2 -> Word]
    BY DEF IInv, TypeOK
  <2>3. QED
    BY <2>1, <2>2
<1>2. IInv => NoTornRead
  <2> SUFFICES ASSUME IInv, NEW w \in Worker, pc[w] = "endRead"
               PROVE  loaded[w][1] = loaded[w][2]
    BY DEF NoTornRead
  <2>1. \A v \in Worker : pc[v] # "store2"
    BY Alone DEF IInv
  <2>2. QED
    BY <2>1 DEF IInv, WordInv, TypeOK
<1>3. QED
  BY <1>1, <1>2, Invariance, PTL
=============================================================================
