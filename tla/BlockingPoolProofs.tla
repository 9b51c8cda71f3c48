------------------------- MODULE BlockingPoolProofs -------------------------
(***************************************************************************)
(* For any callers, base threads, overflow threads and ceiling: no queued  *)
(* job is left with every base thread asleep, and a call is answered by    *)
(* its own job only.                                                       *)
(***************************************************************************)
EXTENDS BlockingPool, Queues

Waits == {"notify", "grow", "await"}

Types ==
  /\ jobs \in Seq(Caller)
  /\ caller \in [Caller -> {"idle", "push", "notify", "grow", "await", "recv"}]
  /\ sent \in [Caller -> {"none", "value", "dropped"}]
  /\ fired \subseteq Caller
  /\ worker \in [Thread -> {"none", "pop", "asleep", "run", "drop", "ran", "leave"}]
  /\ job \in [Thread -> Caller \cup {None}]

\* Before the pool is ready nothing is queued; after it, base threads stay.
Started ==
  /\ pool # "ready" => \A c \in Caller : caller[c] = "idle"
  /\ pool = "ready" => \A t \in Base : worker[t] # "none"
  /\ \A t \in Base : worker[t] # "leave"

\* A submitted job is in one place: queued, held by one thread, or done.
Placed ==
  /\ Distinct(jobs)
  /\ \A c \in Ids(jobs) : caller[c] \in Waits /\ c \notin fired /\ sent[c] = "none"
  /\ \A t \in Thread : worker[t] \in {"run", "drop"} => job[t] \in Caller /\ job[t] \notin Ids(jobs)
  /\ \A t \in Thread : worker[t] \notin {"run", "drop"} => job[t] = None
  /\ \A t \in Thread : worker[t] = "run" =>
       caller[job[t]] \in Waits /\ job[t] \notin fired /\ sent[job[t]] = "none"
  /\ \A t \in Thread : worker[t] = "drop" =>
       caller[job[t]] \in Waits \cup {"recv"} /\ sent[job[t]] = "none"
  /\ \A t, u \in Thread : job[t] = job[u] /\ job[t] # None => t = u
  /\ \A c \in fired : caller[c] \in Waits
  /\ \A c \in Caller : caller[c] = "push" => sent[c] = "none"

IInv == Types /\ Started /\ Placed /\ NoJobStranded

-----------------------------------------------------------------------------
\* Nothing but counters, the growth decision or a caller's state changes.
LEMMA CallerStep ==
  ASSUME IInv, NEW c \in Caller, NEW from, NEW to,
         caller[c] = from, caller' = [caller EXCEPT ![c] = to],
         from \in Waits \ {"notify"}, to \in Waits \ {"notify"},
         UNCHANGED <<pool, jobs, sent, fired, job>>,
         worker' \in [Thread -> {"none", "pop", "asleep", "run", "drop", "ran", "leave"}],
         \A t \in Thread : worker'[t] # worker[t] => t \in Overflow /\ worker[t] = "none" /\ worker'[t] = "pop"
  PROVE  IInv'
<1>1. /\ caller'[c] = to /\ \A d \in Caller : d # c => caller'[d] = caller[d]
      /\ caller' \in [Caller -> {"idle", "push", "notify", "grow", "await", "recv"}]
  BY Zenon DEF IInv, Types, Waits
<1>2. Types'
  BY <1>1 DEF IInv, Types
<1>3. \A t \in Base : worker'[t] = worker[t]
  BY PoolAssumption DEF Thread
<1>4. Started'
  BY <1>1, <1>3 DEF IInv, Started, Waits
<1>5. Placed'
  BY <1>1 DEF IInv, Placed, Types, Waits
<1>6. NoJobStranded'
  BY <1>1, <1>3 DEF IInv, NoJobStranded, Waits
<1>7. QED
  BY <1>2, <1>4, <1>5, <1>6 DEF IInv

LEMMA StartStep ==
  ASSUME IInv, StartPool
  PROVE  IInv'
<1>1. PICK started \in SUBSET Base :
        /\ pool' = IF started = Base THEN "ready" ELSE "refused"
        /\ worker' = [t \in Thread |-> IF t \in started THEN "pop" ELSE "none"]
  BY DEF StartPool
<1>2. /\ pool = "absent"
      /\ UNCHANGED <<jobs, caller, sent, fired, job>>
  BY DEF StartPool, fibers, results
<1>3. \A c \in Caller : caller[c] = "idle"
  BY <1>2 DEF IInv, Started
<1>4. Ids(jobs) = {} /\ jobs = <<>>
  <2>1. \A c \in Ids(jobs) : c \in Caller /\ caller[c] \in Waits
    BY DEF IInv, Types, Placed, Ids
  <2>2. \A c \in Caller : caller[c] \notin Waits
    BY <1>3 DEF Waits
  <2>3. Ids(jobs) = {}
    BY <2>1, <2>2
  <2>4. ASSUME NEW S, NEW q \in Seq(S), q # <<>> PROVE q[1] \in Ids(q)
    BY <2>4 DEF Ids
  <2>5. QED
    BY <2>3, <2>4 DEF IInv, Types
<1>5. Types'
  <2>1. worker' \in [Thread -> {"none", "pop", "asleep", "run", "drop", "ran", "leave"}]
    BY <1>1
  <2>2. QED
    BY <1>2, <2>1 DEF IInv, Types
<1>6. Started'
  BY <1>1, <1>2, <1>3 DEF Started, Thread
<1>7. \A t \in Thread : job[t] = None /\ worker'[t] \in {"pop", "none"}
  <2>1. \A t \in Thread : worker[t] \notin {"run", "drop"}
    BY <1>3 DEF IInv, Placed, Types, Waits
  <2>2. QED
    BY <1>1, <2>1 DEF IInv, Placed
<1>8. Placed'
  <2>1. fired = {}
    BY <1>3 DEF IInv, Placed, Types, Waits
  <2>2. QED
    BY <1>2, <1>3, <1>4, <1>7, <2>1 DEF IInv, Placed
<1>9. NoJobStranded'
  BY <1>2, <1>4 DEF NoJobStranded
<1>10. QED
  BY <1>5, <1>6, <1>8, <1>9 DEF IInv

LEMMA CountStep ==
  ASSUME IInv, NEW c \in Caller, Count(c)
  PROVE  IInv'
<1>1. /\ caller[c] = "idle" /\ pool = "ready"
      /\ caller' = [caller EXCEPT ![c] = "push"]
      /\ sent' = [sent EXCEPT ![c] = "none"]
      /\ UNCHANGED <<pool, jobs, fired, worker, job>>
  BY DEF Count, threads
<1>2. /\ caller'[c] = "push" /\ sent'[c] = "none"
      /\ \A d \in Caller : d # c => caller'[d] = caller[d] /\ sent'[d] = sent[d]
  BY <1>1 DEF IInv, Types
<1>3. Types'
  BY <1>1 DEF IInv, Types
<1>4. Started'
  BY <1>1 DEF IInv, Started
<1>5. \A d \in Caller : caller[d] # "idle" => caller'[d] = caller[d] /\ sent'[d] = sent[d]
  BY <1>1, <1>2
<1>6. Ids(jobs) \subseteq Caller
  BY DEF IInv, Types, Ids
<1>7. Placed'
  BY <1>1, <1>2, <1>5, <1>6 DEF IInv, Types, Placed, Waits
<1>8. NoJobStranded'
  BY <1>1, <1>5 DEF IInv, NoJobStranded
<1>9. QED
  BY <1>3, <1>4, <1>7, <1>8 DEF IInv

LEMMA PushStep ==
  ASSUME IInv, NEW c \in Caller, Push(c)
  PROVE  IInv'
<1>1. /\ caller[c] = "push"
      /\ caller' = [caller EXCEPT ![c] = "notify"]
      /\ jobs' = Append(jobs, c)
      /\ UNCHANGED <<pool, sent, fired, worker, job>>
  BY DEF Push, state, results, threads
<1>2. caller'[c] = "notify" /\ \A d \in Caller : d # c => caller'[d] = caller[d]
  BY <1>1 DEF IInv, Types
<1>3. c \notin Ids(jobs) /\ c \notin fired /\ sent[c] = "none"
  BY <1>1 DEF IInv, Placed, Waits
<1>4. \A t \in Thread : job[t] # c
  BY <1>1, PoolAssumption DEF IInv, Placed, Waits
<1>5. jobs' \in Seq(Caller) /\ Ids(jobs') = Ids(jobs) \cup {c} /\ Distinct(jobs')
  BY <1>1, <1>3, AppendId DEF IInv, Types, Placed
<1>6. Types'
  BY <1>1, <1>5 DEF IInv, Types
<1>7. Started'
  BY <1>1 DEF IInv, Started
<1>8. Placed'
  <2>1. Ids(jobs) \subseteq Caller
    BY DEF IInv, Types, Ids
  <2>2. \A d \in Ids(jobs') : caller'[d] \in Waits /\ d \notin fired' /\ sent'[d] = "none"
    BY <1>1, <1>2, <1>3, <1>5, <2>1 DEF IInv, Placed, Waits
  <2>3. \A t \in Thread : worker[t] \in {"run", "drop"} => job[t] \in Caller /\ job[t] \notin Ids(jobs')
    BY <1>4, <1>5 DEF IInv, Placed
  <2>4. \A t \in Thread : worker[t] \in {"run", "drop"} => caller'[job[t]] = caller[job[t]]
    BY <1>2, <1>4, <2>3
  <2>5. \A d \in fired : caller'[d] \in Waits
    BY <1>2, <1>3 DEF IInv, Placed, Types
  <2>6. \A d \in Caller : caller'[d] = "push" => sent'[d] = "none"
    BY <1>1, <1>2 DEF IInv, Placed
  <2>7. QED
    BY <1>1, <1>5, <2>2, <2>3, <2>4, <2>5, <2>6 DEF IInv, Placed
<1>9. NoJobStranded'
  BY <1>2 DEF NoJobStranded
<1>10. QED
  BY <1>6, <1>7, <1>8, <1>9 DEF IInv

LEMMA NotifyStep ==
  ASSUME IInv, NEW c \in Caller, Notify(c)
  PROVE  IInv'
<1>1. /\ caller[c] = "notify"
      /\ caller' = [caller EXCEPT ![c] = IF grow[c] THEN "grow" ELSE "await"]
      /\ UNCHANGED <<pool, jobs, sent, fired, job>>
  BY DEF Notify, state, results
<1>2. /\ caller'[c] \in {"grow", "await"} /\ \A d \in Caller : d # c => caller'[d] = caller[d]
      /\ caller' \in [Caller -> {"idle", "push", "notify", "grow", "await", "recv"}]
  BY <1>1 DEF IInv, Types
<1>3. /\ worker' \in [Thread -> {"none", "pop", "asleep", "run", "drop", "ran", "leave"}]
      /\ \A t \in Thread : worker'[t] = worker[t] \/ (t \in Base /\ worker[t] = "asleep" /\ worker'[t] = "pop")
      /\ (\E t \in Base : worker[t] = "asleep") => \E t \in Base : worker'[t] = "pop"
  <2>1. CASE \E t \in Base : worker[t] = "asleep"
    <3>1. PICK t \in Base : worker[t] = "asleep" /\ worker' = [worker EXCEPT ![t] = "pop"]
      BY <2>1 DEF Notify
    <3>2. t \in Thread
      BY DEF Thread
    <3>3. QED
      BY <3>1, <3>2 DEF IInv, Types
  <2>2. CASE ~ \E t \in Base : worker[t] = "asleep"
    BY <2>2 DEF Notify, IInv, Types
  <2>3. QED
    BY <2>1, <2>2
<1>4. Types'
  BY <1>1, <1>2, <1>3 DEF IInv, Types
<1>5. pool = "ready"
  BY <1>1 DEF IInv, Started
<1>6. Started'
  BY <1>1, <1>3, <1>5 DEF IInv, Started, Thread
<1>7. Placed'
  BY <1>1, <1>2, <1>3 DEF IInv, Placed, Types, Waits
<1>8. NoJobStranded'
  <2>1. CASE \E t \in Base : worker[t] = "asleep"
    BY <1>3, <2>1 DEF NoJobStranded
  <2>2. CASE ~ \E t \in Base : worker[t] = "asleep"
    <3>1. PICK t \in Base : TRUE
      BY PoolAssumption
    <3>2. worker[t] \in {"pop", "run", "drop", "ran"} /\ worker'[t] = worker[t]
      BY <1>3, <1>5, <2>2, <3>1 DEF IInv, Started, Types, Thread
    <3>3. QED
      BY <3>1, <3>2 DEF NoJobStranded
  <2>3. QED
    BY <2>1, <2>2
<1>9. QED
  BY <1>4, <1>6, <1>7, <1>8 DEF IInv

LEMMA GrowStep ==
  ASSUME IInv, NEW c \in Caller, SpawnOverflow(c) \/ OverflowRefused(c)
  PROVE  IInv'
<1>1. /\ caller[c] = "grow" /\ caller' = [caller EXCEPT ![c] = "await"]
      /\ UNCHANGED <<pool, jobs, sent, fired, job>>
  BY DEF SpawnOverflow, OverflowRefused, state, results, threads
<1>2. /\ worker' \in [Thread -> {"none", "pop", "asleep", "run", "drop", "ran", "leave"}]
      /\ \A t \in Thread : worker'[t] # worker[t] => t \in Overflow /\ worker[t] = "none" /\ worker'[t] = "pop"
  <2>1. CASE SpawnOverflow(c)
    <3>1. PICK t \in Overflow : worker[t] = "none" /\ worker' = [worker EXCEPT ![t] = "pop"]
      BY <2>1, Zenon DEF SpawnOverflow
    <3>2. QED
      BY <3>1 DEF IInv, Types, Thread
  <2>2. CASE OverflowRefused(c)
    BY <2>2 DEF OverflowRefused, threads, IInv, Types
  <2>3. QED
    BY <2>1, <2>2
<1>3. QED
  BY <1>1, <1>2, CallerStep, Zenon DEF Waits

LEMMA WokenStep ==
  ASSUME IInv, NEW c \in Caller, Woken(c)
  PROVE  IInv'
<1>1. /\ caller[c] = "await" /\ c \in fired
      /\ caller' = [caller EXCEPT ![c] = "recv"] /\ fired' = fired \ {c}
      /\ UNCHANGED <<pool, jobs, sent, worker, job>>
  BY DEF Woken, state, threads
<1>2. caller'[c] = "recv" /\ \A d \in Caller : d # c => caller'[d] = caller[d]
  BY <1>1 DEF IInv, Types
<1>3. Types'
  BY <1>1 DEF IInv, Types
<1>4. Started'
  BY <1>1 DEF IInv, Started
<1>5. c \notin Ids(jobs) /\ \A t \in Thread : worker[t] = "run" => job[t] # c
  BY <1>1 DEF IInv, Placed
<1>6. Ids(jobs) \subseteq Caller
  BY DEF IInv, Types, Ids
<1>7. Placed'
  BY <1>1, <1>2, <1>5, <1>6 DEF IInv, Types, Placed, Waits
<1>8. NoJobStranded'
  BY <1>1, <1>2 DEF IInv, NoJobStranded
<1>9. QED
  BY <1>3, <1>4, <1>7, <1>8 DEF IInv

LEMMA ReceiveStep ==
  ASSUME IInv, NEW c \in Caller, Receive(c)
  PROVE  IInv'
<1>1. /\ caller[c] = "recv" /\ sent[c] # "none"
      /\ caller' = [caller EXCEPT ![c] = "idle"]
      /\ UNCHANGED <<pool, jobs, sent, fired, worker, job>>
  BY DEF Receive, state, results, threads
<1>2. caller'[c] = "idle" /\ \A d \in Caller : d # c => caller'[d] = caller[d]
  BY <1>1 DEF IInv, Types
<1>3. Types'
  BY <1>1 DEF IInv, Types
<1>4. Started'
  BY <1>1, <1>2 DEF IInv, Started
<1>5. c \notin Ids(jobs) /\ c \notin fired /\ \A t \in Thread : worker[t] \in {"run", "drop"} => job[t] # c
  BY <1>1 DEF IInv, Placed, Waits
<1>6. Ids(jobs) \subseteq Caller
  BY DEF IInv, Types, Ids
<1>7. Placed'
  BY <1>1, <1>2, <1>5, <1>6 DEF IInv, Types, Placed, Waits
<1>8. NoJobStranded'
  BY <1>1, <1>2 DEF IInv, NoJobStranded
<1>9. QED
  BY <1>3, <1>4, <1>7, <1>8 DEF IInv

LEMMA TakeStep ==
  ASSUME IInv, NEW t \in Thread, Take(t)
  PROVE  IInv'
<1>1. /\ worker[t] = "pop" /\ jobs # <<>>
      /\ job' = [job EXCEPT ![t] = Head(jobs)] /\ jobs' = Tail(jobs)
      /\ worker' = [worker EXCEPT ![t] = "run"]
      /\ UNCHANGED <<pool, caller, sent, fired>>
  BY DEF Take, state, fibers, results
<1>2. /\ jobs' \in Seq(Caller) /\ Head(jobs) \in Caller /\ Head(jobs) \in Ids(jobs)
      /\ Ids(jobs') = Ids(jobs) \ {Head(jobs)} /\ Distinct(jobs')
  BY <1>1, TailId DEF IInv, Types, Placed
<1>3. /\ worker'[t] = "run" /\ job'[t] = Head(jobs)
      /\ \A u \in Thread : u # t => worker'[u] = worker[u] /\ job'[u] = job[u]
  BY <1>1 DEF IInv, Types
<1>4. Types'
  BY <1>1, <1>2 DEF IInv, Types
<1>5. Started'
  BY <1>1, <1>3 DEF IInv, Started, Thread
<1>6. \A u \in Thread : job[u] # Head(jobs)
  BY <1>2, PoolAssumption DEF IInv, Placed
<1>7. Placed'
  <2>1. \A d \in Ids(jobs') : caller'[d] \in Waits /\ d \notin fired' /\ sent'[d] = "none"
    BY <1>1, <1>2 DEF IInv, Placed
  <2>2. caller[Head(jobs)] \in Waits /\ Head(jobs) \notin fired /\ sent[Head(jobs)] = "none"
    BY <1>2 DEF IInv, Placed
  <2>3. \A u \in Thread : worker'[u] \in {"run", "drop"} => job'[u] \in Caller /\ job'[u] \notin Ids(jobs')
    BY <1>2, <1>3 DEF IInv, Placed
  <2>4. \A u, v \in Thread : job'[u] = job'[v] /\ job'[u] # None => u = v
    BY <1>3, <1>6 DEF IInv, Placed
  <2>5. QED
    BY <1>1, <1>2, <1>3, <2>1, <2>2, <2>3, <2>4 DEF IInv, Placed
<1>8. NoJobStranded'
  <2>1. CASE t \in Base
    BY <1>3, <2>1 DEF NoJobStranded
  <2>2. CASE t \notin Base
    BY <1>1, <1>3, <2>2 DEF IInv, NoJobStranded, Thread
  <2>3. QED
    BY <2>1, <2>2
<1>9. QED
  BY <1>4, <1>5, <1>7, <1>8 DEF IInv

\* A thread changes state and holds no job before or after.
LEMMA IdleThreadStep ==
  ASSUME IInv, NEW t \in Thread, NEW to,
         worker' = [worker EXCEPT ![t] = to],
         worker[t] \notin {"run", "drop"}, to \in {"none", "pop", "asleep", "leave"},
         t \in Base => to \in {"pop", "asleep"},
         to = "asleep" => jobs = <<>>,
         worker[t] \in {"pop", "ran"} /\ t \in Base => to = "pop" \/ jobs = <<>>,
         UNCHANGED <<pool, jobs, caller, sent, fired, job>>
  PROVE  IInv'
<1>1. worker'[t] = to /\ \A u \in Thread : u # t => worker'[u] = worker[u]
  BY DEF IInv, Types
<1>2. Types'
  BY DEF IInv, Types
<1>3. Started'
  BY <1>1 DEF IInv, Started, Thread
<1>4. Placed'
  BY <1>1 DEF IInv, Placed
<1>5. NoJobStranded'
  <2>1. CASE t \in Base
    BY <1>1, <2>1 DEF IInv, NoJobStranded, Thread
  <2>2. CASE t \notin Base
    BY <1>1, <2>2 DEF IInv, NoJobStranded, Thread
  <2>3. QED
    BY <2>1, <2>2
<1>6. QED
  BY <1>2, <1>3, <1>4, <1>5 DEF IInv

LEMMA RunStep ==
  ASSUME IInv, NEW t \in Thread, Run(t)
  PROVE  IInv'
<1>1. /\ worker[t] = "run" /\ fired' = fired \cup {job[t]}
      /\ UNCHANGED <<pool, jobs, caller>>
  BY DEF Run, state, fibers
<1>2. /\ job[t] \in Caller /\ job[t] \notin Ids(jobs) /\ caller[job[t]] \in Waits
      /\ sent[job[t]] = "none"
      /\ \A u \in Thread : u # t => job[u] # job[t]
  BY <1>1, PoolAssumption DEF IInv, Placed
<1>3. CASE /\ sent' = [sent EXCEPT ![job[t]] = "value"]
           /\ worker' = [worker EXCEPT ![t] = "ran"] /\ job' = [job EXCEPT ![t] = None]
  <2>1. /\ worker'[t] = "ran" /\ job'[t] = None
        /\ \A u \in Thread : u # t => worker'[u] = worker[u] /\ job'[u] = job[u]
        /\ \A c \in Caller : c # job[t] => sent'[c] = sent[c]
    BY <1>3 DEF IInv, Types
  <2>2. Types'
    BY <1>1, <1>2, <1>3 DEF IInv, Types
  <2>3. Started'
    BY <1>1, <2>1 DEF IInv, Started, Thread
  <2>4. Placed'
    <3>1. \A d \in Ids(jobs') : caller'[d] \in Waits /\ d \notin fired' /\ sent'[d] = "none"
      BY <1>1, <1>2, <2>1 DEF IInv, Placed, Types, Ids
    <3>2. \A u \in Thread : worker'[u] \in {"run", "drop"} =>
            /\ u # t /\ job[u] \in Caller /\ job[u] # job[t]
            /\ sent'[job[u]] = sent[job[u]] /\ job'[u] = job[u] /\ worker'[u] = worker[u]
      BY <1>2, <2>1 DEF IInv, Placed
    <3>3. \A u, v \in Thread : job'[u] = job'[v] /\ job'[u] # None => u = v
      BY <2>1 DEF IInv, Placed
    <3>4. \A c \in Caller : caller'[c] = "push" => sent'[c] = "none"
      BY <1>1, <1>2, <2>1 DEF IInv, Placed, Waits
    <3>5. \A u \in Thread : worker'[u] \notin {"run", "drop"} => job'[u] = None
      BY <2>1 DEF IInv, Placed
    <3>6. \A c \in fired' : caller'[c] \in Waits
      BY <1>1, <1>2 DEF IInv, Placed
    <3>7. QED
      BY <1>1, <3>1, <3>2, <3>3, <3>4, <3>5, <3>6 DEF IInv, Placed
  <2>5. NoJobStranded'
    BY <1>1, <2>1 DEF IInv, NoJobStranded, Thread
  <2>6. QED
    BY <2>2, <2>3, <2>4, <2>5 DEF IInv
<1>4. CASE worker' = [worker EXCEPT ![t] = "drop"] /\ UNCHANGED <<sent, job>>
  <2>1. worker'[t] = "drop" /\ \A u \in Thread : u # t => worker'[u] = worker[u]
    BY <1>4 DEF IInv, Types
  <2>2. Types'
    BY <1>1, <1>2, <1>4 DEF IInv, Types
  <2>3. Started'
    BY <1>1, <2>1 DEF IInv, Started, Thread
  <2>4. Placed'
    <3>1. \A d \in Ids(jobs') : caller'[d] \in Waits /\ d \notin fired' /\ sent'[d] = "none"
      BY <1>1, <1>2, <1>4 DEF IInv, Placed
    <3>2. \A u \in Thread : worker'[u] = "run" => job[u] \notin fired'
      BY <1>1, <1>2, <2>1 DEF IInv, Placed
    <3>3. QED
      BY <1>1, <1>2, <1>4, <2>1, <3>1, <3>2 DEF IInv, Placed
  <2>5. NoJobStranded'
    BY <1>1, <2>1 DEF IInv, NoJobStranded, Thread
  <2>6. QED
    BY <2>2, <2>3, <2>4, <2>5 DEF IInv
<1>5. QED
  BY <1>3, <1>4 DEF Run

LEMMA DropStep ==
  ASSUME IInv, NEW t \in Thread, Drop(t)
  PROVE  IInv'
<1>1. /\ worker[t] = "drop" /\ sent' = [sent EXCEPT ![job[t]] = "dropped"]
      /\ worker' = [worker EXCEPT ![t] = "ran"] /\ job' = [job EXCEPT ![t] = None]
      /\ UNCHANGED <<pool, jobs, caller, fired>>
  BY DEF Drop, state, fibers
<1>2. /\ job[t] \in Caller /\ job[t] \notin Ids(jobs) /\ caller[job[t]] \in Waits \cup {"recv"}
      /\ \A u \in Thread : u # t => job[u] # job[t]
  BY <1>1, PoolAssumption DEF IInv, Placed
<1>3. /\ worker'[t] = "ran" /\ job'[t] = None
      /\ \A u \in Thread : u # t => worker'[u] = worker[u] /\ job'[u] = job[u]
      /\ \A c \in Caller : c # job[t] => sent'[c] = sent[c]
  BY <1>1 DEF IInv, Types
<1>4. Types'
  BY <1>1, <1>2 DEF IInv, Types
<1>5. Started'
  BY <1>1, <1>3 DEF IInv, Started, Thread
<1>6. Placed'
  <2>1. \A d \in Ids(jobs') : caller'[d] \in Waits /\ d \notin fired' /\ sent'[d] = "none"
    BY <1>1, <1>2, <1>3 DEF IInv, Placed, Types, Ids
  <2>2. \A u \in Thread : worker'[u] \in {"run", "drop"} =>
          /\ u # t /\ job[u] \in Caller /\ job[u] # job[t]
          /\ sent'[job[u]] = sent[job[u]] /\ job'[u] = job[u] /\ worker'[u] = worker[u]
    BY <1>2, <1>3 DEF IInv, Placed
  <2>3. \A u, v \in Thread : job'[u] = job'[v] /\ job'[u] # None => u = v
    BY <1>3 DEF IInv, Placed
  <2>4. \A c \in Caller : caller'[c] = "push" => sent'[c] = "none"
    BY <1>1, <1>2, <1>3 DEF IInv, Placed, Waits
  <2>5. \A u \in Thread : worker'[u] \notin {"run", "drop"} => job'[u] = None
    BY <1>3 DEF IInv, Placed
  <2>6. QED
    BY <1>1, <2>1, <2>2, <2>3, <2>4, <2>5 DEF IInv, Placed
<1>7. NoJobStranded'
  BY <1>1, <1>3 DEF IInv, NoJobStranded, Thread
<1>8. QED
  BY <1>4, <1>5, <1>6, <1>7 DEF IInv

LEMMA ThreadStep ==
  ASSUME IInv, NEW t \in Thread, Step(t) \/ SpuriousWake(t)
  PROVE  IInv'
<1>1. CASE FindEmpty(t)
  <2> DEFINE to == IF t \in Base THEN "asleep" ELSE "leave"
  <2>1. /\ worker[t] = "pop" /\ jobs = <<>> /\ worker' = [worker EXCEPT ![t] = to]
        /\ UNCHANGED <<pool, jobs, caller, sent, fired, job>>
    BY <1>1 DEF FindEmpty, state, fibers, results
  <2>2. to \in {"asleep", "leave"} /\ (t \in Base => to = "asleep")
    OBVIOUS
  <2> HIDE DEF to
  <2>3. QED
    BY <2>1, <2>2, IdleThreadStep, Zenon
<1>2. CASE SpuriousWake(t)
  <2>1. /\ worker[t] = "asleep" /\ worker' = [worker EXCEPT ![t] = "pop"]
        /\ UNCHANGED <<pool, jobs, caller, sent, fired, job>>
    BY <1>2 DEF SpuriousWake, state, fibers, results
  <2>2. QED
    BY <2>1, IdleThreadStep, Zenon
<1>3. CASE Uncount(t)
  <2>1. /\ worker[t] = "ran" /\ worker' = [worker EXCEPT ![t] = "pop"]
        /\ UNCHANGED <<pool, jobs, caller, sent, fired, job>>
    BY <1>3 DEF Uncount, fibers, results
  <2>2. QED
    BY <2>1, IdleThreadStep, Zenon
<1>4. CASE Leave(t)
  <2>1. /\ worker[t] = "leave" /\ worker' = [worker EXCEPT ![t] = "none"]
        /\ UNCHANGED <<pool, jobs, caller, sent, fired, job>>
    BY <1>4 DEF Leave, fibers, results
  <2>2. t \notin Base
    BY <2>1 DEF IInv, Started
  <2>3. QED
    BY <2>1, <2>2, IdleThreadStep, Zenon
<1>5. QED
  BY <1>1, <1>2, <1>3, <1>4, TakeStep, RunStep, DropStep DEF Step

LEMMA SameStep ==
  ASSUME IInv, UNCHANGED <<pool, jobs, caller, sent, fired, worker, job>>
  PROVE  IInv'
<1>1. Types'
  BY DEF IInv, Types
<1>2. Started'
  BY DEF IInv, Started
<1>3. Placed'
  BY DEF IInv, Placed
<1>4. NoJobStranded'
  BY DEF IInv, NoJobStranded
<1>5. QED
  BY <1>1, <1>2, <1>3, <1>4 DEF IInv

LEMMA Start == Init => IInv
<1> SUFFICES ASSUME Init PROVE IInv
  OBVIOUS
<1>1. Types
  <2>1. jobs \in Seq(Caller)
    BY DEF Init
  <2>2. /\ caller \in [Caller -> {"idle", "push", "notify", "grow", "await", "recv"}]
        /\ sent \in [Caller -> {"none", "value", "dropped"}]
        /\ fired \subseteq Caller
    BY DEF Init
  <2>3. worker \in [Thread -> {"none", "pop", "asleep", "run", "drop", "ran", "leave"}]
    BY DEF Init
  <2>4. job \in [Thread -> Caller \cup {None}]
    BY DEF Init
  <2>5. QED
    BY <2>1, <2>2, <2>3, <2>4 DEF Types
<1>2. Started
  BY DEF Init, Started, Thread
<1>3. Placed
  <2>1. Ids(jobs) = {} /\ Distinct(jobs)
    BY DEF Init, Ids, Distinct
  <2>2. QED
    BY <2>1 DEF Init, Placed
<1>4. NoJobStranded
  BY DEF Init, NoJobStranded
<1>5. QED
  BY <1>1, <1>2, <1>3, <1>4 DEF IInv

(***************************************************************************)
(* The inductive invariant holds on every behaviour of the pool.           *)
(***************************************************************************)
THEOREM Invariance == Spec => []IInv
<1>1. IInv /\ [Next]_vars => IInv'
  <2> SUFFICES ASSUME IInv, [Next]_vars PROVE IInv'
    OBVIOUS
  <2>1. CASE (\E c \in Caller : CallRefused(c)) \/ UNCHANGED vars
    <3>1. UNCHANGED <<pool, jobs, caller, sent, fired, worker, job>>
      BY <2>1 DEF CallRefused, vars, state, fibers, results, threads
    <3>2. QED
      BY <3>1, SameStep
  <2>2. ASSUME NEW c \in Caller, Count(c) \/ Submit(c) PROVE IInv'
    BY <2>2, CountStep, PushStep, NotifyStep, GrowStep, WokenStep, ReceiveStep DEF Submit
  <2>3. QED
    BY <2>1, <2>2, StartStep, ThreadStep DEF Next
<1>2. QED
  BY <1>1, Start, PTL DEF Spec

(***************************************************************************)
(* push notifies after it released the queue's lock, and one waiter only:  *)
(* still, whatever the number of callers, base and overflow threads, a     *)
(* queued job has a base thread awake or a notification on its way.        *)
(***************************************************************************)
THEOREM NoLostWakeup == Spec => []NoJobStranded
<1>1. IInv => NoJobStranded
  BY DEF IInv
<1>2. QED
  BY <1>1, Invariance, PTL

(***************************************************************************)
(* A caller that makes one call after another is answered by the job of    *)
(* the call it is in: no token or value of an earlier call is left over,   *)
(* and no two threads hold the same job.                                   *)
(***************************************************************************)
THEOREM OwnAnswer == Spec => []AnswersOwnCall
<1>1. IInv => AnswersOwnCall
  <2> SUFFICES ASSUME IInv PROVE AnswersOwnCall
    OBVIOUS
  <2>1. \A c \in Caller : caller[c] = "push" => c \notin fired /\ sent[c] = "none"
    BY DEF IInv, Placed, Waits
  <2>2. \A i \in DOMAIN jobs : jobs[i] \notin fired /\ sent[jobs[i]] = "none"
    BY DEF IInv, Placed, Ids
  <2>3. \A t, u \in Thread : job[t] = job[u] /\ job[t] # None => t = u
    BY DEF IInv, Placed
  <2>4. QED
    BY <2>1, <2>2, <2>3 DEF AnswersOwnCall
<1>2. QED
  BY <1>1, Invariance, PTL

=============================================================================
