--------------------------- MODULE BlockingPool ---------------------------
(***************************************************************************)
(* quilon-rt's blocking.rs: fibers hand calls with no non-blocking form to *)
(* a pool of threads.  Base threads live as long as the process; overflow  *)
(* threads are added while more jobs are in flight than threads, and leave *)
(* when they find the queue empty.                                         *)
(*                                                                         *)
(* A job is named by the caller waiting for it.  The steps between two     *)
(* lock acquisitions are separate actions.                                 *)
(***************************************************************************)
EXTENDS Naturals, Sequences, FiniteSets

CONSTANTS
  Caller,       \* fibers, each on a worker of its own
  Base,         \* the base threads
  Overflow,     \* slots for overflow threads
  Ceiling,      \* BLOCKING_POOL_CEILING
  MaxCalls      \* bound: calls made by the program

None == "none"
Thread == Base \cup Overflow

ASSUME PoolAssumption ==
  /\ Base # {} /\ Base \cap Overflow = {}
  /\ Ceiling \in Nat /\ MaxCalls \in Nat
  /\ None \notin Caller

VARIABLES
  pool,         \* the OnceLock: "absent", "ready" or "refused"
  inFlight,     \* PoolState::in_flight
  totalThreads, \* PoolState::total_threads
  jobs,         \* the job queue
  caller,       \* per caller: where it is in run_blocking
  grow,         \* per caller: submit's decision
  sent,         \* per caller: "none", "value", or "dropped" (the sender is gone)
  fired,        \* callers whose reactor token was completed
  worker,       \* per thread: where it is in run_worker
  job,          \* per thread: the job it holds
  calls         \* calls made so far

state == <<pool, inFlight, totalThreads>>
fibers == <<caller, grow>>
results == <<sent, fired>>
threads == <<worker, job>>
vars == <<state, jobs, fibers, results, threads, calls>>

Init ==
  /\ pool = "absent" /\ inFlight = 0 /\ totalThreads = 0
  /\ jobs = <<>>
  /\ caller = [c \in Caller |-> "idle"]
  /\ grow = [c \in Caller |-> FALSE]
  /\ sent = [c \in Caller |-> "none"] /\ fired = {}
  /\ worker = [t \in Thread |-> "none"]
  /\ job = [t \in Thread |-> None]
  /\ calls = 0

-----------------------------------------------------------------------------
(***************************************************************************)
(* The caller                                                              *)
(***************************************************************************)

(***************************************************************************)
(* start_blocking_pool, inside get_or_init: base threads are spawned one   *)
(* by one until all run or one is refused; the outcome is kept for good.   *)
(***************************************************************************)
StartPool ==
  /\ pool = "absent"
  /\ \E started \in SUBSET Base :
       /\ pool' = IF started = Base THEN "ready" ELSE "refused"
       /\ totalThreads' = Cardinality(started)
       /\ worker' = [t \in Thread |-> IF t \in started THEN "pop" ELSE "none"]
  /\ UNCHANGED <<inFlight, jobs, fibers, results, job, calls>>

\* run_blocking on a pool that could not start: an Err, nothing queued.
CallRefused(c) ==
  /\ caller[c] = "idle" /\ pool = "refused" /\ calls < MaxCalls
  /\ calls' = calls + 1
  /\ UNCHANGED <<state, jobs, fibers, results, threads>>

\* Wrong variants of Count: one more thread is allowed; the channel of the
\* caller's previous call is used again.
CountPastCeiling(c) ==
  /\ caller[c] = "idle" /\ pool = "ready" /\ calls < MaxCalls
  /\ calls' = calls + 1
  /\ sent' = [sent EXCEPT ![c] = "none"]
  /\ inFlight' = inFlight + 1
  /\ grow' = [grow EXCEPT ![c] = inFlight' > totalThreads /\ totalThreads <= Ceiling]
  /\ totalThreads' = IF grow'[c] THEN totalThreads + 1 ELSE totalThreads
  /\ caller' = [caller EXCEPT ![c] = "push"]
  /\ UNCHANGED <<pool, jobs, fired, threads>>

CountKeepsAnswer(c) ==
  /\ caller[c] = "idle" /\ pool = "ready" /\ calls < MaxCalls
  /\ calls' = calls + 1
  /\ inFlight' = inFlight + 1
  /\ grow' = [grow EXCEPT ![c] = inFlight' > totalThreads /\ totalThreads < Ceiling]
  /\ totalThreads' = IF grow'[c] THEN totalThreads + 1 ELSE totalThreads
  /\ caller' = [caller EXCEPT ![c] = "push"]
  /\ UNCHANGED <<pool, jobs, results, threads>>

\* submit, under the state lock: count the job and decide whether to grow.
Count(c) ==
  /\ caller[c] = "idle" /\ pool = "ready" /\ calls < MaxCalls
  /\ calls' = calls + 1
  /\ sent' = [sent EXCEPT ![c] = "none"]
  /\ inFlight' = inFlight + 1
  /\ grow' = [grow EXCEPT ![c] = inFlight' > totalThreads /\ totalThreads < Ceiling]
  /\ totalThreads' = IF grow'[c] THEN totalThreads + 1 ELSE totalThreads
  /\ caller' = [caller EXCEPT ![c] = "push"]
  /\ UNCHANGED <<pool, jobs, fired, threads>>

\* JobQueue::push, under the queue lock; the notification comes after it.
Push(c) ==
  /\ caller[c] = "push"
  /\ jobs' = Append(jobs, c)
  /\ caller' = [caller EXCEPT ![c] = "notify"]
  /\ UNCHANGED <<state, grow, results, threads, calls>>

\* A wrong push that notifies only when its job is alone in the queue.
NotifyOnlyFirst(c) ==
  /\ caller[c] = "notify"
  /\ IF Len(jobs) = 1 /\ \E t \in Base : worker[t] = "asleep"
     THEN \E t \in Base : worker[t] = "asleep" /\ worker' = [worker EXCEPT ![t] = "pop"]
     ELSE worker' = worker
  /\ caller' = [caller EXCEPT ![c] = IF grow[c] THEN "grow" ELSE "await"]
  /\ UNCHANGED <<state, jobs, grow, results, job, calls>>

\* notify_one: one of the base threads waiting on the condvar, if any.
Notify(c) ==
  /\ caller[c] = "notify"
  /\ IF \E t \in Base : worker[t] = "asleep"
     THEN \E t \in Base : worker[t] = "asleep" /\ worker' = [worker EXCEPT ![t] = "pop"]
     ELSE worker' = worker
  /\ caller' = [caller EXCEPT ![c] = IF grow[c] THEN "grow" ELSE "await"]
  /\ UNCHANGED <<state, jobs, grow, results, job, calls>>

\* submit's overflow thread; a refused one is uncounted.
SpawnOverflow(c) ==
  /\ caller[c] = "grow"
  /\ \E t \in Overflow : worker[t] = "none" /\ worker' = [worker EXCEPT ![t] = "pop"]
  /\ grow' = [grow EXCEPT ![c] = FALSE]
  /\ caller' = [caller EXCEPT ![c] = "await"]
  /\ UNCHANGED <<state, jobs, results, job, calls>>

OverflowRefused(c) ==
  /\ caller[c] = "grow"
  /\ totalThreads' = totalThreads - 1
  /\ grow' = [grow EXCEPT ![c] = FALSE]
  /\ caller' = [caller EXCEPT ![c] = "await"]
  /\ UNCHANGED <<pool, inFlight, jobs, results, threads, calls>>

\* The fiber parked on its token is woken once the token is completed.
Woken(c) ==
  /\ caller[c] = "await" /\ c \in fired
  /\ fired' = fired \ {c}
  /\ caller' = [caller EXCEPT ![c] = "recv"]
  /\ UNCHANGED <<state, jobs, grow, sent, threads, calls>>

\* recv: the value, or an Err once the sender was dropped without one.
Receive(c) ==
  /\ caller[c] = "recv" /\ sent[c] # "none"
  /\ caller' = [caller EXCEPT ![c] = "idle"]
  /\ UNCHANGED <<state, jobs, grow, results, threads, calls>>

-----------------------------------------------------------------------------
(***************************************************************************)
(* The threads                                                             *)
(***************************************************************************)

\* pop_blocking and pop_nonblocking on a queue that has a job.
Take(t) ==
  /\ worker[t] = "pop" /\ jobs # <<>>
  /\ job' = [job EXCEPT ![t] = Head(jobs)]
  /\ jobs' = Tail(jobs)
  /\ worker' = [worker EXCEPT ![t] = "run"]
  /\ UNCHANGED <<state, fibers, results, calls>>

\* On an empty queue a base thread waits on the condvar, giving up the lock
\* as it does, and an overflow thread leaves its loop.
FindEmpty(t) ==
  /\ worker[t] = "pop" /\ jobs = <<>>
  /\ worker' = [worker EXCEPT ![t] = IF t \in Base THEN "asleep" ELSE "leave"]
  /\ UNCHANGED <<state, jobs, fibers, results, job, calls>>

\* Condvar::wait may return on its own; the loop looks again.
SpuriousWake(t) ==
  /\ worker[t] = "asleep"
  /\ worker' = [worker EXCEPT ![t] = "pop"]
  /\ UNCHANGED <<state, jobs, fibers, results, job, calls>>

\* A wrong job that completes its token only when it has a value to send.
RunWithoutCatch(t) ==
  /\ worker[t] = "run"
  /\ \/ /\ sent' = [sent EXCEPT ![job[t]] = "value"]
        /\ fired' = fired \cup {job[t]}
        /\ worker' = [worker EXCEPT ![t] = "ran"] /\ job' = [job EXCEPT ![t] = None]
     \/ /\ worker' = [worker EXCEPT ![t] = "drop"]
        /\ UNCHANGED <<results, job>>
  /\ UNCHANGED <<state, jobs, fibers, calls>>

(***************************************************************************)
(* The boxed job: a value is sent unless the call panicked; either way the *)
(* token is completed.  The sender goes with the box afterwards, which     *)
(* tells the caller something only if nothing was sent.                    *)
(***************************************************************************)
Run(t) ==
  /\ worker[t] = "run"
  /\ fired' = fired \cup {job[t]}
  /\ \/ /\ sent' = [sent EXCEPT ![job[t]] = "value"]
        /\ worker' = [worker EXCEPT ![t] = "ran"] /\ job' = [job EXCEPT ![t] = None]
     \/ /\ worker' = [worker EXCEPT ![t] = "drop"]
        /\ UNCHANGED <<sent, job>>
  /\ UNCHANGED <<state, jobs, fibers, calls>>

Drop(t) ==
  /\ worker[t] = "drop"
  /\ sent' = [sent EXCEPT ![job[t]] = "dropped"]
  /\ worker' = [worker EXCEPT ![t] = "ran"]
  /\ job' = [job EXCEPT ![t] = None]
  /\ UNCHANGED <<state, jobs, fibers, fired, calls>>

\* A wrong worker that uncounts the job twice.
UncountTwice(t) ==
  /\ worker[t] = "ran"
  /\ inFlight' = inFlight - 2
  /\ worker' = [worker EXCEPT ![t] = "pop"]
  /\ UNCHANGED <<pool, totalThreads, jobs, fibers, results, job, calls>>

Uncount(t) ==
  /\ worker[t] = "ran"
  /\ inFlight' = inFlight - 1
  /\ worker' = [worker EXCEPT ![t] = "pop"]
  /\ UNCHANGED <<pool, totalThreads, jobs, fibers, results, job, calls>>

\* A wrong exit that leaves the thread counted.
LeaveKeepsCount(t) ==
  /\ worker[t] = "leave"
  /\ worker' = [worker EXCEPT ![t] = "none"]
  /\ UNCHANGED <<state, jobs, fibers, results, job, calls>>

\* The overflow thread uncounts itself and ends.
Leave(t) ==
  /\ worker[t] = "leave"
  /\ totalThreads' = totalThreads - 1
  /\ worker' = [worker EXCEPT ![t] = "none"]
  /\ UNCHANGED <<pool, inFlight, jobs, fibers, results, job, calls>>

-----------------------------------------------------------------------------
Submit(c) ==
  \/ Push(c)
  \/ Notify(c)
  \/ SpawnOverflow(c)
  \/ OverflowRefused(c)
  \/ Woken(c)
  \/ Receive(c)

Step(t) ==
  \/ Take(t)
  \/ FindEmpty(t)
  \/ Run(t)
  \/ Drop(t)
  \/ Uncount(t)
  \/ Leave(t)

Next ==
  \/ StartPool
  \/ \E c \in Caller : CallRefused(c) \/ Count(c) \/ Submit(c)
  \/ \E t \in Thread : Step(t) \/ SpuriousWake(t)

(***************************************************************************)
(* A fiber that started a call goes on with it, and a pool thread keeps    *)
(* running: the calls it is given (getaddrinfo) return.                    *)
(***************************************************************************)
Spec ==
  /\ Init /\ [][Next]_vars
  /\ \A c \in Caller : WF_vars(Submit(c))
  /\ \A t \in Thread : WF_vars(Step(t))

-----------------------------------------------------------------------------
TypeOK ==
  /\ pool \in {"absent", "ready", "refused"}
  /\ inFlight \in Nat /\ totalThreads \in Nat
  /\ jobs \in Seq(Caller)
  /\ caller \in [Caller -> {"idle", "push", "notify", "grow", "await", "recv"}]
  /\ grow \in [Caller -> BOOLEAN]
  /\ sent \in [Caller -> {"none", "value", "dropped"}]
  /\ fired \subseteq Caller
  /\ worker \in [Thread -> {"none", "pop", "asleep", "run", "drop", "ran", "leave"}]
  /\ job \in [Thread -> Caller \cup {None}]
  /\ calls \in 0 .. MaxCalls

(***************************************************************************)
(* The two counters, each changed under its lock at a different moment     *)
(* from the thing it counts, are never off: total_threads counts the       *)
(* threads that live or are about to, in_flight the jobs submitted and not *)
(* uncounted, so neither decrement underflows and the pool never has more  *)
(* than BLOCKING_POOL_CEILING threads.                                     *)
(***************************************************************************)
CountersAgree ==
  /\ totalThreads = Cardinality({t \in Thread : worker[t] # "none"}) + Cardinality({c \in Caller : grow[c]})
  /\ inFlight = Len(jobs) + Cardinality({c \in Caller : caller[c] = "push"})
                + Cardinality({t \in Thread : worker[t] \in {"run", "drop", "ran"}})
  /\ totalThreads <= Ceiling

(***************************************************************************)
(* No wakeup is lost: push notifies one waiter, after it released the      *)
(* queue's lock, whoever else takes the job in between.  A queued job      *)
(* always has a base thread awake, or a notification on its way.           *)
(***************************************************************************)
NoJobStranded ==
  jobs # <<>> =>
    \/ \E t \in Base : worker[t] \in {"pop", "run", "drop", "ran"}
    \/ \E c \in Caller : caller[c] = "notify"

(***************************************************************************)
(* A result belongs to the call it answers: while a caller has not got as  *)
(* far as awaiting its job, or its job is queued, nothing left over from   *)
(* an earlier call can answer it.                                          *)
(***************************************************************************)
AnswersOwnCall ==
  /\ \A c \in Caller : caller[c] = "push" => c \notin fired /\ sent[c] = "none"
  /\ \A i \in DOMAIN jobs : jobs[i] \notin fired /\ sent[jobs[i]] = "none"
  /\ \A t, u \in Thread : job[t] = job[u] /\ job[t] # None => t = u

\* Every call returns, with a value, an Err for a panic, or an Err for a
\* pool that could not start: the parked fiber is never left stuck.
CallsReturn ==
  \A c \in Caller : caller[c] # "idle" ~> caller[c] = "idle"

(***************************************************************************)
(* "the pool shrinks back to its base once a burst of concurrent calls     *)
(* drains": with no more calls made, the overflow threads are gone.        *)
(***************************************************************************)
ShrinksToBase ==
  pool = "ready" ~> [](calls = MaxCalls => <>(totalThreads = Cardinality(Base)))

(***************************************************************************)
(* "some job, this one or an earlier one, has no thread that could         *)
(* possibly be running it yet" is when submit grows the pool: if it does   *)
(* not, and there is room, every job in flight has a thread that can run   *)
(* it.                                                                     *)
(***************************************************************************)
GrowsForEveryJob ==
  [][\A c \in Caller :
       caller[c] = "idle" /\ caller'[c] = "push" /\ ~ grow'[c] /\ totalThreads < Ceiling =>
         inFlight' <= Cardinality({t \in Thread : worker[t] \notin {"none", "leave"}})
                      + Cardinality({d \in Caller : grow[d]})]_vars

=============================================================================
