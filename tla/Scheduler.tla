----------------------------- MODULE Scheduler -----------------------------
(***************************************************************************)
(* One worker of quilon-rt's scheduler.rs: the slab of fibers, the ready   *)
(* queue, the three kinds of park, the reactor wait, and the nested fibers *)
(* that guard a test case (run_case_guarded) or a trapped fault            *)
(* (run_fault_guarded).  It is the leader's loop, run alone.               *)
(*                                                                         *)
(* A guarded fiber is resumed by its guard, not by the ready queue: its    *)
(* parks are forwarded to the fiber around it, so the fiber the ready      *)
(* queue knows carries a stack of guards.                                  *)
(***************************************************************************)
EXTENDS Naturals, Sequences, FiniteSets, Queues

CONSTANTS
  MaxTokens,    \* bound: reactor tokens handed out
  MaxTime,      \* bound: ticks of the clock
  MaxSpawns,    \* bound: fibers spawned or placed by the program
  MaxGuards,    \* bound: guards entered by the program
  Foreign       \* whether the program's cases have an `expect` in a handler
                \* they install or in an aborts() lambda

ASSUME SchedulerAssumption ==
  /\ {MaxTokens, MaxTime, MaxSpawns, MaxGuards} \subseteq Nat
  /\ Foreign \in BOOLEAN

Fiber == 1 .. 1 + MaxSpawns + MaxGuards
Token == 1 .. MaxTokens
NoFiber == 0

VARIABLES
  slots,        \* length of the slab `fibers`
  present,      \* the ids whose slot holds a fiber
  free,         \* the free list, a stack
  ready,        \* the ready queue
  timers,       \* parked on sleep: [at, id]
  waiters,      \* readiness_waiters: who waits on a token, or NoFiber
  deadlines,    \* readiness_deadlines: [at, token, id]
  background,   \* background_tokens
  current,      \* the bottom of running_fibers; its guards are the rest
  guards,       \* per fiber of the ready queue: its guarded fibers, [id, kind]
  yielder,      \* current_yielder: the fiber it belongs to
  trapDepth,    \* abort_trap_depth
  registered,   \* the ids whose stack the collector scans
  cased,        \* per fiber: whether its code stands inside an `it` case
  inbox,        \* jobs placed on this worker: each is its fiber's `cased`
  nextToken,    \* tokens handed out so far
  events,       \* tokens fired and not yet collected; 0 is the inbox token
  fired,        \* tokens collected by the reactor wait in progress
  now,          \* the clock
  phase,        \* where in the worker's loop it is
  spawned,      \* fibers spawned or placed so far
  guarded       \* guards entered so far

slab == <<slots, present, free>>
parked == <<timers, waiters, deadlines>>
reactor == <<background, nextToken, events, fired, now>>
nesting == <<current, guards, yielder, trapDepth>>
work == <<inbox, cased, spawned, guarded>>
vars == <<slab, ready, parked, reactor, nesting, registered, work, phase>>

(***************************************************************************)
(* run_leader installs `^` as the first fiber before it enters its loop.   *)
(***************************************************************************)
Init ==
  /\ slots = 1 /\ present = {1} /\ free = <<>>
  /\ ready = <<1>>
  /\ timers = {} /\ deadlines = {}
  /\ waiters = [t \in Token |-> NoFiber]
  /\ background = {}
  /\ current = NoFiber /\ yielder = NoFiber /\ trapDepth = 0
  /\ guards = [f \in Fiber |-> <<>>]
  /\ registered = {1}
  /\ cased = [f \in Fiber |-> FALSE]
  /\ inbox = <<>>
  /\ nextToken = 0 /\ events = {} /\ fired = {}
  /\ now = 0
  /\ phase = "drain"
  /\ spawned = 0 /\ guarded = 0

-----------------------------------------------------------------------------
(***************************************************************************)
(* The slab                                                                *)
(***************************************************************************)

\* reserve_id: the id it hands out, and what it does to the slab.
NextId == IF free # <<>> THEN free[Len(free)] ELSE slots + 1
ReserveId ==
  IF free # <<>>
  THEN free' = SubSeq(free, 1, Len(free) - 1) /\ slots' = slots
  ELSE slots' = slots + 1 /\ free' = free

\* install_fiber: a fresh fiber takes a slot and joins the ready queue.
InstallFiber(inCase) ==
  /\ ReserveId
  /\ present' = present \cup {NextId}
  /\ ready' = Append(ready, NextId)
  /\ registered' = registered \cup {NextId}
  /\ cased' = [cased EXCEPT ![NextId] = inCase]

-----------------------------------------------------------------------------
(***************************************************************************)
(* The fiber that is running                                               *)
(***************************************************************************)
Executing == phase = "run" /\ current # NoFiber
Traps(f) == Cardinality({i \in DOMAIN guards[f] : guards[f][i].kind = "trap"})
InCase == cased[current] \/ \E i \in DOMAIN guards[current] : guards[current][i].kind = "case"

\* The fiber a guard stack g on top of fiber f leaves running.
Innermost(f, g) == IF g = <<>> THEN f ELSE g[Len(g)].id

(***************************************************************************)
(* run_ready_queue: take the next fiber out of the slab and resume it.     *)
(* Every guard on its stack resumes the one inside it in turn, raising the *)
(* trap depth if it guards faults; the innermost, resumed last, is the one *)
(* that leaves its yielder in the worker's cell.                           *)
(***************************************************************************)
Resume ==
  /\ phase = "run" /\ current = NoFiber /\ ready # <<>>
  /\ current' = Head(ready)
  /\ ready' = Tail(ready)
  /\ present' = present \ {current'}
  /\ phase' = IF current' \in present THEN "run" ELSE "panicked"
  /\ yielder' = Innermost(current', guards[current'])
  /\ trapDepth' = trapDepth + Traps(current')
  /\ UNCHANGED <<slots, free, parked, reactor, guards, registered, work>>

\* spawn: a child on this worker.
Spawn ==
  /\ Executing
  /\ spawned < MaxSpawns
  /\ InstallFiber(FALSE)
  /\ spawned' = spawned + 1
  /\ UNCHANGED <<parked, reactor, nesting, inbox, guarded, phase>>

(***************************************************************************)
(* spawn_placed with this worker the shortest queue: the fiber is          *)
(* installed when the loop next drains the inbox.  It runs either runtime  *)
(* code only (a launch's producer) or a server handler, a closure of the   *)
(* code that called @tcpServe (the accept loop between the two is left     *)
(* out).                                                                   *)
(***************************************************************************)
SpawnPlaced(handler) ==
  /\ Executing
  /\ spawned < MaxSpawns
  /\ inbox' = Append(inbox, handler /\ InCase)
  /\ events' = events \cup {0}
  /\ spawned' = spawned + 1
  /\ UNCHANGED <<slab, ready, parked, background, nextToken, fired, now, nesting,
                 registered, cased, guarded, phase>>

\* run_case_guarded and run_fault_guarded, up to the guarded fiber's first
\* instruction.
EnterGuard(kind) ==
  /\ Executing
  /\ guarded < MaxGuards
  /\ kind = "case" => Traps(current) = 0
  /\ ReserveId
  /\ registered' = registered \cup {NextId}
  /\ guards' = [guards EXCEPT ![current] = Append(@, [id |-> NextId, kind |-> kind])]
  /\ yielder' = NextId
  /\ trapDepth' = IF kind = "trap" THEN trapDepth + 1 ELSE trapDepth
  /\ guarded' = guarded + 1
  /\ UNCHANGED <<present, ready, parked, reactor, current, inbox, cased, spawned, phase>>


EndGuardKeepsId(i) ==
  /\ guards' = [guards EXCEPT ![current] = SubSeq(@, 1, i - 1)]
  /\ trapDepth' = trapDepth - Traps(current) + Cardinality({j \in 1 .. i - 1 : guards[current][j].kind = "trap"})
  /\ yielder' = Innermost(current, SubSeq(guards[current], 1, i - 1))
  /\ registered' = registered \ {guards[current][i].id}
  /\ UNCHANGED <<slots, free, present, ready, parked, reactor, current, work, phase>>


(***************************************************************************)
(* The guard at position i of the running fiber's stack ends: the fibers   *)
(* inside it, if any, are abandoned with it; its own id is unregistered    *)
(* and released; the yielder cell is put back to the fiber around it.      *)
(***************************************************************************)
EndGuard(i) ==
  /\ guards' = [guards EXCEPT ![current] = SubSeq(@, 1, i - 1)]
  /\ trapDepth' =
       trapDepth - Cardinality({j \in i .. Len(guards[current]) : guards[current][j].kind = "trap"})
  /\ yielder' = Innermost(current, SubSeq(guards[current], 1, i - 1))
  /\ registered' = registered \ {guards[current][i].id}
  /\ free' = Append(free, guards[current][i].id)
  /\ UNCHANGED <<slots, present, ready, parked, reactor, current, work, phase>>

\* The innermost guarded fiber's body returns.
LeaveGuard ==
  /\ Executing
  /\ guards[current] # <<>>
  /\ EndGuard(Len(guards[current]))

\* The guard at position i is the innermost of its kind.
Catches(i, kind) ==
  /\ guards[current][i].kind = kind
  /\ \A j \in i + 1 .. Len(guards[current]) : guards[current][j].kind # kind

\* A marker no guard took reaches run_ready_queue, whose match says
\* unreachable!.
Escape ==
  /\ phase' = "panicked"
  /\ UNCHANGED <<slab, ready, parked, reactor, nesting, registered, work>>

\* The marker travels outward to the innermost guard of its kind, if any.
Caught(kind) ==
  \/ \E i \in DOMAIN guards[current] : Catches(i, kind) /\ EndGuard(i)
  \/ (\A i \in DOMAIN guards[current] : guards[current][i].kind # kind) /\ Escape

(***************************************************************************)
(* __expect_failed: the innermost running fiber yields CaseAborted.  Every *)
(* guard that is not a case's forwards it outward like any park.           *)
(***************************************************************************)
ExpectFails ==
  /\ Executing
  /\ InCase
  /\ Foreign \/ (guards[current] # <<>> /\ Catches(Len(guards[current]), "case"))
  /\ Caught("case")

(***************************************************************************)
(* fail_at and __exit: with a trap active on this thread the innermost     *)
(* fiber yields AbortTrapped, otherwise the process exits.                 *)
(***************************************************************************)
Fault ==
  /\ Executing
  /\ IF trapDepth = 0
     THEN /\ phase' = "exited"
          /\ UNCHANGED <<slab, ready, parked, reactor, nesting, registered, work>>
     ELSE Caught("trap")

-----------------------------------------------------------------------------
\* Wrong variants of Suspend: the trap depth is not lowered on the way out;
\* it is lowered by the case guards too.
SuspendKeepsDepth ==
  /\ Executing
  /\ present' = present \cup {current}
  /\ current' = NoFiber
  /\ UNCHANGED <<slots, free, ready, guards, yielder, trapDepth, registered, work, phase>>

SuspendLowersForCases ==
  /\ Executing
  /\ present' = present \cup {current}
  /\ current' = NoFiber
  /\ trapDepth' = trapDepth - Len(guards[current])
  /\ UNCHANGED <<slots, free, ready, guards, yielder, registered, work, phase>>

(***************************************************************************)
(* Parks.  The park travels outward through every guard to the ready-queue *)
(* fiber, each fault guard lowering the trap depth on the way.             *)
(***************************************************************************)
Suspend ==
  /\ Executing
  /\ present' = present \cup {current}
  /\ current' = NoFiber
  /\ trapDepth' = trapDepth - Traps(current)
  /\ UNCHANGED <<slots, free, ready, guards, yielder, registered, work, phase>>

\* A token to park on: one handed out earlier that nobody waits on (its
\* source has one owner at a time), or a fresh one.
Parkable(t) == t <= nextToken + 1 /\ waiters[t] = NoFiber
HandOut(t) == nextToken' = IF t > nextToken THEN t ELSE nextToken

Sleep(at) ==
  /\ Suspend
  /\ at >= now
  /\ timers' = timers \cup {[at |-> at, id |-> current]}
  /\ UNCHANGED <<waiters, deadlines, reactor>>

ParkOnReadiness(t) ==
  /\ Suspend
  /\ Parkable(t) /\ HandOut(t)
  /\ waiters' = [waiters EXCEPT ![t] = current]
  /\ UNCHANGED <<timers, deadlines, background, events, fired, now>>

ParkOnReadinessOrDeadline(t, at) ==
  /\ Suspend
  /\ at >= now
  /\ Parkable(t) /\ HandOut(t)
  /\ waiters' = [waiters EXCEPT ![t] = current]
  /\ deadlines' = deadlines \cup {[at |-> at, token |-> t, id |-> current]}
  /\ UNCHANGED <<timers, background, events, fired, now>>

\* The signal-trap dispatcher marks the fresh token it will park on.
MarkBackground ==
  /\ Executing
  /\ nextToken < MaxTokens
  /\ nextToken' = nextToken + 1
  /\ background' = background \cup {nextToken'}
  /\ UNCHANGED <<slab, ready, parked, events, fired, now, nesting, registered, work, phase>>

\* The body of a ready-queue fiber returns: its slot goes on the free list.
Finish ==
  /\ Executing
  /\ guards[current] = <<>>
  /\ current' = NoFiber
  /\ registered' = registered \ {current}
  /\ free' = Append(free, current)
  /\ UNCHANGED <<slots, present, ready, parked, reactor, guards, yielder, trapDepth, work, phase>>

Park ==
  \/ \E at \in 0 .. MaxTime : Sleep(at)
  \/ \E t \in Token : ParkOnReadiness(t)
  \/ \E t \in Token, at \in 0 .. MaxTime : ParkOnReadinessOrDeadline(t, at)

-----------------------------------------------------------------------------
(***************************************************************************)
(* The worker's loop                                                       *)
(***************************************************************************)

\* drain_inbox: install every placed fiber.
DrainInbox ==
  /\ phase = "drain"
  /\ IF inbox = <<>>
     THEN phase' = "run" /\ UNCHANGED <<slab, ready, registered, cased, inbox>>
     ELSE InstallFiber(Head(inbox)) /\ inbox' = Tail(inbox) /\ phase' = phase
  /\ UNCHANGED <<parked, reactor, nesting, spawned, guarded>>

PendingDeadlines == {e.at : e \in timers} \cup {e.at : e \in deadlines}

\* A wrong idle_wait_plan that looks at the readiness waits only.
PlanForgetsTimers ==
  /\ phase = "run" /\ current = NoFiber /\ ready = <<>>
  /\ phase' = IF \A t \in Token \ background : waiters[t] = NoFiber THEN "stopped" ELSE "wait"
  /\ UNCHANGED <<slab, ready, parked, reactor, nesting, registered, work>>

\* idle_wait_plan: with no deadline and no foreground waiter the loop ends.
IdleWaitPlan ==
  /\ phase = "run" /\ current = NoFiber /\ ready = <<>>
  /\ phase' = IF PendingDeadlines = {} /\ \A t \in Token \ background : waiters[t] = NoFiber
              THEN "stopped" ELSE "wait"
  /\ UNCHANGED <<slab, ready, parked, reactor, nesting, registered, work>>

\* A wrong wait that drops the completions it drains.
WaitDropsCompletions ==
  /\ phase = "wait"
  /\ events # {} \/ \E at \in PendingDeadlines : at <= now
  /\ fired' = events \cap {0}
  /\ events' = {}
  /\ phase' = "wake"
  /\ UNCHANGED <<slab, ready, parked, background, nextToken, now, nesting, registered, work>>

\* The poll returns once a token fired or the nearest deadline passed.
ReactorWait ==
  /\ phase = "wait"
  /\ events # {} \/ \E at \in PendingDeadlines : at <= now
  /\ fired' = events
  /\ events' = {}
  /\ phase' = "wake"
  /\ UNCHANGED <<slab, ready, parked, background, nextToken, now, nesting, registered, work>>

\* A wrong wake that leaves the waiter's deadline behind.
WakeKeepsDeadline(t) ==
  /\ phase = "wake"
  /\ t \in fired
  /\ fired' = fired \ {t}
  /\ IF t \in Token /\ waiters[t] # NoFiber
     THEN waiters' = [waiters EXCEPT ![t] = NoFiber] /\ ready' = Append(ready, waiters[t])
     ELSE UNCHANGED <<ready, waiters>>
  /\ UNCHANGED <<slab, timers, deadlines, background, nextToken, events, now, nesting, registered, work, phase>>

\* wait_and_wake's loop over the tokens that fired; one with no waiter is
\* ignored.
Wake(t) ==
  /\ phase = "wake"
  /\ t \in fired
  /\ fired' = fired \ {t}
  /\ IF t \in Token /\ waiters[t] # NoFiber
     THEN /\ waiters' = [waiters EXCEPT ![t] = NoFiber]
          /\ deadlines' = {e \in deadlines : e.id # waiters[t]}
          /\ ready' = Append(ready, waiters[t])
     ELSE UNCHANGED <<ready, waiters, deadlines>>
  /\ UNCHANGED <<slab, timers, background, nextToken, events, now, nesting, registered, work, phase>>

WakeDone ==
  /\ phase = "wake" /\ fired = {}
  /\ phase' = "sweep"
  /\ UNCHANGED <<slab, ready, parked, reactor, nesting, registered, work>>

\* A wrong sweep that leaves the due wait's token entry behind.
SweepKeepsWaiter(e) ==
  /\ phase = "sweep"
  /\ \A due \in timers : due.at > now
  /\ e \in deadlines /\ e.at <= now
  /\ deadlines' = deadlines \ {e}
  /\ ready' = Append(ready, e.id)
  /\ UNCHANGED <<slab, timers, waiters, reactor, nesting, registered, work, phase>>

\* sweep_due: due timers first, then due readiness waits, whose waiter entry
\* goes with them.
SweepTimer(e) ==
  /\ phase = "sweep"
  /\ e \in timers /\ e.at <= now
  /\ timers' = timers \ {e}
  /\ ready' = Append(ready, e.id)
  /\ UNCHANGED <<slab, waiters, deadlines, reactor, nesting, registered, work, phase>>

SweepDeadline(e) ==
  /\ phase = "sweep"
  /\ \A due \in timers : due.at > now
  /\ e \in deadlines /\ e.at <= now
  /\ deadlines' = deadlines \ {e}
  /\ waiters' = [waiters EXCEPT ![e.token] = NoFiber]
  /\ ready' = Append(ready, e.id)
  /\ UNCHANGED <<slab, timers, reactor, nesting, registered, work, phase>>

SweepDone ==
  /\ phase = "sweep"
  /\ \A at \in PendingDeadlines : at > now
  /\ phase' = "drain"
  /\ UNCHANGED <<slab, ready, parked, reactor, nesting, registered, work>>

-----------------------------------------------------------------------------
\* The world outside: a source becomes ready, or a helper completes its
\* token; time passes while a fiber runs or the worker waits.
Fire(t) ==
  /\ phase \notin {"stopped", "exited", "panicked"}
  /\ t <= nextToken
  /\ events' = events \cup {t}
  /\ UNCHANGED <<slab, ready, parked, background, nextToken, fired, now, nesting, registered, work, phase>>

Tick ==
  /\ Executing \/ phase = "wait"
  /\ now < MaxTime
  /\ now' = now + 1
  /\ UNCHANGED <<slab, ready, parked, background, nextToken, events, fired, nesting, registered, work, phase>>

Ended ==
  /\ phase \in {"stopped", "exited", "panicked"}
  /\ UNCHANGED vars

Loop ==
  \/ DrainInbox
  \/ Resume
  \/ IdleWaitPlan
  \/ ReactorWait
  \/ \E t \in fired : Wake(t)
  \/ WakeDone
  \/ \E e \in timers : SweepTimer(e)
  \/ \E e \in deadlines : SweepDeadline(e)
  \/ SweepDone

Program ==
  \/ Spawn
  \/ \E handler \in BOOLEAN : SpawnPlaced(handler)
  \/ \E kind \in {"case", "trap"} : EnterGuard(kind)
  \/ LeaveGuard
  \/ ExpectFails
  \/ Fault
  \/ Park
  \/ MarkBackground
  \/ Finish

Next ==
  \/ Loop
  \/ Program
  \/ \E t \in Token : Fire(t)
  \/ Tick
  \/ Ended

(***************************************************************************)
(* The worker thread keeps running its loop, time passes, and a running    *)
(* fiber does not compute for ever: it parks or finishes.                  *)
(***************************************************************************)
Spec ==
  /\ Init /\ [][Next]_vars
  /\ WF_vars(Loop) /\ SF_vars(Tick) /\ WF_vars(Park \/ Finish)

-----------------------------------------------------------------------------
GuardIds(f) == {guards[f][i].id : i \in DOMAIN guards[f]}

\* The fibers of the ready queue that have started and not finished.
Live == present \cup ({current} \ {NoFiber})

TypeOK ==
  /\ slots \in Fiber
  /\ present \subseteq Fiber
  /\ free \in Seq(Fiber)
  /\ ready \in Seq(Fiber)
  /\ timers \subseteq [at : Nat, id : Fiber]
  /\ waiters \in [Token -> Fiber \cup {NoFiber}]
  /\ deadlines \subseteq [at : Nat, token : Token, id : Fiber]
  /\ background \subseteq Token
  /\ current \in Fiber \cup {NoFiber}
  /\ guards \in [Fiber -> Seq([id : Fiber, kind : {"case", "trap"}])]
  /\ yielder \in Fiber \cup {NoFiber}
  /\ trapDepth \in Nat
  /\ registered \subseteq Fiber
  /\ cased \in [Fiber -> BOOLEAN]
  /\ inbox \in Seq(BOOLEAN)
  /\ nextToken \in 0 .. MaxTokens
  /\ events \subseteq Token \cup {0}
  /\ fired \subseteq Token \cup {0}
  /\ now \in 0 .. MaxTime
  /\ phase \in {"drain", "run", "wait", "wake", "sweep", "stopped", "exited", "panicked"}
  /\ spawned \in 0 .. MaxSpawns
  /\ guarded \in 0 .. MaxGuards

Queued == Ids(ready)
Sleeping == {e.id : e \in timers}
Waiting == {waiters[t] : t \in Token} \ {NoFiber}

(***************************************************************************)
(* A fiber is woken once per park: it is in the ready queue at one place   *)
(* only, or behind one timer, or behind one token, and its deadline goes   *)
(* when its token does.  So a timeout of Park::ReadinessOrDeadline and the *)
(* readiness event racing it never both queue the fiber.                   *)
(***************************************************************************)
WakesOnce ==
  /\ Distinct(ready)
  /\ \A d, e \in timers : d.id = e.id => d = e
  /\ \A t, u \in Token : waiters[t] = waiters[u] /\ waiters[t] # NoFiber => t = u
  /\ \A e \in deadlines : waiters[e.token] = e.id
  /\ \A d, e \in deadlines : d.token = e.token => d = e
  /\ Queued \cap Sleeping = {} /\ Queued \cap Waiting = {} /\ Sleeping \cap Waiting = {}

(***************************************************************************)
(* No fiber is forgotten and no stale id is queued: the fibers in the slab *)
(* are exactly those queued or parked, so run_ready_queue's take().unwrap()*)
(* finds its fiber.                                                        *)
(***************************************************************************)
NoLostFiber == present = Queued \cup Sleeping \cup Waiting

(***************************************************************************)
(* Ids are handed out to one fiber at a time, guarded fibers included: a   *)
(* free id is free once and belongs to nothing, and the collector scans    *)
(* the stacks of exactly the fibers that exist (gc::register before the    *)
(* first resume, gc::unregister before the stack is unmapped).             *)
(***************************************************************************)
IdsAreExclusive ==
  /\ Distinct(free)
  /\ registered = (1 .. slots) \ Ids(free)
  /\ Live \cup UNION {GuardIds(f) : f \in Live} \subseteq registered
  /\ \A f, g \in Live : GuardIds(f) \cap ({g} \cup (IF f = g THEN {} ELSE GuardIds(g))) = {}


(***************************************************************************)
(* "depth must be back down before that happens, or an unrelated fiber's   *)
(* own fail-loud exit would be misread as still inside THIS guard": a      *)
(* fault is trapped exactly when the running fiber has a fault guard open. *)
(***************************************************************************)
TrapsOwnFaultsOnly ==
  trapDepth = IF current = NoFiber THEN 0 ELSE Traps(current)


(***************************************************************************)
(* CaseAborted and AbortTrapped are "only ever seen by" the guard's loop   *)
(* and "never reach" the ready queue's, and the slab's unwrap succeeds.    *)
(***************************************************************************)
NoPanic == phase # "panicked"


\* The clock wakes a sleeper, whatever the other fibers do.
SleepersWake ==
  \A f \in Fiber :
    (\E e \in timers : e.id = f) ~> (phase = "exited" \/ ~ \E e \in timers : e.id = f)

\* A fired token is delivered: no wakeup is lost between the park, the
\* reactor's collection and the wake.
FiredTokensWake ==
  \A t \in Token :
    (t \in events /\ t \notin background /\ waiters[t] # NoFiber)
      ~> (phase = "exited" \/ waiters[t] = NoFiber)

=============================================================================
