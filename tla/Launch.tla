------------------------------- MODULE Launch -------------------------------
(***************************************************************************)
(* Launches across workers: quilon-rt's deferred.rs (cells and waiters),   *)
(* launch_scope.rs (a block joins what it launched), placement.rs (each    *)
(* worker's inbox), reactor.rs (the shared waker) and the worker loops,    *)
(* start and shutdown of scheduler.rs.                                     *)
(*                                                                         *)
(* A program fiber runs blocks: it launches producers, may force a value,  *)
(* and joins at the block's end.  A launch is named by its producer fiber, *)
(* and so is its cell.  Handlers are the fibers a server places, one per   *)
(* accepted connection: no block joins them.                               *)
(***************************************************************************)
EXTENDS Naturals, Sequences, Queues

CONSTANTS
  Helper,     \* the workers started by the first placement
  Handler,    \* connections a server may accept
  Cell        \* bound: launches made by the program

Leader == "leader"
Main == "main"
None == "none"
Worker == {Leader} \cup Helper
Program == {Main} \cup Handler
Fiber == Program \cup Cell

ASSUME LaunchAssumption ==
  /\ Leader \notin Helper
  /\ Main \notin Handler /\ Main \notin Cell /\ Handler \cap Cell = {}
  /\ None \notin Fiber

VARIABLES
  phase,      \* per worker: where its loop is
  ready,      \* per worker: the ready queue
  running,    \* per worker: the fiber it runs, or None
  inbox,      \* per worker: WorkerHandle::inbox
  events,     \* per worker: sources the kernel reports ready
  completed,  \* per worker: ReactorWaker::completed; a token is named by its fiber
  alarm,      \* per worker: the reactor's waker was fired since the last poll
  pc,         \* per fiber: where it is
  home,       \* per fiber: the worker it belongs to
  scope,      \* per fiber: the launches its open block registered
  todo,       \* per fiber: launches left to wait for, or the fiber it places
  mode,       \* per fiber: why it waits: "force", "kill", "join" or "fault"
  cell,       \* per launch: "none" or its DeferredState
  waiters,    \* per launch: the fibers registered with its cell
  owner,      \* per launch: the fiber that made it
  shutdown,   \* Registry::shutdown
  run,        \* where scheduler::run is after the leader's loop
  exited      \* the process has exited through a fault report

loops == <<phase, running, ready>>
mailboxes == <<inbox, events, completed, alarm>>
fibers == <<pc, home, scope, todo, mode>>
cells == <<cell, waiters, owner>>
ending == <<shutdown, run, exited>>
vars == <<loops, mailboxes, fibers, cells, ending>>

Init ==
  /\ phase = [w \in Worker |-> IF w = Leader THEN "drain" ELSE "off"]
  /\ ready = [w \in Worker |-> IF w = Leader THEN <<Main>> ELSE <<>>]
  /\ running = [w \in Worker |-> None]
  /\ inbox = [w \in Worker |-> <<>>] /\ events = [w \in Worker |-> <<>>]
  /\ completed = [w \in Worker |-> <<>>] /\ alarm = [w \in Worker |-> FALSE]
  /\ pc = [f \in Fiber |-> IF f = Main THEN "begin" ELSE "none"]
  /\ home = [f \in Fiber |-> Leader]
  /\ scope = [f \in Fiber |-> <<>>] /\ todo = [f \in Fiber |-> <<>>]
  /\ mode = [f \in Fiber |-> None]
  /\ cell = [c \in Cell |-> None] /\ waiters = [c \in Cell |-> <<>>]
  /\ owner = [c \in Cell |-> Main]
  /\ shutdown = FALSE /\ run = "leading" /\ exited = FALSE

-----------------------------------------------------------------------------
(***************************************************************************)
(* The worker loop                                                         *)
(***************************************************************************)

\* Wrong variant of Drain: one job per turn of the loop.
DrainOne(w) ==
  /\ phase[w] = "drain"
  /\ phase' = [phase EXCEPT ![w] = "run"]
  /\ ready' = [ready EXCEPT ![w] = IF inbox[w] = <<>> THEN @ ELSE Append(@, Head(inbox[w]))]
  /\ inbox' = [inbox EXCEPT ![w] = IF @ = <<>> THEN @ ELSE Tail(@)]
  /\ UNCHANGED <<running, events, completed, alarm, fibers, cells, ending>>

\* drain_inbox: every waiting job installs and readies its fiber.
Drain(w) ==
  /\ phase[w] = "drain"
  /\ phase' = [phase EXCEPT ![w] = "run"]
  /\ ready' = [ready EXCEPT ![w] = @ \o inbox[w]]
  /\ inbox' = [inbox EXCEPT ![w] = <<>>]
  /\ UNCHANGED <<running, events, completed, alarm, fibers, cells, ending>>

\* run_ready_queue: the fiber at the head runs until it parks or ends.
Resume(w) ==
  /\ phase[w] = "run" /\ running[w] = None /\ ready[w] # <<>>
  /\ running' = [running EXCEPT ![w] = Head(ready[w])]
  /\ ready' = [ready EXCEPT ![w] = Tail(@)]
  /\ UNCHANGED <<phase, mailboxes, fibers, cells, ending>>

\* run_ready_queue has returned; idle_wait_plan is None when nothing is parked.
QueueEmpty(w) == phase[w] = "run" /\ running[w] = None /\ ready[w] = <<>>
NothingParked(w) == \A f \in Fiber : home[f] = w => pc[f] \notin {"parked", "io"}

\* Wrong variant of LeaderStops: fibers parked on a source are not counted.
LeaderStopsEarly ==
  /\ QueueEmpty(Leader)
  /\ \A f \in Fiber : home[f] = Leader => pc[f] # "parked"
  /\ phase' = [phase EXCEPT ![Leader] = "stopped"]
  /\ run' = "store"
  /\ UNCHANGED <<ready, running, mailboxes, fibers, cells, shutdown, exited>>

\* The leader's loop ends once nothing is parked on it.
LeaderStops ==
  /\ QueueEmpty(Leader) /\ NothingParked(Leader)
  /\ phase' = [phase EXCEPT ![Leader] = "stopped"]
  /\ run' = "store"
  /\ UNCHANGED <<ready, running, mailboxes, fibers, cells, shutdown, exited>>

\* A helper's loop ends once nothing is parked on it and it was asked to stop.
HelperStops(w) ==
  /\ w \in Helper
  /\ QueueEmpty(w) /\ NothingParked(w) /\ shutdown
  /\ phase' = [phase EXCEPT ![w] = "stopped"]
  /\ UNCHANGED <<ready, running, mailboxes, fibers, cells, ending>>

\* Otherwise the worker blocks in Reactor::wait.
Wait(w) ==
  /\ QueueEmpty(w)
  /\ IF w = Leader THEN ~NothingParked(w) ELSE ~(NothingParked(w) /\ shutdown)
  /\ phase' = [phase EXCEPT ![w] = "wait"]
  /\ UNCHANGED <<ready, running, mailboxes, fibers, cells, ending>>

\* The kernel marks the source a fiber is parked on ready, or its timer is due.
SourceReady(f) ==
  /\ pc[f] = "io" /\ f \notin Ids(events[home[f]])
  /\ events' = [events EXCEPT ![home[f]] = Append(@, f)]
  /\ UNCHANGED <<loops, inbox, completed, alarm, fibers, cells, ending>>

\* Fibers woken by their source go on; fibers woken by a cell look at it again.
WakeUp(F) == pc' = [f \in Fiber |->
  IF f \notin F THEN pc[f] ELSE IF pc[f] = "io" THEN "woken" ELSE "look"]

\* The poll returns, with the events it found; the waker's latch is consumed.
Poll(w) ==
  /\ phase[w] = "wait" /\ (alarm[w] \/ events[w] # <<>>)
  /\ phase' = [phase EXCEPT ![w] = "tokens"]
  /\ alarm' = [alarm EXCEPT ![w] = FALSE]
  /\ ready' = [ready EXCEPT ![w] = @ \o events[w]]
  /\ WakeUp(Ids(events[w]))
  /\ events' = [events EXCEPT ![w] = <<>>]
  /\ UNCHANGED <<running, inbox, completed, home, scope, todo, mode, cells, ending>>

\* ready_tokens takes the completed list; a token nobody is parked on is dropped.
TakeTokens(w) ==
  LET parked(f) == pc[f] = "parked"
  IN  /\ phase[w] = "tokens"
      /\ phase' = [phase EXCEPT ![w] = "drain"]
      /\ ready' = [ready EXCEPT ![w] = @ \o SelectSeq(completed[w], parked)]
      /\ WakeUp({f \in Ids(completed[w]) : parked(f)})
      /\ completed' = [completed EXCEPT ![w] = <<>>]
      /\ UNCHANGED <<running, inbox, events, alarm, home, scope, todo, mode, cells, ending>>

-----------------------------------------------------------------------------
(***************************************************************************)
(* A program fiber                                                         *)
(***************************************************************************)

At(f, label) == pc[f] = label /\ running[home[f]] = f
Goto(f, label) == pc' = [pc EXCEPT ![f] = label]
Yield(f) == running' = [running EXCEPT ![home[f]] = None]

\* A fiber that starts, or whose source is ready, goes on with its own work.
Continue(f) ==
  /\ At(f, "begin") \/ At(f, "woken")
  /\ Goto(f, IF f \in Program THEN "body" ELSE "settle")
  /\ UNCHANGED <<loops, mailboxes, home, scope, todo, mode, cells, ending>>

\* It first waits for a source or a timer: park_on_readiness, park_sleep.
AwaitSource(f) ==
  /\ At(f, "begin")
  /\ Goto(f, "io") /\ Yield(f)
  /\ UNCHANGED <<phase, ready, mailboxes, home, scope, todo, mode, cells, ending>>

\* ensure_helpers_started: the caller waits until every helper is published.
StartHelpers == phase' = [w \in Worker |-> IF phase[w] = "off" THEN "drain" ELSE phase[w]]

(***************************************************************************)
(* Registry::place, first half: the job is in the target's inbox.  The     *)
(* lengths shortest_queue compares are read one by one while the workers   *)
(* change them, so any worker may be found shortest.                       *)
(***************************************************************************)
Place(f, g, w) ==
  /\ StartHelpers
  /\ home' = [home EXCEPT ![g] = w]
  /\ inbox' = [inbox EXCEPT ![w] = Append(@, g)]
  /\ todo' = [todo EXCEPT ![f] = <<g>>]

\* new_deferred.
NewCell(f, c) ==
  /\ cell[c] = None
  /\ cell' = [cell EXCEPT ![c] = "pending"]
  /\ owner' = [owner EXCEPT ![c] = f]

\* launch_placed, up to the push.
LaunchPlaced(f, c, w) ==
  /\ f \in Program /\ c \in Cell /\ At(f, "body")
  /\ NewCell(f, c) /\ Place(f, c, w)
  /\ pc' = [pc EXCEPT ![f] = "placing", ![c] = "begin"]
  /\ UNCHANGED <<ready, running, events, completed, alarm, scope, mode, waiters, ending>>

\* The server's accept loop places a connection's handler, up to the push.
Accept(f, h, w) ==
  /\ f = Main /\ h \in Handler /\ At(f, "body")
  /\ pc[h] = "none" /\ Place(f, h, w)
  /\ pc' = [pc EXCEPT ![f] = "placing", ![h] = "begin"]
  /\ UNCHANGED <<ready, running, events, completed, alarm, scope, mode, cells, ending>>

\* Wrong variant of WakeTarget: handlers are registered with the block too.
WakeTargetJoinsAll(f) ==
  LET g == Head(todo[f])
  IN  /\ At(f, "placing")
      /\ alarm' = [alarm EXCEPT ![home[g]] = TRUE]
      /\ scope' = [scope EXCEPT ![f] = Append(@, g)]
      /\ todo' = [todo EXCEPT ![f] = <<>>]
      /\ Goto(f, "body")
      /\ UNCHANGED <<loops, inbox, events, completed, home, mode, cells, ending>>

\* Registry::place, second half; a launch is then registered with the block.
WakeTarget(f) ==
  LET g == Head(todo[f])
  IN  /\ At(f, "placing")
      /\ alarm' = [alarm EXCEPT ![home[g]] = TRUE]
      /\ scope' = [scope EXCEPT ![f] = IF g \in Cell THEN Append(@, g) ELSE @]
      /\ todo' = [todo EXCEPT ![f] = <<>>]
      /\ Goto(f, "body")
      /\ UNCHANGED <<loops, inbox, events, completed, home, mode, cells, ending>>

\* launch_here: the producer is a fiber of the same worker.
LaunchHere(f, c) ==
  /\ f \in Program /\ c \in Cell /\ At(f, "body")
  /\ NewCell(f, c)
  /\ home' = [home EXCEPT ![c] = home[f]]
  /\ ready' = [ready EXCEPT ![home[f]] = Append(@, c)]
  /\ scope' = [scope EXCEPT ![f] = Append(@, c)]
  /\ Goto(c, "begin")
  /\ UNCHANGED <<phase, running, mailboxes, todo, mode, waiters, ending>>

\* force: the block uses a value it launched.  Bound: once per block.
ForceValue(f, c) ==
  /\ At(f, "body") /\ c \in Ids(scope[f])
  /\ todo' = [todo EXCEPT ![f] = <<c>>]
  /\ mode' = [mode EXCEPT ![f] = "force"]
  /\ Goto(f, "look")
  /\ UNCHANGED <<loops, mailboxes, home, scope, cells, ending>>

\* __block_scope_join: settle_all over the block's launches, in launch order.
Join(f) ==
  /\ At(f, "body") \/ At(f, "used")
  /\ scope[f] # <<>>
  /\ todo' = [todo EXCEPT ![f] = scope[f]]
  /\ mode' = [mode EXCEPT ![f] = "join"]
  /\ Goto(f, "look")
  /\ UNCHANGED <<loops, mailboxes, home, scope, cells, ending>>

\* Server.kill in a handler: it waits for the accept loop the main fiber launched.
AwaitCell(f, c) ==
  /\ f \in Handler /\ At(f, "body")
  /\ cell[c] # None /\ owner[c] = Main
  /\ todo' = [todo EXCEPT ![f] = <<c>>]
  /\ mode' = [mode EXCEPT ![f] = "kill"]
  /\ Goto(f, "look")
  /\ UNCHANGED <<loops, mailboxes, home, scope, cells, ending>>

\* The cell's lock is held from the moment it is resolved until all are woken.
Locked(c) == pc[c] \in {"waking", "ring"}
Looks(f) == At(f, "look") /\ todo[f] # <<>> /\ ~Locked(Head(todo[f]))

\* force, settle: a pending cell; the fiber registers and releases the lock.
Register(f) ==
  LET c == Head(todo[f])
  IN  /\ Looks(f) /\ cell[c] = "pending"
      /\ waiters' = [waiters EXCEPT ![c] = Append(@, f)]
      /\ Goto(f, "parking")
      /\ UNCHANGED <<loops, mailboxes, home, scope, todo, mode, cell, owner, ending>>

\* park_on_readiness.
Park(f) ==
  /\ At(f, "parking")
  /\ Goto(f, "parked") /\ Yield(f)
  /\ UNCHANGED <<phase, ready, mailboxes, home, scope, todo, mode, cells, ending>>

\* force finds a fault: fault_current_fiber settles everything in the block.
FindFault(f) ==
  /\ Looks(f) /\ mode[f] = "force" /\ cell[Head(todo[f])] = "faulted"
  /\ todo' = [todo EXCEPT ![f] = scope[f]]
  /\ mode' = [mode EXCEPT ![f] = "fault"]
  /\ UNCHANGED <<loops, mailboxes, pc, home, scope, cells, ending>>

\* Wrong variant of Settled: a join that fails fast.
SettledFailFast(f) ==
  LET c == Head(todo[f])
  IN  /\ Looks(f) /\ cell[c] # "pending" /\ ~(mode[f] = "force" /\ cell[c] = "faulted")
      /\ todo' = [todo EXCEPT ![f] = IF cell[c] = "faulted" THEN <<>> ELSE Tail(@)]
      /\ UNCHANGED <<loops, mailboxes, pc, home, scope, mode, cells, ending>>

\* force reads a value; settle reads either outcome.
Settled(f) ==
  LET c == Head(todo[f])
  IN  /\ Looks(f) /\ cell[c] # "pending" /\ ~(mode[f] = "force" /\ cell[c] = "faulted")
      /\ todo' = [todo EXCEPT ![f] = Tail(@)]
      /\ UNCHANGED <<loops, mailboxes, pc, home, scope, mode, cells, ending>>

\* force or kill returns.
Forced(f) ==
  /\ At(f, "look") /\ todo[f] = <<>> /\ mode[f] \in {"force", "kill"}
  /\ Goto(f, "used")
  /\ UNCHANGED <<loops, mailboxes, home, scope, todo, mode, cells, ending>>

\* exit_on_faults: every launch has settled; a fault among them ends the process.
Joined(f) ==
  /\ At(f, "look") /\ todo[f] = <<>> /\ mode[f] \in {"join", "fault"}
  /\ IF \E c \in Ids(scope[f]) : cell[c] = "faulted"
     THEN exited' = TRUE /\ Goto(f, "exit") /\ UNCHANGED scope
     ELSE scope' = [scope EXCEPT ![f] = <<>>] /\ Goto(f, "body") /\ UNCHANGED exited
  /\ UNCHANGED <<loops, mailboxes, home, todo, mode, cells, shutdown, run>>

\* The fiber's function returns, all its blocks closed.
Finish(f) ==
  /\ f \in Program /\ (At(f, "body") \/ At(f, "used")) /\ scope[f] = <<>>
  /\ Goto(f, "done") /\ Yield(f)
  /\ UNCHANGED <<phase, ready, mailboxes, home, scope, todo, mode, cells, ending>>

-----------------------------------------------------------------------------
(***************************************************************************)
(* A producer: resolve_body                                                *)
(***************************************************************************)

\* The lock is taken and the outcome stored.
Resolve(c) ==
  /\ c \in Cell /\ At(c, "settle")
  /\ \E outcome \in {"ready", "faulted"} : cell' = [cell EXCEPT ![c] = outcome]
  /\ Goto(c, "waking")
  /\ UNCHANGED <<loops, mailboxes, home, scope, todo, mode, waiters, owner, ending>>

\* wake_all, ReactorWaker::complete, first half: the token joins the list.
PushToken(c) ==
  LET f == Head(waiters[c])
  IN  /\ c \in Cell /\ At(c, "waking") /\ waiters[c] # <<>>
      /\ completed' = [completed EXCEPT ![home[f]] = Append(@, f)]
      /\ Goto(c, "ring")
      /\ UNCHANGED <<loops, inbox, events, alarm, home, scope, todo, mode, cells, ending>>

\* Wrong variant of Ring: one waiter is woken instead of all.
RingOne(c) ==
  LET f == Head(waiters[c])
  IN  /\ c \in Cell /\ At(c, "ring")
      /\ alarm' = [alarm EXCEPT ![home[f]] = TRUE]
      /\ waiters' = [waiters EXCEPT ![c] = <<>>]
      /\ Goto(c, "waking")
      /\ UNCHANGED <<loops, inbox, events, completed, home, scope, todo, mode, cell, owner, ending>>

\* ReactorWaker::complete, second half.
Ring(c) ==
  LET f == Head(waiters[c])
  IN  /\ c \in Cell /\ At(c, "ring")
      /\ alarm' = [alarm EXCEPT ![home[f]] = TRUE]
      /\ waiters' = [waiters EXCEPT ![c] = Tail(@)]
      /\ Goto(c, "waking")
      /\ UNCHANGED <<loops, inbox, events, completed, home, scope, todo, mode, cell, owner, ending>>

\* Everyone is woken: the lock is released and the fiber ends.
Unlock(c) ==
  /\ c \in Cell /\ At(c, "waking") /\ waiters[c] = <<>>
  /\ Goto(c, "done") /\ Yield(c)
  /\ UNCHANGED <<phase, ready, mailboxes, home, scope, todo, mode, cells, ending>>

-----------------------------------------------------------------------------
(***************************************************************************)
(* The end of scheduler::run                                               *)
(***************************************************************************)

\* request_shutdown, the store.
StoreShutdown ==
  /\ run = "store"
  /\ shutdown' = TRUE
  /\ run' = "wake"
  /\ UNCHANGED <<loops, mailboxes, fibers, cells, exited>>

\* Wrong variant of WakeWorkers: nobody is woken.
WakeNoWorkers ==
  /\ run = "wake"
  /\ run' = "join"
  /\ UNCHANGED <<loops, mailboxes, fibers, cells, shutdown, exited>>

\* request_shutdown: every published worker is woken.
WakeWorkers ==
  /\ run = "wake"
  /\ alarm' = [w \in Worker |-> IF phase[w] = "off" THEN alarm[w] ELSE TRUE]
  /\ run' = "join"
  /\ UNCHANGED <<loops, inbox, events, completed, fibers, cells, shutdown, exited>>

\* Every helper's thread is joined.
Return ==
  /\ run = "join" /\ \A w \in Helper : phase[w] \in {"off", "stopped"}
  /\ run' = "returned"
  /\ UNCHANGED <<loops, mailboxes, fibers, cells, shutdown, exited>>

WorkerStep(w) ==
  \/ Drain(w) \/ Resume(w) \/ HelperStops(w) \/ Wait(w) \/ Poll(w) \/ TakeTokens(w)

FiberStep(f) ==
  \/ Continue(f) \/ AwaitSource(f)
  \/ \E c \in Cell, w \in Worker : LaunchPlaced(f, c, w)
  \/ \E h \in Handler, w \in Worker : Accept(f, h, w)
  \/ \E c \in Cell : LaunchHere(f, c) \/ ForceValue(f, c) \/ AwaitCell(f, c)
  \/ WakeTarget(f) \/ Join(f) \/ Register(f) \/ Park(f)
  \/ FindFault(f) \/ Settled(f) \/ Forced(f) \/ Joined(f) \/ Finish(f)
  \/ Resolve(f) \/ PushToken(f) \/ Ring(f) \/ Unlock(f)

RunStep == LeaderStops \/ StoreShutdown \/ WakeWorkers \/ Return

Next ==
  /\ ~exited
  /\ \/ \E w \in Worker : WorkerStep(w)
     \/ \E f \in Fiber : FiberStep(f) \/ SourceReady(f)
     \/ RunStep

Spec == Init /\ [][Next]_vars

(***************************************************************************)
(* Worker threads run, a running fiber's code goes on, and every source a  *)
(* fiber waits for becomes ready or times out.                             *)
(***************************************************************************)
Fairness ==
  /\ \A w \in Worker : WF_vars(~exited /\ WorkerStep(w))
  /\ \A f \in Fiber : WF_vars(~exited /\ FiberStep(f)) /\ WF_vars(~exited /\ SourceReady(f))
  /\ WF_vars(~exited /\ RunStep)

FairSpec == Spec /\ Fairness

-----------------------------------------------------------------------------
(***************************************************************************)
(* Properties                                                              *)
(***************************************************************************)

\* Every variable has its type.
TypeOK ==
  /\ phase \in [Worker -> {"off", "drain", "run", "wait", "tokens", "stopped"}]
  /\ ready \in [Worker -> Seq(Fiber)] /\ running \in [Worker -> Fiber \cup {None}]
  /\ inbox \in [Worker -> Seq(Fiber)] /\ events \in [Worker -> Seq(Fiber)]
  /\ completed \in [Worker -> Seq(Fiber)] /\ alarm \in [Worker -> BOOLEAN]
  /\ pc \in [Fiber -> {"none", "begin", "io", "woken", "body", "placing", "look",
                       "parking", "parked", "used", "settle", "waking", "ring",
                       "exit", "done"}]
  /\ home \in [Fiber -> Worker]
  /\ scope \in [Fiber -> Seq(Cell)] /\ todo \in [Fiber -> Seq(Fiber)]
  /\ mode \in [Fiber -> {None, "force", "kill", "join", "fault"}]
  /\ cell \in [Cell -> {None, "pending", "ready", "faulted"}]
  /\ waiters \in [Cell -> Seq(Fiber)] /\ owner \in [Cell -> Program]
  /\ shutdown \in BOOLEAN /\ exited \in BOOLEAN
  /\ run \in {"leading", "store", "wake", "join", "returned"}

\* Some fiber is between handing w a job or a token and firing w's waker.
Ringing(w) ==
  \/ \E f \in Program : pc[f] = "placing" /\ home[Head(todo[f])] = w
  \/ \E c \in Cell : pc[c] = "ring" /\ home[Head(waiters[c])] = w

(***************************************************************************)
(* No wakeup is lost between force or settle registering a fiber with a    *)
(* cell and its parking, whichever worker resolves the cell meanwhile: a   *)
(* parked fiber is on the list of a cell that is still to wake it, or its  *)
(* token is with its own worker.  And no token or job is left with a       *)
(* worker that goes to sleep: what it has not taken has fired its waker,   *)
(* or is about to.                                                         *)
(***************************************************************************)
NoLostWakeup ==
  /\ \A f \in Program : pc[f] = "parked" =>
       \/ f \in Ids(completed[home[f]])
       \/ /\ f \in Ids(waiters[Head(todo[f])])
          /\ cell[Head(todo[f])] = "pending" \/ Locked(Head(todo[f]))
  /\ \A w \in Worker :
       /\ completed[w] # <<>> /\ phase[w] # "tokens" => alarm[w] \/ Ringing(w)
       /\ inbox[w] # <<>> /\ phase[w] \notin {"tokens", "drain"} => alarm[w] \/ Ringing(w)

(***************************************************************************)
(* allSettled, never cancel: a fiber leaves its block, and a fault ends    *)
(* the process, only after every launch of the fiber has settled.          *)
(***************************************************************************)
AllSettled ==
  \A f \in Program : pc[f] \in {"done", "exit"} =>
    \A c \in Cell : owner[c] = f => cell[c] # "pending"

(***************************************************************************)
(* The leader alone decides the program is done: when its loop ends, every *)
(* launch has settled, wherever it was placed, and nothing is left running *)
(* elsewhere but producers on their way out.                               *)
(***************************************************************************)
NothingElsewhere ==
  phase[Leader] = "stopped" =>
    \A f \in Fiber : pc[f] \in {"none", "done", "waking", "ring"}

\* A launch's producer runs, and settles its cell, whether or not it is forced.
LaunchesSettle ==
  \A c \in Cell : (cell[c] = "pending") ~> (cell[c] # "pending" \/ exited)

\* run returns once the program is over: every helper stops and is joined.
RunReturns == <>(exited \/ run = "returned")
=============================================================================
