----------------------------- MODULE SignalTrap -----------------------------
(***************************************************************************)
(* The signal trap of quilon-rt's trap.rs.  The signal handler runs on any *)
(* thread, between any two atomic accesses of the others: it records the   *)
(* sender in the signal's slot and writes to a self-pipe.  The dispatcher  *)
(* and the arms are fibers of the leader and give way only where they      *)
(* park, so the leader runs at most one of them inside trap.rs at a time.  *)
(*                                                                         *)
(* A sender is named by the arrival it sent: a whole sender has the same   *)
(* arrival for its pid and its uid.                                        *)
(***************************************************************************)
EXTENDS Naturals

CONSTANTS
  Signals,      \* the length of TRAP_SIGNALS
  Thread,       \* the threads of the process
  Leader,       \* the one that runs the trap's fibers
  MaxArrivals   \* bound: signals sent to the process

ASSUME TrapAssumption ==
  Signals \in Nat /\ MaxArrivals \in Nat /\ Leader \in Thread

Signal == 1 .. Signals
Nobody == 0                   \* empty_slot's pid and uid
Person == 0 .. MaxArrivals    \* the sender of an arrival, or Nobody

VARIABLES
  installed,    \* the signals whose arm and sigaction are in place
  running,      \* Slot::running
  pending,      \* Slot::pending
  pid,          \* Slot::pending_pid
  uid,          \* Slot::pending_uid
  pipe,         \* the self-pipe holds a byte
  handling,     \* the next access of each thread's handler of each signal
  arrival,      \* the arrival that handler records
  arrivals,     \* signals sent so far
  scan,         \* the index the dispatcher's loop has reached, 0 when parked
  leader,       \* the next step of the leader in trap.rs, "free" when outside
  claimed,      \* the signal that step is about
  claimedPid,   \* the pid it has loaded
  queued,       \* arm fibers spawned and not started, per signal
  inArm,        \* arm fibers inside their arm, per signal
  sender,       \* the pid and uid a spawned arm was given, per signal
  main          \* the program's main fiber, and the end of the leader's loop

slots == <<running, pending, pid, uid>>
handlers == <<handling, arrival, arrivals>>
claim == <<scan, leader, claimed, claimedPid>>
arms == <<queued, inArm, sender>>
vars == <<installed, slots, pipe, handlers, claim, arms, main>>

Init ==
  /\ installed = {}
  /\ running = [s \in Signal |-> FALSE]
  /\ pending = [s \in Signal |-> FALSE]
  /\ pid = [s \in Signal |-> Nobody]
  /\ uid = [s \in Signal |-> Nobody]
  /\ pipe = FALSE
  /\ handling = [t \in Thread |-> [s \in Signal |-> "idle"]]
  /\ arrival = [t \in Thread |-> [s \in Signal |-> Nobody]]
  /\ arrivals = 0
  /\ scan = 0 /\ leader = "free" /\ claimed = 0 /\ claimedPid = Nobody
  /\ queued = [s \in Signal |-> 0]
  /\ inArm = [s \in Signal |-> 0]
  /\ sender = [s \in Signal |-> <<Nobody, Nobody>>]
  /\ main = "running"

-----------------------------------------------------------------------------
(* handle_signal.  The signal is blocked on the thread while its handler   *)
(* runs there; sa_mask is empty, so another signal may interrupt it.       *)

\* The kernel delivers s to t.
Arrive(t, s) ==
  /\ s \in installed
  /\ handling[t][s] = "idle"
  /\ arrivals < MaxArrivals
  /\ arrivals' = arrivals + 1
  /\ arrival' = [arrival EXCEPT ![t][s] = arrivals']
  /\ handling' = [handling EXCEPT ![t][s] = "pid"]
  /\ UNCHANGED <<installed, slots, pipe, claim, arms, main>>

HandlerGoes(t, s, from, to) ==
  /\ handling[t][s] = from
  /\ handling' = [handling EXCEPT ![t][s] = to]
  /\ UNCHANGED <<installed, running, arrivals, claim, arms, main>>

StorePid(t, s) ==
  /\ HandlerGoes(t, s, "pid", "uid")
  /\ pid' = [pid EXCEPT ![s] = arrival[t][s]]
  /\ UNCHANGED <<arrival, pending, uid, pipe>>

StoreUid(t, s) ==
  /\ HandlerGoes(t, s, "uid", "pending")
  /\ uid' = [uid EXCEPT ![s] = arrival[t][s]]
  /\ UNCHANGED <<arrival, pending, pid, pipe>>

StorePending(t, s) ==
  /\ HandlerGoes(t, s, "pending", "write")
  /\ pending' = [pending EXCEPT ![s] = TRUE]
  /\ UNCHANGED <<arrival, pid, uid, pipe>>

\* The one-byte write.  A full pipe drops it, and holds a byte all the same.
WritePipe(t, s) ==
  /\ HandlerGoes(t, s, "write", "idle")
  /\ pipe' = TRUE
  /\ arrival' = [arrival EXCEPT ![t][s] = Nobody]
  /\ UNCHANGED <<pending, pid, uid>>

-----------------------------------------------------------------------------
(* The leader.  A handler that interrupts its thread holds it up.          *)

LeaderAt(step) ==
  /\ leader = step
  /\ main # "over"
  /\ \A s \in Signal : handling[Leader][s] = "idle"

\* __trap_install, called for each arm as the program starts.  The first call
\* also makes the pipe and spawns the dispatcher.
TrapInstall(s) ==
  /\ LeaderAt("free")
  /\ main = "running"
  /\ s \notin installed
  /\ installed' = installed \cup {s}
  /\ UNCHANGED <<slots, pipe, handlers, claim, arms, main>>

\* Wrong variant of DispatcherDrains: a background park is not served once main
\* has returned, although arms still run.
DispatcherDrainsForMain ==
  /\ LeaderAt("free")
  /\ main = "running"
  /\ Signal # {}
  /\ pipe
  /\ pipe' = FALSE
  /\ scan' = 1
  /\ leader' = "dispatch"
  /\ UNCHANGED <<installed, slots, handlers, claimed, claimedPid, arms, main>>

\* run_dispatcher resumes from its park and drains the pipe.
DispatcherDrains ==
  /\ LeaderAt("free")
  /\ Signal # {}
  /\ pipe
  /\ pipe' = FALSE
  /\ scan' = 1
  /\ leader' = "dispatch"
  /\ UNCHANGED <<installed, slots, handlers, claimed, claimedPid, arms, main>>

\* Wrong variant of NextIndex: the loop runs one index too far.
NextIndexPastEnd ==
  /\ scan' = IF scan <= Signals THEN scan + 1 ELSE 0
  /\ leader' = IF scan <= Signals THEN "dispatch" ELSE "free"

\* The dispatcher moves to its loop's next index, or parks again.
NextIndex ==
  /\ scan' = IF scan < Signals THEN scan + 1 ELSE 0
  /\ leader' = IF scan < Signals THEN "dispatch" ELSE "free"

\* dispatch_if_idle returns: the arm is running, or nothing is pending.
DispatchReturns ==
  /\ LeaderAt("dispatch")
  /\ running[scan] \/ ~pending[scan]
  /\ NextIndex
  /\ UNCHANGED <<installed, slots, pipe, handlers, claimed, claimedPid, arms, main>>

\* Wrong variant of DispatchClaims: the claim does not look at `running`.
DispatchClaimsRunning ==
  /\ LeaderAt("dispatch")
  /\ pending[scan]
  /\ pending' = [pending EXCEPT ![scan] = FALSE]
  /\ running' = [running EXCEPT ![scan] = TRUE]
  /\ leader' = "pid"
  /\ claimed' = scan
  /\ UNCHANGED <<installed, pid, uid, pipe, handlers, scan, claimedPid, arms, main>>

\* dispatch_if_idle claims the arrival.
DispatchClaims ==
  /\ LeaderAt("dispatch")
  /\ ~running[scan] /\ pending[scan]
  /\ pending' = [pending EXCEPT ![scan] = FALSE]
  /\ running' = [running EXCEPT ![scan] = TRUE]
  /\ leader' = "pid"
  /\ claimed' = scan
  /\ UNCHANGED <<installed, pid, uid, pipe, handlers, scan, claimedPid, arms, main>>

LoadPid ==
  /\ LeaderAt("pid")
  /\ claimedPid' = pid[claimed]
  /\ leader' = "uid"
  /\ UNCHANGED <<installed, slots, pipe, handlers, scan, claimed, arms, main>>

\* Loads the uid and calls spawn_run; the redelivery of a returning arm sets
\* `running` again just before, the dispatcher has set it already.
LoadUidAndSpawn ==
  /\ LeaderAt("uid")
  /\ running' = [running EXCEPT ![claimed] = TRUE]
  /\ queued' = [queued EXCEPT ![claimed] = @ + 1]
  /\ sender' = [sender EXCEPT ![claimed] = <<claimedPid, uid[claimed]>>]
  /\ claimed' = 0 /\ claimedPid' = Nobody
  /\ IF scan = 0 THEN leader' = "free" /\ scan' = 0 ELSE NextIndex
  /\ UNCHANGED <<installed, pending, pid, uid, pipe, handlers, inArm, main>>

\* The leader starts a spawned arm; the arm may park for as long as it likes.
ArmStarts(s) ==
  /\ LeaderAt("free")
  /\ queued[s] > 0
  /\ queued' = [queued EXCEPT ![s] = @ - 1]
  /\ inArm' = [inArm EXCEPT ![s] = @ + 1]
  /\ UNCHANGED <<installed, slots, pipe, handlers, claim, sender, main>>

\* The arm's fiber clears `running` when the arm returns.
ArmReturns(s) ==
  /\ LeaderAt("free")
  /\ inArm[s] > 0
  /\ inArm' = [inArm EXCEPT ![s] = @ - 1]
  /\ running' = [running EXCEPT ![s] = FALSE]
  /\ leader' = "returned"
  /\ claimed' = s
  /\ sender' = [sender EXCEPT ![s] = <<Nobody, Nobody>>]
  /\ UNCHANGED <<installed, pending, pid, uid, pipe, handlers, scan, claimedPid,
                 queued, main>>

\* Wrong variants of Redeliver: a pending arrival is left to the dispatcher.
RedeliverNever ==
  /\ LeaderAt("returned")
  /\ leader' = "free"
  /\ claimed' = 0
  /\ UNCHANGED <<installed, slots, pipe, handlers, scan, claimedPid, arms, main>>

\* `pending` is loaded where the code swaps it.
RedeliverAgain ==
  /\ LeaderAt("returned")
  /\ leader' = IF pending[claimed] THEN "pid" ELSE "free"
  /\ claimed' = IF pending[claimed] THEN claimed ELSE 0
  /\ UNCHANGED <<installed, slots, pipe, handlers, scan, claimedPid, arms, main>>

\* After the arm: deliver what is pending, without the dispatcher.
Redeliver ==
  /\ LeaderAt("returned")
  /\ pending' = [pending EXCEPT ![claimed] = FALSE]
  /\ leader' = IF pending[claimed] THEN "pid" ELSE "free"
  /\ claimed' = IF pending[claimed] THEN claimed ELSE 0
  /\ UNCHANGED <<installed, running, pid, uid, pipe, handlers, scan, claimedPid,
                 arms, main>>

MainReturns ==
  /\ LeaderAt("free")
  /\ main = "running"
  /\ main' = "returned"
  /\ UNCHANGED <<installed, slots, pipe, handlers, claim, arms>>

\* idle_wait_plan: the dispatcher's park is in the background, so the leader's
\* loop ends once main has returned and no arm is left.
LoopEnds ==
  /\ LeaderAt("free")
  /\ main = "returned"
  /\ \A s \in Signal : queued[s] = 0 /\ inArm[s] = 0
  /\ main' = "over"
  /\ UNCHANGED <<installed, slots, pipe, handlers, claim, arms>>

-----------------------------------------------------------------------------
Handle(t, s) ==
  StorePid(t, s) \/ StoreUid(t, s) \/ StorePending(t, s) \/ WritePipe(t, s)

InTrap ==
  \/ DispatchReturns
  \/ DispatchClaims
  \/ LoadPid
  \/ LoadUidAndSpawn
  \/ Redeliver

Next ==
  \/ \E t \in Thread, s \in Signal : Arrive(t, s) \/ Handle(t, s)
  \/ \E s \in Signal : TrapInstall(s) \/ ArmStarts(s) \/ ArmReturns(s)
  \/ InTrap
  \/ DispatcherDrains
  \/ MainReturns
  \/ LoopEnds

\* A handler runs to its end, the leader runs on, and its ready queue is first
\* in, first out: every fiber that can run does.  That an arm returns is the
\* program's affair and is assumed; that main does is not.
Fairness ==
  /\ \A t \in Thread, s \in Signal : WF_vars(Handle(t, s))
  /\ \A s \in Signal : WF_vars(ArmStarts(s)) /\ WF_vars(ArmReturns(s))
  /\ WF_vars(InTrap)
  /\ WF_vars(DispatcherDrains)

Spec == Init /\ [][Next]_vars /\ Fairness

-----------------------------------------------------------------------------
(* The type invariant.                                                     *)
TypeOK ==
  /\ installed \subseteq Signal
  /\ running \in [Signal -> BOOLEAN] /\ pending \in [Signal -> BOOLEAN]
  /\ pid \in [Signal -> Person]
  /\ uid \in [Signal -> Person]
  /\ pipe \in BOOLEAN
  /\ handling \in [Thread -> [Signal -> {"idle", "pid", "uid", "pending", "write"}]]
  /\ arrival \in [Thread -> [Signal -> Person]]
  /\ arrivals \in 0 .. MaxArrivals
  /\ scan \in 0 .. Signals
  /\ leader \in {"free", "dispatch", "pid", "uid", "returned"}
  /\ claimed \in 0 .. Signals
  /\ claimedPid \in Person
  /\ queued \in [Signal -> Nat] /\ inArm \in [Signal -> Nat]
  /\ sender \in [Signal -> Person \X Person]
  /\ main \in {"running", "returned", "over"}

\* The leader is between the claim of an arrival of s and the spawn of its arm.
Delivering(s) == leader \in {"pid", "uid"} /\ claimed = s

\* A signal's arm never runs twice at once: at most one fiber of it is spawned,
\* running or about to be spawned, and between the leader's steps in trap.rs
\* `running` is set exactly while there is one (dispatch_if_idle, spawn_run).
OneArmPerSignal ==
  \A s \in Signal :
    /\ queued[s] + inArm[s] + (IF Delivering(s) THEN 1 ELSE 0) <= 1
    /\ leader = "free" => (running[s] <=> queued[s] + inArm[s] = 1)

\* Somebody is still going to look at s's pending flag: a byte waits in the pipe
\* or its handler is about to write one, the dispatcher's loop has not passed s,
\* or the arm's fiber will look when the arm returns.
WillLook(s) ==
  \/ pipe
  \/ \E t \in Thread : handling[t][s] = "write"
  \/ scan # 0 /\ scan <= s
  \/ queued[s] + inArm[s] > 0
  \/ leader = "returned" /\ claimed = s
  \/ Delivering(s)

\* A recorded arrival is never stranded, whichever of the handler, the
\* dispatcher's drain and the return of an arm it raced with.
PendingIsNoticed == \A s \in Signal : pending[s] => WillLook(s)

\* A recorded arrival is claimed for an arm unless the program ends first: the
\* promise of trap.rs that an arrival mid-run is delivered when the run returns.
PendingIsDelivered ==
  \A s \in Signal : pending[s] ~> (~pending[s] \/ main = "over")

\* An arrival starts no more than finitely many arms: once signals stop coming
\* (MaxArrivals bounds them) every arm comes to rest, although each returning
\* arm may start the next and each byte in the pipe wakes the dispatcher.
ArmsComeToRest ==
  <>[](main = "over" \/ \A s \in Signal : ~running[s])

\* What an arm is told of the sender is true of one arrival: its pid and its uid
\* were stored by the same handler (Slot::pending_pid, Slot::pending_uid).
SenderIsOneArrival == \A s \in Signal : sender[s][1] = sender[s][2]
=============================================================================
