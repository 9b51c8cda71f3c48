--------------------------- MODULE AtomicBinding ---------------------------
(***************************************************************************)
(* The critical section behind `@name := ...` (quilon-rt's                 *)
(* atomic_binding.rs) and the code the compiler emits around it.           *)
(*                                                                         *)
(* One process-wide spin lock, LOCK, covers every atomic binding; DEPTH    *)
(* makes it re-entrant per worker thread.  A worker evaluates either       *)
(*   - a reassignment  target := source + 1 : begin, evaluate the right    *)
(*     side (a nested read of source), store, end; or                      *)
(*   - a plain read of source: begin, load, end.                           *)
(* A binding's representation may be wider than a machine word (a Text is  *)
(* a pointer and a length), so a load and a store are two steps each.      *)
(* A value is the pair of its two words; writing n stores n in both words. *)
(***************************************************************************)
EXTENDS Naturals

CONSTANTS
  Worker,       \* the worker threads
  Binding,      \* the atomic bindings of the program
  Modulus,      \* bound: a word is kept modulo Modulus
  MaxAborts     \* bound: how many right sides fault under an aborts() trap

ASSUME AtomicAssumption ==
  /\ Modulus \in Nat \ {0}
  /\ MaxAborts \in Nat

VARIABLES
  LOCK,       \* the process-wide spin lock
  DEPTH,      \* per worker: __atomic_begin calls not yet matched by an end
  value,      \* per binding: its two words in memory
  pc,         \* per worker: where in the emitted code it is
  assigning,  \* per worker: whether the statement is a reassignment
  target,     \* per worker: the binding being reassigned
  source,     \* per worker: the binding being read
  loaded,     \* per worker: the two words the last load produced
  aborts      \* how many trapped faults there have been

vars == <<LOCK, DEPTH, value, pc, assigning, target, source, loaded, aborts>>
statement == <<assigning, target, source>>

(***************************************************************************)
(* The points of the emitted code: "assign" is the outer __atomic_begin of *)
(* a reassignment; "read", "load1", "load2", "endRead" the lowered read;   *)
(* "store1", "store2", "endAssign" the rest of the reassignment.           *)
(***************************************************************************)
Points ==
  {"idle", "assign", "read", "load1", "load2", "endRead", "store1", "store2", "endAssign"}

Goto(w, point) == pc' = [pc EXCEPT ![w] = point]

Init ==
  /\ LOCK = FALSE
  /\ DEPTH = [w \in Worker |-> 0]
  /\ value = [b \in Binding |-> [word \in 1 .. 2 |-> 0]]
  /\ pc = [w \in Worker |-> "idle"]
  /\ assigning = [w \in Worker |-> FALSE]
  /\ target \in [Worker -> Binding]
  /\ source = target
  /\ loaded = [w \in Worker |-> [word \in 1 .. 2 |-> 0]]
  /\ aborts = 0

(***************************************************************************)
(* Wrong variants, each a plausible slip in atomic_binding.rs or in the    *)
(* code that emits its calls; the properties below reject them.            *)
(***************************************************************************)
BeginWithoutSpin(w) ==
  /\ LOCK' = TRUE
  /\ DEPTH' = [DEPTH EXCEPT ![w] = @ + 1]

BeginCountsOnlyAcquires(w) ==
  \/ DEPTH[w] = 0 /\ ~LOCK /\ LOCK' = TRUE /\ DEPTH' = [DEPTH EXCEPT ![w] = 1]
  \/ DEPTH[w] # 0 /\ UNCHANGED <<LOCK, DEPTH>>

EndReleasesAlways(w) ==
  /\ DEPTH' = [DEPTH EXCEPT ![w] = @ - 1]
  /\ LOCK' = FALSE

EndNeverReleases(w) ==
  /\ DEPTH' = [DEPTH EXCEPT ![w] = @ - 1]
  /\ UNCHANGED LOCK

EndCountsTwice(w) ==
  /\ DEPTH' = [DEPTH EXCEPT ![w] = @ - 2]
  /\ LOCK' = IF DEPTH[w] = 1 THEN FALSE ELSE LOCK

(***************************************************************************)
(* __atomic_begin: at depth 0 spin until the swap finds the lock free; at  *)
(* any other depth this thread already holds it.  Either way count up.     *)
(***************************************************************************)
AtomicBegin(w) ==
  /\ IF DEPTH[w] = 0 THEN LOCK = FALSE /\ LOCK' = TRUE ELSE LOCK' = LOCK
  /\ DEPTH' = [DEPTH EXCEPT ![w] = @ + 1]

(***************************************************************************)
(* __atomic_end: count down, releasing the lock on reaching zero.          *)
(***************************************************************************)
AtomicEnd(w) ==
  /\ DEPTH' = [DEPTH EXCEPT ![w] = @ - 1]
  /\ LOCK' = IF DEPTH[w] = 1 THEN FALSE ELSE LOCK

(***************************************************************************)
(* A fiber on the worker reaches a statement that touches atomic bindings. *)
(***************************************************************************)
StartReassignment(w, t, s) ==
  /\ pc[w] = "idle"
  /\ Goto(w, "assign")
  /\ assigning' = [assigning EXCEPT ![w] = TRUE]
  /\ target' = [target EXCEPT ![w] = t]
  /\ source' = [source EXCEPT ![w] = s]
  /\ UNCHANGED <<LOCK, DEPTH, value, loaded, aborts>>

StartRead(w, s) ==
  /\ pc[w] = "idle"
  /\ Goto(w, "read")
  /\ assigning' = [assigning EXCEPT ![w] = FALSE]
  /\ source' = [source EXCEPT ![w] = s]
  /\ UNCHANGED <<LOCK, DEPTH, value, target, loaded, aborts>>

\* The outer __atomic_begin, taken before the right side is evaluated.
EnterReassignment(w) ==
  /\ pc[w] = "assign"
  /\ AtomicBegin(w)
  /\ Goto(w, "read")
  /\ UNCHANGED <<value, loaded, statement, aborts>>

EnterRead(w) ==
  /\ pc[w] = "read"
  /\ AtomicBegin(w)
  /\ Goto(w, "load1")
  /\ UNCHANGED <<value, loaded, statement, aborts>>

Load(w, word, from, to) ==
  /\ pc[w] = from
  /\ loaded' = [loaded EXCEPT ![w][word] = value[source[w]][word]]
  /\ Goto(w, to)
  /\ UNCHANGED <<LOCK, DEPTH, value, statement, aborts>>

LeaveRead(w) ==
  /\ pc[w] = "endRead"
  /\ AtomicEnd(w)
  /\ Goto(w, IF assigning[w] THEN "store1" ELSE "idle")
  /\ UNCHANGED <<value, loaded, statement, aborts>>

Store(w, word, from, to) ==
  /\ pc[w] = from
  /\ value' = [value EXCEPT ![target[w]][word] = (loaded[w][word] + 1) % Modulus]
  /\ Goto(w, to)
  /\ UNCHANGED <<LOCK, DEPTH, loaded, statement, aborts>>

LeaveReassignment(w) ==
  /\ pc[w] = "endAssign"
  /\ AtomicEnd(w)
  /\ Goto(w, "idle")
  /\ UNCHANGED <<value, loaded, statement, aborts>>

(***************************************************************************)
(* The right side faults while its fiber runs under an aborts() trap:      *)
(* fail_at suspends the guarded fiber for good and force_reset drops it.   *)
(* No __atomic_end runs; the worker carries on with another statement.     *)
(***************************************************************************)
TrappedFault(w) ==
  /\ aborts < MaxAborts
  /\ assigning[w]
  /\ pc[w] \in {"read", "store1"}
  /\ Goto(w, "idle")
  /\ aborts' = aborts + 1
  /\ UNCHANGED <<LOCK, DEPTH, value, loaded, statement>>

Step(w) ==
  \/ EnterReassignment(w)
  \/ EnterRead(w)
  \/ Load(w, 1, "load1", "load2")
  \/ Load(w, 2, "load2", "endRead")
  \/ LeaveRead(w)
  \/ Store(w, 1, "store1", "store2")
  \/ Store(w, 2, "store2", "endAssign")
  \/ LeaveReassignment(w)

Next ==
  \E w \in Worker :
    \/ \E t, s \in Binding : StartReassignment(w, t, s)
    \/ \E s \in Binding : StartRead(w, s)
    \/ Step(w)
    \/ TrappedFault(w)

(***************************************************************************)
(* The operating system keeps running every worker thread, so a worker     *)
(* whose next step stays possible takes it.  A spinning worker is not      *)
(* promised the lock: the swap loop has no queue.                          *)
(***************************************************************************)
Spec == Init /\ [][Next]_vars /\ \A w \in Worker : WF_vars(Step(w))

-----------------------------------------------------------------------------

Word == 0 .. Modulus - 1

TypeOK ==
  /\ LOCK \in BOOLEAN
  /\ DEPTH \in [Worker -> Nat]
  /\ value \in [Binding -> [1 .. 2 -> Word]]
  /\ pc \in [Worker -> Points]
  /\ assigning \in [Worker -> BOOLEAN]
  /\ target \in [Worker -> Binding]
  /\ source \in [Worker -> Binding]
  /\ loaded \in [Worker -> [1 .. 2 -> Word]]
  /\ aborts \in 0 .. MaxAborts

\* The nesting depth of the emitted code, read off its position alone.
Nesting(w) ==
  CASE pc[w] \in {"idle", "assign"} -> 0
    [] pc[w] = "read" -> IF assigning[w] THEN 1 ELSE 0
    [] pc[w] \in {"load1", "load2", "endRead"} -> IF assigning[w] THEN 2 ELSE 1
    [] OTHER -> 1

(***************************************************************************)
(* Two workers are never inside a section at once, whichever bindings they *)
(* touch, however deep they nest, and even after a trapped fault left a    *)
(* section open: __atomic_begin takes the one lock at depth zero and only  *)
(* the thread that holds it ever has a depth above zero.                   *)
(***************************************************************************)
MutualExclusion ==
  \A v, w \in Worker : Nesting(v) > 0 /\ Nesting(w) > 0 => v = w

(***************************************************************************)
(* "never loses an update": when a reassignment is about to store, the     *)
(* binding its right side read still holds the value that was read, so     *)
(* read and store act as one step (generate_variable_declaration holds the *)
(* lock over the whole right side and the store).                          *)
(***************************************************************************)
NoLostUpdate ==
  \A w \in Worker : pc[w] = "store1" => loaded[w] = value[source[w]]

(***************************************************************************)
(* "a plain read never observes a torn write": the two words a finished    *)
(* read returns were written by one store.                                 *)
(***************************************************************************)
NoTornRead ==
  \A w \in Worker : pc[w] = "endRead" => loaded[w][1] = loaded[w][2]

(***************************************************************************)
(* DEPTH counts the begins with no matching end yet: until a fault is      *)
(* trapped it is the nesting of the code the worker is executing, and zero *)
(* outside of any section.                                                 *)
(***************************************************************************)
DepthMatchesNesting ==
  aborts = 0 => \A w \in Worker : DEPTH[w] = Nesting(w)

(***************************************************************************)
(* "the region this lock covers is always short": once taken, the lock is  *)
(* eventually released.                                                    *)
(***************************************************************************)
SectionEnds == LOCK ~> ~LOCK

\* It is, unless a fault was trapped inside a section.
UntrappedSectionEnds == LOCK ~> (~LOCK \/ aborts > 0)

=============================================================================
