----------------------------- MODULE LaunchSteps -----------------------------
(***************************************************************************)
(* The inductive invariant of the launch protocol, and its preservation by *)
(* the steps that neither push nor take a wakeup token.  LaunchTokens and  *)
(* LaunchProofs have the other steps, LaunchProofs the theorems.           *)
(***************************************************************************)
EXTENDS Launch

ProgramPc == {"none", "begin", "io", "woken", "body", "placing", "look",
              "parking", "parked", "used", "exit", "done"}
CellPc == {"none", "begin", "io", "woken", "settle", "waking", "ring", "done"}

Labels ==
  /\ pc \in [Fiber -> ProgramPc \cup CellPc]
  /\ \A f \in Program : pc[f] \in ProgramPc
  /\ \A c \in Cell : pc[c] \in CellPc

\* What the argument needs of the types; the ready queues play no part in it.
Types ==
  /\ phase \in [Worker -> {"off", "drain", "run", "wait", "tokens", "stopped"}]
  /\ running = [w \in Worker |-> running[w]]
  /\ inbox \in [Worker -> Seq(Fiber)] /\ completed \in [Worker -> Seq(Fiber)]
  /\ alarm \in [Worker -> BOOLEAN] /\ events \in [Worker -> Seq(Fiber)]
  /\ home \in [Fiber -> Worker]
  /\ scope \in [Fiber -> Seq(Cell)] /\ todo \in [Fiber -> Seq(Fiber)]
  /\ waiters \in [Cell -> Seq(Fiber)]
  /\ cell \in [Cell -> {None, "pending", "ready", "faulted"}]
  /\ Labels

\* Only a fiber that exists is placed; only a worker in its queue runs a fiber.
Placed ==
  /\ \A c \in Cell : cell[c] = None => pc[c] = "none"
  /\ \A f \in Program : pc[f] = "placing" => todo[f] # <<>> /\ pc[Head(todo[f])] # "none"
Runs ==
  /\ \A w \in Worker : phase[w] # "run" => running[w] = None
  /\ \A f \in Program : pc[f] = "parking" => running[home[f]] = f

\* The kernel reports sources of fibers that are parked on one.
Sources == \A w \in Worker : \A f \in Ids(events[w]) : pc[f] = "io" /\ home[f] = w

\* A fiber that waits waits for a launch.
Waits == \A f \in Program : pc[f] \in {"look", "parking", "parked"} =>
  /\ todo[f] \in Seq(Cell)
  /\ pc[f] # "look" => todo[f] # <<>>

\* Who is on a cell's list waits for it; one already awake is the head, being woken.
OnWaiters == \A c \in Cell : \A f \in Ids(waiters[c]) :
  /\ f \in Program /\ pc[f] \in {"look", "parking", "parked"}
  /\ todo[f] # <<>> /\ Head(todo[f]) = c
  /\ pc[f] = "look" => pc[c] = "ring" /\ f = Head(waiters[c])
Once == \A c \in Cell : Distinct(waiters[c])

\* A token belongs to a fiber that has not been woken since it was pushed.
OnCompleted == \A w \in Worker : \A f \in Ids(completed[w]) :
  /\ f \in Program /\ home[f] = w /\ pc[f] \in {"parking", "parked"}
  /\ \A c \in Cell : f \in Ids(waiters[c]) => pc[c] = "ring" /\ f = Head(waiters[c])
Pushed == \A c \in Cell : pc[c] = "ring" =>
  /\ waiters[c] # <<>>
  /\ LET f == Head(waiters[c])
     IN  pc[f] \in {"parking", "parked"} => f \in Ids(completed[home[f]])

\* NoLostWakeup, from the moment a fiber has registered.
Covered == \A f \in Program : pc[f] \in {"parking", "parked"} =>
  \/ f \in Ids(completed[home[f]])
  \/ /\ f \in Ids(waiters[Head(todo[f])])
     /\ cell[Head(todo[f])] = "pending" \/ Locked(Head(todo[f]))
Alarmed == \A w \in Worker :
  /\ completed[w] # <<>> /\ phase[w] # "tokens" => alarm[w] \/ Ringing(w)
  /\ inbox[w] # <<>> /\ phase[w] \notin {"tokens", "drain"} => alarm[w] \/ Ringing(w)

Waking == Placed /\ Waits /\ OnWaiters /\ Once /\ OnCompleted /\ Pushed /\ Covered
IndInv == Types /\ Runs /\ Sources /\ Waking /\ Alarmed

-----------------------------------------------------------------------------
\* A fiber gets a label of its kind.
LEMMA NewLabel ==
  ASSUME Labels, NEW f \in Fiber, NEW l, pc' = [pc EXCEPT ![f] = l],
         f \in Program => l \in ProgramPc, f \in Cell => l \in CellPc
  PROVE  Labels'
<1>1. f \in Program \/ f \in Cell
  BY DEF Fiber
<1>2. l \in ProgramPc \cup CellPc
  BY <1>1
<1>3. \A g \in Fiber : pc'[g] = IF g = f THEN l ELSE pc[g]
  BY DEF Labels
<1>4. pc' \in [Fiber -> ProgramPc \cup CellPc]
  BY <1>2 DEF Labels
<1>5. QED
  BY <1>3, <1>4 DEF Labels, Fiber

\* Labels of fibers that wait for no cell and wake nobody.
Apart == {"none", "begin", "io", "woken", "body", "placing", "look", "used", "settle",
          "exit", "done"}

(***************************************************************************)
(* Steps of fibers that are on no cell's list and stay off: they may be    *)
(* born, place a fiber, or begin to look at a cell.                        *)
(***************************************************************************)
LEMMA Frame ==
  ASSUME IndInv, Types', NEW F \in SUBSET Fiber,
         \A g \in Fiber : g \notin F => pc'[g] = pc[g] /\ todo'[g] = todo[g],
         \A g \in F : pc[g] \in Apart /\ pc'[g] \in Apart,
         \A g \in F : pc'[g] # "none",
         \A g \in F, c \in Cell : g \notin Ids(waiters[c]),
         \A g \in F : pc'[g] = "look" => todo'[g] \in Seq(Cell),
         \A g \in F : pc'[g] = "placing" => todo'[g] # <<>> /\ pc'[Head(todo'[g])] # "none",
         \A g \in Fiber : pc[g] # "none" => home'[g] = home[g],
         \A c \in Cell : cell'[c] # cell[c] => cell[c] = None /\ cell'[c] = "pending",
         \A c \in Cell : cell'[c] = None => c \notin F,
         UNCHANGED <<completed, waiters>>
  PROVE  Waking' /\ \A w \in Worker : (\A g \in F : pc[g] # "placing") /\ Ringing(w) => Ringing(w)'
<1>0. /\ Types /\ Placed /\ Waits /\ OnWaiters /\ Once /\ OnCompleted /\ Pushed /\ Covered
      /\ \A g \in Program : g \in Fiber
      /\ \A c \in Cell : c \in Fiber
  BY DEF IndInv, Waking, Fiber
<1>1. \A g \in Fiber, v \in {"parking", "parked", "waking", "ring"} : pc'[g] = v <=> pc[g] = v
  BY DEF Apart
<1>2. \A g \in Fiber : pc[g] # "none" => pc'[g] # "none"
  OBVIOUS
<1>3. Placed'
  <2>1. ASSUME NEW c \in Cell, cell'[c] = None PROVE pc'[c] = "none"
    <3>1. cell[c] = None /\ c \notin F
      BY <2>1 DEF None
    <3>2. QED
      BY <1>0, <3>1 DEF Placed
  <2>2. ASSUME NEW g \in Program, pc'[g] = "placing"
        PROVE  todo'[g] # <<>> /\ pc'[Head(todo'[g])] # "none"
    <3>1. CASE g \in F
      BY <2>2, <3>1
    <3>2. CASE g \notin F
      <4>1. pc[g] = "placing" /\ todo'[g] = todo[g]
        BY <1>0, <2>2, <3>2
      <4>2. todo[g] # <<>> /\ pc[Head(todo[g])] # "none"
        BY <1>0, <4>1 DEF Placed
      <4>3. Head(todo[g]) \in Fiber
        <5>1. todo[g] \in Seq(Fiber)
          BY <1>0 DEF Types
        <5>2. QED
          BY <4>2, <5>1
      <4>4. QED
        BY <1>2, <4>1, <4>2, <4>3
    <3>3. QED
      BY <3>1, <3>2
  <2>3. QED
    BY <2>1, <2>2 DEF Placed
<1>4. Waits'
  <2> SUFFICES ASSUME NEW g \in Program, pc'[g] \in {"look", "parking", "parked"}
               PROVE  todo'[g] \in Seq(Cell) /\ (pc'[g] # "look" => todo'[g] # <<>>)
    BY DEF Waits
  <2>1. CASE g \in F
    BY <2>1 DEF Apart
  <2>2. CASE g \notin F
    BY <1>0, <2>2 DEF Waits
  <2>3. QED
    BY <2>1, <2>2
<1>5. OnWaiters'
  <2> SUFFICES ASSUME NEW c \in Cell, NEW g \in Ids(waiters[c])
               PROVE  /\ g \in Program /\ pc'[g] \in {"look", "parking", "parked"}
                      /\ todo'[g] # <<>> /\ Head(todo'[g]) = c
                      /\ pc'[g] = "look" => pc'[c] = "ring" /\ g = Head(waiters[c])
    BY DEF OnWaiters
  <2>1. g \notin F /\ g \in Program /\ g \in Fiber
    BY <1>0 DEF OnWaiters
  <2>2. pc'[g] = pc[g] /\ todo'[g] = todo[g] /\ (pc[c] = "ring" => pc'[c] = "ring")
    BY <1>0, <1>1, <2>1
  <2>3. QED
    BY <1>0, <2>1, <2>2 DEF OnWaiters
<1>6. Once'
  BY <1>0 DEF Once
<1>7. OnCompleted'
  <2> SUFFICES ASSUME NEW w \in Worker, NEW g \in Ids(completed[w])
               PROVE  /\ g \in Program /\ home'[g] = w /\ pc'[g] \in {"parking", "parked"}
                      /\ \A c \in Cell : g \in Ids(waiters[c]) =>
                           pc'[c] = "ring" /\ g = Head(waiters[c])
    BY DEF OnCompleted
  <2>1. /\ g \in Program /\ home[g] = w /\ pc[g] \in {"parking", "parked"}
        /\ \A c \in Cell : g \in Ids(waiters[c]) => pc[c] = "ring" /\ g = Head(waiters[c])
    BY <1>0 DEF OnCompleted
  <2>2. QED
    BY <1>0, <1>1, <2>1
<1>8. Pushed'
  <2> SUFFICES ASSUME NEW c \in Cell, pc'[c] = "ring"
               PROVE  /\ waiters[c] # <<>>
                      /\ pc'[Head(waiters[c])] \in {"parking", "parked"} =>
                           Head(waiters[c]) \in Ids(completed[home'[Head(waiters[c])]])
    BY DEF Pushed
  <2>1. /\ pc[c] = "ring" /\ waiters[c] # <<>>
        /\ pc[Head(waiters[c])] \in {"parking", "parked"} =>
             Head(waiters[c]) \in Ids(completed[home[Head(waiters[c])]])
    BY <1>0, <1>1 DEF Pushed
  <2>2. Head(waiters[c]) \in Fiber
    BY <1>0, <2>1, SMTT(30) DEF Types
  <2>3. QED
    BY <1>1, <2>1, <2>2
<1>9. Covered'
  <2> SUFFICES ASSUME NEW g \in Program, pc'[g] \in {"parking", "parked"}
               PROVE  \/ g \in Ids(completed[home'[g]])
                      \/ /\ g \in Ids(waiters[Head(todo'[g])])
                         /\ cell'[Head(todo'[g])] = "pending" \/ Locked(Head(todo[g]))'
    BY DEF Covered
  <2>1. pc[g] \in {"parking", "parked"} /\ g \notin F /\ todo'[g] = todo[g] /\ home'[g] = home[g]
    BY <1>0, <1>1 DEF Apart
  <2>2. todo[g] \in Seq(Cell) /\ todo[g] # <<>> /\ Head(todo[g]) \in Cell
    BY <1>0, <2>1 DEF Waits
  <2>3. Locked(Head(todo[g])) => Locked(Head(todo[g]))'
    BY <1>0, <1>1, <2>1, <2>2 DEF Locked
  <2>4. cell[Head(todo[g])] = "pending" => cell'[Head(todo[g])] = "pending"
    BY <2>2 DEF None
  <2>5. QED
    BY <1>0, <2>1, <2>3, <2>4 DEF Covered
<1>10. ASSUME NEW w \in Worker, Ringing(w), \A g \in F : pc[g] # "placing"
       PROVE  Ringing(w)'
  <2>1. ASSUME NEW g \in Program, pc[g] = "placing", home[Head(todo[g])] = w
        PROVE  pc'[g] = "placing" /\ home'[Head(todo'[g])] = w
    <3>1. g \notin F /\ todo'[g] = todo[g] /\ pc'[g] = pc[g]
      BY <1>0, <1>10, <2>1
    <3>2. todo[g] # <<>> /\ pc[Head(todo[g])] # "none"
      BY <1>0, <2>1 DEF Placed
    <3>3. Head(todo[g]) \in Fiber
      <4>1. todo[g] \in Seq(Fiber)
        BY <1>0 DEF Types
      <4>2. QED
        BY <3>2, <4>1
    <3>4. QED
      BY <2>1, <3>1, <3>2, <3>3
  <2>2. ASSUME NEW c \in Cell, pc[c] = "ring", home[Head(waiters[c])] = w
        PROVE  pc'[c] = "ring" /\ home'[Head(waiters[c])] = w
    <3>1. waiters[c] # <<>>
      BY <1>0, <2>2 DEF Pushed
    <3>2. Head(waiters[c]) \in Ids(waiters[c]) /\ Head(waiters[c]) \in Fiber
      <4>1. waiters[c] \in Seq(Fiber) /\ Distinct(waiters[c])
        BY <1>0 DEF Types, Once
      <4>2. QED
        BY <3>1, <4>1, TailId
    <3>3. pc[Head(waiters[c])] # "none"
      BY <1>0, <3>2 DEF OnWaiters
    <3>4. QED
      BY <1>0, <1>1, <2>2, <3>2, <3>3
  <2>3. QED
    BY <1>10, <2>1, <2>2 DEF Ringing
<1>11. QED
  BY <1>3, <1>4, <1>5, <1>6, <1>7, <1>8, <1>9, <1>10 DEF Waking

\* A fiber that does not wait, or looks at a cell whose lock is free, is on no list.
LEMMA OffList ==
  ASSUME IndInv, NEW f \in Fiber,
         \/ pc[f] \notin {"look", "parking", "parked"}
         \/ pc[f] = "look" /\ (todo[f] = <<>> \/ ~Locked(Head(todo[f])))
  PROVE  \A c \in Cell : f \notin Ids(waiters[c])
<1> SUFFICES ASSUME NEW c \in Cell, f \in Ids(waiters[c])
             PROVE  FALSE
  OBVIOUS
<1>1. /\ pc[f] \in {"look", "parking", "parked"} /\ todo[f] # <<>> /\ Head(todo[f]) = c
      /\ pc[f] = "look" => pc[c] = "ring"
  BY DEF IndInv, Waking, OnWaiters
<1>2. QED
  BY <1>1 DEF Locked

\* A step of one such fiber that touches no mailbox; it may end or park on a source.
LEMMA LocalStep ==
  ASSUME IndInv, Types', NEW f \in Fiber, NEW l \in Apart \ {"none", "placing"},
         pc[f] \in Apart \ {"none", "placing", "io"}, pc' = [pc EXCEPT ![f] = l],
         \A g \in Fiber : g # f => todo'[g] = todo[g],
         \A c \in Cell : f \notin Ids(waiters[c]),
         l = "look" => todo'[f] \in Seq(Cell),
         running[home[f]] = f,
         running' = running \/ running' = [running EXCEPT ![home[f]] = None],
         UNCHANGED <<phase, mailboxes, home, cell, waiters>>
  PROVE  IndInv'
<1>0. /\ Types /\ Runs /\ Sources /\ Alarmed
      /\ UNCHANGED <<inbox, events, completed, alarm>>
  BY DEF IndInv, mailboxes
<1>1. /\ \A g \in Fiber : g # f => pc'[g] = pc[g]
      /\ pc'[f] = l
  BY <1>0, SMTT(30) DEF Types, Labels
<1>2. /\ Waking'
      /\ \A w \in Worker : Ringing(w) => Ringing(w)'
  <2>1. /\ \A g \in Fiber : g \notin {f} => pc'[g] = pc[g] /\ todo'[g] = todo[g]
        /\ \A g \in {f} : pc[g] \in Apart /\ pc'[g] \in Apart
        /\ \A g \in {f} : pc'[g] # "none"
        /\ \A g \in {f} : pc'[g] = "look" => todo'[g] \in Seq(Cell)
        /\ \A g \in {f} : pc'[g] = "placing" => todo'[g] # <<>> /\ pc'[Head(todo'[g])] # "none"
        /\ \A g \in {f} : pc[g] # "placing"
        /\ \A g \in {f}, c \in Cell : g \notin Ids(waiters[c])
        /\ {f} \in SUBSET Fiber
    BY <1>1
  <2>2. \A c \in Cell : cell'[c] = None => c \notin {f}
    <3>1. \A c \in Cell : cell[c] = None => pc[c] = "none"
      BY DEF IndInv, Waking, Placed
    <3>2. QED
      BY <3>1
  <2>3. QED
    BY <1>0, <2>1, <2>2, Frame, Zenon
<1>3. Runs'
  <2>1. \A w \in Worker : phase[w] # "run" => running'[w] = None
    BY <1>0 DEF Runs, Types
  <2>2. ASSUME NEW g \in Program, pc'[g] = "parking" PROVE running'[home[g]] = g
    <3>1. g # f /\ pc[g] = "parking" /\ g \in Fiber
      BY <1>1, <2>2 DEF Apart, Fiber
    <3>2. running[home[g]] = g /\ home[g] \in Worker
      BY <1>0, <3>1 DEF Runs, Types
    <3>3. QED
      BY <1>0, <3>1, <3>2 DEF Types
  <2>3. QED
    BY <2>1, <2>2 DEF Runs
<1>4. Sources'
  <2> SUFFICES ASSUME NEW w \in Worker, NEW g \in Ids(events[w])
               PROVE  pc'[g] = "io" /\ home[g] = w
    BY <1>0 DEF Sources
  <2>1. pc[g] = "io" /\ home[g] = w
    BY <1>0 DEF Sources
  <2>2. QED
    BY <2>1
<1>5. Alarmed'
  BY <1>0, <1>2 DEF Alarmed
<1>6. QED
  BY <1>2, <1>3, <1>4, <1>5 DEF IndInv

\* force goes to look at its cell: the fiber's own
\* label only.
LEMMA ForceValueStep ==
  ASSUME IndInv, NEW f \in Fiber, NEW c \in Cell, ForceValue(f, c)
  PROVE  IndInv'
<1>1. /\ Types /\ Runs /\ Placed /\ Waits
      /\ pc[f] \in {"body"} /\ running[home[f]] = f
      /\ UNCHANGED <<phase, mailboxes, home, cell, waiters>>
  BY DEF IndInv, Waking, ForceValue, At, loops, mailboxes, cells, Apart
<1>2. running' = running \/ running' = [running EXCEPT ![home[f]] = None]
  BY DEF ForceValue, Yield, loops
<1>3. pc' = [pc EXCEPT ![f] = "look"]
  BY <1>1 DEF ForceValue, Goto, Types, Labels
<1>4. \A g \in Fiber : g # f => todo'[g] = todo[g]
  BY <1>1 DEF ForceValue, Types
<1>5. todo' \in [Fiber -> Seq(Fiber)] /\ todo'[f] \in Seq(Cell)
  <2>1. todo'[f] = <<c>> /\ todo' = [todo EXCEPT ![f] = <<c>>]
    BY <1>1 DEF ForceValue, Types
  <2>2. c \in Fiber
    BY DEF Fiber
  <2>3. QED
    BY <1>1, <2>1, <2>2 DEF Types
<1>6. Types'
  <2>1. scope' \in [Fiber -> Seq(Cell)]
    BY <1>1 DEF ForceValue, Types
  <2>2. f \in Program
    BY <1>1, Zenon DEF Types, Labels, Fiber, CellPc
  <2>3. Labels'
    BY <1>1, <1>3, <2>2, LaunchAssumption, NewLabel, Zenon DEF Types, ProgramPc, Program
  <2>4. running' = [w \in Worker |-> running'[w]]
    BY <1>1, <1>2 DEF Types
  <2>5. QED
    BY <1>1, <1>5, <2>1, <2>3, <2>4 DEF Types, mailboxes
<1>7. \A d \in Cell : f \notin Ids(waiters[d])
  BY <1>1, OffList
<1>8. QED
  BY <1>1, <1>2, <1>3, <1>4, <1>5, <1>6, <1>7, LocalStep, Zenon DEF Apart

\* __server_kill's settle goes to look at a handler's cell.
LEMMA AwaitCellStep ==
  ASSUME IndInv, NEW f \in Fiber, NEW c \in Cell, AwaitCell(f, c)
  PROVE  IndInv'
<1>1. /\ Types /\ Runs /\ Placed /\ Waits
      /\ pc[f] \in {"body"} /\ running[home[f]] = f
      /\ UNCHANGED <<phase, mailboxes, home, cell, waiters>>
  BY DEF IndInv, Waking, AwaitCell, At, loops, mailboxes, cells, Apart
<1>2. running' = running \/ running' = [running EXCEPT ![home[f]] = None]
  BY DEF AwaitCell, Yield, loops
<1>3. pc' = [pc EXCEPT ![f] = "look"]
  BY <1>1 DEF AwaitCell, Goto, Types, Labels
<1>4. \A g \in Fiber : g # f => todo'[g] = todo[g]
  BY <1>1 DEF AwaitCell, Types
<1>5. todo' \in [Fiber -> Seq(Fiber)] /\ todo'[f] \in Seq(Cell)
  <2>1. todo'[f] = <<c>> /\ todo' = [todo EXCEPT ![f] = <<c>>]
    BY <1>1 DEF AwaitCell, Types
  <2>2. c \in Fiber
    BY DEF Fiber
  <2>3. QED
    BY <1>1, <2>1, <2>2 DEF Types
<1>6. Types'
  <2>1. scope' \in [Fiber -> Seq(Cell)]
    BY <1>1 DEF AwaitCell, Types
  <2>2. f \in Program
    BY <1>1, Zenon DEF Types, Labels, Fiber, CellPc
  <2>3. Labels'
    BY <1>1, <1>3, <2>2, LaunchAssumption, NewLabel, Zenon DEF Types, ProgramPc, Program
  <2>4. running' = [w \in Worker |-> running'[w]]
    BY <1>1, <1>2 DEF Types
  <2>5. QED
    BY <1>1, <1>5, <2>1, <2>3, <2>4 DEF Types, mailboxes
<1>7. \A d \in Cell : f \notin Ids(waiters[d])
  BY <1>1, OffList
<1>8. QED
  BY <1>1, <1>2, <1>3, <1>4, <1>5, <1>6, <1>7, LocalStep, Zenon DEF Apart

\* __block_scope_join takes the block's launches to settle.
LEMMA JoinStep ==
  ASSUME IndInv, NEW f \in Fiber, Join(f)
  PROVE  IndInv'
<1>1. /\ Types /\ Runs /\ Placed /\ Waits
      /\ pc[f] \in {"body", "used"} /\ running[home[f]] = f
      /\ UNCHANGED <<phase, mailboxes, home, cell, waiters>>
  BY DEF IndInv, Waking, Join, At, loops, mailboxes, cells, Apart
<1>2. running' = running \/ running' = [running EXCEPT ![home[f]] = None]
  BY DEF Join, Yield, loops
<1>3. pc' = [pc EXCEPT ![f] = "look"]
  BY <1>1 DEF Join, Goto, Types, Labels
<1>4. \A g \in Fiber : g # f => todo'[g] = todo[g]
  BY <1>1 DEF Join, Types
<1>5. todo' \in [Fiber -> Seq(Fiber)] /\ todo'[f] \in Seq(Cell)
  <2>1. todo'[f] = scope[f] /\ todo' = [todo EXCEPT ![f] = scope[f]]
    BY <1>1 DEF Join, Types
  <2>2. scope[f] \in Seq(Cell) /\ scope[f] \in Seq(Fiber)
    BY <1>1 DEF Types, Fiber
  <2>3. QED
    BY <1>1, <2>1, <2>2 DEF Types
<1>6. Types'
  <2>1. scope' \in [Fiber -> Seq(Cell)]
    BY <1>1 DEF Join, Types
  <2>2. f \in Program
    BY <1>1, Zenon DEF Types, Labels, Fiber, CellPc
  <2>3. Labels'
    BY <1>1, <1>3, <2>2, LaunchAssumption, NewLabel, Zenon DEF Types, ProgramPc, Program
  <2>4. running' = [w \in Worker |-> running'[w]]
    BY <1>1, <1>2 DEF Types
  <2>5. QED
    BY <1>1, <1>5, <2>1, <2>3, <2>4 DEF Types, mailboxes
<1>7. \A c \in Cell : f \notin Ids(waiters[c])
  BY <1>1, OffList
<1>8. QED
  BY <1>1, <1>2, <1>3, <1>4, <1>5, <1>6, <1>7, LocalStep, Zenon DEF Apart

\* A forced fault turns the force into a join of the block.
LEMMA FindFaultStep ==
  ASSUME IndInv, NEW f \in Fiber, FindFault(f)
  PROVE  IndInv'
<1>1. /\ Types /\ Runs /\ Placed /\ Waits
      /\ pc[f] \in {"look"} /\ running[home[f]] = f
      /\ UNCHANGED <<phase, mailboxes, home, cell, waiters>>
  BY DEF IndInv, Waking, FindFault, Looks, At, loops, mailboxes, cells, Apart
<1>2. running' = running \/ running' = [running EXCEPT ![home[f]] = None]
  BY DEF FindFault, Yield, loops
<1>3. pc' = [pc EXCEPT ![f] = "look"]
  BY <1>1 DEF FindFault, Goto, Types, Labels
<1>4. \A g \in Fiber : g # f => todo'[g] = todo[g]
  BY <1>1 DEF FindFault, Types
<1>5. todo' \in [Fiber -> Seq(Fiber)] /\ todo'[f] \in Seq(Cell)
  <2>1. todo'[f] = scope[f] /\ todo' = [todo EXCEPT ![f] = scope[f]]
    BY <1>1 DEF FindFault, Types
  <2>2. scope[f] \in Seq(Cell) /\ scope[f] \in Seq(Fiber)
    BY <1>1 DEF Types, Fiber
  <2>3. QED
    BY <1>1, <2>1, <2>2 DEF Types
<1>6. Types'
  <2>1. scope' \in [Fiber -> Seq(Cell)]
    BY <1>1 DEF FindFault, Types
  <2>2. f \in Program
    BY <1>1, Zenon DEF Types, Labels, Fiber, CellPc
  <2>3. Labels'
    BY <1>1, <1>3, <2>2, LaunchAssumption, NewLabel, Zenon DEF Types, ProgramPc, Program
  <2>4. running' = [w \in Worker |-> running'[w]]
    BY <1>1, <1>2 DEF Types
  <2>5. QED
    BY <1>1, <1>5, <2>1, <2>3, <2>4 DEF Types, mailboxes
<1>7. \A c \in Cell : f \notin Ids(waiters[c])
  BY <1>1, OffList DEF FindFault, Looks
<1>8. QED
  BY <1>1, <1>2, <1>3, <1>4, <1>5, <1>6, <1>7, LocalStep, Zenon DEF Apart

\* settle_all goes on to the next launch of the block.
LEMMA SettledStep ==
  ASSUME IndInv, NEW f \in Fiber, Settled(f)
  PROVE  IndInv'
<1>1. /\ Types /\ Runs /\ Placed /\ Waits
      /\ pc[f] \in {"look"} /\ running[home[f]] = f
      /\ UNCHANGED <<phase, mailboxes, home, cell, waiters>>
  BY DEF IndInv, Waking, Settled, Looks, At, loops, mailboxes, cells, Apart
<1>2. running' = running \/ running' = [running EXCEPT ![home[f]] = None]
  BY DEF Settled, Yield, loops
<1>3. pc' = [pc EXCEPT ![f] = "look"]
  BY <1>1 DEF Settled, Goto, Types, Labels
<1>4. \A g \in Fiber : g # f => todo'[g] = todo[g]
  BY <1>1 DEF Settled, Types
<1>5. todo' \in [Fiber -> Seq(Fiber)] /\ todo'[f] \in Seq(Cell)
  <2>1. todo'[f] = Tail(todo[f]) /\ todo' = [todo EXCEPT ![f] = Tail(todo[f])] /\ todo[f] # <<>>
    BY <1>1 DEF Settled, Types, Looks
  <2>2. f \in Program
    BY <1>1, Zenon DEF Types, Labels, Fiber, CellPc
  <2>3. todo[f] \in Seq(Cell) /\ todo[f] \in Seq(Fiber)
    BY <1>1, <2>2 DEF Types, Waits
  <2>4. Tail(todo[f]) \in Seq(Cell) /\ Tail(todo[f]) \in Seq(Fiber)
    BY <2>1, <2>3
  <2>5. QED
    BY <1>1, <2>1, <2>4 DEF Types
<1>6. Types'
  <2>1. scope' \in [Fiber -> Seq(Cell)]
    BY <1>1 DEF Settled, Types
  <2>2. f \in Program
    BY <1>1, Zenon DEF Types, Labels, Fiber, CellPc
  <2>3. Labels'
    BY <1>1, <1>3, <2>2, LaunchAssumption, NewLabel, Zenon DEF Types, ProgramPc, Program
  <2>4. running' = [w \in Worker |-> running'[w]]
    BY <1>1, <1>2 DEF Types
  <2>5. QED
    BY <1>1, <1>5, <2>1, <2>3, <2>4 DEF Types, mailboxes
<1>7. \A c \in Cell : f \notin Ids(waiters[c])
  BY <1>1, OffList DEF Settled, Looks
<1>8. QED
  BY <1>1, <1>2, <1>3, <1>4, <1>5, <1>6, <1>7, LocalStep, Zenon DEF Apart

\* force returns the value it found.
LEMMA ForcedStep ==
  ASSUME IndInv, NEW f \in Fiber, Forced(f)
  PROVE  IndInv'
<1>1. /\ Types /\ Runs /\ Placed /\ Waits
      /\ pc[f] \in {"look"} /\ running[home[f]] = f
      /\ UNCHANGED <<phase, mailboxes, home, cell, waiters>>
  BY DEF IndInv, Waking, Forced, At, loops, mailboxes, cells, Apart
<1>2. running' = running \/ running' = [running EXCEPT ![home[f]] = None]
  BY DEF Forced, Yield, loops
<1>3. pc' = [pc EXCEPT ![f] = "used"]
  BY <1>1 DEF Forced, Goto, Types, Labels
<1>4. \A g \in Fiber : g # f => todo'[g] = todo[g]
  BY <1>1 DEF Forced, Types
<1>5. todo' \in [Fiber -> Seq(Fiber)] /\ TRUE
  BY <1>1, Zenon DEF Forced, Types, Fiber
<1>6. Types'
  <2>1. scope' \in [Fiber -> Seq(Cell)]
    BY <1>1 DEF Forced, Types
  <2>2. f \in Program
    BY <1>1, Zenon DEF Types, Labels, Fiber, CellPc
  <2>3. Labels'
    BY <1>1, <1>3, <2>2, LaunchAssumption, NewLabel, Zenon DEF Types, ProgramPc, Program
  <2>4. running' = [w \in Worker |-> running'[w]]
    BY <1>1, <1>2 DEF Types
  <2>5. QED
    BY <1>1, <1>5, <2>1, <2>3, <2>4 DEF Types, mailboxes
<1>7. \A c \in Cell : f \notin Ids(waiters[c])
  BY <1>1, OffList DEF Forced
<1>8. QED
  BY <1>1, <1>2, <1>3, <1>4, <1>5, <1>6, <1>7, LocalStep, Zenon DEF Apart

\* A fiber that left its block finishes; nobody waits for a program fiber's
\* label.
LEMMA FinishStep ==
  ASSUME IndInv, NEW f \in Fiber, Finish(f)
  PROVE  IndInv'
<1>1. /\ Types /\ Runs /\ Placed /\ Waits
      /\ pc[f] \in {"body", "used"} /\ running[home[f]] = f
      /\ UNCHANGED <<phase, mailboxes, home, cell, waiters>>
  BY DEF IndInv, Waking, Finish, At, loops, mailboxes, cells, Apart
<1>2. running' = running \/ running' = [running EXCEPT ![home[f]] = None]
  BY DEF Finish, Yield, loops
<1>3. pc' = [pc EXCEPT ![f] = "done"]
  BY <1>1 DEF Finish, Goto, Types, Labels
<1>4. \A g \in Fiber : g # f => todo'[g] = todo[g]
  BY <1>1 DEF Finish, Types
<1>5. todo' \in [Fiber -> Seq(Fiber)] /\ TRUE
  BY <1>1 DEF Finish, Types, Fiber
<1>6. Types'
  <2>1. scope' \in [Fiber -> Seq(Cell)]
    BY <1>1 DEF Finish, Types
  <2>2. f \in Program
    BY <1>1, Zenon DEF Types, Labels, Fiber, CellPc
  <2>3. Labels'
    BY <1>1, <1>3, <2>2, LaunchAssumption, NewLabel, Zenon DEF Types, ProgramPc, Program
  <2>4. running' = [w \in Worker |-> running'[w]]
    BY <1>1, <1>2 DEF Types
  <2>5. QED
    BY <1>1, <1>5, <2>1, <2>3, <2>4 DEF Types, mailboxes
<1>7. \A c \in Cell : f \notin Ids(waiters[c])
  BY <1>1, OffList
<1>8. QED
  BY <1>1, <1>2, <1>3, <1>4, <1>5, <1>6, <1>7, LocalStep, Zenon DEF Apart

\* A resumed fiber goes on with its code.
LEMMA ContinueStep ==
  ASSUME IndInv, NEW f \in Fiber, Continue(f)
  PROVE  IndInv'
<1> DEFINE l == IF f \in Program THEN "body" ELSE "settle"
<1>1. /\ Types /\ pc[f] \in {"begin", "woken"} /\ running[home[f]] = f
      /\ UNCHANGED <<phase, running, mailboxes, home, cell, waiters, todo, scope>>
      /\ pc' = [pc EXCEPT ![f] = l]
  BY DEF IndInv, Continue, At, Goto, loops, mailboxes, cells
<1>2. Types'
  <2>1. Labels'
    BY <1>1, LaunchAssumption, NewLabel, Zenon DEF Types, ProgramPc, CellPc, Program, Fiber
  <2>2. QED
    BY <1>1, <2>1 DEF Types, mailboxes
<1>3. \A c \in Cell : f \notin Ids(waiters[c])
  BY <1>1, OffList
<1>4. l \in Apart \ {"none", "placing"} /\ l # "look"
  BY DEF Apart
<1> HIDE DEF l
<1>5. QED
  BY <1>1, <1>2, <1>3, <1>4, LocalStep, Zenon DEF Apart

\* A fiber parks on a source of its own worker.
LEMMA AwaitSourceStep ==
  ASSUME IndInv, NEW f \in Fiber, AwaitSource(f)
  PROVE  IndInv'
<1>1. /\ Types /\ pc[f] = "begin" /\ running[home[f]] = f
      /\ UNCHANGED <<phase, mailboxes, home, cell, waiters, todo, scope>>
      /\ pc' = [pc EXCEPT ![f] = "io"]
      /\ running' = [running EXCEPT ![home[f]] = None]
  BY DEF IndInv, AwaitSource, At, Goto, Yield, loops, mailboxes, cells
<1>2. Types'
  <2>1. Labels'
    BY <1>1, NewLabel, Zenon DEF Types, ProgramPc, CellPc
  <2>2. running' = [w \in Worker |-> running'[w]]
    BY <1>1, Zenon DEF Types
  <2>3. QED
    BY <1>1, <2>1, <2>2 DEF Types, mailboxes
<1>3. \A c \in Cell : f \notin Ids(waiters[c])
  BY <1>1, OffList
<1>4. QED
  BY <1>1, <1>2, <1>3, LocalStep, Zenon DEF Apart

\* The join is over; exit_on_faults may end the process.
LEMMA JoinedStep ==
  ASSUME IndInv, NEW f \in Fiber, Joined(f)
  PROVE  IndInv'
<1>1. /\ Types /\ pc[f] = "look" /\ running[home[f]] = f /\ todo[f] = <<>>
      /\ UNCHANGED <<phase, running, mailboxes, home, cell, waiters, todo>>
  BY DEF IndInv, Joined, At, loops, mailboxes, cells
<1>2. PICK l \in {"exit", "body"} :
        pc' = [pc EXCEPT ![f] = l] /\ (scope' = scope \/ scope' = [scope EXCEPT ![f] = <<>>])
  BY DEF Joined, Goto
<1>3. Types'
  <2>1. f \in Program
    BY <1>1, Zenon DEF Types, Labels, Fiber, CellPc
  <2>2. Labels'
    BY <1>1, <1>2, <2>1, LaunchAssumption, NewLabel, Zenon DEF Types, ProgramPc, Program
  <2>3. scope' \in [Fiber -> Seq(Cell)]
    <3>1. <<>> \in Seq(Cell) /\ scope \in [Fiber -> Seq(Cell)]
      BY <1>1 DEF Types
    <3>2. [scope EXCEPT ![f] = <<>>] \in [Fiber -> Seq(Cell)]
      BY <3>1
    <3>3. QED
      BY <1>2, <3>1, <3>2, Zenon
  <2>4. QED
    BY <1>1, <2>2, <2>3 DEF Types, mailboxes
<1>4. \A c \in Cell : f \notin Ids(waiters[c])
  BY <1>1, OffList
<1>5. QED
  BY <1>1, <1>2, <1>3, <1>4, LocalStep, Zenon DEF Apart

-----------------------------------------------------------------------------
(***************************************************************************)
(* The worker loop                                                         *)
(***************************************************************************)

\* A step of the loops that hands over nothing; alarms may be set.
LEMMA LoopStep ==
  ASSUME IndInv, Types', Runs',
         \A w \in Worker : phase'[w] # phase[w] => phase[w] = "run",
         \A w \in Worker : alarm[w] => alarm'[w],
         UNCHANGED <<inbox, events, completed, fibers, cells>>
  PROVE  IndInv'
<1>1. /\ Sources /\ Waking /\ Alarmed
      /\ UNCHANGED <<pc, home, scope, todo, cell, waiters>>
  BY SMTT(30) DEF IndInv, fibers, cells
<1>2. Sources' /\ Waking'
  BY <1>1 DEF Sources, Waking, Placed, Waits, OnWaiters, Once, OnCompleted, Pushed, Covered, Locked
<1>3. Alarmed'
  <2>1. \A w \in Worker : Ringing(w) => Ringing(w)'
    BY <1>1 DEF Ringing
  <2>2. QED
    BY <1>1, <2>1 DEF Alarmed
<1>4. QED
  BY <1>2, <1>3 DEF IndInv

\* run_ready_queue resumes the head of the queue.
LEMMA ResumeStep ==
  ASSUME IndInv, NEW w \in Worker, Resume(w)
  PROVE  IndInv'
<1>1. /\ Types /\ Runs /\ phase[w] = "run" /\ running[w] = None
      /\ running' = [running EXCEPT ![w] = Head(ready[w])]
      /\ UNCHANGED <<phase, inbox, events, completed, alarm, fibers, cells>>
      /\ UNCHANGED <<pc, home, scope, todo, cell, waiters>>
  BY DEF IndInv, Resume, mailboxes, fibers, cells
<1>2. \A v \in Worker : running'[v] = IF v = w THEN Head(ready[w]) ELSE running[v]
  BY <1>1 DEF Types
<1>3. Types'
  <2>1. running' = [v \in Worker |-> running'[v]]
    BY <1>1, Zenon DEF Types
  <2>2. QED
    BY <1>1, <2>1 DEF Types, Labels
<1>4. Runs'
  <2>1. \A v \in Worker : phase[v] # "run" => running'[v] = None
    BY <1>1, <1>2 DEF Runs
  <2>2. ASSUME NEW f \in Program, pc[f] = "parking" PROVE running'[home[f]] = f
    <3>1. running[home[f]] = f /\ home[f] \in Worker /\ f # None
      BY <1>1, <2>2, LaunchAssumption, Zenon DEF Runs, Types, Fiber
    <3>2. QED
      BY <1>1, <1>2, <3>1
  <2>3. QED
    BY <1>1, <2>1, <2>2 DEF Runs
<1>5. QED
  BY <1>1, <1>3, <1>4, LoopStep

\* The queue is empty: the worker blocks or its loop ends.
LEMMA EmptyQueueStep ==
  ASSUME IndInv, NEW w \in Worker, NEW p \in {"wait", "stopped"}, QueueEmpty(w),
         phase' = [phase EXCEPT ![w] = p],
         UNCHANGED <<ready, running, mailboxes, fibers, cells>>
  PROVE  IndInv'
<1>1. /\ Types /\ Runs /\ phase[w] = "run" /\ running[w] = None
      /\ UNCHANGED <<running, inbox, events, completed, alarm, fibers, cells>>
      /\ UNCHANGED <<pc, home, scope, todo, cell, waiters>>
  BY DEF IndInv, QueueEmpty, mailboxes, fibers, cells
<1>2. Types'
  BY <1>1 DEF Types, Labels
<1>3. Runs'
  BY <1>1 DEF Runs, Types
<1>4. \A v \in Worker : phase'[v] # phase[v] => phase[v] = "run"
  BY <1>1 DEF Types
<1>5. QED
  BY <1>1, <1>2, <1>3, <1>4, LoopStep

\* The end of run: at most, alarms are set.
LEMMA EndingStep ==
  ASSUME IndInv, StoreShutdown \/ WakeWorkers \/ Return
  PROVE  IndInv'
<1>1. /\ Types /\ Runs
      /\ UNCHANGED <<phase, running, inbox, events, completed, fibers, cells>>
      /\ UNCHANGED <<pc, home, scope, todo, cell, waiters>>
      /\ alarm' = alarm \/ alarm' = [w \in Worker |-> IF phase[w] = "off" THEN alarm[w] ELSE TRUE]
  BY Zenon DEF IndInv, StoreShutdown, WakeWorkers, Return, loops, mailboxes, fibers, cells
<1>2. alarm' \in [Worker -> BOOLEAN] /\ \A w \in Worker : alarm[w] => alarm'[w]
  BY <1>1, Zenon DEF Types
<1>3. Types' /\ Runs'
  BY <1>1, <1>2 DEF Types, Labels, Runs
<1>4. QED
  BY <1>1, <1>2, <1>3, LoopStep

\* The kernel reports a source of a fiber parked on it.
LEMMA SourceReadyStep ==
  ASSUME IndInv, NEW f \in Fiber, SourceReady(f)
  PROVE  IndInv'
<1>1. /\ Types /\ Runs /\ Sources /\ Waking /\ Alarmed /\ pc[f] = "io"
      /\ events' = [events EXCEPT ![home[f]] = Append(@, f)]
      /\ UNCHANGED <<phase, running, inbox, completed, alarm, pc, home, scope, todo, cell, waiters>>
  BY DEF IndInv, SourceReady, loops, fibers, cells
<1>2. home[f] \in Worker /\ events[home[f]] \in Seq(Fiber)
  BY <1>1 DEF Types
<1>3. /\ Append(events[home[f]], f) \in Seq(Fiber)
      /\ Ids(Append(events[home[f]], f)) = Ids(events[home[f]]) \cup {f}
  BY <1>2, AppendId
<1>4. \A w \in Worker : events'[w] = IF w = home[f] THEN Append(events[home[f]], f) ELSE events[w]
  BY <1>1 DEF Types
<1>5. Types'
  <2>1. events' \in [Worker -> Seq(Fiber)]
    BY <1>1, <1>3, SMTT(30) DEF Types
  <2>2. QED
    BY <1>1, <2>1 DEF Types, Labels
<1>6. Sources'
  <2> SUFFICES ASSUME NEW w \in Worker, NEW g \in Ids(events'[w])
               PROVE  pc[g] = "io" /\ home[g] = w
    BY <1>1 DEF Sources
  <2>1. g \in Ids(events[w]) \/ (g = f /\ w = home[f])
    BY <1>3, <1>4, SMTT(30)
  <2>2. QED
    BY <1>1, <2>1 DEF Sources
<1>7. Runs' /\ Waking'
  <2>1. Runs'
    BY <1>1, SMTT(30) DEF Runs
  <2>2. Placed' /\ Waits' /\ OnWaiters' /\ Once'
    BY <1>1, SMTT(30) DEF Waking, Placed, Waits, OnWaiters, Once
  <2>3. OnCompleted' /\ Pushed' /\ Covered'
    BY <1>1, SMTT(30) DEF Waking, OnCompleted, Pushed, Covered, Locked
  <2>4. QED
    BY <2>1, <2>2, <2>3, Zenon DEF Waking
<1>8. Alarmed'
  <2>1. \A w \in Worker : Ringing(w) => Ringing(w)'
    BY <1>1 DEF Ringing
  <2>2. QED
    BY <1>1, <2>1 DEF Alarmed
<1>9. QED
  BY <1>5, <1>6, <1>7, <1>8, SMTT(30) DEF IndInv

\* drain moves the whole inbox to the ready queue.
LEMMA DrainStep ==
  ASSUME IndInv, NEW w \in Worker, Drain(w)
  PROVE  IndInv'
<1>1. /\ Types /\ Runs /\ Sources /\ Waking /\ Alarmed /\ phase[w] = "drain"
      /\ phase' = [phase EXCEPT ![w] = "run"]
      /\ inbox' = [inbox EXCEPT ![w] = <<>>]
      /\ UNCHANGED <<running, events, completed, alarm, pc, home, scope, todo, cell, waiters>>
  BY DEF IndInv, Drain, fibers, cells
<1>2. \A v \in Worker : /\ phase'[v] = IF v = w THEN "run" ELSE phase[v]
                        /\ inbox'[v] = IF v = w THEN <<>> ELSE inbox[v]
  BY <1>1 DEF Types
<1>3. Types'
  <2>1. <<>> \in Seq(Fiber)
    OBVIOUS
  <2>2. inbox' \in [Worker -> Seq(Fiber)]
    BY <1>1, <2>1 DEF Types
  <2>3. QED
    BY <1>1, <2>2 DEF Types, Labels
<1>4. Runs'
  BY <1>1, <1>2, SMTT(30) DEF Runs
<1>5. Sources' /\ Waking'
  <2>1. Sources'
    BY <1>1, SMTT(30) DEF Sources
  <2>2. Placed' /\ Waits' /\ OnWaiters' /\ Once'
    BY <1>1, SMTT(30) DEF Waking, Placed, Waits, OnWaiters, Once
  <2>3. OnCompleted' /\ Pushed' /\ Covered'
    BY <1>1, SMTT(30) DEF Waking, OnCompleted, Pushed, Covered, Locked
  <2>4. QED
    BY <2>1, <2>2, <2>3, Zenon DEF Waking
<1>6. Alarmed'
  <2>1. \A v \in Worker : Ringing(v) => Ringing(v)'
    BY <1>1 DEF Ringing
  <2>2. ASSUME NEW v \in Worker
        PROVE  /\ completed[v] # <<>> /\ phase'[v] # "tokens" => alarm[v] \/ Ringing(v)'
               /\ inbox'[v] # <<>> /\ phase'[v] \notin {"tokens", "drain"} => alarm[v] \/ Ringing(v)'
    BY <1>1, <1>2, <2>1 DEF Alarmed
  <2>3. QED
    BY <1>1, <2>2 DEF Alarmed
<1>7. QED
  BY <1>3, <1>4, <1>5, <1>6 DEF IndInv

\* Reactor::wait returns: the alarm is taken down, and the next thing read is
\* the completed list.
LEMMA PollStep ==
  ASSUME IndInv, NEW w \in Worker, Poll(w)
  PROVE  IndInv'
<1> DEFINE F == Ids(events[w])
<1>1. /\ Types /\ Runs /\ Sources /\ Alarmed /\ phase[w] = "wait"
      /\ phase' = [phase EXCEPT ![w] = "tokens"]
      /\ alarm' = [alarm EXCEPT ![w] = FALSE]
      /\ events' = [events EXCEPT ![w] = <<>>]
      /\ pc' = [f \in Fiber |-> IF f \notin F THEN pc[f] ELSE IF pc[f] = "io" THEN "woken" ELSE "look"]
      /\ UNCHANGED <<running, inbox, completed, home, scope, todo, cell, waiters>>
  BY DEF IndInv, Poll, WakeUp, cells
<1>2. \A v \in Worker : /\ phase'[v] = IF v = w THEN "tokens" ELSE phase[v]
                        /\ alarm'[v] = IF v = w THEN FALSE ELSE alarm[v]
                        /\ events'[v] = IF v = w THEN <<>> ELSE events[v]
  BY <1>1, SMTT(30) DEF Types
<1>3. \A f \in F : f \in Fiber /\ pc[f] = "io" /\ home[f] = w
  <2>1. events[w] \in Seq(Fiber)
    BY <1>1 DEF Types
  <2>2. \A f \in F : f \in Fiber
    BY <2>1, SMTT(30) DEF Ids
  <2>3. QED
    BY <1>1, <2>2 DEF Sources
<1> HIDE DEF F
<1>4. \A f \in Fiber : pc'[f] = IF f \in F THEN "woken" ELSE pc[f]
  BY <1>1, <1>3
<1>5. Types'
  <2>1. Labels'
    <3>1. \A f \in Program : pc'[f] \in ProgramPc
      BY <1>1, <1>4 DEF Types, Labels, ProgramPc, Fiber
    <3>2. \A c \in Cell : pc'[c] \in CellPc
      BY <1>1, <1>4, Zenon DEF Types, Labels, CellPc, Fiber
    <3>3. \A f \in Fiber : pc'[f] \in ProgramPc \cup CellPc
      BY <3>1, <3>2 DEF Fiber
    <3>4. QED
      BY <1>1, <3>1, <3>2, <3>3 DEF Labels
  <2>2. <<>> \in Seq(Fiber)
    OBVIOUS
  <2>3. events' \in [Worker -> Seq(Fiber)]
    BY <1>1, <2>2 DEF Types
  <2>4. alarm' \in [Worker -> BOOLEAN]
    BY <1>1 DEF Types
  <2>5. QED
    BY <1>1, <2>1, <2>3, <2>4 DEF Types
<1>6. /\ Waking'
      /\ \A v \in Worker : Ringing(v) => Ringing(v)'
  <2>1. /\ F \in SUBSET Fiber
        /\ \A g \in Fiber : g \notin F => pc'[g] = pc[g] /\ todo'[g] = todo[g]
        /\ \A g \in F : pc[g] = "io" /\ pc'[g] = "woken"
    BY <1>1, <1>3, <1>4
  <2>2. \A g \in F, c \in Cell : g \notin Ids(waiters[c])
    BY <2>1, OffList
  <2>3. \A c \in Cell : cell'[c] = None => c \notin F
    BY <1>1, <2>1, SMTT(30) DEF IndInv, Waking, Placed
  <2>4. QED
    BY <1>1, <1>5, <2>1, <2>2, <2>3, Frame, Zenon DEF Apart
<1>7. Runs'
  <2>1. \A v \in Worker : phase'[v] # "run" => running[v] = None
    BY <1>1, <1>2, SMTT(30) DEF Runs
  <2>2. \A f \in Program : pc'[f] = "parking" => running[home[f]] = f
    BY <1>1, <1>4 DEF Runs, Fiber
  <2>3. QED
    BY <1>1, <2>1, <2>2 DEF Runs
<1>8. Sources'
  <2> SUFFICES ASSUME NEW v \in Worker, NEW g \in Ids(events'[v])
               PROVE  pc'[g] = "io" /\ home[g] = v
    BY <1>1 DEF Sources
  <2>0. Ids(<<>>) = {}
    BY DEF Ids
  <2>1. v # w
    BY <1>2, <2>0, Zenon
  <2>2. g \in Ids(events[v]) /\ pc[g] = "io" /\ home[g] = v
    BY <1>1, <1>2, <2>1 DEF Sources
  <2>3. g \in Fiber
    <3>1. events[v] \in Seq(Fiber)
      BY <1>1 DEF Types
    <3>2. QED
      BY <2>2, <3>1 DEF Ids
  <2>4. QED
    BY <1>3, <1>4, <2>1, <2>2, <2>3
<1>9. Alarmed'
  <2>1. ASSUME NEW v \in Worker
        PROVE  /\ completed[v] # <<>> /\ phase'[v] # "tokens" => alarm'[v] \/ Ringing(v)'
               /\ inbox[v] # <<>> /\ phase'[v] \notin {"tokens", "drain"} => alarm'[v] \/ Ringing(v)'
    BY <1>1, <1>2, <1>6, Zenon DEF Alarmed
  <2>2. QED
    BY <1>1, <2>1 DEF Alarmed
<1>10. QED
  BY <1>5, <1>6, <1>7, <1>8, <1>9 DEF IndInv

-----------------------------------------------------------------------------
(***************************************************************************)
(* Launching and placing                                                   *)
(***************************************************************************)

\* Registry::place up to the push, for a new fiber g of either kind.
LEMMA PlaceStep ==
  ASSUME IndInv, NEW f \in Program, NEW g \in Fiber, NEW w \in Worker, f # g,
         pc[f] = "body", pc[g] = "none", Place(f, g, w),
         pc' = [pc EXCEPT ![f] = "placing", ![g] = "begin"],
         cell' \in [Cell -> {None, "pending", "ready", "faulted"}],
         \A c \in Cell : cell'[c] # cell[c] => cell[c] = None /\ cell'[c] = "pending",
         \A c \in Cell : cell'[c] = None => c # g,
         UNCHANGED <<running, events, completed, alarm, scope, waiters>>
  PROVE  IndInv'
<1>1. /\ Types /\ Runs /\ Sources /\ Alarmed
      /\ phase' = [v \in Worker |-> IF phase[v] = "off" THEN "drain" ELSE phase[v]]
      /\ home' = [home EXCEPT ![g] = w]
      /\ inbox' = [inbox EXCEPT ![w] = Append(@, g)]
      /\ todo' = [todo EXCEPT ![f] = <<g>>]
      /\ f \in Fiber
  BY DEF IndInv, Place, StartHelpers, Fiber
<1>2. /\ \A h \in Fiber : pc'[h] = IF h = g THEN "begin" ELSE IF h = f THEN "placing" ELSE pc[h]
      /\ \A h \in Fiber : todo'[h] = IF h = f THEN <<g>> ELSE todo[h]
      /\ \A h \in Fiber : home'[h] = IF h = g THEN w ELSE home[h]
  BY <1>1, Zenon DEF Types, Labels
<1>3. Types'
  <2>1. Labels'
    <3>1. \A h \in Program : pc'[h] \in ProgramPc
      BY <1>1, <1>2, Zenon DEF Types, Labels, ProgramPc, Fiber
    <3>2. \A c \in Cell : pc'[c] \in CellPc
      BY <1>1, <1>2, LaunchAssumption, Zenon DEF Types, Labels, CellPc, Fiber, Program
    <3>3. pc' \in [Fiber -> ProgramPc \cup CellPc]
      BY <1>1, ZenonT(30) DEF Types, Labels, ProgramPc, CellPc
    <3>4. QED
      BY <3>1, <3>2, <3>3, Zenon DEF Labels
  <2>2. inbox' \in [Worker -> Seq(Fiber)]
    <3>1. inbox[w] \in Seq(Fiber)
      BY <1>1 DEF Types
    <3>2. Append(inbox[w], g) \in Seq(Fiber)
      BY <3>1, AppendId
    <3>3. QED
      BY <1>1, <3>2 DEF Types
  <2>3. <<g>> \in Seq(Fiber)
    OBVIOUS
  <2>4. todo' \in [Fiber -> Seq(Fiber)]
    BY <1>1, <2>3 DEF Types
  <2>5. phase' \in [Worker -> {"off", "drain", "run", "wait", "tokens", "stopped"}]
    BY <1>1 DEF Types
  <2>6. home' \in [Fiber -> Worker]
    BY <1>1, SMTT(30) DEF Types
  <2>7. QED
    BY <1>1, <2>1, <2>2, <2>4, <2>5, <2>6 DEF Types
<1>4. /\ Waking'
      /\ \A v \in Worker : Ringing(v) => Ringing(v)'
  <2>0. pc'[f] = "placing" /\ pc'[g] = "begin" /\ todo'[f] = <<g>>
    BY <1>1, <1>2, Zenon
  <2>1. /\ {f, g} \in SUBSET Fiber
        /\ \A h \in Fiber : h \notin {f, g} => pc'[h] = pc[h] /\ todo'[h] = todo[h]
    BY <1>1, <1>2, ZenonT(30)
  <2>2. /\ \A h \in {f, g} : pc[h] \in Apart /\ pc'[h] \in Apart
        /\ \A h \in {f, g} : pc'[h] # "none" /\ pc'[h] # "look" /\ pc[h] # "placing"
    BY <2>0 DEF Apart
  <2>6. \A h \in Fiber : pc[h] # "none" => home'[h] = home[h]
    BY <1>2
  <2>7. <<g>> # <<>> /\ Head(<<g>>) = g
    BY HeadOfOne, Zenon
  <2>8. \A h \in {f, g} : pc'[h] = "placing" => todo'[h] # <<>> /\ pc'[Head(todo'[h])] # "none"
    BY <2>0, <2>7
  <2>3. \A h \in {f, g}, c \in Cell : h \notin Ids(waiters[c])
    <3>1. \A h \in {f, g} : h \in Fiber /\ pc[h] \notin {"look", "parking", "parked"}
      <4>1. f \in Fiber /\ pc[f] \notin {"look", "parking", "parked"}
        BY Zenon DEF Fiber
      <4>2. g \in Fiber /\ pc[g] \notin {"look", "parking", "parked"}
        BY Zenon
      <4>3. QED
        BY <4>1, <4>2, Zenon
    <3>2. QED
      BY <3>1, OffList, Zenon
  <2>4. \A c \in Cell : cell'[c] = None => c \notin {f, g}
    BY LaunchAssumption DEF Program
  <2>5. QED
    BY <1>3, <2>1, <2>2, <2>3, <2>4, <2>6, <2>8, Frame, ZenonT(30)
<1>5. Runs'
  <2>1. \A v \in Worker : phase'[v] # "run" => running[v] = None
    BY <1>1 DEF Runs
  <2>2. \A h \in Program : pc'[h] = "parking" => running[home'[h]] = h
    BY <1>1, <1>2 DEF Runs, Fiber
  <2>3. QED
    BY <2>1, <2>2, ZenonT(30) DEF Runs
<1>6. Sources'
  <2> SUFFICES ASSUME NEW v \in Worker, NEW h \in Ids(events[v])
               PROVE  pc'[h] = "io" /\ home'[h] = v
    BY Zenon DEF Sources
  <2>1. pc[h] = "io" /\ home[h] = v
    BY <1>1 DEF Sources
  <2>2. h \in Fiber
    <3>1. events[v] \in Seq(Fiber)
      BY <1>1, SMTT(30) DEF Types
    <3>2. QED
      BY <3>1, IdsIn, Zenon
  <2>3. QED
    BY <1>1, <1>2, <2>1, <2>2, Zenon
<1>7. Alarmed'
  <2>1. Ringing(w)'
    <3>1. pc'[f] = "placing" /\ todo'[f] = <<g>> /\ home'[g] = w
      BY <1>1, <1>2, Zenon
    <3>2. Head(todo'[f]) = g
      BY <3>1, HeadOfOne, Zenon
    <3>3. QED
      BY <3>1, <3>2, Zenon DEF Ringing
  <2>2. \A v \in Worker : v # w => inbox'[v] = inbox[v]
    BY <1>1 DEF Types
  <2>3. \A v \in Worker : /\ phase'[v] # "tokens" => phase[v] # "tokens"
                          /\ phase'[v] \notin {"tokens", "drain"} => phase[v] \notin {"tokens", "drain"}
    BY <1>1
  <2>4. QED
    BY <1>1, <1>4, <2>1, <2>2, <2>3, ZenonT(30) DEF Alarmed
<1>8. QED
  BY <1>3, <1>4, <1>5, <1>6, <1>7 DEF IndInv

\* launch_placed hands the producer to a worker.
LEMMA LaunchPlacedStep ==
  ASSUME IndInv, NEW f \in Fiber, NEW c \in Cell, NEW w \in Worker, LaunchPlaced(f, c, w)
  PROVE  IndInv'
<1>1. /\ Types /\ Placed /\ f \in Program /\ pc[f] = "body" /\ Place(f, c, w)
      /\ pc' = [pc EXCEPT ![f] = "placing", ![c] = "begin"]
      /\ cell[c] = None /\ cell' = [cell EXCEPT ![c] = "pending"]
      /\ UNCHANGED <<running, events, completed, alarm, scope, waiters>>
  BY DEF IndInv, Waking, LaunchPlaced, At, NewCell
<1>2. f # c /\ c \in Fiber /\ pc[c] = "none"
  BY <1>1 DEF Placed, Fiber
<1>3. /\ cell' \in [Cell -> {None, "pending", "ready", "faulted"}]
      /\ \A d \in Cell : cell'[d] # cell[d] => cell[d] = None /\ cell'[d] = "pending"
      /\ \A d \in Cell : cell'[d] = None => d # c
  BY <1>1 DEF Types, None
<1>4. QED
  BY <1>1, <1>2, <1>3, PlaceStep, Zenon

\* place_connection hands the handler to a worker.
LEMMA AcceptStep ==
  ASSUME IndInv, NEW f \in Fiber, NEW h \in Handler, NEW w \in Worker, Accept(f, h, w)
  PROVE  IndInv'
<1>1. /\ Types /\ f \in Program /\ pc[f] = "body" /\ pc[h] = "none" /\ Place(f, h, w)
      /\ pc' = [pc EXCEPT ![f] = "placing", ![h] = "begin"]
      /\ UNCHANGED <<running, events, completed, alarm, scope, waiters, cell>>
  BY DEF IndInv, Accept, At, Program, cells
<1>2. f # h /\ h \in Fiber /\ \A d \in Cell : d # h
  BY <1>1, LaunchAssumption DEF Fiber, Program
<1>3. cell' \in [Cell -> {None, "pending", "ready", "faulted"}]
  BY <1>1 DEF Types
<1>4. QED
  BY <1>1, <1>2, <1>3, PlaceStep, Zenon

\* The waker of the worker given a job is fired.
LEMMA WakeTargetStep ==
  ASSUME IndInv, NEW f \in Fiber, WakeTarget(f)
  PROVE  IndInv'
<1> DEFINE g == Head(todo[f])
<1>1. /\ Types /\ Runs /\ Sources /\ Placed /\ Alarmed /\ pc[f] = "placing"
      /\ alarm' = [alarm EXCEPT ![home[g]] = TRUE]
      /\ scope' = [scope EXCEPT ![f] = IF g \in Cell THEN Append(@, g) ELSE @]
      /\ todo' = [todo EXCEPT ![f] = <<>>]
      /\ pc' = [pc EXCEPT ![f] = "body"]
      /\ UNCHANGED <<phase, running, inbox, events, completed, home, cell, waiters>>
  BY DEF IndInv, Waking, WakeTarget, At, Goto, loops, cells
<1>2. f \in Program
  BY <1>1, Zenon DEF Types, Labels, Fiber, CellPc
<1>3. g \in Fiber
  <2>1. todo[f] \in Seq(Fiber) /\ todo[f] # <<>>
    BY <1>1, <1>2 DEF Types, Placed
  <2>2. QED
    BY <2>1
<1> HIDE DEF g
<1>4. /\ \A h \in Fiber : pc'[h] = IF h = f THEN "body" ELSE pc[h]
      /\ \A h \in Fiber : h # f => todo'[h] = todo[h]
  BY <1>1 DEF Types, Labels
<1>5. Types'
  <2>1. Labels'
    BY <1>1, <1>2, LaunchAssumption, NewLabel, Zenon DEF Types, ProgramPc, Program
  <2>2. alarm' \in [Worker -> BOOLEAN]
    BY <1>1, Zenon DEF Types
  <2>3. <<>> \in Seq(Fiber)
    OBVIOUS
  <2>4. todo' \in [Fiber -> Seq(Fiber)]
    BY <1>1, <2>3 DEF Types
  <2>5. scope' \in [Fiber -> Seq(Cell)]
    <3>1. scope[f] \in Seq(Cell)
      BY <1>1 DEF Types
    <3>2. g \in Cell => Append(scope[f], g) \in Seq(Cell)
      BY <3>1, AppendId, SMTT(30)
    <3>3. QED
      BY <1>1, <3>1, <3>2 DEF Types
  <2>6. QED
    BY <1>1, <2>1, <2>2, <2>4, <2>5, SMTT(30) DEF Types
<1>6. Waking'
  <2>1. /\ {f} \in SUBSET Fiber
        /\ \A h \in Fiber : h \notin {f} => pc'[h] = pc[h] /\ todo'[h] = todo[h]
        /\ \A h \in {f} : pc[h] = "placing" /\ pc'[h] = "body"
    BY <1>1, <1>4
  <2>2. \A h \in {f}, c \in Cell : h \notin Ids(waiters[c])
    BY <1>1, OffList
  <2>3. \A c \in Cell : cell'[c] = None => c \notin {f}
    BY <1>1 DEF Placed
  <2>4. QED
    BY <1>1, <1>5, <2>1, <2>2, <2>3, Frame, Zenon DEF Apart
<1>7. Runs'
  BY <1>1, <1>4 DEF Runs, Fiber
<1>8. Sources'
  <2> SUFFICES ASSUME NEW v \in Worker, NEW h \in Ids(events[v])
               PROVE  pc'[h] = "io" /\ home[h] = v
    BY <1>1 DEF Sources
  <2>1. pc[h] = "io" /\ home[h] = v
    BY <1>1, SMTT(30) DEF Sources
  <2>2. QED
    BY <1>1, <2>1
<1>9. Alarmed'
  <2>1. ASSUME NEW v \in Worker, v # home[g], Ringing(v) PROVE Ringing(v)'
    <3>1. ASSUME NEW h \in Program, pc[h] = "placing", home[Head(todo[h])] = v
          PROVE  pc'[h] = "placing" /\ home[Head(todo'[h])] = v
      <4>1. h # f /\ h \in Fiber
        BY <2>1, <3>1 DEF g, Fiber
      <4>2. QED
        BY <1>4, <3>1, <4>1
    <3>2. ASSUME NEW c \in Cell, pc[c] = "ring", home[Head(waiters[c])] = v
          PROVE  pc'[c] = "ring"
      BY <1>1, <3>2
    <3>3. QED
      BY <1>1, <2>1, <3>1, <3>2 DEF Ringing
  <2>2. \A v \in Worker : alarm'[v] = IF v = home[g] THEN TRUE ELSE alarm[v]
    BY <1>1 DEF Types
  <2>3. ASSUME NEW v \in Worker
        PROVE  /\ completed[v] # <<>> /\ phase[v] # "tokens" => alarm'[v] \/ Ringing(v)'
               /\ inbox[v] # <<>> /\ phase[v] \notin {"tokens", "drain"} => alarm'[v] \/ Ringing(v)'
    BY <1>1, <2>1, <2>2, Zenon DEF Alarmed
  <2>4. QED
    BY <1>1, <2>3 DEF Alarmed
<1>10. QED
  BY <1>5, <1>6, <1>7, <1>8, <1>9 DEF IndInv

\* launch_here queues the producer on the fiber's own worker.
LEMMA LaunchHereStep ==
  ASSUME IndInv, NEW f \in Fiber, NEW c \in Cell, LaunchHere(f, c)
  PROVE  IndInv'
<1>1. /\ Types /\ Runs /\ Sources /\ Placed /\ Alarmed
      /\ f \in Program /\ cell[c] = None
      /\ cell' = [cell EXCEPT ![c] = "pending"]
      /\ home' = [home EXCEPT ![c] = home[f]]
      /\ scope' = [scope EXCEPT ![f] = Append(@, c)]
      /\ pc' = [pc EXCEPT ![c] = "begin"]
      /\ UNCHANGED <<phase, running, inbox, events, completed, alarm, todo, waiters>>
  BY DEF IndInv, Waking, LaunchHere, NewCell, Goto, mailboxes
<1>2. c \in Fiber /\ pc[c] = "none" /\ c \notin Program
  BY <1>1, LaunchAssumption DEF Placed, Fiber, Program
<1>3. /\ \A h \in Fiber : pc'[h] = IF h = c THEN "begin" ELSE pc[h]
      /\ \A h \in Fiber : h # c => home'[h] = home[h]
  BY <1>1, <1>2 DEF Types, Labels
<1>4. Types'
  <2>1. Labels'
    BY <1>1, <1>2, NewLabel, Zenon DEF Types, CellPc
  <2>2. scope' \in [Fiber -> Seq(Cell)]
    <3>1. scope[f] \in Seq(Cell)
      BY <1>1 DEF Types
    <3>2. Append(scope[f], c) \in Seq(Cell)
      BY <3>1, AppendId
    <3>3. QED
      BY <1>1, <3>2 DEF Types
  <2>3. home' \in [Fiber -> Worker] /\ cell' \in [Cell -> {None, "pending", "ready", "faulted"}]
    BY <1>1, <1>2, SMTT(30) DEF Types
  <2>4. QED
    BY <1>1, <2>1, <2>2, <2>3, Zenon DEF Types
<1>5. /\ Waking'
      /\ \A v \in Worker : Ringing(v) => Ringing(v)'
  <2>1. /\ {c} \in SUBSET Fiber
        /\ \A h \in Fiber : h \notin {c} => pc'[h] = pc[h] /\ todo'[h] = todo[h]
        /\ \A h \in {c} : pc[h] = "none" /\ pc'[h] = "begin"
        /\ \A h \in Fiber : pc[h] # "none" => home'[h] = home[h]
    BY <1>1, <1>2, <1>3
  <2>2. \A h \in {c}, d \in Cell : h \notin Ids(waiters[d])
    BY <1>2, OffList
  <2>3. \A d \in Cell : /\ cell'[d] # cell[d] => cell[d] = None /\ cell'[d] = "pending"
                        /\ cell'[d] = None => d \notin {c}
    BY <1>1 DEF Types, None
  <2>4. QED
    BY <1>1, <1>4, <2>1, <2>2, <2>3, Frame, ZenonT(30) DEF Apart
<1>6. Runs'
  BY <1>1, <1>2, <1>3 DEF Runs, Fiber
<1>7. Sources'
  <2> SUFFICES ASSUME NEW v \in Worker, NEW h \in Ids(events[v])
               PROVE  pc'[h] = "io" /\ home'[h] = v
    BY <1>1 DEF Sources
  <2>1. pc[h] = "io" /\ home[h] = v
    BY <1>1 DEF Sources
  <2>2. h \in Fiber
    <3>1. events[v] \in Seq(Fiber)
      BY <1>1 DEF Types
    <3>2. QED
      BY <3>1 DEF Ids
  <2>3. QED
    BY <1>2, <1>3, <2>1, <2>2
<1>8. Alarmed'
  BY <1>1, <1>5 DEF Alarmed
<1>9. QED
  BY <1>4, <1>5, <1>6, <1>7, <1>8 DEF IndInv
==============================================================================
