---------------------------- MODULE LaunchProofs ----------------------------
(***************************************************************************)
(* No wakeup is lost, for any number of helpers, handlers and launches:    *)
(* the waking loop of a producer, and the theorems.                        *)
(***************************************************************************)
EXTENDS LaunchTokens

\* The head of the list gets its token before the waker is fired.
LEMMA PushTokenStep ==
  ASSUME IndInv, NEW c \in Fiber, PushToken(c)
  PROVE  IndInv'
<1> DEFINE f == Head(waiters[c])
<1>1. /\ Types /\ Alarmed /\ Placed /\ Waits /\ OnWaiters /\ Once /\ OnCompleted /\ Pushed /\ Covered
      /\ c \in Cell /\ pc[c] = "waking" /\ waiters[c] # <<>>
      /\ pc' = [pc EXCEPT ![c] = "ring"]
      /\ completed' = [completed EXCEPT ![home[f]] = Append(@, f)]
      /\ UNCHANGED <<phase, running, inbox, events, alarm, home, scope, todo, waiters, cell>>
  BY DEF IndInv, Waking, PushToken, At, Goto, loops, cells
<1>2. "ring" \in CellPc \ {"none"}
  BY SMTT(30) DEF CellPc
<1>3. /\ Labels' /\ Runs' /\ Sources' /\ Waits'
      /\ \A g \in Program : g \in Fiber /\ pc'[g] = pc[g]
      /\ \A d \in Cell : d \in Fiber /\ d \notin Program /\ pc'[d] = IF d = c THEN "ring" ELSE pc[d]
      /\ \A g \in Program : pc[g] = "placing" => todo[g] # <<>> /\ pc'[Head(todo[g])] # "none"
  BY <1>1, <1>2, ProducerLabel, ZenonT(30)
<1>4. f \in Ids(waiters[c]) /\ f \in Fiber
  <2>1. waiters[c] \in Seq(Fiber) /\ Distinct(waiters[c])
    BY <1>1 DEF Types, Once
  <2>2. QED
    BY <1>1, <2>1, TailId
<1>5. f \in Program /\ pc[f] \in {"parking", "parked"} /\ Head(todo[f]) = c
  BY <1>1, <1>4 DEF OnWaiters
<1>c. f = Head(waiters[c])
  OBVIOUS
<1> HIDE DEF f
<1>6. home[f] \in Worker /\ completed[home[f]] \in Seq(Fiber)
  BY <1>1, <1>4, SMTT(30) DEF Types
<1>7. /\ Append(completed[home[f]], f) \in Seq(Fiber)
      /\ Ids(Append(completed[home[f]], f)) = Ids(completed[home[f]]) \cup {f}
  BY <1>4, <1>6, AppendId, SMTT(30)
<1>8. /\ completed'[home[f]] = Append(completed[home[f]], f)
      /\ \A v \in Worker : v # home[f] => completed'[v] = completed[v]
  BY <1>1, <1>6, Zenon DEF Types
<1>9. \A v \in Worker, g \in Fiber : g \in Ids(completed'[v]) <=> g \in Ids(completed[v]) \/ (g = f /\ v = home[f])
  BY <1>7, <1>8, Zenon
<1>10. Types'
  <2>1. completed' \in [Worker -> Seq(Fiber)]
    BY <1>1, <1>7 DEF Types
  <2>2. QED
    BY <1>1, <1>3, <2>1, Zenon DEF Types
<1>11. Placed'
  BY <1>1, <1>3, ZenonT(30) DEF Placed
<1>12. OnWaiters' /\ Once'
  BY <1>1, <1>3, SMTT(30) DEF OnWaiters, Once
<1>13. OnCompleted'
  <2> SUFFICES ASSUME NEW v \in Worker, NEW g \in Ids(completed'[v])
               PROVE  /\ g \in Program /\ home[g] = v /\ pc'[g] \in {"parking", "parked"}
                      /\ \A d \in Cell : g \in Ids(waiters[d]) =>
                           pc'[d] = "ring" /\ g = Head(waiters[d])
    BY <1>1, SMTT(30) DEF OnCompleted
  <2>1. g \in Fiber
    <3>1. completed'[v] \in Seq(Fiber)
      BY <1>10, SMTT(30) DEF Types
    <3>2. QED
      BY <3>1 DEF Ids
  <2>2. CASE g = f /\ v = home[f]
    <3>1. \A d \in Cell : g \in Ids(waiters[d]) => d = c
      BY <1>1, <1>5, <2>2, SMTT(30) DEF OnWaiters
    <3>2. QED
      BY <1>1, <1>3, <1>5, <1>c, <2>2, <3>1, SMTT(30)
  <2>3. CASE g \in Ids(completed[v])
    <3>1. /\ g \in Program /\ home[g] = v /\ pc[g] \in {"parking", "parked"}
          /\ \A d \in Cell : g \in Ids(waiters[d]) => pc[d] = "ring" /\ g = Head(waiters[d])
      BY <1>1, <2>3, SMTT(30) DEF OnCompleted
    <3>2. QED
      BY <1>3, <3>1, SMTT(30)
  <2>4. QED
    BY <1>9, <2>1, <2>2, <2>3, SMTT(30)
<1>14. Pushed'
  <2> SUFFICES ASSUME NEW d \in Cell, pc'[d] = "ring"
               PROVE  /\ waiters[d] # <<>>
                      /\ pc'[Head(waiters[d])] \in {"parking", "parked"} =>
                           Head(waiters[d]) \in Ids(completed'[home[Head(waiters[d])]])
    BY <1>1, SMTT(30) DEF Pushed
  <2>1. CASE d = c
    BY <1>1, <1>4, <1>6, <1>9, <1>c, <2>1, SMTT(30)
  <2>2. CASE d # c
    <3> DEFINE g == Head(waiters[d])
    <3>1. /\ waiters[d] # <<>>
          /\ pc[g] \in {"parking", "parked"} => g \in Ids(completed[home[g]])
      BY <1>1, <1>3, <2>2, SMTT(30) DEF Pushed
    <3>2. g \in Fiber /\ home[g] \in Worker
      <4>1. waiters[d] \in Seq(Fiber)
        BY <1>1 DEF Types
      <4>2. g \in Fiber
        BY <3>1, <4>1, SMTT(30)
      <4>3. QED
        BY <1>1, <4>2, SMTT(30) DEF Types
    <3>3. pc'[g] \in {"parking", "parked"} => pc[g] \in {"parking", "parked"}
      BY <1>1, <3>2, SMTT(30) DEF Types, Labels
    <3> HIDE DEF g
    <3>4. pc'[g] \in {"parking", "parked"} => g \in Ids(completed'[home[g]])
      BY <1>9, <3>1, <3>2, <3>3, SMTT(30)
    <3>5. QED
      BY <3>1, <3>4, SMTT(30) DEF g
  <2>3. QED
    BY <2>1, <2>2, SMTT(30)
<1>15. Covered'
  <2> SUFFICES ASSUME NEW g \in Program, pc'[g] \in {"parking", "parked"}
               PROVE  \/ g \in Ids(completed'[home[g]])
                      \/ /\ g \in Ids(waiters[Head(todo[g])])
                         /\ cell[Head(todo[g])] = "pending" \/ Locked(Head(todo[g]))'
    BY <1>1, SMTT(30) DEF Covered
  <2>1. pc[g] \in {"parking", "parked"} /\ g \in Fiber /\ home[g] \in Worker
    BY <1>1, <1>3, SMTT(30) DEF Types
  <2>2. todo[g] \in Seq(Cell) /\ todo[g] # <<>> /\ Head(todo[g]) \in Cell
    BY <1>1, <2>1 DEF Waits
  <2>3. Locked(Head(todo[g])) => Locked(Head(todo[g]))'
    BY <1>1, <1>3, <2>2 DEF Locked
  <2>4. g \in Ids(completed[home[g]]) => g \in Ids(completed'[home[g]])
    BY <1>9, <2>1, SMTT(30)
  <2>5. QED
    BY <1>1, <2>1, <2>3, <2>4, SMTT(30) DEF Covered
<1>16. Alarmed'
  <2>1. \A v \in Worker : Ringing(v) => Ringing(v)'
    BY <1>1, <1>3 DEF Ringing
  <2>2. PICK u \in Worker : u = home[f]
    BY <1>6, SMTT(30)
  <2>5. Ringing(u)'
    BY <1>1, <1>3, <1>c, <2>2, SMTT(30) DEF Ringing
  <2>3. ASSUME NEW v \in Worker
        PROVE  /\ completed'[v] # <<>> /\ phase[v] # "tokens" => alarm[v] \/ Ringing(v)'
               /\ inbox[v] # <<>> /\ phase[v] \notin {"tokens", "drain"} => alarm[v] \/ Ringing(v)'
    BY <1>1, <1>8, <2>1, <2>2, <2>5, SMTT(30) DEF Alarmed
  <2>4. QED
    BY <1>1, <2>3, SMTT(30) DEF Alarmed
<1>17. QED
  BY <1>3, <1>10, <1>11, <1>12, <1>13, <1>14, <1>15, <1>16, SMTT(30) DEF IndInv, Waking

\* The waker is fired and the head leaves the list; its token is with its worker.
LEMMA RingStep ==
  ASSUME IndInv, NEW c \in Fiber, Ring(c)
  PROVE  IndInv'
<1>1. /\ Types /\ Alarmed /\ Placed /\ Waits /\ OnWaiters /\ Once /\ OnCompleted /\ Pushed /\ Covered
      /\ c \in Cell /\ pc[c] = "ring"
      /\ pc' = [pc EXCEPT ![c] = "waking"]
      /\ waiters' = [waiters EXCEPT ![c] = Tail(@)]
      /\ UNCHANGED <<phase, running, inbox, events, completed, home, scope, todo, cell>>
  BY DEF IndInv, Waking, Ring, At, Goto, loops
<1>2. waiters[c] # <<>> /\ waiters[c] \in Seq(Fiber) /\ Distinct(waiters[c])
  BY <1>1, SMTT(30) DEF Types, Once, Pushed
<1>3. /\ Tail(waiters[c]) \in Seq(Fiber) /\ Distinct(Tail(waiters[c]))
      /\ Head(waiters[c]) \in Fiber /\ Head(waiters[c]) \in Ids(waiters[c])
      /\ Ids(Tail(waiters[c])) = Ids(waiters[c]) \ {Head(waiters[c])}
  BY <1>2, TailId
<1>4. PICK f \in Fiber : f = Head(waiters[c])
  BY <1>3, SMTT(30)
<1>5. /\ alarm' = [alarm EXCEPT ![home[f]] = TRUE]
      /\ home[f] \in Worker
      /\ pc[f] \in {"parking", "parked"} => f \in Ids(completed[home[f]])
  BY <1>1, <1>4, SMTT(30) DEF Ring, Pushed, Types
<1>6. "waking" \in CellPc \ {"none"}
  BY DEF CellPc
<1>7. /\ Labels' /\ Runs' /\ Sources' /\ Waits'
      /\ \A g \in Program : g \in Fiber /\ pc'[g] = pc[g]
      /\ \A d \in Cell : d \in Fiber /\ d \notin Program /\ pc'[d] = IF d = c THEN "waking" ELSE pc[d]
      /\ \A g \in Program : pc[g] = "placing" => todo[g] # <<>> /\ pc'[Head(todo[g])] # "none"
  BY <1>1, <1>6, ProducerLabel, ZenonT(30)
<1>8. \A d \in Cell : waiters'[d] = IF d = c THEN Tail(waiters[c]) ELSE waiters[d]
  BY <1>1 DEF Types
<1>9. \A d \in Cell, g \in Fiber : g \in Ids(waiters'[d]) <=> g \in Ids(waiters[d]) /\ ~(d = c /\ g = f)
  BY <1>3, <1>4, <1>8
<1>10. Types'
  <2>1. waiters' \in [Cell -> Seq(Fiber)]
    BY <1>1, <1>3 DEF Types
  <2>2. alarm' \in [Worker -> BOOLEAN]
    BY <1>1, <1>5, SMTT(30) DEF Types
  <2>3. QED
    BY <1>1, <1>7, <2>1, <2>2, ZenonT(30) DEF Types
<1>11. Placed'
  BY <1>1, <1>7, SMTT(30) DEF Placed
<1>12. OnWaiters'
  <2> SUFFICES ASSUME NEW d \in Cell, NEW g \in Ids(waiters'[d])
               PROVE  /\ g \in Program /\ pc'[g] \in {"look", "parking", "parked"}
                      /\ todo[g] # <<>> /\ Head(todo[g]) = d
                      /\ pc'[g] = "look" => pc'[d] = "ring" /\ g = Head(waiters'[d])
    BY <1>1, ZenonT(30) DEF OnWaiters
  <2>1. g \in Fiber
    <3>1. waiters'[d] \in Seq(Fiber)
      BY <1>10 DEF Types
    <3>2. QED
      BY <3>1 DEF Ids
  <2>2. g \in Ids(waiters[d]) /\ ~(d = c /\ g = f)
    BY <1>9, <2>1
  <2>3. /\ g \in Program /\ pc[g] \in {"look", "parking", "parked"}
        /\ todo[g] # <<>> /\ Head(todo[g]) = d
        /\ pc[g] = "look" => pc[d] = "ring" /\ g = Head(waiters[d])
    BY <1>1, <2>2, SMTT(30) DEF OnWaiters
  <2>4. pc[g] = "look" => d # c
    BY <1>4, <2>2, <2>3, SMTT(30)
  <2>5. QED
    BY <1>7, <1>8, <2>3, <2>4, ZenonT(30)
<1>13. Once'
  BY <1>1, <1>3, <1>8, SMTT(30) DEF Once
<1>14. OnCompleted'
  <2> SUFFICES ASSUME NEW v \in Worker, NEW g \in Ids(completed[v])
               PROVE  /\ g \in Program /\ home[g] = v /\ pc'[g] \in {"parking", "parked"}
                      /\ \A d \in Cell : g \in Ids(waiters'[d]) =>
                           pc'[d] = "ring" /\ g = Head(waiters'[d])
    BY <1>1, ZenonT(30) DEF OnCompleted
  <2>1. /\ g \in Program /\ home[g] = v /\ pc[g] \in {"parking", "parked"}
        /\ \A d \in Cell : g \in Ids(waiters[d]) => pc[d] = "ring" /\ g = Head(waiters[d])
    BY <1>1 DEF OnCompleted
  <2>2. ASSUME NEW d \in Cell, g \in Ids(waiters'[d])
        PROVE  pc'[d] = "ring" /\ g = Head(waiters'[d])
    <3>1. g \in Ids(waiters[d]) /\ ~(d = c /\ g = f)
      BY <1>7, <1>9, <2>1, <2>2, SMTT(30)
    <3>2. d # c /\ pc[d] = "ring" /\ g = Head(waiters[d])
      BY <1>4, <2>1, <3>1, SMTT(30)
    <3>3. QED
      BY <1>7, <1>8, <3>2
  <2>3. QED
    BY <1>7, <2>1, <2>2, SMTT(30)
<1>15. Pushed'
  <2> SUFFICES ASSUME NEW d \in Cell, pc'[d] = "ring"
               PROVE  /\ waiters'[d] # <<>>
                      /\ pc'[Head(waiters'[d])] \in {"parking", "parked"} =>
                           Head(waiters'[d]) \in Ids(completed[home[Head(waiters'[d])]])
    BY <1>1, ZenonT(30) DEF Pushed
  <2>1. d # c /\ pc[d] = "ring" /\ waiters'[d] = waiters[d]
    BY <1>7, <1>8, SMTT(30)
  <2>2. /\ waiters[d] # <<>>
        /\ pc[Head(waiters[d])] \in {"parking", "parked"} =>
             Head(waiters[d]) \in Ids(completed[home[Head(waiters[d])]])
    BY <1>1, <2>1, SMTT(30) DEF Pushed
  <2>3. pc'[Head(waiters[d])] \in {"parking", "parked"} => pc[Head(waiters[d])] \in {"parking", "parked"}
    BY <1>1, SMTT(30) DEF Types, Labels
  <2>4. QED
    BY <2>1, <2>2, <2>3, SMTT(30)
<1>16. Covered'
  <2> SUFFICES ASSUME NEW g \in Program, pc'[g] \in {"parking", "parked"}
               PROVE  \/ g \in Ids(completed[home[g]])
                      \/ /\ g \in Ids(waiters'[Head(todo[g])])
                         /\ cell[Head(todo[g])] = "pending" \/ Locked(Head(todo[g]))'
    BY <1>1, SMTT(30) DEF Covered
  <2>1. pc[g] \in {"parking", "parked"} /\ g \in Fiber
    BY <1>7, SMTT(30)
  <2>2. todo[g] \in Seq(Cell) /\ todo[g] # <<>> /\ Head(todo[g]) \in Cell
    BY <1>1, <2>1, SMTT(30) DEF Waits
  <2>3. Locked(Head(todo[g])) => Locked(Head(todo[g]))'
    BY <1>1, <1>7, <2>2, SMTT(30) DEF Locked
  <2>4. g \in Ids(waiters[Head(todo[g])]) =>
          g \in Ids(waiters'[Head(todo[g])]) \/ g \in Ids(completed[home[g]])
    BY <1>5, <1>9, <2>1, <2>2, SMTT(30)
  <2>5. QED
    BY <1>1, <2>1, <2>3, <2>4, SMTT(30) DEF Covered
<1>17. Alarmed'
  <2>1. ASSUME NEW v \in Worker, v # home[f], Ringing(v) PROVE Ringing(v)'
    <3>1. ASSUME NEW d \in Cell, pc[d] = "ring", home[Head(waiters[d])] = v
          PROVE  pc'[d] = "ring" /\ waiters'[d] = waiters[d]
      BY <1>4, <1>7, <1>8, <2>1, <3>1, SMTT(30)
    <3>2. QED
      BY <1>1, <1>7, <2>1, <3>1, SMTT(30) DEF Ringing
  <2>2. \A v \in Worker : alarm'[v] = IF v = home[f] THEN TRUE ELSE alarm[v]
    BY <1>1, <1>5, SMTT(30) DEF Types
  <2>3. ASSUME NEW v \in Worker
        PROVE  /\ completed[v] # <<>> /\ phase[v] # "tokens" => alarm'[v] \/ Ringing(v)'
               /\ inbox[v] # <<>> /\ phase[v] \notin {"tokens", "drain"} => alarm'[v] \/ Ringing(v)'
    BY <1>1, <2>1, <2>2, Zenon DEF Alarmed
  <2>4. QED
    BY <1>1, <2>3, ZenonT(30) DEF Alarmed
<1>18. QED
  BY <1>7, <1>10, <1>11, <1>12, <1>13, <1>14, <1>15, <1>16, <1>17, SMTT(30) DEF IndInv, Waking

\* The list is empty: nobody depends on the lock.
LEMMA UnlockStep ==
  ASSUME IndInv, NEW c \in Fiber, Unlock(c)
  PROVE  IndInv'
<1>1. /\ Types /\ Alarmed /\ Placed /\ Waits /\ OnWaiters /\ Once /\ OnCompleted /\ Pushed /\ Covered
      /\ c \in Cell /\ pc[c] = "waking" /\ waiters[c] = <<>> /\ running[home[c]] = c
      /\ pc' = [pc EXCEPT ![c] = "done"]
      /\ running' = [running EXCEPT ![home[c]] = None]
      /\ UNCHANGED <<phase, inbox, events, completed, alarm, home, scope, todo, waiters, cell>>
  BY DEF IndInv, Waking, Unlock, At, Goto, Yield, mailboxes, cells
<1>2. "done" \in CellPc \ {"none"} /\ Ids(<<>>) = {}
  BY DEF CellPc, Ids
<1>3. /\ Labels' /\ Runs' /\ Sources' /\ Waits'
      /\ \A g \in Program : g \in Fiber /\ pc'[g] = pc[g]
      /\ \A d \in Cell : d \in Fiber /\ d \notin Program /\ pc'[d] = IF d = c THEN "done" ELSE pc[d]
      /\ \A g \in Program : pc[g] = "placing" => todo[g] # <<>> /\ pc'[Head(todo[g])] # "none"
      /\ running' = [w \in Worker |-> running'[w]]
  BY <1>1, <1>2, ProducerLabel, ZenonT(30)
<1>4. Types'
  BY <1>1, <1>3 DEF Types
<1>5. Placed'
  BY <1>1, <1>3 DEF Placed
<1>6. OnWaiters' /\ Once' /\ OnCompleted'
  BY <1>1, <1>3, SMTT(30) DEF OnWaiters, Once, OnCompleted
<1>7. Pushed'
  <2> SUFFICES ASSUME NEW d \in Cell, pc'[d] = "ring"
               PROVE  /\ waiters[d] # <<>>
                      /\ pc'[Head(waiters[d])] \in {"parking", "parked"} =>
                           Head(waiters[d]) \in Ids(completed[home[Head(waiters[d])]])
    BY <1>1, ZenonT(30) DEF Pushed
  <2>1. /\ waiters[d] # <<>>
        /\ pc[Head(waiters[d])] \in {"parking", "parked"} =>
             Head(waiters[d]) \in Ids(completed[home[Head(waiters[d])]])
    BY <1>1, <1>3, SMTT(30) DEF Pushed
  <2>2. pc'[Head(waiters[d])] \in {"parking", "parked"} => pc[Head(waiters[d])] \in {"parking", "parked"}
    BY <1>1, SMTT(30) DEF Types, Labels
  <2>3. QED
    BY <2>1, <2>2
<1>8. Covered'
  <2> SUFFICES ASSUME NEW g \in Program, pc'[g] \in {"parking", "parked"}
               PROVE  \/ g \in Ids(completed[home[g]])
                      \/ /\ g \in Ids(waiters[Head(todo[g])])
                         /\ cell[Head(todo[g])] = "pending" \/ Locked(Head(todo[g]))'
    BY <1>1 DEF Covered
  <2>1. pc[g] \in {"parking", "parked"}
    BY <1>3, SMTT(30)
  <2>2. todo[g] \in Seq(Cell) /\ todo[g] # <<>> /\ Head(todo[g]) \in Cell
    BY <1>1, <2>1, SMTT(30) DEF Waits
  <2>3. Locked(Head(todo[g])) /\ Head(todo[g]) # c => Locked(Head(todo[g]))'
    BY <1>1, <1>3, <2>2, SMTT(30) DEF Locked
  <2>4. g \in Ids(waiters[Head(todo[g])]) => Head(todo[g]) # c
    BY <1>1, <1>2, SMTT(30)
  <2>5. QED
    BY <1>1, <2>1, <2>3, <2>4, SMTT(30) DEF Covered
<1>9. Alarmed'
  <2>1. \A v \in Worker : Ringing(v) => Ringing(v)'
    BY <1>1, <1>3 DEF Ringing
  <2>2. QED
    BY <1>1, <2>1, Zenon DEF Alarmed
<1>10. QED
  BY <1>3, <1>4, <1>5, <1>6, <1>7, <1>8, <1>9 DEF IndInv, Waking

-----------------------------------------------------------------------------
\* The invariant holds at the start of run_leader.
LEMMA Initially ==
  ASSUME Init
  PROVE  IndInv
<1>1. /\ \A w \in Worker : completed[w] = <<>> /\ inbox[w] = <<>> /\ events[w] = <<>>
      /\ \A c \in Cell : waiters[c] = <<>>
      /\ Ids(<<>>) = {}
      /\ \A f \in Fiber : pc[f] = IF f = Main THEN "begin" ELSE "none"
  BY DEF Init, Ids, Fiber
<1>2. <<>> \in Seq(Fiber) /\ <<>> \in Seq(Cell)
  OBVIOUS
<1>3. Labels
  <2>1. \A f \in Program : pc[f] \in ProgramPc
    BY <1>1 DEF ProgramPc, Fiber
  <2>2. \A c \in Cell : pc[c] \in CellPc
    BY <1>1 DEF CellPc, Fiber
  <2>3. pc \in [Fiber -> ProgramPc \cup CellPc]
    BY DEF Init, ProgramPc
  <2>4. QED
    BY <2>1, <2>2, <2>3 DEF Labels
<1>4. Types
  <2>1. /\ inbox \in [Worker -> Seq(Fiber)] /\ completed \in [Worker -> Seq(Fiber)]
        /\ events \in [Worker -> Seq(Fiber)] /\ waiters \in [Cell -> Seq(Fiber)]
        /\ todo \in [Fiber -> Seq(Fiber)] /\ scope \in [Fiber -> Seq(Cell)]
    BY <1>2, SMTT(30) DEF Init
  <2>2. /\ phase \in [Worker -> {"off", "drain", "run", "wait", "tokens", "stopped"}]
        /\ running = [w \in Worker |-> running[w]]
        /\ alarm \in [Worker -> BOOLEAN]
        /\ cell \in [Cell -> {None, "pending", "ready", "faulted"}]
        /\ home \in [Fiber -> Worker]
    BY DEF Init, Worker
  <2>3. QED
    BY <1>3, <2>1, <2>2 DEF Types
<1>5. Runs
  BY <1>1, SMTT(30) DEF Runs, Init, Fiber
<1>6. Sources /\ Alarmed
  BY <1>1, SMTT(30) DEF Sources, Alarmed
<1>7. Placed /\ Waits /\ Pushed /\ Covered
  <2>1. \A c \in Cell : c # Main /\ c \in Fiber
    BY LaunchAssumption DEF Fiber
  <2>2. \A f \in Program : f \in Fiber
    BY SMTT(30) DEF Fiber
  <2>3. QED
    BY <1>1, <2>1, <2>2 DEF Placed, Waits, Pushed, Covered
<1>8. OnWaiters /\ OnCompleted /\ Once
  BY <1>1 DEF OnWaiters, OnCompleted, Once, Distinct
<1>9. QED
  BY <1>4, <1>5, <1>6, <1>7, <1>8, SMTT(30) DEF IndInv, Waking

(***************************************************************************)
(* The invariant is inductive, and with it no wakeup is lost between a     *)
(* fiber's registering with a cell and its parking, nor between handing a  *)
(* worker a job or a token and the worker's going to sleep, for any number *)
(* of workers, handlers and launches.                                      *)
(***************************************************************************)
THEOREM Invariance == Spec => []IndInv
<1>1. Init => IndInv
  BY Initially
<1>2. IndInv /\ [Next]_vars => IndInv'
  <2> SUFFICES ASSUME IndInv, [Next]_vars PROVE IndInv'
    BY SMTT(30)
  <2>1. CASE UNCHANGED vars
    <3>1. UNCHANGED <<phase, running, inbox, events, completed, alarm, pc, home, scope, todo, cell, waiters>>
      BY <2>1 DEF vars, loops, mailboxes, fibers, cells
    <3>2. Types' /\ Runs' /\ Sources'
      BY <3>1 DEF IndInv, Types, Labels, Runs, Sources
    <3>3. Placed' /\ Waits' /\ OnWaiters' /\ Once'
      BY <3>1 DEF IndInv, Waking, Placed, Waits, OnWaiters, Once
    <3>4. OnCompleted' /\ Pushed'
      BY <3>1 DEF IndInv, Waking, OnCompleted, Pushed
    <3>5. Covered' /\ Alarmed'
      BY <3>1 DEF IndInv, Waking, Covered, Locked, Alarmed, Ringing
    <3>6. QED
      BY <3>2, <3>3, <3>4, <3>5 DEF IndInv, Waking
  <2>2. ASSUME NEW w \in Worker, WorkerStep(w) PROVE IndInv'
    <3>1. CASE Drain(w)
      BY <3>1, DrainStep
    <3>2. CASE Resume(w)
      BY <3>2, ResumeStep
    <3>3. CASE HelperStops(w) \/ Wait(w)
      BY <3>3, EmptyQueueStep DEF HelperStops, Wait
    <3>4. CASE Poll(w)
      BY <3>4, PollStep
    <3>5. CASE TakeTokens(w)
      BY <3>5, TakeTokensStep
    <3>6. QED
      BY <2>2, <3>1, <3>2, <3>3, <3>4, <3>5 DEF WorkerStep
  <2>3. ASSUME NEW f \in Fiber, FiberStep(f) PROVE IndInv'
    <3>1. CASE Continue(f) \/ AwaitSource(f)
      BY <3>1, ContinueStep, AwaitSourceStep
    <3>2. CASE \E c \in Cell, w \in Worker : LaunchPlaced(f, c, w)
      BY <3>2, LaunchPlacedStep
    <3>3. CASE \E h \in Handler, w \in Worker : Accept(f, h, w)
      BY <3>3, AcceptStep
    <3>4. CASE \E c \in Cell : LaunchHere(f, c) \/ ForceValue(f, c) \/ AwaitCell(f, c)
      BY <3>4, LaunchHereStep, ForceValueStep, AwaitCellStep
    <3>5. CASE WakeTarget(f) \/ Join(f)
      BY <3>5, WakeTargetStep, JoinStep
    <3>6. CASE Register(f) \/ Park(f)
      BY <3>6, RegisterStep, ParkStep
    <3>7. CASE FindFault(f) \/ Settled(f) \/ Forced(f)
      BY <3>7, FindFaultStep, SettledStep, ForcedStep
    <3>8. CASE Joined(f) \/ Finish(f)
      BY <3>8, JoinedStep, FinishStep
    <3>9. CASE Resolve(f) \/ PushToken(f) \/ Ring(f) \/ Unlock(f)
      BY <3>9, ResolveStep, PushTokenStep, RingStep, UnlockStep
    <3>10. QED
      BY <2>3, <3>1, <3>2, <3>3, <3>4, <3>5, <3>6, <3>7, <3>8, <3>9 DEF FiberStep
  <2>4. ASSUME NEW f \in Fiber, SourceReady(f) PROVE IndInv'
    BY <2>4, SourceReadyStep
  <2>5. CASE RunStep
    <3>1. CASE LeaderStops
      BY <3>1, EmptyQueueStep, Zenon DEF LeaderStops, Worker
    <3>2. CASE StoreShutdown \/ WakeWorkers \/ Return
      BY <3>2, EndingStep
    <3>3. QED
      BY <2>5, <3>1, <3>2 DEF RunStep
  <2>6. QED
    BY <2>1, <2>2, <2>3, <2>4, <2>5 DEF Next
<1>3. QED
  BY <1>1, <1>2, PTL DEF Spec

\* NoLostWakeup follows.
THEOREM Wakeups == Spec => []NoLostWakeup
<1>1. IndInv => NoLostWakeup
  BY DEF IndInv, Waking, Covered, Alarmed, NoLostWakeup
<1>2. QED
  BY <1>1, Invariance, PTL

=============================================================================
