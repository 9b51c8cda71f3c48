---------------------------- MODULE LaunchTokens ----------------------------
(***************************************************************************)
(* The launch invariant through the steps that register, park and wake a   *)
(* fiber, and through a producer's settling its cell.                      *)
(***************************************************************************)
EXTENDS LaunchSteps

-----------------------------------------------------------------------------
(***************************************************************************)
(* Waiting and waking                                                      *)
(***************************************************************************)

\* The tokens a worker takes are of fibers that have parked by then.
LEMMA TakeTokensStep ==
  ASSUME IndInv, NEW w \in Worker, TakeTokens(w)
  PROVE  IndInv'
<1> DEFINE F == Ids(completed[w])
<1>1. /\ Types /\ Runs /\ Sources /\ Alarmed /\ phase[w] = "tokens"
      /\ Placed /\ Waits /\ OnWaiters /\ Once /\ OnCompleted /\ Pushed /\ Covered
      /\ phase' = [phase EXCEPT ![w] = "drain"]
      /\ completed' = [completed EXCEPT ![w] = <<>>]
      /\ pc' = [f \in Fiber |-> IF f \notin {g \in F : pc[g] = "parked"} THEN pc[f]
                                 ELSE IF pc[f] = "io" THEN "woken" ELSE "look"]
      /\ UNCHANGED <<running, inbox, events, alarm, home, scope, todo, cell, waiters>>
  BY DEF IndInv, Waking, TakeTokens, WakeUp, cells
<1>2. \A f \in F : f \in Program /\ f \in Fiber /\ pc[f] = "parked" /\ home[f] = w
  <2> SUFFICES ASSUME NEW f \in F PROVE f \in Program /\ f \in Fiber /\ pc[f] = "parked" /\ home[f] = w
    BY SMTT(30)
  <2>1. f \in Program /\ f \in Fiber /\ home[f] = w /\ pc[f] \in {"parking", "parked"}
    BY <1>1, SMTT(30) DEF OnCompleted, Fiber
  <2>2. pc[f] # "parking"
    BY <1>1, <2>1, LaunchAssumption, SMTT(30) DEF Runs
  <2>3. QED
    BY <2>1, <2>2
<1>3. \A f \in Fiber, c \in Cell : f \in Ids(waiters[c]) /\ f \in F => pc[c] = "ring" /\ f = Head(waiters[c])
  BY <1>1 DEF OnCompleted
<1>4. \A f \in Program : f \in Fiber /\ (home[f] = w /\ f \in Ids(completed[home[f]]) => f \in F)
  BY DEF Fiber
<1>5. \A c \in Cell : c \in Fiber /\ c \notin F
  BY <1>2, LaunchAssumption DEF Fiber, Program
<1>6. \A v \in Worker : v # w => phase'[v] = phase[v] /\ completed'[v] = completed[v] /\ phase[v] = phase'[v]
  BY <1>1 DEF Types
<1>7. phase'[w] = "drain" /\ completed'[w] = <<>> /\ Ids(<<>>) = {}
  BY <1>1, SMTT(30) DEF Types, Ids
<1> HIDE DEF F
<1>8. \A f \in Fiber : pc'[f] = IF f \in F THEN "look" ELSE pc[f]
  BY <1>1, <1>2
<1>9. Types'
  <2>1. Labels'
    <3>1. \A f \in Program : pc'[f] \in ProgramPc
      BY <1>1, <1>4, <1>8 DEF Types, Labels, ProgramPc
    <3>2. \A c \in Cell : pc'[c] \in CellPc
      BY <1>1, <1>5, <1>8 DEF Types, Labels
    <3>3. \A f \in Fiber : pc'[f] \in ProgramPc \cup CellPc
      BY <3>1, <3>2 DEF Fiber
    <3>4. QED
      BY <1>1, <3>1, <3>2, <3>3 DEF Labels
  <2>2. <<>> \in Seq(Fiber)
    OBVIOUS
  <2>3. completed' \in [Worker -> Seq(Fiber)]
    BY <1>1, <2>2 DEF Types
  <2>4. QED
    BY <1>1, <2>1, <2>3 DEF Types
<1>10. Runs'
  <2>1. \A v \in Worker : phase'[v] # "run" => running[v] = None
    BY <1>1, <1>6, <1>7, SMTT(30) DEF Runs
  <2>2. \A f \in Program : pc'[f] = "parking" => running[home[f]] = f
    BY <1>1, <1>4, <1>8, SMTT(30) DEF Runs
  <2>3. QED
    BY <1>1, <2>1, <2>2, SMTT(30) DEF Runs
<1>11. Sources'
  <2> SUFFICES ASSUME NEW v \in Worker, NEW g \in Ids(events[v])
               PROVE  pc'[g] = "io" /\ home[g] = v
    BY <1>1, SMTT(30) DEF Sources
  <2>1. pc[g] = "io" /\ home[g] = v /\ g \notin F
    BY <1>1, <1>2 DEF Sources
  <2>2. g \in Fiber
    <3>1. events[v] \in Seq(Fiber)
      BY <1>1, SMTT(30) DEF Types
    <3>2. QED
      BY <3>1 DEF Ids
  <2>3. QED
    BY <1>8, <2>1, <2>2, SMTT(30)
<1>12. Placed'
  <2>1. \A c \in Cell : cell[c] = None => pc'[c] = "none"
    BY <1>1, <1>5, <1>8 DEF Placed
  <2>2. ASSUME NEW f \in Program, pc'[f] = "placing"
        PROVE  todo[f] # <<>> /\ pc'[Head(todo[f])] # "none"
    <3>1. pc[f] = "placing"
      BY <1>4, <1>8, <2>2, SMTT(30)
    <3>2. todo[f] # <<>> /\ pc[Head(todo[f])] # "none" /\ todo[f] \in Seq(Fiber)
      BY <1>1, <1>4, <3>1 DEF Placed, Types
    <3>3. Head(todo[f]) \in Fiber
      BY <3>2, SMTT(30)
    <3>4. QED
      BY <1>8, <3>2, <3>3
  <2>3. QED
    BY <1>1, <2>1, <2>2, SMTT(30) DEF Placed
<1>13. Waits'
  BY <1>1, <1>2, <1>4, <1>8, SMTT(30) DEF Waits
<1>14. OnWaiters'
  <2> SUFFICES ASSUME NEW c \in Cell, NEW g \in Ids(waiters[c])
               PROVE  /\ g \in Program /\ pc'[g] \in {"look", "parking", "parked"}
                      /\ todo[g] # <<>> /\ Head(todo[g]) = c
                      /\ pc'[g] = "look" => pc'[c] = "ring" /\ g = Head(waiters[c])
    BY <1>1, SMTT(30) DEF OnWaiters
  <2>1. /\ g \in Program /\ pc[g] \in {"look", "parking", "parked"}
        /\ todo[g] # <<>> /\ Head(todo[g]) = c
        /\ pc[g] = "look" => pc[c] = "ring" /\ g = Head(waiters[c])
    BY <1>1 DEF OnWaiters
  <2>2. QED
    BY <1>3, <1>4, <1>5, <1>8, <2>1, SMTT(30)
<1>15. Once'
  BY <1>1, SMTT(30) DEF Once
<1>16. OnCompleted'
  <2> SUFFICES ASSUME NEW v \in Worker, NEW g \in Ids(completed'[v])
               PROVE  /\ g \in Program /\ home[g] = v /\ pc'[g] \in {"parking", "parked"}
                      /\ \A c \in Cell : g \in Ids(waiters[c]) =>
                           pc'[c] = "ring" /\ g = Head(waiters[c])
    BY <1>1, SMTT(30) DEF OnCompleted
  <2>1. v # w /\ g \in Ids(completed[v])
    BY <1>6, <1>7, SMTT(30)
  <2>2. /\ g \in Program /\ home[g] = v /\ pc[g] \in {"parking", "parked"}
        /\ \A c \in Cell : g \in Ids(waiters[c]) => pc[c] = "ring" /\ g = Head(waiters[c])
    BY <1>1, <2>1 DEF OnCompleted
  <2>3. g \notin F
    BY <1>2, <2>1, <2>2
  <2>4. QED
    BY <1>4, <1>5, <1>8, <2>2, <2>3, SMTT(30)
<1>17. Pushed'
  <2> SUFFICES ASSUME NEW c \in Cell, pc'[c] = "ring"
               PROVE  /\ waiters[c] # <<>>
                      /\ pc'[Head(waiters[c])] \in {"parking", "parked"} =>
                           Head(waiters[c]) \in Ids(completed'[home[Head(waiters[c])]])
    BY <1>1, SMTT(30) DEF Pushed
  <2> DEFINE g == Head(waiters[c])
  <2>1. /\ waiters[c] # <<>>
        /\ pc[g] \in {"parking", "parked"} => g \in Ids(completed[home[g]])
    BY <1>1, <1>5, <1>8 DEF Pushed
  <2>2. g \in Fiber /\ home[g] \in Worker
    BY <1>1, <2>1, SMTT(30) DEF Types
  <2> HIDE DEF g
  <2>3. ASSUME pc'[g] \in {"parking", "parked"} PROVE g \in Ids(completed'[home[g]])
    <3>1. g \notin F /\ g \in Ids(completed[home[g]])
      BY <1>8, <2>1, <2>2, <2>3
    <3>2. home[g] # w
      BY <3>1, SMTT(30) DEF F
    <3>3. QED
      BY <1>6, <2>2, <3>1, <3>2
  <2>4. QED
    BY <2>1, <2>3, SMTT(30) DEF g
<1>18. Covered'
  <2> SUFFICES ASSUME NEW g \in Program, pc'[g] \in {"parking", "parked"}
               PROVE  \/ g \in Ids(completed'[home[g]])
                      \/ /\ g \in Ids(waiters[Head(todo[g])])
                         /\ cell[Head(todo[g])] = "pending" \/ Locked(Head(todo[g]))'
    BY <1>1 DEF Covered
  <2>1. g \notin F /\ pc[g] \in {"parking", "parked"} /\ home[g] \in Worker
    BY <1>1, <1>4, <1>8, SMTT(30) DEF Types
  <2>2. todo[g] \in Seq(Cell) /\ todo[g] # <<>> /\ Head(todo[g]) \in Cell
    BY <1>1, <2>1 DEF Waits
  <2>3. Locked(Head(todo[g])) => Locked(Head(todo[g]))'
    BY <1>1, <1>5, <1>8, <2>2, SMTT(30) DEF Locked
  <2>4. g \in Ids(completed[home[g]]) => g \in Ids(completed'[home[g]])
    <3>1. g \in Ids(completed[home[g]]) => home[g] # w
      BY <2>1, SMTT(30) DEF F
    <3>2. QED
      BY <1>6, <2>1, <3>1, SMTT(30)
  <2>5. QED
    BY <1>1, <2>1, <2>3, <2>4, SMTT(30) DEF Covered
<1>19. Alarmed'
  <2>1. \A v \in Worker : Ringing(v) => Ringing(v)'
    BY <1>1, <1>2, <1>4, <1>5, <1>8, SMTT(30) DEF Ringing
  <2>2. ASSUME NEW v \in Worker
        PROVE  /\ completed'[v] # <<>> /\ phase'[v] # "tokens" => alarm[v] \/ Ringing(v)'
               /\ inbox[v] # <<>> /\ phase'[v] \notin {"tokens", "drain"} => alarm[v] \/ Ringing(v)'
    <3>1. CASE v = w
      BY <1>7, <3>1, SMTT(30)
    <3>2. CASE v # w
      BY <1>1, <1>6, <2>1, <3>2, SMTT(30) DEF Alarmed
    <3>3. QED
      BY <3>1, <3>2
  <2>3. QED
    BY <1>1, <2>2, SMTT(30) DEF Alarmed
<1>20. QED
  BY <1>9, <1>10, <1>11, <1>12, <1>13, <1>14, <1>15, <1>16, <1>17, <1>18, <1>19, SMTT(30) DEF IndInv, Waking

\* A fiber registers with a pending cell while it holds the cell's lock.
LEMMA RegisterStep ==
  ASSUME IndInv, NEW f \in Fiber, Register(f)
  PROVE  IndInv'
<1> DEFINE c == Head(todo[f])
<1>1. /\ Types /\ Runs /\ Sources /\ Alarmed
      /\ Placed /\ Waits /\ OnWaiters /\ Once /\ OnCompleted /\ Pushed /\ Covered
      /\ pc[f] = "look" /\ running[home[f]] = f /\ todo[f] # <<>> /\ ~Locked(c)
      /\ cell[c] = "pending"
      /\ waiters' = [waiters EXCEPT ![c] = Append(@, f)]
      /\ pc' = [pc EXCEPT ![f] = "parking"]
      /\ UNCHANGED <<phase, running, inbox, events, completed, alarm, home, scope, todo, cell>>
  BY SMTT(30) DEF IndInv, Waking, Register, Looks, At, Goto, loops, mailboxes
<1>2. f \in Program
  BY <1>1, ZenonT(30) DEF Types, Labels, Fiber, CellPc
<1>3. c \in Cell
  <2>1. todo[f] \in Seq(Cell)
    BY <1>1, <1>2, Zenon DEF Waits
  <2>2. QED
    BY <1>1, <2>1
<1>4. \A d \in Cell : f \notin Ids(waiters[d])
  BY <1>1, OffList, SMTT(30)
<1>5. waiters[c] \in Seq(Fiber) /\ Distinct(waiters[c])
  BY <1>1, <1>3, SMTT(30) DEF Types, Once
<1>6. /\ Append(waiters[c], f) \in Seq(Fiber)
      /\ Ids(Append(waiters[c], f)) = Ids(waiters[c]) \cup {f}
      /\ Distinct(Append(waiters[c], f))
  BY <1>3, <1>4, <1>5, AppendId
<1>7. pc[c] \notin {"waking", "ring"} /\ c # f
  BY <1>1, <1>2, <1>3, LaunchAssumption, Zenon DEF Locked, Program
<1>c. c = Head(todo[f])
  OBVIOUS
<1> HIDE DEF c
<1>8. \A d \in Cell : waiters'[d] = IF d = c THEN Append(waiters[c], f) ELSE waiters[d]
  BY <1>1, <1>3 DEF Types
<1>9. \A g \in Fiber : pc'[g] = IF g = f THEN "parking" ELSE pc[g]
  BY <1>1 DEF Types, Labels
<1>10. /\ \A g \in Program : g \in Fiber
       /\ \A d \in Cell : d \in Fiber /\ d # f
  BY <1>2, LaunchAssumption DEF Fiber, Program
<1>11. \A d \in Cell, g \in Fiber : g \in Ids(waiters'[d]) <=> g \in Ids(waiters[d]) \/ (d = c /\ g = f)
  BY <1>6, <1>8, SMTT(30)
<1>12. Types'
  <2>1. Labels'
    BY <1>1, <1>2, <1>10, NewLabel, Zenon DEF Types, ProgramPc
  <2>2. waiters' \in [Cell -> Seq(Fiber)]
    BY <1>1, <1>6, ZenonT(30) DEF Types
  <2>3. QED
    BY <1>1, <2>1, <2>2, SMTT(30) DEF Types
<1>13. Runs'
  BY <1>1, <1>9, <1>10 DEF Runs
<1>14. Sources'
  BY <1>1, SMTT(30) DEF Sources
<1>15. Placed'
  <2>1. \A d \in Cell : cell[d] = None => pc'[d] = "none"
    BY <1>1, <1>9, <1>10 DEF Placed
  <2>2. ASSUME NEW g \in Program, pc'[g] = "placing"
        PROVE  todo[g] # <<>> /\ pc'[Head(todo[g])] # "none"
    <3>1. pc[g] = "placing"
      BY <1>9, <1>10, <2>2, SMTT(30)
    <3>2. todo[g] # <<>> /\ pc[Head(todo[g])] # "none" /\ todo[g] \in Seq(Fiber)
      BY <1>1, <1>10, <3>1, Zenon DEF Placed, Types
    <3>3. Head(todo[g]) \in Fiber
      BY <3>2
    <3>4. QED
      BY <1>9, <3>2, <3>3
  <2>3. QED
    BY <1>1, <2>1, <2>2, SMTT(30) DEF Placed
<1>16. Waits'
  BY <1>1, <1>9, <1>10 DEF Waits
<1>17. OnWaiters'
  <2> SUFFICES ASSUME NEW d \in Cell, NEW g \in Ids(waiters'[d])
               PROVE  /\ g \in Program /\ pc'[g] \in {"look", "parking", "parked"}
                      /\ todo[g] # <<>> /\ Head(todo[g]) = d
                      /\ pc'[g] = "look" => pc'[d] = "ring" /\ g = Head(waiters'[d])
    BY <1>1, SMTT(30) DEF OnWaiters
  <2>1. CASE g = f /\ d = c
    BY <1>1, <1>2, <1>9, <1>c, <2>1, SMTT(30)
  <2>2. CASE g \in Ids(waiters[d])
    <3>1. /\ g \in Program /\ pc[g] \in {"look", "parking", "parked"}
          /\ todo[g] # <<>> /\ Head(todo[g]) = d
          /\ pc[g] = "look" => pc[d] = "ring" /\ g = Head(waiters[d])
      BY <1>1, <2>2 DEF OnWaiters
    <3>2. pc[g] = "look" => d # c /\ waiters'[d] = waiters[d]
      BY <1>7, <1>8, <3>1, SMTT(30)
    <3>3. g # f /\ pc'[g] = pc[g] /\ pc'[d] = pc[d]
      BY <1>4, <1>9, <1>10, <2>2, <3>1
    <3>4. QED
      BY <3>1, <3>2, <3>3, SMTT(30)
  <2>3. g \in Fiber
    <3>1. waiters'[d] \in Seq(Fiber)
      BY <1>12, SMTT(30) DEF Types
    <3>2. QED
      BY <3>1 DEF Ids
  <2>4. QED
    BY <1>11, <2>1, <2>2, <2>3, SMTT(30)
<1>18. Once'
  BY <1>1, <1>6, <1>8, SMTT(30) DEF Once
<1>19. OnCompleted'
  <2> SUFFICES ASSUME NEW v \in Worker, NEW g \in Ids(completed[v])
               PROVE  /\ g \in Program /\ home[g] = v /\ pc'[g] \in {"parking", "parked"}
                      /\ \A d \in Cell : g \in Ids(waiters'[d]) =>
                           pc'[d] = "ring" /\ g = Head(waiters'[d])
    BY <1>1, SMTT(30) DEF OnCompleted
  <2>1. /\ g \in Program /\ home[g] = v /\ pc[g] \in {"parking", "parked"}
        /\ \A d \in Cell : g \in Ids(waiters[d]) => pc[d] = "ring" /\ g = Head(waiters[d])
    BY <1>1, SMTT(30) DEF OnCompleted
  <2>2. g # f /\ g \in Fiber
    BY <1>1, <1>10, <2>1
  <2>3. ASSUME NEW d \in Cell, g \in Ids(waiters'[d])
        PROVE  pc'[d] = "ring" /\ g = Head(waiters'[d])
    <3>1. pc[d] = "ring" /\ g = Head(waiters[d])
      BY <1>11, <2>1, <2>2, <2>3
    <3>2. d # c /\ waiters'[d] = waiters[d] /\ pc'[d] = pc[d]
      BY <1>7, <1>8, <1>9, <1>10, <3>1, SMTT(30)
    <3>3. QED
      BY <3>1, <3>2, SMTT(30)
  <2>4. QED
    BY <1>9, <2>1, <2>2, <2>3, SMTT(30)
<1>20. Pushed'
  <2> SUFFICES ASSUME NEW d \in Cell, pc'[d] = "ring"
               PROVE  /\ waiters'[d] # <<>>
                      /\ pc'[Head(waiters'[d])] \in {"parking", "parked"} =>
                           Head(waiters'[d]) \in Ids(completed[home[Head(waiters'[d])]])
    BY <1>1, Zenon DEF Pushed
  <2>1. pc[d] = "ring" /\ d # c /\ waiters'[d] = waiters[d]
    BY <1>7, <1>8, <1>9, <1>10, SMTT(30)
  <2>2. /\ waiters[d] # <<>>
        /\ pc[Head(waiters[d])] \in {"parking", "parked"} =>
             Head(waiters[d]) \in Ids(completed[home[Head(waiters[d])]])
    BY <1>1, <2>1, SMTT(30) DEF Pushed
  <2>3. Head(waiters[d]) \in Ids(waiters[d]) /\ Head(waiters[d]) \in Fiber
    <3>1. waiters[d] \in Seq(Fiber) /\ Distinct(waiters[d])
      BY <1>1 DEF Types, Once
    <3>2. QED
      BY <2>2, <3>1, TailId
  <2>4. pc'[Head(waiters[d])] = pc[Head(waiters[d])]
    BY <1>4, <1>9, <2>3, SMTT(30)
  <2>5. QED
    BY <2>1, <2>2, <2>4, SMTT(30)
<1>21. Covered'
  <2> SUFFICES ASSUME NEW g \in Program, pc'[g] \in {"parking", "parked"}
               PROVE  \/ g \in Ids(completed[home[g]])
                      \/ /\ g \in Ids(waiters'[Head(todo[g])])
                         /\ cell[Head(todo[g])] = "pending" \/ Locked(Head(todo[g]))'
    BY <1>1, ZenonT(30) DEF Covered
  <2>1. CASE g = f
    BY <1>1, <1>3, <1>10, <1>11, <1>c, <2>1, SMTT(30)
  <2>2. CASE g # f
    <3>1. pc[g] \in {"parking", "parked"} /\ g \in Fiber
      BY <1>9, <1>10, <2>2, SMTT(30)
    <3>2. todo[g] \in Seq(Cell) /\ todo[g] # <<>> /\ Head(todo[g]) \in Cell
      BY <1>1, <3>1 DEF Waits
    <3>3. Locked(Head(todo[g])) => Locked(Head(todo[g]))'
      BY <1>1, <1>9, <1>10, <3>2 DEF Locked
    <3>4. g \in Ids(waiters[Head(todo[g])]) => g \in Ids(waiters'[Head(todo[g])])
      BY <1>11, <3>1, <3>2, SMTT(30)
    <3>5. QED
      BY <1>1, <3>1, <3>3, <3>4, SMTT(30) DEF Covered
  <2>3. QED
    BY <2>1, <2>2, SMTT(30)
<1>22. Alarmed'
  <2>1. ASSUME NEW v \in Worker, Ringing(v) PROVE Ringing(v)'
    <3>1. ASSUME NEW g \in Program, pc[g] = "placing" PROVE pc'[g] = "placing"
      BY <1>1, <3>1
    <3>2. ASSUME NEW d \in Cell, pc[d] = "ring" PROVE pc'[d] = "ring" /\ waiters'[d] = waiters[d]
      BY <1>7, <1>8, <1>9, <1>10, <3>2
    <3>3. QED
      BY <1>1, <2>1, <3>1, <3>2, Zenon DEF Ringing
  <2>2. QED
    BY <1>1, <2>1, SMTT(30) DEF Alarmed
<1>23. QED
  BY <1>12, <1>13, <1>14, <1>15, <1>16, <1>17, <1>18, <1>19, <1>20, <1>21, <1>22 DEF IndInv, Waking

\* The token registered under the lock still finds its fiber: it is only parked now.
LEMMA ParkStep ==
  ASSUME IndInv, NEW f \in Fiber, Park(f)
  PROVE  IndInv'
<1>1. /\ Types /\ Runs /\ Sources /\ Alarmed
      /\ Placed /\ Waits /\ OnWaiters /\ Once /\ OnCompleted /\ Pushed /\ Covered
      /\ pc[f] = "parking" /\ running[home[f]] = f
      /\ pc' = [pc EXCEPT ![f] = "parked"]
      /\ running' = [running EXCEPT ![home[f]] = None]
      /\ UNCHANGED <<phase, inbox, events, completed, alarm, home, scope, todo, cell, waiters>>
  BY DEF IndInv, Waking, Park, At, Goto, Yield, mailboxes, cells
<1>2. f \in Program
  BY <1>1, Zenon DEF Types, Labels, Fiber, CellPc
<1>3. \A g \in Fiber : pc'[g] = IF g = f THEN "parked" ELSE pc[g]
  BY <1>1 DEF Types, Labels
<1>4. /\ \A g \in Program : g \in Fiber
      /\ \A d \in Cell : d \in Fiber /\ d # f
  BY <1>2, LaunchAssumption DEF Fiber, Program
<1>5. /\ \A d \in Cell : pc'[d] = pc[d]
      /\ \A g \in Fiber : pc'[g] \in {"parking", "parked"} <=> pc[g] \in {"parking", "parked"}
      /\ \A g \in Fiber, l \in {"none", "look", "placing", "io"} : pc'[g] = l <=> pc[g] = l
  BY <1>1, <1>3, <1>4
<1>6. Types'
  <2>1. Labels'
    BY <1>1, <1>2, <1>4, NewLabel, Zenon DEF Types, ProgramPc
  <2>2. running' = [w \in Worker |-> running'[w]]
    BY <1>1, Zenon DEF Types
  <2>3. QED
    BY <1>1, <2>1, <2>2, SMTT(30) DEF Types
<1>7. Runs'
  <2>1. \A w \in Worker : phase[w] # "run" => running'[w] = None
    BY <1>1 DEF Runs, Types
  <2>2. ASSUME NEW g \in Program, pc'[g] = "parking" PROVE running'[home[g]] = g
    <3>1. g # f /\ pc[g] = "parking" /\ g \in Fiber
      BY <1>3, <1>4, <2>2, SMTT(30)
    <3>2. running[home[g]] = g /\ home[g] \in Worker
      BY <1>1, <3>1, SMTT(30) DEF Runs, Types
    <3>3. QED
      BY <1>1, <3>1, <3>2 DEF Types
  <2>3. QED
    BY <1>1, <2>1, <2>2 DEF Runs
<1>8. Sources'
  <2> SUFFICES ASSUME NEW v \in Worker, NEW g \in Ids(events[v])
               PROVE  pc'[g] = "io" /\ home[g] = v
    BY <1>1, SMTT(30) DEF Sources
  <2>1. pc[g] = "io" /\ home[g] = v
    BY <1>1, SMTT(30) DEF Sources
  <2>2. QED
    BY <1>1, <2>1, SMTT(30)
<1>9. Placed'
  <2>1. ASSUME NEW g \in Program, pc'[g] = "placing"
        PROVE  todo[g] # <<>> /\ pc'[Head(todo[g])] # "none"
    <3>1. pc[g] = "placing"
      BY <1>4, <1>5, <2>1, SMTT(30)
    <3>2. todo[g] # <<>> /\ pc[Head(todo[g])] # "none" /\ todo[g] \in Seq(Fiber)
      BY <1>1, <1>4, <3>1, SMTT(30) DEF Placed, Types
    <3>3. Head(todo[g]) \in Fiber
      BY <3>2
    <3>4. QED
      BY <1>5, <3>2, <3>3
  <2>2. QED
    BY <1>1, <1>5, <2>1 DEF Placed
<1>10. Waits'
  <2> SUFFICES ASSUME NEW g \in Program, pc'[g] \in {"look", "parking", "parked"}
               PROVE  todo[g] \in Seq(Cell) /\ (pc'[g] # "look" => todo[g] # <<>>)
    BY <1>1 DEF Waits
  <2>1. pc[g] \in {"look", "parking", "parked"} /\ (pc'[g] = "look" <=> pc[g] = "look")
    BY <1>4, <1>5, SMTT(30)
  <2>2. QED
    BY <1>1, <2>1, SMTT(30) DEF Waits
<1>11. OnWaiters'
  <2> SUFFICES ASSUME NEW d \in Cell, NEW g \in Ids(waiters[d])
               PROVE  /\ g \in Program /\ pc'[g] \in {"look", "parking", "parked"}
                      /\ todo[g] # <<>> /\ Head(todo[g]) = d
                      /\ pc'[g] = "look" => pc'[d] = "ring" /\ g = Head(waiters[d])
    BY <1>1, SMTT(30) DEF OnWaiters
  <2>1. /\ g \in Program /\ pc[g] \in {"look", "parking", "parked"}
        /\ todo[g] # <<>> /\ Head(todo[g]) = d
        /\ pc[g] = "look" => pc[d] = "ring" /\ g = Head(waiters[d])
    BY <1>1 DEF OnWaiters
  <2>2. QED
    BY <1>4, <1>5, <2>1, SMTT(30)
<1>12. Once'
  BY <1>1, SMTT(30) DEF Once
<1>13. OnCompleted'
  <2> SUFFICES ASSUME NEW v \in Worker, NEW g \in Ids(completed[v])
               PROVE  /\ g \in Program /\ home[g] = v /\ pc'[g] \in {"parking", "parked"}
                      /\ \A d \in Cell : g \in Ids(waiters[d]) =>
                           pc'[d] = "ring" /\ g = Head(waiters[d])
    BY <1>1, SMTT(30) DEF OnCompleted
  <2>1. /\ g \in Program /\ home[g] = v /\ pc[g] \in {"parking", "parked"}
        /\ \A d \in Cell : g \in Ids(waiters[d]) => pc[d] = "ring" /\ g = Head(waiters[d])
    BY <1>1 DEF OnCompleted
  <2>2. QED
    BY <1>4, <1>5, <2>1, SMTT(30)
<1>14. Pushed'
  <2> SUFFICES ASSUME NEW d \in Cell, pc'[d] = "ring"
               PROVE  /\ waiters[d] # <<>>
                      /\ pc'[Head(waiters[d])] \in {"parking", "parked"} =>
                           Head(waiters[d]) \in Ids(completed[home[Head(waiters[d])]])
    BY <1>1, SMTT(30) DEF Pushed
  <2>1. /\ waiters[d] # <<>>
        /\ pc[Head(waiters[d])] \in {"parking", "parked"} =>
             Head(waiters[d]) \in Ids(completed[home[Head(waiters[d])]])
    BY <1>1, <1>5 DEF Pushed
  <2>2. Head(waiters[d]) \in Fiber
    BY <1>1, <2>1, SMTT(30) DEF Types
  <2>3. QED
    BY <1>5, <2>1, <2>2, SMTT(30)
<1>15. Covered'
  <2> SUFFICES ASSUME NEW g \in Program, pc'[g] \in {"parking", "parked"}
               PROVE  \/ g \in Ids(completed[home[g]])
                      \/ /\ g \in Ids(waiters[Head(todo[g])])
                         /\ cell[Head(todo[g])] = "pending" \/ Locked(Head(todo[g]))'
    BY <1>1 DEF Covered
  <2>1. pc[g] \in {"parking", "parked"}
    BY <1>4, <1>5, SMTT(30)
  <2>2. todo[g] \in Seq(Cell) /\ todo[g] # <<>> /\ Head(todo[g]) \in Cell
    BY <1>1, <2>1, SMTT(30) DEF Waits
  <2>3. Locked(Head(todo[g])) => Locked(Head(todo[g]))'
    BY <1>1, <1>5, <2>2, SMTT(30) DEF Locked
  <2>4. QED
    BY <1>1, <2>1, <2>3, SMTT(30) DEF Covered
<1>16. Alarmed'
  <2>1. \A v \in Worker : Ringing(v) => Ringing(v)'
    BY <1>1, <1>4, <1>5, SMTT(30) DEF Ringing
  <2>2. QED
    BY <1>1, <2>1, SMTT(30) DEF Alarmed
<1>17. QED
  BY <1>6, <1>7, <1>8, <1>9, <1>10, <1>11, <1>12, <1>13, <1>14, <1>15, <1>16 DEF IndInv, Waking

-----------------------------------------------------------------------------
(***************************************************************************)
(* The producer                                                            *)
(***************************************************************************)

\* A producer's own label: no program fiber's changes, and no source's.
LEMMA ProducerLabel ==
  ASSUME IndInv, NEW c \in Cell, NEW l \in CellPc \ {"none"}, pc[c] \notin {"none", "io"},
         pc' = [pc EXCEPT ![c] = l],
         UNCHANGED <<phase, events, home, scope, todo>>,
         running' = running \/ (running[home[c]] = c /\ running' = [running EXCEPT ![home[c]] = None])
  PROVE  /\ Labels' /\ Runs' /\ Sources' /\ Waits'
         /\ \A f \in Program : f \in Fiber /\ pc'[f] = pc[f]
         /\ \A d \in Cell : d \in Fiber /\ d \notin Program /\ pc'[d] = IF d = c THEN l ELSE pc[d]
         /\ running' = [w \in Worker |-> running'[w]]
         /\ \A f \in Program : pc[f] = "placing" => todo[f] # <<>> /\ pc'[Head(todo[f])] # "none"
<1>1. Types /\ Runs /\ Sources /\ Placed /\ Waits /\ c \in Fiber /\ c \notin Program
  BY LaunchAssumption, SMTT(30) DEF IndInv, Waking, Fiber, Program
<1>2. \A g \in Fiber : pc'[g] = IF g = c THEN l ELSE pc[g]
  BY <1>1 DEF Types, Labels
<1>3. Labels'
  BY <1>1, NewLabel, Zenon DEF Types
<1>4. /\ \A f \in Program : f \in Fiber /\ pc'[f] = pc[f]
      /\ \A d \in Cell : d \in Fiber /\ d \notin Program /\ pc'[d] = IF d = c THEN l ELSE pc[d]
  BY <1>1, <1>2, LaunchAssumption DEF Fiber, Program
<1>5. running' = [w \in Worker |-> running'[w]]
  BY <1>1 DEF Types
<1>6. Runs'
  <2>1. \A w \in Worker : phase[w] # "run" => running'[w] = None
    BY <1>1 DEF Runs, Types
  <2>2. ASSUME NEW g \in Program, pc'[g] = "parking" PROVE running'[home[g]] = g
    <3>1. g # c /\ pc[g] = "parking" /\ g \in Fiber
      BY <1>1, <1>4, <2>2
    <3>2. running[home[g]] = g /\ home[g] \in Worker
      BY <1>1, <3>1, SMTT(30) DEF Runs, Types
    <3>3. QED
      BY <1>1, <3>1, <3>2, SMTT(30) DEF Types
  <2>3. QED
    BY <2>1, <2>2 DEF Runs
<1>7. Sources'
  <2> SUFFICES ASSUME NEW v \in Worker, NEW g \in Ids(events[v])
               PROVE  pc'[g] = "io" /\ home[g] = v
    BY SMTT(30) DEF Sources
  <2>1. pc[g] = "io" /\ home[g] = v
    BY <1>1 DEF Sources
  <2>2. QED
    BY <1>1, <2>1, SMTT(30)
<1>8. Waits'
  BY <1>1, <1>4, SMTT(30) DEF Waits
<1>9. ASSUME NEW f \in Program, pc[f] = "placing"
      PROVE  todo[f] # <<>> /\ pc'[Head(todo[f])] # "none"
  <2>1. todo[f] # <<>> /\ pc[Head(todo[f])] # "none" /\ todo[f] \in Seq(Fiber)
    BY <1>1, <1>4, <1>9, SMTT(30) DEF Placed, Types
  <2>2. Head(todo[f]) \in Fiber
    BY <2>1, SMTT(30)
  <2>3. QED
    BY <1>2, <2>1, <2>2, SMTT(30)
<1>10. QED
  BY <1>3, <1>4, <1>5, <1>6, <1>7, <1>8, <1>9, SMTT(30)

\* The outcome is stored and the lock held: who waits for the cell is still on its list.
LEMMA ResolveStep ==
  ASSUME IndInv, NEW c \in Fiber, Resolve(c)
  PROVE  IndInv'
<1>1. /\ Types /\ Alarmed /\ Placed /\ Waits /\ OnWaiters /\ Once /\ OnCompleted /\ Pushed /\ Covered
      /\ c \in Cell /\ pc[c] = "settle"
      /\ pc' = [pc EXCEPT ![c] = "waking"]
      /\ UNCHANGED <<phase, running, inbox, events, completed, alarm, home, scope, todo, waiters>>
  BY DEF IndInv, Waking, Resolve, At, Goto, loops, mailboxes
<1>2. PICK outcome \in {"ready", "faulted"} : cell' = [cell EXCEPT ![c] = outcome]
  BY Zenon DEF Resolve
<1>3. "waking" \in CellPc \ {"none"}
  BY DEF CellPc
<1>4. /\ Labels' /\ Runs' /\ Sources' /\ Waits'
      /\ \A f \in Program : f \in Fiber /\ pc'[f] = pc[f]
      /\ \A d \in Cell : d \in Fiber /\ d \notin Program /\ pc'[d] = IF d = c THEN "waking" ELSE pc[d]
      /\ \A f \in Program : pc[f] = "placing" => todo[f] # <<>> /\ pc'[Head(todo[f])] # "none"
  BY <1>1, <1>3, ProducerLabel, Zenon
<1>5. \A d \in Cell : cell'[d] = IF d = c THEN outcome ELSE cell[d]
  BY <1>1, <1>2 DEF Types
<1>6. Types'
  <2>1. cell' \in [Cell -> {None, "pending", "ready", "faulted"}]
    BY <1>1, <1>2, SMTT(30) DEF Types
  <2>2. QED
    BY <1>1, <1>4, <2>1 DEF Types
<1>7. Placed'
  BY <1>1, <1>4, <1>5, ZenonT(30) DEF Placed, None
<1>8. OnWaiters' /\ Once' /\ OnCompleted'
  BY <1>1, <1>4, SMTT(30) DEF OnWaiters, Once, OnCompleted
<1>9. Pushed'
  <2> SUFFICES ASSUME NEW d \in Cell, pc'[d] = "ring"
               PROVE  /\ waiters[d] # <<>>
                      /\ pc'[Head(waiters[d])] \in {"parking", "parked"} =>
                           Head(waiters[d]) \in Ids(completed[home[Head(waiters[d])]])
    BY <1>1, SMTT(30) DEF Pushed
  <2>1. /\ waiters[d] # <<>>
        /\ pc[Head(waiters[d])] \in {"parking", "parked"} =>
             Head(waiters[d]) \in Ids(completed[home[Head(waiters[d])]])
    BY <1>1, <1>4, SMTT(30) DEF Pushed
  <2>2. Head(waiters[d]) \in Fiber
    BY <1>1, <2>1, SMTT(30) DEF Types
  <2>3. QED
    BY <1>4, <2>1, <2>2, SMTT(30) DEF Fiber
<1>10. Covered'
  <2> SUFFICES ASSUME NEW g \in Program, pc'[g] \in {"parking", "parked"}
               PROVE  \/ g \in Ids(completed[home[g]])
                      \/ /\ g \in Ids(waiters[Head(todo[g])])
                         /\ cell'[Head(todo[g])] = "pending" \/ Locked(Head(todo[g]))'
    BY <1>1 DEF Covered
  <2>1. pc[g] \in {"parking", "parked"}
    BY <1>4, SMTT(30)
  <2>2. todo[g] \in Seq(Cell) /\ todo[g] # <<>> /\ Head(todo[g]) \in Cell
    BY <1>1, <2>1, SMTT(30) DEF Waits
  <2>3. Locked(Head(todo[g])) \/ Head(todo[g]) = c => Locked(Head(todo[g]))'
    BY <1>1, <1>4, <2>2, SMTT(30) DEF Locked
  <2>4. QED
    BY <1>1, <1>5, <2>1, <2>2, <2>3, SMTT(30) DEF Covered
<1>11. Alarmed'
  <2>1. \A v \in Worker : Ringing(v) => Ringing(v)'
    BY <1>1, <1>4, SMTT(30) DEF Ringing
  <2>2. QED
    BY <1>1, <2>1, SMTT(30) DEF Alarmed
<1>12. QED
  BY <1>4, <1>6, <1>7, <1>8, <1>9, <1>10, <1>11, SMTT(30) DEF IndInv, Waking
=============================================================================
