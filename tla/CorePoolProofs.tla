--------------------------- MODULE CorePoolProofs ---------------------------
(***************************************************************************)
(* Proofs, for every number of layers, blocks and threads, of what TLC     *)
(* checks of CorePool on small instances.  The inductive invariant says    *)
(* what the code relies on without writing it down: a block is worked on   *)
(* by at most one thread and its status follows that thread (TasksInv),    *)
(* the counter of a layer is the number of its blocks that are counted     *)
(* (CounterInv), layers below the current one are complete and layers      *)
(* above it untouched (LayerInv), and the locks are held exactly in the    *)
(* critical sections (LockDiscipline).                                     *)
(***************************************************************************)
EXTENDS CorePool, FiniteSetTheorems, TLAPS

\* What is established about a task by the point its thread has reached.
TaskStatus(pc) ==
    CASE pc = "compute" -> "running"
      [] pc = "count" -> "computed"
      [] OTHER -> "counted"

Busy == WorkerPC \ {"idle", "exited"}

TasksInv ==
    /\ \A t \in Thread : wpc[t] \in Busy =>
           cur[t] \in Block /\ status[cur[t]] = TaskStatus(wpc[t])
    /\ \A t, u \in Thread :
           (wpc[t] \in {"compute", "count"} /\ wpc[u] \in {"compute", "count"}
               /\ cur[t] = cur[u]) => t = u

Counted(l) == {b \in BlocksOf(l) : status[b] = "counted"}

CounterInv == \A l \in Layers : done[l] = Cardinality(Counted(l))

LayerInv ==
    /\ \A b \in Block : LayerOf[b] < layer => status[b] = "counted"
    /\ \A b \in Block : LayerOf[b] > layer => status[b] = "new"
    /\ mpc \in {"leave", "end", "map", "done"} =>
           \A b \in BlocksOf(layer) : status[b] = "counted"
    /\ mpc \in {"map", "done"} => layer = K

IInv == TypeOK /\ TasksInv /\ CounterInv /\ LayerInv /\ LockDiscipline

-----------------------------------------------------------------------------
(* Type correctness.                                                       *)

\* computeCores starts in a state of the right type.
LEMMA TypeCorrectInit == Init => TypeOK
<1> SUFFICES ASSUME Init PROVE TypeOK
  OBVIOUS
<1>1. mpc \in MainPC /\ shutdown \in BOOLEAN
  BY DEF Init, MainPC
<1>2. layer \in Layers /\ done \in [Layers -> Nat]
  BY DiameterAssumption DEF Init, Layers
<1>3. status \in [Block -> Status] /\ cur \in [Thread -> Block \cup {NoBlock}]
  BY DEF Init, Status
<1>4. owner \in [Layers -> Thread \cup {Caller, Nobody}] /\ wpc \in [Thread -> WorkerPC]
  BY DEF Init, WorkerPC
<1> QED
  BY <1>1, <1>2, <1>3, <1>4 DEF TypeOK

\* No step of the caller, its environment or a thread leaves the types.
LEMMA TypeCorrectNext == TypeOK /\ [Next]_vars => TypeOK'
<1> SUFFICES ASSUME TypeOK, [Next]_vars PROVE TypeOK'
  OBVIOUS
<1> USE DEF TypeOK, mainVars, poolVars
<1>1. CASE Main
  <2>1. CASE \E b \in Block : Submit(b)
    BY <2>1 DEF Submit, Status
  <2>2. CASE Submitted
    BY <2>2 DEF Submitted, MainPC
  <2>3. CASE MainLock \/ Reacquire
    BY <2>3 DEF MainLock, Reacquire, Acquire, MainPC, Locked
  <2>4. CASE Await \/ Again \/ Leave \/ Raise
    BY <2>4 DEF Await, Again, Leave, Raise, Release, MainPC
  <2>5. CASE NextLayer
    BY <2>5, DiameterAssumption DEF NextLayer, MainPC, Layers
  <2>6. CASE Shutdown \/ MapCores
    BY <2>6 DEF Shutdown, MapCores, Move, MainPC
  <2>7. CASE Check
    BY <2>7 DEF Check, MainPC, Locked
  <2> QED
    BY <1>1, <2>1, <2>2, <2>3, <2>4, <2>5, <2>6, <2>7 DEF Main
<1>2. CASE Environment
  BY <1>2 DEF Environment, Timeout, InterruptedBeforeAwait, InterruptedInAwait,
              SpuriousWakeup, Move, MainPC, Locked, Waking
<1>3. CASE \E t \in Thread : Pool(t)
  <2> PICK t \in Thread : Pool(t)
    BY <1>3
  <2>w. \A from, to : Worker(t, from, to) /\ to \in WorkerPC => wpc' \in [Thread -> WorkerPC]
    BY DEF Worker
  <2>f. \A from : Finish(t, from) =>
            /\ wpc' \in [Thread -> WorkerPC]
            /\ cur' \in [Thread -> Block \cup {NoBlock}]
    BY DEF Worker, Finish, WorkerPC
  <2>1. CASE \E b \in Block : Take(t, b)
    BY <2>1, <2>w DEF Take, Status, WorkerPC
  <2>2. CASE Compute(t)
    BY <2>2, <2>w DEF Compute, Status, WorkerPC
  <2>3. CASE Throw(t)
    BY <2>3, <2>f DEF Throw, Status
  <2>4. CASE Count(t)
    <3>1. wpc' \in [Thread -> WorkerPC]
      BY <2>4, <2>w DEF Count, WorkerPC
    <3>2. done' \in [Layers -> Nat]
      <4>1. done' = [l \in Layers |-> IF l = LockOf(t) THEN done[l] + 1 ELSE done[l]]
        BY <2>4 DEF Count
      <4> QED
        BY <4>1
    <3>3. status' \in [Block -> Status]
      BY <2>4 DEF Count, Status
    <3> QED
      BY <2>4, <3>1, <3>2, <3>3 DEF Count
  <2>5. CASE LastLock(t) \/ TryLock(t)
    BY <2>5, <2>w DEF LastLock, TryLock, GetLock, WorkerPC
  <2>6. CASE GiveUp(t) \/ Unlock(t)
    BY <2>6, <2>f DEF GiveUp, Unlock
  <2>7. CASE Signal(t)
    BY <2>7, <2>w DEF Signal, WorkerPC, MainPC, Waking
  <2>8. CASE Exit(t)
    BY <2>8, <2>w DEF Exit, WorkerPC
  <2> QED
    BY <2>1, <2>2, <2>3, <2>4, <2>5, <2>6, <2>7, <2>8 DEF Pool
<1>4. CASE Terminating \/ UNCHANGED vars
  BY <1>4 DEF Terminating, vars
<1> QED
  BY <1>1, <1>2, <1>3, <1>4 DEF Next

\* Every variable of the model keeps its type.
THEOREM TypeCorrect == Spec => []TypeOK
BY TypeCorrectInit, TypeCorrectNext, PTL DEF Spec

-----------------------------------------------------------------------------
(* Tasks: which thread works on which block.                               *)

\* What changes neither tasks nor threads keeps TasksInv.
LEMMA TasksUnchanged ==
    TasksInv /\ UNCHANGED <<status, wpc, cur>> => TasksInv'
BY DEF TasksInv, TaskStatus

\* The steps of the caller keep TasksInv: a block is submitted when it is new,
\* and no thread works on a new block.
LEMMA TasksMain == TypeOK /\ TasksInv /\ (Main \/ Environment) => TasksInv'
<1> SUFFICES ASSUME TypeOK, TasksInv, Main \/ Environment PROVE TasksInv'
  OBVIOUS
<1>1. ASSUME NEW b \in Block, Submit(b) PROVE TasksInv'
  <2>1. /\ UNCHANGED <<wpc, cur>>
        /\ status[b] = "new"
        /\ status' = [status EXCEPT ![b] = "queued"]
    BY <1>1 DEF Submit, poolVars
  <2>2. \A t \in Thread : wpc[t] \in Busy => cur[t] # b
    BY <2>1 DEF TasksInv, TaskStatus
  <2> QED
    BY <2>1, <2>2 DEF TasksInv, TypeOK
<1>2. CASE ~ \E b \in Block : Submit(b)
  <2>1. UNCHANGED <<status, wpc, cur>>
    BY <1>2 DEF Main, Environment, Submitted, MainLock, Acquire, Await, Release, Timeout, Move,
            InterruptedBeforeAwait, InterruptedInAwait, SpuriousWakeup, Reacquire, Check,
            Again, Leave, Raise, NextLayer, Shutdown, MapCores, poolVars
  <2> QED
    BY <2>1, TasksUnchanged
<1> QED
  BY <1>1, <1>2

\* The steps of a thread keep TasksInv: it takes a queued block, which no other
\* thread works on, and only changes the status of its own block.
LEMMA TasksPool ==
    ASSUME TypeOK, TasksInv, NEW t \in Thread, Pool(t)
    PROVE  TasksInv'
<1> USE DEF TypeOK, Worker, Finish, Busy, WorkerPC
<1>1. ASSUME NEW b \in Block, Take(t, b) PROVE TasksInv'
  <2>1. \A u \in Thread : wpc[u] \in Busy => cur[u] # b
    BY <1>1 DEF Take, TasksInv, TaskStatus
  <2>2. /\ wpc' = [wpc EXCEPT ![t] = "compute"]
        /\ cur' = [cur EXCEPT ![t] = b]
        /\ status' = [status EXCEPT ![b] = "running"]
    BY <1>1 DEF Take
  <2> QED
    BY <2>1, <2>2 DEF TasksInv, TaskStatus
<1>2. CASE Compute(t)
  <2>1. \A u \in Thread : wpc[u] \in Busy /\ u # t => cur[u] # cur[t]
    BY <1>2 DEF Compute, TasksInv, TaskStatus
  <2>2. /\ wpc' = [wpc EXCEPT ![t] = "count"]
        /\ cur' = cur
        /\ status' = [status EXCEPT ![cur[t]] = "computed"]
        /\ wpc[t] = "compute"
    BY <1>2 DEF Compute
  <2> QED
    BY <2>1, <2>2 DEF TasksInv, TaskStatus
<1>3. CASE Throw(t)
  <2>1. \A u \in Thread : wpc[u] \in Busy /\ u # t => cur[u] # cur[t]
    BY <1>3 DEF Throw, TasksInv, TaskStatus
  <2>2. /\ wpc' = [wpc EXCEPT ![t] = "idle"]
        /\ cur' = [cur EXCEPT ![t] = NoBlock]
        /\ status' = [status EXCEPT ![cur[t]] = "failed"]
        /\ wpc[t] = "compute"
    BY <1>3 DEF Throw
  <2> QED
    BY <2>1, <2>2 DEF TasksInv, TaskStatus
<1>4. CASE Count(t)
  <2>1. \A u \in Thread : wpc[u] \in Busy /\ u # t => cur[u] # cur[t]
    BY <1>4 DEF Count, TasksInv, TaskStatus
  <2>2. /\ \/ wpc' = [wpc EXCEPT ![t] = "lock"]
           \/ wpc' = [wpc EXCEPT ![t] = "try"]
        /\ cur' = cur
        /\ status' = [status EXCEPT ![cur[t]] = "counted"]
        /\ wpc[t] = "count"
    BY <1>4 DEF Count
  <2> QED
    BY <2>1, <2>2 DEF TasksInv, TaskStatus
<1>5. CASE LastLock(t) \/ TryLock(t) \/ Signal(t)
  <2>1. /\ \/ wpc' = [wpc EXCEPT ![t] = "signal"]
           \/ wpc' = [wpc EXCEPT ![t] = "unlock"]
        /\ UNCHANGED <<cur, status>>
        /\ wpc[t] \in {"lock", "try", "signal"}
    BY <1>5 DEF LastLock, TryLock, GetLock, Signal
  <2> QED
    BY <2>1 DEF TasksInv, TaskStatus
<1>6. CASE GiveUp(t) \/ Unlock(t)
  <2>1. /\ wpc' = [wpc EXCEPT ![t] = "idle"]
        /\ cur' = [cur EXCEPT ![t] = NoBlock]
        /\ status' = status
    BY <1>6 DEF GiveUp, Unlock
  <2> QED
    BY <2>1 DEF TasksInv, TaskStatus
<1>7. CASE Exit(t)
  <2>1. /\ wpc' = [wpc EXCEPT ![t] = "exited"]
        /\ UNCHANGED <<cur, status>>
    BY <1>7 DEF Exit
  <2> QED
    BY <2>1 DEF TasksInv, TaskStatus
<1> QED
  BY <1>1, <1>2, <1>3, <1>4, <1>5, <1>6, <1>7 DEF Pool

-----------------------------------------------------------------------------
(* The counters.                                                           *)

\* A layer's blocks, and the counted ones among them, are finitely many.
LEMMA BlocksFinite ==
    \A l : IsFiniteSet(BlocksOf(l)) /\ IsFiniteSet(Counted(l)) /\ Total(l) \in Nat
BY BlockAssumption, FS_Subset, FS_CardinalityType DEF BlocksOf, Counted, Total

\* What changes neither the counters nor which blocks are counted keeps
\* CounterInv.
LEMMA CounterUnchanged ==
    ASSUME CounterInv, done' = done,
           \A b \in Block : (status[b] = "counted") <=> (status'[b] = "counted")
    PROVE  CounterInv'
<1>1. \A l : Counted(l)' = Counted(l)
  BY DEF Counted, BlocksOf
<1> QED
  BY <1>1 DEF CounterInv, Layers

\* Counting a block adds one to the counter of its layer, and one element to
\* the counted blocks of that layer.
LEMMA CounterCount ==
    ASSUME TypeOK, TasksInv, CounterInv, NEW t \in Thread, Count(t)
    PROVE  CounterInv'
<1>1. PICK b \in Block : b = cur[t] /\ status[b] = "computed"
  BY DEF Count, Worker, TasksInv, TaskStatus, Busy, WorkerPC
<1>2. PICK m \in Layers : m = LayerOf[b]
  BY <1>1, BlockAssumption DEF Layers
<1>3. /\ done' = [done EXCEPT ![m] = @ + 1]
      /\ status' = [status EXCEPT ![b] = "counted"]
  BY <1>1, <1>2 DEF Count, LockOf
<1>4. ASSUME NEW l \in Layers, l # m PROVE done'[l] = Cardinality(Counted(l)')
  <2>1. Counted(l)' = Counted(l)
    BY <1>1, <1>2, <1>3, <1>4 DEF Counted, BlocksOf, TypeOK
  <2>2. done'[l] = done[l]
    BY <1>3, <1>4 DEF TypeOK
  <2> QED
    BY <2>1, <2>2 DEF CounterInv
<1>5. done'[m] = Cardinality(Counted(m)')
  <2>1. Counted(m)' = Counted(m) \cup {b}
    <3>1. \A x \in Block : (status'[x] = "counted") <=> (status[x] = "counted" \/ x = b)
      BY <1>1, <1>3 DEF TypeOK
    <3> QED
      BY <1>1, <1>2, <3>1 DEF Counted, BlocksOf
  <2>2. b \notin Counted(m)
    BY <1>1 DEF Counted
  <2>3. Cardinality(Counted(m) \cup {b}) = Cardinality(Counted(m)) + 1
    BY <2>2, BlocksFinite, FS_AddElement
  <2> QED
    BY <1>2, <1>3, <2>1, <2>3 DEF CounterInv, TypeOK
<1>6. ASSUME NEW l \in Layers PROVE done'[l] = Cardinality(Counted(l)')
  BY <1>4, <1>5
<1> QED
  BY <1>6 DEF CounterInv, Layers

\* The steps of the caller count nothing: submitting makes a new block queued.
LEMMA CounterMain ==
    ASSUME TypeOK, CounterInv, Main \/ Environment
    PROVE  CounterInv'
<1>1. done' = done
  BY DEF Main, Environment, Submit, Submitted, MainLock, Acquire, Await, Release, Timeout,
          Move, InterruptedBeforeAwait, InterruptedInAwait, SpuriousWakeup, Reacquire, Check,
          Again, Leave, Raise, NextLayer, Shutdown, MapCores
<1>2. status' = status \/ \E b \in Block : Submit(b)
  BY DEF Main, Environment, Submitted, MainLock, Acquire, Await, Release, Timeout,
          Move, InterruptedBeforeAwait, InterruptedInAwait, SpuriousWakeup, Reacquire, Check,
          Again, Leave, Raise, NextLayer, Shutdown, MapCores
<1>3. \A b \in Block : (status[b] = "counted") <=> (status'[b] = "counted")
  BY <1>2 DEF Submit, TypeOK
<1> QED
  BY <1>1, <1>3, CounterUnchanged

\* The steps of a thread but Count change no counter, and no counted block.
LEMMA CounterPool ==
    ASSUME TypeOK, TasksInv, CounterInv, NEW t \in Thread, Pool(t), ~Count(t)
    PROVE  CounterInv'
<1> USE DEF TypeOK
<1>1. done' = done
  BY DEF Pool, Take, Compute, Throw, LastLock, TryLock, GetLock, GiveUp, Signal, Unlock, Exit
<1>2. \A b \in Block : (status[b] = "counted") <=> (status'[b] = "counted")
  <2>1. CASE status' = status
    BY <2>1
  <2>2. CASE \E b \in Block : Take(t, b)
    BY <2>2 DEF Take
  <2>3. CASE Compute(t) \/ Throw(t)
    <3>1. status[cur[t]] = "running"
      BY <2>3 DEF Compute, Throw, Worker, Finish, TasksInv, TaskStatus, Busy, WorkerPC
    <3>2. \/ status' = [status EXCEPT ![cur[t]] = "computed"]
          \/ status' = [status EXCEPT ![cur[t]] = "failed"]
      BY <2>3 DEF Compute, Throw
    <3> QED
      BY <3>1, <3>2
  <2> QED
    BY <2>1, <2>2, <2>3 DEF Pool, LastLock, TryLock, GetLock, GiveUp, Signal, Unlock, Exit
<1> QED
  BY <1>1, <1>2, CounterUnchanged

-----------------------------------------------------------------------------
(* The layers.                                                             *)

\* A layer whose counter has reached the number of its blocks has no block
\* that is not counted: this is what breaking out of the loop relies on.
LEMMA AllDoneMeansCounted ==
    ASSUME CounterInv, NEW l \in Layers, AllDone(l)
    PROVE  \A b \in BlocksOf(l) : status[b] = "counted"
<1>1. Counted(l) \in SUBSET BlocksOf(l)
  BY DEF Counted
<1>2. Cardinality(Counted(l)) = Cardinality(BlocksOf(l))
  BY DEF CounterInv, AllDone, Total
<1>3. Counted(l) = BlocksOf(l)
  BY <1>1, <1>2, BlocksFinite, FS_Subset
<1> QED
  BY <1>3 DEF Counted

\* The steps of the caller keep LayerInv: it leaves a layer only when all its
\* blocks are counted, and submits blocks of its own layer only.
LEMMA LayerMain ==
    ASSUME TypeOK, CounterInv, LayerInv, Main \/ Environment
    PROVE  LayerInv'
<1> USE DEF TypeOK, mainVars, poolVars
<1>0. \A b \in Block : LayerOf[b] \in Layers
  BY BlockAssumption DEF Layers
<1>1. ASSUME NEW b \in Block, Submit(b) PROVE LayerInv'
  BY <1>0, <1>1 DEF Submit, LayerInv, BlocksOf, Layers
<1>2. CASE Check
  <2>1. CASE AllDone(layer)
    <3>1. \A b \in BlocksOf(layer) : status[b] = "counted"
      BY <2>1, AllDoneMeansCounted
    <3> QED
      BY <1>2, <2>1, <3>1 DEF Check, LayerInv, BlocksOf
  <2>2. CASE ~AllDone(layer)
    BY <1>2, <2>2 DEF Check, LayerInv, BlocksOf
  <2> QED
    BY <2>1, <2>2
<1>3. CASE NextLayer
  BY <1>0, <1>3, DiameterAssumption DEF NextLayer, LayerInv, BlocksOf, Layers
<1>4. CASE Shutdown \/ MapCores \/ Leave
  BY <1>4 DEF Shutdown, MapCores, Leave, Release, Move, LayerInv, BlocksOf
<1>5. CASE Submitted \/ MainLock \/ Reacquire \/ Await \/ Again \/ Raise
  <2>1. UNCHANGED <<layer, status>> /\ mpc' \notin {"leave", "end", "map", "done"}
    BY <1>5 DEF Submitted, MainLock, Reacquire, Acquire, Await, Again, Raise, Release
  <2> QED
    BY <2>1 DEF LayerInv, BlocksOf
<1>6. CASE Environment
  <2>1. UNCHANGED <<layer, status>> /\ mpc' \notin {"leave", "end", "map", "done"}
    BY <1>6 DEF Environment, Timeout, InterruptedBeforeAwait, InterruptedInAwait,
            SpuriousWakeup, Move
  <2> QED
    BY <2>1 DEF LayerInv, BlocksOf
<1> QED
  BY <1>1, <1>2, <1>3, <1>4, <1>5, <1>6 DEF Main

\* What a thread changes is a block of the current layer that is not counted.
LEMMA PoolTouches ==
    ASSUME TypeOK, TasksInv, NEW t \in Thread, Pool(t)
    PROVE  /\ layer' = layer
           /\ mpc' = mpc \/ (mpc = "waiting" /\ mpc' = "notified")
           /\ \/ status' = status
              \/ \E b \in Block, s \in Status :
                    /\ status[b] \in {"queued", "running", "computed"}
                    /\ status' = [status EXCEPT ![b] = s]
<1> USE DEF mainVars
<1>1. CASE \E b \in Block : Take(t, b)
  BY <1>1 DEF Take, Status
<1>2. CASE Compute(t) \/ Throw(t) \/ Count(t)
  <2>1. cur[t] \in Block /\ status[cur[t]] \in {"running", "computed"}
    BY <1>2 DEF Compute, Throw, Count, Worker, Finish, TasksInv, TaskStatus, Busy, WorkerPC
  <2>2. \E s \in Status : status' = [status EXCEPT ![cur[t]] = s]
    BY <1>2 DEF Compute, Throw, Count, Status
  <2>3. UNCHANGED <<mpc, layer>>
    BY <1>2 DEF Compute, Throw, Count
  <2> QED
    BY <2>1, <2>2, <2>3
<1>3. CASE LastLock(t) \/ TryLock(t) \/ GiveUp(t) \/ Signal(t) \/ Unlock(t) \/ Exit(t)
  BY <1>3 DEF LastLock, TryLock, GetLock, GiveUp, Signal, Unlock, Exit
<1> QED
  BY <1>1, <1>2, <1>3 DEF Pool

\* A thread leaves complete layers complete and later layers untouched.
LEMMA LayerPool ==
    ASSUME TypeOK, TasksInv, LayerInv, NEW t \in Thread, Pool(t)
    PROVE  LayerInv'
<1>1. CASE status' = status
  BY <1>1, PoolTouches DEF LayerInv, BlocksOf
<1>2. ASSUME NEW b \in Block, NEW s \in Status,
             status[b] \in {"queued", "running", "computed"},
             status' = [status EXCEPT ![b] = s]
      PROVE  LayerInv'
  <2>1. LayerOf[b] = layer /\ mpc \notin {"leave", "end", "map", "done"}
    <3>1. ~(LayerOf[b] < layer) /\ ~(LayerOf[b] > layer)
      BY <1>2 DEF LayerInv
    <3>2. LayerOf[b] = layer
      BY <3>1, BlockAssumption DEF TypeOK, Layers
    <3>3. b \in BlocksOf(layer)
      BY <3>2 DEF BlocksOf
    <3> QED
      BY <1>2, <3>2, <3>3 DEF LayerInv
  <2>2. \A c \in Block : LayerOf[c] # layer => status'[c] = status[c]
    BY <1>2, <2>1 DEF TypeOK
  <2>3. layer' = layer /\ mpc' \notin {"leave", "end", "map", "done"}
    BY <2>1, PoolTouches
  <2>4. \A c \in Block : LayerOf[c] < layer \/ LayerOf[c] > layer => LayerOf[c] # layer
    BY BlockAssumption DEF TypeOK, Layers
  <2> QED
    BY <2>2, <2>3, <2>4 DEF LayerInv
<1> QED
  BY <1>1, <1>2, PoolTouches

-----------------------------------------------------------------------------
(* The locks.                                                              *)

\* The caller takes and gives back the lock of its own layer only.
LEMMA LocksMain ==
    ASSUME TypeOK, LockDiscipline, Main \/ Environment
    PROVE  LockDiscipline'
<1> USE ThreadAssumption DEF LockDiscipline, LockOf, TypeOK, mainVars, poolVars, Locked
<1>1. ASSUME NEW from, NEW to, from \notin Locked, to \in Locked, Acquire(from, to)
      PROVE  LockDiscipline'
  BY <1>1 DEF Acquire
<1>2. ASSUME NEW from, NEW to, from \in Locked, to \notin Locked, Release(from, to)
      PROVE  LockDiscipline'
  BY <1>2 DEF Release
<1>3. ASSUME NEW from, NEW to, (from \in Locked) <=> (to \in Locked), Move(from, to)
      PROVE  LockDiscipline'
  BY <1>3 DEF Move
<1>4. CASE MainLock \/ Reacquire
  BY <1>1, <1>4 DEF MainLock, Reacquire
<1>5. CASE Await \/ Again \/ Leave \/ Raise
  BY <1>2, <1>5 DEF Await, Again, Leave, Raise
<1>6. CASE Environment \/ MapCores
  BY <1>3, <1>6 DEF Environment, Timeout, InterruptedBeforeAwait, InterruptedInAwait,
          SpuriousWakeup, MapCores
<1>7. CASE (\E b \in Block : Submit(b)) \/ Submitted \/ Check \/ Shutdown
  BY <1>7 DEF Submit, Submitted, Check, Shutdown
<1>8. CASE NextLayer
  BY <1>8 DEF NextLayer
<1> QED
  BY <1>4, <1>5, <1>6, <1>7, <1>8 DEF Main

\* A thread takes a lock that is free, the one of its task's layer, and its
\* signal only wakes a caller that does not hold it.
LEMMA LocksPool ==
    ASSUME TypeOK, TasksInv, LockDiscipline, NEW t \in Thread, Pool(t)
    PROVE  LockDiscipline'
<1> USE ThreadAssumption DEF LockDiscipline, TypeOK, mainVars, Worker, Finish
<1>0. wpc[t] \in Busy => LockOf(t) \in Layers
  BY BlockAssumption DEF TasksInv, LockOf, Layers
<1>1. CASE (\E b \in Block : Take(t, b)) \/ Compute(t) \/ Throw(t) \/ Count(t) \/ GiveUp(t) \/ Exit(t)
  <2>1. /\ UNCHANGED <<owner, mpc, layer>>
        /\ wpc[t] \notin {"signal", "unlock"} /\ wpc'[t] \notin {"signal", "unlock"}
        /\ \A u \in Thread \ {t} : wpc'[u] = wpc[u] /\ cur'[u] = cur[u]
    BY <1>1 DEF Take, Compute, Throw, Count, GiveUp, Exit
  <2> QED
    BY <2>1 DEF LockOf
<1>2. CASE LastLock(t) \/ TryLock(t)
  BY <1>0, <1>2 DEF LastLock, TryLock, GetLock, LockOf, Busy, WorkerPC
<1>3. CASE Signal(t)
  BY <1>3 DEF Signal, LockOf, Locked
<1>4. CASE Unlock(t)
  BY <1>0, <1>4 DEF Unlock, LockOf, Busy, WorkerPC
<1> QED
  BY <1>1, <1>2, <1>3, <1>4 DEF Pool

-----------------------------------------------------------------------------
(* The theorems.                                                           *)

\* The inductive invariant holds before anything is submitted.
LEMMA InitIInv == Init => IInv
<1> SUFFICES ASSUME Init PROVE IInv
  OBVIOUS
<1>1. TypeOK
  BY TypeCorrectInit
<1>2. TasksInv
  BY DEF Init, TasksInv, Busy
<1>3. CounterInv
  <2>1. \A l : Counted(l) = {}
    BY DEF Init, Counted, BlocksOf
  <2> QED
    BY <2>1, FS_EmptySet DEF Init, CounterInv
<1>4. LayerInv
  BY BlockAssumption DEF Init, LayerInv, BlocksOf
<1>5. LockDiscipline
  BY ThreadAssumption DEF Init, LockDiscipline, Locked
<1> QED
  BY <1>1, <1>2, <1>3, <1>4, <1>5 DEF IInv

\* The inductive invariant is preserved by every step.
LEMMA NextIInv == IInv /\ [Next]_vars => IInv'
<1> SUFFICES ASSUME IInv, [Next]_vars PROVE IInv'
  OBVIOUS
<1> USE DEF IInv
<1>1. TypeOK'
  BY TypeCorrectNext
<1>2. CASE Terminating \/ UNCHANGED vars
  BY <1>1, <1>2 DEF Terminating, vars, TasksInv, CounterInv, Counted, LayerInv, BlocksOf,
          LockDiscipline, LockOf
<1>3. CASE Main \/ Environment
  BY <1>1, <1>3, TasksMain, CounterMain, LayerMain, LocksMain
<1>4. ASSUME NEW t \in Thread, Pool(t) PROVE IInv'
  <2>1. CASE Count(t)
    BY <1>1, <1>4, <2>1, TasksPool, CounterCount, LayerPool, LocksPool
  <2>2. CASE ~Count(t)
    BY <1>1, <1>4, <2>2, TasksPool, CounterPool, LayerPool, LocksPool
  <2> QED
    BY <2>1, <2>2
<1> QED
  BY <1>2, <1>3, <1>4 DEF Next

\* The inductive invariant holds in every reachable state.
THEOREM Invariance == Spec => []IInv
BY InitIInv, NextIInv, PTL DEF Spec

\* Locks are held exactly inside the critical sections of their layer.
THEOREM LocksHeldInside == Spec => []LockDiscipline
BY Invariance, PTL DEF IInv

\* No thread reads the cores of a block that is not completely computed: the
\* block it computes is in the current layer, those it reads are below it.
THEOREM DependenciesReady == Spec => []DepsReady
<1>1. IInv => DepsReady
  <2> SUFFICES ASSUME IInv, NEW t \in Thread, wpc[t] = "compute", NEW d \in Deps[cur[t]]
               PROVE  status[d] = "counted"
    BY DEF DepsReady
  <2>1. cur[t] \in Block /\ status[cur[t]] = "running"
    BY DEF IInv, TasksInv, TaskStatus, Busy, WorkerPC
  <2>2. ~(LayerOf[cur[t]] > layer)
    BY <2>1 DEF IInv, LayerInv
  <2>3. d \in Block /\ LayerOf[d] < LayerOf[cur[t]]
    BY <2>1, BlockAssumption
  <2>4. LayerOf[d] < layer
    BY <2>1, <2>2, <2>3, BlockAssumption, DiameterAssumption DEF IInv, TypeOK, Layers
  <2> QED
    BY <2>3, <2>4 DEF IInv, LayerInv
<1> QED
  BY <1>1, Invariance, PTL

\* The cores are mapped to the blocks only when every block is counted and no
\* thread computes any more.
THEOREM MappingComplete == Spec => []MapComplete
<1>1. IInv => MapComplete
  <2> SUFFICES ASSUME IInv, mpc \in {"map", "done"}
               PROVE  /\ \A b \in Block : status[b] = "counted"
                      /\ \A t \in Thread : wpc[t] \notin {"compute", "count"}
    BY DEF MapComplete
  <2>1. layer = K /\ \A b \in BlocksOf(layer) : status[b] = "counted"
    BY DEF IInv, LayerInv
  <2>2. \A b \in Block : LayerOf[b] < layer \/ LayerOf[b] = layer
    BY <2>1, BlockAssumption, DiameterAssumption
  <2>3. \A b \in Block : status[b] = "counted"
    BY <2>1, <2>2 DEF IInv, LayerInv, BlocksOf
  <2> QED
    BY <2>3 DEF IInv, TasksInv, TaskStatus, Busy, WorkerPC
<1> QED
  BY <1>1, Invariance, PTL

\* Nothing is written to a block of a layer that was left.
THEOREM ClosedLayersStayFrozen == Spec => ClosedLayersFrozen
<1> DEFINE Frozen == \A b \in Block : LayerOf[b] < layer => status'[b] = status[b]
<1>1. IInv /\ [Next]_vars => [Frozen]_vars
  <2> SUFFICES ASSUME IInv, Next, NEW b \in Block, LayerOf[b] < layer
               PROVE  status'[b] = status[b]
    BY DEF vars
  <2>1. status[b] = "counted"
    BY DEF IInv, LayerInv
  <2>2. CASE Main \/ Environment \/ Terminating
    <3>1. status' = status \/ \E c \in Block : Submit(c)
      BY <2>2 DEF Main, Environment, Submitted, MainLock, Acquire, Await, Release, Timeout,
              Move, InterruptedBeforeAwait, InterruptedInAwait, SpuriousWakeup, Reacquire, Check,
              Again, Leave, Raise, NextLayer, Shutdown, MapCores, Terminating, vars
    <3> QED
      BY <2>1, <3>1 DEF Submit, IInv, TypeOK
  <2>3. ASSUME NEW t \in Thread, Pool(t) PROVE status'[b] = status[b]
    BY <2>1, <2>3, PoolTouches DEF IInv, TypeOK
  <2> QED
    BY <2>2, <2>3 DEF Next
<1> QED
  BY <1>1, Invariance, PTL DEF Spec, ClosedLayersFrozen

-----------------------------------------------------------------------------
(* The refinement of LayeredCores.                                         *)

Ready == {b \in Block : status[b] \in {"computed", "counted"}}
Closed == IF mpc \in {"leave", "end", "map", "done"} THEN layer ELSE layer - 1
Outcome == CASE mpc = "done" -> "mapped"
             [] mpc = "interrupted" -> "abandoned"
             [] OTHER -> "running"

\* Computing a block is the only step that makes a block ready; it is a block
\* of the layer after the closed ones, and what it reads is ready.
LEMMA PoolRefines ==
    ASSUME IInv, NEW t \in Thread, Pool(t)
    PROVE  [Layered!Next]_(Layered!vars)
<1> USE DEF IInv, TypeOK
<1>1. Closed' = Closed /\ Outcome' = Outcome
  BY PoolTouches DEF Closed, Outcome
<1>2. CASE Compute(t)
  <2>1. PICK b \in Block : b = cur[t] /\ status[b] = "running"
    BY <1>2 DEF Compute, Worker, TasksInv, TaskStatus, Busy, WorkerPC
  <2>2. b \notin Ready
    BY <2>1 DEF Ready
  <2>3. Ready' = Ready \cup {b}
    <3>1. \A c \in Block : status'[c] \in {"computed", "counted"}
              <=> (status[c] \in {"computed", "counted"} \/ c = b)
      BY <1>2, <2>1 DEF Compute
    <3> QED
      BY <2>1, <3>1 DEF Ready
  <2>4. LayerOf[b] = layer /\ mpc \notin {"leave", "end", "map", "done"}
    <3>1. ~(LayerOf[b] < layer) /\ ~(LayerOf[b] > layer)
      BY <2>1 DEF LayerInv
    <3>2. LayerOf[b] = layer
      BY <3>1, BlockAssumption DEF Layers
    <3>3. b \in BlocksOf(layer)
      BY <3>2 DEF BlocksOf
    <3> QED
      BY <2>1, <3>2, <3>3 DEF LayerInv
  <2>5. LayerOf[b] = Closed + 1
    BY <2>4, BlockAssumption DEF Closed, Layers
  <2>6. Deps[b] \subseteq Ready
    <3> SUFFICES ASSUME NEW d \in Deps[b] PROVE d \in Ready
      OBVIOUS
    <3>1. d \in Block /\ LayerOf[d] < layer
      BY <2>1, <2>4, BlockAssumption
    <3> QED
      BY <3>1 DEF LayerInv, Ready
  <2>7. Layered!Compute(b)
    BY <1>1, <2>2, <2>3, <2>5, <2>6 DEF Layered!Compute, Ready, Closed, Outcome
  <2> QED
    BY <2>7 DEF Layered!Next
<1>3. CASE ~Compute(t)
  <2>1. \A c \in Block : status'[c] \in {"computed", "counted"}
            <=> status[c] \in {"computed", "counted"}
    <3>1. CASE status' = status
      BY <3>1
    <3>2. CASE \E b \in Block : Take(t, b)
      BY <3>2 DEF Take
    <3>3. CASE Throw(t)
      BY <3>3 DEF Throw, Worker, Finish, TasksInv, TaskStatus, Busy, WorkerPC
    <3>4. CASE Count(t)
      BY <3>4 DEF Count, Worker, TasksInv, TaskStatus, Busy, WorkerPC
    <3> QED
      BY <1>3, <3>1, <3>2, <3>3, <3>4
         DEF Pool, LastLock, TryLock, GetLock, GiveUp, Signal, Unlock, Exit
  <2>2. Ready' = Ready
    BY <2>1 DEF Ready
  <2> QED
    BY <1>1, <2>2 DEF Layered!vars, Ready, Closed, Outcome
<1> QED
  BY <1>2, <1>3

\* Among the caller's steps, deciding to leave closes the layer, mapping the
\* cores ends the computation, and an interrupt abandons it.
LEMMA MainRefines ==
    ASSUME IInv, Main \/ Environment
    PROVE  [Layered!Next]_(Layered!vars)
<1> USE DEF IInv, TypeOK
<1>1. Ready' = Ready
  <2>1. status' = status \/ \E b \in Block : Submit(b)
    BY DEF Main, Environment, Submitted, MainLock, Acquire, Await, Release, Timeout,
            Move, InterruptedBeforeAwait, InterruptedInAwait, SpuriousWakeup, Reacquire, Check,
            Again, Leave, Raise, NextLayer, Shutdown, MapCores
  <2>2. \A c \in Block : status'[c] \in {"computed", "counted"}
            <=> status[c] \in {"computed", "counted"}
    BY <2>1 DEF Submit
  <2> QED
    BY <2>2 DEF Ready
<1>2. layer \in Nat /\ layer <= K /\ layer - 1 < K /\ layer - 1 + 1 = layer
  BY DiameterAssumption DEF Layers
<1>3. CASE Check /\ AllDone(layer)
  <2>1. \A b \in BlocksOf(layer) : status[b] = "counted"
    BY <1>3, AllDoneMeansCounted
  <2>2. Closed = layer - 1 /\ Closed' = layer /\ Outcome = "running" /\ Outcome' = "running"
    BY <1>3 DEF Check, Closed, Outcome
  <2>3. {b \in Block : LayerOf[b] = Closed + 1} \subseteq Ready
    BY <1>2, <2>1, <2>2 DEF BlocksOf, Ready
  <2>4. Layered!CloseLayer
    BY <1>1, <1>2, <2>2, <2>3 DEF Layered!CloseLayer, Ready, Closed, Outcome
  <2> QED
    BY <2>4 DEF Layered!Next
<1>4. CASE MapCores
  <2>1. Closed = K /\ Closed' = Closed /\ Outcome = "running" /\ Outcome' = "mapped"
    BY <1>4 DEF MapCores, Move, Closed, Outcome, LayerInv
  <2>2. Layered!MapCores
    BY <1>1, <2>1 DEF Layered!MapCores, Ready, Closed, Outcome
  <2> QED
    BY <2>2 DEF Layered!Next
<1>5. CASE Raise
  <2>1. Closed < K /\ Closed' = Closed /\ Outcome = "running" /\ Outcome' = "abandoned"
    BY <1>2, <1>5 DEF Raise, Release, Closed, Outcome
  <2>2. Layered!Abandon
    BY <1>1, <2>1 DEF Layered!Abandon, Ready, Closed, Outcome
  <2> QED
    BY <2>2 DEF Layered!Next
<1>6. CASE NextLayer
  <2>1. Closed' = Closed /\ Outcome' = Outcome
    BY <1>2, <1>6 DEF NextLayer, Closed, Outcome
  <2> QED
    BY <1>1, <2>1 DEF Layered!vars, Ready, Closed, Outcome
<1>7. CASE ~(Check /\ AllDone(layer)) /\ ~MapCores /\ ~Raise /\ ~NextLayer
  <2>1. Closed' = Closed /\ Outcome' = Outcome
    BY <1>7 DEF Main, Environment, Submit, Submitted, MainLock, Acquire, Await, Release, Timeout,
            Move, InterruptedBeforeAwait, InterruptedInAwait, SpuriousWakeup, Reacquire, Check,
            Again, Leave, Shutdown, Closed, Outcome, mainVars
  <2> QED
    BY <1>1, <2>1 DEF Layered!vars, Ready, Closed, Outcome
<1> QED
  BY <1>3, <1>4, <1>5, <1>6, <1>7

\* computeCores implements the abstract layered computation: every step of
\* every thread is a step of LayeredCores or leaves its state alone.
THEOREM Refinement == Spec => ImplementsLayered
<1>1. Init => Layered!Init
  BY DEF Init, Layered!Init
<1>2. IInv /\ [Next]_vars => [Layered!Next]_(Layered!vars)
  <2> SUFFICES ASSUME IInv, [Next]_vars PROVE [Layered!Next]_(Layered!vars)
    OBVIOUS
  <2>1. CASE Terminating \/ UNCHANGED vars
    BY <2>1 DEF Terminating, vars, Layered!vars
  <2> QED
    BY <2>1, PoolRefines, MainRefines DEF Next
<1> QED
  BY <1>1, <1>2, Invariance, PTL DEF Spec, ImplementsLayered, Layered!Spec
=============================================================================
