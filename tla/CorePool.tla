------------------------------ MODULE CorePool ------------------------------
(***************************************************************************)
(* Index.computeCores(threads): the calling thread submits the blocks of   *)
(* one layer to a fixed thread pool, waits on a condition until all of     *)
(* them are counted, and goes on with the next layer.  Every layer has a   *)
(* lock, a condition and an atomic counter of its own; tasks of an earlier *)
(* layer may still be busy with theirs while a later layer runs.           *)
(*                                                                         *)
(* The lock is the owner of each layer's ReentrantLock, the wait set of    *)
(* the condition is the calling thread's program counter (nobody else ever *)
(* waits), and the pool's queue is the set of blocks in state "queued":    *)
(* which queued task a thread takes first is left open.                    *)
(***************************************************************************)
EXTENDS Naturals, FiniteSets

CONSTANTS
    K,           \* The diameter of the index: the number of layers.
    Block,       \* The blocks of all layers.
    LayerOf,     \* The layer each block is stored in.
    Deps,        \* The ancestor and the combined blocks of each block.
    CanFail,     \* The blocks whose computation may end in a Throwable.
    Thread,      \* The threads of the pool.
    Caller,      \* The thread that called computeCores.
    Nobody,      \* The owner of a free lock.
    NoBlock,     \* What an idle thread works on.
    Interrupts   \* Whether the caller may be interrupted while it waits.

ASSUME DiameterAssumption == K \in Nat \ {0}

\* A block is built from blocks of strictly lower layers, and no layer is
\* empty: a graph with an edge has walks of every length, back and forth.
ASSUME BlockAssumption ==
    /\ IsFiniteSet(Block)
    /\ LayerOf \in [Block -> 1..K]
    /\ Deps \in [Block -> SUBSET Block]
    /\ \A b \in Block : \A d \in Deps[b] : LayerOf[d] < LayerOf[b]
    /\ \A l \in 1..K : \E b \in Block : LayerOf[b] = l
    /\ CanFail \subseteq Block
    /\ NoBlock \notin Block

ASSUME ThreadAssumption ==
    /\ Thread # {}
    /\ Caller \notin Thread
    /\ Nobody \notin Thread \cup {Caller}
    /\ Interrupts \in BOOLEAN

VARIABLES
    mpc,         \* Where the calling thread is in computeCores.
    layer,       \* The layer it works on.
    status,      \* What has become of each block's task.
    done,        \* The atomic counter of each layer.
    owner,       \* The owner of each layer's lock.
    wpc,         \* Where each thread of the pool is in its task.
    cur,         \* The block each thread of the pool works on.
    shutdown     \* Whether executor.shutdown() has been called.

vars == <<mpc, layer, status, done, owner, wpc, cur, shutdown>>
mainVars == <<mpc, layer>>
poolVars == <<wpc, cur>>

Layers == 1..K
BlocksOf(l) == {b \in Block : LayerOf[b] = l}
Total(l) == Cardinality(BlocksOf(l))
Queued == {b \in Block : status[b] = "queued"}
LockOf(t) == LayerOf[cur[t]]

\* The caller holds the lock of its layer exactly at these points.
Locked == {"await", "check", "report", "leave", "raise"}
\* Woken by a signal, by the time limit or by an interrupt, the caller still
\* has to get the lock back before await returns.
Waking == {"notified", "expired", "thrown"}

MainPC == {"submit", "lock", "waiting", "end", "map", "done", "interrupted"}
              \cup Locked \cup Waking
WorkerPC == {"idle", "compute", "count", "lock", "try", "signal", "unlock", "exited"}
Status == {"new", "queued", "running", "computed", "counted", "failed"}

TypeOK ==
    /\ mpc \in MainPC
    /\ layer \in Layers
    /\ status \in [Block -> Status]
    /\ done \in [Layers -> Nat]
    /\ owner \in [Layers -> Thread \cup {Caller, Nobody}]
    /\ wpc \in [Thread -> WorkerPC]
    /\ cur \in [Thread -> Block \cup {NoBlock}]
    /\ shutdown \in BOOLEAN

Init ==
    /\ mpc = "submit"
    /\ layer = 1
    /\ status = [b \in Block |-> "new"]
    /\ done = [l \in Layers |-> 0]
    /\ owner = [l \in Layers |-> Nobody]
    /\ wpc = [t \in Thread |-> "idle"]
    /\ cur = [t \in Thread |-> NoBlock]
    /\ shutdown = FALSE

-----------------------------------------------------------------------------
(* The calling thread.                                                     *)

Submit(b) ==
    /\ mpc = "submit"
    /\ b \in BlocksOf(layer)
    /\ status[b] = "new"
    /\ status' = [status EXCEPT ![b] = "queued"]
    /\ UNCHANGED <<mainVars, poolVars, done, owner, shutdown>>

Submitted ==
    /\ mpc = "submit"
    /\ \A b \in BlocksOf(layer) : status[b] # "new"
    /\ mpc' = "lock"
    /\ UNCHANGED <<layer, status, poolVars, done, owner, shutdown>>

Acquire(from, to) ==
    /\ mpc = from
    /\ owner[layer] = Nobody
    /\ mpc' = to
    /\ owner' = [owner EXCEPT ![layer] = Caller]
    /\ UNCHANGED <<layer, status, poolVars, done, shutdown>>

Release(from, to) ==
    /\ mpc = from
    /\ mpc' = to
    /\ owner' = [owner EXCEPT ![layer] = Nobody]
    /\ UNCHANGED <<layer, status, poolVars, done, shutdown>>

Move(from, to) ==
    /\ mpc = from
    /\ mpc' = to
    /\ UNCHANGED <<layer, status, poolVars, done, owner, shutdown>>

MainLock == Acquire("lock", "await")

\* Joining the wait set and releasing the lock is one step of await.
Await == Release("await", "waiting")
InterruptedBeforeAwait == Interrupts /\ Move("await", "raise")

Timeout == Move("waiting", "expired")
InterruptedInAwait == Interrupts /\ Move("waiting", "thrown")
\* The contract of Condition.await permits a wake-up without a signal.
SpuriousWakeup == Move("waiting", "notified")

Reacquire ==
    \/ Acquire("notified", "check")
    \/ Acquire("expired", "report")
    \/ Acquire("thrown", "raise")

\* Breaking out one block early.
AllDone_OneShort(l) == done[l] + 1 >= Total(l)
AllDone(l) == done[l] = Total(l)

Check ==
    /\ mpc = "check"
    /\ mpc' = IF AllDone(layer) THEN "leave" ELSE "report"
    /\ UNCHANGED <<layer, status, poolVars, done, owner, shutdown>>

\* The report of intermediate progress changes nothing; the finally clause
\* releases the lock on every way out of the try block.
Again == Release("report", "lock")
Leave == Release("leave", "end")
\* The exception leaves computeCores: nobody shuts the executor down.
Raise == Release("raise", "interrupted")

\* Going on to one layer too many.
NextLayer_OneMore ==
    /\ mpc = "end"
    /\ layer <= K
    /\ mpc' = "submit"
    /\ layer' = layer + 1
    /\ UNCHANGED <<status, poolVars, done, owner, shutdown>>

NextLayer ==
    /\ mpc = "end"
    /\ layer < K
    /\ mpc' = "submit"
    /\ layer' = layer + 1
    /\ UNCHANGED <<status, poolVars, done, owner, shutdown>>

\* Mapping without shutting the executor down.
Shutdown_Forgotten == layer = K /\ Move("end", "map")

\* Mapping before the last layer was computed.
Shutdown_Early ==
    /\ mpc = "end"
    /\ layer + 1 >= K
    /\ mpc' = "map"
    /\ shutdown' = TRUE
    /\ UNCHANGED <<layer, status, poolVars, done, owner>>

Shutdown ==
    /\ mpc = "end"
    /\ layer = K
    /\ mpc' = "map"
    /\ shutdown' = TRUE
    /\ UNCHANGED <<layer, status, poolVars, done, owner>>

MapCores == Move("map", "done")

-----------------------------------------------------------------------------
(* A thread t of the pool.                                                 *)

Worker(t, from, to) ==
    /\ wpc[t] = from
    /\ wpc' = [wpc EXCEPT ![t] = to]

\* The task has returned, the thread is ready for another one.
Finish(t, from) ==
    /\ Worker(t, from, "idle")
    /\ cur' = [cur EXCEPT ![t] = NoBlock]

Take(t, b) ==
    /\ status[b] = "queued"
    /\ Worker(t, "idle", "compute")
    /\ cur' = [cur EXCEPT ![t] = b]
    /\ status' = [status EXCEPT ![b] = "running"]
    /\ UNCHANGED <<mainVars, done, owner, shutdown>>

Compute(t) ==
    /\ Worker(t, "compute", "count")
    /\ status' = [status EXCEPT ![cur[t]] = "computed"]
    /\ UNCHANGED <<mainVars, cur, done, owner, shutdown>>

\* Counting a failed block like any other, as in a finally clause.
Throw_Counted(t) ==
    /\ cur[t] \in CanFail
    /\ Worker(t, "compute", IF done[LockOf(t)] + 1 = Total(LockOf(t)) THEN "lock" ELSE "try")
    /\ done' = [done EXCEPT ![LockOf(t)] = @ + 1]
    /\ status' = [status EXCEPT ![cur[t]] = "failed"]
    /\ UNCHANGED <<mainVars, cur, owner, shutdown>>

\* block.computeCores() threw: the block is never counted.
Throw(t) ==
    /\ cur[t] \in CanFail
    /\ Finish(t, "compute")
    /\ status' = [status EXCEPT ![cur[t]] = "failed"]
    /\ UNCHANGED <<mainVars, done, owner, shutdown>>

\* Only the thread that counts the last block of its layer insists on the
\* lock; the others signal if they can have it at once.
Count(t) ==
    /\ Worker(t, "count", IF done[LockOf(t)] + 1 = Total(LockOf(t)) THEN "lock" ELSE "try")
    /\ done' = [done EXCEPT ![LockOf(t)] = @ + 1]
    /\ status' = [status EXCEPT ![cur[t]] = "counted"]
    /\ UNCHANGED <<mainVars, cur, owner, shutdown>>

GetLock(t, from) ==
    /\ Worker(t, from, "signal")
    /\ owner[LockOf(t)] = Nobody
    /\ owner' = [owner EXCEPT ![LockOf(t)] = t]
    /\ UNCHANGED <<mainVars, cur, status, done, shutdown>>

\* The last thread, too, gives up on a lock that is taken.
LastLock_Try(t) ==
    \/ GetLock(t, "lock")
    \/ /\ Finish(t, "lock")
       /\ owner[LockOf(t)] # Nobody
       /\ UNCHANGED <<mainVars, status, done, owner, shutdown>>

LastLock(t) == GetLock(t, "lock")
TryLock(t) == GetLock(t, "try")

GiveUp(t) ==
    /\ Finish(t, "try")
    /\ owner[LockOf(t)] # Nobody
    /\ UNCHANGED <<mainVars, status, done, owner, shutdown>>

\* Nothing is remembered of a signal that finds the caller not waiting on
\* the condition of this task's own layer.
Signal(t) ==
    /\ Worker(t, "signal", "unlock")
    /\ mpc' = IF mpc = "waiting" /\ layer = LockOf(t) THEN "notified" ELSE mpc
    /\ UNCHANGED <<layer, cur, status, done, owner, shutdown>>

\* Leaving the task with the lock still held.
Unlock_Forgotten(t) ==
    /\ Finish(t, "unlock")
    /\ UNCHANGED <<mainVars, status, done, owner, shutdown>>

Unlock(t) ==
    /\ Finish(t, "unlock")
    /\ owner' = [owner EXCEPT ![LockOf(t)] = Nobody]
    /\ UNCHANGED <<mainVars, status, done, shutdown>>

\* A thread of a pool that was shut down ends when the queue is empty.
Exit(t) ==
    /\ shutdown
    /\ Queued = {}
    /\ Worker(t, "idle", "exited")
    /\ UNCHANGED <<mainVars, cur, status, done, owner, shutdown>>

-----------------------------------------------------------------------------
Main ==
    \/ \E b \in Block : Submit(b)
    \/ Submitted
    \/ MainLock
    \/ Await
    \/ Reacquire
    \/ Check
    \/ Again
    \/ Leave
    \/ Raise
    \/ NextLayer
    \/ Shutdown
    \/ MapCores

\* What happens to the caller while it waits.
Environment ==
    \/ Timeout
    \/ InterruptedBeforeAwait
    \/ InterruptedInAwait
    \/ SpuriousWakeup

Pool(t) ==
    \/ \E b \in Block : Take(t, b)
    \/ Compute(t)
    \/ Throw(t)
    \/ Count(t)
    \/ LastLock(t)
    \/ TryLock(t)
    \/ GiveUp(t)
    \/ Signal(t)
    \/ Unlock(t)
    \/ Exit(t)

\* Either every thread has ended, or the call was interrupted and the pool,
\* never shut down, waits for tasks for ever.
Stopped ==
    \/ mpc = "done" /\ \A t \in Thread : wpc[t] = "exited"
    \/ mpc = "interrupted" /\ Queued = {} /\ \A t \in Thread : wpc[t] = "idle"

Terminating == Stopped /\ UNCHANGED vars

Next ==
    \/ Main
    \/ Environment
    \/ \E t \in Thread : Pool(t)
    \/ Terminating

Spec == Init /\ [][Next]_vars

\* Threads that can run do run, and a computation ends.  A thread queued for
\* a lock that is free again and again gets it.  Nothing obliges the caller
\* to be interrupted or to run into its time limit.
Fairness ==
    /\ WF_vars(Main)
    /\ \A t \in Thread : WF_vars(Pool(t)) /\ SF_vars(LastLock(t))

FairSpec == Spec /\ Fairness

\* Moreover, ten minutes do pass.
TimedSpec == FairSpec /\ WF_vars(Timeout)

-----------------------------------------------------------------------------
(* Safety.                                                                 *)

\* A thread only computes a block when all the blocks whose cores it reads
\* have been computed and counted: computeCores reads the cores of its
\* ancestor and of the combined blocks without any lock.
DepsReady ==
    \A t \in Thread : wpc[t] = "compute" =>
        \A d \in Deps[cur[t]] : status[d] = "counted"

\* When mapCoresToBlocks runs, it reads every block's cores: all tasks have
\* counted their block, none failed, none is queued or running.
MapComplete ==
    mpc \in {"map", "done"} =>
        /\ \A b \in Block : status[b] = "counted"
        /\ \A t \in Thread : wpc[t] \notin {"compute", "count"}

\* Each lock is held by a thread that is inside the critical section of that
\* very layer, so signal never meets an IllegalMonitorStateException, and no
\* way out of computeCores or of a task leaves a lock behind.
LockDiscipline ==
    /\ \A l \in Layers : owner[l] = Caller <=> (mpc \in Locked /\ layer = l)
    /\ \A t \in Thread, l \in Layers :
           owner[l] = t <=> (wpc[t] \in {"signal", "unlock"} /\ LockOf(t) = l)

\* A block's results are final once its layer was declared done: later
\* layers read them without synchronisation.
ClosedLayersFrozen ==
    [][\A b \in Block : LayerOf[b] < layer => status'[b] = status[b]]_vars

\* computeCores implements the abstract layered computation.
Layered == INSTANCE LayeredCores WITH
    ready <- {b \in Block : status[b] \in {"computed", "counted"}},
    closed <- IF mpc \in {"leave", "end", "map", "done"} THEN layer ELSE layer - 1,
    outcome <- CASE mpc = "done" -> "mapped"
                 [] mpc = "interrupted" -> "abandoned"
                 [] OTHER -> "running"
ImplementsLayered == Layered!Spec

-----------------------------------------------------------------------------
(* Liveness.                                                               *)

\* The thread that counted the last block does not stay stuck at its lock,
\* and every thread is back for new tasks in the end.
TasksReturn == \A t \in Thread : wpc[t] = "lock" ~> wpc[t] \in {"idle", "exited"}

\* When computeCores has returned, all threads of its pool end; and before that no
\* thread hangs in a task.
PoolTerminates ==
    /\ TasksReturn
    /\ mpc = "done" ~> \A t \in Thread : wpc[t] = "exited"

\* When the last block of a layer is counted while the caller waits, or holds
\* the lock and is about to, the layer ends, unless the wait is interrupted or
\* reaches its time limit first.
PromptLayerEnds ==
    \A l \in Layers :
        (/\ layer = l
         /\ mpc \in {"await", "waiting"}
         /\ \E t \in Thread : wpc[t] = "lock" /\ LockOf(t) = l)
            ~> (layer > l \/ mpc \in {"end", "expired", "interrupted"})

\* A layer all of whose blocks are counted ends (or the call is interrupted).
CountedLayerEnds ==
    \A l \in Layers :
        (layer = l /\ AllDone(l)) ~> (layer > l \/ mpc \in {"end", "interrupted"})
=============================================================================
