------------------------- MODULE ThreadPoolProofs -------------------------
(***************************************************************************)
(* The safety properties of ThreadPool for every number of threads and     *)
(* jobs.  IInv is the inductive invariant; each of its parts is preserved  *)
(* by a lemma of its own, which cites only the parts it needs.             *)
(*                                                                         *)
(* The last part is about PoolPause: a pool whose threads are stopped and  *)
(* released by signals, inside of their critical sections too, is still a  *)
(* ThreadPool, and what is proved of every run of ThreadPool holds of it.  *)
(***************************************************************************)
EXTENDS PoolPause, FiniteSetTheorems, TLAPS

AliveSet == {t \in Threads : Alive(t)}
WorkingSet == {t \in Threads : Working(t)}
Running == {job[t] : t \in Threads} \ {0}

\* The two counters of the pool count what they are named for.
CountersOK == alive = Cardinality(AliveSet) /\ working = Cardinality(WorkingSet)

\* thcount_lock is held across steps only by a thread that is on its way out.
LockOK == \A t \in Threads : thlock = t <=> pc[t] = "unlock"

\* The calls of the owner: what has happened when it is inside one.
OwnerOK ==
  /\ main \in {"ready", "idle?", "asleep", "destroy", "freed"} =>
       \A t \in Threads : pc[t] \notin {"none", "failed", "start"}
  /\ main = "freed" => \A t \in Threads : pc[t] \in {"unlock", "dead"}

\* The queue holds the newest jobs, one after the other.
QueueOK ==
  /\ Len(queue) <= added
  /\ \A i \in 1 .. Len(queue) : queue[i] = added - Len(queue) + i

\* A thread has a job exactly while it executes it, and no two have the same.
JobOK ==
  /\ \A t \in Threads : job[t] # 0 <=> pc[t] = "run"
  /\ \A t, u \in Threads : job[t] # 0 /\ job[t] = job[u] => t = u

\* A job that left the queue is being executed or was.
StartedOK ==
  main # "freed" =>
    /\ completed \cup Running = 1 .. (added - Len(queue))
    /\ completed \cap Running = {}

\* A sleeper never misses a semaphore that is up ...
SemaphoreOK == v = 1 /\ Sleepers(pc) # {} => \E t \in Threads : pc[t] = "wait"

\* ... and while jobs wait, it is up or was just taken.
TokenOK == keepalive /\ queue # <<>> => v = 1 \/ \E t \in Threads : HasToken(t)

IInv ==
  /\ TypeOK /\ CountersOK /\ LockOK /\ OwnerOK /\ QueueOK /\ JobOK
  /\ StartedOK /\ SemaphoreOK /\ TokenOK

---------------------------------------------------------------------------
(* Types.                                                                  *)

\* The semaphore changes the pc of a sleeper only, and to "wait".
LEMMA SignalledType ==
  ASSUME NEW p \in [Threads -> ThreadStates], NEW q \in Signalled(p)
  PROVE  /\ q \in [Threads -> ThreadStates]
         /\ \A t \in Threads : q[t] = p[t] \/ (p[t] = "asleep" /\ q[t] = "wait")
         /\ Sleepers(p) # {} => \E t \in Threads : q[t] = "wait"
<1>1. CASE Sleepers(p) = {}
  BY <1>1 DEF Signalled
<1>2. CASE Sleepers(p) # {}
  <2>1. PICK t \in Sleepers(p) : q = [p EXCEPT ![t] = "wait"]
    BY <1>2 DEF Signalled
  <2>2. t \in Threads /\ p[t] = "asleep"
    BY DEF Sleepers
  <2>. QED
    BY <2>1, <2>2 DEF ThreadStates
<1>. QED
  BY <1>1, <1>2

\* The initial state has the types of TypeOK.
LEMMA TypeInit == Init => TypeOK
BY ThreadPoolAssumption DEF ThreadPoolAssumption, Init, TypeOK, MainStates, ThreadStates

\* A counter is positive while a thread that it counts exists.
LEMMA CountersPositive ==
  ASSUME TypeOK, CountersOK, NEW t \in Threads
  PROVE  /\ Alive(t) => alive > 0
         /\ Working(t) => working > 0
<1>. USE ThreadPoolAssumption DEF ThreadPoolAssumption
<1>1. AliveSet \in SUBSET Threads /\ WorkingSet \in SUBSET Threads
  BY DEF AliveSet, WorkingSet
<1>2. IsFiniteSet(AliveSet) /\ IsFiniteSet(WorkingSet)
  BY <1>1, FS_Subset
<1>3. ASSUME Alive(t) PROVE alive > 0
  <2>1. AliveSet # {}
    BY <1>3 DEF AliveSet
  <2>2. alive # 0
    BY <1>2, <2>1, FS_EmptySet DEF CountersOK
  <2>. QED
    BY <2>2 DEF TypeOK
<1>4. ASSUME Working(t) PROVE working > 0
  <2>1. WorkingSet # {}
    BY <1>4 DEF WorkingSet
  <2>2. working # 0
    BY <1>2, <2>1, FS_EmptySet DEF CountersOK
  <2>. QED
    BY <2>2 DEF TypeOK
<1>. QED
  BY <1>3, <1>4

\* Every step of the owner or of a thread preserves the types; the counters
\* stay in Nat because they count sets of threads.
LEMMA TypeStep == TypeOK /\ CountersOK /\ JobOK /\ [Next]_vars => TypeOK'
<1>. SUFFICES ASSUME TypeOK, CountersOK, JobOK, [Next]_vars PROVE TypeOK'
  OBVIOUS
<1>. USE ThreadPoolAssumption DEF ThreadPoolAssumption, TypeOK, pool, jobs
<1>1. ASSUME OwnerStep PROVE TypeOK'
  <2>1. ASSUME NEW t \in Threads, thread_init(t) PROVE TypeOK'
    BY <2>1 DEF thread_init, ThreadStates
  <2>2. CASE thpool_init_returns
    BY <2>2 DEF thpool_init_returns, MainStates
  <2>3. CASE thpool_wait_test
    BY <2>3 DEF thpool_wait_test, MainStates
  <2>4. CASE thpool_destroy_posts
    BY <2>4 DEF thpool_destroy_posts, Broadcast, ThreadStates
  <2>5. CASE thpool_destroy_frees
    BY <2>5 DEF thpool_destroy_frees, MainStates
  <2>. QED
    BY <1>1, <2>1, <2>2, <2>3, <2>4, <2>5 DEF OwnerStep
<1>2. ASSUME OwnerCall PROVE TypeOK'
  <2>1. CASE thpool_init_fails
    BY <2>1 DEF thpool_init_fails, MainStates
  <2>2. CASE thpool_add_work
    <3>1. pc' \in [Threads -> ThreadStates]
      BY <2>2, SignalledType DEF thpool_add_work, bsem_post
    <3>2. added' \in 1 .. MaxJobs /\ queue' = Append(queue, added')
      BY <2>2 DEF thpool_add_work
    <3>3. queue' \in Seq(1 .. MaxJobs)
      BY <3>2
    <3>. QED
      BY <2>2, <3>1, <3>2, <3>3 DEF thpool_add_work, bsem_post
  <2>3. CASE thpool_wait
    BY <2>3 DEF thpool_wait, MainStates
  <2>4. CASE thpool_destroy
    BY <2>4 DEF thpool_destroy, MainStates
  <2>. QED
    BY <1>2, <2>1, <2>2, <2>3, <2>4 DEF OwnerCall
<1>3. ASSUME SpuriousIdle PROVE TypeOK'
  BY <1>3 DEF SpuriousIdle, MainStates
<1>4. ASSUME NEW t \in Threads, ThreadStep(t) \/ SpuriousWakeup(t) PROVE TypeOK'
  <2>1. CASE MarkAlive(t)
    BY <2>1 DEF MarkAlive, ThreadStates
  <2>2. CASE Loop(t)
    BY <2>2 DEF Loop, ThreadStates
  <2>3. CASE bsem_wait(t)
    BY <2>3 DEF bsem_wait, ThreadStates
  <2>4. CASE TestKeepalive(t)
    BY <2>4 DEF TestKeepalive, ThreadStates
  <2>5. CASE EnterWork(t)
    BY <2>5 DEF EnterWork, ThreadStates
  <2>6. CASE jobqueue_pull(t)
    <3>1. CASE queue = <<>>
      BY <2>6, <3>1 DEF jobqueue_pull, ThreadStates
    <3>2. CASE queue # <<>>
      <4>1. Head(queue) \in 1 .. MaxJobs /\ Tail(queue) \in Seq(1 .. MaxJobs)
        BY <3>2
      <4>2. job' = [job EXCEPT ![t] = Head(queue)] /\ queue' = Tail(queue)
        BY <2>6, <3>2 DEF jobqueue_pull
      <4>3. job' \in [Threads -> 0 .. MaxJobs] /\ queue' \in Seq(1 .. MaxJobs)
        BY <4>1, <4>2
      <4>4. [pc EXCEPT ![t] = "run"] \in [Threads -> ThreadStates]
        BY DEF ThreadStates
      <4>5. /\ v' \in {0, 1}
            /\ pc' = [pc EXCEPT ![t] = "run"] \/ pc' \in Signalled([pc EXCEPT ![t] = "run"])
        BY <2>6, <3>2 DEF jobqueue_pull, bsem_post
      <4>6. pc' \in [Threads -> ThreadStates]
        BY <4>4, <4>5, SignalledType
      <4>. QED
        BY <2>6, <4>3, <4>5, <4>6 DEF jobqueue_pull
    <3>. QED
      BY <3>1, <3>2
  <2>7. CASE JobReturns(t)
    <3>1. job[t] \in 1 .. MaxJobs
      BY <2>7 DEF JobReturns, JobOK
    <3>2. completed' = completed \cup {job[t]} /\ job' = [job EXCEPT ![t] = 0]
      BY <2>7 DEF JobReturns
    <3>3. completed' \in SUBSET (1 .. MaxJobs)
      BY <3>1, <3>2
    <3>4. job' \in [Threads -> 0 .. MaxJobs]
      BY <3>2
    <3>. QED
      BY <2>7, <3>3, <3>4 DEF JobReturns, ThreadStates
  <2>8. CASE LeaveWork(t)
    <3>1. working > 0
      BY <2>8, CountersPositive DEF LeaveWork, Working
    <3>. QED
      BY <2>8, <3>1 DEF LeaveWork, ThreadStates, MainStates
  <2>9. CASE Exit(t)
    <3>1. alive > 0
      BY <2>9, CountersPositive DEF Exit, Alive, ThreadStates
    <3>. QED
      BY <2>9, <3>1 DEF Exit, ThreadStates
  <2>10. CASE ExitUnlock(t)
    BY <2>10 DEF ExitUnlock, ThreadStates
  <2>11. CASE SpuriousWakeup(t)
    BY <2>11 DEF SpuriousWakeup, ThreadStates
  <2>. QED
    BY <1>4, <2>1, <2>2, <2>3, <2>4, <2>5, <2>6, <2>7, <2>8, <2>9, <2>10, <2>11 DEF ThreadStep
<1>5. CASE UNCHANGED vars
  BY <1>5 DEF vars
<1>. QED
  BY <1>1, <1>2, <1>3, <1>4, <1>5 DEF Next
---------------------------------------------------------------------------
(* The counters.                                                           *)

\* No thread has started yet, so both counters are zero.
LEMMA CountersInit == Init => CountersOK
<1>. SUFFICES ASSUME Init PROVE CountersOK
  OBVIOUS
<1>1. AliveSet = {} /\ WorkingSet = {}
  BY DEF Init, AliveSet, WorkingSet, Alive, Working
<1>. QED
  BY <1>1, FS_EmptySet DEF Init, CountersOK

\* A step that moves no thread into or out of the two sets, and leaves the
\* two counters alone, keeps them right.
LEMMA CountersSame ==
  ASSUME CountersOK, UNCHANGED <<alive, working>>,
         \A t \in Threads : (Alive(t)' <=> Alive(t)) /\ (Working(t)' <=> Working(t))
  PROVE  CountersOK'
<1>1. AliveSet' = AliveSet /\ WorkingSet' = WorkingSet
  BY DEF AliveSet, WorkingSet
<1>. QED
  BY <1>1 DEF CountersOK

\* What one thread more or less does to the size of a set of threads.
LEMMA OneThread ==
  ASSUME NEW S \in SUBSET Threads, NEW t \in Threads
  PROVE  /\ t \notin S => Cardinality(S \cup {t}) = Cardinality(S) + 1
         /\ t \in S => Cardinality(S \ {t}) = Cardinality(S) - 1
<1>1. IsFiniteSet(S)
  BY ThreadPoolAssumption, FS_Subset DEF ThreadPoolAssumption
<1>. QED
  BY <1>1, FS_AddElement, FS_RemoveElement

\* Every step keeps both counters right: thread_do changes them under
\* thcount_lock, once for every change of a thread's state that counts.
LEMMA CountersStep == TypeOK /\ CountersOK /\ [Next]_vars => CountersOK'
<1>. SUFFICES ASSUME TypeOK, CountersOK, [Next]_vars PROVE CountersOK'
  OBVIOUS
<1>. USE DEF TypeOK, pool, jobs
<1>0. AliveSet \in SUBSET Threads /\ WorkingSet \in SUBSET Threads
  BY DEF AliveSet, WorkingSet
<1>1. ASSUME UNCHANGED <<pc, alive, working>> PROVE CountersOK'
  BY <1>1, CountersSame DEF Alive, Working
<1>2. ASSUME OwnerStep PROVE CountersOK'
  <2>1. ASSUME NEW t \in Threads, thread_init(t) PROVE CountersOK'
    BY <2>1, CountersSame DEF thread_init, Alive, Working, ThreadStates
  <2>2. CASE thpool_init_returns \/ thpool_wait_test \/ thpool_destroy_frees
    BY <2>2, <1>1 DEF thpool_init_returns, thpool_wait_test, thpool_destroy_frees
  <2>3. CASE thpool_destroy_posts
    <3>1. \A t \in Threads : pc'[t] = pc[t] \/ (pc[t] = "asleep" /\ pc'[t] = "wait")
      BY <2>3 DEF thpool_destroy_posts, Broadcast
    <3>2. UNCHANGED <<alive, working>>
      BY <2>3 DEF thpool_destroy_posts
    <3>. QED
      BY <3>1, <3>2, CountersSame DEF Alive, Working, ThreadStates
  <2>. QED
    BY <1>2, <2>1, <2>2, <2>3 DEF OwnerStep
<1>3. ASSUME OwnerCall PROVE CountersOK'
  <2>1. CASE thpool_init_fails \/ thpool_wait \/ thpool_destroy
    BY <2>1, <1>1 DEF thpool_init_fails, thpool_wait, thpool_destroy
  <2>2. CASE thpool_add_work
    <3>1. \A t \in Threads : pc'[t] = pc[t] \/ (pc[t] = "asleep" /\ pc'[t] = "wait")
      BY <2>2, SignalledType DEF thpool_add_work, bsem_post
    <3>2. UNCHANGED <<alive, working>>
      BY <2>2 DEF thpool_add_work
    <3>. QED
      BY <3>1, <3>2, CountersSame DEF Alive, Working, ThreadStates
  <2>. QED
    BY <1>3, <2>1, <2>2 DEF OwnerCall
<1>4. CASE SpuriousIdle
  BY <1>4, <1>1 DEF SpuriousIdle
<1>5. ASSUME NEW t \in Threads, ThreadStep(t) \/ SpuriousWakeup(t) PROVE CountersOK'
  <2>1. CASE MarkAlive(t)
    <3>1. t \notin AliveSet /\ AliveSet' = AliveSet \cup {t} /\ WorkingSet' = WorkingSet
      BY <2>1 DEF MarkAlive, AliveSet, WorkingSet, Alive, Working, ThreadStates
    <3>. QED
      BY <2>1, <3>1, <1>0, OneThread DEF MarkAlive, CountersOK
  <2>2. CASE Loop(t)
    BY <2>2, CountersSame DEF Loop, Alive, Working, ThreadStates
  <2>3. CASE bsem_wait(t)
    BY <2>3, CountersSame DEF bsem_wait, Alive, Working, ThreadStates
  <2>4. CASE TestKeepalive(t)
    BY <2>4, CountersSame DEF TestKeepalive, Alive, Working, ThreadStates
  <2>5. CASE EnterWork(t)
    <3>1. t \notin WorkingSet /\ WorkingSet' = WorkingSet \cup {t} /\ AliveSet' = AliveSet
      BY <2>5 DEF EnterWork, AliveSet, WorkingSet, Alive, Working, ThreadStates
    <3>. QED
      BY <2>5, <3>1, <1>0, OneThread DEF EnterWork, CountersOK
  <2>6. CASE jobqueue_pull(t)
    <3>. DEFINE p == [pc EXCEPT ![t] = "run"]
    <3>1. p \in [Threads -> ThreadStates]
      BY DEF ThreadStates
    <3>2. pc[t] = "pull" /\ UNCHANGED <<alive, working>>
      BY <2>6 DEF jobqueue_pull
    <3>3. pc' = p \/ pc' = [pc EXCEPT ![t] = "leave"] \/ pc' \in Signalled(p)
      BY <2>6 DEF jobqueue_pull, bsem_post
    <3>4. ASSUME pc' \in Signalled(p) PROVE CountersOK'
      <4>1. \A u \in Threads : pc'[u] = p[u] \/ (p[u] = "asleep" /\ pc'[u] = "wait")
        BY <3>1, <3>4, SignalledType
      <4>. QED
        BY <3>2, <4>1, CountersSame DEF Alive, Working, ThreadStates
    <3>5. ASSUME pc' = p \/ pc' = [pc EXCEPT ![t] = "leave"] PROVE CountersOK'
      BY <3>2, <3>5, CountersSame DEF Alive, Working, ThreadStates
    <3>. QED
      BY <3>3, <3>4, <3>5
  <2>7. CASE JobReturns(t)
    BY <2>7, CountersSame DEF JobReturns, Alive, Working, ThreadStates
  <2>8. CASE LeaveWork(t)
    <3>1. t \in WorkingSet /\ WorkingSet' = WorkingSet \ {t} /\ AliveSet' = AliveSet
      BY <2>8 DEF LeaveWork, AliveSet, WorkingSet, Alive, Working, ThreadStates
    <3>. QED
      BY <2>8, <3>1, <1>0, OneThread DEF LeaveWork, CountersOK
  <2>9. CASE Exit(t)
    <3>1. t \in AliveSet /\ AliveSet' = AliveSet \ {t} /\ WorkingSet' = WorkingSet
      BY <2>9 DEF Exit, AliveSet, WorkingSet, Alive, Working, ThreadStates
    <3>. QED
      BY <2>9, <3>1, <1>0, OneThread DEF Exit, CountersOK
  <2>10. CASE ExitUnlock(t)
    BY <2>10, CountersSame DEF ExitUnlock, Alive, Working, ThreadStates
  <2>11. CASE SpuriousWakeup(t)
    BY <2>11, CountersSame DEF SpuriousWakeup, Alive, Working, ThreadStates
  <2>. QED
    BY <1>5, <2>1, <2>2, <2>3, <2>4, <2>5, <2>6, <2>7, <2>8, <2>9, <2>10, <2>11 DEF ThreadStep
<1>6. CASE UNCHANGED vars
  BY <1>6, <1>1 DEF vars
<1>. QED
  BY <1>2, <1>3, <1>4, <1>5, <1>6 DEF Next
---------------------------------------------------------------------------
(* Where threads may go in one step.                                       *)

\* A step of the owner moves a thread only by creating it or by waking it.
LEMMA OwnerMoves ==
  ASSUME TypeOK, OwnerStep \/ OwnerCall \/ SpuriousIdle \/ UNCHANGED vars, NEW t \in Threads
  PROVE  \/ pc'[t] = pc[t]
         \/ pc[t] = "asleep" /\ pc'[t] = "wait"
         \/ main = "init" /\ main' = "init" /\ pc[t] = "none" /\ pc'[t] \in {"start", "failed"}
<1>. USE DEF TypeOK, pool, jobs
<1>1. ASSUME NEW u \in Threads, thread_init(u)
      PROVE  pc'[t] = pc[t] \/ (main = "init" /\ main' = "init" /\ pc[t] = "none" /\ pc'[t] \in {"start", "failed"})
  BY <1>1 DEF thread_init
<1>2. CASE thpool_destroy_posts
  BY <1>2 DEF thpool_destroy_posts, Broadcast
<1>3. CASE thpool_add_work
  BY <1>3, SignalledType DEF thpool_add_work, bsem_post
<1>4. CASE SpuriousIdle \/ UNCHANGED vars
  BY <1>4 DEF SpuriousIdle, vars
<1>5. CASE thpool_init_returns \/ thpool_wait_test \/ thpool_destroy_frees
  BY <1>5 DEF thpool_init_returns, thpool_wait_test, thpool_destroy_frees
<1>6. CASE thpool_init_fails \/ thpool_wait \/ thpool_destroy
  BY <1>6 DEF thpool_init_fails, thpool_wait, thpool_destroy
<1>. QED
  BY <1>1, <1>2, <1>3, <1>4, <1>5, <1>6 DEF OwnerStep, OwnerCall

\* A step of one thread moves another thread only by waking it, and moves
\* itself along the control flow of thread_do.
LEMMA ThreadMoves ==
  ASSUME TypeOK, NEW t \in Threads, ThreadStep(t) \/ SpuriousWakeup(t)
  PROVE  /\ \A u \in Threads \ {t} :
              pc'[u] = pc[u] \/ (pc[u] = "asleep" /\ pc'[u] = "wait")
         /\ \/ pc[t] = "start" /\ pc'[t] = "loop"
            \/ pc[t] = "loop" /\ pc'[t] \in {"wait", "exit"}
            \/ pc[t] = "wait" /\ pc'[t] \in {"woken", "asleep"}
            \/ pc[t] = "asleep" /\ pc'[t] = "wait"
            \/ pc[t] = "woken" /\ pc'[t] \in {"enter", "loop"}
            \/ pc[t] = "enter" /\ pc'[t] = "pull"
            \/ pc[t] = "pull" /\ pc'[t] \in {"run", "leave"} /\ jobqueue_pull(t)
            \/ pc[t] = "run" /\ pc'[t] = "leave" /\ JobReturns(t)
            \/ pc[t] = "leave" /\ pc'[t] = "loop"
            \/ pc[t] = "exit" /\ pc'[t] = "unlock"
            \/ pc[t] = "unlock" /\ pc'[t] = "dead"
<1>. USE DEF TypeOK
<1>1. CASE jobqueue_pull(t)
  <2>. DEFINE p == [pc EXCEPT ![t] = "run"]
  <2>1. p \in [Threads -> ThreadStates]
    BY DEF ThreadStates
  <2>2. pc[t] = "pull"
    BY <1>1 DEF jobqueue_pull
  <2>3. pc' = p \/ pc' = [pc EXCEPT ![t] = "leave"] \/ pc' \in Signalled(p)
    BY <1>1 DEF jobqueue_pull, bsem_post
  <2>4. ASSUME pc' \in Signalled(p)
        PROVE  \A u \in Threads : pc'[u] = p[u] \/ (p[u] = "asleep" /\ pc'[u] = "wait")
    BY <2>1, <2>4, SignalledType
  <2>. QED
    BY <1>1, <2>2, <2>3, <2>4
<1>2. CASE MarkAlive(t) \/ Loop(t) \/ bsem_wait(t)
  BY <1>2 DEF MarkAlive, Loop, bsem_wait
<1>3. CASE TestKeepalive(t) \/ EnterWork(t) \/ JobReturns(t) \/ LeaveWork(t)
  BY <1>3 DEF TestKeepalive, EnterWork, JobReturns, LeaveWork
<1>4. CASE Exit(t) \/ ExitUnlock(t) \/ SpuriousWakeup(t)
  BY <1>4 DEF Exit, ExitUnlock, SpuriousWakeup
<1>. QED
  BY <1>1, <1>2, <1>3, <1>4 DEF ThreadStep

---------------------------------------------------------------------------
(* The lock and the owner.                                                 *)

\* thcount_lock has at most one owner, the thread between its alive-- and its unlock.
LEMMA LockStep == TypeOK /\ LockOK /\ [Next]_vars => LockOK'
<1>. SUFFICES ASSUME TypeOK, LockOK, [Next]_vars PROVE LockOK'
  OBVIOUS
<1>. USE DEF TypeOK, LockOK, pool, jobs
<1>1. ASSUME OwnerStep \/ OwnerCall \/ SpuriousIdle \/ UNCHANGED vars PROVE LockOK'
  <2>1. thlock' = thlock
    BY <1>1 DEF OwnerStep, OwnerCall, SpuriousIdle, vars, thread_init, thpool_init_returns,
       thpool_wait_test, thpool_destroy_posts, thpool_destroy_frees, thpool_init_fails,
       thpool_add_work, thpool_wait, thpool_destroy
  <2>. QED
    BY <1>1, <2>1, OwnerMoves
<1>2. ASSUME NEW t \in Threads, ThreadStep(t) \/ SpuriousWakeup(t) PROVE LockOK'
  <2>1. CASE Exit(t)
    BY <2>1, ThreadPoolAssumption DEF Exit, ThreadPoolAssumption
  <2>2. CASE ExitUnlock(t)
    BY <2>2, ThreadPoolAssumption DEF ExitUnlock, ThreadPoolAssumption
  <2>3. CASE ~ Exit(t) /\ ~ ExitUnlock(t)
    <3>1. thlock' = thlock
      BY <1>2, <2>3 DEF ThreadStep, MarkAlive, Loop, bsem_wait, TestKeepalive, EnterWork,
         jobqueue_pull, JobReturns, LeaveWork, SpuriousWakeup
    <3>2. pc[t] \notin {"exit", "unlock"}
      BY <1>2, <2>3 DEF ThreadStep, MarkAlive, Loop, bsem_wait, TestKeepalive, EnterWork,
         jobqueue_pull, JobReturns, LeaveWork, SpuriousWakeup
    <3>. QED
      BY <1>2, <3>1, <3>2, ThreadMoves
  <2>. QED
    BY <2>1, <2>2, <2>3
<1>. QED
  BY <1>1, <1>2 DEF Next

\* When the busy wait of thpool_init ends every thread runs thread_do, and
\* when thpool_destroy frees the pool none does.
LEMMA OwnerProgress == TypeOK /\ CountersOK /\ OwnerOK /\ [Next]_vars => OwnerOK'
<1>. SUFFICES ASSUME TypeOK, CountersOK, OwnerOK, [Next]_vars PROVE OwnerOK'
  OBVIOUS
<1>. USE DEF TypeOK, OwnerOK, pool, jobs
<1>0. AliveSet \in SUBSET Threads /\ IsFiniteSet(Threads) /\ IsFiniteSet(AliveSet)
  BY ThreadPoolAssumption, FS_Subset DEF AliveSet, ThreadPoolAssumption
<1>1. CASE thpool_init_returns
  <2>1. AliveSet = Threads
    BY <1>0, <1>1, FS_Subset DEF thpool_init_returns, CountersOK
  <2>2. \A t \in Threads : Alive(t)
    BY <2>1 DEF AliveSet
  <2>. QED
    BY <1>1, <2>2 DEF thpool_init_returns, Alive, ThreadStates
<1>2. CASE thpool_destroy_frees
  <2>1. AliveSet = {}
    BY <1>0, <1>2, FS_EmptySet DEF thpool_destroy_frees, CountersOK
  <2>2. \A t \in Threads : ~ Alive(t)
    BY <2>1 DEF AliveSet
  <2>. QED
    BY <1>2, <2>2 DEF thpool_destroy_frees, Alive, ThreadStates
<1>3. ASSUME \/ (OwnerStep \/ OwnerCall \/ SpuriousIdle) /\ ~ thpool_init_returns /\ ~ thpool_destroy_frees
             \/ UNCHANGED vars
      PROVE  OwnerOK'
  <2>1. \/ main' = main
        \/ /\ main \in {"ready", "idle?", "asleep"} /\ main' \in {"ready", "idle?", "asleep", "destroy"}
        \/ main' = "null"
    BY <1>3 DEF OwnerStep, OwnerCall, SpuriousIdle, vars, thread_init,
       thpool_wait_test, thpool_destroy_posts, thpool_init_fails,
       thpool_add_work, thpool_wait, thpool_destroy
  <2>2. OwnerStep \/ OwnerCall \/ SpuriousIdle \/ UNCHANGED vars
    BY <1>3
  <2>. QED
    BY <2>1, <2>2, OwnerMoves
<1>4. ASSUME NEW t \in Threads, ThreadStep(t) \/ SpuriousWakeup(t) PROVE OwnerOK'
  <2>1. main' = main \/ (main = "asleep" /\ main' = "idle?")
    BY <1>4 DEF ThreadStep, MarkAlive, Loop, bsem_wait, TestKeepalive, EnterWork,
       jobqueue_pull, JobReturns, LeaveWork, Exit, ExitUnlock, SpuriousWakeup
  <2>. QED
    BY <1>4, <2>1, ThreadMoves
<1>. QED
  BY <1>1, <1>2, <1>3, <1>4 DEF Next
---------------------------------------------------------------------------
(* Jobs.                                                                   *)

\* Four steps only touch the queue and the jobs.
LEMMA JobSteps ==
  ASSUME TypeOK, [Next]_vars
  PROVE  \/ UNCHANGED <<queue, job, added, completed>> /\ (main # "freed" => main' # "freed")
         \/ thpool_add_work
         \/ thpool_destroy_frees
         \/ \E t \in Threads : jobqueue_pull(t)
         \/ \E t \in Threads : JobReturns(t)
<1>. USE DEF pool, jobs
<1>1. ASSUME OwnerStep \/ OwnerCall \/ SpuriousIdle \/ UNCHANGED vars,
             ~ thpool_add_work, ~ thpool_destroy_frees
      PROVE  UNCHANGED <<queue, job, added, completed>> /\ (main # "freed" => main' # "freed")
  BY <1>1 DEF OwnerStep, OwnerCall, SpuriousIdle, vars, thread_init, thpool_init_returns,
     thpool_wait_test, thpool_destroy_posts, thpool_init_fails, thpool_wait, thpool_destroy
<1>2. ASSUME NEW t \in Threads, ThreadStep(t) \/ SpuriousWakeup(t),
             ~ jobqueue_pull(t), ~ JobReturns(t)
      PROVE  UNCHANGED <<queue, job, added, completed>> /\ (main # "freed" => main' # "freed")
  BY <1>2 DEF ThreadStep, MarkAlive, Loop, bsem_wait, TestKeepalive, EnterWork,
     LeaveWork, Exit, ExitUnlock, SpuriousWakeup
<1>. QED
  BY <1>1, <1>2 DEF Next

\* What jobqueue_pull does to the queue and the jobs: nothing, or the thread
\* takes the oldest job.
LEMMA PullShape ==
  ASSUME TypeOK, QueueOK, JobOK, NEW t \in Threads, jobqueue_pull(t)
  PROVE  /\ UNCHANGED <<main, added, completed>>
         /\ pc[t] = "pull" /\ job[t] = 0
         /\ \/ queue = <<>> /\ pc'[t] = "leave" /\ UNCHANGED <<queue, job>>
            \/ /\ queue # <<>> /\ pc'[t] = "run"
               /\ queue' = Tail(queue)
               /\ job' = [job EXCEPT ![t] = added - Len(queue) + 1]
<1>. USE DEF TypeOK
<1>1. UNCHANGED <<main, added, completed>> /\ pc[t] = "pull"
  BY DEF jobqueue_pull
<1>2. job[t] = 0
  BY <1>1 DEF JobOK
<1>3. CASE queue = <<>>
  BY <1>1, <1>2, <1>3 DEF jobqueue_pull
<1>4. CASE queue # <<>>
  <2>. DEFINE p == [pc EXCEPT ![t] = "run"]
  <2>1. queue' = Tail(queue) /\ job' = [job EXCEPT ![t] = Head(queue)]
    BY <1>4 DEF jobqueue_pull
  <2>2. Head(queue) = added - Len(queue) + 1
    BY <1>4 DEF QueueOK
  <2>3. p \in [Threads -> ThreadStates] /\ p[t] = "run"
    BY DEF ThreadStates
  <2>4. pc' = p \/ pc' \in Signalled(p)
    BY <1>4 DEF jobqueue_pull, bsem_post
  <2>5. ASSUME pc' \in Signalled(p) PROVE pc'[t] = p[t] \/ p[t] = "asleep"
    BY <2>3, <2>5, SignalledType
  <2>6. pc'[t] = "run"
    BY <2>3, <2>4, <2>5
  <2>. QED
    BY <1>1, <1>2, <1>4, <2>1, <2>2, <2>6
<1>. QED
  BY <1>3, <1>4

\* jobqueue_push links in behind the newest job, jobqueue_pull takes the oldest.
LEMMA QueueStep == TypeOK /\ QueueOK /\ JobOK /\ [Next]_vars => QueueOK'
<1>. SUFFICES ASSUME TypeOK, QueueOK, JobOK, [Next]_vars PROVE QueueOK'
  OBVIOUS
<1>. USE ThreadPoolAssumption DEF TypeOK, ThreadPoolAssumption
<1>1. CASE UNCHANGED <<queue, job, added, completed>>
  BY <1>1 DEF QueueOK
<1>2. CASE thpool_add_work
  <2>1. added' = added + 1 /\ queue' = Append(queue, added + 1)
    BY <1>2 DEF thpool_add_work
  <2>2. /\ Len(queue') = Len(queue) + 1
        /\ \A i \in 1 .. Len(queue') : queue'[i] = IF i <= Len(queue) THEN queue[i] ELSE added + 1
    BY <2>1
  <2>3. Len(queue) \in Nat /\ Len(queue) <= added
    BY DEF QueueOK
  <2>4. ASSUME NEW i \in 1 .. Len(queue') PROVE queue'[i] = added' - Len(queue') + i
    <3>1. CASE i <= Len(queue)
      BY <2>1, <2>2, <2>3, <3>1 DEF QueueOK
    <3>2. CASE i = Len(queue) + 1
      BY <2>1, <2>2, <2>3, <3>2
    <3>. QED
      BY <2>2, <2>3, <3>1, <3>2
  <2>. QED
    BY <2>1, <2>2, <2>3, <2>4 DEF QueueOK
<1>3. CASE thpool_destroy_frees
  BY <1>3 DEF thpool_destroy_frees, QueueOK, jobs
<1>4. ASSUME NEW t \in Threads, jobqueue_pull(t) PROVE QueueOK'
  <2>1. CASE UNCHANGED <<queue, added>>
    BY <2>1 DEF QueueOK
  <2>2. CASE queue # <<>> /\ queue' = Tail(queue) /\ added' = added
    <3>1. /\ Len(queue') = Len(queue) - 1
          /\ \A i \in 1 .. Len(queue') : queue'[i] = queue[i + 1]
      BY <2>2
    <3>. QED
      BY <2>2, <3>1 DEF QueueOK
  <2>. QED
    BY <1>4, <2>1, <2>2, PullShape
<1>5. ASSUME NEW t \in Threads, JobReturns(t) PROVE QueueOK'
  BY <1>5 DEF JobReturns, QueueOK, pool
<1>. QED
  BY <1>1, <1>2, <1>3, <1>4, <1>5, JobSteps

\* A thread gets a job with jobqueue_pull, that no other thread has, and
\* loses it when its function returns.
LEMMA JobStep == TypeOK /\ QueueOK /\ JobOK /\ StartedOK /\ OwnerOK /\ [Next]_vars => JobOK'
<1>. SUFFICES ASSUME TypeOK, QueueOK, JobOK, StartedOK, OwnerOK, [Next]_vars PROVE JobOK'
  OBVIOUS
<1>. USE ThreadPoolAssumption DEF TypeOK, ThreadPoolAssumption
<1>1. ASSUME NEW t \in Threads, jobqueue_pull(t) PROVE JobOK'
  <2>1. \A u \in Threads \ {t} : pc'[u] = pc[u] \/ (pc[u] = "asleep" /\ pc'[u] = "wait")
    BY <1>1, ThreadMoves DEF ThreadStep
  <2>2. CASE queue = <<>>
    BY <1>1, <2>1, <2>2, PullShape DEF JobOK
  <2>3. CASE queue # <<>>
    <3>1. /\ job' = [job EXCEPT ![t] = added - Len(queue) + 1]
          /\ pc[t] = "pull" /\ job[t] = 0 /\ pc'[t] = "run"
      BY <1>1, <2>3, PullShape
    <3>2. added - Len(queue) \in Nat
      BY DEF QueueOK
    <3>3. main # "freed"
      BY <3>1 DEF OwnerOK
    <3>4. \A u \in Threads : job[u] # added - Len(queue) + 1
      BY <3>2, <3>3 DEF StartedOK, Running
    <3>. QED
      BY <2>1, <3>1, <3>2, <3>4 DEF JobOK
  <2>. QED
    BY <2>2, <2>3
<1>2. ASSUME NEW t \in Threads, JobReturns(t) PROVE JobOK'
  <2>1. pc[t] = "run" /\ pc' = [pc EXCEPT ![t] = "leave"] /\ job' = [job EXCEPT ![t] = 0]
    BY <1>2 DEF JobReturns
  <2>. QED
    BY <2>1 DEF JobOK
<1>3. ASSUME OwnerStep \/ OwnerCall \/ SpuriousIdle \/ UNCHANGED vars PROVE JobOK'
  <2>1. job' = job
    BY <1>3 DEF OwnerStep, OwnerCall, SpuriousIdle, vars, thread_init, thpool_init_returns,
       thpool_wait_test, thpool_destroy_posts, thpool_destroy_frees, thpool_init_fails,
       thpool_add_work, thpool_wait, thpool_destroy, jobs
  <2>. QED
    BY <1>3, <2>1, OwnerMoves DEF JobOK
<1>4. ASSUME NEW t \in Threads, ThreadStep(t) \/ SpuriousWakeup(t),
             ~ jobqueue_pull(t), ~ JobReturns(t)
      PROVE  JobOK'
  <2>1. job' = job
    BY <1>4 DEF ThreadStep, MarkAlive, Loop, bsem_wait, TestKeepalive, EnterWork,
       LeaveWork, Exit, ExitUnlock, SpuriousWakeup, jobs
  <2>2. pc[t] # "run" /\ pc'[t] # "run"
    BY <1>4, ThreadMoves
  <2>3. \A u \in Threads \ {t} : pc'[u] = pc[u] \/ (pc[u] = "asleep" /\ pc'[u] = "wait")
    BY <1>4, ThreadMoves
  <2>4. \A u \in Threads : pc'[u] = "run" <=> pc[u] = "run"
    BY <2>2, <2>3
  <2>. QED
    BY <2>1, <2>4 DEF JobOK
<1>. QED
  BY <1>1, <1>2, <1>3, <1>4 DEF Next
\* An interval that grows by one gets one more element.
LEMMA IntervalGrows == \A n \in Nat : 1 .. (n + 1) = (1 .. n) \cup {n + 1}
OBVIOUS

\* Taking the oldest job adds it to the running ones, and nothing is lost.
LEMMA PullStarts ==
  ASSUME TypeOK, QueueOK, JobOK, StartedOK, OwnerOK,
         NEW t \in Threads, jobqueue_pull(t), queue # <<>>
  PROVE  /\ main # "freed" /\ main' = main
         /\ queue' = Tail(queue) /\ Len(queue') = Len(queue) - 1
         /\ UNCHANGED <<added, completed>>
         /\ Head(queue) = added - Len(queue) + 1
         /\ Head(queue) \notin completed \cup Running
         /\ Running' = Running \cup {Head(queue)}
<1>. USE DEF TypeOK
<1>1. /\ job' = [job EXCEPT ![t] = added - Len(queue) + 1]
      /\ pc[t] = "pull" /\ job[t] = 0
      /\ queue' = Tail(queue) /\ UNCHANGED <<main, added, completed>>
  BY PullShape
<1>2. Len(queue') = Len(queue) - 1
  BY <1>1
<1>3. Head(queue) = added - Len(queue) + 1 /\ added - Len(queue) \in Nat
  BY DEF QueueOK
<1>4. main # "freed"
  BY <1>1 DEF OwnerOK
<1>5. Head(queue) \notin completed \cup Running
  <2>1. completed \cup Running = 1 .. (added - Len(queue))
    BY <1>4 DEF StartedOK
  <2>. QED
    BY <1>3, <2>1
<1>6. Running' = Running \cup {Head(queue)}
  BY <1>1, <1>3 DEF Running
<1>. QED
  BY <1>1, <1>2, <1>3, <1>4, <1>5, <1>6

\* A function that returns moves its job from the running to the completed.
LEMMA ReturnCompletes ==
  ASSUME TypeOK, JobOK, NEW t \in Threads, JobReturns(t)
  PROVE  /\ UNCHANGED <<main, added, queue>>
         /\ job[t] \in Running
         /\ completed' = completed \cup {job[t]}
         /\ Running' = Running \ {job[t]}
<1>. USE DEF TypeOK
<1>1. /\ pc[t] = "run" /\ UNCHANGED <<main, added, queue>>
      /\ completed' = completed \cup {job[t]} /\ job' = [job EXCEPT ![t] = 0]
  BY DEF JobReturns, pool
<1>2. job[t] # 0
  BY <1>1 DEF JobOK
<1>3. \A u \in Threads \ {t} : job'[u] = job[u] /\ job[u] # job[t]
  BY <1>1, <1>2 DEF JobOK
<1>. QED
  BY <1>1, <1>2, <1>3 DEF Running

\* A job that has left the queue is executed or was: every step keeps the
\* partition of the jobs.
LEMMA StartedStep == TypeOK /\ QueueOK /\ JobOK /\ StartedOK /\ OwnerOK /\ [Next]_vars => StartedOK'
<1>. SUFFICES ASSUME TypeOK, QueueOK, JobOK, StartedOK, OwnerOK, [Next]_vars PROVE StartedOK'
  OBVIOUS
<1>. USE ThreadPoolAssumption DEF TypeOK, ThreadPoolAssumption
<1>1. CASE UNCHANGED <<queue, job, added, completed>> /\ (main # "freed" => main' # "freed")
  <2>1. main = "freed" => main' = "freed"
    <3>1. ASSUME NEW t \in Threads, ThreadStep(t) PROVE main' = main \/ main = "asleep"
      BY <3>1 DEF ThreadStep, MarkAlive, Loop, bsem_wait, TestKeepalive, EnterWork,
         jobqueue_pull, JobReturns, LeaveWork, Exit, ExitUnlock
    <3>. QED
      BY <3>1 DEF Next, OwnerStep, OwnerCall, SpuriousIdle, SpuriousWakeup, vars, thread_init,
         thpool_init_returns, thpool_wait_test, thpool_destroy_posts, thpool_destroy_frees,
         thpool_init_fails, thpool_add_work, thpool_wait, thpool_destroy
  <2>. QED
    BY <1>1, <2>1 DEF StartedOK, Running
<1>2. CASE thpool_add_work
  <2>1. main = "ready" /\ UNCHANGED <<main, job, completed>>
    BY <1>2 DEF thpool_add_work
  <2>2. added' = added + 1 /\ Len(queue') = Len(queue) + 1
    BY <1>2 DEF thpool_add_work
  <2>3. added' - Len(queue') = added - Len(queue)
    BY <2>2
  <2>. QED
    BY <2>1, <2>3 DEF StartedOK, Running
<1>3. CASE thpool_destroy_frees
  BY <1>3 DEF thpool_destroy_frees, StartedOK
<1>4. ASSUME NEW t \in Threads, jobqueue_pull(t) PROVE StartedOK'
  <2>1. CASE queue = <<>>
    BY <1>4, <2>1, PullShape DEF StartedOK, Running
  <2>2. CASE queue # <<>>
    <3>. DEFINE n == added - Len(queue)
    <3>1. n \in Nat /\ added' - Len(queue') = n + 1
      BY <1>4, <2>2, PullStarts DEF QueueOK
    <3>2. /\ completed \cup Running = 1 .. n /\ completed \cap Running = {}
          /\ completed' = completed /\ Running' = Running \cup {n + 1} /\ n + 1 \notin completed
      BY <1>4, <2>2, PullStarts DEF StartedOK
    <3>3. 1 .. (n + 1) = (1 .. n) \cup {n + 1}
      BY <3>1, IntervalGrows
    <3>4. completed' \cup Running' = 1 .. (n + 1)
      BY <3>2, <3>3
    <3>5. completed' \cap Running' = {}
      BY <3>2
    <3>. QED
      BY <3>1, <3>4, <3>5 DEF StartedOK
  <2>. QED
    BY <2>1, <2>2
<1>5. ASSUME NEW t \in Threads, JobReturns(t) PROVE StartedOK'
  BY <1>5, ReturnCompletes DEF StartedOK
<1>. QED
  BY <1>1, <1>2, <1>3, <1>4, <1>5, JobSteps

---------------------------------------------------------------------------
(* The semaphore.                                                          *)

\* While the semaphore is up some thread is about to test it, or none sleeps.
LEMMA SemaphoreStep == TypeOK /\ SemaphoreOK /\ [Next]_vars => SemaphoreOK'
<1>. SUFFICES ASSUME TypeOK, SemaphoreOK, [Next]_vars, v' = 1, Sleepers(pc)' # {}
              PROVE  \E t \in Threads : pc'[t] = "wait"
  BY DEF SemaphoreOK
<1>. USE DEF TypeOK
<1>0. PICK s \in Threads : pc'[s] = "asleep"
  BY DEF Sleepers
<1>1. ASSUME OwnerStep \/ OwnerCall \/ SpuriousIdle \/ UNCHANGED vars
      PROVE  \E t \in Threads : pc'[t] = "wait"
  <2>1. pc[s] = "asleep"
    BY <1>0, <1>1, OwnerMoves
  <2>2. CASE thpool_add_work
    <3>1. pc' \in Signalled(pc) /\ Sleepers(pc) # {}
      BY <2>1, <2>2 DEF thpool_add_work, bsem_post, Sleepers
    <3>. QED
      BY <3>1, SignalledType
  <2>3. CASE thpool_destroy_posts
    BY <1>0, <2>1, <2>3 DEF thpool_destroy_posts, Broadcast
  <2>4. CASE ~ thpool_add_work /\ ~ thpool_destroy_posts
    <3>1. v = 1
      BY <1>1, <2>4 DEF OwnerStep, OwnerCall, SpuriousIdle, vars, thread_init, thpool_init_returns,
         thpool_wait_test, thpool_destroy_frees, thpool_init_fails, thpool_wait, thpool_destroy, pool
    <3>2. PICK t \in Threads : pc[t] = "wait"
      BY <2>1, <3>1 DEF SemaphoreOK, Sleepers
    <3>3. pc'[t] = "wait"
      BY <1>1, <3>2, OwnerMoves
    <3>. QED
      BY <3>3
  <2>. QED
    BY <2>2, <2>3, <2>4
<1>2. ASSUME NEW u \in Threads, ThreadStep(u) \/ SpuriousWakeup(u)
      PROVE  \E t \in Threads : pc'[t] = "wait"
  <2>1. CASE bsem_wait(u)
    <3>1. v # 1
      BY <2>1 DEF bsem_wait
    <3>. QED
      BY <2>1, <3>1 DEF bsem_wait
  <2>2. CASE jobqueue_pull(u) /\ v # 1
    <3>. DEFINE p == [pc EXCEPT ![u] = "run"]
    <3>1. p \in [Threads -> ThreadStates] /\ p[u] = "run"
      BY DEF ThreadStates
    <3>2. pc' \in Signalled(p)
      BY <2>2 DEF jobqueue_pull, bsem_post
    <3>3. Sleepers(p) # {}
      BY <1>0, <3>1, <3>2, SignalledType DEF Sleepers
    <3>. QED
      BY <3>1, <3>2, <3>3, SignalledType
  <2>3. CASE ~ bsem_wait(u) /\ (jobqueue_pull(u) => v = 1)
    <3>1. v = 1
      BY <1>2, <2>3 DEF ThreadStep, MarkAlive, Loop, TestKeepalive, EnterWork,
         JobReturns, LeaveWork, Exit, ExitUnlock, SpuriousWakeup, pool
    <3>2. pc[u] # "wait" /\ (pc'[u] = "asleep" => pc[u] = "asleep")
      BY <1>2, <2>3, ThreadMoves DEF ThreadStep, MarkAlive, Loop, TestKeepalive, EnterWork,
         jobqueue_pull, JobReturns, LeaveWork, Exit, ExitUnlock, SpuriousWakeup
    <3>3. pc[s] = "asleep"
      BY <1>0, <1>2, <3>2, ThreadMoves
    <3>4. PICK t \in Threads : pc[t] = "wait"
      BY <3>1, <3>3 DEF SemaphoreOK, Sleepers
    <3>5. pc'[t] = "wait"
      BY <1>2, <3>2, <3>4, ThreadMoves
    <3>. QED
      BY <3>5
  <2>. QED
    BY <2>1, <2>2, <2>3
<1>. QED
  BY <1>1, <1>2 DEF Next

\* While the pool is kept alive and a job waits, the semaphore is up or a
\* thread that took it is on its way to jobqueue_pull, which posts again for
\* the jobs it leaves behind.
LEMMA TokenStep == TypeOK /\ TokenOK /\ [Next]_vars => TokenOK'
<1>. SUFFICES ASSUME TypeOK, TokenOK, [Next]_vars, keepalive', queue' # <<>>, v' # 1
              PROVE  \E t \in Threads : HasToken(t)'
  BY DEF TokenOK
<1>. USE DEF TypeOK
<1>1. keepalive
  <2>1. ASSUME NEW t \in Threads, ThreadStep(t) \/ SpuriousWakeup(t) PROVE keepalive' = keepalive
    BY <2>1 DEF ThreadStep, MarkAlive, Loop, bsem_wait, TestKeepalive, EnterWork,
       jobqueue_pull, JobReturns, LeaveWork, Exit, ExitUnlock, SpuriousWakeup, pool
  <2>. QED
    BY <2>1 DEF Next, OwnerStep, OwnerCall, SpuriousIdle, vars, thread_init,
       thpool_init_returns, thpool_wait_test, thpool_destroy_posts, thpool_destroy_frees,
       thpool_init_fails, thpool_add_work, thpool_wait, thpool_destroy, pool
<1>2. ASSUME OwnerStep \/ OwnerCall \/ SpuriousIdle \/ UNCHANGED vars
      PROVE  \E t \in Threads : HasToken(t)'
  <2>1. ~ thpool_add_work /\ ~ thpool_destroy_posts /\ ~ thpool_destroy_frees
    BY DEF thpool_add_work, bsem_post, thpool_destroy_posts, thpool_destroy_frees
  <2>2. UNCHANGED <<queue, v>>
    BY <1>2, <2>1 DEF OwnerStep, OwnerCall, SpuriousIdle, vars, thread_init, thpool_init_returns,
       thpool_wait_test, thpool_init_fails, thpool_wait, thpool_destroy, pool
  <2>3. PICK t \in Threads : HasToken(t)
    BY <1>1, <2>2 DEF TokenOK
  <2>4. HasToken(t)'
    BY <1>2, <2>3, OwnerMoves DEF HasToken
  <2>. QED
    BY <2>4
<1>3. ASSUME NEW u \in Threads, ThreadStep(u) \/ SpuriousWakeup(u)
      PROVE  \E t \in Threads : HasToken(t)'
  <2>1. CASE jobqueue_pull(u)
    <3>1. CASE queue = <<>>
      BY <2>1, <3>1 DEF jobqueue_pull
    <3>2. CASE queue # <<>>
      <4>1. queue' = Tail(queue) /\ (Len(queue) > 1 => v' = 1)
        BY <2>1, <3>2 DEF jobqueue_pull, bsem_post
      <4>2. Len(queue) = 1
        BY <3>2, <4>1
      <4>3. queue' = <<>>
        BY <4>1, <4>2
      <4>. QED
        BY <4>3
    <3>. QED
      BY <3>1, <3>2
  <2>2. CASE bsem_wait(u) /\ v = 1
    BY <2>2 DEF bsem_wait, HasToken
  <2>3. CASE ~ jobqueue_pull(u) /\ (bsem_wait(u) => v # 1)
    <3>1. UNCHANGED <<queue, v>>
      BY <1>3, <2>3 DEF ThreadStep, MarkAlive, Loop, bsem_wait, TestKeepalive, EnterWork,
         JobReturns, LeaveWork, Exit, ExitUnlock, SpuriousWakeup, pool
    <3>2. PICK t \in Threads : HasToken(t)
      BY <1>1, <3>1 DEF TokenOK
    <3>3. HasToken(u) => HasToken(u)'
      BY <1>1, <1>3, <2>3 DEF HasToken, ThreadStep, MarkAlive, Loop, bsem_wait, TestKeepalive,
         EnterWork, JobReturns, LeaveWork, Exit, ExitUnlock, SpuriousWakeup, ThreadStates
    <3>4. t # u => HasToken(t)'
      BY <1>3, <3>2, ThreadMoves DEF HasToken
    <3>. QED
      BY <3>2, <3>3, <3>4
  <2>. QED
    BY <2>1, <2>2, <2>3
<1>. QED
  BY <1>2, <1>3 DEF Next

---------------------------------------------------------------------------
(* The theorems.                                                           *)

\* The invariant holds initially ...
LEMMA IInvInit == Init => IInv
<1>. SUFFICES ASSUME Init PROVE IInv
  OBVIOUS
<1>1. TypeOK /\ CountersOK
  BY TypeInit, CountersInit
<1>2. LockOK /\ OwnerOK /\ JobOK
  BY ThreadPoolAssumption DEF ThreadPoolAssumption, Init, LockOK, OwnerOK, JobOK
<1>3. QueueOK /\ StartedOK
  BY DEF Init, QueueOK, StartedOK, Running
<1>4. SemaphoreOK /\ TokenOK
  BY DEF Init, SemaphoreOK, TokenOK
<1>. QED
  BY <1>1, <1>2, <1>3, <1>4 DEF IInv

\* ... and every step preserves it.
LEMMA IInvStep == IInv /\ [Next]_vars => IInv'
BY TypeStep, CountersStep, LockStep, OwnerProgress, QueueStep, JobStep,
   StartedStep, SemaphoreStep, TokenStep DEF IInv

\* The inductive invariant of the pool holds in every behaviour.
THEOREM Invariance == Spec => []IInv
<1>1. Init => IInv
  BY IInvInit
<1>2. IInv /\ [Next]_vars => IInv'
  BY IInvStep
<1>. QED
  BY <1>1, <1>2, PTL DEF Spec

\* Every variable keeps its type; in particular num_threads_alive and
\* num_threads_working never fall below zero.
THEOREM TypeCorrect == Spec => []TypeOK
<1>1. IInv => TypeOK
  BY DEF IInv
<1>. QED
  BY <1>1, Invariance, PTL

\* No wake-up is lost, for any number of threads and jobs.
THEOREM NoLostWakeup == Spec => []JobNeverStranded
<1>1. IInv => JobNeverStranded
  <2>. SUFFICES ASSUME IInv, keepalive, queue # <<>>, ~ \E t \in Threads : HasToken(t)
                PROVE  v = 1 /\ (Sleepers(pc) = {} \/ \E t \in Threads : pc[t] = "wait")
    BY DEF JobNeverStranded
  <2>. QED
    BY DEF IInv, TokenOK, SemaphoreOK
<1>. QED
  BY <1>1, Invariance, PTL

\* The pool is freed only after every thread has left its loop for good.
THEOREM DestroyIsLast == Spec => []DestroyWaitsForThreads
<1>1. IInv => DestroyWaitsForThreads
  BY DEF IInv, OwnerOK, DestroyWaitsForThreads
<1>. QED
  BY <1>1, Invariance, PTL

\* When thpool_wait returns, every job added has been executed.
THEOREM WaitIsComplete == Spec => WaitMeansIdle
<1>1. IInv /\ [Next]_vars => [main = "idle?" /\ main' = "ready" => completed = 1 .. added]_vars
  <2>. SUFFICES ASSUME IInv, [Next]_vars, main = "idle?", main' = "ready"
                PROVE  completed = 1 .. added
    OBVIOUS
  <2>1. thpool_wait_test
    <3>1. ASSUME NEW t \in Threads, ThreadStep(t) \/ SpuriousWakeup(t) PROVE main' = main
      BY <3>1 DEF ThreadStep, MarkAlive, Loop, bsem_wait, TestKeepalive, EnterWork,
         jobqueue_pull, JobReturns, LeaveWork, Exit, ExitUnlock, SpuriousWakeup
    <3>. QED
      BY <3>1 DEF Next, OwnerStep, OwnerCall, SpuriousIdle, vars, thread_init,
         thpool_init_returns, thpool_destroy_posts, thpool_destroy_frees,
         thpool_init_fails, thpool_add_work, thpool_wait, thpool_destroy
  <2>2. queue = <<>> /\ working = 0
    BY <2>1 DEF thpool_wait_test
  <2>3. WorkingSet = {}
    <3>1. IsFiniteSet(WorkingSet) /\ Cardinality(WorkingSet) = 0
      BY <2>2, ThreadPoolAssumption, FS_Subset
         DEF IInv, CountersOK, WorkingSet, ThreadPoolAssumption
    <3>. QED
      BY <3>1, FS_EmptySet
  <2>4. Running = {}
    BY <2>3 DEF IInv, JobOK, WorkingSet, Working, Running
  <2>5. completed = 1 .. (added - 0)
    BY <2>2, <2>4 DEF IInv, StartedOK
  <2>. QED
    BY <2>5 DEF IInv, TypeOK
<1>. QED
  BY <1>1, Invariance, PTL DEF Spec, WaitMeansIdle

\* The pool implements the job service: first come first served, every job
\* once, and what thpool_destroy drops it drops when nothing runs.
THEOREM Refinement == Spec => ImplementsJobService
<1>. USE DEF Running
<1>1. Init => Service!Init
  BY DEF Init, Service!Init
<1>2. IInv /\ [Next]_vars => [Service!Next]_(Service!svars)
  <2>. SUFFICES ASSUME IInv, [Next]_vars PROVE [Service!Next]_(Service!svars)
    OBVIOUS
  <2>0. TypeOK /\ QueueOK /\ JobOK /\ StartedOK /\ OwnerOK
    BY DEF IInv
  <2>1. CASE UNCHANGED <<queue, job, added, completed>>
    BY <2>1 DEF Service!svars
  <2>2. CASE thpool_add_work
    BY <2>2 DEF thpool_add_work, Service!Next, Service!Submit
  <2>3. CASE thpool_destroy_frees
    <3>1. /\ main' = "freed" /\ queue' = <<>> /\ UNCHANGED <<pc, job, added, completed>>
      BY <2>3 DEF thpool_destroy_frees, jobs
    <3>2. OwnerOK'
      BY <2>0, OwnerProgress DEF IInv
    <3>3. \A t \in Threads : pc[t] # "run"
      BY <3>1, <3>2 DEF OwnerOK
    <3>4. Running = {}
      BY <2>0, <3>3 DEF JobOK
    <3>. QED
      BY <3>1, <3>4 DEF Service!Next, Service!Discard
  <2>4. ASSUME NEW t \in Threads, jobqueue_pull(t) PROVE [Service!Next]_(Service!svars)
    <3>1. CASE queue = <<>>
      BY <2>0, <2>4, <3>1, PullShape DEF Service!svars
    <3>2. CASE queue # <<>>
      BY <2>0, <2>4, <3>2, PullStarts DEF Service!Next, Service!Start
    <3>. QED
      BY <3>1, <3>2
  <2>5. ASSUME NEW t \in Threads, JobReturns(t) PROVE [Service!Next]_(Service!svars)
    BY <2>0, <2>5, ReturnCompletes DEF Service!Next, Service!Complete
  <2>. QED
    BY <2>0, <2>1, <2>2, <2>3, <2>4, <2>5, JobSteps
<1>. QED
  BY <1>1, <1>2, Invariance, PTL DEF Spec, ImplementsJobService, Service!Spec

---------------------------------------------------------------------------
(* The pool that is paused and resumed by signals.                         *)

USE DEF pause, pausevars

\* Every step is a step of the pool, or changes nothing in it.
LEMMA PoolSteps == [PauseNext]_pausevars => [Next]_vars
<1>1. ASSUME PauseOwnerStep PROVE Next
  BY <1>1 DEF PauseOwnerStep, OwnerStep, Next
<1>2. ASSUME PauseOwnerCall PROVE Next
  BY <1>2 DEF PauseOwnerCall, OwnerCall, Next
<1>3. ASSUME Wakeups PROVE Next
  BY <1>3 DEF Wakeups, Next
<1>4. ASSUME NEW t \in Threads, Step(t) PROVE Next
  BY <1>4 DEF Step, Next
<1>5. ASSUME NEW t \in Threads, Lock(t) \/ Hold(t) PROVE UNCHANGED vars
  BY <1>5 DEF Lock, Hold, thread_hold, thread_hold_ends
<1>6. ASSUME thpool_pause \/ thpool_resume PROVE UNCHANGED vars
  BY <1>6 DEF thpool_pause, thpool_resume
<1>7. ASSUME UNCHANGED pausevars PROVE UNCHANGED vars
  BY <1>7
<1>. QED
  BY <1>1, <1>2, <1>3, <1>4, <1>5, <1>6, <1>7 DEF PauseNext

\* A pool that is paused and resumed behaves as one that is only scheduled
\* oddly (thread_hold, thpool_pause and thpool_resume touch nothing but
\* threads_on_hold).
THEOREM StillAPool == PauseSpec => Spec
<1>1. PauseInit => Init
  BY DEF PauseInit
<1>. QED
  BY <1>1, PoolSteps, PTL DEF PauseSpec, Spec

\* What the signals add to the state.
PauseState ==
  /\ holder \in [Locks -> Threads \cup {NoThread}]
  /\ signalled \subseteq Threads /\ held \subseteq Threads
  /\ onHold \in BOOLEAN /\ paused \in BOOLEAN
  /\ pauses \in 0 .. MaxPauses

LEMMA PauseStateInit == PauseInit => PauseState
<1>. SUFFICES ASSUME PauseInit PROVE PauseState
  OBVIOUS
<1>1. holder = [l \in Locks |-> NoThread] /\ signalled = {} /\ held = {}
      /\ onHold = FALSE /\ paused = FALSE /\ pauses = 0
  BY DEF PauseInit
<1>2. 0 \in 0 .. MaxPauses
  BY PauseAssumption DEF PauseAssumption
<1>. QED
  BY <1>1, <1>2 DEF PauseState

LEMMA PauseStateStep == PauseState /\ [PauseNext]_pausevars => PauseState'
<1>. USE DEF PauseState
<1>1. ASSUME PauseState, PauseOwnerStep \/ PauseOwnerCall \/ Wakeups PROVE PauseState'
  BY <1>1 DEF PauseOwnerStep, PauseOwnerCall, Wakeups
<1>2. ASSUME PauseState, thpool_pause PROVE PauseState'
  BY <1>2, PauseAssumption DEF thpool_pause, PauseAssumption
<1>3. ASSUME PauseState, thpool_resume PROVE PauseState'
  BY <1>3 DEF thpool_resume
<1>4. ASSUME PauseState, NEW t \in Threads, Lock(t) PROVE PauseState'
  BY <1>4 DEF Lock
<1>5. ASSUME PauseState, NEW t \in Threads, Step(t) PROVE PauseState'
  BY <1>5 DEF Step
<1>6. ASSUME PauseState, NEW t \in Threads, Hold(t) PROVE PauseState'
  BY <1>6 DEF Hold, thread_hold, thread_hold_ends
<1>7. ASSUME PauseState, UNCHANGED pausevars PROVE PauseState'
  BY <1>7
<1>. QED
  BY <1>1, <1>2, <1>3, <1>4, <1>5, <1>6, <1>7 DEF PauseNext

\* Every variable of the pool and of the signals stays in its type.
THEOREM PauseTypeCorrect == PauseSpec => []PauseTypeOK
<1>1. TypeOK /\ PauseState => PauseTypeOK
  BY DEF PauseTypeOK, PauseState
<1>. QED
  BY <1>1, PauseStateInit, PauseStateStep, StillAPool, TypeCorrect, PTL DEF PauseSpec

\* However the threads are stopped and released, no job is left waiting with
\* nobody on the way to it (bsem_post, bsem_wait, jobqueue_pull).
THEOREM PauseStrandsNoJob == PauseSpec => []JobNeverStranded
BY StillAPool, NoLostWakeup

\* thpool_destroy frees the pool only when no thread can execute a job any
\* more, also when threads are stopped on their way out.
THEOREM PauseDestroyIsLast == PauseSpec => []DestroyWaitsForThreads
BY StillAPool, DestroyIsLast

\* thpool_wait returns only when every job added so far has completed, also
\* when threads are stopped between their steps.
THEOREM PauseWaitIsComplete == PauseSpec => WaitMeansIdle
BY StillAPool, WaitIsComplete

\* The paused pool is a FIFO job service.
THEOREM PauseRefinement == PauseSpec => ImplementsJobService
BY StillAPool, Refinement
===========================================================================
