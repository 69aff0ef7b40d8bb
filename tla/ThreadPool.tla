---------------------------- MODULE ThreadPool ----------------------------
(***************************************************************************)
(* The thread pool of thpool.c: a FIFO job queue, the binary semaphore     *)
(* has_jobs that its threads sleep on, and the owner that creates the      *)
(* pool, adds work, waits for it and destroys it.                          *)
(*                                                                         *)
(* Grain of atomicity.  A critical section of bsem->mutex, rwmutex or      *)
(* thcount_lock is one step: what it touches is only written under that    *)
(* lock.  The one section that is split is the last one of a thread        *)
(* (alive--, then unlock), because thpool_destroy reads num_threads_alive  *)
(* without the lock and frees the lock itself; thlock is its owner.        *)
(***************************************************************************)
EXTENDS Naturals, Sequences, FiniteSets

CONSTANTS
  Threads,        \* the slots of thpool_p->threads
  NoThread,       \* "thcount_lock is free"
  MaxJobs,        \* bound: jobs the owner adds
  CreateMayFail   \* whether pthread_create may fail (its result is ignored)

ASSUME ThreadPoolAssumption ==
  /\ IsFiniteSet(Threads)
  /\ NoThread \notin Threads
  /\ MaxJobs \in Nat
  /\ CreateMayFail \in BOOLEAN

VARIABLES
  main,       \* where the owner is: inside which thpool_ function
  pc,         \* where each thread is in thread_do
  job,        \* job_p of each thread, 0 for NULL
  queue,      \* jobqueue, front first; its length is len
  v,          \* has_jobs->v
  keepalive,  \* threads_keepalive
  alive,      \* num_threads_alive
  working,    \* num_threads_working
  thlock,     \* the thread that still has to unlock thcount_lock
  added,      \* jobs added so far; a job is known by its number
  completed   \* the jobs whose function returned

vars == <<main, pc, job, queue, v, keepalive, alive, working, thlock, added, completed>>
pool == <<queue, v, keepalive, alive, working, thlock>>
jobs == <<job, added, completed>>

MainStates == {"init", "null", "ready", "idle?", "asleep", "destroy", "freed"}
ThreadStates == {"none", "failed", "start", "loop", "wait", "asleep", "woken",
                 "enter", "pull", "run", "leave", "exit", "unlock", "dead"}

Alive(t) == pc[t] \in ThreadStates \ {"none", "failed", "start", "unlock", "dead"}
Working(t) == pc[t] \in {"pull", "run", "leave"}

Init ==
  /\ main = "init"
  /\ pc = [t \in Threads |-> "none"]
  /\ job = [t \in Threads |-> 0]
  /\ queue = <<>>
  /\ v = 0
  /\ keepalive = TRUE
  /\ alive = 0
  /\ working = 0
  /\ thlock = NoThread
  /\ added = 0
  /\ completed = {}

---------------------------------------------------------------------------
(* The binary semaphore.  p is pc as the caller leaves it.                 *)

Sleepers(p) == {t \in Threads : p[t] = "asleep"}

\* Mutant: the post forgets pthread_cond_signal.
PostWithoutSignal(p) == {p}

\* pthread_cond_signal: one sleeper, if there is one, goes back to test v.
Signalled(p) ==
  IF Sleepers(p) = {} THEN {p}
  ELSE {[p EXCEPT ![t] = "wait"] : t \in Sleepers(p)}

\* pthread_cond_broadcast.
Broadcast(p) == [t \in Threads |-> IF p[t] = "asleep" THEN "wait" ELSE p[t]]

\* Mutant: the semaphore counts.
PostCounts(p) == v' = v + 1 /\ pc' \in Signalled(p)

bsem_post(p) == v' = 1 /\ pc' \in Signalled(p)

bsem_wait(t) ==
  /\ pc[t] = "wait"
  /\ \/ /\ v = 1
        /\ v' = 0
        /\ pc' = [pc EXCEPT ![t] = "woken"]
     \/ /\ v # 1
        /\ pc' = [pc EXCEPT ![t] = "asleep"]
        /\ UNCHANGED v
  /\ UNCHANGED <<main, jobs, queue, keepalive, alive, working, thlock>>

\* pthread_cond_wait may return with nobody having signalled.
SpuriousWakeup(t) ==
  /\ pc[t] = "asleep"
  /\ pc' = [pc EXCEPT ![t] = "wait"]
  /\ UNCHANGED <<main, jobs, pool>>

---------------------------------------------------------------------------
(* The owner.                                                              *)

\* Allocation of the pool, of has_jobs or of the thread array failed.
thpool_init_fails ==
  /\ main = "init"
  /\ \A t \in Threads : pc[t] = "none"
  /\ main' = "null"
  /\ UNCHANGED <<pc, jobs, pool>>

\* thread_init ignores the result of pthread_create.
thread_init(t) ==
  /\ main = "init"
  /\ pc[t] = "none"
  /\ \E s \in {"start"} \cup (IF CreateMayFail THEN {"failed"} ELSE {}) :
       pc' = [pc EXCEPT ![t] = s]
  /\ UNCHANGED <<main, jobs, pool>>

\* The end of the busy wait of thpool_init.
thpool_init_returns ==
  /\ main = "init"
  /\ \A t \in Threads : pc[t] # "none"
  /\ alive = Cardinality(Threads)
  /\ main' = "ready"
  /\ UNCHANGED <<pc, jobs, pool>>

\* Mutant: a new job is linked in at the front.
PushAtFront ==
  /\ main = "ready"
  /\ added < MaxJobs
  /\ added' = added + 1
  /\ queue' = <<added + 1>> \o queue
  /\ bsem_post(pc)
  /\ UNCHANGED <<main, job, completed, keepalive, alive, working, thlock>>

\* thpool_add_work and the jobqueue_push it calls.
thpool_add_work ==
  /\ main = "ready"
  /\ added < MaxJobs
  /\ added' = added + 1
  /\ queue' = Append(queue, added + 1)
  /\ bsem_post(pc)
  /\ UNCHANGED <<main, job, completed, keepalive, alive, working, thlock>>

thpool_wait ==
  /\ main = "ready"
  /\ main' = "idle?"
  /\ UNCHANGED <<pc, jobs, pool>>

\* Mutant: thpool_wait looks at the queue only.
WaitLooksAtQueueOnly ==
  /\ main = "idle?"
  /\ thlock = NoThread
  /\ main' = IF queue # <<>> THEN "asleep" ELSE "ready"
  /\ UNCHANGED <<pc, jobs, pool>>

\* One test of the loop of thpool_wait, under thcount_lock.
thpool_wait_test ==
  /\ main = "idle?"
  /\ thlock = NoThread
  /\ main' = IF queue # <<>> \/ working # 0 THEN "asleep" ELSE "ready"
  /\ UNCHANGED <<pc, jobs, pool>>

SpuriousIdle ==
  /\ main = "asleep"
  /\ main' = "idle?"
  /\ UNCHANGED <<pc, jobs, pool>>

thpool_destroy ==
  /\ main = "ready"
  /\ main' = "destroy"
  /\ keepalive' = FALSE
  /\ UNCHANGED <<pc, jobs, queue, v, alive, working, thlock>>

\* Mutant: bsem_post_all forgets pthread_cond_broadcast.
PostAllSignalsNobody ==
  /\ main = "destroy"
  /\ alive # 0
  /\ v' = 1
  /\ UNCHANGED <<main, pc, jobs, queue, keepalive, alive, working, thlock>>

\* bsem_post_all, in the two loops that wait for num_threads_alive = 0.
thpool_destroy_posts ==
  /\ main = "destroy"
  /\ alive # 0
  /\ v' = 1
  /\ pc' = Broadcast(pc)
  /\ UNCHANGED <<main, jobs, queue, keepalive, alive, working, thlock>>

\* Mutant: after its second of patience thpool_destroy frees regardless.
FreeWithoutWaiting ==
  /\ main = "destroy"
  /\ queue' = <<>>
  /\ v' = 0
  /\ main' = "freed"
  /\ UNCHANGED <<pc, jobs, keepalive, alive, working, thlock>>

\* jobqueue_destroy (which drops what is queued) and the frees.
thpool_destroy_frees ==
  /\ main = "destroy"
  /\ alive = 0
  /\ queue' = <<>>
  /\ v' = 0
  /\ main' = "freed"
  /\ UNCHANGED <<pc, jobs, keepalive, alive, working, thlock>>

---------------------------------------------------------------------------
(* A thread: thread_do.                                                    *)

\* Mutant: num_threads_alive += 1 without the lock, one of two updates lost.
MarkAliveUnlocked(t) ==
  /\ pc[t] = "start"
  /\ alive' = IF \E u \in Threads \ {t} : pc[u] = "start" THEN alive ELSE alive + 1
  /\ pc' = [pc EXCEPT ![t] = "loop"]
  /\ UNCHANGED <<main, jobs, queue, v, keepalive, working, thlock>>

MarkAlive(t) ==
  /\ pc[t] = "start"
  /\ thlock = NoThread
  /\ alive' = alive + 1
  /\ pc' = [pc EXCEPT ![t] = "loop"]
  /\ UNCHANGED <<main, jobs, queue, v, keepalive, working, thlock>>

\* The condition of while(threads_keepalive).
Loop(t) ==
  /\ pc[t] = "loop"
  /\ pc' = [pc EXCEPT ![t] = IF keepalive THEN "wait" ELSE "exit"]
  /\ UNCHANGED <<main, jobs, pool>>

\* The if(threads_keepalive) after bsem_wait.
TestKeepalive(t) ==
  /\ pc[t] = "woken"
  /\ pc' = [pc EXCEPT ![t] = IF keepalive THEN "enter" ELSE "loop"]
  /\ UNCHANGED <<main, jobs, pool>>

EnterWork(t) ==
  /\ pc[t] = "enter"
  /\ thlock = NoThread
  /\ working' = working + 1
  /\ pc' = [pc EXCEPT ![t] = "pull"]
  /\ UNCHANGED <<main, jobs, queue, v, keepalive, alive, thlock>>

\* Mutant: jobqueue_pull does not post for the jobs it leaves behind.
PullWithoutPost(t) ==
  /\ pc[t] = "pull"
  /\ IF queue = <<>>
     THEN /\ pc' = [pc EXCEPT ![t] = "leave"]
          /\ UNCHANGED <<queue, v, job>>
     ELSE /\ job' = [job EXCEPT ![t] = Head(queue)]
          /\ queue' = Tail(queue)
          /\ pc' = [pc EXCEPT ![t] = "run"]
          /\ UNCHANGED v
  /\ UNCHANGED <<main, added, completed, keepalive, alive, working, thlock>>

\* No job (another thread was faster), the last job, or one of several.
jobqueue_pull(t) ==
  /\ pc[t] = "pull"
  /\ \/ /\ queue = <<>>
        /\ pc' = [pc EXCEPT ![t] = "leave"]
        /\ UNCHANGED <<queue, v, job>>
     \/ /\ queue # <<>>
        /\ job' = [job EXCEPT ![t] = Head(queue)]
        /\ queue' = Tail(queue)
        /\ IF Len(queue) > 1
           THEN bsem_post([pc EXCEPT ![t] = "run"])
           ELSE pc' = [pc EXCEPT ![t] = "run"] /\ UNCHANGED v
  /\ UNCHANGED <<main, added, completed, keepalive, alive, working, thlock>>

\* func_buff(arg_buff) returns; free(job_p).
JobReturns(t) ==
  /\ pc[t] = "run"
  /\ completed' = completed \cup {job[t]}
  /\ job' = [job EXCEPT ![t] = 0]
  /\ pc' = [pc EXCEPT ![t] = "leave"]
  /\ UNCHANGED <<main, added, pool>>

\* Mutant: the last thread to become idle does not signal threads_all_idle.
LeaveSilently(t) ==
  /\ pc[t] = "leave"
  /\ thlock = NoThread
  /\ working' = working - 1
  /\ pc' = [pc EXCEPT ![t] = "loop"]
  /\ UNCHANGED <<main, jobs, queue, v, keepalive, alive, thlock>>

LeaveWork(t) ==
  /\ pc[t] = "leave"
  /\ thlock = NoThread
  /\ working' = working - 1
  /\ main' = IF main = "asleep" /\ working = 1 THEN "idle?" ELSE main
  /\ pc' = [pc EXCEPT ![t] = "loop"]
  /\ UNCHANGED <<jobs, queue, v, keepalive, alive, thlock>>

\* num_threads_alive-- ...
Exit(t) ==
  /\ pc[t] = "exit"
  /\ thlock = NoThread
  /\ alive' = alive - 1
  /\ thlock' = t
  /\ pc' = [pc EXCEPT ![t] = "unlock"]
  /\ UNCHANGED <<main, jobs, queue, v, keepalive, working>>

\* ... and the unlock that ends its critical section.
ExitUnlock(t) ==
  /\ pc[t] = "unlock"
  /\ thlock' = NoThread
  /\ pc' = [pc EXCEPT ![t] = "dead"]
  /\ UNCHANGED <<main, jobs, queue, v, keepalive, alive, working>>

---------------------------------------------------------------------------
\* The steps the owner takes inside a call it has made.
OwnerStep ==
  \/ \E t \in Threads : thread_init(t)
  \/ thpool_init_returns
  \/ thpool_wait_test
  \/ thpool_destroy_posts
  \/ thpool_destroy_frees

\* The calls the owner makes when it likes.
OwnerCall == thpool_init_fails \/ thpool_add_work \/ thpool_wait \/ thpool_destroy

ThreadStep(t) ==
  \/ MarkAlive(t) \/ Loop(t) \/ bsem_wait(t) \/ TestKeepalive(t)
  \/ EnterWork(t) \/ jobqueue_pull(t) \/ JobReturns(t) \/ LeaveWork(t)
  \/ Exit(t) \/ ExitUnlock(t)

Next ==
  \/ OwnerStep
  \/ OwnerCall
  \/ SpuriousIdle
  \/ \E t \in Threads : ThreadStep(t) \/ SpuriousWakeup(t)

Spec == Init /\ [][Next]_vars

---------------------------------------------------------------------------
(* Properties.                                                             *)

\* The values every variable can take.
TypeOK ==
  /\ main \in MainStates
  /\ pc \in [Threads -> ThreadStates]
  /\ job \in [Threads -> 0 .. MaxJobs]
  /\ queue \in Seq(1 .. MaxJobs)
  /\ v \in {0, 1}
  /\ keepalive \in BOOLEAN
  /\ alive \in Nat
  /\ working \in Nat
  /\ thlock \in Threads \cup {NoThread}
  /\ added \in 0 .. MaxJobs
  /\ completed \in SUBSET (1 .. MaxJobs)

\* A thread that has taken the semaphore and will look into the queue.
HasToken(t) == pc[t] \in {"woken", "enter", "pull"}

\* No lost wake-up: while the pool is kept alive and a job waits, either a
\* thread is on its way to the queue, or the semaphore is up and nobody who
\* sleeps on it depends on a signal that is gone (bsem_post, bsem_wait and
\* the second post in jobqueue_pull).
JobNeverStranded ==
  keepalive /\ queue # <<>> =>
    \/ \E t \in Threads : HasToken(t)
    \/ v = 1 /\ (Sleepers(pc) = {} \/ \E t \in Threads : pc[t] = "wait")

\* thpool_wait returns only when every job added so far was executed and
\* its function has returned (the order of num_threads_working++ and
\* jobqueue_pull in thread_do).
WaitMeansIdle ==
  [][main = "idle?" /\ main' = "ready" => completed = 1 .. added]_vars

\* thpool_destroy frees the pool only when no thread can execute a job or
\* come back to the queue any more.  The last of them may still have to unlock
\* thcount_lock, which is freed with the pool.
DestroyWaitsForThreads ==
  main = "freed" => \A t \in Threads : pc[t] \in {"unlock", "dead"}

\* The pool hands out jobs as JobService says: in order, each once, and what
\* is dropped is dropped while nothing runs.
Service == INSTANCE JobService WITH
  submitted <- added,
  pending   <- queue,
  running   <- {job[t] : t \in Threads} \ {0}

ImplementsJobService == Service!Spec

\* Every job added is eventually started, unless the owner destroys the pool.
EveryJobStarts ==
  \A j \in 1 .. MaxJobs :
    added >= j ~> \/ j \in completed \cup {job[t] : t \in Threads}
                  \/ main \in {"destroy", "freed"}

\* thpool_wait returns.
WaitReturns == main \in {"idle?", "asleep"} ~> main = "ready"

\* thpool_destroy returns, whatever the threads were doing when it was called.
DestroyReturns == main = "destroy" ~> main = "freed"

\* thpool_init returns, with a pool or with NULL, unless a thread could not be
\* created: thread_init ignores that, and the busy wait goes on.
InitReturns == <>(main # "init") \/ <>(\E t \in Threads : pc[t] = "failed")
===========================================================================
