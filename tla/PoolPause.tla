----------------------------- MODULE PoolPause -----------------------------
(***************************************************************************)
(* The thread pool with thpool_pause and thpool_resume: SIGUSR1 sends a    *)
(* thread, wherever it is, into thread_hold, where it stays until the      *)
(* global threads_on_hold is reset.                                        *)
(*                                                                         *)
(* A thread can be stopped inside of a critical section.  Every section    *)
(* that was one step in ThreadPool is two here: the thread takes the lock, *)
(* and then does what the section does and unlocks.  The owner is not      *)
(* stopped, and its sections stay one step that waits for the locks.       *)
(***************************************************************************)
EXTENDS ThreadPool

CONSTANT MaxPauses   \* bound: calls of thpool_pause

ASSUME PauseAssumption == MaxPauses \in Nat

VARIABLES
  holder,     \* the thread that has each lock
  signalled,  \* the threads that SIGUSR1 is pending for
  held,       \* the threads inside thread_hold
  onHold,     \* threads_on_hold
  paused,     \* the owner has paused the pool and not resumed it
  pauses      \* the calls of thpool_pause so far

pause == <<signalled, held, onHold, paused, pauses>>
pausevars == <<vars, holder, pause>>

Locks == {"mutex", "rwmutex", "thcount_lock"}
Unlocked(l) == holder[l] = NoThread

PauseInit ==
  /\ Init
  /\ holder = [l \in Locks |-> NoThread]
  /\ signalled = {} /\ held = {}
  /\ onHold = FALSE /\ paused = FALSE
  /\ pauses = 0

---------------------------------------------------------------------------
(* The signal.                                                             *)

\* One pthread_kill for each of num_threads_alive threads.  The owner pauses a
\* pool that runs.
thpool_pause ==
  /\ main = "ready" /\ pauses < MaxPauses
  /\ ~ paused /\ held = {}
  /\ signalled' = signalled \cup Threads
  /\ paused' = TRUE
  /\ pauses' = pauses + 1
  /\ UNCHANGED <<vars, holder, held, onHold>>

\* Mutant: the owner does not wait until the signals have arrived.
ResumeAtOnce ==
  /\ main = "ready" /\ paused
  /\ onHold' = FALSE
  /\ paused' = FALSE
  /\ UNCHANGED <<vars, holder, signalled, held, pauses>>

\* The owner resumes when every thread has received its signal: it has no
\* means to see that, and a handler that starts later undoes the resume.
thpool_resume ==
  /\ main = "ready" /\ paused /\ signalled = {}
  /\ onHold' = FALSE
  /\ paused' = FALSE
  /\ UNCHANGED <<vars, holder, signalled, held, pauses>>

\* The handler begins; SIGUSR1 is blocked while it runs.
thread_hold(t) ==
  /\ t \in signalled \ held
  /\ signalled' = signalled \ {t}
  /\ held' = held \cup {t}
  /\ onHold' = TRUE
  /\ UNCHANGED <<vars, holder, paused, pauses>>

\* The loop of the handler finds threads_on_hold reset.
thread_hold_ends(t) ==
  /\ t \in held /\ ~ onHold
  /\ held' = held \ {t}
  /\ UNCHANGED <<vars, holder, signalled, onHold, paused, pauses>>

---------------------------------------------------------------------------
(* The threads, with their locks.                                          *)

\* The locks a thread has while it does its next step.  The second post of
\* jobqueue_pull takes the mutex of has_jobs inside of rwmutex.
Needs(t) ==
  CASE pc[t] \in {"start", "enter", "leave", "exit", "unlock"} -> {"thcount_lock"}
    [] pc[t] = "wait" -> {"mutex"}
    [] pc[t] = "pull" -> {"rwmutex"} \cup
         (IF holder["rwmutex"] = t /\ Len(queue) > 1 THEN {"mutex"} ELSE {})
    [] OTHER -> {}

Lock(t) ==
  /\ t \notin held
  /\ \E l \in Needs(t) : Unlocked(l) /\ holder' = [holder EXCEPT ![l] = t]
  /\ UNCHANGED <<vars, pause>>

\* A thread on its way out keeps thcount_lock over two steps.
Step(t) ==
  /\ t \notin held
  /\ \A l \in Needs(t) : holder[l] = t
  /\ ThreadStep(t)
  /\ holder' = [l \in Locks |-> IF holder[l] = t /\ pc[t] # "exit" THEN NoThread ELSE holder[l]]
  /\ UNCHANGED pause

---------------------------------------------------------------------------
(* The owner.  While the pool is paused it calls nothing but thpool_resume: *)
(* a thread that was stopped inside of rwmutex would keep it in             *)
(* thpool_add_work for ever.                                                *)

PauseOwnerStep ==
  /\ \/ \E t \in Threads : thread_init(t)
     \/ thpool_init_returns
     \/ Unlocked("thcount_lock") /\ thpool_wait_test
     \/ Unlocked("mutex") /\ thpool_destroy_posts
     \/ thpool_destroy_frees
  /\ UNCHANGED <<holder, pause>>

PauseOwnerCall ==
  /\ ~ paused
  /\ \/ thpool_init_fails
     \/ Unlocked("rwmutex") /\ Unlocked("mutex") /\ thpool_add_work
     \/ thpool_wait
     \/ thpool_destroy
  /\ UNCHANGED <<holder, pause>>

Wakeups ==
  /\ SpuriousIdle \/ \E t \in Threads \ held : SpuriousWakeup(t)
  /\ UNCHANGED <<holder, pause>>

Hold(t) == thread_hold(t) \/ thread_hold_ends(t)

PauseNext ==
  \/ PauseOwnerStep \/ PauseOwnerCall \/ Wakeups
  \/ thpool_pause \/ thpool_resume
  \/ \E t \in Threads : Lock(t) \/ Step(t) \/ Hold(t)

PauseSpec == PauseInit /\ [][PauseNext]_pausevars

\* As in ThreadPool; whoever waits for a lock that is free again and again
\* gets it, signals arrive, and a pause is followed by a resume.
PauseFairness ==
  /\ SF_pausevars(PauseOwnerStep)
  /\ WF_pausevars(thpool_resume)
  /\ \A t \in Threads :
       SF_pausevars(Lock(t)) /\ WF_pausevars(Step(t)) /\ WF_pausevars(Hold(t))

PauseFairSpec == PauseSpec /\ PauseFairness
---------------------------------------------------------------------------
(* Properties.                                                             *)

\* The values every variable can take, those of ThreadPool included.
PauseTypeOK ==
  /\ TypeOK
  /\ holder \in [Locks -> Threads \cup {NoThread}]
  /\ signalled \subseteq Threads /\ held \subseteq Threads
  /\ onHold \in BOOLEAN /\ paused \in BOOLEAN
  /\ pauses \in 0 .. MaxPauses

\* thpool_resume lets every thread go that thpool_pause has stopped (thpool.h:
\* "Unpauses all threads if they are paused"), if it was not called too soon.
ResumeReleases == paused /\ held # {} ~> held = {}
===========================================================================
