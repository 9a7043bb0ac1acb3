----------------------------- MODULE CoroThread -----------------------------
(***************************************************************************)
(* The pthread backend of src/coro.c: a coroutine is a thread, and         *)
(* coro_mutex and one condition variable per context see to it that one    *)
(* thread runs at a time.  A thread that waits for the mutex is "starting",*)
(* "woken", "cancelled" or "relock"; it goes on when the mutex is free.    *)
(***************************************************************************)
EXTENDS Integers, FiniteSets

CONSTANTS
    Coros,        \* the coroutines
    MaxSpurious   \* bound on the spurious wake-ups

VARIABLES
    coro_mutex,   \* the thread that holds it, or NoThread
    th,           \* the threads
    due,          \* the thread that the last transfer named
    spurious      \* how many waits ended without a signal

coroThreadVars == <<coro_mutex, th, due, spurious>>

main == "main"
NoThread == "no thread"
nctx == "nctx"
Threads == Coros \cup {main}

\* The names of the contexts and of no thread are not those of coroutines.
ASSUME CoroThreadAssumption ==
    /\ {main, NoThread, nctx} \cap Coros = {}
    /\ MaxSpurious \in Nat

Now(state) == [state |-> state, cv |-> NoThread]
Waiting(cv) == [state |-> "waiting", cv |-> cv]

\* Mutant: all contexts share a condition variable.
Signalled_all(threads, prev, next) ==
    [t \in Threads |-> IF threads[t].state = "waiting" THEN Now("woken") ELSE threads[t]]
\* pthread_cond_signal wakes a thread that waits, if there is one.
Signalled(threads, prev, next) ==
    [t \in Threads |-> IF threads[t] = Waiting(next) THEN Now("woken") ELSE threads[t]]

\* coro_transfer by thread t, from the context prev to next: signal and wait.
coro_transfer(t, threads, prev, next) ==
    /\ th' = [Signalled(threads, prev, next) EXCEPT ![t] = Waiting(prev)]
    /\ coro_mutex' = NoThread

-----------------------------------------------------------------------------
\* The new thread cannot go on before the transfer has released the mutex.
coro_create(t, c) ==
    /\ coro_mutex = t /\ th[c] = Now("none")
    /\ coro_transfer(t, [th EXCEPT ![c] = Now("starting")], nctx, c)
    /\ due' = c /\ UNCHANGED spurious

\* The thread of c takes the mutex and transfers back at once.
coro_init(c) ==
    /\ coro_mutex = NoThread /\ th[c] = Now("starting")
    /\ coro_transfer(c, th, c, nctx)
    /\ LET creators == {t \in Threads : th[t] = Waiting(nctx)}
       IN  IF creators = {} THEN UNCHANGED due ELSE due' \in creators
    /\ UNCHANGED spurious

\* The caller of coro_transfer names a coroutine that transferred before.
transfer(t, next) ==
    /\ coro_mutex = t /\ th[next] = Waiting(next)
    /\ coro_transfer(t, th, t, next)
    /\ due' = next /\ UNCHANGED spurious

\* pthread_cond_wait returns with the mutex.
wait_returns(t) ==
    /\ coro_mutex = NoThread /\ th[t].state \in {"woken", "relock"}
    /\ th' = [th EXCEPT ![t] = Now("running")] /\ coro_mutex' = t
    /\ UNCHANGED <<due, spurious>>

\* POSIX lets a wait end by itself.
spurious_wakeup(t) ==
    /\ spurious < MaxSpurious /\ th[t].state = "waiting"
    /\ th' = [th EXCEPT ![t] = Now("woken")] /\ spurious' = spurious + 1
    /\ UNCHANGED <<coro_mutex, due>>

\* Mutant: the mutex is kept over pthread_join.
Unlocked_not(t) == t

\* pthread_mutex_unlock before pthread_join.
Unlocked(t) == NoThread

\* coro_destroy up to pthread_join.
coro_destroy(t, c) ==
    /\ coro_mutex = t /\ th[c] = Waiting(c)
    /\ th' = [th EXCEPT ![c] = Now("cancelled"), ![t] = [state |-> "joining", cv |-> c]]
    /\ coro_mutex' = Unlocked(t)
    /\ due' = t /\ UNCHANGED spurious

mutex_unlock_wrapper(c) == NoThread

\* The cancelled wait takes the mutex, and the cleanup handler releases it.
cancelled(c) ==
    /\ coro_mutex = NoThread /\ th[c] = Now("cancelled")
    /\ th' = [th EXCEPT ![c] = Now("ended")]
    /\ coro_mutex' = mutex_unlock_wrapper(c)
    /\ UNCHANGED <<due, spurious>>

\* pthread_join returns; the mutex is locked again.
joined(t) ==
    /\ th[t].state = "joining" /\ th[th[t].cv] = Now("ended")
    /\ th' = [th EXCEPT ![t] = Now("relock")]
    /\ UNCHANGED <<coro_mutex, due, spurious>>

-----------------------------------------------------------------------------
\* After the first call of coro_create, which locks the mutex.
CoroThreadInit ==
    /\ coro_mutex = main /\ due = main /\ spurious = 0
    /\ th = [t \in Threads |-> Now(IF t = main THEN "running" ELSE "none")]

\* What happens without a decision of the running coroutine.
Advance ==
    \/ \E c \in Coros : coro_init(c) \/ cancelled(c)
    \/ \E t \in Threads : wait_returns(t) \/ joined(t)

CoroThreadNext ==
    \/ \E t \in Threads, c \in Coros : coro_create(t, c) \/ (t # c /\ coro_destroy(t, c))
    \/ \E t, next \in Threads : t # next /\ transfer(t, next)
    \/ \E t \in Threads : spurious_wakeup(t)
    \/ Advance

\* The kernel gives a free mutex to a thread that waits for it.
CoroThreadFairness == WF_coroThreadVars(Advance)

CoroThreadSpec == CoroThreadInit /\ [][CoroThreadNext]_coroThreadVars /\ CoroThreadFairness

-----------------------------------------------------------------------------
(* Properties *)

\* The types of the states of the threads of coro.c and the owner of coro_mutex.
CoroThreadTypeOK ==
    /\ coro_mutex \in Threads \cup {NoThread} /\ due \in Threads
    /\ th \in [Threads -> [state : {"none", "starting", "waiting", "woken", "running",
                                   "cancelled", "joining", "relock", "ended"},
                          cv : Threads \cup {NoThread, nctx}]]
    /\ spurious \in 0..MaxSpurious

\* "this mutex will be locked by the running coroutine": also when waits end
\* by themselves.
RunnerHoldsMutex == \A t \in Threads : th[t].state = "running" <=> coro_mutex = t

\* Unless a wait ended by itself, the thread that runs is the one that the
\* last coro_transfer, coro_create or coro_destroy named, for coro_transfer
\* tests no condition.
DueRuns == (spurious = 0 /\ coro_mutex # NoThread) => coro_mutex = due

\* Every transfer arrives: unless a wait ended by itself, the thread that was
\* named runs again and again, so the threads never all wait for each other.
DueGetsToRun == []<>(th[due].state = "running" \/ spurious > 0)

=============================================================================
