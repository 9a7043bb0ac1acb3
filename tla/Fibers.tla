------------------------------- MODULE Fibers -------------------------------
(***************************************************************************)
(* The fiber scheduler of src/sched.c over the coroutines of src/coro.c:   *)
(* creation of a coroutine on a signal stack, launching, suspending,       *)
(* resuming and the end of fibers, and who frees what.  What the fibers of *)
(* the daemon do between two calls is in DataPlane; here a fiber makes any *)
(* call.                                                                   *)
(*                                                                         *)
(* A context (coro_context) of sched_dispatch or of sched_fiber_launch is  *)
(* a local variable on the stack of the caller.  It is named by its        *)
(* position in frames, the calls that wait for the fiber they resumed.     *)
(* The fiber of the last frame runs; without frames the event loop runs.   *)
(*                                                                         *)
(* coro_create is cut where a SIGUSR2 from outside changes what happens.   *)
(***************************************************************************)
EXTENDS Integers, Sequences, FiniteSets

CONSTANTS
    Fibs,        \* the fibers
    Wakeable,    \* those that others wake: they never end, as broadcast_udp
    MaxSignals   \* bound on the SIGUSR2 from outside

NoFib == "none"

ASSUME FibersAssumption == NoFib \notin Fibs /\ Wakeable \subseteq Fibs

VARIABLES
    frames,      \* calls of sched_dispatch and sched_fiber_launch not returned
    origin_ctx,  \* S->origin_ctx: a position in frames, 0 for NULL
    fib,         \* the fibers
    coro,        \* the globals of coro.c and the place in coro_create
    sig,         \* disposition and mask of SIGUSR2, the signal stack
    proc         \* the process

fibersVars == <<frames, origin_ctx, fib, coro, sig, proc>>

Events == {"r_event", "w_event", "yield_event"}

\* The fiber that runs, or NoFib in the event loop.
Running == IF frames = << >> THEN NoFib ELSE frames[Len(frames)].fiber

\* Nothing runs beside coro_create, and nothing after the end.
Executing == proc = "alive" /\ coro.step = "idle"

-----------------------------------------------------------------------------
(* Creation: sched_new_fiber and coro_create *)

\* sched_new_fiber up to coro_create, called by the event loop or a fiber.
sched_new_fiber(f) ==
    /\ Executing /\ fib[f].state = "none"
    /\ fib' = [fib EXCEPT ![f] = [@ EXCEPT !.state = "made", !.stack = 1, !.op = "NONE"]]
    /\ coro' = [coro EXCEPT !.step = "block", !.init_func = f, !.new_coro = f]
    /\ UNCHANGED <<frames, origin_ctx, sig, proc>>

coro_create_block ==
    /\ proc = "alive" /\ coro.step = "block"
    /\ sig' = [sig EXCEPT !.blocked = TRUE]
    /\ coro' = [coro EXCEPT !.step = "install"]
    /\ UNCHANGED <<frames, origin_ctx, fib, proc>>

\* sigaction, sigaltstack, kill.
coro_create_install ==
    /\ proc = "alive" /\ coro.step = "install"
    /\ sig' = [sig EXCEPT !.handler = "trampoline", !.altstack = coro.new_coro,
                          !.pending = TRUE]
    /\ coro' = [coro EXCEPT !.step = "suspend", !.trampoline_done = FALSE]
    /\ UNCHANGED <<frames, origin_ctx, fib, proc>>

\* sigsuspend lets SIGUSR2 in: trampoline saves the context of new_coro on the
\* signal stack.
trampoline ==
    /\ proc = "alive" /\ coro.step = "suspend" /\ ~coro.trampoline_done /\ sig.pending
    /\ sig' = [sig EXCEPT !.pending = FALSE]
    /\ coro' = [coro EXCEPT !.trampoline_done = TRUE]
    /\ fib' = [fib EXCEPT ![coro.new_coro].saved = Append(@, sig.altstack)]
    /\ UNCHANGED <<frames, origin_ctx, proc>>

Restored(s) == [s EXCEPT !.altstack = NoFib, !.handler = "default", !.blocked = FALSE]

coro_create_restore ==
    /\ proc = "alive" /\ coro.step = "suspend" /\ coro.trampoline_done
    /\ sig' = Restored(sig)
    /\ coro' = [coro EXCEPT !.step = "transfer"]
    /\ UNCHANGED <<frames, origin_ctx, fib, proc>>

\* coro_init copies coro_init_func and transfers back.
FirstTransfer(f) == [f EXCEPT !.state = "new", !.func = coro.init_func]

coro_create_transfer ==
    /\ proc = "alive" /\ coro.step = "transfer"
    /\ fib' = [fib EXCEPT ![coro.new_coro] = FirstTransfer(@)]
    /\ coro' = [coro EXCEPT !.step = "idle"]
    /\ UNCHANGED <<frames, origin_ctx, sig, proc>>

\* A SIGUSR2 from another process.  A blocked one stays pending, and one that
\* is pending already is merged with it.
SIGUSR2 ==
    /\ proc = "alive" /\ sig.sent < MaxSignals
    /\ sig' = [sig EXCEPT !.pending = TRUE, !.sent = @ + 1]
    /\ UNCHANGED <<frames, origin_ctx, fib, coro, proc>>

\* An unblocked SIGUSR2 is delivered: the default action ends the process, the
\* trampoline would save the wrong context again.
SIGUSR2_delivered ==
    /\ proc = "alive" /\ sig.pending /\ ~sig.blocked
    /\ sig' = [sig EXCEPT !.pending = FALSE]
    /\ IF sig.handler = "default"
       THEN proc' = "killed" /\ UNCHANGED fib
       ELSE /\ fib' = [fib EXCEPT ![coro.new_coro].saved = Append(@, sig.altstack)]
            /\ UNCHANGED proc
    /\ UNCHANGED <<frames, origin_ctx, coro>>

-----------------------------------------------------------------------------
(* Resuming and suspending *)

\* A first run of a fiber calls coro_init_func unless coro_init copied it.
Started(f, x) ==
    [x EXCEPT !.state = "running", !.func = IF @ = NoFib THEN coro.init_func ELSE @]

\* sched_fiber_launch up to the transfer.
sched_fiber_launch(f) ==
    /\ Executing /\ fib[f].state = "new"
    /\ frames' = Append(frames, [by |-> "launch", fiber |-> f, save |-> origin_ctx])
    /\ origin_ctx' = Len(frames) + 1
    /\ fib' = [fib EXCEPT ![f] = Started(f, @)]
    /\ UNCHANGED <<coro, sig, proc>>

\* Mutant: the events stay registered (EV_PERSIST).
Fired_persist(pending, e) == pending
\* libevent removes an event that fires from the pending ones.
Fired(pending, e) == pending \ {e}

Dispatched(x, e) == [x EXCEPT !.pending = Fired(@, e), !.state = "running"]

\* sched_dispatch up to the transfer.  Resuming a fiber without a stack goes
\* anywhere.
sched_dispatch(f, e) ==
    /\ Executing /\ frames = << >> /\ e \in fib[f].pending
    /\ frames' = <<[by |-> "dispatch", fiber |-> f, save |-> 0]>>
    /\ origin_ctx' = 1
    /\ fib' = [fib EXCEPT ![f] = Dispatched(@, e)]
    /\ proc' = IF fib[f].state = "suspended" /\ fib[f].stack = 1 THEN proc ELSE "lost"
    /\ UNCHANGED <<coro, sig>>

\* Mutant: sched_fiber_launch does not restore origin_ctx.
OriginAfter_kept(frame) == origin_ctx
OriginAfter(frame) == IF frame.by = "launch" THEN frame.save ELSE origin_ctx

\* What follows coro_transfer in sched_dispatch and sched_fiber_launch.
Resumed(frame, x) ==
    IF x.op # "FREE" THEN x
    ELSE [x EXCEPT !.stack = @ - 1, !.struct = IF frame.by = "launch" THEN "freed" ELSE @]

\* The running fiber, changed to x, transfers to the context it found in
\* origin_ctx; others is what the call did to the other fibers.
Transfer(x, others) ==
    LET top == Len(frames)
        f   == frames[top].fiber
    IN  /\ fib' = [others EXCEPT ![f] = Resumed(frames[top], x)]
        /\ frames' = SubSeq(frames, 1, top - 1)
        /\ origin_ctx' = OriginAfter(frames[top])
        /\ proc' = IF origin_ctx = top THEN proc ELSE "lost"
        /\ UNCHANGED <<coro, sig>>

Suspended(x, op) == [x EXCEPT !.state = "suspended", !.op = op]

\* The operation that an async_* call records for the event it waits for.
OpOf(e) == [r_event |-> "RECV", w_event |-> "WRITE"][e]

\* async_recv, async_write and the others that wait for one event of a
\* descriptor.
async_io(e) ==
    /\ Executing /\ frames # << >>
    /\ Transfer(Suspended([fib[Running] EXCEPT !.pending = @ \cup {e}], OpOf(e)), fib)

\* Only a fiber that others wake can go on after async_yield.
async_yield ==
    /\ Executing /\ Running \in Wakeable
    /\ Transfer(Suspended(fib[Running], "YIELD"), fib)

\* event_active on the yield event.
Activate(x) == [x EXCEPT !.pending = @ \cup {"yield_event"}]

\* async_wake, called by a fiber or from the event loop.
async_wake(g) ==
    /\ Executing /\ g \in Wakeable /\ fib[g].state \in {"running", "suspended"}
    /\ fib' = [fib EXCEPT ![g] = Activate(@)]
    /\ UNCHANGED <<frames, origin_ctx, coro, sig, proc>>

\* async_continue: the caller waits for a wake-up after it woke g.
async_continue(g) ==
    /\ Executing /\ Running \in Wakeable
    /\ g \in Wakeable \ {Running} /\ fib[g].state = "suspended"
    /\ Transfer(Suspended(fib[Running], "YIELD"), [fib EXCEPT ![g] = Activate(@)])

\* Mutant: the fiber frees its own stack.
Exited_stack(x) == [x EXCEPT !.state = "gone", !.op = "FREE", !.stack = @ - 1,
                             !.pending = @ \ {"yield_event"}]
\* event_free of the yield event; the events of descriptors are only dropped
\* with the map.
Exited(x) == [x EXCEPT !.state = "gone", !.op = "FREE", !.pending = @ \ {"yield_event"}]

sched_fiber_exit ==
    /\ Executing /\ frames # << >> /\ Running \notin Wakeable
    /\ Transfer(Exited(fib[Running]), fib)

\* sched_fiber_delete, by server_udp_exit after the event loop.
sched_fiber_delete ==
    /\ Executing /\ frames = << >>
    /\ proc' = "ended"
    /\ fib' = [f \in Fibs |-> IF fib[f].state \in {"new", "suspended"}
                              THEN [fib[f] EXCEPT !.stack = @ - 1] ELSE fib[f]]
    /\ UNCHANGED <<frames, origin_ctx, coro, sig>>

-----------------------------------------------------------------------------
FibersInit ==
    /\ frames = << >> /\ origin_ctx = 0 /\ proc = "alive"
    /\ fib = [f \in Fibs |-> [state |-> "none", op |-> "NONE", stack |-> 0,
                              struct |-> "kept", pending |-> {}, saved |-> << >>,
                              func |-> NoFib]]
    /\ coro = [step |-> "idle", init_func |-> NoFib, new_coro |-> NoFib,
               trampoline_done |-> FALSE]
    /\ sig = [blocked |-> FALSE, handler |-> "default", altstack |-> NoFib,
              pending |-> FALSE, sent |-> 0]

Resume(f) == \E e \in Events : sched_dispatch(f, e)

\* The running fiber reaches its next suspension or its end.
Leave ==
    \/ \E e \in {"r_event", "w_event"} : async_io(e)
    \/ async_yield
    \/ \E g \in Fibs : async_continue(g)
    \/ sched_fiber_exit

CreateStep ==
    \/ coro_create_block \/ coro_create_install \/ trampoline
    \/ coro_create_restore \/ coro_create_transfer

FibersNext ==
    \/ \E f \in Fibs : sched_new_fiber(f) \/ sched_fiber_launch(f) \/ Resume(f)
    \/ \E g \in Fibs : async_wake(g)
    \/ Leave \/ CreateStep \/ SIGUSR2 \/ SIGUSR2_delivered \/ sched_fiber_delete

\* A fiber reaches its next call, and libevent runs every event that is active
\* before it waits again.
FibersFairness ==
    /\ WF_fibersVars(Leave) /\ WF_fibersVars(CreateStep)
    /\ \A g \in Wakeable : SF_fibersVars(sched_dispatch(g, "yield_event"))

FibersSpec == FibersInit /\ [][FibersNext]_fibersVars /\ FibersFairness

-----------------------------------------------------------------------------
(* Properties *)

\* The types of the fibers, the calls that wait for them and origin_ctx of sched.c.
FibersTypeOK ==
    /\ \A i \in 1..Len(frames) :
         /\ frames[i].by \in {"launch", "dispatch"} /\ frames[i].fiber \in Fibs
         /\ frames[i].save \in 0..Cardinality(Fibs)
    /\ origin_ctx \in 0..Cardinality(Fibs)
    /\ \A f \in Fibs :
         /\ fib[f].state \in {"none", "made", "new", "running", "suspended", "gone"}
         /\ fib[f].op \in {"NONE", "RECV", "WRITE", "YIELD", "FREE"}
         /\ fib[f].stack \in 0..1
         /\ fib[f].pending \subseteq Events /\ fib[f].func \in Fibs \cup {NoFib}
    /\ proc \in {"alive", "killed", "lost", "ended"}

\* While a fiber runs, origin_ctx is the context of the call that resumed it,
\* however launches nest and whatever fibers end inside them; so the next
\* coro_transfer returns there.
OriginIsResumer ==
    (frames # << >> /\ proc = "alive") => origin_ctx = Len(frames)

\* No transfer goes to a context or a stack that is gone, although nobody
\* cancels the events of a fiber that ends.
ControlNotLost == proc # "lost"

\* A fiber runs the function it was created with, although coro_create passes
\* it in a global that the next coro_create overwrites.
RunsOwnFunction == \A f \in Fibs : fib[f].func \in {f, NoFib}

\* trampoline runs once for a new coroutine and on its own stack, also when
\* SIGUSR2 comes from outside at any moment; and afterwards SIGUSR2 has its
\* old disposition and the signal stack is disabled.
TrampolineOnce ==
    /\ \A f \in Fibs : fib[f].saved \in CASE fib[f].state = "none" -> {<< >>}
                                          [] fib[f].state = "made" -> {<< >>, <<f>>}
                                          [] OTHER -> {<<f>>}
    /\ coro.step = "idle" => /\ sig.handler = "default" /\ ~sig.blocked
                             /\ sig.altstack = NoFib

\* The stack of a fiber lives from its creation to the end of the fiber, is
\* freed by the call that resumed it last, and once.
StackFreedOnce ==
    proc = "alive" => \A f \in Fibs :
        fib[f].stack = IF fib[f].state \in {"none", "gone"} THEN 0 ELSE 1

\* No wake-up stays pending for ever: it resumes its fiber, also when it comes
\* while the fiber waits for a descriptor or still runs, unless the process
\* ends.
WokenResumes ==
    \A g \in Wakeable : []<>("yield_event" \notin fib[g].pending \/ proc # "alive")

\* Every transfer of control goes where it should and to a stack that exists:
\* into the fiber's own function once, back to the resumer, never to a fiber
\* that has ended.
TransfersSound ==
    /\ OriginIsResumer /\ ControlNotLost /\ RunsOwnFunction
    /\ TrampolineOnce /\ StackFreedOnce

=============================================================================
