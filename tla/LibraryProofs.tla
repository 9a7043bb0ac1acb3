--------------------------- MODULE LibraryProofs ----------------------------
(***************************************************************************)
(* Proofs about machines of Library, each for its own specification and    *)
(* for every value of its constants: the scheduler of fibers, the          *)
(* connection of a peer over DTLS, and the backends of src/coro.c other    *)
(* than the one of Fibers, for any coroutines and any depth of calls.      *)
(***************************************************************************)
EXTENDS Fibers, Dtls, CoroBackends, SequenceTheorems, TLAPS

(* The scheduler: TransfersSound. *)

\* The shapes of a call that waits for a fiber and of a fiber's state.
Calls == [by : {"launch", "dispatch"}, fiber : Fibs, save : Nat]
FiberStates == [state : {"none", "made", "new", "running", "suspended", "gone"},
                op : {"NONE", "RECV", "WRITE", "YIELD", "FREE"}, stack : Int,
                struct : {"kept", "freed"}, pending : SUBSET Events,
                saved : Seq(Fibs \cup {NoFib}), func : Fibs \cup {NoFib}]
CoroStates == [step : {"idle", "block", "install", "suspend", "transfer"},
               init_func : Fibs \cup {NoFib}, new_coro : Fibs \cup {NoFib},
               trampoline_done : BOOLEAN]
SignalStates == [blocked : BOOLEAN, handler : {"default", "trampoline"},
                 altstack : Fibs \cup {NoFib}, pending : BOOLEAN, sent : Nat]
Shapes ==
    /\ frames \in Seq(Calls)
    /\ origin_ctx \in Nat
    /\ fib \in [Fibs -> FiberStates]
    /\ coro \in CoroStates
    /\ sig \in SignalStates
    /\ proc \in {"alive", "killed", "ended"}

\* The calls nest: only the first can be a sched_dispatch, every other is a
\* sched_fiber_launch that saved the context of the call below it, and each
\* waits for a fiber of its own that runs.
Nested ==
    /\ frames # << >> => origin_ctx = Len(frames)
    /\ \A i \in 2..Len(frames) : frames[i].by = "launch" /\ frames[i].save = i - 1
    /\ \A i \in 1..Len(frames) : fib[frames[i].fiber].state = "running"
    /\ \A i, j \in 1..Len(frames) : frames[i].fiber = frames[j].fiber => i = j
    /\ \A f \in Fibs : fib[f].state = "running" => \E i \in 1..Len(frames) : frames[i].fiber = f

\* The events a fiber may still have.  One that ends has none, because nobody
\* wakes it: the one event it waited for fired when it was resumed.
EventsOf(f) ==
    /\ fib[f].state \in {"none", "made", "new", "gone"} => fib[f].pending = {}
    /\ f \in Wakeable => fib[f].state # "gone"
    /\ f \notin Wakeable => /\ fib[f].state = "running" => fib[f].pending = {}
                            /\ fib[f].state = "suspended" =>
                                 \E e \in Events : fib[f].pending = {e}

StackOf(f) == fib[f].stack = IF fib[f].state \in {"none", "gone"} THEN 0 ELSE 1

\* coro_create, step by step: SIGUSR2 is blocked while the trampoline is
\* installed, and the globals keep naming the coroutine that is made.
Creating ==
    /\ coro.step # "idle" => /\ coro.new_coro \in Fibs
                             /\ coro.init_func = coro.new_coro
                             /\ fib[coro.new_coro].state = "made"
    /\ \A f \in Fibs : fib[f].state = "made" => coro.step # "idle" /\ coro.new_coro = f
    /\ coro.step \in {"idle", "block", "transfer"} => ~sig.blocked
    /\ coro.step \in {"idle", "block", "install", "transfer"} =>
         sig.handler = "default" /\ sig.altstack = NoFib
    /\ coro.step \in {"install", "suspend"} => sig.blocked
    /\ coro.step = "suspend" => sig.altstack = coro.new_coro

\* What a fiber got from coro_create.
Made(f) ==
    /\ fib[f].func = IF fib[f].state \in {"none", "made"} THEN NoFib ELSE f
    /\ fib[f].saved = IF \/ fib[f].state = "none"
                         \/ /\ fib[f].state = "made"
                            /\ \/ coro.step \in {"block", "install"}
                               \/ coro.step = "suspend" /\ ~coro.trampoline_done
                      THEN << >> ELSE <<f>>

FibersInv ==
    /\ Shapes /\ Creating
    /\ \A f \in Fibs : Made(f)
    /\ proc = "alive" => Nested /\ \A f \in Fibs : EventsOf(f) /\ StackOf(f)

----------------------------------------------------------------------------

\* The fiber that runs is the one the last call waits for.
LEMMA RunningFacts ==
    ASSUME FibersInv, proc = "alive", frames # << >>
    PROVE  /\ Len(frames) \in Nat /\ Len(frames) >= 1
           /\ Running = frames[Len(frames)].fiber
           /\ Running \in Fibs /\ fib[Running].state = "running"
           /\ origin_ctx = Len(frames)
<1>1. frames \in Seq(Calls)
  BY DEF FibersInv, Shapes
<1>2. Len(frames) \in Nat /\ Len(frames) >= 1 /\ Len(frames) \in 1..Len(frames)
  BY <1>1
<1>3. Running = frames[Len(frames)].fiber /\ frames[Len(frames)].fiber \in Fibs
  <2>1. frames[Len(frames)] \in Calls
    BY <1>1, <1>2
  <2> QED
    BY <2>1 DEF Running, Calls
<1>4. Nested
  BY DEF FibersInv
<1> QED
  BY <1>2, <1>3, <1>4 DEF Nested

\* A transfer back to the resumer pops the last call.
LEMMA TransferStep ==
    ASSUME FibersInv, Executing, frames # << >>,
           NEW x \in FiberStates, NEW others \in [Fibs -> FiberStates],
           \A g \in Fibs \ {Running} :
             \/ others[g] = fib[g]
             \/ /\ others[g] = Activate(fib[g]) /\ g \in Wakeable
                /\ fib[g].state \in {"running", "suspended"},
           x.state \in {"suspended", "gone"}, x.stack = 1,
           x.op = "FREE" <=> x.state = "gone",
           x.func = fib[Running].func, x.saved = fib[Running].saved,
           x.state = "gone" => Running \notin Wakeable /\ x.pending = {},
           Running \notin Wakeable /\ x.state = "suspended" => \E e \in Events : x.pending = {e},
           Transfer(x, others)
    PROVE  FibersInv'
<1> DEFINE top == Len(frames)
<1>0. PICK r \in Fibs : r = Running
  BY RunningFacts DEF Executing
<1>1. /\ top \in Nat /\ top >= 1 /\ r = frames[top].fiber /\ r \in Fibs
      /\ fib[r].state = "running" /\ origin_ctx = top /\ proc = "alive" /\ coro.step = "idle"
  BY <1>0, RunningFacts DEF Executing
<1>2. /\ frames \in Seq(Calls)
      /\ fib \in [Fibs -> FiberStates]
  BY DEF FibersInv, Shapes
<1>3. /\ frames' \in Seq(Calls)
      /\ Len(frames') = top - 1
      /\ \A i \in 1..(top - 1) : frames'[i] = frames[i]
  <2>1. frames' = SubSeq(frames, 1, top - 1)
    BY DEF Transfer
  <2> QED
    BY <1>1, <1>2, <2>1
<1> DEFINE y == Resumed(frames[top], x)
<1>4. /\ y \in FiberStates /\ y.state = x.state /\ y.func = x.func /\ y.saved = x.saved
      /\ y.pending = x.pending
      /\ y.stack = IF x.state = "gone" THEN 0 ELSE 1
  <2>1. CASE x.state = "gone"
    <3>1. PICK s \in {"kept", "freed"} : y = [x EXCEPT !.stack = x.stack - 1, !.struct = s]
      <4>1. CASE frames[top].by = "launch"
        BY <2>1, <4>1 DEF Resumed
      <4>2. CASE frames[top].by # "launch"
        BY <2>1, <4>2 DEF Resumed, FiberStates
      <4> QED
        BY <4>1, <4>2
    <3>2. x.stack - 1 = 0 /\ 0 \in Int
      OBVIOUS
    <3>3. PICK z \in FiberStates : z = [x EXCEPT !.stack = 0]
      BY <3>2 DEF FiberStates
    <3>4. y = [z EXCEPT !.struct = s]
      BY <3>1, <3>2, <3>3
    <3>5. z.state = x.state /\ z.func = x.func /\ z.saved = x.saved /\ z.pending = x.pending /\ z.stack = 0
      BY <3>3 DEF FiberStates
    <3> HIDE DEF y
    <3>6. y \in FiberStates
      BY <3>4 DEF FiberStates
    <3> QED
      BY <2>1, <3>4, <3>5, <3>6 DEF FiberStates
  <2>2. CASE x.state # "gone"
    BY <2>2 DEF Resumed
  <2> QED
    BY <2>1, <2>2
<1>5. /\ fib' = [others EXCEPT ![r] = y] /\ UNCHANGED <<coro, sig>> /\ proc' = "alive"
      /\ origin_ctx' = IF frames[top].by = "launch" THEN frames[top].save ELSE origin_ctx
  BY <1>1 DEF Transfer, OriginAfter
<1> HIDE DEF y
<1>6. fib'[r] = y /\ \A g \in Fibs \ {r} : fib'[g] = others[g]
  BY <1>1, <1>5
<1>7. \A g \in Fibs \ {r} : /\ fib'[g].state = fib[g].state /\ fib'[g].func = fib[g].func
                            /\ fib'[g].saved = fib[g].saved /\ fib'[g].stack = fib[g].stack
                            /\ \/ fib'[g].pending = fib[g].pending
                               \/ g \in Wakeable /\ fib[g].state \in {"running", "suspended"}
  BY <1>0, <1>2, <1>6 DEF Activate, FiberStates
<1>8. Shapes'
  <2>1. fib' \in [Fibs -> FiberStates]
    BY <1>1, <1>4, <1>5
  <2>2. origin_ctx' \in Nat
    <3>1. frames[top] \in Calls
      BY <1>1, <1>2
    <3> QED
      BY <1>1, <1>5, <3>1 DEF Calls
  <2> QED
    BY <1>3, <1>5, <2>1, <2>2 DEF FibersInv, Shapes
<1>9. Creating'
  BY <1>1, <1>4, <1>5, <1>6, <1>7 DEF FibersInv, Creating
<1>10. \A f \in Fibs : Made(f)'
  <2>1. ASSUME NEW f \in Fibs \ {r}
        PROVE  Made(f)'
    <3>1. Made(f)
      BY DEF FibersInv
    <3> QED
      BY <1>5, <1>7, <2>1, <3>1 DEF Made
  <2>2. Made(r)'
    <3>1. Made(r)
      BY <1>1 DEF FibersInv
    <3>2. fib[r].func = r /\ fib[r].saved = <<r>>
      BY <1>1, <3>1 DEF Made
    <3>3. fib'[r].func = r /\ fib'[r].saved = <<r>> /\ fib'[r].state \in {"suspended", "gone"}
      BY <1>0, <1>4, <1>6, <3>2
    <3> QED
      BY <3>3 DEF Made
  <2> QED
    BY <2>1, <2>2
<1>11. Nested'
  <2>1. Nested
    BY <1>1 DEF FibersInv
  <2>2. ASSUME top # 1
        PROVE  origin_ctx' = top - 1
    BY <1>1, <1>5, <2>1, <2>2 DEF Nested
  <2>3. \A i \in 1..(top - 1) : frames[i].fiber \in Fibs \ {r} /\ i \in 1..top /\ top \in 1..top
    <3>1. \A i \in 1..(top - 1) : frames[i] \in Calls
      BY <1>1, <1>2
    <3>2. \A i \in 1..(top - 1) : i \in 1..top /\ top \in 1..top /\ i # top
      BY <1>1
    <3> QED
      BY <1>1, <2>1, <3>1, <3>2 DEF Nested, Calls
  <2>4. \A i \in 1..(top - 1) : fib'[frames'[i].fiber].state = "running"
    BY <1>3, <1>7, <2>1, <2>3 DEF Nested
  <2>5. ASSUME NEW f \in Fibs, fib'[f].state = "running"
        PROVE  \E i \in 1..(top - 1) : frames'[i].fiber = f
    <3>1. f # r /\ fib[f].state = "running"
      BY <1>4, <1>6, <1>7, <2>5
    <3>2. PICK i \in 1..top : frames[i].fiber = f
      BY <2>1, <3>1 DEF Nested
    <3>3. i \in 1..(top - 1)
      BY <1>1, <3>1, <3>2
    <3> QED
      BY <1>3, <3>2, <3>3
  <2>6. /\ \A i \in 2..(top - 1) : frames'[i].by = "launch" /\ frames'[i].save = i - 1
        /\ \A i, j \in 1..(top - 1) : frames'[i].fiber = frames'[j].fiber => i = j
    BY <1>1, <1>3, <2>1 DEF Nested
  <2>7. frames' # << >> => top # 1
    BY <1>1, <1>3
  <2> QED
    BY <1>3, <2>2, <2>4, <2>5, <2>6, <2>7 DEF Nested
<1>12. \A f \in Fibs : EventsOf(f)' /\ StackOf(f)'
  BY <1>0, <1>1, <1>4, <1>6, <1>7 DEF FibersInv, EventsOf, StackOf
<1> QED
  BY <1>8, <1>9, <1>10, <1>11, <1>12 DEF FibersInv

\* One field of a fiber changes, and no other.
LEMMA SetState ==
    ASSUME NEW x \in FiberStates, NEW v \in {"none", "made", "new", "running", "suspended", "gone"}
    PROVE  \E z \in FiberStates :
             /\ z = [x EXCEPT !.state = v] /\ z.state = v
             /\ z.op = x.op /\ z.stack = x.stack /\ z.struct = x.struct
             /\ z.pending = x.pending /\ z.saved = x.saved /\ z.func = x.func
<1>1. [x EXCEPT !.state = v] \in FiberStates
  BY DEF FiberStates
<1> QED
  BY <1>1 DEF FiberStates

\* The same for the operation.
LEMMA SetOp ==
    ASSUME NEW x \in FiberStates, NEW v \in {"NONE", "RECV", "WRITE", "YIELD", "FREE"}
    PROVE  \E z \in FiberStates :
             /\ z = [x EXCEPT !.op = v] /\ z.op = v
             /\ z.state = x.state /\ z.stack = x.stack /\ z.struct = x.struct
             /\ z.pending = x.pending /\ z.saved = x.saved /\ z.func = x.func
<1>1. [x EXCEPT !.op = v] \in FiberStates
  BY DEF FiberStates
<1> QED
  BY <1>1 DEF FiberStates

\* The same for the stack.
LEMMA SetStack ==
    ASSUME NEW x \in FiberStates, NEW v \in Int
    PROVE  \E z \in FiberStates :
             /\ z = [x EXCEPT !.stack = v] /\ z.stack = v
             /\ z.state = x.state /\ z.op = x.op /\ z.struct = x.struct
             /\ z.pending = x.pending /\ z.saved = x.saved /\ z.func = x.func
<1>1. [x EXCEPT !.stack = v] \in FiberStates
  BY DEF FiberStates
<1> QED
  BY <1>1 DEF FiberStates

\* The same for the events.
LEMMA SetPending ==
    ASSUME NEW x \in FiberStates, NEW v \in SUBSET Events
    PROVE  \E z \in FiberStates :
             /\ z = [x EXCEPT !.pending = v] /\ z.pending = v
             /\ z.state = x.state /\ z.op = x.op /\ z.stack = x.stack
             /\ z.struct = x.struct /\ z.saved = x.saved /\ z.func = x.func
<1>1. [x EXCEPT !.pending = v] \in FiberStates
  BY DEF FiberStates
<1> QED
  BY <1>1 DEF FiberStates

\* The same for the function.
LEMMA SetFunc ==
    ASSUME NEW x \in FiberStates, NEW v \in Fibs \cup {NoFib}
    PROVE  \E z \in FiberStates :
             /\ z = [x EXCEPT !.func = v] /\ z.func = v
             /\ z.state = x.state /\ z.op = x.op /\ z.stack = x.stack
             /\ z.struct = x.struct /\ z.pending = x.pending /\ z.saved = x.saved
<1>1. [x EXCEPT !.func = v] \in FiberStates
  BY DEF FiberStates
<1> QED
  BY <1>1 DEF FiberStates

\* A step that moves no fiber keeps the calls nested.
LEMMA StillFibers ==
    ASSUME FibersInv, proc = "alive", UNCHANGED <<frames, origin_ctx, fib>>, proc' = "alive",
           Shapes', Creating', \A f \in Fibs : Made(f)'
    PROVE  FibersInv'
<1>1. Nested /\ \A f \in Fibs : EventsOf(f) /\ StackOf(f)
  BY DEF FibersInv
<1>2. Nested'
  BY <1>1 DEF Nested
<1>3. \A f \in Fibs : EventsOf(f)' /\ StackOf(f)'
  BY <1>1 DEF EventsOf, StackOf
<1> QED
  BY <1>2, <1>3 DEF FibersInv

\* One fiber that neither ran nor runs changes, and has no event.
LEMMA OneCreated ==
    ASSUME FibersInv, proc = "alive", NEW f \in Fibs, NEW z \in FiberStates,
           fib' = [fib EXCEPT ![f] = z], UNCHANGED <<frames, origin_ctx>>, proc' = "alive",
           fib[f].state # "running", z.state \in {"made", "new"}, z.stack = 1, z.pending = {},
           coro' \in CoroStates,
           sig' \in SignalStates,
           Creating', \A g \in Fibs : Made(g)'
    PROVE  FibersInv'
<1>1. Nested /\ (\A g \in Fibs : EventsOf(g) /\ StackOf(g)) /\ Shapes
  BY DEF FibersInv
<1>2. fib \in [Fibs -> FiberStates] /\ frames \in Seq(Calls) /\ origin_ctx \in Nat
  BY <1>1 DEF Shapes
<1>3. fib' \in [Fibs -> FiberStates] /\ fib'[f] = z /\ \A g \in Fibs \ {f} : fib'[g] = fib[g]
  BY <1>2
<1>4. Shapes'
  BY <1>2, <1>3 DEF Shapes
<1>5. Nested'
  <2>1. \A i \in 1..Len(frames) : frames[i] \in Calls
    BY <1>2
  <2>2. \A i \in 1..Len(frames) : frames[i].fiber \in Fibs
    BY <2>1 DEF Calls
  <2>3. \A i \in 1..Len(frames) : fib'[frames[i].fiber].state = "running"
    BY <1>1, <1>3, <2>2 DEF Nested
  <2>4. \A g \in Fibs : fib'[g].state = "running" => fib[g].state = "running"
    BY <1>3
  <2> QED
    BY <1>1, <2>3, <2>4 DEF Nested
<1>6. \A g \in Fibs : EventsOf(g)' /\ StackOf(g)'
  BY <1>1, <1>3 DEF EventsOf, StackOf
<1> QED
  BY <1>4, <1>5, <1>6 DEF FibersInv

\* fiber_new: the fiber that is created starts without stack or operation.
LEMMA NewFiber ==
    ASSUME FibersInv, NEW f \in Fibs, sched_new_fiber(f)
    PROVE  FibersInv'
<1>1. /\ proc = "alive" /\ proc' = "alive" /\ coro.step = "idle" /\ fib[f].state = "none"
      /\ UNCHANGED <<frames, origin_ctx, sig>>
  BY DEF sched_new_fiber, Executing
<1>2. fib \in [Fibs -> FiberStates] /\ fib[f] \in FiberStates
  BY DEF FibersInv, Shapes
<1> DEFINE z == [fib[f] EXCEPT !.state = "made", !.stack = 1, !.op = "NONE"]
<1>3. /\ z \in FiberStates /\ z.state = "made" /\ z.stack = 1 /\ z.pending = fib[f].pending
      /\ z.func = fib[f].func /\ z.saved = fib[f].saved
  <2>1. PICK a \in FiberStates : a = [fib[f] EXCEPT !.state = "made"] /\ a.state = "made"
                                  /\ a.pending = fib[f].pending /\ a.func = fib[f].func
                                  /\ a.saved = fib[f].saved
    BY <1>2, SetState
  <2>2. PICK b \in FiberStates : b = [a EXCEPT !.stack = 1] /\ b.stack = 1
                                  /\ b.state = a.state /\ b.pending = a.pending
                                  /\ b.func = a.func /\ b.saved = a.saved
    BY SetStack
  <2>3. PICK c \in FiberStates : c = [b EXCEPT !.op = "NONE"]
                                  /\ c.state = b.state /\ c.pending = b.pending
                                  /\ c.func = b.func /\ c.saved = b.saved /\ c.stack = b.stack
    BY SetOp
  <2>4. z = c
    BY <2>1, <2>2, <2>3
  <2> HIDE DEF z
  <2> QED
    BY <2>1, <2>2, <2>3, <2>4
<1>4. fib' = [fib EXCEPT ![f] = z]
  BY DEF sched_new_fiber
<1> HIDE DEF z
<1>5. fib'[f] = z /\ \A g \in Fibs \ {f} : fib'[g] = fib[g]
  BY <1>2, <1>4
<1>6. /\ coro'.step = "block" /\ coro'.init_func = f /\ coro'.new_coro = f
      /\ coro' \in CoroStates
  BY DEF sched_new_fiber, FibersInv, Shapes, CoroStates
<1>7. z.pending = {} /\ z.func = NoFib /\ z.saved = << >>
  <2>1. EventsOf(f) /\ Made(f)
    BY <1>1 DEF FibersInv
  <2> QED
    BY <1>1, <1>3, <2>1 DEF EventsOf, Made
<1>8. Creating'
  BY <1>1, <1>3, <1>5, <1>6 DEF FibersInv, Creating
<1>9. ASSUME NEW g \in Fibs
      PROVE  Made(g)'
  <2>1. Made(g) /\ (g # f => fib[g].state # "made")
    BY <1>1 DEF FibersInv, Creating
  <2> QED
    BY <1>3, <1>5, <1>6, <1>7, <2>1 DEF Made
<1>10. sig' \in SignalStates
  BY <1>1 DEF FibersInv, Shapes
<1> QED
  BY <1>1, <1>3, <1>4, <1>6, <1>7, <1>8, <1>9, <1>10, OneCreated

\* The steps of coro_create that touch no fiber, and a SIGUSR2 from outside.
LEMMA MaskSteps ==
    ASSUME FibersInv,
           coro_create_block \/ coro_create_install \/ coro_create_restore \/ SIGUSR2
    PROVE  FibersInv'
<1>1. /\ proc = "alive" /\ proc' = "alive" /\ UNCHANGED <<frames, origin_ctx, fib>>
  BY DEF coro_create_block, coro_create_install, coro_create_restore, SIGUSR2
<1>2. Shapes /\ Creating /\ \A f \in Fibs : Made(f)
  BY DEF FibersInv
<1>3. Shapes' /\ Creating' /\ \A f \in Fibs : Made(f)'
  <2>1. CASE coro_create_block
    <3>1. Shapes'
      BY <1>1, <1>2, <2>1 DEF Shapes, CoroStates, SignalStates, coro_create_block
    <3>2. /\ coro.step = "block" /\ coro'.step = "install" /\ coro'.new_coro = coro.new_coro
          /\ coro'.init_func = coro.init_func /\ sig'.blocked = TRUE
          /\ sig'.handler = sig.handler /\ sig'.altstack = sig.altstack
      BY <1>2, <2>1 DEF Shapes, CoroStates, SignalStates, coro_create_block
    <3> QED
      BY <1>1, <1>2, <3>1, <3>2 DEF Creating, Made
  <2>2. CASE coro_create_install
    <3>1. coro.step = "install" /\ coro.new_coro \in Fibs
      BY <1>2, <2>2 DEF coro_create_install, Creating
    <3>2. /\ coro'.step = "suspend" /\ coro'.new_coro = coro.new_coro
          /\ coro'.init_func = coro.init_func /\ coro'.trampoline_done = FALSE
          /\ coro' \in CoroStates
      BY <1>2, <2>2 DEF Shapes, CoroStates, SignalStates, coro_create_install
    <3>3. /\ sig'.blocked = sig.blocked /\ sig'.altstack = coro.new_coro
          /\ sig' \in SignalStates
      BY <1>2, <2>2, <3>1 DEF Shapes, CoroStates, SignalStates, coro_create_install
    <3> QED
      BY <1>1, <1>2, <3>1, <3>2, <3>3 DEF Shapes, Creating, Made
  <2>3. CASE coro_create_restore
    <3>1. coro.step = "suspend" /\ coro.trampoline_done
      BY <2>3 DEF coro_create_restore
    <3>2. /\ coro'.step = "transfer" /\ coro'.new_coro = coro.new_coro
          /\ coro'.init_func = coro.init_func
          /\ coro' \in CoroStates
      BY <1>2, <2>3 DEF Shapes, CoroStates, SignalStates, coro_create_restore
    <3>3. /\ sig'.blocked = FALSE /\ sig'.altstack = NoFib /\ sig'.handler = "default"
          /\ sig' \in SignalStates
      BY <1>2, <2>3 DEF Shapes, CoroStates, SignalStates, coro_create_restore, Restored
    <3> QED
      BY <1>1, <1>2, <3>1, <3>2, <3>3 DEF Shapes, Creating, Made
  <2>4. CASE SIGUSR2
    <3>1. /\ sig'.blocked = sig.blocked /\ sig'.altstack = sig.altstack
          /\ sig'.handler = sig.handler /\ coro' = coro
          /\ sig' \in SignalStates
      <4>1. sig \in SignalStates
        BY <1>2 DEF Shapes
      <4>2. PICK k \in Nat : k = sig.sent + 1
        BY <4>1 DEF SignalStates
      <4>3. sig' = [sig EXCEPT !.pending = TRUE, !.sent = k] /\ coro' = coro
        BY <2>4, <4>2 DEF SIGUSR2
      <4> QED
        BY <4>1, <4>3 DEF SignalStates
    <3> QED
      BY <1>1, <1>2, <3>1 DEF Shapes, Creating, Made
  <2> QED
    BY <2>1, <2>2, <2>3, <2>4
<1> QED
  BY <1>1, <1>3, StillFibers

\* A SIGUSR2 is delivered only when its disposition is the old one.
LEMMA Delivered ==
    ASSUME FibersInv, SIGUSR2_delivered
    PROVE  FibersInv'
<1>1. Shapes /\ Creating /\ \A f \in Fibs : Made(f)
  BY DEF FibersInv
<1>2. sig.handler = "default"
  BY <1>1 DEF Creating, Shapes, CoroStates, SIGUSR2_delivered
<1>3. proc' = "killed" /\ UNCHANGED <<frames, origin_ctx, fib, coro>>
  BY <1>2 DEF SIGUSR2_delivered
<1>4. /\ sig'.blocked = sig.blocked /\ sig'.altstack = sig.altstack
      /\ sig'.handler = sig.handler
      /\ sig' \in SignalStates
  BY <1>1 DEF Shapes, CoroStates, SignalStates, SIGUSR2_delivered
<1>5. Shapes' /\ Creating' /\ \A f \in Fibs : Made(f)'
  BY <1>1, <1>3, <1>4 DEF Shapes, Creating, Made
<1> QED
  BY <1>3, <1>5 DEF FibersInv

\* trampoline saves the new coroutine once, on its own stack.
LEMMA Trampoline ==
    ASSUME FibersInv, trampoline
    PROVE  FibersInv'
<1> DEFINE f == coro.new_coro
<1> DEFINE z == [fib[f] EXCEPT !.saved = <<f>>]
<1>1. Shapes /\ Creating /\ \A g \in Fibs : Made(g) /\ EventsOf(g) /\ StackOf(g)
  BY DEF FibersInv, trampoline
<1>2. /\ proc = "alive" /\ proc' = "alive" /\ UNCHANGED <<frames, origin_ctx>>
      /\ coro.step = "suspend" /\ ~coro.trampoline_done
  BY DEF trampoline
<1>3. f \in Fibs /\ fib[f].state = "made" /\ sig.altstack = f /\ fib[f].saved = << >>
  BY <1>1, <1>2 DEF Creating, Made
<1>4. fib \in [Fibs -> FiberStates] /\ fib[f] \in FiberStates
  BY <1>1, <1>3 DEF Shapes
<1>5. fib' = [fib EXCEPT ![f] = z]
  <2>1. Append(fib[f].saved, sig.altstack) = <<f>>
    BY <1>3
  <2> QED
    BY <2>1 DEF trampoline
<1>6. /\ z \in FiberStates /\ z.state = fib[f].state /\ z.stack = fib[f].stack
      /\ z.pending = fib[f].pending /\ z.func = fib[f].func /\ z.saved = <<f>>
  <2>1. <<f>> \in Seq(Fibs \cup {NoFib})
    BY <1>3
  <2> HIDE DEF f
  <2> QED
    BY <1>4, <2>1 DEF FiberStates
<1> HIDE DEF z, f
<1>7. fib'[f] = z /\ \A g \in Fibs \ {f} : fib'[g] = fib[g]
  BY <1>3, <1>4, <1>5
<1>8. /\ coro'.step = "suspend" /\ coro'.new_coro = coro.new_coro
      /\ coro'.init_func = coro.init_func /\ coro'.trampoline_done = TRUE
      /\ coro' \in CoroStates
  BY <1>1, <1>2 DEF Shapes, CoroStates, SignalStates, trampoline
<1>9. /\ sig'.blocked = sig.blocked /\ sig'.altstack = sig.altstack
      /\ sig' \in SignalStates
  BY <1>1 DEF Shapes, CoroStates, SignalStates, trampoline
<1>10. Creating'
  BY <1>1, <1>2, <1>3, <1>6, <1>7, <1>8, <1>9 DEF Creating, f
<1>11. ASSUME NEW g \in Fibs
       PROVE  Made(g)'
  <2>1. Made(g) /\ (g # f => fib[g].state # "made")
    BY <1>1 DEF Creating, f
  <2> QED
    BY <1>2, <1>3, <1>6, <1>7, <1>8, <2>1 DEF Made
<1>12. z.stack = 1 /\ z.pending = {} /\ z.state = "made"
  BY <1>1, <1>3, <1>6 DEF EventsOf, StackOf
<1> QED
  BY <1>2, <1>3, <1>5, <1>6, <1>8, <1>9, <1>10, <1>11, <1>12, OneCreated

\* coro_init copies the function of the coroutine that is made.
LEMMA CreateTransfer ==
    ASSUME FibersInv, coro_create_transfer
    PROVE  FibersInv'
<1> DEFINE f == coro.new_coro
<1> DEFINE z == FirstTransfer(fib[f])
<1>1. Shapes /\ Creating /\ \A g \in Fibs : Made(g) /\ EventsOf(g) /\ StackOf(g)
  BY DEF FibersInv, coro_create_transfer
<1>2. /\ proc = "alive" /\ proc' = "alive" /\ UNCHANGED <<frames, origin_ctx, sig>>
      /\ coro.step = "transfer"
  BY DEF coro_create_transfer
<1>3. f \in Fibs /\ fib[f].state = "made" /\ coro.init_func = f /\ fib[f].saved = <<f>>
  BY <1>1, <1>2 DEF Creating, Made
<1>4. fib \in [Fibs -> FiberStates] /\ fib[f] \in FiberStates
  BY <1>1, <1>3 DEF Shapes
<1>5. fib' = [fib EXCEPT ![f] = z]
  BY DEF coro_create_transfer
<1>6. /\ z \in FiberStates /\ z.state = "new" /\ z.stack = fib[f].stack
      /\ z.pending = fib[f].pending /\ z.func = f /\ z.saved = fib[f].saved
  <2>0. PICK x \in FiberStates : x = fib[f]
    BY <1>4
  <2>1. PICK a \in FiberStates : a = [x EXCEPT !.state = "new"] /\ a.state = "new"
                                  /\ a.pending = x.pending /\ a.saved = x.saved
                                  /\ a.stack = x.stack
    BY SetState
  <2>2. PICK b \in FiberStates : b = [a EXCEPT !.func = f] /\ b.func = f
                                  /\ b.state = a.state /\ b.pending = a.pending
                                  /\ b.stack = a.stack /\ b.saved = a.saved
    BY <1>3, SetFunc
  <2>3. z = b
    BY <1>3, <2>0, <2>1, <2>2 DEF FirstTransfer
  <2> HIDE DEF z, f
  <2> QED
    BY <2>0, <2>1, <2>2, <2>3
<1> HIDE DEF z, f
<1>7. fib'[f] = z /\ \A g \in Fibs \ {f} : fib'[g] = fib[g]
  BY <1>3, <1>4, <1>5
<1>8. /\ coro'.step = "idle"
      /\ coro' \in CoroStates
  BY <1>1, <1>2 DEF Shapes, CoroStates, SignalStates, coro_create_transfer
<1>9. \A g \in Fibs : g # f => fib[g].state # "made"
  BY <1>1 DEF Creating, f
<1>10. Creating'
  BY <1>1, <1>2, <1>3, <1>6, <1>7, <1>8, <1>9 DEF Creating
<1>11. ASSUME NEW g \in Fibs
       PROVE  Made(g)'
  <2>1. Made(g)
    BY <1>1
  <2> QED
    BY <1>2, <1>3, <1>6, <1>7, <1>8, <1>9, <2>1 DEF Made
<1>12. z.stack = 1 /\ z.pending = {}
  BY <1>1, <1>3, <1>6 DEF EventsOf, StackOf
<1>13. sig' \in SignalStates
  BY <1>1, <1>2 DEF Shapes
<1> QED
  BY <1>2, <1>3, <1>5, <1>6, <1>8, <1>10, <1>11, <1>12, <1>13, OneCreated

\* A fiber starts: its launch waits on top of the others.
LEMMA Launch ==
    ASSUME FibersInv, NEW f \in Fibs, sched_fiber_launch(f)
    PROVE  FibersInv'
<1> DEFINE z == Started(f, fib[f])
<1> DEFINE n == Len(frames)
<1>1. /\ proc = "alive" /\ proc' = "alive" /\ coro.step = "idle" /\ fib[f].state = "new"
      /\ UNCHANGED <<coro, sig>> /\ origin_ctx' = n + 1 /\ fib' = [fib EXCEPT ![f] = z]
      /\ frames' = Append(frames, [by |-> "launch", fiber |-> f, save |-> origin_ctx])
  BY DEF sched_fiber_launch, Executing
<1>2. /\ Shapes /\ Creating /\ Nested
      /\ \A g \in Fibs : Made(g) /\ EventsOf(g) /\ StackOf(g)
  BY <1>1 DEF FibersInv
<1>3. fib \in [Fibs -> FiberStates] /\ fib[f] \in FiberStates /\ frames \in Seq(Calls)
      /\ origin_ctx \in Nat /\ n \in Nat
  BY <1>2 DEF Shapes
<1>4. /\ z \in FiberStates /\ z.state = "running" /\ z.stack = 1 /\ z.pending = {}
      /\ z.func = f /\ z.saved = <<f>>
  <2>0. fib[f].func = f /\ f # NoFib /\ fib[f].saved = <<f>> /\ fib[f].stack = 1 /\ fib[f].pending = {}
    BY <1>1, <1>2, FibersAssumption DEF Made, EventsOf, StackOf
  <2>1. PICK a \in FiberStates : a = [fib[f] EXCEPT !.state = "running"] /\ a.state = "running"
                                  /\ a.pending = fib[f].pending /\ a.saved = fib[f].saved
                                  /\ a.stack = fib[f].stack /\ a.func = fib[f].func
    BY <1>3, SetState
  <2>2. PICK b \in FiberStates : b = [a EXCEPT !.func = f] /\ b.func = f
                                  /\ b.state = a.state /\ b.pending = a.pending
                                  /\ b.stack = a.stack /\ b.saved = a.saved
    BY SetFunc
  <2>3. z = b
    BY <2>0, <2>1, <2>2 DEF Started
  <2> HIDE DEF z
  <2> QED
    BY <2>0, <2>1, <2>2, <2>3
<1> HIDE DEF z
<1>5. /\ fib' \in [Fibs -> FiberStates] /\ fib'[f] = z
      /\ \A g \in Fibs \ {f} : fib'[g] = fib[g]
  BY <1>1, <1>3, <1>4
<1>6. PICK c \in Calls : /\ c = [by |-> "launch", fiber |-> f, save |-> origin_ctx]
                         /\ c.by = "launch" /\ c.fiber = f /\ c.save = origin_ctx
  <2>1. [by |-> "launch", fiber |-> f, save |-> origin_ctx] \in Calls
    BY <1>3 DEF Calls
  <2> QED
    BY <2>1
<1>7. /\ frames' \in Seq(Calls) /\ Len(frames') = n + 1 /\ frames'[n + 1] = c
      /\ \A i \in 1..n : frames'[i] = frames[i]
  BY <1>1, <1>3, <1>6
<1>8. Shapes'
  BY <1>1, <1>2, <1>3, <1>5, <1>7 DEF Shapes
<1>9. Creating'
  BY <1>1, <1>2, <1>4, <1>5 DEF Creating
<1>10. \A g \in Fibs : Made(g)'
  BY <1>1, <1>2, <1>4, <1>5 DEF Made
<1>11. \A g \in Fibs : EventsOf(g)' /\ StackOf(g)'
  BY <1>2, <1>4, <1>5 DEF EventsOf, StackOf
<1>12. Nested'
  <2>1. \A i \in 1..n : frames[i].fiber \in Fibs \ {f}
    <3>1. \A i \in 1..n : frames[i] \in Calls
      BY <1>3
    <3> QED
      BY <1>1, <1>2, <3>1 DEF Nested, Calls
  <2>2. \A i \in 1..(n + 1) : i \in 1..n \/ i = n + 1
    BY <1>3
  <2>3. \A i \in 1..(n + 1) : fib'[frames'[i].fiber].state = "running"
    BY <1>2, <1>4, <1>5, <1>6, <1>7, <2>1, <2>2 DEF Nested
  <2>4. \A i, j \in 1..(n + 1) : frames'[i].fiber = frames'[j].fiber => i = j
    BY <1>2, <1>6, <1>7, <2>1, <2>2 DEF Nested
  <2>5. ASSUME NEW g \in Fibs, fib'[g].state = "running"
        PROVE  \E i \in 1..(n + 1) : frames'[i].fiber = g
    <3>1. CASE g = f
      <4>1. n + 1 \in 1..(n + 1)
        BY <1>3
      <4> QED
        BY <1>6, <1>7, <3>1, <4>1
    <3>2. CASE g # f
      <4>1. PICK i \in 1..n : frames[i].fiber = g
        BY <1>2, <1>5, <2>5, <3>2 DEF Nested
      <4>2. i \in 1..(n + 1)
        BY <1>3
      <4> QED
        BY <1>7, <4>1, <4>2
    <3> QED
      BY <3>1, <3>2
  <2>6. ASSUME NEW i \in 2..(n + 1)
        PROVE  frames'[i].by = "launch" /\ frames'[i].save = i - 1
    <3>1. CASE i = n + 1
      <4>1. frames # << >>
        BY <1>3, <3>1
      <4> QED
        BY <1>2, <1>3, <1>6, <1>7, <3>1, <4>1 DEF Nested
    <3>2. CASE i # n + 1
      <4>1. i \in 2..n /\ i \in 1..n
        BY <1>3, <3>2
      <4> QED
        BY <1>2, <1>7, <4>1 DEF Nested
    <3> QED
      BY <3>1, <3>2
  <2> QED
    BY <1>1, <1>7, <2>3, <2>4, <2>5, <2>6 DEF Nested
<1> QED
  BY <1>8, <1>9, <1>10, <1>11, <1>12 DEF FibersInv

\* An event resumes a suspended fiber, never one that has ended.
LEMMA Dispatch ==
    ASSUME FibersInv, NEW f \in Fibs, NEW e \in Events, sched_dispatch(f, e)
    PROVE  FibersInv'
<1> DEFINE z == Dispatched(fib[f], e)
<1>0. fib' = [fib EXCEPT ![f] = z]
  BY DEF sched_dispatch
<1>1. /\ proc = "alive" /\ coro.step = "idle" /\ frames = << >> /\ e \in fib[f].pending
      /\ UNCHANGED <<coro, sig>> /\ origin_ctx' = 1
      /\ frames' = <<[by |-> "dispatch", fiber |-> f, save |-> 0]>>
      /\ proc' = IF fib[f].state = "suspended" /\ fib[f].stack = 1 THEN proc ELSE "lost"
  BY DEF sched_dispatch, Executing
<1>2. /\ Shapes /\ Creating /\ Nested
      /\ \A g \in Fibs : Made(g) /\ EventsOf(g) /\ StackOf(g)
  BY <1>1 DEF FibersInv
<1>3. fib \in [Fibs -> FiberStates] /\ fib[f] \in FiberStates
  BY <1>2 DEF Shapes
<1>4. \A g \in Fibs : fib[g].state # "running"
  <2>1. 1..Len(frames) = {}
    BY <1>1
  <2> QED
    BY <1>2, <2>1 DEF Nested
<1>5. fib[f].state = "suspended" /\ fib[f].stack = 1
  <2>1. fib[f].state \in {"none", "made", "new", "running", "suspended", "gone"}
    BY <1>3 DEF FiberStates
  <2> QED
    BY <1>1, <1>2, <1>4, <2>1 DEF EventsOf, StackOf
<1>6. /\ z \in FiberStates /\ z.state = "running" /\ z.stack = 1
      /\ z.pending = fib[f].pending \ {e} /\ z.func = f /\ z.saved = <<f>>
  <2>0. fib[f].func = f /\ fib[f].saved = <<f>>
    BY <1>2, <1>5 DEF Made
  <2>1. PICK p \in SUBSET Events : p = fib[f].pending \ {e}
    BY <1>3 DEF FiberStates
  <2>2. PICK a \in FiberStates : a = [fib[f] EXCEPT !.pending = p] /\ a.pending = p
                                  /\ a.saved = fib[f].saved
                                  /\ a.stack = fib[f].stack /\ a.func = fib[f].func
    BY <1>3, SetPending
  <2>3. PICK b \in FiberStates : b = [a EXCEPT !.state = "running"] /\ b.state = "running"
                                  /\ b.func = a.func /\ b.pending = a.pending
                                  /\ b.stack = a.stack /\ b.saved = a.saved
    BY SetState
  <2>4. z = b
    BY <2>1, <2>2, <2>3 DEF Dispatched, Fired
  <2> HIDE DEF z
  <2> QED
    BY <1>5, <2>0, <2>1, <2>2, <2>3, <2>4
<1> HIDE DEF z
<1>7. /\ fib' \in [Fibs -> FiberStates] /\ fib'[f] = z
      /\ \A g \in Fibs \ {f} : fib'[g] = fib[g]
  BY <1>0, <1>3, <1>6
<1>8. PICK c \in Calls : c = [by |-> "dispatch", fiber |-> f, save |-> 0] /\ c.fiber = f
  <2>1. [by |-> "dispatch", fiber |-> f, save |-> 0] \in Calls
    BY DEF Calls
  <2> QED
    BY <2>1
<1>9. frames' \in Seq(Calls) /\ Len(frames') = 1 /\ frames'[1] = c
  BY <1>1, <1>8
<1>10. Shapes'
  BY <1>1, <1>2, <1>5, <1>7, <1>9 DEF Shapes
<1>11. Creating'
  BY <1>1, <1>2, <1>6, <1>7 DEF Creating
<1>12. \A g \in Fibs : Made(g)'
  <2>1. \A g \in Fibs : fib[g].state # "made"
    BY <1>1, <1>2 DEF Creating
  <2>2. Made(f)'
    BY <1>6, <1>7 DEF Made
  <2>3. ASSUME NEW g \in Fibs \ {f}
        PROVE  Made(g)'
    <3>1. Made(g) /\ fib[g].state # "made"
      BY <1>2, <2>1
    <3> QED
      BY <1>7, <3>1 DEF Made
  <2> QED
    BY <2>2, <2>3
<1>13. \A g \in Fibs : EventsOf(g)' /\ StackOf(g)'
  <2>1. f \notin Wakeable => fib[f].pending \ {e} = {}
    BY <1>1, <1>2, <1>5 DEF EventsOf
  <2> QED
    BY <1>2, <1>6, <1>7, <2>1 DEF EventsOf, StackOf
<1>14. Nested'
  <2>1. 1..1 = {1} /\ 2..1 = {}
    OBVIOUS
  <2> QED
    BY <1>1, <1>4, <1>6, <1>7, <1>8, <1>9, <2>1 DEF Nested
<1> QED
  BY <1>10, <1>11, <1>12, <1>13, <1>14 DEF FibersInv

\* A wake-up adds an event to a fiber that never ends.
LEMMA Wake ==
    ASSUME FibersInv, NEW g \in Fibs, async_wake(g)
    PROVE  FibersInv'
<1>1. /\ proc = "alive" /\ proc' = "alive" /\ g \in Wakeable
      /\ fib[g].state \in {"running", "suspended"}
      /\ fib' = [fib EXCEPT ![g] = Activate(fib[g])]
      /\ UNCHANGED <<frames, origin_ctx, coro, sig>>
  BY DEF async_wake, Executing
<1>2. /\ Shapes /\ Creating /\ Nested
      /\ \A f \in Fibs : Made(f) /\ EventsOf(f) /\ StackOf(f)
  BY <1>1 DEF FibersInv
<1>3. fib \in [Fibs -> FiberStates] /\ fib[g] \in FiberStates
  BY <1>2 DEF Shapes
<1>4. PICK z \in FiberStates :
        /\ z = Activate(fib[g]) /\ z.state = fib[g].state /\ z.stack = fib[g].stack
        /\ z.func = fib[g].func /\ z.saved = fib[g].saved
  <2>1. PICK p \in SUBSET Events : p = fib[g].pending \cup {"yield_event"}
    BY <1>3 DEF FiberStates, Events
  <2> QED
    BY <1>3, <2>1, SetPending DEF Activate
<1>5. /\ fib' \in [Fibs -> FiberStates]
      /\ \A f \in Fibs : /\ fib'[f].state = fib[f].state /\ fib'[f].stack = fib[f].stack
                          /\ fib'[f].func = fib[f].func /\ fib'[f].saved = fib[f].saved
      /\ \A f \in Fibs \ {g} : fib'[f] = fib[f]
  BY <1>1, <1>3, <1>4
<1>6. Shapes'
  BY <1>1, <1>2, <1>5 DEF Shapes
<1>7. Creating' /\ \A f \in Fibs : Made(f)'
  BY <1>1, <1>2, <1>5 DEF Creating, Made
<1>8. \A f \in Fibs : EventsOf(f)' /\ StackOf(f)'
  BY <1>1, <1>2, <1>5 DEF EventsOf, StackOf
<1>9. Nested'
  <2>1. \A i \in 1..Len(frames) : frames[i] \in Calls
    BY <1>2 DEF Shapes
  <2> QED
    BY <1>1, <1>2, <1>5, <2>1 DEF Nested, Calls
<1> QED
  BY <1>6, <1>7, <1>8, <1>9 DEF FibersInv

\* The running fiber suspends, with a new event if it waits for a descriptor.
LEMMA SuspendedFacts ==
    ASSUME NEW x \in FiberStates, NEW op \in {"RECV", "WRITE", "YIELD"}
    PROVE  /\ Suspended(x, op) \in FiberStates
           /\ Suspended(x, op).state = "suspended" /\ Suspended(x, op).op = op
           /\ Suspended(x, op).stack = x.stack /\ Suspended(x, op).func = x.func
           /\ Suspended(x, op).saved = x.saved /\ Suspended(x, op).pending = x.pending
<1>1. PICK a \in FiberStates : a = [x EXCEPT !.state = "suspended"] /\ a.state = "suspended"
                                /\ a.stack = x.stack /\ a.func = x.func
                                /\ a.saved = x.saved /\ a.pending = x.pending
  BY SetState
<1>0. PICK v \in {"NONE", "RECV", "WRITE", "YIELD", "FREE"} : v = op
  OBVIOUS
<1>2. PICK b \in FiberStates : b = [a EXCEPT !.op = v] /\ b.state = a.state /\ b.op = v
                                /\ b.stack = a.stack /\ b.func = a.func
                                /\ b.saved = a.saved /\ b.pending = a.pending
  <2>1. [a EXCEPT !.op = v] \in FiberStates
    BY DEF FiberStates
  <2> QED
    BY <2>1 DEF FiberStates
<1>3. Suspended(x, op) = b
  BY <1>0, <1>1, <1>2 DEF Suspended
<1> QED
  BY <1>0, <1>1, <1>2, <1>3

\* The running fiber leaves: it waits, wakes another and waits, or ends.
LEMMA LeaveStep ==
    ASSUME FibersInv, Leave
    PROVE  FibersInv'
<1>1. Executing /\ frames # << >>
  BY FibersAssumption DEF Leave, async_io, async_yield, async_continue, sched_fiber_exit, Running
<1>2. PICK r \in Fibs : r = Running /\ fib[r].state = "running"
  BY <1>1, RunningFacts DEF Executing
<1>3. /\ fib \in [Fibs -> FiberStates] /\ fib[r] \in FiberStates
      /\ EventsOf(r) /\ StackOf(r) /\ fib[r].stack = 1
  BY <1>1, <1>2 DEF FibersInv, Shapes, Executing, StackOf
<1>4. r \notin Wakeable => fib[r].pending = {}
  BY <1>2, <1>3 DEF EventsOf
<1>5. ASSUME NEW e \in {"r_event", "w_event"}, async_io(e)
      PROVE  FibersInv'
  <2>1. PICK p \in SUBSET Events : p = fib[r].pending \cup {e}
    BY <1>3 DEF FiberStates, Events
  <2>2. PICK a \in FiberStates : a = [fib[r] EXCEPT !.pending = p] /\ a.pending = p
                                  /\ a.stack = 1 /\ a.func = fib[r].func /\ a.saved = fib[r].saved
    BY <1>3, SetPending
  <2>3. PICK op \in {"RECV", "WRITE", "YIELD"} : op = OpOf(e) /\ op # "FREE"
    BY DEF OpOf
  <2>4. PICK x \in FiberStates :
          /\ x = Suspended(a, op) /\ x.state = "suspended" /\ x.op = op /\ x.stack = a.stack
          /\ x.func = a.func /\ x.saved = a.saved /\ x.pending = a.pending
    BY SuspendedFacts
  <2>5. Transfer(x, fib)
    BY <1>2, <1>5, <2>1, <2>2, <2>3, <2>4 DEF async_io
  <2>6. r \notin Wakeable => \E d \in Events : x.pending = {d}
    BY <1>4, <2>1, <2>2, <2>4 DEF Events
  <2>7. x.stack = 1 /\ x.func = fib[r].func /\ x.saved = fib[r].saved
    BY <2>2, <2>4
  <2> QED
    BY <1>1, <1>2, <1>3, <2>3, <2>4, <2>5, <2>6, <2>7, TransferStep
<1>6. ASSUME Running \in Wakeable, NEW others \in [Fibs -> FiberStates],
             \A g \in Fibs \ {r} : \/ others[g] = fib[g]
                                   \/ /\ others[g] = Activate(fib[g]) /\ g \in Wakeable
                                      /\ fib[g].state \in {"running", "suspended"},
             Transfer(Suspended(fib[Running], "YIELD"), others)
      PROVE  FibersInv'
  <2>1. PICK x \in FiberStates :
          /\ x = Suspended(fib[r], "YIELD") /\ x.state = "suspended" /\ x.op = "YIELD"
          /\ x.stack = 1 /\ x.func = fib[r].func /\ x.saved = fib[r].saved
    BY <1>3, SuspendedFacts
  <2> QED
    BY <1>1, <1>2, <1>6, <2>1, TransferStep
<1>7. CASE async_yield
  BY <1>3, <1>6, <1>7 DEF async_yield
<1>8. ASSUME NEW g \in Fibs, async_continue(g)
      PROVE  FibersInv'
  <2>1. PICK z \in FiberStates : z = Activate(fib[g])
    <3>1. PICK p \in SUBSET Events : p = fib[g].pending \cup {"yield_event"}
      BY <1>3 DEF FiberStates, Events
    <3> QED
      BY <1>3, <3>1, SetPending DEF Activate
  <2>2. PICK others \in [Fibs -> FiberStates] : others = [fib EXCEPT ![g] = z]
    BY <1>3
  <2>3. /\ Running \in Wakeable /\ g \in Wakeable /\ fib[g].state = "suspended"
        /\ Transfer(Suspended(fib[Running], "YIELD"), others)
    BY <1>8, <2>1, <2>2 DEF async_continue
  <2>4. \A f \in Fibs \ {r} : \/ others[f] = fib[f]
                              \/ /\ others[f] = Activate(fib[f]) /\ f \in Wakeable
                                 /\ fib[f].state \in {"running", "suspended"}
    BY <1>3, <2>1, <2>2, <2>3
  <2> QED
    BY <1>6, <2>3, <2>4
<1>9. CASE sched_fiber_exit
  <2>1. r \notin Wakeable /\ fib[r].pending = {}
    BY <1>2, <1>4, <1>9 DEF sched_fiber_exit
  <2>0. PICK y \in FiberStates : y = fib[r]
    BY <1>3
  <2>2. PICK a \in FiberStates : a = [y EXCEPT !.state = "gone"] /\ a.state = "gone"
                                  /\ a.stack = y.stack /\ a.func = y.func
                                  /\ a.saved = y.saved /\ a.pending = y.pending
    BY SetState
  <2>3. PICK b \in FiberStates : b = [a EXCEPT !.op = "FREE"] /\ b.op = "FREE" /\ b.state = a.state
                                  /\ b.stack = a.stack /\ b.func = a.func
                                  /\ b.saved = a.saved /\ b.pending = a.pending
    BY SetOp
  <2>4. PICK x \in FiberStates : x = [b EXCEPT !.pending = {}] /\ x.state = b.state /\ x.op = b.op
                                  /\ x.stack = b.stack /\ x.func = b.func
                                  /\ x.saved = b.saved /\ x.pending = {}
    BY SetPending
  <2>5. Exited(fib[r]) = x
    <3>1. fib[r].pending \ {"yield_event"} = {}
      BY <2>1
    <3> QED
      BY <2>0, <2>2, <2>3, <2>4, <3>1 DEF Exited
  <2>6. Transfer(x, fib)
    BY <1>2, <1>9, <2>5 DEF sched_fiber_exit
  <2>7. x.state = "gone" /\ x.op = "FREE" /\ x.stack = 1 /\ x.func = fib[r].func
        /\ x.saved = fib[r].saved /\ x.pending = {}
    BY <1>3, <2>0, <2>2, <2>3, <2>4
  <2> QED
    BY <1>1, <1>2, <1>3, <2>1, <2>6, <2>7, TransferStep
<1> QED
  BY <1>5, <1>7, <1>8, <1>9 DEF Leave

\* The process ends: what coro_create made stays.
LEMMA Delete ==
    ASSUME FibersInv, sched_fiber_delete
    PROVE  FibersInv'
<1>1. /\ Shapes /\ Creating /\ \A f \in Fibs : Made(f)
  BY DEF FibersInv
<1>2. /\ proc' = "ended" /\ UNCHANGED <<frames, origin_ctx, coro, sig>>
      /\ fib' = [f \in Fibs |-> IF fib[f].state \in {"new", "suspended"}
                                THEN [fib[f] EXCEPT !.stack = fib[f].stack - 1] ELSE fib[f]]
  BY DEF sched_fiber_delete
<1>3. ASSUME NEW f \in Fibs
      PROVE  /\ fib'[f] \in FiberStates /\ fib'[f].state = fib[f].state
             /\ fib'[f].func = fib[f].func /\ fib'[f].saved = fib[f].saved
  <2>1. fib[f] \in FiberStates
    BY <1>1 DEF Shapes
  <2>2. PICK k \in Int : k = fib[f].stack - 1
    BY <2>1 DEF FiberStates
  <2>3. PICK z \in FiberStates : z = [fib[f] EXCEPT !.stack = k] /\ z.state = fib[f].state
                                  /\ z.func = fib[f].func /\ z.saved = fib[f].saved
    BY <2>1, SetStack
  <2>4. fib'[f] = fib[f] \/ fib'[f] = z
    BY <1>2, <2>2, <2>3
  <2> QED
    BY <2>1, <2>3, <2>4
<1>4. fib' \in [Fibs -> FiberStates]
  <2>1. fib' = [f \in Fibs |-> fib'[f]]
    BY <1>2
  <2> QED
    BY <1>3, <2>1
<1>5. Shapes' /\ Creating' /\ \A f \in Fibs : Made(f)'
  BY <1>1, <1>2, <1>3, <1>4 DEF Shapes, Creating, Made
<1> QED
  BY <1>2, <1>5 DEF FibersInv

\* Before the first fiber.
LEMMA FibersInvInit == FibersInit => FibersInv
<1> SUFFICES ASSUME FibersInit PROVE FibersInv
  OBVIOUS
<1> DEFINE x == [state |-> "none", op |-> "NONE", stack |-> 0, struct |-> "kept",
                 pending |-> {}, saved |-> << >>, func |-> NoFib]
<1>1. /\ x \in FiberStates /\ x.state = "none" /\ x.stack = 0 /\ x.pending = {}
      /\ x.saved = << >> /\ x.func = NoFib
  <2>1. << >> \in Seq(Fibs \cup {NoFib})
    OBVIOUS
  <2> QED
    BY <2>1 DEF FiberStates
<1>2. fib = [f \in Fibs |-> x]
  BY DEF FibersInit
<1> HIDE DEF x
<1>3. Shapes
  <2>1. frames \in Seq(Calls)
    BY DEF FibersInit
  <2>2. coro \in CoroStates /\ sig \in SignalStates
    BY DEF FibersInit, CoroStates, SignalStates
  <2> QED
    BY <1>1, <1>2, <2>1, <2>2 DEF Shapes, FibersInit
<1>4. Creating
  BY <1>1, <1>2 DEF Creating, FibersInit
<1>5. \A f \in Fibs : Made(f) /\ EventsOf(f) /\ StackOf(f)
  BY <1>1, <1>2 DEF Made, EventsOf, StackOf
<1>6. Nested
  <2>1. 1..Len(frames) = {} /\ 2..Len(frames) = {} /\ frames = << >>
    BY DEF FibersInit
  <2> QED
    BY <1>1, <1>2, <2>1 DEF Nested
<1> QED
  BY <1>3, <1>4, <1>5, <1>6 DEF FibersInv

\* The invariant is inductive: one lemma per kind of step.
LEMMA FibersInvNext == FibersInv /\ [FibersNext]_fibersVars => FibersInv'
<1> SUFFICES ASSUME FibersInv, [FibersNext]_fibersVars PROVE FibersInv'
  OBVIOUS
<1>1. CASE UNCHANGED fibersVars
  <2>1. UNCHANGED <<frames, origin_ctx, fib, coro, sig, proc>>
    BY <1>1 DEF fibersVars
  <2>2. Shapes' /\ Creating' /\ \A f \in Fibs : Made(f)'
    BY <2>1 DEF FibersInv, Shapes, Creating, Made
  <2>3. proc' = "alive" => Nested' /\ \A f \in Fibs : EventsOf(f)' /\ StackOf(f)'
    BY <2>1 DEF FibersInv, Nested, EventsOf, StackOf
  <2> QED
    BY <2>2, <2>3 DEF FibersInv
<1>2. CASE FibersNext
  BY <1>2, NewFiber, Launch, Dispatch, Wake, LeaveStep, MaskSteps, Trampoline, CreateTransfer,
     Delivered, Delete DEF FibersNext, Resume, CreateStep
<1> QED
  BY <1>1, <1>2

\* ... and no transfer goes where it should not.
LEMMA FibersInvSound == FibersInv => TransfersSound
<1> SUFFICES ASSUME FibersInv PROVE TransfersSound
  OBVIOUS
<1>1. Shapes /\ Creating /\ \A f \in Fibs : Made(f)
  BY DEF FibersInv
<1>2. OriginIsResumer
  BY DEF FibersInv, Nested, OriginIsResumer
<1>3. ControlNotLost /\ RunsOwnFunction
  BY <1>1 DEF Shapes, Made, ControlNotLost, RunsOwnFunction
<1>4. TrampolineOnce
  <2>1. ASSUME NEW f \in Fibs
        PROVE  fib[f].saved \in CASE fib[f].state = "none" -> {<< >>}
                                  [] fib[f].state = "made" -> {<< >>, <<f>>}
                                  [] OTHER -> {<<f>>}
    BY <1>1 DEF Made
  <2>2. coro.step = "idle" => sig.handler = "default" /\ ~sig.blocked /\ sig.altstack = NoFib
    BY <1>1 DEF Creating
  <2> QED
    BY <2>1, <2>2 DEF TrampolineOnce
<1>5. StackFreedOnce
  BY DEF FibersInv, StackOf, StackFreedOnce
<1> QED
  BY <1>2, <1>3, <1>4, <1>5 DEF TransfersSound

\* However launches nest and whatever fibers end inside them, coro_transfer
\* returns to the call that resumed the fiber; no event of sched_dispatch
\* resumes a fiber that has ended; and a SIGUSR2 at any moment of coro_create
\* runs no trampoline twice: for every set of fibers.
THEOREM TransfersCorrect == FibersSpec => []TransfersSound
<1>1. FibersInit /\ [][FibersNext]_fibersVars => []FibersInv
  BY FibersInvInit, FibersInvNext, PTL
<1> QED
  BY <1>1, FibersInvSound, PTL DEF FibersSpec

----------------------------------------------------------------------------
(* The DTLS state of the peers: PeerStateSound. *)

\* No SSL that is kept has a BIO, and a BIO that is freed while its peer is
\* registered is the work of the second SSL_new.
PeerStates == [remote : Remotes, flags : SUBSET {"DTLS_DISABLE", "DTLS_ENABLE", "DTLS_SERVER"},
               bio : {"NULL", "alive", "freed"}, ssl : {"NULL", "without bio"}]
FreedIsLate == \A i \in 1..Len(udp_peers) : udp_peers[i].bio = "freed" => late_failure
DtlsInv ==
    /\ udp_ctx \in {"none", "NULL", "with key", "without key"}
    /\ daemon_state \in {"runs", "segfault", "exited"}
    /\ udp_peers \in Seq(PeerStates)
    /\ FreedIsLate /\ PeerStateSound

\* dtls_new_peer leaves no SSL with a BIO, whatever fails in it.
LEMMA RegisterStep ==
    ASSUME DtlsInv, NEW r \in Remotes, NEW flags \in SUBSET {"DTLS_DISABLE", "DTLS_ENABLE", "DTLS_SERVER"},
           RegisterPeer(r, flags), UNCHANGED <<udp_ctx, network, freed_twice>>,
           daemon_state' \in {"runs", "segfault", "exited"}
    PROVE  DtlsInv'
<1>1. PICK state \in dtls_new_peer \cup {Plain} :
        /\ udp_peers' = Append(udp_peers, Registered(r, flags, state))
        /\ late_failure' = (late_failure \/ state.bio = "freed")
  BY DEF RegisterPeer
<1>2. state.bio \in {"NULL", "alive", "freed"} /\ state.ssl \in {"NULL", "without bio"}
  <2>1. \/ state = [bio |-> "NULL", ssl |-> "NULL"] \/ state = [bio |-> "alive", ssl |-> "NULL"]
        \/ state = [bio |-> "freed", ssl |-> "NULL"]
        \/ state = [bio |-> "alive", ssl |-> "without bio"]
    <3>1. CASE udp_ctx = "NULL"
      BY <3>1 DEF dtls_new_peer, Plain
    <3>2. CASE udp_ctx # "NULL"
      BY <3>2 DEF dtls_new_peer, Plain, KeptSsl
    <3> QED
      BY <3>1, <3>2
  <2>2. CASE state = [bio |-> "NULL", ssl |-> "NULL"]
    BY <2>2
  <2>3. CASE state = [bio |-> "alive", ssl |-> "NULL"]
    BY <2>3
  <2>4. CASE state = [bio |-> "freed", ssl |-> "NULL"]
    BY <2>4
  <2>5. CASE state = [bio |-> "alive", ssl |-> "without bio"]
    BY <2>5
  <2> QED
    BY <2>1, <2>2, <2>3, <2>4, <2>5
<1>3. PICK p \in PeerStates : p = Registered(r, flags, state) /\ p.bio = state.bio
  <2>1. Registered(r, flags, state) \in PeerStates
    BY <1>2 DEF Registered, PeerStates
  <2> QED
    BY <2>1 DEF Registered
<1>4. udp_peers \in Seq(PeerStates) /\ Len(udp_peers) \in Nat
  <2>1. udp_peers \in Seq(PeerStates)
    BY DEF DtlsInv
  <2> QED
    BY <2>1
<1>5. /\ udp_peers' \in Seq(PeerStates) /\ Len(udp_peers') = Len(udp_peers) + 1
      /\ udp_peers'[Len(udp_peers) + 1] = p
      /\ \A i \in 1..Len(udp_peers) : udp_peers'[i] = udp_peers[i]
  BY <1>1, <1>3, <1>4
<1>6. FreedIsLate'
  <2>1. \A i \in 1..Len(udp_peers') : i \in 1..Len(udp_peers) \/ i = Len(udp_peers) + 1
    BY <1>4, <1>5
  <2> QED
    BY <1>1, <1>3, <1>5, <2>1 DEF DtlsInv, FreedIsLate
<1>7. PeerStateSound'
  BY <1>1 DEF DtlsInv, PeerStateSound, BiosFreedOnce, LengthsAreSound
<1> QED
  BY <1>5, <1>6, <1>7 DEF DtlsInv

\* The invariant is inductive.
LEMMA DtlsInvNext == DtlsInv /\ [DtlsNext]_dtlsVars => DtlsInv'
<1> SUFFICES ASSUME DtlsInv, [DtlsNext]_dtlsVars PROVE DtlsInv'
  OBVIOUS
<1>1. ASSUME NEW r \in Remotes, NEW flags \in {{"DTLS_DISABLE"}, {"DTLS_ENABLE"}},
             register_peer(r, flags)
      PROVE  DtlsInv'
  BY <1>1, RegisterStep DEF register_peer, DtlsInv
<1>2. ASSUME NEW i \in 1..MaxUdpPeers, dtls_sendto(i)
      PROVE  DtlsInv'
  <2>1. udp_peers[i].ssl \in {"NULL", "without bio"} /\ i \in 1..Len(udp_peers)
    <3>1. i \in 1..Len(udp_peers) /\ udp_peers \in Seq(PeerStates)
      BY <1>2 DEF dtls_sendto, DtlsInv
    <3>2. udp_peers[i] \in PeerStates
      BY <3>1
    <3> QED
      BY <3>1, <3>2 DEF PeerStates
  <2>2. /\ UNCHANGED <<udp_ctx, udp_peers, freed_twice, late_failure, network>>
        /\ daemon_state' \in {daemon_state, "segfault"}
    BY <1>2, <2>1 DEF dtls_sendto
  <2> QED
    BY <2>2 DEF DtlsInv, FreedIsLate, PeerStateSound, BiosFreedOnce, LengthsAreSound
<1>3. ASSUME NEW i \in 1..MaxUdpPeers, erase_peer(i)
      PROVE  DtlsInv'
  <2>0. udp_peers \in Seq(PeerStates)
    BY DEF DtlsInv
  <2>1. /\ i \in 1..Len(udp_peers) /\ Len(udp_peers) \in Nat
        /\ udp_peers' = [j \in 1..(Len(udp_peers) - 1) |-> udp_peers[IF j < i THEN j ELSE j + 1]]
        /\ UNCHANGED <<udp_ctx, network, freed_twice, late_failure, daemon_state>>
    BY <1>3, <2>0 DEF erase_peer
  <2>2. /\ udp_peers' \in Seq(PeerStates)
        /\ \A j \in 1..Len(udp_peers') : \E k \in 1..Len(udp_peers) : udp_peers'[j] = udp_peers[k]
    <3>1. PICK n \in Nat : n = Len(udp_peers) /\ n - 1 \in Nat /\ i \in 1..n
      BY <2>1
    <3>2. ASSUME NEW j \in 1..(n - 1)
          PROVE  \E k \in 1..n : udp_peers'[j] = udp_peers[k] /\ udp_peers[k] \in PeerStates
      BY <2>0, <2>1, <3>1
    <3>3. udp_peers' \in Seq(PeerStates) /\ Len(udp_peers') = n - 1
      <4>1. udp_peers' = [j \in 1..(n - 1) |-> udp_peers'[j]]
        BY <2>1, <3>1
      <4> QED
        BY <3>1, <3>2, <4>1
    <3> QED
      BY <3>1, <3>2, <3>3
  <2> QED
    BY <2>0, <2>1, <2>2 DEF DtlsInv, FreedIsLate, PeerStateSound, BiosFreedOnce, LengthsAreSound
<1>4. ASSUME NEW r \in Remotes, dtls_recvfrom_resumes(r)
      PROVE  DtlsInv'
  <2>1. UNCHANGED <<udp_ctx, network, freed_twice>>
    BY <1>4 DEF dtls_recvfrom_resumes
  <2>2. CASE FindPeer(r) = {}
    BY <1>4, <2>1, <2>2, RegisterStep DEF dtls_recvfrom_resumes
  <2>3. CASE FindPeer(r) # {}
    <3>1. UNCHANGED <<udp_peers, late_failure>> /\ daemon_state' \in {daemon_state, "segfault"}
      BY <1>4, <2>3 DEF dtls_recvfrom_resumes
    <3> QED
      BY <2>1, <3>1 DEF DtlsInv, FreedIsLate, PeerStateSound, BiosFreedOnce, LengthsAreSound
  <2> QED
    BY <2>2, <2>3
<1>5. CASE udp_peer_free
  <2>1. /\ udp_peers' = << >> /\ daemon_state' = "exited"
        /\ freed_twice' = \E i \in 1..Len(udp_peers) : FreesAgain(udp_peers[i])
        /\ UNCHANGED <<udp_ctx, network, late_failure>>
    BY <1>5 DEF udp_peer_free
  <2>2. \A i \in 1..Len(udp_peers) : FreesAgain(udp_peers[i]) => late_failure
    <3>0. udp_peers \in Seq(PeerStates)
      BY DEF DtlsInv
    <3>1. \A i \in 1..Len(udp_peers) : udp_peers[i] \in PeerStates
      BY <3>0
    <3> QED
      BY <3>1 DEF DtlsInv, FreedIsLate, PeerStates, FreesAgain
  <2>3. udp_peers' \in Seq(PeerStates) /\ 1..Len(udp_peers') = {}
    BY <2>1
  <2>4. PeerStateSound'
    BY <2>1, <2>2 DEF DtlsInv, PeerStateSound, BiosFreedOnce, LengthsAreSound
  <2> QED
    BY <2>1, <2>3, <2>4 DEF DtlsInv, FreedIsLate
<1>6. CASE create_udp_ctx \/ dtls_recvfrom \/ dtls_recvfrom_fails \/ UNCHANGED dtlsVars
  <2>1. /\ UNCHANGED <<udp_peers, network, freed_twice, late_failure, daemon_state>>
        /\ udp_ctx' \in {udp_ctx, "NULL", "with key", "without key"}
    BY <1>6 DEF create_udp_ctx, dtls_recvfrom, dtls_recvfrom_fails, dtlsVars
  <2> QED
    BY <2>1 DEF DtlsInv, FreedIsLate, PeerStateSound, BiosFreedOnce, LengthsAreSound
<1> QED
  BY <1>1, <1>2, <1>3, <1>4, <1>5, <1>6 DEF DtlsNext

\* Whatever fails in dtls_new_peer and whoever is registered, erased and freed
\* in whatever order, udp_peer_free frees a BIO twice only after a failure of
\* the second SSL_new, and dtls_sendto hands no length of -1 to the socket.
THEOREM PeerStateCorrect == DtlsSpec => []PeerStateSound
<1>1. DtlsInit => DtlsInv
  <2> SUFFICES ASSUME DtlsInit PROVE DtlsInv
    OBVIOUS
  <2>1. udp_peers \in Seq(PeerStates) /\ 1..Len(udp_peers) = {}
    BY DEF DtlsInit
  <2> QED
    BY <2>1 DEF DtlsInit, DtlsInv, FreedIsLate, PeerStateSound, BiosFreedOnce, LengthsAreSound
<1>2. DtlsInv => PeerStateSound
  BY DEF DtlsInv
<1> QED
  BY <1>1, <1>2, DtlsInvNext, PTL DEF DtlsSpec

-----------------------------------------------------------------------------
(* The backend with threads. *)

\* A thread that neither runs nor is about to.
Quiet(t) == th[t] \in {Now("none"), Now("ended"), Waiting(t)}
OthersQuiet(S) == \A t \in Threads \ S : Quiet(t)

\* What the thread that was named last is doing: it runs; it starts, and its
\* creator waits for it; it waits for the mutex; or it waits for a thread that
\* it destroys.
DueIsRunning == coro_mutex = due /\ th[due] = Now("running") /\ OthersQuiet({due})
DueIsStarting ==
    /\ coro_mutex = NoThread /\ th[due] = Now("starting")
    /\ \E t \in Threads : th[t] = Waiting(nctx) /\ OthersQuiet({due, t})
DueIsWoken ==
    /\ coro_mutex = NoThread /\ th[due] \in {Now("woken"), Now("relock")}
    /\ OthersQuiet({due})
DueIsJoining ==
    /\ coro_mutex = NoThread /\ th[due].state = "joining"
    /\ LET c == th[due].cv
       IN  c \in Threads \ {due} /\ th[c] \in {Now("cancelled"), Now("ended")}
           /\ OthersQuiet({due, c})
DuePhases == DueIsRunning \/ DueIsStarting \/ DueIsWoken \/ DueIsJoining

CoroThreadInv ==
    /\ CoroThreadTypeOK
    /\ RunnerHoldsMutex
    /\ spurious = 0 => DuePhases

----------------------------------------------------------------------------

\* The states of threads that the steps of coro.c write are not the same.
LEMMA ThreadStates ==
    /\ \A s, r : Now(s) = Now(r) => s = r
    /\ \A s, v : Now(s) # Waiting(v) \/ (s = "waiting" /\ v = NoThread)
    /\ \A v, w : Waiting(v) = Waiting(w) => v = w
    /\ \A s : Now(s).state = s /\ Now(s).cv = NoThread
    /\ \A v : Waiting(v).state = "waiting" /\ Waiting(v).cv = v
    /\ main \notin Coros /\ NoThread \notin Threads /\ nctx \notin Threads /\ main # nctx
<1>1. main \notin Coros /\ NoThread \notin Threads /\ nctx \notin Threads /\ main # nctx
  BY CoroThreadAssumption DEF Threads, main, NoThread, nctx
<1> QED
  BY <1>1 DEF Now, Waiting

\* At the start main runs.
LEMMA CoroThreadStarts == CoroThreadInit => CoroThreadInv
<1> SUFFICES ASSUME CoroThreadInit PROVE CoroThreadInv
  OBVIOUS
<1> USE DEF CoroThreadInit
<1>1. main \in Threads /\ NoThread \notin Threads
  BY ThreadStates DEF Threads
<1>2. CoroThreadTypeOK
  BY <1>1, CoroThreadAssumption DEF CoroThreadTypeOK, Now
<1>3. \A t \in Threads : th[t] = Now(IF t = main THEN "running" ELSE "none")
  OBVIOUS
<1>4. RunnerHoldsMutex
  BY <1>1, <1>3 DEF RunnerHoldsMutex, Now
<1>5. DueIsRunning
  BY <1>1, <1>3 DEF DueIsRunning, OthersQuiet, Quiet
<1> QED
  BY <1>2, <1>4, <1>5 DEF CoroThreadInv, DuePhases

\* What every step needs of the state it starts in.
LEMMA CoroThreadTypes ==
    ASSUME CoroThreadTypeOK
    PROVE  /\ due \in Threads /\ spurious \in Nat /\ DOMAIN th = Threads
           /\ \A t \in Threads : th[t].cv \in Threads \cup {NoThread, nctx}
  BY DEF CoroThreadTypeOK

\* A thread after a transfer by t from prev to next: t waits for prev, and a
\* thread that waited for next is woken.
After(old, t, prev, next, u) ==
    IF u = t THEN Waiting(prev) ELSE IF old = Waiting(next) THEN Now("woken") ELSE old

\* The threads after coro_create, whose new thread is starting.
LEMMA ThreadCreates ==
    ASSUME CoroThreadTypeOK, NEW t \in Threads, NEW c \in Coros, coro_create(t, c)
    PROVE  /\ DOMAIN th' = Threads /\ th' = [u \in Threads |-> th'[u]]
           /\ \A u \in Threads :
                th'[u] = After(IF u = c THEN Now("starting") ELSE th[u], t, nctx, c, u)
<1>1. c \in Threads /\ th = [u \in Threads |-> th[u]]
  BY DEF Threads, CoroThreadTypeOK
<1> QED
  BY <1>1 DEF coro_create, coro_transfer, Signalled, After

\* The threads after coro_init.
LEMMA InitStep ==
    ASSUME CoroThreadTypeOK, NEW c \in Coros, coro_init(c)
    PROVE  /\ DOMAIN th' = Threads /\ th' = [u \in Threads |-> th'[u]]
           /\ \A u \in Threads : th'[u] = After(th[u], c, c, nctx, u)
<1>1. c \in Threads
  BY DEF Threads
<1> QED
  BY <1>1 DEF coro_init, coro_transfer, Signalled, After

\* The threads after a coro_transfer that the running thread calls.
LEMMA ThreadTransfers ==
    ASSUME CoroThreadTypeOK, NEW t \in Threads, NEW next \in Threads, transfer(t, next)
    PROVE  /\ DOMAIN th' = Threads /\ th' = [u \in Threads |-> th'[u]]
           /\ \A u \in Threads : th'[u] = After(th[u], t, t, next, u)
  BY DEF transfer, coro_transfer, Signalled, After

\* The states that a step writes are states of a thread.
LEMMA AfterType ==
    ASSUME NEW S, NEW t, NEW prev, NEW next, NEW u, NEW old \in S,
           Waiting(prev) \in S, Now("woken") \in S
    PROVE  After(old, t, prev, next, u) \in S
  BY DEF After

ThreadRecords == [state : {"none", "starting", "waiting", "woken", "running", "cancelled",
                           "joining", "relock", "ended"},
                  cv : Threads \cup {NoThread, nctx}]

\* The types are kept by every step.
LEMMA CoroThreadTypesKept ==
    CoroThreadTypeOK /\ [CoroThreadNext]_coroThreadVars => CoroThreadTypeOK'
<1> SUFFICES ASSUME CoroThreadTypeOK, [CoroThreadNext]_coroThreadVars
             PROVE  CoroThreadTypeOK'
  OBVIOUS
<1> DEFINE R == ThreadRecords
<1>1. /\ th \in [Threads -> R] /\ due \in Threads /\ spurious \in 0..MaxSpurious
      /\ coro_mutex \in Threads \cup {NoThread} /\ MaxSpurious \in Nat
  BY CoroThreadAssumption DEF CoroThreadTypeOK, ThreadRecords
<1>2. ASSUME th' \in [Threads -> R], due' \in Threads, spurious' \in 0..MaxSpurious,
             coro_mutex' \in Threads \cup {NoThread}
      PROVE  CoroThreadTypeOK'
  BY <1>2 DEF CoroThreadTypeOK, ThreadRecords
<1>3. /\ Coros \subseteq Threads
      /\ \A s \in {"none", "starting", "waiting", "woken", "running", "cancelled", "joining",
                   "relock", "ended"} : Now(s) \in R
      /\ \A v \in Threads \cup {NoThread, nctx} : Waiting(v) \in R
      /\ \A v \in Threads : [state |-> "joining", cv |-> v] \in R
  BY DEF Threads, Now, Waiting, ThreadRecords
<1> HIDE DEF R
<1>4. ASSUME NEW t \in Threads, NEW c \in Coros, coro_create(t, c) PROVE CoroThreadTypeOK'
  <2>1. \A u \in Threads : th'[u] \in R
    BY <1>1, <1>3, <1>4, ThreadCreates, AfterType
  <2>2. th' \in [Threads -> R]
    BY <2>1, <1>4, ThreadCreates
  <2> QED
    BY <2>2, <1>1, <1>2, <1>3, <1>4 DEF coro_create, coro_transfer
<1>5. ASSUME NEW t \in Threads, NEW c \in Coros, coro_destroy(t, c) PROVE CoroThreadTypeOK'
  BY <1>1, <1>2, <1>3, <1>5 DEF coro_destroy, Unlocked
<1>6. ASSUME NEW t \in Threads, NEW next \in Threads, transfer(t, next)
      PROVE  CoroThreadTypeOK'
  <2>1. \A u \in Threads : th'[u] \in R
    BY <1>1, <1>3, <1>6, ThreadTransfers, AfterType
  <2>2. th' \in [Threads -> R]
    BY <2>1, <1>6, ThreadTransfers
  <2> QED
    BY <2>2, <1>1, <1>2, <1>3, <1>6 DEF transfer, coro_transfer
<1>7. ASSUME NEW t \in Threads, spurious_wakeup(t) PROVE CoroThreadTypeOK'
  BY <1>1, <1>2, <1>3, <1>7 DEF spurious_wakeup
<1>8. ASSUME NEW c \in Coros, coro_init(c) PROVE CoroThreadTypeOK'
  <2>1. \A u \in Threads : th'[u] \in R
    BY <1>1, <1>3, <1>8, InitStep, AfterType
  <2>2. th' \in [Threads -> R]
    BY <2>1, <1>8, InitStep
  <2>3. due' \in Threads
    BY <1>1, <1>8 DEF coro_init
  <2> QED
    BY <2>2, <2>3, <1>1, <1>2, <1>3, <1>8 DEF coro_init, coro_transfer
<1>9. ASSUME NEW c \in Coros, cancelled(c) PROVE CoroThreadTypeOK'
  BY <1>1, <1>2, <1>3, <1>9 DEF cancelled, mutex_unlock_wrapper
<1>10. ASSUME NEW t \in Threads, wait_returns(t) \/ joined(t) PROVE CoroThreadTypeOK'
  BY <1>1, <1>2, <1>3, <1>10 DEF wait_returns, joined
<1>11. CASE UNCHANGED coroThreadVars
  BY <1>1, <1>2, <1>11 DEF coroThreadVars
<1> QED
  BY <1>4, <1>5, <1>6, <1>7, <1>8, <1>9, <1>10, <1>11 DEF CoroThreadNext, Advance

\* Who runs has the mutex, after every step.
LEMMA MutexKept ==
    CoroThreadTypeOK /\ RunnerHoldsMutex /\ [CoroThreadNext]_coroThreadVars
        => RunnerHoldsMutex'
<1> SUFFICES ASSUME CoroThreadTypeOK, RunnerHoldsMutex, [CoroThreadNext]_coroThreadVars
             PROVE  RunnerHoldsMutex'
  OBVIOUS
<1>1. /\ NoThread \notin Threads /\ Coros \subseteq Threads
      /\ DOMAIN th = Threads
      /\ \A t \in Threads : th[t].state = "running" <=> coro_mutex = t
  BY ThreadStates DEF Threads, CoroThreadTypeOK, RunnerHoldsMutex
<1>2. ASSUME coro_mutex' = NoThread, \A u \in Threads : th'[u].state # "running"
      PROVE  RunnerHoldsMutex'
  BY <1>1, <1>2 DEF RunnerHoldsMutex
<1>3. \A old, t, prev, next, u :
        After(old, t, prev, next, u).state = "running" => u # t /\ old.state = "running"
  BY ThreadStates DEF After
<1>4. ASSUME NEW t \in Threads, NEW c \in Coros, coro_create(t, c) PROVE RunnerHoldsMutex'
  <2>1. coro_mutex = t /\ coro_mutex' = NoThread
    BY <1>4 DEF coro_create, coro_transfer
  <2>2. \A u \in Threads : th'[u].state # "running"
    BY <1>1, <1>3, <1>4, <2>1, ThreadCreates, ThreadStates
  <2> QED
    BY <2>1, <2>2, <1>2
<1>5. ASSUME NEW t \in Threads, NEW c \in Coros, coro_destroy(t, c) PROVE RunnerHoldsMutex'
  BY <1>1, <1>2, <1>5, ThreadStates DEF coro_destroy, Unlocked
<1>6. ASSUME NEW t \in Threads, NEW next \in Threads, transfer(t, next)
      PROVE  RunnerHoldsMutex'
  <2>1. coro_mutex = t /\ coro_mutex' = NoThread
    BY <1>6 DEF transfer, coro_transfer
  <2>2. \A u \in Threads : th'[u].state # "running"
    BY <1>1, <1>3, <1>6, <2>1, ThreadTransfers
  <2> QED
    BY <2>1, <2>2, <1>2
<1>7. ASSUME NEW t \in Threads, spurious_wakeup(t) PROVE RunnerHoldsMutex'
  BY <1>1, <1>7, ThreadStates DEF spurious_wakeup, RunnerHoldsMutex
<1>8. ASSUME NEW c \in Coros, coro_init(c) PROVE RunnerHoldsMutex'
  <2>1. coro_mutex = NoThread /\ coro_mutex' = NoThread
    BY <1>8 DEF coro_init, coro_transfer
  <2>2. \A u \in Threads : th'[u].state # "running"
    BY <1>1, <1>3, <1>8, <2>1, InitStep
  <2> QED
    BY <2>1, <2>2, <1>2
<1>9. ASSUME NEW c \in Coros, cancelled(c) PROVE RunnerHoldsMutex'
  BY <1>1, <1>2, <1>9, ThreadStates DEF cancelled, mutex_unlock_wrapper
<1>10. ASSUME NEW t \in Threads, wait_returns(t) \/ joined(t) PROVE RunnerHoldsMutex'
  BY <1>1, <1>10, ThreadStates DEF wait_returns, joined, RunnerHoldsMutex
<1>11. CASE UNCHANGED coroThreadVars
  BY <1>11 DEF coroThreadVars, RunnerHoldsMutex
<1> QED
  BY <1>4, <1>5, <1>6, <1>7, <1>8, <1>9, <1>10, <1>11 DEF CoroThreadNext, Advance

\* While no wait ended by itself, every step leads from a phase to a phase.
LEMMA PhasesKept ==
    CoroThreadInv /\ [CoroThreadNext]_coroThreadVars /\ spurious' = 0 => DuePhases'
<1> SUFFICES ASSUME CoroThreadInv, [CoroThreadNext]_coroThreadVars, spurious' = 0
             PROVE  DuePhases'
  OBVIOUS
<1> USE ThreadStates
<1>1. /\ Coros \subseteq Threads /\ DOMAIN th = Threads /\ due \in Threads
      /\ spurious \in Nat
      /\ CoroThreadTypeOK
  BY CoroThreadTypes DEF CoroThreadInv, Threads
<1>2. spurious = 0 /\ DuePhases
  <2>1. spurious' = spurious \/ spurious' = spurious + 1
    BY DEF CoroThreadNext, Advance, coro_create, coro_destroy, transfer, spurious_wakeup,
           coro_init, cancelled, wait_returns, joined, coroThreadVars
  <2> QED
    BY <2>1, <1>1 DEF CoroThreadInv
<1>3. ASSUME NEW t \in Threads, coro_mutex = t
      PROVE  due = t /\ th[t] = Now("running") /\ \A u \in Threads \ {t} : Quiet(u)
  BY <1>2, <1>3 DEF DuePhases, DueIsRunning, DueIsStarting, DueIsWoken, DueIsJoining,
                    OthersQuiet
<1>4. ASSUME NEW t \in Threads, NEW c \in Coros, coro_create(t, c) PROVE DuePhases'
  <2>1. /\ coro_mutex = t /\ th[c] = Now("none") /\ coro_mutex' = NoThread /\ due' = c
        /\ c \in Threads
    BY <1>1, <1>4 DEF coro_create, coro_transfer
  <2>2. t # c /\ due = t /\ \A u \in Threads \ {t} : Quiet(u)
    BY <1>3, <2>1
  <2>3. th'[c] = Now("starting") /\ th'[t] = Waiting(nctx)
    BY <1>1, <1>4, <2>1, <2>2, ThreadCreates DEF After
  <2>4. ASSUME NEW u \in Threads \ {c, t} PROVE Quiet(u)'
    <3>1. th[u] # Waiting(c) /\ th[u] \in {Now("none"), Now("ended"), Waiting(u)}
      BY <2>2 DEF Quiet
    <3>2. th'[u] = th[u]
      BY <3>1, <1>1, <1>4, ThreadCreates DEF After
    <3> QED
      BY <3>1, <3>2 DEF Quiet
  <2> QED
    BY <2>1, <2>3, <2>4 DEF DuePhases, DueIsStarting, OthersQuiet
<1>5. ASSUME NEW t \in Threads, NEW c \in Coros, t # c, coro_destroy(t, c) PROVE DuePhases'
  <2>1. /\ coro_mutex = t /\ coro_mutex' = NoThread /\ due' = t /\ c \in Threads
        /\ th' = [th EXCEPT ![c] = Now("cancelled"), ![t] = [state |-> "joining", cv |-> c]]
    BY <1>1, <1>5 DEF coro_destroy, Unlocked
  <2>2. \A u \in Threads \ {t} : Quiet(u)
    BY <1>3, <2>1
  <2>3. /\ th'[t] = [state |-> "joining", cv |-> c] /\ th'[c] = Now("cancelled")
        /\ \A u \in Threads \ {t, c} : th'[u] = th[u]
    BY <1>1, <1>5, <2>1
  <2>4. OthersQuiet({t, c})'
    BY <2>2, <2>3 DEF OthersQuiet, Quiet
  <2>5. due' = t /\ th'[due'].state = "joining" /\ th'[due'].cv = c
    BY <2>1, <2>3
  <2>6. OthersQuiet({due, th[due].cv})'
    BY <2>4, <2>5 DEF OthersQuiet
  <2> QED
    BY <1>5, <2>1, <2>3, <2>5, <2>6 DEF DuePhases, DueIsJoining
<1>6. ASSUME NEW t \in Threads, NEW next \in Threads, t # next, transfer(t, next)
      PROVE  DuePhases'
  <2>1. coro_mutex = t /\ th[next] = Waiting(next) /\ coro_mutex' = NoThread /\ due' = next
    BY <1>6 DEF transfer, coro_transfer
  <2>2. \A u \in Threads \ {t} : Quiet(u)
    BY <1>3, <2>1
  <2>3. th'[next] = Now("woken") /\ th'[t] = Waiting(t)
    BY <1>1, <1>6, <2>1, ThreadTransfers DEF After
  <2>4. ASSUME NEW u \in Threads \ {next} PROVE Quiet(u)'
    <3>1. CASE u = t
      BY <3>1, <2>3 DEF Quiet
    <3>2. CASE u # t
      <4>1. th[u] # Waiting(next) /\ th[u] \in {Now("none"), Now("ended"), Waiting(u)}
        BY <2>2, <3>2 DEF Quiet
      <4>2. th'[u] = th[u]
        BY <4>1, <3>2, <1>1, <1>6, ThreadTransfers DEF After
      <4> QED
        BY <4>1, <4>2 DEF Quiet
    <3> QED
      BY <3>1, <3>2
  <2> QED
    BY <2>1, <2>3, <2>4 DEF DuePhases, DueIsWoken, OthersQuiet
<1>7. ASSUME NEW t \in Threads, spurious_wakeup(t) PROVE DuePhases'
  BY <1>2, <1>7 DEF spurious_wakeup
<1>8. ASSUME NEW c \in Coros, coro_init(c) PROVE DuePhases'
  <2>1. coro_mutex = NoThread /\ th[c] = Now("starting") /\ coro_mutex' = NoThread /\ c \in Threads
    BY <1>1, <1>8 DEF coro_init, coro_transfer
  <2>2. due = c /\ \E t \in Threads : th[t] = Waiting(nctx) /\ OthersQuiet({due, t})
    BY <1>1, <1>2, <2>1 DEF DuePhases, DueIsRunning, DueIsStarting, DueIsWoken, DueIsJoining,
                            OthersQuiet, Quiet
  <2>3. PICK t \in Threads : th[t] = Waiting(nctx) /\ OthersQuiet({c, t})
    BY <2>2
  <2>4. t # c /\ \A u \in Threads \ {t} : th[u] # Waiting(nctx)
    BY <2>1, <2>3 DEF OthersQuiet, Quiet
  <2>5. {u \in Threads : th[u] = Waiting(nctx)} = {t}
    BY <2>3, <2>4
  <2>6. due' = t
    BY <2>5, <1>8 DEF coro_init
  <2>7. /\ th'[c] = Waiting(c) /\ th'[t] = Now("woken")
        /\ \A u \in Threads \ {c, t} : th'[u] = th[u]
    BY <2>1, <2>3, <2>4, <1>1, <1>8, InitStep DEF After
  <2>8. OthersQuiet({t})'
    BY <2>3, <2>7 DEF OthersQuiet, Quiet
  <2> QED
    BY <2>1, <2>6, <2>7, <2>8 DEF DuePhases, DueIsWoken
<1>9. ASSUME NEW c \in Coros, cancelled(c) PROVE DuePhases'
  <2>1. /\ coro_mutex = NoThread /\ th[c] = Now("cancelled") /\ c \in Threads
        /\ coro_mutex' = NoThread /\ due' = due
        /\ th' = [th EXCEPT ![c] = Now("ended")]
    BY <1>1, <1>9 DEF cancelled, mutex_unlock_wrapper
  <2>2. DueIsJoining /\ th[due].cv = c
    BY <1>1, <1>2, <2>1 DEF DuePhases, DueIsRunning, DueIsStarting, DueIsWoken, DueIsJoining,
                            OthersQuiet, Quiet
  <2>3. due # c /\ th[due].state = "joining" /\ OthersQuiet({due, c})
    BY <2>2 DEF DueIsJoining
  <2>4. th'[c] = Now("ended") /\ \A u \in Threads \ {c} : th'[u] = th[u]
    BY <1>1, <2>1
  <2>5. OthersQuiet({due, c})' /\ th'[due] = th[due]
    BY <1>1, <2>1, <2>3, <2>4 DEF OthersQuiet, Quiet
  <2> QED
    BY <1>1, <2>1, <2>2, <2>3, <2>4, <2>5 DEF DuePhases, DueIsJoining
<1>10. ASSUME NEW t \in Threads, wait_returns(t) PROVE DuePhases'
  <2>1. /\ coro_mutex = NoThread /\ th[t].state \in {"woken", "relock"}
        /\ coro_mutex' = t /\ due' = due
        /\ th' = [th EXCEPT ![t] = Now("running")]
    BY <1>10 DEF wait_returns
  <2>2. DueIsWoken /\ due = t
    BY <1>1, <1>2, <2>1 DEF DuePhases, DueIsRunning, DueIsStarting, DueIsWoken, DueIsJoining,
                            OthersQuiet, Quiet
  <2>3. th'[t] = Now("running") /\ \A u \in Threads \ {t} : th'[u] = th[u] /\ Quiet(u)
    BY <1>1, <2>1, <2>2 DEF DueIsWoken, OthersQuiet
  <2> QED
    BY <2>1, <2>2, <2>3 DEF DuePhases, DueIsRunning, OthersQuiet, Quiet
<1>11. ASSUME NEW t \in Threads, joined(t) PROVE DuePhases'
  <2>1. /\ th[t].state = "joining" /\ th[th[t].cv] = Now("ended")
        /\ coro_mutex' = coro_mutex /\ due' = due
        /\ th' = [th EXCEPT ![t] = Now("relock")]
    BY <1>11 DEF joined
  <2>2. DueIsJoining /\ due = t
    BY <1>1, <1>2, <2>1 DEF DuePhases, DueIsRunning, DueIsStarting, DueIsWoken, DueIsJoining,
                            OthersQuiet, Quiet
  <2>3. /\ coro_mutex = NoThread
        /\ th'[t] = Now("relock") /\ \A u \in Threads \ {t} : th'[u] = th[u] /\ Quiet(u)
    BY <1>1, <2>1, <2>2 DEF DueIsJoining, OthersQuiet, Quiet
  <2> QED
    BY <2>1, <2>2, <2>3 DEF DuePhases, DueIsWoken, OthersQuiet, Quiet
<1>12. CASE UNCHANGED coroThreadVars
  BY <1>2, <1>12 DEF coroThreadVars, DuePhases, DueIsRunning, DueIsStarting, DueIsWoken,
                     DueIsJoining, OthersQuiet, Quiet
<1> QED
  BY <1>4, <1>5, <1>6, <1>7, <1>8, <1>9, <1>10, <1>11, <1>12 DEF CoroThreadNext, Advance

\* coro_mutex is held by the thread that runs and, unless a wait ended by
\* itself, that is the one the last transfer named.
LEMMA ThreadsTakeTurns == CoroThreadSpec => [](CoroThreadTypeOK /\ RunnerHoldsMutex /\ DueRuns)
<1>1. CoroThreadInv /\ [CoroThreadNext]_coroThreadVars => CoroThreadInv'
  BY CoroThreadTypesKept, MutexKept, PhasesKept DEF CoroThreadInv
<1>2. CoroThreadInv => CoroThreadTypeOK /\ RunnerHoldsMutex /\ DueRuns
  BY DEF CoroThreadInv, DueRuns, DuePhases, DueIsRunning, DueIsStarting, DueIsWoken,
         DueIsJoining
<1> QED
  BY <1>1, <1>2, CoroThreadStarts, PTL DEF CoroThreadSpec

-----------------------------------------------------------------------------
(* The backends that switch stacks. *)

\* What the second part of a word may be.
RegisterNames == {"rbp", "rbx", "r12", "r13", "r14", "r15", "rsi", "rdi",
                  "ebp", "ebx", "esi", "edi", "fs:0", "fs:8", "fs:c", "preserved"}
Labels == RegisterNames \cup {"return address", "call", "abort", "coro_init", "0", "base", "limit"}
Words == (Flows \cup {"code"}) \X Labels

\* The registers that a flow must find unchanged.
Preserved(b) == Registers(b) \ TibRegisters(b)

\* The context c and the stack s of a flow f that was left with the stack
\* base: the assembler has pushed the return address and the registers.
Holds(b, f, c, s, base) ==
    /\ c.flow = f /\ c.sp = Len(s)
    /\ IF b \in Assembler
       THEN /\ Len(s) = Len(base) + 1 + Len(Pushed(b))
            /\ \A i \in 1..Len(base) : s[i] = base[i]
            /\ s[Len(base) + 1] = Ret(f)
            /\ \A i \in 1..Len(Pushed(b)) :
                 Pushed(b)[i] \in Preserved(b) => s[Len(base) + 1 + i] = <<f, Pushed(b)[i]>>
       ELSE /\ s = base /\ c.pc = Ret(f)
            /\ c.regs \in [Registers(b) -> Words]
            /\ \A r \in Preserved(b) : c.regs[r] = <<f, r>>

Base(f) == Bottom(backend, f) \o [i \in 1..depth[f] |-> Call(f)]

SetAside(c, f) == depth[f] > 0 /\ Holds(backend, f, ctx[c], stk[f], Base(f))
Fresh(f) == f \in Coroutines /\ stk[f] = << >> /\ ctx[f].flow = "none" /\ depth[f] = 0
Asleep(f) == Fresh(f) \/ SetAside(f, f)

ContextTypes ==
    /\ backend \in Backends
    /\ cpu \in [flow : Flows, pc : Words, regs : [Registers(backend) -> Words]]
    /\ stk \in [Flows -> Seq(Words)]
    /\ ctx \in [Contexts -> [flow : Flows \cup {"none"}, sp : Nat,
                             regs : {<< >>} \cup [Registers(backend) -> Words], pc : Words]]
    /\ depth \in [Flows -> 0..MaxDepth]

\* The flow that runs has a call, and each other flow can go on from its own
\* context or is not created.
OneRuns == Runs => depth[cpu.flow] > 0 /\ \A f \in Flows \ {cpu.flow} : Asleep(f)

\* While a new flow enters coro_init, its creator is in create_coro.
Entering ==
    cpu.pc = Code("coro_init") =>
        /\ cpu.flow \in Coroutines /\ depth[cpu.flow] = 0
        /\ \E g \in Flows \ {cpu.flow} :
             /\ SetAside("create_coro", g)
             /\ \A f \in Flows \ {cpu.flow, g} : Asleep(f)

ContextInv == ContextTypes /\ RegistersKept /\ StackKept /\ OneRuns /\ Entering

----------------------------------------------------------------------------

\* What is pushed: the registers and the words of the thread information block.
LEMMA PushedLemma ==
    ASSUME NEW b \in Assembler
    PROVE  /\ Pushed(b) \in Seq(RegisterNames) /\ Tib(b) \in Seq(RegisterNames)
           /\ Len(Pushed(b)) \in Nat
           /\ Tib(b) = << >> => NUM_SAVED(b) = Len(Pushed(b))
           /\ Tib(b) # << >> => Len(Pushed(b)) - 3 \in Nat /\ NUM_SAVED(b) = Len(Pushed(b)) - 3
<1> DEFINE N == RegisterNames
<1>0. {"rbp", "rbx", "r12", "r13", "r14", "r15", "rsi", "rdi", "ebp", "ebx", "esi", "edi",
       "fs:0", "fs:8", "fs:c"} \subseteq N
  BY DEF RegisterNames
<1> HIDE DEF N
<1>1. PICK s \in Seq(N) : Pushed(b) = s \o Tib(b)
  <2>1. /\ <<"rbp", "rbx", "r12", "r13", "r14", "r15">> \in Seq(N)
        /\ <<"rsi", "rdi", "rbp", "rbx", "r12", "r13", "r14", "r15">> \in Seq(N)
        /\ <<"ebp", "ebx", "esi", "edi">> \in Seq(N)
    BY <1>0
  <2> QED
    BY <2>1 DEF Pushed
<1>2. \/ Tib(b) = << >> /\ Len(Tib(b)) = 0
      \/ Tib(b) # << >> /\ Len(Tib(b)) = 3
  BY DEF Tib
<1>3. Tib(b) \in Seq(N)
  BY <1>0 DEF Tib
<1>4. Len(Pushed(b)) = Len(s) + Len(Tib(b)) /\ Len(s) \in Nat /\ Pushed(b) \in Seq(N)
  BY <1>1, <1>3
<1>5. /\ Len(Pushed(b)) \in Nat
      /\ Tib(b) = << >> => NUM_SAVED(b) = Len(Pushed(b))
      /\ Tib(b) # << >> => Len(Pushed(b)) - 3 \in Nat /\ NUM_SAVED(b) = Len(Pushed(b)) - 3
  <2>1. CASE Tib(b) = << >> /\ Len(Tib(b)) = 0
    BY <2>1, <1>4 DEF NUM_SAVED
  <2>2. CASE Tib(b) # << >> /\ Len(Tib(b)) = 3
    <3>1. Len(Pushed(b)) = Len(s) + 3 /\ NUM_SAVED(b) = Len(Pushed(b)) - 3
      BY <2>2, <1>4 DEF NUM_SAVED
    <3> QED
      BY <3>1, <2>2, <1>4
  <2> QED
    BY <2>1, <2>2, <1>2
<1> QED
  BY <1>3, <1>4, <1>5 DEF N

\* The registers are popped in the reverse order.
LEMMA PoppedLemma ==
    ASSUME NEW b \in Assembler
    PROVE  /\ Len(Popped(b)) = Len(Pushed(b))
           /\ \A i \in 1..Len(Pushed(b)) : Popped(b)[i] = Pushed(b)[Len(Pushed(b)) + 1 - i]
           /\ Registers(b) = {Pushed(b)[i] : i \in 1..Len(Pushed(b))}
  BY PushedLemma DEF Popped, Registers

\* Only the assembler knows of the thread information block.
LEMMA JumpingLemma ==
    ASSUME NEW b \in Backends, b \notin Assembler
    PROVE  Registers(b) = {"preserved"} /\ TibRegisters(b) = {} /\ Preserved(b) = Registers(b)
<1>1. Registers(b) = {"preserved"}
  BY DEF Registers
<1>2. Tib(b) = << >>
  BY DEF Tib, Assembler
<1>3. TibRegisters(b) = {}
  BY <1>2 DEF TibRegisters
<1> QED
  BY <1>1, <1>3 DEF Preserved

\* A few words at the top of a new stack are not used.
LEMMA AdjustedLemma ==
    ASSUME NEW b
    PROVE  Adjusted(b) \in Nat /\ Adjusted(b) > 0
  BY DEF Adjusted

\* The words that the backends put on a stack.
LEMMA WordsLemma ==
    /\ \A f \in Flows : Ret(f) \in Words /\ Call(f) \in Words
    /\ \A f \in Flows : <<f, "base">> \in Words /\ <<f, "limit">> \in Words
    /\ NullWord \in Words /\ Code("abort") \in Words /\ Code("coro_init") \in Words
    /\ \A b \in Backends, f \in Flows : \A r \in Registers(b) : <<f, r>> \in Words
<1>1. \A x \in Flows \cup {"code"}, y \in Labels : <<x, y>> \in Words
  BY DEF Words
<1>2. {"return address", "call", "abort", "coro_init", "0", "base", "limit"} \subseteq Labels
  BY DEF Labels
<1>3. ASSUME NEW b \in Backends PROVE Registers(b) \subseteq Labels
  <2>1. CASE b \in Assembler
    <3>1. Registers(b) = {Pushed(b)[i] : i \in 1..Len(Pushed(b))} /\ Pushed(b) \in Seq(RegisterNames)
      BY <2>1, PoppedLemma, PushedLemma
    <3>2. Registers(b) \subseteq RegisterNames
      BY <3>1
    <3> QED
      BY <3>2 DEF Labels
  <2>2. CASE b \notin Assembler
    BY <2>2, JumpingLemma DEF Labels, RegisterNames
  <2> QED
    BY <2>1, <2>2
<1>4. \A f \in Flows : Ret(f) \in Words /\ Call(f) \in Words
  BY <1>1, <1>2 DEF Ret, Call
<1>5. \A f \in Flows : <<f, "base">> \in Words /\ <<f, "limit">> \in Words
  BY <1>1, <1>2
<1>6. NullWord \in Words /\ Code("abort") \in Words /\ Code("coro_init") \in Words
  BY <1>1, <1>2 DEF NullWord, Code
<1>7. \A b \in Backends, f \in Flows : \A r \in Registers(b) : <<f, r>> \in Words
  BY <1>1, <1>3
<1> QED
  BY <1>4, <1>5, <1>6, <1>7

ContextRecords(b) == [flow : Flows \cup {"none"}, sp : Nat,
                      regs : {<< >>} \cup [Registers(b) -> Words], pc : Words]

\* A flow that is left with its registers can go on from what was saved.
LEMMA SaveLemma ==
    ASSUME NEW b \in Backends, NEW f \in Flows, NEW regs \in [Registers(b) -> Words],
           \A r \in Preserved(b) : regs[r] = <<f, r>>, NEW base \in Seq(Words)
    PROVE  LET v == Save(b, f, regs, base)
           IN  /\ v.stack \in Seq(Words) /\ v.ctx \in ContextRecords(b)
               /\ Holds(b, f, v.ctx, v.stack, base)
<1> DEFINE v == Save(b, f, regs, base)
<1>0. Ret(f) \in Words /\ NullWord \in Words
  BY WordsLemma
<1>1. CASE b \in Assembler
  <2> DEFINE n == Len(Pushed(b))
             t == [i \in 1..n |-> regs[Pushed(b)[i]]]
             s == base \o <<Ret(f)>> \o t
  <2>1. n \in Nat /\ \A i \in 1..n : Pushed(b)[i] \in Registers(b)
    BY <1>1, PushedLemma, PoppedLemma
  <2> HIDE DEF n
  <2>2. t \in Seq(Words) /\ Len(t) = n /\ \A i \in 1..n : t[i] = regs[Pushed(b)[i]]
    BY <2>1
  <2> HIDE DEF t
  <2>3. base \o <<Ret(f)>> \in Seq(Words) /\ Len(base \o <<Ret(f)>>) = Len(base) + 1
    BY <1>0
  <2>4. /\ s \in Seq(Words) /\ Len(s) = Len(base) + 1 + n
        /\ \A i \in 1..Len(base) : s[i] = base[i]
        /\ s[Len(base) + 1] = Ret(f)
        /\ \A i \in 1..n : s[Len(base) + 1 + i] = t[i]
    BY <1>0, <2>1, <2>2, <2>3
  <2>5. /\ v.stack = s
        /\ v.ctx = [flow |-> f, sp |-> Len(s), regs |-> regs, pc |-> NullWord]
    BY <1>1 DEF Save, t, n
  <2> HIDE DEF s, v
  <2>6. v.ctx \in ContextRecords(b)
    BY <1>0, <2>4, <2>5 DEF ContextRecords
  <2>7. \A i \in 1..n : Pushed(b)[i] \in Preserved(b) => s[Len(base) + 1 + i] = <<f, Pushed(b)[i]>>
    BY <2>1, <2>2, <2>4
  <2>8. v.ctx.flow = f /\ v.ctx.sp = Len(s)
    BY <2>5
  <2>9. Holds(b, f, v.ctx, s, base)
    BY <1>1, <2>4, <2>7, <2>8 DEF Holds, n
  <2> QED
    BY <2>4, <2>5, <2>6, <2>9 DEF v
<1>2. CASE b \notin Assembler
  <2>1. /\ v.stack = base
        /\ v.ctx = [flow |-> f, sp |-> Len(base), regs |-> regs, pc |-> Ret(f)]
    BY <1>2 DEF Save
  <2> HIDE DEF v
  <2>2. v.ctx \in ContextRecords(b)
    BY <1>0, <2>1 DEF ContextRecords
  <2>3. Holds(b, f, v.ctx, base, base)
    BY <1>2, <2>1 DEF Holds
  <2> QED
    BY <2>1, <2>2, <2>3 DEF v
<1> QED
  BY <1>1, <1>2

\* What the pops make of a stack s with m words below the return address.
Pops(b, c, s, m) ==
    LET v == Load(b, c, s)
    IN  /\ v.cpu = [flow |-> c.flow, pc |-> s[m + 1], regs |-> v.cpu.regs]
        /\ v.cpu.regs \in [Registers(b) -> Words]
        /\ \A r \in Registers(b) :
             \E i \in 1..Len(Pushed(b)) : Pushed(b)[i] = r /\ v.cpu.regs[r] = s[m + 1 + i]
        /\ v.stack = SubSeq(s, 1, m)

\* The pops of the assembler find each register where it was pushed.
LEMMA PopsLemma ==
    ASSUME NEW b \in Assembler, NEW c, NEW s \in Seq(Words), NEW m \in Nat,
           c.sp = Len(s), Len(s) = m + 1 + Len(Pushed(b))
    PROVE  Pops(b, c, s, m)
<1> DEFINE v == Load(b, c, s)
           n == Len(Popped(b))
           pos == [r \in Registers(b) |-> CHOOSE i \in 1..n : Popped(b)[i] = r]
           regs == [r \in Registers(b) |-> s[c.sp + 1 - pos[r]]]
<1>1. /\ n \in Nat /\ n = Len(Pushed(b))
      /\ \A i \in 1..n : Popped(b)[i] = Pushed(b)[n + 1 - i]
      /\ Registers(b) = {Pushed(b)[i] : i \in 1..n}
  BY PushedLemma, PoppedLemma
<1>2. /\ v.cpu = [flow |-> c.flow, pc |-> s[c.sp - n], regs |-> regs]
      /\ v.stack = SubSeq(s, 1, c.sp - n - 1)
  BY DEF Load
<1>3. ASSUME NEW r \in Registers(b)
      PROVE  pos[r] \in 1..n /\ Popped(b)[pos[r]] = r
  <2>1. PICK i \in 1..n : r = Pushed(b)[i]
    BY <1>1
  <2>2. pos[r] = CHOOSE j \in 1..n : Popped(b)[j] = r
    OBVIOUS
  <2> HIDE DEF pos, n
  <2>3. n + 1 - i \in 1..n /\ n + 1 - (n + 1 - i) = i
    BY <1>1
  <2>4. \E j \in 1..n : Popped(b)[j] = r
    BY <1>1, <2>1, <2>3
  <2> QED
    BY <2>2, <2>4
<1>4. \A r \in Registers(b) : regs[r] = s[c.sp + 1 - pos[r]]
  OBVIOUS
<1>5. regs = [r \in Registers(b) |-> regs[r]]
  OBVIOUS
<1> HIDE DEF n, pos, regs
<1>6. ASSUME NEW r \in Registers(b)
      PROVE  /\ regs[r] \in Words
             /\ \E i \in 1..n : Pushed(b)[i] = r /\ regs[r] = s[m + 1 + i]
  <2> DEFINE p == pos[r]
             i == n + 1 - p
  <2>1. p \in 1..n /\ Popped(b)[p] = r /\ regs[r] = s[c.sp + 1 - p]
    BY <1>3, <1>4
  <2> HIDE DEF p
  <2>2. i \in 1..n /\ Pushed(b)[i] = r
    BY <1>1, <2>1
  <2>3. n \in Nat /\ p \in 1..n /\ c.sp = m + 1 + n /\ Len(s) = m + 1 + n
    BY <1>1, <2>1
  <2>4. c.sp + 1 - p = m + 1 + i
    BY <2>3
  <2>5. m + 1 + i \in 1..Len(s)
    BY <2>3
  <2>6. regs[r] = s[m + 1 + i]
    BY <2>1, <2>4
  <2> QED
    BY <2>2, <2>5, <2>6
<1>7. regs \in [Registers(b) -> Words]
  BY <1>5, <1>6
<1>8. c.sp - n = m + 1 /\ c.sp - n - 1 = m
  BY <1>1
<1> HIDE DEF v
<1>9. /\ v.cpu = [flow |-> c.flow, pc |-> s[m + 1], regs |-> regs]
      /\ v.stack = SubSeq(s, 1, m)
  BY <1>2, <1>8
<1>10. v.cpu.regs = regs
  BY <1>9
<1> QED
  BY <1>1, <1>6, <1>7, <1>9, <1>10 DEF v, Pops

\* What the cpu and the stack are when the flow f goes on.
GoesOnWith(b, f, v, base) ==
    /\ v.stack = base /\ v.cpu.flow = f /\ v.cpu.pc = Ret(f)
    /\ v.cpu \in [flow : Flows, pc : Words, regs : [Registers(b) -> Words]]
    /\ \A r \in Preserved(b) : v.cpu.regs[r] = <<f, r>>

\* The fields of the state of a cpu.
LEMMA CpuFields ==
    ASSUME NEW F, NEW W, NEW R, NEW f \in F, NEW pc \in W, NEW r \in R, NEW x,
           x = [flow |-> f, pc |-> pc, regs |-> r]
    PROVE  /\ x.flow = f /\ x.pc = pc /\ x.regs = r
           /\ x \in [flow : F, pc : W, regs : R]
OBVIOUS

\* A flow that was left goes on with the registers and the stack it had.
LEMMA LoadLemma ==
    ASSUME NEW b \in Backends, NEW f \in Flows, NEW c, NEW s \in Seq(Words),
           NEW base \in Seq(Words), Holds(b, f, c, s, base)
    PROVE  GoesOnWith(b, f, Load(b, c, s), base)
<1> DEFINE v == Load(b, c, s)
<1>0. Ret(f) \in Words
  BY WordsLemma
<1>1. CASE b \in Assembler
  <2> DEFINE n == Len(Pushed(b))
             m == Len(base)
  <2>0. n \in Nat /\ m \in Nat
    BY <1>1, PushedLemma
  <2>1. /\ c.flow = f /\ c.sp = Len(s) /\ Len(s) = m + 1 + n
        /\ \A i \in 1..m : s[i] = base[i]
        /\ s[m + 1] = Ret(f)
        /\ \A i \in 1..n : Pushed(b)[i] \in Preserved(b) => s[m + 1 + i] = <<f, Pushed(b)[i]>>
    BY <1>1 DEF Holds
  <2>3. SubSeq(s, 1, m) = base
    BY <2>0, <2>1
  <2> HIDE DEF m
  <2>2. PICK regs \in [Registers(b) -> Words] :
          /\ v.cpu = [flow |-> c.flow, pc |-> s[m + 1], regs |-> regs]
          /\ \A r \in Registers(b) :
               \E i \in 1..n : Pushed(b)[i] = r /\ regs[r] = s[m + 1 + i]
          /\ v.stack = SubSeq(s, 1, m)
    <3>1. Pops(b, c, s, m)
      BY <1>1, <2>0, <2>1, PopsLemma
    <3> QED
      BY <3>1 DEF Pops
  <2> HIDE DEF v, n
  <2>4. ASSUME NEW r \in Preserved(b) PROVE regs[r] = <<f, r>>
    <3>1. PICK i \in 1..n : Pushed(b)[i] = r /\ regs[r] = s[m + 1 + i]
      BY <2>2 DEF Preserved
    <3>2. s[m + 1 + i] = <<f, Pushed(b)[i]>>
      BY <2>1, <3>1
    <3> QED
      BY <3>1, <3>2
  <2>5. /\ v.cpu.flow = f /\ v.cpu.pc = Ret(f) /\ v.cpu.regs = regs
        /\ v.cpu \in [flow : Flows, pc : Words, regs : [Registers(b) -> Words]]
    <3>1. v.cpu = [flow |-> f, pc |-> Ret(f), regs |-> regs]
      BY <2>1, <2>2
    <3> QED
      BY <1>0, <3>1, CpuFields
  <2>6. GoesOnWith(b, f, v, base)
    BY <2>2, <2>3, <2>4, <2>5 DEF GoesOnWith
  <2> QED
    BY <2>6 DEF v
<1>2. CASE b \notin Assembler
  <2>1. /\ v.cpu = [flow |-> c.flow, pc |-> c.pc, regs |-> c.regs]
        /\ v.stack = SubSeq(s, 1, c.sp)
    BY <1>2 DEF Load
  <2>2. /\ c.flow = f /\ c.sp = Len(s) /\ s = base /\ c.pc = Ret(f)
        /\ c.regs \in [Registers(b) -> Words]
        /\ \A r \in Preserved(b) : c.regs[r] = <<f, r>>
    BY <1>2 DEF Holds
  <2>3. SubSeq(s, 1, Len(s)) = s
    OBVIOUS
  <2> HIDE DEF v
  <2>4. PICK regs \in [Registers(b) -> Words] :
          regs = c.regs /\ \A r \in Preserved(b) : regs[r] = <<f, r>>
    BY <2>2
  <2>5. /\ v.cpu.flow = f /\ v.cpu.pc = Ret(f) /\ v.cpu.regs = regs
        /\ v.cpu \in [flow : Flows, pc : Words, regs : [Registers(b) -> Words]]
    <3>1. v.cpu = [flow |-> f, pc |-> Ret(f), regs |-> regs]
      BY <2>1, <2>2, <2>4
    <3> QED
      BY <1>0, <3>1, CpuFields
  <2>6. v.stack = base
    BY <2>1, <2>2, <2>3
  <2>7. GoesOnWith(b, f, v, base)
    BY <2>4, <2>5, <2>6 DEF GoesOnWith
  <2> QED
    BY <2>7 DEF v
<1> QED
  BY <1>1, <1>2

\* The words on the stack of a flow that runs.
LEMMA BottomLemma ==
    ASSUME NEW b \in Backends, NEW f \in Flows
    PROVE  Bottom(b, f) \in Seq(Words) /\ (f \in Coroutines => Len(Bottom(b, f)) > 0)
<1>1. CASE f = "main program"
  <2>1. f \notin Coroutines
    BY <1>1, ContextAssumption
  <2>2. Bottom(b, f) = << >>
    BY <1>1 DEF Bottom
  <2> QED
    BY <2>1, <2>2
<1>2. CASE f # "main program" /\ b \in Assembler
  <2>1. Bottom(b, f) = <<Code("abort")>> /\ Code("abort") \in Words
    BY <1>2, WordsLemma DEF Bottom
  <2> QED
    BY <2>1
<1>3. CASE f # "main program" /\ b \notin Assembler
  <2>1. Adjusted(b) \in Nat /\ Adjusted(b) > 0
    BY AdjustedLemma
  <2>2. Bottom(b, f) = [i \in 1..Adjusted(b) |-> NullWord]
    BY <1>3 DEF Bottom
  <2> QED
    BY <2>1, <2>2, WordsLemma
<1> QED
  BY <1>1, <1>2, <1>3

\* A sequence of one word.
LEMMA FilledLemma ==
    ASSUME NEW S, NEW x \in S, NEW n \in Nat
    PROVE  LET s == [i \in 1..n |-> x]
           IN  s \in Seq(S) /\ Len(s) = n /\ SubSeq(s, 1, n) = s
  OBVIOUS

\* The first word of a sequence.
LEMMA FirstLemma ==
    ASSUME NEW S, NEW s \in Seq(S), 1 \in 1..Len(s)
    PROVE  SubSeq(s, 1, 1) = <<s[1]>>
<1> DEFINE u == SubSeq(s, 1, 1)
           v == <<s[1]>>
<1>1. u \in Seq(S) /\ Len(u) = 1 /\ \A i \in 1..1 : u[i] = s[i]
  BY SubSeqProperties
<1>2. v \in Seq(S) /\ Len(v) = 1 /\ \A i \in 1..1 : v[i] = s[i]
  OBVIOUS
<1> HIDE DEF u, v
<1>3. Len(u) = Len(v) /\ \A i \in 1..Len(u) : u[i] = v[i]
  BY <1>1, <1>2
<1> QED
  BY <1>1, <1>2, <1>3, SeqEqual DEF u, v

\* The joint of three sequences, of which the first has two words.
LEMMA ThreeParts ==
    ASSUME NEW S, NEW x \in S, NEW y \in S, NEW w \in Seq(S), NEW t \in Seq(S)
    PROVE  LET s == <<x, y>> \o w \o t
           IN  /\ s \in Seq(S) /\ Len(s) = 2 + Len(w) + Len(t) /\ s[1] = x /\ s[2] = y
               /\ SubSeq(s, 1, 1) = <<x>>
<1> DEFINE a == <<x, y>>
           u == a \o w
           s == u \o t
<1>1. a \in Seq(S) /\ Len(a) = 2 /\ a[1] = x /\ a[2] = y
  OBVIOUS
<1> HIDE DEF a
<1>2. u \in Seq(S) /\ u[1] = x /\ u[2] = y
  BY <1>1, ConcatProperties
<1>3. Len(u) = 2 + Len(w)
  <2>1. Len(u) = Len(a) + Len(w)
    BY <1>1, ConcatProperties
  <2> QED
    BY <1>1, <2>1
<1> HIDE DEF u
<1>4. 1 \in 1..Len(u) /\ 2 \in 1..Len(u) /\ Len(w) \in Nat /\ Len(t) \in Nat
  BY <1>3
<1>5. s \in Seq(S) /\ s[1] = x /\ s[2] = y
  BY <1>2, <1>4, ConcatProperties
<1>6. Len(s) = 2 + Len(w) + Len(t)
  BY <1>2, <1>3, ConcatProperties
<1>7. 1 \in 1..Len(s)
  BY <1>4, <1>6
<1> HIDE DEF s
<1>8. SubSeq(s, 1, 1) = <<x>>
  BY <1>5, <1>7, FirstLemma
<1> QED
  BY <1>5, <1>6, <1>8 DEF s, u, a

\* The stack that the assembler finds when it enters coro_init.
LEMMA NewStackLemma ==
    ASSUME NEW b \in Assembler, NEW c \in Coroutines
    PROVE  LET s == NewStack(b, c)
           IN  /\ s \in Seq(Words) /\ Len(s) = 2 + Len(Pushed(b)) /\ s[2] = Code("coro_init")
               /\ SubSeq(s, 1, 1) = <<Code("abort")>>
<1> DEFINE s == NewStack(b, c)
           t == [i \in 1..NUM_SAVED(b) |-> NullWord]
           w == IF Tib(b) = << >> THEN << >> ELSE <<NullWord, <<c, "base">>, <<c, "limit">>>>
           p == <<c, "base">>
           q == <<c, "limit">>
<1>1. NullWord \in Words /\ Code("coro_init") \in Words /\ Code("abort") \in Words
  BY WordsLemma
<1>2. p \in Words /\ q \in Words
  BY WordsLemma DEF Flows
<1>3. NUM_SAVED(b) \in Nat /\ Len(Pushed(b)) \in Nat
  BY PushedLemma
<1>4. t \in Seq(Words) /\ Len(t) = NUM_SAVED(b)
  BY <1>1, <1>3, FilledLemma
<1>5. w \in Seq(Words) /\ Len(w) + NUM_SAVED(b) = Len(Pushed(b))
  <2>1. CASE Tib(b) = << >>
    <3>1. w = << >> /\ NUM_SAVED(b) = Len(Pushed(b))
      BY <2>1, PushedLemma
    <3> HIDE DEF w
    <3> QED
      BY <3>1, <1>3
  <2>2. CASE Tib(b) # << >>
    <3>1. w = <<NullWord, p, q>>
      BY <2>2
    <3>2. NUM_SAVED(b) = Len(Pushed(b)) - 3
      BY <2>2, PushedLemma
    <3> HIDE DEF w, p, q
    <3>3. w \in Seq(Words) /\ Len(w) = 3
      BY <3>1, <1>1, <1>2
    <3> QED
      BY <3>2, <3>3, <1>3
  <2> QED
    BY <2>1, <2>2
<1>6. s = <<Code("abort"), Code("coro_init")>> \o w \o t
  BY DEF NewStack
<1> HIDE DEF s, w, t
<1>7. /\ s \in Seq(Words) /\ Len(s) = 2 + Len(w) + Len(t) /\ s[2] = Code("coro_init")
      /\ SubSeq(s, 1, 1) = <<Code("abort")>>
  BY <1>1, <1>4, <1>5, <1>6, ThreeParts
<1>8. Len(s) = 2 + Len(Pushed(b))
  BY <1>3, <1>4, <1>5, <1>7
<1> QED
  BY <1>7, <1>8 DEF s

\* A new flow enters coro_init at the bottom of its stack.
LEMMA CreatedLemma ==
    ASSUME NEW b \in Backends, NEW c \in Coroutines, cpu.regs \in [Registers(b) -> Words]
    PROVE  LET new == Created(b, c)
               v == Load(b, new.ctx, new.stack)
           IN  /\ new.ctx \in ContextRecords(b) /\ new.ctx.flow = c
               /\ new.stack \in Seq(Words)
               /\ v.stack = Bottom(b, c) /\ v.cpu.flow = c
               /\ v.cpu.pc = Code("coro_init")
               /\ v.cpu \in [flow : Flows, pc : Words, regs : [Registers(b) -> Words]]
<1> DEFINE new == Created(b, c)
           v == Load(b, new.ctx, new.stack)
<1>1. c \in Flows /\ NullWord \in Words /\ Code("coro_init") \in Words
  BY WordsLemma DEF Flows
<1>2. c # "main program"
  BY ContextAssumption
<1>3. CASE b \in Assembler
  <2> DEFINE s == NewStack(b, c)
  <2>1. /\ s \in Seq(Words) /\ Len(s) = 1 + 1 + Len(Pushed(b)) /\ s[1 + 1] = Code("coro_init")
        /\ SubSeq(s, 1, 1) = <<Code("abort")>>
    BY <1>3, NewStackLemma, PushedLemma
  <2>2. /\ new.ctx = [flow |-> c, sp |-> Len(s), regs |-> cpu.regs, pc |-> NullWord]
        /\ new.stack = s
    BY <1>3 DEF Created
  <2> HIDE DEF s, new
  <2>3. Len(s) \in Nat
    BY <2>1
  <2>4. new.ctx.sp = Len(s) /\ new.ctx.flow = c /\ new.ctx \in ContextRecords(b)
    BY <1>1, <2>2, <2>3 DEF ContextRecords
  <2>5. /\ v.cpu = [flow |-> c, pc |-> s[1 + 1], regs |-> v.cpu.regs]
        /\ v.cpu.regs \in [Registers(b) -> Words]
        /\ v.stack = SubSeq(s, 1, 1)
    <3>1. Pops(b, new.ctx, s, 1)
      BY <1>3, <2>1, <2>2, <2>4, PopsLemma
    <3> QED
      BY <2>2, <2>4, <3>1 DEF Pops
  <2>6. Bottom(b, c) = <<Code("abort")>>
    BY <1>2, <1>3 DEF Bottom
  <2> HIDE DEF v
  <2>7. /\ v.cpu.flow = c /\ v.cpu.pc = Code("coro_init") /\ v.stack = Bottom(b, c)
        /\ v.cpu \in [flow : Flows, pc : Words, regs : [Registers(b) -> Words]]
    <3>1. PICK regs \in [Registers(b) -> Words] :
            v.cpu = [flow |-> c, pc |-> Code("coro_init"), regs |-> regs]
      BY <2>1, <2>5
    <3>2. /\ v.cpu.flow = c /\ v.cpu.pc = Code("coro_init")
          /\ v.cpu \in [flow : Flows, pc : Words, regs : [Registers(b) -> Words]]
      BY <1>1, <3>1, CpuFields
    <3> QED
      BY <2>1, <2>5, <2>6, <3>2
  <2> QED
    BY <2>1, <2>2, <2>4, <2>7 DEF v, new
<1>4. CASE b \notin Assembler
  <2> DEFINE n == Adjusted(b)
             s == [i \in 1..n |-> NullWord]
  <2>1. n \in Nat
    BY AdjustedLemma
  <2>2. s \in Seq(Words) /\ Len(s) = n /\ SubSeq(s, 1, n) = s
    BY <1>1, <2>1, FilledLemma
  <2>3. Bottom(b, c) = s
    BY <1>2, <1>4 DEF Bottom
  <2>4. /\ new.ctx = [flow |-> c, sp |-> n, regs |-> cpu.regs, pc |-> Code("coro_init")]
        /\ new.stack = s
        /\ new.ctx.flow = c /\ new.ctx.sp = n /\ new.ctx.pc = Code("coro_init")
        /\ new.ctx.regs = cpu.regs
    BY <1>4 DEF Created
  <2> HIDE DEF s, n, new
  <2>5. new.ctx \in ContextRecords(b) /\ new.ctx.flow = c
    BY <1>1, <2>1, <2>4 DEF ContextRecords
  <2>6. /\ v.cpu = [flow |-> c, pc |-> Code("coro_init"), regs |-> cpu.regs]
        /\ v.stack = SubSeq(s, 1, n)
    <3>1. /\ v.cpu = [flow |-> new.ctx.flow, pc |-> new.ctx.pc, regs |-> new.ctx.regs]
          /\ v.stack = SubSeq(new.stack, 1, new.ctx.sp)
      BY <1>4 DEF Load
    <3> HIDE DEF v
    <3> QED
      BY <2>4, <3>1
  <2> HIDE DEF v
  <2>7. /\ v.cpu.flow = c /\ v.cpu.pc = Code("coro_init") /\ v.stack = Bottom(b, c)
        /\ v.cpu \in [flow : Flows, pc : Words, regs : [Registers(b) -> Words]]
    <3>1. PICK regs \in [Registers(b) -> Words] :
            regs = cpu.regs /\ v.cpu = [flow |-> c, pc |-> Code("coro_init"), regs |-> regs]
      BY <2>6
    <3>2. /\ v.cpu.flow = c /\ v.cpu.pc = Code("coro_init")
          /\ v.cpu \in [flow : Flows, pc : Words, regs : [Registers(b) -> Words]]
      BY <1>1, <3>1, CpuFields
    <3>3. v.stack = Bottom(b, c)
      BY <2>2, <2>3, <2>6
    <3> QED
      BY <3>2, <3>3
  <2> QED
    BY <2>2, <2>4, <2>5, <2>7 DEF v, new
<1> QED
  BY <1>3, <1>4

\* A stack with n calls of a flow on it.
Stack(s, x, n) == s \o [i \in 1..n |-> x]

WordsOfStack(S, s, x, n) ==
    /\ Stack(s, x, n) \in Seq(S) /\ Len(Stack(s, x, n)) = Len(s) + n
    /\ \A i \in 1..(Len(s) + n) : Stack(s, x, n)[i] = IF i <= Len(s) THEN s[i] ELSE x

\* The length and the words of such a stack.
LEMMA StackWords ==
    ASSUME NEW S, NEW s \in Seq(S), NEW x \in S, NEW n \in Nat
    PROVE  WordsOfStack(S, s, x, n)
<1> DEFINE t == [i \in 1..n |-> x]
<1>1. t \in Seq(S) /\ Len(t) = n /\ \A i \in 1..n : t[i] = x
  BY FilledLemma
<1> HIDE DEF t
<1>2. s \o t \in Seq(S) /\ Len(s \o t) = Len(s) + Len(t)
  BY <1>1, ConcatProperties
<1>3. \A i \in 1..(Len(s) + Len(t)) : (s \o t)[i] = IF i <= Len(s) THEN s[i] ELSE t[i - Len(s)]
  BY <1>1, ConcatProperties
<1>4. \A i \in 1..(Len(s) + n) : (s \o t)[i] = IF i <= Len(s) THEN s[i] ELSE x
  BY <1>1, <1>3
<1>5. Stack(s, x, n) = s \o t
  BY DEF Stack, t
<1> QED
  BY <1>1, <1>2, <1>4, <1>5 DEF WordsOfStack

StepsOfStack(s, x, n) ==
    /\ Stack(s, x, 0) = s
    /\ Stack(s, x, n + 1) = Append(Stack(s, x, n), x)
    /\ n > 0 => Stack(s, x, n - 1) = Return(Stack(s, x, n))

\* A call adds a word to the stack, a return takes the last one off.
LEMMA StackSteps ==
    ASSUME NEW S, NEW s \in Seq(S), NEW x \in S, NEW n \in Nat
    PROVE  StepsOfStack(s, x, n)
<1> DEFINE a == Stack(s, x, n)
           b == Stack(s, x, n + 1)
           c == Stack(s, x, 0)
           d == Stack(s, x, n - 1)
<1>0. Len(s) \in Nat
  OBVIOUS
<1>1. /\ a \in Seq(S) /\ Len(a) = Len(s) + n
      /\ \A i \in 1..(Len(s) + n) : a[i] = IF i <= Len(s) THEN s[i] ELSE x
  <2>1. WordsOfStack(S, s, x, n)
    BY StackWords
  <2> QED
    BY <2>1 DEF WordsOfStack
<1>2. /\ b \in Seq(S) /\ Len(b) = Len(s) + (n + 1)
      /\ \A i \in 1..(Len(s) + (n + 1)) : b[i] = IF i <= Len(s) THEN s[i] ELSE x
  <2>1. n + 1 \in Nat
    OBVIOUS
  <2>2. WordsOfStack(S, s, x, n + 1)
    BY <2>1, StackWords
  <2> QED
    BY <2>2 DEF WordsOfStack
<1>3. /\ c \in Seq(S) /\ Len(c) = Len(s) + 0
      /\ \A i \in 1..(Len(s) + 0) : c[i] = IF i <= Len(s) THEN s[i] ELSE x
  <2>1. WordsOfStack(S, s, x, 0)
    BY StackWords
  <2> QED
    BY <2>1 DEF WordsOfStack
<1>4. ASSUME n > 0
      PROVE  /\ d \in Seq(S) /\ Len(d) = Len(s) + (n - 1)
             /\ \A i \in 1..(Len(s) + (n - 1)) : d[i] = IF i <= Len(s) THEN s[i] ELSE x
  <2>1. n - 1 \in Nat
    BY <1>4
  <2>2. WordsOfStack(S, s, x, n - 1)
    BY <2>1, StackWords
  <2> QED
    BY <2>2 DEF WordsOfStack
<1> HIDE DEF a, b, c, d
<1>5. c = s
  BY <1>0, <1>3, SeqEqual
<1>6. b = Append(a, x)
  <2> DEFINE t == Append(a, x)
  <2>1. t \in Seq(S) /\ Len(t) = Len(a) + 1
    BY <1>1
  <2>2. \A i \in 1..Len(a) : t[i] = a[i]
    BY <1>1
  <2>3. t[Len(a) + 1] = x
    BY <1>1
  <2> HIDE DEF t
  <2>4. Len(t) = Len(b)
    BY <1>0, <1>1, <1>2, <2>1
  <2>5. ASSUME NEW i \in 1..Len(t) PROVE t[i] = b[i]
    <3>1. CASE i \in 1..Len(a)
      BY <3>1, <1>0, <1>1, <1>2, <2>2
    <3>2. CASE i = Len(a) + 1
      BY <3>2, <1>0, <1>1, <1>2, <2>3
    <3> QED
      BY <3>1, <3>2, <1>0, <1>1, <2>1
  <2> QED
    BY <1>2, <2>1, <2>4, <2>5, SeqEqual DEF t
<1>7. ASSUME n > 0 PROVE d = Return(a)
  <2> DEFINE t == Return(a)
  <2>1. /\ t \in Seq(S) /\ Len(t) = Len(a) - 1
        /\ \A i \in 1..(Len(a) - 1) : t[i] = a[i]
    <3>1. Len(a) - 1 \in 0..Len(a)
      BY <1>0, <1>1, <1>7
    <3> QED
      BY <1>1, <3>1, SubSeqProperties DEF Return
  <2> HIDE DEF t
  <2>2. Len(t) = Len(d) /\ \A i \in 1..Len(t) : t[i] = d[i]
    BY <1>0, <1>1, <1>4, <1>7, <2>1
  <2> QED
    BY <1>4, <1>7, <2>1, <2>2, SeqEqual DEF t
<1> QED
  BY <1>5, <1>6, <1>7 DEF a, b, c, d, StepsOfStack

\* The stack of a new context holds one word, the call of its function.
LEMMA OneWord ==
    ASSUME NEW S, NEW x \in S
    PROVE  Stack(<< >>, x, 1) = <<x>>
<1> DEFINE s == << >>
           t == Stack(s, x, 1)
           u == <<x>>
<1>1. s \in Seq(S) /\ Len(s) = 0
  OBVIOUS
<1>2. u \in Seq(S) /\ Len(u) = 1 /\ u[1] = x
  OBVIOUS
<1> HIDE DEF s, u
<1>3. WordsOfStack(S, s, x, 1)
  BY <1>1, StackWords
<1>4. t \in Seq(S) /\ Len(t) = 1 /\ \A i \in 1..1 : t[i] = x
  BY <1>1, <1>3 DEF WordsOfStack
<1> HIDE DEF t
<1>5. Len(t) = Len(u) /\ \A i \in 1..Len(t) : t[i] = u[i]
  BY <1>2, <1>4
<1> QED
  BY <1>2, <1>4, <1>5, SeqEqual DEF t, u, s

\* A return address is not the address of coro_init.
LEMMA ReturnIsNotEntry ==
    ASSUME NEW f
    PROVE  Ret(f) # Code("coro_init")
<1>1. "return address" # "coro_init"
  OBVIOUS
<1> QED
  BY <1>1 DEF Ret, Code

\* What a switch from the flow that runs to the flow g leaves.
Switched(contexts, stacks, prev, next, g) ==
    /\ backend' = backend
    /\ ctx' \in [Contexts -> ContextRecords(backend)]
    /\ stk' \in [Flows -> Seq(Words)]
    /\ Holds(backend, cpu.flow, ctx'[prev], stk'[cpu.flow], stacks[cpu.flow])
    /\ \A c \in Contexts \ {prev} : ctx'[c] = contexts[c]
    /\ \A h \in Flows \ {cpu.flow, g} : stk'[h] = stacks[h]
    /\ cpu' = Load(backend, contexts[next], stacks[g]).cpu
    /\ stk'[g] = Load(backend, contexts[next], stacks[g]).stack

\* What a switch does: the flow that runs is saved in prev, and the flow g of
\* the context next goes on.
LEMMA SwitchLemma ==
    ASSUME ContextTypes,
           NEW contexts \in [Contexts -> ContextRecords(backend)],
           NEW regs \in [Registers(backend) -> Words],
           NEW stacks \in [Flows -> Seq(Words)],
           NEW prev \in Contexts, NEW next \in Contexts, prev # next,
           \A r \in Preserved(backend) : regs[r] = <<cpu.flow, r>>,
           NEW g \in Flows, g # cpu.flow, contexts[next].flow = g,
           Load(backend, contexts[next], stacks[g]).stack \in Seq(Words),
           Switch(contexts, regs, stacks, prev, next)
    PROVE  Switched(contexts, stacks, prev, next, g)
<1> DEFINE f == cpu.flow
           saved == Save(backend, f, regs, stacks[f])
           to == [contexts EXCEPT ![prev] = saved.ctx]
           there == [stacks EXCEPT ![f] = saved.stack]
           loaded == Load(backend, to[next], there[to[next].flow])
<1>1. backend \in Backends /\ f \in Flows /\ stacks[f] \in Seq(Words)
  BY DEF ContextTypes
<1>2. /\ saved.stack \in Seq(Words) /\ saved.ctx \in ContextRecords(backend)
      /\ Holds(backend, f, saved.ctx, saved.stack, stacks[f])
  BY <1>1, SaveLemma
<1>3. /\ ctx' = to /\ cpu' = loaded.cpu /\ backend' = backend
      /\ stk' = [there EXCEPT ![to[next].flow] = loaded.stack]
  BY DEF Switch
<1> HIDE DEF saved, loaded
<1>4. /\ to \in [Contexts -> ContextRecords(backend)] /\ to[prev] = saved.ctx
      /\ \A c \in Contexts \ {prev} : to[c] = contexts[c]
  BY <1>2
<1>5. /\ there \in [Flows -> Seq(Words)] /\ there[f] = saved.stack
      /\ \A h \in Flows \ {f} : there[h] = stacks[h]
  BY <1>1, <1>2
<1> HIDE DEF to, there
<1>6. to[next] = contexts[next] /\ to[next].flow = g /\ there[g] = stacks[g]
  BY <1>4, <1>5
<1>7. loaded = Load(backend, contexts[next], stacks[g])
  BY <1>6 DEF loaded
<1>8. stk' = [there EXCEPT ![g] = loaded.stack] /\ loaded.stack \in Seq(Words)
  BY <1>3, <1>6, <1>7
<1>9. /\ stk' \in [Flows -> Seq(Words)] /\ stk'[g] = loaded.stack /\ stk'[f] = saved.stack
      /\ \A h \in Flows \ {f, g} : stk'[h] = stacks[h]
  BY <1>1, <1>5, <1>8
<1> QED
  BY <1>2, <1>3, <1>4, <1>7, <1>9 DEF Switched

----------------------------------------------------------------------------

\* The bound on the calls.
LEMMA BoundLemma == MaxDepth \in Nat /\ MaxDepth > 0
<1>1. MaxDepth \in Nat \ {0}
  BY ContextAssumption
<1> QED
  BY <1>1

\* What a flow has on its stack when it runs.
LEMMA BaseLemma ==
    ASSUME ContextTypes, NEW f \in Flows
    PROVE  /\ Base(f) \in Seq(Words) /\ Base(f) = Stack(Bottom(backend, f), Call(f), depth[f])
           /\ depth[f] \in Nat
           /\ depth[f] > 0 => Base(f) # << >>
<1>1. backend \in Backends /\ depth[f] \in Nat
  <2>1. depth[f] \in 0..MaxDepth /\ backend \in Backends
    BY DEF ContextTypes
  <2> QED
    BY <2>1, BoundLemma
<1>2. Bottom(backend, f) \in Seq(Words) /\ Call(f) \in Words
  BY <1>1, BottomLemma, WordsLemma
<1>3. Base(f) = Stack(Bottom(backend, f), Call(f), depth[f])
  BY DEF Base, Stack
<1>4. WordsOfStack(Words, Bottom(backend, f), Call(f), depth[f])
  BY <1>1, <1>2, StackWords
<1>5. Base(f) \in Seq(Words) /\ Len(Base(f)) = Len(Bottom(backend, f)) + depth[f]
  BY <1>3, <1>4 DEF WordsOfStack
<1>6. ASSUME depth[f] > 0 PROVE Base(f) # << >>
  <2>1. Len(Bottom(backend, f)) \in Nat
    BY <1>2
  <2>2. Len(Base(f)) # 0
    BY <1>1, <1>5, <1>6, <2>1
  <2> QED
    BY <2>2
<1> QED
  BY <1>1, <1>3, <1>5, <1>6

\* A flow that was left has something on its stack.
LEMMA SuspendedStack ==
    ASSUME ContextTypes, NEW c \in Contexts, NEW f \in Flows, SetAside(c, f)
    PROVE  stk[f] # << >> /\ ctx[c].flow = f /\ depth[f] > 0
<1>1. /\ Base(f) \in Seq(Words) /\ Base(f) # << >> /\ depth[f] > 0
      /\ Holds(backend, f, ctx[c], stk[f], Base(f))
  BY BaseLemma DEF SetAside
<1>2. ctx[c].flow = f
  BY <1>1 DEF Holds
<1>3. CASE backend \in Assembler
  <2>1. Len(stk[f]) = Len(Base(f)) + 1 + Len(Pushed(backend)) /\ Len(Pushed(backend)) \in Nat
    BY <1>1, <1>3, PushedLemma DEF Holds
  <2>2. Len(Base(f)) \in Nat
    BY <1>1
  <2>3. Len(stk[f]) # 0
    BY <2>1, <2>2
  <2> QED
    BY <1>1, <1>2, <2>3
<1>4. CASE backend \notin Assembler
  BY <1>1, <1>2, <1>4 DEF Holds
<1> QED
  BY <1>3, <1>4

\* A flow that a step does not touch stays as it is.
LEMMA SuspendedKept ==
    ASSUME NEW c, NEW f, backend' = backend, ctx'[c] = ctx[c], stk'[f] = stk[f],
           depth'[f] = depth[f], SetAside(c, f)
    PROVE  SetAside(c, f)'
  BY DEF SetAside, Base

\* The same for a flow that is asleep.
LEMMA AsleepKept ==
    ASSUME NEW f, backend' = backend, ctx'[f] = ctx[f], stk'[f] = stk[f],
           depth'[f] = depth[f], Asleep(f)
    PROVE  Asleep(f)'
<1>1. CASE Fresh(f)
  BY <1>1 DEF Asleep, Fresh
<1>2. CASE SetAside(f, f)
  BY <1>2, SuspendedKept DEF Asleep
<1> QED
  BY <1>1, <1>2 DEF Asleep

\* The invariant when a flow goes on.
LEMMA FlowResumed ==
    ASSUME ContextTypes', NEW g \in Flows, cpu'.flow = g, cpu'.pc = Ret(g),
           \A r \in Preserved(backend') : cpu'.regs[r] = <<g, r>>,
           stk'[g] = Base(g)', depth'[g] > 0, \A f \in Flows \ {g} : Asleep(f)'
    PROVE  ContextInv'
<1>1. RegistersKept'
  BY DEF RegistersKept, Preserved
<1>2. StackKept'
  BY DEF StackKept, Base
<1>3. OneRuns'
  BY DEF OneRuns
<1>4. cpu'.pc # Code("coro_init")
  BY ReturnIsNotEntry
<1> QED
  BY <1>1, <1>2, <1>3, <1>4 DEF ContextInv, Entering

\* The invariant when a new flow enters coro_init.
LEMMA Entered ==
    ASSUME ContextTypes', NEW c \in Coroutines, NEW g \in Flows \ {c},
           cpu'.flow = c, cpu'.pc = Code("coro_init"), stk'[c] = Base(c)', depth'[c] = 0,
           SetAside("create_coro", g)', \A f \in Flows \ {c, g} : Asleep(f)'
    PROVE  ContextInv'
<1>1. ~Runs'
  BY DEF Runs, Ret, Code
<1>2. StackKept'
  BY DEF StackKept, Base
<1>3. Entering'
  BY DEF Entering
<1> QED
  BY <1>1, <1>2, <1>3 DEF ContextInv, OneRuns, RegistersKept

\* The main program runs at first, in its first function.
LEMMA ContextStarts ==
    ASSUME ContextInit
    PROVE  ContextInv
<1> DEFINE m == "main program"
<1>1. m \in Flows /\ m \notin Coroutines
  BY ContextAssumption DEF Flows
<1>2. /\ Call(m) \in Words /\ Ret(m) \in Words /\ NullWord \in Words
      /\ \A r \in Registers(backend) : <<m, r>> \in Words
  BY <1>1, WordsLemma DEF ContextInit
<1>3. depth \in [Flows -> 0..MaxDepth]
  <2>1. 0 \in 0..MaxDepth /\ 1 \in 0..MaxDepth
    BY BoundLemma
  <2> QED
    BY <2>1 DEF ContextInit
<1>4. cpu \in [flow : Flows, pc : Words, regs : [Registers(backend) -> Words]]
  BY <1>1, <1>2 DEF ContextInit, Own
<1>5. stk \in [Flows -> Seq(Words)]
  <2>1. \A f \in Flows : Call(f) \in Words
    BY WordsLemma
  <2>2. << >> \in Seq(Words) /\ \A f \in Flows : <<Call(f)>> \in Seq(Words)
    BY <2>1
  <2> QED
    BY <2>2 DEF ContextInit
<1>6. ctx \in [Contexts -> [flow : Flows \cup {"none"}, sp : Nat,
                            regs : {<< >>} \cup [Registers(backend) -> Words], pc : Words]]
  BY <1>2 DEF ContextInit, NoContext
<1>7. ContextTypes
  BY <1>3, <1>4, <1>5, <1>6 DEF ContextTypes, ContextInit
<1>8. stk[m] = Base(m)
  <2>1. Bottom(backend, m) = << >> /\ depth[m] = 1 /\ stk[m] = <<Call(m)>>
    BY <1>1 DEF Bottom, ContextInit
  <2>2. Base(m) = Stack(<< >>, Call(m), 1)
    BY <1>1, <1>7, <2>1, BaseLemma
  <2>3. Stack(<< >>, Call(m), 1) = <<Call(m)>>
    BY <1>2, OneWord
  <2> QED
    BY <2>1, <2>2, <2>3
<1>9. RegistersKept
  BY DEF RegistersKept, ContextInit, Own
<1>10. StackKept
  BY <1>8 DEF StackKept, Base, ContextInit
<1>11. ASSUME NEW f \in Flows \ {m} PROVE Asleep(f)
  <2>1. f \in Coroutines /\ f \in Contexts
    BY DEF Flows, Contexts
  <2> QED
    BY <2>1 DEF Asleep, Fresh, ContextInit, NoContext
<1>12. OneRuns
  <2>1. cpu.flow = m /\ depth[m] = 1
    BY <1>1 DEF ContextInit
  <2> HIDE DEF m
  <2> QED
    BY <1>11, <2>1 DEF OneRuns
<1>13. Entering
  BY DEF Entering, ContextInit, Ret, Code
<1> QED
  BY <1>7, <1>9, <1>10, <1>12, <1>13 DEF ContextInv

\* The types after a switch.
LEMMA SwitchedTypes ==
    ASSUME ContextTypes, backend' = backend,
           ctx' \in [Contexts -> ContextRecords(backend)], stk' \in [Flows -> Seq(Words)],
           cpu' \in [flow : Flows, pc : Words, regs : [Registers(backend) -> Words]],
           depth' \in [Flows -> 0..MaxDepth]
    PROVE  ContextTypes'
  BY DEF ContextTypes, ContextRecords

\* The flow that runs is none of the others, and can be left.
LEMMA Runner ==
    ASSUME ContextInv, Runs
    PROVE  /\ cpu.flow \in Flows /\ depth[cpu.flow] > 0
           /\ stk[cpu.flow] = Base(cpu.flow) /\ stk[cpu.flow] # << >>
           /\ cpu.regs \in [Registers(backend) -> Words]
           /\ \A r \in Preserved(backend) : cpu.regs[r] = <<cpu.flow, r>>
           /\ \A f \in Flows \ {cpu.flow} : Asleep(f)
<1>1. cpu.flow \in Flows /\ cpu.regs \in [Registers(backend) -> Words] /\ ContextTypes
  BY DEF ContextInv, ContextTypes
<1>2. depth[cpu.flow] > 0 /\ \A f \in Flows \ {cpu.flow} : Asleep(f)
  BY DEF ContextInv, OneRuns
<1>3. stk[cpu.flow] = Base(cpu.flow)
  BY DEF ContextInv, StackKept, Base
<1>4. Base(cpu.flow) # << >>
  BY <1>1, <1>2, BaseLemma
<1>5. \A r \in Preserved(backend) : cpu.regs[r] = <<cpu.flow, r>>
  BY DEF ContextInv, RegistersKept, Preserved
<1> QED
  BY <1>1, <1>2, <1>3, <1>4, <1>5

\* coro_create: the creator is left in create_coro and the new flow enters
\* coro_init keeps the invariant: the new context starts at its function.
LEMMA CreateKeeps ==
    ASSUME ContextInv, NEW c \in Coroutines, CreateContext(c)
    PROVE  ContextInv'
<1>0. PICK f \in Flows : f = cpu.flow
  BY DEF ContextInv, ContextTypes
<1> DEFINE new == Created(backend, c)
           contexts == [ctx EXCEPT ![c] = new.ctx]
           stacks == [stk EXCEPT ![c] = new.stack]
           v == Load(backend, new.ctx, new.stack)
<1>1. /\ ContextTypes /\ Runs /\ stk[c] = << >> /\ depth' = depth
      /\ Switch(contexts, cpu.regs, stacks, "create_coro", c)
  BY DEF ContextInv, CreateContext
<1>2. /\ f \in Flows /\ depth[f] > 0 /\ stk[f] = Base(f) /\ stk[f] # << >>
      /\ cpu.regs \in [Registers(backend) -> Words]
      /\ \A r \in Preserved(backend) : cpu.regs[r] = <<f, r>>
      /\ \A h \in Flows \ {f} : Asleep(h)
  BY <1>0, <1>1, Runner
<1>3. /\ c \in Flows /\ c \in Contexts /\ "create_coro" \in Contexts /\ c # f
      /\ c # "create_coro"
  BY <1>1, <1>2, ContextAssumption DEF Flows, Contexts
<1>4. depth[c] = 0
  <2>1. ~SetAside(c, c)
    BY <1>1, <1>3, SuspendedStack
  <2> QED
    BY <1>2, <1>3, <2>1 DEF Asleep, Fresh
<1>5. /\ new.ctx \in ContextRecords(backend) /\ new.ctx.flow = c /\ new.stack \in Seq(Words)
      /\ v.stack = Bottom(backend, c) /\ v.cpu.flow = c /\ v.cpu.pc = Code("coro_init")
      /\ v.cpu \in [flow : Flows, pc : Words, regs : [Registers(backend) -> Words]]
  <2>1. backend \in Backends
    BY <1>1 DEF ContextTypes
  <2> QED
    BY <1>2, <2>1, CreatedLemma
<1> HIDE DEF new
<1>6. /\ contexts \in [Contexts -> ContextRecords(backend)] /\ contexts[c] = new.ctx
      /\ \A x \in Contexts \ {c} : contexts[x] = ctx[x]
  <2>1. ctx \in [Contexts -> ContextRecords(backend)]
    BY <1>1 DEF ContextTypes, ContextRecords
  <2> QED
    BY <1>3, <1>5, <2>1
<1>7. /\ stacks \in [Flows -> Seq(Words)] /\ stacks[c] = new.stack
      /\ \A h \in Flows \ {c} : stacks[h] = stk[h]
  <2>1. stk \in [Flows -> Seq(Words)]
    BY <1>1 DEF ContextTypes
  <2> QED
    BY <1>3, <1>5, <2>1
<1> HIDE DEF contexts, stacks
<1>8. /\ contexts[c].flow = c
      /\ Load(backend, contexts[c], stacks[c]).stack \in Seq(Words)
      /\ Load(backend, contexts[c], stacks[c]) = v
  <2>1. Load(backend, contexts[c], stacks[c]) = v
    BY <1>6, <1>7
  <2>2. backend \in Backends /\ Bottom(backend, c) \in Seq(Words)
    BY <1>1, <1>3, BottomLemma DEF ContextTypes
  <2> HIDE DEF v
  <2> QED
    BY <1>5, <1>6, <2>1, <2>2
<1> HIDE DEF v
<1>9. /\ backend' = backend /\ ctx' \in [Contexts -> ContextRecords(backend)]
      /\ stk' \in [Flows -> Seq(Words)]
      /\ Holds(backend, f, ctx'["create_coro"], stk'[f], stacks[f])
      /\ \A x \in Contexts \ {"create_coro"} : ctx'[x] = contexts[x]
      /\ \A h \in Flows \ {f, c} : stk'[h] = stacks[h]
      /\ cpu' = v.cpu /\ stk'[c] = v.stack
  <2>1. /\ f # c /\ \A r \in Preserved(backend) : cpu.regs[r] = <<cpu.flow, r>>
    BY <1>0, <1>2, <1>3
  <2>2. Switched(contexts, stacks, "create_coro", c, c)
    BY <1>0, <1>1, <1>2, <1>3, <1>6, <1>7, <1>8, <2>1, SwitchLemma
  <2> QED
    BY <1>0, <1>8, <2>2 DEF Switched
<1>10. ContextTypes'
  <2>1. depth' \in [Flows -> 0..MaxDepth]
    BY <1>1 DEF ContextTypes
  <2> QED
    BY <1>1, <1>5, <1>9, <2>1, SwitchedTypes
<1>11. \A h \in Flows : Base(h)' = Base(h)
  BY <1>1, <1>9 DEF Base
<1>12. stk'[c] = Base(c)'
  <2>1. Base(c) = Stack(Bottom(backend, c), Call(c), 0)
    BY <1>1, <1>3, <1>4, BaseLemma
  <2>2. backend \in Backends /\ Bottom(backend, c) \in Seq(Words) /\ Call(c) \in Words
    BY <1>1, <1>3, BottomLemma, WordsLemma DEF ContextTypes
  <2>3. Stack(Bottom(backend, c), Call(c), 0) = Bottom(backend, c)
    BY <2>2, StackSteps DEF StepsOfStack
  <2> QED
    BY <1>3, <1>5, <1>9, <1>11, <2>1, <2>3
<1>13. SetAside("create_coro", f)'
  <2>1. stacks[f] = Base(f) /\ Base(f)' = Base(f)
    BY <1>2, <1>3, <1>7, <1>11
  <2>2. Holds(backend', f, ctx'["create_coro"], stk'[f], Base(f)') /\ depth'[f] > 0
    BY <1>1, <1>2, <1>9, <2>1
  <2> QED
    BY <2>2 DEF SetAside
<1>14. ASSUME NEW h \in Flows \ {c, f} PROVE Asleep(h)'
  <2>1. h \in Contexts /\ h # "create_coro"
    BY ContextAssumption DEF Flows, Contexts
  <2>2. Asleep(h) /\ ctx'[h] = ctx[h] /\ stk'[h] = stk[h] /\ depth'[h] = depth[h]
    BY <1>1, <1>2, <1>6, <1>7, <1>9, <2>1
  <2> QED
    BY <1>9, <2>2, AsleepKept
<1>15. /\ cpu'.flow = c /\ cpu'.pc = Code("coro_init") /\ depth'[c] = 0 /\ f \in Flows \ {c}
  BY <1>1, <1>2, <1>3, <1>4, <1>5, <1>9
<1> QED
  BY <1>10, <1>12, <1>13, <1>14, <1>15, Entered

\* A flow that was left goes on.
LEMMA GoesOn ==
    ASSUME ContextTypes, NEW f \in Flows, f = cpu.flow,
           NEW regs \in [Registers(backend) -> Words],
           \A r \in Preserved(backend) : regs[r] = <<f, r>>,
           NEW stacks \in [Flows -> Seq(Words)], \A h \in Flows \ {f} : stacks[h] = stk[h],
           depth' \in [Flows -> 0..MaxDepth], \A h \in Flows \ {f} : depth'[h] = depth[h],
           depth'[f] > 0, stacks[f] = Bottom(backend, f) \o [i \in 1..depth'[f] |-> Call(f)],
           NEW prev \in Contexts, NEW next \in Contexts, prev # next,
           NEW g \in Flows, g # f, SetAside(next, g),
           \A h \in Flows \ {f, g} : Asleep(h) /\ h # prev,
           prev = f,
           Switch(ctx, regs, stacks, prev, next)
    PROVE  ContextInv'
<1> DEFINE v == Load(backend, ctx[next], stk[g])
<1>1. /\ backend \in Backends /\ ctx \in [Contexts -> ContextRecords(backend)]
      /\ stk[g] \in Seq(Words) /\ Base(g) \in Seq(Words) /\ stacks[g] = stk[g]
  BY BaseLemma DEF ContextTypes, ContextRecords
<1>2. Holds(backend, g, ctx[next], stk[g], Base(g)) /\ ctx[next].flow = g /\ depth[g] > 0
  BY SuspendedStack DEF SetAside
<1>3. /\ v.stack = Base(g) /\ v.cpu.flow = g /\ v.cpu.pc = Ret(g)
      /\ v.cpu \in [flow : Flows, pc : Words, regs : [Registers(backend) -> Words]]
      /\ \A r \in Preserved(backend) : v.cpu.regs[r] = <<g, r>>
  <2>1. GoesOnWith(backend, g, v, Base(g))
    BY <1>1, <1>2, LoadLemma
  <2> HIDE DEF v
  <2> QED
    BY <2>1 DEF GoesOnWith
<1>4. Load(backend, ctx[next], stacks[g]) = v
  BY <1>1
<1> HIDE DEF v
<1>5. Switched(ctx, stacks, prev, next, g)
  BY <1>1, <1>2, <1>3, <1>4, SwitchLemma
<1>6. /\ backend' = backend /\ ctx' \in [Contexts -> ContextRecords(backend)]
      /\ stk' \in [Flows -> Seq(Words)]
      /\ Holds(backend, f, ctx'[f], stk'[f], stacks[f])
      /\ \A c \in Contexts \ {f} : ctx'[c] = ctx[c]
      /\ \A h \in Flows \ {f, g} : stk'[h] = stk[h]
      /\ cpu' = v.cpu /\ stk'[g] = Base(g)
  BY <1>1, <1>3, <1>4, <1>5 DEF Switched
<1>7. ContextTypes'
  BY <1>3, <1>6, SwitchedTypes
<1>8. Base(g)' = Base(g) /\ Base(f)' = stacks[f]
  BY <1>6 DEF Base
<1>9. SetAside(f, f)'
  <2>1. Holds(backend', f, ctx'[f], stk'[f], Base(f)')
    BY <1>6, <1>8
  <2> QED
    BY <2>1 DEF SetAside
<1>10. ASSUME NEW h \in Flows \ {g} PROVE Asleep(h)'
  <2>1. CASE h = f
    BY <1>9, <2>1 DEF Asleep
  <2>2. CASE h # f
    <3>1. h \in Contexts
      BY DEF Contexts
    <3>2. Asleep(h) /\ ctx'[h] = ctx[h] /\ stk'[h] = stk[h] /\ depth'[h] = depth[h]
      BY <1>6, <2>2, <3>1
    <3> QED
      BY <1>6, <3>2, AsleepKept
  <2> QED
    BY <2>1, <2>2
<1>11. /\ cpu'.flow = g /\ cpu'.pc = Ret(g) /\ depth'[g] > 0 /\ stk'[g] = Base(g)'
       /\ \A r \in Preserved(backend') : cpu'.regs[r] = <<g, r>>
  BY <1>2, <1>3, <1>6, <1>8
<1> QED
  BY <1>7, <1>10, <1>11, FlowResumed

\* coro_init transfers back to create_coro, where the creator was left.
LEMMA EnterKeeps ==
    ASSUME ContextInv, EnterContext
    PROVE  ContextInv'
<1>0. PICK f \in Flows : f = cpu.flow
  BY DEF ContextInv, ContextTypes
<1> DEFINE regs == [r \in Registers(backend) |-> IF r \in TibRegisters(backend) THEN cpu.regs[r]
                                                ELSE <<f, r>>]
           stacks == [stk EXCEPT ![f] = Append(@, Call(f))]
<1>1. /\ ContextTypes /\ cpu.pc = Code("coro_init") /\ depth' = [depth EXCEPT ![f] = 1]
      /\ Switch(ctx, regs, stacks, f, "create_coro")
  BY <1>0 DEF ContextInv, EnterContext
<1>2. /\ f \in Coroutines /\ depth[f] = 0 /\ f \in Contexts
  BY <1>0, <1>1 DEF ContextInv, Entering, Contexts
<1>3. PICK g \in Flows \ {f} : /\ SetAside("create_coro", g)
                               /\ \A h \in Flows \ {f, g} : Asleep(h)
  BY <1>0, <1>1 DEF ContextInv, Entering
<1>4. "create_coro" \in Contexts /\ f # "create_coro"
  BY <1>2, ContextAssumption DEF Contexts
<1>5. regs \in [Registers(backend) -> Words] /\ \A r \in Preserved(backend) : regs[r] = <<f, r>>
  <2>1. backend \in Backends /\ cpu.regs \in [Registers(backend) -> Words]
    BY <1>1 DEF ContextTypes
  <2>2. \A r \in Registers(backend) : <<f, r>> \in Words
    BY <2>1, WordsLemma
  <2> QED
    BY <2>1, <2>2 DEF Preserved
<1>6. /\ depth' \in [Flows -> 0..MaxDepth] /\ depth'[f] = 1
      /\ \A h \in Flows \ {f} : depth'[h] = depth[h]
  <2>1. 1 \in 0..MaxDepth /\ depth \in [Flows -> 0..MaxDepth]
    BY <1>1, BoundLemma DEF ContextTypes
  <2> QED
    BY <1>1, <2>1
<1>7. stk \in [Flows -> Seq(Words)] /\ stk[f] = Base(f) /\ Call(f) \in Words
  BY <1>0, <1>1, WordsLemma DEF ContextInv, ContextTypes, StackKept, Base
<1>8. /\ stacks \in [Flows -> Seq(Words)] /\ stacks[f] = Append(Base(f), Call(f))
      /\ \A h \in Flows \ {f} : stacks[h] = stk[h]
  <2>1. Append(stk[f], Call(f)) \in Seq(Words)
    BY <1>7
  <2> QED
    BY <1>7, <2>1
<1> HIDE DEF regs, stacks
<1>9. stacks[f] = Bottom(backend, f) \o [i \in 1..depth'[f] |-> Call(f)]
  <2>1. Base(f) = Stack(Bottom(backend, f), Call(f), 0)
    BY <1>1, <1>2, BaseLemma
  <2>2. backend \in Backends /\ Bottom(backend, f) \in Seq(Words) /\ 0 \in Nat
    BY <1>1, BottomLemma DEF ContextTypes
  <2>3. Stack(Bottom(backend, f), Call(f), 0 + 1)
          = Append(Stack(Bottom(backend, f), Call(f), 0), Call(f))
    BY <1>7, <2>2, StackSteps DEF StepsOfStack
  <2>4. stacks[f] = Stack(Bottom(backend, f), Call(f), 1)
    BY <1>8, <2>1, <2>3
  <2> QED
    BY <1>6, <2>4 DEF Stack
<1>10. \A h \in Flows \ {f, g} : Asleep(h) /\ h # f
  BY <1>3
<1>11. depth'[f] > 0
  BY <1>6
<1> QED
  BY <1>0, <1>1, <1>2, <1>3, <1>4, <1>5, <1>6, <1>8, <1>9, <1>10, <1>11, GoesOn

\* coro_transfer keeps the invariant: what it pushes on the stack it leaves is what is
\* popped when that context goes on.
LEMMA TransferKeeps ==
    ASSUME ContextInv, NEW g \in Flows, TransferTo(g)
    PROVE  ContextInv'
<1>0. PICK f \in Flows : f = cpu.flow
  BY DEF ContextInv, ContextTypes
<1>1. /\ ContextTypes /\ Runs /\ g # f /\ ctx[g].flow = g /\ depth' = depth
      /\ Switch(ctx, cpu.regs, stk, f, g)
  BY <1>0 DEF ContextInv, TransferTo
<1>2. /\ depth[f] > 0 /\ stk[f] = Base(f)
      /\ cpu.regs \in [Registers(backend) -> Words]
      /\ \A r \in Preserved(backend) : cpu.regs[r] = <<f, r>>
      /\ \A h \in Flows \ {f} : Asleep(h)
  BY <1>0, <1>1, Runner
<1>3. SetAside(g, g)
  <2>1. g # "none"
    BY ContextAssumption DEF Flows
  <2> QED
    BY <1>1, <1>2, <2>1 DEF Asleep, Fresh
<1>4. /\ stk \in [Flows -> Seq(Words)] /\ depth' \in [Flows -> 0..MaxDepth]
      /\ \A h \in Flows \ {f} : stk[h] = stk[h] /\ depth'[h] = depth[h]
      /\ f \in Contexts /\ g \in Contexts
  BY <1>1 DEF ContextTypes, Contexts
<1>5. stk[f] = Bottom(backend, f) \o [i \in 1..depth'[f] |-> Call(f)] /\ depth'[f] > 0
  BY <1>1, <1>2 DEF Base
<1>6. \A h \in Flows \ {f, g} : Asleep(h) /\ h # f
  BY <1>2
<1> QED
  BY <1>0, <1>1, <1>2, <1>3, <1>4, <1>5, <1>6, GoesOn

\* A call or a return of the flow that runs.
LEMMA CallKeeps ==
    ASSUME ContextInv, CallOrReturn
    PROVE  ContextInv'
<1>0. PICK f \in Flows : f = cpu.flow
  BY DEF ContextInv, ContextTypes
<1>1. /\ ContextTypes /\ Runs /\ backend' = backend /\ cpu' = cpu /\ ctx' = ctx
      /\ \/ /\ depth[f] < MaxDepth
            /\ depth' = [depth EXCEPT ![f] = @ + 1]
            /\ stk' = [stk EXCEPT ![f] = Append(@, Call(f))]
         \/ /\ depth[f] > 1
            /\ depth' = [depth EXCEPT ![f] = @ - 1]
            /\ stk' = [stk EXCEPT ![f] = Return(@)]
  BY <1>0 DEF ContextInv, CallOrReturn
<1>2. /\ depth[f] > 0 /\ stk[f] = Base(f)
      /\ \A r \in Preserved(backend) : cpu.regs[r] = <<f, r>>
      /\ \A h \in Flows \ {f} : Asleep(h)
  BY <1>0, <1>1, Runner
<1> DEFINE s == Bottom(backend, f)
           x == Call(f)
           n == depth[f]
<1>3. /\ backend \in Backends /\ s \in Seq(Words) /\ x \in Words
      /\ stk \in [Flows -> Seq(Words)] /\ depth \in [Flows -> 0..MaxDepth]
  BY <1>1, BottomLemma, WordsLemma DEF ContextTypes
<1>4. Base(f) = Stack(s, x, n) /\ Base(f) \in Seq(Words) /\ n \in Nat
  BY <1>1, BaseLemma
<1>5. /\ Stack(s, x, n + 1) = Append(Stack(s, x, n), x)
      /\ n > 0 => Stack(s, x, n - 1) = Return(Stack(s, x, n))
  <2>1. StepsOfStack(s, x, n)
    <3> HIDE DEF s, x, n
    <3> QED
      BY <1>3, <1>4, StackSteps
  <2> QED
    BY <2>1 DEF StepsOfStack
<1>6. PICK k \in 1..MaxDepth :
        /\ depth' = [depth EXCEPT ![f] = k]
        /\ stk' = [stk EXCEPT ![f] = Stack(s, x, k)]
  <2> HIDE DEF s, x
  <2>1. CASE /\ depth[f] < MaxDepth
             /\ depth' = [depth EXCEPT ![f] = @ + 1]
             /\ stk' = [stk EXCEPT ![f] = Append(@, Call(f))]
    <3>1. n + 1 \in 1..MaxDepth
      BY <1>4, <2>1, BoundLemma
    <3>2. depth' = [depth EXCEPT ![f] = n + 1] /\ stk' = [stk EXCEPT ![f] = Stack(s, x, n + 1)]
      BY <1>2, <1>4, <1>5, <2>1 DEF x
    <3> QED
      BY <3>1, <3>2
  <2>2. CASE /\ depth[f] > 1
             /\ depth' = [depth EXCEPT ![f] = @ - 1]
             /\ stk' = [stk EXCEPT ![f] = Return(@)]
    <3>0. n \in 0..MaxDepth
      BY <1>3
    <3>1. n - 1 \in 1..MaxDepth /\ n > 0
      BY <1>4, <2>2, <3>0, BoundLemma
    <3>2. depth' = [depth EXCEPT ![f] = n - 1] /\ stk' = [stk EXCEPT ![f] = Stack(s, x, n - 1)]
      BY <1>2, <1>4, <1>5, <2>2, <3>1
    <3> QED
      BY <3>1, <3>2
  <2> QED
    BY <1>1, <2>1, <2>2
<1>7. k \in Nat /\ k > 0 /\ k \in 0..MaxDepth
  BY BoundLemma
<1>8. Stack(s, x, k) \in Seq(Words)
  <2> HIDE DEF s, x
  <2>1. WordsOfStack(Words, s, x, k)
    BY <1>3, <1>7, StackWords
  <2> QED
    BY <2>1 DEF WordsOfStack
<1>9. /\ depth' \in [Flows -> 0..MaxDepth] /\ depth'[f] = k
      /\ \A h \in Flows \ {f} : depth'[h] = depth[h]
  BY <1>3, <1>6, <1>7
<1>10. /\ stk' \in [Flows -> Seq(Words)] /\ stk'[f] = Stack(s, x, k)
       /\ \A h \in Flows \ {f} : stk'[h] = stk[h]
  BY <1>3, <1>6, <1>8
<1>11. stk'[f] = Base(f)'
  BY <1>1, <1>9, <1>10 DEF Base, Stack
<1>12. ContextTypes'
  BY <1>1, <1>9, <1>10 DEF ContextTypes
<1>13. ASSUME NEW h \in Flows \ {f} PROVE Asleep(h)'
  BY <1>1, <1>2, <1>9, <1>10, AsleepKept
<1>14. /\ cpu'.flow = f /\ cpu'.pc = Ret(f) /\ depth'[f] > 0
       /\ \A r \in Preserved(backend') : cpu'.regs[r] = <<f, r>>
  BY <1>0, <1>1, <1>2, <1>7, <1>9 DEF Runs
<1> QED
  BY <1>11, <1>12, <1>13, <1>14, FlowResumed

\* Whatever flows are created and in whatever order they transfer to each
\* other, the one that goes on has its registers and its stack as it left them.
LEMMA ContextsKept == ContextSpec => [](ContextTypeOK /\ RegistersKept /\ StackKept)
<1>1. ContextInit => ContextInv
  BY ContextStarts
<1>2. ContextInv /\ [ContextNext]_contextVars => ContextInv'
  <2> SUFFICES ASSUME ContextInv, [ContextNext]_contextVars PROVE ContextInv'
    OBVIOUS
  <2>1. CASE UNCHANGED contextVars
    <3>0. backend' = backend /\ cpu' = cpu /\ stk' = stk /\ ctx' = ctx /\ depth' = depth
      BY <2>1 DEF contextVars
    <3>1. ContextTypes' /\ RegistersKept' /\ StackKept'
      BY <3>0 DEF ContextInv, ContextTypes, RegistersKept, StackKept, Runs
    <3>2. /\ \A f \in Flows : Asleep(f) => Asleep(f)'
          /\ \A f \in Flows : SetAside("create_coro", f) => SetAside("create_coro", f)'
      BY <3>0, AsleepKept, SuspendedKept
    <3>3. OneRuns'
      BY <3>0, <3>2 DEF ContextInv, OneRuns, Runs
    <3>4. Entering'
      BY <3>0, <3>2 DEF ContextInv, Entering
    <3> QED
      BY <3>1, <3>3, <3>4 DEF ContextInv
  <2>2. CASE \E c \in Coroutines : CreateContext(c)
    BY <2>2, CreateKeeps
  <2>3. CASE EnterContext
    BY <2>3, EnterKeeps
  <2>4. CASE \E g \in Flows : TransferTo(g)
    BY <2>4, TransferKeeps
  <2>5. CASE CallOrReturn
    BY <2>5, CallKeeps
  <2> QED
    BY <2>1, <2>2, <2>3, <2>4, <2>5 DEF ContextNext
<1>3. ContextInv => ContextTypeOK /\ RegistersKept /\ StackKept
  BY DEF ContextInv, ContextTypes, ContextTypeOK
<1> QED
  BY <1>1, <1>2, <1>3, PTL DEF ContextSpec

\* BackendsTransfer of Library: the flow that coro_transfer names goes on,
\* alone, with the registers and the stack it had.
THEOREM BackendsCorrect == CoroThreadSpec /\ ContextSpec => []BackendsTransfer
<1>1. RunnerHoldsMutex /\ DueRuns /\ RegistersKept /\ StackKept => BackendsTransfer
  BY DEF BackendsTransfer
<1> QED
  BY <1>1, ThreadsTakeTurns, ContextsKept, PTL

=============================================================================
