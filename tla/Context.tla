------------------------------ MODULE Context -------------------------------
(***************************************************************************)
(* The backends of src/coro.c that switch stacks: the assembler ones, the  *)
(* ones that patch a jmp_buf, ucontext and Windows fibers.  Fibers models  *)
(* the signal stack backend, CoroThread the one with threads.              *)
(*                                                                         *)
(* A flow is the main program or a coroutine, with a stack of words; its   *)
(* own context (coro_context) has its name.  A word is a pair: the flow it *)
(* belongs to and what it is.  A flow that runs has put values of its own  *)
(* into every register that a function must preserve.                      *)
(***************************************************************************)
EXTENDS Integers, Sequences

CONSTANTS
    Coroutines,   \* the coroutines
    MaxDepth      \* bound on the nested calls of a flow

VARIABLES
    backend,      \* the backend that is compiled in
    cpu,          \* the flow that runs, where it goes on, the registers
    stk,          \* the stacks, growing to the right
    ctx,          \* the contexts
    depth         \* how many calls of each flow have not returned

contextVars == <<backend, cpu, stk, ctx, depth>>

Flows == Coroutines \cup {"main program"}
Contexts == Flows \cup {"create_coro"}

\* The other names are not those of coroutines.
ASSUME ContextAssumption ==
    /\ {"main program", "create_coro", "none"} \cap Coroutines = {}
    /\ MaxDepth \in Nat \ {0}

Code(what) == <<"code", what>>
NullWord == <<"code", "0">>
Ret(f) == <<f, "return address">>
Call(f) == <<f, "call">>

-----------------------------------------------------------------------------
(* The assembler *)

Assembler == {"amd64", "win64", "i386", "win32"}
\* The words of the thread information block, by their names on 64 bits.
Tib(b) == IF b \in {"win64", "win32"} THEN <<"fs:0", "fs:8", "fs:c">> ELSE << >>

\* The registers in the order in which coro_transfer pushes them.
Pushed(b) ==
    (CASE b = "amd64" -> <<"rbp", "rbx", "r12", "r13", "r14", "r15">>
       [] b = "win64" -> <<"rsi", "rdi", "rbp", "rbx", "r12", "r13", "r14", "r15">>
       [] OTHER -> <<"ebp", "ebx", "esi", "edi">>) \o Tib(b)
NUM_SAVED(b) == Len(Pushed(b)) - Len(Tib(b))

Popped(b) == LET n == Len(Pushed(b)) IN [i \in 1..n |-> Pushed(b)[(n - i) + 1]]

\* The first words of a new stack.  The zeros are above the words for the
\* thread information block, where the pops look for registers first.
NewStack(b, c) ==
    <<Code("abort"), Code("coro_init")>>
      \o (IF Tib(b) = << >> THEN << >> ELSE <<NullWord, <<c, "base">>, <<c, "limit">>>>)
      \o [i \in 1..NUM_SAVED(b) |-> NullWord]

-----------------------------------------------------------------------------
(* The backends whose contexts hold registers, stack and place *)

Jumping == {"LOSER", "LINUX", "IRIX", "UCONTEXT", "WIN32"}
Backends == Assembler \cup Jumping

Registers(b) == IF b \in Assembler THEN {Pushed(b)[i] : i \in 1..Len(Pushed(b))}
                ELSE {"preserved"}
TibRegisters(b) == {Tib(b)[i] : i \in 1..Len(Tib(b))}
Own(b, f) == [r \in Registers(b) |-> <<f, r>>]

\* How many words STACK_ADJUST_PTR and the subtraction of a word leave free at
\* the top of the stack; makecontext and CreateFiber leave one.
Adjusted(b) == IF b \in {"LINUX", "IRIX"} THEN 2 ELSE 1

\* A new context and its stack.  setjmp and getcontext save the registers of
\* the creator; coro_init has none to preserve.
Created(b, c) ==
    IF b \in Assembler
    THEN [ctx   |-> [flow |-> c, sp |-> Len(NewStack(b, c)), regs |-> cpu.regs, pc |-> NullWord],
          stack |-> NewStack(b, c)]
    ELSE [ctx   |-> [flow |-> c, sp |-> Adjusted(b), regs |-> cpu.regs,
                     pc |-> Code("coro_init")],
          stack |-> [i \in 1..Adjusted(b) |-> NullWord]]

-----------------------------------------------------------------------------
(* coro_transfer: the flow that runs is saved in prev, next goes on *)

Save(b, f, regs, stack) ==
    IF b \in Assembler
    THEN LET s == stack \o <<Ret(f)>> \o [i \in 1..Len(Pushed(b)) |-> regs[Pushed(b)[i]]]
         IN  [ctx |-> [flow |-> f, sp |-> Len(s), regs |-> regs, pc |-> NullWord], stack |-> s]
    ELSE [ctx |-> [flow |-> f, sp |-> Len(stack), regs |-> regs, pc |-> Ret(f)], stack |-> stack]

\* What the cpu and the stack are when the context c goes on.
Load(b, c, stack) ==
    LET n   == Len(Popped(b))
        pos == [r \in Registers(b) |-> CHOOSE i \in 1..n : Popped(b)[i] = r]
    IN  IF b \in Assembler
        THEN [cpu   |-> [flow |-> c.flow, pc |-> stack[c.sp - n],
                         regs |-> [r \in Registers(b) |-> stack[c.sp + 1 - pos[r]]]],
              stack |-> SubSeq(stack, 1, c.sp - n - 1)]
        ELSE [cpu   |-> [flow |-> c.flow, pc |-> c.pc, regs |-> c.regs],
              stack |-> SubSeq(stack, 1, c.sp)]

\* From the given contexts, registers and stacks.
Switch(contexts, regs, stacks, prev, next) ==
    LET f      == cpu.flow
        saved  == Save(backend, f, regs, stacks[f])
        to     == [contexts EXCEPT ![prev] = saved.ctx]
        there  == [stacks EXCEPT ![f] = saved.stack]
        loaded == Load(backend, to[next], there[to[next].flow])
    IN  /\ ctx' = to
        /\ cpu' = loaded.cpu
        /\ stk' = [there EXCEPT ![to[next].flow] = loaded.stack]
        /\ UNCHANGED backend

-----------------------------------------------------------------------------
(* Steps *)

Runs == cpu.pc = Ret(cpu.flow)

\* coro_create up to the first transfer.
CreateContext(c) ==
    /\ Runs /\ stk[c] = << >>
    /\ LET new == Created(backend, c)
       IN  Switch([ctx EXCEPT ![c] = new.ctx], cpu.regs, [stk EXCEPT ![c] = new.stack],
                  "create_coro", c)
    /\ UNCHANGED depth

\* coro_init transfers back from new_coro to create_coro.
EnterContext ==
    /\ cpu.pc = Code("coro_init")
    /\ depth' = [depth EXCEPT ![cpu.flow] = 1]
    /\ Switch(ctx, [r \in Registers(backend) |-> IF r \in TibRegisters(backend) THEN cpu.regs[r]
                                               ELSE <<cpu.flow, r>>],
              [stk EXCEPT ![cpu.flow] = Append(@, Call(cpu.flow))], cpu.flow, "create_coro")

TransferTo(g) ==
    /\ Runs /\ g # cpu.flow /\ ctx[g].flow = g
    /\ Switch(ctx, cpu.regs, stk, cpu.flow, g)
    /\ UNCHANGED depth

Return(s) == SubSeq(s, 1, Len(s) - 1)

\* The flow that runs calls a function, or returns from one.
CallOrReturn ==
    /\ Runs
    /\ LET f == cpu.flow
       IN  \/ /\ depth[f] < MaxDepth
              /\ depth' = [depth EXCEPT ![f] = @ + 1]
              /\ stk' = [stk EXCEPT ![f] = Append(@, Call(f))]
           \/ /\ depth[f] > 1
              /\ depth' = [depth EXCEPT ![f] = @ - 1]
              /\ stk' = [stk EXCEPT ![f] = Return(@)]
    /\ UNCHANGED <<backend, cpu, ctx>>

NoContext == [flow |-> "none", sp |-> 0, regs |-> << >>, pc |-> NullWord]

ContextInit ==
    /\ backend \in Backends
    /\ cpu = [flow |-> "main program", pc |-> Ret("main program"),
              regs |-> Own(backend, "main program")]
    /\ stk = [f \in Flows |-> IF f = "main program" THEN <<Call(f)>> ELSE << >>]
    /\ ctx = [c \in Contexts |-> NoContext]
    /\ depth = [f \in Flows |-> IF f = "main program" THEN 1 ELSE 0]

ContextNext ==
    \/ \E c \in Coroutines : CreateContext(c)
    \/ EnterContext
    \/ \E g \in Flows : TransferTo(g)
    \/ CallOrReturn

ContextSpec == ContextInit /\ [][ContextNext]_contextVars

-----------------------------------------------------------------------------
(* Properties *)

\* The types of the contexts and the stack depths that coro.c switches between.
ContextTypeOK ==
    /\ backend \in Backends /\ cpu.flow \in Flows
    /\ \A c \in Contexts : ctx[c].flow \in Flows \cup {"none"} /\ ctx[c].sp \in Nat
    /\ depth \in [Flows -> 0..MaxDepth]

\* What is on the stack of a flow before its first call: the assembler leaves
\* abort as the return address of coro_init.
Bottom(b, f) == IF f = "main program" THEN << >>
                ELSE IF b \in Assembler THEN <<Code("abort")>>
                ELSE [i \in 1..Adjusted(b) |-> NullWord]

\* A flow that goes on after coro_transfer has its registers as they were: the
\* pops undo the pushes, whichever flow was left by which transfer.
RegistersKept ==
    Runs => \A r \in Registers(backend) \ TibRegisters(backend) :
              cpu.regs[r] = <<cpu.flow, r>>

\* It goes on at its own return address with the stack it had; and a new one
\* enters coro_init, at the bottom of its own stack.
StackKept ==
    LET f == cpu.flow
    IN  /\ cpu.pc \in {Ret(f), Code("coro_init")}
        /\ stk[f] = Bottom(backend, f) \o [i \in 1..depth[f] |-> Call(f)]

=============================================================================
