---------------------------- MODULE CoroBackends ----------------------------
(***************************************************************************)
(* The backends of src/coro.c that the signal stack backend of Fibers      *)
(* stands beside: one is compiled in, and each must keep the same promise. *)
(***************************************************************************)
EXTENDS CoroThread, Context

\* The other backends of coro.c: the flow that coro_transfer names goes on, alone,
\* with the registers and the stack it had.
BackendsTransfer == RunnerHoldsMutex /\ DueRuns /\ RegistersKept /\ StackKept

=============================================================================
