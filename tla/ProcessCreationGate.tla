------------------------- MODULE ProcessCreationGate -------------------------
(***************************************************************************)
(* NewProcessInjector (src/src/windhawk/engine/new_process_injector.h),   *)
(* the spec's ProcessCreationGate.  Only the class declaration is in the  *)
(* repository: the state is its members (m_pThis, m_hookProcCallCounter, *)
(* m_originalCreateProcessInternalW), the steps are the contract of spec  *)
(* sections 4.1 and 5.                                                     *)
(*                                                                         *)
(* Threads of the hooked process call CreateProcessInternalW.  While the  *)
(* hook is installed the call jumps to CreateProcessInternalW_Hook, which *)
(* increments the counter, calls the original entry point, decides with   *)
(* ShouldSkipNewProcess, injects the engine (which may create a helper     *)
(* process and so re-enter the hook on the same thread), and returns the   *)
(* original result after decrementing the counter.  The destructor removes *)
(* the hook, waits for the counter to reach zero, and then releases the    *)
(* original entry point and clears m_pThis.                                *)
(***************************************************************************)
EXTENDS Integers, Sequences, FiniteSets

CONSTANTS
    Threads,    \* threads of the hooked process that create processes
    MaxDepth    \* bound on hook frames on one thread (injection re-entering)

ASSUME GateAssumption == MaxDepth \in Nat \ {0}

VARIABLES
    hook,       \* what CreateProcessInternalW jumps to: "installed", "removed"
    owner,      \* the destructor: "running" (not called), "waiting", "released"
    counter,    \* m_hookProcCallCounter
    stack       \* per thread, the hook frames in flight, innermost last

vars == <<hook, owner, counter, stack>>

(* A hook frame: where it is and what the original entry point returned. *)
(* "dispatched": jumped into the hook, before the counter is incremented. *)
Frame == [pc: {"dispatched", "entered", "created", "injecting", "returning"},
          real: {"none", "ok", "fail"}]

NewFrame == [pc |-> "dispatched", real |-> "none"]

Top(t) == stack[t][Len(stack[t])]

(* s without its last element. *)
Front(s) == [i \in 1..(Len(s) - 1) |-> s[i]]

(* The stacks with t's innermost frame replaced by f. *)
SetTop(t, f) == [stack EXCEPT ![t] = Append(Front(stack[t]), f)]

(* The header's members: the hook is installed by the constructor. *)
Init ==
    /\ hook = "installed"
    /\ owner = "running"
    /\ counter = 0
    /\ stack = [t \in Threads |-> <<>>]

(* A thread calls CreateProcessInternalW and lands in the hook. *)
Call(t) ==
    /\ stack[t] = <<>>
    /\ hook = "installed"
    /\ stack' = [stack EXCEPT ![t] = <<NewFrame>>]
    /\ UNCHANGED <<hook, owner, counter>>

(* Step 1: the hook reads m_pThis and increments its counter. *)
Enter(t) ==
    /\ stack[t] # <<>>
    /\ Top(t).pc = "dispatched"
    /\ counter' = counter + 1
    /\ stack' = SetTop(t, [Top(t) EXCEPT !.pc = "entered"])
    /\ UNCHANGED <<hook, owner>>

(* Step 2: the original CreateProcessInternalW creates the process or fails. *)
CallOriginal(t) ==
    /\ stack[t] # <<>>
    /\ Top(t).pc = "entered"
    /\ \E r \in {"ok", "fail"} :
          stack' = SetTop(t, [Top(t) EXCEPT !.pc = "created", !.real = r])
    /\ UNCHANGED <<hook, owner, counter>>

(* Steps 3-4: on a created process, ShouldSkipNewProcess decides whether *)
(* HandleCreatedProcess injects the engine.                               *)
Decide(t) ==
    /\ stack[t] # <<>>
    /\ Top(t).pc = "created"
    /\ Top(t).real = "ok"
    /\ \E skip \in BOOLEAN :
          stack' = SetTop(t, [Top(t) EXCEPT !.pc = IF skip THEN "returning"
                                                              ELSE "injecting"])
    /\ UNCHANGED <<hook, owner, counter>>

(* The injection creates a helper process: the call re-enters the hook on *)
(* the same thread while it is still installed.                           *)
InjectNested(t) ==
    /\ stack[t] # <<>>
    /\ Top(t).pc = "injecting"
    /\ Len(stack[t]) < MaxDepth
    /\ hook = "installed"
    /\ stack' = [stack EXCEPT ![t] = Append(stack[t], NewFrame)]
    /\ UNCHANGED <<hook, owner, counter>>

(* Step 4: injection ends, in success or in a failure that is logged and *)
(* swallowed: the two leave the same state.                             *)
InjectDone(t) ==
    /\ stack[t] # <<>>
    /\ Top(t).pc = "injecting"
    /\ stack' = SetTop(t, [Top(t) EXCEPT !.pc = "returning"])
    /\ UNCHANGED <<hook, owner, counter>>

(* A failed creation returning without decrementing the counter. *)
ReturnNoDecrementOnFailure(t) ==
    /\ stack[t] # <<>>
    /\ \/ Top(t).pc = "returning"
       \/ Top(t).pc = "created" /\ Top(t).real = "fail"
    /\ counter' = IF Top(t).real = "fail" THEN counter ELSE counter - 1
    /\ stack' = [stack EXCEPT ![t] = Front(stack[t])]
    /\ UNCHANGED <<hook, owner>>

(* Steps 1 and 6: the original's result is returned, and the counter is  *)
(* decremented on every path, the early return on a failed creation      *)
(* included.                                                              *)
Return(t) ==
    /\ stack[t] # <<>>
    /\ \/ Top(t).pc = "returning"
       \/ Top(t).pc = "created" /\ Top(t).real = "fail"
    /\ counter' = counter - 1
    /\ stack' = [stack EXCEPT ![t] = Front(stack[t])]
    /\ UNCHANGED <<hook, owner>>

(* ~NewProcessInjector: remove the hook, so that new calls reach the     *)
(* original entry point directly.                                         *)
Teardown ==
    /\ owner = "running"
    /\ hook' = "removed"
    /\ owner' = "waiting"
    /\ UNCHANGED <<counter, stack>>

(* ~NewProcessInjector: the drain loop polls the counter while it is not *)
(* zero.                                                                  *)
Wait ==
    /\ owner = "waiting"
    /\ counter # 0
    /\ UNCHANGED vars

(* ~NewProcessInjector: once the counter is zero, release the original   *)
(* entry point and clear m_pThis.                                         *)
Release ==
    /\ owner = "waiting"
    /\ counter = 0
    /\ owner' = "released"
    /\ UNCHANGED <<hook, counter, stack>>

(* The injector is gone and no thread is inside the hook. *)
Terminated ==
    /\ owner = "released"
    /\ \A t \in Threads : stack[t] = <<>>
    /\ UNCHANGED vars

ThreadStep(t) ==
    \/ Enter(t) \/ CallOriginal(t) \/ Decide(t)
    \/ InjectNested(t) \/ InjectDone(t) \/ Return(t)

Next ==
    \/ \E t \in Threads : Call(t) \/ ThreadStep(t)
    \/ Teardown \/ Wait \/ Release
    \/ Terminated

(* A thread inside the hook runs to its end (the calls it makes return), *)
(* and a destructor that has started goes on; nothing forces a thread to *)
(* create a process or the owner to destroy the injector.                 *)
Fairness ==
    /\ \A t \in Threads : WF_vars(ThreadStep(t))
    /\ WF_vars(Release)

Spec == Init /\ [][Next]_vars /\ Fairness

-----------------------------------------------------------------------------

TypeOK ==
    /\ hook \in {"installed", "removed"}
    /\ owner \in {"running", "waiting", "released"}
    /\ counter \in Int
    /\ stack \in [Threads -> Seq(Frame)]

(* The frames of t that have incremented the counter. *)
Counted(t) == {i \in 1..Len(stack[t]) : stack[t][i].pc # "dispatched"}

(* The frames of all threads that have incremented the counter, as pairs  *)
(* <<thread, depth>>.                                                     *)
CountedFrames == UNION {{<<t, i>> : i \in Counted(t)} : t \in Threads}

(* Section 8: m_hookProcCallCounter is never negative and equals the      *)
(* calls that entered the hook minus those that left it, across threads   *)
(* and nested injections, the early return on a failed creation included. *)
CounterMatchesFrames == counter = Cardinality(CountedFrames)

(* Section 5: once the destructor has started it releases the original   *)
(* entry point: every hook frame in flight returns and the counter drains *)
(* to zero, the frames that re-entered the hook from the injection too.   *)
DrainCompletes ==
    owner = "waiting" ~> owner = "released"

(* Section 5: the original entry point and m_pThis are never released    *)
(* while a thread is still executing the hook.                            *)
NoHookFrameAfterRelease ==
    owner = "released" => \A t \in Threads : stack[t] = <<>>

=============================================================================
