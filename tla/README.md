# TLA+ models of Windhawk

This directory holds TLA+ specifications of parts of Windhawk, the TLC
configurations that model-check them, and TLAPS proofs. Source paths below are
relative to the repository root.

## The system and its parts

| Part | Source | Role | Status |
|---|---|---|---|
| UpdateChecker (the spec's UpdateCheckSession) | `src/src/windhawk/engine/session_private_namespace.cpp` lines 100-271 | Reports usage and checks for updates over HTTP: a primary request (POST with usage data, else GET), then one GET fallback when the server answers 405 with the "invalid header" transport result. Runs synchronously, or asynchronously with a completion callback. The owner may `Abort`. | modelled (partly) |
| SessionPrivateNamespace (the spec's SessionNamespace) | same file, lines 1-96 | `MakeName` formats the session manager's process id into a bounded name. `Create` builds a boundary descriptor and creates a private namespace; `Open` opens it. | modelled |
| NewProcessInjector (the spec's ProcessCreationGate) | `src/src/windhawk/engine/new_process_injector.h` | Hooks process creation and injects the engine into children. A process-wide singleton pointer and an atomic counter of hook calls in flight guard teardown. Only the header is in the repository. | partly, from the spec |
| UpdateUtils | `src/src/vscode-windhawk/src/utils/appSettingsUtils.ts` 726-912, `src/unnamed/part_000` | The VS Code extension's self-update: download the installer, with cancel; run it; clean up. Replies are sent to the webview. | planned |
| App settings codec and storage | `appSettingsUtils.ts` 1-725 | Typed fields are parsed from and serialized to INI or the registry. | planned |
| ModConfigUtils | `src/src/vscode-windhawk/src/utils/modConfigUtils.ts` | Mod settings codec, `mergeModSettings`, INI and registry storage. | planned |
| UI | `src/src/vscode-windhawk-ui/...`, `src/unnamed/part_001`-`part_005` | `EditorModeControls` and the update modal are state machines (planned). The rest is rendering and is not modelled. | partly planned |

How the parts interact:
- The engine's session manager creates the namespace at startup. Other processes open it by recomputing the same name.
- Every hooked process runs its own injector.
- The session manager drives update checks.
- The extension and the webview UI talk by messages. Of these messages, only the update flow has a protocol worth checking.

## UpdateChecker

### Modules

- **`UpdateChecker.tla`**: the detailed model. It covers the three threads that touch one checker object:
  - the constructing thread;
  - the transport's completion thread, which runs `OnRequestDone` and the fallback's callback;
  - the owner's calls of `Abort`, any number of them (the constant `Aborters`), each on a thread of its own, so that a second call, or two calls at once, interleave with each other and with `OnRequestDone`.
- **`UpdateCheckSession.tla`**: the abstract promise:
  - `idle -> primary -> (fallback ->) finished`, or `failedToStart`;
  - the fallback only before Abort;
  - an asynchronous owner is notified exactly once, when the exchange ends.
- **`MCUpdateChecker.tla`**: gives TLC five transport outcomes:
  - S_OK/200, S_OK/405;
  - invalid-header/405 (the retry case), invalid-header/200;
  - another error.

  It also gives two calls of `Abort` (`Aborters = {ab1, ab2}`, model values). Two calls are enough: a call interacts with the others only through `m_aborted`, which every call sets to the same value, and through the mutex, which two calls already contend for.
- **`UpdateChecker_proofs.tla`**: the TLAPS proofs of the invariants.
- **`UpdateChecker_refinement.tla`**: the TLAPS proof that the checker implements the safety part of `UpdateCheckSession`.

### State

| Variable | Code |
|---|---|
| `async` | whether `onUpdateCheckDone` was passed |
| `posted` | whether `m_postedData` is non-empty |
| `req["primary"]`, `req["get"]` | `m_httpSimple` and `*m_httpSimpleGetRequest`, with fields: not created / sending / completed, the transport result and status, whether it was aborted in flight, whether it was sent with a callback |
| `aborted` | `m_aborted` |
| `lock` | owner of `m_httpSimpleGetRequestMutex`: `"free"`, `"cb"` (the completion thread) or a call of `Abort` |
| `ctor`, `cbPc`, `abPc[a]` | program counters of the constructor, of the completion thread and of each call `a` of `Abort`, one value per code point between shared accesses |
| `doneCount` | how many times `m_onUpdateCheckDone` ran |
| `reported` | the `HandleResponse` result the owner read |

### Actions

| Action | Code |
|---|---|
| `ConstructorStart` | 189-197: `AddHeaders` can throw when posting; in async mode a failing `SendRequest` throws |
| `ConstructorAfterPrimary` | 198-202: the synchronous retry |
| `ConstructorAfterGet` | return once the synchronous fallback is done |
| `PrimaryCompletes`, `GetCompletes` | the transport completing a request: E_ABORT if aborted, otherwise any outcome; the fallback's callback, line 259 |
| `OnRequestDoneCheck` | line 251, the unlocked read of `m_aborted`, with the done call of line 270 |
| `OnRequestDoneLock` | line 252 |
| `OnRequestDoneRecheck` | line 254, the re-check of `m_aborted` under the mutex: when it is set, unlock and notify (268-270); otherwise go on to create the fallback (`cbPc = "create"`) |
| `OnRequestDoneCreate` | lines 256-266, still under the mutex: create and send the fallback; or, when sending fails, reset it and notify |
| `AbortSetFlag(a)`, `AbortPrimary(a)`, `AbortLock(a)`, `AbortGet(a)` | lines 207, 209, 212, 213-216, in the call `a` |
| `CallerHandleResponse` | the owner of a synchronous checker reading `HandleResponse` |

Every call of `m_onUpdateCheckDone` (`CallDone`) also records what `HandleResponse` returns at that moment. `parseOk` stands for whether `UpdateContentWithOnlineData` throws (line 234).

### The transport

`CWinHTTPSimple` is not in the repository, so it is modelled by its interface:
- a sent request completes with one of `TransportOutcomes`, or with E_ABORT once aborted;
- its callback runs once;
- a synchronous `SendRequest` returns after completion;
- aborting a request that is not in flight does nothing.

Where this assumption matters: the spec's open question (section 9) asks whether the synchronous fallback is awaited. The model assumes it is, because `SendRequest(nullptr)` is synchronous.

### Runs

**`update_checker`** (`MCUpdateChecker.cfg`, passes, 2291 distinct states). Its properties:
- `DoneAtMostOnce`: the owner's callback runs at most once, whichever of lines 259, 263 and 270 reaches it.
- `AbortLeavesNothingRunning`: after any call of Abort returns, every request still in flight was aborted. This includes a fallback created by the completion thread concurrently, and holds however the other call interleaves. It depends on two things. The re-check of `m_aborted` under the mutex (line 254) stops a completion thread that read the flag clear at 251 and then lost the mutex to Abort. And Abort takes the mutex (212) before it looks at `m_httpSimpleGetRequest`: the flag is set without the mutex (207), so it can land after the re-check at 254 and before the fallback is created at 256. Then the fallback is created and sent with the flag set, and only Abort waiting for the mutex makes it see, and abort, that request.
- `ReportedRequestCompleted`: `HandleResponse` never reads a fallback that is in flight or failed to send. This depends on the reset at line 261.
- `DoneEventually`: an asynchronous checker that was constructed notifies its owner, aborted or not.
- `SessionSpec`: the checker implements `UpdateCheckSession` under the refinement mapping `AbsPhase` (the phase read off the threads and the requests), with `doneCount` as the notification count. Its fairness conditions are checked too.

Each property has a mutant in `PROJECT.json`: a plausible bug in the mapped code that makes TLC report a violation. Examples are the catch block falling through to line 270, the missing reset, a catch that only logs, and a synchronous fallback sent with the callback. `AbortLeavesNothingRunning` has two: the missing re-check under the mutex, and an Abort that reads `m_httpSimpleGetRequest` without taking the mutex (line 212).

The re-check (254) and the creation (256) are separate steps because `m_aborted` is written by Abort without the mutex, so an Abort can set it between them. The unlock at 268 and the call at 270 stay one step: between them the completion thread touches no state of the checker.

**`update_checker_abort`** (`MCUpdateChecker_abort.cfg`, violation expected). `NoSuccessAfterAbort` states the spec's sentence "After Abort, no further completion callback fires with a succeeded result". TLC finds this trace:
1. The primary request completes with S_OK.
2. Abort runs to the end.
3. `OnRequestDone` takes the no-retry branch and calls `m_onUpdateCheckDone` at line 270 without looking at `m_aborted`.
4. The owner then reads S_OK.

This is recorded as a divergence between spec and code.

### Bounds and fairness

**Bounds.** The model has no numeric bounds. The outcome set is the only parameter, and its five values exercise:
- the retry case and each half of its condition;
- success;
- failure.

Both modes and both `posted` values are initial states, so construction failure, retry, abort at every program point, and send failure of the fallback are all reached.

**Fairness.** Weak fairness is assumed on the transport (WinHTTP requests end, by timeout if nothing else) and on every step of code that is already running. There is no fairness on the owner calling Abort or reading a synchronous result, because those are the owner's choice.

**Deadlock.** Deadlock is checked. The terminal states are the ones where all threads have returned and nothing is in flight (`Terminated`).

### Proofs (`UpdateChecker_proofs.tla`, checked by `tlapm`)

**Assumptions.** The theorems hold for every set of transport outcomes and every set of Abort calls. They depend on two assumptions:
- `TransportOutcomesAssumption`: outcomes are records of a transport hr and a natural status;
- `AbortersAssumption`: a call of Abort is named apart from `"free"` and `"cb"`, the other values of `lock`.

- **`TypeCorrect`**: `Spec => []TypeOK`. It rests on lemmas that the record builders (`Sending`, `Completed`, `Cancelled`, `HandleResponse`) return typed records.
- **`IInvInvariant`**: `Spec => []IInv`. `IInv` is the inductive strengthening that the safety properties need. Its conjuncts:
  - `CtorInv`: the constructor's position against the requests.
  - `ReqInv`: a request is sent with a callback exactly in async mode, and the fallback follows a rejection.
  - `CbInv`: `OnRequestDone`'s position against the requests. The fallback exists only once `OnRequestDone` has returned, and from the lock on the primary request was rejected with 405 / invalid header (`FallbackOnlyAfterRejection`, a helper of the proof).
  - `LockInv`: the mutex is held by whichever thread's program counter says so: the completion thread between the lock and the end of the creation (`cbPc` `"locked"` or `"create"`), a call of Abort at its `"get"` step. With several calls of Abort, this is what keeps two of them out of the locked section together.
  - `AbortInv`: `m_aborted` is set exactly when some call of Abort has started. `AbortCallInv(a)` records each call's progress against the cancelled flags, and that no call is past its lock while the completion thread is creating the fallback. That last conjunct is what proves `AbortLeavesNothingRunning` for a fallback created after the flag was set.
  - `DoneInv`: `doneCount` is 1 exactly when `OnRequestDone` has returned in async mode and no fallback is in flight.

  None of the three properties is inductive on its own. For example, `DoneAtMostOnce` needs `DoneInv` to know that the fallback's callback has not already been counted. TLC checked `IInv` as an invariant before it was proved. The proof of `IInv /\ [Next]_vars => IInv'` has one step per action and, under it, one step per conjunct.
- **`DoneAtMostOnceInvariant`, `AbortLeavesNothingRunningInvariant`, `ReportedRequestCompletedInvariant`**: the three safety properties of the run, proved from `IInv`.

A request can be created after `m_aborted` is set (the fallback, when Abort sets the flag between lines 254 and 256), so no property says otherwise; what the code guarantees is `AbortLeavesNothingRunning`.

**Refinement (`UpdateChecker_refinement.tla`).** `SessionSafetyRefined` proves `Spec => SessionSafety`, for every set of transport outcomes. `SessionSafety` is `Session!Init /\ [][Session!Next]_Session!vars`: the safety part of `SessionSpec` under the mapping `phase <- AbsPhase`, `notifications <- doneCount`. The argument has two lemmas:
- `InitRefines`: a checker that has not started is an idle session.
- `StepRefines`: in a state that satisfies `IInv`, every step of the checker is a session step or leaves the session's variables unchanged. The proof has one step per action:
  - `ConstructorStart` is `Start`;
  - the synchronous `ConstructorAfterPrimary` and the branch of `OnRequestDoneRecheck` that reads the flag clear are `Retry`: the retry is committed at the re-check (line 254), the only point where the completion thread reads `m_aborted` under the mutex, so `Retry`'s guard `~aborted` holds there. `AbsPhase` is `"fallback"` from then on (`cbPc = "create"`), and an Abort that sets the flag before the GET is created is the session's `Abort` in phase fallback;
  - the aborted branch of `OnRequestDoneRecheck`, the reporting branch of `OnRequestDoneCheck`, and the non-retrying `ConstructorAfterPrimary` are `PrimaryEnds`;
  - `GetCompletes` and the failed send of `OnRequestDoneCreate` are `FallbackEnds`; its successful send stutters;
  - `AbortSetFlag(a)` is `Abort`, for the first call and for every later one;
  - the rest stutter. The lemma `AbortRequestFacts` shows that aborting a request never changes a status that `AbsPhase` reads.

`IInv` carries the proof. It rules out the states where `AbsPhase` would jump:
- a fallback request before the primary one has completed;
- a callback that does not match the mode, so that `Notify` and `CallDone` disagree;
- a synchronous constructor that has returned while a request is in flight.

`AbsPhase` is written as a chain of `IF`s, not as a `CASE`. TLC evaluates both the same way, but with the chain the provers get a single defined phase without a separate proof that the guards are disjoint.

**Model-checked only.** These stay with TLC, because TLAPS does not handle liveness or ENABLED:
- `DoneEventually`;
- the fairness part of `SessionSpec`: a started exchange ends.

### Not modelled in UpdateChecker

- **The destructor.**
- **Building the request options (user agent, verb).** This is reduced to the `posted` flag.

## SessionNamespace

### Modules

- **`SessionNamespace.tla`**: `MakeName`, `Create` and `Open` of `session_private_namespace.cpp`, run by session manager processes and client processes against a model of the kernel's private namespaces.
- **`MCSessionNamespace.tla`**: three managers sharing three process ids (0, 999999999 and 2147483647), so an id may be handed out again after its manager exits, and two clients.
- **`SessionNamespace_proofs.tla`**: the TLAPS proofs.

### How the code maps

| Definition | Code |
|---|---|
| `Digits`, `FormatName`, `MakeName` | lines 42-48: `swprintf_s(buf, kPrivateNamespaceMaxLen + 1, L"WindhawkSession%u", pid)`. The name is the prefix and the decimal digits of the id. When text and terminator do not fit, swprintf_s leaves the empty string (`Overflow`). |
| `BoundaryOf` | `BuildBoundaryDescriptor`, lines 8-36: the boundary is named by the namespace name and carries the World SID and the medium label |
| `Create(m)` | lines 50-80. Any of the six OS calls may fail (`osOk`). `CreatePrivateNamespace` fails with "exists" when the kernel finds a namespace of that boundary and name. |
| `Open(c)` | lines 82-96, with the id of a manager the client was started by, which may have exited since |
| `ManagerExit(m)`, `Close(c)` | the release of the returned wil handle: `unique_private_namespace_destroy` destroys the namespace, `unique_private_namespace_close` only closes it |

**The kernel.** A namespace is found by boundary and name while it is not destroyed and a handle still refers to it (`Lookup`). Live processes have distinct ids. An exited manager's id may be handed out again (`ManagerStart`). These are the OS's documented behaviour, not code of the repository, and are not in the map.

### Runs

**`session_namespace`** (`MCSessionNamespace.cfg`, passes, 23708 distinct states, symmetry over managers and clients). Its properties:
- `MakeNameRoundTrip`: for the id of every manager that has started, the name fits its buffer and the id is read back from its digits by a reference definition (`DecimalValue`). So two ids never share a name. The managers' ids are 0, 999999999 and 2147483647: one digit, nine digits and ten digits. TLC's integers stop at 2^31 - 1. The largest DWORD has the same ten digits as 2147483647, so the longest name is reached.
- `CreateNeverCollides`: `Create` never fails because the namespace already exists. This holds even when the id of an exited manager is reused while a client still holds the old namespace open.
- `OpenJoinsLiveManager` (an action property): an `Open` that succeeds joins the namespace of the live manager with the id it passed, never one left behind.

The mutants are a buffer one character short (off by one on `kPrivateNamespaceMaxLen + 1`) and a manager handle that closes without the destroy flag.

### Proofs

`SessionNamespace_proofs.tla` proves three theorems for every set of managers, clients and ids:
- `IInvInvariant`;
- `CreateNeverCollidesInvariant`;
- `OpenJoinsLiveManagerHolds`.

`IInv` says:
- every namespace that is not destroyed is held by the live manager that created it, under that manager's name;
- live managers have distinct ids;
- two managers never hold the same namespace.

The lemma `LookupOwned` draws the consequence: what `Create` or `Open` finds under a name belongs to the live manager of that id.

The theorems have the hypothesis `MakeNameInjective`: `MakeName` tells ids apart. This is a fact about decimal digits. Proving it needs induction over the recursive `Digits`, which the provers cannot do. TLC checks it as `MakeNameRoundTrip` on the ids above.

### Not modelled in SessionNamespace

- **A manager killed before its handle is released.** What the kernel then does with the namespace is not given by the code.
- **Low-integrity clients being refused by the medium label.** This is kernel policy, with no branch in the code.
- **The security descriptor's contents.**

## ProcessCreationGate

### Modules

- **`ProcessCreationGate.tla`**: the hook on `CreateProcessInternalW` and the destructor's drain. Only the class declaration of `new_process_injector.h` is in the repository. The state comes from its members; the steps are modelled from spec sections 4.1 and 5 and marked `spec_modelled` in the map.
- **`MCProcessCreationGate.tla`**: two threads, and injections that re-enter the hook once, so a thread holds up to two frames.
- **`ProcessCreationGate_proofs.tla`**: the TLAPS proof of `CounterMatchesFrames`.

### State and actions

| Variable or action | Meaning |
|---|---|
| `hook` | whether `CreateProcessInternalW` jumps to the hook |
| `counter` | `m_hookProcCallCounter` |
| `stack[t]` | the hook frames of thread `t` |
| `owner` | the destructor's progress |
| `Call`, `Enter` | jumping into the hook, then incrementing the counter (step 1) |
| `CallOriginal` | step 2; a failed creation returns at once |
| `Decide` | `ShouldSkipNewProcess` (step 3), a nondeterministic choice |
| `InjectNested`, `InjectDone` | `HandleCreatedProcess`: the injection may create a helper process and re-enter the hook; its failure is swallowed |
| `Return` | step 6, decrementing on every path |
| `Teardown`, `Wait`, `Release` | the destructor: unhook, poll the counter, release once it is zero |

**Fairness.** Weak fairness on every thread's steps inside the hook, because the calls it makes return. Weak fairness on `Release`. There is none on a thread starting a call or on the owner starting the destructor.

### Runs

**`process_gate`** (passes, 387 distinct states):
- `CounterMatchesFrames` (spec section 8): the counter equals the frames that have incremented it, over all threads and nested frames.
- `DrainCompletes`: a started destructor releases.
Both properties use one mutant, which skips the decrement on the early return of a failed creation. TLC then finds a wrong count and a destructor that waits forever.

**`process_gate_release`** (violation expected). `NoHookFrameAfterRelease` states section 5's promise that nothing is released while a call is active. TLC finds this trace:
1. A thread jumps into the hook.
2. The destructor unhooks.
3. The destructor sees the counter at zero and releases.
4. The thread has not yet incremented the counter; it goes on to read `m_pThis`.

This is recorded as a spec gap. The counter cannot cover the instructions of the hook that run before the increment.

### Proofs (`ProcessCreationGate_proofs.tla`)

`CounterMatchesFramesInvariant` proves `Spec => []CounterMatchesFrames` for every set of threads and every depth bound. `CounterMatchesFrames` says that the counter is the cardinality of `CountedFrames`. `CountedFrames` is the set of pairs `<<thread, depth>>` of the hook frames that have incremented the counter.

The inductive invariant `IInv` adds two things: the types, and that `CountedFrames` is finite. Without finiteness, adding or removing one pair does not change a cardinality by one (`FS_AddElement`, `FS_RemoveElement`). Every step changes at most the innermost frame of one thread. The lemmas say how a thread's counted frames change:
- `CountedReplaceTop`, when its innermost frame is replaced;
- `CountedPush`, when a frame is pushed;
- `CountedPop`, when a frame is popped.

The lemmas `CountedFramesSame`, `CountedFramesAdd` and `CountedFramesRemove` carry this over to the frames of all threads. `ReplaceCountedTop` covers the three steps that move a frame that was already counted: `CallOriginal`, `Decide` and `InjectDone`.

**Model-checked only.**
- `DrainCompletes`, because it is liveness.
- `NoHookFrameAfterRelease`, which is false.

## Plan for the remaining parts

1. **NewProcessInjector's constructor**, which installs the single instance by atomic exchange, and the thread-attach exemption.
2. **UpdateUtils with the webview messages and the UpdateModal.** Covers the cancel racing the end of the download, and `isUpdating` being reset on every path.
3. **ModConfigUtils and the app-settings codec.** Parse/serialize round trips over small values (the `boolean-nullable` null is written as 0), and `mergeModSettings`.
4. **EditorModeControls'** compile/preview state machine.
