--------------------- MODULE UpdateChecker_refinement ----------------------
(***************************************************************************)
(* The update checker implements the safety part of UpdateCheckSession     *)
(* under the refinement mapping of UpdateChecker.tla (phase <- AbsPhase,    *)
(* notifications <- doneCount), for every set of transport outcomes.       *)
(*                                                                         *)
(* The argument is the one of every refinement proof: the initial states    *)
(* map to the initial state of the session, and, in a state satisfying the  *)
(* inductive invariant IInv of UpdateChecker_proofs, every step of the      *)
(* checker maps to a step of the session or leaves the session's variables  *)
(* unchanged.  IInv is what makes the mapping work: it says that the        *)
(* fallback request exists only after the primary one completed, that a     *)
(* request is sent with a callback exactly in asynchronous mode, and that   *)
(* the synchronous constructor has not returned while a request is in       *)
(* flight, so that AbsPhase moves along the session's arrows only.          *)
(*                                                                         *)
(* The fairness conditions of UpdateCheckSession (a started exchange ends)  *)
(* are liveness and stay with the TLC run of SessionSpec.                   *)
(***************************************************************************)
EXTENDS UpdateChecker_proofs

\* The session's initial predicate and next-state relation, under the mapping.
SessionSafety == Session!Init /\ [][Session!Next]_Session!vars

\* A checker that has not started is an idle session.
LEMMA InitRefines == Init => Session!Init
  BY DEF Init, Session!Init, AbsPhase

\* Every step of the checker is a step of the session or a stutter of it.
LEMMA StepRefines == IInv /\ [Next]_vars => [Session!Next]_Session!vars
<1> SUFFICES ASSUME IInv, [Next]_vars PROVE [Session!Next]_Session!vars
  OBVIOUS
<1> USE DEF IInv, TypeOK, CtorInv, ReqInv, SentWithCallbackIffAsync, CbInv,
            AbortInv, AbortCallInv, FallbackOnlyAfterRejection, Requests
\* Steps that change none of the variables AbsPhase reads, nor the others.
<1>0. ASSUME ctor' = ctor, req' = req, async' = async, cbPc' = cbPc,
             doneCount' = doneCount, aborted' = aborted
      PROVE  [Session!Next]_Session!vars
  BY <1>0 DEF AbsPhase, Session!vars
<1>1. CASE ConstructorStart
  <2>1. AbsPhase = "idle"
    BY <1>1 DEF ConstructorStart, AbsPhase
  <2>2. req["get"].st = "none" /\ cbPc = "idle"
    BY <1>1 DEF ConstructorStart
  <2>3. AbsPhase' \in {"primary", "failedToStart"}
    BY <1>1, <2>2 DEF ConstructorStart, AbsPhase, Sending
  <2>4. QED
    BY <1>1, <2>1, <2>3 DEF ConstructorStart, Session!Next, Session!Start
<1>2. CASE ConstructorAfterPrimary
  <2>1. ~async /\ ~aborted /\ req["get"].st = "none"
    BY <1>2 DEF ConstructorAfterPrimary
  <2>2. AbsPhase = "primary"
    BY <1>2, <2>1 DEF ConstructorAfterPrimary, AbsPhase
  <2>3. CASE ShouldRetryWithAGetRequest
    <3>1. AbsPhase' = "fallback"
      BY <1>2, <2>3 DEF ConstructorAfterPrimary, AbsPhase, Sending
    <3>2. QED
      BY <1>2, <2>1, <2>2, <2>3, <3>1
         DEF ConstructorAfterPrimary, Session!Next, Session!Retry
  <2>4. CASE ~ShouldRetryWithAGetRequest
    <3>1. AbsPhase' = "finished"
      BY <1>2, <2>1, <2>4 DEF ConstructorAfterPrimary, AbsPhase
    <3>2. QED
      BY <1>2, <2>1, <2>2, <2>4, <3>1
         DEF ConstructorAfterPrimary, Session!Next, Session!PrimaryEnds, Session!Notify
  <2>5. QED
    BY <2>3, <2>4
<1>3. CASE ConstructorAfterGet
  <2>1. AbsPhase = "finished" /\ AbsPhase' = "finished"
    BY <1>3 DEF ConstructorAfterGet, AbsPhase
  <2>2. QED
    BY <1>3, <2>1 DEF ConstructorAfterGet, Session!vars
<1>4. CASE PrimaryCompletes
  <2>1. req["get"].st = "none" /\ cbPc = "idle" /\ ctor \notin {"init", "threw"}
    BY <1>4 DEF PrimaryCompletes
  <2>2. req'["get"] = req["get"]
    BY <1>4 DEF PrimaryCompletes, Requests
  <2>3. CASE async
    <3>1. cbPc' = "check"
      BY <1>4, <2>3 DEF PrimaryCompletes
    <3>2. AbsPhase = "primary" /\ AbsPhase' = "primary"
      BY <1>4, <2>1, <2>2, <3>1 DEF PrimaryCompletes, AbsPhase
    <3>3. QED
      BY <1>4, <3>2 DEF PrimaryCompletes, Session!vars
  <2>4. CASE ~async
    <3>1. ctor = "waitPrimary"
      BY <1>4, <2>1, <2>4 DEF PrimaryCompletes
    <3>2. AbsPhase = "primary" /\ AbsPhase' = "primary"
      BY <1>4, <2>1, <2>2, <2>4, <3>1 DEF PrimaryCompletes, AbsPhase
    <3>3. QED
      BY <1>4, <3>2 DEF PrimaryCompletes, Session!vars
  <2>5. QED
    BY <2>3, <2>4
<1>5. CASE GetCompletes
  <2>1. req["primary"].st = "completed" /\ req["get"].cb = async
    BY <1>5 DEF GetCompletes
  <2>2. ctor \notin {"init", "threw"}
    BY <2>1
  <2>3. AbsPhase = "fallback" /\ AbsPhase' = "finished"
    BY <1>5, <2>2 DEF GetCompletes, AbsPhase, Completed
  <2>4. doneCount' = IF async THEN doneCount + 1 ELSE doneCount
    BY <1>5, <2>1 DEF GetCompletes, CallDone
  <2>5. QED
    BY <1>5, <2>3, <2>4
       DEF GetCompletes, Session!Next, Session!FallbackEnds, Session!Notify
<1>6. CASE OnRequestDoneCheck
  <2>1. async /\ req["get"].st = "none" /\ ctor \notin {"init", "threw", "waitPrimary"}
    BY <1>6 DEF OnRequestDoneCheck
  <2>2. AbsPhase = "primary"
    BY <1>6, <2>1 DEF OnRequestDoneCheck, AbsPhase
  <2>3. CASE ShouldRetryWithAGetRequest /\ ~aborted
    <3>1. AbsPhase' = "primary"
      BY <1>6, <2>1, <2>3 DEF OnRequestDoneCheck, AbsPhase
    <3>2. QED
      BY <1>6, <2>2, <2>3, <3>1 DEF OnRequestDoneCheck, Session!vars
  <2>4. CASE ~(ShouldRetryWithAGetRequest /\ ~aborted)
    <3>1. AbsPhase' = "finished"
      BY <1>6, <2>1, <2>4 DEF OnRequestDoneCheck, AbsPhase
    <3>2. doneCount' = doneCount + 1
      BY <1>6, <2>4 DEF OnRequestDoneCheck, CallDone
    <3>3. QED
      BY <1>6, <2>1, <2>2, <2>4, <3>1, <3>2
         DEF OnRequestDoneCheck, Session!Next, Session!PrimaryEnds, Session!Notify
  <2>5. QED
    BY <2>3, <2>4
<1>7. CASE OnRequestDoneLock
  <2>1. AbsPhase' = AbsPhase
    BY <1>7 DEF OnRequestDoneLock, AbsPhase
  <2>2. QED
    BY <1>7, <2>1 DEF OnRequestDoneLock, Session!vars
<1>8. CASE OnRequestDoneRecheck
  <2>1. async /\ req["get"].st = "none" /\ ctor \notin {"init", "threw", "waitPrimary"}
    BY <1>8 DEF OnRequestDoneRecheck
  <2>2. AbsPhase = "primary"
    BY <1>8, <2>1 DEF OnRequestDoneRecheck, AbsPhase
  \* The flag is still clear under the mutex: the retry is decided here.
  <2>3. CASE ~aborted
    <3>1. cbPc' = "create" /\ UNCHANGED <<req, doneCount>>
      BY <1>8, <2>3 DEF OnRequestDoneRecheck
    <3>2. AbsPhase' = "fallback"
      BY <1>8, <2>1, <3>1 DEF OnRequestDoneRecheck, AbsPhase
    <3>3. QED
      BY <1>8, <2>2, <2>3, <3>1, <3>2 DEF OnRequestDoneRecheck, Session!Next, Session!Retry
  <2>4. CASE aborted
    <3>1. cbPc' = "done" /\ UNCHANGED req /\ CallDone
      BY <1>8, <2>4 DEF OnRequestDoneRecheck
    <3>2. AbsPhase' = "finished"
      BY <1>8, <2>1, <3>1 DEF OnRequestDoneRecheck, AbsPhase
    <3>3. QED
      BY <1>8, <2>1, <2>2, <3>1, <3>2
         DEF OnRequestDoneRecheck, CallDone, Session!Next, Session!PrimaryEnds, Session!Notify
  <2>5. QED
    BY <2>3, <2>4
<1>15. CASE OnRequestDoneCreate
  <2>1. async /\ req["get"].st = "none" /\ ctor \notin {"init", "threw", "waitPrimary"}
        /\ cbPc = "create"
    BY <1>15 DEF OnRequestDoneCreate
  <2>2. AbsPhase = "fallback"
    BY <2>1 DEF AbsPhase
  <2>3. CASE req' = [req EXCEPT !["get"] = Sending(TRUE)] /\ UNCHANGED <<doneCount, reported>>
    <3>1. AbsPhase' = "fallback"
      BY <1>15, <2>3 DEF OnRequestDoneCreate, AbsPhase, Sending
    <3>2. QED
      BY <1>15, <2>2, <2>3, <3>1 DEF OnRequestDoneCreate, Session!vars
  <2>4. CASE GetSendFailed /\ CallDone
    <3>1. AbsPhase' = "finished"
      BY <1>15, <2>1, <2>4 DEF OnRequestDoneCreate, AbsPhase, GetSendFailed, NoRequest
    <3>2. QED
      BY <1>15, <2>1, <2>2, <2>4, <3>1
         DEF OnRequestDoneCreate, CallDone, Session!Next, Session!FallbackEnds, Session!Notify
  <2>5. QED
    BY <1>15, <2>3, <2>4 DEF OnRequestDoneCreate
<1>9. ASSUME NEW a \in Aborters, AbortSetFlag(a) PROVE [Session!Next]_Session!vars
  <2>1. AbsPhase \notin {"idle", "failedToStart"} /\ AbsPhase' = AbsPhase
    BY <1>9 DEF AbortSetFlag, AbsPhase
  <2>2. QED
    BY <1>9, <2>1 DEF AbortSetFlag, Session!Next, Session!Abort
<1>10. ASSUME NEW a \in Aborters, AbortPrimary(a) PROVE [Session!Next]_Session!vars
  <2>1. AbortRequest("primary") /\ req \in [Requests -> RequestRec] /\ "primary" \in Requests
    BY <1>10 DEF AbortPrimary
  <2>2. \A x \in Requests : req'[x].st = req[x].st
    BY <2>1, AbortRequestFacts
  <2>3. AbsPhase' = AbsPhase
    BY <1>10, <2>2 DEF AbortPrimary, AbsPhase
  <2>4. QED
    BY <1>10, <2>3 DEF AbortPrimary, Session!vars
<1>11. ASSUME NEW a \in Aborters, AbortLock(a) PROVE [Session!Next]_Session!vars
  BY <1>0, <1>11 DEF AbortLock
<1>12. ASSUME NEW a \in Aborters, AbortGet(a) PROVE [Session!Next]_Session!vars
  <2>1. AbortRequest("get") /\ req \in [Requests -> RequestRec] /\ "get" \in Requests
    BY <1>12 DEF AbortGet
  <2>2. \A x \in Requests : req'[x].st = req[x].st
    BY <2>1, AbortRequestFacts
  <2>3. AbsPhase' = AbsPhase
    BY <1>12, <2>2 DEF AbortGet, AbsPhase
  <2>4. QED
    BY <1>12, <2>3 DEF AbortGet, Session!vars
<1>13. CASE CallerHandleResponse
  BY <1>0, <1>13 DEF CallerHandleResponse
<1>14. CASE Terminated \/ UNCHANGED vars
  BY <1>0, <1>14 DEF Terminated, vars
<1>16. QED
  BY <1>1, <1>2, <1>3, <1>4, <1>5, <1>6, <1>7, <1>8, <1>9, <1>10, <1>11,
     <1>12, <1>13, <1>14, <1>15 DEF Next

(* The update checker implements what UpdateCheckSession promises of one   *)
(* check (the safety part of SessionSpec): the constructor, OnRequestDone   *)
(* and Abort, interleaved in any order, only ever start the exchange,       *)
(* commit to the fallback while the abort flag is clear (the constructor's  *)
(* test, or OnRequestDone's re-check under the mutex at line 254; the GET   *)
(* created at 256 after a concurrent Abort set the flag belongs to a retry  *)
(* decided before it), end it notifying an asynchronous owner once, or set  *)
(* the abort flag.                                                          *)
THEOREM SessionSafetyRefined == Spec => SessionSafety
<1>1. Spec => []IInv
  BY IInvInvariant
<1>2. QED
  BY <1>1, InitRefines, StepRefines, PTL DEF Spec, SessionSafety

=============================================================================
