------------------------ MODULE UpdateChecker_proofs ------------------------
(***************************************************************************)
(* Proofs about the update checker, for every set of transport outcomes.  *)
(*                                                                         *)
(* TypeOK is inductive by itself.  The safety properties the TLC run      *)
(* checks are not: DoneAtMostOnce, for example, needs to know that the     *)
(* fallback request exists only after OnRequestDone has returned, and      *)
(* AbortLeavesNothingRunning that the completion thread and Abort never    *)
(* hold the mutex together.  IInv collects what the threads and requests   *)
(* know of each other; it is inductive and implies the four properties.    *)
(***************************************************************************)
EXTENDS UpdateChecker, TLAPS

\* The constructing thread and the requests it sent.
CtorInv ==
    /\ ctor \in {"init", "threw"} => req["primary"].st = "none"
    /\ ctor \in {"waitPrimary", "waitGet", "returned"} =>
           req["primary"].st \in {"sending", "completed"}
    /\ ctor \in {"waitPrimary", "waitGet"} => ~async
    /\ ctor = "waitPrimary" => req["get"].st = "none"
    /\ ctor = "waitGet" => req["get"].st # "none"
    /\ (~async /\ ctor = "returned") =>
           /\ req["primary"].st = "completed"
           /\ req["get"].st # "sending"

\* A fallback GET request exists only after the primary request ended with
\* the "invalid header" result and status 405.
FallbackOnlyAfterRejection ==
    req["get"].st # "none" =>
        /\ req["primary"].st = "completed"
        /\ req["primary"].hr = "INVALID_HEADER"
        /\ req["primary"].status = 405

\* A request exists only once sent, with a callback exactly in async mode,
\* and the fallback only after the server rejected the primary verb.
SentWithCallbackIffAsync(rq) ==
    /\ rq.st \in {"none", "sending", "completed"}
    /\ rq.st # "none" => rq.cb = async

ReqInv ==
    /\ SentWithCallbackIffAsync(req["primary"])
    /\ SentWithCallbackIffAsync(req["get"])
    /\ FallbackOnlyAfterRejection

\* Where OnRequestDone is, against the requests.
CbInv ==
    /\ cbPc # "idle" => async /\ req["primary"].st = "completed"
    /\ (async /\ req["primary"].st = "completed") => cbPc # "idle"
    /\ cbPc \in {"check", "lock", "locked", "create"} => req["get"].st = "none"
    /\ cbPc \in {"lock", "locked", "create"} => ShouldRetryWithAGetRequest
    /\ (async /\ req["get"].st # "none") => cbPc = "done"

\* The mutex is held by the thread whose program counter says so.
LockInv ==
    /\ lock = "cb" <=> cbPc \in {"locked", "create"}
    /\ \A a \in Aborters : lock = a <=> abPc[a] = "get"

\* The progress of each call of Abort: the flag is set first, then the
\* primary request is aborted, then (under the mutex) the fallback request.
\* The flag is set exactly when some call has started.  While OnRequestDone
\* creates the fallback, no call is past its lock: the flag was clear at
\* line 254, so every call started after that, and the mutex is held.
AbortCallInv(a) ==
    /\ abPc[a] # "idle" => ctor = "returned"
    /\ (abPc[a] \in {"lock", "get", "done"} /\ req["primary"].st = "sending") =>
           req["primary"].cancelled
    /\ (abPc[a] = "done" /\ req["get"].st = "sending") => req["get"].cancelled
    /\ cbPc = "create" => abPc[a] \in {"idle", "primary", "lock"}

AbortInv ==
    /\ aborted <=> \E a \in Aborters : abPc[a] # "idle"
    /\ \A a \in Aborters : AbortCallInv(a)

\* The owner has been told exactly when OnRequestDone has returned and no
\* fallback request is still in flight.
DoneInv ==
    doneCount = IF async /\ cbPc = "done" /\ req["get"].st # "sending" THEN 1 ELSE 0

IInv ==
    /\ TypeOK
    /\ CtorInv
    /\ ReqInv
    /\ CbInv
    /\ LockInv
    /\ AbortInv
    /\ DoneInv
    /\ ReportedRequestCompleted

-----------------------------------------------------------------------------
(* Type correctness.                                                        *)

\* The records the model starts from have the types TypeOK gives them.
LEMMA NoRequestType == NoRequest \in RequestRec
  BY DEF NoRequest, RequestRec, AllHr

LEMMA NoResultType == NoResult \in ResultRec
  BY DEF NoResult, ResultRec, AllHr

LEMMA InitTypeOK == Init => TypeOK
<1> SUFFICES ASSUME Init PROVE TypeOK
  OBVIOUS
<1>1. req \in [Requests -> RequestRec]
  BY NoRequestType DEF Init
<1>2. reported \in ResultRec
  BY NoResultType DEF Init
<1>3. QED
  BY <1>1, <1>2, Zenon DEF Init, TypeOK

\* A request sent by SendRequest is a request record.
LEMMA SendingType == \A b \in BOOLEAN : Sending(b) \in RequestRec
  BY DEF Sending, RequestRec, AllHr

\* Replacing one request by a request record keeps the request map typed.
LEMMA ReplaceRequestType ==
  ASSUME NEW rs \in [Requests -> RequestRec], NEW r \in Requests,
         NEW x \in RequestRec
  PROVE  [rs EXCEPT ![r] = x] \in [Requests -> RequestRec]
  OBVIOUS

\* A request completed with an outcome o is a request record.
LEMMA CompletedType ==
  ASSUME NEW rq \in RequestRec, NEW o \in [hr : AllHr, status : Nat]
  PROVE  Completed(rq, o) \in RequestRec
  BY DEF Completed, RequestRec

\* An aborted request is a request record.
LEMMA CancelledType ==
  ASSUME NEW rq \in RequestRec
  PROVE  Cancelled(rq) \in RequestRec
  BY DEF Cancelled, RequestRec

\* Every outcome a request may complete with has the type of a result.
LEMMA OutcomeType ==
  ASSUME NEW c \in BOOLEAN
  PROVE  (IF c THEN {[hr |-> "E_ABORT", status |-> 0]} ELSE TransportOutcomes)
             \subseteq [hr : AllHr, status : Nat]
  BY TransportOutcomesAssumption DEF AllHr, TransportHr

\* HandleResponse returns a result record.
LEMMA HandleResponseType ==
  ASSUME NEW rs \in [Requests -> RequestRec], NEW p \in BOOLEAN
  PROVE  HandleResponse(rs, p) \in ResultRec
  BY DEF HandleResponse, ResultRec, RequestRec, AllHr, Requests

LEMMA NextTypeOK == TypeOK /\ [Next]_vars => TypeOK'
<1> SUFFICES ASSUME TypeOK, [Next]_vars PROVE TypeOK'
  OBVIOUS
<1>1. CASE ConstructorStart
  <2>1. req' \in [Requests -> RequestRec]
    BY <1>1, SendingType, ReplaceRequestType DEF ConstructorStart, TypeOK, Requests
  <2>2. QED
    BY <1>1, <2>1 DEF ConstructorStart, TypeOK
<1>2. CASE ConstructorAfterPrimary
  <2>1. req' \in [Requests -> RequestRec]
    BY <1>2, SendingType, ReplaceRequestType DEF ConstructorAfterPrimary, TypeOK, Requests
  <2>2. QED
    BY <1>2, <2>1 DEF ConstructorAfterPrimary, TypeOK
<1>3. CASE ConstructorAfterGet
  BY <1>3 DEF ConstructorAfterGet, TypeOK
<1>4. CASE PrimaryCompletes
  <2>1. req' \in [Requests -> RequestRec]
    <3>1. req["primary"].cancelled \in BOOLEAN
      BY DEF TypeOK, RequestRec, Requests
    <3>2. PICK o \in [hr : AllHr, status : Nat] :
              req' = [req EXCEPT !["primary"] = Completed(req["primary"], o)]
      BY <1>4, <3>1, OutcomeType DEF PrimaryCompletes
    <3>3. QED
      BY <3>2, CompletedType, ReplaceRequestType DEF TypeOK, Requests
  <2>2. QED
    BY <1>4, <2>1 DEF PrimaryCompletes, TypeOK
<1>5. CASE GetCompletes
  <2>1. req' \in [Requests -> RequestRec]
    <3>1. req["get"].cancelled \in BOOLEAN
      BY DEF TypeOK, RequestRec, Requests
    <3>2. PICK o \in [hr : AllHr, status : Nat] :
              req' = [req EXCEPT !["get"] = Completed(req["get"], o)]
      BY <1>5, <3>1, OutcomeType DEF GetCompletes
    <3>3. QED
      BY <3>2, CompletedType, ReplaceRequestType DEF TypeOK, Requests
  <2>2. reported' \in ResultRec
    BY <1>5, <2>1, HandleResponseType DEF GetCompletes, CallDone, TypeOK
  <2>3. doneCount' \in Nat
    BY <1>5 DEF GetCompletes, CallDone, TypeOK
  <2>4. QED
    BY <1>5, <2>1, <2>2, <2>3 DEF GetCompletes, TypeOK
<1>6. CASE OnRequestDoneCheck
  <2>1. reported' \in ResultRec
    BY <1>6, HandleResponseType DEF OnRequestDoneCheck, CallDone, TypeOK
  <2>2. doneCount' \in Nat
    BY <1>6 DEF OnRequestDoneCheck, CallDone, TypeOK
  <2>3. QED
    BY <1>6, <2>1, <2>2 DEF OnRequestDoneCheck, TypeOK
<1>7. CASE OnRequestDoneLock
  BY <1>7 DEF OnRequestDoneLock, TypeOK
<1>8. CASE OnRequestDoneRecheck
  <2>1. reported' \in ResultRec
    BY <1>8, HandleResponseType DEF OnRequestDoneRecheck, CallDone, TypeOK
  <2>2. doneCount' \in Nat
    BY <1>8 DEF OnRequestDoneRecheck, CallDone, TypeOK
  <2>3. QED
    BY <1>8, <2>1, <2>2 DEF OnRequestDoneRecheck, TypeOK
<1>15. CASE OnRequestDoneCreate
  <2>1. req' \in [Requests -> RequestRec]
    BY <1>15, SendingType, NoRequestType, ReplaceRequestType
    DEF OnRequestDoneCreate, GetSendFailed, TypeOK, Requests
  <2>2. reported' \in ResultRec
    BY <1>15, <2>1, HandleResponseType DEF OnRequestDoneCreate, CallDone, TypeOK
  <2>3. doneCount' \in Nat
    <3>1. doneCount' \in {doneCount, doneCount + 1}
      BY <1>15, Zenon DEF OnRequestDoneCreate, CallDone
    <3>2. QED
      BY <3>1 DEF TypeOK
  <2>4. QED
    BY <1>15, <2>1, <2>2, <2>3 DEF OnRequestDoneCreate, TypeOK
<1>9. ASSUME NEW a \in Aborters, AbortSetFlag(a) PROVE TypeOK'
  BY <1>9 DEF AbortSetFlag, TypeOK
<1>10. ASSUME NEW a \in Aborters, AbortPrimary(a) PROVE TypeOK'
  <2>1. req' \in [Requests -> RequestRec]
    BY <1>10, CancelledType, ReplaceRequestType DEF AbortPrimary, AbortRequest, TypeOK, Requests
  <2>2. QED
    BY <1>10, <2>1 DEF AbortPrimary, TypeOK
<1>11. ASSUME NEW a \in Aborters, AbortLock(a) PROVE TypeOK'
  BY <1>11 DEF AbortLock, TypeOK
<1>12. ASSUME NEW a \in Aborters, AbortGet(a) PROVE TypeOK'
  <2>1. req' \in [Requests -> RequestRec]
    BY <1>12, CancelledType, ReplaceRequestType DEF AbortGet, AbortRequest, TypeOK, Requests
  <2>2. QED
    BY <1>12, <2>1 DEF AbortGet, TypeOK
<1>13. CASE CallerHandleResponse
  BY <1>13, HandleResponseType DEF CallerHandleResponse, TypeOK
<1>14. CASE Terminated \/ UNCHANGED vars
  BY <1>14 DEF Terminated, vars, TypeOK
<1>16. QED
  BY <1>1, <1>2, <1>3, <1>4, <1>5, <1>6, <1>7, <1>8, <1>9, <1>10, <1>11,
     <1>12, <1>13, <1>14, <1>15 DEF Next

(* The update checker's state always has the types TypeOK gives it.        *)
THEOREM TypeCorrect == Spec => []TypeOK
  BY InitTypeOK, NextTypeOK, PTL DEF Spec

-----------------------------------------------------------------------------
(* The inductive invariant.                                                 *)

LEMMA InitIInv == Init => IInv
<1> SUFFICES ASSUME Init PROVE IInv
  OBVIOUS
<1>1. TypeOK
  BY InitTypeOK
<1>2. QED
  BY <1>1, AbortersAssumption
  DEF Init, IInv, CtorInv, ReqInv, SentWithCallbackIffAsync, CbInv, LockInv, AbortInv, AbortCallInv, DoneInv,
             ReportedRequestCompleted, FallbackOnlyAfterRejection, NoRequest,
             Requests

\* The fields of a freshly sent request.
LEMMA SendingFields ==
  ASSUME NEW b
  PROVE  /\ Sending(b).st = "sending"
         /\ Sending(b).cb = b
         /\ Sending(b).cancelled = FALSE
  BY DEF Sending

\* CWinHTTPSimple::Abort on request r keeps the status of every request,
\* never clears a cancellation flag, touches no other request, and leaves
\* r cancelled if it is still in flight.
LEMMA AbortRequestFacts ==
  ASSUME NEW r \in Requests, req \in [Requests -> RequestRec], AbortRequest(r)
  PROVE  /\ req' \in [Requests -> RequestRec]
         /\ \A x \in Requests :
               /\ req'[x].st = req[x].st
               /\ req[x].cancelled => req'[x].cancelled
               /\ x # r => req'[x] = req[x]
         /\ req'[r].st = "sending" => req'[r].cancelled
  BY DEF AbortRequest, Cancelled, RequestRec, Requests

\* HandleResponse reports "complete" exactly when the request it reads (the
\* fallback if it exists, the primary otherwise) has completed.
LEMMA HandleResponseComplete ==
  ASSUME NEW rs \in [Requests -> RequestRec], NEW p \in BOOLEAN
  PROVE  /\ rs["get"].st = "none" =>
                HandleResponse(rs, p).complete = (rs["primary"].st = "completed")
         /\ rs["get"].st # "none" =>
                HandleResponse(rs, p).complete = (rs["get"].st = "completed")
  BY DEF HandleResponse

\* A call of Abort is neither "free" nor the completion thread.
LEMMA AborterNames == \A a \in Aborters : a # "free" /\ a # "cb"
  BY AbortersAssumption

LEMMA NextIInv == IInv /\ [Next]_vars => IInv'
<1> SUFFICES ASSUME IInv, [Next]_vars PROVE IInv'
  OBVIOUS
<1> USE DEF IInv, CtorInv, ReqInv, SentWithCallbackIffAsync, CbInv, LockInv,
            AbortInv, AbortCallInv, DoneInv, ReportedRequestCompleted,
            FallbackOnlyAfterRejection, ShouldRetryWithAGetRequest
<1>0. TypeOK'
  BY NextTypeOK DEF IInv
<1>1. CASE ConstructorStart
  <2>1. CtorInv'
    BY <1>1 DEF ConstructorStart, Sending, TypeOK, Requests
  <2>2. ReqInv'
    BY <1>1 DEF ConstructorStart, Sending, TypeOK, Requests
  <2>3. CbInv'
    BY <1>1 DEF ConstructorStart, Sending, TypeOK, Requests
  <2>4. LockInv'
    BY <1>1 DEF ConstructorStart, Sending, TypeOK, Requests
  <2>5. AbortInv'
    BY <1>1 DEF ConstructorStart, Sending, TypeOK, Requests
  <2>6. DoneInv'
    BY <1>1 DEF ConstructorStart, Sending, TypeOK, Requests
  <2>7. ReportedRequestCompleted'
    BY <1>1 DEF ConstructorStart, Sending, TypeOK, Requests
  <2>8. QED
    BY <1>0, <2>1, <2>2, <2>3, <2>4, <2>5, <2>6, <2>7 DEF IInv
<1>2. CASE ConstructorAfterPrimary
  <2>1. CtorInv'
    BY <1>2 DEF ConstructorAfterPrimary, Sending, TypeOK, Requests
  <2>2. ReqInv'
    <3>1. /\ async \in BOOLEAN
          /\ ~async
          /\ async' = async
          /\ req["primary"].st = "completed"
          /\ SentWithCallbackIffAsync(req["primary"])
      BY <1>2 DEF ConstructorAfterPrimary, IInv, TypeOK, CtorInv, ReqInv
    <3>2. CASE ShouldRetryWithAGetRequest
      <4>1. req' = [req EXCEPT !["get"] = Sending(FALSE)]
        BY <1>2, <3>2 DEF ConstructorAfterPrimary
      <4>2. req'["get"] = Sending(FALSE) /\ req'["primary"] = req["primary"]
        BY <4>1 DEF IInv, TypeOK, Requests
      <4>3. SentWithCallbackIffAsync(req["primary"])'
        BY <3>1, <4>2 DEF SentWithCallbackIffAsync
      <4>4. SentWithCallbackIffAsync(req["get"])'
        <5>1. req'["get"].st = "sending" /\ req'["get"].cb = FALSE
          BY <4>2 DEF Sending
        <5>2. async' \in BOOLEAN /\ ~async'
          BY <3>1
        <5>3. QED
          BY <5>1, <5>2 DEF SentWithCallbackIffAsync
      <4>5. FallbackOnlyAfterRejection'
        BY <3>1, <3>2, <4>2 DEF FallbackOnlyAfterRejection,
           ShouldRetryWithAGetRequest, Sending
      <4>6. QED
        BY <4>3, <4>4, <4>5 DEF ReqInv
    <3>3. CASE ~ShouldRetryWithAGetRequest
      BY <1>2, <3>3 DEF ConstructorAfterPrimary, IInv, ReqInv,
         SentWithCallbackIffAsync, FallbackOnlyAfterRejection
    <3>4. QED
      BY <3>2, <3>3
  <2>3. CbInv'
    BY <1>2 DEF ConstructorAfterPrimary, Sending, TypeOK, Requests
  <2>4. LockInv'
    BY <1>2 DEF ConstructorAfterPrimary, Sending, TypeOK, Requests
  <2>5. AbortInv'
    BY <1>2 DEF ConstructorAfterPrimary, Sending, TypeOK, Requests
  <2>6. DoneInv'
    BY <1>2 DEF ConstructorAfterPrimary, Sending, TypeOK, Requests
  <2>7. ReportedRequestCompleted'
    BY <1>2 DEF ConstructorAfterPrimary, Sending, TypeOK, Requests
  <2>8. QED
    BY <1>0, <2>1, <2>2, <2>3, <2>4, <2>5, <2>6, <2>7 DEF IInv
<1>3. CASE ConstructorAfterGet
  BY <1>3, <1>0 DEF ConstructorAfterGet
<1>4. CASE PrimaryCompletes
  <2>1. CtorInv'
    BY <1>4 DEF PrimaryCompletes, Completed, TypeOK, Requests
  <2>2. ReqInv'
    BY <1>4 DEF PrimaryCompletes, Completed, TypeOK, Requests
  <2>3. CbInv'
    BY <1>4 DEF PrimaryCompletes, Completed, TypeOK, Requests
  <2>4. LockInv'
    BY <1>4 DEF PrimaryCompletes, Completed, TypeOK, Requests
  <2>5. AbortInv'
    BY <1>4 DEF PrimaryCompletes, Completed, TypeOK, Requests
  <2>6. DoneInv'
    BY <1>4 DEF PrimaryCompletes, Completed, TypeOK, Requests
  <2>7. ReportedRequestCompleted'
    BY <1>4 DEF PrimaryCompletes, Completed, TypeOK, Requests
  <2>8. QED
    BY <1>0, <2>1, <2>2, <2>3, <2>4, <2>5, <2>6, <2>7 DEF IInv
<1>5. CASE GetCompletes
  <2>1. CtorInv'
    BY <1>5 DEF GetCompletes, Completed, CallDone, HandleResponse, TypeOK, Requests
  <2>2. ReqInv'
    BY <1>5 DEF GetCompletes, Completed, CallDone, HandleResponse, TypeOK, Requests
  <2>3. CbInv'
    BY <1>5 DEF GetCompletes, Completed, CallDone, HandleResponse, TypeOK, Requests
  <2>4. LockInv'
    BY <1>5 DEF GetCompletes, Completed, CallDone, HandleResponse, TypeOK, Requests
  <2>5. AbortInv'
    BY <1>5 DEF GetCompletes, Completed, CallDone, HandleResponse, TypeOK, Requests
  <2>6. DoneInv'
    BY <1>5 DEF GetCompletes, Completed, CallDone, HandleResponse, TypeOK, Requests
  <2>7. ReportedRequestCompleted'
    BY <1>5 DEF GetCompletes, Completed, CallDone, HandleResponse, TypeOK, Requests
  <2>8. QED
    BY <1>0, <2>1, <2>2, <2>3, <2>4, <2>5, <2>6, <2>7 DEF IInv
<1>6. CASE OnRequestDoneCheck
  <2>1. CtorInv'
    BY <1>6 DEF OnRequestDoneCheck, CallDone, HandleResponse, TypeOK, Requests
  <2>2. ReqInv'
    BY <1>6 DEF OnRequestDoneCheck, IInv, ReqInv, SentWithCallbackIffAsync, FallbackOnlyAfterRejection
  <2>3. CbInv'
    BY <1>6 DEF OnRequestDoneCheck, CallDone, HandleResponse, TypeOK, Requests
  <2>4. LockInv'
    BY <1>6 DEF OnRequestDoneCheck, CallDone, HandleResponse, TypeOK, Requests
  <2>5. AbortInv'
    BY <1>6 DEF OnRequestDoneCheck, CallDone, HandleResponse, TypeOK, Requests
  <2>6. DoneInv'
    BY <1>6 DEF OnRequestDoneCheck, CallDone, HandleResponse, TypeOK, Requests
  <2>7. ReportedRequestCompleted'
    <3>1. CASE ShouldRetryWithAGetRequest /\ ~aborted
      BY <1>6, <3>1 DEF OnRequestDoneCheck, IInv, ReportedRequestCompleted
    <3>2. CASE ~(ShouldRetryWithAGetRequest /\ ~aborted)
      <4>1. PICK p \in BOOLEAN : reported' = HandleResponse(req', p)
        BY <1>6, <3>2 DEF OnRequestDoneCheck, CallDone
      <4>2. /\ req' = req
            /\ req["get"].st = "none"
            /\ req["primary"].st = "completed"
        BY <1>6 DEF OnRequestDoneCheck, IInv, CbInv
      <4>3. HandleResponse(req, p).complete
        BY <4>2, HandleResponseComplete DEF IInv, TypeOK
      <4>4. QED
        BY <4>1, <4>2, <4>3 DEF ReportedRequestCompleted
    <3>3. QED
      BY <3>1, <3>2
  <2>8. QED
    BY <1>0, <2>1, <2>2, <2>3, <2>4, <2>5, <2>6, <2>7 DEF IInv
<1>7. CASE OnRequestDoneLock
  <2>1. /\ cbPc = "lock" /\ lock = "free" /\ lock' = "cb" /\ cbPc' = "locked"
        /\ UNCHANGED <<async, posted, ctor, req, aborted, abPc, doneCount, reported>>
    BY <1>7 DEF OnRequestDoneLock
  <2>2. LockInv'
    BY <2>1, AborterNames
  <2>3. QED
    BY <1>0, <2>1, <2>2
<1>8. CASE OnRequestDoneRecheck
  <2>1. /\ cbPc = "locked" /\ lock = "cb"
        /\ async /\ req["get"].st = "none" /\ req["primary"].st = "completed"
        /\ UNCHANGED <<async, posted, ctor, req, aborted, abPc>>
    <3>1. cbPc = "locked" /\ UNCHANGED <<async, posted, ctor, req, aborted, abPc>>
      BY <1>8 DEF OnRequestDoneRecheck
    <3>2. QED
      BY <3>1, Zenon DEF IInv, CbInv, LockInv
  <2>2. CASE aborted
    <3>1. lock' = "free" /\ cbPc' = "done" /\ CallDone
      BY <1>8, <2>2 DEF OnRequestDoneRecheck
    <3>2. CtorInv' /\ ReqInv'
      BY <2>1
    <3>3. CbInv'
      BY <2>1, <3>1
    <3>4. LockInv'
      BY <2>1, <3>1, AborterNames
    <3>5. AbortInv'
      BY <2>1, <3>1
    <3>6. DoneInv'
      BY <2>1, <3>1 DEF CallDone
    <3>7. ReportedRequestCompleted'
      <4>1. PICK p \in BOOLEAN : reported' = HandleResponse(req', p)
        BY <3>1 DEF CallDone
      <4>2. req \in [Requests -> RequestRec]
        BY DEF TypeOK
      <4>3. HandleResponse(req, p).complete
        <5> HIDE DEF IInv
        <5>1. QED
          BY <2>1, <4>2, HandleResponseComplete
      <4>4. QED
        BY <2>1, <4>1, <4>3
    <3>8. QED
      BY <1>0, <3>2, <3>3, <3>4, <3>5, <3>6, <3>7 DEF IInv
  <2>3. CASE ~aborted
    <3>1. cbPc' = "create" /\ UNCHANGED <<req, lock, doneCount, reported>>
      BY <1>8, <2>3 DEF OnRequestDoneRecheck
    <3>2. \A a \in Aborters : abPc[a] = "idle"
      BY <2>3
    <3>3. CtorInv' /\ ReqInv'
      BY <2>1, <3>1
    <3>7. CbInv'
      BY <2>1, <3>1
    <3>8. LockInv'
      BY <2>1, <3>1
    <3>9. DoneInv'
      BY <2>1, <3>1
    <3>4. AbortInv'
      BY <2>1, <3>1, <3>2
    <3>5. ReportedRequestCompleted'
      BY <2>1, <3>1
    <3>6. QED
      BY <1>0, <3>3, <3>4, <3>5, <3>7, <3>8, <3>9 DEF IInv
  <2>4. QED
    BY <2>2, <2>3
<1>15. CASE OnRequestDoneCreate
  <2>1. CtorInv'
    BY <1>15 DEF OnRequestDoneCreate, CallDone, HandleResponse, GetSendFailed, Sending, NoRequest, TypeOK, Requests
  <2>2. ReqInv'
    <3>1. /\ async \in BOOLEAN
          /\ async
          /\ async' = async
          /\ req["primary"].st = "completed"
          /\ ShouldRetryWithAGetRequest
          /\ SentWithCallbackIffAsync(req["primary"])
      <4>1. cbPc = "create" /\ async' = async
        BY <1>15 DEF OnRequestDoneCreate
      <4>2. async /\ req["primary"].st = "completed" /\ ShouldRetryWithAGetRequest
        BY <4>1, Zenon DEF IInv, CbInv
      <4>3. async \in BOOLEAN /\ SentWithCallbackIffAsync(req["primary"])
        BY DEF IInv, TypeOK, ReqInv
      <4>4. QED
        BY <4>1, <4>2, <4>3
    <3>2. CASE req' = [req EXCEPT !["get"] = Sending(TRUE)]
      <4>1. req'["get"] = Sending(TRUE) /\ req'["primary"] = req["primary"]
        BY <3>2 DEF IInv, TypeOK, Requests
      <4>2. SentWithCallbackIffAsync(req["primary"])'
        BY <3>1, <4>1 DEF SentWithCallbackIffAsync
      <4>3. SentWithCallbackIffAsync(req["get"])'
        BY <3>1, <4>1 DEF SentWithCallbackIffAsync, Sending
      <4>4. FallbackOnlyAfterRejection'
        BY <3>1, <4>1 DEF FallbackOnlyAfterRejection,
           ShouldRetryWithAGetRequest, Sending
      <4>5. QED
        BY <4>2, <4>3, <4>4 DEF ReqInv
    <3>3. CASE GetSendFailed
      <4>1. req'["get"] = NoRequest /\ req'["primary"] = req["primary"]
        BY <3>3 DEF GetSendFailed, IInv, TypeOK, Requests
      <4>2. SentWithCallbackIffAsync(req["primary"])'
        BY <3>1, <4>1 DEF SentWithCallbackIffAsync
      <4>3. SentWithCallbackIffAsync(req["get"])'
        BY <4>1 DEF SentWithCallbackIffAsync, NoRequest
      <4>4. FallbackOnlyAfterRejection'
        BY <4>1 DEF FallbackOnlyAfterRejection, NoRequest
      <4>5. QED
        BY <4>2, <4>3, <4>4 DEF ReqInv
    <3>5. QED
      BY <1>15, <3>2, <3>3 DEF OnRequestDoneCreate
  <2>3. CbInv'
    BY <1>15 DEF OnRequestDoneCreate, CallDone, HandleResponse, GetSendFailed, Sending, NoRequest, TypeOK, Requests
  <2>4. LockInv'
    <3>1. cbPc = "create" /\ lock' = "free" /\ cbPc' = "done" /\ abPc' = abPc
      BY <1>15 DEF OnRequestDoneCreate
    <3>2. lock = "cb"
      BY <3>1
    <3>3. QED
      BY <3>1, <3>2, AborterNames
  <2>5. AbortInv'
    <3>1. /\ cbPc = "create" /\ cbPc' = "done"
          /\ UNCHANGED <<ctor, aborted, abPc>>
          /\ req'["primary"] = req["primary"]
      BY <1>15 DEF OnRequestDoneCreate, GetSendFailed, TypeOK, Requests
    <3>2. \A a \in Aborters : abPc[a] \in {"idle", "primary", "lock"}
      BY <3>1
    <3>3. QED
      BY <3>1, <3>2
  <2>6. DoneInv'
    BY <1>15 DEF OnRequestDoneCreate, CallDone, HandleResponse, GetSendFailed, Sending, NoRequest, TypeOK, Requests
  <2>7. ReportedRequestCompleted'
    <3>1. req["get"].st = "none" /\ req["primary"].st = "completed"
      <4>1. cbPc = "create"
        BY <1>15 DEF OnRequestDoneCreate
      <4>2. QED
        BY <4>1, Zenon DEF IInv, CbInv
    <3>2. CASE UNCHANGED reported
      BY <3>2 DEF IInv, ReportedRequestCompleted
    <3>3. CASE GetSendFailed /\ CallDone
      <4>1. req'["get"].st = "none" /\ req'["primary"] = req["primary"]
        BY <3>1, <3>3 DEF GetSendFailed, NoRequest, IInv, TypeOK, Requests
      <4>2. PICK p \in BOOLEAN : reported' = HandleResponse(req', p)
        BY <3>3 DEF CallDone
      <4>3. req' \in [Requests -> RequestRec]
        BY <1>0 DEF TypeOK
      <4>5. HandleResponse(req', p).complete
        <5> HIDE DEF IInv, CtorInv, ReqInv, CbInv, LockInv, AbortInv, DoneInv,
                     ReportedRequestCompleted, FallbackOnlyAfterRejection
        <5>1. req'["get"].st = "none" /\ req'["primary"].st = "completed"
          BY <3>1, <4>1
        <5>2. QED
          BY <4>3, <5>1, HandleResponseComplete
      <4>4. QED
        BY <4>2, <4>5 DEF ReportedRequestCompleted
    <3>4. QED
      BY <1>15, <3>2, <3>3 DEF OnRequestDoneCreate
  <2>8. QED
    BY <1>0, <2>1, <2>2, <2>3, <2>4, <2>5, <2>6, <2>7 DEF IInv
<1>9. ASSUME NEW a \in Aborters, AbortSetFlag(a) PROVE IInv'
  <2>1. /\ UNCHANGED <<async, posted, ctor, req, lock, cbPc, doneCount, reported>>
        /\ aborted' = TRUE
        /\ abPc' = [abPc EXCEPT ![a] = "primary"]
        /\ abPc[a] = "idle"
        /\ ctor = "returned"
    BY <1>9 DEF AbortSetFlag
  <2>2. LockInv'
    BY <2>1 DEF TypeOK
  <2>3. AbortInv'
    <3>1. aborted' <=> \E b \in Aborters : abPc'[b] # "idle"
      BY <2>1 DEF TypeOK
    <3>2. ASSUME NEW b \in Aborters PROVE AbortCallInv(b)'
      BY <2>1 DEF TypeOK
    <3>3. QED
      BY <3>1, <3>2
  <2>4. QED
    BY <1>0, <2>1, <2>2, <2>3
<1>10. ASSUME NEW a \in Aborters, AbortPrimary(a) PROVE IInv'
  <2>1. CtorInv'
    BY <1>10 DEF AbortPrimary, AbortRequest, Cancelled, TypeOK, Requests
  <2>2. ReqInv'
    BY <1>10 DEF AbortPrimary, AbortRequest, Cancelled, TypeOK, Requests
  <2>3. CbInv'
    BY <1>10 DEF AbortPrimary, AbortRequest, Cancelled, TypeOK, Requests
  <2>4. LockInv'
    BY <1>10 DEF AbortPrimary, AbortRequest, Cancelled, TypeOK, Requests
  <2>5. AbortInv'
    BY <1>10 DEF AbortPrimary, AbortRequest, Cancelled, TypeOK, Requests
  <2>6. DoneInv'
    BY <1>10 DEF AbortPrimary, AbortRequest, Cancelled, TypeOK, Requests
  <2>7. ReportedRequestCompleted'
    BY <1>10 DEF AbortPrimary, AbortRequest, Cancelled, TypeOK, Requests
  <2>8. QED
    BY <1>0, <2>1, <2>2, <2>3, <2>4, <2>5, <2>6, <2>7 DEF IInv
<1>11. ASSUME NEW a \in Aborters, AbortLock(a) PROVE IInv'
  BY <1>11, <1>0, AbortersAssumption DEF AbortLock, TypeOK
<1>12. ASSUME NEW a \in Aborters, AbortGet(a) PROVE IInv'
  <2>1. CtorInv'
    BY <1>12 DEF AbortGet, AbortRequest, Cancelled, TypeOK, Requests
  <2>2. ReqInv'
    BY <1>12 DEF AbortGet, AbortRequest, Cancelled, TypeOK, Requests
  <2>3. CbInv'
    BY <1>12 DEF AbortGet, AbortRequest, Cancelled, TypeOK, Requests
  <2>4. LockInv'
    <3>1. /\ lock = a /\ lock' = "free" /\ cbPc' = cbPc
          /\ abPc' = [abPc EXCEPT ![a] = "done"]
      BY <1>12 DEF AbortGet
    <3>2. QED
      BY <3>1, AborterNames DEF TypeOK
  <2>5. AbortInv'
    <3>1. /\ abPc[a] = "get"
          /\ abPc' = [abPc EXCEPT ![a] = "done"]
          /\ UNCHANGED <<ctor, aborted, cbPc>>
          /\ lock = a
          /\ AbortRequest("get")
      BY <1>12 DEF AbortGet
    <3>2. req \in [Requests -> RequestRec]
      BY DEF TypeOK
    <3>3. "get" \in Requests
      BY DEF Requests
    <3>4. /\ \A x \in Requests :
               /\ req'[x].st = req[x].st
               /\ req[x].cancelled => req'[x].cancelled
               /\ x # "get" => req'[x] = req[x]
          /\ req'["get"].st = "sending" => req'["get"].cancelled
      BY <3>1, <3>2, <3>3, AbortRequestFacts
    <3>5. aborted' <=> \E b \in Aborters : abPc'[b] # "idle"
      BY <3>1 DEF TypeOK
    <3>6. cbPc # "create"
      BY <3>1, AborterNames DEF LockInv
    <3>7. ASSUME NEW b \in Aborters PROVE AbortCallInv(b)'
      BY <3>1, <3>4, <3>6 DEF TypeOK, Requests
    <3>8. QED
      BY <3>5, <3>7
  <2>6. DoneInv'
    BY <1>12 DEF AbortGet, AbortRequest, Cancelled, TypeOK, Requests
  <2>7. ReportedRequestCompleted'
    BY <1>12 DEF AbortGet, AbortRequest, Cancelled, TypeOK, Requests
  <2>8. QED
    BY <1>0, <2>1, <2>2, <2>3, <2>4, <2>5, <2>6, <2>7 DEF IInv
<1>13. CASE CallerHandleResponse
  <2>1. CtorInv'
    BY <1>13 DEF CallerHandleResponse, HandleResponse, TypeOK, Requests
  <2>2. ReqInv'
    BY <1>13 DEF CallerHandleResponse, HandleResponse, TypeOK, Requests
  <2>3. CbInv'
    BY <1>13 DEF CallerHandleResponse, HandleResponse, TypeOK, Requests
  <2>4. LockInv'
    BY <1>13 DEF CallerHandleResponse, HandleResponse, TypeOK, Requests
  <2>5. AbortInv'
    BY <1>13 DEF CallerHandleResponse, HandleResponse, TypeOK, Requests
  <2>6. DoneInv'
    BY <1>13 DEF CallerHandleResponse, HandleResponse, TypeOK, Requests
  <2>7. ReportedRequestCompleted'
    <3>1. PICK p \in BOOLEAN : reported' = HandleResponse(req, p)
      BY <1>13 DEF CallerHandleResponse
    <3>2. /\ req["primary"].st = "completed"
          /\ req["get"].st \in {"none", "completed"}
      BY <1>13 DEF CallerHandleResponse
    <3>3. req \in [Requests -> RequestRec]
      BY DEF TypeOK
    <3>4. HandleResponse(req, p).complete
      <4> HIDE DEF IInv
      <4>1. QED
        BY <3>2, <3>3, HandleResponseComplete
    <3>5. QED
      BY <3>1, <3>4
  <2>8. QED
    BY <1>0, <2>1, <2>2, <2>3, <2>4, <2>5, <2>6, <2>7 DEF IInv
<1>14. CASE Terminated \/ UNCHANGED vars
  BY <1>14, <1>0 DEF Terminated, vars
<1>16. QED
  BY <1>1, <1>2, <1>3, <1>4, <1>5, <1>6, <1>7, <1>8, <1>9, <1>10, <1>11,
     <1>12, <1>13, <1>14, <1>15 DEF Next

(* The conjunction IInv holds in every state of the update checker.         *)
THEOREM IInvInvariant == Spec => []IInv
  BY InitIInv, NextIInv, PTL DEF Spec

-----------------------------------------------------------------------------
(* The safety properties the TLC run checks, for every set of outcomes.     *)

LEMMA IInvImpliesSafety ==
  IInv => /\ DoneAtMostOnce
          /\ AbortLeavesNothingRunning
          /\ ReportedRequestCompleted
<1> SUFFICES ASSUME IInv
             PROVE  /\ DoneAtMostOnce
                    /\ AbortLeavesNothingRunning
                    /\ ReportedRequestCompleted
  OBVIOUS
<1>1. DoneAtMostOnce
  BY DEF IInv, DoneInv, DoneAtMostOnce
<1>2. AbortLeavesNothingRunning
  BY DEF IInv, AbortInv, AbortCallInv, AbortLeavesNothingRunning, Requests
<1>3. QED
  BY <1>1, <1>2 DEF IInv, ReqInv

(* m_onUpdateCheckDone runs at most once, whichever of lines 259, 263 and   *)
(* 270 reaches it and however Abort interleaves with OnRequestDone.         *)
THEOREM DoneAtMostOnceInvariant == Spec => []DoneAtMostOnce
  BY IInvInvariant, IInvImpliesSafety, PTL

(* When Abort returns, every request in flight has been aborted, including *)
(* a fallback request OnRequestDone created after the flag was set between *)
(* its re-check (254) and its make_unique (256): Abort's mutex (212) waits *)
(* for that creation before it aborts the requests.                        *)
THEOREM AbortLeavesNothingRunningInvariant == Spec => []AbortLeavesNothingRunning
  BY IInvInvariant, IInvImpliesSafety, PTL

(* HandleResponse never reads a fallback request that is still in flight or *)
(* failed to send (lines 219-239, the reset of line 261).                   *)
THEOREM ReportedRequestCompletedInvariant == Spec => []ReportedRequestCompleted
  BY IInvInvariant, IInvImpliesSafety, PTL

=============================================================================
