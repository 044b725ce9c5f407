--------------------------- MODULE UpdateChecker ---------------------------
(***************************************************************************)
(* The engine's update checker (class UpdateChecker, the update_checker   *)
(* part of src/src/windhawk/engine/session_private_namespace.cpp, lines   *)
(* 100-271).  One object performs one exchange with the update service:   *)
(* a primary request (POST when there is usage data to report, GET        *)
(* otherwise) and, when the server answers 405 with an "invalid header"   *)
(* transport result, one fallback GET request.                            *)
(*                                                                         *)
(* Three actors touch the object concurrently:                            *)
(*   - the constructing thread (the constructor, lines 180-204);          *)
(*   - the transport's completion thread, which runs OnRequestDone        *)
(*     (lines 250-271) for the primary request and the done callback for  *)
(*     the fallback request (line 259);                                   *)
(*   - threads of the owner calling Abort (lines 206-217), possibly more  *)
(*     than once and from several threads at once.                        *)
(* The fallback request object m_httpSimpleGetRequest is guarded by       *)
(* m_httpSimpleGetRequestMutex; m_aborted is read outside that mutex.     *)
(*                                                                         *)
(* The HTTP transport (CWinHTTPSimple) is not part of the repository; it  *)
(* is modelled by its interface: a sent request eventually completes with *)
(* a result (hr, HTTP status) taken from TransportOutcomes, or with       *)
(* E_ABORT once it has been aborted; in asynchronous mode its completion  *)
(* callback runs once; in synchronous mode SendRequest returns after the  *)
(* exchange has completed; aborting a request that is not in flight does  *)
(* nothing.                                                                *)
(***************************************************************************)
EXTENDS Naturals

CONSTANTS
    TransportOutcomes,  \* results [hr, status] a request that is not aborted may end with
    Aborters            \* the calls of Abort the owner makes, each on a thread of its own

\* The transport results the code distinguishes.  "INVALID_HEADER" stands for
\* HRESULT_FROM_WIN32(ERROR_WINHTTP_INVALID_HEADER), "E_OTHER" for any other
\* failure of the transport.
TransportHr == {"S_OK", "INVALID_HEADER", "E_OTHER"}

ASSUME TransportOutcomesAssumption ==
    /\ TransportOutcomes \subseteq [hr : TransportHr, status : Nat]
    /\ TransportOutcomes # {}

\* A call of Abort is named apart from the other holders of the mutex.
ASSUME AbortersAssumption == Aborters \cap {"free", "cb"} = {}

\* Every hr a request or a Result can carry: "NONE" while a request has not
\* completed, "E_ABORT" for an aborted request, "E_FAIL" for a response that
\* could not be handled (line 234).
AllHr == TransportHr \cup {"NONE", "E_ABORT", "E_FAIL"}

Requests == {"primary", "get"}

VARIABLES
    async,      \* onUpdateCheckDone != nullptr: the asynchronous constructor
    posted,     \* !m_postedData.empty(): there is usage data to POST
    ctor,       \* program counter of the constructing thread
    req,        \* req[r]: m_httpSimple ("primary") and *m_httpSimpleGetRequest ("get")
    aborted,    \* m_aborted
    lock,       \* owner of m_httpSimpleGetRequestMutex: "free", "cb" or a call of Abort
    cbPc,       \* program counter of OnRequestDone on the completion thread
    abPc,       \* abPc[a]: program counter of the call a of Abort
    doneCount,  \* number of calls of m_onUpdateCheckDone
    reported    \* the Result HandleResponse returned to the owner, or NoResult

vars == <<async, posted, ctor, req, aborted, lock, cbPc, abPc, doneCount, reported>>

\* A request: st is "none" when the object does not exist (a null
\* m_httpSimpleGetRequest, or a primary request not sent yet), "unsent" when
\* it exists but SendRequest failed, "sending" while in flight, "completed"
\* once the transport has its result.  cb: it was sent with a completion
\* callback; cancelled: Abort was called on it while it was in flight.
RequestRec ==
    [st : {"none", "unsent", "sending", "completed"}, hr : AllHr,
     status : Nat, cancelled : BOOLEAN, cb : BOOLEAN]

NoRequest == [st |-> "none", hr |-> "NONE", status |-> 0,
              cancelled |-> FALSE, cb |-> FALSE]

\* CWinHTTPSimple::SendRequest: the request is in flight.
Sending(withCallback) == [st |-> "sending", hr |-> "NONE", status |-> 0,
                          cancelled |-> FALSE, cb |-> withCallback]

\* The transport has the result o of the request rq.
Completed(rq, o) == [st |-> "completed", hr |-> o.hr, status |-> o.status,
                     cancelled |-> rq.cancelled, cb |-> rq.cb]

\* CWinHTTPSimple::Abort on the request rq in flight.
Cancelled(rq) == [st |-> rq.st, hr |-> rq.hr, status |-> rq.status,
                  cancelled |-> TRUE, cb |-> rq.cb]

NoResult == [from |-> "none", hr |-> "NONE", status |-> 0, complete |-> FALSE]

ResultRec ==
    [from : Requests \cup {"none"}, hr : AllHr, status : Nat, complete : BOOLEAN]

-----------------------------------------------------------------------------
(* Helpers translated from the code.                                       *)

\* ShouldRetryWithAGetRequest (lines 241-248): the primary request ended with
\* the "invalid header" transport result and HTTP status 405.
ShouldRetryWithAGetRequest ==
    /\ req["primary"].hr = "INVALID_HEADER"
    /\ req["primary"].status = 405

\* HandleResponse (lines 219-239) evaluated on the requests rs: it reads the
\* fallback request when the object exists, the primary one otherwise, and
\* turns a successful transport result into E_FAIL when parsing or merging
\* the response throws (parseOk = FALSE).  "complete" records whether the
\* request it read had completed.
HandleResponse(rs, parseOk) ==
    LET r  == IF rs["get"].st # "none" THEN "get" ELSE "primary"
        hr == rs[r].hr
    IN  [from     |-> r,
         hr       |-> IF hr = "S_OK" /\ ~parseOk THEN "E_FAIL" ELSE hr,
         status   |-> rs[r].status,
         complete |-> rs[r].st = "completed"]

\* The owner's m_onUpdateCheckDone runs and reads the result with
\* HandleResponse on the requests as they are after this step.
CallDone ==
    /\ doneCount' = doneCount + 1
    /\ \E parseOk \in BOOLEAN : reported' = HandleResponse(req', parseOk)

\* CWinHTTPSimple::Abort on request r: cancels it if it is in flight.
AbortRequest(r) ==
    req' = IF req[r].st = "sending"
              THEN [req EXCEPT ![r] = Cancelled(req[r])]
              ELSE req

-----------------------------------------------------------------------------
Init ==
    /\ async \in BOOLEAN
    /\ posted \in BOOLEAN
    /\ ctor = "init"
    /\ req = [r \in Requests |-> NoRequest]
    /\ aborted = FALSE
    /\ lock = "free"
    /\ cbPc = "idle"
    /\ abPc = [a \in Aborters |-> "idle"]
    /\ doneCount = 0
    /\ reported = NoResult

(* The constructor up to its first SendRequest (lines 180-197).  AddHeaders *)
(* is only called when there is data to post and may fail (THROW_IF_FAILED, *)
(* line 190); in asynchronous mode a failing SendRequest throws too (line   *)
(* 195), and no callback is ever delivered.  In synchronous mode the         *)
(* constructor then waits for the primary request.                          *)
ConstructorStart ==
    /\ ctor = "init"
    /\ \/ /\ posted
          /\ ctor' = "threw"
          /\ UNCHANGED req
       \/ /\ async
          /\ ctor' = "threw"
          /\ UNCHANGED req
       \/ /\ req' = [req EXCEPT !["primary"] = Sending(async)]
          /\ ctor' = IF async THEN "returned" ELSE "waitPrimary"
    /\ UNCHANGED <<async, posted, aborted, lock, cbPc, abPc, doneCount, reported>>

\* Mutant: the synchronous fallback created with async = true and sent with
\* the done callback (lines 199-201 written like lines 256-259).
ConstructorAfterPrimaryWithCallback ==
    /\ ctor = "waitPrimary"
    /\ req["primary"].st = "completed"
    /\ IF ShouldRetryWithAGetRequest
          THEN /\ req' = [req EXCEPT !["get"] = Sending(TRUE)]
               /\ ctor' = "waitGet"
          ELSE /\ ctor' = "returned"
               /\ UNCHANGED req
    /\ UNCHANGED <<async, posted, aborted, lock, cbPc, abPc, doneCount, reported>>

(* Synchronous constructor after the primary request returned (lines 198-  *)
(* 202): when the server rejected the verb, a fallback GET request is sent  *)
(* without callback; its SendRequest result is ignored.                     *)
ConstructorAfterPrimary ==
    /\ ctor = "waitPrimary"
    /\ req["primary"].st = "completed"
    /\ IF ShouldRetryWithAGetRequest
          THEN /\ req' = [req EXCEPT !["get"] = Sending(FALSE)]
               /\ ctor' = "waitGet"
          ELSE /\ ctor' = "returned"
               /\ UNCHANGED req
    /\ UNCHANGED <<async, posted, aborted, lock, cbPc, abPc, doneCount, reported>>

\* Synchronous constructor returns once the fallback request has completed.
ConstructorAfterGet ==
    /\ ctor = "waitGet"
    /\ req["get"].st = "completed"
    /\ ctor' = "returned"
    /\ UNCHANGED <<async, posted, req, aborted, lock, cbPc, abPc, doneCount, reported>>

(* The transport completes the primary request.  An aborted request ends   *)
(* with E_ABORT.  In asynchronous mode the completion thread then enters    *)
(* OnRequestDone (the lambda of line 195).                                  *)
PrimaryCompletes ==
    /\ req["primary"].st = "sending"
    /\ \E o \in IF req["primary"].cancelled
                   THEN {[hr |-> "E_ABORT", status |-> 0]}
                   ELSE TransportOutcomes :
           req' = [req EXCEPT !["primary"] = Completed(req["primary"], o)]
    /\ cbPc' = IF req["primary"].cb THEN "check" ELSE cbPc
    /\ UNCHANGED <<async, posted, ctor, aborted, lock, abPc, doneCount, reported>>

(* The transport completes the fallback request; in asynchronous mode its  *)
(* callback calls m_onUpdateCheckDone (line 259).                           *)
GetCompletes ==
    /\ req["get"].st = "sending"
    /\ \E o \in IF req["get"].cancelled
                   THEN {[hr |-> "E_ABORT", status |-> 0]}
                   ELSE TransportOutcomes :
           req' = [req EXCEPT !["get"] = Completed(req["get"], o)]
    /\ IF req["get"].cb
          THEN CallDone
          ELSE UNCHANGED <<doneCount, reported>>
    /\ UNCHANGED <<async, posted, ctor, aborted, lock, cbPc, abPc>>

(* OnRequestDone, line 251: retry only when the server rejected the verb   *)
(* and Abort has not been seen; otherwise report completion (line 270).    *)
OnRequestDoneCheck ==
    /\ cbPc = "check"
    /\ IF ShouldRetryWithAGetRequest /\ ~aborted
          THEN /\ cbPc' = "lock"
               /\ UNCHANGED <<doneCount, reported>>
          ELSE /\ cbPc' = "done"
               /\ UNCHANGED req
               /\ CallDone
    /\ UNCHANGED <<async, posted, ctor, req, aborted, lock, abPc>>

\* OnRequestDone, line 252: acquire m_httpSimpleGetRequestMutex.
OnRequestDoneLock ==
    /\ cbPc = "lock"
    /\ lock = "free"
    /\ lock' = "cb"
    /\ cbPc' = "locked"
    /\ UNCHANGED <<async, posted, ctor, req, aborted, abPc, doneCount, reported>>

\* Mutant: the catch block forgets m_httpSimpleGetRequest.reset().
GetSendFailedNoReset == req' = [req EXCEPT !["get"].st = "unsent"]

\* The catch block of lines 260-264 after a failed SendRequest: the object
\* is reset before the owner is told, so HandleResponse reads the primary
\* request.
GetSendFailed == req' = [req EXCEPT !["get"] = NoRequest]

\* Mutant: the flag is not checked again under the mutex (line 254).
OnRequestDoneRecheckSkipped ==
    /\ cbPc = "locked"
    /\ cbPc' = "create"
    /\ UNCHANGED <<async, posted, ctor, req, aborted, lock, abPc, doneCount, reported>>

(* OnRequestDone, line 254, under the mutex: if Abort has set the flag     *)
(* meanwhile, leave the locked block and tell the owner (lines 268-270);   *)
(* otherwise go on to create the fallback.  The flag is read here only:    *)
(* Abort may set it (line 207, outside the mutex) before line 256 runs.    *)
OnRequestDoneRecheck ==
    /\ cbPc = "locked"
    /\ IF aborted
          THEN /\ lock' = "free"
               /\ cbPc' = "done"
               /\ UNCHANGED req
               /\ CallDone
          ELSE /\ cbPc' = "create"
               /\ UNCHANGED <<req, lock, doneCount, reported>>
    /\ UNCHANGED <<async, posted, ctor, aborted, abPc>>

\* Mutant: the "return;" of line 266 placed inside the try block, so after
\* the catch block has told the owner, line 270 tells it again.
OnRequestDoneCreateCatchFallsThrough ==
    /\ cbPc = "create"
    /\ \/ /\ req' = [req EXCEPT !["get"] = Sending(TRUE)]
          /\ UNCHANGED <<doneCount, reported>>
       \/ /\ GetSendFailed
          /\ doneCount' = doneCount + 2
          /\ \E parseOk \in BOOLEAN : reported' = HandleResponse(req', parseOk)
    /\ lock' = "free"
    /\ cbPc' = "done"
    /\ UNCHANGED <<async, posted, ctor, aborted, abPc>>

\* Mutant: the catch block only logs and does not call m_onUpdateCheckDone.
OnRequestDoneCreateSilentCatch ==
    /\ cbPc = "create"
    /\ \/ /\ req' = [req EXCEPT !["get"] = Sending(TRUE)]
       \/ GetSendFailed
    /\ lock' = "free"
    /\ cbPc' = "done"
    /\ UNCHANGED <<async, posted, ctor, aborted, abPc, doneCount, reported>>

(* OnRequestDone, lines 256-266, still under the mutex: the fallback GET  *)
(* is created and sent with a callback (lines 256-259), or, when sending   *)
(* fails, the object is reset and the owner told (lines 261-263); the      *)
(* function returns and the lock_guard releases the mutex (line 266).      *)
OnRequestDoneCreate ==
    /\ cbPc = "create"
    /\ \/ /\ req' = [req EXCEPT !["get"] = Sending(TRUE)]
          /\ UNCHANGED <<doneCount, reported>>
       \/ /\ GetSendFailed
          /\ CallDone
    /\ lock' = "free"
    /\ cbPc' = "done"
    /\ UNCHANGED <<async, posted, ctor, aborted, abPc>>

\* Abort, line 207, in the call a: once the object exists the owner may
\* abort it, again or from another thread.
AbortSetFlag(a) ==
    /\ ctor = "returned"
    /\ abPc[a] = "idle"
    /\ aborted' = TRUE
    /\ abPc' = [abPc EXCEPT ![a] = "primary"]
    /\ UNCHANGED <<async, posted, ctor, req, lock, cbPc, doneCount, reported>>

\* Abort, line 209: abort the primary request.
AbortPrimary(a) ==
    /\ abPc[a] = "primary"
    /\ AbortRequest("primary")
    /\ abPc' = [abPc EXCEPT ![a] = "lock"]
    /\ UNCHANGED <<async, posted, ctor, aborted, lock, cbPc, doneCount, reported>>

\* Mutant: Abort reads m_httpSimpleGetRequest without taking the mutex.
AbortLockIgnoresMutex(a) ==
    /\ abPc[a] = "lock"
    /\ abPc' = [abPc EXCEPT ![a] = "get"]
    /\ UNCHANGED <<async, posted, ctor, req, aborted, lock, cbPc, doneCount, reported>>

\* Abort, line 212: acquire m_httpSimpleGetRequestMutex.
AbortLock(a) ==
    /\ abPc[a] = "lock"
    /\ lock = "free"
    /\ lock' = a
    /\ abPc' = [abPc EXCEPT ![a] = "get"]
    /\ UNCHANGED <<async, posted, ctor, req, aborted, cbPc, doneCount, reported>>

\* Abort, lines 213-216: abort the fallback request if it exists, release.
AbortGet(a) ==
    /\ abPc[a] = "get"
    /\ AbortRequest("get")
    /\ lock' = "free"
    /\ abPc' = [abPc EXCEPT ![a] = "done"]
    /\ UNCHANGED <<async, posted, ctor, aborted, cbPc, doneCount, reported>>

\* The owner of a synchronous checker reads the result once the
\* constructor has returned.
CallerHandleResponse ==
    /\ ~async
    /\ ctor = "returned"
    /\ reported = NoResult
    /\ \E parseOk \in BOOLEAN : reported' = HandleResponse(req, parseOk)
    /\ UNCHANGED <<async, posted, ctor, req, aborted, lock, cbPc, abPc, doneCount>>

\* Nothing is left to run: every thread has returned and no request is in
\* flight.
Quiescent ==
    /\ ctor \in {"threw", "returned"}
    /\ \A r \in Requests : req[r].st # "sending"
    /\ cbPc \in {"idle", "done"}
    /\ \A a \in Aborters : abPc[a] \in {"idle", "done"}

Terminated == Quiescent /\ UNCHANGED vars

Next ==
    \/ ConstructorStart
    \/ ConstructorAfterPrimary
    \/ ConstructorAfterGet
    \/ PrimaryCompletes
    \/ GetCompletes
    \/ OnRequestDoneCheck
    \/ OnRequestDoneLock
    \/ OnRequestDoneRecheck
    \/ OnRequestDoneCreate
    \/ \E a \in Aborters :
          AbortSetFlag(a) \/ AbortPrimary(a) \/ AbortLock(a) \/ AbortGet(a)
    \/ CallerHandleResponse
    \/ Terminated

(* Fairness: the transport completes every request it sent (WinHTTP has    *)
(* timeouts), and a thread that is running code of this class keeps         *)
(* running it.  Whether and when the owner calls Abort, and when it reads   *)
(* a synchronous result, is its own choice: no fairness.                    *)
Fairness ==
    /\ WF_vars(ConstructorStart)
    /\ WF_vars(ConstructorAfterPrimary)
    /\ WF_vars(ConstructorAfterGet)
    /\ WF_vars(PrimaryCompletes)
    /\ WF_vars(GetCompletes)
    /\ WF_vars(OnRequestDoneCheck)
    /\ WF_vars(OnRequestDoneLock)
    /\ WF_vars(OnRequestDoneRecheck)
    /\ WF_vars(OnRequestDoneCreate)
    /\ \A a \in Aborters :
          WF_vars(AbortPrimary(a)) /\ WF_vars(AbortLock(a)) /\ WF_vars(AbortGet(a))

Spec == Init /\ [][Next]_vars /\ Fairness

-----------------------------------------------------------------------------
(* Properties.                                                              *)

TypeOK ==
    /\ async \in BOOLEAN
    /\ posted \in BOOLEAN
    /\ ctor \in {"init", "waitPrimary", "waitGet", "returned", "threw"}
    /\ req \in [Requests -> RequestRec]
    /\ aborted \in BOOLEAN
    /\ lock \in {"free", "cb"} \cup Aborters
    /\ cbPc \in {"idle", "check", "lock", "locked", "create", "done"}
    /\ abPc \in [Aborters -> {"idle", "primary", "lock", "get", "done"}]
    /\ doneCount \in Nat
    /\ reported \in ResultRec

(* The owner's completion callback m_onUpdateCheckDone runs at most once,   *)
(* whichever of the three paths of OnRequestDone and the fallback callback  *)
(* (lines 259, 263, 270) reach it, and however Abort interleaves.           *)
DoneAtMostOnce == doneCount <= 1

(* Once a call of Abort has returned, no request is still in flight        *)
(* without having been aborted: the fallback request OnRequestDone creates  *)
(* concurrently (lines 251-259) is either aborted by that call or never     *)
(* created, however the other calls of Abort interleave with it.            *)
AbortLeavesNothingRunning ==
    \A a \in Aborters : abPc[a] = "done" =>
        \A r \in Requests : req[r].st = "sending" => req[r].cancelled

(* Whenever the owner reads the result (HandleResponse at the completion    *)
(* callback, or after a synchronous constructor), the request it reads has  *)
(* completed: it never reads a fallback request still in flight or one that *)
(* failed to send.                                                          *)
ReportedRequestCompleted ==
    reported # NoResult => reported.complete

(* An asynchronous checker that was constructed eventually calls its       *)
(* completion callback, whether or not it is aborted.                       *)
DoneEventually ==
    (async /\ ctor = "returned") ~> (doneCount = 1)

-----------------------------------------------------------------------------
(* Refinement: the checker implements UpdateCheckSession.  The phase is    *)
(* read off the threads and the requests: a fallback request in flight is   *)
(* the fallback phase, and so is an OnRequestDone that found the flag clear *)
(* under the mutex (line 254) and is creating one: the retry is decided     *)
(* there, even if Abort sets the flag before line 256 runs.  The primary    *)
(* phase lasts until OnRequestDone (or the synchronous constructor) has     *)
(* decided; a completed fallback request, or an OnRequestDone that returned *)
(* without one, is the end of the exchange.                                 *)
(* The tests are taken in order, the first that holds gives the phase.      *)
AbsPhase ==
    IF ctor = "init" THEN "idle"
    ELSE IF ctor = "threw" THEN "failedToStart"
    ELSE IF req["get"].st = "sending" THEN "fallback"
    ELSE IF req["get"].st = "completed" THEN "finished"
    ELSE IF cbPc = "create" THEN "fallback"
    ELSE IF async /\ cbPc # "done" THEN "primary"
    ELSE IF ctor = "waitPrimary" THEN "primary"
    ELSE "finished"

Session == INSTANCE UpdateCheckSession
               WITH phase <- AbsPhase, notifications <- doneCount

(* The checker implements the session's promise: the retry is decided only *)
(* while the abort flag is clear, the owner of an asynchronous check is told exactly when    *)
(* the exchange (fallback included) ends and only then, and a started       *)
(* exchange always ends.                                                    *)
SessionSpec == Session!Spec

(* The spec, section 4.3: "After Abort, no further completion callback     *)
(* fires with a 'succeeded' result."  Checked against OnRequestDone, which  *)
(* calls m_onUpdateCheckDone at line 270 without reading m_aborted when no  *)
(* retry is needed.                                                         *)
NoSuccessAfterAbort ==
    [][((\E a \in Aborters : abPc[a] = "done") /\ doneCount' > doneCount)
          => reported'.hr # "S_OK"]_vars

=============================================================================
