-------------------------- MODULE MCUpdateChecker --------------------------
(* UpdateChecker instantiated for TLC: the transport may succeed (200), be  *)
(* rejected for its verb (invalid header + 405), fail after a response      *)
(* (invalid header + 200, so that each half of the retry condition is met   *)
(* alone) or fail without one.  The owner calls Abort twice, from two      *)
(* threads that may run at the same time.                                   *)
EXTENDS UpdateChecker

MCTransportOutcomes ==
    { [hr |-> "S_OK",           status |-> 200],
      [hr |-> "INVALID_HEADER", status |-> 405],
      [hr |-> "INVALID_HEADER", status |-> 200],
      [hr |-> "S_OK",           status |-> 405],
      [hr |-> "E_OTHER",        status |-> 0] }
=============================================================================
