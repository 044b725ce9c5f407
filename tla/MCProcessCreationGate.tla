----------------------- MODULE MCProcessCreationGate -----------------------
(* Two threads create processes, and an injection may re-enter the hook *)
(* once (two frames on a thread), while the destructor may run at any    *)
(* point.                                                                *)
EXTENDS ProcessCreationGate

CONSTANTS t1, t2

MCThreads == {t1, t2}
MCMaxDepth == 2
=============================================================================
