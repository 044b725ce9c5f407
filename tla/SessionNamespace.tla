-------------------------- MODULE SessionNamespace --------------------------
(***************************************************************************)
(* SessionPrivateNamespace (src/src/windhawk/engine/                      *)
(* session_private_namespace.cpp, lines 1-96).                             *)
(*                                                                         *)
(* MakeName formats the session manager's process id into                  *)
(* "WindhawkSession%u" with swprintf_s into a buffer of                    *)
(* kPrivateNamespaceMaxLen + 1 characters.  Create builds a boundary       *)
(* descriptor named by that string (a World SID and a medium integrity     *)
(* label) and creates the private namespace; Open rebuilds the same        *)
(* boundary and opens it.  The handles are wil RAII wrappers: the          *)
(* manager's one destroys the namespace when it is released, a client's    *)
(* one only closes it.                                                     *)
(*                                                                         *)
(* The kernel is modelled by its documented interface: a namespace is      *)
(* found by boundary and name while it is not destroyed and some handle    *)
(* refers to it; CreatePrivateNamespace fails with ERROR_ALREADY_EXISTS    *)
(* when one is found, OpenPrivateNamespace fails when none is.  Process    *)
(* ids of live processes are distinct; an exited manager's id may be       *)
(* handed out again.                                                       *)
(***************************************************************************)
EXTENDS Naturals, Sequences

CONSTANTS
    Managers,     \* session manager processes
    Clients,      \* processes that join a manager's namespace with Open
    Pids,         \* process ids the OS hands out to managers
    NoPid         \* the id field of a process that has not started

(* Process ids are DWORDs.  TLC's integers stop at 2^31 - 1, whose ten  *)
(* digits are as many as the largest DWORD has, so the longest name is  *)
(* reached below that bound.                                             *)
ASSUME PidsAssumption ==
    /\ Pids \subseteq Nat /\ Pids # {}
    /\ NoPid \notin Pids

(* Line 44: kPrivateNamespaceMaxLen + 1 == sizeof("WindhawkSession1234567890"). *)
kPrivateNamespaceMaxLen == 25

Prefix == "WindhawkSession"
PrefixLen == 15

(* The decimal digits %u writes for n, most significant first. *)
Digits[n \in Nat] ==
    IF n < 10 THEN <<n>> ELSE Append(Digits[n \div 10], n % 10)

(* What swprintf_s leaves when the text and its terminator do not fit:   *)
(* the empty string, after the invalid parameter handler ran (by default *)
(* it terminates the process).                                           *)
Overflow == [prefix |-> "", digits |-> <<>>]

(* swprintf_s(buf, count, L"WindhawkSession%u", pid). *)
FormatName(count, pid) ==
    IF PrefixLen + Len(Digits[pid]) + 1 <= count
    THEN [prefix |-> Prefix, digits |-> Digits[pid]]
    ELSE Overflow

MakeNameShortBuffer(pid) == FormatName(kPrivateNamespaceMaxLen, pid)

(* MakeName, lines 42-48. *)
MakeName(pid) == FormatName(kPrivateNamespaceMaxLen + 1, pid)

(* BuildBoundaryDescriptor, lines 8-36: the boundary is named by the      *)
(* namespace name and carries the World SID and the medium label.        *)
BoundaryOf(name) ==
    [name |-> name, sids |-> {"World", "MediumIntegrity"}]

VARIABLES
    mgrPc,    \* manager process: "new", "running", "holding", "failed", "exited"
    mgrPid,   \* its process id while it lives
    mgrErr,   \* why its Create threw: "none", "os", "exists"
    mgrNs,    \* the namespace instance its destroying handle refers to (0: none)
    cliPc,    \* client process: "idle", "holding", "failed"
    cliPid,   \* the manager process id it passed to Open
    cliNs,    \* the instance its closing handle refers to (0: none)
    spaces    \* kernel namespaces ever created: boundary, name, destroyed

vars == <<mgrPc, mgrPid, mgrErr, mgrNs, cliPc, cliPid, cliNs, spaces>>

Live == {"running", "holding", "failed"}

Instances == 1..Len(spaces)

(* Some handle still refers to instance i. *)
Referenced(i) ==
    \/ \E m \in Managers : mgrPc[m] = "holding" /\ mgrNs[m] = i
    \/ \E c \in Clients : cliPc[c] = "holding" /\ cliNs[c] = i

(* The instances the kernel finds under a boundary and a name. *)
Lookup(boundary, name) ==
    {i \in Instances : /\ spaces[i].boundary = boundary
                       /\ spaces[i].name = name
                       /\ ~spaces[i].destroyed
                       /\ Referenced(i)}

(* A namespace after ClosePrivateNamespace with the destroy flag. *)
Destroyed(ns) == [boundary |-> ns.boundary, name |-> ns.name, destroyed |-> TRUE]

Init ==
    /\ mgrPc = [m \in Managers |-> "new"]
    /\ mgrPid = [m \in Managers |-> NoPid]
    /\ mgrErr = [m \in Managers |-> "none"]
    /\ mgrNs = [m \in Managers |-> 0]
    /\ cliPc = [c \in Clients |-> "idle"]
    /\ cliPid = [c \in Clients |-> NoPid]
    /\ cliNs = [c \in Clients |-> 0]
    /\ spaces = <<>>

(* A session manager process starts with an id no live process has. *)
ManagerStart(m) ==
    /\ mgrPc[m] = "new"
    /\ \E p \in Pids :
          /\ \A n \in Managers : mgrPc[n] \in Live => mgrPid[n] # p
          /\ mgrPid' = [mgrPid EXCEPT ![m] = p]
    /\ mgrPc' = [mgrPc EXCEPT ![m] = "running"]
    /\ UNCHANGED <<mgrErr, mgrNs, cliPc, cliPid, cliNs, spaces>>

(* Create, lines 50-79.  osOk is whether CreateBoundaryDescriptor,        *)
(* AllocateAndInitializeSid, AddSIDToBoundaryDescriptor,                 *)
(* AddIntegrityLabelToBoundaryDescriptor, GetFullAccessSecurityDescriptor *)
(* and CreatePrivateNamespace succeed for any reason but the name.        *)
Create(m) ==
    /\ mgrPc[m] = "running"
    /\ LET name == MakeName(mgrPid[m])
           b == BoundaryOf(name)
       IN /\ name # Overflow
          /\ \E osOk \in BOOLEAN :
               \/ /\ ~osOk
                  /\ mgrPc' = [mgrPc EXCEPT ![m] = "failed"]
                  /\ mgrErr' = [mgrErr EXCEPT ![m] = "os"]
                  /\ UNCHANGED <<mgrNs, spaces>>
               \/ /\ osOk
                  /\ Lookup(b, name) # {}
                  /\ mgrPc' = [mgrPc EXCEPT ![m] = "failed"]
                  /\ mgrErr' = [mgrErr EXCEPT ![m] = "exists"]
                  /\ UNCHANGED <<mgrNs, spaces>>
               \/ /\ osOk
                  /\ Lookup(b, name) = {}
                  /\ spaces' = Append(spaces, [boundary |-> b, name |-> name,
                                               destroyed |-> FALSE])
                  /\ mgrNs' = [mgrNs EXCEPT ![m] = Len(spaces) + 1]
                  /\ mgrPc' = [mgrPc EXCEPT ![m] = "holding"]
                  /\ UNCHANGED mgrErr
    /\ UNCHANGED <<mgrPid, cliPc, cliPid, cliNs>>

(* The manager exits without releasing its handle with the destroy flag. *)
ManagerExitNoDestroy(m) ==
    /\ mgrPc[m] \in Live
    /\ mgrPc' = [mgrPc EXCEPT ![m] = "exited"]
    /\ mgrNs' = [mgrNs EXCEPT ![m] = 0]
    /\ UNCHANGED <<mgrPid, mgrErr, cliPc, cliPid, cliNs, spaces>>

(* The manager process exits: the unique_private_namespace_destroy it     *)
(* holds calls ClosePrivateNamespace with PRIVATE_NAMESPACE_FLAG_DESTROY. *)
ManagerExit(m) ==
    /\ mgrPc[m] \in Live
    /\ mgrPc' = [mgrPc EXCEPT ![m] = "exited"]
    /\ mgrNs' = [mgrNs EXCEPT ![m] = 0]
    /\ spaces' = IF mgrPc[m] = "holding"
                 THEN [spaces EXCEPT ![mgrNs[m]] = Destroyed(spaces[mgrNs[m]])]
                 ELSE spaces
    /\ UNCHANGED <<mgrPid, mgrErr, cliPc, cliPid, cliNs>>

(* Open, lines 81-94, with the id of a manager the client was started by, *)
(* which may have exited since.  osOk as in Create.                      *)
Open(c) ==
    /\ cliPc[c] \in {"idle", "failed"}
    /\ \E m \in Managers :
          /\ mgrPc[m] # "new"
          /\ LET name == MakeName(mgrPid[m])
                 b == BoundaryOf(name)
             IN /\ name # Overflow
                /\ cliPid' = [cliPid EXCEPT ![c] = mgrPid[m]]
                /\ \E osOk \in BOOLEAN :
                     \/ /\ osOk
                        /\ \E i \in Lookup(b, name) :
                              cliNs' = [cliNs EXCEPT ![c] = i]
                        /\ cliPc' = [cliPc EXCEPT ![c] = "holding"]
                     \/ /\ ~osOk \/ Lookup(b, name) = {}
                        /\ cliPc' = [cliPc EXCEPT ![c] = "failed"]
                        /\ UNCHANGED cliNs
    /\ UNCHANGED <<mgrPc, mgrPid, mgrErr, mgrNs, spaces>>

(* The client releases its unique_private_namespace_close. *)
Close(c) ==
    /\ cliPc[c] = "holding"
    /\ cliPc' = [cliPc EXCEPT ![c] = "idle"]
    /\ cliNs' = [cliNs EXCEPT ![c] = 0]
    /\ UNCHANGED <<mgrPc, mgrPid, mgrErr, mgrNs, cliPid, spaces>>

Next ==
    \/ \E m \in Managers : ManagerStart(m) \/ Create(m) \/ ManagerExit(m)
    \/ \E c \in Clients : Open(c) \/ Close(c)

Spec == Init /\ [][Next]_vars

-----------------------------------------------------------------------------

(* A kernel namespace: its boundary, its name, whether it was destroyed. *)
Namespace ==
    [boundary: {BoundaryOf(MakeName(p)) : p \in Pids},
     name: {MakeName(p) : p \in Pids},
     destroyed: BOOLEAN]

TypeOK ==
    /\ mgrPc \in [Managers -> {"new", "running", "holding", "failed", "exited"}]
    /\ mgrPid \in [Managers -> Pids \cup {NoPid}]
    /\ mgrErr \in [Managers -> {"none", "os", "exists"}]
    /\ mgrNs \in [Managers -> Nat]
    /\ cliPc \in [Clients -> {"idle", "holding", "failed"}]
    /\ cliPid \in [Clients -> Pids \cup {NoPid}]
    /\ cliNs \in [Clients -> Nat]
    /\ spaces \in Seq(Namespace)

(* The reference reading of a digit sequence as a decimal number. *)
DecimalValue(s) ==
    LET v[i \in 0..Len(s)] == IF i = 0 THEN 0 ELSE 10 * v[i - 1] + s[i]
    IN v[Len(s)]

(* MakeName (lines 42-48) fits its buffer for the id of every manager    *)
(* that started, ten-digit ones included, and the id can be read back     *)
(* from the name: two managers never compute the same name, and a client  *)
(* recomputing it from the id finds the manager's namespace.              *)
MakeNameRoundTrip ==
    \A m \in Managers : mgrPc[m] # "new" =>
        LET name == MakeName(mgrPid[m])
        IN /\ name # Overflow
           /\ name.prefix = Prefix
           /\ \A k \in 1..Len(name.digits) : name.digits[k] \in 0..9
           /\ DecimalValue(name.digits) = mgrPid[m]

(* Create (line 76) never fails because a namespace of the same boundary  *)
(* and name already exists: live managers have distinct ids, and the      *)
(* namespace of a manager that exited was destroyed by its handle, even   *)
(* when a client still holds it open and the id is handed out again.     *)
CreateNeverCollides ==
    \A m \in Managers : mgrErr[m] # "exists"

(* Open (line 91) only succeeds on the namespace of the live manager that *)
(* has the id the client passed: never on one left behind by a manager    *)
(* that exited, even while another client still holds that one open.      *)
OpenJoinsLiveManager ==
    [][\A c \in Clients :
         (cliPc'[c] = "holding" /\ cliPc[c] # "holding") =>
            \E m \in Managers : /\ mgrPc[m] = "holding"
                                /\ mgrPid[m] = cliPid'[c]
                                /\ mgrNs[m] = cliNs'[c]]_vars

=============================================================================
