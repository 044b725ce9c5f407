---------------------- MODULE SessionNamespace_proofs ----------------------
(***************************************************************************)
(* Proofs about SessionNamespace.  The safety properties rest on MakeName  *)
(* telling process ids apart (MakeNameInjective), which is a hypothesis of *)
(* the theorems: it is a fact about the decimal digits of numbers, which   *)
(* TLC checks by reading the ids back (MakeNameRoundTrip) and which needs  *)
(* an induction over the recursive definition of Digits to prove.          *)
(*                                                                         *)
(* The inductive invariant IInv says that every namespace that is not      *)
(* destroyed is held by the live manager that created it, under that       *)
(* manager's name, and that live managers have distinct ids.  Then a       *)
(* namespace Create finds is one of a live manager with the same id, and   *)
(* one Open finds belongs to the live manager of the id it was given.      *)
(***************************************************************************)
EXTENDS SessionNamespace, TLAPS

MakeNameInjective ==
    \A p, q \in Pids : MakeName(p) = MakeName(q) => p = q

(* A manager that has started has an id the OS handed out. *)
StartedIds ==
    \A m \in Managers : mgrPc[m] # "new" => mgrPid[m] \in Pids

(* Live managers have distinct ids. *)
DistinctLiveIds ==
    \A m, n \in Managers :
        (m # n /\ mgrPc[m] \in Live /\ mgrPc[n] \in Live) => mgrPid[m] # mgrPid[n]

(* A holding manager's handle refers to a namespace under its own name   *)
(* that is not destroyed.                                                 *)
HeldInstance ==
    \A m \in Managers : mgrPc[m] = "holding" =>
        /\ mgrNs[m] \in Instances
        /\ spaces[mgrNs[m]].name = MakeName(mgrPid[m])
        /\ ~spaces[mgrNs[m]].destroyed

(* A namespace that is not destroyed is held by a manager. *)
UndestroyedHeld ==
    \A i \in Instances : ~spaces[i].destroyed =>
        \E m \in Managers : mgrPc[m] = "holding" /\ mgrNs[m] = i

(* Two managers never hold the same namespace. *)
DistinctHeld ==
    \A m, n \in Managers :
        (m # n /\ mgrPc[m] = "holding" /\ mgrPc[n] = "holding") =>
            mgrNs[m] # mgrNs[n]

IInv ==
    /\ TypeOK
    /\ StartedIds
    /\ DistinctLiveIds
    /\ HeldInstance
    /\ UndestroyedHeld
    /\ DistinctHeld
    /\ CreateNeverCollides

USE PidsAssumption

(* What Create and Open find under a manager's name is the namespace a   *)
(* live manager with that id holds.                                       *)
LEMMA LookupOwned ==
  ASSUME IInv, MakeNameInjective, NEW p \in Pids,
         NEW i \in Lookup(BoundaryOf(MakeName(p)), MakeName(p))
  PROVE  \E n \in Managers : /\ mgrPc[n] = "holding"
                             /\ mgrNs[n] = i
                             /\ mgrPid[n] = p
<1>1. i \in Instances /\ ~spaces[i].destroyed /\ spaces[i].name = MakeName(p)
  BY DEF Lookup
<1>2. PICK n \in Managers : mgrPc[n] = "holding" /\ mgrNs[n] = i
  BY <1>1 DEF IInv, UndestroyedHeld
<1>3. spaces[i].name = MakeName(mgrPid[n]) /\ mgrPid[n] \in Pids
  BY <1>2 DEF IInv, HeldInstance, StartedIds
<1>4. mgrPid[n] = p
  BY <1>1, <1>3 DEF MakeNameInjective
<1>5. QED
  BY <1>2, <1>4

LEMMA InitIInv == Init => IInv
<1> SUFFICES ASSUME Init PROVE IInv
  OBVIOUS
<1>1. TypeOK
  BY DEF Init, TypeOK
<1>2. Instances = {}
  BY DEF Init, Instances
<1>3. QED
  BY <1>1, <1>2 DEF Init, IInv, StartedIds, DistinctLiveIds, HeldInstance,
     UndestroyedHeld, DistinctHeld, CreateNeverCollides, Live

LEMMA NextIInv ==
  ASSUME MakeNameInjective, IInv, [Next]_vars
  PROVE  IInv'
<1> USE DEF IInv, TypeOK, StartedIds, DistinctLiveIds, HeldInstance,
            UndestroyedHeld, DistinctHeld, CreateNeverCollides, Instances, Live
<1>1. CASE \E m \in Managers : ManagerStart(m)
  BY <1>1 DEF ManagerStart
<1>2. CASE \E m \in Managers : Create(m)
  <2>1. PICK m \in Managers : Create(m)
    BY <1>2
  <2> DEFINE name == MakeName(mgrPid[m])
             b == BoundaryOf(name)
  <2>2. mgrPid[m] \in Pids /\ mgrPc[m] = "running"
    BY <2>1 DEF Create
  <2>3. Lookup(b, name) = {}
    <3>1. SUFFICES ASSUME NEW i \in Lookup(b, name) PROVE FALSE
      OBVIOUS
    <3>2. i \in Lookup(BoundaryOf(MakeName(mgrPid[m])), MakeName(mgrPid[m]))
      BY <3>1 DEF name, b
    <3>3. PICK n \in Managers : mgrPc[n] = "holding" /\ mgrPid[n] = mgrPid[m]
      <4> HIDE DEF IInv
      <4> QED
        BY <2>2, <3>2, LookupOwned
    <3>4. QED
      BY <2>2, <3>3
  <2>4. CASE /\ mgrPc' = [mgrPc EXCEPT ![m] = "failed"]
             /\ mgrErr' = [mgrErr EXCEPT ![m] = "os"]
             /\ UNCHANGED <<mgrNs, spaces>>
    BY <2>1, <2>2, <2>4 DEF Create
  <2>5. CASE /\ spaces' = Append(spaces, [boundary |-> b, name |-> name,
                                          destroyed |-> FALSE])
             /\ mgrNs' = [mgrNs EXCEPT ![m] = Len(spaces) + 1]
             /\ mgrPc' = [mgrPc EXCEPT ![m] = "holding"]
             /\ UNCHANGED mgrErr
    <3>1. UNCHANGED <<mgrPid, cliPc, cliPid, cliNs>>
      BY <2>1 DEF Create
    <3>2. [boundary |-> b, name |-> name, destroyed |-> FALSE] \in Namespace
      BY <2>2 DEF Namespace
    <3>3. TypeOK'
      BY <2>5, <3>1, <3>2
    <3>4. HeldInstance'
      BY <2>2, <2>5, <3>1
    <3>5. UndestroyedHeld'
      BY <2>2, <2>5, <3>1
    <3>6. DistinctHeld'
      BY <2>2, <2>5, <3>1
    <3>7. QED
      BY <2>2, <2>5, <3>1, <3>3, <3>4, <3>5, <3>6
  <2>6. QED
    BY <2>1, <2>3, <2>4, <2>5 DEF Create
<1>3. CASE \E m \in Managers : ManagerExit(m)
  <2>1. PICK m \in Managers : ManagerExit(m)
    BY <1>3
  <2>2. CASE mgrPc[m] = "holding"
    <3> DEFINE k == mgrNs[m]
    <3>1. /\ k \in Instances
          /\ spaces' = [spaces EXCEPT ![k] = Destroyed(spaces[k])]
          /\ mgrNs' = [mgrNs EXCEPT ![m] = 0]
          /\ mgrPc' = [mgrPc EXCEPT ![m] = "exited"]
          /\ UNCHANGED <<mgrPid, mgrErr, cliPc, cliPid, cliNs>>
      BY <2>1, <2>2 DEF ManagerExit, k
    <3>2. Destroyed(spaces[k]) \in Namespace
      <4>1. spaces[k] \in Namespace
        BY <3>1 DEF k
      <4>2. QED
        BY <4>1 DEF Destroyed, Namespace
    <3>3. /\ Len(spaces') = Len(spaces)
          /\ \A j \in Instances : j # k => spaces'[j] = spaces[j]
          /\ spaces'[k].destroyed /\ spaces'[k].name = spaces[k].name
      BY <3>1 DEF Destroyed, k
    <3>4. TypeOK'
      BY <3>1, <3>2
    <3>5. HeldInstance'
      BY <2>2, <3>1, <3>3 DEF k
    <3>6. UndestroyedHeld'
      BY <2>2, <3>1, <3>3 DEF k
    <3>7. DistinctHeld'
      BY <3>1
    <3>8. StartedIds' /\ DistinctLiveIds'
      BY <2>2, <3>1
    <3>9. CreateNeverCollides'
      BY <3>1
    <3>10. QED
      BY <3>4, <3>5, <3>6, <3>7, <3>8, <3>9
  <2>3. CASE mgrPc[m] # "holding"
    BY <2>1, <2>3 DEF ManagerExit
  <2>4. QED
    BY <2>2, <2>3
<1>4. CASE \E c \in Clients : Open(c)
  <2>1. PICK c \in Clients : Open(c)
    BY <1>4
  <2>2. PICK m \in Managers :
           /\ mgrPc[m] # "new"
           /\ cliPid' = [cliPid EXCEPT ![c] = mgrPid[m]]
           /\ \/ cliNs' = cliNs
              \/ \E i \in Instances : cliNs' = [cliNs EXCEPT ![c] = i]
    BY <2>1, Zenon DEF Open, Lookup
  <2>6. cliPid' \in [Clients -> Pids \cup {NoPid}]
    BY <2>2
  <2>7. cliNs' \in [Clients -> Nat]
    <3>1. CASE cliNs' = cliNs
      BY <3>1
    <3>2. CASE \E i \in Instances : cliNs' = [cliNs EXCEPT ![c] = i]
      <4>1. PICK i \in Instances : cliNs' = [cliNs EXCEPT ![c] = i]
        BY <3>2
      <4>2. i \in Nat
        BY <4>1
      <4>3. QED
        BY <4>1, <4>2
    <3>3. QED
      BY <2>2, <3>1, <3>2
  <2>3. cliPc' \in [Clients -> {"idle", "holding", "failed"}]
    BY <2>1 DEF Open
  <2>4. UNCHANGED <<mgrPc, mgrPid, mgrErr, mgrNs, spaces>>
    BY <2>1 DEF Open
  <2>5. QED
    BY <2>3, <2>4, <2>6, <2>7
<1>5. CASE \E c \in Clients : Close(c)
  BY <1>5 DEF Close
<1>6. CASE UNCHANGED vars
  BY <1>6 DEF vars
<1>7. QED
  BY <1>1, <1>2, <1>3, <1>4, <1>5, <1>6 DEF Next

(* Under MakeNameInjective the inductive invariant holds in every         *)
(* reachable state of the managers' and clients' Create, Open and exits.  *)
THEOREM IInvInvariant == MakeNameInjective => (Spec => []IInv)
<1> SUFFICES ASSUME MakeNameInjective PROVE Spec => []IInv
  OBVIOUS
<1>1. IInv /\ [Next]_vars => IInv'
  BY NextIInv
<1>2. QED
  BY InitIInv, <1>1, PTL DEF Spec

(* Create (line 76) never fails because the namespace already exists, for *)
(* every set of managers, clients and process ids, when MakeName tells     *)
(* ids apart: what Create could find belongs to a live manager with the    *)
(* same id, and live processes have distinct ids.                          *)
THEOREM CreateNeverCollidesInvariant ==
    MakeNameInjective => (Spec => []CreateNeverCollides)
BY IInvInvariant, PTL DEF IInv

(* Open (line 91) only succeeds on the namespace of the live manager with *)
(* the id it was given, for every set of managers, clients and ids, when  *)
(* MakeName tells ids apart.                                               *)
THEOREM OpenJoinsLiveManagerHolds ==
    MakeNameInjective => (Spec => OpenJoinsLiveManager)
<1> SUFFICES ASSUME MakeNameInjective PROVE Spec => OpenJoinsLiveManager
  OBVIOUS
<1>1. IInv /\ [Next]_vars =>
        [\A c \in Clients :
            (cliPc'[c] = "holding" /\ cliPc[c] # "holding") =>
               \E m \in Managers : /\ mgrPc[m] = "holding"
                                   /\ mgrPid[m] = cliPid'[c]
                                   /\ mgrNs[m] = cliNs'[c]]_vars
  <2> SUFFICES ASSUME IInv, [Next]_vars, NEW c \in Clients,
                      cliPc'[c] = "holding", cliPc[c] # "holding"
               PROVE  \E m \in Managers : /\ mgrPc[m] = "holding"
                                          /\ mgrPid[m] = cliPid'[c]
                                          /\ mgrNs[m] = cliNs'[c]
    OBVIOUS
  <2>1. PICK d \in Clients : Open(d)
    BY DEF Next, ManagerStart, Create, ManagerExit, Close, vars, IInv, TypeOK
  <2>2. d = c
    BY <2>1 DEF Open, IInv, TypeOK
  <2>3. PICK m0 \in Managers :
           /\ mgrPc[m0] # "new"
           /\ cliPid'[c] = mgrPid[m0]
           /\ cliNs'[c] \in Lookup(BoundaryOf(MakeName(mgrPid[m0])),
                                   MakeName(mgrPid[m0]))
    BY <2>1, <2>2 DEF Open, IInv, TypeOK
  <2>4. mgrPid[m0] \in Pids
    BY <2>3 DEF IInv, StartedIds
  <2>5. PICK n \in Managers : /\ mgrPc[n] = "holding"
                              /\ mgrNs[n] = cliNs'[c]
                              /\ mgrPid[n] = mgrPid[m0]
    <3>1. \A p \in Pids : \A i \in Lookup(BoundaryOf(MakeName(p)), MakeName(p)) :
             \E n \in Managers : /\ mgrPc[n] = "holding"
                                 /\ mgrNs[n] = i
                                 /\ mgrPid[n] = p
      BY LookupOwned
    <3>2. \A i \in Lookup(BoundaryOf(MakeName(mgrPid[m0])), MakeName(mgrPid[m0])) :
             \E n \in Managers : /\ mgrPc[n] = "holding"
                                 /\ mgrNs[n] = i
                                 /\ mgrPid[n] = mgrPid[m0]
      BY <2>4, <3>1, Zenon
    <3>3. QED
      BY <2>3, <3>2, Zenon
  <2>6. QED
    BY <2>3, <2>5
<1>2. QED
  BY IInvInvariant, <1>1, PTL DEF Spec, OpenJoinsLiveManager

=============================================================================
