---------------------- MODULE ProcessCreationGate_proofs ----------------------
(***************************************************************************)
(* Proofs about the process-creation gate, for every set of threads and    *)
(* every depth bound.                                                      *)
(*                                                                         *)
(* CounterMatchesFrames says that m_hookProcCallCounter equals the number   *)
(* of hook frames, over all threads, that have incremented it.  It is not   *)
(* inductive by itself: adding or removing one frame changes the number by  *)
(* one only when the set of counted frames is finite, so IInv adds that,    *)
(* and the types.  Every step changes the frames of one thread only, and    *)
(* of that thread only its innermost frame: the lemmas below say how the    *)
(* counted frames of a thread change when its innermost frame is replaced,  *)
(* pushed or popped, and how the counted frames of all threads follow.      *)
(***************************************************************************)
EXTENDS ProcessCreationGate, FiniteSetTheorems, TLAPS

IInv ==
    /\ TypeOK
    /\ IsFiniteSet(CountedFrames)
    /\ CounterMatchesFrames

Pcs == {"dispatched", "entered", "created", "injecting", "returning"}

-----------------------------------------------------------------------------
(* Frames and sequences of frames.                                          *)

\* Setting the program counter of a frame, and its result, gives a frame.
LEMMA FrameWithPc ==
  ASSUME NEW f \in Frame, NEW v \in Pcs
  PROVE  /\ [f EXCEPT !.pc = v] \in Frame
         /\ [f EXCEPT !.pc = v].pc = v
  BY DEF Frame, Pcs

LEMMA FrameWithPcReal ==
  ASSUME NEW f \in Frame, NEW v \in Pcs, NEW r \in {"none", "ok", "fail"}
  PROVE  /\ [f EXCEPT !.pc = v, !.real = r] \in Frame
         /\ [f EXCEPT !.pc = v, !.real = r].pc = v
  BY DEF Frame, Pcs

\* A nonempty sequence of frames without its last element.
LEMMA FrontFacts ==
  ASSUME NEW s \in Seq(Frame), s # <<>>
  PROVE  /\ Front(s) \in Seq(Frame)
         /\ Len(Front(s)) = Len(s) - 1
         /\ \A i \in 1..(Len(s) - 1) : Front(s)[i] = s[i]
  BY DEF Front

\* Replacing the last element of a nonempty sequence of frames.
LEMMA ReplaceLastFacts ==
  ASSUME NEW s \in Seq(Frame), s # <<>>, NEW f \in Frame
  PROVE  /\ Append(Front(s), f) \in Seq(Frame)
         /\ Len(Append(Front(s), f)) = Len(s)
         /\ Append(Front(s), f)[Len(s)] = f
         /\ \A i \in 1..(Len(s) - 1) : Append(Front(s), f)[i] = s[i]
  BY FrontFacts

-----------------------------------------------------------------------------
(* How the counted frames of one thread change.                             *)

\* The innermost frame of t is replaced by f.
LEMMA CountedReplaceTop ==
  ASSUME TypeOK, NEW t \in Threads, stack[t] # <<>>, NEW f \in Frame,
         stack'[t] = Append(Front(stack[t]), f)
  PROVE  Counted(t)' = (Counted(t) \ {Len(stack[t])})
                         \cup {i \in {Len(stack[t])} : f.pc # "dispatched"}
<1> DEFINE s == stack[t]
<1>1. s \in Seq(Frame)
  BY DEF TypeOK
<1>2. /\ Len(stack'[t]) = Len(s)
      /\ stack'[t][Len(s)] = f
      /\ \A i \in 1..(Len(s) - 1) : stack'[t][i] = s[i]
  BY <1>1, ReplaceLastFacts DEF s
<1>3. QED
  BY <1>1, <1>2 DEF Counted, s

\* A frame that has not incremented the counter is pushed on t.
LEMMA CountedPush ==
  ASSUME TypeOK, NEW t \in Threads,
         stack'[t] = Append(stack[t], NewFrame)
  PROVE  Counted(t)' = Counted(t)
<1>1. stack[t] \in Seq(Frame)
  BY DEF TypeOK
<1>2. QED
  BY <1>1 DEF Counted, NewFrame

\* The innermost frame of t is popped.
LEMMA CountedPop ==
  ASSUME TypeOK, NEW t \in Threads, stack[t] # <<>>,
         stack'[t] = Front(stack[t])
  PROVE  Counted(t)' = Counted(t) \ {Len(stack[t])}
<1>1. stack[t] \in Seq(Frame)
  BY DEF TypeOK
<1>2. /\ Len(stack'[t]) = Len(stack[t]) - 1
      /\ \A i \in 1..(Len(stack[t]) - 1) : stack'[t][i] = stack[t][i]
  BY <1>1, FrontFacts
<1>3. QED
  BY <1>1, <1>2 DEF Counted

-----------------------------------------------------------------------------
(* How the counted frames of all threads follow.                           *)

\* A pair <<t, i>> is a counted frame exactly when i is a counted frame of t.
LEMMA CountedFramesMember ==
  ASSUME NEW t \in Threads, NEW i
  PROVE  <<t, i>> \in CountedFrames <=> i \in Counted(t)
  BY DEF CountedFrames

\* When a step changes the frames of t only, the counted frames of the
\* other threads stay.
LEMMA CountedFramesOneThread ==
  ASSUME NEW t \in Threads, stack' \in [Threads -> Seq(Frame)],
         stack \in [Threads -> Seq(Frame)],
         \A u \in Threads \ {t} : stack'[u] = stack[u]
  PROVE  CountedFrames' = {x \in CountedFrames : x[1] # t}
                            \cup {<<t, i>> : i \in Counted(t)'}
  BY DEF CountedFrames, Counted

LEMMA CountedFramesSame ==
  ASSUME NEW t \in Threads, stack' \in [Threads -> Seq(Frame)],
         stack \in [Threads -> Seq(Frame)],
         \A u \in Threads \ {t} : stack'[u] = stack[u],
         Counted(t)' = Counted(t)
  PROVE  CountedFrames' = CountedFrames
<1>1. CountedFrames' = {x \in CountedFrames : x[1] # t}
                         \cup {<<t, i>> : i \in Counted(t)}
  BY CountedFramesOneThread
<1>2. QED
  BY <1>1 DEF CountedFrames

LEMMA CountedFramesAdd ==
  ASSUME NEW t \in Threads, stack' \in [Threads -> Seq(Frame)],
         stack \in [Threads -> Seq(Frame)],
         \A u \in Threads \ {t} : stack'[u] = stack[u],
         NEW n, Counted(t)' = Counted(t) \cup {n}
  PROVE  CountedFrames' = CountedFrames \cup {<<t, n>>}
<1>1. CountedFrames' = {x \in CountedFrames : x[1] # t}
                         \cup {<<t, i>> : i \in Counted(t) \cup {n}}
  BY CountedFramesOneThread
<1>2. QED
  BY <1>1 DEF CountedFrames

LEMMA CountedFramesRemove ==
  ASSUME NEW t \in Threads, stack' \in [Threads -> Seq(Frame)],
         stack \in [Threads -> Seq(Frame)],
         \A u \in Threads \ {t} : stack'[u] = stack[u],
         NEW n, Counted(t)' = Counted(t) \ {n}
  PROVE  CountedFrames' = CountedFrames \ {<<t, n>>}
<1>1. CountedFrames' = {x \in CountedFrames : x[1] # t}
                         \cup {<<t, i>> : i \in Counted(t) \ {n}}
  BY CountedFramesOneThread
<1>2. QED
  BY <1>1 DEF CountedFrames

-----------------------------------------------------------------------------
(* The inductive invariant.                                                *)

\* The innermost frame of a thread inside the hook.
LEMMA TopFrame ==
  ASSUME TypeOK, NEW t \in Threads, stack[t] # <<>>
  PROVE  /\ Top(t) \in Frame
         /\ Top(t) = stack[t][Len(stack[t])]
         /\ Len(stack[t]) \in Nat \ {0}
  BY DEF TypeOK, Top

LEMMA InitIInv == Init => IInv
<1> SUFFICES ASSUME Init PROVE IInv
  OBVIOUS
<1>1. TypeOK
  BY DEF Init, TypeOK
<1>2. CountedFrames = {}
  BY DEF Init, CountedFrames, Counted
<1>3. QED
  BY <1>1, <1>2, FS_EmptySet DEF Init, IInv, CounterMatchesFrames

\* A step that replaces the innermost frame of t, counted before and after,
\* and leaves the counter alone keeps the invariant (CallOriginal, Decide,
\* InjectDone).
LEMMA ReplaceCountedTop ==
  ASSUME IInv, NEW t \in Threads, stack[t] # <<>>, Top(t).pc # "dispatched",
         NEW f \in Frame, f.pc # "dispatched", stack' = SetTop(t, f),
         UNCHANGED <<hook, owner, counter>>
  PROVE  IInv'
<1> DEFINE n == Len(stack[t])
<1>1. /\ Top(t) = stack[t][n]
      /\ n \in Nat \ {0}
      /\ stack[t] \in Seq(Frame)
  BY TopFrame DEF IInv, TypeOK, n
<1>2. stack'[t] = Append(Front(stack[t]), f) /\ \A u \in Threads \ {t} : stack'[u] = stack[u]
  BY DEF SetTop, IInv, TypeOK
<1>3. stack' \in [Threads -> Seq(Frame)]
  BY <1>1, ReplaceLastFacts DEF SetTop, IInv, TypeOK
<1>4. Counted(t)' = (Counted(t) \ {n}) \cup {n}
  BY <1>2, CountedReplaceTop DEF IInv, n
<1>5. n \in Counted(t)
  BY <1>1 DEF Counted, n
<1>6. Counted(t)' = Counted(t)
  BY <1>4, <1>5
<1>7. CountedFrames' = CountedFrames
  BY <1>2, <1>3, <1>6, CountedFramesSame DEF IInv, TypeOK
<1>8. QED
  BY <1>3, <1>7 DEF IInv, TypeOK, CounterMatchesFrames

LEMMA NextIInv == IInv /\ [Next]_vars => IInv'
<1> SUFFICES ASSUME IInv, [Next]_vars PROVE IInv'
  OBVIOUS
<1>0. /\ TypeOK
      /\ IsFiniteSet(CountedFrames)
      /\ counter = Cardinality(CountedFrames)
  BY DEF IInv, CounterMatchesFrames
<1>1. ASSUME NEW t \in Threads, Call(t) PROVE IInv'
  <2>1. stack' \in [Threads -> Seq(Frame)] /\ \A u \in Threads \ {t} : stack'[u] = stack[u]
    BY <1>0, <1>1 DEF Call, TypeOK, NewFrame, Frame
  <2>2. Counted(t)' = Counted(t)
    BY <1>1 DEF Call, Counted, NewFrame
  <2>3. CountedFrames' = CountedFrames
    BY <1>0, <2>1, <2>2, CountedFramesSame DEF TypeOK
  <2>4. QED
    BY <1>0, <1>1, <2>1, <2>3 DEF Call, IInv, TypeOK, CounterMatchesFrames
<1>2. ASSUME NEW t \in Threads, Enter(t) PROVE IInv'
  <2> DEFINE n == Len(stack[t])
             f == [Top(t) EXCEPT !.pc = "entered"]
  <2>1. /\ Top(t) \in Frame
        /\ Top(t) = stack[t][n]
        /\ n \in Nat \ {0}
        /\ stack[t] \in Seq(Frame)
    BY <1>0, <1>2, TopFrame DEF Enter, TypeOK, n
  <2>2. f \in Frame /\ f.pc = "entered"
    BY <2>1, FrameWithPc DEF Pcs, f
  <2>3. stack'[t] = Append(Front(stack[t]), f) /\ \A u \in Threads \ {t} : stack'[u] = stack[u]
    BY <1>0, <1>2 DEF Enter, SetTop, TypeOK, f
  <2>4. stack' \in [Threads -> Seq(Frame)]
    BY <1>0, <1>2, <2>1, <2>2, ReplaceLastFacts DEF Enter, SetTop, TypeOK, f
  <2>5. Counted(t)' = (Counted(t) \ {n}) \cup {n}
    BY <1>0, <1>2, <2>2, <2>3, CountedReplaceTop DEF Enter, n
  <2>6. n \notin Counted(t)
    BY <1>2, <2>1 DEF Enter, Counted, n
  <2>7. CountedFrames' = CountedFrames \cup {<<t, n>>} /\ <<t, n>> \notin CountedFrames
    BY <1>0, <2>3, <2>4, <2>5, <2>6, CountedFramesAdd, CountedFramesMember DEF TypeOK
  <2>8. /\ IsFiniteSet(CountedFrames')
        /\ Cardinality(CountedFrames') = Cardinality(CountedFrames) + 1
    BY <1>0, <2>7, FS_AddElement
  <2>9. counter' = counter + 1 /\ UNCHANGED <<hook, owner>>
    BY <1>2 DEF Enter
  <2>10. TypeOK'
    BY <1>0, <2>4, <2>9 DEF TypeOK
  <2>11. CounterMatchesFrames'
    BY <1>0, <2>8, <2>9 DEF CounterMatchesFrames
  <2>12. QED
    BY <2>8, <2>10, <2>11 DEF IInv
<1>3. ASSUME NEW t \in Threads, CallOriginal(t) PROVE IInv'
  <2>1. Top(t) \in Frame
    BY <1>0, <1>3, TopFrame DEF CallOriginal
  <2>2. PICK r \in {"ok", "fail"} :
            stack' = SetTop(t, [Top(t) EXCEPT !.pc = "created", !.real = r])
    BY <1>3 DEF CallOriginal
  <2>3. /\ [Top(t) EXCEPT !.pc = "created", !.real = r] \in Frame
        /\ [Top(t) EXCEPT !.pc = "created", !.real = r].pc = "created"
    <3>1. "created" \in Pcs /\ r \in {"none", "ok", "fail"}
      BY DEF Pcs
    <3>2. QED
      BY <2>1, <3>1, FrameWithPcReal
  <2>4. stack[t] # <<>> /\ Top(t).pc # "dispatched" /\ UNCHANGED <<hook, owner, counter>>
    BY <1>3 DEF CallOriginal
  <2>5. QED
    BY <2>2, <2>3, <2>4, ReplaceCountedTop
<1>4. ASSUME NEW t \in Threads, Decide(t) PROVE IInv'
  <2>1. Top(t) \in Frame
    BY <1>0, <1>4, TopFrame DEF Decide
  <2>2. PICK skip \in BOOLEAN :
            stack' = SetTop(t, [Top(t) EXCEPT !.pc = IF skip THEN "returning"
                                                             ELSE "injecting"])
    BY <1>4 DEF Decide
  <2> DEFINE v == IF skip THEN "returning" ELSE "injecting"
  <2>3. v \in Pcs /\ v # "dispatched"
    BY DEF Pcs, v
  <2>4. [Top(t) EXCEPT !.pc = v] \in Frame /\ [Top(t) EXCEPT !.pc = v].pc = v
    BY <2>1, <2>3, FrameWithPc
  <2>5. QED
    BY <1>4, <2>2, <2>3, <2>4, ReplaceCountedTop DEF Decide, v
<1>5. ASSUME NEW t \in Threads, InjectNested(t) PROVE IInv'
  <2>1. stack' \in [Threads -> Seq(Frame)] /\ \A u \in Threads \ {t} : stack'[u] = stack[u]
    BY <1>0, <1>5 DEF InjectNested, TypeOK, NewFrame, Frame
  <2>2. stack'[t] = Append(stack[t], NewFrame)
    BY <1>0, <1>5 DEF InjectNested, TypeOK
  <2>3. Counted(t)' = Counted(t)
    BY <1>0, <2>2, CountedPush
  <2>4. CountedFrames' = CountedFrames
    BY <1>0, <2>1, <2>3, CountedFramesSame DEF TypeOK
  <2>5. QED
    BY <1>0, <1>5, <2>1, <2>4 DEF InjectNested, IInv, TypeOK, CounterMatchesFrames
<1>6. ASSUME NEW t \in Threads, InjectDone(t) PROVE IInv'
  <2>1. Top(t) \in Frame
    BY <1>0, <1>6, TopFrame DEF InjectDone
  <2>2. [Top(t) EXCEPT !.pc = "returning"] \in Frame
        /\ [Top(t) EXCEPT !.pc = "returning"].pc = "returning"
    BY <2>1, FrameWithPc DEF Pcs
  <2>3. QED
    BY <1>6, <2>2, ReplaceCountedTop DEF InjectDone
<1>7. ASSUME NEW t \in Threads, Return(t) PROVE IInv'
  <2> DEFINE n == Len(stack[t])
  <2>1. /\ Top(t) = stack[t][n]
        /\ n \in Nat \ {0}
        /\ stack[t] \in Seq(Frame)
    BY <1>0, <1>7, TopFrame DEF Return, TypeOK, n
  <2>2. Front(stack[t]) \in Seq(Frame) /\ stack[t] # <<>>
    BY <1>7, <2>1, FrontFacts DEF Return
  <2>3. stack'[t] = Front(stack[t])
    BY <1>0, <1>7 DEF Return, TypeOK
  <2>4. stack' \in [Threads -> Seq(Frame)] /\ \A u \in Threads \ {t} : stack'[u] = stack[u]
    BY <1>0, <1>7, <2>2 DEF Return, TypeOK
  <2>5. Counted(t)' = Counted(t) \ {n}
    BY <1>0, <2>2, <2>3, CountedPop DEF n
  <2>6. n \in Counted(t)
    BY <1>7, <2>1 DEF Return, Counted, n
  <2>7. CountedFrames' = CountedFrames \ {<<t, n>>} /\ <<t, n>> \in CountedFrames
    BY <1>0, <2>4, <2>5, <2>6, CountedFramesRemove, CountedFramesMember DEF TypeOK
  <2>8. /\ IsFiniteSet(CountedFrames')
        /\ Cardinality(CountedFrames') = Cardinality(CountedFrames) - 1
    BY <1>0, <2>7, FS_RemoveElement
  <2>9. QED
    BY <1>0, <1>7, <2>4, <2>8 DEF Return, IInv, TypeOK, CounterMatchesFrames
<1>8. ASSUME UNCHANGED <<counter, stack>>,
             hook' \in {"installed", "removed"},
             owner' \in {"running", "waiting", "released"}
      PROVE  IInv'
  BY <1>0, <1>8 DEF IInv, TypeOK, CounterMatchesFrames, CountedFrames, Counted
<1>9. QED
  BY <1>1, <1>2, <1>3, <1>4, <1>5, <1>6, <1>7, <1>8, <1>0
     DEF Next, ThreadStep, Teardown, Wait, Release, Terminated, vars, TypeOK

(* For any set of threads and any depth of nested injection, the frames in  *)
(* flight and the counter agree in every reachable state; the inductive    *)
(* invariant holds.                                                         *)
THEOREM IInvInvariant == Spec => []IInv
  BY InitIInv, NextIInv, PTL DEF Spec

(* m_hookProcCallCounter equals the number of hook frames, across threads   *)
(* and nested injections, that have incremented it and not yet returned,    *)
(* the early return on a failed creation included: when the destructor     *)
(* reads zero, no thread is past the increment of the hook.                 *)
THEOREM CounterMatchesFramesInvariant == Spec => []CounterMatchesFrames
<1>1. IInv => CounterMatchesFrames
  BY DEF IInv
<1>2. QED
  BY <1>1, IInvInvariant, PTL

=============================================================================
