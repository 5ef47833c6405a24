-------------------------- MODULE SpaceSwap_proofs --------------------------
(* Proofs about SpaceSwap, for any number of sub-groups and requests.       *)
EXTENDS SpaceSwap, FiniteSetTheorems, TLAPS

(* Between its steps a swap stands at one of its sub-groups, and swaps for  *)
(* a result that was requested.                                             *)
Underway == active => cursor \in Group /\ next.serial \in Serial

(* The display i steps into a swap: the new groups before i, what is left   *)
(* of the old ones from i on.                                               *)
Progress(i, display, serial, filled) ==
  \A g \in Group :
    IF g < i THEN display[g] = (IF g \in filled THEN {serial} ELSE {})
    ELSE IF g \in old /\ Rank(g, old) >= i
           THEN \E n \in Nat : display[g] \subseteq {n}
           ELSE display[g] = {}

Settled ==
  /\ old = shown
  /\ live = [g \in Group |-> IF g \in shown THEN {applied} ELSE {}]

Swapping ==
  /\ next.serial = applied /\ next.filled = shown
  /\ Progress(cursor, live, applied, shown)

Display == ~overlapped => IF active THEN Swapping ELSE Settled

(* The inductive invariant: the display is the latest result, or part of    *)
(* the way from what was shown before to the latest result.                 *)
IInv == TypeOK /\ Underway /\ Display
-----------------------------------------------------------------------------
LEMMA GroupFinite ==
  ASSUME NEW S \in SUBSET Group
  PROVE  IsFiniteSet(S) /\ Cardinality(S) \in Nat /\ Cardinality(S) <= Chunks
<1>1. IsFiniteSet(Group) /\ Cardinality(Group) = Chunks
  <2>1. Chunks \in Nat \ {0} BY ChunksAssumption
  <2>2. IsFiniteSet(0 .. Chunks - 1)
    BY <2>1, FS_Interval
  <2>3. Cardinality(0 .. Chunks - 1) = (IF 0 > Chunks - 1 THEN 0 ELSE Chunks - 1 - 0 + 1)
    BY <2>1, FS_Interval
  <2> QED BY <2>1, <2>2, <2>3 DEF Group
<1>2. IsFiniteSet(S) /\ Cardinality(S) <= Cardinality(Group)
  BY <1>1, FS_Subset
<1>3. Cardinality(S) \in Nat
  BY <1>2, FS_CardinalityType
<1> QED BY <1>1, <1>2, <1>3

(* The list of old ids is compacted: a group is never further down the list *)
(* than its own number.                                                     *)
LEMMA RankBound ==
  ASSUME NEW S \in SUBSET Group, NEW g \in Group
  PROVE  Rank(g, S) \in Nat /\ Rank(g, S) <= g
<1> DEFINE Before == {h \in S : h < g}
<1>0. g \in Nat BY ChunksAssumption DEF Group
<1>1. IsFiniteSet(0 .. g - 1) BY <1>0, FS_Interval
<1>2. Cardinality(0 .. g - 1) = (IF 0 > g - 1 THEN 0 ELSE g - 1 - 0 + 1)
  BY <1>0, FS_Interval
<1>3. Cardinality(0 .. g - 1) = g BY <1>0, <1>2
<1>4. Before \subseteq 0 .. g - 1
  <2> SUFFICES ASSUME NEW h \in Before PROVE h \in 0 .. g - 1
    OBVIOUS
  <2>1. h \in Group /\ h < g OBVIOUS
  <2>2. h \in Nat BY <2>1, ChunksAssumption DEF Group
  <2> QED BY <1>0, <2>1, <2>2
<1>5. IsFiniteSet(Before) /\ Cardinality(Before) <= Cardinality(0 .. g - 1)
  BY <1>1, <1>4, FS_Subset
<1>6. Cardinality(Before) \in Nat BY <1>5, FS_CardinalityType
<1> QED BY <1>3, <1>5, <1>6 DEF Rank

(* One step of a swap takes the display one step further.                   *)
LEMMA StepProgress ==
  ASSUME TypeOK, NEW i \in Group, NEW serial \in Serial, NEW filled \in SUBSET Group,
         Progress(i, live, serial, filled)
  PROVE  Progress(i + 1, Swapped(i, old, [serial |-> serial, filled |-> filled]),
                  serial, filled)
<1> DEFINE after == Swapped(i, old, [serial |-> serial, filled |-> filled])
<1> SUFFICES ASSUME NEW g \in Group
             PROVE  IF g < i + 1 THEN after[g] = (IF g \in filled THEN {serial} ELSE {})
                    ELSE IF g \in old /\ Rank(g, old) >= i + 1
                           THEN \E n \in Nat : after[g] \subseteq {n}
                           ELSE after[g] = {}
  BY DEF Progress
<1>1. i \in Nat /\ g \in Nat BY ChunksAssumption DEF Group
<1>2. Rank(g, old) \in Nat /\ Rank(g, old) <= g BY RankBound DEF TypeOK
<1>3. after[g] = (IF g \in old /\ Rank(g, old) = i THEN {} ELSE live[g])
                   \cup (IF g = i /\ i \in filled THEN {serial} ELSE {})
  BY DEF Swapped, OldAt
<1>4. IF g < i THEN live[g] = (IF g \in filled THEN {serial} ELSE {})
      ELSE IF g \in old /\ Rank(g, old) >= i
             THEN \E n \in Nat : live[g] \subseteq {n}
             ELSE live[g] = {}
  BY DEF Progress
<1> HIDE DEF after
<1>5. CASE g < i BY <1>1, <1>2, <1>3, <1>4, <1>5
<1>6. CASE g = i BY <1>1, <1>2, <1>3, <1>4, <1>6
<1>7. CASE g > i BY <1>1, <1>2, <1>3, <1>4, <1>7
<1> QED BY <1>1, <1>5, <1>6, <1>7

(* A step of a swap, the first one or a later one, keeps the invariant.     *)
LEMMA SwapStepKeeps ==
  ASSUME TypeOK, NEW i \in Group, NEW serial \in Serial, NEW filled \in SUBSET Group,
         SwapStep(i, [serial |-> serial, filled |-> filled])
  PROVE  /\ live' \in [Group -> SUBSET Serial] /\ old' \in SUBSET Group
         /\ cursor' \in 0 .. Chunks /\ active' \in BOOLEAN
         /\ next' \in [serial : 0 .. MaxRequests, filled : SUBSET Group]
         /\ active' => cursor' \in Group /\ old' = old
                         /\ next' = [serial |-> serial, filled |-> filled]
         /\ ~active' => old' = filled /\ i + 1 = Chunks
<1>1. i \in Nat /\ i < Chunks /\ Chunks \in Nat \ {0} BY ChunksAssumption DEF Group
<1>2. Cardinality(old) \in Nat /\ Cardinality(old) <= Chunks BY GroupFinite DEF TypeOK
<1>3. live' \in [Group -> SUBSET Serial]
  BY DEF SwapStep, Swapped, TypeOK
<1>4. cursor' = i + 1 /\ cursor' \in 0 .. Chunks
  BY <1>1 DEF SwapStep
<1>5. serial \in 0 .. MaxRequests BY ChunksAssumption DEF Serial
<1>6. CASE i + 1 >= Chunks /\ i + 1 >= Cardinality(old)
  <2>1. old' = filled /\ next' = NoChunks /\ active' = FALSE BY <1>6 DEF SwapStep
  <2>2. NoChunks \in [serial : 0 .. MaxRequests, filled : SUBSET Group]
    BY ChunksAssumption DEF NoChunks
  <2>3. old' \in SUBSET Group /\ active' \in BOOLEAN
        /\ next' \in [serial : 0 .. MaxRequests, filled : SUBSET Group]
    BY <2>1, <2>2
  <2>4. i + 1 = Chunks BY <1>1, <1>6
  <2> QED BY <1>3, <1>4, <2>1, <2>3, <2>4
<1>7. CASE ~(i + 1 >= Chunks /\ i + 1 >= Cardinality(old))
  <2>1. old' = old /\ next' = [serial |-> serial, filled |-> filled] /\ active' = TRUE
    BY <1>7 DEF SwapStep
  <2>2. i + 1 < Chunks BY <1>1, <1>2, <1>7
  <2>3. cursor' \in Group BY <1>1, <1>4, <2>2 DEF Group
  <2>4. next' \in [serial : 0 .. MaxRequests, filled : SUBSET Group]
    BY <1>5, <2>1
  <2>5. old' \in SUBSET Group /\ active' \in BOOLEAN BY <2>1 DEF TypeOK
  <2> QED BY <1>3, <1>4, <2>1, <2>3, <2>4, <2>5
<1> QED BY <1>6, <1>7

(* ... and leaves the display part of the way, or settled.                  *)
LEMMA SwapStepShows ==
  ASSUME TypeOK, NEW i \in Group, NEW serial \in Serial, NEW filled \in SUBSET Group,
         SwapStep(i, [serial |-> serial, filled |-> filled]),
         Progress(i, live, serial, filled)
  PROVE  IF active'
           THEN /\ next' = [serial |-> serial, filled |-> filled]
                /\ old' = old
                /\ Progress(cursor', live', serial, filled)
           ELSE /\ old' = filled
                /\ live' = [g \in Group |-> IF g \in filled THEN {serial} ELSE {}]
<1>1. Progress(i + 1, live', serial, filled)
  BY StepProgress DEF SwapStep
<1>2. cursor' = i + 1 BY DEF SwapStep
<1>3. CASE active' BY <1>1, <1>2, <1>3, SwapStepKeeps
<1>4. CASE ~active'
  <2>1. old' = filled /\ i + 1 = Chunks BY <1>4, SwapStepKeeps
  <2>2. \A g \in Group : g < i + 1 BY <2>1, ChunksAssumption DEF Group
  <2>3. \A g \in Group : live'[g] = IF g \in filled THEN {serial} ELSE {}
    BY <1>1, <2>2 DEF Progress
  <2>4. live' \in [Group -> SUBSET Serial] BY SwapStepKeeps
  <2> QED BY <1>4, <2>1, <2>3, <2>4
<1> QED BY <1>3, <1>4
-----------------------------------------------------------------------------
LEMMA InitIInv == Init => IInv
<1> SUFFICES ASSUME Init PROVE IInv
  OBVIOUS
<1>1. 1 \in Serial BY ChunksAssumption DEF Serial
<1>2. TypeOK
  <2>1. 0 \in 0 .. MaxRequests /\ 0 \in 0 .. Chunks BY ChunksAssumption
  <2>2. NoChunks \in [serial : 0 .. MaxRequests, filled : SUBSET Group]
    BY <2>1 DEF NoChunks
  <2> QED BY <1>1, <2>1, <2>2 DEF Init, TypeOK
<1>3. Underway BY DEF Init, Underway
<1>4. Display
  <2>1. shown = {} /\ old = {} /\ live = [g \in Group |-> {}] /\ active = FALSE
    BY DEF Init
  <2> QED BY <2>1 DEF Display, Settled
<1> QED BY <1>2, <1>3, <1>4 DEF IInv

(* Steps that leave the display and the swap alone.                         *)
LEMMA QuietStep ==
  ASSUME IInv, TypeOK', UNCHANGED swapVars, UNCHANGED history
  PROVE  IInv'
<1> USE DEF swapVars, history
<1>1. Underway' BY DEF IInv, Underway
<1>2. CASE active
  <2>1. ~overlapped' => Swapping'
    BY <1>2 DEF IInv, Display, Swapping, Progress
  <2> QED BY <1>1, <1>2, <2>1 DEF IInv, Display
<1>3. CASE ~active
  <2>1. ~overlapped' => Settled' BY <1>3 DEF IInv, Display, Settled
  <2> QED BY <1>1, <1>3, <2>1 DEF IInv, Display
<1> QED BY <1>2, <1>3

LEMMA WorkerStep == ASSUME IInv, Worker PROVE IInv'
<1>0. TypeOK BY DEF IInv
<1>1. CASE Take
  <2>1. job' \in Serial /\ job' \in 0 .. MaxRequests
    BY <1>0, <1>1, ChunksAssumption DEF Take, TypeOK, Serial
  <2>2. TypeOK' BY <1>0, <1>1, <2>1 DEF Take, TypeOK, swapVars, history
  <2> QED BY <1>1, <2>2, QuietStep DEF Take
<1>2. CASE Hold
  <2>1. TypeOK' BY <1>0, <1>2 DEF Hold, TypeOK, swapVars, history
  <2> QED BY <1>2, <2>1, QuietStep DEF Hold
<1>3. CASE Generate
  <2>1. PICK over \in BOOLEAN, b \in 0 .. Chunks :
          pending' = [serial |-> job, planet |-> over, filled |-> Filled(b)]
    BY <1>3 DEF Generate
  <2>2. job \in Serial BY <1>0, <1>3 DEF Generate, TypeOK
  <2>3. Filled(b) \in SUBSET Group BY DEF Filled
  <2>4. pending' \in Result BY <2>1, <2>2, <2>3 DEF Result
  <2>5. TypeOK' BY <1>0, <1>3, <2>4 DEF Generate, TypeOK, swapVars, history
  <2> QED BY <1>3, <2>5, QuietStep DEF Generate
<1>4. CASE WorkerExits
  <2>1. TypeOK' BY <1>0, <1>4 DEF WorkerExits, TypeOK, swapVars, history
  <2> QED BY <1>4, <2>1, QuietStep DEF WorkerExits
<1> QED BY <1>1, <1>2, <1>3, <1>4 DEF Worker

(* A step of a swap of the latest result.                                   *)
LEMMA SwapGoesOn ==
  ASSUME IInv, NEW i \in Group, NEW serial \in Serial, NEW filled \in SUBSET Group,
         SwapStep(i, [serial |-> serial, filled |-> filled]),
         ~overlapped' => /\ applied' = serial /\ shown' = filled
                         /\ Progress(i, live, serial, filled)
  PROVE  Underway' /\ Display'
<1>1. TypeOK BY DEF IInv
<1>2. Underway'
  <2> SUFFICES ASSUME active' PROVE cursor' \in Group /\ next'.serial \in Serial
    BY DEF Underway
  <2>1. cursor' \in Group /\ next' = [serial |-> serial, filled |-> filled]
    BY <1>1, SwapStepKeeps
  <2> QED BY <2>1
<1>3. ASSUME ~overlapped' PROVE IF active' THEN Swapping' ELSE Settled'
  <2>1. applied' = serial /\ shown' = filled /\ Progress(i, live, serial, filled)
    BY <1>3
  <2>2. CASE active'
    <3>1. /\ next' = [serial |-> serial, filled |-> filled]
          /\ old' = old
          /\ Progress(cursor', live', serial, filled)
      BY <1>1, <2>1, <2>2, SwapStepShows
    <3>2. Swapping' BY <2>1, <3>1 DEF Swapping, Progress
    <3> QED BY <2>2, <3>2
  <2>3. CASE ~active'
    <3>1. /\ old' = filled
          /\ live' = [g \in Group |-> IF g \in filled THEN {serial} ELSE {}]
      BY <1>1, <2>1, <2>3, SwapStepShows
    <3>2. Settled' BY <2>1, <3>1 DEF Settled
    <3> QED BY <2>3, <3>2
  <2> QED BY <2>2, <2>3
<1> QED BY <1>2, <1>3 DEF Display

LEMMA ApplyStep == ASSUME IInv, Apply PROVE IInv'
<1> USE DEF IInv
<1>1. CASE pending = None
  <2>1. TypeOK' BY <1>1 DEF Apply, TypeOK, swapVars, history, workerVars
  <2> QED BY <1>1, <2>1, QuietStep DEF Apply
<1>2. CASE pending # None /\ pending.planet
  <2>1. /\ pending' = None /\ applied' = pending.serial
        /\ overlapped' = (overlapped \/ active \/ onPlanet)
        /\ Land
    BY <1>2 DEF Apply
  <2>2. pending \in Result BY <1>2 DEF TypeOK
  <2>3. pending.serial \in 0 .. MaxRequests
    BY <2>2, ChunksAssumption DEF Result, Serial
  <2>4. NoChunks \in [serial : 0 .. MaxRequests, filled : SUBSET Group]
    BY ChunksAssumption DEF NoChunks
  <2>5. live' \in [Group -> SUBSET Serial] BY <2>1 DEF Land, TypeOK
  <2>6. TypeOK'
    BY <1>2, <2>1, <2>3, <2>4, <2>5 DEF Apply, Land, TypeOK, workerVars
  <2>7. Underway' BY <2>1 DEF Land, Underway
  <2>8. ASSUME ~overlapped' PROVE Settled'
    <3>1. ~overlapped /\ ~active BY <2>1, <2>8
    <3>2. old = shown /\ live = [g \in Group |-> IF g \in shown THEN {applied} ELSE {}]
      BY <3>1 DEF Display, Settled
    <3>3. old' = {} /\ shown' = {}
          /\ live' = [g \in Group |-> IF g \in old THEN {} ELSE live[g]]
      BY <2>1 DEF Land
    <3>4. live' = [g \in Group |-> {}] BY <3>2, <3>3
    <3> QED BY <3>3, <3>4 DEF Settled
  <2>9. Display' BY <2>1, <2>8 DEF Display, Land
  <2> QED BY <2>6, <2>7, <2>9
<1>3. CASE pending # None /\ ~pending.planet
  <2> DEFINE serial == pending.serial
             filled == pending.filled
  <2>1. /\ pending' = None /\ applied' = serial
        /\ overlapped' = (overlapped \/ active \/ onPlanet)
        /\ StartSwap(pending)
    BY <1>3 DEF Apply
  <2>2. serial \in Serial /\ filled \in SUBSET Group
    BY <1>3 DEF TypeOK, Result
  <2>3. serial \in 0 .. MaxRequests BY <2>2, ChunksAssumption DEF Serial
  <2>4. SwapStep(0, [serial |-> serial, filled |-> filled]) /\ shown' = filled
        /\ UNCHANGED onPlanet
    BY <2>1 DEF StartSwap
  <2>5. 0 \in Group BY ChunksAssumption DEF Group
  <2> HIDE DEF serial, filled
  <2>6. /\ live' \in [Group -> SUBSET Serial] /\ old' \in SUBSET Group
        /\ cursor' \in 0 .. Chunks /\ active' \in BOOLEAN
        /\ next' \in [serial : 0 .. MaxRequests, filled : SUBSET Group]
    BY <2>2, <2>4, <2>5, SwapStepKeeps
  <2>7. TypeOK'
    BY <1>3, <2>1, <2>2, <2>3, <2>4, <2>6 DEF Apply, TypeOK, workerVars
  <2>8. ASSUME ~overlapped' PROVE Progress(0, live, serial, filled)
    <3>1. ~overlapped /\ ~active BY <2>1, <2>8
    <3>2. old = shown /\ live = [g \in Group |-> IF g \in shown THEN {applied} ELSE {}]
      BY <3>1 DEF Display, Settled
    <3>3. applied \in Nat BY ChunksAssumption DEF TypeOK
    <3>4. \A g \in Group : g \in Nat /\ Rank(g, old) \in Nat
      BY RankBound, ChunksAssumption DEF Group, TypeOK
    <3> QED BY <3>2, <3>3, <3>4 DEF Progress
  <2>9. Underway' /\ Display'
    BY <2>1, <2>2, <2>4, <2>5, <2>8, SwapGoesOn
  <2> QED BY <2>7, <2>9
<1> QED BY <1>1, <1>2, <1>3

LEMMA TickStep == ASSUME IInv, Tick PROVE IInv'
<1> USE DEF IInv
<1>1. CASE ~active
  <2>1. TypeOK' BY <1>1 DEF Tick, TypeOK, swapVars, history, workerVars
  <2> QED BY <1>1, <2>1, QuietStep DEF Tick
<1>2. CASE active
  <2> DEFINE serial == next.serial
             filled == next.filled
  <2>1. cursor \in Group /\ serial \in Serial BY <1>2 DEF Underway
  <2>2. filled \in SUBSET Group /\ next = [serial |-> serial, filled |-> filled]
    BY DEF TypeOK
  <2>3. SwapStep(cursor, [serial |-> serial, filled |-> filled]) /\ UNCHANGED history
    BY <1>2, <2>2 DEF Tick
  <2>4. ~overlapped => applied = serial /\ shown = filled
                         /\ Progress(cursor, live, serial, filled)
    BY <1>2 DEF Display, Swapping
  <2> HIDE DEF serial, filled
  <2>5. /\ live' \in [Group -> SUBSET Serial] /\ old' \in SUBSET Group
        /\ cursor' \in 0 .. Chunks /\ active' \in BOOLEAN
        /\ next' \in [serial : 0 .. MaxRequests, filled : SUBSET Group]
    BY <2>1, <2>2, <2>3, SwapStepKeeps
  <2>6. TypeOK' BY <2>3, <2>5 DEF Tick, TypeOK, history, workerVars
  <2>7. Underway' /\ Display'
    BY <2>1, <2>2, <2>3, <2>4, SwapGoesOn DEF history
  <2> QED BY <2>6, <2>7
<1> QED BY <1>1, <1>2

LEMMA OtherStep ==
  ASSUME IInv, Leave \/ Request \/ Nothing \/ ExitTree \/ Join
  PROVE  IInv'
<1> USE DEF IInv
<1>1. TypeOK'
  <2> USE DEF TypeOK, swapVars, history, workerVars
  <2>1. CASE Leave BY <2>1 DEF Leave
  <2>2. CASE Request
    <3>1. asked' \in Serial BY <2>2, ChunksAssumption DEF Request, Serial
    <3> QED BY <2>2, <3>1 DEF Request
  <2>3. CASE Nothing BY <2>3 DEF Nothing
  <2>4. CASE ExitTree BY <2>4 DEF ExitTree
  <2>5. CASE Join BY <2>5 DEF Join
  <2> QED BY <2>1, <2>2, <2>3, <2>4, <2>5
<1>2. UNCHANGED swapVars /\ UNCHANGED history
  BY DEF Leave, Request, Nothing, ExitTree, Join
<1> QED BY <1>1, <1>2, QuietStep

LEMMA NextIInv == IInv /\ [Next]_vars => IInv'
<1> SUFFICES ASSUME IInv, [Next]_vars PROVE IInv'
  OBVIOUS
<1>1. CASE Worker BY <1>1, WorkerStep
<1>2. CASE Apply BY <1>2, ApplyStep
<1>3. CASE Tick BY <1>3, TickStep
<1>4. CASE Leave \/ Request \/ Nothing \/ ExitTree \/ Join BY <1>4, OtherStep
<1>5. CASE UNCHANGED vars
  <2>1. TypeOK' BY <1>5 DEF IInv, TypeOK, vars, swapVars, history, workerVars
  <2>2. UNCHANGED swapVars /\ UNCHANGED history
    BY <1>5 DEF vars, swapVars, history
  <2> QED BY <2>1, <2>2, QuietStep
<1> QED BY <1>1, <1>2, <1>3, <1>4, <1>5 DEF Next, Frame

LEMMA Inductive == Spec => []IInv
<1>1. Init => IInv BY InitIInv
<1>2. IInv /\ [Next]_vars => IInv' BY NextIInv
<1> QED BY <1>1, <1>2, PTL DEF Spec
-----------------------------------------------------------------------------
(* Flags, cursors, results and groups keep their types.                     *)
THEOREM TypeCorrect == Spec => []TypeOK
<1>1. IInv => TypeOK BY DEF IInv
<1> QED BY <1>1, Inductive, PTL

(* Between swaps the display is exactly the latest result.                  *)
THEOREM DisplayCorrect == Spec => []DisplayIsLatest
<1>1. IInv => DisplayIsLatest
  BY DEF IInv, Display, Settled, DisplayIsLatest
<1> QED BY <1>1, Inductive, PTL

(* No group shows blocks of two results, half-way through a swap included.  *)
THEOREM OneResultPerGroup == Spec => []NoGroupShowsTwo
<1>1. ASSUME NEW S, NEW n, S \subseteq {n} PROVE Cardinality(S) <= 1
  <2>1. IsFiniteSet({n}) /\ Cardinality({n}) = 1 BY FS_Singleton
  <2>2. Cardinality(S) <= Cardinality({n}) BY <1>1, <2>1, FS_Subset
  <2> QED BY <2>1, <2>2
<1>2. ASSUME IInv, ~overlapped, NEW g \in Group
      PROVE  \E n : live[g] \subseteq {n}
  <2>1. CASE active
    <3>1. Progress(cursor, live, applied, shown)
      BY <1>2, <2>1 DEF IInv, Display, Swapping
    <3> QED BY <3>1 DEF Progress
  <2>2. CASE ~active
    <3>1. live[g] = IF g \in shown THEN {applied} ELSE {}
      BY <1>2, <2>2 DEF IInv, Display, Settled
    <3> QED BY <3>1
  <2> QED BY <2>1, <2>2
<1>3. IInv => NoGroupShowsTwo
  BY <1>1, <1>2 DEF NoGroupShowsTwo
<1> QED BY <1>3, Inductive, PTL
=============================================================================
