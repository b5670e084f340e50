------------------------- MODULE SearchIndexProofs -------------------------
(***************************************************************************)
(* What SearchIndex keeps true for any number of writers.                  *)
(***************************************************************************)
EXTENDS SearchIndex, TLAPS

\* Every writer that still has to index something besides the last one was doing
\* so when the last one wrote, and the last one has the stored document to index.
RivalsInv ==
    /\ last = NoWriter => \A w \in Writers : todo[w] = {}
    /\ last # NoWriter => pc[last] # "idle"
    /\ \A w \in Writers, x \in Indexes :
         (w # last /\ x \in todo[w]) => carried[w] \in rivals[x]
    /\ last # NoWriter /\ pc[last] \in {"dispatching", "done"} => carried[last] = stored

IndexInv == TypeOK /\ RivalsInv /\ OnlyRivalsOverwrite

LEMMA InitIndexInv == Init => IndexInv
  BY WritersAssumption
  DEF Init, IndexInv, TypeOK, Versions, RivalsInv, OnlyRivalsOverwrite, LastIsIndexed, Indexes

-----------------------------------------------------------------------------
(* What one step does.                                                     *)

\* A write that is dispatched: of a new version, or of a removal.
Stores(w) ==
    /\ pc[w] = "idle"
    /\ writes' \in Nat /\ writes' >= writes
    /\ stored' \in Versions'
    /\ Dispatch(w, stored')
    /\ Observe(w)
    /\ UNCHANGED indexed

\* A write that is not.
StoresSilently(w) ==
    /\ pc[w] = "idle"
    /\ writes' \in Nat /\ writes' >= writes
    /\ stored' \in Versions'
    /\ Observe(w)
    /\ End(w, "silent")
    /\ UNCHANGED indexed

StoresNothing(w) ==
    /\ pc[w] = "idle"
    /\ \E state \in {"done", "failed"} : NoWrite(w, state)
    /\ UNCHANGED indexed

LEMMA StepCases ==
    ASSUME TypeOK, NEW w \in Writers,
           \/ Create(w) \/ UpdateByUuid(w) \/ UpdateExisting(w)
           \/ UpdateSilently(w) \/ RemoveByUuid(w)
    PROVE  Stores(w) \/ StoresSilently(w) \/ StoresNothing(w)
  <1>1. CASE pc[w] = "idle" /\ Write(w) /\ UNCHANGED indexed
    BY <1>1 DEF Write, Stores, TypeOK, Versions
  <1>2. CASE UpdateSilently(w)
    BY <1>2 DEF UpdateSilently, StoresSilently, StoresNothing, TypeOK, Versions
  <1>3. CASE RemoveByUuid(w)
    BY <1>3 DEF RemoveByUuid, Stores, StoresNothing, TypeOK, Versions
  <1>4. CASE Create(w)
    BY <1>1, <1>4 DEF Create, StoresNothing
  <1>5. CASE UpdateExisting(w)
    BY <1>1, <1>5 DEF UpdateExisting, StoresNothing
  <1>6. CASE UpdateByUuid(w)
    BY <1>1, <1>6 DEF UpdateByUuid
  <1>. QED
    BY <1>2, <1>3, <1>4, <1>5, <1>6

-----------------------------------------------------------------------------
(* Types.                                                                  *)

LEMMA VersionsGrow ==
    ASSUME TypeOK, writes' \in Nat, writes' >= writes
    PROVE  Versions \subseteq Versions'
  BY DEF TypeOK, Versions

LEMMA ObserveType ==
    ASSUME TypeOK, NEW w \in Writers, Observe(w), Versions \subseteq Versions'
    PROVE  last' \in Writers /\ rivals' \in [Indexes -> SUBSET Versions']
  <1>1. \A v \in Writers : carried[v] \in Versions'
    BY DEF TypeOK
  <1>. QED
    BY <1>1 DEF Observe

LEMMA TypeStep == TypeOK /\ [Next]_vars => TypeOK'
  <1>. SUFFICES ASSUME TypeOK, [Next]_vars
                PROVE  TypeOK'
    OBVIOUS
  <1>1. ASSUME NEW w \in Writers, Stores(w)
        PROVE  TypeOK'
    <2>1. Versions \subseteq Versions' /\ writes' \in Nat /\ stored' \in Versions'
      BY <1>1, VersionsGrow DEF Stores
    <2>2. last' \in Writers /\ rivals' \in [Indexes -> SUBSET Versions']
      BY <1>1, <2>1, ObserveType DEF Stores
    <2>3. Indexes # {}
      BY DEF Indexes
    <2>. QED
      BY <1>1, <2>1, <2>2, <2>3 DEF Stores, Dispatch, TypeOK
  <1>2. ASSUME NEW w \in Writers, StoresSilently(w)
        PROVE  TypeOK'
    <2>1. Versions \subseteq Versions' /\ writes' \in Nat /\ stored' \in Versions'
      BY <1>2, VersionsGrow DEF StoresSilently
    <2>2. last' \in Writers /\ rivals' \in [Indexes -> SUBSET Versions']
      BY <1>2, <2>1, ObserveType DEF StoresSilently
    <2>. QED
      BY <1>2, <2>1, <2>2 DEF StoresSilently, End, TypeOK
  <1>3. ASSUME NEW w \in Writers, StoresNothing(w)
        PROVE  TypeOK'
    BY <1>3 DEF StoresNothing, NoWrite, End, TypeOK, Versions, observerVars
  <1>4. ASSUME NEW w \in Writers, NEW x \in Indexes, IndexDocument(w, x)
        PROVE  TypeOK'
    BY <1>4 DEF IndexDocument, TypeOK, Versions, observerVars
  <1>5. ASSUME NEW w \in Writers, Fail(w)
        PROVE  TypeOK'
    BY <1>5 DEF Fail, TypeOK, Versions, observerVars
  <1>6. CASE UNCHANGED vars
    BY <1>6 DEF vars, writerVars, observerVars, TypeOK, Versions
  <1>. QED
    BY <1>1, <1>2, <1>3, <1>4, <1>5, <1>6, StepCases DEF Next, Listen

\* Every variable keeps its type.
THEOREM SearchIndexTypes == Spec => []TypeOK
  <1>1. Init => TypeOK
    BY InitIndexInv DEF IndexInv
  <1>. QED
    BY <1>1, TypeStep, PTL DEF Spec

-----------------------------------------------------------------------------
(* The copies.                                                             *)

LEMMA RivalsStep ==
    ASSUME IndexInv, [Next]_vars
    PROVE  RivalsInv' /\ OnlyRivalsOverwrite'
  <1>. USE DEF IndexInv, TypeOK
  <1>1. ASSUME NEW w \in Writers, Observe(w), \A v \in Writers \ {w} : UNCHANGED <<carried[v], todo[v]>>,
               pc'[w] # "idle",
               pc'[w] \in {"dispatching", "done"} => carried'[w] = stored'
        PROVE  RivalsInv'
    <2>1. \A v \in Writers, x \in Indexes : x \in todo[v] => carried[v] \in rivals'[x]
      BY <1>1 DEF Observe
    <2>. QED
      BY <1>1, <2>1, WritersAssumption DEF RivalsInv, Observe
  <1>2. ASSUME NEW w \in Writers, Stores(w)
        PROVE  RivalsInv' /\ OnlyRivalsOverwrite'
    <2>1. RivalsInv'
      BY <1>1, <1>2 DEF Stores, Dispatch
    <2>2. last' = w /\ todo'[w] = Indexes
      BY <1>2 DEF Stores, Dispatch, Observe
    <2>. QED
      BY <2>1, <2>2 DEF OnlyRivalsOverwrite, LastIsIndexed
  <1>3. ASSUME NEW w \in Writers, StoresSilently(w)
        PROVE  RivalsInv' /\ OnlyRivalsOverwrite'
    <2>1. RivalsInv'
      BY <1>1, <1>3 DEF StoresSilently, End
    <2>2. last' = w /\ pc'[w] = "silent"
      BY <1>3 DEF StoresSilently, End, Observe
    <2>. QED
      BY <2>1, <2>2 DEF OnlyRivalsOverwrite, LastIsIndexed
  <1>4. ASSUME NEW w \in Writers, StoresNothing(w)
        PROVE  RivalsInv' /\ OnlyRivalsOverwrite'
    <2>1. UNCHANGED <<stored, indexed, carried, todo, last, rivals>> /\ w # last
      BY <1>4, WritersAssumption DEF StoresNothing, NoWrite, End, observerVars, RivalsInv
    <2>2. last # NoWriter => pc'[last] = pc[last]
      BY <1>4, <2>1 DEF StoresNothing, NoWrite, End
    <2>. QED
      BY <2>1, <2>2 DEF RivalsInv, OnlyRivalsOverwrite, LastIsIndexed
  <1>5. ASSUME NEW w \in Writers, NEW x \in Indexes, IndexDocument(w, x)
        PROVE  RivalsInv' /\ OnlyRivalsOverwrite'
    <2>1. /\ last # NoWriter
          /\ \A v \in Writers : todo'[v] \subseteq todo[v]
          /\ \A v \in Writers : v # w => pc'[v] = pc[v] /\ todo'[v] = todo[v]
          /\ pc[w] = "dispatching" /\ pc'[w] \in {"dispatching", "done"}
          /\ UNCHANGED <<stored, carried, last, rivals>>
      BY <1>5 DEF IndexDocument, observerVars, RivalsInv
    <2>2. RivalsInv'
      BY <2>1 DEF RivalsInv
    <2>3. indexed'[x] \in {stored} \cup rivals[x]
      BY <1>5, <2>1 DEF IndexDocument, RivalsInv
    <2>4. ASSUME NEW y \in Indexes, y # x, LastIsIndexed(y)'
          PROVE  indexed'[y] \in {stored} \cup rivals[y]
      <3>1. LastIsIndexed(y) /\ indexed'[y] = indexed[y]
        BY <1>5, <2>1, <2>4 DEF IndexDocument, LastIsIndexed
      <3>. QED
        BY <3>1 DEF OnlyRivalsOverwrite
    <2>. QED
      BY <2>1, <2>2, <2>3, <2>4 DEF OnlyRivalsOverwrite
  <1>6. ASSUME NEW w \in Writers, Fail(w)
        PROVE  RivalsInv' /\ OnlyRivalsOverwrite'
    <2>1. /\ UNCHANGED <<stored, indexed, carried, last, rivals>>
          /\ \A v \in Writers : todo'[v] \subseteq todo[v]
          /\ \A v \in Writers : v # w => pc'[v] = pc[v] /\ todo'[v] = todo[v]
          /\ pc'[w] = "failed"
      BY <1>6 DEF Fail, observerVars
    <2>2. RivalsInv'
      BY <2>1 DEF RivalsInv
    <2>3. \A x \in Indexes : LastIsIndexed(x)' => LastIsIndexed(x)
      BY <2>1 DEF LastIsIndexed
    <2>. QED
      BY <2>1, <2>2, <2>3 DEF OnlyRivalsOverwrite
  <1>7. CASE UNCHANGED vars
    BY <1>7 DEF vars, writerVars, observerVars, RivalsInv, OnlyRivalsOverwrite, LastIsIndexed
  <1>. QED
    BY <1>2, <1>3, <1>4, <1>5, <1>6, <1>7, StepCases DEF Next, Listen

\* For any number of writers: a copy that is behind has what a writer wrote that
\* the last one overlapped.
THEOREM CopiesLagBehindRivals == Spec => []OnlyRivalsOverwrite
  <1>1. IndexInv /\ [Next]_vars => IndexInv'
    BY TypeStep, RivalsStep DEF IndexInv
  <1>2. IndexInv => OnlyRivalsOverwrite
    BY DEF IndexInv
  <1>. QED
    BY InitIndexInv, <1>1, <1>2, PTL DEF Spec
=============================================================================
