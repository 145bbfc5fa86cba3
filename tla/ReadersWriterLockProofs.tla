----------------------- MODULE ReadersWriterLockProofs -----------------------
(***************************************************************************)
(* Proofs, for any number of threads and any nesting, that the lock keeps  *)
(* its inductive invariant, excludes, and implements SharedAccess.         *)
(***************************************************************************)
EXTENDS ReadersWriterLock, FiniteSetTheorems, TLAPS

\* There are finitely many reader sections, so they can be counted.
LEMMA SectionsFinite ==
  ASSUME LockAssumption
  PROVE  IsFiniteSet(Sections)
<1>1. IsFiniteSet(1 .. MaxNesting)
  BY FS_Interval DEF LockAssumption
<1>2. IsFiniteSet(Threads \X (1 .. MaxNesting))
  BY <1>1, FS_Product DEF LockAssumption
<1> QED
  BY <1>2, FS_Subset DEF Sections

\* A thread inside is one of the counted sections.
LEMMA InsideIsCounted ==
  ASSUME LockInv, LockAssumption, NEW t \in Threads, Counted(t) > 0
  PROVE  <<t, 1>> \in Sections
  BY DEF LockInv, TypeOK, LockAssumption, Sections, Counted

\* With the counter at zero nobody reads.
LEMMA NoReaders ==
  ASSUME LockInv, LockAssumption, readers = 0
  PROVE  \A t \in Threads : Counted(t) = 0
<1>1. Sections = {}
  BY SectionsFinite, FS_EmptySet DEF LockInv, ReadersCounted
<1>2. ASSUME NEW t \in Threads PROVE Counted(t) \in Nat
  BY DEF LockInv, TypeOK, Counted
<1> QED
  BY <1>1, <1>2, InsideIsCounted

\* With the counter at one there is one section, at nesting one.
LEMMA OneReader ==
  ASSUME LockInv, LockAssumption, readers = 1,
         NEW t \in Threads, NEW u \in Threads, Counted(t) > 0
  PROVE  Counted(t) = 1 /\ (u # t => Counted(u) = 0)
<1>1. PICK s : Sections = {s}
  BY SectionsFinite, FS_Singleton DEF LockInv, ReadersCounted
<1>2. s = <<t, 1>>
  BY <1>1, InsideIsCounted
<1>3. Counted(t) \in Nat /\ Counted(u) \in Nat
  BY DEF LockInv, TypeOK, Counted
<1>4. Counted(t) = 1
  <2>1. SUFFICES ASSUME Counted(t) # 1 PROVE FALSE
    OBVIOUS
  <2>2. Counted(t) >= 2 /\ MaxNesting >= 2
    BY <1>3, <2>1 DEF LockInv, TypeOK, Balanced, Counted, LockAssumption
  <2>3. <<t, 2>> \in Sections
    BY <2>2 DEF Sections, LockAssumption
  <2> QED
    BY <1>1, <1>2, <2>3
<1>5. u # t => Counted(u) = 0
  BY <1>1, <1>2, <1>3, InsideIsCounted
<1> QED
  BY <1>4, <1>5

-----------------------------------------------------------------------------
(* The inductive invariant, part by part.                                   *)

\* No step takes a variable out of its type.
LEMMA TypePreserved ==
  ASSUME LockAssumption, LockInv, Next
  PROVE  TypeOK'
<1> PICK t \in Threads : Call(t) \/ LockStep(t)
  BY DEF Next
<1> USE DEF LockAssumption, LockInv, TypeOK, Balanced, Goto, PCs
<1>1. CASE CallReaderLock(t) \/ CallReaderUnlock(t) \/ CallWriterLock(t)
  BY <1>1 DEF CallReaderLock, CallReaderUnlock, CallWriterLock
<1>2. CASE EnterLock(t) \/ LeaveLock(t)
  BY <1>2 DEF EnterLock, LeaveLock
<1>3. CASE CountIn(t)
  BY <1>3 DEF CountIn
<1>4. CASE LockAsFirst(t) \/ WriterLock(t) \/ WriterUnlock(t)
  BY <1>4 DEF LockAsFirst, WriterLock, WriterUnlock
<1>5. CASE Enter(t)
  BY <1>5 DEF Enter
<1>6. CASE CountOut(t)
  <2>1. readers # 0
    <3>1. Counted(t) > 0
      BY <1>6 DEF CountOut, Counted
    <3> QED
      BY <3>1, NoReaders
  <2> QED
    BY <1>6, <2>1 DEF CountOut
<1>7. CASE Leave(t)
  BY <1>7 DEF Leave
<1> QED
  BY <1>1, <1>2, <1>3, <1>4, <1>5, <1>6, <1>7 DEF Call, LockStep

\* Threads enter and leave the code under readMutex one at a time.
LEMMA HolderPreserved ==
  ASSUME LockAssumption, LockInv, Next
  PROVE  HolderInside'
<1> PICK t \in Threads : Call(t) \/ LockStep(t)
  BY DEF Next
<1> USE DEF LockAssumption, LockInv, TypeOK, HolderInside, Holding, Goto
<1>1. CASE CallReaderLock(t) \/ CallReaderUnlock(t) \/ CallWriterLock(t)
  BY <1>1 DEF CallReaderLock, CallReaderUnlock, CallWriterLock
<1>2. CASE EnterLock(t) \/ LeaveLock(t)
  BY <1>2 DEF EnterLock, LeaveLock
<1>3. CASE CountIn(t) \/ CountOut(t)
  BY <1>3 DEF CountIn, CountOut
<1>4. CASE LockAsFirst(t) \/ WriterLock(t) \/ WriterUnlock(t)
  BY <1>4 DEF LockAsFirst, WriterLock, WriterUnlock
<1>5. CASE Enter(t) \/ Leave(t)
  BY <1>5 DEF Enter, Leave
<1> QED
  BY <1>1, <1>2, <1>3, <1>4, <1>5 DEF Call, LockStep

\* Reader unlocks stay matched with reader locks.
LEMMA BalancePreserved ==
  ASSUME LockAssumption, LockInv, Next
  PROVE  Balanced'
<1> PICK t \in Threads : Call(t) \/ LockStep(t)
  BY DEF Next
<1> USE DEF LockAssumption, LockInv, TypeOK, Balanced, Goto
<1>1. CASE CallReaderLock(t) \/ CallReaderUnlock(t) \/ CallWriterLock(t)
  BY <1>1 DEF CallReaderLock, CallReaderUnlock, CallWriterLock
<1>2. CASE EnterLock(t) \/ LeaveLock(t)
  BY <1>2 DEF EnterLock, LeaveLock
<1>3. CASE CountIn(t) \/ CountOut(t)
  BY <1>3 DEF CountIn, CountOut
<1>4. CASE LockAsFirst(t) \/ WriterLock(t) \/ WriterUnlock(t)
  BY <1>4 DEF LockAsFirst, WriterLock, WriterUnlock
<1>5. CASE Enter(t) \/ Leave(t)
  BY <1>5 DEF Enter, Leave
<1> QED
  BY <1>1, <1>2, <1>3, <1>4, <1>5 DEF Call, LockStep

\* The counter follows the sections: CountIn adds the section the thread is
\* about to enter, CountOut removes the innermost one of its own.
LEMMA CountPreserved ==
  ASSUME LockAssumption, LockInv, Next
  PROVE  ReadersCounted'
<1> PICK t \in Threads : Call(t) \/ LockStep(t)
  BY DEF Next
<1>f. IsFiniteSet(Sections) /\ readers = Cardinality(Sections)
  BY SectionsFinite DEF LockInv, ReadersCounted
<1>s. ASSUME readers' = readers, \A u \in Threads : Counted(u)' = Counted(u)
      PROVE  ReadersCounted'
  <2>1. Sections' = Sections
    BY <1>s DEF Sections
  <2> QED
    BY <1>f, <1>s, <2>1 DEF ReadersCounted
<1> USE DEF LockAssumption, LockInv, TypeOK, Goto
<1>1. CASE CallReaderLock(t) \/ CallReaderUnlock(t) \/ CallWriterLock(t)
  BY <1>1, <1>s DEF CallReaderLock, CallReaderUnlock, CallWriterLock, Counted
<1>2. CASE EnterLock(t) \/ LeaveLock(t) \/ Leave(t)
  BY <1>2, <1>s DEF EnterLock, LeaveLock, Leave, Counted
<1>3. CASE LockAsFirst(t) \/ WriterLock(t) \/ WriterUnlock(t)
  BY <1>3, <1>s DEF LockAsFirst, WriterLock, WriterUnlock, Counted
<1>4. CASE Enter(t)
  BY <1>4, <1>s DEF Enter, Counted
<1>5. CASE CountIn(t)
  <2> DEFINE new == <<t, depth[t] + 1>>
  <2>1. /\ Counted(t) = depth[t] /\ Counted(t)' = depth[t] + 1
        /\ \A u \in Threads : u # t => Counted(u)' = Counted(u)
    BY <1>5 DEF CountIn, Counted
  <2>2. new \in Threads \X (1 .. MaxNesting) /\ depth[t] \in Nat
    BY <1>5 DEF CountIn, Balanced
  <2>3. Sections' = Sections \cup {new} /\ new \notin Sections
    BY <2>1, <2>2 DEF Sections
  <2> QED
    BY <1>5, <1>f, <2>3, FS_AddElement DEF CountIn, ReadersCounted
<1>6. CASE CountOut(t)
  <2> DEFINE old == <<t, depth[t]>>
  <2>1. /\ Counted(t) = depth[t] /\ Counted(t)' = depth[t] - 1
        /\ \A u \in Threads : u # t => Counted(u)' = Counted(u)
    BY <1>6 DEF CountOut, Counted
  <2>2. old \in Threads \X (1 .. MaxNesting) /\ depth[t] \in Nat
    BY <1>6 DEF CountOut, Balanced
  <2>3. Sections' = Sections \ {old} /\ old \in Sections
    BY <2>1, <2>2 DEF Sections
  <2>4. Cardinality(Sections \ {old}) = Cardinality(Sections) - 1
    BY <1>f, <2>3, FS_RemoveElement
  <2>5. readers' = readers - 1
    BY <1>6 DEF CountOut
  <2> QED
    BY <1>f, <2>3, <2>4, <2>5 DEF ReadersCounted
<1> QED
  BY <1>1, <1>2, <1>3, <1>4, <1>5, <1>6 DEF Call, LockStep

\* A counter above zero means that some thread is counted.
LEMMA SomeReader ==
  ASSUME LockInv, LockAssumption, readers # 0
  PROVE  \E t \in Threads : Counted(t) > 0
<1>1. PICK s : s \in Sections
  BY SectionsFinite, FS_EmptySet DEF LockInv, ReadersCounted
<1> QED
  BY <1>1 DEF Sections, Counted, LockInv, TypeOK, LockAssumption

\* The reader that waits for readAndWriteMutex is the only section there is.
LEMMA FirstPreserved ==
  ASSUME LockAssumption, LockInv, Next
  PROVE  FirstIsAlone'
<1> PICK t \in Threads : Call(t) \/ LockStep(t)
  BY DEF Next
<1> USE DEF LockAssumption, LockInv, TypeOK, FirstIsAlone, HolderInside, Holding, Goto
<1>1. CASE CallReaderLock(t) \/ CallReaderUnlock(t) \/ CallWriterLock(t)
  BY <1>1 DEF CallReaderLock, CallReaderUnlock, CallWriterLock
<1>2. CASE EnterLock(t) \/ LeaveLock(t)
  BY <1>2 DEF EnterLock, LeaveLock
<1>3. CASE LockAsFirst(t) \/ WriterLock(t) \/ WriterUnlock(t)
  BY <1>3 DEF LockAsFirst, WriterLock, WriterUnlock
<1>4. CASE Enter(t) \/ Leave(t)
  BY <1>4 DEF Enter, Leave
<1>5. CASE CountIn(t)
  <2>1. \A u \in Threads : u # t => pc'[u] # "lockAsFirst"
    BY <1>5 DEF CountIn
  <2>2. readers = 0 => \A u \in Threads : depth[u] = 0
    BY NoReaders DEF Counted
  <2> QED
    BY <1>5, <2>1, <2>2 DEF CountIn
<1>6. CASE CountOut(t)
  BY <1>6 DEF CountOut
<1> QED
  BY <1>1, <1>2, <1>3, <1>4, <1>5, <1>6 DEF Call, LockStep

\* As long as one thread may read, readAndWriteMutex stays with the readers.
LEMMA ReadersKeepIt ==
  ASSUME LockAssumption, LockInv, Next
  PROVE  ReadersHoldIt'
<1> PICK t \in Threads : Call(t) \/ LockStep(t)
  BY DEF Next
<1> USE DEF LockAssumption, LockInv, TypeOK, ReadersHoldIt, WriterHoldsIt,
            reading, writing, Goto
<1>1. CASE CallReaderLock(t) \/ CallReaderUnlock(t) \/ CallWriterLock(t)
  BY <1>1 DEF CallReaderLock, CallReaderUnlock, CallWriterLock
<1>2. CASE EnterLock(t) \/ LeaveLock(t)
  BY <1>2 DEF EnterLock, LeaveLock
<1>3. CASE LockAsFirst(t) \/ WriterLock(t)
  BY <1>3 DEF LockAsFirst, WriterLock
<1>4. CASE WriterUnlock(t)
  <2>1. \A u \in Threads : reading[u] = 0
    BY <1>4 DEF WriterUnlock
  <2>2. reading' = reading
    BY <1>4 DEF WriterUnlock
  <2> QED
    BY <2>1, <2>2
<1>5. CASE Enter(t) \/ Leave(t)
  BY <1>5 DEF Enter, Leave
<1>6. CASE CountIn(t)
  <2>1. CASE readers = 0
    BY <1>6, <2>1 DEF CountIn
  <2>2. CASE readers # 0
    <3>1. PICK u \in Threads : Counted(u) > 0
      BY <2>2, SomeReader
    <3>2. pc[u] # "lockAsFirst"
      BY <1>6 DEF CountIn, HolderInside, Holding
    <3>3. readAndWriteMutex /\ writing = {}
      BY <3>1, <3>2 DEF Counted
    <3> QED
      BY <1>6, <3>3 DEF CountIn
  <2> QED
    BY <2>1, <2>2
<1>7. CASE CountOut(t)
  <2>1. readAndWriteMutex /\ writing = {} /\ Counted(t) > 0
    BY <1>7 DEF CountOut, Balanced, Counted
  <2>2. writing' = {}
    BY <1>7, <2>1 DEF CountOut
  <2>3. CASE readers = 1
    <3>1. Counted(t) = 1 /\ \A u \in Threads : u # t => Counted(u) = 0
      BY <2>1, <2>3, OneReader
    <3>2. depth[t] = 1 /\ \A u \in Threads : u # t => depth[u] = 0 /\ pc[u] # "enter"
      BY <1>7, <3>1 DEF CountOut, Counted
    <3>3. \A u \in Threads : reading'[u] = 0
      BY <1>7, <3>2 DEF CountOut
    <3> QED
      BY <3>3
  <2>4. CASE readers # 1
    BY <1>7, <2>1, <2>2, <2>4 DEF CountOut
  <2> QED
    BY <2>3, <2>4
<1> QED
  BY <1>1, <1>2, <1>3, <1>4, <1>5, <1>6, <1>7 DEF Call, LockStep

\* A writer has readAndWriteMutex to itself until it unlocks it.
LEMMA WriterKeepsIt ==
  ASSUME LockAssumption, LockInv, Next
  PROVE  WriterHoldsIt'
<1> PICK t \in Threads : Call(t) \/ LockStep(t)
  BY DEF Next
<1> USE DEF LockAssumption, LockInv, TypeOK, ReadersHoldIt, WriterHoldsIt,
            reading, writing, Goto
<1>1. CASE CallReaderLock(t) \/ CallReaderUnlock(t) \/ CallWriterLock(t)
  BY <1>1 DEF CallReaderLock, CallReaderUnlock, CallWriterLock
<1>2. CASE EnterLock(t) \/ LeaveLock(t) \/ CountIn(t)
  BY <1>2 DEF EnterLock, LeaveLock, CountIn
<1>3. CASE LockAsFirst(t) \/ Enter(t) \/ Leave(t)
  BY <1>3 DEF LockAsFirst, Enter, Leave
<1>4. CASE WriterLock(t) \/ WriterUnlock(t)
  BY <1>4 DEF WriterLock, WriterUnlock
<1>5. CASE CountOut(t)
  <2>1. writing = {} /\ writing' = writing
    BY <1>5 DEF CountOut, Balanced
  <2> QED
    BY <2>1
<1> QED
  BY <1>1, <1>2, <1>3, <1>4, <1>5 DEF Call, LockStep

-----------------------------------------------------------------------------
(* What follows for every behaviour.                                        *)

LEMMA LockInvInit == LockAssumption /\ Init => LockInv
<1> SUFFICES ASSUME LockAssumption, Init PROVE LockInv
  OBVIOUS
<1> USE DEF LockAssumption, Init
<1>1. TypeOK
  <2>1. pc \in [Threads -> PCs]
    BY DEF PCs
  <2>2. 0 \in 0 .. MaxNesting
    OBVIOUS
  <2>3. depth \in [Threads -> 0 .. MaxNesting]
    BY <2>2
  <2> QED
    BY <2>1, <2>3 DEF TypeOK
<1>2. HolderInside /\ FirstIsAlone /\ Balanced
  BY DEF HolderInside, Holding, FirstIsAlone, Balanced
<1>3. ReadersHoldIt /\ WriterHoldsIt
  BY DEF ReadersHoldIt, WriterHoldsIt, reading, writing
<1>4. ReadersCounted
  <2>1. Sections = {}
    BY DEF Sections, Counted
  <2> QED
    BY <2>1, FS_EmptySet DEF ReadersCounted
<1> QED
  BY <1>1, <1>2, <1>3, <1>4 DEF LockInv

LEMMA LockInvStep == LockAssumption /\ LockInv /\ [Next]_vars => LockInv'
<1> SUFFICES ASSUME LockAssumption, LockInv, [Next]_vars PROVE LockInv'
  OBVIOUS
<1>1. CASE Next
  <2>1. TypeOK' /\ HolderInside' /\ Balanced'
    BY <1>1, TypePreserved, HolderPreserved, BalancePreserved
  <2>2. FirstIsAlone' /\ ReadersHoldIt' /\ WriterHoldsIt'
    BY <1>1, FirstPreserved, ReadersKeepIt, WriterKeepsIt
  <2>3. ReadersCounted'
    BY <1>1, CountPreserved
  <2> QED
    BY <2>1, <2>2, <2>3 DEF LockInv
<1>2. CASE UNCHANGED vars
  BY <1>2 DEF vars, LockInv, TypeOK, HolderInside, Balanced, FirstIsAlone, ReadersHoldIt,
              WriterHoldsIt, ReadersCounted, Sections, Counted, reading, writing
<1> QED
  BY <1>1, <1>2

\* The inductive invariant holds in every state the lock reaches.
THEOREM LockInvariant == Spec => []LockInv
  BY LockAssumption, LockInvInit, LockInvStep, PTL DEF Spec

\* Every variable has its type: the global counter, above all, never falls below
\* zero, though sharedReaderUnlock decrements it without a look.
THEOREM LockTyped == Spec => []TypeOK
<1>1. LockInv => TypeOK
  BY DEF LockInv
<1> QED
  BY <1>1, LockInvariant, PTL

\* While one thread changes the table, no other changes or reads it.
THEOREM LockExcludes == Spec => []Exclusion
<1>1. LockInv => Exclusion
  <2> SUFFICES ASSUME LockInv, NEW t \in writing
               PROVE  writing = {t} /\ \A u \in Threads : reading[u] = 0
    BY DEF Exclusion
  <2>1. writing = {t} /\ \A u \in Threads : ~(reading[u] > 0)
    BY DEF LockInv, ReadersHoldIt, WriterHoldsIt
  <2>2. \A u \in Threads : reading[u] \in Nat
    BY DEF LockInv, TypeOK, reading
  <2> QED
    BY <2>1, <2>2
<1> QED
  BY <1>1, LockInvariant, PTL

\* The global counter equals the reader sections that are entered and not left.
THEOREM LockCountsReaders == Spec => []ReadersCounted
<1>1. LockInv => ReadersCounted
  BY DEF LockInv
<1> QED
  BY <1>1, LockInvariant, PTL

\* A thread that reaches "enter" has begun one more reader section.
LEMMA ReadingMore ==
  ASSUME TypeOK, NEW t \in Threads, pc[t] # "enter",
         pc' = [pc EXCEPT ![t] = "enter"], depth' = depth
  PROVE  reading' = [reading EXCEPT ![t] = @ + 1]
<1>1. \A u \in Threads : reading'[u] = [reading EXCEPT ![t] = @ + 1][u]
  BY DEF reading, TypeOK
<1> QED
  BY <1>1 DEF reading

\* A step of the lock begins or ends one section of SharedAccess, or none.
LEMMA LockStepRefines ==
  ASSUME LockAssumption, LockInv, LockInv', Next
  PROVE  [SA!Next]_<<reading, writing>>
<1> PICK t \in Threads : Call(t) \/ LockStep(t)
  BY DEF Next
<1> USE DEF LockAssumption, LockInv, TypeOK, reading, writing, Goto
<1>1. CASE CallReaderLock(t) \/ CallReaderUnlock(t) \/ CallWriterLock(t)
  BY <1>1 DEF CallReaderLock, CallReaderUnlock, CallWriterLock
<1>2. CASE EnterLock(t) \/ LeaveLock(t)
  BY <1>2 DEF EnterLock, LeaveLock
<1>3. CASE Enter(t) \/ Leave(t)
  BY <1>3 DEF Enter, Leave
<1>4. CASE CountIn(t)
  <2>1. CASE readers = 0
    BY <1>4, <2>1 DEF CountIn
  <2>2. CASE readers # 0
    <3>1. pc[t] = "countIn" /\ pc' = [pc EXCEPT ![t] = "enter"] /\ depth' = depth
      BY <1>4, <2>2 DEF CountIn
    <3>2. reading' = [reading EXCEPT ![t] = @ + 1]
      BY <3>1, ReadingMore
    <3>3. writing' = writing
      BY <3>1
    <3>4. writing' = {}
      BY <3>1 DEF ReadersHoldIt
    <3> QED
      BY <3>2, <3>3, <3>4 DEF SA!Next, SA!BeginRead
  <2> QED
    BY <2>1, <2>2
<1>5. CASE LockAsFirst(t)
  <2>1. pc[t] = "lockAsFirst" /\ pc' = [pc EXCEPT ![t] = "enter"] /\ depth' = depth
    BY <1>5 DEF LockAsFirst
  <2>2. reading' = [reading EXCEPT ![t] = @ + 1]
    BY <2>1, ReadingMore
  <2>3. writing' = writing
    BY <2>1
  <2>4. writing = {}
    BY <1>5 DEF LockAsFirst, WriterHoldsIt
  <2> QED
    BY <2>2, <2>3, <2>4 DEF SA!Next, SA!BeginRead
<1>6. CASE CountOut(t)
  <2>1. /\ pc[t] = "countOut" /\ pc' = [pc EXCEPT ![t] = "leave"]
        /\ depth[t] > 0 /\ depth' = [depth EXCEPT ![t] = @ - 1]
    BY <1>6 DEF CountOut, Balanced
  <2>2. \A u \in Threads : reading'[u] = [reading EXCEPT ![t] = @ - 1][u]
    BY <2>1
  <2>3. reading' = [reading EXCEPT ![t] = @ - 1]
    BY <2>2
  <2>4. writing' = writing /\ reading[t] > 0
    BY <2>1
  <2> QED
    BY <2>3, <2>4 DEF SA!Next, SA!EndRead
<1>7. CASE WriterLock(t)
  <2>1. reading' = reading
    BY <1>7 DEF WriterLock
  <2>2. writing = {} /\ writing' = {t}
    BY <1>7 DEF WriterLock, WriterHoldsIt
  <2>3. \A u \in Threads : reading[u] = 0
    BY <1>7 DEF WriterLock, ReadersHoldIt
  <2> QED
    BY <2>1, <2>2, <2>3 DEF SA!Next, SA!BeginWrite
<1>8. CASE WriterUnlock(t)
  <2>1. reading' = reading /\ t \in writing /\ writing' = writing \ {t}
    BY <1>8 DEF WriterUnlock
  <2> QED
    BY <2>1 DEF SA!Next, SA!EndWrite
<1> QED
  BY <1>1, <1>2, <1>3, <1>4, <1>5, <1>6, <1>7, <1>8 DEF Call, LockStep

\* The two mutexes and the counter implement SharedAccess: whatever a caller
\* can see of them is many readers or one writer.
THEOREM LockImplementsSharedAccess == Spec => ImplementsSharedAccess
<1>1. Init => SA!Init
  BY DEF Init, SA!Init, reading, writing
<1>2. LockInv /\ LockInv' /\ [Next]_vars => [SA!Next]_<<reading, writing>>
  <2>1. ASSUME UNCHANGED vars PROVE UNCHANGED <<reading, writing>>
    BY <2>1 DEF vars, reading, writing
  <2> QED
    BY <2>1, LockAssumption, LockStepRefines
<1> QED
  BY <1>1, <1>2, LockInvariant, PTL DEF Spec, ImplementsSharedAccess, SA!Spec
=============================================================================
