-------------------------- MODULE ReadersWriterLock --------------------------
(***************************************************************************)
(* The lock every thread of the server takes around masterTable and its    *)
(* rows: sharedReaderLock and sharedReaderUnlock of server.cpp for         *)
(* readers, and a bare lock of readAndWriteMutex for writers (TableRow's   *)
(* mutators, the inserts into masterTable).                                *)
(*                                                                         *)
(* The first reader in locks readAndWriteMutex and the last reader out     *)
(* unlocks it, often another thread. POSIX leaves that undefined for a     *)
(* default mutex; the Linux one, which the code runs on, does not look at  *)
(* who unlocks, so readAndWriteMutex is here only locked or free.          *)
(***************************************************************************)
EXTENDS Naturals, FiniteSets

CONSTANTS
  Threads,     \* the server loop, the election thread, one thread per client
  Nobody,      \* the holder of a free mutex
  MaxNesting   \* reader sections a thread is in at once: CONNECT and FOLLOW
               \* call a TableRow getter inside their own reader section, so 2

ASSUME LockAssumption ==
  /\ IsFiniteSet(Threads)
  /\ Nobody \notin Threads
  /\ MaxNesting \in Nat \ {0}

VARIABLES
  pc,                \* where each thread is in the lock's code
  depth,             \* the reader sections each thread is in
  readMutex,         \* its holder
  readers,           \* the global counter
  readAndWriteMutex  \* is it locked

vars == <<pc, depth, readMutex, readers, readAndWriteMutex>>

Init == /\ pc = [t \in Threads |-> "running"]
        /\ depth = [t \in Threads |-> 0]
        /\ readMutex = Nobody
        /\ readers = 0
        /\ readAndWriteMutex = FALSE

Goto(t, from, to) == /\ pc[t] = from
                     /\ pc' = [pc EXCEPT ![t] = to]

-----------------------------------------------------------------------------
(* What the callers do: a thread asks for a reader section, a nested one    *)
(* included, or for a writer section, never for a writer section inside a   *)
(* reader section.                                                          *)

CallReaderLock(t) ==
  /\ depth[t] < MaxNesting
  /\ Goto(t, "running", "lockToEnter")
  /\ UNCHANGED <<depth, readMutex, readers, readAndWriteMutex>>

\* Mutant: a caller unlocks what it did not lock.
CallReaderUnlockTwice(t) ==
  /\ Goto(t, "running", "lockToLeave")
  /\ UNCHANGED <<depth, readMutex, readers, readAndWriteMutex>>

CallReaderUnlock(t) ==
  /\ depth[t] > 0
  /\ Goto(t, "running", "lockToLeave")
  /\ UNCHANGED <<depth, readMutex, readers, readAndWriteMutex>>

CallWriterLock(t) ==
  /\ depth[t] = 0
  /\ Goto(t, "running", "lockToWrite")
  /\ UNCHANGED <<depth, readMutex, readers, readAndWriteMutex>>

-----------------------------------------------------------------------------
(* sharedReaderLock.                                                        *)

EnterLock(t) ==
  /\ readMutex = Nobody
  /\ readMutex' = t
  /\ Goto(t, "lockToEnter", "countIn")
  /\ UNCHANGED <<depth, readers, readAndWriteMutex>>

\* Mutant: the first reader is told apart by the counter after the next reader
\* has counted itself in.
CountInLate(t) ==
  /\ Goto(t, "countIn", IF readers = 1 THEN "lockAsFirst" ELSE "enter")
  /\ readers' = readers + 1
  /\ UNCHANGED <<depth, readMutex, readAndWriteMutex>>

CountIn(t) ==
  /\ Goto(t, "countIn", IF readers = 0 THEN "lockAsFirst" ELSE "enter")
  /\ readers' = readers + 1
  /\ UNCHANGED <<depth, readMutex, readAndWriteMutex>>

LockAsFirst(t) ==
  /\ ~readAndWriteMutex
  /\ readAndWriteMutex' = TRUE
  /\ Goto(t, "lockAsFirst", "enter")
  /\ UNCHANGED <<depth, readMutex, readers>>

\* Mutant: the lock counts a nested section of a thread only once.
EnterOnce(t) ==
  /\ Goto(t, "enter", "running")
  /\ readMutex' = Nobody
  /\ depth' = [depth EXCEPT ![t] = 1]
  /\ UNCHANGED <<readers, readAndWriteMutex>>

Enter(t) ==
  /\ Goto(t, "enter", "running")
  /\ readMutex' = Nobody
  /\ depth' = [depth EXCEPT ![t] = @ + 1]
  /\ UNCHANGED <<readers, readAndWriteMutex>>

-----------------------------------------------------------------------------
(* sharedReaderUnlock.                                                      *)

LeaveLock(t) ==
  /\ readMutex = Nobody
  /\ readMutex' = t
  /\ Goto(t, "lockToLeave", "countOut")
  /\ UNCHANGED <<depth, readers, readAndWriteMutex>>

\* Mutant: the last reader forgets readAndWriteMutex.
CountOutForgets(t) ==
  /\ Goto(t, "countOut", "leave")
  /\ readers' = readers - 1
  /\ depth' = [depth EXCEPT ![t] = @ - 1]
  /\ UNCHANGED <<readMutex, readAndWriteMutex>>

\* Mutant: whoever leaves unlocks readAndWriteMutex.
CountOutEagerly(t) ==
  /\ Goto(t, "countOut", "leave")
  /\ readers' = readers - 1
  /\ readAndWriteMutex' = FALSE
  /\ depth' = [depth EXCEPT ![t] = @ - 1]
  /\ UNCHANGED readMutex

\* The decrement and, for the last reader, the unlock: readMutex is held, so
\* nothing tells them apart.
CountOut(t) ==
  /\ Goto(t, "countOut", "leave")
  /\ readers' = readers - 1
  /\ readAndWriteMutex' = (readAndWriteMutex /\ readers # 1)
  /\ depth' = [depth EXCEPT ![t] = @ - 1]
  /\ UNCHANGED readMutex

Leave(t) ==
  /\ Goto(t, "leave", "running")
  /\ readMutex' = Nobody
  /\ UNCHANGED <<depth, readers, readAndWriteMutex>>

-----------------------------------------------------------------------------
(* A writer section: pthread_mutex_lock and pthread_mutex_unlock of         *)
(* readAndWriteMutex.                                                       *)

WriterLock(t) ==
  /\ ~readAndWriteMutex
  /\ readAndWriteMutex' = TRUE
  /\ Goto(t, "lockToWrite", "writing")
  /\ UNCHANGED <<depth, readMutex, readers>>

WriterUnlock(t) ==
  /\ Goto(t, "writing", "running")
  /\ readAndWriteMutex' = FALSE
  /\ UNCHANGED <<depth, readMutex, readers>>

-----------------------------------------------------------------------------
Call(t) == CallReaderLock(t) \/ CallWriterLock(t)

LockStep(t) ==
  \/ EnterLock(t) \/ CountIn(t) \/ LockAsFirst(t) \/ Enter(t)
  \/ CallReaderUnlock(t) \/ LeaveLock(t) \/ CountOut(t) \/ Leave(t)
  \/ WriterLock(t) \/ WriterUnlock(t)

Next == \E t \in Threads : Call(t) \/ LockStep(t)

(* A thread keeps running: it finishes what it began and leaves the         *)
(* sections it entered. A mutex that is free and wanted goes to somebody,   *)
(* to nobody in particular. A thread need not ask for the lock again.       *)
Fairness == \A t \in Threads : WF_vars(LockStep(t))

Spec == Init /\ [][Next]_vars
FairSpec == Spec /\ Fairness

-----------------------------------------------------------------------------
(* Properties.                                                              *)

PCs == {"running", "lockToEnter", "countIn", "lockAsFirst", "enter",
        "lockToLeave", "countOut", "leave", "lockToWrite", "writing"}

\* Every variable has its type; no thread nests deeper than the callers do.
TypeOK == /\ pc \in [Threads -> PCs]
          /\ depth \in [Threads -> 0 .. MaxNesting]
          /\ readMutex \in Threads \cup {Nobody}
          /\ readers \in Nat
          /\ readAndWriteMutex \in BOOLEAN

\* The threads that may read the table, and those that may change it.
reading == [t \in Threads |-> depth[t] + (IF pc[t] = "enter" THEN 1 ELSE 0)]
writing == {t \in Threads : pc[t] = "writing"}

\* While a thread changes the table no other thread changes it and none reads
\* it: the first and the last reader hand readAndWriteMutex over between them
\* without a moment in which a writer slips in.
Exclusion == \A t \in writing : /\ \A u \in Threads : reading[u] = 0
                                /\ writing = {t}

\* The reader sections that `readers` has counted, one pair for each: the
\* depth of every thread, and one more past CountIn.
Counted(t) == depth[t] + (IF pc[t] \in {"lockAsFirst", "enter"} THEN 1 ELSE 0)
Sections == {s \in Threads \X (1 .. MaxNesting) : s[2] <= Counted(s[1])}

\* The counter is exactly the reader sections entered and not left, nested
\* ones included: a lost or doubled count would unlock readAndWriteMutex under
\* a reader, or never.
ReadersCounted == readers = Cardinality(Sections)

\* Who may be where: only the holder of readMutex is between its lock and its
\* unlock; the first reader finds no other section; while anybody may read, the
\* readers hold readAndWriteMutex, and otherwise a writer does.
Holding == {"countIn", "lockAsFirst", "enter", "countOut", "leave"}
HolderInside == \A t \in Threads : pc[t] \in Holding => readMutex = t
FirstIsAlone == \A t \in Threads : pc[t] = "lockAsFirst" =>
                                    readers = 1 /\ \A u \in Threads : depth[u] = 0
ReadersHoldIt == \A t \in Threads : reading[t] > 0 => readAndWriteMutex /\ writing = {}
WriterHoldsIt == \A t \in writing : readAndWriteMutex /\ writing = {t}
Balanced ==
  \A t \in Threads :
    /\ pc[t] \in {"lockToLeave", "countOut"} => depth[t] > 0
    /\ pc[t] \in {"lockToEnter", "countIn", "lockAsFirst", "enter"} => depth[t] < MaxNesting

\* Everything that must hold together for the lock to exclude: the inductive
\* invariant behind Exclusion and ReadersCounted.
LockInv == /\ TypeOK /\ HolderInside /\ FirstIsAlone /\ ReadersHoldIt
           /\ WriterHoldsIt /\ Balanced /\ ReadersCounted

\* The lock implements the promise of SharedAccess.
SA == INSTANCE SharedAccess
ImplementsSharedAccess == SA!Spec

Waiting(t) == pc[t] \in {"lockToEnter", "lockAsFirst", "lockToLeave", "lockToWrite"}
Granted(t) == Enter(t) \/ Leave(t) \/ WriterLock(t)

\* As long as some thread wants a section or wants out of one, calls keep
\* returning: the two mutexes, taken in the order readMutex, readAndWriteMutex
\* by one thread and released by another, do not deadlock. Nothing is promised
\* to one thread: readers that follow on each other starve a writer.
CallsKeepReturning ==
  ([]<>\E t \in Threads : Waiting(t))
     => []<><<\E t \in Threads : Granted(t)>>_vars
=============================================================================
