------------------------------ MODULE BackupFile ------------------------------
(***************************************************************************)
(* backup_table.txt: saveBackup by the server loop, after it inserts a row,*)
(* and by the session threads, after a FOLLOW, with no lock between them;  *)
(* loadBackup when the server starts again after a crash at any moment.    *)
(*                                                                         *)
(* A stream holds back what is written until its buffer is full or the     *)
(* file is closed. A block ends between two insertions, so that no name is *)
(* cut: libstdc++ writes out a full buffer together with the insertion     *)
(* that does not fit. Names are numbers in the order of the map, and hold  *)
(* no separator. What two streams that overlap leave in the file depends   *)
(* on the length of each name and is not followed: such a file is "mixed", *)
(* and may load as anything, or not at all.                                *)
(***************************************************************************)
EXTENDS Integers, Sequences, FiniteSets, SequencesExt

CONSTANTS
  Profiles,    \* the names, numbers in their order
  Known,       \* the profiles in the file at first
  Loop,        \* the server loop, a number that is no profile
  BufferSize,  \* the insertions that fill the buffer of a stream
  MaxFollows,  \* bound: the FOLLOWs
  MaxCrashes   \* bound: the crashes

Slash == -1
Comma == -2
Newline == -3

ASSUME BackupFileAssumption ==
  /\ Profiles \subseteq Nat /\ IsFiniteSet(Profiles) /\ Known \subseteq Profiles
  /\ Loop \in Nat \ Profiles
  /\ BufferSize \in Nat \ {0} /\ MaxFollows \in Nat /\ MaxCrashes \in Nat

VARIABLES
  masterTable,  \* the followers of each profile that has a row
  connected,    \* the profiles whose session thread runs
  connecting,   \* the profile that the loop is inserting, or Loop
  saver,        \* each thread's call of saveBackup
  text,         \* what the file holds
  mixed,        \* whether two streams have written to it since it was last truncated alone
  missed,       \* whether a save could not open it since
  running, follows, crashes

vars == <<masterTable, connected, connecting, saver, text, mixed, missed, running, follows, crashes>>

Threads == Profiles \cup {Loop}
Idle == [pc |-> "rest", buffer |-> <<>>, last |-> -1]

-----------------------------------------------------------------------------
(* The text of a row, and what loadBackup reads.                            *)

\* The name, a slash, each follower with a comma behind it, a newline.
RowText(u, followers) ==
  LET size == 2 * Cardinality(followers) + 3
  IN  [i \in 1 .. size |->
         IF i = 1 THEN u
         ELSE IF i = 2 THEN Slash
         ELSE IF i = size THEN Newline
         ELSE IF i % 2 = 1 THEN SetToSeq(followers)[(i - 1) \div 2]
         ELSE Comma]

LineStarts(t) == {i \in DOMAIN t : i = 1 \/ t[i - 1] = Newline}

\* strtok_r of an empty line gives a null pointer, and the string of it throws.
Throws(t) == \E i \in LineStarts(t) : t[i] = Newline

\* Mutant: the lines are not told apart.
FollowersInAll(t, i) == {t[j] : j \in {j \in i + 1 .. Len(t) : t[j] \in Profiles}} \ {t[i]}

\* Mutant: the commas are not told from the names.
FollowersInCommas(t, i) ==
  {t[j] : j \in {j \in i + 2 .. Len(t) : \A k \in i .. j : t[k] # Newline}} \ {t[i]}

FollowersIn(t, i) ==
  {t[j] : j \in {j \in i + 1 .. Len(t) : t[j] \in Profiles /\ \A k \in i .. j : t[k] # Newline}}
    \ {t[i]}

\* insert keeps the first row of a name.
Load(t) ==
  [u \in {t[i] : i \in LineStarts(t)} |->
     LET first == CHOOSE i \in LineStarts(t) :
                    t[i] = u /\ \A j \in LineStarts(t) : t[j] = u => i <= j
     IN  FollowersIn(t, first)]

\* The file at first: a row without followers for each name.
KnownRows ==
  [i \in 1 .. 3 * Cardinality(Known) |->
     CASE i % 3 = 1 -> SetToSeq(Known)[(i + 2) \div 3]
       [] i % 3 = 2 -> Slash
       [] OTHER -> Newline]

Init ==
  /\ masterTable = [u \in Known |-> {}]
  /\ connected = {} /\ connecting = Loop
  /\ saver = [t \in Threads |-> Idle]
  /\ text = KnownRows /\ mixed = FALSE /\ missed = FALSE
  /\ running = TRUE /\ follows = 0 /\ crashes = 0

-----------------------------------------------------------------------------
(* Who saves.                                                               *)

Step(t, pc) == saver' = [saver EXCEPT ![t].pc = pc]
fileVars == <<text, mixed, missed, running, crashes>>

\* A profile that has a row is not saved again.
ReceiveConnect(u) ==
  /\ running /\ saver[Loop].pc = "rest"
  /\ u \in Profiles \ connected
  /\ IF u \in DOMAIN masterTable
     THEN connected' = connected \cup {u} /\ UNCHANGED <<connecting, saver>>
     ELSE connecting' = u /\ Step(Loop, "insert") /\ UNCHANGED connected
  /\ UNCHANGED <<masterTable, follows, fileVars>>

InsertRow ==
  /\ running /\ saver[Loop].pc = "insert"
  /\ masterTable' = [u \in DOMAIN masterTable \cup {connecting} |->
                       IF u = connecting THEN {} ELSE masterTable[u]]
  /\ Step(Loop, "open")
  /\ UNCHANGED <<connected, connecting, follows, fileVars>>

\* A FOLLOW of a profile that is followed already saves as well.
Follow(u, new) ==
  /\ running /\ u \in connected /\ saver[u].pc = "rest"
  /\ new \in DOMAIN masterTable \ {u}
  /\ follows < MaxFollows /\ follows' = follows + 1
  /\ masterTable' = [masterTable EXCEPT ![new] = @ \cup {u}]
  /\ Step(u, "open")
  /\ UNCHANGED <<connected, connecting, fileVars>>

-----------------------------------------------------------------------------
(* saveBackup.                                                              *)

tableVars == <<masterTable, running, follows, crashes>>
Open(t) == saver[t].pc = "walk"

Returns(t) ==
  /\ saver' = [saver EXCEPT ![t] = Idle]
  /\ connected' = connected \cup (IF t = Loop THEN {connecting} ELSE {})
  /\ connecting' = IF t = Loop THEN Loop ELSE connecting

\* Mutant: the file is not truncated.
OpenFileAppending(t) ==
  /\ saver[t].pc = "open"
  /\ Step(t, "walk")
  /\ mixed' = \E other \in Threads : Open(other)
  /\ missed' = FALSE
  /\ UNCHANGED <<tableVars, connected, connecting, text>>

OpenFile(t) ==
  /\ saver[t].pc = "open"
  /\ Step(t, "walk")
  /\ text' = <<>>
  /\ mixed' = \E other \in Threads : Open(other)
  /\ missed' = (missed /\ mixed')
  /\ UNCHANGED <<tableVars, connected, connecting>>

OpenFails(t) ==
  /\ saver[t].pc = "open"
  /\ missed' = TRUE
  /\ Returns(t)
  /\ UNCHANGED <<tableVars, text, mixed>>

\* The iterator goes to the next row, or, while the loop is in the midst of an
\* insert, to any later one.
NextRows(t) ==
  LET later == {u \in DOMAIN masterTable : u > saver[t].last}
  IN  IF saver[Loop].pc = "insert" THEN later
      ELSE {u \in later : \A v \in later : u <= v}

WriteRow(t) ==
  /\ saver[t].pc = "walk" /\ Len(saver[t].buffer) < BufferSize
  /\ \E u \in NextRows(t) :
       saver' = [saver EXCEPT ![t].buffer = @ \o RowText(u, masterTable[u]), ![t].last = u]
  /\ UNCHANGED <<tableVars, connected, connecting, text, mixed, missed>>

\* Each stream writes where it left off, which is the end of the file when it
\* has it for itself.
Put(block) == text' = IF mixed THEN <<>> ELSE text \o block

WriteBlock(t) ==
  /\ saver[t].pc = "walk" /\ Len(saver[t].buffer) >= BufferSize
  /\ Put(SubSeq(saver[t].buffer, 1, BufferSize))
  /\ saver' = [saver EXCEPT ![t].buffer = SubSeq(@, BufferSize + 1, Len(@))]
  /\ UNCHANGED <<tableVars, connected, connecting, mixed, missed>>

CloseFile(t) ==
  /\ saver[t].pc = "walk" /\ Len(saver[t].buffer) < BufferSize
  /\ NextRows(t) = {} \/ saver[Loop].pc = "insert"
  /\ Put(saver[t].buffer)
  /\ Returns(t)
  /\ UNCHANGED <<tableVars, mixed, missed>>

-----------------------------------------------------------------------------
(* The crash of the process, and its next start.                            *)

\* What a mixed file may load as: any rows, of which none follows itself.
Tables ==
  {table \in UNION {[rows -> SUBSET Profiles] : rows \in SUBSET Profiles} :
     \A u \in DOMAIN table : u \notin table[u]}

Crash ==
  /\ running /\ crashes < MaxCrashes
  /\ crashes' = crashes + 1
  /\ connected' = {} /\ connecting' = Loop
  /\ saver' = [t \in Threads |-> Idle]
  /\ IF mixed THEN \/ masterTable' \in Tables /\ running' = TRUE
                   \/ masterTable' = <<>> /\ running' = FALSE
              ELSE /\ masterTable' = Load(text)
                   /\ running' = ~Throws(text)
  /\ UNCHANGED <<text, mixed, missed, follows>>

Next ==
  \/ InsertRow \/ Crash
  \/ \E u \in Profiles : ReceiveConnect(u) \/ \E new \in Profiles : Follow(u, new)
  \/ \E t \in Threads :
       OpenFile(t) \/ OpenFails(t) \/ WriteRow(t) \/ WriteBlock(t) \/ CloseFile(t)

Spec == Init /\ [][Next]_vars

-----------------------------------------------------------------------------
(* Properties.                                                              *)

\* Every variable has its type.
TypeOK ==
  /\ masterTable \in Tables
  /\ connected \subseteq DOMAIN masterTable /\ connecting \in Threads
  /\ saver \in [Threads -> [pc : {"rest", "insert", "open", "walk"},
                            buffer : Seq(Profiles \cup {Slash, Comma, Newline}),
                            last : Profiles \cup {-1}]]
  /\ text \in Seq(Profiles \cup {Slash, Comma, Newline})
  /\ {mixed, missed, running} \subseteq BOOLEAN /\ follows \in 0 .. MaxFollows /\ crashes \in 0 .. MaxCrashes

\* When no thread saves or is about to, the file loads as the table, whatever
\* the threads changed while others walked it: every change is followed by a
\* save of its own. It takes a save that overlapped with none and found the file
\* to be opened.
SavedWhenQuiet ==
  running /\ ~mixed /\ ~missed /\ (\A t \in Threads : saver[t].pc = "rest") =>
    ~Throws(text) /\ Load(text) = masterTable

\* At whatever moment the server crashes, unless two saves overlap, it starts
\* again, and knows no profile and no follower that it did not know before. It may
\* have lost the row of a follower that it still lists (Backups in Sessions).
RestoresOnlyWhatWas ==
  running /\ ~mixed =>
    /\ ~Throws(text)
    /\ DOMAIN Load(text) \subseteq DOMAIN masterTable
    /\ \A u \in DOMAIN Load(text) : Load(text)[u] \subseteq masterTable[u]
=============================================================================
