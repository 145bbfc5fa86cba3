# A verification development for twitter-notification

TLA+ specifications of the servers, the client and the wire format of twitter-notification, TLC
configurations that check them on small instances, and TLAPS proofs for every value of their constants. Sources are named by their path
in the repository; `server.cpp` is `src/server/src/server/server.cpp`, `clientSocket.cpp` is
`src/server/src/clientSocket/clientSocket.cpp`, `tableRow.cpp` is `src/server/src/table/tableRow.cpp`, `client.cpp` is `src/client/src/client/client.cpp`, `command.cpp` is
`src/shared/src/command/command.cpp`.

1. [The system](#1-the-system)
2. [Modules](#2-modules)
3. [Runs](#3-runs)
4. [Theorems](#4-theorems)
5. [What the models showed about the code](#5-what-the-models-showed-about-the-code)
6. [Abstractions and limits](#6-abstractions-and-limits)
7. [Not modelled](#7-not-modelled)

## 1. The system

Clients follow profiles and send messages over UDP; a message becomes a notification to each follower. One server
is primary and serves the clients. The others are backups: they are told what the primary does, and
elect the next primary when it stops answering.

| Component | State | Operations |
|---|---|---|
| Readers-writer lock (`server.cpp` 21-27, 109-123) | `readMutex`, `readAndWriteMutex`, `readers` | `sharedReaderLock`, `sharedReaderUnlock`; writers lock `readAndWriteMutex` directly |
| Sessions and notifications (`server.cpp` 459-516, 783-804; `clientSocket.cpp`; `tableRow.cpp`) | `masterTable`: for each profile its sessions, followers, unread notifications and a delivered mark; `nextClientPort`; the locals of each session thread | CONNECT on the server loop; FOLLOW, SEND, EXIT, NOOP and the delivery of notifications on a thread per session |
| Backup registration (`server.cpp` 153-217, 527-586) | `backupServers` | ALIVE from a new backup, BACKUP to and about the others |
| Election and failover (`server.cpp` 239-447, 587-632) | `isPrimary`, `electionStarted`, `backupServers`, the socket | TIC/TOC, ELECTION/ANSWER, COORDINATOR, `changePort`, the change from `backupLoop` to `primaryLoop` |
| Replication (`server.cpp` 633-834, 243-255) | the `masterTable` of a backup | REPLICATE_CONNECT, _DISCONNECT, _FOLLOW, _SEND, and the sessions a new primary opens again |
| Backup file (`server.cpp` 31-107) | `backup_table.txt` | `saveBackup`, `loadBackup` |
| Command codec (`src/shared/src/command/command.cpp`) | none | text of a command, and back |
| Connection (`src/shared/src/connection/connection.cpp`) | a UDP socket with a 100 ms receive timeout | send, and listen once |
| Client (`src/client/src/client/client.cpp`) | two queues, the connection, `running` | an interface thread and a server thread |
| Terminal interface, entry points | none that another part reads | drawing, keyboard, arguments |

**How they interact.** The server loop and every session thread share `masterTable` under the
readers-writer lock, taken anew for each `TableRow` method. The server loop starts a session thread and
answers REDIRECT with its port; from then on the client talks to that port. Session threads and the
loop write the backup file and send REPLICATE datagrams without waiting for an answer. The loop of a
backup and its detached election thread share `backupServers`, `electionStarted`, `isPrimary` and the
socket with no lock at all. Servers talk to each other by datagrams whose answer is awaited for 100 ms.

**What is hard.** What one thread checked in one lock section another changes before the next
(CONNECT, FOLLOW, the delivery of a notification); a lock whose first and last reader are different
threads; a two-session protocol built on one shared mark; an answer that comes after its timeout is a
death that did not happen; elections of several servers at once; a port closed while others still ask
on it; a vector assigned by one thread while another walks it; a server that dies in the middle of any
of it. `PROJECT.json` lists these hazards at their lines, with the properties that cover them.

**What makes each component correct.** The lock excludes writers, counts nested readers and keeps
granting. A profile never has more than two sessions, and every session that counts has a thread. A
follower is notified of each message once and in order; no order of requests makes it look for a row
that is not there; only a file that a crash cut off can. Backups know each other; at most one server is primary, it holds the port that
everybody knows, and after the first death of a server somebody takes that port. A backup that missed nothing agrees with
the primary, and as its successor serves every client under its own name on its own port. A save that no
other overlaps is what a restart loads, and a crash in the middle of it never brings up what was not there. A command
and the fields in it are received as they were sent. A client does the user's commands in their
order, shows every answer, and leaves nothing behind when the user exits.

## 2. Modules

| Module | What it is |
|---|---|
| `SharedAccess` | abstract: many readers or one writer |
| `ReadersWriterLock` | the lock, mutex operation by mutex operation; implements `SharedAccess` |
| `ReadersWriterLockProofs` | its theorems |
| `Mailbox` | abstract: what a profile is posted it is shown once, in order |
| `Sessions` | CONNECT and the session threads over `masterTable`; implements `Mailbox` for one session at a time |
| `SessionsProofs` | its theorems |
| `Election` | registration, TIC/TOC, elections and the change of port |
| `ElectionProofs` | its theorems: types, the one primary, and who has heard of whom |
| `Replication` | the tables of a primary and its backups, the REPLICATE datagrams, and failover as the clients see it |
| `ReplicationProofs` | its theorems on types and rows |
| `ReplicationAgreementProofs` | and those on what a backup that has missed nothing has in common with the primary |
| `BackupFile` | `saveBackup` by several threads, crashes, and `loadBackup` |
| `BackupFileProofs` | its theorems |
| `Wire` | the text of commands, and the fields of REPLICATE data |
| `WireProofs` | its theorems |
| `Client` | the two threads of the client, its queues, and the session it talks to |
| `ClientProofs` | its theorems |
| `MC...` | the instances for TLC; `MCClient` puts `Client` and `Wire` side by side |

`Sessions` is one server in detail, down to the lock sections; `Replication` is several servers with each
operation on a table in one step; `Election` is who owns the port and knows nothing of tables. What one takes for granted
another models: the lock of `ReadersWriterLock` makes a `TableRow` method one step in `Sessions`, the
election of `Election` is the step `TakePort` of `Replication`, the session of `Sessions` is the
server of `Client`.

### ReadersWriterLock

`pc[t]` is where thread `t` is in the code of the lock, `depth[t]` how many reader sections it is in.
Nesting is real: CONNECT (`server.cpp` 489-495) and FOLLOW (`clientSocket.cpp` 166-169) call a
`TableRow` getter, which takes the reader lock, inside a reader section of their own; no writer section
starts inside a reader section. Each mutex operation is an action, but the decrement and the unlock of
`sharedReaderUnlock`, between which `readMutex` is held and nobody else can look.
`readAndWriteMutex` is only locked or free: the first reader locks it and the last one unlocks it,
often another thread, and the Linux default mutex does not look at who unlocks.

### Sessions

A `TableRow` method is one step, since it runs under the lock above; between two methods anything may
happen. The exception is `popNotification`, which changes the list under the *readers'* half of the
lock: it is two steps, during which writers wait and other readers do not. `Crash` is what
undefined behaviour may do: `front()` or `pop_front()` of a list that is empty or that another
session is popping may end the process, or may read garbage and go on. So may a `find` without a lock (`clientSocket.cpp` 211, 242)
beside the insert of a row (`MeetsInsert`), and the row of a follower that has none: where the process survives it,
`MissFollower` goes on to the next follower.

`loop` is the program counter of the server loop in CONNECT, `thread[p]` that of the session on port
`p` with its locals. A notification is its number in the order of posting to the profile. `posted` and
`lastSent` are history variables for the properties. `saveBackup` and the REPLICATE calls are steps
that take their time and change nothing here. Initially the server has loaded any of the tables in
`Backups`: a whole file, or one that a crash cut off in the midst of a save, in which followers are listed whose own line is lost.
`loadBackup` drops who follows itself and checks nothing else.

| Action | Code |
|---|---|
| `ReceiveConnect`, `InsertRow`, `SaveNewRow`, `CountSessions`, `StartSession` | CONNECT, `createClientSocket` |
| `Poll`, `Timeout`, `ReceiveNoop`, `ReceiveExit`, `CloseSession` | `ClientSocket::run` |
| `ReceiveFollow`, `HasFollower`, `AddFollower`, `SaveFollower`, `NotifySelf` | FOLLOW; its outcome is a notification to oneself |
| `ReceiveSend`, `NotifyFollower`, `MissFollower` | SEND: copy the followers, then find and notify each |
| `Listen`, `CountOne`, `CountTwo`, `GetNotificationDelivered`, `MarkDelivered`, `GetNotification`, `PopNotification`, `PopFront`, `ResetDelivered` | `listenToNotifications`, lock section by lock section |

### Election

A server is a process, named by its pid, with a loop thread and, once an election has started, detached
election threads. `server[s]` holds where the loop is, `isPrimary`, `electionStarted` and `backupServers`;
`election[s][e]` an election thread with its walk over the vector; `primaryPort` who has bound the port
of the primary; `inbox[s]` the unread datagrams of its socket; `answers[s]` those of its
`primaryConnection`.

| Action | Code |
|---|---|
| `Register`, `HearOfBackup`, `HearNoMore` | the constructor of a backup |
| `SendTic`, `HearToc`, `HearNoToc`, `LeaveBackupLoop` | `backupLoop`, `serverLoop` |
| `LeaveOldPort` | the loop returns from `recvfrom` of the socket `changePort` closed |
| `ReceiveAlive`, `ReceiveBackup`, `ReceiveTic`, `ReceiveElection`, `ReceiveCoordinator` | the cases of `Server::execute` |
| `BeginElection`, `SkipSmaller`, `AskGreater`, `HearAnswer`, `HearNoAnswer`, `BecomeCoordinator` | the first half of `electionLoop` |
| `ChangePort`, `BindFails` | `changePort`; a bind that fails throws on a detached thread and ends the process |
| `Announce`, `HearReply`, `AnnounceAgain`, `BecomePrimary` | the second half of `electionLoop` |
| `DieOfTornWalk` | under the walk the loop appended to the vector (ALIVE, BACKUP) or assigned it (COORDINATOR); reading a destroyed entry may end the process |
| `Crash` | the process is killed |

A timeout of 100 ms cannot be told from a late answer. With `Late` FALSE a reader gives up only when
its request is in no inbox any more and nothing has come; with `Late` TRUE it may give up at any time.

### Replication

`masterTable[s]` and `nextClientPort[s]` are those of server `s`; `loop` and `thread[p]` the loop and the session
threads of whoever holds the port; `inbox[b]` the unread datagrams of a backup. An operation changes the table of
the primary in one step and then tells the backups one datagram at a time, so that other threads tell
theirs in between and a crash may leave one backup told and the next not. The order is that of the
code: CONNECT inserts the row, tells, and only then opens the session; FOLLOW and SEND change the table and
then tell; EXIT tells and then closes. At first the servers that are registered have loaded the same one of `Files`, which may
be cut off in front of the line of a follower; a server that joins later loads any rows that a save had written by then.
`kept` is a history variable, the messages that were sent to a profile since it was last offline and before its next CONNECT came. `upToDate` is a history variable, the servers
that missed nothing: out of it go those who die, those who were still to be told when the primary died, a successor
with unread datagrams in the socket that `changePort` closes, and everybody once a
server serves a CONNECT that is not primary yet (section 5). A server that joined late was never in it.

| Action | Code |
|---|---|
| `ReceiveConnect`, `TellConnect`, `StartSession` | CONNECT, `createClientSocket` |
| `Follow`, `Send`, `Exit`, `TellNext`, `CloseSession`, `Show` | the session threads and `replicateFollow`, `replicateSend`, `replicateDisconnect` |
| `ReplicateConnect`, `ReplicateDisconnect`, `ReplicateFollow`, `ReplicateSend` | the cases of `Server::execute` at a backup |
| `NoRow`, `SendBlindly`, `Dies` | `find(...)->second` where there is no row, of the sender or of a follower: the process dies, or goes on without it |
| `Crash`, `BindFails` | the primary is killed, or ends by an exception in `ClientSocket::ClientSocket` |
| `TakePort`, `BecomePrimary` | `changePort`, and the end of `backupLoop`; in between the server answers clients with `isPrimary` FALSE |
| `ReopenUser`, `ReopenSession`, `EnterPrimaryLoop` | `serverLoop`, which opens the sessions of the table again |
| `Join` | a backup that starts, or starts again, when sessions are open already |

### BackupFile

`saver[t]` is where thread `t` is in `saveBackup`, with the buffer of its stream and the last row it wrote.
`OpenFile` truncates; `WriteRow` puts a row into the buffer, `WriteBlock` a full buffer into the file, `CloseFile` the
rest. No lock is held, so rows are inserted (`InsertRow`) and followers added (`Follow`) under the walk; while the map
itself is being changed the walk may go to any later row, or to its end. `OpenFails` is the stream that does not open, after which
nothing is written. `Crash` ends the process at any moment and starts it again with `Load(text)`.

| Action | Code |
|---|---|
| `ReceiveConnect`, `InsertRow`, `Follow` | what calls `saveBackup`: a new profile, and a FOLLOW |
| `OpenFile`, `OpenFails`, `WriteRow`, `WriteBlock`, `CloseFile` | `saveBackup` (`server.cpp` 31-58) and `std::ofstream` |
| `Load`, `FollowersIn`, `Throws`, `Crash` | `loadBackup` (`server.cpp` 60-107) |

### Wire

A text is a sequence of symbols: the word of a type, one of the separators that some parser looks for, or `x` for anything
that none looks for. `Encode` and `Parse` are `Command`; `Find`, `Before` and `After` are `find` and `substr` with the values
they have when nothing is found; `Data` and `Fields` are what the primary puts into a REPLICATE datagram and a
backup takes out. `DatagramSpec` is the life of one datagram: `datagram` is one command of any type with any fields, before and after it is sent.

### Client

`ui` and `srv` are the two threads, `commands` and `responses` the queues between them, `toServer` and `toClient`
the datagrams under way, `session` what the server keeps for this client. Lines are numbered as they are entered and answers
as they are sent; a message of the client's own has the number 0. The queues are plain
`std::queue`s: a push or pop is one step, and `Collide` is what may come of two at the same time: one of two
pushes lost, or the process dead. A line of the user is one of the kinds that the code tells apart, `bare`
among them (a `follow` or `send` with nothing behind it), which passes the check and throws in the other thread.

| Action | Code |
|---|---|
| `EnterLine`, `PushCommand`, `PushInvalid`, `ShowResponse`, `StopUI` | `handleUI`, `processCommand` |
| `StartConnecting`, `SendConnect`, `ReceiveAnswer`, `GiveUp`, `Redirect`, `Refused`, `Leave` | `connectToServer` |
| `SendNoop`, `SendFollow`, `SendSend`, `RefuseLong`, `SendExit`, `ThrowBare`, `NoCommand`, `Listen`, `ListenTimesOut`, `PushResponse` | `handleServer` |
| `AnswerConnect`, `AnswerSession`, `Notify` | the server, as this client sees it |

### Conventions

An operator commented *Mutant* is a plausible mistake in the action below it. It takes no part
in any behaviour: `PROJECT.json` names the property that fails when it replaces the action.
Variables and constants that only bound a behaviour are marked *bound* where they are declared.

## 3. Runs

Each is `tlc -config <run>.cfg <module>`.

| Run | States | What is checked | Bounds |
|---|---|---|---|
| `locks` (MCReadersWriterLock) | 2,156 | `TypeOK`, `Exclusion`, `ReadersCounted`, `LockInv`, `ImplementsSharedAccess`, `CallsKeepReturning` | 3 threads, nesting 2 |
| `one_profile` (MCSessions) | 75,510 | `SessionCap`, `SessionsMatchThreads`, `SessionInv`, `InOrder`, `InboxDrains` | 1 profile, 3 sessions in a behaviour, 3 asked for at once, 2 posts |
| `two_profiles` (MCSessions) | 2,273,669 | `TypeOK`, `FewDuplicates`, `OnlyTheFileLosesRows`, `ImplementsMailbox` | 2 profiles, one with 2 sessions at once and the other with 1, 1 post; restarted from a whole file in which one follows the other, or from one cut off behind the first line |
| `failover` (MCElection) | 165,856 | `Acquainted`, `HighestWins`, `PortServed` | a primary, 2 backups, one that joins; prompt replies, 1 crash, 2 elections each |
| `late_replies` (MCElection) | 76,341 | `TypeOK`, `OnePrimary`, `CoordinatorForgotten` | a primary and 2 that join; late replies, 2 crashes, 2 elections each |
| `replication` (MCReplication) | 2,330,822 | `TypeOK`, `InStep`, `ClientsServed`, `KnownRows`, `OfflineKept`, `UpToDatePortsFree` | 2 profiles, in the file both, one a follower of the other, with 2 backups or one that joins; or the one, its follower's line cut off, with 1 backup or one that joins; 2 sessions, 1 FOLLOW, 1 SEND, 1 unread datagram, 1 crash |
| `backup_file` (MCBackupFile) | 949,701 | `TypeOK`, `SavedWhenQuiet`, `RestoresOnlyWhatWas` | 3 profiles, one in the file; 3 FOLLOWs, a buffer of 6 insertions, 1 crash |
| `client` (MCClient) | 148,468 | `TypeOK`, `CommandsInOrder`, `AnswersKept`, `CommandsRoundTrip`, `FieldsRoundTrip`, `ExitEnds`, `SessionCloses` | 2 lines, 2 notifications; fields of 2 symbols |
| `duplicate_follow`, `empty_read` (MCSessions), `bind` (MCElection), `reopen` (MCReplication) | | counterexamples, section 5 | |

**Why the bounds are enough.** Three threads are the least in which the first and the last reader are
different threads and a third one writes; two is the depth to which the code nests. The cap is
two sessions, so three requests at once make it refuse, and then grant again
after an EXIT. A list is contended by two sessions of its profile, the most there are; two posts are
the least at which popping the wrong one shows, and the mark of one notification can outlive it. In
`duplicate_follow` and `two_profiles` two sessions of one profile race on one other profile. In an
election the interesting number is two backups that both find out, plus one that comes in between.
`MaxInbox` bounds only how often TIC and COORDINATOR are repeated while nobody reads. A step that
needs an election beyond `MaxElections` is not taken; in `failover` two are enough for every step
that wants one, so the bound cuts nothing off, while in `late_replies` and `bind` it ends behaviours that could go on.

In `replication` two ports give a profile both its sessions, or each profile one, before and after a failover; one
FOLLOW and one SEND are what a message for an offline follower takes; two backups are the least of which one is told and
the other not. A follower that is in the file and connects needs no FOLLOW, which leaves a SEND free to race its CONNECT; with the
file that is cut off that CONNECT is the one that brings back the follower's row, and one backup is enough for the `end()` it may meet before (`MCInit`); two were checked
as well (2,636,250 states more). With
`MaxInbox` 1 a sender waits until the backup has read; room for two unread datagrams, a third port and one backup was
checked as well and changes nothing. In `backup_file` a row with two followers is seven insertions, so that a buffer of
six ends inside it, and three profiles make a row before, at and after the one that is inserted. In
`client` two lines are the least that can be swapped, or of which one follows an EXIT; two notifications the
least that can be shown in the wrong order. Two symbols in a field are enough for every separator at its start, in its
middle and at its end, alone and twice.

`CHECK_DEADLOCK FALSE` appears only where the system really stops. In Election it stops when all servers are dead, at the
bound on elections, or when each loop that is left only polls its socket, which is no step of the model: a backup whose
`electionStarted` stays true sends no TIC. In Replication it stops when the last server is dead, in BackupFile
when a mixed file keeps the server from starting, in Client when both threads have ended.

**Fairness.** Weak fairness of each thread (`LockStep(t)`, `ServerLoop`, `ThreadStep(p)`,
`LoopStep(s)`, `ElectionStep(s, e)`, `UIStep`, `ConnectStep \/ ServeStep`, `ServerStep`): the threads are threads of the operating system, which runs
whoever is ready. It is claimed of what a thread does by itself, never of a client's datagram, of a
call for the lock, of registration, of what a user types, of the timer of the NOOP or of a crash. A mutex that is free goes to one of those who wait, and to
no particular one: `CallsKeepReturning` promises a return to somebody, since readers that follow on each
other can starve a writer.

**Reading the less obvious properties.**

- `ReadersCounted`: `readers` is the number of reader *sections*, not of threads; a nested
  section that counted once would release the writers' mutex under its reader.
- `SessionCap` with `SessionsMatchThreads`: CONNECT reads the count in one section and adds the session
  in another. Only the server loop adds, so the count can only fall in between.
- `FewDuplicates`: a follower may be listed twice (section 5), and no more often, since each
  FOLLOW that begins later finds it.
- `OnlyTheFileLosesRows`: FOLLOW looks a profile up in one lock section and adds a follower to it in another, and SEND works on a copy of the list,
  while other sessions end and new profiles come. None of it makes a follower without a row. That there is none is not claimed: the file may bring one (section 5), until
  that follower connects.
- `InOrder`, `InboxDrains`: whatever two sessions do to the shared mark, neither is sent a
  notification older than its last one, and a notification is popped as long as a session that
  has sent a NOOP stays. That *each* of two sessions sees each notification is not true and not claimed.
- `ImplementsMailbox`: with one session of a profile at a time each notification is shown once, in order.
- `Acquainted`: of two backups that have registered with the first primary, and are back from the constructor, each knows the other or has the
  BACKUP datagram in its socket, also while it waits for a TOC; and no backup has itself in its list.
- `HighestWins`: with prompt replies, who is about to take a free port has a greater pid than every living
  server its walk found, whoever dies in the meantime. A walk that the loop has torn is exempt: it may skip an entry.
- `PortServed`: a port freed by the first death of a server is bound again while one lives, with prompt replies. It says
  nothing of `isPrimary`, nor of a second death: see section 5. A second death need not be a crash: the ALIVE of a newcomer may grow the vector that the
  coordinator is walking. In `failover` the backup that joins has the greatest pid, as
  the process started last has on Linux until pids wrap; with a smaller one, its BACKUP
  datagram may tear the walk of the only server that is electing, and that process may die of it.
- `InStep`: agreement is stated of moments when nobody is telling anybody anything. In between a backup may be ahead (EXIT) or
  behind (FOLLOW). The *number* of sessions matters as well as the set: a backup counts for itself, and
  DISCONNECT and CONNECT of two threads reach it in either order. Followers are compared for the profiles that
  were there from the start: those of a profile that connects later are not, since FOLLOW
  of one that has just been inserted may reach a backup before its CONNECT does.
- `ClientsServed`: a client does not learn of a failover. It goes on with its port, so the new primary must have a
  session there, and its own, not that of another who was given the same number.
- `KnownRows`: speaks of the profile whose request a datagram is, which a backup looks up without a check. Its followers may have no row, at a backup as at
  the primary.
- `OfflineKept`: `ReplicateSend` keeps a message for those who have no session *at the backup*, while SEND at the primary posts it
  to everybody; the two must agree on who is offline. They do not while a session is being opened: a backup that was told of the
CONNECT counts a session that the primary does not have yet (section 5), so that `kept` ends with the CONNECT and not with the session.
- `SavedWhenQuiet`: a walk may miss a row or a follower that is added beneath it, but whoever added it saves
  afterwards. `mixed` and `missed` say that the last saves overlapped or that the file did not open.
- `RestoresOnlyWhatWas`: rows may be lost in a crash, since the file is truncated first. None may appear. The followers of those that are left may be among the lost:
  that is where the cut files of Sessions and Replication come from.
- `CommandsInOrder`: of a collision on `commands` the model has two outcomes, that it is harmless and that the process ends; an unlocked queue might also skip or repeat a command (section 6).
- `AnswersKept`: what was shown, what waits in the queue, what is being pushed and what is under way are together, in this order,
  what the server has sent: the numbers are those of `answers` up to the last, each once.
- `SessionCloses`: EXIT is the last command, and the thread that sends it stops right behind it; nothing else would ever close the session.

## 4. Theorems

`tlapm` checks every step of the proof modules. Constants are arbitrary within the named assumptions
`LockAssumption`, `SessionsAssumption`, `ElectionAssumption`, `ReplicationAssumption`, `BackupFileAssumption`, `WireAssumption` and
`ClientAssumption`, which TLC evaluates in the runs. That of `Replication` says that each server registers once, the primary with nobody. Of the files both it and
that of `Sessions` say what `loadBackup` sees to, that nobody follows itself, and no more: a follower need not have a line. `BackupsAssumption` says that the file that `Sessions` starts from lists nobody more
often than the limit: all of it or some was saved by a server that never did, and not by two saves at once, which may mix their lines (`mixed` of `BackupFile`). That of `BackupFile` says that there are finitely many profiles, so that a row
can be written: a `std::map` and a `std::list` hold no more.

| Theorem | Statement |
|---|---|
| `LockInvariant`, `LockTyped`, `LockExcludes`, `LockCountsReaders` | `Spec => []LockInv`, `[]TypeOK`, `[]Exclusion`, `[]ReadersCounted`, for any finite set of threads and any depth of nesting |
| `LockImplementsSharedAccess` | `Spec => ImplementsSharedAccess` |
| `SessionInvariant`, `SessionsTyped`, `SessionsCapped`, `SessionsAreThreads` | `Spec => []SessionInv`, `[]TypeOK`, `[]SessionCap`, `[]SessionsMatchThreads`, for any profiles, limit, tables loaded and ports |
| `RowsAreLostByTheFileOnly`, `DuplicatesAreFew` | `Spec => OnlyTheFileLosesRows`, `[]FewDuplicates`, the same |
| `SentInOrder`, `SessionsImplementMailbox` | `Spec => InOrder`, `ImplementsMailbox`, the same |
| `ElectionTyped`, `OnePrimaryEver`, `CoordinatorForgottenEver` | `Spec => []TypeOK`, `[]OnePrimary`, `[]CoordinatorForgotten` of `Election`, for any servers, crashes, late replies and elections |
| `GreatestWins`, `BackupsAcquainted` | `Spec => []HighestWins`, `[]Acquainted`, the same, if `~Late` |
| `ReplicationTypes`, `UpToDateKnowRows` | `Spec => []TypeOK`, `[]KnownRows` of `Replication`, for any servers, profiles, files (whole or cut off), limit, crashes, failovers and servers that join |
| `UpToDateInStep`, `UpToDateServes`, `UpToDatePorts`, `UpToDateKeeps` | `Spec => []InStep`, `[]ClientsServed`, `[]UpToDatePortsFree`, `[]OfflineKept`, the same |
| `BackupFileTypes`, `TheLastSaveHoldsTheTable`, `ACutFileIsSound` | `Spec => []TypeOK`, `[]SavedWhenQuiet`, `[]RestoresOnlyWhatWas` of `BackupFile`, for any profiles, size of the buffer, FOLLOWs and crashes |
| `ClientTypes`, `CommandsAreInOrder`, `AnswersAreKept` | `Spec => []TypeOK`, `[]CommandsInOrder`, `[]AnswersKept` of `Client`, for any numbers of lines and notifications |
| `CommandsAreReadBack`, `FieldsAreReadBack` | `DatagramSpec => []CommandsRoundTrip`, `[]FieldsRoundTrip`, for fields of any length |

**The lock.** `Exclusion` alone is not inductive. `LockInv` adds who may be where: only the holder of
`readMutex` is between its lock and its unlock; a thread that waits for `readAndWriteMutex` as the
first reader is the only section counted; while anybody may read, the mutex is locked and
nobody writes; and `readers` is the cardinality of the set of counted sections. The last is why a
decrement to zero means that nobody reads: `CountOut` removes one pair from that set, and an empty
set of pairs leaves every depth at zero.

**The sessions.** `SessionCap` needs that the loop still has a free place when it starts the session it
decided on (`LoopHoldsPlace`), which stands because nobody else adds one; that the new port belongs to no
thread (`PortsInOrder`); and that the row exists (`LoopHoldsRow`). Those, the type invariant and
`SessionsMatchThreads` make `SessionInv`, proved action by action: the lemmas named after the loop and the
threads each carry one conjunct through one group of actions.

**The followers.** `OnlyTheFileLosesRows` is `Rowless' \subseteq Rowless`, where `Rowless` covers the followers that SEND has copied and not yet
notified as well. No row is ever taken out of the table; what SEND copies is on a list; and whom FOLLOW adds to a list is the profile of a live
session, which has a row (`SessionsMatchThreads`), long after the lock section in which it was looked up. `FollowsAnother` says the same of the profile that is followed, and
that it is not one's own. For `FewDuplicates` the invariant counts, besides
the places of a name in a list, the threads that are past `hasFollower` and will add it (`Adders`). While the name is in the list nobody becomes one; while
it is not, they are threads of one profile, of which there are no more than the limit (`SessionCap`, `SessionsMatchThreads`). An `AddFollower`
makes one place more and one adder less.

**The notifications.** A list holds the numbers behind the last that was popped, without a gap (`Numbered`): `Popped` is the number posted
less the length. What a session reads is the head, or was the head when its `popFront` began, so that neither what it holds nor what it was sent last is
more than one ahead of `Popped` (`NothingAhead`), which never falls: that is `InOrder`, for any number of sessions that pop at once. `StepEffects` first
says what each action is to the notifications, and the proofs go by those eight cases. `ImplementsMailbox` needs that a profile whose users ask for one session
at a time has one live thread at most (`OneLive`), from the receipt of the CONNECT on. Such a thread counts one session,
so that it never takes the way of those that share a list (`Alone`), and nobody pops beneath it: what it holds is the head. What was shown last is then
`Popped`, or one less while what was popped is still to be sent (`Seen`). `PopFront` is a stutter of `Mailbox`, `ResetDelivered` is its `Show`, and an
`AddNotification` its `Post`. `OrderInv` and `MailInv` were checked with TLC on the instances of `one_profile` and `two_profiles` first.

**Replication: rows.** That a backup has a row for the sender of what it reads (`KnownRows`) is not inductive: the
datagram was sent from another server's table, by a thread whose CONNECT was told earlier, perhaps by
another primary. `Sound` says what carries it, of the servers in `upToDate`, which a backup leaves when it dies. A datagram in an inbox is of a profile that has a row there
or was told of earlier in the same inbox (`Closed`), which a read and a send preserve (`TailClosed`, `AppendClosed`).
A thread runs only for a profile of which everybody who missed nothing has *heard*, that is, has a row for
or will have one when its inbox is read (`HeardByAll`). And whatever one of those servers has heard of the others have heard of,
or are still to be told by the loop (`AllHear`): it is what makes a failover safe, since who was still to be
told when the primary died is not among them any more, so that the sessions which the successor opens again
are of profiles that the others know. `upToDate` is a history variable, and nobody returns to it (`NobodyCatchesUp`): the
theorem says nothing of a backup that starts late, for which the property is false.

**Replication: types.** `TypeOK` says that nobody counts more sessions of a profile than the limit. At the primary and at a backup each
CONNECT counts first; but the sessions that a successor opens again are each closed and added once more without a count, while clients come and go. What
holds is that the list of the row is, in some order, a part of the list that `serverLoop` copied (`Part`), with what is still to be opened
and what was opened since in disjoint places.

**Replication: agreement.** What counts of a backup is what it will have when it has read its inbox, and `Sess` says what that is. The
ports of the CONNECTs in there follow on each other from its own next port up to that of the primary (`Counted`), which is why
it may ignore the port it is told; and it will have the sessions of the primary, without those whose DISCONNECT it was
sent and with the one whose CONNECT it was (`Expected`). When the primary dies those who are still up to date were sent everything, so that all of
them will have the same (`Leaderless`), whoever becomes the successor. `ClientsServed` and `UpToDatePortsFree` follow, since a
primary has read everything. `FollowSound` says the same of followers, with the FOLLOWs that a thread is still to send; with `Sess` it
gives `InStep`. For `OfflineKept`, `KeptSound` says where a message is that a profile is to find: on the list; or in the inbox, before anything there
opens a session of the profile, so that the read will find it offline; or with a thread that is still to send it. It rests on
`Sess` for the profile having no session anywhere while it has none at the primary, and that is where the property was first false: see section 5.

**The backup file.** What the file holds and what the stream holds back are together (`Held`), unless two streams overlap, a sequence of whole
rows, each of a name of its own and none behind the row that the walk wrote last (`HeldSound`). A row of the table is read back as that row
(`RowRead`), and a row behind whole rows of smaller names disturbs none of them (`RowAdded`). The buffer only decides where `Held` is
cut, and the lines in front of a cut are lines of `Held`, of which the last may have lost followers (`CutOff`): so the file is
sound at every moment (`FileSound`), which is `RestoresOnlyWhatWas`. For `SavedWhenQuiet` the invariant speaks of the moments when nobody is about to
change the table or to save it (`Calm`), though some thread may still walk: the rows it has passed are those of the table as it is now, and all of them up to the
last (`HeldExact`). A change in the midst of a walk makes these moments end; they begin again when whoever made the change has truncated the file and walks itself. A walk
that ends at a calm moment has passed every row. That `FileInv` is an invariant TLC checked on the instance of `backup_file` first.

**The client.** Behind each other, what was sent, what waits in the queue and the line that is about to be pushed are all the
commands that were typed, by their numbers (`AllCommands`). A step moves a border or adds one at the end, and a collision on the
command queue, which can only be of a push and a pop, ends the process. `AnswersKept` is the same of the answers and is inductive
with the numbering. No induction over the queue is needed: that all numbers are there, in order, is a statement about places.

**The wire.** A text that was joined with a separator which its first part does not hold is cut again at the same place (`FindFirst`, by the least
place that has the separator). `Written` says that a datagram holds fields of its type and nothing but their text.

**The election.** `OnePrimary` is `isPrimary => primaryPort = s`. It needs `AnnouncerHasPort`: a thread that
announces does so since it took the port. The port changes hands only when it is free, when its
holder takes it again, or when its holder dies, and then its role and its threads die with it. The rest of
the invariant (`PortInv`) is that the records have their fields. Late replies, torn walks and duplicate
coordinators do not matter to it: binding the port is what keeps the primary unique.

**The election: who has heard of whom.** A server *hears* of another (`Hears`) if it has it in `backupServers`, if a BACKUP about it waits,
or if it is registering and the other is among the replies to its ALIVE. `Registration` says what all later arguments rest on: an
ALIVE waits once, at the holder of the port; who has not been added yet nobody has heard of, and it has heard of nobody; nobody hears of itself; a
COORDINATOR comes from the holder of the port or from the dead. `CoordinatorForgotten` then needs `Leading`, of the holder of the port:
no BACKUP about it can come behind its COORDINATOR in any inbox (`Behind`); each COORDINATOR that waits belongs to the place at which the thread that
sent it still is, or has ended (`Addressed`), so that a duplicate of an earlier announcement sets no later reply; whom the walk has passed, or
who has replied, does not hear of it any more (`AnnouncedTo`); and whoever the holder knows is on the walk of the
thread or does not hear of it. The last is what an ALIVE in the midst of the announcement could have broken; it does not, since the newcomer has heard
of nobody and is told only of those that the holder knows. Nor does the ALIVE change where the announcer is: it tears the walk, but what the holder of the
port walks over is the beginning of its vector (`Along`), to which ALIVE and BACKUP add at the end, so that whoever goes on reads the same entries (`OverlaidSame`).

`HighestWins` is proved from `Winning`: on a walk that is not torn whoever was passed is smaller, is dead, or took the port; and while the thread listens,
its ELECTION is unread, or answered, or its peer is dead or took the port. Here `~Late` is needed: a thread gives up only when its ELECTION is
in no inbox, and an ELECTION that was read has been answered.

`Acquainted` is proved from `Reign`: as long as the first primary lives and replies in time nobody starts an election (`Peace`), because a TIC waits at it or its
TOC has come (`Waits`); who has stopped listening for BACKUP has been added (`Enrolled`); and of two that were added each hears of the other (`Meets`). The theorem
is of the first primary only. After a failover it is false: ALIVEs that waited at the old primary are lost, and the newcomer knows nobody.

**Only model-checked.** Liveness under fairness (`CallsKeepReturning`, `InboxDrains`, `PortServed`, `ExitEnds`, `SessionCloses`):
the prover handles neither ENABLED nor fairness. Every other property of the passing runs is a theorem.

## 5. What the models showed about the code

- **A follower listed twice** (`duplicate_follow`). FOLLOW asks `hasFollower` in one lock section
  (`clientSocket.cpp` 166-169) and adds in another (172). Two sessions of a profile that follow
  at once both find it not yet following. From then on each message reaches it twice.
- **A read of an empty list** (`empty_read`). Two sessions find one notification; one pops it, the other
  calls `front()` or `pop_front()` of an empty `std::list`.
- **A coordinator that cannot bind** (`bind`). `changePort` closes the backup's own port before it has
  told anybody. The ELECTION of a smaller server, unread in it, is never answered; that server becomes
  coordinator as well, finds the port taken, and its process ends with an exception on a detached
  thread. It takes one crash and no late answer: the smaller server, which the greater would have
  ordered to stand back, is lost to the system.
- **A session opened twice** (`reopen`). From `changePort` on a new coordinator answers clients, still in `backupLoop`.
  When it becomes primary it opens every session of its table (`server.cpp` 243-255), also the one that a CONNECT
  has just been given: the port is taken by itself, and the server ends.

Seen in the same behaviours, and promised by no line of the code:

- A follower without a row. `saveBackup` truncates the file (`server.cpp` 38) and writes it block by block (45-56). If the process dies in between (`OpenFile`, `WriteRow`,
  `WriteBlock`, `Crash` of BackupFile), the file lists followers whose own line is lost, and `loadBackup` (83-97) takes them as they are. The next message of such a
  profile is for "todos segudores" (`clientSocket.cpp` 209), and `find(...)->second` is that of `end()` (211): undefined, and a likely end of the server. A backup that
  loaded the same file meets the same `end()` at `server.cpp` 769-771 when it is told. It is mended only when the follower connects. `two_profiles` and `replication` start from such a
  file and take these steps (`MissFollower`, `Crash`, `SendBlindly`, `ReplicateSend`).
- A second crash during a failover blocks it. If the server that answered ELECTION dies, those it answered keep
  `electionStarted` and never elect again. If a backup that the coordinator announces to is dead,
  the announcement is repeated for ever: the coordinator holds the port, in `backupLoop`, with `isPrimary` FALSE.
- A backup that starts while there is no primary registers with nobody, takes the port without being
  asked and announces itself to nobody. A greater server that was about to take the port dies at the
  bind, and those it had answered wait for its COORDINATOR for ever, with `electionStarted` true: they
  will not notice the next death either.
- An ELECTION that is read after the COORDINATOR starts one more election, at a server whose list no longer holds
  the coordinator: unless a greater backup answers it ends that server at the bind.
- With late replies elections start beside a living primary, and each kills the process of its coordinator
  at the bind.
- A message that is sent to an offline follower while its CONNECT is being told to the backups is in the list of the
  primary alone: a backup that has read the CONNECT counts the session and keeps nothing (`server.cpp` 771), though the session that is to
  show the message is opened only when all backups have been told. If the primary dies there the message is lost.
- A server that is about to be elected, or is elected and announces it, and gets an ALIVE, BACKUP or COORDINATOR reads its vector while the loop
  lets it grow or replaces it. If it dies of it behind `changePort`, the port is free again, and nobody may be left to take it: the newcomer
  whose ALIVE it was, asked meanwhile by a smaller backup that is electing too, has elected itself and died at the bind, and whoever it answered waits for its COORDINATOR.
- A late reply to ALIVE or to an old TIC passes for a TOC of a dead primary and puts the
  election off for a round.

## 6. Abstractions and limits

- Names and messages are model values; formatting, logging and drawing are left out.
- The handler of a request is one step, datagrams to all backups and the reply included: between them the code
  touches nothing that another thread of the process changes, but for the session threads, which send
  REPLICATE datagrams while the loop adds to `backupServers`. That race, of the vector under the walk of a session thread, is in none of the modules;
  under the walk of the election thread it is in Election.
- A walk over `backupServers` sees the new entries where there are some and the old ones past them, or ends the
  process: what a reallocation in mid-iteration gives in practice. It is not every outcome that undefined behaviour allows.
- In Sessions every datagram that is none of the commands is a `Timeout`. A text that does not parse makes `Command` throw (`command.cpp` 43, 103) on the session
  thread (`clientSocket.cpp` 95), which ends the server; clients of this repository send none, and it is not modelled.
- A `find` without a lock may run beside an insert. That is modelled of the two that a session repeats (`clientSocket.cpp` 211, 242), not of the one with which its thread
  begins (66); those of the server loop (`server.cpp` 464) are of the only thread that inserts.
- All servers run on one host: `primaryConnection` and the clients never look for the primary at another
  host (`server.cpp` 182, 621 is commented out), so elsewhere no election can restore the service. On one host a datagram to a
  bound port is not lost and datagrams to a port keep their order.
- A backup that starts again has another pid and would be another member of `Servers`; the
  entry it leaves behind acts as a dead server does.
- `nextClientPort` is a number; that `htons` wraps after 65535 is not modelled.
- In Sessions `execute` of the CONNECT of a new profile counts no sessions, as in the code; a table that was loaded
  has no sessions, since `loadBackup` restores none.
- In Replication the files of the servers are apart from their tables; with all servers in one directory
  the backups read and write the same `backup_table.txt` as the primary, which `Join` covers for reading.
  Messages are a set and followers are one, since order and duplicates are the matter of Sessions.
- Nothing is claimed in Replication of a server outside `upToDate`: one that joined late has no sessions and another next port, one
  that was not told has other rows. Their handlers, deaths and elections are modelled all the same.
- In BackupFile names hold no separator. What a file holds that two streams wrote to depends on the length of each name and is
  left open; nor does a follower's name appear cut in two, as it could not with libstdc++.
- In Client a push and a pop of the same `std::queue` at once is harmless or ends the process. They touch different ends of a deque, whose blocks
  a pop never moves; that a command is skipped or repeated, which undefined behaviour allows too, is left out.
- In Client no datagram is lost and the server lives; a failover is seen only in Replication. `GiveUp` may happen whenever no
  answer is there, since the limit is counted in processor time.
- In Wire a symbol is not a character: a word and a separator are indivisible, and two fields of two symbols stand for longer ones.

## 7. Not modelled

- The terminal interface (`src/client/src/ui/ui.cpp`): ncurses drawing and the keyboard. It keeps no state that another part reads but
  the line it returns, which `EnterLine` chooses.
- The entry points (`src/server/src/main.cpp`, `src/client/src/main.cpp`): arguments, and the construction of a `Server` or `Client`.
- A backup that registers a second time under another pid while its old entry is still in the vectors of the others. `Join` of
  Replication lets a server come back that is no longer listed.
- The wrap of ports after 65535, names that hold separators in the backup file, servers on several hosts.
- Of the hazards in `PROJECT.json`, those without a property carry the reason: mostly undefined behaviour after which nothing is
  promised, or a failure that the code knowingly leaves (a client that dies keeps its session; a second crash blocks a failover).
