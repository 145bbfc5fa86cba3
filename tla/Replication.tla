----------------------------- MODULE Replication ------------------------------
(***************************************************************************)
(* The tables of the servers: what the primary does for its clients, the   *)
(* REPLICATE datagrams by which it tells the backups, their handlers, and  *)
(* the sessions that a backup opens again when it becomes the primary.     *)
(*                                                                         *)
(* Who takes the port is the matter of Election, of which TakePort and     *)
(* BecomePrimary are what counts here: changePort closes the old socket    *)
(* with what is unread in it, and until isPrimary is set the new owner of  *)
(* the port answers clients from backupLoop. What happens between the lock *)
(* sections of one operation is the matter of Sessions: here an operation  *)
(* is one change of the table of the primary, and the datagrams to the     *)
(* backups one step each, before it or behind it as in the code.           *)
(***************************************************************************)
EXTENDS Integers, Sequences, FiniteSets, SequencesExt

CONSTANTS
  Servers, Primary,  \* the servers; the primary at first
  Registered,        \* what its list of backups may be at first
  Joining,           \* the servers that may register later
  Profiles, Nobody,  \* the names of clients; the name of no server and no profile
  Files,             \* what the first servers may have loaded: the followers of profiles
  MaxSessions,       \* MAX_CONNECTIONS_OF_SAME_USER
  FirstPort,         \* nextClientPort of a new server
  LastPort,          \* bound: the sessions opened
  MaxFollows,        \* bound: the FOLLOWs
  MaxSends,          \* bound: the SENDs
  MaxInbox,          \* bound: the unread datagrams of a backup
  MaxCrashes         \* bound: the crashes that nothing in the code caused

Ports == FirstPort .. LastPort

\* Every server registers once. loadBackup drops who follows itself and checks no
\* more: the file of a save that a crash cut off (BackupFile) lists followers
\* whose own line is lost.
ASSUME ReplicationAssumption ==
  /\ Primary \in Servers
  /\ \A q \in Registered : q \in Seq(Servers \ {Primary}) /\ IsInjective(q)
  /\ Joining \subseteq Servers
  /\ \A file \in Files : /\ DOMAIN file \subseteq Profiles
                         /\ \A u \in DOMAIN file : file[u] \subseteq Profiles \ {u}
  /\ Nobody \notin Servers \cup Profiles
  /\ FirstPort \in Nat /\ LastPort \in Nat /\ FirstPort <= LastPort
  /\ MaxSessions \in Nat \ {0} /\ MaxFollows \in Nat /\ MaxSends \in Nat
  /\ MaxInbox \in Nat \ {0} /\ MaxCrashes \in Nat

VARIABLES
  alive,           \* the servers whose process runs
  primary,         \* who has the port of the primary, or Nobody
  isPrimary,       \* and whether it knows that it is the primary
  backupServers,   \* the registered backups, the same for all servers
  masterTable,     \* each server's rows
  nextClientPort,  \* of each server
  loop,            \* the server loop of the primary
  thread,          \* its session threads, each named by its port
  inbox,           \* each backup's unread datagrams
  client,          \* the profile of the client that a REDIRECT sent to a port
  follows, sends, crashes,  \* how many there were
  upToDate,        \* history: the servers that missed nothing; see PrimaryDies, Dies,
                   \* TakePort and StartSession
  kept             \* history: the messages of each profile since it is offline, which it no
                   \* longer is when its CONNECT has come

net == <<backupServers, inbox>>
counts == <<follows, sends, crashes>>
history == <<upToDate, kept>>
roles == <<alive, primary, isPrimary>>
vars == <<roles, net, masterTable, nextClientPort, loop, thread, client, counts, history>>

(* A row's sessions are the ports of its clients. Its messages are a set:   *)
(* their order is the matter of Sessions. The file that is saved with some  *)
(* of the changes is that of BackupFile.                                    *)
NewRow == [sessions |-> <<>>, followers |-> {}, messages |-> {}]
LoadedRow(followers) == [NewRow EXCEPT !.followers = followers]
Rest == [pc |-> "receive", profile |-> Nobody, toTell |-> <<>>, toOpen |-> <<>>, users |-> {}]
NoThread == [pc |-> "none", profile |-> Nobody, datagram |-> <<>>, toTell |-> <<>>]

Init ==
  /\ backupServers \in Registered
  /\ alive = {Primary} \cup ToSet(backupServers)
  /\ primary = Primary /\ isPrimary = TRUE
  /\ \E file \in Files :
       masterTable = [s \in Servers |-> [u \in DOMAIN file |-> LoadedRow(file[u])]]
  /\ nextClientPort = [s \in Servers |-> FirstPort]
  /\ loop = Rest
  /\ thread = [p \in Ports |-> NoThread]
  /\ inbox = [s \in Servers |-> <<>>]
  /\ client = [p \in Ports |-> Nobody]
  /\ follows = 0 /\ sends = 0 /\ crashes = 0
  /\ upToDate = alive
  /\ kept = [u \in Profiles |-> {}]

Table == masterTable[primary]
SetRow(s, u, row) ==
  masterTable' = [masterTable EXCEPT ![s] =
                    [v \in DOMAIN masterTable[s] \cup {u} |->
                       IF v = u THEN row ELSE masterTable[s][v]]]

RowOf(s, u) == IF u \in DOMAIN masterTable[s] THEN masterTable[s][u] ELSE NewRow

Offline(s, u) == masterTable[s][u].sessions = <<>>
Connecting(u) == loop.pc = "tell" /\ loop.profile = u

\* Nothing comes of a datagram to a backup that died.
SendTo(b, datagram) ==
  /\ Len(inbox[b]) < MaxInbox
  /\ inbox' = IF b \in alive THEN [inbox EXCEPT ![b] = Append(@, datagram)] ELSE inbox

-----------------------------------------------------------------------------
(* CONNECT on the loop of whoever has the port.                             *)

Serving == primary # Nobody /\ loop.pc = "receive"

\* Mutant: a new profile is not replicated.
ReceiveConnectUntold(u) ==
  /\ Serving
  /\ nextClientPort[primary] <= LastPort
  /\ Len(RowOf(primary, u).sessions) < MaxSessions
  /\ SetRow(primary, u, RowOf(primary, u))
  /\ loop' = [Rest EXCEPT !.pc = "tell", !.profile = u,
                          !.toTell = IF u \in DOMAIN Table THEN backupServers ELSE <<>>]
  /\ kept' = [kept EXCEPT ![u] = {}]
  /\ UNCHANGED <<roles, net, nextClientPort, thread, client, counts, upToDate>>

\* The row of a new profile is there before anybody is told of it.
ReceiveConnect(u) ==
  /\ Serving
  /\ nextClientPort[primary] <= LastPort
  /\ Len(RowOf(primary, u).sessions) < MaxSessions
  /\ SetRow(primary, u, RowOf(primary, u))
  /\ loop' = [Rest EXCEPT !.pc = "tell", !.profile = u, !.toTell = backupServers]
  /\ kept' = [kept EXCEPT ![u] = {}]
  /\ UNCHANGED <<roles, net, nextClientPort, thread, client, counts, upToDate>>

TellConnect ==
  /\ loop.toTell # <<>>
  /\ SendTo(Head(loop.toTell),
            [type |-> "CONNECT", profile |-> loop.profile, port |-> nextClientPort[primary]])
  /\ loop' = [loop EXCEPT !.toTell = Tail(@)]
  /\ UNCHANGED <<roles, backupServers, masterTable, nextClientPort, thread, client, counts, history>>

Taken(p) == thread[p].pc # "none"

NewThread(u) == [NoThread EXCEPT !.pc = "run", !.profile = u]

\* createClientSocket, REDIRECT, and the next port.
StartSession ==
  /\ loop.pc = "tell" /\ loop.toTell = <<>>
  /\ LET p == nextClientPort[primary]
         u == loop.profile
     IN  /\ ~Taken(p)
         /\ SetRow(primary, u, [Table[u] EXCEPT !.sessions = Append(@, p)])
         /\ thread' = [thread EXCEPT ![p] = NewThread(u)]
         /\ client' = [client EXCEPT ![p] = u]
  /\ nextClientPort' = [nextClientPort EXCEPT ![primary] = @ + 1]
  /\ loop' = Rest
  /\ upToDate' = IF isPrimary THEN upToDate ELSE {}
  /\ UNCHANGED <<roles, net, counts, kept>>

\* Those who were still to be told miss what they were to be told.
Untold == ToSet(loop.toTell) \cup UNION {ToSet(thread[p].toTell) : p \in Ports}

Forgets(s) == /\ masterTable' = [masterTable EXCEPT ![s] = <<>>]
              /\ nextClientPort' = [nextClientPort EXCEPT ![s] = FirstPort]

PrimaryDies ==
  /\ alive' = alive \ {primary}
  /\ primary' = Nobody /\ isPrimary' = FALSE
  /\ loop' = Rest
  /\ thread' = [p \in Ports |-> NoThread]
  /\ upToDate' = upToDate \ (Untold \cup {primary})
  /\ Forgets(primary)
  /\ UNCHANGED <<net, client, follows, sends, kept>>

-----------------------------------------------------------------------------
(* A session thread. FOLLOW and SEND change the table first and tell then,  *)
(* whatever came of the FOLLOW; EXIT tells first.                           *)

Tell(p, pc, datagram) ==
  thread' = [thread EXCEPT ![p] =
               IF backupServers = <<>> /\ pc = "tell" THEN @
               ELSE [@ EXCEPT !.pc = pc, !.datagram = datagram, !.toTell = backupServers]]

\* The profile gets a notice of what came of it.
Notice(u) == [from |-> u, id |-> 0]

Followed(table, u, new) ==
  [v \in DOMAIN table |->
     [table[v] EXCEPT !.followers = IF v = new /\ new # u THEN @ \cup {u} ELSE @,
                      !.messages = IF v = u THEN @ \cup {Notice(u)} ELSE @]]

Follow(p, new) ==
  /\ thread[p].pc = "run"
  /\ follows < MaxFollows
  /\ LET u == thread[p].profile
     IN  /\ masterTable' = [masterTable EXCEPT ![primary] = Followed(@, u, new)]
         /\ Tell(p, "tell", [type |-> "FOLLOW", profile |-> u, follow |-> new])
  /\ follows' = follows + 1
  /\ UNCHANGED <<roles, net, nextClientPort, loop, client, sends, crashes, history>>

Post(table, message, to) ==
  [v \in DOMAIN table |-> IF v \in to THEN [table[v] EXCEPT !.messages = @ \cup {message}]
                          ELSE table[v]]

\* The row of each follower is looked up without a check; where there is none, the
\* server may go on or die.
Send(p) ==
  /\ thread[p].pc = "run"
  /\ sends < MaxSends
  /\ LET u == thread[p].profile
         message == [from |-> u, id |-> sends + 1]
         to == Table[u].followers \cap DOMAIN Table
     IN  /\ masterTable' = [masterTable EXCEPT ![primary] = Post(@, message, to)]
         /\ kept' = [v \in Profiles |-> IF v \in to /\ Offline(primary, v) /\ ~Connecting(v)
                                        THEN kept[v] \cup {message} ELSE kept[v]]
         /\ Tell(p, "tell", [type |-> "SEND", profile |-> u, message |-> message])
  /\ sends' = sends + 1
  /\ UNCHANGED <<roles, net, nextClientPort, loop, client, follows, crashes, upToDate>>

\* A follower without a row: the file was cut off, or the server registered late.
SendBlindly(p) ==
  /\ thread[p].pc = "run"
  /\ sends < MaxSends
  /\ ~(Table[thread[p].profile].followers \subseteq DOMAIN Table)
  /\ UNCHANGED crashes
  /\ PrimaryDies

\* The client is gone as soon as it has sent EXIT.
Exit(p) ==
  /\ thread[p].pc = "run"
  /\ Tell(p, "exit", [type |-> "DISCONNECT", profile |-> thread[p].profile, port |-> p])
  /\ client' = [client EXCEPT ![p] = Nobody]
  /\ UNCHANGED <<roles, net, masterTable, nextClientPort, loop, counts, history>>

TellNext(p) ==
  /\ thread[p].toTell # <<>>
  /\ SendTo(Head(thread[p].toTell), thread[p].datagram)
  /\ thread' = [thread EXCEPT ![p] =
                  IF Len(@.toTell) = 1 /\ @.pc = "tell" THEN NewThread(@.profile)
                  ELSE [thread[p] EXCEPT !.toTell = Tail(@)]]
  /\ UNCHANGED <<roles, backupServers, masterTable, nextClientPort, loop, client, counts, history>>

\* closeSession takes the first session with that host and port.
CloseSession(p) ==
  /\ thread[p].pc = "exit" /\ thread[p].toTell = <<>>
  /\ SetRow(primary, thread[p].profile,
            [Table[thread[p].profile] EXCEPT !.sessions = RemoveFirst(@, p)])
  /\ thread' = [thread EXCEPT ![p] = NoThread]
  /\ UNCHANGED <<roles, net, nextClientPort, loop, client, counts, history>>

\* A notification is sent to the client and popped.
Show(p, message) ==
  /\ thread[p].pc = "run"
  /\ message \in Table[thread[p].profile].messages
  /\ SetRow(primary, thread[p].profile,
            [Table[thread[p].profile] EXCEPT !.messages = @ \ {message}])
  /\ UNCHANGED <<roles, net, nextClientPort, loop, thread, client, counts, history>>

-----------------------------------------------------------------------------
(* The handlers of a backup.                                                *)

Receives(b, type) ==
  /\ b \in alive \ {primary}
  /\ inbox[b] # <<>>
  /\ Head(inbox[b]).type = type
  /\ inbox' = [inbox EXCEPT ![b] = Tail(@)]
  /\ UNCHANGED <<primary, isPrimary, backupServers, loop, thread, client, counts, kept>>

Datagram(b) == Head(inbox[b])
Lives == UNCHANGED <<alive, upToDate>>

\* Mutant: only a new profile moves the next port.
ReplicateConnectOnce(b) ==
  /\ Receives(b, "CONNECT")
  /\ LET k == Datagram(b)
         row == RowOf(b, k.profile)
     IN  IF Len(row.sessions) >= MaxSessions THEN UNCHANGED <<masterTable, nextClientPort>>
         ELSE /\ SetRow(b, k.profile, [row EXCEPT !.sessions = Append(@, k.port)])
              /\ nextClientPort' = IF k.profile \in DOMAIN masterTable[b] THEN nextClientPort
                                   ELSE [nextClientPort EXCEPT ![b] = @ + 1]
  /\ Lives

\* Mutant: a backup does not count.
ReplicateConnectUncounted(b) ==
  /\ Receives(b, "CONNECT")
  /\ LET k == Datagram(b)
     IN  SetRow(b, k.profile, [RowOf(b, k.profile) EXCEPT !.sessions = Append(@, k.port)])
  /\ nextClientPort' = [nextClientPort EXCEPT ![b] = @ + 1]
  /\ Lives

\* The backup counts for itself, and takes the next port whatever the datagram
\* says.
ReplicateConnect(b) ==
  /\ Receives(b, "CONNECT")
  /\ LET k == Datagram(b)
         row == RowOf(b, k.profile)
     IN  IF Len(row.sessions) >= MaxSessions THEN UNCHANGED <<masterTable, nextClientPort>>
         ELSE /\ SetRow(b, k.profile, [row EXCEPT !.sessions = Append(@, k.port)])
              /\ nextClientPort' = [nextClientPort EXCEPT ![b] = @ + 1]
  /\ Lives

Dies(b) == /\ alive' = alive \ {b} /\ upToDate' = upToDate \ {b}
           /\ Forgets(b)

\* find(...)->second of a profile without a row: the process may die of what it
\* reads there, or the datagram may change nothing.
NoRow(b) ==
  /\ Datagram(b).profile \notin DOMAIN masterTable[b]
  /\ \/ Lives /\ UNCHANGED <<masterTable, nextClientPort>>
     \/ Dies(b)

\* Mutant: any session of the profile will do.
ReplicateDisconnectAny(b) ==
  /\ Receives(b, "DISCONNECT")
  /\ LET k == Datagram(b)
     IN  /\ k.profile \in DOMAIN masterTable[b]
         /\ SetRow(b, k.profile, [masterTable[b][k.profile] EXCEPT
                                    !.sessions = IF @ = <<>> THEN @ ELSE Tail(@)])
         /\ Lives /\ UNCHANGED nextClientPort

ReplicateDisconnect(b) ==
  /\ Receives(b, "DISCONNECT")
  /\ LET k == Datagram(b)
     IN  \/ NoRow(b)
         \/ /\ k.profile \in DOMAIN masterTable[b]
            /\ SetRow(b, k.profile, [masterTable[b][k.profile] EXCEPT
                                       !.sessions = RemoveFirst(@, k.port)])
            /\ Lives /\ UNCHANGED nextClientPort

\* Mutant: the profile gets the follower it asked to follow.
ReplicateFollowSwapped(b) ==
  /\ Receives(b, "FOLLOW")
  /\ LET k == Datagram(b)
     IN  IF k.profile \in DOMAIN masterTable[b] /\ k.follow # k.profile
         THEN SetRow(b, k.profile, [masterTable[b][k.profile] EXCEPT !.followers = @ \cup {k.follow}])
         ELSE UNCHANGED masterTable
  /\ Lives /\ UNCHANGED nextClientPort

\* The row of the follower is looked up as well, and never used.
ReplicateFollow(b) ==
  /\ Receives(b, "FOLLOW")
  /\ LET k == Datagram(b)
     IN  \/ NoRow(b)
         \/ /\ IF k.follow \in DOMAIN masterTable[b] /\ k.follow # k.profile
               THEN SetRow(b, k.follow, [masterTable[b][k.follow] EXCEPT
                                           !.followers = @ \cup {k.profile}])
               ELSE UNCHANGED masterTable
            /\ Lives /\ UNCHANGED nextClientPort

\* Mutant: the message is kept for those who are online.
ReplicateSendOnline(b) ==
  /\ Receives(b, "SEND")
  /\ LET k == Datagram(b)
     IN  /\ k.profile \in DOMAIN masterTable[b]
         /\ LET to == {v \in masterTable[b][k.profile].followers \cap DOMAIN masterTable[b] :
                         ~Offline(b, v)}
            IN  masterTable' = [masterTable EXCEPT ![b] = Post(@, k.message, to)]
  /\ Lives /\ UNCHANGED nextClientPort

\* The message is kept for the followers who have no session here; a follower
\* without a row is as bad as a sender without one.
ReplicateSend(b) ==
  /\ Receives(b, "SEND")
  /\ LET k == Datagram(b)
     IN  \/ NoRow(b)
         \/ /\ k.profile \in DOMAIN masterTable[b]
            /\ LET to == {v \in masterTable[b][k.profile].followers \cap DOMAIN masterTable[b] :
                            Offline(b, v)}
               IN  masterTable' = [masterTable EXCEPT ![b] = Post(@, k.message, to)]
            /\ Lives /\ UNCHANGED nextClientPort
         \/ /\ k.profile \in DOMAIN masterTable[b]
            /\ ~(masterTable[b][k.profile].followers \subseteq DOMAIN masterTable[b])
            /\ Dies(b)

-----------------------------------------------------------------------------
(* The death of the primary, and what its successor does.                   *)

Crash ==
  /\ primary # Nobody /\ crashes < MaxCrashes
  /\ crashes' = crashes + 1
  /\ PrimaryDies

\* The constructor of ClientSocket throws on the server loop when the port is
\* taken, and nobody catches it.
BindFails ==
  /\ \/ loop.pc = "tell" /\ loop.toTell = <<>> /\ Taken(nextClientPort[primary])
     \/ loop.pc = "reopen" /\ loop.toOpen # <<>> /\ Taken(Head(loop.toOpen))
  /\ UNCHANGED crashes
  /\ PrimaryDies

\* changePort: what is unread in the old socket is lost, and if the new owner
\* of the port is not up to date, nobody is any more.
TakePort(b) ==
  /\ primary = Nobody
  /\ b \in alive
  /\ primary' = b
  /\ \E i \in DOMAIN backupServers :
       backupServers[i] = b /\ backupServers' = RemoveAt(backupServers, i)
  /\ inbox' = [inbox EXCEPT ![b] = <<>>]
  /\ upToDate' = IF b \in upToDate /\ inbox[b] = <<>> THEN upToDate ELSE {}
  /\ UNCHANGED <<alive, isPrimary, masterTable, nextClientPort, loop, thread, client, counts, kept>>

\* Every backup on the list has answered the announcement; backupLoop ends.
BecomePrimary ==
  /\ Serving /\ ~isPrimary
  /\ ToSet(backupServers) \subseteq alive
  /\ isPrimary' = TRUE
  /\ loop' = [Rest EXCEPT !.pc = "reopen",
                      !.users = {u \in DOMAIN Table : Table[u].sessions # <<>>}]
  /\ UNCHANGED <<alive, primary, net, masterTable, nextClientPort, thread, client, counts, history>>

\* serverLoop, with a copy of the sessions of one user at a time.
ReopenUser(u) ==
  /\ loop.pc = "reopen" /\ loop.toOpen = <<>>
  /\ u \in loop.users
  /\ loop' = [loop EXCEPT !.profile = u, !.users = @ \ {u}, !.toOpen = Table[u].sessions]
  /\ UNCHANGED <<roles, net, masterTable, nextClientPort, thread, client, counts, history>>

ReopenSession ==
  /\ loop.pc = "reopen" /\ loop.toOpen # <<>>
  /\ LET p == Head(loop.toOpen)
         u == loop.profile
     IN  /\ ~Taken(p)
         /\ SetRow(primary, u, [Table[u] EXCEPT !.sessions = Append(RemoveFirst(@, p), p)])
         /\ thread' = [thread EXCEPT ![p] = NewThread(u)]
  /\ loop' = [loop EXCEPT !.toOpen = Tail(@)]
  /\ UNCHANGED <<roles, net, nextClientPort, client, counts, history>>

EnterPrimaryLoop ==
  /\ loop.pc = "reopen" /\ loop.toOpen = <<>> /\ loop.users = {}
  /\ loop' = Rest
  /\ UNCHANGED <<roles, net, masterTable, nextClientPort, thread, client, counts, history>>

\* A backup starts, or starts again, when sessions are open already. It has loaded an empty
\* table, or what a save of the primary had written of one; no file holds
\* sessions, and nobody tells it of those there are, nor of the next port.
Join(b) ==
  /\ Serving /\ isPrimary
  /\ b \in Joining \ (alive \cup ToSet(backupServers))
  /\ \E rows \in SUBSET DOMAIN Table :
       masterTable' = [masterTable EXCEPT ![b] = [u \in rows |-> LoadedRow(Table[u].followers)]]
  /\ alive' = alive \cup {b}
  /\ backupServers' = Append(backupServers, b)
  /\ UNCHANGED <<primary, isPrimary, inbox, nextClientPort, loop, thread, client, counts, history>>

-----------------------------------------------------------------------------
MessageType == [from : Profiles, id : 0 .. MaxSends]

LoopStep ==
  \/ \E u \in Profiles : ReceiveConnect(u) \/ ReopenUser(u)
  \/ TellConnect \/ StartSession \/ BecomePrimary \/ ReopenSession \/ EnterPrimaryLoop

ThreadStep(p) ==
  \/ \E new \in Profiles : Follow(p, new)
  \/ Send(p) \/ SendBlindly(p) \/ Exit(p) \/ TellNext(p) \/ CloseSession(p)
  \/ \E message \in MessageType : Show(p, message)

BackupStep(b) ==
  \/ ReplicateConnect(b) \/ ReplicateDisconnect(b) \/ ReplicateFollow(b) \/ ReplicateSend(b)

Next ==
  \/ LoopStep
  \/ \E p \in Ports : ThreadStep(p)
  \/ \E b \in Servers : BackupStep(b) \/ TakePort(b) \/ Join(b)
  \/ Crash \/ BindFails

Spec == Init /\ [][Next]_vars

-----------------------------------------------------------------------------
(* Properties.                                                              *)

RowType == [sessions : Seq(Ports), followers : SUBSET Profiles, messages : SUBSET MessageType]
DatagramType ==
  [type : {"CONNECT", "DISCONNECT"}, profile : Profiles, port : Ports]
    \cup [type : {"FOLLOW"}, profile : Profiles, follow : Profiles]
    \cup [type : {"SEND"}, profile : Profiles, message : MessageType]

\* Every variable has its type, and no server counts more sessions of a profile
\* than the limit, whatever it was told.
TypeOK ==
  /\ alive \subseteq Servers /\ backupServers \in Seq(Servers)
  /\ primary \in alive \cup {Nobody} /\ isPrimary \in BOOLEAN
  /\ \A s \in Servers : /\ DOMAIN masterTable[s] \subseteq Profiles
                        /\ masterTable[s] \in [DOMAIN masterTable[s] -> RowType]
                        /\ inbox[s] \in Seq(DatagramType)
  /\ \A s \in Servers : \A u \in DOMAIN masterTable[s] :
       Len(masterTable[s][u].sessions) <= MaxSessions
  /\ nextClientPort \in [Servers -> Nat]
  /\ loop \in [pc : {"receive", "tell", "reopen"}, profile : Profiles \cup {Nobody},
               toTell : Seq(Servers), toOpen : Seq(Ports), users : SUBSET Profiles]
  /\ thread \in [Ports -> [pc : {"none", "run", "tell", "exit"}, profile : Profiles \cup {Nobody},
                           datagram : DatagramType \cup {<<>>}, toTell : Seq(Servers)]]
  /\ client \in [Ports -> Profiles \cup {Nobody}]
  /\ upToDate \subseteq Servers /\ kept \in [Profiles -> SUBSET MessageType]

\* The profiles that were there from the start, whatever the file.
Known == {u \in Profiles : \A file \in Files : u \in DOMAIN file}

Quiet == /\ loop.pc \in {"receive", "reopen"}
         /\ \A p \in Ports : thread[p].pc \in {"none", "run"}

\* When nobody is telling anybody anything, a backup that has missed nothing and
\* has read what it was sent knows the profiles of the primary, their sessions
\* and the next port, and the followers of every profile that was there from the
\* start. It counts the sessions for itself, and sees them come and go in
\* another order than the primary does.
InStep ==
  \A b \in (upToDate \cap alive) \ {primary} :
    primary \in upToDate /\ Quiet /\ inbox[b] = <<>> =>
      /\ DOMAIN masterTable[b] = DOMAIN Table
      /\ nextClientPort[b] = nextClientPort[primary]
      /\ \A u \in DOMAIN Table :
           /\ ToSet(masterTable[b][u].sessions) = ToSet(Table[u].sessions)
           /\ Len(masterTable[b][u].sessions) = Len(Table[u].sessions)
      /\ \A u \in Known : masterTable[b][u].followers = Table[u].followers

\* A primary that has missed nothing has a session on the port of every client
\* that was ever redirected and has not left, under the client's own name: a
\* client goes on with the new primary without knowing of it.
ClientsServed ==
  primary \in upToDate /\ isPrimary /\ loop.pc # "reopen" =>
    \A p \in Ports : client[p] # Nobody => thread[p].pc # "none" /\ thread[p].profile = client[p]

\* A backup that has missed nothing has a row for the sender of each datagram it
\* reads: find(...)->second of the sender meets no end(). That of a follower may,
\* as it may on the primary.
Announced(b, u, i) ==
  \/ u \in DOMAIN masterTable[b]
  \/ \E j \in 1 .. i - 1 : inbox[b][j].type = "CONNECT" /\ inbox[b][j].profile = u
KnownRows ==
  \A b \in upToDate \cap alive :
    \A i \in DOMAIN inbox[b] :
      inbox[b][i].type # "CONNECT" => Announced(b, inbox[b][i].profile, i)

\* A message for a profile that has been offline since is in the row of every
\* server that has missed nothing and holds it for a follower of the sender, or is
\* on its way there: no crash loses it. One that is sent while its CONNECT is told
\* to the backups may be lost: a backup that has read the CONNECT keeps it no
\* longer, and the session it counts on is open only when all were told.
OnItsWay(s, message) ==
  \/ \E i \in DOMAIN inbox[s] : inbox[s][i].type = "SEND" /\ inbox[s][i].message = message
  \/ \E p \in Ports : /\ s \in ToSet(thread[p].toTell)
                       /\ thread[p].datagram.type = "SEND" /\ thread[p].datagram.message = message
OfflineKept ==
  \A s \in upToDate \cap alive, v \in Profiles : \A m \in kept[v] :
    m.from \in DOMAIN masterTable[s] /\ v \in masterTable[s][m.from].followers
    => \/ OnItsWay(s, m)
       \/ v \in DOMAIN masterTable[s] /\ m \in masterTable[s][v].messages

\* "Could not bind socket" is an exception that ends the server: a session is to
\* find its port free.
PortsFree ==
  /\ loop.pc = "tell" /\ loop.toTell = <<>> => ~Taken(nextClientPort[primary])
  /\ loop.pc = "reopen" /\ loop.toOpen # <<>> => ~Taken(Head(loop.toOpen))

\* So it does on a primary that has missed nothing, though every backup counts
\* the ports for itself.
UpToDatePortsFree == primary \in upToDate => PortsFree
=============================================================================
