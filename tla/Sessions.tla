------------------------------ MODULE Sessions -------------------------------
(***************************************************************************)
(* The primary server and its clients' sessions: the CONNECT handler of    *)
(* Server::execute on the server loop, one ClientSocket thread for each    *)
(* session, and masterTable with the TableRow of each profile, which they  *)
(* share. A TableRow method is one step, for it runs under the lock of     *)
(* ReadersWriterLock, but for popNotification, which changes the list      *)
(* under the readers' half of that lock; between two methods anything may  *)
(* happen. A session is named by the port of its socket.                   *)
(*                                                                         *)
(* saveBackup and the replicate calls change nothing here: the first is a  *)
(* step that takes its time, the datagrams of the second are sent and      *)
(* forgotten.                                                              *)
(***************************************************************************)
EXTENDS Integers, Sequences, FiniteSets

CONSTANTS
  Profiles,            \* the names a client may give
  Nobody,              \* a name nobody has
  MaxSessions,         \* MAX_CONNECTIONS_OF_SAME_USER
  FirstPort,           \* nextClientPort of a new server
  Backups,             \* the tables loadBackup may give: who follows whom
  LastPort,            \* bound: the sessions opened in a behaviour
  ClientsPerProfile,   \* bound: the sessions of a profile its users ask for at once
  MaxPosts             \* bound: FOLLOW and SEND stop once a list had this many

Ports == FirstPort .. LastPort

\* loadBackup drops who follows itself and checks no more: the file of a save
\* that a crash cut off (BackupFile) lists followers whose own line is lost.
ASSUME SessionsAssumption ==
  /\ IsFiniteSet(Profiles) /\ Nobody \notin Profiles
  /\ MaxSessions \in Nat \ {0} /\ MaxPosts \in Nat
  /\ FirstPort \in Nat /\ LastPort \in Nat /\ FirstPort <= LastPort
  /\ \A table \in Backups :
       /\ DOMAIN table \subseteq Profiles
       /\ \A u \in DOMAIN table : table[u] \in Seq(Profiles \ {u})
ASSUME ClientsAssumption == ClientsPerProfile \in [Profiles -> Nat]

VARIABLES
  masterTable,     \* the row of each profile that ever connected
  loop,            \* the server loop: what it does next, and for whom
  nextClientPort,
  thread,          \* the ClientSocket thread of each port and its locals
  posted,          \* history: the notifications ever added to a profile's list
  lastSent,        \* history: the latest of them sent to each session
  crashed          \* the process died of undefined behaviour

vars == <<masterTable, loop, nextClientPort, thread, posted, lastSent, crashed>>

(* A notification stands for its text: it is its place in the order in      *)
(* which the profile's notifications were added.                            *)
NewRow == [activeSessions |-> {}, notificationDelivered |-> FALSE,
           followers |-> <<>>, messagesToReceive |-> <<>>]

NewThread(u) == [pc |-> "poll", profile |-> u, recievedNoop |-> FALSE,
                 following |-> Nobody, toNotify |-> <<>>, notification |-> 0]

Init ==
  /\ \E table \in Backups :
       masterTable = [u \in DOMAIN table |-> [NewRow EXCEPT !.followers = table[u]]]
  /\ loop = [pc |-> "receive", profile |-> Nobody]
  /\ nextClientPort = FirstPort
  /\ thread = [p \in Ports |-> [NewThread(Nobody) EXCEPT !.pc = "none"]]
  /\ posted = [u \in Profiles |-> 0]
  /\ lastSent = [p \in Ports |-> 0]
  /\ crashed = FALSE

Becomes(p, new) == thread' = [thread EXCEPT ![p] = new]

Goto(p, from, to) == /\ thread[p].pc = from
                     /\ Becomes(p, [thread[p] EXCEPT !.pc = to])

Row(p) == masterTable[thread[p].profile]

\* Writers wait for the reader that is inside popNotification.
WriterMayEnter == \A p \in Ports : thread[p].pc # "popFront"

-----------------------------------------------------------------------------
(* CONNECT on the server loop.                                              *)

ReceiveConnect(u) ==
  /\ loop.pc = "receive"
  /\ nextClientPort <= LastPort
  /\ u \in DOMAIN masterTable =>
       Cardinality(masterTable[u].activeSessions) < ClientsPerProfile[u]
  /\ loop' = [pc |-> IF u \in DOMAIN masterTable THEN "count" ELSE "insert", profile |-> u]
  /\ UNCHANGED <<masterTable, nextClientPort, thread, posted, lastSent, crashed>>

InsertRow ==
  /\ loop.pc = "insert"
  /\ WriterMayEnter
  /\ masterTable' = [u \in DOMAIN masterTable \cup {loop.profile} |->
                       IF u = loop.profile THEN NewRow ELSE masterTable[u]]
  /\ loop' = [loop EXCEPT !.pc = "save"]
  /\ UNCHANGED <<nextClientPort, thread, posted, lastSent, crashed>>

SaveNewRow ==
  /\ loop.pc = "save"
  /\ loop' = [loop EXCEPT !.pc = "start"]
  /\ UNCHANGED <<masterTable, nextClientPort, thread, posted, lastSent, crashed>>

\* Mutant: the limit is off by one.
CountSessionsOff ==
  /\ loop.pc = "count"
  /\ loop' = IF Cardinality(masterTable[loop.profile].activeSessions) > MaxSessions
             THEN [pc |-> "receive", profile |-> Nobody]
             ELSE [loop EXCEPT !.pc = "start"]
  /\ UNCHANGED <<masterTable, nextClientPort, thread, posted, lastSent, crashed>>

\* The answer is an ERROR, or else the session starts.
CountSessions ==
  /\ loop.pc = "count"
  /\ loop' = IF Cardinality(masterTable[loop.profile].activeSessions) >= MaxSessions
             THEN [pc |-> "receive", profile |-> Nobody]
             ELSE [loop EXCEPT !.pc = "start"]
  /\ UNCHANGED <<masterTable, nextClientPort, thread, posted, lastSent, crashed>>

\* createClientSocket and the REDIRECT that names the port.
StartSession ==
  /\ loop.pc = "start"
  /\ WriterMayEnter
  /\ masterTable' = [masterTable EXCEPT ![loop.profile].activeSessions =
                       @ \cup {nextClientPort}]
  /\ Becomes(nextClientPort, NewThread(loop.profile))
  /\ nextClientPort' = nextClientPort + 1
  /\ loop' = [pc |-> "receive", profile |-> Nobody]
  /\ UNCHANGED <<posted, lastSent, crashed>>

-----------------------------------------------------------------------------
(* ClientSocket::run. A datagram that changes nothing here (an unknown      *)
(* command, an EXIT whose answer cannot be sent) is a timeout. One that does*)
(* not parse is left out: Command throws and the server ends.               *)

Poll(p) ==
  /\ Goto(p, "poll", IF Row(p).messagesToReceive # <<>> /\ thread[p].recievedNoop
                     THEN "listen" ELSE "receive")
  /\ UNCHANGED <<masterTable, loop, nextClientPort, posted, lastSent, crashed>>

Timeout(p) ==
  /\ Goto(p, "receive", "poll")
  /\ UNCHANGED <<masterTable, loop, nextClientPort, posted, lastSent, crashed>>

ReceiveNoop(p) ==
  /\ thread[p].pc = "receive"
  /\ Becomes(p, [thread[p] EXCEPT !.pc = "poll", !.recievedNoop = TRUE])
  /\ UNCHANGED <<masterTable, loop, nextClientPort, posted, lastSent, crashed>>

\* The answer to EXIT is on its way before the session is closed.
ReceiveExit(p) ==
  /\ Goto(p, "receive", "close")
  /\ UNCHANGED <<masterTable, loop, nextClientPort, posted, lastSent, crashed>>

\* Mutant: the thread ends and its row is not told.
CloseSessionUntold(p) ==
  /\ WriterMayEnter
  /\ thread[p].pc = "close"
  /\ Becomes(p, [NewThread(thread[p].profile) EXCEPT !.pc = "closed"])
  /\ UNCHANGED <<masterTable, loop, nextClientPort, posted, lastSent, crashed>>

\* Mutant: a profile without sessions has no row any more.
CloseSessionForgetting(p) ==
  /\ WriterMayEnter
  /\ thread[p].pc = "close"
  /\ Becomes(p, [NewThread(thread[p].profile) EXCEPT !.pc = "closed"])
  /\ masterTable' = [u \in {u \in DOMAIN masterTable : masterTable[u].activeSessions # {p}} |->
                       [masterTable[u] EXCEPT !.activeSessions = @ \ {p}]]
  /\ UNCHANGED <<loop, nextClientPort, posted, lastSent, crashed>>

\* closeSession and the end of the thread.
CloseSession(p) ==
  /\ WriterMayEnter
  /\ thread[p].pc = "close"
  /\ Becomes(p, [NewThread(thread[p].profile) EXCEPT !.pc = "closed"])
  /\ masterTable' = [masterTable EXCEPT ![thread[p].profile].activeSessions = @ \ {p}]
  /\ UNCHANGED <<loop, nextClientPort, posted, lastSent, crashed>>

-----------------------------------------------------------------------------
(* FOLLOW. Its outcome, good or bad, is a notification to the profile.      *)

MayPost == \A u \in Profiles : posted[u] < MaxPosts

ReceiveFollow(p, new) ==
  /\ MayPost
  /\ thread[p].pc = "receive"
  /\ Becomes(p, IF new \in DOMAIN masterTable /\ new # thread[p].profile
                THEN [thread[p] EXCEPT !.pc = "hasFollower", !.following = new]
                ELSE [thread[p] EXCEPT !.pc = "notifySelf"])
  /\ UNCHANGED <<masterTable, loop, nextClientPort, posted, lastSent, crashed>>

Listed(follower, list) == \E i \in DOMAIN list : list[i] = follower

\* Mutant: the check for a duplicate is not there.
HasFollowerUnchecked(p) ==
  /\ Goto(p, "hasFollower", "addFollower")
  /\ UNCHANGED <<masterTable, loop, nextClientPort, posted, lastSent, crashed>>

HasFollower(p) ==
  /\ Goto(p, "hasFollower",
          IF Listed(thread[p].profile, masterTable[thread[p].following].followers)
          THEN "save" ELSE "addFollower")
  /\ UNCHANGED <<masterTable, loop, nextClientPort, posted, lastSent, crashed>>

AddFollower(p) ==
  /\ WriterMayEnter
  /\ Goto(p, "addFollower", "save")
  /\ masterTable' = [masterTable EXCEPT ![thread[p].following].followers =
                       Append(@, thread[p].profile)]
  /\ UNCHANGED <<loop, nextClientPort, posted, lastSent, crashed>>

SaveFollower(p) ==
  /\ thread[p].pc = "save"
  /\ Becomes(p, [thread[p] EXCEPT !.pc = "notifySelf", !.following = Nobody])
  /\ UNCHANGED <<masterTable, loop, nextClientPort, posted, lastSent, crashed>>

\* Mutant: push_front in place of push_back.
AddNotificationInFront(u) ==
  /\ WriterMayEnter
  /\ posted' = [posted EXCEPT ![u] = @ + 1]
  /\ masterTable' = [masterTable EXCEPT ![u].messagesToReceive = <<posted[u] + 1>> \o @]

AddNotification(u) ==
  /\ WriterMayEnter
  /\ posted' = [posted EXCEPT ![u] = @ + 1]
  /\ masterTable' = [masterTable EXCEPT ![u].messagesToReceive = Append(@, posted[u] + 1)]

\* FOLLOW is answered with a NO_OPERATION, which run takes for the client's.
NotifySelf(p) ==
  /\ thread[p].pc = "notifySelf"
  /\ AddNotification(thread[p].profile)
  /\ Becomes(p, [thread[p] EXCEPT !.pc = "poll", !.recievedNoop = TRUE])
  /\ UNCHANGED <<loop, nextClientPort, lastSent, crashed>>

-----------------------------------------------------------------------------
(* SEND: the followers are copied, then each is notified.                   *)

\* Mutant: nobody asks whether there are followers.
ReceiveSendBlindly(p) ==
  /\ MayPost
  /\ thread[p].pc = "receive"
  /\ Becomes(p, [thread[p] EXCEPT !.pc = "notifyFollowers", !.toNotify = Row(p).followers])
  /\ UNCHANGED <<masterTable, loop, nextClientPort, posted, lastSent, crashed>>

ReceiveSend(p) ==
  /\ MayPost
  /\ thread[p].pc = "receive"
  /\ Becomes(p, [thread[p] EXCEPT !.pc = IF Row(p).followers = <<>> THEN "poll"
                                         ELSE "notifyFollowers",
                                  !.toNotify = Row(p).followers])
  /\ UNCHANGED <<masterTable, loop, nextClientPort, posted, lastSent, crashed>>

GoOnNotifying(p) ==
  Becomes(p, [thread[p] EXCEPT !.pc = IF Len(thread[p].toNotify) = 1 THEN "poll" ELSE @,
                               !.toNotify = Tail(@)])

NotifyFollower(p) ==
  /\ thread[p].pc = "notifyFollowers"
  /\ Head(thread[p].toNotify) \in DOMAIN masterTable
  /\ AddNotification(Head(thread[p].toNotify))
  /\ GoOnNotifying(p)
  /\ UNCHANGED <<loop, nextClientPort, lastSent, crashed>>

\* A find without a lock, while the server loop may be inserting a row.
MeetsInsert(p) == loop.pc = "insert" /\ thread[p].pc \in {"listen", "notifyFollowers"}

\* end() for a follower without a row, or for one that a find beside an insert does
\* not see: what is read there is undefined, and the thread goes on to the next
\* follower, or the process dies (Crash).
MissFollower(p) ==
  /\ thread[p].pc = "notifyFollowers"
  /\ Head(thread[p].toNotify) \notin DOMAIN masterTable \/ MeetsInsert(p)
  /\ GoOnNotifying(p)
  /\ UNCHANGED <<masterTable, loop, nextClientPort, posted, lastSent, crashed>>

-----------------------------------------------------------------------------
(* listenToNotifications: with one session the head of the list is popped   *)
(* and sent; with two the first to come marks it delivered and sends it,    *)
(* the next pops it and sends it.                                           *)

\* An empty list here, or a count that changed from two to one and back, sends
\* a placeholder: an ERROR of no meaning, or a Command nobody initialised.
Listen(p) ==
  /\ Goto(p, "listen", IF Row(p).messagesToReceive = <<>> THEN "receive" ELSE "countOne")
  /\ UNCHANGED <<masterTable, loop, nextClientPort, posted, lastSent, crashed>>

CountOne(p) ==
  /\ Goto(p, "countOne", IF Cardinality(Row(p).activeSessions) = 1 THEN "pop" ELSE "countTwo")
  /\ UNCHANGED <<masterTable, loop, nextClientPort, posted, lastSent, crashed>>

CountTwo(p) ==
  /\ Goto(p, "countTwo",
          IF Cardinality(Row(p).activeSessions) = 2 THEN "getDelivered" ELSE "receive")
  /\ UNCHANGED <<masterTable, loop, nextClientPort, posted, lastSent, crashed>>

GetNotificationDelivered(p) ==
  /\ Goto(p, "getDelivered", IF Row(p).notificationDelivered THEN "pop" ELSE "setDelivered")
  /\ UNCHANGED <<masterTable, loop, nextClientPort, posted, lastSent, crashed>>

\* Mutant: the notification is sent and not marked.
MarkDeliveredNot(p) ==
  /\ WriterMayEnter
  /\ Goto(p, "setDelivered", "get")
  /\ UNCHANGED <<masterTable, loop, nextClientPort, posted, lastSent, crashed>>

MarkDelivered(p) ==
  /\ WriterMayEnter
  /\ Goto(p, "setDelivered", "get")
  /\ masterTable' = [masterTable EXCEPT ![thread[p].profile].notificationDelivered = TRUE]
  /\ UNCHANGED <<loop, nextClientPort, posted, lastSent, crashed>>

\* front() of a list that has emptied meanwhile may return garbage and go on.
GetNotification(p) ==
  /\ Goto(p, "get", "receive")
  /\ lastSent' = IF Row(p).messagesToReceive = <<>> THEN lastSent
                 ELSE [lastSent EXCEPT ![p] = Head(Row(p).messagesToReceive)]
  /\ UNCHANGED <<masterTable, loop, nextClientPort, posted, crashed>>

\* popNotification, front(): the reader section begins.
PopNotification(p) ==
  /\ thread[p].pc = "pop"
  /\ Row(p).messagesToReceive # <<>>
  /\ Becomes(p, [thread[p] EXCEPT !.pc = "popFront",
                                  !.notification = Head(Row(p).messagesToReceive)])
  /\ UNCHANGED <<masterTable, loop, nextClientPort, posted, lastSent, crashed>>

\* Mutant: pop_back in place of pop_front.
PopBack(p) ==
  /\ Goto(p, "popFront", "resetDelivered")
  /\ Row(p).messagesToReceive # <<>>
  /\ masterTable' = [masterTable EXCEPT ![thread[p].profile].messagesToReceive =
                       SubSeq(@, 1, Len(@) - 1)]
  /\ UNCHANGED <<loop, nextClientPort, posted, lastSent, crashed>>

\* pop_front(): the reader section ends.
PopFront(p) ==
  /\ Goto(p, "popFront", "resetDelivered")
  /\ Row(p).messagesToReceive # <<>>
  /\ masterTable' = [masterTable EXCEPT ![thread[p].profile].messagesToReceive = Tail(@)]
  /\ UNCHANGED <<loop, nextClientPort, posted, lastSent, crashed>>

\* popNotification takes the mark away, whoever set it, and the notification
\* is sent.
ResetDelivered(p) ==
  /\ WriterMayEnter
  /\ thread[p].pc = "resetDelivered"
  /\ Becomes(p, [thread[p] EXCEPT !.pc = "receive", !.notification = 0])
  /\ masterTable' = [masterTable EXCEPT ![thread[p].profile].notificationDelivered = FALSE]
  /\ lastSent' = [lastSent EXCEPT ![p] = thread[p].notification]
  /\ UNCHANGED <<loop, nextClientPort, posted, crashed>>

\* front() or pop_front() of an empty list, or of one that another session of
\* the profile is popping.
ReadsBadly(p) ==
  /\ thread[p].pc \in {"get", "pop", "popFront"}
  /\ \/ Row(p).messagesToReceive = <<>>
     \/ \E q \in Ports \ {p} : /\ thread[q].pc = "popFront"
                               /\ thread[q].profile = thread[p].profile

\* The process may die of it, of a find beside an insert, or of the row of a
\* follower that has none.
Crash(p) ==
  /\ \/ ReadsBadly(p) \/ MeetsInsert(p)
     \/ /\ thread[p].pc = "notifyFollowers"
        /\ Head(thread[p].toNotify) \notin DOMAIN masterTable
  /\ crashed' = TRUE
  /\ UNCHANGED <<masterTable, loop, nextClientPort, thread, posted, lastSent>>

-----------------------------------------------------------------------------
ServerLoop == InsertRow \/ SaveNewRow \/ CountSessions \/ StartSession

\* What a thread does without its client.
ThreadStep(p) ==
  \/ Poll(p) \/ Timeout(p) \/ CloseSession(p)
  \/ HasFollower(p) \/ AddFollower(p) \/ SaveFollower(p) \/ NotifySelf(p)
  \/ NotifyFollower(p) \/ MissFollower(p)
  \/ Listen(p) \/ CountOne(p) \/ CountTwo(p) \/ GetNotificationDelivered(p)
  \/ MarkDelivered(p) \/ GetNotification(p)
  \/ PopNotification(p) \/ PopFront(p) \/ ResetDelivered(p) \/ Crash(p)

\* The datagrams of its client. A client may stop at any time and never say so.
ClientStep(p) ==
  \/ ReceiveNoop(p) \/ ReceiveExit(p) \/ ReceiveSend(p)
  \/ \E new \in Profiles : ReceiveFollow(p, new)

\* Not a step of the code: a behaviour ends in a crash, or when the sessions of
\* every port there is have been and gone.
Stopped == /\ crashed \/ \A p \in Ports : thread[p].pc = "closed"
           /\ UNCHANGED vars

Running == \/ \E u \in Profiles : ReceiveConnect(u)
           \/ ServerLoop
           \/ \E p \in Ports : ThreadStep(p) \/ ClientStep(p)

Next == (~crashed /\ Running) \/ Stopped

\* Threads keep running; a lock that is free goes to one who waits for it.
Fairness == /\ WF_vars(~crashed /\ ServerLoop)
            /\ \A p \in Ports : WF_vars(~crashed /\ ThreadStep(p))

Spec == Init /\ [][Next]_vars
FairSpec == Spec /\ Fairness

-----------------------------------------------------------------------------
(* Properties.                                                              *)

PCs == {"none", "poll", "receive", "close", "closed", "hasFollower", "addFollower", "save",
        "notifySelf", "notifyFollowers", "listen", "countOne", "countTwo", "getDelivered",
        "setDelivered", "get", "pop", "popFront", "resetDelivered"}

RowType == [activeSessions : SUBSET Ports, notificationDelivered : BOOLEAN,
            followers : Seq(Profiles), messagesToReceive : Seq(Nat)]
LoopType == [pc : {"receive", "insert", "save", "count", "start"},
             profile : Profiles \cup {Nobody}]
ThreadType == [pc : PCs, profile : Profiles \cup {Nobody}, recievedNoop : BOOLEAN,
               following : Profiles \cup {Nobody}, toNotify : Seq(Profiles), notification : Nat]

\* Every variable has its type, and a thread has followers left to notify while
\* it notifies them.
TypeOK ==
  /\ DOMAIN masterTable \subseteq Profiles
  /\ masterTable \in [DOMAIN masterTable -> RowType]
  /\ loop \in LoopType
  /\ nextClientPort \in FirstPort .. LastPort + 1
  /\ thread \in [Ports -> ThreadType]
  /\ posted \in [Profiles -> Nat]
  /\ lastSent \in [Ports -> Nat]
  /\ crashed \in BOOLEAN
  /\ \A p \in Ports : thread[p].pc = "notifyFollowers" <=> thread[p].toNotify # <<>>

Live(u) == {p \in Ports : thread[p].profile = u /\ thread[p].pc \notin {"none", "closed"}}

\* A profile never has more than two sessions: the count that CONNECT reads
\* and the session it starts are far apart, and sessions end in between.
SessionCap ==
  \A u \in DOMAIN masterTable : Cardinality(masterTable[u].activeSessions) <= MaxSessions

\* The sessions a row counts are exactly those with a thread: no EXIT leaves a
\* dead one that would keep the user out, no session goes uncounted.
SessionsMatchThreads ==
  /\ \A u \in DOMAIN masterTable : masterTable[u].activeSessions = Live(u)
  /\ \A p \in Ports : thread[p].pc # "none" => thread[p].profile \in DOMAIN masterTable

\* Behind the two: the loop holds the row it needs, and a free place in it from
\* the count until the session starts; ports are handed out in order, each to a
\* thread whose profile has a row.
LoopHoldsRow ==
  /\ loop.pc \in {"save", "count", "start"} => loop.profile \in DOMAIN masterTable
  /\ loop.pc = "insert" => loop.profile \in Profiles \ DOMAIN masterTable
  /\ loop.pc # "receive" => nextClientPort <= LastPort
LoopHoldsPlace ==
  /\ loop.pc = "save" => masterTable[loop.profile].activeSessions = {}
  /\ loop.pc = "start" =>
       Cardinality(masterTable[loop.profile].activeSessions) < MaxSessions
PortsInOrder == \A p \in Ports : thread[p].pc = "none" <=> p >= nextClientPort
SessionInv == /\ TypeOK /\ LoopHoldsRow /\ LoopHoldsPlace /\ PortsInOrder
              /\ SessionsMatchThreads /\ SessionCap

\* The followers that SEND will look up in vain, by a list or by the copy of one
\* that it works on.
Rowless ==
  {v \in Profiles \ DOMAIN masterTable :
     \/ \E u \in DOMAIN masterTable : Listed(v, masterTable[u].followers)
     \/ \E p \in Ports : Listed(v, thread[p].toNotify)}

\* Only the file brings such a follower: no step makes one more, however FOLLOW,
\* SEND, EXIT and CONNECT of several sessions meet, and who has a row keeps it.
OnlyTheFileLosesRows == [][Rowless' \subseteq Rowless]_vars

Times(follower, list) == Cardinality({i \in DOMAIN list : list[i] = follower})

\* What loadBackup may find was saved by such a server, all of it or some.
ASSUME BackupsAssumption ==
  \A table \in Backups : \A u \in DOMAIN table : \A v \in Profiles :
    Times(v, table[u]) <= MaxSessions

\* Two sessions of a profile that follow at the same time may list it twice,
\* and no more than that: what one FOLLOW lists, every later one finds.
FewDuplicates ==
  \A u \in DOMAIN masterTable, v \in Profiles :
    Times(v, masterTable[u].followers)
      + Cardinality({p \in Live(v) : thread[p].pc = "addFollower" /\ thread[p].following = u})
      <= MaxSessions

\* What a session is sent never goes back in time, whatever the other session
\* of the profile pops meanwhile.
InOrder == [][\A p \in Ports : lastSent'[p] >= lastSent[p]]_vars

Listening(u) == \E p \in Live(u) : thread[p].recievedNoop /\ thread[p].pc # "close"

\* As long as a session of the profile listens, the head of its list is popped
\* in the end, however its sessions take turns with the mark.
Pending(u, n) == u \in DOMAIN masterTable /\ Listed(n, masterTable[u].messagesToReceive)
InboxDrains ==
  \A u \in Profiles : \A n \in 1 .. MaxPosts :
    (Pending(u, n) /\ Listening(u)) ~> (~Pending(u, n) \/ ~Listening(u) \/ crashed)

\* FOLLOW asks notDuplicateFollowing first and answers "You're already
\* following": a follower is to be listed once.
FollowersListedOnce ==
  \A u, v \in DOMAIN masterTable : Times(v, masterTable[u].followers) <= 1

\* "check if theres a new tweet to read": a session that goes on to read the
\* head of the list is to find one there.
NoReadOfEmptyList ==
  \A p \in Ports : thread[p].pc \in {"get", "pop", "popFront"} => Row(p).messagesToReceive # <<>>

\* A profile that has one session at a time is shown its notifications as Mailbox
\* says, each one once and in order, however many sessions the others have.
ShownTo(u) ==
  LET sent == {lastSent[p] : p \in {q \in Ports : thread[q].profile = u}}
  IN  CHOOSE n \in sent \cup {0} : \A m \in sent : m <= n
Single == {u \in Profiles : ClientsPerProfile[u] = 1}
MB == INSTANCE Mailbox WITH Profiles <- Single,
                            posted <- [u \in Single |-> posted[u]],
                            shown <- [u \in Single |-> ShownTo(u)]
ImplementsMailbox == MB!Spec
=============================================================================
