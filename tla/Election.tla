------------------------------ MODULE Election -------------------------------
(***************************************************************************)
(* The servers: how a backup registers with the primary (ALIVE, BACKUP),   *)
(* how it finds out that the primary is gone (TIC, TOC), and the election  *)
(* of the next one (ELECTION, ANSWER, COORDINATOR).                        *)
(*                                                                         *)
(* A server is a process with a loop thread and, once an election has      *)
(* started, a detached election thread. The servers run on one host: the   *)
(* new primary takes the port of the old one there, and backups and        *)
(* clients never look for it anywhere else. Between processes of one host  *)
(* a datagram is not lost unless nobody holds the port, and datagrams to a *)
(* port keep their order; a reply may come after the 100 ms that its       *)
(* reader waits.                                                           *)
(***************************************************************************)
EXTENDS Naturals, Sequences, FiniteSets

CONSTANTS
  Servers,       \* the processes, by their pid
  First,         \* the one started as primary
  Nobody,        \* the holder of a free port; the sender of nothing
  Registered,    \* the backups that registered before the behaviour begins
  Late,          \* may a reply come after its reader has gone
  MaxCrashes,    \* bound: servers killed
  MaxElections,  \* bound: elections a server starts
  MaxInbox       \* bound: a TIC or a repeated COORDINATOR waits for a shorter inbox

ASSUME ElectionAssumption ==
  /\ Servers \subseteq Nat /\ IsFiniteSet(Servers)
  /\ First \in Servers /\ Nobody \notin Servers
  /\ Registered \subseteq Servers \ {First}
  /\ Late \in BOOLEAN
  /\ MaxCrashes \in Nat /\ MaxElections \in Nat /\ MaxInbox \in Nat

Threads == 1 .. MaxElections

VARIABLES
  server,       \* loop thread, isPrimary, electionStarted and backupServers
  election,     \* the election threads of each server
  primaryPort,  \* who has bound the port of the primary
  inbox,        \* the datagrams in the socket of each server
  answers,      \* those in its primaryConnection: a server to add, or Nobody
  crashes

vars == <<server, election, primaryPort, inbox, answers, crashes>>

(* closing: the loop may still be in recvfrom of the socket that changePort *)
(* has closed.                                                              *)
NewServer == [loop |-> "off", isPrimary |-> FALSE, electionStarted |-> FALSE,
              backupServers |-> <<>>, closing |-> FALSE]

(* The walk of an election thread over backupServers: the vector as its     *)
(* loop sees it, the place it is at and whom it found there.                *)
NewThread == [pc |-> "none", walk |-> <<>>, at |-> 1, peer |-> Nobody,
              reply |-> FALSE, torn |-> FALSE]

Orders == {order \in [1 .. Cardinality(Registered) -> Registered] :
             \A i, j \in 1 .. Cardinality(Registered) : i # j => order[i] # order[j]}

Without(list, s) ==
  LET others[n \in 0 .. Len(list)] ==
        IF n = 0 THEN <<>>
        ELSE IF list[n] = s THEN others[n - 1] ELSE Append(others[n - 1], list[n])
  IN  others[Len(list)]

Init ==
  /\ \E order \in Orders :
       server = [s \in Servers |->
         IF s = First
         THEN [NewServer EXCEPT !.loop = "primary", !.isPrimary = TRUE, !.backupServers = order]
         ELSE IF s \in Registered
         THEN [NewServer EXCEPT !.loop = "backup", !.backupServers = Without(order, s)]
         ELSE NewServer]
  /\ election = [s \in Servers |-> [e \in Threads |-> NewThread]]
  /\ primaryPort = First
  /\ inbox = [s \in Servers |-> <<>>]
  /\ answers = [s \in Servers |-> <<>>]
  /\ crashes = 0

Alive(s) == server[s].loop \notin {"off", "dead"}
Known(s) == {server[s].backupServers[i] : i \in DOMAIN server[s].backupServers}

-----------------------------------------------------------------------------
(* Datagrams. A request names the thread and the place in its walk whose    *)
(* connection waits for the reply.                                          *)

Request(type, from) == [type |-> type, from |-> from, thread |-> 0, at |-> 0]
RequestOf(type, s, e) == [type |-> type, from |-> s, thread |-> e, at |-> election[s][e].at]

\* To a server's own port, which changePort closes.
PortOpen(t) == Alive(t) /\ (primaryPort # t \/ server[t].closing)
Send(t, m) == inbox' = IF PortOpen(t) THEN [inbox EXCEPT ![t] = Append(@, m)] ELSE inbox

\* To the port of the primary.
SendToPrimary(m) ==
  inbox' = IF primaryPort \in Servers THEN [inbox EXCEPT ![primaryPort] = Append(@, m)]
           ELSE inbox

\* The reader gives up: nothing has come, and if replies are never late
\* nothing will.
GivesUp(s, type) ==
  Late \/ \A t \in Servers : \A k \in DOMAIN inbox[t] :
            ~(inbox[t][k].from = s /\ inbox[t][k].type = type)

Set(s, new) == server' = [server EXCEPT ![s] = new]
SetThread(s, e, new) == election' = [election EXCEPT ![s][e] = new]

\* A thread of the process throws, or the process is killed.
Die(s) ==
  /\ Set(s, [NewServer EXCEPT !.loop = "dead"])
  /\ election' = [election EXCEPT ![s] = [e \in Threads |-> NewThread]]
  /\ primaryPort' = IF primaryPort = s THEN Nobody ELSE primaryPort
  /\ inbox' = [inbox EXCEPT ![s] = <<>>]
  /\ answers' = [answers EXCEPT ![s] = <<>>]

Crash(s) ==
  /\ Alive(s)
  /\ crashes < MaxCrashes
  /\ crashes' = crashes + 1
  /\ Die(s)

-----------------------------------------------------------------------------
(* The constructor of a backup.                                             *)

Register(s) ==
  /\ server[s].loop = "off"
  /\ Set(s, [server[s] EXCEPT !.loop = "register"])
  /\ SendToPrimary(Request("ALIVE", s))
  /\ UNCHANGED <<election, primaryPort, answers, crashes>>

\* Mutant: whatever answers is taken for a backup.
HearOfAnything(s) ==
  /\ server[s].loop = "register"
  /\ answers[s] # <<>>
  /\ answers' = [answers EXCEPT ![s] = Tail(@)]
  /\ Set(s, [server[s] EXCEPT !.backupServers = Append(@, Head(answers[s]))])
  /\ UNCHANGED <<election, primaryPort, inbox, crashes>>

HearOfBackup(s) ==
  /\ server[s].loop = "register"
  /\ answers[s] # <<>>
  /\ answers' = [answers EXCEPT ![s] = Tail(@)]
  /\ Set(s, IF Head(answers[s]) = Nobody THEN server[s]
            ELSE [server[s] EXCEPT !.backupServers = Append(@, Head(answers[s]))])
  /\ UNCHANGED <<election, primaryPort, inbox, crashes>>

HearNoMore(s) ==
  /\ server[s].loop = "register"
  /\ answers[s] = <<>>
  /\ GivesUp(s, "ALIVE")
  /\ Set(s, [server[s] EXCEPT !.loop = "backup"])
  /\ UNCHANGED <<election, primaryPort, inbox, answers, crashes>>

-----------------------------------------------------------------------------
(* An election starts unless electionStarted says that one has.             *)

FreeThreads(s) == {e \in Threads : election[s][e].pc = "none"}
NextThread(s) == CHOOSE e \in FreeThreads(s) : \A f \in FreeThreads(s) : e <= f

MayStart(s) == ~server[s].electionStarted => FreeThreads(s) # {}
Started(s) == IF server[s].electionStarted THEN election
              ELSE [election EXCEPT ![s][NextThread(s)].pc = "begin"]

-----------------------------------------------------------------------------
(* backupLoop.                                                              *)

SendTic(s) ==
  /\ server[s].loop = "backup" /\ ~server[s].isPrimary /\ ~server[s].electionStarted
  /\ primaryPort \in Servers => Len(inbox[primaryPort]) < MaxInbox
  /\ Set(s, [server[s] EXCEPT !.loop = "listenToc"])
  /\ SendToPrimary(Request("TIC", s))
  /\ UNCHANGED <<election, primaryPort, answers, crashes>>

\* Whatever comes counts, a reply to ALIVE or to an earlier TIC included.
HearToc(s) ==
  /\ server[s].loop = "listenToc"
  /\ answers[s] # <<>>
  /\ answers' = [answers EXCEPT ![s] = Tail(@)]
  /\ Set(s, [server[s] EXCEPT !.loop = "backup"])
  /\ UNCHANGED <<election, primaryPort, inbox, crashes>>

HearNoToc(s) ==
  /\ server[s].loop = "listenToc"
  /\ answers[s] = <<>>
  /\ GivesUp(s, "TIC")
  /\ MayStart(s)
  /\ election' = Started(s)
  /\ Set(s, [server[s] EXCEPT !.loop = "backup", !.electionStarted = TRUE])
  /\ UNCHANGED <<primaryPort, inbox, answers, crashes>>

LeaveOldPort(s) ==
  /\ server[s].closing
  /\ Set(s, [server[s] EXCEPT !.closing = FALSE])
  /\ UNCHANGED <<election, primaryPort, inbox, answers, crashes>>

LeaveBackupLoop(s) ==
  /\ server[s].loop = "backup" /\ server[s].isPrimary
  /\ Set(s, [server[s] EXCEPT !.loop = "primary", !.closing = FALSE])
  /\ UNCHANGED <<election, primaryPort, inbox, answers, crashes>>

-----------------------------------------------------------------------------
(* Server::execute, called by backupLoop and primaryLoop.                   *)

Receives(s, type) ==
  /\ server[s].loop \in {"backup", "primary"}
  /\ inbox[s] # <<>>
  /\ Head(inbox[s]).type = type

Handled(s) == inbox' = [inbox EXCEPT ![s] = Tail(@)]
Back(s) == [server[s] EXCEPT !.closing = FALSE]
ReplyTo(t, what) ==
  answers' = IF Alive(t) THEN [answers EXCEPT ![t] = @ \o what] ELSE answers

Walking == {"ask", "listenAnswer", "announce", "listenReply"}

\* What an election thread finds in the vector once the loop has assigned it a
\* new list: the new elements and, past them, the old ones.
Overlaid(walk, list) == [i \in DOMAIN walk |-> IF i <= Len(list) THEN list[i] ELSE walk[i]]
Torn(s, list) ==
  [election EXCEPT ![s] = [e \in Threads |->
     LET thread == election[s][e]
     IN  IF thread.pc \in Walking
         THEN [thread EXCEPT !.torn = TRUE, !.walk = Overlaid(thread.walk, list)]
         ELSE thread]]

\* Mutant: the new backup is added before the others are listed to it.
ReceiveAliveEarly(s) ==
  /\ Receives(s, "ALIVE")
  /\ LET new == Head(inbox[s]).from
         list == Append(server[s].backupServers, new)
     IN  /\ inbox' = [t \in Servers |->
              IF t = s THEN Tail(inbox[s])
              ELSE IF t \in Known(s) /\ PortOpen(t) THEN Append(inbox[t], Request("BACKUP", new))
              ELSE inbox[t]]
         /\ ReplyTo(new, list \o <<Nobody>>)
         /\ Set(s, [Back(s) EXCEPT !.backupServers = list]) /\ election' = Torn(s, list)
  /\ UNCHANGED <<primaryPort, crashes>>

ReceiveAlive(s) ==
  /\ Receives(s, "ALIVE")
  /\ LET new == Head(inbox[s]).from
         list == Append(server[s].backupServers, new)
     IN  /\ inbox' = [t \in Servers |->
              IF t = s THEN Tail(inbox[s])
              ELSE IF t \in Known(s) /\ PortOpen(t) THEN Append(inbox[t], Request("BACKUP", new))
              ELSE inbox[t]]
         /\ ReplyTo(new, server[s].backupServers \o <<Nobody>>)
         /\ Set(s, [Back(s) EXCEPT !.backupServers = list]) /\ election' = Torn(s, list)
  /\ UNCHANGED <<primaryPort, crashes>>

ReceiveBackup(s) ==
  /\ Receives(s, "BACKUP")
  /\ LET list == Append(server[s].backupServers, Head(inbox[s]).from)
     IN  Set(s, [Back(s) EXCEPT !.backupServers = list]) /\ election' = Torn(s, list)
  /\ Handled(s)
  /\ UNCHANGED <<primaryPort, answers, crashes>>

ReceiveTic(s) ==
  /\ Receives(s, "TIC")
  /\ Set(s, Back(s))
  /\ ReplyTo(Head(inbox[s]).from, <<Nobody>>)
  /\ Handled(s)
  /\ UNCHANGED <<election, primaryPort, crashes>>

(* A reply reaches the election thread that waits for it, and is lost when  *)
(* the thread has gone on and closed the connection.                        *)
Replied(threads, m, pc) ==
  IF threads[m.from][m.thread].pc = pc /\ threads[m.from][m.thread].at = m.at
  THEN [threads EXCEPT ![m.from][m.thread].reply = TRUE]
  ELSE threads

\* Mutant: the election is marked as started, and no thread runs it.
ReceiveElectionIdly(s) ==
  /\ Receives(s, "ELECTION")
  /\ Head(inbox[s]).from < s
  /\ Set(s, [Back(s) EXCEPT !.electionStarted = TRUE])
  /\ election' = Replied(election, Head(inbox[s]), "listenAnswer")
  /\ Handled(s)
  /\ UNCHANGED <<primaryPort, answers, crashes>>

\* It comes from smaller pids only, and its answer is ANSWER.
ReceiveElection(s) ==
  /\ Receives(s, "ELECTION")
  /\ Head(inbox[s]).from < s
  /\ MayStart(s)
  /\ Set(s, [Back(s) EXCEPT !.electionStarted = TRUE])
  /\ election' = Replied(Started(s), Head(inbox[s]), "listenAnswer")
  /\ Handled(s)
  /\ UNCHANGED <<primaryPort, answers, crashes>>

\* Mutant: the coordinator stays in the list.
ReceiveCoordinatorKeep(s) ==
  /\ Receives(s, "COORDINATOR")
  /\ Set(s, [Back(s) EXCEPT !.electionStarted = FALSE])
  /\ election' = Replied(election, Head(inbox[s]), "listenReply")
  /\ Handled(s)
  /\ UNCHANGED <<primaryPort, answers, crashes>>

ReceiveCoordinator(s) ==
  /\ Receives(s, "COORDINATOR")
  /\ LET list == Without(server[s].backupServers, Head(inbox[s]).from)
     IN  /\ Set(s, [Back(s) EXCEPT !.backupServers = list, !.electionStarted = FALSE])
         /\ election' = Replied(Torn(s, list), Head(inbox[s]), "listenReply")
  /\ Handled(s)
  /\ UNCHANGED <<primaryPort, answers, crashes>>

-----------------------------------------------------------------------------
(* electionLoop on a thread of its own. Past the end of its walk it takes   *)
(* the port, or announces no more.                                          *)

BeginElection(s, e) ==
  /\ election[s][e].pc = "begin"
  /\ SetThread(s, e, [NewThread EXCEPT !.pc = "ask", !.walk = server[s].backupServers])
  /\ UNCHANGED <<server, primaryPort, inbox, answers, crashes>>

AtEnd(s, e) == election[s][e].at > Len(election[s][e].walk)
Peer(s, e) == election[s][e].walk[election[s][e].at]
GoOn(thread, pc) == [thread EXCEPT !.pc = pc, !.at = @ + 1, !.peer = Nobody, !.reply = FALSE]

\* Mutant: the greater are skipped as well.
SkipAll(s, e) ==
  /\ election[s][e].pc = "ask" /\ ~AtEnd(s, e)
  /\ SetThread(s, e, GoOn(election[s][e], "ask"))
  /\ UNCHANGED <<server, primaryPort, inbox, answers, crashes>>

SkipSmaller(s, e) ==
  /\ election[s][e].pc = "ask" /\ ~AtEnd(s, e)
  /\ s > Peer(s, e)
  /\ SetThread(s, e, GoOn(election[s][e], "ask"))
  /\ UNCHANGED <<server, primaryPort, inbox, answers, crashes>>

AskGreater(s, e) ==
  /\ election[s][e].pc = "ask" /\ ~AtEnd(s, e)
  /\ s <= Peer(s, e)
  /\ SetThread(s, e, [election[s][e] EXCEPT !.pc = "listenAnswer", !.peer = Peer(s, e)])
  /\ Send(Peer(s, e), RequestOf("ELECTION", s, e))
  /\ UNCHANGED <<server, primaryPort, answers, crashes>>

HearAnswer(s, e) ==
  /\ election[s][e].pc = "listenAnswer"
  /\ election[s][e].reply
  /\ SetThread(s, e, [NewThread EXCEPT !.pc = "ended"])
  /\ UNCHANGED <<server, primaryPort, inbox, answers, crashes>>

HearNoAnswer(s, e) ==
  /\ election[s][e].pc = "listenAnswer"
  /\ ~election[s][e].reply
  /\ GivesUp(s, "ELECTION")
  /\ SetThread(s, e, GoOn(election[s][e], "ask"))
  /\ UNCHANGED <<server, primaryPort, inbox, answers, crashes>>

BecomeCoordinator(s, e) ==
  /\ election[s][e].pc = "ask" /\ AtEnd(s, e)
  /\ SetThread(s, e, [election[s][e] EXCEPT !.pc = "changePort"])
  /\ UNCHANGED <<server, primaryPort, inbox, answers, crashes>>

\* Mutant: bind does not fail.
ChangePortShared(s, e) ==
  /\ election[s][e].pc = "changePort"
  /\ primaryPort' = s
  /\ Set(s, [server[s] EXCEPT !.closing = server[s].loop # "listenToc"])
  /\ inbox' = [inbox EXCEPT ![s] = <<>>]
  /\ SetThread(s, e, [NewThread EXCEPT !.pc = "announce", !.walk = server[s].backupServers])
  /\ UNCHANGED <<answers, crashes>>

\* changePort: its own port is closed with what is unread in it, and that of
\* the primary bound.
ChangePort(s, e) ==
  /\ election[s][e].pc = "changePort"
  /\ primaryPort \in {Nobody, s}
  /\ primaryPort' = s
  /\ Set(s, [server[s] EXCEPT !.closing = server[s].loop # "listenToc"])
  /\ inbox' = [inbox EXCEPT ![s] = <<>>]
  /\ SetThread(s, e, [NewThread EXCEPT !.pc = "announce", !.walk = server[s].backupServers])
  /\ UNCHANGED <<answers, crashes>>

\* "Could not bind socket" is thrown on a detached thread.
BindFails(s, e) ==
  /\ election[s][e].pc = "changePort"
  /\ primaryPort \notin {Nobody, s}
  /\ Die(s)
  /\ UNCHANGED crashes

Announce(s, e) ==
  /\ election[s][e].pc = "announce" /\ ~AtEnd(s, e)
  /\ SetThread(s, e, [election[s][e] EXCEPT !.pc = "listenReply", !.peer = Peer(s, e)])
  /\ Send(Peer(s, e), RequestOf("COORDINATOR", s, e))
  /\ UNCHANGED <<server, primaryPort, answers, crashes>>

HearReply(s, e) ==
  /\ election[s][e].pc = "listenReply"
  /\ election[s][e].reply
  /\ SetThread(s, e, GoOn(election[s][e], "announce"))
  /\ UNCHANGED <<server, primaryPort, inbox, answers, crashes>>

\* No reply, and once more, for as long as it takes.
AnnounceAgain(s, e) ==
  /\ election[s][e].pc = "listenReply"
  /\ ~election[s][e].reply
  /\ GivesUp(s, "COORDINATOR")
  /\ Len(inbox[election[s][e].peer]) < MaxInbox
  /\ Send(election[s][e].peer, RequestOf("COORDINATOR", s, e))
  /\ UNCHANGED <<server, election, primaryPort, answers, crashes>>

BecomePrimary(s, e) ==
  /\ election[s][e].pc = "announce" /\ AtEnd(s, e)
  /\ Set(s, [server[s] EXCEPT !.isPrimary = TRUE])
  /\ SetThread(s, e, [NewThread EXCEPT !.pc = "ended"])
  /\ UNCHANGED <<primaryPort, inbox, answers, crashes>>

\* An entry that the loop has destroyed under the walk may still be readable,
\* or end the process.
DieOfTornWalk(s, e) ==
  /\ election[s][e].pc \in Walking /\ election[s][e].torn
  /\ Die(s)
  /\ UNCHANGED crashes

-----------------------------------------------------------------------------
Receive(s) == \/ ReceiveAlive(s) \/ ReceiveBackup(s) \/ ReceiveTic(s)
              \/ ReceiveElection(s) \/ ReceiveCoordinator(s)

LoopStep(s) ==
  \/ HearOfBackup(s) \/ HearNoMore(s)
  \/ SendTic(s) \/ HearToc(s) \/ HearNoToc(s) \/ LeaveOldPort(s) \/ LeaveBackupLoop(s)
  \/ Receive(s)

ElectionStep(s, e) ==
  \/ BeginElection(s, e) \/ SkipSmaller(s, e) \/ AskGreater(s, e)
  \/ HearAnswer(s, e) \/ HearNoAnswer(s, e) \/ BecomeCoordinator(s, e)
  \/ ChangePort(s, e) \/ BindFails(s, e)
  \/ Announce(s, e) \/ HearReply(s, e) \/ AnnounceAgain(s, e) \/ BecomePrimary(s, e)

Next == \E s \in Servers :
          \/ Register(s) \/ LoopStep(s) \/ Crash(s)
          \/ \E e \in Threads : ElectionStep(s, e) \/ DieOfTornWalk(s, e)

(* Both threads of a server keep running.                                   *)
Fairness == \A s \in Servers : /\ WF_vars(LoopStep(s))
                               /\ \A e \in Threads : WF_vars(ElectionStep(s, e))

Spec == Init /\ [][Next]_vars
FairSpec == Spec /\ Fairness

-----------------------------------------------------------------------------
(* Properties.                                                              *)

Loops == {"off", "register", "backup", "listenToc", "primary", "dead"}
PCs == {"none", "begin", "ask", "listenAnswer", "changePort", "announce", "listenReply", "ended"}
ServerType == [loop : Loops, isPrimary : BOOLEAN, electionStarted : BOOLEAN,
               backupServers : Seq(Servers), closing : BOOLEAN]
ThreadType == [pc : PCs, walk : Seq(Servers), at : Nat \ {0}, peer : Servers \cup {Nobody},
               reply : BOOLEAN, torn : BOOLEAN]
RequestType == [type : {"ALIVE", "BACKUP", "TIC", "ELECTION", "COORDINATOR"},
                from : Servers, thread : Nat, at : Nat]

\* Every variable has its type.
TypeOK ==
  /\ server \in [Servers -> ServerType]
  /\ election \in [Servers -> [Threads -> ThreadType]]
  /\ primaryPort \in Servers \cup {Nobody}
  /\ inbox \in [Servers -> Seq(RequestType)]
  /\ answers \in [Servers -> Seq(Servers \cup {Nobody})]
  /\ crashes \in 0 .. MaxCrashes

\* However the elections of several servers interleave and whoever dies in
\* them, one server at most is primary, and it is the one at the port that
\* backups and clients know.
OnePrimary == \A s \in Servers : server[s].isPrimary => primaryPort = s

\* A coordinator that has announced itself is a backup no more: nobody it
\* knows and announced itself to would ask it again, or replicate to it.
CoordinatorForgotten ==
  \A s, t \in Servers :
    server[s].isPrimary /\ t \in Known(s) => s \notin Known(t)

\* Backups learn of each other through the primary, the earlier ones by a
\* datagram and the later one by the replies to its ALIVE: of two that have
\* registered each knows the other or is about to, and none knows itself, for
\* as long as that primary lives and replies in time.
AboutToKnow(s, t) == \/ t \in Known(s)
                     \/ \E k \in DOMAIN inbox[s] : inbox[s][k] = Request("BACKUP", t)
Registering(s) == server[s].loop \in {"off", "register"}
Acquainted ==
  \A s, t \in Servers \ {First} :
    Alive(First) /\ Alive(s) /\ ~Registering(s) /\ Alive(t) /\ ~Registering(t)
      => (AboutToKnow(s, t) <=> s # t)

\* When replies are in time the greatest wins: who is about to take a free port
\* has found no greater server that is alive, unless its loop has assigned the
\* vector under its walk.
Found(s, e) == {election[s][e].walk[i] : i \in DOMAIN election[s][e].walk}
HighestWins ==
  \A s \in Servers : \A e \in Threads :
    election[s][e].pc = "changePort" /\ ~election[s][e].torn /\ primaryPort = Nobody
      => \A t \in Found(s, e) : Alive(t) => t < s

\* A port that the first death of a server left free is taken again by a backup:
\* asking, answering and giving up, they do not all leave it to each other. It holds
\* when replies are in time and whoever registers meanwhile has the greatest pid.
\* Of a second death nothing is said; and a coordinator may die of the vector that
\* grows while it announces itself.
Dead == {s \in Servers : server[s].loop = "dead"}
PortServed ==
  (primaryPort = Nobody /\ Cardinality(Dead) = 1 /\ \E s \in Servers : Alive(s))
    ~> primaryPort # Nobody

\* changePort checks that it could bind, and throws "Could not bind socket": a
\* coordinator is to find the port free.
BindSucceeds ==
  \A s \in Servers : \A e \in Threads :
    election[s][e].pc = "changePort" => primaryPort \in {Nobody, s}
=============================================================================
