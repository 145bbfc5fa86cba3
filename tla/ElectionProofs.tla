--------------------------- MODULE ElectionProofs ----------------------------
(***************************************************************************)
(* One primary at most, and at the port that everybody knows, for any      *)
(* number of servers, crashes, late replies and elections; and who has     *)
(* heard of whom: a coordinator is forgotten by all that it knows, the     *)
(* greatest wins, and backups of a primary that lives know each other.     *)
(*                                                                         *)
(* The argument for the first: only a thread that announces makes its server primary; it *)
(* announces only since it took the port; and a port once taken is given   *)
(* up only by the death of its holder, whose threads and whose role die    *)
(* with it.                                                                *)
(***************************************************************************)
EXTENDS Election, SequenceTheorems, FiniteSetTheorems, WellFoundedInduction, TLAPS

(* What of TypeOK the argument needs: which fields there are.               *)
ServerFields == {"loop", "isPrimary", "electionStarted", "backupServers", "closing"}
ThreadFields == {"pc", "walk", "at", "peer", "reply", "torn"}

Servers_OK(sv) == /\ DOMAIN sv = Servers
                  /\ \A s \in Servers : DOMAIN sv[s] = ServerFields
Threads_OK(el) == /\ DOMAIN el = Servers
                  /\ \A s \in Servers :
                       /\ DOMAIN el[s] = Threads
                       /\ \A e \in Threads : DOMAIN el[s][e] = ThreadFields

Announcing(el, s, e) == el[s][e].pc \in {"announce", "listenReply"}
AnnouncerHasPort ==
  \A s \in Servers : \A e \in Threads : Announcing(election, s, e) => primaryPort = s

PortInv == /\ Servers_OK(server) /\ Threads_OK(election)
           /\ OnePrimary /\ AnnouncerHasPort

-----------------------------------------------------------------------------
\* Replacing the state of one server leaves the others alone.
LEMMA SetOne ==
  ASSUME Servers_OK(server), NEW s \in Servers, NEW new, DOMAIN new = ServerFields,
         Set(s, new)
  PROVE  /\ Servers_OK(server')
         /\ server'[s] = new
         /\ \A t \in Servers : t # s => server'[t] = server[t]
BY DEF Servers_OK, Set

\* Replacing one election thread leaves the others alone.
LEMMA SetOneThread ==
  ASSUME Threads_OK(election), NEW s \in Servers, NEW e \in Threads, NEW new,
         DOMAIN new = ThreadFields, SetThread(s, e, new)
  PROVE  /\ Threads_OK(election')
         /\ election'[s][e] = new
         /\ \A t \in Servers : \A f \in Threads :
              <<t, f>> # <<s, e>> => election'[t][f] = election[t][f]
BY DEF Threads_OK, SetThread

\* A thread that has ended, or begins, has all its fields.
LEMMA NewFields == DOMAIN NewServer = ServerFields /\ DOMAIN NewThread = ThreadFields
BY DEF NewServer, NewThread, ServerFields, ThreadFields

\* A step that moves neither the port nor a server into primacy nor a thread
\* into its announcement keeps the invariant.
LEMMA QuietStep ==
  ASSUME PortInv, Servers_OK(server'), Threads_OK(election'), primaryPort' = primaryPort,
         \A t \in Servers : server'[t].isPrimary => server[t].isPrimary,
         \A t \in Servers : \A f \in Threads :
           Announcing(election', t, f) => Announcing(election, t, f)
  PROVE  PortInv'
BY DEF PortInv, OnePrimary, AnnouncerHasPort

\* The death of a server takes its role and its threads with it.
LEMMA DeathKeeps ==
  ASSUME ElectionAssumption, PortInv, NEW s \in Servers, Die(s)
  PROVE  PortInv'
<1>1. /\ Servers_OK(server')
      /\ server'[s].isPrimary = FALSE
      /\ \A t \in Servers : t # s => server'[t] = server[t]
  <2>1. DOMAIN [NewServer EXCEPT !.loop = "dead"] = ServerFields
    BY NewFields
  <2>2. [NewServer EXCEPT !.loop = "dead"].isPrimary = FALSE
    BY DEF NewServer
  <2> QED BY <2>1, <2>2, SetOne DEF PortInv, Die
<1>2. /\ Threads_OK(election')
      /\ \A f \in Threads : election'[s][f] = NewThread
      /\ \A t \in Servers : t # s => election'[t] = election[t]
  BY NewFields DEF PortInv, Threads_OK, Die
<1>3. NewThread.pc = "none"
  BY DEF NewThread
<1>4. \A t \in Servers : t # s /\ primaryPort = t => primaryPort' = t
  BY DEF Die
<1>5. OnePrimary'
  BY <1>1, <1>4 DEF PortInv, OnePrimary
<1>6. AnnouncerHasPort'
  BY <1>2, <1>3, <1>4 DEF PortInv, AnnouncerHasPort, Announcing
<1> QED BY <1>1, <1>2, <1>5, <1>6 DEF PortInv

\* A reply changes nothing of a thread but that it has come.
LEMMA ReplyKeeps ==
  ASSUME NEW threads, Threads_OK(threads), NEW m, NEW pc
  PROVE  /\ Threads_OK(Replied(threads, m, pc))
         /\ \A t \in Servers : \A f \in Threads :
              Replied(threads, m, pc)[t][f].pc = threads[t][f].pc
BY DEF Threads_OK, Replied, ThreadFields

\* A new election only begins.
LEMMA StartKeeps ==
  ASSUME PortInv, NEW s \in Servers, MayStart(s)
  PROVE  /\ Threads_OK(Started(s))
         /\ \A t \in Servers : \A f \in Threads :
              Announcing(Started(s), t, f) => Announcing(election, t, f)
<1>1. CASE server[s].electionStarted
  BY <1>1 DEF Started, PortInv
<1>2. CASE ~server[s].electionStarted
  BY <1>2 DEF Started, PortInv, Threads_OK, ThreadFields, Announcing
<1> QED BY <1>1, <1>2

\* A changed vector changes nothing of a thread but its walk.
LEMMA TornKeeps ==
  ASSUME PortInv, NEW s \in Servers, NEW list
  PROVE  /\ Threads_OK(Torn(s, list))
         /\ \A t \in Servers : \A f \in Threads :
              Torn(s, list)[t][f].pc = election[t][f].pc
BY DEF PortInv, Threads_OK, Torn, ThreadFields

-----------------------------------------------------------------------------
\* What the loop thread does keeps the invariant: it never makes anybody
\* primary and never takes the port.
LEMMA LoopKeeps ==
  ASSUME PortInv, NEW s \in Servers, Register(s) \/ LoopStep(s)
  PROVE  PortInv'
<1> USE DEF PortInv
<1>set. ASSUME NEW new, DOMAIN new = ServerFields, new.isPrimary => server[s].isPrimary,
               Set(s, new)
        PROVE  /\ Servers_OK(server')
               /\ \A t \in Servers : server'[t].isPrimary => server[t].isPrimary
  BY <1>set, SetOne
<1>fields. DOMAIN server[s] = ServerFields
  BY DEF Servers_OK
<1>quiet. ASSUME Servers_OK(server'), UNCHANGED <<election, primaryPort>>,
                 \A t \in Servers : server'[t].isPrimary => server[t].isPrimary
          PROVE  PortInv'
  BY <1>quiet, QuietStep DEF Announcing
<1>back. /\ DOMAIN Back(s) = ServerFields
         /\ Back(s).isPrimary = server[s].isPrimary
  BY <1>fields DEF Back, ServerFields
<1>1. CASE Register(s)
  BY <1>1, <1>set, <1>fields, <1>quiet DEF Register, ServerFields
<1>2. CASE HearOfBackup(s)
  BY <1>2, <1>set, <1>fields, <1>quiet DEF HearOfBackup, ServerFields
<1>3. CASE HearNoMore(s) \/ SendTic(s) \/ HearToc(s) \/ LeaveOldPort(s) \/ LeaveBackupLoop(s)
  BY <1>3, <1>set, <1>fields, <1>quiet
     DEF HearNoMore, SendTic, HearToc, LeaveOldPort, LeaveBackupLoop, ServerFields
<1>4. CASE HearNoToc(s)
  <2>1. /\ Servers_OK(server')
        /\ \A t \in Servers : server'[t].isPrimary => server[t].isPrimary
    BY <1>4, <1>set, <1>fields DEF HearNoToc, ServerFields
  <2> QED BY <1>4, <2>1, StartKeeps, QuietStep DEF HearNoToc
<1>5. CASE ReceiveTic(s)
  BY <1>5, <1>set, <1>back, <1>quiet DEF ReceiveTic, ServerFields
<1>9. CASE ReceiveAlive(s)
  <2> DEFINE list == Append(server[s].backupServers, Head(inbox[s]).from)
  <2>1. /\ Servers_OK(server')
        /\ \A t \in Servers : server'[t].isPrimary => server[t].isPrimary
    BY <1>9, <1>set, <1>back DEF ReceiveAlive, ServerFields
  <2>2. election' = Torn(s, list) /\ primaryPort' = primaryPort
    BY <1>9 DEF ReceiveAlive
  <2> QED BY <2>1, <2>2, TornKeeps, QuietStep DEF Announcing
<1>6. CASE ReceiveBackup(s)
  <2> DEFINE list == Append(server[s].backupServers, Head(inbox[s]).from)
  <2>1. /\ Servers_OK(server')
        /\ \A t \in Servers : server'[t].isPrimary => server[t].isPrimary
    BY <1>6, <1>set, <1>back DEF ReceiveBackup, ServerFields
  <2>2. election' = Torn(s, list) /\ primaryPort' = primaryPort
    BY <1>6 DEF ReceiveBackup
  <2> QED BY <2>1, <2>2, TornKeeps, QuietStep DEF Announcing
<1>7. CASE ReceiveElection(s)
  <2> DEFINE request == Head(inbox[s])
  <2>1. /\ Servers_OK(server')
        /\ \A t \in Servers : server'[t].isPrimary => server[t].isPrimary
    BY <1>7, <1>set, <1>back DEF ReceiveElection, ServerFields
  <2>2. /\ MayStart(s) /\ primaryPort' = primaryPort
        /\ election' = Replied(Started(s), request, "listenAnswer")
    BY <1>7 DEF ReceiveElection
  <2>3. /\ Threads_OK(Started(s))
        /\ \A t \in Servers : \A f \in Threads :
             Announcing(Started(s), t, f) => Announcing(election, t, f)
    BY <2>2, StartKeeps
  <2>4. /\ Threads_OK(election')
        /\ \A t \in Servers : \A f \in Threads :
             Announcing(election', t, f) => Announcing(Started(s), t, f)
    BY <2>2, <2>3, ReplyKeeps DEF Announcing
  <2> QED BY <2>1, <2>2, <2>3, <2>4, QuietStep
<1>8. CASE ReceiveCoordinator(s)
  <2> DEFINE list == Without(server[s].backupServers, Head(inbox[s]).from)
             request == Head(inbox[s])
  <2>1. /\ Servers_OK(server')
        /\ \A t \in Servers : server'[t].isPrimary => server[t].isPrimary
    BY <1>8, <1>set, <1>back DEF ReceiveCoordinator, ServerFields
  <2>2. /\ primaryPort' = primaryPort
        /\ election' = Replied(Torn(s, list), request, "listenReply")
    BY <1>8 DEF ReceiveCoordinator
  <2>3. /\ Threads_OK(Torn(s, list))
        /\ \A t \in Servers : \A f \in Threads : Torn(s, list)[t][f].pc = election[t][f].pc
    BY TornKeeps
  <2>4. /\ Threads_OK(election')
        /\ \A t \in Servers : \A f \in Threads : election'[t][f].pc = Torn(s, list)[t][f].pc
    BY <2>2, <2>3, ReplyKeeps
  <2> QED BY <2>1, <2>2, <2>3, <2>4, QuietStep DEF Announcing
<1> QED BY <1>1, <1>2, <1>3, <1>4, <1>5, <1>6, <1>7, <1>8, <1>9 DEF LoopStep, Receive

\* What an election thread does keeps the invariant: it announces from the
\* moment it has the port, and makes its server primary when it is done.
LEMMA ElectionKeeps ==
  ASSUME ElectionAssumption, PortInv, NEW s \in Servers, NEW e \in Threads,
         ElectionStep(s, e) \/ DieOfTornWalk(s, e)
  PROVE  PortInv'
<1> USE DEF PortInv
<1> DEFINE thread == election[s][e]
<1>fields. DOMAIN thread = ThreadFields /\ DOMAIN server[s] = ServerFields
  BY DEF Threads_OK, Servers_OK
<1>move. ASSUME NEW new, DOMAIN new = ThreadFields, SetThread(s, e, new),
                new.pc \in {"announce", "listenReply"} => Announcing(election, s, e),
                UNCHANGED <<server, primaryPort>>
         PROVE  PortInv'
  <2>1. /\ Threads_OK(election')
        /\ \A t \in Servers : \A f \in Threads :
             Announcing(election', t, f) => Announcing(election, t, f)
    BY <1>move, SetOneThread DEF Announcing
  <2> QED BY <1>move, <2>1, QuietStep
<1>goOn. ASSUME NEW pc
         PROVE  DOMAIN GoOn(thread, pc) = ThreadFields /\ GoOn(thread, pc).pc = pc
  BY <1>fields DEF GoOn, ThreadFields
<1>new. ASSUME NEW pc
        PROVE  /\ DOMAIN [NewThread EXCEPT !.pc = pc] = ThreadFields
               /\ [NewThread EXCEPT !.pc = pc].pc = pc
  BY DEF NewThread, ThreadFields
<1>1. CASE BeginElection(s, e)
  <2>1. /\ DOMAIN [NewThread EXCEPT !.pc = "ask", !.walk = server[s].backupServers] = ThreadFields
        /\ [NewThread EXCEPT !.pc = "ask", !.walk = server[s].backupServers].pc = "ask"
    BY DEF NewThread, ThreadFields
  <2> QED BY <1>1, <2>1, <1>move DEF BeginElection
<1>2. CASE SkipSmaller(s, e) \/ HearNoAnswer(s, e)
  BY <1>2, <1>move, <1>goOn DEF SkipSmaller, HearNoAnswer
<1>3. CASE AskGreater(s, e)
  BY <1>3, <1>move, <1>fields DEF AskGreater, ThreadFields
<1>4. CASE HearAnswer(s, e)
  BY <1>4, <1>move, <1>new DEF HearAnswer
<1>5. CASE BecomeCoordinator(s, e)
  BY <1>5, <1>move, <1>fields DEF BecomeCoordinator, ThreadFields
<1>6. CASE ChangePort(s, e)
  <2>1. /\ Servers_OK(server')
        /\ \A t \in Servers : server'[t].isPrimary = server[t].isPrimary
    <3>1. /\ DOMAIN [server[s] EXCEPT !.closing = server[s].loop # "listenToc"] = ServerFields
          /\ [server[s] EXCEPT !.closing = server[s].loop # "listenToc"].isPrimary
               = server[s].isPrimary
      BY <1>fields DEF ServerFields
    <3> QED BY <1>6, <3>1, SetOne DEF ChangePort
  <2>2. /\ Threads_OK(election')
        /\ \A t \in Servers : \A f \in Threads :
             t # s => election'[t][f] = election[t][f]
    <3> DEFINE new == [NewThread EXCEPT !.pc = "announce", !.walk = server[s].backupServers]
    <3>1. DOMAIN new = ThreadFields
      BY DEF NewThread, ThreadFields
    <3>2. SetThread(s, e, new)
      BY <1>6 DEF ChangePort
    <3>3. /\ Threads_OK(election')
          /\ \A t \in Servers : \A f \in Threads :
               <<t, f>> # <<s, e>> => election'[t][f] = election[t][f]
      <4> HIDE DEF new
      <4> QED BY <3>1, <3>2, SetOneThread
    <3>4. \A t \in Servers : \A f \in Threads : t # s => <<t, f>> # <<s, e>>
      OBVIOUS
    <3> QED BY <3>3, <3>4
  <2>3. primaryPort \in {Nobody, s} /\ primaryPort' = s
    BY <1>6 DEF ChangePort
  <2>4. \A t \in Servers : primaryPort = t => t = s
    BY <2>3 DEF ElectionAssumption
  <2>5. OnePrimary'
    BY <2>1, <2>3, <2>4 DEF OnePrimary
  <2>6. AnnouncerHasPort'
    BY <2>2, <2>3, <2>4 DEF AnnouncerHasPort, Announcing
  <2> QED BY <2>1, <2>2, <2>5, <2>6
<1>7. CASE BindFails(s, e) \/ DieOfTornWalk(s, e)
  BY <1>7, DeathKeeps DEF BindFails, DieOfTornWalk
<1>8. CASE Announce(s, e)
  BY <1>8, <1>move, <1>fields DEF Announce, Announcing, ThreadFields
<1>9. CASE HearReply(s, e)
  BY <1>9, <1>move, <1>goOn DEF HearReply, Announcing
<1>10. CASE AnnounceAgain(s, e)
  BY <1>10, QuietStep DEF AnnounceAgain
<1>11. CASE BecomePrimary(s, e)
  <2>1. primaryPort = s /\ primaryPort' = primaryPort
    BY <1>11 DEF BecomePrimary, AnnouncerHasPort, Announcing
  <2>2. /\ Servers_OK(server')
        /\ \A t \in Servers : t # s => server'[t] = server[t]
    BY <1>11, <1>fields, SetOne DEF BecomePrimary, ServerFields
  <2>3. /\ Threads_OK(election')
        /\ \A t \in Servers : \A f \in Threads :
             Announcing(election', t, f) => Announcing(election, t, f)
    BY <1>11, <1>new, SetOneThread DEF BecomePrimary, Announcing
  <2>4. OnePrimary'
    BY <2>1, <2>2 DEF OnePrimary
  <2>5. AnnouncerHasPort'
    BY <2>1, <2>3 DEF AnnouncerHasPort
  <2> QED BY <2>2, <2>3, <2>4, <2>5
<1> QED BY <1>1, <1>2, <1>3, <1>4, <1>5, <1>6, <1>7, <1>8, <1>9, <1>10, <1>11 DEF ElectionStep

LEMMA PortInvInit == ElectionAssumption /\ Init => PortInv
<1> SUFFICES ASSUME ElectionAssumption, Init PROVE PortInv
  OBVIOUS
<1>1. Servers_OK(server)
  BY DEF Init, Servers_OK, NewServer, ServerFields
<1>2. Threads_OK(election)
  BY DEF Init, Threads_OK, NewThread, ThreadFields
<1>3. OnePrimary
  <2>1. PICK order \in Orders :
          server = [s \in Servers |->
            IF s = First
            THEN [NewServer EXCEPT !.loop = "primary", !.isPrimary = TRUE, !.backupServers = order]
            ELSE IF s \in Registered
            THEN [NewServer EXCEPT !.loop = "backup", !.backupServers = Without(order, s)]
            ELSE NewServer]
    BY DEF Init
  <2>2. ASSUME NEW s \in Servers, s # First PROVE server[s].isPrimary = FALSE
    BY <2>1, <2>2 DEF NewServer
  <2>3. primaryPort = First
    BY DEF Init
  <2> QED BY <2>2, <2>3 DEF OnePrimary
<1>4. AnnouncerHasPort
  BY DEF Init, AnnouncerHasPort, Announcing, NewThread
<1> QED BY <1>1, <1>2, <1>3, <1>4 DEF PortInv

LEMMA PortInvStep == ElectionAssumption /\ PortInv /\ [Next]_vars => PortInv'
<1> SUFFICES ASSUME ElectionAssumption, PortInv, [Next]_vars PROVE PortInv'
  OBVIOUS
<1>1. ASSUME NEW s \in Servers, Register(s) \/ LoopStep(s) PROVE PortInv'
  BY <1>1, LoopKeeps
<1>2. ASSUME NEW s \in Servers, Crash(s) PROVE PortInv'
  BY <1>2, DeathKeeps DEF Crash
<1>3. ASSUME NEW s \in Servers, NEW e \in Threads, ElectionStep(s, e) \/ DieOfTornWalk(s, e)
      PROVE PortInv'
  BY <1>3, ElectionKeeps
<1>4. CASE UNCHANGED vars
  BY <1>4 DEF vars, PortInv, Servers_OK, Threads_OK, OnePrimary, AnnouncerHasPort, Announcing
<1> QED BY <1>1, <1>2, <1>3, <1>4 DEF Next

\* Between them the servers have one primary at most, at the known port,
\* however late the replies of execute and whoever dies in electionLoop.
THEOREM OnePrimaryEver == Spec => []OnePrimary
<1>1. Init => PortInv
  BY PortInvInit, ElectionAssumption
<1>2. PortInv /\ [Next]_vars => PortInv'
  BY PortInvStep, ElectionAssumption
<1>3. PortInv => OnePrimary
  BY DEF PortInv
<1> QED BY <1>1, <1>2, <1>3, PTL DEF Spec
-----------------------------------------------------------------------------
-----------------------------------------------------------------------------
(* Lists of servers.                                                        *)

\* A set of numbers that holds the successor of each holds all.
LEMMA Upward ==
  ASSUME NEW N \in Nat, NEW P, 0 \in P, \A n \in 0 .. N - 1 : n \in P => n + 1 \in P
  PROVE  \A n \in 0 .. N : n \in P
<1> DEFINE R == {xy \in Nat \X Nat : xy[1] < xy[2]}
           Out == {n \in 0 .. N : n \notin P}
<1>1. SUFFICES ASSUME Out # {} PROVE FALSE
  OBVIOUS
<1>2. R = OpToRel(<, Nat)
  BY DEF OpToRel
<1>3. IsWellFoundedOn(R, Nat)
  BY Zenon, <1>2, NatLessThanWellFounded
<1>4. Out \subseteq Nat
  OBVIOUS
<1>5. \E n \in Out : \A m \in Out : ~(<<m, n>> \in R)
  <2> HIDE DEF R, Out
  <2> QED BY <1>1, <1>3, <1>4, WFMin
<1>6. PICK n \in Out : \A m \in Out : ~(m < n)
  BY <1>4, <1>5
<1>7. n # 0 /\ n \in 0 .. N /\ n \notin P
  BY <1>6
<1>8. n - 1 \in 0 .. N - 1 /\ n - 1 + 1 = n /\ n - 1 < n
  BY <1>7
<1>9. n - 1 \notin Out
  BY <1>6, <1>8
<1>10. n - 1 \in P
  BY <1>8, <1>9
<1> QED BY <1>7, <1>8, <1>10

(* What Without makes of the first n of a list, from what it made of the    *)
(* first n - 1.                                                             *)
OthersAt(list, s, f, n) ==
  IF n = 0 THEN <<>> ELSE IF list[n] = s THEN f[n - 1] ELSE Append(f[n - 1], list[n])
OthersUpTo(S, list, s, f, m) ==
  f \in [0 .. m -> Seq(S)] /\ \A n \in 0 .. m : f[n] = OthersAt(list, s, f, n)
OthersOf(S, list, s, q, n) ==
  /\ q \in Seq(S)
  /\ \A t : (\E i \in DOMAIN q : q[i] = t) <=> t # s /\ \E i \in 1 .. n : list[i] = t

LEMMA OthersGoOn ==
  ASSUME NEW S, NEW list, NEW s, NEW m \in Nat, list[m + 1] \in S,
         NEW f, OthersUpTo(S, list, s, f, m)
  PROVE  \E g : OthersUpTo(S, list, s, g, m + 1)
<1> DEFINE new == IF list[m + 1] = s THEN f[m] ELSE Append(f[m], list[m + 1])
           g == [n \in 0 .. m + 1 |-> IF n = m + 1 THEN new ELSE f[n]]
<1>1. f[m] \in Seq(S) /\ \A n \in 0 .. m : f[n] \in Seq(S)
  BY DEF OthersUpTo
<1>2. new \in Seq(S)
  BY <1>1
<1> HIDE DEF new
<1>3. /\ \A n \in 0 .. m : g[n] = f[n]
      /\ g[m + 1] = new
  OBVIOUS
<1>4. g \in [0 .. m + 1 -> Seq(S)]
  BY <1>1, <1>2
<1> HIDE DEF g
<1>5. ASSUME NEW n \in 0 .. m + 1 PROVE g[n] = OthersAt(list, s, g, n)
  <2>1. CASE n = m + 1
    <3>1. n # 0 /\ n - 1 = m /\ g[m] = f[m]
      BY <1>3, <2>1
    <3> QED BY <1>3, <2>1, <3>1 DEF OthersAt, new
  <2>2. CASE n # m + 1
    <3>1. n \in 0 .. m
      BY <2>2
    <3>2. g[n] = f[n] /\ f[n] = OthersAt(list, s, f, n)
      BY <1>3, <3>1 DEF OthersUpTo
    <3>3. n # 0 => n - 1 \in 0 .. m
      BY <3>1
    <3>4. n # 0 => g[n - 1] = f[n - 1]
      BY <1>3, <3>3
    <3> QED BY <3>2, <3>4 DEF OthersAt
  <2> QED BY <2>1, <2>2
<1>6. OthersUpTo(S, list, s, g, m + 1)
  BY <1>4, <1>5 DEF OthersUpTo
<1> QED BY <1>6

LEMMA OthersGrow ==
  ASSUME NEW S, NEW list, NEW s, NEW m \in Nat, list[m + 1] \in S,
         NEW q \in Seq(S), OthersOf(S, list, s, q, m),
         NEW r, r = IF list[m + 1] = s THEN q ELSE Append(q, list[m + 1])
  PROVE  OthersOf(S, list, s, r, m + 1)
<1>1. \A t : (\E i \in 1 .. m + 1 : list[i] = t) <=> t = list[m + 1] \/ \E i \in 1 .. m : list[i] = t
  OBVIOUS
<1>2. CASE list[m + 1] = s
  BY <1>1, <1>2 DEF OthersOf
<1>3. CASE list[m + 1] # s
  <2>1. /\ Len(q) \in Nat /\ DOMAIN q = 1 .. Len(q) /\ r \in Seq(S)
        /\ DOMAIN r = 1 .. Len(q) + 1 /\ r[Len(q) + 1] = list[m + 1]
        /\ \A i \in 1 .. Len(q) : r[i] = q[i]
    BY <1>3
  <2>2. \A t : (\E i \in DOMAIN r : r[i] = t) <=> t = list[m + 1] \/ \E i \in DOMAIN q : q[i] = t
    BY <2>1
  <2> QED BY <1>1, <1>3, <2>1, <2>2 DEF OthersOf
<1> QED BY <1>2, <1>3

In(t, list) == \E i \in DOMAIN list : list[i] = t

\* Without the server s a list has the others.
LEMMA WithoutIs ==
  ASSUME NEW S, NEW list \in Seq(S), NEW s
  PROVE  /\ Without(list, s) \in Seq(S)
         /\ \A t : In(t, Without(list, s)) <=> t # s /\ In(t, list)
<1>1. PICK N \in Nat : N = Len(list) /\ DOMAIN list = 1 .. N /\ \A i \in 1 .. N : list[i] \in S
  OBVIOUS
<1>2. \E f : OthersUpTo(S, list, s, f, N)
  <2> DEFINE P == {m \in 0 .. N : \E f : OthersUpTo(S, list, s, f, m)}
  <2>1. 0 \in P
    <3>1. OthersUpTo(S, list, s, [n \in 0 .. 0 |-> <<>>], 0)
      BY DEF OthersUpTo, OthersAt
    <3> QED BY <1>1, <3>1
  <2>2. ASSUME NEW m \in 0 .. N - 1, m \in P PROVE m + 1 \in P
    <3>1. m + 1 \in 1 .. N /\ m \in Nat /\ m + 1 \in 0 .. N
      BY <1>1
    <3>2. list[m + 1] \in S
      BY <1>1, <3>1
    <3>3. \E f : OthersUpTo(S, list, s, f, m + 1)
      BY <2>2, <3>1, <3>2, OthersGoOn
    <3> QED BY <3>1, <3>3
  <2> HIDE DEF P
  <2>3. N \in P
    BY <1>1, <2>1, <2>2, Upward
  <2> QED BY <2>3 DEF P
<1> DEFINE others == CHOOSE f : f = [n \in 0 .. N |-> OthersAt(list, s, f, n)]
<1>3. others = [n \in 0 .. N |-> OthersAt(list, s, others, n)]
  <2>1. PICK f : OthersUpTo(S, list, s, f, N)
    BY <1>2
  <2>2. f = [n \in 0 .. N |-> OthersAt(list, s, f, n)]
    BY <2>1 DEF OthersUpTo
  <2> QED BY <2>2
<1>4. Without(list, s) = others[N]
  BY <1>1 DEF Without, OthersAt
<1> HIDE DEF others
<1>5. \A n \in 0 .. N : OthersOf(S, list, s, others[n], n)
  <2> DEFINE P == {n \in 0 .. N : OthersOf(S, list, s, others[n], n)}
  <2>1. 0 \in P
    <3>1. others[0] = <<>>
      BY <1>1, <1>3 DEF OthersAt
    <3>2. OthersOf(S, list, s, <<>>, 0)
      BY DEF OthersOf
    <3> QED BY <1>1, <3>1, <3>2
  <2>2. ASSUME NEW m \in 0 .. N - 1, m \in P PROVE m + 1 \in P
    <3>1. m + 1 \in 1 .. N /\ m \in Nat /\ m + 1 \in 0 .. N /\ m + 1 # 0 /\ m + 1 - 1 = m
      BY <1>1
    <3>2. list[m + 1] \in S
      BY <1>1, <3>1
    <3>3. others[m + 1] = OthersAt(list, s, others, m + 1)
      BY <1>3, <3>1
    <3>4. others[m + 1] = IF list[m + 1] = s THEN others[m] ELSE Append(others[m], list[m + 1])
      BY <3>1, <3>3 DEF OthersAt
    <3>5. OthersOf(S, list, s, others[m], m)
      BY <2>2
    <3>6. others[m] \in Seq(S)
      BY <3>5 DEF OthersOf
    <3>7. OthersOf(S, list, s, others[m + 1], m + 1)
      BY <3>1, <3>2, <3>4, <3>5, <3>6, OthersGrow
    <3> QED BY <3>1, <3>7
  <2> HIDE DEF P
  <2>3. \A n \in 0 .. N : n \in P
    BY <1>1, <2>1, <2>2, Upward
  <2> QED BY <2>3 DEF P
<1>6. OthersOf(S, list, s, others[N], N)
  BY <1>1, <1>5
<1>7. PICK q \in Seq(S) : q = others[N] /\ OthersOf(S, list, s, q, N)
  BY <1>6 DEF OthersOf
<1>8. Without(list, s) = q
  BY <1>4, <1>7
<1>9. \A t : In(t, q) <=> t # s /\ In(t, list)
  BY <1>1, <1>7 DEF OthersOf, In
<1> QED BY <1>8, <1>9

-----------------------------------------------------------------------------
(* Types.                                                                   *)

LEMMA Blanks ==
  /\ NewServer \in ServerType /\ NewThread \in ThreadType
  /\ [NewServer EXCEPT !.loop = "dead"] \in ServerType
<1>1. <<>> \in Seq(Servers)
  OBVIOUS
<1>2. NewServer \in ServerType
  BY <1>1 DEF NewServer, ServerType, Loops
<1>3. NewThread \in ThreadType
  BY <1>1 DEF NewThread, ThreadType, PCs
<1>4. \A new \in ServerType : [new EXCEPT !.loop = "dead"] \in ServerType
  BY DEF ServerType, Loops
<1> QED BY <1>2, <1>3, <1>4

LEMMA RequestTyped ==
  ASSUME NEW type \in {"ALIVE", "BACKUP", "TIC", "ELECTION", "COORDINATOR"}, NEW from \in Servers
  PROVE  Request(type, from) \in RequestType
BY DEF Request, RequestType

LEMMA RequestOfTyped ==
  ASSUME TypeOK, NEW type \in {"ALIVE", "BACKUP", "TIC", "ELECTION", "COORDINATOR"},
         NEW s \in Servers, NEW e \in Threads
  PROVE  RequestOf(type, s, e) \in RequestType
<1>1. election[s][e] \in ThreadType /\ e \in Nat
  BY ElectionAssumption DEF TypeOK, Threads
<1> QED BY <1>1 DEF RequestOf, RequestType, ThreadType

LEMMA SetTyped ==
  ASSUME TypeOK, NEW s \in Servers, NEW new \in ServerType, Set(s, new)
  PROVE  server' \in [Servers -> ServerType]
BY DEF TypeOK, Set

LEMMA SetThreadTyped ==
  ASSUME TypeOK, NEW s \in Servers, NEW e \in Threads, NEW new \in ThreadType, SetThread(s, e, new)
  PROVE  election' \in [Servers -> [Threads -> ThreadType]]
BY DEF TypeOK, SetThread

LEMMA SendTyped ==
  ASSUME TypeOK, NEW t, NEW m \in RequestType, Send(t, m)
  PROVE  inbox' \in [Servers -> Seq(RequestType)]
<1>1. \A u \in Servers : Append(inbox[u], m) \in Seq(RequestType)
  BY DEF TypeOK
<1> QED BY <1>1 DEF TypeOK, Send

LEMMA SendToPrimaryTyped ==
  ASSUME TypeOK, NEW m \in RequestType, SendToPrimary(m)
  PROVE  inbox' \in [Servers -> Seq(RequestType)]
<1>1. \A u \in Servers : Append(inbox[u], m) \in Seq(RequestType)
  BY DEF TypeOK
<1> QED BY <1>1 DEF TypeOK, SendToPrimary

LEMMA ReplyTyped ==
  ASSUME TypeOK, NEW t, NEW what \in Seq(Servers \cup {Nobody}), ReplyTo(t, what)
  PROVE  answers' \in [Servers -> Seq(Servers \cup {Nobody})]
<1>1. \A u \in Servers : answers[u] \o what \in Seq(Servers \cup {Nobody})
  BY DEF TypeOK
<1> QED BY <1>1 DEF TypeOK, ReplyTo

LEMMA HeadTyped ==
  ASSUME TypeOK, NEW s \in Servers, inbox[s] # <<>>
  PROVE  Head(inbox[s]) \in RequestType /\ Tail(inbox[s]) \in Seq(RequestType)
BY DEF TypeOK

LEMMA HandledTyped ==
  ASSUME TypeOK, NEW s \in Servers, inbox[s] # <<>>, Handled(s)
  PROVE  inbox' \in [Servers -> Seq(RequestType)]
BY HeadTyped DEF TypeOK, Handled

LEMMA OverlaidTyped ==
  ASSUME NEW walk \in Seq(Servers), NEW list \in Seq(Servers)
  PROVE  Overlaid(walk, list) \in Seq(Servers)
<1>1. PICK n \in Nat : DOMAIN walk = 1 .. n /\ \A i \in 1 .. n : walk[i] \in Servers
  OBVIOUS
<1>2. PICK m \in Nat : m = Len(list) /\ \A i \in 1 .. m : list[i] \in Servers
  OBVIOUS
<1>3. \A i \in 1 .. n : (IF i <= Len(list) THEN list[i] ELSE walk[i]) \in Servers
  BY <1>1, <1>2
<1>4. Overlaid(walk, list) \in [1 .. n -> Servers]
  BY <1>1, <1>3 DEF Overlaid
<1> QED BY <1>4

LEMMA TornTyped ==
  ASSUME TypeOK, NEW s \in Servers, NEW list \in Seq(Servers)
  PROVE  Torn(s, list) \in [Servers -> [Threads -> ThreadType]]
<1> DEFINE new(e) == IF election[s][e].pc \in Walking
                     THEN [election[s][e] EXCEPT !.torn = TRUE,
                                                 !.walk = Overlaid(election[s][e].walk, list)]
                     ELSE election[s][e]
<1>1. ASSUME NEW e \in Threads PROVE new(e) \in ThreadType
  <2>1. election[s][e] \in ThreadType
    BY DEF TypeOK
  <2>2. Overlaid(election[s][e].walk, list) \in Seq(Servers)
    BY <2>1, OverlaidTyped DEF ThreadType
  <2> QED BY <2>1, <2>2 DEF ThreadType
<1>2. Torn(s, list) = [election EXCEPT ![s] = [e \in Threads |-> new(e)]]
  BY DEF Torn
<1> HIDE DEF new
<1> QED BY <1>1, <1>2 DEF TypeOK

LEMMA StartedTyped ==
  ASSUME TypeOK, NEW s \in Servers
  PROVE  Started(s) \in [Servers -> [Threads -> ThreadType]]
<1>1. PICK f : f = NextThread(s)
  OBVIOUS
<1>2. \A thread \in ThreadType : [thread EXCEPT !.pc = "begin"] \in ThreadType
  BY DEF ThreadType, PCs
<1>3. ASSUME NEW e \in Threads
      PROVE  [election[s] EXCEPT ![f].pc = "begin"][e] \in ThreadType
  <2>1. election[s][e] \in ThreadType /\ e \in DOMAIN election[s]
    BY DEF TypeOK
  <2>2. CASE e = f
    BY <1>2, <2>1, <2>2
  <2>3. CASE e # f
    BY <2>1, <2>3
  <2> QED BY <2>2, <2>3
<1>4. [election[s] EXCEPT ![f].pc = "begin"] \in [Threads -> ThreadType]
  BY <1>3 DEF TypeOK
<1> QED BY <1>1, <1>4 DEF TypeOK, Started

LEMMA RepliedTyped ==
  ASSUME NEW threads \in [Servers -> [Threads -> ThreadType]], NEW m, NEW pc
  PROVE  Replied(threads, m, pc) \in [Servers -> [Threads -> ThreadType]]
<1>1. PICK t, f : t = m.from /\ f = m.thread
  OBVIOUS
<1>2. \A thread \in ThreadType : [thread EXCEPT !.reply = TRUE] \in ThreadType
  BY DEF ThreadType
<1>3. ASSUME t \in Servers, NEW e \in Threads
      PROVE  [threads[t] EXCEPT ![f].reply = TRUE][e] \in ThreadType
  <2>1. threads[t][e] \in ThreadType /\ e \in DOMAIN threads[t]
    BY <1>3
  <2>2. CASE e = f
    BY <1>2, <2>1, <2>2
  <2>3. CASE e # f
    BY <2>1, <2>3
  <2> QED BY <2>2, <2>3
<1>4. t \in Servers => [threads[t] EXCEPT ![f].reply = TRUE] \in [Threads -> ThreadType]
  BY <1>3
<1>5. [threads EXCEPT ![t][f].reply = TRUE] \in [Servers -> [Threads -> ThreadType]]
  BY <1>4
<1> QED BY <1>1, <1>5 DEF Replied

LEMMA DeathTyped ==
  ASSUME TypeOK, NEW s \in Servers, Die(s)
  PROVE  /\ server' \in [Servers -> ServerType]
         /\ election' \in [Servers -> [Threads -> ThreadType]]
         /\ primaryPort' \in Servers \cup {Nobody}
         /\ inbox' \in [Servers -> Seq(RequestType)]
         /\ answers' \in [Servers -> Seq(Servers \cup {Nobody})]
<1>1. server' \in [Servers -> ServerType]
  BY Blanks, SetTyped DEF Die
<1>2. election' \in [Servers -> [Threads -> ThreadType]]
  BY Blanks DEF TypeOK, Die
<1>3. inbox' \in [Servers -> Seq(RequestType)]
  <2>1. <<>> \in Seq(RequestType)
    OBVIOUS
  <2> QED BY <2>1 DEF TypeOK, Die
<1>4. answers' \in [Servers -> Seq(Servers \cup {Nobody})]
  <2>1. <<>> \in Seq(Servers \cup {Nobody})
    OBVIOUS
  <2> QED BY <2>1 DEF TypeOK, Die
<1> QED BY <1>1, <1>2, <1>3, <1>4 DEF TypeOK, Die

TypesFit(sv, el, port, box, ans) ==
  /\ sv \in [Servers -> ServerType]
  /\ el \in [Servers -> [Threads -> ThreadType]]
  /\ port \in Servers \cup {Nobody}
  /\ box \in [Servers -> Seq(RequestType)]
  /\ ans \in [Servers -> Seq(Servers \cup {Nobody})]
Fit == TypesFit(server, election, primaryPort, inbox, answers)

LEMMA TypedFits == TypeOK <=> Fit /\ crashes \in 0 .. MaxCrashes
BY DEF TypeOK, Fit, TypesFit

LEMMA LoopTypes ==
  ASSUME TypeOK, NEW s \in Servers, Register(s) \/ LoopStep(s)
  PROVE  Fit'
<1>1. PICK me \in ServerType : me = server[s]
  BY DEF TypeOK
<1>same. Fit
  BY TypedFits
<1>2. CASE Register(s)
  <2>1. [me EXCEPT !.loop = "register"] \in ServerType
    BY DEF ServerType, Loops
  <2>2. server' \in [Servers -> ServerType]
    BY <1>1, <1>2, <2>1, SetTyped DEF Register
  <2>3. inbox' \in [Servers -> Seq(RequestType)]
    BY <1>2, RequestTyped, SendToPrimaryTyped DEF Register
  <2> QED BY <1>2, <1>same, <2>2, <2>3 DEF Fit, TypesFit, Register
<1>3. CASE HearOfBackup(s)
  <2>1. /\ Head(answers[s]) \in Servers \cup {Nobody}
        /\ Tail(answers[s]) \in Seq(Servers \cup {Nobody})
    BY <1>3 DEF HearOfBackup, TypeOK
  <2>2. PICK x : x = Head(answers[s])
    OBVIOUS
  <2>3. x # Nobody => [me EXCEPT !.backupServers = Append(@, x)] \in ServerType
    <3>1. x # Nobody => Append(me.backupServers, x) \in Seq(Servers)
      BY <2>1, <2>2 DEF ServerType
    <3> QED BY <3>1 DEF ServerType
  <2>4. server' \in [Servers -> ServerType]
    BY <1>1, <1>3, <2>2, <2>3, SetTyped DEF HearOfBackup
  <2>5. answers' \in [Servers -> Seq(Servers \cup {Nobody})]
    BY <1>3, <2>1 DEF HearOfBackup, TypeOK
  <2> QED BY <1>3, <1>same, <2>4, <2>5 DEF Fit, TypesFit, HearOfBackup
<1>4. CASE HearNoMore(s)
  <2>1. [me EXCEPT !.loop = "backup"] \in ServerType
    BY DEF ServerType, Loops
  <2>2. server' \in [Servers -> ServerType]
    BY <1>1, <1>4, <2>1, SetTyped DEF HearNoMore
  <2> QED BY <1>4, <1>same, <2>2 DEF Fit, TypesFit, HearNoMore
<1>5. CASE SendTic(s)
  <2>1. [me EXCEPT !.loop = "listenToc"] \in ServerType
    BY DEF ServerType, Loops
  <2>2. server' \in [Servers -> ServerType]
    BY <1>1, <1>5, <2>1, SetTyped DEF SendTic
  <2>3. inbox' \in [Servers -> Seq(RequestType)]
    BY <1>5, RequestTyped, SendToPrimaryTyped DEF SendTic
  <2> QED BY <1>5, <1>same, <2>2, <2>3 DEF Fit, TypesFit, SendTic
<1>6. CASE HearToc(s)
  <2>1. [me EXCEPT !.loop = "backup"] \in ServerType
    BY DEF ServerType, Loops
  <2>2. server' \in [Servers -> ServerType]
    BY <1>1, <1>6, <2>1, SetTyped DEF HearToc
  <2>3. Tail(answers[s]) \in Seq(Servers \cup {Nobody})
    BY <1>6 DEF HearToc, TypeOK
  <2>4. answers' \in [Servers -> Seq(Servers \cup {Nobody})]
    BY <1>6, <2>3 DEF HearToc, TypeOK
  <2> QED BY <1>6, <1>same, <2>2, <2>4 DEF Fit, TypesFit, HearToc
<1>7. CASE HearNoToc(s)
  <2>1. [me EXCEPT !.loop = "backup", !.electionStarted = TRUE] \in ServerType
    BY DEF ServerType, Loops
  <2>2. server' \in [Servers -> ServerType]
    BY <1>1, <1>7, <2>1, SetTyped DEF HearNoToc
  <2>3. election' \in [Servers -> [Threads -> ThreadType]]
    BY <1>7, StartedTyped DEF HearNoToc
  <2> QED BY <1>7, <1>same, <2>2, <2>3 DEF Fit, TypesFit, HearNoToc
<1>8. CASE LeaveOldPort(s)
  <2>1. [me EXCEPT !.closing = FALSE] \in ServerType
    BY DEF ServerType
  <2>2. server' \in [Servers -> ServerType]
    BY <1>1, <1>8, <2>1, SetTyped DEF LeaveOldPort
  <2> QED BY <1>8, <1>same, <2>2 DEF Fit, TypesFit, LeaveOldPort
<1>9. CASE LeaveBackupLoop(s)
  <2>1. [me EXCEPT !.loop = "primary", !.closing = FALSE] \in ServerType
    BY DEF ServerType, Loops
  <2>2. server' \in [Servers -> ServerType]
    BY <1>1, <1>9, <2>1, SetTyped DEF LeaveBackupLoop
  <2> QED BY <1>9, <1>same, <2>2 DEF Fit, TypesFit, LeaveBackupLoop
<1>back. PICK back \in ServerType : back = Back(s) /\ back.backupServers = server[s].backupServers
  <2>1. /\ [me EXCEPT !.closing = FALSE] \in ServerType
        /\ [me EXCEPT !.closing = FALSE].backupServers = me.backupServers
    BY DEF ServerType
  <2> QED BY <1>1, <2>1 DEF Back
<1>list. server[s].backupServers \in Seq(Servers)
  BY <1>1 DEF ServerType
<1>10. CASE ReceiveAlive(s)
  <2>1. PICK m \in RequestType : m = Head(inbox[s]) /\ Tail(inbox[s]) \in Seq(RequestType)
    BY <1>10, HeadTyped DEF ReceiveAlive, Receives
  <2>2. m.from \in Servers
    BY DEF RequestType
  <2>3. PICK list \in Seq(Servers) : list = Append(server[s].backupServers, m.from)
    <3>1. PICK q \in Seq(Servers) : q = server[s].backupServers
      BY <1>list
    <3>2. Append(q, m.from) \in Seq(Servers)
      BY <2>2
    <3> QED BY <3>1, <3>2
  <2>4. [back EXCEPT !.backupServers = list] \in ServerType
    BY DEF ServerType
  <2>5. server' \in [Servers -> ServerType]
    BY <1>10, <1>back, <2>1, <2>3, <2>4, SetTyped DEF ReceiveAlive
  <2>12. election' \in [Servers -> [Threads -> ThreadType]]
    BY <1>10, <2>1, <2>3, TornTyped DEF ReceiveAlive
  <2>6. server[s].backupServers \o <<Nobody>> \in Seq(Servers \cup {Nobody})
    BY <1>list
  <2>7. answers' \in [Servers -> Seq(Servers \cup {Nobody})]
    BY <1>10, <2>1, <2>6, ReplyTyped DEF ReceiveAlive
  <2>8. PICK r \in RequestType : r = Request("BACKUP", m.from)
    BY <2>2, RequestTyped
  <2>9. \A t \in Servers : Append(inbox[t], r) \in Seq(RequestType) /\ inbox[t] \in Seq(RequestType)
    BY DEF TypeOK
  <2>10. inbox' = [t \in Servers |->
              IF t = s THEN Tail(inbox[s])
              ELSE IF t \in Known(s) /\ PortOpen(t) THEN Append(inbox[t], r)
              ELSE inbox[t]]
    BY <1>10, <2>1, <2>8 DEF ReceiveAlive
  <2>11. inbox' \in [Servers -> Seq(RequestType)]
    BY <2>1, <2>9, <2>10
  <2> QED BY <1>10, <1>same, <2>5, <2>7, <2>11, <2>12 DEF Fit, TypesFit, ReceiveAlive
<1>11. CASE ReceiveBackup(s)
  <2>1. PICK m \in RequestType : m = Head(inbox[s])
    BY <1>11, HeadTyped DEF ReceiveBackup, Receives
  <2>2. PICK list \in Seq(Servers) : list = Append(server[s].backupServers, m.from)
    <3>1. m.from \in Servers
      BY DEF RequestType
    <3>2. PICK q \in Seq(Servers) : q = server[s].backupServers
      BY <1>list
    <3>3. Append(q, m.from) \in Seq(Servers)
      BY <3>1
    <3> QED BY <3>2, <3>3
  <2>3. [back EXCEPT !.backupServers = list] \in ServerType
    BY DEF ServerType
  <2>4. server' \in [Servers -> ServerType]
    BY <1>11, <1>back, <2>1, <2>2, <2>3, SetTyped DEF ReceiveBackup
  <2>5. election' \in [Servers -> [Threads -> ThreadType]]
    BY <1>11, <2>1, <2>2, TornTyped DEF ReceiveBackup
  <2>6. inbox' \in [Servers -> Seq(RequestType)]
    BY <1>11, HandledTyped DEF ReceiveBackup, Receives
  <2> QED BY <1>11, <1>same, <2>4, <2>5, <2>6 DEF Fit, TypesFit, ReceiveBackup
<1>12. CASE ReceiveTic(s)
  <2>1. server' \in [Servers -> ServerType]
    BY <1>12, <1>back, SetTyped DEF ReceiveTic
  <2>2. <<Nobody>> \in Seq(Servers \cup {Nobody})
    OBVIOUS
  <2>3. answers' \in [Servers -> Seq(Servers \cup {Nobody})]
    BY <1>12, <2>2, ReplyTyped DEF ReceiveTic
  <2>4. inbox' \in [Servers -> Seq(RequestType)]
    BY <1>12, HandledTyped DEF ReceiveTic, Receives
  <2> QED BY <1>12, <1>same, <2>1, <2>3, <2>4 DEF Fit, TypesFit, ReceiveTic
<1>13. CASE ReceiveElection(s)
  <2>1. [back EXCEPT !.electionStarted = TRUE] \in ServerType
    BY DEF ServerType
  <2>2. server' \in [Servers -> ServerType]
    BY <1>13, <1>back, <2>1, SetTyped DEF ReceiveElection
  <2>3. election' \in [Servers -> [Threads -> ThreadType]]
    BY <1>13, StartedTyped, RepliedTyped DEF ReceiveElection
  <2>4. inbox' \in [Servers -> Seq(RequestType)]
    BY <1>13, HandledTyped DEF ReceiveElection, Receives
  <2> QED BY <1>13, <1>same, <2>2, <2>3, <2>4 DEF Fit, TypesFit, ReceiveElection
<1>14. CASE ReceiveCoordinator(s)
  <2>1. PICK list \in Seq(Servers) : list = Without(server[s].backupServers, Head(inbox[s]).from)
    BY <1>list, WithoutIs
  <2>2. [back EXCEPT !.backupServers = list, !.electionStarted = FALSE] \in ServerType
    BY DEF ServerType
  <2>3. server' \in [Servers -> ServerType]
    BY <1>14, <1>back, <2>1, <2>2, SetTyped DEF ReceiveCoordinator
  <2>4. election' \in [Servers -> [Threads -> ThreadType]]
    BY <1>14, <2>1, TornTyped, RepliedTyped DEF ReceiveCoordinator
  <2>5. inbox' \in [Servers -> Seq(RequestType)]
    BY <1>14, HandledTyped DEF ReceiveCoordinator, Receives
  <2> QED BY <1>14, <1>same, <2>3, <2>4, <2>5 DEF Fit, TypesFit, ReceiveCoordinator
<1> QED BY <1>2, <1>3, <1>4, <1>5, <1>6, <1>7, <1>8, <1>9, <1>10, <1>11, <1>12, <1>13, <1>14
        DEF LoopStep, Receive

LEMMA ElectionTypes ==
  ASSUME TypeOK, NEW s \in Servers, NEW e \in Threads, ElectionStep(s, e) \/ DieOfTornWalk(s, e)
  PROVE  Fit'
<1>1. PICK me \in ThreadType : me = election[s][e]
  BY DEF TypeOK
<1>same. Fit
  BY TypedFits
<1>list. PICK list \in Seq(Servers) : list = server[s].backupServers
  BY DEF TypeOK, ServerType
<1>move. ASSUME NEW new \in ThreadType, SetThread(s, e, new),
                UNCHANGED <<server, primaryPort, inbox, answers>>
         PROVE  Fit'
  BY <1>move, <1>same, SetThreadTyped DEF Fit, TypesFit
<1>send. ASSUME NEW new \in ThreadType, SetThread(s, e, new), NEW t, NEW m \in RequestType, Send(t, m),
                UNCHANGED <<server, primaryPort, answers>>
         PROVE  Fit'
  <2>1. inbox' \in [Servers -> Seq(RequestType)]
    BY <1>send, SendTyped
  <2> QED BY <1>send, <1>same, <2>1, SetThreadTyped DEF Fit, TypesFit
<1>goOn. ASSUME NEW pc \in PCs
         PROVE  GoOn(me, pc) \in ThreadType
  <2>1. me.at + 1 \in Nat \ {0}
    BY DEF ThreadType
  <2> QED BY <2>1 DEF GoOn, ThreadType
<1>pc. ASSUME NEW pc \in PCs
       PROVE  /\ [me EXCEPT !.pc = pc] \in ThreadType
              /\ \A t \in Servers : [me EXCEPT !.pc = pc, !.peer = t] \in ThreadType
              /\ [NewThread EXCEPT !.pc = pc] \in ThreadType
              /\ [NewThread EXCEPT !.pc = pc, !.walk = list] \in ThreadType
  BY Blanks DEF ThreadType
<1>pcs. {"ask", "listenAnswer", "changePort", "announce", "listenReply", "ended"} \subseteq PCs
  BY DEF PCs
<1>peer. ~AtEnd(s, e) => Peer(s, e) \in Servers
  <2>1. me.walk \in Seq(Servers) /\ me.at \in Nat \ {0}
    BY DEF ThreadType
  <2>2. me.at <= Len(me.walk) => me.walk[me.at] \in Servers
    BY <2>1
  <2> QED BY <1>1, <2>1, <2>2 DEF AtEnd, Peer
<1>2. CASE BeginElection(s, e)
  BY <1>2, <1>list, <1>pc, <1>pcs, <1>move DEF BeginElection
<1>3. CASE SkipSmaller(s, e)
  BY <1>1, <1>3, <1>goOn, <1>pcs, <1>move DEF SkipSmaller
<1>4. CASE AskGreater(s, e)
  <2>1. PICK m \in RequestType : m = RequestOf("ELECTION", s, e)
    BY RequestOfTyped
  <2>2. PICK t \in Servers : t = Peer(s, e)
    BY <1>4, <1>peer DEF AskGreater
  <2>3. [me EXCEPT !.pc = "listenAnswer", !.peer = t] \in ThreadType
    BY <1>pc, <1>pcs
  <2> QED BY <1>1, <1>4, <2>1, <2>2, <2>3, <1>send DEF AskGreater
<1>5. CASE HearAnswer(s, e)
  BY <1>5, <1>pc, <1>pcs, <1>move DEF HearAnswer
<1>6. CASE HearNoAnswer(s, e)
  BY <1>1, <1>6, <1>goOn, <1>pcs, <1>move DEF HearNoAnswer
<1>7. CASE BecomeCoordinator(s, e)
  BY <1>1, <1>7, <1>pc, <1>pcs, <1>move DEF BecomeCoordinator
<1>8. CASE ChangePort(s, e)
  <2>1. PICK here \in ServerType : here = server[s]
    BY DEF TypeOK
  <2>2. [here EXCEPT !.closing = here.loop # "listenToc"] \in ServerType
    BY DEF ServerType
  <2>3. server' \in [Servers -> ServerType]
    BY <1>8, <2>1, <2>2, SetTyped DEF ChangePort
  <2>4. election' \in [Servers -> [Threads -> ThreadType]]
    BY <1>8, <1>list, <1>pc, <1>pcs, SetThreadTyped DEF ChangePort
  <2>5. <<>> \in Seq(RequestType)
    OBVIOUS
  <2>6. inbox' \in [Servers -> Seq(RequestType)]
    BY <1>8, <2>5 DEF ChangePort, TypeOK
  <2>7. answers' = answers /\ primaryPort' \in Servers \cup {Nobody}
    BY <1>8 DEF ChangePort
  <2> QED BY <1>same, <2>3, <2>4, <2>6, <2>7 DEF Fit, TypesFit
<1>9. CASE BindFails(s, e) \/ DieOfTornWalk(s, e)
  BY <1>9, DeathTyped DEF BindFails, DieOfTornWalk, Fit, TypesFit
<1>10. CASE Announce(s, e)
  <2>1. PICK m \in RequestType : m = RequestOf("COORDINATOR", s, e)
    BY RequestOfTyped
  <2>2. PICK t \in Servers : t = Peer(s, e)
    BY <1>10, <1>peer DEF Announce
  <2>3. [me EXCEPT !.pc = "listenReply", !.peer = t] \in ThreadType
    BY <1>pc, <1>pcs
  <2> QED BY <1>1, <1>10, <2>1, <2>2, <2>3, <1>send DEF Announce
<1>11. CASE HearReply(s, e)
  BY <1>1, <1>11, <1>goOn, <1>pcs, <1>move DEF HearReply
<1>12. CASE AnnounceAgain(s, e)
  <2>1. PICK m \in RequestType : m = RequestOf("COORDINATOR", s, e)
    BY RequestOfTyped
  <2>2. inbox' \in [Servers -> Seq(RequestType)]
    BY <1>12, <2>1, SendTyped DEF AnnounceAgain
  <2> QED BY <1>12, <1>same, <2>2 DEF AnnounceAgain, Fit, TypesFit
<1>13. CASE BecomePrimary(s, e)
  <2>1. PICK here \in ServerType : here = server[s]
    BY DEF TypeOK
  <2>2. [here EXCEPT !.isPrimary = TRUE] \in ServerType
    BY DEF ServerType
  <2>3. server' \in [Servers -> ServerType]
    BY <1>13, <2>1, <2>2, SetTyped DEF BecomePrimary
  <2>4. election' \in [Servers -> [Threads -> ThreadType]]
    BY <1>13, <1>pc, <1>pcs, SetThreadTyped DEF BecomePrimary
  <2> QED BY <1>13, <1>same, <2>3, <2>4 DEF BecomePrimary, Fit, TypesFit
<1> QED BY <1>2, <1>3, <1>4, <1>5, <1>6, <1>7, <1>8, <1>9, <1>10, <1>11, <1>12, <1>13 DEF ElectionStep

LEMMA ElectionTypesStep ==
  ASSUME TypeOK, [Next]_vars
  PROVE  TypeOK'
<1>same. Fit /\ crashes \in 0 .. MaxCrashes
  BY TypedFits
<1>crashes. crashes' \in 0 .. MaxCrashes
  <2>1. ASSUME NEW s \in Servers, Register(s) \/ LoopStep(s) PROVE crashes' = crashes
    BY <2>1 DEF Register, LoopStep, HearOfBackup, HearNoMore, SendTic, HearToc, HearNoToc, LeaveOldPort,
                LeaveBackupLoop, Receive, ReceiveAlive, ReceiveBackup, ReceiveTic, ReceiveElection,
                ReceiveCoordinator
  <2>2. ASSUME NEW s \in Servers, Crash(s) PROVE crashes' \in 0 .. MaxCrashes
    <3>1. crashes \in Nat /\ MaxCrashes \in Nat /\ crashes < MaxCrashes /\ crashes' = crashes + 1
      BY <1>same, <2>2, ElectionAssumption DEF Crash
    <3> QED BY <3>1
  <2>3. ASSUME NEW s \in Servers, NEW e \in Threads, ElectionStep(s, e) \/ DieOfTornWalk(s, e)
        PROVE  crashes' = crashes
    BY <2>3 DEF ElectionStep, BeginElection, SkipSmaller, AskGreater, HearAnswer, HearNoAnswer,
                BecomeCoordinator, ChangePort, BindFails, Announce, HearReply, AnnounceAgain,
                BecomePrimary, DieOfTornWalk
  <2>4. CASE UNCHANGED vars
    BY <2>4, <1>same DEF vars
  <2> QED BY <1>same, <2>1, <2>2, <2>3, <2>4 DEF Next
<1>1. ASSUME NEW s \in Servers, Register(s) \/ LoopStep(s) PROVE Fit'
  BY <1>1, LoopTypes
<1>2. ASSUME NEW s \in Servers, Crash(s) PROVE Fit'
  BY <1>2, DeathTyped DEF Crash, Fit, TypesFit
<1>3. ASSUME NEW s \in Servers, NEW e \in Threads, ElectionStep(s, e) \/ DieOfTornWalk(s, e)
      PROVE Fit'
  BY <1>3, ElectionTypes
<1>4. ASSUME UNCHANGED vars PROVE Fit'
  BY <1>4, <1>same DEF vars, Fit, TypesFit
<1>5. Fit'
  <2>1. CASE Next
    BY <1>1, <1>2, <1>3, <2>1 DEF Next
  <2> QED BY <1>4, <2>1
<1> QED BY <1>crashes, <1>5 DEF TypeOK, Fit, TypesFit

LEMMA OrderTyped ==
  ASSUME NEW order \in Orders
  PROVE  order \in Seq(Servers)
<1>1. IsFiniteSet(Registered)
  BY ElectionAssumption, FS_Subset
<1>2. PICK n \in Nat : n = Cardinality(Registered)
  BY <1>1, FS_CardinalityType
<1>3. order \in [1 .. n -> Registered] /\ Registered \subseteq Servers
  BY <1>2, ElectionAssumption DEF Orders
<1>4. order \in [1 .. n -> Servers]
  BY <1>3
<1> QED BY <1>4

LEMMA ElectionTypesInit == Init => TypeOK
<1> SUFFICES ASSUME Init PROVE TypeOK
  OBVIOUS
<1>1. PICK order \in Orders :
        server = [s \in Servers |->
          IF s = First
          THEN [NewServer EXCEPT !.loop = "primary", !.isPrimary = TRUE, !.backupServers = order]
          ELSE IF s \in Registered
          THEN [NewServer EXCEPT !.loop = "backup", !.backupServers = Without(order, s)]
          ELSE NewServer]
  BY DEF Init
<1>2. order \in Seq(Servers) /\ \A s \in Servers : Without(order, s) \in Seq(Servers)
  BY OrderTyped, WithoutIs
<1>3. \A new \in ServerType, list \in Seq(Servers) :
        /\ [new EXCEPT !.loop = "primary", !.isPrimary = TRUE, !.backupServers = list] \in ServerType
        /\ [new EXCEPT !.loop = "backup", !.backupServers = list] \in ServerType
  BY DEF ServerType, Loops
<1>4. server \in [Servers -> ServerType]
  <2>1. NewServer \in ServerType
    BY Blanks
  <2>2. ASSUME NEW s \in Servers PROVE server[s] \in ServerType
    <3>1. PICK list \in Seq(Servers) : list = Without(order, s)
      BY <1>2
    <3>2. server[s] = IF s = First
          THEN [NewServer EXCEPT !.loop = "primary", !.isPrimary = TRUE, !.backupServers = order]
          ELSE IF s \in Registered
          THEN [NewServer EXCEPT !.loop = "backup", !.backupServers = list]
          ELSE NewServer
      BY <1>1, <3>1
    <3>3. /\ [NewServer EXCEPT !.loop = "primary", !.isPrimary = TRUE, !.backupServers = order] \in ServerType
          /\ [NewServer EXCEPT !.loop = "backup", !.backupServers = list] \in ServerType
      BY <1>2, <1>3, <2>1
    <3> QED BY <2>1, <3>2, <3>3
  <2>3. server = [s \in Servers |-> server[s]]
    BY <1>1
  <2> QED BY <2>2, <2>3
<1>5. election \in [Servers -> [Threads -> ThreadType]]
  BY Blanks DEF Init
<1>6. /\ <<>> \in Seq(RequestType) /\ <<>> \in Seq(Servers \cup {Nobody})
  OBVIOUS
<1>7. inbox \in [Servers -> Seq(RequestType)] /\ answers \in [Servers -> Seq(Servers \cup {Nobody})]
  BY <1>6 DEF Init
<1>8. crashes \in 0 .. MaxCrashes /\ primaryPort \in Servers \cup {Nobody}
  <2>1. crashes = 0 /\ primaryPort = First
    BY DEF Init
  <2> QED BY <2>1, ElectionAssumption
<1> QED BY <1>4, <1>5, <1>7, <1>8 DEF TypeOK

\* Every variable of the servers has its type: a walk stays within servers, and
\* nothing but servers gets into a list.
THEOREM ElectionTyped == Spec => []TypeOK
BY ElectionTypesInit, ElectionTypesStep, PTL DEF Spec

-----------------------------------------------------------------------------
(* Who has heard of whom.                                                   *)

(* A message to t of this type about u.                                     *)
Sent(t, type, u) == \E k \in DOMAIN inbox[t] : inbox[t][k].type = type /\ inbox[t][k].from = u
Offered(t, u) == \E k \in DOMAIN answers[t] : answers[t][k] = u

(* t knows u, or will.                                                      *)
Hears(t, u) == \/ u \in Known(t)
               \/ Sent(t, "BACKUP", u)
               \/ Registering(t) /\ Offered(t, u)

Serving(s) == server[s].loop \in {"backup", "listenToc", "primary"}
ThreadsServe == \A s \in Servers : \A e \in Threads : election[s][e].pc # "none" => Serving(s)
HolderServes == primaryPort # Nobody => Serving(primaryPort)

(* ALIVE waits in the socket of the primary's port, once, and not its       *)
(* holder's own.                                                            *)
AlivesWait == \A t, u \in Servers : Sent(t, "ALIVE", u) => t = primaryPort /\ u # t
AlivesOnce ==
  \A t \in Servers : \A k, l \in DOMAIN inbox[t] :
    inbox[t][k].type = "ALIVE" /\ inbox[t][l].type = "ALIVE" /\ inbox[t][k].from = inbox[t][l].from
      => k = l

(* Whose ALIVE waits, or was not sent yet, nobody has heard of, and it has  *)
(* heard of nobody.                                                         *)
Newcomer(u) == server[u].loop = "off" \/ \E t \in Servers : Sent(t, "ALIVE", u)
NewcomersApart ==
  /\ \A u, t \in Servers : Newcomer(u) => ~Hears(t, u) /\ ~Hears(u, t)
  /\ \A u, t \in Servers : server[u].loop = "off" => ~Sent(t, "ALIVE", u)
  /\ \A u, s \in Servers : \A e \in Threads : server[u].loop = "off" => u \notin Found(s, e)

NotSelf == \A t \in Servers : ~Hears(t, t)

(* Who announces itself has the port for as long as it lives.               *)
CoordinatorsHold ==
  \A s, t \in Servers : Sent(t, "COORDINATOR", s) => s = primaryPort \/ server[s].loop = "dead"

Registration == /\ ThreadsServe /\ HolderServes /\ AlivesWait /\ AlivesOnce
                /\ NewcomersApart /\ NotSelf /\ CoordinatorsHold

-----------------------------------------------------------------------------
(* What is known of a server s that holds the port.                         *)
Undisturbed(s) == \A u \in Servers : ~Sent(s, "BACKUP", u) /\ ~Sent(s, "COORDINATOR", u)
Behind(s) ==
  \A t \in Servers : \A k, l \in DOMAIN inbox[t] :
    inbox[t][k].type = "COORDINATOR" /\ inbox[t][k].from = s /\ k < l
      => ~(inbox[t][l].type = "BACKUP" /\ inbox[t][l].from = s)
Expected(s, t, m) ==
  /\ m.thread \in Threads
  /\ election[s][m.thread].pc \in {"announce", "listenReply", "ended"}
  /\ election[s][m.thread].pc \in {"announce", "listenReply"} =>
       m.at \in DOMAIN election[s][m.thread].walk /\ election[s][m.thread].walk[m.at] = t
Addressed(s) ==
  \A t \in Servers : \A k \in DOMAIN inbox[t] :
    inbox[t][k].type = "COORDINATOR" /\ inbox[t][k].from = s => Expected(s, t, inbox[t][k])
AnnouncedTo(s, e) ==
  LET thread == election[s][e]
  IN  /\ \A i \in DOMAIN thread.walk : thread.walk[i] # s /\ (i < thread.at => ~Hears(thread.walk[i], s))
      /\ thread.pc = "listenReply" =>
           /\ thread.at \in DOMAIN thread.walk /\ thread.peer = thread.walk[thread.at]
           /\ thread.reply => ~Hears(thread.peer, s)
      /\ thread.pc = "announce" => ~thread.reply
      /\ \A t \in Known(s) : t \in Found(s, e) \/ ~Hears(t, s)
Led(s) ==
  /\ Undisturbed(s) /\ Behind(s) /\ Addressed(s)
  /\ \A e \in Threads : Announcing(election, s, e) => AnnouncedTo(s, e)
  /\ server[s].isPrimary => \A t \in Known(s) : ~Hears(t, s)
Leading == primaryPort # Nobody => Led(primaryPort)

(* The holder announces itself along its list as it was or is: the list      *)
(* grows at its end only.                                                    *)
Leads(walk, list) == \A i \in DOMAIN walk : i \in DOMAIN list /\ list[i] = walk[i]
Along ==
  \A h \in Servers : \A e \in Threads :
    h = primaryPort /\ Announcing(election, h, e) =>
      Leads(election[h][e].walk, server[h].backupServers)

-----------------------------------------------------------------------------
(* Whom a thread has passed on its walk: a smaller one, a dead one, or who  *)
(* took the port.                                                           *)
Passed(s, t) == t < s \/ server[t].loop = "dead" \/ primaryPort = t
Asked(s, e) == In(RequestOf("ELECTION", s, e), inbox[election[s][e].peer])
Walked(s, e) ==
  LET thread == election[s][e]
  IN  thread.pc \in {"ask", "listenAnswer", "changePort"} /\ ~thread.torn =>
        /\ \A i \in DOMAIN thread.walk : thread.walk[i] # s /\ (i < thread.at => Passed(s, thread.walk[i]))
        /\ thread.pc = "listenAnswer" =>
             /\ thread.at \in DOMAIN thread.walk /\ thread.peer = thread.walk[thread.at]
             /\ thread.reply \/ Passed(s, thread.peer) \/ Asked(s, e)
        /\ thread.pc = "changePort" => thread.at > Len(thread.walk)
Winning == \A s \in Servers : \A e \in Threads : Walked(s, e)

-----------------------------------------------------------------------------
(* While the first primary lives and replies in time nobody starts an       *)
(* election, and who has registered has heard of the others or is about to. *)
Waits(s) == server[s].loop = "listenToc" => Sent(First, "TIC", s) \/ answers[s] # <<>>
Enrolled(s) ==
  server[s].loop \in {"register", "backup", "listenToc"} =>
    s \in Known(First) \/ (server[s].loop = "register" /\ Sent(First, "ALIVE", s))
Meets(s, t) == s # t /\ Alive(s) => Hears(s, t)
Listed(m) == m.type \notin {"ELECTION", "COORDINATOR"} /\ (m.type = "BACKUP" => m = Request("BACKUP", m.from))
Peace ==
  /\ primaryPort = First /\ server[First].loop = "primary"
  /\ \A s \in Servers : \A e \in Threads : election[s][e].pc = "none"
  /\ \A s \in Servers : ~server[s].electionStarted
  /\ \A s \in Servers : server[s].isPrimary \/ server[s].loop = "primary" => s = First
  /\ \A t \in Servers : \A k \in DOMAIN inbox[t] : Listed(inbox[t][k])
Reign == /\ Peace
         /\ \A s \in Servers \ {First} : Waits(s) /\ Enrolled(s)
         /\ \A s, t \in Known(First) : Meets(s, t)
Reigning == server[First].loop # "off" /\ (Alive(First) => Reign)

-----------------------------------------------------------------------------
(* Mail. In a step no more comes than M says, pairs of a server and a       *)
(* message: what else waits did so before, in the same order.               *)
CameFrom(new, old, d, t, M) ==
  \A k \in DOMAIN new : \/ k + d \in DOMAIN old /\ new[k] = old[k + d]
                        \/ k + d = Len(old) + 1 /\ <<t, new[k]>> \in M
Comes(M) == \A t \in Servers : \E d \in Nat : CameFrom(inbox'[t], inbox[t], d, t, M)

LEMMA SameCame ==
  ASSUME NEW q \in Seq(RequestType), NEW t, NEW M
  PROVE  \E d \in Nat : CameFrom(q, q, d, t, M)
<1>1. DOMAIN q = 1 .. Len(q) /\ Len(q) \in Nat
  OBVIOUS
<1>2. CameFrom(q, q, 0, t, M)
  BY <1>1 DEF CameFrom
<1> QED BY <1>2

LEMMA AppendCame ==
  ASSUME NEW q \in Seq(RequestType), NEW m \in RequestType, NEW t, NEW M, <<t, m>> \in M
  PROVE  \E d \in Nat : CameFrom(Append(q, m), q, d, t, M)
<1>1. PICK r : r = Append(q, m)
  OBVIOUS
<1>2. /\ Len(q) \in Nat /\ DOMAIN q = 1 .. Len(q) /\ DOMAIN r = 1 .. Len(q) + 1
      /\ r[Len(q) + 1] = m /\ \A k \in 1 .. Len(q) : r[k] = q[k]
  BY <1>1
<1>3. CameFrom(r, q, 0, t, M)
  BY <1>2 DEF CameFrom
<1> QED BY <1>1, <1>3

LEMMA TailCame ==
  ASSUME NEW q \in Seq(RequestType), q # <<>>, NEW t, NEW M
  PROVE  \E d \in Nat : CameFrom(Tail(q), q, d, t, M)
<1>1. PICK r : r = Tail(q)
  OBVIOUS
<1>2. /\ Len(q) \in Nat /\ DOMAIN q = 1 .. Len(q) /\ DOMAIN r = 1 .. Len(q) - 1
      /\ \A k \in 1 .. Len(q) - 1 : r[k] = q[k + 1]
  BY <1>1
<1>3. CameFrom(r, q, 1, t, M)
  BY <1>2 DEF CameFrom
<1> QED BY <1>1, <1>3

LEMMA NothingCame ==
  ASSUME NEW q, NEW t, NEW M
  PROVE  \E d \in Nat : CameFrom(<<>>, q, d, t, M)
<1>1. CameFrom(<<>>, q, 0, t, M)
  BY DEF CameFrom
<1> QED BY <1>1

\* Nothing is sent.
LEMMA ComesNothing ==
  ASSUME TypeOK, inbox' = inbox
  PROVE  Comes({})
BY SameCame DEF TypeOK, Comes

LEMMA ComesSent ==
  ASSUME TypeOK, NEW t, NEW m \in RequestType, Send(t, m)
  PROVE  Comes({<<t, m>>})
<1>1. ASSUME NEW u \in Servers PROVE \E d \in Nat : CameFrom(inbox'[u], inbox[u], d, u, {<<t, m>>})
  <2>1. inbox[u] \in Seq(RequestType)
    BY DEF TypeOK
  <2>2. inbox'[u] = inbox[u] \/ (u = t /\ inbox'[u] = Append(inbox[u], m))
    BY DEF TypeOK, Send
  <2>3. CASE inbox'[u] = inbox[u]
    BY <2>1, <2>3, SameCame
  <2>4. CASE u = t /\ inbox'[u] = Append(inbox[u], m)
    BY <2>1, <2>4, AppendCame
  <2> QED BY <2>2, <2>3, <2>4
<1> QED BY <1>1 DEF Comes

LEMMA ComesToPrimary ==
  ASSUME TypeOK, NEW m \in RequestType, SendToPrimary(m)
  PROVE  Comes({<<primaryPort, m>>})
<1>1. ASSUME NEW u \in Servers
      PROVE  \E d \in Nat : CameFrom(inbox'[u], inbox[u], d, u, {<<primaryPort, m>>})
  <2>1. inbox[u] \in Seq(RequestType)
    BY DEF TypeOK
  <2>2. inbox'[u] = inbox[u] \/ (u = primaryPort /\ inbox'[u] = Append(inbox[u], m))
    BY DEF TypeOK, SendToPrimary
  <2>3. CASE inbox'[u] = inbox[u]
    BY <2>1, <2>3, SameCame
  <2>4. CASE u = primaryPort /\ inbox'[u] = Append(inbox[u], m)
    BY <2>1, <2>4, AppendCame
  <2> QED BY <2>2, <2>3, <2>4
<1> QED BY <1>1 DEF Comes

LEMMA ComesHandled ==
  ASSUME TypeOK, NEW s \in Servers, inbox[s] # <<>>, Handled(s)
  PROVE  Comes({})
<1>1. ASSUME NEW u \in Servers PROVE \E d \in Nat : CameFrom(inbox'[u], inbox[u], d, u, {})
  <2>1. inbox[u] \in Seq(RequestType)
    BY DEF TypeOK
  <2>2. (u # s /\ inbox'[u] = inbox[u]) \/ (u = s /\ inbox'[u] = Tail(inbox[u]))
    BY DEF TypeOK, Handled
  <2>3. CASE inbox'[u] = inbox[u]
    BY <2>1, <2>3, SameCame
  <2>4. CASE u = s /\ inbox'[u] = Tail(inbox[u])
    BY <2>1, <2>4, TailCame
  <2> QED BY <2>2, <2>3, <2>4
<1> QED BY <1>1 DEF Comes

LEMMA ComesCleared ==
  ASSUME TypeOK, NEW s \in Servers, inbox' = [inbox EXCEPT ![s] = <<>>]
  PROVE  Comes({})
<1>1. ASSUME NEW u \in Servers PROVE \E d \in Nat : CameFrom(inbox'[u], inbox[u], d, u, {})
  <2>1. inbox[u] \in Seq(RequestType)
    BY DEF TypeOK
  <2>2. inbox'[u] = inbox[u] \/ inbox'[u] = <<>>
    BY DEF TypeOK
  <2> QED BY <2>1, <2>2, SameCame, NothingCame
<1> QED BY <1>1 DEF Comes

\* The others that the primary knows are told of a new backup.
Told(s) == {<<t, Request("BACKUP", Head(inbox[s]).from)>> : t \in Known(s) \ {s}}
LEMMA ComesTold ==
  ASSUME TypeOK, NEW s \in Servers, ReceiveAlive(s)
  PROVE  Comes(Told(s))
<1>1. PICK m \in RequestType : m = Request("BACKUP", Head(inbox[s]).from)
  <2>1. Head(inbox[s]) \in RequestType
    BY HeadTyped DEF ReceiveAlive, Receives
  <2> QED BY <2>1, RequestTyped DEF RequestType
<1>2. ASSUME NEW u \in Servers PROVE \E d \in Nat : CameFrom(inbox'[u], inbox[u], d, u, Told(s))
  <2>1. inbox[u] \in Seq(RequestType)
    BY DEF TypeOK
  <2>2. \/ u = s /\ inbox'[u] = Tail(inbox[u]) /\ inbox[u] # <<>>
        \/ u # s /\ u \in Known(s) /\ inbox'[u] = Append(inbox[u], m)
        \/ inbox'[u] = inbox[u]
    BY <1>1 DEF ReceiveAlive, Receives
  <2>3. CASE u = s /\ inbox'[u] = Tail(inbox[u]) /\ inbox[u] # <<>>
    BY <2>1, <2>3, TailCame
  <2>4. CASE u # s /\ u \in Known(s) /\ inbox'[u] = Append(inbox[u], m)
    <3>1. <<u, m>> \in Told(s)
      BY <1>1, <2>4 DEF Told
    <3> QED BY <2>1, <2>4, <3>1, AppendCame
  <2>5. CASE inbox'[u] = inbox[u]
    BY <2>1, <2>5, SameCame
  <2> QED BY <2>2, <2>3, <2>4, <2>5
<1> QED BY <1>2 DEF Comes

\* What waits has waited, or has come.
LEMMA CameSent ==
  ASSUME NEW M, Comes(M), NEW t \in Servers, NEW type, NEW u,
         \A m : <<t, m>> \in M => ~(m.type = type /\ m.from = u), Sent(t, type, u)'
  PROVE  Sent(t, type, u)
<1>1. PICK d \in Nat : CameFrom(inbox'[t], inbox[t], d, t, M)
  BY DEF Comes
<1>2. PICK k \in DOMAIN inbox'[t] : inbox'[t][k].type = type /\ inbox'[t][k].from = u
  BY DEF Sent
<1>3. k + d \in DOMAIN inbox[t] /\ inbox'[t][k] = inbox[t][k + d]
  BY <1>1, <1>2 DEF CameFrom
<1> QED BY <1>2, <1>3 DEF Sent

\* No ALIVE comes that waits already.
LEMMA CameOnce ==
  ASSUME TypeOK, TypeOK', AlivesOnce, NEW M, Comes(M),
         \A t \in Servers, m \in RequestType : <<t, m>> \in M /\ m.type = "ALIVE" => ~Sent(t, "ALIVE", m.from)
  PROVE  AlivesOnce'
<1> SUFFICES ASSUME NEW t \in Servers, NEW k \in DOMAIN inbox'[t], NEW l \in DOMAIN inbox'[t],
                    inbox'[t][k].type = "ALIVE", inbox'[t][l].type = "ALIVE",
                    inbox'[t][k].from = inbox'[t][l].from
             PROVE  k = l
  BY DEF AlivesOnce
<1>1. PICK d \in Nat : CameFrom(inbox'[t], inbox[t], d, t, M)
  BY DEF Comes
<1>2. /\ k \in Nat /\ l \in Nat /\ Len(inbox[t]) \in Nat
      /\ inbox'[t][k] \in RequestType /\ inbox'[t][l] \in RequestType
  BY SMTT(60) DEF TypeOK
<1>3. /\ \/ k + d \in DOMAIN inbox[t] /\ inbox'[t][k] = inbox[t][k + d]
         \/ k + d = Len(inbox[t]) + 1 /\ <<t, inbox'[t][k]>> \in M
      /\ \/ l + d \in DOMAIN inbox[t] /\ inbox'[t][l] = inbox[t][l + d]
         \/ l + d = Len(inbox[t]) + 1 /\ <<t, inbox'[t][l]>> \in M
  BY <1>1 DEF CameFrom
<1>4. /\ <<t, inbox'[t][k]>> \in M => ~Sent(t, "ALIVE", inbox'[t][k].from)
      /\ <<t, inbox'[t][l]>> \in M => ~Sent(t, "ALIVE", inbox'[t][l].from)
  BY <1>2
<1>5. CASE k + d \in DOMAIN inbox[t] /\ l + d \in DOMAIN inbox[t]
  <2>1. inbox'[t][k] = inbox[t][k + d] /\ inbox'[t][l] = inbox[t][l + d]
    BY <1>2, <1>3, <1>5, SMTT(60) DEF TypeOK
  <2>2. k + d = l + d
    BY <1>5, <2>1 DEF AlivesOnce
  <2> QED BY <1>2, <2>2
<1>6. CASE k + d = Len(inbox[t]) + 1 /\ l + d = Len(inbox[t]) + 1
  BY <1>2, <1>6
<1>7. CASE k + d \in DOMAIN inbox[t] /\ l + d \notin DOMAIN inbox[t]
  <2>1. Sent(t, "ALIVE", inbox'[t][k].from)
    BY <1>2, <1>3, <1>7 DEF Sent, TypeOK
  <2>2. ~Sent(t, "ALIVE", inbox'[t][l].from)
    BY <1>3, <1>4, <1>7
  <2> QED BY <2>1, <2>2
<1>8. CASE l + d \in DOMAIN inbox[t] /\ k + d \notin DOMAIN inbox[t]
  <2>1. Sent(t, "ALIVE", inbox'[t][l].from)
    BY <1>2, <1>3, <1>8 DEF Sent, TypeOK
  <2>2. ~Sent(t, "ALIVE", inbox'[t][k].from)
    BY <1>3, <1>4, <1>8
  <2> QED BY <2>1, <2>2
<1> QED BY <1>3, <1>5, <1>6, <1>7, <1>8

LEMMA CameBehind ==
  ASSUME TypeOK, TypeOK', NEW s, Behind(s), NEW M, Comes(M),
         \A t, m : <<t, m>> \in M => ~(m.type = "BACKUP" /\ m.from = s)
  PROVE  Behind(s)'
<1> SUFFICES ASSUME NEW t \in Servers, NEW k \in DOMAIN inbox'[t], NEW l \in DOMAIN inbox'[t],
                    inbox'[t][k].type = "COORDINATOR", inbox'[t][k].from = s, k < l,
                    inbox'[t][l].type = "BACKUP", inbox'[t][l].from = s
             PROVE  FALSE
  BY DEF Behind
<1>1. PICK d \in Nat : CameFrom(inbox'[t], inbox[t], d, t, M)
  BY DEF Comes
<1>2. /\ k \in Nat /\ l \in Nat /\ Len(inbox[t]) \in Nat /\ DOMAIN inbox[t] = 1 .. Len(inbox[t])
  BY SMTT(60) DEF TypeOK
<1>3. l + d \in DOMAIN inbox[t] /\ inbox'[t][l] = inbox[t][l + d]
  BY <1>1 DEF CameFrom
<1>4. k + d < l + d /\ k + d # Len(inbox[t]) + 1
  BY <1>2, <1>3
<1>5. k + d \in DOMAIN inbox[t] /\ inbox'[t][k] = inbox[t][k + d]
  BY <1>1, <1>4 DEF CameFrom
<1> QED BY <1>3, <1>4, <1>5 DEF Behind

LEMMA CameWaiting ==
  ASSUME NEW M, Comes(M), NEW t \in Servers, NEW k \in DOMAIN inbox'[t],
         <<t, inbox'[t][k]>> \notin M
  PROVE  \E l \in DOMAIN inbox[t] : inbox[t][l] = inbox'[t][k]
<1>1. PICK d \in Nat : CameFrom(inbox'[t], inbox[t], d, t, M)
  BY DEF Comes
<1>2. k + d \in DOMAIN inbox[t] /\ inbox'[t][k] = inbox[t][k + d]
  BY <1>1 DEF CameFrom
<1> QED BY <1>2

-----------------------------------------------------------------------------
(* Steps by which nobody hears of anybody new.                              *)

\* Mail of one of these types, and COORDINATOR only from the holder.
Sends(types) ==
  \E M : /\ Comes(M)
         /\ \A t, m : <<t, m>> \in M =>
              /\ m \in RequestType /\ m.type \in types
              /\ m.type = "COORDINATOR" => m.from = primaryPort

Ageing ==
  \A u \in Servers :
    /\ server'[u].loop = "off" => server[u].loop = "off"
    /\ server[u].loop = "dead" => server'[u].loop = "dead"
    /\ Serving(u) => Serving(u)'
    /\ \A e \in Threads : election'[u][e].pc # "none" => election[u][e].pc # "none" \/ Serving(u)

NoNews == \A t, u \in Servers : Hears(t, u)' => Hears(t, u)
FindsKnown ==
  \A s, u \in Servers : \A e \in Threads : u \in Found(s, e)' => u \in Found(s, e) \/ Hears(s, u)

Calm == /\ primaryPort' = primaryPort
        /\ Ageing /\ NoNews /\ FindsKnown /\ Sends({"TIC", "ELECTION", "COORDINATOR"})

LEMMA CalmRegistration ==
  ASSUME TypeOK, TypeOK', Registration, Calm
  PROVE  Registration'
<1> USE DEF Registration, Calm
<1>0. PICK M : /\ Comes(M)
               /\ \A t, m : <<t, m>> \in M =>
                    /\ m \in RequestType /\ m.type \in {"TIC", "ELECTION", "COORDINATOR"}
                    /\ m.type = "COORDINATOR" => m.from = primaryPort
  BY DEF Sends
<1>1. ThreadsServe'
  BY DEF ThreadsServe, Ageing
<1>2. HolderServes'
  BY DEF HolderServes, Ageing, TypeOK
<1>3. \A t, u \in Servers : Sent(t, "ALIVE", u)' => Sent(t, "ALIVE", u)
  <2> SUFFICES ASSUME NEW t \in Servers, NEW u \in Servers, Sent(t, "ALIVE", u)'
               PROVE  Sent(t, "ALIVE", u)
    OBVIOUS
  <2>1. \A m : <<t, m>> \in M => ~(m.type = "ALIVE" /\ m.from = u)
    BY <1>0
  <2> QED BY <1>0, <2>1, CameSent
<1>4. AlivesWait'
  BY <1>3 DEF AlivesWait
<1>5. AlivesOnce'
  <2>1. \A t \in Servers, m \in RequestType : <<t, m>> \in M /\ m.type = "ALIVE" => ~Sent(t, "ALIVE", m.from)
    BY <1>0
  <2> QED BY <1>0, <2>1, CameOnce
<1>6. NewcomersApart'
  <2>1. \A u \in Servers : Newcomer(u)' => Newcomer(u)
    BY <1>3 DEF Newcomer, Ageing
  <2>2. \A u, t \in Servers : Newcomer(u)' => ~Hears(t, u)' /\ ~Hears(u, t)'
    BY <2>1 DEF NoNews, NewcomersApart
  <2>3. \A u, t \in Servers : server'[u].loop = "off" => ~Sent(t, "ALIVE", u)'
    BY <1>3 DEF Ageing, NewcomersApart
  <2>4. \A u, s \in Servers : \A e \in Threads : server'[u].loop = "off" => u \notin Found(s, e)'
    BY DEF Ageing, NewcomersApart, FindsKnown, Newcomer
  <2> QED BY <2>2, <2>3, <2>4 DEF NewcomersApart
<1>7. NotSelf'
  BY DEF NotSelf, NoNews
<1>8. CoordinatorsHold'
  <2> SUFFICES ASSUME NEW s \in Servers, NEW t \in Servers, Sent(t, "COORDINATOR", s)', s # primaryPort
               PROVE  server'[s].loop = "dead"
    BY DEF CoordinatorsHold
  <2>1. \A m : <<t, m>> \in M => ~(m.type = "COORDINATOR" /\ m.from = s)
    BY <1>0
  <2>2. Sent(t, "COORDINATOR", s)
    BY <1>0, <2>1, CameSent
  <2> QED BY <2>2 DEF CoordinatorsHold, Ageing
<1> QED BY <1>1, <1>2, <1>4, <1>5, <1>6, <1>7, <1>8

\* Of a type that does not come nothing new waits.
LEMMA SentBefore ==
  ASSUME NEW types, Sends(types), NEW type, type \notin types,
         NEW t \in Servers, NEW u, Sent(t, type, u)'
  PROVE  Sent(t, type, u)
<1>1. PICK M : Comes(M) /\ \A v, m : <<v, m>> \in M => m.type \in types
  BY DEF Sends
<1>2. \A m : <<t, m>> \in M => ~(m.type = type /\ m.from = u)
  BY <1>1
<1> QED BY <1>1, <1>2, CameSent

LEMMA CoordinatorSent ==
  ASSUME NEW types, Sends(types), NEW t \in Servers, NEW u, u # primaryPort,
         Sent(t, "COORDINATOR", u)'
  PROVE  Sent(t, "COORDINATOR", u)
<1>1. PICK M : Comes(M) /\ \A v, m : <<v, m>> \in M => (m.type = "COORDINATOR" => m.from = primaryPort)
  BY DEF Sends
<1>2. \A m : <<t, m>> \in M => ~(m.type = "COORDINATOR" /\ m.from = u)
  BY <1>1
<1> QED BY <1>1, <1>2, CameSent

LEMMA SameKnown ==
  ASSUME NEW t, server'[t].backupServers = server[t].backupServers
  PROVE  Known(t)' = Known(t)
BY DEF Known

LEMMA SameFound ==
  ASSUME NEW s, NEW e, election'[s][e].walk = election[s][e].walk
  PROVE  Found(s, e)' = Found(s, e)
BY DEF Found

Unoffered == \A t, u \in Servers : Registering(t)' /\ Offered(t, u)' => Registering(t) /\ Offered(t, u)

LEMMA NoNewsWithout ==
  ASSUME NEW types, Sends(types), "BACKUP" \notin types, Unoffered,
         \A t, u \in Servers : u \in Known(t)' => Hears(t, u)
  PROVE  NoNews
<1>1. \A t, u \in Servers : Sent(t, "BACKUP", u)' => Sent(t, "BACKUP", u)
  BY SentBefore
<1> QED BY <1>1 DEF NoNews, Hears, Unoffered

\* A server begins to register.
LEMMA RegisterRegistration ==
  ASSUME ElectionAssumption, TypeOK, TypeOK', Registration, NEW s \in Servers, Register(s)
  PROVE  Registration'
<1> USE DEF Registration
<1>0. /\ server[s].loop = "off" /\ primaryPort' = primaryPort /\ election' = election /\ answers' = answers
      /\ SendToPrimary(Request("ALIVE", s))
      /\ server'[s].loop = "register"
      /\ \A t \in Servers : server'[t].backupServers = server[t].backupServers
      /\ \A t \in Servers : t # s => server'[t] = server[t]
  BY DEF Register, Set, TypeOK, ServerType
<1>m. PICK m \in RequestType : m = Request("ALIVE", s) /\ m.type = "ALIVE" /\ m.from = s
  BY RequestTyped DEF Request
<1>1. Comes({<<primaryPort, m>>})
  BY <1>0, <1>m, ComesToPrimary
<1>2. Sends({"ALIVE"})
  <2>1. \A t, n : <<t, n>> \in {<<primaryPort, m>>} => n \in RequestType /\ n.type = "ALIVE"
    BY <1>m
  <2> QED BY <1>1, <2>1 DEF Sends
<1>3. \A t, u \in Servers : u # s \/ t # primaryPort => (Sent(t, "ALIVE", u)' => Sent(t, "ALIVE", u))
  <2> SUFFICES ASSUME NEW t \in Servers, NEW u \in Servers, u # s \/ t # primaryPort, Sent(t, "ALIVE", u)'
               PROVE  Sent(t, "ALIVE", u)
    OBVIOUS
  <2>1. \A n : <<t, n>> \in {<<primaryPort, m>>} => ~(n.type = "ALIVE" /\ n.from = u)
    BY <1>m
  <2> QED BY <1>1, <2>1, CameSent
<1>4. s # primaryPort
  BY <1>0, ElectionAssumption DEF HolderServes, Serving, ElectionAssumption
<1>5. NoNews
  <2>1. Unoffered
    BY <1>0 DEF Unoffered, Registering, Offered
  <2>2. \A t, u \in Servers : u \in Known(t)' => Hears(t, u)
    BY <1>0 DEF Known, Hears
  <2> QED BY <1>2, <2>1, <2>2, NoNewsWithout
<1>6. ThreadsServe' /\ HolderServes'
  BY <1>0 DEF ThreadsServe, HolderServes, Serving, TypeOK
<1>7. AlivesWait'
  BY <1>0, <1>3, <1>4 DEF AlivesWait
<1>8. AlivesOnce'
  <2>1. \A t \in Servers, n \in RequestType :
          <<t, n>> \in {<<primaryPort, m>>} /\ n.type = "ALIVE" => ~Sent(t, "ALIVE", n.from)
    BY <1>0, <1>m DEF NewcomersApart
  <2> QED BY <1>1, <2>1, CameOnce
<1>9. NewcomersApart'
  <2>1. \A u \in Servers : Newcomer(u)' => Newcomer(u)
    BY <1>0, <1>3 DEF Newcomer
  <2>2. \A u, t \in Servers : Newcomer(u)' => ~Hears(t, u)' /\ ~Hears(u, t)'
    BY <2>1, <1>5 DEF NoNews, NewcomersApart
  <2>3. \A u, t \in Servers : server'[u].loop = "off" => u # s /\ server[u].loop = "off"
    BY <1>0
  <2>4. \A u, t \in Servers : server'[u].loop = "off" => ~Sent(t, "ALIVE", u)'
    BY <1>3, <2>3 DEF NewcomersApart
  <2>5. \A u, t \in Servers : \A e \in Threads : server'[u].loop = "off" => u \notin Found(t, e)'
    BY <1>0, <2>3 DEF NewcomersApart, Found
  <2> QED BY <2>2, <2>4, <2>5 DEF NewcomersApart
<1>10. NotSelf'
  BY <1>5 DEF NotSelf, NoNews
<1>11. CoordinatorsHold'
  <2>1. \A t, u \in Servers : Sent(t, "COORDINATOR", u)' => Sent(t, "COORDINATOR", u)
    BY <1>2, SentBefore
  <2> QED BY <1>0, <2>1 DEF CoordinatorsHold
<1> QED BY <1>6, <1>7, <1>8, <1>9, <1>10, <1>11

\* A server dies.
LEMMA DeathRegistration ==
  ASSUME ElectionAssumption, TypeOK, TypeOK', Registration, NEW s \in Servers, Die(s)
  PROVE  Registration'
<1> USE DEF Registration
<1>0. /\ server'[s].loop = "dead" /\ server'[s].backupServers = <<>>
      /\ \A t \in Servers : t # s => server'[t] = server[t]
      /\ \A e \in Threads : election'[s][e] = NewThread
      /\ \A t \in Servers : t # s => election'[t] = election[t]
      /\ primaryPort' = IF primaryPort = s THEN Nobody ELSE primaryPort
      /\ inbox' = [inbox EXCEPT ![s] = <<>>] /\ inbox'[s] = <<>>
      /\ \A t \in Servers : t # s => answers'[t] = answers[t]
  BY DEF Die, Set, TypeOK, NewServer
<1>t. NewThread.pc = "none" /\ NewThread.walk = <<>>
  BY DEF NewThread
<1>1. Comes({})
  BY <1>0, ComesCleared
<1>2. Sends({})
  <2>1. \A t, n : <<t, n>> \notin {}
    OBVIOUS
  <2> QED BY <1>1, <2>1 DEF Sends
<1>3. \A t, u \in Servers : \A type : Sent(t, type, u)' => t # s /\ Sent(t, type, u)
  BY <1>0, <1>2, SentBefore DEF Sent
<1>4. NoNews
  <2>1. Unoffered
    BY <1>0 DEF Unoffered, Registering, Offered
  <2>2. \A t, u \in Servers : u \in Known(t)' => Hears(t, u)
    BY <1>0 DEF Known, Hears
  <2> QED BY <1>2, <2>1, <2>2, NoNewsWithout
<1>5. ThreadsServe'
  BY <1>0, <1>t DEF ThreadsServe, Serving
<1>6. HolderServes'
  BY <1>0 DEF HolderServes, Serving, TypeOK
<1>7. AlivesWait'
  BY <1>0, <1>3 DEF AlivesWait
<1>8. AlivesOnce'
  <2>1. \A t \in Servers, n \in RequestType : <<t, n>> \in {} /\ n.type = "ALIVE" => ~Sent(t, "ALIVE", n.from)
    OBVIOUS
  <2> QED BY <1>1, <2>1, CameOnce
<1>9. NewcomersApart'
  <2>1. \A u \in Servers : Newcomer(u)' => Newcomer(u)
    BY <1>0, <1>3 DEF Newcomer
  <2>2. \A u, t \in Servers : Newcomer(u)' => ~Hears(t, u)' /\ ~Hears(u, t)'
    BY <2>1, <1>4 DEF NoNews, NewcomersApart
  <2>3. \A u \in Servers : server'[u].loop = "off" => server[u].loop = "off"
    BY <1>0
  <2>4. \A u, t \in Servers : server'[u].loop = "off" => ~Sent(t, "ALIVE", u)'
    BY <1>3, <2>3 DEF NewcomersApart
  <2>5. \A u, t \in Servers : \A e \in Threads : server'[u].loop = "off" => u \notin Found(t, e)'
    <3>1. \A e \in Threads : Found(s, e)' = {}
      BY <1>0, <1>t DEF Found
    <3>2. \A t \in Servers : \A e \in Threads : t # s => Found(t, e)' = Found(t, e)
      <4>1. \A t \in Servers : t # s => election'[t] = election[t]
        BY <1>0
      <4> QED BY <4>1, SameFound
    <3> QED BY <2>3, <3>1, <3>2 DEF NewcomersApart
  <2> QED BY <2>2, <2>4, <2>5 DEF NewcomersApart
<1>10. NotSelf'
  BY <1>4 DEF NotSelf, NoNews
<1>11. CoordinatorsHold'
  BY <1>0, <1>3 DEF CoordinatorsHold
<1> QED BY <1>5, <1>6, <1>7, <1>8, <1>9, <1>10, <1>11

\* A server takes the port: nobody's ALIVE waits any more.
LEMMA PortRegistration ==
  ASSUME ElectionAssumption, TypeOK, TypeOK', Registration,
         NEW s \in Servers, NEW e \in Threads, ChangePort(s, e)
  PROVE  Registration'
<1> USE DEF Registration
<1>0. /\ election[s][e].pc = "changePort" /\ primaryPort \in {Nobody, s} /\ primaryPort' = s
      /\ inbox' = [inbox EXCEPT ![s] = <<>>] /\ inbox'[s] = <<>> /\ answers' = answers
      /\ \A t \in Servers : /\ server'[t].loop = server[t].loop
                            /\ server'[t].backupServers = server[t].backupServers
      /\ election'[s][e].walk = server[s].backupServers
      /\ \A t \in Servers : \A f \in Threads : <<t, f>> # <<s, e>> => election'[t][f] = election[t][f]
  <2>1. /\ [NewThread EXCEPT !.pc = "announce", !.walk = server[s].backupServers].walk = server[s].backupServers
    BY DEF NewThread
  <2> QED BY <2>1, SMTT(60) DEF ChangePort, Set, SetThread, TypeOK, ServerType
<1>1. Comes({})
  BY <1>0, ComesCleared
<1>2. Sends({})
  <2>1. \A t, n : <<t, n>> \notin {}
    OBVIOUS
  <2> QED BY <1>1, <2>1 DEF Sends
<1>s. Serving(s)
  BY <1>0 DEF ThreadsServe
<1>3. \A t, u \in Servers : \A type : Sent(t, type, u)' => t # s /\ Sent(t, type, u)
  BY <1>0, <1>2, SentBefore DEF Sent
<1>no. \A t, u \in Servers : ~Sent(t, "ALIVE", u)'
  BY <1>0, <1>3, ElectionAssumption DEF AlivesWait, ElectionAssumption
<1>4. NoNews
  <2>1. Unoffered
    BY <1>0 DEF Unoffered, Registering, Offered
  <2>2. \A t, u \in Servers : u \in Known(t)' => Hears(t, u)
    <3>1. \A t \in Servers : server'[t].backupServers = server[t].backupServers
      BY <1>0
    <3> QED BY <3>1, SameKnown DEF Hears
  <2> QED BY <1>2, <2>1, <2>2, NoNewsWithout
<1>5. ThreadsServe'
  <2>1. \A t \in Servers : Serving(t) => Serving(t)'
    BY <1>0 DEF Serving
  <2>2. \A t \in Servers : \A f \in Threads : t # s => election'[t][f] = election[t][f]
    BY <1>0
  <2> QED BY <1>s, <2>1, <2>2 DEF ThreadsServe
<1>6. HolderServes'
  BY <1>0, <1>s DEF HolderServes, Serving
<1>7. AlivesWait'
  BY <1>no DEF AlivesWait
<1>8. AlivesOnce'
  <2>1. \A t \in Servers, n \in RequestType : <<t, n>> \in {} /\ n.type = "ALIVE" => ~Sent(t, "ALIVE", n.from)
    OBVIOUS
  <2> QED BY <1>1, <2>1, CameOnce
<1>9. NewcomersApart'
  <2>1. \A u \in Servers : Newcomer(u)' => server[u].loop = "off" /\ Newcomer(u)
    BY <1>0, <1>no DEF Newcomer
  <2>2. \A u, t \in Servers : Newcomer(u)' => ~Hears(t, u)' /\ ~Hears(u, t)'
    BY <2>1, <1>4 DEF NoNews, NewcomersApart
  <2>3. \A u, t \in Servers : \A f \in Threads : server'[u].loop = "off" => u \notin Found(t, f)'
    <3>1. Found(s, e)' = Known(s)
      BY <1>0 DEF Found, Known
    <3>2. \A t \in Servers : \A f \in Threads : <<t, f>> # <<s, e>> => Found(t, f)' = Found(t, f)
      BY <1>0 DEF Found
    <3> QED BY <1>0, <3>1, <3>2 DEF NewcomersApart, Newcomer, Hears
  <2> QED BY <1>no, <2>2, <2>3 DEF NewcomersApart
<1>10. NotSelf'
  BY <1>4 DEF NotSelf, NoNews
<1>11. CoordinatorsHold'
  BY <1>0, <1>3, ElectionAssumption DEF CoordinatorsHold, ElectionAssumption
<1> QED BY <1>5, <1>6, <1>7, <1>8, <1>9, <1>10, <1>11

-----------------------------------------------------------------------------
(* What is in a list.                                                       *)
LEMMA InAppend ==
  ASSUME NEW S, NEW q \in Seq(S), NEW x \in S
  PROVE  \A u : In(u, Append(q, x)) <=> u = x \/ In(u, q)
<1>1. PICK r : r = Append(q, x)
  OBVIOUS
<1>2. /\ Len(q) \in Nat /\ DOMAIN q = 1 .. Len(q) /\ DOMAIN r = 1 .. Len(q) + 1
      /\ r[Len(q) + 1] = x /\ \A k \in 1 .. Len(q) : r[k] = q[k]
  BY <1>1
<1>3. Len(q) + 1 \in DOMAIN r /\ \A k \in DOMAIN q : k \in DOMAIN r
  BY <1>2
<1>4. \A k \in DOMAIN r : k = Len(q) + 1 \/ k \in DOMAIN q
  BY <1>2
<1> QED BY <1>1, <1>2, <1>3, <1>4 DEF In

LEMMA InConcat ==
  ASSUME NEW S, NEW q \in Seq(S), NEW p \in Seq(S)
  PROVE  \A u : In(u, q \o p) <=> In(u, q) \/ In(u, p)
<1>1. PICK r : r = q \o p
  OBVIOUS
<1>2. PICK n \in Nat, m \in Nat : /\ n = Len(q) /\ m = Len(p)
                                  /\ DOMAIN q = 1 .. n /\ DOMAIN p = 1 .. m /\ DOMAIN r = 1 .. n + m
  BY <1>1
<1>3. /\ \A k \in 1 .. n : r[k] = q[k]
      /\ \A k \in 1 .. m : r[n + k] = p[k]
  BY <1>1, <1>2
<1>4. ASSUME NEW u, In(u, r) PROVE In(u, q) \/ In(u, p)
  <2>1. PICK k \in 1 .. n + m : r[k] = u
    BY <1>2, <1>4 DEF In
  <2>2. CASE k <= n
    BY <1>2, <1>3, <2>1, <2>2, SMTT(60) DEF In
  <2>3. CASE k > n
    <3>1. k - n \in 1 .. m /\ n + (k - n) = k
      BY <2>3
    <3> QED BY <1>2, <1>3, <2>1, <3>1, ZenonT(60) DEF In
  <2> QED BY <2>2, <2>3
<1>5. ASSUME NEW u, In(u, q) PROVE In(u, r)
  <2>1. PICK k \in 1 .. n : q[k] = u
    BY <1>2, <1>5 DEF In
  <2>2. k \in 1 .. n + m
    OBVIOUS
  <2> QED BY <1>2, <1>3, <2>1, <2>2 DEF In
<1>6. ASSUME NEW u, In(u, p) PROVE In(u, r)
  <2>1. PICK k \in 1 .. m : p[k] = u
    BY <1>2, <1>6 DEF In
  <2>2. n + k \in 1 .. n + m
    OBVIOUS
  <2> QED BY <1>2, <1>3, <2>1, <2>2 DEF In
<1> QED BY <1>1, <1>4, <1>5, <1>6

LEMMA InTail ==
  ASSUME NEW S, NEW q \in Seq(S), q # <<>>
  PROVE  /\ Head(q) \in S /\ Head(q) = q[1] /\ 1 \in DOMAIN q
         /\ \A u : In(u, q) <=> u = Head(q) \/ In(u, Tail(q))
<1>1. PICK r : r = Tail(q)
  OBVIOUS
<1>2. PICK n \in Nat : n + 1 = Len(q) /\ DOMAIN q = 1 .. n + 1 /\ DOMAIN r = 1 .. n
  <2>1. Len(q) - 1 \in Nat /\ Len(q) - 1 + 1 = Len(q) /\ DOMAIN q = 1 .. Len(q) /\ DOMAIN r = 1 .. Len(q) - 1
    BY <1>1
  <2> QED BY <2>1
<1>3. q[1] = Head(q) /\ Head(q) \in S /\ \A k \in 1 .. n : r[k] = q[k + 1]
  BY <1>1, <1>2
<1>4. \A k \in 1 .. n + 1 : k = 1 \/ (k - 1 \in 1 .. n /\ (k - 1) + 1 = k)
  OBVIOUS
<1>5. \A k \in 1 .. n : k + 1 \in 1 .. n + 1
  OBVIOUS
<1>6. ASSUME NEW u, In(u, q) PROVE u = Head(q) \/ In(u, r)
  <2>1. PICK k \in 1 .. n + 1 : q[k] = u
    BY <1>2, <1>6 DEF In
  <2> QED BY <1>2, <1>3, <1>4, <2>1 DEF In
<1>7. ASSUME NEW u, In(u, r) PROVE In(u, q)
  <2>1. PICK k \in 1 .. n : r[k] = u
    BY <1>2, <1>7 DEF In
  <2> QED BY <1>2, <1>3, <1>5, <2>1 DEF In
<1>8. 1 \in DOMAIN q
  BY <1>2
<1> QED BY <1>1, <1>2, <1>3, <1>6, <1>7, <1>8 DEF In

LEMMA Lists ==
  /\ \A t, u : u \in Known(t) <=> In(u, server[t].backupServers)
  /\ \A t, u : Offered(t, u) <=> In(u, answers[t])
  /\ \A s, e, u : u \in Found(s, e) <=> In(u, election[s][e].walk)
BY DEF Known, Offered, Found, In

LEMMA ListsNext ==
  /\ \A t, u : (u \in Known(t))' <=> In(u, server'[t].backupServers)
  /\ \A t, u : Offered(t, u)' <=> In(u, answers'[t])
  /\ \A s, e, u : (u \in Found(s, e))' <=> In(u, election'[s][e].walk)
BY DEF Known, Offered, Found, In

-----------------------------------------------------------------------------
\* ALIVE: the new backup hears of all that the holder of the port knows, and
\* these and the holder of it.
AliveEffect(s, new) ==
  /\ new = Head(inbox[s]).from /\ s = primaryPort /\ new # s /\ Newcomer(new) /\ Serving(s)
  /\ Sent(s, "ALIVE", new) /\ ~Sent(s, "ALIVE", new)'
  /\ \A u : (u \in Known(s))' <=> u = new \/ u \in Known(s)
  /\ \A t \in Servers : /\ t # s => server'[t] = server[t]
                        /\ server'[t].loop = server[t].loop
                        /\ server'[t].isPrimary = server[t].isPrimary
                        /\ server'[t].electionStarted = server[t].electionStarted
  /\ \A t \in Servers : \A u : Offered(t, u)' <=> \/ Offered(t, u)
                                                \/ /\ t = new /\ Alive(new)
                                                   /\ u \in Known(s) \/ u = Nobody
  /\ \A t, u \in Servers : \A type :
       type # "BACKUP" /\ Sent(t, type, u)' => Sent(t, type, u)
  /\ \A t, u \in Servers :
       Sent(t, "BACKUP", u)' => Sent(t, "BACKUP", u) \/ (u = new /\ t \in Known(s) /\ t # s)

LEMMA AliveHeard ==
  ASSUME ElectionAssumption, TypeOK, TypeOK', Registration, NEW s \in Servers, ReceiveAlive(s)
  PROVE  \E new \in Servers : AliveEffect(s, new)
<1>1. PICK m \in RequestType : m = Head(inbox[s]) /\ m.from \in Servers /\ m.type = "ALIVE"
  <2>1. Head(inbox[s]) \in RequestType /\ Head(inbox[s]).type = "ALIVE"
    BY HeadTyped DEF ReceiveAlive, Receives
  <2> QED BY <2>1 DEF RequestType
<1>2. PICK new \in Servers : new = m.from
  BY <1>1
<1>3. inbox[s] # <<>> /\ inbox[s] \in Seq(RequestType) /\ inbox'[s] = Tail(inbox[s])
  BY DEF TypeOK, ReceiveAlive, Receives
<1>4. 1 \in DOMAIN inbox[s] /\ inbox[s][1] = m
  BY <1>1, <1>3, InTail
<1>5. Sent(s, "ALIVE", new)
  BY <1>1, <1>2, <1>4 DEF Sent
<1>6. s = primaryPort /\ new # s /\ Newcomer(new) /\ Serving(s)
  BY <1>5, ElectionAssumption DEF Registration, AlivesWait, Newcomer, HolderServes, ElectionAssumption
<1>7. ~Sent(s, "ALIVE", new)'
  <2> SUFFICES ASSUME Sent(s, "ALIVE", new)' PROVE FALSE
    OBVIOUS
  <2>1. PICK k \in DOMAIN inbox'[s] : inbox'[s][k].type = "ALIVE" /\ inbox'[s][k].from = new
    BY DEF Sent
  <2>2. k \in Nat /\ k >= 1 /\ k + 1 \in DOMAIN inbox[s] /\ inbox'[s][k] = inbox[s][k + 1]
    BY <1>3, <2>1
  <2>3. k + 1 = 1
    BY <1>1, <1>2, <1>4, <2>1, <2>2 DEF Registration, AlivesOnce
  <2> QED BY <2>2, <2>3
<1>8. /\ server'[s].backupServers = Append(server[s].backupServers, new)
      /\ \A t \in Servers : /\ t # s => server'[t] = server[t]
                            /\ server'[t].loop = server[t].loop
                            /\ server'[t].isPrimary = server[t].isPrimary
                            /\ server'[t].electionStarted = server[t].electionStarted
  <2>1. PICK me \in ServerType : me = server[s]
    BY DEF TypeOK
  <2>2. PICK list : list = Append(me.backupServers, new)
    OBVIOUS
  <2>3. server' = [server EXCEPT ![s] = [[me EXCEPT !.closing = FALSE] EXCEPT !.backupServers = list]]
    BY <1>1, <1>2, <2>1, <2>2 DEF ReceiveAlive, Set, Back, ServerType
  <2> QED BY <2>1, <2>2, <2>3 DEF TypeOK, ServerType
<1>9. server[s].backupServers \in Seq(Servers)
  BY DEF TypeOK, ServerType
<1>10. ASSUME NEW u PROVE (u \in Known(s))' <=> u = new \/ u \in Known(s)
  <2>1. In(u, Append(server[s].backupServers, new)) <=> u = new \/ In(u, server[s].backupServers)
    BY <1>9, InAppend
  <2> QED BY <1>8, <2>1, Lists, ListsNext
<1>11. \A t \in Servers : \A u : Offered(t, u)' <=> \/ Offered(t, u)
                                                  \/ /\ t = new /\ Alive(new)
                                                     /\ u \in Known(s) \/ u = Nobody
  <2> SUFFICES ASSUME NEW t \in Servers, NEW u
               PROVE  Offered(t, u)' <=> \/ Offered(t, u)
                                         \/ t = new /\ Alive(new) /\ (u \in Known(s) \/ u = Nobody)
    OBVIOUS
  <2>1. PICK list \in Seq(Servers \cup {Nobody}) : list = server[s].backupServers
    BY <1>9
  <2>2. <<Nobody>> \in Seq(Servers \cup {Nobody}) /\ list \o <<Nobody>> \in Seq(Servers \cup {Nobody})
    OBVIOUS
  <2>3. In(u, <<Nobody>>) <=> u = Nobody
    BY DEF In
  <2>4. In(u, list \o <<Nobody>>) <=> u \in Known(s) \/ u = Nobody
    BY <2>1, <2>2, <2>3, InConcat, Lists
  <2>5. answers[t] \in Seq(Servers \cup {Nobody})
    BY DEF TypeOK
  <2>6. answers' = IF Alive(new) THEN [answers EXCEPT ![new] = answers[new] \o (list \o <<Nobody>>)] ELSE answers
    BY <1>1, <1>2, <2>1 DEF ReceiveAlive, ReplyTo
  <2>7. CASE Alive(new) /\ t = new
    <3>1. answers'[t] = answers[t] \o (list \o <<Nobody>>)
      BY <2>6, <2>7 DEF TypeOK
    <3>2. PICK p \in Seq(Servers \cup {Nobody}) : p = list \o <<Nobody>>
      BY <2>2
    <3>3. PICK q \in Seq(Servers \cup {Nobody}) : q = answers[t]
      BY <2>5
    <3>4. In(u, q \o p) <=> In(u, q) \/ In(u, p)
      BY InConcat
    <3>5. In(u, answers'[t]) <=> In(u, answers[t]) \/ In(u, list \o <<Nobody>>)
      BY <3>1, <3>2, <3>3, <3>4
    <3> QED BY <2>4, <2>7, <3>5, Lists, ListsNext
  <2>8. CASE ~(Alive(new) /\ t = new)
    <3>1. answers'[t] = answers[t]
      BY <2>6, <2>8 DEF TypeOK
    <3> QED BY <2>8, <3>1, Lists, ListsNext
  <2> QED BY <2>7, <2>8
<1>12. Comes(Told(s))
  BY ComesTold
<1>13. \A t, n : <<t, n>> \in Told(s) => n.type = "BACKUP" /\ n.from = new /\ t \in Known(s) /\ t # s
  BY <1>1, <1>2 DEF Told, Request
<1>14. ASSUME NEW t \in Servers, NEW u \in Servers, NEW type, type # "BACKUP", Sent(t, type, u)'
       PROVE  Sent(t, type, u)
  <2>1. \A n : <<t, n>> \in Told(s) => ~(n.type = type /\ n.from = u)
    BY <1>13, <1>14
  <2> QED BY <1>12, <1>14, <2>1, CameSent
<1>15. ASSUME NEW t \in Servers, NEW u \in Servers, Sent(t, "BACKUP", u)', ~(u = new /\ t \in Known(s) /\ t # s)
       PROVE  Sent(t, "BACKUP", u)
  <2>1. \A n : <<t, n>> \in Told(s) => ~(n.type = "BACKUP" /\ n.from = u)
    BY <1>13, <1>15
  <2> QED BY <1>12, <1>15, <2>1, CameSent
<1>16. new = Head(inbox[s]).from
  BY <1>1, <1>2
<1> QED BY <1>5, <1>6, <1>7, <1>8, <1>10, <1>11, <1>14, <1>15, <1>16 DEF AliveEffect

\* A thread that walks finds elements of the new vector and of the old.
IsTorn(old, new, list) == new = [old EXCEPT !.torn = TRUE, !.walk = Overlaid(old.walk, list)]
LEMMA TornShape ==
  ASSUME TypeOK, NEW s \in Servers, NEW list \in Seq(Servers), NEW t \in Servers, NEW f \in Threads
  PROVE  \/ Torn(s, list)[t][f] = election[t][f] /\ (t = s => election[t][f].pc \notin Walking)
         \/ /\ t = s /\ election[t][f].pc \in Walking
            /\ IsTorn(election[t][f], Torn(s, list)[t][f], list)
BY DEF Torn, TypeOK, IsTorn

LEMMA InOverlaid ==
  ASSUME NEW walk \in Seq(Servers), NEW list \in Seq(Servers), NEW u, In(u, Overlaid(walk, list))
  PROVE  In(u, walk) \/ In(u, list)
<1>1. PICK i \in DOMAIN walk : u = IF i <= Len(list) THEN list[i] ELSE walk[i]
  BY DEF In, Overlaid
<1>2. i \in Nat /\ i >= 1 /\ Len(list) \in Nat /\ DOMAIN list = 1 .. Len(list)
  BY <1>1
<1> QED BY <1>1, <1>2 DEF In

\* The holder's threads are as far as they were, and find who they found or the
\* new one.
LEMMA AliveThreads ==
  ASSUME TypeOK, NEW s \in Servers, ReceiveAlive(s)
  PROVE  \E list \in Seq(Servers) :
           /\ list = Append(server[s].backupServers, Head(inbox[s]).from)
           /\ server'[s].backupServers = list
           /\ election' = Torn(s, list)
           /\ \A t \in Servers : \A f \in Threads :
                /\ election'[t][f].pc = election[t][f].pc
                /\ \A u : In(u, election'[t][f].walk) =>
                     In(u, election[t][f].walk) \/ (t = s /\ In(u, list))
<1>1. PICK m \in RequestType : m = Head(inbox[s])
  BY HeadTyped DEF ReceiveAlive, Receives
<1>2. PICK list \in Seq(Servers) : list = Append(server[s].backupServers, Head(inbox[s]).from)
  <2>1. m.from \in Servers
    BY DEF RequestType
  <2>2. PICK q \in Seq(Servers) : q = server[s].backupServers
    BY DEF TypeOK, ServerType
  <2>3. Append(q, m.from) \in Seq(Servers)
    BY <2>1
  <2> QED BY <1>1, <2>2, <2>3
<1>3. election' = Torn(s, list)
  BY <1>2 DEF ReceiveAlive
<1>4. ASSUME NEW t \in Servers, NEW f \in Threads
      PROVE  /\ election'[t][f].pc = election[t][f].pc
             /\ \A u : In(u, election'[t][f].walk) =>
                  In(u, election[t][f].walk) \/ (t = s /\ In(u, list))
  <2>1. PICK old \in ThreadType : old = election[t][f]
    BY DEF TypeOK
  <2>2. CASE Torn(s, list)[t][f] = old
    BY <1>3, <2>1, <2>2
  <2>3. CASE t = s /\ IsTorn(old, Torn(s, list)[t][f], list)
    <3>1. /\ Torn(s, list)[t][f].pc = old.pc
          /\ Torn(s, list)[t][f].walk = Overlaid(old.walk, list)
      BY <2>3 DEF IsTorn, ThreadType
    <3>2. old.walk \in Seq(Servers)
      BY DEF ThreadType
    <3> QED BY <1>3, <2>1, <2>3, <3>1, <3>2, InOverlaid
  <2> QED BY <2>1, <2>2, <2>3, TornShape
<1>5. server'[s].backupServers = list
  <2>1. PICK me \in ServerType : me = server[s]
    BY DEF TypeOK
  <2>2. server' = [server EXCEPT ![s] = [[me EXCEPT !.closing = FALSE] EXCEPT !.backupServers = list]]
    BY <1>2, <2>1 DEF ReceiveAlive, Set, Back, ServerType
  <2> QED BY <2>1, <2>2 DEF TypeOK, ServerType
<1> QED BY <1>2, <1>3, <1>4, <1>5

LEMMA AliveRegistration ==
  ASSUME ElectionAssumption, TypeOK, TypeOK', Registration, NEW s \in Servers, ReceiveAlive(s)
  PROVE  Registration'
<1>0. PICK new \in Servers : AliveEffect(s, new)
  BY AliveHeard
<1>same. primaryPort' = primaryPort
  BY DEF ReceiveAlive
<1>from. new = Head(inbox[s]).from
  BY <1>0 DEF AliveEffect
<1>shape. \A t \in Servers : \A f \in Threads :
            /\ election'[t][f].pc = election[t][f].pc
            /\ \A u : u \in Found(t, f)' =>
                 u \in Found(t, f) \/ (t = s /\ (u = new \/ u \in Known(s)))
  <2>1. PICK list \in Seq(Servers) :
          /\ list = Append(server[s].backupServers, new)
          /\ \A t \in Servers : \A f \in Threads :
               /\ election'[t][f].pc = election[t][f].pc
               /\ \A u : In(u, election'[t][f].walk) =>
                    In(u, election[t][f].walk) \/ (t = s /\ In(u, list))
    BY <1>from, AliveThreads
  <2>2. server[s].backupServers \in Seq(Servers)
    BY DEF TypeOK, ServerType
  <2>3. \A u : In(u, list) <=> u = new \/ u \in Known(s)
    BY <2>1, <2>2, InAppend, Lists
  <2> QED BY <2>1, <2>3, Lists, ListsNext
<1> USE <1>0 DEF AliveEffect
<1>1. \A t, u \in Servers : Sent(t, "ALIVE", u)' => Sent(t, "ALIVE", u) /\ u # new
  BY <1>0 DEF Registration, AlivesWait
<1>2. \A t, u \in Servers :
        Hears(t, u)' => Hears(t, u) \/ (u = new /\ (t = s \/ t \in Known(s))) \/ (t = new /\ u \in Known(s))
  <2> SUFFICES ASSUME NEW t \in Servers, NEW u \in Servers, Hears(t, u)'
               PROVE  Hears(t, u) \/ (u = new /\ (t = s \/ t \in Known(s))) \/ (t = new /\ u \in Known(s))
    OBVIOUS
  <2>1. Known(t)' = Known(t) \/ t = s
    BY <1>0, SameKnown
  <2>2. Registering(t)' <=> Registering(t)
    BY <1>0 DEF Registering
  <2>3. u # Nobody
    BY ElectionAssumption DEF ElectionAssumption
  <2> QED BY <1>0, <2>1, <2>2, <2>3 DEF Hears
<1>3. \A t \in Servers : ~Hears(t, new) /\ ~Hears(new, t) /\ new \notin Known(t)
  BY <1>0 DEF Registration, NewcomersApart, Hears
<1>4. ThreadsServe' /\ HolderServes'
  <2>1. \A t \in Servers : Serving(t)' <=> Serving(t)
    BY <1>0 DEF Serving
  <2>2. ThreadsServe /\ HolderServes
    BY DEF Registration
  <2>3. ThreadsServe'
    BY <1>shape, <2>1, <2>2 DEF ThreadsServe
  <2>4. HolderServes'
    BY <1>same, <2>1, <2>2 DEF HolderServes, TypeOK
  <2> QED BY <2>3, <2>4
<1>5. AlivesWait'
  BY <1>1, <1>same DEF Registration, AlivesWait
<1>6. AlivesOnce'
  <2>1. \A t \in Servers, n \in RequestType : <<t, n>> \in Told(s) /\ n.type = "ALIVE" => ~Sent(t, "ALIVE", n.from)
    BY DEF Told, Request
  <2> QED BY <2>1, ComesTold, CameOnce DEF Registration
<1>7. NewcomersApart'
  <2>1. \A u \in Servers : Newcomer(u)' => Newcomer(u) /\ u # new /\ u # s
    <3>1. server[new].loop # "off" /\ server[s].loop # "off"
      BY DEF Registration, NewcomersApart, Serving
    <3>2. \A t \in Servers : ~Sent(t, "ALIVE", s)
      BY <1>0 DEF Registration, AlivesWait
    <3>3. \A u \in Servers : server'[u].loop = server[u].loop
      BY <1>0
    <3>4. \A u \in Servers : server'[u].loop = "off" => Newcomer(u) /\ u # new /\ u # s
      BY <3>1, <3>3 DEF Newcomer
    <3>5. \A u, t \in Servers : Sent(t, "ALIVE", u)' => Newcomer(u) /\ u # new /\ u # s
      BY <1>1, <3>2 DEF Newcomer
    <3> QED BY <3>4, <3>5 DEF Newcomer
  <2>2. ASSUME NEW u \in Servers, NEW t \in Servers, Newcomer(u)' PROVE ~Hears(t, u)' /\ ~Hears(u, t)'
    <3>1. ~Hears(t, u) /\ ~Hears(u, t) /\ ~Hears(s, u) /\ u # new /\ u # s
      BY <2>1, <2>2 DEF Registration, NewcomersApart
    <3>2. u \notin Known(s)
      BY <3>1 DEF Hears
    <3> QED BY <1>2, <3>1, <3>2
  <2>3. \A u, t \in Servers : server'[u].loop = "off" => ~Sent(t, "ALIVE", u)'
    BY <1>0, <1>1 DEF Registration, NewcomersApart
  <2>4. \A u, t \in Servers : \A e \in Threads : server'[u].loop = "off" => u \notin Found(t, e)'
    <3> SUFFICES ASSUME NEW u \in Servers, NEW t \in Servers, NEW e \in Threads,
                        server'[u].loop = "off", u \in Found(t, e)'
                 PROVE  FALSE
      OBVIOUS
    <3>1. server[u].loop = "off" /\ server[new].loop # "off" /\ u # new
      BY <1>0 DEF Registration, NewcomersApart
    <3>2. u \notin Found(t, e) /\ ~Hears(s, u)
      BY <3>1 DEF Registration, NewcomersApart, Newcomer
    <3>3. u \notin Known(s)
      BY <3>2 DEF Hears
    <3> QED BY <1>shape, <3>1, <3>2, <3>3
  <2> QED BY <2>2, <2>3, <2>4 DEF NewcomersApart
<1>8. NotSelf'
  BY <1>0, <1>2, <1>3 DEF Registration, NotSelf
<1>9. CoordinatorsHold'
  BY <1>0, <1>same, <1>shape DEF Registration, CoordinatorsHold
<1> QED BY <1>4, <1>5, <1>6, <1>7, <1>8, <1>9 DEF Registration

-----------------------------------------------------------------------------
(* The threads.                                                             *)

LEMMA Least ==
  ASSUME NEW S \in SUBSET Nat, S # {}
  PROVE  \E n \in S : \A m \in S : n <= m
<1> DEFINE R == {xy \in Nat \X Nat : xy[1] < xy[2]}
<1>1. R = OpToRel(<, Nat)
  BY DEF OpToRel
<1>2. IsWellFoundedOn(R, Nat)
  BY Zenon, <1>1, NatLessThanWellFounded
<1>3. \E n \in S : \A m \in S : ~(<<m, n>> \in R)
  <2>1. S \subseteq Nat
    OBVIOUS
  <2> HIDE DEF R
  <2> QED BY <1>2, <2>1, WFMin
<1>4. PICK n \in S : \A m \in S : ~(<<m, n>> \in R)
  BY <1>3
<1>5. \A m \in S : ~(m < n)
  BY <1>4
<1> QED BY <1>5

\* A new election runs on a thread that was free.
LEMMA StartShape ==
  ASSUME TypeOK, NEW s \in Servers, MayStart(s), NEW t \in Servers, NEW f \in Threads
  PROVE  \/ Started(s)[t][f] = election[t][f]
         \/ /\ t = s /\ election[t][f].pc = "none"
            /\ Started(s)[t][f] = [election[t][f] EXCEPT !.pc = "begin"]
<1>1. CASE server[s].electionStarted
  BY <1>1 DEF Started
<1>2. CASE ~server[s].electionStarted
  <2>1. FreeThreads(s) \in SUBSET Nat /\ FreeThreads(s) # {}
    BY <1>2 DEF FreeThreads, Threads, MayStart
  <2>2. \E n \in FreeThreads(s) : \A m \in FreeThreads(s) : n <= m
    BY <2>1, Least
  <2>3. PICK n \in Threads : n = NextThread(s) /\ election[s][n].pc = "none"
    <3>1. NextThread(s) \in FreeThreads(s)
      BY <2>2 DEF NextThread
    <3> QED BY <3>1 DEF FreeThreads
  <2>4. Started(s) = [election EXCEPT ![s][n].pc = "begin"]
    BY <1>2, <2>3 DEF Started
  <2>5. CASE t = s /\ f = n
    <3>1. PICK threads \in [Threads -> ThreadType] : threads = election[s]
      BY DEF TypeOK
    <3>2. Started(s)[s] = [threads EXCEPT ![n].pc = "begin"]
      BY <2>4, <3>1 DEF TypeOK
    <3>3. Started(s)[s][n] = [threads[n] EXCEPT !.pc = "begin"]
      BY <3>2
    <3> QED BY <2>3, <2>5, <3>1, <3>3
  <2>6. CASE ~(t = s /\ f = n)
    BY <2>4, <2>6 DEF TypeOK
  <2> QED BY <2>5, <2>6
<1> QED BY <1>1, <1>2

\* A reply reaches the thread that awaits it.
Awaits(threads, m, pc, t, f) ==
  t = m.from /\ f = m.thread /\ threads[t][f].pc = pc /\ threads[t][f].at = m.at
Answered(old, new) == new = [old EXCEPT !.reply = TRUE]
LEMMA ReplyShape ==
  ASSUME NEW threads \in [Servers -> [Threads -> ThreadType]], NEW m, NEW pc,
         NEW t \in Servers, NEW f \in Threads
  PROVE  /\ Awaits(threads, m, pc, t, f) => Answered(threads[t][f], Replied(threads, m, pc)[t][f])
         /\ ~Awaits(threads, m, pc, t, f) => Replied(threads, m, pc)[t][f] = threads[t][f]
<1>1. PICK from, thr, at : from = m.from /\ thr = m.thread /\ at = m.at
  OBVIOUS
<1>2. CASE threads[from][thr].pc = pc /\ threads[from][thr].at = at
  <2>1. Replied(threads, m, pc) = [threads EXCEPT ![from][thr].reply = TRUE]
    BY <1>1, <1>2 DEF Replied
  <2>2. CASE t = from /\ f = thr
    <3>1. PICK row \in [Threads -> ThreadType] : row = threads[t]
      OBVIOUS
    <3>2. Replied(threads, m, pc)[t] = [row EXCEPT ![f].reply = TRUE]
      BY <2>1, <2>2, <3>1
    <3>3. Replied(threads, m, pc)[t][f] = [row[f] EXCEPT !.reply = TRUE]
      BY <3>2
    <3> QED BY <1>1, <1>2, <2>2, <3>1, <3>3 DEF Awaits, Answered
  <2>3. CASE ~(t = from /\ f = thr)
    BY <1>1, <2>1, <2>3 DEF Awaits
  <2> QED BY <2>2, <2>3
<1>3. CASE ~(threads[from][thr].pc = pc /\ threads[from][thr].at = at)
  BY <1>1, <1>3 DEF Replied, Awaits
<1> QED BY <1>2, <1>3

LEMMA ReplyFields ==
  ASSUME NEW threads \in [Servers -> [Threads -> ThreadType]], NEW m, NEW pc,
         NEW t \in Servers, NEW f \in Threads
  PROVE  LET old == threads[t][f]
             new == Replied(threads, m, pc)[t][f]
         IN  /\ new.pc = old.pc /\ new.walk = old.walk /\ new.at = old.at
             /\ new.peer = old.peer /\ new.torn = old.torn
             /\ new.reply = (old.reply \/ Awaits(threads, m, pc, t, f))
<1>1. PICK old \in ThreadType : old = threads[t][f]
  OBVIOUS
<1>2. PICK new : new = Replied(threads, m, pc)[t][f]
  OBVIOUS
<1>3. CASE Awaits(threads, m, pc, t, f)
  <2>1. new = [old EXCEPT !.reply = TRUE]
    BY <1>1, <1>2, <1>3, ReplyShape DEF Answered
  <2>2. /\ new.pc = old.pc /\ new.walk = old.walk /\ new.at = old.at
        /\ new.peer = old.peer /\ new.torn = old.torn /\ new.reply = TRUE
    BY <2>1 DEF ThreadType
  <2> QED BY <1>1, <1>2, <1>3, <2>2
<1>4. CASE ~Awaits(threads, m, pc, t, f)
  <2>0. Replied(threads, m, pc)[t][f] = threads[t][f]
    BY <1>4, ReplyShape
  <2>1. new = old
    BY <1>1, <1>2, <2>0
  <2>2. old.reply \in BOOLEAN
    BY DEF ThreadType
  <2> QED BY <1>1, <1>2, <1>4, <2>1, <2>2
<1> QED BY <1>3, <1>4

-----------------------------------------------------------------------------
(* The calm steps.                                                          *)

LEMMA SetIs ==
  ASSUME TypeOK, NEW s \in Servers, NEW new, Set(s, new)
  PROVE  server'[s] = new /\ \A t \in Servers : t # s => server'[t] = server[t]
BY DEF TypeOK, Set

ThreadsCalm ==
  \A t \in Servers : \A f \in Threads :
    /\ election'[t][f].pc # "none" => election[t][f].pc # "none" \/ Serving(t)
    /\ \A u \in Servers : In(u, election'[t][f].walk) => In(u, election[t][f].walk) \/ Hears(t, u)
OffersCalm == \A t, u \in Servers : Offered(t, u)' => Offered(t, u)
LoopCalm(s, l) ==
  /\ server[s].loop = "dead" => l = "dead"
  /\ l = "off" => server[s].loop = "off"
  /\ Serving(s) => l \in {"backup", "listenToc", "primary"}
  /\ l = "register" => server[s].loop = "register"

LEMMA CalmIf ==
  ASSUME TypeOK, NEW s \in Servers, NEW new \in ServerType, Set(s, new), primaryPort' = primaryPort,
         LoopCalm(s, new.loop), \A u \in Servers : In(u, new.backupServers) => Hears(s, u),
         ThreadsCalm, OffersCalm, Sends({"TIC", "ELECTION", "COORDINATOR"})
  PROVE  Calm
<1>1. server'[s] = new /\ \A t \in Servers : t # s => server'[t] = server[t]
  BY SetIs
<1>2. Ageing
  BY <1>1 DEF Ageing, LoopCalm, ThreadsCalm, Serving
<1>3. Unoffered
  BY <1>1 DEF Unoffered, OffersCalm, Registering, LoopCalm
<1>4. ASSUME NEW t \in Servers, NEW u \in Servers, (u \in Known(t))' PROVE Hears(t, u)
  <2>1. CASE t = s
    BY <1>1, <1>4, <2>1, ListsNext
  <2>2. CASE t # s
    BY <1>1, <1>4, <2>2, SameKnown DEF Hears
  <2> QED BY <2>1, <2>2
<1>5. NoNews
  BY <1>3, <1>4, NoNewsWithout
<1>6. FindsKnown
  BY Lists, ListsNext DEF FindsKnown, ThreadsCalm
<1> QED BY <1>2, <1>5, <1>6 DEF Calm

LEMMA StillThreads == ASSUME election' = election PROVE ThreadsCalm
BY DEF ThreadsCalm

LEMMA StillOffers == ASSUME answers' = answers PROVE OffersCalm
BY DEF OffersCalm, Offered

LEMMA ReadOffers ==
  ASSUME TypeOK, NEW s \in Servers, answers[s] # <<>>, answers' = [answers EXCEPT ![s] = Tail(@)]
  PROVE  OffersCalm /\ \A u \in Servers : Head(answers[s]) = u => Offered(s, u)
<1>1. answers[s] \in Seq(Servers \cup {Nobody})
  BY DEF TypeOK
<1>2. \A u : In(u, answers[s]) <=> u = Head(answers[s]) \/ In(u, Tail(answers[s]))
  BY <1>1, InTail
<1>3. answers'[s] = Tail(answers[s]) /\ \A t \in Servers : t # s => answers'[t] = answers[t]
  BY DEF TypeOK
<1> QED BY <1>2, <1>3, Lists, ListsNext DEF OffersCalm

LEMMA TocOffers ==
  ASSUME ElectionAssumption, TypeOK, NEW t, ReplyTo(t, <<Nobody>>)
  PROVE  OffersCalm
<1> SUFFICES ASSUME NEW v \in Servers, NEW u \in Servers, Offered(v, u)' PROVE Offered(v, u)
  BY DEF OffersCalm
<1>1. PICK q \in Seq(Servers \cup {Nobody}) : q = answers[v]
  BY DEF TypeOK
<1>2. PICK p \in Seq(Servers \cup {Nobody}) : p = <<Nobody>>
  <2>1. <<Nobody>> \in Seq(Servers \cup {Nobody})
    OBVIOUS
  <2> QED BY <2>1
<1>3. ~In(u, p)
  BY <1>2 DEF In, ElectionAssumption
<1>4. answers'[v] = q \/ answers'[v] = q \o p
  BY <1>1, <1>2 DEF ReplyTo, TypeOK
<1>5. In(u, q \o p) <=> In(u, q) \/ In(u, p)
  BY InConcat
<1>6. In(u, answers'[v])
  BY ListsNext
<1>7. In(u, answers[v])
  BY <1>1, <1>3, <1>4, <1>5, <1>6
<1> QED BY <1>7, Lists

LEMMA SendsNone ==
  ASSUME Comes({}) PROVE Sends({"TIC", "ELECTION", "COORDINATOR"})
<1>1. \A t, m : <<t, m>> \notin {}
  OBVIOUS
<1> QED BY <1>1 DEF Sends

LEMMA SendsOne ==
  ASSUME NEW t, NEW m \in RequestType, Comes({<<t, m>>}), m.type \in {"TIC", "ELECTION", "COORDINATOR"},
         m.type = "COORDINATOR" => m.from = primaryPort
  PROVE  Sends({"TIC", "ELECTION", "COORDINATOR"})
<1>1. \A v, n : <<v, n>> \in {<<t, m>>} => n = m
  OBVIOUS
<1> QED BY <1>1 DEF Sends

LEMMA CalmLoop ==
  ASSUME ElectionAssumption, TypeOK, NEW s \in Servers, LoopStep(s), ~ReceiveAlive(s)
  PROVE  Calm
<1>1. PICK me \in ServerType : me = server[s]
  BY DEF TypeOK
<1>known. \A u : In(u, me.backupServers) => Hears(s, u)
  BY <1>1, Lists DEF Hears
<1>back. \A list \in Seq(Servers) : \A b \in BOOLEAN :
           /\ [Back(s) EXCEPT !.electionStarted = b] \in ServerType
           /\ [Back(s) EXCEPT !.electionStarted = b].loop = me.loop
           /\ [Back(s) EXCEPT !.electionStarted = b].backupServers = me.backupServers
           /\ [Back(s) EXCEPT !.backupServers = list] \in ServerType
           /\ [Back(s) EXCEPT !.backupServers = list].loop = me.loop
           /\ [Back(s) EXCEPT !.backupServers = list].backupServers = list
           /\ [Back(s) EXCEPT !.backupServers = list, !.electionStarted = b] \in ServerType
           /\ [Back(s) EXCEPT !.backupServers = list, !.electionStarted = b].loop = me.loop
           /\ [Back(s) EXCEPT !.backupServers = list, !.electionStarted = b].backupServers = list
  BY <1>1 DEF Back, ServerType
<1>back2. Back(s) \in ServerType /\ Back(s).loop = me.loop /\ Back(s).backupServers = me.backupServers
  BY <1>1 DEF Back, ServerType
<1>nothing. inbox' = inbox => Sends({"TIC", "ELECTION", "COORDINATOR"})
  BY ComesNothing, SendsNone
<1>serve. server[s].loop \in {"backup", "primary", "listenToc"} => LoopCalm(s, me.loop)
  BY <1>1 DEF LoopCalm, Serving
<1>read. ASSUME NEW type, Receives(s, type)
         PROVE  /\ server[s].loop \in {"backup", "primary"} /\ inbox[s] # <<>>
                /\ Handled(s) => Sends({"TIC", "ELECTION", "COORDINATOR"})
  BY <1>read, ComesHandled, SendsNone DEF Receives
<1>2. CASE HearOfBackup(s)
  <2>1. PICK x \in Servers \cup {Nobody} : x = Head(answers[s])
    BY <1>2, InTail DEF HearOfBackup, TypeOK
  <2>2. OffersCalm /\ (x \in Servers => Hears(s, x))
    BY <1>2, <2>1, ReadOffers DEF HearOfBackup, Hears, Registering
  <2>3. CASE x = Nobody
    <3>1. Set(s, me)
      BY <1>1, <1>2, <2>1, <2>3 DEF HearOfBackup
    <3>2. LoopCalm(s, me.loop)
      BY <1>1, <1>2 DEF HearOfBackup, LoopCalm, Serving
    <3> QED BY <1>2, <1>known, <1>nothing, <2>2, <3>1, <3>2, CalmIf, StillThreads DEF HearOfBackup
  <2>4. CASE x # Nobody
    <3>1. PICK list \in Seq(Servers) : list = Append(me.backupServers, x)
      <4>1. PICK q \in Seq(Servers) : q = me.backupServers
        BY DEF ServerType
      <4>2. x \in Servers
        BY <2>1, <2>4
      <4>3. Append(q, x) \in Seq(Servers)
        BY <4>2
      <4> QED BY <4>1, <4>3
    <3>2. PICK new \in ServerType : new = [me EXCEPT !.backupServers = list]
      BY DEF ServerType
    <3>3. new.loop = me.loop /\ new.backupServers = list
      BY <3>2 DEF ServerType
    <3>4. Set(s, new)
      BY <1>1, <1>2, <2>1, <2>4, <3>1, <3>2 DEF HearOfBackup
    <3>5. LoopCalm(s, new.loop)
      BY <1>1, <1>2, <3>3 DEF HearOfBackup, LoopCalm, Serving
    <3>6. me.backupServers \in Seq(Servers) /\ x \in Servers
      BY <2>1, <2>4 DEF ServerType
    <3>7. \A u : In(u, list) <=> u = x \/ In(u, me.backupServers)
      BY <3>1, <3>6, InAppend
    <3>8. \A u \in Servers : In(u, new.backupServers) => Hears(s, u)
      BY <1>known, <2>2, <3>3, <3>6, <3>7
    <3> QED BY <1>2, <1>nothing, <2>2, <3>4, <3>5, <3>8, CalmIf, StillThreads DEF HearOfBackup
  <2> QED BY <2>3, <2>4
<1>3. CASE HearNoMore(s)
  <2>1. PICK new \in ServerType : new = [me EXCEPT !.loop = "backup"]
    BY DEF ServerType, Loops
  <2>2. new.loop = "backup" /\ new.backupServers = me.backupServers /\ Set(s, new)
    BY <1>1, <1>3, <2>1 DEF ServerType, HearNoMore
  <2>3. LoopCalm(s, new.loop)
    BY <1>3, <2>2 DEF HearNoMore, LoopCalm
  <2> QED BY <1>3, <1>known, <1>nothing, <2>2, <2>3, CalmIf, StillThreads, StillOffers DEF HearNoMore
<1>4. CASE SendTic(s)
  <2>1. PICK new \in ServerType : new = [me EXCEPT !.loop = "listenToc"]
    BY DEF ServerType, Loops
  <2>2. new.loop = "listenToc" /\ new.backupServers = me.backupServers /\ Set(s, new)
    BY <1>1, <1>4, <2>1 DEF ServerType, SendTic
  <2>3. LoopCalm(s, new.loop)
    BY <1>4, <2>2 DEF SendTic, LoopCalm
  <2>4. PICK m \in RequestType : m = Request("TIC", s) /\ m.type = "TIC"
    BY RequestTyped DEF Request
  <2>5. Sends({"TIC", "ELECTION", "COORDINATOR"})
    BY <1>4, <2>4, ComesToPrimary, SendsOne DEF SendTic
  <2> QED BY <1>4, <1>known, <2>2, <2>3, <2>5, CalmIf, StillThreads, StillOffers DEF SendTic
<1>5. CASE HearToc(s)
  <2>1. PICK new \in ServerType : new = [me EXCEPT !.loop = "backup"]
    BY DEF ServerType, Loops
  <2>2. new.loop = "backup" /\ new.backupServers = me.backupServers /\ Set(s, new)
    BY <1>1, <1>5, <2>1 DEF ServerType, HearToc
  <2>3. LoopCalm(s, new.loop)
    BY <1>5, <2>2 DEF HearToc, LoopCalm
  <2>4. OffersCalm
    BY <1>5, ReadOffers DEF HearToc
  <2> QED BY <1>5, <1>known, <1>nothing, <2>2, <2>3, <2>4, CalmIf, StillThreads DEF HearToc
<1>start. ASSUME Serving(s), MayStart(s), NEW t \in Servers, NEW f \in Threads
          PROVE  /\ Started(s)[t][f].pc # "none" => election[t][f].pc # "none" \/ Serving(t)
                 /\ Started(s)[t][f].walk = election[t][f].walk
  <2>1. PICK old \in ThreadType : old = election[t][f]
    BY DEF TypeOK
  <2>2. Started(s)[t][f] = old \/ (t = s /\ Started(s)[t][f] = [old EXCEPT !.pc = "begin"])
    BY <1>start, <2>1, StartShape
  <2>3. [old EXCEPT !.pc = "begin"].walk = old.walk
    BY DEF ThreadType
  <2> QED BY <1>start, <2>1, <2>2, <2>3
<1>6. CASE HearNoToc(s)
  <2>1. PICK new \in ServerType : new = [me EXCEPT !.loop = "backup", !.electionStarted = TRUE]
    BY DEF ServerType, Loops
  <2>2. new.loop = "backup" /\ new.backupServers = me.backupServers /\ Set(s, new)
    BY <1>1, <1>6, <2>1 DEF ServerType, HearNoToc
  <2>3. LoopCalm(s, new.loop) /\ Serving(s)
    BY <1>6, <2>2 DEF HearNoToc, LoopCalm, Serving
  <2>4. ThreadsCalm
    BY <1>6, <1>start, <2>3 DEF ThreadsCalm, HearNoToc
  <2> QED BY <1>6, <1>known, <1>nothing, <2>2, <2>3, <2>4, CalmIf, StillOffers DEF HearNoToc
<1>7. CASE LeaveOldPort(s)
  <2>1. PICK new \in ServerType : new = [me EXCEPT !.closing = FALSE]
    BY DEF ServerType
  <2>2. new.loop = me.loop /\ new.backupServers = me.backupServers /\ Set(s, new)
    BY <1>1, <1>7, <2>1 DEF ServerType, LeaveOldPort
  <2>3. LoopCalm(s, new.loop)
    BY <1>1, <1>7, <2>2 DEF LeaveOldPort, LoopCalm, Serving
  <2> QED BY <1>7, <1>known, <1>nothing, <2>2, <2>3, CalmIf, StillThreads, StillOffers DEF LeaveOldPort
<1>8. CASE LeaveBackupLoop(s)
  <2>1. PICK new \in ServerType : new = [me EXCEPT !.loop = "primary", !.closing = FALSE]
    BY DEF ServerType, Loops
  <2>2. new.loop = "primary" /\ new.backupServers = me.backupServers /\ Set(s, new)
    BY <1>1, <1>8, <2>1 DEF ServerType, LeaveBackupLoop
  <2>3. LoopCalm(s, new.loop)
    BY <1>8, <2>2 DEF LeaveBackupLoop, LoopCalm
  <2> QED BY <1>8, <1>known, <1>nothing, <2>2, <2>3, CalmIf, StillThreads, StillOffers DEF LeaveBackupLoop
<1>9. CASE ReceiveTic(s)
  <2>1. PICK new \in ServerType : new = Back(s) /\ new.loop = me.loop /\ new.backupServers = me.backupServers
    BY <1>back2
  <2>2. Set(s, new)
    BY <1>9, <2>1 DEF ReceiveTic
  <2>3. Sends({"TIC", "ELECTION", "COORDINATOR"}) /\ LoopCalm(s, new.loop)
    BY <1>9, <1>read, <1>serve, <2>1 DEF ReceiveTic
  <2>4. OffersCalm
    BY <1>9, TocOffers DEF ReceiveTic
  <2> QED BY <1>9, <1>known, <2>1, <2>2, <2>3, <2>4, CalmIf, StillThreads DEF ReceiveTic
<1>torn. ASSUME NEW list \in Seq(Servers), \A u \in Servers : In(u, list) => Hears(s, u),
                NEW t \in Servers, NEW f \in Threads
         PROVE  /\ Torn(s, list)[t][f].pc = election[t][f].pc
                /\ \A u \in Servers :
                     In(u, Torn(s, list)[t][f].walk) => In(u, election[t][f].walk) \/ Hears(t, u)
  <2>1. PICK old \in ThreadType : old = election[t][f]
    BY DEF TypeOK
  <2>2. CASE Torn(s, list)[t][f] = old
    BY <2>1, <2>2
  <2>3. CASE t = s /\ IsTorn(old, Torn(s, list)[t][f], list)
    <3>1. Torn(s, list)[t][f].pc = old.pc /\ Torn(s, list)[t][f].walk = Overlaid(old.walk, list)
      BY <2>3 DEF ThreadType, IsTorn
    <3>2. old.walk \in Seq(Servers)
      BY DEF ThreadType
    <3>3. \A u : In(u, Overlaid(old.walk, list)) => In(u, old.walk) \/ In(u, list)
      BY <3>2, InOverlaid
    <3> QED BY <1>torn, <2>1, <2>3, <3>1, <3>3
  <2> QED BY <2>1, <2>2, <2>3, TornShape
<1>10. CASE ReceiveBackup(s)
  <2>1. PICK m \in RequestType : m = Head(inbox[s]) /\ m.type = "BACKUP" /\ m.from \in Servers
    BY <1>10, HeadTyped DEF ReceiveBackup, Receives, RequestType
  <2>2. PICK list \in Seq(Servers) : list = Append(me.backupServers, m.from)
    <3>1. PICK q \in Seq(Servers) : q = me.backupServers
      BY DEF ServerType
    <3>2. Append(q, m.from) \in Seq(Servers)
      BY <2>1
    <3> QED BY <3>1, <3>2
  <2>3. Sent(s, "BACKUP", m.from)
    <3>1. 1 \in DOMAIN inbox[s] /\ inbox[s][1] = m
      BY <1>10, <2>1, InTail DEF ReceiveBackup, Receives, TypeOK
    <3> QED BY <2>1, <3>1 DEF Sent
  <2>4. \A u \in Servers : In(u, list) => Hears(s, u)
    <3>1. me.backupServers \in Seq(Servers)
      BY DEF ServerType
    <3>2. \A u : In(u, list) <=> u = m.from \/ In(u, me.backupServers)
      BY <2>1, <2>2, <3>1, InAppend
    <3> QED BY <1>known, <2>3, <3>2 DEF Hears
  <2>5. PICK new \in ServerType : /\ new = [Back(s) EXCEPT !.backupServers = list]
                                  /\ new.loop = me.loop /\ new.backupServers = list
    BY <1>back
  <2>6. Set(s, new) /\ election' = Torn(s, list)
    BY <1>1, <1>10, <2>1, <2>2, <2>5 DEF ReceiveBackup
  <2>7. Sends({"TIC", "ELECTION", "COORDINATOR"}) /\ LoopCalm(s, new.loop)
    BY <1>10, <1>read, <1>serve, <2>5 DEF ReceiveBackup
  <2>8. ThreadsCalm
    BY <1>torn, <2>4, <2>6 DEF ThreadsCalm
  <2> QED BY <1>10, <2>4, <2>5, <2>6, <2>7, <2>8, CalmIf, StillOffers DEF ReceiveBackup
<1>11. CASE ReceiveElection(s)
  <2>1. PICK new \in ServerType : /\ new = [Back(s) EXCEPT !.electionStarted = TRUE]
                                  /\ new.loop = me.loop /\ new.backupServers = me.backupServers
    <3>1. me.backupServers \in Seq(Servers)
      BY DEF ServerType
    <3> QED BY <1>back, <3>1
  <2>2. Set(s, new)
    BY <1>11, <2>1 DEF ReceiveElection
  <2>3. Sends({"TIC", "ELECTION", "COORDINATOR"}) /\ LoopCalm(s, new.loop) /\ Serving(s)
    BY <1>11, <1>read, <1>serve, <2>1 DEF ReceiveElection, Serving
  <2>4. PICK started \in [Servers -> [Threads -> ThreadType]] :
          started = Started(s) /\ election' = Replied(started, Head(inbox[s]), "listenAnswer")
    BY <1>11, StartedTyped DEF ReceiveElection
  <2>5. ASSUME NEW t \in Servers, NEW f \in Threads
        PROVE  /\ started[t][f].pc # "none" => election[t][f].pc # "none" \/ Serving(t)
               /\ started[t][f].walk = election[t][f].walk
               /\ election'[t][f].pc = started[t][f].pc /\ election'[t][f].walk = started[t][f].walk
    <3>2. election'[t][f].pc = started[t][f].pc /\ election'[t][f].walk = started[t][f].walk
      BY <2>4, ReplyFields
    <3> QED BY <1>11, <1>start, <2>3, <2>4, <3>2 DEF ReceiveElection
  <2>6. ThreadsCalm
    <3> SUFFICES ASSUME NEW t \in Servers, NEW f \in Threads
                 PROVE  /\ election'[t][f].pc # "none" => election[t][f].pc # "none" \/ Serving(t)
                        /\ \A u \in Servers : In(u, election'[t][f].walk) =>
                             In(u, election[t][f].walk) \/ Hears(t, u)
      BY DEF ThreadsCalm
    <3>1. /\ started[t][f].pc # "none" => election[t][f].pc # "none" \/ Serving(t)
          /\ started[t][f].walk = election[t][f].walk
          /\ election'[t][f].pc = started[t][f].pc /\ election'[t][f].walk = started[t][f].walk
      BY <2>5, Zenon
    <3> QED BY <3>1
  <2> QED BY <1>11, <1>known, <2>1, <2>2, <2>3, <2>6, CalmIf, StillOffers DEF ReceiveElection
<1>12. CASE ReceiveCoordinator(s)
  <2>1. PICK m \in RequestType : m = Head(inbox[s])
    BY <1>12, HeadTyped DEF ReceiveCoordinator, Receives
  <2>2. PICK list \in Seq(Servers) : /\ list = Without(me.backupServers, m.from)
                                     /\ \A u : In(u, list) => In(u, me.backupServers)
    <3>1. me.backupServers \in Seq(Servers)
      BY DEF ServerType
    <3>2. PICK q \in Seq(Servers) : q = Without(me.backupServers, m.from)
      BY <3>1, WithoutIs
    <3>3. \A u : In(u, q) => In(u, me.backupServers)
      BY <3>1, <3>2, WithoutIs
    <3> QED BY <3>2, <3>3
  <2>3. \A u \in Servers : In(u, list) => Hears(s, u)
    BY <1>known, <2>2
  <2>4. PICK new \in ServerType : /\ new = [Back(s) EXCEPT !.backupServers = list, !.electionStarted = FALSE]
                                  /\ new.loop = me.loop /\ new.backupServers = list
    BY <1>back
  <2>5. PICK torn \in [Servers -> [Threads -> ThreadType]] : torn = Torn(s, list)
    BY TornTyped
  <2>6. Set(s, new) /\ election' = Replied(torn, m, "listenReply")
    BY <1>1, <1>12, <2>1, <2>2, <2>4, <2>5 DEF ReceiveCoordinator
  <2>7. Sends({"TIC", "ELECTION", "COORDINATOR"}) /\ LoopCalm(s, new.loop)
    BY <1>12, <1>read, <1>serve, <2>4 DEF ReceiveCoordinator
  <2>8. ASSUME NEW t \in Servers, NEW f \in Threads
        PROVE  election'[t][f].pc = torn[t][f].pc /\ election'[t][f].walk = torn[t][f].walk
    BY <2>6, ReplyFields
  <2>9. ThreadsCalm
    <3> SUFFICES ASSUME NEW t \in Servers, NEW f \in Threads
                 PROVE  /\ election'[t][f].pc # "none" => election[t][f].pc # "none" \/ Serving(t)
                        /\ \A u \in Servers : In(u, election'[t][f].walk) =>
                             In(u, election[t][f].walk) \/ Hears(t, u)
      BY DEF ThreadsCalm
    <3>1. election'[t][f].pc = torn[t][f].pc /\ election'[t][f].walk = torn[t][f].walk
      BY <2>8
    <3>2. /\ torn[t][f].pc = election[t][f].pc
          /\ \A u \in Servers : In(u, torn[t][f].walk) => In(u, election[t][f].walk) \/ Hears(t, u)
      BY <1>torn, <2>3, <2>5
    <3> QED BY <3>1, <3>2
  <2>10. primaryPort' = primaryPort /\ OffersCalm
    BY <1>12, StillOffers DEF ReceiveCoordinator
  <2>11. \A u \in Servers : In(u, new.backupServers) => Hears(s, u)
    BY <2>3, <2>4
  <2> QED BY <2>6, <2>7, <2>9, <2>10, <2>11, CalmIf
<1> QED BY <1>2, <1>3, <1>4, <1>5, <1>6, <1>7, <1>8, <1>9, <1>10, <1>11, <1>12 DEF LoopStep, Receive

LEMMA ListedServer ==
  ASSUME NEW q \in Seq(Servers), NEW i \in DOMAIN q
  PROVE  q[i] \in Servers
OBVIOUS

LEMMA SetThreadIs ==
  ASSUME TypeOK, NEW s \in Servers, NEW e \in Threads, NEW new, SetThread(s, e, new)
  PROVE  /\ election'[s][e] = new
         /\ \A t \in Servers : \A f \in Threads : t # s \/ f # e => election'[t][f] = election[t][f]
<1>1. PICK row \in [Threads -> ThreadType] : row = election[s]
  BY DEF TypeOK
<1>2. election'[s] = [row EXCEPT ![e] = new] /\ \A t \in Servers : t # s => election'[t] = election[t]
  BY <1>1 DEF TypeOK, SetThread
<1> QED BY <1>1, <1>2

LEMMA ThreadCalm ==
  ASSUME TypeOK, NEW s \in Servers, NEW e \in Threads, NEW new, SetThread(s, e, new),
         election[s][e].pc # "none",
         \A u \in Servers : In(u, new.walk) => In(u, election[s][e].walk) \/ Hears(s, u)
  PROVE  ThreadsCalm
<1>1. /\ election'[s][e] = new
      /\ \A t \in Servers : \A f \in Threads : t # s \/ f # e => election'[t][f] = election[t][f]
  BY SetThreadIs
<1>2. ASSUME NEW t \in Servers, NEW f \in Threads
      PROVE  /\ election'[t][f].pc # "none" => election[t][f].pc # "none"
             /\ \A u \in Servers : In(u, election'[t][f].walk) => In(u, election[t][f].walk) \/ Hears(t, u)
  <2>1. CASE t = s /\ f = e
    BY <1>1, <2>1
  <2>2. CASE t # s \/ f # e
    BY <1>1, <2>2
  <2> QED BY <2>1, <2>2
<1> QED BY <1>2 DEF ThreadsCalm

LEMMA UnsetCalm ==
  ASSUME TypeOK, NEW s \in Servers, server' = server, primaryPort' = primaryPort,
         ThreadsCalm, OffersCalm, Sends({"TIC", "ELECTION", "COORDINATOR"})
  PROVE  Calm
<1>1. PICK me \in ServerType : me = server[s]
  BY DEF TypeOK
<1>2. Set(s, me)
  BY <1>1 DEF TypeOK, Set
<1>3. LoopCalm(s, me.loop)
  BY <1>1 DEF LoopCalm, Serving
<1>4. \A u \in Servers : In(u, me.backupServers) => Hears(s, u)
  BY <1>1, Lists DEF Hears
<1> QED BY <1>2, <1>3, <1>4, CalmIf

LEMMA NewThreadWalk == NewThread.walk = <<>> /\ NewThread.pc = "none" /\ \A u : ~In(u, <<>>)
BY DEF NewThread, In

LEMMA CalmElection ==
  ASSUME ElectionAssumption, TypeOK, PortInv, NEW s \in Servers, NEW e \in Threads,
         ElectionStep(s, e), ~ChangePort(s, e), ~BindFails(s, e)
  PROVE  Calm
<1>1. PICK thread \in ThreadType : thread = election[s][e]
  BY DEF TypeOK
<1>walk. \A u \in Servers : In(u, thread.walk) => In(u, election[s][e].walk) \/ Hears(s, u)
  BY <1>1
<1>nothing. inbox' = inbox => Sends({"TIC", "ELECTION", "COORDINATOR"})
  BY ComesNothing, SendsNone
<1>move. ASSUME NEW new, SetThread(s, e, new), thread.pc # "none", new.walk = thread.walk,
                UNCHANGED <<server, primaryPort, answers>>, Sends({"TIC", "ELECTION", "COORDINATOR"})
         PROVE  Calm
  <2>1. ThreadsCalm
    BY <1>1, <1>move, <1>walk, ThreadCalm
  <2> QED BY <1>move, <2>1, StillOffers, UnsetCalm
<1>goOn. ASSUME NEW pc PROVE GoOn(thread, pc).walk = thread.walk
  BY DEF GoOn, ThreadType
<1>2. CASE BeginElection(s, e)
  <2>1. PICK new : new = [NewThread EXCEPT !.pc = "ask", !.walk = server[s].backupServers]
    OBVIOUS
  <2>2. new.walk = server[s].backupServers
    BY <2>1 DEF NewThread
  <2>3. \A u \in Servers : In(u, new.walk) => Hears(s, u)
    BY <2>2, Lists DEF Hears
  <2>4. ThreadsCalm
    BY <1>1, <1>2, <2>1, <2>3, ThreadCalm DEF BeginElection
  <2> QED BY <1>2, <1>nothing, <2>4, StillOffers, UnsetCalm DEF BeginElection
<1>3. CASE SkipSmaller(s, e) \/ HearNoAnswer(s, e) \/ HearReply(s, e)
  <2>1. PICK pc, new : /\ new = GoOn(thread, pc) /\ SetThread(s, e, new) /\ thread.pc # "none"
                       /\ UNCHANGED <<server, primaryPort, inbox, answers>>
    BY <1>1, <1>3 DEF SkipSmaller, HearNoAnswer, HearReply
  <2> QED BY <1>move, <1>nothing, <1>goOn, <2>1
<1>4. CASE AskGreater(s, e)
  <2>1. PICK new : new = [thread EXCEPT !.pc = "listenAnswer", !.peer = Peer(s, e)]
    OBVIOUS
  <2>2. new.walk = thread.walk /\ thread.pc # "none"
    BY <1>1, <1>4, <2>1 DEF ThreadType, AskGreater
  <2>3. PICK m \in RequestType : m = RequestOf("ELECTION", s, e) /\ m.type = "ELECTION"
    BY RequestOfTyped DEF RequestOf
  <2>4. Sends({"TIC", "ELECTION", "COORDINATOR"})
    BY <1>4, <2>3, ComesSent, SendsOne DEF AskGreater
  <2> QED BY <1>1, <1>4, <1>move, <2>1, <2>2, <2>4 DEF AskGreater
<1>5. CASE HearAnswer(s, e) \/ BecomePrimary(s, e)
  <2>1. PICK new : new = [NewThread EXCEPT !.pc = "ended"]
    OBVIOUS
  <2>2. new.walk = <<>>
    BY <2>1 DEF NewThread
  <2>3. ThreadsCalm
    <3>1. SetThread(s, e, new) /\ election[s][e].pc # "none"
      BY <1>5, <2>1 DEF HearAnswer, BecomePrimary
    <3>2. \A u \in Servers : In(u, new.walk) => In(u, election[s][e].walk) \/ Hears(s, u)
      BY <2>2, NewThreadWalk
    <3> QED BY <3>1, <3>2, ThreadCalm
  <2>4. CASE HearAnswer(s, e)
    BY <2>4, <1>nothing, <2>3, StillOffers, UnsetCalm DEF HearAnswer
  <2>5. CASE BecomePrimary(s, e)
    <3>1. PICK me \in ServerType : me = server[s]
      BY DEF TypeOK
    <3>2. PICK new2 \in ServerType : new2 = [me EXCEPT !.isPrimary = TRUE]
      BY DEF ServerType
    <3>3. new2.loop = me.loop /\ new2.backupServers = me.backupServers /\ Set(s, new2)
      BY <2>5, <3>1, <3>2 DEF ServerType, BecomePrimary
    <3>4. LoopCalm(s, new2.loop)
      BY <3>1, <3>3 DEF LoopCalm, Serving
    <3>5. \A u \in Servers : In(u, new2.backupServers) => Hears(s, u)
      BY <3>1, <3>3, Lists DEF Hears
    <3> QED BY <2>5, <1>nothing, <2>3, <3>3, <3>4, <3>5, StillOffers, CalmIf DEF BecomePrimary
  <2> QED BY <1>5, <2>4, <2>5
<1>6. CASE BecomeCoordinator(s, e)
  <2>1. PICK new : new = [thread EXCEPT !.pc = "changePort"]
    OBVIOUS
  <2>2. new.walk = thread.walk /\ thread.pc # "none"
    BY <1>1, <1>6, <2>1 DEF ThreadType, BecomeCoordinator
  <2> QED BY <1>1, <1>6, <1>move, <1>nothing, <2>1, <2>2 DEF BecomeCoordinator
<1>m. PICK m \in RequestType : m = RequestOf("COORDINATOR", s, e) /\ m.type = "COORDINATOR" /\ m.from = s
  BY RequestOfTyped DEF RequestOf
<1>port. Announcing(election, s, e) => s = primaryPort
  BY DEF PortInv, AnnouncerHasPort
<1>7. CASE Announce(s, e)
  <2>1. PICK new : new = [thread EXCEPT !.pc = "listenReply", !.peer = Peer(s, e)]
    OBVIOUS
  <2>2. new.walk = thread.walk /\ thread.pc # "none" /\ s = primaryPort
    BY <1>1, <1>7, <1>port, <2>1 DEF ThreadType, Announce, Announcing
  <2>3. Sends({"TIC", "ELECTION", "COORDINATOR"})
    BY <1>7, <1>m, <2>2, ComesSent, SendsOne DEF Announce
  <2> QED BY <1>1, <1>7, <1>move, <2>1, <2>2, <2>3 DEF Announce
<1>8. CASE AnnounceAgain(s, e)
  <2>1. s = primaryPort
    BY <1>8, <1>port DEF Announcing, AnnounceAgain
  <2>2. Sends({"TIC", "ELECTION", "COORDINATOR"})
    <3>1. Send(election[s][e].peer, m)
      BY <1>8, <1>m DEF AnnounceAgain
    <3>2. Comes({<<election[s][e].peer, m>>})
      BY <3>1, ComesSent
    <3> QED BY <1>m, <2>1, <3>2, SendsOne
  <2> QED BY <1>8, <2>2, StillThreads, StillOffers, UnsetCalm DEF AnnounceAgain
<1> QED BY <1>2, <1>3, <1>4, <1>5, <1>6, <1>7, <1>8 DEF ElectionStep

LEMMA RegistrationStep ==
  ASSUME ElectionAssumption, TypeOK, TypeOK', PortInv, Registration, [Next]_vars
  PROVE  Registration'
<1>1. ASSUME NEW s \in Servers, Register(s) PROVE Registration'
  BY <1>1, RegisterRegistration
<1>2. ASSUME NEW s \in Servers, LoopStep(s) PROVE Registration'
  <2>1. CASE ReceiveAlive(s)
    BY <2>1, AliveRegistration
  <2>2. CASE ~ReceiveAlive(s)
    BY <1>2, <2>2, CalmLoop, CalmRegistration
  <2> QED BY <2>1, <2>2
<1>3. ASSUME NEW s \in Servers, Crash(s) PROVE Registration'
  BY <1>3, DeathRegistration DEF Crash
<1>4. ASSUME NEW s \in Servers, NEW e \in Threads, ElectionStep(s, e) PROVE Registration'
  <2>1. CASE ChangePort(s, e)
    BY <2>1, PortRegistration
  <2>2. CASE BindFails(s, e)
    BY <2>2, DeathRegistration DEF BindFails
  <2>3. CASE ~ChangePort(s, e) /\ ~BindFails(s, e)
    BY <1>4, <2>3, CalmElection, CalmRegistration
  <2> QED BY <2>1, <2>2, <2>3
<1>5. ASSUME NEW s \in Servers, NEW e \in Threads, DieOfTornWalk(s, e) PROVE Registration'
  BY <1>5, DeathRegistration DEF DieOfTornWalk
<1>6. CASE UNCHANGED vars
  BY <1>6 DEF vars, Registration, ThreadsServe, HolderServes, AlivesWait, AlivesOnce, NewcomersApart,
              NotSelf, CoordinatorsHold, Serving, Sent, Newcomer, Hears, Known, Offered, Registering, Found
<1> QED BY <1>1, <1>2, <1>3, <1>4, <1>5, <1>6 DEF Next

LEMMA OrderIsAll ==
  ASSUME ElectionAssumption, NEW order \in Orders
  PROVE  \A u : In(u, order) <=> u \in Registered
<1>1. IsFiniteSet(Registered)
  BY FS_Subset DEF ElectionAssumption
<1>2. PICK n \in Nat : n = Cardinality(Registered)
  BY <1>1, FS_CardinalityType
<1>3. order \in [1 .. n -> Registered] /\ \A i, j \in 1 .. n : i # j => order[i] # order[j]
  BY <1>2 DEF Orders
<1>4. order \in Injection(1 .. n, Registered)
  BY <1>3 DEF Injection, IsInjective
<1>5. IsFiniteSet(1 .. n) /\ Cardinality(1 .. n) = n
  BY FS_Interval
<1>6. order \in Surjection(1 .. n, Registered)
  BY <1>1, <1>2, <1>4, <1>5, FS_Injection
<1>7. \A u \in Registered : \E i \in 1 .. n : order[i] = u
  BY <1>6 DEF Surjection
<1>8. DOMAIN order = 1 .. n /\ \A i \in 1 .. n : order[i] \in Registered
  BY <1>3
<1> QED BY <1>7, <1>8 DEF In

LEMMA InitServers ==
  ASSUME ElectionAssumption, Init
  PROVE  /\ server[First].loop = "primary"
         /\ \A s \in Servers \ {First} : ~server[s].isPrimary
         /\ \A s \in Registered : server[s].loop = "backup"
         /\ \A s \in Servers \ {First} : s \notin Registered => server[s].loop = "off"
         /\ \A s \in Servers : ~server[s].electionStarted
         /\ \A s \in Servers : \A u : u \in Known(s) <=>
              u \in Registered /\ u # s /\ (s = First \/ s \in Registered)
<1>1. PICK order \in Orders :
        server = [s \in Servers |->
          IF s = First
          THEN [NewServer EXCEPT !.loop = "primary", !.isPrimary = TRUE, !.backupServers = order]
          ELSE IF s \in Registered
          THEN [NewServer EXCEPT !.loop = "backup", !.backupServers = Without(order, s)]
          ELSE NewServer]
  BY DEF Init
<1>2. order \in Seq(Servers) /\ \A u : In(u, order) <=> u \in Registered
  BY OrderTyped, OrderIsAll
<1>first. First \in Servers /\ First \notin Registered /\ Registered \subseteq Servers
  BY DEF ElectionAssumption
<1>3. /\ server[First].loop = "primary" /\ server[First].backupServers = order
      /\ ~server[First].electionStarted
  BY <1>1, <1>first DEF NewServer
<1>4. ASSUME NEW s \in Registered
      PROVE  /\ server[s].loop = "backup" /\ server[s].backupServers = Without(order, s)
             /\ ~server[s].electionStarted /\ ~server[s].isPrimary
  <2>1. PICK list : list = Without(order, s)
    OBVIOUS
  <2>2. server[s] = [NewServer EXCEPT !.loop = "backup", !.backupServers = list]
    BY <1>1, <1>first, <2>1
  <2> QED BY <2>1, <2>2 DEF NewServer
<1>5. ASSUME NEW s \in Servers, s # First, s \notin Registered
      PROVE  /\ server[s].loop = "off" /\ server[s].backupServers = <<>>
             /\ ~server[s].electionStarted /\ ~server[s].isPrimary
  <2>1. server[s] = NewServer
    BY <1>1, <1>5
  <2> QED BY <2>1 DEF NewServer
<1>6. ASSUME NEW s \in Servers, NEW u
      PROVE  u \in Known(s) <=> u \in Registered /\ u # s /\ (s = First \/ s \in Registered)
  <2>1. CASE s = First
    BY <1>2, <1>3, <1>first, <2>1, Lists
  <2>2. CASE s \in Registered
    <3>1. In(u, Without(order, s)) <=> u # s /\ In(u, order)
      BY <1>2, WithoutIs
    <3> QED BY <1>2, <1>4, <2>2, <3>1, Lists
  <2>3. CASE s # First /\ s \notin Registered
    BY <1>5, <2>3, Lists, NewThreadWalk
  <2> QED BY <2>1, <2>2, <2>3
<1> QED BY <1>3, <1>4, <1>5, <1>6, <1>first

LEMMA InitQuiet ==
  ASSUME Init
  PROVE  /\ primaryPort = First
         /\ \A t \in Servers : \A type, u : ~Sent(t, type, u) /\ ~Offered(t, u)
         /\ \A t \in Servers : inbox[t] = <<>>
         /\ \A t \in Servers : \A e \in Threads : election[t][e] = NewThread
<1>1. /\ primaryPort = First
      /\ \A t \in Servers : inbox[t] = <<>> /\ answers[t] = <<>>
      /\ \A t \in Servers : \A e \in Threads : election[t][e] = NewThread
  BY DEF Init
<1>2. \A t \in Servers : \A type, u : ~Sent(t, type, u)
  BY <1>1 DEF Sent
<1>3. \A t \in Servers : \A u : ~Offered(t, u)
  BY <1>1 DEF Offered
<1> QED BY <1>1, <1>2, <1>3

LEMMA RegistrationInit ==
  ASSUME ElectionAssumption, Init
  PROVE  Registration
<1> USE InitServers, InitQuiet
<1>1. ThreadsServe
  BY NewThreadWalk DEF ThreadsServe
<1>2. HolderServes
  BY DEF HolderServes, Serving
<1>3. AlivesWait
  BY DEF AlivesWait
<1>4. AlivesOnce
  BY DEF AlivesOnce
<1>5. \A u, t \in Servers : Hears(t, u) <=> u \in Registered /\ u # t /\ (t = First \/ t \in Registered)
  BY DEF Hears
<1>6. NewcomersApart
  <2>1. \A u \in Servers : Newcomer(u) => u \notin Registered /\ u # First
    BY DEF Newcomer
  <2>2. \A u, t \in Servers : Newcomer(u) => ~Hears(t, u) /\ ~Hears(u, t)
    BY <1>5, <2>1
  <2>3. \A u, s \in Servers : \A e \in Threads : u \notin Found(s, e)
    BY NewThreadWalk, Lists
  <2> QED BY <2>2, <2>3 DEF NewcomersApart
<1>7. NotSelf
  BY <1>5 DEF NotSelf
<1>8. CoordinatorsHold
  BY DEF CoordinatorsHold
<1> QED BY <1>1, <1>2, <1>3, <1>4, <1>6, <1>7, <1>8 DEF Registration

-----------------------------------------------------------------------------
(* The coordinator.                                                         *)

LEMMA LoopServer ==
  ASSUME TypeOK, NEW s \in Servers, Register(s) \/ LoopStep(s)
  PROVE  /\ \A t \in Servers : t # s => server'[t] = server[t]
         /\ server'[s].isPrimary = server[s].isPrimary
         /\ ~HearOfBackup(s) /\ ~ReceiveAlive(s) /\ ~ReceiveBackup(s) /\ ~ReceiveCoordinator(s) =>
              server'[s].backupServers = server[s].backupServers
         /\ primaryPort' = primaryPort
<1>1. PICK me \in ServerType : me = server[s]
  BY DEF TypeOK
<1>is. ASSUME NEW new, Set(s, new), new.isPrimary = me.isPrimary
       PROVE  /\ \A t \in Servers : t # s => server'[t] = server[t]
              /\ server'[s].isPrimary = server[s].isPrimary
              /\ server'[s] = new
  BY <1>1, <1>is, SetIs
<1>back. Back(s) = [me EXCEPT !.closing = FALSE]
  BY <1>1 DEF Back
<1>2. CASE Register(s)
  <2>1. PICK new : new = [me EXCEPT !.loop = "register"]
    OBVIOUS
  <2>2. new.isPrimary = me.isPrimary /\ new.backupServers = me.backupServers
    BY <2>1 DEF ServerType
  <2> QED BY <1>1, <1>2, <1>is, <2>1, <2>2 DEF Register
<1>3. CASE HearOfBackup(s)
  <2>1. PICK list : list = Append(me.backupServers, Head(answers[s]))
    OBVIOUS
  <2>2. PICK new : new = [me EXCEPT !.backupServers = list]
    OBVIOUS
  <2>3. new.isPrimary = me.isPrimary
    BY <2>2 DEF ServerType
  <2>4. Set(s, me) \/ Set(s, new)
    BY <1>1, <1>3, <2>1, <2>2 DEF HearOfBackup
  <2> QED BY <1>1, <1>3, <1>is, <2>3, <2>4 DEF HearOfBackup
<1>4. CASE HearNoMore(s) \/ HearToc(s)
  <2>1. PICK new : new = [me EXCEPT !.loop = "backup"]
    OBVIOUS
  <2>2. new.isPrimary = me.isPrimary /\ new.backupServers = me.backupServers
    BY <2>1 DEF ServerType
  <2> QED BY <1>1, <1>4, <1>is, <2>1, <2>2 DEF HearNoMore, HearToc
<1>5. CASE SendTic(s)
  <2>1. PICK new : new = [me EXCEPT !.loop = "listenToc"]
    OBVIOUS
  <2>2. new.isPrimary = me.isPrimary /\ new.backupServers = me.backupServers
    BY <2>1 DEF ServerType
  <2> QED BY <1>1, <1>5, <1>is, <2>1, <2>2 DEF SendTic
<1>6. CASE HearNoToc(s)
  <2>1. PICK new : new = [me EXCEPT !.loop = "backup", !.electionStarted = TRUE]
    OBVIOUS
  <2>2. new.isPrimary = me.isPrimary /\ new.backupServers = me.backupServers
    BY <2>1 DEF ServerType
  <2> QED BY <1>1, <1>6, <1>is, <2>1, <2>2 DEF HearNoToc
<1>7. CASE LeaveOldPort(s)
  <2>1. PICK new : new = [me EXCEPT !.closing = FALSE]
    OBVIOUS
  <2>2. new.isPrimary = me.isPrimary /\ new.backupServers = me.backupServers
    BY <2>1 DEF ServerType
  <2> QED BY <1>1, <1>7, <1>is, <2>1, <2>2 DEF LeaveOldPort
<1>8. CASE LeaveBackupLoop(s)
  <2>1. PICK new : new = [me EXCEPT !.loop = "primary", !.closing = FALSE]
    OBVIOUS
  <2>2. new.isPrimary = me.isPrimary /\ new.backupServers = me.backupServers
    BY <2>1 DEF ServerType
  <2> QED BY <1>1, <1>8, <1>is, <2>1, <2>2 DEF LeaveBackupLoop
<1>9. CASE ReceiveAlive(s)
  <2>1. PICK list : list = Append(me.backupServers, Head(inbox[s]).from)
    OBVIOUS
  <2>2. PICK new : new = [[me EXCEPT !.closing = FALSE] EXCEPT !.backupServers = list]
    OBVIOUS
  <2>3. new.isPrimary = me.isPrimary
    BY <2>2 DEF ServerType
  <2>4. Set(s, new)
    BY <1>1, <1>9, <1>back, <2>1, <2>2 DEF ReceiveAlive
  <2> QED BY <1>1, <1>9, <1>is, <2>3, <2>4 DEF ReceiveAlive
<1>10. CASE ReceiveBackup(s)
  <2>1. PICK list : list = Append(me.backupServers, Head(inbox[s]).from)
    OBVIOUS
  <2>2. PICK new : new = [[me EXCEPT !.closing = FALSE] EXCEPT !.backupServers = list]
    OBVIOUS
  <2>3. new.isPrimary = me.isPrimary
    BY <2>2 DEF ServerType
  <2>4. Set(s, new)
    BY <1>1, <1>10, <1>back, <2>1, <2>2 DEF ReceiveBackup
  <2> QED BY <1>1, <1>10, <1>is, <2>3, <2>4 DEF ReceiveBackup
<1>11. CASE ReceiveTic(s)
  <2>1. PICK new : new = [me EXCEPT !.closing = FALSE]
    OBVIOUS
  <2>2. new.isPrimary = me.isPrimary /\ new.backupServers = me.backupServers
    BY <2>1 DEF ServerType
  <2> QED BY <1>1, <1>11, <1>is, <1>back, <2>1, <2>2 DEF ReceiveTic
<1>12. CASE ReceiveElection(s)
  <2>1. PICK new : new = [[me EXCEPT !.closing = FALSE] EXCEPT !.electionStarted = TRUE]
    OBVIOUS
  <2>2. new.isPrimary = me.isPrimary /\ new.backupServers = me.backupServers
    BY <2>1 DEF ServerType
  <2> QED BY <1>1, <1>12, <1>is, <1>back, <2>1, <2>2 DEF ReceiveElection
<1>13. CASE ReceiveCoordinator(s)
  <2>1. PICK list : list = Without(me.backupServers, Head(inbox[s]).from)
    OBVIOUS
  <2>2. PICK new : new = [[me EXCEPT !.closing = FALSE] EXCEPT !.backupServers = list, !.electionStarted = FALSE]
    OBVIOUS
  <2>3. new.isPrimary = me.isPrimary
    BY <2>2 DEF ServerType
  <2>4. Set(s, new)
    BY <1>1, <1>13, <1>back, <2>1, <2>2 DEF ReceiveCoordinator
  <2> QED BY <1>1, <1>13, <1>is, <2>3, <2>4 DEF ReceiveCoordinator
<1> QED BY <1>2, <1>3, <1>4, <1>5, <1>6, <1>7, <1>8, <1>9, <1>10, <1>11, <1>12, <1>13 DEF LoopStep, Receive

\* The loop sends ALIVE and TIC only, but for the BACKUP of the primary.
LEMMA LoopMail ==
  ASSUME TypeOK, NEW s \in Servers, Register(s) \/ LoopStep(s), ~ReceiveAlive(s)
  PROVE  Sends({"ALIVE", "TIC"})
<1>nothing. Comes({}) => Sends({"ALIVE", "TIC"})
  <2>1. \A t, m : <<t, m>> \notin {}
    OBVIOUS
  <2> QED BY <2>1 DEF Sends
<1>1. ASSUME NEW type \in {"ALIVE", "TIC"}, SendToPrimary(Request(type, s)) PROVE Sends({"ALIVE", "TIC"})
  <2>1. PICK m \in RequestType : m = Request(type, s) /\ m.type = type
    BY RequestTyped DEF Request
  <2>2. Comes({<<primaryPort, m>>})
    BY <1>1, <2>1, ComesToPrimary
  <2>3. \A t, n : <<t, n>> \in {<<primaryPort, m>>} => n = m
    OBVIOUS
  <2> QED BY <2>1, <2>2, <2>3 DEF Sends
<1>2. CASE Register(s) \/ SendTic(s)
  BY <1>1, <1>2 DEF Register, SendTic
<1>3. CASE HearOfBackup(s) \/ HearNoMore(s) \/ HearToc(s) \/ HearNoToc(s) \/ LeaveOldPort(s) \/ LeaveBackupLoop(s)
  BY <1>3, <1>nothing, ComesNothing
     DEF HearOfBackup, HearNoMore, HearToc, HearNoToc, LeaveOldPort, LeaveBackupLoop
<1>4. CASE ReceiveBackup(s) \/ ReceiveTic(s) \/ ReceiveElection(s) \/ ReceiveCoordinator(s)
  BY <1>4, <1>nothing, ComesHandled DEF ReceiveBackup, ReceiveTic, ReceiveElection, ReceiveCoordinator, Receives
<1> QED BY <1>2, <1>3, <1>4 DEF LoopStep, Receive

(* What a step must do to a thread of the holder h to leave what it has     *)
(* announced as it is.                                                      *)
Announces(pc) == pc \in {"announce", "listenReply"}
Steady(h, e) ==
  LET old == election[h][e]
      new == election'[h][e]
  IN  \/ /\ new.pc = old.pc /\ new.walk = old.walk /\ new.at = old.at
         /\ new.peer = old.peer /\ new.reply = old.reply
      \/ ~Announces(old.pc) /\ old.pc # "ended" /\ ~Announces(new.pc)
      \/ /\ old.pc = "listenReply" /\ ~Hears(old.peer, h)'
         /\ new.pc = old.pc /\ new.walk = old.walk /\ new.at = old.at /\ new.peer = old.peer

Unheard(h) ==
  /\ \A t \in Servers : Hears(t, h)' => Hears(t, h)
  /\ \A t \in Servers : (t \in Known(h))' => t \in Known(h) \/ ~Hears(t, h)'

\* Nothing comes for the holder that would disturb it, and no BACKUP about it.
Undisturbing(h, M) ==
  \A t, m : <<t, m>> \in M => /\ (m.type \in {"BACKUP", "COORDINATOR"} => t # h)
                             /\ (m.type = "BACKUP" => m.from # h)

LEMMA UndisturbedKeeps ==
  ASSUME TypeOK, TypeOK', NEW h \in Servers, Undisturbed(h), Behind(h), NEW M, Comes(M), Undisturbing(h, M)
  PROVE  Undisturbed(h)' /\ Behind(h)'
<1>1. Undisturbed(h)'
  <2> SUFFICES ASSUME NEW u \in Servers, NEW type \in {"BACKUP", "COORDINATOR"}, Sent(h, type, u)'
               PROVE  FALSE
    BY DEF Undisturbed
  <2>1. \A m : <<h, m>> \in M => ~(m.type = type /\ m.from = u)
    BY DEF Undisturbing
  <2>2. Sent(h, type, u)
    BY <2>1, CameSent
  <2> QED BY <2>2 DEF Undisturbed
<1>2. Behind(h)'
  <2>1. \A t, m : <<t, m>> \in M => ~(m.type = "BACKUP" /\ m.from = h)
    BY DEF Undisturbing
  <2> QED BY <2>1, CameBehind
<1> QED BY <1>1, <1>2

LEMMA SteadyExpected ==
  ASSUME NEW h, NEW t, NEW m, Expected(h, t, m), Steady(h, m.thread)
  PROVE  Expected(h, t, m)'
<1>1. PICK e \in Threads : e = m.thread
  BY DEF Expected
<1>2. PICK old, new : old = election[h][e] /\ new = election'[h][e]
  OBVIOUS
<1>3. /\ old.pc \in {"announce", "listenReply", "ended"}
      /\ Announces(old.pc) => m.at \in DOMAIN old.walk /\ old.walk[m.at] = t
  BY <1>1, <1>2 DEF Expected, Announces
<1>4. new.pc = old.pc /\ new.walk = old.walk
  <2>0. Steady(h, e)
    BY <1>1
  <2>1. \/ /\ new.pc = old.pc /\ new.walk = old.walk /\ new.at = old.at
           /\ new.peer = old.peer /\ new.reply = old.reply
        \/ ~Announces(old.pc) /\ old.pc # "ended" /\ ~Announces(new.pc)
        \/ /\ old.pc = "listenReply" /\ ~Hears(old.peer, h)'
           /\ new.pc = old.pc /\ new.walk = old.walk /\ new.at = old.at /\ new.peer = old.peer
    BY <1>2, <2>0 DEF Steady
  <2> QED BY <1>3, <2>1 DEF Announces
<1> QED BY <1>1, <1>2, <1>3, <1>4 DEF Expected, Announces

\* Every COORDINATOR that waits is expected, and so are the new ones.
LEMMA AddressedKeeps ==
  ASSUME NEW h, Addressed(h), NEW M, Comes(M),
         \A t \in Servers : \A m : Expected(h, t, m) => Expected(h, t, m)',
         \A t \in Servers : \A m : <<t, m>> \in M /\ m.type = "COORDINATOR" => Expected(h, t, m)'
  PROVE  Addressed(h)'
<1> SUFFICES ASSUME NEW t \in Servers, NEW k \in DOMAIN inbox'[t], NEW m, m = inbox'[t][k],
                    m.type = "COORDINATOR", m.from = h
             PROVE  Expected(h, t, m)'
  BY DEF Addressed, Expected
<1>1. m = inbox'[t][k]
  OBVIOUS
<1>2. CASE <<t, m>> \in M
  BY <1>1, <1>2
<1>3. CASE <<t, m>> \notin M
  <2>1. PICK l \in DOMAIN inbox[t] : inbox[t][l] = m
    BY <1>1, <1>3, CameWaiting
  <2>2. Expected(h, t, m)
    BY <1>1, <2>1 DEF Addressed
  <2> QED BY <1>1, <2>2
<1> QED BY <1>2, <1>3

LEMMA AnnouncedKeeps ==
  ASSUME TypeOK, TypeOK', NEW h \in Servers, NEW e \in Threads, Unheard(h), Steady(h, e),
         Announces(election[h][e].pc) => AnnouncedTo(h, e), Announces(election'[h][e].pc)
  PROVE  AnnouncedTo(h, e)'
<1>1. PICK old \in ThreadType : old = election[h][e]
  BY DEF TypeOK
<1>2. PICK new : new = election'[h][e]
  OBVIOUS
<1>3. /\ new.pc = old.pc /\ new.walk = old.walk /\ new.at = old.at /\ new.peer = old.peer
      /\ new.reply = old.reply \/ (old.pc = "listenReply" /\ ~Hears(old.peer, h)')
  <2>1. \/ /\ new.pc = old.pc /\ new.walk = old.walk /\ new.at = old.at
           /\ new.peer = old.peer /\ new.reply = old.reply
        \/ ~Announces(old.pc) /\ old.pc # "ended" /\ ~Announces(new.pc)
        \/ /\ old.pc = "listenReply" /\ ~Hears(old.peer, h)'
           /\ new.pc = old.pc /\ new.walk = old.walk /\ new.at = old.at /\ new.peer = old.peer
    BY <1>1, <1>2 DEF Steady
  <2> QED BY <1>2, <2>1
<1>4. /\ \A i \in DOMAIN old.walk : old.walk[i] # h /\ (i < old.at => ~Hears(old.walk[i], h))
      /\ old.pc = "listenReply" =>
           /\ old.at \in DOMAIN old.walk /\ old.peer = old.walk[old.at]
           /\ old.reply => ~Hears(old.peer, h)
      /\ old.pc = "announce" => ~old.reply
      /\ \A t \in Known(h) : In(t, old.walk) \/ ~Hears(t, h)
  BY <1>1, <1>2, <1>3, Lists DEF AnnouncedTo, Announces
<1>5. /\ \A i \in DOMAIN old.walk : old.walk[i] \in Servers
      /\ \A t \in Known(h) : t \in Servers
  <2>1. old.walk \in Seq(Servers)
    BY DEF ThreadType
  <2>2. server[h].backupServers \in Seq(Servers)
    BY DEF TypeOK, ServerType
  <2>3. \A t \in Known(h) : t \in Servers
    BY <2>2 DEF Known
  <2> QED BY <2>1, <2>3
<1>6. \A i \in DOMAIN new.walk : new.walk[i] # h /\ (i < new.at => ~Hears(new.walk[i], h)')
  BY <1>3, <1>4, <1>5 DEF Unheard
<1>7. new.pc = "listenReply" =>
           /\ new.at \in DOMAIN new.walk /\ new.peer = new.walk[new.at]
           /\ new.reply => ~Hears(new.peer, h)'
  BY <1>3, <1>4, <1>5 DEF Unheard
<1>9. new.pc = "announce" => ~new.reply
  BY <1>3, <1>4
<1>8. \A t \in Servers : (t \in Known(h))' => In(t, new.walk) \/ ~Hears(t, h)'
  BY <1>3, <1>4, <1>5 DEF Unheard
<1> QED
  <2>1. \A t : (t \in Known(h))' => t \in Servers
    <3>1. TypeOK'
      OBVIOUS
    <3> QED BY <3>1 DEF TypeOK, ServerType, Known
  <2> QED BY <1>2, <1>6, <1>7, <1>8, <1>9, <2>1, ListsNext DEF AnnouncedTo

LEMMA LedIf ==
  ASSUME TypeOK, TypeOK', NEW h \in Servers, Led(h), NEW M, Comes(M), Undisturbing(h, M),
         \A t \in Servers : \A m : Expected(h, t, m) => Expected(h, t, m)',
         \A t \in Servers : \A m : <<t, m>> \in M /\ m.type = "COORDINATOR" => Expected(h, t, m)',
         \A e \in Threads : Announces(election'[h][e].pc) => AnnouncedTo(h, e)',
         server'[h].isPrimary => \A t \in Servers : (t \in Known(h))' => ~Hears(t, h)'
  PROVE  Led(h)'
<1>1. Undisturbed(h)' /\ Behind(h)'
  BY UndisturbedKeeps DEF Led
<1>2. Addressed(h)'
  BY AddressedKeeps DEF Led
<1>3. \A e \in Threads : Announcing(election', h, e) => AnnouncedTo(h, e)'
  BY DEF Announcing, Announces
<1>4. \A t : (t \in Known(h))' => t \in Servers
  BY DEF TypeOK, ServerType, Known
<1> QED BY <1>1, <1>2, <1>3, <1>4 DEF Led, Announcing

LEMMA LedKeeps ==
  ASSUME TypeOK, TypeOK', NEW h \in Servers, Led(h), Unheard(h),
         server'[h].isPrimary => server[h].isPrimary,
         NEW M, Comes(M), Undisturbing(h, M), \A t, m : <<t, m>> \in M => m.type # "COORDINATOR",
         \A e \in Threads : Steady(h, e)
  PROVE  Led(h)'
<1>1. \A t \in Servers : \A m : Expected(h, t, m) => Expected(h, t, m)'
  BY SteadyExpected DEF Expected
<1>2. \A e \in Threads : Announces(election'[h][e].pc) => AnnouncedTo(h, e)'
  BY AnnouncedKeeps DEF Led, Announcing, Announces
<1>3. server'[h].isPrimary => \A t \in Servers : (t \in Known(h))' => ~Hears(t, h)'
  BY DEF Led, Unheard
<1>4. \A t \in Servers : \A m : <<t, m>> \in M /\ m.type = "COORDINATOR" => Expected(h, t, m)'
  OBVIOUS
<1> QED BY <1>1, <1>2, <1>3, <1>4, LedIf

LEMMA HeadSent ==
  ASSUME TypeOK, NEW s \in Servers, NEW type, Receives(s, type)
  PROVE  \E m \in RequestType : /\ m = Head(inbox[s]) /\ m = inbox[s][1] /\ 1 \in DOMAIN inbox[s]
                                /\ m.type = type /\ m.from \in Servers /\ Sent(s, type, m.from)
<1>1. inbox[s] # <<>> /\ inbox[s] \in Seq(RequestType)
  BY DEF TypeOK, Receives
<1>2. PICK m \in RequestType : m = Head(inbox[s]) /\ m = inbox[s][1] /\ 1 \in DOMAIN inbox[s]
  BY <1>1, InTail
<1>3. m.type = type /\ m.from \in Servers
  BY <1>2 DEF Receives, RequestType
<1>4. Sent(s, type, m.from)
  BY <1>2, <1>3 DEF Sent
<1> QED BY <1>2, <1>3, <1>4

\* A thread that is started was free, and one that is answered in its search
\* for a greater server does not announce.
LEMMA StartSteady ==
  ASSUME TypeOK, NEW s \in Servers, MayStart(s), NEW h \in Servers, NEW e \in Threads,
         \/ election' = Started(s)
         \/ \E m : election' = Replied(Started(s), m, "listenAnswer")
  PROVE  Steady(h, e)
<1>1. PICK old \in ThreadType : old = election[h][e]
  BY DEF TypeOK
<1>2. PICK threads \in [Servers -> [Threads -> ThreadType]] : threads = Started(s)
  BY StartedTyped
<1>3. PICK mid \in ThreadType : mid = threads[h][e]
  OBVIOUS
<1>4. mid = old \/ (old.pc = "none" /\ mid.pc = "begin")
  <2>1. \/ mid = old
        \/ old.pc = "none" /\ mid = [old EXCEPT !.pc = "begin"]
    BY <1>1, <1>2, <1>3, StartShape
  <2> QED BY <2>1 DEF ThreadType
<1>5. CASE election' = Started(s)
  BY <1>1, <1>2, <1>3, <1>4, <1>5 DEF Steady, Announces
<1>6. ASSUME NEW m, election' = Replied(Started(s), m, "listenAnswer") PROVE Steady(h, e)
  <2>1. PICK new : new = election'[h][e]
    OBVIOUS
  <2>2. CASE Awaits(threads, m, "listenAnswer", h, e)
    <3>1. mid.pc = "listenAnswer"
      BY <1>3, <2>2 DEF Awaits
    <3>2. new.pc = mid.pc
      BY <1>2, <1>3, <1>6, <2>1, ReplyFields
    <3> QED BY <1>1, <1>4, <2>1, <3>1, <3>2 DEF Steady, Announces
  <2>3. CASE ~Awaits(threads, m, "listenAnswer", h, e)
    <3>1. new = mid
      <4>1. Replied(threads, m, "listenAnswer")[h][e] = threads[h][e]
        BY <2>3, ReplyShape
      <4> QED BY <1>2, <1>3, <1>6, <2>1, <4>1
    <3> QED BY <1>1, <1>4, <2>1, <3>1 DEF Steady, Announces
  <2> QED BY <2>2, <2>3
<1> QED BY <1>5, <1>6

\* Who has handled COORDINATOR has forgotten the coordinator for good.
LEMMA CoordinatorGone ==
  ASSUME TypeOK, TypeOK', NEW h \in Servers, Led(h), NEW s \in Servers,
         ReceiveCoordinator(s), Head(inbox[s]).from = h
  PROVE  ~Hears(s, h)'
<1>1. PICK m \in RequestType : /\ m = Head(inbox[s]) /\ m = inbox[s][1] /\ 1 \in DOMAIN inbox[s]
                               /\ m.type = "COORDINATOR" /\ m.from = h
  BY HeadSent DEF ReceiveCoordinator
<1>2. PICK me \in ServerType : me = server[s]
  BY DEF TypeOK
<1>3. h \notin Known(s)' /\ ~Registering(s)'
  <2>1. PICK list : list = Without(me.backupServers, h)
    OBVIOUS
  <2>2. ~In(h, list)
    <3>1. me.backupServers \in Seq(Servers)
      BY DEF ServerType
    <3> QED BY <2>1, <3>1, WithoutIs
  <2>3. PICK new : new = [[me EXCEPT !.closing = FALSE] EXCEPT !.backupServers = list, !.electionStarted = FALSE]
    OBVIOUS
  <2>4. new.backupServers = list /\ new.loop = me.loop
    BY <2>3 DEF ServerType
  <2>5. Set(s, new) /\ me.loop \in {"backup", "primary"}
    BY <1>1, <1>2, <2>1, <2>3 DEF ReceiveCoordinator, Receives, Back
  <2>6. server'[s] = new
    BY <2>5, SetIs
  <2> QED BY <2>2, <2>4, <2>5, <2>6, ListsNext DEF Registering
<1>4. ~Sent(s, "BACKUP", h)'
  <2> SUFFICES ASSUME NEW k \in DOMAIN inbox'[s], inbox'[s][k].type = "BACKUP", inbox'[s][k].from = h
               PROVE  FALSE
    BY DEF Sent
  <2>1. inbox[s] # <<>> /\ inbox[s] \in Seq(RequestType) /\ inbox'[s] = Tail(inbox[s])
    BY DEF ReceiveCoordinator, Receives, Handled, TypeOK
  <2>2. k \in Nat /\ k >= 1 /\ k + 1 \in DOMAIN inbox[s] /\ inbox'[s][k] = inbox[s][k + 1]
    BY <2>1
  <2>3. 1 < k + 1
    BY <2>2
  <2> QED BY <1>1, <2>2, <2>3 DEF Led, Behind
<1> QED BY <1>3, <1>4 DEF Hears

LEMMA LoopSteady ==
  ASSUME ElectionAssumption, TypeOK, TypeOK', NEW h \in Servers, Led(h),
         NEW s \in Servers, Register(s) \/ LoopStep(s), ~ReceiveAlive(s), NEW e \in Threads
  PROVE  Steady(h, e)
<1>same. election' = election => Steady(h, e)
  BY DEF Steady
<1>1. CASE \/ Register(s) \/ HearOfBackup(s) \/ HearNoMore(s) \/ SendTic(s) \/ HearToc(s)
           \/ LeaveOldPort(s) \/ LeaveBackupLoop(s) \/ ReceiveTic(s)
  BY <1>1, <1>same DEF Register, HearOfBackup, HearNoMore, SendTic, HearToc,
                       LeaveOldPort, LeaveBackupLoop, ReceiveTic
<1>2. CASE HearNoToc(s)
  BY <1>2, StartSteady DEF HearNoToc
<1>3. CASE ReceiveElection(s)
  <2>1. MayStart(s) /\ \E m : election' = Replied(Started(s), m, "listenAnswer")
    BY <1>3 DEF ReceiveElection
  <2> QED BY <2>1, StartSteady
<1>4. CASE ReceiveBackup(s)
  <2>1. s # h
    BY <1>4, HeadSent DEF ReceiveBackup, Led, Undisturbed
  <2>2. election'[h] = election[h]
    BY <1>4, <2>1 DEF ReceiveBackup, Torn, TypeOK
  <2> QED BY <2>2 DEF Steady
<1>5. CASE ReceiveCoordinator(s)
  <2>1. s # h
    BY <1>5, HeadSent DEF ReceiveCoordinator, Led, Undisturbed
  <2>2. PICK m \in RequestType : /\ m = Head(inbox[s]) /\ m = inbox[s][1] /\ 1 \in DOMAIN inbox[s]
                                 /\ m.type = "COORDINATOR" /\ m.from \in Servers
    BY <1>5, HeadSent DEF ReceiveCoordinator
  <2>3. PICK list \in Seq(Servers) : list = Without(server[s].backupServers, m.from)
    <3>1. server[s].backupServers \in Seq(Servers)
      BY DEF TypeOK, ServerType
    <3> QED BY <3>1, WithoutIs
  <2>4. PICK torn \in [Servers -> [Threads -> ThreadType]] : torn = Torn(s, list)
    BY TornTyped
  <2>5. election' = Replied(torn, m, "listenReply")
    BY <1>5, <2>2, <2>3, <2>4 DEF ReceiveCoordinator
  <2>6. torn[h] = election[h]
    BY <2>1, <2>4 DEF Torn, TypeOK
  <2>7. CASE Awaits(torn, m, "listenReply", h, e)
    <3>1. m.from = h /\ m.thread = e /\ election[h][e].pc = "listenReply" /\ election[h][e].at = m.at
      BY <2>6, <2>7 DEF Awaits
    <3>2. Expected(h, s, m)
      BY <2>2, <3>1 DEF Led, Addressed
    <3>3. election[h][e].walk[m.at] = s
      BY <3>1, <3>2 DEF Expected
    <3>4. election[h][e].peer = s
      BY <3>1, <3>3 DEF Led, Announcing, AnnouncedTo
    <3>5. ~Hears(s, h)'
      BY <1>5, <2>2, <3>1, CoordinatorGone
    <3>6. PICK old, new : old = election[h][e] /\ new = election'[h][e]
      OBVIOUS
    <3>7. new.pc = old.pc /\ new.walk = old.walk /\ new.at = old.at /\ new.peer = old.peer
      BY <2>5, <2>6, <3>6, ReplyFields
    <3>8. old.pc = "listenReply" /\ ~Hears(old.peer, h)'
      BY <3>1, <3>4, <3>5, <3>6
    <3> QED BY <3>6, <3>7, <3>8 DEF Steady
  <2>8. CASE ~Awaits(torn, m, "listenReply", h, e)
    <3>1. Replied(torn, m, "listenReply")[h][e] = torn[h][e]
      BY <2>8, ReplyShape
    <3>2. election'[h][e] = election[h][e]
      BY <2>5, <2>6, <3>1
    <3> QED BY <3>2 DEF Steady
  <2> QED BY <2>7, <2>8
<1> QED BY <1>1, <1>2, <1>3, <1>4, <1>5 DEF LoopStep, Receive

LEMMA RegisterNoNews ==
  ASSUME TypeOK, NEW s \in Servers, Register(s)
  PROVE  NoNews
<1>1. /\ server[s].loop = "off" /\ answers' = answers
      /\ \A t \in Servers : server'[t].backupServers = server[t].backupServers
      /\ \A t \in Servers : t # s => server'[t] = server[t]
  BY DEF Register, Set, TypeOK, ServerType
<1>2. Sends({"ALIVE", "TIC"})
  <2>1. ~ReceiveAlive(s)
    BY <1>1 DEF ReceiveAlive, Receives
  <2> QED BY <2>1, LoopMail
<1>3. Unoffered
  BY <1>1 DEF Unoffered, Registering, Offered
<1>4. \A t, u \in Servers : u \in Known(t)' => Hears(t, u)
  BY <1>1, SameKnown DEF Hears
<1> QED BY <1>2, <1>3, <1>4, NoNewsWithout

\* The holder learns of nobody but by ALIVE.
LEMMA HolderKnows ==
  ASSUME TypeOK, Registration, NEW h \in Servers, h = primaryPort, Led(h),
         NEW s \in Servers, Register(s) \/ LoopStep(s), ~ReceiveAlive(s)
  PROVE  server'[h].backupServers = server[h].backupServers /\ server'[h].isPrimary = server[h].isPrimary
<1>1. CASE s # h
  BY <1>1, LoopServer
<1>2. CASE s = h
  <2>1. ~HearOfBackup(s)
    BY <1>2, ElectionAssumption DEF Registration, HolderServes, Serving, HearOfBackup, ElectionAssumption
  <2>2. ~ReceiveBackup(s) /\ ~ReceiveCoordinator(s)
    BY <1>2, HeadSent DEF ReceiveBackup, ReceiveCoordinator, Led, Undisturbed
  <2> QED BY <1>2, <2>1, <2>2, LoopServer
<1> QED BY <1>1, <1>2

LEMMA UnheardIf ==
  ASSUME TypeOK, NoNews, NEW h \in Servers, server'[h].backupServers = server[h].backupServers
  PROVE  Unheard(h)
<1>1. Known(h)' = Known(h)
  BY SameKnown
<1> QED BY <1>1 DEF Unheard, NoNews

LEMMA LoopLed ==
  ASSUME ElectionAssumption, TypeOK, TypeOK', Registration, NEW h \in Servers, h = primaryPort, Led(h),
         NEW s \in Servers, Register(s) \/ LoopStep(s), ~ReceiveAlive(s)
  PROVE  Led(h)'
<1>1. NoNews
  <2>1. CASE Register(s)
    BY <2>1, RegisterNoNews
  <2>2. CASE LoopStep(s)
    BY <2>2, CalmLoop DEF Calm
  <2> QED BY <2>1, <2>2
<1>2. Unheard(h) /\ (server'[h].isPrimary => server[h].isPrimary)
  BY <1>1, HolderKnows, UnheardIf
<1>3. PICK M : Comes(M) /\ \A t, m : <<t, m>> \in M => m.type \in {"ALIVE", "TIC"}
  BY LoopMail DEF Sends
<1>4. Undisturbing(h, M)
  BY <1>3 DEF Undisturbing
<1>5. \A e \in Threads : Steady(h, e)
  BY LoopSteady
<1>6. \A t, m : <<t, m>> \in M => m.type # "COORDINATOR"
  BY <1>3
<1> QED BY <1>2, <1>3, <1>4, <1>5, <1>6, LedKeeps

\* The new one is behind those that the holder's walk has yet to announce it to.
LEMMA OverlaidSame ==
  ASSUME NEW walk \in Seq(Servers), NEW list \in Seq(Servers), Leads(walk, list),
         NEW u \in Servers
  PROVE  Overlaid(walk, Append(list, u)) = walk
<1>1. \A i \in DOMAIN walk : i \in 1 .. Len(list) /\ Append(list, u)[i] = walk[i]
  BY DEF Leads
<1>2. Overlaid(walk, Append(list, u)) = [i \in DOMAIN walk |-> walk[i]]
  BY <1>1 DEF Overlaid
<1> QED BY <1>2

LEMMA AliveSteady ==
  ASSUME ElectionAssumption, TypeOK, TypeOK', Registration, Along, NEW h \in Servers, h = primaryPort,
         NEW s \in Servers, ReceiveAlive(s), NEW e \in Threads
  PROVE  Steady(h, e)
<1>1. PICK new \in Servers : AliveEffect(s, new)
  BY AliveHeard
<1>2. s = h /\ new = Head(inbox[s]).from
  BY <1>1 DEF AliveEffect
<1>3. PICK list \in Seq(Servers) : list = Append(server[h].backupServers, new) /\ election' = Torn(h, list)
  BY <1>2, AliveThreads
<1>4. PICK old \in ThreadType : old = election[h][e]
  <2>1. election[h][e] \in ThreadType
    BY DEF TypeOK
  <2> QED BY <2>1
<1>5. PICK now : now = election'[h][e]
  OBVIOUS
<1>6. CASE now = old
  BY <1>4, <1>5, <1>6 DEF Steady
<1>7. CASE old.pc \in Walking /\ IsTorn(old, now, list)
  <2>1. /\ now.pc = old.pc /\ now.at = old.at /\ now.peer = old.peer /\ now.reply = old.reply
        /\ now.walk = Overlaid(old.walk, list)
    BY <1>7 DEF IsTorn, ThreadType
  <2>2. CASE Announces(old.pc)
    <3>1. Leads(old.walk, server[h].backupServers)
      BY <1>4, <2>2 DEF Along, Announcing, Announces
    <3>2. old.walk \in Seq(Servers) /\ server[h].backupServers \in Seq(Servers)
      BY DEF TypeOK, ServerType, ThreadType
    <3>3. now.walk = old.walk
      BY <1>3, <2>1, <3>1, <3>2, OverlaidSame
    <3> QED BY <1>4, <1>5, <2>1, <3>3 DEF Steady
  <2>3. CASE ~Announces(old.pc)
    BY <1>4, <1>5, <1>7, <2>1, <2>3 DEF Steady, Announces, Walking
  <2> QED BY <2>2, <2>3
<1>8. \/ Torn(h, list)[h][e] = election[h][e]
      \/ election[h][e].pc \in Walking /\ IsTorn(election[h][e], Torn(h, list)[h][e], list)
  BY TornShape
<1> QED BY <1>3, <1>4, <1>5, <1>6, <1>7, <1>8

\* ALIVE reaches the holder only, and who sent it had not heard of it.
LEMMA AliveLed ==
  ASSUME ElectionAssumption, TypeOK, TypeOK', Registration, Along, NEW h \in Servers, h = primaryPort, Led(h),
         NEW s \in Servers, ReceiveAlive(s)
  PROVE  Led(h)'
<1>0. PICK new \in Servers : AliveEffect(s, new)
  BY AliveHeard
<1>1. s = h /\ new # h /\ Newcomer(new) /\ server'[h].isPrimary = server[h].isPrimary
  BY <1>0 DEF AliveEffect
<1>2. Comes(Told(h))
  BY <1>1, ComesTold
<1>3. Undisturbing(h, Told(h))
  BY <1>0, <1>1 DEF Undisturbing, Told, Request, AliveEffect
<1>4. \A e \in Threads : Steady(h, e)
  BY AliveSteady
<1>5. \A t \in Servers : Hears(t, h)' => Hears(t, h)
  <2> SUFFICES ASSUME NEW t \in Servers, Hears(t, h)' PROVE Hears(t, h)
    OBVIOUS
  <2>1. t # h => Known(t)' = Known(t)
    BY <1>0, <1>1, SameKnown DEF AliveEffect
  <2>2. h \in Known(h)' => h \in Known(h)
    BY <1>0, <1>1 DEF AliveEffect
  <2>3. Sent(t, "BACKUP", h)' => Sent(t, "BACKUP", h)
    BY <1>0, <1>1 DEF AliveEffect
  <2>4. h \notin Known(h)
    BY DEF Registration, NotSelf, Hears
  <2>5. Offered(t, h)' => Offered(t, h)
    <3>1. h # Nobody
      BY ElectionAssumption DEF ElectionAssumption
    <3> QED BY <1>0, <1>1, <2>4, <3>1 DEF AliveEffect
  <2>6. Registering(t)' => Registering(t)
    BY <1>0 DEF AliveEffect, Registering
  <2> QED BY <2>1, <2>2, <2>3, <2>5, <2>6 DEF Hears
<1>6. ~Hears(new, h)
  BY <1>1 DEF Registration, NewcomersApart
<1>7. \A t \in Servers : (t \in Known(h))' => t \in Known(h) \/ ~Hears(t, h)'
  BY <1>0, <1>1, <1>5, <1>6 DEF AliveEffect
<1>8. Unheard(h)
  BY <1>5, <1>7 DEF Unheard
<1>9. \A t, m : <<t, m>> \in Told(h) => m.type # "COORDINATOR"
  BY DEF Told, Request
<1> QED BY <1>1, <1>2, <1>3, <1>4, <1>8, <1>9, LedKeeps

\* Another server's steps.
LEMMA DeathNoNews ==
  ASSUME TypeOK, NEW s \in Servers, Die(s)
  PROVE  NoNews /\ Comes({})
<1>1. /\ server'[s].loop = "dead" /\ server'[s].backupServers = <<>>
      /\ \A t \in Servers : t # s => server'[t] = server[t]
      /\ inbox' = [inbox EXCEPT ![s] = <<>>]
      /\ \A t \in Servers : t # s => answers'[t] = answers[t]
  BY DEF Die, Set, TypeOK, NewServer
<1>2. Comes({})
  BY <1>1, ComesCleared
<1>3. Sends({"TIC", "ELECTION", "COORDINATOR"})
  BY <1>2, SendsNone
<1>4. Unoffered
  BY <1>1 DEF Unoffered, Registering, Offered
<1>5. \A t, u \in Servers : u \in Known(t)' => Hears(t, u)
  BY <1>1 DEF Known, Hears
<1> QED BY <1>2, <1>3, <1>4, <1>5, NoNewsWithout

LEMMA DeathLed ==
  ASSUME TypeOK, TypeOK', NEW h \in Servers, Led(h), NEW s \in Servers, s # h, Die(s)
  PROVE  Led(h)'
<1>1. server'[h] = server[h] /\ election'[h] = election[h]
  BY DEF Die, Set, TypeOK
<1>2. Unheard(h) /\ Comes({})
  BY <1>1, DeathNoNews, UnheardIf
<1>3. Undisturbing(h, {}) /\ \A t, m : <<t, m>> \in {} => m.type # "COORDINATOR"
  BY DEF Undisturbing
<1>4. \A e \in Threads : Steady(h, e)
  BY <1>1 DEF Steady
<1> QED BY <1>1, <1>2, <1>3, <1>4, LedKeeps

\* Of an election step that is not one of these nothing comes but ELECTION,
\* and the thread neither begins nor ends its announcement.
Speaks(s, e) == Announce(s, e) \/ AnnounceAgain(s, e) \/ HearReply(s, e) \/ BecomePrimary(s, e)
                \/ ChangePort(s, e) \/ BindFails(s, e)
LEMMA QuietElection ==
  ASSUME TypeOK, NEW s \in Servers, NEW e \in Threads, ElectionStep(s, e), ~Speaks(s, e)
  PROVE  /\ server' = server
         /\ \A h \in Servers : \A f \in Threads : Steady(h, f)
         /\ \E M : Comes(M) /\ \A t, m : <<t, m>> \in M => m.type = "ELECTION"
<1>0. PICK thread \in ThreadType : thread = election[s][e]
  BY DEF TypeOK
<1>steady. ASSUME NEW new, SetThread(s, e, new), ~Announces(thread.pc), thread.pc # "ended", ~Announces(new.pc)
           PROVE  \A h \in Servers : \A f \in Threads : Steady(h, f)
  BY <1>0, <1>steady, SetThreadIs DEF Steady
<1>nothing. inbox' = inbox => \E M : Comes(M) /\ \A t, m : <<t, m>> \in M => m.type = "ELECTION"
  <2>1. \A t, m : <<t, m>> \notin {}
    OBVIOUS
  <2> QED BY <2>1, ComesNothing
<1>1. CASE BeginElection(s, e)
  <2>1. PICK new : new = [NewThread EXCEPT !.pc = "ask", !.walk = server[s].backupServers]
    OBVIOUS
  <2>2. new.pc = "ask"
    BY <2>1 DEF NewThread
  <2> QED BY <1>0, <1>1, <1>steady, <1>nothing, <2>1, <2>2 DEF BeginElection, Announces
<1>2. CASE SkipSmaller(s, e) \/ HearNoAnswer(s, e)
  <2>1. PICK new : new = GoOn(thread, "ask")
    OBVIOUS
  <2>2. new.pc = "ask"
    BY <2>1 DEF GoOn, ThreadType
  <2>3. /\ SetThread(s, e, new) /\ thread.pc \in {"ask", "listenAnswer"} /\ server' = server /\ inbox' = inbox
    BY <1>0, <1>2, <2>1 DEF SkipSmaller, HearNoAnswer
  <2> QED BY <1>steady, <1>nothing, <2>2, <2>3 DEF Announces
<1>3. CASE AskGreater(s, e)
  <2>1. PICK new : new = [thread EXCEPT !.pc = "listenAnswer", !.peer = Peer(s, e)]
    OBVIOUS
  <2>2. new.pc = "listenAnswer"
    BY <2>1 DEF ThreadType
  <2>3. PICK m \in RequestType : m = RequestOf("ELECTION", s, e) /\ m.type = "ELECTION"
    BY RequestOfTyped DEF RequestOf
  <2>4. Comes({<<Peer(s, e), m>>})
    BY <1>3, <2>3, ComesSent DEF AskGreater
  <2>5. \A t, n : <<t, n>> \in {<<Peer(s, e), m>>} => n = m
    OBVIOUS
  <2>6. \A h \in Servers : \A f \in Threads : Steady(h, f)
    BY <1>0, <1>3, <1>steady, <2>1, <2>2 DEF AskGreater, Announces
  <2> QED BY <1>3, <2>3, <2>4, <2>5, <2>6 DEF AskGreater
<1>4. CASE HearAnswer(s, e)
  <2>1. PICK new : new = [NewThread EXCEPT !.pc = "ended"]
    OBVIOUS
  <2>2. new.pc = "ended"
    BY <2>1 DEF NewThread
  <2> QED BY <1>0, <1>4, <1>steady, <1>nothing, <2>1, <2>2 DEF HearAnswer, Announces
<1>5. CASE BecomeCoordinator(s, e)
  <2>1. PICK new : new = [thread EXCEPT !.pc = "changePort"]
    OBVIOUS
  <2>2. new.pc = "changePort"
    BY <2>1 DEF ThreadType
  <2> QED BY <1>0, <1>5, <1>steady, <1>nothing, <2>1, <2>2 DEF BecomeCoordinator, Announces
<1> QED BY <1>1, <1>2, <1>3, <1>4, <1>5 DEF ElectionStep, Speaks

LEMMA QuietLed ==
  ASSUME ElectionAssumption, TypeOK, TypeOK', PortInv, NEW h \in Servers, Led(h),
         NEW s \in Servers, NEW e \in Threads, ElectionStep(s, e), ~Speaks(s, e)
  PROVE  Led(h)'
<1>1. NoNews
  BY CalmElection DEF Calm, Speaks
<1>2. server' = server /\ \A f \in Threads : Steady(h, f)
  BY QuietElection
<1>3. PICK M : Comes(M) /\ \A t, m : <<t, m>> \in M => m.type = "ELECTION"
  BY QuietElection
<1>4. Undisturbing(h, M) /\ \A t, m : <<t, m>> \in M => m.type # "COORDINATOR"
  BY <1>3 DEF Undisturbing
<1>5. Unheard(h)
  BY <1>1, <1>2, UnheardIf
<1> QED BY <1>2, <1>3, <1>4, <1>5, LedKeeps

\* The announcement of the holder itself: who has replied has forgotten it.
LEMMA SpokenLed ==
  ASSUME ElectionAssumption, TypeOK, TypeOK', PortInv, NEW h \in Servers, Led(h), NEW e \in Threads,
         Announce(h, e) \/ AnnounceAgain(h, e) \/ HearReply(h, e) \/ BecomePrimary(h, e)
  PROVE  Led(h)'
<1>0. PICK thread \in ThreadType : thread = election[h][e]
  <2>1. election[h][e] \in ThreadType
    BY DEF TypeOK
  <2> QED BY <2>1
<1>1. Announces(thread.pc)
  BY <1>0 DEF Announce, AnnounceAgain, HearReply, BecomePrimary, Announces
<1>2. /\ \A i \in DOMAIN thread.walk : thread.walk[i] # h /\ (i < thread.at => ~Hears(thread.walk[i], h))
      /\ thread.pc = "listenReply" =>
           /\ thread.at \in DOMAIN thread.walk /\ thread.peer = thread.walk[thread.at]
           /\ thread.reply => ~Hears(thread.peer, h)
      /\ thread.pc = "announce" => ~thread.reply
      /\ \A t \in Known(h) : In(t, thread.walk) \/ ~Hears(t, h)
  <2>1. AnnouncedTo(h, e)
    BY <1>0, <1>1 DEF Led, Announcing, Announces
  <2> QED BY <1>0, <2>1, Lists DEF AnnouncedTo
<1>3. /\ thread.walk \in Seq(Servers) /\ thread.at \in Nat \ {0}
      /\ DOMAIN thread.walk = 1 .. Len(thread.walk) /\ Len(thread.walk) \in Nat
      /\ \A i \in DOMAIN thread.walk : thread.walk[i] \in Servers
      /\ \A t \in Known(h) : t \in Servers
  <2>1. thread.walk \in Seq(Servers) /\ thread.at \in Nat \ {0}
    BY DEF ThreadType
  <2>2. server[h].backupServers \in Seq(Servers)
    BY DEF TypeOK, ServerType
  <2>3. \A t \in Known(h) : t \in Servers
    BY <2>2 DEF Known
  <2> QED BY <2>1, <2>3
<1>4. ElectionStep(h, e) /\ ~ChangePort(h, e) /\ ~BindFails(h, e)
  BY <1>0, <1>1 DEF ElectionStep, ChangePort, BindFails, Announces
<1>5. NoNews
  BY <1>4, CalmElection DEF Calm
<1>6. server'[h].backupServers = server[h].backupServers
  <2>1. CASE BecomePrimary(h, e)
    <3>1. PICK me \in ServerType : me = server[h]
      BY DEF TypeOK
    <3>2. PICK now : now = [me EXCEPT !.isPrimary = TRUE]
      OBVIOUS
    <3>3. server'[h] = now
      BY <2>1, <3>1, <3>2, SetIs DEF BecomePrimary
    <3> QED BY <3>1, <3>2, <3>3 DEF ServerType
  <2>2. CASE server' = server
    BY <2>2
  <2> QED BY <2>1, <2>2 DEF Announce, AnnounceAgain, HearReply
<1>7. Unheard(h)
  BY <1>5, <1>6, UnheardIf
<1>8. PICK new : new = election'[h][e]
  OBVIOUS
<1>9. \A f \in Threads : f # e => election'[h][f] = election[h][f]
  BY SetThreadIs DEF Announce, AnnounceAgain, HearReply, BecomePrimary
<1>10. ASSUME NEW f \in Threads, f # e PROVE Steady(h, f)
  BY <1>9, <1>10 DEF Steady
<1>11. ASSUME NEW f \in Threads, f # e, Announces(election'[h][f].pc) PROVE AnnouncedTo(h, f)'
  <2>1. Announces(election[h][f].pc) => AnnouncedTo(h, f)
    BY DEF Led, Announcing, Announces
  <2> QED BY <1>7, <1>10, <1>11, <2>1, AnnouncedKeeps
<1>12. ASSUME new.pc = "ended" \/ (Announces(new.pc) /\ new.walk = thread.walk),
              NEW t \in Servers, NEW m, Expected(h, t, m)
       PROVE  Expected(h, t, m)'
  <2>1. CASE m.thread = e
    BY <1>0, <1>1, <1>8, <1>12, <2>1 DEF Expected, Announces
  <2>2. CASE m.thread # e
    <3>1. Steady(h, m.thread)
      BY <1>10, <1>12, <2>2 DEF Expected
    <3> QED BY <1>12, <3>1, SteadyExpected
  <2> QED BY <2>1, <2>2
<1>13. ASSUME new.walk = thread.walk,
              \A i \in DOMAIN thread.walk : i < new.at => ~Hears(thread.walk[i], h),
              new.pc = "listenReply" => /\ new.at \in DOMAIN thread.walk /\ new.peer = thread.walk[new.at]
                                        /\ new.reply => ~Hears(new.peer, h),
              new.pc = "announce" => ~new.reply
       PROVE  AnnouncedTo(h, e)'
  <2>1. \A i \in DOMAIN new.walk : new.walk[i] # h /\ (i < new.at => ~Hears(new.walk[i], h)')
    BY <1>2, <1>3, <1>7, <1>13 DEF Unheard
  <2>2. new.pc = "listenReply" =>
           /\ new.at \in DOMAIN new.walk /\ new.peer = new.walk[new.at]
           /\ new.reply => ~Hears(new.peer, h)'
    BY <1>3, <1>7, <1>13 DEF Unheard
  <2>3. \A t \in Servers : (t \in Known(h))' => In(t, new.walk) \/ ~Hears(t, h)'
    BY <1>2, <1>7, <1>13 DEF Unheard
  <2>4. \A t : (t \in Known(h))' => t \in Servers
    <3>1. server'[h].backupServers \in Seq(Servers)
      BY DEF TypeOK, ServerType
    <3> QED BY <3>1, ListedServer DEF Known
  <2> QED BY <1>8, <1>13, <2>1, <2>2, <2>3, <2>4, ListsNext DEF AnnouncedTo
<1>14. ASSUME AnnouncedTo(h, e)' \/ ~Announces(new.pc) PROVE \A f \in Threads : Announces(election'[h][f].pc) => AnnouncedTo(h, f)'
  BY <1>8, <1>11, <1>14
<1>15. Comes({}) => \E M : Comes(M) /\ M = {}
  OBVIOUS
<1>16. PICK m \in RequestType : m = RequestOf("COORDINATOR", h, e) /\ m.type = "COORDINATOR" /\ m.from = h /\ m.thread = e /\ m.at = thread.at
  BY <1>0, RequestOfTyped DEF RequestOf
<1>17. CASE Announce(h, e)
  <2>1. thread.pc = "announce" /\ thread.at \in DOMAIN thread.walk /\ Peer(h, e) = thread.walk[thread.at]
    BY <1>0, <1>3, <1>17 DEF Announce, AtEnd, Peer
  <2>2. new = [thread EXCEPT !.pc = "listenReply", !.peer = Peer(h, e)]
    BY <1>0, <1>8, <1>17, SetThreadIs DEF Announce
  <2>3. /\ new.pc = "listenReply" /\ new.walk = thread.walk /\ new.at = thread.at
        /\ new.peer = thread.walk[thread.at] /\ new.reply = thread.reply
    BY <2>1, <2>2 DEF ThreadType
  <2>4. AnnouncedTo(h, e)'
    BY <1>2, <1>13, <2>1, <2>3
  <2>5. \A t \in Servers : \A n : Expected(h, t, n) => Expected(h, t, n)'
    BY <1>12, <2>3 DEF Announces
  <2>6. PICK M : M = {<<Peer(h, e), m>>}
    OBVIOUS
  <2>7. Comes(M)
    BY <1>16, <1>17, <2>6, ComesSent DEF Announce
  <2>8. Undisturbing(h, M)
    BY <1>2, <1>16, <2>1, <2>6 DEF Undisturbing
  <2>9. \A t \in Servers : \A n : <<t, n>> \in M /\ n.type = "COORDINATOR" => Expected(h, t, n)'
    <3>1. Expected(h, thread.walk[thread.at], m)'
      BY <1>8, <1>16, <2>1, <2>3 DEF Expected
    <3> QED BY <2>1, <2>6, <3>1
  <2>10. server'[h].isPrimary => \A t \in Servers : (t \in Known(h))' => ~Hears(t, h)'
    BY <1>7, <1>17 DEF Announce, Led, Unheard
  <2> QED BY <1>14, <2>4, <2>5, <2>7, <2>8, <2>9, <2>10, LedIf
<1>18. CASE AnnounceAgain(h, e)
  <2>1. thread.pc = "listenReply" /\ thread.at \in DOMAIN thread.walk /\ thread.peer = thread.walk[thread.at]
    BY <1>0, <1>2, <1>18 DEF AnnounceAgain
  <2>2. new = thread
    BY <1>0, <1>8, <1>18 DEF AnnounceAgain
  <2>4. AnnouncedTo(h, e)'
    BY <1>2, <1>13, <2>1, <2>2
  <2>5. \A t \in Servers : \A n : Expected(h, t, n) => Expected(h, t, n)'
    BY <1>1, <1>12, <2>2
  <2>6. PICK M : M = {<<thread.peer, m>>}
    OBVIOUS
  <2>7. Comes(M)
    BY <1>0, <1>16, <1>18, <2>6, ComesSent DEF AnnounceAgain
  <2>8. Undisturbing(h, M)
    BY <1>2, <1>16, <2>1, <2>6 DEF Undisturbing
  <2>9. \A t \in Servers : \A n : <<t, n>> \in M /\ n.type = "COORDINATOR" => Expected(h, t, n)'
    <3>1. Expected(h, thread.walk[thread.at], m)'
      BY <1>8, <1>16, <2>1, <2>2 DEF Expected
    <3> QED BY <2>1, <2>6, <3>1
  <2>10. server'[h].isPrimary => \A t \in Servers : (t \in Known(h))' => ~Hears(t, h)'
    BY <1>7, <1>18 DEF AnnounceAgain, Led, Unheard
  <2> QED BY <1>14, <2>4, <2>5, <2>7, <2>8, <2>9, <2>10, LedIf
<1>nothing. ASSUME inbox' = inbox
            PROVE  /\ Comes({}) /\ Undisturbing(h, {})
                   /\ \A t \in Servers : \A n : <<t, n>> \in {} /\ n.type = "COORDINATOR" => Expected(h, t, n)'
  BY <1>nothing, ComesNothing DEF Undisturbing
<1>19. CASE HearReply(h, e)
  <2>1. /\ thread.pc = "listenReply" /\ thread.reply
        /\ thread.at \in DOMAIN thread.walk /\ ~Hears(thread.walk[thread.at], h)
    BY <1>0, <1>2, <1>19 DEF HearReply
  <2>2. new = GoOn(thread, "announce")
    BY <1>0, <1>8, <1>19, SetThreadIs DEF HearReply
  <2>3. new.pc = "announce" /\ new.walk = thread.walk /\ new.at = thread.at + 1 /\ new.reply = FALSE
    BY <2>2 DEF GoOn, ThreadType
  <2>4. \A i \in DOMAIN thread.walk : i < new.at => ~Hears(thread.walk[i], h)
    <3>1. \A i \in DOMAIN thread.walk : i < new.at => i < thread.at \/ i = thread.at
      BY <1>3, <2>3
    <3> QED BY <1>2, <2>1, <3>1
  <2>5. AnnouncedTo(h, e)'
    BY <1>13, <2>3, <2>4
  <2>6. \A t \in Servers : \A n : Expected(h, t, n) => Expected(h, t, n)'
    BY <1>12, <2>3 DEF Announces
  <2>7. server'[h].isPrimary => \A t \in Servers : (t \in Known(h))' => ~Hears(t, h)'
    BY <1>7, <1>19 DEF HearReply, Led, Unheard
  <2>8. inbox' = inbox
    BY <1>19 DEF HearReply
  <2> QED BY <1>14, <1>nothing, <2>5, <2>6, <2>7, <2>8, LedIf
<1>20. CASE BecomePrimary(h, e)
  <2>1. new = [NewThread EXCEPT !.pc = "ended"]
    BY <1>8, <1>20, SetThreadIs DEF BecomePrimary
  <2>2. new.pc = "ended"
    BY <2>1 DEF NewThread
  <2>3. \A i \in DOMAIN thread.walk : ~Hears(thread.walk[i], h)
    <3>1. thread.at > Len(thread.walk)
      BY <1>0, <1>20 DEF BecomePrimary, AtEnd
    <3>2. \A i \in DOMAIN thread.walk : i < thread.at
      BY <1>3, <3>1
    <3> QED BY <1>2, <3>2
  <2>4. \A t \in Known(h) : ~Hears(t, h)
    BY <1>2, <2>3 DEF In
  <2>5. \A t \in Servers : (t \in Known(h))' => ~Hears(t, h)'
    BY <1>7, <2>4 DEF Unheard
  <2>6. \A t \in Servers : \A n : Expected(h, t, n) => Expected(h, t, n)'
    BY <1>12, <2>2
  <2>7. ~Announces(new.pc)
    BY <2>2 DEF Announces
  <2>8. inbox' = inbox
    BY <1>20 DEF BecomePrimary
  <2> QED BY <1>14, <1>nothing, <2>5, <2>6, <2>7, <2>8, LedIf
<1> QED BY <1>17, <1>18, <1>19, <1>20

\* Who takes the free port has announced itself to nobody yet, and has the
\* whole vector to announce itself to; so has who takes its own port again.
LEMMA PortLed ==
  ASSUME ElectionAssumption, TypeOK, TypeOK', PortInv, Registration,
         primaryPort # Nobody => Led(primaryPort),
         NEW s \in Servers, NEW e \in Threads, ChangePort(s, e)
  PROVE  Led(s)'
<1>0. /\ election[s][e].pc = "changePort" /\ primaryPort \in {Nobody, s} /\ primaryPort' = s
      /\ inbox' = [inbox EXCEPT ![s] = <<>>] /\ answers' = answers
      /\ inbox'[s] = <<>>
      /\ SetThread(s, e, [NewThread EXCEPT !.pc = "announce", !.walk = server[s].backupServers])
  BY DEF ChangePort, TypeOK
<1>1. /\ \A t \in Servers : /\ server'[t].loop = server[t].loop
                            /\ server'[t].backupServers = server[t].backupServers
                            /\ server'[t].isPrimary = server[t].isPrimary
  <2>1. PICK me \in ServerType : me = server[s]
    BY DEF TypeOK
  <2>2. PICK c, now : now = [me EXCEPT !.closing = c] /\ Set(s, now)
    BY <2>1 DEF ChangePort
  <2>3. now.loop = me.loop /\ now.backupServers = me.backupServers /\ now.isPrimary = me.isPrimary
    BY <2>2 DEF ServerType
  <2>4. server'[s] = now /\ \A t \in Servers : t # s => server'[t] = server[t]
    BY <2>2, SetIs
  <2> QED BY <2>1, <2>3, <2>4
<1>2. PICK new : /\ new = [NewThread EXCEPT !.pc = "announce", !.walk = server[s].backupServers]
                 /\ election'[s][e] = new
                 /\ \A f \in Threads : f # e => election'[s][f] = election[s][f]
  BY <1>0, SetThreadIs
<1>3. new.pc = "announce" /\ new.walk = server[s].backupServers /\ new.at = 1 /\ new.reply = FALSE
  BY <1>2 DEF NewThread
<1>4. Comes({}) /\ Undisturbing(s, {})
  BY <1>0, ComesCleared DEF Undisturbing
<1>5. \A t, u \in Servers : Hears(t, u)' => Hears(t, u)
  <2>1. Sends({"TIC", "ELECTION", "COORDINATOR"})
    BY <1>4, SendsNone
  <2>2. Unoffered
    BY <1>0, <1>1 DEF Unoffered, Registering, Offered
  <2>3. \A t, u \in Servers : u \in Known(t)' => Hears(t, u)
    BY <1>1, SameKnown DEF Hears
  <2> QED BY <2>1, <2>2, <2>3, NoNewsWithout DEF NoNews
<1>6. Known(s)' = Known(s) /\ \A t \in Known(s) : t \in Servers /\ t # s
  <2>1. server[s].backupServers \in Seq(Servers)
    BY DEF TypeOK, ServerType
  <2>2. \A t \in Known(s) : t \in Servers
    BY <2>1 DEF Known
  <2> QED BY <1>1, <2>2, SameKnown DEF Registration, NotSelf, Hears
<1>7. AnnouncedTo(s, e)'
  <2>1. \A i \in DOMAIN new.walk : new.walk[i] # s /\ ~(i < 1)
    <3>1. server[s].backupServers \in Seq(Servers)
      BY DEF TypeOK, ServerType
    <3>2. \A i \in DOMAIN new.walk : new.walk[i] \in Known(s) /\ ~(i < 1)
      BY <1>3, <3>1 DEF Known
    <3> QED BY <1>6, <3>2
  <2>2. Found(s, e)' = Known(s)'
    BY <1>1, <1>2, <1>3 DEF Found, Known
  <2> QED BY <1>2, <1>3, <2>1, <2>2 DEF AnnouncedTo
<1>8. CASE primaryPort = s
  <2>1. Led(s)
    BY <1>8, ElectionAssumption DEF ElectionAssumption
  <2>2. Unheard(s)
    BY <1>5, <1>6 DEF Unheard
  <2>3. \A f \in Threads : f # e => Steady(s, f)
    BY <1>2 DEF Steady
  <2>4. ASSUME NEW t \in Servers, NEW m, Expected(s, t, m) PROVE Expected(s, t, m)'
    <3>1. m.thread # e /\ m.thread \in Threads
      BY <1>0, <2>4 DEF Expected
    <3>2. Steady(s, m.thread)
      BY <2>3, <3>1
    <3> QED BY <2>4, <3>2, SteadyExpected
  <2>5. ASSUME NEW f \in Threads, Announces(election'[s][f].pc) PROVE AnnouncedTo(s, f)'
    <3>1. CASE f = e
      BY <1>7, <3>1
    <3>2. CASE f # e
      <4>1. Announces(election[s][f].pc) => AnnouncedTo(s, f)
        BY <2>1 DEF Led, Announcing, Announces
      <4> QED BY <2>2, <2>3, <2>5, <3>2, <4>1, AnnouncedKeeps
    <3> QED BY <3>1, <3>2
  <2>6. server'[s].isPrimary => \A t \in Servers : (t \in Known(s))' => ~Hears(t, s)'
    BY <1>1, <2>1, <2>2 DEF Led, Unheard
  <2>7. \A t \in Servers : \A m : <<t, m>> \in {} /\ m.type = "COORDINATOR" => Expected(s, t, m)'
    OBVIOUS
  <2> QED BY <1>4, <2>1, <2>4, <2>5, <2>6, <2>7, LedIf
<1>9. CASE primaryPort = Nobody
  <2>1. s # Nobody /\ server[s].loop # "dead"
    BY <1>0, ElectionAssumption DEF Registration, ThreadsServe, Serving, ElectionAssumption
  <2>2. \A t \in Servers : ~Sent(t, "COORDINATOR", s)
    BY <1>9, <2>1 DEF Registration, CoordinatorsHold
  <2>3. \A t \in Servers : ~Sent(t, "COORDINATOR", s)'
    BY <1>4, <2>2, CameSent
  <2>4. Undisturbed(s)'
    BY <1>0 DEF Undisturbed, Sent
  <2>5. Behind(s)' /\ Addressed(s)'
    BY <2>3 DEF Behind, Addressed, Sent, Expected
  <2>6. ASSUME NEW f \in Threads, Announcing(election', s, f) PROVE AnnouncedTo(s, f)'
    <3>1. CASE f = e
      BY <1>7, <3>1
    <3>2. CASE f # e
      BY <1>2, <1>9, <2>1, <2>6, <3>2 DEF PortInv, AnnouncerHasPort, Announcing
    <3> QED BY <3>1, <3>2
  <2>7. ~server'[s].isPrimary
    BY <1>1, <1>9, <2>1 DEF PortInv, OnePrimary
  <2> QED BY <2>4, <2>5, <2>6, <2>7 DEF Led, Announcing
<1> QED BY <1>0, <1>8, <1>9

LEMMA LeadingStep ==
  ASSUME ElectionAssumption, TypeOK, TypeOK', PortInv, PortInv', Registration, Leading, Along, [Next]_vars
  PROVE  Leading'
<1>die. ASSUME NEW s \in Servers, Die(s) PROVE Leading'
  <2>1. CASE primaryPort = s \/ primaryPort = Nobody
    <3>1. primaryPort' = Nobody
      BY <1>die, <2>1 DEF Die
    <3> QED BY <3>1 DEF Leading
  <2>2. CASE primaryPort # s /\ primaryPort # Nobody
    <3>1. PICK h \in Servers : h = primaryPort
      BY <2>2 DEF TypeOK
    <3>2. primaryPort' = h
      BY <1>die, <2>2, <3>1 DEF Die
    <3>3. Led(h)'
      BY <1>die, <2>2, <3>1, DeathLed DEF Leading
    <3> QED BY <3>2, <3>3 DEF Leading
  <2> QED BY <2>1, <2>2
<1>same. ASSUME primaryPort' = primaryPort,
                \A h \in Servers : h = primaryPort /\ Led(h) => Led(h)'
         PROVE  Leading'
  <2>1. CASE primaryPort = Nobody
    BY <1>same, <2>1 DEF Leading
  <2>2. CASE primaryPort # Nobody
    <3>1. PICK h \in Servers : h = primaryPort
      BY <2>2 DEF TypeOK
    <3>2. Led(h)' /\ primaryPort' = h
      BY <1>same, <2>2, <3>1 DEF Leading
    <3> QED BY <3>2 DEF Leading
  <2> QED BY <2>1, <2>2
<1>1. ASSUME NEW s \in Servers, Register(s) \/ LoopStep(s) PROVE Leading'
  <2>1. primaryPort' = primaryPort
    BY <1>1, LoopServer
  <2>2. ASSUME NEW h \in Servers, h = primaryPort, Led(h) PROVE Led(h)'
    <3>1. CASE ReceiveAlive(s)
      BY <2>2, <3>1, AliveLed
    <3>2. CASE ~ReceiveAlive(s)
      BY <1>1, <2>2, <3>2, LoopLed
    <3> QED BY <3>1, <3>2
  <2> QED BY <1>same, <2>1, <2>2
<1>2. ASSUME NEW s \in Servers, Crash(s) PROVE Leading'
  BY <1>2, <1>die DEF Crash
<1>3. ASSUME NEW s \in Servers, NEW e \in Threads, DieOfTornWalk(s, e) PROVE Leading'
  BY <1>3, <1>die DEF DieOfTornWalk
<1>4. ASSUME NEW s \in Servers, NEW e \in Threads, ElectionStep(s, e) PROVE Leading'
  <2>1. CASE BindFails(s, e)
    BY <1>die, <2>1 DEF BindFails
  <2>2. CASE ChangePort(s, e)
    <3>1. Led(s)' /\ primaryPort' = s
      BY <2>2, PortLed DEF Leading, ChangePort
    <3> QED BY <3>1 DEF Leading
  <2>3. CASE ~ChangePort(s, e) /\ ~BindFails(s, e)
    <3>1. primaryPort' = primaryPort
      BY <1>4, <2>3, CalmElection DEF Calm
    <3>2. ASSUME NEW h \in Servers, h = primaryPort, Led(h) PROVE Led(h)'
      <4>1. CASE Announce(s, e) \/ AnnounceAgain(s, e) \/ HearReply(s, e) \/ BecomePrimary(s, e)
        <5>1. s = h
          BY <3>2, <4>1 DEF PortInv, AnnouncerHasPort, Announcing, Announce, AnnounceAgain, HearReply, BecomePrimary
        <5> QED BY <3>2, <4>1, <5>1, SpokenLed
      <4>2. CASE ~Speaks(s, e)
        BY <1>4, <3>2, <4>2, QuietLed
      <4> QED BY <2>3, <4>1, <4>2 DEF Speaks
    <3> QED BY <1>same, <3>1, <3>2
  <2> QED BY <2>1, <2>2, <2>3
<1>5. CASE UNCHANGED vars
  <2>1. UNCHANGED <<server, election, primaryPort, inbox, answers>>
    BY <1>5 DEF vars
  <2>2. NoNews
    BY <2>1 DEF NoNews, Hears, Known, Sent, Offered, Registering
  <2>3. ASSUME NEW h \in Servers, h = primaryPort, Led(h) PROVE Led(h)'
    <3>1. Unheard(h)
      BY <2>1, <2>2, UnheardIf
    <3>2. Comes({}) /\ Undisturbing(h, {}) /\ \A t, m : <<t, m>> \in {} => m.type # "COORDINATOR"
      BY <2>1, ComesNothing DEF Undisturbing
    <3>3. \A e \in Threads : Steady(h, e)
      BY <2>1 DEF Steady
    <3> QED BY <2>1, <2>3, <3>1, <3>2, <3>3, LedKeeps
  <2> QED BY <1>same, <2>1, <2>3
<1> QED BY <1>1, <1>2, <1>3, <1>4, <1>5 DEF Next

LEMMA AlongStep ==
  ASSUME ElectionAssumption, TypeOK, TypeOK', PortInv, Registration, Leading, Along, [Next]_vars
  PROVE  Along'
<1> SUFFICES ASSUME NEW h \in Servers, NEW f \in Threads, h = primaryPort', Announcing(election', h, f)
             PROVE  Leads(election'[h][f].walk, server'[h].backupServers)
  BY DEF Along
<1>same. ASSUME h = primaryPort, server'[h].backupServers = server[h].backupServers,
                Announcing(election, h, f), election'[h][f].walk = election[h][f].walk
         PROVE  Leads(election'[h][f].walk, server'[h].backupServers)
  BY <1>same DEF Along
<1>steady. Steady(h, f) => Announcing(election, h, f) /\ election'[h][f].walk = election[h][f].walk
  BY DEF Steady, Announcing, Announces
<1>die. ASSUME NEW s \in Servers, Die(s) PROVE Leads(election'[h][f].walk, server'[h].backupServers)
  <2>1. h = primaryPort /\ s # h
    BY <1>die, ElectionAssumption DEF Die, ElectionAssumption
  <2>2. server'[h] = server[h] /\ election'[h] = election[h]
    BY <1>die, <2>1 DEF Die, Set, TypeOK
  <2> QED BY <1>same, <2>1, <2>2 DEF Announcing
<1>1. ASSUME NEW s \in Servers, Register(s) \/ LoopStep(s)
      PROVE  Leads(election'[h][f].walk, server'[h].backupServers)
  <2>1. h = primaryPort
    BY <1>1, LoopServer
  <2>2. Led(h)
    BY <2>1, ElectionAssumption DEF Leading, ElectionAssumption
  <2>3. CASE ReceiveAlive(s)
    <3>1. PICK new \in Servers : AliveEffect(s, new)
      BY <2>3, AliveHeard
    <3>2. s = h
      BY <2>1, <3>1 DEF AliveEffect
    <3>3. PICK list : list = Append(server[h].backupServers, Head(inbox[h]).from) /\ server'[h].backupServers = list
      BY <2>3, <3>2, AliveThreads
    <3>4. Announcing(election, h, f) /\ election'[h][f].walk = election[h][f].walk
      BY <1>steady, <2>1, <2>3, AliveSteady
    <3>5. Leads(election[h][f].walk, server[h].backupServers)
      BY <2>1, <3>4 DEF Along
    <3>6. server[h].backupServers \in Seq(Servers)
      BY DEF TypeOK, ServerType
    <3> QED BY <3>3, <3>4, <3>5, <3>6 DEF Leads
  <2>4. CASE ~ReceiveAlive(s)
    <3>1. server'[h].backupServers = server[h].backupServers
      BY <1>1, <2>1, <2>2, <2>4, HolderKnows
    <3>2. Steady(h, f)
      BY <1>1, <2>2, <2>4, LoopSteady
    <3> QED BY <1>same, <1>steady, <2>1, <3>1, <3>2
  <2> QED BY <2>3, <2>4
<1>2. ASSUME NEW s \in Servers, Crash(s) PROVE Leads(election'[h][f].walk, server'[h].backupServers)
  BY <1>2, <1>die DEF Crash
<1>3. ASSUME NEW s \in Servers, NEW e \in Threads, DieOfTornWalk(s, e)
      PROVE  Leads(election'[h][f].walk, server'[h].backupServers)
  BY <1>3, <1>die DEF DieOfTornWalk
<1>4. ASSUME NEW s \in Servers, NEW e \in Threads, ElectionStep(s, e)
      PROVE  Leads(election'[h][f].walk, server'[h].backupServers)
  <2>1. CASE BindFails(s, e)
    BY <1>die, <2>1 DEF BindFails
  <2>2. CASE ChangePort(s, e)
    <3>1. s = h /\ SetThread(s, e, [NewThread EXCEPT !.pc = "announce", !.walk = server[s].backupServers])
      BY <2>2 DEF ChangePort
    <3>2. server'[h].backupServers = server[h].backupServers
      <4>1. PICK me \in ServerType : me = server[h]
        BY DEF TypeOK
      <4>2. PICK c : Set(h, [me EXCEPT !.closing = c])
        BY <2>2, <3>1, <4>1 DEF ChangePort
      <4>3. server'[h] = [me EXCEPT !.closing = c]
        BY <4>2, SetIs
      <4> QED BY <4>1, <4>3 DEF ServerType
    <3>3. CASE f = e
      <4>1. election'[h][f] = [NewThread EXCEPT !.pc = "announce", !.walk = server[h].backupServers]
        BY <3>1, <3>3, SetThreadIs
      <4>2. election'[h][f].walk = server[h].backupServers
        BY <4>1 DEF NewThread
      <4> QED BY <3>2, <4>2 DEF Leads
    <3>4. CASE f # e
      <4>1. election'[h][f] = election[h][f]
        BY <3>1, <3>4, SetThreadIs
      <4>2. Announcing(election, h, f)
        BY <4>1 DEF Announcing
      <4>3. h = primaryPort
        BY <4>2 DEF PortInv, AnnouncerHasPort
      <4> QED BY <1>same, <3>2, <4>1, <4>2, <4>3
    <3> QED BY <3>3, <3>4
  <2>3. CASE ~Speaks(s, e)
    <3>1. h = primaryPort
      BY <1>4, <2>3, CalmElection DEF Calm, Speaks
    <3>2. server' = server /\ Steady(h, f)
      BY <1>4, <2>3, QuietElection
    <3> QED BY <1>same, <1>steady, <3>1, <3>2
  <2>4. CASE Announce(s, e) \/ AnnounceAgain(s, e) \/ HearReply(s, e) \/ BecomePrimary(s, e)
    <3>1. h = primaryPort
      BY <2>4 DEF Announce, AnnounceAgain, HearReply, BecomePrimary
    <3>2. server'[h].backupServers = server[h].backupServers
      <4>1. PICK me \in ServerType : me = server[s]
        BY DEF TypeOK
      <4>2. CASE Set(s, [me EXCEPT !.isPrimary = TRUE])
        <5>1. server'[s] = [me EXCEPT !.isPrimary = TRUE] /\ \A t \in Servers : t # s => server'[t] = server[t]
          BY <4>2, SetIs
        <5> QED BY <4>1, <5>1 DEF ServerType
      <4>3. CASE server' = server
        BY <4>3
      <4> QED BY <2>4, <4>1, <4>2, <4>3 DEF Announce, AnnounceAgain, HearReply, BecomePrimary
    <3>3. PICK thread \in ThreadType : thread = election[s][e]
      <4>1. election[s][e] \in ThreadType
        BY DEF TypeOK
      <4> QED BY <4>1
    <3>4. thread.pc \in {"announce", "listenReply"}
      BY <2>4, <3>3 DEF Announce, AnnounceAgain, HearReply, BecomePrimary
    <3>5. election' = election \/ \E new : /\ SetThread(s, e, new)
                                           /\ new.pc = "ended" \/ new.walk = thread.walk
      <4>1. CASE Announce(s, e)
        <5>1. PICK new : new = [thread EXCEPT !.pc = "listenReply", !.peer = Peer(s, e)]
          OBVIOUS
        <5>2. new.walk = thread.walk
          BY <5>1 DEF ThreadType
        <5> QED BY <3>3, <4>1, <5>1, <5>2 DEF Announce
      <4>2. CASE AnnounceAgain(s, e)
        BY <4>2 DEF AnnounceAgain
      <4>3. CASE HearReply(s, e)
        <5>1. PICK new : new = GoOn(thread, "announce")
          OBVIOUS
        <5>2. new.walk = thread.walk
          BY <5>1 DEF GoOn, ThreadType
        <5> QED BY <3>3, <4>3, <5>1, <5>2 DEF HearReply
      <4>4. CASE BecomePrimary(s, e)
        <5>1. PICK new : new = [NewThread EXCEPT !.pc = "ended"]
          OBVIOUS
        <5>2. new.pc = "ended"
          BY <5>1 DEF NewThread
        <5> QED BY <4>4, <5>1, <5>2 DEF BecomePrimary
      <4> QED BY <2>4, <4>1, <4>2, <4>3, <4>4
    <3>6. Announcing(election, h, f) /\ election'[h][f].walk = election[h][f].walk
      <4>1. CASE election' = election
        BY <4>1 DEF Announcing
      <4>2. ASSUME NEW new, SetThread(s, e, new), new.pc = "ended" \/ new.walk = thread.walk
            PROVE  Announcing(election, h, f) /\ election'[h][f].walk = election[h][f].walk
        <5>1. /\ election'[s][e] = new
              /\ \A t \in Servers : \A g \in Threads : t # s \/ g # e => election'[t][g] = election[t][g]
          BY <4>2, SetThreadIs
        <5> QED BY <3>3, <3>4, <4>2, <5>1 DEF Announcing
      <4> QED BY <3>5, <4>1, <4>2
    <3> QED BY <1>same, <3>1, <3>2, <3>6
  <2> QED BY <2>1, <2>2, <2>3, <2>4 DEF Speaks
<1>5. CASE UNCHANGED vars
  BY <1>5, <1>same DEF vars, Announcing
<1> QED BY <1>1, <1>2, <1>3, <1>4, <1>5 DEF Next

LEMMA AlongInit ==
  ASSUME Init
  PROVE  Along
BY InitQuiet, NewThreadWalk DEF Along, Announcing

LEMMA LeadingInit ==
  ASSUME ElectionAssumption, Init
  PROVE  Leading
<1>1. /\ First \in Servers /\ primaryPort = First
      /\ \A t \in Servers : inbox[t] = <<>>
      /\ \A t \in Servers : \A type, u : ~Sent(t, type, u) /\ ~Offered(t, u)
      /\ \A t \in Servers : \A e \in Threads : election[t][e] = NewThread
  BY InitQuiet DEF ElectionAssumption
<1>2. Undisturbed(First) /\ Behind(First) /\ Addressed(First)
  <2>1. Undisturbed(First)
    BY <1>1 DEF Undisturbed
  <2>2. \A t \in Servers : DOMAIN inbox[t] = {}
    <3>1. DOMAIN <<>> = {}
      OBVIOUS
    <3> QED BY <1>1, <3>1
  <2>3. Behind(First) /\ Addressed(First)
    BY <2>2 DEF Behind, Addressed
  <2> QED BY <2>1, <2>3
<1>3. \A e \in Threads : ~Announcing(election, First, e)
  BY <1>1, NewThreadWalk DEF Announcing
<1>4. \A t \in Servers : ~Hears(t, First)
  <2>1. First \notin Registered
    BY DEF ElectionAssumption
  <2> QED BY <1>1, <2>1, InitServers DEF Hears
<1>5. \A t \in Known(First) : t \in Servers
  BY <1>1, InitServers DEF ElectionAssumption
<1> QED BY <1>1, <1>2, <1>3, <1>4, <1>5 DEF Leading, Led

-----------------------------------------------------------------------------
AgreementInv == TypeOK /\ PortInv /\ Registration /\ Leading /\ Along

LEMMA AgreementInit == Init => AgreementInv
BY ElectionAssumption, ElectionTypesInit, PortInvInit, RegistrationInit, LeadingInit, AlongInit DEF AgreementInv

LEMMA AgreementStep == AgreementInv /\ [Next]_vars => AgreementInv'
<1> SUFFICES ASSUME AgreementInv, [Next]_vars PROVE AgreementInv'
  OBVIOUS
<1>1. TypeOK /\ PortInv /\ Registration /\ Leading /\ Along
  BY DEF AgreementInv
<1>2. TypeOK'
  BY <1>1, ElectionTypesStep
<1>3. PortInv'
  BY <1>1, PortInvStep, ElectionAssumption
<1>4. Registration'
  BY <1>1, <1>2, RegistrationStep, ElectionAssumption
<1>5. Leading'
  BY <1>1, <1>2, <1>3, LeadingStep, ElectionAssumption
<1>6. Along'
  BY <1>1, <1>2, AlongStep, ElectionAssumption
<1> QED BY <1>2, <1>3, <1>4, <1>5, <1>6 DEF AgreementInv

\* However many servers register, crash and hold elections, and whatever is
\* late: nobody that a primary knows, and would send changes to, keeps it as a
\* backup in its own list (the COORDINATOR branch of Server::execute).
THEOREM CoordinatorForgottenEver == Spec => []CoordinatorForgotten
<1>1. AgreementInv => CoordinatorForgotten
  <2> SUFFICES ASSUME AgreementInv, NEW s \in Servers, NEW t \in Servers,
                      server[s].isPrimary, t \in Known(s)
               PROVE  s \notin Known(t)
    BY DEF CoordinatorForgotten
  <2>1. primaryPort = s /\ s # Nobody
    BY ElectionAssumption DEF AgreementInv, PortInv, OnePrimary, ElectionAssumption
  <2>2. ~Hears(t, s)
    BY <2>1 DEF AgreementInv, Leading, Led
  <2> QED BY <2>2 DEF Hears
<1> QED BY <1>1, AgreementInit, AgreementStep, PTL DEF Spec

-----------------------------------------------------------------------------
(* The greatest wins.                                                       *)

\* What waits stays, but what a server reads, or loses with its port.
Stays(u, x) == In(x, inbox[u]) => In(x, inbox'[u])

LEMMA AppendStays ==
  ASSUME TypeOK, NEW u \in Servers, NEW m \in RequestType,
         inbox'[u] = inbox[u] \/ inbox'[u] = Append(inbox[u], m)
  PROVE  \A x : Stays(u, x)
<1>1. inbox[u] \in Seq(RequestType)
  BY DEF TypeOK
<1>2. \A x : In(x, Append(inbox[u], m)) <=> x = m \/ In(x, inbox[u])
  BY <1>1, InAppend
<1> QED BY <1>2 DEF Stays

LEMMA SendStays ==
  ASSUME TypeOK, NEW m \in RequestType, (\E t : Send(t, m)) \/ SendToPrimary(m)
  PROVE  \A u \in Servers : \A x : Stays(u, x)
<1>1. \A u \in Servers : inbox'[u] = inbox[u] \/ inbox'[u] = Append(inbox[u], m)
  BY DEF TypeOK, Send, SendToPrimary
<1> QED BY <1>1, AppendStays

LEMMA TailStays ==
  ASSUME TypeOK, NEW s \in Servers, inbox[s] # <<>>, inbox'[s] = Tail(inbox[s])
  PROVE  \A x : x # Head(inbox[s]) => Stays(s, x)
<1>1. inbox[s] \in Seq(RequestType)
  BY DEF TypeOK
<1>2. \A x : In(x, inbox[s]) <=> x = Head(inbox[s]) \/ In(x, Tail(inbox[s]))
  BY <1>1, InTail
<1> QED BY <1>2 DEF Stays

LEMMA LoopStays ==
  ASSUME TypeOK, NEW s \in Servers, Register(s) \/ LoopStep(s), NEW u \in Servers, NEW x
  PROVE  Stays(u, x) \/ (u = s /\ x = Head(inbox[s]) /\ Receive(s))
<1>1. CASE Register(s) \/ SendTic(s)
  <2>1. PICK type \in {"ALIVE", "TIC"} : SendToPrimary(Request(type, s))
    BY <1>1 DEF Register, SendTic
  <2>2. Request(type, s) \in RequestType
    BY RequestTyped
  <2> QED BY <2>1, <2>2, SendStays
<1>2. CASE HearOfBackup(s) \/ HearNoMore(s) \/ HearToc(s) \/ HearNoToc(s) \/ LeaveOldPort(s) \/ LeaveBackupLoop(s)
  BY <1>2 DEF HearOfBackup, HearNoMore, HearToc, HearNoToc, LeaveOldPort, LeaveBackupLoop, Stays
<1>3. CASE ReceiveBackup(s) \/ ReceiveTic(s) \/ ReceiveElection(s) \/ ReceiveCoordinator(s)
  <2>1. inbox[s] # <<>> /\ Handled(s)
    BY <1>3 DEF ReceiveBackup, ReceiveTic, ReceiveElection, ReceiveCoordinator, Receives
  <2>2. inbox'[s] = Tail(inbox[s]) /\ (u # s => inbox'[u] = inbox[u])
    BY <2>1 DEF Handled, TypeOK
  <2> QED BY <1>3, <2>1, <2>2, TailStays DEF Receive, Stays
<1>4. CASE ReceiveAlive(s)
  <2>1. inbox[s] # <<>> /\ Head(inbox[s]) \in RequestType
    BY <1>4, HeadTyped DEF ReceiveAlive, Receives
  <2>2. PICK m \in RequestType : m = Request("BACKUP", Head(inbox[s]).from)
    BY <2>1, RequestTyped DEF RequestType
  <2>3. /\ inbox'[s] = Tail(inbox[s])
        /\ u # s => inbox'[u] = inbox[u] \/ inbox'[u] = Append(inbox[u], m)
    BY <1>4, <2>2 DEF ReceiveAlive
  <2> QED BY <1>4, <2>1, <2>3, TailStays, AppendStays DEF Receive
<1> QED BY <1>1, <1>2, <1>3, <1>4 DEF LoopStep, Receive

LEMMA ElectionStays ==
  ASSUME TypeOK, NEW s \in Servers, NEW e \in Threads, ElectionStep(s, e), ~ChangePort(s, e), ~BindFails(s, e),
         NEW u \in Servers, NEW x
  PROVE  Stays(u, x)
<1>1. CASE AskGreater(s, e) \/ Announce(s, e) \/ AnnounceAgain(s, e)
  <2>1. PICK type \in {"ELECTION", "COORDINATOR"} : \E t : Send(t, RequestOf(type, s, e))
    BY <1>1 DEF AskGreater, Announce, AnnounceAgain
  <2>2. RequestOf(type, s, e) \in RequestType
    BY RequestOfTyped
  <2> QED BY <2>1, <2>2, SendStays
<1>2. CASE inbox' = inbox
  BY <1>2 DEF Stays
<1> QED BY <1>1, <1>2 DEF ElectionStep, BeginElection, SkipSmaller, HearAnswer, HearNoAnswer,
                          BecomeCoordinator, HearReply, BecomePrimary

LEMMA ClearedStays ==
  ASSUME TypeOK, NEW s \in Servers, inbox' = [inbox EXCEPT ![s] = <<>>], NEW u \in Servers, u # s, NEW x
  PROVE  Stays(u, x)
BY DEF Stays, TypeOK

\* Who was passed stays so.
Past == \A s, t \in Servers : Passed(s, t) => Passed(s, t)'
LEMMA PastIf ==
  ASSUME \A t \in Servers : server[t].loop = "dead" => server'[t].loop = "dead",
         \A t \in Servers : primaryPort = t => primaryPort' = t \/ server'[t].loop = "dead"
  PROVE  Past
BY DEF Past, Passed

LEMMA DeathPast ==
  ASSUME TypeOK, NEW s \in Servers, Die(s)
  PROVE  Past /\ server'[s].loop = "dead" /\ \A e \in Threads : election'[s][e].pc = "none"
<1>1. server'[s].loop = "dead" /\ \A t \in Servers : t # s => server'[t] = server[t]
  BY DEF Die, Set, TypeOK, NewServer
<1>2. primaryPort' = IF primaryPort = s THEN Nobody ELSE primaryPort
  BY DEF Die
<1>3. \A e \in Threads : election'[s][e].pc = "none"
  BY DEF Die, TypeOK, NewThread
<1> QED BY <1>1, <1>2, <1>3, PastIf

LEMMA LoopDead ==
  ASSUME ElectionAssumption, TypeOK, TypeOK', Registration, NEW s \in Servers, Register(s) \/ LoopStep(s),
         NEW t \in Servers, server[t].loop = "dead"
  PROVE  server'[t].loop = "dead"
<1>1. CASE Register(s)
  <2>1. server[s].loop = "off"
    BY <1>1 DEF Register
  <2> QED BY <2>1, LoopServer
<1>2. CASE ReceiveAlive(s)
  <2>1. \E new \in Servers : AliveEffect(s, new)
    BY <1>2, AliveHeard
  <2> QED BY <2>1 DEF AliveEffect
<1>3. CASE LoopStep(s) /\ ~ReceiveAlive(s)
  BY <1>3, CalmLoop DEF Calm, Ageing
<1> QED BY <1>1, <1>2, <1>3

LEMMA LoopPast ==
  ASSUME ElectionAssumption, TypeOK, TypeOK', Registration, NEW s \in Servers, Register(s) \/ LoopStep(s)
  PROVE  Past
<1>1. primaryPort' = primaryPort
  BY LoopServer
<1>2. \A t \in Servers : server[t].loop = "dead" => server'[t].loop = "dead"
  BY LoopDead
<1> QED BY <1>1, <1>2, PastIf

LEMMA ElectionPast ==
  ASSUME ElectionAssumption, TypeOK, PortInv, NEW s \in Servers, NEW e \in Threads,
         ElectionStep(s, e), ~BindFails(s, e)
  PROVE  Past
<1>1. CASE ChangePort(s, e)
  <2>1. PICK me \in ServerType : me = server[s]
    BY DEF TypeOK
  <2>2. PICK c, now : now = [me EXCEPT !.closing = c] /\ Set(s, now)
    BY <1>1, <2>1 DEF ChangePort
  <2>3. now.loop = me.loop
    BY <2>2 DEF ServerType
  <2>4. server'[s] = now /\ \A t \in Servers : t # s => server'[t] = server[t]
    BY <2>2, SetIs
  <2>5. primaryPort \in {Nobody, s} /\ primaryPort' = s /\ Nobody \notin Servers
    BY <1>1, ElectionAssumption DEF ChangePort, ElectionAssumption
  <2> QED BY <2>1, <2>3, <2>4, <2>5, PastIf
<1>2. CASE ~ChangePort(s, e)
  <2>1. Calm
    BY <1>2, CalmElection
  <2> QED BY <2>1, PastIf DEF Calm, Ageing
<1> QED BY <1>1, <1>2

\* What another thread may do to one that walks: answer it, or tear its walk.
Mild(old, new) ==
  \/ new = old
  \/ new.pc = "begin" \/ new.torn
  \/ /\ new.pc = old.pc /\ new.walk = old.walk /\ new.at = old.at /\ new.peer = old.peer
     /\ new.torn = old.torn /\ (old.reply => new.reply)

LEMMA WalkedKeeps ==
  ASSUME TypeOK, Past, NEW s \in Servers, NEW e \in Threads, Walked(s, e),
         Mild(election[s][e], election'[s][e]),
         election[s][e].pc = "listenAnswer" /\ ~election[s][e].torn /\ Asked(s, e)
           /\ election'[s][e].at = election[s][e].at /\ election'[s][e].peer = election[s][e].peer =>
           Asked(s, e)' \/ Passed(s, election[s][e].peer)' \/ election'[s][e].reply
  PROVE  Walked(s, e)'
<1>1. PICK old \in ThreadType : old = election[s][e]
  BY DEF TypeOK
<1>2. PICK new : new = election'[s][e]
  OBVIOUS
<1>3. CASE new.pc \in {"ask", "listenAnswer", "changePort"} /\ ~new.torn
  <2>1. /\ new.pc = old.pc /\ new.walk = old.walk /\ new.at = old.at /\ new.peer = old.peer
        /\ new.torn = old.torn /\ (old.reply => new.reply)
    BY <1>1, <1>2, <1>3 DEF Mild
  <2>2. /\ \A i \in DOMAIN old.walk : old.walk[i] # s /\ (i < old.at => Passed(s, old.walk[i]))
        /\ old.pc = "listenAnswer" =>
             /\ old.at \in DOMAIN old.walk /\ old.peer = old.walk[old.at]
             /\ old.reply \/ Passed(s, old.peer) \/ Asked(s, e)
        /\ old.pc = "changePort" => old.at > Len(old.walk)
    BY <1>1, <1>3, <2>1 DEF Walked
  <2>3. \A i \in DOMAIN old.walk : old.walk[i] \in Servers
    BY DEF ThreadType
  <2>4. \A i \in DOMAIN new.walk : new.walk[i] # s /\ (i < new.at => Passed(s, new.walk[i])')
    BY <2>1, <2>2, <2>3 DEF Past
  <2>5. new.pc = "listenAnswer" =>
             /\ new.at \in DOMAIN new.walk /\ new.peer = new.walk[new.at]
             /\ new.reply \/ Passed(s, new.peer)' \/ Asked(s, e)'
    BY <1>1, <1>2, <1>3, <2>1, <2>2, <2>3 DEF Past
  <2>6. new.pc = "changePort" => new.at > Len(new.walk)
    BY <2>1, <2>2
  <2> QED BY <1>2, <2>4, <2>5, <2>6 DEF Walked
<1>4. CASE ~(new.pc \in {"ask", "listenAnswer", "changePort"} /\ ~new.torn)
  BY <1>2, <1>4 DEF Walked
<1> QED BY <1>3, <1>4

\* A thread whose place in its walk does not change asks as it did.
LEMMA SameAsked ==
  ASSUME NEW s, NEW e, election'[s][e].at = election[s][e].at, election'[s][e].peer = election[s][e].peer,
         \A x : Stays(election[s][e].peer, x), Asked(s, e)
  PROVE  Asked(s, e)'
BY DEF Asked, RequestOf, Stays

LEMMA TearMild ==
  ASSUME TypeOK, NEW s \in Servers, NEW list \in Seq(Servers), NEW t \in Servers, NEW f \in Threads
  PROVE  Torn(s, list)[t][f] = election[t][f] \/ Torn(s, list)[t][f].torn
<1>1. PICK old \in ThreadType : old = election[t][f]
  <2>1. election[t][f] \in ThreadType
    BY DEF TypeOK
  <2> QED BY <2>1
<1>2. PICK new : new = Torn(s, list)[t][f]
  OBVIOUS
<1>3. new = old \/ IsTorn(old, new, list)
  BY <1>1, <1>2, TornShape
<1> QED BY <1>1, <1>2, <1>3 DEF IsTorn, ThreadType

LEMMA StartMild ==
  ASSUME TypeOK, NEW s \in Servers, MayStart(s), NEW t \in Servers, NEW f \in Threads
  PROVE  Started(s)[t][f] = election[t][f]
         \/ (Started(s)[t][f].pc = "begin" /\ election[t][f].pc = "none")
<1>1. PICK old \in ThreadType : old = election[t][f]
  <2>1. election[t][f] \in ThreadType
    BY DEF TypeOK
  <2> QED BY <2>1
<1>2. PICK new : new = Started(s)[t][f]
  OBVIOUS
<1>3. new = old \/ (old.pc = "none" /\ new = [old EXCEPT !.pc = "begin"])
  BY <1>1, <1>2, StartShape
<1> QED BY <1>1, <1>2, <1>3 DEF ThreadType

LEMMA ReplyMild ==
  ASSUME NEW threads \in [Servers -> [Threads -> ThreadType]], NEW m, NEW pc, election' = Replied(threads, m, pc),
         NEW t \in Servers, NEW f \in Threads, NEW old,
         threads[t][f] = old \/ threads[t][f].pc = "begin" \/ threads[t][f].torn
  PROVE  Mild(old, election'[t][f])
<1>1. PICK mid, new : mid = threads[t][f] /\ new = election'[t][f]
  OBVIOUS
<1>2. /\ new.pc = mid.pc /\ new.walk = mid.walk /\ new.at = mid.at
      /\ new.peer = mid.peer /\ new.torn = mid.torn /\ (mid.reply => new.reply)
  <2>1. /\ new.pc = mid.pc /\ new.walk = mid.walk /\ new.at = mid.at
        /\ new.peer = mid.peer /\ new.torn = mid.torn
        /\ new.reply = (mid.reply \/ Awaits(threads, m, pc, t, f))
    BY <1>1, ReplyFields
  <2>2. mid.reply \in BOOLEAN
    BY <1>1 DEF ThreadType
  <2>3. mid.reply => new.reply
    BY <2>1, <2>2
  <2> QED BY <2>1, <2>3
<1>3. Mild(old, new)
  BY <1>1, <1>2 DEF Mild
<1> QED BY <1>1, <1>3

LEMMA PeerIs ==
  ASSUME TypeOK, NEW t \in Servers, NEW f \in Threads, Walked(t, f),
         election[t][f].pc = "listenAnswer", ~election[t][f].torn
  PROVE  election[t][f].peer \in Servers
<1>1. PICK old \in ThreadType : old = election[t][f]
  <2>1. election[t][f] \in ThreadType
    BY DEF TypeOK
  <2> QED BY <2>1
<1> QED BY <1>1 DEF Walked, ThreadType

LEMMA LoopWalked ==
  ASSUME ElectionAssumption, TypeOK, TypeOK', Registration, NEW s \in Servers, Register(s) \/ LoopStep(s),
         NEW t \in Servers, NEW f \in Threads, Walked(t, f)
  PROVE  Walked(t, f)'
<1>0. PICK old \in ThreadType : old = election[t][f]
  <2>1. election[t][f] \in ThreadType
    BY DEF TypeOK
  <2> QED BY <2>1
<1>past. Past
  BY LoopPast
<1>peer. old.pc = "listenAnswer" /\ ~old.torn => old.peer \in Servers
  BY <1>0, PeerIs
<1>m. ReceiveElection(s) \/ ReceiveCoordinator(s) => \E m \in RequestType : m = Head(inbox[s])
  BY HeadTyped DEF ReceiveElection, ReceiveCoordinator, Receives
<1>started. Started(s) \in [Servers -> [Threads -> ThreadType]]
  BY StartedTyped
<1>list. server[s].backupServers \in Seq(Servers)
  BY DEF TypeOK, ServerType
<1>mild. Mild(old, election'[t][f])
  <2>1. CASE ReceiveElection(s)
    <3>1. Started(s)[t][f] = old \/ Started(s)[t][f].pc = "begin"
      BY <1>0, <2>1, StartMild DEF ReceiveElection
    <3> QED BY <1>started, <2>1, <3>1, ReplyMild DEF ReceiveElection
  <2>2. CASE HearNoToc(s)
    <3>1. Started(s)[t][f] = old \/ Started(s)[t][f].pc = "begin"
      BY <1>0, <2>2, StartMild DEF HearNoToc
    <3> QED BY <2>2, <3>1 DEF HearNoToc, Mild
  <2>3. CASE ReceiveBackup(s)
    <3>1. PICK from \in Servers : from = Head(inbox[s]).from
      BY <2>3, HeadTyped DEF ReceiveBackup, Receives, RequestType
    <3>2. PICK q \in Seq(Servers) : q = server[s].backupServers
      BY <1>list
    <3>3. PICK list \in Seq(Servers) : list = Append(q, from)
      <4>1. Append(q, from) \in Seq(Servers)
        OBVIOUS
      <4> QED BY <4>1
    <3>4. election' = Torn(s, list)
      BY <2>3, <3>1, <3>2, <3>3 DEF ReceiveBackup
    <3>5. Torn(s, list)[t][f] = old \/ Torn(s, list)[t][f].torn
      BY <1>0, TearMild
    <3> QED BY <3>4, <3>5 DEF Mild
  <2>6. CASE ReceiveAlive(s)
    <3>1. PICK list \in Seq(Servers) : election' = Torn(s, list)
      BY <2>6, AliveThreads
    <3>2. Torn(s, list)[t][f] = old \/ Torn(s, list)[t][f].torn
      BY <1>0, TearMild
    <3> QED BY <3>1, <3>2 DEF Mild
  <2>4. CASE ReceiveCoordinator(s)
    <3>1. PICK m \in RequestType : m = Head(inbox[s])
      BY <1>m, <2>4
    <3>2. PICK list \in Seq(Servers) : list = Without(server[s].backupServers, m.from)
      BY <1>list, WithoutIs
    <3>3. PICK torn \in [Servers -> [Threads -> ThreadType]] : torn = Torn(s, list)
      BY TornTyped
    <3>4. election' = Replied(torn, m, "listenReply")
      BY <2>4, <3>1, <3>2, <3>3 DEF ReceiveCoordinator
    <3>5. torn[t][f] = old \/ torn[t][f].torn
      BY <1>0, <3>3, TearMild
    <3> QED BY <3>4, <3>5, ReplyMild
  <2>5. CASE election' = election
    BY <1>0, <2>5 DEF Mild
  <2> QED BY <2>1, <2>2, <2>3, <2>4, <2>5, <2>6
          DEF Register, LoopStep, HearOfBackup, HearNoMore, SendTic, HearToc, LeaveOldPort, LeaveBackupLoop,
              Receive, ReceiveTic
<1>asked. ASSUME old.pc = "listenAnswer", ~old.torn, Asked(t, f),
                 election'[t][f].at = election[t][f].at, election'[t][f].peer = election[t][f].peer
          PROVE  Asked(t, f)' \/ election'[t][f].reply
  <2>1. PICK x : x = RequestOf("ELECTION", t, f)
    OBVIOUS
  <2>2. old.peer \in Servers /\ In(x, inbox[old.peer])
    BY <1>0, <1>peer, <1>asked, <2>1 DEF Asked
  <2>3. CASE Stays(old.peer, x)
    <3>1. In(x, inbox'[old.peer])
      BY <2>2, <2>3 DEF Stays
    <3> QED BY <1>0, <1>asked, <2>1, <3>1 DEF Asked, RequestOf
  <2>4. CASE ~Stays(old.peer, x)
    <3>1. old.peer = s /\ x = Head(inbox[s]) /\ Receive(s)
      BY <2>2, <2>4, LoopStays
    <3>2. x.type = "ELECTION" /\ x.from = t /\ x.thread = f /\ x.at = old.at
      BY <1>0, <2>1 DEF RequestOf
    <3>3. ReceiveElection(s)
      BY <3>1, <3>2 DEF Receive, ReceiveAlive, ReceiveBackup, ReceiveTic, ReceiveCoordinator, Receives
    <3>4. Started(s)[t][f] = old
      BY <1>0, <1>asked, <3>3, StartMild DEF ReceiveElection
    <3>5. Awaits(Started(s), x, "listenAnswer", t, f)
      BY <1>asked, <3>2, <3>4 DEF Awaits
    <3>6. election' = Replied(Started(s), x, "listenAnswer")
      BY <3>1, <3>3 DEF ReceiveElection
    <3>7. Answered(old, election'[t][f])
      BY <1>started, <3>4, <3>5, <3>6, ReplyShape
    <3> QED BY <3>7 DEF Answered, ThreadType
  <2> QED BY <2>3, <2>4
<1> QED BY <1>0, <1>past, <1>mild, <1>asked, WalkedKeeps

\* The steps of another thread.
LEMMA OtherWalked ==
  ASSUME ElectionAssumption, TypeOK, PortInv, NEW s \in Servers, NEW e \in Threads, ElectionStep(s, e), ~BindFails(s, e),
         NEW t \in Servers, NEW f \in Threads, t # s \/ f # e, Walked(t, f)
  PROVE  Walked(t, f)'
<1>1. Past
  BY ElectionPast
<1>2. election'[t][f] = election[t][f]
  <2>1. (\E new : SetThread(s, e, new)) \/ election' = election
    BY DEF ElectionStep, BeginElection, SkipSmaller, AskGreater, HearAnswer, HearNoAnswer, BecomeCoordinator,
           ChangePort, BindFails, Announce, HearReply, AnnounceAgain, BecomePrimary
  <2> QED BY <2>1, SetThreadIs
<1>3. ASSUME election[t][f].pc = "listenAnswer", ~election[t][f].torn, Asked(t, f)
      PROVE  Asked(t, f)' \/ Passed(t, election[t][f].peer)'
  <2>1. PICK u \in Servers : u = election[t][f].peer
    BY <1>3, PeerIs
  <2>2. CASE ChangePort(s, e)
    <3>1. CASE u = s
      BY <1>2, <2>1, <2>2, <3>1 DEF ChangePort, Passed
    <3>2. CASE u # s
      <4>1. \A x : Stays(u, x)
        BY <2>2, <3>2, ClearedStays DEF ChangePort
      <4> QED BY <1>2, <1>3, <2>1, <4>1, SameAsked
    <3> QED BY <3>1, <3>2
  <2>3. CASE ~ChangePort(s, e)
    <3>1. \A x : Stays(u, x)
      BY <2>3, ElectionStays
    <3> QED BY <1>2, <1>3, <2>1, <3>1, SameAsked
  <2> QED BY <2>2, <2>3
<1>4. Mild(election[t][f], election'[t][f])
  BY <1>2 DEF Mild
<1> QED BY <1>1, <1>3, <1>4, WalkedKeeps

LEMMA DeathWalked ==
  ASSUME TypeOK, NEW s \in Servers, Die(s), NEW t \in Servers, NEW f \in Threads, Walked(t, f)
  PROVE  Walked(t, f)'
<1>1. Past /\ server'[s].loop = "dead" /\ \A e \in Threads : election'[s][e].pc = "none"
  BY DeathPast
<1>2. CASE t = s
  BY <1>1, <1>2 DEF Walked
<1>3. CASE t # s
  <2>1. election'[t][f] = election[t][f]
    BY <1>3 DEF Die, TypeOK
  <2>2. ASSUME election[t][f].pc = "listenAnswer", ~election[t][f].torn, Asked(t, f)
        PROVE  Asked(t, f)' \/ Passed(t, election[t][f].peer)'
    <3>1. PICK u \in Servers : u = election[t][f].peer
      BY <2>2, PeerIs
    <3>2. CASE u = s
      BY <1>1, <2>1, <3>1, <3>2 DEF Passed
    <3>3. CASE u # s
      <4>1. \A x : Stays(u, x)
        BY <3>3, ClearedStays DEF Die
      <4> QED BY <2>1, <2>2, <3>1, <4>1, SameAsked
    <3> QED BY <3>2, <3>3
  <2>3. Mild(election[t][f], election'[t][f])
    BY <2>1 DEF Mild
  <2> QED BY <1>1, <2>2, <2>3, WalkedKeeps
<1> QED BY <1>2, <1>3

\* The thread's own steps. It gives up on a greater one that has died or has
\* the port only: what lives answers, and in time.
LEMMA OwnWalked ==
  ASSUME ElectionAssumption, TypeOK, PortInv, Registration, ~Late,
         NEW s \in Servers, NEW e \in Threads, ElectionStep(s, e), ~BindFails(s, e), Walked(s, e)
  PROVE  Walked(s, e)'
<1>0. PICK old \in ThreadType : old = election[s][e]
  <2>1. election[s][e] \in ThreadType
    BY DEF TypeOK
  <2> QED BY <2>1
<1>1. PICK new : new = election'[s][e]
  OBVIOUS
<1>set. ASSUME NEW thread, SetThread(s, e, thread) PROVE new = thread
  BY <1>1, <1>set, SetThreadIs, Zenon
<1>on. GoOn(election[s][e], "ask") = GoOn(old, "ask")
  BY <1>0, Zenon
<1>2. /\ old.walk \in Seq(Servers) /\ old.at \in Nat \ {0} /\ Len(old.walk) \in Nat
      /\ DOMAIN old.walk = 1 .. Len(old.walk)
      /\ \A i \in DOMAIN old.walk : old.walk[i] \in Servers
  <2>1. old.walk \in Seq(Servers) /\ old.at \in Nat \ {0}
    BY DEF ThreadType
  <2> QED BY <2>1
<1>3. Past
  BY ElectionPast
<1>4. old.pc \in {"ask", "listenAnswer", "changePort"} /\ ~old.torn =>
        /\ \A i \in DOMAIN old.walk : old.walk[i] # s /\ (i < old.at => Passed(s, old.walk[i]))
        /\ old.pc = "listenAnswer" =>
             /\ old.at \in DOMAIN old.walk /\ old.peer = old.walk[old.at]
             /\ old.reply \/ Passed(s, old.peer) \/ Asked(s, e)
        /\ old.pc = "changePort" => old.at > Len(old.walk)
  BY <1>0 DEF Walked
<1>go. ASSUME old.pc \in {"ask", "listenAnswer"}, new = GoOn(old, "ask"), old.at \in DOMAIN old.walk,
              ~old.torn => Passed(s, old.walk[old.at])
       PROVE  Walked(s, e)'
  <2>1. new.pc = "ask" /\ new.walk = old.walk /\ new.at = old.at + 1 /\ new.torn = old.torn
    BY <1>go DEF GoOn, ThreadType
  <2>2. \A i \in DOMAIN old.walk : i < new.at => i < old.at \/ i = old.at
    BY <1>2, <2>1
  <2>3. ~old.torn => \A i \in DOMAIN new.walk : new.walk[i] # s /\ (i < new.at => Passed(s, new.walk[i])')
    BY <1>2, <1>3, <1>4, <1>go, <2>1, <2>2 DEF Past
  <2> QED BY <1>1, <2>1, <2>3 DEF Walked
<1>5. CASE BeginElection(s, e)
  <2>1. new = [NewThread EXCEPT !.pc = "ask", !.walk = server[s].backupServers]
    BY <1>1, <1>5, SetThreadIs DEF BeginElection
  <2>2. new.pc = "ask" /\ new.walk = server[s].backupServers /\ new.at = 1
    BY <2>1 DEF NewThread
  <2>3. server[s].backupServers \in Seq(Servers)
    BY DEF TypeOK, ServerType
  <2>4. \A i \in DOMAIN new.walk : new.walk[i] \in Known(s) /\ new.walk[i] \in Servers /\ ~(i < 1)
    BY <2>2, <2>3 DEF Known
  <2>5. \A i \in DOMAIN new.walk : new.walk[i] # s
    BY <2>4 DEF Registration, NotSelf, Hears
  <2> QED BY <1>1, <2>2, <2>4, <2>5 DEF Walked
<1>6. CASE SkipSmaller(s, e)
  <2>1. /\ old.pc = "ask" /\ old.at \in DOMAIN old.walk /\ s > old.walk[old.at]
    BY <1>0, <1>2, <1>6 DEF SkipSmaller, AtEnd, Peer
  <2>2. new = GoOn(old, "ask")
    BY <1>on, <1>set, <1>6, Zenon DEF SkipSmaller
  <2>3. old.walk[old.at] < s
    BY <1>2, <2>1 DEF ElectionAssumption
  <2> QED BY <1>go, <2>1, <2>2, <2>3 DEF Passed
<1>7. CASE AskGreater(s, e)
  <2>1. PICK u \in Servers : u = Peer(s, e) /\ u = old.walk[old.at] /\ old.at \in DOMAIN old.walk
    <3>1. ~(old.at > Len(old.walk)) /\ Peer(s, e) = old.walk[old.at]
      BY <1>0, <1>7 DEF AskGreater, AtEnd, Peer
    <3>2. old.at \in DOMAIN old.walk
      BY <1>2, <3>1
    <3> QED BY <1>2, <3>1, <3>2
  <2>2. old.pc = "ask"
    BY <1>0, <1>7 DEF AskGreater
  <2>3. new = [old EXCEPT !.pc = "listenAnswer", !.peer = u]
    BY <1>0, <1>set, <1>7, <2>1, Zenon DEF AskGreater
  <2>4. new.pc = "listenAnswer" /\ new.walk = old.walk /\ new.at = old.at /\ new.peer = u /\ new.torn = old.torn
    BY <2>3 DEF ThreadType
  <2>5. CASE PortOpen(u)
    <3>1. PICK m \in RequestType : m = RequestOf("ELECTION", s, e)
      BY RequestOfTyped
    <3>2. inbox'[u] = Append(inbox[u], m)
      BY <1>7, <2>1, <2>5, <3>1 DEF AskGreater, Send, TypeOK
    <3>3. In(m, inbox'[u])
      <4>1. inbox[u] \in Seq(RequestType)
        BY DEF TypeOK
      <4> QED BY <3>2, <4>1, InAppend
    <3>4. Asked(s, e)'
      BY <1>0, <1>1, <2>4, <3>1, <3>3 DEF Asked, RequestOf
    <3> QED BY <1>1, <1>2, <1>3, <1>4, <2>1, <2>2, <2>4, <3>4 DEF Walked, Past
  <2>6. CASE ~PortOpen(u)
    <3>1. server[u].loop # "off"
      <4>1. u \in Found(s, e)
        BY <1>0, <2>1 DEF Found
      <4> QED BY <4>1 DEF Registration, NewcomersApart
    <3>2. Passed(s, u)
      BY <2>6, <3>1 DEF PortOpen, Alive, Passed
    <3>3. Passed(s, u)'
      BY <1>3, <3>2 DEF Past
    <3> QED BY <1>1, <1>2, <1>3, <1>4, <2>1, <2>2, <2>4, <3>3 DEF Walked, Past
  <2> QED BY <2>5, <2>6
<1>8. CASE HearNoAnswer(s, e)
  <2>1. old.pc = "listenAnswer" /\ ~old.reply /\ GivesUp(s, "ELECTION")
    BY <1>0, <1>8 DEF HearNoAnswer
  <2>2. new = GoOn(old, "ask")
    BY <1>on, <1>set, <1>8, Zenon DEF HearNoAnswer
  <2>3. ~old.torn => Passed(s, old.walk[old.at]) /\ old.at \in DOMAIN old.walk
    <3>1. ASSUME ~old.torn, Asked(s, e) PROVE FALSE
      <4>1. old.peer \in Servers
        BY <1>0, <2>1, <3>1, PeerIs
      <4>2. PICK k \in DOMAIN inbox[old.peer] : inbox[old.peer][k] = RequestOf("ELECTION", s, e)
        BY <1>0, <3>1 DEF Asked, In
      <4>3. inbox[old.peer][k].from = s /\ inbox[old.peer][k].type = "ELECTION"
        BY <4>2 DEF RequestOf
      <4> QED BY <2>1, <4>1, <4>3 DEF GivesUp
    <3> QED BY <1>4, <2>1, <3>1
  <2>4. CASE old.torn
    <3>1. new.torn
      BY <2>2, <2>4 DEF GoOn, ThreadType
    <3> QED BY <1>1, <3>1 DEF Walked
  <2>5. CASE ~old.torn
    BY <1>go, <2>1, <2>2, <2>3, <2>5
  <2> QED BY <2>4, <2>5
<1>9. CASE BecomeCoordinator(s, e)
  <2>1. old.pc = "ask" /\ old.at > Len(old.walk)
    BY <1>0, <1>9 DEF BecomeCoordinator, AtEnd
  <2>2. new = [old EXCEPT !.pc = "changePort"]
    BY <1>0, <1>1, <1>9, SetThreadIs DEF BecomeCoordinator
  <2>3. new.pc = "changePort" /\ new.walk = old.walk /\ new.at = old.at /\ new.torn = old.torn
    BY <2>2 DEF ThreadType
  <2> QED BY <1>1, <1>2, <1>3, <1>4, <2>1, <2>3 DEF Walked, Past
<1>10. CASE HearAnswer(s, e) \/ BecomePrimary(s, e)
  <2>1. new = [NewThread EXCEPT !.pc = "ended"]
    BY <1>1, <1>10, SetThreadIs DEF HearAnswer, BecomePrimary
  <2> QED BY <1>1, <2>1 DEF NewThread, Walked
<1>11. CASE ChangePort(s, e)
  <2>1. new = [NewThread EXCEPT !.pc = "announce", !.walk = server[s].backupServers]
    BY <1>1, <1>11, SetThreadIs DEF ChangePort
  <2> QED BY <1>1, <2>1 DEF NewThread, Walked
<1>12. CASE Announce(s, e)
  <2>1. new = [old EXCEPT !.pc = "listenReply", !.peer = Peer(s, e)]
    BY <1>0, <1>1, <1>12, SetThreadIs DEF Announce
  <2> QED BY <1>1, <2>1 DEF ThreadType, Walked
<1>13. CASE HearReply(s, e)
  <2>1. new = GoOn(old, "announce")
    BY <1>0, <1>1, <1>13, SetThreadIs DEF HearReply
  <2> QED BY <1>1, <2>1 DEF ThreadType, GoOn, Walked
<1>14. CASE AnnounceAgain(s, e)
  <2>1. new = old /\ old.pc = "listenReply"
    BY <1>0, <1>1, <1>14 DEF AnnounceAgain
  <2> QED BY <1>1, <2>1 DEF Walked
<1> QED BY <1>5, <1>6, <1>7, <1>8, <1>9, <1>10, <1>11, <1>12, <1>13, <1>14 DEF ElectionStep

LEMMA WinningStep ==
  ASSUME ElectionAssumption, TypeOK, TypeOK', PortInv, Registration, ~Late, Winning, [Next]_vars
  PROVE  Winning'
<1> SUFFICES ASSUME NEW t \in Servers, NEW f \in Threads, Walked(t, f) PROVE Walked(t, f)'
  BY DEF Winning
<1>1. ASSUME NEW s \in Servers, Register(s) \/ LoopStep(s) PROVE Walked(t, f)'
  BY <1>1, LoopWalked
<1>2. ASSUME NEW s \in Servers, Die(s) PROVE Walked(t, f)'
  BY <1>2, DeathWalked
<1>3. ASSUME NEW s \in Servers, NEW e \in Threads, ElectionStep(s, e) PROVE Walked(t, f)'
  <2>1. CASE BindFails(s, e)
    BY <1>2, <2>1 DEF BindFails
  <2>2. CASE ~BindFails(s, e) /\ t = s /\ f = e
    BY <1>3, <2>2, OwnWalked
  <2>3. CASE ~BindFails(s, e) /\ (t # s \/ f # e)
    BY <1>3, <2>3, OtherWalked
  <2> QED BY <2>1, <2>2, <2>3
<1>4. CASE UNCHANGED vars
  BY <1>4 DEF vars, Walked, Passed, Asked, RequestOf
<1> QED BY <1>1, <1>2, <1>3, <1>4 DEF Next, Crash, DieOfTornWalk

LEMMA WinningInit == Init => Winning
<1> SUFFICES ASSUME Init, NEW s \in Servers, NEW e \in Threads PROVE Walked(s, e)
  BY DEF Winning
<1>1. election[s][e].pc = "none"
  BY InitQuiet, NewThreadWalk
<1> QED BY <1>1 DEF Walked

\* When no reply is late, for any number of servers and crashes: who finds the
\* port free at the end of its walk is greater than all it has found alive
\* (electionLoop), unless its own loop assigned the vector meanwhile.
THEOREM GreatestWins == ASSUME ~Late PROVE Spec => []HighestWins
<1> DEFINE Inv == AgreementInv /\ Winning
<1>1. Init => Inv
  BY AgreementInit, WinningInit
<1>2. Inv /\ [Next]_vars => Inv'
  BY AgreementStep, WinningStep, ElectionAssumption DEF AgreementInv
<1>3. Inv => HighestWins
  <2> SUFFICES ASSUME Inv, NEW s \in Servers, NEW e \in Threads,
                      election[s][e].pc = "changePort", ~election[s][e].torn, primaryPort = Nobody,
                      NEW t \in Found(s, e), Alive(t)
               PROVE  t < s
    BY DEF HighestWins
  <2>1. PICK old \in ThreadType : old = election[s][e]
    <3>1. election[s][e] \in ThreadType
      BY DEF AgreementInv, TypeOK
    <3> QED BY <3>1
  <2>2. Walked(s, e)
    BY DEF Winning
  <2>3. /\ \A i \in DOMAIN old.walk : i < old.at => Passed(s, old.walk[i])
        /\ old.at > Len(old.walk)
    BY <2>1, <2>2 DEF Walked
  <2>4. old.walk \in Seq(Servers) /\ old.at \in Nat
    BY DEF ThreadType
  <2>5. PICK i \in DOMAIN old.walk : t = old.walk[i]
    BY <2>1 DEF Found
  <2>6. Passed(s, t) /\ t \in Servers
    BY <2>3, <2>4, <2>5
  <2> QED BY <2>6, ElectionAssumption DEF Passed, Alive, ElectionAssumption
<1> HIDE DEF Inv
<1> QED BY <1>1, <1>2, <1>3, PTL DEF Spec

-----------------------------------------------------------------------------
(* The first primary.                                                       *)

LEMMA SentStays ==
  ASSUME NEW t, NEW type, NEW u, Sent(t, type, u),
         \A x : x.type = type /\ x.from = u => Stays(t, x)
  PROVE  Sent(t, type, u)'
<1>1. PICK k \in DOMAIN inbox[t] : inbox[t][k].type = type /\ inbox[t][k].from = u
  BY DEF Sent
<1>2. In(inbox[t][k], inbox[t])
  BY DEF In
<1>3. In(inbox[t][k], inbox'[t])
  BY <1>1, <1>2 DEF Stays
<1> QED BY <1>1, <1>3 DEF Sent, In

\* Every ALIVE and every TIC reaches the primary.
LEMMA PrimaryHears ==
  ASSUME TypeOK, NEW h \in Servers, h = primaryPort, NEW m \in RequestType, SendToPrimary(m)
  PROVE  Sent(h, m.type, m.from)'
<1>1. inbox[h] \in Seq(RequestType) /\ inbox'[h] = Append(inbox[h], m)
  BY DEF SendToPrimary, TypeOK
<1>2. In(m, inbox'[h])
  BY <1>1, InAppend
<1>3. PICK k \in DOMAIN inbox'[h] : inbox'[h][k] = m
  BY <1>2 DEF In
<1> QED BY <1>3 DEF Sent

\* TOC, or a listing, is added to what waits for its reader.
LEMMA RepliesStay ==
  ASSUME TypeOK, NEW t \in Servers, NEW what \in Seq(Servers \cup {Nobody}), ReplyTo(t, what), NEW u \in Servers
  PROVE  /\ answers[u] # <<>> => answers'[u] # <<>>
         /\ \A v : Offered(u, v) => Offered(u, v)'
         /\ u = t /\ Alive(t) => (what # <<>> => answers'[u] # <<>>)
                                 /\ \A v : In(v, what) => Offered(u, v)'
<1>1. PICK q \in Seq(Servers \cup {Nobody}) : q = answers[u]
  BY DEF TypeOK
<1>2. PICK r : r = q \o what
  OBVIOUS
<1>3. answers'[u] = q \/ (u = t /\ answers'[u] = r)
  BY <1>1, <1>2 DEF ReplyTo, TypeOK
<1>4. u = t /\ Alive(t) => answers'[u] = r
  BY <1>1, <1>2 DEF ReplyTo, TypeOK
<1>5. \A v : In(v, r) <=> In(v, q) \/ In(v, what)
  BY <1>2, InConcat
<1>6. (q # <<>> => r # <<>>) /\ (what # <<>> => r # <<>>)
  BY <1>2
<1> QED BY <1>1, <1>3, <1>4, <1>5, <1>6, Lists, ListsNext

\* The steps of the loops while the first primary lives.
Peaceful(s) == \/ Register(s) \/ HearOfBackup(s) \/ HearNoMore(s) \/ SendTic(s) \/ HearToc(s)
               \/ LeaveOldPort(s) \/ ReceiveBackup(s) \/ ReceiveTic(s)

LEMMA PeacefulServer ==
  ASSUME TypeOK, NEW s \in Servers, Peaceful(s)
  PROVE  /\ server'[s].electionStarted = server[s].electionStarted
         /\ Register(s) => server[s].loop = "off" /\ server'[s].loop = "register"
         /\ HearNoMore(s) => server[s].loop = "register" /\ server'[s].loop = "backup"
         /\ SendTic(s) => server[s].loop = "backup" /\ server'[s].loop = "listenToc"
         /\ HearToc(s) => server[s].loop = "listenToc" /\ server'[s].loop = "backup"
         /\ HearOfBackup(s) \/ LeaveOldPort(s) \/ ReceiveBackup(s) \/ ReceiveTic(s) =>
              server'[s].loop = server[s].loop
         /\ ~HearOfBackup(s) /\ ~ReceiveBackup(s) => server'[s].backupServers = server[s].backupServers
<1>1. PICK me \in ServerType : me = server[s]
  <2>1. server[s] \in ServerType
    BY DEF TypeOK
  <2> QED BY <2>1
<1>is. ASSUME NEW new, Set(s, new) PROVE server'[s] = new
  BY <1>is, SetIs
<1>2. ASSUME Register(s)
      PROVE  server[s].loop = "off" /\ server'[s].loop = "register" /\ server'[s].electionStarted = server[s].electionStarted
             /\ server'[s].backupServers = server[s].backupServers
  <2>1. PICK new : new = [me EXCEPT !.loop = "register"]
    OBVIOUS
  <2>2. Set(s, new) /\ me.loop = "off"
    BY <1>1, <1>2, <2>1 DEF Register
  <2>3. server'[s] = new
    BY <1>is, <2>2
  <2> QED BY <1>1, <2>1, <2>2, <2>3 DEF ServerType
<1>3. ASSUME HearNoMore(s)
      PROVE  server[s].loop = "register" /\ server'[s].loop = "backup" /\ server'[s].electionStarted = server[s].electionStarted
             /\ server'[s].backupServers = server[s].backupServers
  <2>1. PICK new : new = [me EXCEPT !.loop = "backup"]
    OBVIOUS
  <2>2. Set(s, new) /\ me.loop = "register"
    BY <1>1, <1>3, <2>1 DEF HearNoMore
  <2>3. server'[s] = new
    BY <1>is, <2>2
  <2> QED BY <1>1, <2>1, <2>2, <2>3 DEF ServerType
<1>4. ASSUME SendTic(s)
      PROVE  server[s].loop = "backup" /\ server'[s].loop = "listenToc" /\ server'[s].electionStarted = server[s].electionStarted
             /\ server'[s].backupServers = server[s].backupServers
  <2>1. PICK new : new = [me EXCEPT !.loop = "listenToc"]
    OBVIOUS
  <2>2. Set(s, new) /\ me.loop = "backup"
    BY <1>1, <1>4, <2>1 DEF SendTic
  <2>3. server'[s] = new
    BY <1>is, <2>2
  <2> QED BY <1>1, <2>1, <2>2, <2>3 DEF ServerType
<1>5. ASSUME HearToc(s)
      PROVE  server[s].loop = "listenToc" /\ server'[s].loop = "backup" /\ server'[s].electionStarted = server[s].electionStarted
             /\ server'[s].backupServers = server[s].backupServers
  <2>1. PICK new : new = [me EXCEPT !.loop = "backup"]
    OBVIOUS
  <2>2. Set(s, new) /\ me.loop = "listenToc"
    BY <1>1, <1>5, <2>1 DEF HearToc
  <2>3. server'[s] = new
    BY <1>is, <2>2
  <2> QED BY <1>1, <2>1, <2>2, <2>3 DEF ServerType
<1>6. ASSUME LeaveOldPort(s)
      PROVE  server'[s].loop = server[s].loop /\ server'[s].electionStarted = server[s].electionStarted
             /\ server'[s].backupServers = server[s].backupServers
  <2>1. PICK new : new = [me EXCEPT !.closing = FALSE]
    OBVIOUS
  <2>2. Set(s, new)
    BY <1>1, <1>6, <2>1 DEF LeaveOldPort
  <2>3. server'[s] = new
    BY <1>is, <2>2
  <2> QED BY <1>1, <2>1, <2>2, <2>3 DEF ServerType
<1>7. ASSUME ReceiveTic(s)
      PROVE  server'[s].loop = server[s].loop /\ server'[s].electionStarted = server[s].electionStarted
             /\ server'[s].backupServers = server[s].backupServers
  <2>1. PICK new : new = [me EXCEPT !.closing = FALSE]
    OBVIOUS
  <2>2. Set(s, new)
    BY <1>1, <1>7, <2>1 DEF ReceiveTic, Back
  <2>3. server'[s] = new
    BY <1>is, <2>2
  <2> QED BY <1>1, <2>1, <2>2, <2>3 DEF ServerType
<1>8. ASSUME HearOfBackup(s)
      PROVE  server'[s].loop = server[s].loop /\ server'[s].electionStarted = server[s].electionStarted
  <2>1. PICK list, new : new = [me EXCEPT !.backupServers = list] /\ (Set(s, me) \/ Set(s, new))
    BY <1>1, <1>8 DEF HearOfBackup
  <2>2. server'[s] = me \/ server'[s] = new
    BY <1>is, <2>1
  <2> QED BY <1>1, <2>1, <2>2 DEF ServerType
<1>9. ASSUME ReceiveBackup(s)
      PROVE  server'[s].loop = server[s].loop /\ server'[s].electionStarted = server[s].electionStarted
  <2>1. PICK list, new : new = [[me EXCEPT !.closing = FALSE] EXCEPT !.backupServers = list] /\ Set(s, new)
    BY <1>1, <1>9 DEF ReceiveBackup, Back
  <2>2. server'[s] = new
    BY <1>is, <2>1
  <2> QED BY <1>1, <2>1, <2>2 DEF ServerType
<1> QED BY <1>2, <1>3, <1>4, <1>5, <1>6, <1>7, <1>8, <1>9 DEF Peaceful

LEMMA PeacefulAnswers ==
  ASSUME TypeOK, NEW s \in Servers, Peaceful(s), NEW u \in Servers
  PROVE  /\ u # s \/ ~(HearOfBackup(s) \/ HearToc(s)) =>
              /\ answers[u] # <<>> => answers'[u] # <<>>
              /\ \A v : Offered(u, v) => Offered(u, v)'
         /\ ReceiveTic(s) /\ u = Head(inbox[s]).from /\ Alive(u) => answers'[u] # <<>>
<1>1. ASSUME ReceiveTic(s)
      PROVE  /\ answers[u] # <<>> => answers'[u] # <<>>
             /\ \A v : Offered(u, v) => Offered(u, v)'
             /\ u = Head(inbox[s]).from /\ Alive(u) => answers'[u] # <<>>
  <2>1. PICK t \in Servers : t = Head(inbox[s]).from
    BY <1>1, HeadTyped DEF ReceiveTic, Receives, RequestType
  <2>2. PICK what \in Seq(Servers \cup {Nobody}) : what = <<Nobody>> /\ what # <<>>
    <3>1. <<Nobody>> \in Seq(Servers \cup {Nobody}) /\ <<Nobody>> # <<>>
      OBVIOUS
    <3> QED BY <3>1
  <2>3. ReplyTo(t, what)
    BY <1>1, <2>1, <2>2 DEF ReceiveTic
  <2> QED BY <2>1, <2>2, <2>3, RepliesStay, ZenonT(60)
<1>2. ASSUME HearOfBackup(s) \/ HearToc(s), u # s
      PROVE  answers'[u] = answers[u]
  BY <1>2 DEF HearOfBackup, HearToc, TypeOK
<1>3. ASSUME Register(s) \/ HearNoMore(s) \/ SendTic(s) \/ LeaveOldPort(s) \/ ReceiveBackup(s)
      PROVE  answers'[u] = answers[u]
  BY <1>3 DEF Register, HearNoMore, SendTic, LeaveOldPort, ReceiveBackup
<1>4. answers'[u] = answers[u] => /\ answers[u] # <<>> => answers'[u] # <<>>
                                  /\ \A v : Offered(u, v) => Offered(u, v)'
  BY DEF Offered
<1>5. \/ ReceiveTic(s)
      \/ (HearOfBackup(s) \/ HearToc(s))
      \/ (Register(s) \/ HearNoMore(s) \/ SendTic(s) \/ LeaveOldPort(s) \/ ReceiveBackup(s))
  BY DEF Peaceful
<1> QED BY <1>1, <1>2, <1>3, <1>4, <1>5

LEMMA BackupLearnt ==
  ASSUME ElectionAssumption, TypeOK, NEW s \in Servers, HearOfBackup(s) \/ ReceiveBackup(s)
  PROVE  /\ \A v : v \in Known(s) => (v \in Known(s))'
         /\ \A x \in Servers : ReceiveBackup(s) /\ x = Head(inbox[s]).from => (x \in Known(s))'
         /\ \A v \in Servers : HearOfBackup(s) /\ Offered(s, v) => (v \in Known(s))' \/ Offered(s, v)'
<1>0. PICK me \in ServerType : me = server[s]
  <2>1. server[s] \in ServerType
    BY DEF TypeOK
  <2> QED BY <2>1
<1>q. PICK q \in Seq(Servers) : q = me.backupServers
  BY DEF ServerType
<1>1. ASSUME NEW x \in Servers, server'[s].backupServers = Append(q, x)
      PROVE  (\A v : v \in Known(s) => (v \in Known(s))') /\ (x \in Known(s))'
  <2>1. \A v : In(v, Append(q, x)) <=> v = x \/ In(v, q)
    BY InAppend
  <2> QED BY <1>0, <1>q, <1>1, <2>1, Lists, ListsNext
<1>2. ASSUME NEW x \in Servers, ReceiveBackup(s), x = Head(inbox[s]).from
      PROVE  (\A v : v \in Known(s) => (v \in Known(s))') /\ (x \in Known(s))'
  <2>1. PICK list : list = Append(q, x)
    OBVIOUS
  <2>2. PICK new : new = [[me EXCEPT !.closing = FALSE] EXCEPT !.backupServers = list]
    OBVIOUS
  <2>3. Set(s, new)
    BY <1>0, <1>q, <1>2, <2>1, <2>2 DEF ReceiveBackup, Back
  <2>4. server'[s] = new /\ new.backupServers = list
    BY <2>2, <2>3, SetIs DEF ServerType
  <2> QED BY <1>1, <2>1, <2>4
<1>from. ReceiveBackup(s) => \E x \in Servers : x = Head(inbox[s]).from
  BY HeadTyped DEF ReceiveBackup, Receives, RequestType
<1>3. ASSUME HearOfBackup(s)
      PROVE  /\ \A v : v \in Known(s) => (v \in Known(s))'
             /\ \A v \in Servers : Offered(s, v) => (v \in Known(s))' \/ Offered(s, v)'
  <2>1. answers[s] # <<>> /\ answers[s] \in Seq(Servers \cup {Nobody}) /\ answers'[s] = Tail(answers[s])
    BY <1>3 DEF HearOfBackup, TypeOK
  <2>2. PICK x \in Servers \cup {Nobody} : x = Head(answers[s])
    BY <2>1, InTail
  <2>3. \A v : In(v, answers[s]) <=> v = x \/ In(v, Tail(answers[s]))
    BY <2>1, <2>2, InTail
  <2>4. \A v : Offered(s, v) => v = x \/ Offered(s, v)'
    BY <2>1, <2>3, Lists, ListsNext
  <2>5. CASE x = Nobody
    <3>1. server'[s] = server[s]
      BY <1>3, <2>2, <2>5, SetIs DEF HearOfBackup
    <3>2. \A v : v \in Known(s) => (v \in Known(s))'
      BY <3>1, Lists, ListsNext
    <3> QED BY <2>4, <2>5, <3>2, ElectionAssumption DEF ElectionAssumption
  <2>6. CASE x # Nobody
    <3>1. PICK list : list = Append(q, x)
      OBVIOUS
    <3>2. PICK new : new = [me EXCEPT !.backupServers = list]
      OBVIOUS
    <3>3. Set(s, new)
      BY <1>0, <1>q, <1>3, <2>2, <2>6, <3>1, <3>2 DEF HearOfBackup
    <3>4. server'[s].backupServers = list
      BY <3>2, <3>3, SetIs DEF ServerType
    <3>5. (x \in Known(s))' /\ \A v : v \in Known(s) => (v \in Known(s))'
      BY <1>1, <2>6, <3>1, <3>4
    <3> QED BY <2>4, <3>5
  <2> QED BY <2>5, <2>6
<1> QED BY <1>2, <1>3, <1>from

\* Who reads a datagram of a type has handled it as one of that type.
LEMMA ReadAs ==
  ASSUME NEW s, Receive(s)
  PROVE  /\ Head(inbox[s]).type = "ALIVE" => ReceiveAlive(s)
         /\ Head(inbox[s]).type = "BACKUP" => ReceiveBackup(s)
         /\ Head(inbox[s]).type = "TIC" => ReceiveTic(s)
         /\ server[s].loop \in {"backup", "primary"}
BY DEF Receive, Receives, ReceiveAlive, ReceiveBackup, ReceiveTic, ReceiveElection, ReceiveCoordinator

LEMMA PeacefulHears ==
  ASSUME ElectionAssumption, TypeOK, NEW s \in Servers, Peaceful(s), NEW u \in Servers, NEW v \in Servers, Hears(u, v)
  PROVE  Hears(u, v)'
<1>step. Register(s) \/ LoopStep(s)
  BY DEF Peaceful, LoopStep, Receive
<1>1. u # s => server'[u] = server[u]
  BY <1>step, LoopServer
<1>2. CASE v \in Known(u)
  <2>1. CASE HearOfBackup(s) \/ ReceiveBackup(s)
    <3>1. (v \in Known(s)) => (v \in Known(s))'
      BY <2>1, BackupLearnt
    <3>2. u # s => Known(u)' = Known(u)
      BY <1>1, SameKnown
    <3> QED BY <1>2, <3>1, <3>2 DEF Hears
  <2>2. CASE ~HearOfBackup(s) /\ ~ReceiveBackup(s)
    <3>1. server'[u].backupServers = server[u].backupServers
      BY <1>1, <2>2, PeacefulServer
    <3> QED BY <1>2, <3>1, SameKnown DEF Hears
  <2> QED BY <2>1, <2>2
<1>3. CASE Sent(u, "BACKUP", v)
  <2>1. CASE \A x : x.type = "BACKUP" /\ x.from = v => Stays(u, x)
    <3>1. Sent(u, "BACKUP", v)'
      BY <1>3, <2>1, SentStays
    <3> QED BY <3>1 DEF Hears
  <2>2. CASE ~\A x : x.type = "BACKUP" /\ x.from = v => Stays(u, x)
    <3>1. PICK x : x.type = "BACKUP" /\ x.from = v /\ ~Stays(u, x)
      BY <2>2
    <3>2. u = s /\ x = Head(inbox[s]) /\ Receive(s)
      BY <1>step, <3>1, LoopStays
    <3>3. ReceiveBackup(s) /\ v = Head(inbox[s]).from
      BY <3>1, <3>2, ReadAs
    <3>4. (v \in Known(s))'
      BY <3>3, BackupLearnt
    <3> QED BY <3>2, <3>4 DEF Hears
  <2> QED BY <2>1, <2>2
<1>4. CASE Registering(u) /\ Offered(u, v)
  <2>1. CASE u # s
    <3>1. Registering(u)'
      BY <1>1, <1>4, <2>1 DEF Registering
    <3>2. Offered(u, v)'
      BY <1>4, <2>1, PeacefulAnswers
    <3> QED BY <3>1, <3>2 DEF Hears
  <2>2. CASE u = s
    <3>1. ~HearToc(s) /\ ~SendTic(s)
      BY <1>4, <2>2 DEF Registering, HearToc, SendTic
    <3>2. ~HearNoMore(s)
      BY <1>4, <2>2 DEF Offered, HearNoMore
    <3>3. Registering(s)'
      BY <1>4, <2>2, <3>1, <3>2, PeacefulServer DEF Registering, Peaceful
    <3>4. (v \in Known(s))' \/ Offered(s, v)'
      <4>1. CASE HearOfBackup(s)
        BY <1>4, <2>2, <4>1, BackupLearnt
      <4>2. CASE ~HearOfBackup(s)
        BY <1>4, <2>2, <3>1, <4>2, PeacefulAnswers
      <4> QED BY <4>1, <4>2
    <3> QED BY <2>2, <3>3, <3>4 DEF Hears
  <2> QED BY <2>1, <2>2
<1> QED BY <1>2, <1>3, <1>4 DEF Hears

\* Nothing else happens: with replies in time TIC is answered.
LEMMA ReignPeaceful ==
  ASSUME TypeOK, ~Late, Reign, NEW s \in Servers, Register(s) \/ LoopStep(s)
  PROVE  Peaceful(s) \/ ReceiveAlive(s)
<1>1. ~HearNoToc(s)
  <2> SUFFICES ASSUME HearNoToc(s) PROVE FALSE
    OBVIOUS
  <2>1. server[s].loop = "listenToc" /\ answers[s] = <<>> /\ GivesUp(s, "TIC")
    BY DEF HearNoToc
  <2>2. s # First
    BY <2>1 DEF Reign, Peace
  <2>3. Sent(First, "TIC", s)
    BY <2>1, <2>2 DEF Reign, Waits
  <2> QED BY <2>1, <2>3, ElectionAssumption DEF GivesUp, Sent, ElectionAssumption
<1>2. ~LeaveBackupLoop(s)
  BY DEF LeaveBackupLoop, Reign, Peace
<1>3. ASSUME NEW type, Receives(s, type) PROVE Listed(Head(inbox[s]))
  <2>1. 1 \in DOMAIN inbox[s] /\ inbox[s][1] = Head(inbox[s])
    BY <1>3, InTail DEF Receives, TypeOK
  <2> QED BY <2>1 DEF Reign, Peace
<1>4. ~ReceiveElection(s) /\ ~ReceiveCoordinator(s)
  BY <1>3 DEF ReceiveElection, ReceiveCoordinator, Listed, Receives
<1> QED BY <1>1, <1>2, <1>4 DEF LoopStep, Receive, Peaceful

LEMMA PeacefulPeace ==
  ASSUME ElectionAssumption, TypeOK, TypeOK', Peace, NEW s \in Servers, Peaceful(s), ~ReceiveAlive(s)
  PROVE  Peace'
<1>step. Register(s) \/ LoopStep(s)
  BY DEF Peaceful, LoopStep, Receive
<1>first. First \in Servers
  BY DEF ElectionAssumption
<1>1. primaryPort' = primaryPort /\ \A t \in Servers : t # s => server'[t] = server[t]
  BY <1>step, LoopServer
<1>2. server'[s].loop = "primary" <=> server[s].loop = "primary"
  BY PeacefulServer DEF Peaceful
<1>3. \A t \in Servers : \A e \in Threads : election'[t][e].pc = "none"
  <2>1. CASE ReceiveBackup(s)
    <3>1. PICK list \in Seq(Servers) : election' = Torn(s, list)
      <4>1. Head(inbox[s]) \in RequestType /\ server[s].backupServers \in Seq(Servers)
        BY <2>1, HeadTyped DEF ReceiveBackup, Receives, TypeOK, ServerType
      <4>2. Append(server[s].backupServers, Head(inbox[s]).from) \in Seq(Servers)
        BY <4>1 DEF RequestType
      <4> QED BY <2>1, <4>2 DEF ReceiveBackup
    <3>2. ASSUME NEW t \in Servers, NEW e \in Threads PROVE Torn(s, list)[t][e] = election[t][e]
      <4>1. election[t][e].pc = "none"
        BY DEF Peace
      <4>2. election[t] = [f \in Threads |-> election[t][f]]
        BY DEF TypeOK
      <4> QED BY <4>1, <4>2 DEF Torn, Walking, TypeOK
    <3> QED BY <3>1, <3>2 DEF Peace
  <2>2. CASE election' = election
    BY <2>2 DEF Peace
  <2> QED BY <2>1, <2>2 DEF Peaceful, Register, HearOfBackup, HearNoMore, SendTic, HearToc, LeaveOldPort, ReceiveTic
<1>4. \A t \in Servers : ~server'[t].electionStarted
  BY <1>1, PeacefulServer DEF Peace
<1>5. \A t \in Servers : server'[t].isPrimary \/ server'[t].loop = "primary" => t = First
  BY <1>1, <1>2, <1>step, LoopServer DEF Peace
<1>6. \A t \in Servers : \A k \in DOMAIN inbox'[t] : Listed(inbox'[t][k])
  <2> SUFFICES ASSUME NEW t \in Servers, NEW k \in DOMAIN inbox'[t] PROVE Listed(inbox'[t][k])
    OBVIOUS
  <2>2. PICK M : Comes(M) /\ \A v, m : <<v, m>> \in M => m.type \in {"ALIVE", "TIC"}
    BY <1>step, LoopMail DEF Sends
  <2>3. CASE <<t, inbox'[t][k]>> \in M
    BY <2>2, <2>3 DEF Listed
  <2>4. CASE <<t, inbox'[t][k]>> \notin M
    <3>1. PICK l \in DOMAIN inbox[t] : inbox[t][l] = inbox'[t][k]
      BY <2>2, <2>4, CameWaiting
    <3> QED BY <3>1 DEF Peace
  <2> QED BY <2>3, <2>4
<1> QED BY <1>1, <1>2, <1>3, <1>4, <1>5, <1>6, <1>first DEF Peace

LEMMA PeacefulReign ==
  ASSUME ElectionAssumption, TypeOK, TypeOK', Registration, Led(First), ~Late, Reign,
         NEW s \in Servers, Peaceful(s), ~ReceiveAlive(s)
  PROVE  Reign'
<1>step. Register(s) \/ LoopStep(s)
  BY DEF Peaceful, LoopStep, Receive
<1>first. First \in Servers /\ primaryPort = First
  BY DEF ElectionAssumption, Reign, Peace
<1>others. \A t \in Servers : t # s => server'[t] = server[t]
  BY <1>step, LoopServer
<1>1. Peace'
  BY PeacefulPeace DEF Reign
<1>2. server'[First].backupServers = server[First].backupServers
  BY <1>first, <1>step, HolderKnows
<1>3. Known(First)' = Known(First)
  BY <1>2, SameKnown
<1>serves. s = First => server[s].loop = "primary"
  BY DEF Reign, Peace
<1>4. ASSUME NEW type, NEW u \in Servers, Sent(First, type, u), type \in {"ALIVE", "TIC"}
      PROVE  Sent(First, type, u)' \/ (type = "TIC" /\ s = First /\ ReceiveTic(s) /\ Head(inbox[s]).from = u)
  <2>1. CASE \A x : x.type = type /\ x.from = u => Stays(First, x)
    BY <1>4, <2>1, SentStays
  <2>2. CASE ~\A x : x.type = type /\ x.from = u => Stays(First, x)
    <3>1. PICK x : x.type = type /\ x.from = u /\ ~Stays(First, x)
      BY <2>2
    <3>2. First = s /\ x = Head(inbox[s]) /\ Receive(s)
      BY <1>first, <1>step, <3>1, LoopStays
    <3> QED BY <1>4, <3>1, <3>2, ReadAs
  <2> QED BY <2>1, <2>2
<1>5. ASSUME NEW u \in Servers, u # First PROVE Waits(u)'
  <2> SUFFICES ASSUME server'[u].loop = "listenToc"
               PROVE  Sent(First, "TIC", u)' \/ answers'[u] # <<>>
    BY DEF Waits
  <2>1. CASE SendTic(s) /\ u = s
    <3>1. PICK m \in RequestType : m = Request("TIC", s) /\ m.type = "TIC" /\ m.from = s
      BY RequestTyped DEF Request
    <3>2. SendToPrimary(m)
      BY <2>1, <3>1 DEF SendTic
    <3>3. Sent(First, m.type, m.from)'
      BY <1>first, <3>2, PrimaryHears
    <3>4. Sent(First, "TIC", u)'
      BY <2>1, <3>1, <3>3 DEF Sent
    <3> QED BY <3>4
  <2>2. CASE ~(SendTic(s) /\ u = s)
    <3>1. server[u].loop = "listenToc" /\ (u = s => ~HearOfBackup(s) /\ ~HearToc(s))
      <4>1. CASE u = s
        <5>1. ~Register(s) /\ ~HearNoMore(s) /\ ~HearToc(s) /\ ~SendTic(s)
          BY <2>2, <4>1, PeacefulServer
        <5>2. server[s].loop = "listenToc"
          BY <4>1, <5>1, PeacefulServer DEF Peaceful
        <5>3. ~HearOfBackup(s)
          BY <5>2 DEF HearOfBackup
        <5> QED BY <4>1, <5>1, <5>2, <5>3
      <4> QED BY <1>others, <4>1
    <3>2. CASE answers[u] # <<>>
      <4>1. u # s \/ ~(HearOfBackup(s) \/ HearToc(s))
        BY <3>1
      <4> QED BY <3>2, <4>1, PeacefulAnswers
    <3>3. CASE Sent(First, "TIC", u)
      <4>1. Sent(First, "TIC", u)' \/ (ReceiveTic(s) /\ u = Head(inbox[s]).from)
        BY <1>4, <3>3
      <4>2. Alive(u)
        BY <3>1 DEF Alive
      <4> QED BY <4>1, <4>2, PeacefulAnswers
    <3> QED BY <1>5, <3>1, <3>2, <3>3 DEF Reign, Waits
  <2> QED BY <2>1, <2>2
<1>6. ASSUME NEW u \in Servers, u # First PROVE Enrolled(u)'
  <2> SUFFICES ASSUME server'[u].loop \in {"register", "backup", "listenToc"}, u \notin Known(First)
               PROVE  server'[u].loop = "register" /\ Sent(First, "ALIVE", u)'
    BY <1>3 DEF Enrolled
  <2>1. CASE Register(s) /\ u = s
    <3>1. PICK m \in RequestType : m = Request("ALIVE", s) /\ m.type = "ALIVE" /\ m.from = s
      BY RequestTyped DEF Request
    <3>2. SendToPrimary(m)
      BY <2>1, <3>1 DEF Register
    <3>3. Sent(First, m.type, m.from)'
      BY <1>first, <3>2, PrimaryHears
    <3>4. Sent(First, "ALIVE", u)'
      BY <2>1, <3>1, <3>3 DEF Sent
    <3> QED BY <2>1, <3>4, PeacefulServer
  <2>2. CASE ~(Register(s) /\ u = s)
    <3>1. CASE u # s \/ server'[u].loop = server[u].loop
      <4>1. server'[u].loop = server[u].loop
        BY <1>others, <3>1
      <4>2. server[u].loop = "register" /\ Sent(First, "ALIVE", u)
        BY <1>6, <4>1 DEF Reign, Enrolled
      <4> QED BY <1>4, <4>1, <4>2
    <3>2. CASE u = s /\ server'[u].loop # server[u].loop
      <4>1. HearNoMore(s) \/ SendTic(s) \/ HearToc(s)
        BY <2>2, <3>2, PeacefulServer DEF Peaceful
      <4>2. CASE HearNoMore(s)
        <5>1. server[s].loop = "register" /\ GivesUp(s, "ALIVE")
          BY <4>2 DEF HearNoMore
        <5>2. Sent(First, "ALIVE", s)
          BY <1>6, <3>2, <5>1 DEF Reign, Enrolled
        <5> QED BY <1>first, <5>1, <5>2 DEF GivesUp, Sent
      <4>3. CASE SendTic(s) \/ HearToc(s)
        <5>1. server[s].loop \in {"backup", "listenToc"}
          BY <4>3, PeacefulServer
        <5> QED BY <1>6, <3>2, <5>1 DEF Reign, Enrolled
      <4> QED BY <4>1, <4>2, <4>3
    <3> QED BY <3>1, <3>2
  <2> QED BY <2>1, <2>2
<1>7. ASSUME NEW u \in Known(First), NEW v \in Known(First) PROVE Meets(u, v)'
  <2> SUFFICES ASSUME u # v, Alive(u)' PROVE Hears(u, v)'
    BY DEF Meets
  <2>1. u \in Servers /\ v \in Servers
    <3>1. server[First].backupServers \in Seq(Servers)
      BY <1>first DEF TypeOK, ServerType
    <3> QED BY <3>1, ListedServer DEF Known
  <2>2. Alive(u)
    <3>1. CASE Register(s) /\ u = s
      <4>1. server[s].loop = "off" /\ u \in Servers
        BY <2>1, <3>1 DEF Register
      <4>2. ~Hears(First, u)
        BY <1>first, <3>1, <4>1 DEF Registration, NewcomersApart, Newcomer
      <4> QED BY <4>2 DEF Hears
    <3>2. CASE ~(Register(s) /\ u = s)
      <4>1. server'[u].loop = server[u].loop \/ server[u].loop \notin {"off", "dead"}
        BY <1>others, <2>1, <3>2, PeacefulServer DEF Peaceful
      <4> QED BY <4>1 DEF Alive
    <3> QED BY <3>1, <3>2
  <2>3. Hears(u, v)
    BY <2>2 DEF Reign, Meets
  <2> QED BY <2>1, <2>3, PeacefulHears
<1>8. (\A u, v \in Known(First) : Meets(u, v))'
  BY <1>3, <1>7
<1> QED BY <1>1, <1>5, <1>6, <1>8 DEF Reign

LEMMA AliveReign ==
  ASSUME ElectionAssumption, TypeOK, TypeOK', Registration, Reign, NEW s \in Servers, ReceiveAlive(s)
  PROVE  Reign'
<1>0. PICK new \in Servers : AliveEffect(s, new)
  BY AliveHeard
<1>first. s = First /\ primaryPort = First /\ primaryPort' = First
  BY <1>0 DEF AliveEffect, Reign, Peace, ReceiveAlive
<1>idle. \A t \in Servers : \A e \in Threads : election'[t][e].pc = "none"
  <2>1. \A t \in Servers : \A e \in Threads : election'[t][e].pc = election[t][e].pc
    BY AliveThreads
  <2> QED BY <2>1 DEF Reign, Peace
<1>step. LoopStep(s)
  BY DEF LoopStep, Receive
<1>head. Head(inbox[s]).type = "ALIVE" /\ Head(inbox[s]).from = new
  BY <1>0 DEF ReceiveAlive, Receives, AliveEffect
<1>1. \A t \in Servers : /\ server'[t].loop = server[t].loop /\ (t # s => server'[t] = server[t])
                         /\ server'[t].isPrimary = server[t].isPrimary
                         /\ server'[t].electionStarted = server[t].electionStarted
  BY <1>0 DEF AliveEffect
<1>2. \A u : (u \in Known(First))' <=> u = new \/ u \in Known(First)
  BY <1>0, <1>first DEF AliveEffect
<1>3. ASSUME NEW t \in Servers, NEW type, NEW u, Sent(t, type, u), type # "ALIVE" \/ u # new
      PROVE  Sent(t, type, u)'
  <2>1. \A x : x.type = type /\ x.from = u => Stays(t, x)
    BY <1>3, <1>step, <1>head, LoopStays
  <2> QED BY <1>3, <2>1, SentStays
<1>4. \A t \in Servers : \A u : Offered(t, u) => Offered(t, u)'
  BY <1>0 DEF AliveEffect
<1>5. Peace'
  <2>1. \A t \in Servers : \A k \in DOMAIN inbox'[t] : Listed(inbox'[t][k])
    <3> SUFFICES ASSUME NEW t \in Servers, NEW k \in DOMAIN inbox'[t] PROVE Listed(inbox'[t][k])
      OBVIOUS
    <3>1. Comes(Told(s))
      BY ComesTold
    <3>2. CASE <<t, inbox'[t][k]>> \in Told(s)
      <4>1. PICK x : inbox'[t][k] = Request("BACKUP", x)
        BY <3>2 DEF Told
      <4> QED BY <4>1 DEF Listed, Request
    <3>3. CASE <<t, inbox'[t][k]>> \notin Told(s)
      <4>1. PICK l \in DOMAIN inbox[t] : inbox[t][l] = inbox'[t][k]
        BY <3>1, <3>3, CameWaiting
      <4> QED BY <4>1 DEF Reign, Peace
    <3> QED BY <3>2, <3>3
  <2> QED BY <1>first, <1>idle, <1>1, <2>1 DEF Reign, Peace
<1>6. ASSUME NEW u \in Servers, u # First PROVE Waits(u)'
  <2> SUFFICES ASSUME server'[u].loop = "listenToc", answers'[u] = <<>> PROVE Sent(First, "TIC", u)'
    BY DEF Waits
  <2>1. answers[u] = <<>>
    <3> SUFFICES ASSUME answers[u] # <<>> PROVE FALSE
      OBVIOUS
    <3>1. 1 \in DOMAIN answers[u]
      BY InTail DEF TypeOK
    <3>2. Offered(u, answers[u][1])
      BY <3>1 DEF Offered
    <3>3. PICK v : Offered(u, v)
      BY <3>2
    <3>4. Offered(u, v)'
      BY <1>4, <3>3
    <3>5. DOMAIN answers'[u] = {}
      OBVIOUS
    <3> QED BY <3>4, <3>5 DEF Offered
  <2>2. Sent(First, "TIC", u)
    BY <1>1, <1>6, <2>1 DEF Reign, Waits
  <2> QED BY <1>3, <1>first, <2>2
<1>7. ASSUME NEW u \in Servers, u # First PROVE Enrolled(u)'
  <2>1. CASE u = new
    BY <1>2, <2>1 DEF Enrolled
  <2>2. CASE u # new
    BY <1>1, <1>2, <1>3, <1>7, <1>first, <2>2 DEF Enrolled, Reign
  <2> QED BY <2>1, <2>2
<1>new. new \notin Known(First) /\ First \notin Known(First) /\ new # First
  BY <1>0, <1>first DEF AliveEffect, Registration, NewcomersApart, NotSelf, Hears
<1>8. ASSUME NEW u \in Servers, NEW v \in Servers, u # v, Alive(u)',
             u = new \/ u \in Known(First), v = new \/ v \in Known(First)
      PROVE  Hears(u, v)'
  <2>1. Alive(u) /\ u # First /\ server'[u] = server[u]
    BY <1>1, <1>8, <1>first, <1>new DEF Alive
  <2>2. CASE u # new /\ v # new
    <3>1. Hears(u, v)
      BY <1>8, <2>1, <2>2 DEF Reign, Meets
    <3>2. Known(u)' = Known(u)
      BY <2>1, SameKnown
    <3>3. Sent(u, "BACKUP", v) => Sent(u, "BACKUP", v)'
      BY <1>3
    <3>4. Registering(u) => Registering(u)'
      BY <2>1 DEF Registering
    <3> QED BY <1>4, <3>1, <3>2, <3>3, <3>4 DEF Hears
  <2>3. CASE u = new
    <3>1. server[u].loop = "register"
      <4>1. server[u].loop \in Loops
        BY DEF TypeOK, ServerType
      <4>2. server[u].loop # "primary"
        BY <2>1 DEF Reign, Peace
      <4> QED BY <1>new, <2>1, <2>3, <4>1, <4>2 DEF Loops, Alive, Reign, Enrolled
    <3>2. Registering(u)'
      BY <2>1, <3>1 DEF Registering
    <3>3. Offered(u, v)'
      BY <1>0, <1>8, <1>first, <2>1, <2>3 DEF AliveEffect
    <3> QED BY <3>2, <3>3 DEF Hears
  <2>4. CASE u # new /\ v = new
    <3>1. PortOpen(u) /\ u \in Known(s) /\ u # s
      BY <1>8, <1>first, <2>1, <2>4 DEF PortOpen
    <3>2. PICK m \in RequestType : m = Request("BACKUP", new) /\ m.type = "BACKUP" /\ m.from = new
      BY RequestTyped DEF Request
    <3>3. inbox'[u] = Append(inbox[u], m) /\ inbox[u] \in Seq(RequestType)
      BY <1>head, <3>1, <3>2 DEF ReceiveAlive, TypeOK
    <3>4. In(m, inbox'[u])
      BY <3>3, InAppend
    <3>5. Sent(u, "BACKUP", v)'
      BY <2>4, <3>2, <3>4 DEF In, Sent
    <3> QED BY <3>5 DEF Hears
  <2> QED BY <2>2, <2>3, <2>4
<1>9. (\A u, v \in Known(First) : Meets(u, v))'
  <2> SUFFICES ASSUME NEW u, NEW v, (u \in Known(First))', (v \in Known(First))', u # v, Alive(u)'
               PROVE  Hears(u, v)'
    BY DEF Meets
  <2>1. u \in Servers /\ v \in Servers
    <3>1. server'[First].backupServers \in Seq(Servers)
      BY <1>first DEF TypeOK, ServerType
    <3> QED BY <3>1, ListedServer DEF Known
  <2> QED BY <1>2, <1>8, <2>1
<1> QED BY <1>5, <1>6, <1>7, <1>9 DEF Reign

LEMMA CrashReign ==
  ASSUME ElectionAssumption, TypeOK, TypeOK', Reign, NEW s \in Servers, s # First, Die(s)
  PROVE  Reign'
<1>1. /\ server'[s].loop = "dead" /\ ~server'[s].isPrimary /\ ~server'[s].electionStarted
      /\ \A t \in Servers : t # s => server'[t] = server[t] /\ inbox'[t] = inbox[t] /\ answers'[t] = answers[t]
      /\ inbox'[s] = <<>>
      /\ primaryPort' = IF primaryPort = s THEN Nobody ELSE primaryPort
  BY DEF Die, Set, TypeOK, NewServer
<1>first. First \in Servers
  BY DEF ElectionAssumption
<1>2. \A t \in Servers : \A e \in Threads : election'[t][e].pc = "none"
  <2>1. \A e \in Threads : election'[s][e].pc = "none"
    BY DEF Die, TypeOK, NewThread
  <2>2. \A t \in Servers : t # s => election'[t] = election[t]
    BY DEF Die, TypeOK
  <2>3. ASSUME NEW t \in Servers, t # s, NEW e \in Threads PROVE election'[t][e].pc = "none"
    <3>1. election[t][e].pc = "none"
      BY DEF Reign, Peace
    <3> QED BY <2>2, <2>3, <3>1
  <2> QED BY <2>1, <2>3
<1>3. \A t \in Servers : t # s => Known(t)' = Known(t)
  BY <1>1, SameKnown
<1>4. \A t \in Servers : \A type, u : t # s => (Sent(t, type, u) => Sent(t, type, u)')
  BY <1>1 DEF Sent
<1>5. \A t \in Servers : \A k \in DOMAIN inbox'[t] : Listed(inbox'[t][k])
  <2>1. DOMAIN inbox'[s] = {}
    BY <1>1
  <2> QED BY <1>1, <2>1 DEF Reign, Peace
<1>6. Peace'
  BY <1>1, <1>2, <1>5, <1>first DEF Reign, Peace
<1>7. \A u \in Servers \ {First} : Waits(u)' /\ Enrolled(u)'
  BY <1>1, <1>3, <1>4, <1>first DEF Reign, Waits, Enrolled
<1>8. ASSUME NEW u \in Known(First), NEW v \in Known(First) PROVE Meets(u, v)'
  <2> SUFFICES ASSUME u # v, Alive(u)' PROVE Hears(u, v)'
    BY DEF Meets
  <2>1. u \in Servers
    <3>1. server[First].backupServers \in Seq(Servers)
      BY <1>first DEF TypeOK, ServerType
    <3> QED BY <3>1, ListedServer DEF Known
  <2>2. u # s /\ server'[u] = server[u] /\ answers'[u] = answers[u]
    BY <1>1, <2>1 DEF Alive
  <2>3. Hears(u, v)
    BY <2>2 DEF Reign, Meets, Alive
  <2>4. Known(u)' = Known(u) /\ (Sent(u, "BACKUP", v) => Sent(u, "BACKUP", v)')
    BY <1>3, <1>4, <2>1, <2>2
  <2>5. Registering(u) /\ Offered(u, v) => (Registering(u) /\ Offered(u, v))'
    BY <2>2 DEF Registering, Offered
  <2> QED BY <2>3, <2>4, <2>5 DEF Hears
<1>9. (\A u, v \in Known(First) : Meets(u, v))'
  BY <1>3, <1>8, <1>first
<1> QED BY <1>6, <1>7, <1>9 DEF Reign

LEMMA ReigningInit == Init => Reigning
<1> SUFFICES ASSUME Init PROVE Reigning
  OBVIOUS
<1> USE InitServers, InitQuiet, ElectionAssumption
<1>first. First \in Servers /\ First \notin Registered /\ Registered \subseteq Servers
  BY DEF ElectionAssumption
<1>1. \A s \in Servers : s # First => server[s].loop \in {"off", "backup"} /\ (server[s].loop = "backup" => s \in Registered)
  OBVIOUS
<1>2. Peace
  <2>1. \A t \in Servers : DOMAIN inbox[t] = {}
    OBVIOUS
  <2> QED BY <1>1, <1>first, <2>1, NewThreadWalk DEF Peace
<1>3. \A u : u \in Known(First) <=> u \in Registered
  BY <1>first
<1>4. \A s \in Servers \ {First} : Waits(s) /\ Enrolled(s)
  BY <1>1, <1>3 DEF Waits, Enrolled
<1>5. \A s, t \in Known(First) : Meets(s, t)
  BY <1>3, <1>first DEF Meets, Hears
<1> QED BY <1>2, <1>4, <1>5, <1>first DEF Reigning, Reign

LEMMA ReigningStep ==
  ASSUME ~Late, AgreementInv, AgreementInv', Reigning, [Next]_vars
  PROVE  Reigning'
<1> USE ElectionAssumption DEF AgreementInv
<1>first. First \in Servers /\ First # Nobody
  BY DEF ElectionAssumption
<1>led. Alive(First) => Reign /\ primaryPort = First /\ Led(First) /\ server[First].loop = "primary"
  BY <1>first DEF Reigning, Reign, Peace, Leading
<1>on. Reign' => Reigning'
  BY DEF Reigning, Reign, Peace
<1>1. ASSUME NEW s \in Servers, Register(s) \/ LoopStep(s) PROVE Reigning'
  <2>1. CASE ~Alive(First)
    <3>1. server[First].loop = "dead"
      BY <2>1 DEF Reigning, Alive
    <3>2. server'[First].loop = "dead"
      BY <1>1, <1>first, <3>1, LoopDead
    <3> QED BY <3>2 DEF Reigning, Alive
  <2>2. CASE Alive(First) /\ ReceiveAlive(s)
    BY <1>led, <1>on, <2>2, AliveReign
  <2>3. CASE Alive(First) /\ ~ReceiveAlive(s)
    <3>1. Peaceful(s)
      BY <1>1, <1>led, <2>3, ReignPeaceful
    <3> QED BY <1>led, <1>on, <2>3, <3>1, PeacefulReign
  <2> QED BY <2>1, <2>2, <2>3
<1>2. ASSUME NEW s \in Servers, Crash(s) PROVE Reigning'
  <2>1. Die(s) /\ server'[s].loop = "dead" /\ \A t \in Servers : t # s => server'[t] = server[t]
    BY <1>2 DEF Crash, Die, Set, TypeOK, NewServer
  <2>2. CASE s = First \/ ~Alive(First)
    <3>1. ~Alive(First) => server[First].loop = "dead"
      BY DEF Reigning, Alive
    <3>2. server'[First].loop = "dead"
      BY <1>first, <2>1, <2>2, <3>1
    <3> QED BY <3>2 DEF Reigning, Alive
  <2>3. CASE s # First /\ Alive(First)
    BY <1>led, <1>on, <2>1, <2>3, CrashReign
  <2> QED BY <2>2, <2>3
<1>3. ASSUME NEW s \in Servers, NEW e \in Threads, ElectionStep(s, e) \/ DieOfTornWalk(s, e) PROVE Reigning'
  <2>1. election[s][e].pc # "none"
    BY <1>3 DEF ElectionStep, BeginElection, SkipSmaller, AskGreater, HearAnswer, HearNoAnswer, BecomeCoordinator,
                ChangePort, BindFails, Announce, HearReply, AnnounceAgain, BecomePrimary, DieOfTornWalk, Walking
  <2>2. Serving(s)
    BY <2>1 DEF Registration, ThreadsServe
  <2>3. ~Alive(First)
    BY <2>1, <1>led DEF Reign, Peace
  <2>4. server[First].loop = "dead" /\ s # First
    BY <2>2, <2>3 DEF Reigning, Alive, Serving
  <2>5. server'[First] = server[First]
    BY <1>3, <1>first, <2>4 DEF ElectionStep, BeginElection, SkipSmaller, AskGreater, HearAnswer, HearNoAnswer,
          BecomeCoordinator, ChangePort, BindFails, Announce, HearReply, AnnounceAgain, BecomePrimary,
          DieOfTornWalk, Die, Set, TypeOK
  <2> QED BY <2>4, <2>5 DEF Reigning, Alive
<1>4. CASE UNCHANGED vars
  BY <1>4 DEF vars, Reigning, Reign, Peace, Waits, Enrolled, Meets, Listed, Hears, Known, Sent, Offered,
              Registering, Alive
<1> QED BY <1>1, <1>2, <1>3, <1>4 DEF Next

\* Of two backups that have registered with the primary that lives, each knows
\* the other or is about to, however their ALIVE, BACKUP and TIC interleave and
\* whoever else dies.
THEOREM BackupsAcquainted == ASSUME ~Late PROVE Spec => []Acquainted
<1>1. AgreementInv /\ Reigning => Acquainted
  <2> SUFFICES ASSUME AgreementInv, Reigning, NEW s \in Servers \ {First}, NEW t \in Servers \ {First},
                      Alive(First), Alive(s), ~Registering(s), Alive(t), ~Registering(t)
               PROVE  AboutToKnow(s, t) <=> s # t
    BY DEF Acquainted
  <2>1. Reign
    BY DEF Reigning
  <2>2. \A u \in {s, t} : u \in Known(First)
    <3> SUFFICES ASSUME NEW u \in {s, t} PROVE u \in Known(First)
      OBVIOUS
    <3>1. server[u].loop \in Loops /\ server[u].loop # "primary"
      BY <2>1 DEF AgreementInv, TypeOK, ServerType, Reign, Peace
    <3>2. server[u].loop \in {"backup", "listenToc"}
      BY <3>1 DEF Loops, Alive, Registering
    <3> QED BY <2>1, <3>2 DEF Reign, Enrolled
  <2>3. s # t => Hears(s, t)
    BY <2>1, <2>2 DEF Reign, Meets
  <2>4. ~Hears(s, s)
    BY DEF AgreementInv, Registration, NotSelf
  <2>5. Sent(s, "BACKUP", t) => \E k \in DOMAIN inbox[s] : inbox[s][k] = Request("BACKUP", t)
    BY <2>1 DEF Sent, Reign, Peace, Listed
  <2>6. AboutToKnow(s, s) => Hears(s, s)
    BY DEF AboutToKnow, Hears, Sent, Request
  <2> QED BY <2>3, <2>4, <2>5, <2>6 DEF AboutToKnow, Hears
<1>2. Init => AgreementInv /\ Reigning
  BY AgreementInit, ReigningInit
<1>3. AgreementInv /\ Reigning /\ [Next]_vars => (AgreementInv /\ Reigning)'
  BY AgreementStep, ReigningStep
<1> QED BY <1>1, <1>2, <1>3, PTL DEF Spec

=============================================================================
