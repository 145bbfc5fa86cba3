--------------------------- MODULE SessionsProofs ----------------------------
(***************************************************************************)
(* Proofs, for any profiles, ports and limit, that the session table keeps *)
(* its type, counts exactly the live threads, and never exceeds the limit; *)
(* that whoever is listed as a follower has a row; that nobody is listed   *)
(* more often than the limit; that what a session is sent never goes back; *)
(* and that a profile with one session at a time is shown everything once. *)
(***************************************************************************)
EXTENDS Sessions, FiniteSetTheorems, SequenceTheorems, TLAPS

\* A row has its type whatever one of its fields is set to, and a name without
\* a row gets none by it.
LEMMA RowUpdate ==
  ASSUME TypeOK, NEW u
  PROVE  /\ \A f : (u \in DOMAIN masterTable => f \in Seq(Profiles)) =>
              [masterTable EXCEPT ![u].followers = f] \in [DOMAIN masterTable -> RowType]
         /\ \A m : (u \in DOMAIN masterTable => m \in Seq(Nat)) =>
              [masterTable EXCEPT ![u].messagesToReceive = m]
                \in [DOMAIN masterTable -> RowType]
<1>1. ASSUME u \notin DOMAIN masterTable
      PROVE  /\ \A f : [masterTable EXCEPT ![u].followers = f] = masterTable
             /\ \A m : [masterTable EXCEPT ![u].messagesToReceive = m] = masterTable
  BY <1>1 DEF TypeOK
<1>2. ASSUME u \in DOMAIN masterTable
      PROVE  /\ \A f \in Seq(Profiles) :
                  [masterTable EXCEPT ![u].followers = f] \in [DOMAIN masterTable -> RowType]
             /\ \A m \in Seq(Nat) :
                  [masterTable EXCEPT ![u].messagesToReceive = m]
                    \in [DOMAIN masterTable -> RowType]
  BY <1>2 DEF TypeOK, RowType
<1> QED
  BY <1>1, <1>2 DEF TypeOK

\* One more notification in a list.
LEMMA NotificationKeepsTypes ==
  ASSUME TypeOK, NEW u \in Profiles, AddNotification(u)
  PROVE  /\ masterTable' \in [DOMAIN masterTable -> RowType]
         /\ DOMAIN masterTable' = DOMAIN masterTable
         /\ posted' \in [Profiles -> Nat]
<1> DEFINE m == Append(masterTable[u].messagesToReceive, posted[u] + 1)
<1>1. posted[u] + 1 \in Nat
  BY DEF TypeOK
<1>2. u \in DOMAIN masterTable => masterTable[u].messagesToReceive \in Seq(Nat)
  BY DEF TypeOK, RowType
<1>3. u \in DOMAIN masterTable => m \in Seq(Nat)
  BY <1>1, <1>2
<1>4. masterTable' = [masterTable EXCEPT ![u].messagesToReceive = m]
  BY DEF AddNotification
<1>5. masterTable' \in [DOMAIN masterTable -> RowType]
  BY <1>3, <1>4, RowUpdate
<1> QED
  BY <1>5 DEF AddNotification, TypeOK

\* A thread with new locals of their types has its type; the others keep theirs.
Consistent(locals) == /\ locals \in ThreadType
                      /\ locals.pc = "notifyFollowers" <=> locals.toNotify # <<>>

LEMMA ThreadUpdate ==
  ASSUME TypeOK, NEW p \in Ports, NEW new, Consistent(new), Becomes(p, new)
  PROVE  /\ thread' \in [Ports -> ThreadType]
         /\ \A q \in Ports : thread'[q].pc = "notifyFollowers" <=> thread'[q].toNotify # <<>>
         /\ thread'[p] = new
         /\ \A q \in Ports \ {p} : thread'[q] = thread[q]
  BY DEF TypeOK, Becomes, Consistent

\* A thread that only goes on from one point of the code to another.
LEMMA Move ==
  ASSUME TypeOK, NEW p \in Ports, thread[p].pc # "notifyFollowers",
         NEW c \in PCs \ {"notifyFollowers"}
  PROVE  /\ Consistent([thread[p] EXCEPT !.pc = c])
         /\ [thread[p] EXCEPT !.pc = c].pc = c
         /\ [thread[p] EXCEPT !.pc = c].profile = thread[p].profile
  BY DEF TypeOK, ThreadType, Consistent

-----------------------------------------------------------------------------
(* The type invariant. SessionInv's other parts say that the rows and names *)
(* a step uses are there.                                                   *)

\* The steps of the server loop keep every variable in its type.
LEMMA LoopKeepsTypes ==
  ASSUME SessionsAssumption, SessionInv, ServerLoop \/ \E u \in Profiles : ReceiveConnect(u)
  PROVE  TypeOK'
<1> USE DEF SessionInv, LoopHoldsRow
<1>1. CASE \E u \in Profiles : ReceiveConnect(u)
  BY <1>1 DEF ReceiveConnect, TypeOK, LoopType
<1>2. CASE InsertRow
  <2>1. NewRow \in RowType
    BY DEF NewRow, RowType
  <2>2. masterTable' \in [DOMAIN masterTable' -> RowType] /\ DOMAIN masterTable' \subseteq Profiles
    BY <1>2, <2>1 DEF InsertRow, TypeOK
  <2> QED
    BY <1>2, <2>2 DEF InsertRow, TypeOK, LoopType
<1>3. CASE SaveNewRow
  BY <1>3 DEF SaveNewRow, TypeOK, LoopType
<1>4. CASE CountSessions
  BY <1>4 DEF CountSessions, TypeOK, LoopType
<1>5. CASE StartSession
  <2>1. nextClientPort \in Ports /\ nextClientPort' \in FirstPort .. LastPort + 1
    BY <1>5 DEF StartSession, TypeOK, Ports, SessionsAssumption
  <2>2. Consistent(NewThread(loop.profile))
    BY <1>5 DEF StartSession, TypeOK, LoopType, NewThread, ThreadType, PCs, Consistent
  <2>4. masterTable' \in [DOMAIN masterTable' -> RowType] /\ DOMAIN masterTable' = DOMAIN masterTable
    BY <1>5, <2>1, ZenonT(60) DEF StartSession, TypeOK, RowType
  <2>5. loop' \in LoopType
    BY <1>5 DEF StartSession, LoopType
  <2> QED
    BY <1>5, <2>1, <2>2, <2>4, <2>5, ThreadUpdate DEF StartSession, TypeOK
<1> QED
  BY <1>1, <1>2, <1>3, <1>4, <1>5 DEF ServerLoop

\* So do those of a thread that change its own locals only.
LEMMA LocalStepsKeepTypes ==
  ASSUME SessionInv, NEW p \in Ports,
         \/ Poll(p) \/ Timeout(p) \/ ReceiveNoop(p) \/ ReceiveExit(p)
         \/ HasFollower(p) \/ SaveFollower(p)
         \/ Listen(p) \/ CountOne(p) \/ CountTwo(p) \/ GetNotificationDelivered(p)
  PROVE  TypeOK'
<1>t. TypeOK
  BY DEF SessionInv
<1>1. CASE Poll(p) \/ Timeout(p) \/ ReceiveExit(p) \/ HasFollower(p)
  <2>1. PICK c \in {"poll", "receive", "listen", "close", "save", "addFollower"} :
          Becomes(p, [thread[p] EXCEPT !.pc = c])
    BY <1>1, Zenon DEF Poll, Timeout, ReceiveExit, HasFollower, Goto
  <2>2. thread[p].pc # "notifyFollowers"
    BY <1>1 DEF Poll, Timeout, ReceiveExit, HasFollower, Goto
  <2>3. UNCHANGED <<masterTable, loop, nextClientPort, posted, lastSent, crashed>>
    BY <1>1 DEF Poll, Timeout, ReceiveExit, HasFollower
  <2>4. Consistent([thread[p] EXCEPT !.pc = c])
    BY <1>t, <2>2, Move DEF PCs
  <2> QED
    BY <1>t, <2>1, <2>3, <2>4, ThreadUpdate DEF TypeOK
<1>2. CASE Listen(p) \/ CountOne(p) \/ CountTwo(p) \/ GetNotificationDelivered(p)
  <2>1. PICK c \in {"receive", "countOne", "countTwo", "pop", "getDelivered", "setDelivered"} :
          Becomes(p, [thread[p] EXCEPT !.pc = c])
    BY <1>2, Zenon DEF Listen, CountOne, CountTwo, GetNotificationDelivered, Goto
  <2>2. thread[p].pc # "notifyFollowers"
    BY <1>2 DEF Listen, CountOne, CountTwo, GetNotificationDelivered, Goto
  <2>3. UNCHANGED <<masterTable, loop, nextClientPort, posted, lastSent, crashed>>
    BY <1>2 DEF Listen, CountOne, CountTwo, GetNotificationDelivered
  <2>4. Consistent([thread[p] EXCEPT !.pc = c])
    BY <1>t, <2>2, Move DEF PCs
  <2> QED
    BY <1>t, <2>1, <2>3, <2>4, ThreadUpdate DEF TypeOK
<1>3. CASE ReceiveNoop(p)
  <2>1. Consistent([thread[p] EXCEPT !.pc = "poll", !.recievedNoop = TRUE])
    BY <1>t, <1>3 DEF ReceiveNoop, TypeOK, ThreadType, PCs, Consistent
  <2> QED
    BY <1>t, <1>3, <2>1, ThreadUpdate DEF ReceiveNoop, TypeOK
<1>4. CASE SaveFollower(p)
  <2>1. Consistent([thread[p] EXCEPT !.pc = "notifySelf", !.following = Nobody])
    BY <1>t, <1>4 DEF SaveFollower, TypeOK, ThreadType, PCs, Consistent
  <2> QED
    BY <1>t, <1>4, <2>1, ThreadUpdate DEF SaveFollower, TypeOK
<1> QED
  BY <1>1, <1>2, <1>3, <1>4

\* A receive fills the locals of the handler it leads to.
LEMMA ReceivesKeepTypes ==
  ASSUME SessionInv, NEW p \in Ports,
         ReceiveSend(p) \/ \E new \in Profiles : ReceiveFollow(p, new)
  PROVE  TypeOK'
<1>t. TypeOK
  BY DEF SessionInv
<1>1. CASE ReceiveSend(p)
  <2>1. Row(p).followers \in Seq(Profiles)
    BY <1>1 DEF ReceiveSend, SessionInv, SessionsMatchThreads, TypeOK, RowType, Row
  <2>2. Consistent([thread[p] EXCEPT !.pc = IF Row(p).followers = <<>> THEN "poll"
                                            ELSE "notifyFollowers",
                                     !.toNotify = Row(p).followers])
    BY <1>t, <2>1, ZenonT(60) DEF TypeOK, ThreadType, PCs, Consistent
  <2> QED
    BY <1>t, <1>1, <2>2, ThreadUpdate DEF ReceiveSend, TypeOK
<1>2. ASSUME NEW new \in Profiles, ReceiveFollow(p, new)
      PROVE  TypeOK'
  <2>1. /\ Consistent([thread[p] EXCEPT !.pc = "hasFollower", !.following = new])
        /\ Consistent([thread[p] EXCEPT !.pc = "notifySelf"])
    BY <1>t, <1>2 DEF ReceiveFollow, TypeOK, ThreadType, PCs, Consistent
  <2> QED
    BY <1>t, <1>2, <2>1, ThreadUpdate DEF ReceiveFollow, TypeOK
<1> QED
  BY <1>1, <1>2

\* The steps that change the rows of the table.
LEMMA TableStepsKeepTypes ==
  ASSUME SessionInv, NEW p \in Ports,
         \/ CloseSession(p) \/ AddFollower(p) \/ NotifySelf(p) \/ NotifyFollower(p) \/ MissFollower(p)
         \/ MarkDelivered(p) \/ GetNotification(p) \/ PopNotification(p)
         \/ PopFront(p) \/ ResetDelivered(p) \/ Crash(p)
  PROVE  TypeOK'
<1>t. TypeOK /\ (thread[p].pc # "none" => thread[p].profile \in DOMAIN masterTable)
  BY DEF SessionInv, SessionsMatchThreads
<1>r. thread[p].pc # "none" => Row(p) \in RowType
  BY <1>t DEF TypeOK, Row
<1>p. thread[p].pc # "none" => thread[p].profile \in Profiles
  BY <1>t DEF TypeOK
<1>1. CASE CloseSession(p)
  <2> DEFINE new == [NewThread(thread[p].profile) EXCEPT !.pc = "closed"]
  <2>0. thread[p].profile \in Profiles \cup {Nobody}
    BY <1>t DEF TypeOK, ThreadType
  <2>1. Consistent(new)
    <3>1. NewThread(thread[p].profile) \in ThreadType
      BY <2>0 DEF NewThread, ThreadType, PCs
    <3>2. new \in ThreadType /\ new.pc = "closed"
      BY <3>1 DEF ThreadType, PCs
    <3>3. new.toNotify = <<>>
      BY DEF NewThread
    <3> QED
      BY <3>2, <3>3 DEF Consistent
  <2>2. masterTable' \in [DOMAIN masterTable -> RowType]
    BY <1>t, <1>1 DEF CloseSession, TypeOK, RowType
  <2> QED
    BY <1>t, <1>1, <2>1, <2>2, ThreadUpdate DEF CloseSession, TypeOK
<1>2. CASE AddFollower(p)
  <2>1. thread[p].pc = "addFollower" /\ Becomes(p, [thread[p] EXCEPT !.pc = "save"])
    BY <1>2 DEF AddFollower, Goto
  <2>2. Consistent([thread[p] EXCEPT !.pc = "save"])
    BY <1>t, <2>1, Move DEF PCs
  <2>3. masterTable' \in [DOMAIN masterTable -> RowType]
    <3>1. thread[p].following \in DOMAIN masterTable =>
            Append(masterTable[thread[p].following].followers, thread[p].profile) \in Seq(Profiles)
      BY <1>t, <1>p, <2>1 DEF TypeOK, RowType
    <3> QED
      BY <1>t, <1>2, <3>1, RowUpdate DEF AddFollower
  <2> QED
    BY <1>t, <1>2, <2>1, <2>2, <2>3, ThreadUpdate DEF AddFollower, TypeOK
<1>3. CASE NotifySelf(p)
  <2>1. Consistent([thread[p] EXCEPT !.pc = "poll", !.recievedNoop = TRUE])
    BY <1>t, <1>3 DEF NotifySelf, TypeOK, ThreadType, PCs, Consistent
  <2>2. masterTable' \in [DOMAIN masterTable -> RowType] /\ posted' \in [Profiles -> Nat]
       /\ DOMAIN masterTable' = DOMAIN masterTable
    BY <1>t, <1>p, <1>3, NotificationKeepsTypes DEF NotifySelf
  <2> QED
    BY <1>t, <1>3, <2>1, <2>2, ThreadUpdate DEF NotifySelf, TypeOK
<1>4. CASE NotifyFollower(p) \/ MissFollower(p)
  <2> DEFINE u == Head(thread[p].toNotify)
             new == [thread[p] EXCEPT !.pc = IF Len(thread[p].toNotify) = 1 THEN "poll" ELSE @,
                                      !.toNotify = Tail(@)]
  <2>1. thread[p] \in ThreadType /\ thread[p].toNotify # <<>>
    BY <1>t, <1>4 DEF NotifyFollower, MissFollower, TypeOK
  <2>2. u \in Profiles
    BY <2>1 DEF ThreadType
  <2>3. Consistent(new)
    <3>1. /\ thread[p].toNotify \in Seq(Profiles) /\ thread[p].pc = "notifyFollowers"
          /\ Tail(thread[p].toNotify) \in Seq(Profiles)
          /\ Len(thread[p].toNotify) = 1 <=> Tail(thread[p].toNotify) = <<>>
      <4>1. thread[p].toNotify \in Seq(Profiles) /\ thread[p].pc = "notifyFollowers"
        BY <2>1, <1>4 DEF NotifyFollower, MissFollower, ThreadType
      <4>2. /\ Tail(thread[p].toNotify) \in Seq(Profiles)
            /\ Len(Tail(thread[p].toNotify)) = Len(thread[p].toNotify) - 1
            /\ Len(thread[p].toNotify) \in Nat
        BY <2>1, <4>1, HeadTailProperties, LenProperties
      <4>3. Tail(thread[p].toNotify) = <<>> <=> Len(Tail(thread[p].toNotify)) = 0
        BY <4>2, EmptySeq
      <4> QED
        BY <4>1, <4>2, <4>3
    <3>2. new \in ThreadType
      BY <2>1, <3>1 DEF ThreadType, PCs
    <3>3. /\ new.toNotify = Tail(thread[p].toNotify)
          /\ new.pc = IF Len(thread[p].toNotify) = 1 THEN "poll" ELSE "notifyFollowers"
      BY <2>1, <3>1 DEF ThreadType
    <3> QED
      BY <3>1, <3>2, <3>3 DEF Consistent
  <2>4. thread' \in [Ports -> ThreadType] /\ Becomes(p, new)
    BY <1>t, <1>4, <2>3, ThreadUpdate DEF NotifyFollower, MissFollower, GoOnNotifying
  <2>5. CASE NotifyFollower(p)
    <3>1. masterTable' \in [DOMAIN masterTable -> RowType] /\ posted' \in [Profiles -> Nat]
         /\ DOMAIN masterTable' = DOMAIN masterTable
      BY <1>t, <2>5, <2>2, NotificationKeepsTypes DEF NotifyFollower
    <3> QED
      BY <1>t, <2>3, <2>4, <2>5, <3>1, ThreadUpdate DEF NotifyFollower, TypeOK
  <2>6. CASE MissFollower(p)
    BY <1>t, <2>3, <2>4, <2>6, ThreadUpdate DEF MissFollower, TypeOK
  <2> QED
    BY <1>4, <2>5, <2>6
<1>5. CASE MarkDelivered(p)
  <2>1. thread[p].pc = "setDelivered" /\ Becomes(p, [thread[p] EXCEPT !.pc = "get"])
    BY <1>5 DEF MarkDelivered, Goto
  <2>2. Consistent([thread[p] EXCEPT !.pc = "get"])
    BY <1>t, <2>1, Move DEF PCs
  <2>3. masterTable' \in [DOMAIN masterTable -> RowType]
    BY <1>t, <1>5 DEF MarkDelivered, TypeOK, RowType
  <2> QED
    BY <1>t, <1>5, <2>1, <2>2, <2>3, ThreadUpdate DEF MarkDelivered, TypeOK
<1>6. CASE GetNotification(p)
  <2>1. thread[p].pc = "get" /\ Becomes(p, [thread[p] EXCEPT !.pc = "receive"])
    BY <1>6 DEF GetNotification, Goto
  <2>2. Consistent([thread[p] EXCEPT !.pc = "receive"])
    BY <1>t, <2>1, Move DEF PCs
  <2>3. lastSent' \in [Ports -> Nat]
    BY <1>t, <1>r, <1>6, <2>1 DEF GetNotification, TypeOK, RowType
  <2> QED
    BY <1>t, <1>6, <2>1, <2>2, <2>3, ThreadUpdate DEF GetNotification, TypeOK
<1>7. CASE PopNotification(p)
  <2>1. Head(Row(p).messagesToReceive) \in Nat
    BY <1>r, <1>7 DEF PopNotification, RowType
  <2>2. Consistent([thread[p] EXCEPT !.pc = "popFront",
                                     !.notification = Head(Row(p).messagesToReceive)])
    BY <1>t, <1>7, <2>1 DEF PopNotification, TypeOK, ThreadType, PCs, Consistent
  <2> QED
    BY <1>t, <1>7, <2>2, ThreadUpdate DEF PopNotification, TypeOK
<1>8. CASE PopFront(p)
  <2>1. thread[p].pc = "popFront" /\ Becomes(p, [thread[p] EXCEPT !.pc = "resetDelivered"])
    BY <1>8 DEF PopFront, Goto
  <2>2. Consistent([thread[p] EXCEPT !.pc = "resetDelivered"])
    BY <1>t, <2>1, Move DEF PCs
  <2>3. masterTable' \in [DOMAIN masterTable -> RowType]
    <3>1. Tail(masterTable[thread[p].profile].messagesToReceive) \in Seq(Nat)
      BY <1>r, <1>8, <2>1 DEF PopFront, RowType, Row
    <3> QED
      BY <1>t, <1>8, <3>1, RowUpdate DEF PopFront
  <2> QED
    BY <1>t, <1>8, <2>1, <2>2, <2>3, ThreadUpdate DEF PopFront, TypeOK
<1>9. CASE ResetDelivered(p)
  <2>1. Consistent([thread[p] EXCEPT !.pc = "receive", !.notification = 0])
    BY <1>t, <1>9, ZenonT(60) DEF ResetDelivered, TypeOK, ThreadType, PCs, Consistent
  <2>2. masterTable' \in [DOMAIN masterTable -> RowType]
    BY <1>t, <1>9 DEF ResetDelivered, TypeOK, RowType
  <2>3. lastSent' \in [Ports -> Nat]
    BY <1>t, <1>9 DEF ResetDelivered, TypeOK, ThreadType
  <2> QED
    BY <1>t, <1>9, <2>1, <2>2, <2>3, ThreadUpdate DEF ResetDelivered, TypeOK
<1>10. CASE Crash(p)
  BY <1>t, <1>10 DEF Crash, TypeOK
<1> QED
  BY <1>1, <1>2, <1>3, <1>4, <1>5, <1>6, <1>7, <1>8, <1>9, <1>10

-----------------------------------------------------------------------------
(* The sessions of a row are its live threads. Most steps begin and end no  *)
(* session, and those keep whatever is said of sessions.                    *)

Quiet ==
  /\ DOMAIN masterTable' = DOMAIN masterTable
  /\ \A u \in DOMAIN masterTable :
       masterTable'[u].activeSessions = masterTable[u].activeSessions
  /\ \A p \in Ports : /\ thread'[p].profile = thread[p].profile
                      /\ thread'[p].pc = "none" <=> thread[p].pc = "none"
                      /\ thread'[p].pc = "closed" <=> thread[p].pc = "closed"
  /\ UNCHANGED nextClientPort

LEMMA QuietMove ==
  ASSUME TypeOK, NEW p \in Ports, NEW new, Becomes(p, new),
         thread[p].pc \notin {"none", "closed"},
         new.pc \notin {"none", "closed"}, new.profile = thread[p].profile,
         UNCHANGED nextClientPort, DOMAIN masterTable' = DOMAIN masterTable,
         \A u \in DOMAIN masterTable :
           masterTable'[u].activeSessions = masterTable[u].activeSessions
  PROVE  Quiet
<1>1. /\ thread'[p] = new /\ \A q \in Ports \ {p} : thread'[q] = thread[q]
  BY DEF TypeOK, Becomes
<1> QED
  BY <1>1 DEF Quiet

SameSessions == /\ DOMAIN masterTable' = DOMAIN masterTable
                /\ \A u \in DOMAIN masterTable :
                     masterTable'[u].activeSessions = masterTable[u].activeSessions

\* Setting another field of a row leaves every row its sessions.
LEMMA OtherFields ==
  ASSUME TypeOK, NEW w, NEW x,
         \/ masterTable' = [masterTable EXCEPT ![w].followers = x]
         \/ masterTable' = [masterTable EXCEPT ![w].messagesToReceive = x]
         \/ masterTable' = [masterTable EXCEPT ![w].notificationDelivered = x]
  PROVE  SameSessions
<1>1. CASE masterTable' = [masterTable EXCEPT ![w].followers = x]
  BY <1>1 DEF TypeOK, RowType, SameSessions
<1>2. CASE masterTable' = [masterTable EXCEPT ![w].messagesToReceive = x]
  BY <1>2 DEF TypeOK, RowType, SameSessions
<1>3. CASE masterTable' = [masterTable EXCEPT ![w].notificationDelivered = x]
  BY <1>3 DEF TypeOK, RowType, SameSessions
<1> QED
  BY <1>1, <1>2, <1>3

\* A step of a thread that leaves the table alone, or a field of one row other
\* than its sessions.
LEMMA QuietSteps ==
  ASSUME TypeOK, NEW p \in Ports,
         ThreadStep(p) \/ ClientStep(p), ~CloseSession(p)
  PROVE  Quiet /\ UNCHANGED loop
<1>t. thread[p] \in ThreadType
  BY DEF TypeOK
<1>1. ASSUME NEW from \in PCs \ {"none", "closed"}, NEW c \in PCs \ {"none", "closed"},
             Goto(p, from, c), UNCHANGED <<masterTable, loop, nextClientPort>>
      PROVE  Quiet /\ UNCHANGED loop
  <2>1. [thread[p] EXCEPT !.pc = c].pc = c /\ [thread[p] EXCEPT !.pc = c].profile = thread[p].profile
    BY <1>t DEF ThreadType
  <2> QED
    BY <1>1, <2>1, QuietMove DEF Goto
<1>2. CASE Poll(p) \/ Timeout(p) \/ ReceiveExit(p) \/ HasFollower(p)
  <2>1. PICK from \in {"poll", "receive", "hasFollower"},
             c \in {"poll", "receive", "listen", "close", "save", "addFollower"} : Goto(p, from, c)
    BY <1>2, Zenon DEF Poll, Timeout, ReceiveExit, HasFollower
  <2> QED
    BY <1>1, <1>2, <2>1 DEF Poll, Timeout, ReceiveExit, HasFollower, PCs
<1>3. CASE \/ Listen(p) \/ CountOne(p) \/ CountTwo(p) \/ GetNotificationDelivered(p)
           \/ GetNotification(p)
  <2>1. PICK from \in {"listen", "countOne", "countTwo", "getDelivered", "get"},
             c \in {"receive", "countOne", "countTwo", "pop", "getDelivered", "setDelivered"} :
               Goto(p, from, c)
    BY <1>3, Zenon DEF Listen, CountOne, CountTwo, GetNotificationDelivered, GetNotification
  <2> QED
    BY <1>1, <1>3, <2>1
       DEF Listen, CountOne, CountTwo, GetNotificationDelivered, GetNotification, PCs
<1>4. CASE ReceiveNoop(p) \/ SaveFollower(p)
  BY <1>t, <1>4, QuietMove DEF ReceiveNoop, SaveFollower, ThreadType
<1>5. CASE ReceiveSend(p) \/ PopNotification(p)
  BY <1>t, <1>5, QuietMove DEF ReceiveSend, PopNotification, ThreadType
<1>6. CASE \E new \in Profiles : ReceiveFollow(p, new)
  BY <1>t, <1>6, QuietMove DEF ReceiveFollow, ThreadType
<1>7. CASE AddFollower(p) \/ MarkDelivered(p) \/ PopFront(p)
  <2>1. SameSessions
    BY <1>7, OtherFields DEF AddFollower, MarkDelivered, PopFront
  <2> QED
    BY <1>t, <1>7, <2>1, QuietMove
       DEF AddFollower, MarkDelivered, PopFront, Goto, ThreadType, SameSessions
<1>8. CASE NotifySelf(p) \/ ResetDelivered(p) \/ NotifyFollower(p) \/ MissFollower(p)
  <2>1. SameSessions
    <3>1. CASE NotifySelf(p) \/ ResetDelivered(p) \/ NotifyFollower(p)
      BY <3>1, OtherFields DEF NotifySelf, NotifyFollower, ResetDelivered, AddNotification
    <3>2. CASE MissFollower(p)
      BY <3>2 DEF MissFollower, SameSessions
    <3> QED
      BY <1>8, <3>1, <3>2
  <2>2. CASE NotifySelf(p) \/ ResetDelivered(p)
    BY <1>t, <2>1, <2>2, QuietMove DEF NotifySelf, ResetDelivered, ThreadType, SameSessions
  <2>3. CASE NotifyFollower(p) \/ MissFollower(p)
    BY <1>t, <2>1, <2>3, QuietMove DEF NotifyFollower, MissFollower, GoOnNotifying, ThreadType, SameSessions
  <2> QED
    BY <1>8, <2>2, <2>3
<1>9. CASE Crash(p)
  BY <1>9 DEF Crash, Quiet
<1> QED
  BY <1>2, <1>3, <1>4, <1>5, <1>6, <1>7, <1>8, <1>9 DEF ThreadStep, ClientStep

LEMMA FinitePorts ==
  ASSUME SessionsAssumption
  PROVE  \A s \in SUBSET Ports : IsFiniteSet(s) /\ Cardinality(s) \in Nat
<1>1. IsFiniteSet(Ports)
  BY FS_Interval DEF SessionsAssumption, Ports
<1> QED
  BY <1>1, FS_Subset, FS_CardinalityType

LEMMA NoSessions ==
  ASSUME SessionsAssumption
  PROVE  /\ MaxSessions \in Nat
         /\ Cardinality({}) < MaxSessions /\ Cardinality({}) <= MaxSessions
<1>1. Cardinality({}) = 0
  BY FS_EmptySet
<1>2. MaxSessions \in Nat /\ 0 < MaxSessions
  BY DEF SessionsAssumption
<1> QED
  BY <1>1, <1>2

\* A quiet step keeps what is said of sessions.
LEMMA QuietKeepsSessions ==
  ASSUME SessionInv, Quiet, UNCHANGED loop
  PROVE  /\ LoopHoldsRow' /\ LoopHoldsPlace' /\ PortsInOrder'
         /\ SessionsMatchThreads' /\ SessionCap'
<1> USE DEF SessionInv, Quiet
<1>1. LoopHoldsRow' /\ PortsInOrder'
  BY DEF LoopHoldsRow, PortsInOrder
<1>2. LoopHoldsPlace'
  BY DEF LoopHoldsRow, LoopHoldsPlace
<1>3. \A u : Live(u)' = Live(u)
  BY DEF Live
<1>4. SessionsMatchThreads'
  BY <1>3 DEF SessionsMatchThreads
<1>5. SessionCap'
  BY DEF SessionCap
<1> QED
  BY <1>1, <1>2, <1>4, <1>5

\* The end of a session takes it out of the row with the thread.
LEMMA CloseKeepsSessions ==
  ASSUME SessionsAssumption, SessionInv, NEW p \in Ports, CloseSession(p)
  PROVE  /\ LoopHoldsRow' /\ LoopHoldsPlace' /\ PortsInOrder'
         /\ SessionsMatchThreads' /\ SessionCap'
<1> DEFINE w == thread[p].profile
<1>1. /\ thread[p].pc = "close" /\ thread'[p].pc = "closed" /\ thread'[p].profile = w
      /\ \A q \in Ports \ {p} : thread'[q] = thread[q]
  BY DEF CloseSession, Becomes, NewThread, SessionInv, TypeOK
<1>2. /\ DOMAIN masterTable' = DOMAIN masterTable
      /\ \A u \in DOMAIN masterTable :
           masterTable'[u].activeSessions =
             IF u = w THEN masterTable[u].activeSessions \ {p} ELSE masterTable[u].activeSessions
  BY ZenonT(60) DEF CloseSession, SessionInv, TypeOK, RowType
<1>3. UNCHANGED <<loop, nextClientPort>>
  BY DEF CloseSession
<1>4. \A u : Live(u)' = IF u = w THEN Live(u) \ {p} ELSE Live(u)
  BY <1>1 DEF Live
<1>5. SessionsMatchThreads'
  BY <1>1, <1>2, <1>4 DEF SessionInv, SessionsMatchThreads
<1>6. \A u \in DOMAIN masterTable :
        /\ Cardinality(masterTable'[u].activeSessions) <= Cardinality(masterTable[u].activeSessions)
        /\ Cardinality(masterTable'[u].activeSessions) \in Nat
        /\ Cardinality(masterTable[u].activeSessions) \in Nat
  <2> TAKE u \in DOMAIN masterTable
  <2>1. masterTable[u].activeSessions \in SUBSET Ports
    BY DEF SessionInv, TypeOK, RowType
  <2>2. masterTable'[u].activeSessions \in SUBSET masterTable[u].activeSessions
    BY <1>2
  <2> QED
    BY <2>1, <2>2, FinitePorts, FS_Subset
<1>7. SessionCap'
  BY <1>2, <1>6 DEF SessionInv, SessionCap, SessionsAssumption
<1>8. LoopHoldsRow' /\ PortsInOrder'
  BY <1>1, <1>2, <1>3 DEF SessionInv, LoopHoldsRow, PortsInOrder
<1>9. LoopHoldsPlace'
  <2>1. CASE loop.pc = "save"
    BY <1>2, <1>3, <2>1 DEF SessionInv, LoopHoldsRow, LoopHoldsPlace
  <2>2. CASE loop.pc = "start"
    <3>1. loop.profile \in DOMAIN masterTable
      BY <2>2 DEF SessionInv, LoopHoldsRow
    <3>2. Cardinality(masterTable[loop.profile].activeSessions) < MaxSessions
      BY <2>2 DEF SessionInv, LoopHoldsPlace
    <3>3. Cardinality(masterTable'[loop.profile].activeSessions) < MaxSessions
      BY <1>6, <3>1, <3>2, NoSessions
    <3> QED
      BY <1>3, <2>2, <3>3 DEF LoopHoldsPlace
  <2> QED
    BY <1>3, <2>1, <2>2 DEF LoopHoldsPlace
<1> QED
  BY <1>5, <1>7, <1>8, <1>9

\* The steps of the server loop: a session starts only where there was a place.
LEMMA LoopKeepsSessions ==
  ASSUME SessionsAssumption, SessionInv, ServerLoop \/ \E u \in Profiles : ReceiveConnect(u)
  PROVE  /\ LoopHoldsRow' /\ LoopHoldsPlace' /\ PortsInOrder'
         /\ SessionsMatchThreads' /\ SessionCap'
<1> USE DEF SessionInv
<1>1. ASSUME UNCHANGED <<masterTable, thread, nextClientPort>>
      PROVE  PortsInOrder' /\ SessionsMatchThreads' /\ SessionCap'
  BY <1>1 DEF PortsInOrder, SessionsMatchThreads, SessionCap, Live
<1>2. CASE \E u \in Profiles : ReceiveConnect(u)
  <2>1. LoopHoldsRow' /\ LoopHoldsPlace'
    BY <1>2 DEF ReceiveConnect, LoopHoldsRow, LoopHoldsPlace
  <2> QED
    BY <1>1, <1>2, <2>1 DEF ReceiveConnect
<1>3. CASE InsertRow
  <2>1. loop.profile \in Profiles \ DOMAIN masterTable /\ Live(loop.profile) = {}
    BY <1>3 DEF InsertRow, LoopHoldsRow, Live, SessionsMatchThreads
  <2>2. /\ DOMAIN masterTable' = DOMAIN masterTable \cup {loop.profile}
        /\ masterTable'[loop.profile].activeSessions = {}
        /\ \A u \in DOMAIN masterTable : masterTable'[u] = masterTable[u]
    BY <1>3, <2>1 DEF InsertRow, NewRow
  <2>3. loop'.pc = "save" /\ loop'.profile = loop.profile
    BY <1>3 DEF InsertRow, TypeOK, LoopType
  <2>4. UNCHANGED <<thread, nextClientPort>> /\ nextClientPort <= LastPort
    BY <1>3 DEF InsertRow, LoopHoldsRow
  <2>5. LoopHoldsRow' /\ LoopHoldsPlace' /\ PortsInOrder'
    BY <2>2, <2>3, <2>4 DEF LoopHoldsRow, LoopHoldsPlace, PortsInOrder
  <2>6. SessionsMatchThreads'
    BY <2>1, <2>2, <2>4 DEF SessionsMatchThreads, Live
  <2>7. SessionCap'
    <3>1. \A u \in DOMAIN masterTable :
            Cardinality(masterTable'[u].activeSessions) <= MaxSessions
      BY <2>2 DEF SessionCap
    <3>2. Cardinality(masterTable'[loop.profile].activeSessions) <= MaxSessions
      BY <2>2, NoSessions
    <3> QED
      BY <2>2, <3>1, <3>2 DEF SessionCap
  <2> QED
    BY <2>5, <2>6, <2>7
<1>4. CASE SaveNewRow
  <2>1. LoopHoldsRow' /\ LoopHoldsPlace'
    <3>1. loop.pc = "save" /\ loop'.pc = "start" /\ loop'.profile = loop.profile
      BY <1>4 DEF SaveNewRow, TypeOK, LoopType
    <3>2. UNCHANGED <<masterTable, nextClientPort>>
      BY <1>4 DEF SaveNewRow
    <3>3. masterTable[loop.profile].activeSessions = {}
      BY <3>1 DEF LoopHoldsPlace
    <3> QED
      BY <3>1, <3>2, <3>3, NoSessions DEF LoopHoldsRow, LoopHoldsPlace
  <2> QED
    BY <1>1, <1>4, <2>1 DEF SaveNewRow
<1>5. CASE CountSessions
  <2>1. Cardinality(masterTable[loop.profile].activeSessions) \in Nat
    BY <1>5, FinitePorts DEF CountSessions, LoopHoldsRow, TypeOK, RowType
  <2>2. LoopHoldsRow' /\ LoopHoldsPlace'
    BY <1>5, <2>1 DEF CountSessions, LoopHoldsRow, LoopHoldsPlace, SessionsAssumption,
                      TypeOK, LoopType
  <2> QED
    BY <1>1, <1>5, <2>2 DEF CountSessions
<1>6. CASE StartSession
  <2> DEFINE w == loop.profile
             p == nextClientPort
  <2>1. p \in Ports /\ w \in DOMAIN masterTable /\ thread[p].pc = "none"
    BY <1>6 DEF StartSession, LoopHoldsRow, PortsInOrder, TypeOK, Ports, SessionsAssumption
  <2>2. /\ thread'[p].pc = "poll" /\ thread'[p].profile = w
        /\ \A q \in Ports \ {p} : thread'[q] = thread[q]
    BY <1>6, <2>1 DEF StartSession, Becomes, NewThread, TypeOK
  <2>3. /\ DOMAIN masterTable' = DOMAIN masterTable
        /\ \A u \in DOMAIN masterTable :
             masterTable'[u].activeSessions =
               IF u = w THEN masterTable[u].activeSessions \cup {p}
               ELSE masterTable[u].activeSessions
    BY <1>6, ZenonT(60) DEF StartSession, TypeOK, RowType
  <2>4. loop'.pc = "receive" /\ nextClientPort' = p + 1
    BY <1>6 DEF StartSession
  <2>5. LoopHoldsRow' /\ LoopHoldsPlace'
    BY <2>4 DEF LoopHoldsRow, LoopHoldsPlace
  <2>6. PortsInOrder'
    <3>1. \A q \in Ports : q \in Int /\ p \in Int
      BY <2>1 DEF Ports
    <3>2. \A q \in Ports \ {p} : q >= p + 1 <=> q >= p
      BY <3>1
    <3> QED
      BY <2>1, <2>2, <2>4, <3>1, <3>2 DEF PortsInOrder
  <2>7. \A u : Live(u)' = IF u = w THEN Live(u) \cup {p} ELSE Live(u)
    BY <2>1, <2>2 DEF Live
  <2>8. SessionsMatchThreads'
    BY <2>1, <2>2, <2>3, <2>7 DEF SessionsMatchThreads
  <2>9. SessionCap'
    <3>1. masterTable[w].activeSessions \in SUBSET Ports
      BY <2>1 DEF TypeOK, RowType
    <3>2. /\ IsFiniteSet(masterTable[w].activeSessions)
          /\ Cardinality(masterTable[w].activeSessions) \in Nat
      BY <3>1, FinitePorts
    <3>3. Cardinality(masterTable[w].activeSessions) < MaxSessions
      BY <1>6 DEF StartSession, LoopHoldsPlace
    <3>4. Cardinality(masterTable[w].activeSessions \cup {p}) <= MaxSessions
      <4>1. Cardinality(masterTable[w].activeSessions \cup {p})
              \in {Cardinality(masterTable[w].activeSessions),
                   Cardinality(masterTable[w].activeSessions) + 1}
        BY <3>2, FS_AddElement
      <4>2. MaxSessions \in Nat
        BY NoSessions
      <4> QED
        BY <3>2, <3>3, <4>1, <4>2
    <3> QED
      BY <2>3, <3>4 DEF SessionCap
  <2> QED
    BY <2>5, <2>6, <2>8, <2>9
<1> QED
  BY <1>2, <1>3, <1>4, <1>5, <1>6 DEF ServerLoop

-----------------------------------------------------------------------------
(* What follows for every behaviour.                                        *)

LEMMA SessionInvInit == SessionsAssumption /\ Init => SessionInv
<1> SUFFICES ASSUME SessionsAssumption, Init PROVE SessionInv
  OBVIOUS
<1>1. PICK table \in Backups :
        masterTable = [u \in DOMAIN table |-> [NewRow EXCEPT !.followers = table[u]]]
  BY DEF Init
<1>2. \A u \in DOMAIN table : table[u] \in Seq(Profiles)
  <2> TAKE u \in DOMAIN table
  <2>1. table[u] \in Seq(Profiles \ {u})
    BY DEF SessionsAssumption
  <2> QED
    BY <2>1
<1>3. /\ DOMAIN masterTable = DOMAIN table
      /\ \A u \in DOMAIN masterTable :
           masterTable[u] \in RowType /\ masterTable[u].activeSessions = {}
  <2>1. DOMAIN masterTable = DOMAIN table
    BY <1>1
  <2>2. ASSUME NEW u \in DOMAIN table
        PROVE  masterTable[u] \in RowType /\ masterTable[u].activeSessions = {}
    <3>1. NewRow \in [activeSessions : {{}}, notificationDelivered : {FALSE},
                      followers : {<<>>}, messagesToReceive : {<<>>}]
      BY DEF NewRow
    <3>2. masterTable[u] = [NewRow EXCEPT !.followers = table[u]]
      BY <1>1, <2>2
    <3>3. masterTable[u] \in [activeSessions : {{}}, notificationDelivered : {FALSE},
                              followers : Seq(Profiles), messagesToReceive : {<<>>}]
      BY <1>2, <2>2, <3>1, <3>2
    <3>4. {{}} \subseteq SUBSET Ports /\ {FALSE} \subseteq BOOLEAN /\ {<<>>} \subseteq Seq(Nat)
      OBVIOUS
    <3> QED
      BY <3>3, <3>4 DEF RowType
  <2> QED
    BY <2>1, <2>2
<1>4. \A p \in Ports : /\ thread[p].pc = "none" /\ thread[p].profile = Nobody
                       /\ thread[p] \in ThreadType /\ thread[p].toNotify = <<>>
  <2> TAKE p \in Ports
  <2>1. thread[p] = [NewThread(Nobody) EXCEPT !.pc = "none"]
    BY DEF Init
  <2>2. NewThread(Nobody) \in [pc : {"poll"}, profile : {Nobody}, recievedNoop : {FALSE},
                               following : {Nobody}, toNotify : {<<>>}, notification : {0}]
    BY DEF NewThread
  <2>3. thread[p] \in [pc : {"none"}, profile : {Nobody}, recievedNoop : {FALSE},
                       following : {Nobody}, toNotify : {<<>>}, notification : {0}]
    BY <2>1, <2>2
  <2>4. thread[p] \in ThreadType
    <3>1. "none" \in PCs /\ <<>> \in Seq(Profiles) /\ 0 \in Nat
      BY DEF PCs
    <3> QED
      BY <2>3, <3>1 DEF ThreadType
  <2> QED
    BY <2>3, <2>4
<1>5. TypeOK
  <2>1. masterTable \in [DOMAIN masterTable -> RowType] /\ DOMAIN masterTable \subseteq Profiles
    BY <1>1, <1>3 DEF SessionsAssumption
  <2>2. thread \in [Ports -> ThreadType]
    BY <1>4 DEF Init
  <2>3. loop \in LoopType /\ posted \in [Profiles -> Nat] /\ lastSent \in [Ports -> Nat]
    BY DEF Init, LoopType
  <2>4. nextClientPort \in FirstPort .. LastPort + 1 /\ crashed \in BOOLEAN
    <3>1. FirstPort \in Nat /\ LastPort \in Nat /\ FirstPort <= LastPort
      BY DEF SessionsAssumption
    <3>2. nextClientPort = FirstPort
      BY DEF Init
    <3>3. nextClientPort \in FirstPort .. LastPort + 1
      BY <3>1, <3>2
    <3>4. crashed \in BOOLEAN
      BY DEF Init
    <3> QED
      BY <3>3, <3>4
  <2> QED
    BY <1>4, <2>1, <2>2, <2>3, <2>4 DEF TypeOK
<1>6. LoopHoldsRow /\ LoopHoldsPlace
  BY DEF Init, LoopHoldsRow, LoopHoldsPlace
<1>7. PortsInOrder
  <2>1. nextClientPort = FirstPort /\ \A p \in Ports : p >= FirstPort
    BY DEF Init, Ports
  <2> QED
    BY <1>4, <2>1 DEF PortsInOrder
<1>8. SessionsMatchThreads
  BY <1>3, <1>4 DEF SessionsMatchThreads, Live
<1>9. SessionCap
  BY <1>3, NoSessions DEF SessionCap
<1> QED
  BY <1>5, <1>6, <1>7, <1>8, <1>9 DEF SessionInv

LEMMA SessionInvStep == SessionsAssumption /\ SessionInv /\ [Next]_vars => SessionInv'
<1> SUFFICES ASSUME SessionsAssumption, SessionInv, [Next]_vars PROVE SessionInv'
  OBVIOUS
<1>1. CASE UNCHANGED vars
  <2>1. Quiet /\ UNCHANGED loop
    BY <1>1 DEF vars, Quiet
  <2>2. TypeOK'
    BY <1>1 DEF vars, SessionInv, TypeOK
  <2> QED
    BY <2>1, <2>2, QuietKeepsSessions DEF SessionInv
<1>2. CASE ServerLoop \/ \E u \in Profiles : ReceiveConnect(u)
  BY <1>2, LoopKeepsTypes, LoopKeepsSessions DEF SessionInv
<1>3. ASSUME NEW p \in Ports, ThreadStep(p) \/ ClientStep(p)
      PROVE  SessionInv'
  <2>1. TypeOK'
    BY <1>3, LocalStepsKeepTypes, ReceivesKeepTypes, TableStepsKeepTypes
       DEF ThreadStep, ClientStep
  <2>2. CASE CloseSession(p)
    BY <2>1, <2>2, CloseKeepsSessions DEF SessionInv
  <2>3. CASE ~CloseSession(p)
    BY <1>3, <2>1, <2>3, QuietSteps, QuietKeepsSessions DEF SessionInv
  <2> QED
    BY <2>2, <2>3
<1> QED
  BY <1>1, <1>2, <1>3 DEF Next, Running, Stopped

\* The inductive invariant holds in every state the server reaches.
THEOREM SessionInvariant == Spec => []SessionInv
  BY SessionsAssumption, SessionInvInit, SessionInvStep, PTL DEF Spec

\* Every variable keeps its type.
THEOREM SessionsTyped == Spec => []TypeOK
<1>1. SessionInv => TypeOK
  BY DEF SessionInv
<1> QED
  BY <1>1, SessionInvariant, PTL

\* No profile ever has more sessions than MAX_CONNECTIONS_OF_SAME_USER, for the
\* count and the start of a session have only the ends of others between them.
THEOREM SessionsCapped == Spec => []SessionCap
<1>1. SessionInv => SessionCap
  BY DEF SessionInv
<1> QED
  BY <1>1, SessionInvariant, PTL

\* The sessions a row counts are exactly those that have a thread.
THEOREM SessionsAreThreads == Spec => []SessionsMatchThreads
<1>1. SessionInv => SessionsMatchThreads
  BY DEF SessionInv
<1> QED
  BY <1>1, SessionInvariant, PTL
-----------------------------------------------------------------------------
(* Who has no row, for any profiles, ports and limit: FOLLOW lists only     *)
(* names of sessions, SEND copies a list of the table, and no row ever goes *)
(* away in between.                                                         *)

(* Between the lookup and addFollower the name that the thread holds has a  *)
(* row.                                                                     *)
Adding(locals) == locals.pc \in {"hasFollower", "addFollower"}
FollowInv == \A p \in Ports : Adding(thread[p]) => thread[p].following \in DOMAIN masterTable

-----------------------------------------------------------------------------
(* What one step does to the lists and to the copies.                       *)

RowsStay == DOMAIN masterTable \subseteq DOMAIN masterTable'

\* Who is listed was listed before, or has a row.
ListsSound ==
  \A u \in DOMAIN masterTable', v \in Profiles :
    Listed(v, masterTable'[u].followers) =>
      \/ v \in DOMAIN masterTable
      \/ u \in DOMAIN masterTable /\ Listed(v, masterTable[u].followers)

\* Whom a thread still has to notify it had to notify before, or is listed.
CopySound(p, copy) ==
  \A v \in Profiles :
    Listed(v, copy) =>
      \/ Listed(v, thread[p].toNotify)
      \/ \E u \in DOMAIN masterTable : Listed(v, masterTable[u].followers)
CopiesSound == \A p \in Ports : CopySound(p, thread'[p].toNotify)

\* Whom a thread is about to follow has a row.
Sound(locals) == Adding(locals) => locals.following \in DOMAIN masterTable

NoNewRowless == FollowInv' /\ RowsStay /\ ListsSound /\ CopiesSound

\* One thread goes on, and the others have what they had.
LEMMA OneThreadKeeps ==
  ASSUME TypeOK, FollowInv, NEW p \in Ports, NEW new, Becomes(p, new), Sound(new),
         CopySound(p, new.toNotify), RowsStay, ListsSound
  PROVE  NoNewRowless
<1>1. /\ thread'[p] = new
      /\ \A q \in Ports \ {p} : thread'[q] = thread[q]
  BY DEF TypeOK, Becomes
<1>2. CopiesSound
  BY <1>1 DEF CopiesSound, CopySound
<1>3. FollowInv'
  BY <1>1 DEF FollowInv, Sound, Adding, RowsStay
<1> QED BY <1>2, <1>3 DEF NoNewRowless

SameLists ==
  /\ DOMAIN masterTable' = DOMAIN masterTable
  /\ \A u \in DOMAIN masterTable : masterTable'[u].followers = masterTable[u].followers

\* Setting another field of a row leaves every row its followers.
LEMMA OtherFieldsKeepLists ==
  ASSUME TypeOK, NEW w, NEW x,
         \/ UNCHANGED masterTable
         \/ masterTable' = [masterTable EXCEPT ![w].activeSessions = x]
         \/ masterTable' = [masterTable EXCEPT ![w].messagesToReceive = x]
         \/ masterTable' = [masterTable EXCEPT ![w].notificationDelivered = x]
  PROVE  SameLists
<1>1. CASE UNCHANGED masterTable
  BY <1>1 DEF SameLists
<1>2. CASE masterTable' = [masterTable EXCEPT ![w].activeSessions = x]
  BY <1>2 DEF TypeOK, RowType, SameLists
<1>3. CASE masterTable' = [masterTable EXCEPT ![w].messagesToReceive = x]
  BY <1>3 DEF TypeOK, RowType, SameLists
<1>4. CASE masterTable' = [masterTable EXCEPT ![w].notificationDelivered = x]
  BY <1>4 DEF TypeOK, RowType, SameLists
<1> QED BY <1>1, <1>2, <1>3, <1>4

LEMMA SameListsSound == ASSUME SameLists PROVE RowsStay /\ ListsSound
BY DEF SameLists, RowsStay, ListsSound

\* The locals of every thread are sound, and stay so wherever it goes on from
\* there, unless to the addition of a follower.
LEMMA GoingOn ==
  ASSUME TypeOK, FollowInv, NEW p \in Ports
  PROVE  /\ \A c \in PCs : [thread[p] EXCEPT !.pc = c].toNotify = thread[p].toNotify
         /\ \A c \in PCs \ {"hasFollower", "addFollower"} : Sound([thread[p] EXCEPT !.pc = c])
         /\ Adding(thread[p]) => \A c \in PCs : Sound([thread[p] EXCEPT !.pc = c])
<1>1. thread[p] \in ThreadType /\ Sound(thread[p])
  BY DEF TypeOK, FollowInv, Sound
<1>2. \A c : LET new == [thread[p] EXCEPT !.pc = c]
             IN  /\ new.pc = c /\ new.toNotify = thread[p].toNotify
                 /\ new.following = thread[p].following
  BY <1>1 DEF ThreadType
<1> QED BY <1>1, <1>2 DEF Sound, Adding

-----------------------------------------------------------------------------
\* The server loop only adds rows, without followers, and threads.
LEMMA LoopKeepsFollowers ==
  ASSUME SessionsAssumption, SessionInv, FollowInv,
         ServerLoop \/ \E u \in Profiles : ReceiveConnect(u)
  PROVE  NoNewRowless
<1>t. TypeOK
  BY DEF SessionInv
<1>1. CASE SaveNewRow \/ CountSessions \/ \E u \in Profiles : ReceiveConnect(u)
  <2>1. UNCHANGED <<masterTable, thread>>
    BY <1>1 DEF SaveNewRow, CountSessions, ReceiveConnect
  <2> QED BY <2>1 DEF NoNewRowless, FollowInv, RowsStay, ListsSound, CopiesSound, CopySound
<1>2. CASE InsertRow
  <2>1. /\ DOMAIN masterTable' = DOMAIN masterTable \cup {loop.profile}
        /\ \A u \in DOMAIN masterTable' :
             masterTable'[u].followers = IF u = loop.profile THEN <<>> ELSE masterTable[u].followers
        /\ thread' = thread
    BY <1>2 DEF InsertRow, NewRow
  <2>2. \A v : ~Listed(v, <<>>)
    BY DEF Listed
  <2>3. ListsSound
    BY <2>1, <2>2 DEF ListsSound
  <2> QED BY <2>1, <2>3 DEF NoNewRowless, FollowInv, RowsStay, CopiesSound, CopySound
<1>3. CASE StartSession
  <2>1. nextClientPort \in Ports
    BY <1>3 DEF StartSession, SessionInv, LoopHoldsRow, TypeOK, Ports, SessionsAssumption
  <2>2. Sound(NewThread(loop.profile)) /\ CopySound(nextClientPort, NewThread(loop.profile).toNotify)
    BY DEF Sound, NewThread, Adding, CopySound, Listed
  <2>3. RowsStay /\ ListsSound
    BY <1>t, <1>3, OtherFieldsKeepLists, SameListsSound DEF StartSession
  <2> QED BY <1>t, <1>3, <2>1, <2>2, <2>3, OneThreadKeeps DEF StartSession
<1> QED BY <1>1, <1>2, <1>3 DEF ServerLoop

\* A session thread lists nobody who has no row: what it adds is the name of a
\* session, and what it copies is a list of the table.
LEMMA ThreadKeepsFollowers ==
  ASSUME SessionInv, FollowInv, NEW p \in Ports, ThreadStep(p) \/ ClientStep(p)
  PROVE  NoNewRowless
<1>t. TypeOK /\ thread[p] \in ThreadType
  BY DEF SessionInv, TypeOK
<1>g. /\ \A c \in PCs : [thread[p] EXCEPT !.pc = c].toNotify = thread[p].toNotify
      /\ \A c \in PCs \ {"hasFollower", "addFollower"} : Sound([thread[p] EXCEPT !.pc = c])
      /\ Adding(thread[p]) => \A c \in PCs : Sound([thread[p] EXCEPT !.pc = c])
  BY <1>t, GoingOn
<1>s. Sound(thread[p])
  BY DEF FollowInv, Sound
<1>row. thread[p].pc # "none" => thread[p].profile \in DOMAIN masterTable
  BY DEF SessionInv, SessionsMatchThreads
<1>keep. \A copy \in {<<>>, thread[p].toNotify} : CopySound(p, copy)
  BY DEF CopySound, Listed
<1>same. ASSUME NEW new, Becomes(p, new), Sound(new), CopySound(p, new.toNotify), NEW w, NEW x,
                \/ UNCHANGED masterTable
                \/ masterTable' = [masterTable EXCEPT ![w].activeSessions = x]
                \/ masterTable' = [masterTable EXCEPT ![w].messagesToReceive = x]
                \/ masterTable' = [masterTable EXCEPT ![w].notificationDelivered = x]
         PROVE  NoNewRowless
  <2>1. RowsStay /\ ListsSound
    BY <1>t, <1>same, OtherFieldsKeepLists, SameListsSound
  <2> QED BY <1>t, <1>same, <2>1, OneThreadKeeps
<1>moves. ASSUME NEW c \in PCs, Becomes(p, [thread[p] EXCEPT !.pc = c]),
                 Sound([thread[p] EXCEPT !.pc = c]), NEW w, NEW x,
                 \/ UNCHANGED masterTable
                 \/ masterTable' = [masterTable EXCEPT ![w].activeSessions = x]
                 \/ masterTable' = [masterTable EXCEPT ![w].messagesToReceive = x]
                 \/ masterTable' = [masterTable EXCEPT ![w].notificationDelivered = x]
          PROVE  NoNewRowless
  <2>1. PICK new : new = [thread[p] EXCEPT !.pc = c]
    OBVIOUS
  <2>2. CopySound(p, new.toNotify)
    BY <1>g, <1>keep, <2>1
  <2> QED BY <1>moves, <2>1, <2>2, <1>same
<1>1. CASE Poll(p) \/ Timeout(p) \/ ReceiveExit(p)
  <2>1. PICK c \in {"poll", "receive", "listen", "close"} :
          Becomes(p, [thread[p] EXCEPT !.pc = c])
    BY <1>1, Zenon DEF Poll, Timeout, ReceiveExit, Goto
  <2>2. c \in PCs /\ Sound([thread[p] EXCEPT !.pc = c])
    BY <1>g DEF PCs
  <2> QED BY <1>1, <1>moves, <2>1, <2>2 DEF Poll, Timeout, ReceiveExit
<1>2. CASE Listen(p) \/ CountOne(p) \/ CountTwo(p) \/ GetNotificationDelivered(p) \/ GetNotification(p)
  <2>1. PICK c \in {"receive", "countOne", "countTwo", "pop", "getDelivered", "setDelivered"} :
          Becomes(p, [thread[p] EXCEPT !.pc = c])
    BY <1>2, Zenon DEF Listen, CountOne, CountTwo, GetNotificationDelivered, GetNotification, Goto
  <2>2. c \in PCs /\ Sound([thread[p] EXCEPT !.pc = c])
    BY <1>g DEF PCs
  <2> QED BY <1>2, <1>moves, <2>1, <2>2
             DEF Listen, CountOne, CountTwo, GetNotificationDelivered, GetNotification
<1>3. CASE HasFollower(p)
  <2>1. PICK c \in {"save", "addFollower"} : Becomes(p, [thread[p] EXCEPT !.pc = c])
    BY <1>3, Zenon DEF HasFollower, Goto
  <2>2. Adding(thread[p])
    BY <1>3 DEF HasFollower, Goto, Adding
  <2>3. c \in PCs /\ Sound([thread[p] EXCEPT !.pc = c])
    BY <1>g, <2>2 DEF PCs
  <2> QED BY <1>3, <1>moves, <2>1, <2>3 DEF HasFollower
<1>4. CASE MarkDelivered(p) \/ PopFront(p)
  <2>1. PICK c \in {"get", "resetDelivered"} : Becomes(p, [thread[p] EXCEPT !.pc = c])
    BY <1>4, Zenon DEF MarkDelivered, PopFront, Goto
  <2>2. c \in PCs /\ Sound([thread[p] EXCEPT !.pc = c])
    BY <1>g DEF PCs
  <2>3. CASE MarkDelivered(p)
    BY <2>1, <2>2, <2>3, <1>moves DEF MarkDelivered
  <2>4. CASE PopFront(p)
    BY <2>1, <2>2, <2>4, <1>moves DEF PopFront
  <2> QED BY <1>4, <2>3, <2>4
<1>5. CASE ReceiveNoop(p)
  <2>1. PICK new : new = [thread[p] EXCEPT !.pc = "poll", !.recievedNoop = TRUE]
    OBVIOUS
  <2>2. Sound(new) /\ new.toNotify = thread[p].toNotify
    BY <1>t, <2>1 DEF Sound, Adding, ThreadType
  <2>3. CopySound(p, new.toNotify)
    BY <1>keep, <2>2
  <2> QED BY <1>5, <2>1, <2>2, <2>3, <1>same DEF ReceiveNoop
<1>6. CASE SaveFollower(p)
  <2>1. PICK new : new = [thread[p] EXCEPT !.pc = "notifySelf", !.following = Nobody]
    OBVIOUS
  <2>2. Sound(new) /\ new.toNotify = thread[p].toNotify
    BY <1>t, <2>1 DEF Sound, Adding, ThreadType
  <2>3. CopySound(p, new.toNotify)
    BY <1>keep, <2>2
  <2> QED BY <1>6, <2>1, <2>2, <2>3, <1>same DEF SaveFollower
<1>7. CASE PopNotification(p)
  <2>1. PICK new : new = [thread[p] EXCEPT !.pc = "popFront",
                                           !.notification = Head(Row(p).messagesToReceive)]
    OBVIOUS
  <2>2. Sound(new) /\ new.toNotify = thread[p].toNotify
    BY <1>t, <2>1 DEF Sound, Adding, ThreadType
  <2>3. CopySound(p, new.toNotify)
    BY <1>keep, <2>2
  <2> QED BY <1>7, <2>1, <2>2, <2>3, <1>same DEF PopNotification
<1>8. CASE NotifySelf(p)
  <2>1. PICK new : new = [thread[p] EXCEPT !.pc = "poll", !.recievedNoop = TRUE]
    OBVIOUS
  <2>2. Sound(new) /\ new.toNotify = thread[p].toNotify
    BY <1>t, <2>1 DEF Sound, Adding, ThreadType
  <2>3. CopySound(p, new.toNotify)
    BY <1>keep, <2>2
  <2> QED BY <1>8, <2>1, <2>2, <2>3, <1>same DEF NotifySelf, AddNotification
<1>9. CASE ResetDelivered(p)
  <2>1. PICK new : new = [thread[p] EXCEPT !.pc = "receive", !.notification = 0]
    OBVIOUS
  <2>2. Sound(new) /\ new.toNotify = thread[p].toNotify
    BY <1>t, <2>1 DEF Sound, Adding, ThreadType
  <2>3. CopySound(p, new.toNotify)
    BY <1>keep, <2>2
  <2> QED BY <1>9, <2>1, <2>2, <2>3, <1>same DEF ResetDelivered
<1>10. CASE CloseSession(p)
  <2>1. PICK new : new = [NewThread(thread[p].profile) EXCEPT !.pc = "closed"]
    OBVIOUS
  <2>2. Sound(new) /\ new.toNotify = <<>>
    BY <2>1 DEF Sound, NewThread, Adding
  <2>3. CopySound(p, new.toNotify)
    BY <1>keep, <2>2
  <2> QED BY <1>10, <2>1, <2>2, <2>3, <1>same DEF CloseSession
<1>11. CASE NotifyFollower(p) \/ MissFollower(p)
  <2>1. PICK new : new = [thread[p] EXCEPT !.pc = IF Len(thread[p].toNotify) = 1 THEN "poll" ELSE @,
                                           !.toNotify = Tail(@)]
    OBVIOUS
  <2>2. /\ thread[p].toNotify \in Seq(Profiles) /\ thread[p].toNotify # <<>>
        /\ thread[p].pc = "notifyFollowers"
    BY <1>11, <1>t DEF NotifyFollower, MissFollower, TypeOK, ThreadType
  <2>3. new.toNotify = Tail(thread[p].toNotify) /\ new.pc \in {"poll", "notifyFollowers"}
    BY <1>t, <2>1, <2>2 DEF ThreadType
  <2>4. CopySound(p, new.toNotify)
    <3>1. ASSUME NEW v, Listed(v, Tail(thread[p].toNotify)) PROVE Listed(v, thread[p].toNotify)
      <4>1. PICK i \in DOMAIN Tail(thread[p].toNotify) : Tail(thread[p].toNotify)[i] = v
        BY <3>1 DEF Listed
      <4>2. i + 1 \in DOMAIN thread[p].toNotify /\ thread[p].toNotify[i + 1] = v
        BY <2>2, <4>1
      <4> QED BY <4>2 DEF Listed
    <3> QED BY <2>3, <3>1 DEF CopySound
  <2>5. Sound(new) /\ Becomes(p, new)
    BY <1>11, <2>1, <2>3 DEF Sound, Adding, NotifyFollower, MissFollower, GoOnNotifying
  <2>6. CASE NotifyFollower(p)
    BY <2>4, <2>5, <2>6, <1>same DEF NotifyFollower, AddNotification
  <2>7. CASE MissFollower(p)
    BY <2>4, <2>5, <2>7, <1>same DEF MissFollower
  <2> QED BY <1>11, <2>6, <2>7
<1>12. CASE ReceiveSend(p)
  <2>1. PICK new : new = [thread[p] EXCEPT !.pc = IF Row(p).followers = <<>> THEN "poll"
                                                  ELSE "notifyFollowers",
                                           !.toNotify = Row(p).followers]
    OBVIOUS
  <2>2. new.toNotify = Row(p).followers /\ Sound(new)
    BY <1>t, <2>1 DEF Sound, Adding, ThreadType
  <2>3. CopySound(p, new.toNotify)
    BY <1>12, <1>row, <2>2 DEF ReceiveSend, CopySound, Row
  <2> QED BY <1>12, <2>1, <2>2, <2>3, <1>same DEF ReceiveSend
<1>13. ASSUME NEW name \in Profiles, ReceiveFollow(p, name) PROVE NoNewRowless
  <2>1. PICK new : /\ Becomes(p, new)
                   /\ \/ /\ new = [thread[p] EXCEPT !.pc = "hasFollower", !.following = name]
                         /\ name \in DOMAIN masterTable
                      \/ new = [thread[p] EXCEPT !.pc = "notifySelf"]
    BY <1>13 DEF ReceiveFollow
  <2>2. Sound(new) /\ new.toNotify = thread[p].toNotify
    BY <1>t, <2>1 DEF Sound, Adding, ThreadType
  <2>3. CopySound(p, new.toNotify)
    BY <1>keep, <2>2
  <2> QED BY <1>13, <2>1, <2>2, <2>3, <1>same DEF ReceiveFollow
<1>14. CASE AddFollower(p)
  <2> DEFINE u == thread[p].profile
             w == thread[p].following
             list == masterTable[w].followers
  <2>1. Becomes(p, [thread[p] EXCEPT !.pc = "save"]) /\ thread[p].pc = "addFollower"
    BY <1>14 DEF AddFollower, Goto
  <2>2. u \in DOMAIN masterTable /\ w \in DOMAIN masterTable
    BY <1>row, <2>1 DEF FollowInv, Adding
  <2>3. /\ DOMAIN masterTable' = DOMAIN masterTable
        /\ \A v \in DOMAIN masterTable :
             masterTable'[v].followers = IF v = w THEN Append(list, u) ELSE masterTable[v].followers
    BY <1>t, <1>14, <2>2 DEF AddFollower, TypeOK, RowType
  <2>4. \A v : Listed(v, Append(list, u)) => v = u \/ Listed(v, list)
    <3>1. list \in Seq(Profiles) /\ u \in Profiles
      BY <1>t, <2>2 DEF TypeOK, RowType
    <3>2. PICK n \in Nat : n = Len(list)
      BY <3>1, LenProperties
    <3>3. /\ DOMAIN list = 1 .. n
          /\ DOMAIN Append(list, u) = 1 .. n + 1
          /\ \A i \in 1 .. n : Append(list, u)[i] = list[i]
          /\ Append(list, u)[n + 1] = u
      BY SMTT(30), <3>1, <3>2, AppendProperties, LenProperties
    <3>4. \A i \in 1 .. n + 1 : i \in 1 .. n \/ i = n + 1
      OBVIOUS
    <3> QED BY <3>3, <3>4 DEF Listed
  <2>5. RowsStay /\ ListsSound
    BY <2>2, <2>3, <2>4 DEF RowsStay, ListsSound
  <2>6. PICK new : new = [thread[p] EXCEPT !.pc = "save"]
    OBVIOUS
  <2>7. Sound(new) /\ CopySound(p, new.toNotify)
    BY <1>g, <1>keep, <2>6 DEF PCs
  <2> QED BY <1>t, <2>1, <2>5, <2>6, <2>7, OneThreadKeeps
<1>15. CASE Crash(p)
  BY <1>15 DEF Crash, NoNewRowless, FollowInv, RowsStay, ListsSound, CopiesSound, CopySound
<1> QED BY <1>1, <1>2, <1>3, <1>4, <1>5, <1>6, <1>7, <1>8, <1>9, <1>10, <1>11, <1>12, <1>13,
           <1>14, <1>15 DEF ThreadStep, ClientStep

-----------------------------------------------------------------------------
LEMMA FollowInvInit == Init => FollowInv
BY DEF Init, NewThread, FollowInv, Adding

LEMMA FollowStep ==
  SessionsAssumption /\ SessionInv /\ FollowInv /\ [Next]_vars => NoNewRowless
<1> SUFFICES ASSUME SessionsAssumption, SessionInv, FollowInv, [Next]_vars PROVE NoNewRowless
  OBVIOUS
<1>1. CASE UNCHANGED vars
  BY <1>1 DEF vars, NoNewRowless, FollowInv, RowsStay, ListsSound, CopiesSound, CopySound
<1>2. CASE ServerLoop \/ \E u \in Profiles : ReceiveConnect(u)
  BY <1>2, LoopKeepsFollowers
<1>3. ASSUME NEW p \in Ports, ThreadStep(p) \/ ClientStep(p) PROVE NoNewRowless
  BY <1>3, ThreadKeepsFollowers
<1> QED BY <1>1, <1>2, <1>3 DEF Next, Running, Stopped

LEMMA FollowInvStep ==
  SessionsAssumption /\ SessionInv /\ FollowInv /\ [Next]_vars => FollowInv'
BY FollowStep DEF NoNewRowless

\* masterTable.find(follower), which SEND follows without a check, finds nothing
\* only for a name whose row the loaded file had lost, whatever other sessions
\* did since the list was copied.
THEOREM RowsAreLostByTheFileOnly == Spec => OnlyTheFileLosesRows
<1>1. Init => FollowInv
  BY FollowInvInit
<1>2. SessionInv /\ FollowInv /\ [Next]_vars => FollowInv'
  BY FollowInvStep, SessionsAssumption
<1>3. SessionInv /\ FollowInv /\ [Next]_vars => [Rowless' \subseteq Rowless]_vars
  <2> SUFFICES ASSUME SessionInv, FollowInv, [Next]_vars, NEW v \in Rowless' PROVE v \in Rowless
    OBVIOUS
  <2>1. RowsStay /\ ListsSound /\ CopiesSound
    BY FollowStep, SessionsAssumption DEF NoNewRowless
  <2>2. v \in Profiles \ DOMAIN masterTable
    BY <2>1 DEF Rowless, RowsStay
  <2>3. CASE \E u \in DOMAIN masterTable' : Listed(v, masterTable'[u].followers)
    BY <2>1, <2>2, <2>3 DEF ListsSound, Rowless
  <2>4. CASE \E p \in Ports : Listed(v, thread'[p].toNotify)
    BY <2>1, <2>2, <2>4 DEF CopiesSound, CopySound, Rowless
  <2> QED BY <2>3, <2>4 DEF Rowless
<1> QED BY <1>1, <1>2, <1>3, SessionInvariant, PTL DEF Spec, OnlyTheFileLosesRows
-----------------------------------------------------------------------------
(* How often a follower is listed. A FOLLOW goes on to the addition only    *)
(* when the follower is not listed; from then on nobody else does, so that  *)
(* those who are under way are all there will be, and they are sessions of  *)
(* one profile.                                                             *)

Adders(u, v) == {p \in Live(v) : thread[p].pc = "addFollower" /\ thread[p].following = u}

LEMMA TimesListed ==
  ASSUME NEW T, NEW list \in Seq(T), NEW v
  PROVE  /\ IsFiniteSet({i \in DOMAIN list : list[i] = v})
         /\ Times(v, list) \in Nat /\ (Times(v, list) = 0 <=> ~Listed(v, list))
<1> DEFINE places == {i \in DOMAIN list : list[i] = v}
<1>1. IsFiniteSet(places)
  <2>1. DOMAIN list = 1 .. Len(list) /\ Len(list) \in Nat
    BY LenProperties
  <2>2. IsFiniteSet(1 .. Len(list))
    BY <2>1, FS_Interval
  <2> QED BY <2>1, <2>2, FS_Subset
<1>2. Cardinality(places) \in Nat /\ (Cardinality(places) = 0 <=> places = {})
  BY <1>1, FS_CardinalityType, FS_EmptySet
<1> QED BY <1>1, <1>2 DEF Times, Listed

LEMMA TimesMore ==
  ASSUME NEW T, NEW list \in Seq(T), NEW x \in T, NEW v
  PROVE  Times(v, Append(list, x)) = IF x = v THEN Times(v, list) + 1 ELSE Times(v, list)
<1> DEFINE old == {i \in DOMAIN list : list[i] = v}
           new == {i \in DOMAIN Append(list, x) : Append(list, x)[i] = v}
<1>1. PICK n \in Nat : n = Len(list)
  BY LenProperties
<1>2. /\ DOMAIN list = 1 .. n /\ DOMAIN Append(list, x) = 1 .. n + 1
      /\ \A i \in 1 .. n : Append(list, x)[i] = list[i]
      /\ Append(list, x)[n + 1] = x
  BY <1>1, AppendProperties, LenProperties
<1>3. new = IF x = v THEN old \cup {n + 1} ELSE old
  <2>1. 1 .. n + 1 = 1 .. n \cup {n + 1}
    OBVIOUS
  <2> QED BY <1>2, <2>1
<1>4. IsFiniteSet(old) /\ n + 1 \notin old
  <2>1. IsFiniteSet(old)
    BY TimesListed
  <2>2. n + 1 \notin old
    BY <1>2
  <2> QED BY <2>1, <2>2
<1>5. Cardinality(old \cup {n + 1}) = Cardinality(old) + 1
  BY <1>4, FS_AddElement
<1> QED BY <1>3, <1>5 DEF Times

\* Those who are about to list a follower are no more than it has sessions.
LEMMA NotYetListed ==
  ASSUME SessionsAssumption, NEW live \in SUBSET Ports, NEW adders \in SUBSET live,
         Cardinality(live) <= MaxSessions
  PROVE  IsFiniteSet(adders) /\ Cardinality(adders) \in Nat /\ Cardinality(adders) <= MaxSessions
<1>1. IsFiniteSet(live) /\ Cardinality(live) \in Nat
  BY FinitePorts
<1>2. IsFiniteSet(adders) /\ Cardinality(adders) \in Nat
  BY FinitePorts
<1>3. Cardinality(adders) <= Cardinality(live)
  BY <1>1, FS_Subset
<1> QED BY <1>1, <1>2, <1>3 DEF SessionsAssumption

\* Who is about to add a follower was so before, or has just found it not listed.
StillAdds ==
  \A q \in Ports : thread'[q].pc = "addFollower" =>
    /\ thread'[q].following = thread[q].following /\ thread'[q].profile = thread[q].profile
    /\ \/ thread[q].pc = "addFollower"
       \/ ~Listed(thread[q].profile, masterTable[thread[q].following].followers)

\* Nobody's list changes, and who is new has an empty one.
ListsStay ==
  /\ DOMAIN masterTable \subseteq DOMAIN masterTable'
  /\ \A u \in DOMAIN masterTable : masterTable'[u].followers = masterTable[u].followers
  /\ \A u \in DOMAIN masterTable' \ DOMAIN masterTable : masterTable'[u].followers = <<>>

FewOf(u, v) == Times(v, masterTable[u].followers) + Cardinality(Adders(u, v)) <= MaxSessions

LEMMA FewIs == FewDuplicates <=> \A u \in DOMAIN masterTable, v \in Profiles : FewOf(u, v)
BY DEF FewDuplicates, FewOf, Adders

LEMMA ListsStayFew ==
  ASSUME SessionsAssumption, SessionInv, SessionInv', FewDuplicates, StillAdds, ListsStay
  PROVE  FewDuplicates'
<1> SUFFICES ASSUME NEW u \in DOMAIN masterTable', NEW v \in Profiles
             PROVE  FewOf(u, v)'
  BY DEF FewDuplicates, FewOf, Adders
<1>1. PICK list, adders, few :
        list = masterTable'[u].followers /\ adders = Adders(u, v)' /\ few = MaxSessions
  OBVIOUS
<1>2. few \in Nat /\ IsFiniteSet(adders) /\ Cardinality(adders) \in Nat /\ Cardinality(adders) <= few
  <2>1. PICK live \in SUBSET Ports : live = Live(v)'
    BY DEF Live
  <2>2. Cardinality(live) <= MaxSessions
    <3>1. CASE v \in DOMAIN masterTable'
      BY <2>1, <3>1 DEF SessionInv, SessionsMatchThreads, SessionCap
    <3>2. CASE v \notin DOMAIN masterTable'
      <4>1. live = {}
        BY <2>1, <3>2 DEF Live, SessionInv, SessionsMatchThreads
      <4> QED BY <4>1, FS_EmptySet DEF SessionsAssumption
    <3> QED BY <3>1, <3>2
  <2>3. adders \subseteq live
    BY <1>1, <2>1 DEF Adders
  <2> QED BY <1>1, <2>2, <2>3, NotYetListed DEF SessionsAssumption
<1>3. CASE u \in DOMAIN masterTable /\ Listed(v, list)
  <2>1. list = masterTable[u].followers /\ list \in Seq(Profiles)
    BY <1>1, <1>3 DEF ListsStay, SessionInv, TypeOK, RowType
  <2>3. FewOf(u, v)
    BY <1>3, FewIs
  <2>4. adders \subseteq Adders(u, v)
    <3>1. ASSUME NEW q \in adders PROVE q \in Adders(u, v)
      <4>1. q \in Ports /\ thread'[q].pc = "addFollower" /\ thread'[q].following = u /\ thread'[q].profile = v
        BY <1>1, <3>1 DEF Adders, Live
      <4>2. thread[q].following = u /\ thread[q].profile = v
        BY <4>1 DEF StillAdds
      <4>3. thread[q].pc = "addFollower"
        BY <1>3, <2>1, <4>1, <4>2 DEF StillAdds
      <4> QED BY <4>1, <4>2, <4>3 DEF Adders, Live
    <3> QED BY <3>1
  <2>5. IsFiniteSet(Adders(u, v)) /\ Cardinality(Adders(u, v)) \in Nat
    <3>1. Adders(u, v) \subseteq Ports
      BY DEF Adders, Live
    <3> QED BY <3>1, FinitePorts
  <2>6. Cardinality(adders) <= Cardinality(Adders(u, v))
    BY <2>4, <2>5, FS_Subset
  <2>7. Times(v, list) \in Nat
    BY <2>1, TimesListed
  <2>8. Times(v, list) + Cardinality(Adders(u, v)) <= few
    BY <1>1, <2>1, <2>3 DEF FewOf
  <2>9. Times(v, list) + Cardinality(adders) <= few
    BY <1>2, <2>5, <2>6, <2>7, <2>8
  <2> QED BY <1>1, <2>9 DEF FewOf
<1>4. CASE ~(u \in DOMAIN masterTable /\ Listed(v, list))
  <2>1. Times(v, list) = 0
    <3>1. CASE u \in DOMAIN masterTable
      <4>1. list \in Seq(Profiles)
        BY <1>1, <3>1 DEF ListsStay, SessionInv, TypeOK, RowType
      <4> QED BY <1>4, <3>1, <4>1, TimesListed
    <3>2. CASE u \notin DOMAIN masterTable
      <4>1. list \in Seq({}) /\ ~Listed(v, list)
        <5>1. list = <<>>
          BY <1>1, <3>2 DEF ListsStay
        <5>2. DOMAIN <<>> = {}
          OBVIOUS
        <5> QED BY <5>1, <5>2, EmptySeq DEF Listed
      <4> QED BY <4>1, TimesListed
    <3> QED BY <3>1, <3>2
  <2> QED BY <1>1, <1>2, <2>1 DEF FewOf
<1> QED BY <1>3, <1>4

LEMMA OneThreadStays ==
  ASSUME TypeOK, NEW p \in Ports, NEW new, Becomes(p, new), new.pc # "addFollower", NEW w, NEW x,
         \/ UNCHANGED masterTable
         \/ masterTable' = [masterTable EXCEPT ![w].activeSessions = x]
         \/ masterTable' = [masterTable EXCEPT ![w].messagesToReceive = x]
         \/ masterTable' = [masterTable EXCEPT ![w].notificationDelivered = x]
  PROVE  StillAdds /\ ListsStay
<1>1. SameLists
  BY OtherFieldsKeepLists
<1>2. thread'[p] = new /\ \A q \in Ports \ {p} : thread'[q] = thread[q]
  BY DEF TypeOK, Becomes
<1>3. StillAdds
  BY <1>2 DEF StillAdds
<1> QED BY <1>1, <1>3 DEF SameLists, ListsStay

LEMMA ThreadKeepsLists ==
  ASSUME TypeOK, NEW p \in Ports, ThreadStep(p) \/ ClientStep(p), ~AddFollower(p)
  PROVE  StillAdds /\ ListsStay
<1>t. thread[p] \in ThreadType
  BY DEF TypeOK
<1>c. \A c : [thread[p] EXCEPT !.pc = c].pc = c
  BY <1>t DEF ThreadType
<1>1. CASE \/ Poll(p) \/ Timeout(p) \/ ReceiveExit(p) \/ Listen(p) \/ CountOne(p) \/ CountTwo(p)
           \/ GetNotificationDelivered(p) \/ GetNotification(p)
  <2>1. PICK c \in {"poll", "receive", "listen", "close", "countOne", "countTwo", "pop", "getDelivered",
                    "setDelivered"} : Becomes(p, [thread[p] EXCEPT !.pc = c])
    BY <1>1, Zenon DEF Poll, Timeout, ReceiveExit, Listen, CountOne, CountTwo,
                       GetNotificationDelivered, GetNotification, Goto
  <2>2. UNCHANGED masterTable
    BY <1>1 DEF Poll, Timeout, ReceiveExit, Listen, CountOne, CountTwo,
                GetNotificationDelivered, GetNotification
  <2>3. [thread[p] EXCEPT !.pc = c].pc # "addFollower"
    BY <1>c, <2>1
  <2> QED BY <2>1, <2>2, <2>3, OneThreadStays
<1>2. CASE HasFollower(p)
  <2>1. SameLists
    BY <1>2, OtherFieldsKeepLists DEF HasFollower
  <2>2. PICK c : /\ Becomes(p, [thread[p] EXCEPT !.pc = c])
                 /\ c = "addFollower" =>
                      ~Listed(thread[p].profile, masterTable[thread[p].following].followers)
    BY <1>2 DEF HasFollower, Goto
  <2>3. PICK new : new = [thread[p] EXCEPT !.pc = c]
    OBVIOUS
  <2>4. new.pc = c /\ new.following = thread[p].following /\ new.profile = thread[p].profile
    BY <1>t, <2>3 DEF ThreadType
  <2>5. thread'[p] = new /\ \A q \in Ports \ {p} : thread'[q] = thread[q]
    BY <2>2, <2>3 DEF TypeOK, Becomes
  <2>6. StillAdds
    BY <2>2, <2>4, <2>5 DEF StillAdds
  <2> QED BY <2>1, <2>6 DEF SameLists, ListsStay
<1>3. CASE MarkDelivered(p) \/ PopFront(p)
  <2>1. PICK c \in {"get", "resetDelivered"} : Becomes(p, [thread[p] EXCEPT !.pc = c])
    BY <1>3, Zenon DEF MarkDelivered, PopFront, Goto
  <2>2. [thread[p] EXCEPT !.pc = c].pc # "addFollower"
    BY <1>c, <2>1
  <2>3. CASE MarkDelivered(p)
    BY <2>1, <2>2, <2>3, OneThreadStays DEF MarkDelivered
  <2>4. CASE PopFront(p)
    BY <2>1, <2>2, <2>4, OneThreadStays DEF PopFront
  <2> QED BY <1>3, <2>3, <2>4
<1>4. CASE ReceiveNoop(p)
  <2>1. [thread[p] EXCEPT !.pc = "poll", !.recievedNoop = TRUE].pc # "addFollower"
    BY <1>t DEF ThreadType
  <2> QED BY <1>4, <2>1, OneThreadStays DEF ReceiveNoop
<1>5. CASE SaveFollower(p)
  <2>1. [thread[p] EXCEPT !.pc = "notifySelf", !.following = Nobody].pc # "addFollower"
    BY <1>t DEF ThreadType
  <2> QED BY <1>5, <2>1, OneThreadStays DEF SaveFollower
<1>6. CASE PopNotification(p)
  <2>1. [thread[p] EXCEPT !.pc = "popFront", !.notification = Head(Row(p).messagesToReceive)].pc
          # "addFollower"
    BY <1>t DEF ThreadType
  <2> QED BY <1>6, <2>1, OneThreadStays DEF PopNotification
<1>7. CASE NotifySelf(p)
  <2>1. [thread[p] EXCEPT !.pc = "poll", !.recievedNoop = TRUE].pc # "addFollower"
    BY <1>t DEF ThreadType
  <2> QED BY <1>7, <2>1, OneThreadStays DEF NotifySelf, AddNotification
<1>8. CASE ResetDelivered(p)
  <2>1. [thread[p] EXCEPT !.pc = "receive", !.notification = 0].pc # "addFollower"
    BY <1>t DEF ThreadType
  <2> QED BY <1>8, <2>1, OneThreadStays DEF ResetDelivered
<1>9. CASE CloseSession(p)
  <2>1. [NewThread(thread[p].profile) EXCEPT !.pc = "closed"].pc # "addFollower"
    BY DEF NewThread
  <2> QED BY <1>9, <2>1, OneThreadStays DEF CloseSession
<1>10. CASE NotifyFollower(p) \/ MissFollower(p)
  <2>1. [thread[p] EXCEPT !.pc = IF Len(thread[p].toNotify) = 1 THEN "poll" ELSE @,
                          !.toNotify = Tail(@)].pc # "addFollower"
    BY <1>t, <1>10 DEF ThreadType, NotifyFollower, MissFollower
  <2>2. CASE NotifyFollower(p)
    BY <2>1, <2>2, OneThreadStays DEF NotifyFollower, GoOnNotifying, AddNotification
  <2>3. CASE MissFollower(p)
    BY <2>1, <2>3, OneThreadStays DEF MissFollower, GoOnNotifying
  <2> QED BY <1>10, <2>2, <2>3
<1>11. CASE ReceiveSend(p)
  <2>1. [thread[p] EXCEPT !.pc = IF Row(p).followers = <<>> THEN "poll" ELSE "notifyFollowers",
                          !.toNotify = Row(p).followers].pc # "addFollower"
    BY <1>t DEF ThreadType
  <2> QED BY <1>11, <2>1, OneThreadStays DEF ReceiveSend
<1>12. ASSUME NEW name \in Profiles, ReceiveFollow(p, name) PROVE StillAdds /\ ListsStay
  <2>1. /\ [thread[p] EXCEPT !.pc = "hasFollower", !.following = name].pc # "addFollower"
        /\ [thread[p] EXCEPT !.pc = "notifySelf"].pc # "addFollower"
    BY <1>t DEF ThreadType
  <2> QED BY <1>12, <2>1, OneThreadStays DEF ReceiveFollow
<1>13. CASE Crash(p)
  BY <1>13 DEF Crash, StillAdds, ListsStay
<1> QED BY <1>1, <1>2, <1>3, <1>4, <1>5, <1>6, <1>7, <1>8, <1>9, <1>10, <1>11, <1>12, <1>13
        DEF ThreadStep, ClientStep

LEMMA LoopKeepsLists ==
  ASSUME SessionsAssumption, SessionInv, ServerLoop \/ \E u \in Profiles : ReceiveConnect(u)
  PROVE  StillAdds /\ ListsStay
<1>t. TypeOK
  BY DEF SessionInv
<1>1. CASE SaveNewRow \/ CountSessions \/ \E u \in Profiles : ReceiveConnect(u)
  <2>1. UNCHANGED <<masterTable, thread>>
    BY <1>1 DEF SaveNewRow, CountSessions, ReceiveConnect
  <2> QED BY <2>1 DEF StillAdds, ListsStay
<1>2. CASE InsertRow
  <2>1. loop.profile \notin DOMAIN masterTable
    BY <1>2 DEF InsertRow, SessionInv, LoopHoldsRow
  <2>2. /\ DOMAIN masterTable' = DOMAIN masterTable \cup {loop.profile}
        /\ \A u \in DOMAIN masterTable' :
             masterTable'[u].followers = IF u = loop.profile THEN <<>> ELSE masterTable[u].followers
        /\ thread' = thread
    BY <1>2 DEF InsertRow, NewRow
  <2>3. ListsStay
    BY <2>1, <2>2 DEF ListsStay
  <2> QED BY <2>2, <2>3 DEF StillAdds
<1>3. CASE StartSession
  <2>1. nextClientPort \in Ports
    BY <1>3 DEF StartSession, SessionInv, LoopHoldsRow, TypeOK, Ports, SessionsAssumption
  <2>2. NewThread(loop.profile).pc # "addFollower"
    BY DEF NewThread
  <2> QED BY <1>t, <1>3, <2>1, <2>2, OneThreadStays DEF StartSession
<1> QED BY <1>1, <1>2, <1>3 DEF ServerLoop

\* The one who adds is one less of those who were about to.
LEMMA AddKeepsFew ==
  ASSUME SessionsAssumption, SessionInv, FollowInv, FewDuplicates, NEW p \in Ports, AddFollower(p)
  PROVE  FewDuplicates'
<1>1. TypeOK /\ thread[p] \in ThreadType
  BY DEF SessionInv, TypeOK
<1>2. PICK x, w : x = thread[p].profile /\ w = thread[p].following
  OBVIOUS
<1>3. Becomes(p, [thread[p] EXCEPT !.pc = "save"]) /\ thread[p].pc = "addFollower"
  BY DEF AddFollower, Goto
<1>4. x \in Profiles /\ w \in DOMAIN masterTable
  BY <1>1, <1>2, <1>3 DEF FollowInv, Adding, SessionInv, SessionsMatchThreads, TypeOK
<1>5. /\ DOMAIN masterTable' = DOMAIN masterTable
      /\ \A u \in DOMAIN masterTable :
           masterTable'[u].followers =
             IF u = w THEN Append(masterTable[u].followers, x) ELSE masterTable[u].followers
  BY <1>1, <1>2, <1>4 DEF AddFollower, TypeOK, RowType
<1>6. /\ thread'[p].pc = "save" /\ thread'[p].profile = x
      /\ \A q \in Ports \ {p} : thread'[q] = thread[q]
  <2>1. PICK new : new = [thread[p] EXCEPT !.pc = "save"]
    OBVIOUS
  <2>2. new.pc = "save" /\ new.profile = x
    BY <1>1, <1>2, <2>1 DEF ThreadType
  <2>3. thread'[p] = new /\ \A q \in Ports \ {p} : thread'[q] = thread[q]
    BY <1>1, <1>3, <2>1 DEF TypeOK, Becomes
  <2> QED BY <2>2, <2>3
<1> SUFFICES ASSUME NEW u \in DOMAIN masterTable, NEW v \in Profiles
             PROVE  FewOf(u, v)'
  BY <1>5 DEF FewDuplicates, FewOf, Adders
<1>7. Adders(u, v)' = Adders(u, v) \ {p}
  <2>1. p \notin Adders(u, v)'
    BY <1>6 DEF Adders
  <2>2. ASSUME NEW q \in Ports \ {p} PROVE q \in Adders(u, v)' <=> q \in Adders(u, v)
    BY <1>6 DEF Adders, Live
  <2>3. Adders(u, v) \subseteq Ports /\ Adders(u, v)' \subseteq Ports
    BY DEF Adders, Live
  <2> QED BY <2>1, <2>2, <2>3
<1>8. PICK list : list = masterTable[u].followers
  OBVIOUS
<1>9. PICK adders \in SUBSET Ports : adders = Adders(u, v)
  <2>1. Adders(u, v) \subseteq Ports
    BY DEF Adders, Live
  <2> QED BY <2>1
<1>10. PICK few \in Nat : few = MaxSessions
  BY DEF SessionsAssumption
<1>11. IsFiniteSet(adders) /\ Cardinality(adders) \in Nat
  BY FinitePorts
<1>12. list \in Seq(Profiles)
  BY <1>1, <1>8 DEF TypeOK, RowType
<1>13. Times(v, list) \in Nat
  BY <1>12, TimesListed
<1>14. Times(v, list) + Cardinality(adders) <= few
  BY <1>8, <1>9, <1>10 DEF FewDuplicates, Adders
<1>15. CASE u = w /\ v = x
  <2>1. p \in adders
    BY <1>2, <1>3, <1>15, <1>9 DEF Adders, Live
  <2>2. Cardinality(adders \ {p}) = Cardinality(adders) - 1
    BY <1>11, <2>1, FS_RemoveElement
  <2>3. Times(v, Append(list, x)) = Times(v, list) + 1
    BY <1>4, <1>12, <1>15, TimesMore
  <2>4. masterTable'[u].followers = Append(list, x)
    BY <1>5, <1>8, <1>15
  <2>5. Times(v, Append(list, x)) + Cardinality(adders \ {p}) <= few
    BY <1>11, <1>13, <1>14, <2>2, <2>3
  <2> QED BY <1>7, <1>9, <1>10, <2>4, <2>5 DEF FewOf
<1>16. CASE ~(u = w /\ v = x)
  <2>1. p \notin adders
    BY <1>2, <1>16, <1>9 DEF Adders, Live
  <2>2. adders \ {p} = adders
    BY <2>1
  <2>3. Times(v, masterTable'[u].followers) = Times(v, list)
    <3>1. CASE u = w
      <4>1. x # v
        BY <1>16, <3>1
      <4>2. Times(v, Append(list, x)) = Times(v, list)
        BY <1>4, <1>12, <4>1, TimesMore
      <4> QED BY <1>5, <1>8, <3>1, <4>2
    <3>2. CASE u # w
      BY <1>5, <1>8, <3>2
    <3> QED BY <3>1, <3>2
  <2> QED BY <1>7, <1>14, <1>9, <1>10, <2>2, <2>3 DEF FewOf
<1> QED BY <1>15, <1>16

LEMMA FewInit == ASSUME SessionsAssumption, BackupsAssumption, Init PROVE FewDuplicates
<1>1. PICK table \in Backups :
        masterTable = [u \in DOMAIN table |-> [NewRow EXCEPT !.followers = table[u]]]
  BY DEF Init
<1>2. /\ DOMAIN masterTable = DOMAIN table
      /\ \A u \in DOMAIN table : masterTable[u].followers = table[u]
  BY <1>1 DEF NewRow
<1> SUFFICES ASSUME NEW u \in DOMAIN table, NEW v \in Profiles PROVE FewOf(u, v)
  BY <1>2, FewIs
<1>3. Adders(u, v) = {}
  BY DEF Init, NewThread, Adders, Live
<1>4. PICK list \in Seq(Profiles), few \in Nat :
        list = masterTable[u].followers /\ few = MaxSessions /\ Times(v, list) <= few
  <2>1. table[u] \in Seq(Profiles \ {u})
    BY DEF SessionsAssumption
  <2>2. table[u] \in Seq(Profiles)
    BY <2>1
  <2> QED BY <1>2, <2>2 DEF BackupsAssumption, SessionsAssumption
<1>5. Times(v, list) \in Nat /\ Cardinality({}) = 0
  BY TimesListed, FS_EmptySet
<1>6. Times(v, list) + Cardinality({}) <= few
  BY <1>4, <1>5
<1> QED BY <1>3, <1>4, <1>6 DEF FewOf

\* Two sessions that follow at once may list their profile twice; no number of
\* sessions, FOLLOWs and restarts lists it more often than MAX_CONNECTIONS_OF_SAME_USER.
THEOREM DuplicatesAreFew == Spec => []FewDuplicates
<1>1. Init => FewDuplicates
  BY FewInit, SessionsAssumption, BackupsAssumption
<1>2. SessionInv /\ SessionInv' /\ FollowInv /\ FewDuplicates /\ [Next]_vars => FewDuplicates'
  <2> SUFFICES ASSUME SessionInv, SessionInv', FollowInv, FewDuplicates, [Next]_vars
               PROVE  FewDuplicates'
    OBVIOUS
  <2>1. CASE UNCHANGED vars
    <3>1. StillAdds /\ ListsStay
      BY <2>1 DEF vars, StillAdds, ListsStay
    <3> QED BY <3>1, ListsStayFew, SessionsAssumption
  <2>2. CASE ServerLoop \/ \E u \in Profiles : ReceiveConnect(u)
    <3>1. StillAdds /\ ListsStay
      BY <2>2, LoopKeepsLists, SessionsAssumption
    <3> QED BY <3>1, ListsStayFew, SessionsAssumption
  <2>3. ASSUME NEW p \in Ports, ThreadStep(p) \/ ClientStep(p) PROVE FewDuplicates'
    <3>1. CASE AddFollower(p)
      BY <3>1, AddKeepsFew, SessionsAssumption
    <3>2. CASE ~AddFollower(p)
      <4>1. StillAdds /\ ListsStay
        BY <2>3, <3>2, ThreadKeepsLists DEF SessionInv
      <4> QED BY <4>1, ListsStayFew, SessionsAssumption
    <3> QED BY <3>1, <3>2
  <2> QED BY <2>1, <2>2, <2>3 DEF Next, Running, Stopped
<1>3. Init => FollowInv
  BY FollowInvInit
<1>4. SessionInv /\ FollowInv /\ [Next]_vars => FollowInv'
  BY FollowInvStep, SessionsAssumption
<1> QED BY <1>1, <1>2, <1>3, <1>4, SessionInvariant, PTL DEF Spec
-----------------------------------------------------------------------------
(* What the sessions are sent. A list holds the numbers behind the last one *)
(* that was popped, so what is sent, the head or what was the head a moment *)
(* ago, is at most one ahead of what was popped, and that never goes back.  *)

Messages(u) == masterTable[u].messagesToReceive
Popped(u) == posted[u] - Len(Messages(u))

NumbersFrom(list, k) == \A i \in 1 .. Len(list) : list[i] = k + i
Numbered ==
  /\ \A u \in DOMAIN masterTable : Popped(u) \in Nat /\ NumbersFrom(Messages(u), Popped(u))
  /\ \A u \in Profiles \ DOMAIN masterTable : posted[u] = 0

Popping(locals) == locals.pc \in {"popFront", "resetDelivered"}
NotAhead(p) ==
  /\ thread[p].pc = "none" => lastSent[p] = 0
  /\ thread[p].pc # "none" => lastSent[p] <= Popped(thread[p].profile) + 1
  /\ Popping(thread[p]) => /\ lastSent[p] <= thread[p].notification
                           /\ thread[p].notification <= Popped(thread[p].profile) + 1
NothingAhead == \A p \in Ports : NotAhead(p)
OrderInv == Numbered /\ NothingAhead

-----------------------------------------------------------------------------
(* What a step does, as far as the notifications are concerned.             *)

\* Where a session goes that is not alone.
Shared == {"countTwo", "getDelivered", "setDelivered", "get"}

\* A thread that neither starts nor pops, though it may end.
Kept(q) ==
  /\ thread'[q].profile = thread[q].profile
  /\ \A c \in {"none", "popFront", "resetDelivered"} : thread'[q].pc = c <=> thread[q].pc = c
  /\ thread[q].pc = "closed" => thread'[q].pc = "closed"
  /\ Popping(thread[q]) => thread'[q].notification = thread[q].notification
  /\ thread'[q].pc \in Shared =>
       thread[q].pc \in Shared
         \/ (thread[q].pc = "countOne" /\ Cardinality(Row(q).activeSessions) # 1)
KeptBut(p) == \A q \in Ports \ {p} : thread'[q] = thread[q]

SameMessages ==
  /\ DOMAIN masterTable' = DOMAIN masterTable
  /\ \A u \in DOMAIN masterTable : Messages(u)' = Messages(u)
ListsKept ==
  /\ DOMAIN masterTable \subseteq DOMAIN masterTable'
  /\ \A u \in DOMAIN masterTable : Messages(u)' = Messages(u)
  /\ \A u \in DOMAIN masterTable' \ DOMAIN masterTable : Messages(u)' = <<>>
LoopGoesOn == loop'.pc # "receive" => loop.pc # "receive" /\ loop'.profile = loop.profile

Quietly == /\ ListsKept /\ LoopGoesOn /\ UNCHANGED <<posted, lastSent>>
           /\ \A q \in Ports : Kept(q)
Connects(u) == /\ u \in DOMAIN masterTable =>
                    Cardinality(masterTable[u].activeSessions) < ClientsPerProfile[u]
               /\ loop'.profile = u
               /\ UNCHANGED <<masterTable, thread, posted, lastSent>>
Starts(p) == /\ thread[p].pc = "none" /\ loop.pc # "receive" /\ loop.profile \in DOMAIN masterTable
             /\ thread'[p].pc = "poll" /\ thread'[p].profile = loop.profile
             /\ KeptBut(p) /\ SameMessages /\ loop'.pc = "receive" /\ UNCHANGED <<posted, lastSent>>
Posts(u) ==
  /\ u \in DOMAIN masterTable
  /\ posted' = [posted EXCEPT ![u] = @ + 1]
  /\ DOMAIN masterTable' = DOMAIN masterTable
  /\ \A w \in DOMAIN masterTable :
       Messages(w)' = IF w = u THEN Append(Messages(w), posted[u] + 1) ELSE Messages(w)
  /\ UNCHANGED <<loop, lastSent>>
  /\ \A q \in Ports : Kept(q)
Gets(p) == /\ thread[p].pc = "get" /\ Messages(thread[p].profile) # <<>>
           /\ lastSent' = [lastSent EXCEPT ![p] = Head(Messages(thread[p].profile))]
           /\ SameMessages /\ UNCHANGED <<loop, posted>>
           /\ \A q \in Ports : Kept(q)
Moves(p, from, to) == /\ thread[p].pc = from /\ thread'[p].pc = to
                      /\ thread'[p].profile = thread[p].profile
                      /\ KeptBut(p) /\ UNCHANGED <<loop, posted>>
Fronts(p) == /\ Moves(p, "pop", "popFront") /\ Messages(thread[p].profile) # <<>>
             /\ thread'[p].notification = Head(Messages(thread[p].profile))
             /\ SameMessages /\ UNCHANGED lastSent
Pops(p) ==
  /\ Moves(p, "popFront", "resetDelivered") /\ Messages(thread[p].profile) # <<>>
  /\ thread'[p].notification = thread[p].notification
  /\ DOMAIN masterTable' = DOMAIN masterTable
  /\ \A w \in DOMAIN masterTable :
       Messages(w)' = IF w = thread[p].profile THEN Tail(Messages(w)) ELSE Messages(w)
  /\ UNCHANGED lastSent
Resets(p) == /\ Moves(p, "resetDelivered", "receive")
             /\ lastSent' = [lastSent EXCEPT ![p] = thread[p].notification]
             /\ SameMessages

SomeEffect == \/ Quietly
              \/ \E u \in Profiles : Connects(u) \/ Posts(u)
              \/ \E p \in Ports : Starts(p) \/ Gets(p) \/ Fronts(p) \/ Pops(p) \/ Resets(p)

\* Setting another field of a row leaves every row its notifications.
LEMMA OtherFieldsKeepMessages ==
  ASSUME TypeOK, NEW w, NEW x,
         \/ UNCHANGED masterTable
         \/ masterTable' = [masterTable EXCEPT ![w].activeSessions = x]
         \/ masterTable' = [masterTable EXCEPT ![w].followers = x]
         \/ masterTable' = [masterTable EXCEPT ![w].notificationDelivered = x]
  PROVE  SameMessages
<1>1. CASE UNCHANGED masterTable
  BY <1>1 DEF SameMessages, Messages
<1>2. CASE masterTable' = [masterTable EXCEPT ![w].activeSessions = x]
  BY <1>2 DEF TypeOK, RowType, SameMessages, Messages
<1>3. CASE masterTable' = [masterTable EXCEPT ![w].followers = x]
  BY <1>3 DEF TypeOK, RowType, SameMessages, Messages
<1>4. CASE masterTable' = [masterTable EXCEPT ![w].notificationDelivered = x]
  BY <1>4 DEF TypeOK, RowType, SameMessages, Messages
<1> QED BY <1>1, <1>2, <1>3, <1>4

LEMMA OneGoesOn ==
  ASSUME TypeOK, NEW p \in Ports, NEW new, Becomes(p, new), new.profile = thread[p].profile,
         thread[p].pc \notin {"none", "closed", "popFront", "resetDelivered"},
         new.pc \notin {"none", "popFront", "resetDelivered"},
         new.pc \in Shared =>
           thread[p].pc \in Shared
             \/ (thread[p].pc = "countOne" /\ Cardinality(Row(p).activeSessions) # 1)
  PROVE  \A q \in Ports : Kept(q)
<1>1. thread'[p] = new /\ \A q \in Ports \ {p} : thread'[q] = thread[q]
  BY DEF TypeOK, Becomes
<1>2. Kept(p)
  BY <1>1 DEF Kept, Popping
<1>3. ASSUME NEW q \in Ports \ {p} PROVE Kept(q)
  BY <1>1 DEF Kept, Popping
<1> QED BY <1>2, <1>3

\* A step of a thread that leaves the lists of notifications alone and sends none.
LEMMA OneQuietly ==
  ASSUME TypeOK, NEW p \in Ports, NEW new, Becomes(p, new), new.profile = thread[p].profile,
         thread[p].pc \notin {"none", "closed", "popFront", "resetDelivered"},
         new.pc \notin Shared \cup {"none", "popFront", "resetDelivered"}, NEW w, NEW x,
         \/ UNCHANGED masterTable
         \/ masterTable' = [masterTable EXCEPT ![w].activeSessions = x]
         \/ masterTable' = [masterTable EXCEPT ![w].followers = x]
         \/ masterTable' = [masterTable EXCEPT ![w].notificationDelivered = x],
         UNCHANGED <<loop, posted, lastSent>>
  PROVE  Quietly
<1>1. SameMessages
  BY OtherFieldsKeepMessages
<1>2. \A q \in Ports : Kept(q)
  BY OneGoesOn
<1>3. LoopGoesOn
  BY DEF LoopGoesOn
<1> QED BY <1>1, <1>2, <1>3 DEF Quietly, SameMessages, ListsKept

-----------------------------------------------------------------------------
\* The steps of a thread that concern no notification, or read one.
LEMMA QuietThread ==
  ASSUME TypeOK, NEW p \in Ports, ThreadStep(p) \/ ClientStep(p),
         ~(NotifySelf(p) \/ NotifyFollower(p) \/ PopNotification(p) \/ PopFront(p) \/ ResetDelivered(p))
  PROVE  Quietly \/ Gets(p)
<1>t. thread[p] \in ThreadType
  BY DEF TypeOK
<1>c. \A c : LET new == [thread[p] EXCEPT !.pc = c]
             IN  new.pc = c /\ new.profile = thread[p].profile
  BY <1>t DEF ThreadType
<1>1. CASE Poll(p) \/ Timeout(p) \/ ReceiveExit(p) \/ Listen(p) \/ HasFollower(p)
  <2>1. PICK c \in {"poll", "receive", "listen", "close", "countOne", "save", "addFollower"} :
          Becomes(p, [thread[p] EXCEPT !.pc = c])
    BY <1>1, Zenon DEF Poll, Timeout, ReceiveExit, Listen, HasFollower, Goto
  <2>2. /\ thread[p].pc \in {"poll", "receive", "listen", "hasFollower"}
        /\ UNCHANGED <<masterTable, loop, posted, lastSent>>
    BY <1>1 DEF Poll, Timeout, ReceiveExit, Listen, HasFollower, Goto
  <2>3. PICK new : new = [thread[p] EXCEPT !.pc = c]
    OBVIOUS
  <2>4. new.pc = c /\ new.profile = thread[p].profile
    BY <1>c, <2>3
  <2> QED BY <2>1, <2>2, <2>3, <2>4, OneQuietly DEF Shared
<1>2. CASE CountOne(p) \/ CountTwo(p) \/ GetNotificationDelivered(p) \/ MarkDelivered(p) \/ GetNotification(p)
  <2>1. PICK c \in Shared \cup {"pop", "receive"} :
          /\ Becomes(p, [thread[p] EXCEPT !.pc = c])
          /\ thread[p].pc = "countOne" /\ c # "pop" => Cardinality(Row(p).activeSessions) # 1
    <3>1. CASE CountOne(p) \/ CountTwo(p)
      BY <3>1, Zenon DEF CountOne, CountTwo, Goto, Shared
    <3>2. CASE GetNotificationDelivered(p) \/ MarkDelivered(p) \/ GetNotification(p)
      BY <3>2, Zenon DEF GetNotificationDelivered, MarkDelivered, GetNotification, Goto, Shared
    <3> QED BY <1>2, <3>1, <3>2
  <2>2. /\ thread[p].pc \in Shared \cup {"countOne"}
        /\ UNCHANGED <<loop, posted>>
    BY <1>2 DEF CountOne, CountTwo, GetNotificationDelivered, MarkDelivered, GetNotification, Goto, Shared
  <2>3. SameMessages
    BY <1>2, OtherFieldsKeepMessages
       DEF CountOne, CountTwo, GetNotificationDelivered, MarkDelivered, GetNotification
  <2>4. \A q \in Ports : Kept(q)
    <3>1. PICK new : new = [thread[p] EXCEPT !.pc = c]
      OBVIOUS
    <3>2. new.pc = c /\ new.profile = thread[p].profile
      BY <1>c, <3>1
    <3> QED BY <2>1, <2>2, <3>1, <3>2, OneGoesOn DEF Shared
  <2>5. CASE UNCHANGED lastSent
    BY <2>2, <2>3, <2>4, <2>5 DEF Quietly, SameMessages, ListsKept, LoopGoesOn
  <2>6. CASE GetNotification(p) /\ Row(p).messagesToReceive # <<>>
    BY <2>2, <2>3, <2>4, <2>6 DEF GetNotification, Gets, Row, Messages, Goto
  <2> QED BY <1>2, <2>5, <2>6
          DEF CountOne, CountTwo, GetNotificationDelivered, MarkDelivered, GetNotification
<1>3. CASE ReceiveNoop(p)
  <2>1. PICK new : new = [thread[p] EXCEPT !.pc = "poll", !.recievedNoop = TRUE]
    OBVIOUS
  <2>2. new.pc = "poll" /\ new.profile = thread[p].profile
    BY <1>t, <2>1 DEF ThreadType
  <2> QED BY <1>3, <2>1, <2>2, OneQuietly DEF ReceiveNoop, Shared
<1>4. CASE CloseSession(p)
  <2>1. PICK new : new = [NewThread(thread[p].profile) EXCEPT !.pc = "closed"]
    OBVIOUS
  <2>2. new.pc = "closed" /\ new.profile = thread[p].profile
    BY <2>1 DEF NewThread
  <2> QED BY <1>4, <2>1, <2>2, OneQuietly DEF CloseSession, Shared
<1>5. CASE AddFollower(p)
  <2>1. PICK new : new = [thread[p] EXCEPT !.pc = "save"]
    OBVIOUS
  <2>2. new.pc = "save" /\ new.profile = thread[p].profile
    BY <1>c, <2>1
  <2> QED BY <1>5, <2>1, <2>2, OneQuietly DEF AddFollower, Goto, Shared
<1>6. CASE SaveFollower(p)
  <2>1. PICK new : new = [thread[p] EXCEPT !.pc = "notifySelf", !.following = Nobody]
    OBVIOUS
  <2>2. new.pc = "notifySelf" /\ new.profile = thread[p].profile
    BY <1>t, <2>1 DEF ThreadType
  <2> QED BY <1>6, <2>1, <2>2, OneQuietly DEF SaveFollower, Shared
<1>7. CASE ReceiveSend(p)
  <2>1. PICK new : new = [thread[p] EXCEPT !.pc = IF Row(p).followers = <<>> THEN "poll" ELSE "notifyFollowers",
                                           !.toNotify = Row(p).followers]
    OBVIOUS
  <2>2. new.pc \in {"poll", "notifyFollowers"} /\ new.profile = thread[p].profile
    BY <1>t, <2>1 DEF ThreadType
  <2> QED BY <1>7, <2>1, <2>2, OneQuietly DEF ReceiveSend, Shared
<1>8. ASSUME NEW name \in Profiles, ReceiveFollow(p, name) PROVE Quietly
  <2>1. PICK new : /\ Becomes(p, new) /\ new.pc \in {"hasFollower", "notifySelf"}
                   /\ new.profile = thread[p].profile
    <3>1. /\ [thread[p] EXCEPT !.pc = "hasFollower", !.following = name].pc = "hasFollower"
          /\ [thread[p] EXCEPT !.pc = "hasFollower", !.following = name].profile = thread[p].profile
          /\ [thread[p] EXCEPT !.pc = "notifySelf"].pc = "notifySelf"
          /\ [thread[p] EXCEPT !.pc = "notifySelf"].profile = thread[p].profile
      BY <1>t DEF ThreadType
    <3> QED BY <1>8, <3>1 DEF ReceiveFollow
  <2> QED BY <1>8, <2>1, OneQuietly DEF ReceiveFollow, Shared
<1>9. CASE Crash(p)
  <2>1. UNCHANGED <<masterTable, loop, thread, posted, lastSent>>
    BY <1>9 DEF Crash
  <2> QED BY <2>1 DEF Quietly, ListsKept, LoopGoesOn, Kept, Popping, Messages
<1>10. CASE MissFollower(p)
  <2>1. PICK new : new = [thread[p] EXCEPT !.pc = IF Len(thread[p].toNotify) = 1 THEN "poll" ELSE @,
                                           !.toNotify = Tail(@)]
    OBVIOUS
  <2>2. new.pc \in {"poll", "notifyFollowers"} /\ new.profile = thread[p].profile
    BY <1>t, <1>10, <2>1 DEF ThreadType, MissFollower
  <2> QED BY <1>10, <2>1, <2>2, OneQuietly DEF MissFollower, GoOnNotifying, Shared
<1> QED BY <1>1, <1>2, <1>3, <1>4, <1>5, <1>6, <1>7, <1>8, <1>9, <1>10 DEF ThreadStep, ClientStep

\* One more notification, for a profile that has a row.
LEMMA PostsOne ==
  ASSUME TypeOK, NEW u \in DOMAIN masterTable, AddNotification(u), UNCHANGED <<loop, lastSent>>,
         \A q \in Ports : Kept(q)
  PROVE  Posts(u)
<1>1. masterTable' = [masterTable EXCEPT ![u].messagesToReceive = Append(@, posted[u] + 1)]
  BY DEF AddNotification
<1>2. /\ DOMAIN masterTable' = DOMAIN masterTable
      /\ \A w \in DOMAIN masterTable :
           Messages(w)' = IF w = u THEN Append(Messages(w), posted[u] + 1) ELSE Messages(w)
  BY <1>1 DEF TypeOK, RowType, Messages
<1> QED BY <1>2 DEF AddNotification, Posts

\* The steps of a thread that add or pop one.
LEMMA OtherThread ==
  ASSUME TypeOK, SessionsMatchThreads, NEW p \in Ports,
         NotifySelf(p) \/ NotifyFollower(p) \/ PopNotification(p) \/ PopFront(p) \/ ResetDelivered(p)
  PROVE  Fronts(p) \/ Pops(p) \/ Resets(p) \/ \E u \in Profiles : Posts(u)
<1>t. thread[p] \in ThreadType /\ DOMAIN masterTable \subseteq Profiles
  BY DEF TypeOK
<1>1. CASE NotifySelf(p)
  <2>1. PICK new : new = [thread[p] EXCEPT !.pc = "poll", !.recievedNoop = TRUE]
    OBVIOUS
  <2>2. new.pc = "poll" /\ new.profile = thread[p].profile
    BY <1>t, <2>1 DEF ThreadType
  <2>3. \A q \in Ports : Kept(q)
    BY <1>1, <2>1, <2>2, OneGoesOn DEF NotifySelf, Shared
  <2>4. thread[p].profile \in DOMAIN masterTable
    BY <1>1 DEF NotifySelf, SessionsMatchThreads
  <2> QED BY <1>1, <1>t, <2>3, <2>4, PostsOne DEF NotifySelf
<1>2. CASE NotifyFollower(p)
  <2>1. PICK new : new = [thread[p] EXCEPT !.pc = IF Len(thread[p].toNotify) = 1 THEN "poll" ELSE @,
                                           !.toNotify = Tail(@)]
    OBVIOUS
  <2>2. new.pc \in {"poll", "notifyFollowers"} /\ new.profile = thread[p].profile
    BY <1>t, <1>2, <2>1 DEF ThreadType, NotifyFollower
  <2>3. \A q \in Ports : Kept(q)
    BY <1>2, <2>1, <2>2, OneGoesOn DEF NotifyFollower, GoOnNotifying, Shared
  <2>4. Head(thread[p].toNotify) \in DOMAIN masterTable
    BY <1>2 DEF NotifyFollower
  <2> QED BY <1>2, <1>t, <2>3, <2>4, PostsOne DEF NotifyFollower
<1>3. CASE PopNotification(p)
  <2>1. PICK new : new = [thread[p] EXCEPT !.pc = "popFront",
                                           !.notification = Head(Row(p).messagesToReceive)]
    OBVIOUS
  <2>2. /\ new.pc = "popFront" /\ new.profile = thread[p].profile
        /\ new.notification = Head(Messages(thread[p].profile))
    BY <1>t, <2>1 DEF ThreadType, Row, Messages
  <2>3. thread'[p] = new /\ KeptBut(p)
    BY <1>3, <2>1 DEF PopNotification, Becomes, TypeOK, KeptBut
  <2>4. SameMessages
    BY <1>3, OtherFieldsKeepMessages DEF PopNotification
  <2> QED BY <1>3, <2>2, <2>3, <2>4 DEF PopNotification, Fronts, Moves, Row, Messages
<1>4. CASE PopFront(p)
  <2>1. PICK new : new = [thread[p] EXCEPT !.pc = "resetDelivered"]
    OBVIOUS
  <2>2. /\ new.pc = "resetDelivered" /\ new.profile = thread[p].profile
        /\ new.notification = thread[p].notification
    BY <1>t, <2>1 DEF ThreadType
  <2>3. thread'[p] = new /\ KeptBut(p) /\ thread[p].pc = "popFront"
    BY <1>4, <2>1 DEF PopFront, Goto, Becomes, TypeOK, KeptBut
  <2>4. /\ DOMAIN masterTable' = DOMAIN masterTable
        /\ \A w \in DOMAIN masterTable :
             Messages(w)' = IF w = thread[p].profile THEN Tail(Messages(w)) ELSE Messages(w)
    BY <1>4 DEF PopFront, TypeOK, RowType, Messages
  <2> QED BY <1>4, <2>2, <2>3, <2>4 DEF PopFront, Pops, Moves, Row, Messages
<1>5. CASE ResetDelivered(p)
  <2>1. PICK new : new = [thread[p] EXCEPT !.pc = "receive", !.notification = 0]
    OBVIOUS
  <2>2. new.pc = "receive" /\ new.profile = thread[p].profile
    BY <1>t, <2>1 DEF ThreadType
  <2>3. thread'[p] = new /\ KeptBut(p)
    BY <1>5, <2>1 DEF ResetDelivered, Becomes, TypeOK, KeptBut
  <2>4. SameMessages
    BY <1>5, OtherFieldsKeepMessages DEF ResetDelivered
  <2> QED BY <1>5, <2>2, <2>3, <2>4 DEF ResetDelivered, Resets, Moves
<1> QED BY <1>1, <1>2, <1>3, <1>4, <1>5

LEMMA LoopEffects ==
  ASSUME SessionsAssumption, SessionInv, ServerLoop \/ \E u \in Profiles : ReceiveConnect(u)
  PROVE  \/ Quietly
         \/ \E u \in Profiles : Connects(u)
         \/ \E p \in Ports : Starts(p)
<1>t. TypeOK
  BY DEF SessionInv
<1>1. ASSUME NEW u \in Profiles, ReceiveConnect(u) PROVE Connects(u)
  BY <1>1 DEF ReceiveConnect, Connects
<1>2. CASE SaveNewRow \/ CountSessions
  <2>1. UNCHANGED <<masterTable, thread, posted, lastSent>>
    BY <1>2 DEF SaveNewRow, CountSessions
  <2>2. LoopGoesOn
    BY <1>2, <1>t DEF SaveNewRow, CountSessions, LoopGoesOn, TypeOK, LoopType
  <2> QED BY <2>1, <2>2 DEF Quietly, ListsKept, Kept, Popping, Messages
<1>3. CASE InsertRow
  <2>1. loop.profile \notin DOMAIN masterTable
    BY <1>3 DEF InsertRow, SessionInv, LoopHoldsRow
  <2>2. ListsKept
    BY <1>3, <2>1 DEF InsertRow, NewRow, ListsKept, Messages
  <2>3. LoopGoesOn
    BY <1>3, <1>t DEF InsertRow, LoopGoesOn, TypeOK, LoopType
  <2>4. \A q \in Ports : Kept(q)
    BY <1>3 DEF InsertRow, Kept, Popping
  <2> QED BY <1>3, <2>2, <2>3, <2>4 DEF InsertRow, Quietly
<1>4. CASE StartSession
  <2>1. /\ nextClientPort \in Ports /\ thread[nextClientPort].pc = "none"
        /\ loop.profile \in DOMAIN masterTable
    BY <1>4 DEF StartSession, SessionInv, LoopHoldsRow, PortsInOrder, TypeOK, Ports, SessionsAssumption
  <2>2. SameMessages
    BY <1>4, <1>t, OtherFieldsKeepMessages DEF StartSession
  <2>3. /\ thread'[nextClientPort].pc = "poll" /\ thread'[nextClientPort].profile = loop.profile
        /\ KeptBut(nextClientPort)
    BY <1>4, <1>t, <2>1 DEF StartSession, Becomes, NewThread, TypeOK, KeptBut
  <2>4. Starts(nextClientPort)
    BY <1>4, <2>1, <2>2, <2>3 DEF StartSession, Starts
  <2> QED BY <2>1, <2>4
<1> QED BY <1>1, <1>2, <1>3, <1>4 DEF ServerLoop

LEMMA StepEffects ==
  ASSUME SessionsAssumption, SessionInv, [Next]_vars
  PROVE  SomeEffect
<1>1. CASE UNCHANGED vars
  BY <1>1 DEF vars, SomeEffect, Quietly, ListsKept, LoopGoesOn, Kept, Popping, Messages
<1>2. CASE ServerLoop \/ \E u \in Profiles : ReceiveConnect(u)
  BY <1>2, LoopEffects DEF SomeEffect
<1>3. ASSUME NEW p \in Ports, ThreadStep(p) \/ ClientStep(p) PROVE SomeEffect
  BY <1>3, QuietThread, OtherThread DEF SomeEffect, SessionInv
<1> QED BY <1>1, <1>2, <1>3 DEF Next, Running, Stopped

-----------------------------------------------------------------------------
(* The numbers in the lists.                                                *)

Left(list, n, k) == n - Len(list) = k /\ NumbersFrom(list, k)

LEMMA OneMore ==
  ASSUME NEW list \in Seq(Nat), NEW n \in Nat, NEW k \in Nat, Left(list, n, k),
         NEW m, m = n + 1, NEW more, more = Append(list, m)
  PROVE  Left(more, m, k)
<1>1. Len(list) \in Nat /\ Len(more) = Len(list) + 1 /\ m \in Nat
  OBVIOUS
<1>2. ASSUME NEW i \in 1 .. Len(more) PROVE more[i] = k + i
  <2>1. CASE i \in 1 .. Len(list)
    BY <2>1 DEF Left, NumbersFrom
  <2>2. CASE i = Len(list) + 1
    BY <1>1, <2>2 DEF Left
  <2> QED BY <1>1, <2>1, <2>2
<1> QED BY <1>1, <1>2 DEF Left, NumbersFrom

LEMMA OneLess ==
  ASSUME NEW list \in Seq(Nat), list # <<>>, NEW n \in Nat, NEW k \in Nat, Left(list, n, k),
         NEW less, less = Tail(list), NEW j, j = k + 1
  PROVE  Left(less, n, j)
<1>1. Len(list) \in Nat \ {0} /\ Len(less) = Len(list) - 1
  OBVIOUS
<1>2. \A i \in 1 .. Len(less) : less[i] = list[i + 1]
  OBVIOUS
<1> QED BY <1>1, <1>2 DEF Left, NumbersFrom

\* What a list holds, as a lemma about numbers needs it.
LEMMA ListHere ==
  ASSUME TypeOK, Numbered, NEW u \in DOMAIN masterTable
  PROVE  /\ Messages(u) \in Seq(Nat) /\ posted[u] \in Nat /\ Popped(u) \in Nat
         /\ posted[u] - Len(Messages(u)) = Popped(u) /\ NumbersFrom(Messages(u), Popped(u))
         /\ Messages(u) # <<>> => Head(Messages(u)) = Popped(u) + 1
<1>1. Messages(u) \in Seq(Nat) /\ posted[u] \in Nat
  BY DEF TypeOK, RowType, Messages
<1>2. /\ Popped(u) \in Nat /\ NumbersFrom(Messages(u), Popped(u))
      /\ posted[u] - Len(Messages(u)) = Popped(u)
  BY DEF Numbered, Popped
<1>3. Messages(u) # <<>> => Head(Messages(u)) = Popped(u) + 1
  BY <1>1, <1>2 DEF NumbersFrom
<1> QED BY <1>1, <1>2, <1>3

LEMMA ListsKeptNumbers ==
  ASSUME TypeOK, TypeOK', Numbered, ListsKept, UNCHANGED posted
  PROVE  /\ Numbered'
         /\ \A u \in DOMAIN masterTable : Popped(u)' = Popped(u)
         /\ \A u \in DOMAIN masterTable' \ DOMAIN masterTable : Popped(u)' = 0
<1>1. ASSUME NEW u \in DOMAIN masterTable
      PROVE  /\ Popped(u)' = Popped(u) /\ Popped(u)' \in Nat
             /\ NumbersFrom(Messages(u), Popped(u))'
  BY DEF ListsKept, Numbered, Popped
<1>2. ASSUME NEW u \in DOMAIN masterTable' \ DOMAIN masterTable
      PROVE  Popped(u)' = 0 /\ Len(Messages(u)') = 0
  <2>1. Messages(u)' = <<>> /\ posted'[u] = 0
    BY DEF ListsKept, Numbered, TypeOK
  <2>2. Len(Messages(u)') = 0
    BY <2>1
  <2>3. PICK n, m \in Nat : n = posted'[u] /\ m = Len(Messages(u)') /\ n - m = 0
    BY <2>1, <2>2
  <2> QED BY <2>2, <2>3 DEF Popped
<1>3. ASSUME NEW u \in DOMAIN masterTable' \ DOMAIN masterTable
      PROVE  /\ Popped(u)' \in Nat
             /\ NumbersFrom(Messages(u), Popped(u))'
  BY <1>2 DEF NumbersFrom
<1>4. \A u \in Profiles \ DOMAIN masterTable' : posted'[u] = 0
  BY DEF Numbered, ListsKept
<1> QED BY <1>1, <1>2, <1>3, <1>4 DEF Numbered

LEMMA PostNumbers ==
  ASSUME TypeOK, Numbered, NEW u \in Profiles, Posts(u)
  PROVE  Numbered' /\ \A w \in DOMAIN masterTable : Popped(w)' = Popped(w)
<1>1. u \in DOMAIN masterTable /\ posted'[u] = posted[u] + 1
  BY DEF Posts, TypeOK
<1>2. \A w \in Profiles \ {u} : posted'[w] = posted[w]
  BY DEF Posts, TypeOK
<1>3. ASSUME NEW w \in DOMAIN masterTable
      PROVE  /\ Popped(w)' = Popped(w) /\ Popped(w)' \in Nat
             /\ NumbersFrom(Messages(w), Popped(w))'
  <2>1. CASE w = u
    <3>1. Messages(u)' = Append(Messages(u), posted[u] + 1)
      BY <1>1 DEF Posts
    <3>2. /\ Messages(u) \in Seq(Nat) /\ posted[u] \in Nat /\ Popped(u) \in Nat
          /\ posted[u] - Len(Messages(u)) = Popped(u) /\ NumbersFrom(Messages(u), Popped(u))
      BY <1>1, ListHere
    <3>3. PICK list, more, n, m : /\ list = Messages(u) /\ n = posted[u] /\ m = posted'[u]
                                  /\ more = Messages(u)' /\ m = n + 1 /\ more = Append(list, m)
      BY <1>1, <3>1
    <3>4. PICK k \in Nat : k = Popped(u)
      BY <3>2
    <3>5. Left(more, m, k)
      <4>1. list \in Seq(Nat) /\ n \in Nat /\ Left(list, n, k)
        BY <3>2, <3>3, <3>4 DEF Left
      <4>2. m = n + 1 /\ more = Append(list, m)
        BY <3>3
      <4> QED BY <4>1, <4>2, OneMore
    <3>6. Popped(u)' = k /\ NumbersFrom(more, k)
      BY <3>3, <3>5 DEF Popped, Left
    <3> QED BY <2>1, <3>3, <3>4, <3>6
  <2>2. CASE w # u
    <3>1. Messages(w)' = Messages(w) /\ posted'[w] = posted[w]
      BY <1>2, <2>2 DEF Posts, TypeOK
    <3> QED BY <3>1 DEF Popped, Numbered
  <2> QED BY <2>1, <2>2
<1>4. DOMAIN masterTable' = DOMAIN masterTable /\ \A w \in Profiles \ DOMAIN masterTable : posted'[w] = 0
  BY <1>1, <1>2 DEF Posts, Numbered
<1> QED BY <1>3, <1>4 DEF Numbered

LEMMA PopNumbers ==
  ASSUME TypeOK, SessionsMatchThreads, Numbered, NEW p \in Ports, Pops(p)
  PROVE  /\ Numbered' /\ thread[p].profile \in DOMAIN masterTable
         /\ \A w \in DOMAIN masterTable :
              Popped(w)' = IF w = thread[p].profile THEN Popped(w) + 1 ELSE Popped(w)
<1>1. PICK u : u = thread[p].profile
  OBVIOUS
<1>2. u \in DOMAIN masterTable /\ UNCHANGED posted
  BY <1>1 DEF Pops, Moves, SessionsMatchThreads
<1>3. ASSUME NEW w \in DOMAIN masterTable
      PROVE  /\ Popped(w)' = IF w = u THEN Popped(w) + 1 ELSE Popped(w)
             /\ Popped(w)' \in Nat
             /\ NumbersFrom(Messages(w), Popped(w))'
  <2>1. CASE w = u
    <3>1. Messages(u)' = Tail(Messages(u)) /\ Messages(u) # <<>>
      BY <1>1, <1>2 DEF Pops
    <3>2. /\ Messages(u) \in Seq(Nat) /\ posted[u] \in Nat /\ Popped(u) \in Nat
          /\ posted[u] - Len(Messages(u)) = Popped(u) /\ NumbersFrom(Messages(u), Popped(u))
      BY <1>2, ListHere
    <3>3. PICK list, less, n : /\ list = Messages(u) /\ n = posted[u] /\ less = Messages(u)'
                               /\ less = Tail(list)
      BY <3>1
    <3>4. PICK k, j \in Nat : k = Popped(u) /\ j = k + 1
      BY <3>2
    <3>5. Left(less, n, j)
      <4>1. list \in Seq(Nat) /\ n \in Nat /\ Left(list, n, k)
        BY <3>2, <3>3, <3>4 DEF Left
      <4>2. list # <<>> /\ less = Tail(list)
        BY <3>1, <3>3
      <4> QED BY <3>4, <4>1, <4>2, OneLess
    <3>6. Popped(u)' = j /\ NumbersFrom(less, j)
      BY <1>2, <3>3, <3>5 DEF Popped, Left
    <3> QED BY <2>1, <3>3, <3>4, <3>6
  <2>2. CASE w # u
    <3>1. Messages(w)' = Messages(w) /\ posted'[w] = posted[w]
      BY <1>1, <1>2, <2>2 DEF Pops
    <3> QED BY <2>2, <3>1 DEF Popped, Numbered
  <2> QED BY <2>1, <2>2
<1>4. DOMAIN masterTable' = DOMAIN masterTable /\ \A w \in Profiles \ DOMAIN masterTable : posted'[w] = 0
  BY <1>2 DEF Pops, Numbered
<1> QED BY <1>1, <1>2, <1>3, <1>4 DEF Numbered

(* No session is ahead of its list.                                         *)

NumbersGrow ==
  \A u \in DOMAIN masterTable :
    Popped(u) \in Nat /\ Popped(u)' \in Nat /\ Popped(u)' >= Popped(u)

Forward == OrderInv' /\ \A p \in Ports : lastSent'[p] >= lastSent[p]

LEMMA StaysBehind ==
  ASSUME TypeOK, SessionsMatchThreads, NumbersGrow, NEW q \in Ports, NotAhead(q),
         thread'[q].profile = thread[q].profile,
         thread'[q].pc = "none" <=> thread[q].pc = "none",
         Popping(thread'[q]) =>
           Popping(thread[q]) /\ thread'[q].notification = thread[q].notification,
         lastSent'[q] = lastSent[q]
  PROVE  NotAhead(q)'
<1>1. CASE thread[q].pc = "none"
  BY <1>1 DEF NotAhead, Popping
<1>2. CASE thread[q].pc # "none"
  <2>1. PICK u \in DOMAIN masterTable : u = thread[q].profile
    BY <1>2 DEF SessionsMatchThreads
  <2>2. /\ Popped(u) \in Nat /\ Popped(u)' \in Nat /\ Popped(u)' >= Popped(u)
        /\ lastSent[q] \in Nat /\ thread[q].notification \in Nat
    BY DEF NumbersGrow, TypeOK, ThreadType
  <2>3. /\ lastSent[q] <= Popped(u) + 1
        /\ Popping(thread[q]) => /\ lastSent[q] <= thread[q].notification
                                 /\ thread[q].notification <= Popped(u) + 1
    BY <1>2, <2>1 DEF NotAhead
  <2>4. /\ lastSent[q] <= Popped(u)' + 1
        /\ Popping(thread[q]) => thread[q].notification <= Popped(u)' + 1
    BY <2>2, <2>3
  <2>5. thread'[q].profile = u
    BY <2>1
  <2> QED BY <1>2, <2>3, <2>4, <2>5 DEF NotAhead
<1> QED BY <1>1, <1>2

Unmoved(q) == Kept(q) /\ lastSent'[q] = lastSent[q]
OnePort(q) == NotAhead(q)' /\ lastSent'[q] >= lastSent[q]

LEMMA UnmovedBehind ==
  ASSUME TypeOK, SessionsMatchThreads, OrderInv, NumbersGrow, NEW q \in Ports, Unmoved(q)
  PROVE  OnePort(q)
<1>1. lastSent[q] \in Nat /\ NotAhead(q) /\ lastSent'[q] = lastSent[q]
  BY DEF TypeOK, OrderInv, NothingAhead, Unmoved
<1>2. /\ thread'[q].profile = thread[q].profile
      /\ thread'[q].pc = "none" <=> thread[q].pc = "none"
      /\ Popping(thread'[q]) =>
           Popping(thread[q]) /\ thread'[q].notification = thread[q].notification
  BY DEF Unmoved, Kept, Popping
<1>3. NotAhead(q)'
  BY <1>1, <1>2, StaysBehind
<1> QED BY <1>1, <1>3 DEF OnePort

LEMMA AllForward ==
  ASSUME TypeOK, SessionsMatchThreads, OrderInv, Numbered', NumbersGrow, \A q \in Ports : Unmoved(q)
  PROVE  Forward
BY UnmovedBehind DEF Forward, OrderInv, NothingAhead, OnePort

LEMMA OneForward ==
  ASSUME TypeOK, SessionsMatchThreads, OrderInv, Numbered', NumbersGrow, NEW p \in Ports,
         \A q \in Ports \ {p} : Unmoved(q), OnePort(p)
  PROVE  Forward
<1>1. \A q \in Ports : OnePort(q)
  BY UnmovedBehind
<1> QED BY <1>1 DEF Forward, OrderInv, NothingAhead, OnePort

LEMMA SameKept ==
  ASSUME NEW q \in Ports, thread'[q] = thread[q] PROVE Kept(q)
BY DEF Kept, Popping

\* The profile of a thread that runs, and the numbers it is held against.
LEMMA ThreadHere ==
  ASSUME TypeOK, SessionsMatchThreads, OrderInv, NEW p \in Ports, thread[p].pc # "none"
  PROVE  /\ thread[p].profile \in DOMAIN masterTable
         /\ Popped(thread[p].profile) \in Nat /\ lastSent[p] \in Nat /\ thread[p].notification \in Nat
         /\ lastSent[p] <= Popped(thread[p].profile) + 1
         /\ Popping(thread[p]) => /\ lastSent[p] <= thread[p].notification
                                  /\ thread[p].notification <= Popped(thread[p].profile) + 1
<1>1. thread[p].profile \in DOMAIN masterTable /\ NotAhead(p)
  BY DEF SessionsMatchThreads, OrderInv, NothingAhead
<1>2. Popped(thread[p].profile) \in Nat /\ lastSent[p] \in Nat /\ thread[p].notification \in Nat
  BY <1>1 DEF OrderInv, Numbered, TypeOK, ThreadType
<1> QED BY <1>1, <1>2 DEF NotAhead

LEMMA EffectsForward ==
  ASSUME TypeOK, TypeOK', SessionsMatchThreads, OrderInv, SomeEffect
  PROVE  Forward
<1>n. Numbered
  BY DEF OrderInv
<1>s. ASSUME ListsKept, UNCHANGED posted
      PROVE  Numbered' /\ NumbersGrow /\ \A u \in DOMAIN masterTable : Popped(u)' = Popped(u)
  <2>1. Numbered' /\ \A u \in DOMAIN masterTable : Popped(u)' = Popped(u)
    BY <1>n, <1>s, ListsKeptNumbers
  <2> QED BY <1>n, <2>1 DEF NumbersGrow, Numbered
<1>l. SameMessages => ListsKept
  BY DEF SameMessages, ListsKept
<1>1. CASE Quietly
  BY <1>1, <1>s, AllForward DEF Quietly, Unmoved
<1>2. ASSUME NEW u \in Profiles, Connects(u) PROVE Forward
  <2>1. ListsKept /\ UNCHANGED <<posted, thread, lastSent>>
    BY <1>2 DEF Connects, ListsKept, Messages
  <2> QED BY <1>s, <2>1, SameKept, AllForward DEF Unmoved
<1>3. ASSUME NEW u \in Profiles, Posts(u) PROVE Forward
  <2>1. Numbered' /\ \A w \in DOMAIN masterTable : Popped(w)' = Popped(w)
    BY <1>n, <1>3, PostNumbers
  <2>2. NumbersGrow
    BY <1>n, <2>1 DEF NumbersGrow, Numbered
  <2> QED BY <1>3, <2>1, <2>2, AllForward DEF Posts, Unmoved
<1>4. ASSUME NEW p \in Ports, Starts(p) PROVE Forward
  <2>1. Numbered' /\ NumbersGrow
    BY <1>4, <1>l, <1>s DEF Starts
  <2>2. lastSent'[p] = 0
    BY <1>4 DEF Starts, OrderInv, NothingAhead, NotAhead
  <2>3. NotAhead(p)'
    <3>1. PICK w \in DOMAIN masterTable : w = loop.profile
      BY <1>4 DEF Starts
    <3>2. thread'[p].pc = "poll" /\ thread'[p].profile = w /\ Popped(w)' \in Nat
      BY <1>4, <2>1, <3>1 DEF Starts, NumbersGrow
    <3> QED BY <2>2, <3>2 DEF NotAhead, Popping
  <2>4. \A q \in Ports \ {p} : Unmoved(q)
    BY <1>4, SameKept DEF Unmoved, Starts, KeptBut
  <2>5. lastSent'[p] >= lastSent[p]
    BY <1>4, <2>2 DEF Starts
  <2> QED BY <2>1, <2>3, <2>4, <2>5, OneForward DEF OnePort
<1>5. ASSUME NEW p \in Ports, Gets(p) PROVE Forward
  <2>1. /\ Numbered' /\ NumbersGrow
        /\ \A u \in DOMAIN masterTable : Popped(u)' = Popped(u)
    BY <1>5, <1>l, <1>s DEF Gets
  <2>2. /\ thread[p].profile \in DOMAIN masterTable /\ Popped(thread[p].profile) \in Nat
        /\ lastSent[p] \in Nat /\ lastSent[p] <= Popped(thread[p].profile) + 1
    BY <1>5, ThreadHere DEF Gets
  <2>3. lastSent'[p] = Popped(thread[p].profile) + 1
    BY <1>5, <1>n, <2>2, ListHere DEF Gets, TypeOK
  <2>4. thread'[p].pc \notin {"none", "popFront", "resetDelivered"}
    BY <1>5 DEF Gets, Kept
  <2>5. thread'[p].profile = thread[p].profile
    BY <1>5 DEF Gets, Kept
  <2>6. NotAhead(p)' /\ lastSent'[p] >= lastSent[p]
    <3>1. PICK w \in DOMAIN masterTable : w = thread[p].profile
      BY <2>2
    <3>2. lastSent'[p] <= Popped(w)' + 1
      BY <2>1, <2>2, <2>3, <3>1
    <3> QED BY <2>2, <2>3, <2>4, <2>5, <3>1, <3>2 DEF NotAhead, Popping
  <2>7. \A q \in Ports \ {p} : Unmoved(q)
    BY <1>5 DEF Unmoved, Gets, TypeOK
  <2> QED BY <2>1, <2>6, <2>7, OneForward DEF OnePort
<1>6. ASSUME NEW p \in Ports, Fronts(p) PROVE Forward
  <2>1. /\ Numbered' /\ NumbersGrow
        /\ \A u \in DOMAIN masterTable : Popped(u)' = Popped(u)
    BY <1>6, <1>l, <1>s DEF Fronts, Moves
  <2>2. /\ thread[p].profile \in DOMAIN masterTable /\ Popped(thread[p].profile) \in Nat
        /\ lastSent[p] \in Nat /\ lastSent[p] <= Popped(thread[p].profile) + 1
    BY <1>6, ThreadHere DEF Fronts, Moves
  <2>3. thread'[p].notification = Popped(thread[p].profile) + 1
    BY <1>6, <1>n, <2>2, ListHere DEF Fronts
  <2>4. thread'[p].pc = "popFront" /\ thread'[p].profile = thread[p].profile /\ lastSent'[p] = lastSent[p]
    BY <1>6 DEF Fronts, Moves
  <2>5. NotAhead(p)' /\ lastSent'[p] >= lastSent[p]
    <3>1. PICK w \in DOMAIN masterTable : w = thread[p].profile
      BY <2>2
    <3>2. /\ lastSent'[p] <= Popped(w)' + 1 /\ lastSent'[p] <= thread'[p].notification
          /\ thread'[p].notification <= Popped(w)' + 1
      BY <2>1, <2>2, <2>3, <2>4, <3>1
    <3> QED BY <2>2, <2>4, <3>1, <3>2 DEF NotAhead, Popping
  <2>6. \A q \in Ports \ {p} : Unmoved(q)
    BY <1>6, SameKept DEF Unmoved, Fronts, Moves, KeptBut
  <2> QED BY <2>1, <2>5, <2>6, OneForward DEF OnePort
<1>7. ASSUME NEW p \in Ports, Pops(p) PROVE Forward
  <2>1. PICK u \in DOMAIN masterTable :
          /\ u = thread[p].profile /\ Numbered'
          /\ \A w \in DOMAIN masterTable : Popped(w)' = IF w = u THEN Popped(w) + 1 ELSE Popped(w)
    BY <1>7, <1>n, PopNumbers
  <2>2. NumbersGrow
    BY <1>n, <2>1 DEF NumbersGrow, Numbered
  <2>3. /\ thread[p].pc # "none" /\ thread'[p].pc # "none" /\ thread'[p].profile = thread[p].profile
        /\ Popping(thread[p]) /\ thread'[p].notification = thread[p].notification
        /\ lastSent'[p] = lastSent[p] /\ lastSent[p] \in Nat
    BY <1>7 DEF Pops, Moves, Popping, TypeOK
  <2>4. NotAhead(p)'
    BY <2>2, <2>3, StaysBehind DEF OrderInv, NothingAhead
  <2>5. \A q \in Ports \ {p} : Unmoved(q)
    BY <1>7, SameKept DEF Unmoved, Pops, Moves, KeptBut
  <2>6. lastSent'[p] >= lastSent[p]
    BY <2>3
  <2> QED BY <2>1, <2>2, <2>4, <2>5, <2>6, OneForward DEF OnePort
<1>8. ASSUME NEW p \in Ports, Resets(p) PROVE Forward
  <2>1. /\ Numbered' /\ NumbersGrow
        /\ \A u \in DOMAIN masterTable : Popped(u)' = Popped(u)
    BY <1>8, <1>l, <1>s DEF Resets, Moves
  <2>2. /\ thread[p].profile \in DOMAIN masterTable /\ Popped(thread[p].profile) \in Nat
        /\ lastSent[p] \in Nat /\ thread[p].notification \in Nat
        /\ lastSent[p] <= thread[p].notification
        /\ thread[p].notification <= Popped(thread[p].profile) + 1
    BY <1>8, ThreadHere DEF Resets, Moves, Popping
  <2>3. /\ thread'[p].pc = "receive" /\ thread'[p].profile = thread[p].profile
        /\ lastSent'[p] = thread[p].notification
    BY <1>8 DEF Resets, Moves, TypeOK
  <2>4. NotAhead(p)' /\ lastSent'[p] >= lastSent[p]
    <3>1. PICK w \in DOMAIN masterTable : w = thread[p].profile
      BY <2>2
    <3>2. lastSent'[p] <= Popped(w)' + 1
      BY <2>1, <2>2, <2>3, <3>1
    <3> QED BY <2>2, <2>3, <3>1, <3>2 DEF NotAhead, Popping
  <2>5. \A q \in Ports \ {p} : Unmoved(q)
    BY <1>8, SameKept DEF Unmoved, Resets, Moves, KeptBut, TypeOK
  <2> QED BY <2>1, <2>4, <2>5, OneForward DEF OnePort
<1> QED BY <1>1, <1>2, <1>3, <1>4, <1>5, <1>6, <1>7, <1>8 DEF SomeEffect

LEMMA OrderInit == ASSUME SessionsAssumption, Init PROVE OrderInv
<1>1. PICK table \in Backups :
        masterTable = [u \in DOMAIN table |-> [NewRow EXCEPT !.followers = table[u]]]
  BY DEF Init
<1>2. /\ DOMAIN masterTable \subseteq Profiles
      /\ \A u \in DOMAIN masterTable : Messages(u) = <<>>
      /\ \A u \in Profiles : posted[u] = 0
  BY <1>1 DEF NewRow, Init, SessionsAssumption, Messages
<1>3. ASSUME NEW u \in DOMAIN masterTable PROVE Popped(u) = 0 /\ Len(Messages(u)) = 0
  <2>1. Len(Messages(u)) = 0
    BY <1>2
  <2>2. PICK n, m \in Nat : n = posted[u] /\ m = Len(Messages(u)) /\ n - m = 0
    BY <1>2, <2>1
  <2> QED BY <2>1, <2>2 DEF Popped
<1>4. Numbered
  BY <1>2, <1>3 DEF Numbered, NumbersFrom
<1>5. \A p \in Ports : thread[p].pc = "none" /\ lastSent[p] = 0
  BY DEF Init, NewThread
<1>6. NothingAhead
  BY <1>5 DEF NothingAhead, NotAhead, Popping
<1> QED BY <1>4, <1>6 DEF OrderInv

LEMMA OrderStep ==
  SessionsAssumption /\ SessionInv /\ SessionInv' /\ OrderInv /\ [Next]_vars => Forward
<1> SUFFICES ASSUME SessionsAssumption, SessionInv, SessionInv', OrderInv, [Next]_vars
             PROVE  Forward
  OBVIOUS
<1>1. SomeEffect
  BY StepEffects
<1> QED BY <1>1, EffectsForward DEF SessionInv

\* What one session is sent is never older than what it was sent before, though
\* the other session of the profile pops the list between the two.
THEOREM SentInOrder == Spec => InOrder
<1>1. Init => OrderInv
  BY OrderInit, SessionsAssumption
<1>2. SessionInv /\ SessionInv' /\ OrderInv /\ [Next]_vars
        => OrderInv' /\ [\A p \in Ports : lastSent'[p] >= lastSent[p]]_vars
  BY OrderStep, SessionsAssumption DEF Forward
<1> QED BY <1>1, <1>2, SessionInvariant, PTL DEF Spec, InOrder

-----------------------------------------------------------------------------
(* A profile that has one session at a time. Its thread finds itself alone, *)
(* so that what it is sent is what it pops, a moment later.                 *)

OneLive ==
  /\ \A u \in Single : \A p, q \in Live(u) : p = q
  /\ loop.pc # "receive" /\ loop.profile \in Single => Live(loop.profile) = {}

AloneIn(p) ==
  thread[p].profile \in Single =>
    /\ thread[p].pc \notin Shared
    /\ thread[p].pc = "popFront" => thread[p].notification = Popped(thread[p].profile) + 1
    /\ thread[p].pc = "resetDelivered" => thread[p].notification = Popped(thread[p].profile)
Alone == \A p \in Ports : AloneIn(p)

\* Popped and not yet sent.
Between(u) == \E p \in Ports : thread[p].profile = u /\ thread[p].pc = "resetDelivered"
Seen(u) == IF u \notin DOMAIN masterTable THEN 0
           ELSE IF Between(u) THEN Popped(u) - 1 ELSE Popped(u)
Latest(u, n) ==
  /\ \A p \in Ports : thread[p].profile = u => lastSent[p] <= n
  /\ n = 0 \/ \E p \in Ports : thread[p].profile = u /\ lastSent[p] = n
SeenInv == \A u \in Single : Seen(u) \in Nat /\ Latest(u, Seen(u))

MailInv == OneLive /\ Alone /\ SeenInv

LEMMA NobodyAtAll ==
  ASSUME SessionsAssumption, NEW S \in SUBSET Ports, Cardinality(S) < 1 PROVE S = {}
<1>1. IsFiniteSet(S) /\ Cardinality(S) \in Nat
  BY FinitePorts
<1>2. Cardinality(S) = 0
  BY <1>1
<1> QED BY <1>1, <1>2, FS_EmptySet

\* No thread begins.
NotBorn(q) == /\ thread'[q].profile = thread[q].profile
              /\ thread[q].pc \in {"none", "closed"} => thread'[q].pc \in {"none", "closed"}

LEMMA KeptNotBorn ==
  ASSUME NEW p \in Ports, \A q \in Ports \ {p} : Kept(q), NotBorn(p)
  PROVE  \A q \in Ports : NotBorn(q)
BY DEF Kept, NotBorn

LEMMA OneLiveStays ==
  ASSUME OneLive, \A q \in Ports : NotBorn(q), LoopGoesOn
  PROVE  OneLive'
<1>1. \A u : Live(u)' \subseteq Live(u)
  BY DEF Live, NotBorn
<1>2. \A u \in Single : \A p, q \in Live(u)' : p = q
  BY <1>1 DEF OneLive
<1>3. PICK w : w = loop'.profile
  OBVIOUS
<1>4. loop'.pc # "receive" /\ w \in Single => Live(w)' = {}
  BY <1>1, <1>3 DEF OneLive, LoopGoesOn
<1> QED BY <1>2, <1>3, <1>4 DEF OneLive

LEMMA EffectsOneLive ==
  ASSUME SessionsAssumption, TypeOK, SessionsMatchThreads, OneLive, SomeEffect
  PROVE  OneLive'
<1>1. CASE Quietly
  <2>1. \A q \in Ports : NotBorn(q)
    BY <1>1 DEF Quietly, Kept, NotBorn
  <2> QED BY <1>1, <2>1, OneLiveStays DEF Quietly
<1>2. ASSUME NEW u \in Profiles, Connects(u) PROVE OneLive'
  <2>1. \A w : Live(w)' = Live(w)
    BY <1>2 DEF Connects, Live
  <2>2. u \in Single => Live(u) = {}
    <3>1. CASE u \in DOMAIN masterTable
      <4>1. masterTable[u].activeSessions = Live(u) /\ Live(u) \subseteq Ports
        BY <3>1 DEF SessionsMatchThreads, Live
      <4>2. Cardinality(Live(u)) < ClientsPerProfile[u]
        BY <1>2, <3>1, <4>1 DEF Connects
      <4> QED BY <4>1, <4>2, NobodyAtAll DEF Single
    <3>2. CASE u \notin DOMAIN masterTable
      BY <3>2 DEF SessionsMatchThreads, Live
    <3> QED BY <3>1, <3>2
  <2>3. \A w \in Single : \A p, q \in Live(w)' : p = q
    BY <2>1 DEF OneLive
  <2>4. loop'.profile = u
    BY <1>2 DEF Connects
  <2> QED BY <2>1, <2>2, <2>3, <2>4 DEF OneLive
<1>3. ASSUME NEW u \in Profiles, Posts(u) PROVE OneLive'
  <2>1. \A q \in Ports : NotBorn(q)
    BY <1>3 DEF Posts, Kept, NotBorn
  <2> QED BY <1>3, <2>1, OneLiveStays DEF Posts, LoopGoesOn
<1>4. ASSUME NEW p \in Ports, Starts(p) PROVE OneLive'
  <2>1. PICK w : w = loop.profile
    OBVIOUS
  <2>2. ASSUME NEW u, u # w PROVE Live(u)' \subseteq Live(u)
    BY <1>4, <2>1, <2>2 DEF Starts, KeptBut, Live
  <2>3. Live(w)' \subseteq Live(w) \cup {p}
    BY <1>4, <2>1 DEF Starts, KeptBut, Live
  <2>4. w \in Single => Live(w) = {}
    BY <1>4, <2>1 DEF Starts, OneLive
  <2>5. ASSUME NEW u \in Single PROVE \A q, r \in Live(u)' : q = r
    <3>1. CASE u = w
      BY <2>3, <2>4, <2>5, <3>1
    <3>2. CASE u # w
      BY <2>2, <3>2 DEF OneLive
    <3> QED BY <3>1, <3>2
  <2>6. loop'.pc = "receive"
    BY <1>4 DEF Starts
  <2> QED BY <2>5, <2>6 DEF OneLive
<1>5. ASSUME NEW p \in Ports, Gets(p) PROVE OneLive'
  <2>1. \A q \in Ports : NotBorn(q)
    BY <1>5 DEF Gets, Kept, NotBorn
  <2> QED BY <1>5, <2>1, OneLiveStays DEF Gets, LoopGoesOn
<1>6. ASSUME NEW p \in Ports, Fronts(p) \/ Pops(p) \/ Resets(p) PROVE OneLive'
  <2>1. KeptBut(p) /\ NotBorn(p) /\ LoopGoesOn
    BY <1>6 DEF Fronts, Pops, Resets, Moves, NotBorn, LoopGoesOn
  <2>2. \A q \in Ports : NotBorn(q)
    BY <2>1, SameKept, KeptNotBorn DEF KeptBut
  <2> QED BY <2>1, <2>2, OneLiveStays
<1> QED BY <1>1, <1>2, <1>3, <1>4, <1>5, <1>6 DEF SomeEffect

\* A thread that is alone finds one session when it counts.
LEMMA FindsItself ==
  ASSUME SessionsMatchThreads, OneLive, NEW p \in Ports, thread[p].pc \notin {"none", "closed"},
         thread[p].profile \in Single
  PROVE  Cardinality(Row(p).activeSessions) = 1
<1>1. PICK u \in Single : u = thread[p].profile
  OBVIOUS
<1>2. p \in Live(u) /\ \A q \in Live(u) : q = p
  BY <1>1 DEF Live, OneLive
<1>3. Live(u) = {p}
  BY <1>2
<1>4. Row(p).activeSessions = {p}
  BY <1>1, <1>3 DEF Row, SessionsMatchThreads
<1> QED BY <1>4, FS_Singleton

LEMMA AloneStays ==
  ASSUME SessionsMatchThreads, OneLive, NEW q \in Ports, AloneIn(q), Kept(q),
         Popping(thread[q]) /\ thread[q].profile \in Single =>
           Popped(thread[q].profile)' = Popped(thread[q].profile)
  PROVE  AloneIn(q)'
<1> SUFFICES ASSUME thread'[q].profile \in Single PROVE AloneIn(q)'
  BY DEF AloneIn
<1>1. PICK u \in Single : u = thread[q].profile /\ u = thread'[q].profile
  BY DEF Kept
<1>2. thread'[q].pc \notin Shared
  <2>1. thread[q].pc \notin Shared
    BY <1>1 DEF AloneIn
  <2>2. thread[q].pc = "countOne" => Cardinality(Row(q).activeSessions) = 1
    BY <1>1, FindsItself
  <2> QED BY <2>1, <2>2 DEF Kept
<1>3. ASSUME Popping(thread'[q])
      PROVE  /\ thread'[q].pc = thread[q].pc /\ thread'[q].notification = thread[q].notification
             /\ Popped(u)' = Popped(u)
  BY <1>1, <1>3 DEF Kept, Popping
<1>4. /\ thread[q].pc = "popFront" => thread[q].notification = Popped(u) + 1
      /\ thread[q].pc = "resetDelivered" => thread[q].notification = Popped(u)
  BY <1>1 DEF AloneIn
<1>5. /\ thread'[q].pc = "popFront" => thread'[q].notification = Popped(u)' + 1
      /\ thread'[q].pc = "resetDelivered" => thread'[q].notification = Popped(u)'
  BY <1>3, <1>4 DEF Popping
<1> QED BY <1>1, <1>2, <1>5 DEF AloneIn

\* Two threads of a profile that is alone are one.
LEMMA SamePort ==
  ASSUME OneLive, NEW p \in Ports, NEW q \in Ports, thread[p].profile = thread[q].profile,
         thread[p].profile \in Single, thread[p].pc \notin {"none", "closed"},
         thread[q].pc \notin {"none", "closed"}
  PROVE  p = q
BY DEF OneLive, Live

\* What the lists have to do with it: a pop, and nothing else, moves the border
\* between what was popped and what was not.
PopsOf(u) == \E p \in Ports : Pops(p) /\ thread[p].profile = u

LEMMA PoppedStays ==
  ASSUME TypeOK, TypeOK', SessionsMatchThreads, Numbered, SomeEffect, NEW u \in DOMAIN masterTable, ~PopsOf(u)
  PROVE  Popped(u)' = Popped(u) /\ u \in DOMAIN masterTable'
<1>1. CASE \E p \in Ports : Pops(p)
  BY <1>1, PopNumbers DEF PopsOf, Pops
<1>2. CASE \E w \in Profiles : Posts(w)
  BY <1>2, PostNumbers DEF Posts
<1>3. CASE ~(\E p \in Ports : Pops(p)) /\ ~(\E w \in Profiles : Posts(w))
  <2>1. ListsKept /\ UNCHANGED posted
    BY <1>3 DEF SomeEffect, Quietly, Connects, Starts, Gets, Fronts, Resets, Moves,
                SameMessages, ListsKept, Messages
  <2> QED BY <2>1, ListsKeptNumbers DEF ListsKept
<1> QED BY <1>1, <1>2, <1>3

LEMMA EffectsAlone ==
  ASSUME TypeOK, TypeOK', SessionsMatchThreads, Numbered, OneLive, Alone, SomeEffect
  PROVE  Alone'
<1> SUFFICES ASSUME NEW q \in Ports PROVE AloneIn(q)'
  BY DEF Alone
<1>a. AloneIn(q)
  BY DEF Alone
<1>1. CASE Kept(q)
  <2>1. ASSUME Popping(thread[q]), thread[q].profile \in Single
        PROVE  Popped(thread[q].profile)' = Popped(thread[q].profile)
    <3>1. PICK u \in DOMAIN masterTable : u = thread[q].profile
      BY <2>1 DEF SessionsMatchThreads, Popping
    <3>2. CASE PopsOf(u)
      <4>1. PICK p \in Ports : Pops(p) /\ thread[p].profile = u
        BY <3>2 DEF PopsOf
      <4>2. thread[p].pc = "popFront" /\ thread'[p].pc = "resetDelivered"
        BY <4>1 DEF Pops, Moves
      <4>3. p = q
        BY <2>1, <3>1, <4>1, <4>2, SamePort DEF Popping
      <4> QED BY <1>1, <4>2, <4>3 DEF Kept
    <3>3. CASE ~PopsOf(u)
      <4>1. Popped(u)' = Popped(u)
        BY <3>3, PoppedStays
      <4>2. thread'[q].profile = u
        BY <1>1, <3>1 DEF Kept
      <4> QED BY <3>1, <4>1, <4>2
    <3> QED BY <3>2, <3>3
  <2> QED BY <1>1, <1>a, <2>1, AloneStays
<1>2. CASE Starts(q)
  <2>1. thread'[q].pc = "poll"
    BY <1>2 DEF Starts
  <2> QED BY <2>1 DEF AloneIn, Shared
<1>3. CASE Fronts(q)
  <2>1. PICK u \in DOMAIN masterTable : u = thread[q].profile
    BY <1>3 DEF SessionsMatchThreads, Fronts, Moves
  <2>2. /\ thread'[q].pc = "popFront" /\ thread'[q].profile = u
        /\ thread'[q].notification = Popped(u) + 1
    BY <1>3, <2>1, ListHere DEF Fronts, Moves
  <2>3. Popped(u)' = Popped(u)
    <3>1. ListsKept /\ UNCHANGED posted
      BY <1>3 DEF Fronts, Moves, SameMessages, ListsKept
    <3> QED BY <3>1, ListsKeptNumbers
  <2> QED BY <2>2, <2>3 DEF AloneIn, Shared
<1>4. CASE Pops(q)
  <2>1. PICK u \in DOMAIN masterTable : u = thread[q].profile
    BY <1>4 DEF SessionsMatchThreads, Pops, Moves
  <2>2. /\ thread'[q].pc = "resetDelivered" /\ thread'[q].profile = u
        /\ thread'[q].notification = thread[q].notification /\ thread[q].pc = "popFront"
    BY <1>4, <2>1 DEF Pops, Moves
  <2>3. Popped(u)' = Popped(u) + 1
    BY <1>4, <2>1, PopNumbers
  <2>4. u \in Single => thread[q].notification = Popped(u) + 1
    BY <1>a, <2>1, <2>2 DEF AloneIn
  <2> QED BY <2>2, <2>3, <2>4 DEF AloneIn, Shared
<1>5. CASE Resets(q)
  <2>1. thread'[q].pc = "receive"
    BY <1>5 DEF Resets, Moves
  <2> QED BY <2>1 DEF AloneIn, Shared
<1>6. Kept(q) \/ Starts(q) \/ Fronts(q) \/ Pops(q) \/ Resets(q)
  BY SameKept DEF SomeEffect, Quietly, Connects, Posts, Gets, Starts, Fronts, Pops, Resets, Moves, KeptBut
<1> QED BY <1>1, <1>2, <1>3, <1>4, <1>5, <1>6

-----------------------------------------------------------------------------
(* What was seen last.                                                      *)

\* No port begins to count, or counts otherwise, for the profile.
SameFor(u) ==
  \A q \in Ports : \/ /\ thread'[q].profile = u <=> thread[q].profile = u
                      /\ thread[q].profile = u => lastSent'[q] = lastSent[q]
                   \/ lastSent[q] = 0 /\ lastSent'[q] = 0

LEMMA LatestStays ==
  ASSUME NEW u, NEW n \in Nat, Latest(u, n), SameFor(u)
  PROVE  Latest(u, n)'
<1>1. ASSUME NEW q \in Ports, thread'[q].profile = u PROVE lastSent'[q] <= n
  <2>1. CASE lastSent'[q] = 0
    BY <2>1
  <2>2. CASE lastSent'[q] # 0
    <3>1. thread[q].profile = u /\ lastSent'[q] = lastSent[q]
      BY <1>1, <2>2 DEF SameFor
    <3> QED BY <3>1 DEF Latest
  <2> QED BY <2>1, <2>2
<1>2. CASE n # 0
  <2>1. PICK q \in Ports : thread[q].profile = u /\ lastSent[q] = n
    BY <1>2 DEF Latest
  <2>2. thread'[q].profile = u /\ lastSent'[q] = n
    BY <1>2, <2>1 DEF SameFor
  <2> QED BY <1>1, <2>2 DEF Latest
<1>3. CASE n = 0
  BY <1>1, <1>3 DEF Latest
<1> QED BY <1>2, <1>3

SeenStays(u) == SameFor(u) /\ Seen(u)' = Seen(u)
ResetsOf(u) == \E p \in Ports : Resets(p) /\ thread[p].profile = u

\* Nobody of the profile reaches or leaves the moment between the two steps.
AtReset(u, q) == thread[q].profile = u /\ thread[q].pc = "resetDelivered"
SameBetween(u) == \A q \in Ports : AtReset(u, q)' <=> AtReset(u, q)

LEMMA BetweenStays == ASSUME NEW u, SameBetween(u) PROVE Between(u)' <=> Between(u)
BY DEF SameBetween, AtReset, Between

LEMMA SeenSame ==
  ASSUME TypeOK, TypeOK', SessionsMatchThreads, OneLive, OrderInv, Alone, SomeEffect,
         NEW u \in Single, ~ResetsOf(u)
  PROVE  SeenStays(u)
<1>u. u \in Profiles /\ Numbered
  BY DEF Single, OrderInv
<1>1. SameFor(u)
  <2>1. CASE Quietly \/ (\E w \in Profiles : Connects(w) \/ Posts(w))
    BY <2>1 DEF Quietly, Connects, Posts, Kept, SameFor
  <2>2. ASSUME NEW p \in Ports, Starts(p) PROVE SameFor(u)
    <3>1. lastSent[p] = 0 /\ lastSent'[p] = 0
      BY <2>2 DEF Starts, OrderInv, NothingAhead, NotAhead
    <3> QED BY <2>2, <3>1 DEF Starts, KeptBut, SameFor
  <2>3. ASSUME NEW p \in Ports, Gets(p) PROVE SameFor(u)
    <3>1. thread[p].profile # u
      BY <2>3 DEF Gets, Alone, AloneIn, Shared
    <3> QED BY <2>3, <3>1 DEF Gets, Kept, SameFor, TypeOK
  <2>4. ASSUME NEW p \in Ports, Fronts(p) \/ Pops(p) PROVE SameFor(u)
    BY <2>4 DEF Fronts, Pops, Moves, KeptBut, SameFor
  <2>5. ASSUME NEW p \in Ports, Resets(p) PROVE SameFor(u)
    <3>1. thread[p].profile # u
      BY <2>5 DEF ResetsOf
    <3> QED BY <2>5, <3>1 DEF Resets, Moves, KeptBut, SameFor, TypeOK
  <2> QED BY <2>1, <2>2, <2>3, <2>4, <2>5 DEF SomeEffect
<1>2. CASE PopsOf(u)
  <2>1. PICK p \in Ports : Pops(p) /\ thread[p].profile = u
    BY <1>2 DEF PopsOf
  <2>2. u \in DOMAIN masterTable /\ u \in DOMAIN masterTable' /\ Popped(u)' = Popped(u) + 1
    BY <1>u, <2>1, PopNumbers DEF Pops
  <2>3. Popped(u) \in Nat
    BY <1>u, <2>2 DEF Numbered
  <2>4. Between(u)'
    BY <2>1 DEF Between, Pops, Moves
  <2>5. ~Between(u)
    <3> SUFFICES ASSUME NEW q \in Ports, thread[q].profile = u, thread[q].pc = "resetDelivered"
                 PROVE  FALSE
      BY DEF Between
    <3>1. thread[p].pc = "popFront"
      BY <2>1 DEF Pops, Moves
    <3>2. p = q
      BY <2>1, <3>1, SamePort
    <3> QED BY <3>1, <3>2
  <2>6. Seen(u)' = Popped(u) /\ Seen(u) = Popped(u)
    BY <2>2, <2>3, <2>4, <2>5 DEF Seen
  <2> QED BY <1>1, <2>6 DEF SeenStays
<1>3. CASE ~PopsOf(u)
  <2>1. SameBetween(u)
    <3>1. ASSUME NEW q \in Ports PROVE AtReset(u, q)' <=> AtReset(u, q)
      <4>1. CASE Kept(q)
        BY <4>1 DEF Kept, AtReset
      <4>2. CASE Starts(q) \/ Fronts(q)
        BY <4>2 DEF Starts, Fronts, Moves, AtReset
      <4>3. CASE Pops(q) \/ Resets(q)
        <5>1. thread[q].profile # u /\ thread'[q].profile = thread[q].profile
          BY <1>3, <4>3 DEF PopsOf, ResetsOf, Pops, Resets, Moves
        <5> QED BY <5>1 DEF AtReset
      <4>4. Kept(q) \/ Starts(q) \/ Fronts(q) \/ Pops(q) \/ Resets(q)
        BY SameKept DEF SomeEffect, Quietly, Connects, Posts, Gets, Starts, Fronts, Pops, Resets, Moves, KeptBut
      <4> QED BY <4>1, <4>2, <4>3, <4>4
    <3> QED BY <3>1 DEF SameBetween
  <2>2. Between(u)' <=> Between(u)
    BY <2>1, BetweenStays
  <2>3. CASE u \in DOMAIN masterTable
    <3>1. Popped(u)' = Popped(u) /\ u \in DOMAIN masterTable'
      BY <1>3, <2>3, <1>u, PoppedStays
    <3> QED BY <1>1, <2>2, <2>3, <3>1 DEF Seen, SeenStays
  <2>4. CASE u \notin DOMAIN masterTable
    <3>1. ~Between(u)
      BY <2>4 DEF Between, SessionsMatchThreads
    <3>2. u \in DOMAIN masterTable' => Popped(u)' = 0
      <4>1. CASE ListsKept /\ UNCHANGED posted
        BY <2>4, <1>u, <4>1, ListsKeptNumbers
      <4>2. CASE ~(ListsKept /\ UNCHANGED posted)
        BY <2>4, <4>2 DEF SomeEffect, Quietly, Connects, Starts, Gets, Fronts, Pops, Posts, Resets, Moves,
                          SameMessages, ListsKept, Messages
      <4> QED BY <4>1, <4>2
    <3> QED BY <1>1, <2>2, <2>4, <3>1, <3>2 DEF Seen, SeenStays
  <2> QED BY <2>3, <2>4
<1> QED BY <1>2, <1>3

\* The notification that was popped is sent.
SeenMore(u) == /\ Seen(u) \in Nat /\ Seen(u) < posted[u] /\ UNCHANGED posted
               /\ Seen(u)' = Seen(u) + 1 /\ Latest(u, Seen(u))'

LEMMA ResetSeen ==
  ASSUME TypeOK, TypeOK', SessionsMatchThreads, OneLive, OrderInv, Alone, SeenInv,
         NEW p \in Ports, Resets(p), NEW u \in Single, thread[p].profile = u
  PROVE  SeenMore(u)
<1>1. /\ thread[p].pc = "resetDelivered" /\ thread'[p].pc = "receive" /\ thread'[p].profile = u
      /\ lastSent'[p] = thread[p].notification /\ UNCHANGED posted /\ ListsKept
      /\ \A q \in Ports \ {p} : thread'[q] = thread[q] /\ lastSent'[q] = lastSent[q]
  BY DEF Resets, Moves, KeptBut, TypeOK, SameMessages, ListsKept
<1>2. u \in DOMAIN masterTable /\ u \in DOMAIN masterTable'
  BY <1>1 DEF SessionsMatchThreads, ListsKept
<1>3. /\ Popped(u)' = Popped(u) /\ Popped(u) \in Nat /\ Popped(u) <= posted[u]
  <2>1. Popped(u)' = Popped(u)
    BY <1>1, <1>2, ListsKeptNumbers DEF OrderInv
  <2>2. PICK n, m \in Nat : n = posted[u] /\ m = Len(Messages(u))
    <3>1. Numbered
      BY DEF OrderInv
    <3>2. Messages(u) \in Seq(Nat) /\ posted[u] \in Nat
      BY <1>2, <3>1, ListHere
    <3>3. Len(Messages(u)) \in Nat
      BY <3>2
    <3> QED BY <3>2, <3>3
  <2>3. n - m <= n
    BY <2>2
  <2>4. Popped(u) \in Nat
    BY <1>2 DEF OrderInv, Numbered
  <2> QED BY <2>1, <2>2, <2>3, <2>4 DEF Popped
<1>4. Between(u) /\ ~Between(u)'
  <2>1. Between(u)
    BY <1>1 DEF Between
  <2>2. ASSUME NEW q \in Ports, thread'[q].profile = u, thread'[q].pc = "resetDelivered" PROVE FALSE
    <3>1. q # p
      BY <1>1, <2>2
    <3>2. thread[q].profile = u /\ thread[q].pc = "resetDelivered"
      BY <1>1, <2>2, <3>1
    <3> QED BY <1>1, <3>1, <3>2, SamePort
  <2> QED BY <2>1, <2>2 DEF Between
<1>5. PICK n \in Nat : n = Seen(u) /\ Popped(u) = n + 1 /\ Latest(u, n)
  <2>1. Seen(u) \in Nat /\ Latest(u, Seen(u)) /\ Seen(u) = Popped(u) - 1
    BY <1>2, <1>4 DEF SeenInv, Seen
  <2> QED BY <1>3, <2>1
<1>6. Seen(u)' = n + 1
  BY <1>2, <1>3, <1>4, <1>5 DEF Seen
<1>7. thread[p].notification = n + 1
  BY <1>1, <1>5 DEF Alone, AloneIn
<1>8. PICK m \in Nat : m = n + 1
  OBVIOUS
<1>9. Latest(u, m)'
  <2>1. ASSUME NEW q \in Ports, thread'[q].profile = u PROVE lastSent'[q] <= m
    <3>1. CASE q = p
      BY <1>1, <1>7, <1>8, <3>1
    <3>2. CASE q # p
      <4>1. lastSent[q] <= n /\ lastSent[q] \in Nat
        BY <1>1, <1>5, <2>1, <3>2 DEF Latest, TypeOK
      <4> QED BY <1>1, <1>8, <3>2, <4>1
    <3> QED BY <3>1, <3>2
  <2>2. thread'[p].profile = u /\ lastSent'[p] = m
    BY <1>1, <1>7, <1>8
  <2> QED BY <2>1, <2>2 DEF Latest
<1>10. Latest(u, Seen(u))' /\ Seen(u)' = Seen(u) + 1
  BY <1>5, <1>6, <1>8, <1>9
<1>11. Seen(u) < posted[u]
  <2>1. posted[u] \in Nat
    BY <1>2, ListHere DEF OrderInv
  <2> QED BY <1>3, <1>5, <2>1
<1> QED BY <1>1, <1>5, <1>10, <1>11 DEF SeenMore

LEMMA SeenAgain ==
  ASSUME SeenInv, NEW u \in Single, SeenStays(u)
  PROVE  Seen(u)' \in Nat /\ Latest(u, Seen(u))'
<1>1. PICK n \in Nat : n = Seen(u) /\ Latest(u, n)
  BY DEF SeenInv
<1>2. Latest(u, n)' /\ Seen(u)' = n
  BY <1>1, LatestStays DEF SeenStays
<1> QED BY <1>2

LEMMA EffectsSeen ==
  ASSUME TypeOK, TypeOK', SessionsMatchThreads, OneLive, OrderInv, Alone, SeenInv, SomeEffect
  PROVE  SeenInv' /\ \A u \in Single : SeenStays(u) \/ (ResetsOf(u) /\ SeenMore(u))
<1>1. ASSUME NEW u \in Single
      PROVE  (SeenStays(u) \/ (ResetsOf(u) /\ SeenMore(u))) /\ Seen(u)' \in Nat /\ Latest(u, Seen(u))'
  <2>1. CASE ResetsOf(u)
    <3>1. SeenMore(u)
      BY <2>1, ResetSeen DEF ResetsOf
    <3>2. Seen(u) \in Nat /\ Seen(u)' = Seen(u) + 1 /\ Latest(u, Seen(u))'
      BY <3>1 DEF SeenMore
    <3> QED BY <2>1, <3>1, <3>2
  <2>2. CASE ~ResetsOf(u)
    BY <2>2, SeenSame, SeenAgain
  <2> QED BY <2>1, <2>2
<1> QED BY <1>1 DEF SeenInv

-----------------------------------------------------------------------------
(* The refinement.                                                          *)

LEMMA GreatestIs ==
  ASSUME NEW S, NEW n \in Nat, \A m \in S : m \in Nat /\ m <= n, n \in S \cup {0}
  PROVE  (CHOOSE k \in S \cup {0} : \A m \in S : m <= k) = n
<1>1. \A k \in S \cup {0} : (\A m \in S : m <= k) => k = n
  <2> SUFFICES ASSUME NEW k \in S \cup {0}, \A m \in S : m <= k PROVE k = n
    OBVIOUS
  <2>1. k \in Nat /\ k <= n
    OBVIOUS
  <2>2. n <= k
    BY <2>1
  <2> QED BY <2>1, <2>2
<1> QED BY <1>1

LEMMA ShownIsSeen ==
  ASSUME TypeOK, SeenInv, NEW u \in Single PROVE ShownTo(u) = Seen(u) /\ Seen(u) \in Nat
<1> DEFINE sent == {lastSent[p] : p \in {q \in Ports : thread[q].profile = u}}
<1>1. PICK n \in Nat : n = Seen(u) /\ Latest(u, n)
  BY DEF SeenInv
<1>2. \A m \in sent : m \in Nat /\ m <= n
  BY <1>1 DEF Latest, TypeOK
<1>3. n \in sent \cup {0}
  BY <1>1 DEF Latest
<1>4. (CHOOSE k \in sent \cup {0} : \A m \in sent : m <= k) = n
  <2> HIDE DEF sent
  <2> QED BY <1>2, <1>3, GreatestIs
<1> QED BY <1>1, <1>4 DEF ShownTo

LEMMA ShownIsSeenNext ==
  ASSUME TypeOK', SeenInv', NEW u \in Single PROVE ShownTo(u)' = Seen(u)'
<1> DEFINE sent == {lastSent'[p] : p \in {q \in Ports : thread'[q].profile = u}}
<1>1. PICK n \in Nat : n = Seen(u)' /\ Latest(u, n)'
  BY DEF SeenInv
<1>2. \A m \in sent : m \in Nat /\ m <= n
  BY <1>1 DEF Latest, TypeOK
<1>3. n \in sent \cup {0}
  BY <1>1 DEF Latest
<1>4. (CHOOSE k \in sent \cup {0} : \A m \in sent : m <= k) = n
  <2> HIDE DEF sent
  <2> QED BY <1>2, <1>3, GreatestIs
<1> QED BY <1>1, <1>4 DEF ShownTo

\* What the mailboxes of the profiles that are alone have been given and have shown.
Given == [u \in Single |-> posted[u]]
Shown == [u \in Single |-> ShownTo(u)]

LEMMA EffectsRefine ==
  ASSUME TypeOK, TypeOK', SessionsMatchThreads, OneLive, OrderInv, Alone, SeenInv, SomeEffect
  PROVE  [MB!Next]_<<Given, Shown>>
<1>1. SeenInv' /\ \A u \in Single : SeenStays(u) \/ (ResetsOf(u) /\ SeenMore(u))
  BY EffectsSeen
<1>2. Given = [u \in Single |-> posted[u]] /\ Shown = [u \in Single |-> Seen(u)]
  BY ShownIsSeen DEF Given, Shown
<1>3. Given' = [u \in Single |-> posted'[u]] /\ Shown' = [u \in Single |-> Seen(u)']
  <2>1. \A u \in Single : ShownTo(u)' = Seen(u)'
    BY <1>1, ShownIsSeenNext
  <2> QED BY <2>1 DEF Given, Shown
<1>4. CASE \E p \in Ports : Resets(p) /\ thread[p].profile \in Single
  <2>1. PICK p \in Ports, u \in Single : Resets(p) /\ thread[p].profile = u
    BY <1>4
  <2>2. ASSUME NEW w \in Single, w # u PROVE ~ResetsOf(w)
    <3> SUFFICES ASSUME NEW q \in Ports, Resets(q), thread[q].profile = w PROVE FALSE
      BY DEF ResetsOf
    <3>1. q # p
      BY <2>1, <2>2
    <3>2. thread'[q] = thread[q] /\ thread[q].pc = "resetDelivered" /\ thread'[q].pc = "receive"
      BY <2>1, <3>1 DEF Resets, Moves, KeptBut
    <3> QED BY <3>2
  <2>3. \A w \in Single : w # u => Seen(w)' = Seen(w)
    BY <1>1, <2>2 DEF SeenStays
  <2>4. SeenMore(u)
    BY <2>1, ResetSeen
  <2>5. Shown' = [Shown EXCEPT ![u] = @ + 1]
    BY <1>2, <1>3, <2>3, <2>4 DEF SeenMore
  <2>6. Given' = Given /\ Shown[u] < Given[u]
    BY <1>2, <1>3, <2>4 DEF SeenMore
  <2>7. MB!Show(u)
    BY <2>5, <2>6 DEF MB!Show, Given, Shown
  <2> QED BY <2>7 DEF MB!Next
<1>5. CASE ~(\E p \in Ports : Resets(p) /\ thread[p].profile \in Single)
  <2>1. Shown' = Shown
    <3>1. \A w \in Single : Seen(w)' = Seen(w)
      BY <1>1, <1>5 DEF SeenStays, ResetsOf
    <3> QED BY <1>2, <1>3, <3>1
  <2>2. CASE \E w \in Profiles : Posts(w)
    <3>1. PICK w \in Profiles : Posts(w)
      BY <2>2
    <3>2. posted' = [posted EXCEPT ![w] = @ + 1]
      BY <3>1 DEF Posts
    <3>3. CASE w \in Single
      <4>1. Given' = [Given EXCEPT ![w] = @ + 1]
        <5>1. \A u \in Single : posted'[u] = IF u = w THEN posted[u] + 1 ELSE posted[u]
          BY <3>2 DEF TypeOK, Single
        <5>2. PICK g, h : g = Given /\ h = Given'
          OBVIOUS
        <5>3. \A u \in Single : h[u] = IF u = w THEN g[u] + 1 ELSE g[u]
          BY <1>2, <1>3, <5>1, <5>2
        <5>4. h = [u \in Single |-> h[u]] /\ g = [u \in Single |-> g[u]]
          BY <1>2, <1>3, <5>2
        <5>5. h = [g EXCEPT ![w] = @ + 1]
          BY <3>3, <5>3, <5>4
        <5> QED BY <5>2, <5>5
      <4>2. MB!Post(w)
        BY <2>1, <4>1 DEF MB!Post, Given, Shown
      <4> QED BY <3>3, <4>2 DEF MB!Next
    <3>4. CASE w \notin Single
      <4>1. Given' = Given
        BY <1>2, <1>3, <3>2, <3>4 DEF TypeOK, Single
      <4> QED BY <2>1, <4>1
    <3> QED BY <3>3, <3>4
  <2>3. CASE ~(\E w \in Profiles : Posts(w))
    <3>1. UNCHANGED posted
      BY <2>3 DEF SomeEffect, Quietly, Connects, Starts, Gets, Fronts, Pops, Resets, Moves
    <3>2. Given' = Given
      BY <1>2, <1>3, <3>1
    <3> QED BY <2>1, <3>2
  <2> QED BY <2>2, <2>3
<1> QED BY <1>4, <1>5

LEMMA MailInit == ASSUME SessionsAssumption, Init PROVE MailInv /\ MB!Init
<1>1. \A p \in Ports : thread[p].pc = "none" /\ lastSent[p] = 0
  BY DEF Init, NewThread
<1>2. OneLive /\ Alone
  <2>1. \A u : Live(u) = {}
    BY <1>1 DEF Live
  <2> QED BY <1>1, <2>1 DEF OneLive, Alone, AloneIn, Shared
<1>3. ASSUME NEW u \in Single PROVE Seen(u) = 0 /\ posted[u] = 0
  <2>1. u \in Profiles /\ ~Between(u)
    BY <1>1 DEF Single, Between
  <2>2. posted[u] = 0
    BY <2>1 DEF Init
  <2>3. CASE u \in DOMAIN masterTable
    <3>1. Popped(u) \in Nat
      BY <2>3, OrderInit DEF OrderInv, Numbered
    <3>2. PICK m \in Nat : m = Len(Messages(u))
      <4>1. TypeOK /\ Numbered
        BY SessionInvInit, OrderInit DEF SessionInv, OrderInv
      <4>2. Messages(u) \in Seq(Nat)
        BY <2>3, <4>1, ListHere
      <4> QED BY <4>2
    <3>3. PICK n \in Nat : n = Popped(u) /\ n = 0 - m
      BY <2>2, <3>1, <3>2 DEF Popped
    <3>4. n = 0
      BY <3>2, <3>3
    <3> QED BY <2>1, <2>2, <2>3, <3>3, <3>4 DEF Seen
  <2>4. CASE u \notin DOMAIN masterTable
    BY <2>2, <2>4 DEF Seen
  <2> QED BY <2>3, <2>4
<1>4. SeenInv
  BY <1>1, <1>3 DEF SeenInv, Latest
<1>5. TypeOK
  BY SessionInvInit DEF SessionInv
<1>6. Given = [u \in Single |-> 0] /\ Shown = [u \in Single |-> 0]
  BY <1>3, <1>4, <1>5, ShownIsSeen DEF Given, Shown
<1> QED BY <1>2, <1>4, <1>6 DEF MailInv, MB!Init, Given, Shown

LEMMA MailStep ==
  SessionsAssumption /\ SessionInv /\ SessionInv' /\ OrderInv /\ MailInv /\ [Next]_vars
    => MailInv' /\ [MB!Next]_<<Given, Shown>>
<1> SUFFICES ASSUME SessionsAssumption, SessionInv, SessionInv', OrderInv, MailInv, [Next]_vars
             PROVE  MailInv' /\ [MB!Next]_<<Given, Shown>>
  OBVIOUS
<1>1. SomeEffect
  BY StepEffects
<1>2. TypeOK /\ TypeOK' /\ SessionsMatchThreads /\ OneLive /\ OrderInv /\ Numbered /\ Alone /\ SeenInv
  BY DEF SessionInv, MailInv, OrderInv
<1>3. OneLive'
  BY <1>1, <1>2, EffectsOneLive
<1>4. Alone'
  BY <1>1, <1>2, EffectsAlone
<1>5. SeenInv'
  BY <1>1, <1>2, EffectsSeen
<1>6. [MB!Next]_<<Given, Shown>>
  BY <1>1, <1>2, EffectsRefine
<1> QED BY <1>3, <1>4, <1>5, <1>6 DEF MailInv

\* A profile that has one session at a time is shown its notifications as Mailbox
\* says, each one once and in order, however many sessions the others have.
THEOREM SessionsImplementMailbox == Spec => ImplementsMailbox
<1>1. Init => OrderInv /\ MailInv /\ MB!Init
  BY OrderInit, MailInit, SessionsAssumption
<1>2. SessionInv /\ SessionInv' /\ OrderInv /\ MailInv /\ [Next]_vars
        => /\ OrderInv' /\ MailInv'
           /\ [MB!Next]_<<Given, Shown>>
  <2> SUFFICES ASSUME SessionInv, SessionInv', OrderInv, MailInv, [Next]_vars
               PROVE  OrderInv' /\ MailInv' /\ [MB!Next]_<<Given, Shown>>
    OBVIOUS
  <2>1. OrderInv'
    BY OrderStep, SessionsAssumption DEF Forward
  <2>2. MailInv' /\ [MB!Next]_<<Given, Shown>>
    BY MailStep, SessionsAssumption
  <2> QED BY <2>1, <2>2
<1> QED BY <1>1, <1>2, SessionInvariant, PTL DEF Spec, ImplementsMailbox, MB!Spec, Given, Shown
=============================================================================
