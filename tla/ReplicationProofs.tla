-------------------------- MODULE ReplicationProofs ---------------------------
(***************************************************************************)
(* What a backup that has missed nothing is told of has a row there, and   *)
(* every variable has its type, for any servers, profiles, limit, crashes  *)
(* and failovers.                                                          *)
(*                                                                         *)
(* The rows: a session starts only when every backup has been sent the     *)
(* CONNECT of its profile, and a datagram does not overtake another on its *)
(* way to the same backup. At a failover the servers that missed nothing   *)
(* have heard of the same profiles, since who was still to be told of one  *)
(* has missed it, so the sessions that the successor opens again are of    *)
(* profiles that the others have heard of too.                             *)
(*                                                                         *)
(* The types: that a profile never counts more sessions than the limit is  *)
(* clear of all steps but those by which a successor opens the sessions    *)
(* again, which takes one away and adds one, if it still is there. Each    *)
(* list of sessions is then, in some order, a part of the one that was     *)
(* copied.                                                                 *)
(***************************************************************************)
EXTENDS Replication, SequenceTheorems, FiniteSetTheorems, WellFoundedInduction, TLAPS

(* What of TypeOK the argument needs.                                       *)
WeakDatagram ==
  [type : {"CONNECT", "DISCONNECT"}, profile : Profiles, port : Nat]
    \cup [type : {"FOLLOW"}, profile : Profiles, follow : Profiles]
    \cup [type : {"SEND"}, profile : Profiles, message : [from : Profiles, id : Nat]]
RowFields == {"sessions", "followers", "messages"}
LoopFields == {"pc", "profile", "toTell", "toOpen", "users"}
ThreadFields == {"pc", "profile", "datagram", "toTell"}

Typed ==
  /\ DOMAIN masterTable = Servers /\ DOMAIN thread = Ports
  /\ inbox \in [Servers -> Seq(WeakDatagram)]
  /\ backupServers \in Seq(Servers)
  /\ nextClientPort \in [Servers -> Nat] /\ sends \in Nat

(* The servers that missed nothing live, one of them has the port if        *)
(* anybody has, and it has the others on its list.                          *)
Roles == /\ upToDate \subseteq alive /\ alive \subseteq Servers
         /\ primary = Nobody \/ primary \in upToDate
Enlisted == upToDate \ {primary} \subseteq ToSet(backupServers)
Idle == primary = Nobody => loop = Rest /\ \A p \in Ports : thread[p] = NoThread

(* What a sequence of datagrams tells of, and that each of them is of a     *)
(* profile among rows, or of one that an earlier CONNECT told of.           *)
Told(q, u) == \E i \in DOMAIN q : q[i].type = "CONNECT" /\ q[i].profile = u
Closed(rows, q) ==
  \A i \in DOMAIN q :
    q[i].type # "CONNECT" =>
      \/ q[i].profile \in rows
      \/ \E j \in 1 .. i - 1 : q[j].type = "CONNECT" /\ q[j].profile = q[i].profile

(* Rows have their fields, and are there for whoever a datagram comes from. *)
RowsFormed(s) ==
  /\ DOMAIN masterTable[s] \subseteq Profiles
  /\ \A u \in DOMAIN masterTable[s] : DOMAIN masterTable[s][u] = RowFields
InboxClosed(s) == Closed(DOMAIN masterTable[s], inbox[s])

(* Who has heard of a profile has a row for it or will have one when it has *)
(* read its datagrams.                                                      *)
Hears(s, u) == u \in DOMAIN masterTable[s] \/ Told(inbox[s], u)

HasRow(u) == primary \in upToDate => u \in DOMAIN masterTable[primary]
HeardByAll(u) == HasRow(u) /\ \A c \in upToDate \ {primary} : Hears(c, u)

LoopSound ==
  /\ DOMAIN loop = LoopFields /\ loop.toTell \in Seq(Servers)
  /\ loop.toTell # <<>> => loop.pc = "tell"
  /\ loop.pc = "tell" => HasRow(loop.profile)
  /\ loop.pc = "reopen" => /\ \A u \in loop.users : HasRow(u)
                           /\ loop.toOpen # <<>> => HasRow(loop.profile)

ThreadSound(locals) ==
  /\ DOMAIN locals = ThreadFields /\ locals.toTell \in Seq(Servers)
  /\ locals.pc # "none" => HeardByAll(locals.profile)
  /\ locals.toTell # <<>> => /\ locals.pc # "none"
                             /\ locals.datagram \in WeakDatagram
                             /\ locals.datagram.profile = locals.profile

ToBeTold(c, u) == c \in ToSet(loop.toTell) /\ u = loop.profile
AllHear ==
  \A b, c \in upToDate : \A u \in Profiles :
    c # primary /\ Hears(b, u) => Hears(c, u) \/ ToBeTold(c, u)

Sound == /\ Typed /\ Roles /\ Enlisted /\ Idle
         /\ \A s \in upToDate : RowsFormed(s) /\ InboxClosed(s)
         /\ LoopSound /\ (\A p \in Ports : ThreadSound(thread[p])) /\ AllHear

KnownInv == upToDate # {} => Sound

-----------------------------------------------------------------------------
(* Sequences of datagrams.                                                  *)

\* More rows leave it closed.
LEMMA ClosedGrows ==
  ASSUME NEW q, NEW rows, NEW more, rows \subseteq more, Closed(rows, q)
  PROVE  Closed(more, q)
BY DEF Closed

\* One more datagram, of a profile that was told of or has a row.
LEMMA AppendClosed ==
  ASSUME NEW S, NEW q \in Seq(S), NEW d \in S, NEW rows, Closed(rows, q),
         d.type # "CONNECT" => d.profile \in rows \/ Told(q, d.profile)
  PROVE  /\ Closed(rows, Append(q, d))
         /\ \A u : Told(Append(q, d), u) <=> Told(q, u) \/ (d.type = "CONNECT" /\ d.profile = u)
<1> DEFINE r == Append(q, d)
<1>1. /\ Len(q) \in Nat /\ DOMAIN q = 1 .. Len(q) /\ DOMAIN r = 1 .. Len(q) + 1
      /\ \A i \in 1 .. Len(q) : r[i] = q[i]
      /\ r[Len(q) + 1] = d
  OBVIOUS
<1> HIDE DEF r
<1>2. \A u : Told(r, u) <=> Told(q, u) \/ (d.type = "CONNECT" /\ d.profile = u)
  BY <1>1 DEF Told
<1>3. ASSUME NEW i \in 1 .. Len(q), q[i].type # "CONNECT", q[i].profile \notin rows
      PROVE  \E j \in 1 .. i - 1 : r[j].type = "CONNECT" /\ r[j].profile = q[i].profile
  <2>1. PICK j \in 1 .. i - 1 : q[j].type = "CONNECT" /\ q[j].profile = q[i].profile
    BY <1>1, <1>3 DEF Closed
  <2> QED BY <1>1, <2>1
<1>4. Closed(rows, r)
  BY <1>1, <1>3 DEF Closed, Told
<1> QED BY <1>2, <1>4 DEF r

\* One datagram less: who has a row for it need not be told.
LEMMA TailClosed ==
  ASSUME NEW S, NEW q \in Seq(S), q # <<>>, NEW rows, NEW more, Closed(rows, q),
         rows \subseteq more, q[1].type = "CONNECT" => q[1].profile \in more
  PROVE  /\ Closed(more, Tail(q))
         /\ \A u : Told(Tail(q), u) => Told(q, u)
         /\ \A u : Told(q, u) => u \in more \/ Told(Tail(q), u)
<1> DEFINE r == Tail(q)
<1>1. /\ Len(q) \in Nat \ {0} /\ DOMAIN q = 1 .. Len(q) /\ DOMAIN r = 1 .. Len(q) - 1
      /\ \A i \in 1 .. Len(q) - 1 : r[i] = q[i + 1]
  OBVIOUS
<1> HIDE DEF r
<1>2. \A u : Told(r, u) => Told(q, u)
  BY <1>1 DEF Told
<1>3. ASSUME NEW u, Told(q, u) PROVE u \in more \/ Told(r, u)
  <2>1. PICK i \in 1 .. Len(q) : q[i].type = "CONNECT" /\ q[i].profile = u
    BY <1>1, <1>3 DEF Told
  <2>2. CASE i = 1
    BY <2>1, <2>2
  <2>3. CASE i # 1
    <3>1. i - 1 \in 1 .. Len(q) - 1 /\ r[i - 1] = q[i]
      BY <1>1, <2>3
    <3> QED BY <1>1, <2>1, <3>1 DEF Told
  <2> QED BY <2>2, <2>3
<1>4. ASSUME NEW i \in 1 .. Len(q) - 1, r[i].type # "CONNECT", r[i].profile \notin more
      PROVE  \E j \in 1 .. i - 1 : r[j].type = "CONNECT" /\ r[j].profile = r[i].profile
  <2>1. i + 1 \in DOMAIN q /\ q[i + 1] = r[i] /\ i + 1 - 1 = i
    BY <1>1
  <2>2. PICK j \in 1 .. i : q[j].type = "CONNECT" /\ q[j].profile = r[i].profile
    BY <1>4, <2>1 DEF Closed
  <2>3. j # 1
    BY <1>4, <2>2
  <2>4. j - 1 \in 1 .. i - 1 /\ r[j - 1] = q[j]
    BY <1>1, <2>3
  <2> QED BY <2>2, <2>4
<1>5. Closed(more, r)
  BY <1>1, <1>4 DEF Closed
<1> QED BY <1>2, <1>3, <1>5 DEF r

-----------------------------------------------------------------------------
(* The table of the primary, and the datagrams of one backup.               *)

\* A row set in a table.
LEMMA SetRowIs ==
  ASSUME DOMAIN masterTable = Servers, NEW s \in Servers, NEW u, NEW row, SetRow(s, u, row)
  PROVE  /\ DOMAIN masterTable' = Servers
         /\ DOMAIN masterTable'[s] = DOMAIN masterTable[s] \cup {u}
         /\ \A v \in DOMAIN masterTable[s] \cup {u} :
              masterTable'[s][v] = IF v = u THEN row ELSE masterTable[s][v]
         /\ \A t \in Servers \ {s} : masterTable'[t] = masterTable[t]
BY DEF SetRow

\* With one more row the table is as good as before.
LEMMA RowFormed ==
  ASSUME NEW s, RowsFormed(s), NEW u \in Profiles, NEW row, DOMAIN row = RowFields,
         DOMAIN masterTable'[s] = DOMAIN masterTable[s] \cup {u},
         \A v \in DOMAIN masterTable[s] \cup {u} :
           masterTable'[s][v] = IF v = u THEN row ELSE masterTable[s][v]
  PROVE  RowsFormed(s)'
BY DEF RowsFormed

\* A change of the primary's table that drops no row: nobody else hears of
\* anything, and what was heard of is.
LEMMA PrimaryTable ==
  ASSUME Sound, primary \in upToDate, UNCHANGED <<primary, upToDate, inbox>>,
         DOMAIN masterTable' = Servers,
         \A t \in Servers \ {primary} : masterTable'[t] = masterTable[t],
         DOMAIN masterTable[primary] \subseteq DOMAIN masterTable'[primary],
         RowsFormed(primary)'
  PROVE  /\ \A s \in upToDate : RowsFormed(s)' /\ InboxClosed(s)'
         /\ \A s \in upToDate \ {primary} : \A u : Hears(s, u)' <=> Hears(s, u)
         /\ \A u : Hears(primary, u)' <=> Hears(primary, u) \/ u \in DOMAIN masterTable'[primary]
         /\ \A u : HasRow(u) => HasRow(u)'
         /\ \A u : HeardByAll(u) => HeardByAll(u)'
<1> USE DEF Sound, Roles
<1>1. \A s \in upToDate \ {primary} : RowsFormed(s)'
  BY DEF RowsFormed
<1>2. \A s \in upToDate : InboxClosed(s)'
  BY ClosedGrows DEF InboxClosed
<1>3. \A s \in upToDate \ {primary} : \A u : Hears(s, u)' <=> Hears(s, u)
  BY DEF Hears
<1>4. \A u : Hears(primary, u)' <=> Hears(primary, u) \/ u \in DOMAIN masterTable'[primary]
  BY DEF Hears
<1>5. \A u : HasRow(u) => HasRow(u)'
  BY DEF HasRow
<1> QED BY <1>1, <1>2, <1>3, <1>4, <1>5 DEF HeardByAll

\* What the table of the primary is to be for its names to stay the same.
Kept == /\ DOMAIN masterTable' = Servers
        /\ \A t \in Servers \ {primary} : masterTable'[t] = masterTable[t]
        /\ DOMAIN masterTable'[primary] = DOMAIN masterTable[primary]
        /\ \A u \in DOMAIN masterTable[primary] : DOMAIN masterTable'[primary][u] = RowFields

LEMMA KeptTable ==
  ASSUME Sound, primary \in upToDate, UNCHANGED <<primary, upToDate, inbox>>, Kept
  PROVE  /\ \A s \in upToDate : RowsFormed(s)' /\ InboxClosed(s)'
         /\ \A s \in upToDate : \A u : Hears(s, u)' <=> Hears(s, u)
         /\ \A u : HasRow(u)' <=> HasRow(u)
         /\ \A u : HeardByAll(u)' <=> HeardByAll(u)
<1>1. RowsFormed(primary)'
  BY DEF Kept, RowsFormed, Sound
<1>2. /\ \A s \in upToDate : RowsFormed(s)' /\ InboxClosed(s)'
      /\ \A s \in upToDate \ {primary} : \A u : Hears(s, u)' <=> Hears(s, u)
      /\ \A u : Hears(primary, u)' <=> Hears(primary, u) \/ u \in DOMAIN masterTable'[primary]
  BY <1>1, PrimaryTable DEF Kept
<1>3. \A u : u \in DOMAIN masterTable'[primary] => Hears(primary, u)
  BY DEF Kept, Hears
<1>4. \A u : HasRow(u)' <=> HasRow(u)
  BY DEF HasRow, Kept
<1> QED BY <1>2, <1>3, <1>4 DEF HeardByAll

\* No table and no inbox of a server that missed nothing changes.
LEMMA SameTable ==
  ASSUME Sound, UNCHANGED <<primary, upToDate>>,
         \A s \in upToDate : masterTable'[s] = masterTable[s] /\ inbox'[s] = inbox[s]
  PROVE  /\ \A s \in upToDate : RowsFormed(s)' /\ InboxClosed(s)'
         /\ \A s \in upToDate : \A u : Hears(s, u)' <=> Hears(s, u)
         /\ \A u : HasRow(u)' <=> HasRow(u)
         /\ \A u : HeardByAll(u)' <=> HeardByAll(u)
<1>1. \A s \in upToDate : RowsFormed(s)' /\ InboxClosed(s)'
  BY DEF Sound, RowsFormed, InboxClosed
<1>2. \A s \in upToDate : \A u : Hears(s, u)' <=> Hears(s, u)
  BY DEF Hears
<1>3. \A u : HasRow(u)' <=> HasRow(u)
  BY DEF HasRow
<1> QED BY <1>1, <1>2, <1>3 DEF HeardByAll

\* Setting a field of one row keeps the table.
LEMMA FieldKeeps ==
  ASSUME Sound, primary \in upToDate, NEW u \in DOMAIN masterTable[primary], NEW x,
         \/ SetRow(primary, u, [masterTable[primary][u] EXCEPT !.sessions = x])
         \/ SetRow(primary, u, [masterTable[primary][u] EXCEPT !.messages = x])
  PROVE  Kept
<1> DEFINE row == masterTable[primary][u]
<1>1. DOMAIN row = RowFields
  BY DEF Sound, RowsFormed
<1>2. PICK new \in {[row EXCEPT !.sessions = x], [row EXCEPT !.messages = x]} :
        SetRow(primary, u, new)
  OBVIOUS
<1>3. DOMAIN new = RowFields
  BY <1>1, <1>2 DEF RowFields
<1>4. DOMAIN masterTable = Servers /\ primary \in Servers
  BY DEF Sound, Typed, Roles
<1> HIDE DEF row
<1>5. /\ DOMAIN masterTable' = Servers
      /\ DOMAIN masterTable'[primary] = DOMAIN masterTable[primary] \cup {u}
      /\ \A v \in DOMAIN masterTable[primary] \cup {u} :
           masterTable'[primary][v] = IF v = u THEN new ELSE masterTable[primary][v]
      /\ \A t \in Servers \ {primary} : masterTable'[t] = masterTable[t]
  BY <1>2, <1>4, SetRowIs
<1> QED BY <1>1, <1>3, <1>5 DEF Kept, Sound, RowsFormed

\* A datagram appended to what a backup has not read.
LEMMA Sending ==
  ASSUME Sound, NEW b \in Servers, NEW d \in WeakDatagram, SendTo(b, d), primary \in upToDate,
         d.type # "CONNECT" => HeardByAll(d.profile),
         UNCHANGED <<primary, upToDate, masterTable>>
  PROVE  /\ inbox' \in [Servers -> Seq(WeakDatagram)]
         /\ \A s \in upToDate : RowsFormed(s)' /\ InboxClosed(s)'
         /\ \A s \in upToDate : \A u :
              Hears(s, u)' <=> Hears(s, u) \/ (s = b /\ d.type = "CONNECT" /\ d.profile = u)
<1> USE DEF Sound, Typed, Roles
<1>1. inbox' \in [Servers -> Seq(WeakDatagram)]
  BY DEF SendTo
<1>2. \A s \in upToDate : RowsFormed(s)'
  BY DEF RowsFormed
<1>3. ASSUME NEW s \in upToDate, s # b
      PROVE  /\ InboxClosed(s)'
             /\ \A u : Hears(s, u)' <=> Hears(s, u)
  <2>1. inbox'[s] = inbox[s]
    BY <1>3 DEF SendTo
  <2> QED BY <2>1 DEF InboxClosed, Hears
<1>4. ASSUME b \in upToDate
      PROVE  /\ InboxClosed(b)'
             /\ \A u : Hears(b, u)' <=> Hears(b, u) \/ (d.type = "CONNECT" /\ d.profile = u)
  <2>1. /\ inbox[b] \in Seq(WeakDatagram) /\ inbox'[b] = Append(inbox[b], d)
        /\ Closed(DOMAIN masterTable[b], inbox[b])
    BY <1>4 DEF SendTo, InboxClosed
  <2>2. d.type # "CONNECT" => d.profile \in DOMAIN masterTable[b] \/ Told(inbox[b], d.profile)
    BY <1>4 DEF HeardByAll, HasRow, Hears
  <2> QED BY <2>1, <2>2, AppendClosed DEF InboxClosed, Hears
<1> QED BY <1>1, <1>2, <1>3, <1>4

\* A backup reads its next datagram: nothing is heard of that was not, unless it
\* dies of a follower without a row.
Effect(b) == /\ \A u : Hears(b, u)' <=> Hears(b, u)
             /\ DOMAIN masterTable[b] \subseteq DOMAIN masterTable'[b]
             /\ RowsFormed(b)' /\ InboxClosed(b)'
             /\ UNCHANGED <<alive, upToDate>>

LEMMA Reading ==
  ASSUME Sound, NEW b \in upToDate, b \in Servers, BackupStep(b)
  PROVE  Effect(b) \/ b \notin upToDate'
<1> USE DEF Sound, Typed, Roles
<1> DEFINE q == inbox[b]
           d == Datagram(b)
<1>1. /\ q \in Seq(WeakDatagram) /\ q # <<>> /\ inbox'[b] = Tail(q)
  BY DEF BackupStep, ReplicateConnect, ReplicateDisconnect, ReplicateFollow, ReplicateSend, Receives
<1>2. d = q[1] /\ d \in WeakDatagram /\ 1 \in DOMAIN q /\ 1 .. 1 - 1 = {}
  BY <1>1 DEF Datagram
<1>c. Closed(DOMAIN masterTable[b], q)
  BY DEF InboxClosed
<1> HIDE DEF d
<1>3. d.profile \in Profiles
  BY <1>2 DEF WeakDatagram
<1>4. d.type # "CONNECT" => d.profile \in DOMAIN masterTable[b]
  BY <1>2, <1>c DEF Closed
\* What the rest of the inbox says goes on being true of the new table.
<1>read. ASSUME DOMAIN masterTable[b] \subseteq DOMAIN masterTable'[b],
                DOMAIN masterTable'[b] \subseteq DOMAIN masterTable[b] \cup {d.profile},
                d.type = "CONNECT" => d.profile \in DOMAIN masterTable'[b]
         PROVE  InboxClosed(b)' /\ \A u : Hears(b, u)' <=> Hears(b, u)
  <2>1. Hears(b, d.profile)
    BY <1>2, <1>4 DEF Hears, Told
  <2>2. /\ Closed(DOMAIN masterTable'[b], Tail(q))
        /\ \A u : Told(Tail(q), u) => Told(q, u)
        /\ \A u : Told(q, u) => u \in DOMAIN masterTable'[b] \/ Told(Tail(q), u)
    BY <1>1, <1>2, <1>c, <1>read, TailClosed
  <2> QED BY <1>1, <1>read, <2>1, <2>2 DEF InboxClosed, Hears
<1>same. ASSUME UNCHANGED <<alive, upToDate, masterTable>>, d.type # "CONNECT" PROVE Effect(b)
  BY <1>same, <1>read DEF Effect, RowsFormed
<1>5. CASE ReplicateConnect(b)
  <2> DEFINE row == RowOf(b, d.profile)
  <2>1. /\ d.type = "CONNECT" /\ UNCHANGED <<alive, upToDate>>
        /\ \/ Len(row.sessions) >= MaxSessions /\ UNCHANGED masterTable
           \/ SetRow(b, d.profile, [row EXCEPT !.sessions = Append(@, d.port)])
    BY <1>5 DEF ReplicateConnect, Receives, Datagram, d, Lives
  <2>2. DOMAIN row = RowFields
    <3>1. CASE d.profile \in DOMAIN masterTable[b]
      BY <3>1 DEF RowOf, RowsFormed
    <3>2. CASE d.profile \notin DOMAIN masterTable[b]
      BY <3>2 DEF RowOf, NewRow, RowFields
    <3> QED BY <3>1, <3>2
  <2>3. CASE Len(row.sessions) >= MaxSessions /\ UNCHANGED masterTable
    <3>1. d.profile \in DOMAIN masterTable[b]
      <4>1. Len(NewRow.sessions) = 0 /\ MaxSessions \in Nat /\ MaxSessions > 0
        BY ReplicationAssumption DEF NewRow
      <4> QED BY <2>3, <4>1 DEF RowOf
    <3> QED BY <1>read, <2>1, <2>3, <3>1 DEF Effect, RowsFormed
  <2>4. CASE SetRow(b, d.profile, [row EXCEPT !.sessions = Append(@, d.port)])
    <3> DEFINE new == [row EXCEPT !.sessions = Append(@, d.port)]
    <3>1. DOMAIN new = RowFields
      BY <2>2 DEF RowFields
    <3> HIDE DEF new, row
    <3>2. /\ DOMAIN masterTable'[b] = DOMAIN masterTable[b] \cup {d.profile}
          /\ \A v \in DOMAIN masterTable[b] \cup {d.profile} :
               masterTable'[b][v] = IF v = d.profile THEN new ELSE masterTable[b][v]
      BY <2>4, SetRowIs DEF new
    <3>3. RowsFormed(b)'
      BY <1>3, <2>2, <3>1, <3>2 DEF RowsFormed
    <3> QED BY <1>read, <2>1, <3>2, <3>3 DEF Effect
  <2> QED BY <2>1, <2>3, <2>4
<1>6. CASE ReplicateDisconnect(b)
  <2>1. d.type = "DISCONNECT" /\ UNCHANGED <<alive, upToDate>>
    BY <1>4, <1>6 DEF ReplicateDisconnect, Receives, NoRow, d, Datagram, Lives
  <2> DEFINE new == [masterTable[b][d.profile] EXCEPT !.sessions = RemoveFirst(@, d.port)]
  <2>2. SetRow(b, d.profile, new)
    BY <1>4, <1>6, <2>1 DEF ReplicateDisconnect, NoRow, d, Datagram
  <2>3. d.profile \in DOMAIN masterTable[b] /\ DOMAIN new = RowFields
    BY <1>4, <2>1 DEF RowsFormed, RowFields
  <2> HIDE DEF new
  <2>4. /\ DOMAIN masterTable'[b] = DOMAIN masterTable[b]
        /\ \A v \in DOMAIN masterTable[b] :
             masterTable'[b][v] = IF v = d.profile THEN new ELSE masterTable[b][v]
    <3>1. /\ DOMAIN masterTable'[b] = DOMAIN masterTable[b] \cup {d.profile}
          /\ \A v \in DOMAIN masterTable[b] \cup {d.profile} :
               masterTable'[b][v] = IF v = d.profile THEN new ELSE masterTable[b][v]
      BY <2>2, SetRowIs
    <3> QED BY <2>3, <3>1
  <2>5. RowsFormed(b)'
    BY <2>3, <2>4, ZenonT(60) DEF RowsFormed
  <2> QED BY <1>read, <2>1, <2>4, <2>5 DEF Effect
<1>7. CASE ReplicateFollow(b)
  <2>1. d.type = "FOLLOW" /\ UNCHANGED <<alive, upToDate>> /\ d.profile \in DOMAIN masterTable[b]
    BY <1>4, <1>7 DEF ReplicateFollow, Receives, NoRow, d, Datagram, Lives
  <2>2. CASE UNCHANGED masterTable
    BY <1>same, <2>1, <2>2
  <2>3. CASE /\ d.follow \in DOMAIN masterTable[b]
             /\ SetRow(b, d.follow, [masterTable[b][d.follow] EXCEPT !.followers = @ \cup {d.profile}])
    <3> DEFINE new == [masterTable[b][d.follow] EXCEPT !.followers = @ \cup {d.profile}]
    <3>1. DOMAIN new = RowFields
      BY <2>3 DEF RowsFormed, RowFields
    <3> HIDE DEF new
    <3>2. /\ DOMAIN masterTable'[b] = DOMAIN masterTable[b]
          /\ \A v \in DOMAIN masterTable[b] :
               masterTable'[b][v] = IF v = d.follow THEN new ELSE masterTable[b][v]
      <4>1. /\ DOMAIN masterTable'[b] = DOMAIN masterTable[b] \cup {d.follow}
            /\ \A v \in DOMAIN masterTable[b] \cup {d.follow} :
                 masterTable'[b][v] = IF v = d.follow THEN new ELSE masterTable[b][v]
        BY <2>3, SetRowIs DEF new
      <4> QED BY <2>3, <4>1
    <3>3. RowsFormed(b)'
      <4>1. /\ RowsFormed(b) /\ d.follow \in Profiles
            /\ DOMAIN masterTable'[b] = DOMAIN masterTable[b] \cup {d.follow}
        BY <2>1, <2>3, <3>1, <3>2 DEF RowsFormed
      <4>2. DOMAIN masterTable[b] = DOMAIN masterTable[b] \cup {d.follow}
        BY <2>3
      <4> QED BY <3>1, <3>2, <4>1, <4>2, RowFormed
    <3> QED BY <1>read, <2>1, <3>2, <3>3 DEF Effect
  <2> QED BY <1>7, <2>1, <2>2, <2>3 DEF ReplicateFollow, NoRow, d, Datagram
<1>8. CASE ReplicateSend(b)
  <2>1. d.type = "SEND" /\ d.profile \in DOMAIN masterTable[b]
    BY <1>4, <1>8 DEF ReplicateSend, Receives, d, Datagram
  <2> SUFFICES ASSUME b \in upToDate' PROVE Effect(b)
    OBVIOUS
  <2>2. PICK to : /\ masterTable' = [masterTable EXCEPT ![b] = Post(@, d.message, to)]
                  /\ UNCHANGED <<alive, upToDate>>
    BY <1>8, <2>1 DEF ReplicateSend, NoRow, Lives, Dies, d, Datagram
  <2>3. /\ DOMAIN masterTable'[b] = DOMAIN masterTable[b]
        /\ \A v \in DOMAIN masterTable[b] :
             DOMAIN masterTable'[b][v] = DOMAIN masterTable[b][v]
    <3>1. masterTable'[b] = Post(masterTable[b], d.message, to)
      BY <2>2
    <3> QED BY <3>1 DEF Post, RowsFormed, RowFields
  <2>4. RowsFormed(b)'
    BY <2>3 DEF RowsFormed
  <2> QED BY <1>read, <2>1, <2>2, <2>3, <2>4 DEF Effect
<1> QED BY <1>5, <1>6, <1>7, <1>8 DEF BackupStep

\* Whatever a backup reads, no other server's table and inbox change by it.
LEMMA Others ==
  ASSUME Sound, NEW b \in Servers, BackupStep(b)
  PROVE  /\ Typed'
         /\ \A t \in Servers \ {b} : masterTable'[t] = masterTable[t] /\ inbox'[t] = inbox[t]
         /\ b \in alive /\ b # primary
         /\ \/ UNCHANGED <<alive, upToDate>>
            \/ alive' = alive \ {b} /\ upToDate' = upToDate \ {b}
         /\ UNCHANGED <<primary, backupServers, loop, thread>>
<1> USE DEF Sound, Typed, Roles
<1>1. /\ b \in alive /\ b # primary /\ inbox[b] # <<>> /\ inbox' = [inbox EXCEPT ![b] = Tail(@)]
      /\ UNCHANGED <<primary, backupServers, loop, thread, sends>>
  BY DEF BackupStep, ReplicateConnect, ReplicateDisconnect, ReplicateFollow, ReplicateSend,
         Receives, counts
<1>2. /\ DOMAIN masterTable' = Servers
      /\ \A t \in Servers \ {b} : masterTable'[t] = masterTable[t]
  <2>1. ASSUME NEW u, NEW row, SetRow(b, u, row)
        PROVE  /\ DOMAIN masterTable' = Servers
               /\ \A t \in Servers \ {b} : masterTable'[t] = masterTable[t]
    BY <2>1, SetRowIs
  <2>2. ASSUME NEW x, masterTable' = [masterTable EXCEPT ![b] = x]
        PROVE  /\ DOMAIN masterTable' = Servers
               /\ \A t \in Servers \ {b} : masterTable'[t] = masterTable[t]
    BY <2>2
  <2>3. CASE ReplicateConnect(b)
    BY <2>1, <2>3 DEF ReplicateConnect
  <2>4. CASE ReplicateDisconnect(b)
    BY <2>1, <2>2, <2>4 DEF ReplicateDisconnect, NoRow, Dies, Forgets
  <2>5. CASE ReplicateFollow(b)
    BY <2>1, <2>2, <2>5 DEF ReplicateFollow, NoRow, Dies, Forgets
  <2>6. CASE ReplicateSend(b)
    BY <2>2, <2>6 DEF ReplicateSend, NoRow, Dies, Forgets
  <2> QED BY <2>3, <2>4, <2>5, <2>6 DEF BackupStep
<1>3. /\ \/ UNCHANGED <<alive, upToDate>>
         \/ alive' = alive \ {b} /\ upToDate' = upToDate \ {b}
      /\ \/ UNCHANGED nextClientPort
         \/ nextClientPort' = [nextClientPort EXCEPT ![b] = @ + 1]
         \/ nextClientPort' = [nextClientPort EXCEPT ![b] = FirstPort]
  BY DEF BackupStep, ReplicateConnect, ReplicateDisconnect, ReplicateFollow, ReplicateSend,
         NoRow, Lives, Dies, Forgets
<1>4. nextClientPort' \in [Servers -> Nat]
  <2>1. nextClientPort[b] + 1 \in Nat /\ FirstPort \in Nat
    BY ReplicationAssumption
  <2> QED BY <1>3, <2>1
<1>5. inbox' \in [Servers -> Seq(WeakDatagram)]
  <2>1. Tail(inbox[b]) \in Seq(WeakDatagram)
    BY <1>1
  <2> QED BY <1>1, <2>1
<1> QED BY <1>1, <1>2, <1>3, <1>4, <1>5

LEMMA BackupKeeps ==
  ASSUME Sound, NEW b \in Servers, BackupStep(b)
  PROVE  Sound'
<1>1. /\ Typed'
      /\ \A t \in Servers \ {b} : masterTable'[t] = masterTable[t] /\ inbox'[t] = inbox[t]
      /\ b \in alive /\ b # primary
      /\ \/ UNCHANGED <<alive, upToDate>>
         \/ alive' = alive \ {b} /\ upToDate' = upToDate \ {b}
      /\ UNCHANGED <<primary, backupServers, loop, thread>>
  BY Others
<1>2. upToDate \subseteq Servers
  BY DEF Sound, Roles
<1>3. ASSUME NEW s \in upToDate'
      PROVE  /\ \A u : Hears(s, u)' <=> Hears(s, u)
             /\ RowsFormed(s)' /\ InboxClosed(s)'
             /\ s \in upToDate /\ s \in alive'
  <2>1. CASE s = b
    BY <2>1, Reading, <1>1 DEF Effect, Sound, Roles
  <2>2. CASE s # b
    <3>1. masterTable'[s] = masterTable[s] /\ inbox'[s] = inbox[s]
      BY <1>1, <1>2, <2>2
    <3> QED BY <1>1, <2>2, <3>1 DEF Sound, Roles, RowsFormed, InboxClosed, Hears
  <2> QED BY <2>1, <2>2
<1>4. \A u : (HasRow(u)' <=> HasRow(u)) /\ (HeardByAll(u) => HeardByAll(u)')
  <2>1. primary \in upToDate => masterTable'[primary] = masterTable[primary]
    BY <1>1, <1>2
  <2>2. \A u : HasRow(u)' <=> HasRow(u)
    BY <1>1, <2>1 DEF HasRow
  <2> QED BY <1>1, <1>3, <2>2 DEF HeardByAll
<1>5. Roles' /\ Enlisted' /\ Idle'
  BY <1>1, <1>3 DEF Sound, Roles, Enlisted, Idle
<1>6. LoopSound'
  BY <1>1, <1>4 DEF Sound, LoopSound
<1>7. \A p \in Ports : ThreadSound(thread[p])'
  BY <1>1, <1>4 DEF Sound, ThreadSound
<1>8. AllHear'
  BY <1>1, <1>3 DEF Sound, AllHear, ToBeTold
<1> QED BY <1>1, <1>3, <1>5, <1>6, <1>7, <1>8 DEF Sound

-----------------------------------------------------------------------------
(* The loop and the session threads of the primary.                         *)

\* The parts that a step of the primary which moves no role has to keep.
LEMMA Assemble ==
  ASSUME Sound, primary \in upToDate, UNCHANGED <<primary, alive, upToDate, backupServers>>,
         Typed', \A s \in upToDate : RowsFormed(s)' /\ InboxClosed(s)',
         LoopSound', \A p \in Ports : ThreadSound(thread[p])', AllHear'
  PROVE  Sound'
<1>1. primary # Nobody
  BY ReplicationAssumption DEF Sound, Roles
<1>2. Roles' /\ Enlisted'
  BY DEF Sound, Roles, Enlisted
<1> QED BY <1>1, <1>2 DEF Sound, Idle

\* Who has the port when the loop or a thread is at something.
LEMMA SomebodyServes ==
  ASSUME Sound
  PROVE  /\ primary # Nobody => primary \in upToDate /\ primary \in alive /\ primary \in Servers
         /\ loop.pc # "receive" \/ loop.toTell # <<>> => primary # Nobody
         /\ \A p \in Ports : thread[p].pc # "none" \/ thread[p].toTell # <<>> => primary # Nobody
BY DEF Sound, Roles, Idle, Rest, NoThread

\* One thread has new locals and nothing that was heard of is forgotten.
LEMMA OtherThreads ==
  ASSUME Sound, NEW p, \A q \in Ports \ {p} : thread'[q] = thread[q],
         \A u : HeardByAll(u) => HeardByAll(u)',
         p \in Ports => ThreadSound(thread[p])'
  PROVE  \A q \in Ports : ThreadSound(thread[q])'
<1> SUFFICES ASSUME NEW q \in Ports, q # p PROVE ThreadSound(thread[q])'
  OBVIOUS
<1> QED BY DEF Sound, ThreadSound

\* Nobody hears of anything, and who is to be told is told still.
LEMMA HearTheSame ==
  ASSUME Sound, UNCHANGED <<primary, upToDate>>,
         \A s \in upToDate : \A u : Hears(s, u)' <=> Hears(s, u),
         \A c \in upToDate : \A u : ToBeTold(c, u) => ToBeTold(c, u)'
  PROVE  AllHear'
BY DEF Sound, AllHear

LEMMA NobodyToTell ==
  ASSUME loop.toTell = <<>>
  PROVE  \A c, u : ~ToBeTold(c, u)
BY DEF ToBeTold, ToSet

\* What the primary has a row for, and is telling nobody of, everybody hears.
LEMMA RowHeard ==
  ASSUME Sound, primary \in upToDate, NEW u, HasRow(u), loop.toTell = <<>>
  PROVE  HeardByAll(u)
<1>1. u \in Profiles /\ Hears(primary, u)
  BY DEF Sound, RowsFormed, HasRow, Hears
<1> QED BY <1>1, NobodyToTell DEF Sound, AllHear, HeardByAll

LEMMA HeadOrTail ==
  ASSUME NEW S, NEW q \in Seq(S), q # <<>>
  PROVE  /\ Head(q) \in S /\ Tail(q) \in Seq(S)
         /\ ToSet(q) = {Head(q)} \cup ToSet(Tail(q))
<1>1. /\ Len(q) \in Nat \ {0} /\ DOMAIN q = 1 .. Len(q) /\ DOMAIN Tail(q) = 1 .. Len(q) - 1
      /\ \A i \in 1 .. Len(q) - 1 : Tail(q)[i] = q[i + 1]
      /\ Head(q) = q[1]
  OBVIOUS
<1>2. ASSUME NEW i \in 1 .. Len(q) PROVE q[i] = Head(q) \/ q[i] \in ToSet(Tail(q))
  <2>1. CASE i = 1
    BY <1>1, <2>1
  <2>2. CASE i # 1
    <3>1. i - 1 \in DOMAIN Tail(q) /\ Tail(q)[i - 1] = q[i]
      BY <1>1, <2>2
    <3> QED BY <3>1 DEF ToSet
  <2> QED BY <2>1, <2>2
<1>3. ASSUME NEW i \in DOMAIN Tail(q) PROVE Tail(q)[i] \in ToSet(q)
  <2>1. i + 1 \in DOMAIN q /\ Tail(q)[i] = q[i + 1]
    BY <1>1
  <2> QED BY <2>1 DEF ToSet
<1>4. Head(q) \in ToSet(q)
  BY <1>1 DEF ToSet
<1>5. ToSet(q) \subseteq {Head(q)} \cup ToSet(Tail(q))
  BY <1>1, <1>2 DEF ToSet
<1>6. ToSet(Tail(q)) \subseteq ToSet(q)
  BY <1>3 DEF ToSet
<1> QED BY <1>4, <1>5, <1>6

LEMMA SameThreads ==
  ASSUME Sound, UNCHANGED thread, \A u : HeardByAll(u) => HeardByAll(u)'
  PROVE  \A q \in Ports : ThreadSound(thread[q])'
BY DEF Sound, ThreadSound

\* The loop goes on with what it does, or rests.
LEMMA SameLoop ==
  ASSUME Sound, UNCHANGED loop, \A u : HasRow(u) => HasRow(u)'
  PROVE  LoopSound'
BY DEF Sound, LoopSound

LEMMA LoopRests ==
  ASSUME loop' = Rest
  PROVE  LoopSound'
BY DEF LoopSound, Rest, LoopFields

\* A thread that has just started is telling nobody anything.
LEMMA NewThreadSound ==
  ASSUME NEW q, NEW u, thread'[q] = NewThread(u), HeardByAll(u)'
  PROVE  ThreadSound(thread[q])'
<1>1. /\ DOMAIN thread'[q] = ThreadFields /\ thread'[q].toTell = <<>>
      /\ thread'[q].profile = u
  BY DEF NewThread, NoThread, ThreadFields
<1>2. HeardByAll(thread[q].profile)'
  BY <1>1
<1> QED BY <1>1, <1>2 DEF ThreadSound

LEMMA ReceiveConnectKeeps ==
  ASSUME Sound, NEW u \in Profiles, ReceiveConnect(u)
  PROVE  Sound'
<1> DEFINE row == RowOf(primary, u)
<1>1. /\ primary \in upToDate /\ primary \in Servers
      /\ loop.toTell = <<>>
      /\ RowsFormed(primary)
      /\ DOMAIN masterTable = Servers
  BY SomebodyServes DEF Sound, Typed, LoopSound, ReceiveConnect, Serving
<1>2. DOMAIN row = RowFields
  BY <1>1 DEF RowOf, NewRow, RowFields, RowsFormed
<1>3. /\ SetRow(primary, u, row)
      /\ loop' = [Rest EXCEPT !.pc = "tell", !.profile = u, !.toTell = backupServers]
      /\ UNCHANGED <<alive, primary, upToDate, backupServers, inbox, nextClientPort, thread, sends>>
  BY DEF ReceiveConnect, roles, net, counts, history
<1> HIDE DEF row
<1>4. /\ DOMAIN masterTable' = Servers
      /\ DOMAIN masterTable'[primary] = DOMAIN masterTable[primary] \cup {u}
      /\ \A v \in DOMAIN masterTable[primary] \cup {u} :
           masterTable'[primary][v] = IF v = u THEN row ELSE masterTable[primary][v]
      /\ \A t \in Servers \ {primary} : masterTable'[t] = masterTable[t]
  BY <1>1, <1>3, SetRowIs
<1>5. RowsFormed(primary)'
  <2>1. masterTable'[primary'] = masterTable'[primary]
    BY <1>3
  <2> QED BY <1>1, <1>2, <1>3, <1>4, <2>1 DEF RowsFormed
<1>6. /\ \A s \in upToDate : RowsFormed(s)' /\ InboxClosed(s)'
      /\ \A s \in upToDate \ {primary} : \A v : Hears(s, v)' <=> Hears(s, v)
      /\ \A v : Hears(primary, v)' <=> Hears(primary, v) \/ v \in DOMAIN masterTable'[primary]
      /\ \A v : HasRow(v) => HasRow(v)'
      /\ \A v : HeardByAll(v) => HeardByAll(v)'
  BY <1>1, <1>3, <1>4, <1>5, PrimaryTable
<1>7. Typed'
  BY <1>3, <1>4 DEF Sound, Typed
<1>8. LoopSound'
  <2>1. /\ DOMAIN loop' = LoopFields /\ loop'.pc = "tell" /\ loop'.profile = u
        /\ loop'.toTell = backupServers
    BY <1>3 DEF Rest, LoopFields
  <2>2. loop'.profile \in DOMAIN masterTable'[primary']
    BY <1>3, <1>4, <2>1
  <2>3. backupServers \in Seq(Servers)
    BY DEF Sound, Typed
  <2> QED BY <2>1, <2>2, <2>3 DEF LoopSound, HasRow
<1>9. AllHear'
  <2>1. ASSUME NEW b \in upToDate, NEW c \in upToDate, NEW v \in Profiles, c # primary, Hears(b, v)'
        PROVE  Hears(c, v)' \/ ToBeTold(c, v)'
    <3>1. CASE v = u
      <4>1. c \in ToSet(backupServers)
        BY <2>1 DEF Sound, Enlisted
      <4>2. loop'.toTell = backupServers /\ loop'.profile = u
        BY <1>3 DEF Rest
      <4> QED BY <3>1, <4>1, <4>2 DEF ToBeTold
    <3>2. CASE v # u
      <4>1. Hears(b, v)
        <5>1. v \in DOMAIN masterTable'[primary] => Hears(primary, v)
          BY <1>4, <3>2 DEF Hears
        <5> QED BY <1>3, <1>6, <2>1, <5>1
      <4>2. Hears(c, v)
        BY <1>1, <2>1, <4>1, NobodyToTell DEF Sound, AllHear
      <4> QED BY <1>6, <2>1, <4>2
    <3> QED BY <3>1, <3>2
  <2> QED BY <1>3, <2>1 DEF AllHear
<1> QED BY <1>1, <1>3, <1>6, <1>7, <1>8, <1>9, SameThreads, Assemble

LEMMA TellConnectKeeps ==
  ASSUME Sound, TellConnect
  PROVE  Sound'
<1> DEFINE b == Head(loop.toTell)
           d == [type |-> "CONNECT", profile |-> loop.profile, port |-> nextClientPort[primary]]
<1>1. /\ SendTo(b, d)
      /\ loop' = [loop EXCEPT !.toTell = Tail(@)]
      /\ UNCHANGED <<alive, primary, upToDate, backupServers, masterTable, nextClientPort, thread, sends>>
  BY DEF TellConnect, roles, counts, history
<1>2. primary \in upToDate /\ primary \in Servers /\ loop.toTell # <<>>
  BY SomebodyServes DEF TellConnect
<1>3. /\ DOMAIN loop = LoopFields /\ loop.pc = "tell" /\ HasRow(loop.profile)
      /\ loop.toTell \in Seq(Servers)
  BY <1>2 DEF Sound, LoopSound
<1>4. /\ b \in Servers /\ Tail(loop.toTell) \in Seq(Servers)
      /\ ToSet(loop.toTell) = {b} \cup ToSet(Tail(loop.toTell))
  BY <1>2, <1>3, HeadOrTail
<1>5. loop.profile \in Profiles /\ Hears(primary, loop.profile)
  BY <1>2, <1>3 DEF HasRow, Hears, Sound, RowsFormed
<1>6. nextClientPort[primary] \in Nat
  BY <1>2 DEF Sound, Typed
<1>7. d \in WeakDatagram /\ d.type = "CONNECT" /\ d.profile = loop.profile
  BY <1>5, <1>6 DEF WeakDatagram
<1> HIDE DEF b, d
<1>8. /\ inbox' \in [Servers -> Seq(WeakDatagram)]
      /\ \A s \in upToDate : RowsFormed(s)' /\ InboxClosed(s)'
      /\ \A s \in upToDate : \A v : Hears(s, v)' <=> Hears(s, v) \/ (s = b /\ v = loop.profile)
  <2>1. UNCHANGED <<primary, upToDate, masterTable>>
    BY <1>1
  <2>2. /\ inbox' \in [Servers -> Seq(WeakDatagram)]
        /\ \A s \in upToDate : RowsFormed(s)' /\ InboxClosed(s)'
        /\ \A s \in upToDate : \A v :
             Hears(s, v)' <=> Hears(s, v) \/ (s = b /\ d.type = "CONNECT" /\ d.profile = v)
    BY <1>1, <1>2, <1>4, <1>7, <2>1, Sending
  <2> QED BY <1>7, <2>2
<1>9. \A v : (HasRow(v) => HasRow(v)') /\ (HeardByAll(v) => HeardByAll(v)')
  BY <1>1, <1>8 DEF HasRow, HeardByAll
<1>10. Typed'
  BY <1>1, <1>8 DEF Sound, Typed
<1>11. /\ DOMAIN loop' = LoopFields /\ loop'.pc = "tell" /\ loop'.profile = loop.profile
       /\ loop'.toTell = Tail(loop.toTell)
  BY <1>1, <1>3 DEF LoopFields
<1>12. LoopSound'
  <2>1. loop'.profile \in DOMAIN masterTable'[primary']
    BY <1>1, <1>2, <1>3, <1>11 DEF HasRow
  <2> QED BY <1>4, <1>11, <2>1 DEF LoopSound, HasRow
<1>13. AllHear'
  <2>1. ASSUME NEW a \in upToDate, NEW c \in upToDate, NEW v \in Profiles, c # primary, Hears(a, v)'
        PROVE  Hears(c, v)' \/ ToBeTold(c, v)'
    <3>1. Hears(a, v) \/ Hears(primary, v)
      BY <1>5, <1>8, <2>1
    <3>2. Hears(c, v) \/ ToBeTold(c, v)
      BY <1>2, <2>1, <3>1 DEF Sound, AllHear
    <3>3. CASE Hears(c, v)
      BY <1>8, <3>3
    <3>4. CASE ToBeTold(c, v)
      BY <1>4, <1>8, <1>11, <3>4 DEF ToBeTold
    <3> QED BY <3>2, <3>3, <3>4
  <2> QED BY <1>1, <2>1 DEF AllHear
<1> QED BY <1>1, <1>2, <1>8, <1>9, <1>10, <1>12, <1>13, SameThreads, Assemble

LEMMA StartSessionKeeps ==
  ASSUME Sound, StartSession, upToDate' # {}
  PROVE  Sound'
<1>p. PICK p : p = nextClientPort[primary]
  OBVIOUS
<1>u. PICK u : u = loop.profile
  OBVIOUS
<1> DEFINE x == Append(Table[u].sessions, p)
<1>1. primary \in upToDate /\ primary \in Servers
  BY SomebodyServes DEF StartSession
<1>2. loop.pc = "tell" /\ loop.toTell = <<>> /\ HasRow(u) /\ HeardByAll(u)
  BY <1>1, <1>u, RowHeard DEF StartSession, Sound, LoopSound
<1>3. u \in DOMAIN masterTable[primary]
  BY <1>1, <1>2 DEF HasRow
<1>4. /\ SetRow(primary, u, [masterTable[primary][u] EXCEPT !.sessions = x])
      /\ thread' = [thread EXCEPT ![p] = NewThread(u)]
      /\ nextClientPort' = [nextClientPort EXCEPT ![primary] = @ + 1]
      /\ loop' = Rest
      /\ UNCHANGED <<alive, primary, upToDate, backupServers, inbox, sends>>
  BY <1>p, <1>u DEF StartSession, Table, roles, net, counts
<1> HIDE DEF x
<1>5. Kept
  BY <1>1, <1>3, <1>4, FieldKeeps
<1>6. /\ \A s \in upToDate : RowsFormed(s)' /\ InboxClosed(s)'
      /\ \A s \in upToDate : \A v : Hears(s, v)' <=> Hears(s, v)
      /\ \A v : HeardByAll(v)' <=> HeardByAll(v)
  BY <1>1, <1>4, <1>5, KeptTable
<1>7. Typed'
  <2>1. nextClientPort' \in [Servers -> Nat]
    <3>1. nextClientPort \in [Servers -> Nat] /\ nextClientPort[primary] + 1 \in Nat
      BY <1>1 DEF Sound, Typed
    <3> QED BY <1>4, <3>1
  <2>2. DOMAIN masterTable' = Servers
    BY <1>5 DEF Kept
  <2> QED BY <1>4, <2>1, <2>2 DEF Sound, Typed
<1>8. \A q \in Ports : ThreadSound(thread[q])'
  <2>1. \A q \in Ports \ {p} : thread'[q] = thread[q]
    BY <1>4 DEF Sound, Typed
  <2>2. ASSUME p \in Ports PROVE ThreadSound(thread[p])'
    <3>1. thread'[p] = NewThread(u)
      BY <1>4, <2>2 DEF Sound, Typed
    <3> QED BY <1>2, <1>6, <3>1, NewThreadSound
  <2> QED BY <1>6, <2>1, <2>2, OtherThreads
<1>9. AllHear'
  BY <1>2, <1>4, <1>6, NobodyToTell, HearTheSame
<1> QED BY <1>1, <1>4, <1>6, <1>7, <1>8, <1>9, LoopRests, Assemble

\* The loop goes on in another place, and no table changes.
LEMMA LoopMoves ==
  ASSUME Sound, primary # Nobody, loop.toTell = <<>>, LoopSound',
         UNCHANGED <<alive, primary, upToDate, backupServers, inbox, masterTable,
                     nextClientPort, thread, sends>>
  PROVE  Sound'
<1>1. primary \in upToDate
  BY SomebodyServes
<1>2. /\ \A s \in upToDate : RowsFormed(s)' /\ InboxClosed(s)'
      /\ \A s \in upToDate : \A v : Hears(s, v)' <=> Hears(s, v)
      /\ \A v : HeardByAll(v)' <=> HeardByAll(v)
  BY SameTable
<1>3. Typed'
  BY DEF Sound, Typed
<1>4. AllHear'
  BY <1>2, NobodyToTell, HearTheSame
<1> QED BY <1>1, <1>2, <1>3, <1>4, SameThreads, Assemble

LEMMA BecomePrimaryKeeps ==
  ASSUME Sound, BecomePrimary
  PROVE  Sound'
<1>1. primary \in upToDate /\ primary # Nobody /\ loop.toTell = <<>>
  BY SomebodyServes DEF BecomePrimary, Serving, Sound, LoopSound
<1>2. UNCHANGED <<alive, primary, upToDate, backupServers, inbox, masterTable,
                  nextClientPort, thread, sends>>
  BY DEF BecomePrimary, net, counts, history
<1>3. /\ DOMAIN loop' = LoopFields /\ loop'.pc = "reopen" /\ loop'.toTell = <<>>
      /\ loop'.toOpen = <<>> /\ loop'.users \subseteq DOMAIN masterTable[primary]
  BY DEF BecomePrimary, Rest, LoopFields, Table
<1>4. LoopSound'
  BY <1>2, <1>3 DEF LoopSound, HasRow
<1> QED BY <1>1, <1>2, <1>4, LoopMoves

LEMMA ReopenUserKeeps ==
  ASSUME Sound, NEW u, ReopenUser(u)
  PROVE  Sound'
<1>1. /\ primary \in upToDate /\ primary # Nobody /\ loop.pc = "reopen" /\ loop.toTell = <<>>
      /\ DOMAIN loop = LoopFields /\ u \in loop.users
      /\ \A v \in loop.users : HasRow(v)
  BY SomebodyServes DEF ReopenUser, Sound, LoopSound
<1>2. UNCHANGED <<alive, primary, upToDate, backupServers, inbox, masterTable,
                  nextClientPort, thread, sends>>
  BY DEF ReopenUser, roles, net, counts, history
<1>3. /\ DOMAIN loop' = LoopFields /\ loop'.pc = "reopen" /\ loop'.toTell = <<>>
      /\ loop'.profile = u /\ loop'.users \subseteq loop.users
  BY <1>1 DEF ReopenUser, LoopFields
<1>4. LoopSound'
  BY <1>1, <1>2, <1>3 DEF LoopSound, HasRow
<1> QED BY <1>1, <1>2, <1>4, LoopMoves

LEMMA EnterPrimaryLoopKeeps ==
  ASSUME Sound, EnterPrimaryLoop
  PROVE  Sound'
<1>1. primary # Nobody /\ loop.toTell = <<>>
  BY SomebodyServes DEF EnterPrimaryLoop, Sound, LoopSound
<1>2. /\ UNCHANGED <<alive, primary, upToDate, backupServers, inbox, masterTable,
                     nextClientPort, thread, sends>>
      /\ loop' = Rest
  BY DEF EnterPrimaryLoop, roles, net, counts, history
<1> QED BY <1>1, <1>2, LoopRests, LoopMoves

LEMMA ReopenSessionKeeps ==
  ASSUME Sound, ReopenSession
  PROVE  Sound'
<1>p. PICK p : p = Head(loop.toOpen)
  OBVIOUS
<1>u. PICK u : u = loop.profile
  OBVIOUS
<1> DEFINE x == Append(RemoveFirst(Table[u].sessions, p), p)
<1>1. primary \in upToDate /\ loop.pc = "reopen" /\ loop.toOpen # <<>>
  BY SomebodyServes DEF ReopenSession
<1>2. /\ loop.toTell = <<>> /\ HasRow(u) /\ \A v \in loop.users : HasRow(v)
      /\ DOMAIN loop = LoopFields
  BY <1>1, <1>u DEF Sound, LoopSound
<1>3. HeardByAll(u) /\ u \in DOMAIN masterTable[primary]
  BY <1>1, <1>2, RowHeard DEF HasRow
<1>4. /\ SetRow(primary, u, [masterTable[primary][u] EXCEPT !.sessions = x])
      /\ thread' = [thread EXCEPT ![p] = NewThread(u)]
      /\ loop' = [loop EXCEPT !.toOpen = Tail(@)]
      /\ UNCHANGED <<alive, primary, upToDate, backupServers, inbox, nextClientPort, sends>>
  BY <1>p, <1>u DEF ReopenSession, Table, roles, net, counts, history
<1> HIDE DEF x
<1>5. Kept
  BY <1>1, <1>3, <1>4, FieldKeeps
<1>6. /\ \A s \in upToDate : RowsFormed(s)' /\ InboxClosed(s)'
      /\ \A s \in upToDate : \A v : Hears(s, v)' <=> Hears(s, v)
      /\ \A v : HasRow(v)' <=> HasRow(v)
      /\ \A v : HeardByAll(v)' <=> HeardByAll(v)
  BY <1>1, <1>4, <1>5, KeptTable
<1>7. Typed'
  BY <1>4, <1>5 DEF Kept, Sound, Typed
<1>8. \A q \in Ports : ThreadSound(thread[q])'
  <2>1. \A q \in Ports \ {p} : thread'[q] = thread[q]
    BY <1>4 DEF Sound, Typed
  <2>2. ASSUME p \in Ports PROVE ThreadSound(thread[p])'
    <3>1. thread'[p] = NewThread(u)
      BY <1>4, <2>2 DEF Sound, Typed
    <3> QED BY <1>3, <1>6, <3>1, NewThreadSound
  <2> QED BY <1>6, <2>1, <2>2, OtherThreads
<1>9. LoopSound'
  <2>1. /\ DOMAIN loop' = LoopFields /\ loop'.pc = "reopen" /\ loop'.toTell = <<>>
        /\ loop'.profile = u /\ loop'.users = loop.users
    BY <1>1, <1>2, <1>4, <1>u DEF LoopFields
  <2>2. HasRow(loop.profile)'
    BY <1>2, <1>6, <2>1 DEF HasRow
  <2> QED BY <1>2, <1>6, <2>1, <2>2 DEF LoopSound
<1>10. AllHear'
  BY <1>2, <1>4, <1>6, NobodyToTell, HearTheSame
<1> QED BY <1>1, <1>4, <1>6, <1>7, <1>8, <1>9, <1>10, Assemble

\* What is so of a thread that runs.
LEMMA Running ==
  ASSUME Sound, NEW p \in Ports, thread[p].pc # "none" \/ thread[p].toTell # <<>>
  PROVE  /\ primary \in upToDate /\ primary \in Servers /\ primary # Nobody
         /\ DOMAIN thread[p] = ThreadFields /\ DOMAIN thread = Ports
         /\ thread[p].profile \in DOMAIN masterTable[primary]
         /\ thread[p].profile \in Profiles
         /\ HeardByAll(thread[p].profile)
<1>1. /\ primary \in upToDate /\ primary \in Servers /\ primary # Nobody
      /\ DOMAIN thread[p] = ThreadFields /\ DOMAIN thread = Ports
      /\ HeardByAll(thread[p].profile)
  BY SomebodyServes DEF Sound, Typed, ThreadSound
<1> QED BY <1>1 DEF HeardByAll, HasRow, Sound, RowsFormed

\* A thread sets out to tell the backups something of its profile.
LEMMA TellSound ==
  ASSUME Sound, NEW p \in Ports, NEW pc, pc # "none", NEW d \in WeakDatagram,
         thread[p].pc # "none", d.profile = thread[p].profile, Tell(p, pc, d),
         \A u : HeardByAll(u) => HeardByAll(u)'
  PROVE  DOMAIN thread' = Ports /\ \A q \in Ports : ThreadSound(thread[q])'
<1>1. /\ DOMAIN thread = Ports /\ DOMAIN thread[p] = ThreadFields
      /\ HeardByAll(thread[p].profile)
  BY Running
<1>2. /\ DOMAIN thread' = Ports
      /\ \A q \in Ports \ {p} : thread'[q] = thread[q]
  BY <1>1 DEF Tell
<1>3. CASE thread'[p] = thread[p]
  <2>1. \A q \in Ports : thread'[q] = thread[q]
    BY <1>2, <1>3
  <2> QED BY <1>2, <2>1 DEF Sound, ThreadSound
<1>4. CASE thread'[p] = [thread[p] EXCEPT !.pc = pc, !.datagram = d, !.toTell = backupServers]
  <2>1. /\ DOMAIN thread'[p] = ThreadFields /\ thread'[p].pc = pc
        /\ thread'[p].datagram = d /\ thread'[p].toTell = backupServers
        /\ thread'[p].profile = thread[p].profile
    BY <1>1, <1>4 DEF ThreadFields
  <2>2. backupServers \in Seq(Servers)
    BY DEF Sound, Typed
  <2>u. PICK u : u = thread[p].profile
    OBVIOUS
  <2>3. HeardByAll(thread[p].profile)'
    <3>1. HeardByAll(u)' /\ thread'[p].profile = u
      BY <1>1, <2>1, <2>u
    <3> QED BY <3>1
  <2>4. ThreadSound(thread[p])'
    BY <2>1, <2>2, <2>3 DEF ThreadSound
  <2> QED BY <1>2, <2>4, OtherThreads
<1> QED BY <1>1, <1>3, <1>4 DEF Tell

LEMMA FollowKeeps ==
  ASSUME Sound, NEW p \in Ports, NEW new \in Profiles, Follow(p, new)
  PROVE  Sound'
<1>u. PICK u : u = thread[p].profile
  OBVIOUS
<1> DEFINE d == [type |-> "FOLLOW", profile |-> u, follow |-> new]
<1>1. /\ masterTable' = [masterTable EXCEPT ![primary] = Followed(@, u, new)]
      /\ Tell(p, "tell", d) /\ thread[p].pc # "none"
      /\ UNCHANGED <<alive, primary, upToDate, backupServers, inbox, nextClientPort, loop, sends>>
  BY <1>u DEF Follow, roles, net, history
<1>2. /\ primary \in upToDate /\ primary \in Servers /\ RowsFormed(primary)
      /\ u \in DOMAIN masterTable[primary] /\ u \in Profiles
      /\ DOMAIN masterTable = Servers
  BY <1>1, <1>u, Running DEF Sound, Typed
<1>3. d \in WeakDatagram /\ d.profile = u
  BY <1>2 DEF WeakDatagram
<1> HIDE DEF d
<1>4. Kept
  <2>1. /\ DOMAIN masterTable' = Servers
        /\ \A t \in Servers \ {primary} : masterTable'[t] = masterTable[t]
        /\ masterTable'[primary] = Followed(masterTable[primary], u, new)
    BY <1>1, <1>2
  <2>2. DOMAIN masterTable'[primary] = DOMAIN masterTable[primary]
    BY <2>1 DEF Followed
  <2>3. ASSUME NEW v \in DOMAIN masterTable[primary]
        PROVE  DOMAIN masterTable'[primary][v] = RowFields
    <3>1. DOMAIN masterTable[primary][v] = RowFields
      BY <1>2 DEF RowsFormed
    <3> DEFINE f == IF v = new /\ new # u THEN masterTable[primary][v].followers \cup {u}
                    ELSE masterTable[primary][v].followers
               m == IF v = u THEN masterTable[primary][v].messages \cup {Notice(u)}
                    ELSE masterTable[primary][v].messages
    <3>2. masterTable'[primary][v] = [masterTable[primary][v] EXCEPT !.followers = f, !.messages = m]
      BY <2>1 DEF Followed
    <3> HIDE DEF f, m
    <3> QED BY <3>1, <3>2 DEF RowFields
  <2> QED BY <2>1, <2>2, <2>3 DEF Kept
<1>5. /\ \A s \in upToDate : RowsFormed(s)' /\ InboxClosed(s)'
      /\ \A s \in upToDate : \A v : Hears(s, v)' <=> Hears(s, v)
      /\ \A v : HasRow(v)' <=> HasRow(v)
      /\ \A v : HeardByAll(v)' <=> HeardByAll(v)
  BY <1>1, <1>2, <1>4, KeptTable
<1>6. DOMAIN thread' = Ports /\ \A q \in Ports : ThreadSound(thread[q])'
  BY <1>1, <1>3, <1>5, <1>u, TellSound
<1>7. Typed'
  BY <1>1, <1>4, <1>6 DEF Kept, Sound, Typed
<1>8. LoopSound' /\ AllHear'
  BY <1>1, <1>5, SameLoop, HearTheSame DEF ToBeTold
<1> QED BY <1>1, <1>2, <1>5, <1>6, <1>7, <1>8, Assemble

LEMMA SendKeeps ==
  ASSUME Sound, NEW p \in Ports, Send(p)
  PROVE  Sound'
<1>u. PICK u : u = thread[p].profile
  OBVIOUS
<1> DEFINE message == [from |-> u, id |-> sends + 1]
           to == Table[u].followers \cap DOMAIN Table
           d == [type |-> "SEND", profile |-> u, message |-> message]
<1>1. /\ masterTable' = [masterTable EXCEPT ![primary] = Post(@, message, to)]
      /\ Tell(p, "tell", d) /\ thread[p].pc # "none"
      /\ sends' = sends + 1
      /\ UNCHANGED <<alive, primary, upToDate, backupServers, inbox, nextClientPort, loop>>
  BY <1>u DEF Send, roles, net
<1>2. /\ primary \in upToDate /\ primary \in Servers /\ RowsFormed(primary)
      /\ u \in DOMAIN masterTable[primary] /\ u \in Profiles
      /\ DOMAIN masterTable = Servers /\ sends \in Nat
  BY <1>1, <1>u, Running DEF Sound, Typed
<1>3. d \in WeakDatagram /\ d.profile = u
  BY <1>2 DEF WeakDatagram
<1> HIDE DEF d, message, to
<1>4. Kept
  <2>1. /\ DOMAIN masterTable' = Servers
        /\ \A t \in Servers \ {primary} : masterTable'[t] = masterTable[t]
        /\ masterTable'[primary] = Post(masterTable[primary], message, to)
    BY <1>1, <1>2
  <2>2. /\ DOMAIN masterTable'[primary] = DOMAIN masterTable[primary]
        /\ \A v \in DOMAIN masterTable[primary] :
             DOMAIN masterTable'[primary][v] = DOMAIN masterTable[primary][v]
    BY <1>2, <2>1 DEF Post, RowsFormed, RowFields
  <2> QED BY <1>2, <2>1, <2>2 DEF Kept, RowsFormed
<1>5. /\ \A s \in upToDate : RowsFormed(s)' /\ InboxClosed(s)'
      /\ \A s \in upToDate : \A v : Hears(s, v)' <=> Hears(s, v)
      /\ \A v : HasRow(v)' <=> HasRow(v)
      /\ \A v : HeardByAll(v)' <=> HeardByAll(v)
  BY <1>1, <1>2, <1>4, KeptTable
<1>6. DOMAIN thread' = Ports /\ \A q \in Ports : ThreadSound(thread[q])'
  BY <1>1, <1>3, <1>5, <1>u, TellSound
<1>7. Typed'
  <2>1. sends' \in Nat
    BY <1>1, <1>2
  <2> QED BY <1>1, <1>4, <1>6, <2>1 DEF Kept, Sound, Typed
<1>8. LoopSound' /\ AllHear'
  BY <1>1, <1>5, SameLoop, HearTheSame DEF ToBeTold
<1> QED BY <1>1, <1>2, <1>5, <1>6, <1>7, <1>8, Assemble

LEMMA ExitKeeps ==
  ASSUME Sound, NEW p \in Ports, Exit(p)
  PROVE  Sound'
<1>u. PICK u : u = thread[p].profile
  OBVIOUS
<1> DEFINE d == [type |-> "DISCONNECT", profile |-> u, port |-> p]
<1>1. /\ Tell(p, "exit", d) /\ thread[p].pc # "none"
      /\ UNCHANGED <<alive, primary, upToDate, backupServers, inbox, masterTable, nextClientPort,
                     loop, sends>>
  BY <1>u DEF Exit, roles, net, counts, history
<1>2. primary \in upToDate /\ u \in Profiles /\ p \in Nat
  BY <1>1, <1>u, Running, ReplicationAssumption DEF Ports
<1>3. d \in WeakDatagram /\ d.profile = u
  BY <1>2 DEF WeakDatagram
<1> HIDE DEF d
<1>4. /\ \A s \in upToDate : RowsFormed(s)' /\ InboxClosed(s)'
      /\ \A s \in upToDate : \A v : Hears(s, v)' <=> Hears(s, v)
      /\ \A v : HasRow(v)' <=> HasRow(v)
      /\ \A v : HeardByAll(v)' <=> HeardByAll(v)
  BY <1>1, SameTable
<1>5. DOMAIN thread' = Ports /\ \A q \in Ports : ThreadSound(thread[q])'
  BY <1>1, <1>3, <1>4, <1>u, TellSound
<1>6. Typed'
  BY <1>1, <1>5 DEF Sound, Typed
<1>7. LoopSound' /\ AllHear'
  BY <1>1, <1>4, SameLoop, HearTheSame DEF ToBeTold
<1> QED BY <1>1, <1>2, <1>4, <1>5, <1>6, <1>7, Assemble

LEMMA TellNextKeeps ==
  ASSUME Sound, NEW p \in Ports, TellNext(p)
  PROVE  Sound'
<1>u. PICK u : u = thread[p].profile
  OBVIOUS
<1>b. PICK b : b = Head(thread[p].toTell)
  OBVIOUS
<1>d. PICK d : d = thread[p].datagram
  OBVIOUS
<1>1. /\ SendTo(b, d) /\ thread[p].toTell # <<>>
      /\ thread' = [thread EXCEPT ![p] =
                      IF Len(@.toTell) = 1 /\ @.pc = "tell" THEN NewThread(@.profile)
                      ELSE [thread[p] EXCEPT !.toTell = Tail(@)]]
      /\ UNCHANGED <<alive, primary, upToDate, backupServers, masterTable, nextClientPort, loop, sends>>
  BY <1>b, <1>d DEF TellNext, roles, counts, history
<1>2. /\ primary \in upToDate /\ DOMAIN thread[p] = ThreadFields /\ DOMAIN thread = Ports
      /\ u \in Profiles /\ HeardByAll(u)
  BY <1>1, <1>u, Running
<1>3. /\ thread[p].pc # "none" /\ d \in WeakDatagram /\ d.profile = u
      /\ thread[p].toTell \in Seq(Servers)
  BY <1>1, <1>d, <1>u DEF Sound, ThreadSound
<1>4. b \in Servers /\ Tail(thread[p].toTell) \in Seq(Servers)
  BY <1>1, <1>3, <1>b, HeadOrTail
<1>5. /\ inbox' \in [Servers -> Seq(WeakDatagram)]
      /\ \A s \in upToDate : RowsFormed(s)' /\ InboxClosed(s)'
      /\ \A s \in upToDate : \A v :
           Hears(s, v)' <=> Hears(s, v) \/ (s = b /\ d.type = "CONNECT" /\ d.profile = v)
  <2>1. UNCHANGED <<primary, upToDate, masterTable>>
    BY <1>1
  <2> QED BY <1>1, <1>2, <1>3, <1>4, <2>1, Sending
<1>6. \A v : (HasRow(v) => HasRow(v)') /\ (HeardByAll(v) => HeardByAll(v)')
  BY <1>1, <1>5 DEF HasRow, HeardByAll
<1>7. \A q \in Ports : ThreadSound(thread[q])'
  <2>1. \A q \in Ports \ {p} : thread'[q] = thread[q]
    BY <1>1, <1>2
  <2>2. CASE thread'[p] = NewThread(u)
    BY <1>2, <1>6, <2>1, <2>2, NewThreadSound, OtherThreads
  <2>3. CASE thread'[p] = [thread[p] EXCEPT !.toTell = Tail(thread[p].toTell)]
    <3>1. /\ DOMAIN thread'[p] = ThreadFields /\ thread'[p].pc = thread[p].pc
          /\ thread'[p].datagram = d /\ thread'[p].toTell = Tail(thread[p].toTell)
          /\ thread'[p].profile = u
      BY <1>2, <1>d, <1>u, <2>3 DEF ThreadFields
    <3>2. HeardByAll(thread[p].profile)'
      <4>1. HeardByAll(u)'
        BY <1>2, <1>6
      <4> QED BY <3>1, <4>1
    <3>3. ThreadSound(thread[p])'
      BY <1>3, <1>4, <3>1, <3>2 DEF ThreadSound
    <3> QED BY <1>6, <2>1, <3>3, OtherThreads
  <2>4. thread'[p] = IF Len(thread[p].toTell) = 1 /\ thread[p].pc = "tell" THEN NewThread(u)
                     ELSE [thread[p] EXCEPT !.toTell = Tail(thread[p].toTell)]
    <3>1. CASE Len(thread[p].toTell) = 1 /\ thread[p].pc = "tell"
      BY <1>1, <1>2, <1>u, <3>1
    <3>2. CASE ~(Len(thread[p].toTell) = 1 /\ thread[p].pc = "tell")
      BY <1>1, <1>2, <1>u, <3>2
    <3> QED BY <3>1, <3>2
  <2> QED BY <2>2, <2>3, <2>4
<1>8. Typed'
  <2>1. DOMAIN thread' = Ports
    BY <1>1, <1>2
  <2> QED BY <1>1, <1>5, <2>1 DEF Sound, Typed
<1>9. LoopSound'
  BY <1>1, <1>6, SameLoop
<1>10. AllHear'
  <2>1. ASSUME NEW a \in upToDate, NEW c \in upToDate, NEW v \in Profiles, c # primary, Hears(a, v)'
        PROVE  Hears(c, v)' \/ ToBeTold(c, v)'
    <3>1. CASE v = u
      BY <1>2, <1>5, <2>1, <3>1 DEF HeardByAll
    <3>2. CASE v # u
      <4>1. Hears(a, v)
        BY <1>3, <1>5, <2>1, <3>2
      <4>2. Hears(c, v) \/ ToBeTold(c, v)
        BY <2>1, <4>1 DEF Sound, AllHear
      <4>3. ToBeTold(c, v) => ToBeTold(c, v)'
        BY <1>1 DEF ToBeTold
      <4> QED BY <1>5, <2>1, <4>2, <4>3
    <3> QED BY <3>1, <3>2
  <2> QED BY <1>1, <2>1 DEF AllHear
<1> QED BY <1>1, <1>2, <1>5, <1>7, <1>8, <1>9, <1>10, Assemble

LEMMA NoThreadSound ==
  ASSUME NEW q, thread'[q] = NoThread
  PROVE  ThreadSound(thread[q])'
<1>1. /\ DOMAIN thread'[q] = ThreadFields /\ thread'[q].toTell = <<>>
      /\ thread'[q].pc = "none"
  BY DEF NoThread, ThreadFields
<1> QED BY <1>1 DEF ThreadSound

LEMMA CloseSessionKeeps ==
  ASSUME Sound, NEW p \in Ports, CloseSession(p)
  PROVE  Sound'
<1>u. PICK u : u = thread[p].profile
  OBVIOUS
<1> DEFINE x == RemoveFirst(Table[u].sessions, p)
<1>1. /\ SetRow(primary, u, [masterTable[primary][u] EXCEPT !.sessions = x])
      /\ thread' = [thread EXCEPT ![p] = NoThread] /\ thread[p].pc # "none"
      /\ UNCHANGED <<alive, primary, upToDate, backupServers, inbox, nextClientPort, loop, sends>>
  BY <1>u DEF CloseSession, Table, roles, net, counts, history
<1> HIDE DEF x
<1>2. primary \in upToDate /\ u \in DOMAIN masterTable[primary] /\ DOMAIN thread = Ports
  BY <1>1, <1>u, Running
<1>3. Kept
  BY <1>1, <1>2, FieldKeeps
<1>4. /\ \A s \in upToDate : RowsFormed(s)' /\ InboxClosed(s)'
      /\ \A s \in upToDate : \A v : Hears(s, v)' <=> Hears(s, v)
      /\ \A v : HasRow(v)' <=> HasRow(v)
      /\ \A v : HeardByAll(v)' <=> HeardByAll(v)
  BY <1>1, <1>2, <1>3, KeptTable
<1>5. \A q \in Ports : ThreadSound(thread[q])'
  <2>1. /\ \A q \in Ports \ {p} : thread'[q] = thread[q]
        /\ thread'[p] = NoThread
    BY <1>1, <1>2
  <2> QED BY <1>4, <2>1, NoThreadSound, OtherThreads
<1>6. Typed'
  <2>1. DOMAIN thread' = Ports
    BY <1>1, <1>2
  <2> QED BY <1>1, <1>3, <2>1 DEF Kept, Sound, Typed
<1>7. LoopSound' /\ AllHear'
  BY <1>1, <1>4, SameLoop, HearTheSame DEF ToBeTold
<1> QED BY <1>1, <1>2, <1>4, <1>5, <1>6, <1>7, Assemble

LEMMA ShowKeeps ==
  ASSUME Sound, NEW p \in Ports, NEW message, Show(p, message)
  PROVE  Sound'
<1>u. PICK u : u = thread[p].profile
  OBVIOUS
<1> DEFINE x == Table[u].messages \ {message}
<1>1. /\ SetRow(primary, u, [masterTable[primary][u] EXCEPT !.messages = x])
      /\ thread[p].pc # "none"
      /\ UNCHANGED <<alive, primary, upToDate, backupServers, inbox, nextClientPort, loop, thread, sends>>
  BY <1>u DEF Show, Table, roles, net, counts, history
<1> HIDE DEF x
<1>2. primary \in upToDate /\ u \in DOMAIN masterTable[primary]
  BY <1>1, <1>u, Running
<1>3. Kept
  BY <1>1, <1>2, FieldKeeps
<1>4. /\ \A s \in upToDate : RowsFormed(s)' /\ InboxClosed(s)'
      /\ \A s \in upToDate : \A v : Hears(s, v)' <=> Hears(s, v)
      /\ \A v : HasRow(v)' <=> HasRow(v)
      /\ \A v : HeardByAll(v)' <=> HeardByAll(v)
  BY <1>1, <1>2, <1>3, KeptTable
<1>5. Typed'
  BY <1>1, <1>3 DEF Kept, Sound, Typed
<1>6. LoopSound' /\ AllHear'
  BY <1>1, <1>4, SameLoop, HearTheSame DEF ToBeTold
<1> QED BY <1>1, <1>2, <1>4, <1>5, <1>6, SameThreads, Assemble

-----------------------------------------------------------------------------
(* Roles that change.                                                       *)

\* Who was still to be told of something has missed it.
LEMMA PrimaryDiesKeeps ==
  ASSUME Sound, primary # Nobody, PrimaryDies
  PROVE  Sound'
<1>1. /\ primary \in Servers /\ upToDate' \subseteq upToDate \ {primary}
      /\ \A c \in upToDate' : c \notin ToSet(loop.toTell)
      /\ alive' = alive \ {primary} /\ primary' = Nobody
      /\ loop' = Rest /\ thread' = [p \in Ports |-> NoThread]
      /\ masterTable' = [masterTable EXCEPT ![primary] = <<>>]
      /\ nextClientPort' = [nextClientPort EXCEPT ![primary] = FirstPort]
      /\ UNCHANGED <<backupServers, inbox, sends>>
  BY SomebodyServes DEF PrimaryDies, Forgets, Untold, net
<1>2. Nobody \notin Servers /\ upToDate \subseteq Servers /\ FirstPort \in Nat
  BY ReplicationAssumption DEF Sound, Roles
<1>3. \A s \in upToDate' : masterTable'[s] = masterTable[s] /\ inbox'[s] = inbox[s]
  BY <1>1, <1>2 DEF Sound, Typed
<1>4. \A s \in upToDate' : /\ \A u : Hears(s, u)' <=> Hears(s, u)
                           /\ RowsFormed(s)' /\ InboxClosed(s)'
  BY <1>1, <1>3 DEF Sound, Hears, RowsFormed, InboxClosed
<1>5. Typed'
  <2>1. nextClientPort' \in [Servers -> Nat]
    BY <1>1, <1>2 DEF Sound, Typed
  <2>2. DOMAIN masterTable' = Servers /\ DOMAIN thread' = Ports
    BY <1>1 DEF Sound, Typed
  <2> QED BY <1>1, <2>1, <2>2 DEF Sound, Typed
<1>6. Roles' /\ Enlisted' /\ Idle'
  <2>1. Roles' /\ Idle'
    BY <1>1 DEF Sound, Roles, Idle
  <2>2. Enlisted'
    BY <1>1 DEF Sound, Enlisted
  <2> QED BY <2>1, <2>2
<1>7. LoopSound' /\ \A q \in Ports : ThreadSound(thread[q])'
  BY <1>1, LoopRests, NoThreadSound
<1>8. AllHear'
  <2>1. ASSUME NEW b \in upToDate', NEW c \in upToDate', NEW u \in Profiles, Hears(b, u)'
        PROVE  Hears(c, u)'
    <3>1. b \in upToDate /\ c \in upToDate /\ c # primary /\ Hears(b, u)
      BY <1>1, <1>4, <2>1
    <3>2. Hears(c, u) \/ ToBeTold(c, u)
      BY <3>1 DEF Sound, AllHear
    <3> QED BY <1>1, <1>4, <3>2 DEF ToBeTold
  <2> QED BY <2>1 DEF AllHear
<1> QED BY <1>4, <1>5, <1>6, <1>7, <1>8 DEF Sound

\* The others stay on the list of the backup that takes itself off it.
LEMMA RemoveOne ==
  ASSUME NEW S, NEW q \in Seq(S), NEW i \in DOMAIN q
  PROVE  /\ RemoveAt(q, i) \in Seq(S)
         /\ ToSet(q) \ {q[i]} \subseteq ToSet(RemoveAt(q, i))
<1> DEFINE n == Len(q)
           front == SubSeq(q, 1, i - 1)
           back == SubSeq(q, i + 1, n)
           r == front \o back
<1>1. n \in Nat /\ i \in 1 .. n /\ DOMAIN q = 1 .. n
  OBVIOUS
<1>2. /\ front \in Seq(S) /\ Len(front) = i - 1
      /\ \A j \in 1 .. i - 1 : front[j] = q[j]
  BY <1>1
<1>3. /\ back \in Seq(S) /\ Len(back) = n - i
      /\ \A j \in 1 .. n - i : back[j] = q[i + j]
  BY <1>1
<1> HIDE DEF n, front, back
<1>4. /\ r \in Seq(S) /\ Len(r) = n - 1 /\ DOMAIN r = 1 .. n - 1
      /\ \A j \in 1 .. i - 1 : r[j] = front[j]
      /\ \A j \in 1 .. n - i : r[j + (i - 1)] = back[j]
  <2>1. /\ r \in Seq(S) /\ Len(r) = (i - 1) + (n - i)
        /\ \A j \in 1 .. (i - 1) + (n - i) :
             r[j] = IF j <= i - 1 THEN front[j] ELSE back[j - (i - 1)]
    <3>1. /\ r \in Seq(S) /\ Len(r) = Len(front) + Len(back)
          /\ \A j \in 1 .. Len(front) + Len(back) :
               r[j] = IF j <= Len(front) THEN front[j] ELSE back[j - Len(front)]
      BY <1>2, <1>3, ConcatProperties, Zenon
    <3> QED BY <1>2, <1>3, <3>1
  <2> HIDE DEF r
  <2>2. (i - 1) + (n - i) = n - 1
    BY <1>1
  <2>3. DOMAIN r = 1 .. n - 1
    BY <2>1, <2>2
  <2>4. ASSUME NEW j \in 1 .. i - 1 PROVE r[j] = front[j]
    BY <1>1, <2>1, <2>2
  <2>5. ASSUME NEW j \in 1 .. n - i PROVE r[j + (i - 1)] = back[j]
    <3>1. /\ j + (i - 1) \in 1 .. n - 1 /\ ~(j + (i - 1) <= i - 1)
          /\ (j + (i - 1)) - (i - 1) = j
      BY <1>1
    <3> QED BY <2>1, <2>2, <3>1
  <2> QED BY <2>1, <2>2, <2>3, <2>4, <2>5
<1> HIDE DEF r
<1>5. ASSUME NEW j \in 1 .. n, j # i PROVE \E k \in DOMAIN r : r[k] = q[j]
  <2>1. CASE j < i
    <3>1. j \in 1 .. i - 1 /\ j \in 1 .. n - 1
      BY <1>1, <2>1
    <3> QED BY <1>2, <1>4, <3>1
  <2>2. CASE j > i
    <3>1. /\ j - i \in 1 .. n - i /\ j - 1 \in 1 .. n - 1
          /\ (j - i) + (i - 1) = j - 1 /\ i + (j - i) = j
      BY <1>1, <2>2
    <3>2. r[j - 1] = q[j]
      BY <1>3, <1>4, <3>1
    <3> QED BY <1>4, <3>1, <3>2
  <2> QED BY <1>1, <1>5, <2>1, <2>2
<1>6. ASSUME NEW x \in ToSet(q), x # q[i] PROVE x \in ToSet(r)
  <2>1. PICK j \in 1 .. n : x = q[j]
    BY <1>1 DEF ToSet
  <2> QED BY <1>5, <1>6, <2>1 DEF ToSet
<1> QED BY <1>4, <1>6 DEF RemoveAt, r, front, back, n

LEMMA TakePortKeeps ==
  ASSUME Sound, NEW b \in Servers, TakePort(b), upToDate' # {}
  PROVE  Sound'
<1>1. /\ primary = Nobody /\ primary' = b /\ b \in upToDate /\ inbox[b] = <<>>
      /\ inbox' = [inbox EXCEPT ![b] = <<>>]
      /\ UNCHANGED <<alive, masterTable, nextClientPort, loop, thread, sends, upToDate>>
  BY DEF TakePort, counts
<1>2. PICK i \in DOMAIN backupServers :
        backupServers[i] = b /\ backupServers' = RemoveAt(backupServers, i)
  BY DEF TakePort
<1>3. /\ Nobody \notin Servers /\ upToDate \subseteq Servers
      /\ backupServers \in Seq(Servers) /\ inbox \in [Servers -> Seq(WeakDatagram)]
      /\ loop = Rest /\ \A p \in Ports : thread[p] = NoThread
  BY <1>1, ReplicationAssumption DEF Sound, Typed, Roles, Idle
<1>4. inbox' = inbox
  BY <1>1, <1>3
<1>5. backupServers' \in Seq(Servers) /\ ToSet(backupServers) \ {b} \subseteq ToSet(backupServers')
  BY <1>2, <1>3, RemoveOne
<1>6. \A s \in upToDate : /\ \A u : Hears(s, u)' <=> Hears(s, u)
                          /\ RowsFormed(s)' /\ InboxClosed(s)'
  BY <1>1, <1>4 DEF Sound, Hears, RowsFormed, InboxClosed
<1>7. Typed'
  BY <1>1, <1>4, <1>5 DEF Sound, Typed
<1>8. Roles' /\ Enlisted' /\ Idle'
  <2>1. upToDate \subseteq ToSet(backupServers)
    BY <1>1, <1>3 DEF Sound, Enlisted
  <2>2. Enlisted'
    BY <1>1, <1>5, <2>1 DEF Enlisted
  <2>3. primary' # Nobody
    BY <1>1, <1>3
  <2> QED BY <1>1, <2>2, <2>3 DEF Sound, Roles, Idle
<1>9. LoopSound' /\ \A q \in Ports : ThreadSound(thread[q])'
  BY <1>1, <1>3, LoopRests, NoThreadSound
<1>10. AllHear'
  <2>1. loop.toTell = <<>>
    BY <1>3 DEF Rest
  <2>2. ASSUME NEW a \in upToDate, NEW c \in upToDate, NEW u \in Profiles, Hears(a, u)
        PROVE  Hears(c, u)
    BY <1>1, <1>3, <2>1, <2>2, NobodyToTell DEF Sound, AllHear
  <2> QED BY <1>1, <1>6, <2>2 DEF AllHear
<1> QED BY <1>1, <1>6, <1>7, <1>8, <1>9, <1>10 DEF Sound

\* A backup that starts again is not among those that missed nothing.
LEMMA JoinKeeps ==
  ASSUME Sound, NEW b \in Servers, Join(b)
  PROVE  Sound'
<1>1. /\ primary # Nobody /\ b \notin alive
      /\ \A s \in Servers \ {b} : masterTable'[s] = masterTable[s]
      /\ DOMAIN masterTable' = Servers
      /\ alive' = alive \cup {b} /\ backupServers' = Append(backupServers, b)
      /\ UNCHANGED <<primary, inbox, nextClientPort, loop, thread, sends, upToDate>>
  BY DEF Join, Serving, Sound, Typed, counts, history
<1>2. \A s \in upToDate : masterTable'[s] = masterTable[s] /\ inbox'[s] = inbox[s]
  BY <1>1 DEF Sound, Roles
<1>3. /\ \A s \in upToDate : RowsFormed(s)' /\ InboxClosed(s)'
      /\ \A s \in upToDate : \A v : Hears(s, v)' <=> Hears(s, v)
      /\ \A v : HasRow(v)' <=> HasRow(v)
      /\ \A v : HeardByAll(v)' <=> HeardByAll(v)
  BY <1>1, <1>2, SameTable
<1>4. backupServers' \in Seq(Servers) /\ ToSet(backupServers) \subseteq ToSet(backupServers')
  <2>1. /\ backupServers \in Seq(Servers) /\ DOMAIN backupServers \subseteq DOMAIN backupServers'
        /\ \A i \in DOMAIN backupServers : backupServers'[i] = backupServers[i]
        /\ backupServers' \in Seq(Servers)
    BY <1>1, SMTT(60) DEF Sound, Typed
  <2> QED BY <2>1 DEF ToSet
<1>5. Typed'
  BY <1>1, <1>4 DEF Sound, Typed
<1>6. Roles' /\ Enlisted' /\ Idle'
  BY <1>1, <1>4 DEF Sound, Roles, Enlisted, Idle
<1>7. LoopSound' /\ (\A q \in Ports : ThreadSound(thread[q])') /\ AllHear'
  BY <1>1, <1>3, SameLoop, SameThreads, HearTheSame DEF ToBeTold
<1> QED BY <1>1, <1>3, <1>5, <1>6, <1>7 DEF Sound

-----------------------------------------------------------------------------
(* The theorem.                                                             *)

LEMMA SoundAtFirst == Init => KnownInv
<1> SUFFICES ASSUME Init PROVE Sound
  BY DEF KnownInv
<1> USE DEF Init
<1>1. /\ backupServers \in Seq(Servers \ {Primary}) /\ FirstPort \in Nat /\ Primary \in Servers
  BY ReplicationAssumption
<1>2. backupServers \in Seq(Servers) /\ ToSet(backupServers) \subseteq Servers
  <2>1. /\ DOMAIN backupServers = 1 .. Len(backupServers)
        /\ \A i \in DOMAIN backupServers : backupServers[i] \in Servers
        /\ backupServers \in Seq(Servers)
    BY <1>1
  <2> QED BY <2>1 DEF ToSet
<1>3. Typed
  BY <1>1, <1>2 DEF Typed
<1>4. Roles /\ Enlisted /\ Idle
  BY <1>1, <1>2 DEF Roles, Enlisted, Idle
<1>i. PICK file \in Files :
        /\ masterTable = [s \in Servers |-> [u \in DOMAIN file |-> LoadedRow(file[u])]]
        /\ inbox = [s \in Servers |-> <<>>]
  OBVIOUS
<1>5. \A s \in Servers :
        /\ DOMAIN masterTable[s] = DOMAIN file /\ inbox[s] = <<>>
        /\ \A u \in DOMAIN file : masterTable[s][u] = LoadedRow(file[u])
  BY <1>i
<1>f. DOMAIN file \subseteq Profiles
  BY ReplicationAssumption
<1>6. \A s \in upToDate : RowsFormed(s) /\ InboxClosed(s)
  <2>1. /\ \A f : DOMAIN LoadedRow(f) = RowFields
        /\ \A rows : Closed(rows, <<>>)
    BY DEF LoadedRow, NewRow, RowFields, Closed
  <2>2. upToDate \subseteq Servers
    BY <1>1, <1>2
  <2> HIDE DEF Init
  <2> QED BY <1>5, <1>f, <2>1, <2>2 DEF RowsFormed, InboxClosed
<1>7. LoopSound
  BY DEF LoopSound, Rest, LoopFields
<1>8. \A p \in Ports : ThreadSound(thread[p])
  <2>1. /\ DOMAIN NoThread = ThreadFields /\ NoThread.toTell = <<>> /\ NoThread.pc = "none"
    BY DEF NoThread, ThreadFields
  <2>2. \A p \in Ports : thread[p] = NoThread
    OBVIOUS
  <2>3. <<>> \in Seq(Servers)
    OBVIOUS
  <2> HIDE DEF Init
  <2> QED BY <2>1, <2>2, <2>3 DEF ThreadSound
<1>9. AllHear
  BY <1>1, <1>2, <1>5 DEF AllHear, Hears
<1> QED BY <1>3, <1>4, <1>6, <1>7, <1>8, <1>9 DEF Sound

LEMMA StutterKeeps ==
  ASSUME Sound, UNCHANGED vars
  PROVE  Sound'
BY DEF Sound, Typed, Roles, Enlisted, Idle, RowsFormed, InboxClosed, LoopSound, ThreadSound, AllHear,
       Hears, HasRow, HeardByAll, ToBeTold,
       vars, roles, net, counts, history

LEMMA StepKeeps ==
  ASSUME Sound, [Next]_vars, upToDate' # {}
  PROVE  Sound'
<1>1. ASSUME LoopStep PROVE Sound'
  BY <1>1, ReceiveConnectKeeps, ReopenUserKeeps, TellConnectKeeps, StartSessionKeeps,
     BecomePrimaryKeeps, ReopenSessionKeeps, EnterPrimaryLoopKeeps DEF LoopStep
<1>2. ASSUME NEW p \in Ports, ThreadStep(p) PROVE Sound'
  <2>1. CASE SendBlindly(p)
    BY <2>1, Running, PrimaryDiesKeeps DEF SendBlindly
  <2> QED BY <1>2, <2>1, FollowKeeps, SendKeeps, ExitKeeps, TellNextKeeps, CloseSessionKeeps,
             ShowKeeps DEF ThreadStep
<1>3. ASSUME NEW b \in Servers, BackupStep(b) \/ TakePort(b) \/ Join(b) PROVE Sound'
  BY <1>3, BackupKeeps, TakePortKeeps, JoinKeeps
<1>4. ASSUME Crash \/ BindFails PROVE Sound'
  BY <1>4, SomebodyServes, PrimaryDiesKeeps DEF Crash, BindFails
<1> QED BY <1>1, <1>2, <1>3, <1>4, StutterKeeps DEF Next

\* Nobody comes to have missed nothing who has missed something.
LEMMA NobodyCatchesUp ==
  ASSUME [Next]_vars
  PROVE  upToDate' \subseteq upToDate
<1>1. ASSUME LoopStep PROVE upToDate' \subseteq upToDate
  BY <1>1 DEF LoopStep, ReceiveConnect, ReopenUser, TellConnect, StartSession, BecomePrimary,
              ReopenSession, EnterPrimaryLoop, history
<1>2. ASSUME NEW p \in Ports, ThreadStep(p) PROVE upToDate' \subseteq upToDate
  BY <1>2 DEF ThreadStep, Follow, Send, SendBlindly, Exit, TellNext, CloseSession, Show,
              PrimaryDies, history
<1>3. ASSUME NEW b \in Servers, BackupStep(b) \/ TakePort(b) \/ Join(b) PROVE upToDate' \subseteq upToDate
  BY <1>3 DEF BackupStep, ReplicateConnect, ReplicateDisconnect, ReplicateFollow, ReplicateSend,
              Receives, NoRow, Lives, Dies, TakePort, Join, history
<1> QED BY <1>1, <1>2, <1>3 DEF Next, Crash, BindFails, PrimaryDies, vars, history

LEMMA SoundRowsKnown == KnownInv => KnownRows
<1> SUFFICES ASSUME KnownInv, NEW b \in upToDate
             PROVE  \A i \in DOMAIN inbox[b] :
                      inbox[b][i].type # "CONNECT" => Announced(b, inbox[b][i].profile, i)
  BY DEF KnownRows
<1>1. InboxClosed(b)
  BY DEF KnownInv, Sound
<1> QED BY <1>1 DEF InboxClosed, Closed, Announced

\* A backup that has missed nothing has a row for the sender of each REPLICATE
\* datagram it reads: the lookups of server.cpp that do not check whether the
\* sender has one meet no end() there.
THEOREM UpToDateKnowRows == Spec => []KnownRows
<1>1. KnownInv /\ [Next]_vars => KnownInv'
  BY StepKeeps, NobodyCatchesUp DEF KnownInv
<1> QED BY <1>1, SoundAtFirst, SoundRowsKnown, PTL DEF Spec

-----------------------------------------------------------------------------
(* Lists that are parts of others.                                          *)

LEMMA Least ==
  ASSUME NEW I \in SUBSET Nat, I # {}
  PROVE  \E n \in I : \A m \in I : n <= m
<1> DEFINE R == {ss \in Nat \X Nat : ss[1] < ss[2]}
<1>1. R = OpToRel(<, Nat)
  BY Zenon DEF OpToRel
<1>2. IsWellFoundedOn(R, Nat)
  BY Zenon, <1>1, NatLessThanWellFounded
<1> HIDE DEF R
<1>3. PICK n \in I : \A m \in I : ~(<<m, n>> \in R)
  BY <1>2, WFMin
<1>4. \A m \in I : ~(m < n)
  BY <1>3 DEF R
<1> QED BY <1>4

\* RemoveAt, place by place.
LEMMA RemoveAtIs ==
  ASSUME NEW S, NEW q \in Seq(S), NEW i \in DOMAIN q
  PROVE  /\ RemoveAt(q, i) \in Seq(S) /\ Len(RemoveAt(q, i)) = Len(q) - 1
         /\ DOMAIN RemoveAt(q, i) = 1 .. Len(q) - 1
         /\ \A j \in 1 .. i - 1 : RemoveAt(q, i)[j] = q[j]
         /\ \A j \in i .. Len(q) - 1 : RemoveAt(q, i)[j] = q[j + 1]
<1> DEFINE n == Len(q)
           front == SubSeq(q, 1, i - 1)
           back == SubSeq(q, i + 1, n)
           r == front \o back
<1>1. n \in Nat /\ i \in 1 .. n /\ DOMAIN q = 1 .. n
  OBVIOUS
<1>2. /\ front \in Seq(S) /\ Len(front) = i - 1
      /\ \A j \in 1 .. i - 1 : front[j] = q[j]
  BY <1>1
<1>3. /\ back \in Seq(S) /\ Len(back) = n - i
      /\ \A j \in 1 .. n - i : back[j] = q[i + j]
  BY <1>1
<1> HIDE DEF n, front, back
<1>4. /\ r \in Seq(S) /\ Len(r) = (i - 1) + (n - i)
      /\ \A j \in 1 .. (i - 1) + (n - i) :
           r[j] = IF j <= i - 1 THEN front[j] ELSE back[j - (i - 1)]
  <2>1. /\ r \in Seq(S) /\ Len(r) = Len(front) + Len(back)
        /\ \A j \in 1 .. Len(front) + Len(back) :
             r[j] = IF j <= Len(front) THEN front[j] ELSE back[j - Len(front)]
    BY <1>2, <1>3, ConcatProperties, Zenon
  <2> QED BY <1>2, <1>3, <2>1
<1> HIDE DEF r
<1>5. (i - 1) + (n - i) = n - 1
  BY <1>1
<1>6. DOMAIN r = 1 .. n - 1
  BY <1>4, <1>5
<1>7. ASSUME NEW j \in 1 .. i - 1 PROVE r[j] = q[j]
  BY <1>1, <1>2, <1>4, <1>5, SMTT(60)
<1>8. ASSUME NEW j \in i .. n - 1 PROVE r[j] = q[j + 1]
  <2>1. /\ j \in 1 .. n - 1 /\ ~(j <= i - 1) /\ j - (i - 1) \in 1 .. n - i
        /\ i + (j - (i - 1)) = j + 1
    BY <1>1
  <2> QED BY <1>3, <1>4, <1>5, <2>1
<1> QED BY <1>4, <1>5, <1>6, <1>7, <1>8 DEF RemoveAt, r, front, back, n

\* RemoveFirst takes the first of its kind, if there is one.
LEMMA RemovesOne ==
  ASSUME NEW S, NEW q \in Seq(S), NEW x
  PROVE  \/ x \notin ToSet(q) /\ RemoveFirst(q, x) = q
         \/ \E k \in DOMAIN q : q[k] = x /\ RemoveFirst(q, x) = RemoveAt(q, k)
<1>1. Len(q) \in Nat /\ DOMAIN q = 1 .. Len(q)
  OBVIOUS
<1>2. CASE \A i \in 1 .. Len(q) : q[i] # x
  BY <1>1, <1>2 DEF RemoveFirst, ToSet
<1>3. CASE \E i \in 1 .. Len(q) : q[i] = x
  <2> DEFINE I == {i \in 1 .. Len(q) : q[i] = x}
  <2>1. RemoveFirst(q, x) = RemoveAt(q, Min(I))
    BY <1>3 DEF RemoveFirst, SelectInSeq
  <2>2. I # {} /\ I \subseteq Nat
    BY <1>1, <1>3
  <2> HIDE DEF I
  <2>3. \E n \in I : \A m \in I : n <= m
    BY <2>2, Least
  <2>4. Min(I) \in I
    BY <2>3, Zenon DEF Min
  <2> QED BY <1>1, <2>1, <2>4 DEF I
<1> QED BY <1>2, <1>3

(* q is, in some order, a part of o.                                        *)
Part(q, o) ==
  \E f \in [DOMAIN q -> DOMAIN o] :
    IsInjective(f) /\ \A i \in DOMAIN q : o[f[i]] = q[i]

LEMMA PartRefl ==
  ASSUME NEW S, NEW q \in Seq(S)
  PROVE  Part(q, q)
<1> DEFINE f == [i \in DOMAIN q |-> i]
<1>1. f \in [DOMAIN q -> DOMAIN q] /\ IsInjective(f) /\ \A i \in DOMAIN q : q[f[i]] = q[i]
  BY DEF IsInjective
<1> QED BY <1>1 DEF Part

LEMMA PartLen ==
  ASSUME NEW S, NEW q \in Seq(S), NEW o \in Seq(S), Part(q, o)
  PROVE  Len(q) <= Len(o)
<1>1. PICK f \in [DOMAIN q -> DOMAIN o] : IsInjective(f)
  BY DEF Part
<1>2. /\ DOMAIN q = 1 .. Len(q) /\ DOMAIN o = 1 .. Len(o) /\ Len(q) \in Nat /\ Len(o) \in Nat
  OBVIOUS
<1>3. f \in Injection(1 .. Len(q), 1 .. Len(o))
  BY <1>1, <1>2 DEF Injection
<1>4. /\ IsFiniteSet(1 .. Len(o)) /\ Cardinality(1 .. Len(o)) = Len(o)
      /\ Cardinality(1 .. Len(q)) = Len(q)
  <2>1. \A n \in Nat : IsFiniteSet(1 .. n) /\ Cardinality(1 .. n) = n
    <3> TAKE n \in Nat
    <3>1. IsFiniteSet(1 .. n) /\ Cardinality(1 .. n) = IF 1 > n THEN 0 ELSE n - 1 + 1
      BY FS_Interval
    <3> QED BY <3>1
  <2> QED BY <1>2, <2>1
<1>5. Cardinality(1 .. Len(q)) <= Cardinality(1 .. Len(o))
  BY <1>3, <1>4, FS_Injection
<1> QED BY <1>4, <1>5

\* Parts place by place, so that a proof need not speak of the function.
LEMMA PartRemoveAt ==
  ASSUME NEW S, NEW q \in Seq(S), NEW o \in Seq(S), Part(q, o), NEW k \in DOMAIN q
  PROVE  Part(RemoveAt(q, k), o)
<1> DEFINE n == Len(q)
           r == RemoveAt(q, k)
<1>1. /\ n \in Nat /\ DOMAIN q = 1 .. n /\ k \in 1 .. n
  OBVIOUS
<1>2. /\ DOMAIN r = 1 .. n - 1
      /\ \A j \in 1 .. k - 1 : r[j] = q[j]
      /\ \A j \in k .. n - 1 : r[j] = q[j + 1]
  BY RemoveAtIs
<1>3. PICK f \in [DOMAIN q -> DOMAIN o] : IsInjective(f) /\ \A i \in DOMAIN q : o[f[i]] = q[i]
  BY DEF Part
<1> HIDE DEF n, r
<1> DEFINE at(i) == IF i < k THEN i ELSE i + 1
           g == [i \in 1 .. n - 1 |-> f[at(i)]]
<1>4. ASSUME NEW i \in 1 .. n - 1 PROVE at(i) \in 1 .. n /\ r[i] = q[at(i)]
  <2>1. CASE i < k
    <3>1. i \in 1 .. k - 1 /\ at(i) = i
      BY <1>1, <2>1
    <3> QED BY <1>1, <1>2, <3>1
  <2>2. CASE ~(i < k)
    <3>1. i \in k .. n - 1 /\ at(i) = i + 1
      BY <1>1, <2>2
    <3> QED BY <1>1, <1>2, <3>1
  <2> QED BY <2>1, <2>2
<1>5. \A i, j \in 1 .. n - 1 : at(i) = at(j) => i = j
  BY <1>1
<1> HIDE DEF at
<1>6. g \in [DOMAIN r -> DOMAIN o]
  BY <1>1, <1>2, <1>4
<1>7. IsInjective(g)
  <2> SUFFICES ASSUME NEW i \in 1 .. n - 1, NEW j \in 1 .. n - 1, g[i] = g[j] PROVE i = j
    BY DEF IsInjective
  <2>1. f[at(i)] = f[at(j)]
    OBVIOUS
  <2>2. at(i) \in DOMAIN f /\ at(j) \in DOMAIN f
    BY <1>1, <1>3, <1>4
  <2>3. at(i) = at(j)
    BY <1>3, <2>1, <2>2 DEF IsInjective
  <2> QED BY <1>5, <2>3
<1>8. \A i \in DOMAIN r : o[g[i]] = r[i]
  BY <1>1, <1>2, <1>3, <1>4
<1> HIDE DEF g
<1>9. Part(r, o)
  BY <1>6, <1>7, <1>8, Zenon DEF Part
<1> QED BY <1>9 DEF r

LEMMA PartRemove ==
  ASSUME NEW S, NEW q \in Seq(S), NEW o \in Seq(S), Part(q, o), NEW x
  PROVE  Part(RemoveFirst(q, x), o) /\ RemoveFirst(q, x) \in Seq(S)
<1>1. CASE RemoveFirst(q, x) = q
  BY <1>1
<1>2. ASSUME NEW k \in DOMAIN q, RemoveFirst(q, x) = RemoveAt(q, k)
      PROVE  Part(RemoveFirst(q, x), o) /\ RemoveFirst(q, x) \in Seq(S)
  <2>1. Part(RemoveAt(q, k), o)
    BY PartRemoveAt
  <2>2. RemoveAt(q, k) \in Seq(S)
    BY RemoveAtIs
  <2> QED BY <1>2, <2>1, <2>2
<1> QED BY <1>1, <1>2, RemovesOne

\* One more of o that no place of q stands for.
LEMMA PartAppend ==
  ASSUME NEW S, NEW q \in Seq(S), NEW o \in Seq(S), NEW x,
         \E f \in [DOMAIN q -> DOMAIN o], j \in DOMAIN o :
           /\ IsInjective(f) /\ o[j] = x
           /\ \A i \in DOMAIN q : o[f[i]] = q[i] /\ f[i] # j
  PROVE  Part(Append(q, x), o)
<1>j. PICK f \in [DOMAIN q -> DOMAIN o], j \in DOMAIN o :
        /\ IsInjective(f) /\ o[j] = x
        /\ \A i \in DOMAIN q : o[f[i]] = q[i] /\ f[i] # j
  OBVIOUS
<1> DEFINE n == Len(q)
           r == Append(q, x)
           g == [i \in 1 .. n + 1 |-> IF i <= n THEN f[i] ELSE j]
<1>1. /\ n \in Nat /\ DOMAIN q = 1 .. n /\ DOMAIN r = 1 .. n + 1 /\ r[n + 1] = x
      /\ \A i \in 1 .. n : r[i] = q[i]
  <2>1. x \in S
    BY <1>j
  <2> QED BY <2>1
<1> HIDE DEF n, r
<1>2. g \in [DOMAIN r -> DOMAIN o]
  <2>1. ASSUME NEW i \in 1 .. n + 1 PROVE (IF i <= n THEN f[i] ELSE j) \in DOMAIN o
    <3>1. CASE i <= n
      <4>1. i \in DOMAIN q
        BY <1>1, <3>1
      <4> QED BY <3>1, <4>1
    <3> QED BY <1>j, <3>1
  <2> QED BY <1>1, <2>1
<1>3. IsInjective(g)
  <2> SUFFICES ASSUME NEW a \in 1 .. n + 1, NEW b \in 1 .. n + 1, g[a] = g[b] PROVE a = b
    BY DEF IsInjective
  <2>1. CASE a <= n /\ b <= n
    <3>1. a \in DOMAIN f /\ b \in DOMAIN f /\ f[a] = f[b]
      BY <1>1, <2>1
    <3> QED BY <1>j, <3>1 DEF IsInjective
  <2>2. CASE a <= n /\ ~(b <= n)
    <3>1. a \in DOMAIN q /\ f[a] = j
      BY <1>1, <2>2
    <3> QED BY <1>j, <3>1
  <2>3. CASE ~(a <= n) /\ b <= n
    <3>1. b \in DOMAIN q /\ f[b] = j
      BY <1>1, <2>3
    <3> QED BY <1>j, <3>1
  <2>4. CASE ~(a <= n) /\ ~(b <= n)
    BY <1>1, <2>4
  <2> QED BY <2>1, <2>2, <2>3, <2>4
<1>4. \A i \in DOMAIN r : o[g[i]] = r[i]
  <2> SUFFICES ASSUME NEW i \in 1 .. n + 1 PROVE o[g[i]] = r[i]
    BY <1>1
  <2>1. CASE i <= n
    <3>1. i \in DOMAIN q /\ g[i] = f[i] /\ r[i] = q[i]
      BY <1>1, <2>1
    <3> QED BY <1>j, <3>1
  <2>2. CASE ~(i <= n)
    <3>1. i = n + 1 /\ g[i] = j
      BY <1>1, <2>2
    <3> QED BY <1>1, <1>j, <3>1
  <2> QED BY <2>1, <2>2
<1> HIDE DEF g
<1>5. Part(r, o)
  BY <1>2, <1>3, <1>4, Zenon DEF Part
<1> QED BY <1>5 DEF r

\* Moved to the end, or put there if it was gone.
LEMMA PartMove ==
  ASSUME NEW S, NEW q \in Seq(S), NEW o \in Seq(S), Part(q, o), NEW x \in ToSet(o)
  PROVE  Part(Append(RemoveFirst(q, x), x), o) /\ Append(RemoveFirst(q, x), x) \in Seq(S)
<1>x. x \in S
  BY DEF ToSet
<1>1. PICK f \in [DOMAIN q -> DOMAIN o] : IsInjective(f) /\ \A i \in DOMAIN q : o[f[i]] = q[i]
  BY DEF Part
<1>2. CASE x \notin ToSet(q) /\ RemoveFirst(q, x) = q
  <2>1. PICK j \in DOMAIN o : o[j] = x
    BY DEF ToSet
  <2>2. \A i \in DOMAIN q : q[i] # x
    BY <1>2 DEF ToSet
  <2>3. \A i \in DOMAIN q : o[f[i]] = q[i] /\ f[i] # j
    BY <1>1, <2>1, <2>2
  <2>4. Part(Append(q, x), o)
    BY <1>1, <2>1, <2>3, PartAppend
  <2> QED BY <1>x, <1>2, <2>4
<1>3. ASSUME NEW k \in DOMAIN q, q[k] = x, RemoveFirst(q, x) = RemoveAt(q, k)
      PROVE  Part(Append(RemoveFirst(q, x), x), o) /\ Append(RemoveFirst(q, x), x) \in Seq(S)
  <2> DEFINE n == Len(q)
             s == RemoveAt(q, k)
             at(i) == IF i < k THEN i ELSE i + 1
             g == [i \in 1 .. n - 1 |-> f[at(i)]]
  <2>1. /\ n \in Nat /\ DOMAIN q = 1 .. n /\ k \in 1 .. n
    OBVIOUS
  <2>2. /\ DOMAIN s = 1 .. n - 1 /\ s \in Seq(S)
        /\ \A i \in 1 .. k - 1 : s[i] = q[i]
        /\ \A i \in k .. n - 1 : s[i] = q[i + 1]
    BY RemoveAtIs
  <2> HIDE DEF n, s
  <2>3. ASSUME NEW i \in 1 .. n - 1 PROVE at(i) \in 1 .. n /\ s[i] = q[at(i)] /\ at(i) # k
    <3>1. CASE i < k
      <4>1. i \in 1 .. k - 1 /\ at(i) = i
        BY <2>1, <3>1
      <4> QED BY <2>1, <2>2, <3>1, <4>1
    <3>2. CASE ~(i < k)
      <4>1. i \in k .. n - 1 /\ at(i) = i + 1
        BY <2>1, <3>2
      <4> QED BY <2>1, <2>2, <4>1
    <3> QED BY <3>1, <3>2
  <2>4. \A i, j \in 1 .. n - 1 : at(i) = at(j) => i = j
    BY <2>1
  <2> HIDE DEF at
  <2>5. g \in [DOMAIN s -> DOMAIN o]
    BY <1>1, <2>1, <2>2, <2>3
  <2>i. ASSUME NEW a \in 1 .. n, NEW b \in 1 .. n, f[a] = f[b] PROVE a = b
    <3>1. a \in DOMAIN f /\ b \in DOMAIN f
      BY <1>1, <2>1
    <3> QED BY <1>1, <2>i, <3>1 DEF IsInjective
  <2>6. IsInjective(g)
    <3> SUFFICES ASSUME NEW i \in 1 .. n - 1, NEW j \in 1 .. n - 1, g[i] = g[j] PROVE i = j
      BY DEF IsInjective
    <3>1. f[at(i)] = f[at(j)]
      OBVIOUS
    <3>2. at(i) = at(j)
      BY <2>i, <2>3, <3>1
    <3> QED BY <2>4, <3>2
  <2>7. \A i \in DOMAIN s : o[g[i]] = s[i] /\ g[i] # f[k]
    <3> SUFFICES ASSUME NEW i \in 1 .. n - 1 PROVE o[f[at(i)]] = s[i] /\ f[at(i)] # f[k]
      BY <2>2
    <3>1. at(i) \in 1 .. n /\ s[i] = q[at(i)] /\ at(i) # k
      BY <2>3
    <3>2. o[f[at(i)]] = q[at(i)]
      BY <1>1, <2>1, <3>1
    <3>3. f[at(i)] # f[k]
      BY <2>1, <2>i, <3>1
    <3> QED BY <3>1, <3>2, <3>3
  <2>8. f[k] \in DOMAIN o /\ o[f[k]] = x
    BY <1>1, <1>3
  <2> HIDE DEF g
  <2>9. Part(Append(s, x), o)
    BY <2>2, <2>5, <2>6, <2>7, <2>8, PartAppend
  <2>10. Append(s, x) \in Seq(S)
    BY <1>x, <2>2
  <2> QED BY <1>3, <2>9, <2>10 DEF s
<1> QED BY <1>2, <1>3, RemovesOne
-----------------------------------------------------------------------------
(* The types of the variables, and what keeps the sessions of a profile     *)
(* within the limit while they are opened again: the list that grows is at  *)
(* any time a part of the one that was copied.                              *)
GoodRows == {row \in RowType : Len(row.sessions) <= MaxSessions}
IsTable(t) == DOMAIN t \subseteq Profiles /\ t \in [DOMAIN t -> GoodRows]
LoopType == [pc : {"receive", "tell", "reopen"}, profile : Profiles \cup {Nobody},
             toTell : Seq(Servers), toOpen : Seq(Ports), users : SUBSET Profiles]
ThreadType == [pc : {"none", "run", "tell", "exit"}, profile : Profiles \cup {Nobody},
               datagram : DatagramType \cup {<<>>}, toTell : Seq(Servers)]

StaticTypes ==
  /\ alive \subseteq Servers /\ backupServers \in Seq(Servers)
  /\ primary \in alive \cup {Nobody} /\ isPrimary \in BOOLEAN
  /\ inbox \in [Servers -> Seq(DatagramType)]
  /\ nextClientPort \in [Servers -> Nat] /\ \A s \in Servers : nextClientPort[s] >= FirstPort
  /\ client \in [Ports -> Profiles \cup {Nobody}]
  /\ sends \in 0 .. MaxSends
  /\ upToDate \subseteq Servers /\ kept \in [Profiles -> SUBSET MessageType]

Tables == DOMAIN masterTable = Servers /\ \A s \in Servers : IsTable(masterTable[s])

FromOneList(sessions, open) ==
  \E q \in Seq(Ports) : Len(q) <= MaxSessions /\ Part(sessions, q) /\ ToSet(open) \subseteq ToSet(q)

LoopTyped ==
  /\ loop \in LoopType
  /\ loop.toTell # <<>> => loop.pc = "tell"
  /\ loop.pc = "tell" => /\ loop.profile \in DOMAIN Table
                         /\ Len(Table[loop.profile].sessions) < MaxSessions
                         /\ nextClientPort[primary] \in Ports
  /\ loop.pc = "reopen" => /\ loop.users \subseteq DOMAIN Table
                           /\ loop.toOpen # <<>> =>
                                /\ loop.profile \in DOMAIN Table
                                /\ FromOneList(Table[loop.profile].sessions, loop.toOpen)

ThreadTyped(locals) ==
  /\ locals.pc # "none" => locals.profile \in DOMAIN Table
  /\ locals.toTell # <<>> => locals.pc # "none" /\ locals.datagram \in DatagramType

Threads == thread \in [Ports -> ThreadType] /\ \A p \in Ports : ThreadTyped(thread[p])

TypeInv == StaticTypes /\ Tables /\ LoopTyped /\ Threads /\ Idle

LEMMA TypeInvTypes == TypeInv => TypeOK
<1> SUFFICES ASSUME TypeInv PROVE TypeOK
  OBVIOUS
<1>1. ASSUME NEW s \in Servers
      PROVE  /\ DOMAIN masterTable[s] \subseteq Profiles
             /\ masterTable[s] \in [DOMAIN masterTable[s] -> RowType]
             /\ inbox[s] \in Seq(DatagramType)
             /\ \A u \in DOMAIN masterTable[s] : Len(masterTable[s][u].sessions) <= MaxSessions
  <2>1. IsTable(masterTable[s]) /\ inbox[s] \in Seq(DatagramType)
    BY DEF TypeInv, Tables, StaticTypes
  <2> QED BY <2>1 DEF IsTable, GoodRows
<1>2. thread \in [Ports -> ThreadType]
  BY DEF TypeInv, Threads
<1>3. loop \in LoopType
  BY DEF TypeInv, LoopTyped
<1> QED BY <1>1, <1>2, <1>3 DEF TypeOK, TypeInv, StaticTypes, ThreadType, LoopType

\* Rows and tables that changed.
LEMMA RowGood ==
  ASSUME NEW row \in GoodRows
  PROVE  /\ \A q \in Seq(Ports) : Len(q) <= MaxSessions => [row EXCEPT !.sessions = q] \in GoodRows
         /\ \A f \in SUBSET Profiles : [row EXCEPT !.followers = f] \in GoodRows
         /\ \A m \in SUBSET MessageType : [row EXCEPT !.messages = m] \in GoodRows
BY DEF GoodRows, RowType

LEMMA NewRowGood ==
  /\ NewRow \in GoodRows
  /\ \A f \in SUBSET Profiles : LoadedRow(f) \in GoodRows
<1>1. NewRow \in GoodRows
  <2>1. <<>> \in Seq(Ports) /\ Len(<<>>) = 0 /\ 0 <= MaxSessions
    BY ReplicationAssumption
  <2> QED BY <2>1 DEF NewRow, GoodRows, RowType
<1> QED BY <1>1, RowGood DEF LoadedRow

LEMMA EmptyTable == IsTable(<<>>)
<1>1. <<>> \in Seq(GoodRows) /\ Len(<<>>) = 0
  OBVIOUS
<1>2. <<>> \in [1 .. 0 -> GoodRows] /\ DOMAIN <<>> = 1 .. 0 /\ 1 .. 0 = {}
  BY <1>1, LenProperties
<1> QED BY <1>2 DEF IsTable

\* A row set in a table.
LEMMA SetRowTyped ==
  ASSUME Tables, NEW s \in Servers, NEW u \in Profiles, NEW row \in GoodRows, SetRow(s, u, row)
  PROVE  /\ Tables'
         /\ DOMAIN masterTable'[s] = DOMAIN masterTable[s] \cup {u}
         /\ masterTable'[s][u] = row
         /\ \A v \in DOMAIN masterTable[s] \ {u} : masterTable'[s][v] = masterTable[s][v]
         /\ \A t \in Servers \ {s} : masterTable'[t] = masterTable[t]
<1>1. IsTable(masterTable[s])
  BY DEF Tables
<1> DEFINE new == [v \in DOMAIN masterTable[s] \cup {u} |-> IF v = u THEN row ELSE masterTable[s][v]]
<1>2. IsTable(new)
  BY <1>1 DEF IsTable
<1>3. masterTable' = [masterTable EXCEPT ![s] = new] /\ DOMAIN masterTable = Servers
  BY DEF SetRow, Tables
<1>4. /\ DOMAIN new = DOMAIN masterTable[s] \cup {u} /\ new[u] = row
      /\ \A v \in DOMAIN masterTable[s] \ {u} : new[v] = masterTable[s][v]
  OBVIOUS
<1> HIDE DEF new
<1>5. DOMAIN masterTable' = Servers /\ masterTable'[s] = new
      /\ \A t \in Servers \ {s} : masterTable'[t] = masterTable[t]
  BY <1>3
<1>6. Tables'
  BY <1>2, <1>5 DEF Tables, IsTable
<1> QED BY <1>4, <1>5, <1>6

\* A table set.
LEMMA SetTable ==
  ASSUME Tables, NEW s \in Servers, NEW t, IsTable(t), masterTable' = [masterTable EXCEPT ![s] = t]
  PROVE  Tables' /\ masterTable'[s] = t /\ \A r \in Servers \ {s} : masterTable'[r] = masterTable[r]
BY DEF Tables, IsTable

\* The sessions without one of them.
LEMMA FewerSessions ==
  ASSUME NEW q \in Seq(Ports), Len(q) <= MaxSessions, NEW p
  PROVE  RemoveFirst(q, p) \in Seq(Ports) /\ Len(RemoveFirst(q, p)) <= Len(q)
                                         /\ Len(RemoveFirst(q, p)) <= MaxSessions
<1>1. Part(RemoveFirst(q, p), q) /\ RemoveFirst(q, p) \in Seq(Ports)
  BY PartRefl, PartRemove
<1>2. Len(RemoveFirst(q, p)) <= Len(q) /\ Len(RemoveFirst(q, p)) \in Nat /\ Len(q) \in Nat
  BY <1>1, PartLen
<1>3. MaxSessions \in Nat
  BY ReplicationAssumption
<1> QED BY <1>1, <1>2, <1>3

\* What may become of the table of the primary while the loop is at something
\* else: no row goes, and no sessions come.
Shrinks(old, new) ==
  /\ DOMAIN old \subseteq DOMAIN new
  /\ \A u \in DOMAIN old : \/ new[u].sessions = old[u].sessions
                           \/ \E p : new[u].sessions = RemoveFirst(old[u].sessions, p)

LEMMA LoopStays ==
  ASSUME TypeInv, UNCHANGED <<loop, primary>>, primary \in Servers,
         nextClientPort'[primary] = nextClientPort[primary],
         Shrinks(Table, masterTable'[primary])
  PROVE  LoopTyped'
<1> DEFINE u == loop.profile
<1>1. ASSUME NEW v \in DOMAIN Table PROVE Table[v] \in GoodRows
  BY DEF TypeInv, Tables, IsTable, Table
<1>2. Table' = masterTable'[primary]
  BY DEF Table
<1>3. loop.pc = "tell" =>
        u \in DOMAIN Table' /\ Len(Table'[u].sessions) < MaxSessions
  <2> SUFFICES ASSUME loop.pc = "tell"
               PROVE  u \in DOMAIN Table' /\ Len(Table'[u].sessions) < MaxSessions
    OBVIOUS
  <2>1. /\ u \in DOMAIN Table /\ u \in DOMAIN Table'
        /\ Len(Table[u].sessions) < MaxSessions
    BY <1>2 DEF TypeInv, LoopTyped, Shrinks
  <2>2. PICK q \in Seq(Ports) : q = Table[u].sessions /\ Len(q) <= MaxSessions /\ Len(q) < MaxSessions
    BY <1>1, <2>1 DEF GoodRows, RowType
  <2>3. Table'[u].sessions = q \/ \E p : Table'[u].sessions = RemoveFirst(q, p)
    BY <1>2, <2>1, <2>2 DEF Shrinks
  <2>4. CASE Table'[u].sessions = q
    BY <2>1, <2>2, <2>4
  <2>5. ASSUME NEW p, Table'[u].sessions = RemoveFirst(q, p)
        PROVE  Len(Table'[u].sessions) < MaxSessions
    <3>1. RemoveFirst(q, p) \in Seq(Ports) /\ Len(RemoveFirst(q, p)) <= Len(q)
      BY <2>2, FewerSessions
    <3>2. Len(q) \in Nat /\ Len(RemoveFirst(q, p)) \in Nat /\ MaxSessions \in Nat
      BY <3>1, ReplicationAssumption
    <3> QED BY <2>2, <2>5, <3>1, <3>2
  <2> QED BY <2>1, <2>3, <2>4, <2>5
<1>4. loop.pc = "reopen" => loop.users \subseteq DOMAIN Table'
  BY <1>2 DEF TypeInv, LoopTyped, Shrinks
<1>5. ASSUME loop.pc = "reopen", loop.toOpen # <<>>
      PROVE  u \in DOMAIN Table' /\ FromOneList(Table'[u].sessions, loop.toOpen)
  <2>1. u \in DOMAIN Table /\ u \in DOMAIN Table'
    BY <1>2, <1>5 DEF TypeInv, LoopTyped, Shrinks
  <2>2. PICK q \in Seq(Ports) : Len(q) <= MaxSessions /\ Part(Table[u].sessions, q)
                                /\ ToSet(loop.toOpen) \subseteq ToSet(q)
    BY <1>5 DEF TypeInv, LoopTyped, FromOneList
  <2>3. PICK r \in Seq(Ports) : r = Table[u].sessions
    BY <1>1, <2>1 DEF GoodRows, RowType
  <2>4. Table'[u].sessions = r \/ \E p : Table'[u].sessions = RemoveFirst(r, p)
    BY <1>2, <2>1, <2>3 DEF Shrinks
  <2>5. Part(Table'[u].sessions, q)
    BY <2>2, <2>3, <2>4, PartRemove
  <2> QED BY <2>1, <2>2, <2>5 DEF FromOneList
<1> QED BY <1>3, <1>4, <1>5 DEF TypeInv, LoopTyped

LEMMA ThreadsStay ==
  ASSUME TypeInv, NEW p, thread' \in [Ports -> ThreadType],
         \A q \in Ports \ {p} : thread'[q] = thread[q],
         p \in Ports => ThreadTyped(thread[p])',
         DOMAIN Table \subseteq DOMAIN Table'
  PROVE  Threads'
<1> SUFFICES ASSUME NEW q \in Ports, q # p PROVE ThreadTyped(thread[q])'
  BY DEF Threads
<1> QED BY DEF TypeInv, Threads, ThreadTyped

-----------------------------------------------------------------------------
(* The steps of the loop.                                                   *)

\* What a step that moves no role, registers nobody and touches no history
\* leaves to show.
LEMMA TypesAssemble ==
  ASSUME TypeInv, UNCHANGED <<alive, primary, backupServers>>, upToDate' \subseteq upToDate,
         isPrimary' \in BOOLEAN, primary \in Servers,
         inbox' \in [Servers -> Seq(DatagramType)],
         nextClientPort' \in [Servers -> Nat], \A s \in Servers : nextClientPort'[s] >= FirstPort,
         client' \in [Ports -> Profiles \cup {Nobody}], sends' \in 0 .. MaxSends,
         kept' \in [Profiles -> SUBSET MessageType],
         Tables', LoopTyped', Threads'
  PROVE  TypeInv'
<1>1. primary # Nobody
  BY ReplicationAssumption
<1>2. StaticTypes'
  BY DEF TypeInv, StaticTypes
<1> QED BY <1>1, <1>2 DEF TypeInv, Idle

\* Who serves.
LEMMA Server ==
  ASSUME TypeInv, primary # Nobody
  PROVE  primary \in Servers /\ primary \in alive /\ IsTable(Table)
BY DEF TypeInv, StaticTypes, Tables, Table

LEMMA Busy ==
  ASSUME TypeInv
  PROVE  /\ loop.pc # "receive" \/ loop.toTell # <<>> \/ loop.toOpen # <<>> => primary # Nobody
         /\ \A p \in Ports : thread[p].pc # "none" \/ thread[p].toTell # <<>> => primary # Nobody
BY DEF TypeInv, Idle, Rest, NoThread

LEMMA RestTyped == ASSUME loop' = Rest PROVE LoopTyped'
<1>1. /\ Rest.pc = "receive" /\ Rest.toTell = <<>> /\ Rest.profile = Nobody /\ Rest.toOpen = <<>>
      /\ Rest.users = {} /\ Rest \in LoopType
  <2>1. <<>> \in Seq(Servers) /\ <<>> \in Seq(Ports)
    OBVIOUS
  <2> QED BY <2>1 DEF Rest, LoopType
<1> QED BY <1>1 DEF LoopTyped

LEMMA ReceiveConnectTypes ==
  ASSUME TypeInv, NEW u \in Profiles, ReceiveConnect(u)
  PROVE  TypeInv'
<1> DEFINE row == RowOf(primary, u)
<1>1. /\ primary # Nobody /\ nextClientPort[primary] <= LastPort
      /\ Len(row.sessions) < MaxSessions
      /\ SetRow(primary, u, row)
      /\ loop' = [Rest EXCEPT !.pc = "tell", !.profile = u, !.toTell = backupServers]
      /\ kept' = [kept EXCEPT ![u] = {}]
      /\ UNCHANGED <<alive, primary, isPrimary, backupServers, inbox, nextClientPort, thread, client,
                     sends, upToDate>>
  BY DEF ReceiveConnect, Serving, roles, net, counts
<1>2. primary \in Servers /\ IsTable(masterTable[primary])
  BY <1>1, Server DEF Table
<1>3. row \in GoodRows
  BY <1>2, NewRowGood DEF RowOf, IsTable
<1> HIDE DEF row
<1>4. /\ Tables'
      /\ DOMAIN masterTable'[primary] = DOMAIN masterTable[primary] \cup {u}
      /\ masterTable'[primary][u] = row
  BY <1>1, <1>2, <1>3, SetRowTyped DEF TypeInv
<1>5. LoopTyped'
  <2>1. /\ loop'.pc = "tell" /\ loop'.profile = u /\ loop'.toTell = backupServers
        /\ loop' \in LoopType
    <3>1. <<>> \in Seq(Ports) /\ backupServers \in Seq(Servers)
      BY DEF TypeInv, StaticTypes
    <3> QED BY <1>1, <3>1 DEF Rest, LoopType
  <2>2. nextClientPort[primary] \in Ports
    BY <1>1, <1>2, ReplicationAssumption DEF TypeInv, StaticTypes, Ports
  <2>3. Table' = masterTable'[primary]
    BY <1>1 DEF Table
  <2> QED BY <1>1, <1>4, <2>1, <2>2, <2>3 DEF LoopTyped
<1>6. Threads'
  <2>1. DOMAIN Table \subseteq DOMAIN Table'
    BY <1>1, <1>4 DEF Table
  <2> QED BY <1>1, <2>1 DEF TypeInv, Threads, ThreadTyped
<1>7. kept' \in [Profiles -> SUBSET MessageType]
  BY <1>1 DEF TypeInv, StaticTypes
<1> QED BY <1>1, <1>2, <1>4, <1>5, <1>6, <1>7, TypesAssemble DEF TypeInv, StaticTypes

LEMMA SendToTyped ==
  ASSUME TypeInv, NEW b \in Servers, NEW d \in DatagramType, SendTo(b, d)
  PROVE  inbox' \in [Servers -> Seq(DatagramType)]
<1>1. inbox \in [Servers -> Seq(DatagramType)]
  BY DEF TypeInv, StaticTypes
<1>2. Append(inbox[b], d) \in Seq(DatagramType)
  BY <1>1
<1> QED BY <1>1, <1>2 DEF SendTo

LEMMA TellConnectTypes ==
  ASSUME TypeInv, TellConnect
  PROVE  TypeInv'
<1> DEFINE d == [type |-> "CONNECT", profile |-> loop.profile, port |-> nextClientPort[primary]]
<1>1. /\ loop.toTell # <<>> /\ SendTo(Head(loop.toTell), d)
      /\ loop' = [loop EXCEPT !.toTell = Tail(@)]
      /\ UNCHANGED <<alive, primary, isPrimary, backupServers, masterTable, nextClientPort, thread,
                     client, sends, upToDate, kept>>
  BY DEF TellConnect, roles, counts, history
<1>2. /\ loop.pc = "tell" /\ loop.profile \in DOMAIN Table /\ nextClientPort[primary] \in Ports
      /\ loop.toTell \in Seq(Servers) /\ loop \in LoopType
  BY <1>1 DEF TypeInv, LoopTyped, LoopType
<1>3. primary \in Servers /\ IsTable(Table)
  BY <1>1, Busy, Server
<1>4. d \in DatagramType
  BY <1>2, <1>3 DEF DatagramType, IsTable
<1>5. Head(loop.toTell) \in Servers /\ Tail(loop.toTell) \in Seq(Servers)
  BY <1>1, <1>2
<1> HIDE DEF d
<1>6. inbox' \in [Servers -> Seq(DatagramType)]
  BY <1>1, <1>4, <1>5, SendToTyped
<1>7. Table' = Table
  BY <1>1 DEF Table
<1>8. LoopTyped'
  <2>1. /\ loop' \in LoopType /\ loop'.pc = "tell" /\ loop'.profile = loop.profile
    BY <1>1, <1>2, <1>5 DEF LoopType
  <2> QED BY <1>1, <1>2, <1>7, <2>1 DEF TypeInv, LoopTyped
<1>9. Threads'
  BY <1>1, <1>7 DEF TypeInv, Threads, ThreadTyped
<1>10. Tables'
  BY <1>1 DEF TypeInv, Tables
<1> QED BY <1>1, <1>3, <1>6, <1>8, <1>9, <1>10, TypesAssemble DEF TypeInv, StaticTypes

LEMMA NewThreadTyped ==
  ASSUME NEW p, NEW u \in Profiles, thread'[p] = NewThread(u), u \in DOMAIN Table'
  PROVE  ThreadTyped(thread[p])' /\ NewThread(u) \in ThreadType
<1>1. /\ NewThread(u).pc = "run" /\ NewThread(u).profile = u /\ NewThread(u).toTell = <<>>
      /\ NewThread(u) \in ThreadType
  <2>1. <<>> \in Seq(Servers)
    OBVIOUS
  <2> QED BY <2>1 DEF NewThread, NoThread, ThreadType
<1> QED BY <1>1 DEF ThreadTyped

LEMMA StartSessionTypes ==
  ASSUME TypeInv, StartSession
  PROVE  TypeInv'
<1>p. PICK p, u : p = nextClientPort[primary] /\ u = loop.profile
  OBVIOUS
<1> DEFINE new == [Table[u] EXCEPT !.sessions = Append(@, p)]
<1>1. /\ loop.pc = "tell" /\ SetRow(primary, u, new)
      /\ thread' = [thread EXCEPT ![p] = NewThread(u)]
      /\ client' = [client EXCEPT ![p] = u]
      /\ nextClientPort' = [nextClientPort EXCEPT ![primary] = @ + 1]
      /\ loop' = Rest
      /\ upToDate' \subseteq upToDate
      /\ UNCHANGED <<alive, primary, isPrimary, backupServers, inbox, sends, kept>>
  BY <1>p DEF StartSession, roles, net, counts
<1>2. primary \in Servers /\ IsTable(Table)
  BY <1>1, Busy, Server
<1>3. /\ u \in DOMAIN Table /\ u \in Profiles /\ Table[u] \in GoodRows
      /\ Len(Table[u].sessions) < MaxSessions /\ p \in Ports
  BY <1>p, <1>1, <1>2 DEF TypeInv, LoopTyped, IsTable
<1>4. new \in GoodRows
  <2>1. PICK q \in Seq(Ports) : q = Table[u].sessions /\ Len(q) < MaxSessions
    BY <1>3 DEF GoodRows, RowType
  <2>2. Append(q, p) \in Seq(Ports) /\ Len(Append(q, p)) = Len(q) + 1 /\ Len(q) \in Nat
    BY <1>3, <2>1
  <2>3. Len(Append(q, p)) <= MaxSessions
    BY <2>1, <2>2, ReplicationAssumption
  <2>4. [Table[u] EXCEPT !.sessions = Append(q, p)] \in GoodRows
    BY <1>3, <2>2, <2>3, RowGood
  <2> QED BY <2>1, <2>4
<1> HIDE DEF new
<1>5. /\ Tables'
      /\ DOMAIN masterTable'[primary] = DOMAIN masterTable[primary] \cup {u}
  BY <1>1, <1>2, <1>3, <1>4, SetRowTyped DEF TypeInv
<1>6. DOMAIN Table \subseteq DOMAIN Table' /\ u \in DOMAIN Table'
  BY <1>1, <1>5 DEF Table
<1>7. Threads'
  <2>1. thread \in [Ports -> ThreadType]
    BY DEF TypeInv, Threads
  <2>2. thread'[p] = NewThread(u) /\ \A q \in Ports \ {p} : thread'[q] = thread[q]
    BY <1>1, <1>3, <2>1
  <2>3. ThreadTyped(thread[p])' /\ NewThread(u) \in ThreadType
    BY <1>3, <1>6, <2>2, NewThreadTyped
  <2>4. thread' \in [Ports -> ThreadType]
    BY <1>1, <2>1, <2>3
  <2> QED BY <1>6, <2>2, <2>3, <2>4, ThreadsStay
<1>8. /\ client' \in [Ports -> Profiles \cup {Nobody}]
      /\ nextClientPort' \in [Servers -> Nat] /\ \A s \in Servers : nextClientPort'[s] >= FirstPort
  <2>1. nextClientPort[primary] + 1 \in Nat /\ nextClientPort[primary] + 1 >= FirstPort
    BY <1>2, ReplicationAssumption DEF TypeInv, StaticTypes
  <2> QED BY <1>p, <1>1, <1>3, <2>1 DEF TypeInv, StaticTypes
<1>9. LoopTyped'
  BY <1>1, RestTyped
<1> QED BY <1>1, <1>2, <1>5, <1>7, <1>8, <1>9, TypesAssemble DEF TypeInv, StaticTypes

\* A step of the loop alone.
LEMMA OnlyLoop ==
  ASSUME TypeInv, primary \in Servers, LoopTyped', isPrimary' \in BOOLEAN,
         UNCHANGED <<alive, primary, net, masterTable, nextClientPort, thread, client, counts, history>>
  PROVE  TypeInv'
<1>1. Table' = Table
  BY DEF Table
<1>2. Tables' /\ Threads'
  BY <1>1 DEF TypeInv, Tables, Threads, ThreadTyped
<1> QED BY <1>2, TypesAssemble DEF TypeInv, StaticTypes, net, counts, history

LEMMA BecomePrimaryTypes ==
  ASSUME TypeInv, BecomePrimary
  PROVE  TypeInv'
<1> DEFINE users == {u \in DOMAIN Table : Table[u].sessions # <<>>}
<1>1. /\ primary # Nobody /\ isPrimary' = TRUE
      /\ loop' = [Rest EXCEPT !.pc = "reopen", !.users = users]
      /\ UNCHANGED <<alive, primary, net, masterTable, nextClientPort, thread, client, counts, history>>
  BY DEF BecomePrimary, Serving
<1>2. primary \in Servers /\ IsTable(Table) /\ Table' = Table
  BY <1>1, Server DEF Table
<1>3. users \in SUBSET Profiles /\ users \subseteq DOMAIN Table
  BY <1>2 DEF IsTable
<1> HIDE DEF users
<1>4. LoopTyped'
  <2>1. /\ loop' \in LoopType /\ loop'.pc = "reopen" /\ loop'.users = users
        /\ loop'.toOpen = <<>> /\ loop'.toTell = <<>>
    <3>1. <<>> \in Seq(Servers) /\ <<>> \in Seq(Ports)
      OBVIOUS
    <3> QED BY <1>1, <1>3, <3>1 DEF Rest, LoopType
  <2> QED BY <1>2, <1>3, <2>1 DEF LoopTyped
<1> QED BY <1>1, <1>2, <1>4, OnlyLoop

LEMMA ReopenUserTypes ==
  ASSUME TypeInv, NEW u \in Profiles, ReopenUser(u)
  PROVE  TypeInv'
<1>1. /\ loop.pc = "reopen" /\ u \in loop.users
      /\ loop' = [loop EXCEPT !.profile = u, !.users = @ \ {u}, !.toOpen = Table[u].sessions]
      /\ UNCHANGED <<alive, primary, isPrimary, net, masterTable, nextClientPort, thread, client,
                     counts, history>>
  BY DEF ReopenUser, roles
<1>2. primary \in Servers /\ IsTable(Table) /\ Table' = Table
  BY <1>1, Busy, Server DEF Table
<1>3. loop \in LoopType /\ loop.users \subseteq DOMAIN Table /\ u \in DOMAIN Table
      /\ loop.toTell = <<>>
  BY <1>1 DEF TypeInv, LoopTyped
<1>4. PICK q \in Seq(Ports) : q = Table[u].sessions /\ Len(q) <= MaxSessions
  BY <1>2, <1>3 DEF IsTable, GoodRows, RowType
<1>5. FromOneList(Table[u].sessions, q)
  BY <1>4, PartRefl DEF FromOneList
<1>6. LoopTyped'
  <2>1. /\ loop' \in LoopType /\ loop'.pc = "reopen" /\ loop'.users = loop.users \ {u}
        /\ loop'.profile = u /\ loop'.toOpen = q /\ loop'.toTell = <<>>
    BY <1>1, <1>3, <1>4 DEF LoopType
  <2> QED BY <1>2, <1>3, <1>5, <2>1 DEF LoopTyped
<1> QED BY <1>1, <1>2, <1>6, OnlyLoop DEF TypeInv, StaticTypes

LEMMA EnterPrimaryLoopTypes ==
  ASSUME TypeInv, EnterPrimaryLoop
  PROVE  TypeInv'
<1>1. /\ loop.pc = "reopen" /\ loop' = Rest
      /\ UNCHANGED <<alive, primary, isPrimary, net, masterTable, nextClientPort, thread, client,
                     counts, history>>
  BY DEF EnterPrimaryLoop, roles
<1>2. primary \in Servers /\ isPrimary' \in BOOLEAN
  BY <1>1, Busy, Server DEF TypeInv, StaticTypes
<1> QED BY <1>1, <1>2, RestTyped, OnlyLoop

LEMMA ReopenSessionTypes ==
  ASSUME TypeInv, ReopenSession
  PROVE  TypeInv'
<1>p. PICK p, u : p = Head(loop.toOpen) /\ u = loop.profile
  OBVIOUS
<1> DEFINE new == [Table[u] EXCEPT !.sessions = Append(RemoveFirst(@, p), p)]
<1>1. /\ loop.pc = "reopen" /\ loop.toOpen # <<>>
      /\ SetRow(primary, u, new)
      /\ thread' = [thread EXCEPT ![p] = NewThread(u)]
      /\ loop' = [loop EXCEPT !.toOpen = Tail(@)]
      /\ UNCHANGED <<alive, primary, isPrimary, backupServers, inbox, nextClientPort, client,
                     sends, upToDate, kept>>
  BY <1>p DEF ReopenSession, roles, net, counts, history
<1>2. primary \in Servers /\ IsTable(Table)
  BY <1>1, Busy, Server
<1>3. /\ u \in DOMAIN Table /\ u \in Profiles /\ Table[u] \in GoodRows
      /\ loop \in LoopType /\ loop.toOpen \in Seq(Ports) /\ loop.toTell = <<>>
  BY <1>p, <1>1, <1>2 DEF TypeInv, LoopTyped, LoopType, IsTable
<1>4. PICK o \in Seq(Ports) : /\ Len(o) <= MaxSessions /\ Part(Table[u].sessions, o)
                              /\ ToSet(loop.toOpen) \subseteq ToSet(o)
  BY <1>p, <1>1 DEF TypeInv, LoopTyped, FromOneList
<1>5. /\ p \in Ports /\ Tail(loop.toOpen) \in Seq(Ports)
      /\ ToSet(loop.toOpen) = {p} \cup ToSet(Tail(loop.toOpen))
  BY <1>p, <1>1, <1>3, HeadOrTail
<1>6. PICK q \in Seq(Ports) : q = Table[u].sessions
  BY <1>3 DEF GoodRows, RowType
<1>7. PICK r \in Seq(Ports) : r = Append(RemoveFirst(q, p), p) /\ Part(r, o)
  BY <1>4, <1>5, <1>6, PartMove
<1>8. Len(r) <= MaxSessions
  <2>0. Len(r) \in Nat /\ Len(o) \in Nat
    OBVIOUS
  <2>p. Part(r, o)
    BY <1>7
  <2>1. Len(r) <= Len(o)
    BY <2>p, PartLen, Zenon
  <2>2. Len(o) <= MaxSessions /\ MaxSessions \in Nat
    BY <1>4, ReplicationAssumption
  <2> QED BY <2>0, <2>1, <2>2
<1>9. new \in GoodRows /\ new.sessions = r
  <2>1. [Table[u] EXCEPT !.sessions = r] \in GoodRows
    BY <1>3, <1>7, <1>8, RowGood
  <2>2. DOMAIN Table[u] = {"sessions", "followers", "messages"}
    BY <1>3 DEF GoodRows, RowType
  <2> QED BY <1>6, <1>7, <2>1, <2>2
<1> HIDE DEF new
<1>10. /\ Tables'
       /\ DOMAIN masterTable'[primary] = DOMAIN masterTable[primary] \cup {u}
       /\ masterTable'[primary][u] = new
  BY <1>1, <1>2, <1>3, <1>9, SetRowTyped DEF TypeInv
<1>11. DOMAIN Table \subseteq DOMAIN Table' /\ u \in DOMAIN Table' /\ Table'[u].sessions = r
  BY <1>1, <1>9, <1>10 DEF Table
<1>12. Threads'
  <2>1. thread \in [Ports -> ThreadType]
    BY DEF TypeInv, Threads
  <2>2. thread'[p] = NewThread(u) /\ \A q2 \in Ports \ {p} : thread'[q2] = thread[q2]
    BY <1>1, <1>5, <2>1
  <2>3. ThreadTyped(thread[p])' /\ NewThread(u) \in ThreadType
    BY <1>3, <1>11, <2>2, NewThreadTyped
  <2>4. thread' \in [Ports -> ThreadType]
    BY <1>1, <2>1, <2>3
  <2> QED BY <1>11, <2>2, <2>3, <2>4, ThreadsStay
<1>13. LoopTyped'
  <2>1. /\ loop' \in LoopType /\ loop'.pc = "reopen" /\ loop'.users = loop.users
        /\ loop'.profile = u /\ loop'.toOpen = Tail(loop.toOpen) /\ loop'.toTell = <<>>
    BY <1>p, <1>1, <1>3, <1>5 DEF LoopType
  <2>2. FromOneList(r, Tail(loop.toOpen))
    BY <1>4, <1>5, <1>7 DEF FromOneList
  <2>3. loop.users \subseteq DOMAIN Table'
    BY <1>1, <1>11 DEF TypeInv, LoopTyped
  <2> QED BY <1>11, <2>1, <2>2, <2>3 DEF LoopTyped
<1> QED BY <1>1, <1>2, <1>10, <1>12, <1>13, TypesAssemble DEF TypeInv, StaticTypes

-----------------------------------------------------------------------------
(* The steps of a session thread.                                           *)

LEMMA RunningTypes ==
  ASSUME TypeInv, NEW p \in Ports, thread[p].pc # "none" \/ thread[p].toTell # <<>>
  PROVE  /\ primary \in Servers /\ IsTable(Table)
         /\ thread[p].profile \in DOMAIN Table /\ thread[p].profile \in Profiles
         /\ Table[thread[p].profile] \in GoodRows
         /\ thread[p] \in ThreadType
<1>1. primary \in Servers /\ IsTable(Table)
  BY Busy, Server
<1>2. thread[p].profile \in DOMAIN Table /\ thread[p] \in ThreadType
  BY DEF TypeInv, Threads, ThreadTyped
<1> QED BY <1>1, <1>2 DEF IsTable

\* What a thread tells next is a datagram.
LEMMA TellTyped ==
  ASSUME TypeInv, NEW p \in Ports, thread[p].pc = "run", NEW pc \in {"tell", "exit"},
         NEW d \in DatagramType, Tell(p, pc, d), DOMAIN Table \subseteq DOMAIN Table'
  PROVE  Threads'
<1>1. thread \in [Ports -> ThreadType] /\ backupServers \in Seq(Servers)
      /\ ThreadTyped(thread[p])
  BY DEF TypeInv, Threads, StaticTypes
<1>2. thread[p] \in ThreadType /\ DOMAIN thread[p] = {"pc", "profile", "datagram", "toTell"}
  BY <1>1 DEF ThreadType
<1> DEFINE new == [thread[p] EXCEPT !.pc = pc, !.datagram = d, !.toTell = backupServers]
<1>3. /\ new \in ThreadType /\ new.pc = pc /\ new.pc # "none" /\ new.datagram = d
      /\ new.profile = thread[p].profile
  BY <1>1, <1>2 DEF ThreadType
<1> HIDE DEF new
<1>4. thread'[p] \in {thread[p], new} /\ thread' \in [Ports -> ThreadType]
      /\ \A q \in Ports \ {p} : thread'[q] = thread[q]
  <2>1. CASE backupServers = <<>> /\ pc = "tell"
    <3>1. thread' = [thread EXCEPT ![p] = thread[p]]
      BY <2>1 DEF Tell
    <3> QED BY <1>1, <3>1
  <2>2. CASE ~(backupServers = <<>> /\ pc = "tell")
    <3>1. thread' = [thread EXCEPT ![p] = new]
      BY <2>2 DEF Tell, new
    <3> QED BY <1>1, <1>3, <3>1
  <2> QED BY <2>1, <2>2
<1>5. ThreadTyped(thread[p])'
  BY <1>1, <1>3, <1>4 DEF ThreadTyped
<1> QED BY <1>4, <1>5, ThreadsStay

\* A new table of the primary, with the same rows and the same sessions.
LEMMA SameSessions ==
  ASSUME TypeInv, primary \in Servers, UNCHANGED primary, NEW t, IsTable(t), DOMAIN t = DOMAIN Table,
         \A u \in DOMAIN Table : t[u].sessions = Table[u].sessions,
         masterTable' = [masterTable EXCEPT ![primary] = t]
  PROVE  Tables' /\ Shrinks(Table, masterTable'[primary]) /\ DOMAIN Table \subseteq DOMAIN Table'
<1>1. Tables' /\ masterTable'[primary] = t
  BY SetTable DEF TypeInv
<1> QED BY <1>1 DEF Shrinks, Table

LEMMA FollowedTyped ==
  ASSUME NEW t, IsTable(t), NEW u \in DOMAIN t, NEW new
  PROVE  /\ IsTable(Followed(t, u, new)) /\ DOMAIN Followed(t, u, new) = DOMAIN t
         /\ \A v \in DOMAIN t : Followed(t, u, new)[v].sessions = t[v].sessions
<1>1. u \in Profiles /\ Notice(u) \in MessageType
  BY ReplicationAssumption DEF IsTable, Notice, MessageType
<1>2. ASSUME NEW v \in DOMAIN t
      PROVE  /\ Followed(t, u, new)[v] \in GoodRows
             /\ Followed(t, u, new)[v].sessions = t[v].sessions
  <2>1. t[v] \in GoodRows
    BY DEF IsTable
  <2>2. PICK f \in SUBSET Profiles, m \in SUBSET MessageType :
          Followed(t, u, new)[v] = [t[v] EXCEPT !.followers = f, !.messages = m]
    <3> DEFINE f == IF v = new /\ new # u THEN t[v].followers \cup {u} ELSE t[v].followers
               m == IF v = u THEN t[v].messages \cup {Notice(u)} ELSE t[v].messages
    <3>1. f \in SUBSET Profiles /\ m \in SUBSET MessageType
      BY <1>1, <2>1 DEF GoodRows, RowType
    <3>2. Followed(t, u, new)[v] = [t[v] EXCEPT !.followers = f, !.messages = m]
      BY <2>1 DEF Followed, GoodRows, RowType
    <3> HIDE DEF f, m
    <3> QED BY <3>1, <3>2
  <2> QED BY <2>1, <2>2 DEF GoodRows, RowType
<1>3. DOMAIN Followed(t, u, new) = DOMAIN t
  BY DEF Followed
<1>4. Followed(t, u, new) \in [DOMAIN t -> GoodRows]
  BY <1>2, <1>3 DEF Followed
<1> QED BY <1>2, <1>3, <1>4 DEF IsTable

LEMMA PostTyped ==
  ASSUME NEW t, IsTable(t), NEW message \in MessageType, NEW to
  PROVE  /\ IsTable(Post(t, message, to)) /\ DOMAIN Post(t, message, to) = DOMAIN t
         /\ \A v \in DOMAIN t : Post(t, message, to)[v].sessions = t[v].sessions
<1>1. ASSUME NEW v \in DOMAIN t
      PROVE  /\ Post(t, message, to)[v] \in GoodRows
             /\ Post(t, message, to)[v].sessions = t[v].sessions
  <2>1. t[v] \in GoodRows
    BY DEF IsTable
  <2> QED BY <2>1 DEF Post, GoodRows, RowType
<1>2. DOMAIN Post(t, message, to) = DOMAIN t
  BY DEF Post
<1>3. Post(t, message, to) \in [DOMAIN t -> GoodRows]
  BY <1>1, <1>2 DEF Post
<1> QED BY <1>1, <1>2, <1>3 DEF IsTable

LEMMA FollowTypes ==
  ASSUME TypeInv, NEW p \in Ports, NEW new \in Profiles, Follow(p, new)
  PROVE  TypeInv'
<1> DEFINE u == thread[p].profile
           d == [type |-> "FOLLOW", profile |-> u, follow |-> new]
<1>1. /\ thread[p].pc = "run"
      /\ masterTable' = [masterTable EXCEPT ![primary] = Followed(@, u, new)]
      /\ Tell(p, "tell", d)
      /\ UNCHANGED <<alive, primary, isPrimary, backupServers, inbox, nextClientPort, loop, client,
                     sends, upToDate, kept>>
  BY DEF Follow, roles, net, history
<1>2. primary \in Servers /\ IsTable(Table) /\ u \in DOMAIN Table /\ u \in Profiles
  BY <1>1, RunningTypes
<1> HIDE DEF u
<1>3. d \in DatagramType
  BY <1>2 DEF DatagramType
<1> HIDE DEF d
<1>4. masterTable' = [masterTable EXCEPT ![primary] = Followed(Table, u, new)]
  BY <1>1, <1>2 DEF Table, TypeInv, Tables
<1>t. PICK t : t = Followed(Table, u, new)
  OBVIOUS
<1>s. /\ IsTable(t) /\ DOMAIN t = DOMAIN Table
      /\ \A v \in DOMAIN Table : t[v].sessions = Table[v].sessions
  BY <1>t, <1>2, FollowedTyped, Zenon
<1>m. masterTable' = [masterTable EXCEPT ![primary] = t] /\ UNCHANGED primary
  BY <1>1, <1>t, <1>4
<1>5. Tables' /\ Shrinks(Table, masterTable'[primary]) /\ DOMAIN Table \subseteq DOMAIN Table'
  BY <1>2, <1>s, <1>m, SameSessions
<1>6. Threads'
  BY <1>1, <1>3, <1>5, TellTyped
<1>7. LoopTyped'
  BY <1>1, <1>2, <1>5, LoopStays
<1> QED BY <1>1, <1>2, <1>5, <1>6, <1>7, TypesAssemble DEF TypeInv, StaticTypes

LEMMA SendTypes ==
  ASSUME TypeInv, NEW p \in Ports, Send(p)
  PROVE  TypeInv'
<1> DEFINE u == thread[p].profile
           message == [from |-> u, id |-> sends + 1]
           to == Table[u].followers \cap DOMAIN Table
           d == [type |-> "SEND", profile |-> u, message |-> message]
<1>1. /\ thread[p].pc = "run" /\ sends < MaxSends
      /\ masterTable' = [masterTable EXCEPT ![primary] = Post(@, message, to)]
      /\ Tell(p, "tell", d)
      /\ sends' = sends + 1
      /\ UNCHANGED <<alive, primary, isPrimary, backupServers, inbox, nextClientPort, loop, client,
                     upToDate>>
  BY DEF Send, roles, net
<1>k. kept' = [v \in Profiles |-> IF v \in to /\ Offline(primary, v) /\ ~Connecting(v)
                                  THEN kept[v] \cup {message} ELSE kept[v]]
  BY DEF Send
<1>2. primary \in Servers /\ IsTable(Table) /\ u \in DOMAIN Table /\ u \in Profiles
  BY <1>1, RunningTypes
<1> HIDE DEF u, to
<1>3. message \in MessageType /\ sends' \in 0 .. MaxSends
  BY <1>1, <1>2, ReplicationAssumption DEF MessageType, TypeInv, StaticTypes
<1>k1. kept' \in [Profiles -> SUBSET MessageType]
  <2> HIDE DEF message
  <2> QED BY <1>k, <1>3 DEF TypeInv, StaticTypes
<1> HIDE DEF message
<1>4. d \in DatagramType
  BY <1>2, <1>3 DEF DatagramType
<1> HIDE DEF d
<1>5. masterTable' = [masterTable EXCEPT ![primary] = Post(Table, message, to)]
  BY <1>1, <1>2 DEF Table, TypeInv, Tables
<1>t. PICK t : t = Post(Table, message, to)
  OBVIOUS
<1>s. /\ IsTable(t) /\ DOMAIN t = DOMAIN Table
      /\ \A v \in DOMAIN Table : t[v].sessions = Table[v].sessions
  BY <1>t, <1>2, <1>3, PostTyped, Zenon
<1>m. masterTable' = [masterTable EXCEPT ![primary] = t] /\ UNCHANGED primary
  BY <1>1, <1>t, <1>5
<1>6. Tables' /\ Shrinks(Table, masterTable'[primary]) /\ DOMAIN Table \subseteq DOMAIN Table'
  BY <1>2, <1>s, <1>m, SameSessions
<1>7. Threads'
  BY <1>1, <1>4, <1>6, TellTyped
<1>8. LoopTyped'
  BY <1>1, <1>2, <1>6, LoopStays
<1> QED BY <1>1, <1>2, <1>3, <1>k1, <1>6, <1>7, <1>8, TypesAssemble DEF TypeInv, StaticTypes

LEMMA ShrinksSame == \A t : Shrinks(t, t)
BY DEF Shrinks

LEMMA ExitTypes ==
  ASSUME TypeInv, NEW p \in Ports, Exit(p)
  PROVE  TypeInv'
<1> DEFINE d == [type |-> "DISCONNECT", profile |-> thread[p].profile, port |-> p]
<1>1. /\ thread[p].pc = "run" /\ Tell(p, "exit", d)
      /\ client' = [client EXCEPT ![p] = Nobody]
      /\ UNCHANGED <<alive, primary, isPrimary, backupServers, inbox, masterTable, nextClientPort,
                     loop, sends, upToDate, kept>>
  BY DEF Exit, roles, net, counts, history
<1>2. primary \in Servers /\ thread[p].profile \in Profiles
  BY <1>1, RunningTypes
<1>3. d \in DatagramType
  BY <1>2 DEF DatagramType
<1> HIDE DEF d
<1>4. Table' = Table /\ Shrinks(Table, masterTable'[primary]) /\ Tables'
  BY <1>1, ShrinksSame DEF Table, TypeInv, Tables
<1>5. Threads'
  BY <1>1, <1>3, <1>4, TellTyped
<1>6. LoopTyped'
  BY <1>1, <1>2, <1>4, LoopStays
<1>7. client' \in [Ports -> Profiles \cup {Nobody}]
  BY <1>1 DEF TypeInv, StaticTypes
<1> QED BY <1>1, <1>2, <1>4, <1>5, <1>6, <1>7, TypesAssemble DEF TypeInv, StaticTypes

LEMMA TellNextTypes ==
  ASSUME TypeInv, NEW p \in Ports, TellNext(p)
  PROVE  TypeInv'
<1>1. /\ thread[p].toTell # <<>>
      /\ SendTo(Head(thread[p].toTell), thread[p].datagram)
      /\ thread' = [thread EXCEPT ![p] =
                      IF Len(thread[p].toTell) = 1 /\ thread[p].pc = "tell"
                      THEN NewThread(thread[p].profile)
                      ELSE [thread[p] EXCEPT !.toTell = Tail(@)]]
      /\ UNCHANGED <<alive, primary, isPrimary, backupServers, masterTable, nextClientPort, loop,
                     client, sends, upToDate, kept>>
  BY DEF TellNext, roles, counts, history, TypeInv, Threads
<1>2. /\ primary \in Servers /\ thread[p].profile \in DOMAIN Table /\ thread[p].profile \in Profiles
      /\ thread[p] \in ThreadType
  BY <1>1, RunningTypes
<1>3. thread \in [Ports -> ThreadType] /\ ThreadTyped(thread[p])
  BY DEF TypeInv, Threads
<1>4. /\ thread[p].pc # "none" /\ thread[p].datagram \in DatagramType
      /\ thread[p].toTell \in Seq(Servers)
  BY <1>1, <1>2, <1>3 DEF ThreadTyped, ThreadType
<1>5. Head(thread[p].toTell) \in Servers /\ Tail(thread[p].toTell) \in Seq(Servers)
  BY <1>1, <1>4
<1>6. inbox' \in [Servers -> Seq(DatagramType)]
  BY <1>1, <1>4, <1>5, SendToTyped
<1>7. Table' = Table /\ Shrinks(Table, masterTable'[primary]) /\ Tables'
  BY <1>1, ShrinksSame DEF Table, TypeInv, Tables
<1>8. /\ thread' \in [Ports -> ThreadType] /\ \A q \in Ports \ {p} : thread'[q] = thread[q]
      /\ ThreadTyped(thread[p])'
  <2>1. CASE Len(thread[p].toTell) = 1 /\ thread[p].pc = "tell"
    <3>1. thread' = [thread EXCEPT ![p] = NewThread(thread[p].profile)]
      BY <1>1, <2>1
    <3>2. PICK u \in Profiles : u = thread[p].profile
      BY <1>2
    <3>3. thread'[p] = NewThread(u) /\ u \in DOMAIN Table'
      BY <1>2, <1>3, <1>7, <3>1, <3>2
    <3>4. ThreadTyped(thread[p])' /\ NewThread(u) \in ThreadType
      BY <3>3, NewThreadTyped
    <3> QED BY <1>3, <3>1, <3>2, <3>4
  <2>2. CASE ~(Len(thread[p].toTell) = 1 /\ thread[p].pc = "tell")
    <3> DEFINE new == [thread[p] EXCEPT !.toTell = Tail(@)]
    <3>1. thread' = [thread EXCEPT ![p] = new]
      BY <1>1, <2>2
    <3>2. /\ new \in ThreadType /\ new.pc = thread[p].pc /\ new.profile = thread[p].profile
          /\ new.datagram = thread[p].datagram
      BY <1>2, <1>5 DEF ThreadType
    <3> HIDE DEF new
    <3>3. thread'[p] = new /\ thread' \in [Ports -> ThreadType]
          /\ \A q \in Ports \ {p} : thread'[q] = thread[q]
      BY <1>3, <3>1, <3>2
    <3> QED BY <1>2, <1>4, <1>7, <3>2, <3>3 DEF ThreadTyped
  <2> QED BY <2>1, <2>2
<1>9. Threads'
  BY <1>7, <1>8, ThreadsStay
<1>10. LoopTyped'
  BY <1>1, <1>2, <1>7, LoopStays
<1> QED BY <1>1, <1>2, <1>6, <1>7, <1>9, <1>10, TypesAssemble DEF TypeInv, StaticTypes

LEMMA CloseSessionTypes ==
  ASSUME TypeInv, NEW p \in Ports, CloseSession(p)
  PROVE  TypeInv'
<1>u. PICK u : u = thread[p].profile
  OBVIOUS
<1> DEFINE new == [Table[u] EXCEPT !.sessions = RemoveFirst(@, p)]
<1>1. /\ thread[p].pc = "exit" /\ SetRow(primary, u, new)
      /\ thread' = [thread EXCEPT ![p] = NoThread]
      /\ UNCHANGED <<alive, primary, isPrimary, backupServers, inbox, nextClientPort, loop, client,
                     sends, upToDate, kept>>
  BY <1>u DEF CloseSession, roles, net, counts, history
<1>2. /\ primary \in Servers /\ IsTable(Table) /\ u \in DOMAIN Table /\ u \in Profiles
      /\ Table[u] \in GoodRows
  BY <1>u, <1>1, RunningTypes
<1>3. PICK q \in Seq(Ports) : q = Table[u].sessions /\ Len(q) <= MaxSessions
  BY <1>2 DEF GoodRows, RowType
<1>4. PICK r \in Seq(Ports) : r = RemoveFirst(q, p) /\ Len(r) <= MaxSessions
  BY <1>3, FewerSessions
<1>5. new \in GoodRows /\ new.sessions = RemoveFirst(Table[u].sessions, p)
  <2>1. [Table[u] EXCEPT !.sessions = r] \in GoodRows
    BY <1>2, <1>4, RowGood
  <2>2. DOMAIN Table[u] = {"sessions", "followers", "messages"}
    BY <1>2 DEF GoodRows, RowType
  <2> QED BY <1>3, <1>4, <2>1, <2>2
<1> HIDE DEF new
<1>6. /\ Tables'
      /\ DOMAIN masterTable'[primary] = DOMAIN masterTable[primary] \cup {u}
      /\ masterTable'[primary][u] = new
      /\ \A v \in DOMAIN masterTable[primary] \ {u} : masterTable'[primary][v] = masterTable[primary][v]
  BY <1>1, <1>2, <1>5, SetRowTyped DEF TypeInv
<1>7. Shrinks(Table, masterTable'[primary]) /\ DOMAIN Table \subseteq DOMAIN Table'
  BY <1>1, <1>5, <1>6 DEF Shrinks, Table
<1>8. LoopTyped'
  BY <1>1, <1>2, <1>7, LoopStays
<1>9. Threads'
  <2>1. thread \in [Ports -> ThreadType]
    BY DEF TypeInv, Threads
  <2>2. NoThread \in ThreadType /\ NoThread.pc = "none" /\ NoThread.toTell = <<>>
    <3>1. <<>> \in Seq(Servers)
      OBVIOUS
    <3> QED BY <3>1 DEF NoThread, ThreadType
  <2>3. /\ thread' \in [Ports -> ThreadType] /\ thread'[p] = NoThread
        /\ \A q2 \in Ports \ {p} : thread'[q2] = thread[q2]
    BY <1>1, <2>1, <2>2
  <2>4. ThreadTyped(thread[p])'
    BY <2>2, <2>3 DEF ThreadTyped
  <2> QED BY <1>7, <2>3, <2>4, ThreadsStay
<1> QED BY <1>1, <1>2, <1>6, <1>8, <1>9, TypesAssemble DEF TypeInv, StaticTypes

LEMMA ShowTypes ==
  ASSUME TypeInv, NEW p \in Ports, NEW message, Show(p, message)
  PROVE  TypeInv'
<1>u. PICK u : u = thread[p].profile
  OBVIOUS
<1> DEFINE new == [Table[u] EXCEPT !.messages = @ \ {message}]
<1>1. /\ thread[p].pc = "run" /\ SetRow(primary, u, new)
      /\ UNCHANGED <<alive, primary, isPrimary, backupServers, inbox, nextClientPort, loop, thread,
                     client, sends, upToDate, kept>>
  BY <1>u DEF Show, roles, net, counts, history
<1>2. /\ primary \in Servers /\ IsTable(Table) /\ u \in DOMAIN Table /\ u \in Profiles
      /\ Table[u] \in GoodRows
  BY <1>u, <1>1, RunningTypes
<1>5. new \in GoodRows /\ new.sessions = Table[u].sessions
  <2>1. Table[u].messages \ {message} \in SUBSET MessageType
    BY <1>2 DEF GoodRows, RowType
  <2> QED BY <1>2, <2>1, RowGood DEF GoodRows, RowType
<1> HIDE DEF new
<1>6. /\ Tables'
      /\ DOMAIN masterTable'[primary] = DOMAIN masterTable[primary] \cup {u}
      /\ masterTable'[primary][u] = new
      /\ \A v \in DOMAIN masterTable[primary] \ {u} : masterTable'[primary][v] = masterTable[primary][v]
  BY <1>1, <1>2, <1>5, SetRowTyped DEF TypeInv
<1>7. Shrinks(Table, masterTable'[primary]) /\ DOMAIN Table \subseteq DOMAIN Table'
  BY <1>1, <1>5, <1>6 DEF Shrinks, Table
<1>8. LoopTyped'
  BY <1>1, <1>2, <1>7, LoopStays
<1>9. Threads'
  BY <1>1, <1>7 DEF TypeInv, Threads, ThreadTyped
<1> QED BY <1>1, <1>2, <1>6, <1>8, <1>9, TypesAssemble DEF TypeInv, StaticTypes

-----------------------------------------------------------------------------
(* The steps of the others.                                                 *)

LEMMA PrimaryDiesTypes ==
  ASSUME TypeInv, primary # Nobody, PrimaryDies
  PROVE  TypeInv'
<1>1. /\ alive' = alive \ {primary} /\ primary' = Nobody /\ isPrimary' = FALSE
      /\ loop' = Rest /\ thread' = [p \in Ports |-> NoThread]
      /\ upToDate' \subseteq upToDate
      /\ masterTable' = [masterTable EXCEPT ![primary] = <<>>]
      /\ nextClientPort' = [nextClientPort EXCEPT ![primary] = FirstPort]
      /\ UNCHANGED <<backupServers, inbox, client, sends, kept>>
  BY DEF PrimaryDies, Forgets, net
<1>2. primary \in Servers
  BY Server
<1>3. Tables'
  BY <1>1, <1>2, EmptyTable, SetTable DEF TypeInv
<1>4. LoopTyped'
  BY <1>1, RestTyped
<1>5. Threads'
  <2>1. NoThread \in ThreadType /\ NoThread.pc = "none" /\ NoThread.toTell = <<>>
    <3>1. <<>> \in Seq(Servers)
      OBVIOUS
    <3> QED BY <3>1 DEF NoThread, ThreadType
  <2>2. thread' \in [Ports -> ThreadType] /\ \A p \in Ports : thread'[p] = NoThread
    BY <1>1, <2>1
  <2> QED BY <2>1, <2>2 DEF Threads, ThreadTyped
<1>6. /\ nextClientPort' \in [Servers -> Nat] /\ \A s \in Servers : nextClientPort'[s] >= FirstPort
  BY <1>1, <1>2, ReplicationAssumption DEF TypeInv, StaticTypes
<1>7. StaticTypes' /\ Idle'
  BY <1>1, <1>6 DEF TypeInv, StaticTypes, Idle
<1> QED BY <1>3, <1>4, <1>5, <1>7 DEF TypeInv

\* A step that leaves the primary and its table alone.
LEMMA PrimaryUntouched ==
  ASSUME TypeInv, UNCHANGED <<primary, loop, thread>>, StaticTypes', Tables',
         primary # Nobody => /\ masterTable'[primary] = masterTable[primary]
                             /\ nextClientPort'[primary] = nextClientPort[primary]
  PROVE  TypeInv'
<1>1. CASE primary = Nobody
  <2>1. loop' = Rest /\ \A p \in Ports : thread'[p] = NoThread
    BY <1>1 DEF TypeInv, Idle
  <2>2. NoThread.pc = "none" /\ NoThread.toTell = <<>>
    BY DEF NoThread
  <2>3. Threads'
    BY <2>1, <2>2 DEF TypeInv, Threads, ThreadTyped
  <2> QED BY <1>1, <2>1, <2>3, RestTyped DEF TypeInv, Idle
<1>2. CASE primary # Nobody
  <2>1. Table' = Table /\ primary \in Servers /\ Shrinks(Table, masterTable'[primary])
    BY <1>2, Server, ShrinksSame DEF Table
  <2>2. LoopTyped'
    BY <1>2, <2>1, LoopStays
  <2>3. Threads'
    BY <2>1 DEF TypeInv, Threads, ThreadTyped
  <2> QED BY <1>2, <2>2, <2>3 DEF TypeInv, Idle
<1> QED BY <1>1, <1>2

LEMMA BackupTypes ==
  ASSUME TypeInv, NEW b \in Servers, BackupStep(b)
  PROVE  TypeInv'
<1>k. PICK k : k = Datagram(b)
  OBVIOUS
<1>1. /\ b \in alive /\ b # primary /\ inbox[b] # <<>> /\ k.type \in {"CONNECT", "DISCONNECT", "FOLLOW", "SEND"}
      /\ inbox' = [inbox EXCEPT ![b] = Tail(@)]
      /\ UNCHANGED <<primary, isPrimary, backupServers, loop, thread, client, sends, kept>>
  BY <1>k DEF BackupStep, ReplicateConnect, ReplicateDisconnect, ReplicateFollow, ReplicateSend,
         Receives, Datagram, counts
<1>2. k \in DatagramType /\ Tail(inbox[b]) \in Seq(DatagramType)
  BY <1>1, <1>k DEF TypeInv, StaticTypes, Datagram
<1>3. inbox' \in [Servers -> Seq(DatagramType)]
  BY <1>1, <1>2 DEF TypeInv, StaticTypes
<1>4. k.profile \in Profiles
  BY <1>2 DEF DatagramType
<1>5. IsTable(masterTable[b]) /\ Tables
  BY DEF TypeInv, Tables
<1>row. ASSUME NEW u \in Profiles, NEW row \in GoodRows, SetRow(b, u, row)
        PROVE  Tables' /\ \A s \in Servers \ {b} : masterTable'[s] = masterTable[s]
  BY <1>5, <1>row, SetRowTyped
<1>table. ASSUME NEW t, IsTable(t), masterTable' = [masterTable EXCEPT ![b] = t]
          PROVE  Tables' /\ \A s \in Servers \ {b} : masterTable'[s] = masterTable[s]
  BY <1>5, <1>table, SetTable
<1>6. ASSUME UNCHANGED masterTable
      PROVE  Tables' /\ \A s \in Servers \ {b} : masterTable'[s] = masterTable[s]
  BY <1>5, <1>6 DEF Tables
<1>dies. ASSUME Dies(b)
         PROVE  Tables' /\ \A s \in Servers \ {b} : masterTable'[s] = masterTable[s]
  BY <1>dies, <1>table, EmptyTable DEF Dies, Forgets
<1>7. Tables' /\ \A s \in Servers \ {b} : masterTable'[s] = masterTable[s]
  <2>1. CASE ReplicateConnect(b)
    <3>1. CASE UNCHANGED masterTable
      BY <1>6, <3>1
    <3>2. CASE ~UNCHANGED masterTable
      <4>1. PICK row : row = RowOf(b, k.profile)
        OBVIOUS
      <4>2. /\ ~(Len(row.sessions) >= MaxSessions)
            /\ SetRow(b, k.profile, [row EXCEPT !.sessions = Append(@, k.port)])
            /\ k.type = "CONNECT"
        BY <1>k, <2>1, <3>2, <4>1 DEF ReplicateConnect, Receives, Datagram
      <4>3. row \in GoodRows /\ k.port \in Ports
        BY <1>2, <1>5, <4>1, <4>2, NewRowGood DEF RowOf, IsTable, DatagramType
      <4>4. PICK q \in Seq(Ports) : q = row.sessions
        BY <4>3 DEF GoodRows, RowType
      <4>5. Append(q, k.port) \in Seq(Ports) /\ Len(Append(q, k.port)) <= MaxSessions
        BY <4>2, <4>3, <4>4, ReplicationAssumption
      <4>6. [row EXCEPT !.sessions = Append(q, k.port)] \in GoodRows
        BY <4>3, <4>5, RowGood
      <4> QED BY <1>4, <1>row, <4>2, <4>4, <4>6
    <3> QED BY <3>1, <3>2
  <2>2. CASE ReplicateDisconnect(b)
    <3>1. \/ UNCHANGED masterTable \/ Dies(b)
          \/ /\ k.profile \in DOMAIN masterTable[b] /\ k.type = "DISCONNECT"
             /\ SetRow(b, k.profile, [masterTable[b][k.profile] EXCEPT
                                        !.sessions = RemoveFirst(@, k.port)])
      BY <1>k, <2>2 DEF ReplicateDisconnect, Receives, Datagram, NoRow
    <3>2. CASE /\ k.profile \in DOMAIN masterTable[b]
               /\ SetRow(b, k.profile, [masterTable[b][k.profile] EXCEPT
                                          !.sessions = RemoveFirst(@, k.port)])
      <4>1. PICK row \in GoodRows : row = masterTable[b][k.profile]
        BY <1>5, <3>2 DEF IsTable
      <4>2. PICK q \in Seq(Ports) : q = row.sessions /\ Len(q) <= MaxSessions
        BY <4>1 DEF GoodRows, RowType
      <4>3. PICK r \in Seq(Ports) : r = RemoveFirst(q, k.port) /\ Len(r) <= MaxSessions
        BY <4>2, FewerSessions
      <4>4. [row EXCEPT !.sessions = r] \in GoodRows
        BY <4>1, <4>3, RowGood
      <4>5. SetRow(b, k.profile, [row EXCEPT !.sessions = r])
        BY <3>2, <4>1, <4>2, <4>3
      <4> QED BY <1>4, <1>row, <4>4, <4>5
    <3> QED BY <1>6, <1>dies, <3>1, <3>2
  <2>3. CASE ReplicateFollow(b)
    <3>1. \/ UNCHANGED masterTable \/ Dies(b)
          \/ /\ k.follow \in DOMAIN masterTable[b]
             /\ SetRow(b, k.follow, [masterTable[b][k.follow] EXCEPT
                                       !.followers = @ \cup {k.profile}])
      BY <1>k, <2>3 DEF ReplicateFollow, Receives, Datagram, NoRow
    <3>2. CASE /\ k.follow \in DOMAIN masterTable[b]
               /\ SetRow(b, k.follow, [masterTable[b][k.follow] EXCEPT
                                         !.followers = @ \cup {k.profile}])
      <4>1. PICK row \in GoodRows : row = masterTable[b][k.follow]
        BY <1>5, <3>2 DEF IsTable
      <4>2. row.followers \cup {k.profile} \in SUBSET Profiles
        BY <1>4, <4>1 DEF GoodRows, RowType
      <4>3. [row EXCEPT !.followers = row.followers \cup {k.profile}] \in GoodRows
        BY <4>1, <4>2, RowGood
      <4>4. k.follow \in Profiles
        BY <1>5, <3>2 DEF IsTable
      <4>5. SetRow(b, k.follow, [row EXCEPT !.followers = row.followers \cup {k.profile}])
        BY <3>2, <4>1
      <4> QED BY <1>row, <4>3, <4>4, <4>5
    <3> QED BY <1>6, <1>dies, <3>1, <3>2
  <2>4. CASE ReplicateSend(b)
    <3>1. \/ UNCHANGED masterTable \/ Dies(b)
          \/ \E to : masterTable' = [masterTable EXCEPT ![b] = Post(@, k.message, to)]
      BY <1>k, <2>4 DEF ReplicateSend, Receives, Datagram, NoRow
    <3>2. ASSUME NEW to, masterTable' = [masterTable EXCEPT ![b] = Post(@, k.message, to)]
          PROVE  Tables' /\ \A s \in Servers \ {b} : masterTable'[s] = masterTable[s]
      <4>0. k.type = "SEND"
        BY <1>k, <2>4 DEF ReplicateSend, Receives, Datagram
      <4>1. k.message \in MessageType
        BY <1>2, <4>0 DEF DatagramType
      <4>2. PICK t : t = Post(masterTable[b], k.message, to)
        OBVIOUS
      <4>3. IsTable(t)
        BY <1>5, <4>1, <4>2, PostTyped, Zenon
      <4>4. masterTable' = [masterTable EXCEPT ![b] = t]
        BY <1>5, <3>2, <4>2 DEF Tables
      <4> QED BY <1>table, <4>3, <4>4
    <3> QED BY <1>6, <1>dies, <3>1, <3>2
  <2> QED BY <2>1, <2>2, <2>3, <2>4 DEF BackupStep
<1>8. /\ alive' \in {alive, alive \ {b}} /\ upToDate' \in {upToDate, upToDate \ {b}}
      /\ \/ UNCHANGED nextClientPort
         \/ nextClientPort' = [nextClientPort EXCEPT ![b] = @ + 1]
         \/ nextClientPort' = [nextClientPort EXCEPT ![b] = FirstPort]
  BY DEF BackupStep, ReplicateConnect, ReplicateDisconnect, ReplicateFollow, ReplicateSend,
         NoRow, Lives, Dies, Forgets
<1>9. /\ nextClientPort' \in [Servers -> Nat] /\ \A s \in Servers : nextClientPort'[s] >= FirstPort
      /\ \A s \in Servers \ {b} : nextClientPort'[s] = nextClientPort[s]
  <2>1. nextClientPort[b] + 1 \in Nat /\ nextClientPort[b] + 1 >= FirstPort
        /\ FirstPort \in Nat /\ FirstPort >= FirstPort
    BY ReplicationAssumption DEF TypeInv, StaticTypes
  <2>2. /\ nextClientPort \in [Servers -> Nat] /\ \A s \in Servers : nextClientPort[s] >= FirstPort
    BY DEF TypeInv, StaticTypes
  <2> QED BY <1>8, <2>1, <2>2
<1>10. StaticTypes'
  BY <1>1, <1>3, <1>8, <1>9 DEF TypeInv, StaticTypes
<1>11. primary # Nobody => primary \in Servers \ {b}
  BY <1>1, Server
<1> QED BY <1>1, <1>7, <1>9, <1>10, <1>11, PrimaryUntouched

LEMMA TakePortTypes ==
  ASSUME TypeInv, NEW b \in Servers, TakePort(b)
  PROVE  TypeInv'
<1>1. /\ primary = Nobody /\ b \in alive /\ primary' = b
      /\ inbox' = [inbox EXCEPT ![b] = <<>>]
      /\ upToDate' \in {upToDate, {}}
      /\ UNCHANGED <<alive, isPrimary, masterTable, nextClientPort, loop, thread, client, sends, kept>>
  BY DEF TakePort, counts
<1>2. backupServers' \in Seq(Servers)
  <2>1. PICK i \in DOMAIN backupServers : backupServers' = RemoveAt(backupServers, i)
    BY DEF TakePort
  <2> QED BY <2>1, RemoveAtIs DEF TypeInv, StaticTypes
<1>3. StaticTypes'
  <2>1. inbox' \in [Servers -> Seq(DatagramType)]
    <3>1. <<>> \in Seq(DatagramType)
      OBVIOUS
    <3> QED BY <1>1, <3>1 DEF TypeInv, StaticTypes
  <2> QED BY <1>1, <1>2, <2>1 DEF TypeInv, StaticTypes
<1>4. b # Nobody
  BY ReplicationAssumption
<1>5. loop' = Rest /\ \A p \in Ports : thread'[p] = NoThread
  BY <1>1 DEF TypeInv, Idle
<1>6. Threads'
  <2>1. NoThread.pc = "none" /\ NoThread.toTell = <<>>
    BY DEF NoThread
  <2> QED BY <1>1, <1>5, <2>1 DEF TypeInv, Threads, ThreadTyped
<1>7. Tables' /\ Idle'
  BY <1>1, <1>4 DEF TypeInv, Tables, Idle
<1> QED BY <1>3, <1>5, <1>6, <1>7, RestTyped DEF TypeInv

LEMMA JoinTypes ==
  ASSUME TypeInv, NEW b \in Servers, Join(b)
  PROVE  TypeInv'
<1>1. /\ primary # Nobody /\ b \notin alive
      /\ alive' = alive \cup {b} /\ backupServers' = Append(backupServers, b)
      /\ UNCHANGED <<primary, isPrimary, inbox, nextClientPort, loop, thread, client, sends,
                     upToDate, kept>>
  BY DEF Join, Serving, counts, history
<1>2. PICK rows \in SUBSET DOMAIN Table :
        masterTable' = [masterTable EXCEPT ![b] = [u \in rows |-> LoadedRow(Table[u].followers)]]
  BY DEF Join
<1>3. primary \in Servers /\ IsTable(Table) /\ primary # b
  BY <1>1, Server
<1>4. PICK t : t = [u \in rows |-> LoadedRow(Table[u].followers)]
  OBVIOUS
<1>5. IsTable(t)
  <2>1. rows \subseteq DOMAIN Table /\ rows \subseteq Profiles
    BY <1>3 DEF IsTable
  <2>2. ASSUME NEW u \in rows PROVE LoadedRow(Table[u].followers) \in GoodRows
    <3>1. Table[u].followers \in SUBSET Profiles
      BY <1>3, <2>1 DEF IsTable, GoodRows, RowType
    <3> QED BY <3>1, NewRowGood
  <2> QED BY <1>4, <2>1, <2>2 DEF IsTable
<1>6. Tables' /\ masterTable'[primary] = masterTable[primary]
  BY <1>2, <1>3, <1>4, <1>5, SetTable DEF TypeInv
<1>7. StaticTypes'
  BY <1>1 DEF TypeInv, StaticTypes
<1> QED BY <1>1, <1>6, <1>7, PrimaryUntouched

LEMMA TypesAtFirst == Init => TypeInv
<1> SUFFICES ASSUME Init PROVE TypeInv
  OBVIOUS
<1>1. /\ backupServers \in Seq(Servers \ {Primary}) /\ FirstPort \in Nat /\ Primary \in Servers
      /\ Primary # Nobody
  BY ReplicationAssumption DEF Init
<1>2. backupServers \in Seq(Servers) /\ ToSet(backupServers) \subseteq Servers
  <2>1. /\ DOMAIN backupServers = 1 .. Len(backupServers)
        /\ \A i \in DOMAIN backupServers : backupServers[i] \in Servers
        /\ backupServers \in Seq(Servers)
    BY <1>1
  <2> QED BY <2>1 DEF ToSet
<1>3. PICK file \in Files :
        masterTable = [s \in Servers |-> [u \in DOMAIN file |-> LoadedRow(file[u])]]
  BY DEF Init
<1>4. Tables
  <2>1. /\ DOMAIN file \subseteq Profiles /\ \A u \in DOMAIN file : file[u] \in SUBSET Profiles
    BY ReplicationAssumption
  <2>2. IsTable([u \in DOMAIN file |-> LoadedRow(file[u])])
    BY <2>1, NewRowGood DEF IsTable
  <2> QED BY <1>3, <2>2 DEF Tables, IsTable
<1>5. LoopTyped
  <2>1. /\ loop = Rest /\ Rest.pc = "receive" /\ Rest.toTell = <<>> /\ Rest \in LoopType
    <3>1. <<>> \in Seq(Servers) /\ <<>> \in Seq(Ports)
      OBVIOUS
    <3> QED BY <3>1 DEF Init, Rest, LoopType
  <2> QED BY <2>1 DEF LoopTyped
<1>6. Threads
  <2>1. NoThread \in ThreadType /\ NoThread.pc = "none" /\ NoThread.toTell = <<>>
    <3>1. <<>> \in Seq(Servers)
      OBVIOUS
    <3> QED BY <3>1 DEF NoThread, ThreadType
  <2>2. thread \in [Ports -> ThreadType] /\ \A p \in Ports : thread[p] = NoThread
    BY <2>1 DEF Init
  <2> QED BY <2>1, <2>2 DEF Threads, ThreadTyped
<1>7. StaticTypes
  <2>1. <<>> \in Seq(DatagramType) /\ MaxSends \in Nat
    BY ReplicationAssumption
  <2> QED BY <1>1, <1>2, <2>1 DEF Init, StaticTypes
<1> QED BY <1>1, <1>4, <1>5, <1>6, <1>7 DEF TypeInv, Idle, Init

LEMMA TypesStep ==
  ASSUME TypeInv, [Next]_vars
  PROVE  TypeInv'
<1>1. ASSUME LoopStep PROVE TypeInv'
  BY <1>1, ReceiveConnectTypes, ReopenUserTypes, TellConnectTypes, StartSessionTypes,
     BecomePrimaryTypes, ReopenSessionTypes, EnterPrimaryLoopTypes DEF LoopStep
<1>2. ASSUME NEW p \in Ports, ThreadStep(p) PROVE TypeInv'
  <2>1. CASE SendBlindly(p)
    <3>1. thread[p].pc # "none" /\ PrimaryDies
      BY <2>1 DEF SendBlindly
    <3> QED BY <3>1, Busy, PrimaryDiesTypes
  <2> QED BY <1>2, <2>1, FollowTypes, SendTypes, ExitTypes, TellNextTypes, CloseSessionTypes,
             ShowTypes DEF ThreadStep
<1>3. ASSUME NEW b \in Servers, BackupStep(b) \/ TakePort(b) \/ Join(b) PROVE TypeInv'
  BY <1>3, BackupTypes, TakePortTypes, JoinTypes
<1>4. ASSUME Crash \/ BindFails PROVE TypeInv'
  BY <1>4, Busy, PrimaryDiesTypes DEF Crash, BindFails
<1>5. ASSUME UNCHANGED vars PROVE TypeInv'
  BY <1>5 DEF TypeInv, StaticTypes, Tables, LoopTyped, Threads, ThreadTyped, Idle, Table,
              vars, roles, net, counts, history
<1> QED BY <1>1, <1>2, <1>3, <1>4, <1>5 DEF Next

\* Every variable has its type, and no server counts more sessions of a profile
\* than the limit, however the sessions that it opens again come and go.
THEOREM ReplicationTypes == Spec => []TypeOK
BY TypesAtFirst, TypesStep, TypeInvTypes, PTL DEF Spec
=============================================================================
