----------------------------- MODULE ClientProofs ------------------------------
(***************************************************************************)
(* The client sends the user's commands and shows the server's answers in  *)
(* order, for any numbers of lines and notifications.                      *)
(*                                                                         *)
(* The argument: what was sent, what waits in the queue and the line that  *)
(* is about to be put there are, one behind the other, all the commands    *)
(* that the user entered, and each step moves one of them over a border or *)
(* adds one behind the last. It is the same with the answers, among which  *)
(* there may be messages of the client's own.                              *)
(***************************************************************************)
EXTENDS Client, SequenceTheorems, TLAPS

Entering == IF ui.pc = "command" THEN <<ui.line>> ELSE <<>>
AllCommands ==
  ui.pc # "died" => InOrder(sent \o (commands \o Entering), typed, Commands(Len(typed)))

Numbered ==
  /\ \A i \in DOMAIN typed : typed[i].id = i
  /\ \A i \in DOMAIN answers : answers[i].id = i

Threads ==
  /\ ui.pc = "command" => ui.line \in Line
  /\ ui.pc = "died" => srv.pc = "died"
  /\ ExitSent => ~running

CommandInv == TypeOK /\ Numbered /\ Threads /\ AllCommands /\ CommandsInOrder

-----------------------------------------------------------------------------
(* Sequences whose items are in order.                                      *)

\* An item without a number changes nothing, wherever it is put or taken from.
LEMMA AroundUnnumbered ==
  ASSUME NEW T, NEW a \in Seq(T), NEW b \in Seq(T), NEW x \in T, x.id = 0, NEW all, NEW S, 0 \notin S
  PROVE  InOrder(a \o b, all, S) <=> InOrder(a \o (<<x>> \o b), all, S)
<1> DEFINE q == a \o b
           r == a \o (<<x>> \o b)
<1>1. /\ q \in Seq(T) /\ Len(q) = Len(a) + Len(b)
      /\ \A i \in 1 .. Len(a) + Len(b) : q[i] = IF i <= Len(a) THEN a[i] ELSE b[i - Len(a)]
  BY ConcatProperties
<1>2. /\ <<x>> \in Seq(T) /\ Len(<<x>>) = 1 /\ <<x>>[1] = x
  OBVIOUS
<1>3. /\ <<x>> \o b \in Seq(T) /\ Len(<<x>> \o b) = 1 + Len(b)
      /\ \A i \in 1 .. 1 + Len(b) : (<<x>> \o b)[i] = IF i <= 1 THEN x ELSE b[i - 1]
  BY <1>2, ConcatProperties
<1>4. /\ r \in Seq(T) /\ Len(r) = Len(a) + Len(<<x>> \o b)
      /\ \A i \in 1 .. Len(a) + Len(<<x>> \o b) :
           r[i] = IF i <= Len(a) THEN a[i] ELSE (<<x>> \o b)[i - Len(a)]
  BY <1>3, ConcatProperties
<1>5. Len(a) \in Nat /\ Len(b) \in Nat
  BY LenProperties
<1>6. /\ DOMAIN q = 1 .. Len(a) + Len(b)
      /\ DOMAIN r = 1 .. Len(a) + 1 + Len(b)
  BY <1>1, <1>3, <1>4, <1>5, LenProperties
<1>7. /\ \A i \in 1 .. Len(a) : r[i] = q[i]
      /\ r[Len(a) + 1] = x
      /\ \A i \in Len(a) + 1 .. Len(a) + Len(b) : r[i + 1] = q[i]
  <2>1. \A i \in 1 .. Len(a) : r[i] = q[i]
    BY <1>1, <1>3, <1>4, <1>5
  <2>2. r[Len(a) + 1] = x
    BY <1>3, <1>4, <1>5
  <2>3. ASSUME NEW i \in Len(a) + 1 .. Len(a) + Len(b)
        PROVE  r[i + 1] = q[i]
    <3>1. r[i + 1] = (<<x>> \o b)[i + 1 - Len(a)]
      BY <1>3, <1>4, <1>5
    <3>2. (<<x>> \o b)[i + 1 - Len(a)] = b[i - Len(a)]
      BY <1>3, <1>5
    <3> QED  BY <1>1, <1>5, <3>1, <3>2
  <2> QED  BY <2>1, <2>2, <2>3
<1> HIDE DEF q, r
<1>8. PICK n \in Nat : n = Len(a)
  BY <1>5
<1>9. PICK m \in Nat : m = Len(b)
  BY <1>5
<1>10. /\ \A i \in 1 .. n : r[i] = q[i]
       /\ r[n + 1].id = 0
       /\ \A i \in n + 1 .. n + m : r[i + 1] = q[i]
       /\ DOMAIN q = 1 .. n + m /\ DOMAIN r = 1 .. n + 1 + m
  BY <1>6, <1>7, <1>8, <1>9
<1>11. ASSUME InOrder(q, all, S) PROVE InOrder(r, all, S)
  <2>1. \A i \in DOMAIN r : r[i].id # 0 =>
           \E j \in DOMAIN q : /\ r[i] = q[j] /\ i = IF j <= n THEN j ELSE j + 1
    <3> SUFFICES ASSUME NEW i \in DOMAIN r, r[i].id # 0
                 PROVE  \E j \in DOMAIN q : r[i] = q[j] /\ i = IF j <= n THEN j ELSE j + 1
      OBVIOUS
    <3>1. CASE i <= n
      BY <3>1, <1>10
    <3>2. CASE i > n + 1
      <4>1. i - 1 \in n + 1 .. n + m /\ i - 1 \in DOMAIN q /\ r[i - 1 + 1] = q[i - 1]
        BY <3>2, <1>10
      <4>2. i - 1 + 1 = i
        BY <1>10
      <4> QED  BY <3>2, <4>1, <4>2
    <3> QED  BY <3>1, <3>2, <1>10
  <2>2. \A i \in DOMAIN r : r[i].id # 0 => r[i].id \in S /\ r[i] = all[r[i].id]
    BY <1>11, <2>1 DEF InOrder
  <2>3. ASSUME NEW i \in DOMAIN r, NEW j \in DOMAIN r, i < j, r[i].id # 0, r[j].id # 0
        PROVE  r[i].id < r[j].id
    <3>1. PICK k \in DOMAIN q : r[i] = q[k] /\ i = IF k <= n THEN k ELSE k + 1
      BY <1>10, <2>1, <2>3
    <3>2. PICK l \in DOMAIN q : r[j] = q[l] /\ j = IF l <= n THEN l ELSE l + 1
      BY <1>10, <2>1, <2>3
    <3>3. k < l
      BY <1>10, <2>3, <3>1, <3>2
    <3> QED  BY <1>11, <2>3, <3>1, <3>2, <3>3 DEF InOrder
  <2>4. ASSUME NEW k \in S PROVE \E i \in DOMAIN r : r[i].id = k
    <3>1. PICK i \in DOMAIN q : q[i].id = k
      BY <1>11 DEF InOrder
    <3>2. i \in 1 .. n \/ i \in n + 1 .. n + m
      BY <1>10
    <3>3. i + 1 \in DOMAIN r /\ i \in DOMAIN r
      BY <1>10
    <3> QED  BY <1>10, <3>1, <3>2, <3>3
  <2> QED  BY <2>2, <2>3, <2>4 DEF InOrder
<1>12. ASSUME InOrder(r, all, S) PROVE InOrder(q, all, S)
  <2>1. \A i \in DOMAIN q : \E j \in DOMAIN r : q[i] = r[j] /\ j = IF i <= n THEN i ELSE i + 1
    <3> SUFFICES ASSUME NEW i \in DOMAIN q
                 PROVE  \E j \in DOMAIN r : q[i] = r[j] /\ j = IF i <= n THEN i ELSE i + 1
      OBVIOUS
    <3>1. i \in 1 .. n + m /\ i \in DOMAIN r /\ i + 1 \in DOMAIN r
      BY <1>10
    <3> QED  BY <1>10, <3>1
  <2>2. \A i \in DOMAIN q : q[i].id # 0 => q[i].id \in S /\ q[i] = all[q[i].id]
    BY <1>12, <2>1 DEF InOrder
  <2>3. ASSUME NEW i \in DOMAIN q, NEW j \in DOMAIN q, i < j, q[i].id # 0, q[j].id # 0
        PROVE  q[i].id < q[j].id
    <3>1. PICK k \in DOMAIN r : q[i] = r[k] /\ k = IF i <= n THEN i ELSE i + 1
      BY <2>1
    <3>2. PICK l \in DOMAIN r : q[j] = r[l] /\ l = IF j <= n THEN j ELSE j + 1
      BY <2>1
    <3>3. k < l
      BY <1>10, <2>3, <3>1, <3>2
    <3> QED  BY <1>12, <2>3, <3>1, <3>2, <3>3 DEF InOrder
  <2>4. ASSUME NEW k \in S PROVE \E i \in DOMAIN q : q[i].id = k
    <3>1. PICK i \in DOMAIN r : r[i].id = k
      BY <1>12 DEF InOrder
    <3>2. CASE i <= n
      BY <1>10, <3>1, <3>2
    <3>3. CASE i > n + 1
      <4>1. i - 1 \in n + 1 .. n + m /\ r[i - 1 + 1] = q[i - 1]
        BY <1>10, <3>3
      <4>2. i - 1 + 1 = i
        BY <1>10
      <4> QED  BY <1>10, <3>1, <4>1, <4>2
    <3>4. i # n + 1
      BY <1>10, <2>4, <3>1
    <3> QED  BY <1>10, <3>2, <3>3, <3>4
  <2> QED  BY <2>2, <2>3, <2>4 DEF InOrder
<1> QED  BY <1>11, <1>12 DEF q, r

\* They stay in order when more follow in all, and when q gets the next of them.
LEMMA MoreToCome ==
  ASSUME NEW q, NEW all, NEW all2, NEW S, InOrder(q, all, S), \A k \in S : all2[k] = all[k]
  PROVE  InOrder(q, all2, S)
BY DEF InOrder

LEMMA NextBehind ==
  ASSUME NEW T, NEW q \in Seq(T), NEW all, NEW all2, NEW x \in T, NEW n \in Nat,
         NEW S \in SUBSET (1 .. n), InOrder(q, all, S), \A k \in S : all2[k] = all[k],
         x.id = n + 1, all2[n + 1] = x
  PROVE  InOrder(q \o <<x>>, all2, S \cup {n + 1})
<1> DEFINE r == q \o <<x>>
<1>1. /\ r \in Seq(T) /\ Len(r) = Len(q) + 1 /\ Len(q) \in Nat
      /\ \A i \in 1 .. Len(q) : r[i] = q[i]
      /\ r[Len(q) + 1] = x
  <2>1. <<x>> \in Seq(T) /\ Len(<<x>>) = 1 /\ <<x>>[1] = x
    OBVIOUS
  <2>2. /\ r \in Seq(T) /\ Len(r) = Len(q) + Len(<<x>>)
        /\ \A i \in 1 .. Len(q) + Len(<<x>>) :
             r[i] = IF i <= Len(q) THEN q[i] ELSE <<x>>[i - Len(q)]
    BY <2>1, ConcatProperties
  <2> QED  BY <2>1, <2>2, LenProperties
<1> HIDE DEF r
<1>2. DOMAIN r = 1 .. Len(q) + 1 /\ DOMAIN q = 1 .. Len(q)
  BY <1>1, LenProperties
<1>3. \A i \in DOMAIN q : i \in DOMAIN r /\ r[i] = q[i]
  BY <1>1, <1>2
<1>4. \A i \in DOMAIN r : i \in DOMAIN q \/ i = Len(q) + 1
  BY <1>1, <1>2
<1>5. Len(q) + 1 \in DOMAIN r
  BY <1>1, <1>2
<1>6. \A i \in DOMAIN r : r[i].id # 0 => r[i].id \in S \cup {n + 1} /\ r[i] = all2[r[i].id]
  <2>1. \A i \in DOMAIN q : q[i].id # 0 => q[i].id \in S /\ q[i] = all2[q[i].id]
    BY DEF InOrder
  <2>2. \A i \in DOMAIN q : r[i].id # 0 => r[i].id \in S \cup {n + 1} /\ r[i] = all2[r[i].id]
    BY <1>3, <2>1
  <2>3. r[Len(q) + 1].id \in S \cup {n + 1} /\ r[Len(q) + 1] = all2[r[Len(q) + 1].id]
    BY <1>1
  <2> QED  BY <1>4, <2>2, <2>3
<1>7. ASSUME NEW i \in DOMAIN r, NEW j \in DOMAIN r, i < j, r[i].id # 0, r[j].id # 0
      PROVE  r[i].id < r[j].id
  <2>1. i \in DOMAIN q
    BY <1>1, <1>2, <1>7
  <2>2. r[i] = q[i] /\ q[i].id \in S
    BY <1>3, <1>7, <2>1 DEF InOrder
  <2>3. CASE j \in DOMAIN q
    BY <1>3, <1>7, <2>1, <2>3 DEF InOrder
  <2>4. CASE j = Len(q) + 1
    <3>1. r[j].id = n + 1
      BY <1>1, <2>4
    <3>2. r[i].id \in 1 .. n
      BY <2>2
    <3> QED  BY <3>1, <3>2
  <2> QED  BY <1>4, <2>3, <2>4
<1>8. ASSUME NEW k \in S \cup {n + 1} PROVE \E i \in DOMAIN r : r[i].id = k
  <2>1. CASE k \in S
    <3>1. PICK i \in DOMAIN q : q[i].id = k
      BY <2>1 DEF InOrder
    <3> QED  BY <1>3, <3>1
  <2>2. CASE k = n + 1
    BY <1>1, <1>5, <2>2
  <2> QED  BY <2>1, <2>2
<1> QED  BY <1>6, <1>7, <1>8 DEF InOrder, r

\* What is in front holds the first of them.
LEMMA InFront ==
  ASSUME NEW T, NEW a \in Seq(T), NEW b \in Seq(T), NEW all, NEW n \in Nat,
         NEW S \in SUBSET (1 .. n), \A x \in T : x.id \in Nat \ {0},
         InOrder(a \o b, all, S), a # <<>>
  PROVE  InOrder(a, all, {k \in S : k <= a[Len(a)].id})
<1> DEFINE q == a \o b
           last == a[Len(a)].id
<1>1. /\ q \in Seq(T) /\ Len(q) = Len(a) + Len(b)
      /\ Len(a) \in Nat /\ Len(b) \in Nat /\ Len(a) # 0
      /\ \A i \in 1 .. Len(a) : q[i] = a[i]
  BY ConcatProperties, LenProperties, EmptySeq
<1>2. DOMAIN q = 1 .. Len(a) + Len(b) /\ DOMAIN a = 1 .. Len(a)
  BY <1>1, LenProperties
<1>3. /\ \A i \in DOMAIN q : q[i].id # 0 => q[i].id \in S /\ q[i] = all[q[i].id]
      /\ \A i, j \in DOMAIN q : i < j /\ q[i].id # 0 /\ q[j].id # 0 => q[i].id < q[j].id
      /\ \A k \in S : \E i \in DOMAIN q : q[i].id = k
  BY DEF InOrder
<1> HIDE DEF q
<1>4. \A i \in DOMAIN q : q[i].id \in Nat \ {0}
  BY <1>1, <1>2, ElementOfSeq
<1>5. \A i \in DOMAIN a : i \in DOMAIN q /\ a[i] = q[i]
  BY <1>1, <1>2
<1>6. Len(a) \in DOMAIN q /\ Len(a) \in DOMAIN a /\ last = q[Len(a)].id
  <2>1. Len(a) \in 1 .. Len(a) /\ Len(a) \in 1 .. Len(a) + Len(b)
    BY <1>1
  <2> QED  BY <1>1, <1>2, <2>1
<1>7. ASSUME NEW i \in DOMAIN a PROVE a[i].id \in S /\ a[i].id <= last /\ a[i] = all[a[i].id]
  <2>1. CASE i = Len(a)
    BY <1>3, <1>4, <1>5, <2>1
  <2>2. CASE i < Len(a)
    BY <1>3, <1>4, <1>5, <1>6, <2>2
  <2> QED  BY <1>1, <1>2, <2>1, <2>2
<1>8. \A i, j \in DOMAIN a : i < j /\ a[i].id # 0 /\ a[j].id # 0 => a[i].id < a[j].id
  BY <1>3, <1>5
<1>9. ASSUME NEW k \in S, k <= last PROVE \E i \in DOMAIN a : a[i].id = k
  <2>1. PICK i \in DOMAIN q : q[i].id = k
    BY <1>3
  <2>2. i <= Len(a)
    <3>1. SUFFICES ASSUME i > Len(a) PROVE FALSE
      BY <1>1, <1>2
    <3>2. last < q[i].id
      BY <1>3, <1>4, <1>6, <3>1
    <3> QED  BY <1>4, <1>6, <1>9, <2>1, <3>2
  <2> QED  BY <1>1, <1>2, <1>5, <2>1, <2>2
<1> QED  BY <1>7, <1>8, <1>9 DEF InOrder

\* The first and the rest.
LEMMA HeadBack ==
  ASSUME NEW T, NEW q \in Seq(T), q # <<>>
  PROVE  <<Head(q)>> \o Tail(q) = q
<1> DEFINE h == <<Head(q)>>
           t == Tail(q)
<1>1. h \in Seq(T) /\ t \in Seq(T) /\ Len(h) = 1 /\ h[1] = Head(q)
  BY HeadTailProperties
<1>2. /\ h \o t \in Seq(T) /\ Len(h \o t) = 1 + Len(t)
      /\ \A i \in 1 .. 1 + Len(t) : (h \o t)[i] = IF i <= 1 THEN h[i] ELSE t[i - 1]
  BY <1>1, ConcatProperties
<1>3. /\ Len(t) = Len(q) - 1 /\ Len(q) \in Nat \ {0} /\ Head(q) = q[1]
      /\ \A i \in 1 .. Len(t) : t[i] = q[i + 1]
  BY HeadTailProperties, EmptySeq
<1>4. Len(h \o t) = Len(q)
  BY <1>2, <1>3
<1> HIDE DEF h, t
<1>5. ASSUME NEW i \in 1 .. Len(q) PROVE (h \o t)[i] = q[i]
  <2>1. CASE i = 1
    <3>1. (h \o t)[1] = h[1]
      BY <1>2, <1>3
    <3> QED  BY <1>1, <1>3, <2>1, <3>1
  <2>2. CASE i > 1
    <3>1. i - 1 \in 1 .. Len(t) /\ (h \o t)[i] = t[i - 1]
      BY <1>2, <1>3, <2>2
    <3>2. t[i - 1] = q[i - 1 + 1] /\ i - 1 + 1 = i
      BY <1>3, <3>1
    <3> QED  BY <3>1, <3>2
  <2>3. Len(q) \in Nat
    BY <1>3
  <2>4. i = 1 \/ i > 1
    BY <2>3
  <2> QED  BY <2>1, <2>2, <2>4
<1>6. \A i \in 1 .. Len(h \o t) : (h \o t)[i] = q[i]
  BY <1>4, <1>5
<1>7. h \o t \in Seq(T)
  BY <1>2
<1> QED  BY <1>4, <1>6, <1>7, SeqEqual, Zenon DEF h, t

\* To take from one sequence and append to the one in front of it.
LEMMA MovedOver ==
  ASSUME NEW T, NEW a \in Seq(T), NEW q \in Seq(T), NEW b \in Seq(T), q # <<>>
  PROVE  a \o (q \o b) = Append(a, Head(q)) \o (Tail(q) \o b)
<1> DEFINE h == <<Head(q)>>
           t == Tail(q)
<1>1. h \in Seq(T) /\ t \in Seq(T) /\ Len(h) = 1 /\ h[1] = Head(q)
  BY HeadTailProperties
<1>2. h \o t = q
  BY HeadBack
<1>3. Append(a, Head(q)) = a \o h
  BY AppendIsConcat, HeadTailProperties
<1> HIDE DEF h, t
<1>4. t \o b \in Seq(T)
  BY <1>1, ConcatProperties
<1>5. (a \o h) \o (t \o b) = a \o (h \o (t \o b))
  BY <1>1, <1>4, ConcatAssociative, SMTT(60)
<1>6. (h \o t) \o b = h \o (t \o b)
  BY <1>1, ConcatAssociative, SMTT(60)
<1>7. a \o (q \o b) = (a \o h) \o (t \o b)
  BY <1>2, <1>5, <1>6
<1>8. a \o (q \o b) = Append(a, Head(q)) \o (t \o b)
  BY <1>3, <1>7, Zenon
<1> QED  BY <1>8, Zenon DEF t

-----------------------------------------------------------------------------
(* Types.                                                                   *)

LEMMA Sequences ==
  ASSUME NEW T
  PROVE  /\ <<>> \in Seq(T)
         /\ \A q \in Seq(T) : /\ DOMAIN q = 1 .. Len(q) /\ Len(q) \in Nat
                              /\ \A i \in DOMAIN q : q[i] \in T
                              /\ q # <<>> => /\ Head(q) \in T /\ Tail(q) \in Seq(T)
                                             /\ 1 \in DOMAIN q /\ Head(q) = q[1]
                              /\ \A x \in T : Append(q, x) \in Seq(T)
<1>1. ASSUME NEW q \in Seq(T)
      PROVE  /\ DOMAIN q = 1 .. Len(q) /\ Len(q) \in Nat
             /\ \A i \in DOMAIN q : q[i] \in T
             /\ q # <<>> => /\ Head(q) \in T /\ Tail(q) \in Seq(T)
                            /\ 1 \in DOMAIN q /\ Head(q) = q[1]
             /\ \A x \in T : Append(q, x) \in Seq(T)
  <2>1. DOMAIN q = 1 .. Len(q) /\ Len(q) \in Nat /\ \A i \in DOMAIN q : q[i] \in T
    BY LenProperties
  <2>2. ASSUME q # <<>> PROVE /\ Head(q) \in T /\ Tail(q) \in Seq(T)
                              /\ 1 \in DOMAIN q /\ Head(q) = q[1]
    BY <2>1, <2>2, HeadTailProperties, EmptySeq
  <2> QED  BY <2>1, <2>2, AppendProperties
<1> QED  BY <1>1

UIPcs == {"poll", "command", "invalid", "done", "died"}
SrvPcs == {"start", "connect", "await", "redirected", "refused", "leave", "loop", "listen", "push",
           "done", "died"}
NextPcs == {"start", "connect", "redirected", "refused", "leave", "listen", "loop"}

TypedUI == ui \in [pc : UIPcs, line : Line \cup {NoLine}]
TypedSrv == srv \in [pc : SrvPcs, item : ResponseType, next : NextPcs]
TypedQueues == /\ commands \in Seq(Line) /\ typed \in Seq(Line) /\ sent \in Seq(Line)
               /\ responses \in Seq(ResponseType) /\ shown \in Seq(ResponseType)
TypedNetwork == /\ toClient \in Seq(ResponseType) /\ answers \in Seq(ResponseType)
                /\ toServer \in Seq(DatagramType)
                /\ session \in {"none", "refused", "open", "joined", "closed"}
TypedFlags == running \in BOOLEAN /\ collided \in BOOLEAN

LEMMA TypeParts ==
  /\ TypeOK <=> TypedUI /\ TypedSrv /\ TypedQueues /\ TypedNetwork /\ TypedFlags
  /\ TypeOK' <=> TypedUI' /\ TypedSrv' /\ TypedQueues' /\ TypedNetwork' /\ TypedFlags'
BY DEF TypeOK, TypedUI, TypedSrv, TypedQueues, TypedNetwork, TypedFlags, UIPcs, SrvPcs, NextPcs

LEMMA Texts ==
  /\ \A text \in OwnTexts : Local(text) \in ResponseType
  /\ \A text \in ServerTexts, n \in Nat \ {0} :
       [from |-> "server", text |-> text, id |-> n] \in ResponseType
BY DEF Local, ResponseType

LEMMA PushedType ==
  ASSUME NEW item \in ResponseType, NEW next \in NextPcs, Push(item, next)
  PROVE  TypedSrv'
BY DEF Push, TypedSrv, SrvPcs

LEMMA SrvType ==
  ASSUME TypedSrv, NEW pc \in SrvPcs, Srv(pc)
  PROVE  TypedSrv'
BY DEF Srv, TypedSrv

LEMMA UIType ==
  ASSUME TypedUI, NEW pc \in UIPcs, UI(pc)
  PROVE  TypedUI'
BY DEF UI, TypedUI

LEMMA SameTypes ==
  /\ TypedUI /\ ui' = ui => TypedUI'
  /\ TypedSrv /\ srv' = srv => TypedSrv'
  /\ TypedQueues /\ UNCHANGED <<queues, typed, sent>> => TypedQueues'
  /\ TypedNetwork /\ UNCHANGED <<network, answers>> => TypedNetwork'
  /\ TypedFlags /\ UNCHANGED <<running, collided>> => TypedFlags'
BY DEF TypedUI, TypedSrv, TypedQueues, TypedNetwork, TypedFlags, queues, network

LEMMA TypeInit == Init => TypeOK
<1> SUFFICES ASSUME Init PROVE TypeOK
  OBVIOUS
<1>1. TypedUI /\ TypedFlags
  BY DEF Init, TypedUI, TypedFlags, UIPcs
<1>2. TypedSrv
  <2>1. Local("none") \in ResponseType
    BY Texts DEF OwnTexts
  <2> QED  BY <2>1 DEF Init, TypedSrv, SrvPcs, NextPcs
<1>3. TypedQueues /\ TypedNetwork
  BY Sequences DEF Init, TypedQueues, TypedNetwork
<1> QED  BY <1>1, <1>2, <1>3, TypeParts

LEMMA UITypes ==
  ASSUME TypeOK, Threads, UIStep \/ \E kind \in Kinds : EnterLine(kind)
  PROVE  TypeOK'
<1>1. TypedUI /\ TypedSrv /\ TypedQueues /\ TypedNetwork /\ TypedFlags
  BY TypeParts
<1>2. CASE ShowResponse
  <2>1. TypedQueues'
    <3>1. responses # <<>> /\ responses' = Tail(responses)
          /\ shown' \in {shown, Append(shown, Head(responses))}
          /\ UNCHANGED <<commands, typed, sent>>
      BY <1>2 DEF ShowResponse, history
    <3>2. responses \in Seq(ResponseType) /\ shown \in Seq(ResponseType)
      BY <1>1 DEF TypedQueues
    <3>3. responses' \in Seq(ResponseType) /\ shown' \in Seq(ResponseType)
      BY <3>1, <3>2, Sequences, SMTT(60)
    <3> QED  BY <1>1, <3>1, <3>3 DEF TypedQueues
  <2> QED  BY <1>1, <1>2, <2>1, SameTypes, TypeParts DEF ShowResponse, history
<1>3. CASE StopUI
  BY <1>1, <1>3, UIType, SameTypes, TypeParts DEF StopUI, history, UIPcs
<1>4. CASE PushCommand
  <2>1. ui.line \in Line /\ commands' = Append(commands, ui.line)
        /\ UNCHANGED <<responses, shown, typed, sent>>
    BY <1>4 DEF PushCommand, Threads, history
  <2>2. TypedQueues'
    BY <1>1, <2>1, Sequences DEF TypedQueues
  <2> QED  BY <1>1, <1>4, <2>2, UIType, SameTypes, TypeParts DEF PushCommand, history, UIPcs
<1>5. CASE PushInvalid
  <2>1. Local("invalid command") \in ResponseType
        /\ responses' = Append(responses, Local("invalid command"))
        /\ UNCHANGED <<commands, shown, typed, sent>>
    BY <1>5, Texts DEF OwnTexts, PushInvalid, history
  <2>2. TypedQueues'
    BY <1>1, <2>1, Sequences DEF TypedQueues
  <2> QED  BY <1>1, <1>5, <2>2, UIType, SameTypes, TypeParts DEF PushInvalid, history, UIPcs
<1>6. CASE \E kind \in Kinds : EnterLine(kind)
  <2>1. PICK kind \in Kinds : EnterLine(kind)
    BY <1>6
  <2>2. PICK line : line = [kind |-> kind, id |-> Len(typed) + 1]
    OBVIOUS
  <2>3. line \in Line
    <3>1. Len(typed) \in Nat /\ Len(typed) < MaxLines
      BY <1>1, <2>1, Sequences DEF EnterLine, TypedQueues
    <3> QED  BY <2>2, <3>1, ClientAssumption DEF Line
  <2>4. /\ typed' = Append(typed, line)
        /\ ui' = [pc |-> IF kind = "other" THEN "invalid" ELSE "command", line |-> line]
        /\ UNCHANGED <<commands, responses, shown, sent>>
    BY <2>1, <2>2 DEF EnterLine, queues
  <2>5. TypedQueues'
    BY <1>1, <2>3, <2>4, Sequences DEF TypedQueues
  <2>6. TypedUI'
    BY <2>3, <2>4 DEF TypedUI, UIPcs
  <2>7. UNCHANGED <<srv, running, network, answers, collided>>
    BY <2>1 DEF EnterLine
  <2> QED  BY <1>1, <2>5, <2>6, <2>7, SameTypes, TypeParts
<1> QED  BY <1>2, <1>3, <1>4, <1>5, <1>6 DEF UIStep

LEMMA SendTypes ==
  ASSUME TypedNetwork, NEW d \in DatagramType, toServer' = Append(toServer, d),
         UNCHANGED <<toClient, session, answers>>
  PROVE  TypedNetwork'
BY Sequences DEF TypedNetwork

LEMMA ReceiveTypes ==
  ASSUME TypedNetwork, toClient # <<>>, toClient' = Tail(toClient),
         UNCHANGED <<toServer, session, answers>>
  PROVE  TypedNetwork' /\ Head(toClient) \in ResponseType
BY Sequences DEF TypedNetwork

LEMMA DatagramTypes ==
  /\ [type |-> "CONNECT", id |-> 0] \in DatagramType
  /\ [type |-> "NOOP", id |-> 0] \in DatagramType
  /\ \A line \in Line, type \in {"FOLLOW", "SEND", "EXIT"} :
       [type |-> type, id |-> line.id] \in DatagramType
BY DEF DatagramType, Line

LEMMA ConnectTypes ==
  ASSUME TypeOK, ConnectStep
  PROVE  TypeOK'
<1>1. TypedUI /\ TypedSrv /\ TypedQueues /\ TypedNetwork /\ TypedFlags
  BY TypeParts
<1>2. CASE StartConnecting
  <2>1. TypedSrv'
    BY <1>2, Texts, PushedType DEF OwnTexts, StartConnecting, NextPcs
  <2> QED  BY <1>1, <1>2, <2>1, SameTypes, TypeParts DEF StartConnecting, history
<1>3. CASE SendConnect
  <2>1. TypedSrv'
    BY <1>1, <1>3, SrvType DEF SendConnect, SrvPcs
  <2>2. TypedNetwork'
    BY <1>1, <1>3, SendTypes, DatagramTypes DEF SendConnect, history
  <2> QED  BY <1>1, <1>3, <2>1, <2>2, SameTypes, TypeParts DEF SendConnect, history
<1>4. CASE ReceiveAnswer
  <2>1. TypedNetwork' /\ Head(toClient) \in ResponseType
    BY <1>1, <1>4, ReceiveTypes DEF ReceiveAnswer, history
  <2>2. TypedSrv'
    BY <1>4, <2>1, PushedType DEF ReceiveAnswer, NextPcs
  <2> QED  BY <1>1, <1>4, <2>1, <2>2, SameTypes, TypeParts DEF ReceiveAnswer, history
<1>5. CASE GiveUp
  <2>1. TypedSrv'
    BY <1>1, <1>5, SrvType DEF GiveUp, SrvPcs
  <2> QED  BY <1>1, <1>5, <2>1, SameTypes, TypeParts DEF GiveUp, history
<1>6. CASE Redirect
  <2>1. TypedSrv'
    BY <1>6, Texts, PushedType DEF OwnTexts, Redirect, NextPcs
  <2>2. TypedNetwork'
    BY <1>1, <1>6, SendTypes, DatagramTypes DEF Redirect, history
  <2> QED  BY <1>1, <1>6, <2>1, <2>2, SameTypes, TypeParts DEF Redirect, history
<1>7. CASE Refused
  <2>1. TypedSrv'
    BY <1>7, Texts, PushedType DEF OwnTexts, Refused, NextPcs
  <2> QED  BY <1>1, <1>7, <2>1, SameTypes, TypeParts DEF Refused, history
<1>8. CASE Leave
  <2>1. TypedSrv'
    BY <1>1, <1>8, SrvType DEF Leave, SrvPcs
  <2>2. TypedFlags'
    BY <1>1, <1>8 DEF Leave, history, TypedFlags
  <2> QED  BY <1>1, <1>8, <2>1, <2>2, SameTypes, TypeParts DEF Leave, history
<1> QED  BY <1>2, <1>3, <1>4, <1>5, <1>6, <1>7, <1>8 DEF ConnectStep

LEMMA PopTypes ==
  ASSUME TypeOK, NEW kind, PopThen(kind)
  PROVE  /\ TypedUI' /\ TypedQueues' /\ Head(commands) \in Line
         /\ UNCHANGED <<toClient, session, answers, collided>>
<1>1. TypedUI /\ TypedQueues
  BY TypeParts
<1>2. commands # <<>> /\ commands' = Tail(commands) /\ sent' = Append(sent, Head(commands))
      /\ UNCHANGED <<ui, responses, shown, toClient, session, typed, answers, collided>>
  BY DEF PopThen
<1>3. Head(commands) \in Line /\ Tail(commands) \in Seq(Line)
  BY <1>1, <1>2, Sequences DEF TypedQueues
<1>4. Append(sent, Head(commands)) \in Seq(Line)
  BY <1>1, <1>3, Sequences DEF TypedQueues
<1>5. TypedQueues'
  BY <1>1, <1>2, <1>3, <1>4 DEF TypedQueues
<1> QED  BY <1>1, <1>2, <1>3, <1>5, SameTypes

LEMMA DiesTypes ==
  ASSUME TypedUI, TypedSrv, Dies
  PROVE  TypedUI' /\ TypedSrv'
BY SrvType DEF Dies, TypedUI, UIPcs, SrvPcs

LEMMA PushResponseTypes ==
  ASSUME TypedSrv, TypedQueues, srv' = [pc |-> srv.next, item |-> Local("none"), next |-> "start"],
         NEW item \in ResponseType, responses' = Append(responses, item),
         UNCHANGED <<commands, shown, typed, sent>>
  PROVE  TypedSrv' /\ TypedQueues'
<1>1. srv.next \in SrvPcs /\ Local("none") \in ResponseType
  BY Texts DEF OwnTexts, TypedSrv, SrvPcs, NextPcs
<1>2. TypedSrv'
  BY <1>1 DEF TypedSrv, NextPcs
<1>3. responses' \in Seq(ResponseType)
  BY Sequences DEF TypedQueues
<1> QED  BY <1>2, <1>3 DEF TypedQueues

LEMMA ServeTypes ==
  ASSUME TypeOK, ServeStep \/ SendNoop \/ Collide
  PROVE  TypeOK'
<1>1. TypedUI /\ TypedSrv /\ TypedQueues /\ TypedNetwork /\ TypedFlags
  BY TypeParts
<1>2. CASE NoCommand
  <2>1. TypedSrv'
    BY <1>1, <1>2, SrvType DEF NoCommand, SrvPcs
  <2> QED  BY <1>1, <1>2, <2>1, SameTypes, TypeParts DEF NoCommand, history
<1>3. ASSUME NEW kind, NEW type \in {"FOLLOW", "SEND", "EXIT"}, PopThen(kind), Datagram(type),
             Srv("listen"), running' \in BOOLEAN
      PROVE  TypeOK'
  <2>1. TypedSrv'
    BY <1>1, <1>3, SrvType DEF SrvPcs
  <2>2. TypedUI' /\ TypedQueues' /\ Head(commands) \in Line
        /\ UNCHANGED <<toClient, session, answers, collided>>
    BY <1>3, PopTypes
  <2>3. TypedNetwork'
    BY <1>1, <1>3, <2>2, SendTypes, DatagramTypes DEF Datagram
  <2>4. TypedFlags'
    BY <1>1, <1>3, <2>2 DEF TypedFlags
  <2> QED  BY <2>1, <2>2, <2>3, <2>4, TypeParts
<1>4. CASE SendFollow \/ SendSend \/ SendExit
  BY <1>1, <1>3, <1>4 DEF SendFollow, SendSend, SendExit, TypedFlags
<1>5. CASE RefuseLong
  <2>1. TypedSrv'
    BY <1>5, Texts, PushedType DEF OwnTexts, RefuseLong, NextPcs
  <2>2. TypedUI' /\ TypedQueues' /\ UNCHANGED <<toClient, session, answers, collided>>
    BY <1>5, PopTypes DEF RefuseLong
  <2> QED  BY <1>1, <1>5, <2>1, <2>2, SameTypes, TypeParts DEF RefuseLong, network
<1>6. CASE ThrowBare
  BY <1>1, <1>6, DiesTypes, SameTypes, TypeParts DEF ThrowBare, history
<1>7. CASE Listen
  <2>1. TypedNetwork' /\ Head(toClient) \in ResponseType
    BY <1>1, <1>7, ReceiveTypes DEF Listen, history
  <2>2. TypedSrv'
    BY <1>7, <2>1, PushedType DEF Listen, NextPcs
  <2> QED  BY <1>1, <1>7, <2>1, <2>2, SameTypes, TypeParts DEF Listen, history
<1>8. CASE ListenTimesOut
  <2>1. TypedSrv'
    BY <1>1, <1>8, SrvType DEF ListenTimesOut, SrvPcs
  <2> QED  BY <1>1, <1>8, <2>1, SameTypes, TypeParts DEF ListenTimesOut, history
<1>9. CASE PushResponse
  <2>1. srv.item \in ResponseType
    BY <1>1 DEF TypedSrv
  <2>2. TypedSrv' /\ TypedQueues'
    BY <1>1, <1>9, <2>1, PushResponseTypes DEF PushResponse, history
  <2> QED  BY <1>1, <1>9, <2>2, SameTypes, TypeParts DEF PushResponse, history
<1>10. CASE SendNoop
  <2>1. TypedNetwork'
    BY <1>1, <1>10, SendTypes, DatagramTypes DEF SendNoop, history
  <2> QED  BY <1>1, <1>10, <2>1, SameTypes, TypeParts DEF SendNoop, history
<1>11. CASE Collide
  <2>1. UNCHANGED <<running, commands, shown, network, typed, sent, answers>> /\ collided' = TRUE
    BY <1>11 DEF Collide
  <2>2. TypedFlags'
    BY <1>1, <2>1 DEF TypedFlags
  <2>3. CASE Dies /\ UNCHANGED responses
    BY <1>1, <2>1, <2>2, <2>3, DiesTypes, SameTypes, TypeParts DEF queues
  <2>4. CASE /\ srv' = [pc |-> srv.next, item |-> Local("none"), next |-> "start"]
             /\ UI("poll")
             /\ \E item \in {srv.item, Local("invalid command")} :
                  responses' = Append(responses, item)
    <3>1. srv.item \in ResponseType /\ Local("invalid command") \in ResponseType
      BY <1>1, Texts DEF TypedSrv, OwnTexts
    <3>2. TypedSrv' /\ TypedQueues'
      BY <1>1, <2>1, <2>4, <3>1, PushResponseTypes
    <3>3. TypedUI'
      BY <1>1, <2>4, UIType DEF UIPcs
    <3> QED  BY <1>1, <2>1, <2>2, <3>2, <3>3, SameTypes, TypeParts
  <2> QED  BY <1>11, <2>3, <2>4 DEF Collide
<1> QED  BY <1>2, <1>4, <1>5, <1>6, <1>7, <1>8, <1>9, <1>10, <1>11 DEF ServeStep

LEMMA AnswerTypes ==
  ASSUME TypeOK, NEW text \in ServerTexts, Answer(text)
  PROVE  toClient' \in Seq(ResponseType) /\ answers' \in Seq(ResponseType)
<1>1. PICK answer : answer = [from |-> "server", text |-> text, id |-> Len(answers) + 1]
  OBVIOUS
<1>2. answers \in Seq(ResponseType) /\ toClient \in Seq(ResponseType)
  BY TypeParts DEF TypedNetwork
<1>3. answer \in ResponseType
  BY <1>1, <1>2, Sequences, Texts
<1>4. toClient' = Append(toClient, answer) /\ answers' = Append(answers, answer)
  BY <1>1 DEF Answer
<1> QED  BY <1>2, <1>3, <1>4, Sequences

LEMMA ServerTypes ==
  ASSUME TypeOK, ServerStep \/ Notify
  PROVE  TypeOK'
<1>1. TypedUI /\ TypedSrv /\ TypedQueues /\ TypedNetwork /\ TypedFlags
  BY TypeParts
<1>2. UNCHANGED <<ui, srv, running, queues, typed, sent, collided>>
  BY DEF ServerStep, AnswerConnect, AnswerSession, Arrives, Notify
<1>3. toServer' \in Seq(DatagramType)
  <2>1. toServer' = toServer \/ (toServer # <<>> /\ toServer' = Tail(toServer))
    BY DEF ServerStep, AnswerConnect, AnswerSession, Arrives, Notify
  <2>2. toServer \in Seq(DatagramType)
    BY <1>1 DEF TypedNetwork
  <2> QED  BY <2>1, <2>2, Sequences
<1>4. UNCHANGED <<toClient, answers>> \/ \E text \in ServerTexts : Answer(text)
  BY DEF ServerStep, AnswerConnect, AnswerSession, Notify, ServerTexts
<1>5. toClient' \in Seq(ResponseType) /\ answers' \in Seq(ResponseType)
  BY <1>1, <1>4, AnswerTypes DEF TypedNetwork
<1>6. session' \in {"none", "refused", "open", "joined", "closed"}
  BY <1>1 DEF ServerStep, AnswerConnect, AnswerSession, Notify, TypedNetwork
<1>7. TypedNetwork'
  BY <1>3, <1>5, <1>6 DEF TypedNetwork
<1> QED  BY <1>1, <1>2, <1>7, SameTypes, TypeParts

LEMMA TypeStep ==
  ASSUME TypeOK, Threads, [Next]_vars
  PROVE  TypeOK'
<1>1. CASE UNCHANGED vars
  BY <1>1, SameTypes, TypeParts DEF vars, history
<1> QED  BY <1>1, UITypes, ConnectTypes, ServeTypes, ServerTypes DEF Next

-----------------------------------------------------------------------------
(* The commands.                                                            *)

LEMMA SentInFront ==
  ASSUME NEW s \in Seq(Line), NEW b \in Seq(Line), NEW lines \in Seq(Line), NEW last,
         InOrder(s \o b, lines, {k \in 1 .. Len(lines) : lines[k].kind # "other"}),
         last = IF s = <<>> THEN 0 ELSE s[Len(s)].id
  PROVE  InOrder(s, lines, {k \in 1 .. last : lines[k].kind # "other"})
<1> DEFINE S == {k \in 1 .. Len(lines) : lines[k].kind # "other"}
<1>1. CASE s = <<>>
  BY <1>1 DEF InOrder
<1>2. CASE s # <<>>
  <2>1. Len(lines) \in Nat /\ Len(s) \in DOMAIN s /\ DOMAIN s = 1 .. Len(s)
    BY <1>2, EmptySeq, LenProperties
  <2>2. \A x \in Line : x.id \in Nat \ {0}
    BY DEF Line
  <2>3. InOrder(s, lines, {k \in S : k <= s[Len(s)].id})
    BY <1>2, <2>1, <2>2, InFront
  <2>4. last = s[Len(s)].id /\ s[Len(s)] \in Line /\ last \in S
    BY <1>2, <2>1, <2>2, <2>3, Sequences DEF InOrder
  <2>5. {k \in S : k <= last} = {k \in 1 .. last : lines[k].kind # "other"}
    BY <2>1, <2>4
  <2> QED  BY <2>3, <2>4, <2>5
<1> QED  BY <1>1, <1>2

LEMMA Waiting ==
  ASSUME TypeOK, Threads
  PROVE  /\ Entering \in Seq(Line) /\ commands \in Seq(Line) /\ typed \in Seq(Line)
         /\ sent \in Seq(Line) /\ commands \o Entering \in Seq(Line)
<1>1. Entering \in Seq(Line)
  BY DEF Entering, Threads
<1> QED  BY <1>1, TypeParts, ConcatProperties DEF TypedQueues

CommandPart == Threads /\ AllCommands /\ CommandsInOrder

\* A step that touches neither the user's lines nor the queue.
LEMMA NoCommandMoved ==
  ASSUME CommandPart, UNCHANGED <<commands, typed, sent>>,
         ui'.pc = "died" \/ (ui.pc # "died" /\ Entering' = Entering)
  PROVE  AllCommands' /\ CommandsInOrder'
<1>1. AllCommands'
  BY DEF CommandPart, AllCommands, Commands
<1>2. CommandsInOrder'
  BY DEF CommandPart, CommandsInOrder, LastSent, Commands
<1> QED  BY <1>1, <1>2

LEMMA NoUIMoved ==
  ASSUME CommandPart, UNCHANGED <<ui, commands, typed, sent>>
  PROVE  AllCommands' /\ CommandsInOrder'
<1>1. Entering' = Entering
  BY DEF Entering
<1> QED  BY <1>1, NoCommandMoved

LEMMA CommandPushed ==
  ASSUME TypeOK, CommandPart, PushCommand
  PROVE  AllCommands' /\ CommandsInOrder'
<1>1. /\ Entering = <<ui.line>> /\ Entering' = <<>>
      /\ commands' = Append(commands, ui.line) /\ UNCHANGED <<typed, sent>>
      /\ ui.line \in Line /\ ui.pc # "died"
  BY TypeParts DEF PushCommand, UI, Entering, CommandPart, Threads, TypedUI, history
<1>2. Append(commands, ui.line) = commands \o Entering
  BY <1>1, Waiting, AppendIsConcat DEF CommandPart
<1>3. commands' \o Entering' = commands \o Entering
  BY <1>1, <1>2, Waiting, ConcatEmptySeq DEF CommandPart
<1>4. AllCommands'
  BY <1>1, <1>3 DEF AllCommands, CommandPart, Commands
<1>5. CommandsInOrder'
  BY <1>1 DEF CommandsInOrder, CommandPart, Commands, LastSent
<1> QED  BY <1>4, <1>5

LEMMA LineEntered ==
  ASSUME TypeOK, Numbered, CommandPart, NEW kind \in Kinds, EnterLine(kind)
  PROVE  AllCommands' /\ CommandsInOrder' /\ \A i \in DOMAIN typed' : typed'[i].id = i
<1>1. PICK line : line = [kind |-> kind, id |-> Len(typed) + 1]
  OBVIOUS
<1>2. /\ ui.pc = "poll" /\ Len(typed) < MaxLines /\ typed' = Append(typed, line)
      /\ ui' = [pc |-> IF kind = "other" THEN "invalid" ELSE "command", line |-> line]
      /\ UNCHANGED <<commands, sent>>
  BY <1>1 DEF EnterLine, queues
<1>3. PICK n \in Nat : n = Len(typed)
  BY Waiting, Sequences DEF CommandPart
<1>4. line \in Line
  BY <1>1, <1>2, <1>3, ClientAssumption DEF Line
<1>5. /\ Len(typed') = n + 1 /\ typed'[n + 1] = line /\ \A i \in 1 .. n : typed'[i] = typed[i]
      /\ DOMAIN typed' = 1 .. n + 1 /\ DOMAIN typed = 1 .. n
  BY <1>2, <1>3, <1>4, Waiting, AppendProperties, LenProperties DEF CommandPart
<1>6. Entering = <<>>
  BY <1>2 DEF Entering
<1> DEFINE S == Commands(Len(typed))
           q == sent \o commands
<1>7. q \in Seq(Line) /\ InOrder(q, typed, S) /\ commands \o <<>> = commands
  BY <1>2, <1>6, Waiting, ConcatProperties, ConcatEmptySeq DEF CommandPart, AllCommands
<1>8. S \in SUBSET (1 .. n) /\ \A k \in S : typed'[k] = typed[k]
  BY <1>3, <1>5 DEF Commands
<1>9. AllCommands'
  <2>1. CASE kind = "other"
    <3>1. Entering' = <<>> /\ Commands(Len(typed))' = S
      BY <1>1, <1>2, <1>3, <1>5, <2>1 DEF Entering, Commands
    <3>2. InOrder(q, typed', S)
      BY <1>7, <1>8, MoreToCome
    <3> QED  BY <1>2, <1>7, <3>1, <3>2 DEF AllCommands
  <2>2. CASE kind # "other"
    <3>1. Entering' = <<line>>
      BY <1>2, <2>2 DEF Entering
    <3>2. Commands(Len(typed))' = S \cup {n + 1}
      BY <1>1, <1>3, <1>5, <2>2 DEF Commands
    <3>3. line.id = n + 1
      BY <1>1, <1>3
    <3>4. InOrder(q \o <<line>>, typed', S \cup {n + 1})
      <4> HIDE DEF S, q
      <4> QED  BY <1>4, <1>5, <1>7, <1>8, <3>3, NextBehind
    <3>5. q \o <<line>> = sent \o (commands \o <<line>>)
      <4>1. <<line>> \in Seq(Line)
        BY <1>4
      <4> QED  BY <4>1, Waiting, ConcatAssociative, SMTT(60) DEF CommandPart
    <3> QED  BY <1>2, <3>1, <3>2, <3>4, <3>5 DEF AllCommands
  <2> QED  BY <2>1, <2>2
<1>10. CommandsInOrder'
  <2>1. sent \o (commands \o Entering) = q
    BY <1>6, <1>7
  <2>2. PICK last : last = LastSent
    OBVIOUS
  <2>3. LastSent' = last
    BY <1>2, <2>2 DEF LastSent
  <2>4. InOrder(sent, typed, Commands(last))
    BY <2>2 DEF CommandPart, CommandsInOrder
  <2>5. last \in 0 .. n
    <3>1. CASE sent = <<>>
      BY <2>2, <3>1 DEF LastSent
    <3>2. CASE sent # <<>>
      <4>1. Len(sent) \in DOMAIN sent /\ sent[Len(sent)] \in Line
        BY <3>2, Waiting, EmptySeq, LenProperties, Sequences DEF CommandPart
      <4>2. Len(sent) \in DOMAIN q /\ q[Len(sent)] = sent[Len(sent)]
        BY <1>7, <4>1, Waiting, ConcatProperties, LenProperties DEF CommandPart
      <4>3. last \in S
        <5>1. q[Len(sent)].id # 0 /\ last = q[Len(sent)].id
          BY <2>2, <3>2, <4>1, <4>2 DEF LastSent, Line
        <5> HIDE DEF S, q
        <5> QED  BY <1>7, <4>2, <5>1 DEF InOrder
      <4> QED  BY <1>3, <1>8, <4>3
    <3> QED  BY <3>1, <3>2
  <2>6. Commands(LastSent)' = Commands(last)
    BY <1>5, <2>3, <2>5 DEF Commands
  <2>7. InOrder(sent, typed', Commands(last))
    BY <1>5, <2>4, <2>5, MoreToCome DEF Commands
  <2> QED  BY <1>2, <2>6, <2>7 DEF CommandPart, CommandsInOrder
<1> QED  BY <1>1, <1>3, <1>5, <1>9, <1>10 DEF Numbered

LEMMA CommandPopped ==
  ASSUME TypeOK, CommandPart, NEW kind, PopThen(kind), TypeOK', Threads', ~ExitSent
  PROVE  AllCommands' /\ CommandsInOrder'
<1>1. /\ commands # <<>> /\ commands' = Tail(commands) /\ sent' = Append(sent, Head(commands))
      /\ UNCHANGED <<ui, typed>>
      /\ srv.pc = "loop"
  BY DEF PopThen
<1>2. Entering' = Entering /\ ui.pc # "died"
  BY <1>1 DEF Entering, CommandPart, Threads
<1>3. sent' \o (commands' \o Entering') = sent \o (commands \o Entering)
  <2>1. sent \o (commands \o Entering) = Append(sent, Head(commands)) \o (Tail(commands) \o Entering)
    <3>1. Entering \in Seq(Line) /\ commands \in Seq(Line) /\ sent \in Seq(Line)
      BY Waiting DEF CommandPart
    <3>2. commands # <<>>
      BY <1>1
    <3> QED  BY <3>1, <3>2, MovedOver, SMTT(60)
  <2> QED  BY <1>1, <1>2, <2>1
<1>4. AllCommands'
  BY <1>1, <1>2, <1>3 DEF CommandPart, AllCommands, Commands
<1>5. /\ sent' \in Seq(Line) /\ typed' \in Seq(Line) /\ commands' \o Entering' \in Seq(Line)
  <2>1. Entering' \in Seq(Line)
    BY DEF Entering, Threads
  <2> QED  BY <2>1, TypeParts, ConcatProperties DEF TypedQueues
<1>6. InOrder(sent, typed, Commands(LastSent))'
  <2>1. PICK rest : rest = commands' \o Entering'
    OBVIOUS
  <2>2. PICK last : last = LastSent'
    OBVIOUS
  <2>3. last = IF sent' = <<>> THEN 0 ELSE sent'[Len(sent')].id
    BY <2>2 DEF LastSent
  <2>4. InOrder(sent' \o rest, typed', {k \in 1 .. Len(typed') : typed'[k].kind # "other"})
    BY <1>1, <1>2, <1>4, <2>1 DEF AllCommands, Commands
  <2>5. InOrder(sent', typed', {k \in 1 .. last : typed'[k].kind # "other"})
    BY <1>5, <2>1, <2>3, <2>4, SentInFront
  <2> QED  BY <2>2, <2>5 DEF Commands
<1>7. \A i \in DOMAIN sent' : sent'[i].kind = "exit" => i = Len(sent')
  <2>1. Head(commands) \in Line
    BY <1>1, Waiting, Sequences DEF CommandPart
  <2>2. /\ Len(sent') = Len(sent) + 1 /\ Len(sent) \in Nat /\ DOMAIN sent' = 1 .. Len(sent) + 1
        /\ DOMAIN sent = 1 .. Len(sent) /\ \A i \in 1 .. Len(sent) : sent'[i] = sent[i]
    BY <1>1, <2>1, Waiting, AppendProperties, LenProperties DEF CommandPart
  <2>3. \A i \in 1 .. Len(sent) : sent[i].kind # "exit"
    BY <2>2 DEF ExitSent
  <2> QED  BY <2>2, <2>3
<1> QED  BY <1>4, <1>6, <1>7 DEF CommandsInOrder

\* What becomes of the flag and of the threads.
LEMMA ThreadsStep ==
  ASSUME TypeOK, Threads, [Next]_vars, TypeOK'
  PROVE  Threads'
<1>1. \/ UNCHANGED ui /\ ui.pc # "died"
      \/ UNCHANGED <<ui, srv>>
      \/ \E kind \in Kinds : EnterLine(kind)
      \/ ui.pc # "died" /\ \E pc \in {"poll", "done"} : UI(pc)
      \/ Dies
  <2>1. CASE UNCHANGED vars
    BY <2>1 DEF vars
  <2>2. CASE UIStep
    <3>1. CASE ShowResponse
      BY <3>1 DEF ShowResponse
    <3>2. CASE StopUI \/ PushCommand \/ PushInvalid
      <4>1. ui.pc # "died" /\ (UI("done") \/ UI("poll"))
        BY <3>2 DEF StopUI, PushCommand, PushInvalid
      <4> QED  BY <4>1
    <3> QED  BY <2>2, <3>1, <3>2 DEF UIStep
  <2>3. CASE ConnectStep
    <3>1. UNCHANGED ui /\ srv.pc # "died"
      BY <2>3 DEF ConnectStep, StartConnecting, SendConnect, ReceiveAnswer, GiveUp, Redirect, Refused,
         Leave
    <3> QED  BY <3>1 DEF Threads
  <2>4. CASE ServeStep
    BY <2>4 DEF ServeStep, NoCommand, SendFollow, SendSend, RefuseLong, SendExit, PopThen,
       ThrowBare, Listen, ListenTimesOut, PushResponse, Threads
  <2>5. CASE SendNoop
    BY <2>5 DEF SendNoop
  <2>6. CASE Collide
    BY <2>6 DEF Collide, Threads
  <2>7. CASE ServerStep \/ Notify
    BY <2>7 DEF ServerStep, AnswerConnect, AnswerSession, Arrives, Notify
  <2> QED  BY <2>1, <2>2, <2>3, <2>4, <2>5, <2>6, <2>7 DEF Next
<1>2. /\ ui'.pc = "command" => ui'.line \in Line
      /\ ui'.pc = "died" => srv'.pc = "died"
  <2>1. TypedUI /\ TypedSrv /\ TypedUI'
    BY TypeParts
  <2>2. CASE \E kind \in Kinds : EnterLine(kind)
    <3>1. ui'.line # NoLine /\ ui'.pc # "died"
      BY <2>2 DEF EnterLine, Kinds, NoLine, Line
    <3> QED  BY <2>1, <3>1 DEF TypedUI
  <2>3. CASE \E pc \in {"poll", "done"} : UI(pc)
    BY <2>1, <2>3 DEF UI, TypedUI
  <2>4. CASE Dies
    BY <2>1, <2>4 DEF Dies, Srv, TypedUI, TypedSrv
  <2> QED  BY <1>1, <2>2, <2>3, <2>4 DEF Threads
<1>3. ExitSent' => ~running'
  <2>1. CASE UNCHANGED sent
    <3>1. running' \in {running, FALSE}
      BY <2>1, TypeParts DEF Next, vars, UIStep, ConnectStep, ServeStep, ServerStep, ShowResponse, StopUI,
         EnterLine, PushCommand, PushInvalid, StartConnecting, SendConnect, ReceiveAnswer, GiveUp,
         Redirect, Refused, Leave, NoCommand, SendFollow, SendSend, RefuseLong, SendExit,
         ThrowBare, Listen, ListenTimesOut, PushResponse, SendNoop, Collide, AnswerConnect,
         AnswerSession, Arrives, Notify
    <3> QED  BY <2>1, <3>1 DEF ExitSent, Threads
  <2>2. CASE \E kind \in Kinds : PopThen(kind) /\ (kind = "exit" => running' = FALSE)
    <3>1. PICK kind \in Kinds : PopThen(kind) /\ (kind = "exit" => running' = FALSE)
      BY <2>2
    <3>2. /\ running /\ commands # <<>> /\ Head(commands).kind = kind
          /\ sent' = Append(sent, Head(commands))
      BY <3>1 DEF PopThen
    <3>3. \A i \in DOMAIN sent : sent[i].kind # "exit"
      BY <3>2 DEF Threads, ExitSent
    <3>4. \A i \in DOMAIN sent' : (i \in DOMAIN sent /\ sent'[i] = sent[i]) \/ sent'[i].kind = kind
      <4>1. Head(commands) \in Line
        BY <3>2, Waiting, Sequences
      <4>2. /\ DOMAIN sent' = 1 .. Len(sent) + 1 /\ DOMAIN sent = 1 .. Len(sent)
            /\ Len(sent) \in Nat /\ sent'[Len(sent) + 1] = Head(commands)
            /\ \A i \in 1 .. Len(sent) : sent'[i] = sent[i]
        BY <3>2, <4>1, Waiting, AppendProperties, LenProperties
      <4>3. \A i \in DOMAIN sent' : i \in DOMAIN sent \/ i = Len(sent) + 1
        BY <4>2
      <4> QED  BY <3>2, <4>2, <4>3
    <3> QED  BY <3>1, <3>3, <3>4 DEF ExitSent
  <2>3. UNCHANGED sent \/ \E kind \in Kinds : PopThen(kind) /\ (kind = "exit" => running' = FALSE)
    BY DEF Next, vars, history, UIStep, ConnectStep, ServeStep, ServerStep, ShowResponse, StopUI,
       EnterLine, PushCommand, PushInvalid, StartConnecting, SendConnect, ReceiveAnswer, GiveUp,
       Redirect, Refused, Leave, NoCommand, SendFollow, SendSend, RefuseLong, SendExit, ThrowBare,
       Listen, ListenTimesOut, PushResponse, SendNoop, Collide, AnswerConnect, AnswerSession,
       Arrives, Notify, Kinds
  <2> QED  BY <2>1, <2>2, <2>3
<1> QED  BY <1>1, <1>2, <1>3 DEF Threads

-----------------------------------------------------------------------------
(* The answers.                                                             *)

\* Concatenation by a name, of which the provers are to know no more than this.
Cat(a, b) == a \o b

LEMMA CatClosed == \A s, r \in Seq(ResponseType) : Cat(s, r) \in Seq(ResponseType)
BY ConcatProperties DEF Cat

LEMMA CatAssoc ==
  \A s, r, t \in Seq(ResponseType) : Cat(Cat(s, r), t) = Cat(s, Cat(r, t))
BY ConcatAssociative, SMTT(60) DEF Cat

LEMMA CatNone == <<>> \in Seq(ResponseType) /\ \A s \in Seq(ResponseType) : Cat(s, <<>>) = s
BY ConcatEmptySeq DEF Cat

LEMMA CatOne ==
  /\ \A x \in ResponseType : <<x>> \in Seq(ResponseType)
  /\ \A s \in Seq(ResponseType), x \in ResponseType : Append(s, x) = Cat(s, <<x>>)
<1>1. \A x \in ResponseType : <<x>> \in Seq(ResponseType)
  OBVIOUS
<1>2. \A s \in Seq(ResponseType), x \in ResponseType : Append(s, x) = Cat(s, <<x>>)
  BY AppendIsConcat DEF Cat
<1> QED  BY <1>1, <1>2

LEMMA CatHead == \A r \in Seq(ResponseType) : r # <<>> => Cat(<<Head(r)>>, Tail(r)) = r
BY HeadBack DEF Cat

LEMMA CatAround ==
  \A all, S : \A s, t \in Seq(ResponseType), x \in ResponseType :
    x.id = 0 /\ 0 \notin S =>
      (InOrder(Cat(s, t), all, S) <=> InOrder(Cat(s, Cat(<<x>>, t)), all, S))
BY AroundUnnumbered DEF Cat

LEMMA CatNext ==
  \A all, next : \A q \in Seq(ResponseType), x \in ResponseType, n \in Nat :
    \A S \in SUBSET (1 .. n) :
      InOrder(q, all, S) /\ (\A k \in S : next[k] = all[k]) /\ x.id = n + 1 /\ next[n + 1] = x
        => InOrder(Cat(q, <<x>>), next, S \cup {n + 1})
BY NextBehind DEF Cat

Flow(s, r, p, t) == Cat(Cat(Cat(s, r), p), t)

LEMMA FlowSplit ==
  \A s, r, p, t \in Seq(ResponseType) : /\ Flow(s, r, p, t) = Cat(Cat(s, r), Cat(p, t))
                                        /\ Flow(s, r, p, t) = Cat(s, Cat(r, Cat(p, t)))
<1> SUFFICES ASSUME NEW s \in Seq(ResponseType), NEW r \in Seq(ResponseType),
                    NEW p \in Seq(ResponseType), NEW t \in Seq(ResponseType)
             PROVE  /\ Flow(s, r, p, t) = Cat(Cat(s, r), Cat(p, t))
                    /\ Flow(s, r, p, t) = Cat(s, Cat(r, Cat(p, t)))
  OBVIOUS
<1>1. PICK a \in Seq(ResponseType) : a = Cat(s, r)
  BY CatClosed
<1>2. PICK b \in Seq(ResponseType) : b = Cat(p, t)
  BY CatClosed
<1>3. Cat(Cat(a, p), t) = Cat(a, b)
  BY <1>2, CatAssoc
<1>4. Cat(a, b) = Cat(s, Cat(r, b))
  BY <1>1, CatAssoc
<1> QED  BY <1>1, <1>2, <1>3, <1>4 DEF Flow

\* Something of the client's own is put behind the responses, from either side.
LEMMA OwnBehind ==
  ASSUME NEW s \in Seq(ResponseType), NEW r \in Seq(ResponseType), NEW p \in Seq(ResponseType),
         NEW t \in Seq(ResponseType), NEW x \in ResponseType, x.id = 0, NEW all, NEW S, 0 \notin S,
         InOrder(Flow(s, r, p, t), all, S)
  PROVE  InOrder(Flow(s, Append(r, x), p, t), all, S)
<1>1. PICK a \in Seq(ResponseType) : a = Cat(s, r)
  BY CatClosed
<1>2. PICK b \in Seq(ResponseType) : b = Cat(p, t)
  BY CatClosed
<1>3. PICK one \in Seq(ResponseType) : one = <<x>>
  BY CatOne
<1>4. PICK q \in Seq(ResponseType) : q = Append(r, x) /\ q = Cat(r, one)
  BY <1>3, CatClosed, CatOne
<1>5. Flow(s, r, p, t) = Cat(a, b)
  BY <1>1, <1>2, FlowSplit
<1>6. Flow(s, q, p, t) = Cat(Cat(s, q), b)
  BY <1>2, FlowSplit
<1>7. Cat(s, q) = Cat(a, one)
  BY <1>1, <1>4, CatAssoc
<1>8. Cat(Cat(a, one), b) = Cat(a, Cat(one, b))
  BY CatAssoc
<1>9. InOrder(Cat(a, Cat(one, b)), all, S)
  BY <1>3, <1>5, CatAround
<1> QED  BY <1>4, <1>6, <1>7, <1>8, <1>9

\* The first of the responses moves on, or, when it is the client's own, is gone.
LEMMA Moved ==
  ASSUME NEW s \in Seq(ResponseType), NEW r \in Seq(ResponseType), NEW p \in Seq(ResponseType),
         NEW t \in Seq(ResponseType), r # <<>>, NEW all, NEW S, 0 \notin S
  PROVE  /\ Flow(s, r, p, t) = Flow(Append(s, Head(r)), Tail(r), p, t)
         /\ Head(r).id = 0 =>
              (InOrder(Flow(s, r, p, t), all, S) => InOrder(Flow(s, Tail(r), p, t), all, S))
<1>1. PICK x \in ResponseType : x = Head(r)
  BY Sequences
<1>2. PICK q \in Seq(ResponseType) : q = Tail(r)
  BY Sequences
<1>3. PICK one \in Seq(ResponseType) : one = <<x>>
  BY CatOne
<1>4. PICK b \in Seq(ResponseType) : b = Cat(p, t)
  BY CatClosed
<1>5. PICK c \in Seq(ResponseType) : c = Cat(q, b)
  BY CatClosed
<1>6. PICK a \in Seq(ResponseType) : a = Append(s, x) /\ a = Cat(s, one)
  BY <1>3, CatClosed, CatOne
<1>7. r = Cat(one, q)
  BY <1>1, <1>2, <1>3, CatHead
<1>8. Flow(s, r, p, t) = Cat(s, Cat(r, b))
  BY <1>4, FlowSplit
<1>9. Cat(r, b) = Cat(one, c)
  BY <1>5, <1>7, CatAssoc
<1>10. Cat(a, c) = Cat(s, Cat(one, c))
  BY <1>6, CatAssoc
<1>11. Flow(a, q, p, t) = Cat(a, c)
  BY <1>4, <1>5, FlowSplit
<1>12. Flow(s, q, p, t) = Cat(s, c)
  BY <1>4, <1>5, FlowSplit
<1>13. x.id = 0 => (InOrder(Cat(s, c), all, S) <=> InOrder(Cat(s, Cat(one, c)), all, S))
  BY <1>3, CatAround
<1> QED  BY <1>1, <1>2, <1>6, <1>8, <1>9, <1>10, <1>11, <1>12, <1>13

LEMMA Pushed ==
  ASSUME NEW s \in Seq(ResponseType), NEW r \in Seq(ResponseType), NEW x \in ResponseType,
         NEW t \in Seq(ResponseType)
  PROVE  Flow(s, r, <<x>>, t) = Flow(s, Append(r, x), <<>>, t)
<1>1. PICK one \in Seq(ResponseType) : one = <<x>>
  BY CatOne
<1>2. PICK q \in Seq(ResponseType) : q = Append(r, x) /\ q = Cat(r, one)
  BY <1>1, CatClosed, CatOne
<1>3. PICK a \in Seq(ResponseType) : a = Cat(s, q)
  BY CatClosed
<1>4. Cat(Cat(s, r), one) = a
  BY <1>2, <1>3, CatAssoc
<1>5. Cat(a, <<>>) = a
  BY CatNone
<1> QED  BY <1>1, <1>2, <1>3, <1>4, <1>5 DEF Flow

LEMMA Received ==
  ASSUME NEW s \in Seq(ResponseType), NEW r \in Seq(ResponseType), NEW t \in Seq(ResponseType),
         t # <<>>
  PROVE  Flow(s, r, <<>>, t) = Flow(s, r, <<Head(t)>>, Tail(t))
<1>1. PICK x \in ResponseType : x = Head(t)
  BY Sequences
<1>2. PICK q \in Seq(ResponseType) : q = Tail(t)
  BY Sequences
<1>3. PICK one \in Seq(ResponseType) : one = <<x>>
  BY CatOne
<1>4. PICK a \in Seq(ResponseType) : a = Cat(s, r)
  BY CatClosed
<1>5. t = Cat(one, q)
  BY <1>1, <1>2, <1>3, CatHead
<1>6. Cat(a, <<>>) = a
  BY CatNone
<1>7. Cat(Cat(a, one), q) = Cat(a, t)
  BY <1>5, CatAssoc
<1> QED  BY <1>1, <1>2, <1>3, <1>4, <1>6, <1>7 DEF Flow

LEMMA Sent ==
  ASSUME NEW s \in Seq(ResponseType), NEW r \in Seq(ResponseType), NEW p \in Seq(ResponseType),
         NEW t \in Seq(ResponseType), NEW x \in ResponseType
  PROVE  /\ Flow(s, r, p, Append(t, x)) = Flow(s, r, p, t) \o <<x>>
         /\ Flow(s, r, p, t) \in Seq(ResponseType)
<1>1. PICK one \in Seq(ResponseType) : one = <<x>> /\ Append(t, x) = Cat(t, one)
  BY CatOne
<1>2. PICK a \in Seq(ResponseType) : a = Cat(s, r)
  BY CatClosed
<1>3. PICK b \in Seq(ResponseType) : b = Cat(a, p)
  BY CatClosed
<1>4. Cat(b, Cat(t, one)) = Cat(Cat(b, t), one)
  BY CatAssoc
<1>5. Cat(b, t) \in Seq(ResponseType)
  BY CatClosed
<1>6. Cat(Cat(b, t), one) = Cat(b, t) \o <<x>>
  BY <1>1 DEF Cat
<1> QED  BY <1>1, <1>2, <1>3, <1>4, <1>5, <1>6 DEF Flow

InFlow(s, r, p, t, a) == InOrder(Flow(s, r, p, t), a, DOMAIN a)

LEMMA KeptAsFlow ==
  /\ AnswersKept <=> (~collided => InFlow(shown, responses, Pushing, toClient, answers))
  /\ AnswersKept' <=> (~collided' => InFlow(shown', responses', Pushing', toClient', answers'))
BY DEF AnswersKept, InFlow, Flow, Cat

LEMMA FlowTypes ==
  ASSUME TypeOK
  PROVE  /\ shown \in Seq(ResponseType) /\ responses \in Seq(ResponseType)
         /\ Pushing \in Seq(ResponseType) /\ toClient \in Seq(ResponseType)
         /\ answers \in Seq(ResponseType) /\ 0 \notin DOMAIN answers
<1>1. srv.item \in ResponseType
  BY TypeParts DEF TypedSrv
<1>2. Pushing \in Seq(ResponseType)
  BY <1>1 DEF Pushing
<1>3. answers \in Seq(ResponseType)
  BY TypeParts DEF TypedNetwork
<1>4. DOMAIN answers = 1 .. Len(answers)
  BY <1>3, Sequences
<1> QED  BY <1>2, <1>3, <1>4, TypeParts DEF TypedQueues, TypedNetwork

LEMMA OwnNumber ==
  /\ \A text : Local(text).id = 0
  /\ \A x \in ResponseType : x.from # "server" => x.id = 0
BY DEF Local, ResponseType

\* A step in which nothing moves, and one in which something of the client's own
\* is about to be pushed.
LEMMA NothingMoved ==
  ASSUME AnswersKept, UNCHANGED <<shown, responses, toClient, answers, collided>>,
         Pushing' = Pushing
  PROVE  AnswersKept'
BY KeptAsFlow

LEMMA OwnPushing ==
  ASSUME TypeOK, AnswersKept, srv.pc # "push", NEW text \in OwnTexts, NEW next,
         Push(Local(text), next), UNCHANGED <<shown, responses, toClient, answers, collided>>
  PROVE  AnswersKept'
<1> SUFFICES ASSUME ~collided, InFlow(shown, responses, Pushing, toClient, answers)
             PROVE  InFlow(shown', responses', Pushing', toClient', answers')
  BY KeptAsFlow
<1>1. PICK x \in ResponseType : x = Local(text) /\ x.id = 0
  BY Texts, OwnNumber
<1>2. Pushing = <<>> /\ Pushing' = <<x>>
  BY <1>1 DEF Push, Pushing
<1>3. InOrder(Flow(shown, Append(responses, x), <<>>, toClient), answers, DOMAIN answers)
  BY <1>1, <1>2, FlowTypes, OwnBehind, CatNone DEF InFlow
<1>4. Flow(shown, responses, <<x>>, toClient) = Flow(shown, Append(responses, x), <<>>, toClient)
  BY FlowTypes, Pushed
<1> QED  BY <1>2, <1>3, <1>4 DEF InFlow

LEMMA AnswerReceived ==
  ASSUME TypeOK, AnswersKept, srv.pc # "push", NEW next, toClient # <<>>,
         Push(Head(toClient), next), toClient' = Tail(toClient),
         UNCHANGED <<shown, responses, answers, collided>>
  PROVE  AnswersKept'
<1> SUFFICES ASSUME ~collided, InFlow(shown, responses, Pushing, toClient, answers)
             PROVE  InFlow(shown', responses', Pushing', toClient', answers')
  BY KeptAsFlow
<1>1. Pushing = <<>> /\ Pushing' = <<Head(toClient)>>
  BY DEF Push, Pushing
<1>2. Flow(shown, responses, <<>>, toClient)
        = Flow(shown, responses, <<Head(toClient)>>, Tail(toClient))
  BY FlowTypes, Received
<1> QED  BY <1>1, <1>2 DEF InFlow

LEMMA AnswerSent ==
  ASSUME TypeOK, Numbered, AnswersKept, NEW text \in ServerTexts, Answer(text),
         UNCHANGED <<srv, shown, responses, collided>>
  PROVE  AnswersKept' /\ \A i \in DOMAIN answers' : answers'[i].id = i
<1>1. PICK n \in Nat : n = Len(answers)
  BY FlowTypes, Sequences
<1>2. PICK x \in ResponseType :
        x.id = n + 1 /\ toClient' = Append(toClient, x) /\ answers' = Append(answers, x)
  <2>1. PICK x : x = [from |-> "server", text |-> text, id |-> n + 1]
    OBVIOUS
  <2>2. x \in ResponseType /\ x.id = n + 1
    BY <2>1, Texts
  <2>3. toClient' = Append(toClient, x) /\ answers' = Append(answers, x)
    BY <1>1, <2>1 DEF Answer
  <2> QED  BY <2>2, <2>3
<1>3. /\ DOMAIN answers = 1 .. n /\ DOMAIN answers' = 1 .. n + 1 /\ answers'[n + 1] = x
      /\ \A i \in 1 .. n : answers'[i] = answers[i]
  BY <1>1, <1>2, FlowTypes, AppendProperties, LenProperties
<1>4. ASSUME ~collided, InFlow(shown, responses, Pushing, toClient, answers)
      PROVE  InFlow(shown', responses', Pushing', toClient', answers')
  <2>1. PICK q \in Seq(ResponseType) : q = Flow(shown, responses, Pushing, toClient)
    BY <1>2, FlowTypes, Sent
  <2>2. Flow(shown, responses, Pushing, Append(toClient, x)) = q \o <<x>>
    BY <2>1, FlowTypes, Sent
  <2>3. PICK S \in SUBSET (1 .. n) : S = DOMAIN answers
    BY <1>3
  <2>4. PICK next : next = answers'
    OBVIOUS
  <2>5. InOrder(q, answers, S)
    BY <1>4, <2>1, <2>3 DEF InFlow
  <2>6. (\A k \in S : next[k] = answers[k]) /\ next[n + 1] = x
    BY <1>3, <2>3, <2>4
  <2>7. InOrder(q \o <<x>>, next, S \cup {n + 1})
    <3>1. x.id = n + 1
      BY <1>2
    <3>2. \A k \in S : next[k] = answers[k]
      BY <2>6
    <3>3. next[n + 1] = x
      BY <2>6
    <3> QED  BY <2>5, <3>1, <3>2, <3>3, CatNext DEF Cat
  <2>8. DOMAIN next = S \cup {n + 1}
    BY <1>3, <2>3, <2>4
  <2>9. Pushing' = Pushing
    BY DEF Pushing
  <2> QED  BY <1>2, <2>2, <2>4, <2>7, <2>8, <2>9 DEF InFlow
<1>5. \A i \in DOMAIN answers' : answers'[i].id = i
  <2>1. \A i \in 1 .. n : answers'[i].id = i
    BY <1>3 DEF Numbered
  <2> QED  BY <1>2, <1>3, <2>1
<1> QED  BY <1>4, <1>5, KeptAsFlow

\* The queue's own two ends.
LEMMA ResponseMoved ==
  ASSUME TypeOK, AnswersKept, ShowResponse \/ PushInvalid \/ PushResponse
  PROVE  AnswersKept'
<1>1. UNCHANGED <<toClient, answers, collided>>
  BY DEF ShowResponse, PushInvalid, PushResponse, network, history
<1> SUFFICES ASSUME ~collided, InFlow(shown, responses, Pushing, toClient, answers)
             PROVE  InFlow(shown', responses', Pushing', toClient', answers')
  BY <1>1, KeptAsFlow
<1>2. CASE ShowResponse
  <2>1. responses # <<>> /\ responses' = Tail(responses) /\ UNCHANGED srv
    BY <1>2 DEF ShowResponse
  <2>2. PICK x \in ResponseType : x = Head(responses)
    BY <2>1, FlowTypes, Sequences
  <2>3. Pushing' = Pushing
    BY <2>1 DEF Pushing
  <2>4. CASE x.from = "server"
    <3>1. shown' = Append(shown, Head(responses))
      BY <1>2, <2>2, <2>4 DEF ShowResponse
    <3>2. /\ Flow(shown, responses, Pushing, toClient)
                = Flow(Append(shown, Head(responses)), Tail(responses), Pushing, toClient)
          /\ Head(responses).id = 0 =>
               (InOrder(Flow(shown, responses, Pushing, toClient), answers, DOMAIN answers) =>
                  InOrder(Flow(shown, Tail(responses), Pushing, toClient), answers, DOMAIN answers))
      BY <2>1, FlowTypes, Moved
    <3> QED  BY <1>1, <2>1, <2>3, <3>1, <3>2 DEF InFlow
  <2>5. CASE x.from # "server"
    <3>1. shown' = shown /\ Head(responses).id = 0
      BY <1>2, <2>2, <2>5, OwnNumber DEF ShowResponse
    <3>2. InOrder(Flow(shown, Tail(responses), Pushing, toClient), answers, DOMAIN answers)
      BY <2>1, <3>1, FlowTypes, Moved DEF InFlow
    <3> QED  BY <1>1, <2>1, <2>3, <3>1, <3>2 DEF InFlow
  <2> QED  BY <2>4, <2>5
<1>3. CASE PushInvalid
  <2>1. PICK x \in ResponseType : x = Local("invalid command") /\ x.id = 0
    BY Texts, OwnNumber DEF OwnTexts
  <2>2. responses' = Append(responses, x) /\ UNCHANGED <<srv, shown>>
    BY <1>3, <2>1 DEF PushInvalid
  <2>3. Pushing' = Pushing
    BY <2>2 DEF Pushing
  <2>4. InOrder(Flow(shown, Append(responses, x), Pushing, toClient), answers, DOMAIN answers)
    BY <2>1, FlowTypes, OwnBehind DEF InFlow
  <2> QED  BY <1>1, <2>2, <2>3, <2>4 DEF InFlow
<1>4. CASE PushResponse
  <2>1. srv.item \in ResponseType /\ srv.next # "push"
    BY TypeParts DEF TypedSrv, NextPcs
  <2>2. responses' = Append(responses, srv.item) /\ UNCHANGED shown
        /\ Pushing = <<srv.item>> /\ Pushing' = <<>>
    BY <1>4, <2>1 DEF PushResponse, Pushing
  <2>3. Flow(shown, responses, <<srv.item>>, toClient)
          = Flow(shown, Append(responses, srv.item), <<>>, toClient)
    BY <2>1, FlowTypes, Pushed
  <2> QED  BY <1>1, <2>2, <2>3 DEF InFlow
<1> QED  BY <1>2, <1>3, <1>4

LEMMA KeptStep ==
  ASSUME TypeOK, Numbered, AnswersKept, [Next]_vars
  PROVE  AnswersKept' /\ \A i \in DOMAIN answers' : answers'[i].id = i
<1>1. CASE UNCHANGED vars
  <2>1. Pushing' = Pushing
    BY <1>1 DEF vars, Pushing
  <2> QED  BY <1>1, <2>1, NothingMoved DEF vars, queues, network, history, Numbered
<1>2. CASE UIStep \/ \E kind \in Kinds : EnterLine(kind)
  <2>1. UNCHANGED <<srv, answers, toClient, collided>>
    BY <1>2 DEF UIStep, ShowResponse, StopUI, PushCommand, PushInvalid, EnterLine, network, history
  <2>2. Pushing' = Pushing
    BY <2>1 DEF Pushing
  <2>3. CASE ~ShowResponse /\ ~PushInvalid
    <3>1. UNCHANGED <<shown, responses>>
      BY <1>2, <2>3 DEF UIStep, StopUI, PushCommand, EnterLine, queues
    <3> QED  BY <2>1, <2>2, <3>1, NothingMoved DEF Numbered
  <2> QED  BY <2>1, <2>3, ResponseMoved DEF Numbered
<1>3. CASE ConnectStep
  <2>1. UNCHANGED <<shown, responses, answers, collided>>
    BY <1>3 DEF ConnectStep, StartConnecting, SendConnect, ReceiveAnswer, GiveUp, Redirect, Refused,
       Leave, queues, history
  <2>2. CASE SendConnect \/ GiveUp \/ Leave
    <3>1. Pushing' = Pushing /\ UNCHANGED toClient
      BY <2>2, TypeParts DEF SendConnect, GiveUp, Leave, Srv, Pushing, network, TypedSrv
    <3> QED  BY <2>1, <3>1, NothingMoved DEF Numbered
  <2>3. CASE StartConnecting \/ Redirect \/ Refused
    <3>1. /\ srv.pc # "push" /\ UNCHANGED toClient
          /\ \E text \in OwnTexts, next \in NextPcs : Push(Local(text), next)
      BY <2>3 DEF StartConnecting, Redirect, Refused, network, OwnTexts, NextPcs
    <3> QED  BY <2>1, <3>1, OwnPushing DEF Numbered
  <2>4. CASE ReceiveAnswer
    <3>1. AnswersKept'
      BY <2>1, <2>4, AnswerReceived DEF ReceiveAnswer
    <3> QED  BY <2>1, <3>1 DEF Numbered
  <2> QED  BY <1>3, <2>2, <2>3, <2>4 DEF ConnectStep
<1>4. CASE ServeStep \/ SendNoop
  <2>1. UNCHANGED <<answers, collided>>
    BY <1>4 DEF ServeStep, NoCommand, SendFollow, SendSend, RefuseLong, SendExit, PopThen, ThrowBare,
       Listen, ListenTimesOut, PushResponse, SendNoop, history
  <2>2. CASE PushResponse
    BY <2>1, <2>2, ResponseMoved DEF Numbered
  <2>3. CASE Listen
    <3>1. AnswersKept'
      BY <2>1, <2>3, AnswerReceived DEF Listen, queues
    <3> QED  BY <2>1, <3>1 DEF Numbered
  <2>4. CASE RefuseLong
    <3>1. /\ srv.pc # "push" /\ UNCHANGED <<toClient, shown, responses>>
          /\ Push(Local("Message too long"), "listen") /\ "Message too long" \in OwnTexts
      BY <2>4 DEF RefuseLong, PopThen, OwnTexts
    <3>2. AnswersKept'
      BY <2>1, <3>1, OwnPushing
    <3> QED  BY <2>1, <3>2 DEF Numbered
  <2>5. CASE \/ NoCommand \/ SendFollow \/ SendSend \/ SendExit \/ ThrowBare \/ ListenTimesOut
             \/ SendNoop
    <3>1. UNCHANGED <<shown, responses, toClient>>
      BY <2>5 DEF NoCommand, SendFollow, SendSend, SendExit, PopThen, ThrowBare, ListenTimesOut,
         SendNoop, queues, network
    <3>2. srv.pc # "push" /\ (srv' = srv \/ \E pc \in {"listen", "done", "died", "loop"} : Srv(pc))
      BY <2>5 DEF NoCommand, SendFollow, SendSend, SendExit, PopThen, ThrowBare, Dies,
         ListenTimesOut, SendNoop
    <3>3. Pushing' = Pushing
      BY <3>2, TypeParts DEF Pushing, Srv, TypedSrv
    <3> QED  BY <2>1, <3>1, <3>3, NothingMoved DEF Numbered
  <2> QED  BY <1>4, <2>2, <2>3, <2>4, <2>5 DEF ServeStep
<1>5. CASE Collide
  BY <1>5, KeptAsFlow DEF Collide, Numbered
<1>6. CASE ServerStep \/ Notify
  <2>1. UNCHANGED <<srv, shown, responses, collided>>
    BY <1>6 DEF ServerStep, AnswerConnect, AnswerSession, Arrives, Notify, queues
  <2>2. UNCHANGED <<toClient, answers>> \/ \E text \in ServerTexts : Answer(text)
    BY <1>6 DEF ServerStep, AnswerConnect, AnswerSession, Notify, ServerTexts
  <2>3. Pushing' = Pushing
    BY <2>1 DEF Pushing
  <2> QED  BY <2>1, <2>2, <2>3, AnswerSent, NothingMoved DEF Numbered
<1> QED  BY <1>1, <1>2, <1>3, <1>4, <1>5, <1>6 DEF Next

-----------------------------------------------------------------------------
(* The specification.                                                       *)

ClientInv == TypeOK /\ Numbered /\ Threads /\ AllCommands /\ CommandsInOrder /\ AnswersKept

LEMMA ClientInvInit == Init => ClientInv
<1> SUFFICES ASSUME Init PROVE ClientInv
  OBVIOUS
<1>1. TypeOK
  BY TypeInit
<1>2. /\ sent = <<>> /\ commands = <<>> /\ typed = <<>> /\ answers = <<>> /\ shown = <<>>
      /\ responses = <<>> /\ toClient = <<>> /\ ui.pc = "poll" /\ srv.pc = "start" /\ running
  BY DEF Init
<1>3. Entering = <<>> /\ Pushing = <<>>
  BY <1>2 DEF Entering, Pushing
<1>4. <<>> \o <<>> = <<>> /\ DOMAIN <<>> = {} /\ Len(<<>>) = 0
  <2>1. <<>> \in Seq(Line)
    BY Sequences
  <2> QED  BY <2>1, ConcatEmptySeq, LenProperties, EmptySeq
<1>5. Commands(Len(typed)) = {} /\ Commands(LastSent) = {}
  BY <1>2, <1>4 DEF Commands, LastSent
<1>6. \A all : InOrder(<<>>, all, {})
  BY <1>4 DEF InOrder
<1>7. Numbered /\ Threads
  BY <1>2, <1>4 DEF Numbered, Threads, ExitSent
<1>8. AllCommands
  BY <1>2, <1>3, <1>4, <1>5, <1>6 DEF AllCommands
<1>9. CommandsInOrder
  BY <1>2, <1>4, <1>5, <1>6 DEF CommandsInOrder
<1>10. AnswersKept
  BY <1>2, <1>3, <1>4, <1>6 DEF AnswersKept
<1> QED  BY <1>1, <1>7, <1>8, <1>9, <1>10 DEF ClientInv

LEMMA CommandStep ==
  ASSUME TypeOK, Numbered, CommandPart, [Next]_vars, TypeOK', Threads'
  PROVE  AllCommands' /\ CommandsInOrder' /\ \A i \in DOMAIN typed' : typed'[i].id = i
<1>1. CASE \E kind \in Kinds : EnterLine(kind)
  BY <1>1, LineEntered
<1>2. CASE PushCommand
  BY <1>2, CommandPushed DEF PushCommand, history, Numbered
<1>3. CASE SendFollow \/ SendSend \/ RefuseLong \/ SendExit
  <2>1. PICK kind : PopThen(kind)
    BY <1>3 DEF SendFollow, SendSend, RefuseLong, SendExit
  <2>2. running /\ UNCHANGED typed
    BY <2>1 DEF PopThen
  <2>3. ~ExitSent
    BY <2>2 DEF CommandPart, Threads
  <2> QED  BY <2>1, <2>2, <2>3, CommandPopped DEF Numbered
<1>4. CASE ShowResponse \/ StopUI \/ PushInvalid
  <2>1. UNCHANGED <<commands, typed, sent>>
    BY <1>4 DEF ShowResponse, StopUI, PushInvalid, queues, history
  <2>2. ui.pc \notin {"died", "command"}
        /\ (ui' = ui \/ \E pc \in {"poll", "done"} : UI(pc))
    BY <1>4 DEF ShowResponse, StopUI, PushInvalid
  <2>3. Entering' = Entering
    BY <2>2, TypeParts DEF Entering, UI, TypedUI
  <2> QED  BY <2>1, <2>2, <2>3, NoCommandMoved DEF Numbered
<1>5. CASE ThrowBare \/ Collide
  <2>1. UNCHANGED <<commands, typed, sent>>
    BY <1>5 DEF ThrowBare, Collide, queues, history
  <2>2. \/ ui'.pc = "died"
        \/ ui.pc \notin {"died", "command"} /\ UI("poll")
    BY <1>5, TypeParts DEF ThrowBare, Collide, Dies, TypedUI
  <2>3. ui'.pc = "died" \/ (ui.pc # "died" /\ Entering' = Entering)
    BY <2>2, TypeParts DEF Entering, UI, TypedUI
  <2> QED  BY <2>1, <2>3, NoCommandMoved DEF Numbered
<1>6. CASE \/ ConnectStep \/ NoCommand \/ Listen \/ ListenTimesOut \/ PushResponse \/ SendNoop
           \/ ServerStep \/ Notify \/ UNCHANGED vars
  <2>1. UNCHANGED <<ui, commands, typed, sent>>
    BY <1>6 DEF ConnectStep, StartConnecting, SendConnect, ReceiveAnswer, GiveUp, Redirect, Refused,
       Leave, NoCommand, Listen, ListenTimesOut, PushResponse, SendNoop, ServerStep, AnswerConnect,
       AnswerSession, Arrives, Notify, vars, queues, history
  <2> QED  BY <2>1, NoUIMoved DEF Numbered
<1> QED  BY <1>1, <1>2, <1>3, <1>4, <1>5, <1>6 DEF Next, UIStep, ServeStep

LEMMA ClientInvStep == ClientInv /\ [Next]_vars => ClientInv'
<1> SUFFICES ASSUME ClientInv, [Next]_vars PROVE ClientInv'
  OBVIOUS
<1>1. TypeOK /\ Numbered /\ Threads /\ CommandPart /\ AnswersKept
  BY DEF ClientInv, CommandPart
<1>2. TypeOK'
  BY <1>1, TypeStep
<1>3. Threads'
  BY <1>1, <1>2, ThreadsStep
<1>4. AllCommands' /\ CommandsInOrder' /\ \A i \in DOMAIN typed' : typed'[i].id = i
  BY <1>1, <1>2, <1>3, CommandStep
<1>5. AnswersKept' /\ \A i \in DOMAIN answers' : answers'[i].id = i
  BY <1>1, KeptStep
<1> QED  BY <1>2, <1>3, <1>4, <1>5 DEF ClientInv, Numbered

THEOREM ClientInvariant == Spec => []ClientInv
BY ClientInvInit, ClientInvStep, PTL DEF Spec

\* Every variable of the client has its type, and no message that is too long,
\* and no command that the session does not know, is sent.
THEOREM ClientTypes == Spec => []TypeOK
<1>1. ClientInv => TypeOK
  BY DEF ClientInv
<1> QED  BY <1>1, ClientInvariant, PTL

\* The commands reach the session in the order in which the user entered them,
\* none skipped or doubled, and EXIT is the last, whatever collides.
THEOREM CommandsAreInOrder == Spec => []CommandsInOrder
<1>1. ClientInv => CommandsInOrder
  BY DEF ClientInv
<1> QED  BY <1>1, ClientInvariant, PTL

\* Unless two operations on a queue collide, no answer is lost, doubled or
\* overtaken between the session and the screen.
THEOREM AnswersAreKept == Spec => []AnswersKept
<1>1. ClientInv => AnswersKept
  BY DEF ClientInv
<1> QED  BY <1>1, ClientInvariant, PTL
=============================================================================
