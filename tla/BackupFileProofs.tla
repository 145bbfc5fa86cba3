--------------------------- MODULE BackupFileProofs ---------------------------
(***************************************************************************)
(* What backup_table.txt is read back as, for any profiles, any size of    *)
(* the buffer and any numbers of FOLLOWs and crashes.                      *)
(*                                                                         *)
(* The argument: unless two streams overlap, what the file holds and what  *)
(* the stream holds back are together a sequence of whole rows, each of a  *)
(* name of its own and no further than the table goes; the buffer only     *)
(* decides where that sequence is cut, and what is in front of a cut is    *)
(* read as part of the same rows. When nobody is about to save, the rows   *)
(* that were passed are those of the table as it is now.                   *)
(***************************************************************************)
EXTENDS BackupFile, FiniteSetTheorems, SequenceTheorems, TLAPS

Symbols == Profiles \cup {Slash, Comma, Newline}

\* What the file holds once thread t has closed it, if nothing is added.
Held(t) == text \o saver[t].buffer

Whole(q) == q = <<>> \/ q[Len(q)] = Newline

\* Every line is a row of the table, and has no follower that the table has not.
Sound(q, table) ==
  \A i \in LineStarts(q) : q[i] \in DOMAIN table /\ FollowersIn(q, i) \subseteq table[q[i]]

UpTo(q, last) == \A i \in LineStarts(q) : q[i] <= last
OneLineEach(q) == \A i, j \in LineStarts(q) : q[i] = q[j] => i = j

\* A sequence of whole rows, none of a name behind last.
RowsTo(q, table, last) == Whole(q) /\ Sound(q, table) /\ OneLineEach(q) /\ UpTo(q, last)

\* Every line is a row of the table as it is, with all its followers.
Matches(q, table) ==
  \A i \in LineStarts(q) : q[i] \in DOMAIN table /\ FollowersIn(q, i) = table[q[i]]

Holds(q, u) == \E i \in LineStarts(q) : q[i] = u
HoldsTo(q, table, last) == \A u \in DOMAIN table : u <= last => Holds(q, u)
HoldsAll(q, table) == \A u \in DOMAIN table : Holds(q, u)

LoopInserts ==
  /\ saver[Loop].pc = "insert" => connecting \in Profiles \ DOMAIN masterTable
  /\ saver[Loop].pc \in {"open", "walk"} => connecting \in DOMAIN masterTable

Rested == \A t \in Threads : saver[t].pc # "walk" => saver[t].buffer = <<>> /\ saver[t].last = -1

Alone == ~mixed => \A t, u \in Threads : Open(t) /\ Open(u) => t = u

FileSound == ~mixed => Sound(text, masterTable) /\ OneLineEach(text)

HeldSound ==
  ~mixed => \A t \in Threads : Open(t) => RowsTo(Held(t), masterTable, saver[t].last)

\* Nobody is about to change the table or to save it.
Calm == running /\ ~mixed /\ ~missed /\ \A t \in Threads : saver[t].pc \in {"rest", "walk"}

HeldExact ==
  Calm => \A t \in Threads : Open(t) =>
    Matches(Held(t), masterTable) /\ HoldsTo(Held(t), masterTable, saver[t].last)

FileExact ==
  Calm /\ (\A t \in Threads : ~Open(t)) => Matches(text, masterTable) /\ HoldsAll(text, masterTable)

FileInv ==
  /\ TypeOK /\ LoopInserts /\ Rested /\ Alone
  /\ FileSound /\ HeldSound /\ HeldExact /\ FileExact

-----------------------------------------------------------------------------
(* Rows.                                                                    *)

\* Each of the followers is listed.
LEMMA Listed ==
  ASSUME NEW F, IsFiniteSet(F)
  PROVE  /\ Cardinality(F) \in Nat
         /\ SetToSeq(F) \in [1 .. Cardinality(F) -> F]
         /\ \A x \in F : \E k \in 1 .. Cardinality(F) : SetToSeq(F)[k] = x
<1>1. PICK n \in Nat : n = Cardinality(F)
  BY FS_CardinalityType
<1>2. \E f \in [1 .. n -> F] : IsInjective(f)
  BY <1>1, FS_CardinalityType DEF ExistsBijection, Bijection, Injection
<1>3. PICK f \in [1 .. n -> F] : f = SetToSeq(F) /\ IsInjective(f)
  BY <1>1, <1>2 DEF SetToSeq
<1> DEFINE image == {f[k] : k \in 1 .. n}
<1>4. image \in SUBSET F /\ IsFiniteSet(image)
  BY FS_Subset
<1>5. ExistsBijection(1 .. n, image)
  <2>1. f \in Bijection(1 .. n, image)
    BY <1>3 DEF Bijection, Injection, Surjection, IsInjective
  <2> QED BY <2>1 DEF ExistsBijection
<1>6. Cardinality(image) = Cardinality(F)
  BY <1>1, <1>5, FS_Interval, FS_Bijection
<1>7. image = F
  BY <1>4, <1>6, FS_Subset
<1> QED BY <1>1, <1>3, <1>7

\* The name, the slash, each follower and a comma, the newline.
IsRow(r, u, F) ==
  \E n \in Nat : \E names \in [1 .. n -> F] :
    /\ \A x \in F : \E k \in 1 .. n : names[k] = x
    /\ DOMAIN r = 1 .. 2 * n + 3 /\ Len(r) = 2 * n + 3 /\ r = [i \in 1 .. 2 * n + 3 |-> r[i]]
    /\ r[1] = u /\ r[2] = Slash /\ r[2 * n + 3] = Newline
    /\ \A k \in 1 .. n : r[2 * k + 1] = names[k] /\ r[2 * k + 2] = Comma

LEMMA RowParts ==
  ASSUME NEW u, NEW F, IsFiniteSet(F), NEW r, r = RowText(u, F)
  PROVE  IsRow(r, u, F)
<1>1. PICK n \in Nat : n = Cardinality(F)
  BY FS_CardinalityType
<1>2. PICK names \in [1 .. n -> F] : names = SetToSeq(F) /\ \A x \in F : \E k \in 1 .. n : names[k] = x
  BY <1>1, Listed
<1> DEFINE Item(i) == IF i = 1 THEN u
                      ELSE IF i = 2 THEN Slash
                      ELSE IF i = 2 * n + 3 THEN Newline
                      ELSE IF i % 2 = 1 THEN names[(i - 1) \div 2]
                      ELSE Comma
<1>4. r = [i \in 1 .. 2 * n + 3 |-> Item(i)]
  BY <1>1, <1>2 DEF RowText
<1>6. Item(1) = u /\ Item(2) = Slash /\ Item(2 * n + 3) = Newline
  OBVIOUS
<1>7. ASSUME NEW k \in 1 .. n
      PROVE  /\ 2 * k + 1 \in 1 .. 2 * n + 3 /\ Item(2 * k + 1) = names[k]
             /\ 2 * k + 2 \in 1 .. 2 * n + 3 /\ Item(2 * k + 2) = Comma
  <2>1. /\ (2 * k + 1) % 2 = 1 /\ ((2 * k + 1) - 1) \div 2 = k /\ (2 * k + 2) % 2 = 0
        /\ 2 * k + 1 \in 3 .. 2 * n + 2 /\ 2 * k + 2 \in 3 .. 2 * n + 2
    OBVIOUS
  <2> QED BY <2>1
<1>8. 1 \in 1 .. 2 * n + 3 /\ 2 \in 1 .. 2 * n + 3 /\ 2 * n + 3 \in 1 .. 2 * n + 3 /\ 2 * n + 3 \in Nat
  OBVIOUS
<1> HIDE DEF Item
<1>5. DOMAIN r = 1 .. 2 * n + 3 /\ r = [i \in 1 .. 2 * n + 3 |-> r[i]] /\ Len(r) = 2 * n + 3
  BY <1>4, <1>8
<1>9. r[1] = u /\ r[2] = Slash /\ r[2 * n + 3] = Newline
  BY <1>4, <1>6, <1>8
<1>10. \A k \in 1 .. n : r[2 * k + 1] = names[k] /\ r[2 * k + 2] = Comma
  BY <1>4, <1>7
<1> QED BY <1>2, <1>5, <1>9, <1>10 DEF IsRow

LEMMA RowRead ==
  ASSUME BackupFileAssumption, NEW u \in Profiles, NEW F \in SUBSET Profiles, u \notin F,
         NEW r, r = RowText(u, F)
  PROVE  /\ r \in Seq(Symbols) /\ r # <<>> /\ Whole(r)
         /\ LineStarts(r) = {1} /\ r[1] = u /\ FollowersIn(r, 1) = F
<1>1. IsFiniteSet(F)
  BY FS_Subset DEF BackupFileAssumption
<1>r. IsRow(r, u, F)
  BY <1>1, RowParts
<1>n. PICK n \in Nat : \E names \in [1 .. n -> F] :
        /\ \A x \in F : \E k \in 1 .. n : names[k] = x
        /\ DOMAIN r = 1 .. 2 * n + 3 /\ Len(r) = 2 * n + 3 /\ r = [i \in 1 .. 2 * n + 3 |-> r[i]]
        /\ r[1] = u /\ r[2] = Slash /\ r[2 * n + 3] = Newline
        /\ \A k \in 1 .. n : r[2 * k + 1] = names[k] /\ r[2 * k + 2] = Comma
  BY <1>r DEF IsRow
<1>2. PICK names \in [1 .. n -> F] :
        /\ \A x \in F : \E k \in 1 .. n : names[k] = x
        /\ DOMAIN r = 1 .. 2 * n + 3 /\ Len(r) = 2 * n + 3 /\ r = [i \in 1 .. 2 * n + 3 |-> r[i]]
        /\ r[1] = u /\ r[2] = Slash /\ r[2 * n + 3] = Newline
        /\ \A k \in 1 .. n : r[2 * k + 1] = names[k] /\ r[2 * k + 2] = Comma
  BY <1>n
<1>s. /\ Slash \notin Profiles /\ Comma \notin Profiles /\ Newline \notin Profiles
      /\ Slash # Newline /\ Comma # Newline
  BY DEF BackupFileAssumption, Slash, Comma, Newline
<1>3. ASSUME NEW i \in 1 .. 2 * n + 3
      PROVE  i = 1 \/ i = 2 \/ i = 2 * n + 3 \/ \E k \in 1 .. n : i = 2 * k + 1 \/ i = 2 * k + 2
  <2>1. PICK m \in Nat : i = 2 * m + 1 \/ i = 2 * m + 2
    <3>1. (i - 1) \div 2 \in Nat /\ (i = 2 * ((i - 1) \div 2) + 1 \/ i = 2 * ((i - 1) \div 2) + 2)
      OBVIOUS
    <3> QED BY <3>1
  <2>2. CASE m = 0
    BY <2>1, <2>2
  <2>3. CASE m # 0
    <3>1. m \in 1 .. n \/ i = 2 * n + 3
      BY <2>1, <2>3
    <3> QED BY <2>1, <3>1
  <2> QED BY <2>2, <2>3
<1>4. ASSUME NEW i \in 1 .. 2 * n + 3
      PROVE  r[i] \in {u, Slash} \/ (i = 2 * n + 3 /\ r[i] = Newline) \/ r[i] = Comma \/ r[i] \in F
  <2>1. ASSUME NEW k \in 1 .. n, i = 2 * k + 1 \/ i = 2 * k + 2 PROVE r[i] = Comma \/ r[i] \in F
    <3>1. r[2 * k + 1] = names[k] /\ r[2 * k + 2] = Comma /\ names[k] \in F
      BY <1>2
    <3> QED BY <2>1, <3>1
  <2> QED BY <1>2, <1>3, <2>1
<1>5. r \in Seq(Symbols)
  <2>1. ASSUME NEW i \in 1 .. 2 * n + 3 PROVE r[i] \in Symbols
    BY <1>4 DEF Symbols
  <2>2. PICK m \in Nat : m = 2 * n + 3
    OBVIOUS
  <2>3. r \in [1 .. m -> Symbols]
    BY <1>2, <2>1, <2>2
  <2> QED BY <2>3
<1>6. r # <<>> /\ Whole(r)
  BY <1>2 DEF Whole
<1>7. ASSUME NEW i \in 1 .. 2 * n + 2 PROVE r[i] # Newline
  <2>1. i \in 1 .. 2 * n + 3 /\ i # 2 * n + 3
    OBVIOUS
  <2> QED BY <1>4, <1>s, <2>1
<1>8. LineStarts(r) = {1}
  <2>1. 1 \in LineStarts(r)
    BY <1>2 DEF LineStarts
  <2>2. ASSUME NEW i \in LineStarts(r) PROVE i = 1
    <3>1. i \in 1 .. 2 * n + 3 /\ (i = 1 \/ r[i - 1] = Newline)
      BY <1>2, <2>2 DEF LineStarts
    <3>2. CASE i # 1
      <4>1. i - 1 \in 1 .. 2 * n + 2
        BY <3>1, <3>2
      <4> QED BY <1>7, <3>1, <3>2, <4>1
    <3> QED BY <3>2
  <2> QED BY <2>1, <2>2
<1>9. FollowersIn(r, 1) = F
  <2>1. ASSUME NEW x \in F PROVE x \in FollowersIn(r, 1)
    <3>1. PICK k \in 1 .. n : names[k] = x
      BY <1>2
    <3>2. PICK j \in 1 + 1 .. 2 * n + 2 : j = 2 * k + 1
      OBVIOUS
    <3>3. r[j] = x /\ x \in Profiles /\ x # r[1]
      BY <1>2, <3>1, <3>2
    <3>4. \A m \in 1 .. j : r[m] # Newline
      BY <1>7, <3>2
    <3>5. j \in 1 + 1 .. Len(r)
      BY <1>2, <3>2
    <3> QED BY <3>3, <3>4, <3>5 DEF FollowersIn
  <2>2. ASSUME NEW x \in FollowersIn(r, 1) PROVE x \in F
    <3>1. PICK j \in 1 + 1 .. Len(r) : r[j] = x /\ r[j] \in Profiles /\ x # r[1]
      BY DEF FollowersIn
    <3>2. j \in 1 .. 2 * n + 3
      BY <1>2, <3>1
    <3>3. x # u /\ x # Slash /\ x # Comma /\ x # Newline
      BY <1>2, <1>s, <3>1
    <3> QED BY <1>4, <3>1, <3>2, <3>3
  <2> QED BY <2>1, <2>2
<1> QED BY <1>2, <1>5, <1>6, <1>8, <1>9

-----------------------------------------------------------------------------
(* One text behind the other.                                               *)

Behind(q, a, b) ==
  /\ q \in Seq(Symbols) /\ Len(a) \in Nat /\ Len(b) \in Nat /\ Len(q) = Len(a) + Len(b)
  /\ DOMAIN a = 1 .. Len(a) /\ DOMAIN b = 1 .. Len(b) /\ DOMAIN q = 1 .. Len(a) + Len(b)
  /\ \A i \in 1 .. Len(a) : q[i] = a[i]
  /\ \A j \in 1 .. Len(b) : q[Len(a) + j] = b[j]

LEMMA Joined ==
  ASSUME NEW a \in Seq(Symbols), NEW b \in Seq(Symbols)
  PROVE  Behind(a \o b, a, b)
<1>1. PICK q : q = a \o b
  OBVIOUS
<1>2. /\ q \in Seq(Symbols) /\ Len(q) = Len(a) + Len(b)
      /\ \A i \in 1 .. Len(a) + Len(b) : q[i] = IF i <= Len(a) THEN a[i] ELSE b[i - Len(a)]
  BY <1>1, ConcatProperties
<1>3. /\ Len(a) \in Nat /\ Len(b) \in Nat /\ DOMAIN q = 1 .. Len(a) + Len(b)
      /\ DOMAIN a = 1 .. Len(a) /\ DOMAIN b = 1 .. Len(b)
  BY <1>2, LenProperties
<1>4. ASSUME NEW j \in 1 .. Len(b) PROVE q[Len(a) + j] = b[j]
  <2>1. Len(a) + j \in 1 .. Len(a) + Len(b) /\ ~(Len(a) + j <= Len(a)) /\ (Len(a) + j) - Len(a) = j
    BY <1>3
  <2> QED BY <1>2, <2>1
<1>5. ASSUME NEW i \in 1 .. Len(a) PROVE q[i] = a[i]
  <2>1. i \in 1 .. Len(a) + Len(b) /\ i <= Len(a)
    BY <1>3
  <2> QED BY <1>2, <2>1
<1> QED BY <1>1, <1>2, <1>3, <1>4, <1>5 DEF Behind

\* What is in front of a cut: the same lines, of which the last may have lost
\* followers.
LEMMA CutOff ==
  ASSUME NEW a \in Seq(Symbols), NEW b \in Seq(Symbols), NEW i \in LineStarts(a)
  PROVE  /\ i \in LineStarts(a \o b) /\ (a \o b)[i] = a[i]
         /\ FollowersIn(a, i) \subseteq FollowersIn(a \o b, i)
<1>q. PICK q : q = a \o b
  OBVIOUS
<1>1. /\ q = a \o b /\ q \in Seq(Symbols)
      /\ Len(a) \in Nat /\ Len(b) \in Nat /\ Len(q) = Len(a) + Len(b)
      /\ DOMAIN a = 1 .. Len(a) /\ DOMAIN b = 1 .. Len(b) /\ DOMAIN q = 1 .. Len(a) + Len(b)
      /\ \A j \in 1 .. Len(a) : q[j] = a[j]
  BY <1>q, Joined DEF Behind
<1>2. i \in 1 .. Len(a) /\ (i = 1 \/ a[i - 1] = Newline)
  BY <1>1 DEF LineStarts
<1>3. i \in LineStarts(q) /\ q[i] = a[i]
  <2>1. i # 1 => i - 1 \in 1 .. Len(a)
    BY <1>1, <1>2
  <2> QED BY <1>1, <1>2, <2>1 DEF LineStarts
<1>4. ASSUME NEW x \in FollowersIn(a, i) PROVE x \in FollowersIn(q, i)
  <2>1. PICK j \in i + 1 .. Len(a) :
          a[j] = x /\ a[j] \in Profiles /\ x # a[i] /\ \A k \in i .. j : a[k] # Newline
    BY DEF FollowersIn
  <2>2. j \in i + 1 .. Len(q) /\ q[j] = x /\ q[i] = a[i]
    BY <1>1, <1>2, <2>1
  <2>3. ASSUME NEW k \in i .. j PROVE q[k] # Newline
    <3>1. k \in 1 .. Len(a)
      BY <1>1, <1>2
    <3> QED BY <1>1, <2>1, <3>1
  <2> QED BY <2>1, <2>2, <2>3 DEF FollowersIn
<1> QED BY <1>1, <1>3, <1>4

\* The lines of a text behind whole lines are its own.
LEMMA LinesBehind ==
  ASSUME NEW a \in Seq(Symbols), Whole(a), NEW b \in Seq(Symbols), NEW j \in LineStarts(b)
  PROVE  /\ Len(a) + j \in LineStarts(a \o b) /\ (a \o b)[Len(a) + j] = b[j]
         /\ FollowersIn(a \o b, Len(a) + j) = FollowersIn(b, j)
<1>q. PICK q : q = a \o b
  OBVIOUS
<1>1. /\ q = a \o b /\ q \in Seq(Symbols)
      /\ Len(a) \in Nat /\ Len(b) \in Nat /\ Len(q) = Len(a) + Len(b)
      /\ DOMAIN a = 1 .. Len(a) /\ DOMAIN b = 1 .. Len(b) /\ DOMAIN q = 1 .. Len(a) + Len(b)
      /\ \A i \in 1 .. Len(a) : q[i] = a[i]
      /\ \A i \in 1 .. Len(b) : q[Len(a) + i] = b[i]
  BY <1>q, Joined DEF Behind
<1>2. PICK n \in Nat, m \in Nat : n = Len(a) /\ m = Len(b)
  BY <1>1
<1>3. j \in 1 .. m /\ (j = 1 \/ b[j - 1] = Newline)
  BY <1>1, <1>2 DEF LineStarts
<1>4. n + j \in LineStarts(q) /\ q[n + j] = b[j]
  <2>1. n + j \in 1 .. n + m
    BY <1>3
  <2>2. CASE j = 1 /\ n = 0
    BY <1>1, <1>2, <1>3, <2>1, <2>2 DEF LineStarts
  <2>3. CASE j = 1 /\ n # 0
    <3>1. a # <<>>
      BY <1>2, <2>3
    <3>2. a[n] = Newline
      BY <1>2, <3>1 DEF Whole
    <3>3. n \in 1 .. n /\ (n + j) - 1 = n
      BY <2>3
    <3>4. q[(n + j) - 1] = Newline
      BY <1>1, <1>2, <3>2, <3>3
    <3> QED BY <1>1, <1>2, <1>3, <2>1, <3>4 DEF LineStarts
  <2>4. CASE j # 1
    <3>1. j - 1 \in 1 .. m /\ (n + j) - 1 = n + (j - 1)
      BY <1>3, <2>4
    <3>2. q[(n + j) - 1] = Newline
      BY <1>1, <1>2, <1>3, <2>4, <3>1
    <3> QED BY <1>1, <1>2, <1>3, <2>1, <3>2 DEF LineStarts
  <2> QED BY <2>2, <2>3, <2>4
<1>5. ASSUME NEW x \in FollowersIn(b, j) PROVE x \in FollowersIn(q, n + j)
  <2>1. PICK i \in j + 1 .. m :
          b[i] = x /\ b[i] \in Profiles /\ x # b[j] /\ \A k \in j .. i : b[k] # Newline
    BY <1>2 DEF FollowersIn
  <2>2. PICK start \in Nat, place \in Nat : start = n + j /\ place = n + i
    BY <1>3
  <2>3. place \in start + 1 .. Len(q) /\ q[place] = x /\ x \in Profiles /\ x # q[start]
    BY <1>1, <1>2, <1>3, <1>4, <2>1, <2>2
  <2>4. ASSUME NEW k \in start .. place PROVE q[k] # Newline
    <3>1. k - n \in j .. i /\ k - n \in 1 .. m /\ n + (k - n) = k
      BY <1>3, <2>2
    <3> QED BY <1>1, <1>2, <2>1, <3>1
  <2>5. x \in FollowersIn(q, start)
    BY <2>3, <2>4 DEF FollowersIn
  <2> QED BY <2>2, <2>5
<1>6. ASSUME NEW x \in FollowersIn(q, n + j) PROVE x \in FollowersIn(b, j)
  <2>1. PICK i \in n + j + 1 .. n + m :
          q[i] = x /\ q[i] \in Profiles /\ x # q[n + j] /\ \A k \in n + j .. i : q[k] # Newline
    BY <1>1, <1>2 DEF FollowersIn
  <2>2. PICK l \in j + 1 .. m : n + l = i
    <3>1. i - n \in j + 1 .. m /\ n + (i - n) = i
      BY <1>3
    <3> QED BY <3>1
  <2>3. b[l] = x
    BY <1>1, <1>2, <1>3, <2>1, <2>2
  <2>4. ASSUME NEW k \in j .. l PROVE b[k] # Newline
    <3>1. n + k \in n + j .. i /\ k \in 1 .. m
      BY <1>3, <2>2
    <3> QED BY <1>1, <1>2, <2>1, <3>1
  <2> QED BY <1>2, <1>4, <2>1, <2>3, <2>4 DEF FollowersIn
<1> QED BY <1>1, <1>2, <1>4, <1>5, <1>6

\* The lines of whole lines stay what they are when something is added.
LEMMA LinesBefore ==
  ASSUME NEW a \in Seq(Symbols), Whole(a), NEW b \in Seq(Symbols), NEW i \in LineStarts(a)
  PROVE  FollowersIn(a \o b, i) = FollowersIn(a, i)
<1>q. PICK q : q = a \o b
  OBVIOUS
<1>1. /\ q = a \o b /\ q \in Seq(Symbols)
      /\ Len(a) \in Nat /\ Len(b) \in Nat /\ Len(q) = Len(a) + Len(b)
      /\ DOMAIN a = 1 .. Len(a) /\ DOMAIN b = 1 .. Len(b) /\ DOMAIN q = 1 .. Len(a) + Len(b)
      /\ \A k \in 1 .. Len(a) : q[k] = a[k]
  BY <1>q, Joined DEF Behind
<1>2. i \in 1 .. Len(a) /\ Len(a) \in 1 .. Len(a) /\ q[Len(a)] = Newline
  <2>1. i \in 1 .. Len(a)
    BY <1>1 DEF LineStarts
  <2>2. a # <<>> /\ Len(a) \in 1 .. Len(a)
    BY <1>1, <2>1
  <2> QED BY <1>1, <2>1, <2>2 DEF Whole
<1>3. ASSUME NEW x \in FollowersIn(q, i) PROVE x \in FollowersIn(a, i)
  <2>1. PICK j \in i + 1 .. Len(q) :
          q[j] = x /\ q[j] \in Profiles /\ x # q[i] /\ \A k \in i .. j : q[k] # Newline
    BY DEF FollowersIn
  <2>2. j \in i + 1 .. Len(a)
    <3>1. CASE j > Len(a)
      <4>1. Len(a) \in i .. j
        BY <1>1, <1>2, <3>1
      <4> QED BY <1>2, <2>1, <4>1
    <3> QED BY <1>1, <1>2, <3>1
  <2>3. ASSUME NEW k \in i .. j PROVE a[k] # Newline
    <3>1. k \in 1 .. Len(a)
      BY <1>1, <1>2, <2>2
    <3> QED BY <1>1, <2>1, <3>1
  <2>4. a[j] = x /\ a[i] = q[i]
    BY <1>1, <1>2, <2>1, <2>2
  <2> QED BY <2>1, <2>2, <2>3, <2>4 DEF FollowersIn
<1> QED BY <1>1, <1>3, CutOff

\* There are no other lines.
LEMMA LineOf ==
  ASSUME NEW a \in Seq(Symbols), Whole(a), NEW b \in Seq(Symbols), NEW i \in LineStarts(a \o b)
  PROVE  i \in LineStarts(a) \/ \E j \in LineStarts(b) : i = Len(a) + j
<1>q. PICK q : q = a \o b
  OBVIOUS
<1>1. /\ q = a \o b /\ q \in Seq(Symbols)
      /\ Len(a) \in Nat /\ Len(b) \in Nat /\ Len(q) = Len(a) + Len(b)
      /\ DOMAIN a = 1 .. Len(a) /\ DOMAIN b = 1 .. Len(b) /\ DOMAIN q = 1 .. Len(a) + Len(b)
      /\ \A k \in 1 .. Len(a) : q[k] = a[k]
      /\ \A k \in 1 .. Len(b) : q[Len(a) + k] = b[k]
  BY <1>q, Joined DEF Behind
<1>2. PICK n \in Nat, m \in Nat : n = Len(a) /\ m = Len(b)
  BY <1>1
<1>3. i \in 1 .. n + m /\ (i = 1 \/ q[i - 1] = Newline)
  BY <1>1, <1>2 DEF LineStarts
<1>4. CASE i <= n
  <2>1. i # 1 => i - 1 \in 1 .. n
    BY <1>3, <1>4
  <2>2. i # 1 => a[i - 1] = Newline
    BY <1>1, <1>2, <1>3, <2>1
  <2> QED BY <1>1, <1>2, <1>3, <1>4, <2>2 DEF LineStarts
<1>5. CASE i > n
  <2>1. PICK j \in 1 .. m : n + j = i
    <3>1. i - n \in 1 .. m /\ n + (i - n) = i
      BY <1>3, <1>5
    <3> QED BY <3>1
  <2>2. j # 1 => j - 1 \in 1 .. m /\ n + (j - 1) = i - 1 /\ i # 1
    BY <2>1
  <2>3. j # 1 => b[j - 1] = Newline
    BY <1>1, <1>2, <1>3, <2>2
  <2>4. j \in LineStarts(b)
    BY <1>1, <1>2, <2>1, <2>3 DEF LineStarts
  <2> QED BY <1>2, <2>1, <2>4
<1> QED BY <1>3, <1>4, <1>5

-----------------------------------------------------------------------------
(* Texts and tables.                                                        *)

LEMMA NoLines == LineStarts(<<>>) = {}
<1>1. DOMAIN <<>> = {}
  OBVIOUS
<1> QED BY <1>1 DEF LineStarts

LEMMA SoundCut ==
  ASSUME NEW table, NEW a \in Seq(Symbols), NEW b \in Seq(Symbols),
         Sound(a \o b, table), OneLineEach(a \o b)
  PROVE  Sound(a, table) /\ OneLineEach(a)
<1>1. ASSUME NEW i \in LineStarts(a)
      PROVE  a[i] \in DOMAIN table /\ FollowersIn(a, i) \subseteq table[a[i]]
  <2>1. /\ i \in LineStarts(a \o b) /\ (a \o b)[i] = a[i]
        /\ FollowersIn(a, i) \subseteq FollowersIn(a \o b, i)
    BY CutOff
  <2> QED BY <2>1 DEF Sound
<1>2. ASSUME NEW i \in LineStarts(a), NEW j \in LineStarts(a), a[i] = a[j] PROVE i = j
  <2>1. i \in LineStarts(a \o b) /\ (a \o b)[i] = a[i]
    BY CutOff
  <2>2. j \in LineStarts(a \o b) /\ (a \o b)[j] = a[j]
    BY CutOff
  <2> QED BY <1>2, <2>1, <2>2 DEF OneLineEach
<1> QED BY <1>1, <1>2 DEF Sound, OneLineEach

LEMMA SoundGrows ==
  ASSUME NEW q, NEW old, NEW new, Sound(q, old), DOMAIN old \subseteq DOMAIN new,
         \A u \in DOMAIN old : old[u] \subseteq new[u]
  PROVE  Sound(q, new)
<1>1. ASSUME NEW i \in LineStarts(q)
      PROVE  q[i] \in DOMAIN new /\ FollowersIn(q, i) \subseteq new[q[i]]
  <2>1. q[i] \in DOMAIN old /\ FollowersIn(q, i) \subseteq old[q[i]]
    BY DEF Sound
  <2> QED BY <2>1
<1> QED BY <1>1 DEF Sound

\* Text q is text a with one line more, the row of u, at n + 1.
HasLineMore(q, a, u, n, table) ==
  /\ \A i \in LineStarts(a) : i \in LineStarts(q) /\ q[i] = a[i] /\ FollowersIn(q, i) = FollowersIn(a, i)
  /\ n + 1 \in LineStarts(q) /\ q[n + 1] = u /\ FollowersIn(q, n + 1) = table[u]
  /\ \A i \in LineStarts(q) : i \in LineStarts(a) \/ i = n + 1

\* What is known of q, that is a and a row of u.
RowMore(q, a, u, table) ==
  /\ Sound(q, table) /\ OneLineEach(q) /\ UpTo(q, u)
  /\ Matches(a, table) => Matches(q, table)
  /\ Holds(q, u) /\ \A v : Holds(a, v) => Holds(q, v)

\* A line more, of a greater name.
LEMMA LineMore ==
  ASSUME NEW table, NEW u \in Nat, u \in DOMAIN table, NEW n \in Nat, NEW a, NEW q,
         Sound(a, table), OneLineEach(a), \A i \in LineStarts(a) : a[i] \in Nat /\ a[i] < u,
         HasLineMore(q, a, u, n, table)
  PROVE  RowMore(q, a, u, table)
<1>0. /\ \A i \in LineStarts(a) : i \in LineStarts(q) /\ q[i] = a[i] /\ FollowersIn(q, i) = FollowersIn(a, i)
      /\ n + 1 \in LineStarts(q) /\ q[n + 1] = u /\ FollowersIn(q, n + 1) = table[u]
      /\ \A i \in LineStarts(q) : i \in LineStarts(a) \/ i = n + 1
  BY DEF HasLineMore
<1>1. Sound(q, table) /\ (Matches(a, table) => Matches(q, table))
  BY <1>0 DEF Sound, Matches
<1>2. ASSUME NEW i \in LineStarts(q) PROVE q[i] = u \/ (q[i] \in Nat /\ q[i] < u /\ q[i] = a[i])
  BY <1>0
<1>3. ASSUME NEW i \in LineStarts(q), NEW j \in LineStarts(q), q[i] = q[j] PROVE i = j
  <2>1. CASE i \in LineStarts(a) /\ j \in LineStarts(a)
    BY <1>0, <1>3, <2>1 DEF OneLineEach
  <2>2. CASE i = n + 1 /\ j \in LineStarts(a)
    <3>1. q[j] < u /\ q[i] = u
      BY <1>0, <2>2
    <3> QED BY <1>3, <3>1
  <2>3. CASE j = n + 1 /\ i \in LineStarts(a)
    <3>1. q[i] < u /\ q[j] = u
      BY <1>0, <2>3
    <3> QED BY <1>3, <3>1
  <2>4. CASE i = n + 1 /\ j = n + 1
    BY <2>4
  <2> QED BY <1>0, <2>1, <2>2, <2>3, <2>4
<1>4. UpTo(q, u)
  BY <1>2 DEF UpTo
<1>5. Holds(q, u) /\ \A v : Holds(a, v) => Holds(q, v)
  BY <1>0 DEF Holds
<1>6. OneLineEach(q)
  BY <1>3 DEF OneLineEach
<1> QED BY <1>1, <1>4, <1>5, <1>6 DEF RowMore

\* A row behind whole rows of smaller names.
LEMMA RowAdded ==
  ASSUME BackupFileAssumption,
         NEW table, DOMAIN table \subseteq Profiles, NEW u \in DOMAIN table,
         table[u] \subseteq Profiles, u \notin table[u],
         NEW a \in Seq(Symbols), Whole(a), Sound(a, table), OneLineEach(a),
         \A i \in LineStarts(a) : a[i] < u,
         NEW q, q = a \o RowText(u, table[u])
  PROVE  q \in Seq(Symbols) /\ Whole(q) /\ RowMore(q, a, u, table)
<1>1. PICK F \in SUBSET Profiles : F = table[u]
  OBVIOUS
<1>2. PICK r \in Seq(Symbols) :
        /\ r = RowText(u, F) /\ r # <<>> /\ Whole(r)
        /\ LineStarts(r) = {1} /\ r[1] = u /\ FollowersIn(r, 1) = F
  BY <1>1, RowRead
<1>3. q = a \o r
  BY <1>1, <1>2
<1>4. q \in Seq(Symbols) /\ Whole(q)
  <2>1. PICK p : p = a \o r
    OBVIOUS
  <2>2. /\ p \in Seq(Symbols) /\ Len(a) \in Nat /\ Len(r) \in Nat /\ Len(p) = Len(a) + Len(r)
        /\ DOMAIN r = 1 .. Len(r) /\ \A j \in 1 .. Len(r) : p[Len(a) + j] = r[j]
    BY <2>1, Joined DEF Behind
  <2>3. Len(r) \in 1 .. Len(r) /\ r[Len(r)] = Newline
    BY <1>2, <2>2 DEF Whole
  <2> QED BY <1>3, <2>1, <2>2, <2>3 DEF Whole
<1>5. PICK n \in Nat : n = Len(a)
  OBVIOUS
<1>6. n + 1 \in LineStarts(q) /\ q[n + 1] = u /\ FollowersIn(q, n + 1) = table[u]
  <2>1. 1 \in LineStarts(r)
    BY <1>2
  <2> QED BY <1>1, <1>2, <1>3, <1>5, <2>1, LinesBehind
<1>7. ASSUME NEW i \in LineStarts(a)
      PROVE  i \in LineStarts(q) /\ q[i] = a[i] /\ FollowersIn(q, i) = FollowersIn(a, i)
  <2>1. i \in LineStarts(a \o r) /\ (a \o r)[i] = a[i]
    BY CutOff
  <2>2. FollowersIn(a \o r, i) = FollowersIn(a, i)
    BY LinesBefore
  <2> QED BY <1>3, <2>1, <2>2
<1>8. ASSUME NEW i \in LineStarts(q) PROVE i \in LineStarts(a) \/ i = n + 1
  <2>1. i \in LineStarts(a \o r)
    BY <1>3
  <2>2. i \in LineStarts(a) \/ \E j \in LineStarts(r) : i = Len(a) + j
    BY <2>1, LineOf
  <2>3. ASSUME NEW j \in LineStarts(r), i = Len(a) + j PROVE i = n + 1
    <3>1. j = 1
      BY <1>2
    <3> QED BY <1>5, <2>3, <3>1
  <2> QED BY <2>2, <2>3
<1>9. \A i \in LineStarts(a) : a[i] \in Nat /\ a[i] < u
  BY DEF Sound, BackupFileAssumption
<1>10. u \in Nat
  BY DEF BackupFileAssumption
<1>more. HasLineMore(q, a, u, n, table)
  BY <1>6, <1>7, <1>8 DEF HasLineMore
<1> QED BY <1>4, <1>9, <1>10, <1>more, LineMore

LEMMA LoadIs ==
  ASSUME NEW q \in Seq(Symbols), OneLineEach(q)
  PROVE  /\ DOMAIN Load(q) = {q[i] : i \in LineStarts(q)}
         /\ Load(q) = [u \in DOMAIN Load(q) |-> Load(q)[u]]
         /\ \A i \in LineStarts(q) : Load(q)[q[i]] = FollowersIn(q, i)
<1>1. /\ DOMAIN Load(q) = {q[i] : i \in LineStarts(q)}
      /\ Load(q) = [u \in DOMAIN Load(q) |-> Load(q)[u]]
  BY DEF Load
<1>2. ASSUME NEW i \in LineStarts(q) PROVE Load(q)[q[i]] = FollowersIn(q, i)
  <2> DEFINE First(j) == j \in LineStarts(q) /\ q[j] = q[i] /\ \A k \in LineStarts(q) : q[k] = q[i] => j <= k
             first == CHOOSE j \in LineStarts(q) : q[j] = q[i] /\ \A k \in LineStarts(q) : q[k] = q[i] => j <= k
  <2>1. i <= i
    BY DEF LineStarts
  <2>2. \A k \in LineStarts(q) : q[k] = q[i] => k = i
    BY DEF OneLineEach
  <2>3. First(i)
    BY <2>1, <2>2
  <2>4. first = i
    BY <2>2, <2>3
  <2>5. Load(q)[q[i]] = FollowersIn(q, first)
    BY DEF Load
  <2> QED BY <2>4, <2>5
<1> QED BY <1>1, <1>2

LEMMA TablesIs ==
  ASSUME NEW table
  PROVE  table \in Tables <=>
           /\ DOMAIN table \subseteq Profiles /\ table = [u \in DOMAIN table |-> table[u]]
           /\ \A u \in DOMAIN table : table[u] \subseteq Profiles /\ u \notin table[u]
<1>1. ASSUME table \in Tables
      PROVE  /\ DOMAIN table \subseteq Profiles /\ table = [u \in DOMAIN table |-> table[u]]
             /\ \A u \in DOMAIN table : table[u] \subseteq Profiles /\ u \notin table[u]
  <2>1. PICK rows \in SUBSET Profiles : table \in [rows -> SUBSET Profiles]
    BY <1>1 DEF Tables
  <2>2. \A u \in DOMAIN table : u \notin table[u]
    BY <1>1 DEF Tables
  <2> QED BY <2>1, <2>2
<1>2. ASSUME DOMAIN table \subseteq Profiles, table = [u \in DOMAIN table |-> table[u]],
             \A u \in DOMAIN table : table[u] \subseteq Profiles /\ u \notin table[u]
      PROVE  table \in Tables
  <2>1. PICK rows \in SUBSET Profiles : rows = DOMAIN table
    BY <1>2
  <2>2. table \in [rows -> SUBSET Profiles]
    BY <1>2, <2>1
  <2> QED BY <1>2, <2>1, <2>2 DEF Tables
<1> QED BY <1>1, <1>2

-----------------------------------------------------------------------------
(* Steps.                                                                   *)

SaverType == [pc : {"rest", "insert", "open", "walk"}, buffer : Seq(Symbols), last : Profiles \cup {-1}]

\* What the next state is made of, by parts.
LEMMA NextSound ==
  ASSUME NEW t \in Threads, NEW q, NEW table, NEW last,
         Held(t)' = q, masterTable' = table, saver'[t].last = last, RowsTo(q, table, last)
  PROVE  RowsTo(Held(t), masterTable, saver[t].last)'
OBVIOUS

LEMMA Least ==
  ASSUME NEW I \in SUBSET Nat, I # {}
  PROVE  \E n \in I : \A m \in I : n <= m
<1> DEFINE R == {ss \in Nat \X Nat : ss[1] < ss[2]}
<1>1. R = OpToRel(<, Nat)
  BY Zenon DEF OpToRel
<1>2. IsWellFoundedOn(R, Nat)
  BY Zenon, <1>1, NatLessThanWellFounded
<1> HIDE DEF R
<1>3. PICK n \in I : \A m \in I : ~(<<m, n>> \in R)
  BY <1>2, WFMin
<1>4. \A m \in I : ~(m < n)
  BY <1>3 DEF R
<1> QED BY <1>4

LEMMA SaverNow ==
  ASSUME TypeOK
  PROVE  saver \in [Threads -> SaverType] /\ text \in Seq(Symbols) /\ masterTable \in Tables
BY DEF TypeOK, SaverType, Symbols

LEMMA SaverSet ==
  ASSUME TypeOK, NEW t \in Threads, NEW s \in SaverType, saver' = [saver EXCEPT ![t] = s]
  PROVE  /\ saver' \in [Threads -> SaverType] /\ saver'[t] = s
         /\ \A o \in Threads : o # t => saver'[o] = saver[o]
<1>1. saver \in [Threads -> SaverType]
  BY SaverNow
<1> QED BY <1>1

LEMMA SaverStep ==
  ASSUME TypeOK, NEW t \in Threads, NEW pc \in {"rest", "insert", "open", "walk"}, Step(t, pc)
  PROVE  /\ saver' \in [Threads -> SaverType]
         /\ saver'[t].pc = pc /\ saver'[t].buffer = saver[t].buffer /\ saver'[t].last = saver[t].last
         /\ \A o \in Threads : o # t => saver'[o] = saver[o]
<1>1. saver \in [Threads -> SaverType]
  BY SaverNow
<1>2. PICK old \in SaverType : old = saver[t]
  BY <1>1
<1>3. PICK new \in SaverType : new = [old EXCEPT !.pc = pc]
  BY DEF SaverType
<1>4. saver' = [saver EXCEPT ![t] = new]
  BY <1>2, <1>3 DEF Step
<1>5. new.pc = pc /\ new.buffer = old.buffer /\ new.last = old.last
  BY <1>3 DEF SaverType
<1> QED BY <1>2, <1>4, <1>5, SaverSet

LEMMA HeldTyped ==
  ASSUME TypeOK, NEW t \in Threads
  PROVE  Held(t) \in Seq(Symbols) /\ saver[t].buffer \in Seq(Symbols) /\ saver[t].last \in Profiles \cup {-1}
<1>1. saver[t] \in SaverType /\ text \in Seq(Symbols)
  BY SaverNow
<1>2. saver[t].buffer \in Seq(Symbols) /\ saver[t].last \in Profiles \cup {-1}
  BY <1>1 DEF SaverType
<1> QED BY <1>1, <1>2, ConcatProperties DEF Held

\* Somebody begins to change the table or to save it, or changes it and is to
\* save it; nobody touches the file.
LEMMA QuietStep ==
  ASSUME FileInv, NEW t \in Threads, ~Open(t), NEW pc \in {"insert", "open"}, Step(t, pc),
         text' = text, mixed' = mixed, NEW new, new = masterTable', DOMAIN masterTable \subseteq DOMAIN new,
         \A u \in DOMAIN masterTable : masterTable[u] \subseteq new[u]
  PROVE  Rested' /\ Alone' /\ FileSound' /\ HeldSound' /\ HeldExact' /\ FileExact'
<1>1. /\ TypeOK /\ saver' \in [Threads -> SaverType]
      /\ saver'[t].pc = pc /\ saver'[t].buffer = saver[t].buffer /\ saver'[t].last = saver[t].last
      /\ \A o \in Threads : o # t => saver'[o] = saver[o]
  BY SaverStep DEF FileInv
<1>2. \A o \in Threads : Open(o)' => Open(o) /\ saver'[o] = saver[o]
  BY <1>1 DEF Open
<1>3. Rested'
  BY <1>1 DEF FileInv, Rested, Open
<1>4. Alone'
  BY <1>2 DEF FileInv, Alone
<1>5. ASSUME NEW q, Sound(q, masterTable) PROVE Sound(q, new)
  BY <1>5, SoundGrows
<1>6. FileSound'
  <2>1. PICK q : q = text
    OBVIOUS
  <2>2. ~mixed => Sound(q, new) /\ OneLineEach(q)
    BY <1>5, <2>1 DEF FileInv, FileSound
  <2> QED BY <2>1, <2>2 DEF FileSound
<1>7. HeldSound'
  <2> SUFFICES ASSUME ~mixed, NEW o \in Threads, Open(o)'
               PROVE  RowsTo(Held(o), masterTable, saver[o].last)'
    BY DEF HeldSound
  <2>1. PICK q, last : q = Held(o) /\ last = saver[o].last
    OBVIOUS
  <2>2. Held(o)' = q /\ saver'[o].last = last
    BY <1>2, <2>1 DEF Held
  <2>3. RowsTo(q, masterTable, last)
    BY <1>2, <2>1 DEF FileInv, HeldSound
  <2>4. RowsTo(q, new, last)
    BY <1>5, <2>3 DEF RowsTo
  <2> QED BY <2>2, <2>4, NextSound
<1>8. ~Calm'
  BY <1>1 DEF Calm
<1> QED BY <1>3, <1>4, <1>6, <1>7, <1>8 DEF HeldExact, FileExact

LEMMA SameStep ==
  ASSUME FileInv, saver' = saver, text' = text, mixed' = mixed, missed' = missed,
         masterTable' = masterTable, running' = running
  PROVE  Rested' /\ Alone' /\ FileSound' /\ HeldSound' /\ HeldExact' /\ FileExact'
BY DEF FileInv, Rested, Alone, FileSound, HeldSound, HeldExact, FileExact, Calm, Open, Held

LEMMA ConnectStep ==
  ASSUME BackupFileAssumption, FileInv, NEW u \in Profiles, ReceiveConnect(u)
  PROVE  FileInv'
<1>1. TypeOK /\ Loop \in Threads /\ saver \in [Threads -> SaverType] /\ masterTable \in Tables
  BY SaverNow DEF FileInv, Threads
<1>2. text' = text /\ mixed' = mixed /\ missed' = missed /\ masterTable' = masterTable /\ running' = running
  BY DEF ReceiveConnect, fileVars
<1>3. CASE u \in DOMAIN masterTable
  <2>1. saver' = saver /\ connecting' = connecting
    BY <1>3 DEF ReceiveConnect
  <2>2. TypeOK'
    BY <1>1, <1>2, <1>3, <2>1 DEF TypeOK, ReceiveConnect, fileVars
  <2>3. LoopInserts'
    BY <1>2, <2>1 DEF FileInv, LoopInserts
  <2> QED BY <1>2, <2>1, <2>2, <2>3, SameStep DEF FileInv
<1>4. CASE u \notin DOMAIN masterTable
  <2>1. Step(Loop, "insert") /\ connecting' = u /\ saver[Loop].pc = "rest"
    BY <1>4 DEF ReceiveConnect
  <2>2. saver' \in [Threads -> SaverType] /\ saver'[Loop].pc = "insert"
    BY <1>1, <2>1, SaverStep
  <2>3. TypeOK'
    BY <1>1, <1>2, <1>4, <2>1, <2>2 DEF TypeOK, ReceiveConnect, fileVars, Threads, SaverType, Symbols
  <2>4. LoopInserts'
    BY <1>2, <1>4, <2>1, <2>2 DEF LoopInserts
  <2>5. ~Open(Loop)
    BY <2>1 DEF Open
  <2>6. Rested' /\ Alone' /\ FileSound' /\ HeldSound' /\ HeldExact' /\ FileExact'
    BY <1>1, <1>2, <2>1, <2>5, QuietStep
  <2> QED BY <2>3, <2>4, <2>6 DEF FileInv
<1> QED BY <1>3, <1>4

LEMMA InsertStep ==
  ASSUME BackupFileAssumption, FileInv, InsertRow
  PROVE  FileInv'
<1>1. TypeOK /\ Loop \in Threads /\ saver \in [Threads -> SaverType] /\ masterTable \in Tables
  BY SaverNow DEF FileInv, Threads
<1>2. /\ text' = text /\ mixed' = mixed /\ saver[Loop].pc = "insert" /\ Step(Loop, "open")
      /\ connecting' = connecting
  BY DEF InsertRow, fileVars
<1>3. connecting \in Profiles \ DOMAIN masterTable
  BY <1>2 DEF FileInv, LoopInserts
<1>4. PICK new : new = masterTable'
  OBVIOUS
<1>5. /\ DOMAIN new = DOMAIN masterTable \cup {connecting}
      /\ new = [u \in DOMAIN new |-> new[u]] /\ new[connecting] = {}
      /\ \A u \in DOMAIN masterTable : new[u] = masterTable[u]
  BY <1>3, <1>4 DEF InsertRow
<1>6. new \in Tables
  BY <1>1, <1>3, <1>5, TablesIs
<1>7. saver' \in [Threads -> SaverType] /\ saver'[Loop].pc = "open"
  BY <1>1, <1>2, SaverStep
<1>8. TypeOK'
  BY <1>1, <1>4, <1>5, <1>6, <1>7 DEF TypeOK, InsertRow, fileVars, SaverType, Symbols
<1>9. LoopInserts'
  BY <1>2, <1>4, <1>5, <1>7 DEF LoopInserts
<1>10. ~Open(Loop)
  BY <1>2 DEF Open
<1>11. Rested' /\ Alone' /\ FileSound' /\ HeldSound' /\ HeldExact' /\ FileExact'
  BY <1>1, <1>2, <1>4, <1>5, <1>10, QuietStep
<1> QED BY <1>8, <1>9, <1>11 DEF FileInv

LEMMA FollowStep ==
  ASSUME BackupFileAssumption, FileInv, NEW u \in Profiles, NEW to \in Profiles, Follow(u, to)
  PROVE  FileInv'
<1>1. TypeOK /\ u \in Threads /\ saver \in [Threads -> SaverType] /\ masterTable \in Tables
  BY SaverNow DEF FileInv, Threads
<1>2. /\ text' = text /\ mixed' = mixed /\ saver[u].pc = "rest" /\ Step(u, "open")
      /\ connecting' = connecting
      /\ u \in DOMAIN masterTable /\ to \in DOMAIN masterTable \ {u}
  BY <1>1 DEF Follow, fileVars, TypeOK
<1>3. PICK new : new = masterTable'
  OBVIOUS
<1>4. /\ DOMAIN new = DOMAIN masterTable /\ new = [v \in DOMAIN new |-> new[v]]
      /\ new[to] = masterTable[to] \cup {u}
      /\ \A v \in DOMAIN masterTable : v # to => new[v] = masterTable[v]
  BY <1>2, <1>3 DEF Follow
<1>5. new \in Tables
  <2>1. ASSUME NEW v \in DOMAIN new PROVE new[v] \subseteq Profiles /\ v \notin new[v]
    <3>1. masterTable[v] \subseteq Profiles /\ v \notin masterTable[v]
      BY <1>1, <1>4, TablesIs
    <3> QED BY <1>2, <1>4, <3>1
  <2> QED BY <1>1, <1>4, <2>1, TablesIs
<1>6. /\ saver' \in [Threads -> SaverType] /\ saver'[u].pc = "open"
      /\ Loop # u => saver'[Loop] = saver[Loop]
  BY <1>1, <1>2, SaverStep DEF Threads
<1>7. TypeOK'
  <2>1. masterTable' \in Tables /\ saver' \in [Threads -> SaverType]
    BY <1>3, <1>5, <1>6
  <2>2. /\ connected' = connected /\ connected \subseteq DOMAIN masterTable
        /\ DOMAIN masterTable' = DOMAIN masterTable
    BY <1>1, <1>3, <1>4 DEF TypeOK, Follow
  <2>3. /\ text' = text /\ {mixed', missed', running'} \subseteq BOOLEAN
        /\ connecting' = connecting /\ connecting \in Threads
        /\ follows' \in 0 .. MaxFollows /\ crashes' \in 0 .. MaxCrashes
    <3>1. /\ follows < MaxFollows /\ follows' = follows + 1
          /\ mixed' = mixed /\ missed' = missed /\ running' = running /\ crashes' = crashes
      BY DEF Follow, fileVars
    <3> QED BY <1>1, <1>2, <3>1 DEF TypeOK, BackupFileAssumption
  <2>4. text \in Seq(Symbols)
    BY <1>1, SaverNow
  <2> QED BY <2>1, <2>2, <2>3, <2>4 DEF TypeOK, SaverType, Symbols
<1>8. LoopInserts'
  BY <1>2, <1>3, <1>4, <1>6 DEF FileInv, LoopInserts, BackupFileAssumption
<1>9. ~Open(u)
  BY <1>2 DEF Open
<1>10. \A v \in DOMAIN masterTable : masterTable[v] \subseteq new[v]
  BY <1>4
<1>11. Rested' /\ Alone' /\ FileSound' /\ HeldSound' /\ HeldExact' /\ FileExact'
  BY <1>1, <1>2, <1>3, <1>4, <1>9, <1>10, QuietStep
<1> QED BY <1>7, <1>8, <1>11 DEF FileInv

LEMMA IdleTyped == Idle \in SaverType /\ Idle.pc = "rest" /\ Idle.buffer = <<>> /\ Idle.last = -1
BY EmptySeq DEF Idle, SaverType

LEMMA ReturnsStep ==
  ASSUME BackupFileAssumption, FileInv, NEW t \in Threads, Returns(t), saver[t].pc \in {"open", "walk"},
         masterTable' = masterTable
  PROVE  /\ saver' \in [Threads -> SaverType] /\ saver'[t] = Idle
         /\ \A o \in Threads : o # t => saver'[o] = saver[o]
         /\ \A o \in Threads : Open(o)' => o # t /\ Open(o)
         /\ connecting' \in Threads /\ connected' \subseteq DOMAIN masterTable
         /\ LoopInserts' /\ Rested'
<1>1. TypeOK /\ Loop \in Threads
  BY DEF FileInv, Threads
<1>2. /\ saver' \in [Threads -> SaverType] /\ saver'[t] = Idle
      /\ \A o \in Threads : o # t => saver'[o] = saver[o]
  BY <1>1, IdleTyped, SaverSet DEF Returns
<1>3. \A o \in Threads : Open(o)' => o # t /\ Open(o)
  BY <1>2, IdleTyped DEF Open
<1>4. connecting' \in Threads /\ connected' \subseteq DOMAIN masterTable
  <2>1. connected \subseteq DOMAIN masterTable /\ connecting \in Threads
    BY <1>1 DEF TypeOK
  <2>2. t = Loop => connecting \in DOMAIN masterTable
    BY DEF FileInv, LoopInserts
  <2> QED BY <1>1, <2>1, <2>2 DEF Returns
<1>5. LoopInserts'
  <2>1. CASE t = Loop
    BY <1>2, <2>1, IdleTyped DEF LoopInserts
  <2>2. CASE t # Loop
    <3>1. connecting' = connecting /\ saver'[Loop] = saver[Loop]
      BY <1>1, <1>2, <2>2 DEF Returns
    <3> QED BY <3>1 DEF FileInv, LoopInserts
  <2> QED BY <2>1, <2>2
<1>6. Rested'
  BY <1>2, IdleTyped DEF FileInv, Rested
<1> QED BY <1>2, <1>3, <1>4, <1>5, <1>6

LEMMA OpenFailsStep ==
  ASSUME BackupFileAssumption, FileInv, NEW t \in Threads, OpenFails(t)
  PROVE  FileInv'
<1>1. /\ saver[t].pc = "open" /\ Returns(t) /\ missed' = TRUE
      /\ text' = text /\ mixed' = mixed /\ masterTable' = masterTable
      /\ running' = running /\ follows' = follows /\ crashes' = crashes
  BY DEF OpenFails, tableVars
<1>2. /\ saver' \in [Threads -> SaverType] /\ saver'[t] = Idle
      /\ \A o \in Threads : o # t => saver'[o] = saver[o]
      /\ \A o \in Threads : Open(o)' => o # t /\ Open(o)
      /\ connecting' \in Threads /\ connected' \subseteq DOMAIN masterTable
      /\ LoopInserts' /\ Rested'
  BY <1>1, ReturnsStep
<1>3. TypeOK'
  BY <1>1, <1>2 DEF FileInv, TypeOK, SaverType, Symbols
<1>4. Alone'
  BY <1>1, <1>2 DEF FileInv, Alone
<1>5. FileSound'
  BY <1>1 DEF FileInv, FileSound
<1>6. HeldSound'
  <2> SUFFICES ASSUME ~mixed, NEW o \in Threads, Open(o)'
               PROVE  RowsTo(Held(o), masterTable, saver[o].last)'
    BY <1>1 DEF HeldSound
  <2>1. PICK q, last : q = Held(o) /\ last = saver[o].last
    OBVIOUS
  <2>2. Held(o)' = q /\ saver'[o].last = last
    BY <1>1, <1>2, <2>1 DEF Held
  <2>3. RowsTo(q, masterTable, last)
    BY <1>2, <2>1 DEF FileInv, HeldSound
  <2> QED BY <1>1, <2>2, <2>3, NextSound
<1>7. ~Calm'
  BY <1>1 DEF Calm
<1> QED BY <1>2, <1>3, <1>4, <1>5, <1>6, <1>7 DEF FileInv, HeldExact, FileExact

LEMMA OpenFileStep ==
  ASSUME BackupFileAssumption, FileInv, NEW t \in Threads, OpenFile(t)
  PROVE  FileInv'
<1>1. /\ saver[t].pc = "open" /\ Step(t, "walk") /\ text' = <<>>
      /\ mixed' = \E other \in Threads : Open(other)
      /\ missed' \in BOOLEAN
      /\ masterTable' = masterTable /\ connected' = connected /\ connecting' = connecting
      /\ running' = running /\ follows' = follows /\ crashes' = crashes
  BY DEF OpenFile, tableVars
<1>2. /\ saver' \in [Threads -> SaverType] /\ saver'[t].pc = "walk"
      /\ saver'[t].buffer = <<>> /\ saver'[t].last = -1
      /\ \A o \in Threads : o # t => saver'[o] = saver[o]
  BY <1>1, SaverStep DEF FileInv, Rested
<1>3. mixed' \in BOOLEAN
  BY <1>1
<1>4. TypeOK'
  <2>1. text' \in Seq(Symbols)
    BY <1>1, EmptySeq
  <2>2. {mixed', missed', running'} \subseteq BOOLEAN
    BY <1>1, <1>3 DEF FileInv, TypeOK
  <2>3. /\ masterTable' \in Tables /\ connected' \subseteq DOMAIN masterTable' /\ connecting' \in Threads
        /\ follows' \in 0 .. MaxFollows /\ crashes' \in 0 .. MaxCrashes
    BY <1>1 DEF FileInv, TypeOK
  <2>4. saver' \in [Threads -> SaverType]
    BY <1>2
  <2> QED BY <2>1, <2>2, <2>3, <2>4 DEF TypeOK, SaverType, Symbols
<1>5. LoopInserts'
  <2>1. LoopInserts /\ Loop \in Threads /\ masterTable' = masterTable /\ connecting' = connecting
    BY <1>1 DEF FileInv, Threads
  <2>2. CASE t = Loop
    <3>1. saver'[Loop].pc = "walk" /\ saver[Loop].pc = "open"
      BY <1>1, <1>2, <2>2
    <3> QED BY <2>1, <3>1 DEF LoopInserts
  <2>3. CASE t # Loop
    <3>1. saver'[Loop] = saver[Loop]
      BY <1>2, <2>1, <2>3
    <3> QED BY <2>1, <3>1 DEF LoopInserts
  <2> QED BY <2>2, <2>3
<1>6. Rested'
  BY <1>2 DEF FileInv, Rested
<1>7. ~mixed' => \A o \in Threads : Open(o)' => o = t
  BY <1>1, <1>2 DEF Open
<1>8. Alone'
  BY <1>7 DEF Alone
<1>9. FileSound'
  BY <1>1, NoLines DEF FileSound, Sound, OneLineEach
<1>10. PICK q \in Seq(Symbols) : q = <<>>
  BY EmptySeq
<1>11. Held(t)' = q
  BY <1>1, <1>2, <1>10, ConcatEmptySeq DEF Held
<1>12. RowsTo(q, masterTable, -1) /\ Matches(q, masterTable)
  BY <1>10, NoLines DEF RowsTo, Whole, Sound, OneLineEach, UpTo, Matches
<1>13. HoldsTo(q, masterTable, -1)
  <2>1. DOMAIN masterTable \subseteq Nat
    BY SaverNow, TablesIs DEF FileInv, BackupFileAssumption
  <2> QED BY <2>1 DEF HoldsTo
<1>14. PICK table : table = masterTable
  OBVIOUS
<1>15. HeldSound'
  <2> SUFFICES ASSUME ~mixed', NEW o \in Threads, Open(o)'
               PROVE  RowsTo(Held(o), masterTable, saver[o].last)'
    BY DEF HeldSound
  <2>1. o = t
    BY <1>7
  <2> QED BY <1>1, <1>2, <1>11, <1>12, <2>1, NextSound
<1>16. HeldExact'
  <2> SUFFICES ASSUME ~mixed', NEW o \in Threads, Open(o)'
               PROVE  (Matches(Held(o), masterTable) /\ HoldsTo(Held(o), masterTable, saver[o].last))'
    BY DEF HeldExact, Calm
  <2>1. o = t
    BY <1>7
  <2> QED BY <1>1, <1>2, <1>11, <1>12, <1>13, <2>1
<1>17. Open(t)'
  BY <1>2 DEF Open
<1> QED BY <1>4, <1>5, <1>6, <1>8, <1>9, <1>15, <1>16, <1>17 DEF FileInv, FileExact

LEMMA LastTyped ==
  ASSUME BackupFileAssumption, NEW last \in Profiles \cup {-1}
  PROVE  last \in Int
<1>1. CASE last \in Profiles
  BY <1>1 DEF BackupFileAssumption
<1>2. CASE last = -1
  BY <1>2
<1> QED BY <1>1, <1>2

\* The row that the iterator comes to is behind those it has passed, and none
\* is left out unless the loop is in the midst of an insert.
LEMMA NextRow ==
  ASSUME BackupFileAssumption, TypeOK, NEW t \in Threads, NEW u \in NextRows(t)
  PROVE  /\ u \in DOMAIN masterTable /\ u \in Profiles /\ u \in Nat
         /\ saver[t].last \in Int /\ saver[t].last < u
         /\ saver[Loop].pc # "insert" => \A v \in DOMAIN masterTable : v > saver[t].last => u <= v
<1>1. u \in DOMAIN masterTable /\ u > saver[t].last
  BY DEF NextRows
<1>2. DOMAIN masterTable \subseteq Profiles
  BY SaverNow, TablesIs
<1>3. saver[t].last \in Profiles \cup {-1}
  BY HeldTyped
<1>4. saver[t].last \in Int /\ u \in Nat
  <2>1. PICK last \in Profiles \cup {-1} : last = saver[t].last
    BY <1>3
  <2>2. Profiles \subseteq Nat
    BY DEF BackupFileAssumption
  <2>3. last \in Int
    BY LastTyped
  <2> QED BY <1>1, <1>2, <2>1, <2>2, <2>3
<1>5. ASSUME saver[Loop].pc # "insert", NEW v \in DOMAIN masterTable, v > saver[t].last
      PROVE  u <= v
  BY <1>5 DEF NextRows
<1> QED BY <1>1, <1>2, <1>4, <1>5

Groups(a, b, c) == (a \o b) \o c = a \o (b \o c)

LEMMA Regrouped ==
  ASSUME NEW a \in Seq(Symbols), NEW b \in Seq(Symbols), NEW c \in Seq(Symbols)
  PROVE  Groups(a, b, c)
BY ConcatAssociative DEF Groups

LEMMA WriteRowStep ==
  ASSUME BackupFileAssumption, FileInv, NEW t \in Threads, WriteRow(t)
  PROVE  FileInv'
<1>t. TypeOK /\ Loop \in Threads /\ saver \in [Threads -> SaverType] /\ masterTable \in Tables
  BY SaverNow DEF FileInv, Threads
<1>1. /\ saver[t].pc = "walk" /\ text' = text /\ mixed' = mixed /\ missed' = missed
      /\ masterTable' = masterTable /\ connected' = connected /\ connecting' = connecting
      /\ running' = running /\ follows' = follows /\ crashes' = crashes
  BY DEF WriteRow, tableVars
<1>2. PICK u \in NextRows(t) :
        saver' = [saver EXCEPT ![t].buffer = @ \o RowText(u, masterTable[u]), ![t].last = u]
  BY DEF WriteRow
<1>3. PICK table, last : table = masterTable /\ last = saver[t].last
  OBVIOUS
<1>4. /\ u \in DOMAIN table /\ u \in Profiles /\ u \in Nat /\ last \in Int /\ last < u
      /\ saver[Loop].pc # "insert" => \A v \in DOMAIN table : v > last => u <= v
  BY <1>t, <1>3, NextRow
<1>5. DOMAIN table \subseteq Profiles /\ table[u] \subseteq Profiles /\ u \notin table[u]
  BY <1>t, <1>3, <1>4, TablesIs
<1>6. PICK row \in Seq(Symbols) : row = RowText(u, table[u])
  BY <1>4, <1>5, RowRead
<1>7. PICK buffer \in Seq(Symbols) : buffer = saver[t].buffer
  BY <1>t, HeldTyped
<1>8. PICK longer \in Seq(Symbols) : longer = buffer \o row
  BY ConcatProperties
<1>9. /\ saver' \in [Threads -> SaverType] /\ saver'[t].pc = "walk"
      /\ saver'[t].buffer = longer /\ saver'[t].last = u
      /\ \A o \in Threads : o # t => saver'[o] = saver[o]
  <2>1. PICK old \in SaverType : old = saver[t]
    BY <1>t
  <2>2. PICK new \in SaverType : new = [old EXCEPT !.buffer = longer, !.last = u]
    BY <1>4 DEF SaverType
  <2>3. saver' = [saver EXCEPT ![t] = new]
    BY <1>2, <1>3, <1>6, <1>7, <1>8, <2>1, <2>2
  <2>4. new.pc = old.pc /\ new.buffer = longer /\ new.last = u
    BY <2>2 DEF SaverType
  <2> QED BY <1>1, <1>t, <2>1, <2>3, <2>4, SaverSet
<1>10. TypeOK'
  BY <1>t, <1>1, <1>9 DEF TypeOK, SaverType, Symbols
<1>11. \A o \in Threads : saver'[o].pc = saver[o].pc
  BY <1>1, <1>9
<1>12. LoopInserts'
  BY <1>t, <1>1, <1>11 DEF FileInv, LoopInserts
<1>13. Rested'
  BY <1>9 DEF FileInv, Rested
<1>14. Alone'
  BY <1>1, <1>11 DEF FileInv, Alone, Open
<1>15. FileSound'
  BY <1>1 DEF FileInv, FileSound
<1>16. PICK a \in Seq(Symbols), q \in Seq(Symbols) : a = Held(t) /\ q = a \o row
  BY <1>t, HeldTyped, ConcatProperties
<1>17. Held(t)' = q
  <2>1. PICK old \in Seq(Symbols) : old = text
    BY <1>t, SaverNow
  <2>0. Groups(old, buffer, row)
    BY Regrouped
  <2>2. (old \o buffer) \o row = old \o (buffer \o row)
    BY <2>0 DEF Groups
  <2> QED BY <1>1, <1>7, <1>8, <1>9, <1>16, <2>1, <2>2 DEF Held
<1>18. ~mixed => \A o \in Threads : Open(o) => o = t
  BY <1>1 DEF FileInv, Alone, Open
<1>19. Open(t) /\ \A o \in Threads : Open(o)' => Open(o)
  BY <1>1, <1>11 DEF Open
<1>20. ASSUME ~mixed
       PROVE  /\ RowsTo(q, table, u) /\ Holds(q, u)
              /\ Matches(a, table) => Matches(q, table)
              /\ \A v : Holds(a, v) => Holds(q, v)
  <2>1. RowsTo(a, table, last)
    BY <1>3, <1>16, <1>19, <1>20 DEF FileInv, HeldSound
  <2>2. Whole(a) /\ Sound(a, table) /\ OneLineEach(a)
    BY <2>1 DEF RowsTo
  <2>3. ASSUME NEW i \in LineStarts(a) PROVE a[i] < u
    <3>1. a[i] <= last
      BY <2>1 DEF RowsTo, UpTo
    <3>2. a[i] \in Nat
      BY <1>5, <2>2 DEF Sound, BackupFileAssumption
    <3> QED BY <1>4, <3>1, <3>2
  <2>4. q = a \o RowText(u, table[u])
    BY <1>6, <1>16
  <2>5. Whole(q) /\ RowMore(q, a, u, table)
    BY <1>4, <1>5, <2>2, <2>3, <2>4, RowAdded
  <2> QED BY <2>5 DEF RowMore, RowsTo
<1>21. HeldSound'
  <2> SUFFICES ASSUME ~mixed, NEW o \in Threads, Open(o)'
               PROVE  RowsTo(Held(o), masterTable, saver[o].last)'
    BY <1>1 DEF HeldSound
  <2>1. o = t
    BY <1>18, <1>19
  <2> QED BY <1>1, <1>3, <1>9, <1>17, <1>20, <2>1, NextSound
<1>22. Calm' => Calm
  BY <1>1, <1>11 DEF Calm
<1>23. ASSUME Calm PROVE Matches(q, table) /\ HoldsTo(q, table, u)
  <2>1. ~mixed /\ saver[Loop].pc # "insert"
    BY <1>t, <1>23 DEF Calm
  <2>2. Matches(a, table) /\ HoldsTo(a, table, last)
    BY <1>3, <1>16, <1>19, <1>23 DEF FileInv, HeldExact
  <2>3. ASSUME NEW v \in DOMAIN table, v <= u PROVE Holds(q, v)
    <3>1. v \in Nat
      BY <1>5 DEF BackupFileAssumption
    <3>2. CASE v <= last
      BY <1>20, <2>1, <2>2, <3>2 DEF HoldsTo
    <3>3. CASE ~(v <= last)
      <4>1. v > last
        BY <1>4, <3>1, <3>3
      <4>2. u <= v
        BY <1>4, <2>1, <4>1
      <4>3. u = v
        BY <1>4, <2>3, <3>1, <4>2
      <4> QED BY <1>20, <2>1, <4>3
    <3> QED BY <3>2, <3>3
  <2>4. Matches(q, table)
    BY <1>20, <2>1, <2>2
  <2> QED BY <2>3, <2>4 DEF HoldsTo
<1>24. HeldExact'
  <2> SUFFICES ASSUME Calm', NEW o \in Threads, Open(o)'
               PROVE  (Matches(Held(o), masterTable) /\ HoldsTo(Held(o), masterTable, saver[o].last))'
    BY DEF HeldExact
  <2>1. o = t
    BY <1>18, <1>19, <1>22 DEF Calm
  <2>2. Matches(q, table) /\ HoldsTo(q, table, u)
    BY <1>22, <1>23
  <2> QED BY <1>1, <1>3, <1>9, <1>17, <2>1, <2>2
<1>25. Open(t)'
  BY <1>9 DEF Open
<1> QED BY <1>10, <1>12, <1>13, <1>14, <1>15, <1>21, <1>24, <1>25 DEF FileInv, FileExact

LEMMA BlockCut ==
  ASSUME BackupFileAssumption, NEW buffer \in Seq(Symbols), Len(buffer) >= BufferSize
  PROVE  \E block \in Seq(Symbols), rest \in Seq(Symbols) :
           /\ block = SubSeq(buffer, 1, BufferSize)
           /\ rest = SubSeq(buffer, BufferSize + 1, Len(buffer))
           /\ block \o rest = buffer
<1>1. PICK n \in Nat, size \in Nat \ {0} : n = Len(buffer) /\ size = BufferSize /\ size <= n
  BY LenProperties DEF BackupFileAssumption
<1>2. \A i \in 1 .. n : buffer[i] \in Symbols
  BY <1>1, ElementOfSeq
<1>3. SubSeq(buffer, 1, size) \in Seq(Symbols)
  <2>1. \A i \in 1 .. size : buffer[i] \in Symbols
    BY <1>1, <1>2
  <2> QED BY <1>1, <2>1, SubSeqProperties
<1>4. SubSeq(buffer, size + 1, n) \in Seq(Symbols)
  <2>1. \A i \in size + 1 .. n : buffer[i] \in Symbols
    BY <1>1, <1>2
  <2>2. size + 1 \in Int /\ n \in Int
    BY <1>1
  <2> QED BY <2>1, <2>2, SubSeqProperties
<1>5. SubSeq(buffer, 1, size) \o SubSeq(buffer, size + 1, n) = buffer
  <2>1. 1 \in 1 .. Len(buffer) + 1 /\ size \in 1 - 1 .. Len(buffer) /\ n \in size .. Len(buffer)
    BY <1>1
  <2>2. SubSeq(buffer, 1, size) \o SubSeq(buffer, size + 1, n) = SubSeq(buffer, 1, n)
    BY <2>1, ConcatAdjacentSubSeq
  <2> QED BY <1>1, <2>2, SubSeqFull
<1> QED BY <1>1, <1>3, <1>4, <1>5

LEMMA WriteBlockStep ==
  ASSUME BackupFileAssumption, FileInv, NEW t \in Threads, WriteBlock(t)
  PROVE  FileInv'
<1>t. TypeOK /\ Loop \in Threads /\ saver \in [Threads -> SaverType] /\ text \in Seq(Symbols)
  BY SaverNow DEF FileInv, Threads
<1>1. /\ saver[t].pc = "walk" /\ mixed' = mixed /\ missed' = missed
      /\ masterTable' = masterTable /\ connected' = connected /\ connecting' = connecting
      /\ running' = running /\ follows' = follows /\ crashes' = crashes
  BY DEF WriteBlock, tableVars
<1>2. PICK buffer \in Seq(Symbols) : buffer = saver[t].buffer
  BY <1>t, HeldTyped
<1>3. Len(buffer) >= BufferSize
  BY <1>2 DEF WriteBlock
<1>4. PICK block \in Seq(Symbols), rest \in Seq(Symbols) :
        /\ block = SubSeq(buffer, 1, BufferSize) /\ rest = SubSeq(buffer, BufferSize + 1, Len(buffer))
        /\ block \o rest = buffer
  BY <1>3, BlockCut
<1>5. text' = IF mixed THEN <<>> ELSE text \o block
  BY <1>2, <1>4 DEF WriteBlock, Put
<1>6. /\ saver' \in [Threads -> SaverType] /\ saver'[t].pc = "walk"
      /\ saver'[t].buffer = rest /\ saver'[t].last = saver[t].last
      /\ \A o \in Threads : o # t => saver'[o] = saver[o]
  <2>1. PICK old \in SaverType : old = saver[t]
    BY <1>t
  <2>2. PICK new \in SaverType : new = [old EXCEPT !.buffer = rest]
    BY DEF SaverType
  <2>3. saver' = [saver EXCEPT ![t] = new]
    BY <1>2, <1>4, <2>1, <2>2 DEF WriteBlock
  <2>4. new.pc = old.pc /\ new.buffer = rest /\ new.last = old.last
    BY <2>2 DEF SaverType
  <2> QED BY <1>1, <1>t, <2>1, <2>3, <2>4, SaverSet
<1>7. PICK old \in Seq(Symbols), cut \in Seq(Symbols), q \in Seq(Symbols) :
        old = text /\ cut = old \o block /\ q = cut \o rest
  BY <1>t, ConcatProperties
<1>8. q = Held(t)
  <2>0. Groups(old, block, rest)
    BY Regrouped
  <2>1. (old \o block) \o rest = old \o (block \o rest)
    BY <2>0 DEF Groups
  <2> QED BY <1>2, <1>4, <1>7, <2>1 DEF Held
<1>9. text' \in Seq(Symbols) /\ (~mixed => text' = cut /\ Held(t)' = q)
  BY <1>1, <1>5, <1>6, <1>7, EmptySeq DEF Held
<1>10. TypeOK'
  BY <1>t, <1>1, <1>6, <1>9 DEF TypeOK, SaverType, Symbols
<1>11. \A o \in Threads : saver'[o].pc = saver[o].pc /\ saver'[o].last = saver[o].last
  BY <1>1, <1>6
<1>12. LoopInserts'
  BY <1>t, <1>1, <1>11 DEF FileInv, LoopInserts
<1>13. Rested'
  BY <1>6 DEF FileInv, Rested
<1>14. Alone'
  BY <1>1, <1>11 DEF FileInv, Alone, Open
<1>15. ~mixed => \A o \in Threads : Open(o) => o = t
  BY <1>1 DEF FileInv, Alone, Open
<1>16. Open(t) /\ \A o \in Threads : Open(o)' <=> Open(o)
  BY <1>1, <1>11 DEF Open
<1>17. PICK table, last : table = masterTable /\ last = saver[t].last
  OBVIOUS
<1>18. ~mixed => RowsTo(q, table, last)
  BY <1>8, <1>16, <1>17 DEF FileInv, HeldSound
<1>19. FileSound'
  <2> SUFFICES ASSUME ~mixed PROVE Sound(cut, table) /\ OneLineEach(cut)
    BY <1>1, <1>9, <1>17 DEF FileSound
  <2>1. Sound(cut \o rest, table) /\ OneLineEach(cut \o rest)
    BY <1>7, <1>18 DEF RowsTo
  <2> QED BY <2>1, SoundCut
<1>20. HeldSound'
  <2> SUFFICES ASSUME ~mixed, NEW o \in Threads, Open(o)'
               PROVE  RowsTo(Held(o), masterTable, saver[o].last)'
    BY <1>1 DEF HeldSound
  <2>1. o = t
    BY <1>15, <1>16
  <2> QED BY <1>1, <1>9, <1>11, <1>17, <1>18, <2>1, NextSound
<1>21. Calm' => Calm
  BY <1>1, <1>11 DEF Calm
<1>22. HeldExact'
  <2> SUFFICES ASSUME Calm', NEW o \in Threads, Open(o)'
               PROVE  (Matches(Held(o), masterTable) /\ HoldsTo(Held(o), masterTable, saver[o].last))'
    BY DEF HeldExact
  <2>1. ~mixed /\ o = t
    BY <1>15, <1>16, <1>21 DEF Calm
  <2>2. Matches(q, table) /\ HoldsTo(q, table, last)
    BY <1>8, <1>16, <1>17, <1>21 DEF FileInv, HeldExact
  <2> QED BY <1>1, <1>9, <1>11, <1>17, <2>1, <2>2
<1> QED BY <1>10, <1>12, <1>13, <1>14, <1>16, <1>19, <1>20, <1>22 DEF FileInv, FileExact

\* The walk ends when the table has no row behind the one that was written last.
LEMMA WalkEnds ==
  ASSUME BackupFileAssumption, TypeOK, NEW t \in Threads,
         NextRows(t) = {}, saver[Loop].pc # "insert"
  PROVE  \A v \in DOMAIN masterTable : v <= saver[t].last
<1>1. PICK last \in Profiles \cup {-1} : last = saver[t].last
  BY HeldTyped
<1>2. PICK rows \in SUBSET Nat : rows = DOMAIN masterTable
  BY SaverNow, TablesIs DEF BackupFileAssumption
<1>3. last \in Int
  BY LastTyped
<1>4. PICK later \in SUBSET Nat : later = {u \in rows : u > last}
  OBVIOUS
<1>5. CASE later # {}
  <2>1. PICK u \in later : \A v \in later : u <= v
    BY <1>5, Least
  <2>2. u \in NextRows(t)
    BY <1>1, <1>2, <1>4, <2>1 DEF NextRows
  <2> QED BY <2>2
<1>6. CASE later = {}
  <2>1. ASSUME NEW v \in rows PROVE v <= last
    <3>1. ~(v > last)
      BY <1>4, <1>6, <2>1
    <3> QED BY <1>3, <2>1, <3>1
  <2> QED BY <1>1, <1>2, <2>1
<1> QED BY <1>5, <1>6

LEMMA CloseFileStep ==
  ASSUME BackupFileAssumption, FileInv, NEW t \in Threads, CloseFile(t)
  PROVE  FileInv'
<1>t. TypeOK /\ Loop \in Threads
  BY DEF FileInv, Threads
<1>1. /\ saver[t].pc = "walk" /\ Returns(t) /\ mixed' = mixed /\ missed' = missed
      /\ NextRows(t) = {} \/ saver[Loop].pc = "insert"
      /\ text' = IF mixed THEN <<>> ELSE Held(t)
      /\ masterTable' = masterTable /\ running' = running /\ follows' = follows /\ crashes' = crashes
  BY DEF CloseFile, tableVars, Put, Held
<1>2. /\ saver' \in [Threads -> SaverType] /\ saver'[t] = Idle
      /\ \A o \in Threads : o # t => saver'[o] = saver[o]
      /\ \A o \in Threads : Open(o)' => o # t /\ Open(o)
      /\ connecting' \in Threads /\ connected' \subseteq DOMAIN masterTable
      /\ LoopInserts' /\ Rested'
  BY <1>1, ReturnsStep
<1>3. PICK q \in Seq(Symbols) : q = Held(t)
  BY <1>t, HeldTyped
<1>4. text' \in Seq(Symbols) /\ (~mixed => text' = q)
  BY <1>1, <1>3, EmptySeq
<1>5. TypeOK'
  BY <1>t, <1>1, <1>2, <1>4 DEF TypeOK, SaverType, Symbols
<1>6. Open(t)
  BY <1>1 DEF Open
<1>7. ~mixed => \A o \in Threads : ~Open(o)'
  BY <1>2, <1>6 DEF FileInv, Alone
<1>8. Alone' /\ HeldSound' /\ HeldExact'
  BY <1>1, <1>7 DEF Alone, HeldSound, HeldExact, Calm
<1>9. PICK table, last : table = masterTable /\ last = saver[t].last
  OBVIOUS
<1>10. ~mixed => RowsTo(q, table, last)
  BY <1>3, <1>6, <1>9 DEF FileInv, HeldSound
<1>11. FileSound'
  BY <1>1, <1>4, <1>9, <1>10 DEF FileSound, RowsTo
<1>12. Calm' => Calm
  <2> SUFFICES ASSUME Calm' PROVE \A o \in Threads : saver[o].pc \in {"rest", "walk"}
    BY <1>1 DEF Calm
  <2> QED BY <1>1, <1>2 DEF Calm
<1>13. FileExact'
  <2> SUFFICES ASSUME Calm' PROVE Matches(q, table) /\ HoldsAll(q, table)
    BY <1>1, <1>4, <1>9 DEF FileExact, Calm
  <2>1. Matches(q, table) /\ HoldsTo(q, table, last)
    BY <1>3, <1>6, <1>9, <1>12 DEF FileInv, HeldExact
  <2>2. saver[Loop].pc # "insert"
    BY <1>t, <1>12 DEF Calm
  <2>3. \A v \in DOMAIN table : v <= last
    BY <1>t, <1>1, <1>9, <2>2, WalkEnds
  <2> QED BY <2>1, <2>3 DEF HoldsTo, HoldsAll
<1> QED BY <1>2, <1>5, <1>8, <1>11, <1>13 DEF FileInv

\* What a text of rows of a table is read back as.
LEMMA LoadSound ==
  ASSUME BackupFileAssumption, NEW q \in Seq(Symbols), NEW table \in Tables,
         Sound(q, table), OneLineEach(q)
  PROVE  /\ ~Throws(q) /\ Load(q) \in Tables
         /\ DOMAIN Load(q) \subseteq DOMAIN table
         /\ \A u \in DOMAIN Load(q) : Load(q)[u] \subseteq table[u]
         /\ Matches(q, Load(q)) /\ HoldsAll(q, Load(q))
<1>1. PICK loaded : loaded = Load(q)
  OBVIOUS
<1>2. /\ DOMAIN loaded = {q[i] : i \in LineStarts(q)}
      /\ loaded = [u \in DOMAIN loaded |-> loaded[u]]
      /\ \A i \in LineStarts(q) : loaded[q[i]] = FollowersIn(q, i)
  BY <1>1, LoadIs
<1>3. /\ DOMAIN table \subseteq Profiles
      /\ \A u \in DOMAIN table : table[u] \subseteq Profiles /\ u \notin table[u]
  BY TablesIs
<1>4. ASSUME NEW u \in DOMAIN loaded
      PROVE  u \in DOMAIN table /\ loaded[u] \subseteq table[u]
  <2>1. PICK i \in LineStarts(q) : q[i] = u
    BY <1>2
  <2>2. loaded[u] = FollowersIn(q, i)
    BY <1>2, <2>1
  <2> QED BY <2>1, <2>2 DEF Sound
<1>5. ~Throws(q)
  <2>1. Newline \notin Profiles
    BY DEF BackupFileAssumption, Newline
  <2>2. ASSUME NEW i \in LineStarts(q) PROVE q[i] # Newline
    BY <1>3, <2>1 DEF Sound
  <2> QED BY <2>2 DEF Throws
<1>6. loaded \in Tables
  <2>1. \A u \in DOMAIN loaded : loaded[u] \subseteq Profiles /\ u \notin loaded[u]
    BY <1>3, <1>4
  <2>2. DOMAIN loaded \subseteq Profiles
    BY <1>3, <1>4
  <2> QED BY <1>2, <2>1, <2>2, TablesIs
<1>7. Matches(q, loaded) /\ HoldsAll(q, loaded)
  BY <1>2 DEF Matches, HoldsAll, Holds
<1> QED BY <1>1, <1>4, <1>5, <1>6, <1>7

LEMMA CrashStep ==
  ASSUME BackupFileAssumption, FileInv, Crash
  PROVE  FileInv'
<1>t. TypeOK /\ Loop \in Threads /\ text \in Seq(Symbols) /\ masterTable \in Tables
  BY SaverNow DEF FileInv, Threads
<1>1. /\ text' = text /\ mixed' = mixed /\ missed' = missed /\ follows' = follows
      /\ crashes' = crashes + 1 /\ crashes < MaxCrashes
      /\ connected' = {} /\ connecting' = Loop /\ saver' = [o \in Threads |-> Idle]
  BY DEF Crash
<1>2. ~mixed => Sound(text, masterTable) /\ OneLineEach(text)
  BY DEF FileInv, FileSound
<1>3. PICK q \in Seq(Symbols), old \in Tables : q = text /\ old = masterTable
  BY <1>t
<1>4. ~mixed => /\ Load(q) \in Tables /\ ~Throws(q)
                /\ Matches(q, Load(q)) /\ HoldsAll(q, Load(q))
  BY <1>2, <1>3, LoadSound
<1>5. masterTable' \in Tables /\ running' \in BOOLEAN /\ (~mixed => masterTable' = Load(q))
  <2>1. CASE mixed
    <3>1. <<>> \in Tables
      <4>1. PICK table : table = <<>>
        OBVIOUS
      <4>2. DOMAIN table = {} /\ table = [u \in DOMAIN table |-> table[u]]
        BY <4>1
      <4> QED BY <4>1, <4>2, TablesIs
    <3> QED BY <2>1, <3>1 DEF Crash
  <2>2. CASE ~mixed
    <3>1. masterTable' = Load(q) /\ running' = ~Throws(q)
      BY <1>3, <2>2 DEF Crash
    <3> QED BY <1>4, <2>2, <3>1
  <2> QED BY <2>1, <2>2
<1>6. saver' \in [Threads -> SaverType] /\ \A o \in Threads : saver'[o] = Idle /\ ~Open(o)'
  BY <1>1, IdleTyped DEF Open
<1>7. TypeOK'
  BY <1>t, <1>1, <1>5, <1>6 DEF TypeOK, SaverType, Symbols, BackupFileAssumption
<1>8. LoopInserts' /\ Rested'
  BY <1>t, <1>6, IdleTyped DEF LoopInserts, Rested
<1>9. Alone' /\ HeldSound' /\ HeldExact'
  BY <1>6 DEF Alone, HeldSound, HeldExact
<1>10. PICK loaded : loaded = Load(q)
  OBVIOUS
<1>11. FileSound'
  <2> SUFFICES ASSUME ~mixed PROVE Sound(q, loaded) /\ OneLineEach(q)
    BY <1>1, <1>3, <1>5, <1>10 DEF FileSound
  <2> QED BY <1>2, <1>3, <1>4, <1>10 DEF Sound, Matches
<1>12. FileExact'
  <2> SUFFICES ASSUME ~mixed PROVE Matches(q, loaded) /\ HoldsAll(q, loaded)
    BY <1>1, <1>3, <1>5, <1>10 DEF FileExact, Calm
  <2> QED BY <1>4, <1>10
<1> QED BY <1>7, <1>8, <1>9, <1>11, <1>12 DEF FileInv

-----------------------------------------------------------------------------
(* The file at first.                                                       *)

IsList(q, n, names) ==
  /\ DOMAIN q = 1 .. 3 * n /\ q \in Seq(Symbols)
  /\ \A k \in 1 .. n : q[3 * k - 2] = names[k] /\ q[3 * k - 1] = Slash /\ q[3 * k] = Newline

LEMMA KnownListed ==
  ASSUME BackupFileAssumption
  PROVE  \E n \in Nat : \E names \in [1 .. n -> Known] :
           /\ \A u \in Known : \E k \in 1 .. n : names[k] = u
           /\ \A k, l \in 1 .. n : names[k] = names[l] => k = l
           /\ IsList(KnownRows, n, names)
<1>1. IsFiniteSet(Known)
  BY FS_Subset DEF BackupFileAssumption
<1>2. PICK n \in Nat : n = Cardinality(Known)
  BY <1>1, FS_CardinalityType
<1>3. \E f \in [1 .. n -> Known] : IsInjective(f)
  BY <1>1, <1>2, FS_CardinalityType DEF ExistsBijection, Bijection, Injection
<1>4. PICK names \in [1 .. n -> Known] : names = SetToSeq(Known) /\ IsInjective(names)
  BY <1>2, <1>3 DEF SetToSeq
<1>5. \A u \in Known : \E k \in 1 .. n : names[k] = u
  BY <1>1, <1>2, <1>4, Listed
<1>6. \A k, l \in 1 .. n : names[k] = names[l] => k = l
  BY <1>4 DEF IsInjective
<1> DEFINE Item(i) == CASE i % 3 = 1 -> names[(i + 2) \div 3]
                        [] i % 3 = 2 -> Slash
                        [] OTHER -> Newline
<1>7. KnownRows = [i \in 1 .. 3 * n |-> Item(i)]
  BY <1>2, <1>4 DEF KnownRows
<1>8. ASSUME NEW k \in 1 .. n
      PROVE  /\ 3 * k - 2 \in 1 .. 3 * n /\ Item(3 * k - 2) = names[k]
             /\ 3 * k - 1 \in 1 .. 3 * n /\ Item(3 * k - 1) = Slash
             /\ 3 * k \in 1 .. 3 * n /\ Item(3 * k) = Newline
  <2>1. /\ (3 * k - 2) % 3 = 1 /\ ((3 * k - 2) + 2) \div 3 = k
        /\ (3 * k - 1) % 3 = 2 /\ (3 * k) % 3 = 0
        /\ 3 * k - 2 \in 1 .. 3 * n /\ 3 * k - 1 \in 1 .. 3 * n /\ 3 * k \in 1 .. 3 * n
    OBVIOUS
  <2>2. PICK a \in 1 .. 3 * n, b \in 1 .. 3 * n, c \in 1 .. 3 * n :
          a = 3 * k - 2 /\ b = 3 * k - 1 /\ c = 3 * k
    BY <2>1
  <2>3. a % 3 = 1 /\ (a + 2) \div 3 = k /\ b % 3 = 2 /\ c % 3 = 0
    BY <2>1, <2>2
  <2>4. Item(a) = names[k]
    BY <2>3
  <2>5. Item(b) = Slash
    BY <2>3
  <2>6. Item(c) = Newline
    <3>1. c % 3 # 1 /\ c % 3 # 2
      BY <2>3
    <3> QED BY <3>1
  <2> QED BY <2>2, <2>4, <2>5, <2>6
<1>9. ASSUME NEW i \in 1 .. 3 * n PROVE Item(i) \in Symbols
  <2>1. CASE i % 3 = 1
    <3>1. (i + 2) \div 3 \in 1 .. n
      OBVIOUS
    <3>2. names[(i + 2) \div 3] \in Known
      BY <3>1
    <3> QED BY <2>1, <3>2 DEF Symbols, BackupFileAssumption
  <2>2. CASE i % 3 # 1
    BY <2>2 DEF Symbols
  <2> QED BY <2>1, <2>2
<1> HIDE DEF Item
<1>10. PICK m \in Nat : m = 3 * n
  OBVIOUS
<1>11. DOMAIN KnownRows = 1 .. 3 * n /\ KnownRows \in Seq(Symbols)
  <2>1. KnownRows \in [1 .. m -> Symbols]
    BY <1>7, <1>9, <1>10
  <2> QED BY <1>10, <2>1
<1>12. \A k \in 1 .. n : /\ KnownRows[3 * k - 2] = names[k] /\ KnownRows[3 * k - 1] = Slash
                         /\ KnownRows[3 * k] = Newline
  BY <1>7, <1>8
<1> QED BY <1>5, <1>6, <1>11, <1>12 DEF IsList

\* Each line is the row of a name, without followers.
ReadsAs(q, n, names) ==
  /\ \A i \in LineStarts(q) :
       FollowersIn(q, i) = {} /\ \E k \in 1 .. n : i = 3 * k - 2 /\ q[i] = names[k]
  /\ \A k \in 1 .. n : 3 * k - 2 \in LineStarts(q) /\ q[3 * k - 2] = names[k]

LEMMA ListRead ==
  ASSUME BackupFileAssumption, NEW n \in Nat, NEW names \in [1 .. n -> Known],
         NEW q, IsList(q, n, names)
  PROVE  ReadsAs(q, n, names)
<1>1. /\ DOMAIN q = 1 .. 3 * n /\ q \in Seq(Symbols) /\ Len(q) = 3 * n
      /\ \A k \in 1 .. n : q[3 * k - 2] = names[k] /\ q[3 * k - 1] = Slash /\ q[3 * k] = Newline
  <2>1. /\ DOMAIN q = 1 .. 3 * n /\ q \in Seq(Symbols)
        /\ \A k \in 1 .. n : q[3 * k - 2] = names[k] /\ q[3 * k - 1] = Slash /\ q[3 * k] = Newline
    BY DEF IsList
  <2>2. Len(q) \in Nat /\ 1 .. Len(q) = 1 .. 3 * n
    BY <2>1, LenProperties
  <2>3. Len(q) = 3 * n
    BY <2>2
  <2> QED BY <2>1, <2>3
<1>2. Slash \notin Profiles /\ Newline \notin Profiles /\ Slash # Newline /\ Known \subseteq Profiles
  BY DEF BackupFileAssumption, Slash, Newline
<1>3. ASSUME NEW k \in 1 .. n PROVE 3 * k - 2 \in LineStarts(q) /\ q[3 * k - 2] = names[k]
  <2>1. 3 * k - 2 \in 1 .. 3 * n
    OBVIOUS
  <2>2. CASE k = 1
    BY <1>1, <2>1, <2>2 DEF LineStarts
  <2>3. CASE k # 1
    <3>1. k - 1 \in 1 .. n /\ (3 * k - 2) - 1 = 3 * (k - 1)
      BY <2>3
    <3>2. q[(3 * k - 2) - 1] = Newline
      BY <1>1, <3>1
    <3> QED BY <1>1, <2>1, <3>2 DEF LineStarts
  <2> QED BY <2>2, <2>3
<1>4. ASSUME NEW i \in LineStarts(q) PROVE \E k \in 1 .. n : i = 3 * k - 2
  <2>1. i \in 1 .. 3 * n /\ (i = 1 \/ q[i - 1] = Newline)
    BY <1>1 DEF LineStarts
  <2>2. CASE i % 3 = 1
    <3>1. (i + 2) \div 3 \in 1 .. n /\ i = 3 * ((i + 2) \div 3) - 2
      BY <2>1, <2>2
    <3> QED BY <3>1
  <2>3. CASE i % 3 = 2
    <3>1. (i + 1) \div 3 \in 1 .. n /\ i - 1 = 3 * ((i + 1) \div 3) - 2
      BY <2>1, <2>3
    <3>2. PICK k \in 1 .. n : i - 1 = 3 * k - 2
      BY <3>1
    <3>3. q[3 * k - 2] = names[k] /\ names[k] \in Known
      BY <1>1
    <3>4. q[i - 1] \in Profiles
      BY <1>2, <3>2, <3>3
    <3>5. i # 1
      BY <2>3
    <3> QED BY <1>2, <2>1, <3>4, <3>5
  <2>4. CASE i % 3 = 0
    <3>1. i \div 3 \in 1 .. n /\ i - 1 = 3 * (i \div 3) - 1
      BY <2>1, <2>4
    <3>2. PICK k \in 1 .. n : i - 1 = 3 * k - 1
      BY <3>1
    <3>3. q[3 * k - 1] = Slash
      BY <1>1
    <3>4. q[i - 1] = Slash
      BY <3>2, <3>3
    <3>5. i # 1
      BY <2>4
    <3> QED BY <1>2, <2>1, <3>4, <3>5
  <2>5. i % 3 \in {0, 1, 2}
    BY <2>1
  <2> QED BY <2>2, <2>3, <2>4, <2>5
<1>5. ASSUME NEW k \in 1 .. n, NEW x \in FollowersIn(q, 3 * k - 2) PROVE FALSE
  <2>0. PICK i \in Nat : i = 3 * k - 2 /\ x \in FollowersIn(q, i)
    BY <1>5
  <2>i. PICK j \in i + 1 .. Len(q) : q[j] \in Profiles /\ \A l \in i .. j : q[l] # Newline
    BY <2>0 DEF FollowersIn
  <2>1. /\ j \in 3 * k - 1 .. 3 * n
        /\ q[j] \in Profiles /\ \A l \in 3 * k - 2 .. j : q[l] # Newline
    BY <1>1, <2>0, <2>i
  <2>2. CASE j >= 3 * k
    <3>1. 3 * k \in 3 * k - 2 .. j
      BY <2>1, <2>2
    <3> QED BY <1>1, <2>1, <3>1
  <2>3. CASE j < 3 * k
    <3>1. j = 3 * k - 1
      BY <2>1, <2>3
    <3> QED BY <1>1, <1>2, <2>1, <3>1
  <2> QED BY <2>1, <2>2, <2>3
<1>6. ASSUME NEW i \in LineStarts(q)
      PROVE  FollowersIn(q, i) = {} /\ \E k \in 1 .. n : i = 3 * k - 2 /\ q[i] = names[k]
  BY <1>1, <1>4, <1>5
<1> QED BY <1>3, <1>6 DEF ReadsAs

LEMMA FileInit == ASSUME BackupFileAssumption, Init PROVE FileInv
<1>1. PICK n \in Nat : \E names \in [1 .. n -> Known] :
        /\ \A u \in Known : \E k \in 1 .. n : names[k] = u
        /\ \A k, l \in 1 .. n : names[k] = names[l] => k = l
        /\ IsList(KnownRows, n, names)
  BY KnownListed
<1>2. PICK names \in [1 .. n -> Known] :
        /\ \A u \in Known : \E k \in 1 .. n : names[k] = u
        /\ \A k, l \in 1 .. n : names[k] = names[l] => k = l
        /\ IsList(KnownRows, n, names)
  BY <1>1
<1>3. PICK q : q = text
  OBVIOUS
<1>4. IsList(q, n, names)
  BY <1>2, <1>3 DEF Init
<1>5. /\ \A i \in LineStarts(q) :
           FollowersIn(q, i) = {} /\ \E k \in 1 .. n : i = 3 * k - 2 /\ q[i] = names[k]
      /\ \A k \in 1 .. n : 3 * k - 2 \in LineStarts(q) /\ q[3 * k - 2] = names[k]
  <2>1. ReadsAs(q, n, names)
    BY <1>4, ListRead
  <2> QED BY <2>1 DEF ReadsAs
<1>6. PICK table : table = masterTable
  OBVIOUS
<1>7. table = [u \in Known |-> {}] /\ Known \subseteq Profiles
  BY <1>6 DEF Init, BackupFileAssumption
<1>8. table \in Tables
  <2>1. /\ DOMAIN table \subseteq Profiles /\ table = [u \in DOMAIN table |-> table[u]]
        /\ \A u \in DOMAIN table : table[u] \subseteq Profiles /\ u \notin table[u]
    BY <1>7
  <2> QED BY <2>1, TablesIs
<1>9. Matches(q, table)
  <2>1. ASSUME NEW i \in LineStarts(q) PROVE q[i] \in DOMAIN table /\ FollowersIn(q, i) = table[q[i]]
    <3>1. FollowersIn(q, i) = {} /\ q[i] \in Known
      BY <1>5
    <3> QED BY <1>7, <3>1
  <2> QED BY <2>1 DEF Matches
<1>10. HoldsAll(q, table)
  <2>1. ASSUME NEW u \in Known PROVE Holds(q, u)
    <3>1. PICK k \in 1 .. n : names[k] = u
      BY <1>2
    <3> QED BY <1>5, <3>1 DEF Holds
  <2> QED BY <1>7, <2>1 DEF HoldsAll
<1>11. OneLineEach(q)
  <2>1. ASSUME NEW i \in LineStarts(q), NEW j \in LineStarts(q), q[i] = q[j] PROVE i = j
    <3>1. PICK k \in 1 .. n : i = 3 * k - 2 /\ q[i] = names[k]
      BY <1>5
    <3>2. PICK l \in 1 .. n : j = 3 * l - 2 /\ q[j] = names[l]
      BY <1>5
    <3>3. k = l
      BY <1>2, <2>1, <3>1, <3>2
    <3> QED BY <3>1, <3>2, <3>3
  <2> QED BY <2>1 DEF OneLineEach
<1>12. Sound(q, table)
  BY <1>9 DEF Sound, Matches
<1>13. Loop \in Threads /\ saver = [t \in Threads |-> Idle] /\ q \in Seq(Symbols)
  BY <1>4 DEF Init, Threads, IsList
<1>14. saver \in [Threads -> SaverType] /\ \A t \in Threads : saver[t] = Idle /\ ~Open(t)
  BY <1>13, IdleTyped DEF Open
<1>15. TypeOK
  <2>1. /\ masterTable \in Tables /\ text \in Seq(Symbols) /\ connecting \in Threads
        /\ saver \in [Threads -> SaverType]
    BY <1>3, <1>6, <1>8, <1>13, <1>14 DEF Init
  <2>2. /\ connected \subseteq DOMAIN masterTable /\ {mixed, missed, running} \subseteq BOOLEAN
        /\ follows = 0 /\ crashes = 0
    BY DEF Init
  <2>3. 0 \in 0 .. MaxFollows /\ 0 \in 0 .. MaxCrashes
    BY DEF BackupFileAssumption
  <2> QED BY <2>1, <2>2, <2>3 DEF TypeOK, SaverType, Symbols
<1>16. LoopInserts /\ Rested /\ Alone /\ HeldSound /\ HeldExact
  BY <1>13, <1>14, IdleTyped DEF LoopInserts, Rested, Alone, HeldSound, HeldExact
<1>17. FileSound /\ FileExact
  BY <1>3, <1>6, <1>9, <1>10, <1>11, <1>12 DEF FileSound, FileExact
<1> QED BY <1>15, <1>16, <1>17 DEF FileInv

LEMMA FileNext == ASSUME BackupFileAssumption, FileInv, [Next]_vars PROVE FileInv'
<1>1. CASE InsertRow
  BY <1>1, InsertStep
<1>2. CASE Crash
  BY <1>2, CrashStep
<1>3. ASSUME NEW u \in Profiles, ReceiveConnect(u) PROVE FileInv'
  BY <1>3, ConnectStep
<1>4. ASSUME NEW u \in Profiles, NEW to \in Profiles, Follow(u, to) PROVE FileInv'
  BY <1>4, FollowStep
<1>5. ASSUME NEW t \in Threads,
             OpenFile(t) \/ OpenFails(t) \/ WriteRow(t) \/ WriteBlock(t) \/ CloseFile(t)
      PROVE  FileInv'
  BY <1>5, OpenFileStep, OpenFailsStep, WriteRowStep, WriteBlockStep, CloseFileStep
<1>6. CASE UNCHANGED vars
  <2>1. /\ saver' = saver /\ text' = text /\ mixed' = mixed /\ missed' = missed
        /\ masterTable' = masterTable /\ running' = running
        /\ connected' = connected /\ connecting' = connecting
        /\ follows' = follows /\ crashes' = crashes
    BY <1>6 DEF vars
  <2>2. TypeOK' /\ LoopInserts'
    BY <2>1 DEF FileInv, TypeOK, LoopInserts
  <2> QED BY <2>1, <2>2, SameStep DEF FileInv
<1> QED BY <1>1, <1>2, <1>3, <1>4, <1>5, <1>6 DEF Next

\* The text of all rows of a table is read back as that table.
LEMMA LoadExact ==
  ASSUME BackupFileAssumption, NEW q \in Seq(Symbols), NEW table \in Tables,
         OneLineEach(q), Matches(q, table), HoldsAll(q, table)
  PROVE  ~Throws(q) /\ Load(q) = table
<1>1. Sound(q, table)
  BY DEF Matches, Sound
<1>2. PICK loaded : loaded = Load(q)
  OBVIOUS
<1>3. /\ DOMAIN loaded = {q[i] : i \in LineStarts(q)}
      /\ loaded = [u \in DOMAIN loaded |-> loaded[u]]
      /\ \A i \in LineStarts(q) : loaded[q[i]] = FollowersIn(q, i)
  BY <1>2, LoadIs
<1>4. ~Throws(q) /\ DOMAIN loaded \subseteq DOMAIN table
  BY <1>1, <1>2, LoadSound
<1>5. DOMAIN table \subseteq DOMAIN loaded
  BY <1>3 DEF HoldsAll, Holds
<1>6. ASSUME NEW u \in DOMAIN loaded PROVE loaded[u] = table[u]
  <2>1. PICK i \in LineStarts(q) : q[i] = u
    BY <1>3
  <2> QED BY <1>3, <2>1 DEF Matches
<1>7. table = [u \in DOMAIN table |-> table[u]]
  BY TablesIs
<1>8. DOMAIN loaded = DOMAIN table
  BY <1>4, <1>5
<1>9. loaded = table
  BY <1>3, <1>6, <1>7, <1>8
<1> QED BY <1>2, <1>4, <1>9

-----------------------------------------------------------------------------
(* The theorems.                                                            *)

LEMMA FileInvariant == Spec => []FileInv
<1>1. Init => FileInv
  BY BackupFileAssumption, FileInit
<1>2. FileInv /\ [Next]_vars => FileInv'
  BY BackupFileAssumption, FileNext
<1> QED BY <1>1, <1>2, PTL DEF Spec

\* Every variable of the server's backup file, and of the threads that save it,
\* keeps its type, whatever a crash leaves of the file.
THEOREM BackupFileTypes == Spec => []TypeOK
<1>1. FileInv => TypeOK
  BY DEF FileInv
<1> QED BY <1>1, FileInvariant, PTL

\* saveBackup is called without a lock while other threads change the table that
\* it walks; still, once no thread saves or is to save, a file that was opened
\* and that no two streams overlapped in loads as the table as it is now.
THEOREM TheLastSaveHoldsTheTable == Spec => []SavedWhenQuiet
<1>1. FileInv => SavedWhenQuiet
  <2> SUFFICES ASSUME FileInv, running, ~mixed, ~missed, \A t \in Threads : saver[t].pc = "rest"
               PROVE  ~Throws(text) /\ Load(text) = masterTable
    BY DEF SavedWhenQuiet
  <2>1. Calm /\ \A t \in Threads : ~Open(t)
    BY DEF Calm, Open
  <2>2. Matches(text, masterTable) /\ HoldsAll(text, masterTable) /\ OneLineEach(text)
    BY <2>1 DEF FileInv, FileExact, FileSound
  <2>3. text \in Seq(Symbols) /\ masterTable \in Tables
    BY SaverNow DEF FileInv
  <2>4. PICK q \in Seq(Symbols), table \in Tables : q = text /\ table = masterTable
    BY <2>3
  <2>5. ~Throws(q) /\ Load(q) = table
    BY BackupFileAssumption, <2>2, <2>4, LoadExact
  <2> QED BY <2>4, <2>5
<1> QED BY <1>1, FileInvariant, PTL

\* A crash in the midst of a save, wherever the buffer was cut, leaves a file
\* that loadBackup reads without a throw, and from which it gets no profile and
\* no follower that the server did not have.
THEOREM ACutFileIsSound == Spec => []RestoresOnlyWhatWas
<1>1. FileInv => RestoresOnlyWhatWas
  <2> SUFFICES ASSUME FileInv, ~mixed
               PROVE  /\ ~Throws(text) /\ DOMAIN Load(text) \subseteq DOMAIN masterTable
                      /\ \A u \in DOMAIN Load(text) : Load(text)[u] \subseteq masterTable[u]
    BY DEF RestoresOnlyWhatWas
  <2>1. text \in Seq(Symbols) /\ masterTable \in Tables
    BY SaverNow DEF FileInv
  <2>2. Sound(text, masterTable) /\ OneLineEach(text)
    BY DEF FileInv, FileSound
  <2>3. PICK q \in Seq(Symbols), table \in Tables : q = text /\ table = masterTable
    BY <2>1
  <2>4. /\ ~Throws(q) /\ DOMAIN Load(q) \subseteq DOMAIN table
        /\ \A u \in DOMAIN Load(q) : Load(q)[u] \subseteq table[u]
    BY BackupFileAssumption, <2>2, <2>3, LoadSound
  <2> QED BY <2>3, <2>4
<1> QED BY <1>1, FileInvariant, PTL

=============================================================================
