------------------------------ MODULE WireProofs -------------------------------
(***************************************************************************)
(* What the program writes into a datagram is read back from it, for       *)
(* fields of any length.                                                   *)
(*                                                                         *)
(* The argument: a text that is joined by a separator which the first part *)
(* does not hold is cut again at the same place. Every text here is a word *)
(* and its data joined by a space, and the data of the servers are fields  *)
(* joined one after the other, each without the separator behind it.       *)
(***************************************************************************)
EXTENDS Wire, SequenceTheorems, TLAPS

Words == Symbols \cup WithData \cup WithoutData

Join(a, separator, b) == a \o <<separator>> \o b

-----------------------------------------------------------------------------
(* Finding and cutting.                                                     *)

\* A symbol that no earlier place holds is found at its place.
LEMMA FindFirst ==
  ASSUME NEW text, Len(text) \in Nat, NEW n \in 1 .. Len(text), NEW symbol, text[n] = symbol,
         \A m \in 1 .. n - 1 : text[m] # symbol
  PROVE  Find(text, symbol) = n
<1> DEFINE I == {i \in 1 .. Len(text) : text[i] = symbol}
<1>1. Find(text, symbol) = IF I # {} THEN Min(I) ELSE 0
  BY DEF Find, SelectInSeq
<1>2. n \in I /\ \A m \in I : n <= m
  OBVIOUS
<1>3. \A m \in I : m \in Nat
  OBVIOUS
<1> HIDE DEF I
<1>4. Min(I) = n
  <2>1. \E x \in I : \A y \in I : x <= y
    BY <1>2
  <2>2. Min(I) \in I /\ \A y \in I : Min(I) <= y
    BY <2>1, Zenon DEF Min
  <2>3. PICK k \in I : k = Min(I) /\ \A y \in I : k <= y
    BY <2>2
  <2>4. n <= k /\ k <= n /\ k \in Nat /\ n \in Nat
    BY <1>2, <1>3, <2>3
  <2> QED  BY <2>3, <2>4
<1> QED  BY <1>1, <1>2, <1>4

LEMMA FindNone ==
  ASSUME NEW text, Len(text) \in Nat, NEW symbol, \A m \in 1 .. Len(text) : text[m] # symbol
  PROVE  Find(text, symbol) = 0
BY DEF Find, SelectInSeq

IsJoin(q, a, separator, b, W) ==
  /\ q \in Seq(W) /\ Len(q) = Len(a) + 1 + Len(b)
  /\ \A i \in 1 .. Len(a) : q[i] = a[i]
  /\ q[Len(a) + 1] = separator
  /\ \A i \in 1 .. Len(b) : q[Len(a) + 1 + i] = b[i]

\* What the places of a joined text hold.
LEMMA Joined ==
  ASSUME NEW W, NEW a \in Seq(W), NEW b \in Seq(W), NEW separator \in W
  PROVE  IsJoin(Join(a, separator, b), a, separator, b, W)
<1>1. PICK one \in Seq(W) : one = <<separator>> /\ Len(one) = 1 /\ one[1] = separator
  <2>1. <<separator>> \in Seq(W) /\ Len(<<separator>>) = 1 /\ <<separator>>[1] = separator
    OBVIOUS
  <2> QED  BY <2>1
<1>2. PICK n \in Nat : n = Len(a)
  BY LenProperties
<1>3. PICK m \in Nat : m = Len(b)
  BY LenProperties
<1>4. PICK c \in Seq(W) : /\ c = a \o one /\ Len(c) = n + 1
                          /\ \A i \in 1 .. n + 1 : c[i] = IF i <= n THEN a[i] ELSE one[i - n]
  <2>1. /\ a \o one \in Seq(W) /\ Len(a \o one) = Len(a) + Len(one)
        /\ \A i \in 1 .. Len(a) + Len(one) :
             (a \o one)[i] = IF i <= Len(a) THEN a[i] ELSE one[i - Len(a)]
    BY ConcatProperties
  <2> QED  BY <1>1, <1>2, <2>1
<1>5. PICK d \in Seq(W) : /\ d = c \o b /\ Len(d) = n + 1 + m
                          /\ \A i \in 1 .. n + 1 + m :
                               d[i] = IF i <= n + 1 THEN c[i] ELSE b[i - (n + 1)]
  <2>1. /\ c \o b \in Seq(W) /\ Len(c \o b) = Len(c) + Len(b)
        /\ \A i \in 1 .. Len(c) + Len(b) :
             (c \o b)[i] = IF i <= Len(c) THEN c[i] ELSE b[i - Len(c)]
    BY ConcatProperties
  <2>2. Len(c) = n + 1
    BY <1>4
  <2>3. PICK d : d = c \o b
    OBVIOUS
  <2>4. d \in Seq(W) /\ Len(d) = n + 1 + m
    BY <1>3, <2>1, <2>2, <2>3
  <2>5. \A i \in 1 .. n + 1 + m : d[i] = IF i <= n + 1 THEN c[i] ELSE b[i - (n + 1)]
    BY <1>3, <2>1, <2>2, <2>3
  <2> QED  BY <2>3, <2>4, <2>5
<1>6. \A i \in 1 .. n : d[i] = a[i]
  BY <1>4, <1>5
<1>7. d[n + 1] = separator
  <2>1. d[n + 1] = c[n + 1]
    BY <1>5
  <2>2. c[n + 1] = one[n + 1 - n]
    <3>1. \A i \in 1 .. n + 1 : c[i] = IF i <= n THEN a[i] ELSE one[i - n]
      BY <1>4
    <3>2. n + 1 \in 1 .. n + 1 /\ ~(n + 1 <= n)
      OBVIOUS
    <3> QED  BY <3>1, <3>2
  <2>3. n + 1 - n = 1
    OBVIOUS
  <2> QED  BY <1>1, <2>1, <2>2, <2>3
<1>8. \A i \in 1 .. m : d[n + 1 + i] = b[i]
  BY <1>5
<1>9. Join(a, separator, b) = d
  BY <1>1, <1>4, <1>5 DEF Join
<1>10. Len(d) = n + 1 + m
  BY <1>5
<1>11. IsJoin(d, a, separator, b, W)
  BY <1>2, <1>3, <1>6, <1>7, <1>8, <1>10 DEF IsJoin
<1> QED  BY <1>9, <1>11

\* A joined text is cut at its separator, if the first part does not hold it.
LEMMA Cut ==
  ASSUME NEW W, NEW a \in Seq(W), NEW b \in Seq(W), NEW separator \in W,
         \A i \in 1 .. Len(a) : a[i] # separator
  PROVE  /\ Find(Join(a, separator, b), separator) = Len(a) + 1
         /\ Before(Join(a, separator, b), separator) = a
         /\ After(Join(a, separator, b), separator) = b
<1>1. PICK n \in Nat : n = Len(a)
  BY LenProperties
<1>2. PICK m \in Nat : m = Len(b)
  BY LenProperties
<1>3. PICK q \in Seq(W) : /\ q = Join(a, separator, b) /\ Len(q) = n + 1 + m
                          /\ \A i \in 1 .. n : q[i] = a[i]
                          /\ q[n + 1] = separator
                          /\ \A i \in 1 .. m : q[n + 1 + i] = b[i]
  <2>1. PICK q : q = Join(a, separator, b) /\ IsJoin(q, a, separator, b, W)
    BY Joined
  <2> QED  BY <1>1, <1>2, <2>1 DEF IsJoin
<1>4. Find(q, separator) = n + 1
  <2>1. n + 1 \in 1 .. Len(q) /\ \A i \in 1 .. (n + 1) - 1 : q[i] # separator
    BY <1>1, <1>3
  <2>2. Len(q) \in Nat /\ q[n + 1] = separator
    BY <1>3
  <2> QED  BY <2>1, <2>2, FindFirst
<1>5. \A i \in 1 .. n + 1 + m : q[i] \in W
  BY <1>3, ElementOfSeq
<1>6. Before(q, separator) = a
  <2>1. PICK r : r = SubSeq(q, 1, n)
    OBVIOUS
  <2>2. /\ r \in Seq(W) /\ Len(r) = IF 1 <= n THEN n - 1 + 1 ELSE 0
        /\ \A i \in 1 .. n - 1 + 1 : r[i] = q[1 + i - 1]
    BY <1>5, <2>1, SubSeqProperties
  <2>3. Len(r) = n /\ \A i \in 1 .. n : r[i] = a[i]
    BY <1>3, <2>2
  <2>4. r = a
    BY <1>1, <2>2, <2>3, SeqEqual
  <2> QED  BY <1>4, <2>1, <2>4 DEF Before
<1>7. After(q, separator) = b
  <2>1. PICK r : r = SubSeq(q, n + 2, n + 1 + m)
    OBVIOUS
  <2>2. /\ r \in Seq(W) /\ Len(r) = IF n + 2 <= n + 1 + m THEN n + 1 + m - (n + 2) + 1 ELSE 0
        /\ \A i \in 1 .. n + 1 + m - (n + 2) + 1 : r[i] = q[n + 2 + i - 1]
    BY <1>5, <2>1, SubSeqProperties
  <2>3. Len(r) = m /\ \A i \in 1 .. m : r[i] = b[i]
    BY <1>3, <2>2
  <2>4. r = b
    BY <1>2, <2>2, <2>3, SeqEqual
  <2> QED  BY <1>3, <1>4, <2>1, <2>4 DEF After
<1> QED  BY <1>1, <1>3, <1>4, <1>6, <1>7

-----------------------------------------------------------------------------
(* The fields.                                                              *)

LEMMA TextsAreSequences == \A text \in Texts : text \in Seq(Symbols)
<1> SUFFICES ASSUME NEW text \in Texts PROVE text \in Seq(Symbols)
  OBVIOUS
<1>1. \E m \in 0 .. MaxLength : text \in [1 .. m -> Symbols]
  BY DEF Texts, BoundedSeq, SeqOf
<1>2. PICK m \in Nat : text \in [1 .. m -> Symbols]
  BY <1>1, WireAssumption
<1> QED  BY <1>2, SeqDef

LEMMA WithoutHolds ==
  \A separators : \A text \in Without(separators), separator \in separators :
    text \in Seq(Symbols) /\ \A i \in 1 .. Len(text) : text[i] # separator
<1> SUFFICES ASSUME NEW separators, NEW text \in Without(separators), NEW separator \in separators
             PROVE  text \in Seq(Symbols) /\ \A i \in 1 .. Len(text) : text[i] # separator
  OBVIOUS
<1>1. text \in Seq(Symbols)
  BY TextsAreSequences DEF Without
<1>2. DOMAIN text = 1 .. Len(text)
  BY <1>1, LenProperties
<1>3. \A i \in DOMAIN text : text[i] \in ToSet(text)
  BY DEF ToSet
<1>4. separator \notin ToSet(text)
  BY DEF Without
<1> QED  BY <1>1, <1>2, <1>3, <1>4

\* A field without the separator behind it, and what follows, are taken apart again.
LEMMA FieldCut ==
  \A separators \in SUBSET Symbols :
    \A a \in Without(separators), b \in Seq(Symbols), separator \in separators :
      /\ Join(a, separator, b) \in Seq(Symbols)
      /\ Before(Join(a, separator, b), separator) = a
      /\ After(Join(a, separator, b), separator) = b
<1> SUFFICES ASSUME NEW separators \in SUBSET Symbols, NEW a \in Without(separators),
                    NEW b \in Seq(Symbols), NEW separator \in separators
             PROVE  /\ Join(a, separator, b) \in Seq(Symbols)
                    /\ Before(Join(a, separator, b), separator) = a
                    /\ After(Join(a, separator, b), separator) = b
  OBVIOUS
<1>1. a \in Seq(Symbols) /\ (\A i \in 1 .. Len(a) : a[i] # separator) /\ separator \in Symbols
  BY WithoutHolds
<1>2. IsJoin(Join(a, separator, b), a, separator, b, Symbols)
  BY <1>1, Joined
<1>3. /\ Before(Join(a, separator, b), separator) = a
      /\ After(Join(a, separator, b), separator) = b
  BY <1>1, Cut
<1> QED  BY <1>2, <1>3 DEF IsJoin

\* Concatenation by a name, of which the provers are to know no more than this.
Cat(a, b) == a \o b

LEMMA CatClosed == \A a, b \in Seq(Symbols) : Cat(a, b) \in Seq(Symbols)
BY ConcatProperties DEF Cat

LEMMA CatAssoc == \A a, b, c \in Seq(Symbols) : Cat(Cat(a, b), c) = Cat(a, Cat(b, c))
BY ConcatAssociative DEF Cat

LEMMA CatOne == \A r \in Symbols : <<r>> \in Seq(Symbols)
OBVIOUS

LEMMA CatTwice ==
  \A a, r, b, s, c \in Seq(Symbols) :
    Cat(Cat(Cat(Cat(a, r), b), s), c) = Cat(Cat(a, r), Cat(Cat(b, s), c))
BY CatClosed, CatAssoc

LEMMA AddressJoined ==
  \A a, b, c \in Seq(Symbols) : AddressData(a, b, c) = Join(a, ":", Join(b, ",", c))
<1>1. PICK r \in Seq(Symbols) : r = <<":">>
  BY CatOne DEF Symbols
<1>2. PICK s \in Seq(Symbols) : s = <<",">>
  BY CatOne DEF Symbols
<1>3. \A a, b, c : AddressData(a, b, c) = Cat(Cat(Cat(Cat(a, r), b), s), c)
  BY <1>1, <1>2 DEF AddressData, Cat
<1>4. \A a, b, c \in Seq(Symbols) :
        Cat(Cat(Cat(Cat(a, r), b), s), c) = Cat(Cat(a, r), Cat(Cat(b, s), c))
  BY CatTwice
<1>5. ASSUME NEW a \in Seq(Symbols), NEW b \in Seq(Symbols), NEW c \in Seq(Symbols)
      PROVE  AddressData(a, b, c) = Join(a, ":", Join(b, ",", c))
  <2>1. AddressData(a, b, c) = Cat(Cat(Cat(Cat(a, r), b), s), c)
    BY <1>3, Zenon
  <2>2. Join(a, ":", Join(b, ",", c)) = Cat(Cat(a, r), Cat(Cat(b, s), c))
    BY <1>1, <1>2 DEF Join, Cat
  <2> QED  BY <1>4, <2>1, <2>2, ZenonT(60)
<1> QED  BY <1>5

LEMMA DisconnectJoined ==
  \A a, b, c \in Seq(Symbols) : DisconnectData(a, b, c) = Join(a, ",", Join(b, ":", c))
<1>1. PICK r \in Seq(Symbols) : r = <<",">>
  BY CatOne DEF Symbols
<1>2. PICK s \in Seq(Symbols) : s = <<":">>
  BY CatOne DEF Symbols
<1>3. \A a, b, c : DisconnectData(a, b, c) = Cat(Cat(Cat(Cat(a, r), b), s), c)
  BY <1>1, <1>2 DEF DisconnectData, Cat
<1>4. \A a, b, c \in Seq(Symbols) :
        Cat(Cat(Cat(Cat(a, r), b), s), c) = Cat(Cat(a, r), Cat(Cat(b, s), c))
  BY CatTwice
<1>5. ASSUME NEW a \in Seq(Symbols), NEW b \in Seq(Symbols), NEW c \in Seq(Symbols)
      PROVE  DisconnectData(a, b, c) = Join(a, ",", Join(b, ":", c))
  <2>1. DisconnectData(a, b, c) = Cat(Cat(Cat(Cat(a, r), b), s), c)
    BY <1>3, Zenon
  <2>2. Join(a, ",", Join(b, ":", c)) = Cat(Cat(a, r), Cat(Cat(b, s), c))
    BY <1>1, <1>2 DEF Join, Cat
  <2> QED  BY <1>4, <2>1, <2>2, ZenonT(60)
<1> QED  BY <1>5

Address == Without({":", ","})
NoComma == Without({","})
NoAt == Without({"&@"})

LEMMA AddressCut ==
  \A host, port \in Address, last \in Texts :
    /\ AddressData(host, port, last) \in Seq(Symbols)
    /\ AddressFields(AddressData(host, port, last)) = <<host, port, last>>
<1> SUFFICES ASSUME NEW host \in Address, NEW port \in Address, NEW last \in Texts
             PROVE  /\ AddressData(host, port, last) \in Seq(Symbols)
                    /\ AddressFields(AddressData(host, port, last)) = <<host, port, last>>
  OBVIOUS
<1>1. {":", ","} \in SUBSET Symbols /\ ":" \in {":", ","} /\ "," \in {":", ","}
  BY DEF Symbols
<1>2. host \in Seq(Symbols) /\ port \in Seq(Symbols) /\ last \in Seq(Symbols)
  BY <1>1, WithoutHolds, TextsAreSequences DEF Address
<1>3. PICK rest \in Seq(Symbols) :
        rest = Join(port, ",", last) /\ Before(rest, ",") = port /\ After(rest, ",") = last
  BY <1>1, <1>2, FieldCut DEF Address
<1>4. PICK data \in Seq(Symbols) :
        data = Join(host, ":", rest) /\ Before(data, ":") = host /\ After(data, ":") = rest
  BY <1>1, <1>2, FieldCut DEF Address
<1>5. AddressData(host, port, last) = data
  <2>1. AddressData(host, port, last) = Join(host, ":", Join(port, ",", last))
    BY <1>2, AddressJoined, ZenonT(60)
  <2> QED  BY <1>3, <1>4, <2>1
<1>6. AddressFields(data) = <<host, port, last>>
  BY <1>3, <1>4 DEF AddressFields
<1> QED  BY <1>5, <1>6

LEMMA DisconnectCut ==
  \A profile \in Without({","}), host, port \in Address :
    /\ DisconnectData(profile, host, port) \in Seq(Symbols)
    /\ DisconnectFields(DisconnectData(profile, host, port)) = <<profile, host, port>>
<1> SUFFICES ASSUME NEW profile \in Without({","}), NEW host \in Address, NEW port \in Address
             PROVE  /\ DisconnectData(profile, host, port) \in Seq(Symbols)
                    /\ DisconnectFields(DisconnectData(profile, host, port))
                         = <<profile, host, port>>
  OBVIOUS
<1>1. /\ {":", ","} \in SUBSET Symbols /\ {","} \in SUBSET Symbols
      /\ ":" \in {":", ","} /\ "," \in {","} /\ ":" \in Symbols /\ "," \in Symbols
  BY DEF Symbols
<1>2. host \in Seq(Symbols) /\ port \in Seq(Symbols) /\ profile \in Seq(Symbols)
  BY <1>1, WithoutHolds DEF Address
<1>3. PICK rest \in Seq(Symbols) :
        rest = Join(host, ":", port) /\ Before(rest, ":") = host /\ After(rest, ":") = port
  BY <1>1, <1>2, FieldCut, ZenonT(60) DEF Address
<1>4. PICK data \in Seq(Symbols) :
        data = Join(profile, ",", rest) /\ Before(data, ",") = profile /\ After(data, ",") = rest
  BY <1>1, <1>2, FieldCut
<1>5. DisconnectData(profile, host, port) = data
  <2>1. DisconnectData(profile, host, port) = Join(profile, ",", Join(host, ":", port))
    BY <1>2, DisconnectJoined
  <2> QED  BY <1>3, <1>4, <2>1
<1>6. DisconnectFields(data) = <<profile, host, port>>
  BY <1>3, <1>4 DEF DisconnectFields
<1> QED  BY <1>5, <1>6

LEMMA FollowCut ==
  \A profile \in Without({","}), follow \in Texts :
    /\ FollowData(profile, follow) \in Seq(Symbols)
    /\ FollowFields(FollowData(profile, follow)) = <<profile, follow>>
<1>1. {","} \in SUBSET Symbols /\ "," \in {","}
  BY DEF Symbols
<1>2. \A a, b : FollowData(a, b) = Join(a, ",", b)
  BY DEF FollowData, Join
<1>3. ASSUME NEW a \in Without({","}), NEW b \in Seq(Symbols)
      PROVE  /\ Join(a, ",", b) \in Seq(Symbols)
             /\ Before(Join(a, ",", b), ",") = a /\ After(Join(a, ",", b), ",") = b
  BY <1>1, FieldCut
<1> QED  BY <1>2, <1>3, TextsAreSequences DEF FollowFields

LEMMA SendCut ==
  \A profile \in Without({"&@"}), message \in Texts :
    /\ SendData(profile, message) \in Seq(Symbols)
    /\ SendFields(SendData(profile, message)) = <<profile, message>>
<1>1. {"&@"} \in SUBSET Symbols /\ "&@" \in {"&@"}
  BY DEF Symbols
<1>2. \A a, b : SendData(a, b) = Join(a, "&@", b)
  BY DEF SendData, Join
<1> QED  BY <1>1, <1>2, FieldCut, TextsAreSequences DEF SendFields

Types == WithData \cup WithoutData

LEMMA Components ==
  /\ \A P, Q : \A f \in P \X Q : f[1] \in P /\ f[2] \in Q /\ f = <<f[1], f[2]>>
  /\ \A P, Q, R : \A f \in P \X Q \X R :
       f[1] \in P /\ f[2] \in Q /\ f[3] \in R /\ f = <<f[1], f[2], f[3]>>
OBVIOUS

LEMMA FieldsByType ==
  /\ FieldsOf("REPLICATE_CONNECT") = Address \X Address \X Texts
  /\ FieldsOf("REPLICATE_DISCONNECT") = NoComma \X Address \X Address
  /\ FieldsOf("REPLICATE_FOLLOW") = NoComma \X Texts
  /\ FieldsOf("REPLICATE_SEND") = NoAt \X Texts
BY DEF FieldsOf, Address, NoComma, NoAt, WithoutData

\* What goes into the data of a command comes out of it.
LEMMA FieldsKept ==
  \A type \in Types : \A fields \in FieldsOf(type) :
    /\ Data(type, fields) \in Seq(Symbols)
    /\ Fields(type, Data(type, fields)) = fields
<1> SUFFICES ASSUME NEW type \in Types, NEW fields \in FieldsOf(type)
             PROVE  /\ Data(type, fields) \in Seq(Symbols)
                    /\ Fields(type, Data(type, fields)) = fields
  OBVIOUS
<1>1. CASE type = "REPLICATE_CONNECT"
  <2>1. fields \in Address \X Address \X Texts
    BY <1>1, FieldsByType
  <2>2. /\ Data(type, fields) = AddressData(fields[1], fields[2], fields[3])
        /\ \A data : Fields(type, data) = AddressFields(data)
    BY <1>1 DEF Data, Fields
  <2>3. /\ fields[1] \in Address /\ fields[2] \in Address /\ fields[3] \in Texts
        /\ fields = <<fields[1], fields[2], fields[3]>>
    BY <2>1, Components
  <2> QED  BY <2>2, <2>3, AddressCut
<1>2. CASE type = "REPLICATE_DISCONNECT"
  <2>1. fields \in NoComma \X Address \X Address
    BY <1>2, FieldsByType
  <2>2. /\ Data(type, fields) = DisconnectData(fields[1], fields[2], fields[3])
        /\ \A data : Fields(type, data) = DisconnectFields(data)
    BY <1>2 DEF Data, Fields
  <2>3. /\ fields[1] \in NoComma /\ fields[2] \in Address /\ fields[3] \in Address
        /\ fields = <<fields[1], fields[2], fields[3]>>
    BY <2>1, Components
  <2> QED  BY <2>2, <2>3, DisconnectCut DEF NoComma
<1>3. CASE type = "REPLICATE_FOLLOW"
  <2>1. fields \in NoComma \X Texts
    BY <1>3, FieldsByType
  <2>2. /\ Data(type, fields) = FollowData(fields[1], fields[2])
        /\ \A data : Fields(type, data) = FollowFields(data)
    BY <1>3 DEF Data, Fields
  <2>3. fields[1] \in NoComma /\ fields[2] \in Texts /\ fields = <<fields[1], fields[2]>>
    BY <2>1, Components
  <2> QED  BY <2>2, <2>3, FollowCut DEF NoComma
<1>4. CASE type = "REPLICATE_SEND"
  <2>1. fields \in NoAt \X Texts
    BY <1>4, FieldsByType
  <2>2. /\ Data(type, fields) = SendData(fields[1], fields[2])
        /\ \A data : Fields(type, data) = SendFields(data)
    BY <1>4 DEF Data, Fields
  <2>3. fields[1] \in NoAt /\ fields[2] \in Texts /\ fields = <<fields[1], fields[2]>>
    BY <2>1, Components
  <2> QED  BY <2>2, <2>3, SendCut DEF NoAt
<1>5. CASE type \notin {"REPLICATE_CONNECT", "REPLICATE_DISCONNECT", "REPLICATE_FOLLOW",
                        "REPLICATE_SEND"}
  <2>1. Data(type, fields) = fields[1] /\ \A data : Fields(type, data) = <<data>>
    BY <1>5 DEF Data, Fields
  <2>2. fields \in {<< <<>> >>} \cup {<<data>> : data \in Texts}
    BY <1>5 DEF FieldsOf
  <2>3. fields = <<fields[1]>> /\ fields[1] \in Seq(Symbols)
    <3>1. CASE fields = << <<>> >>
      BY <3>1
    <3>2. CASE fields \in {<<data>> : data \in Texts}
      BY <3>2, TextsAreSequences
    <3> QED  BY <2>2, <3>1, <3>2
  <2> QED  BY <2>1, <2>3
<1> QED  BY <1>1, <1>2, <1>3, <1>4, <1>5

-----------------------------------------------------------------------------
(* The command.                                                             *)

LEMMA WordsOf == Types \subseteq Words /\ " " \in Words /\ Symbols \subseteq Words /\ " " \notin Types
BY DEF Types, Words, Symbols, WithData, WithoutData

LEMMA Wider == \A data \in Seq(Symbols) : data \in Seq(Words)
BY WordsOf, SeqMonotonic

LEMMA One == \A x : Len(<<x>>) = 1 /\ <<x>>[1] = x /\ <<x>> # <<>>
OBVIOUS

\* A type that carries data is read back with its data.
LEMMA ParsedWithData ==
  ASSUME NEW type \in WithData, NEW data \in Seq(Words)
  PROVE  Parse(Encode([type |-> type, data |-> data])) = [type |-> type, data |-> data]
<1>1. PICK word \in Seq(Words) : word = <<type>> /\ Len(word) = 1 /\ word[1] = type
  <2>1. type \in Words
    BY WordsOf DEF Types
  <2>2. <<type>> \in Seq(Words)
    BY <2>1
  <2> QED  BY <2>2, One
<1>2. type \notin WithoutData /\ type # "NOOP" /\ type # "TWEET" /\ type # " "
  BY DEF WithData, WithoutData
<1>3. PICK q : q = Join(word, " ", data)
  OBVIOUS
<1>4. Encode([type |-> type, data |-> data]) = q
  BY <1>1, <1>2, <1>3 DEF Encode, Join
<1>5. IsJoin(q, word, " ", data, Words)
  BY <1>3, Joined, WordsOf
<1>6. q # <<>> /\ q[1] = type
  <2>1. /\ q \in Seq(Words) /\ Len(q) = Len(word) + 1 + Len(data)
        /\ \A i \in 1 .. Len(word) : q[i] = word[i]
    BY <1>5 DEF IsJoin
  <2>2. Len(data) \in Nat /\ Len(q) = 2 + Len(data) /\ 1 \in 1 .. Len(word)
    BY <1>1, <2>1, LenProperties
  <2>3. Len(q) # 0
    BY <2>2
  <2> QED  BY <1>1, <2>1, <2>2, <2>3, EmptySeq
<1>7. Find(q, " ") # 0 /\ Before(q, " ") = word /\ After(q, " ") = data
  <2>1. \A i \in 1 .. Len(word) : i = 1
    BY <1>1
  <2>2. \A i \in 1 .. Len(word) : word[i] # " "
    BY <1>1, <1>2, <2>1
  <2>3. " " \in Words
    BY WordsOf
  <2>4. /\ Find(Join(word, " ", data), " ") = Len(word) + 1
        /\ Before(Join(word, " ", data), " ") = word
        /\ After(Join(word, " ", data), " ") = data
    BY <2>2, <2>3, Cut
  <2>5. Len(word) + 1 # 0
    BY <1>1
  <2> QED  BY <1>3, <2>4, <2>5, Zenon
<1>8. word # <<"TWEET">> /\ Len(word) = 1 /\ word[1] \in WithData \cup WithoutData
  BY <1>1, <1>2, One
<1>9. Parse(q) = [type |-> word[1], data |-> After(q, " ")]
  <2>1. ~(q # <<>> /\ q[1] = "NOOP") /\ Find(q, " ") # 0
    BY <1>2, <1>6, <1>7
  <2>2. /\ Before(q, " ") # <<"TWEET">> /\ Len(Before(q, " ")) = 1
        /\ Before(q, " ")[1] = word[1] /\ word[1] \in WithData \cup WithoutData
    BY <1>7, <1>8
  <2>3. Before(q, " ")[1] \in WithData \cup WithoutData
    BY <2>2
  <2>4. Parse(q) = [type |-> Before(q, " ")[1], data |-> After(q, " ")]
    BY <2>1, <2>2, <2>3 DEF Parse
  <2> QED  BY <2>2, <2>4
<1> QED  BY <1>1, <1>4, <1>7, <1>9

\* A type that carries none is read back as it is, but for ANSWER.
LEMMA ParsedWithoutData ==
  ASSUME NEW type \in WithoutData, NEW data
  PROVE  Parse(Encode([type |-> type, data |-> data])) =
           IF type = "ANSWER" THEN Invalid ELSE [type |-> type, data |-> <<>>]
<1>1. PICK q : q = <<type>> /\ Len(q) = 1 /\ q[1] = type /\ q # <<>>
  BY One
<1>2. Encode([type |-> type, data |-> data]) = q
  BY <1>1 DEF Encode
<1>3. Find(q, " ") = 0
  <2>1. \A m \in 1 .. Len(q) : m = 1
    BY <1>1
  <2>2. type # " "
    BY DEF WithoutData
  <2> QED  BY <1>1, <2>1, <2>2, FindNone
<1>4. q \in {<<"TIC">>, <<"TOC">>} <=> type \in {"TIC", "TOC"}
  BY <1>1
<1> QED  BY <1>1, <1>2, <1>3, <1>4 DEF Parse, WithoutData

-----------------------------------------------------------------------------
(* The datagram.                                                            *)

\* What a program has put into a datagram, and the text it makes of it.
Written ==
  \E type \in Types : \E fields \in FieldsOf(type) :
    \/ datagram = [type |-> type, fields |-> fields, text |-> <<>>]
    \/ datagram = [type |-> type, fields |-> fields,
                   text |-> Encode([type |-> type, data |-> Data(type, fields)])]

\* A datagram holds the fields of its type, and once it is sent their text.
THEOREM Writing == DatagramSpec => []Written
<1>1. InitDatagram => Written
  BY DEF InitDatagram, Written, Types
<1>2. Written /\ [SendDatagram]_datagram => Written'
  <2>1. CASE UNCHANGED datagram
    BY <2>1 DEF Written
  <2>2. CASE SendDatagram
    BY <2>2 DEF Written, SendDatagram
  <2> QED  BY <2>1, <2>2
<1> QED  BY <1>1, <1>2, PTL DEF DatagramSpec

\* So what is read from it is what was put into it.
LEMMA ReadBack == Written => CommandsRoundTrip /\ FieldsRoundTrip
<1> SUFFICES ASSUME Written, datagram.text # <<>>
             PROVE  /\ Parse(datagram.text) =
                         IF datagram.type = "ANSWER" THEN Invalid
                         ELSE [type |-> datagram.type,
                               data |-> Data(datagram.type, datagram.fields)]
                    /\ datagram.type # "ANSWER" =>
                         Fields(datagram.type, Parse(datagram.text).data) = datagram.fields
  BY DEF CommandsRoundTrip, FieldsRoundTrip
<1>1. PICK type \in Types : \E fields \in FieldsOf(type) :
        /\ datagram.type = type /\ datagram.fields = fields
        /\ datagram.text = Encode([type |-> type, data |-> Data(type, fields)])
  BY DEF Written
<1>2. PICK fields \in FieldsOf(type) :
        /\ datagram.type = type /\ datagram.fields = fields
        /\ datagram.text = Encode([type |-> type, data |-> Data(type, fields)])
  BY <1>1
<1>3. PICK data \in Seq(Symbols) : data = Data(type, fields) /\ Fields(type, data) = fields
  BY FieldsKept
<1>4. Parse(datagram.text) = IF type = "ANSWER" THEN Invalid ELSE [type |-> type, data |-> data]
  <2>1. CASE type \in WithData
    <3>1. type # "ANSWER"
      BY <2>1 DEF WithData
    <3>2. data \in Seq(Words)
      BY Wider
    <3> QED  BY <1>2, <1>3, <2>1, <3>1, <3>2, ParsedWithData
  <2>2. CASE type \in WithoutData
    <3>1. data = <<>>
      BY <1>3, <2>2 DEF Data, FieldsOf, WithoutData
    <3> QED  BY <1>2, <1>3, <2>2, <3>1, ParsedWithoutData
  <2> QED  BY <2>1, <2>2 DEF Types
<1> QED  BY <1>2, <1>3, <1>4

\* Every command is received as it was sent, but for ANSWER (Command's constructor
\* and its parser), for data of any length.
THEOREM CommandsAreReadBack == DatagramSpec => []CommandsRoundTrip
BY Writing, ReadBack, PTL

\* A backup takes out of a REPLICATE datagram the fields that the primary put into it
\* (replicate* of server.cpp), for names and messages of any length.
THEOREM FieldsAreReadBack == DatagramSpec => []FieldsRoundTrip
BY Writing, ReadBack, PTL
=============================================================================
