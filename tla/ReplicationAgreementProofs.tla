--------------------- MODULE ReplicationAgreementProofs -----------------------
(***************************************************************************)
(* The servers that have missed nothing agree, for any servers, profiles,  *)
(* limit, crashes and failovers: on the sessions and the next port, on the *)
(* followers, and on what is kept for a profile that is offline.           *)
(*                                                                         *)
(* The sessions (Sess): what counts of a backup is not what it has but     *)
(* what it will have when it has read its datagrams. The ports of the      *)
(* CONNECTs in its inbox follow on each other from its own next port up to *)
(* that of the primary, so that what it counts is what it is told, and     *)
(* it will have the sessions of the primary but those whose DISCONNECT was *)
(* sent, and the one whose CONNECT was. When the primary dies, who is      *)
(* still up to date has been sent everything: all will have the same.      *)
(*                                                                         *)
(* The followers (FollowSound): so it is with them, with the FOLLOWs that  *)
(* a thread is still to send.                                              *)
(*                                                                         *)
(* The messages (KeptSound): a message that is kept for a profile is on    *)
(* the list of a server that has it follow the sender, or the SEND will be *)
(* read there before a session of it opens and before it follows anybody   *)
(* else, or a thread is still to send it. While the profile is out nobody  *)
(* has, or will have, a session of it.                                     *)
(***************************************************************************)
EXTENDS ReplicationProofs

-----------------------------------------------------------------------------
(* What becomes of the sessions of a profile when the first n datagrams of  *)
(* q are read, and of the ports that a backup counts.                       *)
Opens(d, u, p) == d.type = "CONNECT" /\ d.profile = u /\ d.port = p
Ends(d, u, p) == d.type = "DISCONNECT" /\ d.profile = u /\ d.port = p

OpenAfter(open, q, n, u, p) ==
  /\ p \in open \/ \E j \in 1 .. n : Opens(q[j], u, p)
  /\ ~\E j \in 1 .. n : Ends(q[j], u, p)

(* The CONNECTs have the ports from next up to end, in order, and no        *)
(* DISCONNECT is of a port that comes after it.                             *)
CountedUpTo(next, q, end) ==
  /\ next <= end
  /\ \A i \in DOMAIN q : q[i].type \in {"CONNECT", "DISCONNECT"} => q[i].port < end
  /\ \A i \in DOMAIN q : q[i].type = "CONNECT" => next <= q[i].port
  /\ \A i, j \in DOMAIN q :
       i < j /\ q[i].type \in {"CONNECT", "DISCONNECT"} /\ q[j].type = "CONNECT" => q[i].port < q[j].port
  /\ \A n \in next .. end - 1 : \E i \in DOMAIN q : q[i].type = "CONNECT" /\ q[i].port = n

LEMMA PortNumbers ==
  /\ Ports \subseteq Nat
  /\ \A d \in DatagramType : d.type \in {"CONNECT", "DISCONNECT"} => d.port \in Ports /\ d.port \in Nat
<1>1. Ports \subseteq Nat
  BY ReplicationAssumption DEF Ports
<1>2. \A d \in DatagramType : d.type \in {"CONNECT", "DISCONNECT"} => d.port \in Ports
  BY DEF DatagramType
<1> QED BY <1>1, <1>2

(* A sequence with an element more or the first one less, place by place.   *)
IsAppend(S, q, d, n, r) ==
  /\ n \in Nat /\ r \in Seq(S)
  /\ n = Len(q) /\ DOMAIN q = 1 .. n
  /\ r = Append(q, d) /\ Len(r) = n + 1 /\ DOMAIN r = 1 .. n + 1 /\ r[n + 1] = d
  /\ \A i \in 1 .. n : r[i] = q[i]

LEMMA AppendIs ==
  ASSUME NEW S, NEW q \in Seq(S), NEW d \in S
  PROVE  \E n, r : IsAppend(S, q, d, n, r)
<1>1. /\ Len(q) \in Nat /\ DOMAIN q = 1 .. Len(q) /\ Append(q, d) \in Seq(S)
      /\ Len(Append(q, d)) = Len(q) + 1 /\ DOMAIN Append(q, d) = 1 .. Len(q) + 1
      /\ Append(q, d)[Len(q) + 1] = d
      /\ \A i \in 1 .. Len(q) : Append(q, d)[i] = q[i]
  OBVIOUS
<1>2. IsAppend(S, q, d, Len(q), Append(q, d))
  BY <1>1 DEF IsAppend
<1> QED BY <1>2

IsTail(S, q, n, r) ==
  /\ n \in Nat /\ r \in Seq(S)
  /\ n + 1 = Len(q) /\ DOMAIN q = 1 .. n + 1 /\ q[1] \in S /\ q[1] = Head(q)
  /\ r = Tail(q) /\ Len(r) = n /\ DOMAIN r = 1 .. n
  /\ \A i \in 1 .. n : r[i] = q[i + 1]

LEMMA TailIs ==
  ASSUME NEW S, NEW q \in Seq(S), q # <<>>
  PROVE  \E n, r : IsTail(S, q, n, r)
<1>1. /\ Len(q) - 1 \in Nat /\ DOMAIN q = 1 .. Len(q) - 1 + 1 /\ Tail(q) \in Seq(S)
      /\ Len(q) - 1 + 1 = Len(q)
      /\ Len(Tail(q)) = Len(q) - 1 /\ DOMAIN Tail(q) = 1 .. Len(q) - 1
      /\ \A i \in 1 .. Len(q) - 1 : Tail(q)[i] = q[i + 1]
      /\ q[1] \in S /\ q[1] = Head(q)
  OBVIOUS
<1>2. IsTail(S, q, Len(q) - 1, Tail(q))
  BY <1>1 DEF IsTail
<1> QED BY <1>2

\* A datagram more.
LEMMA OpenAppend ==
  ASSUME NEW S, NEW q \in Seq(S), NEW d \in S, NEW open, NEW u, NEW p
  PROVE  /\ \A k \in 0 .. Len(q) : OpenAfter(open, Append(q, d), k, u, p) <=> OpenAfter(open, q, k, u, p)
         /\ OpenAfter(open, Append(q, d), Len(Append(q, d)), u, p) <=>
              /\ \/ OpenAfter(open, q, Len(q), u, p)
                 \/ Opens(d, u, p) /\ ~\E j \in 1 .. Len(q) : Ends(q[j], u, p)
              /\ ~Ends(d, u, p)
<1>a. PICK n, r : IsAppend(S, q, d, n, r)
  BY AppendIs
<1>1. /\ n \in Nat /\ r \in Seq(S)
      /\ n = Len(q) /\ DOMAIN q = 1 .. n
      /\ r = Append(q, d) /\ Len(r) = n + 1 /\ DOMAIN r = 1 .. n + 1 /\ r[n + 1] = d
      /\ \A i \in 1 .. n : r[i] = q[i]
  BY <1>a DEF IsAppend
<1>2. ASSUME NEW k \in 0 .. n PROVE OpenAfter(open, r, k, u, p) <=> OpenAfter(open, q, k, u, p)
  <2>1. \A j \in 1 .. k : r[j] = q[j]
    BY <1>1
  <2> QED BY <2>1 DEF OpenAfter
<1>3. OpenAfter(open, r, n + 1, u, p) <=>
        /\ OpenAfter(open, q, n, u, p) \/ (Opens(d, u, p) /\ ~\E j \in 1 .. n : Ends(q[j], u, p))
        /\ ~Ends(d, u, p)
  <2>1. (\E j \in 1 .. n + 1 : Opens(r[j], u, p)) <=> (\E j \in 1 .. n : Opens(q[j], u, p)) \/ Opens(d, u, p)
    BY <1>1
  <2>2. (\E j \in 1 .. n + 1 : Ends(r[j], u, p)) <=> (\E j \in 1 .. n : Ends(q[j], u, p)) \/ Ends(d, u, p)
    BY <1>1
  <2> QED BY <2>1, <2>2 DEF OpenAfter
<1> QED BY <1>1, <1>2, <1>3

\* A datagram read: what is open after it comes to be open.
LEMMA OpenTail ==
  ASSUME NEW S, NEW q \in Seq(S), q # <<>>, NEW open, NEW new, NEW u, NEW p,
         p \in new <=> (p \in open \/ Opens(q[1], u, p)) /\ ~Ends(q[1], u, p),
         Ends(q[1], u, p) => \A j \in 2 .. Len(q) : ~Opens(q[j], u, p)
  PROVE  /\ \A k \in 0 .. Len(q) - 1 :
              OpenAfter(new, Tail(q), k, u, p) <=> OpenAfter(open, q, k + 1, u, p)
         /\ OpenAfter(new, Tail(q), Len(Tail(q)), u, p) <=> OpenAfter(open, q, Len(q), u, p)
<1>a. PICK n, r : IsTail(S, q, n, r)
  BY TailIs
<1>1. /\ n \in Nat /\ r \in Seq(S)
      /\ n + 1 = Len(q) /\ DOMAIN q = 1 .. n + 1 /\ q[1] \in S /\ q[1] = Head(q)
      /\ r = Tail(q) /\ Len(r) = n /\ DOMAIN r = 1 .. n
      /\ \A i \in 1 .. n : r[i] = q[i + 1]
  BY <1>a DEF IsTail
<1>2. ASSUME NEW k \in 0 .. n PROVE OpenAfter(new, r, k, u, p) <=> OpenAfter(open, q, k + 1, u, p)
  <2>1. (\E j \in 1 .. k + 1 : Opens(q[j], u, p)) <=> Opens(q[1], u, p) \/ \E j \in 1 .. k : Opens(r[j], u, p)
    <3>1. ASSUME NEW j \in 1 .. k + 1, Opens(q[j], u, p), j # 1
          PROVE  \E i \in 1 .. k : Opens(r[i], u, p)
      <4>1. j - 1 \in 1 .. k /\ r[j - 1] = q[j]
        BY <1>1, <3>1
      <4> QED BY <3>1, <4>1
    <3>2. ASSUME NEW j \in 1 .. k, Opens(r[j], u, p)
          PROVE  \E i \in 1 .. k + 1 : Opens(q[i], u, p)
      <4>1. j + 1 \in 1 .. k + 1 /\ r[j] = q[j + 1]
        BY <1>1
      <4> QED BY <3>2, <4>1
    <3>3. 1 \in 1 .. k + 1
      BY <1>1
    <3> QED BY <3>1, <3>2, <3>3
  <2>2. (\E j \in 1 .. k + 1 : Ends(q[j], u, p)) <=> Ends(q[1], u, p) \/ \E j \in 1 .. k : Ends(r[j], u, p)
    <3>1. ASSUME NEW j \in 1 .. k + 1, Ends(q[j], u, p), j # 1
          PROVE  \E i \in 1 .. k : Ends(r[i], u, p)
      <4>1. j - 1 \in 1 .. k /\ r[j - 1] = q[j]
        BY <1>1, <3>1
      <4> QED BY <3>1, <4>1
    <3>2. ASSUME NEW j \in 1 .. k, Ends(r[j], u, p)
          PROVE  \E i \in 1 .. k + 1 : Ends(q[i], u, p)
      <4>1. j + 1 \in 1 .. k + 1 /\ r[j] = q[j + 1]
        BY <1>1
      <4> QED BY <3>2, <4>1
    <3>3. 1 \in 1 .. k + 1
      BY <1>1
    <3> QED BY <3>1, <3>2, <3>3
  <2>3. Ends(q[1], u, p) => ~\E j \in 1 .. k : Opens(r[j], u, p)
    <3> SUFFICES ASSUME Ends(q[1], u, p), NEW j \in 1 .. k PROVE ~Opens(r[j], u, p)
      OBVIOUS
    <3>1. j + 1 \in 2 .. Len(q) /\ r[j] = q[j + 1]
      BY <1>1
    <3> QED BY <3>1
  <2>4. ~(Opens(q[1], u, p) /\ Ends(q[1], u, p))
    BY DEF Opens, Ends
  <2> QED BY <2>1, <2>2, <2>3, <2>4 DEF OpenAfter
<1>3. n \in 0 .. n
  BY <1>1
<1> QED BY <1>1, <1>2, <1>3

-----------------------------------------------------------------------------
(* The ports.                                                               *)

LEMMA CountConnect ==
  ASSUME NEW q \in Seq(DatagramType), NEW d \in DatagramType, NEW next \in Nat, NEW end \in Nat,
         CountedUpTo(next, q, end), d.type = "CONNECT", d.port = end
  PROVE  CountedUpTo(next, Append(q, d), end + 1)
<1>a. PICK n, r : IsAppend(DatagramType, q, d, n, r)
  BY AppendIs
<1>1. /\ n \in Nat /\ r \in Seq(DatagramType)
      /\ n = Len(q) /\ DOMAIN q = 1 .. n
      /\ r = Append(q, d) /\ Len(r) = n + 1 /\ DOMAIN r = 1 .. n + 1 /\ r[n + 1] = d
      /\ \A i \in 1 .. n : r[i] = q[i]
  BY <1>a DEF IsAppend
<1>2. \A i \in 1 .. n : q[i].type \in {"CONNECT", "DISCONNECT"} => q[i].port \in Nat /\ q[i].port < end
  BY <1>1, PortNumbers DEF CountedUpTo
<1>3. next <= end + 1 /\ next <= end
  BY DEF CountedUpTo
<1>4. \A i \in 1 .. n + 1 : r[i].type \in {"CONNECT", "DISCONNECT"} => r[i].port < end + 1
  <2> TAKE i \in 1 .. n + 1
  <2>1. CASE i \in 1 .. n
    BY <1>1, <1>2, <2>1
  <2>2. CASE i = n + 1
    BY <1>1, <2>2
  <2> QED BY <1>1, <2>1, <2>2
<1>5. \A i \in 1 .. n + 1 : r[i].type = "CONNECT" => next <= r[i].port
  <2> TAKE i \in 1 .. n + 1
  <2>1. CASE i \in 1 .. n
    BY <1>1, <2>1 DEF CountedUpTo
  <2>2. CASE i = n + 1
    BY <1>1, <1>3, <2>2
  <2> QED BY <1>1, <2>1, <2>2
<1>6. ASSUME NEW i \in 1 .. n + 1, NEW j \in 1 .. n + 1, i < j,
             r[i].type \in {"CONNECT", "DISCONNECT"}, r[j].type = "CONNECT"
      PROVE  r[i].port < r[j].port
  <2>1. i \in 1 .. n /\ r[i] = q[i]
    BY <1>1, <1>6
  <2>2. CASE j \in 1 .. n
    BY <1>1, <1>6, <2>1, <2>2 DEF CountedUpTo
  <2>3. CASE j = n + 1
    BY <1>1, <1>2, <1>6, <2>1, <2>3
  <2> QED BY <1>1, <2>2, <2>3
<1>7. ASSUME NEW m \in next .. end + 1 - 1 PROVE \E i \in 1 .. n + 1 : r[i].type = "CONNECT" /\ r[i].port = m
  <2>1. CASE m = end
    <3>1. n + 1 \in 1 .. n + 1
      BY <1>1
    <3> QED BY <1>1, <2>1, <3>1
  <2>2. CASE m # end
    <3>1. m \in next .. end - 1
      BY <2>2
    <3>2. PICK i \in 1 .. n : q[i].type = "CONNECT" /\ q[i].port = m
      BY <1>1, <3>1 DEF CountedUpTo
    <3>3. i \in 1 .. n + 1 /\ r[i] = q[i]
      BY <1>1
    <3> QED BY <3>2, <3>3
  <2> QED BY <2>1, <2>2
<1> DEFINE e == end + 1
<1> HIDE DEF e
<1>8. CountedUpTo(next, r, e)
  <2>1. /\ next <= e /\ \A i \in 1 .. n + 1 : r[i].type \in {"CONNECT", "DISCONNECT"} => r[i].port < e
        /\ \A m \in next .. e - 1 : \E i \in 1 .. n + 1 : r[i].type = "CONNECT" /\ r[i].port = m
    BY <1>3, <1>4, <1>7 DEF e
  <2>2. \A i, j \in 1 .. n + 1 :
          i < j /\ r[i].type \in {"CONNECT", "DISCONNECT"} /\ r[j].type = "CONNECT" => r[i].port < r[j].port
    BY <1>6
  <2>3. DOMAIN r = 1 .. n + 1
    BY <1>1
  <2> QED BY <1>5, <2>1, <2>2, <2>3, Zenon DEF CountedUpTo
<1> QED BY <1>1, <1>8 DEF e

LEMMA CountOther ==
  ASSUME NEW q \in Seq(DatagramType), NEW d \in DatagramType, NEW next \in Nat, NEW end \in Nat,
         CountedUpTo(next, q, end), d.type # "CONNECT", d.type = "DISCONNECT" => d.port < end
  PROVE  CountedUpTo(next, Append(q, d), end)
<1>a. PICK n, r : IsAppend(DatagramType, q, d, n, r)
  BY AppendIs
<1>1. /\ n \in Nat /\ r \in Seq(DatagramType)
      /\ n = Len(q) /\ DOMAIN q = 1 .. n
      /\ r = Append(q, d) /\ Len(r) = n + 1 /\ DOMAIN r = 1 .. n + 1 /\ r[n + 1] = d
      /\ \A i \in 1 .. n : r[i] = q[i]
  BY <1>a DEF IsAppend
<1>2. \A i \in 1 .. n + 1 : i \in 1 .. n \/ (i = n + 1 /\ r[i] = d)
  BY <1>1
<1>3. \A i \in 1 .. n + 1 : r[i].type \in {"CONNECT", "DISCONNECT"} => r[i].port < end
  BY <1>1, <1>2 DEF CountedUpTo
<1>4. \A i \in 1 .. n + 1 : r[i].type = "CONNECT" => next <= r[i].port
  BY <1>1, <1>2 DEF CountedUpTo
<1>5. ASSUME NEW i \in 1 .. n + 1, NEW j \in 1 .. n + 1, i < j,
             r[i].type \in {"CONNECT", "DISCONNECT"}, r[j].type = "CONNECT"
      PROVE  r[i].port < r[j].port
  <2>1. j \in 1 .. n
    BY <1>2, <1>5
  <2>2. i \in 1 .. n
    BY <1>1, <1>5, <2>1
  <2> QED BY <1>1, <1>5, <2>1, <2>2 DEF CountedUpTo
<1>6. ASSUME NEW m \in next .. end - 1 PROVE \E i \in 1 .. n + 1 : r[i].type = "CONNECT" /\ r[i].port = m
  <2>1. PICK i \in 1 .. n : q[i].type = "CONNECT" /\ q[i].port = m
    BY <1>1 DEF CountedUpTo
  <2>2. i \in 1 .. n + 1 /\ r[i] = q[i]
    BY <1>1
  <2> QED BY <2>1, <2>2
<1>7. CountedUpTo(next, r, end)
  BY <1>1, <1>3, <1>4, <1>5, <1>6 DEF CountedUpTo
<1> QED BY <1>1, <1>7

\* The next CONNECT that is read has the next port.
LEMMA CountRead ==
  ASSUME NEW q \in Seq(DatagramType), q # <<>>, NEW next \in Nat, NEW end \in Nat,
         CountedUpTo(next, q, end)
  PROVE  /\ q[1].type = "CONNECT" => q[1].port = next /\ CountedUpTo(next + 1, Tail(q), end)
         /\ q[1].type # "CONNECT" => CountedUpTo(next, Tail(q), end)
<1>a. PICK n, r : IsTail(DatagramType, q, n, r)
  BY TailIs
<1>1. /\ n \in Nat /\ r \in Seq(DatagramType)
      /\ n + 1 = Len(q) /\ DOMAIN q = 1 .. n + 1 /\ q[1] \in DatagramType /\ q[1] = Head(q)
      /\ r = Tail(q) /\ Len(r) = n /\ DOMAIN r = 1 .. n
      /\ \A i \in 1 .. n : r[i] = q[i + 1]
  BY <1>a DEF IsTail
<1>2. \A i \in 1 .. n : i + 1 \in DOMAIN q /\ r[i] = q[i + 1]
  BY <1>1
<1>3. \A i \in 1 .. n : r[i].type \in {"CONNECT", "DISCONNECT"} => r[i].port < end /\ r[i].port \in Nat
  <2> SUFFICES ASSUME NEW i \in 1 .. n, r[i].type \in {"CONNECT", "DISCONNECT"}
               PROVE  r[i].port < end /\ r[i].port \in Nat
    OBVIOUS
  <2>1. r[i] \in DatagramType
    BY <1>1
  <2>2. r[i].port \in Nat
    BY <2>1, PortNumbers
  <2> QED BY <1>2, <2>2 DEF CountedUpTo
<1>4. \A i \in 1 .. n : r[i].type = "CONNECT" => next <= r[i].port
  BY <1>2 DEF CountedUpTo
<1>5. ASSUME NEW i \in 1 .. n, NEW j \in 1 .. n, i < j,
             r[i].type \in {"CONNECT", "DISCONNECT"}, r[j].type = "CONNECT"
      PROVE  r[i].port < r[j].port
  <2>1. i + 1 < j + 1
    BY <1>5
  <2>2. i + 1 \in DOMAIN q /\ j + 1 \in DOMAIN q /\ r[i] = q[i + 1] /\ r[j] = q[j + 1]
    BY <1>2
  <2>3. \A a, b \in DOMAIN q :
          a < b /\ q[a].type \in {"CONNECT", "DISCONNECT"} /\ q[b].type = "CONNECT" => q[a].port < q[b].port
    BY DEF CountedUpTo
  <2> QED BY <1>5, <2>1, <2>2, <2>3
<1>6. ASSUME NEW m \in next .. end - 1, ~(q[1].type = "CONNECT" /\ q[1].port = m)
      PROVE  \E i \in 1 .. n : r[i].type = "CONNECT" /\ r[i].port = m
  <2>1. PICK i \in 1 .. n + 1 : q[i].type = "CONNECT" /\ q[i].port = m
    BY <1>1 DEF CountedUpTo
  <2>2. i # 1
    BY <1>6, <2>1
  <2>3. i - 1 \in 1 .. n /\ r[i - 1] = q[i]
    BY <1>1, <2>2
  <2> QED BY <2>1, <2>3
<1>7. next <= end
  BY DEF CountedUpTo
<1>8. CASE q[1].type # "CONNECT"
  <2>1. CountedUpTo(next, r, end)
    BY <1>1, <1>3, <1>4, <1>5, <1>6, <1>7, <1>8, ZenonT(60) DEF CountedUpTo
  <2> QED BY <1>1, <1>8, <2>1
<1>9. CASE q[1].type = "CONNECT"
  <2>1. q[1].port \in Nat /\ next <= q[1].port /\ q[1].port < end
    <3>1. 1 \in DOMAIN q
      BY <1>1
    <3> QED BY <1>1, <1>9, <3>1, PortNumbers DEF CountedUpTo
  <2>2. \A i \in 1 .. n : r[i].type = "CONNECT" => q[1].port < r[i].port
    <3> SUFFICES ASSUME NEW i \in 1 .. n, r[i].type = "CONNECT" PROVE q[1].port < r[i].port
      OBVIOUS
    <3>1. 1 \in DOMAIN q /\ i + 1 \in DOMAIN q /\ 1 < i + 1 /\ q[i + 1] = r[i]
      BY <1>1
    <3> QED BY <1>9, <3>1 DEF CountedUpTo
  <2>3. q[1].port = next
    <3> SUFFICES ASSUME q[1].port # next PROVE FALSE
      OBVIOUS
    <3>1. next \in next .. end - 1
      BY <2>1
    <3>2. PICK i \in 1 .. n : r[i].type = "CONNECT" /\ r[i].port = next
      BY <1>6, <3>1
    <3>3. q[1].port < next
      BY <2>2, <3>2
    <3> QED BY <2>1, <3>3
  <2>4. \A i \in 1 .. n : r[i].type = "CONNECT" => next + 1 <= r[i].port
    BY <1>3, <2>2, <2>3
  <2>5. ASSUME NEW m \in next + 1 .. end - 1
        PROVE  \E i \in 1 .. n : r[i].type = "CONNECT" /\ r[i].port = m
    <3>1. m \in next .. end - 1 /\ q[1].port # m
      BY <2>3
    <3> QED BY <1>6, <3>1
  <2>6. next + 1 <= end
    BY <2>1, <2>3
  <2>7. CountedUpTo(next + 1, r, end)
    BY <1>1, <1>3, <1>5, <2>4, <2>5, <2>6 DEF CountedUpTo
  <2> QED BY <1>1, <1>9, <2>3, <2>7
<1> QED BY <1>8, <1>9

LEMMA CountNone ==
  ASSUME NEW next \in Nat, NEW end \in Nat
  PROVE  /\ CountedUpTo(next, <<>>, next)
         /\ CountedUpTo(next, <<>>, end) => next = end
<1>1. DOMAIN <<>> = {}
  OBVIOUS
<1>2. CountedUpTo(next, <<>>, next)
  BY <1>1 DEF CountedUpTo
<1>3. CountedUpTo(next, <<>>, end) => next = end
  <2> SUFFICES ASSUME CountedUpTo(next, <<>>, end), next # end PROVE FALSE
    OBVIOUS
  <2>1. next \in next .. end - 1
    BY DEF CountedUpTo
  <2> QED BY <1>1, <2>1 DEF CountedUpTo
<1> QED BY <1>2, <1>3

-----------------------------------------------------------------------------
(* Lists without duplicates.                                                *)

LEMMA DistinctRemoveAt ==
  ASSUME NEW S, NEW q \in Seq(S), IsInjective(q), NEW k \in DOMAIN q
  PROVE  /\ RemoveAt(q, k) \in Seq(S) /\ IsInjective(RemoveAt(q, k))
         /\ ToSet(RemoveAt(q, k)) = ToSet(q) \ {q[k]}
<1> DEFINE n == Len(q)
           r == RemoveAt(q, k)
           x == q[k]
           at(i) == IF i < k THEN i ELSE i + 1
<1>1. /\ n \in Nat /\ DOMAIN q = 1 .. n /\ k \in 1 .. n /\ q[k] = x
  OBVIOUS
<1>2. /\ r \in Seq(S) /\ DOMAIN r = 1 .. n - 1
      /\ \A j \in 1 .. k - 1 : r[j] = q[j]
      /\ \A j \in k .. n - 1 : r[j] = q[j + 1]
  BY RemoveAtIs
<1> HIDE DEF n, r, x
<1>3. ASSUME NEW i \in 1 .. n - 1 PROVE at(i) \in 1 .. n /\ r[i] = q[at(i)] /\ at(i) # k
  <2>1. CASE i < k
    <3>1. i \in 1 .. k - 1 /\ at(i) = i
      BY <1>1, <2>1
    <3> QED BY <1>1, <1>2, <2>1, <3>1
  <2>2. CASE ~(i < k)
    <3>1. i \in k .. n - 1 /\ at(i) = i + 1
      BY <1>1, <2>2
    <3> QED BY <1>1, <1>2, <3>1
  <2> QED BY <2>1, <2>2
<1>4. \A i, j \in 1 .. n - 1 : at(i) = at(j) => i = j
  BY <1>1
<1>5. ASSUME NEW i \in 1 .. n, i # k PROVE \E j \in 1 .. n - 1 : r[j] = q[i]
  <2>1. CASE i < k
    <3>1. i \in 1 .. n - 1 /\ i \in 1 .. k - 1
      BY <1>1, <2>1
    <3> QED BY <1>2, <3>1
  <2>2. CASE i > k
    <3>1. i - 1 \in 1 .. n - 1 /\ i - 1 \in k .. n - 1 /\ i - 1 + 1 = i
      BY <1>1, <2>2
    <3> QED BY <1>2, <3>1
  <2> QED BY <1>1, <1>5, <2>1, <2>2
<1> HIDE DEF at
<1>6. IsInjective(r)
  <2> SUFFICES ASSUME NEW i \in 1 .. n - 1, NEW j \in 1 .. n - 1, r[i] = r[j] PROVE i = j
    BY <1>2 DEF IsInjective
  <2>1. at(i) = at(j)
    BY <1>1, <1>3 DEF IsInjective
  <2> QED BY <1>4, <2>1
<1>7. ASSUME NEW i \in 1 .. n - 1 PROVE r[i] \in ToSet(q) \ {x}
  <2>1. at(i) \in DOMAIN q /\ r[i] = q[at(i)] /\ at(i) # k
    BY <1>1, <1>3
  <2> QED BY <1>1, <2>1 DEF IsInjective, ToSet
<1>8. ToSet(r) = ToSet(q) \ {x}
  <2>1. ToSet(r) \subseteq ToSet(q) \ {x}
    BY <1>2, <1>7 DEF ToSet
  <2>2. ASSUME NEW y \in ToSet(q) \ {x} PROVE y \in ToSet(r)
    <3>1. PICK i \in 1 .. n : q[i] = y
      BY <1>1 DEF ToSet
    <3>2. i # k
      BY <1>1, <3>1
    <3> QED BY <1>2, <1>5, <3>1, <3>2 DEF ToSet
  <2> QED BY <2>1, <2>2
<1> QED BY <1>2, <1>6, <1>8 DEF r, x

LEMMA DistinctRemove ==
  ASSUME NEW S, NEW q \in Seq(S), IsInjective(q), NEW x
  PROVE  /\ RemoveFirst(q, x) \in Seq(S) /\ IsInjective(RemoveFirst(q, x))
         /\ ToSet(RemoveFirst(q, x)) = ToSet(q) \ {x}
<1>1. CASE x \notin ToSet(q) /\ RemoveFirst(q, x) = q
  <2>1. ToSet(q) = ToSet(q) \ {x}
    BY <1>1
  <2> QED BY <1>1, <2>1
<1>2. ASSUME NEW k \in DOMAIN q, q[k] = x, RemoveFirst(q, x) = RemoveAt(q, k)
      PROVE  /\ RemoveFirst(q, x) \in Seq(S) /\ IsInjective(RemoveFirst(q, x))
             /\ ToSet(RemoveFirst(q, x)) = ToSet(q) \ {x}
  BY <1>2, DistinctRemoveAt
<1> QED BY <1>1, <1>2, RemovesOne

LEMMA DistinctAppend ==
  ASSUME NEW S, NEW q \in Seq(S), NEW x \in S
  PROVE  /\ Append(q, x) \in Seq(S)
         /\ ToSet(Append(q, x)) = ToSet(q) \cup {x}
         /\ IsInjective(q) /\ x \notin ToSet(q) => IsInjective(Append(q, x))
<1>a. PICK n, r : IsAppend(S, q, x, n, r)
  BY AppendIs
<1>1. /\ n \in Nat /\ r \in Seq(S) /\ r = Append(q, x) /\ DOMAIN q = 1 .. n
      /\ DOMAIN r = 1 .. n + 1 /\ r[n + 1] = x /\ \A i \in 1 .. n : r[i] = q[i]
  BY <1>a DEF IsAppend
<1>2. \A i \in 1 .. n + 1 : i \in 1 .. n \/ i = n + 1
  BY <1>1
<1>3. n + 1 \in 1 .. n + 1 /\ \A i \in 1 .. n : i \in 1 .. n + 1
  BY <1>1
<1>4. ToSet(r) = ToSet(q) \cup {x}
  BY <1>1, <1>2, <1>3 DEF ToSet
<1>5. ASSUME IsInjective(q), x \notin ToSet(q) PROVE IsInjective(r)
  <2> SUFFICES ASSUME NEW i \in 1 .. n + 1, NEW j \in 1 .. n + 1, r[i] = r[j] PROVE i = j
    BY <1>1 DEF IsInjective
  <2>1. \A k \in 1 .. n : q[k] # x
    BY <1>1, <1>5 DEF ToSet
  <2>2. CASE i \in 1 .. n /\ j \in 1 .. n
    BY <1>1, <1>5, <2>2 DEF IsInjective
  <2> QED BY <1>1, <1>2, <2>1, <2>2
<1> QED BY <1>1, <1>4, <1>5

LEMMA DistinctTail ==
  ASSUME NEW S, NEW q \in Seq(S), q # <<>>, IsInjective(q)
  PROVE  IsInjective(Tail(q)) /\ ToSet(Tail(q)) = ToSet(q) \ {Head(q)} /\ Head(q) \in ToSet(q)
<1>a. PICK n, r : IsTail(S, q, n, r)
  BY TailIs
<1>1. /\ n \in Nat /\ r = Tail(q) /\ DOMAIN q = 1 .. n + 1 /\ q[1] = Head(q)
      /\ DOMAIN r = 1 .. n /\ \A i \in 1 .. n : r[i] = q[i + 1]
  BY <1>a DEF IsTail
<1>2. \A i \in 1 .. n : i + 1 \in 1 .. n + 1 /\ i + 1 # 1
  BY <1>1
<1>3. IsInjective(r)
  <2> SUFFICES ASSUME NEW i \in 1 .. n, NEW j \in 1 .. n, r[i] = r[j] PROVE i = j
    BY <1>1 DEF IsInjective
  <2>1. i + 1 = j + 1
    BY <1>1, <1>2 DEF IsInjective
  <2> QED BY <2>1
<1>4. \A i \in 1 .. n : r[i] # q[1]
  <2> TAKE i \in 1 .. n
  <2>1. i + 1 \in DOMAIN q /\ 1 \in DOMAIN q /\ i + 1 # 1
    BY <1>1, <1>2
  <2> QED BY <1>1, <2>1 DEF IsInjective
<1>5. ToSet(q) = {Head(q)} \cup ToSet(r)
  BY <1>1, HeadOrTail
<1>6. Head(q) \notin ToSet(r)
  BY <1>1, <1>4 DEF ToSet
<1> QED BY <1>1, <1>3, <1>5, <1>6

\* What has no duplicates is no longer than what has all its elements.
LEMMA DistinctPart ==
  ASSUME NEW S, NEW q \in Seq(S), IsInjective(q), NEW o \in Seq(S), ToSet(q) \subseteq ToSet(o)
  PROVE  Len(q) <= Len(o)
<1>1. \A i \in DOMAIN q : \E j \in DOMAIN o : o[j] = q[i]
  BY DEF ToSet
<1> DEFINE f == [i \in DOMAIN q |-> CHOOSE j \in DOMAIN o : o[j] = q[i]]
<1>2. \A i \in DOMAIN q : f[i] \in DOMAIN o /\ o[f[i]] = q[i]
  BY <1>1
<1>3. f \in [DOMAIN q -> DOMAIN o]
  BY <1>2
<1> HIDE DEF f
<1>4. IsInjective(f)
  BY <1>2, <1>3 DEF IsInjective
<1>5. Part(q, o)
  BY <1>2, <1>3, <1>4, Zenon DEF Part
<1> QED BY <1>5, PartLen, Zenon

-----------------------------------------------------------------------------
(* The sessions that a server has open, and those that it has when it has   *)
(* read its datagrams.                                                      *)
Sessions(s, u) == RowOf(s, u).sessions

OwnPorts(s) ==
  \A u \in Profiles :
    /\ IsInjective(Sessions(s, u))
    /\ \A p \in ToSet(Sessions(s, u)) : p < nextClientPort[s]
    /\ \A v \in Profiles \ {u} : \A p \in ToSet(Sessions(s, u)) : p \notin ToSet(Sessions(s, v))

Has(s, u, p) == OpenAfter(ToSet(Sessions(s, u)), inbox[s], Len(inbox[s]), u, p)

(* No CONNECT finds as many sessions as the limit.                          *)
RoomAt(open, q, n, u) ==
  \E o \in Seq(Ports) :
    Len(o) < MaxSessions /\ \A p \in Ports : OpenAfter(open, q, n, u, p) => p \in ToSet(o)
Room(s) ==
  \A i \in DOMAIN inbox[s] :
    inbox[s][i].type = "CONNECT" =>
      RoomAt(ToSet(Sessions(s, inbox[s][i].profile)), inbox[s], i - 1, inbox[s][i].profile)

Counted(s, end) == CountedUpTo(nextClientPort[s], inbox[s], end)

LEMMA SessionsTyped ==
  ASSUME TypeInv, NEW s \in Servers
  PROVE  \A u : /\ Sessions(s, u) \in Seq(Ports) /\ Len(Sessions(s, u)) <= MaxSessions
                /\ ToSet(Sessions(s, u)) \subseteq Ports
                /\ RowOf(s, u) \in GoodRows
<1> TAKE u
<1>1. IsTable(masterTable[s])
  BY DEF TypeInv, Tables
<1>2. RowOf(s, u) \in GoodRows
  BY <1>1, NewRowGood DEF RowOf, IsTable
<1>3. PICK q \in Seq(Ports) : q = Sessions(s, u) /\ Len(q) <= MaxSessions
  BY <1>2 DEF GoodRows, RowType, Sessions
<1>4. ToSet(q) \subseteq Ports
  BY DEF ToSet
<1> QED BY <1>2, <1>3, <1>4

LEMMA SetRowSessions ==
  ASSUME DOMAIN masterTable = Servers, NEW s \in Servers, NEW u, NEW row, SetRow(s, u, row)
  PROVE  /\ \A v : Sessions(s, v)' = IF v = u THEN row.sessions ELSE Sessions(s, v)
         /\ \A t \in Servers \ {s} : \A v : Sessions(t, v)' = Sessions(t, v)
<1>1. /\ DOMAIN masterTable'[s] = DOMAIN masterTable[s] \cup {u}
      /\ \A v \in DOMAIN masterTable[s] \cup {u} :
           masterTable'[s][v] = IF v = u THEN row ELSE masterTable[s][v]
      /\ \A t \in Servers \ {s} : masterTable'[t] = masterTable[t]
  BY SetRowIs
<1> QED BY <1>1 DEF Sessions, RowOf

\* A table with the same rows and the same sessions in them.
LEMMA SameRows ==
  ASSUME NEW s, DOMAIN masterTable'[s] = DOMAIN masterTable[s],
         \A v \in DOMAIN masterTable[s] : masterTable'[s][v].sessions = masterTable[s][v].sessions
  PROVE  \A v : Sessions(s, v)' = Sessions(s, v)
BY DEF Sessions, RowOf

\* Everything that counts of a server is the same.
SameView(s) == /\ inbox'[s] = inbox[s] /\ nextClientPort'[s] = nextClientPort[s]
               /\ \A u : Sessions(s, u)' = Sessions(s, u)

LEMMA ViewKept ==
  ASSUME NEW s, SameView(s)
  PROVE  /\ OwnPorts(s) => OwnPorts(s)'
         /\ Room(s) => Room(s)'
         /\ \A end : Counted(s, end)' <=> Counted(s, end)
         /\ \A u, p : Has(s, u, p)' <=> Has(s, u, p)
<1>1. OwnPorts(s) => OwnPorts(s)'
  BY DEF OwnPorts, SameView
<1>2. Room(s) => Room(s)'
  BY DEF Room, SameView
<1>3. \A end : Counted(s, end)' <=> Counted(s, end)
  BY DEF Counted, SameView
<1>4. \A u, p : Has(s, u, p)' <=> Has(s, u, p)
  BY DEF Has, SameView
<1> QED BY <1>1, <1>2, <1>3, <1>4

-----------------------------------------------------------------------------
(* A backup reads a datagram.                                               *)

\* The first CONNECT finds fewer sessions than the limit.
LEMMA RoomNow ==
  ASSUME TypeInv, NEW b \in Servers, OwnPorts(b), Room(b), inbox[b] # <<>>,
         inbox[b][1].type = "CONNECT"
  PROVE  Len(Sessions(b, inbox[b][1].profile)) < MaxSessions
<1>1. PICK k \in DatagramType : k = inbox[b][1] /\ 1 \in DOMAIN inbox[b] /\ 1 - 1 = 0
  BY DEF TypeInv, StaticTypes
<1>2. PICK u : u = k.profile
  OBVIOUS
<1>3. u \in Profiles
  BY <1>1, <1>2 DEF DatagramType
<1>4. RoomAt(ToSet(Sessions(b, u)), inbox[b], 0, u)
  BY <1>1, <1>2 DEF Room
<1>5. PICK o \in Seq(Ports) : /\ Len(o) < MaxSessions
                              /\ \A p \in Ports : OpenAfter(ToSet(Sessions(b, u)), inbox[b], 0, u, p) => p \in ToSet(o)
  BY <1>4 DEF RoomAt
<1>6. PICK q \in Seq(Ports) : q = Sessions(b, u) /\ ToSet(q) \subseteq Ports
  BY SessionsTyped
<1>7. ToSet(q) \subseteq ToSet(o)
  <2>1. \A p \in ToSet(q) : OpenAfter(ToSet(q), inbox[b], 0, u, p)
    BY DEF OpenAfter
  <2> QED BY <1>5, <1>6, <2>1
<1>8. IsInjective(q)
  BY <1>3, <1>6 DEF OwnPorts
<1>9. Len(q) <= Len(o) /\ Len(q) \in Nat /\ Len(o) \in Nat
  BY <1>7, <1>8, DistinctPart
<1>10. MaxSessions \in Nat
  BY ReplicationAssumption
<1> QED BY <1>1, <1>2, <1>5, <1>6, <1>9, <1>10

Handled(b, k) ==
  /\ inbox[b] # <<>> /\ k = inbox[b][1] /\ k \in DatagramType /\ inbox'[b] = Tail(inbox[b])
  /\ \A v : v # k.profile => Sessions(b, v)' = Sessions(b, v)
  /\ k.type = "CONNECT" =>
       /\ Sessions(b, k.profile)' = Append(Sessions(b, k.profile), k.port)
       /\ nextClientPort'[b] = nextClientPort[b] + 1
  /\ k.type = "DISCONNECT" =>
       Sessions(b, k.profile)' = RemoveFirst(Sessions(b, k.profile), k.port)
  /\ k.type # "CONNECT" => nextClientPort'[b] = nextClientPort[b]
  /\ k.type \notin {"CONNECT", "DISCONNECT"} => Sessions(b, k.profile)' = Sessions(b, k.profile)

LEMMA Handles ==
  ASSUME TypeInv, Sound, NEW b \in upToDate, b \in Servers, BackupStep(b), b \in upToDate',
         OwnPorts(b), Room(b)
  PROVE  \E k : Handled(b, k)
<1>k. PICK k : k = Datagram(b)
  OBVIOUS
<1>1. /\ inbox[b] # <<>> /\ inbox' = [inbox EXCEPT ![b] = Tail(@)]
  BY DEF BackupStep, ReplicateConnect, ReplicateDisconnect, ReplicateFollow, ReplicateSend, Receives
<1>2. k = inbox[b][1] /\ k \in DatagramType /\ inbox'[b] = Tail(inbox[b]) /\ 1 \in DOMAIN inbox[b]
      /\ 1 .. 1 - 1 = {}
  BY <1>k, <1>1 DEF TypeInv, StaticTypes, Datagram
<1>3. DOMAIN masterTable = Servers /\ nextClientPort \in [Servers -> Nat]
  BY DEF TypeInv, Tables, StaticTypes
<1>4. k.type # "CONNECT" => k.profile \in DOMAIN masterTable[b]
  BY <1>2 DEF Sound, InboxClosed, Closed
<1>5. CASE ReplicateConnect(b)
  <2>1. PICK row : row = RowOf(b, k.profile)
    OBVIOUS
  <2>2. k.type = "CONNECT"
    BY <1>k, <1>5 DEF ReplicateConnect, Receives, Datagram
  <2>3. Len(Sessions(b, k.profile)) < MaxSessions
    BY <1>1, <1>2, <2>2, RoomNow
  <2>4. ~(Len(row.sessions) >= MaxSessions)
    <3>1. Len(row.sessions) \in Nat /\ MaxSessions \in Nat /\ Len(row.sessions) < MaxSessions
      BY <2>1, <2>3, SessionsTyped, ReplicationAssumption DEF Sessions
    <3> QED BY <3>1
  <2>5. /\ SetRow(b, k.profile, [row EXCEPT !.sessions = Append(@, k.port)])
        /\ nextClientPort' = [nextClientPort EXCEPT ![b] = @ + 1]
    BY <1>k, <1>5, <2>1, <2>4 DEF ReplicateConnect
  <2>6. row \in GoodRows
    BY <2>1, SessionsTyped
  <2>7. PICK new : new = [row EXCEPT !.sessions = Append(@, k.port)]
    OBVIOUS
  <2>8. new.sessions = Append(row.sessions, k.port)
    BY <2>6, <2>7 DEF GoodRows, RowType
  <2>9. \A v : Sessions(b, v)' = IF v = k.profile THEN new.sessions ELSE Sessions(b, v)
    <3>1. SetRow(b, k.profile, new)
      BY <2>5, <2>7
    <3> QED BY <1>3, <3>1, SetRowSessions
  <2> QED BY <1>1, <1>2, <1>3, <2>1, <2>2, <2>5, <2>8, <2>9 DEF Handled, Sessions
<1>6. CASE ReplicateDisconnect(b)
  <2>2. k.type = "DISCONNECT"
    BY <1>k, <1>6 DEF ReplicateDisconnect, Receives, Datagram
  <2>3. k.profile \in DOMAIN masterTable[b]
    BY <1>4, <2>2
  <2>4. PICK row : row = masterTable[b][k.profile] /\ row = RowOf(b, k.profile)
    BY <2>3 DEF RowOf
  <2>5. /\ SetRow(b, k.profile, [row EXCEPT !.sessions = RemoveFirst(@, k.port)])
        /\ nextClientPort' = nextClientPort
    BY <1>k, <1>6, <2>3, <2>4 DEF ReplicateDisconnect, NoRow
  <2>6. row \in GoodRows
    BY <2>4, SessionsTyped
  <2>7. PICK new : new = [row EXCEPT !.sessions = RemoveFirst(@, k.port)]
    OBVIOUS
  <2>8. new.sessions = RemoveFirst(row.sessions, k.port)
    BY <2>6, <2>7 DEF GoodRows, RowType
  <2>9. \A v : Sessions(b, v)' = IF v = k.profile THEN new.sessions ELSE Sessions(b, v)
    <3>1. SetRow(b, k.profile, new)
      BY <2>5, <2>7
    <3> QED BY <1>3, <3>1, SetRowSessions
  <2> QED BY <1>1, <1>2, <2>2, <2>4, <2>5, <2>8, <2>9 DEF Handled, Sessions
<1>7. CASE ReplicateFollow(b)
  <2>2. k.type = "FOLLOW"
    BY <1>k, <1>7 DEF ReplicateFollow, Receives, Datagram
  <2>3. k.profile \in DOMAIN masterTable[b]
    BY <1>4, <2>2
  <2>4. nextClientPort' = nextClientPort
    BY <1>k, <1>7, <2>3 DEF ReplicateFollow, NoRow
  <2>5. \A v : Sessions(b, v)' = Sessions(b, v)
    <3>1. CASE UNCHANGED masterTable
      BY <3>1 DEF Sessions, RowOf
    <3>2. CASE ~UNCHANGED masterTable
      <4>1. PICK row : row = masterTable[b][k.follow]
        OBVIOUS
      <4>2. /\ k.follow \in DOMAIN masterTable[b]
            /\ SetRow(b, k.follow, [row EXCEPT !.followers = @ \cup {k.profile}])
        BY <1>k, <1>7, <2>3, <3>2, <4>1 DEF ReplicateFollow, NoRow
      <4>3. row = RowOf(b, k.follow) /\ row \in GoodRows
        BY <4>1, <4>2, SessionsTyped DEF RowOf
      <4>4. PICK new : new = [row EXCEPT !.followers = @ \cup {k.profile}]
        OBVIOUS
      <4>5. new.sessions = row.sessions
        BY <4>3, <4>4 DEF GoodRows, RowType
      <4>6. \A v : Sessions(b, v)' = IF v = k.follow THEN new.sessions ELSE Sessions(b, v)
        <5>1. SetRow(b, k.follow, new)
          BY <4>2, <4>4
        <5> QED BY <1>3, <5>1, SetRowSessions
      <4> QED BY <4>3, <4>5, <4>6 DEF Sessions
    <3> QED BY <3>1, <3>2
  <2> QED BY <1>1, <1>2, <2>2, <2>4, <2>5 DEF Handled
<1>8. CASE ReplicateSend(b)
  <2>2. k.type = "SEND"
    BY <1>k, <1>8 DEF ReplicateSend, Receives, Datagram
  <2>3. k.profile \in DOMAIN masterTable[b]
    BY <1>4, <2>2
  <2>4. PICK to : masterTable' = [masterTable EXCEPT ![b] = Post(@, k.message, to)]
    BY <1>k, <1>8, <2>3 DEF ReplicateSend, NoRow, Dies
  <2>5. nextClientPort' = nextClientPort
    BY <1>k, <1>8, <2>3 DEF ReplicateSend, NoRow, Dies
  <2>6. IsTable(masterTable[b]) /\ k.message \in MessageType
    BY <1>2, <2>2 DEF TypeInv, Tables, DatagramType
  <2>7. PICK t : t = Post(masterTable[b], k.message, to)
    OBVIOUS
  <2>8. DOMAIN t = DOMAIN masterTable[b] /\ \A v \in DOMAIN masterTable[b] : t[v].sessions = masterTable[b][v].sessions
    BY <2>6, <2>7, PostTyped, Zenon
  <2>9. masterTable'[b] = t
    BY <1>3, <2>4, <2>7
  <2>10. \A v : Sessions(b, v)' = Sessions(b, v)
    BY <2>8, <2>9, SameRows
  <2> QED BY <1>1, <1>2, <2>2, <2>5, <2>10 DEF Handled
<1> QED BY <1>5, <1>6, <1>7, <1>8 DEF BackupStep

\* What it will have open is what it would have had.
LEMMA HasKept ==
  ASSUME TypeInv, NEW b \in Servers, NEW k, Handled(b, k), OwnPorts(b), NEW end \in Nat,
         Counted(b, end), NEW u \in Profiles, NEW p \in Ports
  PROVE  /\ Has(b, u, p)' <=> Has(b, u, p)
         /\ \A n \in 0 .. Len(inbox[b]) - 1 :
              OpenAfter(ToSet(Sessions(b, u)'), Tail(inbox[b]), n, u, p) <=>
              OpenAfter(ToSet(Sessions(b, u)), inbox[b], n + 1, u, p)
<1>1. PICK q \in Seq(DatagramType) : q = inbox[b] /\ q # <<>> /\ k = q[1] /\ inbox'[b] = Tail(q)
  BY DEF Handled, TypeInv, StaticTypes
<1>2. PICK old \in Seq(Ports) : old = Sessions(b, u) /\ IsInjective(old)
  BY SessionsTyped DEF OwnPorts
<1>3. PICK new : new = Sessions(b, u)'
  OBVIOUS
<1>4. p \in ToSet(new) <=> (p \in ToSet(old) \/ Opens(k, u, p)) /\ ~Ends(k, u, p)
  <2>1. CASE k.profile = u /\ k.type = "CONNECT"
    <3>1. new = Append(old, k.port) /\ k.port \in Ports
      BY <1>2, <1>3, <2>1, PortNumbers DEF Handled
    <3>2. ToSet(new) = ToSet(old) \cup {k.port}
      BY <3>1, DistinctAppend
    <3> QED BY <2>1, <3>2 DEF Opens, Ends
  <2>2. CASE k.profile = u /\ k.type = "DISCONNECT"
    <3>1. new = RemoveFirst(old, k.port)
      BY <1>2, <1>3, <2>2 DEF Handled
    <3>2. ToSet(new) = ToSet(old) \ {k.port}
      BY <1>2, <3>1, DistinctRemove
    <3> QED BY <2>2, <3>2 DEF Opens, Ends
  <2>3. CASE ~(k.profile = u /\ k.type \in {"CONNECT", "DISCONNECT"})
    <3>1. new = old
      BY <1>2, <1>3, <2>3 DEF Handled
    <3> QED BY <2>3, <3>1 DEF Opens, Ends
  <2> QED BY <2>1, <2>2, <2>3
<1>5. Ends(k, u, p) => \A j \in 2 .. Len(q) : ~Opens(q[j], u, p)
  <2> SUFFICES ASSUME Ends(k, u, p), NEW j \in 2 .. Len(q), Opens(q[j], u, p) PROVE FALSE
    OBVIOUS
  <2>1. 1 \in DOMAIN q /\ j \in DOMAIN q /\ 1 < j
    BY <1>1
  <2>2. q[1].port < q[j].port
    BY <1>1, <2>1 DEF Counted, CountedUpTo, Opens, Ends
  <2>3. q[1].port = p /\ q[j].port = p /\ p \in Nat
    BY <1>1, PortNumbers DEF Opens, Ends
  <2> QED BY <2>2, <2>3
<1>6. /\ \A n \in 0 .. Len(q) - 1 :
           OpenAfter(ToSet(new), Tail(q), n, u, p) <=> OpenAfter(ToSet(old), q, n + 1, u, p)
      /\ OpenAfter(ToSet(new), Tail(q), Len(Tail(q)), u, p) <=> OpenAfter(ToSet(old), q, Len(q), u, p)
  BY <1>1, <1>4, <1>5, OpenTail
<1> QED BY <1>1, <1>2, <1>3, <1>6 DEF Has

\* A session more, on the next port.
LEMMA OwnConnect ==
  ASSUME TypeInv, NEW b \in Servers, OwnPorts(b), NEW c \in Profiles, NEW next \in Ports,
         next = nextClientPort[b], nextClientPort'[b] = next + 1,
         Sessions(b, c)' = Append(Sessions(b, c), next),
         \A v : v # c => Sessions(b, v)' = Sessions(b, v)
  PROVE  OwnPorts(b)'
<1>2. next \in Nat
  BY PortNumbers
<1>5. \A u \in Profiles : Sessions(b, u) \in Seq(Ports) /\ IsInjective(Sessions(b, u)) /\ ToSet(Sessions(b, u)) \subseteq Nat
  BY SessionsTyped, PortNumbers DEF OwnPorts
<1>13. next \notin ToSet(Sessions(b, c))
  BY <1>2 DEF OwnPorts
<1>14. /\ IsInjective(Sessions(b, c)')
      /\ ToSet(Sessions(b, c)') = ToSet(Sessions(b, c)) \cup {next}
  BY <1>5, <1>13, DistinctAppend
<1>15. ASSUME NEW u \in Profiles
      PROVE  /\ IsInjective(Sessions(b, u)')
             /\ \A p \in ToSet(Sessions(b, u)') : p < next + 1
             /\ \A v \in Profiles \ {u} : \A p \in ToSet(Sessions(b, u)') : p \notin ToSet(Sessions(b, v)')
  <2>1. \A v \in Profiles : \A p \in ToSet(Sessions(b, v)) : p < next /\ p \in Nat
    BY <1>2, <1>5 DEF OwnPorts
  <2>2. \A p \in ToSet(Sessions(b, u)') : p < next + 1
    <3> SUFFICES ASSUME NEW p \in ToSet(Sessions(b, u)') PROVE p < next + 1
      OBVIOUS
    <3>1. p \in ToSet(Sessions(b, u)) \/ p = next
      BY <1>14
    <3>2. p \in ToSet(Sessions(b, u)) => p < next /\ p \in Nat
      BY <2>1
    <3> QED BY <1>2, <3>1, <3>2
  <2>3. IsInjective(Sessions(b, u)')
    BY <1>5, <1>14
  <2>4. ASSUME NEW v \in Profiles \ {u}, NEW p \in ToSet(Sessions(b, u)'), p \in ToSet(Sessions(b, v)')
        PROVE  FALSE
    <3>1. CASE u # c /\ v # c
      BY <2>4, <3>1 DEF OwnPorts
    <3>2. CASE u = c
      <4>1. v # c /\ p \in ToSet(Sessions(b, v)) /\ p # next
        BY <1>2, <2>1, <2>4, <3>2
      <4>2. p \in ToSet(Sessions(b, u))
        BY <1>14, <2>4, <3>2, <4>1
      <4> QED BY <2>4, <4>1, <4>2 DEF OwnPorts
    <3>3. CASE v = c
      <4>1. u # c /\ p \in ToSet(Sessions(b, u)) /\ p # next
        BY <1>2, <2>1, <2>4, <3>3
      <4>2. p \in ToSet(Sessions(b, v))
        BY <1>14, <2>4, <3>3, <4>1
      <4> QED BY <2>4, <4>1, <4>2 DEF OwnPorts
    <3> QED BY <3>1, <3>2, <3>3
  <2> QED BY <2>2, <2>3, <2>4
<1> QED BY <1>15 DEF OwnPorts

LEMMA ReadView ==
  ASSUME TypeInv, NEW b \in Servers, NEW k, Handled(b, k), OwnPorts(b), Room(b),
         NEW end \in Nat, Counted(b, end)
  PROVE  /\ OwnPorts(b)' /\ Room(b)' /\ Counted(b, end)'
         /\ \A u \in Profiles, p \in Ports : Has(b, u, p)' <=> Has(b, u, p)
<1>1. PICK q \in Seq(DatagramType) : q = inbox[b] /\ q # <<>> /\ k = q[1] /\ inbox'[b] = Tail(q)
  BY DEF Handled, TypeInv, StaticTypes
<1>2. PICK next \in Nat : next = nextClientPort[b]
  BY DEF TypeInv, StaticTypes
<1>3. /\ k.type = "CONNECT" => k.port = next /\ CountedUpTo(next + 1, Tail(q), end)
      /\ k.type # "CONNECT" => CountedUpTo(next, Tail(q), end)
  BY <1>1, <1>2, CountRead DEF Counted
<1>4. Counted(b, end)'
  BY <1>1, <1>2, <1>3 DEF Handled, Counted
<1>5. \A u \in Profiles : Sessions(b, u) \in Seq(Ports) /\ IsInjective(Sessions(b, u)) /\ ToSet(Sessions(b, u)) \subseteq Nat
  BY SessionsTyped, PortNumbers DEF OwnPorts
<1>6. OwnPorts(b)'
  <2>1. CASE k.type = "CONNECT"
    <3>1. PICK c : c = k.profile
      OBVIOUS
    <3>2. /\ c \in Profiles /\ nextClientPort'[b] = next + 1 /\ next \in Ports
          /\ Sessions(b, c)' = Append(Sessions(b, c), next)
          /\ \A v : v # c => Sessions(b, v)' = Sessions(b, v)
      BY <1>1, <1>2, <1>3, <2>1, <3>1, PortNumbers DEF Handled, DatagramType
    <3> QED BY <1>2, <3>2, OwnConnect
  <2>2. CASE k.type # "CONNECT"
    <3>1. \A u \in Profiles : /\ ToSet(Sessions(b, u)') \subseteq ToSet(Sessions(b, u))
                              /\ IsInjective(Sessions(b, u)')
      <4> TAKE u \in Profiles
      <4>1. \/ Sessions(b, u)' = Sessions(b, u)
            \/ Sessions(b, u)' = RemoveFirst(Sessions(b, u), k.port)
        BY <2>2 DEF Handled
      <4>2. PICK old \in Seq(Ports) : old = Sessions(b, u) /\ IsInjective(old)
        BY <1>5
      <4> QED BY <4>1, <4>2, DistinctRemove
    <3>2. nextClientPort'[b] = nextClientPort[b]
      BY <2>2 DEF Handled
    <3> QED BY <3>1, <3>2 DEF OwnPorts
  <2> QED BY <2>1, <2>2
<1>7. \A u \in Profiles, p \in Ports : Has(b, u, p)' <=> Has(b, u, p)
  BY HasKept
<1>8. Room(b)'
  <2>a. PICK n, r : IsTail(DatagramType, q, n, r)
    BY <1>1, TailIs
  <2>1. /\ n \in Nat /\ r = inbox'[b] /\ r = Tail(q) /\ n + 1 = Len(q) /\ DOMAIN q = 1 .. n + 1
        /\ DOMAIN r = 1 .. n /\ r \in Seq(DatagramType) /\ \A i \in 1 .. n : r[i] = q[i + 1]
    BY <1>1, <2>a DEF IsTail
  <2>2. ASSUME NEW i \in 1 .. n, r[i].type = "CONNECT", NEW u, u = r[i].profile
        PROVE  RoomAt(ToSet(Sessions(b, u)'), r, i - 1, u)
    <3>1. u \in Profiles
      <4>1. r[i] \in DatagramType
        BY <2>1
      <4> QED BY <2>2, <4>1 DEF DatagramType
    <3>2. i + 1 \in DOMAIN q /\ q[i + 1].type = "CONNECT" /\ q[i + 1].profile = u /\ i + 1 - 1 = i
      BY <2>1, <2>2
    <3>3. RoomAt(ToSet(Sessions(b, u)), q, i, u)
      BY <1>1, <3>2 DEF Room
    <3>4. \A p \in Ports : OpenAfter(ToSet(Sessions(b, u)'), r, i - 1, u, p) <=>
                           OpenAfter(ToSet(Sessions(b, u)), q, i, u, p)
      <4> TAKE p \in Ports
      <4>1. i - 1 \in 0 .. n /\ i - 1 \in 0 .. n - 1 /\ i - 1 + 1 = i /\ Len(q) - 1 = n
        <5>1. n \in Nat /\ n + 1 = Len(q) /\ Len(q) \in Nat
          BY <1>1, <2>1
        <5>2. i \in 1 .. n
          OBVIOUS
        <5> QED BY <5>1, <5>2
      <4>2. \A j \in 0 .. n : OpenAfter(ToSet(Sessions(b, u)'), r, j, u, p) <=>
                               OpenAfter(ToSet(Sessions(b, u)), q, j + 1, u, p)
        <5>1. \A j \in 0 .. Len(inbox[b]) - 1 :
                OpenAfter(ToSet(Sessions(b, u)'), Tail(inbox[b]), j, u, p) <=>
                OpenAfter(ToSet(Sessions(b, u)), inbox[b], j + 1, u, p)
          BY <3>1, HasKept
        <5> QED BY <1>1, <2>1, <4>1, <5>1
      <4> QED BY <4>1, <4>2
    <3> QED BY <3>3, <3>4 DEF RoomAt
  <2> QED BY <2>1, <2>2 DEF Room
<1> QED BY <1>4, <1>6, <1>7, <1>8

-----------------------------------------------------------------------------
(* What the servers that missed nothing are to agree on.                    *)

(* The CONNECT of the session that is being opened has been sent to s.      *)
Starting(s, u, p) ==
  /\ loop.pc = "tell" /\ u = loop.profile /\ p = nextClientPort[primary]
  /\ s \notin ToSet(loop.toTell)
EndOf(s) == IF loop.pc = "tell" /\ s \notin ToSet(loop.toTell) THEN nextClientPort[primary] + 1
            ELSE nextClientPort[primary]

(* So has the DISCONNECT of one that is being closed.                       *)
Leaving(s, u, p) ==
  thread[p].pc = "exit" /\ thread[p].profile = u /\ s \notin ToSet(thread[p].toTell)

Expected(s, u, p) ==
  \/ p \in ToSet(Sessions(primary, u)) /\ ~Leaving(s, u, p)
  \/ Starting(s, u, p)

Following(s) ==
  /\ Counted(s, EndOf(s))
  /\ \A u \in Profiles, p \in Ports : Has(s, u, p) <=> Expected(s, u, p)

(* The threads of the primary and its sessions.                             *)
ThreadsOpen ==
  \A p \in Ports : thread[p].pc # "none" => p \in ToSet(Sessions(primary, thread[p].profile))
NoThreads == ~isPrimary => \A p \in Ports : thread[p].pc = "none"

ToReopen(u, p) ==
  loop.pc = "reopen" /\ (u \in loop.users \/ (u = loop.profile /\ p \in ToSet(loop.toOpen)))
Served ==
  isPrimary => \A u \in Profiles : \A p \in ToSet(Sessions(primary, u)) :
                 (thread[p].pc # "none" /\ thread[p].profile = u) \/ ToReopen(u, p)
Reopening ==
  loop.pc = "reopen" =>
    /\ isPrimary
    /\ \A u \in Profiles : \A p \in ToSet(Sessions(primary, u)) : ToReopen(u, p) => thread[p].pc = "none"
    /\ IsInjective(loop.toOpen) /\ loop.profile \notin loop.users
    /\ ToSet(loop.toOpen) \subseteq ToSet(Sessions(primary, loop.profile))

Led == /\ inbox[primary] = <<>> /\ primary \notin ToSet(backupServers)
       /\ \A s \in upToDate \ {primary} : Following(s)
       /\ ThreadsOpen /\ NoThreads /\ Served /\ Reopening

Leaderless ==
  /\ ~isPrimary
  /\ \E end \in Nat : \A s \in upToDate : Counted(s, end)
  /\ \A s, t \in upToDate : \A u \in Profiles, p \in Ports : Has(s, u, p) <=> Has(t, u, p)

(* Nobody is told twice, nor anybody who is not on the list.                *)
Lists ==
  /\ IsInjective(backupServers)
  /\ IsInjective(loop.toTell) /\ ToSet(loop.toTell) \subseteq ToSet(backupServers)
  /\ \A p \in Ports : /\ IsInjective(thread[p].toTell)
                      /\ ToSet(thread[p].toTell) \subseteq ToSet(backupServers)

Say ==
  \A p \in Ports : thread[p].toTell # <<>> =>
    \/ /\ thread[p].pc = "exit"
       /\ thread[p].datagram = [type |-> "DISCONNECT", profile |-> thread[p].profile, port |-> p]
    \/ thread[p].pc = "tell" /\ thread[p].datagram.type \in {"FOLLOW", "SEND"}

Clients ==
  \A p \in Ports : client[p] # Nobody =>
    thread[p].pc # "exit" /\ \A s \in upToDate : Has(s, client[p], p)

Sess == /\ \A s \in upToDate : OwnPorts(s) /\ Room(s)
        /\ primary # Nobody => Led
        /\ primary = Nobody => Leaderless
        /\ Lists /\ Say /\ Clients

LEMMA FollowingSame ==
  ASSUME NEW s, Following(s), SameView(s), EndOf(s)' = EndOf(s),
         \A u \in Profiles, p \in Ports : Expected(s, u, p)' <=> Expected(s, u, p)
  PROVE  Following(s)'
<1>1. Counted(s, EndOf(s))'
  <2>1. PICK end : end = EndOf(s)
    OBVIOUS
  <2>2. Counted(s, end)'
    BY <2>1, ViewKept DEF Following
  <2> QED BY <2>1, <2>2 DEF Counted
<1>2. \A u, p : Has(s, u, p)' <=> Has(s, u, p)
  BY ViewKept
<1> QED BY <1>1, <1>2 DEF Following

\* A step of the primary that changes no sessions, sends nothing and counts nothing.
LEMMA LookSame ==
  ASSUME Sess, primary # Nobody, UNCHANGED <<primary, upToDate>>,
         backupServers' = backupServers \/ primary \notin ToSet(backupServers'),
         inbox'[primary] = inbox[primary],
         \A s \in upToDate : SameView(s),
         \A s \in upToDate \ {primary} :
           EndOf(s)' = EndOf(s) /\ \A u \in Profiles, p \in Ports : Expected(s, u, p)' <=> Expected(s, u, p),
         \A p \in Ports : client'[p] # Nobody => client'[p] = client[p] /\ thread'[p].pc # "exit",
         ThreadsOpen', NoThreads', Served', Reopening', Lists', Say'
  PROVE  Sess'
<1>1. \A s \in upToDate : (OwnPorts(s) /\ Room(s))'
  BY ViewKept DEF Sess
<1>2. \A s \in upToDate \ {primary} : Following(s)'
  BY FollowingSame DEF Sess, Led
<1>3. \A s \in upToDate : \A u, p : Has(s, u, p)' <=> Has(s, u, p)
  BY ViewKept
<1>4. Clients'
  BY <1>3 DEF Sess, Clients
<1> QED BY <1>1, <1>2, <1>4 DEF Sess, Led

\* The same rows and sessions everywhere.
LEMMA LooksSame ==
  ASSUME UNCHANGED <<inbox, nextClientPort>>, \A s \in upToDate : \A u : Sessions(s, u)' = Sessions(s, u)
  PROVE  \A s \in upToDate : SameView(s)
BY DEF SameView

\* Who has everything told is at rest.
LEMMA NothingStarts ==
  ASSUME loop.pc # "tell"
  PROVE  \A s : /\ EndOf(s) = nextClientPort[primary]
                /\ \A u, p : ~Starting(s, u, p)
BY DEF EndOf, Starting

LEMMA ReceiveConnectSess ==
  ASSUME TypeInv, Sound, Sess, NEW u \in Profiles, ReceiveConnect(u)
  PROVE  Sess'
<1>1. /\ primary # Nobody /\ loop.pc = "receive"
      /\ SetRow(primary, u, RowOf(primary, u))
      /\ loop' = [Rest EXCEPT !.pc = "tell", !.profile = u, !.toTell = backupServers]
      /\ UNCHANGED <<primary, isPrimary, backupServers, inbox, nextClientPort, thread, client, upToDate>>
  BY DEF ReceiveConnect, Serving, roles, net, counts
<1>2. /\ primary \in Servers /\ DOMAIN masterTable = Servers /\ upToDate \subseteq Servers
      /\ upToDate \ {primary} \subseteq ToSet(backupServers)
  BY <1>1, Server DEF TypeInv, Tables, StaticTypes, Sound, Enlisted
<1>3. \A s \in Servers : \A v : Sessions(s, v)' = Sessions(s, v)
  <2>1. PICK row : row = RowOf(primary, u)
    OBVIOUS
  <2>2. SetRow(primary, u, row)
    BY <1>1, <2>1
  <2>P. PICK c \in Servers : c = primary
    BY <1>2
  <2>3. /\ \A v : Sessions(c, v)' = IF v = u THEN row.sessions ELSE Sessions(c, v)
        /\ \A t \in Servers \ {c} : \A v : Sessions(t, v)' = Sessions(t, v)
    BY <1>2, <2>2, <2>P, SetRowSessions
  <2>4. Sessions(c, u) = row.sessions
    BY <2>1, <2>P DEF Sessions
  <2> QED BY <2>3, <2>4
<1>4. \A s \in upToDate : SameView(s)
  BY <1>1, <1>2, <1>3, LooksSame
<1>5. loop'.pc = "tell" /\ loop'.profile = u /\ loop'.toTell = backupServers
  BY <1>1 DEF Rest
<1>6. ASSUME NEW s \in upToDate \ {primary}
      PROVE  EndOf(s)' = EndOf(s) /\ \A v \in Profiles, p \in Ports : Expected(s, v, p)' <=> Expected(s, v, p)
  <2>1. s \in ToSet(backupServers)
    BY <1>2
  <2>2. EndOf(s)' = EndOf(s)
    BY <1>1, <1>5, <2>1 DEF EndOf
  <2>3. \A v, p : ~Starting(s, v, p) /\ ~Starting(s, v, p)'
    BY <1>1, <1>5, <2>1 DEF Starting
  <2>4. \A v, p : Leaving(s, v, p)' <=> Leaving(s, v, p)
    BY <1>1 DEF Leaving
  <2>5. \A v : Sessions(primary, v)' = Sessions(primary, v)
    BY <1>1, <1>2, <1>3
  <2> QED BY <2>2, <2>3, <2>4, <2>5 DEF Expected
<1>7. \A v : Sessions(primary, v)' = Sessions(primary, v)
  BY <1>1, <1>2, <1>3
<1>p. ThreadsOpen /\ NoThreads /\ Served /\ Lists /\ Say /\ Clients
  BY <1>1 DEF Sess, Led
<1>8. ThreadsOpen' /\ NoThreads' /\ Served' /\ Reopening'
  <2>1. ThreadsOpen' /\ NoThreads'
    BY <1>1, <1>7, <1>p DEF ThreadsOpen, NoThreads
  <2>2. Served'
    BY <1>1, <1>7, <1>p DEF Served, ToReopen
  <2>3. Reopening'
    BY <1>5 DEF Reopening
  <2> QED BY <2>1, <2>2, <2>3
<1>9. Lists'
  BY <1>1, <1>5, <1>p DEF Lists
<1>10. Say' /\ \A p \in Ports : client[p] # Nobody => thread'[p].pc # "exit"
  BY <1>1 DEF Sess, Say, Clients
<1> QED BY <1>1, <1>4, <1>6, <1>8, <1>9, <1>10, LookSame

LEMMA Leads ==
  ASSUME Sess, primary # Nobody
  PROVE  /\ inbox[primary] = <<>> /\ primary \notin ToSet(backupServers)
         /\ \A s \in upToDate \ {primary} : Following(s)
         /\ ThreadsOpen /\ NoThreads /\ Served /\ Reopening
         /\ Lists /\ Say /\ Clients
BY DEF Sess, Led

\* The loop turns to something else, and tells nobody anything.
LEMMA LoopTurns ==
  ASSUME Sess, primary # Nobody, loop.pc # "tell", loop'.pc # "tell", loop'.toTell = <<>>,
         UNCHANGED <<primary, upToDate, backupServers, client, inbox, nextClientPort, masterTable, thread>>,
         NoThreads', Served', Reopening'
  PROVE  Sess'
<1>1. \A s, v : Sessions(s, v)' = Sessions(s, v)
  BY DEF Sessions, RowOf
<1>2. \A s \in upToDate : SameView(s)
  BY <1>1, LooksSame
<1>3. ASSUME NEW s \in upToDate
      PROVE  EndOf(s)' = EndOf(s) /\ \A v \in Profiles, p \in Ports : Expected(s, v, p)' <=> Expected(s, v, p)
  <2>1. EndOf(s)' = EndOf(s)
    BY DEF EndOf
  <2>2. \A v, p : ~Starting(s, v, p) /\ ~Starting(s, v, p)'
    BY DEF Starting
  <2>3. \A v, p : Leaving(s, v, p)' <=> Leaving(s, v, p)
    BY DEF Leaving
  <2>4. \A v : Sessions(primary, v)' = Sessions(primary, v)
    BY DEF Sessions, RowOf
  <2> QED BY <2>1, <2>2, <2>3, <2>4 DEF Expected
<1>4. ThreadsOpen'
  <2>1. \A v : Sessions(primary, v)' = Sessions(primary, v)
    BY DEF Sessions, RowOf
  <2> QED BY <2>1, Leads DEF ThreadsOpen
<1>5. Lists'
  <2>1. <<>> \in Seq(Servers) /\ DOMAIN <<>> = {}
    OBVIOUS
  <2>2. IsInjective(loop.toTell)' /\ ToSet(loop.toTell)' = {}
    BY <2>1 DEF IsInjective, ToSet
  <2> QED BY <2>2, Leads DEF Lists
<1>6. Say' /\ \A p \in Ports : client[p] # Nobody => thread'[p].pc # "exit"
  BY Leads DEF Say, Clients
<1> QED BY <1>2, <1>3, <1>4, <1>5, <1>6, LookSame

\* Who has sessions has a row.
LEMMA SessionsHere ==
  ASSUME NEW s, NEW u
  PROVE  /\ u \in DOMAIN masterTable[s] => Sessions(s, u) = masterTable[s][u].sessions
         /\ u \notin DOMAIN masterTable[s] => Sessions(s, u) = <<>> /\ ToSet(Sessions(s, u)) = {}
<1>1. DOMAIN <<>> = {}
  OBVIOUS
<1>2. ToSet(<<>>) = {}
  BY <1>1 DEF ToSet
<1> QED BY <1>2 DEF Sessions, RowOf, NewRow

LEMMA BecomePrimarySess ==
  ASSUME TypeInv, Sound, Sess, BecomePrimary
  PROVE  Sess'
<1>1. /\ primary # Nobody /\ loop.pc = "receive" /\ ~isPrimary /\ isPrimary'
      /\ loop' = [Rest EXCEPT !.pc = "reopen",
                              !.users = {u \in DOMAIN Table : Table[u].sessions # <<>>}]
      /\ UNCHANGED <<primary, upToDate, backupServers, client, inbox, nextClientPort, masterTable, thread>>
  BY DEF BecomePrimary, Serving, net, counts, history
<1>2. PICK here : here = primary /\ primary' = here
  BY <1>1
<1>3. /\ loop'.pc = "reopen" /\ loop'.toTell = <<>> /\ loop'.toOpen = <<>> /\ loop'.profile = Nobody
      /\ loop'.users = {u \in DOMAIN masterTable[here] : masterTable[here][u].sessions # <<>>}
  BY <1>1, <1>2 DEF Rest, Table
<1>4. \A p \in Ports : thread'[p].pc = "none"
  BY <1>1, Leads DEF NoThreads
<1>5. DOMAIN masterTable[here] \subseteq Profiles
  BY <1>1, <1>2, Server DEF IsTable, Table
<1>6. DOMAIN <<>> = {} /\ ToSet(<<>>) = {} /\ IsInjective(<<>>)
  <2>1. DOMAIN <<>> = {}
    OBVIOUS
  <2> QED BY <2>1 DEF ToSet, IsInjective
<1>7. ASSUME NEW u \in Profiles, NEW p \in ToSet(Sessions(here, u)) PROVE u \in loop'.users
  <2>1. Sessions(here, u) # <<>>
    BY <1>6, <1>7
  <2>2. u \in DOMAIN masterTable[here]
    BY <2>1, SessionsHere
  <2> QED BY <1>3, <2>1, <2>2, SessionsHere
<1>8. \A u : Sessions(here, u)' = Sessions(here, u)
  BY <1>1 DEF Sessions, RowOf
<1>9. \A u \in Profiles : ToSet(Sessions(here, u)) \subseteq Ports
  <2>1. here \in Servers
    BY <1>1, <1>2, Server
  <2> QED BY <2>1, SessionsTyped
<1>10. NoThreads'
  BY <1>4 DEF NoThreads
<1>11. Served'
  BY <1>2, <1>3, <1>7, <1>8 DEF Served, ToReopen
<1>12. Reopening'
  <2>1. Nobody \notin loop'.users
    BY <1>3, <1>5, ReplicationAssumption
  <2>2. \A u \in Profiles : \A p \in ToSet(Sessions(here, u)') : thread'[p].pc = "none"
    BY <1>4, <1>8, <1>9
  <2>3. isPrimary'
    BY <1>1
  <2> QED BY <1>2, <1>3, <1>6, <2>1, <2>2, <2>3 DEF Reopening
<1> QED BY <1>1, <1>3, <1>10, <1>11, <1>12, LoopTurns

LEMMA ReopenUserSess ==
  ASSUME TypeInv, Sound, Sess, NEW u \in Profiles, ReopenUser(u)
  PROVE  Sess'
<1>1. /\ loop.pc = "reopen" /\ loop.toOpen = <<>> /\ u \in loop.users
      /\ loop' = [loop EXCEPT !.profile = u, !.users = @ \ {u}, !.toOpen = Table[u].sessions]
      /\ UNCHANGED <<primary, isPrimary, upToDate, backupServers, client, inbox, nextClientPort, masterTable,
                     thread>>
  BY DEF ReopenUser, roles, net, counts, history
<1>2. PICK here \in Servers : here = primary /\ primary' = here
  BY <1>1, Busy, Server
<1>3. primary # Nobody /\ here \in upToDate
  BY <1>1, <1>2, SomebodyServes
<1>4. /\ loop'.pc = "reopen" /\ loop'.toTell = <<>> /\ loop'.profile = u
      /\ loop'.users = loop.users \ {u} /\ loop'.toOpen = Sessions(here, u)
  <2>1. loop \in LoopType /\ loop.toTell = <<>> /\ loop.users \subseteq DOMAIN masterTable[here]
    BY <1>1, <1>2 DEF TypeInv, LoopTyped, Table
  <2>2. Sessions(here, u) = Table[u].sessions
    BY <1>1, <1>2, <2>1, SessionsHere DEF Table
  <2> QED BY <1>1, <2>1, <2>2 DEF LoopType
<1>5. \A v : Sessions(here, v)' = Sessions(here, v)
  BY <1>1 DEF Sessions, RowOf
<1>6. NoThreads /\ Served /\ Reopening
  BY <1>3, Leads
<1>7. ToSet(loop.toOpen) = {}
  BY <1>1 DEF ToSet
<1>8. NoThreads'
  BY <1>1, <1>6 DEF NoThreads
<1>9. \A v \in Profiles : \A p \in ToSet(Sessions(here, v)) : ToReopen(v, p)' <=> ToReopen(v, p)
  <2> SUFFICES ASSUME NEW v \in Profiles, NEW p \in ToSet(Sessions(here, v))
               PROVE  ToReopen(v, p)' <=> ToReopen(v, p)
    OBVIOUS
  <2>1. ToReopen(v, p) <=> v \in loop.users
    BY <1>1, <1>7 DEF ToReopen
  <2>2. ToReopen(v, p)' <=> v \in loop.users \ {u} \/ v = u
    BY <1>4 DEF ToReopen
  <2> QED BY <1>1, <2>1, <2>2
<1>10. Served'
  BY <1>1, <1>2, <1>5, <1>6, <1>9 DEF Served
<1>11. Reopening'
  <2>1. \A v \in Profiles : \A p \in ToSet(Sessions(here, v)) : ToReopen(v, p) => thread[p].pc = "none"
    BY <1>1, <1>2, <1>6 DEF Reopening
  <2>2. IsInjective(Sessions(here, u))
    BY <1>3 DEF Sess, OwnPorts
  <2>3. isPrimary'
    BY <1>1, <1>6 DEF Reopening
  <2>4. \A v \in Profiles : \A p \in ToSet(Sessions(here, v)') : ToReopen(v, p)' => thread'[p].pc = "none"
    BY <1>1, <1>5, <1>9, <2>1
  <2> QED BY <1>2, <1>4, <1>5, <2>2, <2>3, <2>4 DEF Reopening
<1>12. loop.pc # "tell" /\ loop'.pc # "tell"
  BY <1>1, <1>4
<1> QED BY <1>1, <1>3, <1>4, <1>8, <1>10, <1>11, <1>12, LoopTurns

LEMMA EnterPrimaryLoopSess ==
  ASSUME TypeInv, Sound, Sess, EnterPrimaryLoop
  PROVE  Sess'
<1>1. /\ loop.pc = "reopen" /\ loop.toOpen = <<>> /\ loop.users = {}
      /\ loop' = Rest
      /\ UNCHANGED <<primary, isPrimary, upToDate, backupServers, client, inbox, nextClientPort, masterTable,
                     thread>>
  BY DEF EnterPrimaryLoop, roles, net, counts, history
<1>2. primary # Nobody
  BY <1>1, Busy
<1>3. loop'.pc = "receive" /\ loop'.toTell = <<>>
  BY <1>1 DEF Rest
<1>4. NoThreads /\ Served
  BY <1>2, Leads
<1>5. ToSet(loop.toOpen) = {}
  BY <1>1 DEF ToSet
<1>6. \A u, p : ~ToReopen(u, p)
  BY <1>1, <1>5 DEF ToReopen
<1>7. \A u : Sessions(primary, u)' = Sessions(primary, u)
  BY <1>1 DEF Sessions, RowOf
<1>8. NoThreads' /\ Served' /\ Reopening'
  BY <1>1, <1>3, <1>4, <1>6, <1>7 DEF NoThreads, Served, Reopening
<1>9. loop.pc # "tell" /\ loop'.pc # "tell"
  BY <1>1, <1>3
<1> QED BY <1>1, <1>2, <1>3, <1>8, <1>9, LoopTurns

-----------------------------------------------------------------------------
(* The session threads.                                                     *)

(* A thread starts telling of something other than its end.                 *)
Speaks(old, new) ==
  /\ old.pc = "run" /\ new.pc \in {"run", "tell"} /\ new.profile = old.profile
  /\ IsInjective(new.toTell) /\ ToSet(new.toTell) \subseteq ToSet(backupServers)
  /\ new.toTell # <<>> => new.pc = "tell" /\ new.datagram.type \in {"FOLLOW", "SEND"}

LEMMA ThreadTurns ==
  ASSUME TypeInv, Sess, primary # Nobody,
         UNCHANGED <<primary, isPrimary, upToDate, backupServers, client, inbox, nextClientPort, loop>>,
         \A s \in Servers : \A v : Sessions(s, v)' = Sessions(s, v),
         \A q \in Ports : thread'[q] = thread[q] \/ Speaks(thread[q], thread'[q])
  PROVE  Sess'
<1>1. \A q \in Ports : /\ thread'[q].pc = "none" <=> thread[q].pc = "none"
                       /\ thread'[q].profile = thread[q].profile
                       /\ thread'[q].pc = "exit" <=> thread[q].pc = "exit"
                       /\ thread'[q].pc = "exit" => thread'[q].toTell = thread[q].toTell
  BY DEF Speaks
<1>2. PICK here \in Servers : here = primary /\ primary' = here
  BY Server
<1>3. upToDate \subseteq Servers
  BY DEF TypeInv, StaticTypes
<1>4. \A s \in upToDate : SameView(s)
  BY <1>3, LooksSame
<1>5. \A v : Sessions(here, v)' = Sessions(here, v)
  OBVIOUS
<1>6. ASSUME NEW s \in upToDate
      PROVE  EndOf(s)' = EndOf(s) /\ \A v \in Profiles, p \in Ports : Expected(s, v, p)' <=> Expected(s, v, p)
  <2>1. EndOf(s)' = EndOf(s)
    BY DEF EndOf
  <2>2. \A v, p : Starting(s, v, p)' <=> Starting(s, v, p)
    BY DEF Starting
  <2>3. \A v : \A p \in Ports : Leaving(s, v, p)' <=> Leaving(s, v, p)
    BY <1>1 DEF Leaving
  <2> QED BY <1>2, <1>5, <2>1, <2>2, <2>3 DEF Expected
<1>7. ThreadsOpen /\ NoThreads /\ Served /\ Reopening /\ Lists /\ Say /\ Clients
  BY Leads
<1>8. ThreadsOpen' /\ NoThreads'
  BY <1>1, <1>2, <1>5, <1>7 DEF ThreadsOpen, NoThreads
<1>9. \A v \in Profiles : ToSet(Sessions(here, v)) \subseteq Ports
  BY SessionsTyped
<1>10. \A v, p : ToReopen(v, p)' <=> ToReopen(v, p)
  BY DEF ToReopen
<1>11. Served'
  BY <1>1, <1>2, <1>5, <1>7, <1>9, <1>10 DEF Served
<1>12. Reopening'
  <2>1. loop.pc = "reopen" => Sessions(here, loop.profile)' = Sessions(here, loop.profile)
    BY <1>5
  <2> QED BY <1>1, <1>2, <1>5, <1>7, <1>9, <1>10, <2>1 DEF Reopening
<1>13. Lists'
  BY <1>7 DEF Lists, Speaks
<1>14. Say'
  BY <1>7 DEF Say, Speaks
<1>15. \A p \in Ports : client[p] # Nobody => thread'[p].pc # "exit"
  BY <1>1, <1>7 DEF Clients
<1> QED BY <1>4, <1>6, <1>8, <1>11, <1>12, <1>13, <1>14, <1>15, LookSame

\* The primary has another table with the same rows and sessions.
LEMMA TableTurns ==
  ASSUME NEW here \in Servers, DOMAIN masterTable'[here] = DOMAIN masterTable[here],
         \A v \in DOMAIN masterTable[here] : masterTable'[here][v].sessions = masterTable[here][v].sessions,
         \A s \in Servers \ {here} : masterTable'[s] = masterTable[s]
  PROVE  \A s \in Servers : \A v : Sessions(s, v)' = Sessions(s, v)
<1>1. \A v : Sessions(here, v)' = Sessions(here, v)
  BY SameRows
<1>2. \A s \in Servers \ {here} : \A v : Sessions(s, v)' = Sessions(s, v)
  BY DEF Sessions, RowOf
<1> QED BY <1>1, <1>2

\* What Tell does to the thread.
LEMMA Told1 ==
  ASSUME TypeInv, Sess, NEW p \in Ports, thread[p].pc = "run", NEW d, d.type \in {"FOLLOW", "SEND"},
         Tell(p, "tell", d)
  PROVE  \A q \in Ports : thread'[q] = thread[q] \/ Speaks(thread[q], thread'[q])
<1>1. thread \in [Ports -> ThreadType] /\ IsInjective(backupServers)
  BY DEF TypeInv, Threads, Sess, Lists
<1>2. thread[p] \in ThreadType
  BY <1>1
<1>3. PICK new : new = [thread[p] EXCEPT !.pc = "tell", !.datagram = d, !.toTell = backupServers]
  OBVIOUS
<1>4. new.pc = "tell" /\ new.datagram = d /\ new.toTell = backupServers /\ new.profile = thread[p].profile
  BY <1>2, <1>3 DEF ThreadType
<1>5. Speaks(thread[p], new)
  BY <1>1, <1>4 DEF Speaks
<1>6. CASE backupServers = <<>>
  <2>1. thread' = [thread EXCEPT ![p] = thread[p]]
    BY <1>6 DEF Tell
  <2> QED BY <1>1, <2>1
<1>7. CASE backupServers # <<>>
  <2>1. thread' = [thread EXCEPT ![p] = new]
    BY <1>3, <1>7 DEF Tell
  <2> QED BY <1>1, <1>5, <2>1
<1> QED BY <1>6, <1>7

LEMMA FollowSess ==
  ASSUME TypeInv, Sound, Sess, NEW p \in Ports, NEW new \in Profiles, Follow(p, new)
  PROVE  Sess'
<1>u. PICK u : u = thread[p].profile
  OBVIOUS
<1>d. PICK d : d = [type |-> "FOLLOW", profile |-> u, follow |-> new]
  OBVIOUS
<1>1. /\ thread[p].pc = "run"
      /\ masterTable' = [masterTable EXCEPT ![primary] = Followed(@, u, new)]
      /\ Tell(p, "tell", d)
      /\ UNCHANGED <<primary, isPrimary, upToDate, backupServers, client, inbox, nextClientPort, loop>>
  BY <1>u, <1>d DEF Follow, roles, net, history
<1>2. primary \in Servers /\ IsTable(Table) /\ u \in DOMAIN Table /\ primary # Nobody
  BY <1>1, <1>u, RunningTypes, Busy
<1>3. PICK here \in Servers : here = primary /\ IsTable(masterTable[here]) /\ u \in DOMAIN masterTable[here]
  BY <1>2 DEF Table
<1>4. PICK t : t = Followed(masterTable[here], u, new)
  OBVIOUS
<1>5. DOMAIN t = DOMAIN masterTable[here] /\ \A v \in DOMAIN t : t[v].sessions = masterTable[here][v].sessions
  BY <1>3, <1>4, FollowedTyped
<1>6. masterTable'[here] = t /\ \A s \in Servers \ {here} : masterTable'[s] = masterTable[s]
  BY <1>1, <1>3, <1>4 DEF TypeInv, Tables
<1>7. \A s \in Servers : \A v : Sessions(s, v)' = Sessions(s, v)
  BY <1>5, <1>6, TableTurns
<1>8. d.type \in {"FOLLOW", "SEND"}
  BY <1>d
<1>9. \A q \in Ports : thread'[q] = thread[q] \/ Speaks(thread[q], thread'[q])
  BY <1>1, <1>8, Told1
<1> QED BY <1>1, <1>2, <1>7, <1>9, ThreadTurns

LEMMA SendSess ==
  ASSUME TypeInv, Sound, Sess, NEW p \in Ports, Send(p)
  PROVE  Sess'
<1>u. PICK u : u = thread[p].profile
  OBVIOUS
<1>m. PICK m : m = [from |-> u, id |-> sends + 1]
  OBVIOUS
<1>d. PICK d : d = [type |-> "SEND", profile |-> u, message |-> m]
  OBVIOUS
<1>t. PICK to : to = Table[u].followers \cap DOMAIN Table
  OBVIOUS
<1>1. /\ thread[p].pc = "run" /\ sends < MaxSends
      /\ masterTable' = [masterTable EXCEPT ![primary] = Post(@, m, to)]
      /\ Tell(p, "tell", d)
      /\ UNCHANGED <<primary, isPrimary, upToDate, backupServers, client, inbox, nextClientPort, loop>>
  BY <1>u, <1>m, <1>d, <1>t DEF Send, roles, net
<1>2. primary \in Servers /\ IsTable(Table) /\ u \in DOMAIN Table /\ primary # Nobody /\ u \in Profiles
  BY <1>1, <1>u, RunningTypes, Busy
<1>3. PICK here \in Servers : here = primary /\ IsTable(masterTable[here])
  BY <1>2 DEF Table
<1>4. PICK t : t = Post(masterTable[here], m, to)
  OBVIOUS
<1>5. DOMAIN t = DOMAIN masterTable[here] /\ \A v \in DOMAIN t : t[v].sessions = masterTable[here][v].sessions
  <2>1. m \in MessageType
    <3>1. sends \in 0 .. MaxSends /\ MaxSends \in Nat
      BY ReplicationAssumption DEF TypeInv, StaticTypes
    <3>2. sends + 1 \in 0 .. MaxSends
      BY <1>1, <3>1
    <3> QED BY <1>2, <1>m, <3>2 DEF MessageType
  <2> QED BY <1>3, <1>4, <2>1, PostTyped
<1>6. masterTable'[here] = t /\ \A s \in Servers \ {here} : masterTable'[s] = masterTable[s]
  BY <1>1, <1>3, <1>4 DEF TypeInv, Tables
<1>7. \A s \in Servers : \A v : Sessions(s, v)' = Sessions(s, v)
  BY <1>5, <1>6, TableTurns
<1>8. d.type \in {"FOLLOW", "SEND"}
  BY <1>d
<1>9. \A q \in Ports : thread'[q] = thread[q] \/ Speaks(thread[q], thread'[q])
  BY <1>1, <1>8, Told1
<1> QED BY <1>1, <1>2, <1>7, <1>9, ThreadTurns

LEMMA ShowSess ==
  ASSUME TypeInv, Sound, Sess, NEW p \in Ports, NEW message, Show(p, message)
  PROVE  Sess'
<1>u. PICK u : u = thread[p].profile
  OBVIOUS
<1>1. /\ thread[p].pc = "run"
      /\ SetRow(primary, u, [Table[u] EXCEPT !.messages = @ \ {message}])
      /\ UNCHANGED <<primary, isPrimary, upToDate, backupServers, client, inbox, nextClientPort, loop, thread>>
  BY <1>u DEF Show, roles, net, counts, history
<1>2. primary \in Servers /\ IsTable(Table) /\ u \in DOMAIN Table /\ primary # Nobody /\ Table[u] \in GoodRows
  BY <1>1, <1>u, RunningTypes, Busy
<1>3. PICK here \in Servers : here = primary /\ u \in DOMAIN masterTable[here]
  BY <1>2 DEF Table
<1>4. PICK row : row = [Table[u] EXCEPT !.messages = @ \ {message}]
  OBVIOUS
<1>5. row.sessions = masterTable[here][u].sessions
  BY <1>2, <1>3, <1>4 DEF Table, GoodRows, RowType
<1>6. SetRow(here, u, row) /\ DOMAIN masterTable = Servers
  BY <1>1, <1>3, <1>4 DEF TypeInv, Tables
<1>7. /\ DOMAIN masterTable'[here] = DOMAIN masterTable[here] \cup {u}
      /\ \A v \in DOMAIN masterTable[here] \cup {u} :
           masterTable'[here][v] = IF v = u THEN row ELSE masterTable[here][v]
      /\ \A t \in Servers \ {here} : masterTable'[t] = masterTable[t]
  BY <1>6, SetRowIs
<1>8. \A s \in Servers : \A v : Sessions(s, v)' = Sessions(s, v)
  <2>1. DOMAIN masterTable'[here] = DOMAIN masterTable[here]
    BY <1>3, <1>7
  <2>2. \A v \in DOMAIN masterTable[here] : masterTable'[here][v].sessions = masterTable[here][v].sessions
    BY <1>3, <1>5, <1>7
  <2> QED BY <1>7, <2>1, <2>2, TableTurns
<1> QED BY <1>1, <1>2, <1>8, ThreadTurns

-----------------------------------------------------------------------------
(* A datagram is sent to c.                                                 *)

SentTo(c, d) ==
  /\ inbox[c] \in Seq(DatagramType) /\ d \in DatagramType
  /\ inbox'[c] = Append(inbox[c], d) /\ nextClientPort'[c] = nextClientPort[c]
  /\ \A u : Sessions(c, u)' = Sessions(c, u)

LEMMA SentHas ==
  ASSUME NEW c, NEW d, SentTo(c, d), NEW u, NEW p
  PROVE  Has(c, u, p)' <=>
           /\ Has(c, u, p) \/ (Opens(d, u, p) /\ ~\E j \in DOMAIN inbox[c] : Ends(inbox[c][j], u, p))
           /\ ~Ends(d, u, p)
<1>1. PICK q \in Seq(DatagramType) : q = inbox[c]
  BY DEF SentTo
<1>2. PICK r : r = Append(q, d)
  OBVIOUS
<1>3. PICK open : open = ToSet(Sessions(c, u))
  OBVIOUS
<1>4. d \in DatagramType /\ DOMAIN q = 1 .. Len(q)
  BY <1>1 DEF SentTo
<1>5. OpenAfter(open, r, Len(r), u, p) <=>
        /\ \/ OpenAfter(open, q, Len(q), u, p)
           \/ Opens(d, u, p) /\ ~\E j \in DOMAIN q : Ends(q[j], u, p)
        /\ ~Ends(d, u, p)
  BY <1>2, <1>4, OpenAppend
<1>6. Has(c, u, p) <=> OpenAfter(open, q, Len(q), u, p)
  BY <1>1, <1>3 DEF Has
<1>7. Has(c, u, p)' <=> OpenAfter(open, r, Len(r), u, p)
  BY <1>1, <1>2, <1>3 DEF Has, SentTo
<1> QED BY <1>1, <1>5, <1>6, <1>7

LEMMA SentRoom ==
  ASSUME NEW c, NEW d, SentTo(c, d), Room(c),
         d.type = "CONNECT" => RoomAt(ToSet(Sessions(c, d.profile)), inbox[c], Len(inbox[c]), d.profile)
  PROVE  Room(c)'
<1>1. PICK q \in Seq(DatagramType) : q = inbox[c]
  BY DEF SentTo
<1>2. d \in DatagramType
  BY DEF SentTo
<1>a. PICK n, r : IsAppend(DatagramType, q, d, n, r)
  BY <1>2, AppendIs
<1>3. /\ n \in Nat /\ n = Len(q) /\ DOMAIN q = 1 .. n
      /\ r = Append(q, d) /\ DOMAIN r = 1 .. n + 1 /\ r[n + 1] = d
      /\ \A i \in 1 .. n : r[i] = q[i]
  BY <1>a DEF IsAppend
<1>4. inbox'[c] = r /\ \A u : Sessions(c, u)' = Sessions(c, u)
  BY <1>1, <1>3 DEF SentTo
<1>5. ASSUME NEW open, NEW u, NEW k \in 0 .. n
      PROVE  RoomAt(open, r, k, u) <=> RoomAt(open, q, k, u)
  <2>1. \A p : OpenAfter(open, r, k, u, p) <=> OpenAfter(open, q, k, u, p)
    BY <1>2, <1>3, OpenAppend
  <2> QED BY <2>1 DEF RoomAt
<1>6. ASSUME NEW i \in 1 .. n + 1, r[i].type = "CONNECT", NEW u, u = r[i].profile
      PROVE  RoomAt(ToSet(Sessions(c, u)), r, i - 1, u)
  <2>1. i - 1 \in 0 .. n
    BY <1>3
  <2>2. CASE i \in 1 .. n
    <3>1. RoomAt(ToSet(Sessions(c, u)), q, i - 1, u)
      BY <1>1, <1>3, <1>6, <2>2 DEF Room
    <3> QED BY <1>5, <2>1, <3>1
  <2>3. CASE i = n + 1
    <3>1. d.type = "CONNECT" /\ u = d.profile /\ i - 1 = n
      BY <1>3, <1>6, <2>3
    <3>2. RoomAt(ToSet(Sessions(c, u)), q, i - 1, u)
      BY <1>1, <1>3, <3>1
    <3> QED BY <1>5, <2>1, <3>2
  <2> QED BY <1>3, <2>2, <2>3
<1> QED BY <1>3, <1>4, <1>6 DEF Room

LEMMA SentOwn ==
  ASSUME NEW c, NEW d, SentTo(c, d), OwnPorts(c)
  PROVE  OwnPorts(c)'
BY DEF OwnPorts, SentTo

\* Nobody else sees anything of it.
LEMMA SendToViews ==
  ASSUME TypeInv, NEW c \in Servers, NEW d \in DatagramType, SendTo(c, d),
         UNCHANGED <<masterTable, nextClientPort>>
  PROVE  /\ \A s \in Servers \ {c} : SameView(s)
         /\ c \in alive => SentTo(c, d)
         /\ c \notin alive => SameView(c)
<1>1. inbox \in [Servers -> Seq(DatagramType)]
  BY DEF TypeInv, StaticTypes
<1>2. \A s, u : Sessions(s, u)' = Sessions(s, u)
  BY DEF Sessions, RowOf
<1>3. \A s \in Servers \ {c} : inbox'[s] = inbox[s]
  BY <1>1 DEF SendTo
<1>4. /\ c \in alive => inbox'[c] = Append(inbox[c], d)
      /\ c \notin alive => inbox'[c] = inbox[c]
  BY <1>1 DEF SendTo
<1>5. \A s \in Servers \ {c} : SameView(s)
  BY <1>2, <1>3 DEF SameView
<1>6. c \in alive => SentTo(c, d)
  BY <1>1, <1>2, <1>4 DEF SentTo
<1>7. c \notin alive => SameView(c)
  BY <1>2, <1>4 DEF SameView
<1> QED BY <1>5, <1>6, <1>7

LEMMA OwnBelow ==
  ASSUME Sess, NEW here \in upToDate, NEW u \in Profiles, NEW p \in ToSet(Sessions(here, u))
  PROVE  p < nextClientPort[here]
BY DEF Sess, OwnPorts

LEMMA TellConnectSess ==
  ASSUME TypeInv, Sound, Sess, TellConnect
  PROVE  Sess'
<1>p. /\ primary # Nobody /\ primary \in Servers /\ primary \in upToDate
  <2>1. loop.toTell # <<>>
    BY DEF TellConnect
  <2> QED BY <2>1, SomebodyServes
<1>i. PICK here \in Servers : here = primary
  BY <1>p
<1>h. PICK u, port : here = primary /\ u = loop.profile /\ port = nextClientPort[here]
  BY <1>i
<1>d. PICK d : d = [type |-> "CONNECT", profile |-> u, port |-> port]
  OBVIOUS
<1>c. PICK c : c = Head(loop.toTell)
  OBVIOUS
<1>1. /\ loop.toTell # <<>> /\ SendTo(c, d)
      /\ loop' = [loop EXCEPT !.toTell = Tail(@)]
      /\ UNCHANGED <<primary, isPrimary, backupServers, masterTable, nextClientPort, thread,
                     client, upToDate>>
  BY <1>h, <1>d, <1>c DEF TellConnect, roles, counts, history
<1>2. /\ loop.pc = "tell" /\ u \in DOMAIN masterTable[here] /\ port \in Ports /\ u \in Profiles
      /\ Len(Sessions(here, u)) < MaxSessions /\ loop \in LoopType /\ IsTable(masterTable[here])
  <2>1. /\ loop.pc = "tell" /\ u \in DOMAIN masterTable[here] /\ port \in Ports
        /\ Len(masterTable[here][u].sessions) < MaxSessions /\ loop \in LoopType
        /\ IsTable(masterTable[here])
    BY <1>1, <1>h DEF TypeInv, LoopTyped, Table, Tables
  <2> QED BY <2>1, SessionsHere DEF IsTable
<1>3. loop.toTell \in Seq(Servers) /\ IsInjective(loop.toTell) /\ ToSet(loop.toTell) \subseteq ToSet(backupServers)
  BY <1>2 DEF Sess, Lists, LoopType
<1>4. /\ c \in Servers /\ c \in ToSet(loop.toTell) /\ c \in ToSet(backupServers) /\ c # here
      /\ IsInjective(Tail(loop.toTell)) /\ ToSet(Tail(loop.toTell)) = ToSet(loop.toTell) \ {c}
  <2>1. primary \notin ToSet(backupServers)
    BY <1>p, Leads
  <2> QED BY <1>1, <1>3, <1>c, <1>h, <2>1, HeadOrTail, DistinctTail
<1>5. loop'.pc = "tell" /\ loop'.profile = u /\ loop'.toTell = Tail(loop.toTell)
  BY <1>1, <1>2, <1>h DEF LoopType
<1>6. d \in DatagramType /\ d.type = "CONNECT" /\ d.profile = u /\ d.port = port /\ port \in Nat
  BY <1>2, <1>d, PortNumbers DEF DatagramType
<1>7. /\ \A s \in Servers \ {c} : SameView(s)
      /\ c \in alive => SentTo(c, d)
      /\ c \notin alive => SameView(c)
  BY <1>1, <1>4, <1>6, SendToViews
<1>8. upToDate \subseteq Servers /\ upToDate \subseteq alive
  BY DEF TypeInv, StaticTypes, Sound, Roles
<1>9. \A s, v : Sessions(s, v)' = Sessions(s, v)
  BY <1>1 DEF Sessions, RowOf
<1>10. ASSUME NEW s \in upToDate \ {here}, s # c PROVE Following(s)'
  <2>1. s \in ToSet(loop.toTell)' <=> s \in ToSet(loop.toTell)
    BY <1>4, <1>5, <1>10
  <2>2. EndOf(s)' = EndOf(s)
    BY <1>1, <1>2, <1>5, <2>1 DEF EndOf
  <2>3. \A v, p : Starting(s, v, p)' <=> Starting(s, v, p)
    BY <1>1, <1>2, <1>5, <1>h, <2>1 DEF Starting
  <2>4. \A v, p : Leaving(s, v, p)' <=> Leaving(s, v, p)
    BY <1>1 DEF Leaving
  <2>5. \A v, p : Expected(s, v, p)' <=> Expected(s, v, p)
    BY <1>1, <1>9, <2>3, <2>4 DEF Expected
  <2>6. Following(s) /\ SameView(s)
    BY <1>p, <1>h, <1>7, <1>8, <1>10, Leads
  <2> QED BY <2>2, <2>5, <2>6, FollowingSame
<1>11. ASSUME c \in upToDate
       PROVE  /\ OwnPorts(c)' /\ Room(c)' /\ Following(c)'
              /\ \A v \in Profiles, p \in Ports : Has(c, v, p) => Has(c, v, p)'
  <2>1. SentTo(c, d)
    BY <1>7, <1>8, <1>11
  <2>2. Following(c) /\ OwnPorts(c) /\ Room(c)
    BY <1>p, <1>h, <1>4, <1>11, Leads DEF Sess
  <2>3. EndOf(c) = port /\ \A v, p : ~Starting(c, v, p)
    BY <1>4, <1>h DEF EndOf, Starting
  <2>4. /\ EndOf(c)' = port + 1
        /\ \A v, p : Starting(c, v, p)' <=> v = u /\ p = port
    BY <1>1, <1>h, <1>4, <1>5 DEF EndOf, Starting
  <2>5. PICK q \in Seq(DatagramType), next \in Nat : q = inbox[c] /\ next = nextClientPort[c]
    BY <1>4 DEF TypeInv, StaticTypes
  <2>6. CountedUpTo(next, q, port)
    BY <2>2, <2>3, <2>5 DEF Following, Counted
  <2>7. \A p, v : p = port => ~\E j \in DOMAIN inbox[c] : Ends(inbox[c][j], v, p)
    <3> SUFFICES ASSUME NEW v, NEW j \in DOMAIN q, Ends(q[j], v, port) PROVE FALSE
      BY <2>5
    <3>1. q[j].port < port /\ q[j].port = port
      BY <2>6 DEF Ends, CountedUpTo
    <3> QED BY <1>6, <3>1
  <2>8. ASSUME NEW v \in Profiles, NEW p \in Ports
        PROVE  Has(c, v, p)' <=> Has(c, v, p) \/ (v = u /\ p = port)
    <3>1. Opens(d, v, p) <=> v = u /\ p = port
      BY <1>6 DEF Opens
    <3>2. ~Ends(d, v, p)
      BY <1>6 DEF Ends
    <3> QED BY <2>1, <2>7, <3>1, <3>2, SentHas
  <2>9. \A v, p : Leaving(c, v, p)' <=> Leaving(c, v, p)
    BY <1>1 DEF Leaving
  <2>10. \A v \in Profiles, p \in Ports : Expected(c, v, p)' <=> Expected(c, v, p) \/ (v = u /\ p = port)
    BY <1>1, <1>9, <2>3, <2>4, <2>9 DEF Expected
  <2>11. Counted(c, EndOf(c))'
    <3>1. CountedUpTo(next, Append(q, d), port + 1)
      BY <1>6, <2>6, CountConnect
    <3> QED BY <1>1, <2>1, <2>4, <2>5, <3>1 DEF Counted, SentTo
  <2>12. Following(c)'
    BY <2>2, <2>8, <2>10, <2>11 DEF Following
  <2>13. RoomAt(ToSet(Sessions(c, u)), inbox[c], Len(inbox[c]), u)
    <3>1. PICK o \in Seq(Ports) : o = Sessions(here, u) /\ Len(o) < MaxSessions
      BY <1>2, SessionsTyped
    <3>2. \A p \in Ports : Has(c, u, p) => p \in ToSet(o)
      BY <1>2, <1>h, <2>2, <2>3, <3>1 DEF Following, Expected
    <3> QED BY <3>1, <3>2 DEF RoomAt, Has
  <2>14. Room(c)'
    BY <1>6, <2>1, <2>2, <2>13, SentRoom
  <2> QED BY <2>1, <2>2, <2>8, <2>12, <2>14, SentOwn
<1>12. \A s \in upToDate : (OwnPorts(s) /\ Room(s))'
  BY <1>7, <1>8, <1>11, ViewKept DEF Sess
<1>13. \A s \in upToDate : \A v \in Profiles, p \in Ports : Has(s, v, p) => Has(s, v, p)'
  BY <1>7, <1>8, <1>11, ViewKept
<1>14. ThreadsOpen /\ NoThreads /\ Served /\ Reopening /\ Lists /\ Say /\ Clients /\ inbox[primary] = <<>>
       /\ primary \notin ToSet(backupServers)
  BY <1>p, Leads
<1>15. ThreadsOpen' /\ NoThreads'
  BY <1>1, <1>9, <1>14 DEF ThreadsOpen, NoThreads
<1>16. Served' /\ Reopening'
  <2>1. \A v, p : ~ToReopen(v, p) /\ ~ToReopen(v, p)'
    BY <1>2, <1>5 DEF ToReopen
  <2>2. Served'
    BY <1>1, <1>9, <1>14, <2>1 DEF Served
  <2>3. Reopening'
    BY <1>5 DEF Reopening
  <2> QED BY <2>2, <2>3
<1>17. Lists'
  BY <1>1, <1>4, <1>5, <1>14 DEF Lists
<1>18. Say'
  BY <1>1, <1>14 DEF Say
<1>19. Clients'
  <2>1. client \in [Ports -> Profiles \cup {Nobody}]
    BY DEF TypeInv, StaticTypes
  <2> QED BY <1>1, <1>13, <1>14, <2>1 DEF Clients
<1>20. inbox'[here] = <<>>
  BY <1>4, <1>7, <1>14, <1>h DEF SameView
<1>21. Led'
  BY <1>1, <1>10, <1>11, <1>14, <1>15, <1>16, <1>20, <1>h DEF Led
<1> QED BY <1>p, <1>1, <1>12, <1>17, <1>18, <1>19, <1>21 DEF Sess

-----------------------------------------------------------------------------
(* The end of a session.                                                    *)
LEMMA ExitSess ==
  ASSUME TypeInv, Sound, Sess, NEW p \in Ports, Exit(p)
  PROVE  Sess'
<1>u. PICK u : u = thread[p].profile
  OBVIOUS
<1>d. PICK d : d = [type |-> "DISCONNECT", profile |-> u, port |-> p]
  OBVIOUS
<1>1. /\ thread[p].pc = "run" /\ Tell(p, "exit", d)
      /\ client' = [client EXCEPT ![p] = Nobody]
      /\ UNCHANGED <<primary, isPrimary, upToDate, backupServers, inbox, masterTable, nextClientPort, loop>>
  BY <1>u, <1>d DEF Exit, roles, net, counts, history
<1>p. primary # Nobody /\ primary \in upToDate /\ thread[p] \in ThreadType /\ thread \in [Ports -> ThreadType]
  BY <1>1, SomebodyServes, RunningTypes DEF TypeInv, Threads
<1>2. PICK new : new = [thread[p] EXCEPT !.pc = "exit", !.datagram = d, !.toTell = backupServers]
  OBVIOUS
<1>3. new.pc = "exit" /\ new.profile = u /\ new.datagram = d /\ new.toTell = backupServers
  BY <1>u, <1>p, <1>2 DEF ThreadType
<1>4. thread'[p] = new /\ \A q \in Ports \ {p} : thread'[q] = thread[q]
  BY <1>1, <1>2, <1>p DEF Tell
<1>5. ThreadsOpen /\ NoThreads /\ Served /\ Reopening /\ Lists /\ Say /\ Clients
  BY <1>p, Leads
<1>6. upToDate \ {primary} \subseteq ToSet(backupServers)
  BY DEF Sound, Enlisted
<1>7. \A s, v : Sessions(s, v)' = Sessions(s, v)
  BY <1>1 DEF Sessions, RowOf
<1>8. \A v : Sessions(primary, v)' = Sessions(primary, v)
  BY <1>1 DEF Sessions, RowOf
<1>9. \A s \in upToDate : SameView(s)
  BY <1>1, <1>7, LooksSame
<1>10. ASSUME NEW s \in upToDate \ {primary}
       PROVE  EndOf(s)' = EndOf(s) /\ \A v \in Profiles, x \in Ports : Expected(s, v, x)' <=> Expected(s, v, x)
  <2>1. EndOf(s)' = EndOf(s)
    BY <1>1 DEF EndOf
  <2>2. \A v, x : Starting(s, v, x)' <=> Starting(s, v, x)
    BY <1>1 DEF Starting
  <2>3. s \in ToSet(backupServers)
    BY <1>6
  <2>4. \A v : \A x \in Ports : Leaving(s, v, x)' <=> Leaving(s, v, x)
    <3> SUFFICES ASSUME NEW v, NEW x \in Ports PROVE Leaving(s, v, x)' <=> Leaving(s, v, x)
      OBVIOUS
    <3>1. CASE x = p
      <4>1. ~Leaving(s, v, x)'
        BY <1>3, <1>4, <2>3, <3>1 DEF Leaving
      <4>2. ~Leaving(s, v, x)
        BY <1>1, <3>1 DEF Leaving
      <4> QED BY <4>1, <4>2
    <3>2. CASE x # p
      BY <1>4, <3>2 DEF Leaving
    <3> QED BY <3>1, <3>2
  <2> QED BY <1>8, <2>1, <2>2, <2>4 DEF Expected
<1>11. \A q \in Ports : /\ thread'[q].pc = "none" <=> thread[q].pc = "none"
                        /\ thread'[q].profile = thread[q].profile
  BY <1>u, <1>1, <1>3, <1>4
<1>12. ThreadsOpen' /\ NoThreads'
  BY <1>1, <1>5, <1>8, <1>11 DEF ThreadsOpen, NoThreads
<1>13. \A v, x : ToReopen(v, x)' <=> ToReopen(v, x)
  BY <1>1 DEF ToReopen
<1>h. PICK here \in Servers : here = primary /\ primary' = here
  BY <1>1, <1>p, Server
<1>14. \A v : Sessions(here, v)' = Sessions(here, v) /\ ToSet(Sessions(here, v)) \subseteq Ports
  BY <1>7, SessionsTyped
<1>15. Served'
  BY <1>1, <1>5, <1>11, <1>13, <1>14, <1>h DEF Served
<1>16. Reopening'
  BY <1>1, <1>5, <1>11, <1>13, <1>14, <1>h DEF Reopening
<1>17. Lists'
  BY <1>1, <1>3, <1>4, <1>5 DEF Lists
<1>18. Say'
  BY <1>d, <1>3, <1>4, <1>5 DEF Say
<1>19. \A q \in Ports : client'[q] # Nobody => client'[q] = client[q] /\ thread'[q].pc # "exit"
  <2>1. client \in [Ports -> Profiles \cup {Nobody}]
    BY DEF TypeInv, StaticTypes
  <2> QED BY <1>1, <1>4, <1>5, <2>1 DEF Clients
<1> QED BY <1>1, <1>p, <1>9, <1>10, <1>12, <1>15, <1>16, <1>17, <1>18, <1>19, LookSame

LEMMA TellNextSess ==
  ASSUME TypeInv, Sound, Sess, NEW p \in Ports, TellNext(p)
  PROVE  Sess'
<1>u. PICK u, d, c : u = thread[p].profile /\ d = thread[p].datagram /\ c = Head(thread[p].toTell)
  OBVIOUS
<1>1. /\ thread[p].toTell # <<>> /\ SendTo(c, d)
      /\ UNCHANGED <<primary, isPrimary, backupServers, masterTable, nextClientPort, loop,
                     client, upToDate>>
  BY <1>u DEF TellNext, roles, counts, history
<1>p. /\ primary # Nobody /\ primary \in Servers /\ primary \in upToDate
      /\ thread[p] \in ThreadType /\ thread \in [Ports -> ThreadType]
      /\ u \in Profiles
  BY <1>u, <1>1, SomebodyServes, RunningTypes DEF TypeInv, Threads
<1>2. ThreadsOpen /\ NoThreads /\ Served /\ Reopening /\ Lists /\ Say /\ Clients /\ inbox[primary] = <<>>
      /\ primary \notin ToSet(backupServers)
  BY <1>p, Leads
<1>h. PICK here \in Servers : here = primary /\ primary' = here /\ here \in upToDate
  BY <1>1, <1>p
<1>3. /\ thread[p].toTell \in Seq(Servers) /\ IsInjective(thread[p].toTell)
      /\ ToSet(thread[p].toTell) \subseteq ToSet(backupServers)
  BY <1>p, <1>2 DEF Lists, ThreadType
<1>4. /\ c \in Servers /\ c \in ToSet(thread[p].toTell) /\ c # here
      /\ IsInjective(Tail(thread[p].toTell)) /\ ToSet(Tail(thread[p].toTell)) = ToSet(thread[p].toTell) \ {c}
  BY <1>u, <1>1, <1>2, <1>3, <1>h, HeadOrTail, DistinctTail
<1>5. d \in DatagramType /\ thread[p].pc # "none"
  BY <1>u, <1>1 DEF TypeInv, Threads, ThreadTyped
<1>6. \/ /\ thread[p].pc = "exit" /\ d.type = "DISCONNECT" /\ d.profile = u /\ d.port = p
      \/ thread[p].pc = "tell" /\ d.type \in {"FOLLOW", "SEND"}
  <2>1. \/ thread[p].pc = "exit" /\ d = [type |-> "DISCONNECT", profile |-> u, port |-> p]
        \/ thread[p].pc = "tell" /\ d.type \in {"FOLLOW", "SEND"}
    <3>1. Say /\ thread[p].toTell # <<>>
      BY <1>1, <1>2
    <3> QED BY <1>u, <3>1 DEF Say
  <2> QED BY <2>1
<1>7. PICK new : thread' = [thread EXCEPT ![p] = new] /\
        \/ thread[p].pc = "tell" /\ new = NewThread(u)
        \/ new = [thread[p] EXCEPT !.toTell = Tail(thread[p].toTell)]
  <2>1. thread' = [thread EXCEPT ![p] =
                  IF Len(@.toTell) = 1 /\ @.pc = "tell" THEN NewThread(@.profile)
                  ELSE [thread[p] EXCEPT !.toTell = Tail(@)]]
    BY DEF TellNext
  <2> QED BY <1>u, <2>1
<1>8. /\ new.profile = u /\ IsInjective(new.toTell) /\ ToSet(new.toTell) \subseteq ToSet(thread[p].toTell) \ {c}
      /\ thread[p].pc = "exit" => /\ new.pc = "exit" /\ new.datagram = d
                                  /\ ToSet(new.toTell) = ToSet(thread[p].toTell) \ {c}
      /\ thread[p].pc = "tell" => /\ new.pc \in {"run", "tell"}
                                  /\ new.toTell # <<>> => new.pc = "tell" /\ new.datagram = d
  <2>1. CASE thread[p].pc = "tell" /\ new = NewThread(u)
    <3>1. new.profile = u /\ new.pc = "run" /\ new.toTell = <<>>
      BY <2>1 DEF NewThread, NoThread
    <3>2. IsInjective(<<>>) /\ ToSet(<<>>) = {}
      <4>1. DOMAIN <<>> = {}
        OBVIOUS
      <4> QED BY <4>1 DEF ToSet, IsInjective
    <3> QED BY <2>1, <3>1, <3>2
  <2>2. CASE new = [thread[p] EXCEPT !.toTell = Tail(thread[p].toTell)]
    <3>1. new.profile = u /\ new.pc = thread[p].pc /\ new.datagram = d /\ new.toTell = Tail(thread[p].toTell)
      BY <1>u, <1>p, <2>2 DEF ThreadType
    <3> QED BY <1>4, <3>1
  <2> QED BY <1>7, <2>1, <2>2
<1>9. thread'[p] = new /\ \A q \in Ports \ {p} : thread'[q] = thread[q]
  BY <1>7, <1>p
<1>10. /\ \A s \in Servers \ {c} : SameView(s)
       /\ c \in alive => SentTo(c, d)
       /\ c \notin alive => SameView(c)
  BY <1>1, <1>4, <1>5, SendToViews
<1>11. upToDate \subseteq Servers /\ upToDate \subseteq alive
  BY DEF TypeInv, StaticTypes, Sound, Roles
<1>12. \A s, v : Sessions(s, v)' = Sessions(s, v)
  BY <1>1 DEF Sessions, RowOf
<1>13. \A s : EndOf(s)' = EndOf(s) /\ \A v, x : Starting(s, v, x)' <=> Starting(s, v, x)
  BY <1>1 DEF EndOf, Starting
<1>14. \A s, v : \A x \in Ports \ {p} : Leaving(s, v, x)' <=> Leaving(s, v, x)
  BY <1>9 DEF Leaving
<1>15. ASSUME NEW s \in upToDate \ {here}, s # c PROVE Following(s)'
  <2>1. \A v : Leaving(s, v, p)' <=> Leaving(s, v, p)
    <3>1. CASE thread[p].pc = "exit"
      BY <1>u, <1>8, <1>9, <1>15, <3>1 DEF Leaving
    <3>2. CASE thread[p].pc = "tell"
      BY <1>8, <1>9, <3>2 DEF Leaving
    <3> QED BY <1>6, <3>1, <3>2
  <2>2. \A v \in Profiles, x \in Ports : Expected(s, v, x)' <=> Expected(s, v, x)
    BY <1>1, <1>12, <1>13, <1>14, <2>1 DEF Expected
  <2>3. Following(s) /\ SameView(s)
    BY <1>p, <1>h, <1>10, <1>11, <1>15, Leads
  <2> QED BY <1>13, <2>2, <2>3, FollowingSame
<1>16. ASSUME c \in upToDate
       PROVE  /\ OwnPorts(c)' /\ Room(c)' /\ Following(c)'
              /\ \A v \in Profiles, x \in Ports : Has(c, v, x) /\ ~Ends(d, v, x) => Has(c, v, x)'
  <2>1. SentTo(c, d)
    BY <1>10, <1>11, <1>16
  <2>2. Following(c) /\ OwnPorts(c) /\ Room(c)
    BY <1>p, <1>h, <1>4, <1>16, Leads DEF Sess
  <2>3. PICK q \in Seq(DatagramType), next \in Nat, end \in {EndOf(c)} :
          q = inbox[c] /\ next = nextClientPort[c] /\ end = EndOf(c)
    BY <1>4 DEF TypeInv, StaticTypes
  <2>4. end \in Nat /\ nextClientPort[here] <= end /\ nextClientPort[here] \in Nat
    <3>1. nextClientPort[here] \in Nat
      BY DEF TypeInv, StaticTypes
    <3> QED BY <1>h, <2>3, <3>1 DEF EndOf
  <2>5. CountedUpTo(next, q, end)
    BY <2>2, <2>3 DEF Following, Counted
  <2>6. d.type # "CONNECT" /\ (d.type = "DISCONNECT" => d.port < end)
    <3>1. CASE thread[p].pc = "exit"
      <4>1. p \in ToSet(Sessions(here, u))
        BY <1>2, <1>h, <1>u, <3>1 DEF ThreadsOpen
      <4>2. p < nextClientPort[here] /\ p \in Nat
        BY <1>p, <4>1, <1>h, OwnBelow, PortNumbers
      <4>3. p < end
        BY <2>4, <4>2
      <4> QED BY <1>6, <3>1, <4>3
    <3>2. CASE thread[p].pc = "tell"
      BY <1>6, <3>2
    <3> QED BY <1>6, <3>1, <3>2
  <2>7. Counted(c, EndOf(c))'
    <3>1. CountedUpTo(next, Append(q, d), end)
      BY <1>5, <2>4, <2>5, <2>6, CountOther
    <3> QED BY <1>1, <1>13, <2>1, <2>3, <3>1 DEF Counted, SentTo
  <2>8. \A v, x : Has(c, v, x)' <=> Has(c, v, x) /\ ~Ends(d, v, x)
    <3> TAKE v, x
    <3>1. ~Opens(d, v, x)
      BY <2>6 DEF Opens
    <3> QED BY <2>1, <3>1, SentHas
  <2>9. \A v \in Profiles, x \in Ports : Expected(c, v, x)' <=> Expected(c, v, x) /\ ~Ends(d, v, x)
    <3> SUFFICES ASSUME NEW v \in Profiles, NEW x \in Ports
                 PROVE  Expected(c, v, x)' <=> Expected(c, v, x) /\ ~Ends(d, v, x)
      OBVIOUS
    <3>1. CASE x # p
      <4>1. ~Ends(d, v, x)
        BY <1>6, <3>1 DEF Ends
      <4> QED BY <1>1, <1>12, <1>13, <1>14, <3>1, <4>1 DEF Expected
    <3>2. CASE x = p /\ thread[p].pc = "tell"
      <4>1. ~Ends(d, v, x)
        BY <1>6, <3>2 DEF Ends
      <4>2. ~Leaving(c, v, x) /\ ~Leaving(c, v, x)'
        BY <1>8, <1>9, <3>2 DEF Leaving
      <4> QED BY <1>1, <1>12, <1>13, <4>1, <4>2 DEF Expected
    <3>3. CASE x = p /\ thread[p].pc = "exit"
      <4>1. Ends(d, v, x) <=> v = u
        BY <1>6, <3>3 DEF Ends
      <4>2. ~Leaving(c, v, x)
        BY <1>4, <3>3 DEF Leaving
      <4>3. Leaving(c, v, x)' <=> v = u
        BY <1>8, <1>9, <3>3 DEF Leaving
      <4>4. p \in ToSet(Sessions(here, u))
        BY <1>2, <1>h, <1>u, <3>3 DEF ThreadsOpen
      <4>5. ~Starting(c, v, x)
        <5>1. p < nextClientPort[here] /\ p \in Nat
          BY <1>p, <4>4, <1>h, OwnBelow, PortNumbers
        <5> QED BY <1>h, <3>3, <5>1 DEF Starting
      <4> QED BY <1>1, <1>12, <1>13, <4>1, <4>2, <4>3, <4>5 DEF Expected
    <3> QED BY <1>6, <3>1, <3>2, <3>3
  <2>10. Following(c)'
    BY <2>2, <2>7, <2>8, <2>9 DEF Following
  <2>11. Room(c)'
    BY <2>1, <2>2, <2>6, SentRoom
  <2> QED BY <2>1, <2>2, <2>8, <2>10, <2>11, SentOwn
<1>17. \A s \in upToDate : (OwnPorts(s) /\ Room(s))'
  BY <1>10, <1>11, <1>16, ViewKept DEF Sess
<1>18. \A s \in upToDate : \A v \in Profiles, x \in Ports : Has(s, v, x) /\ ~Ends(d, v, x) => Has(s, v, x)'
  BY <1>10, <1>11, <1>16, ViewKept
<1>19. \A q \in Ports : /\ thread'[q].pc = "none" <=> thread[q].pc = "none"
                        /\ thread'[q].profile = thread[q].profile
                        /\ thread'[q].pc = "exit" <=> thread[q].pc = "exit"
  BY <1>u, <1>6, <1>8, <1>9
<1>20. ThreadsOpen' /\ NoThreads'
  BY <1>1, <1>2, <1>12, <1>19 DEF ThreadsOpen, NoThreads
<1>21. \A v, x : ToReopen(v, x)' <=> ToReopen(v, x)
  BY <1>1 DEF ToReopen
<1>22. \A v : Sessions(here, v)' = Sessions(here, v) /\ ToSet(Sessions(here, v)) \subseteq Ports
  BY <1>12, SessionsTyped
<1>23. Served' /\ Reopening'
  <2>1. Served'
    BY <1>1, <1>2, <1>19, <1>21, <1>22, <1>h DEF Served
  <2>2. Reopening'
    BY <1>1, <1>2, <1>19, <1>21, <1>22, <1>h DEF Reopening
  <2> QED BY <2>1, <2>2
<1>24. Lists'
  BY <1>1, <1>2, <1>3, <1>8, <1>9 DEF Lists
<1>25. Say'
  <2>1. thread[p].pc = "exit" => d = [type |-> "DISCONNECT", profile |-> u, port |-> p]
    BY <1>u, <1>1, <1>2 DEF Say
  <2> QED BY <1>2, <1>6, <1>8, <1>9, <2>1 DEF Say
<1>26. Clients'
  <2>1. client \in [Ports -> Profiles \cup {Nobody}]
    BY DEF TypeInv, StaticTypes
  <2>2. ASSUME NEW q \in Ports, client[q] # Nobody PROVE ~Ends(d, client[q], q)
    <3>1. thread[q].pc # "exit"
      BY <1>2, <2>2 DEF Clients
    <3> QED BY <1>6, <3>1 DEF Ends
  <2> QED BY <1>1, <1>2, <1>18, <1>19, <2>1, <2>2 DEF Clients
<1>27. inbox'[here] = <<>>
  BY <1>2, <1>4, <1>10, <1>h DEF SameView
<1>28. Led'
  BY <1>1, <1>2, <1>15, <1>16, <1>20, <1>23, <1>27, <1>h DEF Led
<1> QED BY <1>p, <1>1, <1>17, <1>24, <1>25, <1>26, <1>28 DEF Sess

\* A row of the primary is set.
LEMMA PrimaryRow ==
  ASSUME TypeInv, NEW here \in Servers, NEW u, NEW row, SetRow(here, u, row), UNCHANGED inbox,
         \A s \in Servers \ {here} : nextClientPort'[s] = nextClientPort[s]
  PROVE  /\ Sessions(here, u)' = row.sessions
         /\ \A v : v # u => Sessions(here, v)' = Sessions(here, v)
         /\ \A s \in Servers \ {here} : SameView(s)
<1>1. DOMAIN masterTable = Servers
  BY DEF TypeInv, Tables
<1>2. /\ \A v : Sessions(here, v)' = IF v = u THEN row.sessions ELSE Sessions(here, v)
      /\ \A t \in Servers \ {here} : \A v : Sessions(t, v)' = Sessions(t, v)
  BY <1>1, SetRowSessions
<1> QED BY <1>2 DEF SameView

\* Of a server with nothing to read.
LEMMA NothingToRead ==
  ASSUME NEW s
  PROVE  /\ inbox[s] = <<>> => Room(s) /\ \A u, p : Has(s, u, p) <=> p \in ToSet(Sessions(s, u))
         /\ inbox'[s] = <<>> => Room(s)' /\ \A u, p : Has(s, u, p)' <=> p \in ToSet(Sessions(s, u)')
<1>1. DOMAIN <<>> = {} /\ Len(<<>>) = 0 /\ 1 .. 0 = {}
  OBVIOUS
<1>2. \A open, u, p : OpenAfter(open, <<>>, 0, u, p) <=> p \in open
  BY <1>1 DEF OpenAfter
<1>3. inbox[s] = <<>> => Room(s) /\ \A u, p : Has(s, u, p) <=> p \in ToSet(Sessions(s, u))
  BY <1>1, <1>2 DEF Has, Room
<1>4. inbox'[s] = <<>> => Room(s)' /\ \A u, p : Has(s, u, p)' <=> p \in ToSet(Sessions(s, u)')
  BY <1>1, <1>2 DEF Has, Room
<1> QED BY <1>3, <1>4

LEMMA CloseSessionSess ==
  ASSUME TypeInv, Sound, Sess, NEW p \in Ports, CloseSession(p)
  PROVE  Sess'
<1>u. PICK u : u = thread[p].profile
  OBVIOUS
<1>1. /\ thread[p].pc = "exit" /\ thread[p].toTell = <<>>
      /\ SetRow(primary, u, [Table[u] EXCEPT !.sessions = RemoveFirst(@, p)])
      /\ thread' = [thread EXCEPT ![p] = NoThread]
      /\ UNCHANGED <<primary, isPrimary, backupServers, inbox, nextClientPort, loop, client, upToDate>>
  BY <1>u DEF CloseSession, roles, net, counts, history
<1>2. /\ primary # Nobody /\ primary \in upToDate /\ u \in Profiles /\ u \in DOMAIN Table
      /\ Table[u] \in GoodRows /\ thread \in [Ports -> ThreadType]
  BY <1>u, <1>1, SomebodyServes, RunningTypes DEF TypeInv, Threads
<1>h. PICK here \in Servers : here = primary /\ primary' = here /\ here \in upToDate
  BY <1>1, <1>2, Server
<1>3. PICK row : row = [Table[u] EXCEPT !.sessions = RemoveFirst(@, p)]
  OBVIOUS
<1>4. PICK old \in Seq(Ports) : old = Sessions(here, u) /\ row.sessions = RemoveFirst(old, p)
  <2>1. Sessions(here, u) = Table[u].sessions
    BY <1>2, <1>h, SessionsHere DEF Table
  <2> QED BY <1>2, <1>3, <2>1 DEF GoodRows, RowType
<1>5. /\ Sessions(here, u)' = RemoveFirst(old, p)
      /\ \A v : v # u => Sessions(here, v)' = Sessions(here, v)
      /\ \A s \in Servers \ {here} : SameView(s)
  <2>1. SetRow(here, u, row)
    BY <1>1, <1>3, <1>h
  <2> QED BY <1>1, <1>4, <2>1, PrimaryRow
<1>6. OwnPorts(here) /\ IsInjective(old)
  BY <1>2, <1>4, <1>h DEF Sess, OwnPorts
<1>7. /\ IsInjective(Sessions(here, u)') /\ ToSet(Sessions(here, u)') = ToSet(Sessions(here, u)) \ {p}
  BY <1>4, <1>5, <1>6, DistinctRemove
<1>8. ThreadsOpen /\ NoThreads /\ Served /\ Reopening /\ Lists /\ Say /\ Clients /\ inbox[here] = <<>>
      /\ here \notin ToSet(backupServers)
  BY <1>2, <1>h, Leads
<1>9. p \in ToSet(Sessions(here, u)) /\ \A v \in Profiles \ {u} : p \notin ToSet(Sessions(here, v))
  BY <1>1, <1>2, <1>6, <1>8, <1>h, <1>u DEF ThreadsOpen, OwnPorts
<1>10. \A v \in Profiles : ToSet(Sessions(here, v)') = ToSet(Sessions(here, v)) \ {p}
  BY <1>5, <1>7, <1>9
<1>11. thread'[p] = NoThread /\ \A q \in Ports \ {p} : thread'[q] = thread[q]
  BY <1>1, <1>2
<1>12. NoThread.pc = "none" /\ NoThread.toTell = <<>>
  BY DEF NoThread
<1>13. OwnPorts(here)'
  <2>1. \A v \in Profiles : IsInjective(Sessions(here, v)')
    BY <1>5, <1>6, <1>7 DEF OwnPorts
  <2>2. \A v \in Profiles : ToSet(Sessions(here, v)') \subseteq ToSet(Sessions(here, v))
    BY <1>10
  <2>3. nextClientPort'[here] = nextClientPort[here]
    BY <1>1
  <2> QED BY <1>6, <2>1, <2>2, <2>3 DEF OwnPorts
<1>14. inbox'[here] = <<>>
  BY <1>1, <1>8
<1>15. Room(here)' /\ \A v, x : Has(here, v, x)' <=> x \in ToSet(Sessions(here, v)')
  BY <1>14, NothingToRead
<1>16. \A v, x : Has(here, v, x) <=> x \in ToSet(Sessions(here, v))
  BY <1>8, NothingToRead
<1>17. upToDate \subseteq Servers
  BY DEF TypeInv, StaticTypes
<1>18. \A s \in upToDate : (OwnPorts(s) /\ Room(s))'
  BY <1>5, <1>13, <1>15, <1>17, ViewKept DEF Sess
<1>19. ASSUME NEW s \in upToDate \ {here} PROVE Following(s)'
  <2>1. EndOf(s)' = EndOf(s) /\ \A v, x : Starting(s, v, x)' <=> Starting(s, v, x)
    BY <1>1 DEF EndOf, Starting
  <2>2. ASSUME NEW v \in Profiles, NEW x \in Ports
        PROVE  Expected(s, v, x)' <=> Expected(s, v, x)
    <3>1. CASE x # p
      <4>1. Leaving(s, v, x)' <=> Leaving(s, v, x)
        BY <1>11, <3>1 DEF Leaving
      <4> QED BY <1>10, <1>h, <2>1, <3>1, <4>1 DEF Expected
    <3>2. CASE x = p
      <4>1. v = u => Leaving(s, v, x)
        BY <1>1, <1>u, <3>2 DEF Leaving, ToSet
      <4>2. x \in ToSet(Sessions(here, v)) => v = u
        BY <1>9, <3>2
      <4> QED BY <1>10, <1>h, <2>1, <3>2, <4>1, <4>2 DEF Expected
    <3> QED BY <3>1, <3>2
  <2>3. Following(s) /\ SameView(s)
    BY <1>2, <1>h, <1>5, <1>17, Leads
  <2> QED BY <2>1, <2>2, <2>3, FollowingSame
<1>20. ThreadsOpen'
  <2>0. ASSUME NEW q \in Ports, thread'[q].pc # "none", NEW w, w = thread'[q].profile
        PROVE  q \in ToSet(Sessions(here, w)')
    <3>1. q # p /\ thread'[q] = thread[q]
      BY <1>11, <1>12, <2>0
    <3>2. q \in ToSet(Sessions(here, w))
      BY <1>8, <1>h, <2>0, <3>1 DEF ThreadsOpen
    <3>3. w = u \/ Sessions(here, w)' = Sessions(here, w)
      BY <1>5
    <3> QED BY <1>7, <3>1, <3>2, <3>3
  <2> QED BY <1>h, <2>0 DEF ThreadsOpen
<1>21. NoThreads'
  BY <1>1, <1>8, <1>11, <1>12 DEF NoThreads
<1>22. \A v, x : ToReopen(v, x)' <=> ToReopen(v, x)
  BY <1>1 DEF ToReopen
<1>23. \A v \in Profiles : ToSet(Sessions(here, v)) \subseteq Ports
  BY SessionsTyped
<1>24. Served'
  BY <1>1, <1>8, <1>10, <1>11, <1>22, <1>23, <1>h DEF Served
<1>25. Reopening'
  <2> SUFFICES ASSUME loop.pc = "reopen", NEW w, w = loop.profile
               PROVE  /\ \A v \in Profiles : \A x \in ToSet(Sessions(here, v)') : ToReopen(v, x) => thread'[x].pc = "none"
                      /\ ToSet(loop.toOpen) \subseteq ToSet(Sessions(here, w)')
    BY <1>1, <1>8, <1>22, <1>h DEF Reopening
  <2>1. \A v \in Profiles : \A x \in ToSet(Sessions(here, v)) : ToReopen(v, x) => thread[x].pc = "none"
    BY <1>8, <1>h DEF Reopening
  <2>2. \A v \in Profiles : \A x \in ToSet(Sessions(here, v)') : ToReopen(v, x) => thread'[x].pc = "none"
    BY <1>10, <1>11, <1>23, <2>1
  <2>3. ToSet(loop.toOpen) \subseteq ToSet(Sessions(here, w))
    BY <1>8, <1>h DEF Reopening
  <2>4. w = u => p \notin ToSet(loop.toOpen)
    <3>1. w = u /\ p \in ToSet(loop.toOpen) => ToReopen(u, p)
      BY DEF ToReopen
    <3> QED BY <1>1, <1>2, <1>9, <2>1, <3>1
  <2>5. w # u => Sessions(here, w)' = Sessions(here, w)
    BY <1>5
  <2> QED BY <1>7, <2>2, <2>3, <2>4, <2>5
<1>26. Lists'
  <2>1. IsInjective(<<>>) /\ ToSet(<<>>) = {}
    <3>1. DOMAIN <<>> = {}
      OBVIOUS
    <3> QED BY <3>1 DEF ToSet, IsInjective
  <2> QED BY <1>1, <1>8, <1>11, <1>12, <2>1 DEF Lists
<1>27. Say'
  BY <1>8, <1>11, <1>12 DEF Say
<1>28. Clients'
  <2>1. client \in [Ports -> Profiles \cup {Nobody}]
    BY DEF TypeInv, StaticTypes
  <2>2. ASSUME NEW q \in Ports, client[q] # Nobody, NEW w, w = client[q]
        PROVE  thread'[q].pc # "exit" /\ \A s \in upToDate : Has(s, w, q)'
    <3>2. q # p /\ thread'[q] = thread[q] /\ thread[q].pc # "exit" /\ \A s \in upToDate : Has(s, w, q)
      BY <1>1, <1>8, <1>11, <2>2 DEF Clients
    <3>3. w \in Profiles
      BY <2>1, <2>2
    <3>4. Has(here, w, q)'
      BY <1>10, <1>15, <1>16, <1>h, <3>2, <3>3
    <3>5. \A s \in upToDate \ {here} : Has(s, w, q)'
      BY <1>5, <1>17, <3>2, ViewKept
    <3> QED BY <3>2, <3>4, <3>5
  <2> QED BY <1>1, <2>2 DEF Clients
<1>29. Led'
  BY <1>1, <1>8, <1>14, <1>19, <1>20, <1>21, <1>24, <1>25, <1>h DEF Led
<1> QED BY <1>1, <1>2, <1>18, <1>26, <1>27, <1>28, <1>29 DEF Sess

-----------------------------------------------------------------------------
(* A session is opened, for the first time or again.                        *)
LEMMA NewThreadIs ==
  /\ \A u : NewThread(u).pc = "run" /\ NewThread(u).profile = u /\ NewThread(u).toTell = <<>>
  /\ IsInjective(<<>>) /\ ToSet(<<>>) = {}
<1>1. DOMAIN <<>> = {}
  OBVIOUS
<1> QED BY <1>1 DEF NewThread, NoThread, IsInjective, ToSet

LEMMA StartSessionSess ==
  ASSUME TypeInv, Sound, Sess, StartSession, upToDate' # {}
  PROVE  Sess'
<1>p. primary # Nobody /\ primary \in Servers /\ primary \in upToDate
  <2>1. loop.pc = "tell"
    BY DEF StartSession
  <2> QED BY <2>1, SomebodyServes
<1>i. PICK here \in Servers : here = primary
  BY <1>p
<1>h. PICK u, p : here = primary /\ u = loop.profile /\ p = nextClientPort[here]
  BY <1>i
<1>1. /\ loop.pc = "tell" /\ loop.toTell = <<>> /\ ~Taken(p)
      /\ SetRow(here, u, [Table[u] EXCEPT !.sessions = Append(@, p)])
      /\ thread' = [thread EXCEPT ![p] = NewThread(u)]
      /\ client' = [client EXCEPT ![p] = u]
      /\ nextClientPort' = [nextClientPort EXCEPT ![here] = @ + 1]
      /\ loop' = Rest /\ isPrimary
      /\ UNCHANGED <<primary, isPrimary, backupServers, inbox, upToDate>>
  BY <1>h DEF StartSession, roles, net, counts
<1>2. /\ here \in upToDate /\ primary' = here /\ p \in Ports /\ p \in Nat
      /\ u \in DOMAIN masterTable[here] /\ u \in Profiles /\ masterTable[here][u] \in GoodRows
      /\ thread \in [Ports -> ThreadType] /\ client \in [Ports -> Profiles \cup {Nobody}]
      /\ nextClientPort \in [Servers -> Nat] /\ upToDate \subseteq Servers
  <2>1. u \in DOMAIN masterTable[here] /\ p \in Ports
    BY <1>1, <1>h DEF TypeInv, LoopTyped, Table
  <2>2. IsTable(masterTable[here])
    BY DEF TypeInv, Tables
  <2> QED BY <1>p, <1>h, <1>1, <2>1, <2>2, PortNumbers DEF TypeInv, Threads, StaticTypes, IsTable
<1>3. PICK row : row = [Table[u] EXCEPT !.sessions = Append(@, p)]
  OBVIOUS
<1>4. PICK old \in Seq(Ports) : old = Sessions(here, u) /\ row.sessions = Append(old, p)
  <2>1. Sessions(here, u) = masterTable[here][u].sessions /\ Table[u] = masterTable[here][u]
    BY <1>2, <1>h, SessionsHere DEF Table
  <2> QED BY <1>2, <1>3, <2>1 DEF GoodRows, RowType
<1>5. /\ Sessions(here, u)' = Append(old, p)
      /\ \A v : v # u => Sessions(here, v)' = Sessions(here, v)
      /\ \A s \in Servers \ {here} : SameView(s)
  <2>1. SetRow(here, u, row)
    BY <1>1, <1>3
  <2>2. \A s \in Servers \ {here} : nextClientPort'[s] = nextClientPort[s]
    BY <1>1, <1>2
  <2> QED BY <1>1, <1>4, <2>1, <2>2, PrimaryRow
<1>6. OwnPorts(here)
  BY <1>2 DEF Sess
<1>7. ToSet(Sessions(here, u)') = ToSet(Sessions(here, u)) \cup {p}
  BY <1>2, <1>4, <1>5, DistinctAppend
<1>8. ThreadsOpen /\ NoThreads /\ Served /\ Reopening /\ Lists /\ Say /\ Clients /\ inbox[here] = <<>>
      /\ here \notin ToSet(backupServers)
  BY <1>p, <1>h, Leads
<1>9. \A v \in Profiles : p \notin ToSet(Sessions(here, v))
  BY <1>2, <1>6, <1>h DEF OwnPorts
<1>10. nextClientPort'[here] = p + 1
  BY <1>1, <1>2, <1>h
<1>11. /\ thread'[p].pc = "run" /\ thread'[p].profile = u /\ thread'[p].toTell = <<>>
       /\ \A q \in Ports \ {p} : thread'[q] = thread[q]
  BY <1>1, <1>2, NewThreadIs
<1>12. loop'.pc = "receive" /\ loop'.toTell = <<>>
  BY <1>1 DEF Rest
<1>13. OwnPorts(here)'
  BY <1>2, <1>4, <1>5, <1>6, <1>10, <1>h, OwnConnect
<1>14. inbox'[here] = <<>>
  BY <1>1, <1>8
<1>15. Room(here)' /\ \A v, x : Has(here, v, x)' <=> x \in ToSet(Sessions(here, v)')
  BY <1>14, NothingToRead
<1>16. \A v, x : Has(here, v, x) <=> x \in ToSet(Sessions(here, v))
  BY <1>8, NothingToRead
<1>18. \A s \in upToDate : (OwnPorts(s) /\ Room(s))'
  BY <1>2, <1>5, <1>13, <1>15, ViewKept DEF Sess
<1>19. ASSUME NEW s \in upToDate \ {here}
       PROVE  Following(s)' /\ Has(s, u, p) /\ \A v, x : Has(s, v, x)' <=> Has(s, v, x)
  <2>1. s \notin ToSet(loop.toTell)
    BY <1>1, NewThreadIs
  <2>2. EndOf(s)' = EndOf(s)
    BY <1>1, <1>2, <1>10, <1>12, <1>h, <2>1 DEF EndOf
  <2>3. \A v, x : ~Starting(s, v, x)' /\ (Starting(s, v, x) <=> v = u /\ x = p)
    BY <1>1, <1>12, <1>h, <2>1 DEF Starting
  <2>4. ASSUME NEW v \in Profiles, NEW x \in Ports
        PROVE  Expected(s, v, x)' <=> Expected(s, v, x)
    <3>1. CASE x # p
      <4>1. Leaving(s, v, x)' <=> Leaving(s, v, x)
        BY <1>11, <3>1 DEF Leaving
      <4>2. x \in ToSet(Sessions(here, v)') <=> x \in ToSet(Sessions(here, v))
        BY <1>5, <1>7, <3>1
      <4> QED BY <1>2, <1>h, <2>3, <3>1, <4>1, <4>2 DEF Expected
    <3>2. CASE x = p
      <4>1. ~Leaving(s, v, x)'
        BY <1>11, <3>2 DEF Leaving
      <4>2. x \in ToSet(Sessions(here, v)') <=> v = u
        BY <1>5, <1>7, <1>9, <3>2
      <4>3. x \notin ToSet(Sessions(here, v))
        BY <1>9, <3>2
      <4> QED BY <1>2, <1>h, <2>3, <3>2, <4>1, <4>2, <4>3 DEF Expected
    <3> QED BY <3>1, <3>2
  <2>5. Following(s) /\ SameView(s)
    BY <1>p, <1>h, <1>5, <1>2, Leads
  <2>6. Following(s)'
    BY <2>2, <2>4, <2>5, FollowingSame
  <2>7. Has(s, u, p)
    BY <1>2, <2>3, <2>5 DEF Following, Expected
  <2> QED BY <2>5, <2>6, <2>7, ViewKept
<1>20. ThreadsOpen'
  <2>0. ASSUME NEW q \in Ports, thread'[q].pc # "none", NEW w, w = thread'[q].profile
        PROVE  q \in ToSet(Sessions(here, w)')
    <3>1. CASE q = p
      BY <1>7, <1>11, <2>0, <3>1
    <3>2. CASE q # p
      <4>1. q \in ToSet(Sessions(here, w))
        BY <1>8, <1>11, <1>h, <2>0, <3>2 DEF ThreadsOpen
      <4> QED BY <1>5, <1>7, <4>1
    <3> QED BY <3>1, <3>2
  <2> QED BY <1>2, <2>0 DEF ThreadsOpen
<1>21. NoThreads'
  BY <1>1 DEF NoThreads
<1>22. \A v, x : ~ToReopen(v, x)
  BY <1>1 DEF ToReopen
<1>23. \A v \in Profiles : ToSet(Sessions(here, v)) \subseteq Ports
  BY SessionsTyped
<1>24. Served'
  <2>1. ASSUME NEW v \in Profiles, NEW x \in ToSet(Sessions(here, v)')
        PROVE  thread'[x].pc # "none" /\ thread'[x].profile = v
    <3>1. CASE x = p
      <4>1. v = u
        <5>1. v # u => Sessions(here, v)' = Sessions(here, v)
          BY <1>5
        <5>2. p \notin ToSet(Sessions(here, v))
          BY <1>9
        <5> QED BY <2>1, <3>1, <5>1, <5>2
      <4> QED BY <1>11, <3>1, <4>1
    <3>2. CASE x # p
      <4>1. x \in ToSet(Sessions(here, v)) /\ x \in Ports
        <5>1. v # u => Sessions(here, v)' = Sessions(here, v)
          BY <1>5
        <5>2. x \in ToSet(Sessions(here, v))
          BY <1>7, <3>2, <5>1
        <5> QED BY <1>23, <5>2
      <4>2. thread[x].pc # "none" /\ thread[x].profile = v
        BY <1>1, <1>8, <1>22, <1>h, <4>1 DEF Served
      <4> QED BY <1>11, <3>2, <4>1, <4>2
    <3> QED BY <3>1, <3>2
  <2> QED BY <1>2, <2>1 DEF Served
<1>25. Reopening'
  BY <1>12 DEF Reopening
<1>26. Lists'
  BY <1>1, <1>8, <1>11, <1>12, NewThreadIs DEF Lists
<1>27. Say'
  BY <1>8, <1>11 DEF Say
<1>28. Clients'
  <2>1. /\ client'[p] = u /\ \A q \in Ports \ {p} : client'[q] = client[q]
    BY <1>1, <1>2
  <2>2. ASSUME NEW q \in Ports, client'[q] # Nobody, NEW w, w = client'[q]
        PROVE  thread'[q].pc # "exit" /\ \A s \in upToDate : Has(s, w, q)'
    <3>1. CASE q = p
      <4>1. Has(here, u, p)'
        BY <1>7, <1>15
      <4> QED BY <1>11, <1>19, <2>1, <2>2, <3>1, <4>1
    <3>2. CASE q # p
      <4>2. thread'[q] = thread[q] /\ thread[q].pc # "exit" /\ \A s \in upToDate : Has(s, w, q)
        BY <1>8, <1>11, <2>1, <2>2, <3>2 DEF Clients
      <4>3. Has(here, w, q)'
        BY <1>2, <1>5, <1>7, <1>15, <1>16, <4>2
      <4> QED BY <1>19, <4>2, <4>3
    <3> QED BY <3>1, <3>2
  <2> QED BY <1>1, <2>2 DEF Clients
<1>29. Led'
  BY <1>1, <1>2, <1>8, <1>14, <1>19, <1>20, <1>21, <1>24, <1>25 DEF Led
<1> QED BY <1>1, <1>2, <1>p, <1>18, <1>26, <1>27, <1>28, <1>29 DEF Sess

LEMMA ReopenSessionSess ==
  ASSUME TypeInv, Sound, Sess, ReopenSession
  PROVE  Sess'
<1>p. /\ primary # Nobody /\ primary \in Servers /\ primary \in upToDate
      /\ loop.pc = "reopen" /\ loop.toOpen # <<>>
  <2>1. loop.pc = "reopen" /\ loop.toOpen # <<>>
    BY DEF ReopenSession
  <2> QED BY <2>1, SomebodyServes
<1>i. PICK here \in Servers : here = primary
  BY <1>p
<1>h. PICK u, p : here = primary /\ u = loop.profile /\ p = Head(loop.toOpen)
  BY <1>i
<1>1. /\ ~Taken(p)
      /\ SetRow(here, u, [Table[u] EXCEPT !.sessions = Append(RemoveFirst(@, p), p)])
      /\ thread' = [thread EXCEPT ![p] = NewThread(u)]
      /\ loop' = [loop EXCEPT !.toOpen = Tail(@)]
      /\ UNCHANGED <<primary, isPrimary, backupServers, inbox, nextClientPort, client, upToDate>>
  BY <1>h DEF ReopenSession, roles, net, counts, history
<1>2. /\ here \in upToDate /\ primary' = here
      /\ u \in DOMAIN masterTable[here] /\ u \in Profiles /\ masterTable[here][u] \in GoodRows
      /\ thread \in [Ports -> ThreadType] /\ client \in [Ports -> Profiles \cup {Nobody}]
      /\ upToDate \subseteq Servers /\ loop \in LoopType
  <2>1. u \in DOMAIN masterTable[here] /\ loop \in LoopType
    BY <1>p, <1>h DEF TypeInv, LoopTyped, Table
  <2>2. IsTable(masterTable[here])
    BY DEF TypeInv, Tables
  <2> QED BY <1>p, <1>h, <1>1, <2>1, <2>2 DEF TypeInv, Threads, StaticTypes, IsTable
<1>8. ThreadsOpen /\ NoThreads /\ Served /\ Reopening /\ Lists /\ Say /\ Clients /\ inbox[here] = <<>>
      /\ here \notin ToSet(backupServers)
  BY <1>p, <1>h, Leads
<1>3. /\ loop'.pc = "reopen" /\ loop'.profile = u /\ loop'.users = loop.users
      /\ loop'.toOpen = Tail(loop.toOpen) /\ loop'.toTell = loop.toTell
  BY <1>p, <1>h, <1>1, <1>2 DEF LoopType
<1>4. /\ isPrimary /\ u \notin loop.users /\ p \in ToSet(loop.toOpen)
      /\ ToSet(loop.toOpen) \subseteq ToSet(Sessions(here, u))
      /\ IsInjective(Tail(loop.toOpen)) /\ ToSet(Tail(loop.toOpen)) = ToSet(loop.toOpen) \ {p}
      /\ \A v \in Profiles : \A x \in ToSet(Sessions(here, v)) : ToReopen(v, x) => thread[x].pc = "none"
  <2>1. /\ isPrimary /\ u \notin loop.users /\ IsInjective(loop.toOpen)
        /\ ToSet(loop.toOpen) \subseteq ToSet(Sessions(here, u))
        /\ \A v \in Profiles : \A x \in ToSet(Sessions(here, v)) : ToReopen(v, x) => thread[x].pc = "none"
    BY <1>p, <1>h, <1>8 DEF Reopening
  <2>2. loop.toOpen \in Seq(Ports)
    BY <1>2 DEF LoopType
  <2> QED BY <1>p, <1>h, <2>1, <2>2, DistinctTail
<1>23. \A v \in Profiles : ToSet(Sessions(here, v)) \subseteq Ports
  BY SessionsTyped
<1>5. p \in Ports /\ p \in ToSet(Sessions(here, u))
  BY <1>2, <1>4, <1>23
<1>6. PICK row : row = [Table[u] EXCEPT !.sessions = Append(RemoveFirst(@, p), p)]
  OBVIOUS
<1>7. PICK old \in Seq(Ports) : old = Sessions(here, u) /\ row.sessions = Append(RemoveFirst(old, p), p)
  <2>1. Sessions(here, u) = masterTable[here][u].sessions /\ Table[u] = masterTable[here][u]
    BY <1>2, <1>h, SessionsHere DEF Table
  <2> QED BY <1>2, <1>6, <2>1 DEF GoodRows, RowType
<1>9. OwnPorts(here)
  BY <1>2 DEF Sess
<1>10. /\ Sessions(here, u)' = Append(RemoveFirst(old, p), p)
       /\ \A v : v # u => Sessions(here, v)' = Sessions(here, v)
       /\ \A s \in Servers \ {here} : SameView(s)
  <2>1. SetRow(here, u, row)
    BY <1>1, <1>6
  <2> QED BY <1>1, <1>7, <2>1, PrimaryRow
<1>11. IsInjective(Sessions(here, u)') /\ ToSet(Sessions(here, u)') = ToSet(Sessions(here, u))
  <2>1. IsInjective(old)
    BY <1>2, <1>7, <1>9 DEF OwnPorts
  <2>2. PICK less \in Seq(Ports) : less = RemoveFirst(old, p) /\ IsInjective(less) /\ ToSet(less) = ToSet(old) \ {p}
    BY <2>1, DistinctRemove
  <2>3. IsInjective(Append(less, p)) /\ ToSet(Append(less, p)) = ToSet(less) \cup {p}
    BY <1>5, <2>2, DistinctAppend
  <2> QED BY <1>5, <1>7, <1>10, <2>2, <2>3
<1>12. \A v : ToSet(Sessions(here, v)') = ToSet(Sessions(here, v))
  BY <1>10, <1>11
<1>13. OwnPorts(here)'
  <2>1. \A v \in Profiles : IsInjective(Sessions(here, v)')
    BY <1>9, <1>10, <1>11 DEF OwnPorts
  <2>2. nextClientPort'[here] = nextClientPort[here]
    BY <1>1
  <2> QED BY <1>9, <1>12, <2>1, <2>2 DEF OwnPorts
<1>14. inbox'[here] = <<>>
  BY <1>1, <1>8
<1>15. Room(here)' /\ \A v, x : Has(here, v, x)' <=> Has(here, v, x)
  BY <1>8, <1>12, <1>14, NothingToRead
<1>16. thread[p].pc = "none"
  BY <1>1 DEF Taken
<1>17. /\ thread'[p].pc = "run" /\ thread'[p].profile = u /\ thread'[p].toTell = <<>>
       /\ \A q \in Ports \ {p} : thread'[q] = thread[q]
  BY <1>1, <1>2, <1>5, NewThreadIs
<1>18. \A s \in upToDate : (OwnPorts(s) /\ Room(s))'
  BY <1>2, <1>10, <1>13, <1>15, ViewKept DEF Sess
<1>19. ASSUME NEW s \in upToDate \ {here} PROVE Following(s)'
  <2>1. EndOf(s)' = EndOf(s) /\ \A v, x : ~Starting(s, v, x)' /\ ~Starting(s, v, x)
    BY <1>p, <1>1, <1>3 DEF EndOf, Starting
  <2>2. \A v : \A x \in Ports : Leaving(s, v, x)' <=> Leaving(s, v, x)
    <3> SUFFICES ASSUME NEW v, NEW x \in Ports PROVE Leaving(s, v, x)' <=> Leaving(s, v, x)
      OBVIOUS
    <3>1. CASE x = p
      BY <1>16, <1>17, <3>1 DEF Leaving
    <3>2. CASE x # p
      BY <1>17, <3>2 DEF Leaving
    <3> QED BY <3>1, <3>2
  <2>3. \A v \in Profiles, x \in Ports : Expected(s, v, x)' <=> Expected(s, v, x)
    BY <1>2, <1>12, <1>h, <2>1, <2>2 DEF Expected
  <2>4. Following(s) /\ SameView(s)
    BY <1>p, <1>h, <1>2, <1>10, Leads
  <2> QED BY <2>1, <2>3, <2>4, FollowingSame
<1>20. ThreadsOpen'
  <2>0. ASSUME NEW q \in Ports, thread'[q].pc # "none", NEW w, w = thread'[q].profile
        PROVE  q \in ToSet(Sessions(here, w)')
    <3>1. CASE q = p
      BY <1>5, <1>12, <1>17, <2>0, <3>1
    <3>2. CASE q # p
      <4>1. q \in ToSet(Sessions(here, w))
        BY <1>8, <1>17, <1>h, <2>0, <3>2 DEF ThreadsOpen
      <4> QED BY <1>12, <4>1
    <3> QED BY <3>1, <3>2
  <2> QED BY <1>2, <2>0 DEF ThreadsOpen
<1>21. NoThreads'
  BY <1>1, <1>4 DEF NoThreads
<1>22. \A v, x : ToReopen(v, x)' <=> v \in loop.users \/ (v = u /\ x \in ToSet(loop.toOpen) /\ x # p)
  BY <1>3, <1>4 DEF ToReopen
<1>24. \A v, x : ToReopen(v, x) <=> v \in loop.users \/ (v = u /\ x \in ToSet(loop.toOpen))
  BY <1>p, <1>h DEF ToReopen
<1>25. \A v \in Profiles \ {u} : p \notin ToSet(Sessions(here, v))
  BY <1>2, <1>5, <1>9 DEF OwnPorts
<1>26. Served'
  <2>1. ASSUME NEW v \in Profiles, NEW x \in ToSet(Sessions(here, v)')
        PROVE  (thread'[x].pc # "none" /\ thread'[x].profile = v) \/ ToReopen(v, x)'
    <3>0. x \in ToSet(Sessions(here, v)) /\ x \in Ports
      BY <1>12, <1>23, <2>1
    <3>1. CASE x = p
      <4>1. v = u
        BY <1>25, <3>0, <3>1
      <4> QED BY <1>17, <3>1, <4>1
    <3>2. CASE x # p
      <4>1. (thread[x].pc # "none" /\ thread[x].profile = v) \/ ToReopen(v, x)
        BY <1>4, <1>8, <1>h, <3>0 DEF Served
      <4> QED BY <1>17, <1>22, <1>24, <3>0, <3>2, <4>1
    <3> QED BY <3>1, <3>2
  <2> QED BY <1>2, <2>1 DEF Served
<1>27. Reopening'
  <2>1. ASSUME NEW v \in Profiles, NEW x \in ToSet(Sessions(here, v)'), ToReopen(v, x)'
        PROVE  thread'[x].pc = "none"
    <3>0. x \in ToSet(Sessions(here, v)) /\ x \in Ports
      BY <1>12, <1>23, <2>1
    <3>1. x # p
      BY <1>4, <1>22, <1>25, <2>1, <3>0
    <3> QED BY <1>4, <1>17, <1>22, <1>24, <2>1, <3>0, <3>1
  <2>2. ToSet(loop'.toOpen) \subseteq ToSet(Sessions(here, u)')
    BY <1>3, <1>4, <1>12
  <2> QED BY <1>1, <1>2, <1>3, <1>4, <2>1, <2>2 DEF Reopening
<1>28. Lists'
  BY <1>1, <1>3, <1>8, <1>17, NewThreadIs DEF Lists
<1>29. Say'
  BY <1>8, <1>17 DEF Say
<1>30. Clients'
  <2>2. ASSUME NEW q \in Ports, client[q] # Nobody, NEW w, w = client[q]
        PROVE  thread'[q].pc # "exit" /\ \A s \in upToDate : Has(s, w, q)'
    <3>1. thread[q].pc # "exit" /\ \A s \in upToDate : Has(s, w, q)
      BY <1>8, <2>2 DEF Clients
    <3>2. \A s \in upToDate : Has(s, w, q)'
      BY <1>2, <1>10, <1>15, <3>1, ViewKept
    <3>3. thread'[q].pc # "exit"
      BY <1>17, <3>1
    <3> QED BY <3>2, <3>3
  <2> QED BY <1>1, <2>2 DEF Clients
<1>31. Led'
  BY <1>1, <1>2, <1>8, <1>14, <1>19, <1>20, <1>21, <1>26, <1>27 DEF Led
<1> QED BY <1>1, <1>2, <1>p, <1>18, <1>28, <1>29, <1>30, <1>31 DEF Sess

-----------------------------------------------------------------------------
(* Deaths, and the steps of the backups.                                    *)

LEMMA NothingTold ==
  ASSUME thread' = [p \in Ports |-> NoThread], loop' = Rest, UNCHANGED backupServers, Lists
  PROVE  Lists' /\ Say'
<1>1. \A p \in Ports : thread'[p].toTell = <<>>
  BY DEF NoThread
<1>2. loop'.toTell = <<>>
  BY DEF Rest
<1> QED BY <1>1, <1>2, NewThreadIs DEF Lists, Say

LEMMA PrimaryDiesSess ==
  ASSUME TypeInv, Sound, Sess, primary # Nobody, PrimaryDies
  PROVE  Sess'
<1>1. /\ primary' = Nobody /\ isPrimary' = FALSE
      /\ loop' = Rest /\ thread' = [p \in Ports |-> NoThread]
      /\ upToDate' = upToDate \ (Untold \cup {primary})
      /\ masterTable' = [masterTable EXCEPT ![primary] = <<>>]
      /\ nextClientPort' = [nextClientPort EXCEPT ![primary] = FirstPort]
      /\ UNCHANGED <<backupServers, inbox, client>>
  BY DEF PrimaryDies, Forgets, net
<1>2. PICK here \in Servers, N \in Nat : here = primary /\ N = nextClientPort[here]
  BY Server DEF TypeInv, StaticTypes
<1>3. Lists /\ Clients /\ \A s \in upToDate \ {primary} : Following(s)
  BY Leads
<1>4. ASSUME NEW s \in upToDate'
      PROVE  /\ s \in upToDate /\ s # here /\ s \notin ToSet(loop.toTell)
             /\ \A p \in Ports : s \notin ToSet(thread[p].toTell)
             /\ Following(s) /\ OwnPorts(s) /\ Room(s) /\ SameView(s)
  <2>1. s \in upToDate /\ s # here /\ s \notin Untold
    BY <1>1, <1>2, <1>4
  <2>2. s \notin ToSet(loop.toTell) /\ \A p \in Ports : s \notin ToSet(thread[p].toTell)
    BY <2>1 DEF Untold
  <2>3. s \in Servers
    BY <2>1 DEF TypeInv, StaticTypes
  <2>4. masterTable'[s] = masterTable[s] /\ nextClientPort'[s] = nextClientPort[s] /\ inbox'[s] = inbox[s]
    BY <1>1, <1>2, <2>1, <2>3 DEF TypeInv, Tables, StaticTypes
  <2>5. SameView(s)
    BY <2>4 DEF SameView, Sessions, RowOf
  <2> QED BY <1>2, <1>3, <2>1, <2>2, <2>5 DEF Sess
<1>5. PICK end \in Nat : end = IF loop.pc = "tell" THEN N + 1 ELSE N
  OBVIOUS
<1>6. \A s \in upToDate' : Counted(s, end)'
  <2> TAKE s \in upToDate'
  <2>1. EndOf(s) = end
    BY <1>2, <1>4, <1>5 DEF EndOf
  <2>2. Counted(s, end)
    BY <1>4, <2>1 DEF Following
  <2> QED BY <1>4, <2>2, ViewKept
<1>7. ASSUME NEW s \in upToDate', NEW u \in Profiles, NEW p \in Ports
      PROVE  Has(s, u, p)' <=>
               \/ p \in ToSet(Sessions(here, u)) /\ ~(thread[p].pc = "exit" /\ thread[p].profile = u)
               \/ loop.pc = "tell" /\ u = loop.profile /\ p = N
  <2>1. Has(s, u, p) <=> Expected(s, u, p)
    BY <1>4 DEF Following
  <2>2. Leaving(s, u, p) <=> thread[p].pc = "exit" /\ thread[p].profile = u
    BY <1>4 DEF Leaving
  <2>3. Starting(s, u, p) <=> loop.pc = "tell" /\ u = loop.profile /\ p = N
    BY <1>2, <1>4 DEF Starting
  <2>4. Has(s, u, p)' <=> Has(s, u, p)
    BY <1>4, ViewKept
  <2> QED BY <1>2, <2>1, <2>2, <2>3, <2>4 DEF Expected
<1>8. Leaderless'
  BY <1>1, <1>6, <1>7 DEF Leaderless
<1>9. Lists' /\ Say'
  BY <1>1, <1>3, NothingTold
<1>10. Clients'
  <2>1. \A p \in Ports : thread'[p].pc # "exit"
    BY <1>1 DEF NoThread
  <2>2. ASSUME NEW p \in Ports, client[p] # Nobody, NEW s \in upToDate', NEW w, w = client[p]
        PROVE  Has(s, w, p)'
    <3>1. Has(s, w, p)
      BY <1>3, <1>4, <2>2 DEF Clients
    <3> QED BY <1>4, <3>1, ViewKept
  <2> QED BY <1>1, <2>1, <2>2 DEF Clients
<1>11. \A s \in upToDate' : (OwnPorts(s) /\ Room(s))'
  BY <1>4, ViewKept
<1> QED BY <1>1, <1>8, <1>9, <1>10, <1>11 DEF Sess

\* Whatever a backup reads, it is the only one that sees anything of it.
LEMMA OtherViews ==
  ASSUME TypeInv, Sound, NEW b \in Servers, BackupStep(b)
  PROVE  /\ \A s \in Servers \ {b} : SameView(s)
         /\ b # primary
         /\ upToDate' \in {upToDate, upToDate \ {b}}
         /\ UNCHANGED <<primary, isPrimary, backupServers, loop, thread, client>>
<1>1. /\ \A t \in Servers \ {b} : masterTable'[t] = masterTable[t] /\ inbox'[t] = inbox[t]
      /\ b # primary
      /\ upToDate' \in {upToDate, upToDate \ {b}}
      /\ UNCHANGED <<primary, backupServers, loop, thread>>
  BY Others
<1>2. UNCHANGED <<isPrimary, client>>
  BY DEF BackupStep, ReplicateConnect, ReplicateDisconnect, ReplicateFollow, ReplicateSend, Receives
<1>3. \A s \in Servers \ {b} : nextClientPort'[s] = nextClientPort[s]
  <2>1. \/ UNCHANGED nextClientPort
        \/ nextClientPort' = [nextClientPort EXCEPT ![b] = @ + 1]
        \/ nextClientPort' = [nextClientPort EXCEPT ![b] = FirstPort]
    BY DEF BackupStep, ReplicateConnect, ReplicateDisconnect, ReplicateFollow, ReplicateSend,
           NoRow, Dies, Forgets
  <2>2. nextClientPort \in [Servers -> Nat]
    BY DEF TypeInv, StaticTypes
  <2> QED BY <2>1, <2>2
<1>4. \A s \in Servers \ {b} : SameView(s)
  BY <1>1, <1>3 DEF SameView, Sessions, RowOf
<1> QED BY <1>1, <1>2, <1>4

\* It is read what was to be read, and what a server is to have is the same.
LEMMA BackupSess ==
  ASSUME TypeInv, Sound, Sess, NEW b \in Servers, BackupStep(b), upToDate # {}
  PROVE  Sess'
<1>1. /\ \A s \in Servers \ {b} : SameView(s)
      /\ b # primary
      /\ upToDate' \subseteq upToDate
      /\ UNCHANGED <<primary, isPrimary, backupServers, loop, thread, client>>
  BY OtherViews
<1>2. upToDate \subseteq Servers
  BY DEF TypeInv, StaticTypes
<1>3. ASSUME NEW s \in upToDate', NEW end \in Nat, Counted(s, end)
      PROVE  /\ OwnPorts(s)' /\ Room(s)' /\ Counted(s, end)'
             /\ \A u \in Profiles, p \in Ports : Has(s, u, p)' <=> Has(s, u, p)
  <2>1. OwnPorts(s) /\ Room(s) /\ s \in upToDate
    BY <1>1 DEF Sess
  <2>2. CASE s # b
    BY <1>1, <1>2, <1>3, <2>1, <2>2, ViewKept
  <2>3. CASE s = b
    <3>1. PICK k : Handled(b, k)
      BY <2>1, <2>3, Handles
    <3> QED BY <1>3, <2>1, <2>3, <3>1, ReadView
  <2> QED BY <2>2, <2>3
<1>4. Lists' /\ Say'
  BY <1>1 DEF Sess, Lists, Say
<1>5. CASE primary = Nobody
  <2>1. Leaderless /\ Clients
    BY <1>5 DEF Sess
  <2>2. PICK end \in Nat : \A s \in upToDate : Counted(s, end)
    BY <2>1 DEF Leaderless
  <2>3. \A s \in upToDate' : /\ OwnPorts(s)' /\ Room(s)' /\ Counted(s, end)'
                             /\ \A u \in Profiles, p \in Ports : Has(s, u, p)' <=> Has(s, u, p)
    BY <1>1, <1>3, <2>2
  <2>4. Leaderless'
    BY <1>1, <2>1, <2>3 DEF Leaderless
  <2>5. Clients'
    <3>1. client \in [Ports -> Profiles \cup {Nobody}]
      BY DEF TypeInv, StaticTypes
    <3> QED BY <1>1, <2>1, <2>3, <3>1 DEF Clients
  <2> QED BY <1>1, <1>4, <1>5, <2>3, <2>4, <2>5 DEF Sess
<1>6. CASE primary # Nobody
  <2>1. /\ inbox[primary] = <<>> /\ primary \notin ToSet(backupServers)
        /\ \A s \in upToDate \ {primary} : Following(s)
        /\ ThreadsOpen /\ NoThreads /\ Served /\ Reopening /\ Clients
    BY <1>6, Leads
  <2>2. PICK here \in Servers, N \in Nat : here = primary /\ primary' = here /\ N = nextClientPort[here] /\ here # b
    BY <1>1, <1>6, Server DEF TypeInv, StaticTypes
  <2>3. inbox'[here] = inbox[here] /\ nextClientPort'[here] = N /\ \A u : Sessions(here, u)' = Sessions(here, u)
    BY <1>1, <2>2 DEF SameView
  <2>4. ASSUME NEW s \in upToDate' \ {here}
        PROVE  /\ Following(s)' /\ OwnPorts(s)' /\ Room(s)'
               /\ \A u \in Profiles, p \in Ports : Has(s, u, p)' <=> Has(s, u, p)
    <3>1. EndOf(s) \in Nat /\ EndOf(s)' = EndOf(s)
      BY <1>1, <2>2, <2>3 DEF EndOf
    <3>2. Following(s)
      BY <1>1, <2>1, <2>2
    <3>3. PICK end \in Nat : end = EndOf(s) /\ EndOf(s)' = end /\ Counted(s, end)
      BY <3>1, <3>2 DEF Following
    <3>4. /\ OwnPorts(s)' /\ Room(s)' /\ Counted(s, end)'
          /\ \A u \in Profiles, p \in Ports : Has(s, u, p)' <=> Has(s, u, p)
      BY <1>3, <3>3
    <3>5. \A u, p : Expected(s, u, p)' <=> Expected(s, u, p)
      <4>1. \A u, p : Starting(s, u, p)' <=> Starting(s, u, p)
        BY <1>1, <2>2, <2>3 DEF Starting
      <4>2. \A u, p : Leaving(s, u, p)' <=> Leaving(s, u, p)
        BY <1>1 DEF Leaving
      <4> QED BY <2>2, <2>3, <4>1, <4>2 DEF Expected
    <3>6. Counted(s, EndOf(s))'
      BY <3>3, <3>4 DEF Counted
    <3>7. Following(s)'
      BY <3>2, <3>4, <3>5, <3>6 DEF Following
    <3> QED BY <3>4, <3>7
  <2>5. SameView(here)
    BY <1>1, <2>2
  <2>6. \A s \in upToDate' : /\ OwnPorts(s)' /\ Room(s)'
                             /\ \A u \in Profiles, p \in Ports : Has(s, u, p)' <=> Has(s, u, p)
    <3> TAKE s \in upToDate'
    <3>1. CASE s = here
      BY <1>1, <2>5, <3>1, ViewKept DEF Sess
    <3> QED BY <2>4, <3>1
  <2>7. Clients'
    <3>1. client \in [Ports -> Profiles \cup {Nobody}]
      BY DEF TypeInv, StaticTypes
    <3> QED BY <1>1, <2>1, <2>6, <3>1 DEF Clients
  <2>8. ThreadsOpen' /\ NoThreads'
    BY <1>1, <2>1, <2>2, <2>3 DEF ThreadsOpen, NoThreads
  <2>9. \A u, p : ToReopen(u, p)' <=> ToReopen(u, p)
    BY <1>1 DEF ToReopen
  <2>10. Served'
    BY <1>1, <2>1, <2>2, <2>3, <2>9 DEF Served
  <2>11. Reopening'
    <3>1. Sessions(here, loop.profile)' = Sessions(here, loop.profile)
      BY <1>1, <2>3
    <3> QED BY <1>1, <2>1, <2>2, <2>3, <2>9, <3>1 DEF Reopening
  <2>12. Led'
    BY <1>1, <2>1, <2>2, <2>3, <2>4, <2>8, <2>10, <2>11 DEF Led
  <2> QED BY <1>1, <1>4, <1>6, <2>6, <2>7, <2>12 DEF Sess
<1> QED BY <1>5, <1>6

\* Who takes the port has read everything: it counts as far as the others will,
\* and has open what they will have open.
LEMMA TakePortSess ==
  ASSUME TypeInv, Sound, Sess, NEW b \in Servers, TakePort(b), upToDate' # {}
  PROVE  Sess'
<1>1. /\ primary = Nobody /\ primary' = b /\ b # Nobody
      /\ b \in upToDate /\ inbox[b] = <<>> /\ upToDate' = upToDate
      /\ inbox' = [inbox EXCEPT ![b] = <<>>]
      /\ UNCHANGED <<isPrimary, masterTable, nextClientPort, loop, thread, client>>
  BY ReplicationAssumption DEF TakePort, counts
<1>2. PICK i \in DOMAIN backupServers :
        backupServers[i] = b /\ backupServers' = RemoveAt(backupServers, i)
  BY DEF TakePort
<1>3. Leaderless /\ Lists /\ Say /\ Clients
  BY <1>1 DEF Sess
<1>4. /\ IsInjective(backupServers') /\ ToSet(backupServers') = ToSet(backupServers) \ {b}
  <2>1. backupServers \in Seq(Servers) /\ IsInjective(backupServers)
    BY <1>3 DEF TypeInv, StaticTypes, Lists
  <2> QED BY <1>2, <2>1, DistinctRemoveAt
<1>5. /\ loop.pc = "receive" /\ loop.toTell = <<>>
      /\ \A p \in Ports : thread[p].pc = "none" /\ thread[p].toTell = <<>>
  BY <1>1 DEF TypeInv, Idle, Rest, NoThread
<1>6. \A s \in upToDate : SameView(s)
  <2>1. inbox' = inbox
    BY <1>1 DEF TypeInv, StaticTypes
  <2> QED BY <1>1, <2>1 DEF SameView, Sessions, RowOf
<1>7. \A s \in upToDate : (OwnPorts(s) /\ Room(s))' /\ \A u, p : Has(s, u, p)' <=> Has(s, u, p)
  BY <1>6, ViewKept DEF Sess
<1>8. PICK next \in Nat : next = nextClientPort[b]
  BY DEF TypeInv, StaticTypes
<1>9. \A s \in upToDate : Counted(s, next)'
  <2>1. PICK end \in Nat : \A s \in upToDate : Counted(s, end)
    BY <1>3 DEF Leaderless
  <2>2. CountedUpTo(next, <<>>, end)
    BY <1>1, <1>8, <2>1 DEF Counted
  <2>3. next = end
    BY <2>2, CountNone
  <2> QED BY <1>6, <2>1, <2>3, ViewKept
<1>10. ASSUME NEW s \in upToDate \ {b} PROVE Following(s)'
  <2>1. EndOf(s)' = next /\ \A u, p : ~Starting(s, u, p)'
    BY <1>1, <1>5, <1>8 DEF EndOf, Starting
  <2>2. Counted(s, EndOf(s))'
    BY <1>9, <2>1 DEF Counted
  <2>3. \A u : Sessions(b, u)' = Sessions(b, u)
    BY <1>1, <1>6 DEF SameView
  <2>4. \A u : \A p \in Ports : ~Leaving(s, u, p)'
    BY <1>1, <1>5 DEF Leaving
  <2>5. ASSUME NEW u \in Profiles, NEW p \in Ports PROVE Has(s, u, p)' <=> Expected(s, u, p)'
    <3>1. Has(s, u, p)' <=> Has(b, u, p)
      BY <1>1, <1>3, <1>7 DEF Leaderless
    <3>2. Has(b, u, p) <=> p \in ToSet(Sessions(b, u))
      BY <1>1, NothingToRead
    <3>3. Expected(s, u, p)' <=> p \in ToSet(Sessions(b, u))
      BY <1>1, <2>1, <2>3, <2>4 DEF Expected
    <3> QED BY <3>1, <3>2, <3>3
  <2> QED BY <2>2, <2>5 DEF Following
<1>11. ThreadsOpen' /\ NoThreads' /\ Served' /\ Reopening'
  <2>1. ~isPrimary'
    BY <1>1, <1>3 DEF Leaderless
  <2>2. \A p \in Ports : thread'[p].pc = "none"
    BY <1>1, <1>5
  <2>3. loop'.pc # "reopen"
    BY <1>1, <1>5
  <2> QED BY <2>1, <2>2, <2>3 DEF ThreadsOpen, NoThreads, Served, Reopening
<1>12. Led'
  <2>1. inbox'[b] = <<>> /\ b \notin ToSet(backupServers')
    BY <1>1, <1>4 DEF TypeInv, StaticTypes
  <2> QED BY <1>1, <1>10, <1>11, <2>1 DEF Led
<1>13. Lists' /\ Say'
  <2>1. /\ loop'.toTell = <<>> /\ \A p \in Ports : thread'[p].toTell = <<>>
    BY <1>1, <1>5
  <2> QED BY <1>4, <2>1, NewThreadIs DEF Lists, Say
<1>14. Clients'
  <2>1. client \in [Ports -> Profiles \cup {Nobody}]
    BY DEF TypeInv, StaticTypes
  <2> QED BY <1>1, <1>3, <1>5, <1>7, <2>1 DEF Clients
<1> QED BY <1>1, <1>7, <1>12, <1>13, <1>14 DEF Sess

LEMMA JoinSess ==
  ASSUME TypeInv, Sound, Sess, NEW b \in Servers, Join(b)
  PROVE  Sess'
<1>1. /\ primary # Nobody /\ b \notin alive /\ b \notin ToSet(backupServers)
      /\ backupServers' = Append(backupServers, b)
      /\ UNCHANGED <<primary, isPrimary, inbox, nextClientPort, loop, thread, client, upToDate>>
      /\ \E t : masterTable' = [masterTable EXCEPT ![b] = t]
  BY DEF Join, Serving, counts, history
<1>2. /\ upToDate \subseteq alive /\ primary \in Servers /\ primary \in alive /\ b # primary
      /\ upToDate \subseteq Servers /\ primary \in upToDate
  BY <1>1, SomebodyServes DEF Sound, Roles
<1>3. ThreadsOpen /\ NoThreads /\ Served /\ Reopening /\ Lists /\ Say /\ Clients
      /\ primary \notin ToSet(backupServers)
  BY <1>1, Leads
<1>4. IsInjective(backupServers') /\ ToSet(backupServers') = ToSet(backupServers) \cup {b}
  <2>1. backupServers \in Seq(Servers) /\ IsInjective(backupServers)
    BY <1>3 DEF TypeInv, StaticTypes, Lists
  <2> QED BY <1>1, <2>1, DistinctAppend
<1>5. \A s \in Servers \ {b} : masterTable'[s] = masterTable[s]
  BY <1>1 DEF TypeInv, Tables
<1>6. \A s \in upToDate : SameView(s)
  BY <1>1, <1>2, <1>5 DEF SameView, Sessions, RowOf
<1>7. PICK here \in Servers : here = primary /\ primary' = here
  BY <1>1, <1>2
<1>8. \A u : Sessions(here, u)' = Sessions(here, u)
  BY <1>2, <1>6, <1>7 DEF SameView
<1>9. ASSUME NEW s \in upToDate
      PROVE  EndOf(s)' = EndOf(s) /\ \A u, p : Expected(s, u, p)' <=> Expected(s, u, p)
  <2>1. EndOf(s)' = EndOf(s)
    BY <1>1 DEF EndOf
  <2>2. \A u, p : Starting(s, u, p)' <=> Starting(s, u, p)
    BY <1>1 DEF Starting
  <2>3. \A u, p : Leaving(s, u, p)' <=> Leaving(s, u, p)
    BY <1>1 DEF Leaving
  <2> QED BY <1>7, <1>8, <2>1, <2>2, <2>3 DEF Expected
<1>10. ThreadsOpen' /\ NoThreads'
  BY <1>1, <1>3, <1>7, <1>8 DEF ThreadsOpen, NoThreads
<1>11. \A u, p : ToReopen(u, p)' <=> ToReopen(u, p)
  BY <1>1 DEF ToReopen
<1>12. Served'
  BY <1>1, <1>3, <1>7, <1>8, <1>11 DEF Served
<1>13. Reopening'
  <2>1. Sessions(here, loop.profile)' = Sessions(here, loop.profile)
    BY <1>1, <1>8
  <2> QED BY <1>1, <1>3, <1>7, <1>8, <1>11, <2>1 DEF Reopening
<1>14. Lists' /\ Say'
  BY <1>1, <1>3, <1>4 DEF Lists, Say
<1>15. primary \notin ToSet(backupServers') /\ inbox'[primary] = inbox[primary]
  BY <1>1, <1>2, <1>3, <1>4
<1>16. \A p \in Ports : client'[p] # Nobody => client'[p] = client[p] /\ thread'[p].pc # "exit"
  BY <1>1, <1>3 DEF Clients
<1> QED BY <1>1, <1>6, <1>9, <1>10, <1>12, <1>13, <1>14, <1>15, <1>16, LookSame

-----------------------------------------------------------------------------
(* The sessions agree.                                                      *)

LEMMA SessAtFirst == Init => Sess
<1> SUFFICES ASSUME Init PROVE Sess
  OBVIOUS
<1>1. /\ primary = Primary /\ primary # Nobody /\ loop = Rest /\ thread = [p \in Ports |-> NoThread]
      /\ inbox = [s \in Servers |-> <<>>] /\ client = [p \in Ports |-> Nobody]
      /\ nextClientPort = [s \in Servers |-> FirstPort] /\ FirstPort \in Nat
      /\ upToDate \subseteq Servers /\ Primary \in Servers
  <2>1. TypeInv
    BY TypesAtFirst
  <2> QED BY <2>1, ReplicationAssumption DEF Init, TypeInv, StaticTypes
<1>2. IsInjective(backupServers) /\ Primary \notin ToSet(backupServers)
  <2>1. backupServers \in Seq(Servers \ {Primary}) /\ IsInjective(backupServers)
    BY ReplicationAssumption DEF Init
  <2>2. \A i \in DOMAIN backupServers : backupServers[i] # Primary
    BY <2>1
  <2> QED BY <2>1, <2>2 DEF ToSet
<1>3. \A s \in Servers : \A u : Sessions(s, u) = <<>>
  <2>1. PICK file \in Files : masterTable = [s \in Servers |-> [u \in DOMAIN file |-> LoadedRow(file[u])]]
    BY DEF Init
  <2> QED BY <2>1 DEF Sessions, RowOf, NewRow, LoadedRow
<1>4. IsInjective(<<>>) /\ ToSet(<<>>) = {}
  BY NewThreadIs
<1>5. ASSUME NEW s \in Servers
      PROVE  /\ OwnPorts(s) /\ Room(s) /\ Counted(s, FirstPort)
             /\ \A u, p : ~Has(s, u, p)
  <2>1. inbox[s] = <<>> /\ nextClientPort[s] = FirstPort
    BY <1>1
  <2>2. Room(s) /\ \A u, p : ~Has(s, u, p)
    BY <1>3, <1>4, <2>1, NothingToRead
  <2>3. Counted(s, FirstPort)
    BY <1>1, <2>1, CountNone DEF Counted
  <2>4. OwnPorts(s)
    BY <1>3, <1>4 DEF OwnPorts
  <2> QED BY <2>2, <2>3, <2>4
<1>6. loop.pc = "receive" /\ loop.toTell = <<>> /\ \A p \in Ports : thread[p].pc = "none" /\ thread[p].toTell = <<>>
  BY <1>1 DEF Rest, NoThread
<1>7. ASSUME NEW s \in upToDate PROVE Following(s)
  <2>1. EndOf(s) = FirstPort /\ \A u, p : ~Starting(s, u, p)
    BY <1>1, <1>6 DEF EndOf, Starting
  <2>2. \A u, p : ~Expected(s, u, p)
    BY <1>1, <1>3, <1>4, <2>1 DEF Expected
  <2> QED BY <1>1, <1>5, <2>1, <2>2 DEF Following
<1>8. ThreadsOpen /\ NoThreads /\ Served /\ Reopening
  <2>1. \A u : ToSet(Sessions(primary, u)) = {}
    BY <1>1, <1>3, <1>4
  <2> QED BY <1>6, <2>1 DEF ThreadsOpen, NoThreads, Served, Reopening
<1>9. Led
  BY <1>1, <1>2, <1>7, <1>8 DEF Led
<1>10. Lists /\ Say
  BY <1>2, <1>4, <1>6 DEF Lists, Say
<1>11. Clients
  BY <1>1 DEF Clients
<1> QED BY <1>1, <1>5, <1>9, <1>10, <1>11 DEF Sess

LEMMA StutterSess ==
  ASSUME TypeInv, Sess, UNCHANGED vars
  PROVE  Sess'
<1>1. UNCHANGED <<primary, isPrimary, backupServers, inbox, masterTable, nextClientPort, loop, thread,
                  client, upToDate>>
  BY DEF vars, roles, net, history
<1>2. \A s, u : Sessions(s, u)' = Sessions(s, u)
  BY <1>1 DEF Sessions, RowOf
<1>3. \A s : SameView(s)
  BY <1>1, <1>2 DEF SameView
<1>4. \A s, u, p : Expected(s, u, p)' <=> Expected(s, u, p)
  BY <1>1, <1>2 DEF Expected, Leaving, Starting
<1>5. \A s : EndOf(s)' = EndOf(s)
  BY <1>1 DEF EndOf
<1>6. \A u, p : ToReopen(u, p)' <=> ToReopen(u, p)
  BY <1>1 DEF ToReopen
<1>7. CASE primary # Nobody
  <2>1. ThreadsOpen /\ NoThreads /\ Served /\ Reopening /\ Lists /\ Say /\ Clients
    BY <1>7, Leads
  <2>2. PICK here : here = primary /\ primary' = here
    BY <1>1
  <2>3. ThreadsOpen' /\ NoThreads'
    BY <1>1, <1>2, <2>1, <2>2 DEF ThreadsOpen, NoThreads
  <2>4. Served'
    BY <1>1, <1>2, <1>6, <2>1, <2>2 DEF Served
  <2>5. Reopening'
    <3>1. Sessions(here, loop.profile)' = Sessions(here, loop.profile)
      BY <1>1, <1>2
    <3> QED BY <1>1, <1>2, <1>6, <2>1, <2>2, <3>1 DEF Reopening
  <2>6. Lists' /\ Say'
    BY <1>1, <2>1 DEF Lists, Say
  <2>7. \A p \in Ports : client'[p] # Nobody => client'[p] = client[p] /\ thread'[p].pc # "exit"
    BY <1>1, <2>1 DEF Clients
  <2> QED BY <1>1, <1>3, <1>4, <1>5, <1>7, <2>3, <2>4, <2>5, <2>6, <2>7, LookSame
<1>8. CASE primary = Nobody
  <2>1. Leaderless /\ Lists /\ Say /\ Clients /\ \A s \in upToDate : OwnPorts(s) /\ Room(s)
    BY <1>8 DEF Sess
  <2>2. \A s : /\ OwnPorts(s) => OwnPorts(s)'
               /\ Room(s) => Room(s)'
               /\ \A end : Counted(s, end)' <=> Counted(s, end)
               /\ \A u, p : Has(s, u, p)' <=> Has(s, u, p)
    BY <1>3, ViewKept
  <2>3. Leaderless'
    BY <1>1, <2>1, <2>2 DEF Leaderless
  <2>4. Lists' /\ Say'
    BY <1>1, <2>1 DEF Lists, Say
  <2>5. Clients'
    BY <1>1, <2>1, <2>2 DEF Clients
  <2> QED BY <1>1, <1>8, <2>1, <2>2, <2>3, <2>4, <2>5 DEF Sess
<1> QED BY <1>7, <1>8

LEMMA SessStep ==
  ASSUME TypeInv, Sound, Sess, [Next]_vars, upToDate' # {}
  PROVE  Sess'
<1>1. ASSUME LoopStep PROVE Sess'
  BY <1>1, ReceiveConnectSess, ReopenUserSess, TellConnectSess, StartSessionSess,
     BecomePrimarySess, ReopenSessionSess, EnterPrimaryLoopSess DEF LoopStep
<1>2. ASSUME NEW p \in Ports, ThreadStep(p) PROVE Sess'
  <2>1. CASE SendBlindly(p)
    <3>1. thread[p].pc # "none" /\ PrimaryDies
      BY <2>1 DEF SendBlindly
    <3> QED BY <3>1, Busy, PrimaryDiesSess
  <2> QED BY <1>2, <2>1, FollowSess, SendSess, ExitSess, TellNextSess, CloseSessionSess,
             ShowSess DEF ThreadStep
<1>3. ASSUME NEW b \in Servers, BackupStep(b) PROVE Sess'
  <2>1. upToDate # {}
    <3>1. upToDate' \subseteq upToDate
      BY <1>3, OtherViews
    <3> QED BY <3>1
  <2> QED BY <1>3, <2>1, BackupSess
<1>4. ASSUME NEW b \in Servers, TakePort(b) \/ Join(b) PROVE Sess'
  BY <1>4, TakePortSess, JoinSess
<1>5. ASSUME Crash \/ BindFails PROVE Sess'
  BY <1>5, Busy, PrimaryDiesSess DEF Crash, BindFails
<1> QED BY <1>1, <1>2, <1>3, <1>4, <1>5, StutterSess DEF Next

SessInv == upToDate # {} => Sess

LEMMA SessionsAgree == Spec => [](TypeInv /\ KnownInv /\ SessInv)
<1>1. Init => TypeInv /\ KnownInv /\ SessInv
  BY TypesAtFirst, SoundAtFirst, SessAtFirst DEF SessInv
<1>2. TypeInv /\ KnownInv /\ SessInv /\ [Next]_vars => (TypeInv /\ KnownInv /\ SessInv)'
  <2> SUFFICES ASSUME TypeInv, KnownInv, SessInv, [Next]_vars PROVE (TypeInv /\ KnownInv /\ SessInv)'
    OBVIOUS
  <2>1. TypeInv'
    BY TypesStep
  <2>2. ASSUME upToDate' # {} PROVE Sound' /\ Sess'
    <3>1. Sound /\ Sess
      BY <2>2, NobodyCatchesUp DEF KnownInv, SessInv
    <3> QED BY <2>2, <3>1, StepKeeps, SessStep
  <2> QED BY <2>1, <2>2 DEF KnownInv, SessInv
<1> QED BY <1>1, <1>2, PTL DEF Spec

LEMMA AgreedPortsFree == TypeInv /\ KnownInv /\ SessInv => UpToDatePortsFree
<1> SUFFICES ASSUME TypeInv, KnownInv, SessInv, primary \in upToDate PROVE PortsFree
  BY DEF UpToDatePortsFree
<1>1. Sess /\ Sound /\ primary \in Servers /\ primary # Nobody
  <2>1. Sess /\ Sound
    BY DEF KnownInv, SessInv
  <2> QED BY <2>1, ReplicationAssumption DEF Sound, Roles
<1>2. ThreadsOpen /\ Reopening
  BY <1>1, Leads
<1>3. PICK here \in Servers, N \in Nat : here = primary /\ N = nextClientPort[here]
  BY <1>1 DEF TypeInv, StaticTypes
<1>4. ASSUME loop.pc = "tell" PROVE ~Taken(N)
  <2>1. N \in Ports
    BY <1>3, <1>4 DEF TypeInv, LoopTyped
  <2>2. PICK u : u = thread[N].profile
    OBVIOUS
  <2>3. ASSUME thread[N].pc # "none" PROVE FALSE
    <3>1. N \in ToSet(Sessions(here, u))
      BY <1>2, <1>3, <2>1, <2>2, <2>3 DEF ThreadsOpen
    <3>2. u \in Profiles
      <4>1. u \in DOMAIN Table /\ IsTable(masterTable[here])
        BY <1>3, <2>1, <2>2, <2>3 DEF TypeInv, Threads, ThreadTyped, Tables
      <4> QED BY <1>3, <4>1 DEF Table, IsTable
    <3>3. N < N
      BY <1>1, <1>3, <3>1, <3>2, OwnBelow
    <3> QED BY <3>3
  <2> QED BY <2>3 DEF Taken
<1>5. ASSUME loop.pc = "reopen", loop.toOpen # <<>> PROVE ~Taken(Head(loop.toOpen))
  <2>1. /\ loop.profile \in Profiles /\ loop.toOpen \in Seq(Ports)
    <3>1. loop.profile \in DOMAIN Table /\ loop \in LoopType /\ IsTable(masterTable[here])
      BY <1>3, <1>5 DEF TypeInv, LoopTyped, Tables
    <3> QED BY <1>3, <3>1 DEF Table, IsTable, LoopType
  <2>2. PICK p, u : p = Head(loop.toOpen) /\ u = loop.profile
    OBVIOUS
  <2>3. p \in ToSet(loop.toOpen)
    BY <1>5, <2>1, <2>2, HeadOrTail
  <2>4. p \in ToSet(Sessions(primary, u)) /\ ToReopen(u, p)
    BY <1>2, <1>5, <2>2, <2>3 DEF Reopening, ToReopen
  <2>5. thread[p].pc = "none"
    BY <1>2, <1>5, <2>1, <2>2, <2>4 DEF Reopening
  <2> QED BY <2>2, <2>5 DEF Taken
<1> QED BY <1>3, <1>4, <1>5 DEF PortsFree

LEMMA AgreedClientsServed == TypeInv /\ KnownInv /\ SessInv => ClientsServed
<1> SUFFICES ASSUME TypeInv, KnownInv, SessInv, primary \in upToDate, isPrimary, loop.pc # "reopen",
                    NEW p \in Ports, client[p] # Nobody
             PROVE  thread[p].pc # "none" /\ thread[p].profile = client[p]
  BY DEF ClientsServed
<1>1. Sess /\ Sound /\ primary \in Servers /\ primary # Nobody
  <2>1. Sess /\ Sound
    BY DEF KnownInv, SessInv
  <2> QED BY <2>1, ReplicationAssumption DEF Sound, Roles
<1>2. PICK u \in Profiles : u = client[p]
  BY DEF TypeInv, StaticTypes
<1>3. Has(primary, u, p) /\ inbox[primary] = <<>> /\ Served
  BY <1>1, <1>2, Leads DEF Clients
<1>4. p \in ToSet(Sessions(primary, u))
  BY <1>3, NothingToRead
<1> QED BY <1>2, <1>3, <1>4 DEF Served, ToReopen

\* A primary that has missed nothing finds the port of each session free, the
\* new ones and those that it opens again, though it counted the ports for
\* itself while it was a backup: createClientSocket does not throw there.
THEOREM UpToDatePorts == Spec => []UpToDatePortsFree
BY SessionsAgree, AgreedPortsFree, PTL

\* A primary that has missed nothing and has opened its sessions again serves
\* every client that was redirected and has not left, each on its own port and
\* under its own name, after any number of failovers.
THEOREM UpToDateServes == Spec => []ClientsServed
BY SessionsAgree, AgreedClientsServed, PTL

-----------------------------------------------------------------------------
(* The followers and the messages of a profile on a server, and the         *)
(* followers that it will have when s has read its datagrams.               *)
Followers(s, v) == RowOf(s, v).followers
Messages(s, v) == RowOf(s, v).messages

Asks(d, v, w) == d.type = "FOLLOW" /\ d.profile = w /\ d.follow = v /\ w # v
Asked(s, v, w) == \E i \in DOMAIN inbox[s] : Asks(inbox[s][i], v, w)
WillFollow(s, v, w) == w \in Followers(s, v) \/ Asked(s, v, w)

(* A thread is about to tell s of it.                                       *)
ToAsk(s, v, w) == \E p \in Ports : s \in ToSet(thread[p].toTell) /\ Asks(thread[p].datagram, v, w)

(* The primary knows who was ever connected, and the followers of each      *)
(* profile that was there from the start agree.                             *)
KnowsAll == \A s \in upToDate : \A u \in Profiles : Hears(s, u) => u \in DOMAIN masterTable[primary]

FollowSound ==
  /\ \A s \in upToDate : Known \subseteq DOMAIN masterTable[s]
  /\ primary # Nobody =>
       /\ KnowsAll
       /\ \A s \in upToDate \ {primary} : \A v \in Known, w \in Profiles :
            w \in Followers(primary, v) <=> WillFollow(s, v, w) \/ ToAsk(s, v, w)
  /\ primary = Nobody =>
       \A s, t \in upToDate : \A v \in Known, w \in Profiles : WillFollow(s, v, w) <=> WillFollow(t, v, w)

LEMMA SetRowFields ==
  ASSUME DOMAIN masterTable = Servers, NEW s \in Servers, NEW u, NEW row, SetRow(s, u, row)
  PROVE  /\ DOMAIN masterTable[s] \subseteq DOMAIN masterTable'[s]
         /\ \A v : /\ Followers(s, v)' = IF v = u THEN row.followers ELSE Followers(s, v)
                   /\ Messages(s, v)' = IF v = u THEN row.messages ELSE Messages(s, v)
         /\ \A t \in Servers \ {s} : masterTable'[t] = masterTable[t]
<1>1. /\ DOMAIN masterTable'[s] = DOMAIN masterTable[s] \cup {u}
      /\ \A v \in DOMAIN masterTable[s] \cup {u} :
           masterTable'[s][v] = IF v = u THEN row ELSE masterTable[s][v]
      /\ \A t \in Servers \ {s} : masterTable'[t] = masterTable[t]
  BY SetRowIs
<1> QED BY <1>1 DEF Followers, Messages, RowOf

LEMMA NobodyFollowsNew ==
  ASSUME NEW s, NEW u
  PROVE  /\ u \in DOMAIN masterTable[s] => /\ Followers(s, u) = masterTable[s][u].followers
                                           /\ Messages(s, u) = masterTable[s][u].messages
         /\ u \notin DOMAIN masterTable[s] => Followers(s, u) = {} /\ Messages(s, u) = {}
BY DEF Followers, Messages, RowOf, NewRow

-----------------------------------------------------------------------------
(* A backup reads a datagram.                                               *)
ReadRow(b, k) ==
  /\ inbox[b] # <<>> /\ k = inbox[b][1] /\ k \in DatagramType /\ inbox'[b] = Tail(inbox[b])
  /\ DOMAIN masterTable[b] \subseteq DOMAIN masterTable'[b]
  /\ \A v : Followers(b, v)' = IF Asks(k, v, k.profile) /\ v \in DOMAIN masterTable[b]
                               THEN Followers(b, v) \cup {k.profile} ELSE Followers(b, v)
  /\ \A v : Messages(b, v) \subseteq Messages(b, v)'
  /\ k.type = "SEND" =>
       \A v \in Followers(b, k.profile) \cap DOMAIN masterTable[b] :
         Sessions(b, v) = <<>> => k.message \in Messages(b, v)'

LEMMA ReadsRow ==
  ASSUME TypeInv, Sound, NEW b \in upToDate, b \in Servers, BackupStep(b), b \in upToDate'
  PROVE  \E k : ReadRow(b, k)
<1>k. PICK k : k = Datagram(b)
  OBVIOUS
<1>1. /\ inbox[b] # <<>> /\ inbox' = [inbox EXCEPT ![b] = Tail(@)]
  BY DEF BackupStep, ReplicateConnect, ReplicateDisconnect, ReplicateFollow, ReplicateSend, Receives
<1>2. k = inbox[b][1] /\ k \in DatagramType /\ inbox'[b] = Tail(inbox[b]) /\ 1 \in DOMAIN inbox[b]
      /\ 1 .. 1 - 1 = {}
  BY <1>k, <1>1 DEF TypeInv, StaticTypes, Datagram
<1>3. DOMAIN masterTable = Servers /\ IsTable(masterTable[b])
  BY DEF TypeInv, Tables
<1>4. k.type # "CONNECT" => k.profile \in DOMAIN masterTable[b]
  BY <1>2 DEF Sound, InboxClosed, Closed
<1>h. /\ inbox[b] # <<>> /\ k = inbox[b][1] /\ k \in DatagramType /\ inbox'[b] = Tail(inbox[b])
  BY <1>1, <1>2
<1>5. CASE ReplicateConnect(b)
  <2>2. k.type = "CONNECT"
    BY <1>k, <1>5 DEF ReplicateConnect, Receives, Datagram
  <2>3. CASE UNCHANGED masterTable
    BY <1>h, <2>2, <2>3 DEF ReadRow, Asks, Followers, Messages, RowOf
  <2>4. CASE ~UNCHANGED masterTable
    <3>1. PICK row : row = RowOf(b, k.profile)
      OBVIOUS
    <3>2. PICK new : new = [row EXCEPT !.sessions = Append(@, k.port)]
      OBVIOUS
    <3>3. SetRow(b, k.profile, new)
      BY <1>k, <1>5, <2>4, <3>1, <3>2 DEF ReplicateConnect
    <3>4. row \in GoodRows
      BY <3>1, SessionsTyped
    <3>5. new.followers = row.followers /\ new.messages = row.messages
      BY <3>2, <3>4 DEF GoodRows, RowType
    <3>6. /\ DOMAIN masterTable[b] \subseteq DOMAIN masterTable'[b]
          /\ \A v : Followers(b, v)' = Followers(b, v) /\ Messages(b, v)' = Messages(b, v)
      BY <1>3, <3>1, <3>3, <3>5, SetRowFields DEF Followers, Messages
    <3> QED BY <1>h, <2>2, <3>6 DEF ReadRow, Asks
  <2> QED BY <2>3, <2>4
<1>6. CASE ReplicateDisconnect(b)
  <2>2. k.type = "DISCONNECT"
    BY <1>k, <1>6 DEF ReplicateDisconnect, Receives, Datagram
  <2>3. k.profile \in DOMAIN masterTable[b]
    BY <1>4, <2>2
  <2>4. PICK row : row = masterTable[b][k.profile] /\ row = RowOf(b, k.profile)
    BY <2>3 DEF RowOf
  <2>5. PICK new : new = [row EXCEPT !.sessions = RemoveFirst(@, k.port)]
    OBVIOUS
  <2>6. SetRow(b, k.profile, new)
    BY <1>k, <1>6, <2>3, <2>4, <2>5 DEF ReplicateDisconnect, NoRow
  <2>7. row \in GoodRows
    BY <2>4, SessionsTyped
  <2>8. new.followers = row.followers /\ new.messages = row.messages
    BY <2>5, <2>7 DEF GoodRows, RowType
  <2>9. /\ DOMAIN masterTable[b] \subseteq DOMAIN masterTable'[b]
        /\ \A v : Followers(b, v)' = Followers(b, v) /\ Messages(b, v)' = Messages(b, v)
    BY <1>3, <2>4, <2>6, <2>8, SetRowFields DEF Followers, Messages
  <2> QED BY <1>h, <2>2, <2>9 DEF ReadRow, Asks
<1>7. CASE ReplicateFollow(b)
  <2>2. k.type = "FOLLOW"
    BY <1>k, <1>7 DEF ReplicateFollow, Receives, Datagram
  <2>3. k.profile \in DOMAIN masterTable[b]
    BY <1>4, <2>2
  <2>4. CASE ~(k.follow \in DOMAIN masterTable[b] /\ k.follow # k.profile)
    <3>1. masterTable' = masterTable
      BY <1>k, <1>7, <2>3, <2>4 DEF ReplicateFollow, NoRow
    <3> QED BY <1>h, <2>2, <2>4, <3>1 DEF ReadRow, Asks, Followers, Messages, RowOf
  <2>5. CASE k.follow \in DOMAIN masterTable[b] /\ k.follow # k.profile
    <3>1. PICK row : row = masterTable[b][k.follow]
      OBVIOUS
    <3>2. row = RowOf(b, k.follow) /\ row \in GoodRows
      BY <2>5, <3>1, SessionsTyped DEF RowOf
    <3>3. PICK new : new = [row EXCEPT !.followers = @ \cup {k.profile}]
      OBVIOUS
    <3>4. SetRow(b, k.follow, new)
      BY <1>k, <1>7, <2>3, <2>5, <3>1, <3>3 DEF ReplicateFollow, NoRow
    <3>5. new.followers = row.followers \cup {k.profile} /\ new.messages = row.messages
      BY <3>2, <3>3 DEF GoodRows, RowType
    <3>6. /\ DOMAIN masterTable[b] \subseteq DOMAIN masterTable'[b]
          /\ \A v : /\ Followers(b, v)' = IF v = k.follow THEN Followers(b, v) \cup {k.profile} ELSE Followers(b, v)
                    /\ Messages(b, v)' = Messages(b, v)
      <4>1. Followers(b, k.follow) = row.followers /\ Messages(b, k.follow) = row.messages
        BY <3>2 DEF Followers, Messages
      <4>2. /\ DOMAIN masterTable[b] \subseteq DOMAIN masterTable'[b]
            /\ \A v : /\ Followers(b, v)' = IF v = k.follow THEN new.followers ELSE Followers(b, v)
                      /\ Messages(b, v)' = IF v = k.follow THEN new.messages ELSE Messages(b, v)
        BY <1>3, <3>4, SetRowFields
      <4> QED BY <3>5, <4>1, <4>2
    <3> QED BY <1>h, <2>2, <2>5, <3>6 DEF ReadRow, Asks
  <2> QED BY <2>4, <2>5
<1>8. CASE ReplicateSend(b)
  <2>2. k.type = "SEND"
    BY <1>k, <1>8 DEF ReplicateSend, Receives, Datagram
  <2>3. k.profile \in DOMAIN masterTable[b]
    BY <1>4, <2>2
  <2>4. PICK to : /\ to = {v \in masterTable[b][k.profile].followers \cap DOMAIN masterTable[b] :
                             Offline(b, v)}
                  /\ masterTable' = [masterTable EXCEPT ![b] = Post(@, k.message, to)]
    BY <1>k, <1>8, <2>3 DEF ReplicateSend, NoRow, Dies
  <2>5. PICK t : t = Post(masterTable[b], k.message, to)
    OBVIOUS
  <2>6. masterTable'[b] = t
    BY <1>3, <2>4, <2>5
  <2>7. \A v \in DOMAIN masterTable[b] : masterTable[b][v] \in RowType
    BY <1>3 DEF IsTable, GoodRows
  <2>8. /\ DOMAIN t = DOMAIN masterTable[b]
        /\ \A v \in DOMAIN masterTable[b] :
             /\ t[v].followers = masterTable[b][v].followers
             /\ t[v].messages = IF v \in to THEN masterTable[b][v].messages \cup {k.message}
                                ELSE masterTable[b][v].messages
    BY <2>5, <2>7 DEF Post, RowType
  <2>9. /\ DOMAIN masterTable[b] \subseteq DOMAIN masterTable'[b]
        /\ \A v : Followers(b, v)' = Followers(b, v) /\ Messages(b, v) \subseteq Messages(b, v)'
    BY <2>6, <2>8 DEF Followers, Messages, RowOf
  <2>10. \A v \in Followers(b, k.profile) \cap DOMAIN masterTable[b] :
           Sessions(b, v) = <<>> => k.message \in Messages(b, v)'
    <3> SUFFICES ASSUME NEW v \in Followers(b, k.profile) \cap DOMAIN masterTable[b], Sessions(b, v) = <<>>
                 PROVE  k.message \in Messages(b, v)'
      OBVIOUS
    <3>1. v \in masterTable[b][k.profile].followers /\ v \in DOMAIN masterTable[b]
      BY <2>3, NobodyFollowsNew
    <3>2. Offline(b, v)
      BY <3>1, SessionsHere DEF Offline
    <3>3. v \in to
      BY <2>4, <3>1, <3>2
    <3> QED BY <2>6, <2>8, <3>1, <3>3 DEF Messages, RowOf
  <2> QED BY <1>h, <2>2, <2>9, <2>10 DEF ReadRow, Asks
<1> QED BY <1>5, <1>6, <1>7, <1>8 DEF BackupStep

\* What it will have when it has read the rest is what it would have had.
LEMMA ReadFollows ==
  ASSUME TypeInv, NEW b \in Servers, NEW k, ReadRow(b, k), NEW v \in DOMAIN masterTable[b], NEW w
  PROVE  WillFollow(b, v, w)' <=> WillFollow(b, v, w)
<1>1. PICK q \in Seq(DatagramType) : q = inbox[b] /\ q # <<>> /\ k = q[1] /\ inbox'[b] = Tail(q)
  BY DEF ReadRow, TypeInv, StaticTypes
<1>a. PICK n, r : IsTail(DatagramType, q, n, r)
  BY <1>1, TailIs
<1>2. /\ n \in Nat /\ DOMAIN q = 1 .. n + 1 /\ r = Tail(q) /\ DOMAIN r = 1 .. n
      /\ \A i \in 1 .. n : r[i] = q[i + 1]
  BY <1>a DEF IsTail
<1>3. Asked(b, v, w) <=> Asks(k, v, w) \/ \E i \in 1 .. n : Asks(r[i], v, w)
  <2>1. ASSUME NEW i \in 1 .. n + 1, Asks(q[i], v, w), i # 1 PROVE \E j \in 1 .. n : Asks(r[j], v, w)
    <3>1. i - 1 \in 1 .. n /\ r[i - 1] = q[i]
      BY <1>2, <2>1
    <3> QED BY <2>1, <3>1
  <2>2. ASSUME NEW j \in 1 .. n, Asks(r[j], v, w) PROVE \E i \in 1 .. n + 1 : Asks(q[i], v, w)
    <3>1. j + 1 \in 1 .. n + 1 /\ r[j] = q[j + 1]
      BY <1>2
    <3> QED BY <2>2, <3>1
  <2>3. 1 \in 1 .. n + 1
    BY <1>2
  <2> QED BY <1>1, <1>2, <2>1, <2>2, <2>3 DEF Asked
<1>4. Asked(b, v, w)' <=> \E i \in 1 .. n : Asks(r[i], v, w)
  BY <1>1, <1>2 DEF Asked
<1>5. Asks(k, v, w) => k.profile = w
  BY DEF Asks
<1>6. w \in Followers(b, v)' <=> w \in Followers(b, v) \/ Asks(k, v, w)
  BY <1>5 DEF ReadRow, Asks
<1> QED BY <1>3, <1>4, <1>6 DEF WillFollow

-----------------------------------------------------------------------------
(* The steps that ask nobody to follow anybody.                             *)
AsksNobody(t) == t.toTell = <<>> \/ t.datagram.type # "FOLLOW"

LEMMA NoAsking ==
  ASSUME \A p \in Ports : thread'[p] = thread[p] \/ (AsksNobody(thread[p]) /\ AsksNobody(thread'[p]))
  PROVE  \A s, v, w : ToAsk(s, v, w)' <=> ToAsk(s, v, w)
<1>1. \A t : AsksNobody(t) => \A s, v, w : ~(s \in ToSet(t.toTell) /\ Asks(t.datagram, v, w))
  BY NewThreadIs DEF AsksNobody, Asks
<1> QED BY <1>1 DEF ToAsk

LEMMA FollowTurns ==
  ASSUME Sound, FollowSound, primary # Nobody, UNCHANGED <<primary, upToDate, inbox>>,
         \A s \in upToDate \ {primary} : masterTable'[s] = masterTable[s],
         DOMAIN masterTable[primary] \subseteq DOMAIN masterTable'[primary],
         \A v \in Profiles : Followers(primary, v)' = Followers(primary, v),
         \A p \in Ports : thread'[p] = thread[p] \/ (AsksNobody(thread[p]) /\ AsksNobody(thread'[p]))
  PROVE  FollowSound'
<1>1. PICK here \in Servers : here = primary /\ primary' = here /\ here \in upToDate
  BY SomebodyServes
<1>2. \A s \in upToDate : DOMAIN masterTable[s] \subseteq DOMAIN masterTable'[s]
  BY <1>1
<1>3. \A s, v, w : ToAsk(s, v, w)' <=> ToAsk(s, v, w)
  BY NoAsking
<1>4. \A s \in upToDate \ {here} : \A v, w : WillFollow(s, v, w)' <=> WillFollow(s, v, w)
  BY <1>1 DEF WillFollow, Asked, Followers, RowOf
<1>5. \A v \in Known : Followers(here, v)' = Followers(here, v)
  BY <1>1 DEF Known
<1>6. KnowsAll'
  <2>1. \A s \in upToDate \ {here} : \A u : Hears(s, u)' <=> Hears(s, u)
    BY <1>1 DEF Hears
  <2>2. inbox[here] = inbox'[here]
    BY <1>1
  <2>3. \A u : Hears(here, u)' => Hears(here, u) \/ u \in DOMAIN masterTable'[here]
    BY <1>1, <2>2 DEF Hears
  <2>4. KnowsAll
    BY <1>1 DEF FollowSound
  <2> QED BY <1>1, <1>2, <2>1, <2>3, <2>4 DEF KnowsAll
<1>7. \A s \in upToDate \ {here} : \A v \in Known, w \in Profiles :
        w \in Followers(here, v) <=> WillFollow(s, v, w) \/ ToAsk(s, v, w)
  BY <1>1 DEF FollowSound
<1>8. \A s \in upToDate' : Known \subseteq DOMAIN masterTable'[s]
  BY <1>1, <1>2 DEF FollowSound
<1>9. \A s \in upToDate \ {here} : \A v \in Known, w \in Profiles :
        w \in Followers(here, v)' <=> WillFollow(s, v, w)' \/ ToAsk(s, v, w)'
  BY <1>3, <1>4, <1>5, <1>7
<1> QED BY <1>1, <1>6, <1>8, <1>9 DEF FollowSound, Known

\* The primary sets a row with the same followers.
LEMMA FollowersStay ==
  ASSUME TypeInv, primary \in Servers, NEW u, NEW row, SetRow(primary, u, row),
         row.followers = Followers(primary, u)
  PROVE  /\ \A s \in Servers \ {primary} : masterTable'[s] = masterTable[s]
         /\ DOMAIN masterTable[primary] \subseteq DOMAIN masterTable'[primary]
         /\ UNCHANGED primary => \A v : Followers(primary, v)' = Followers(primary, v)
<1>1. DOMAIN masterTable = Servers
  BY DEF TypeInv, Tables
<1>2. PICK here \in Servers : here = primary
  OBVIOUS
<1>3. /\ DOMAIN masterTable[here] \subseteq DOMAIN masterTable'[here]
      /\ \A v : Followers(here, v)' = IF v = u THEN row.followers ELSE Followers(here, v)
      /\ \A t \in Servers \ {here} : masterTable'[t] = masterTable[t]
  BY <1>1, <1>2, SetRowFields
<1> QED BY <1>2, <1>3

LEMMA ReceiveConnectFollows ==
  ASSUME TypeInv, Sound, FollowSound, NEW u \in Profiles, ReceiveConnect(u)
  PROVE  FollowSound'
<1>1. PICK row : row = RowOf(primary, u)
  OBVIOUS
<1>2. /\ primary # Nobody /\ SetRow(primary, u, row)
      /\ UNCHANGED <<primary, upToDate, inbox, thread>>
  BY <1>1 DEF ReceiveConnect, Serving, roles, net
<1>3. primary \in Servers /\ upToDate \subseteq Servers
  BY <1>2, SomebodyServes DEF Sound, Roles
<1>4. row.followers = Followers(primary, u)
  BY <1>1 DEF Followers
<1> QED BY <1>2, <1>3, <1>4, FollowersStay, FollowTurns

\* The loop has no table, no inbox and no thread change.
LEMMA LoopFollows ==
  ASSUME TypeInv, Sound, FollowSound,
         BecomePrimary \/ EnterPrimaryLoop \/ \E u \in Profiles : ReopenUser(u)
  PROVE  FollowSound'
<1>1. /\ primary # Nobody
      /\ UNCHANGED <<primary, upToDate, inbox, masterTable, thread>>
  BY SomebodyServes DEF BecomePrimary, Serving, EnterPrimaryLoop, ReopenUser, roles, net, history
<1>2. \A v \in Profiles : Followers(primary, v)' = Followers(primary, v)
  BY <1>1 DEF Followers, RowOf
<1> QED BY <1>1, <1>2, FollowTurns

LEMMA StartSessionFollows ==
  ASSUME TypeInv, Sound, FollowSound, StartSession, upToDate' # {}
  PROVE  FollowSound'
<1>p. PICK p, u : p = nextClientPort[primary] /\ u = loop.profile
  OBVIOUS
<1>1. PICK row : row = [Table[u] EXCEPT !.sessions = Append(@, p)]
  OBVIOUS
<1>2. /\ primary # Nobody /\ ~Taken(p) /\ SetRow(primary, u, row) /\ loop.pc = "tell"
      /\ thread' = [thread EXCEPT ![p] = NewThread(u)]
      /\ UNCHANGED <<primary, upToDate, inbox>>
  BY <1>p, <1>1, SomebodyServes DEF StartSession, roles, net, counts
<1>3. primary \in Servers /\ upToDate \subseteq Servers
  BY <1>2, SomebodyServes DEF Sound, Roles
<1>4. u \in DOMAIN masterTable[primary] /\ thread \in [Ports -> ThreadType] /\ p \in Ports
  BY <1>p, <1>2 DEF TypeInv, LoopTyped, Threads, Table
<1>5. Table[u] = masterTable[primary][u] /\ Table[u] \in GoodRows
  BY <1>3, <1>4 DEF Table, TypeInv, Tables, IsTable
<1>6. row.followers = Followers(primary, u)
  BY <1>1, <1>4, <1>5, NobodyFollowsNew DEF GoodRows, RowType
<1>7. thread[p].toTell = <<>>
  <2>1. thread[p].pc = "none"
    BY <1>2 DEF Taken
  <2> QED BY <1>4, <2>1 DEF TypeInv, Threads, ThreadTyped
<1>8. \A q \in Ports : thread'[q] = thread[q] \/ (AsksNobody(thread[q]) /\ AsksNobody(thread'[q]))
  BY <1>2, <1>4, <1>7, NewThreadIs DEF AsksNobody
<1> QED BY <1>2, <1>3, <1>6, <1>8, FollowersStay, FollowTurns

LEMMA ReopenSessionFollows ==
  ASSUME TypeInv, Sound, FollowSound, ReopenSession
  PROVE  FollowSound'
<1>p. PICK p, u : p = Head(loop.toOpen) /\ u = loop.profile
  OBVIOUS
<1>1. PICK row : row = [Table[u] EXCEPT !.sessions = Append(RemoveFirst(@, p), p)]
  OBVIOUS
<1>2. /\ primary # Nobody /\ ~Taken(p) /\ SetRow(primary, u, row) /\ loop.pc = "reopen" /\ loop.toOpen # <<>>
      /\ thread' = [thread EXCEPT ![p] = NewThread(u)]
      /\ UNCHANGED <<primary, upToDate, inbox>>
  BY <1>p, <1>1, SomebodyServes DEF ReopenSession, roles, net, counts, history
<1>3. primary \in Servers /\ upToDate \subseteq Servers
  BY <1>2, SomebodyServes DEF Sound, Roles
<1>4. u \in DOMAIN masterTable[primary] /\ thread \in [Ports -> ThreadType] /\ p \in Ports
  <2>1. u \in DOMAIN masterTable[primary] /\ thread \in [Ports -> ThreadType] /\ loop \in LoopType
    BY <1>p, <1>2 DEF TypeInv, LoopTyped, Threads, Table
  <2>2. loop.toOpen \in Seq(Ports)
    BY <2>1 DEF LoopType
  <2> QED BY <1>p, <1>2, <2>1, <2>2
<1>5. Table[u] = masterTable[primary][u] /\ Table[u] \in GoodRows
  BY <1>3, <1>4 DEF Table, TypeInv, Tables, IsTable
<1>6. row.followers = Followers(primary, u)
  BY <1>1, <1>4, <1>5, NobodyFollowsNew DEF GoodRows, RowType
<1>7. thread[p].toTell = <<>>
  <2>1. thread[p].pc = "none"
    BY <1>2 DEF Taken
  <2> QED BY <1>4, <2>1 DEF TypeInv, Threads, ThreadTyped
<1>8. \A q \in Ports : thread'[q] = thread[q] \/ (AsksNobody(thread[q]) /\ AsksNobody(thread'[q]))
  BY <1>2, <1>4, <1>7, NewThreadIs DEF AsksNobody
<1> QED BY <1>2, <1>3, <1>6, <1>8, FollowersStay, FollowTurns

\* The steps of a thread that sets a field of its row other than the followers.
LEMMA OwnRowFollows ==
  ASSUME TypeInv, Sound, FollowSound, NEW p \in Ports, thread[p].pc # "none", NEW row, NEW u,
         u = thread[p].profile, SetRow(primary, u, row), row.followers = Table[u].followers,
         UNCHANGED <<primary, upToDate, inbox>>,
         \A q \in Ports : thread'[q] = thread[q] \/ (AsksNobody(thread[q]) /\ AsksNobody(thread'[q]))
  PROVE  FollowSound'
<1>1. primary # Nobody /\ primary \in Servers /\ upToDate \subseteq Servers /\ u \in DOMAIN masterTable[primary]
  BY Running DEF Sound, Roles
<1>2. row.followers = Followers(primary, u)
  BY <1>1, NobodyFollowsNew DEF Table
<1> QED BY <1>1, <1>2, FollowersStay, FollowTurns

LEMMA CloseSessionFollows ==
  ASSUME TypeInv, Sound, FollowSound, NEW p \in Ports, CloseSession(p)
  PROVE  FollowSound'
<1>p. PICK u : u = thread[p].profile
  OBVIOUS
<1>1. PICK row : row = [Table[u] EXCEPT !.sessions = RemoveFirst(@, p)]
  OBVIOUS
<1>2. /\ thread[p].pc = "exit" /\ thread[p].toTell = <<>> /\ SetRow(primary, u, row)
      /\ thread' = [thread EXCEPT ![p] = NoThread]
      /\ UNCHANGED <<primary, upToDate, inbox>>
  BY <1>p, <1>1 DEF CloseSession, roles, net, history
<1>3. Table[u] \in GoodRows /\ thread \in [Ports -> ThreadType]
  BY <1>p, <1>2, RunningTypes DEF TypeInv, Threads
<1>4. row.followers = Table[u].followers
  BY <1>1, <1>3 DEF GoodRows, RowType
<1>5. NoThread.toTell = <<>>
  BY DEF NoThread
<1>6. \A q \in Ports : thread'[q] = thread[q] \/ (AsksNobody(thread[q]) /\ AsksNobody(thread'[q]))
  BY <1>2, <1>3, <1>5 DEF AsksNobody
<1> QED BY <1>p, <1>2, <1>4, <1>6, OwnRowFollows

LEMMA ShowFollows ==
  ASSUME TypeInv, Sound, FollowSound, NEW p \in Ports, NEW message, Show(p, message)
  PROVE  FollowSound'
<1>p. PICK u : u = thread[p].profile
  OBVIOUS
<1>1. PICK row : row = [Table[u] EXCEPT !.messages = @ \ {message}]
  OBVIOUS
<1>2. /\ thread[p].pc = "run" /\ SetRow(primary, u, row)
      /\ UNCHANGED <<primary, upToDate, inbox, thread>>
  BY <1>p, <1>1 DEF Show, roles, net, history
<1>3. Table[u] \in GoodRows
  BY <1>p, <1>2, RunningTypes
<1>4. row.followers = Table[u].followers
  BY <1>1, <1>3 DEF GoodRows, RowType
<1> QED BY <1>p, <1>2, <1>4, OwnRowFollows

\* A thread that runs has nothing to tell, and sets out to tell one thing.
LEMMA Sets ==
  ASSUME TypeInv, Sess, primary # Nobody, NEW p \in Ports, thread[p].pc = "run", NEW pc \in {"tell", "exit"}, NEW d,
         Tell(p, pc, d)
  PROVE  /\ thread[p].toTell = <<>>
         /\ \A q \in Ports \ {p} : thread'[q] = thread[q]
         /\ thread'[p].toTell = backupServers
         /\ thread'[p].toTell # <<>> => thread'[p].datagram = d
         /\ thread'[p].profile = thread[p].profile /\ thread'[p].pc # "none"
<1>1. Say
  BY Leads
<1>2. thread \in [Ports -> ThreadType] /\ thread[p] \in ThreadType
  BY DEF TypeInv, Threads
<1>3. thread[p].toTell = <<>>
  BY <1>1 DEF Say
<1>4. CASE backupServers = <<>> /\ pc = "tell"
  <2>1. thread' = [thread EXCEPT ![p] = thread[p]]
    BY <1>4 DEF Tell
  <2> QED BY <1>2, <1>3, <1>4, <2>1
<1>5. CASE ~(backupServers = <<>> /\ pc = "tell")
  <2>1. PICK new : new = [thread[p] EXCEPT !.pc = pc, !.datagram = d, !.toTell = backupServers]
    OBVIOUS
  <2>2. new.toTell = backupServers /\ new.datagram = d /\ new.profile = thread[p].profile /\ new.pc = pc
    BY <1>2, <2>1 DEF ThreadType
  <2>3. thread' = [thread EXCEPT ![p] = new]
    BY <1>5, <2>1 DEF Tell
  <2> QED BY <1>2, <1>3, <2>2, <2>3
<1> QED BY <1>4, <1>5

LEMMA ExitFollows ==
  ASSUME TypeInv, Sound, Sess, FollowSound, NEW p \in Ports, Exit(p)
  PROVE  FollowSound'
<1>d. PICK d : d = [type |-> "DISCONNECT", profile |-> thread[p].profile, port |-> p]
  OBVIOUS
<1>1. /\ thread[p].pc = "run" /\ Tell(p, "exit", d)
      /\ UNCHANGED <<primary, upToDate, inbox, masterTable>>
  BY <1>d DEF Exit, roles, net, history
<1>2. primary # Nobody
  BY <1>1, SomebodyServes
<1>3. /\ thread[p].toTell = <<>>
      /\ \A q \in Ports \ {p} : thread'[q] = thread[q]
      /\ thread'[p].toTell # <<>> => thread'[p].datagram = d
  BY <1>1, <1>2, Sets
<1>4. d.type # "FOLLOW"
  BY <1>d
<1>5. \A q \in Ports : thread'[q] = thread[q] \/ (AsksNobody(thread[q]) /\ AsksNobody(thread'[q]))
  BY <1>3, <1>4 DEF AsksNobody
<1>6. \A v \in Profiles : Followers(primary, v)' = Followers(primary, v)
  BY <1>1 DEF Followers, RowOf
<1> QED BY <1>1, <1>2, <1>5, <1>6, FollowTurns

\* What Post does to a row.
LEMMA Posted ==
  ASSUME TypeInv, NEW here \in Servers, NEW m, NEW to, masterTable' = [masterTable EXCEPT ![here] = Post(@, m, to)]
  PROVE  /\ DOMAIN masterTable'[here] = DOMAIN masterTable[here]
         /\ \A v : /\ Followers(here, v)' = Followers(here, v) /\ Sessions(here, v)' = Sessions(here, v)
                   /\ Messages(here, v) \subseteq Messages(here, v)'
                   /\ v \in to \cap DOMAIN masterTable[here] => m \in Messages(here, v)'
         /\ \A s \in Servers \ {here} : masterTable'[s] = masterTable[s]
<1>1. DOMAIN masterTable = Servers /\ \A v \in DOMAIN masterTable[here] : masterTable[here][v] \in RowType
  BY DEF TypeInv, Tables, IsTable, GoodRows
<1>2. PICK t : t = Post(masterTable[here], m, to)
  OBVIOUS
<1>3. masterTable'[here] = t /\ \A s \in Servers \ {here} : masterTable'[s] = masterTable[s]
  BY <1>1, <1>2
<1>4. /\ DOMAIN t = DOMAIN masterTable[here]
      /\ \A v \in DOMAIN masterTable[here] :
           /\ t[v].followers = masterTable[here][v].followers
           /\ t[v].sessions = masterTable[here][v].sessions
           /\ t[v].messages = IF v \in to THEN masterTable[here][v].messages \cup {m}
                              ELSE masterTable[here][v].messages
  BY <1>1, <1>2 DEF Post, RowType
<1>5. \A v \in DOMAIN masterTable[here] :
        /\ Followers(here, v) = masterTable[here][v].followers /\ Followers(here, v)' = t[v].followers
        /\ Messages(here, v) = masterTable[here][v].messages /\ Messages(here, v)' = t[v].messages
  BY <1>3, <1>4 DEF Followers, Messages, RowOf
<1>6. \A v : v \notin DOMAIN masterTable[here] =>
        Followers(here, v)' = Followers(here, v) /\ Messages(here, v)' = Messages(here, v)
  BY <1>3, <1>4 DEF Followers, Messages, RowOf
<1>7. \A v : Followers(here, v)' = Followers(here, v)
  BY <1>4, <1>5, <1>6
<1>8. \A v \in DOMAIN masterTable[here] :
        /\ Messages(here, v) \subseteq Messages(here, v)'
        /\ v \in to => m \in Messages(here, v)'
  <2> TAKE v \in DOMAIN masterTable[here]
  <2>1. t[v].messages = IF v \in to THEN masterTable[here][v].messages \cup {m}
                        ELSE masterTable[here][v].messages
    BY <1>4
  <2>2. Messages(here, v) = masterTable[here][v].messages /\ Messages(here, v)' = t[v].messages
    BY <1>5
  <2> QED BY <2>1, <2>2
<1>9. \A v : Messages(here, v) \subseteq Messages(here, v)'
  BY <1>6, <1>8
<1>10. \A v : v \in to \cap DOMAIN masterTable[here] => m \in Messages(here, v)'
  BY <1>8
<1>11. DOMAIN masterTable'[here] = DOMAIN masterTable[here]
  BY <1>3, <1>4
<1>12. \A v : Sessions(here, v)' = Sessions(here, v)
  BY <1>3, <1>4, SameRows
<1> QED BY <1>3, <1>7, <1>9, <1>10, <1>11, <1>12

LEMMA SendFollows ==
  ASSUME TypeInv, Sound, Sess, FollowSound, NEW p \in Ports, Send(p)
  PROVE  FollowSound'
<1>m. PICK m : m = [from |-> thread[p].profile, id |-> sends + 1]
  OBVIOUS
<1>d. PICK d : d = [type |-> "SEND", profile |-> thread[p].profile, message |-> m]
  OBVIOUS
<1>t. PICK to : to = Table[thread[p].profile].followers \cap DOMAIN Table
  OBVIOUS
<1>1. /\ thread[p].pc = "run" /\ Tell(p, "tell", d)
      /\ masterTable' = [masterTable EXCEPT ![primary] = Post(@, m, to)]
      /\ UNCHANGED <<primary, upToDate, inbox>>
  BY <1>m, <1>d, <1>t DEF Send, roles, net
<1>2. primary # Nobody /\ primary \in Servers /\ upToDate \subseteq Servers
  BY <1>1, SomebodyServes DEF Sound, Roles
<1>3. /\ thread[p].toTell = <<>>
      /\ \A q \in Ports \ {p} : thread'[q] = thread[q]
      /\ thread'[p].toTell # <<>> => thread'[p].datagram = d
  BY <1>1, <1>2, Sets
<1>4. d.type # "FOLLOW"
  BY <1>d
<1>5. \A q \in Ports : thread'[q] = thread[q] \/ (AsksNobody(thread[q]) /\ AsksNobody(thread'[q]))
  BY <1>3, <1>4 DEF AsksNobody
<1>6. PICK here \in Servers : here = primary /\ primary' = here
  BY <1>1, <1>2
<1>7. /\ DOMAIN masterTable'[here] = DOMAIN masterTable[here]
      /\ \A v : Followers(here, v)' = Followers(here, v)
      /\ \A s \in Servers \ {here} : masterTable'[s] = masterTable[s]
  BY <1>1, <1>6, Posted
<1> QED BY <1>1, <1>2, <1>5, <1>6, <1>7, FollowTurns

LEMMA JoinFollows ==
  ASSUME TypeInv, Sound, FollowSound, NEW b \in Servers, Join(b)
  PROVE  FollowSound'
<1>1. /\ primary # Nobody /\ b \notin alive
      /\ UNCHANGED <<primary, upToDate, inbox, thread>>
      /\ \E t : masterTable' = [masterTable EXCEPT ![b] = t]
  BY DEF Join, Serving, history
<1>2. upToDate \subseteq alive /\ primary \in upToDate /\ upToDate \subseteq Servers
  BY <1>1, SomebodyServes DEF Sound, Roles
<1>3. \A s \in upToDate : masterTable'[s] = masterTable[s]
  BY <1>1, <1>2 DEF TypeInv, Tables
<1>4. \A v \in Profiles : Followers(primary, v)' = Followers(primary, v)
  BY <1>1, <1>2, <1>3 DEF Followers, RowOf
<1> QED BY <1>1, <1>2, <1>3, <1>4, FollowTurns

-----------------------------------------------------------------------------
(* The steps that may ask a backup to make a follower.                      *)

LEMMA SendToFollows ==
  ASSUME TypeInv, NEW c \in Servers, NEW d \in DatagramType, SendTo(c, d), UNCHANGED masterTable
  PROVE  /\ \A s \in Servers \ {c} : \A v, w : WillFollow(s, v, w)' <=> WillFollow(s, v, w)
         /\ c \in alive => \A v, w : WillFollow(c, v, w)' <=> WillFollow(c, v, w) \/ Asks(d, v, w)
<1>1. inbox \in [Servers -> Seq(DatagramType)]
  BY DEF TypeInv, StaticTypes
<1>2. \A s \in Servers \ {c} : inbox'[s] = inbox[s]
  BY <1>1 DEF SendTo
<1>3. \A s, v, w : w \in Followers(s, v)' <=> w \in Followers(s, v)
  BY DEF Followers, RowOf
<1>4. \A s \in Servers \ {c} : \A v, w : WillFollow(s, v, w)' <=> WillFollow(s, v, w)
  BY <1>2, <1>3 DEF WillFollow, Asked
<1>5. ASSUME c \in alive, NEW v, NEW w
      PROVE  WillFollow(c, v, w)' <=> WillFollow(c, v, w) \/ Asks(d, v, w)
  <2>1. PICK q \in Seq(DatagramType) : q = inbox[c] /\ inbox'[c] = Append(q, d)
    BY <1>1, <1>5 DEF SendTo
  <2>a. PICK n, r : IsAppend(DatagramType, q, d, n, r)
    BY AppendIs
  <2>2. /\ n \in Nat /\ DOMAIN q = 1 .. n /\ inbox'[c] = r /\ DOMAIN r = 1 .. n + 1 /\ r[n + 1] = d
        /\ \A i \in 1 .. n : r[i] = q[i]
    BY <2>1, <2>a DEF IsAppend
  <2>3. Asked(c, v, w) <=> \E i \in 1 .. n : Asks(q[i], v, w)
    BY <2>1, <2>2 DEF Asked
  <2>4. Asked(c, v, w)' <=> \E i \in 1 .. n + 1 : Asks(r[i], v, w)
    BY <2>2 DEF Asked
  <2>5. (\E i \in 1 .. n + 1 : Asks(r[i], v, w)) <=> (\E i \in 1 .. n : Asks(q[i], v, w)) \/ Asks(d, v, w)
    <3>1. \A i \in 1 .. n + 1 : i \in 1 .. n \/ i = n + 1
      BY <2>2
    <3>2. \A i \in 1 .. n : i \in 1 .. n + 1
      BY <2>2
    <3>3. n + 1 \in 1 .. n + 1
      BY <2>2
    <3> QED BY <2>2, <3>1, <3>2, <3>3
  <2> QED BY <1>3, <2>3, <2>4, <2>5 DEF WillFollow
<1> QED BY <1>4, <1>5

LEMMA TellConnectFollows ==
  ASSUME TypeInv, Sound, FollowSound, TellConnect
  PROVE  FollowSound'
<1>p. /\ primary # Nobody /\ primary \in Servers /\ primary \in upToDate /\ loop.toTell # <<>>
  <2>1. loop.toTell # <<>>
    BY DEF TellConnect
  <2> QED BY <2>1, SomebodyServes
<1>i. PICK here \in upToDate : here = primary
  BY <1>p
<1>h. PICK u, port : here = primary /\ u = loop.profile /\ port = nextClientPort[here]
  BY <1>i
<1>d. PICK d : d = [type |-> "CONNECT", profile |-> u, port |-> port]
  OBVIOUS
<1>c. PICK c : c = Head(loop.toTell)
  OBVIOUS
<1>1. /\ SendTo(c, d) /\ UNCHANGED <<primary, masterTable, thread, upToDate>>
  BY <1>h, <1>d, <1>c DEF TellConnect, roles, counts, history
<1>2. /\ u \in DOMAIN masterTable[here] /\ port \in Ports /\ u \in Profiles
  <2>1. /\ u \in DOMAIN Table /\ port \in Ports
    BY <1>p, <1>h DEF TypeInv, LoopTyped
  <2> QED BY <1>p, <1>h, <2>1, Server DEF Table, IsTable
<1>3. /\ c \in Servers /\ upToDate \subseteq alive /\ upToDate \subseteq Servers
  <2>1. loop.toTell \in Seq(Servers)
    BY DEF TypeInv, LoopTyped, LoopType
  <2> QED BY <1>p, <1>c, <2>1, HeadOrTail DEF Sound, Roles
<1>4. d \in DatagramType /\ d.type = "CONNECT" /\ d.profile = u
  BY <1>d, <1>2 DEF DatagramType
<1>5. d \in WeakDatagram
  <2>1. port \in Nat
    BY <1>h, <1>p DEF TypeInv, StaticTypes
  <2> QED BY <1>d, <1>2, <2>1 DEF WeakDatagram
<1>6. \A s \in upToDate : \A v, w : WillFollow(s, v, w)' <=> WillFollow(s, v, w)
  <2>1. d.type # "FOLLOW"
    BY <1>4
  <2> QED BY <1>1, <1>3, <1>4, <2>1, SendToFollows DEF Asks
<1>7. KnowsAll'
  <2>1. \A s \in upToDate : \A v : Hears(s, v)' <=> Hears(s, v) \/ (s = c /\ d.type = "CONNECT" /\ d.profile = v)
    BY <1>p, <1>1, <1>3, <1>4, <1>5, Sending
  <2>2. KnowsAll
    BY <1>p DEF FollowSound
  <2> QED BY <1>h, <1>1, <1>2, <1>4, <2>1, <2>2 DEF KnowsAll
<1>8. \A s, v, w : ToAsk(s, v, w)' <=> ToAsk(s, v, w)
  BY <1>1 DEF ToAsk
<1>9. \A v : Followers(here, v)' = Followers(here, v)
  BY <1>1 DEF Followers, RowOf
<1>10. /\ \A s \in upToDate : Known \subseteq DOMAIN masterTable[s]
       /\ \A s \in upToDate \ {here} : \A v \in Known, w \in Profiles :
            w \in Followers(here, v) <=> WillFollow(s, v, w) \/ ToAsk(s, v, w)
  BY <1>p, <1>h DEF FollowSound
<1>11. \A v \in Known : v \in Profiles
  BY DEF Known
<1>12. \A s \in upToDate \ {here} : \A v \in Known, w \in Profiles :
            w \in Followers(here, v)' <=> WillFollow(s, v, w)' \/ ToAsk(s, v, w)'
  BY <1>6, <1>8, <1>9, <1>10, <1>11
<1>13. primary' = here /\ primary' # Nobody
  BY <1>p, <1>h, <1>1
<1> QED BY <1>1, <1>7, <1>10, <1>12, <1>13 DEF FollowSound, Known

\* What Followed does to a table.
LEMMA FollowedRows ==
  ASSUME TypeInv, NEW here \in Servers, NEW u, NEW new,
         masterTable' = [masterTable EXCEPT ![here] = Followed(@, u, new)]
  PROVE  /\ DOMAIN masterTable'[here] = DOMAIN masterTable[here]
         /\ \A v \in DOMAIN masterTable[here] :
              Followers(here, v)' = IF v = new /\ new # u THEN Followers(here, v) \cup {u} ELSE Followers(here, v)
         /\ \A v : Messages(here, v) \subseteq Messages(here, v)' /\ Sessions(here, v)' = Sessions(here, v)
         /\ \A v : v \notin DOMAIN masterTable[here] => Followers(here, v)' = Followers(here, v)
         /\ \A s \in Servers \ {here} : masterTable'[s] = masterTable[s]
<1>1. DOMAIN masterTable = Servers /\ \A v \in DOMAIN masterTable[here] : masterTable[here][v] \in RowType
  BY DEF TypeInv, Tables, IsTable, GoodRows
<1>2. PICK t : t = Followed(masterTable[here], u, new)
  OBVIOUS
<1>3. masterTable'[here] = t /\ \A s \in Servers \ {here} : masterTable'[s] = masterTable[s]
  BY <1>1, <1>2
<1>4. DOMAIN t = DOMAIN masterTable[here]
  BY <1>2 DEF Followed
<1>5. ASSUME NEW v \in DOMAIN masterTable[here]
      PROVE  /\ t[v].followers = IF v = new /\ new # u THEN masterTable[here][v].followers \cup {u}
                                 ELSE masterTable[here][v].followers
             /\ masterTable[here][v].messages \subseteq t[v].messages
             /\ t[v].sessions = masterTable[here][v].sessions
  <2>1. PICK row \in RowType : row = masterTable[here][v]
    BY <1>1
  <2>2. t[v] = [row EXCEPT !.followers = IF v = new /\ new # u THEN @ \cup {u} ELSE @,
                           !.messages = IF v = u THEN @ \cup {Notice(u)} ELSE @]
    BY <1>2, <2>1 DEF Followed
  <2>3. /\ t[v].followers = IF v = new /\ new # u THEN row.followers \cup {u} ELSE row.followers
        /\ row.messages \subseteq t[v].messages /\ t[v].sessions = row.sessions
    BY <2>2 DEF RowType
  <2> QED BY <2>1, <2>3
<1>6. \A v \in DOMAIN masterTable[here] :
        /\ Followers(here, v) = masterTable[here][v].followers /\ Followers(here, v)' = t[v].followers
        /\ Messages(here, v) = masterTable[here][v].messages /\ Messages(here, v)' = t[v].messages
  BY <1>3, <1>4 DEF Followers, Messages, RowOf
<1>7. \A v : v \notin DOMAIN masterTable[here] =>
        Followers(here, v)' = Followers(here, v) /\ Messages(here, v)' = Messages(here, v)
  BY <1>3, <1>4 DEF Followers, Messages, RowOf
<1>8. \A v \in DOMAIN masterTable[here] :
        Followers(here, v)' = IF v = new /\ new # u THEN Followers(here, v) \cup {u} ELSE Followers(here, v)
  BY <1>5, <1>6
<1>9. \A v \in DOMAIN masterTable[here] : Messages(here, v) \subseteq Messages(here, v)'
  BY <1>5, <1>6
<1>10. \A v : Messages(here, v) \subseteq Messages(here, v)'
  BY <1>7, <1>9
<1>11. \A v : Sessions(here, v)' = Sessions(here, v)
  BY <1>3, <1>4, <1>5, SameRows
<1> QED BY <1>3, <1>4, <1>7, <1>8, <1>10, <1>11

LEMMA FollowFollows ==
  ASSUME TypeInv, Sound, Sess, FollowSound, NEW p \in Ports, NEW new \in Profiles, Follow(p, new)
  PROVE  FollowSound'
<1>u. PICK u : u = thread[p].profile
  OBVIOUS
<1>d. PICK d : d = [type |-> "FOLLOW", profile |-> u, follow |-> new]
  OBVIOUS
<1>1. /\ thread[p].pc = "run" /\ Tell(p, "tell", d)
      /\ masterTable' = [masterTable EXCEPT ![primary] = Followed(@, u, new)]
      /\ UNCHANGED <<primary, upToDate, inbox>>
  BY <1>u, <1>d DEF Follow, roles, net, history
<1>2. primary # Nobody /\ primary \in Servers /\ upToDate \subseteq Servers /\ primary \in upToDate
  BY <1>1, Running DEF Sound, Roles
<1>h. PICK here \in Servers : here = primary /\ primary' = here /\ here \in upToDate
  BY <1>1, <1>2
<1>3. /\ thread[p].toTell = <<>> /\ thread'[p].toTell = backupServers
      /\ \A q \in Ports \ {p} : thread'[q] = thread[q]
      /\ thread'[p].toTell # <<>> => thread'[p].datagram = d
  BY <1>1, <1>2, Sets
<1>4. d.type = "FOLLOW" /\ d.profile = u /\ d.follow = new
  BY <1>d
<1>5. \A v, w : Asks(d, v, w) <=> w = u /\ v = new /\ w # v
  BY <1>4 DEF Asks
<1>6. ASSUME NEW s \in upToDate \ {here}, NEW v, NEW w PROVE ToAsk(s, v, w)' <=> ToAsk(s, v, w) \/ Asks(d, v, w)
  <2>1. s \in ToSet(thread'[p].toTell)
    BY <1>h, <1>3, <1>6 DEF Sound, Enlisted
  <2>2. thread'[p].datagram = d
    BY <1>3, <2>1, NewThreadIs
  <2>3. s \notin ToSet(thread[p].toTell)
    BY <1>3, NewThreadIs
  <2>4. ToAsk(s, v, w) <=> \E q \in Ports \ {p} : s \in ToSet(thread[q].toTell) /\ Asks(thread[q].datagram, v, w)
    BY <2>3 DEF ToAsk
  <2>5. ToAsk(s, v, w)' <=> Asks(d, v, w) \/ \E q \in Ports \ {p} : s \in ToSet(thread[q].toTell) /\ Asks(thread[q].datagram, v, w)
    BY <1>3, <2>1, <2>2 DEF ToAsk
  <2> QED BY <2>4, <2>5
<1>7. /\ DOMAIN masterTable'[here] = DOMAIN masterTable[here]
      /\ \A v \in DOMAIN masterTable[here] :
           Followers(here, v)' = IF v = new /\ new # u THEN Followers(here, v) \cup {u} ELSE Followers(here, v)
      /\ \A s \in Servers \ {here} : masterTable'[s] = masterTable[s]
  <2>1. masterTable' = [masterTable EXCEPT ![here] = Followed(@, u, new)]
    BY <1>1, <1>h
  <2>2. /\ DOMAIN masterTable'[here] = DOMAIN masterTable[here]
        /\ \A v \in DOMAIN masterTable[here] :
              Followers(here, v)' = IF v = new /\ new # u THEN Followers(here, v) \cup {u} ELSE Followers(here, v)
        /\ \A v : Messages(here, v) \subseteq Messages(here, v)' /\ Sessions(here, v)' = Sessions(here, v)
        /\ \A v : v \notin DOMAIN masterTable[here] => Followers(here, v)' = Followers(here, v)
        /\ \A s \in Servers \ {here} : masterTable'[s] = masterTable[s]
    BY <2>1, FollowedRows, Zenon
  <2> QED BY <2>2
<1>8. /\ \A s \in upToDate : Known \subseteq DOMAIN masterTable[s]
      /\ \A s \in upToDate \ {here} : \A v \in Known, w \in Profiles :
            w \in Followers(here, v) <=> WillFollow(s, v, w) \/ ToAsk(s, v, w)
      /\ KnowsAll
  BY <1>2, <1>h DEF FollowSound
<1>9. \A s \in upToDate \ {here} : \A v, w : WillFollow(s, v, w)' <=> WillFollow(s, v, w)
  BY <1>1, <1>2, <1>7 DEF WillFollow, Asked, Followers, RowOf
<1>10. \A v \in Known : \A w : w \in Followers(here, v)' <=> w \in Followers(here, v) \/ Asks(d, v, w)
  BY <1>5, <1>7, <1>8, <1>h
<1>11. KnowsAll'
  <2>1. \A s \in upToDate \ {here} : \A v : Hears(s, v)' <=> Hears(s, v)
    BY <1>1, <1>2, <1>7 DEF Hears
  <2>2. \A v : Hears(here, v)' <=> Hears(here, v)
    BY <1>1, <1>7 DEF Hears
  <2> QED BY <1>1, <1>h, <1>7, <1>8, <2>1, <2>2 DEF KnowsAll
<1>12. \A s \in upToDate : Known \subseteq DOMAIN masterTable'[s]
  BY <1>2, <1>7, <1>8
<1>13. \A s \in upToDate \ {here} : \A v \in Known, w \in Profiles :
            w \in Followers(here, v)' <=> WillFollow(s, v, w)' \/ ToAsk(s, v, w)'
  BY <1>6, <1>8, <1>9, <1>10
<1> QED BY <1>1, <1>2, <1>h, <1>11, <1>12, <1>13 DEF FollowSound, Known

\* What a thread tells next, and whom it still has to tell.
TellsNext(p, c, d) ==
  /\ SendTo(c, d) /\ d \in DatagramType /\ d = thread[p].datagram
  /\ d.profile = thread[p].profile /\ thread[p].profile \in Profiles
  /\ c \in Servers /\ c \in ToSet(thread[p].toTell)
  /\ ToSet(thread'[p].toTell) = ToSet(thread[p].toTell) \ {c}
  /\ thread'[p].toTell # <<>> => thread'[p].datagram = d
  /\ thread'[p].pc # "none" /\ thread[p].pc # "none" /\ thread'[p].profile = thread[p].profile
  /\ \A q \in Ports \ {p} : thread'[q] = thread[q]
  /\ UNCHANGED <<primary, masterTable, upToDate>>

LEMMA TellsOne ==
  ASSUME TypeInv, Sound, Sess, NEW p \in Ports, TellNext(p)
  PROVE  \E c, d : TellsNext(p, c, d)
<1>u. PICK u, d, c : u = thread[p].profile /\ d = thread[p].datagram /\ c = Head(thread[p].toTell)
  OBVIOUS
<1>1. /\ thread[p].toTell # <<>> /\ SendTo(c, d) /\ UNCHANGED <<primary, masterTable, upToDate>>
  BY <1>u DEF TellNext, roles, counts, history
<1>p. /\ primary # Nobody /\ thread[p] \in ThreadType /\ thread \in [Ports -> ThreadType] /\ u \in Profiles
  BY <1>u, <1>1, SomebodyServes, RunningTypes DEF TypeInv, Threads
<1>2. Lists
  BY <1>p, Leads
<1>3. thread[p].toTell \in Seq(Servers) /\ IsInjective(thread[p].toTell)
  BY <1>p, <1>2 DEF Lists, ThreadType
<1>4. /\ c \in Servers /\ c \in ToSet(thread[p].toTell)
      /\ ToSet(Tail(thread[p].toTell)) = ToSet(thread[p].toTell) \ {c}
  BY <1>u, <1>1, <1>3, HeadOrTail, DistinctTail
<1>5. d \in DatagramType /\ thread[p].pc # "none"
  BY <1>u, <1>1 DEF TypeInv, Threads, ThreadTyped
<1>6. d.profile = u
  BY <1>u, <1>1 DEF Sound, ThreadSound
<1>7. PICK new : thread' = [thread EXCEPT ![p] = new] /\
        \/ Len(thread[p].toTell) = 1 /\ new = NewThread(u)
        \/ new = [thread[p] EXCEPT !.toTell = Tail(thread[p].toTell)]
  <2>1. thread' = [thread EXCEPT ![p] =
                  IF Len(@.toTell) = 1 /\ @.pc = "tell" THEN NewThread(@.profile)
                  ELSE [thread[p] EXCEPT !.toTell = Tail(@)]]
    BY DEF TellNext
  <2> QED BY <1>u, <2>1
<1>8. /\ new.profile = u /\ ToSet(new.toTell) = ToSet(thread[p].toTell) \ {c}
      /\ new.pc # "none"
      /\ new.toTell # <<>> => new.datagram = d
  <2>1. CASE Len(thread[p].toTell) = 1 /\ new = NewThread(u)
    <3>1. new.profile = u /\ new.pc = "run" /\ new.toTell = <<>>
      BY <2>1, NewThreadIs
    <3>2. ToSet(Tail(thread[p].toTell)) = {}
      <4>1. PICK q \in Seq(Servers) : q = thread[p].toTell /\ Len(q) = 1 /\ q # <<>>
        BY <1>1, <1>3, <2>1
      <4>2. PICK n, r : IsTail(Servers, q, n, r)
        BY <4>1, TailIs
      <4>3. r = Tail(q) /\ DOMAIN r = 1 .. 0
        BY <4>1, <4>2 DEF IsTail
      <4> QED BY <4>1, <4>3 DEF ToSet
    <3> QED BY <1>4, <3>1, <3>2, NewThreadIs
  <2>2. CASE new = [thread[p] EXCEPT !.toTell = Tail(thread[p].toTell)]
    <3>1. new.profile = u /\ new.pc = thread[p].pc /\ new.datagram = d /\ new.toTell = Tail(thread[p].toTell)
      BY <1>u, <1>p, <2>2 DEF ThreadType
    <3> QED BY <1>4, <1>5, <3>1
  <2> QED BY <1>7, <2>1, <2>2
<1>9. thread'[p] = new /\ \A q \in Ports \ {p} : thread'[q] = thread[q]
  BY <1>p, <1>7
<1>10. TellsNext(p, c, d)
  BY <1>u, <1>1, <1>p, <1>4, <1>5, <1>6, <1>8, <1>9 DEF TellsNext
<1> QED BY <1>10

LEMMA TellNextFollows ==
  ASSUME TypeInv, Sound, Sess, FollowSound, NEW p \in Ports, TellNext(p)
  PROVE  FollowSound'
<1>1. PICK c, d : TellsNext(p, c, d)
  BY TellsOne
<1>2. /\ SendTo(c, d) /\ d \in DatagramType /\ d = thread[p].datagram /\ d.profile = thread[p].profile
      /\ c \in Servers /\ c \in ToSet(thread[p].toTell)
      /\ ToSet(thread'[p].toTell) = ToSet(thread[p].toTell) \ {c}
      /\ thread'[p].toTell # <<>> => thread'[p].datagram = d
      /\ \A q \in Ports \ {p} : thread'[q] = thread[q]
      /\ thread[p].pc # "none"
      /\ UNCHANGED <<primary, masterTable, upToDate>>
  BY <1>1 DEF TellsNext
<1>3. primary # Nobody /\ primary \in Servers /\ upToDate \subseteq Servers /\ primary \in upToDate /\ upToDate \subseteq alive
      /\ HeardByAll(d.profile)
  BY <1>2, Running DEF Sound, Roles
<1>h. PICK here \in Servers : here = primary /\ primary' = here /\ here \in upToDate
  BY <1>2, <1>3
<1>4. /\ \A s \in upToDate : Known \subseteq DOMAIN masterTable[s]
      /\ \A s \in upToDate \ {here} : \A v \in Known, w \in Profiles :
            w \in Followers(here, v) <=> WillFollow(s, v, w) \/ ToAsk(s, v, w)
      /\ KnowsAll
  BY <1>3, <1>h DEF FollowSound
<1>5. /\ \A s \in Servers \ {c} : \A v, w : WillFollow(s, v, w)' <=> WillFollow(s, v, w)
      /\ c \in alive => \A v, w : WillFollow(c, v, w)' <=> WillFollow(c, v, w) \/ Asks(d, v, w)
  BY <1>2, SendToFollows
<1>6. ASSUME NEW s, NEW v, NEW w
      PROVE  /\ s # c => (ToAsk(s, v, w)' <=> ToAsk(s, v, w))
             /\ s = c => (ToAsk(s, v, w) <=> ToAsk(s, v, w)' \/ Asks(d, v, w))
  <2>1. PICK rest \in BOOLEAN : rest <=> \E q \in Ports \ {p} : s \in ToSet(thread[q].toTell) /\ Asks(thread[q].datagram, v, w)
    OBVIOUS
  <2>2. ToAsk(s, v, w) <=> rest \/ (s \in ToSet(thread[p].toTell) /\ Asks(d, v, w))
    BY <1>2, <2>1 DEF ToAsk
  <2>3. s \in ToSet(thread'[p].toTell) => thread'[p].datagram = d
    BY <1>2, NewThreadIs
  <2>4. ToAsk(s, v, w)' <=> rest \/ (s \in ToSet(thread'[p].toTell) /\ Asks(d, v, w))
    BY <1>2, <2>1, <2>3 DEF ToAsk
  <2> QED BY <1>2, <2>2, <2>4
<1>7. KnowsAll'
  <2>a. thread[p].toTell # <<>>
    BY <1>2, NewThreadIs
  <2>1. d \in WeakDatagram
    BY <1>2, <2>a DEF Sound, ThreadSound
  <2>2. \A s \in upToDate : \A u : Hears(s, u)' <=> Hears(s, u) \/ (s = c /\ d.type = "CONNECT" /\ d.profile = u)
    BY <1>2, <1>3, <2>1, Sending
  <2>3. d.profile \in DOMAIN masterTable[here]
    BY <1>3, <1>h DEF HeardByAll, HasRow
  <2> QED BY <1>2, <1>h, <1>4, <2>2, <2>3 DEF KnowsAll
<1>8. \A v : Followers(here, v)' = Followers(here, v)
  BY <1>2 DEF Followers, RowOf
<1>9. ASSUME NEW s \in upToDate \ {here}, NEW v \in Known, NEW w \in Profiles
      PROVE  w \in Followers(here, v)' <=> WillFollow(s, v, w)' \/ ToAsk(s, v, w)'
  <2>1. w \in Followers(here, v) <=> WillFollow(s, v, w) \/ ToAsk(s, v, w)
    BY <1>4, <1>9
  <2>2. CASE s = c
    BY <1>3, <1>5, <1>6, <1>8, <1>9, <2>1, <2>2
  <2>3. CASE s # c
    BY <1>3, <1>5, <1>6, <1>8, <1>9, <2>1, <2>3
  <2> QED BY <2>2, <2>3
<1> QED BY <1>2, <1>3, <1>h, <1>4, <1>7, <1>9 DEF FollowSound, Known

-----------------------------------------------------------------------------
(* The primary dies, the backups read, and one of them takes the port.      *)

\* Those whom nothing was to be told any more agree among themselves.
LEMMA PrimaryDiesFollows ==
  ASSUME TypeInv, Sound, FollowSound, primary # Nobody, PrimaryDies
  PROVE  FollowSound'
<1>1. /\ primary' = Nobody
      /\ upToDate' = upToDate \ (Untold \cup {primary})
      /\ masterTable' = [masterTable EXCEPT ![primary] = <<>>]
      /\ UNCHANGED inbox
  BY DEF PrimaryDies, Forgets, net
<1>2. PICK here \in Servers : here = primary
  BY Server
<1>3. /\ \A s \in upToDate : Known \subseteq DOMAIN masterTable[s]
      /\ \A s \in upToDate \ {here} : \A v \in Known, w \in Profiles :
            w \in Followers(here, v) <=> WillFollow(s, v, w) \/ ToAsk(s, v, w)
  BY <1>2 DEF FollowSound
<1>4. ASSUME NEW s \in upToDate'
      PROVE  /\ s \in upToDate \ {here} /\ masterTable'[s] = masterTable[s]
             /\ \A v, w : (WillFollow(s, v, w)' <=> WillFollow(s, v, w)) /\ ~ToAsk(s, v, w)
  <2>1. s \in upToDate /\ s # here /\ s \notin Untold
    BY <1>1, <1>2, <1>4
  <2>2. \A p \in Ports : s \notin ToSet(thread[p].toTell)
    BY <2>1 DEF Untold
  <2>3. masterTable'[s] = masterTable[s] /\ inbox'[s] = inbox[s]
    BY <1>1, <1>2, <2>1 DEF TypeInv, Tables, StaticTypes
  <2>4. \A v, w : ~ToAsk(s, v, w)
    BY <2>2 DEF ToAsk
  <2>5. \A v, w : WillFollow(s, v, w)' <=> WillFollow(s, v, w)
    BY <2>3 DEF WillFollow, Asked, Followers, RowOf
  <2> QED BY <2>1, <2>3, <2>4, <2>5
<1>5. \A s \in upToDate' : \A v \in Known, w \in Profiles : WillFollow(s, v, w)' <=> w \in Followers(here, v)
  BY <1>3, <1>4
<1>6. \A s \in upToDate' : Known \subseteq DOMAIN masterTable'[s]
  BY <1>3, <1>4
<1>7. \A s, t \in upToDate' : \A v \in Known, w \in Profiles : WillFollow(s, v, w)' <=> WillFollow(t, v, w)'
  BY <1>5
<1> QED BY <1>1, <1>6, <1>7 DEF FollowSound, Known

LEMMA BackupFollows ==
  ASSUME TypeInv, Sound, FollowSound, NEW b \in Servers, BackupStep(b)
  PROVE  FollowSound'
<1>1. /\ \A t \in Servers \ {b} : masterTable'[t] = masterTable[t] /\ inbox'[t] = inbox[t]
      /\ b # primary
      /\ upToDate' \subseteq upToDate
      /\ UNCHANGED <<primary, loop, thread>>
  BY Others
<1>2. upToDate \subseteq Servers
  BY DEF TypeInv, StaticTypes
<1>3. \A s \in upToDate : Known \subseteq DOMAIN masterTable[s]
  BY DEF FollowSound
<1>4. ASSUME NEW s \in upToDate'
      PROVE  /\ DOMAIN masterTable[s] \subseteq DOMAIN masterTable'[s]
             /\ \A u : Hears(s, u)' <=> Hears(s, u)
             /\ \A v \in Known : \A w : WillFollow(s, v, w)' <=> WillFollow(s, v, w)
  <2>1. CASE s # b
    <3>1. masterTable'[s] = masterTable[s] /\ inbox'[s] = inbox[s]
      BY <1>1, <1>2, <1>4, <2>1
    <3>2. \A u : Hears(s, u)' <=> Hears(s, u)
      BY <3>1 DEF Hears
    <3>3. \A v, w : WillFollow(s, v, w)' <=> WillFollow(s, v, w)
      BY <3>1 DEF WillFollow, Asked, Followers, RowOf
    <3> QED BY <3>1, <3>2, <3>3
  <2>2. CASE s = b
    <3>1. Effect(b)
      BY <1>1, <1>4, <2>2, Reading
    <3>2. PICK k : ReadRow(b, k)
      BY <1>1, <1>4, <2>2, ReadsRow
    <3>3. \A v \in DOMAIN masterTable[b] : \A w : WillFollow(b, v, w)' <=> WillFollow(b, v, w)
      BY <3>2, ReadFollows
    <3> QED BY <1>1, <1>3, <1>4, <2>2, <3>1, <3>3 DEF Effect
  <2> QED BY <2>1, <2>2
<1>5. \A s, v, w : ToAsk(s, v, w)' <=> ToAsk(s, v, w)
  BY <1>1 DEF ToAsk
<1>6. \A s \in upToDate' : Known \subseteq DOMAIN masterTable'[s]
  BY <1>1, <1>3, <1>4
<1>7. CASE primary = Nobody
  <2>1. \A s, t \in upToDate : \A v \in Known, w \in Profiles : WillFollow(s, v, w) <=> WillFollow(t, v, w)
    BY <1>7 DEF FollowSound
  <2>2. \A s, t \in upToDate' : \A v \in Known, w \in Profiles : WillFollow(s, v, w)' <=> WillFollow(t, v, w)'
    BY <1>1, <1>4, <2>1
  <2> QED BY <1>1, <1>6, <1>7, <2>2 DEF FollowSound, Known
<1>8. CASE primary # Nobody
  <2>1. PICK here \in Servers : here = primary /\ primary' = here /\ here # b
    BY <1>1, <1>8, Server
  <2>2. masterTable'[here] = masterTable[here]
    BY <1>1, <2>1
  <2>3. \A v : Followers(here, v)' = Followers(here, v)
    BY <2>2 DEF Followers, RowOf
  <2>4. /\ \A s \in upToDate \ {here} : \A v \in Known, w \in Profiles :
             w \in Followers(here, v) <=> WillFollow(s, v, w) \/ ToAsk(s, v, w)
        /\ KnowsAll
    BY <1>8, <2>1 DEF FollowSound
  <2>5. \A s \in upToDate' \ {here} : \A v \in Known, w \in Profiles :
             w \in Followers(here, v)' <=> WillFollow(s, v, w)' \/ ToAsk(s, v, w)'
    BY <1>1, <1>4, <1>5, <2>3, <2>4
  <2>6. KnowsAll'
    BY <1>1, <1>4, <2>1, <2>2, <2>4 DEF KnowsAll
  <2> QED BY <1>1, <1>6, <1>8, <2>1, <2>5, <2>6 DEF FollowSound, Known
<1> QED BY <1>7, <1>8

\* Who has nothing to read has what it will have.
LEMMA NothingAsked ==
  ASSUME NEW s, inbox[s] = <<>>
  PROVE  /\ \A v, w : WillFollow(s, v, w) <=> w \in Followers(s, v)
         /\ \A u : Hears(s, u) <=> u \in DOMAIN masterTable[s]
<1>1. DOMAIN <<>> = {}
  OBVIOUS
<1> QED BY <1>1 DEF WillFollow, Asked, Hears, Told

LEMMA TakePortFollows ==
  ASSUME TypeInv, Sound, FollowSound, NEW b \in Servers, TakePort(b), upToDate' # {}
  PROVE  FollowSound'
<1>1. /\ primary = Nobody /\ primary' = b /\ b # Nobody
      /\ b \in upToDate /\ inbox[b] = <<>> /\ upToDate' = upToDate
      /\ inbox' = [inbox EXCEPT ![b] = <<>>]
      /\ UNCHANGED <<masterTable, loop, thread>>
  BY ReplicationAssumption DEF TakePort, counts
<1>2. inbox' = inbox
  BY <1>1 DEF TypeInv, StaticTypes
<1>3. /\ \A s \in upToDate : Known \subseteq DOMAIN masterTable[s]
      /\ \A s, t \in upToDate : \A v \in Known, w \in Profiles : WillFollow(s, v, w) <=> WillFollow(t, v, w)
  BY <1>1 DEF FollowSound
<1>4. \A v, w : WillFollow(b, v, w) <=> w \in Followers(b, v)
  BY <1>1, NothingAsked
<1>5. \A p \in Ports : thread[p].toTell = <<>> /\ loop.toTell = <<>>
  BY <1>1 DEF TypeInv, Idle, Rest, NoThread
<1>6. \A s, v, w : ~ToAsk(s, v, w)'
  BY <1>1, <1>5, NewThreadIs DEF ToAsk
<1>7. /\ \A s, v, w : WillFollow(s, v, w)' <=> WillFollow(s, v, w)
      /\ \A s, u : Hears(s, u)' <=> Hears(s, u)
      /\ \A s, v : Followers(s, v)' = Followers(s, v)
  BY <1>1, <1>2 DEF WillFollow, Asked, Followers, RowOf, Hears
<1>8. KnowsAll'
  <2>1. ASSUME NEW s \in upToDate, NEW u \in Profiles, Hears(s, u) PROVE u \in DOMAIN masterTable[b]
    <3>1. loop.toTell = <<>>
      BY <1>1 DEF TypeInv, Idle, Rest
    <3>2. Hears(b, u)
      BY <1>1, <2>1, <3>1, NobodyToTell DEF Sound, AllHear
    <3> QED BY <1>1, <3>2, NothingAsked
  <2> QED BY <1>1, <1>7, <2>1 DEF KnowsAll
<1>9. \A s \in upToDate \ {b} : \A v \in Known, w \in Profiles :
        w \in Followers(b, v)' <=> WillFollow(s, v, w)' \/ ToAsk(s, v, w)'
  BY <1>1, <1>3, <1>4, <1>6, <1>7
<1> QED BY <1>1, <1>3, <1>8, <1>9 DEF FollowSound, Known

LEMMA FollowAtFirst == Init => FollowSound
<1> SUFFICES ASSUME Init PROVE FollowSound
  OBVIOUS
<1>1. /\ primary = Primary /\ primary # Nobody /\ thread = [p \in Ports |-> NoThread]
      /\ inbox = [s \in Servers |-> <<>>]
      /\ upToDate \subseteq Servers /\ Primary \in Servers
  <2>1. TypeInv
    BY TypesAtFirst
  <2> QED BY <2>1, ReplicationAssumption DEF Init, TypeInv, StaticTypes
<1>2. PICK file \in Files : masterTable = [s \in Servers |-> [u \in DOMAIN file |-> LoadedRow(file[u])]]
  BY DEF Init
<1>3. PICK t : \A s \in Servers : masterTable[s] = t /\ DOMAIN t = DOMAIN file
  BY <1>2
<1>4. Known \subseteq DOMAIN file
  BY <1>2 DEF Known
<1>5. ASSUME NEW s \in Servers
      PROVE  /\ \A v, w : WillFollow(s, v, w) <=> w \in Followers(s, v)
             /\ \A u : Hears(s, u) <=> u \in DOMAIN masterTable[s]
  BY <1>1, NothingAsked
<1>6. \A s \in Servers : \A v : Followers(s, v) = Followers(Primary, v)
  BY <1>1, <1>3 DEF Followers, RowOf
<1>7. \A s, v, w : ~ToAsk(s, v, w)
  <2>1. \A p \in Ports : thread[p].toTell = <<>>
    BY <1>1 DEF NoThread
  <2> QED BY <2>1, NewThreadIs DEF ToAsk
<1>8. KnowsAll
  BY <1>1, <1>3, <1>5 DEF KnowsAll
<1>9. \A s \in upToDate : Known \subseteq DOMAIN masterTable[s]
  BY <1>1, <1>3, <1>4
<1>10. \A s \in upToDate \ {primary} : \A v \in Known, w \in Profiles :
         w \in Followers(primary, v) <=> WillFollow(s, v, w) \/ ToAsk(s, v, w)
  BY <1>1, <1>5, <1>6, <1>7
<1> QED BY <1>1, <1>8, <1>9, <1>10 DEF FollowSound

LEMMA StutterFollows ==
  ASSUME FollowSound, UNCHANGED vars
  PROVE  FollowSound'
<1>1. UNCHANGED <<primary, inbox, masterTable, thread, upToDate>>
  BY DEF vars, roles, net, history
<1>2. /\ \A s, v, w : WillFollow(s, v, w)' <=> WillFollow(s, v, w)
      /\ \A s, u : Hears(s, u)' <=> Hears(s, u)
      /\ \A s, v : Followers(s, v)' = Followers(s, v)
      /\ \A s, v, w : ToAsk(s, v, w)' <=> ToAsk(s, v, w)
  BY <1>1 DEF WillFollow, Asked, Followers, RowOf, Hears, ToAsk
<1>3. CASE primary = Nobody
  BY <1>1, <1>2, <1>3 DEF FollowSound, Known
<1>4. CASE primary # Nobody
  <2>1. PICK here : here = primary /\ primary' = here
    BY <1>1
  <2> QED BY <1>1, <1>2, <1>4, <2>1 DEF FollowSound, KnowsAll, Known
<1> QED BY <1>3, <1>4

LEMMA FollowStep ==
  ASSUME TypeInv, Sound, Sess, FollowSound, [Next]_vars, upToDate' # {}
  PROVE  FollowSound'
<1>1. ASSUME LoopStep PROVE FollowSound'
  BY <1>1, ReceiveConnectFollows, LoopFollows, TellConnectFollows, StartSessionFollows,
     ReopenSessionFollows DEF LoopStep
<1>2. ASSUME NEW p \in Ports, ThreadStep(p) PROVE FollowSound'
  <2>1. CASE SendBlindly(p)
    <3>1. thread[p].pc # "none" /\ PrimaryDies
      BY <2>1 DEF SendBlindly
    <3> QED BY <3>1, Busy, PrimaryDiesFollows
  <2> QED BY <1>2, <2>1, FollowFollows, SendFollows, ExitFollows, TellNextFollows, CloseSessionFollows,
             ShowFollows DEF ThreadStep
<1>3. ASSUME NEW b \in Servers, BackupStep(b) PROVE FollowSound'
  BY <1>3, BackupFollows
<1>4. ASSUME NEW b \in Servers, TakePort(b) \/ Join(b) PROVE FollowSound'
  BY <1>4, TakePortFollows, JoinFollows
<1>5. ASSUME Crash \/ BindFails PROVE FollowSound'
  BY <1>5, Busy, PrimaryDiesFollows DEF Crash, BindFails
<1> QED BY <1>1, <1>2, <1>3, <1>4, <1>5, StutterFollows DEF Next

FollowInv == upToDate # {} => FollowSound

LEMMA FollowersAgree == Spec => [](TypeInv /\ KnownInv /\ SessInv /\ FollowInv)
<1>1. Init => TypeInv /\ KnownInv /\ SessInv /\ FollowInv
  BY TypesAtFirst, SoundAtFirst, SessAtFirst, FollowAtFirst DEF SessInv, FollowInv
<1>2. TypeInv /\ KnownInv /\ SessInv /\ FollowInv /\ [Next]_vars => (TypeInv /\ KnownInv /\ SessInv /\ FollowInv)'
  <2> SUFFICES ASSUME TypeInv, KnownInv, SessInv, FollowInv, [Next]_vars
               PROVE  (TypeInv /\ KnownInv /\ SessInv /\ FollowInv)'
    OBVIOUS
  <2>1. TypeInv'
    BY TypesStep
  <2>2. ASSUME upToDate' # {} PROVE Sound' /\ Sess' /\ FollowSound'
    <3>1. Sound /\ Sess /\ FollowSound
      BY <2>2, NobodyCatchesUp DEF KnownInv, SessInv, FollowInv
    <3> QED BY <2>2, <3>1, StepKeeps, SessStep, FollowStep
  <2> QED BY <2>1, <2>2 DEF KnownInv, SessInv, FollowInv
<1> QED BY <1>1, <1>2, PTL DEF Spec

\* Two servers of which one is at rest and the other has read everything.
LEMMA SameSessionsOpen ==
  ASSUME TypeInv, NEW s \in upToDate, NEW t \in upToDate, OwnPorts(s), OwnPorts(t), NEW u \in Profiles,
         \A p \in Ports : p \in ToSet(Sessions(s, u)) <=> p \in ToSet(Sessions(t, u))
  PROVE  /\ ToSet(Sessions(s, u)) = ToSet(Sessions(t, u))
         /\ Len(Sessions(s, u)) = Len(Sessions(t, u))
<1>1. s \in Servers /\ t \in Servers
  BY DEF TypeInv, StaticTypes
<1>2. PICK q \in Seq(Ports) : q = Sessions(s, u) /\ ToSet(q) \subseteq Ports
  BY <1>1, SessionsTyped
<1>3. PICK o \in Seq(Ports) : o = Sessions(t, u) /\ ToSet(o) \subseteq Ports
  BY <1>1, SessionsTyped
<1>4. IsInjective(q) /\ IsInjective(o)
  BY <1>2, <1>3 DEF OwnPorts
<1>5. ToSet(q) = ToSet(o)
  BY <1>2, <1>3
<1>6. Len(q) <= Len(o) /\ Len(o) <= Len(q)
  BY <1>4, <1>5, DistinctPart
<1>7. Len(q) \in Nat /\ Len(o) \in Nat
  OBVIOUS
<1>8. Len(q) = Len(o)
  BY <1>6, <1>7
<1> QED BY <1>2, <1>3, <1>5, <1>8

LEMMA AgreedInStep == TypeInv /\ KnownInv /\ SessInv /\ FollowInv => InStep
<1> SUFFICES ASSUME TypeInv, KnownInv, SessInv, FollowInv, NEW b \in (upToDate \cap alive) \ {primary},
                    primary \in upToDate, Quiet, inbox[b] = <<>>
             PROVE  /\ DOMAIN masterTable[b] = DOMAIN Table
                    /\ nextClientPort[b] = nextClientPort[primary]
                    /\ \A u \in DOMAIN Table :
                         /\ ToSet(masterTable[b][u].sessions) = ToSet(Table[u].sessions)
                         /\ Len(masterTable[b][u].sessions) = Len(Table[u].sessions)
                    /\ \A u \in Known : masterTable[b][u].followers = Table[u].followers
  BY DEF InStep
<1>1. Sess /\ Sound /\ FollowSound /\ upToDate \subseteq Servers /\ primary # Nobody
  <2>1. Sess /\ Sound /\ FollowSound /\ upToDate \subseteq Servers
    BY DEF KnownInv, SessInv, FollowInv, TypeInv, StaticTypes
  <2> QED BY <2>1, ReplicationAssumption
<1>h. PICK here \in upToDate : here = primary /\ here # b /\ Table = masterTable[here]
  BY DEF Table
<1>2. /\ inbox[here] = <<>> /\ Following(b) /\ Say /\ OwnPorts(b) /\ OwnPorts(here)
  <2>1. inbox[here] = <<>> /\ Following(b) /\ Say
    BY <1>1, <1>h, Leads
  <2> QED BY <1>1, <1>h, <2>1 DEF Sess
<1>3. /\ loop.pc # "tell" /\ loop.toTell = <<>>
      /\ \A p \in Ports : thread[p].pc # "exit" /\ thread[p].toTell = <<>>
  <2>1. loop.pc \in {"receive", "reopen"} /\ \A p \in Ports : thread[p].pc \in {"none", "run"}
    BY DEF Quiet
  <2>2. loop.toTell = <<>>
    BY <2>1 DEF TypeInv, LoopTyped
  <2>3. \A p \in Ports : thread[p].toTell = <<>>
    BY <1>2, <2>1 DEF Say
  <2> QED BY <2>1, <2>2, <2>3
<1>4. /\ IsTable(masterTable[b]) /\ IsTable(masterTable[here])
      /\ \A u : Hears(b, u) <=> u \in DOMAIN masterTable[b]
      /\ \A u : Hears(here, u) <=> u \in DOMAIN masterTable[here]
  <2>1. IsTable(masterTable[b]) /\ IsTable(masterTable[here])
    BY <1>1 DEF TypeInv, Tables
  <2> QED BY <1>2, <2>1, NothingAsked
<1>5. DOMAIN masterTable[b] = DOMAIN masterTable[here]
  <2>1. \A u \in DOMAIN masterTable[b] : u \in DOMAIN masterTable[here]
    <3>1. KnowsAll
      BY <1>1 DEF FollowSound
    <3> QED BY <1>h, <1>4, <3>1 DEF KnowsAll, IsTable
  <2>2. \A u \in DOMAIN masterTable[here] : u \in DOMAIN masterTable[b]
    <3>1. \A u \in Profiles : Hears(here, u) => Hears(b, u)
      BY <1>1, <1>h, <1>3, NobodyToTell DEF Sound, AllHear
    <3> QED BY <1>4, <3>1 DEF IsTable
  <2> QED BY <2>1, <2>2
<1>6. nextClientPort[b] = nextClientPort[here]
  <2>1. PICK end \in Nat, next \in Nat : end = nextClientPort[here] /\ next = nextClientPort[b]
    BY <1>1 DEF TypeInv, StaticTypes
  <2>2. EndOf(b) = end
    BY <1>h, <1>3, <2>1, NothingStarts
  <2>3. CountedUpTo(next, <<>>, end)
    BY <1>2, <2>1, <2>2 DEF Following, Counted
  <2> QED BY <2>1, <2>3, CountNone
<1>7. \A u \in Profiles, p \in Ports : p \in ToSet(Sessions(b, u)) <=> p \in ToSet(Sessions(here, u))
  <2> TAKE u \in Profiles, p \in Ports
  <2>1. Has(b, u, p) <=> Expected(b, u, p)
    BY <1>2 DEF Following
  <2>2. Has(b, u, p) <=> p \in ToSet(Sessions(b, u))
    BY NothingToRead
  <2>3. ~Starting(b, u, p) /\ ~Leaving(b, u, p)
    BY <1>3, NothingStarts DEF Leaving
  <2> QED BY <1>h, <2>1, <2>2, <2>3 DEF Expected
<1>8. \A u \in Profiles : /\ ToSet(Sessions(b, u)) = ToSet(Sessions(here, u))
                          /\ Len(Sessions(b, u)) = Len(Sessions(here, u))
  BY <1>2, <1>7, SameSessionsOpen
<1>9. \A u \in DOMAIN Table : /\ ToSet(masterTable[b][u].sessions) = ToSet(Table[u].sessions)
                              /\ Len(masterTable[b][u].sessions) = Len(Table[u].sessions)
  <2> TAKE u \in DOMAIN Table
  <2>1. u \in Profiles /\ u \in DOMAIN masterTable[b] /\ u \in DOMAIN masterTable[here]
    BY <1>h, <1>4, <1>5 DEF IsTable
  <2>2. Sessions(b, u) = masterTable[b][u].sessions /\ Sessions(here, u) = Table[u].sessions
    BY <1>h, <2>1, SessionsHere
  <2> QED BY <1>8, <2>1, <2>2
<1>10. \A u \in Known : masterTable[b][u].followers = Table[u].followers
  <2> TAKE u \in Known
  <2>1. u \in DOMAIN masterTable[b] /\ u \in DOMAIN masterTable[here]
    BY <1>1, <1>h DEF FollowSound
  <2>2. Followers(b, u) = masterTable[b][u].followers /\ Followers(here, u) = Table[u].followers
    BY <1>h, <2>1, NobodyFollowsNew
  <2>3. Followers(b, u) \subseteq Profiles /\ Followers(here, u) \subseteq Profiles
    <3>1. masterTable[b][u] \in GoodRows /\ masterTable[here][u] \in GoodRows
      BY <1>4, <2>1 DEF IsTable
    <3> QED BY <1>h, <2>2, <3>1 DEF GoodRows, RowType
  <2>4. \A w \in Profiles : w \in Followers(here, u) <=> WillFollow(b, u, w) \/ ToAsk(b, u, w)
    BY <1>1, <1>h DEF FollowSound
  <2>5. \A w : ~ToAsk(b, u, w)
    BY <1>3, NewThreadIs DEF ToAsk
  <2>6. \A w : WillFollow(b, u, w) <=> w \in Followers(b, u)
    BY NothingAsked
  <2>7. Followers(b, u) = Followers(here, u)
    BY <2>3, <2>4, <2>5, <2>6
  <2> QED BY <2>2, <2>7
<1> QED BY <1>h, <1>5, <1>6, <1>9, <1>10

\* When nobody is telling anybody anything, a backup that has missed nothing and
\* has read what it was sent has the profiles, the sessions and the next port of
\* the primary, and the followers of each profile that was there from the start.
THEOREM UpToDateInStep == Spec => []InStep
BY FollowersAgree, AgreedInStep, PTL

-----------------------------------------------------------------------------
(* A message that is kept for v is held where v follows its sender, or a    *)
(* SEND of it is to be read there before v connects and before it follows   *)
(* anybody else, or a thread is about to send it there.                     *)
Held(s, v, m) == v \in Followers(s, m.from) => m \in Messages(s, v)

IsSend(d, m) == d.type = "SEND" /\ d.message = m
ComesBy(d, v) == d.type \in {"CONNECT", "FOLLOW"} /\ d.profile = v
QuietFrom(s, v, j) == \A i \in DOMAIN inbox[s] : i >= j => ~ComesBy(inbox[s][i], v)

ArrivesAt(s, v, m, j) ==
  /\ IsSend(inbox[s][j], m)
  /\ \A p \in Ports : ~OpenAfter(ToSet(Sessions(s, v)), inbox[s], j - 1, v, p)
  /\ QuietFrom(s, v, j)
Arriving(s, v, m) == \E j \in DOMAIN inbox[s] : ArrivesAt(s, v, m, j)
Sent(s, m) == \E p \in Ports : s \in ToSet(thread[p].toTell) /\ IsSend(thread[p].datagram, m)
Settled(s, v, m) == Held(s, v, m) /\ QuietFrom(s, v, 1)
Coming(s, v, m) == Arriving(s, v, m) \/ Sent(s, m) \/ Settled(s, v, m)

(* v has no session on the primary and none is being opened.                *)
Out(s, v) == Sessions(s, v) = <<>> /\ ~Connecting(v)
Safe(v, m) ==
  /\ primary # Nobody => /\ Out(primary, v) /\ Held(primary, v, m)
                         /\ \A s \in upToDate \ {primary} : Coming(s, v, m)
  /\ primary = Nobody => \A s \in upToDate : Coming(s, v, m) /\ \A p \in Ports : ~Has(s, v, p)

(* Who sends a message is whose message it is.                              *)
Own(d) == d.type = "SEND" => d.profile = d.message.from
SendsOwn == /\ \A s \in upToDate : \A i \in DOMAIN inbox[s] : Own(inbox[s][i])
            /\ \A p \in Ports : thread[p].toTell # <<>> => Own(thread[p].datagram)

KeptSound == SendsOwn /\ \A v \in Profiles : \A m \in kept[v] : Safe(v, m)

(* All have heard of whom a message is kept for.                            *)
KeptHeard == \A v \in Profiles : kept[v] # {} => \A s \in upToDate : Hears(s, v)

\* A step of the primary that sends nothing yet.
LEMMA KeptTurns ==
  ASSUME Sound, KeptSound, primary # Nobody, UNCHANGED <<primary, upToDate, inbox>>,
         \A s \in upToDate \ {primary} : masterTable'[s] = masterTable[s],
         \A p \in Ports : \/ thread'[p] = thread[p]
                          \/ /\ thread[p].toTell = <<>>
                             /\ thread'[p].toTell # <<>> => Own(thread'[p].datagram),
         \A v \in Profiles : \A m \in kept'[v] :
           \/ /\ m \in kept[v]
              /\ Out(primary, v) => Out(primary, v)'
              /\ Out(primary, v) /\ Held(primary, v, m) => Held(primary, v, m)'
           \/ Out(primary, v)' /\ Held(primary, v, m)' /\ \A s \in upToDate \ {primary} : Sent(s, m)'
  PROVE  KeptSound'
<1>1. PICK here \in Servers : here = primary /\ primary' = here
  BY SomebodyServes
<1>2. SendsOwn'
  <2>1. SendsOwn
    BY DEF KeptSound
  <2> QED BY <2>1 DEF SendsOwn
<1>3. ASSUME NEW s, NEW m, Sent(s, m) PROVE Sent(s, m)'
  <2>1. PICK p \in Ports : s \in ToSet(thread[p].toTell) /\ IsSend(thread[p].datagram, m)
    BY <1>3 DEF Sent
  <2>2. thread'[p] = thread[p]
    BY <2>1, NewThreadIs
  <2> QED BY <2>1, <2>2 DEF Sent
<1>4. ASSUME NEW s \in upToDate \ {here}, NEW v, NEW m, Coming(s, v, m) PROVE Coming(s, v, m)'
  <2>1. masterTable'[s] = masterTable[s] /\ inbox'[s] = inbox[s]
    BY <1>1, <1>4
  <2>2. \A u : Sessions(s, u)' = Sessions(s, u) /\ Followers(s, u)' = Followers(s, u) /\ Messages(s, u)' = Messages(s, u)
    BY <2>1 DEF Sessions, Followers, Messages, RowOf
  <2>3. Arriving(s, v, m) => Arriving(s, v, m)'
    BY <2>1, <2>2 DEF Arriving, ArrivesAt, QuietFrom
  <2>4. Settled(s, v, m) => Settled(s, v, m)'
    BY <2>1, <2>2 DEF Settled, Held, QuietFrom
  <2> QED BY <1>3, <1>4, <2>3, <2>4 DEF Coming
<1>5. ASSUME NEW v \in Profiles, NEW m \in kept'[v] PROVE Safe(v, m)'
  <2>1. CASE /\ m \in kept[v]
             /\ Out(primary, v) => Out(primary, v)'
             /\ Out(primary, v) /\ Held(primary, v, m) => Held(primary, v, m)'
    <3>1. Safe(v, m)
      BY <2>1 DEF KeptSound
    <3>2. Out(primary, v) /\ Held(primary, v, m) /\ \A s \in upToDate \ {here} : Coming(s, v, m)
      BY <1>1, <3>1 DEF Safe
    <3>3. Out(here, v)' /\ Held(here, v, m)'
      <4>1. Out(primary, v)' /\ Held(primary, v, m)'
        BY <2>1, <3>2
      <4> QED BY <1>1, <4>1
    <3>4. \A s \in upToDate \ {here} : Coming(s, v, m)'
      BY <1>4, <3>2
    <3> QED BY <1>1, <3>3, <3>4 DEF Safe
  <2>2. CASE Out(primary, v)' /\ Held(primary, v, m)' /\ \A s \in upToDate \ {primary} : Sent(s, m)'
    <3>1. Out(here, v)' /\ Held(here, v, m)'
      BY <1>1, <2>2
    <3>2. \A s \in upToDate \ {here} : Coming(s, v, m)'
      BY <1>1, <2>2 DEF Coming
    <3> QED BY <1>1, <3>1, <3>2 DEF Safe
  <2> QED BY <1>5, <2>1, <2>2
<1> QED BY <1>2, <1>5 DEF KeptSound

\* A step that sets a row of the primary.
LEMMA RowTurns ==
  ASSUME TypeInv, Sound, KeptSound, primary # Nobody, UNCHANGED <<primary, upToDate, inbox>>,
         NEW u \in Profiles, NEW row, SetRow(primary, u, row), row.followers = Followers(primary, u),
         Out(primary, u) => kept'[u] = {},
         \A v \in Profiles : kept'[v] \subseteq kept[v] /\ (v # u /\ Connecting(v)' => Connecting(v)),
         \A p \in Ports : thread'[p] = thread[p] \/ (thread[p].toTell = <<>> /\ thread'[p].toTell = <<>>)
  PROVE  KeptSound'
<1>1. PICK here \in Servers : here = primary /\ primary' = here
  BY SomebodyServes
<1>2. DOMAIN masterTable = Servers /\ upToDate \subseteq Servers
  BY DEF TypeInv, Tables, StaticTypes
<1>3. /\ \A v : /\ Followers(here, v)' = Followers(here, v)
                /\ v # u => Messages(here, v)' = Messages(here, v) /\ Sessions(here, v)' = Sessions(here, v)
      /\ \A t \in Servers \ {here} : masterTable'[t] = masterTable[t]
  <2>1. SetRow(here, u, row) /\ row.followers = Followers(here, u)
    BY <1>1
  <2>2. /\ \A v : /\ Followers(here, v)' = IF v = u THEN row.followers ELSE Followers(here, v)
                  /\ Messages(here, v)' = IF v = u THEN row.messages ELSE Messages(here, v)
        /\ \A t \in Servers \ {here} : masterTable'[t] = masterTable[t]
    BY <1>2, <2>1, SetRowFields
  <2>3. \A v : Sessions(here, v)' = IF v = u THEN row.sessions ELSE Sessions(here, v)
    BY <1>2, <2>1, SetRowSessions
  <2> QED BY <2>1, <2>2, <2>3
<1>4. ASSUME NEW v \in Profiles, NEW m \in kept'[v]
      PROVE  /\ m \in kept[v]
             /\ Out(primary, v) => Out(primary, v)'
             /\ Out(primary, v) /\ Held(primary, v, m) => Held(primary, v, m)'
  <2>1. m \in kept[v]
    BY <1>4
  <2>2. CASE v = u
    <3>1. ~Out(primary, v)
      BY <1>4, <2>2
    <3> QED BY <2>1, <3>1
  <2>3. CASE v # u
    <3>1. Out(here, v) => Out(here, v)'
      BY <1>3, <2>3 DEF Out
    <3>2. Held(here, v, m) => Held(here, v, m)'
      BY <1>3, <2>3 DEF Held
    <3> QED BY <1>1, <2>1, <3>1, <3>2
  <2> QED BY <2>2, <2>3
<1>5. \A s \in upToDate \ {primary} : masterTable'[s] = masterTable[s]
  BY <1>1, <1>2, <1>3
<1> QED BY <1>4, <1>5, KeptTurns

LEMMA ReceiveConnectKept ==
  ASSUME TypeInv, Sound, KeptSound, NEW u \in Profiles, ReceiveConnect(u)
  PROVE  KeptSound'
<1>1. PICK row : row = RowOf(primary, u)
  OBVIOUS
<1>2. /\ primary # Nobody /\ SetRow(primary, u, row)
      /\ kept' = [kept EXCEPT ![u] = {}] /\ loop'.profile = u
      /\ UNCHANGED <<primary, upToDate, inbox, thread>>
  BY <1>1 DEF ReceiveConnect, Serving, roles, net, Rest
<1>3. row.followers = Followers(primary, u)
  BY <1>1 DEF Followers
<1>4. /\ kept'[u] = {} /\ \A v \in Profiles : kept'[v] \subseteq kept[v]
  BY <1>2 DEF TypeInv, StaticTypes
<1>5. \A v : v # u => ~Connecting(v)'
  BY <1>2 DEF Connecting
<1> QED BY <1>2, <1>3, <1>4, <1>5, RowTurns

\* The loop has no table, no inbox and no thread change.
LEMMA LoopKept ==
  ASSUME TypeInv, Sound, KeptSound,
         BecomePrimary \/ EnterPrimaryLoop \/ \E u \in Profiles : ReopenUser(u)
  PROVE  KeptSound'
<1>1. /\ primary # Nobody /\ loop'.pc # "tell"
      /\ UNCHANGED <<primary, upToDate, inbox, masterTable, thread, kept>>
  <2>1. /\ primary # Nobody
        /\ UNCHANGED <<primary, upToDate, inbox, masterTable, thread, kept>>
    BY SomebodyServes DEF BecomePrimary, Serving, EnterPrimaryLoop, ReopenUser, roles, net, history
  <2>2. loop'.pc # "tell"
    <3>1. CASE BecomePrimary
      BY <3>1 DEF BecomePrimary, Rest
    <3>2. CASE EnterPrimaryLoop
      BY <3>2 DEF EnterPrimaryLoop, Rest
    <3>3. CASE \E u \in Profiles : ReopenUser(u)
      <4>1. loop \in LoopType
        BY DEF TypeInv, LoopTyped
      <4>2. PICK u \in Profiles : ReopenUser(u)
        BY <3>3
      <4>3. loop'.pc = loop.pc /\ loop.pc = "reopen"
        BY <4>1, <4>2 DEF ReopenUser, LoopType
      <4> QED BY <4>3
    <3> QED BY <3>1, <3>2, <3>3
  <2> QED BY <2>1, <2>2
<1>2. PICK here \in Servers : here = primary /\ primary' = here
  BY <1>1, SomebodyServes
<1>3. \A v : Out(here, v) => Out(here, v)'
  BY <1>1 DEF Out, Connecting, Sessions, RowOf
<1>4. \A v, m : Held(here, v, m)' <=> Held(here, v, m)
  BY <1>1 DEF Held, Followers, Messages, RowOf
<1>5. \A v \in Profiles : \A m \in kept'[v] :
        /\ m \in kept[v]
        /\ Out(primary, v) => Out(primary, v)'
        /\ Out(primary, v) /\ Held(primary, v, m) => Held(primary, v, m)'
  BY <1>1, <1>2, <1>3, <1>4
<1> QED BY <1>1, <1>5, KeptTurns

LEMMA StartSessionKept ==
  ASSUME TypeInv, Sound, KeptSound, StartSession, upToDate' # {}
  PROVE  KeptSound'
<1>p. PICK p, u : p = nextClientPort[primary] /\ u = loop.profile
  OBVIOUS
<1>1. PICK row : row = [Table[u] EXCEPT !.sessions = Append(@, p)]
  OBVIOUS
<1>2. /\ primary # Nobody /\ ~Taken(p) /\ SetRow(primary, u, row) /\ loop.pc = "tell"
      /\ thread' = [thread EXCEPT ![p] = NewThread(u)] /\ loop' = Rest
      /\ UNCHANGED <<primary, upToDate, inbox, kept>>
  BY <1>p, <1>1, SomebodyServes DEF StartSession, roles, net, counts
<1>3. primary \in Servers /\ upToDate \subseteq Servers
  BY <1>2, SomebodyServes DEF Sound, Roles
<1>4. u \in DOMAIN masterTable[primary] /\ thread \in [Ports -> ThreadType] /\ p \in Ports
  BY <1>p, <1>2 DEF TypeInv, LoopTyped, Threads, Table
<1>5. Table[u] = masterTable[primary][u] /\ Table[u] \in GoodRows /\ u \in Profiles
  BY <1>3, <1>4 DEF Table, TypeInv, Tables, IsTable
<1>6. row.followers = Followers(primary, u)
  BY <1>1, <1>4, <1>5, NobodyFollowsNew DEF GoodRows, RowType
<1>7. thread[p].toTell = <<>>
  <2>1. thread[p].pc = "none"
    BY <1>2 DEF Taken
  <2> QED BY <1>4, <2>1 DEF TypeInv, Threads, ThreadTyped
<1>8. \A q \in Ports : thread'[q] = thread[q] \/ (thread[q].toTell = <<>> /\ thread'[q].toTell = <<>>)
  BY <1>2, <1>4, <1>7, NewThreadIs
<1>9. ~Out(primary, u)
  BY <1>p, <1>2 DEF Out, Connecting
<1>10. \A v : ~Connecting(v)'
  BY <1>2 DEF Connecting, Rest
<1> QED BY <1>2, <1>5, <1>6, <1>8, <1>9, <1>10, RowTurns

\* Who has a session is not out.
LEMMA NotOut ==
  ASSUME NEW s, NEW v, NEW p, p \in ToSet(Sessions(s, v))
  PROVE  ~Out(s, v)
BY NewThreadIs DEF Out

LEMMA ReopenSessionKept ==
  ASSUME TypeInv, Sound, Sess, KeptSound, ReopenSession
  PROVE  KeptSound'
<1>p. PICK p, u : p = Head(loop.toOpen) /\ u = loop.profile
  OBVIOUS
<1>1. PICK row : row = [Table[u] EXCEPT !.sessions = Append(RemoveFirst(@, p), p)]
  OBVIOUS
<1>2. /\ primary # Nobody /\ ~Taken(p) /\ SetRow(primary, u, row) /\ loop.pc = "reopen" /\ loop.toOpen # <<>>
      /\ thread' = [thread EXCEPT ![p] = NewThread(u)] /\ loop' = [loop EXCEPT !.toOpen = Tail(@)]
      /\ UNCHANGED <<primary, upToDate, inbox, kept>>
  BY <1>p, <1>1, SomebodyServes DEF ReopenSession, roles, net, counts, history
<1>3. primary \in Servers /\ upToDate \subseteq Servers
  BY <1>2, SomebodyServes DEF Sound, Roles
<1>l. loop \in LoopType /\ loop.toOpen \in Seq(Ports)
  BY DEF TypeInv, LoopTyped, LoopType
<1>4. u \in DOMAIN masterTable[primary] /\ thread \in [Ports -> ThreadType] /\ p \in Ports /\ p \in ToSet(loop.toOpen)
  <2>1. u \in DOMAIN masterTable[primary] /\ thread \in [Ports -> ThreadType]
    BY <1>p, <1>2 DEF TypeInv, LoopTyped, Threads, Table
  <2> QED BY <1>p, <1>2, <1>l, <2>1, HeadOrTail
<1>5. Table[u] = masterTable[primary][u] /\ Table[u] \in GoodRows /\ u \in Profiles
  BY <1>3, <1>4 DEF Table, TypeInv, Tables, IsTable
<1>6. row.followers = Followers(primary, u)
  BY <1>1, <1>4, <1>5, NobodyFollowsNew DEF GoodRows, RowType
<1>7. thread[p].toTell = <<>>
  <2>1. thread[p].pc = "none"
    BY <1>2 DEF Taken
  <2> QED BY <1>4, <2>1 DEF TypeInv, Threads, ThreadTyped
<1>8. \A q \in Ports : thread'[q] = thread[q] \/ (thread[q].toTell = <<>> /\ thread'[q].toTell = <<>>)
  BY <1>2, <1>4, <1>7, NewThreadIs
<1>9. ~Out(primary, u)
  <2>1. Reopening
    BY <1>2, Leads
  <2>2. p \in ToSet(Sessions(primary, u))
    BY <1>p, <1>2, <1>4, <2>1 DEF Reopening
  <2> QED BY <2>2, NotOut
<1>10. \A v : ~Connecting(v)'
  <2>1. loop'.pc = "reopen"
    BY <1>2, <1>l DEF LoopType
  <2> QED BY <2>1 DEF Connecting
<1> QED BY <1>2, <1>5, <1>6, <1>8, <1>9, <1>10, RowTurns

\* The profile of a thread has a session.
LEMMA ThreadIsIn ==
  ASSUME TypeInv, Sess, NEW p \in Ports, thread[p].pc # "none" \/ thread[p].toTell # <<>>
  PROVE  ~Out(primary, thread[p].profile)
<1>1. primary # Nobody /\ thread[p].pc # "none"
  BY Busy DEF TypeInv, Threads, ThreadTyped
<1>2. ThreadsOpen
  BY <1>1, Leads
<1> QED BY <1>1, <1>2, NotOut DEF ThreadsOpen

LEMMA CloseSessionKept ==
  ASSUME TypeInv, Sound, Sess, KeptSound, NEW p \in Ports, CloseSession(p)
  PROVE  KeptSound'
<1>p. PICK u : u = thread[p].profile
  OBVIOUS
<1>1. PICK row : row = [Table[u] EXCEPT !.sessions = RemoveFirst(@, p)]
  OBVIOUS
<1>2. /\ thread[p].pc = "exit" /\ thread[p].toTell = <<>> /\ SetRow(primary, u, row)
      /\ thread' = [thread EXCEPT ![p] = NoThread]
      /\ UNCHANGED <<primary, upToDate, inbox, loop, kept>>
  BY <1>p, <1>1 DEF CloseSession, roles, net, history
<1>3. Table[u] \in GoodRows /\ thread \in [Ports -> ThreadType] /\ u \in Profiles /\ u \in DOMAIN Table
  BY <1>p, <1>2, RunningTypes DEF TypeInv, Threads
<1>4. row.followers = Followers(primary, u)
  <2>1. row.followers = Table[u].followers
    BY <1>1, <1>3 DEF GoodRows, RowType
  <2> QED BY <1>3, <2>1, NobodyFollowsNew DEF Table
<1>5. NoThread.toTell = <<>>
  BY DEF NoThread
<1>6. \A q \in Ports : thread'[q] = thread[q] \/ (thread[q].toTell = <<>> /\ thread'[q].toTell = <<>>)
  BY <1>2, <1>3, <1>5
<1>7. primary # Nobody /\ ~Out(primary, u)
  BY <1>p, <1>2, ThreadIsIn, Busy
<1>8. \A v : Connecting(v)' <=> Connecting(v)
  BY <1>2 DEF Connecting
<1> QED BY <1>2, <1>3, <1>4, <1>6, <1>7, <1>8, RowTurns

LEMMA ShowKept ==
  ASSUME TypeInv, Sound, Sess, KeptSound, NEW p \in Ports, NEW message, Show(p, message)
  PROVE  KeptSound'
<1>p. PICK u : u = thread[p].profile
  OBVIOUS
<1>1. PICK row : row = [Table[u] EXCEPT !.messages = @ \ {message}]
  OBVIOUS
<1>2. /\ thread[p].pc = "run" /\ SetRow(primary, u, row)
      /\ UNCHANGED <<primary, upToDate, inbox, thread, loop, kept>>
  BY <1>p, <1>1 DEF Show, roles, net, history
<1>3. Table[u] \in GoodRows /\ u \in Profiles /\ u \in DOMAIN Table
  BY <1>p, <1>2, RunningTypes
<1>4. row.followers = Followers(primary, u)
  <2>1. row.followers = Table[u].followers
    BY <1>1, <1>3 DEF GoodRows, RowType
  <2> QED BY <1>3, <2>1, NobodyFollowsNew DEF Table
<1>5. primary # Nobody /\ ~Out(primary, u)
  BY <1>p, <1>2, ThreadIsIn, Busy
<1>6. \A v : Connecting(v)' <=> Connecting(v)
  BY <1>2 DEF Connecting
<1> QED BY <1>2, <1>3, <1>4, <1>5, <1>6, RowTurns

\* A thread sets out to tell something, of a profile that has a session.
LEMMA FollowKept ==
  ASSUME TypeInv, Sound, Sess, KeptSound, NEW p \in Ports, NEW new \in Profiles, Follow(p, new)
  PROVE  KeptSound'
<1>u. PICK u : u = thread[p].profile
  OBVIOUS
<1>d. PICK d : d = [type |-> "FOLLOW", profile |-> u, follow |-> new]
  OBVIOUS
<1>1. /\ thread[p].pc = "run" /\ Tell(p, "tell", d)
      /\ masterTable' = [masterTable EXCEPT ![primary] = Followed(@, u, new)]
      /\ UNCHANGED <<primary, upToDate, inbox, loop, kept>>
  BY <1>u, <1>d DEF Follow, roles, net, history
<1>2. /\ primary # Nobody /\ primary \in Servers /\ upToDate \subseteq Servers /\ primary \in upToDate
      /\ ~Out(primary, u)
  BY <1>u, <1>1, Running, ThreadIsIn DEF Sound, Roles
<1>h. PICK here \in Servers : here = primary /\ primary' = here /\ here \in upToDate
  BY <1>1, <1>2
<1>3. /\ thread[p].toTell = <<>>
      /\ \A q \in Ports \ {p} : thread'[q] = thread[q]
      /\ thread'[p].toTell # <<>> => thread'[p].datagram = d
  BY <1>1, <1>2, Sets
<1>4. \A q \in Ports : \/ thread'[q] = thread[q]
                       \/ thread[q].toTell = <<>> /\ (thread'[q].toTell # <<>> => Own(thread'[q].datagram))
  <2>1. Own(d)
    BY <1>d DEF Own
  <2> QED BY <1>3, <2>1
<1>5. /\ DOMAIN masterTable'[here] = DOMAIN masterTable[here]
      /\ \A v \in DOMAIN masterTable[here] :
           Followers(here, v)' = IF v = new /\ new # u THEN Followers(here, v) \cup {u} ELSE Followers(here, v)
      /\ \A v : Messages(here, v) \subseteq Messages(here, v)' /\ Sessions(here, v)' = Sessions(here, v)
      /\ \A v : v \notin DOMAIN masterTable[here] => Followers(here, v)' = Followers(here, v)
      /\ \A s \in Servers \ {here} : masterTable'[s] = masterTable[s]
  <2>1. masterTable' = [masterTable EXCEPT ![here] = Followed(@, u, new)]
    BY <1>1, <1>h
  <2> QED BY <2>1, FollowedRows, Zenon
<1>6. \A v, w : v # u /\ v \in Followers(here, w)' => v \in Followers(here, w)
  <2> SUFFICES ASSUME NEW v, NEW w, v # u, v \in Followers(here, w)' PROVE v \in Followers(here, w)
    OBVIOUS
  <2>1. CASE w \in DOMAIN masterTable[here]
    BY <1>5, <2>1
  <2>2. CASE w \notin DOMAIN masterTable[here]
    BY <1>5, <2>2
  <2> QED BY <2>1, <2>2
<1>7. \A v : Out(here, v) => Out(here, v)'
  BY <1>1, <1>5 DEF Out, Connecting
<1>8. \A v, m : v # u /\ Held(here, v, m) => Held(here, v, m)'
  BY <1>5, <1>6 DEF Held
<1>9. \A v \in Profiles : \A m \in kept'[v] :
        /\ m \in kept[v]
        /\ Out(primary, v) => Out(primary, v)'
        /\ Out(primary, v) /\ Held(primary, v, m) => Held(primary, v, m)'
  BY <1>1, <1>2, <1>h, <1>7, <1>8
<1>10. \A s \in upToDate \ {primary} : masterTable'[s] = masterTable[s]
  BY <1>2, <1>h, <1>5
<1> QED BY <1>1, <1>2, <1>4, <1>9, <1>10, KeptTurns

LEMMA SendKept ==
  ASSUME TypeInv, Sound, Sess, KeptSound, NEW p \in Ports, Send(p)
  PROVE  KeptSound'
<1>u. PICK u : u = thread[p].profile
  OBVIOUS
<1>n. PICK new : new = [from |-> u, id |-> sends + 1]
  OBVIOUS
<1>d. PICK d : d = [type |-> "SEND", profile |-> u, message |-> new]
  OBVIOUS
<1>t. PICK to : to = Table[u].followers \cap DOMAIN Table
  OBVIOUS
<1>1. /\ thread[p].pc = "run" /\ Tell(p, "tell", d)
      /\ masterTable' = [masterTable EXCEPT ![primary] = Post(@, new, to)]
      /\ kept' = [v \in Profiles |-> IF v \in to /\ Offline(primary, v) /\ ~Connecting(v)
                                     THEN kept[v] \cup {new} ELSE kept[v]]
      /\ UNCHANGED <<primary, upToDate, inbox, loop>>
  BY <1>u, <1>n, <1>d, <1>t DEF Send, roles, net
<1>2. /\ primary # Nobody /\ primary \in Servers /\ upToDate \subseteq Servers /\ primary \in upToDate
      /\ u \in DOMAIN Table
  BY <1>u, <1>1, Running, RunningTypes DEF Sound, Roles
<1>h. PICK here \in Servers : here = primary /\ primary' = here /\ here \in upToDate /\ Table = masterTable[here]
  BY <1>1, <1>2 DEF Table
<1>3. /\ thread[p].toTell = <<>> /\ thread'[p].toTell = backupServers
      /\ \A q \in Ports \ {p} : thread'[q] = thread[q]
      /\ thread'[p].toTell # <<>> => thread'[p].datagram = d
  BY <1>1, <1>2, Sets
<1>4. \A q \in Ports : \/ thread'[q] = thread[q]
                       \/ thread[q].toTell = <<>> /\ (thread'[q].toTell # <<>> => Own(thread'[q].datagram))
  <2>1. new.from = u /\ d.profile = u /\ d.message = new
    BY <1>n, <1>d
  <2>2. Own(d)
    BY <2>1 DEF Own
  <2> QED BY <1>3, <2>2
<1>5. /\ DOMAIN masterTable'[here] = DOMAIN masterTable[here]
      /\ \A v : /\ Followers(here, v)' = Followers(here, v) /\ Sessions(here, v)' = Sessions(here, v)
                /\ Messages(here, v) \subseteq Messages(here, v)'
                /\ v \in to \cap DOMAIN masterTable[here] => new \in Messages(here, v)'
      /\ \A s \in Servers \ {here} : masterTable'[s] = masterTable[s]
  <2>1. masterTable' = [masterTable EXCEPT ![here] = Post(@, new, to)]
    BY <1>1, <1>h
  <2> QED BY <2>1, Posted, Zenon
<1>6. \A s \in upToDate \ {here} : Sent(s, new)'
  <2> TAKE s \in upToDate \ {here}
  <2>1. s \in ToSet(thread'[p].toTell)
    BY <1>h, <1>3 DEF Sound, Enlisted
  <2>2. thread'[p].datagram = d
    BY <1>3, <2>1, NewThreadIs
  <2>3. IsSend(d, new)
    BY <1>d DEF IsSend
  <2> QED BY <2>1, <2>2, <2>3 DEF Sent
<1>7. \A v : Out(here, v) => Out(here, v)'
  BY <1>1, <1>5 DEF Out, Connecting
<1>8. \A v, m : Held(here, v, m) => Held(here, v, m)'
  BY <1>5 DEF Held
<1>9. ASSUME NEW v \in Profiles, NEW m \in kept'[v]
      PROVE  \/ /\ m \in kept[v]
                /\ Out(primary, v) => Out(primary, v)'
                /\ Out(primary, v) /\ Held(primary, v, m) => Held(primary, v, m)'
             \/ Out(primary, v)' /\ Held(primary, v, m)' /\ \A s \in upToDate \ {primary} : Sent(s, m)'
  <2>1. CASE m \in kept[v]
    BY <1>h, <1>7, <1>8, <2>1
  <2>2. CASE m \notin kept[v]
    <3>1. m = new /\ v \in to /\ Offline(here, v) /\ ~Connecting(v)
      BY <1>1, <1>h, <1>9, <2>2
    <3>2. v \in DOMAIN masterTable[here]
      BY <1>t, <1>h, <3>1
    <3>3. Out(here, v)
      BY <3>1, <3>2, SessionsHere DEF Out, Offline
    <3>4. Held(here, v, m)'
      BY <1>5, <3>1, <3>2 DEF Held
    <3> QED BY <1>h, <1>6, <1>7, <3>1, <3>3, <3>4
  <2> QED BY <2>1, <2>2
<1>10. \A s \in upToDate \ {primary} : masterTable'[s] = masterTable[s]
  BY <1>2, <1>h, <1>5
<1> QED BY <1>1, <1>2, <1>4, <1>9, <1>10, KeptTurns

LEMMA ExitKept ==
  ASSUME TypeInv, Sound, Sess, KeptSound, NEW p \in Ports, Exit(p)
  PROVE  KeptSound'
<1>d. PICK d : d = [type |-> "DISCONNECT", profile |-> thread[p].profile, port |-> p]
  OBVIOUS
<1>1. /\ thread[p].pc = "run" /\ Tell(p, "exit", d)
      /\ UNCHANGED <<primary, upToDate, inbox, masterTable, loop, kept>>
  BY <1>d DEF Exit, roles, net, history
<1>2. primary # Nobody
  BY <1>1, SomebodyServes
<1>h. PICK here \in Servers : here = primary /\ primary' = here
  BY <1>1, <1>2, SomebodyServes
<1>3. /\ thread[p].toTell = <<>>
      /\ \A q \in Ports \ {p} : thread'[q] = thread[q]
      /\ thread'[p].toTell # <<>> => thread'[p].datagram = d
  BY <1>1, <1>2, Sets
<1>4. \A q \in Ports : \/ thread'[q] = thread[q]
                       \/ thread[q].toTell = <<>> /\ (thread'[q].toTell # <<>> => Own(thread'[q].datagram))
  <2>1. Own(d)
    BY <1>d DEF Own
  <2> QED BY <1>3, <2>1
<1>5. \A v : Out(here, v) => Out(here, v)'
  BY <1>1 DEF Out, Connecting, Sessions, RowOf
<1>6. \A v, m : Held(here, v, m)' <=> Held(here, v, m)
  BY <1>1 DEF Held, Followers, Messages, RowOf
<1>7. \A v \in Profiles : \A m \in kept'[v] :
        /\ m \in kept[v]
        /\ Out(primary, v) => Out(primary, v)'
        /\ Out(primary, v) /\ Held(primary, v, m) => Held(primary, v, m)'
  BY <1>1, <1>h, <1>5, <1>6
<1> QED BY <1>1, <1>2, <1>4, <1>7, KeptTurns

LEMMA JoinKept ==
  ASSUME TypeInv, Sound, KeptSound, NEW b \in Servers, Join(b)
  PROVE  KeptSound'
<1>1. /\ primary # Nobody /\ b \notin alive
      /\ UNCHANGED <<primary, upToDate, inbox, loop, thread, kept>>
      /\ \E t : masterTable' = [masterTable EXCEPT ![b] = t]
  BY DEF Join, Serving, history
<1>2. upToDate \subseteq alive /\ primary \in upToDate /\ upToDate \subseteq Servers
  BY <1>1, SomebodyServes DEF Sound, Roles
<1>h. PICK here \in Servers : here = primary /\ primary' = here /\ here \in upToDate
  BY <1>1, <1>2
<1>3. \A s \in upToDate : masterTable'[s] = masterTable[s]
  BY <1>1, <1>2 DEF TypeInv, Tables
<1>4. masterTable'[here] = masterTable[here]
  BY <1>h, <1>3
<1>5. \A v : Out(here, v) => Out(here, v)'
  BY <1>1, <1>4 DEF Out, Connecting, Sessions, RowOf
<1>6. \A v, m : Held(here, v, m)' <=> Held(here, v, m)
  BY <1>4 DEF Held, Followers, Messages, RowOf
<1>7. \A v \in Profiles : \A m \in kept'[v] :
        /\ m \in kept[v]
        /\ Out(primary, v) => Out(primary, v)'
        /\ Out(primary, v) /\ Held(primary, v, m) => Held(primary, v, m)'
  BY <1>1, <1>h, <1>5, <1>6
<1> QED BY <1>1, <1>3, <1>7, KeptTurns

-----------------------------------------------------------------------------
(* The steps that send.                                                     *)

LEMMA SendToComing ==
  ASSUME TypeInv, NEW c \in Servers, NEW d \in DatagramType, SendTo(c, d),
         UNCHANGED <<masterTable, nextClientPort>>, NEW s \in Servers, NEW v, NEW m
  PROVE  /\ ~(s = c /\ ComesBy(d, v)) => /\ Arriving(s, v, m) => Arriving(s, v, m)'
                                         /\ Settled(s, v, m) => Settled(s, v, m)'
         /\ s = c /\ c \in alive /\ IsSend(d, m) /\ (\A p \in Ports : ~Has(s, v, p)) => Arriving(s, v, m)'
<1>1. /\ \A x : Sessions(s, x)' = Sessions(s, x) /\ Followers(s, x)' = Followers(s, x) /\ Messages(s, x)' = Messages(s, x)
  BY DEF Sessions, Followers, Messages, RowOf
<1>2. Held(s, v, m)' <=> Held(s, v, m)
  BY <1>1 DEF Held
<1>3. CASE ~(s = c /\ c \in alive)
  <2>1. inbox'[s] = inbox[s]
    BY <1>3 DEF SendTo, TypeInv, StaticTypes
  <2>2. Arriving(s, v, m) => Arriving(s, v, m)'
    BY <1>1, <2>1 DEF Arriving, ArrivesAt, QuietFrom
  <2>3. Settled(s, v, m) => Settled(s, v, m)'
    BY <1>2, <2>1 DEF Settled, QuietFrom
  <2> QED BY <1>3, <2>2, <2>3
<1>4. CASE s = c /\ c \in alive
  <2>1. PICK q \in Seq(DatagramType) : q = inbox[s] /\ inbox'[s] = Append(q, d)
    BY <1>4 DEF SendTo, TypeInv, StaticTypes
  <2>a. PICK n, r : IsAppend(DatagramType, q, d, n, r)
    BY AppendIs
  <2>2. /\ n \in Nat /\ n = Len(q) /\ DOMAIN q = 1 .. n /\ r = Append(q, d) /\ DOMAIN r = 1 .. n + 1 /\ r[n + 1] = d
        /\ \A i \in 1 .. n : r[i] = q[i]
    BY <2>a DEF IsAppend
  <2>3. PICK open : open = ToSet(Sessions(s, v))
    OBVIOUS
  <2>4. \A k \in 0 .. n : \A p : OpenAfter(open, r, k, v, p) <=> OpenAfter(open, q, k, v, p)
    <3>1. \A p : \A k \in 0 .. Len(q) : OpenAfter(open, Append(q, d), k, v, p) <=> OpenAfter(open, q, k, v, p)
      BY <2>1, OpenAppend
    <3> QED BY <2>2, <3>1
  <2>5. \A j \in 1 .. n : ~ComesBy(d, v) /\ QuietFrom(s, v, j) => QuietFrom(s, v, j)'
    <3> SUFFICES ASSUME NEW j \in 1 .. n, ~ComesBy(d, v), QuietFrom(s, v, j), NEW i \in 1 .. n + 1, i >= j
                 PROVE  ~ComesBy(r[i], v)
      BY <2>1, <2>2 DEF QuietFrom
    <3>1. CASE i \in 1 .. n
      BY <2>1, <2>2, <3>1 DEF QuietFrom
    <3>2. CASE i = n + 1
      BY <2>2, <3>2
    <3> QED BY <2>2, <3>1, <3>2
  <2>6. ASSUME ~ComesBy(d, v), Arriving(s, v, m) PROVE Arriving(s, v, m)'
    <3>1. PICK j \in 1 .. n : /\ IsSend(q[j], m) /\ QuietFrom(s, v, j)
                              /\ \A p \in Ports : ~OpenAfter(open, q, j - 1, v, p)
      BY <2>1, <2>2, <2>3, <2>6 DEF Arriving, ArrivesAt
    <3>2. j - 1 \in 0 .. n /\ j \in 1 .. n + 1
      BY <2>2
    <3>3. \A p \in Ports : ~OpenAfter(open, r, j - 1, v, p)
      BY <2>4, <3>1, <3>2
    <3>4. ArrivesAt(s, v, m, j)'
      BY <1>1, <2>1, <2>2, <2>3, <2>5, <2>6, <3>1, <3>3 DEF ArrivesAt
    <3> QED BY <2>1, <2>2, <3>2, <3>4 DEF Arriving
  <2>7. ASSUME ~ComesBy(d, v), Settled(s, v, m) PROVE Settled(s, v, m)'
    <3>1. QuietFrom(s, v, 1)'
      <4> SUFFICES ASSUME NEW i \in 1 .. n + 1 PROVE ~ComesBy(r[i], v)
        BY <2>1, <2>2 DEF QuietFrom
      <4>1. \A k \in 1 .. n : ~ComesBy(q[k], v)
        <5> TAKE k \in 1 .. n
        <5>1. k \in DOMAIN inbox[s] /\ k >= 1 /\ inbox[s][k] = q[k]
          BY <2>1, <2>2
        <5>2. QuietFrom(s, v, 1)
          BY <2>7 DEF Settled
        <5> QED BY <5>1, <5>2 DEF QuietFrom
      <4>2. i \in 1 .. n \/ i = n + 1
        BY <2>2
      <4> QED BY <2>2, <2>7, <4>1, <4>2
    <3> QED BY <1>2, <2>7, <3>1 DEF Settled
  <2>8. ASSUME IsSend(d, m), \A p \in Ports : ~Has(s, v, p) PROVE Arriving(s, v, m)'
    <3>1. \A p \in Ports : ~OpenAfter(open, q, n, v, p)
      BY <2>1, <2>2, <2>3, <2>8 DEF Has
    <3>2. n \in 0 .. n /\ n + 1 \in 1 .. n + 1 /\ n + 1 - 1 = n
      BY <2>2
    <3>3. \A p \in Ports : ~OpenAfter(open, r, n + 1 - 1, v, p)
      BY <2>4, <3>1, <3>2
    <3>4. ~ComesBy(d, v)
      BY <2>8 DEF IsSend, ComesBy
    <3>5. QuietFrom(s, v, n + 1)'
      <4> SUFFICES ASSUME NEW i \in 1 .. n + 1, i >= n + 1 PROVE ~ComesBy(r[i], v)
        BY <2>1, <2>2 DEF QuietFrom
      <4>1. i = n + 1
        BY <2>2
      <4> QED BY <2>2, <3>4, <4>1
    <3>6. ArrivesAt(s, v, m, n + 1)'
      BY <1>1, <2>1, <2>2, <2>3, <2>8, <3>3, <3>5 DEF ArrivesAt
    <3> QED BY <2>1, <2>2, <3>2, <3>6 DEF Arriving
  <2> QED BY <1>4, <2>6, <2>7, <2>8
<1> QED BY <1>3, <1>4

\* Nobody is to have a session of who is out.
LEMMA OutEverywhere ==
  ASSUME Sess, primary # Nobody, NEW s \in upToDate \ {primary}, NEW v \in Profiles, Out(primary, v)
  PROVE  \A p \in Ports : ~Has(s, v, p)
<1>1. Following(s)
  BY Leads
<1>2. \A p : p \notin ToSet(Sessions(primary, v)) /\ ~Starting(s, v, p)
  BY NotOut DEF Out, Starting, Connecting
<1> QED BY <1>1, <1>2 DEF Following, Expected

LEMMA SendingKept ==
  ASSUME TypeInv, Sound, Sess, KeptSound, NEW c \in Servers, NEW d \in DatagramType, SendTo(c, d), Own(d),
         d.type \in {"CONNECT", "FOLLOW"} => ~Out(primary, d.profile), primary # Nobody,
         UNCHANGED <<primary, masterTable, nextClientPort, upToDate, kept>>,
         \A v : Connecting(v)' <=> Connecting(v),
         \A p \in Ports : thread'[p].toTell # <<>> =>
           thread[p].toTell # <<>> /\ thread'[p].datagram = thread[p].datagram,
         \A s \in upToDate : \A m : Sent(s, m) => Sent(s, m)' \/ (s = c /\ IsSend(d, m))
  PROVE  KeptSound'
<1>1. PICK here \in Servers : here = primary /\ primary' = here
  BY SomebodyServes
<1>2. upToDate \subseteq alive /\ upToDate \subseteq Servers /\ SendsOwn
  BY DEF Sound, Roles, KeptSound
<1>3. SendsOwn'
  <2>1. ASSUME NEW s \in upToDate, NEW i \in DOMAIN inbox'[s] PROVE Own(inbox'[s][i])
    <3>1. CASE s # c
      <4>1. inbox'[s] = inbox[s]
        BY <1>2, <2>1, <3>1 DEF SendTo, TypeInv, StaticTypes
      <4> QED BY <1>2, <2>1, <4>1 DEF SendsOwn
    <3>2. CASE s = c
      <4>1. PICK q \in Seq(DatagramType) : q = inbox[s] /\ inbox'[s] = Append(q, d)
        BY <1>2, <2>1, <3>2 DEF SendTo, TypeInv, StaticTypes
      <4>2. PICK n, r : IsAppend(DatagramType, q, d, n, r)
        BY AppendIs
      <4>3. /\ n \in Nat /\ DOMAIN q = 1 .. n /\ inbox'[s] = r /\ DOMAIN r = 1 .. n + 1 /\ r[n + 1] = d
            /\ \A k \in 1 .. n : r[k] = q[k]
        BY <4>1, <4>2 DEF IsAppend
      <4>4. i \in 1 .. n \/ i = n + 1
        BY <2>1, <4>3
      <4>5. \A k \in 1 .. n : Own(q[k])
        BY <1>2, <2>1, <4>1, <4>3 DEF SendsOwn
      <4> QED BY <4>3, <4>4, <4>5
    <3> QED BY <3>1, <3>2
  <2>2. \A p \in Ports : thread'[p].toTell # <<>> => Own(thread'[p].datagram)
    BY <1>2 DEF SendsOwn
  <2> QED BY <2>1, <2>2 DEF SendsOwn
<1>4. ASSUME NEW v \in Profiles, NEW m \in kept'[v] PROVE Safe(v, m)'
  <2>1. Safe(v, m)
    BY <1>4 DEF KeptSound
  <2>2. Out(here, v) /\ Held(here, v, m) /\ \A s \in upToDate \ {here} : Coming(s, v, m)
    BY <1>1, <2>1 DEF Safe
  <2>3. Out(here, v)' /\ Held(here, v, m)'
    BY <2>2 DEF Out, Held, Sessions, Followers, Messages, RowOf
  <2>4. ~ComesBy(d, v)
    BY <1>1, <2>2 DEF ComesBy
  <2>5. ASSUME NEW s \in upToDate \ {here} PROVE Coming(s, v, m)'
    <3>1. s \in Servers /\ s \in alive /\ Coming(s, v, m) /\ s \in upToDate
      BY <1>2, <2>2, <2>5
    <3>2. \A p \in Ports : ~Has(s, v, p)
      BY <1>1, <2>2, <2>5, OutEverywhere
    <3>3. /\ Arriving(s, v, m) => Arriving(s, v, m)'
          /\ Settled(s, v, m) => Settled(s, v, m)'
          /\ s = c /\ IsSend(d, m) => Arriving(s, v, m)'
      BY <2>4, <3>1, <3>2, SendToComing
    <3>4. Sent(s, m) => Sent(s, m)' \/ (s = c /\ IsSend(d, m))
      BY <3>1
    <3> QED BY <3>1, <3>3, <3>4 DEF Coming
  <2> QED BY <1>1, <2>3, <2>5 DEF Safe
<1> QED BY <1>3, <1>4 DEF KeptSound

LEMMA TellConnectKept ==
  ASSUME TypeInv, Sound, Sess, KeptSound, TellConnect
  PROVE  KeptSound'
<1>1. loop.toTell # <<>>
  BY DEF TellConnect
<1>2. /\ primary # Nobody /\ primary \in Servers /\ loop \in LoopType /\ loop.toTell \in Seq(Servers)
      /\ loop.pc = "tell" /\ loop.profile \in DOMAIN Table /\ nextClientPort[primary] \in Ports
  BY <1>1, SomebodyServes DEF TypeInv, LoopTyped, LoopType
<1>3. loop.profile \in Profiles
  BY <1>2, Server DEF IsTable
<1>d. PICK d : d = [type |-> "CONNECT", profile |-> loop.profile, port |-> nextClientPort[primary]]
  OBVIOUS
<1>c. PICK c : c = Head(loop.toTell)
  OBVIOUS
<1>4. /\ SendTo(c, d) /\ loop' = [loop EXCEPT !.toTell = Tail(@)]
      /\ UNCHANGED <<primary, masterTable, nextClientPort, thread, upToDate, kept>>
  BY <1>d, <1>c DEF TellConnect, roles, counts, history
<1>5. d \in DatagramType /\ d.type = "CONNECT" /\ Own(d)
  BY <1>d, <1>2, <1>3 DEF DatagramType, Own
<1>6. c \in Servers
  BY <1>1, <1>2, <1>c, HeadOrTail
<1>7. \A v : Connecting(v)' <=> Connecting(v)
  <2>1. loop'.pc = loop.pc /\ loop'.profile = loop.profile
    BY <1>2, <1>4 DEF LoopType
  <2> QED BY <2>1 DEF Connecting
<1>8. \A s, m : Sent(s, m) => Sent(s, m)'
  BY <1>4 DEF Sent
<1>9. ~Out(primary, d.profile)
  BY <1>d, <1>2 DEF Out, Connecting
<1> QED BY <1>2, <1>4, <1>5, <1>6, <1>7, <1>8, <1>9, SendingKept

LEMMA TellNextKept ==
  ASSUME TypeInv, Sound, Sess, KeptSound, NEW p \in Ports, TellNext(p)
  PROVE  KeptSound'
<1>1. PICK c, d : TellsNext(p, c, d)
  BY TellsOne
<1>2. /\ SendTo(c, d) /\ d \in DatagramType /\ d = thread[p].datagram /\ d.profile = thread[p].profile
      /\ c \in Servers /\ c \in ToSet(thread[p].toTell)
      /\ ToSet(thread'[p].toTell) = ToSet(thread[p].toTell) \ {c}
      /\ thread'[p].toTell # <<>> => thread'[p].datagram = d
      /\ \A q \in Ports \ {p} : thread'[q] = thread[q]
      /\ thread[p].pc # "none"
      /\ UNCHANGED <<primary, masterTable, upToDate>>
  BY <1>1 DEF TellsNext
<1>3. UNCHANGED <<nextClientPort, loop, kept>>
  BY DEF TellNext, history
<1>4. primary # Nobody /\ ~Out(primary, d.profile)
  BY <1>2, ThreadIsIn, Busy
<1>5. thread[p].toTell # <<>> /\ Own(d)
  <2>1. thread[p].toTell # <<>>
    BY DEF TellNext
  <2> QED BY <1>2, <2>1 DEF KeptSound, SendsOwn
<1>6. \A q \in Ports : thread'[q].toTell # <<>> =>
        thread[q].toTell # <<>> /\ thread'[q].datagram = thread[q].datagram
  BY <1>2, <1>5
<1>7. ASSUME NEW s, NEW m, Sent(s, m), ~(s = c /\ IsSend(d, m)) PROVE Sent(s, m)'
  <2>1. PICK q \in Ports : s \in ToSet(thread[q].toTell) /\ IsSend(thread[q].datagram, m)
    BY <1>7 DEF Sent
  <2>2. CASE q # p
    BY <1>2, <2>1, <2>2 DEF Sent
  <2>3. CASE q = p
    <3>1. s # c /\ s \in ToSet(thread'[p].toTell)
      BY <1>2, <1>7, <2>1, <2>3
    <3>2. thread'[p].datagram = d
      BY <1>2, <3>1, NewThreadIs
    <3> QED BY <1>2, <2>1, <2>3, <3>1, <3>2 DEF Sent
  <2> QED BY <2>2, <2>3
<1>8. \A v : Connecting(v)' <=> Connecting(v)
  BY <1>3 DEF Connecting
<1> QED BY <1>2, <1>3, <1>4, <1>5, <1>6, <1>7, <1>8, SendingKept

-----------------------------------------------------------------------------
(* The primary dies, the backups read, and one of them takes the port.      *)

LEMMA PrimaryDiesKept ==
  ASSUME TypeInv, Sound, Sess, KeptSound, primary # Nobody, PrimaryDies
  PROVE  KeptSound'
<1>1. /\ primary' = Nobody
      /\ upToDate' = upToDate \ (Untold \cup {primary})
      /\ thread' = [p \in Ports |-> NoThread]
      /\ masterTable' = [masterTable EXCEPT ![primary] = <<>>]
      /\ nextClientPort' = [nextClientPort EXCEPT ![primary] = FirstPort]
      /\ UNCHANGED <<inbox, kept>>
  BY DEF PrimaryDies, Forgets, net
<1>2. PICK here \in Servers : here = primary
  BY Server
<1>3. ASSUME NEW s \in upToDate'
      PROVE  /\ s \in upToDate \ {here} /\ s \in Servers /\ masterTable'[s] = masterTable[s] /\ inbox'[s] = inbox[s]
             /\ nextClientPort'[s] = nextClientPort[s] /\ \A m : ~Sent(s, m)
  <2>1. s \in upToDate /\ s # here /\ s \notin Untold
    BY <1>1, <1>2, <1>3
  <2>2. s \in Servers /\ \A p \in Ports : s \notin ToSet(thread[p].toTell)
    BY <2>1 DEF Untold, TypeInv, StaticTypes
  <2>3. masterTable'[s] = masterTable[s] /\ inbox'[s] = inbox[s] /\ nextClientPort'[s] = nextClientPort[s]
    BY <1>1, <1>2, <2>1, <2>2 DEF TypeInv, Tables, StaticTypes
  <2> QED BY <2>1, <2>2, <2>3 DEF Sent
<1>4. SendsOwn'
  <2>1. \A p \in Ports : thread'[p].toTell = <<>>
    BY <1>1 DEF NoThread
  <2>2. \A s \in upToDate' : \A i \in DOMAIN inbox'[s] : Own(inbox'[s][i])
    BY <1>3 DEF KeptSound, SendsOwn
  <2> QED BY <2>1, <2>2 DEF SendsOwn
<1>5. ASSUME NEW v \in Profiles, NEW m \in kept'[v], NEW s \in upToDate'
      PROVE  Coming(s, v, m)' /\ \A p \in Ports : ~Has(s, v, p)'
  <2>1. Safe(v, m)
    BY <1>1, <1>5 DEF KeptSound
  <2>2. Out(here, v) /\ Coming(s, v, m)
    BY <1>2, <1>3, <2>1 DEF Safe
  <2>3. Arriving(s, v, m) \/ Settled(s, v, m)
    BY <1>3, <2>2 DEF Coming
  <2>4. \A u : Sessions(s, u)' = Sessions(s, u) /\ Followers(s, u)' = Followers(s, u) /\ Messages(s, u)' = Messages(s, u)
    BY <1>3 DEF Sessions, Followers, Messages, RowOf
  <2>5. Arriving(s, v, m) => Arriving(s, v, m)'
    BY <1>3, <2>4 DEF Arriving, ArrivesAt, QuietFrom
  <2>6. Settled(s, v, m) => Settled(s, v, m)'
    BY <1>3, <2>4 DEF Settled, Held, QuietFrom
  <2>7. \A p \in Ports : ~Has(s, v, p)
    BY <1>2, <1>3, <2>2, OutEverywhere
  <2>8. SameView(s)
    BY <1>3, <2>4 DEF SameView
  <2>9. \A p \in Ports : ~Has(s, v, p)'
    BY <2>7, <2>8, ViewKept
  <2> QED BY <2>3, <2>5, <2>6, <2>9 DEF Coming
<1>6. \A v \in Profiles : \A m \in kept'[v] : Safe(v, m)'
  BY <1>1, <1>5 DEF Safe
<1> QED BY <1>4, <1>6 DEF KeptSound

LEMMA NoElements ==
  ASSUME NEW S, NEW q \in Seq(S), \A x \in S : x \notin ToSet(q)
  PROVE  q = <<>>
<1>1. Len(q) \in Nat /\ DOMAIN q = 1 .. Len(q)
  OBVIOUS
<1>2. ASSUME Len(q) # 0 PROVE FALSE
  <2>1. 1 \in DOMAIN q /\ q[1] \in S
    BY <1>1, <1>2
  <2>2. q[1] \in ToSet(q)
    BY <2>1 DEF ToSet
  <2> QED BY <2>1, <2>2
<1> QED BY <1>1, <1>2

\* What it reads is the message, with no session of v open, or comes before it.
LEMMA ReadComing ==
  ASSUME TypeInv, NEW b \in Servers, NEW k, Handled(b, k), ReadRow(b, k), Own(k), OwnPorts(b),
         NEW end \in Nat, Counted(b, end), NEW v \in Profiles, NEW m,
         Hears(b, v), Arriving(b, v, m) \/ Settled(b, v, m)
  PROVE  Arriving(b, v, m)' \/ Settled(b, v, m)'
<1>1. PICK q \in Seq(DatagramType) : q = inbox[b] /\ q # <<>> /\ k = q[1] /\ inbox'[b] = Tail(q)
  BY DEF ReadRow, TypeInv, StaticTypes
<1>a. PICK n, r : IsTail(DatagramType, q, n, r)
  BY <1>1, TailIs
<1>2. /\ n \in Nat /\ n + 1 = Len(q) /\ DOMAIN q = 1 .. n + 1 /\ r = Tail(q) /\ DOMAIN r = 1 .. n
      /\ inbox'[b] = r
      /\ \A i \in 1 .. n : r[i] = q[i + 1]
  BY <1>1, <1>a DEF IsTail
<1>3. ASSUME NEW j \in 1 .. n + 1, QuietFrom(b, v, j), NEW i \in 1 .. n, i + 1 >= j
      PROVE  ~ComesBy(r[i], v)
  <2>1. i + 1 \in DOMAIN inbox[b] /\ inbox[b][i + 1] = r[i]
    BY <1>1, <1>2
  <2> QED BY <1>3, <2>1 DEF QuietFrom
<1>f. /\ \A u : Followers(b, u)' = IF Asks(k, u, k.profile) /\ u \in DOMAIN masterTable[b]
                                   THEN Followers(b, u) \cup {k.profile} ELSE Followers(b, u)
      /\ \A u : Messages(b, u) \subseteq Messages(b, u)'
      /\ k.type = "SEND" =>
           \A u \in Followers(b, k.profile) \cap DOMAIN masterTable[b] :
             Sessions(b, u) = <<>> => k.message \in Messages(b, u)'
  BY DEF ReadRow
<1>4. CASE Settled(b, v, m)
  <2>1. QuietFrom(b, v, 1) /\ Held(b, v, m)
    BY <1>4 DEF Settled
  <2>2. QuietFrom(b, v, 1)'
    <3>1. \A i \in 1 .. n : ~ComesBy(r[i], v)
      BY <1>2, <1>3, <2>1
    <3> QED BY <1>2, <3>1 DEF QuietFrom
  <2>3. ~ComesBy(k, v)
    <3>1. 1 \in DOMAIN inbox[b] /\ inbox[b][1] = k
      BY <1>1, <1>2
    <3> QED BY <2>1, <3>1 DEF QuietFrom
  <2>4. Held(b, v, m)'
    <3> SUFFICES ASSUME v \in Followers(b, m.from)' PROVE m \in Messages(b, v)'
      BY DEF Held
    <3>1. v \in Followers(b, m.from)
      <4>1. CASE Asks(k, m.from, k.profile)
        <5>1. k.profile # v
          BY <2>3, <4>1 DEF Asks, ComesBy
        <5>2. v \in Followers(b, m.from) \cup {k.profile}
          BY <1>f
        <5> QED BY <5>1, <5>2
      <4>2. CASE ~Asks(k, m.from, k.profile)
        BY <1>f, <4>2
      <4> QED BY <4>1, <4>2
    <3>2. m \in Messages(b, v)
      BY <2>1, <3>1 DEF Held
    <3> QED BY <1>f, <3>2
  <2> QED BY <2>2, <2>4 DEF Settled
<1>5. CASE Arriving(b, v, m)
  <2>1. PICK j \in 1 .. n + 1 : ArrivesAt(b, v, m, j)
    BY <1>1, <1>2, <1>5 DEF Arriving
  <2>2. /\ IsSend(q[j], m) /\ QuietFrom(b, v, j)
        /\ \A p \in Ports : ~OpenAfter(ToSet(Sessions(b, v)), q, j - 1, v, p)
    BY <1>1, <2>1 DEF ArrivesAt
  <2>3. CASE j = 1
    <3>1. k.type = "SEND" /\ k.message = m /\ k.profile = m.from
      BY <1>1, <2>2, <2>3 DEF IsSend, Own
    <3>2. \A p \in Ports : p \notin ToSet(Sessions(b, v))
      <4>1. 1 .. 1 - 1 = {}
        OBVIOUS
      <4> QED BY <2>2, <2>3, <4>1 DEF OpenAfter
    <3>3. Sessions(b, v) = <<>>
      <4>1. Sessions(b, v) \in Seq(Ports)
        BY SessionsTyped
      <4> QED BY <3>2, <4>1, NoElements
    <3>4. Held(b, v, m)'
      <4>1. Followers(b, m.from)' = Followers(b, m.from)
        BY <1>f, <3>1 DEF Asks
      <4>2. v \in DOMAIN masterTable[b]
        <5>1. ~Told(inbox[b], v)
          <6> SUFFICES ASSUME NEW i \in DOMAIN inbox[b] PROVE ~(inbox[b][i].type = "CONNECT" /\ inbox[b][i].profile = v)
            BY DEF Told
          <6>1. i >= j
            BY <1>1, <1>2, <2>3
          <6> QED BY <2>2, <6>1 DEF QuietFrom, ComesBy
        <5> QED BY <5>1 DEF Hears
      <4> QED BY <1>f, <3>1, <3>3, <4>1, <4>2 DEF Held
    <3>5. QuietFrom(b, v, 1)'
      <4>1. \A i \in 1 .. n : ~ComesBy(r[i], v)
        <5> TAKE i \in 1 .. n
        <5>1. i + 1 >= j
          BY <1>2, <2>3
        <5> QED BY <1>3, <2>2, <5>1
      <4> QED BY <1>2, <4>1 DEF QuietFrom
    <3> QED BY <3>4, <3>5 DEF Settled
  <2>4. CASE j # 1
    <3>1. PICK i \in 1 .. n : j = i + 1
      <4>1. j - 1 \in 1 .. n /\ j = (j - 1) + 1
        BY <1>2, <2>4
      <4> QED BY <4>1
    <3>2. IsSend(r[i], m)
      BY <1>2, <2>2, <3>1
    <3>3. \A p \in Ports : ~OpenAfter(ToSet(Sessions(b, v)'), r, i - 1, v, p)
      <4> TAKE p \in Ports
      <4>1. \A l \in 0 .. Len(inbox[b]) - 1 :
              OpenAfter(ToSet(Sessions(b, v)'), Tail(inbox[b]), l, v, p) <=>
              OpenAfter(ToSet(Sessions(b, v)), inbox[b], l + 1, v, p)
        BY HasKept
      <4>2. \A l \in 0 .. n : OpenAfter(ToSet(Sessions(b, v)'), r, l, v, p) <=>
                              OpenAfter(ToSet(Sessions(b, v)), q, l + 1, v, p)
        <5>1. Len(q) - 1 = n
          BY <1>2
        <5> QED BY <1>1, <1>2, <4>1, <5>1
      <4>3. i - 1 \in 0 .. n /\ i - 1 + 1 = j - 1
        BY <1>2, <3>1
      <4> QED BY <2>2, <4>2, <4>3
    <3>4. QuietFrom(b, v, i)'
      <4>1. \A l \in 1 .. n : l >= i => ~ComesBy(r[l], v)
        <5> TAKE l \in 1 .. n
        <5>1. l >= i => l + 1 >= j
          BY <1>2, <3>1
        <5> QED BY <1>3, <2>2, <5>1
      <4> QED BY <1>2, <4>1 DEF QuietFrom
    <3>5. ArrivesAt(b, v, m, i)'
      BY <1>2, <3>2, <3>3, <3>4 DEF ArrivesAt
    <3> QED BY <1>2, <3>1, <3>5 DEF Arriving
  <2> QED BY <2>3, <2>4
<1> QED BY <1>4, <1>5

LEMMA BackupKept ==
  ASSUME TypeInv, Sound, Sess, KeptSound, KeptHeard, NEW b \in Servers, BackupStep(b)
  PROVE  KeptSound'
<1>1. /\ \A t \in Servers \ {b} : masterTable'[t] = masterTable[t] /\ inbox'[t] = inbox[t] /\ SameView(t)
      /\ b # primary
      /\ upToDate' \subseteq upToDate
      /\ UNCHANGED <<primary, loop, thread>>
  BY Others, OtherViews
<1>k. UNCHANGED kept
  BY DEF BackupStep, ReplicateConnect, ReplicateDisconnect, ReplicateFollow, ReplicateSend, Receives
<1>2. upToDate \subseteq Servers /\ SendsOwn
  BY DEF TypeInv, StaticTypes, KeptSound
<1>3. \A s, m : Sent(s, m)' <=> Sent(s, m)
  BY <1>1 DEF Sent
<1>4. ASSUME b \in upToDate'
      PROVE  \E k \in DatagramType : Handled(b, k) /\ ReadRow(b, k) /\ Own(k)
  <2>1. OwnPorts(b) /\ Room(b) /\ b \in upToDate
    BY <1>1, <1>4 DEF Sess
  <2>2. PICK k : Handled(b, k)
    BY <1>4, <2>1, Handles
  <2>3. PICK l : ReadRow(b, l)
    BY <1>4, <2>1, ReadsRow
  <2>4. k = inbox[b][1] /\ l = inbox[b][1] /\ inbox[b] # <<>> /\ k \in DatagramType
    BY <2>2, <2>3 DEF Handled, ReadRow
  <2>5. 1 \in DOMAIN inbox[b]
    BY <2>4 DEF TypeInv, StaticTypes
  <2>6. Own(k)
    BY <1>2, <2>1, <2>4, <2>5 DEF SendsOwn
  <2> QED BY <2>2, <2>3, <2>4, <2>6
<1>5. ASSUME b \in upToDate' PROVE \E end \in Nat : Counted(b, end)
  <2>1. CASE primary = Nobody
    BY <1>1, <1>5, <2>1 DEF Sess, Leaderless
  <2>2. CASE primary # Nobody
    <3>1. Following(b)
      BY <1>1, <1>5, <2>2, Leads
    <3>2. PICK here \in Servers : here = primary
      BY <2>2, Server
    <3>3. EndOf(b) \in Nat
      BY <3>2 DEF EndOf, TypeInv, StaticTypes
    <3> QED BY <3>1, <3>3 DEF Following
  <2> QED BY <2>1, <2>2
<1>6. ASSUME NEW s \in upToDate', NEW v \in Profiles, NEW m \in kept[v], Coming(s, v, m) PROVE Coming(s, v, m)'
  <2>1. CASE s # b
    <3>1. masterTable'[s] = masterTable[s] /\ inbox'[s] = inbox[s]
      BY <1>1, <1>2, <1>6, <2>1
    <3>2. \A u : Sessions(s, u)' = Sessions(s, u) /\ Followers(s, u)' = Followers(s, u) /\ Messages(s, u)' = Messages(s, u)
      BY <3>1 DEF Sessions, Followers, Messages, RowOf
    <3>3. Arriving(s, v, m) => Arriving(s, v, m)'
      BY <3>1, <3>2 DEF Arriving, ArrivesAt, QuietFrom
    <3>4. Settled(s, v, m) => Settled(s, v, m)'
      BY <3>1, <3>2 DEF Settled, Held, QuietFrom
    <3> QED BY <1>3, <1>6, <3>3, <3>4 DEF Coming
  <2>2. CASE s = b
    <3>1. PICK k \in DatagramType : Handled(b, k) /\ ReadRow(b, k) /\ Own(k)
      BY <1>4, <1>6, <2>2
    <3>2. PICK end \in Nat : Counted(b, end)
      BY <1>5, <1>6, <2>2
    <3>3. OwnPorts(b) /\ Hears(b, v)
      BY <1>1, <1>6, <2>2 DEF Sess, KeptHeard
    <3>4. Arriving(b, v, m) \/ Settled(b, v, m) => Arriving(b, v, m)' \/ Settled(b, v, m)'
      BY <3>1, <3>2, <3>3, ReadComing
    <3> QED BY <1>3, <1>6, <2>2, <3>4 DEF Coming
  <2> QED BY <2>1, <2>2
<1>7. SendsOwn'
  <2>1. ASSUME NEW s \in upToDate', NEW i \in DOMAIN inbox'[s] PROVE Own(inbox'[s][i])
    <3>1. CASE s # b
      <4>1. s \in upToDate /\ inbox'[s] = inbox[s]
        BY <1>1, <1>2, <2>1, <3>1
      <4> QED BY <1>2, <2>1, <4>1 DEF SendsOwn
    <3>2. CASE s = b
      <4>1. PICK k : ReadRow(b, k)
        BY <1>4, <2>1, <3>2
      <4>2. PICK q \in Seq(DatagramType) : q = inbox[b] /\ q # <<>> /\ inbox'[b] = Tail(q)
        BY <4>1 DEF ReadRow, TypeInv, StaticTypes
      <4>3. PICK n, r : IsTail(DatagramType, q, n, r)
        BY <4>2, TailIs
      <4>4. /\ n \in Nat /\ DOMAIN q = 1 .. n + 1 /\ inbox'[s] = r /\ DOMAIN r = 1 .. n
            /\ \A j \in 1 .. n : r[j] = q[j + 1]
        BY <3>2, <4>2, <4>3 DEF IsTail
      <4>5. s \in upToDate /\ i + 1 \in DOMAIN inbox[s] /\ inbox'[s][i] = inbox[s][i + 1]
        BY <1>1, <2>1, <3>2, <4>2, <4>4
      <4> QED BY <1>2, <4>5 DEF SendsOwn
    <3> QED BY <3>1, <3>2
  <2> QED BY <1>1, <1>2, <2>1 DEF SendsOwn
<1>8. ASSUME NEW v \in Profiles, NEW m \in kept'[v] PROVE Safe(v, m)'
  <2>1. m \in kept[v] /\ Safe(v, m)
    BY <1>k, <1>8 DEF KeptSound
  <2>2. CASE primary = Nobody
    <3>1. \A s \in upToDate : Coming(s, v, m) /\ \A p \in Ports : ~Has(s, v, p)
      BY <2>1, <2>2 DEF Safe
    <3>2. ASSUME NEW s \in upToDate' PROVE Coming(s, v, m)' /\ \A p \in Ports : ~Has(s, v, p)'
      <4>1. Coming(s, v, m)'
        BY <1>1, <1>6, <2>1, <3>1
      <4>2. CASE s # b
        <5>1. SameView(s)
          BY <1>1, <1>2, <3>2, <4>2
        <5> QED BY <1>1, <3>1, <3>2, <4>1, <5>1, ViewKept
      <4>3. CASE s = b
        <5>1. PICK k : Handled(b, k)
          BY <1>4, <3>2, <4>3
        <5>2. PICK end \in Nat : Counted(b, end)
          BY <1>5, <3>2, <4>3
        <5>3. OwnPorts(b)
          BY <1>1, <3>2, <4>3 DEF Sess
        <5>4. \A p \in Ports : Has(b, v, p)' <=> Has(b, v, p)
          BY <5>1, <5>2, <5>3, HasKept
        <5> QED BY <1>1, <3>1, <3>2, <4>1, <4>3, <5>4
      <4> QED BY <4>2, <4>3
    <3> QED BY <1>1, <2>2, <3>2 DEF Safe
  <2>3. CASE primary # Nobody
    <3>1. PICK here \in Servers : here = primary /\ primary' = here /\ here # b
      BY <1>1, <2>3, Server
    <3>2. Out(here, v) /\ Held(here, v, m) /\ \A s \in upToDate \ {here} : Coming(s, v, m)
      BY <2>1, <2>3, <3>1 DEF Safe
    <3>3. masterTable'[here] = masterTable[here]
      BY <1>1, <3>1
    <3>4. Out(here, v)' /\ Held(here, v, m)'
      BY <1>1, <3>2, <3>3 DEF Out, Connecting, Held, Sessions, Followers, Messages, RowOf
    <3>5. \A s \in upToDate' \ {here} : Coming(s, v, m)'
      BY <1>1, <1>6, <2>1, <3>2
    <3> QED BY <1>1, <2>3, <3>1, <3>4, <3>5 DEF Safe
  <2> QED BY <2>2, <2>3
<1> QED BY <1>7, <1>8 DEF KeptSound

\* The new owner of the port has nothing to read, and nobody is telling anything.
LEMMA TakePortKept ==
  ASSUME TypeInv, Sound, Sess, KeptSound, NEW b \in Servers, TakePort(b), upToDate' # {}
  PROVE  KeptSound'
<1>1. /\ primary = Nobody /\ primary' = b /\ b # Nobody
      /\ b \in upToDate /\ inbox[b] = <<>> /\ upToDate' = upToDate
      /\ inbox' = [inbox EXCEPT ![b] = <<>>]
      /\ UNCHANGED <<masterTable, loop, thread, kept>>
  BY ReplicationAssumption DEF TakePort, counts
<1>2. inbox' = inbox
  BY <1>1 DEF TypeInv, StaticTypes
<1>3. loop.pc = "receive" /\ \A p \in Ports : thread[p].toTell = <<>>
  BY <1>1 DEF TypeInv, Idle, Rest, NoThread
<1>4. \A s, m : ~Sent(s, m)
  BY <1>3, NewThreadIs DEF Sent
<1>5. SendsOwn'
  BY <1>1, <1>2 DEF KeptSound, SendsOwn
<1>6. /\ \A s, v, m : Arriving(s, v, m)' <=> Arriving(s, v, m)
      /\ \A s, v, m : Settled(s, v, m)' <=> Settled(s, v, m)
      /\ \A s, v, m : Held(s, v, m)' <=> Held(s, v, m)
      /\ \A s, v : Sessions(s, v)' = Sessions(s, v)
  BY <1>1, <1>2 DEF Arriving, ArrivesAt, QuietFrom, Settled, Held, Sessions, Followers, Messages, RowOf
<1>7. ASSUME NEW v \in Profiles, NEW m \in kept'[v] PROVE Safe(v, m)'
  <2>1. \A s \in upToDate : (Arriving(s, v, m) \/ Settled(s, v, m)) /\ \A p \in Ports : ~Has(s, v, p)
    BY <1>1, <1>4, <1>7 DEF KeptSound, Safe, Coming
  <2>2. Sessions(b, v) = <<>>
    <3>1. \A p \in Ports : p \notin ToSet(Sessions(b, v))
      BY <1>1, <2>1, NothingToRead
    <3>2. Sessions(b, v) \in Seq(Ports)
      BY SessionsTyped
    <3> QED BY <3>1, <3>2, NoElements
  <2>3. ~Connecting(v)'
    BY <1>1, <1>3 DEF Connecting
  <2>4. Held(b, v, m)
    <3>1. ~Arriving(b, v, m)
      <4>1. DOMAIN inbox[b] = {}
        BY <1>1
      <4> QED BY <4>1 DEF Arriving
    <3> QED BY <1>1, <2>1, <3>1 DEF Settled
  <2>5. Out(b, v)' /\ Held(b, v, m)'
    BY <1>6, <2>2, <2>3, <2>4 DEF Out
  <2>6. \A s \in upToDate \ {b} : Coming(s, v, m)'
    BY <1>6, <2>1 DEF Coming
  <2> QED BY <1>1, <2>5, <2>6 DEF Safe
<1> QED BY <1>5, <1>7 DEF KeptSound

LEMMA KeptAtFirst == Init => KeptSound
<1> SUFFICES ASSUME Init PROVE KeptSound
  OBVIOUS
<1>1. /\ thread = [p \in Ports |-> NoThread] /\ inbox = [s \in Servers |-> <<>>]
      /\ kept = [v \in Profiles |-> {}] /\ upToDate \subseteq Servers
  <2>1. TypeInv
    BY TypesAtFirst
  <2> QED BY <2>1 DEF Init, TypeInv, StaticTypes
<1>2. \A p \in Ports : thread[p].toTell = <<>>
  BY <1>1 DEF NoThread
<1>3. \A s \in upToDate : DOMAIN inbox[s] = {}
  BY <1>1
<1>4. SendsOwn
  BY <1>2, <1>3 DEF SendsOwn
<1> QED BY <1>1, <1>4 DEF KeptSound

LEMMA StutterKept ==
  ASSUME KeptSound, UNCHANGED vars
  PROVE  KeptSound'
<1>1. UNCHANGED <<primary, inbox, masterTable, nextClientPort, loop, thread, upToDate, kept>>
  BY DEF vars, roles, net, history
<1>2. /\ \A s, v : Sessions(s, v)' = Sessions(s, v) /\ Followers(s, v)' = Followers(s, v) /\ Messages(s, v)' = Messages(s, v)
      /\ \A s, m : Sent(s, m)' <=> Sent(s, m)
      /\ \A v : Connecting(v)' <=> Connecting(v)
  BY <1>1 DEF Sessions, Followers, Messages, RowOf, Sent, Connecting
<1>3. \A s, v, m : Held(s, v, m)' <=> Held(s, v, m)
  BY <1>2 DEF Held
<1>4. /\ \A s, v, m : Arriving(s, v, m)' <=> Arriving(s, v, m)
      /\ \A s, v, m : Settled(s, v, m)' <=> Settled(s, v, m)
      /\ \A s, v, p : Has(s, v, p)' <=> Has(s, v, p)
  BY <1>1, <1>2, <1>3 DEF Arriving, ArrivesAt, QuietFrom, Settled, Has
<1>5. \A s, v, m : Coming(s, v, m)' <=> Coming(s, v, m)
  BY <1>2, <1>4 DEF Coming
<1>6. \A s, v : Out(s, v)' <=> Out(s, v)
  BY <1>2 DEF Out
<1>7. ASSUME NEW v \in Profiles, NEW m \in kept[v] PROVE Safe(v, m)'
  <2>1. Safe(v, m)
    BY <1>7 DEF KeptSound
  <2>2. CASE primary = Nobody
    BY <1>1, <1>4, <1>5, <2>1, <2>2 DEF Safe
  <2>3. CASE primary # Nobody
    <3>1. PICK here : here = primary /\ primary' = here
      BY <1>1
    <3>2. Out(here, v) /\ Held(here, v, m) /\ \A s \in upToDate \ {here} : Coming(s, v, m)
      BY <2>1, <2>3, <3>1 DEF Safe
    <3>3. Out(here, v)' /\ Held(here, v, m)' /\ \A s \in upToDate \ {here} : Coming(s, v, m)'
      BY <1>3, <1>5, <1>6, <3>2
    <3> QED BY <1>1, <2>3, <3>1, <3>3 DEF Safe
  <2> QED BY <2>2, <2>3
<1>8. SendsOwn'
  BY <1>1 DEF KeptSound, SendsOwn
<1> QED BY <1>1, <1>7, <1>8 DEF KeptSound

LEMMA KeptStep ==
  ASSUME TypeInv, Sound, Sess, KeptSound, KeptHeard, [Next]_vars, upToDate' # {}
  PROVE  KeptSound'
<1>1. ASSUME LoopStep PROVE KeptSound'
  BY <1>1, ReceiveConnectKept, LoopKept, TellConnectKept, StartSessionKept, ReopenSessionKept DEF LoopStep
<1>2. ASSUME NEW p \in Ports, ThreadStep(p) PROVE KeptSound'
  <2>1. CASE SendBlindly(p)
    <3>1. thread[p].pc # "none" /\ PrimaryDies
      BY <2>1 DEF SendBlindly
    <3> QED BY <3>1, Busy, PrimaryDiesKept
  <2> QED BY <1>2, <2>1, FollowKept, SendKept, ExitKept, TellNextKept, CloseSessionKept, ShowKept DEF ThreadStep
<1>3. ASSUME NEW b \in Servers, BackupStep(b) PROVE KeptSound'
  BY <1>3, BackupKept
<1>4. ASSUME NEW b \in Servers, TakePort(b) \/ Join(b) PROVE KeptSound'
  BY <1>4, TakePortKept, JoinKept
<1>5. ASSUME Crash \/ BindFails PROVE KeptSound'
  BY <1>5, Busy, PrimaryDiesKept DEF Crash, BindFails
<1> QED BY <1>1, <1>2, <1>3, <1>4, <1>5, StutterKept DEF Next

LEMMA HeardAtFirst == Init => KeptHeard
BY DEF Init, KeptHeard

\* Who has heard of a profile does not forget it, and goes on being up to date.
LEMMA HearingKept ==
  ASSUME TypeInv, Sound, [Next]_vars, upToDate' # {}, NEW s \in upToDate', NEW v
  PROVE  s \in upToDate /\ (Hears(s, v) => Hears(s, v)')
<1>1. s \in upToDate /\ s \in Servers /\ s \in alive /\ DOMAIN masterTable = Servers
  BY NobodyCatchesUp DEF Sound, Roles, TypeInv, Tables
<1>2. ASSUME DOMAIN masterTable[s] \subseteq DOMAIN masterTable'[s], inbox'[s] = inbox[s]
      PROVE  Hears(s, v) => Hears(s, v)'
  BY <1>2 DEF Hears
<1>3. ASSUME NEW t, NEW u, NEW row, SetRow(t, u, row)
      PROVE  DOMAIN masterTable[s] \subseteq DOMAIN masterTable'[s]
  BY <1>1, <1>3 DEF SetRow
<1>4. ASSUME NEW c, NEW d, SendTo(c, d), UNCHANGED masterTable PROVE Hears(s, v) => Hears(s, v)'
  <2>1. CASE inbox'[s] = inbox[s]
    BY <1>2, <1>4, <2>1
  <2>2. CASE inbox'[s] # inbox[s]
    <3>1. PICK q \in Seq(DatagramType) : q = inbox[s] /\ inbox'[s] = Append(q, d)
      BY <1>1, <1>4, <2>2 DEF SendTo, TypeInv, StaticTypes
    <3>2. \A i \in DOMAIN q : i \in DOMAIN Append(q, d) /\ Append(q, d)[i] = q[i]
      OBVIOUS
    <3> QED BY <1>4, <3>1, <3>2 DEF Hears, Told
  <2> QED BY <2>1, <2>2
<1>5. ASSUME LoopStep PROVE Hears(s, v) => Hears(s, v)'
  <2>1. CASE TellConnect
    BY <1>4, <2>1 DEF TellConnect
  <2>2. CASE \E u \in Profiles : ReceiveConnect(u)
    BY <1>2, <1>3, <2>2 DEF ReceiveConnect, net
  <2>3. CASE StartSession
    BY <1>2, <1>3, <2>3 DEF StartSession, net
  <2>4. CASE ReopenSession
    BY <1>2, <1>3, <2>4 DEF ReopenSession, net
  <2>5. CASE BecomePrimary \/ EnterPrimaryLoop \/ \E u \in Profiles : ReopenUser(u)
    BY <1>2, <2>5 DEF BecomePrimary, EnterPrimaryLoop, ReopenUser, net
  <2> QED BY <1>5, <2>1, <2>2, <2>3, <2>4, <2>5 DEF LoopStep
<1>6. ASSUME PrimaryDies PROVE Hears(s, v) => Hears(s, v)'
  <2>1. s # primary
    BY <1>6 DEF PrimaryDies
  <2> QED BY <1>1, <1>2, <1>6, <2>1 DEF PrimaryDies, Forgets, net
<1>7. ASSUME NEW p \in Ports, ThreadStep(p) PROVE Hears(s, v) => Hears(s, v)'
  <2>1. CASE \E new \in Profiles : Follow(p, new)
    BY <1>1, <1>2, <2>1 DEF Follow, Followed, net
  <2>2. CASE Send(p)
    BY <1>1, <1>2, <2>2 DEF Send, Post, net
  <2>3. CASE SendBlindly(p)
    BY <1>6, <2>3 DEF SendBlindly
  <2>4. CASE Exit(p)
    BY <1>2, <2>4 DEF Exit, net
  <2>5. CASE TellNext(p)
    BY <1>4, <2>5 DEF TellNext
  <2>6. CASE CloseSession(p)
    BY <1>2, <1>3, <2>6 DEF CloseSession, net
  <2>7. CASE \E message \in MessageType : Show(p, message)
    BY <1>2, <1>3, <2>7 DEF Show, net
  <2> QED BY <1>7, <2>1, <2>2, <2>3, <2>4, <2>5, <2>6, <2>7 DEF ThreadStep
<1>8. ASSUME NEW b \in Servers, BackupStep(b) PROVE Hears(s, v) => Hears(s, v)'
  <2>1. CASE s = b
    BY <1>1, <1>8, <2>1, Reading DEF Effect
  <2>2. CASE s # b
    <3>1. masterTable'[s] = masterTable[s] /\ inbox'[s] = inbox[s]
      BY <1>1, <1>8, <2>2, Others
    <3> QED BY <1>2, <3>1
  <2> QED BY <2>1, <2>2
<1>9. ASSUME NEW b \in Servers, TakePort(b) PROVE Hears(s, v) => Hears(s, v)'
  <2>1. inbox[b] = <<>> /\ inbox' = [inbox EXCEPT ![b] = <<>>] /\ UNCHANGED masterTable
    BY <1>9 DEF TakePort
  <2>2. inbox' = inbox
    BY <2>1 DEF TypeInv, StaticTypes
  <2> QED BY <1>2, <2>1, <2>2
<1>10. ASSUME NEW b \in Servers, Join(b) PROVE Hears(s, v) => Hears(s, v)'
  <2>1. b \notin alive /\ UNCHANGED inbox /\ \E t : masterTable' = [masterTable EXCEPT ![b] = t]
    BY <1>10 DEF Join
  <2>2. masterTable'[s] = masterTable[s]
    BY <1>1, <2>1
  <2> QED BY <1>2, <2>1, <2>2
<1>11. ASSUME UNCHANGED vars PROVE Hears(s, v) => Hears(s, v)'
  BY <1>2, <1>11 DEF vars, net
<1>12. ASSUME Crash \/ BindFails PROVE Hears(s, v) => Hears(s, v)'
  BY <1>6, <1>12 DEF Crash, BindFails
<1> QED BY <1>1, <1>5, <1>7, <1>8, <1>9, <1>10, <1>11, <1>12 DEF Next

\* Whom a message is kept for has a row, and none is being opened: all were told.
LEMMA HeardStep ==
  ASSUME TypeInv, Sound, KeptHeard, [Next]_vars, upToDate' # {}
  PROVE  KeptHeard'
<1>1. ASSUME NEW v \in Profiles, kept[v] # {} \/ kept'[v] = {} PROVE kept'[v] # {} => \A s \in upToDate' : Hears(s, v)'
  BY <1>1, HearingKept DEF KeptHeard
<1>2. CASE \E p \in Ports : Send(p)
  <2>1. PICK p \in Ports : Send(p)
    BY <1>2
  <2>2. PICK to : to = Table[thread[p].profile].followers \cap DOMAIN Table
    OBVIOUS
  <2>3. \A v \in Profiles : kept'[v] # kept[v] => v \in to /\ ~Connecting(v)
    BY <2>1, <2>2 DEF Send, TypeInv, StaticTypes
  <2>4. primary \in upToDate /\ thread[p].pc = "run"
    BY <2>1, Running DEF Send
  <2>5. ASSUME NEW v \in Profiles, v \in to, ~Connecting(v), NEW s \in upToDate PROVE Hears(s, v)
    <3>1. Hears(primary, v)
      BY <2>2, <2>5 DEF Hears, Table
    <3>2. ~ToBeTold(s, v)
      <4>1. loop.toTell = <<>> \/ loop.pc = "tell"
        BY DEF Sound, LoopSound
      <4>2. CASE loop.toTell = <<>>
        BY <4>2, NobodyToTell
      <4>3. CASE loop.pc = "tell"
        BY <2>5, <4>3 DEF ToBeTold, Connecting
      <4> QED BY <4>1, <4>2, <4>3
    <3> QED BY <2>4, <3>1, <3>2 DEF Sound, AllHear
  <2>6. ASSUME NEW v \in Profiles, kept'[v] # {} PROVE \A s \in upToDate' : Hears(s, v)'
    <3>1. CASE kept[v] # {}
      BY <1>1, <2>6, <3>1
    <3>2. CASE kept[v] = {}
      <4>1. \A s \in upToDate : Hears(s, v)
        BY <2>3, <2>5, <2>6, <3>2
      <4> QED BY <4>1, HearingKept
    <3> QED BY <3>1, <3>2
  <2> QED BY <2>6 DEF KeptHeard
<1>3. CASE ~\E p \in Ports : Send(p)
  <2>1. UNCHANGED kept \/ \E u \in Profiles : kept' = [kept EXCEPT ![u] = {}]
    <3>1. CASE LoopStep
      BY <3>1 DEF LoopStep, ReceiveConnect, ReopenUser, TellConnect, StartSession, BecomePrimary,
              ReopenSession, EnterPrimaryLoop, history
    <3>2. CASE \E p \in Ports : ThreadStep(p)
      BY <1>3, <3>2 DEF ThreadStep, Follow, SendBlindly, PrimaryDies, Exit, TellNext, CloseSession,
              Show, history
    <3>3. CASE \E b \in Servers : BackupStep(b)
      BY <3>3 DEF BackupStep, ReplicateConnect, ReplicateDisconnect, ReplicateFollow, ReplicateSend, Receives
    <3>4. CASE \E b \in Servers : TakePort(b) \/ Join(b)
      BY <3>4 DEF TakePort, Join, history
    <3>5. CASE Crash \/ BindFails \/ UNCHANGED vars
      BY <3>5 DEF Crash, BindFails, PrimaryDies, vars, history
    <3> QED BY <3>1, <3>2, <3>3, <3>4, <3>5 DEF Next
  <2>2. \A v \in Profiles : kept[v] # {} \/ kept'[v] = {}
    BY <2>1 DEF TypeInv, StaticTypes
  <2> QED BY <1>1, <2>2 DEF KeptHeard
<1> QED BY <1>2, <1>3

KeptInv == upToDate # {} => KeptSound /\ KeptHeard

LEMMA MessagesAreKept == Spec => [](TypeInv /\ KnownInv /\ SessInv /\ KeptInv)
<1>1. Init => TypeInv /\ KnownInv /\ SessInv /\ KeptInv
  BY TypesAtFirst, SoundAtFirst, SessAtFirst, KeptAtFirst, HeardAtFirst DEF SessInv, KeptInv
<1>2. TypeInv /\ KnownInv /\ SessInv /\ KeptInv /\ [Next]_vars => (TypeInv /\ KnownInv /\ SessInv /\ KeptInv)'
  <2> SUFFICES ASSUME TypeInv, KnownInv, SessInv, KeptInv, [Next]_vars
               PROVE  (TypeInv /\ KnownInv /\ SessInv /\ KeptInv)'
    OBVIOUS
  <2>1. TypeInv'
    BY TypesStep
  <2>2. ASSUME upToDate' # {} PROVE Sound' /\ Sess' /\ KeptSound' /\ KeptHeard'
    <3>1. Sound /\ Sess /\ KeptSound /\ KeptHeard
      BY <2>2, NobodyCatchesUp DEF KnownInv, SessInv, KeptInv
    <3> QED BY <2>2, <3>1, StepKeeps, SessStep, KeptStep, HeardStep
  <2> QED BY <2>1, <2>2 DEF KnownInv, SessInv, KeptInv
<1> QED BY <1>1, <1>2, PTL DEF Spec

LEMMA AgreedOfflineKept == TypeInv /\ KeptInv => OfflineKept
<1> SUFFICES ASSUME TypeInv, KeptInv, NEW s \in upToDate, NEW v \in Profiles, NEW m \in kept[v],
                    m.from \in DOMAIN masterTable[s], v \in masterTable[s][m.from].followers,
                    ~OnItsWay(s, m)
             PROVE  v \in DOMAIN masterTable[s] /\ m \in masterTable[s][v].messages
  BY DEF OfflineKept
<1>1. Safe(v, m) /\ Hears(s, v)
  BY DEF KeptInv, KeptSound, KeptHeard
<1>2. ~Arriving(s, v, m) /\ ~Sent(s, m)
  BY DEF OnItsWay, Arriving, ArrivesAt, Sent, IsSend
<1>3. Held(s, v, m)
  BY <1>1, <1>2 DEF Safe, Coming, Settled
<1>4. m \in Messages(s, v)
  BY <1>3, NobodyFollowsNew DEF Held
<1> QED BY <1>4, NobodyFollowsNew

\* A message that was sent to a profile while it had no session and none was
\* being opened is kept for it, or on its way, on each server that has missed
\* nothing, for as long as its next CONNECT has not come: no crash loses it.
THEOREM UpToDateKeeps == Spec => []OfflineKept
BY MessagesAreKept, AgreedOfflineKept, PTL
=============================================================================
