----------------------------- MODULE MCSessions ------------------------------
(***************************************************************************)
(* The sessions of two profiles. A server may start with no table, or with *)
(* one in which the profiles know of each other and may follow each other, *)
(* or with the first line of that.                                         *)
(***************************************************************************)
EXTENDS Sessions, TLC

CONSTANTS ana, bia

MCProfiles == {ana, bia}

Empty == [u \in {} |-> <<>>]
Strangers == [u \in MCProfiles |-> <<>>]
Friends == [u \in MCProfiles |-> IF u = ana THEN <<bia>> ELSE <<ana>>]

MCBackups == {Empty, Strangers, Friends}

\* The save was cut off behind the line of ana, whom bia follows.
CutOff == [u \in {ana} |-> <<bia>>]

\* A restarted server on which one of the two follows the other.
Follows(u, v) == [w \in MCProfiles |-> IF w = v THEN <<u>> ELSE <<>>]
MCOldServer == {Follows(ana, bia), Follows(bia, ana), CutOff}

\* One profile, which fills its own list: FOLLOW posts its outcome to it.
MCOneProfile == {ana}
MCNoBackup == {Empty}

\* How many sessions their users ask for at once.
Three == [u \in MCOneProfile |-> 3]
Two == [u \in MCProfiles |-> 2]
TwoOfOne == [u \in MCOneProfile |-> 2]
TwoAndOne == [u \in MCProfiles |-> IF u = ana THEN 2 ELSE 1]
=============================================================================
