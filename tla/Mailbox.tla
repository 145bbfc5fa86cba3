------------------------------- MODULE Mailbox -------------------------------
(***************************************************************************)
(* What a profile with one session at a time gets out of the server: every *)
(* notification posted to it is shown to it once, in the order of posting. *)
(* Notifications are numbered by their place in that order.                *)
(***************************************************************************)
EXTENDS Naturals

CONSTANT Profiles

VARIABLES
  posted,  \* how many notifications each profile was posted
  shown    \* how many of them it was shown

Init == /\ posted = [u \in Profiles |-> 0]
        /\ shown = [u \in Profiles |-> 0]

Post(u) == /\ posted' = [posted EXCEPT ![u] = @ + 1]
           /\ UNCHANGED shown

Show(u) == /\ shown[u] < posted[u]
           /\ shown' = [shown EXCEPT ![u] = @ + 1]
           /\ UNCHANGED posted

Next == \E u \in Profiles : Post(u) \/ Show(u)

Spec == Init /\ [][Next]_<<posted, shown>>
=============================================================================
