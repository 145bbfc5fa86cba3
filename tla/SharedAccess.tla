---------------------------- MODULE SharedAccess ----------------------------
(***************************************************************************)
(* What the lock of server.cpp promises its callers, with no mutex in      *)
(* sight: many threads may be reading at once (and one thread may be       *)
(* reading several times over), or one thread is writing.                  *)
(***************************************************************************)
EXTENDS Naturals

CONSTANT Threads

VARIABLES
  reading,  \* how many reader sections each thread is in
  writing   \* the threads that are in a writer section

Init == /\ reading = [t \in Threads |-> 0]
        /\ writing = {}

BeginRead(t) == /\ writing = {}
                /\ reading' = [reading EXCEPT ![t] = @ + 1]
                /\ UNCHANGED writing

EndRead(t) == /\ reading[t] > 0
              /\ reading' = [reading EXCEPT ![t] = @ - 1]
              /\ UNCHANGED writing

BeginWrite(t) == /\ writing = {}
                 /\ \A u \in Threads : reading[u] = 0
                 /\ writing' = {t}
                 /\ UNCHANGED reading

EndWrite(t) == /\ t \in writing
               /\ writing' = writing \ {t}
               /\ UNCHANGED reading

Next == \E t \in Threads :
          BeginRead(t) \/ EndRead(t) \/ BeginWrite(t) \/ EndWrite(t)

Spec == Init /\ [][Next]_<<reading, writing>>
=============================================================================
