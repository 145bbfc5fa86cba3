---------------------------- MODULE MCReplication -----------------------------
(***************************************************************************)
(* Two profiles on a primary and its backups; both in the file, with the   *)
(* one a follower of the other, or one of them, of whose follower the line *)
(* was cut off.                                                            *)
(***************************************************************************)
EXTENDS Replication

CONSTANTS ana, bia
MCProfiles == {ana, bia}
OneKnown == {ana :> {}}
WholeOrCutOff == {(ana :> {}) @@ (bia :> {ana}), ana :> {bia}}
UpToTwo == {<<>>, <<2>>, <<2, 3>>}
OneBackup == {<<2>>}

\* Bound: one backup, or one that joins, suffices for a file that was cut off; two
\* start with a whole one.
MCInit ==
  /\ Init
  /\ backupServers = <<2>> => bia \notin DOMAIN masterTable[Primary]
  /\ backupServers = <<2, 3>> => bia \in DOMAIN masterTable[Primary]
MCSpec == MCInit /\ [][Next]_vars
=============================================================================
