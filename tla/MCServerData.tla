---------------------------- MODULE MCServerData ----------------------------
(***************************************************************************)
(* Instance of ServerData for TLC.                                         *)
(***************************************************************************)
EXTENDS ServerData, TLC

\* Threads and passwords are interchangeable.
Symmetry == Permutations(Workers) \cup Permutations(Passwords)

\* Requests that overlap, and scans, are followed on a server that has a vault and
\* no old file, until a key is rotated or a backup begun; beside those, one
\* request at a time.  Backups are followed on a server without an old file.  A
\* backup that is made stays as it is: its state is checked and not followed
\* further.
Busy == {w \in Workers : pc[w] # "idle"}
Alone ==
  /\ Cardinality(Busy) < 2
  /\ ~scanning
  /\ \A w \in Busy : pc[w] \in {"save", "put"} /\ loc[w].stale \subseteq {"password"} \X Devices
Focus ==
  /\ \/ Alone /\ (legacy.devices = {} \/ backup.at = "none")
     \/ /\ HasVault /\ legacy.devices = {}
        /\ Cardinality(usedKeys) = 1 /\ backup.at = "none"
  /\ backup.at # "made"

=============================================================================
