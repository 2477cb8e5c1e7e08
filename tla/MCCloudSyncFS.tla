--------------------------- MODULE MCCloudSyncFS ----------------------------
(* Instances of CloudSyncFS for TLC.                                       *)
EXTENDS CloudSyncFS

\* Bound: either nothing has been opened yet, in the first mount, or nothing is being
\* listed, every file has the first path and no inode has failed.  (Handles and listings
\* meet in the inodes and the rows only; a listing ends with its mount.)
OpenOrList ==
    \/ next_fh = 1 /\ downloading = NoFile /\ mounts = 1
    \/ ~ stream.open /\ faults = 0 /\ \A f \in Files : name[f] <= 1
=============================================================================
