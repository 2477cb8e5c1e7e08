--------------------------- MODULE MCDaemonStart ----------------------------
(* Instances of DaemonStart for TLC.                                       *)
EXTENDS DaemonStart, TLC

CONSTANTS daemon, mount, mount2

\* main's list, the mount's with vfs_inodes, and one with sync_cursors too.
MCLength == (daemon :> 2) @@ (mount :> 3) @@ (mount2 :> 4)

\* A document of one field, one that validate refuses, and one that does not parse.
MCDocuments == {"root_folder" :> "Cloud", "cache_size_mb" :> 0, Garbage}

\* A configuration that can be saved, and one that cannot.
MCConfigs == {[Default EXCEPT !.root_folder = "Cloud", !.resolution = "keep_both"],
              [Default EXCEPT !.cache_size_mb = 0]}

\* What was saved is what is loaded; a save that broke off may load as something
\* else that is valid too.
ASSUME SaveLoad ==
    /\ \A r \in ConflictResolution :
        LET c == [Default EXCEPT !.resolution = r] IN Loads(c) = c
    /\ \E d \in Torn([Default EXCEPT !.root_folder = "Cloud"]) :
        Loads(d) \notin {Error, Default, [Default EXCEPT !.root_folder = "Cloud"]}
=============================================================================
