---------------------------- MODULE Configuration ---------------------------
(***************************************************************************)
(* Config of cloudsync-config and its file.  A TOML document is a function *)
(* from the fields it sets to their values, or Garbage when it does not    *)
(* parse; serde gives every field that it lacks its default.               *)
(***************************************************************************)
EXTENDS Integers, Sequences

\* What is no document: a file that does not parse, no file, an error in place of a
\* configuration.
Garbage == [none |-> "garbage"]
Absent == [none |-> "absent"]
Error == [none |-> "error"]

ConflictResolution == {"prompt", "keep_local", "keep_remote", "keep_both"}

GeneralConfig == [log_level |-> "info", launch_on_startup |-> FALSE]

SyncConfig ==
    [root_folder |-> "UniCloudST", bandwidth_limit_up |-> 0, bandwidth_limit_down |-> 0,
     cache_size_mb |-> 1024]

ConflictsConfig == [resolution |-> "prompt"]

\* The fields in the order in which toml::to_string_pretty writes them.
Fields == <<"log_level", "launch_on_startup", "root_folder", "bandwidth_limit_up",
            "bandwidth_limit_down", "cache_size_mb", "resolution">>

\* Config::default
Default ==
    [f \in {Fields[i] : i \in DOMAIN Fields} |->
        IF f \in DOMAIN GeneralConfig THEN GeneralConfig[f]
        ELSE IF f \in DOMAIN SyncConfig THEN SyncConfig[f] ELSE ConflictsConfig[f]]

\* Config::validate: that of SyncConfig; that of ConflictsConfig accepts all.
validate(config) == config.cache_size_mb # 0

\* toml::from_str: the values of a document in place of the defaults.
Parsed(doc) == [f \in DOMAIN Default |-> IF f \in DOMAIN doc THEN doc[f] ELSE Default[f]]

\* What fs::write may leave of a document when it breaks off: its first n fields,
\* the last of them cut, which a number survives with a digit less, or nothing that
\* parses.
Torn(config) ==
    LET First(n) == [f \in {Fields[i] : i \in 1..n} |-> config[f]]
        Numbers == {i \in 4..6 : config[Fields[i]] >= 10}
    IN  {First(n) : n \in 0..Len(Fields) - 1} \cup {Garbage}
            \cup {[First(i) EXCEPT ![Fields[i]] = @ \div 10] : i \in Numbers}
=============================================================================
