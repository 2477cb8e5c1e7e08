\* A daemon and two mounts with longer lists of migrations, on one home directory.
CONSTANTS
    daemon = daemon
    mount = mount
    mount2 = mount2
    Procs = {daemon, mount, mount2}
    Daemons = {daemon}
    Length <- MCLength
    Once = {1, 2}
    Documents <- MCDocuments
    Configs <- MCConfigs
    MaxStarts = 4
    MaxSaves = 1
SPECIFICATION Spec
INVARIANTS OpenedMeansMigrated LoneStartSucceeds RunsAsConfigured
PROPERTY MigratesWhole
CHECK_DEADLOCK FALSE
