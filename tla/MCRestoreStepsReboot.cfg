SPECIFICATION Spec
CONSTANTS
    Disks <- MCDisks
    Lines <- MCLines
    Sources = {"cdrom", "tape", "path"}
    BackupDisk = "hda"
    SwapDisks = {"hda", "sda"}
    LabelDisks = {"hda", "sda"}
    LsStatus = {1, 2}
    MaxFaults = 1
    MaxRuns = 1
INVARIANTS
    AllRestored
