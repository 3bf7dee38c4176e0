SPECIFICATION Spec
CONSTANTS
    Disks <- MCDisks
    Lines <- MCLines
    Sources = {"cdrom", "tape", "path"}
    BackupDisk = "hda"
    SwapDisks = {"hda", "sda"}
    LabelDisks = {"hda", "sda"}
    LsStatus = {1, 2}
    MaxFaults = 3
    MaxRuns = 3
INVARIANTS
    BackupsSafe
    RestoredOrExcused

    
