SPECIFICATION Spec
CONSTANTS
    Sets <- MCSets
    Pasters <- Script
    Disks <- TwoDisks
    Restarts <- Reboot
    MaxRestarts = 0
INVARIANT
    EasyPartIsWhole
