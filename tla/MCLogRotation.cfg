\* Three backups, failures and crashes between any two system calls.
SPECIFICATION Spec
CONSTANTS
    None = None
    Limit = 3
    Backups = 3
    Sizes <- MCSizes
    MaxWrites = 8
    MaxFaults = 2
INVARIANTS
    Bounded
    RetainedIsSuffix
