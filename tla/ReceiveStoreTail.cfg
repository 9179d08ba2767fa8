SPECIFICATION Spec
CONSTANTS
    Roots <- MCRoots
    Layout <- MCLayout
    MaxOpenHandles = 1
    MaxFaults = 1
INVARIANT BareRecordHasBytes
