SPECIFICATION Spec
CONSTANTS
    Roots <- MCRoots
    Layout <- MCLayout
    MaxOpenHandles = 1
    MaxFaults = 2
INVARIANTS OnlyRecountMisplaces StoresAgree
