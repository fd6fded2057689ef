\* Every choice of three of six dashboards: panels side by side, open and
\* closed rows, none at all, a panel without a place; variables that refer to
\* one another, and a name that begins with a target's.
CONSTANTS
    Names <- MCNames
    Dashboards <- MCDashboards
    Prefix <- MCPrefix
    TARGET_NAMES = {"namespace", "pod"}
    COLUMNS = {1, 2}
    Longer <- MCLonger
SPECIFICATION Spec
INVARIANTS
    TypeOK
    IdsAreUnique
    EveryPanelIsKept
    ReferencesFindTheirVariable
    VariablesInOrder
\* The script ends.
CHECK_DEADLOCK FALSE
