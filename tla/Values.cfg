SPECIFICATION AnySpec
CONSTANTS
    Upper <- BindingUpper
    Lower <- BindingLower
    Separators = {}
    PrimNames <- BindingPrimNames
    Menus <- BindingMenus
    Skeleton <- BindingSkeleton
    Methods <- BindingMethods
    Members <- BindingMembers
    MaxAdded <- BindingMaxAdded
    Depth = 1
INVARIANTS
    BindingsSound
    ConstraintsSound
CHECK_DEADLOCK FALSE
