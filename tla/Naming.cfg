SPECIFICATION AnySpec
CONSTANTS
    Upper <- TypeUpper
    Separators = {"_"}
    PrimNames <- TypePrims
    Menus <- TypeMenus
    Skeleton <- TypeSkeleton
    OfferedDecls <- TypeDecls
    OfferedMembers <- TypeMembers
    MaxAdded <- TypeMaxAdded
    GoPackageWords <- TypeGoPackageWords
    BoundNames <- TypeBoundNames
INVARIANTS
    TypesSound
    ServicesSound
CHECK_DEADLOCK FALSE
