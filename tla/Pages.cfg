SPECIFICATION Spec
CONSTANTS
    Ids = {1, 2, 3, 4, 5}
    Sizes <- SomeSizes
    Nums <- SomeNums
    WalkSize = 2
    Half = 8
INVARIANTS
    WalkMissesNothing
    QuietWalkIsExact
    WalkNeverOverflows
    CountReachesPage
