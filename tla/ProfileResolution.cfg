SPECIFICATION Spec
CONSTANTS
    Catalogues <- MCCatalogues
    Payload <- MCPayload
    Slots <- MCSlots
    Alias <- MCAlias
    NewId <- MCNewId
    Library = "lib"
    User = "User"
    NoRef = "none"
    NoKey = NoKey
CHECK_DEADLOCK FALSE
INVARIANTS ResolutionTypeOK MemoIsNearest ShippedUnaffected AmsScopesDisjoint MatchIsBest
