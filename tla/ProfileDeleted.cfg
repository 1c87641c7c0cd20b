SPECIFICATION Spec
CONSTANTS
    n1 = n1
    n2 = n2
    plain = plain
    clone = clone
    stray = stray
    child = child
    Name <- MCName
    Body <- MCBody
    KindOf <- MCKindOf
    ParentOf <- MCParentOf
    Vendor = Vendor
    Nothing = Nothing
    Unreadable = Unreadable
    Importable <- MCImportable
    Legacy <- MCLegacy
    Request = {r1, r2}
INVARIANT DeletedIsUnlisted
