SPECIFICATION Spec
CONSTANTS
    Object <- MCObject
    Uses <- MCUses
    GlobalKey = {"support_filament", "wall_filament"}
    SupportKey = {"support_filament"}
    EnableKey = "support"
    Names <- MCNames
    SupportFor <- MCSupportFor
    Unknown = Unknown
    System = {"PLA", "PETG", "ABS", "Silk"}
    Embedded = {"PLA (job)"}
    Inherits <- MCInherits
    Customised <- MCCustomised
    NoName = "none"
    Foreign = {"ABS"}
    Nozzles = 1
    Supported = {"cool", "textured"}
    DefaultBed = "textured"
    ProcessKey = {"walls", "support", "support_filament", "wall_filament"}
    PrinterKey = {"retract", "extruders", "nozzle_volume", "printable_area"}
    FilamentKey = {"temp", "flow"}
    ProjectKey = {"nozzle_volume", "filament_map", "bed_type"}
    FilamentNamed = {"support_filament", "wall_filament", "filament_map"}
    Topology = {"extruders", "nozzle_volume"}
    BedKey = "bed_type"
    MapKey = "filament_map"
    AreaKey = "printable_area"
    NoArea = NoArea
    GivenArea <- MCGivenArea
    Job <- MCJob
    Bake <- MCBake
CHECK_DEADLOCK FALSE
INVARIANTS SettledAsPromised ReportIsEffect SlotsGetTheirOwn BakedReachesSlice PaddingPairs ListedSlotsSuffice InspectedIsPrinted PlateIsPrinted OutputIsInspected
