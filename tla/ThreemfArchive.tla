--------------------------- MODULE ThreemfArchive ---------------------------
(***************************************************************************)
(* What the service reads from a 3MF archive and writes into it, without   *)
(* running the slicer: the inspection, the slots use-set reports, the      *)
(* padding of a request's filaments, and the settings "prepare" bakes in.  *)
(*                                                                         *)
(* An archive is a record                                                  *)
(*   authored   preset names of its filament slots (filament_settings_id)  *)
(*   embedded   filament presets it carries for itself                     *)
(*   settings   the keys its project settings hold, and who wrote each     *)
(*   groups     different_settings_to_system: the keys its author changed, *)
(*              first of the process, then per slot, last of the printer   *)
(*   platers    the plates model_settings.config lists                     *)
(*   slices     the plates slice_info.config describes, with their slots   *)
(*   gcode      it holds a toolpath                                        *)
(*   area       the printable area of the machine it was laid out for      *)
(*   objects    per object, its instances: the plate whose metadata lists  *)
(*              it, whether it is to be printed, and the box it stands in  *)
(* Slots and plates count from 1, as in the archive.                       *)
(***************************************************************************)
EXTENDS Integers, Sequences, FiniteSets, SequencesExt

CONSTANTS
    Object,     \* objects a model may hold
    Uses,       \* the filament slots each object names for itself
    GlobalKey,  \* settings naming a slot: wall_filament, support_filament, ...
    SupportKey, \* those of them that count where supports are printed
    EnableKey,  \* enable_support; raft_layers counts with it
    Names,      \* per object, the slot each of these settings gives it, by the
                \* source of the global value; an object's own value hides that
    SupportFor, \* per object, the sources of EnableKey that give it supports
    Unknown     \* what is said of the slots of a plate nothing describes

\* Where a setting's value comes from (see SliceSettings); "unset" is the
\* built-in default.
Source == {"unset", "preset", "author", "baked", "client", "request"}
Slots == SUBSET (Nat \ {0})

ASSUME ObjectsUseSlots ==
    /\ Uses \in [Object -> Slots]
    /\ SupportKey \subseteq GlobalKey
    /\ Names \in [Object -> [GlobalKey -> [Source -> Slots]]]
    /\ SupportFor \in [Object -> SUBSET Source]

OffPlate == 0

\* Rectangles: the printable area of a machine, and what an instance covers,
\* which is given in fifths of the areas' unit.
Area == [x : Int, y : Int, w : Nat \ {0}, d : Nat \ {0}]
Box == Area

Ascending(slots) == \A i, j \in DOMAIN slots : i < j => slots[i] < slots[j]

\* A set of slots as the slicer lists it.
InOrder(slots) == CHOOSE list \in [1..Cardinality(slots) -> slots] : Ascending(list)

-----------------------------------------------------------------------------
(* Inspection *)

\* slice_info.config describes plates and the toolpath is there.
IsSliced(a) == a.slices # <<>> /\ a.gcode

SlicesOf(a, p) == {i \in DOMAIN a.slices : a.slices[i].index = p}

\* Read from slice_info.config whether or not there is a toolpath.
UsedSlots(a, p) ==
    IF SlicesOf(a, p) = {} THEN Unknown
    ELSE ToSet(a.slices[Min(SlicesOf(a, p))].slots)

PlateIds(a) == 1..Max({1, Len(a.platers)})

InspectedPlate(a, p) ==
    [used |-> UsedSlots(a, p), estimated |-> IsSliced(a) /\ SlicesOf(a, p) # {}]

\* MUTANT of AuthoredSlots: always lists the project's slots.
AuthoredSlotsOfProject(a) == [i \in DOMAIN a.authored |-> i]

\* The slots of the filament list, one entry per filament of each plate when
\* the archive is sliced, otherwise one per slot of the project.
AuthoredSlots(a) ==
    LET sliced == FlattenSeq([i \in DOMAIN a.slices |-> a.slices[i].slots])
    IN IF IsSliced(a) /\ sliced # <<>> THEN sliced
       ELSE [i \in DOMAIN a.authored |-> i]

ModifiedKeys(a) == IF a.groups = <<>> THEN {} ELSE a.groups[1]

-----------------------------------------------------------------------------
(* The slots the engine finds in the model of an un-sliced archive *)

Instances(a) == UNION {{o} \X DOMAIN a.objects[o] : o \in DOMAIN a.objects}

Instance(a, i) == a.objects[i[1]][i[2]]

Listed(a, p) == {i \in Instances(a) : Instance(a, i).plate = p}

Plated(a) == {p \in 1..Len(a.platers) : Listed(a, p) # {}}

\* The settings that name a slot for an object, under the global values val.
Counting(o, val) ==
    IF val[EnableKey] \in SupportFor[o] THEN GlobalKey ELSE GlobalKey \ SupportKey

ObjectSlots(o, val) == Uses[o] \cup UNION {Names[o][k][val[k]] : k \in Counting(o, val)}

SlotsOf(instances, val) == UNION {ObjectSlots(i[1], val) : i \in instances}

Printable(a, instances) == {i \in instances : Instance(a, i).printable}

\* use-set reads the global values of the file.
FileValue(a) ==
    [k \in GlobalKey \cup {EnableKey} |->
        IF k \in DOMAIN a.settings THEN a.settings[k] ELSE "unset"]

\* MUTANT of UseSet: counts what is not to be printed
UseSetOfAll(a) ==
    LET standing == IF Plated(a) # {} THEN [p \in Plated(a) |-> Listed(a, p)]
                    ELSE [p \in {1} |-> Instances(a)]
    IN IF Instances(a) = {} THEN [p \in {1} |-> {1}]
       ELSE [p \in DOMAIN standing |-> SlotsOf(standing[p], FileValue(a))]

\* One answer per plate with an instance; everything is on plate 1 when no
\* instance is listed with a plate. An empty model has slot 1.
UseSet(a) ==
    LET standing == IF Plated(a) # {} THEN [p \in Plated(a) |-> Listed(a, p)]
                    ELSE [p \in {1} |-> Instances(a)]
    IN IF Instances(a) = {} THEN [p \in {1} |-> {1}]
       ELSE [p \in DOMAIN standing |-> SlotsOf(Printable(a, standing[p]), FileValue(a))]

\* use-set is asked when some plate's slots are unknown, and fills only those.
Backfilled(a, p) ==
    IF UsedSlots(a, p) = Unknown /\ p \in DOMAIN UseSet(a)
    THEN UseSet(a)[p] ELSE UsedSlots(a, p)

-----------------------------------------------------------------------------
(* Preparing an archive and the filaments of a request *)

\* MUTANT of Prepared: only extends groups the archive has.
PreparedInPlace(a, overrides, bed) ==
    [a EXCEPT
        !.settings = [k \in DOMAIN @ \cup overrides \cup bed |->
                        IF k \in overrides \cup bed THEN "baked" ELSE @[k]],
        !.groups = IF @ = <<>> THEN @ ELSE <<ModifiedKeys(a) \cup overrides>> \o Tail(@)]

\* The overrides join the settings and the first group; the bed only the
\* settings. Keys already there keep their other groups.
Prepared(a, overrides, bed) ==
    [a EXCEPT
        !.settings = [k \in DOMAIN @ \cup overrides \cup bed |->
                        IF k \in overrides \cup bed THEN "baked" ELSE @[k]],
        !.groups = IF overrides = {} THEN @
                   ELSE <<ModifiedKeys(a) \cup overrides>>
                          \o (IF @ = <<>> THEN <<>> ELSE Tail(@))]

\* MUTANT of Placed: appends the padding.
PlacedInOrder(slots, ids) ==
    [s \in 1..Max(ToSet(slots)) |-> IF s \in DOMAIN ids THEN ids[s] ELSE ids[1]]

\* One id per slot up to the last authored one, each id at the slot it was
\* given for; slots nothing was given for repeat the first id.
Placed(slots, ids) ==
    [s \in 1..Max(ToSet(slots)) |->
        IF s \in ToSet(slots) THEN ids[Max({i \in DOMAIN slots : slots[i] = s})]
        ELSE ids[1]]

\* MUTANT of Padded: compares the last 0-based slot with the length.
PaddedByLastSlot(slots, ids) ==
    IF \/ slots = <<>>
       \/ Len(slots) # Len(ids)
       \/ Max(ToSet(slots)) - 1 <= Len(ids)
    THEN ids
    ELSE Placed(slots, ids)

Padded(slots, ids) ==
    IF \/ slots = <<>>
       \/ Len(slots) # Len(ids)
       \/ Max(ToSet(slots)) <= Len(ids)
    THEN ids
    ELSE Placed(slots, ids)

=============================================================================
