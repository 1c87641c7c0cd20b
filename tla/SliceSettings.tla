--------------------------- MODULE SliceSettings ---------------------------
(***************************************************************************)
(* The configuration a slice request is printed with. The client's         *)
(* filaments, the presets of machine and process, what the author of the   *)
(* 3MF changed, what "prepare" baked in and what the client overrides meet *)
(* in steps 2 to 10 of run_slice_mode; this module takes them in order and *)
(* says which of them each setting ends with.                              *)
(*                                                                         *)
(* A setting's value is the name of where it comes from: "preset" (of the  *)
(* machine or process), "author" (the 3MF as it was uploaded), "baked"     *)
(* (by prepare), "client" (process_overrides), "request" (the plate type   *)
(* and filament map). A filament setting has one value per slot: the       *)
(* preset it comes from, or one of these.                                  *)
(***************************************************************************)
EXTENDS ThreemfArchive

CONSTANTS
    System,         \* filament presets of the catalogue
    Embedded,       \* filament presets archives carry for themselves
    Inherits,       \* the parent of each filament preset, or NoName
    Customised,     \* the keys each filament preset changes of its parent
    NoName,
    Foreign,        \* presets of System another machine is needed for
    Nozzles,        \* number of nozzles of the machine
    Supported,      \* plate types the machine supports
    DefaultBed,     \* the plate type of the machine's own
    ProcessKey, PrinterKey, FilamentKey, ProjectKey,
    FilamentNamed,  \* keys named filament_... or ..._filament
    Topology,       \* s_printer_slot_blocklist
    BedKey, MapKey, \* curr_bed_type and filament_map
    AreaKey,        \* printable_area
    NoArea,         \* that of a machine which has none
    Job,            \* the archives sliced, each with a request
    Bake            \* what prepare is asked to put into them

Preset == System \cup Embedded
ConfigKey == ProcessKey \cup PrinterKey \cup ProjectKey
Key == ConfigKey \cup FilamentKey

ASSUME KeysApart ==
    /\ FilamentKey \cap ConfigKey = {}
    /\ ProcessKey \cap (PrinterKey \cup ProjectKey) = {}
    /\ BedKey \in ProjectKey \ PrinterKey
    /\ MapKey \in (ProjectKey \cap FilamentNamed) \ PrinterKey
    /\ BedKey # MapKey
    /\ AreaKey \in PrinterKey \ ProjectKey
    /\ GlobalKey \cup {EnableKey} \subseteq ProcessKey

\* Keys the slicer does not know play no part, so an archive has none.
IsArchive(a) ==
    /\ a = [authored |-> a.authored, embedded |-> a.embedded, settings |-> a.settings,
            groups |-> a.groups, platers |-> a.platers, slices |-> a.slices,
            gcode |-> a.gcode, area |-> a.area, objects |-> a.objects]
    /\ a.authored \in Seq(Preset \cup {NoName})
    /\ DOMAIN a.settings \subseteq Key
    /\ a.settings \in [DOMAIN a.settings -> {"author", "baked"}]
    /\ a.groups \in Seq(SUBSET Key)
    /\ a.platers \in Seq(Nat)
    /\ a.slices \in Seq([index : Nat, slots : Seq(Nat \ {0})])
    /\ DOMAIN a.objects \subseteq Object
    /\ a.objects \in [DOMAIN a.objects -> Seq([plate : PlateIds(a) \cup {OffPlate},
                                               printable : BOOLEAN, box : Box])]
    /\ a.area \in Area

ASSUME JobsAsUploaded ==
    /\ \A j \in Job : /\ IsArchive(j.archive)
                    /\ j.asked.ids \in Seq(System)
                    /\ j.asked.plate \in Int /\ j.asked.copies \in Nat \ {0}
                    /\ j.asked.area \in Area \cup {NoArea}
    /\ \A b \in Bake : b.overrides \subseteq Key

VARIABLES
    stage,      \* the step the request has come to
    archive,    \* the 3MF its token names
    baked,      \* the keys prepare has put into it
    asked,      \* the body of the request
    ids,        \* the filament of each slot, padded
    presets,    \* the preset each slot is printed with
    status,     \* per slot, what became of its customisations
    edited,     \* the edited presets of process and machine
    cfg,        \* final_cfg but for the filament settings
    vec,        \* the filament settings of final_cfg
    report,     \* the settings_transfer of the answer
    error

settingVars == <<ids, presets, status, edited, cfg, vec, report>>

At(s) == stage = s

Refuse(code) == stage' = "failed" /\ error' = code

NoReport == [process |-> {}, printer |-> {}, slots |-> <<>>, client |-> <<>>]

SettingsInit ==
    /\ stage = "uploaded"
    /\ \E j \in Job : archive = j.archive /\ asked = j.asked
    /\ baked = {}
    /\ ids = <<>> /\ presets = <<>> /\ status = <<>>
    /\ edited = [k \in ProcessKey \cup PrinterKey |-> "preset"]
    /\ cfg = [k \in ConfigKey |-> "preset"]
    /\ vec = [k \in FilamentKey |-> <<>>]
    /\ report = NoReport
    /\ error = "none"

-----------------------------------------------------------------------------
(* Before the engine *)

\* A plate type the machine does not support gives way to its own, if there is
\* one; without either the archive's stays.
BedLabel(type) ==
    IF type = NoName \/ type \in Supported THEN type
    ELSE IF DefaultBed \in Supported THEN DefaultBed ELSE NoName

BedKeys(type) == IF BedLabel(type) = NoName THEN {} ELSE {BedKey}

\* prepare_3mf answers a token of the changed archive, which is then sliced.
Prepare ==
    /\ At("uploaded")
    /\ \E b \in Bake :
         /\ archive' = Prepared(archive, b.overrides, BedKeys(b.bed))
         /\ baked' = baked \cup b.overrides \cup BedKeys(b.bed)
    /\ UNCHANGED <<stage, asked, error, settingVars>>

\* A machine that declares no nozzles takes any map.
MapValid(map) == Nozzles = 0 \/ \A i \in DOMAIN map : map[i] \in 1..Nozzles

RejectMap ==
    /\ At("uploaded")
    /\ ~MapValid(asked.map)
    /\ Refuse("invalid_filament_map")
    /\ UNCHANGED <<archive, baked, asked, settingVars>>

PadSlots ==
    /\ At("uploaded")
    /\ MapValid(asked.map)
    /\ ids' = Padded(AuthoredSlots(archive), asked.ids)
    /\ stage' = "padded"
    /\ UNCHANGED <<archive, baked, asked, presets, status, edited, cfg, vec, report, error>>

RejectForeign ==
    /\ At("padded")
    /\ ToSet(ids) \cap Foreign # {}
    /\ Refuse("filament_machine_mismatch")
    /\ UNCHANGED <<archive, baked, asked, settingVars>>

Materialize ==
    /\ At("padded")
    /\ ToSet(ids) \cap Foreign = {}
    /\ stage' = "materialized"
    /\ UNCHANGED <<archive, baked, asked, settingVars, error>>

-----------------------------------------------------------------------------
(* Slots and presets: steps 2 to 7b *)

RejectArchive ==
    /\ At("materialized")
    /\ \/ DOMAIN archive.objects = {} /\ Refuse("empty_model")
       \/ DOMAIN archive.objects # {} /\ ids = <<>> /\ Refuse("invalid_request")
    /\ UNCHANGED <<archive, baked, asked, settingVars>>

\* The presets the engine knows: every chain it was given, and the archive's.
\* One ancestor stands for those of a chain.
Ancestry(p) == {p} \cup (IF Inherits[p] = NoName THEN {} ELSE {Inherits[p]})
Loaded == UNION {Ancestry(p) : p \in ToSet(ids)} \cup archive.embedded

Original(s) == IF s \in DOMAIN archive.authored THEN archive.authored[s] ELSE NoName

ChildOfPick(s) ==
    /\ Original(s) \in Loaded
    /\ Inherits[Original(s)] = ids[s]

SlotStatus(s) ==
    IF Original(s) = NoName THEN "no_customizations"
    ELSE IF Original(s) = ids[s] \/ ChildOfPick(s) THEN "applied"
    ELSE "filament_changed"

\* What the answer says was dropped, found by comparing two loaded presets.
Discarded(s) ==
    IF /\ SlotStatus(s) = "filament_changed"
       /\ {Original(s), Inherits[Original(s)]} \subseteq Loaded
    THEN Customised[Original(s)] ELSE {}

MatchSlots ==
    /\ At("materialized")
    /\ DOMAIN archive.objects # {} /\ ids # <<>>
    /\ status' = [s \in DOMAIN ids |-> SlotStatus(s)]
    /\ presets' = [s \in DOMAIN ids |->
            IF SlotStatus(s) = "applied" THEN Original(s) ELSE ids[s]]
    /\ report' = [report EXCEPT !.slots =
            [s \in DOMAIN ids |-> [transferred |-> {}, discarded |-> Discarded(s)]]]
    /\ stage' = "matched"
    /\ UNCHANGED <<archive, baked, asked, ids, edited, cfg, vec, error>>

\* The keys of a group that reach a configuration holding the target keys.
Overlaid(keys, target, excluded) ==
    (keys \cap DOMAIN archive.settings \cap target) \ excluded

ProcessGroup == ModifiedKeys(archive)
PrinterGroup == IF Len(archive.groups) >= 2 THEN Last(archive.groups) ELSE {}
\* MUTANT of SlotGroup: forgets the process group comes first.
SlotGroupFromFirst(s) == IF s \in 1..(Len(archive.groups) - 2) THEN archive.groups[s] ELSE {}
SlotGroup(s) == IF s \in 1..(Len(archive.groups) - 2) THEN archive.groups[s + 1] ELSE {}

ProcessOverlay == Overlaid(ProcessGroup, ProcessKey, FilamentNamed)
\* MUTANT of PrinterOverlay: without the blocklist
PrinterOverlayWhole == Overlaid(PrinterGroup, PrinterKey, {})
PrinterOverlay == Overlaid(PrinterGroup, PrinterKey, Topology)

OverlayPresets ==
    /\ At("matched")
    /\ edited' = [k \in DOMAIN edited |->
            IF k \in ProcessOverlay \cup PrinterOverlay
            THEN archive.settings[k] ELSE edited[k]]
    /\ report' = [report EXCEPT !.process = ProcessOverlay, !.printer = PrinterOverlay]
    /\ stage' = "overlaid"
    /\ UNCHANGED <<archive, baked, asked, ids, presets, status, cfg, vec, error>>

-----------------------------------------------------------------------------
(* The final configuration: steps 8 to 10 *)

\* A preset has its parent's value of the keys it does not change.
PresetValue(p, k) ==
    IF k \in Customised[p] \/ Inherits[p] = NoName THEN p ELSE Inherits[p]

\* full_config: the project's settings over the edited presets, and one
\* value per slot of the filament settings.
Compose ==
    /\ At("overlaid")
    /\ cfg' = [k \in ConfigKey |->
            IF k \in ProjectKey
            THEN IF k \in DOMAIN archive.settings THEN archive.settings[k] ELSE "preset"
            ELSE edited[k]]
    /\ vec' = [k \in FilamentKey |-> [s \in DOMAIN presets |-> PresetValue(presets[s], k)]]
    /\ stage' = "composed"
    /\ UNCHANGED <<archive, baked, asked, ids, presets, status, edited, report, error>>

\* The archive's values of a filament setting, one per slot it was saved with;
\* prepare writes a single one.
FileVector(k) ==
    IF archive.settings[k] = "baked" THEN <<"baked">>
    ELSE [s \in DOMAIN archive.authored |-> "author"]

\* MUTANT of SlotOverlay: of swapped slots too
SlotOverlayAlways(s) == Overlaid(SlotGroup(s), Key, {})

\* The whole group, into the final configuration: neither the filament keys
\* nor the topology are kept out here.
SlotOverlay(s) ==
    IF status[s] = "applied" THEN Overlaid(SlotGroup(s), Key, {}) ELSE {}

\* Each applied slot's keys, copied with the values of all slots.
OverlaySlots ==
    /\ At("composed")
    /\ cfg' = [k \in ConfigKey |->
            IF \E s \in DOMAIN ids : k \in SlotOverlay(s) THEN archive.settings[k] ELSE cfg[k]]
    /\ vec' = [k \in FilamentKey |->
            IF \E s \in DOMAIN ids : k \in SlotOverlay(s) THEN FileVector(k) ELSE vec[k]]
    /\ report' = [report EXCEPT !.slots =
            [s \in DOMAIN ids |-> [@[s] EXCEPT !.transferred = SlotOverlay(s)]]]
    /\ stage' = "overlaid_slots"
    /\ UNCHANGED <<archive, baked, asked, ids, presets, status, edited, error>>

\* The overrides the engine accepts: a known key outside the filament's
\* domain, with a value its type can hold.
Accepted(r) == {k \in (DOMAIN r.overrides \cap Key) \ FilamentNamed : r.overrides[k] = "good"}

\* MUTANT of OverrideByClient: takes the previous values after the change.
OverrideByClientThenReport ==
    /\ At("overlaid_slots")
    /\ cfg' = [k \in ConfigKey |-> IF k \in Accepted(asked) THEN "client" ELSE cfg[k]]
    /\ vec' = [k \in FilamentKey |-> IF k \in Accepted(asked) THEN <<"client">> ELSE vec[k]]
    /\ report' = [report EXCEPT !.client =
            [k \in Accepted(asked) |-> IF k \in FilamentKey THEN vec'[k] ELSE <<cfg'[k]>>]]
    /\ stage' = "overridden"
    /\ UNCHANGED <<archive, baked, asked, ids, presets, status, edited, error>>

OverrideByClient ==
    /\ At("overlaid_slots")
    /\ cfg' = [k \in ConfigKey |-> IF k \in Accepted(asked) THEN "client" ELSE cfg[k]]
    /\ vec' = [k \in FilamentKey |-> IF k \in Accepted(asked) THEN <<"client">> ELSE vec[k]]
    /\ report' = [report EXCEPT !.client =
            [k \in Accepted(asked) |-> IF k \in FilamentKey THEN vec[k] ELSE <<cfg[k]>>]]
    /\ stage' = "overridden"
    /\ UNCHANGED <<archive, baked, asked, ids, presets, status, edited, error>>

\* The plate type and filament map of the request.
WireRequest ==
    /\ At("overridden")
    /\ cfg' = [k \in ConfigKey |->
            IF \/ k \in BedKeys(asked.bed)
               \/ k = MapKey /\ asked.map # <<>>
            THEN "request" ELSE cfg[k]]
    /\ stage' = "settled"
    /\ UNCHANGED <<archive, baked, asked, ids, presets, status, edited, vec, report, error>>

\* The engine fails on its own between two steps.
EngineFails ==
    /\ stage \in {"materialized", "overlaid", "settled"}
    /\ Refuse("engine_error")
    /\ UNCHANGED <<archive, baked, asked, settingVars>>

SettingsNext ==
    \/ Prepare \/ RejectMap \/ PadSlots \/ RejectForeign \/ Materialize
    \/ RejectArchive \/ MatchSlots \/ OverlayPresets
    \/ Compose \/ OverlaySlots \/ OverrideByClient \/ WireRequest
    \/ EngineFails

settingsVars == <<stage, archive, baked, asked, error, settingVars>>

SettingsSpec == SettingsInit /\ [][SettingsNext]_settingsVars

-----------------------------------------------------------------------------
(* Properties *)

\* The groups between that of the process and that of the printer are the slots'.
AuthorChanged(s, k) ==
    \E g \in 2..(Len(archive.groups) - 1) :
        s = g - 1 /\ k \in archive.groups[g] \cap DOMAIN archive.settings

Brings(s, k) == status[s] = "applied" /\ AuthorChanged(s, k)

\* What the file contributes to a setting, whichever step brings it in.
Contributes(k) ==
    /\ k \in DOMAIN archive.settings
    /\ \/ k \in ProjectKey
       \/ k \in (ProcessGroup \cap ProcessKey) \ FilamentNamed
       \/ k \in (PrinterGroup \cap PrinterKey) \ Topology
       \/ \E s \in DOMAIN ids : Brings(s, k)

WithoutRequest(k) == IF Contributes(k) THEN archive.settings[k] ELSE "preset"

RequestNames(k) ==
    \/ k = BedKey /\ BedLabel(asked.bed) # NoName
    \/ k = MapKey /\ asked.map # <<>>

\* Every setting of the final configuration has the value of the strongest
\* source that may set it: the plate type and filament map of the request,
\* the client's overrides, what the file lists as changed of the process, the
\* printer or a filament the client kept (or carries as a project option), the
\* presets. No step loses one or lets a weaker one win.
SettledAsPromised ==
    At("settled") => \A k \in ConfigKey :
        cfg[k] = IF RequestNames(k) THEN "request"
                 ELSE IF k \in Accepted(asked) THEN "client"
                 ELSE WithoutRequest(k)

Transferred ==
    report.process \cup report.printer
        \cup UNION {report.slots[s].transferred : s \in DOMAIN report.slots}

\* The answer's settings_transfer tells what happened: the transferred keys are
\* those whose value the file decided, every override reported is in effect
\* (but for a bed type the request's plate type replaces), every override in
\* effect is reported, with the value the slice had had without it.
ReportIsEffect ==
    At("settled") =>
        /\ (Transferred \cap ConfigKey) \ ProjectKey =
                {k \in ConfigKey \ ProjectKey : WithoutRequest(k) # "preset"}
        /\ \A k \in ConfigKey :
             /\ cfg[k] = "client" => k \in DOMAIN report.client
             /\ k \in DOMAIN report.client =>
                    /\ cfg[k] = "client" \/ RequestNames(k)
                    /\ report.client[k] = <<WithoutRequest(k)>>

\* libslic3r reads the first value for slots beyond a setting's last one.
ValueAt(k, s) == IF s \in DOMAIN vec[k] THEN vec[k][s] ELSE vec[k][1]

\* A slot the client left as the author set it up is printed with the author's
\* changes, whatever became of the other slots; and a setting no such slot
\* changes keeps in every slot the value of the preset picked for it, or of
\* the variant of that pick the archive names for that very slot.
SlotsGetTheirOwn ==
    At("settled") => \A s \in DOMAIN ids :
        /\ presets[s] # ids[s] => Inherits[presets[s]] = ids[s] /\ presets[s] = Original(s)
        /\ \A k \in FilamentKey \ Accepted(asked) :
             /\ Brings(s, k) => ValueAt(k, s) = archive.settings[k]
             /\ (\A t \in DOMAIN ids : ~Brings(t, k)) => ValueAt(k, s) = PresetValue(presets[s], k)

\* What prepare baked in is what a slice of the prepared archive is printed
\* with, unless its own request says otherwise, and what an inspection and the
\* answer show as changed; baking again loses nothing of it.
BakedReachesSlice ==
    At("settled") =>
        /\ \A k \in (baked \cap ProcessKey) \ FilamentNamed :
             /\ cfg[k] \in {"baked", "client"}
             /\ k \in report.process \cap ModifiedKeys(archive)
        /\ BedKey \in baked => cfg[BedKey] \in {"baked", "client", "request"}

\* For a sliced archive that lists its slots in order, with one filament asked
\* for each, every slot gets the filament asked for it and no slot up to the
\* last stays without one.
PaddingPairs ==
    (ids # <<>> /\ IsSliced(archive)) =>
        LET slots == AuthoredSlots(archive)
        IN (Ascending(slots) /\ Len(slots) = Len(asked.ids)) =>
             /\ \A i \in DOMAIN slots : ids[slots[i]] = asked.ids[i]
             /\ DOMAIN ids = 1..Last(slots)

=============================================================================
