--------------------------- MODULE SliceJobProofs ---------------------------
(***************************************************************************)
(* Proofs about SliceJob, for any archives, requests, presets and keys:    *)
(* where each setting of a slice comes from, what the answer says of it,   *)
(* which value each slot is printed with, that what was baked in arrives,  *)
(* and that inspection, padding, slice and output agree on the slots.      *)
(***************************************************************************)
EXTENDS SliceJob, FiniteSetTheorems, WellFoundedInduction, TLAPS

BeforeOverlay == {"uploaded", "padded", "materialized", "matched"}
AfterOverlay == {"overlaid", "composed", "overlaid_slots", "overridden", "settled"}

Ended == {"failed", "isolated", "placed", "exported"}

ReportShape ==
    report = [process |-> report.process, printer |-> report.printer,
              slots |-> report.slots, client |-> report.client]

\* What prepare put into the archive stays there under the keys it listed.
BakedInv ==
    /\ \A k \in baked \cap (ProcessKey \cup {BedKey}) :
         k \in DOMAIN archive.settings /\ archive.settings[k] = "baked"
    /\ baked \cap ProcessKey \subseteq ModifiedKeys(archive)

\* The edited presets differ from the presets by the overlay, and by nothing
\* before it.
EditedInv ==
    /\ stage \in BeforeOverlay => edited = [k \in ProcessKey \cup PrinterKey |-> "preset"]
    /\ stage \in AfterOverlay =>
         /\ edited = [k \in ProcessKey \cup PrinterKey |->
                        IF k \in ProcessOverlay \cup PrinterOverlay
                        THEN archive.settings[k] ELSE "preset"]
         /\ report.process = ProcessOverlay
         /\ report.printer = PrinterOverlay

\* What a setting is before the slots' groups are applied.
ComposedValue(k) ==
    IF (IF k \in ProjectKey THEN k \in DOMAIN archive.settings
        ELSE k \in ProcessOverlay \cup PrinterOverlay)
    THEN archive.settings[k] ELSE "preset"

\* The configuration between two steps.
CfgInv ==
    /\ stage = "composed" => cfg = [k \in ConfigKey |-> ComposedValue(k)]
    /\ stage = "overlaid_slots" => cfg = [k \in ConfigKey |-> WithoutRequest(k)]
    /\ stage = "overridden" =>
         cfg = [k \in ConfigKey |-> IF k \in Accepted(asked) THEN "client" ELSE WithoutRequest(k)]
    /\ stage \in {"overridden", "settled"} =>
         /\ DOMAIN report.client = Accepted(asked)
         /\ \A k \in ConfigKey \cap Accepted(asked) : report.client[k] = <<WithoutRequest(k)>>
    /\ SettledAsPromised

OwnValues(k) == [s \in DOMAIN ids |-> PresetValue(presets[s], k)]

Overlayed(k) == IF \E s \in DOMAIN ids : k \in SlotOverlay(s) THEN FileVector(k) ELSE OwnValues(k)

\* The filament settings between two steps.
SlotInv ==
    /\ stage \in {"matched"} \cup AfterOverlay =>
         /\ status = [s \in DOMAIN ids |-> SlotStatus(s)]
         /\ presets = [s \in DOMAIN ids |->
                        IF SlotStatus(s) = "applied" THEN Original(s) ELSE ids[s]]
    /\ stage = "composed" => vec = [k \in FilamentKey |-> OwnValues(k)]
    /\ stage = "overlaid_slots" => vec = [k \in FilamentKey |-> Overlayed(k)]
    /\ stage \in {"overridden", "settled"} =>
         vec = [k \in FilamentKey |-> IF k \in Accepted(asked) THEN <<"client">> ELSE Overlayed(k)]

\* What the answer says of the slots: nothing transferred, then what was.
AnswerInv ==
    /\ stage \in {"matched", "overlaid", "composed"} =>
         /\ DOMAIN report.slots = DOMAIN ids
         /\ \A s \in DOMAIN ids : DOMAIN report.slots[s] = {"transferred", "discarded"}
    /\ stage \in {"overlaid_slots", "overridden", "settled"} =>
         /\ DOMAIN report.slots = DOMAIN ids
         /\ \A s \in DOMAIN ids : report.slots[s].transferred = SlotOverlay(s)

Isolated == {"isolated", "placed", "exported"}

\* What is left in the model of an archive of several plates.
PlateInv ==
    (Len(archive.platers) > 1 /\ stage \in Isolated) =>
        /\ PlateAsked <= Len(archive.platers)
        /\ DOMAIN instances = OnPlate
        /\ \A i \in OnPlate : instances[i] \in Nat \ {0}

RequestTyped ==
    /\ asked.plate \in Int /\ asked.copies \in Nat \ {0}
    /\ asked.area \in Area \cup {NoArea}

IInv ==
    /\ IsArchive(archive) /\ RequestTyped /\ ReportShape
    /\ BakedInv /\ EditedInv /\ CfgInv /\ SlotInv /\ AnswerInv /\ PlateInv

-----------------------------------------------------------------------------

\* A request starts with an uploaded archive, nothing baked in and every setting
\* that of its preset.
THEOREM InitIInv == Init => IInv
<1> SUFFICES ASSUME Init PROVE IInv
  OBVIOUS
<1>1. IsArchive(archive) /\ RequestTyped
  BY JobsAsUploaded DEF Init, SettingsInit, RequestTyped
<1>2. ReportShape
  BY DEF Init, SettingsInit, NoReport, ReportShape
<1>3. BakedInv
  BY DEF Init, SettingsInit, BakedInv
<1>4. EditedInv
  BY DEF Init, SettingsInit, EditedInv, AfterOverlay
<1>5. CfgInv
  BY DEF Init, SettingsInit, CfgInv, SettledAsPromised, At
<1>6. SlotInv
  BY DEF Init, SettingsInit, SlotInv, AfterOverlay
<1>7. PlateInv
  BY DEF Init, SettingsInit, PlateInv, Isolated
<1>8. AnswerInv
  BY DEF Init, SettingsInit, AnswerInv
<1> QED
  BY <1>1, <1>2, <1>3, <1>4, <1>5, <1>6, <1>7, <1>8 DEF IInv

\* A slot's group is the one its author's changes are listed in.
LEMMA SlotBrings ==
    ASSUME IsArchive(archive), NEW k, NEW t
    PROVE  k \in SlotOverlay(t) <=> Brings(t, k)
<1>1. Len(archive.groups) \in Nat /\ DOMAIN archive.settings \subseteq Key
  BY DEF IsArchive
<1>2. k \in SlotGroup(t) /\ k \in DOMAIN archive.settings <=> AuthorChanged(t, k)
  BY <1>1 DEF SlotGroup, AuthorChanged
<1> QED
  BY <1>1, <1>2 DEF SlotOverlay, Brings, Overlaid

\* Of each setting: what the overlays, the project's settings or a slot's group
\* give it is what the file contributes to it.
LEMMA OverlayContributes ==
    ASSUME IsArchive(archive), NEW k \in ConfigKey
    PROVE  WithoutRequest(k) = IF \E s \in DOMAIN ids : k \in SlotOverlay(s)
                               THEN archive.settings[k] ELSE ComposedValue(k)
<1>1. CASE \E s \in DOMAIN ids : k \in SlotOverlay(s)
  <2>1. k \in DOMAIN archive.settings
    BY <1>1 DEF SlotOverlay, Overlaid
  <2> QED
    BY <1>1, <2>1, SlotBrings DEF WithoutRequest, Contributes
<1>2. CASE ~ \E s \in DOMAIN ids : k \in SlotOverlay(s)
  <2>1. ~ \E s \in DOMAIN ids : Brings(s, k)
    BY <1>2, SlotBrings
  <2>2. Contributes(k) <=>
            IF k \in ProjectKey THEN k \in DOMAIN archive.settings
            ELSE k \in ProcessOverlay \cup PrinterOverlay
    BY <2>1, KeysApart DEF ConfigKey, Contributes, ProcessOverlay, PrinterOverlay, Overlaid
  <2> QED
    BY <1>2, <2>2 DEF WithoutRequest, ComposedValue
<1> QED
  BY <1>1, <1>2

\* b is a with the keys of bed and overrides baked in.
BakedInto(a, overrides, bed, b) ==
    /\ IsArchive(b)
    /\ b.objects = a.objects /\ b.platers = a.platers /\ b.area = a.area
    /\ ModifiedKeys(b) = ModifiedKeys(a) \cup overrides
    /\ DOMAIN b.settings = DOMAIN a.settings \cup overrides \cup bed
    /\ \A k \in DOMAIN b.settings : b.settings[k] =
            IF k \in overrides \cup bed THEN "baked" ELSE a.settings[k]

\* A group put in front of the others is the process group; the rest stays.
LEMMA PreparedArchive ==
    ASSUME NEW a, IsArchive(a),
           NEW overrides \in SUBSET Key, NEW bed \in SUBSET Key,
           NEW b, b = Prepared(a, overrides, bed)
    PROVE  BakedInto(a, overrides, bed, b)
<1> DEFINE rest == IF a.groups = <<>> THEN <<>> ELSE Tail(a.groups)
           settings == [k \in DOMAIN a.settings \cup overrides \cup bed |->
                            IF k \in overrides \cup bed THEN "baked" ELSE a.settings[k]]
           groups == IF overrides = {} THEN a.groups
                     ELSE <<ModifiedKeys(a) \cup overrides>> \o rest
<1>1. b = [authored |-> a.authored, embedded |-> a.embedded, settings |-> settings,
           groups |-> groups, platers |-> a.platers, slices |-> a.slices,
           gcode |-> a.gcode, area |-> a.area, objects |-> a.objects]
  <2>1. a = [authored |-> a.authored, embedded |-> a.embedded, settings |-> a.settings,
             groups |-> a.groups, platers |-> a.platers, slices |-> a.slices,
             gcode |-> a.gcode, area |-> a.area, objects |-> a.objects]
    BY DEF IsArchive
  <2>2. b = [a EXCEPT !.settings = settings, !.groups = groups]
    BY Zenon DEF Prepared
  <2> HIDE DEF settings, groups
  <2> QED
    BY <2>1, <2>2
<1>2. /\ a.groups \in Seq(SUBSET Key) /\ rest \in Seq(SUBSET Key)
      /\ ModifiedKeys(a) \in SUBSET Key
  BY DEF IsArchive, ModifiedKeys
<1>3. /\ groups \in Seq(SUBSET Key)
      /\ overrides # {} => groups # <<>> /\ groups[1] = ModifiedKeys(a) \cup overrides
  <2> DEFINE x == ModifiedKeys(a) \cup overrides
  <2>1. x \in SUBSET Key
    BY <1>2
  <2> HIDE DEF x, rest
  <2>2. /\ <<x>> \o rest \in Seq(SUBSET Key)
        /\ <<x>> \o rest # <<>> /\ (<<x>> \o rest)[1] = x
    BY <1>2, <2>1
  <2>3. CASE overrides = {}
    BY <2>3, <1>2
  <2>4. CASE overrides # {}
    BY <2>4, <2>2 DEF x
  <2> QED
    BY <2>3, <2>4
<1>4. ModifiedKeys(b) = ModifiedKeys(a) \cup overrides
  <2>1. b.groups = groups
    BY <1>1
  <2>2. CASE overrides = {}
    BY <2>2, <2>1 DEF ModifiedKeys
  <2>3. CASE overrides # {}
    <3> HIDE DEF groups
    <3> QED
      BY <2>3, <2>1, <1>3 DEF ModifiedKeys
  <2> QED
    BY <2>2, <2>3
<1>5. /\ DOMAIN settings \subseteq Key
      /\ settings \in [DOMAIN settings -> {"author", "baked"}]
  BY DEF IsArchive
<1>6. IsArchive(b)
  <2> DEFINE entry == [index : Nat, slots : Seq(Nat \ {0})]
             plates == PlateIds(a) \cup {OffPlate}
             stands == [plate : plates, printable : BOOLEAN, box : Box]
  <2>1. /\ a.authored \in Seq(Preset \cup {NoName}) /\ a.objects \in [DOMAIN a.objects -> Seq(stands)]
        /\ DOMAIN a.objects \subseteq Object /\ a.area \in Area
        /\ a.slices \in Seq(entry) /\ a.platers \in Seq(Nat)
    BY DEF IsArchive
  <2>2. plates = PlateIds(b) \cup {OffPlate}
    <3> HIDE DEF settings, groups
    <3> QED
      BY <1>1 DEF PlateIds
  <2> HIDE DEF settings, groups, entry, stands
  <2>3. /\ b = [authored |-> b.authored, embedded |-> b.embedded, settings |-> b.settings,
                groups |-> b.groups, platers |-> b.platers, slices |-> b.slices,
                gcode |-> b.gcode, area |-> b.area, objects |-> b.objects]
        /\ b.authored \in Seq(Preset \cup {NoName}) /\ DOMAIN b.settings \subseteq Key
        /\ b.settings \in [DOMAIN b.settings -> {"author", "baked"}]
        /\ b.groups \in Seq(SUBSET Key) /\ b.platers \in Seq(Nat) /\ b.slices \in Seq(entry)
        /\ DOMAIN b.objects \subseteq Object /\ b.area \in Area
        /\ b.objects \in [DOMAIN b.objects -> Seq(stands)]
    BY <1>1, <1>3, <1>5, <2>1
  <2> QED
    BY <2>2, <2>3, Zenon DEF IsArchive, entry, stands
<1>7. /\ DOMAIN b.settings = DOMAIN a.settings \cup overrides \cup bed
      /\ \A k \in DOMAIN b.settings : b.settings[k] =
            IF k \in overrides \cup bed THEN "baked" ELSE a.settings[k]
  <2>1. b.settings = settings
    <3> HIDE DEF settings, groups
    <3> QED
      BY <1>1
  <2> QED
    BY <2>1
<1>8. b.objects = a.objects /\ b.platers = a.platers /\ b.area = a.area
  <2> HIDE DEF settings, groups
  <2> QED
    BY <1>1
<1> HIDE DEF settings, groups, rest
<1> QED
  BY <1>4, <1>6, <1>7, <1>8, Zenon DEF BakedInto

-----------------------------------------------------------------------------

\* Every step but Prepare leaves the archive, what was baked in and the request.
LEMMA OnlyPrepareEdits ==
    ASSUME [Next]_vars
    PROVE  Prepare \/ (archive' = archive /\ baked' = baked /\ asked' = asked)
<1>1. ASSUME SettingsNext
      PROVE  Prepare \/ (archive' = archive /\ baked' = baked /\ asked' = asked)
  BY <1>1 DEF SettingsNext, RejectMap, PadSlots, RejectForeign, Materialize, RejectArchive,
    MatchSlots, OverlayPresets, Compose, OverlaySlots, OverrideByClient, WireRequest, EngineFails
<1>2. CASE UNCHANGED vars
  BY <1>2 DEF vars, settingsVars
<1> QED
  BY <1>1, <1>2 DEF Next, Configure, RejectPlate, IsolatePlate, PlaceCopies, CopiesDoNotFit,
    ApplyFails, SliceFails, Export

\* Only the step that asks for it changes the report, and it keeps its shape.
LEMMA ReportKeepsShape ==
    ASSUME ReportShape, [Next]_vars
    PROVE  ReportShape'
<1> USE DEF ReportShape
<1>1. CASE MatchSlots
  BY <1>1 DEF MatchSlots
<1>2. CASE OverlayPresets
  <2> DEFINE p == ProcessOverlay
             q == PrinterOverlay
  <2>1. report' = [report EXCEPT !.process = p, !.printer = q]
    BY <1>2 DEF OverlayPresets
  <2> HIDE DEF p, q
  <2> QED
    BY <2>1
<1>3. CASE OverlaySlots
  <2>1. PICK x : report' = [report EXCEPT !.slots = x]
    BY <1>3 DEF OverlaySlots
  <2> QED
    BY <2>1
<1>4. CASE OverrideByClient
  <2>1. PICK x : report' = [report EXCEPT !.client = x]
    BY <1>4 DEF OverrideByClient
  <2> QED
    BY <2>1
<1>5. CASE report' = report
  BY <1>5
<1>6. MatchSlots \/ OverlayPresets \/ OverlaySlots \/ OverrideByClient \/ report' = report
  <2>1. ASSUME SettingsNext
        PROVE  MatchSlots \/ OverlayPresets \/ OverlaySlots \/ OverrideByClient
                \/ report' = report
    BY <2>1 DEF SettingsNext, Prepare, RejectMap, PadSlots, RejectForeign, Materialize,
      RejectArchive, Compose, WireRequest, EngineFails, settingVars
  <2>2. CASE UNCHANGED vars
    BY <2>2 DEF vars, settingsVars, settingVars
  <2> QED
    BY <2>1, <2>2 DEF Next, Configure, RejectPlate, IsolatePlate, PlaceCopies, CopiesDoNotFit,
      ApplyFails, SliceFails, Export, settingVars
<1> QED
  BY <1>1, <1>2, <1>3, <1>4, <1>5, <1>6

\* What was baked in stays baked in, whatever is baked in next.
LEMMA BakedStays ==
    ASSUME IsArchive(archive), BakedInv, [Next]_vars
    PROVE  IsArchive(archive') /\ BakedInv'
<1>1. CASE archive' = archive /\ baked' = baked
  BY <1>1 DEF BakedInv, ModifiedKeys
<1>2. CASE Prepare
  <2>1. PICK b \in Bake :
            /\ archive' = Prepared(archive, b.overrides, BedKeys(b.bed))
            /\ baked' = baked \cup b.overrides \cup BedKeys(b.bed)
    BY <1>2 DEF Prepare
  <2> DEFINE bed == BedKeys(b.bed)
  <2>2. b.overrides \in SUBSET Key /\ bed \in SUBSET {BedKey} /\ bed \in SUBSET Key
    BY JobsAsUploaded, KeysApart DEF BedKeys, Key, ConfigKey
  <2> HIDE DEF bed
  <2>3. BakedInto(archive, b.overrides, bed, archive')
    <3>1. archive' = Prepared(archive, b.overrides, bed)
      BY <2>1 DEF bed
    <3> QED
      BY <2>2, <3>1, PreparedArchive, Zenon
  <2>4. baked' = baked \cup b.overrides \cup bed
    BY <2>1 DEF bed
  <2>5. \A k \in baked' \cap (ProcessKey \cup {BedKey}) :
            k \in DOMAIN archive'.settings /\ archive'.settings[k] = "baked"
    BY <2>3, <2>4 DEF BakedInv, BakedInto
  <2>6. baked' \cap ProcessKey \subseteq ModifiedKeys(archive')
    BY <2>2, <2>3, <2>4, KeysApart DEF BakedInv, BakedInto
  <2> QED
    BY <2>3, <2>5, <2>6 DEF BakedInv, BakedInto, ModifiedKeys
<1> QED
  BY <1>1, <1>2, OnlyPrepareEdits

-----------------------------------------------------------------------------

\* The steps an invariant of the settings has to be shown for.
LEMMA StepKinds ==
    ASSUME [Next]_vars
    PROVE  \/ Prepare \/ PadSlots \/ Materialize \/ MatchSlots \/ OverlayPresets
           \/ Compose \/ OverlaySlots \/ OverrideByClient \/ WireRequest
           \/ stage' \in Ended
           \/ UNCHANGED <<stage, archive, asked, settingVars>>
<1>1. CASE SettingsNext
  BY <1>1 DEF SettingsNext, RejectMap, RejectForeign, RejectArchive, EngineFails, Refuse, Ended
<1>2. CASE UNCHANGED vars
  BY <1>2 DEF vars, settingsVars
<1> QED
  BY <1>1, <1>2 DEF Next, Configure, RejectPlate, IsolatePlate, PlaceCopies, CopiesDoNotFit,
    ApplyFails, SliceFails, Export, Refuse, Ended

\* What is read from the archive is the same while the archive is.
LEMMA SameArchive ==
    ASSUME archive' = archive
    PROVE  /\ ProcessOverlay' = ProcessOverlay /\ PrinterOverlay' = PrinterOverlay
           /\ \A k : ComposedValue(k)' = ComposedValue(k)
  BY DEF ProcessOverlay, PrinterOverlay, Overlaid, ProcessGroup, PrinterGroup, ModifiedKeys,
    ComposedValue

\* So is what the file brings to a setting, while the slots' fate is.
LEMMA SameSources ==
    ASSUME archive' = archive, ids' = ids, status' = status
    PROVE  /\ \A s : SlotOverlay(s)' = SlotOverlay(s)
           /\ \A k : WithoutRequest(k)' = WithoutRequest(k)
<1>1. \A s : SlotOverlay(s)' = SlotOverlay(s)
  BY DEF SlotOverlay, SlotGroup, Overlaid
<1>2. \A s, k : Brings(s, k)' <=> Brings(s, k)
  BY DEF Brings, AuthorChanged
<1>3. \A k : Contributes(k)' <=> Contributes(k)
  BY <1>2 DEF Contributes, ProcessGroup, PrinterGroup, ModifiedKeys
<1> QED
  BY <1>1, <1>3 DEF WithoutRequest

\* The edited presets are changed by the overlay and by no other step.
LEMMA EditedStep ==
    ASSUME ReportShape, EditedInv, [Next]_vars
    PROVE  EditedInv'
<1> USE DEF BeforeOverlay, AfterOverlay
<1>1. CASE Prepare
  BY <1>1 DEF Prepare, EditedInv, settingVars, At
<1>2. CASE PadSlots
  BY <1>2 DEF PadSlots, EditedInv, At
<1>3. CASE Materialize
  BY <1>3 DEF Materialize, EditedInv, settingVars, At
<1>4. CASE MatchSlots
  BY <1>4 DEF MatchSlots, EditedInv, At
<1>5. CASE OverlayPresets
  <2>1. /\ ProcessOverlay' = ProcessOverlay /\ PrinterOverlay' = PrinterOverlay
        /\ archive' = archive /\ stage' = "overlaid"
    BY <1>5, SameArchive DEF OverlayPresets
  <2>2. edited = [k \in ProcessKey \cup PrinterKey |-> "preset"]
    BY <1>5 DEF OverlayPresets, EditedInv, At
  <2>3. edited' = [k \in ProcessKey \cup PrinterKey |->
                        IF k \in ProcessOverlay \cup PrinterOverlay
                        THEN archive.settings[k] ELSE "preset"]
    BY <1>5, <2>2 DEF OverlayPresets
  <2>4. report'.process = ProcessOverlay /\ report'.printer = PrinterOverlay
    <3> DEFINE p == ProcessOverlay
               q == PrinterOverlay
    <3>1. report' = [report EXCEPT !.process = p, !.printer = q]
      BY <1>5 DEF OverlayPresets
    <3> HIDE DEF p, q
    <3>2. report'.process = p /\ report'.printer = q
      BY <3>1 DEF ReportShape
    <3> QED
      BY <3>2 DEF p, q
  <2> QED
    BY <2>1, <2>3, <2>4 DEF EditedInv
<1>6. ASSUME stage \in AfterOverlay, stage' \in AfterOverlay, archive' = archive,
             edited' = edited, report'.process = report.process, report'.printer = report.printer
      PROVE  EditedInv'
  BY <1>6, SameArchive DEF EditedInv
<1>7. CASE Compose
  BY <1>6, <1>7 DEF Compose, At
<1>8. CASE OverlaySlots
  <2>1. PICK x : report' = [report EXCEPT !.slots = x]
    BY <1>8 DEF OverlaySlots
  <2>2. report'.process = report.process /\ report'.printer = report.printer
    BY <2>1 DEF ReportShape
  <2> QED
    BY <1>6, <1>8, <2>2 DEF OverlaySlots, At
<1>9. CASE OverrideByClient
  <2>1. PICK x : report' = [report EXCEPT !.client = x]
    BY <1>9 DEF OverrideByClient
  <2>2. report'.process = report.process /\ report'.printer = report.printer
    BY <2>1 DEF ReportShape
  <2> QED
    BY <1>6, <1>9, <2>2 DEF OverrideByClient, At
<1>10. CASE WireRequest
  BY <1>6, <1>10 DEF WireRequest, At
<1>11. CASE stage' \in Ended
  BY <1>11 DEF Ended, EditedInv
<1>12. CASE UNCHANGED <<stage, archive, asked, settingVars>>
  BY <1>12, SameArchive DEF EditedInv, settingVars
<1> QED
  BY <1>1, <1>2, <1>3, <1>4, <1>5, <1>7, <1>8, <1>9, <1>10, <1>11, <1>12, StepKinds

-----------------------------------------------------------------------------

\* The plate type and map the request names are the keys WireRequest sets.
LEMMA RequestKeys ==
    ASSUME NEW k
    PROVE  RequestNames(k) <=> k \in BedKeys(asked.bed) \/ (k = MapKey /\ asked.map # <<>>)
  BY DEF RequestNames, BedKeys

\* The composed configuration holds what the overlays and the project's settings
\* give over the presets.
LEMMA ComposeStep ==
    ASSUME EditedInv, Compose
    PROVE  cfg' = [k \in ConfigKey |-> ComposedValue(k)]
<1>1. cfg' = [k \in ConfigKey |->
            IF k \in ProjectKey
            THEN IF k \in DOMAIN archive.settings THEN archive.settings[k] ELSE "preset"
            ELSE edited[k]]
  BY DEF Compose
<1>2. edited = [k \in ProcessKey \cup PrinterKey |->
                    IF k \in ProcessOverlay \cup PrinterOverlay
                    THEN archive.settings[k] ELSE "preset"]
  BY DEF Compose, EditedInv, AfterOverlay, At
<1>3. ASSUME NEW k \in ConfigKey, k \in ProjectKey
      PROVE  ComposedValue(k) =
                IF k \in DOMAIN archive.settings THEN archive.settings[k] ELSE "preset"
  BY <1>3 DEF ComposedValue
<1>4. ASSUME NEW k \in ConfigKey, k \notin ProjectKey
      PROVE  edited[k] = ComposedValue(k)
  <2>1. k \in ProcessKey \cup PrinterKey
    BY <1>4 DEF ConfigKey
  <2> QED
    BY <1>2, <1>4, <2>1 DEF ComposedValue
<1> QED
  BY <1>1, <1>3, <1>4

\* Each step of the final configuration lets the stronger source win.
LEMMA CfgStep ==
    ASSUME IsArchive(archive), ReportShape, EditedInv, CfgInv, [Next]_vars
    PROVE  CfgInv'
<1> USE DEF At
<1>1. CASE Prepare
  BY <1>1 DEF Prepare, CfgInv, SettledAsPromised
<1>2. CASE PadSlots
  BY <1>2 DEF PadSlots, CfgInv, SettledAsPromised
<1>3. CASE Materialize
  BY <1>3 DEF Materialize, CfgInv, SettledAsPromised
<1>4. CASE MatchSlots
  BY <1>4 DEF MatchSlots, CfgInv, SettledAsPromised
<1>5. CASE OverlayPresets
  BY <1>5 DEF OverlayPresets, CfgInv, SettledAsPromised
<1>6. CASE Compose
  <2>1. stage' = "composed" /\ archive' = archive
    BY <1>6 DEF Compose
  <2> QED
    BY <1>6, <2>1, ComposeStep, SameArchive DEF CfgInv, SettledAsPromised
<1>7. CASE OverlaySlots
  <2>1. /\ stage = "composed" /\ stage' = "overlaid_slots"
        /\ archive' = archive /\ ids' = ids /\ status' = status
        /\ cfg' = [k \in ConfigKey |->
              IF \E s \in DOMAIN ids : k \in SlotOverlay(s) THEN archive.settings[k] ELSE cfg[k]]
    BY <1>7 DEF OverlaySlots
  <2>2. cfg = [k \in ConfigKey |-> ComposedValue(k)]
    BY <2>1 DEF CfgInv
  <2>3. cfg' = [k \in ConfigKey |-> WithoutRequest(k)]
    BY <2>1, <2>2, OverlayContributes
  <2> QED
    BY <2>1, <2>3, SameSources DEF CfgInv, SettledAsPromised
<1>8. CASE OverrideByClient
  <2>1. /\ stage = "overlaid_slots" /\ stage' = "overridden"
        /\ archive' = archive /\ asked' = asked /\ ids' = ids /\ status' = status
        /\ cfg' = [k \in ConfigKey |-> IF k \in Accepted(asked) THEN "client" ELSE cfg[k]]
    BY <1>8 DEF OverrideByClient
  <2>2. cfg = [k \in ConfigKey |-> WithoutRequest(k)]
    BY <2>1 DEF CfgInv
  <2>3. cfg' = [k \in ConfigKey |-> IF k \in Accepted(asked) THEN "client" ELSE WithoutRequest(k)]
    BY <2>1, <2>2
  <2>4. report'.client =
            [k \in Accepted(asked) |-> IF k \in FilamentKey THEN vec[k] ELSE <<cfg[k]>>]
    <3> DEFINE x == [k \in Accepted(asked) |-> IF k \in FilamentKey THEN vec[k] ELSE <<cfg[k]>>]
    <3>1. report' = [report EXCEPT !.client = x]
      BY <1>8 DEF OverrideByClient
    <3> HIDE DEF x
    <3>2. report'.client = x
      BY <3>1 DEF ReportShape
    <3> QED
      BY <3>2 DEF x
  <2>5. /\ DOMAIN report'.client = Accepted(asked)
        /\ \A k \in ConfigKey \cap Accepted(asked) : report'.client[k] = <<WithoutRequest(k)>>
    BY <2>2, <2>4, KeysApart
  <2> QED
    BY <2>1, <2>3, <2>5, SameSources DEF CfgInv, SettledAsPromised
<1>9. CASE WireRequest
  <2>1. /\ stage = "overridden" /\ stage' = "settled"
        /\ archive' = archive /\ asked' = asked /\ report' = report
        /\ ids' = ids /\ status' = status
        /\ cfg' = [k \in ConfigKey |->
                IF k \in BedKeys(asked.bed) \/ (k = MapKey /\ asked.map # <<>>)
                THEN "request" ELSE cfg[k]]
    BY <1>9 DEF WireRequest
  <2>2. cfg = [k \in ConfigKey |-> IF k \in Accepted(asked) THEN "client" ELSE WithoutRequest(k)]
    BY <2>1 DEF CfgInv
  <2>3. \A k \in ConfigKey :
            cfg'[k] = IF RequestNames(k) THEN "request"
                      ELSE IF k \in Accepted(asked) THEN "client" ELSE WithoutRequest(k)
    BY <2>1, <2>2, RequestKeys
  <2>4. \A k : RequestNames(k)' <=> RequestNames(k)
    BY <2>1 DEF RequestNames
  <2>5. SettledAsPromised'
    BY <2>1, <2>3, <2>4, SameSources DEF SettledAsPromised
  <2> QED
    BY <2>1, <2>5, SameSources DEF CfgInv
<1>10. CASE stage' \in Ended
  BY <1>10 DEF Ended, CfgInv, SettledAsPromised
<1>11. CASE UNCHANGED <<stage, archive, asked, settingVars>>
  <2>1. \A k : RequestNames(k)' <=> RequestNames(k)
    BY <1>11 DEF RequestNames
  <2> QED
    BY <1>11, <2>1, SameArchive, SameSources DEF CfgInv, SettledAsPromised, settingVars
<1> QED
  BY <1>1, <1>2, <1>3, <1>4, <1>5, <1>6, <1>7, <1>8, <1>9, <1>10, <1>11, StepKinds

-----------------------------------------------------------------------------

\* What is read of the slots is the same while archive, filaments and presets are.
LEMMA SameSlots ==
    ASSUME archive' = archive, ids' = ids
    PROVE  /\ \A s : SlotStatus(s)' = SlotStatus(s) /\ Original(s)' = Original(s)
           /\ presets' = presets => \A k : OwnValues(k)' = OwnValues(k)
           /\ presets' = presets /\ status' = status => \A k : Overlayed(k)' = Overlayed(k)
<1>1. \A s : Original(s)' = Original(s)
  BY DEF Original
<1>2. \A s : SlotStatus(s)' = SlotStatus(s)
  <2>1. Loaded' = Loaded
    BY DEF Loaded
  <2> QED
    BY <1>1, <2>1 DEF SlotStatus, ChildOfPick
<1>3. ASSUME presets' = presets
      PROVE  \A k : OwnValues(k)' = OwnValues(k)
  BY <1>3 DEF OwnValues
<1>4. ASSUME presets' = presets, status' = status
      PROVE  \A k : Overlayed(k)' = Overlayed(k)
  <2>1. \A s : SlotOverlay(s)' = SlotOverlay(s)
    BY <1>4, SameSources
  <2>2. \A k : FileVector(k)' = FileVector(k)
    BY DEF FileVector
  <2> QED
    BY <1>3, <1>4, <2>1, <2>2 DEF Overlayed
<1> QED
  BY <1>1, <1>2, <1>3, <1>4

\* Matching fixes preset and status of each slot; the filament settings are
\* composed from the presets, overlaid once and overridden once.
LEMMA SlotStep ==
    ASSUME SlotInv, [Next]_vars
    PROVE  SlotInv'
<1> USE DEF At, AfterOverlay
<1>1. CASE Prepare
  BY <1>1 DEF Prepare, SlotInv
<1>2. CASE PadSlots
  BY <1>2 DEF PadSlots, SlotInv
<1>3. CASE Materialize
  BY <1>3 DEF Materialize, SlotInv
<1>4. CASE MatchSlots
  <2>1. /\ stage' = "matched" /\ archive' = archive /\ ids' = ids
        /\ status' = [s \in DOMAIN ids |-> SlotStatus(s)]
        /\ presets' = [s \in DOMAIN ids |->
                IF SlotStatus(s) = "applied" THEN Original(s) ELSE ids[s]]
    BY <1>4 DEF MatchSlots
  <2> QED
    BY <2>1, SameSlots DEF SlotInv
<1>5. CASE OverlayPresets
  <2>1. /\ stage = "matched" /\ stage' = "overlaid" /\ archive' = archive /\ ids' = ids
        /\ status' = status /\ presets' = presets
    BY <1>5 DEF OverlayPresets
  <2> QED
    BY <2>1, SameSlots DEF SlotInv
<1>6. CASE Compose
  <2>1. /\ stage = "overlaid" /\ stage' = "composed" /\ archive' = archive /\ ids' = ids
        /\ status' = status /\ presets' = presets
        /\ vec' = [k \in FilamentKey |-> [s \in DOMAIN presets |-> PresetValue(presets[s], k)]]
    BY <1>6 DEF Compose
  <2>2. DOMAIN presets = DOMAIN ids
    BY <2>1 DEF SlotInv
  <2>3. vec' = [k \in FilamentKey |-> OwnValues(k)]
    BY <2>1, <2>2 DEF OwnValues
  <2> QED
    BY <2>1, <2>3, SameSlots DEF SlotInv
<1>7. CASE OverlaySlots
  <2>1. /\ stage = "composed" /\ stage' = "overlaid_slots" /\ archive' = archive /\ ids' = ids
        /\ status' = status /\ presets' = presets
        /\ vec' = [k \in FilamentKey |->
                IF \E s \in DOMAIN ids : k \in SlotOverlay(s) THEN FileVector(k) ELSE vec[k]]
    BY <1>7 DEF OverlaySlots
  <2>2. vec = [k \in FilamentKey |-> OwnValues(k)]
    BY <2>1 DEF SlotInv
  <2>3. vec' = [k \in FilamentKey |-> Overlayed(k)]
    BY <2>1, <2>2 DEF Overlayed
  <2> QED
    BY <2>1, <2>3, SameSlots DEF SlotInv
<1>8. CASE OverrideByClient
  <2>1. /\ stage = "overlaid_slots" /\ stage' = "overridden" /\ archive' = archive /\ ids' = ids
        /\ status' = status /\ presets' = presets /\ asked' = asked
        /\ vec' = [k \in FilamentKey |-> IF k \in Accepted(asked) THEN <<"client">> ELSE vec[k]]
    BY <1>8 DEF OverrideByClient
  <2>2. vec = [k \in FilamentKey |-> Overlayed(k)]
    BY <2>1 DEF SlotInv
  <2>3. vec' = [k \in FilamentKey |-> IF k \in Accepted(asked) THEN <<"client">> ELSE Overlayed(k)]
    BY <2>1, <2>2
  <2> QED
    BY <2>1, <2>3, SameSlots DEF SlotInv
<1>9. CASE WireRequest
  <2>1. /\ stage = "overridden" /\ stage' = "settled" /\ archive' = archive /\ ids' = ids
        /\ status' = status /\ presets' = presets /\ asked' = asked /\ vec' = vec
    BY <1>9 DEF WireRequest
  <2> QED
    BY <2>1, SameSlots DEF SlotInv
<1>10. CASE stage' \in Ended
  BY <1>10 DEF Ended, SlotInv
<1>11. CASE UNCHANGED <<stage, archive, asked, settingVars>>
  BY <1>11, SameSlots DEF SlotInv, settingVars
<1> QED
  BY <1>1, <1>2, <1>3, <1>4, <1>5, <1>6, <1>7, <1>8, <1>9, <1>10, <1>11, StepKinds

\* The answer's slots are set by the match and by the slots' overlay.
LEMMA AnswerStep ==
    ASSUME ReportShape, AnswerInv, [Next]_vars
    PROVE  AnswerInv'
<1> USE DEF At
<1> DEFINE Told == {"matched", "overlaid", "composed", "overlaid_slots", "overridden", "settled"}
<1>1. CASE MatchSlots
  <2> DEFINE x == [s \in DOMAIN ids |-> [transferred |-> {}, discarded |-> Discarded(s)]]
  <2>1. report' = [report EXCEPT !.slots = x] /\ stage' = "matched" /\ ids' = ids
    BY <1>1 DEF MatchSlots
  <2> HIDE DEF x
  <2>2. report'.slots = x
    BY <2>1 DEF ReportShape
  <2>3. DOMAIN x = DOMAIN ids /\ \A s \in DOMAIN ids : DOMAIN x[s] = {"transferred", "discarded"}
    BY DEF x
  <2> QED
    BY <2>1, <2>2, <2>3 DEF AnswerInv
<1>2. ASSUME report'.slots = report.slots, ids' = ids, archive' = archive, status' = status,
             \/ stage \in {"matched", "overlaid"} /\ stage' \in {"overlaid", "composed"}
             \/ stage \in {"overlaid_slots", "overridden"} /\ stage' \in {"overridden", "settled"}
             \/ stage' = stage
      PROVE  AnswerInv'
  BY <1>2, SameSources DEF AnswerInv
<1>3. CASE OverlayPresets
  <2> DEFINE p == ProcessOverlay
             q == PrinterOverlay
  <2>1. report' = [report EXCEPT !.process = p, !.printer = q]
    BY <1>3 DEF OverlayPresets
  <2> HIDE DEF p, q
  <2>2. report'.slots = report.slots
    BY <2>1 DEF ReportShape
  <2> QED
    BY <1>2, <1>3, <2>2 DEF OverlayPresets
<1>4. CASE Compose
  BY <1>2, <1>4 DEF Compose
<1>5. CASE OverlaySlots
  <2> DEFINE x == [s \in DOMAIN ids |-> [report.slots[s] EXCEPT !.transferred = SlotOverlay(s)]]
  <2>1. /\ report' = [report EXCEPT !.slots = x] /\ stage = "composed" /\ stage' = "overlaid_slots"
        /\ ids' = ids /\ archive' = archive /\ status' = status
    BY <1>5, Zenon DEF OverlaySlots
  <2>2. \A s \in DOMAIN ids : DOMAIN report.slots[s] = {"transferred", "discarded"}
    BY <2>1 DEF AnswerInv
  <2>3. DOMAIN x = DOMAIN ids /\ \A s \in DOMAIN ids : x[s].transferred = SlotOverlay(s)
    BY <2>2
  <2> HIDE DEF x
  <2>4. report'.slots = x
    BY <2>1 DEF ReportShape
  <2> QED
    BY <2>1, <2>3, <2>4, SameSources DEF AnswerInv
<1>6. CASE OverrideByClient
  <2>1. PICK x : report' = [report EXCEPT !.client = x]
    BY <1>6 DEF OverrideByClient
  <2>2. report'.slots = report.slots
    BY <2>1 DEF ReportShape
  <2> QED
    BY <1>2, <1>6, <2>2 DEF OverrideByClient
<1>7. CASE WireRequest
  BY <1>2, <1>7 DEF WireRequest
<1>8. CASE stage' \notin Told
  BY <1>8 DEF AnswerInv
<1>9. CASE UNCHANGED <<stage, archive, asked, settingVars>>
  BY <1>2, <1>9 DEF settingVars
<1>10. Prepare \/ PadSlots \/ Materialize \/ stage' \in Ended => stage' \notin Told
  BY DEF Prepare, PadSlots, Materialize, Ended
<1> QED
  BY <1>1, <1>3, <1>4, <1>5, <1>6, <1>7, <1>8, <1>9, <1>10, StepKinds

\* What stands on the plate is read from the archive, the request and the
\* configuration.
LEMMA SamePlate ==
    ASSUME archive' = archive, asked' = asked, cfg' = cfg
    PROVE  OnPlate' = OnPlate /\ PlateAsked' = PlateAsked /\ Bed' = Bed
  BY DEF OnPlate, StandsOn, Instances, Instance, Bed, PlateAsked

\* Isolation keeps what stands on the plate, and copies are added to it.
LEMMA PlateStep ==
    ASSUME RequestTyped, PlateInv, [Next]_vars
    PROVE  PlateInv'
<1> USE DEF Isolated
<1>1. CASE IsolatePlate
  BY <1>1, SamePlate DEF IsolatePlate, PlateInv, settingVars
<1>2. CASE PlaceCopies
  <2>1. /\ OnPlate' = OnPlate /\ PlateAsked' = PlateAsked
        /\ archive' = archive /\ stage = "isolated"
        /\ instances' = [i \in DOMAIN instances |->
                            IF IsLast(i) THEN instances[i] + (asked.copies - 1) ELSE instances[i]]
    BY <1>2, SamePlate DEF PlaceCopies, At, settingVars
  <2>2. ASSUME Len(archive.platers) > 1
        PROVE  /\ PlateAsked <= Len(archive.platers)
               /\ DOMAIN instances' = OnPlate
               /\ \A i \in OnPlate : instances'[i] \in Nat \ {0}
    <3>1. /\ PlateAsked <= Len(archive.platers) /\ DOMAIN instances = OnPlate
          /\ \A i \in OnPlate : instances[i] \in Nat \ {0}
      BY <2>1, <2>2 DEF PlateInv
    <3>2. asked.copies - 1 \in Nat
      BY DEF RequestTyped
    <3>3. \A i \in OnPlate : instances[i] + (asked.copies - 1) \in Nat \ {0}
      BY <3>1, <3>2
    <3> QED
      BY <2>1, <3>1, <3>3
  <2> QED
    BY <2>1, <2>2 DEF PlateInv
<1>3. CASE Export
  BY <1>3, SamePlate DEF Export, PlateInv, At, settingVars
<1>4. CASE stage' \notin Isolated
  BY <1>4 DEF PlateInv
<1>5. CASE UNCHANGED <<stage, archive, asked, cfg, instances>>
  BY <1>5, SamePlate DEF PlateInv
<1>6. IsolatePlate \/ PlaceCopies \/ Export \/ stage' \notin Isolated
        \/ UNCHANGED <<stage, archive, asked, cfg, instances>>
  <2>1. ASSUME SettingsNext
        PROVE  stage' \notin Isolated
    BY <2>1 DEF SettingsNext, Prepare, RejectMap, PadSlots, RejectForeign, Materialize,
      RejectArchive, MatchSlots, OverlayPresets, Compose, OverlaySlots, OverrideByClient,
      WireRequest, EngineFails, Refuse, At
  <2>2. CASE UNCHANGED vars
    BY <2>2 DEF vars, settingsVars, settingVars
  <2> QED
    BY <2>1, <2>2 DEF Next, Configure, RejectPlate, CopiesDoNotFit, ApplyFails, SliceFails, Refuse
<1> QED
  BY <1>1, <1>2, <1>3, <1>4, <1>5, <1>6

\* The archive is one, whatever is baked into it, and the request stays.
LEMMA RequestStays ==
    ASSUME [Next]_vars
    PROVE  asked' = asked /\ (RequestTyped => RequestTyped')
  BY OnlyPrepareEdits DEF Prepare, RequestTyped

\* Every step keeps IInv.
LEMMA SettledStep ==
    ASSUME IInv, [Next]_vars
    PROVE  IInv'
  BY BakedStays, ReportKeepsShape, EditedStep, CfgStep, SlotStep, AnswerStep, PlateStep,
    RequestStays DEF IInv

\* IInv holds throughout.
THEOREM Settled == Spec => []IInv
<1>1. IInv /\ [Next]_vars => IInv'
  BY SettledStep
<1> QED
  BY <1>1, InitIInv, PTL DEF Spec

-----------------------------------------------------------------------------

\* Whatever the archive, the request and the presets, every setting of the
\* final configuration comes from the strongest source that may set it.
THEOREM StrongestSourceWins == Spec => []SettledAsPromised
<1>1. IInv => SettledAsPromised
  BY DEF IInv, CfgInv
<1> QED
  BY <1>1, Settled, PTL

\* What the author or prepare wrote is never mistaken for a preset's value.
LEMMA FileValues ==
    ASSUME IsArchive(archive), NEW k \in ConfigKey
    PROVE  /\ k \notin ProjectKey =>
                (WithoutRequest(k) # "preset" <=>
                    \/ k \in ProcessOverlay \cup PrinterOverlay
                    \/ \E s \in DOMAIN ids : k \in SlotOverlay(s))
           /\ WithoutRequest(k) \in {"preset", "author", "baked"}
<1>1. archive.settings \in [DOMAIN archive.settings -> {"author", "baked"}]
  BY DEF IsArchive
<1>2. \A s : SlotOverlay(s) \subseteq DOMAIN archive.settings
  BY DEF SlotOverlay, Overlaid
<1>3. ProcessOverlay \cup PrinterOverlay \subseteq DOMAIN archive.settings
  BY DEF ProcessOverlay, PrinterOverlay, Overlaid
<1>4. ComposedValue(k) = IF (IF k \in ProjectKey THEN k \in DOMAIN archive.settings
                             ELSE k \in ProcessOverlay \cup PrinterOverlay)
                         THEN archive.settings[k] ELSE "preset"
  BY DEF ComposedValue
<1>5. WithoutRequest(k) = IF \E s \in DOMAIN ids : k \in SlotOverlay(s)
                          THEN archive.settings[k] ELSE ComposedValue(k)
  BY OverlayContributes
<1> QED
  BY <1>1, <1>2, <1>3, <1>4, <1>5

\* The settings_transfer of the answer is what happened to the settings: keys
\* reported as transferred are in effect, those in effect are reported, and the
\* value reported for an override is the one it replaced.
THEOREM AnswerTellsTheEffect == Spec => []ReportIsEffect
<1>1. ASSUME IInv, At("settled")
      PROVE  (Transferred \cap ConfigKey) \ ProjectKey =
                {k \in ConfigKey \ ProjectKey : WithoutRequest(k) # "preset"}
  <2>1. report.process = ProcessOverlay /\ report.printer = PrinterOverlay
    BY <1>1 DEF IInv, EditedInv, AfterOverlay, At
  <2>2. /\ DOMAIN report.slots = DOMAIN ids
        /\ \A s \in DOMAIN ids : report.slots[s].transferred = SlotOverlay(s)
    BY <1>1 DEF IInv, AnswerInv, At
  <2>3. ASSUME NEW k
        PROVE  k \in Transferred <=> \/ k \in ProcessOverlay \cup PrinterOverlay
                                      \/ \E s \in DOMAIN ids : k \in SlotOverlay(s)
    BY <2>1, <2>2 DEF Transferred
  <2>4. \A k \in ConfigKey \ ProjectKey : k \in Transferred <=> WithoutRequest(k) # "preset"
    BY <1>1, <2>3, FileValues DEF IInv
  <2> QED
    BY <2>4
<1>2. ASSUME IInv, At("settled"), NEW k \in ConfigKey
      PROVE  /\ cfg[k] = "client" => k \in DOMAIN report.client
             /\ k \in DOMAIN report.client =>
                  /\ cfg[k] = "client" \/ RequestNames(k)
                  /\ report.client[k] = <<WithoutRequest(k)>>
  <2>1. cfg[k] = IF RequestNames(k) THEN "request"
                 ELSE IF k \in Accepted(asked) THEN "client" ELSE WithoutRequest(k)
    BY <1>2 DEF IInv, CfgInv, SettledAsPromised
  <2>2. /\ DOMAIN report.client = Accepted(asked)
        /\ k \in Accepted(asked) => report.client[k] = <<WithoutRequest(k)>>
    BY <1>2 DEF IInv, CfgInv, At
  <2>3. WithoutRequest(k) # "client"
    BY <1>2, FileValues DEF IInv
  <2> QED
    BY <2>1, <2>2, <2>3
<1>3. IInv => ReportIsEffect
  BY <1>1, <1>2 DEF ReportIsEffect
<1> QED
  BY <1>3, Settled, PTL

\* Every slot the client left as it was is printed with its author's changes,
\* and a setting no such slot changes has in every slot its preset's value.
THEOREM SlotsKeepTheirOwn == Spec => []SlotsGetTheirOwn
<1>1. ASSUME IInv, At("settled"), NEW s \in DOMAIN ids
      PROVE  /\ presets[s] # ids[s] => Inherits[presets[s]] = ids[s] /\ presets[s] = Original(s)
             /\ \A k \in FilamentKey \ Accepted(asked) :
                  /\ Brings(s, k) => ValueAt(k, s) = archive.settings[k]
                  /\ (\A t \in DOMAIN ids : ~Brings(t, k)) =>
                        ValueAt(k, s) = PresetValue(presets[s], k)
  <2>1. /\ \A t \in DOMAIN ids : status[t] = SlotStatus(t)
        /\ presets[s] = IF SlotStatus(s) = "applied" THEN Original(s) ELSE ids[s]
    BY <1>1 DEF IInv, SlotInv, AfterOverlay, At
  <2>2. presets[s] # ids[s] => Inherits[presets[s]] = ids[s] /\ presets[s] = Original(s)
    BY <2>1 DEF SlotStatus, ChildOfPick
  <2>3. ASSUME NEW k \in FilamentKey \ Accepted(asked)
        PROVE  vec[k] = Overlayed(k)
    BY <1>1 DEF IInv, SlotInv, At
  <2>4. ASSUME NEW k \in FilamentKey, NEW t \in DOMAIN ids
        PROVE  k \in SlotOverlay(t) <=> Brings(t, k)
    BY <1>1, SlotBrings DEF IInv
  <2>5. ASSUME NEW k \in FilamentKey \ Accepted(asked), Brings(s, k)
        PROVE  ValueAt(k, s) = archive.settings[k]
    <3>1. vec[k] = FileVector(k)
      BY <2>3, <2>4, <2>5 DEF Overlayed
    <3>2. archive.settings[k] \in {"author", "baked"}
      BY <1>1, <2>5 DEF IInv, IsArchive, Brings, AuthorChanged
    <3>3. CASE archive.settings[k] = "baked"
      BY <3>1, <3>3 DEF FileVector, ValueAt
    <3>4. CASE archive.settings[k] = "author"
      <4>1. s \in DOMAIN archive.authored
        BY <2>1, <2>5 DEF Brings, SlotStatus, Original
      <4>2. vec[k][s] = "author" /\ s \in DOMAIN vec[k]
        BY <3>1, <3>4, <4>1 DEF FileVector
      <4> QED
        BY <3>4, <4>2 DEF ValueAt
    <3> QED
      BY <3>2, <3>3, <3>4
  <2>6. ASSUME NEW k \in FilamentKey \ Accepted(asked), \A t \in DOMAIN ids : ~Brings(t, k)
        PROVE  ValueAt(k, s) = PresetValue(presets[s], k)
    BY <2>3, <2>4, <2>6 DEF Overlayed, OwnValues, ValueAt
  <2> QED
    BY <2>2, <2>5, <2>6
<1>2. IInv => SlotsGetTheirOwn
  BY <1>1 DEF SlotsGetTheirOwn
<1> QED
  BY <1>2, Settled, PTL

\* What prepare baked in reaches the slice of the prepared archive and is shown
\* as a change.
THEOREM BakingReachesTheSlice == Spec => []BakedReachesSlice
<1>1. ASSUME IInv, At("settled"), NEW k \in (baked \cap ProcessKey) \ FilamentNamed
      PROVE  /\ cfg[k] \in {"baked", "client"}
             /\ k \in report.process \cap ModifiedKeys(archive)
  <2>1. /\ k \in DOMAIN archive.settings /\ archive.settings[k] = "baked"
        /\ k \in ModifiedKeys(archive)
    BY <1>1 DEF IInv, BakedInv
  <2>2. WithoutRequest(k) = "baked"
    BY <1>1, <2>1 DEF WithoutRequest, Contributes, ProcessGroup
  <2>3. k \in ConfigKey /\ ~RequestNames(k)
    BY <1>1, KeysApart DEF ConfigKey, RequestNames
  <2>4. cfg[k] \in {"baked", "client"}
    BY <1>1, <2>2, <2>3 DEF IInv, CfgInv, SettledAsPromised
  <2>5. k \in report.process
    BY <1>1, <2>1 DEF IInv, EditedInv, AfterOverlay, At, ProcessOverlay, Overlaid, ProcessGroup
  <2> QED
    BY <2>1, <2>4, <2>5
<1>2. ASSUME IInv, At("settled"), BedKey \in baked
      PROVE  cfg[BedKey] \in {"baked", "client", "request"}
  <2>1. WithoutRequest(BedKey) = "baked"
    BY <1>2, KeysApart DEF IInv, BakedInv, WithoutRequest, Contributes
  <2> QED
    BY <1>2, <2>1, KeysApart DEF IInv, CfgInv, SettledAsPromised, ConfigKey
<1>3. IInv => BakedReachesSlice
  BY <1>1, <1>2 DEF BakedReachesSlice
<1> QED
  BY <1>3, Settled, PTL

-----------------------------------------------------------------------------
(* Lists of slots *)

\* Every set of numbers has a least one.
LEMMA LeastNumber ==
    ASSUME NEW S \in SUBSET Nat, S # {}
    PROVE  \E x \in S : \A y \in S : x <= y
<1>1. PICK x \in S : \A y \in S : ~ (<<y, x>> \in OpToRel(<, Nat))
  BY NatLessThanWellFounded, WFMin
<1>2. ASSUME NEW y \in S
      PROVE  x <= y
  <2>1. x \in Nat /\ y \in Nat
    OBVIOUS
  <2>2. ~ (y < x)
    BY <1>1, <2>1 DEF OpToRel
  <2> QED
    BY <2>1, <2>2
<1> QED
  BY <1>2

\* Slots in ascending order are at least as far apart as their places.
LEMMA AscendingGaps ==
    ASSUME NEW n \in Nat, NEW f \in [1..n -> Nat], Ascending(f)
    PROVE  \A i, j \in 1..n : i <= j => f[j] >= f[i] + (j - i)
<1> DEFINE Good(d) == \A i \in 1..n : i + d \in 1..n => f[i + d] >= f[i] + d
           Bad == {d \in Nat : ~ Good(d)}
<1>1. Bad = {}
  <2> SUFFICES ASSUME Bad # {} PROVE FALSE
    OBVIOUS
  <2>1. PICK d \in Bad : \A e \in Bad : d <= e
    <3>1. Bad \in SUBSET Nat
      OBVIOUS
    <3> HIDE DEF Bad
    <3> QED
      BY <3>1, LeastNumber
  <2>2. d \in Nat /\ d # 0
    OBVIOUS
  <2>3. Good(d - 1)
    <3>1. d - 1 \in Nat /\ ~ (d <= d - 1)
      BY <2>2
    <3>2. d - 1 \notin Bad
      BY <2>1, <3>1
    <3> HIDE DEF Good
    <3> QED
      BY <3>1, <3>2
  <2>4. ASSUME NEW i \in 1..n, i + d \in 1..n
        PROVE  f[i + d] >= f[i] + d
    <3>1. i + (d - 1) \in 1..n /\ i + (d - 1) < i + d
      BY <2>2, <2>4
    <3>2. f[i + (d - 1)] >= f[i] + (d - 1)
      BY <2>3, <3>1
    <3>3. f[i + (d - 1)] < f[i + d]
      BY <2>4, <3>1 DEF Ascending
    <3>4. f[i] \in Nat /\ f[i + (d - 1)] \in Nat /\ f[i + d] \in Nat
      BY <2>4, <3>1
    <3> DEFINE a == f[i]
               b == f[i + (d - 1)]
               c == f[i + d]
    <3>5. b >= a + (d - 1) /\ b < c /\ a \in Nat /\ b \in Nat /\ c \in Nat
      BY <3>2, <3>3, <3>4
    <3> HIDE DEF a, b, c
    <3>6. c >= a + d
      BY <2>2, <3>5
    <3> QED
      BY <3>6 DEF a, c
  <2> QED
    BY <2>4
<1>2. ASSUME NEW i \in 1..n, NEW j \in 1..n, i <= j
      PROVE  f[j] >= f[i] + (j - i)
  <2>1. j - i \in Nat /\ i + (j - i) = j
    BY <1>2
  <2>2. Good(j - i)
    <3> HIDE DEF Good
    <3> QED
      BY <1>1, <2>1
  <2> QED
    BY <2>1, <2>2
<1> QED
  BY <1>2

\* With no more slots than the number of the last one, there are no gaps.
LEMMA AscendingDense ==
    ASSUME NEW n \in Nat, NEW f \in [1..n -> Nat \ {0}], Ascending(f),
           \A i \in 1..n : f[i] <= n
    PROVE  \A i \in 1..n : f[i] = i
<1> SUFFICES ASSUME NEW i \in 1..n PROVE f[i] = i
  OBVIOUS
<1>1. f \in [1..n -> Nat]
  OBVIOUS
<1>2. \A k, j \in 1..n : k <= j => f[j] >= f[k] + (j - k)
  BY <1>1, AscendingGaps
<1>3. 1 \in 1..n /\ n \in 1..n /\ 1 <= i /\ i <= n
  OBVIOUS
<1>4. f[i] >= f[1] + (i - 1) /\ f[n] >= f[i] + (n - i)
  BY <1>2, <1>3
<1>5. f[1] \in Nat \ {0} /\ f[n] <= n /\ f[i] \in Nat /\ f[n] \in Nat
  BY <1>3
<1> QED
  BY <1>4, <1>5

\* Slots in ascending order are listed once, and the last one is the greatest.
LEMMA AscendingOnce ==
    ASSUME NEW n \in Nat, NEW f \in [1..n -> Nat], Ascending(f)
    PROVE  \A i, j \in 1..n : (f[i] = f[j] => i = j) /\ (i <= j => f[i] <= f[j])
<1> SUFFICES ASSUME NEW i \in 1..n, NEW j \in 1..n
             PROVE  (f[i] = f[j] => i = j) /\ (i <= j => f[i] <= f[j])
  OBVIOUS
<1>1. (i < j => f[i] < f[j]) /\ (j < i => f[j] < f[i])
  BY DEF Ascending
<1> QED
  BY <1>1

\* The greatest of a set that has one.
LEMMA MaxIs ==
    ASSUME NEW S \in SUBSET Nat, NEW m \in S, \A x \in S : x <= m
    PROVE  Max(S) = m
<1>1. \A x \in S : (\A y \in S : x >= y) => x = m
  OBVIOUS
<1> QED
  BY <1>1 DEF Max

\* A finite set of numbers can be listed in ascending order.
LEMMA CanBeListed ==
    ASSUME NEW S \in SUBSET Nat, IsFiniteSet(S)
    PROVE  \E f \in [1..Cardinality(S) -> S] : Ascending(f)
<1> DEFINE Good(n) == \A T \in SUBSET Nat :
                IsFiniteSet(T) /\ Cardinality(T) = n => \E f \in [1..n -> T] : Ascending(f)
           Bad == {n \in Nat : ~ Good(n)}
<1>1. Bad = {}
  <2> SUFFICES ASSUME Bad # {} PROVE FALSE
    OBVIOUS
  <2>1. PICK n \in Bad : \A e \in Bad : n <= e
    <3>1. Bad \in SUBSET Nat
      OBVIOUS
    <3> HIDE DEF Bad
    <3> QED
      BY <3>1, LeastNumber
  <2>2. PICK T \in SUBSET Nat :
            IsFiniteSet(T) /\ Cardinality(T) = n /\ ~ \E f \in [1..n -> T] : Ascending(f)
    OBVIOUS
  <2>3. n # 0
    <3>1. [i \in 1..0 |-> 0] \in [1..0 -> T] /\ Ascending([i \in 1..0 |-> 0])
      BY DEF Ascending
    <3> QED
      BY <2>2, <3>1
  <2>4. T # {}
    BY <2>2, <2>3, FS_EmptySet
  <2>5. PICK m \in T : \A y \in T : m <= y
    BY <2>4, LeastNumber
  <2> DEFINE R == T \ {m}
  <2>6. IsFiniteSet(R) /\ Cardinality(R) = n - 1 /\ n - 1 \in Nat
    BY <2>2, <2>3, FS_RemoveElement
  <2>7. Good(n - 1)
    <3>1. n - 1 \notin Bad
      BY <2>1, <2>6
    <3> QED
      BY <2>6, <3>1
  <2>8. PICK g \in [1..(n - 1) -> R] : Ascending(g)
    BY <2>6, <2>7
  <2> DEFINE f == [i \in 1..n |-> IF i = 1 THEN m ELSE g[i - 1]]
  <2>9. \A i \in 1..n : i # 1 => i - 1 \in 1..(n - 1) /\ g[i - 1] \in R
    OBVIOUS
  <2>10. f \in [1..n -> T]
    BY <2>9
  <2>11. \A y \in R : m < y /\ y \in Nat
    BY <2>5
  <2>12. ASSUME NEW i \in 1..n, NEW j \in 1..n, i < j
         PROVE  f[i] < f[j]
    <3>1. j # 1 /\ f[j] = g[j - 1] /\ j - 1 \in 1..(n - 1) /\ g[j - 1] \in R
      BY <2>9, <2>12
    <3>2. CASE i = 1
      BY <2>11, <3>1, <3>2
    <3>3. CASE i # 1
      <4>1. f[i] = g[i - 1] /\ i - 1 \in 1..(n - 1) /\ i - 1 < j - 1
        BY <2>9, <2>12, <3>3
      <4>2. g[i - 1] < g[j - 1]
        BY <2>8, <3>1, <4>1 DEF Ascending
      <4> QED
        BY <3>1, <4>1, <4>2
    <3> QED
      BY <3>2, <3>3
  <2>13. Ascending(f)
    BY <2>12 DEF Ascending
  <2> QED
    BY <2>2, <2>10, <2>13
<1>2. Cardinality(S) \in Nat
  BY FS_CardinalityType
<1>3. Good(Cardinality(S))
  BY <1>1, <1>2
<1> QED
  BY <1>3

\* The slots the slicer lists are those of the set, in ascending order.
LEMMA InOrderLists ==
    ASSUME NEW S \in SUBSET Nat, IsFiniteSet(S)
    PROVE  /\ Cardinality(S) \in Nat
           /\ InOrder(S) \in [1..Cardinality(S) -> S]
           /\ Ascending(InOrder(S))
           /\ ToSet(InOrder(S)) = S
<1> DEFINE n == Cardinality(S)
           f == InOrder(S)
<1>1. n \in Nat
  BY FS_CardinalityType
<1>2. f \in [1..n -> S] /\ Ascending(f)
  BY CanBeListed DEF InOrder
<1>3. f \in Injection(1..n, S)
  <2>1. f \in [1..n -> Nat]
    BY <1>2
  <2> HIDE DEF f, n
  <2>2. \A i, j \in 1..n : f[i] = f[j] => i = j
    BY <1>1, <1>2, <2>1, AscendingOnce
  <2> QED
    BY <1>2, <2>2 DEF Injection, IsInjective
<1>4. Cardinality(1..n) = n
  BY <1>1, FS_Interval
<1>5. f \in Surjection(1..n, S)
  <2> HIDE DEF f
  <2> QED
    BY <1>3, <1>4, FS_Injection
<1>6. ToSet(f) = S
  <2>1. \A s \in S : \E i \in 1..n : f[i] = s
    BY <1>5 DEF Surjection
  <2> HIDE DEF f, n
  <2> QED
    BY <1>2, <2>1 DEF ToSet
<1> QED
  BY <1>1, <1>2, <1>6

\* A finite set of numbers has a greatest one.
LEMMA MaxOfSet ==
    ASSUME NEW S \in SUBSET Nat, IsFiniteSet(S), S # {}
    PROVE  Max(S) \in S /\ \A s \in S : s <= Max(S)
<1> DEFINE n == Cardinality(S)
           f == InOrder(S)
<1>1. n \in Nat /\ f \in [1..n -> S] /\ Ascending(f) /\ ToSet(f) = S
  BY InOrderLists
<1>2. n # 0
  BY FS_EmptySet
<1> HIDE DEF f, n
<1>3. f \in [1..n -> Nat]
  BY <1>1
<1>4. \A s \in S : \E i \in 1..n : f[i] = s
  BY <1>1 DEF ToSet
<1>5. n \in 1..n
  BY <1>1, <1>2
<1>6. \A i \in 1..n : i <= n /\ f[i] <= f[n]
  BY <1>1, <1>3, <1>5, AscendingOnce
<1>7. f[n] \in S /\ \A s \in S : s <= f[n]
  BY <1>1, <1>4, <1>5, <1>6
<1> QED
  BY <1>7, MaxIs

\* The slots of a list are finitely many.
LEMMA ListIsFinite ==
    ASSUME NEW n \in Nat, NEW f, DOMAIN f = 1..n
    PROVE  IsFiniteSet(ToSet(f))
<1>1. IsFiniteSet(1..n)
  BY FS_Interval
<1>2. ExistsSurjection(1..n, ToSet(f))
  <2> DEFINE g == [i \in 1..n |-> f[i]]
  <2>1. g \in Surjection(1..n, ToSet(f))
    BY DEF Surjection, ToSet
  <2> QED
    BY <2>1 DEF ExistsSurjection
<1> QED
  BY <1>1, <1>2, FS_Surjection DEF ExistsSurjection

\* The function FlattenSeq defines by recursion, as far as n.
Flattens(seqs, n, g) ==
    g = [i \in 1..n |-> IF i = 1 THEN seqs[i] ELSE g[i - 1] \o seqs[i]]

\* There is such a function.
LEMMA FlatteningExists ==
    ASSUME NEW seqs
    PROVE  \A n \in Nat : \E g : Flattens(seqs, n, g)
<1> DEFINE Good(n) == \E g : Flattens(seqs, n, g)
           Bad == {n \in Nat : ~ Good(n)}
<1>1. ASSUME Bad # {} PROVE FALSE
  <2>1. PICK n \in Bad : \A e \in Bad : n <= e
    <3>1. Bad \in SUBSET Nat
      OBVIOUS
    <3> HIDE DEF Bad
    <3> QED
      BY <1>1, <3>1, LeastNumber
  <2>2. n \in Nat /\ ~ Good(n)
    OBVIOUS
  <2>3. n # 0
    <3> DEFINE g == [i \in 1..0 |-> 0]
    <3>1. g = [i \in 1..0 |-> IF i = 1 THEN seqs[i] ELSE g[i - 1] \o seqs[i]]
      OBVIOUS
    <3>2. Good(0)
      BY <3>1 DEF Flattens
    <3> QED
      BY <2>2, <3>2
  <2>4. Good(n - 1)
    <3>1. n - 1 \in Nat /\ ~ (n <= n - 1)
      BY <2>2, <2>3
    <3>2. n - 1 \notin Bad
      BY <2>1, <3>1
    <3> HIDE DEF Good
    <3> QED
      BY <3>1, <3>2
  <2>5. PICK g : Flattens(seqs, n - 1, g)
    BY <2>4
  <2> DEFINE new == IF n = 1 THEN seqs[n] ELSE g[n - 1] \o seqs[n]
             h == [i \in 1..n |-> IF i = n THEN new ELSE g[i]]
  <2>6. ASSUME NEW i \in 1..n
        PROVE  h[i] = IF i = 1 THEN seqs[i] ELSE h[i - 1] \o seqs[i]
    <3>1. CASE i = n
      <4>1. n # 1 => n - 1 \in 1..n /\ n - 1 # n
        BY <2>2, <2>3
      <4> QED
        BY <3>1, <4>1
    <3>2. CASE i # n
      <4>1. i \in 1..(n - 1) /\ (i # 1 => i - 1 \in 1..n /\ i - 1 # n)
        BY <2>2, <3>2
      <4>2. g[i] = IF i = 1 THEN seqs[i] ELSE g[i - 1] \o seqs[i]
        BY <2>5, <4>1 DEF Flattens
      <4> HIDE DEF new
      <4> QED
        BY <3>2, <4>1, <4>2
    <3> QED
      BY <3>1, <3>2
  <2>7. Flattens(seqs, n, h)
    <3>1. h = [i \in 1..n |-> h[i]]
      OBVIOUS
    <3> HIDE DEF h
    <3> QED
      BY <2>6, <3>1 DEF Flattens
  <2> QED
    BY <2>2, <2>7
<1> QED
  BY <1>1

\* A list of lists of x's put together is a list of x's.
LEMMA FlattenTyped ==
    ASSUME NEW X, NEW seqs \in Seq(Seq(X))
    PROVE  FlattenSeq(seqs) \in Seq(X)
<1> DEFINE n == Len(seqs)
<1>1. n \in Nat /\ \A i \in 1..n : seqs[i] \in Seq(X)
  OBVIOUS
<1>2. CASE n = 0
  BY <1>2 DEF FlattenSeq
<1>3. CASE n # 0
  <2>1. PICK g : Flattens(seqs, n, g) /\ FlattenSeq(seqs) = g[n]
    <3>1. \E g : Flattens(seqs, n, g)
      BY <1>1, FlatteningExists
    <3>2. FlattenSeq(seqs) = (CHOOSE g : Flattens(seqs, n, g))[n]
      BY <1>3 DEF FlattenSeq, Flattens
    <3> HIDE DEF n
    <3> QED
      BY <3>1, <3>2
  <2> DEFINE Bad == {i \in Nat : i \in 1..n /\ g[i] \notin Seq(X)}
  <2>2. ASSUME Bad # {} PROVE FALSE
    <3>1. PICK i \in Bad : \A e \in Bad : i <= e
      <4>1. Bad \in SUBSET Nat
        OBVIOUS
      <4> HIDE DEF Bad
      <4> QED
        BY <2>2, <4>1, LeastNumber
    <3>2. i \in 1..n /\ g[i] \notin Seq(X)
      OBVIOUS
    <3>3. g[i] = IF i = 1 THEN seqs[i] ELSE g[i - 1] \o seqs[i]
      <4> HIDE DEF n, Bad
      <4> QED
        BY <2>1, <3>2 DEF Flattens
    <3>4. i # 1
      BY <1>1, <3>2, <3>3
    <3>5. i - 1 \in Nat /\ i - 1 \in 1..n /\ ~ (i <= i - 1)
      BY <1>1, <3>2, <3>4
    <3>6. g[i - 1] \in Seq(X)
      BY <3>1, <3>5
    <3> HIDE DEF n, Bad
    <3>7. g[i - 1] \o seqs[i] \in Seq(X)
      BY <1>1, <3>2, <3>6
    <3> QED
      BY <3>2, <3>3, <3>4, <3>7
  <2>3. n \in 1..n
    BY <1>1, <1>3
  <2> QED
    BY <1>1, <2>1, <2>2, <2>3
<1> QED
  BY <1>2, <1>3

\* One list put together is itself.
LEMMA FlattenOne ==
    ASSUME NEW s, NEW seqs, seqs = <<s>>
    PROVE  FlattenSeq(seqs) = s
<1>1. Len(seqs) = 1 /\ seqs[1] = s
  OBVIOUS
<1>2. PICK g : Flattens(seqs, 1, g) /\ FlattenSeq(seqs) = g[1]
  <2>1. \E g : Flattens(seqs, 1, g)
    BY FlatteningExists
  <2>2. FlattenSeq(seqs) = (CHOOSE g : Flattens(seqs, 1, g))[1]
    BY <1>1 DEF FlattenSeq, Flattens
  <2> QED
    BY <2>1, <2>2
<1> QED
  BY <1>1, <1>2 DEF Flattens

\* The filament list of an archive names slots.
LEMMA SlotsOfArchive ==
    ASSUME NEW a, IsArchive(a)
    PROVE  AuthoredSlots(a) \in Seq(Nat \ {0})
<1> DEFINE lists == [i \in DOMAIN a.slices |-> a.slices[i].slots]
           slots == [i \in DOMAIN a.authored |-> i]
<1>1. a.slices \in Seq([index : Nat, slots : Seq(Nat \ {0})]) /\ a.authored \in Seq(Preset \cup {NoName})
  BY DEF IsArchive
<1>2. lists \in Seq(Seq(Nat \ {0}))
  <2>1. /\ Len(a.slices) \in Nat /\ DOMAIN a.slices = 1..Len(a.slices)
        /\ \A i \in 1..Len(a.slices) : a.slices[i].slots \in Seq(Nat \ {0})
    <3> DEFINE entry == [index : Nat, slots : Seq(Nat \ {0})]
    <3>1. \A x \in entry : x.slots \in Seq(Nat \ {0})
      OBVIOUS
    <3>2. a.slices \in Seq(entry)
      BY <1>1
    <3> HIDE DEF entry
    <3>3. /\ Len(a.slices) \in Nat /\ DOMAIN a.slices = 1..Len(a.slices)
          /\ \A i \in 1..Len(a.slices) : a.slices[i] \in entry
      BY <3>2
    <3> QED
      BY <3>1, <3>3
  <2>2. lists \in [1..Len(a.slices) -> Seq(Nat \ {0})]
    BY <2>1
  <2> HIDE DEF lists
  <2> QED
    BY <2>1, <2>2
<1>3. FlattenSeq(lists) \in Seq(Nat \ {0})
  <2> HIDE DEF lists
  <2> QED
    BY <1>2, FlattenTyped
<1>4. slots \in Seq(Nat \ {0})
  <2>1. Len(a.authored) \in Nat /\ DOMAIN a.authored = 1..Len(a.authored)
    BY <1>1
  <2>2. slots \in [1..Len(a.authored) -> Nat \ {0}]
    BY <2>1
  <2> HIDE DEF slots
  <2> QED
    BY <2>1, <2>2
<1>5. AuthoredSlots(a) \in {FlattenSeq(lists), slots}
  BY DEF AuthoredSlots
<1> HIDE DEF lists, slots
<1> QED
  BY <1>3, <1>4, <1>5

\* With a filament for each slot of the list, none of them stays without one.
LEMMA PaddedCovers ==
    ASSUME NEW slots \in Seq(Nat \ {0}), NEW sent \in Seq(System), Len(slots) = Len(sent)
    PROVE  ToSet(slots) \subseteq DOMAIN Padded(slots, sent)
<1>1. CASE slots = <<>>
  BY <1>1 DEF ToSet
<1>2. CASE slots # <<>>
  <2>1. ToSet(slots) \in SUBSET Nat /\ IsFiniteSet(ToSet(slots)) /\ ToSet(slots) # {}
    <3>1. Len(slots) \in Nat /\ DOMAIN slots = 1..Len(slots) /\ 1 \in DOMAIN slots
      BY <1>2
    <3>2. IsFiniteSet(ToSet(slots))
      BY <3>1, ListIsFinite
    <3>3. ToSet(slots) \in SUBSET Nat /\ slots[1] \in ToSet(slots)
      BY <3>1 DEF ToSet
    <3> QED
      BY <3>2, <3>3
  <2>2. \A s \in ToSet(slots) : s \in Nat \ {0} /\ s <= Max(ToSet(slots))
    <3>1. \A s \in ToSet(slots) : s \in Nat \ {0}
      BY DEF ToSet
    <3>2. \A s \in ToSet(slots) : s <= Max(ToSet(slots))
      BY <2>1, MaxOfSet
    <3> QED
      BY <3>1, <3>2
  <2>3. Max(ToSet(slots)) \in Nat
    BY <2>1, MaxOfSet
  <2>4. CASE Max(ToSet(slots)) <= Len(sent)
    BY <2>2, <2>3, <2>4 DEF Padded
  <2>5. CASE ~ (Max(ToSet(slots)) <= Len(sent))
    <3>1. DOMAIN Padded(slots, sent) = 1..Max(ToSet(slots))
      BY <1>2, <2>5 DEF Padded, Placed
    <3> QED
      BY <2>2, <2>3, <3>1
  <2> QED
    BY <2>4, <2>5
<1> QED
  BY <1>1, <1>2

\* Slots listed in order get the filament sent for each, and there is no slot
\* beyond the last of them.
LEMMA PaddedPairs ==
    ASSUME NEW slots \in Seq(Nat \ {0}), NEW sent, DOMAIN sent = 1..Len(slots),
           Len(sent) = Len(slots), slots # <<>>, Ascending(slots)
    PROVE  /\ \A i \in DOMAIN slots : Padded(slots, sent)[slots[i]] = sent[i]
           /\ DOMAIN Padded(slots, sent) = 1..Last(slots)
<1> DEFINE n == Len(slots)
           S == ToSet(slots)
<1>1. n \in Nat \ {0} /\ slots \in [1..n -> Nat] /\ DOMAIN slots = 1..n /\ n \in 1..n
  OBVIOUS
<1>2. \A i, j \in 1..n : (slots[i] = slots[j] => i = j) /\ (i <= j => slots[i] <= slots[j])
  BY <1>1, AscendingOnce
<1>3. Max(S) = slots[n] /\ slots[n] \in Nat
  <2>1. S \in SUBSET Nat /\ slots[n] \in S
    BY <1>1 DEF ToSet
  <2>2. \A x \in S : x <= slots[n]
    BY <1>1, <1>2 DEF ToSet
  <2> HIDE DEF S, n
  <2> QED
    BY <2>1, <2>2, MaxIs
<1>4. CASE slots[n] <= n
  <2>1. \A i \in 1..n : slots[i] <= n
    <3>1. \A i \in 1..n : slots[i] <= slots[n] /\ slots[i] \in Nat
      BY <1>1, <1>2
    <3> QED
      BY <1>1, <1>3, <1>4, <3>1
  <2>2. \A i \in 1..n : slots[i] = i
    <3>1. slots \in [1..n -> Nat \ {0}]
      OBVIOUS
    <3> HIDE DEF n
    <3> QED
      BY <1>1, <2>1, <3>1, AscendingDense
  <2>3. Padded(slots, sent) = sent
    BY <1>3, <1>4 DEF Padded
  <2> QED
    BY <1>1, <2>2, <2>3 DEF Last
<1>5. CASE ~ (slots[n] <= n)
  <2>1. Padded(slots, sent) =
            [s \in 1..slots[n] |->
                IF s \in S THEN sent[Max({i \in DOMAIN slots : slots[i] = s})] ELSE sent[1]]
    BY <1>3, <1>5 DEF Padded, Placed
  <2>2. ASSUME NEW i \in 1..n
        PROVE  slots[i] \in 1..slots[n] /\ slots[i] \in S
               /\ Max({j \in DOMAIN slots : slots[j] = slots[i]}) = i
    <3>1. {j \in DOMAIN slots : slots[j] = slots[i]} = {i}
      BY <1>1, <1>2
    <3>2. Max({i}) = i
      <4>1. i \in Nat /\ i \in {i} /\ {i} \in SUBSET Nat /\ \A x \in {i} : x <= i
        BY <1>1
      <4> QED
        BY <4>1, MaxIs
    <3>3. slots[i] <= slots[n] /\ slots[i] \in Nat \ {0} /\ slots[i] \in S
      BY <1>1, <1>2 DEF ToSet
    <3>4. slots[i] \in 1..slots[n]
      BY <1>3, <3>3
    <3> HIDE DEF S, n
    <3> QED
      BY <3>1, <3>2, <3>3, <3>4
  <2> HIDE DEF S, n
  <2>3. \A i \in DOMAIN slots : Padded(slots, sent)[slots[i]] = sent[i]
    BY <1>1, <2>1, <2>2
  <2> QED
    BY <2>1, <2>3 DEF Last, n
<1> QED
  BY <1>4, <1>5

-----------------------------------------------------------------------------
(* Where plates stand *)

\* There is a number of columns, and no more of them than plates.
LEMMA ColumnsExist ==
    ASSUME NEW n \in Nat \ {0}
    PROVE  Columns(n) \in 1..n
<1> DEFINE Enough == {c \in Nat : c * c >= n}
<1>1. n \in Enough /\ 0 \notin Enough
  <2>1. n * n >= n
    BY SMT
  <2> QED
    BY <2>1
<1>2. PICK c \in Enough : \A e \in Enough : c <= e
  <2>1. Enough \in SUBSET Nat /\ Enough # {}
    BY <1>1
  <2> HIDE DEF Enough
  <2> QED
    BY <2>1, LeastNumber
<1>3. c \in 1..n /\ c * c >= n
  BY <1>1, <1>2
<1>4. (c - 1) * (c - 1) < n
  <2>1. c - 1 \in Nat /\ ~ (c <= c - 1)
    BY <1>3
  <2>2. c - 1 \notin Enough
    BY <1>2, <2>1
  <2>3. (c - 1) * (c - 1) \in Nat
    BY <2>1
  <2> QED
    BY <2>1, <2>2, <2>3
<1> QED
  BY <1>3, <1>4 DEF Columns

\* Each plate stands in a column and a row; no two in the same.
LEMMA PlatesInRows ==
    ASSUME NEW n \in Nat \ {0}, NEW p \in 1..n
    PROVE  /\ (p - 1) % Columns(n) \in Nat /\ (p - 1) \div Columns(n) \in Nat
           /\ \A q \in 1..n :
                (/\ (p - 1) % Columns(n) = (q - 1) % Columns(n)
                 /\ (p - 1) \div Columns(n) = (q - 1) \div Columns(n)) => p = q
           /\ p = 1 => (p - 1) % Columns(n) = 0 /\ (p - 1) \div Columns(n) = 0
<1> DEFINE c == Columns(n)
<1>1. c \in Nat \ {0} /\ p - 1 \in Nat
  BY ColumnsExist
<1> HIDE DEF c
<1>2. (p - 1) % c \in 0..(c - 1) /\ (p - 1) \div c \in Nat
  BY <1>1
<1>3. ASSUME NEW q \in 1..n, (p - 1) % c = (q - 1) % c, (p - 1) \div c = (q - 1) \div c
      PROVE  p = q
  <2>1. q - 1 \in Nat
    OBVIOUS
  <2>2. p - 1 = q - 1
    BY <1>1, <1>3, <2>1
  <2> QED
    BY <2>2
<1>4. p = 1 => (p - 1) % c = 0 /\ (p - 1) \div c = 0
  BY <1>1
<1> QED
  BY <1>2, <1>3, <1>4 DEF c

\* Plots further along a row or a column begin beyond the end of the others.
LEMMA FurtherOn ==
    ASSUME NEW w \in Nat \ {0}, NEW a \in Nat, NEW b \in Nat, a < b
    PROVE  /\ 6 * (w * a) + 6 * w <= 6 * (w * b)
           /\ w * a \in Nat /\ w * b \in Nat
<1>1. w * a + w <= w * b /\ w * a \in Nat /\ w * b \in Nat
  OBVIOUS
<1> QED
  BY <1>1

\* Nothing stands on two plates.
LEMMA OnePlateEach ==
    ASSUME NEW n \in Nat \ {0}, NEW area \in Area, NEW box \in Box,
           NEW p \in 1..n, NEW q \in 1..n,
           Within(box, Plot(p, n, area)), Within(box, Plot(q, n, area))
    PROVE  p = q
<1> DEFINE col(r) == (r - 1) % Columns(n)
           row(r) == (r - 1) \div Columns(n)
<1>1. /\ area.x \in Int /\ area.y \in Int /\ area.w \in Nat \ {0} /\ area.d \in Nat \ {0}
      /\ box.x \in Int /\ box.y \in Int /\ box.w \in Nat \ {0} /\ box.d \in Nat \ {0}
  BY DEF Area, Box
<1>2. \A r \in {p, q} :
        /\ 5 * area.x + 6 * (area.w * col(r)) <= box.x
        /\ box.x + box.w <= 5 * area.x + 6 * (area.w * col(r)) + 5 * area.w
        /\ 5 * area.y - 6 * (area.d * row(r)) <= box.y
        /\ box.y + box.d <= 5 * area.y - 6 * (area.d * row(r)) + 5 * area.d
  BY DEF Within, Plot
<1>3. \A r \in {p, q} : col(r) \in Nat /\ row(r) \in Nat
  BY PlatesInRows
<1>4. col(p) = col(q) /\ row(p) = row(q) => p = q
  BY PlatesInRows
<1> HIDE DEF col, row
<1>5. ASSUME NEW r \in {p, q}, NEW t \in {p, q}
      PROVE  ~ (col(r) < col(t)) /\ ~ (row(r) < row(t))
  <2>1. ASSUME col(r) < col(t) PROVE FALSE
    <3> DEFINE x == area.w * col(r)
               y == area.w * col(t)
    <3>1. 6 * x + 6 * area.w <= 6 * y /\ x \in Nat /\ y \in Nat
      BY <1>1, <1>3, <2>1, FurtherOn
    <3>2. 5 * area.x + 6 * y <= box.x /\ box.x + box.w <= 5 * area.x + 6 * x + 5 * area.w
      BY <1>2
    <3> HIDE DEF x, y
    <3> QED
      BY <1>1, <3>1, <3>2
  <2>2. ASSUME row(r) < row(t) PROVE FALSE
    <3> DEFINE x == area.d * row(r)
               y == area.d * row(t)
    <3>1. 6 * x + 6 * area.d <= 6 * y /\ x \in Nat /\ y \in Nat
      BY <1>1, <1>3, <2>2, FurtherOn
    <3> DEFINE edge == 5 * area.y
    <3>2. edge - 6 * x <= box.y /\ box.y + box.d <= edge - 6 * y + 5 * area.d
      BY <1>2
    <3>3. edge \in Int
      BY <1>1
    <3> HIDE DEF x, y, edge
    <3> QED
      BY <1>1, <3>1, <3>2, <3>3
  <2> QED
    BY <2>1, <2>2
<1>6. col(p) = col(q) /\ row(p) = row(q)
  BY <1>3, <1>5
<1> QED
  BY <1>4, <1>6

\* On a larger bed that does not reach the next plate, what stands on plate 1 still
\* does, and nothing of another plate joins it.
LEMMA LargerFirst ==
    ASSUME NEW n \in Nat \ {0}, NEW area \in Area, NEW bed \in Area, NEW box \in Box,
           bed.x = area.x, bed.y = area.y, bed.w >= area.w, 5 * bed.w <= 6 * area.w,
           bed.d >= area.d, NEW q \in 1..n, Within(box, Plot(q, n, area))
    PROVE  Within(box, Plot(1, n, bed)) <=> q = 1
<1> DEFINE col(r) == (r - 1) % Columns(n)
           row(r) == (r - 1) \div Columns(n)
<1>1. /\ area.x \in Int /\ area.y \in Int /\ area.w \in Nat \ {0} /\ area.d \in Nat \ {0}
      /\ bed.w \in Nat \ {0} /\ bed.d \in Nat \ {0}
      /\ box.x \in Int /\ box.y \in Int /\ box.w \in Nat \ {0} /\ box.d \in Nat \ {0}
  BY DEF Area, Box
<1>2. /\ 5 * area.x + 6 * (area.w * col(q)) <= box.x
      /\ box.x + box.w <= 5 * area.x + 6 * (area.w * col(q)) + 5 * area.w
      /\ 5 * area.y - 6 * (area.d * row(q)) <= box.y
      /\ box.y + box.d <= 5 * area.y - 6 * (area.d * row(q)) + 5 * area.d
  BY DEF Within, Plot
<1>3. 1 \in 1..n /\ col(1) = 0 /\ row(1) = 0
  <2>1. 1 \in 1..n
    OBVIOUS
  <2> QED
    BY <2>1, PlatesInRows
<1>4. Within(box, Plot(1, n, bed)) <=>
        /\ 5 * area.x + 6 * (bed.w * col(1)) <= box.x
        /\ box.x + box.w <= 5 * area.x + 6 * (bed.w * col(1)) + 5 * bed.w
        /\ 5 * area.y - 6 * (bed.d * row(1)) <= box.y
        /\ box.y + box.d <= 5 * area.y - 6 * (bed.d * row(1)) + 5 * bed.d
  BY DEF Within, Plot
<1>5. col(q) \in Nat /\ row(q) \in Nat /\ (col(q) = 0 /\ row(q) = 0 => q = 1)
  BY <1>3, PlatesInRows
<1>6. q = 1 => col(q) = 0 /\ row(q) = 0
  BY <1>3
<1> HIDE DEF col, row
<1>7. /\ bed.w * 0 = 0 /\ bed.d * 0 = 0 /\ area.w * 0 = 0 /\ area.d * 0 = 0
  BY <1>1
<1>8. Within(box, Plot(1, n, bed)) <=>
        /\ 5 * area.x <= box.x /\ box.x + box.w <= 5 * area.x + 5 * bed.w
        /\ 5 * area.y <= box.y /\ box.y + box.d <= 5 * area.y + 5 * bed.d
  BY <1>1, <1>3, <1>4, <1>7
<1>9. CASE col(q) = 0 /\ row(q) = 0
  <2>1. /\ 5 * area.x <= box.x /\ box.x + box.w <= 5 * area.x + 5 * area.w
        /\ 5 * area.y <= box.y /\ box.y + box.d <= 5 * area.y + 5 * area.d
    BY <1>1, <1>2, <1>7, <1>9
  <2> QED
    BY <1>1, <1>5, <1>8, <1>9, <2>1
<1>10. CASE col(q) # 0
  <2> DEFINE x == area.w * col(q)
  <2>1. 0 \in Nat /\ 0 < col(q)
    BY <1>5, <1>10
  <2>2. 6 * (area.w * 0) + 6 * area.w <= 6 * x /\ x \in Nat
    BY <1>1, <1>5, <2>1, FurtherOn
  <2>3. 5 * area.x + 6 * x <= box.x
    BY <1>2
  <2> HIDE DEF x
  <2>4. ~ (box.x + box.w <= 5 * area.x + 5 * bed.w)
    BY <1>1, <1>7, <2>2, <2>3
  <2> QED
    BY <1>6, <1>8, <1>10, <2>4
<1>11. CASE row(q) # 0
  <2> DEFINE y == area.d * row(q)
  <2>1. 0 \in Nat /\ 0 < row(q)
    BY <1>5, <1>11
  <2>2. 6 * (area.d * 0) + 6 * area.d <= 6 * y /\ y \in Nat
    BY <1>1, <1>5, <2>1, FurtherOn
  <2>3. box.y + box.d <= 5 * area.y - 6 * y + 5 * area.d
    BY <1>2
  <2> HIDE DEF y
  <2>4. ~ (5 * area.y <= box.y)
    BY <1>1, <1>7, <2>2, <2>3
  <2> QED
    BY <1>6, <1>8, <1>11, <2>4
<1> QED
  BY <1>9, <1>10, <1>11

\* The plates an inspection shows are those the archive lists, or one.
LEMMA PlatesShown ==
    ASSUME NEW a, Len(a.platers) \in Nat
    PROVE  PlateIds(a) = IF Len(a.platers) >= 1 THEN 1..Len(a.platers) ELSE {1}
<1> DEFINE m == Len(a.platers)
<1> HIDE DEF m
<1>1. m \in Nat
  BY DEF m
<1>2. CASE m >= 1
  <2>1. {1, m} \in SUBSET Nat /\ m \in {1, m} /\ \A x \in {1, m} : x <= m
    BY <1>1, <1>2
  <2>2. Max({1, m}) = m
    BY <2>1, MaxIs
  <2> QED
    BY <1>2, <2>2 DEF PlateIds, m
<1>3. CASE ~ (m >= 1)
  <2>1. {1, m} \in SUBSET Nat /\ 1 \in {1, m} /\ \A x \in {1, m} : x <= 1
    BY <1>1, <1>3
  <2>2. Max({1, m}) = 1
    BY <2>1, MaxIs
  <2> QED
    BY <1>3, <2>2 DEF PlateIds, m
<1> QED
  BY <1>2, <1>3

\* The plate sliced counts from 1.
LEMMA PlateCounts ==
    ASSUME asked.plate \in Int
    PROVE  PlateAsked \in Nat \ {0}
<1>1. CASE asked.plate >= 1
  <2>1. /\ {1, asked.plate} \in SUBSET Nat /\ asked.plate \in {1, asked.plate}
        /\ \A x \in {1, asked.plate} : x <= asked.plate
    BY <1>1
  <2>2. Max({1, asked.plate}) = asked.plate
    BY <2>1, MaxIs
  <2> QED
    BY <1>1, <2>2 DEF PlateAsked
<1>2. CASE ~ (asked.plate >= 1)
  <2>1. \A x \in {1, asked.plate} : (\A y \in {1, asked.plate} : x >= y) => x = 1
    BY <1>2
  <2>2. 1 \in {1, asked.plate} /\ \A y \in {1, asked.plate} : 1 >= y
    BY <1>2
  <2>3. Max({1, asked.plate}) = 1
    BY <2>1, <2>2 DEF Max
  <2> QED
    BY <2>3 DEF PlateAsked
<1> QED
  BY <1>1, <1>2

\* An instance stands in a box and is listed with one of the archive's plates,
\* or with none.
LEMMA InstanceTyped ==
    ASSUME IsArchive(archive), NEW i \in Instances(archive)
    PROVE  /\ Instance(archive, i).box \in Box
           /\ Instance(archive, i).plate \in PlateIds(archive) \cup {OffPlate}
<1> DEFINE stands == [plate : PlateIds(archive) \cup {OffPlate}, printable : BOOLEAN, box : Box]
<1>1. \A x \in stands : x.box \in Box /\ x.plate \in PlateIds(archive) \cup {OffPlate}
  OBVIOUS
<1>2. archive.objects \in [DOMAIN archive.objects -> Seq(stands)]
  BY DEF IsArchive
<1> HIDE DEF stands
<1>3. PICK o \in DOMAIN archive.objects : i \in {o} \X DOMAIN archive.objects[o]
  BY DEF Instances
<1>4. i[1] = o /\ i[2] \in DOMAIN archive.objects[o] /\ archive.objects[o] \in Seq(stands)
  BY <1>2, <1>3
<1>5. archive.objects[o][i[2]] \in stands
  BY <1>4
<1> QED
  BY <1>1, <1>4, <1>5 DEF Instance

\* What the plate asked for lists is what stands on it.
LEMMA PlateListed ==
    ASSUME IInv
    PROVE  PlateIsPrinted
<1>1. ASSUME stage \in Isolated, Len(archive.platers) > 1, LaidOut
      PROVE  /\ Bed = archive.area => DOMAIN instances = ListedToPrint
             /\ (BedIsLarger /\ PlateAsked = 1) =>
                  {i \in DOMAIN instances : Instance(archive, i).plate # OffPlate} = ListedToPrint
  <2> DEFINE n == Len(archive.platers)
             p == PlateAsked
             plate(i) == Instance(archive, i).plate
             box(i) == Instance(archive, i).box
  <2>1. /\ IsArchive(archive) /\ asked.plate \in Int
        /\ p <= n /\ DOMAIN instances = OnPlate
    BY <1>1 DEF IInv, PlateInv, RequestTyped
  <2>2. n \in Nat \ {0} /\ archive.area \in Area
    BY <1>1, <2>1 DEF IsArchive
  <2>3. p \in 1..n
    BY <2>1, <2>2, PlateCounts
  <2>4. PlateIds(archive) = 1..n
    BY <1>1, <2>2, PlatesShown
  <2>5. ASSUME NEW i \in Instances(archive)
        PROVE  /\ box(i) \in Box /\ plate(i) \in 1..n \cup {OffPlate}
               /\ \A r \in 1..n :
                    /\ plate(i) = r => Within(box(i), Plot(r, n, archive.area))
                    /\ plate(i) = OffPlate => ~ Within(box(i), Plot(r, n, archive.area))
    <3>1. box(i) \in Box /\ plate(i) \in 1..n \cup {OffPlate}
      BY <2>1, <2>4, InstanceTyped
    <3> QED
      BY <1>1, <3>1 DEF LaidOut, StandsOn
  <2>6. OnPlate = {i \in Instances(archive) :
                        Instance(archive, i).printable /\ Within(box(i), Plot(p, n, Bed))}
    BY DEF OnPlate, StandsOn
  <2>7. ListedToPrint = {i \in Instances(archive) : Instance(archive, i).printable /\ plate(i) = p}
    BY DEF ListedToPrint, Printable, Listed
  <2>8. OffPlate \notin 1..n
    BY DEF OffPlate
  <2> HIDE DEF n, p, plate, box
  <2>9. ASSUME Bed = archive.area, NEW i \in Instances(archive)
        PROVE  Within(box(i), Plot(p, n, Bed)) <=> plate(i) = p
    BY <2>2, <2>3, <2>5, <2>9, OnePlateEach
  <2>10. ASSUME BedIsLarger, p = 1, NEW i \in Instances(archive)
         PROVE  plate(i) # OffPlate => (Within(box(i), Plot(p, n, Bed)) <=> plate(i) = p)
    <3>1. Bed \in Area
      <4>1. Bed \in {asked.area, archive.area, GivenArea} /\ Bed # NoArea
        BY <2>10 DEF Bed, BedIsLarger
      <4> QED
        BY <1>1, <2>2, <4>1, GivenAreaIsArea DEF IInv, RequestTyped
    <3> QED
      BY <2>2, <2>3, <2>5, <2>10, <3>1, LargerFirst DEF BedIsLarger
  <2>11. Bed = archive.area => DOMAIN instances = ListedToPrint
    BY <2>1, <2>6, <2>7, <2>9
  <2>12. (BedIsLarger /\ p = 1) => {i \in DOMAIN instances : plate(i) # OffPlate} = ListedToPrint
    BY <2>1, <2>3, <2>6, <2>7, <2>8, <2>10
  <2> QED
    BY <2>11, <2>12 DEF p, plate
<1> QED
  BY <1>1 DEF PlateIsPrinted, Isolated

\* Of an archive of several plates what the plate asked for lists is printed and
\* nothing else, on a bed like the author's; on a larger one, of plate 1, nothing
\* else that a plate lists.
THEOREM OnlyThePlateIsPrinted == Spec => []PlateIsPrinted
<1>1. IInv => PlateIsPrinted
  BY PlateListed
<1> QED
  BY <1>1, Settled, PTL

-----------------------------------------------------------------------------
(* The slots of the request and of the slice *)

\* The filaments sent, paired with the slots the inspection lists.
Paired == Padded(AuthoredSlots(archive), asked.ids)

\* Once the slots are padded they stay as they are, and so does what
\* Print::apply was given when it failed.
PadInv ==
    /\ asked.ids \in Seq(System)
    /\ stage = "uploaded" => ids = <<>>
    /\ stage \notin {"uploaded", "failed"} => ids = Paired
    /\ ids = <<>> \/ ids = Paired
    /\ error = "apply_failed" =>
         stage = "failed" /\ ids = Paired /\ ~ UsedNow \subseteq DOMAIN ids

\* Of an archive with a single plate nothing is left out, and only copies can be
\* of what is not to be printed.
WholeInv ==
    Len(archive.platers) <= 1 =>
        /\ DOMAIN instances = Instances(archive)
        /\ \A i \in Instances(archive) :
             /\ instances[i] \in Nat
             /\ Instance(archive, i).printable => instances[i] > 0
             /\ ~ Instance(archive, i).printable /\ asked.copies = 1 => instances[i] = 0

\* What was written.
OutputInv ==
    stage = "exported" =>
        /\ UsedNow \subseteq DOMAIN ids /\ UsedNow # {}
        /\ output = [authored |-> ids, platers |-> <<PlateAsked>>,
                     slices |-> <<[index |-> PlateAsked, slots |-> SlotsInOrder]>>,
                     gcode |-> TRUE, objects |-> <<>>]
        /\ infos = [i \in DOMAIN SlotsInOrder |->
                        [slot |-> SlotsInOrder[i], preset |-> presets[i]]]

JobInv == IInv /\ PadInv /\ WholeInv /\ OutputInv

\* The steps that touch neither archive nor slots, model and output.
Passes ==
    /\ UNCHANGED <<archive, asked, ids, instances, output, infos>>
    /\ stage \notin {"failed", "exported"}
    /\ stage' \notin {"uploaded", "exported"}
    /\ stage = "uploaded" => stage' = "failed"
    /\ error' # "apply_failed" \/ error' = error

\* The steps that archive, slots, model and output have a part in, and the others.
LEMMA JobSteps ==
    ASSUME [Next]_vars
    PROVE  \/ Prepare /\ UNCHANGED jobVars
           \/ PadSlots /\ UNCHANGED jobVars
           \/ ApplyFails \/ IsolatePlate \/ PlaceCopies \/ Export
           \/ Passes
           \/ UNCHANGED vars
<1> USE DEF Passes, At, Refuse, jobVars, settingVars
<1>1. ASSUME SettingsNext, UNCHANGED jobVars, ~ Prepare, ~ PadSlots
      PROVE  Passes
  <2>1. CASE RejectMap \/ RejectForeign \/ Materialize \/ RejectArchive \/ EngineFails
    BY <1>1, <2>1 DEF RejectMap, RejectForeign, Materialize, RejectArchive, EngineFails
  <2>2. CASE MatchSlots \/ OverlayPresets
    BY <1>1, <2>2 DEF MatchSlots, OverlayPresets
  <2>3. CASE Compose \/ OverlaySlots
    BY <1>1, <2>3 DEF Compose, OverlaySlots
  <2>4. CASE OverrideByClient \/ WireRequest
    BY <1>1, <2>4 DEF OverrideByClient, WireRequest
  <2> QED
    BY <1>1, <2>1, <2>2, <2>3, <2>4 DEF SettingsNext
<1>2. CASE RejectPlate
  BY <1>2 DEF RejectPlate
<1>3. CASE CopiesDoNotFit
  BY <1>3 DEF CopiesDoNotFit
<1>4. CASE SliceFails
  BY <1>4 DEF SliceFails
<1> QED
  BY <1>1, <1>2, <1>3, <1>4 DEF Next, Configure

\* What is listed and paired is read from the archive and the request.
LEMMA SamePairs ==
    ASSUME archive' = archive, asked' = asked
    PROVE  Paired' = Paired
  BY DEF Paired, AuthoredSlots, IsSliced

\* What is used is read from the model and the configuration.
LEMMA SameUse ==
    ASSUME instances' = instances, cfg' = cfg
    PROVE  UsedNow' = UsedNow
  BY DEF UsedNow, Printed, SlotsOf, ObjectSlots, Counting

\* The padded slots stay as they are.
LEMMA PadStep ==
    ASSUME PadInv, [Next]_vars
    PROVE  PadInv'
<1>1. CASE Prepare /\ UNCHANGED jobVars
  BY <1>1 DEF Prepare, PadInv, At, settingVars
<1>2. CASE PadSlots /\ UNCHANGED jobVars
  <2>1. ids' = Paired /\ Paired' = Paired
    BY <1>2, SamePairs DEF PadSlots, Paired
  <2> QED
    BY <1>2, <2>1 DEF PadSlots, PadInv, At
<1>3. CASE ApplyFails
  <2>1. UNCHANGED <<archive, asked, ids, instances>> /\ Paired' = Paired /\ UsedNow' = UsedNow
    BY <1>3, SamePairs, SameUse DEF ApplyFails, settingVars, jobVars
  <2>2. stage = "placed" /\ stage' = "failed" /\ ~ UsedNow \subseteq DOMAIN ids
    BY <1>3 DEF ApplyFails, Refuse, At
  <2> QED
    BY <2>1, <2>2 DEF PadInv
<1>4. CASE IsolatePlate \/ PlaceCopies \/ Export
  <2>1. /\ UNCHANGED <<archive, asked, ids, error>> /\ Paired' = Paired
        /\ stage \notin {"uploaded", "failed"} /\ stage' \notin {"uploaded", "failed"}
    BY <1>4, SamePairs DEF IsolatePlate, PlaceCopies, Export, settingVars, At
  <2> QED
    BY <2>1 DEF PadInv
<1>5. CASE Passes
  <2>1. Paired' = Paired
    BY <1>5, SamePairs DEF Passes
  <2> QED
    BY <1>5, <2>1 DEF PadInv, Passes
<1>6. CASE UNCHANGED vars
  <2>1. UNCHANGED <<archive, asked, ids, instances, stage, error>>
        /\ Paired' = Paired /\ UsedNow' = UsedNow
    BY <1>6, SamePairs, SameUse DEF vars, settingsVars, settingVars
  <2> QED
    BY <2>1 DEF PadInv
<1> QED
  BY <1>1, <1>2, <1>3, <1>4, <1>5, <1>6, JobSteps

\* Instances are left out only of an archive with several plates.
LEMMA WholeStep ==
    ASSUME IsArchive(archive), RequestTyped, WholeInv, [Next]_vars
    PROVE  WholeInv'
<1>1. ASSUME archive'.objects = archive.objects, archive'.platers = archive.platers,
             instances' = instances, asked' = asked
      PROVE  WholeInv'
  BY <1>1 DEF WholeInv, Instances, Instance
<1>2. CASE Prepare /\ UNCHANGED jobVars
  <2>1. PICK b \in Bake : archive' = Prepared(archive, b.overrides, BedKeys(b.bed))
    BY <1>2 DEF Prepare
  <2> DEFINE bed == BedKeys(b.bed)
  <2>2. b.overrides \in SUBSET Key /\ bed \in SUBSET Key
    BY JobsAsUploaded, KeysApart DEF BedKeys, Key, ConfigKey
  <2>3. archive' = Prepared(archive, b.overrides, bed)
    BY <2>1
  <2> HIDE DEF bed
  <2>4. BakedInto(archive, b.overrides, bed, archive')
    BY <2>2, <2>3, PreparedArchive, Zenon
  <2>5. archive'.objects = archive.objects /\ archive'.platers = archive.platers
    BY <2>4 DEF BakedInto
  <2>6. instances' = instances /\ asked' = asked
    BY <1>2 DEF Prepare, jobVars
  <2> QED
    BY <1>1, <2>5, <2>6
<1>3. CASE PadSlots /\ UNCHANGED jobVars
  BY <1>1, <1>3 DEF PadSlots, jobVars
<1>4. CASE IsolatePlate
  <2>1. archive' = archive /\ asked' = asked
        /\ (Len(archive.platers) <= 1 => instances' = instances)
    BY <1>4 DEF IsolatePlate, IsArchive
  <2> QED
    BY <2>1 DEF WholeInv, Instances, Instance
<1>5. CASE PlaceCopies
  <2>1. /\ archive' = archive /\ asked' = asked
        /\ instances' = [i \in DOMAIN instances |->
                            IF IsLast(i) THEN instances[i] + (asked.copies - 1) ELSE instances[i]]
    BY <1>5 DEF PlaceCopies
  <2>2. Instances(archive)' = Instances(archive)
        /\ \A i : Instance(archive, i)' = Instance(archive, i)
    BY <2>1 DEF Instances, Instance
  <2>3. asked.copies - 1 \in Nat /\ (asked.copies = 1 => asked.copies - 1 = 0)
    BY DEF RequestTyped
  <2>4. ASSUME Len(archive.platers) <= 1, NEW i \in Instances(archive)
        PROVE  /\ DOMAIN instances' = Instances(archive)
               /\ instances'[i] \in Nat
               /\ Instance(archive, i).printable => instances'[i] > 0
               /\ ~ Instance(archive, i).printable /\ asked.copies = 1 => instances'[i] = 0
    <3>1. /\ DOMAIN instances = Instances(archive) /\ instances[i] \in Nat
          /\ Instance(archive, i).printable => instances[i] > 0
          /\ ~ Instance(archive, i).printable /\ asked.copies = 1 => instances[i] = 0
      BY <2>4 DEF WholeInv
    <3>2. instances'[i] \in {instances[i], instances[i] + (asked.copies - 1)}
      BY <2>1, <3>1
    <3> QED
      BY <2>1, <2>3, <3>1, <3>2
  <2>5. Len(archive.platers) <= 1 => DOMAIN instances' = Instances(archive)
    BY <2>1 DEF WholeInv
  <2> QED
    BY <2>1, <2>2, <2>4, <2>5 DEF WholeInv
<1>6. CASE ApplyFails \/ Export
  BY <1>1, <1>6 DEF ApplyFails, Export, jobVars
<1>7. CASE Passes \/ UNCHANGED vars
  BY <1>1, <1>7 DEF Passes, vars, settingsVars
<1> QED
  BY <1>2, <1>3, <1>4, <1>5, <1>6, <1>7, JobSteps

\* What was written is not touched any more.
LEMMA OutputStep ==
    ASSUME OutputInv, [Next]_vars
    PROVE  OutputInv'
<1>1. CASE Export
  <2>1. /\ UNCHANGED <<asked, ids, presets, cfg, instances>>
        /\ UsedNow \subseteq DOMAIN ids /\ UsedNow # {}
    BY <1>1 DEF Export, settingVars
  <2>2. UsedNow' = UsedNow /\ PlateAsked' = PlateAsked
    BY <2>1, SameUse DEF PlateAsked
  <2>3. SlotsInOrder' = SlotsInOrder
    BY <2>2 DEF SlotsInOrder
  <2> QED
    BY <1>1, <2>1, <2>2, <2>3 DEF Export, OutputInv
<1>2. CASE UNCHANGED vars
  <2>1. UNCHANGED <<stage, asked, ids, presets, cfg, instances, output, infos>>
    BY <1>2 DEF vars, settingsVars, settingVars
  <2>2. UsedNow' = UsedNow /\ PlateAsked' = PlateAsked
    BY <2>1, SameUse DEF PlateAsked
  <2>3. SlotsInOrder' = SlotsInOrder
    BY <2>2 DEF SlotsInOrder
  <2> QED
    BY <2>1, <2>2, <2>3 DEF OutputInv
<1>3. CASE stage' # "exported"
  BY <1>3 DEF OutputInv
<1>4. Export \/ UNCHANGED vars \/ stage' # "exported"
  BY JobSteps DEF Prepare, PadSlots, ApplyFails, IsolatePlate, PlaceCopies, Passes, At, Refuse
<1> QED
  BY <1>1, <1>2, <1>3, <1>4

\* JobInv holds throughout.
THEOREM JobHolds == Spec => []JobInv
<1>1. Init => JobInv
  <2> SUFFICES ASSUME Init PROVE JobInv
    OBVIOUS
  <2>1. PadInv
    BY JobsAsUploaded DEF Init, SettingsInit, PadInv
  <2>2. WholeInv
    BY DEF Init, WholeInv
  <2>3. OutputInv
    BY DEF Init, SettingsInit, OutputInv
  <2> QED
    BY <2>1, <2>2, <2>3, InitIInv DEF JobInv
<1>2. JobInv /\ [Next]_vars => JobInv'
  <2> SUFFICES ASSUME JobInv, [Next]_vars PROVE JobInv'
    OBVIOUS
  <2>1. IInv'
    BY SettledStep DEF JobInv
  <2>2. PadInv' /\ WholeInv' /\ OutputInv'
    BY PadStep, WholeStep, OutputStep DEF JobInv, IInv
  <2> QED
    BY <2>1, <2>2 DEF JobInv
<1> QED
  BY <1>1, <1>2, PTL DEF Spec

-----------------------------------------------------------------------------

\* For a sliced archive that lists its slots in order, every slot gets the
\* filament asked for it, and no slot up to the last stays without one.
THEOREM SlotsArePaired == Spec => []PaddingPairs
<1>1. ASSUME JobInv, ids # <<>>, Ascending(AuthoredSlots(archive)),
             Len(AuthoredSlots(archive)) = Len(asked.ids)
      PROVE  /\ \A i \in DOMAIN AuthoredSlots(archive) :
                    ids[AuthoredSlots(archive)[i]] = asked.ids[i]
             /\ DOMAIN ids = 1..Last(AuthoredSlots(archive))
  <2> DEFINE slots == AuthoredSlots(archive)
  <2>1. slots \in Seq(Nat \ {0}) /\ asked.ids \in Seq(System) /\ ids = Padded(slots, asked.ids)
    BY <1>1, SlotsOfArchive DEF JobInv, IInv, PadInv, Paired
  <2>2. slots # <<>>
    BY <1>1, <2>1 DEF Padded
  <2>3. DOMAIN asked.ids = 1..Len(slots) /\ Len(asked.ids) = Len(slots) /\ Ascending(slots)
    BY <1>1, <2>1
  <2> HIDE DEF slots
  <2>4. /\ \A i \in DOMAIN slots : Padded(slots, asked.ids)[slots[i]] = asked.ids[i]
        /\ DOMAIN Padded(slots, asked.ids) = 1..Last(slots)
    BY <2>1, <2>2, <2>3, PaddedPairs
  <2> QED
    BY <2>1, <2>4 DEF slots
<1>2. JobInv => PaddingPairs
  BY <1>1 DEF PaddingPairs
<1> QED
  BY <1>2, JobHolds, PTL

\* Print::apply fails for want of a filament only when the client sent fewer
\* than the inspection lists, or the plate uses a slot that it does not list.
THEOREM ListedIsEnough == Spec => []ListedSlotsSuffice
<1>1. ASSUME JobInv, error = "apply_failed", Len(asked.ids) = Len(AuthoredSlots(archive)),
             UsedNow \subseteq ToSet(AuthoredSlots(archive))
      PROVE  FALSE
  <2> DEFINE slots == AuthoredSlots(archive)
  <2>1. /\ slots \in Seq(Nat \ {0}) /\ asked.ids \in Seq(System) /\ ids = Padded(slots, asked.ids)
        /\ ~ UsedNow \subseteq DOMAIN ids
    BY <1>1, SlotsOfArchive DEF JobInv, IInv, PadInv, Paired
  <2>2. Len(slots) = Len(asked.ids)
    BY <1>1
  <2>3. UsedNow \subseteq ToSet(slots)
    BY <1>1
  <2> HIDE DEF slots
  <2>4. ToSet(slots) \subseteq DOMAIN Padded(slots, asked.ids)
    BY <2>1, <2>2, PaddedCovers
  <2> QED
    BY <2>1, <2>3, <2>4
<1>2. JobInv => ListedSlotsSuffice
  BY <1>1 DEF ListedSlotsSuffice
<1> QED
  BY <1>2, JobHolds, PTL

\* The padded slots are numbered from 1.
LEMMA PaddedDomain ==
    ASSUME NEW slots \in Seq(Nat \ {0}), NEW sent \in Seq(System)
    PROVE  \E k \in Nat : DOMAIN Padded(slots, sent) = 1..k
<1>1. CASE Padded(slots, sent) = sent
  BY <1>1
<1>2. CASE Padded(slots, sent) # sent
  <2>1. slots # <<>> /\ DOMAIN Padded(slots, sent) = 1..Max(ToSet(slots))
    BY <1>2 DEF Padded, Placed
  <2>2. ToSet(slots) \in SUBSET Nat /\ ToSet(slots) # {} /\ IsFiniteSet(ToSet(slots))
    <3>1. Len(slots) \in Nat /\ DOMAIN slots = 1..Len(slots) /\ 1 \in DOMAIN slots
      BY <2>1
    <3>2. IsFiniteSet(ToSet(slots))
      BY <3>1, ListIsFinite
    <3>3. ToSet(slots) \in SUBSET Nat /\ slots[1] \in ToSet(slots)
      BY <3>1 DEF ToSet
    <3> QED
      BY <3>2, <3>3
  <2>3. Max(ToSet(slots)) \in Nat
    BY <2>2, MaxOfSet
  <2> QED
    BY <2>1, <2>3
<1> QED
  BY <1>1, <1>2

\* The slots a slice lists are the slots it uses, in order.
LEMMA ListOfUsed ==
    ASSUME JobInv, At("exported")
    PROVE  /\ Cardinality(UsedNow) \in Nat \ {0}
           /\ SlotsInOrder \in [1..Cardinality(UsedNow) -> UsedNow]
           /\ Ascending(SlotsInOrder)
           /\ ToSet(SlotsInOrder) = UsedNow
           /\ UsedNow \subseteq Nat \ {0}
<1>1. PICK k \in Nat : DOMAIN ids = 1..k
  <2>1. ids = Paired /\ AuthoredSlots(archive) \in Seq(Nat \ {0}) /\ asked.ids \in Seq(System)
    BY SlotsOfArchive DEF JobInv, IInv, PadInv, At
  <2> QED
    BY <2>1, PaddedDomain DEF Paired
<1>2. UsedNow \subseteq 1..k /\ UsedNow # {}
  BY <1>1 DEF JobInv, OutputInv, At
<1>3. IsFiniteSet(UsedNow) /\ UsedNow \in SUBSET Nat
  <2>1. IsFiniteSet(1..k)
    BY FS_Interval
  <2>2. UsedNow \in SUBSET (1..k)
    BY <1>2
  <2>3. IsFiniteSet(UsedNow)
    BY <2>1, <2>2, FS_Subset
  <2>4. \A s \in UsedNow : s \in Nat
    BY <2>2
  <2> QED
    BY <2>3, <2>4
<1>4. Cardinality(UsedNow) # 0
  BY <1>2, <1>3, FS_EmptySet
<1>5. /\ Cardinality(UsedNow) \in Nat
      /\ InOrder(UsedNow) \in [1..Cardinality(UsedNow) -> UsedNow]
      /\ Ascending(InOrder(UsedNow))
      /\ ToSet(InOrder(UsedNow)) = UsedNow
  BY <1>3, InOrderLists
<1> QED
  BY <1>2, <1>4, <1>5 DEF SlotsInOrder

\* Where the archive's plates are the slice's, what is printed is what use-set
\* goes by.
LEMMA PrintedInstances ==
    ASSUME JobInv, At("exported"), PlateAsked \in PlateIds(archive), PlatesAgree, CopiesAgree
    PROVE  /\ PlateAsked \in DOMAIN UseSet(archive)
           /\ UseSet(archive)[PlateAsked] = SlotsOf(Printed, FileValue(archive))
<1> DEFINE m == Len(archive.platers)
           p == PlateAsked
           standing == IF Plated(archive) # {} THEN [q \in Plated(archive) |-> Listed(archive, q)]
                       ELSE [q \in {1} |-> Instances(archive)]
<1>1. m \in Nat /\ IsArchive(archive)
  <2>1. IsArchive(archive)
    BY DEF JobInv, IInv
  <2>2. m \in Nat
    BY <2>1 DEF IsArchive
  <2> QED
    BY <2>1, <2>2
<1>2. PlateIds(archive) = IF m >= 1 THEN 1..m ELSE {1}
  BY <1>1, PlatesShown
<1>3. Printed # {} /\ Printed \subseteq DOMAIN instances
  <2>1. UsedNow # {}
    BY DEF JobInv, OutputInv, At
  <2> QED
    BY <2>1 DEF UsedNow, SlotsOf, Printed
<1>4. CASE m > 1
  <2>1. DOMAIN instances = OnPlate /\ \A i \in OnPlate : instances[i] \in Nat \ {0}
    BY <1>4 DEF JobInv, IInv, PlateInv, Isolated, At
  <2>2. DOMAIN instances = ListedToPrint
    BY <1>4, PlateListed DEF JobInv, PlatesAgree, PlateIsPrinted, At
  <2>3. Printed = Printable(archive, Listed(archive, p))
    BY <2>1, <2>2 DEF Printed, ListedToPrint
  <2>4. p \in 1..m /\ Listed(archive, p) # {}
    BY <1>2, <1>3, <1>4, <2>3 DEF Printable
  <2>5. p \in Plated(archive)
    BY <2>4 DEF Plated
  <2>6. p \in DOMAIN standing /\ standing[p] = Listed(archive, p)
    BY <2>5
  <2>7. Instances(archive) # {}
    BY <2>4 DEF Listed
  <2> HIDE DEF p, standing
  <2>8. UseSet(archive) = [q \in DOMAIN standing |->
                            SlotsOf(Printable(archive, standing[q]), FileValue(archive))]
    BY <2>7 DEF UseSet, standing
  <2> QED
    BY <2>3, <2>6, <2>8 DEF p
<1>5. CASE ~ (m > 1)
  <2>1. p = 1
    BY <1>1, <1>2, <1>5
  <2>2. /\ DOMAIN instances = Instances(archive)
        /\ \A i \in Instances(archive) :
             /\ instances[i] \in Nat
             /\ Instance(archive, i).printable => instances[i] > 0
             /\ ~ Instance(archive, i).printable /\ asked.copies = 1 => instances[i] = 0
    BY <1>1, <1>5 DEF JobInv, WholeInv
  <2>3. Printed = Printable(archive, Instances(archive))
    <3>1. CASE asked.copies = 1
      BY <2>2, <3>1 DEF Printed, Printable
    <3>2. CASE Printable(archive, Instances(archive)) = Instances(archive)
      BY <2>2, <3>2 DEF Printed, Printable
    <3> QED
      BY <3>1, <3>2 DEF CopiesAgree
  <2>4. Instances(archive) # {}
    BY <1>3, <2>2
  <2>5. p \in DOMAIN standing /\ standing[p] = Instances(archive)
    <3>1. CASE Plated(archive) = {}
      BY <2>1, <3>1
    <3>2. CASE Plated(archive) # {}
      <4>1. Listed(archive, 1) = Instances(archive)
        BY <1>5, <3>2 DEF PlatesAgree
      <4>2. 1 \in Plated(archive)
        <5>1. m = 1
          <6>1. Plated(archive) \subseteq 1..m
            BY DEF Plated
          <6>2. PICK q \in Plated(archive) : TRUE
            BY <3>2
          <6>3. q \in 1..m
            BY <6>1, <6>2
          <6> HIDE DEF m
          <6> QED
            BY <1>1, <1>5, <6>3
        <5> QED
          BY <2>4, <4>1, <5>1 DEF Plated
      <4> QED
        BY <2>1, <3>2, <4>1, <4>2
    <3> QED
      BY <3>1, <3>2
  <2> HIDE DEF p, standing
  <2>6. UseSet(archive) = [q \in DOMAIN standing |->
                            SlotsOf(Printable(archive, standing[q]), FileValue(archive))]
    BY <2>4 DEF UseSet, standing
  <2> QED
    BY <2>3, <2>5, <2>6 DEF p
<1> QED
  BY <1>4, <1>5

\* Under other global values an object names other slots only by a setting whose
\* value is another, or that counts under one of them only.
LEMMA OtherValues ==
    ASSUME NEW o, NEW f, NEW g, NEW s \in ObjectSlots(o, f), s \notin ObjectSlots(o, g)
    PROVE  \E k \in GlobalKey :
              /\ s \in Names[o][k][f[k]]
              /\ f[k] # g[k] \/ f[EnableKey] # g[EnableKey]
<1>1. PICK k \in Counting(o, f) : s \in Names[o][k][f[k]]
  BY DEF ObjectSlots
<1>2. k \in GlobalKey
  BY <1>1 DEF Counting
<1>3. CASE k \in Counting(o, g)
  <2>1. s \notin Names[o][k][g[k]]
    BY <1>3 DEF ObjectSlots
  <2> QED
    BY <1>1, <1>2, <2>1
<1>4. CASE k \notin Counting(o, g)
  <2>1. f[EnableKey] # g[EnableKey]
    BY <1>1, <1>4 DEF Counting
  <2> QED
    BY <1>1, <1>2, <2>1
<1> QED
  BY <1>3, <1>4

\* The slots use-set names for a plate nothing describes and those its slice
\* prints with differ by settings the slice takes from elsewhere than the file,
\* and by nothing else.
THEOREM InspectionIsTrue == Spec => []InspectedIsPrinted
<1>1. ASSUME JobInv, At("exported"), PlateAsked \in PlateIds(archive),
             SlicesOf(archive, PlateAsked) = {}, PlatesAgree, CopiesAgree
      PROVE  /\ PlateAsked \in DOMAIN UseSet(archive)
             /\ \A s \in (Backfilled(archive, PlateAsked) \ ToSet(output.slices[1].slots))
                            \cup (ToSet(output.slices[1].slots) \ Backfilled(archive, PlateAsked)) :
                    ByOtherSettings(s)
  <2> DEFINE file == FileValue(archive)
  <2>1. ToSet(output.slices[1].slots) = SlotsOf(Printed, cfg)
    <3>1. output.slices[1].slots = SlotsInOrder
      BY <1>1 DEF JobInv, OutputInv, At
    <3> QED
      BY <1>1, <3>1, ListOfUsed DEF UsedNow
  <2>2. PlateAsked \in DOMAIN UseSet(archive) /\ UseSet(archive)[PlateAsked] = SlotsOf(Printed, file)
    BY <1>1, PrintedInstances
  <2>3. Backfilled(archive, PlateAsked) = SlotsOf(Printed, file)
    BY <1>1, <2>2 DEF Backfilled, UsedSlots
  <2>4. Printed \subseteq Instances(archive)
    <3>1. Len(archive.platers) \in Nat
      BY <1>1 DEF JobInv, IInv, IsArchive
    <3>2. CASE Len(archive.platers) > 1
      BY <1>1, <3>2 DEF JobInv, IInv, PlateInv, Isolated, At, OnPlate, Printed
    <3>3. CASE ~ (Len(archive.platers) > 1)
      BY <1>1, <3>1, <3>3 DEF JobInv, WholeInv, Printed
    <3> QED
      BY <3>2, <3>3
  <2>5. ASSUME NEW i \in Instances(archive), NEW s,
               \/ s \in ObjectSlots(i[1], file) /\ s \notin ObjectSlots(i[1], cfg)
               \/ s \in ObjectSlots(i[1], cfg) /\ s \notin ObjectSlots(i[1], file)
        PROVE  ByOtherSettings(s)
    <3> HIDE DEF file
    <3>1. \E k \in GlobalKey :
              /\ s \in Names[i[1]][k][file[k]] \cup Names[i[1]][k][cfg[k]]
              /\ cfg[k] # file[k] \/ cfg[EnableKey] # file[EnableKey]
      BY <2>5, OtherValues
    <3> QED
      BY <3>1 DEF ByOtherSettings, file
  <2>6. ASSUME NEW s, \/ s \in SlotsOf(Printed, file) /\ s \notin SlotsOf(Printed, cfg)
                      \/ s \in SlotsOf(Printed, cfg) /\ s \notin SlotsOf(Printed, file)
        PROVE  ByOtherSettings(s)
    <3> HIDE DEF file
    <3> QED
      BY <2>4, <2>5, <2>6 DEF SlotsOf
  <2> QED
    BY <2>1, <2>2, <2>3, <2>6
<1>2. JobInv => InspectedIsPrinted
  BY <1>1 DEF InspectedIsPrinted
<1> QED
  BY <1>2, JobHolds, PTL

\* A slice is inspected as sliced and lists the slots it prints with; a filament
\* sent for each of them is the one it was sliced with.
THEOREM SliceShowsItsSlots == Spec => []OutputIsInspected
<1>1. ASSUME JobInv, At("exported")
      PROVE  /\ IsSliced(output)
             /\ AuthoredSlots(output) = SlotsInOrder
             /\ PlateAsked = 1 => InspectedPlate(output, 1) = [used |-> UsedNow, estimated |-> TRUE]
             /\ \A s \in UsedNow :
                    Padded(AuthoredSlots(output),
                           [i \in DOMAIN SlotsInOrder |-> ids[SlotsInOrder[i]]])[s]
                        = output.authored[s]
             /\ UsedNow = 1..Cardinality(UsedNow) =>
                    \A i \in DOMAIN infos : infos[i].preset = presets[infos[i].slot]
  <2> DEFINE slots == SlotsInOrder
             n == Cardinality(UsedNow)
             sent == [i \in DOMAIN slots |-> ids[slots[i]]]
  <2>1. /\ n \in Nat \ {0} /\ slots \in [1..n -> UsedNow] /\ Ascending(slots)
        /\ ToSet(slots) = UsedNow /\ UsedNow \subseteq Nat \ {0}
    BY <1>1, ListOfUsed
  <2>2. /\ output.authored = ids /\ output.gcode = TRUE
        /\ output.slices = <<[index |-> PlateAsked, slots |-> slots]>>
        /\ infos = [i \in DOMAIN slots |-> [slot |-> slots[i], preset |-> presets[i]]]
    BY <1>1 DEF JobInv, OutputInv, At
  <2> HIDE DEF slots, n
  <2>3. /\ slots \in Seq(Nat \ {0}) /\ slots # <<>> /\ Len(slots) = n /\ DOMAIN slots = 1..n
        /\ slots \in [1..n -> Nat \ {0}]
    <3>1. slots \in [1..n -> Nat \ {0}] /\ n \in Nat
      BY <2>1
    <3>2. slots \in Seq(Nat \ {0}) /\ Len(slots) = n /\ DOMAIN slots = 1..n
      BY <3>1
    <3>3. slots # <<>>
      BY <2>1, <3>2
    <3> QED
      BY <3>1, <3>2, <3>3
  <2>4. IsSliced(output)
    BY <2>2 DEF IsSliced
  <2>5. AuthoredSlots(output) = slots
    <3> DEFINE lists == [i \in DOMAIN output.slices |-> output.slices[i].slots]
    <3>1. lists = <<slots>>
      BY <2>2
    <3>2. FlattenSeq(lists) = slots
      <4> HIDE DEF lists
      <4> QED
        BY <3>1, FlattenOne
    <3> QED
      BY <2>3, <2>4, <3>2 DEF AuthoredSlots
  <2>6. ASSUME PlateAsked = 1
        PROVE  InspectedPlate(output, 1) = [used |-> UsedNow, estimated |-> TRUE]
    <3>1. SlicesOf(output, 1) = {1} /\ output.slices[1].slots = slots
      BY <2>2, <2>6 DEF SlicesOf
    <3>2. Min({1}) = 1
      BY DEF Min
    <3>3. UsedSlots(output, 1) = UsedNow
      BY <2>1, <3>1, <3>2 DEF UsedSlots
    <3> QED
      BY <2>4, <3>1, <3>3 DEF InspectedPlate
  <2>7. ASSUME NEW s \in UsedNow
        PROVE  Padded(slots, sent)[s] = ids[s]
    <3>1. PICK i \in DOMAIN slots : slots[i] = s
      BY <2>1 DEF ToSet
    <3>2. /\ DOMAIN sent = 1..Len(slots) /\ Len(sent) = Len(slots)
          /\ \A j \in DOMAIN slots : sent[j] = ids[slots[j]]
      BY <2>1, <2>3
    <3> HIDE DEF sent
    <3>3. \A j \in DOMAIN slots : Padded(slots, sent)[slots[j]] = sent[j]
      BY <2>1, <2>3, <3>2, PaddedPairs
    <3> QED
      BY <3>1, <3>2, <3>3
  <2>8. ASSUME UsedNow = 1..n, NEW i \in DOMAIN infos
        PROVE  infos[i].preset = presets[infos[i].slot]
    <3>1. \A j \in 1..n : slots[j] <= n
      BY <2>1, <2>8
    <3>2. \A j \in 1..n : slots[j] = j
      BY <2>1, <2>3, <3>1, AscendingDense
    <3>3. i \in 1..n /\ infos[i] = [slot |-> slots[i], preset |-> presets[i]]
      BY <2>2, <2>3, <2>8
    <3> QED
      BY <3>2, <3>3
  <2> QED
    BY <2>2, <2>4, <2>5, <2>6, <2>7, <2>8 DEF slots, n
<1>2. JobInv => OutputIsInspected
  BY <1>1 DEF OutputIsInspected
<1> QED
  BY <1>2, JobHolds, PTL

=============================================================================
