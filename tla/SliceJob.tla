------------------------------ MODULE SliceJob ------------------------------
(***************************************************************************)
(* A whole slice request: the configuration SliceSettings settles, then    *)
(* the plate, the copies, the engine and the archive it writes (steps 10b  *)
(* to 16 of run_slice_mode), and what the inspection says of both archives.*)
(***************************************************************************)
EXTENDS SliceSettings

CONSTANT GivenArea  \* the printable area of a client or of prepare, when they name one

ASSUME GivenAreaIsArea == GivenArea \in Area

VARIABLES
    instances,  \* the instances left in the model, and how often each is printed
    output,     \* the archive the engine wrote, or NoOutput
    infos       \* the filaments listed with its plate: slot and preset

vars == <<settingsVars, instances, output, infos>>
jobVars == <<instances, output, infos>>

NoOutput == <<>>

Init ==
    /\ SettingsInit
    /\ instances = [i \in Instances(archive) |-> IF Instance(archive, i).printable THEN 1 ELSE 0]
    /\ output = NoOutput
    /\ infos = <<>>

Configure == SettingsNext /\ UNCHANGED jobVars

PlateAsked == Max({1, asked.plate})

\* The printable area of the final configuration: the machine's, unless the
\* author changed it, or the client or prepare.
Bed == CASE cfg[AreaKey] = "preset" -> asked.area
         [] cfg[AreaKey] = "author" -> archive.area
         [] OTHER -> GivenArea

\* compute_colum_count: the square root of the number of plates, rounded up.
Columns(n) == CHOOSE c \in 1..n : c * c >= n /\ (c - 1) * (c - 1) < n

\* Where plate p of n stands when every plate is an area with a fifth of its
\* width and depth between them, in rows from the back to the front. In
\* fifths of the area's unit.
Plot(p, n, area) ==
    [x |-> 5 * area.x + 6 * (area.w * ((p - 1) % Columns(n))),
     y |-> 5 * area.y - 6 * (area.d * ((p - 1) \div Columns(n))),
     w |-> 5 * area.w, d |-> 5 * area.d]

Within(box, plot) ==
    /\ plot.x <= box.x /\ box.x + box.w <= plot.x + plot.w
    /\ plot.y <= box.y /\ box.y + box.d <= plot.y + plot.d

StandsOn(i, p, area) ==
    Within(Instance(archive, i).box, Plot(p, Len(archive.platers), area))

\* What is_printable leaves of a file of several plates: what is to be printed
\* and stands on the plate asked for, laid out with the slice's own bed.
OnPlate == {i \in Instances(archive) : Instance(archive, i).printable /\ StandsOn(i, PlateAsked, Bed)}

RejectPlate ==
    /\ At("settled")
    /\ Len(archive.platers) > 1
    /\ \/ PlateAsked > Len(archive.platers) /\ Refuse("invalid_plate_id")
       \/ PlateAsked <= Len(archive.platers) /\ Bed = NoArea /\ Refuse("invalid_machine")
       \/ /\ PlateAsked <= Len(archive.platers) /\ Bed # NoArea
          /\ OnPlate = {}
          /\ Refuse("empty_plate")
    /\ UNCHANGED <<archive, baked, asked, settingVars, jobVars>>

\* MUTANT of IsolatePlate: forgets where the plate stands
IsolateFirst ==
    /\ At("settled")
    /\ IF Len(archive.platers) > 1
       THEN /\ PlateAsked <= Len(archive.platers) /\ Bed # NoArea
            /\ OnPlate # {}
            /\ instances' = [i \in {j \in Instances(archive) :
                                Instance(archive, j).printable /\ StandsOn(j, 1, Bed)} |-> 1]
       ELSE instances' = instances
    /\ stage' = "isolated"
    /\ UNCHANGED <<archive, baked, asked, error, settingVars, output, infos>>

\* Of several plates only the instances on the one asked for are kept; a single
\* plate is taken as it is.
IsolatePlate ==
    /\ At("settled")
    /\ IF Len(archive.platers) > 1
       THEN /\ PlateAsked <= Len(archive.platers) /\ Bed # NoArea
            /\ OnPlate # {}
            /\ instances' = [i \in OnPlate |-> 1]
       ELSE instances' = instances
    /\ stage' = "isolated"
    /\ UNCHANGED <<archive, baked, asked, error, settingVars, output, infos>>

\* The last instance left of an object is its copies' template.
IsLast(i) == \A j \in DOMAIN instances : j[1] = i[1] => j[2] <= i[2]

\* The copies take the template's pose but not its exclusion from printing.
\* With copies the bed is packed, without them the model is centred or set
\* down as it stands.
PlaceCopies ==
    /\ At("isolated")
    /\ instances' = [i \in DOMAIN instances |->
                        IF IsLast(i) THEN instances[i] + (asked.copies - 1) ELSE instances[i]]
    /\ stage' = "placed"
    /\ UNCHANGED <<archive, baked, asked, error, settingVars, output, infos>>

CopiesDoNotFit ==
    /\ At("isolated")
    /\ asked.copies > 1
    /\ Refuse("copies_dont_fit")
    /\ UNCHANGED <<archive, baked, asked, settingVars, jobVars>>

\* Print::apply takes what is to be printed, under the final configuration.
Printed == {i \in DOMAIN instances : instances[i] > 0}

UsedNow == SlotsOf(Printed, cfg)

\* A slot without a filament ends Print::apply.
ApplyFails ==
    /\ At("placed")
    /\ ~ UsedNow \subseteq DOMAIN ids
    /\ Refuse("apply_failed")
    /\ UNCHANGED <<archive, baked, asked, settingVars, jobVars>>

SliceFails ==
    /\ At("placed")
    /\ UsedNow \subseteq DOMAIN ids
    /\ Refuse("slice_failed")
    /\ UNCHANGED <<archive, baked, asked, settingVars, jobVars>>

SlotsInOrder == InOrder(UsedNow)

\* One plate is written, without the model. Its filaments are numbered by
\* slot but described by their place in the list. Print::validate refuses a
\* print that uses none.
Export ==
    /\ At("placed")
    /\ UsedNow \subseteq DOMAIN ids /\ UsedNow # {}
    /\ output' = [authored |-> ids, platers |-> <<PlateAsked>>,
                  slices |-> <<[index |-> PlateAsked, slots |-> SlotsInOrder]>>,
                  gcode |-> TRUE, objects |-> <<>>]
    /\ infos' = [i \in DOMAIN SlotsInOrder |->
                    [slot |-> SlotsInOrder[i], preset |-> presets[i]]]
    /\ stage' = "exported"
    /\ UNCHANGED <<archive, baked, asked, error, settingVars, instances>>

Next ==
    \/ Configure
    \/ RejectPlate \/ IsolatePlate
    \/ PlaceCopies \/ CopiesDoNotFit
    \/ ApplyFails \/ SliceFails \/ Export

Spec == Init /\ [][Next]_vars

-----------------------------------------------------------------------------
(* Properties *)

\* Print::apply is never given fewer filaments than the model needs when the
\* client sent one for each filament the inspection lists and the plate uses
\* no others.
ListedSlotsSuffice ==
    error = "apply_failed" =>
        \/ Len(asked.ids) # Len(AuthoredSlots(archive))
        \/ ~ UsedNow \subseteq ToSet(AuthoredSlots(archive))

\* An archive of several plates as an editor leaves it: what a plate lists
\* stands on it, what no plate lists stands on none.
LaidOut ==
    \A i \in Instances(archive) : \A p \in 1..Len(archive.platers) :
        LET listed == Instance(archive, i).plate
        IN /\ listed = p => StandsOn(i, p, archive.area)
           /\ listed = OffPlate => ~StandsOn(i, p, archive.area)

\* A larger bed that does not reach the next plate.
BedIsLarger ==
    /\ Bed # NoArea /\ Bed.x = archive.area.x /\ Bed.y = archive.area.y
    /\ Bed.w >= archive.area.w /\ 5 * Bed.w <= 6 * archive.area.w
    /\ Bed.d >= archive.area.d

ListedToPrint == Printable(archive, Listed(archive, PlateAsked))

\* Of an archive of several plates, the plate asked for is printed: all that it
\* lists but what is excluded from printing, and nothing else. The engine goes
\* by where things stand on the bed of the request's machine, the archive says
\* which plate they belong to. It holds on a bed like the one the archive was
\* laid out for, and of plate 1 on one a fifth larger, where only what no plate
\* lists may join it.
PlateIsPrinted ==
    (/\ stage \in {"isolated", "placed", "exported"}
     /\ Len(archive.platers) > 1 /\ LaidOut) =>
        /\ Bed = archive.area => DOMAIN instances = ListedToPrint
        /\ (BedIsLarger /\ PlateAsked = 1) =>
              {i \in DOMAIN instances : Instance(archive, i).plate # OffPlate} = ListedToPrint

\* The archive's plates are the slice's: of several, those it isolates; a
\* single one lists everything, or nothing is listed.
PlatesAgree ==
    IF Len(archive.platers) > 1 THEN LaidOut /\ Bed = archive.area
    ELSE Plated(archive) = {} \/ Listed(archive, 1) = Instances(archive)

\* Nothing excluded from printing comes back as a copy.
CopiesAgree == asked.copies = 1 \/ Printable(archive, Instances(archive)) = Instances(archive)

\* A slot is named by a setting whose value the slice takes from elsewhere than
\* the file, or that counts in one of them only.
ByOtherSettings(s) ==
    \E i \in Instances(archive) : \E k \in GlobalKey :
        /\ s \in Names[i[1]][k][FileValue(archive)[k]] \cup Names[i[1]][k][cfg[k]]
        /\ \E x \in {k, EnableKey} : cfg[x] # FileValue(archive)[x]

\* The slots use-set names for a plate nothing describes and the slots its slice
\* prints with differ by global settings that are not the file's, and by
\* nothing else: the one goes by the metadata and the settings of the file, the
\* other by where things stand and the configuration of the request.
InspectedIsPrinted ==
    (/\ At("exported") /\ PlateAsked \in PlateIds(archive)
     /\ SlicesOf(archive, PlateAsked) = {}
     /\ PlatesAgree /\ CopiesAgree)
        => LET inspected == Backfilled(archive, PlateAsked)
               printed == ToSet(output.slices[1].slots)
           IN /\ PlateAsked \in DOMAIN UseSet(archive)
              /\ \A s \in (inspected \ printed) \cup (printed \ inspected) : ByOtherSettings(s)

\* A slice is inspected as sliced, lists the slots it prints with and, when it
\* is the slice of plate 1, shows them and its estimate on that plate; filaments
\* paired with that list are the ones it was sliced with.
OutputIsInspected ==
    At("exported") =>
        /\ IsSliced(output)
        /\ AuthoredSlots(output) = SlotsInOrder
        /\ PlateAsked = 1 => InspectedPlate(output, 1) = [used |-> UsedNow, estimated |-> TRUE]
        /\ LET paired == Padded(AuthoredSlots(output),
                                [i \in DOMAIN SlotsInOrder |-> ids[SlotsInOrder[i]]])
           IN \A s \in UsedNow : paired[s] = output.authored[s]
        /\ UsedNow = 1..Cardinality(UsedNow) =>
              \A i \in DOMAIN infos : infos[i].preset = presets[infos[i].slot]

=============================================================================
