---------------------------- MODULE MCSliceJob ----------------------------
(* SliceJob over three families of jobs: one filament and every way a        *)
(* setting can be listed, baked and overridden; two slots with every mix of  *)
(* kept, changed and derived filaments; and archives of up to three plates,  *)
(* sliced and not, with sparse slots, for beds of four sizes.                *)
EXTENDS SliceJob

MCInherits == [p \in {"PLA", "PETG", "ABS", "Silk", "PLA (job)"} |->
                IF p \in {"Silk", "PLA (job)"} THEN "PLA" ELSE "none"]
MCCustomised == [p \in DOMAIN MCInherits |->
                IF p = "Silk" THEN {"flow"} ELSE IF p = "PLA (job)" THEN {"temp"} ELSE {}]

MCObject == {"cube", "lid", "tower"}
MCUses == [o \in MCObject |-> CASE o = "cube" -> {1} [] o = "lid" -> {1, 2} [] o = "tower" -> {3}]

AllKeys == {"walls", "support", "support_filament", "wall_filament", "retract", "extruders",
            "nozzle_volume", "printable_area", "filament_map", "bed_type", "temp", "flow"}

\* The cube follows the file's settings, the lid is supported and has a wall
\* filament of its own, the tower is not supported and has one in the presets.
SupportFilament == [v \in Source |-> CASE v = "author" -> {2} [] v = "baked" -> {3} [] OTHER -> {}]
WallFilament(preset) == [v \in Source |-> CASE v = "author" -> {3} [] v = "preset" -> preset [] OTHER -> {}]
MCNames == [o \in MCObject |-> [k \in {"support_filament", "wall_filament"} |->
                IF k = "support_filament" THEN SupportFilament
                ELSE IF o = "lid" THEN [v \in Source |-> {2}]
                ELSE WallFilament(IF o = "tower" THEN {2} ELSE {})]]
MCSupportFor == [o \in MCObject |->
                CASE o = "cube" -> {"author"} [] o = "lid" -> Source [] o = "tower" -> {}]

Square(n) == [x |-> 0, y |-> 0, w |-> n, d |-> n]
\* Beds: the one archives are laid out for, a shorter and wider one, one a fifth wider,
\* one of twice the size.
Ten == Square(10)
MCGivenArea == [Ten EXCEPT !.w = 8]
Twelve == Square(12)
Twenty == Square(20)

\* An instance on each of the plates of Ten, and one beside them
At1 == [x |-> 10, y |-> 10, w |-> 10, d |-> 10]
At2 == [At1 EXCEPT !.x = 70]
At3 == [At1 EXCEPT !.y = -50]
Beside == [At1 EXCEPT !.x = 45]
Stands(p) == [plate |-> p, printable |-> TRUE,
              box |-> CASE p = 0 -> Beside [] p = 1 -> At1 [] p = 2 -> At2 [] p = 3 -> At3]
Left(p) == [Stands(p) EXCEPT !.printable = FALSE]
Loose(p) == [Stands(p) EXCEPT !.plate = OffPlate]

Written(keys) == [k \in keys |-> "author"]

Groups(process, slots, printer) == <<process>> \o slots \o <<printer>>

Plain == [authored |-> <<"PLA">>, embedded |-> {}, settings |-> Written(AllKeys),
          groups |-> <<>>, platers |-> <<1>>, slices |-> <<>>, gcode |-> FALSE,
          area |-> Ten, objects |-> [o \in {"cube"} |-> <<Stands(1)>>]]

Ask == [ids |-> <<"PLA">>, overrides |-> <<>>, bed |-> "none", map |-> <<>>,
        plate |-> 1, copies |-> 1, area |-> Ten]

All(keys, value) == [k \in keys |-> value]

ConfigJobs == [archive : {[Plain EXCEPT !.groups = g, !.settings = Written(s)] :
                    g \in { <<>>, <<{"walls"}>>,
                            Groups({"walls", "temp"}, <<>>, {"retract"}),
                            Groups({"walls", "support_filament"}, <<{"temp"}>>,
                                   {"retract", "extruders", "nozzle_volume"}) },
                    s \in {AllKeys, AllKeys \ {"walls", "bed_type"}, {}}},
               asked : {[Ask EXCEPT !.overrides = o, !.bed = b, !.map = m] :
                    o \in { <<>>, All({"walls"}, "good"), All({"walls", "flow"}, "bad"),
                            All({"walls", "retract", "bed_type", "support_filament", "brim"}, "good"),
                            All({"temp", "extruders", "filament_map"}, "good") },
                    b \in {"none", "cool", "supertack"}, m \in { <<>>, <<1>>, <<2>> }}]

SlotJobs == [archive : {[Plain EXCEPT !.authored = a, !.embedded = e, !.groups = g, !.settings = Written(s)] :
                    a \in { <<"PLA">>, <<"PLA", "PETG">>, <<"PLA (job)", "PETG">>, <<"PLA", "PLA (job)">>,
                            <<"Silk", "PLA">>, <<"none", "PLA">>, <<"PLA (job)", "Silk">> },
                    e \in { {}, {"PLA (job)"} },
                    g \in { Groups({}, <<{"temp"}, {}>>, {}), Groups({}, <<{"temp"}, {"temp", "flow"}>>, {}),
                            Groups({"walls"}, <<{}, {"walls", "support_filament", "temp", "bed_type"}>>, {}),
                            Groups({}, <<{"extruders", "retract"}, {"nozzle_volume"}>>, {"extruders"}) },
                    s \in {AllKeys, AllKeys \ {"flow"}}},
             asked : {[Ask EXCEPT !.ids = i, !.overrides = o] :
                    i \in { <<>>, <<"PLA">>, <<"PLA", "PLA">>, <<"PLA", "PETG">>, <<"PETG", "PETG">>,
                            <<"PLA", "Silk">>, <<"Silk", "PLA">>, <<"PETG", "PLA">>, <<"PLA", "ABS">> },
                    o \in { <<>>, All({"flow"}, "good") }}]

Slice(p, slots) == [index |-> p, slots |-> slots]

OnOne == {[o \in {} |-> <<>>], [o \in {"tower"} |-> <<Stands(1)>>],
          [o \in {"cube", "tower"} |-> IF o = "cube" THEN <<Stands(1), Stands(1)>> ELSE <<Loose(1)>>],
          [o \in {"cube", "tower"} |-> IF o = "cube" THEN <<Stands(1)>> ELSE <<Left(1)>>],
          [o \in {"cube", "tower"} |-> <<Stands(1)>>], [o \in {"lid", "tower"} |-> <<Stands(1)>>]}
OnTwo == {[o \in {"cube", "tower"} |-> IF o = "cube" THEN <<Stands(1), Stands(2)>> ELSE <<Stands(2)>>],
          [o \in {"cube", "tower"} |-> IF o = "cube" THEN <<Left(1), Stands(2)>> ELSE <<Stands(1)>>],
          [o \in {"lid", "tower"} |-> IF o = "lid" THEN <<Stands(2), Stands(0)>> ELSE <<Stands(1)>>],
          [o \in {"tower"} |-> <<Stands(1), Loose(1)>>]}
OnThree == {[o \in {"cube", "tower"} |-> IF o = "cube" THEN <<Stands(1), Stands(3)>> ELSE <<Stands(2)>>]}

\* The metadata of a slice of some plates, with slots of the objects on them
Truth(objects, plates) ==
    LET names(o) == MCUses[o] \cup MCNames[o]["wall_filament"]["preset"]
        used(p) == UNION {names(o) : o \in {x \in DOMAIN objects :
                                \E i \in DOMAIN objects[x] : objects[x][i].plate = p}}
    IN [i \in DOMAIN plates |-> Slice(plates[i], InOrder(used(plates[i])))]

Built(objects, platers) == [Plain EXCEPT !.authored = <<"PLA", "PETG", "Silk">>,
                                !.platers = platers, !.objects = objects]

\* Archives whose author set up supports and filaments for them, for the
\* process as a whole or with the first slot's filament
Supported3 == {[Built(o, <<1>>) EXCEPT !.settings = Written(s), !.groups = g] :
                    o \in OnOne, s \in {AllKeys \ {"wall_filament"}, {"wall_filament"}},
                    g \in { Groups({"support", "support_filament"}, <<{}, {}, {}>>, {}),
                            Groups({"support"}, <<{"support_filament", "wall_filament"}, {}, {}>>, {}) }}

AskPlate(plates, copies, areas) ==
    {[Ask EXCEPT !.ids = i, !.plate = p, !.copies = c, !.area = r] :
        i \in { <<"PETG">>, <<"PETG", "PLA">>, <<"PLA", "PETG", "Silk">> },
        p \in plates, c \in copies, r \in areas}

PlateJobs ==
    [archive : UNION {
            {Built(o, p) : o \in OnOne, p \in {<<>>, <<1>>}},
            {[Built(o, <<1>>) EXCEPT !.slices = Truth(o, <<1>>), !.gcode = g] :
                o \in OnOne, g \in BOOLEAN},
            {[Built(o, <<1, 2>>) EXCEPT !.slices = Truth(o, t), !.gcode = TRUE] :
                o \in OnTwo, t \in {<<1>>, <<2>>, <<1, 2>>}},
            {[Built(o, <<1>>) EXCEPT !.slices = <<Slice(1, <<3, 1>>)>>, !.gcode = TRUE] :
                o \in {[x \in {"cube", "tower"} |-> <<Stands(1)>>]}},
            {[Built(o, <<1>>) EXCEPT !.slices = <<Slice(1, s)>>] :
                o \in OnOne, s \in { <<2>>, <<>> }}, Supported3},
      asked : AskPlate(0..2, 1..2, {Ten})]
    \cup
    [archive : UNION {{Built(o, <<1, 2>>) : o \in OnTwo},
                      {Built(o, <<1, 2, 3>>) : o \in OnThree},
                      {[Built(o, <<1, 2>>) EXCEPT !.groups = Groups({}, <<{}>>, {"printable_area"})] :
                            o \in OnTwo}},
      asked : AskPlate(1..4, 1..2, {Ten, Twelve, Twenty, NoArea})
              \cup {[Ask EXCEPT !.overrides = All({"printable_area"}, "good"), !.plate = p] : p \in 1..2}]

MCJob == ConfigJobs \cup SlotJobs \cup PlateJobs

MCBake == {[overrides |-> {"walls", "support_filament"}, bed |-> "supertack"],
           [overrides |-> {"temp"}, bed |-> "none"]}

=============================================================================
