------------------------ MODULE MCProfileResolution ------------------------
(* ProfileResolution over two small vendor catalogues: vendors that share    *)
(* the name of a profile and the setting_id of a machine, a library, and a   *)
(* profile whose parent is not loaded.                                       *)
EXTENDS ProfileResolution, TLC

Shipped(vendor, cat, name, sid, inst, inherits, own) ==
    [vendor |-> vendor, cat |-> cat, name |-> name, sid |-> sid, inst |-> inst,
     inherits |-> inherits, own |-> own]

\* A filament of the library and one of a vendor have the name "Base", which
\* the filaments of two vendors inherit from.
MCShared == <<
    Shipped("lib", "filament", "Base", "none", FALSE, "none",
            [trait |-> {"PLA"}, fid |-> {"F0"}]),
    Shipped("one", "machine", "M1", "GM1", TRUE, "none",
            [fprefer |-> {"Silk @M1"}, pprefer |-> {"Fine"}]),
    Shipped("one", "process", "Fine", "GP1", TRUE, "none",
            [compat |-> {"M1"}, trait |-> {1}]),
    Shipped("one", "filament", "Silk @M1", "GF1", TRUE, "Base",
            [compat |-> {"M1"}, trait |-> {"PLA-S"}]),
    Shipped("two", "machine", "M2", "GM1", TRUE, "none", [fprefer |-> {}]),
    Shipped("two", "filament", "Base", "none", FALSE, "none",
            [trait |-> {"PLA"}, fid |-> {"F3"}]),
    Shipped("two", "filament", "Tough @M2", "GF2", TRUE, "Base",
            [compat |-> {"M2"}, fid |-> {"F2"}]) >>

\* No library: the parent of "Silk @M1" is another vendor's, so it is missing.
MCBroken == <<
    Shipped("one", "machine", "M1", "GM1", TRUE, "none",
            [fprefer |-> {"Tough @M2"}]),
    Shipped("one", "filament", "Silk @M1", "GF1", TRUE, "Base",
            [compat |-> {"M1"}, fid |-> {"F1"}]),
    Shipped("two", "filament", "Base", "GF0", TRUE, "none",
            [trait |-> {"ABS"}, compat |-> {"M1"}]),
    Shipped("two", "filament", "Tough @M2", "GF2", TRUE, "Base",
            [compat |-> {"M1"}]) >>

MCCatalogues == {MCShared, MCBroken}

MCAlias == [n \in {"Base", "M1", "M2", "Fine", "Silk @M1", "Tough @M2", "Silk"} |->
                IF n = "Silk @M1" THEN "Silk"
                ELSE IF n = "Tough @M2" THEN "Tough" ELSE n]

MCNewId == [a \in Range(MCAlias) |-> "P " \o a]

Body(cat, name, sid, inherits, own) ==
    [vendor |-> "User", cat |-> cat, name |-> name, sid |-> sid, inst |-> TRUE,
     inherits |-> inherits, own |-> own]

\* Clones of vendor filaments under new and old names, with and without an id
\* and a scope of their own, and a process of a filament's name
MCPayload == {
    Body("filament", "Silk", "u1", "Silk @M1", <<>>),
    Body("filament", "Silk", "u1", "GF2", [compat |-> {"M2"}, fid |-> {"F9"}]),
    Body("filament", "Silk", "u1", "none", [compat |-> {}, fid |-> {"F2"}]),
    Body("filament", "Base", "u1", "Base", [trait |-> {"PETG"}, compat |-> {"M1"}]),
    Body("filament", "Tough @M2", "u2", "Base", [compat |-> {"M1"}, fid |-> {"F9"}]),
    Body("filament", "Tough @M2", "u2", "Silk", [compat |-> {"M1", "M2"}, fid |-> {"F2"}]),
    Body("filament", "Silk", "GF2", "Tough @M2", [fid |-> {"F2"}]),
    Body("process", "Fine", "u2", "GP1", [trait |-> {2}]),
    Body("process", "Silk", "u2", "Fine", [trait |-> {1}]) }

MCSlots == <<
    [cat |-> "filament", base |-> FALSE, sid |-> "GF2"],
    [cat |-> "filament", base |-> FALSE, sid |-> "u1"],
    [cat |-> "filament", base |-> FALSE, sid |-> "u2"],
    [cat |-> "filament", base |-> TRUE, sid |-> "u1"],
    [cat |-> "process", base |-> FALSE, sid |-> "u2"] >>

=============================================================================
