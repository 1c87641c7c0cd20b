-------------------------- MODULE MCProfileCatalog --------------------------
(***************************************************************************)
(* ProfileCatalog with one profile n1 of either category and a filament n2 *)
(* that inherits it.  n1 comes without a parent, as a clone of a vendor's, *)
(* and, to the endpoint of processes, as a body that is a filament.        *)
(***************************************************************************)
EXTENDS ProfileCatalog, TLC

CONSTANTS n1, n2, plain, clone, stray, child

MCName == {n1, n2}
MCBody == {plain, clone, stray, child}

MCKindOf == [b \in MCBody |-> IF b = stray THEN "filament" ELSE "process"]

MCParentOf ==
    [b \in MCBody |-> CASE b = child -> n1 [] b = clone -> Vendor [] OTHER -> Nothing]

MCImportable ==
    {<<"filament", n1, plain>>, <<"filament", n1, clone>>, <<"filament", n2, child>>,
     <<"process", n1, plain>>, <<"process", n1, stray>>}

MCLegacy == Category \X {n1} \X {plain}

MCSymmetry == Permutations(Request)

=============================================================================
