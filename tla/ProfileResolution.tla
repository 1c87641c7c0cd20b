-------------------------- MODULE ProfileResolution --------------------------
(***************************************************************************)
(* How app/profiles.py turns a loaded catalogue into settings: the lookup  *)
(* of profiles by name and setting_id, the inheritance of one from         *)
(* another, the memo of resolved profiles, the checks of an import, the    *)
(* choice of a replacement for another machine, and the chain files that   *)
(* app/slicer.py writes for the binary.  Every handler here runs without   *)
(* an await between its first lookup and its last, so each is one action;  *)
(* what overlaps a load is the subject of ProfileCatalog.                  *)
(*                                                                         *)
(* The indexes are functions of the order in which _index_profile was      *)
(* called, so the catalogue is the entries, numbered in that order.        *)
(* Settings are abstracted to the ones these algorithms look at, each a    *)
(* set of values:                                                          *)
(*   compat  compatible_printers          fid   filament_id                *)
(*   trait   filament_type of a filament, layer_height of a process        *)
(*   fprefer, pprefer  default_filament_profile, default_print_profile     *)
(***************************************************************************)
EXTENDS Naturals, Sequences, FiniteSetsExt

CONSTANTS
    Catalogues,     \* the vendors' entries in load order, library first
    Payload,        \* bodies of import requests
    Slots,          \* the user directory's files, in the order of the walk
    Alias,          \* the part of a name before " @", for each name
    NewId,          \* the filament_id generated for each alias
    Library,        \* OrcaFilamentLibrary
    User,           \* the vendor of user profiles
    NoRef,          \* no inherits, no setting_id
    NoKey           \* a lookup that found nothing

\* What _index_profile registers, or an import brings
Entry == Payload \cup UNION {Range(c) : c \in Catalogues}

ASSUME ResolutionAssumption ==
    /\ Slots \in Seq(Range(Slots))
    /\ \A c \in Catalogues : c \in Seq(Range(c)) /\ \A e \in Range(c) : e.vendor # User
    /\ \A p \in Payload :
          /\ p.vendor = User
          /\ [cat |-> p.cat, base |-> p.inherits = NoRef, sid |-> p.sid] \in Range(Slots)
    /\ \A e \in Entry :
          /\ DOMAIN e = {"vendor", "cat", "name", "sid", "inst", "inherits", "own"}
          /\ e.own = [f \in DOMAIN e.own |-> e.own[f]]
    /\ Library # User

VARIABLES
    shipped,    \* the vendor entries below PROFILES_DIR
    files,      \* slot of the user directory -> the profile in the file
    loaded,     \* the entries in the order _index_profile registered them
    memo,       \* _resolved_cache
    hidden      \* history: a user file has had the name of another one

vars == <<shipped, files, loaded, memo, hidden>>

\* MUTANT of Merge: the parent's settings win
MergeParentWins(parent, child) ==
    [f \in DOMAIN parent \cup DOMAIN child |->
        IF f \in DOMAIN parent THEN parent[f] ELSE child[f]]

\* dict(parent) updated with the child's own settings
Merge(parent, child) ==
    [f \in DOMAIN parent \cup DOMAIN child |->
        IF f \in DOMAIN child THEN child[f] ELSE parent[f]]

Setting(s, f) == IF f \in DOMAIN s THEN s[f] ELSE {}

-----------------------------------------------------------------------------
(* The indexes *)

KeyOf(e) == [vendor |-> e.vendor, name |-> e.name]

Keys(l) == {KeyOf(l[i]) : i \in DOMAIN l}

Places(l, k) == {i \in DOMAIN l : l[i].name = k.name /\ l[i].vendor = k.vendor}

\* _raw_profiles: of two entries of one key the later replaces the earlier
Raw(l, k) == l[Max(Places(l, k))]

Category(l, k) == Raw(l, k).cat

\* a dict keeps the place of a key's first insertion
Place(l, k) == Min(Places(l, k))

First(l, I) == IF I = {} THEN NoKey ELSE KeyOf(l[Min(I)])

\* _name_index, with and without a category
Named(l, n) == {i \in DOMAIN l : l[i].name = n}

NamedIn(l, n, c) == {i \in Named(l, n) : Category(l, KeyOf(l[i])) = c}

\* _setting_id_index
WithId(l, s) == {i \in DOMAIN l : l[i].sid = s /\ s # NoRef}

WithIdIn(l, s, c) == {i \in WithId(l, s) : Category(l, KeyOf(l[i])) = c}

\* _resolve_by_slug: the first profile of the category with this setting_id
BySlug(l, s, c) == First(l, WithIdIn(l, s, c))

\* get_profile_by_id_or_name
BySlugOrName(l, s, c) ==
    IF WithIdIn(l, s, c) # {} THEN BySlug(l, s, c) ELSE First(l, NamedIn(l, s, c))

-----------------------------------------------------------------------------
(* Inheritance *)

\* _resolve_parent_key: the same vendor, then the library, and for a user
\* profile then any vendor
Parent(l, k) ==
    LET Preference(I) ==
            LET Of(v) == {i \in I : l[i].vendor = v} IN
            IF Of(k.vendor) # {} THEN Of(k.vendor)
            ELSE IF Of(Library) # {} THEN Of(Library)
            ELSE IF k.vendor = User THEN I ELSE {}
    IN  First(l, Preference(NamedIn(l, Raw(l, k).inherits, Category(l, k))))

HasParent(l, k) == Raw(l, k).inherits # NoRef /\ Parent(l, k) # NoKey

\* The keys from k towards its root; one more than there are keys when the
\* parents form a cycle
Chain(l, k) ==
    LET walk[n \in 0..Cardinality(Keys(l))] ==
            IF n = 0 THEN <<k>>
            ELSE LET w == walk[n - 1] IN
                 IF Len(w) = n /\ HasParent(l, w[n])
                 THEN Append(w, Parent(l, w[n])) ELSE w
    IN  walk[Cardinality(Keys(l))]

Loops(l, k) == Len(Chain(l, k)) > Cardinality(Keys(l))

EndsInRoot(l, c) == Raw(l, c[Len(c)]).inherits = NoRef

Rooted(l, k) == EndsInRoot(l, Chain(l, k))

\* resolve_profile_by_name returns: the chain ends in a root, or in a profile
\* resolved before.  It raises ProfileNotFoundError when a parent is missing
\* and runs out of stack when the chain loops.
ResolvesAlong(l, m, c) == EndsInRoot(l, c) \/ Range(c) \cap DOMAIN m # {}

Resolves(l, m, k) == ResolvesAlong(l, m, Chain(l, k))

\* The merge from the end of the chain c to its first key
MergeAlong(l, m, c) ==
    LET from[n \in 0..(Len(c) - 1)] ==
            LET x == c[Len(c) - n] IN
            IF x \in DOMAIN m THEN m[x]
            ELSE IF n = 0 THEN Raw(l, x).own
            ELSE Merge(from[n - 1], Raw(l, x).own)
    IN  from[Len(c) - 1]

\* resolve_profile_by_name, for a key that resolves
Resolve(l, m, k) == MergeAlong(l, m, Chain(l, k))

Resolved(l, m, k) == IF Resolves(l, m, k) THEN Resolve(l, m, k) ELSE <<>>

\* _resolved_cache after the keys of K were resolved: the whole chain of each
\* is memoised on the way back
Remember(l, m, K) ==
    LET old == DOMAIN m
        new == UNION {Range(Chain(l, k)) : k \in {x \in K \ old : Resolves(l, m, x)}}
    IN  [k \in old \cup new |-> IF k \in old THEN m[k] ELSE Resolve(l, m, k)]

\* A loop over the keys of K in the order of _raw_profiles skips profiles with
\* a missing parent and ends where one runs out of stack.
BeforeLoop(l, K) ==
    {k \in K : \A x \in K : Loops(l, x) => Place(l, k) < Place(l, x)}

AnyLoops(l, K) == \E k \in K : Loops(l, k)

-----------------------------------------------------------------------------
(* Imports *)

\* _resolve_filament_parent_ref, _resolve_process_parent_ref: a setting_id
\* goes before a name, wherever in the catalogue it comes from
ParentRef(l, ref, c) ==
    IF WithId(l, ref) # {} /\ Category(l, First(l, WithId(l, ref))) = c
    THEN First(l, WithId(l, ref))
    ELSE First(l, NamedIn(l, ref, c))

ParentKeys(l, e) == IF e.inherits = NoRef THEN {} ELSE {ParentRef(l, e.inherits, e.cat)}

\* _compatible_printers_set_for_payload, and {} when its chain is broken
Scope(l, m, e) ==
    LET Under(p) == IF p = NoKey \/ ~ Resolves(l, m, p) THEN {}
                    ELSE Setting(Merge(Resolve(l, m, p), e.own), "compat")
    IN  IF e.inherits = NoRef THEN Setting(e.own, "compat")
        ELSE Under(ParentRef(l, e.inherits, e.cat))

Filaments(l) == {k \in Keys(l) : Category(l, k) = "filament"}

\* The filaments whose raw filament_id an import's is compared with
Rivals(l, e) ==
    {k \in Filaments(l) : /\ Setting(Raw(l, k).own, "fid") = e.own.fid
                          /\ Raw(l, k).sid # e.sid}

\* MUTANT of Conflict: a profile without a scope applies nowhere
ConflictOverlapOnly(l, m, e, k) == Scope(l, m, e) \cap Scope(l, m, Raw(l, k)) # {}

\* _check_filament_id_ams_scope: no scope means every printer
Conflict(l, m, e, k) ==
    LET Meet(a, b) == a = {} \/ b = {} \/ a \cap b # {}
    IN  Meet(Scope(l, m, e), Scope(l, m, Raw(l, k)))

\* The rivals that are checked, up to the first that is in conflict
Checked(l, m, e) ==
    {k \in Rivals(l, e) :
        \A x \in Rivals(l, e) : Conflict(l, m, e, x) => Place(l, k) <= Place(l, x)}

\* _generate_custom_filament_id, but for the case that two names' hashes meet
GeneratedId(n) == {NewId[Alias[n]]}

\* What materialize_*_import makes of a body whose parent is known
Materialized(l, p) ==
    LET named == IF p.inherits = NoRef THEN NoRef ELSE ParentRef(l, p.inherits, p.cat).name
        own   == IF p.cat = "filament" /\ "fid" \notin DOMAIN p.own
                 THEN Merge(p.own, [fid |-> GeneratedId(p.name)]) ELSE p.own
    IN  [p EXCEPT !.inherits = named, !.own = own]

\* The profiles resolved while a filament import is checked: those whose
\* filament_id is looked up for a generated one, the parent, the rivals' parents
LookedUp(l, m, p) ==
    LET For(e) ==
            {k \in Filaments(l) : "fid" \notin DOMAIN p.own \cup DOMAIN Raw(l, k).own}
            \cup ParentKeys(l, e)
            \cup UNION {ParentKeys(l, Raw(l, k)) : k \in Checked(l, m, e)}
    IN  IF p.cat # "filament" THEN {} ELSE For(Materialized(l, p)) \ {NoKey}

\* materialize_filament_import and materialize_process_import succeed
Acceptable(l, m, p) ==
    LET Fits(e) == /\ \A k \in ParentKeys(l, e) : k # NoKey /\ Resolves(l, m, k)
                   /\ \A k \in Rivals(l, e) : ~ Conflict(l, m, e, k)
    IN  /\ NoKey \notin ParentKeys(l, p)
        /\ ~ AnyLoops(l, LookedUp(l, m, p))
        /\ p.cat = "filament" => Fits(Materialized(l, p))

-----------------------------------------------------------------------------
(* A replacement for another machine *)

MachineNames(l, s) == {k.name : k \in {KeyOf(l[i]) : i \in WithIdIn(l, s, "machine")}}

Instances(l, c) == {k \in Keys(l) : Category(l, k) = c /\ Raw(l, k).inst}

\* _machine_compat_candidates
Candidates(l, m, s, c) ==
    {k \in Instances(l, c) :
        /\ Resolves(l, m, k)
        /\ Setting(Resolve(l, m, k), "compat") \cap MachineNames(l, s) # {}}

AliasOf(n) == IF n \in DOMAIN Alias THEN Alias[n] ELSE n

\* get_machine_model_metadata: the names the machine prefers
Preferred(l, m, s, c) ==
    Setting(Resolve(l, m, BySlug(l, s, "machine")),
            IF c = "filament" THEN "fprefer" ELSE "pprefer")

\* The profile that a request names: a process can be named by setting_id too
Requested(l, c, n) ==
    IF c = "filament" THEN First(l, NamedIn(l, n, c))
    ELSE IF NamedIn(l, n, c) # {} THEN First(l, NamedIn(l, n, c)) ELSE BySlug(l, n, c)

RequestedName(l, m, c, n) ==
    LET k == Requested(l, c, n) IN
    IF NamedIn(l, n, c) = {} /\ k # NoKey /\ Resolves(l, m, k) THEN k.name ELSE n

RequestedTrait(l, m, c, n) ==
    LET k == Requested(l, c, n) IN
    IF k # NoKey /\ Resolves(l, m, k) THEN Setting(Resolve(l, m, k), "trait") ELSE {}

Huge == 1000

\* MUTANT of Score: the matching trait is one more point
ScoreAdds(l, m, k, alias, trait, preferred) ==
    IF Alias[k.name] = alias THEN Huge
    ELSE (2 + IF k.name \in preferred THEN 1 ELSE 0)
           + (IF trait # {} /\ Setting(Resolve(l, m, k), "trait") = trait THEN 1 ELSE 0)

\* _score_filament_for_machine, _score_process_for_machine
Score(l, m, k, alias, trait, preferred) ==
    IF Alias[k.name] = alias THEN Huge
    ELSE (2 + IF k.name \in preferred THEN 1 ELSE 0)
           * (IF trait # {} /\ Setting(Resolve(l, m, k), "trait") = trait THEN 10 ELSE 1)

\* The choice among the candidates C for this name and trait
MatchAmong(l, m, C, name, trait, preferred) ==
    LET same     == {k \in C : k.name = name}
        Best(s)  == {k \in C : \A x \in C : s[x] <= s[k]}
        Front(K) == CHOOSE k \in K : \A x \in K : Place(l, k) <= Place(l, x)
    IN  IF C = {} THEN NoKey
        ELSE IF same # {} THEN Front(same)
        ELSE Front(Best([k \in C |-> Score(l, m, k, AliasOf(name), trait, preferred)]))

\* resolve_filament_for_machine, resolve_process_for_machine, for a known
\* machine and a request that reaches no loop (without the word that says how
\* the profile was found)
Match(l, m, s, c, n) ==
    MatchAmong(l, m, Candidates(l, m, s, c), RequestedName(l, m, c, n),
               RequestedTrait(l, m, c, n), Preferred(l, m, s, c))

-----------------------------------------------------------------------------
(* The chain files of a slice *)

\* MUTANT of ByName: the name index keeps the last profile of a name
ByNameLatest(l, n) == IF Named(l, n) = {} THEN NoKey ELSE KeyOf(l[Max(Named(l, n))])

\* iter_inheritance_chain is given the display name of the requested profile
\* and finds its key anew, as _write_chain_link does for every link
ByName(l, n) == First(l, Named(l, n))

LinkNames(l, k) == {x.name : x \in Range(Chain(l, ByName(l, k.name)))}

LinkKeys(l, k) == {k} \cup {ByName(l, n) : n \in LinkNames(l, k)}

Writable(l, m, k) ==
    /\ k # NoKey
    /\ Resolves(l, m, k)
    /\ Rooted(l, ByName(l, k.name))
    /\ \A x \in LinkKeys(l, k) : Resolves(l, m, x)

\* materialize_profiles_for_binary: link name -> the settings in its file
ChainFiles(l, m, k) == [n \in LinkNames(l, k) |-> Resolve(l, m, ByName(l, n))]

-----------------------------------------------------------------------------
(* The requests *)

Find(cat, sid) == {x \in DOMAIN files : x.cat = cat /\ x.sid = sid}

\* The catalogue with the files fs: the vendors' entries and then the user's,
\* in the order of the walk.  The number of a slot without a file stays free.
Entries(fs) ==
    LET n     == Len(shipped)
        users == {n + i : i \in {j \in DOMAIN Slots : Slots[j] \in DOMAIN fs}}
    IN  [i \in DOMAIN shipped \cup users |->
            IF i \in users THEN fs[Slots[i - n]] ELSE shipped[i]]

\* MUTANT of Load: the memo survives
LoadKeepsMemo(fs) == /\ loaded' = Entries(fs)
                     /\ UNCHANGED memo

\* load_all_profiles_legacy
Load(fs) == /\ loaded' = Entries(fs)
            /\ memo' = <<>>

NamesMeet(fs) == \E x, y \in DOMAIN fs : x # y /\ fs[x].name = fs[y].name

Store(fs) == /\ files' = fs
             /\ Load(fs)
             /\ hidden' = (hidden \/ NamesMeet(fs))
             /\ UNCHANGED shipped

\* A request that resolves the profiles K, one after the other, and changes
\* nothing else
Touch(K) == /\ memo' = Remember(loaded, memo, K \ {NoKey})
            /\ UNCHANGED <<shipped, files, loaded, hidden>>

\* import_filament_profile, import_process_profile, with replace when the file
\* exists: the file of an earlier import under the same setting_id goes,
\* wherever it lies
Import(p) ==
    /\ Acceptable(loaded, memo, p)
    /\ LET slot == [cat |-> p.cat, base |-> p.inherits = NoRef, sid |-> p.sid]
           kept == DOMAIN files \ Find(p.cat, p.sid)
       IN  Store([x \in kept \cup {slot} |->
                    IF x = slot THEN Materialized(loaded, p) ELSE files[x]])

\* resolve_filament_import and resolve_process_import, and an import that is
\* refused for a conflict, a loop or a file that exists: they resolve what an
\* import looks up.  (After a loop the rest of it is not looked up; the model
\* counts it as if it were.)
CheckImport(p) ==
    /\ NoKey \notin ParentKeys(loaded, p)
    /\ Touch(LookedUp(loaded, memo, p))

\* delete_filament_profile, delete_process_profile
Delete(cat, sid) ==
    /\ Find(cat, sid) # {}
    /\ Store([x \in DOMAIN files \ Find(cat, sid) |-> files[x]])

\* reload_profiles; main.lifespan does the same when the server starts
Reload == Store(files)

\* The setting_ids and names of the profiles of a category
Ids(cat) == {loaded[i].sid : i \in {j \in DOMAIN loaded : loaded[j].cat = cat}} \ {NoRef}

Names(cat) == {loaded[i].name : i \in {j \in DOMAIN loaded : loaded[j].cat = cat}}

\* What a client may ask for: a profile there is, by name or setting_id, or
\* one there is not
Asked(cat) == Ids(cat) \cup Names(cat) \cup {NoRef}

\* What a request finds that gives a setting_id
Found(cat) == {BySlug(loaded, s, cat) : s \in Ids(cat)} \ {NoKey}

\* get_profile_detail, export_user_filament, and an import after its await of
\* dump-profiles: one profile is resolved by its setting_id
GetProfile(k) == Touch({k})

\* resolve_for_machine, for one requested profile
ResolveForMachine(machine, cat, asked) ==
    Touch({machine, asked} \cup
          IF asked # NoKey /\ Loops(loaded, asked) THEN {}
          ELSE BeforeLoop(loaded, Instances(loaded, cat)))

\* materialize_profiles_for_binary: machine, process and filament in turn,
\* each chain written when those before it could be
Materialize(asked) ==
    LET reached == {i \in 1..3 : \A j \in 1..(i - 1) : Writable(loaded, memo, asked[j])}
    IN  Touch(UNION {IF asked[i] = NoKey THEN {}
                     ELSE IF Writable(loaded, memo, asked[i]) THEN LinkKeys(loaded, asked[i])
                     ELSE {asked[i]} : i \in reached})

Ask ==
    \/ \E cat \in {"filament", "process", "machine"} : \E k \in Found(cat) : GetProfile(k)
    \/ \E machine \in Found("machine"), cat \in {"filament", "process"} :
            \E k \in {Requested(loaded, cat, n) : n \in Asked(cat)} :
                ResolveForMachine(machine, cat, k)
    \/ \E machine \in Found("machine"), process \in Found("process") :
            \E filament \in {BySlugOrName(loaded, n, "filament") : n \in Asked("filament")} :
                Materialize(<<machine, process, filament>>)

Next ==
    \/ \E p \in Payload : Import(p)
    \/ \E p \in Payload : CheckImport(p)
    \/ \E x \in DOMAIN files : Delete(x.cat, x.sid)
    \/ Reload
    \/ Ask

Init ==
    /\ shipped \in Catalogues
    /\ files = <<>>
    /\ loaded = shipped
    /\ memo = <<>>
    /\ hidden = FALSE

Spec == Init /\ [][Next]_vars

-----------------------------------------------------------------------------
(* Properties *)

\* The catalogue is the vendors' profiles and the user's files, and the memo
\* holds profiles of the catalogue, each with its ancestors.
ResolutionTypeOK ==
    /\ shipped \in Catalogues
    /\ DOMAIN files \subseteq Range(Slots)
    /\ loaded = Entries(files)
    /\ DOMAIN memo \subseteq Keys(loaded)
    /\ \A k \in DOMAIN memo : Range(Chain(loaded, k)) \subseteq DOMAIN memo
    /\ hidden \in BOOLEAN

\* The settings of a profile by definition: each is that of the nearest
\* profile of its chain that sets it.
NearestAlong(l, c) ==
    LET Setters(f) == {i \in DOMAIN c : f \in DOMAIN Raw(l, c[i]).own}
    IN  [f \in UNION {DOMAIN Raw(l, c[i]).own : i \in DOMAIN c} |->
            Raw(l, c[Min(Setters(f))]).own[f]]

Nearest(l, k) == NearestAlong(l, Chain(l, k))

\* What was memoised by any request, in any order and before or after any
\* import, is what the catalogue of now says (resolve_profile_by_name).
MemoIsNearest == \A k \in DOMAIN memo : memo[k] = Nearest(loaded, k)

\* No import reaches a vendor's profile: each resolves, and the chain files
\* of a slice by its setting_id are written, as if the user had no profiles,
\* whatever names and setting_ids the user's profiles have (_resolve_parent_key,
\* iter_inheritance_chain).
ShippedUnaffected ==
    \A x \in Keys(shipped) :
        LET e == Raw(shipped, x)
            k == BySlug(shipped, e.sid, e.cat)
        IN  /\ Resolved(loaded, memo, x) = Resolved(shipped, <<>>, x)
            /\ BySlug(loaded, e.sid, e.cat) = k
            /\ Writable(loaded, memo, k) = Writable(shipped, <<>>, k)
            /\ Writable(shipped, <<>>, k) =>
                    ChainFiles(loaded, memo, k) = ChainFiles(shipped, <<>>, k)

\* A user filament and another one that share a filament_id apply to
\* different printers (_check_filament_id_ams_scope).  The check is made once,
\* at the import, and skips profiles of the importing setting_id; so it can
\* promise this of filaments that state their printers themselves and have
\* different setting_ids, as long as no user file hides another.
AmsScopesDisjoint ==
    \A k, x \in Filaments(loaded) :
        LET a == Raw(loaded, k)
            b == Raw(loaded, x)
        IN  /\ ~ hidden /\ k # x /\ k.vendor = User /\ a.sid # b.sid
            /\ {"fid", "compat"} \subseteq DOMAIN a.own \cap DOMAIN b.own
            /\ a.own.fid = b.own.fid
            => /\ a.own.compat # {} /\ b.own.compat # {}
               /\ a.own.compat \cap b.own.compat = {}

\* How well a profile replaces another of this name and trait
Rank(l, m, k, name, trait, preferred) ==
    LET Bit(b) == IF b THEN 1 ELSE 0 IN
    IF k.name = name THEN 5
    ELSE IF Alias[k.name] = AliasOf(name) THEN 4
    ELSE 2 * Bit(trait # {} /\ Setting(Resolve(l, m, k), "trait") = trait)
         + Bit(k.name \in preferred)

IsBest(l, k, rank) ==
    /\ k \in DOMAIN rank
    /\ \A x \in DOMAIN rank \ {k} :
            \/ rank[x] < rank[k]
            \/ rank[x] = rank[k] /\ Place(l, k) < Place(l, x)

\* The replacement that resolve_*_for_machine finds is compatible with the
\* machine; it is the requested profile if that is compatible, else one of
\* the same alias, else one of the same trait before any other, and a profile
\* the machine prefers among equals, the first of those in the catalogue.
MatchIsBest ==
    \A s \in Ids("machine"), c \in {"filament", "process"} :
        LET Fits(C, preferred) ==
                C = {} \/ \A n \in Asked(c) :
                    LET Among(name, trait) ==
                            [k \in C |-> Rank(loaded, memo, k, name, trait, preferred)]
                    IN  IsBest(loaded, Match(loaded, memo, s, c, n),
                               Among(RequestedName(loaded, memo, c, n),
                                     RequestedTrait(loaded, memo, c, n)))
        IN  BySlug(loaded, s, "machine") # NoKey
                /\ Resolves(loaded, memo, BySlug(loaded, s, "machine")) =>
                    Fits(Candidates(loaded, memo, s, c), Preferred(loaded, memo, s, c))

\* The directory for the binary holds "one JSON per link in the inheritance
\* chain (leaf + every ancestor)" of the requested profile
\* (slicer.materialize_profiles_for_binary).
ChainFilesAreLinks ==
    \A i \in DOMAIN loaded :
        LET e == loaded[i]
            k == BySlug(loaded, e.sid, e.cat)
            F == ChainFiles(loaded, memo, k)
        IN  Writable(loaded, memo, k) =>
                \A x \in Range(Chain(loaded, k)) :
                    x.name \in DOMAIN F /\ F[x.name] = Nearest(loaded, x)

=============================================================================
