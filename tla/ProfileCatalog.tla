---------------------------- MODULE ProfileCatalog ----------------------------
(***************************************************************************)
(* The user profiles: the files below USER_PROFILES_DIR, the in-memory     *)
(* indexes of app/profiles.py, and the endpoints of app/main.py that       *)
(* import, delete and reload.  load_all_profiles walks the files and       *)
(* rebuilds the indexes without an await, then awaits the dump-profiles    *)
(* process, then stamps the dumped entries onto the indexes                *)
(* (annotate_profile_cache); other handlers run during the await.          *)
(* A profile's setting_id is its name here, which is what an import        *)
(* without one gets, and user profiles do not bear names of vendor ones.   *)
(***************************************************************************)
EXTENDS Integers, Sequences, FiniteSetsExt

CONSTANTS
    Name,           \* the names of user profiles
    Body,           \* the contents a profile may have
    KindOf,         \* the type that _detect_profile_type sees in a body which
                    \*   no import has stamped with a filament_id
    ParentOf,       \* the profile a body inherits: a Name, or one of these
    Vendor,         \*   a profile of a vendor, which is always there
    Nothing,        \*   no profile at all
    Unreadable,     \* what a file holds whose write failed half way
    Importable,     \* the bodies clients send, with the endpoint and the name
    Legacy,         \* likewise, what files older versions may have left
    Request         \* handlers that may be in flight together

Category == {"filament", "process"}

\* The types of profiles; no endpoint imports machines
Kind == Category \cup {"machine"}

ASSUME CatalogAssumption ==
    /\ Unreadable \notin Body
    /\ KindOf \in [Body -> Kind]
    /\ ParentOf \in [Body -> Name \cup {Vendor, Nothing}]
    /\ {Vendor, Nothing} \cap Name = {}
    /\ Importable \subseteq Category \X Name \X Body
    /\ Legacy \subseteq Category \X Name \X Body

VARIABLES
    files,      \* <<directory, name>> -> contents, for the files that exist
    index,      \* _raw_profiles, _type_map of "User::name", by name
    extra,      \* category of the keys "::name" that annotation synthesized
    stamp,      \* raw["_manifest"] of the keys <<"user", n>>, <<"bundle", n>>
    load,       \* handlers in load_all_profiles -> how far they are
    settled,    \* history: the last walk belongs to a load that ran alone
                \*   and has stamped its dump
    behind      \* history: names a write of which failed since the last walk

catalog == <<index, extra, stamp>>
vars == <<files, catalog, load, settled, behind>>

Content == [cat : Kind, body : Body \cup {Unreadable}]

\* What the walk takes an imported body for: a filament import always has its
\* filament_id stamped, a process import is kept as it came
Detected(c, b) == IF c = "filament" THEN "filament" ELSE KindOf[b]

Assign(f, x, v) == [y \in DOMAIN f \cup {x} |-> IF y = x THEN v ELSE f[y]]

Without(f, S) == [x \in DOMAIN f \ S |-> f[x]]

-----------------------------------------------------------------------------
(* The directory *)

\* "root" is the legacy flat layout, whose file names carry no category
BaseDir(c) == IF c = "filament" THEN "filament/base" ELSE "process/base"

\* os.walk yields a directory before its subdirectories, those sorted
WalkOrder == <<"root", "filament", "filament/base", "process", "process/base">>

Directory == {WalkOrder[i] : i \in 1..Len(WalkOrder)}

Readable(fs, p) == p \in DOMAIN fs /\ fs[p].body # Unreadable

\* Where the files of n lie that the walk can read, as places of WalkOrder
Seen(fs, n) == {i \in 1..Len(WalkOrder) : Readable(fs, <<WalkOrder[i], n>>)}

\* _load_user_profiles: of the files of one name, whatever their category,
\* the one walked last is indexed
Walk(fs) ==
    [n \in {m \in Name : Seen(fs, m) # {}} |-> fs[<<WalkOrder[Max(Seen(fs, n))], n>>]]

\* MUTANT of Lookup: takes the base/ of filaments for every category
LookupFilamentBase(c) == <<c, "filament/base", "root">>

\* _find_existing_user_profile looks here, in this order
Lookup(c) == <<c, BaseDir(c), "root">>

Found(c, n) == {i \in 1..3 : <<Lookup(c)[i], n>> \in DOMAIN files}

Existing(c, n) == <<Lookup(c)[Min(Found(c, n))], n>>

-----------------------------------------------------------------------------
(* dump-profiles and annotate_profile_cache *)

\* The binary reads the category's directory and its base/, not the root
Bodies(fs, c, n) ==
    {fs[p].body : p \in {q \in {<<c, n>>, <<BaseDir(c), n>>} : Readable(fs, q)}}

Manifest == UNION {[S -> Body] : S \in SUBSET (Category \X Name)}

\* A body can be loaded before those it inherits by name are: at once, if its
\* parent is no user profile, and surely if the parent lies in base/, which is
\* read first
LoadsFor(fs, c, b) ==
    ParentOf[b] \notin Name \/ Readable(fs, <<BaseDir(c), ParentOf[b]>>)

\* No profiles of the manifest m inherit each other in a circle
Grounded(m) ==
    \A T \in SUBSET DOMAIN m : T # {} => \E k \in T : <<k[1], ParentOf[m[k]]>> \notin T

\* MUTANT of Manifests: a profile is loaded whether its parent is or not
ManifestsOfAll(fs) ==
    LET here == {k \in Category \X Name : Bodies(fs, k[1], k[2]) # {}}
    IN {m \in [here -> Body] : \A k \in here : m[k] \in Bodies(fs, k[1], k[2])}

\* Its manifests: at most one entry for each category and name, from either
\* directory and whatever type the file is of.  A profile whose parent is not
\* loaded when its turn comes is dropped; the turns in one directory are the
\* library's choice.
Manifests(fs) ==
    LET here == {k \in Category \X Name : Bodies(fs, k[1], k[2]) # {}}
    IN UNION {{m \in [S -> Body] :
                  /\ \A k \in S :
                        /\ m[k] \in Bodies(fs, k[1], k[2])
                        /\ ParentOf[m[k]] \in Name => <<k[1], ParentOf[m[k]]>> \in S
                  /\ Grounded(m)
                  /\ \A k \in here \ S :
                        \A b \in Bodies(fs, k[1], k[2]) : ~LoadsFor(fs, k[1], b)}
              : S \in SUBSET here}

\* MUTANT of KeyOf: the fallback by name ignores the category
KeyOfAny(idx, ex, c, n) ==
    IF n \notin DOMAIN ex /\ n \in DOMAIN idx THEN "user" ELSE "bundle"

\* The key an entry is stamped on.  The manifest names no vendor for a user
\* profile, so the key "::n" is tried first, then the user's, if the category
\* is the same; failing that "::n" is made.
KeyOf(idx, ex, c, n) ==
    IF n \notin DOMAIN ex /\ n \in DOMAIN idx /\ idx[n].cat = c
    THEN "user"
    ELSE "bundle"

\* The entries of one category of the manifest are stamped
Stamped(idx, s, m, c) ==
    LET named   == {n \in Name : <<c, n>> \in DOMAIN m}
        keys    == {<<KeyOf(idx, s.extra, c, n), n>> : n \in named}
        made    == {k[2] : k \in {j \in keys : j[1] = "bundle"}} \ DOMAIN s.extra
    IN [extra |-> [n \in DOMAIN s.extra \cup made |->
                      IF n \in made THEN c ELSE s.extra[n]],
        stamp |-> [k \in DOMAIN s.stamp \cup keys |->
                      IF k \in keys
                      THEN [cat |-> c, body |-> m[<<c, k[2]>>]]
                      ELSE s.stamp[k]]]

Annotated(idx, s, m) == Stamped(idx, Stamped(idx, s, m, "process"), m, "filament")

-----------------------------------------------------------------------------
(* load_all_profiles *)

\* lifespan loads before the first request; older versions left legacy files
Init ==
    /\ \E legacy \in SUBSET ({"root"} \X Name) :
          /\ files \in [legacy -> Content]
          /\ \A p \in legacy : \E c \in Category, b \in Body :
                /\ <<c, p[2], b>> \in Legacy
                /\ files[p] = [cat |-> Detected(c, b), body |-> b]
    /\ index = Walk(files)
    /\ extra = <<>>
    /\ stamp = <<>>
    /\ load = <<>>
    /\ settled = TRUE
    /\ behind = {}

\* MUTANT of StartLoad: the stamped entries of the keys are kept
StartLoadStale(r, fs) ==
    /\ r \notin DOMAIN load
    /\ files' = fs
    /\ index' = Walk(fs)
    /\ extra' = <<>>
    /\ load' = Assign([s \in DOMAIN load |-> [load[s] EXCEPT !.alone = FALSE]], r,
                      [pc |-> "dumping", manifest |-> <<>>, alone |-> load = <<>>])
    /\ settled' = FALSE
    /\ behind' = {}
    /\ UNCHANGED stamp

\* A handler has made the files fs and calls load_all_profiles, up to its await
StartLoad(r, fs) ==
    /\ r \notin DOMAIN load
    /\ files' = fs
    /\ index' = Walk(fs)
    /\ extra' = <<>>
    /\ stamp' = <<>>
    /\ load' = Assign([s \in DOMAIN load |-> [load[s] EXCEPT !.alone = FALSE]], r,
                      [pc |-> "dumping", manifest |-> <<>>, alone |-> load = <<>>])
    /\ settled' = FALSE
    /\ behind' = {}

DumpReads(r) ==
    /\ r \in DOMAIN load /\ load[r].pc = "dumping"
    /\ \E m \in Manifests(files) :
          load' = [load EXCEPT ![r] = [@ EXCEPT !.pc = "dumped", !.manifest = m]]
    /\ UNCHANGED <<files, catalog, settled, behind>>

\* An error envelope, a crash, the timeout: the exception ends the handler and
\* leaves the indexes as the walk made them
DumpFails(r) ==
    /\ r \in DOMAIN load
    /\ load' = Without(load, {r})
    /\ UNCHANGED <<files, catalog, settled, behind>>

Annotate(r) ==
    /\ r \in DOMAIN load /\ load[r].pc = "dumped"
    /\ LET s == Annotated(index, [extra |-> extra, stamp |-> stamp], load[r].manifest)
       IN extra' = s.extra /\ stamp' = s.stamp
    /\ load' = Without(load, {r})
    /\ settled' = load[r].alone
    /\ UNCHANGED <<files, index, behind>>

-----------------------------------------------------------------------------
(* The endpoints *)

\* A profile that inherits goes to the category's directory, others to base/
Target(c, n, b) == <<IF ParentOf[b] = Nothing THEN BaseDir(c) ELSE c, n>>

\* A file of that name and category found elsewhere
Superseded(c, n, target) ==
    IF Found(c, n) = {} THEN {} ELSE {Existing(c, n)} \ {target}

\* _resolve_filament_parent_ref, _resolve_process_parent_ref: a profile of that
\* category and name is indexed, or was synthesized from a manifest
Known(c, n) == (n \in DOMAIN index /\ index[n].cat = c) \/ (n \in DOMAIN extra /\ extra[n] = c)

\* The parent must be known.  (That a filament's chain beyond it must resolve and
\* its filament_id be free, ProfileResolution checks.)
Accepts(c, n, b) ==
    /\ <<c, n, b>> \in Importable
    /\ ParentOf[b] \in Name => Known(c, ParentOf[b])

\* The file is written, and the one it supersedes is removed, if it can be.
\* (If a file exists the client has passed ?replace=true.)
Import(r, c, n, b) ==
    LET target  == Target(c, n, b)
        written == Assign(files, target, [cat |-> Detected(c, b), body |-> b])
    IN /\ Accepts(c, n, b)
       /\ \E removed \in SUBSET Superseded(c, n, target) :
             StartLoad(r, Without(written, removed))

\* json.dump raises, or the process dies, after open has truncated the file
ImportFails(c, n, b) ==
    /\ Accepts(c, n, b)
    /\ files' = Assign(files, Target(c, n, b), [cat |-> c, body |-> Unreadable])
    /\ behind' = behind \cup {n}
    /\ load' = [s \in DOMAIN load |-> [load[s] EXCEPT !.alone = FALSE]]
    /\ settled' = FALSE
    /\ UNCHANGED catalog

\* MUTANT of Delete: the profiles are loaded before the file is removed
DeleteAfterLoad(r, c, n) ==
    /\ Found(c, n) # {}
    /\ r \notin DOMAIN load
    /\ files' = Without(files, {Existing(c, n)})
    /\ index' = Walk(files)
    /\ extra' = <<>>
    /\ stamp' = <<>>
    /\ load' = Assign([s \in DOMAIN load |-> [load[s] EXCEPT !.alone = FALSE]], r,
                      [pc |-> "dumping", manifest |-> <<>>, alone |-> load = <<>>])
    /\ settled' = FALSE
    /\ behind' = {}

Delete(r, c, n) ==
    /\ Found(c, n) # {}
    /\ StartLoad(r, Without(files, {Existing(c, n)}))

Reload(r) == StartLoad(r, files)

\* lifespan loads before it serves; if the dump fails it does not serve
Restart ==
    /\ index' = Walk(files)
    /\ \E m \in Manifests(files) :
          LET s == Annotated(Walk(files), [extra |-> <<>>, stamp |-> <<>>], m)
          IN extra' = s.extra /\ stamp' = s.stamp
    /\ load' = <<>>
    /\ settled' = TRUE
    /\ behind' = {}
    /\ UNCHANGED files

Next ==
    \/ \E r \in Request :
          \/ \E c \in Category, n \in Name :
                \/ \E b \in Body : Import(r, c, n, b)
                \/ Delete(r, c, n)
          \/ Reload(r)
          \/ DumpReads(r)
          \/ DumpFails(r)
          \/ Annotate(r)
    \/ \E c \in Category, n \in Name, b \in Body : ImportFails(c, n, b)
    \/ Restart

Spec == Init /\ [][Next]_vars

-----------------------------------------------------------------------------
(* Properties *)

KeyCategory(k) == IF k[1] = "user" THEN index[k[2]].cat ELSE extra[k[2]]

\* What get_process_profiles and get_filament_profiles return
Listed == {[cat |-> KeyCategory(k), name |-> k[2], entry |-> stamp[k]] : k \in DOMAIN stamp}

\* Types, and every stamped key is an indexed one.
CatalogTypeOK ==
    /\ DOMAIN files \subseteq Directory \X Name
    /\ \A p \in DOMAIN files : files[p] \in Content
    /\ DOMAIN index \subseteq Name
    /\ \A n \in DOMAIN index : index[n] \in Content
    /\ DOMAIN extra \subseteq Name
    /\ \A n \in DOMAIN extra : extra[n] \in Category
    /\ \A k \in DOMAIN stamp :
          /\ k \in ({"user"} \X DOMAIN index) \cup ({"bundle"} \X DOMAIN extra)
          /\ stamp[k] \in [cat : Category, body : Body]
    /\ DOMAIN load \subseteq Request
    /\ \A r \in DOMAIN load :
          load[r] \in [pc : {"dumping", "dumped"}, manifest : Manifest, alone : BOOLEAN]
    /\ settled \in BOOLEAN
    /\ behind \subseteq Name

\* Slicing always resolves against the files as they are: the index of user
\* profiles mirrors the directory in every state, however many loads, imports
\* and deletes are suspended, except for names whose last write failed.
IndexMirrorsFiles ==
    \A n \in Name \ behind :
        /\ n \in DOMAIN index <=> n \in DOMAIN Walk(files)
        /\ n \in DOMAIN index => index[n] = Walk(files)[n]

SharedName(n) == \A c \in Category : Bodies(files, c, n) # {}

\* Each file of the name that lies in a category's directory is of that category
WellFiled(n) ==
    \A c \in Category, p \in DOMAIN files :
        p \in {<<c, n>>, <<BaseDir(c), n>>} => files[p].cat = c

\* Once a load has run with no other beside it, the listings hold only profiles
\* of the typed directories, each under its own category and with its present
\* contents, even where two categories use one name; and all of them, except
\* those whose user parent was gone or came after them.  (A process import that
\* turns out to be of another type may be listed under either.)
ListingCurrent ==
    settled => \A n \in Name : WellFiled(n) =>
        /\ \A l \in Listed : l.name = n =>
              l.entry.cat = l.cat /\ l.entry.body \in Bodies(files, l.cat, n)
        /\ \A c \in Category :
              (\E b \in Bodies(files, c, n) : LoadsFor(files, c, b)) =>
                  \E l \in Listed : l.cat = c /\ l.name = n

Resolvable(c, n) == n \in DOMAIN index /\ index[n].cat = c

Unambiguous(n) == WellFiled(n) /\ ~SharedName(n)

\* And whatever is listed can be sliced with: it is found in its category, and
\* so is the user profile that the file it resolves to inherits, unless both
\* categories have a file of the name or one lies in the wrong directory.
ListedResolves ==
    settled => \A l \in Listed : Unambiguous(l.name) =>
        /\ Resolvable(l.cat, l.name)
        /\ LET parent == ParentOf[index[l.name].body]
           IN parent \in Name /\ Unambiguous(parent) => Resolvable(l.cat, parent)

\* No import, of either category, in either layout, with or without the removal
\* of what it supersedes, takes away a profile of the typed directories: it goes
\* only when it is deleted itself, or when its own file was half written.  (A
\* legacy file, whose name carries no category, has no such protection.)
ProfilesKept ==
    [][\A c \in Category, n \in Name :
        (Bodies(files, c, n) # {} /\ Bodies(files', c, n) = {}) =>
            n \in behind' \/ \E r \in Request : Delete(r, c, n)]_vars

\* What the tests of the delete endpoints assert: when its request is over, a
\* profile whose file was deleted is not listed any more.
DeletedIsUnlisted ==
    load = <<>> => \A l \in Listed :
        \E p \in DOMAIN files : p[2] = l.name /\ p[1] \in {l.cat, BaseDir(l.cat), "root"}

=============================================================================
