------------------------ MODULE ProfileCatalogProofs ------------------------
(***************************************************************************)
(* Proofs about ProfileCatalog, for any names, bodies and requests: every  *)
(* variable keeps its type, the index mirrors the files, no profile is     *)
(* lost to an import, and once a load has run with no other beside it the  *)
(* listings are those of the files and resolve.                            *)
(***************************************************************************)
EXTENDS ProfileCatalog, TLAPS

-----------------------------------------------------------------------------
(* The walk *)

\* The walk visits five directories.
LEMMA Places == Len(WalkOrder) = 5
  BY DEF WalkOrder

\* The last of some places is one of them, and after all others.
LEMMA LastPlace ==
    ASSUME NEW S \in SUBSET (1..5), S # {}
    PROVE  Max(S) \in S /\ \A y \in S : Max(S) >= y
<1>1. \E x \in S : \A y \in S : x >= y
  <2>1. CASE 5 \in S
    BY <2>1
  <2>2. CASE 5 \notin S /\ 4 \in S
    BY <2>2
  <2>3. CASE 5 \notin S /\ 4 \notin S /\ 3 \in S
    BY <2>3
  <2>4. CASE 5 \notin S /\ 4 \notin S /\ 3 \notin S /\ 2 \in S
    BY <2>4
  <2>5. CASE 5 \notin S /\ 4 \notin S /\ 3 \notin S /\ 2 \notin S
    <3>1. \A y \in S : y = 1
      BY <2>5
    <3>2. 1 \in S
      BY <3>1
    <3> QED BY <3>1, <3>2
  <2> QED BY <2>1, <2>2, <2>3, <2>4, <2>5
<1> QED BY <1>1 DEF Max

\* A name is indexed with the contents of one of its readable files.
LEMMA WalkFinds ==
    ASSUME NEW fs, NEW n \in DOMAIN Walk(fs)
    PROVE  /\ n \in Name
           /\ \E i \in 1..5 :
                 /\ Walk(fs)[n] = fs[<<WalkOrder[i], n>>]
                 /\ <<WalkOrder[i], n>> \in DOMAIN fs
                 /\ fs[<<WalkOrder[i], n>>].body # Unreadable
<1>1. n \in Name /\ Seen(fs, n) # {}
  BY DEF Walk
<1>2. Seen(fs, n) \in SUBSET (1..5)
  BY Places DEF Seen
<1>3. Max(Seen(fs, n)) \in Seen(fs, n)
  BY <1>1, <1>2, LastPlace
<1>4. Walk(fs)[n] = fs[<<WalkOrder[Max(Seen(fs, n))], n>>]
  BY <1>1 DEF Walk
<1>5. Readable(fs, <<WalkOrder[Max(Seen(fs, n))], n>>)
  BY <1>3 DEF Seen
<1> QED BY <1>1, <1>2, <1>3, <1>4, <1>5 DEF Readable

\* What the walk makes of a name depends on the files of that name alone.
LEMMA WalkIsLocal ==
    ASSUME NEW f, NEW g, NEW n \in Name,
           \A i \in 1..5 :
              /\ <<WalkOrder[i], n>> \in DOMAIN f <=> <<WalkOrder[i], n>> \in DOMAIN g
              /\ <<WalkOrder[i], n>> \in DOMAIN f =>
                    f[<<WalkOrder[i], n>>] = g[<<WalkOrder[i], n>>]
    PROVE  /\ n \in DOMAIN Walk(f) <=> n \in DOMAIN Walk(g)
           /\ n \in DOMAIN Walk(f) => Walk(f)[n] = Walk(g)[n]
<1>1. \A i \in 1..5 : Readable(f, <<WalkOrder[i], n>>) <=> Readable(g, <<WalkOrder[i], n>>)
  BY DEF Readable
<1>2. Seen(f, n) = Seen(g, n) /\ Seen(f, n) \in SUBSET (1..5)
  BY <1>1, Places DEF Seen
<1>3. n \in DOMAIN Walk(f) <=> n \in DOMAIN Walk(g)
  BY <1>2 DEF Walk
<1>4. ASSUME n \in DOMAIN Walk(f)
      PROVE  Walk(f)[n] = Walk(g)[n]
  <2> DEFINE p == <<WalkOrder[Max(Seen(f, n))], n>>
  <2>1. Seen(f, n) # {}
    BY <1>4 DEF Walk
  <2>2. Max(Seen(f, n)) \in Seen(f, n)
    BY <1>2, <2>1, LastPlace
  <2>3. p \in DOMAIN f
    BY <2>2 DEF Seen, Readable
  <2>4. Walk(f)[n] = f[p] /\ Walk(g)[n] = g[p]
    BY <1>2, <1>3, <1>4 DEF Walk
  <2>5. f[p] = g[p]
    BY <1>2, <2>2, <2>3
  <2> QED BY <2>4, <2>5
<1> QED BY <1>3, <1>4

-----------------------------------------------------------------------------
(* The index mirrors the files *)

\* Every step keeps the index the mirror of the files.
LEMMA StepMirrors ==
    ASSUME IndexMirrorsFiles, [Next]_vars
    PROVE  IndexMirrorsFiles'
<1>1. ASSUME NEW r, NEW fs, StartLoad(r, fs)
      PROVE  IndexMirrorsFiles'
  BY <1>1 DEF StartLoad, IndexMirrorsFiles
<1>2. ASSUME files' = files, index' = index, behind' = behind
      PROVE  IndexMirrorsFiles'
  BY <1>2 DEF IndexMirrorsFiles, Walk, Seen, Readable
<1>3. ASSUME NEW c \in Category, NEW n \in Name, NEW b \in Body,
             ImportFails(c, n, b)
      PROVE  IndexMirrorsFiles'
  <2> DEFINE t == Target(c, n, b)
             u == [cat |-> c, body |-> Unreadable]
  <2>1. files' = Assign(files, t, u) /\ index' = index /\ behind' = behind \cup {n}
    BY <1>3 DEF ImportFails, catalog
  <2>2. ASSUME NEW m \in Name \ behind'
        PROVE  /\ m \in DOMAIN Walk(files) <=> m \in DOMAIN Walk(files')
               /\ m \in DOMAIN Walk(files) => Walk(files)[m] = Walk(files')[m]
    <3>1. m # n /\ m \in Name
      BY <2>1, <2>2
    <3>2. \A i \in 1..5 : <<WalkOrder[i], m>> # t
      BY <3>1 DEF Target
    <3>3. \A i \in 1..5 :
             /\ <<WalkOrder[i], m>> \in DOMAIN files <=> <<WalkOrder[i], m>> \in DOMAIN files'
             /\ <<WalkOrder[i], m>> \in DOMAIN files =>
                   files[<<WalkOrder[i], m>>] = files'[<<WalkOrder[i], m>>]
      <4> HIDE DEF t, u
      <4> QED BY <2>1, <3>2 DEF Assign
    <3> QED BY <3>1, <3>3, WalkIsLocal
  <2> QED BY <2>1, <2>2 DEF IndexMirrorsFiles
<1>4. ASSUME Restart
      PROVE  IndexMirrorsFiles'
  BY <1>4 DEF Restart, IndexMirrorsFiles
<1>5. ASSUME NEW r \in Request, NEW c \in Category, NEW n \in Name,
             NEW b \in Body, Import(r, c, n, b)
      PROVE  IndexMirrorsFiles'
  BY <1>1, <1>5 DEF Import
<1>6. ASSUME NEW r \in Request, NEW c \in Category, NEW n \in Name, Delete(r, c, n)
      PROVE  IndexMirrorsFiles'
  BY <1>1, <1>6 DEF Delete
<1>7. ASSUME NEW r \in Request, Reload(r)
      PROVE  IndexMirrorsFiles'
  BY <1>1, <1>7 DEF Reload
<1>8. ASSUME NEW r \in Request, DumpReads(r) \/ DumpFails(r) \/ Annotate(r)
      PROVE  IndexMirrorsFiles'
  BY <1>2, <1>8 DEF DumpReads, DumpFails, Annotate, catalog
<1>9. CASE UNCHANGED vars
  BY <1>2, <1>9 DEF vars, catalog
<1> QED BY <1>3, <1>4, <1>5, <1>6, <1>7, <1>8, <1>9 DEF Next

\* In every state, and however many handlers are suspended in a load, the index
\* that slicing resolves against is the one the files on disk give.
THEOREM IndexAlwaysMirrors == Spec => []IndexMirrorsFiles
<1>1. Init => IndexMirrorsFiles
  BY DEF Init, IndexMirrorsFiles
<1>2. IndexMirrorsFiles /\ [Next]_vars => IndexMirrorsFiles'
  BY StepMirrors
<1> QED BY <1>1, <1>2, PTL DEF Spec

-----------------------------------------------------------------------------
(* Types *)

FilesTyped(fs) ==
    DOMAIN fs \subseteq Directory \X Name /\ \A p \in DOMAIN fs : fs[p] \in Content

IndexTyped(idx) ==
    DOMAIN idx \subseteq Name /\ \A n \in DOMAIN idx : idx[n] \in Content

\* What is stamped lies under keys that exist.
StampsTyped(idx, s) ==
    /\ DOMAIN s.extra \subseteq Name
    /\ \A n \in DOMAIN s.extra : s.extra[n] \in Category
    /\ \A k \in DOMAIN s.stamp :
          /\ k \in ({"user"} \X DOMAIN idx) \cup ({"bundle"} \X DOMAIN s.extra)
          /\ s.stamp[k] \in [cat : Category, body : Body]

JobType == [pc : {"dumping", "dumped"}, manifest : Manifest, alone : BOOLEAN]

\* A walk indexes names and contents.
LEMMA WalkTyped ==
    ASSUME NEW fs, FilesTyped(fs)
    PROVE  IndexTyped(Walk(fs))
<1>1. \A n \in DOMAIN Walk(fs) : n \in Name /\ Walk(fs)[n] \in Content
  BY WalkFinds DEF FilesTyped
<1> QED BY <1>1 DEF IndexTyped

\* An import is written to one of the directories.
LEMMA TargetTyped ==
    ASSUME NEW c \in Category, NEW n \in Name, NEW b
    PROVE  Target(c, n, b) \in Directory \X Name
<1>1. {WalkOrder[2], WalkOrder[3], WalkOrder[4], WalkOrder[5]} \subseteq Directory
  BY Places DEF Directory
<1>2. /\ WalkOrder[2] = "filament" /\ WalkOrder[3] = "filament/base"
      /\ WalkOrder[4] = "process" /\ WalkOrder[5] = "process/base"
  BY DEF WalkOrder
<1> QED BY <1>1, <1>2 DEF Target, BaseDir, Category

\* Writing or removing profiles leaves typed files.
LEMMA WrittenTyped ==
    ASSUME NEW fs, FilesTyped(fs), NEW c \in Category, NEW n \in Name, NEW b,
           NEW u \in Content, NEW S
    PROVE  /\ FilesTyped(Assign(fs, Target(c, n, b), u))
           /\ FilesTyped(Without(fs, S))
<1>1. FilesTyped(Without(fs, S))
  BY DEF FilesTyped, Without
<1>2. FilesTyped(Assign(fs, Target(c, n, b), u))
  BY TargetTyped DEF FilesTyped, Assign
<1> QED BY <1>1, <1>2

\* What an import writes is a content.
LEMMA WrittenContent ==
    ASSUME NEW c \in Category, NEW b \in Body
    PROVE  [cat |-> Detected(c, b), body |-> b] \in Content /\ [cat |-> c, body |-> Unreadable] \in Content
<1>1. KindOf[b] \in Kind /\ c \in Kind /\ "filament" \in Kind
  BY CatalogAssumption DEF Kind, Category
<1> QED BY <1>1 DEF Detected, Content

\* What dump-profiles lists is a manifest.
LEMMA ManifestsTyped ==
    ASSUME NEW fs, FilesTyped(fs), NEW m \in Manifests(fs)
    PROVE  m \in Manifest
<1> DEFINE here == {k \in Category \X Name : Bodies(fs, k[1], k[2]) # {}}
<1>1. PICK S \in SUBSET here : m \in [S -> Body]
  BY DEF Manifests
<1>2. S \in SUBSET (Category \X Name)
  OBVIOUS
<1> HIDE DEF here
<1> QED BY <1>1, <1>2 DEF Manifest

\* Stamping the entries of one category keeps the keys and their entries typed.
LEMMA StampedTyped ==
    ASSUME NEW idx, NEW s, StampsTyped(idx, s), NEW m \in Manifest, NEW c \in Category
    PROVE  StampsTyped(idx, Stamped(idx, s, m, c))
<1> DEFINE named == {n \in Name : <<c, n>> \in DOMAIN m}
           keys  == {<<KeyOf(idx, s.extra, c, n), n>> : n \in named}
           made  == {k[2] : k \in {j \in keys : j[1] = "bundle"}} \ DOMAIN s.extra
           z     == Stamped(idx, s, m, c)
<1>1. \A k \in DOMAIN m : m[k] \in Body
  BY DEF Manifest
<1>2. \A n \in named : KeyOf(idx, s.extra, c, n) = "user" => n \in DOMAIN idx
  BY DEF KeyOf
<1>3. \A n \in named : KeyOf(idx, s.extra, c, n) \in {"user", "bundle"}
  BY DEF KeyOf
<1>4. made \subseteq Name
  <2>1. ASSUME NEW k \in keys PROVE k[2] \in Name
    <3>1. PICK n \in named : k = <<KeyOf(idx, s.extra, c, n), n>>
      BY <2>1
    <3> QED BY <3>1
  <2> HIDE DEF keys
  <2> QED BY <2>1
<1>5. z.extra = [n \in DOMAIN s.extra \cup made |-> IF n \in made THEN c ELSE s.extra[n]]
  BY DEF Stamped
<1>6. z.stamp = [k \in DOMAIN s.stamp \cup keys |->
                   IF k \in keys THEN [cat |-> c, body |-> m[<<c, k[2]>>]] ELSE s.stamp[k]]
  BY DEF Stamped
<1>7. ASSUME NEW k \in keys
      PROVE  /\ k \in ({"user"} \X DOMAIN idx) \cup ({"bundle"} \X DOMAIN z.extra)
             /\ [cat |-> c, body |-> m[<<c, k[2]>>]] \in [cat : Category, body : Body]
  <2>1. PICK n \in named : k = <<KeyOf(idx, s.extra, c, n), n>>
    BY <1>7
  <2>2. KeyOf(idx, s.extra, c, n) = "bundle" => n \in DOMAIN z.extra
    BY <1>5, <1>7, <2>1
  <2>3. k[2] = n /\ <<c, n>> \in DOMAIN m
    BY <2>1
  <2> HIDE DEF named, keys, made, z
  <2> QED BY <1>1, <1>2, <1>3, <2>1, <2>2, <2>3
<1>8. DOMAIN z.extra \subseteq Name /\ \A n \in DOMAIN z.extra : z.extra[n] \in Category
  <2> HIDE DEF made, z
  <2> QED BY <1>4, <1>5 DEF StampsTyped
<1>9. ASSUME NEW k \in DOMAIN z.stamp
      PROVE  /\ k \in ({"user"} \X DOMAIN idx) \cup ({"bundle"} \X DOMAIN z.extra)
             /\ z.stamp[k] \in [cat : Category, body : Body]
  <2> HIDE DEF named, keys, made, z
  <2>1. CASE k \in keys
    BY <1>6, <1>7, <1>9, <2>1
  <2>2. CASE k \notin keys
    BY <1>5, <1>6, <1>9, <2>2 DEF StampsTyped
  <2> QED BY <2>1, <2>2
<1> HIDE DEF z
<1>10. StampsTyped(idx, z)
  BY <1>8, <1>9 DEF StampsTyped
<1> QED BY <1>10 DEF z

\* Annotating with a manifest keeps the types of stamps and keys.
LEMMA AnnotatedTyped ==
    ASSUME NEW idx, NEW s, StampsTyped(idx, s), NEW m \in Manifest
    PROVE  StampsTyped(idx, Annotated(idx, s, m))
<1>1. StampsTyped(idx, Stamped(idx, s, m, "process"))
  BY StampedTyped DEF Category
<1> QED BY <1>1, StampedTyped DEF Annotated, Category

\* The type invariant, by its parts.
LEMMA TypeParts ==
    CatalogTypeOK <=> /\ FilesTyped(files)
                      /\ IndexTyped(index)
                      /\ StampsTyped(index, [extra |-> extra, stamp |-> stamp])
                      /\ DOMAIN load \subseteq Request
                      /\ \A r \in DOMAIN load : load[r] \in JobType
                      /\ settled \in BOOLEAN
                      /\ behind \subseteq Name
  BY DEF CatalogTypeOK, FilesTyped, IndexTyped, StampsTyped, JobType

\* A walk starts from no stamps and no synthesized keys.
LEMMA NothingTyped == ASSUME NEW idx PROVE StampsTyped(idx, [extra |-> <<>>, stamp |-> <<>>])
  BY DEF StampsTyped

\* The service starts with legacy files only, indexed.
LEMMA InitTyped == Init => CatalogTypeOK
<1> SUFFICES ASSUME Init PROVE CatalogTypeOK
  OBVIOUS
<1>1. FilesTyped(files)
  <2>1. WalkOrder[1] \in Directory /\ WalkOrder[1] = "root"
    BY Places DEF Directory, WalkOrder
  <2>2. PICK legacy \in SUBSET ({"root"} \X Name) :
           files \in [legacy -> Content]
    BY DEF Init
  <2> QED BY <2>1, <2>2 DEF FilesTyped
<1>2. IndexTyped(index)
  BY <1>1, WalkTyped DEF Init
<1>3. StampsTyped(index, [extra |-> extra, stamp |-> stamp])
  BY NothingTyped DEF Init
<1>4. DOMAIN load \subseteq Request /\ (\A r \in DOMAIN load : load[r] \in JobType)
      /\ settled \in BOOLEAN /\ behind \subseteq Name
  BY DEF Init
<1> QED BY <1>1, <1>2, <1>3, <1>4, TypeParts

\* A load that starts from typed files keeps the types.
LEMMA StartLoadTyped ==
    ASSUME CatalogTypeOK, NEW r \in Request, NEW fs, FilesTyped(fs), StartLoad(r, fs)
    PROVE  CatalogTypeOK'
<1>1. FilesTyped(files')
  BY DEF StartLoad
<1>2. IndexTyped(index')
  BY WalkTyped DEF StartLoad
<1>3. StampsTyped(index', [extra |-> extra', stamp |-> stamp'])
  BY NothingTyped DEF StartLoad
<1>4. <<>> \in Manifest
  <2>1. <<>> \in [{} -> Body]
    OBVIOUS
  <2> QED BY <2>1 DEF Manifest
<1>5. \A j \in JobType : [j EXCEPT !.alone = FALSE] \in JobType
  BY DEF JobType
<1>6. [pc |-> "dumping", manifest |-> <<>>, alone |-> load = <<>>] \in JobType
  BY <1>4 DEF JobType
<1>7. DOMAIN load' \subseteq Request /\ \A s \in DOMAIN load' : load'[s] \in JobType
  BY <1>5, <1>6, TypeParts DEF StartLoad, Assign
<1>8. settled' \in BOOLEAN /\ behind' \subseteq Name
  BY DEF StartLoad
<1> QED BY <1>1, <1>2, <1>3, <1>7, <1>8 DEF CatalogTypeOK, FilesTyped, IndexTyped, StampsTyped, JobType

\* Every step keeps the types.
LEMMA StepTyped ==
    ASSUME CatalogTypeOK, [Next]_vars
    PROVE  CatalogTypeOK'
<1> USE TypeParts
<1>1. ASSUME NEW r \in Request, NEW c \in Category, NEW n \in Name,
             NEW b \in Body, Import(r, c, n, b)
      PROVE  CatalogTypeOK'
  <2> DEFINE written == Assign(files, Target(c, n, b), [cat |-> Detected(c, b), body |-> b])
  <2>1. PICK removed : StartLoad(r, Without(written, removed))
    BY <1>1 DEF Import
  <2>2. FilesTyped(written)
    BY WrittenTyped, WrittenContent
  <2> HIDE DEF written
  <2>3. FilesTyped(Without(written, removed))
    BY <2>2 DEF FilesTyped, Without
  <2> QED BY <2>1, <2>3, StartLoadTyped
<1>2. ASSUME NEW r \in Request, NEW c \in Category, NEW n \in Name, Delete(r, c, n)
      PROVE  CatalogTypeOK'
  <2>1. FilesTyped(Without(files, {Existing(c, n)}))
    BY DEF FilesTyped, Without
  <2> QED BY <1>2, <2>1, StartLoadTyped DEF Delete
<1>3. ASSUME NEW r \in Request, Reload(r)
      PROVE  CatalogTypeOK'
  BY <1>3, StartLoadTyped DEF Reload
<1>4. ASSUME NEW r \in Request, DumpReads(r)
      PROVE  CatalogTypeOK'
  <2>1. PICK m \in Manifests(files) :
           load' = [load EXCEPT ![r] = [@ EXCEPT !.pc = "dumped", !.manifest = m]]
    BY <1>4 DEF DumpReads
  <2>2. m \in Manifest
    BY ManifestsTyped
  <2>3. \A j \in JobType : [j EXCEPT !.pc = "dumped", !.manifest = m] \in JobType
    BY <2>2 DEF JobType
  <2>4. DOMAIN load' \subseteq Request /\ \A s \in DOMAIN load' : load'[s] \in JobType
    BY <1>4, <2>1, <2>3 DEF DumpReads
  <2> QED BY <1>4, <2>4 DEF DumpReads, catalog, CatalogTypeOK, JobType
<1>5. ASSUME NEW r \in Request, DumpFails(r)
      PROVE  CatalogTypeOK'
  BY <1>5 DEF DumpFails, catalog, CatalogTypeOK, Without
<1>6. ASSUME NEW r \in Request, Annotate(r)
      PROVE  CatalogTypeOK'
  <2> DEFINE s == Annotated(index, [extra |-> extra, stamp |-> stamp], load[r].manifest)
  <2>1. load[r] \in JobType /\ load[r].manifest \in Manifest /\ load[r].alone \in BOOLEAN
    BY <1>6 DEF Annotate, JobType
  <2>2. StampsTyped(index, s)
    BY <2>1, AnnotatedTyped
  <2>3. extra' = s.extra /\ stamp' = s.stamp /\ index' = index
    BY <1>6 DEF Annotate
  <2> HIDE DEF s
  <2>4. DOMAIN load' \subseteq Request /\ (\A q \in DOMAIN load' : load'[q] \in JobType)
        /\ settled' \in BOOLEAN
    BY <1>6, <2>1 DEF Annotate, Without
  <2> QED
    BY <1>6, <2>2, <2>3, <2>4 DEF Annotate, CatalogTypeOK, StampsTyped, JobType
<1>7. ASSUME NEW c \in Category, NEW n \in Name, NEW b \in Body,
             ImportFails(c, n, b)
      PROVE  CatalogTypeOK'
  <2>1. FilesTyped(files')
    BY <1>7, WrittenTyped, WrittenContent DEF ImportFails
  <2>2. \A j \in JobType : [j EXCEPT !.alone = FALSE] \in JobType
    BY DEF JobType
  <2>3. DOMAIN load' \subseteq Request /\ \A s \in DOMAIN load' : load'[s] \in JobType
    BY <1>7, <2>2 DEF ImportFails
  <2> QED
    BY <1>7, <2>1, <2>3 DEF ImportFails, catalog, CatalogTypeOK, FilesTyped, JobType
<1>8. ASSUME Restart
      PROVE  CatalogTypeOK'
  <2>1. IndexTyped(Walk(files))
    BY WalkTyped
  <2>2. PICK m \in Manifests(files) :
           LET s == Annotated(Walk(files), [extra |-> <<>>, stamp |-> <<>>], m)
           IN extra' = s.extra /\ stamp' = s.stamp
    BY <1>8 DEF Restart
  <2> DEFINE s == Annotated(Walk(files), [extra |-> <<>>, stamp |-> <<>>], m)
  <2>3. StampsTyped(Walk(files), s)
    BY NothingTyped, ManifestsTyped, AnnotatedTyped
  <2>4. extra' = s.extra /\ stamp' = s.stamp /\ index' = Walk(files)
    BY <1>8, <2>2 DEF Restart
  <2> HIDE DEF s
  <2> QED
    BY <1>8, <2>1, <2>3, <2>4 DEF Restart, CatalogTypeOK, IndexTyped, StampsTyped
<1>9. CASE UNCHANGED vars
  BY <1>9 DEF vars, catalog, CatalogTypeOK
<1> QED BY <1>1, <1>2, <1>3, <1>4, <1>5, <1>6, <1>7, <1>8, <1>9 DEF Next

\* Every variable of the catalogue keeps its type, and no entry is stamped on a
\* key that the indexes do not have.
THEOREM CatalogTypes == Spec => []CatalogTypeOK
<1>1. CatalogTypeOK /\ [Next]_vars => CatalogTypeOK'
  BY StepTyped
<1> QED BY <1>1, InitTyped, PTL DEF Spec

-----------------------------------------------------------------------------
(* No profile is lost *)

Typed(c, n) == {<<c, n>>, <<BaseDir(c), n>>}

\* The file found for a profile is one of its own category, or a legacy one.
LEMMA ExistingPlace ==
    ASSUME NEW c \in Category, NEW n \in Name, Found(c, n) # {}
    PROVE  Existing(c, n) \in Typed(c, n) \cup {<<"root", n>>}
<1>1. Found(c, n) \in SUBSET (1..3)
  BY DEF Found
<1>2. \E x \in Found(c, n) : \A y \in Found(c, n) : x <= y
  <2>1. CASE 1 \in Found(c, n)
    BY <1>1, <2>1
  <2>2. CASE 1 \notin Found(c, n) /\ 2 \in Found(c, n)
    BY <1>1, <2>2
  <2>3. CASE 1 \notin Found(c, n) /\ 2 \notin Found(c, n)
    <3>1. \A y \in Found(c, n) : y = 3
      BY <1>1, <2>3
    <3> QED BY <3>1
  <2> QED BY <2>1, <2>2, <2>3
<1>3. Min(Found(c, n)) \in 1..3
  BY <1>1, <1>2 DEF Min
<1>4. Lookup(c)[1] = c /\ Lookup(c)[2] = BaseDir(c) /\ Lookup(c)[3] = "root"
  BY DEF Lookup
<1>5. Lookup(c)[Min(Found(c, n))] \in {c, BaseDir(c), "root"}
  BY <1>3, <1>4
<1> QED BY <1>5 DEF Existing, Typed

\* The directories of the two categories are apart, and apart from the root.
LEMMA TypedApart ==
    ASSUME NEW c \in Category, NEW d \in Category, NEW m, NEW n,
           NEW p \in Typed(c, n), p \in Typed(d, m) \cup {<<"root", m>>}
    PROVE  c = d /\ n = m
  BY DEF Category, Typed, BaseDir

\* A category's profile of a name stays while its readable files do.
LEMMA BodiesStay ==
    ASSUME NEW c \in Category, NEW n \in Name, NEW fs,
           Bodies(files, c, n) # {},
           \A p \in Typed(c, n) : Readable(files, p) => Readable(fs, p)
    PROVE  Bodies(fs, c, n) # {}
  BY DEF Bodies, Typed

\* A step takes a profile away only by deleting it or by a failed write.
LEMMA StepKeeps == ASSUME [Next]_vars PROVE [
    \A c \in Category, n \in Name :
        (Bodies(files, c, n) # {} /\ Bodies(files', c, n) = {}) =>
            n \in behind' \/ \E r \in Request : Delete(r, c, n)]_vars
<1> SUFFICES ASSUME Next, NEW c \in Category, NEW n \in Name,
                    Bodies(files, c, n) # {}, Bodies(files', c, n) = {}
             PROVE  n \in behind' \/ \E r \in Request : Delete(r, c, n)
  OBVIOUS
<1>1. ASSUME files' = files
      PROVE  FALSE
  BY <1>1
<1>2. ASSUME NEW r \in Request, NEW d \in Category, NEW m \in Name,
             NEW b \in Body, Import(r, d, m, b)
      PROVE  FALSE
  <2> DEFINE t == Target(d, m, b)
             written == Assign(files, t, [cat |-> Detected(d, b), body |-> b])
  <2>1. PICK removed \in SUBSET Superseded(d, m, t) : files' = Without(written, removed)
    BY <1>2 DEF Import, StartLoad
  <2>2. t \in Typed(d, m)
    BY DEF Target, Typed
  <2>3. \A p \in removed : p \in Typed(d, m) \cup {<<"root", m>>} /\ p # t
    BY ExistingPlace DEF Superseded
  <2>4. Readable(files', t)
    <3>1. t \in DOMAIN written /\ written[t].body = b /\ b # Unreadable
      BY CatalogAssumption DEF Assign
    <3>2. t \in DOMAIN files' /\ files'[t] = written[t]
      <4> HIDE DEF t, written
      <4> QED BY <2>1, <2>3, <3>1 DEF Without
    <3> QED BY <3>1, <3>2 DEF Readable
  <2>5. CASE c = d /\ n = m
    <3> HIDE DEF t, written
    <3> QED BY <2>2, <2>4, <2>5 DEF Bodies, Typed
  <2>6. CASE ~(c = d /\ n = m)
    <3>1. ASSUME NEW p \in Typed(c, n), Readable(files, p)
          PROVE  Readable(files', p)
      <4>1. p # t /\ p \notin removed
        BY <2>2, <2>3, <2>6, TypedApart
      <4> HIDE DEF t
      <4>2. p \in DOMAIN files' /\ files'[p] = files[p]
        BY <2>1, <3>1, <4>1 DEF Without, Assign, Readable
      <4> QED BY <3>1, <4>2 DEF Readable
    <3> QED BY <3>1, BodiesStay
  <2> QED BY <2>5, <2>6
<1>3. ASSUME NEW r \in Request, NEW d \in Category, NEW m \in Name, Delete(r, d, m)
      PROVE  Delete(r, c, n)
  <2>1. Found(d, m) # {} /\ files' = Without(files, {Existing(d, m)})
    BY <1>3 DEF Delete, StartLoad
  <2>2. Existing(d, m) \in Typed(d, m) \cup {<<"root", m>>}
    BY <2>1, ExistingPlace
  <2>3. PICK p \in Typed(c, n) : Readable(files, p) /\ ~Readable(files', p)
    BY BodiesStay
  <2>4. p = Existing(d, m)
    BY <2>1, <2>3 DEF Without, Readable
  <2>5. c = d /\ n = m
    BY <2>2, <2>4, TypedApart
  <2> QED BY <1>3, <2>5
<1>4. ASSUME NEW d \in Category, NEW m \in Name, NEW b \in Body,
             ImportFails(d, m, b)
      PROVE  n \in behind'
  <2> DEFINE t == Target(d, m, b)
             u == [cat |-> d, body |-> Unreadable]
  <2>1. files' = Assign(files, t, u) /\ behind' = behind \cup {m}
    BY <1>4 DEF ImportFails
  <2>2. t \in Typed(d, m)
    BY DEF Target, Typed
  <2>3. PICK p \in Typed(c, n) : Readable(files, p) /\ ~Readable(files', p)
    BY BodiesStay
  <2>4. p = t
    <3> HIDE DEF t, u
    <3> QED BY <2>1, <2>3 DEF Assign, Readable
  <2>5. n = m
    BY <2>2, <2>4, TypedApart
  <2> QED BY <2>1, <2>5
<1>5. ASSUME NEW r \in Request, Reload(r)
      PROVE  FALSE
  BY <1>1, <1>5 DEF Reload, StartLoad
<1>6. ASSUME NEW r \in Request, DumpReads(r) \/ DumpFails(r) \/ Annotate(r)
      PROVE  FALSE
  BY <1>1, <1>6 DEF DumpReads, DumpFails, Annotate
<1>7. ASSUME Restart
      PROVE  FALSE
  BY <1>1, <1>7 DEF Restart
<1> QED BY <1>2, <1>3, <1>4, <1>5, <1>6, <1>7 DEF Next

\* A profile of the typed directories goes only with its own deletion, or when
\* a write of its own fails half way, for any names, bodies and requests.
THEOREM NoProfileLost == Spec => ProfilesKept
  BY StepKeeps, PTL DEF Spec, ProfilesKept

-----------------------------------------------------------------------------
(* The listings of a load that ran alone *)

\* What lies in base/ inherits nothing.
BasesStand(fs) ==
    \A c \in Category, n \in Name : Readable(fs, <<BaseDir(c), n>>) =>
        ParentOf[fs[<<BaseDir(c), n>>].body] = Nothing

\* The files of n in the typed directories are of the directories' categories.
FiledIn(fs, n) ==
    \A c \in Category : \A p \in Typed(c, n) \cap DOMAIN fs : fs[p].cat = c

\* The category a key belongs to
CategoryOf(idx, ex, k) == IF k[1] = "user" THEN idx[k[2]].cat ELSE ex[k[2]]

\* The entry of the key k is a profile of the typed directories of fs, and so is
\* the user profile it inherits, if any.
EntryExact(fs, idx, s, k) ==
    LET c == CategoryOf(idx, s.extra, k)
    IN /\ s.stamp[k].cat = c /\ c \in Category
       /\ s.stamp[k].body \in Bodies(fs, c, k[2])
       /\ ParentOf[s.stamp[k].body] \in Name =>
              Bodies(fs, c, ParentOf[s.stamp[k].body]) # {}

\* The entries s, stamped over the index idx, list what there is of the name n.
ExactFor(fs, idx, s, n) ==
    /\ \A k \in DOMAIN s.stamp : k[2] = n => EntryExact(fs, idx, s, k)
    /\ \A c \in Category : (\E b \in Bodies(fs, c, n) : LoadsFor(fs, c, b)) =>
          \E k \in DOMAIN s.stamp : k[2] = n /\ CategoryOf(idx, s.extra, k) = c

\* And of all names whose files are where they belong.
Exact(fs, idx, s) == \A n \in Name : FiledIn(fs, n) => ExactFor(fs, idx, s, n)

\* A load that nothing has joined stamps its dump on the indexes of its walk,
\* and no file has changed since.
AloneIsFresh ==
    \A r \in DOMAIN load : load[r].alone =>
        /\ DOMAIN load = {r}
        /\ index = Walk(files) /\ extra = <<>> /\ stamp = <<>>
        /\ load[r].pc = "dumped" => load[r].manifest \in Manifests(files)

SettledIsExact ==
    settled => /\ DOMAIN load = {} /\ index = Walk(files)
               /\ Exact(files, index, [extra |-> extra, stamp |-> stamp])

ListingInv == CatalogTypeOK /\ BasesStand(files) /\ AloneIsFresh /\ SettledIsExact

\* Of a name with files of both categories the walk keeps the process; a name
\* of the typed directories is indexed under its category otherwise, with the
\* file in base/ before the other.
LEMMA WalkPrefers ==
    ASSUME NEW fs, NEW n \in Name, FiledIn(fs, n)
    PROVE  /\ Bodies(fs, "process", n) # {} =>
                 /\ n \in DOMAIN Walk(fs) /\ Walk(fs)[n].cat = "process"
                 /\ IF Readable(fs, <<"process/base", n>>)
                    THEN Walk(fs)[n] = fs[<<"process/base", n>>]
                    ELSE Walk(fs)[n] = fs[<<"process", n>>]
           /\ Bodies(fs, "process", n) = {} /\ Bodies(fs, "filament", n) # {} =>
                 /\ n \in DOMAIN Walk(fs) /\ Walk(fs)[n].cat = "filament"
                 /\ IF Readable(fs, <<"filament/base", n>>)
                    THEN Walk(fs)[n] = fs[<<"filament/base", n>>]
                    ELSE Walk(fs)[n] = fs[<<"filament", n>>]
<1> DEFINE S == Seen(fs, n)
           i == Max(S)
<1>1. /\ WalkOrder[1] = "root" /\ WalkOrder[2] = "filament" /\ WalkOrder[3] = "filament/base"
      /\ WalkOrder[4] = "process" /\ WalkOrder[5] = "process/base"
  BY DEF WalkOrder
<1>2. S \in SUBSET (1..5) /\ \A j \in 1..5 : j \in S <=> Readable(fs, <<WalkOrder[j], n>>)
  BY Places DEF Seen
<1>3. Bodies(fs, "process", n) # {} <=> 4 \in S \/ 5 \in S
  BY <1>1, <1>2 DEF Bodies, BaseDir
<1>4. Bodies(fs, "filament", n) # {} <=> 2 \in S \/ 3 \in S
  BY <1>1, <1>2 DEF Bodies, BaseDir
<1>5. S # {} => n \in DOMAIN Walk(fs) /\ Walk(fs)[n] = fs[<<WalkOrder[i], n>>]
                /\ <<WalkOrder[i], n>> \in DOMAIN fs
  <2>1. S # {} => i \in S
    BY <1>2, LastPlace
  <2> QED BY <2>1 DEF Walk, Seen, Readable
<1>6. \A j \in S : i >= j /\ i \in S /\ i \in {1, 2, 3, 4, 5}
  <2>1. \A x \in 1..5 : x \in {1, 2, 3, 4, 5}
    OBVIOUS
  <2>2. ASSUME NEW j \in S
        PROVE  i >= j /\ i \in S
    BY <1>2, LastPlace
  <2> HIDE DEF S, i
  <2> QED BY <1>2, <2>1, <2>2
<1>7. "process" \in Category /\ "filament" \in Category
  BY DEF Category
<1>8. /\ <<WalkOrder[2], n>> \in Typed("filament", n) /\ <<WalkOrder[3], n>> \in Typed("filament", n)
      /\ <<WalkOrder[4], n>> \in Typed("process", n) /\ <<WalkOrder[5], n>> \in Typed("process", n)
  BY <1>1 DEF Typed, BaseDir
<1>9. \A c \in Category : \A q \in Typed(c, n) : q \in DOMAIN fs => fs[q].cat = c
  BY DEF FiledIn
<1> HIDE DEF S, i
<1>10. ASSUME 4 \in S \/ 5 \in S
       PROVE  /\ n \in DOMAIN Walk(fs) /\ Walk(fs)[n].cat = "process"
              /\ Walk(fs)[n] = IF 5 \in S THEN fs[<<WalkOrder[5], n>>] ELSE fs[<<WalkOrder[4], n>>]
  <2>1. i = IF 5 \in S THEN 5 ELSE 4
    <3>1. i \in {1, 2, 3, 4, 5} /\ i >= 4 /\ i \in S /\ (5 \in S => i >= 5)
      BY <1>6, <1>10
    <3> QED BY <3>1
  <2>2. /\ n \in DOMAIN Walk(fs) /\ Walk(fs)[n] = fs[<<WalkOrder[i], n>>]
        /\ <<WalkOrder[i], n>> \in DOMAIN fs
    BY <1>5, <1>10
  <2>3. <<WalkOrder[i], n>> \in Typed("process", n)
    BY <2>1, <1>8
  <2> QED BY <2>1, <2>2, <2>3, <1>7, <1>9
<1>11. ASSUME 4 \notin S, 5 \notin S, 2 \in S \/ 3 \in S
       PROVE  /\ n \in DOMAIN Walk(fs) /\ Walk(fs)[n].cat = "filament"
              /\ Walk(fs)[n] = IF 3 \in S THEN fs[<<WalkOrder[3], n>>] ELSE fs[<<WalkOrder[2], n>>]
  <2>1. i = IF 3 \in S THEN 3 ELSE 2
    <3>1. /\ i \in {1, 2, 3, 4, 5} /\ i >= 2 /\ i # 4 /\ i # 5
          /\ i \in S /\ (3 \in S => i >= 3)
      BY <1>6, <1>11
    <3> QED BY <3>1
  <2>2. /\ n \in DOMAIN Walk(fs) /\ Walk(fs)[n] = fs[<<WalkOrder[i], n>>]
        /\ <<WalkOrder[i], n>> \in DOMAIN fs
    BY <1>5, <1>11
  <2>3. <<WalkOrder[i], n>> \in Typed("filament", n)
    BY <2>1, <1>8
  <2> QED BY <2>1, <2>2, <2>3, <1>7, <1>9
<1> QED BY <1>1, <1>2, <1>3, <1>4, <1>10, <1>11

\* The keys that the entries of one category are stamped on
KeysOf(idx, ex, m, c) == {<<KeyOf(idx, ex, c, n), n>> : n \in {x \in Name : <<c, x>> \in DOMAIN m}}

\* What stamping the entries of one category does to each key.
LEMMA StampedKeys ==
    ASSUME NEW idx, NEW s, NEW m, NEW c
    PROVE  /\ DOMAIN Stamped(idx, s, m, c).stamp = DOMAIN s.stamp \cup KeysOf(idx, s.extra, m, c)
           /\ \A k \in KeysOf(idx, s.extra, m, c) :
                 Stamped(idx, s, m, c).stamp[k] = [cat |-> c, body |-> m[<<c, k[2]>>]]
           /\ \A k \in DOMAIN s.stamp \ KeysOf(idx, s.extra, m, c) :
                 Stamped(idx, s, m, c).stamp[k] = s.stamp[k]
           /\ DOMAIN Stamped(idx, s, m, c).extra =
                 DOMAIN s.extra \cup {k[2] : k \in {j \in KeysOf(idx, s.extra, m, c) : j[1] = "bundle"}}
           /\ \A k \in KeysOf(idx, s.extra, m, c) :
                 k[1] = "bundle" /\ k[2] \notin DOMAIN s.extra =>
                    Stamped(idx, s, m, c).extra[k[2]] = c
<1> DEFINE keys == KeysOf(idx, s.extra, m, c)
           made == {k[2] : k \in {j \in keys : j[1] = "bundle"}} \ DOMAIN s.extra
           z    == Stamped(idx, s, m, c)
<1>1. z.extra = [n \in DOMAIN s.extra \cup made |-> IF n \in made THEN c ELSE s.extra[n]]
  BY DEF Stamped, KeysOf
<1>2. z.stamp = [k \in DOMAIN s.stamp \cup keys |->
                   IF k \in keys THEN [cat |-> c, body |-> m[<<c, k[2]>>]] ELSE s.stamp[k]]
  BY DEF Stamped, KeysOf
<1> HIDE DEF z, keys
<1>3. /\ DOMAIN z.stamp = DOMAIN s.stamp \cup keys
      /\ \A k \in keys : z.stamp[k] = [cat |-> c, body |-> m[<<c, k[2]>>]]
      /\ \A k \in DOMAIN s.stamp \ keys : z.stamp[k] = s.stamp[k]
  BY <1>2
<1>4. DOMAIN z.extra = DOMAIN s.extra \cup {k[2] : k \in {j \in keys : j[1] = "bundle"}}
  BY <1>1
<1>5. \A k \in keys : k[1] = "bundle" /\ k[2] \notin DOMAIN s.extra => z.extra[k[2]] = c
  BY <1>1
<1> QED BY <1>3, <1>4, <1>5 DEF z, keys

\* A name has one key of those that one category's entries are stamped on.
LEMMA KeyOfName ==
    ASSUME NEW idx, NEW ex, NEW m, NEW c, NEW n \in Name
    PROVE  /\ <<c, n>> \in DOMAIN m => <<KeyOf(idx, ex, c, n), n>> \in KeysOf(idx, ex, m, c)
           /\ \A k \in KeysOf(idx, ex, m, c) : k[2] = n =>
                 <<c, n>> \in DOMAIN m /\ k = <<KeyOf(idx, ex, c, n), n>>
<1>1. ASSUME NEW k \in KeysOf(idx, ex, m, c), k[2] = n
      PROVE  <<c, n>> \in DOMAIN m /\ k = <<KeyOf(idx, ex, c, n), n>>
  <2>1. PICK x \in Name : <<c, x>> \in DOMAIN m /\ k = <<KeyOf(idx, ex, c, x), x>>
    BY DEF KeysOf
  <2>2. x = n
    BY <1>1, <2>1
  <2> QED BY <2>1, <2>2
<1>2. <<c, n>> \in DOMAIN m => <<KeyOf(idx, ex, c, n), n>> \in KeysOf(idx, ex, m, c)
  BY DEF KeysOf
<1> QED BY <1>1, <1>2

\* What a manifest holds of a name: one of its bodies, with the parent beside it,
\* and something of every name that can be loaded at once.
LEMMA ManifestHolds ==
    ASSUME NEW fs, NEW m \in Manifests(fs), NEW c \in Category, NEW n \in Name
    PROVE  /\ <<c, n>> \in DOMAIN m =>
                 /\ m[<<c, n>>] \in Bodies(fs, c, n)
                 /\ ParentOf[m[<<c, n>>]] \in Name => Bodies(fs, c, ParentOf[m[<<c, n>>]]) # {}
           /\ (\E b \in Bodies(fs, c, n) : LoadsFor(fs, c, b)) => <<c, n>> \in DOMAIN m
<1> DEFINE here == {k \in Category \X Name : Bodies(fs, k[1], k[2]) # {}}
<1>1. PICK S \in SUBSET here :
        /\ m \in [S -> Body]
        /\ \A k \in S : /\ m[k] \in Bodies(fs, k[1], k[2])
                        /\ ParentOf[m[k]] \in Name => <<k[1], ParentOf[m[k]]>> \in S
        /\ \A k \in here \ S : \A b \in Bodies(fs, k[1], k[2]) : ~LoadsFor(fs, k[1], b)
  BY DEF Manifests
<1>2. DOMAIN m = S
  BY <1>1
<1>3. ASSUME NEW p \in Name, <<c, p>> \in S
      PROVE  Bodies(fs, c, p) # {}
  BY <1>3
<1>4. ASSUME <<c, n>> \in S
      PROVE  /\ m[<<c, n>>] \in Bodies(fs, c, n)
             /\ ParentOf[m[<<c, n>>]] \in Name => <<c, ParentOf[m[<<c, n>>]]>> \in S
  <2> HIDE DEF here
  <2> QED BY <1>1, <1>4
<1>5. ASSUME NEW b \in Bodies(fs, c, n), LoadsFor(fs, c, b)
      PROVE  <<c, n>> \in S
  <2>1. <<c, n>> \in here
    OBVIOUS
  <2> HIDE DEF here
  <2> QED BY <1>1, <1>5, <2>1
<1> HIDE DEF here
<1> QED BY <1>2, <1>3, <1>4, <1>5

\* A dump of the files, stamped on a fresh walk of the same files, lists them.
LEMMA AnnotatedExact ==
    ASSUME NEW fs, NEW m \in Manifests(fs)
    PROVE  Exact(fs, Walk(fs), Annotated(Walk(fs), [extra |-> <<>>, stamp |-> <<>>], m))
<1> SUFFICES ASSUME NEW n \in Name, FiledIn(fs, n)
             PROVE  ExactFor(fs, Walk(fs), Annotated(Walk(fs), [extra |-> <<>>, stamp |-> <<>>], m), n)
  BY DEF Exact
<1> DEFINE idx == Walk(fs)
           e   == [extra |-> <<>>, stamp |-> <<>>]
           s1  == Stamped(idx, e, m, "process")
           s2  == Stamped(idx, s1, m, "filament")
           K1  == KeysOf(idx, e.extra, m, "process")
           K2  == KeysOf(idx, s1.extra, m, "filament")
           P   == <<"process", n>> \in DOMAIN m
           F   == <<"filament", n>> \in DOMAIN m
           f   == IF Bodies(fs, "process", n) = {} THEN "user" ELSE "bundle"
<1>0. /\ Category = {"filament", "process"} /\ DOMAIN e.extra = {} /\ DOMAIN e.stamp = {}
      /\ Annotated(idx, e, m) = s2
  BY DEF Category, Annotated
<1>1. \A c \in Category :
         /\ <<c, n>> \in DOMAIN m =>
               /\ m[<<c, n>>] \in Bodies(fs, c, n)
               /\ ParentOf[m[<<c, n>>]] \in Name => Bodies(fs, c, ParentOf[m[<<c, n>>]]) # {}
         /\ (\E b \in Bodies(fs, c, n) : LoadsFor(fs, c, b)) => <<c, n>> \in DOMAIN m
  BY ManifestHolds
<1>2. ASSUME P
      PROVE  /\ Bodies(fs, "process", n) # {} /\ idx[n].cat = "process"
             /\ KeyOf(idx, e.extra, "process", n) = "user"
  BY <1>0, <1>1, <1>2, WalkPrefers DEF KeyOf
<1>3. /\ \A k \in K1 : k[2] = n => P /\ k = <<"user", n>>
      /\ P => <<"user", n>> \in K1
  <2>1. /\ P => <<KeyOf(idx, e.extra, "process", n), n>> \in K1
        /\ \A k \in K1 : k[2] = n => P /\ k = <<KeyOf(idx, e.extra, "process", n), n>>
    <3> HIDE DEF idx, e
    <3> QED BY KeyOfName
  <2> HIDE DEF idx, e, K1, P
  <2> QED BY <1>2, <2>1
<1>4. /\ DOMAIN s1.stamp = K1 /\ n \notin DOMAIN s1.extra
      /\ \A k \in K1 : s1.stamp[k] = [cat |-> "process", body |-> m[<<"process", k[2]>>]]
  <2> HIDE DEF K1, e, idx
  <2>1. /\ DOMAIN s1.stamp = DOMAIN e.stamp \cup K1
        /\ DOMAIN s1.extra = DOMAIN e.extra \cup {k[2] : k \in {j \in K1 : j[1] = "bundle"}}
        /\ \A k \in K1 : s1.stamp[k] = [cat |-> "process", body |-> m[<<"process", k[2]>>]]
    BY StampedKeys DEF K1
  <2>2. \A k \in K1 : k[1] = "bundle" => k[2] # n
    BY <1>3
  <2> HIDE DEF s1
  <2> QED BY <1>0, <2>1, <2>2
<1>5. F => Bodies(fs, "filament", n) # {} /\ KeyOf(idx, s1.extra, "filament", n) = f
  <2> HIDE DEF s1
  <2> QED BY <1>0, <1>1, <1>4, WalkPrefers DEF KeyOf
<1>6. /\ \A k \in K2 : k[2] = n => F /\ k = <<f, n>>
      /\ F => <<f, n>> \in K2
  <2>1. /\ F => <<KeyOf(idx, s1.extra, "filament", n), n>> \in K2
        /\ \A k \in K2 : k[2] = n => F /\ k = <<KeyOf(idx, s1.extra, "filament", n), n>>
    <3> HIDE DEF idx, s1
    <3> QED BY KeyOfName
  <2> HIDE DEF idx, s1, f, K2, F
  <2> QED BY <1>5, <2>1
<1>7. /\ DOMAIN s2.stamp = K1 \cup K2
      /\ \A k \in K2 : s2.stamp[k] = [cat |-> "filament", body |-> m[<<"filament", k[2]>>]]
      /\ \A k \in K1 \ K2 : s2.stamp[k] = [cat |-> "process", body |-> m[<<"process", k[2]>>]]
      /\ \A k \in K2 : k[1] = "bundle" /\ k[2] = n => s2.extra[n] = "filament"
  <2> HIDE DEF s1, idx, K1
  <2>1. /\ DOMAIN s2.stamp = DOMAIN s1.stamp \cup K2
        /\ \A k \in K2 : s2.stamp[k] = [cat |-> "filament", body |-> m[<<"filament", k[2]>>]]
        /\ \A k \in DOMAIN s1.stamp \ K2 : s2.stamp[k] = s1.stamp[k]
        /\ \A k \in K2 : k[1] = "bundle" /\ k[2] \notin DOMAIN s1.extra =>
              s2.extra[k[2]] = "filament"
    BY StampedKeys DEF K2
  <2> HIDE DEF s2, K2
  <2> QED BY <1>4, <2>1
<1>8. ASSUME NEW k \in K2, k[2] = n
      PROVE  CategoryOf(idx, s2.extra, k) = "filament" /\ EntryExact(fs, idx, s2, k)
  <2>1. F /\ k = <<f, n>> /\ Bodies(fs, "filament", n) # {}
    BY <1>5, <1>6, <1>8
  <2>2. s2.stamp[k].cat = "filament" /\ s2.stamp[k].body = m[<<"filament", n>>]
    <3> HIDE DEF s2, K1, K2
    <3>1. s2.stamp[k] = [cat |-> "filament", body |-> m[<<"filament", n>>]]
      BY <1>7, <1>8
    <3> QED BY <3>1
  <2>3. CategoryOf(idx, s2.extra, k) = "filament"
    <3>1. CASE Bodies(fs, "process", n) = {}
      <4>1. k[1] = "user" /\ idx[n].cat = "filament"
        BY <2>1, <3>1, WalkPrefers
      <4> HIDE DEF idx, s2
      <4> QED BY <1>8, <4>1 DEF CategoryOf
    <3>2. CASE Bodies(fs, "process", n) # {}
      <4>1. k[1] = "bundle"
        BY <2>1, <3>2
      <4> HIDE DEF idx, s2, K1, K2
      <4> QED BY <1>7, <1>8, <4>1 DEF CategoryOf
    <3> QED BY <3>1, <3>2
  <2> HIDE DEF idx, s2
  <2> QED BY <1>0, <1>1, <1>8, <2>1, <2>2, <2>3 DEF EntryExact
<1>9. ASSUME NEW k \in K1, k[2] = n
      PROVE  k \notin K2 /\ CategoryOf(idx, s2.extra, k) = "process" /\ EntryExact(fs, idx, s2, k)
  <2>1. P /\ k = <<"user", n>> /\ Bodies(fs, "process", n) # {} /\ idx[n].cat = "process"
    BY <1>2, <1>3, <1>9
  <2>2. k \notin K2
    <3> HIDE DEF K2
    <3> QED BY <1>6, <1>9, <2>1
  <2>3. s2.stamp[k].cat = "process" /\ s2.stamp[k].body = m[<<"process", n>>]
    <3> HIDE DEF s2, K1, K2
    <3>1. s2.stamp[k] = [cat |-> "process", body |-> m[<<"process", n>>]]
      BY <1>7, <1>9, <2>2
    <3> QED BY <3>1
  <2> HIDE DEF idx, s2
  <2>4. CategoryOf(idx, s2.extra, k) = "process"
    BY <2>1 DEF CategoryOf
  <2> QED BY <1>0, <1>1, <1>9, <2>1, <2>2, <2>3, <2>4 DEF EntryExact
<1>10. ASSUME NEW c \in Category, \E b \in Bodies(fs, c, n) : LoadsFor(fs, c, b)
       PROVE  \E k \in DOMAIN s2.stamp : k[2] = n /\ CategoryOf(idx, s2.extra, k) = c
  <2>1. <<c, n>> \in DOMAIN m
    BY <1>1, <1>10
  <2> HIDE DEF K1, K2, s2, idx, f
  <2>2. CASE c = "process"
    BY <1>3, <1>7, <1>9, <2>1, <2>2
  <2>3. CASE c = "filament"
    BY <1>6, <1>7, <1>8, <2>1, <2>3
  <2> QED BY <1>0, <2>2, <2>3
<1> HIDE DEF K1, K2, s1, s2, idx, e, P, F, f
<1>11. ExactFor(fs, idx, s2, n)
  BY <1>7, <1>8, <1>9, <1>10 DEF ExactFor
<1> QED BY <1>0, <1>11 DEF idx, e

\* Writing to its target or removing leaves base/ without what inherits.
LEMMA WrittenStands ==
    ASSUME NEW fs, BasesStand(fs), NEW c \in Category, NEW n \in Name, NEW b,
           NEW u, u.body \in {b, Unreadable}, NEW S
    PROVE  /\ BasesStand(Assign(fs, Target(c, n, b), u))
           /\ BasesStand(Without(fs, S))
<1> DEFINE t == Target(c, n, b)
<1>1. ASSUME NEW d \in Category, NEW m \in Name, Readable(Assign(fs, t, u), <<BaseDir(d), m>>)
      PROVE  ParentOf[Assign(fs, t, u)[<<BaseDir(d), m>>].body] = Nothing
  <2>1. CASE t = <<BaseDir(d), m>>
    <3>1. ParentOf[b] = Nothing
      BY <2>1 DEF Target, BaseDir, Category
    <3>2. Assign(fs, t, u)[<<BaseDir(d), m>>] = u
      <4> HIDE DEF t
      <4> QED BY <2>1 DEF Assign
    <3>3. u.body # Unreadable
      BY <1>1, <3>2 DEF Readable
    <3> QED BY <3>1, <3>2, <3>3
  <2>2. CASE t # <<BaseDir(d), m>>
    <3> HIDE DEF t
    <3> QED BY <1>1, <2>2 DEF Assign, Readable, BasesStand
  <2> QED BY <2>1, <2>2
<1>2. BasesStand(Without(fs, S))
  BY DEF BasesStand, Without, Readable
<1> QED BY <1>1, <1>2 DEF BasesStand

\* The walk that opens a load leaves the parts of ListingInv.
LEMMA StartLoadListing ==
    ASSUME ListingInv, NEW r \in Request, NEW fs, BasesStand(fs), StartLoad(r, fs)
    PROVE  BasesStand(files') /\ AloneIsFresh' /\ SettledIsExact'
<1>1. BasesStand(files')
  BY DEF StartLoad
<1>2. SettledIsExact'
  BY DEF StartLoad, SettledIsExact
<1>3. ASSUME NEW s \in DOMAIN load', load'[s].alone
      PROVE  /\ DOMAIN load' = {s}
             /\ index' = Walk(files') /\ extra' = <<>> /\ stamp' = <<>>
             /\ load'[s].pc # "dumped"
  <2>1. \A j \in JobType : [j EXCEPT !.alone = FALSE].alone = FALSE
    BY DEF JobType
  <2>2. s = r
    BY <1>3, <2>1 DEF StartLoad, Assign, ListingInv, CatalogTypeOK, JobType
  <2>3. load'[r] = [pc |-> "dumping", manifest |-> <<>>, alone |-> load = <<>>]
    BY DEF StartLoad, Assign
  <2>4. load = <<>>
    <3>1. load'[r].alone = (load = <<>>)
      BY <2>3
    <3> QED BY <1>3, <2>2, <3>1, Zenon
  <2>5. DOMAIN load' = {r}
    BY <2>4 DEF StartLoad, Assign
  <2> QED BY <2>2, <2>3, <2>5 DEF StartLoad
<1>4. AloneIsFresh'
  BY <1>3 DEF AloneIsFresh
<1> QED BY <1>1, <1>2, <1>4

\* Every step keeps the parts of ListingInv.
LEMMA StepListing ==
    ASSUME ListingInv, [Next]_vars
    PROVE  BasesStand(files') /\ AloneIsFresh' /\ SettledIsExact'
<1> DEFINE Goal == BasesStand(files') /\ AloneIsFresh' /\ SettledIsExact'
<1>0. BasesStand(files)
  BY DEF ListingInv
<1>1. ASSUME NEW r \in Request, NEW c \in Category, NEW n \in Name,
             NEW b \in Body, Import(r, c, n, b)
      PROVE  Goal
  <2> DEFINE written == Assign(files, Target(c, n, b), [cat |-> Detected(c, b), body |-> b])
  <2>1. PICK removed : StartLoad(r, Without(written, removed))
    BY <1>1 DEF Import
  <2>2. BasesStand(written)
    BY <1>0, WrittenStands
  <2> HIDE DEF written
  <2>3. BasesStand(Without(written, removed))
    BY <2>2 DEF BasesStand, Without, Readable
  <2> QED BY <2>1, <2>3, StartLoadListing
<1>2. ASSUME NEW r \in Request, NEW c \in Category, NEW n \in Name, Delete(r, c, n)
      PROVE  Goal
  <2>1. BasesStand(Without(files, {Existing(c, n)}))
    BY <1>0 DEF BasesStand, Without, Readable
  <2> QED BY <1>2, <2>1, StartLoadListing DEF Delete
<1>3. ASSUME NEW r \in Request, Reload(r)
      PROVE  Goal
  BY <1>0, <1>3, StartLoadListing DEF Reload
<1>4. ASSUME NEW r \in Request, DumpReads(r)
      PROVE  Goal
  <2>1. PICK m \in Manifests(files) :
           load' = [load EXCEPT ![r] = [@ EXCEPT !.pc = "dumped", !.manifest = m]]
    BY <1>4 DEF DumpReads
  <2>2. /\ r \in DOMAIN load /\ load[r].pc = "dumping" /\ files' = files /\ index' = index
        /\ extra' = extra /\ stamp' = stamp /\ settled' = settled
    BY <1>4 DEF DumpReads, catalog
  <2>3. \A j \in JobType : /\ [j EXCEPT !.pc = "dumped", !.manifest = m].alone = j.alone
                           /\ [j EXCEPT !.pc = "dumped", !.manifest = m].manifest = m
    BY DEF JobType
  <2>4. load[r] \in JobType
    BY <2>2 DEF ListingInv, CatalogTypeOK, JobType
  <2>5. DOMAIN load' = DOMAIN load
    BY <2>1
  <2>6. ASSUME NEW s \in DOMAIN load', load'[s].alone
        PROVE  /\ DOMAIN load' = {s}
               /\ index' = Walk(files') /\ extra' = <<>> /\ stamp' = <<>>
               /\ load'[s].pc = "dumped" => load'[s].manifest \in Manifests(files')
    <3>1. load[s].alone
      BY <2>1, <2>3, <2>4, <2>5, <2>6
    <3>2. DOMAIN load = {s} /\ index = Walk(files) /\ extra = <<>> /\ stamp = <<>>
      BY <2>5, <3>1 DEF ListingInv, AloneIsFresh
    <3>3. s = r /\ load'[r].manifest = m
      BY <2>1, <2>2, <2>3, <2>4, <3>2
    <3> QED BY <2>2, <2>5, <3>2, <3>3
  <2>7. AloneIsFresh'
    BY <2>6 DEF AloneIsFresh
  <2>8. SettledIsExact'
    BY <2>2, <2>5 DEF ListingInv, SettledIsExact
  <2> QED BY <1>0, <2>2, <2>7, <2>8
<1>5. ASSUME NEW r \in Request, DumpFails(r)
      PROVE  Goal
  <2>1. /\ r \in DOMAIN load /\ files' = files /\ index' = index
        /\ extra' = extra /\ stamp' = stamp /\ settled' = settled
        /\ DOMAIN load' = DOMAIN load \ {r} /\ \A s \in DOMAIN load' : load'[s] = load[s]
    BY <1>5 DEF DumpFails, catalog, Without
  <2>2. SettledIsExact'
    BY <2>1 DEF ListingInv, SettledIsExact
  <2>3. AloneIsFresh'
    BY <2>1 DEF ListingInv, AloneIsFresh
  <2> QED BY <1>0, <2>1, <2>2, <2>3
<1>6. ASSUME NEW r \in Request, Annotate(r)
      PROVE  Goal
  <2>1. /\ r \in DOMAIN load /\ load[r].pc = "dumped" /\ files' = files /\ index' = index
        /\ settled' = load[r].alone
        /\ DOMAIN load' = DOMAIN load \ {r} /\ \A s \in DOMAIN load' : load'[s] = load[s]
    BY <1>6 DEF Annotate, Without
  <2>2. \A s \in DOMAIN load' : load'[s].alone = FALSE
    BY <2>1 DEF ListingInv, AloneIsFresh, CatalogTypeOK
  <2>3. AloneIsFresh'
    BY <2>2 DEF AloneIsFresh
  <2>4. ASSUME settled'
        PROVE  /\ DOMAIN load' = {} /\ index' = Walk(files')
               /\ Exact(files', index', [extra |-> extra', stamp |-> stamp'])
    <3> DEFINE s == Annotated(index, [extra |-> extra, stamp |-> stamp], load[r].manifest)
    <3>1. /\ DOMAIN load = {r} /\ index = Walk(files) /\ extra = <<>> /\ stamp = <<>>
          /\ load[r].manifest \in Manifests(files)
      BY <2>1, <2>4 DEF ListingInv, AloneIsFresh
    <3>2. Exact(files, index, s)
      BY <1>0, <3>1, AnnotatedExact
    <3>3. extra' = s.extra /\ stamp' = s.stamp
      BY <1>6 DEF Annotate
    <3> HIDE DEF s
    <3>4. Exact(files, index, [extra |-> s.extra, stamp |-> s.stamp])
      BY <3>2 DEF Exact, ExactFor, EntryExact
    <3> QED BY <2>1, <3>1, <3>3, <3>4
  <2>5. SettledIsExact'
    BY <2>4 DEF SettledIsExact
  <2> QED BY <1>0, <2>1, <2>3, <2>5
<1>7. ASSUME NEW c \in Category, NEW n \in Name, NEW b \in Body,
             ImportFails(c, n, b)
      PROVE  Goal
  <2>1. BasesStand(files')
    BY <1>0, <1>7, WrittenStands DEF ImportFails
  <2>2. \A j \in JobType : [j EXCEPT !.alone = FALSE].alone = FALSE
    BY DEF JobType
  <2>3. \A s \in DOMAIN load' : load'[s].alone = FALSE
    BY <1>7, <2>2 DEF ImportFails, ListingInv, CatalogTypeOK, JobType
  <2>4. AloneIsFresh' /\ SettledIsExact'
    BY <1>7, <2>3 DEF ImportFails, AloneIsFresh, SettledIsExact
  <2> QED BY <2>1, <2>4
<1>8. ASSUME Restart
      PROVE  Goal
  <2>1. PICK m \in Manifests(files) :
           LET s == Annotated(Walk(files), [extra |-> <<>>, stamp |-> <<>>], m)
           IN extra' = s.extra /\ stamp' = s.stamp
    BY <1>8 DEF Restart
  <2> DEFINE s == Annotated(Walk(files), [extra |-> <<>>, stamp |-> <<>>], m)
  <2>2. Exact(files, Walk(files), s)
    BY <1>0, AnnotatedExact
  <2>3. /\ extra' = s.extra /\ stamp' = s.stamp /\ index' = Walk(files) /\ files' = files
        /\ load' = <<>>
    BY <1>8, <2>1 DEF Restart
  <2> HIDE DEF s
  <2>4. Exact(files, Walk(files), [extra |-> s.extra, stamp |-> s.stamp])
    BY <2>2 DEF Exact, ExactFor, EntryExact
  <2>5. DOMAIN load' = {}
    BY <2>3
  <2>6. Exact(files', index', [extra |-> extra', stamp |-> stamp'])
    BY <2>3, <2>4
  <2>7. AloneIsFresh' /\ SettledIsExact'
    BY <2>3, <2>5, <2>6 DEF AloneIsFresh, SettledIsExact
  <2> QED BY <1>0, <2>3, <2>7
<1>9. CASE UNCHANGED vars
  BY <1>9 DEF vars, catalog, ListingInv, AloneIsFresh, SettledIsExact
<1> QED BY <1>1, <1>2, <1>3, <1>4, <1>5, <1>6, <1>7, <1>8, <1>9 DEF Next

\* ListingInv is an invariant of the service.
LEMMA ListingInvariant == Spec => []ListingInv
<1>1. Init => ListingInv
  <2> SUFFICES ASSUME Init PROVE ListingInv
    OBVIOUS
  <2>1. PICK legacy \in SUBSET ({"root"} \X Name) :
           files \in [legacy -> Content]
    BY DEF Init
  <2>2. \A c \in Category, n \in Name : \A p \in Typed(c, n) : p \notin DOMAIN files
    BY <2>1 DEF Category, Typed, BaseDir
  <2>3. BasesStand(files)
    BY <2>2 DEF BasesStand, Typed, Readable
  <2>4. \A c \in Category, n \in Name : Bodies(files, c, n) = {}
    BY <2>2 DEF Bodies, Typed, Readable
  <2>5. DOMAIN load = {} /\ Exact(files, index, [extra |-> extra, stamp |-> stamp])
    BY <2>4 DEF Init, Exact, ExactFor
  <2>6. AloneIsFresh /\ SettledIsExact
    BY <2>5 DEF Init, AloneIsFresh, SettledIsExact
  <2> QED BY <2>3, <2>6, InitTyped DEF ListingInv
<1>2. ListingInv /\ [Next]_vars => ListingInv'
  BY StepTyped, StepListing DEF ListingInv
<1> QED BY <1>1, <1>2, PTL DEF Spec

\* The two ways of saying that the files of a name are where they belong.
LEMMA FiledIsWellFiled ==
    ASSUME NEW n
    PROVE  WellFiled(n) <=> FiledIn(files, n)
  BY DEF WellFiled, FiledIn, Typed

\* Once a load has run with no other beside it, the listings hold only profiles
\* of the typed directories, each under its own category and with its present
\* contents, and all those that do not wait for a parent; for any names, bodies
\* and requests, whatever inherits from what.
THEOREM ListingsAreCurrent == Spec => []ListingCurrent
<1>1. ListingInv => ListingCurrent
  <2> SUFFICES ASSUME ListingInv, settled, NEW n \in Name, WellFiled(n) PROVE
        /\ \A l \in Listed : l.name = n =>
              l.entry.cat = l.cat /\ l.entry.body \in Bodies(files, l.cat, n)
        /\ \A c \in Category :
              (\E b \in Bodies(files, c, n) : LoadsFor(files, c, b)) =>
                  \E l \in Listed : l.cat = c /\ l.name = n
    BY DEF ListingCurrent
  <2>1. ExactFor(files, index, [extra |-> extra, stamp |-> stamp], n)
    BY FiledIsWellFiled DEF ListingInv, SettledIsExact, Exact
  <2>2. \A k \in DOMAIN stamp : CategoryOf(index, extra, k) = KeyCategory(k)
    BY DEF CategoryOf, KeyCategory
  <2>3. ASSUME NEW l \in Listed, l.name = n
        PROVE  l.entry.cat = l.cat /\ l.entry.body \in Bodies(files, l.cat, n)
    <3>1. PICK k \in DOMAIN stamp :
             l = [cat |-> KeyCategory(k), name |-> k[2], entry |-> stamp[k]]
      BY DEF Listed
    <3>2. l.cat = KeyCategory(k) /\ l.name = k[2] /\ l.entry = stamp[k]
      BY <3>1
    <3> QED BY <2>1, <2>2, <2>3, <3>2 DEF ExactFor, EntryExact
  <2>4. ASSUME NEW c \in Category, \E b \in Bodies(files, c, n) : LoadsFor(files, c, b)
        PROVE  \E l \in Listed : l.cat = c /\ l.name = n
    <3>1. PICK k \in DOMAIN stamp : k[2] = n /\ CategoryOf(index, extra, k) = c
      BY <2>1, <2>4 DEF ExactFor
    <3> DEFINE l == [cat |-> KeyCategory(k), name |-> k[2], entry |-> stamp[k]]
    <3>2. l \in Listed
      BY DEF Listed
    <3>3. l.cat = c /\ l.name = n
      BY <2>2, <3>1
    <3> QED BY <3>2, <3>3
  <2> QED BY <2>3, <2>4
<1> QED BY <1>1, ListingInvariant, PTL

\* A name of one category, filed where it belongs, is found in that category; and
\* unless the file in base/ is the one found, the category has no other body of it.
LEMMA UnambiguousResolves ==
    ASSUME index = Walk(files), NEW c \in Category, NEW n \in Name,
           Unambiguous(n), Bodies(files, c, n) # {}
    PROVE  /\ Resolvable(c, n)
           /\ \/ Readable(files, <<BaseDir(c), n>>) /\ index[n] = files[<<BaseDir(c), n>>]
              \/ Bodies(files, c, n) = {index[n].body}
<1>1. FiledIn(files, n)
  BY FiledIsWellFiled DEF Unambiguous
<1>2. /\ BaseDir("process") = "process/base" /\ BaseDir("filament") = "filament/base"
      /\ Category = {"filament", "process"}
  BY DEF BaseDir, Category
<1>3. \A d \in Category : d # c => Bodies(files, d, n) = {}
  BY <1>2 DEF Unambiguous, SharedName
<1>4. /\ Resolvable(c, n)
      /\ IF Readable(files, <<BaseDir(c), n>>)
         THEN index[n] = files[<<BaseDir(c), n>>]
         ELSE index[n] = files[<<c, n>>]
  <2>1. CASE c = "process"
    BY <1>1, <1>2, <2>1, WalkPrefers DEF Resolvable
  <2>2. CASE c = "filament"
    BY <1>1, <1>2, <1>3, <2>2, WalkPrefers DEF Resolvable
  <2> QED BY <1>2, <2>1, <2>2
<1>5. ~Readable(files, <<BaseDir(c), n>>) => Bodies(files, c, n) = {files[<<c, n>>].body}
  BY DEF Bodies
<1> QED BY <1>4, <1>5

\* And whatever those listings hold is found in its own category, with the user
\* profile it inherits, unless both categories have a file of the name or one
\* lies in the wrong directory.
THEOREM ListingsResolve == Spec => []ListedResolves
<1>1. ListingInv => ListedResolves
  <2> SUFFICES ASSUME ListingInv, settled, NEW l \in Listed, Unambiguous(l.name)
               PROVE  /\ Resolvable(l.cat, l.name)
                      /\ LET parent == ParentOf[index[l.name].body]
                         IN parent \in Name /\ Unambiguous(parent) => Resolvable(l.cat, parent)
    BY DEF ListedResolves
  <2> DEFINE parent == ParentOf[index[l.name].body]
  <2>1. index = Walk(files) /\ Exact(files, index, [extra |-> extra, stamp |-> stamp])
    BY DEF ListingInv, SettledIsExact
  <2>2. PICK k \in DOMAIN stamp :
           l = [cat |-> KeyCategory(k), name |-> k[2], entry |-> stamp[k]]
    BY DEF Listed
  <2>3. l.cat = KeyCategory(k) /\ l.name = k[2] /\ l.entry = stamp[k]
    BY <2>2
  <2>4. CategoryOf(index, extra, k) = KeyCategory(k)
    BY DEF CategoryOf, KeyCategory
  <2>5. k[2] \in Name
    <3>1. k \in ({"user"} \X DOMAIN index) \cup ({"bundle"} \X DOMAIN extra)
      BY DEF ListingInv, CatalogTypeOK
    <3>2. DOMAIN index \subseteq Name /\ DOMAIN extra \subseteq Name
      BY DEF ListingInv, CatalogTypeOK
    <3> QED BY <3>1, <3>2
  <2>6. EntryExact(files, index, [extra |-> extra, stamp |-> stamp], k)
    BY <2>1, <2>3, <2>5, FiledIsWellFiled DEF Exact, ExactFor, Unambiguous
  <2>7. /\ l.cat \in Category /\ l.entry.body \in Bodies(files, l.cat, l.name)
        /\ ParentOf[l.entry.body] \in Name => Bodies(files, l.cat, ParentOf[l.entry.body]) # {}
    BY <2>3, <2>4, <2>6 DEF EntryExact
  <2>8. /\ Resolvable(l.cat, l.name)
        /\ \/ /\ Readable(files, <<BaseDir(l.cat), l.name>>)
              /\ index[l.name] = files[<<BaseDir(l.cat), l.name>>]
           \/ Bodies(files, l.cat, l.name) = {index[l.name].body}
    BY <2>1, <2>3, <2>5, <2>7, UnambiguousResolves
  <2>9. ASSUME parent \in Name, Unambiguous(parent)
        PROVE  Resolvable(l.cat, parent)
    <3>1. index[l.name].body = l.entry.body
      <4>1. CASE /\ Readable(files, <<BaseDir(l.cat), l.name>>)
                 /\ index[l.name] = files[<<BaseDir(l.cat), l.name>>]
        <5>1. parent = Nothing
          BY <2>3, <2>5, <2>7, <4>1 DEF ListingInv, BasesStand
        <5> QED BY <2>9, <5>1, CatalogAssumption
      <4>2. CASE Bodies(files, l.cat, l.name) = {index[l.name].body}
        BY <2>7, <4>2
      <4> QED BY <2>8, <4>1, <4>2
    <3> QED BY <2>1, <2>7, <2>9, <3>1, UnambiguousResolves
  <2> QED BY <2>8, <2>9
<1> QED BY <1>1, ListingInvariant, PTL

=============================================================================
