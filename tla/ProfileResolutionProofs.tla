----------------------- MODULE ProfileResolutionProofs -----------------------
(***************************************************************************)
(* Proofs about ProfileResolution, for any vendor catalogues, payloads and *)
(* names: the replacement found for a machine is the best there is; what   *)
(* is memoised is what the catalogue defines; vendor profiles do not       *)
(* depend on the user's; and filaments that share a filament_id stay apart *)
(* for every printer.                                                      *)
(***************************************************************************)
EXTENDS ProfileResolution, WellFoundedInduction, FiniteSetTheorems, TLAPS

-----------------------------------------------------------------------------
(* Least places *)

\* Min of a set of numbers is its least.
LEMMA LeastNumber ==
    ASSUME NEW S \in SUBSET Nat, S # {}
    PROVE  Min(S) \in S /\ \A y \in S : Min(S) <= y
<1>1. PICK x \in S : \A y \in S : ~ (<<y, x>> \in OpToRel(<, Nat))
  BY NatLessThanWellFounded, WFMin
<1>2. ASSUME NEW y \in S
      PROVE  x <= y
  <2>1. x \in Nat /\ y \in Nat
    OBVIOUS
  <2>2. ~ (y < x)
    BY <1>1, <2>1 DEF OpToRel
  <2> QED BY <2>1, <2>2
<1> QED BY <1>2 DEF Min

\* Max of a bounded set of numbers is its greatest.
LEMMA GreatestNumber ==
    ASSUME NEW S \in SUBSET Nat, S # {}, NEW b \in Nat, \A y \in S : y <= b
    PROVE  Max(S) \in S /\ \A y \in S : y <= Max(S)
<1> DEFINE T == {b - y : y \in S}
<1>1. \A y \in S : b - y \in Nat
  OBVIOUS
<1>2. T \in SUBSET Nat /\ T # {}
  BY <1>1
<1>3. Min(T) \in T /\ \A y \in T : Min(T) <= y
  <2> HIDE DEF T
  <2> QED BY <1>2, LeastNumber
<1>4. PICK x \in S : Min(T) = b - x
  BY <1>3
<1>5. ASSUME NEW y \in S
      PROVE  x >= y
  <2>1. b - x <= b - y
    BY <1>3, <1>4
  <2>2. x \in Nat /\ y \in Nat
    OBVIOUS
  <2> QED BY <2>1, <2>2
<1> QED BY <1>5 DEF Max

\* A catalogue's entries are numbered, and there is a last one.
Numbered(l) == DOMAIN l \subseteq Nat /\ \E b \in Nat : \A i \in DOMAIN l : i <= b

\* The place of a key is that of an entry with the key.
LEMMA PlaceOfKey ==
    ASSUME NEW l, Numbered(l), NEW k \in Keys(l)
    PROVE  Place(l, k) \in Nat /\ Place(l, k) \in DOMAIN l /\ KeyOf(l[Place(l, k)]) = k
<1>1. PICK i \in DOMAIN l : k = KeyOf(l[i])
  BY DEF Keys
<1>2. i \in Places(l, k)
  BY <1>1 DEF Places, KeyOf
<1>3. Places(l, k) \in SUBSET Nat
  BY DEF Places, Numbered
<1>4. Place(l, k) \in Places(l, k)
  BY <1>2, <1>3, LeastNumber DEF Place
<1>5. k = [vendor |-> k.vendor, name |-> k.name]
  BY <1>1 DEF KeyOf
<1> QED BY <1>3, <1>4, <1>5 DEF Places, KeyOf

\* A key's settings are those of the last entry with the key.
LEMMA RawOfKey ==
    ASSUME NEW l, Numbered(l), NEW k \in Keys(l)
    PROVE  \E i \in DOMAIN l : /\ Raw(l, k) = l[i] /\ KeyOf(l[i]) = k
                               /\ i \in Places(l, k) /\ \A j \in Places(l, k) : j <= i
<1>1. PICK j \in DOMAIN l : k = KeyOf(l[j])
  BY DEF Keys
<1>2. j \in Places(l, k)
  BY <1>1 DEF Places, KeyOf
<1>3. Places(l, k) \in SUBSET Nat
  BY DEF Places, Numbered
<1>4. PICK b \in Nat : \A i \in Places(l, k) : i <= b
  BY DEF Places, Numbered
<1>5. Max(Places(l, k)) \in Places(l, k) /\ \A i \in Places(l, k) : i <= Max(Places(l, k))
  BY <1>2, <1>3, <1>4, GreatestNumber
<1>6. k = [vendor |-> k.vendor, name |-> k.name]
  BY <1>1 DEF KeyOf
<1>7. Max(Places(l, k)) \in DOMAIN l /\ KeyOf(l[Max(Places(l, k))]) = k
  BY <1>5, <1>6 DEF Places, KeyOf
<1> QED BY <1>5, <1>7 DEF Raw

\* A catalogue has finitely many keys.
LEMMA KeysAreFinite ==
    ASSUME NEW l, Numbered(l)
    PROVE  IsFiniteSet(Keys(l)) /\ Cardinality(Keys(l)) \in Nat
<1> DEFINE f == [i \in DOMAIN l |-> KeyOf(l[i])]
<1>1. PICK b \in Nat : \A i \in DOMAIN l : i <= b
  BY DEF Numbered
<1>2. IsFiniteSet(DOMAIN l)
  BY <1>1, FS_BoundedSetOfNaturals DEF Numbered
<1>3. f \in Surjection(DOMAIN l, Keys(l))
  BY DEF Surjection, Keys
<1> QED BY <1>2, <1>3, FS_Surjection, FS_CardinalityType

\* What a lookup finds is the key of the first of the places.
LEMMA FirstFound ==
    ASSUME NEW l, Numbered(l), NEW I \in SUBSET DOMAIN l
    PROVE  /\ I = {} => First(l, I) = NoKey
           /\ I # {} => /\ First(l, I) \in Keys(l)
                        /\ \E i \in I : First(l, I) = KeyOf(l[i]) /\ \A j \in I : i <= j
<1>1. I \in SUBSET Nat
  BY DEF Numbered
<1>2. I # {} => Min(I) \in I /\ \A j \in I : Min(I) <= j
  BY <1>1, LeastNumber
<1> QED BY <1>2 DEF First, Keys

\* A parent that is found is in the catalogue.
LEMMA ParentIsKey ==
    ASSUME NEW l, Numbered(l), NEW k, Parent(l, k) # NoKey
    PROVE  Parent(l, k) \in Keys(l)
<1> DEFINE I == NamedIn(l, Raw(l, k).inherits, Category(l, k))
           Of(v) == {i \in I : l[i].vendor = v}
           P == IF Of(k.vendor) # {} THEN Of(k.vendor)
                ELSE IF Of(Library) # {} THEN Of(Library)
                ELSE IF k.vendor = User THEN I ELSE {}
<1>1. Parent(l, k) = First(l, P)
  BY DEF Parent
<1>2. P \in SUBSET DOMAIN l
  BY DEF NamedIn, Named
<1> HIDE DEF P
<1> QED BY <1>1, <1>2, FirstFound

\* The first of some keys in the order of the catalogue
Front(l, K) == CHOOSE k \in K : \A x \in K : Place(l, k) <= Place(l, x)

\* Front is the one key placed before all others.
LEMMA FrontIsFirst ==
    ASSUME NEW l, Numbered(l), NEW K \in SUBSET Keys(l), K # {}
    PROVE  /\ Front(l, K) \in K
           /\ \A x \in K \ {Front(l, K)} : Place(l, Front(l, K)) < Place(l, x)
<1> DEFINE S == {Place(l, k) : k \in K}
<1>1. S \in SUBSET Nat /\ S # {}
  BY PlaceOfKey
<1>2. PICK k \in K : \A y \in S : Place(l, k) <= y
  <2>1. Min(S) \in S /\ \A y \in S : Min(S) <= y
    BY <1>1, LeastNumber
  <2> QED BY <2>1
<1>3. \E j \in K : \A x \in K : Place(l, j) <= Place(l, x)
  BY <1>2
<1>4. Front(l, K) \in K /\ \A x \in K : Place(l, Front(l, K)) <= Place(l, x)
  BY <1>3 DEF Front
<1>5. \A x \in K \ {Front(l, K)} : Place(l, x) # Place(l, Front(l, K))
  BY <1>4, PlaceOfKey
<1> QED BY <1>4, <1>5, PlaceOfKey

-----------------------------------------------------------------------------
(* The catalogue *)

\* The user's files hold user profiles, below the names of their slots; the
\* catalogue is made of the vendors' entries and these; and two files have one
\* name only after a history of hiding.
CatalogueInv ==
    /\ shipped \in Catalogues
    /\ DOMAIN files \subseteq Range(Slots)
    /\ \A x \in DOMAIN files :
          /\ files[x].vendor = User /\ files[x].sid = x.sid
          /\ files[x].own = [f \in DOMAIN files[x].own |-> files[x].own[f]]
    /\ loaded = Entries(files)
    /\ hidden \in BOOLEAN
    /\ ~ hidden => ~ NamesMeet(files)

\* An entry of the catalogue is a vendor's, at its old place, or that of a file
\* of the user, after all vendors' entries.
LEMMA EntriesAre ==
    ASSUME shipped \in Catalogues, NEW fs
    PROVE  /\ Len(shipped) \in Nat /\ DOMAIN shipped = 1..Len(shipped)
           /\ \A i \in DOMAIN shipped :
                 i \in DOMAIN Entries(fs) /\ Entries(fs)[i] = shipped[i]
           /\ \A i \in DOMAIN Entries(fs) \ DOMAIN shipped :
                 /\ i - Len(shipped) \in DOMAIN Slots /\ i \in Nat /\ i > Len(shipped)
                 /\ Slots[i - Len(shipped)] \in DOMAIN fs
                 /\ Entries(fs)[i] = fs[Slots[i - Len(shipped)]]
           /\ \A j \in DOMAIN Slots : Slots[j] \in DOMAIN fs =>
                 /\ Len(shipped) + j \in DOMAIN Entries(fs) \ DOMAIN shipped
                 /\ Entries(fs)[Len(shipped) + j] = fs[Slots[j]]
<1> DEFINE n     == Len(shipped)
           users == {n + i : i \in {j \in DOMAIN Slots : Slots[j] \in DOMAIN fs}}
<1>1. n \in Nat /\ DOMAIN shipped = 1..n /\ Len(Slots) \in Nat /\ DOMAIN Slots = 1..Len(Slots)
  BY ResolutionAssumption
<1>2. \A i \in users : /\ i \in Nat /\ i > n /\ i - n \in DOMAIN Slots
                       /\ Slots[i - n] \in DOMAIN fs
  <2>1. ASSUME NEW j \in DOMAIN Slots, Slots[j] \in DOMAIN fs
        PROVE  n + j \in Nat /\ n + j > n /\ (n + j) - n = j
    <3> HIDE DEF n
    <3> QED BY <1>1
  <2> HIDE DEF n
  <2> QED BY <2>1
<1>3. Entries(fs) = [i \in DOMAIN shipped \cup users |->
                        IF i \in users THEN fs[Slots[i - n]] ELSE shipped[i]]
  BY DEF Entries
<1>4. \A j \in DOMAIN Slots : Slots[j] \in DOMAIN fs => n + j \in users /\ (n + j) - n = j
  <2> HIDE DEF n
  <2> QED BY <1>1
<1> HIDE DEF n, users
<1>5. DOMAIN shipped \cap users = {}
  BY <1>1, <1>2
<1>6. DOMAIN Entries(fs) = DOMAIN shipped \cup users
  BY <1>3
<1>7. \A i \in DOMAIN shipped : i \in DOMAIN Entries(fs) /\ Entries(fs)[i] = shipped[i]
  BY <1>3, <1>5
<1>8. \A i \in users : i \in DOMAIN Entries(fs) /\ Entries(fs)[i] = fs[Slots[i - n]]
  BY <1>3
<1>9. \A j \in DOMAIN Slots : Slots[j] \in DOMAIN fs =>
         n + j \in DOMAIN Entries(fs) \ DOMAIN shipped /\ Entries(fs)[n + j] = fs[Slots[j]]
  BY <1>4, <1>5, <1>8
<1> QED BY <1>1, <1>2, <1>5, <1>6, <1>7, <1>8, <1>9 DEF n

\* The entries of the vendors, with the user's, are numbered.
LEMMA EntriesNumbered ==
    ASSUME shipped \in Catalogues, NEW fs
    PROVE  Numbered(Entries(fs)) /\ Numbered(shipped)
<1>1. Len(shipped) \in Nat /\ Len(Slots) \in Nat /\ DOMAIN Slots = 1..Len(Slots)
      /\ DOMAIN shipped = 1..Len(shipped)
  BY ResolutionAssumption
<1>2. Numbered(shipped)
  BY <1>1 DEF Numbered
<1>3. ASSUME NEW i \in DOMAIN Entries(fs)
      PROVE  i \in Nat /\ i <= Len(shipped) + Len(Slots)
  <2>1. CASE i \in DOMAIN shipped
    BY <1>1, <2>1
  <2>2. CASE i \notin DOMAIN shipped
    <3>1. i - Len(shipped) \in DOMAIN Slots /\ i \in Nat
      BY <2>2, EntriesAre
    <3> QED BY <1>1, <3>1
  <2> QED BY <2>1, <2>2
<1>4. Len(shipped) + Len(Slots) \in Nat
  BY <1>1
<1>5. Numbered(Entries(fs))
  BY <1>3, <1>4 DEF Numbered
<1> QED BY <1>2, <1>5

\* What an import makes of its body is the user's, under the same name.
LEMMA MaterializedIs ==
    ASSUME NEW l, NEW p \in Payload
    PROVE  LET e == Materialized(l, p)
           IN  /\ e.vendor = User /\ e.cat = p.cat /\ e.name = p.name /\ e.sid = p.sid
               /\ e.own = [f \in DOMAIN e.own |-> e.own[f]]
<1> DEFINE e == Materialized(l, p)
           own == IF p.cat = "filament" /\ "fid" \notin DOMAIN p.own
                  THEN Merge(p.own, [fid |-> GeneratedId(p.name)]) ELSE p.own
           named == IF p.inherits = NoRef THEN NoRef ELSE ParentRef(l, p.inherits, p.cat).name
<1>1. /\ p.vendor = User /\ p.own = [f \in DOMAIN p.own |-> p.own[f]]
      /\ DOMAIN p = {"vendor", "cat", "name", "sid", "inst", "inherits", "own"}
  BY ResolutionAssumption DEF Entry
<1>2. e = [p EXCEPT !.inherits = named, !.own = own]
  BY DEF Materialized
<1>3. own = [f \in DOMAIN own |-> own[f]]
  BY <1>1 DEF Merge
<1> HIDE DEF own, named, e
<1>4. e.vendor = p.vendor /\ e.cat = p.cat /\ e.name = p.name /\ e.sid = p.sid /\ e.own = own
  BY <1>1, <1>2
<1>5. /\ e.vendor = User /\ e.cat = p.cat /\ e.name = p.name /\ e.sid = p.sid
      /\ e.own = [f \in DOMAIN e.own |-> e.own[f]]
  BY <1>1, <1>3, <1>4
<1> QED BY <1>5 DEF e

\* Storing files of the user's keeps the catalogue in order.
LEMMA StoreCatalogue ==
    ASSUME CatalogueInv, NEW fs, Store(fs), DOMAIN fs \subseteq Range(Slots),
           \A x \in DOMAIN fs : /\ fs[x].vendor = User /\ fs[x].sid = x.sid
                                /\ fs[x].own = [f \in DOMAIN fs[x].own |-> fs[x].own[f]]
    PROVE  CatalogueInv'
<1>1. /\ files' = fs /\ shipped' = shipped /\ loaded' = Entries(fs)
      /\ hidden' = (hidden \/ NamesMeet(fs))
  BY DEF Store, Load
<1>2. Entries(files)' = Entries(fs)
  BY <1>1 DEF Entries
<1>3. hidden' \in BOOLEAN /\ (~ hidden' => ~ NamesMeet(fs))
  BY <1>1
<1>4. NamesMeet(files)' = NamesMeet(fs)
  BY <1>1 DEF NamesMeet
<1> QED BY <1>1, <1>2, <1>3, <1>4 DEF CatalogueInv

\* Every step keeps the catalogue made of the files.
LEMMA StepCatalogue ==
    ASSUME CatalogueInv, [Next]_vars
    PROVE  CatalogueInv'
<1>1. ASSUME NEW p \in Payload, Import(p)
      PROVE  CatalogueInv'
  <2> DEFINE slot == [cat |-> p.cat, base |-> p.inherits = NoRef, sid |-> p.sid]
             kept == DOMAIN files \ Find(p.cat, p.sid)
             e    == Materialized(loaded, p)
             fs   == [x \in kept \cup {slot} |-> IF x = slot THEN e ELSE files[x]]
  <2>1. Store(fs)
    BY <1>1 DEF Import
  <2>2. slot \in Range(Slots) /\ slot.sid = p.sid
    BY ResolutionAssumption
  <2>3. e.vendor = User /\ e.sid = p.sid /\ e.own = [f \in DOMAIN e.own |-> e.own[f]]
    BY MaterializedIs
  <2>4. DOMAIN fs \subseteq Range(Slots)
    BY <2>2 DEF CatalogueInv
  <2>5. ASSUME NEW x \in DOMAIN fs
        PROVE  /\ fs[x].vendor = User /\ fs[x].sid = x.sid
               /\ fs[x].own = [f \in DOMAIN fs[x].own |-> fs[x].own[f]]
    <3> HIDE DEF e, slot
    <3>1. CASE x = slot
      BY <2>2, <2>3, <3>1
    <3>2. CASE x # slot
      BY <3>2 DEF CatalogueInv
    <3> QED BY <3>1, <3>2
  <2> HIDE DEF fs
  <2> QED BY <2>1, <2>4, <2>5, StoreCatalogue
<1>2. ASSUME NEW x \in DOMAIN files, Delete(x.cat, x.sid)
      PROVE  CatalogueInv'
  <2> DEFINE fs == [y \in DOMAIN files \ Find(x.cat, x.sid) |-> files[y]]
  <2>1. Store(fs)
    BY <1>2 DEF Delete
  <2>2. DOMAIN fs \subseteq DOMAIN files /\ \A y \in DOMAIN fs : fs[y] = files[y]
    OBVIOUS
  <2> HIDE DEF fs
  <2> QED BY <2>1, <2>2, StoreCatalogue DEF CatalogueInv
<1>3. CASE Reload
  BY <1>3, StoreCatalogue DEF Reload, CatalogueInv
<1>4. ASSUME UNCHANGED <<shipped, files, loaded, hidden>>
      PROVE  CatalogueInv'
  BY <1>4 DEF CatalogueInv, Entries, NamesMeet
<1>5. ASSUME NEW p \in Payload, CheckImport(p)
      PROVE  CatalogueInv'
  BY <1>4, <1>5 DEF CheckImport, Touch
<1>6. CASE Ask
  BY <1>4, <1>6 DEF Ask, GetProfile, ResolveForMachine, Materialize, Touch
<1>7. CASE UNCHANGED vars
  BY <1>4, <1>7 DEF vars
<1> QED BY <1>1, <1>2, <1>3, <1>5, <1>6, <1>7 DEF Next

\* The service starts with the vendors' catalogue and no files.
LEMMA InitCatalogue == ASSUME Init PROVE CatalogueInv
<1>1. shipped \in Catalogues /\ files = <<>> /\ loaded = shipped /\ hidden = FALSE
  BY DEF Init
<1>2. DOMAIN files = {}
  BY <1>1
<1>3. shipped \in Seq(Range(shipped))
  BY <1>1, ResolutionAssumption
<1>4. Entries(files) = [i \in DOMAIN shipped |-> shipped[i]]
  BY <1>2 DEF Entries
<1>5. Entries(files) = shipped
  BY <1>3, <1>4
<1> QED BY <1>1, <1>2, <1>5 DEF CatalogueInv, NamesMeet

\* CatalogueInv is an invariant of the service.
LEMMA CatalogueInvariant == Spec => []CatalogueInv
<1>1. Init => CatalogueInv
  BY InitCatalogue
<1>2. CatalogueInv /\ [Next]_vars => CatalogueInv'
  BY StepCatalogue
<1> QED BY <1>1, <1>2, PTL DEF Spec

-----------------------------------------------------------------------------
(* The replacement for another machine *)

\* The score puts the candidates in the order of their ranks.
LEMMA ScoreIsRank ==
    ASSUME NEW l, NEW m, NEW name, NEW trait, NEW preferred, NEW k, k.name # name
    PROVE  \/ /\ Score(l, m, k, AliasOf(name), trait, preferred) = 1000
              /\ Rank(l, m, k, name, trait, preferred) = 4
           \/ /\ Score(l, m, k, AliasOf(name), trait, preferred) = 30
              /\ Rank(l, m, k, name, trait, preferred) = 3
           \/ /\ Score(l, m, k, AliasOf(name), trait, preferred) = 20
              /\ Rank(l, m, k, name, trait, preferred) = 2
           \/ /\ Score(l, m, k, AliasOf(name), trait, preferred) = 3
              /\ Rank(l, m, k, name, trait, preferred) = 1
           \/ /\ Score(l, m, k, AliasOf(name), trait, preferred) = 2
              /\ Rank(l, m, k, name, trait, preferred) = 0
<1> DEFINE T == trait # {} /\ Setting(Resolve(l, m, k), "trait") = trait
           P == k.name \in preferred
           A == Alias[k.name] = AliasOf(name)
<1>1. Score(l, m, k, AliasOf(name), trait, preferred) =
         IF A THEN 1000 ELSE (2 + IF P THEN 1 ELSE 0) * (IF T THEN 10 ELSE 1)
  BY DEF Score, Huge
<1>2. Rank(l, m, k, name, trait, preferred) =
         IF A THEN 4 ELSE 2 * (IF T THEN 1 ELSE 0) + (IF P THEN 1 ELSE 0)
  BY DEF Rank
<1> HIDE DEF A, P, T
<1>3. CASE A
  BY <1>1, <1>2, <1>3
<1>4. CASE ~ A /\ T
  BY <1>1, <1>2, <1>4
<1>5. CASE ~ A /\ ~ T
  BY <1>1, <1>2, <1>5
<1> QED BY <1>3, <1>4, <1>5

\* Among any candidates the choice is the best, and the first of the best.
LEMMA ChoiceIsBest ==
    ASSUME NEW l, Numbered(l), NEW m, NEW C \in SUBSET Keys(l), C # {},
           NEW name, NEW trait, NEW preferred
    PROVE  IsBest(l, MatchAmong(l, m, C, name, trait, preferred),
                  [k \in C |-> Rank(l, m, k, name, trait, preferred)])
<1> DEFINE same == {k \in C : k.name = name}
           s    == [k \in C |-> Score(l, m, k, AliasOf(name), trait, preferred)]
           rank == [k \in C |-> Rank(l, m, k, name, trait, preferred)]
           best == {k \in C : \A x \in C : s[x] <= s[k]}
           c    == MatchAmong(l, m, C, name, trait, preferred)
<1>1. c = IF same # {} THEN Front(l, same) ELSE Front(l, best)
  BY DEF MatchAmong, Front
<1>2. \A k \in same : rank[k] = 5
  BY DEF Rank
<1>3. \A k \in C \ same : rank[k] \in 0..4
  BY ScoreIsRank
<1>4. CASE same # {}
  <2>1. same \in SUBSET Keys(l)
    OBVIOUS
  <2>2. c \in same /\ \A x \in same \ {c} : Place(l, c) < Place(l, x)
    <3> HIDE DEF same, c
    <3> QED BY <1>1, <1>4, <2>1, FrontIsFirst
  <2>3. c \in C /\ same \subseteq C
    BY <2>2
  <2>4. DOMAIN rank = C
    OBVIOUS
  <2> HIDE DEF same, rank, c
  <2>5. \A x \in C \ {c} : \/ rank[x] < rank[c]
                           \/ rank[x] = rank[c] /\ Place(l, c) < Place(l, x)
    BY <1>2, <1>3, <2>2
  <2> QED BY <2>3, <2>4, <2>5 DEF IsBest, rank, c
<1>5. CASE same = {}
  <2>1. ASSUME NEW k \in C
        PROVE  \/ s[k] = 1000 /\ rank[k] = 4
               \/ s[k] = 30 /\ rank[k] = 3
               \/ s[k] = 20 /\ rank[k] = 2
               \/ s[k] = 3 /\ rank[k] = 1
               \/ s[k] = 2 /\ rank[k] = 0
    BY <1>5, ScoreIsRank
  <2>2. best # {}
    <3> HIDE DEF s, rank
    <3> DEFINE S == {1000 - s[k] : k \in C}
    <3>1. \A k \in C : 1000 - s[k] \in Nat
      BY <2>1
    <3>2. S \in SUBSET Nat /\ S # {}
      BY <3>1
    <3>3. Min(S) \in S /\ \A y \in S : Min(S) <= y
      <4> HIDE DEF S
      <4> QED BY <3>2, LeastNumber
    <3>4. PICK k \in C : Min(S) = 1000 - s[k]
      BY <3>3
    <3>5. ASSUME NEW x \in C
          PROVE  s[x] <= s[k]
      <4>1. 1000 - s[k] <= 1000 - s[x]
        BY <3>3, <3>4
      <4>2. s[k] \in Nat /\ s[x] \in Nat
        BY <2>1
      <4> QED BY <4>1, <4>2
    <3> QED BY <3>5
  <2>3. best \in SUBSET Keys(l)
    OBVIOUS
  <2>4. c \in best /\ \A x \in best \ {c} : Place(l, c) < Place(l, x)
    <3> HIDE DEF best, same, c
    <3> QED BY <1>1, <1>5, <2>2, <2>3, FrontIsFirst
  <2>5. DOMAIN rank = C
    OBVIOUS
  <2> HIDE DEF s, rank, c, same
  <2>6. ASSUME NEW x \in C \ {c}
        PROVE  \/ rank[x] < rank[c]
               \/ rank[x] = rank[c] /\ Place(l, c) < Place(l, x)
    <3>1. c \in C /\ s[x] <= s[c]
      BY <2>4
    <3>2. CASE s[x] = s[c]
      <4>1. x \in best
        BY <2>4, <3>2
      <4>2. rank[x] = rank[c]
        BY <2>1, <3>1, <3>2
      <4> QED BY <2>4, <4>1, <4>2
    <3>3. CASE s[x] # s[c]
      BY <2>1, <3>1, <3>3
    <3> QED BY <3>2, <3>3
  <2>7. c \in C
    BY <2>4
  <2> QED BY <2>5, <2>6, <2>7 DEF IsBest, rank, c
<1> QED BY <1>4, <1>5

\* The replacement found for a machine is compatible with it and the best of
\* those that are, and the first of the best in the order of the catalogue, for
\* any catalogue, any user profiles and whatever has been memoised.
THEOREM ReplacementIsBest == Spec => []MatchIsBest
<1>1. CatalogueInv => MatchIsBest
  <2> SUFFICES ASSUME CatalogueInv PROVE MatchIsBest
    OBVIOUS
  <2>1. \A s, c : Candidates(loaded, memo, s, c) \in SUBSET Keys(loaded)
    BY DEF Candidates, Instances
  <2>2. Numbered(loaded)
    BY EntriesNumbered DEF CatalogueInv
  <2> QED BY <2>1, <2>2, ChoiceIsBest DEF MatchIsBest, Match
<1> QED BY <1>1, CatalogueInvariant, PTL

-----------------------------------------------------------------------------
(* Chains *)

\* Keys each of which has the next one as its parent
Linked(l, d) ==
    /\ d \in Seq(Keys(l)) /\ Len(d) >= 1
    /\ \A i \in 1..(Len(d) - 1) : HasParent(l, d[i]) /\ d[i + 1] = Parent(l, d[i])

\* ... the last of which has none
Stops(l, d) == Linked(l, d) /\ ~ HasParent(l, d[Len(d)])

\* The chain w, grown by the n-th parent if it has come that far
Grown(l, w, n) ==
    IF Len(w) = n /\ HasParent(l, w[n]) THEN Append(w, Parent(l, w[n])) ELSE w

\* The function that Chain defines by recursion
Walks(l, k, n, f) ==
    f = [i \in 0..n |-> IF i = 0 THEN <<k>> ELSE Grown(l, f[i - 1], i)]

\* The function Chain is defined by exists; by the least n without one.
LEMMA WalkExists ==
    ASSUME NEW l, NEW k, NEW n \in Nat
    PROVE  \E f : Walks(l, k, n, f)
<1> DEFINE Bad == {j \in Nat : ~ \E f : Walks(l, k, j, f)}
<1> SUFFICES ASSUME Bad # {} PROVE FALSE
  OBVIOUS
<1> DEFINE j == Min(Bad)
<1>1. j \in Nat /\ (~ \E f : Walks(l, k, j, f)) /\ \A y \in Bad : j <= y
  <2>1. Bad \in SUBSET Nat
    OBVIOUS
  <2>2. j \in Bad /\ \A y \in Bad : j <= y
    <3> HIDE DEF Bad
    <3> QED BY <2>1, LeastNumber
  <2> QED BY <2>2
<1> HIDE DEF j, Bad
<1>2. CASE j = 0
  <2>1. Walks(l, k, 0, [i \in 0..0 |-> <<k>>])
    BY DEF Walks
  <2> QED BY <1>1, <1>2, <2>1
<1>3. CASE j # 0
  <2>1. j - 1 \in Nat /\ j - 1 \notin Bad
    BY <1>1, <1>3
  <2>2. PICK g : Walks(l, k, j - 1, g)
    BY <2>1 DEF Bad
  <2> DEFINE f == [i \in 0..j |-> IF i = j THEN Grown(l, g[j - 1], j) ELSE g[i]]
  <2>3. \A i \in 0..(j - 1) : g[i] = IF i = 0 THEN <<k>> ELSE Grown(l, g[i - 1], i)
    BY <2>2 DEF Walks
  <2>4. \A i \in 0..j : f[i] = IF i = 0 THEN <<k>> ELSE Grown(l, f[i - 1], i)
    <3>1. \A i \in 0..(j - 1) : f[i] = g[i]
      BY <1>1
    <3>2. f[j] = Grown(l, g[j - 1], j)
      BY <1>1
    <3> HIDE DEF f
    <3>3. ASSUME NEW i \in 0..j
          PROVE  f[i] = IF i = 0 THEN <<k>> ELSE Grown(l, f[i - 1], i)
      <4>1. CASE i = j
        <5>1. f[j - 1] = g[j - 1]
          BY <1>1, <1>3, <3>1
        <5> QED BY <1>3, <3>2, <4>1, <5>1
      <4>2. CASE i = 0
        BY <1>1, <1>3, <2>3, <3>1, <4>2
      <4>3. CASE i # j /\ i # 0
        <5>1. i \in 0..(j - 1) /\ i - 1 \in 0..(j - 1)
          BY <1>1, <4>3
        <5>2. g[i] = Grown(l, g[i - 1], i)
          BY <2>3, <4>3, <5>1
        <5> QED BY <3>1, <4>3, <5>1, <5>2
      <4> QED BY <4>1, <4>2, <4>3
    <3> QED BY <3>3
  <2>5. f = [i \in 0..j |-> f[i]]
    OBVIOUS
  <2> HIDE DEF f
  <2>6. Walks(l, k, j, f)
    BY <2>4, <2>5 DEF Walks
  <2> QED BY <1>1, <2>6
<1> QED BY <1>2, <1>3

\* A chain is linked, and stops unless it has one key more than there are.
LEMMA ChainIs ==
    ASSUME NEW l, Numbered(l), NEW k \in Keys(l)
    PROVE  /\ Linked(l, Chain(l, k)) /\ Chain(l, k)[1] = k
           /\ Len(Chain(l, k)) <= Cardinality(Keys(l)) + 1
           /\ Len(Chain(l, k)) <= Cardinality(Keys(l)) => Stops(l, Chain(l, k))
<1> DEFINE N == Cardinality(Keys(l))
<1>1. N \in Nat
  BY KeysAreFinite
<1>2. PICK f : Walks(l, k, N, f) /\ Chain(l, k) = f[N]
  <2>1. \E g : Walks(l, k, N, g)
    BY <1>1, WalkExists
  <2> QED BY <2>1 DEF Chain, Walks, Grown
<1>3. \A i \in 0..N : f[i] = IF i = 0 THEN <<k>> ELSE Grown(l, f[i - 1], i)
  BY <1>2 DEF Walks
<1> HIDE DEF N
<1> DEFINE Good(i) == /\ Linked(l, f[i]) /\ f[i][1] = k /\ Len(f[i]) <= i + 1
                      /\ Len(f[i]) <= i => Stops(l, f[i])
           Bad     == {i \in 0..N : ~ Good(i)}
<1>4. Good(0)
  <2>1. f[0] = <<k>>
    BY <1>1, <1>3
  <2> QED BY <2>1 DEF Linked
<1>5. ASSUME NEW i \in 1..N, Good(i - 1)
      PROVE  Good(i)
  <2> DEFINE w == f[i - 1]
  <2>1. f[i] = Grown(l, w, i)
    BY <1>1, <1>3
  <2>2. Linked(l, w) /\ w[1] = k /\ Len(w) <= i /\ (Len(w) <= i - 1 => Stops(l, w))
    BY <1>1, <1>5
  <2>3. w \in Seq(Keys(l)) /\ Len(w) \in Nat /\ Len(w) >= 1
    BY <2>2 DEF Linked
  <2>4. CASE Len(w) = i /\ HasParent(l, w[i])
    <3> DEFINE p == Parent(l, w[i])
               d == Append(w, p)
    <3>1. f[i] = d /\ p \in Keys(l)
      BY <2>1, <2>4, ParentIsKey DEF Grown, HasParent
    <3>2. /\ d \in Seq(Keys(l)) /\ Len(d) = i + 1 /\ d[i + 1] = p
          /\ \A j \in 1..i : d[j] = w[j]
      <4> HIDE DEF p, w
      <4> QED BY <2>3, <2>4, <3>1
    <3> HIDE DEF d
    <3>3. \A j \in 1..(Len(d) - 1) : HasParent(l, d[j]) /\ d[j + 1] = Parent(l, d[j])
      <4>1. ASSUME NEW j \in 1..(Len(d) - 1)
            PROVE  HasParent(l, d[j]) /\ d[j + 1] = Parent(l, d[j])
        <5> HIDE DEF w
        <5>1. CASE j = i
          BY <2>4, <3>2, <5>1 DEF w
        <5>2. CASE j # i
          <6>1. j \in 1..(Len(w) - 1) /\ j + 1 \in 1..i /\ j \in 1..i
            BY <2>4, <3>2, <5>2
          <6>2. HasParent(l, w[j]) /\ w[j + 1] = Parent(l, w[j])
            BY <2>2, <6>1 DEF Linked
          <6> QED BY <3>2, <6>1, <6>2
        <5> QED BY <5>1, <5>2
      <4> QED BY <4>1
    <3>4. d[1] = k
      BY <2>2, <3>2
    <3>5. Linked(l, d) /\ Len(d) <= i + 1 /\ ~ (Len(d) <= i)
      BY <3>2, <3>3 DEF Linked
    <3> QED BY <3>1, <3>4, <3>5
  <2>5. CASE ~ (Len(w) = i /\ HasParent(l, w[i]))
    <3>1. f[i] = w
      BY <2>1, <2>5 DEF Grown
    <3> HIDE DEF w
    <3>2. Stops(l, w)
      <4>1. CASE Len(w) = i
        BY <2>2, <2>5, <4>1 DEF Stops
      <4>2. CASE Len(w) # i
        BY <2>2, <2>3, <4>2
      <4> QED BY <4>1, <4>2
    <3> QED BY <2>2, <2>3, <3>1, <3>2
  <2> QED BY <2>4, <2>5
<1>6. Bad = {}
  <2> SUFFICES ASSUME Bad # {} PROVE FALSE
    OBVIOUS
  <2>1. Bad \in SUBSET Nat
    BY <1>1
  <2>2. Min(Bad) \in Bad /\ \A y \in Bad : Min(Bad) <= y
    <3> HIDE DEF Bad
    <3> QED BY <2>1, LeastNumber
  <2> DEFINE i == Min(Bad)
  <2> HIDE DEF Good
  <2>3. i \in 0..N /\ ~ Good(i)
    BY <2>2
  <2>4. i \in 1..N
    BY <1>1, <1>4, <2>3
  <2>5. i - 1 \in 0..N /\ i - 1 \notin Bad
    BY <1>1, <2>2, <2>4
  <2>6. Good(i - 1)
    BY <2>5
  <2> QED BY <1>5, <2>3, <2>4, <2>6
<1>7. Good(N)
  <2> HIDE DEF Good
  <2> QED BY <1>1, <1>6
<1> QED BY <1>2, <1>7 DEF N

\* Linked keys that start alike go on alike.
LEMMA LinkedAgree ==
    ASSUME NEW l, NEW c, NEW d, Linked(l, c), Linked(l, d), c[1] = d[1],
           NEW n \in Nat, n >= 1, n <= Len(c), n <= Len(d)
    PROVE  c[n] = d[n]
<1>1. Len(c) \in Nat /\ Len(d) \in Nat
  BY DEF Linked
<1> DEFINE Bad == {i \in Nat : i >= 1 /\ i <= Len(c) /\ i <= Len(d) /\ c[i] # d[i]}
<1> SUFFICES ASSUME Bad # {} PROVE FALSE
  OBVIOUS
<1> DEFINE i == Min(Bad)
<1>2. i \in Bad /\ \A j \in Bad : i <= j
  <2>1. Bad \in SUBSET Nat
    OBVIOUS
  <2> HIDE DEF Bad
  <2> QED BY <2>1, LeastNumber
<1>3. i \in Nat /\ i >= 2 /\ i <= Len(c) /\ i <= Len(d) /\ c[i] # d[i]
  <2> HIDE DEF i
  <2> QED BY <1>2
<1>4. i - 1 \notin Bad
  <2> HIDE DEF i, Bad
  <2> QED BY <1>2, <1>3
<1> HIDE DEF i
<1>5. c[i - 1] = d[i - 1]
  BY <1>3, <1>4
<1>6. i - 1 \in 1..(Len(c) - 1) /\ i - 1 \in 1..(Len(d) - 1) /\ (i - 1) + 1 = i
  BY <1>1, <1>3
<1>7. c[i] = Parent(l, c[i - 1]) /\ d[i] = Parent(l, d[i - 1])
  BY <1>6 DEF Linked
<1> QED BY <1>3, <1>5, <1>7

\* Of linked keys that start alike, those that stop are not the shorter ones.
LEMMA StopsIsLonger ==
    ASSUME NEW l, NEW c, NEW d, Linked(l, c), Stops(l, d), c[1] = d[1]
    PROVE  Len(c) <= Len(d)
<1>1. Len(c) \in Nat /\ Len(d) \in Nat /\ Len(d) >= 1 /\ Linked(l, d)
  BY DEF Linked, Stops
<1> SUFFICES ASSUME Len(d) < Len(c) PROVE FALSE
  BY <1>1
<1>2. c[Len(d)] = d[Len(d)]
  BY <1>1, LinkedAgree
<1>3. Len(d) \in 1..(Len(c) - 1)
  BY <1>1
<1> QED BY <1>2, <1>3 DEF Linked, Stops

\* Two walks to a root from one key are the same.
LEMMA StopsUnique ==
    ASSUME NEW l, NEW c, NEW d, Stops(l, c), Stops(l, d), c[1] = d[1]
    PROVE  c = d
<1>1. c \in Seq(Keys(l)) /\ d \in Seq(Keys(l)) /\ Linked(l, c) /\ Linked(l, d)
  BY DEF Linked, Stops
<1>2. Len(c) = Len(d)
  BY <1>1, StopsIsLonger
<1>3. \A i \in 1..Len(c) : c[i] = d[i]
  BY <1>1, <1>2, LinkedAgree
<1> QED BY <1>1, <1>2, <1>3

\* From any of its keys on, a chain that stops is one.
LEMMA StopsFrom ==
    ASSUME NEW l, NEW c, Stops(l, c), NEW j \in 1..Len(c)
    PROVE  LET d == SubSeq(c, j, Len(c))
           IN  /\ Stops(l, d) /\ d[1] = c[j] /\ Len(d) = Len(c) - j + 1
               /\ \A i \in 1..Len(d) : d[i] = c[i + j - 1]
               /\ d[Len(d)] = c[Len(c)]
<1> DEFINE d == SubSeq(c, j, Len(c))
<1>1. c \in Seq(Keys(l)) /\ Len(c) \in Nat /\ Len(c) >= 1
  BY DEF Stops, Linked
<1>2. d \in Seq(Keys(l)) /\ Len(d) = Len(c) - j + 1 /\ \A i \in 1..Len(d) : d[i] = c[i + j - 1]
  BY <1>1
<1> HIDE DEF d
<1>3. d[1] = c[j] /\ d[Len(d)] = c[Len(c)] /\ Len(d) >= 1
  BY <1>1, <1>2
<1>4. ASSUME NEW i \in 1..(Len(d) - 1)
      PROVE  HasParent(l, d[i]) /\ d[i + 1] = Parent(l, d[i])
  <2>1. i + j - 1 \in 1..(Len(c) - 1) /\ i \in 1..Len(d) /\ i + 1 \in 1..Len(d)
        /\ (i + j - 1) + 1 = (i + 1) + j - 1
    BY <1>1, <1>2
  <2>2. HasParent(l, c[i + j - 1]) /\ c[(i + j - 1) + 1] = Parent(l, c[i + j - 1])
    BY <2>1 DEF Stops, Linked
  <2> QED BY <1>2, <2>1, <2>2
<1>5. Stops(l, d)
  BY <1>2, <1>3, <1>4 DEF Stops, Linked
<1> QED BY <1>2, <1>3, <1>5 DEF d

\* A chain that stops does not come back, so it has no more keys than there are.
LEMMA StopsInTime ==
    ASSUME NEW l, Numbered(l), NEW c, Stops(l, c)
    PROVE  Len(c) <= Cardinality(Keys(l))
<1>1. IsFiniteSet(Keys(l)) /\ Cardinality(Keys(l)) \in Nat
  BY KeysAreFinite
<1>2. c \in Seq(Keys(l)) /\ Len(c) \in Nat /\ c \in [1..Len(c) -> Keys(l)]
  BY DEF Stops, Linked
<1> SUFFICES ASSUME Cardinality(Keys(l)) < Len(c) PROVE FALSE
  BY <1>1, <1>2
<1>3. IsFiniteSet(1..Len(c)) /\ Cardinality(1..Len(c)) = Len(c)
  BY <1>2, FS_Interval
<1>4. \E a, b \in 1..Len(c) : a # b /\ c[a] = c[b]
  BY <1>1, <1>2, <1>3, FS_PigeonHole
<1>5. PICK a \in 1..Len(c), b \in 1..Len(c) : a # b /\ c[a] = c[b]
  BY <1>4
<1>6. SubSeq(c, a, Len(c)) = SubSeq(c, b, Len(c))
  <2> DEFINE x == SubSeq(c, a, Len(c))
             y == SubSeq(c, b, Len(c))
  <2>1. Stops(l, x) /\ x[1] = c[a] /\ Stops(l, y) /\ y[1] = c[b]
    BY StopsFrom
  <2> HIDE DEF x, y
  <2>2. x = y
    BY <1>5, <2>1, StopsUnique
  <2> QED BY <2>2 DEF x, y
<1>7. Len(SubSeq(c, a, Len(c))) = Len(c) - a + 1 /\ Len(SubSeq(c, b, Len(c))) = Len(c) - b + 1
  BY <1>2
<1> QED BY <1>2, <1>5, <1>6, <1>7

\* Keys that are linked from k and stop are its chain.
LEMMA StopsIsChain ==
    ASSUME NEW l, Numbered(l), NEW d, Stops(l, d)
    PROVE  d[1] \in Keys(l) /\ Chain(l, d[1]) = d
<1>1. d \in Seq(Keys(l)) /\ Len(d) \in Nat /\ Len(d) >= 1 /\ d[1] \in Keys(l)
  BY DEF Stops, Linked
<1> DEFINE c == Chain(l, d[1])
<1>2. /\ Linked(l, c) /\ c[1] = d[1]
      /\ Len(c) <= Cardinality(Keys(l)) => Stops(l, c)
  BY <1>1, ChainIs
<1>3. Len(d) <= Cardinality(Keys(l)) /\ Cardinality(Keys(l)) \in Nat
  BY StopsInTime, KeysAreFinite
<1> HIDE DEF c
<1>4. Len(c) <= Len(d) /\ Len(c) \in Nat
  BY <1>2, StopsIsLonger DEF Linked
<1>5. Stops(l, c)
  BY <1>1, <1>2, <1>3, <1>4
<1>6. c = d
  BY <1>2, <1>5, StopsUnique
<1> QED BY <1>1, <1>6 DEF c

\* The chain of a rooted key stops, and each of its keys has the rest of it as
\* its chain.
LEMMA RootedStops ==
    ASSUME NEW l, Numbered(l), NEW k \in Keys(l), Rooted(l, k)
    PROVE  /\ Stops(l, Chain(l, k))
           /\ \A j \in 1..Len(Chain(l, k)) :
                 /\ Chain(l, Chain(l, k)[j]) = SubSeq(Chain(l, k), j, Len(Chain(l, k)))
                 /\ Rooted(l, Chain(l, k)[j])
                 /\ Chain(l, k)[j] \in Keys(l)
<1> DEFINE c == Chain(l, k)
<1>1. Linked(l, c) /\ Raw(l, c[Len(c)]).inherits = NoRef
  BY ChainIs DEF Rooted, EndsInRoot
<1>2. Stops(l, c)
  BY <1>1 DEF Stops, HasParent
<1> HIDE DEF c
<1>3. ASSUME NEW j \in 1..Len(c)
      PROVE  Chain(l, c[j]) = SubSeq(c, j, Len(c)) /\ Rooted(l, c[j]) /\ c[j] \in Keys(l)
  <2> DEFINE d == SubSeq(c, j, Len(c))
  <2>1. Stops(l, d) /\ d[1] = c[j] /\ d[Len(d)] = c[Len(c)]
    BY <1>2, StopsFrom
  <2> HIDE DEF d
  <2>2. Chain(l, c[j]) = d /\ c[j] \in Keys(l)
    BY <2>1, StopsIsChain
  <2>3. Rooted(l, c[j])
    BY <1>1, <2>1, <2>2 DEF Rooted, EndsInRoot
  <2> QED BY <2>2, <2>3 DEF d
<1> QED BY <1>2, <1>3 DEF c

\* A key whose chain meets a rooted one is rooted.
LEMMA MeetsRooted ==
    ASSUME NEW l, Numbered(l), NEW k \in Keys(l), NEW y \in Range(Chain(l, k)), Rooted(l, y)
    PROVE  Rooted(l, k)
<1> DEFINE c == Chain(l, k)
           e == Chain(l, y)
<1>1. Linked(l, c) /\ c[1] = k /\ c \in Seq(Keys(l)) /\ Len(c) \in Nat
  BY ChainIs DEF Linked
<1>2. PICK j \in 1..Len(c) : y = c[j]
  BY <1>1 DEF Range
<1>3. y \in Keys(l)
  <2> HIDE DEF c
  <2> QED BY <1>1, <1>2
<1>4. Stops(l, e) /\ e[1] = y
  BY <1>3, RootedStops, ChainIs
<1>5. Raw(l, e[Len(e)]).inherits = NoRef
  BY DEF Rooted, EndsInRoot
<1> HIDE DEF c, e
<1>6. e \in Seq(Keys(l)) /\ Len(e) \in Nat /\ Len(e) >= 1
  BY <1>4 DEF Stops, Linked
<1> DEFINE n == j + Len(e) - 1
           d == [i \in 1..n |-> IF i <= j THEN c[i] ELSE e[i - j + 1]]
<1>7. n \in Nat /\ n >= j /\ n >= 1
  BY <1>1, <1>6
<1>8. \A i \in 1..n : (i <= j => i \in 1..Len(c)) /\ (i >= j => i - j + 1 \in 1..Len(e))
  BY <1>1, <1>6
<1>9. \A i \in 1..n : d[i] \in Keys(l)
  BY <1>1, <1>6, <1>8
<1>10. d \in Seq(Keys(l)) /\ Len(d) = n
  BY <1>7, <1>9
<1>11. \A i \in 1..n : (i <= j => d[i] = c[i]) /\ (i >= j => d[i] = e[i - j + 1])
  BY <1>2, <1>4
<1> HIDE DEF d
<1>12. ASSUME NEW i \in 1..(n - 1)
       PROVE  HasParent(l, d[i]) /\ d[i + 1] = Parent(l, d[i])
  <2>1. i \in 1..n /\ i + 1 \in 1..n
    BY <1>7
  <2>2. CASE i < j
    <3>1. i \in 1..(Len(c) - 1) /\ i <= j /\ i + 1 <= j
      BY <1>1, <2>2
    <3>2. HasParent(l, c[i]) /\ c[i + 1] = Parent(l, c[i])
      BY <1>1, <3>1 DEF Linked
    <3> QED BY <1>11, <2>1, <3>1, <3>2
  <2>3. CASE i >= j
    <3>1. i - j + 1 \in 1..(Len(e) - 1) /\ (i - j + 1) + 1 = (i + 1) - j + 1 /\ i + 1 >= j
      BY <1>6, <2>1, <2>3
    <3>2. HasParent(l, e[i - j + 1]) /\ e[(i - j + 1) + 1] = Parent(l, e[i - j + 1])
      BY <1>4, <3>1 DEF Stops, Linked
    <3> QED BY <1>11, <2>1, <2>3, <3>1, <3>2
  <2> QED BY <1>1, <2>2, <2>3
<1>13. d[n] = e[Len(e)] /\ d[1] = k
  <2>1. n \in 1..n /\ 1 \in 1..n /\ n - j + 1 = Len(e) /\ n >= j /\ 1 <= j
    BY <1>6, <1>7
  <2> QED BY <1>1, <1>11, <2>1
<1> HIDE DEF n
<1>14. Stops(l, d)
  <2>1. ~ HasParent(l, e[Len(e)])
    BY <1>4 DEF Stops
  <2> QED BY <1>7, <1>10, <1>12, <1>13, <2>1 DEF Stops, Linked
<1>15. c = d
  BY <1>13, <1>14, StopsIsChain DEF c
<1> QED BY <1>5, <1>10, <1>13, <1>15 DEF Rooted, EndsInRoot, c

-----------------------------------------------------------------------------
(* What a resolution returns, and what is memoised of it *)

Own(l, k) == Raw(l, k).own

\* An entry's own settings are a function.
OwnsAreFunctions(l) == \A i \in DOMAIN l : l[i].own = [f \in DOMAIN l[i].own |-> l[i].own[f]]

SettersFrom(l, c, j, f) == {i \in j..Len(c) : f \in DOMAIN Own(l, c[i])}

\* NearestAlong for the part of c that starts at j
From(l, c, j) ==
    [f \in UNION {DOMAIN Own(l, c[i]) : i \in j..Len(c)} |->
        Own(l, c[Min(SettersFrom(l, c, j, f))])[f]]

\* The own settings of a key are a function.
LEMMA OwnIsFunction ==
    ASSUME NEW l, Numbered(l), OwnsAreFunctions(l), NEW k \in Keys(l)
    PROVE  Own(l, k) = [f \in DOMAIN Own(l, k) |-> Own(l, k)[f]]
  BY RawOfKey DEF Own, OwnsAreFunctions

\* From the last of a chain on, its own settings are all there is.
LEMMA FromEnd ==
    ASSUME NEW l, NEW c, Len(c) \in Nat, Len(c) >= 1,
           Own(l, c[Len(c)]) = [f \in DOMAIN Own(l, c[Len(c)]) |-> Own(l, c[Len(c)])[f]]
    PROVE  From(l, c, Len(c)) = Own(l, c[Len(c)])
<1> DEFINE n == Len(c)
           o == Own(l, c[n])
<1>1. n..n = {n}
  OBVIOUS
<1>2. UNION {DOMAIN Own(l, c[i]) : i \in n..n} = DOMAIN o
  <2> HIDE DEF n
  <2> QED BY <1>1
<1>3. ASSUME NEW f \in DOMAIN o
      PROVE  Min(SettersFrom(l, c, n, f)) = n
  <2> DEFINE S == SettersFrom(l, c, n, f)
  <2>1. S = {n}
    BY <1>1, <1>3 DEF SettersFrom
  <2>2. Min(S) \in S
    <3>1. S \in SUBSET Nat /\ S # {}
      BY <2>1
    <3> HIDE DEF S
    <3> QED BY <3>1, LeastNumber
  <2> QED BY <2>1, <2>2
<1>4. From(l, c, n) = [f \in DOMAIN o |-> o[f]]
  <2> HIDE DEF o
  <2> QED BY <1>2, <1>3 DEF From, o
<1> QED BY <1>4

\* What holds from a link on is what holds behind it, overridden by its own.
LEMMA FromStep ==
    ASSUME NEW l, NEW c, Len(c) \in Nat, NEW j \in Nat, j >= 1, j < Len(c)
    PROVE  From(l, c, j) = Merge(From(l, c, j + 1), Own(l, c[j]))
<1> DEFINE o == Own(l, c[j])
           R(i) == UNION {DOMAIN Own(l, c[x]) : x \in i..Len(c)}
<1>1. \A x : x \in j..Len(c) <=> x = j \/ x \in (j + 1)..Len(c)
  OBVIOUS
<1>2. R(j) = R(j + 1) \cup DOMAIN o
  BY <1>1
<1>3. ASSUME NEW f \in DOMAIN o
      PROVE  Min(SettersFrom(l, c, j, f)) = j
  <2> DEFINE S == SettersFrom(l, c, j, f)
  <2>1. S \in SUBSET Nat /\ j \in S /\ \A y \in S : j <= y
    BY <1>1, <1>3 DEF SettersFrom
  <2> HIDE DEF S
  <2>2. Min(S) \in S /\ \A y \in S : Min(S) <= y
    BY <2>1, LeastNumber
  <2>3. Min(S) \in Nat /\ j <= Min(S) /\ Min(S) <= j
    BY <2>1, <2>2
  <2> QED BY <2>3 DEF S
<1>4. ASSUME NEW f, f \notin DOMAIN o
      PROVE  SettersFrom(l, c, j, f) = SettersFrom(l, c, j + 1, f)
  BY <1>1, <1>4 DEF SettersFrom
<1> DEFINE P == From(l, c, j + 1)
           V(f) == Own(l, c[Min(SettersFrom(l, c, j, f))])[f]
           W(f) == Own(l, c[Min(SettersFrom(l, c, j + 1, f))])[f]
<1>5. DOMAIN P = R(j + 1) /\ \A f \in R(j + 1) : P[f] = W(f)
  BY DEF From
<1>6. From(l, c, j) = [f \in R(j) |-> V(f)]
  BY DEF From
<1>7. \A f \in DOMAIN o : V(f) = o[f]
  BY <1>3
<1>8. \A f : f \notin DOMAIN o => V(f) = W(f)
  BY <1>4
<1>9. Merge(P, o) = [f \in DOMAIN P \cup DOMAIN o |-> IF f \in DOMAIN o THEN o[f] ELSE P[f]]
  BY DEF Merge
<1> HIDE DEF P, V, W, o, R
<1>10. Merge(P, o) = [f \in R(j) |-> V(f)]
  BY <1>2, <1>5, <1>7, <1>8, <1>9
<1> QED BY <1>6, <1>10 DEF P, o

\* The settings of the rest of a chain by definition
LEMMA FromIsNearest ==
    ASSUME NEW l, NEW c \in Seq(Keys(l)), NEW j \in 1..Len(c)
    PROVE  NearestAlong(l, SubSeq(c, j, Len(c))) = From(l, c, j)
<1> DEFINE d == SubSeq(c, j, Len(c))
           n == Len(c)
<1>1. n \in Nat /\ d \in Seq(Keys(l)) /\ Len(d) = n - j + 1
      /\ \A i \in 1..Len(d) : d[i] = c[i + j - 1]
  OBVIOUS
<1>2. DOMAIN d = 1..Len(d)
  <2> HIDE DEF d
  <2> QED BY <1>1
<1> HIDE DEF d, n
<1>3. \A i \in 1..Len(d) : i + j - 1 \in j..n
  BY <1>1
<1>4. \A i \in j..n : i - j + 1 \in 1..Len(d) /\ d[i - j + 1] = c[i]
  <2>1. ASSUME NEW i \in j..n
        PROVE  i - j + 1 \in 1..Len(d) /\ (i - j + 1) + j - 1 = i
    BY <1>1
  <2> QED BY <1>1, <2>1
<1> DEFINE D == UNION {DOMAIN Own(l, d[i]) : i \in DOMAIN d}
           R == UNION {DOMAIN Own(l, c[i]) : i \in j..n}
<1>5. D = R
  BY <1>1, <1>2, <1>3, <1>4
<1> DEFINE S(f) == {i \in DOMAIN d : f \in DOMAIN Own(l, d[i])}
<1>6. ASSUME NEW f \in R
      PROVE  d[Min(S(f))] = c[Min(SettersFrom(l, c, j, f))]
  <2> DEFINE X == S(f)
             Y == SettersFrom(l, c, j, f)
  <2>1. \A y \in Y : y \in j..n /\ y - j + 1 \in X
    BY <1>2, <1>4 DEF SettersFrom, n
  <2>2. \A x \in X : x \in 1..Len(d) /\ x + j - 1 \in Y
    BY <1>1, <1>2, <1>3 DEF SettersFrom, n
  <2>3. Y # {} /\ Y \in SUBSET Nat
    BY DEF SettersFrom, n
  <2>4. X # {} /\ X \in SUBSET Nat
    <3>1. \A i \in 1..Len(d) : i \in Nat
      BY <1>1
    <3> HIDE DEF X, Y
    <3>2. PICK y \in Y : TRUE
      BY <2>3
    <3> QED BY <2>1, <2>2, <3>1, <3>2
  <2> HIDE DEF X, Y
  <2>5. Min(X) \in X /\ (\A x \in X : Min(X) <= x) /\ Min(Y) \in Y /\ \A y \in Y : Min(Y) <= y
    BY <2>3, <2>4, LeastNumber
  <2>6. Min(Y) <= Min(X) + j - 1 /\ Min(X) <= Min(Y) - j + 1
    BY <2>1, <2>2, <2>5
  <2>7. Min(X) \in 1..Len(d) /\ Min(Y) \in j..n
    BY <2>1, <2>2, <2>5
  <2>8. Min(X) + j - 1 = Min(Y)
    <3> DEFINE a == Min(X)
               b == Min(Y)
    <3>1. a \in Int /\ b \in Int /\ j \in Int
      BY <1>1, <2>7
    <3> HIDE DEF a, b
    <3> QED BY <2>6, <3>1 DEF a, b
  <2>9. d[Min(X)] = c[Min(X) + j - 1]
    BY <1>1, <2>7
  <2> QED BY <2>8, <2>9 DEF X, Y
<1>7. NearestAlong(l, d) = [f \in D |-> Own(l, d[Min(S(f))])[f]]
  BY DEF NearestAlong, Own
<1>8. From(l, c, j) = [f \in R |-> Own(l, c[Min(SettersFrom(l, c, j, f))])[f]]
  BY DEF From, n
<1> HIDE DEF D, R, S
<1>9. NearestAlong(l, d) = From(l, c, j)
  BY <1>5, <1>6, <1>7, <1>8
<1> QED BY <1>9 DEF d, n

\* The settings of the n-th key of c from its end, from v for those before
MergedAt(l, m, c, n, v) ==
    LET x == c[Len(c) - n] IN
    IF x \in DOMAIN m THEN m[x]
    ELSE IF n = 0 THEN Raw(l, x).own ELSE Merge(v, Raw(l, x).own)

\* The function that MergeAlong defines by recursion
Merges(l, m, c, n, g) == g = [i \in 0..n |-> MergedAt(l, m, c, i, g[i - 1])]

\* The function MergeAlong is defined by exists; by the least n without one.
LEMMA MergesExists ==
    ASSUME NEW l, NEW m, NEW c, NEW n \in Nat
    PROVE  \E g : Merges(l, m, c, n, g)
<1> DEFINE Bad == {j \in Nat : ~ \E g : Merges(l, m, c, j, g)}
<1> SUFFICES ASSUME Bad # {} PROVE FALSE
  OBVIOUS
<1> DEFINE j == Min(Bad)
<1>1. j \in Nat /\ (~ \E g : Merges(l, m, c, j, g)) /\ \A y \in Bad : j <= y
  <2>1. Bad \in SUBSET Nat
    OBVIOUS
  <2>2. j \in Bad /\ \A y \in Bad : j <= y
    <3> HIDE DEF Bad
    <3> QED BY <2>1, LeastNumber
  <2> QED BY <2>2
<1> HIDE DEF j, Bad
<1>2. CASE j = 0
  <2> DEFINE v == MergedAt(l, m, c, 0, {})
             g == [i \in 0..0 |-> v]
  <2>1. \A w : MergedAt(l, m, c, 0, w) = v
    BY DEF MergedAt
  <2> HIDE DEF v
  <2>2. g = [i \in 0..0 |-> MergedAt(l, m, c, i, g[i - 1])]
    <3>1. \A i \in 0..0 : i = 0
      OBVIOUS
    <3> QED BY <2>1, <3>1
  <2> QED BY <1>1, <1>2, <2>2 DEF Merges
<1>3. CASE j # 0
  <2>1. j - 1 \in Nat /\ j - 1 \notin Bad
    BY <1>1, <1>3
  <2>2. PICK h : Merges(l, m, c, j - 1, h)
    BY <2>1 DEF Bad
  <2> DEFINE g == [i \in 0..j |-> IF i = j THEN MergedAt(l, m, c, j, h[j - 1]) ELSE h[i]]
  <2>3. \A i \in 0..(j - 1) : h[i] = MergedAt(l, m, c, i, h[i - 1])
    BY <2>2 DEF Merges
  <2>4. (\A i \in 0..(j - 1) : g[i] = h[i]) /\ g[j] = MergedAt(l, m, c, j, h[j - 1])
    BY <1>1
  <2>5. g = [i \in 0..j |-> g[i]]
    OBVIOUS
  <2> HIDE DEF g
  <2>6. ASSUME NEW i \in 0..j
        PROVE  g[i] = MergedAt(l, m, c, i, g[i - 1])
    <3>1. CASE i = j
      <4>1. g[j - 1] = h[j - 1]
        BY <1>1, <1>3, <2>4
      <4> QED BY <2>4, <3>1, <4>1
    <3>2. CASE i = 0
      <4>1. g[0] = MergedAt(l, m, c, 0, h[0 - 1])
        BY <1>1, <1>3, <2>3, <2>4
      <4>2. MergedAt(l, m, c, 0, h[0 - 1]) = MergedAt(l, m, c, 0, g[0 - 1])
        BY DEF MergedAt
      <4> QED BY <3>2, <4>1, <4>2
    <3>3. CASE i # j /\ i # 0
      <4>1. i \in 0..(j - 1) /\ i - 1 \in 0..(j - 1)
        BY <1>1, <3>3
      <4>2. g[i] = h[i] /\ g[i - 1] = h[i - 1]
        BY <2>4, <4>1
      <4> QED BY <2>3, <4>1, <4>2
    <3> QED BY <3>1, <3>2, <3>3
  <2>7. Merges(l, m, c, j, g)
    BY <2>5, <2>6 DEF Merges
  <2> QED BY <1>1, <2>7
<1> QED BY <1>2, <1>3

\* What is memoised is of the catalogue, with its ancestors, and what the
\* catalogue says by definition; and it comes from a root.
MemoOf(l, m) ==
    \A k \in DOMAIN m : /\ k \in Keys(l) /\ Rooted(l, k)
                        /\ Range(Chain(l, k)) \subseteq DOMAIN m
                        /\ m[k] = Nearest(l, k)

\* However much of a chain was resolved before, and by whatever requests, the
\* recursion returns what the catalogue says.
LEMMA ResolveIsNearest ==
    ASSUME NEW l, Numbered(l), OwnsAreFunctions(l), NEW m, MemoOf(l, m),
           NEW k \in Keys(l), Rooted(l, k)
    PROVE  Resolve(l, m, k) = Nearest(l, k)
<1> DEFINE c == Chain(l, k)
           N == Len(c) - 1
<1>1. /\ Stops(l, c)
      /\ \A j \in 1..Len(c) : Chain(l, c[j]) = SubSeq(c, j, Len(c)) /\ c[j] \in Keys(l)
  BY RootedStops
<1>2. c \in Seq(Keys(l)) /\ Len(c) \in Nat /\ Len(c) >= 1
  BY <1>1 DEF Stops, Linked
<1> HIDE DEF c
<1>3. N \in Nat
  BY <1>2
<1>4. PICK g : Merges(l, m, c, N, g) /\ MergeAlong(l, m, c) = g[N]
  <2>1. \E g : Merges(l, m, c, N, g)
    BY <1>3, MergesExists
  <2> QED BY <2>1 DEF MergeAlong, Merges, MergedAt
<1>5. \A i \in 0..N : g[i] = MergedAt(l, m, c, i, g[i - 1])
  BY <1>4 DEF Merges
<1> DEFINE Good(i) == g[i] = From(l, c, Len(c) - i)
           Bad     == {i \in 0..N : ~ Good(i)}
<1>6. ASSUME NEW i \in 0..N, i # 0 => Good(i - 1)
      PROVE  Good(i)
  <2> DEFINE j == Len(c) - i
             x == c[j]
  <2>1. j \in 1..Len(c) /\ j \in Nat
    BY <1>2
  <2>2. Chain(l, x) = SubSeq(c, j, Len(c)) /\ x \in Keys(l)
    BY <1>1, <2>1
  <2>3. g[i] = IF x \in DOMAIN m THEN m[x]
               ELSE IF i = 0 THEN Own(l, x) ELSE Merge(g[i - 1], Own(l, x))
    BY <1>5 DEF MergedAt, Own
  <2> HIDE DEF j, N
  <2>4. CASE x \in DOMAIN m
    <3>1. m[x] = NearestAlong(l, SubSeq(c, j, Len(c)))
      BY <2>2, <2>4 DEF MemoOf, Nearest
    <3>2. NearestAlong(l, SubSeq(c, j, Len(c))) = From(l, c, j)
      BY <1>2, <2>1, FromIsNearest
    <3> QED BY <2>3, <2>4, <3>1, <3>2 DEF j
  <2>5. CASE x \notin DOMAIN m /\ i = 0
    <3>1. j = Len(c)
      BY <1>2, <2>5 DEF j
    <3>2. Own(l, x) = [f \in DOMAIN Own(l, x) |-> Own(l, x)[f]]
      BY <2>2, OwnIsFunction
    <3>3. From(l, c, Len(c)) = Own(l, c[Len(c)])
      BY <1>2, <3>1, <3>2, FromEnd
    <3> QED BY <2>3, <2>5, <3>1, <3>3 DEF j
  <2>6. CASE x \notin DOMAIN m /\ i # 0
    <3>1. j < Len(c) /\ Len(c) - (i - 1) = j + 1 /\ j >= 1
      BY <1>2, <1>3, <2>1, <2>6 DEF j, N
    <3>2. g[i - 1] = From(l, c, j + 1)
      BY <1>6, <2>6, <3>1
    <3>3. From(l, c, j) = Merge(From(l, c, j + 1), Own(l, x))
      BY <1>2, <2>1, <3>1, FromStep
    <3> QED BY <2>3, <2>6, <3>2, <3>3 DEF j
  <2> QED BY <2>4, <2>5, <2>6
<1>7. Bad = {}
  <2> SUFFICES ASSUME Bad # {} PROVE FALSE
    OBVIOUS
  <2> HIDE DEF N
  <2>1. Bad \in SUBSET Nat
    BY <1>3
  <2>2. Min(Bad) \in Bad /\ \A y \in Bad : Min(Bad) <= y
    <3> HIDE DEF Bad
    <3> QED BY <2>1, LeastNumber
  <2> DEFINE i == Min(Bad)
  <2> HIDE DEF Good
  <2>3. i \in 0..N /\ ~ Good(i)
    BY <2>2
  <2>4. i # 0 => i - 1 \in 0..N /\ i - 1 \notin Bad
    BY <1>3, <2>2, <2>3
  <2>5. i # 0 => Good(i - 1)
    BY <2>4
  <2> QED BY <1>6, <2>3, <2>5
<1>8. g[N] = From(l, c, 1)
  <2>1. N \in 0..N /\ Len(c) - N = 1
    BY <1>2, <1>3
  <2>2. Good(N)
    <3> HIDE DEF Good, N
    <3> QED BY <1>7, <2>1
  <2> QED BY <2>1, <2>2
<1>9. From(l, c, 1) = NearestAlong(l, c)
  <2>1. 1 \in 1..Len(c) /\ SubSeq(c, 1, Len(c)) = c
    BY <1>2
  <2> QED BY <1>2, <2>1, FromIsNearest
<1> QED BY <1>4, <1>8, <1>9 DEF Resolve, Nearest, c

\* A profile resolves exactly if it comes from a root, memo or not.
LEMMA ResolvesIfRooted ==
    ASSUME NEW l, Numbered(l), NEW m, MemoOf(l, m), NEW k \in Keys(l)
    PROVE  Resolves(l, m, k) <=> Rooted(l, k)
<1>1. ASSUME NEW y \in Range(Chain(l, k)), y \in DOMAIN m
      PROVE  Rooted(l, k)
  BY <1>1, MeetsRooted DEF MemoOf
<1> QED BY <1>1 DEF Resolves, ResolvesAlong, Rooted

\* Resolving profiles of the catalogue keeps the memo true to it.
LEMMA RememberKeeps ==
    ASSUME NEW l, Numbered(l), OwnsAreFunctions(l), NEW m, MemoOf(l, m),
           NEW K \in SUBSET Keys(l)
    PROVE  MemoOf(l, Remember(l, m, K))
<1> DEFINE old == DOMAIN m
           new == UNION {Range(Chain(l, k)) : k \in {x \in K \ old : Resolves(l, m, x)}}
           r   == Remember(l, m, K)
<1>1. r = [k \in old \cup new |-> IF k \in old THEN m[k] ELSE Resolve(l, m, k)]
  BY DEF Remember
<1>2. ASSUME NEW y \in new
      PROVE  y \in Keys(l) /\ Rooted(l, y) /\ Range(Chain(l, y)) \subseteq new
  <2>1. PICK k \in K : Resolves(l, m, k) /\ k \notin old /\ y \in Range(Chain(l, k))
    BY <1>2
  <2>2. k \in Keys(l) /\ Rooted(l, k)
    BY <2>1, ResolvesIfRooted
  <2> DEFINE c == Chain(l, k)
  <2>3. /\ c \in Seq(Keys(l)) /\ Len(c) \in Nat
        /\ \A j \in 1..Len(c) : /\ Chain(l, c[j]) = SubSeq(c, j, Len(c))
                                /\ Rooted(l, c[j]) /\ c[j] \in Keys(l)
    BY <2>2, RootedStops DEF Stops, Linked
  <2>4. Range(c) \subseteq new
    BY <2>1
  <2> HIDE DEF c, new
  <2>5. PICK j \in 1..Len(c) : y = c[j]
    BY <2>1, <2>3 DEF Range, c
  <2>6. Range(SubSeq(c, j, Len(c))) \subseteq Range(c)
    BY <2>3 DEF Range
  <2> QED BY <2>3, <2>4, <2>5, <2>6
<1> HIDE DEF new, r
<1>3. ASSUME NEW k \in DOMAIN r
      PROVE  /\ k \in Keys(l) /\ Rooted(l, k) /\ Range(Chain(l, k)) \subseteq DOMAIN r
             /\ r[k] = Nearest(l, k)
  <2>1. DOMAIN r = old \cup new
    BY <1>1
  <2>2. CASE k \in old
    BY <1>1, <2>1, <2>2 DEF MemoOf
  <2>3. CASE k \notin old
    <3>1. k \in new /\ r[k] = Resolve(l, m, k)
      BY <1>1, <1>3, <2>1, <2>3
    <3> QED BY <1>2, <2>1, <3>1, ResolveIsNearest
  <2> QED BY <2>2, <2>3
<1> QED BY <1>3 DEF MemoOf, r

-----------------------------------------------------------------------------
(* The memo *)

ResolutionInv == CatalogueInv /\ MemoOf(loaded, memo)

\* What a request has found is a key of the catalogue, or nothing.
LEMMA LookupsFindKeys ==
    ASSUME NEW l, Numbered(l)
    PROVE  LET K == Keys(l) \cup {NoKey}
           IN  /\ \A r, c : ParentRef(l, r, c) \in K
               /\ \A s, c : BySlug(l, s, c) \in K
               /\ \A s, c : BySlugOrName(l, s, c) \in K
               /\ \A c, n : Requested(l, c, n) \in K
               /\ \A n : ByName(l, n) \in K
<1> DEFINE K == Keys(l) \cup {NoKey}
<1>1. \A I \in SUBSET DOMAIN l : First(l, I) \in K
  BY FirstFound
<1>2. \A n, c : /\ Named(l, n) \in SUBSET DOMAIN l /\ NamedIn(l, n, c) \in SUBSET DOMAIN l
                /\ WithId(l, n) \in SUBSET DOMAIN l /\ WithIdIn(l, n, c) \in SUBSET DOMAIN l
  BY DEF Named, NamedIn, WithId, WithIdIn
<1> HIDE DEF K
<1>3. (\A r, c : ParentRef(l, r, c) \in K) /\ \A n : ByName(l, n) \in K
  BY <1>1, <1>2 DEF ParentRef, ByName
<1>4. \A s, c : BySlug(l, s, c) \in K
  BY <1>1, <1>2 DEF BySlug
<1>5. (\A s, c : BySlugOrName(l, s, c) \in K) /\ \A c, n : Requested(l, c, n) \in K
  BY <1>1, <1>2, <1>4 DEF BySlugOrName, Requested
<1> QED BY <1>3, <1>4, <1>5 DEF K

\* The catalogue is numbered and its settings are functions.
LEMMA LoadedIs ==
    ASSUME CatalogueInv
    PROVE  Numbered(loaded) /\ OwnsAreFunctions(loaded)
<1>1. Numbered(loaded)
  BY EntriesNumbered DEF CatalogueInv
<1>2. ASSUME NEW i \in DOMAIN loaded
      PROVE  loaded[i].own = [f \in DOMAIN loaded[i].own |-> loaded[i].own[f]]
  <2>1. CASE i \in DOMAIN shipped
    <3>1. loaded[i] = shipped[i] /\ shipped[i] \in Entry
      BY <2>1, EntriesAre DEF CatalogueInv, Entry, Range
    <3> QED BY <3>1, ResolutionAssumption
  <2>2. CASE i \notin DOMAIN shipped
    <3>1. PICK x \in DOMAIN files : loaded[i] = files[x]
      BY <2>2, EntriesAre DEF CatalogueInv
    <3> QED BY <3>1 DEF CatalogueInv
  <2> QED BY <2>1, <2>2
<1> QED BY <1>1, <1>2 DEF OwnsAreFunctions

\* What a request resolves on the way leaves a memo of the catalogue.
LEMMA TouchKeeps ==
    ASSUME ResolutionInv, NEW K, K \ {NoKey} \subseteq Keys(loaded), Touch(K)
    PROVE  MemoOf(loaded', memo')
<1>1. memo' = Remember(loaded, memo, K \ {NoKey}) /\ loaded' = loaded
  BY DEF Touch
<1>2. MemoOf(loaded, Remember(loaded, memo, K \ {NoKey}))
  BY LoadedIs, RememberKeeps DEF ResolutionInv
<1> QED BY <1>1, <1>2

\* Every step leaves a memo of the catalogue.
LEMMA StepMemo ==
    ASSUME ResolutionInv, [Next]_vars
    PROVE  MemoOf(loaded', memo')
<1> DEFINE K == Keys(loaded) \cup {NoKey}
<1>0. Numbered(loaded)
  BY LoadedIs DEF ResolutionInv
<1>1. ASSUME NEW fs, Store(fs)
      PROVE  MemoOf(loaded', memo')
  <2>1. DOMAIN memo' = {}
    BY <1>1 DEF Store, Load
  <2> QED BY <2>1 DEF MemoOf
<1>2. ASSUME \/ \E p \in Payload : Import(p)
             \/ \E x \in DOMAIN files : Delete(x.cat, x.sid)
             \/ Reload
      PROVE  MemoOf(loaded', memo')
  BY <1>1, <1>2 DEF Import, Reload, Delete
<1>3. ASSUME NEW p \in Payload, CheckImport(p)
      PROVE  MemoOf(loaded', memo')
  <2>1. \A e : ParentKeys(loaded, e) \subseteq K
    BY <1>0, LookupsFindKeys DEF ParentKeys
  <2>2. Filaments(loaded) \subseteq Keys(loaded)
    BY DEF Filaments
  <2>3. LookedUp(loaded, memo, p) \subseteq Keys(loaded)
    <3> DEFINE For(e) ==
                 {k \in Filaments(loaded) : "fid" \notin DOMAIN p.own \cup DOMAIN Raw(loaded, k).own}
                 \cup ParentKeys(loaded, e)
                 \cup UNION {ParentKeys(loaded, Raw(loaded, k)) : k \in Checked(loaded, memo, e)}
    <3>1. \A e : For(e) \subseteq K
      BY <2>1, <2>2
    <3>2. LookedUp(loaded, memo, p) \subseteq For(Materialized(loaded, p)) \ {NoKey}
      BY DEF LookedUp
    <3> HIDE DEF For
    <3> QED BY <3>1, <3>2
  <2> QED BY <1>3, <2>3, TouchKeeps DEF CheckImport
<1>4. ASSUME NEW cat, NEW k \in Found(cat), GetProfile(k)
      PROVE  MemoOf(loaded', memo')
  <2>1. k \in K
    BY <1>0, LookupsFindKeys DEF Found
  <2> QED BY <1>4, <2>1, TouchKeeps DEF GetProfile
<1>5. ASSUME NEW machine \in Found("machine"), NEW cat, NEW n,
             ResolveForMachine(machine, cat, Requested(loaded, cat, n))
      PROVE  MemoOf(loaded', memo')
  <2> DEFINE k == Requested(loaded, cat, n)
             B == IF k # NoKey /\ Loops(loaded, k) THEN {}
                  ELSE BeforeLoop(loaded, Instances(loaded, cat))
  <2>1. machine \in K /\ k \in K
    BY <1>0, LookupsFindKeys DEF Found
  <2>2. B \subseteq K
    BY DEF BeforeLoop, Instances
  <2>3. Touch({machine, k} \cup B)
    BY <1>5 DEF ResolveForMachine
  <2> HIDE DEF k, B
  <2> QED BY <2>1, <2>2, <2>3, TouchKeeps
<1>6. ASSUME NEW machine \in Found("machine"), NEW process \in Found("process"), NEW n,
             Materialize(<<machine, process, BySlugOrName(loaded, n, "filament")>>)
      PROVE  MemoOf(loaded', memo')
  <2> DEFINE asked == <<machine, process, BySlugOrName(loaded, n, "filament")>>
             reached == {i \in 1..3 : \A j \in 1..(i - 1) : Writable(loaded, memo, asked[j])}
             U == UNION {IF asked[i] = NoKey THEN {}
                         ELSE IF Writable(loaded, memo, asked[i]) THEN LinkKeys(loaded, asked[i])
                         ELSE {asked[i]} : i \in reached}
  <2>1. \A i \in 1..3 : asked[i] \in K
    <3>1. machine \in K /\ process \in K /\ BySlugOrName(loaded, n, "filament") \in K
      BY <1>0, LookupsFindKeys DEF Found
    <3>2. \A i \in 1..3 : i = 1 \/ i = 2 \/ i = 3
      OBVIOUS
    <3> HIDE DEF K
    <3> QED BY <3>1, <3>2
  <2>2. \A k \in K : LinkKeys(loaded, k) \subseteq K
    BY <1>0, LookupsFindKeys DEF LinkKeys
  <2>3. Touch(U)
    BY <1>6 DEF Materialize
  <2> HIDE DEF asked
  <2>4. U \subseteq K
    BY <2>1, <2>2
  <2> HIDE DEF U
  <2> QED BY <2>3, <2>4, TouchKeeps
<1>7. CASE Ask
  BY <1>4, <1>5, <1>6, <1>7 DEF Ask
<1>8. CASE UNCHANGED vars
  BY <1>8 DEF vars, ResolutionInv
<1> QED BY <1>2, <1>3, <1>7, <1>8 DEF Next

\* ResolutionInv is an invariant of the service.
LEMMA ResolutionInvariant == Spec => []ResolutionInv
<1>1. Init => ResolutionInv
  <2> SUFFICES ASSUME Init PROVE ResolutionInv
    OBVIOUS
  <2>1. CatalogueInv
    BY InitCatalogue
  <2>2. DOMAIN memo = {}
    BY DEF Init
  <2> QED BY <2>1, <2>2 DEF ResolutionInv, MemoOf
<1>2. ResolutionInv /\ [Next]_vars => ResolutionInv'
  <2> SUFFICES ASSUME ResolutionInv, [Next]_vars PROVE ResolutionInv'
    OBVIOUS
  <2>1. CatalogueInv'
    BY StepCatalogue DEF ResolutionInv
  <2>2. MemoOf(loaded', memo')
    BY StepMemo
  <2> QED BY <2>1, <2>2 DEF ResolutionInv
<1> QED BY <1>1, <1>2, PTL DEF Spec

\* The catalogue is always the vendors' profiles and the user's files, and the
\* memo holds profiles of the catalogue, each with all its ancestors.
THEOREM ResolutionTypes == Spec => []ResolutionTypeOK
<1>1. ResolutionInv => ResolutionTypeOK
  BY DEF ResolutionInv, CatalogueInv, MemoOf, ResolutionTypeOK
<1> QED BY <1>1, ResolutionInvariant, PTL

\* Whatever was memoised, by any request, in any order, and before or after any
\* import or delete, is what the catalogue of now says.
THEOREM MemoNeverStale == Spec => []MemoIsNearest
<1>1. ResolutionInv => MemoIsNearest
  BY DEF ResolutionInv, MemoOf, MemoIsNearest
<1> QED BY <1>1, ResolutionInvariant, PTL

-----------------------------------------------------------------------------
(* Vendor profiles do not depend on the user's *)

\* l holds the entries of s, and after them others that are the user's.
Widens(l, s) ==
    /\ Numbered(l) /\ Numbered(s) /\ OwnsAreFunctions(l) /\ OwnsAreFunctions(s)
    /\ \A i \in DOMAIN s : i \in DOMAIN l /\ l[i] = s[i] /\ s[i].vendor # User
    /\ \A i \in DOMAIN l \ DOMAIN s : l[i].vendor = User /\ \A j \in DOMAIN s : j < i

\* A vendor's key has its own entry in the wider catalogue too.
LEMMA SameEntry ==
    ASSUME NEW l, NEW s, Widens(l, s), NEW k \in Keys(s)
    PROVE  /\ k \in Keys(l) /\ k.vendor # User
           /\ Raw(l, k) = Raw(s, k) /\ Category(l, k) = Category(s, k)
<1>1. k \in Keys(l) /\ k.vendor # User
  <2>1. PICK i \in DOMAIN s : k = KeyOf(s[i])
    BY DEF Keys
  <2>2. l[i] = s[i] /\ i \in DOMAIN l /\ s[i].vendor # User
    BY DEF Widens
  <2> QED BY <2>1, <2>2 DEF Keys, KeyOf
<1>2. Places(l, k) = Places(s, k)
  BY <1>1 DEF Places, Widens
<1>3. PICK i \in DOMAIN s : i \in Places(s, k) /\ \A j \in Places(s, k) : j <= i
  BY RawOfKey DEF Widens
<1>4. Places(s, k) \in SUBSET Nat
  BY DEF Places, Widens, Numbered
<1>5. Max(Places(s, k)) \in Places(s, k)
  BY <1>3, <1>4, GreatestNumber
<1>6. Max(Places(s, k)) \in DOMAIN s
  BY <1>5 DEF Places
<1>7. Raw(l, k) = Raw(s, k)
  BY <1>2, <1>6 DEF Raw, Widens
<1> QED BY <1>1, <1>7 DEF Category

\* A lookup that finds an entry of s finds the same one in l.
LEMMA SameFirst ==
    ASSUME NEW l, NEW s, Widens(l, s), NEW I \in SUBSET DOMAIN l,
           NEW J \in SUBSET DOMAIN s, J = I \cap DOMAIN s, J # {} \/ I = J
    PROVE  First(l, I) = First(s, J)
<1>1. CASE J = {}
  BY <1>1 DEF First
<1>2. CASE J # {}
  <2>1. I \in SUBSET Nat /\ J \in SUBSET Nat /\ I # {}
    BY <1>2 DEF Widens, Numbered
  <2>2. Min(I) \in I /\ (\A y \in I : Min(I) <= y) /\ Min(J) \in J /\ \A y \in J : Min(J) <= y
    BY <1>2, <2>1, LeastNumber
  <2> DEFINE a == Min(I)
             b == Min(J)
  <2> HIDE DEF a, b
  <2>3. a \in I /\ b \in J /\ b \in I /\ a <= b /\ (a \in J => b <= a)
    BY <2>2 DEF a, b
  <2>4. a \in DOMAIN s
    <3>1. a \notin DOMAIN s => b < a
      BY <2>3 DEF Widens
    <3> QED BY <2>1, <2>3, <3>1
  <2>5. a = b
    BY <2>1, <2>3, <2>4
  <2>6. l[a] = s[b]
    BY <2>4, <2>5 DEF Widens
  <2> QED BY <1>2, <2>1, <2>6 DEF First, a, b
<1> QED BY <1>1, <1>2

\* The vendors' entries of a name are found in the wider catalogue too.
LEMMA SameNamed ==
    ASSUME NEW l, NEW s, Widens(l, s), NEW n, NEW c
    PROVE  /\ Named(s, n) = Named(l, n) \cap DOMAIN s
           /\ NamedIn(s, n, c) = NamedIn(l, n, c) \cap DOMAIN s
           /\ WithIdIn(s, n, c) = WithIdIn(l, n, c) \cap DOMAIN s
<1>1. ASSUME NEW i \in DOMAIN s
      PROVE  i \in DOMAIN l /\ l[i] = s[i]
             /\ Category(l, KeyOf(l[i])) = Category(s, KeyOf(s[i]))
  <2>1. i \in DOMAIN l /\ l[i] = s[i] /\ KeyOf(s[i]) \in Keys(s)
    BY DEF Widens, Keys
  <2> QED BY <2>1, SameEntry
<1>2. Named(s, n) = Named(l, n) \cap DOMAIN s
  BY <1>1 DEF Named
<1>3. WithId(s, n) = WithId(l, n) \cap DOMAIN s
  BY <1>1 DEF WithId
<1>4. NamedIn(s, n, c) = NamedIn(l, n, c) \cap DOMAIN s
  <2>1. Named(s, n) \in SUBSET DOMAIN s
    BY DEF Named
  <2> QED BY <1>1, <1>2, <2>1 DEF NamedIn
<1>5. WithIdIn(s, n, c) = WithIdIn(l, n, c) \cap DOMAIN s
  <2>1. WithId(s, n) \in SUBSET DOMAIN s
    BY DEF WithId
  <2> QED BY <1>1, <1>3, <2>1 DEF WithIdIn
<1> QED BY <1>2, <1>4, <1>5

\* No user profile comes between a vendor's and its parent.
LEMMA SameParent ==
    ASSUME NEW l, NEW s, Widens(l, s), NEW k \in Keys(s)
    PROVE  Parent(l, k) = Parent(s, k) /\ (HasParent(l, k) <=> HasParent(s, k))
<1> DEFINE I == NamedIn(l, Raw(l, k).inherits, Category(l, k))
           J == NamedIn(s, Raw(s, k).inherits, Category(s, k))
           OfI(v) == {i \in I : l[i].vendor = v}
           OfJ(v) == {i \in J : s[i].vendor = v}
           P == IF OfI(k.vendor) # {} THEN OfI(k.vendor)
                ELSE IF OfI(Library) # {} THEN OfI(Library)
                ELSE IF k.vendor = User THEN I ELSE {}
           Q == IF OfJ(k.vendor) # {} THEN OfJ(k.vendor)
                ELSE IF OfJ(Library) # {} THEN OfJ(Library)
                ELSE IF k.vendor = User THEN J ELSE {}
<1>1. Parent(l, k) = First(l, P) /\ Parent(s, k) = First(s, Q)
  BY DEF Parent
<1>2. Raw(l, k) = Raw(s, k) /\ Category(l, k) = Category(s, k) /\ k.vendor # User
  BY SameEntry
<1>3. J = I \cap DOMAIN s /\ I \in SUBSET DOMAIN l
  BY <1>2, SameNamed DEF NamedIn, Named
<1> HIDE DEF I, J
<1>4. ASSUME NEW v, v # User
      PROVE  OfI(v) = OfJ(v)
  BY <1>3, <1>4 DEF Widens
<1>5. OfI(k.vendor) = OfJ(k.vendor) /\ OfI(Library) = OfJ(Library)
  BY <1>2, <1>4, ResolutionAssumption
<1>6. P = Q
  BY <1>2, <1>5
<1>7. P \in SUBSET DOMAIN l /\ Q \in SUBSET DOMAIN s
  BY <1>3
<1> HIDE DEF P, Q
<1>8. First(l, P) = First(s, Q)
  BY <1>6, <1>7, SameFirst
<1>9. Parent(l, k) = Parent(s, k)
  BY <1>1, <1>8
<1> QED BY <1>2, <1>9 DEF HasParent

\* The chain of a vendor profile is the same for every user, if it has an end.
LEMMA SameStops ==
    ASSUME NEW l, NEW s, Widens(l, s), NEW d
    PROVE  /\ Stops(s, d) => Stops(l, d)
           /\ Stops(l, d) /\ d[1] \in Keys(s) => Stops(s, d)
<1>1. \A k \in Keys(s) : k \in Keys(l) /\ Parent(l, k) = Parent(s, k)
                         /\ (HasParent(l, k) <=> HasParent(s, k))
  BY SameEntry, SameParent
<1>2. ASSUME d \in Seq(Keys(s)), Len(d) >= 1
      PROVE  Stops(l, d) <=> Stops(s, d)
  <2>1. Len(d) \in Nat /\ (\A i \in 1..Len(d) : d[i] \in Keys(s)) /\ d \in Seq(Keys(l))
    <3>1. Len(d) \in Nat /\ \A i \in 1..Len(d) : d[i] \in Keys(s)
      BY <1>2
    <3>2. \A i \in 1..Len(d) : d[i] \in Keys(l)
      BY <1>1, <3>1
    <3>3. d \in Seq(Keys(l))
      BY <1>2, <3>1, <3>2
    <3> QED BY <3>1, <3>3
  <2>2. \A i \in 1..(Len(d) - 1) : d[i] \in Keys(s)
    BY <2>1
  <2>3. d[Len(d)] \in Keys(s)
    BY <1>2, <2>1
  <2>4. /\ \A i \in 1..(Len(d) - 1) : /\ Parent(l, d[i]) = Parent(s, d[i])
                                      /\ HasParent(l, d[i]) <=> HasParent(s, d[i])
        /\ HasParent(l, d[Len(d)]) <=> HasParent(s, d[Len(d)])
    BY <1>1, <2>2, <2>3
  <2> QED BY <1>2, <2>1, <2>4 DEF Stops, Linked
<1>3. Stops(s, d) => Stops(l, d)
  BY <1>2 DEF Stops, Linked
<1>4. ASSUME Stops(l, d), d[1] \in Keys(s)
      PROVE  Stops(s, d)
  <2> DEFINE Bad == {i \in 1..Len(d) : d[i] \notin Keys(s)}
  <2>1. d \in Seq(Keys(l)) /\ Len(d) \in Nat /\ Len(d) >= 1
    BY <1>4 DEF Stops, Linked
  <2>2. Bad = {}
    <3> SUFFICES ASSUME Bad # {} PROVE FALSE
      OBVIOUS
    <3> DEFINE i == Min(Bad)
    <3>1. i \in Bad /\ \A y \in Bad : i <= y
      <4>1. Bad \in SUBSET Nat
        BY <2>1
      <4> HIDE DEF Bad
      <4> QED BY <4>1, LeastNumber
    <3> HIDE DEF i
    <3>2. i \in 1..Len(d) /\ d[i] \notin Keys(s) /\ i # 1
      BY <1>4, <3>1
    <3>3. i - 1 \in 1..(Len(d) - 1) /\ i - 1 \in 1..Len(d) /\ ~ (i <= i - 1) /\ (i - 1) + 1 = i
      BY <2>1, <3>2
    <3>4. d[i - 1] \in Keys(s)
      BY <3>1, <3>3
    <3>5. HasParent(l, d[i - 1]) /\ d[i] = Parent(l, d[i - 1])
      BY <1>4, <3>3 DEF Stops, Linked
    <3>6. d[i] = Parent(s, d[i - 1]) /\ Parent(s, d[i - 1]) # NoKey
      BY <1>1, <3>4, <3>5 DEF HasParent
    <3>7. d[i] \in Keys(s)
      BY <3>6, ParentIsKey DEF Widens
    <3> QED BY <3>2, <3>7
  <2>3. d \in Seq(Keys(s))
    BY <2>1, <2>2
  <2> QED BY <1>2, <1>4, <2>1, <2>3
<1> QED BY <1>3, <1>4

\* A vendor's key has the same chain and settings in the wider catalogue.
LEMMA SameChain ==
    ASSUME NEW l, NEW s, Widens(l, s), NEW k \in Keys(s)
    PROVE  /\ Rooted(l, k) <=> Rooted(s, k)
           /\ Rooted(s, k) => /\ Chain(l, k) = Chain(s, k)
                              /\ Range(Chain(s, k)) \subseteq Keys(s)
                              /\ Nearest(l, k) = Nearest(s, k)
<1>1. Numbered(l) /\ Numbered(s) /\ k \in Keys(l)
  BY SameEntry DEF Widens
<1>2. ASSUME Rooted(s, k) \/ Rooted(l, k)
      PROVE  Chain(l, k) = Chain(s, k) /\ Stops(s, Chain(s, k))
  <2>1. CASE Rooted(s, k)
    <3> DEFINE d == Chain(s, k)
    <3>1. Stops(s, d) /\ d[1] = k
      BY <1>1, <2>1, RootedStops, ChainIs
    <3> HIDE DEF d
    <3>2. Stops(l, d)
      BY <3>1, SameStops
    <3>3. Chain(l, k) = d
      BY <1>1, <3>1, <3>2, StopsIsChain
    <3> QED BY <3>1, <3>3 DEF d
  <2>2. CASE Rooted(l, k)
    <3> DEFINE d == Chain(l, k)
    <3>1. Stops(l, d) /\ d[1] = k
      BY <1>1, <2>2, RootedStops, ChainIs
    <3> HIDE DEF d
    <3>2. Stops(s, d)
      BY <3>1, SameStops
    <3>3. Chain(s, k) = d
      BY <1>1, <3>1, <3>2, StopsIsChain
    <3> QED BY <3>2, <3>3 DEF d
  <2> QED BY <1>2, <2>1, <2>2
<1> DEFINE c == Chain(s, k)
<1>3. ASSUME Stops(s, c)
      PROVE  /\ Len(c) \in Nat /\ Len(c) >= 1 /\ DOMAIN c = 1..Len(c)
             /\ Range(c) \subseteq Keys(s)
             /\ \A i \in DOMAIN c : c[i] \in Keys(s) /\ Raw(l, c[i]) = Raw(s, c[i])
  <2>1. c \in Seq(Keys(s)) /\ Len(c) \in Nat /\ Len(c) >= 1
    BY <1>3 DEF Stops, Linked
  <2> HIDE DEF c
  <2>2. DOMAIN c = 1..Len(c) /\ \A i \in DOMAIN c : c[i] \in Keys(s)
    BY <2>1
  <2> QED BY <2>1, <2>2, SameEntry DEF Range
<1>4. Rooted(l, k) <=> Rooted(s, k)
  <2>1. ASSUME Chain(l, k) = c, Stops(s, c)
        PROVE  EndsInRoot(l, c) <=> EndsInRoot(s, c)
    <3>1. Len(c) \in DOMAIN c
      <4> HIDE DEF c
      <4> QED BY <1>3, <2>1
    <3> QED BY <1>3, <2>1, <3>1 DEF EndsInRoot
  <2> QED BY <1>2, <2>1 DEF Rooted
<1>5. ASSUME Rooted(s, k)
      PROVE  Nearest(l, k) = Nearest(s, k)
  <2>1. Chain(l, k) = c /\ \A i \in DOMAIN c : Raw(l, c[i]) = Raw(s, c[i])
    BY <1>2, <1>3, <1>5
  <2>2. Len(c) \in Nat /\ DOMAIN c = 1..Len(c)
    BY <1>2, <1>3, <1>5
  <2> HIDE DEF c
  <2> DEFINE SetL(f) == {i \in DOMAIN c : f \in DOMAIN Raw(l, c[i]).own}
             SetS(f) == {i \in DOMAIN c : f \in DOMAIN Raw(s, c[i]).own}
             F == UNION {DOMAIN Raw(l, c[i]).own : i \in DOMAIN c}
  <2>3. F = UNION {DOMAIN Raw(s, c[i]).own : i \in DOMAIN c}
    BY <2>1
  <2>4. \A f : SetL(f) = SetS(f)
    BY <2>1
  <2>5. ASSUME NEW f \in F
        PROVE  Raw(l, c[Min(SetL(f))]).own[f] = Raw(s, c[Min(SetS(f))]).own[f]
    <3>1. SetL(f) \in SUBSET Nat /\ SetL(f) # {}
      BY <2>2, <2>5
    <3>2. Min(SetL(f)) \in SetL(f)
      <4> HIDE DEF SetL
      <4> QED BY <3>1, LeastNumber
    <3>3. Min(SetL(f)) \in DOMAIN c /\ SetL(f) = SetS(f)
      BY <2>4, <3>2
    <3> HIDE DEF SetL, SetS
    <3> QED BY <2>1, <3>3
  <2> HIDE DEF F
  <2>6. [f \in F |-> Raw(l, c[Min(SetL(f))]).own[f]] = [f \in F |-> Raw(s, c[Min(SetS(f))]).own[f]]
    <3> HIDE DEF SetL, SetS
    <3> QED BY <2>5
  <2>7. NearestAlong(l, c) = [f \in F |-> Raw(l, c[Min(SetL(f))]).own[f]]
    BY DEF NearestAlong, F
  <2>8. NearestAlong(s, c) = [f \in F |-> Raw(s, c[Min(SetS(f))]).own[f]]
    BY <2>3 DEF NearestAlong
  <2>9. NearestAlong(l, c) = NearestAlong(s, c)
    BY <2>6, <2>7, <2>8
  <2> QED BY <2>1, <2>9 DEF Nearest, c
<1> QED BY <1>2, <1>3, <1>4, <1>5

\* So a vendor profile resolves to the same settings, whatever was memoised.
LEMMA SameResolved ==
    ASSUME NEW l, NEW s, Widens(l, s), NEW m, MemoOf(l, m), NEW k \in Keys(s)
    PROVE  /\ Resolves(l, m, k) <=> Rooted(s, k)
           /\ Resolves(s, <<>>, k) <=> Rooted(s, k)
           /\ Rooted(s, k) => Resolve(l, m, k) = Resolve(s, <<>>, k)
<1>1. /\ Numbered(l) /\ Numbered(s) /\ OwnsAreFunctions(l) /\ OwnsAreFunctions(s)
      /\ k \in Keys(l)
  BY SameEntry DEF Widens
<1>2. MemoOf(s, <<>>)
  <2>1. DOMAIN <<>> = {}
    OBVIOUS
  <2> QED BY <2>1 DEF MemoOf
<1>3. (Resolves(l, m, k) <=> Rooted(s, k)) /\ (Resolves(s, <<>>, k) <=> Rooted(s, k))
  BY <1>1, <1>2, ResolvesIfRooted, SameChain
<1>4. ASSUME Rooted(s, k)
      PROVE  Resolve(l, m, k) = Resolve(s, <<>>, k)
  <2>1. Rooted(l, k) /\ Nearest(l, k) = Nearest(s, k)
    BY <1>4, SameChain
  <2> QED BY <1>1, <1>2, <1>4, <2>1, ResolveIsNearest
<1> QED BY <1>3, <1>4

\* The chain files of a vendor profile are the same, too.
LEMMA SameFiles ==
    ASSUME NEW l, NEW s, Widens(l, s), NEW m, MemoOf(l, m), NEW k \in Keys(s)
    PROVE  /\ Writable(l, m, k) <=> Writable(s, <<>>, k)
           /\ Writable(s, <<>>, k) => ChainFiles(l, m, k) = ChainFiles(s, <<>>, k)
<1>1. ASSUME NEW x \in Keys(s)
      PROVE  ByName(l, x.name) = ByName(s, x.name) /\ ByName(s, x.name) \in Keys(s)
  <2>1. Named(s, x.name) = Named(l, x.name) \cap DOMAIN s
    BY SameNamed
  <2>2. Named(s, x.name) # {}
    BY DEF Named, Keys, KeyOf
  <2>3. Named(l, x.name) \in SUBSET DOMAIN l /\ Named(s, x.name) \in SUBSET DOMAIN s
    BY DEF Named
  <2> QED BY <2>1, <2>2, <2>3, SameFirst, FirstFound DEF ByName, Widens
<1> DEFINE b == ByName(s, k.name)
<1>2. ByName(l, k.name) = b /\ b \in Keys(s)
  BY <1>1
<1> HIDE DEF b
<1>3. Rooted(l, b) <=> Rooted(s, b)
  BY <1>2, SameChain
<1>4. ASSUME Rooted(s, b)
      PROVE  /\ LinkNames(l, k) = LinkNames(s, k)
             /\ \A n \in LinkNames(s, k) : ByName(l, n) = ByName(s, n) /\ ByName(s, n) \in Keys(s)
  <2>1. Chain(l, b) = Chain(s, b) /\ Range(Chain(s, b)) \subseteq Keys(s)
    BY <1>2, <1>4, SameChain
  <2> QED BY <1>1, <1>2, <2>1 DEF LinkNames, b
<1>5. ASSUME Rooted(s, b)
      PROVE  LinkKeys(l, k) = LinkKeys(s, k) /\ LinkKeys(s, k) \subseteq Keys(s)
  BY <1>4, <1>5 DEF LinkKeys
<1>6. \A x \in Keys(s) : Resolves(l, m, x) <=> Resolves(s, <<>>, x)
  BY SameResolved
<1>7. Writable(l, m, k) <=> Writable(s, <<>>, k)
  <2>1. CASE Rooted(s, b)
    BY <1>2, <1>3, <1>5, <1>6, <2>1 DEF Writable, b
  <2>2. CASE ~ Rooted(s, b)
    BY <1>2, <1>3, <2>2 DEF Writable, b
  <2> QED BY <2>1, <2>2
<1>8. ASSUME Writable(s, <<>>, k)
      PROVE  ChainFiles(l, m, k) = ChainFiles(s, <<>>, k)
  <2>1. Rooted(s, b) /\ \A x \in LinkKeys(s, k) : Resolves(s, <<>>, x)
    BY <1>8 DEF Writable, b
  <2>2. LinkNames(l, k) = LinkNames(s, k)
    BY <1>4, <2>1
  <2>3. ASSUME NEW n \in LinkNames(s, k)
        PROVE  Resolve(l, m, ByName(l, n)) = Resolve(s, <<>>, ByName(s, n))
    <3>1. ByName(l, n) = ByName(s, n) /\ ByName(s, n) \in Keys(s)
      BY <1>4, <2>1
    <3>2. Resolves(s, <<>>, ByName(s, n))
      BY <2>1 DEF LinkKeys
    <3> QED BY <3>1, <3>2, SameResolved
  <2> QED BY <2>2, <2>3 DEF ChainFiles
<1> QED BY <1>7, <1>8

\* What is loaded widens the vendors' catalogue by the user's profiles.
LEMMA LoadedWidens ==
    ASSUME CatalogueInv
    PROVE  Widens(loaded, shipped)
<1>1. Numbered(loaded) /\ OwnsAreFunctions(loaded) /\ Numbered(shipped)
  BY LoadedIs, EntriesNumbered DEF CatalogueInv
<1>2. ASSUME NEW i \in DOMAIN shipped
      PROVE  /\ i \in DOMAIN loaded /\ loaded[i] = shipped[i] /\ shipped[i].vendor # User
             /\ shipped[i].own = [f \in DOMAIN shipped[i].own |-> shipped[i].own[f]]
  <2>1. loaded[i] = shipped[i] /\ i \in DOMAIN loaded
    BY EntriesAre DEF CatalogueInv
  <2>2. shipped[i] \in Range(shipped) /\ shipped \in Catalogues
    BY DEF Range, CatalogueInv
  <2>3. shipped[i] \in Entry
    BY <2>2 DEF Entry
  <2> QED BY <2>1, <2>2, <2>3, ResolutionAssumption
<1>3. ASSUME NEW i \in DOMAIN loaded \ DOMAIN shipped
      PROVE  loaded[i].vendor = User /\ \A j \in DOMAIN shipped : j < i
  <2>1. /\ Slots[i - Len(shipped)] \in DOMAIN files /\ i \in Nat /\ i > Len(shipped)
        /\ loaded[i] = files[Slots[i - Len(shipped)]]
        /\ DOMAIN shipped = 1..Len(shipped) /\ Len(shipped) \in Nat
    BY EntriesAre DEF CatalogueInv
  <2>2. loaded[i].vendor = User
    BY <2>1 DEF CatalogueInv
  <2> QED BY <2>1, <2>2
<1> QED BY <1>1, <1>2, <1>3 DEF Widens, OwnsAreFunctions

\* No import, delete or request, in any order, changes what a vendor's profile
\* resolves to, what its setting_id finds, or the chain files written for it:
\* whatever names and setting_ids the user's profiles have.
THEOREM VendorsUnaffected == Spec => []ShippedUnaffected
<1>1. ResolutionInv => ShippedUnaffected
  <2> SUFFICES ASSUME ResolutionInv, NEW x \in Keys(shipped)
               PROVE  LET e == Raw(shipped, x)
                          k == BySlug(shipped, e.sid, e.cat)
                      IN  /\ Resolved(loaded, memo, x) = Resolved(shipped, <<>>, x)
                          /\ BySlug(loaded, e.sid, e.cat) = k
                          /\ Writable(loaded, memo, k) = Writable(shipped, <<>>, k)
                          /\ Writable(shipped, <<>>, k) =>
                                 ChainFiles(loaded, memo, k) = ChainFiles(shipped, <<>>, k)
    BY DEF ShippedUnaffected
  <2> DEFINE e == Raw(shipped, x)
             I == WithIdIn(loaded, e.sid, e.cat)
             J == WithIdIn(shipped, e.sid, e.cat)
             k == First(shipped, J)
  <2>1. Widens(loaded, shipped) /\ MemoOf(loaded, memo)
    BY LoadedWidens DEF ResolutionInv
  <2>2. Resolved(loaded, memo, x) = Resolved(shipped, <<>>, x)
    BY <2>1, SameResolved DEF Resolved
  <2>3. J = I \cap DOMAIN shipped /\ I \in SUBSET DOMAIN loaded
    BY <2>1, SameNamed DEF WithIdIn, WithId
  <2>4. J # {} \/ I = J
    <3>1. CASE e.sid = NoRef
      BY <3>1 DEF WithIdIn, WithId
    <3>2. CASE e.sid # NoRef
      <4>1. PICK i \in DOMAIN shipped : e = shipped[i] /\ KeyOf(shipped[i]) = x
        BY <2>1, RawOfKey DEF Widens
      <4>2. i \in J
        BY <3>2, <4>1 DEF WithIdIn, WithId, Category
      <4> QED BY <4>2
    <3> QED BY <3>1, <3>2
  <2>5. k = NoKey \/ k \in Keys(shipped)
    <3>1. J \in SUBSET DOMAIN shipped
      BY <2>3
    <3> HIDE DEF J
    <3> QED BY <2>1, <3>1, FirstFound DEF Widens
  <2>6. BySlug(loaded, e.sid, e.cat) = k /\ BySlug(shipped, e.sid, e.cat) = k
    <3>1. First(loaded, I) = k
      <4> HIDE DEF I, J
      <4> QED BY <2>1, <2>3, <2>4, SameFirst
    <3> QED BY <3>1 DEF BySlug
  <2> HIDE DEF k
  <2>7. /\ Writable(loaded, memo, k) <=> Writable(shipped, <<>>, k)
        /\ Writable(shipped, <<>>, k) =>
               ChainFiles(loaded, memo, k) = ChainFiles(shipped, <<>>, k)
    <3>1. CASE k = NoKey
      BY <3>1 DEF Writable
    <3>2. CASE k \in Keys(shipped)
      BY <2>1, <3>2, SameFiles
    <3> QED BY <2>5, <3>1, <3>2
  <2>8. Writable(loaded, memo, k) = Writable(shipped, <<>>, k)
    BY <2>7 DEF Writable
  <2> QED BY <2>2, <2>6, <2>7, <2>8
<1> QED BY <1>1, ResolutionInvariant, PTL

-----------------------------------------------------------------------------
(* Filament ids *)

\* Of two filaments that share a filament_id and state their printers, no
\* printer sees both, unless the setting_id is the same.
Apart(a, b) ==
    a.sid # b.sid /\ {"fid", "compat"} \subseteq DOMAIN a.own \cap DOMAIN b.own
        /\ a.own.fid = b.own.fid
    => a.own.compat # {} /\ b.own.compat # {} /\ a.own.compat \cap b.own.compat = {}

\* AmsScopesDisjoint of the catalogue l
AllApart(l) ==
    \A k, x \in Filaments(l) :
        k # x /\ k.vendor = User => Apart(Raw(l, k), Raw(l, x))

\* Files the user may have
UserFiles(fs) ==
    /\ DOMAIN fs \subseteq Range(Slots)
    /\ \A x \in DOMAIN fs : fs[x].vendor = User
                            /\ fs[x].own = [f \in DOMAIN fs[x].own |-> fs[x].own[f]]

\* The entries of any files of the user's widen the vendors' catalogue.
LEMMA EntriesWiden ==
    ASSUME shipped \in Catalogues, NEW fs, UserFiles(fs)
    PROVE  Widens(Entries(fs), shipped)
<1> DEFINE l == Entries(fs)
<1>1. Numbered(l) /\ Numbered(shipped)
  BY EntriesNumbered
<1>2. ASSUME NEW i \in DOMAIN shipped
      PROVE  /\ i \in DOMAIN l /\ l[i] = shipped[i] /\ shipped[i].vendor # User
             /\ shipped[i].own = [f \in DOMAIN shipped[i].own |-> shipped[i].own[f]]
  <2>1. l[i] = shipped[i] /\ i \in DOMAIN l
    BY EntriesAre
  <2>2. shipped[i] \in Range(shipped) /\ shipped[i] \in Entry
    BY DEF Range, Entry
  <2> HIDE DEF l
  <2> QED BY <2>1, <2>2, ResolutionAssumption
<1>3. ASSUME NEW i \in DOMAIN l \ DOMAIN shipped
      PROVE  /\ l[i].vendor = User /\ \A j \in DOMAIN shipped : j < i
             /\ l[i].own = [f \in DOMAIN l[i].own |-> l[i].own[f]]
  <2>1. /\ Slots[i - Len(shipped)] \in DOMAIN fs /\ i \in Nat /\ i > Len(shipped)
        /\ l[i] = fs[Slots[i - Len(shipped)]]
        /\ DOMAIN shipped = 1..Len(shipped) /\ Len(shipped) \in Nat
    BY EntriesAre
  <2> HIDE DEF l
  <2>2. l[i].vendor = User /\ l[i].own = [f \in DOMAIN l[i].own |-> l[i].own[f]]
    BY <2>1 DEF UserFiles
  <2> QED BY <2>1, <2>2
<1> HIDE DEF l
<1>4. OwnsAreFunctions(l) /\ OwnsAreFunctions(shipped)
  BY <1>2, <1>3 DEF OwnsAreFunctions
<1>5. Widens(l, shipped)
  BY <1>1, <1>2, <1>3, <1>4 DEF Widens
<1> QED BY <1>5 DEF l

\* Without two files of one name, each file is what its key finds.
LEMMA RawOfFile ==
    ASSUME shipped \in Catalogues, NEW fs, UserFiles(fs), ~ NamesMeet(fs), NEW y \in DOMAIN fs
    PROVE  /\ KeyOf(fs[y]) \in Keys(Entries(fs)) /\ KeyOf(fs[y]).vendor = User
           /\ Raw(Entries(fs), KeyOf(fs[y])) = fs[y]
<1> DEFINE l == Entries(fs)
           k == KeyOf(fs[y])
<1>1. k.vendor = User /\ k.name = fs[y].name
  BY DEF KeyOf, UserFiles
<1>2. PICK j \in DOMAIN Slots : Slots[j] = y
  BY DEF UserFiles, Range
<1>3. Len(shipped) + j \in DOMAIN l /\ l[Len(shipped) + j] = fs[y]
  BY <1>2, EntriesAre
<1>4. k \in Keys(l)
  BY <1>3 DEF Keys
<1>5. Widens(l, shipped)
  BY EntriesWiden
<1>6. PICK i \in DOMAIN l : Raw(l, k) = l[i] /\ KeyOf(l[i]) = k
  <2> HIDE DEF l, k
  <2> QED BY <1>4, <1>5, RawOfKey DEF Widens
<1>7. i \notin DOMAIN shipped
  <2>1. l[i].vendor = User
    BY <1>1, <1>6 DEF KeyOf
  <2> HIDE DEF l
  <2> QED BY <1>5, <2>1 DEF Widens
<1>8. Slots[i - Len(shipped)] \in DOMAIN fs /\ l[i] = fs[Slots[i - Len(shipped)]]
  BY <1>6, <1>7, EntriesAre
<1>9. l[i].name = fs[y].name
  BY <1>1, <1>6 DEF KeyOf
<1>10. l[i] = fs[y]
  <2> HIDE DEF l
  <2> QED BY <1>8, <1>9 DEF NamesMeet
<1> QED BY <1>1, <1>4, <1>6, <1>10

\* A key of the catalogue is a vendor's, with the vendor's settings, or that of
\* a file of the user, with those of the file.
LEMMA KeyIsOf ==
    ASSUME shipped \in Catalogues, NEW fs, UserFiles(fs), ~ NamesMeet(fs),
           NEW k \in Keys(Entries(fs))
    PROVE  \/ /\ k \in Keys(shipped) /\ k.vendor # User
              /\ Raw(Entries(fs), k) = Raw(shipped, k)
           \/ \E y \in DOMAIN fs : k = KeyOf(fs[y]) /\ Raw(Entries(fs), k) = fs[y]
<1> DEFINE l == Entries(fs)
<1>1. PICK i \in DOMAIN l : k = KeyOf(l[i])
  BY DEF Keys
<1>2. CASE i \in DOMAIN shipped
  <2>1. k \in Keys(shipped)
    BY <1>1, <1>2, EntriesAre DEF Keys
  <2> QED BY <2>1, EntriesWiden, SameEntry
<1>3. CASE i \notin DOMAIN shipped
  <2>1. PICK y \in DOMAIN fs : l[i] = fs[y]
    BY <1>3, EntriesAre
  <2>2. k = KeyOf(fs[y])
    <3> HIDE DEF l
    <3> QED BY <1>1, <2>1
  <2> QED BY <2>2, RawOfFile
<1> QED BY <1>2, <1>3

\* What is stored keeps the filaments apart if the files that are new are.
LEMMA StoreKeepsApart ==
    ASSUME CatalogueInv, ~ hidden, AllApart(loaded),
           NEW fs, UserFiles(fs), ~ NamesMeet(fs), NEW slot,
           \A y \in DOMAIN fs \ {slot} : y \in DOMAIN files /\ fs[y] = files[y],
           slot \in DOMAIN fs /\ fs[slot].cat = "filament" =>
               \A x \in Filaments(loaded) : Apart(fs[slot], Raw(loaded, x))
    PROVE  AllApart(Entries(fs))
<1> DEFINE l == Entries(fs)
<1>1. /\ shipped \in Catalogues /\ loaded = Entries(files) /\ UserFiles(files)
      /\ ~ NamesMeet(files) /\ Widens(loaded, shipped)
  BY LoadedWidens DEF CatalogueInv, UserFiles
<1>2. ASSUME NEW k \in Filaments(l), ~ (slot \in DOMAIN fs /\ k = KeyOf(fs[slot]))
      PROVE  k \in Filaments(loaded) /\ Raw(l, k) = Raw(loaded, k)
  <2>1. k \in Keys(l) /\ Raw(l, k).cat = "filament"
    BY DEF Filaments, Category
  <2>2. CASE k \in Keys(shipped) /\ Raw(l, k) = Raw(shipped, k)
    <3>1. k \in Keys(loaded) /\ Raw(loaded, k) = Raw(shipped, k)
      BY <1>1, <2>2, SameEntry
    <3> HIDE DEF l
    <3> QED BY <2>1, <2>2, <3>1 DEF Filaments, Category
  <2>3. ASSUME NEW y \in DOMAIN fs, k = KeyOf(fs[y]), Raw(l, k) = fs[y]
        PROVE  k \in Filaments(loaded) /\ Raw(l, k) = Raw(loaded, k)
    <3>1. y \in DOMAIN files /\ fs[y] = files[y]
      BY <1>2, <2>3
    <3>2. k \in Keys(loaded) /\ Raw(loaded, k) = fs[y]
      BY <1>1, <2>3, <3>1, RawOfFile
    <3> HIDE DEF l
    <3> QED BY <2>1, <2>3, <3>2 DEF Filaments, Category
  <2> QED BY <1>1, <2>1, <2>2, <2>3, KeyIsOf
<1>3. ASSUME NEW k \in Filaments(l), slot \in DOMAIN fs, k = KeyOf(fs[slot]),
             NEW x \in Filaments(l), x # k
      PROVE  Apart(Raw(l, k), Raw(l, x)) /\ Apart(Raw(l, x), Raw(l, k))
  <2>1. Raw(l, k) = fs[slot]
    BY <1>1, <1>3, RawOfFile
  <2>2. fs[slot].cat = "filament"
    BY <2>1 DEF Filaments, Category
  <2>3. x \in Filaments(loaded) /\ Raw(l, x) = Raw(loaded, x)
    BY <1>2, <1>3
  <2>4. Apart(Raw(l, k), Raw(l, x))
    BY <1>3, <2>1, <2>2, <2>3
  <2> HIDE DEF l
  <2>5. Apart(Raw(l, x), Raw(l, k))
    BY <2>4 DEF Apart
  <2> QED BY <2>4, <2>5
<1>4. ASSUME NEW k \in Filaments(l), NEW x \in Filaments(l), k # x, k.vendor = User
      PROVE  Apart(Raw(l, k), Raw(l, x))
  <2>1. CASE slot \in DOMAIN fs /\ k = KeyOf(fs[slot])
    BY <1>3, <1>4, <2>1
  <2>2. CASE slot \in DOMAIN fs /\ x = KeyOf(fs[slot])
    BY <1>3, <1>4, <2>2
  <2>3. CASE ~ (slot \in DOMAIN fs /\ (k = KeyOf(fs[slot]) \/ x = KeyOf(fs[slot])))
    <3>1. /\ k \in Filaments(loaded) /\ Raw(l, k) = Raw(loaded, k)
          /\ x \in Filaments(loaded) /\ Raw(l, x) = Raw(loaded, x)
      BY <1>2, <2>3
    <3> HIDE DEF l
    <3> QED BY <1>4, <3>1 DEF AllApart
  <2> QED BY <2>1, <2>2, <2>3
<1> QED BY <1>4 DEF AllApart

\* The scope of a profile that states its printers is what it states, or none
\* when the check could not follow its parents.
LEMMA ScopeIsStated ==
    ASSUME NEW l, NEW m, NEW e, "compat" \in DOMAIN e.own
    PROVE  Scope(l, m, e) \in {{}, e.own.compat}
<1>1. Setting(e.own, "compat") = e.own.compat
  BY DEF Setting
<1>2. \A s : Setting(Merge(s, e.own), "compat") = e.own.compat
  BY DEF Setting, Merge
<1> QED BY <1>1, <1>2 DEF Scope

\* An import that is accepted is apart from every filament of the catalogue.
LEMMA AcceptedIsApart ==
    ASSUME NEW l, NEW m, NEW p, Acceptable(l, m, p), p.cat = "filament",
           NEW x \in Filaments(l)
    PROVE  Apart(Materialized(l, p), Raw(l, x))
<1> DEFINE e == Materialized(l, p)
           b == Raw(l, x)
<1> SUFFICES ASSUME e.sid # b.sid,
                    {"fid", "compat"} \subseteq DOMAIN e.own \cap DOMAIN b.own,
                    e.own.fid = b.own.fid
             PROVE  /\ e.own.compat # {} /\ b.own.compat # {}
                    /\ e.own.compat \cap b.own.compat = {}
  BY DEF Apart
<1>1. \A k \in Rivals(l, e) : ~ Conflict(l, m, e, k)
  BY DEF Acceptable
<1> HIDE DEF e
<1>2. x \in Rivals(l, e)
  BY DEF Rivals, Setting
<1>3. LET c == Scope(l, m, e)
          d == Scope(l, m, b)
      IN  c # {} /\ d # {} /\ c \cap d = {}
  BY <1>1, <1>2 DEF Conflict
<1>4. Scope(l, m, e) \in {{}, e.own.compat} /\ Scope(l, m, b) \in {{}, b.own.compat}
  BY ScopeIsStated
<1> QED BY <1>3, <1>4

\* The inductive invariant of AmsScopesDisjoint
AmsInv == CatalogueInv /\ (~ hidden => AllApart(loaded))

\* Every step keeps filaments of one filament_id apart, unless names met.
LEMMA StepApart ==
    ASSUME AmsInv, [Next]_vars
    PROVE  ~ hidden' => AllApart(loaded')
<1>0. CatalogueInv /\ UserFiles(files)
  BY DEF AmsInv, CatalogueInv, UserFiles
<1>1. ASSUME NEW fs, Store(fs), ~ hidden'
      PROVE  loaded' = Entries(fs) /\ ~ hidden /\ ~ NamesMeet(fs) /\ AllApart(loaded)
  BY <1>1 DEF Store, Load, AmsInv, CatalogueInv
<1>2. ASSUME NEW p \in Payload, Import(p), ~ hidden'
      PROVE  AllApart(loaded')
  <2> DEFINE slot == [cat |-> p.cat, base |-> p.inherits = NoRef, sid |-> p.sid]
             kept == DOMAIN files \ Find(p.cat, p.sid)
             e    == Materialized(loaded, p)
             fs   == [x \in kept \cup {slot} |-> IF x = slot THEN e ELSE files[x]]
  <2>1. Acceptable(loaded, memo, p) /\ Store(fs)
    BY <1>2 DEF Import
  <2>2. slot \in Range(Slots)
    BY ResolutionAssumption
  <2>3. /\ e.vendor = User /\ e.cat = p.cat
        /\ e.own = [f \in DOMAIN e.own |-> e.own[f]]
    BY MaterializedIs
  <2>4. e.cat = "filament" => \A x \in Filaments(loaded) : Apart(e, Raw(loaded, x))
    BY <2>1, <2>3, AcceptedIsApart
  <2> HIDE DEF e, slot
  <2>5. DOMAIN fs = kept \cup {slot} /\ fs[slot] = e
        /\ \A y \in DOMAIN fs \ {slot} : y \in DOMAIN files /\ fs[y] = files[y]
    OBVIOUS
  <2> HIDE DEF fs
  <2>6. UserFiles(fs)
    <3>1. DOMAIN fs \subseteq Range(Slots)
      BY <1>0, <2>2, <2>5 DEF UserFiles
    <3>2. ASSUME NEW y \in DOMAIN fs
          PROVE  fs[y].vendor = User /\ fs[y].own = [f \in DOMAIN fs[y].own |-> fs[y].own[f]]
      <4>1. CASE y = slot
        BY <2>3, <2>5, <4>1
      <4>2. CASE y # slot
        BY <1>0, <2>5, <4>2 DEF UserFiles
      <4> QED BY <4>1, <4>2
    <3> QED BY <3>1, <3>2 DEF UserFiles
  <2>7. loaded' = Entries(fs) /\ ~ hidden /\ ~ NamesMeet(fs) /\ AllApart(loaded)
    BY <1>1, <1>2, <2>1
  <2>8. AllApart(Entries(fs))
    BY <1>0, <2>4, <2>5, <2>6, <2>7, StoreKeepsApart
  <2> QED BY <2>7, <2>8
<1>3. ASSUME NEW fs, Store(fs), ~ hidden', DOMAIN fs \subseteq DOMAIN files,
             \A y \in DOMAIN fs : fs[y] = files[y]
      PROVE  AllApart(loaded')
  <2>1. UserFiles(fs)
    BY <1>0, <1>3 DEF UserFiles
  <2>2. loaded' = Entries(fs) /\ ~ hidden /\ ~ NamesMeet(fs) /\ AllApart(loaded)
    BY <1>1, <1>3
  <2> DEFINE none == CHOOSE y : y \notin DOMAIN fs
  <2>3. none \notin DOMAIN fs
    BY NoSetContainsEverything
  <2> HIDE DEF none
  <2>4. AllApart(Entries(fs))
    BY <1>0, <1>3, <2>1, <2>2, <2>3, StoreKeepsApart
  <2> QED BY <2>2, <2>4
<1>4. ASSUME NEW x \in DOMAIN files, Delete(x.cat, x.sid), ~ hidden'
      PROVE  AllApart(loaded')
  <2> DEFINE fs == [y \in DOMAIN files \ Find(x.cat, x.sid) |-> files[y]]
  <2>1. Store(fs)
    BY <1>4 DEF Delete
  <2>2. DOMAIN fs \subseteq DOMAIN files /\ \A y \in DOMAIN fs : fs[y] = files[y]
    OBVIOUS
  <2> HIDE DEF fs
  <2> QED BY <1>3, <1>4, <2>1, <2>2
<1>5. ASSUME Reload, ~ hidden'
      PROVE  AllApart(loaded')
  BY <1>3, <1>5 DEF Reload
<1>6. ASSUME UNCHANGED <<loaded, hidden>>, ~ hidden'
      PROVE  AllApart(loaded')
  BY <1>6 DEF AmsInv
<1>7. ASSUME NEW p \in Payload, CheckImport(p), ~ hidden'
      PROVE  AllApart(loaded')
  BY <1>6, <1>7 DEF CheckImport, Touch
<1>8. ASSUME Ask, ~ hidden'
      PROVE  AllApart(loaded')
  BY <1>6, <1>8 DEF Ask, GetProfile, ResolveForMachine, Materialize, Touch
<1>9. ASSUME UNCHANGED vars, ~ hidden'
      PROVE  AllApart(loaded')
  BY <1>6, <1>9 DEF vars
<1> QED BY <1>2, <1>4, <1>5, <1>7, <1>8, <1>9 DEF Next

\* As long as no user file hides another, two filaments that share a filament_id
\* and state their printers are never for one printer, if one of them is the
\* user's: for any catalogue that is shipped and any order of imports, checks
\* and deletes.
THEOREM FilamentIdsApart == Spec => []AmsScopesDisjoint
<1>1. Init => AmsInv
  <2> SUFFICES ASSUME Init PROVE AmsInv
    OBVIOUS
  <2>1. CatalogueInv /\ loaded = shipped
    BY InitCatalogue DEF Init
  <2>2. \A k \in Filaments(shipped) : k.vendor # User
    BY <2>1, LoadedWidens, SameEntry DEF Filaments
  <2> QED BY <2>1, <2>2 DEF AmsInv, AllApart
<1>2. AmsInv /\ [Next]_vars => AmsInv'
  <2> SUFFICES ASSUME AmsInv, [Next]_vars PROVE AmsInv'
    OBVIOUS
  <2>1. CatalogueInv'
    BY StepCatalogue DEF AmsInv
  <2>2. ~ hidden' => AllApart(loaded')
    BY StepApart
  <2> QED BY <2>1, <2>2 DEF AmsInv
<1>3. AmsInv => AmsScopesDisjoint
  BY DEF AmsInv, AllApart, Apart, AmsScopesDisjoint
<1> QED BY <1>1, <1>2, <1>3, PTL DEF Spec

=============================================================================
