# Verification of orcaslicer-headless

`src/` is a FastAPI service that slices 3MF files. A Python gateway (`app/`)
keeps the state; a C++ program, `orca-headless` (`cpp/`), is started once per
operation and does the slicing. This directory holds TLA+ modules of the
stateful parts, TLC configurations, and proofs for TLAPS.

## The system

| Part | State it keeps | Operations | What is hard about it | What makes it correct |
|---|---|---|---|---|
| Token cache, `app/cache.py` | index by token, index by hash, LRU order, files by hash | put, path, sha256_for, delete, clear, eviction by bytes and by count | crashes between file and index, restarts that forget the index, two caps at once | index, order and disk agree; a token never denotes other bytes; both caps hold and eviction takes no more than needed |
| Inspect, `main.py` 998-1092, `inspect.py` | `InspectCache` by content hash (LRU, bounded) | inspect, thumbnails, upload, download, delete, clear | the await of `use-set` between reading a token and caching under its hash; answers that outlive the token they mention | an answer describes the bytes it is given for; slots are missing only after a failure, until the file is deleted |
| Slicing, `main.py` 1391-1579, `binary_client.py` | one output file per input token; one process per request | slice, slice-stream | requests sharing an output file, timeout and kill, client hang-up, inputs evicted while in use | a request is answered with its own slice; no process outlives a plain request; every plain request is answered |
| STL drafts, `stl_drafts.py`, `main.py` 1289-1754 | draft index, one directory per draft, a table of asyncio locks, expiry | import, layout, materialize, sweep | locks forgotten while requests wait on them, sweeps of directories in use, failing deletes, layouts that fail half way | mutual exclusion per draft; current model, scene and what the client sees are one version; no directory lost; every request ends |
| Profile catalogue, `profiles.py`, `manifest.py`, `main.py` 239-756 | files under the user directory (three places per id), in-memory index rebuilt in two phases | import and delete of user profiles, reload | the await of `dump-profiles` inside a reload; concurrent reloads; legacy files shared by two categories; failing dumps | index mirrors the files once no load is running; a deleted profile is gone |
| Binary protocol, `binary_client.py`, `cpp/src/*.cpp` | pipes of one child process | JSON request, progress events on stderr, one envelope on stdout | crash handlers that write a second envelope; the order in which pipes are drained | a result is reported only of a finished process with a complete file; a failure is named by its cause; nothing outlives a call; every call ends |
| A slice request, `slicer.py`, `main.py` 1119-1472, `cpp/src/slice_mode.cpp` | the configuration, the model and the report of one request | padding, checks, preset matching, the overlays, overrides, plate isolation, copies, export | six layers that write one configuration; two index bases; sparse slots; two processes that read one file | each setting has its strongest source's value; the report is the effect; slots get their own; the plate asked for is printed |
| 3MF archives, `threemf.py`, `inspect.py`, `use_set_mode.cpp` | none | inspect, prepare, use-set | stale and partial metadata, archives of several plates, groups of changed keys that may be missing | what use-set names is what is printed, but for filament settings of the request; what is baked in arrives |
| Profile resolution, `profiles.py`, `slicer.py` 204-318 | memo of resolved profiles | lookup, inheritance, import checks, replacement for a machine, chain files | names that vendors and users share, cycles, missing parents, ties, memo against later imports | resolution is what the chain defines; vendor profiles do not depend on user ones; filament ids stay apart; replacements are the best |
| STL conversion, option catalogue, web UI, models, config, packaging | none shared | | | not modelled |

**How they interact.** All handlers run on one asyncio loop, so a handler is
atomic between its awaits; the awaits are of child processes and of draft
locks. The token cache serves every 3MF endpoint: uploads, slices and
materialized drafts put into it, and inspect, slicing and downloads read paths
from it. The inspect cache is keyed by the hashes of the token cache and is
dropped by `delete_token` but not by `clear_cache`. Child processes read and
write files of the token cache's directory and of the drafts' directories while
other handlers run. The profile catalogue is read by slicing only through plain
function calls.

## Modules

### TokenCache, ContentStore, TokenCacheProofs

`TokenCache` is class `TokenCache` of `app/cache.py`. A payload stands for a
file's bytes and for their SHA-256, which assumes that hashes do not collide. `entries` is the OrderedDict's
order, `shaOf` the entries, `tokenOf` is `_sha_to_token`, `files` the directory,
`partials` the `.tmp-` files that failed writes leave, and `issued` every token
ever drawn (`secrets.token_urlsafe` is taken never to repeat). `Put` is `PutKnown` or `PutNew`;
`PutNew` includes the write, the indexing and the whole of `_evict_if_needed`.
`PutFails` is the write that raises; `CrashInWrite`, `CrashInEviction` and
`CrashInClear` are the process dying inside an operation, which leaves the files
as they are at that point and the index empty; `Restart` is a new process.

`ContentStore` is what clients rely on: a token denotes one payload for all time.
`ImplementsStore` maps `denotes` to `shaOf` and `spent` to `issued`.

### InspectService, InspectServiceProofs

Extends `TokenCache` with `InspectCache` (`answers`, `recency`) and the requests
suspended in `use_set` (`pending`). An answer is reduced to what its parts were
computed from: the payload it `describes`, the `urlToken` its thumbnail URLs
spell, and the plates whose filament `slots` are filled. Which plates a payload has, which
of them a slice has described and which use-set names (those with objects) are constants. `InspectHit`,
`InspectParsed` and `InspectAwaits` are the three ways through the handler up
to its answer or its await, `UseSetReturns` is the rest: it caches the answer also when the
binary has failed, with the slots that are known without it. `useSetLost` is a history of
those failures, cleared by a deletion and a restart. The service around it
(`Upload`, `ReadFile`, `DeleteToken`, `ClearCache`, `RestartServer`) runs in
between.

### SliceService, SliceServiceProofs

Extends `TokenCache` with slice requests. `BeginSlice` is a handler up to its
await, `RejectSlice` the early returns after the token has been resolved. The
process is `LoadInput` (its input may be unlinked by now), `StoreOutput`,
`ExitOk` or `ExitBadly`. `AnswerSlice`, `AnswerError`, `TimeOut` and `HangUp`
are what the handler does when it resumes. `SliceOf[r]` is what the request's
own options produce; `shared` is a history of the requests whose output file
another live process could have written.

### StlDrafts, StlDraftsProofs

The three draft handlers over `StlDraftCache`. Each model the binary produces
is a new version number; a directory is the record of which version each file
was written from. `locks` is `app.state.stl_draft_locks`, and `queue` gives each
lock its holder and waiters in the order asyncio wakes them. `Queue` is a
handler's arrival at `async with lock`, `Start`, `Refuse` and `GetRaises` are
its first step under the lock, `BinaryDone` and `BinaryFailed` the process,
and `LayoutOk`, `LayoutSceneFails`, `FilesLost`, `ExportOk`, `ExportKept`,
`ImportOk`, `ImportFails` and `ReportError` the rest of the handlers. `AgeOut`
is the passing of the TTL; `ImportBegin` includes the sweep `put_source` makes.

### ProfileCatalog, ProfileCatalogProofs

The user profiles. `files` maps a directory and a name to contents, in the five
places the code writes or reads: the legacy root, `filament/`, `filament/base/`,
`process/` and `process/base/`. `index` is the part of `_raw_profiles` and
`_type_map` under keys `User::name`; `extra` the keys `::name` that
`annotate_profile_cache` synthesizes; `stamp` the `_manifest` entries. `load`
holds the handlers that are suspended in `load_all_profiles`. `Import`, `Delete`
and `Reload` are handlers up to that await, each with the walk it ends in
(`StartLoad`); `DumpReads` and `DumpFails` are the process; `Annotate` is what
runs after it. `ImportFails` is a write that fails after truncating the file.
`settled` is a history: the last walk belongs to a load that ran alone and was
stamped. A profile's setting_id is its name, and user profiles do not bear
vendor names. A body has a parent (`ParentOf`: none, a vendor's profile, or a
user's) and a type (`KindOf`). The parent decides the directory, whether the import
is accepted, and whether the dump has the profile at all: the binary
drops a user preset whose parent it has not loaded (`Manifests`; `base/` is read
first, the order within a directory is left open). The walk takes the
type from the body, the dump from the directory, and the two differ for a process
import that carries a filament's or a machine's fields.

### ProfileResolution, ProfileResolutionProofs

What the catalogue is used for, vendors included. `loaded` is `Entries(files)`,
the profiles numbered in the order of the calls of `_index_profile`: first the
vendors' (`shipped`), then a number for each place of `Slots`, the paths a user
file can have in the order of the walk. A place without a file leaves its number
free, so a user's profile keeps its number as others come and go. Every index of
`profiles.py` is an operator on `loaded` (`Raw`, `Named`, `WithId`, `Place`), so
which of two profiles of one name or setting_id wins is decided as in the code. `memo` is `_resolved_cache`. A
profile's `own` settings are the few the algorithms look at. `Parent` and
`Chain` are the inheritance walk, `Resolve` and `Remember` the recursive
resolution with its memo, `Loops` the case in which the recursion has no end.
`Import` is the checks (`Acceptable`, with the scan of `Conflict` over `Rivals`),
the write and the walk; `CheckImport`, `GetProfile`, `ResolveForMachine` and
`Materialize` are the requests that only resolve, and change the memo alone:
their answers (`Match`, `ChainFiles`) are operators that the properties compare
with definitions of their own (`Nearest`, the ranks of `MatchIsBest`). The await
of `dump-profiles` and its overlaps are left to `ProfileCatalog`, the legacy root
directory too. `hidden` is a history: two user files have had one name. A parent
given in the internal form `vendor::name`, colliding hashes of generated
ids, and files that `load_all_profiles_legacy` finds outside a vendor's index
are left out.

### BinaryProtocol, BinaryProtocolProofs

One call of the gateway to the binary, whichever of the six methods makes it
(`call`). The process (`proc`) parses its request, works, stores its file,
answers and leaves; on the way it can fail in its mode (`FailMode`), throw up to
`main()` (`Throw`), terminate, receive a fatal signal or be killed. Everything it
writes goes through `ToStderr`, which blocks on a full pipe, `ToProtocol` (the
saved descriptor) or `ToStdout` (fd 1, which the start-up redirect points at
stderr; `saved` is false when the redirect failed). `Respond` is the envelope of
a mode: `dump-options` alone uses `std::cout` for it. The client (`client`) is in
`communicate()`, which drains both pipes, or in `slice_stream`, which drains
stderr before it collects stdout; `Verdict` is what it makes of return code and
output, in the order of the code's tests. `TimeOut` sends the SIGKILL, `Die` is
its arrival, `Reap` the end of `proc.wait()`. `ends` and `given` are histories:
every way the process ended, and the state of the file at the answer.

### ThreemfArchive, SliceSettings, SliceJob, SliceJobProofs

What one slice request does, from the archive its token names to the archive it
answers with. `ThreemfArchive` has no variables: an archive is a record of what
the code looks at (`authored` presets, `settings` with the hand that wrote
each, `groups` of changed keys, the plates listed and described, the bed it was
laid out for, and of each instance the plate that lists it, whether it is to be
printed and the box it stands in), and its operators are the inspection (`AuthoredSlots`,
`UsedSlots`, `InspectedPlate`), `use-set` (`UseSet`, `Backfilled`), the padding
(`Padded`, `Placed`) and `prepare` (`Prepared`). Which slots an object is printed with
depends on the global settings that name one (`GlobalKey`, the support ones where
supports count): `ObjectSlots` takes their values as a parameter, and `use-set` gives it the
file's, the slice those of its final configuration.

`SliceSettings` follows the configuration. `stage` is how far the request has
come; `Prepare` may be called any number of times before. `PadSlots`, `RejectMap`,
`RejectForeign` and `Materialize` are the gateway; `RejectArchive`, `MatchSlots`,
`OverlayPresets`, `Compose`, `OverlaySlots`, `OverrideByClient` and `WireRequest`
are steps 2 to 10 of `run_slice_mode`, in its order. A setting's value is the
name of its source, so which layer won can be read off: `cfg` and `vec`
are `final_cfg` without and with one value per slot, `edited` the are `final_cfg` without and with one value per slot, `edited` the edited
presets, `report` the `settings_transfer`. `BedLabel` is the resolution of the plate type.
`OverlaySlots` copies the whole group of a kept slot: that of the process is filtered of
filament keys and that of the printer of the topology, a slot's of nothing.

`SliceJob` extends it with the rest, steps 10b to 16: `IsolatePlate`,
`PlaceCopies`, `ApplyFails`, `SliceFails`, `Export` and the refusals. `instances`
is the model, with how often each instance is printed, `output` the archive written, `infos` the
filaments listed with its plate. Isolation knows nothing of the plate that lists an instance: `Bed` is the
printable area of the final configuration (the request's machine's, unless the author, the client or
`prepare` set another), `Plot` the place of a plate when beds of that size are laid out in
`Columns` and rows with a fifth between them, and `OnPlate` what stands wholly inside. The slots of a plate are listed in ascending order (`InOrder`), as the
engine collects them; a print that uses none is refused by `Print::validate`, so
`Export` has a slot to list. What the output shows when it is inspected in turn
is `OutputIsInspected`.

## Runs

| Run | Instance | Result |
|---|---|---|
| `token_cache` | 4 payloads of sizes 1, 2, 3, 7, byte cap 5, file cap 3, 6 tokens | index consistent, caps respected, eviction minimal and in LRU order, refines `ContentStore` |
| `inspect` | 3 payloads (sliced, partly sliced, with an empty plate), 3 tokens, 2 requests, inspect cache of 1 | answers never mix files; slots that can be told are missing only after failures, and not beyond a deletion |
| `slice` | 2 uploads, 2 outputs, 4 tokens, a plain and a streamed request | own answer unless the output file is shared; no process outlives a plain request; plain requests are answered |
| `slice_output` | the same | finding: an answer with another request's slice |
| `stl_drafts` | 2 drafts, 2 requests, 3 locks, 3 versions | exclusion, versions agree, directories match |
| `stl_liveness` | 1 draft, 3 requests, 2 locks, 2 versions | every request ends |
| `catalog` | 2 names, one the other's parent, 4 bodies, 2 requests | index mirrors the files always; listings current after a load that ran alone; listed profiles resolve with their parents; imports take no profile away |
| `catalog_deleted` | the same | finding: a deleted profile stays listed |
| `resolution` | 2 vendor catalogues of 4 and 7 profiles, 9 import bodies under 3 setting_ids | memo is right, vendor profiles are unaffected, filament ids stay apart, replacements are the best |
| `resolution_chain` | the same | finding: chain files of another profile of the same name |
| `binary_protocol` | each of the 6 calls, redirect made or not, stderr pipe of 2 lines, 3 lines of noise | results are real, endings named, nothing outlives a call, every call ends |
| `slice_job` | 4734 pairs of archive and request in three families | each setting from its strongest source; the report is the effect; slots get their own; baked settings arrive; the plate asked for is printed; use-set, slice and output agree on slots but for filament settings |

**Bounds.** The file cap of 3 with sizes 1, 2, 3, 7 makes each cap bind alone and
together, within one put as well, and payload 7 exceeds the byte cap alone. Six tokens let a payload
be evicted, uploaded anew and evicted again across a restart. An inspect cache
of one entry makes every second file evict the first. Two slice requests are the
fewest that share an output file; the file cap of 2 evicts an input while its
slicer starts. Two drafts let a sweep for one delete the other; two requests in flight on
one of them and three locks let a lock be forgotten and remade while it is
still waited on; three requests in the liveness run give a lock a queue behind
its first waiter. Profiles of different names never meet in the walk and the annotation
of the catalogue, so one name in both categories shows every collision, and a
second name that inherits it shows a child with and without its parent. The bodies of the first
(without a parent, a vendor's clone, a filament sent as a process) lie in either directory and
tell a stale entry from a current one. The catalogues of `resolution`
have a name in two vendors, a setting_id in two machines, a library or a missing
parent; the bodies take names of vendor profiles and of each other, so that parents
are shadowed, hidden and looped. `Huge`, the score of an equal alias, stands for 2^31-1. The jobs of `slice_job` are in
three families, since the layers they exercise do not interact: `ConfigJobs` has one filament and every
mix of groups, carried settings, overrides, plate type and filament map over twelve keys, one for each
way a key can lie in the sets the code tests; `SlotJobs` two slots with presets kept, swapped, derived,
embedded, missing or not named, and groups of slots that list process, printer, project and topology keys;
`PlateJobs` archives of up to three plates (a second column and a second row), sliced, un-sliced and stale,
with sparse, permuted and described slots, with instances excluded from printing, beside the plates, or listed
by none, plates 0 to 4 asked for and up to two copies, on a bed like the author's, one a fifth wider,
which just does not reach the next plate, one of twice the size and on none, and with the
bed set by the author, the client or `prepare`. A slice prints at least three progress
lines and up to three lines of noise, so a stderr pipe of two lines fills in every call that prints
and is not read. `MaxVersion`, `MaxNoise`, `MaxPartials` and the sets of tokens bound counters that
are unbounded in the code. Runs with `CHECK_DEADLOCK FALSE` are those in which
tokens or versions can run out, or all work can be over, as it is in `slice_job` once the request is
answered.

**Fairness.** `SliceSpec` assumes weak fairness of `Resume(r)`: the event loop
runs every callback that stays due, timers included. Nothing is assumed of the
slicer, which may never end. `FairSpec` of `StlDrafts` assumes that the loop
wakes the holder of a lock (`Begin`) and a handler whose process has ended
(`Resume`), and that every process ends (`BinaryEnds`), which
`BinaryClient.stl_draft` ensures with its 120 s timeout and kill. `FairSpec` of
`BinaryProtocol` assumes that the client does what it can, that its timer fires
and that a SIGKILL arrives. That the process gets on with its work (`ProcWorks`,
without its failures and its noise) is assumed for `slice_stream` alone, which
has no timeout.

**Findings.** Three runs refute something the repository says of itself; each
finding quotes the line. Every slice of one input token writes
`sliced-<token>.3mf`, so concurrent slices can be answered with each other's
result. The
files of a slice's inheritance chain are found by display name and can be
another vendor's. Overlapping loads of the profile catalogue can list a
profile that has been deleted.

More things a reader should know follow from the code directly and have no run.
A process import with a filament's or a machine's fields is stored as a process, indexed as
what it looks like and listed under a key that does not resolve; next to a filament of its
name it takes that filament's place in the listing. Deleting a user profile takes those that
inherit it out of the listings, while their files stay.
The terminate handler's envelope is followed by the signal handler's, and two
envelopes are none to the client, so `binary_terminate` never reaches a caller. Cached inspect answers carry the thumbnail URLs of the token they
were computed for, which may be gone. An answer that a failed use-set has left without slots
is cached, even over a complete one, and a retry is served it until the file is deleted, the answer
evicted or the service restarted; a deletion during the await does not prevent it. The caps of the token cache do not count
files of earlier processes, nor the `sliced-` files. And an imported filament
with its parent's own name becomes its own parent: resolving it overflows the
stack, which ends every `resolve-for-machine` of its category until it is deleted.

Of a slice request, each at its line among the hazards: a slot whose filament the
client swapped still gets the author's value of a key that another, kept slot
lists, since whole vectors are copied, though the API notes say such
customizations are discarded; the keys reported as discarded are none when the variant or its parent
was not loaded; filament lists that are dense but permuted are not reordered; filaments of
the output are described by position, so with an unused slot before a used one
the type and colour are another slot's; metadata left from an earlier slice is inspected
as current; a single-plate archive is never isolated, so what lies beside its plate is
printed; the slice of plate 2 is inspected as a plate 1 without data. A topology key in a kept
slot's group reaches the final configuration past the blocklist that guards the printer's group.
Plates are found by the bed of the request's machine: on a bed of another size plate 2 stands elsewhere,
so the slice finds it empty or takes what it should not; plate 1 is right on a bed up to a fifth
wider, but for what lies beside it. Copies of an instance
excluded from printing are printed. `use-set` goes by the filament settings of the file (`wall_filament`,
`support_filament` and their like), while the overlay of the process group drops just these keys,
so the slots inspected can differ from those printed with. The
properties state the cases in which the code is right, and their preconditions
name these. `LaidOut` is an archive whose plates hold what they list and nothing unlisted,
`BedIsLarger` that wider bed, `PlatesAgree` an archive laid out for the bed at hand, or of one plate that lists
everything, `CopiesAgree` a request without copies of what is excluded, `ByOtherSettings` a slot named by a setting
the slice takes from elsewhere; `Ascending` is a list of slots in order.

## Proofs

Every invariant the runs check is proved for all values of the constants that
meet the named assumption of its module, and so are the action properties and
the refinement of `ContentStore`. Each proof has an inductive invariant; what it adds
to the property, and why it must, is said here.

**TokenCacheProofs** (`CacheAssumption`): `TypeCorrect`, `AlwaysConsistent`,
`CapsHold`, `EvictionCorrect`, `CacheImplementsStore`. The inductive invariant is `CacheInv`, types together
with `IndexConsistent`: that an eviction unlinks no other entry's file needs
the two indexes to be inverse, and that needs the order to name a token once.
`Surplus` is the code's two popping loops, as recursive functions; `Fits` is what the caps
ask, and no definition of the code uses it. `SurplusFacts` shows that the loops together
halt at the first count at which the entries fit: `LoopHalts` says where a loop comes to a halt, `TotalIsBytes`
that the total the second loop keeps by subtraction is the sum of what is left. The sum of sizes, a fold
over a set, has to be reasoned about for that: `SumsExist` and its companions show that the function
the fold defines by recursion exists, and that a sum grows by the size of what is added.

**InspectServiceProofs**: `AnswersNeverMixFiles`, `SlotsAreMissingForAReason`.
The properties speak of cached answers, one of replies too; `InspectInv` adds what lies between,
that a suspended request still knows the hash its token denotes
(`PendingServes`), although the token may be deleted, the cache cleared or the
service restarted before it resumes. It keeps `CacheInv`, since every handler's
effect on the token cache is a step of that module (`InspectKeepsCache`). That
tokens are never reissued is what makes it true.

**SliceServiceProofs**: `OwnSliceUnlessShared`, `PlainProcessEnds`. `SliceInv`
says that only an accepted request has a process, and a plain one only while it waits
(`ProcessHasRequest`); that whoever waits while another live process may write
its output is in `shared` (`SharingIsNoticed`); and that what a
process has written is its own until it is read (`WrittenIsThere`), which is
the step that fails for shared outputs. `SliceKeepsCache` is as above.

**StlDraftsProofs** (any number of drafts, requests, locks and versions):
`DraftTypes`, `DraftsExclude`, `DirectoriesAlwaysMatch`, `CurrentIsShown`,
`ExportsWhatWasShown`. Mutual exclusion alone is not inductive, since locks are forgotten and remade.
`LockInv` strengthens it: a handler that works holds a lock; a request is in one
queue only, once; every queued request is in flight; and while a handler works
on a draft that is still there, the lock it holds is the one the table names,
so that a newcomer joins its queue. After the draft is gone its former waiters are refused.
The versions rest on that exclusion. `VersionInv` says of every undamaged
directory, an orphan's too, that model and scene are what the client was shown
(`DirIsShown`); that an import has its draft to itself until its client
learns the token (`ImportsAlone`); that what a process wrote is still there when its
handler resumes (`WrittenIsInDir`); and that nobody works on an exported draft
(`ExportedIsGone`), without which a layout could still change what was exported.

**ProfileCatalogProofs** (any names, bodies and requests): `CatalogTypes`,
`IndexAlwaysMirrors`, `NoProfileLost`, `ListingsAreCurrent`, `ListingsResolve`.
`IndexMirrorsFiles` is inductive by itself: every
change of a file is followed by a walk in the same step, except a failed write,
and for that `WalkIsLocal` shows that the walk of a name reads no file of
another. The types rest on `StampedTyped`, that annotation stamps existing keys only.
`NoProfileLost` proves the action property `ProfilesKept` step by step: a removed file is one of
`Existing`, never the one just written, and the directories of the categories are apart (`TypedApart`).
The listings are proved from `ListingInv`: what lies in `base/` inherits nothing
(`BasesStand`), a load that nothing has joined stamps its dump on the index of its
own walk while no file has changed (`AloneIsFresh`), and the result is exact until the next
change (`SettledIsExact`). `Exact` says entry by entry what the two properties say of
the lists, for each name whose files are where they belong; `ManifestHolds` says
what a dump has of a name, `WalkPrefers` which of its files the walk keeps, so that
the body in the dump and the one in the index name the same parent (`UnambiguousResolves`).

**ProfileResolutionProofs** (`ResolutionAssumption`: vendors' catalogues are
sequences without user profiles, imports are the user's and have a place):
`ReplacementIsBest`, `ResolutionTypes`, `MemoNeverStale`, `VendorsUnaffected`,
`FilamentIdsApart`. `CatalogueInv` says that what is loaded is made of vendors' entries and
files. For the memo, `ResolutionInv` adds `MemoOf`: whatever is memoised comes
from a root, with all its ancestors, and equals what the catalogue defines;
`ResolveIsNearest` shows that the recursion, stopping wherever the memo answers, agrees
with the definition that looks along the whole chain, and that takes lemmas on `Chain`
(it exists, is unique, and one that ends is no longer than the catalogue has keys). For the
independence of the vendors, `Widens` says that a catalogue holds the vendors'
entries and behind them only the user's; then every lookup that prefers what came first or is a
vendor's finds the same, link by link along a chain. For the
filament ids, `AmsInv` carries the pairwise property over an import: the scan of `Conflict` accepted
the newcomer against each of its rivals, and what the others resolve to did not change.
For the replacement, the ranks the property counts and the order the code scores by are the
same, tier by tier.

**BinaryProtocolProofs** (every capacity of the stderr pipe, any amount of
noise): `ProtocolTypes`, `ResultsAreReal`,
`EndingsAreNamed`, `NoProcessLeft`. What the client reports is decided by what is on the pipes,
the properties speak of what the process did, and `IInv` ties the two together:
a lone "ok" means that nothing but a SIGKILL came after it (`OkInv`), with a
clean stdout its content is the first ending (`NamedInv`), how often a process
can have ended where it stands (`EndsInv`), and an "ok" comes after the file is
whole (`FileInv`). Once a method has answered nothing moves any more
(`AnsweredIsStill`).

**SliceJobProofs** (any archives, requests, presets, keys and numbers of slots
and plates that meet `KeysApart`, which sets of keys are disjoint,
`JobsAsUploaded`, archives are archives, `ObjectsUseSlots` and `GivenAreaIsArea`, types): `StrongestSourceWins`, `AnswerTellsTheEffect`,
`SlotsKeepTheirOwn`, `BakingReachesTheSlice`, `OnlyThePlateIsPrinted`,
`SlotsArePaired`, `ListedIsEnough`, `InspectionIsTrue`, `SliceShowsItsSlots`.
The properties speak of the settled configuration, so `IInv` says what
holds before: what `prepare` wrote and listed (`BakedInv`), the edited presets
before and after the overlay (`EditedInv`), the configuration after each layer
(`CfgInv`), the values of each slot (`SlotInv`), the slots' part of the answer (`AnswerInv`) and what
is left on the plate (`PlateInv`). `OverlayContributes` is the heart of it: what the three overlays copy is what
`Contributes` says of the file, set by set. `PlateInv` says only that what stands inside the plot
is left; that this is what the plate lists is geometry: `Columns` exists
(`ColumnsExist`), no two plates share column and row (`PlatesInRows`), so nothing fits into
two plots (`OnePlateEach`), and a wider bed does not reach into the next (`LargerFirst`).
For the slots, `JobInv` adds that the filaments are the ones asked for, paired with
the slots of the archive as it was when they were padded, which no later step
changes (`PadInv`); that an archive of one plate loses no instance, and which of them are printed
(`WholeInv`); and what was written (`OutputInv`). For the inspection, `PrintedInstances` shows that `use-set`
goes by the very instances that are printed, `OtherValues` that an object names other slots only under other
settings. The other lemmas are about lists of slots: every finite set of slots can be listed in order, each slot once
(`CanBeListed`, `InOrderLists`), a list of n slots none of which exceeds n is 1 to n
(`AscendingDense`), the lists of several plates flatten to their union
(`SlotsOfArchive`), and a padded list reaches the last slot and has each filament at its own
(`PaddedCovers`, `PaddedPairs`).

**Induction over data.** The induction theorems of the library take an operator
as parameter, which the provers here cannot instantiate. Where a recursion has
to be followed to its end (`Chain`, `MergeAlong`, the sum of sizes, lists of
slots) the proof takes the least counterexample instead: `WFMin` applied to the
set of numbers at which the claim fails.

**Left to TLC.** Liveness, which is out of the prover's reach with its fairness
and `ENABLED`: `PlainSliceAnswered`, `EveryRequestEnds` and `CallEnds`. And the three findings,
which are counterexamples and need no proof.

## What is not modelled

The output file is named after the first eight characters of the token; the
model takes them to differ between tokens. The slicer's final write is one
step, the kindest assumption. A failed process may leave garbage in `next.3mf` or the export,
which the next one overwrites. `Start` follows `Queue` as a step of its own even when the lock
is free, which only adds interleavings. A client knows a draft's token
only from the answer to its import. In `BinaryProtocol` an envelope fits in the
stdout pipe, nothing but the envelopes and libslic3r's noise is written, and the
`.3mf` readers do not look inside the file. In
`SliceJob` the slots an object names for itself (`Uses`) and how it answers to the global settings (`Names`,
`SupportFor`; `raft_layers` counts as part of `enable_support`) are given: `use_set_mode.cpp` finds
them as libslic3r does for a slice, whose code is not here, and the model takes that for granted. Tool changes
put into a plate by hand, which add a slot, are left out on both sides. Instances are boxes and beds rectangles;
heights and the areas of single extruders are left out of the test whether one is inside. A filament preset has at most one ancestor that matters; keys
libslic3r does not know play no part. A plate type the gateway has resolved is one the engine
accepts. Names, colours, bounding boxes, progress texts, thumbnail pictures and
the XML itself are abstracted. Left out: the export of filaments and of chain file names,
the option catalogue with its layout filter (a fixed table, filtered), STL conversion and the meshes
of drafts (geometry), libslic3r (not in the repository), the web page, packaging and scripts, and
`slice_request.py`, which no endpoint uses.

## Plan

Modelled and proved so far, in this order: `TokenCache`, `InspectService`, `SliceService`,
`StlDrafts`, `ProfileCatalog`, `BinaryProtocol`, `ProfileResolution`,
`ThreemfArchive`, `SliceSettings`, `SliceJob`. To come:

1. `SliceService` over an abstract call: that `BinaryProtocol`, seen by its
   caller, does no more than `SliceService` lets a process do, as a refinement.
2. `FilamentExport`: the flattened export of a filament and the names of exported
   files, checked against reference definitions over small catalogues.
