------------------------------ MODULE StlDrafts ------------------------------
(***************************************************************************)
(* STL draft sessions: import_stl, layout_stl and materialize_stl_3mf of   *)
(* app/main.py over StlDraftCache (app/stl_drafts.py).  A handler is       *)
(* suspended while it waits for its draft's asyncio lock and while the     *)
(* stl-draft process runs; between those points it is one step.            *)
(* Each model the binary produces is a new version number; a file holds    *)
(* the version it was written from, or Absent.                             *)
(***************************************************************************)
EXTENDS Integers, Sequences, FiniteSets

CONSTANTS
    Token,          \* the draft tokens secrets.token_urlsafe can draw
    Request,        \* handlers that may be in flight together
    Lock,           \* identities of asyncio.Lock objects
    MaxVersion      \* bound of the model: how many models the binary makes

ASSUME DraftAssumption == MaxVersion \in Nat

VARIABLES
    known,      \* the tokens of StlDraftCache._drafts
    expired,    \* the tokens whose age exceeds the TTL
    drawn,      \* every token ever drawn
    dir,        \* token -> files of its directory, for those that exist
    locks,      \* app.state.stl_draft_locks: token -> lock
    queue,      \* lock -> its holder, then its waiters in order of arrival
    job,        \* handlers in flight -> what each is doing
    made,       \* versions made so far
    shown,      \* history: token -> version its client was last shown
    exported,   \* history: token -> version it was last turned into a .3mf from
    damaged,    \* history: tokens with a failed file operation behind them
    orphans     \* history: directories left by an earlier process or by a
                \*   failed clean-up, which no draft owns

draftVars == <<known, expired, drawn, dir>>
lockVars == <<locks, queue>>
history == <<shown, exported, damaged, orphans>>
vars == <<draftVars, lockVars, job, made, history>>

Absent == 0
Version == 0..MaxVersion

Files == [current : Version, next : Version, out : Version, scene : Version]
NoFiles == [current |-> Absent, next |-> Absent, out |-> Absent, scene |-> Absent]

Alive(t) == t \in known \ expired

Assign(f, x, v) == [y \in DOMAIN f \cup {x} |-> IF y = x THEN v ELSE f[y]]

Except(f, S) == [x \in DOMAIN f \ S |-> f[x]]

InFlight(r) == r \in DOMAIN job

Pc(r, pc) == InFlight(r) /\ job[r].pc = pc

Op(r, op) == job[r].op = op

\* Past the lock and past drafts.get: the binary runs or has just ended
Working(r) ==
    InFlight(r) /\ job[r].op # "import" /\ job[r].pc \in {"running", "written", "failed"}

Holds(r, l) == Len(queue[l]) > 0 /\ Head(queue[l]) = r

Init ==
    /\ known = {}
    /\ expired = {}
    /\ drawn = {}
    /\ dir = <<>>
    /\ locks = <<>>
    /\ queue = [l \in Lock |-> <<>>]
    /\ job = <<>>
    /\ made = 0
    /\ shown = <<>>
    /\ exported = <<>>
    /\ damaged = {}
    /\ orphans = {}

-----------------------------------------------------------------------------
(* What the handlers are made of *)

Enter(r, op, pc, t) ==
    job' = Assign(job, r, [op |-> op, pc |-> pc, tok |-> t, ver |-> Absent])

\* MUTANT of Leave: a handler that has answered stays suspended
LeaveSuspended(r) == job' = [job EXCEPT ![r].pc = "answered"]

Leave(r) == job' = Except(job, {r})

\* The end of "async with lock": the first waiter becomes the holder
Release(r) ==
    queue' = [l \in Lock |-> IF Holds(r, l) THEN Tail(queue[l]) ELSE queue[l]]

ForgetLock(t) == locks' = Except(locks, {t})

\* drafts.delete; a token that is unknown by now is no error
Deleted(t) ==
    /\ known' = known \ {t}
    /\ dir' = IF t \in known THEN Except(dir, {t}) ELSE dir
    /\ UNCHANGED damaged

\* MUTANT of DeleteFails: the draft is popped before its directory is removed
DeletePopsFirst(t) ==
    /\ t \in known
    /\ known' = known \ {t}
    /\ dir' \in {dir, [dir EXCEPT ![t] = NoFiles]}
    /\ damaged' = damaged \cup {t}

\* rmtree raises: the draft stays known, its directory is there in part
DeleteFails(t) ==
    /\ t \in known
    /\ dir' \in {dir, [dir EXCEPT ![t] = NoFiles]}
    /\ damaged' = damaged \cup {t}
    /\ UNCHANGED known

\* An error answer, or an exception, that leaves every draft as it is
GiveUp(r) ==
    /\ Leave(r)
    /\ Release(r)
    /\ UNCHANGED <<draftVars, locks, made, history>>

-----------------------------------------------------------------------------
(* Time, and the end of the process *)

AgeOut(t) ==
    /\ t \in known \cup DOMAIN dir
    /\ t \notin expired
    /\ expired' = expired \cup {t}
    /\ UNCHANGED <<known, drawn, dir, lockVars, job, made, history>>

\* A new process: __init__ sweeps what has expired and adopts nothing
Restart ==
    /\ known' = {}
    /\ dir' = Except(dir, expired)
    /\ orphans' = DOMAIN dir \ expired
    /\ locks' = <<>>
    /\ queue' = [l \in Lock |-> <<>>]
    /\ job' = <<>>
    /\ UNCHANGED <<expired, drawn, made, shown, exported, damaged>>

-----------------------------------------------------------------------------
(* import_stl *)

\* put_source sweeps, then makes the directory and indexes the draft
ImportBegin(r, t) ==
    /\ ~InFlight(r)
    /\ t \notin drawn
    /\ drawn' = drawn \cup {t}
    /\ known' = (known \ expired) \cup {t}
    /\ dir' = Assign(Except(dir, expired), t, NoFiles)
    /\ orphans' = orphans \ expired
    /\ Enter(r, "import", "running", t)
    /\ UNCHANGED <<expired, lockVars, made, shown, exported, damaged>>

\* The sweep raises at one directory, known drafts first: no draft is made
ImportSweepFails ==
    \E gone \in SUBSET (expired \cap DOMAIN dir) :
    \E stuck \in (expired \cap DOMAIN dir) \ gone :
        /\ stuck \notin known => known \cap expired \subseteq gone
        /\ known' = known \ gone
        /\ \E left \in {dir[stuck], NoFiles} :
              dir' = Except([dir EXCEPT ![stuck] = left], gone)
        /\ damaged' = damaged \cup {stuck}
        /\ orphans' = orphans \ gone
        /\ UNCHANGED <<expired, drawn, lockVars, job, made, shown, exported>>

\* The source cannot be written: its directory is removed, or stays behind
ImportSourceFails(t) ==
    /\ t \notin drawn
    /\ drawn' = drawn \cup {t}
    /\ known' = known \ expired
    /\ \/ /\ dir' = Except(dir, expired)
          /\ orphans' = orphans \ expired
       \/ /\ dir' = Assign(Except(dir, expired), t, NoFiles)
          /\ orphans' = (orphans \ expired) \cup {t}
    /\ UNCHANGED <<expired, lockVars, job, made, shown, exported, damaged>>

\* The scene is written and returned; the directory must still be there
ImportOk(r) ==
    LET t == job[r].tok IN
    /\ Pc(r, "written") /\ Op(r, "import")
    /\ t \in DOMAIN dir
    /\ dir' = [dir EXCEPT ![t].scene = job[r].ver]
    /\ shown' = Assign(shown, t, job[r].ver)
    /\ Leave(r)
    /\ UNCHANGED <<known, expired, drawn, lockVars, made, exported, damaged, orphans>>

\* Any error, a directory that was swept, a scene that cannot be written:
\* the finally clause deletes the draft
ImportFails(r) ==
    LET t == job[r].tok IN
    /\ InFlight(r) /\ Op(r, "import")
    /\ job[r].pc \in {"written", "failed"}
    /\ Deleted(t) \/ DeleteFails(t)
    /\ Leave(r)
    /\ UNCHANGED <<expired, drawn, lockVars, made, shown, exported, orphans>>

-----------------------------------------------------------------------------
(* layout_stl and materialize_stl_3mf, up to the end of the binary *)

\* MUTANT of LockFor: every request makes a lock of its own
LockForEach(t) == {l \in Lock : queue[l] = <<>>}

\* The lock of t, or a new one
LockFor(t) ==
    IF t \in DOMAIN locks
    THEN {locks[t]}
    ELSE {l \in Lock : queue[l] = <<>> /\ \A u \in DOMAIN locks : locks[u] # l}

\* A client has the token from the answer to its import
Queue(r, t, op) ==
    /\ ~InFlight(r)
    /\ t \in DOMAIN shown
    /\ \E l \in LockFor(t) :
          /\ locks' = Assign(locks, t, l)
          /\ queue' = [queue EXCEPT ![l] = Append(@, r)]
    /\ Enter(r, op, "queued", t)
    /\ UNCHANGED <<draftVars, made, history>>

\* drafts.get finds the draft, rewrites its metadata, and the binary starts.
\* (A free lock is taken in the step of Queue: here other handlers may run
\* in between.)
Start(r) ==
    /\ Pc(r, "queued")
    /\ \E l \in Lock : Holds(r, l)
    /\ Alive(job[r].tok)
    /\ job' = [job EXCEPT ![r].pc = "running"]
    /\ UNCHANGED <<draftVars, lockVars, made, history>>

\* MUTANT of Refuse: the 404 and 410 answers keep the lock
RefuseHolding(r) ==
    LET t == job[r].tok IN
    /\ Pc(r, "queued")
    /\ \E l \in Lock : Holds(r, l)
    /\ ~Alive(t)
    /\ Deleted(t) \/ DeleteFails(t)
    /\ ForgetLock(t)
    /\ Leave(r)
    /\ UNCHANGED <<expired, drawn, queue, made, shown, exported, orphans>>

\* 404, or 410 after deleting the expired draft: the lock is forgotten
Refuse(r) ==
    LET t == job[r].tok IN
    /\ Pc(r, "queued")
    /\ \E l \in Lock : Holds(r, l)
    /\ ~Alive(t)
    /\ Deleted(t) \/ DeleteFails(t)
    /\ ForgetLock(t)
    /\ Release(r)
    /\ Leave(r)
    /\ UNCHANGED <<expired, drawn, made, shown, exported, orphans>>

\* drafts.get cannot write the metadata and raises
GetRaises(r) ==
    /\ Pc(r, "queued")
    /\ \E l \in Lock : Holds(r, l)
    /\ Alive(job[r].tok)
    /\ GiveUp(r)

-----------------------------------------------------------------------------
(* The stl-draft process: it reads and writes below the draft's directory  *)

\* import writes current.3mf, layout next.3mf
MakeVersion(r, name) ==
    /\ made < MaxVersion
    /\ made' = made + 1
    /\ dir' = [dir EXCEPT ![job[r].tok][name] = made + 1]
    /\ job' = [job EXCEPT ![r] = [@ EXCEPT !.pc = "written", !.ver = made + 1]]

\* export_3mf copies the current model
CopyVersion(r) ==
    /\ dir' = [dir EXCEPT ![job[r].tok].out = dir[job[r].tok].current]
    /\ job' = [job EXCEPT ![r].pc = "written"]
    /\ UNCHANGED made

\* MUTANT of BinaryDone: the layout is written over the current model
BinaryDoneInPlace(r) ==
    LET t == job[r].tok IN
    /\ Pc(r, "running")
    /\ t \in DOMAIN dir
    /\ \/ Op(r, "import") /\ MakeVersion(r, "current")
       \/ Op(r, "layout") /\ dir[t].current # Absent /\ MakeVersion(r, "current")
       \/ Op(r, "export") /\ dir[t].current # Absent /\ CopyVersion(r)
    /\ UNCHANGED <<known, expired, drawn, lockVars, history>>

BinaryDone(r) ==
    LET t == job[r].tok IN
    /\ Pc(r, "running")
    /\ t \in DOMAIN dir
    /\ \/ Op(r, "import") /\ MakeVersion(r, "current")
       \/ Op(r, "layout") /\ dir[t].current # Absent /\ MakeVersion(r, "next")
       \/ Op(r, "export") /\ dir[t].current # Absent /\ CopyVersion(r)
    /\ UNCHANGED <<known, expired, drawn, lockVars, history>>

\* An error envelope, a crash, the 120 s timeout and kill, files that are gone
BinaryFailed(r) ==
    /\ Pc(r, "running")
    /\ job' = [job EXCEPT ![r].pc = "failed"]
    /\ UNCHANGED <<draftVars, lockVars, made, history>>

-----------------------------------------------------------------------------
(* layout_stl and materialize_stl_3mf, after the binary *)

\* The binary's error goes to the client
ReportError(r) ==
    /\ Pc(r, "failed") /\ ~Op(r, "import")
    /\ GiveUp(r)

Replaced(files, scene) ==
    [files EXCEPT !.current = files.next, !.next = Absent, !.scene = scene]

\* The new model replaces the current one, its scene is written and shown
LayoutOk(r) ==
    LET t == job[r].tok IN
    /\ Pc(r, "written") /\ Op(r, "layout")
    /\ t \in DOMAIN dir /\ dir[t].next # Absent
    /\ dir' = [dir EXCEPT ![t] = Replaced(dir[t], job[r].ver)]
    /\ shown' = Assign(shown, t, job[r].ver)
    /\ Leave(r)
    /\ Release(r)
    /\ UNCHANGED <<known, expired, drawn, locks, made, exported, damaged, orphans>>

\* The model is replaced but the scene cannot be written
LayoutSceneFails(r) ==
    LET t == job[r].tok IN
    /\ Pc(r, "written") /\ Op(r, "layout")
    /\ t \in DOMAIN dir /\ dir[t].next # Absent
    /\ dir' = [dir EXCEPT ![t] = Replaced(dir[t], Absent)]
    /\ damaged' = damaged \cup {t}
    /\ Leave(r)
    /\ Release(r)
    /\ UNCHANGED <<known, expired, drawn, locks, made, shown, exported, orphans>>

\* A file was swept away, or cannot be read or replaced: an exception
FilesLost(r) ==
    /\ Pc(r, "written") /\ ~Op(r, "import")
    /\ GiveUp(r)

\* The bytes go into the token cache
Exports(r) ==
    LET t == job[r].tok IN
    /\ Pc(r, "written") /\ Op(r, "export")
    /\ t \in DOMAIN dir /\ dir[t].out # Absent
    /\ exported' = Assign(exported, t, dir[t].out)
    /\ Leave(r)
    /\ Release(r)
    /\ UNCHANGED <<expired, drawn, made, shown, orphans>>

ExportOk(r) ==
    /\ Exports(r)
    /\ Deleted(job[r].tok)
    /\ ForgetLock(job[r].tok)

\* MUTANT of ExportKept: the lock is forgotten although the draft is still there
ExportKeptForgets(r) ==
    /\ Exports(r)
    /\ DeleteFails(job[r].tok)
    /\ ForgetLock(job[r].tok)

\* The draft cannot be deleted: a warning, and the lock is kept
ExportKept(r) ==
    /\ Exports(r)
    /\ DeleteFails(job[r].tok)
    /\ UNCHANGED locks

-----------------------------------------------------------------------------
Begin(r) == Start(r) \/ Refuse(r) \/ GetRaises(r)

BinaryEnds(r) == BinaryDone(r) \/ BinaryFailed(r)

Resume(r) ==
    \/ ImportOk(r) \/ ImportFails(r)
    \/ ReportError(r) \/ FilesLost(r)
    \/ LayoutOk(r) \/ LayoutSceneFails(r)
    \/ ExportOk(r) \/ ExportKept(r)

Next ==
    \/ \E r \in Request :
          \/ \E t \in Token :
                \/ ImportBegin(r, t)
                \/ \E op \in {"layout", "export"} : Queue(r, t, op)
          \/ Begin(r)
          \/ BinaryEnds(r)
          \/ Resume(r)
    \/ \E t \in Token : ImportSourceFails(t) \/ AgeOut(t)
    \/ ImportSweepFails
    \/ Restart

Spec == Init /\ [][Next]_vars

\* The event loop wakes the holder of a lock and the handlers whose process has
\* ended; the timeout of BinaryClient.stl_draft ends every process.
FairSpec ==
    /\ Spec
    /\ \A r \in Request :
          WF_vars(Begin(r)) /\ WF_vars(BinaryEnds(r)) /\ WF_vars(Resume(r))

-----------------------------------------------------------------------------
(* Properties *)

\* Every variable has its type.
DraftTypeOK ==
    /\ known \subseteq drawn
    /\ expired \subseteq Token
    /\ drawn \subseteq Token
    /\ DOMAIN dir \subseteq drawn
    /\ \A t \in DOMAIN dir : dir[t] \in Files
    /\ DOMAIN locks \subseteq drawn
    /\ \A t \in DOMAIN locks : locks[t] \in Lock
    /\ queue \in [Lock -> Seq(Request)]
    /\ DOMAIN job \subseteq Request
    /\ \A r \in DOMAIN job :
          job[r] \in [op : {"import", "layout", "export"}, tok : drawn, ver : Version,
                      pc : {"queued", "running", "written", "failed"}]
    /\ made \in Version
    /\ DOMAIN shown \subseteq drawn
    /\ \A t \in DOMAIN shown : shown[t] \in Version

\* Two layouts or exports of one draft never work on its directory together,
\* although locks are forgotten and made anew while requests wait on them.
DraftMutualExclusion ==
    \A r, s \in DOMAIN job :
        Working(r) /\ Working(s) /\ job[r].tok = job[s].tok => r = s

\* Short of a failed file operation, the model that is kept, the scene beside
\* it and the scene the client was last shown are one and the same version,
\* whatever layouts fail, wait, time out or race the expiry.
ShownIsCurrent ==
    \A t \in (known \cap DOMAIN shown) \ damaged :
        /\ dir[t].current = shown[t]
        /\ dir[t].scene = shown[t]

\* What a draft is turned into is what its client was last shown.
ExportedIsShown ==
    \A t \in DOMAIN exported \ damaged : exported[t] = shown[t]

\* Every draft of the index has its directory, and every directory is a draft's
\* unless an earlier process or a failed clean-up left it: failed deletes and
\* failed sweeps lose neither.
DirectoriesMatch == known \subseteq DOMAIN dir /\ DOMAIN dir \subseteq known \cup orphans

\* Every request ends: a draft's lock is never kept by a request that is over.
EveryRequestEnds == \A r \in Request : (r \in DOMAIN job) ~> (r \notin DOMAIN job)

=============================================================================
