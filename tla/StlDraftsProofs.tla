--------------------------- MODULE StlDraftsProofs ---------------------------
(***************************************************************************)
(* Proofs about StlDrafts: types, the bookkeeping of directories, that two *)
(* layouts or exports of one draft never work together, and that what is   *)
(* kept and exported is what was shown.  Exclusion rests on LockInv:       *)
(* whoever works on a draft holds the lock that stl_draft_locks names for  *)
(* it, and no request that could still start waits on another one.  The    *)
(* versions rest on exclusion, by VersionInv: nobody replaces what a       *)
(* process has written before its own handler resumes.                     *)
(***************************************************************************)
EXTENDS StlDrafts, TLAPS

\* A request that works holds a lock.
WorkingHolds == \A r \in DOMAIN job : Working(r) => \E l \in Lock : Holds(r, l)

\* A request is in one queue, once.
OneQueue ==
    \A l, m \in Lock : \A i \in 1..Len(queue[l]), j \in 1..Len(queue[m]) :
        queue[l][i] = queue[m][j] => l = m /\ i = j

\* Whoever is queued is in flight, and no import.
QueuedInFlight ==
    \A l \in Lock : \A i \in 1..Len(queue[l]) :
        queue[l][i] \in DOMAIN job /\ job[queue[l][i]].op # "import"

Busy(t) == \E s \in DOMAIN job : Working(s) /\ job[s].tok = t

\* While a draft can still be worked on, all its requests queue on its lock.
LockOfDraft ==
    \A l \in Lock : \A i \in 1..Len(queue[l]), t \in Token :
        job[queue[l][i]].tok = t /\ (Alive(t) \/ Busy(t))
            => t \in DOMAIN locks /\ locks[t] = l

LockInv == WorkingHolds /\ OneQueue /\ QueuedInFlight /\ LockOfDraft

DraftInv == DraftTypeOK /\ DirectoriesMatch /\ LockInv

\* Any undamaged directory, an orphan's too, holds what its client was shown.
DirIsShown ==
    \A t \in (DOMAIN dir \cap DOMAIN shown) \ damaged :
        /\ dir[t].current = shown[t]
        /\ dir[t].scene = shown[t]

\* An import has its draft to itself until its client is told the token.
ImportsAlone ==
    \A r \in DOMAIN job :
        IF job[r].op = "import"
        THEN /\ job[r].tok \notin DOMAIN shown
             /\ \A s \in DOMAIN job : job[s].tok = job[r].tok => s = r
        ELSE job[r].tok \in DOMAIN shown

\* What a process has written is still there when its handler resumes.
WrittenIsInDir ==
    \A r \in DOMAIN job :
        job[r].pc = "written" /\ job[r].tok \in DOMAIN dir \ damaged =>
            /\ job[r].op = "import" => dir[job[r].tok].current = job[r].ver
            /\ job[r].op = "layout" => dir[job[r].tok].next = job[r].ver
            /\ job[r].op = "export" => dir[job[r].tok].out = dir[job[r].tok].current

\* An exported draft is gone for good, and nobody works on what is left of it.
ExportedIsGone ==
    \A t \in DOMAIN exported \ damaged :
        t \in DOMAIN shown /\ exported[t] = shown[t] /\ t \notin known /\ ~Busy(t)

VersionInv == DirIsShown /\ ImportsAlone /\ WrittenIsInDir /\ ExportedIsGone

-----------------------------------------------------------------------------
(* Types *)

JobType == [op : {"import", "layout", "export"}, tok : drawn, ver : Version,
            pc : {"queued", "running", "written", "failed"}]

\* An empty directory, and one with one file replaced, are typed.
LEMMA FilesType ==
    /\ NoFiles \in Files
    /\ \A f \in Files, v \in Version :
          /\ Replaced(f, v) \in Files
          /\ [f EXCEPT !.scene = v] \in Files
          /\ [f EXCEPT !.out = f.current] \in Files
          /\ [f EXCEPT !["current"] = v] \in Files
          /\ [f EXCEPT !["next"] = v] \in Files
    /\ Absent \in Version
<1>1. Absent \in Version /\ NoFiles \in Files
  BY DraftAssumption DEF Files, NoFiles, Version, Absent
<1>2. ASSUME NEW f \in Files, NEW v \in Version
      PROVE  /\ [f EXCEPT !.scene = v] \in Files
             /\ [f EXCEPT !.out = f.current] \in Files
             /\ [f EXCEPT !["current"] = v] \in Files
             /\ [f EXCEPT !["next"] = v] \in Files
  BY DEF Files
<1>3. ASSUME NEW f \in Files, NEW v \in Version
      PROVE  Replaced(f, v) \in Files
  BY <1>1 DEF Files, Replaced
<1> QED
  BY <1>1, <1>2, <1>3

\* Leaving keeps the job table typed.
LEMMA LeaveType ==
    ASSUME DraftTypeOK, NEW r \in Request, Leave(r), drawn \subseteq drawn'
    PROVE  /\ DOMAIN job' \subseteq Request
           /\ \A s \in DOMAIN job' :
                job'[s] \in [op : {"import", "layout", "export"}, tok : drawn',
                             ver : Version,
                             pc : {"queued", "running", "written", "failed"}]
  BY DEF DraftTypeOK, Leave, Except

\* Releasing keeps the queues typed.
LEMMA ReleaseType ==
    ASSUME DraftTypeOK, NEW r \in Request, Release(r)
    PROVE  queue' \in [Lock -> Seq(Request)]
<1> SUFFICES ASSUME NEW l \in Lock
             PROVE  (IF Holds(r, l) THEN Tail(queue[l]) ELSE queue[l]) \in Seq(Request)
  BY DEF Release
<1>1. queue[l] \in Seq(Request)
  BY DEF DraftTypeOK
<1>2. CASE Holds(r, l)
  BY <1>1, <1>2 DEF Holds
<1>3. CASE ~Holds(r, l)
  BY <1>1, <1>3
<1> QED
  BY <1>2, <1>3

\* Every step keeps the types.
LEMMA StepTypeOK == DraftTypeOK /\ [Next]_vars => DraftTypeOK'
<1> SUFFICES ASSUME DraftTypeOK, [Next]_vars
             PROVE  DraftTypeOK'
  OBVIOUS
<1> USE DraftAssumption
<1>0. /\ \A u \in DOMAIN dir : dir[u] \in Files
      /\ \A u \in DOMAIN job : job[u].tok \in drawn /\ job[u].ver \in Version
  BY DEF DraftTypeOK
<1>1. ASSUME NEW r \in Request, NEW t \in Token, ImportBegin(r, t)
      PROVE  DraftTypeOK'
  <2>1. DOMAIN job' \subseteq Request
    BY <1>1 DEF DraftTypeOK, ImportBegin, Enter, Assign
  <2>2. \A s \in DOMAIN job' :
          job'[s] \in [op : {"import", "layout", "export"}, tok : drawn',
                       ver : Version,
                       pc : {"queued", "running", "written", "failed"}]
    BY <1>1 DEF DraftTypeOK, ImportBegin, Enter, Assign, Version, Absent
  <2>3. DOMAIN dir' \subseteq drawn' /\ \A u \in DOMAIN dir' : dir'[u] \in Files
    BY <1>1 DEF DraftTypeOK, ImportBegin, Assign, Except, Files, NoFiles, Absent, Version
  <2> QED
    BY <1>1, <2>1, <2>2, <2>3 DEF DraftTypeOK, ImportBegin, lockVars
<1>2. ASSUME NEW r \in Request, NEW t \in Token, NEW op \in {"layout", "export"},
             Queue(r, t, op)
      PROVE  DraftTypeOK'
  <2>1. t \in drawn /\ drawn' = drawn
    BY <1>2 DEF DraftTypeOK, Queue, draftVars
  <2>2. PICK l \in LockFor(t) :
          /\ locks' = Assign(locks, t, l)
          /\ queue' = [queue EXCEPT ![l] = Append(@, r)]
    BY <1>2 DEF Queue
  <2>3. l \in Lock
    BY <2>2 DEF DraftTypeOK, LockFor
  <2>4. queue' \in [Lock -> Seq(Request)]
    BY <2>2, <2>3 DEF DraftTypeOK
  <2>5. /\ DOMAIN locks' \subseteq drawn'
        /\ \A u \in DOMAIN locks' : locks'[u] \in Lock
    BY <2>1, <2>2, <2>3 DEF DraftTypeOK, Assign
  <2>6. /\ DOMAIN job' \subseteq Request
        /\ \A s \in DOMAIN job' :
             job'[s] \in [op : {"import", "layout", "export"}, tok : drawn',
                          ver : Version,
                          pc : {"queued", "running", "written", "failed"}]
    BY <1>2, <2>1 DEF DraftTypeOK, Queue, Enter, Assign, Version, Absent
  <2> QED
    BY <1>2, <2>4, <2>5, <2>6 DEF DraftTypeOK, Queue, draftVars, history
<1>3. ASSUME NEW r \in Request, Start(r)
      PROVE  DraftTypeOK'
  BY <1>3 DEF DraftTypeOK, Start, Pc, InFlight, draftVars, lockVars, history
<1>4. ASSUME NEW r \in Request, Refuse(r)
      PROVE  DraftTypeOK'
  <2>1. queue' \in [Lock -> Seq(Request)]
    BY <1>4, ReleaseType DEF Refuse
  <2>2. /\ DOMAIN job' \subseteq Request
        /\ \A s \in DOMAIN job' :
             job'[s] \in [op : {"import", "layout", "export"}, tok : drawn',
                          ver : Version,
                          pc : {"queued", "running", "written", "failed"}]
    BY <1>4, LeaveType DEF Refuse
  <2>3. known' \subseteq known /\ DOMAIN dir' \subseteq DOMAIN dir
    BY <1>4 DEF Refuse, Deleted, DeleteFails, Except
  <2>4. \A u \in DOMAIN dir' : dir'[u] \in Files
    BY <1>0, <1>4, FilesType DEF Refuse, Deleted, DeleteFails, Except
  <2>5. DOMAIN locks' \subseteq drawn /\ \A u \in DOMAIN locks' : locks'[u] \in Lock
    BY <1>4 DEF Refuse, ForgetLock, Except, DraftTypeOK
  <2> QED
    BY <1>4, <2>1, <2>2, <2>3, <2>4, <2>5 DEF DraftTypeOK, Refuse
<1>5. ASSUME NEW r \in Request, GiveUp(r)
      PROVE  DraftTypeOK'
  <2>1. queue' \in [Lock -> Seq(Request)]
    BY <1>5, ReleaseType DEF GiveUp
  <2>2. /\ DOMAIN job' \subseteq Request
        /\ \A s \in DOMAIN job' :
             job'[s] \in [op : {"import", "layout", "export"}, tok : drawn',
                          ver : Version,
                          pc : {"queued", "running", "written", "failed"}]
    BY <1>5, LeaveType DEF GiveUp, draftVars
  <2> QED
    BY <1>5, <2>1, <2>2 DEF DraftTypeOK, GiveUp, draftVars, history
<1>6. ASSUME NEW r \in Request, BinaryDone(r)
      PROVE  DraftTypeOK'
  <2>1. \A u \in DOMAIN dir' : dir'[u] \in Files
    <3>1. CASE MakeVersion(r, "current")
      <4>1. made + 1 \in Version
        BY <3>1 DEF MakeVersion, DraftTypeOK, Version
      <4> QED
        BY <1>0, <1>6, <3>1, <4>1, FilesType DEF BinaryDone, MakeVersion
    <3>2. CASE MakeVersion(r, "next")
      <4>1. made + 1 \in Version
        BY <3>2 DEF MakeVersion, DraftTypeOK, Version
      <4> QED
        BY <1>0, <1>6, <3>2, <4>1, FilesType DEF BinaryDone, MakeVersion
    <3>3. CASE CopyVersion(r)
      BY <1>0, <1>6, <3>3, FilesType DEF BinaryDone, CopyVersion, Files
    <3> QED
      BY <1>6, <3>1, <3>2, <3>3 DEF BinaryDone
  <2>2. DOMAIN dir' = DOMAIN dir /\ made' \in Version
    BY <1>6 DEF BinaryDone, MakeVersion, CopyVersion, DraftTypeOK, Version
  <2>3. /\ DOMAIN job' = DOMAIN job
        /\ \A s \in DOMAIN job' :
             job'[s] \in [op : {"import", "layout", "export"}, tok : drawn,
                          ver : Version,
                          pc : {"queued", "running", "written", "failed"}]
    <3>1. \A s \in DOMAIN job : job[s] \in JobType
      BY DEF DraftTypeOK, JobType
    <3>2. \A j \in JobType : \A v \in Version :
            [j EXCEPT !.pc = "written", !.ver = v] \in JobType
      BY DEF JobType
    <3>3. ASSUME NEW name, MakeVersion(r, name)
          PROVE  DOMAIN job' = DOMAIN job /\ \A s \in DOMAIN job' : job'[s] \in JobType
      <4>1. made + 1 \in Version
        BY <3>3 DEF MakeVersion, DraftTypeOK, Version
      <4> QED
        BY <3>1, <3>2, <3>3, <4>1 DEF MakeVersion
    <3>4. ASSUME CopyVersion(r)
          PROVE  DOMAIN job' = DOMAIN job /\ \A s \in DOMAIN job' : job'[s] \in JobType
      <4>1. job' = [job EXCEPT ![r] = [job[r] EXCEPT !.pc = "written"]]
        BY <3>4 DEF CopyVersion
      <4>2. \A j \in JobType : [j EXCEPT !.pc = "written"] \in JobType
        BY DEF JobType
      <4>3. DOMAIN job' = DOMAIN job
        BY <4>1
      <4>4. ASSUME NEW s \in DOMAIN job
            PROVE  job'[s] \in JobType
        <5>1. CASE s = r
          BY <3>1, <4>1, <4>2, <5>1
        <5>2. CASE s # r
          BY <3>1, <4>1, <5>2
        <5> QED
          BY <5>1, <5>2
      <4> QED
        BY <4>3, <4>4
    <3> QED
      BY <1>6, <3>3, <3>4 DEF BinaryDone, JobType
  <2> QED
    BY <1>6, <2>1, <2>2, <2>3 DEF DraftTypeOK, BinaryDone, lockVars, history
<1>7. ASSUME NEW r \in Request, BinaryFailed(r)
      PROVE  DraftTypeOK'
  BY <1>7 DEF DraftTypeOK, BinaryFailed, Pc, InFlight, draftVars, lockVars, history
<1>8. ASSUME NEW r \in Request, ImportOk(r)
      PROVE  DraftTypeOK'
  <2>1. r \in DOMAIN job /\ job[r].tok \in drawn /\ job[r].ver \in Version
    BY <1>8 DEF ImportOk, Pc, InFlight, DraftTypeOK
  <2>2. \A u \in DOMAIN dir' : dir'[u] \in Files
    BY <1>0, <1>8, <2>1, FilesType DEF ImportOk
  <2>3. DOMAIN shown' \subseteq drawn /\ \A u \in DOMAIN shown' : shown'[u] \in Version
    BY <1>8, <2>1 DEF ImportOk, DraftTypeOK, Assign
  <2> QED
    BY <1>8, <2>2, <2>3, LeaveType DEF DraftTypeOK, ImportOk, lockVars
<1>9. ASSUME NEW r \in Request, ImportFails(r)
      PROVE  DraftTypeOK'
  <2>1. known' \subseteq known /\ DOMAIN dir' \subseteq DOMAIN dir
    BY <1>9 DEF ImportFails, Deleted, DeleteFails, Except
  <2>2. \A u \in DOMAIN dir' : dir'[u] \in Files
    BY <1>0, <1>9, FilesType DEF ImportFails, Deleted, DeleteFails, Except
  <2> QED
    BY <1>9, <2>1, <2>2, LeaveType DEF DraftTypeOK, ImportFails, lockVars
<1>10. ASSUME NEW r \in Request, LayoutOk(r)
       PROVE  DraftTypeOK'
  <2>1. r \in DOMAIN job /\ job[r].tok \in drawn /\ job[r].ver \in Version
    BY <1>10 DEF LayoutOk, Pc, InFlight, DraftTypeOK
  <2>2. \A u \in DOMAIN dir' : dir'[u] \in Files
    BY <1>0, <1>10, <2>1, FilesType DEF LayoutOk
  <2>3. DOMAIN shown' \subseteq drawn /\ \A u \in DOMAIN shown' : shown'[u] \in Version
    BY <1>10, <2>1 DEF LayoutOk, DraftTypeOK, Assign
  <2> QED
    BY <1>10, <2>2, <2>3, LeaveType, ReleaseType DEF DraftTypeOK, LayoutOk
<1>11. ASSUME NEW r \in Request, LayoutSceneFails(r)
       PROVE  DraftTypeOK'
  <2>1. \A u \in DOMAIN dir' : dir'[u] \in Files
    BY <1>0, <1>11, FilesType DEF LayoutSceneFails
  <2> QED
    BY <1>11, <2>1, LeaveType, ReleaseType DEF DraftTypeOK, LayoutSceneFails
<1>12. ASSUME NEW r \in Request, ExportOk(r)
       PROVE  DraftTypeOK'
  <2>1. known' \subseteq known /\ DOMAIN dir' \subseteq DOMAIN dir
    BY <1>12 DEF ExportOk, Deleted, Except
  <2>2. \A u \in DOMAIN dir' : dir'[u] \in Files
    BY <1>12 DEF ExportOk, Deleted, Except, DraftTypeOK
  <2>3. DOMAIN locks' \subseteq drawn /\ \A u \in DOMAIN locks' : locks'[u] \in Lock
    BY <1>12 DEF ExportOk, ForgetLock, Except, DraftTypeOK
  <2> QED
    BY <1>12, <2>1, <2>2, <2>3, LeaveType, ReleaseType DEF DraftTypeOK, ExportOk, Exports
<1>13. ASSUME NEW r \in Request, ExportKept(r)
       PROVE  DraftTypeOK'
  <2>1. known' \subseteq known /\ DOMAIN dir' \subseteq DOMAIN dir
    BY <1>13 DEF ExportKept, DeleteFails
  <2>2. \A u \in DOMAIN dir' : dir'[u] \in Files
    BY <1>0, <1>13, FilesType DEF ExportKept, DeleteFails
  <2> QED
    BY <1>13, <2>1, <2>2, LeaveType, ReleaseType DEF DraftTypeOK, ExportKept, Exports
<1>14. ASSUME NEW t \in Token, ImportSourceFails(t)
       PROVE  DraftTypeOK'
  <2>1. \A u \in DOMAIN dir' : dir'[u] \in Files
    <3>1. CASE dir' = Except(dir, expired)
      BY <1>0, <3>1 DEF Except
    <3>2. CASE dir' = Assign(Except(dir, expired), t, NoFiles)
      <4>1. NoFiles \in Files
        BY FilesType
      <4> QED BY <1>0, <3>2, <4>1 DEF Assign, Except
    <3> QED BY <1>14, <3>1, <3>2 DEF ImportSourceFails
  <2>2. DOMAIN dir' \subseteq drawn'
    BY <1>14 DEF DraftTypeOK, ImportSourceFails, Assign, Except
  <2>3. \A s \in DOMAIN job : job[s] \in
          [op : {"import", "layout", "export"}, tok : drawn', ver : Version,
           pc : {"queued", "running", "written", "failed"}]
    BY <1>14 DEF DraftTypeOK, ImportSourceFails
  <2> QED
    BY <1>14, <2>1, <2>2, <2>3 DEF DraftTypeOK, ImportSourceFails, lockVars
<1>15. ASSUME NEW t \in Token, AgeOut(t)
       PROVE  DraftTypeOK'
  BY <1>15 DEF DraftTypeOK, AgeOut, lockVars, history
<1>16. ASSUME ImportSweepFails
       PROVE  DraftTypeOK'
  <2>1. /\ \A u \in DOMAIN dir' : dir'[u] \in Files
        /\ DOMAIN dir' \subseteq DOMAIN dir
    BY <1>0, <1>16, FilesType DEF ImportSweepFails, Except
  <2> QED
    BY <1>16, <2>1 DEF DraftTypeOK, ImportSweepFails, lockVars
<1>17. ASSUME Restart
       PROVE  DraftTypeOK'
  BY <1>17 DEF DraftTypeOK, Restart, Except
<1>18. CASE UNCHANGED vars
  BY <1>18 DEF DraftTypeOK, vars, draftVars, lockVars, history
<1> QED
  BY <1>1, <1>2, <1>3, <1>4, <1>5, <1>6, <1>7, <1>8, <1>9, <1>10, <1>11, <1>12, <1>13,
     <1>14, <1>15, <1>16, <1>17, <1>18
     DEF Next, Begin, GetRaises, BinaryEnds, Resume, ReportError, FilesLost

-----------------------------------------------------------------------------
(* Directories *)

\* A delete that succeeds and one that fails keep index and directories alike.
LEMMA DeleteDirectories ==
    ASSUME DirectoriesMatch, NEW t, Deleted(t) \/ DeleteFails(t), orphans' = orphans
    PROVE  DirectoriesMatch'
<1>1. CASE Deleted(t) /\ t \in known
  BY <1>1 DEF DirectoriesMatch, Deleted, Except
<1>2. CASE Deleted(t) /\ t \notin known
  BY <1>2 DEF DirectoriesMatch, Deleted
<1>3. CASE DeleteFails(t)
  <2>1. DOMAIN dir' = DOMAIN dir /\ known' = known
    BY <1>3 DEF DeleteFails
  <2> QED
    BY <2>1 DEF DirectoriesMatch
<1> QED
  BY <1>1, <1>2, <1>3

\* Every step keeps index and directories alike.
LEMMA StepDirectories == DirectoriesMatch /\ [Next]_vars => DirectoriesMatch'
<1> SUFFICES ASSUME DirectoriesMatch, [Next]_vars
             PROVE  DirectoriesMatch'
  OBVIOUS
<1>1. ASSUME known' = known, orphans' = orphans, DOMAIN dir' = DOMAIN dir
      PROVE  DirectoriesMatch'
  BY <1>1 DEF DirectoriesMatch
<1>2. ASSUME NEW r \in Request, NEW t \in Token, ImportBegin(r, t)
      PROVE  DirectoriesMatch'
  BY <1>2 DEF DirectoriesMatch, ImportBegin, Assign, Except
<1>3. ASSUME NEW r \in Request, NEW t \in Token, NEW op, Queue(r, t, op)
      PROVE  DirectoriesMatch'
  BY <1>1, <1>3 DEF Queue, draftVars, history
<1>4. ASSUME NEW r \in Request, Start(r)
      PROVE  DirectoriesMatch'
  BY <1>1, <1>4 DEF Start, draftVars, history
<1>5. ASSUME NEW r \in Request, Refuse(r)
      PROVE  DirectoriesMatch'
  BY <1>5, DeleteDirectories DEF Refuse
<1>6. ASSUME NEW r \in Request, GiveUp(r)
      PROVE  DirectoriesMatch'
  BY <1>1, <1>6 DEF GiveUp, draftVars, history
<1>7. ASSUME NEW r \in Request, BinaryDone(r)
      PROVE  DirectoriesMatch'
  BY <1>1, <1>7 DEF BinaryDone, MakeVersion, CopyVersion, history
<1>8. ASSUME NEW r \in Request, BinaryFailed(r)
      PROVE  DirectoriesMatch'
  BY <1>1, <1>8 DEF BinaryFailed, draftVars, history
<1>9. ASSUME NEW r \in Request, ImportOk(r)
      PROVE  DirectoriesMatch'
  BY <1>1, <1>9 DEF ImportOk
<1>10. ASSUME NEW r \in Request, ImportFails(r)
       PROVE  DirectoriesMatch'
  BY <1>10, DeleteDirectories DEF ImportFails
<1>11. ASSUME NEW r \in Request, LayoutOk(r) \/ LayoutSceneFails(r)
       PROVE  DirectoriesMatch'
  BY <1>1, <1>11 DEF LayoutOk, LayoutSceneFails
<1>12. ASSUME NEW r \in Request, ExportOk(r) \/ ExportKept(r)
       PROVE  DirectoriesMatch'
  BY <1>12, DeleteDirectories DEF ExportOk, ExportKept, Exports
<1>13. ASSUME NEW t \in Token, ImportSourceFails(t)
       PROVE  DirectoriesMatch'
  BY <1>13 DEF DirectoriesMatch, ImportSourceFails, Assign, Except
<1>14. ASSUME NEW t \in Token, AgeOut(t)
       PROVE  DirectoriesMatch'
  BY <1>1, <1>14 DEF AgeOut, history
<1>15. ASSUME ImportSweepFails
       PROVE  DirectoriesMatch'
  BY <1>15 DEF DirectoriesMatch, ImportSweepFails, Except
<1>16. ASSUME Restart
       PROVE  DirectoriesMatch'
  BY <1>16 DEF DirectoriesMatch, Restart, Except
<1>17. CASE UNCHANGED vars
  BY <1>1, <1>17 DEF vars, draftVars, history
<1> QED
  BY <1>2, <1>3, <1>4, <1>5, <1>6, <1>7, <1>8, <1>9, <1>10, <1>11, <1>12, <1>13,
     <1>14, <1>15, <1>16, <1>17
     DEF Next, Begin, GetRaises, BinaryEnds, Resume, ReportError, FilesLost

-----------------------------------------------------------------------------
(* Locks *)

\* The lock invariant excludes two workers on one draft.
LEMMA LocksExclude == DraftTypeOK /\ LockInv => DraftMutualExclusion
<1> SUFFICES ASSUME DraftTypeOK, LockInv,
                    NEW r \in DOMAIN job, NEW s \in DOMAIN job,
                    Working(r), Working(s), job[r].tok = job[s].tok
             PROVE  r = s
  BY DEF DraftMutualExclusion
<1>1. PICK l \in Lock : Holds(r, l)
  BY DEF LockInv, WorkingHolds
<1>2. PICK m \in Lock : Holds(s, m)
  BY DEF LockInv, WorkingHolds
<1>3. queue[l] \in Seq(Request) /\ queue[m] \in Seq(Request)
  BY DEF DraftTypeOK
<1>4. 1 \in 1..Len(queue[l]) /\ queue[l][1] = r
  BY <1>1, <1>3 DEF Holds
<1>5. 1 \in 1..Len(queue[m]) /\ queue[m][1] = s
  BY <1>2, <1>3 DEF Holds
<1>6. Busy(job[r].tok) /\ job[r].tok \in Token
  BY DEF Busy, DraftTypeOK
<1>7. locks[job[r].tok] = l
  BY <1>4, <1>6 DEF LockInv, LockOfDraft
<1>8. locks[job[r].tok] = m
  BY <1>5, <1>6 DEF LockInv, LockOfDraft
<1> QED
  BY <1>4, <1>5, <1>7, <1>8

\* Steps that leave locks and queues alone: what is queued keeps its draft, no
\* draft revives, and who starts working holds its lock.
LEMMA SameQueues ==
    ASSUME DraftTypeOK, LockInv, locks' = locks, queue' = queue,
           \A s \in DOMAIN job : job[s].op # "import" =>
              s \in DOMAIN job' /\ job'[s].op = job[s].op /\ job'[s].tok = job[s].tok,
           \A s \in DOMAIN job' : Working(s)' =>
              /\ s \in DOMAIN job /\ job[s].op # "import"
              /\ Working(s) \/ (Alive(job[s].tok) /\ \E l \in Lock : Holds(s, l)),
           \A u \in drawn : Alive(u)' => Alive(u)
    PROVE  LockInv'
<1>1. WorkingHolds'
  BY DEF WorkingHolds, LockInv, Holds
<1>2. OneQueue'
  BY DEF OneQueue, LockInv
<1>3. QueuedInFlight'
  BY DEF QueuedInFlight, LockInv
<1>4. LockOfDraft'
  <2> SUFFICES ASSUME NEW l \in Lock, NEW i \in 1..Len(queue[l]), NEW t \in Token,
                      job'[queue[l][i]].tok = t, Alive(t)' \/ Busy(t)'
               PROVE  t \in DOMAIN locks /\ locks[t] = l
    BY DEF LockOfDraft
  <2> DEFINE r == queue[l][i]
  <2>1. r \in DOMAIN job /\ job[r].op # "import"
    BY DEF LockInv, QueuedInFlight
  <2>2. job[r].tok = t /\ t \in drawn
    BY <2>1 DEF DraftTypeOK
  <2>3. Alive(t) \/ Busy(t)
    <3>1. CASE Alive(t)'
      BY <2>2, <3>1
    <3>2. CASE Busy(t)'
      <4>1. PICK s \in DOMAIN job' : Working(s)' /\ job'[s].tok = t
        BY <3>2 DEF Busy
      <4>2. s \in DOMAIN job /\ job[s].tok = t
        BY <4>1
      <4>3. Working(s) \/ Alive(t)
        BY <4>1, <4>2
      <4> QED
        BY <4>2, <4>3 DEF Busy
    <3> QED
      BY <3>1, <3>2
  <2> QED
    BY <2>2, <2>3 DEF LockInv, LockOfDraft
<1> QED
  BY <1>1, <1>2, <1>3, <1>4 DEF LockInv

\* After a release every queue position holds what it, or the next one, held,
\* and the request that released is gone from all of them.
LEMMA ReleasePositions ==
    ASSUME DraftTypeOK, OneQueue,
           NEW r \in Request, NEW l \in Lock, Holds(r, l), Release(r)
    PROVE  \A m \in Lock : \A j \in 1..Len(queue'[m]) :
              LET i == IF m = l THEN j + 1 ELSE j IN
              /\ i \in 1..Len(queue[m])
              /\ queue'[m][j] = queue[m][i]
              /\ queue[m][i] # r
<1> SUFFICES ASSUME NEW m \in Lock, NEW j \in 1..Len(queue'[m])
             PROVE  LET i == IF m = l THEN j + 1 ELSE j IN
                    /\ i \in 1..Len(queue[m])
                    /\ queue'[m][j] = queue[m][i]
                    /\ queue[m][i] # r
  OBVIOUS
<1>1. queue[m] \in Seq(Request) /\ queue[l] \in Seq(Request)
  BY DEF DraftTypeOK
<1>2. 1 \in 1..Len(queue[l]) /\ queue[l][1] = r
  BY <1>1 DEF Holds
<1>3. CASE m = l
  <2>1. queue'[m] = Tail(queue[m])
    BY <1>3 DEF Release
  <2>2. j + 1 \in 1..Len(queue[m]) /\ queue'[m][j] = queue[m][j + 1]
    BY <1>1, <1>2, <1>3, <2>1
  <2>3. queue[m][j + 1] # r
    BY <1>2, <1>3, <2>2 DEF OneQueue
  <2> QED
    BY <1>3, <2>2, <2>3
<1>4. CASE m # l
  <2>1. ~Holds(r, m)
    <3>1. SUFFICES ASSUME Holds(r, m)
                   PROVE  FALSE
      OBVIOUS
    <3>2. 1 \in 1..Len(queue[m]) /\ queue[m][1] = r
      BY <1>1, <3>1 DEF Holds
    <3> QED
      BY <1>2, <1>4, <3>2 DEF OneQueue
  <2>2. queue'[m] = queue[m]
    BY <2>1 DEF Release
  <2>3. queue[m][j] # r
    BY <1>2, <1>4, <2>2 DEF OneQueue
  <2> QED
    BY <1>4, <2>2, <2>3
<1> QED
  BY <1>3, <1>4

\* The holder of a lock leaves and releases it; it may forget the lock of its
\* draft if the draft cannot be worked on any more and nobody else works on it.
LEMMA LeaveKeepsLocks ==
    ASSUME DraftTypeOK, LockInv,
           NEW r \in Request, NEW l \in Lock, InFlight(r), Holds(r, l),
           Leave(r), Release(r),
           \/ locks' = locks
           \/ /\ ForgetLock(job[r].tok)
              /\ job[r].tok \notin known' \ expired'
              /\ \A s \in DOMAIN job : Working(s) /\ job[s].tok = job[r].tok => s = r,
           \A u \in drawn : Alive(u)' => Alive(u)
    PROVE  LockInv'
<1> DEFINE d == job[r].tok
<1>1. \A m \in Lock : \A j \in 1..Len(queue'[m]) :
         LET i == IF m = l THEN j + 1 ELSE j IN
         /\ i \in 1..Len(queue[m])
         /\ queue'[m][j] = queue[m][i]
         /\ queue[m][i] # r
  BY ReleasePositions DEF LockInv
<1>2. /\ DOMAIN job' = DOMAIN job \ {r}
      /\ \A s \in DOMAIN job' : job'[s] = job[s]
  BY DEF Leave, Except
<1>3. \A s \in DOMAIN job' : Working(s)' => s # r /\ s \in DOMAIN job /\ Working(s)
  BY <1>2 DEF Working, InFlight
<1>4. WorkingHolds'
  <2> SUFFICES ASSUME NEW s \in DOMAIN job', Working(s)'
               PROVE  \E m \in Lock : Holds(s, m)'
    BY DEF WorkingHolds
  <2>1. s # r /\ s \in DOMAIN job /\ Working(s)
    BY <1>3
  <2>2. PICK m \in Lock : Holds(s, m)
    BY <2>1 DEF LockInv, WorkingHolds
  <2>3. queue'[m] = queue[m]
    BY <2>1, <2>2 DEF Release, Holds
  <2> QED
    BY <2>2, <2>3 DEF Holds
<1>5. OneQueue'
  <2> SUFFICES ASSUME NEW m \in Lock, NEW n \in Lock,
                      NEW i \in 1..Len(queue'[m]), NEW j \in 1..Len(queue'[n]),
                      queue'[m][i] = queue'[n][j]
               PROVE  m = n /\ i = j
    BY DEF OneQueue
  <2> DEFINE x == IF m = l THEN i + 1 ELSE i
             y == IF n = l THEN j + 1 ELSE j
  <2>1. x \in 1..Len(queue[m]) /\ queue'[m][i] = queue[m][x]
    BY <1>1
  <2>2. y \in 1..Len(queue[n]) /\ queue'[n][j] = queue[n][y]
    BY <1>1
  <2>3. ASSUME NEW a \in 1..Len(queue[m]), NEW b \in 1..Len(queue[n]),
               queue[m][a] = queue[n][b]
        PROVE  m = n /\ a = b
    BY <2>3 DEF LockInv, OneQueue
  <2>4. m = n /\ x = y
    <3> HIDE DEF x, y
    <3> QED
      BY <2>1, <2>2, <2>3
  <2> QED
    BY <2>4
<1>6. QueuedInFlight'
  <2> SUFFICES ASSUME NEW m \in Lock, NEW j \in 1..Len(queue'[m])
               PROVE  queue'[m][j] \in DOMAIN job' /\ job'[queue'[m][j]].op # "import"
    BY DEF QueuedInFlight
  <2> DEFINE i == IF m = l THEN j + 1 ELSE j
  <2>1. i \in 1..Len(queue[m]) /\ queue'[m][j] = queue[m][i] /\ queue[m][i] # r
    BY <1>1
  <2>2. queue[m][i] \in DOMAIN job /\ job[queue[m][i]].op # "import"
    BY <2>1 DEF LockInv, QueuedInFlight
  <2> QED
    BY <1>2, <2>1, <2>2
<1>7. LockOfDraft'
  <2> SUFFICES ASSUME NEW m \in Lock, NEW j \in 1..Len(queue'[m]), NEW t \in Token,
                      job'[queue'[m][j]].tok = t, Alive(t)' \/ Busy(t)'
               PROVE  t \in DOMAIN locks' /\ locks'[t] = m
    BY DEF LockOfDraft
  <2> DEFINE i == IF m = l THEN j + 1 ELSE j
  <2>1. i \in 1..Len(queue[m]) /\ queue'[m][j] = queue[m][i] /\ queue[m][i] # r
    BY <1>1
  <2>2. queue[m][i] \in DOMAIN job
    BY <2>1 DEF LockInv, QueuedInFlight
  <2>3. job[queue[m][i]].tok = t /\ t \in drawn
    BY <1>2, <2>1, <2>2 DEF DraftTypeOK
  <2>4. ASSUME Busy(t)'
        PROVE  \E s \in DOMAIN job : s # r /\ Working(s) /\ job[s].tok = t
    <3>1. PICK s \in DOMAIN job' : Working(s)' /\ job'[s].tok = t
      BY <2>4 DEF Busy
    <3> QED
      BY <1>2, <1>3, <3>1
  <2>5. Alive(t) \/ Busy(t)
    <3>1. CASE Alive(t)'
      BY <2>3, <3>1
    <3>2. CASE Busy(t)'
      BY <2>4, <3>2 DEF Busy
    <3> QED
      BY <3>1, <3>2
  <2>6. t \in DOMAIN locks /\ locks[t] = m
    BY <2>1, <2>3, <2>5 DEF LockInv, LockOfDraft
  <2>7. CASE locks' = locks
    BY <2>6, <2>7
  <2>8. CASE /\ ForgetLock(d)
             /\ d \notin known' \ expired'
             /\ \A s \in DOMAIN job : Working(s) /\ job[s].tok = d => s = r
    <3>1. t # d
      BY <2>4, <2>8 DEF Alive
    <3> QED
      BY <2>6, <2>8, <3>1 DEF ForgetLock, Except
  <2> QED
    BY <2>7, <2>8
<1> QED
  BY <1>4, <1>5, <1>6, <1>7 DEF LockInv

\* A request queues on the lock of its draft.
LEMMA QueueKeepsLocks ==
    ASSUME DraftTypeOK, LockInv, NEW r \in Request, NEW t \in Token,
           NEW op \in {"layout", "export"}, Queue(r, t, op)
    PROVE  LockInv'
<1>1. PICK l \in LockFor(t) :
        /\ locks' = Assign(locks, t, l)
        /\ queue' = [queue EXCEPT ![l] = Append(@, r)]
  BY DEF Queue
<1>2. l \in Lock /\ (t \in DOMAIN locks => l = locks[t])
  BY <1>1 DEF DraftTypeOK, LockFor
<1>3. /\ r \notin DOMAIN job
      /\ DOMAIN job' = DOMAIN job \cup {r}
      /\ \A s \in DOMAIN job : job'[s] = job[s]
      /\ job'[r] = [op |-> op, pc |-> "queued", tok |-> t, ver |-> Absent]
  BY DEF Queue, Enter, Assign, InFlight
<1>4. \A s \in DOMAIN job' : Working(s)' => s \in DOMAIN job /\ Working(s)
  BY <1>3 DEF Working, InFlight
<1>5. \A m \in Lock : queue[m] \in Seq(Request)
  BY DEF DraftTypeOK
<1>6. ASSUME NEW m \in Lock, NEW i \in 1..Len(queue'[m])
      PROVE  \/ m = l /\ i = Len(queue[l]) + 1 /\ queue'[m][i] = r
             \/ /\ i \in 1..Len(queue[m])
                /\ queue'[m][i] = queue[m][i]
                /\ queue[m][i] # r
                /\ queue[m][i] \in DOMAIN job
                /\ job[queue[m][i]].op # "import"
  <2>1. queue[m] \in Seq(Request) /\ queue[l] \in Seq(Request)
    BY <1>2, <1>5
  <2>2. CASE m = l
    <3>1. queue'[m] = Append(queue[m], r)
      BY <1>1, <1>2, <2>2 DEF DraftTypeOK
    <3>2. CASE i = Len(queue[m]) + 1
      BY <2>1, <2>2, <3>1, <3>2
    <3>3. CASE i # Len(queue[m]) + 1
      <4>1. i \in 1..Len(queue[m]) /\ queue'[m][i] = queue[m][i]
        BY <2>1, <3>1, <3>3
      <4> QED
        BY <1>3, <4>1 DEF LockInv, QueuedInFlight
    <3> QED
      BY <3>2, <3>3
  <2>3. CASE m # l
    <3>1. queue'[m] = queue[m]
      BY <1>1, <2>3 DEF DraftTypeOK
    <3> QED
      BY <1>3, <3>1 DEF LockInv, QueuedInFlight
  <2> QED
    BY <2>2, <2>3
<1>7. WorkingHolds'
  <2> SUFFICES ASSUME NEW s \in DOMAIN job', Working(s)'
               PROVE  \E m \in Lock : Holds(s, m)'
    BY DEF WorkingHolds
  <2>1. PICK m \in Lock : Holds(s, m)
    BY <1>4 DEF LockInv, WorkingHolds
  <2>2. Len(queue'[m]) > 0 /\ Head(queue'[m]) = Head(queue[m])
    <3>1. queue[m] \in Seq(Request) /\ Len(queue[m]) > 0
      BY <1>5, <2>1 DEF Holds
    <3>2. CASE m = l
      <4>1. queue'[m] = Append(queue[m], r)
        BY <1>1, <1>2, <3>2 DEF DraftTypeOK
      <4> QED
        BY <3>1, <4>1
    <3>3. CASE m # l
      BY <1>1, <3>1, <3>3 DEF DraftTypeOK
    <3> QED
      BY <3>2, <3>3
  <2> QED
    BY <2>1, <2>2 DEF Holds
<1>8. OneQueue'
  <2> SUFFICES ASSUME NEW m \in Lock, NEW n \in Lock,
                      NEW i \in 1..Len(queue'[m]), NEW j \in 1..Len(queue'[n]),
                      queue'[m][i] = queue'[n][j]
               PROVE  m = n /\ i = j
    BY DEF OneQueue
  <2> QED
    BY <1>6 DEF LockInv, OneQueue
<1>9. QueuedInFlight'
  <2> SUFFICES ASSUME NEW m \in Lock, NEW i \in 1..Len(queue'[m])
               PROVE  queue'[m][i] \in DOMAIN job' /\ job'[queue'[m][i]].op # "import"
    BY DEF QueuedInFlight
  <2> QED
    BY <1>3, <1>6
<1>10. LockOfDraft'
  <2> SUFFICES ASSUME NEW m \in Lock, NEW i \in 1..Len(queue'[m]), NEW u \in Token,
                      job'[queue'[m][i]].tok = u, Alive(u)' \/ Busy(u)'
               PROVE  u \in DOMAIN locks' /\ locks'[u] = m
    BY DEF LockOfDraft
  <2>1. CASE m = l /\ queue'[m][i] = r
    BY <1>1, <1>3, <2>1 DEF Assign
  <2>2. CASE /\ i \in 1..Len(queue[m])
             /\ queue'[m][i] = queue[m][i]
             /\ queue[m][i] \in DOMAIN job
    <3>1. job[queue[m][i]].tok = u
      BY <1>3, <2>2
    <3>2. Alive(u)' => Alive(u)
      BY DEF Queue, draftVars, Alive
    <3>3. Busy(u)' => Busy(u)
      BY <1>3, <1>4 DEF Busy
    <3>4. u \in DOMAIN locks /\ locks[u] = m
      BY <2>2, <3>1, <3>2, <3>3 DEF LockInv, LockOfDraft
    <3> QED
      BY <1>1, <1>2, <3>4 DEF Assign
  <2> QED
    BY <1>6, <2>1, <2>2
<1> QED
  BY <1>7, <1>8, <1>9, <1>10 DEF LockInv

\* A handler that leaves with its lock kept in the table.
LEMMA LeaveReleases ==
    ASSUME DraftTypeOK, LockInv, NEW r \in Request, Leave(r), Release(r),
           InFlight(r), Working(r) \/ \E l \in Lock : Holds(r, l),
           locks' = locks, known' = known, expired' = expired
    PROVE  LockInv'
<1>1. PICK l \in Lock : Holds(r, l)
  BY DEF LockInv, WorkingHolds, InFlight
<1>2. \A u \in drawn : Alive(u)' => Alive(u)
  BY DEF Alive
<1> QED
  BY <1>1, <1>2, LeaveKeepsLocks

\* Progress of a handler changes neither what it does nor to which draft.
LEMMA ProgressKeepsDraft ==
    ASSUME NEW j \in JobType, NEW pc, NEW v
    PROVE  /\ [j EXCEPT !.pc = pc].op = j.op
           /\ [j EXCEPT !.pc = pc].tok = j.tok
           /\ [j EXCEPT !.pc = pc, !.ver = v].op = j.op
           /\ [j EXCEPT !.pc = pc, !.ver = v].tok = j.tok
  BY DEF JobType

\* Every step keeps the lock invariant.
LEMMA StepLockInv == DraftTypeOK /\ LockInv /\ [Next]_vars => LockInv'
<1> SUFFICES ASSUME DraftTypeOK, LockInv, [Next]_vars
             PROVE  LockInv'
  OBVIOUS
<1>0. ASSUME job' = job, lockVars' = lockVars, \A u \in drawn : Alive(u)' => Alive(u)
      PROVE  LockInv'
  BY <1>0, SameQueues DEF lockVars, Working, InFlight
<1>1. ASSUME NEW r \in Request, NEW t \in Token, ImportBegin(r, t)
      PROVE  LockInv'
  <2>1. /\ r \notin DOMAIN job
        /\ DOMAIN job' = DOMAIN job \cup {r}
        /\ \A s \in DOMAIN job : job'[s] = job[s]
        /\ job'[r].op = "import"
    BY <1>1 DEF ImportBegin, InFlight, Enter, Assign
  <2>2. \A u \in drawn : Alive(u)' => Alive(u)
    BY <1>1 DEF ImportBegin, Alive
  <2>3. \A s \in DOMAIN job' : Working(s)' =>
           s \in DOMAIN job /\ job[s].op # "import" /\ Working(s)
    BY <2>1 DEF Working, InFlight
  <2> QED
    BY <1>1, <2>1, <2>2, <2>3, SameQueues DEF ImportBegin, lockVars
<1>2. ASSUME NEW r \in Request, NEW t \in Token, NEW op \in {"layout", "export"},
             Queue(r, t, op)
      PROVE  LockInv'
  BY <1>2, QueueKeepsLocks
<1>3. ASSUME NEW r \in Request, Start(r)
      PROVE  LockInv'
  <2>1. /\ DOMAIN job' = DOMAIN job
        /\ \A s \in DOMAIN job : s # r => job'[s] = job[s]
        /\ job'[r].op = job[r].op /\ job'[r].tok = job[r].tok
    <3>1. r \in DOMAIN job /\ job[r] \in JobType
      BY <1>3 DEF Start, Pc, InFlight, DraftTypeOK, JobType
    <3>2. job' = [job EXCEPT ![r] = [job[r] EXCEPT !.pc = "running"]]
      BY <1>3 DEF Start
    <3> QED
      BY <3>1, <3>2, ProgressKeepsDraft
  <2>2. \A s \in DOMAIN job' : Working(s)' =>
           /\ s \in DOMAIN job /\ job[s].op # "import"
           /\ Working(s) \/ (Alive(job[s].tok) /\ \E l \in Lock : Holds(s, l))
    <3> SUFFICES ASSUME NEW s \in DOMAIN job', Working(s)'
                 PROVE  /\ s \in DOMAIN job /\ job[s].op # "import"
                        /\ Working(s) \/ (Alive(job[s].tok) /\ \E l \in Lock : Holds(s, l))
      OBVIOUS
    <3>1. CASE s = r
      BY <1>3, <2>1, <3>1 DEF Working, InFlight, Start
    <3>2. CASE s # r
      BY <2>1, <3>2 DEF Working, InFlight
    <3> QED
      BY <3>1, <3>2
  <2>3. \A u \in drawn : Alive(u)' => Alive(u)
    BY <1>3 DEF Start, draftVars, Alive
  <2> QED
    BY <1>3, <2>1, <2>2, <2>3, SameQueues DEF Start, lockVars
<1>4. ASSUME NEW r \in Request, Refuse(r)
      PROVE  LockInv'
  <2> DEFINE t == job[r].tok
  <2>1. PICK l \in Lock : Holds(r, l)
    BY <1>4 DEF Refuse
  <2>2. r \in DOMAIN job /\ t \in Token /\ ~Working(r)
    BY <1>4 DEF Refuse, Pc, InFlight, DraftTypeOK, Working
  <2>3. \A u \in drawn : Alive(u)' => Alive(u)
    BY <1>4 DEF Refuse, Deleted, DeleteFails, Alive
  <2>4. t \notin known' \ expired'
    BY <1>4 DEF Refuse, Deleted, DeleteFails, Alive
  <2>5. ASSUME NEW s \in DOMAIN job, Working(s), job[s].tok = t
        PROVE  s = r
    <3>1. PICK m \in Lock : Holds(s, m)
      BY <2>5 DEF LockInv, WorkingHolds
    <3>2. queue[l] \in Seq(Request) /\ queue[m] \in Seq(Request)
      BY DEF DraftTypeOK
    <3>3. 1 \in 1..Len(queue[l]) /\ queue[l][1] = r
      BY <2>1, <3>2 DEF Holds
    <3>4. 1 \in 1..Len(queue[m]) /\ queue[m][1] = s
      BY <3>1, <3>2 DEF Holds
    <3>5. Busy(t)
      BY <2>5 DEF Busy
    <3>6. locks[t] = l
      BY <2>2, <3>3, <3>5 DEF LockInv, LockOfDraft
    <3>7. locks[t] = m
      BY <2>2, <2>5, <3>4, <3>5 DEF LockInv, LockOfDraft
    <3> QED
      BY <3>3, <3>4, <3>6, <3>7
  <2>6. Leave(r) /\ Release(r) /\ ForgetLock(t)
    BY <1>4 DEF Refuse
  <2> QED
    BY <2>1, <2>2, <2>3, <2>4, <2>5, <2>6, LeaveKeepsLocks DEF InFlight
<1>5. ASSUME NEW r \in Request, GetRaises(r)
      PROVE  LockInv'
  BY <1>5, LeaveReleases DEF GetRaises, GiveUp, Pc, draftVars
<1>6. ASSUME NEW r \in Request, BinaryDone(r) \/ BinaryFailed(r)
      PROVE  LockInv'
  <2>1. /\ DOMAIN job' = DOMAIN job
        /\ \A s \in DOMAIN job : s # r => job'[s] = job[s]
        /\ job'[r].op = job[r].op /\ job'[r].tok = job[r].tok
    <3>1. r \in DOMAIN job /\ job[r] \in JobType
      BY <1>6 DEF BinaryDone, BinaryFailed, Pc, InFlight, DraftTypeOK, JobType
    <3>2. \/ job' = [job EXCEPT ![r] = [job[r] EXCEPT !.pc = "failed"]]
          \/ job' = [job EXCEPT ![r] = [job[r] EXCEPT !.pc = "written"]]
          \/ job' = [job EXCEPT ![r] =
                        [job[r] EXCEPT !.pc = "written", !.ver = made + 1]]
      <4>1. CASE BinaryFailed(r)
        BY <4>1 DEF BinaryFailed
      <4>2. CASE BinaryDone(r)
        <5>1. ASSUME NEW name, MakeVersion(r, name)
              PROVE  job' = [job EXCEPT ![r] =
                                [job[r] EXCEPT !.pc = "written", !.ver = made + 1]]
          BY <5>1 DEF MakeVersion
        <5>2. ASSUME CopyVersion(r)
              PROVE  job' = [job EXCEPT ![r] = [job[r] EXCEPT !.pc = "written"]]
          BY <5>2 DEF CopyVersion
        <5> QED
          BY <4>2, <5>1, <5>2 DEF BinaryDone
      <4> QED
        BY <1>6, <4>1, <4>2
    <3>3. ASSUME NEW new, new.op = job[r].op, new.tok = job[r].tok,
                 job' = [job EXCEPT ![r] = new]
          PROVE  /\ DOMAIN job' = DOMAIN job
                 /\ \A s \in DOMAIN job : s # r => job'[s] = job[s]
                 /\ job'[r].op = job[r].op /\ job'[r].tok = job[r].tok
      BY <3>1, <3>3
    <3>4. \A pc, v :
             /\ [job[r] EXCEPT !.pc = pc].op = job[r].op
             /\ [job[r] EXCEPT !.pc = pc].tok = job[r].tok
             /\ [job[r] EXCEPT !.pc = pc, !.ver = v].op = job[r].op
             /\ [job[r] EXCEPT !.pc = pc, !.ver = v].tok = job[r].tok
      BY <3>1, ProgressKeepsDraft
    <3>5. CASE job' = [job EXCEPT ![r] = [job[r] EXCEPT !.pc = "failed"]]
      BY <3>3, <3>4, <3>5
    <3>6. CASE job' = [job EXCEPT ![r] = [job[r] EXCEPT !.pc = "written"]]
      BY <3>3, <3>4, <3>6
    <3>7. CASE job' = [job EXCEPT ![r] =
                          [job[r] EXCEPT !.pc = "written", !.ver = made + 1]]
      BY <3>3, <3>4, <3>7
    <3> QED
      BY <3>2, <3>5, <3>6, <3>7
  <2>2. \A s \in DOMAIN job' : Working(s)' =>
           s \in DOMAIN job /\ job[s].op # "import" /\ Working(s)
    BY <1>6, <2>1 DEF Working, InFlight, BinaryDone, BinaryFailed, Pc
  <2>3. \A u \in drawn : Alive(u)' => Alive(u)
    BY <1>6 DEF BinaryDone, BinaryFailed, draftVars, Alive
  <2> QED
    BY <1>6, <2>1, <2>2, <2>3, SameQueues DEF BinaryDone, BinaryFailed, lockVars
<1>7. ASSUME NEW r \in Request, ImportOk(r) \/ ImportFails(r)
      PROVE  LockInv'
  <2>1. /\ r \in DOMAIN job /\ job[r].op = "import"
        /\ DOMAIN job' = DOMAIN job \ {r}
        /\ \A s \in DOMAIN job' : job'[s] = job[s]
    BY <1>7 DEF ImportOk, ImportFails, Op, Pc, InFlight, Leave, Except
  <2>2. \A s \in DOMAIN job' : Working(s)' =>
           s \in DOMAIN job /\ job[s].op # "import" /\ Working(s)
    BY <2>1 DEF Working, InFlight
  <2>3. \A u \in drawn : Alive(u)' => Alive(u)
    BY <1>7 DEF ImportOk, ImportFails, Deleted, DeleteFails, Alive
  <2> QED
    BY <1>7, <2>1, <2>2, <2>3, SameQueues DEF ImportOk, ImportFails, lockVars
<1>8. ASSUME NEW r \in Request, ReportError(r) \/ FilesLost(r)
      PROVE  LockInv'
  <2>1. Working(r) /\ InFlight(r)
    BY <1>8 DEF ReportError, FilesLost, Pc, Op, InFlight, Working
  <2> QED
    BY <1>8, <2>1, LeaveReleases DEF ReportError, FilesLost, GiveUp, draftVars
<1>9. ASSUME NEW r \in Request, LayoutOk(r) \/ LayoutSceneFails(r)
      PROVE  LockInv'
  <2>1. Working(r) /\ InFlight(r)
    BY <1>9 DEF LayoutOk, LayoutSceneFails, Pc, Op, InFlight, Working
  <2> QED
    BY <1>9, <2>1, LeaveReleases DEF LayoutOk, LayoutSceneFails
<1>10. ASSUME NEW r \in Request, ExportKept(r)
       PROVE  LockInv'
  <2>1. Working(r) /\ InFlight(r)
    BY <1>10 DEF ExportKept, Exports, Pc, Op, InFlight, Working
  <2> QED
    BY <1>10, <2>1, LeaveReleases DEF ExportKept, Exports, DeleteFails
<1>11. ASSUME NEW r \in Request, ExportOk(r)
       PROVE  LockInv'
  <2>1. Working(r) /\ InFlight(r) /\ r \in DOMAIN job
    BY <1>11 DEF ExportOk, Exports, Pc, Op, InFlight, Working
  <2>2. PICK l \in Lock : Holds(r, l)
    BY <2>1 DEF LockInv, WorkingHolds
  <2>3. job[r].tok \notin known' \ expired'
    BY <1>11 DEF ExportOk, Deleted
  <2>4. \A s \in DOMAIN job : Working(s) /\ job[s].tok = job[r].tok => s = r
    BY <2>1, LocksExclude DEF DraftMutualExclusion
  <2>5. \A u \in drawn : Alive(u)' => Alive(u)
    BY <1>11 DEF ExportOk, Exports, Deleted, Alive
  <2>6. Leave(r) /\ Release(r) /\ ForgetLock(job[r].tok)
    BY <1>11 DEF ExportOk, Exports
  <2> QED
    BY <2>1, <2>2, <2>3, <2>4, <2>5, <2>6, LeaveKeepsLocks
<1>12. ASSUME NEW t \in Token, ImportSourceFails(t) \/ AgeOut(t)
       PROVE  LockInv'
  <2>1. \A u \in drawn : Alive(u)' => Alive(u)
    BY <1>12 DEF ImportSourceFails, AgeOut, Alive
  <2> QED
    BY <1>0, <1>12, <2>1 DEF ImportSourceFails, AgeOut
<1>13. ASSUME ImportSweepFails
       PROVE  LockInv'
  <2>1. \A u \in drawn : Alive(u)' => Alive(u)
    BY <1>13 DEF ImportSweepFails, Alive
  <2> QED
    BY <1>0, <1>13, <2>1 DEF ImportSweepFails
<1>14. ASSUME Restart
       PROVE  LockInv'
  <2>1. \A l \in Lock : Len(queue'[l]) = 0
    BY <1>14 DEF Restart
  <2>2. DOMAIN job' = {}
    BY <1>14 DEF Restart
  <2> QED
    BY <2>1, <2>2 DEF LockInv, WorkingHolds, OneQueue, QueuedInFlight, LockOfDraft
<1>15. CASE UNCHANGED vars
  <2>1. \A u \in drawn : Alive(u)' => Alive(u)
    BY <1>15 DEF vars, draftVars, Alive
  <2> QED
    BY <1>0, <1>15, <2>1 DEF vars
<1> QED
  BY <1>1, <1>2, <1>3, <1>4, <1>5, <1>6, <1>7, <1>8, <1>9, <1>10, <1>11, <1>12, <1>13,
     <1>14, <1>15 DEF Next, Begin, BinaryEnds, Resume

-----------------------------------------------------------------------------
(* Versions *)

\* Who works on a draft, or imports it, is alone on it.
LEMMA AloneOnDraft ==
    ASSUME DraftTypeOK, LockInv, ImportsAlone,
           NEW r \in DOMAIN job, NEW s \in DOMAIN job, job[s].tok = job[r].tok,
           Working(r) \/ job[r].op = "import",
           Working(s) \/ job[s].op = "import"
    PROVE  s = r
<1>1. CASE job[r].op = "import"
  BY <1>1 DEF ImportsAlone
<1>2. CASE job[s].op = "import"
  BY <1>2 DEF ImportsAlone
<1>3. CASE Working(r) /\ Working(s)
  BY <1>3, LocksExclude DEF DraftMutualExclusion
<1> QED
  BY <1>1, <1>2, <1>3

\* Whose process has written something works on a draft, or imports it.
LEMMA WrittenWorks ==
    ASSUME NEW r \in DOMAIN job, job[r].pc \in {"running", "written"}
    PROVE  Working(r) \/ job[r].op = "import"
BY DEF Working, InFlight

\* Steps that take drafts, directories and handlers away, or damage them, or
\* make directories of new tokens, tell nothing wrong of what remains.
LEMMA LosingKeepsVersions ==
    ASSUME DraftTypeOK, VersionInv,
           \A s \in DOMAIN job' :
              /\ s \in DOMAIN job
              /\ job'[s].op = job[s].op /\ job'[s].tok = job[s].tok
              /\ job'[s].pc = "written" => job[s].pc = "written" /\ job'[s].ver = job[s].ver
              /\ Working(s)' => Working(s) \/ Alive(job[s].tok),
           damaged \subseteq damaged', known' \subseteq known,
           shown' = shown, exported' = exported,
           \A t \in DOMAIN dir' \ damaged' :
              t \in drawn => t \in DOMAIN dir /\ dir'[t] = dir[t]
    PROVE  VersionInv'
<1>1. /\ DOMAIN shown \subseteq drawn
      /\ \A s \in DOMAIN job : job[s].tok \in drawn
  BY DEF DraftTypeOK
<1>2. DirIsShown'
  BY <1>1 DEF VersionInv, DirIsShown
<1>3. ImportsAlone'
  BY DEF VersionInv, ImportsAlone
<1>4. WrittenIsInDir'
  BY <1>1 DEF VersionInv, WrittenIsInDir
<1>5. ExportedIsGone'
  <2> SUFFICES ASSUME NEW t \in DOMAIN exported \ damaged' PROVE ~Busy(t)'
    BY DEF VersionInv, ExportedIsGone
  <2>1. ~Busy(t) /\ t \notin known
    BY DEF VersionInv, ExportedIsGone
  <2> QED
    BY <2>1 DEF Busy, Alive
<1> QED
  BY <1>2, <1>3, <1>4, <1>5 DEF VersionInv

\* The binary writes one file of its own draft.
LEMMA WritingKeepsVersions ==
    ASSUME DraftTypeOK, LockInv, VersionInv,
           NEW r \in DOMAIN job, NEW t, t = job[r].tok, job[r].pc = "running",
           DOMAIN job' = DOMAIN job, job'[r].pc = "written",
           job'[r].op = job[r].op, job'[r].tok = t,
           \A s \in DOMAIN job : s # r => job'[s] = job[s],
           t \in DOMAIN dir, DOMAIN dir' = DOMAIN dir,
           \A u \in DOMAIN dir : u # t => dir'[u] = dir[u],
           job[r].op # "import" =>
              dir'[t].current = dir[t].current /\ dir'[t].scene = dir[t].scene,
           job[r].op = "import" => dir'[t].current = job'[r].ver,
           job[r].op = "layout" => dir'[t].next = job'[r].ver,
           job[r].op = "export" => dir'[t].out = dir'[t].current,
           UNCHANGED <<known, shown, exported, damaged>>
    PROVE  VersionInv'
<1>1. ASSUME NEW s \in DOMAIN job, s # r, job[s].pc = "written" PROVE job[s].tok # t
  BY <1>1, WrittenWorks, AloneOnDraft DEF VersionInv
<1>2. DirIsShown'
  BY DEF VersionInv, DirIsShown, ImportsAlone
<1>3. ImportsAlone'
  BY DEF VersionInv, ImportsAlone
<1>4. WrittenIsInDir'
  <2> SUFFICES ASSUME NEW s \in DOMAIN job, job'[s].pc = "written",
                      job'[s].tok \in DOMAIN dir \ damaged
               PROVE  /\ job'[s].op = "import" => dir'[job'[s].tok].current = job'[s].ver
                      /\ job'[s].op = "layout" => dir'[job'[s].tok].next = job'[s].ver
                      /\ job'[s].op = "export"
                           => dir'[job'[s].tok].out = dir'[job'[s].tok].current
    BY DEF WrittenIsInDir
  <2>1. CASE s = r
    BY <2>1
  <2>2. CASE s # r
    BY <1>1, <2>2 DEF VersionInv, WrittenIsInDir
  <2> QED
    BY <2>1, <2>2
<1>5. ExportedIsGone'
  <2>1. \A s \in DOMAIN job : Working(s)' => Working(s)
    BY DEF Working, InFlight
  <2> QED
    BY <2>1 DEF VersionInv, ExportedIsGone, Busy
<1> QED
  BY <1>2, <1>3, <1>4, <1>5 DEF VersionInv

\* An import or a layout shows its client what is in the directory now.
LEMMA ShowingKeepsVersions ==
    ASSUME DraftTypeOK, LockInv, VersionInv,
           NEW r \in DOMAIN job, NEW t, t = job[r].tok, NEW v,
           job[r].pc = "written", job[r].op \in {"import", "layout"},
           Leave(r), shown' = Assign(shown, t, v),
           t \in DOMAIN dir, DOMAIN dir' = DOMAIN dir,
           \A u \in DOMAIN dir : u # t => dir'[u] = dir[u],
           t \notin damaged => dir'[t].current = v /\ dir'[t].scene = v,
           UNCHANGED <<known, exported, damaged>>
    PROVE  VersionInv'
<1>1. /\ DOMAIN job' = DOMAIN job \ {r}
      /\ \A s \in DOMAIN job' : job'[s] = job[s]
  BY DEF Leave, Except
<1>2. /\ DOMAIN shown' = DOMAIN shown \cup {t}
      /\ shown'[t] = v
      /\ \A u \in DOMAIN shown : u # t => shown'[u] = shown[u]
  BY DEF Assign
<1>3. Working(r) \/ job[r].op = "import"
  BY WrittenWorks
<1>4. ASSUME NEW s \in DOMAIN job', Working(s) \/ job[s].op = "import"
      PROVE  job[s].tok # t
  BY <1>1, <1>3, <1>4, AloneOnDraft DEF VersionInv
<1>5. DirIsShown'
  BY <1>2 DEF VersionInv, DirIsShown
<1>6. ImportsAlone'
  BY <1>1, <1>2, <1>4 DEF VersionInv, ImportsAlone
<1>7. WrittenIsInDir'
  <2>1. \A s \in DOMAIN job' : job'[s].pc = "written" => job'[s].tok # t
    BY <1>1, <1>4, WrittenWorks
  <2> QED
    BY <1>1, <2>1 DEF VersionInv, WrittenIsInDir
<1>8. ExportedIsGone'
  <2>1. ASSUME NEW u \in DOMAIN exported \ damaged PROVE u # t
    <3>1. CASE job[r].op = "import"
      BY <2>1, <3>1 DEF VersionInv, ExportedIsGone, ImportsAlone
    <3>2. CASE Working(r)
      BY <2>1, <3>2 DEF VersionInv, ExportedIsGone, Busy
    <3> QED
      BY <1>3, <3>1, <3>2
  <2>2. \A s \in DOMAIN job' : Working(s)' => Working(s)
    BY <1>1 DEF Working, InFlight
  <2> QED
    BY <1>1, <1>2, <2>1, <2>2 DEF VersionInv, ExportedIsGone, Busy
<1> QED
  BY <1>5, <1>6, <1>7, <1>8 DEF VersionInv

\* An export hands out what was shown, and its draft goes or is damaged.
LEMMA ExportingKeepsVersions ==
    ASSUME DraftTypeOK, LockInv, VersionInv,
           NEW r \in Request, Exports(r), NEW t, t = job[r].tok,
           damaged \subseteq damaged', known' \subseteq known,
           t \notin known' \/ t \in damaged',
           \A u \in DOMAIN dir' \ damaged' : u \in DOMAIN dir /\ dir'[u] = dir[u]
    PROVE  VersionInv'
<1>1. /\ r \in DOMAIN job /\ job[r].pc = "written" /\ job[r].op = "export"
      /\ t \in DOMAIN dir /\ exported' = Assign(exported, t, dir[t].out)
      /\ shown' = shown
      /\ DOMAIN job' = DOMAIN job \ {r}
      /\ \A s \in DOMAIN job' : job'[s] = job[s]
  BY DEF Exports, Pc, Op, InFlight, Leave, Except
<1>2. Working(r) /\ t \in DOMAIN shown
  BY <1>1 DEF Working, InFlight, VersionInv, ImportsAlone
<1>3. ASSUME NEW s \in DOMAIN job', Working(s)' PROVE Working(s) /\ job'[s].tok # t
  <2>1. Working(s)
    BY <1>1, <1>3 DEF Working, InFlight
  <2> QED
    BY <1>1, <1>2, <2>1, AloneOnDraft DEF VersionInv
<1>4. DirIsShown'
  BY <1>1 DEF VersionInv, DirIsShown
<1>5. ImportsAlone'
  BY <1>1 DEF VersionInv, ImportsAlone
<1>6. WrittenIsInDir'
  BY <1>1 DEF VersionInv, WrittenIsInDir
<1>7. ExportedIsGone'
  <2>1. t \notin damaged => dir[t].out = shown[t]
    BY <1>1, <1>2 DEF VersionInv, WrittenIsInDir, DirIsShown
  <2>2. ~Busy(t)'
    BY <1>3 DEF Busy
  <2>3. \A u : Busy(u)' => Busy(u)
    BY <1>1, <1>3 DEF Busy
  <2>4. /\ DOMAIN exported' = DOMAIN exported \cup {t}
        /\ exported'[t] = dir[t].out
        /\ \A u \in DOMAIN exported : u # t => exported'[u] = exported[u]
    BY <1>1 DEF Assign
  <2> SUFFICES ASSUME NEW u \in DOMAIN exported' \ damaged'
               PROVE  u \in DOMAIN shown /\ exported'[u] = shown[u] /\ u \notin known' /\ ~Busy(u)'
    BY <1>1 DEF ExportedIsGone
  <2>5. CASE u = t
    BY <1>2, <2>1, <2>2, <2>4, <2>5
  <2>6. CASE u # t
    BY <2>3, <2>4, <2>6 DEF VersionInv, ExportedIsGone
  <2> QED
    BY <2>5, <2>6
<1> QED
  BY <1>4, <1>5, <1>6, <1>7 DEF VersionInv

\* A draft is deleted, or its deletion fails and damages it.
LEMMA DeletingLeavesRest ==
    ASSUME NEW t, Deleted(t) \/ DeleteFails(t)
    PROVE  /\ damaged \subseteq damaged' /\ known' \subseteq known
           /\ t \notin known' \/ t \in damaged'
           /\ \A u \in DOMAIN dir' \ damaged' : u \in DOMAIN dir /\ dir'[u] = dir[u]
BY DEF Deleted, DeleteFails, Except

\* Every step keeps the versions in line.
LEMMA StepVersions == DraftTypeOK /\ LockInv /\ VersionInv /\ [Next]_vars => VersionInv'
<1> SUFFICES ASSUME DraftTypeOK, LockInv, VersionInv, [Next]_vars
             PROVE  VersionInv'
  OBVIOUS
<1> USE DEF InFlight, Pc, Op
<1>0. /\ DOMAIN shown \subseteq drawn
      /\ \A s \in DOMAIN job : job[s].tok \in drawn
      /\ \A u \in DOMAIN dir : dir[u] \in Files
  BY DEF DraftTypeOK
<1>a. ASSUME NEW r, Leave(r)
      PROVE  \A s \in DOMAIN job' :
                /\ s \in DOMAIN job /\ job'[s] = job[s]
                /\ Working(s)' => Working(s)
  BY <1>a DEF Leave, Except, Working
<1>1. ASSUME NEW r \in Request, NEW t \in Token, ImportBegin(r, t)
      PROVE  VersionInv'
  <2>1. /\ t \notin drawn /\ r \notin DOMAIN job
        /\ known' = (known \ expired) \cup {t}
        /\ shown' = shown /\ exported' = exported /\ damaged' = damaged
        /\ \A u \in DOMAIN dir' : u # t => u \in DOMAIN dir /\ dir'[u] = dir[u]
    BY <1>1 DEF ImportBegin, Assign, Except
  <2>2. /\ DOMAIN job' = DOMAIN job \cup {r}
        /\ job'[r].op = "import" /\ job'[r].tok = t /\ job'[r].pc = "running"
        /\ \A s \in DOMAIN job : job'[s] = job[s] /\ s # r
    BY <1>1, <2>1 DEF ImportBegin, Enter, Assign
  <2>3. DirIsShown'
    BY <1>0, <2>1 DEF VersionInv, DirIsShown
  <2>4. ImportsAlone'
    BY <1>0, <2>1, <2>2 DEF VersionInv, ImportsAlone
  <2>5. WrittenIsInDir'
    BY <1>0, <2>1, <2>2 DEF VersionInv, WrittenIsInDir
  <2>6. ExportedIsGone'
    <3>1. \A s \in DOMAIN job' : Working(s)' => s \in DOMAIN job /\ Working(s)
      BY <2>2 DEF Working
    <3> QED
      BY <1>0, <2>1, <2>2, <3>1 DEF VersionInv, ExportedIsGone, Busy
  <2> QED
    BY <2>3, <2>4, <2>5, <2>6 DEF VersionInv
<1>2. ASSUME NEW r \in Request, NEW t \in Token, NEW op \in {"layout", "export"},
             Queue(r, t, op)
      PROVE  VersionInv'
  <2>1. /\ t \in DOMAIN shown /\ r \notin DOMAIN job
        /\ known' = known /\ dir' = dir
        /\ shown' = shown /\ exported' = exported /\ damaged' = damaged
    BY <1>2 DEF Queue, draftVars, history
  <2>2. /\ DOMAIN job' = DOMAIN job \cup {r}
        /\ job'[r].op # "import" /\ job'[r].tok = t /\ job'[r].pc = "queued"
        /\ \A s \in DOMAIN job : job'[s] = job[s] /\ s # r
    BY <1>2, <2>1 DEF Queue, Enter, Assign
  <2>3. DirIsShown'
    BY <2>1 DEF VersionInv, DirIsShown
  <2>4. ImportsAlone'
    BY <2>1, <2>2 DEF VersionInv, ImportsAlone
  <2>5. WrittenIsInDir'
    BY <2>1, <2>2 DEF VersionInv, WrittenIsInDir
  <2>6. ExportedIsGone'
    <3>1. \A s \in DOMAIN job' : Working(s)' => s \in DOMAIN job /\ Working(s)
      BY <2>2 DEF Working
    <3> QED
      BY <2>1, <2>2, <3>1 DEF VersionInv, ExportedIsGone, Busy
  <2> QED
    BY <2>3, <2>4, <2>5, <2>6 DEF VersionInv
<1>3. ASSUME NEW r \in Request, Start(r) \/ BinaryFailed(r)
      PROVE  VersionInv'
  <2>1. /\ DOMAIN job' = DOMAIN job
        /\ \A s \in DOMAIN job' :
              /\ job'[s].op = job[s].op /\ job'[s].tok = job[s].tok
              /\ job'[s].pc = "written" => job[s].pc = "written" /\ job'[s].ver = job[s].ver
    BY <1>3 DEF Start, BinaryFailed, DraftTypeOK
  <2>2. ASSUME NEW s \in DOMAIN job', Working(s)' PROVE Working(s) \/ Alive(job[s].tok)
    BY <1>3, <2>1, <2>2 DEF Start, BinaryFailed, Working
  <2>3. UNCHANGED <<known, dir, shown, exported, damaged>>
    BY <1>3 DEF Start, BinaryFailed, draftVars, history
  <2> QED
    BY <2>1, <2>2, <2>3, LosingKeepsVersions
<1>4. ASSUME NEW r \in Request, Refuse(r) \/ ImportFails(r)
      PROVE  VersionInv'
  <2>1. /\ Leave(r) /\ shown' = shown /\ exported' = exported
        /\ Deleted(job[r].tok) \/ DeleteFails(job[r].tok)
    BY <1>4 DEF Refuse, ImportFails
  <2> QED
    BY <1>a, <2>1, DeletingLeavesRest, LosingKeepsVersions
<1>5. ASSUME NEW r \in Request, GiveUp(r)
      PROVE  VersionInv'
  <2>1. Leave(r) /\ UNCHANGED <<known, dir, shown, exported, damaged>>
    BY <1>5 DEF GiveUp, draftVars, history
  <2> QED
    BY <1>a, <2>1, LosingKeepsVersions
<1>6. ASSUME NEW r \in Request, BinaryDone(r)
      PROVE  VersionInv'
  <2>1. PICK t : t = job[r].tok
    OBVIOUS
  <2>2. /\ r \in DOMAIN job /\ job[r].pc = "running" /\ t \in DOMAIN dir
        /\ UNCHANGED <<known, shown, exported, damaged>>
        /\ dir[t] \in Files /\ job[r] \in JobType
    BY <1>0, <1>6, <2>1 DEF BinaryDone, history, DraftTypeOK, JobType
  <2>3. \A f \in Files : \A v :
           /\ [f EXCEPT !["current"] = v].current = v
           /\ [f EXCEPT !["next"] = v].next = v
           /\ [f EXCEPT !["next"] = v].current = f.current
           /\ [f EXCEPT !["next"] = v].scene = f.scene
           /\ [f EXCEPT !.out = v].out = v
           /\ [f EXCEPT !.out = v].current = f.current
           /\ [f EXCEPT !.out = v].scene = f.scene
    BY DEF Files
  <2>4. \A j \in JobType : \A v :
           /\ [j EXCEPT !.pc = "written", !.ver = v].pc = "written"
           /\ [j EXCEPT !.pc = "written", !.ver = v].ver = v
           /\ [j EXCEPT !.pc = "written", !.ver = v].op = j.op
           /\ [j EXCEPT !.pc = "written", !.ver = v].tok = j.tok
           /\ [j EXCEPT !.pc = "written"].pc = "written"
           /\ [j EXCEPT !.pc = "written"].op = j.op
           /\ [j EXCEPT !.pc = "written"].tok = j.tok
    BY DEF JobType
  <2>5. ASSUME job[r].op = "import", MakeVersion(r, "current") PROVE VersionInv'
    <3>1. PICK v : v = made + 1
      OBVIOUS
    <3>2. /\ DOMAIN dir' = DOMAIN dir
          /\ \A u \in DOMAIN dir : u # t => dir'[u] = dir[u]
          /\ dir'[t] = [dir[t] EXCEPT !["current"] = v]
      BY <2>1, <2>2, <2>5, <3>1 DEF MakeVersion
    <3>3. /\ DOMAIN job' = DOMAIN job
          /\ \A s \in DOMAIN job : s # r => job'[s] = job[s]
          /\ job'[r] = [job[r] EXCEPT !.pc = "written", !.ver = v]
      BY <2>2, <2>5, <3>1 DEF MakeVersion
    <3>4. dir'[t].current = v
      BY <2>2, <2>3, <3>2
    <3>5. /\ job'[r].pc = "written" /\ job'[r].ver = v
          /\ job'[r].op = job[r].op /\ job'[r].tok = t
      BY <2>1, <2>2, <2>4, <3>3
    <3> QED
      BY <2>1, <2>2, <2>5, <3>2, <3>3, <3>4, <3>5, WritingKeepsVersions
  <2>6. ASSUME job[r].op = "layout", MakeVersion(r, "next") PROVE VersionInv'
    <3>1. PICK v : v = made + 1
      OBVIOUS
    <3>2. /\ DOMAIN dir' = DOMAIN dir
          /\ \A u \in DOMAIN dir : u # t => dir'[u] = dir[u]
          /\ dir'[t] = [dir[t] EXCEPT !["next"] = v]
      BY <2>1, <2>2, <2>6, <3>1 DEF MakeVersion
    <3>3. /\ DOMAIN job' = DOMAIN job
          /\ \A s \in DOMAIN job : s # r => job'[s] = job[s]
          /\ job'[r] = [job[r] EXCEPT !.pc = "written", !.ver = v]
      BY <2>2, <2>6, <3>1 DEF MakeVersion
    <3>4. /\ dir'[t].next = v
          /\ dir'[t].current = dir[t].current /\ dir'[t].scene = dir[t].scene
      BY <2>2, <2>3, <3>2
    <3>5. /\ job'[r].pc = "written" /\ job'[r].ver = v
          /\ job'[r].op = job[r].op /\ job'[r].tok = t
      BY <2>1, <2>2, <2>4, <3>3
    <3> QED
      BY <2>1, <2>2, <2>6, <3>2, <3>3, <3>4, <3>5, WritingKeepsVersions
  <2>7. ASSUME job[r].op = "export", CopyVersion(r) PROVE VersionInv'
    <3>1. PICK v : v = dir[t].current
      OBVIOUS
    <3>2. /\ DOMAIN dir' = DOMAIN dir
          /\ \A u \in DOMAIN dir : u # t => dir'[u] = dir[u]
          /\ dir'[t] = [dir[t] EXCEPT !.out = v]
      BY <2>1, <2>2, <2>7, <3>1 DEF CopyVersion
    <3>3. /\ DOMAIN job' = DOMAIN job
          /\ \A s \in DOMAIN job : s # r => job'[s] = job[s]
          /\ job'[r] = [job[r] EXCEPT !.pc = "written"]
      BY <2>2, <2>7 DEF CopyVersion
    <3>4. /\ dir'[t].out = v
          /\ dir'[t].current = dir[t].current /\ dir'[t].scene = dir[t].scene
      BY <2>2, <2>3, <3>2
    <3>5. /\ job'[r].pc = "written"
          /\ job'[r].op = job[r].op /\ job'[r].tok = t
      BY <2>1, <2>2, <2>4, <3>3
    <3> QED
      BY <2>1, <2>2, <2>7, <3>1, <3>2, <3>3, <3>4, <3>5, WritingKeepsVersions
  <2> QED
    BY <1>6, <2>5, <2>6, <2>7 DEF BinaryDone
<1>7. ASSUME NEW r \in Request, ImportOk(r)
      PROVE  VersionInv'
  <2>1. PICK t, v : t = job[r].tok /\ v = job[r].ver
    OBVIOUS
  <2>2. /\ r \in DOMAIN job /\ job[r].pc = "written" /\ job[r].op = "import"
        /\ t \in DOMAIN dir /\ dir' = [dir EXCEPT ![t].scene = v]
        /\ shown' = Assign(shown, t, v) /\ Leave(r)
        /\ UNCHANGED <<known, exported, damaged>>
    BY <1>7, <2>1 DEF ImportOk
  <2>3. /\ DOMAIN dir' = DOMAIN dir
        /\ \A u \in DOMAIN dir : u # t => dir'[u] = dir[u]
        /\ dir'[t] = [dir[t] EXCEPT !.scene = v]
    BY <2>2
  <2>4. dir'[t].scene = v /\ dir'[t].current = dir[t].current
    BY <1>0, <2>2, <2>3 DEF Files
  <2>5. t \notin damaged => dir[t].current = v
    BY <2>1, <2>2 DEF VersionInv, WrittenIsInDir
  <2> QED
    BY <2>1, <2>2, <2>3, <2>4, <2>5, ShowingKeepsVersions
<1>8. ASSUME NEW r \in Request, LayoutOk(r)
      PROVE  VersionInv'
  <2>1. PICK t, v : t = job[r].tok /\ v = job[r].ver
    OBVIOUS
  <2>2. /\ r \in DOMAIN job /\ job[r].pc = "written" /\ job[r].op = "layout"
        /\ t \in DOMAIN dir /\ dir' = [dir EXCEPT ![t] = Replaced(dir[t], v)]
        /\ shown' = Assign(shown, t, v) /\ Leave(r)
        /\ UNCHANGED <<known, exported, damaged>>
    BY <1>8, <2>1 DEF LayoutOk
  <2>3. /\ DOMAIN dir' = DOMAIN dir
        /\ \A u \in DOMAIN dir : u # t => dir'[u] = dir[u]
        /\ dir'[t] = Replaced(dir[t], v)
    BY <2>2
  <2>4. dir'[t].scene = v /\ dir'[t].current = dir[t].next
    BY <1>0, <2>2, <2>3 DEF Files, Replaced
  <2>5. t \notin damaged => dir[t].next = v
    BY <2>1, <2>2 DEF VersionInv, WrittenIsInDir
  <2> QED
    BY <2>1, <2>2, <2>3, <2>4, <2>5, ShowingKeepsVersions
<1>9. ASSUME NEW r \in Request, LayoutSceneFails(r)
      PROVE  VersionInv'
  <2>1. /\ Leave(r) /\ UNCHANGED <<known, shown, exported>>
        /\ damaged \subseteq damaged'
        /\ \A u \in DOMAIN dir' \ damaged' : u \in DOMAIN dir /\ dir'[u] = dir[u]
    BY <1>9 DEF LayoutSceneFails
  <2> QED
    BY <1>a, <2>1, LosingKeepsVersions
<1>10. ASSUME NEW r \in Request, ExportOk(r) \/ ExportKept(r)
       PROVE  VersionInv'
  <2>1. /\ Exports(r)
        /\ Deleted(job[r].tok) \/ DeleteFails(job[r].tok)
    BY <1>10 DEF ExportOk, ExportKept
  <2> QED
    BY <2>1, DeletingLeavesRest, ExportingKeepsVersions
<1>11. ASSUME NEW t \in Token, ImportSourceFails(t)
       PROVE  VersionInv'
  <2>1. /\ t \notin drawn /\ known' \subseteq known
        /\ UNCHANGED <<job, shown, exported, damaged>>
        /\ \A u \in DOMAIN dir' : u # t => u \in DOMAIN dir /\ dir'[u] = dir[u]
    BY <1>11 DEF ImportSourceFails, Assign, Except
  <2> QED
    BY <2>1, LosingKeepsVersions DEF Working
<1>12. ASSUME ImportSweepFails
       PROVE  VersionInv'
  <2>1. /\ known' \subseteq known /\ damaged \subseteq damaged'
        /\ UNCHANGED <<job, shown, exported>>
        /\ \A u \in DOMAIN dir' \ damaged' : u \in DOMAIN dir /\ dir'[u] = dir[u]
    BY <1>12 DEF ImportSweepFails, Except
  <2> QED
    BY <2>1, LosingKeepsVersions DEF Working
<1>13. CASE Restart
  <2>1. /\ DOMAIN job' = {} /\ known' = {}
        /\ UNCHANGED <<shown, exported, damaged>>
        /\ \A u \in DOMAIN dir' : u \in DOMAIN dir /\ dir'[u] = dir[u]
    BY <1>13 DEF Restart, Except
  <2> QED
    BY <2>1, LosingKeepsVersions
<1>14. ASSUME UNCHANGED vars \/ \E t \in Token : AgeOut(t)
       PROVE  VersionInv'
  <2>1. UNCHANGED <<known, dir, job, shown, exported, damaged>>
    BY <1>14 DEF vars, draftVars, history, AgeOut
  <2> QED
    BY <2>1, LosingKeepsVersions DEF Working
<1> QED
  BY <1>1, <1>2, <1>3, <1>4, <1>5, <1>6, <1>7, <1>8, <1>9, <1>10, <1>11, <1>12, <1>13,
     <1>14
     DEF Next, Begin, GetRaises, BinaryEnds, Resume, ReportError, FilesLost

-----------------------------------------------------------------------------
(* The theorems *)

\* The initial state satisfies the invariant.
LEMMA InitDraftInv == Init => DraftInv
<1> SUFFICES ASSUME Init
             PROVE  DraftInv
  OBVIOUS
<1>1. DraftTypeOK
  BY DraftAssumption DEF Init, DraftTypeOK, Version
<1>2. DirectoriesMatch
  BY DEF Init, DirectoriesMatch
<1>3. DOMAIN job = {} /\ \A l \in Lock : Len(queue[l]) = 0
  BY DEF Init
<1>4. LockInv
  BY <1>3 DEF LockInv, WorkingHolds, OneQueue, QueuedInFlight, LockOfDraft
<1> QED
  BY <1>1, <1>2, <1>4 DEF DraftInv

\* The invariant holds of every reachable state.
LEMMA DraftInvariant == Spec => []DraftInv
<1>1. DraftInv /\ [Next]_vars => DraftInv'
  BY StepTypeOK, StepDirectories, StepLockInv DEF DraftInv
<1> QED
  BY <1>1, InitDraftInv, PTL DEF Spec

\* Types: every variable of the draft sessions keeps its type.
THEOREM DraftTypes == Spec => []DraftTypeOK
<1>1. DraftInv => DraftTypeOK
  BY DEF DraftInv
<1> QED
  BY <1>1, DraftInvariant, PTL

\* For any number of drafts, requests and locks: two layouts or exports of one
\* draft never work on its directory together.
THEOREM DraftsExclude == Spec => []DraftMutualExclusion
<1>1. DraftInv => DraftMutualExclusion
  BY LocksExclude DEF DraftInv
<1> QED
  BY <1>1, DraftInvariant, PTL

\* Every known draft has its directory, and every directory an owner, unless a
\* restart or a failed clean-up left it behind.
THEOREM DirectoriesAlwaysMatch == Spec => []DirectoriesMatch
<1>1. DraftInv => DirectoriesMatch
  BY DEF DraftInv
<1> QED
  BY <1>1, DraftInvariant, PTL

\* The versions start in line, and stay so.
LEMMA VersionInvariant == Spec => []VersionInv
<1>1. Init => VersionInv
  BY DEF Init, VersionInv, DirIsShown, ImportsAlone, WrittenIsInDir, ExportedIsGone
<1>2. DraftInv /\ VersionInv /\ [Next]_vars => VersionInv'
  BY StepVersions DEF DraftInv
<1> QED
  BY <1>1, <1>2, DraftInvariant, PTL DEF Spec

\* Whatever layouts fail, wait, time out or race the expiry: the model that is
\* kept of an undamaged draft is the one its client was last shown.
THEOREM CurrentIsShown == Spec => []ShownIsCurrent
<1>1. DraftInv /\ VersionInv => ShownIsCurrent
  BY DEF DraftInv, DirectoriesMatch, VersionInv, DirIsShown, ShownIsCurrent
<1> QED
  BY <1>1, DraftInvariant, VersionInvariant, PTL

\* What an undamaged draft is turned into is what its client was last shown.
THEOREM ExportsWhatWasShown == Spec => []ExportedIsShown
<1>1. VersionInv => ExportedIsShown
  BY DEF VersionInv, ExportedIsGone, ExportedIsShown
<1> QED
  BY <1>1, VersionInvariant, PTL

=============================================================================
