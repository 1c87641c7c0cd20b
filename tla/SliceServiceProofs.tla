-------------------------- MODULE SliceServiceProofs --------------------------
(***************************************************************************)
(* Proofs about SliceService for every set of requests, every split into   *)
(* plain and streamed ones, and every token cache underneath.              *)
(***************************************************************************)
EXTENDS SliceService, TokenCacheProofs

-----------------------------------------------------------------------------
(* The inductive invariant *)

Phases == {"new", "waiting", "answered", "failed", "gone"}

ProcessStates ==
    {"none", "starting", "slicing", "stored", "succeeded", "failed", "killed"}

\* The process of r has written its output file to the end
Written(r) == process[r] \in {"stored", "succeeded"}

SliceTypeOK ==
    /\ phase \in [Request -> Phases]
    /\ process \in [Request -> ProcessStates]
    /\ DOMAIN input \subseteq Request
    /\ \A r \in DOMAIN input : input[r].tok \in Token
    /\ DOMAIN output \subseteq Token
    /\ \A t \in DOMAIN output : output[t] \in Payload

\* A process belongs to a request that was accepted, and that one waits for it
\* unless it has hung up on a stream
ProcessHasRequest ==
    /\ \A r \in Request : phase[r] = "new" => process[r] = "none"
    /\ \A r \in Request : process[r] # "none" => r \in DOMAIN input
    /\ \A r \in Request : phase[r] = "waiting" => r \in DOMAIN input
    /\ \A r \in Request \ Streams : Alive(r) => phase[r] = "waiting"

\* A request that still waits while another process may write its output file
\* is in the history of the shared ones
SharingIsNoticed ==
    \A r, s \in Request :
        r # s /\ phase[r] = "waiting" /\ Alive(s) /\ SameOutput(r, s)
            => r \in shared

\* What a process has written is there, and stays its own until it is read
WrittenIsThere ==
    \A r \in Request :
        Written(r) =>
            /\ input[r].tok \in DOMAIN output
            /\ phase[r] = "waiting" /\ r \notin shared
                 => output[input[r].tok] = SliceOf[r]

SliceInv ==
    /\ SliceTypeOK
    /\ ProcessHasRequest
    /\ SharingIsNoticed
    /\ WrittenIsThere
    /\ AnswerIsOwnUnlessShared

\* Nothing has started, nothing is written.
LEMMA InitSliceInv == SliceInit => SliceInv /\ CacheInv
<1> SUFFICES ASSUME SliceInit PROVE SliceInv /\ CacheInv
  OBVIOUS
<1>1. CacheInv
  BY InitCacheInv DEF SliceInit
<1> QED
  BY <1>1
  DEF SliceInit, SliceInv, SliceTypeOK, Phases, ProcessStates, ProcessHasRequest,
      SharingIsNoticed, WrittenIsThere, AnswerIsOwnUnlessShared, Alive, Written

\* The state of one process changes, its output file does not: what it may
\* become is what it was allowed to be before.
LEMMA BecomesInv ==
    ASSUME SliceInv, NEW r \in Request, Alive(r),
           NEW s \in ProcessStates \ {"none"}, Becomes(r, s), UNCHANGED output,
           s \in {"stored", "succeeded"} => Written(r)
    PROVE  SliceInv'
<1>1. /\ phase' = phase /\ input' = input /\ answer' = answer
      /\ shared' = shared /\ output' = output
      /\ process' = [process EXCEPT ![r] = s]
  BY DEF Becomes
<1>2. /\ phase \in [Request -> Phases] /\ process \in [Request -> ProcessStates]
      /\ r \in DOMAIN input
  BY DEF SliceInv, SliceTypeOK, ProcessHasRequest, Alive
<1>3. /\ process'[r] = s
      /\ \A u \in Request : u # r => process'[u] = process[u]
  BY <1>1, <1>2
<1>4. \A u \in Request : Alive(u)' => Alive(u)
  BY <1>3 DEF Alive
<1>5. \A u \in Request : Written(u)' => Written(u)
  BY <1>3 DEF Written
<1>6. SliceTypeOK'
  BY <1>1, <1>2 DEF SliceInv, SliceTypeOK
<1>7. ProcessHasRequest'
  <2>1. \A u \in Request : phase[u] = "new" => process'[u] = "none"
    BY <1>2, <1>3 DEF SliceInv, ProcessHasRequest, Alive
  <2> QED BY <1>1, <1>2, <1>3, <1>4, <2>1 DEF SliceInv, ProcessHasRequest
<1>8. SharingIsNoticed'
  BY <1>1, <1>4 DEF SliceInv, SharingIsNoticed, SameOutput
<1>9. WrittenIsThere'
  BY <1>1, <1>5 DEF SliceInv, WrittenIsThere
<1>10. AnswerIsOwnUnlessShared'
  BY <1>1 DEF SliceInv, AnswerIsOwnUnlessShared
<1> QED BY <1>6, <1>7, <1>8, <1>9, <1>10 DEF SliceInv

\* A request that starts notices the processes that already write its output
\* file, and is noticed by the requests that wait for that file.
LEMMA BeginSliceInv ==
    ASSUME SliceInv, NEW r \in Request, NEW t \in Token, BeginSlice(r, t)
    PROVE  SliceInv'
<1> DEFINE others == {s \in DOMAIN input \ {r} : input[s].tok = t}
           noticed == {s \in others : phase[s] = "waiting"}
           late == IF \E s \in others : Alive(s) THEN {r} ELSE {}
<1>1. /\ phase[r] = "new" /\ phase' = [phase EXCEPT ![r] = "waiting"]
      /\ input' = Assign(input, r, [tok |-> t, sha |-> shaOf[t]])
      /\ process' = [process EXCEPT ![r] = "starting"]
      /\ shared' = shared \cup noticed \cup late
      /\ output' = output /\ answer' = answer
  BY DEF BeginSlice
<1>2. /\ phase \in [Request -> Phases] /\ process \in [Request -> ProcessStates]
      /\ process[r] = "none"
  BY <1>1 DEF SliceInv, SliceTypeOK, ProcessHasRequest
<1>3. /\ phase'[r] = "waiting" /\ process'[r] = "starting"
      /\ \A u \in Request : u # r => phase'[u] = phase[u] /\ process'[u] = process[u]
  BY <1>1, <1>2
<1>4. /\ DOMAIN input' = DOMAIN input \cup {r} /\ input'[r].tok = t
      /\ \A u \in DOMAIN input : u # r => input'[u] = input[u]
  BY <1>1 DEF Assign
<1>5. \A u \in Request : u # r => (Alive(u)' <=> Alive(u)) /\ (Written(u)' <=> Written(u))
  BY <1>3 DEF Alive, Written
<1>6. Alive(r)' /\ ~Written(r)'
  BY <1>3 DEF Alive, Written
<1>7. SliceTypeOK'
  BY <1>1, <1>2, <1>4 DEF SliceInv, SliceTypeOK, Phases, ProcessStates
<1>8. ProcessHasRequest'
  BY <1>3, <1>4, <1>5 DEF SliceInv, ProcessHasRequest
<1>9. SharingIsNoticed'
  <2> SUFFICES ASSUME NEW u \in Request, NEW s \in Request, u # s,
                      phase'[u] = "waiting", Alive(s)', SameOutput(u, s)'
               PROVE  u \in shared'
    BY DEF SharingIsNoticed
  <2>0. u \in DOMAIN input' /\ s \in DOMAIN input' /\ input'[u].tok = input'[s].tok
    BY DEF SameOutput
  <2>1. CASE u = r
    <3>1. s \in others /\ Alive(s)
      BY <1>4, <1>5, <2>0, <2>1
    <3> QED BY <1>1, <2>1, <3>1
  <2>2. CASE s = r
    <3>1. u \in noticed
      BY <1>3, <1>4, <2>0, <2>2
    <3> QED BY <1>1, <3>1
  <2>3. CASE u # r /\ s # r
    <3>1. phase[u] = "waiting" /\ Alive(s) /\ SameOutput(u, s)
      BY <1>3, <1>4, <1>5, <2>0, <2>3 DEF SameOutput
    <3> QED BY <1>1, <3>1 DEF SliceInv, SharingIsNoticed
  <2> QED BY <2>1, <2>2, <2>3
<1>10. WrittenIsThere'
  <2> SUFFICES ASSUME NEW u \in Request, Written(u)'
               PROVE  /\ input'[u].tok \in DOMAIN output'
                      /\ phase'[u] = "waiting" /\ u \notin shared'
                           => output'[input'[u].tok] = SliceOf[u]
    BY DEF WrittenIsThere
  <2>1. u # r /\ Written(u)
    BY <1>5, <1>6
  <2>2. u \in DOMAIN input
    BY <2>1 DEF SliceInv, ProcessHasRequest, Written
  <2> QED BY <1>1, <1>3, <1>4, <2>1, <2>2 DEF SliceInv, WrittenIsThere
<1>11. AnswerIsOwnUnlessShared'
  BY <1>1 DEF SliceInv, AnswerIsOwnUnlessShared
<1> QED BY <1>7, <1>8, <1>9, <1>10, <1>11 DEF SliceInv

\* The process writes its output: every other request that still waits for that
\* file has been counted as shared.
LEMMA StoreOutputInv ==
    ASSUME SliceInv, NEW r \in Request, StoreOutput(r)
    PROVE  SliceInv'
<1> DEFINE tok == input[r].tok
<1>1. /\ phase' = phase /\ input' = input /\ answer' = answer /\ shared' = shared
      /\ process[r] = "slicing" /\ process' = [process EXCEPT ![r] = "stored"]
      /\ output' = Assign(output, tok, SliceOf[r])
  BY DEF StoreOutput, Becomes
<1>2. /\ phase \in [Request -> Phases] /\ process \in [Request -> ProcessStates]
      /\ r \in DOMAIN input /\ tok \in Token /\ SliceOf[r] \in Payload
      /\ Alive(r)
  BY <1>1, SliceAssumption DEF SliceInv, SliceTypeOK, ProcessHasRequest, Alive
<1>3. /\ process'[r] = "stored"
      /\ \A u \in Request : u # r => process'[u] = process[u]
  BY <1>1, <1>2
<1>4. /\ DOMAIN output' = DOMAIN output \cup {tok} /\ output'[tok] = SliceOf[r]
      /\ \A t \in DOMAIN output : t # tok => output'[t] = output[t]
  BY <1>1 DEF Assign
<1>5. \A u \in Request : Alive(u)' <=> Alive(u)
  BY <1>2, <1>3 DEF Alive
<1>6. \A u \in Request : u # r => (Written(u)' <=> Written(u))
  BY <1>3 DEF Written
<1> HIDE DEF tok
<1>7. SliceTypeOK'
  <2>1. \A t \in DOMAIN output' : output'[t] \in Payload
    BY <1>2, <1>4 DEF SliceInv, SliceTypeOK
  <2> QED BY <1>1, <1>2, <1>4, <2>1 DEF SliceInv, SliceTypeOK, ProcessStates
<1>8. ProcessHasRequest'
  BY <1>1, <1>2, <1>3, <1>5 DEF SliceInv, ProcessHasRequest
<1>9. SharingIsNoticed'
  BY <1>1, <1>5 DEF SliceInv, SharingIsNoticed, SameOutput
<1>10. WrittenIsThere'
  <2> SUFFICES ASSUME NEW u \in Request, Written(u)'
               PROVE  /\ input[u].tok \in DOMAIN output'
                      /\ phase[u] = "waiting" /\ u \notin shared
                           => output'[input[u].tok] = SliceOf[u]
    BY <1>1 DEF WrittenIsThere
  <2>1. CASE u = r
    BY <1>4, <2>1 DEF tok
  <2>2. CASE u # r /\ input[u].tok = tok
    <3>1. Written(u) /\ u \in DOMAIN input
      BY <1>6, <2>2 DEF SliceInv, ProcessHasRequest, Written
    <3>2. SameOutput(u, r)
      BY <1>2, <2>2, <3>1 DEF SameOutput, tok
    <3> QED BY <1>2, <1>4, <2>2, <3>2 DEF SliceInv, SharingIsNoticed
  <2>3. CASE u # r /\ input[u].tok # tok
    BY <1>4, <1>6, <2>3 DEF SliceInv, WrittenIsThere
  <2> QED BY <2>1, <2>2, <2>3
<1>11. AnswerIsOwnUnlessShared'
  BY <1>1 DEF SliceInv, AnswerIsOwnUnlessShared
<1> QED BY <1>7, <1>8, <1>9, <1>10, <1>11 DEF SliceInv

\* A handler that resumes with a result returns what its process has written.
LEMMA AnswerSliceInv ==
    ASSUME SliceInv, NEW r \in Request, NEW t \in Token, AnswerSlice(r, t)
    PROVE  SliceInv'
<1>1. /\ phase[r] = "waiting" /\ phase' = [phase EXCEPT ![r] = "answered"]
      /\ process[r] = "succeeded"
      /\ input' = input /\ process' = process /\ output' = output /\ shared' = shared
      /\ answer' = Assign(answer, r, output[input[r].tok])
  BY DEF AnswerSlice
<1>2. phase \in [Request -> Phases]
  BY DEF SliceInv, SliceTypeOK
<1>3. /\ phase'[r] = "answered"
      /\ \A u \in Request : u # r => phase'[u] = phase[u]
  BY <1>1, <1>2
<1>4. \A u \in Request : (Alive(u)' <=> Alive(u)) /\ (Written(u)' <=> Written(u))
  BY <1>1 DEF Alive, Written
<1>5. Written(r) /\ ~Alive(r)
  BY <1>1 DEF Alive, Written
<1>6. SliceTypeOK'
  BY <1>1, <1>2 DEF SliceInv, SliceTypeOK, Phases
<1>7. ProcessHasRequest'
  BY <1>1, <1>3, <1>4, <1>5 DEF SliceInv, ProcessHasRequest
<1>8. SharingIsNoticed'
  BY <1>1, <1>3, <1>4 DEF SliceInv, SharingIsNoticed, SameOutput
<1>9. WrittenIsThere'
  BY <1>1, <1>3, <1>4 DEF SliceInv, WrittenIsThere
<1>10. AnswerIsOwnUnlessShared'
  <2>1. r \notin shared => output[input[r].tok] = SliceOf[r]
    BY <1>1, <1>5 DEF SliceInv, WrittenIsThere
  <2>2. /\ DOMAIN answer' = DOMAIN answer \cup {r}
        /\ answer'[r] = output[input[r].tok]
        /\ \A u \in DOMAIN answer : u # r => answer'[u] = answer[u]
    BY <1>1 DEF Assign
  <2> QED BY <1>1, <2>1, <2>2 DEF SliceInv, AnswerIsOwnUnlessShared
<1> QED BY <1>6, <1>7, <1>8, <1>9, <1>10 DEF SliceInv

\* A handler that ends without a result: a rejected request, an error, a kill, a
\* hang-up.  No process of a plain request is left alive.
LEMMA GivesUpInv ==
    ASSUME SliceInv, NEW r \in Request, NEW p \in {"failed", "gone"},
           phase' = [phase EXCEPT ![r] = p],
           \/ process' = process
           \/ process[r] # "none" /\ process' = [process EXCEPT ![r] = "killed"],
           r \notin Streams => ~Alive(r)',
           UNCHANGED <<input, output, answer, shared>>
    PROVE  SliceInv'
<1>1. phase \in [Request -> Phases] /\ process \in [Request -> ProcessStates]
  BY DEF SliceInv, SliceTypeOK
<1>2. /\ phase'[r] = p
      /\ \A u \in Request : u # r => phase'[u] = phase[u]
  BY <1>1
<1>3. /\ process' \in [Request -> ProcessStates]
      /\ \A u \in Request : u # r => process'[u] = process[u]
      /\ process'[r] = process[r] \/ (process[r] # "none" /\ process'[r] = "killed")
  <2>1. CASE process' = process
    BY <1>1, <2>1
  <2>2. CASE process[r] # "none" /\ process' = [process EXCEPT ![r] = "killed"]
    <3>1. "killed" \in ProcessStates
      BY DEF ProcessStates
    <3> QED BY <1>1, <2>2, <3>1
  <2> QED BY <2>1, <2>2
<1>4. \A u \in Request : (Alive(u)' => Alive(u)) /\ (Written(u)' => Written(u))
  BY <1>3 DEF Alive, Written
<1>5. SliceTypeOK'
  BY <1>1, <1>3 DEF SliceInv, SliceTypeOK, Phases
<1>6. ProcessHasRequest'
  BY <1>2, <1>3, <1>4 DEF SliceInv, ProcessHasRequest
<1>7. SharingIsNoticed'
  BY <1>2, <1>4 DEF SliceInv, SharingIsNoticed, SameOutput
<1>8. WrittenIsThere'
  BY <1>2, <1>4 DEF SliceInv, WrittenIsThere
<1>9. AnswerIsOwnUnlessShared'
  BY DEF SliceInv, AnswerIsOwnUnlessShared
<1> QED BY <1>5, <1>6, <1>7, <1>8, <1>9 DEF SliceInv

\* The other handlers of the cache touch no slice.
LEMMA UntouchedInv ==
    ASSUME SliceInv, UNCHANGED sliceVars
    PROVE  SliceInv'
BY DEF sliceVars, SliceInv, SliceTypeOK, ProcessHasRequest, SharingIsNoticed,
       WrittenIsThere, AnswerIsOwnUnlessShared, Alive, Written, SameOutput

\* Every step of the service keeps the invariant.
LEMMA NextSliceInv == SliceInv /\ [SliceNext]_vars => SliceInv'
<1> SUFFICES ASSUME SliceInv, [SliceNext]_vars PROVE SliceInv'
  OBVIOUS
<1>1. ASSUME NEW r \in Request, NEW t \in Token, BeginSlice(r, t) PROVE SliceInv'
  BY <1>1, BeginSliceInv
<1>2. ASSUME NEW r \in Request, NEW t \in Token, RejectSlice(r, t) PROVE SliceInv'
  <2>1. ~Alive(r)'
    BY <1>2 DEF RejectSlice, SliceInv, ProcessHasRequest, Alive
  <2> QED BY <1>2, <2>1, GivesUpInv DEF RejectSlice
<1>3. ASSUME NEW r \in Request, LoadInput(r) \/ ExitOk(r) \/ ExitBadly(r) PROVE SliceInv'
  <2>1. Alive(r) /\ UNCHANGED output
    BY <1>3 DEF LoadInput, ExitOk, ExitBadly, Alive
  <2>2. PICK s \in {"slicing", "failed", "succeeded"} :
            Becomes(r, s) /\ (s = "succeeded" => process[r] = "stored")
    BY <1>3 DEF LoadInput, ExitOk, ExitBadly
  <2>3. s \in ProcessStates \ {"none"} /\ (s \in {"stored", "succeeded"} => Written(r))
    BY <2>2 DEF ProcessStates, Written
  <2> QED BY <2>1, <2>2, <2>3, BecomesInv
<1>4. ASSUME NEW r \in Request, StoreOutput(r) PROVE SliceInv'
  BY <1>4, StoreOutputInv
<1>5. ASSUME NEW r \in Request, NEW t \in Token, AnswerSlice(r, t) PROVE SliceInv'
  BY <1>5, AnswerSliceInv
<1>6. ASSUME NEW r \in Request, AnswerError(r) PROVE SliceInv'
  <2>1. ~Alive(r)'
    BY <1>6 DEF AnswerError, Alive
  <2> QED BY <1>6, <2>1, GivesUpInv DEF AnswerError
<1>7. ASSUME NEW r \in Request, TimeOut(r) PROVE SliceInv'
  <2>1. process[r] # "none" /\ process'[r] = "killed"
    BY <1>7 DEF TimeOut, Alive, SliceInv, SliceTypeOK
  <2>2. ~Alive(r)'
    BY <2>1 DEF Alive
  <2> QED BY <1>7, <2>1, <2>2, GivesUpInv DEF TimeOut
<1>8. ASSUME NEW r \in Request, HangUp(r) PROVE SliceInv'
  BY <1>8, GivesUpInv DEF HangUp
<1>9. ASSUME NEW p \in Upload, NEW t \in Token, UploadFile(p, t) PROVE SliceInv'
  BY <1>9, UntouchedInv DEF UploadFile
<1>10. ASSUME NEW t \in Token, DeleteToken(t) PROVE SliceInv'
  BY <1>10, UntouchedInv DEF DeleteToken
<1>11. CASE ClearCache
  BY <1>11, UntouchedInv DEF ClearCache
<1>12. CASE UNCHANGED vars
  BY <1>12, UntouchedInv DEF vars
<1> QED BY <1>1, <1>2, <1>3, <1>4, <1>5, <1>6, <1>7, <1>8, <1>9, <1>10, <1>11, <1>12
        DEF SliceNext, ProcessStep, Resume

\* Whatever the slice handlers do to the token cache is a step of the cache:
\* they only call its operations, with payloads and tokens it knows.
LEMMA SliceStepOfCache ==
    SliceInv /\ [SliceNext]_vars => [Next]_cacheVars
<1> SUFFICES ASSUME SliceInv, [SliceNext]_vars PROVE [Next]_cacheVars
  OBVIOUS
<1>1. ASSUME NEW r \in Request, NEW t \in Token, BeginSlice(r, t) \/ RejectSlice(r, t)
      PROVE  Next
  BY <1>1 DEF BeginSlice, RejectSlice, Next
<1>2. ASSUME NEW r \in Request, ProcessStep(r) PROVE UNCHANGED cacheVars
  BY <1>2 DEF ProcessStep, LoadInput, StoreOutput, ExitOk, ExitBadly, Becomes
<1>3. ASSUME NEW r \in Request, NEW t \in Token, AnswerSlice(r, t) PROVE Next
  <2>1. output[input[r].tok] \in Payload /\ Put(output[input[r].tok], t)
    BY <1>3 DEF AnswerSlice, SliceInv, SliceTypeOK, WrittenIsThere, Written
  <2> QED BY <2>1 DEF Next
<1>4. ASSUME NEW r \in Request, AnswerError(r) \/ TimeOut(r) \/ HangUp(r)
      PROVE  UNCHANGED cacheVars
  BY <1>4 DEF AnswerError, TimeOut, HangUp
<1>5. ASSUME NEW p \in Upload, NEW t \in Token, UploadFile(p, t) PROVE Next
  BY <1>5, SliceAssumption DEF UploadFile, Next
<1>6. ASSUME NEW t \in Token, DeleteToken(t) PROVE Next
  BY <1>6 DEF DeleteToken, Next
<1>7. CASE ClearCache
  BY <1>7 DEF ClearCache, Next
<1>8. CASE UNCHANGED vars
  BY <1>8 DEF vars
<1> QED BY <1>1, <1>2, <1>3, <1>4, <1>5, <1>6, <1>7, <1>8 DEF SliceNext, Resume

-----------------------------------------------------------------------------
(* Theorems *)

\* A request whose output file no other process could touch is answered with
\* its own slice, for any number of requests, tokens and left-over files.
THEOREM OwnSliceUnlessShared == SliceSpec => []AnswerIsOwnUnlessShared
<1>1. SliceInv => AnswerIsOwnUnlessShared
  BY DEF SliceInv
<1> QED BY <1>1, InitSliceInv, NextSliceInv, PTL DEF SliceSpec

\* The process of a plain request ends no later than its handler.
THEOREM PlainProcessEnds == SliceSpec => []NoProcessOutlivesAnswer
<1>1. SliceInv => NoProcessOutlivesAnswer
  BY DEF SliceInv, ProcessHasRequest, NoProcessOutlivesAnswer
<1> QED BY <1>1, InitSliceInv, NextSliceInv, PTL DEF SliceSpec

\* The slice handlers use the token cache as it may be used: every behaviour of
\* theirs is one of the cache, which stays consistent and goes on promising that
\* a token denotes the bytes it was issued for.
THEOREM SliceKeepsCache ==
    SliceSpec => [](IndexConsistent /\ CapsRespected) /\ ImplementsStore
<1>1. SliceInit => Init
  BY DEF SliceInit
<1>2. SliceSpec => Spec
  BY <1>1, InitSliceInv, NextSliceInv, SliceStepOfCache, PTL DEF SliceSpec, Spec
<1> QED BY <1>2, AlwaysConsistent, CapsHold, CacheImplementsStore, PTL

=============================================================================
