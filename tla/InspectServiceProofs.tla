------------------------- MODULE InspectServiceProofs -------------------------
(***************************************************************************)
(* Proofs about InspectService for every set of requests and payloads,     *)
(* every maximum of cached answers and every token cache underneath.       *)
(***************************************************************************)
EXTENDS InspectService, TokenCacheProofs

-----------------------------------------------------------------------------
(* The inductive invariant *)

\* Token t was drawn once, and if it still denotes anything it denotes p
Serves(t, p) == t \in issued /\ (t \in Live => shaOf[t] = p)

\* The parts of answer a were computed from payload p and a token of p
IsAbout(a, p) == a.describes = p /\ Serves(a.urlToken, p)

\* The plates of p that have slots to tell
Fillable(p) == Plates[p] \cap (SlicedPlates[p] \cup UseSetPlates[p])

\* The slots that a lacks, a failure of the binary on p explains
SlotsExplained(a, p) == Fillable(p) \subseteq a.slots \/ p \in useSetLost

\* A suspended handler still holds a token and the payload that it denotes
PendingServes ==
    \A r \in DOMAIN pending : Serves(pending[r].tok, pending[r].sha)

AnswersAreAbout ==
    /\ \A p \in DOMAIN answers : IsAbout(answers[p], p)
    /\ \A r \in DOMAIN reply : IsAbout(reply[r].answer, reply[r].sha)

SlotsAreExplained == \A p \in DOMAIN answers : SlotsExplained(answers[p], p)

InspectInv ==
    /\ CacheInv
    /\ PendingServes
    /\ AnswersAreAbout
    /\ SlotsAreExplained

\* Nothing is cached, nothing is pending.
LEMMA InitInspectInv == InspectInit => InspectInv
BY InitCacheInv
   DEF InspectInit, InspectInv, PendingServes, AnswersAreAbout, SlotsAreExplained

-----------------------------------------------------------------------------
(* The token cache under the handlers *)

\* Whatever the inspect handlers do to the token cache is a step of the cache.
LEMMA InspectStepOfCache == [InspectNext]_vars => [Next]_cacheVars
<1> SUFFICES ASSUME [InspectNext]_vars PROVE [Next]_cacheVars
  OBVIOUS
<1>1. ASSUME NEW r \in Request, NEW t \in Token,
             InspectHit(r, t) \/ InspectParsed(r, t) \/ InspectAwaits(r, t)
      PROVE  Next
  BY <1>1 DEF InspectHit, InspectParsed, InspectAwaits, Next
<1>2. ASSUME NEW r \in Request, NEW ok \in BOOLEAN, UseSetReturns(r, ok)
      PROVE  UNCHANGED cacheVars
  BY <1>2 DEF UseSetReturns
<1>3. ASSUME NEW p \in Payload, NEW t \in Token, Upload(p, t) PROVE Next
  BY <1>3 DEF Upload, Next
<1>4. ASSUME NEW t \in Token, ReadFile(t) \/ DeleteToken(t) PROVE Next
  BY <1>4 DEF ReadFile, DeleteToken, Next
<1>5. CASE ClearCache \/ RestartServer
  BY <1>5 DEF ClearCache, RestartServer, Next
<1>6. CASE UNCHANGED vars
  BY <1>6 DEF vars
<1> QED BY <1>1, <1>2, <1>3, <1>4, <1>5, <1>6 DEF InspectNext

\* A token that has been drawn denotes the same payload after a step, or none.
LEMMA DrawnTokenStays ==
    ASSUME CacheInv, [Next]_cacheVars, NEW t, NEW p, Serves(t, p)
    PROVE  Serves(t, p)'
<1>0. DOMAIN shaOf = Live /\ Live \subseteq issued
  BY DEF CacheInv, TypeOK
<1>1. ASSUME NEW q \in Payload, NEW u \in Token, PutNew(q, u) PROVE Serves(t, p)'
  <2>1. /\ Live' \subseteq Live \cup {u}
        /\ shaOf' = [v \in Live' |-> IF v = u THEN q ELSE shaOf[v]]
    BY <1>1, PutNewDenotes
  <2>2. u \notin issued /\ issued' = issued \cup {u}
    BY <1>1 DEF PutNew
  <2> QED BY <2>1, <2>2 DEF Serves
<1>2. ASSUME NEW u \in Token, Delete(u) PROVE Serves(t, p)'
  <2>1. /\ entries \in Seq(Token) /\ IsInjective(entries) /\ u \in ToSet(entries)
        /\ entries' = Removed(entries, u)
        /\ shaOf' = Without(shaOf, {u}) /\ issued' = issued
    BY <1>2 DEF Delete, Live, CacheInv, TypeOK, IndexConsistent, NoDuplicates
  <2>2. Live' = Live \ {u}
    BY <2>1, RemovedFacts DEF Live
  <2> QED BY <1>0, <2>1, <2>2 DEF Serves, Without, Restrict
<1>3. ASSUME Forget, issued \subseteq issued' PROVE Serves(t, p)'
  BY <1>3 DEF Forget, Serves, Live, ToSet
<1>4. ASSUME NEW u, u \in Live, entries' = MoveToEnd(entries, u), UNCHANGED <<shaOf, issued>>
      PROVE  Serves(t, p)'
  <2>1. entries \in Seq(Token) /\ IsInjective(entries) /\ u \in ToSet(entries)
    BY <1>4 DEF Live, CacheInv, TypeOK, IndexConsistent, NoDuplicates
  <2>2. Live' = Live
    BY <1>4, <2>1, MoveToEndFacts DEF Live
  <2> QED BY <1>4, <2>2 DEF Serves
<1>5. ASSUME NEW q \in Payload, NEW u \in Token, PutKnown(q, u) PROVE Serves(t, p)'
  <2>1. u \in Live
    BY <1>5 DEF PutKnown, CacheInv, IndexConsistent, IndexInverse
  <2> QED BY <1>4, <1>5, <2>1 DEF PutKnown
<1>6. ASSUME NEW q \in Payload, NEW u \in Token, PutFails(q, u) PROVE Serves(t, p)'
  BY <1>6 DEF PutFails, Serves, Live
<1>7. ASSUME NEW q \in Payload, NEW u \in Token, CrashInEviction(q, u)
      PROVE  Serves(t, p)'
  BY <1>3, <1>7 DEF CrashInEviction
<1>8. ASSUME NEW q \in Payload, CrashInWrite(q) PROVE Serves(t, p)'
  BY <1>3, <1>8 DEF CrashInWrite
<1>9. ASSUME NEW u \in Token, Path(u) PROVE Serves(t, p)'
  BY <1>4, <1>9 DEF Path
<1>10. CASE Clear \/ Restart \/ CrashInClear
  BY <1>3, <1>10 DEF Clear, Restart, CrashInClear, Forget
<1>11. CASE UNCHANGED cacheVars
  BY <1>11 DEF cacheVars, Serves, Live
<1> QED BY <1>1, <1>2, <1>5, <1>6, <1>7, <1>8, <1>9, <1>10, <1>11 DEF Next, Put

-----------------------------------------------------------------------------
(* The cached answers *)

\* A cache of answers holds the one it is given and some of those it had.
LEMMA RememberKeeps ==
    ASSUME NEW p, NEW a, Remember(p, a)
    PROVE  \A x \in DOMAIN answers' :
              \/ x = p /\ answers'[x] = a
              \/ x \in DOMAIN answers /\ answers'[x] = answers[x]
BY DEF Remember, Without, Restrict, Assign

\* A reply changes for the request that gets it.
LEMMA ReplyKeeps ==
    ASSUME NEW r, NEW v, reply' = Assign(reply, r, v)
    PROVE  \A x \in DOMAIN reply' :
              \/ reply'[x] = v
              \/ x \in DOMAIN reply /\ reply'[x] = reply[x]
BY DEF Assign

\* A live token serves the payload that it denotes.
LEMMA LiveServes ==
    ASSUME CacheInv, NEW t \in Live
    PROVE  Serves(t, shaOf[t])
BY DEF CacheInv, TypeOK, Serves

\* What was about a payload stays about it.
LEMMA AboutStays ==
    ASSUME InspectInv, [Next]_cacheVars, NEW a, NEW p, IsAbout(a, p)
    PROVE  /\ a.describes = p
           /\ a.urlToken \in issued'
           /\ a.urlToken \in Live' => shaOf'[a.urlToken] = p
<1>1. PICK t : t = a.urlToken
  OBVIOUS
<1>2. Serves(t, p)'
  BY <1>1, DrawnTokenStays DEF IsAbout, InspectInv
<1> QED BY <1>1, <1>2 DEF IsAbout, Serves

\* Answers that were about their payloads stay so when the handlers only drop
\* some, repeat some or add some that are.
LEMMA AnswersStayAbout ==
    ASSUME InspectInv, [Next]_cacheVars,
           \A x \in DOMAIN answers' :
              \/ IsAbout(answers'[x], x)
                 /\ (Fillable(x) \subseteq answers'[x].slots \/ x \in useSetLost')
              \/ /\ x \in DOMAIN answers /\ answers'[x] = answers[x]
                 /\ x \in useSetLost => x \in useSetLost',
           \A x \in DOMAIN reply' :
              \/ IsAbout(reply'[x].answer, reply'[x].sha)
              \/ x \in DOMAIN reply /\ reply'[x] = reply[x]
    PROVE  AnswersAreAbout' /\ SlotsAreExplained'
<1>1. ASSUME NEW x \in DOMAIN answers'
      PROVE  /\ answers'[x].describes = x
             /\ answers'[x].urlToken \in issued'
             /\ answers'[x].urlToken \in Live' => shaOf'[answers'[x].urlToken] = x
  <2>1. IsAbout(answers'[x], x)
    BY DEF InspectInv, AnswersAreAbout
  <2> QED BY <2>1, AboutStays
<1>2. ASSUME NEW x \in DOMAIN reply'
      PROVE  /\ reply'[x].answer.describes = reply'[x].sha
             /\ reply'[x].answer.urlToken \in issued'
             /\ reply'[x].answer.urlToken \in Live'
                  => shaOf'[reply'[x].answer.urlToken] = reply'[x].sha
  <2>1. PICK a, p : a = reply'[x].answer /\ p = reply'[x].sha
    OBVIOUS
  <2>2. IsAbout(a, p)
    BY <2>1 DEF InspectInv, AnswersAreAbout
  <2> QED BY <2>1, <2>2, AboutStays
<1>3. AnswersAreAbout'
  BY <1>1, <1>2 DEF AnswersAreAbout, IsAbout, Serves
<1>4. SlotsAreExplained'
  BY DEF InspectInv, SlotsAreExplained, SlotsExplained
<1> QED BY <1>3, <1>4

\* A handler that has just read a payload starts to wait with it.
LEMMA PendingStaysServed ==
    ASSUME InspectInv, [Next]_cacheVars,
           \A x \in DOMAIN pending' :
              \/ Serves(pending'[x].tok, pending'[x].sha)
              \/ x \in DOMAIN pending /\ pending'[x] = pending[x]
    PROVE  PendingServes'
<1>1. ASSUME NEW x \in DOMAIN pending'
      PROVE  /\ pending'[x].tok \in issued'
             /\ pending'[x].tok \in Live' => shaOf'[pending'[x].tok] = pending'[x].sha
            
  <2>1. PICK t, p : t = pending'[x].tok /\ p = pending'[x].sha
    OBVIOUS
  <2>2. Serves(t, p)
    BY <2>1 DEF InspectInv, PendingServes
  <2>3. Serves(t, p)'
    BY <2>2, DrawnTokenStays DEF InspectInv
  <2> QED BY <2>1, <2>3 DEF Serves
<1> QED BY <1>1 DEF PendingServes, Serves

\* Every step of the service keeps the invariant.
LEMMA NextInspectInv == InspectInv /\ [InspectNext]_vars => InspectInv'
<1> SUFFICES ASSUME InspectInv, [InspectNext]_vars PROVE InspectInv'
  OBVIOUS
<1>1. [Next]_cacheVars
  BY InspectStepOfCache
<1>2. CacheInv'
  BY <1>1, NextCacheInv DEF InspectInv
<1>3. \A t \in Live : Serves(t, shaOf[t])
  BY LiveServes DEF InspectInv
<1>4. ASSUME NEW r \in Request, NEW t \in Token, InspectHit(r, t) PROVE InspectInv'
  <2>1. PICK p, a : p = shaOf[t] /\ a = answers[shaOf[t]]
    OBVIOUS
  <2>2. /\ t \in Live /\ p \in DOMAIN answers /\ a = answers[p]
        /\ reply' = Assign(reply, r, [tok |-> t, sha |-> p, answer |-> a])
        /\ answers' = answers /\ pending' = pending /\ useSetLost' = useSetLost
    BY <1>4, <2>1 DEF InspectHit, Path
  <2>3. IsAbout(a, p)
    BY <2>2 DEF InspectInv, AnswersAreAbout
  <2>4. \A x \in DOMAIN reply' :
           \/ reply'[x].sha = p /\ reply'[x].answer = a
           \/ x \in DOMAIN reply /\ reply'[x] = reply[x]
    BY <2>2, ReplyKeeps
  <2>5. AnswersAreAbout' /\ SlotsAreExplained'
    BY <1>1, <2>2, <2>3, <2>4, AnswersStayAbout
  <2>6. PendingServes'
    BY <1>1, <2>2, PendingStaysServed
  <2> QED BY <1>2, <2>5, <2>6 DEF InspectInv
<1>5. ASSUME NEW r \in Request, NEW t \in Token, InspectParsed(r, t) PROVE InspectInv'
  <2>1. PICK p, a : p = shaOf[t] /\ a = [describes |-> p, urlToken |-> t,
                                              slots |-> SlicedPlates[p] \cup (Plates[p] \cap {})]
    OBVIOUS
  <2>2. /\ t \in Live /\ Remember(p, a)
        /\ reply' = Assign(reply, r, [tok |-> t, sha |-> p, answer |-> a])
        /\ pending' = pending /\ useSetLost' = useSetLost
        /\ Plates[p] = SlicedPlates[p]
    BY <1>5, <2>1 DEF InspectParsed, Path, Respond, NeedsBinary
  <2>3. IsAbout(a, p) /\ Fillable(p) \subseteq a.slots
    BY <1>3, <2>1, <2>2 DEF IsAbout, Fillable
  <2>4. \A x \in DOMAIN reply' :
           \/ reply'[x].sha = p /\ reply'[x].answer = a
           \/ x \in DOMAIN reply /\ reply'[x] = reply[x]
    BY <2>2, ReplyKeeps
  <2>5. AnswersAreAbout' /\ SlotsAreExplained'
    BY <1>1, <2>2, <2>3, <2>4, AnswersStayAbout, RememberKeeps
  <2>6. PendingServes'
    BY <1>1, <2>2, PendingStaysServed
  <2> QED BY <1>2, <2>5, <2>6 DEF InspectInv
<1>6. ASSUME NEW r \in Request, NEW t \in Token, InspectAwaits(r, t) PROVE InspectInv'
  <2>1. /\ t \in Live
        /\ pending' = Assign(pending, r, [tok |-> t, sha |-> shaOf[t]])
        /\ answers' = answers /\ reply' = reply /\ useSetLost' = useSetLost
    BY <1>6 DEF InspectAwaits, Path
  <2>2. AnswersAreAbout' /\ SlotsAreExplained'
    BY <1>1, <2>1, AnswersStayAbout
  <2>3. \A x \in DOMAIN pending' :
           \/ pending'[x].tok = t /\ pending'[x].sha = shaOf[t]
           \/ x \in DOMAIN pending /\ pending'[x] = pending[x]
    BY <2>1 DEF Assign
  <2>4. \A x \in DOMAIN pending' :
           \/ Serves(pending'[x].tok, pending'[x].sha)
           \/ x \in DOMAIN pending /\ pending'[x] = pending[x]
    BY <1>3, <2>1, <2>3
  <2>5. PendingServes'
    BY <1>1, <2>4, PendingStaysServed
  <2> QED BY <1>2, <2>2, <2>5 DEF InspectInv
<1>7. ASSUME NEW r \in Request, NEW ok \in BOOLEAN, UseSetReturns(r, ok)
      PROVE  InspectInv'
  <2>1. PICK t, p, a :
           /\ t = pending[r].tok /\ p = pending[r].sha
           /\ a = [describes |-> p, urlToken |-> t,
                   slots |-> SlicedPlates[p]
                             \cup (Plates[p] \cap IF ok THEN UseSetPlates[p] ELSE {})]
    OBVIOUS
  <2>2. /\ r \in DOMAIN pending /\ Remember(p, a)
        /\ reply' = Assign(reply, r, [tok |-> t, sha |-> p, answer |-> a])
        /\ pending' = Without(pending, {r})
        /\ useSetLost' = IF ok THEN useSetLost ELSE useSetLost \cup {p}
    BY <1>7, <2>1 DEF UseSetReturns, Respond, Idle
  <2>3. IsAbout(a, p)
    BY <2>1, <2>2 DEF IsAbout, InspectInv, PendingServes
  <2>4. (Fillable(p) \subseteq a.slots \/ p \in useSetLost') /\ useSetLost \subseteq useSetLost'
    <3>1. CASE ok
      BY <2>1, <2>2, <3>1 DEF Fillable
    <3>2. CASE ~ ok
      BY <2>2, <3>2
    <3> QED BY <2>2, <3>1, <3>2
  <2>5. \A x \in DOMAIN reply' :
           \/ reply'[x].sha = p /\ reply'[x].answer = a
           \/ x \in DOMAIN reply /\ reply'[x] = reply[x]
    BY <2>2, ReplyKeeps
  <2>6. AnswersAreAbout' /\ SlotsAreExplained'
    BY <1>1, <2>2, <2>3, <2>4, <2>5, AnswersStayAbout, RememberKeeps
  <2>7. \A x \in DOMAIN pending' : x \in DOMAIN pending /\ pending'[x] = pending[x]
    BY <2>2 DEF Without, Restrict
  <2>8. PendingServes'
    BY <1>1, <2>7, PendingStaysServed
  <2> QED BY <1>2, <2>6, <2>8 DEF InspectInv
<1>8. ASSUME UNCHANGED inspectVars PROVE InspectInv'
  BY <1>1, <1>2, <1>8, AnswersStayAbout, PendingStaysServed DEF inspectVars, InspectInv
<1>9. ASSUME NEW t \in Token, DeleteToken(t) PROVE InspectInv'
  <2>1. /\ answers' = Without(answers, {shaOf[t]})
        /\ pending' = pending /\ reply' = reply
        /\ useSetLost' = useSetLost \ {shaOf[t]}
    BY <1>9 DEF DeleteToken, Invalidate
  <2>2. \A x \in DOMAIN answers' :
           /\ x \in DOMAIN answers /\ answers'[x] = answers[x]
           /\ x \in useSetLost => x \in useSetLost'
    BY <2>1 DEF Without, Restrict
  <2> QED BY <1>1, <1>2, <2>1, <2>2, AnswersStayAbout, PendingStaysServed DEF InspectInv
<1>10. CASE RestartServer
  BY <1>1, <1>2, <1>10, AnswersStayAbout, PendingStaysServed
  DEF RestartServer, InspectInv
<1> QED BY <1>4, <1>5, <1>6, <1>7, <1>8, <1>9, <1>10
        DEF InspectNext, Upload, ReadFile, ClearCache, vars

-----------------------------------------------------------------------------
(* Theorems *)

\* No answer, kept or given, describes another payload than the one it was asked
\* for, or links to the thumbnails of another.
THEOREM AnswersNeverMixFiles == InspectSpec => []AnswersDoNotMixFiles
<1>1. InspectInv => AnswersDoNotMixFiles
  BY DEF InspectInv, AnswersAreAbout, IsAbout, Serves, AnswersDoNotMixFiles
<1> QED BY <1>1, InitInspectInv, NextInspectInv, PTL DEF InspectSpec

\* An answer that later requests are served from lacks the slots of a plate with
\* objects only after a failure of the binary on that payload, and not beyond
\* the next deletion of it or restart.
THEOREM SlotsAreMissingForAReason == InspectSpec => []SlotsMissingOnlyAfterFailure
<1>1. InspectInv => SlotsMissingOnlyAfterFailure
  BY DEF InspectInv, SlotsAreExplained, SlotsExplained, Fillable, SlotsMissingOnlyAfterFailure
<1> QED BY <1>1, InitInspectInv, NextInspectInv, PTL DEF InspectSpec

\* Every behaviour of the inspect handlers is one of the token cache, which
\* stays consistent and goes on promising that a token denotes its bytes.
THEOREM InspectKeepsCache ==
    InspectSpec => [](IndexConsistent /\ CapsRespected) /\ ImplementsStore
<1>1. InspectInit => Init
  BY DEF InspectInit
<1>2. InspectSpec => Spec
  BY <1>1, InspectStepOfCache, PTL DEF InspectSpec, Spec
<1> QED BY <1>2, AlwaysConsistent, CapsHold, CacheImplementsStore, PTL

=============================================================================
