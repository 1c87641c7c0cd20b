---------------------------- MODULE InspectService ----------------------------
(***************************************************************************)
(* GET /3mf/{token}/inspect over the token cache (inspect_3mf in           *)
(* app/main.py, InspectCache in app/inspect.py).  Handlers run on one      *)
(* asyncio loop: a handler is atomic up to its await of the use-set        *)
(* binary, and everything else may happen during that await.               *)
(* An answer is cached under the payload's hash.  What an answer says is   *)
(* reduced to what its parts were computed from: the payload it describes, *)
(* the token its thumbnail URLs spell, and the plates whose filament slots *)
(* are filled in.                                                          *)
(***************************************************************************)
EXTENDS TokenCache

CONSTANTS
    Request,        \* inspect requests that may be in flight together
    Plate,          \* plate numbers
    Plates,         \* Plates[p]: the plates an inspection of p lists
    SlicedPlates,   \* SlicedPlates[p]: those whose slots slice_info.config tells
    UseSetPlates,   \* UseSetPlates[p]: the plates use-set names, which are those
                    \* with objects on them
    MaxAnswers      \* InspectCache.MAX_ENTRIES

ASSUME InspectAssumption ==
    /\ Plates \in [Payload -> SUBSET Plate]
    /\ SlicedPlates \in [Payload -> SUBSET Plate]
    /\ UseSetPlates \in [Payload -> SUBSET Plate]
    /\ \A p \in Payload : SlicedPlates[p] \subseteq Plates[p]
    /\ MaxAnswers \in Nat \ {0}

VARIABLES
    answers,    \* InspectCache._entries: payload -> answer
    recency,    \* its keys, least recently used first
    pending,    \* requests suspended in use_set: request -> [tok, sha]
    reply,      \* the last answer each request was given: [tok, sha, answer]
    useSetLost  \* history: the payloads a use_set call has failed for since the
                \* server started and the payload was last deleted

inspectVars == <<answers, recency, pending, reply, useSetLost>>
vars == <<cacheVars, inspectVars>>

Idle(r) == r \notin DOMAIN pending

InspectInit ==
    /\ Init
    /\ answers = <<>>
    /\ recency = <<>>
    /\ pending = <<>>
    /\ reply = <<>>
    /\ useSetLost = {}

-----------------------------------------------------------------------------
(* InspectCache *)

\* put: the key becomes the newest, the oldest keys go beyond the maximum
Remember(p, a) ==
    LET q    == Append(SelectSeq(recency, LAMBDA x : x # p), p)
        over == IF Len(q) > MaxAnswers THEN Len(q) - MaxAnswers ELSE 0
    IN /\ recency' = Newest(q, over)
       /\ answers' = Without(Assign(answers, p, a), ToSet(SubSeq(q, 1, over)))

Invalidate(p) ==
    /\ recency' = SelectSeq(recency, LAMBDA x : x # p)
    /\ answers' = Without(answers, {p})

-----------------------------------------------------------------------------
(* The handler *)

\* needs_binary: a plate is listed without its slots
NeedsBinary(p) == Plates[p] # SlicedPlates[p]

\* The cached answer is returned as it stands
InspectHit(r, t) ==
    /\ Idle(r)
    /\ Path(t)
    /\ shaOf[t] \in DOMAIN answers
    /\ recency' = MoveToEnd(recency, shaOf[t])
    /\ reply' = Assign(reply, r,
          [tok |-> t, sha |-> shaOf[t], answer |-> answers[shaOf[t]]])
    /\ UNCHANGED <<answers, pending, useSetLost>>

\* The answer is cached and given; the backfill, `named` being the plates of the
\* binary's answer, leaves alone what is neither listed nor named
Respond(r, t, p, named) ==
    LET a == [describes |-> p, urlToken |-> t,
              slots |-> SlicedPlates[p] \cup (Plates[p] \cap named)]
    IN /\ Remember(p, a)
       /\ reply' = Assign(reply, r, [tok |-> t, sha |-> p, answer |-> a])

\* A sliced payload carries the slots of every plate: no await
InspectParsed(r, t) ==
    /\ Idle(r)
    /\ Path(t)
    /\ shaOf[t] \notin DOMAIN answers
    /\ ~NeedsBinary(shaOf[t])
    /\ Respond(r, t, shaOf[t], {})
    /\ UNCHANGED <<pending, useSetLost>>

\* Some plate lacks its slots: the handler has read the file and awaits use_set
InspectAwaits(r, t) ==
    /\ Idle(r)
    /\ Path(t)
    /\ shaOf[t] \notin DOMAIN answers
    /\ NeedsBinary(shaOf[t])
    /\ pending' = Assign(pending, r, [tok |-> t, sha |-> shaOf[t]])
    /\ UNCHANGED <<answers, recency, reply, useSetLost>>

\* use_set returns or raises; either way the answer, such as it is, is cached
\* under the hash read before the await, over an answer cached meanwhile
UseSetReturns(r, ok) ==
    /\ ~Idle(r)
    /\ Respond(r, pending[r].tok, pending[r].sha,
               IF ok THEN UseSetPlates[pending[r].sha] ELSE {})
    /\ pending' = Without(pending, {r})
    /\ useSetLost' = IF ok THEN useSetLost ELSE useSetLost \cup {pending[r].sha}
    /\ UNCHANGED cacheVars

-----------------------------------------------------------------------------
(* The other handlers of the token cache *)

Upload(p, t) == Put(p, t) /\ UNCHANGED inspectVars

\* download_3mf and get_plate_thumbnail
ReadFile(t) == Path(t) /\ UNCHANGED inspectVars

\* MUTANT of DeleteToken: the cached answer is not invalidated
DeleteKeepsAnswer(t) ==
    /\ Delete(t)
    /\ useSetLost' = useSetLost \ {shaOf[t]}
    /\ UNCHANGED <<answers, recency, pending, reply>>

\* delete_token also drops the cached answer
DeleteToken(t) ==
    /\ Delete(t)
    /\ Invalidate(shaOf[t])
    /\ useSetLost' = useSetLost \ {shaOf[t]}
    /\ UNCHANGED <<pending, reply>>

\* clear_cache leaves the cached answers alone
ClearCache == Clear /\ UNCHANGED inspectVars

RestartServer ==
    /\ Restart
    /\ answers' = <<>>
    /\ recency' = <<>>
    /\ pending' = <<>>
    /\ reply' = <<>>
    /\ useSetLost' = {}

InspectNext ==
    \/ \E r \in Request, t \in Token :
          \/ InspectHit(r, t)
          \/ InspectParsed(r, t)
          \/ InspectAwaits(r, t)
    \/ \E r \in Request, ok \in BOOLEAN : UseSetReturns(r, ok)
    \/ \E p \in Payload, t \in Token : Upload(p, t)
    \/ \E t \in Token : ReadFile(t) \/ DeleteToken(t)
    \/ ClearCache
    \/ RestartServer

InspectSpec == InspectInit /\ [][InspectNext]_vars

-----------------------------------------------------------------------------
(* Properties *)

\* No answer, cached or given, mixes two files: it describes the payload it is
\* kept or was asked under, and its thumbnail URLs, if they serve anything at
\* all, serve that same payload, however long ago the answer was computed.
AnswersDoNotMixFiles ==
    LET Describes(a, p) ==
            /\ a.describes = p
            /\ a.urlToken \in Live => shaOf[a.urlToken] = p
    IN /\ \A p \in DOMAIN answers : Describes(answers[p], p)
       /\ \A r \in DOMAIN reply : Describes(reply[r].answer, reply[r].sha)

\* A kept answer, from which every later request is served, lacks the slots of
\* a plate with objects only if a use-set call for that payload has failed since
\* the server started and the payload was last deleted: an answer half built
\* for one request is never kept by way of another's await, and deleting the
\* file and uploading it again gets rid of one that a failure has left.
\* (A plate without objects keeps no slots, whatever the binary answers.)
SlotsMissingOnlyAfterFailure ==
    \A p \in DOMAIN answers : \A k \in Plates[p] :
        k \in SlicedPlates[p] \cup UseSetPlates[p]
            => k \in answers[p].slots \/ p \in useSetLost

=============================================================================
