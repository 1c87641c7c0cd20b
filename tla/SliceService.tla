----------------------------- MODULE SliceService -----------------------------
(***************************************************************************)
(* POST /slice/v2 and /slice-stream/v2 over the token cache (slice_v2 and  *)
(* slice_stream_v2 in app/main.py, slice and slice_stream of BinaryClient, *)
(* run_slice_mode of orca-headless).  Each request runs one slicer         *)
(* process; the handler is suspended while it runs, and reads the output   *)
(* file when it resumes.  The output file is named after the input token.  *)
(* The slicer's final write of the output is one step here, which is the   *)
(* kindest assumption about it.                                            *)
(***************************************************************************)
EXTENDS TokenCache

CONSTANTS
    Request,    \* the slice requests of a behaviour
    Streams,    \* those made to /slice-stream/v2
    Upload,     \* the payloads clients upload
    SliceOf     \* SliceOf[r]: what r's own options slice its input to

ASSUME SliceAssumption ==
    /\ Streams \subseteq Request
    /\ Upload \subseteq Payload
    /\ SliceOf \in [Request -> Payload]

VARIABLES
    phase,      \* request -> "new", "waiting", "answered", "failed", "gone"
    input,      \* request -> [tok, sha] of its input, once it has one
    process,    \* request -> its slicer: "none", "starting", "slicing",
                \*   "stored", "succeeded", "failed", "killed"
    output,     \* input token -> contents of its "sliced-<token>.3mf"
    answer,     \* request -> payload behind the output token it was given
    shared      \* history: the requests that had, between their start and
                \*   their answer, another process alive on their output file

sliceVars == <<phase, input, process, output, answer, shared>>
vars == <<cacheVars, sliceVars>>

Alive(r) == process[r] \in {"starting", "slicing", "stored"}

SameOutput(r, s) ==
    r \in DOMAIN input /\ s \in DOMAIN input /\ input[r].tok = input[s].tok

SliceInit ==
    /\ Init
    /\ phase = [r \in Request |-> "new"]
    /\ input = <<>>
    /\ process = [r \in Request |-> "none"]
    /\ output = <<>>
    /\ answer = <<>>
    /\ shared = {}

-----------------------------------------------------------------------------
(* The handlers, up to their await *)

\* The token resolves, the body passes its checks, the process is spawned
BeginSlice(r, t) ==
    /\ phase[r] = "new"
    /\ Path(t)
    /\ phase' = [phase EXCEPT ![r] = "waiting"]
    /\ input' = Assign(input, r, [tok |-> t, sha |-> shaOf[t]])
    /\ process' = [process EXCEPT ![r] = "starting"]
    /\ LET others == {s \in DOMAIN input \ {r} : input[s].tok = t}
       IN shared' = shared
            \cup {s \in others : phase[s] = "waiting"}
            \cup (IF \E s \in others : Alive(s) THEN {r} ELSE {})
    /\ UNCHANGED <<output, answer>>

\* An invalid filament map or an incompatible filament: the token has been
\* refreshed and nothing started
RejectSlice(r, t) ==
    /\ phase[r] = "new"
    /\ Path(t)
    /\ phase' = [phase EXCEPT ![r] = "failed"]
    /\ UNCHANGED <<input, process, output, answer, shared>>

-----------------------------------------------------------------------------
(* The slicer process *)

Becomes(r, s) ==
    /\ process' = [process EXCEPT ![r] = s]
    /\ UNCHANGED <<cacheVars, phase, input, answer, shared>>

\* It opens its input, which an eviction may have unlinked by now
LoadInput(r) ==
    /\ process[r] = "starting"
    /\ Becomes(r, IF input[r].sha \in files THEN "slicing" ELSE "failed")
    /\ UNCHANGED output

StoreOutput(r) ==
    /\ process[r] = "slicing"
    /\ Becomes(r, "stored")
    /\ output' = Assign(output, input[r].tok, SliceOf[r])

ExitOk(r) ==
    /\ process[r] = "stored"
    /\ Becomes(r, "succeeded")
    /\ UNCHANGED output

\* An error envelope, a crash, or output that is not JSON
ExitBadly(r) ==
    /\ Alive(r)
    /\ Becomes(r, "failed")
    /\ UNCHANGED output

-----------------------------------------------------------------------------
(* The handlers resume *)

\* MUTANT of AnswerSlice: the status of the process is not looked at
AnswerWhateverIsThere(r, t) ==
    /\ phase[r] = "waiting"
    /\ process[r] \in {"succeeded", "failed"}
    /\ input[r].tok \in DOMAIN output
    /\ Put(output[input[r].tok], t)
    /\ phase' = [phase EXCEPT ![r] = "answered"]
    /\ answer' = Assign(answer, r, output[input[r].tok])
    /\ UNCHANGED <<input, process, output, shared>>

\* Success: whatever the output file holds by now goes into the cache
AnswerSlice(r, t) ==
    /\ phase[r] = "waiting"
    /\ process[r] = "succeeded"
    /\ Put(output[input[r].tok], t)
    /\ phase' = [phase EXCEPT ![r] = "answered"]
    /\ answer' = Assign(answer, r, output[input[r].tok])
    /\ UNCHANGED <<input, process, output, shared>>

AnswerError(r) ==
    /\ phase[r] = "waiting"
    /\ process[r] = "failed"
    /\ phase' = [phase EXCEPT ![r] = "failed"]
    /\ UNCHANGED <<cacheVars, input, process, output, answer, shared>>

\* MUTANT of TimeOut: the process is not killed
TimeOutWithoutKill(r) ==
    /\ phase[r] = "waiting"
    /\ r \notin Streams
    /\ Alive(r)
    /\ phase' = [phase EXCEPT ![r] = "failed"]
    /\ UNCHANGED <<cacheVars, process, input, output, answer, shared>>

\* MUTANT of TimeOut: wait_for has no timeout
TimeOutNever(r) == FALSE /\ UNCHANGED vars

\* /slice/v2 kills the process and reaps it before it answers
TimeOut(r) ==
    /\ phase[r] = "waiting"
    /\ r \notin Streams
    /\ Alive(r)
    /\ process' = [process EXCEPT ![r] = "killed"]
    /\ phase' = [phase EXCEPT ![r] = "failed"]
    /\ UNCHANGED <<cacheVars, input, output, answer, shared>>

\* The client of a stream hangs up: the generator ends, the process does not
HangUp(r) ==
    /\ phase[r] = "waiting"
    /\ r \in Streams
    /\ phase' = [phase EXCEPT ![r] = "gone"]
    /\ UNCHANGED <<cacheVars, input, process, output, answer, shared>>

-----------------------------------------------------------------------------
(* The other handlers of the token cache *)

\* Bound of the model: uploads leave every request a token to be answered with
UploadFile(p, t) ==
    /\ p \in DOMAIN tokenOf \/ Cardinality(Token \ issued) > Cardinality(Request)
    /\ Put(p, t)
    /\ UNCHANGED sliceVars

DeleteToken(t) == Delete(t) /\ UNCHANGED sliceVars

ClearCache == Clear /\ UNCHANGED sliceVars

ProcessStep(r) == LoadInput(r) \/ StoreOutput(r) \/ ExitOk(r) \/ ExitBadly(r)

Resume(r) ==
    \/ \E t \in Token : AnswerSlice(r, t)
    \/ AnswerError(r)
    \/ TimeOut(r)

\* A behaviour may run out of requests and of tokens to draw
SliceNext ==
    \/ \E r \in Request :
          \/ \E t \in Token : BeginSlice(r, t) \/ RejectSlice(r, t)
          \/ ProcessStep(r)
          \/ Resume(r)
          \/ HangUp(r)
    \/ \E p \in Upload, t \in Token : UploadFile(p, t)
    \/ \E t \in Token : DeleteToken(t)
    \/ ClearCache

\* The event loop runs every callback that stays due, timers included.
\* Nothing is assumed of the slicer: it may never end.
SliceSpec ==
    /\ SliceInit
    /\ [][SliceNext]_vars
    /\ \A r \in Request : WF_vars(Resume(r))

-----------------------------------------------------------------------------
(* Properties *)

\* A request whose output file no other process could touch in the meantime is
\* answered with its own slice, even if earlier requests for the same token
\* failed, timed out or left older results in that file.
AnswerIsOwnUnlessShared ==
    \A r \in DOMAIN answer : r \notin shared => answer[r] = SliceOf[r]

\* The process of a /slice/v2 request never outlives its answer.
NoProcessOutlivesAnswer ==
    \A r \in Request \ Streams :
        Alive(r) => phase[r] = "waiting"

\* Every /slice/v2 request is answered, whatever the slicer does.
PlainSliceAnswered ==
    \A r \in Request \ Streams :
        (phase[r] = "waiting") ~> (phase[r] \in {"answered", "failed"})

\* What the echoed request fields promise: an answer carries the slice that the
\* request's own options ask for.
AnswerIsOwn == \A r \in DOMAIN answer : answer[r] = SliceOf[r]

=============================================================================
