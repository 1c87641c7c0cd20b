--------------------------- MODULE BinaryProtocol ---------------------------
(***************************************************************************)
(* One call of the gateway to the orca-headless process: the methods of    *)
(* BinaryClient and run_dump_profiles on one side, main() of               *)
(* orca_headless.cpp, its modes and its signal and terminate handlers on   *)
(* the other, with the two pipes and the output file between them.         *)
(* An envelope is named by its "code", the one of a success by "ok" and    *)
(* that of a mode's own error by "fail".  An envelope fits in the stdout   *)
(* pipe; the stderr pipe fills up after PipeCap lines nobody has read.     *)
(***************************************************************************)
EXTENDS Naturals, Sequences

CONSTANTS
    PipeCap,    \* unread stderr lines before the next write blocks
    MaxNoise    \* bound of the model: lines libslic3r prints of its own accord

ASSUME ProtocolAssumption == PipeCap \in Nat \ {0} /\ MaxNoise \in Nat

VARIABLES
    call,       \* the client's method
    saved,      \* did redirect_libslic3r_stdout_pollution succeed?
    proc,       \* where the process is
    rc,         \* its return code, once it has exited
    out,        \* what it has written to the stdout pipe
    err,        \* the stderr pipe: written, not yet read
    heard,      \* stderr the client has read
    noise,      \* lines of noise so far
    file,       \* the output .3mf, or the temporary file of a dump
    client,     \* where the client's method is
    answer,     \* what the method returned or raised
    given,      \* history: the file when the answer was given
    ends        \* history: everything that ended, or cut short, the process's work

pipes == <<out, err, heard, noise>>
fixed == <<call, saved>>
vars == <<fixed, proc, rc, pipes, file, client, answer, given, ends>>

Calls == {"slice", "slice_stream", "stl_draft", "use_set", "dump_options", "dump_profiles"}
Slicing == {"slice", "slice_stream"}
Dumps == {"dump_options", "dump_profiles"}

Envelopes ==
    {"ok", "fail", "binary_fatal", "binary_terminate", "binary_signal"}
Lines == Envelopes \cup {"noise", "progress"}

Init ==
    /\ call \in Calls
    /\ saved \in BOOLEAN
    /\ proc = "reading"
    /\ rc = "none"
    /\ out = <<>>
    /\ err = <<>>
    /\ heard = <<>>
    /\ noise = 0
    /\ file = IF call \in Dumps THEN "partial" ELSE "absent"
    /\ client = IF call = "slice_stream" THEN "draining" ELSE "communicating"
    /\ answer = "none"
    /\ given = "absent"
    /\ ends = <<>>

-----------------------------------------------------------------------------
(* How the process writes *)

\* Through std::cerr or fprintf(stderr): blocks while the pipe is full
ToStderr(line) ==
    /\ Len(err) < PipeCap
    /\ err' = Append(err, line)
    /\ UNCHANGED out

\* Through the saved descriptor, or fd 1 when there is none: either way the pipe
ToProtocol(line) == out' = Append(out, line) /\ UNCHANGED err

\* Through printf or std::cout, which write to fd 1
ToStdout(line) ==
    \/ saved /\ ToStderr(line)
    \/ ~saved /\ ToProtocol(line)

\* The envelope of a mode: dump-options alone writes it with std::cout
Respond(envelope) ==
    \/ call = "dump_options" /\ ToStdout(envelope)
    \/ call # "dump_options" /\ ToProtocol(envelope)

\* emit_progress, which only run_slice_mode calls
Progress ==
    \/ call \in Slicing /\ ToStderr("progress")
    \/ call \notin Slicing /\ UNCHANGED <<out, err>>

-----------------------------------------------------------------------------
(* The process *)

Side == UNCHANGED <<fixed, heard, client, answer, given>>

Running == proc \notin {"aborting", "exited"}

Ending(e) == ends' = Append(ends, e)

ParseRequest ==
    /\ proc = "reading"
    /\ proc' = "working"
    /\ Progress
    /\ Side /\ UNCHANGED <<rc, noise, file, ends>>

\* A diagnostic of libslic3r: boost::log to stderr, a raw printf to fd 1
Noise ==
    /\ proc \in {"working", "storing", "stored", "leaving"}
    /\ noise < MaxNoise
    /\ noise' = noise + 1
    /\ ToStderr("noise") \/ ToStdout("noise")
    /\ Side /\ UNCHANGED <<proc, rc, file, ends>>

\* store_bbs_3mf begins to write, or the std::ofstream of a dump is opened
BeginStore ==
    /\ proc = "working"
    /\ call # "use_set"
    /\ proc' = "storing"
    /\ file' = "partial"
    /\ Progress
    /\ Side /\ UNCHANGED <<rc, noise, ends>>

EndStore ==
    /\ proc = "storing"
    /\ call \notin Dumps
    /\ proc' = "stored"
    /\ file' = "whole"
    /\ Progress
    /\ Side /\ UNCHANGED <<rc, noise, ends>>

\* MUTANT of Completed: a store_bbs_3mf that returned false is not noticed
CompletedUnchecked ==
    \/ call = "use_set" /\ proc = "working"
    \/ proc \in {"storing", "stored"}

\* What a mode has done before it writes its "ok".  A dump's std::ofstream
\* is flushed only when it goes out of scope, see Leave
Completed ==
    \/ call = "use_set" /\ proc = "working"
    \/ call \in Dumps /\ proc = "storing"
    \/ proc = "stored"

Succeed ==
    /\ Completed
    /\ proc' = "leaving"
    /\ rc' = "zero"
    /\ Respond("ok")
    /\ Ending("ok")
    /\ Side /\ UNCHANGED <<noise, file>>

\* fail() of a mode; a dump does not look at its stream after opening it
FailMode ==
    /\ proc = "working" \/ (proc = "storing" /\ call \notin Dumps)
    /\ proc' = "leaving"
    /\ rc' = "nonzero"
    /\ Respond("fail")
    /\ Ending("fail")
    /\ Side /\ UNCHANGED <<noise, file>>

\* An exception reaches main(): a line on stderr, then emit_fatal_envelope,
\* which the dump-options branch leaves out
Throw ==
    /\ proc \in {"reading", "working", "storing", "stored"}
    /\ proc' = "leaving"
    /\ rc' = "nonzero"
    /\ Len(err) < PipeCap
    /\ err' = Append(err, "noise")
    /\ out' = IF call = "dump_options" THEN out ELSE Append(out, "binary_fatal")
    /\ Ending("binary_fatal")
    /\ Side /\ UNCHANGED <<noise, file>>

\* The mode's locals are destroyed, then the statics, and the process exits.
\* The flush of a dump may fail, which nobody looks at
Leave ==
    /\ proc = "leaving"
    /\ proc' = "exited"
    /\ file' \in IF call \in Dumps /\ ends[1] = "ok" THEN {"partial", "whole"} ELSE {file}
    /\ Side /\ UNCHANGED <<rc, out, err, noise, ends>>

\* std::terminate: on_terminate writes an envelope and calls abort() ...
Terminate ==
    /\ Running
    /\ proc' = "aborting"
    /\ ToProtocol("binary_terminate")
    /\ Ending("binary_terminate")
    /\ Side /\ UNCHANGED <<rc, noise, file>>

\* MUTANT of SignalHandler: it does not raise the signal again
SignalHandlerReturns ==
    /\ ToProtocol("binary_signal")
    /\ Ending("binary_signal")
    /\ Side /\ UNCHANGED <<proc, rc, noise, file>>

\* MUTANT of SignalHandler: it writes to fd 1
SignalHandlerOnStdout ==
    /\ proc' = "exited"
    /\ rc' = "nonzero"
    /\ ToStdout("binary_signal")
    /\ Ending("binary_signal")
    /\ Side /\ UNCHANGED <<noise, file>>

\* fatal_signal_handler: writes an envelope and raises the signal again
SignalHandler ==
    /\ proc' = "exited"
    /\ rc' = "nonzero"
    /\ ToProtocol("binary_signal")
    /\ Ending("binary_signal")
    /\ Side /\ UNCHANGED <<noise, file>>

Signal == Running /\ SignalHandler

\* ... whose SIGABRT is a fatal signal like the others
Abort == proc = "aborting" /\ SignalHandler

\* SIGKILL from outside, the OOM killer's for one
Killed ==
    /\ proc # "exited"
    /\ proc' = "exited"
    /\ rc' = "nonzero"
    /\ Ending("killed")
    /\ Side /\ UNCHANGED <<out, err, noise, file>>

ProcWorks ==
    ParseRequest \/ BeginStore \/ EndStore \/ Succeed \/ Leave \/ Abort

ProcFails == FailMode \/ Throw \/ Terminate \/ Signal \/ Killed

-----------------------------------------------------------------------------
(* The client *)

Reader == UNCHANGED <<fixed, proc, rc, out, noise, ends>>

\* MUTANT of ReadStderr: slice_stream reads stdout to its end first
ReadStderrLater ==
    /\ client = "communicating"
    /\ err # <<>>
    /\ heard' = heard \o err
    /\ err' = <<>>
    /\ Reader /\ UNCHANGED <<file, client, answer, given>>

\* communicate() reads both pipes at once; slice_stream reads stderr to its
\* end, passing progress on, before it looks at stdout
ReadStderr ==
    /\ client \in {"communicating", "draining"}
    /\ err # <<>>
    /\ heard' = heard \o err
    /\ err' = <<>>
    /\ Reader /\ UNCHANGED <<file, client, answer, given>>

StderrEnds ==
    /\ client = "draining"
    /\ proc = "exited" /\ err = <<>>
    /\ client' = "collecting"
    /\ Reader /\ UNCHANGED <<err, heard, file, answer, given>>

OneEnvelope(s) == Len(s) = 1 /\ s[1] \in Envelopes

\* dump_options falls back to stderr when stdout is empty
Source == IF call = "dump_options" /\ out = <<>> THEN heard ELSE out

Verdict ==
    IF call = "dump_profiles" /\ rc # "zero" THEN "process_failed"
    ELSE IF rc # "zero" /\ Source = <<>> THEN "binary_crashed"
    ELSE IF ~OneEnvelope(Source) THEN "binary_bad_response"
    ELSE IF Source[1] # "ok" THEN Source[1]
    ELSE IF call \in Dumps /\ file # "whole" THEN "unreadable"
    ELSE "result"

\* A dump unlinks its temporary file whatever happened
Give(a) ==
    /\ client' = "done"
    /\ answer' = a
    /\ given' = file
    /\ file' = IF call \in Dumps THEN "absent" ELSE file

AnswerCall ==
    /\ client \in {"communicating", "collecting"}
    /\ proc = "exited" /\ err = <<>>
    /\ Give(Verdict)
    /\ Reader /\ UNCHANGED <<err, heard>>

\* asyncio.wait_for gives up and proc.kill() sends SIGKILL ...
TimeOut ==
    /\ client = "communicating"
    /\ client' = "killing"
    /\ Reader /\ UNCHANGED <<err, heard, file, answer, given>>

\* ... which reaches the process some time later, whatever it is at
Die ==
    /\ client = "killing"
    /\ proc # "exited"
    /\ proc' = "exited"
    /\ rc' = "nonzero"
    /\ Side /\ UNCHANGED <<out, err, noise, file, ends>>

\* MUTANT of Reap: the killed process is not waited for
ReapUnwaited ==
    /\ client = "killing"
    /\ Give("binary_timeout")
    /\ Reader /\ UNCHANGED <<err, heard>>

\* proc.wait() returns
Reap ==
    /\ client = "killing"
    /\ proc = "exited"
    /\ Give("binary_timeout")
    /\ Reader /\ UNCHANGED <<err, heard>>

\* The consumer of the event stream leaves; nothing stops the process
HangUp ==
    /\ client \in {"draining", "collecting"}
    /\ Give("gone")
    /\ Reader /\ UNCHANGED <<err, heard>>

ClientWorks == ReadStderr \/ StderrEnds \/ AnswerCall \/ Reap

Next == ProcWorks \/ Noise \/ ProcFails \/ ClientWorks \/ TimeOut \/ Die \/ HangUp

Spec == Init /\ [][Next]_vars

(***************************************************************************)
(* The event loop runs what is ready, its timer fires, and the kernel      *)
(* delivers a SIGKILL.  That the process gets on with its work is assumed  *)
(* for slice_stream alone, which waits without a timeout.                  *)
(***************************************************************************)
Fairness ==
    /\ WF_vars(ClientWorks)
    /\ WF_vars(TimeOut)
    /\ WF_vars(Die)
    /\ WF_vars(call = "slice_stream" /\ ProcWorks)

FairSpec == Spec /\ Fairness

-----------------------------------------------------------------------------
(* Properties *)

Answered == answer \notin {"none", "gone", "binary_timeout"}

\* Types; and the process writes at most three envelopes, its mode's or
\* main()'s, the terminate handler's and the signal handler's, because each
\* handler is the end of it.
ProtocolTypeOK ==
    /\ call \in Calls
    /\ saved \in BOOLEAN
    /\ proc \in {"reading", "working", "storing", "stored", "leaving", "aborting", "exited"}
    /\ rc \in {"none", "zero", "nonzero"}
    /\ out \in Seq(Lines) /\ heard \in Seq(Lines)
    /\ err \in Seq(Lines) /\ Len(err) <= PipeCap
    /\ noise \in 0..MaxNoise
    /\ file \in {"absent", "partial", "whole"}
    /\ given \in {"absent", "partial", "whole"}
    /\ client \in {"communicating", "draining", "collecting", "killing", "done"}
    /\ answer \in Envelopes \cup {"none", "result", "gone", "binary_timeout",
                                  "binary_crashed", "binary_bad_response",
                                  "process_failed", "unreadable"}
    /\ ends \in Seq(Envelopes \cup {"killed"}) /\ Len(ends) <= 3

\* A method reports success only of a process whose mode succeeded, with
\* nothing worse than a SIGKILL on its way out, and with the output file
\* complete: whatever crashes, whichever pipe the envelope came by.
ResultIsReal ==
    answer = "result" =>
        /\ ends \in {<<"ok">>, <<"ok", "killed">>}
        /\ call # "use_set" => given = "whole"

NameOf(e) ==
    CASE e = "ok" -> "result"
      [] e = "killed" -> "binary_crashed"
      [] OTHER -> e

\* With stdout to itself, a process that ends in one way has that way
\* reported by the client's error code: the signal handler's envelope, or
\* main()'s, gets through from any point of the work, and noise never hides it.
EndingIsNamed ==
    Answered /\ saved /\ call \notin Dumps /\ Len(ends) = 1
        => answer = NameOf(ends[1])

\* When a method returns or raises, its process has exited, after a timeout
\* too, and a dump has left no temporary file that the process could still
\* write again.
NothingOutlivesCall ==
    answer \notin {"none", "gone"} =>
        /\ proc = "exited"
        /\ call \in Dumps => file = "absent"

\* Every call comes to an end: a method with a timeout whatever the process
\* does, slice_stream as long as the process works, however much it prints.
CallEnds == <>(answer # "none")

=============================================================================
