------------------------ MODULE BinaryProtocolProofs ------------------------
(***************************************************************************)
(* Proofs about BinaryProtocol, for every size of the stderr pipe and any  *)
(* amount of noise: what the client reports is what the process did, and   *)
(* the process does not outlive the call.                                  *)
(***************************************************************************)
EXTENDS BinaryProtocol, TLAPS

Unfinished == {"reading", "working", "storing", "stored"}

Single(s, x) == Len(s) = 1 /\ s[1] = x

\* <<"ok">> or <<"ok", "killed">>
OkEnding(s) == Len(s) \in {1, 2} /\ s[1] = "ok" /\ (Len(s) = 2 => s[2] = "killed")

\* A process has ended at most as often as where it stands allows; a SIGKILL
\* is the last thing that happens to it.
EndsInv ==
    /\ proc \in Unfinished => Len(ends) = 0
    /\ proc = "leaving" => Len(ends) = 1
    /\ proc = "aborting" => Len(ends) <= 2
    /\ proc # "exited" => \A i \in 1..Len(ends) : ends[i] # "killed"
    /\ Single(ends, "killed") => rc = "nonzero"

\* An "ok" alone on the pipe the client goes by is that of a process that
\* has done nothing else since, except being killed.
OkInv ==
    /\ Single(out, "ok") => OkEnding(ends)
    /\ call = "dump_options" /\ Len(out) = 0 /\ Single(heard \o err, "ok") => OkEnding(ends)

\* With stdout to itself, stdout holds what the first ending wrote.
NamedInv ==
    saved /\ call \notin Dumps =>
        /\ Len(ends) = 0 => Len(out) = 0
        /\ Len(ends) = 1 =>
              IF ends[1] = "killed" THEN Len(out) = 0 ELSE Single(out, ends[1])

\* The output of a mode that says "ok" is complete.
FileInv ==
    call \notin Dumps \cup {"use_set"} =>
        /\ proc = "stored" => file = "whole"
        /\ OkEnding(ends) => file = "whole"

\* The client answers once, when the process is gone.
ClientInv ==
    /\ answer = "none" <=> client # "done"
    /\ client = "collecting" => proc = "exited" /\ Len(err) = 0

ProcInv == EndsInv /\ OkInv /\ NamedInv /\ FileInv

IInv ==
    /\ ProtocolTypeOK /\ ProcInv /\ ClientInv
    /\ ResultIsReal /\ EndingIsNamed /\ NothingOutlivesCall

-----------------------------------------------------------------------------

\* The endings ResultIsReal names are the ones the invariant speaks of.
LEMMA OkEndings ==
    ASSUME NEW S, NEW s \in Seq(S), OkEnding(s)
    PROVE  s \in {<<"ok">>, <<"ok", "killed">>}
  BY DEF OkEnding

\* What is a success with a SIGKILL on top was a success before it.
LEMMA KilledEnding ==
    ASSUME NEW S, NEW s \in Seq(S), NEW t, t = Append(s, "killed"), OkEnding(t)
    PROVE  OkEnding(s)
<1>1. Len(t) = Len(s) + 1 /\ Len(s) \in Nat
  OBVIOUS
<1>2. t[Len(s) + 1] = "killed" /\ \A i \in 1..Len(s) : t[i] = s[i]
  OBVIOUS
<1>3. Len(s) + 1 \in {1, 2}
  BY <1>1 DEF OkEnding
<1>4. Len(s) # 0
  <2>1. Len(s) = 0 => t[1] = "killed"
    BY <1>2
  <2> QED BY <2>1 DEF OkEnding
<1>5. Len(s) = 1
  <2>1. \A n \in Nat : n + 1 \in {1, 2} /\ n # 0 => n = 1
    OBVIOUS
  <2> QED BY ONLY <2>1, <1>1, <1>3, <1>4
<1>6. s[1] = "ok"
  BY <1>2, <1>5 DEF OkEnding
<1> QED BY <1>5, <1>6 DEF OkEnding

\* A verdict is one of the answers a method can give.
LEMMA VerdictType ==
    ASSUME ProtocolTypeOK
    PROVE  Verdict \in Envelopes \cup {"result", "binary_crashed", "binary_bad_response",
                                       "process_failed", "unreadable"}
<1>1. CASE ~OneEnvelope(Source)
  BY <1>1 DEF Verdict
<1>2. CASE OneEnvelope(Source)
  <2>1. Source[1] \in Envelopes
    BY <1>2 DEF OneEnvelope
  <2> QED BY <1>2, <2>1 DEF Verdict
<1> QED BY <1>1, <1>2

-----------------------------------------------------------------------------
(* Types *)

PipesOK ==
    /\ out \in Seq(Lines)
    /\ err \in Seq(Lines) /\ Len(err) <= PipeCap

\* However a line is written, the pipes stay what they are.
LEMMA LineWritten ==
    ASSUME ProtocolTypeOK, NEW line \in Lines,
           ToStderr(line) \/ ToProtocol(line) \/ ToStdout(line) \/ Respond(line)
    PROVE  PipesOK'
<1>1. ToStderr(line) \/ ToProtocol(line)
  BY DEF ToStdout, Respond
<1>2. CASE ToStderr(line)
  BY <1>2, ProtocolAssumption DEF ToStderr, ProtocolTypeOK, PipesOK
<1>3. CASE ToProtocol(line)
  BY <1>3 DEF ToProtocol, ProtocolTypeOK, PipesOK
<1> QED BY <1>1, <1>2, <1>3

\* A progress line leaves the pipes what they are.
LEMMA ProgressWritten ==
    ASSUME ProtocolTypeOK, Progress
    PROVE  PipesOK'
<1>1. "progress" \in Lines
  BY DEF Lines
<1> QED BY <1>1, LineWritten DEF Progress, ProtocolTypeOK, PipesOK

\* Every step of the call keeps the types and the capacity of stderr.
LEMMA TypeStep == IInv /\ [Next]_vars => ProtocolTypeOK'
<1> SUFFICES ASSUME IInv, [Next]_vars PROVE ProtocolTypeOK'
  OBVIOUS
<1> USE DEF IInv, ProtocolTypeOK, ProcInv, EndsInv, Unfinished, Lines, Envelopes,
            Side, Reader, Ending, fixed
<1>1. CASE ParseRequest
  BY <1>1, ProgressWritten DEF ParseRequest, PipesOK
<1>2. CASE BeginStore
  BY <1>2, ProgressWritten DEF BeginStore, PipesOK
<1>3. CASE EndStore
  BY <1>3, ProgressWritten DEF EndStore, PipesOK
<1>4. CASE Succeed
  <2>1. PipesOK'
    BY <1>4, LineWritten DEF Succeed
  <2> QED BY <1>4, <2>1 DEF Succeed, Completed, PipesOK
<1>5. CASE Leave
  BY <1>5 DEF Leave
<1>6. CASE Abort
  BY <1>6 DEF Abort, SignalHandler, ToProtocol
<1>7. CASE Noise
  <2>1. PipesOK'
    BY <1>7, LineWritten DEF Noise
  <2> QED BY <1>7, <2>1, ProtocolAssumption DEF Noise, PipesOK
<1>8. CASE FailMode
  <2>1. PipesOK'
    BY <1>8, LineWritten DEF FailMode
  <2> QED BY <1>8, <2>1 DEF FailMode, PipesOK
<1>9. CASE Throw
  BY <1>9, ProtocolAssumption DEF Throw
<1>10. CASE Terminate
  BY <1>10 DEF Terminate, Running, ToProtocol
<1>11. CASE Signal
  BY <1>11 DEF Signal, Running, SignalHandler, ToProtocol
<1>12. CASE Killed
  BY <1>12 DEF Killed
<1>13. CASE ReadStderr
  BY <1>13, ProtocolAssumption DEF ReadStderr
<1>14. CASE StderrEnds
  BY <1>14 DEF StderrEnds
<1>15. CASE AnswerCall
  BY <1>15, VerdictType DEF AnswerCall, Give
<1>16. CASE Reap
  BY <1>16 DEF Reap, Give
<1>17. CASE TimeOut
  BY <1>17 DEF TimeOut
<1>18. CASE Die
  BY <1>18 DEF Die
<1>19. CASE HangUp
  BY <1>19 DEF HangUp, Give
<1>20. CASE UNCHANGED vars
  BY <1>20 DEF vars, pipes
<1> QED
  BY <1>1, <1>2, <1>3, <1>4, <1>5, <1>6, <1>7, <1>8, <1>9, <1>10, <1>11, <1>12,
     <1>13, <1>14, <1>15, <1>16, <1>17, <1>18, <1>19, <1>20
  DEF Next, ProcWorks, ProcFails, ClientWorks


\* A process ends as often as its state says.
LEMMA EndsStep == IInv /\ [Next]_vars => EndsInv'
<1> SUFFICES ASSUME IInv, [Next]_vars PROVE EndsInv'
  OBVIOUS
<1> USE DEF IInv, ProtocolTypeOK, ProcInv, EndsInv, Unfinished, Single,
            Side, Reader, Ending, fixed
<1>1. CASE ParseRequest
  BY <1>1 DEF ParseRequest
<1>2. CASE BeginStore
  BY <1>2 DEF BeginStore
<1>3. CASE EndStore
  BY <1>3 DEF EndStore
<1>4. CASE Succeed
  BY <1>4 DEF Succeed, Completed
<1>5. CASE Leave
  BY <1>5 DEF Leave
<1>6. CASE Abort
  BY <1>6 DEF Abort, SignalHandler
<1>7. CASE Noise
  BY <1>7 DEF Noise
<1>8. CASE FailMode
  BY <1>8 DEF FailMode
<1>9. CASE Throw
  BY <1>9 DEF Throw
<1>10. CASE Terminate
  BY <1>10 DEF Terminate, Running
<1>11. CASE Signal
  BY <1>11 DEF Signal, Running, SignalHandler
<1>12. CASE Killed
  BY <1>12 DEF Killed
<1>13. CASE ReadStderr
  BY <1>13 DEF ReadStderr
<1>14. CASE StderrEnds
  BY <1>14 DEF StderrEnds
<1>15. CASE AnswerCall
  BY <1>15 DEF AnswerCall, Give
<1>16. CASE Reap
  BY <1>16 DEF Reap, Give
<1>17. CASE TimeOut
  BY <1>17 DEF TimeOut
<1>18. CASE Die
  BY <1>18 DEF Die
<1>19. CASE HangUp
  BY <1>19 DEF HangUp, Give
<1>20. CASE UNCHANGED vars
  BY <1>20 DEF vars, pipes
<1> QED
  BY <1>1, <1>2, <1>3, <1>4, <1>5, <1>6, <1>7, <1>8, <1>9, <1>10, <1>11, <1>12,
     <1>13, <1>14, <1>15, <1>16, <1>17, <1>18, <1>19, <1>20
  DEF Next, ProcWorks, ProcFails, ClientWorks

\* Only a client with a dead process collects or answers.
LEMMA ClientStep == IInv /\ [Next]_vars => ClientInv'
<1> SUFFICES ASSUME IInv, [Next]_vars PROVE ClientInv'
  OBVIOUS
<1> USE DEF IInv, ProtocolTypeOK, ClientInv, Side, Reader, fixed
<1>1. CASE ParseRequest
  BY <1>1 DEF ParseRequest
<1>2. CASE BeginStore
  BY <1>2 DEF BeginStore
<1>3. CASE EndStore
  BY <1>3 DEF EndStore
<1>4. CASE Succeed
  BY <1>4 DEF Succeed, Completed
<1>5. CASE Leave
  BY <1>5 DEF Leave
<1>6. CASE Abort
  BY <1>6 DEF Abort, SignalHandler
<1>7. CASE Noise
  BY <1>7 DEF Noise
<1>8. CASE FailMode
  BY <1>8 DEF FailMode
<1>9. CASE Throw
  BY <1>9 DEF Throw
<1>10. CASE Terminate
  BY <1>10 DEF Terminate, Running
<1>11. CASE Signal
  BY <1>11 DEF Signal, Running, SignalHandler
<1>12. CASE Killed
  BY <1>12 DEF Killed
<1>13. CASE ReadStderr
  BY <1>13 DEF ReadStderr
<1>14. CASE StderrEnds
  BY <1>14 DEF StderrEnds
<1>15. CASE AnswerCall
  BY <1>15, VerdictType DEF AnswerCall, Give, Envelopes
<1>16. CASE Reap
  BY <1>16 DEF Reap, Give
<1>17. CASE TimeOut
  BY <1>17 DEF TimeOut
<1>18. CASE Die
  BY <1>18 DEF Die
<1>19. CASE HangUp
  BY <1>19 DEF HangUp, Give
<1>20. CASE UNCHANGED vars
  BY <1>20 DEF vars, pipes
<1> QED
  BY <1>1, <1>2, <1>3, <1>4, <1>5, <1>6, <1>7, <1>8, <1>9, <1>10, <1>11, <1>12,
     <1>13, <1>14, <1>15, <1>16, <1>17, <1>18, <1>19, <1>20
  DEF Next, ProcWorks, ProcFails, ClientWorks

\* The file of a successful mode stays whole.
LEMMA FileStep == IInv /\ [Next]_vars => FileInv'
<1> SUFFICES ASSUME IInv, [Next]_vars PROVE FileInv'
  OBVIOUS
<1> USE DEF IInv, ProtocolTypeOK, ProcInv, EndsInv, FileInv, Unfinished, OkEnding,
            Side, Reader, Ending, fixed, Calls, Dumps
<1>1. CASE ParseRequest
  BY <1>1 DEF ParseRequest
<1>2. CASE BeginStore
  BY <1>2 DEF BeginStore
<1>3. CASE EndStore
  BY <1>3 DEF EndStore
<1>4. CASE Succeed
  BY <1>4 DEF Succeed, Completed
<1>5. CASE Leave
  BY <1>5 DEF Leave
<1>6. CASE Abort
  BY <1>6 DEF Abort, SignalHandler
<1>7. CASE Noise
  BY <1>7 DEF Noise
<1>8. CASE FailMode
  BY <1>8 DEF FailMode
<1>9. CASE Throw
  BY <1>9 DEF Throw
<1>10. CASE Terminate
  BY <1>10 DEF Terminate, Running
<1>11. CASE Signal
  BY <1>11 DEF Signal, Running, SignalHandler
<1>12. CASE Killed
  <2>1. ends' = Append(ends, "killed")
    BY <1>12 DEF Killed
  <2>2. OkEnding(ends') => OkEnding(ends)
    BY ONLY <2>1, KilledEnding, ProtocolTypeOK DEF ProtocolTypeOK
  <2> QED BY <1>12, <2>2 DEF Killed
<1>13. CASE ReadStderr
  BY <1>13 DEF ReadStderr
<1>14. CASE StderrEnds
  BY <1>14 DEF StderrEnds
<1>15. CASE AnswerCall
  BY <1>15 DEF AnswerCall, Give
<1>16. CASE Reap
  BY <1>16 DEF Reap, Give
<1>17. CASE TimeOut
  BY <1>17 DEF TimeOut
<1>18. CASE Die
  BY <1>18 DEF Die
<1>19. CASE HangUp
  BY <1>19 DEF HangUp, Give
<1>20. CASE UNCHANGED vars
  BY <1>20 DEF vars, pipes
<1> QED
  BY <1>1, <1>2, <1>3, <1>4, <1>5, <1>6, <1>7, <1>8, <1>9, <1>10, <1>11, <1>12,
     <1>13, <1>14, <1>15, <1>16, <1>17, <1>18, <1>19, <1>20
  DEF Next, ProcWorks, ProcFails, ClientWorks


\* The first ending is what stdout holds.
LEMMA NamedStep == IInv /\ [Next]_vars => NamedInv'
<1> SUFFICES ASSUME IInv, [Next]_vars PROVE NamedInv'
  OBVIOUS
<1> USE DEF IInv, ProtocolTypeOK, ProcInv, EndsInv, NamedInv, Unfinished, Single,
            Side, Reader, Ending, fixed, Dumps
<1>1. CASE ParseRequest
  BY <1>1 DEF ParseRequest, Progress, ToStderr
<1>2. CASE BeginStore
  BY <1>2 DEF BeginStore, Progress, ToStderr
<1>3. CASE EndStore
  BY <1>3 DEF EndStore, Progress, ToStderr
<1>4. CASE Succeed
  <2> SUFFICES ASSUME saved, call \notin Dumps PROVE Single(out', ends'[1]) /\ ends'[1] # "killed"
    BY <1>4 DEF Succeed, Completed
  <2>1. Len(ends) = 0 /\ Len(out) = 0
    BY <1>4 DEF Succeed, Completed
  <2>2. out' = Append(out, "ok") /\ ends' = Append(ends, "ok")
    BY <1>4 DEF Succeed, Respond, ToProtocol
  <2> QED BY <2>1, <2>2
<1>5. CASE Leave
  BY <1>5 DEF Leave
<1>6. CASE Abort
  BY <1>6 DEF Abort, SignalHandler, ToProtocol
<1>7. CASE Noise
  BY <1>7 DEF Noise, ToStdout, ToStderr, ToProtocol
<1>8. CASE FailMode
  <2> SUFFICES ASSUME saved, call \notin Dumps PROVE Single(out', ends'[1]) /\ ends'[1] # "killed"
    BY <1>8 DEF FailMode
  <2>1. Len(ends) = 0 /\ Len(out) = 0
    BY <1>8 DEF FailMode
  <2>2. out' = Append(out, "fail") /\ ends' = Append(ends, "fail")
    BY <1>8 DEF FailMode, Respond, ToProtocol
  <2> QED BY <2>1, <2>2
<1>9. CASE Throw
  BY <1>9 DEF Throw
<1>10. CASE Terminate
  BY <1>10 DEF Terminate, Running, ToProtocol
<1>11. CASE Signal
  BY <1>11 DEF Signal, Running, SignalHandler, ToProtocol
<1>12. CASE Killed
  BY <1>12 DEF Killed
<1>13. CASE ReadStderr
  BY <1>13 DEF ReadStderr
<1>14. CASE StderrEnds
  BY <1>14 DEF StderrEnds
<1>15. CASE AnswerCall
  BY <1>15 DEF AnswerCall, Give
<1>16. CASE Reap
  BY <1>16 DEF Reap, Give
<1>17. CASE TimeOut
  BY <1>17 DEF TimeOut
<1>18. CASE Die
  BY <1>18 DEF Die
<1>19. CASE HangUp
  BY <1>19 DEF HangUp, Give
<1>20. CASE UNCHANGED vars
  BY <1>20 DEF vars, pipes
<1> QED
  BY <1>1, <1>2, <1>3, <1>4, <1>5, <1>6, <1>7, <1>8, <1>9, <1>10, <1>11, <1>12,
     <1>13, <1>14, <1>15, <1>16, <1>17, <1>18, <1>19, <1>20
  DEF Next, ProcWorks, ProcFails, ClientWorks

\* Only a process that said so leaves a lone "ok" behind.
LEMMA OkStep == IInv /\ [Next]_vars => OkInv'
<1> SUFFICES ASSUME IInv, [Next]_vars PROVE OkInv'
  OBVIOUS
<1> USE DEF IInv, ProtocolTypeOK, ProcInv, EndsInv, OkInv, Unfinished, Single, OkEnding,
            Side, Reader, Ending, fixed
<1>1. CASE ParseRequest
  BY <1>1 DEF ParseRequest, Progress, ToStderr
<1>2. CASE BeginStore
  BY <1>2 DEF BeginStore, Progress, ToStderr
<1>3. CASE EndStore
  BY <1>3 DEF EndStore, Progress, ToStderr
<1>4. CASE Succeed
  BY <1>4 DEF Succeed, Completed, Respond, ToStdout, ToStderr, ToProtocol
<1>5. CASE Leave
  BY <1>5 DEF Leave
<1>6. CASE Abort
  BY <1>6 DEF Abort, SignalHandler, ToProtocol
<1>7. CASE Noise
  BY <1>7 DEF Noise, ToStdout, ToStderr, ToProtocol
<1>8. CASE FailMode
  BY <1>8 DEF FailMode, Respond, ToStdout, ToStderr, ToProtocol
<1>9. CASE Throw
  BY <1>9 DEF Throw
<1>10. CASE Terminate
  BY <1>10 DEF Terminate, Running, ToProtocol
<1>11. CASE Signal
  BY <1>11 DEF Signal, Running, SignalHandler, ToProtocol
<1>12. CASE Killed
  BY <1>12 DEF Killed
<1>13. CASE ReadStderr
  BY <1>13 DEF ReadStderr
<1>14. CASE StderrEnds
  BY <1>14 DEF StderrEnds
<1>15. CASE AnswerCall
  BY <1>15 DEF AnswerCall, Give
<1>16. CASE Reap
  BY <1>16 DEF Reap, Give
<1>17. CASE TimeOut
  BY <1>17 DEF TimeOut
<1>18. CASE Die
  BY <1>18 DEF Die
<1>19. CASE HangUp
  BY <1>19 DEF HangUp, Give
<1>20. CASE UNCHANGED vars
  BY <1>20 DEF vars, pipes
<1> QED
  BY <1>1, <1>2, <1>3, <1>4, <1>5, <1>6, <1>7, <1>8, <1>9, <1>10, <1>11, <1>12,
     <1>13, <1>14, <1>15, <1>16, <1>17, <1>18, <1>19, <1>20
  DEF Next, ProcWorks, ProcFails, ClientWorks

-----------------------------------------------------------------------------
(* The answer *)

\* Once a method has returned or raised, nothing happens any more.
LEMMA AnsweredIsStill ==
    ASSUME IInv, [Next]_vars, answer \notin {"none", "gone"}
    PROVE  UNCHANGED vars
<1>1. client = "done" /\ proc = "exited"
  BY DEF IInv, ClientInv, NothingOutlivesCall
<1>2. ~(ProcWorks \/ Noise \/ ProcFails \/ Die)
  BY <1>1 DEF ProcWorks, ParseRequest, BeginStore, EndStore, Succeed, Completed, Leave,
              Abort, Noise, ProcFails, FailMode, Throw, Terminate, Signal, Running,
              Killed, Die
<1>3. ~(ClientWorks \/ TimeOut \/ HangUp)
  BY <1>1 DEF ClientWorks, ReadStderr, StderrEnds, AnswerCall, Reap, TimeOut, HangUp
<1> QED BY <1>2, <1>3 DEF Next

\* The answer changes in three actions.
LEMMA WhoAnswers ==
    ASSUME [Next]_vars
    PROVE  answer' = answer \/ AnswerCall \/ Reap \/ HangUp
<1>1. CASE ProcWorks
  BY <1>1 DEF ProcWorks, ParseRequest, BeginStore, EndStore, Succeed, Leave, Abort,
              SignalHandler, Side
<1>2. CASE Noise \/ ProcFails \/ Die
  BY <1>2 DEF Noise, ProcFails, FailMode, Throw, Terminate, Signal, SignalHandler,
              Killed, Die, Side
<1>3. CASE ReadStderr \/ StderrEnds \/ TimeOut
  BY <1>3 DEF ReadStderr, StderrEnds, TimeOut
<1>4. CASE UNCHANGED vars
  BY <1>4 DEF vars
<1> QED BY <1>1, <1>2, <1>3, <1>4 DEF Next, ClientWorks

\* When AnswerCall runs, the process is gone and the client has all it wrote.
LEMMA AnswerTime ==
    ASSUME IInv, AnswerCall
    PROVE  /\ proc = "exited" /\ proc' = "exited" /\ err = <<>>
           /\ answer' = Verdict /\ given' = file
           /\ ends' = ends /\ call' = call /\ saved' = saved
           /\ call \in Dumps => file' = "absent"
  BY DEF AnswerCall, Give, Reader, fixed

\* An answer "result" rests on one "ok" on the pipe the client goes by.
LEMMA ResultVerdict ==
    ASSUME IInv, err = <<>>, Verdict = "result"
    PROVE  OkEnding(ends) /\ (call \in Dumps => file = "whole")
<1>1. Single(Source, "ok") /\ (call \in Dumps => file = "whole")
  <2>1. OneEnvelope(Source)
    BY DEF Verdict
  <2>2. Source[1] = "ok"
    <3>1. Source[1] \in Envelopes
      BY <2>1 DEF OneEnvelope
    <3> QED BY <2>1, <3>1 DEF Verdict, Envelopes
  <2> QED BY <2>1, <2>2 DEF OneEnvelope, Single, Verdict
<1>2. CASE call = "dump_options" /\ out = <<>>
  <2>1. heard \o err = heard
    BY DEF IInv, ProtocolTypeOK
  <2> QED BY <1>1, <1>2, <2>1 DEF Source, IInv, ProcInv, OkInv
<1>3. CASE ~(call = "dump_options" /\ out = <<>>)
  BY <1>1, <1>3 DEF Source, IInv, ProcInv, OkInv
<1> QED BY <1>2, <1>3

\* A step reports a result only of a process that was done with its file.
LEMMA ResultStep == IInv /\ [Next]_vars => ResultIsReal'
<1> SUFFICES ASSUME IInv, [Next]_vars PROVE ResultIsReal'
  OBVIOUS
<1>1. CASE AnswerCall
  <2> SUFFICES ASSUME Verdict = "result"
               PROVE  /\ ends \in {<<"ok">>, <<"ok", "killed">>}
                      /\ call # "use_set" => file = "whole"
    BY <1>1, AnswerTime DEF ResultIsReal
  <2>1. OkEnding(ends) /\ (call \in Dumps => file = "whole")
    BY <1>1, AnswerTime, ResultVerdict
  <2>2. ends \in {<<"ok">>, <<"ok", "killed">>}
    BY <2>1, OkEndings DEF IInv, ProtocolTypeOK
  <2>3. call # "use_set" => file = "whole"
    BY <2>1 DEF IInv, ProcInv, FileInv
  <2> QED BY <2>2, <2>3
<1>2. CASE Reap \/ HangUp
  BY <1>2 DEF Reap, HangUp, Give, ResultIsReal
<1>3. CASE answer' = answer
  <2>1. CASE answer \in {"none", "gone"}
    BY <1>3, <2>1 DEF ResultIsReal
  <2>2. CASE answer \notin {"none", "gone"}
    BY <2>2, AnsweredIsStill DEF IInv, ResultIsReal, vars, fixed
  <2> QED BY <2>1, <2>2
<1> QED BY <1>1, <1>2, <1>3, WhoAnswers

\* A step answers the caller only once the process is gone.
LEMMA OutlivesStep == IInv /\ [Next]_vars => NothingOutlivesCall'
<1> SUFFICES ASSUME IInv, [Next]_vars PROVE NothingOutlivesCall'
  OBVIOUS
<1>1. CASE AnswerCall
  BY <1>1, AnswerTime DEF NothingOutlivesCall
<1>2. CASE Reap
  BY <1>2 DEF Reap, Give, Reader, fixed, NothingOutlivesCall
<1>3. CASE HangUp
  BY <1>3 DEF HangUp, Give, NothingOutlivesCall
<1>4. CASE answer' = answer
  <2>1. CASE answer \in {"none", "gone"}
    BY <1>4, <2>1 DEF NothingOutlivesCall
  <2>2. CASE answer \notin {"none", "gone"}
    BY <2>2, AnsweredIsStill DEF IInv, NothingOutlivesCall, vars, fixed
  <2> QED BY <2>1, <2>2
<1> QED BY <1>1, <1>2, <1>3, <1>4, WhoAnswers

\* What a client makes of a process that has ended in one way.
LEMMA NamedVerdict ==
    ASSUME IInv, saved, call \notin Dumps, Len(ends) = 1
    PROVE  Verdict = NameOf(ends[1])
<1>1. ends[1] \in Envelopes \cup {"killed"}
  <2>1. ends \in Seq(Envelopes \cup {"killed"})
    BY DEF IInv, ProtocolTypeOK
  <2>2. \A T : \A s \in Seq(T) : Len(s) = 1 => s[1] \in T
    OBVIOUS
  <2> QED BY <2>1, <2>2
<1>2. Source = out
  BY DEF Source, Dumps
<1>3. call # "dump_profiles"
  BY DEF Dumps
<1>4. CASE ends[1] = "killed"
  <2>1. out = <<>>
    BY <1>4 DEF IInv, ProcInv, NamedInv, ProtocolTypeOK
  <2>2. rc = "nonzero"
    BY <1>4 DEF IInv, ProcInv, EndsInv, Single
  <2> QED BY <1>2, <1>3, <1>4, <2>1, <2>2 DEF Verdict, NameOf
<1>5. CASE ends[1] # "killed"
  <2>1. Len(out) = 1 /\ out[1] = ends[1]
    BY <1>5 DEF IInv, ProcInv, NamedInv, Single
  <2>2. OneEnvelope(Source) /\ Source # <<>>
    BY <1>1, <1>2, <1>5, <2>1 DEF OneEnvelope
  <2>3. Verdict = IF ends[1] # "ok" THEN ends[1] ELSE "result"
    BY <1>2, <1>3, <2>1, <2>2 DEF Verdict
  <2> QED BY <1>5, <2>3 DEF NameOf
<1> QED BY <1>4, <1>5

\* A step names a failure after the process's own first ending.
LEMMA NamingStep == IInv /\ [Next]_vars => EndingIsNamed'
<1> SUFFICES ASSUME IInv, [Next]_vars PROVE EndingIsNamed'
  OBVIOUS
<1>1. CASE AnswerCall
  BY <1>1, AnswerTime, NamedVerdict DEF EndingIsNamed, NameOf
<1>2. CASE Reap \/ HangUp
  BY <1>2 DEF Reap, HangUp, Give, EndingIsNamed, Answered
<1>3. CASE answer' = answer
  <2>1. CASE answer \in {"none", "gone"}
    BY <1>3, <2>1 DEF EndingIsNamed, Answered
  <2>2. CASE answer \notin {"none", "gone"}
    BY <2>2, AnsweredIsStill DEF IInv, EndingIsNamed, Answered, NameOf, vars, fixed
  <2> QED BY <2>1, <2>2
<1> QED BY <1>1, <1>2, <1>3, WhoAnswers

-----------------------------------------------------------------------------
(* The theorems *)

\* A call begins with the invariant.
LEMMA InitInv == Init => IInv
<1> SUFFICES ASSUME Init PROVE IInv
  OBVIOUS
<1>1. ProtocolTypeOK
  BY ProtocolAssumption DEF Init, ProtocolTypeOK
<1>2. ProcInv
  BY DEF Init, ProcInv, EndsInv, OkInv, NamedInv, FileInv, Unfinished, Single, OkEnding
<1>3. ClientInv
  BY DEF Init, ClientInv
<1>4. ResultIsReal /\ EndingIsNamed /\ NothingOutlivesCall
  BY DEF Init, ResultIsReal, EndingIsNamed, Answered, NothingOutlivesCall
<1> QED BY <1>1, <1>2, <1>3, <1>4 DEF IInv

\* The invariant holds throughout a call.
LEMMA Invariance == Spec => []IInv
<1>1. IInv /\ [Next]_vars => IInv'
  BY TypeStep, EndsStep, OkStep, NamedStep, FileStep, ClientStep, ResultStep,
     OutlivesStep, NamingStep DEF IInv, ProcInv
<1> QED BY InitInv, <1>1, PTL DEF Spec

\* Every variable keeps its type and the stderr pipe its capacity; no process
\* of the binary writes more than three envelopes (orca_headless.cpp:63-198).
THEOREM ProtocolTypes == Spec => []ProtocolTypeOK
<1>1. IInv => ProtocolTypeOK
  BY DEF IInv
<1> QED BY Invariance, <1>1, PTL

\* A method of BinaryClient, or run_dump_profiles, returns a result only of a
\* process that did its work and whose file is complete.
THEOREM ResultsAreReal == Spec => []ResultIsReal
<1>1. IInv => ResultIsReal
  BY DEF IInv
<1> QED BY Invariance, <1>1, PTL

\* A process that ends in one way is reported by that way's code, however
\* much libslic3r prints and wherever the process stood.
THEOREM EndingsAreNamed == Spec => []EndingIsNamed
<1>1. IInv => EndingIsNamed
  BY DEF IInv
<1> QED BY Invariance, <1>1, PTL

\* When a method of BinaryClient has returned or raised, no process of it
\* runs, and no temporary file of a dump is left.
THEOREM NoProcessLeft == Spec => []NothingOutlivesCall
<1>1. IInv => NothingOutlivesCall
  BY DEF IInv
<1> QED BY Invariance, <1>1, PTL

=============================================================================
