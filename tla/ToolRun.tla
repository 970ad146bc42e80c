------------------------------ MODULE ToolRun ------------------------------
(***************************************************************************)
(* One `cincan run`, `cincan test` or `cincan shell` in cincan/frontend.py *)
(* from the moment ToolImage.__run has resolved its arguments: the shell   *)
(* probe, the tool container with its upload, its execution, the download  *)
(* of the results, the `finally` clean-up and the exit code of the process.*)
(*                                                                         *)
(* `pc` names the call that the client is about to make.  Every call that  *)
(* leaves the process (Docker API, file system, terminal) is one action    *)
(* for its success and one for its failure; Ctrl-C can come between any    *)
(* two of them, and the tool runs and ends on its own.  What the streams   *)
(* carry is in ExecStream, what a download writes in ResultFetch.          *)
(***************************************************************************)
EXTENDS Naturals

CONSTANTS
    NumShells,      \* length of config.default_shells, the user's included
    MaxPresses,     \* how often the user presses Ctrl-C (bound)
    Faults          \* the sites whose calls may fail

\* The sites, by the handlers that surround them in __run.
Probing == {"probe", "look", "unprobe"}
Outside == Probing \cup {"create", "upload"}
Guarded == {"setraw", "attach", "start", "startwait", "loop", "wait",
            "record", "download"}
Finally == {"kill", "commit", "remove", "rmimage"}
Closing == {"report", "close"}
Sites   == Outside \cup Guarded \cup {"rescue"} \cup Finally \cup Closing

ASSUME ParamAssumption ==
    /\ NumShells \in Nat
    /\ MaxPresses \in Nat
    /\ Faults \subseteq Sites

VARIABLES
    opt,        \* the command line, and what kind of stdin there is
    pc,         \* the call the client is about to make
    probe,      \* which shell path _detect_shell tries
    box,        \* Docker's containers: 0 is the tool's, the others are probes
    toolExit,   \* how the tool ended, as Docker knows it
    image,      \* the tool image in Docker
    newImage,   \* has the container been committed to an image?
    term,       \* mode of the terminal on stdin
    log,        \* the CommandLog object of this run
    written,    \* has CommandLogWriter written the entry?
    exc,        \* is an exception on its way out of __run?
    trouble,    \* the sites where a call failed or was interrupted (history)
    presses,    \* the number of Ctrl-C so far
    status      \* exit code of the cincan process

flow   == <<pc, exc, trouble, status>>
docker == <<box, toolExit, image, newImage>>
local  == <<probe, term, log, written>>
vars   == <<opt, pc, probe, box, toolExit, image, newImage, term, log,
            written, exc, trouble, presses, status>>

\* Without terminal, stdin is a pipe or a file.  `cincan shell` sets tty and
\* stdin; createImage and log are the flag and the configured command log.
Options ==
    {o \in [shell: BOOLEAN, tty: BOOLEAN, stdin: BOOLEAN, terminal: BOOLEAN,
            loaded: BOOLEAN, createImage: BOOLEAN, log: BOOLEAN] :
        o.shell => o.tty /\ o.stdin}

Logs == [exit: {"zero", "nonzero"}, ins: BOOLEAN, outs: BOOLEAN]

Boxes == 0..NumShells

\* A CommandLog starts with exit code 0 and no files.
Init ==
    /\ opt \in Options
    /\ pc = IF opt.shell THEN "probe" ELSE "create"
    /\ probe = 1
    /\ box = [i \in Boxes |-> "absent"]
    /\ toolExit = "none"
    /\ image = "present"
    /\ newImage = FALSE
    /\ term = "cooked"
    /\ log = [exit |-> "zero", ins |-> FALSE, outs |-> FALSE]
    /\ written = FALSE
    /\ exc = FALSE
    /\ trouble = {}
    /\ presses = 0
    /\ status = "open"

----------------------------------------------------------------------------
(* Control flow *)

Goto(s) ==
    /\ pc' = s
    /\ UNCHANGED <<exc, trouble, status>>

\* A caught error: noted in the history, the client goes on.
Caught(at, s) ==
    /\ pc' = s
    /\ trouble' = trouble \cup {at}
    /\ UNCHANGED <<exc, status>>

Exit(code) ==
    /\ pc' = "exited"
    /\ status' = code

\* (fault) an error before the tool has ended skips the `finally`
ThrowSkipsFinally(at) ==
    /\ exc' = TRUE
    /\ trouble' = trouble \cup {at}
    /\ IF at \in {"record", "download", "rescue"}
         THEN pc' = "kill" /\ UNCHANGED status
         ELSE Exit("nonzero")

\* An exception at site `at` leads to the `finally` of __run when it happens
\* in its `try` or `except`, and ends the process from everywhere else.
Throw(at) ==
    /\ exc' = TRUE
    /\ trouble' = trouble \cup {at}
    /\ IF at \in Guarded \cup {"rescue"}
         THEN pc' = "kill" /\ UNCHANGED status
         ELSE Exit("nonzero")

\* (fault) the exception is forgotten after the clean-up
AfterFinallySwallows == Goto("report")

AfterFinally ==
    IF exc THEN Exit("nonzero") /\ UNCHANGED <<exc, trouble>>
           ELSE Goto("report")

SetBox(i, s) ==
    /\ box' = [box EXCEPT ![i] = s]
    /\ UNCHANGED <<image, newImage>>

\* The shapes of the calls at a site `at`: one that tells nothing but that the
\* client may go on to s, one that brings container i into `state`, one that
\* enters something in the log, ...
Pass(at, s) ==
    /\ pc = at
    /\ Goto(s)
    /\ UNCHANGED <<opt, docker, local, presses>>

BoxCall(at, s, i, state) ==
    /\ pc = at
    /\ SetBox(i, state)
    /\ Goto(s)
    /\ UNCHANGED <<opt, toolExit, local, presses>>

LogCall(at, s, field, value) ==
    /\ pc = at
    /\ log' = [log EXCEPT ![field] = value]
    /\ Goto(s)
    /\ UNCHANGED <<opt, docker, probe, term, written, presses>>

\* ... one that raises an exception, and one that does so although it may
\* have reached Docker before the answer was lost.
Raise(at) ==
    /\ pc = at
    /\ Throw(at)
    /\ UNCHANGED <<opt, docker, local, presses>>

LostCall(at, i, state) ==
    /\ pc = at /\ at \in Faults
    /\ Throw(at)
    /\ SetBox(i, state) \/ UNCHANGED <<box, image, newImage>>
    /\ UNCHANGED <<opt, toolExit, local, presses>>

\* Any call that has no effect when it fails.
CallFails ==
    \E at \in Faults \cap {"look", "upload", "attach", "startwait", "wait",
                           "download", "rescue", "kill", "report", "close"} :
        Raise(at)

----------------------------------------------------------------------------
(* _detect_shell: one throw-away container for each candidate *)

ProbeCreate ==
    probe <= NumShells /\ BoxCall("probe", "look", probe, "created")

ProbeCreateFails == probe <= NumShells /\ LostCall("probe", probe, "created")

NextCandidate ==
    /\ probe' = probe + 1
    /\ Goto("probe")
    /\ UNCHANGED <<opt, docker, term, log, written, presses>>

\* an image that is gone raises ImageNotFound, which is caught as a NotFound
ProbeNoImage ==
    pc = "probe" /\ probe <= NumShells /\ "probe" \in Faults /\ NextCandidate

\* get_archive raises NotFound: the container stays
ProbeMissing == pc = "look" /\ NextCandidate

ProbeFound == Pass("look", "unprobe")

ProbeRemove == BoxCall("unprobe", "create", probe, "removed")

ProbeRemoveFails == LostCall("unprobe", probe, "removed")

\* another process has removed it: NotFound, and the next candidate is tried
ProbeGone ==
    /\ pc = "unprobe" /\ "unprobe" \in Faults
    /\ SetBox(probe, "removed")
    /\ probe' = probe + 1
    /\ Caught("unprobe", "probe")
    /\ UNCHANGED <<opt, toolExit, term, log, written, presses>>

\* no candidate is left: sys.exit(1)
NoShell == probe > NumShells /\ Raise("probe")

----------------------------------------------------------------------------
(* __create_container *)

Create == BoxCall("create", "upload", 0, "created")

CreateFails == LostCall("create", 0, "created")

\* inspect the image for its WorkingDir, build the tar, put_archive
Upload == Pass("upload", "setraw")

----------------------------------------------------------------------------
(* __container_exec *)

OnTerminal == opt.tty /\ opt.stdin

SetTerm(at, s, mode) ==
    /\ pc = at
    /\ term' = mode
    /\ Goto(s)
    /\ UNCHANGED <<opt, docker, probe, log, written, presses>>

\* (fault) raw mode for every terminal, restored only with --tty
SetRawAlways ==
    /\ OnTerminal => opt.terminal
    /\ SetTerm("setraw", "attach",
               IF opt.stdin /\ opt.terminal THEN "raw" ELSE term)

SetRaw ==
    /\ OnTerminal => opt.terminal
    /\ SetTerm("setraw", "attach", IF OnTerminal THEN "raw" ELSE term)

\* "The input device is not a TTY"
NotATerminal == OnTerminal /\ ~opt.terminal /\ Raise("setraw")

Attach == Pass("attach", "start")

Start == BoxCall("start", "loop", 0, "running")

StartFails == LostCall("start", 0, "running")

\* APIError, for example an entrypoint that does not exist
StartRefused ==
    /\ pc = "start" /\ "start" \in Faults
    /\ Caught("start", "startwait")
    /\ UNCHANGED <<opt, docker, local, presses>>

\* Docker gives a container that could not start a nonzero exit code.  When
\* the answer has no "Error" object, an AttributeError follows (CallFails).
StartWait == LogCall("startwait", "record", "exit", "nonzero")

Restored == IF OnTerminal THEN "cooked" ELSE term

\* the tool has ended, its output is read to the end
LoopEof == box[0] = "exited" /\ SetTerm("loop", "wait", Restored)

\* the connection closes under a running tool
LoopDrop ==
    /\ pc = "loop" /\ box[0] = "running" /\ "loop" \in Faults
    /\ term' = Restored
    /\ Caught("loop", "wait")
    /\ UNCHANGED <<opt, docker, probe, log, written, presses>>

\* A read or write fails: a truncated frame, a closed stdout, or stdin sent
\* to a tool that has already ended.
LoopFails ==
    /\ pc = "loop"
    /\ "loop" \in Faults \/ (opt.stdin /\ box[0] = "exited")
    /\ term' = Restored
    /\ Throw("loop")
    /\ UNCHANGED <<opt, docker, probe, log, written, presses>>

Wait == box[0] = "exited" /\ LogCall("wait", "record", "exit", toolExit)

\* (fault) wait without a timeout
WaitAgain == pc = "wait" /\ box[0] = "running" /\ UNCHANGED vars

\* the tool goes on for CONTAINER_KILL_TIMEOUT
WaitTimeout == box[0] = "running" /\ Raise("wait")

----------------------------------------------------------------------------
(* __run after the execution *)

AfterRecord == IF log.exit = "zero" THEN "download" ELSE "kill"

\* (fault) the results are fetched whatever the exit code
RecordIgnoresExit == LogCall("record", "download", "ins", TRUE)

\* (fault) no download after a successful tool
RecordSkipsDownload == LogCall("record", "kill", "ins", TRUE)

\* (fault) the input files are not entered in the log
RecordForgetsInputs == Pass("record", AfterRecord)

Record == LogCall("record", AfterRecord, "ins", TRUE)

\* in the `try`, or again in the `except KeyboardInterrupt`
Download == \E at \in {"download", "rescue"} : LogCall(at, "kill", "outs", TRUE)

AfterKill == IF opt.createImage THEN "commit" ELSE "remove"

Kill ==
    /\ pc = "kill" /\ box[0] = "running"
    /\ SetBox(0, "exited")
    /\ toolExit' = "nonzero"
    /\ Goto(AfterKill)
    /\ UNCHANGED <<opt, local, presses>>

\* APIError, "Can't kill": it is not running anymore
KillNotRunning == box[0] # "running" /\ Pass("kill", AfterKill)

\* the same handler hides every other APIError
KillRefused ==
    /\ pc = "kill" /\ box[0] = "running" /\ "kill" \in Faults
    /\ Caught("kill", AfterKill)
    /\ UNCHANGED <<opt, docker, local, presses>>

Commit ==
    /\ pc = "commit"
    /\ newImage' = TRUE
    /\ Goto("remove")
    /\ UNCHANGED <<opt, box, toolExit, image, local, presses>>

CommitFails ==
    /\ pc = "commit" /\ "commit" \in Faults
    /\ newImage' \in {newImage, TRUE}
    /\ Throw("commit")
    /\ UNCHANGED <<opt, box, toolExit, image, local, presses>>

\* (fault) the test of loaded_image is inverted
RemoveInverted ==
    /\ pc = "remove" /\ box[0] # "running"
    /\ SetBox(0, "removed")
    /\ IF opt.loaded THEN Goto("rmimage") ELSE AfterFinally
    /\ UNCHANGED <<opt, toolExit, local, presses>>

Remove ==
    /\ pc = "remove" /\ box[0] # "running"
    /\ SetBox(0, "removed")
    /\ IF opt.loaded THEN AfterFinally ELSE Goto("rmimage")
    /\ UNCHANGED <<opt, toolExit, local, presses>>

\* Docker refuses to remove a running container.
RemoveConflict == box[0] = "running" /\ Raise("remove")

RemoveFails == box[0] # "running" /\ LostCall("remove", 0, "removed")

Held == {"created", "running", "exited"}

ImageInUse == newImage \/ \E i \in Boxes : box[i] \in Held

\* Docker refuses while a container or a child image of this run uses it:
\* APIError, caught
RmImage ==
    /\ pc = "rmimage"
    /\ image' = IF ImageInUse THEN image ELSE "removed"
    /\ AfterFinally
    /\ UNCHANGED <<opt, box, toolExit, newImage, local, presses>>

\* The same handler hides every other APIError: containers of others use the
\* image, it is gone already, the daemon is in trouble.
RmImageRefused ==
    /\ pc = "rmimage" /\ "rmimage" \in Faults
    /\ trouble' = trouble \cup {"rmimage"}
    /\ IF exc THEN Exit("nonzero") ELSE pc' = "report" /\ UNCHANGED status
    /\ UNCHANGED <<opt, exc, docker, local, presses>>

\* what is no APIError, such as a lost connection
RmImageFails ==
    /\ pc = "rmimage" /\ "rmimage" \in Faults
    /\ image' \in IF ImageInUse THEN {image} ELSE {image, "removed"}
    /\ Throw("rmimage")
    /\ UNCHANGED <<opt, box, toolExit, newImage, local, presses>>

----------------------------------------------------------------------------
(* the end of __run and of main *)

Report ==
    /\ pc = "report"
    /\ written' = (opt.log /\ log.exit = "zero")
    /\ Goto("close")
    /\ UNCHANGED <<opt, docker, probe, term, log, presses>>

\* (fault) the exit code of the tool is not handed on
CloseAlwaysZero ==
    /\ pc = "close"
    /\ Exit("zero")
    /\ UNCHANGED <<opt, exc, trouble, docker, local, presses>>

Close ==
    /\ pc = "close"
    /\ Exit(log.exit)
    /\ UNCHANGED <<opt, exc, trouble, docker, local, presses>>

----------------------------------------------------------------------------
(* the user and the tool *)

\* (fault) the interrupt is swallowed and the client keeps listening
InterruptResumes ==
    /\ term = "cooked" /\ pc # "exited" /\ presses < MaxPresses
    /\ presses' = presses + 1
    /\ IF pc \in Guarded THEN Caught(pc, "loop") ELSE Throw(pc)
    /\ UNCHANGED <<opt, docker, local>>

\* Ctrl-C on a terminal that is not raw raises KeyboardInterrupt.  In the
\* `try` it leads to the download, everywhere else it is one more exception.
Interrupt ==
    /\ term = "cooked" /\ pc # "exited" /\ presses < MaxPresses
    /\ presses' = presses + 1
    /\ IF pc \in Guarded THEN Caught(pc, "rescue") ELSE Throw(pc)
    /\ UNCHANGED <<opt, docker, local>>

ToolEnds ==
    /\ box[0] = "running"
    /\ SetBox(0, "exited")
    /\ toolExit' \in {"zero", "nonzero"}
    /\ UNCHANGED <<opt, flow, local, presses>>

----------------------------------------------------------------------------

\* What the client does by itself; it cannot help but go on.
Client ==
    \/ ProbeCreate \/ NoShell \/ ProbeFound \/ ProbeMissing \/ ProbeRemove
    \/ Create \/ Upload \/ SetRaw \/ NotATerminal \/ Attach \/ Start \/ StartWait
    \/ LoopEof \/ Wait \/ WaitTimeout \/ Record \/ Download
    \/ Kill \/ KillNotRunning \/ Commit \/ Remove \/ RemoveConflict \/ RmImage
    \/ Report \/ Close

\* What goes wrong for it.
Failure ==
    \/ CallFails \/ ProbeNoImage \/ ProbeCreateFails \/ ProbeRemoveFails
    \/ ProbeGone
    \/ CreateFails \/ StartRefused \/ StartFails \/ LoopDrop \/ LoopFails
    \/ KillRefused \/ CommitFails \/ RemoveFails \/ RmImageFails
    \/ RmImageRefused

Next == Client \/ Failure \/ Interrupt \/ ToolEnds

Spec == Init /\ [][Next]_vars

\* The client never pauses; nothing obliges the tool to end, a call to fail or
\* the user to press Ctrl-C.
FairSpec == Spec /\ WF_vars(Client)

----------------------------------------------------------------------------
(* Properties *)

\* Every variable has its type.
TypeOK ==
    /\ opt \in Options
    /\ pc \in Sites \cup {"exited"}
    /\ probe \in 1..(NumShells + 1)
    /\ box \in [Boxes -> Held \cup {"absent", "removed"}]
    /\ toolExit \in {"none", "zero", "nonzero"}
    /\ image \in {"present", "removed"}
    /\ newImage \in BOOLEAN
    /\ term \in {"cooked", "raw"}
    /\ log \in Logs
    /\ written \in BOOLEAN
    /\ exc \in BOOLEAN
    /\ trouble \subseteq Sites
    /\ presses \in 0..MaxPresses
    /\ status \in {"open", "zero", "nonzero"}

\* The `finally` of __run covers everything that happens from __container_exec
\* on: a tool container is only left behind when the trouble was in creating
\* it, in the upload before the `try`, or in the clean-up itself, however the
\* execution, the download or the user broke off.  A container of the shell
\* probe is left behind when its candidate is not there, and otherwise only
\* after trouble.
LeakNeedsCause ==
    /\ pc = "exited" /\ box[0] \in Held =>
          trouble \cap {"create", "upload", "kill", "commit", "remove"} # {}
    /\ \A i \in Boxes \ {0} : box[i] \in Held =>
          \/ i < probe
          \/ i = probe /\ pc \in {"look", "unprobe"}
          \/ trouble \cap Probing # {}

\* Exit code 0 tells a script that the results are on the host and that the
\* container, which held the only other copy, is gone.
SuccessMeansDelivered ==
    status = "zero" => log.outs /\ box[0] = "removed" /\ ~exc

\* The exit code of cincan is the exit code of the tool: zero is only handed
\* out for a tool that ended with zero, except after Ctrl-C, which leaves the
\* initial 0 of the CommandLog in place.
ZeroIsEarned ==
    status = "zero" /\ presses = 0 => toolExit = "zero"

\* An entry of the command log is written by runs that ended well and then
\* lists input and output; only an interrupted run lacks its input.
EntryComplete ==
    written => log.outs /\ log.exit = "zero" /\ (log.ins \/ presses > 0)

\* Without Ctrl-C, results are fetched from a tool that has ended with zero,
\* never from one that may still write them.
FetchedAtRest ==
    [][~log.outs /\ log'.outs /\ presses = 0 =>
          box[0] = "exited" /\ toolExit = "zero"]_vars

\* The terminal is back in its normal mode outside the execution, unless
\* attach or start failed: these two calls are between setraw and the `try`
\* that restores it.
RawNeedsCause ==
    term = "raw" =>
        \/ pc \in {"attach", "start", "loop"}
        \/ trouble \cap {"attach", "start"} # {}

\* A run never removes an image it did not build, and a built image is only
\* kept for a reason: a run that broke off, a committed image, a container of
\* the probe that still uses it, or a removal that Docker refused.
BuiltImageRemoved ==
    /\ image = "removed" \/ "rmimage" \in trouble =>
          ~opt.loaded /\ box[0] = "removed"
    /\ status = "zero" /\ ~opt.loaded =>
          \/ image = "removed" \/ "rmimage" \in trouble
          \/ newImage \/ \E i \in Boxes \ {0} : box[i] \in Held

\* Where the tool container is when each call is about to be made.
BoxAtCall ==
    /\ pc \in Probing \cup {"create"} => box[0] = "absent"
    /\ pc \in {"look", "unprobe"} => probe <= NumShells
    /\ pc \in {"upload", "setraw", "attach", "start", "startwait"} =>
          box[0] = "created"
    /\ pc \in {"loop", "wait"} => box[0] \in {"running", "exited"}
    /\ pc \in {"record", "download"} => box[0] \in {"created", "exited"}
    /\ pc \in {"rescue", "kill", "commit", "remove"} => box[0] \in Held
    /\ pc \in {"rmimage", "report", "close"} => box[0] = "removed"
    /\ box[0] = "exited" => toolExit # "none"
    /\ term = "raw" => OnTerminal

\* What the log and the pending exception say when each call is about to be
\* made: on the way out without an exception, a tool that ended with zero has
\* delivered its results.
LogAtCall ==
    /\ status = "open" <=> pc # "exited"
    /\ exc => pc \in Finally \cup {"exited"}
    /\ pc = "rescue" => presses > 0
    /\ pc = "download" => log.exit = "zero"
    /\ pc \in Finally \cup Closing /\ ~exc /\ log.exit = "zero" => log.outs
    /\ pc \in {"download"} \cup Finally \cup Closing /\ ~exc /\ presses = 0 =>
          log.ins
    /\ /\ pc \in {"record", "download"} \cup Finally \cup Closing
       /\ ~exc /\ log.exit = "zero" /\ presses = 0
       => box[0] \in {"exited", "removed"} /\ toolExit = "zero"
    /\ written => pc \in {"close", "exited"}

\* The inductive invariant behind the theorems of ToolRunProofs.
IInv ==
    /\ TypeOK
    /\ BoxAtCall
    /\ LogAtCall
    /\ LeakNeedsCause
    /\ SuccessMeansDelivered
    /\ ZeroIsEarned
    /\ EntryComplete
    /\ RawNeedsCause

\* What has become of the image on the way out, from which BuiltImageRemoved
\* follows.
ImageFate ==
    /\ image = "removed" \/ "rmimage" \in trouble =>
          ~opt.loaded /\ box[0] = "removed"
    /\ pc = "rmimage" => ~opt.loaded
    /\ (pc \in Closing \/ status = "zero") /\ ~opt.loaded =>
          image = "removed" \/ "rmimage" \in trouble \/ ImageInUse

\* One run keeps its contract with the caller (RunContract).
Contract == INSTANCE RunContract WITH
    stage   <- CASE box[0] = "absent"  -> "idle"
                 [] box[0] = "removed" -> "released"
                 [] OTHER              -> "held",
    results <- log.outs,
    verdict <- status

KeepsContract == Contract!Spec

\* The client never gets stuck by itself: it ends, or it listens to a tool
\* that is still running.
AlwaysEnds ==
    []<>(pc = "exited" \/ (pc = "loop" /\ box[0] = "running"))

\* Ctrl-C ends the run whatever the tool does.
InterruptEnds == (presses > 0) ~> (pc = "exited")

\* "Restore old terminal settings, regardless of what happened"
TerminalRestored == pc = "exited" => term = "cooked"

=============================================================================
