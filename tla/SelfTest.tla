------------------------------ MODULE SelfTest ------------------------------
(***************************************************************************)
(* ContainerCheck.run of cincan/container_check.py, the work of `cincan    *)
(* test`: it puts a file into cincan-in, lets the tool copy it to          *)
(* cincan-out, looks whether the copy arrived, and removes both again in a *)
(* `finally`.  The run of the tool in between is any that keeps the        *)
(* contract (RunContract), which ToolRun is shown to do.                   *)
(***************************************************************************)
EXTENDS Naturals

VARIABLES
    in, out,    \* the two directories: the file cincan.txt, and others
    fresh,      \* does the copy come from this run? (history)
    at,         \* the call the client is about to make
    raised,     \* is an exception on its way out?
    seen,       \* test_out
    exit,       \* exit code of the log entry, then of the process
    passed,     \* "Test pass", "Test failed" or nothing was printed
    broken,     \* the calls that failed or were interrupted (history)
    stage, results, verdict     \* the run of the tool

tool == <<stage, results, verdict>>
host == <<in, out, fresh>>
testVars == <<in, out, fresh, at, raised, seen, exit, passed, broken,
              stage, results, verdict>>

Run == INSTANCE RunContract

\* The content of cincan.txt: none, the test string, or another.
Contents == {"none", "test", "else"}
Dirs == {d \in [there: BOOLEAN, file: Contents, others: BOOLEAN] :
            d.there \/ (d.file = "none" /\ ~d.others)}

Setup   == {"mkin", "write", "mkout", "clear", "tool", "read"}
Cleanup == {"unlinkin", "rmdirin", "unlinkout", "rmdirout"}

\* Both directories may be there before, with files of the user or with what
\* an earlier test has left behind.
TestInit ==
    /\ in \in Dirs /\ out \in Dirs
    /\ fresh = FALSE
    /\ at = "mkin"
    /\ raised = FALSE
    /\ seen = "none"
    /\ exit = "open"
    /\ passed = "open"
    /\ broken = {}
    /\ Run!Init

----------------------------------------------------------------------------

Proceed(s) == at' = s /\ UNCHANGED <<raised, seen, exit, passed, broken, tool>>

Mkdir(site, next) ==
    /\ at = site
    /\ IF site = "mkin"
         THEN in' = [in EXCEPT !.there = TRUE] /\ UNCHANGED out
         ELSE out' = [out EXCEPT !.there = TRUE] /\ UNCHANGED in
    /\ Proceed(next)
    /\ UNCHANGED fresh

Write ==
    /\ at = "write"
    /\ in' = [in EXCEPT !.file = "test"]
    /\ Proceed("mkout")
    /\ UNCHANGED <<out, fresh>>

\* (fault) the output of an earlier test is left in place
ClearNothing ==
    /\ at = "clear"
    /\ Proceed("tool")
    /\ UNCHANGED host

\* `if out_file.exists(): out_file.unlink()`
Clear ==
    /\ at = "clear"
    /\ out' = [out EXCEPT !.file = "none"]
    /\ Proceed("tool")
    /\ UNCHANGED <<in, fresh>>

\* self.tool.run(args): what it fetches may be the copy, something else or
\* nothing, and other files may come with it.
ToolActs ==
    /\ at = "tool"
    /\ Run!Next
    /\ IF Run!Fetch
         THEN \/ /\ \E c \in {"test", "else"}, o \in {out.others, TRUE} :
                      out' = [out EXCEPT !.file = c, !.others = o]
                 /\ fresh' = TRUE
              \/ UNCHANGED <<out, fresh>>
         ELSE UNCHANGED <<out, fresh>>
    /\ UNCHANGED <<in, at, raised, seen, exit, passed, broken>>

ToolReturns ==
    /\ at = "tool" /\ verdict # "open"
    /\ at' = "read"
    /\ exit' = verdict
    /\ UNCHANGED <<host, raised, seen, passed, broken, tool>>

ToolRaises ==
    /\ at = "tool" /\ verdict = "nonzero"
    /\ at' = "unlinkin"
    /\ raised' = TRUE
    /\ UNCHANGED <<host, seen, exit, passed, broken, tool>>

Read ==
    /\ at = "read"
    /\ at' = "unlinkin"
    /\ seen' = out.file
    /\ UNCHANGED <<host, raised, exit, passed, broken, tool>>

----------------------------------------------------------------------------
(* the `finally` *)

\* (fault) the input file is left for the next test
UnlinkOut(site, next) ==
    /\ at = site
    /\ IF site = "unlinkin"
         THEN UNCHANGED <<in, out>>
         ELSE out' = [out EXCEPT !.file = "none"] /\ UNCHANGED in
    /\ Proceed(next)
    /\ UNCHANGED fresh

Unlink(site, next) ==
    /\ at = site
    /\ IF site = "unlinkin"
         THEN in' = [in EXCEPT !.file = "none"] /\ UNCHANGED out
         ELSE out' = [out EXCEPT !.file = "none"] /\ UNCHANGED in
    /\ Proceed(next)
    /\ UNCHANGED fresh

Empty(d) == d.file = "none" /\ ~d.others

\* rmdir refuses a directory with other files in it
RmdirIn ==
    /\ at = "rmdirin" /\ Empty(in)
    /\ in' = [in EXCEPT !.there = FALSE]
    /\ Proceed("unlinkout")
    /\ UNCHANGED <<out, fresh>>

AfterCleanup ==
    IF raised THEN at' = "end" /\ exit' = "nonzero"
              ELSE at' = "judge" /\ UNCHANGED exit

RmdirOut ==
    /\ at = "rmdirout" /\ Empty(out)
    /\ out' = [out EXCEPT !.there = FALSE]
    /\ AfterCleanup
    /\ UNCHANGED <<in, fresh, raised, seen, passed, broken, tool>>

\* (fault) an exception before the run of the tool needs no clean-up
EscapeEarly(site) ==
    /\ raised' = TRUE
    /\ IF site = "read" THEN at' = "unlinkin" /\ UNCHANGED exit
                        ELSE at' = "end" /\ exit' = "nonzero"
    /\ UNCHANGED <<host, seen, passed, tool>>

Escape(site) ==
    /\ raised' = TRUE
    /\ IF site \in Setup THEN at' = "unlinkin" /\ UNCHANGED exit
                         ELSE at' = "end" /\ exit' = "nonzero"
    /\ UNCHANGED <<host, seen, passed, tool>>

RmdirRefused ==
    /\ (at = "rmdirin" /\ ~Empty(in)) \/ (at = "rmdirout" /\ ~Empty(out))
    /\ Escape(at)
    /\ UNCHANGED broken

\* A call fails, or Ctrl-C.  What `tool` does about it is in its contract.
Breaks ==
    /\ at \in (Setup \ {"tool"}) \cup Cleanup
    /\ Escape(at)
    /\ broken' = broken \cup {at}

----------------------------------------------------------------------------

\* the exit code is left as it is
Judge ==
    /\ at = "judge"
    /\ passed' = IF exit = "zero" /\ seen = "test" THEN "pass" ELSE "failed"
    /\ at' = "end"
    /\ UNCHANGED <<host, raised, seen, exit, broken, tool>>

TestNext ==
    \/ Mkdir("mkin", "write") \/ Write \/ Mkdir("mkout", "clear") \/ Clear
    \/ ToolActs \/ ToolReturns \/ ToolRaises \/ Read
    \/ Unlink("unlinkin", "rmdirin") \/ RmdirIn
    \/ Unlink("unlinkout", "rmdirout") \/ RmdirOut
    \/ RmdirRefused \/ Breaks \/ Judge

TestSpec == TestInit /\ [][TestNext]_testVars

----------------------------------------------------------------------------
(* Properties *)

TestTypeOK ==
    /\ in \in Dirs /\ out \in Dirs
    /\ fresh \in BOOLEAN /\ raised \in BOOLEAN
    /\ at \in Setup \cup Cleanup \cup {"judge", "end"}
    /\ seen \in Contents
    /\ {exit, verdict} \subseteq {"open", "zero", "nonzero"}
    /\ passed \in {"open", "pass", "failed"}
    /\ broken \subseteq Setup \cup Cleanup

\* "Test pass" is only printed when the tool has ended with zero and the copy
\* comes from this run, whatever an earlier test has left in the directories.
PassIsEarned ==
    passed = "pass" => verdict = "zero" /\ results /\ fresh

\* However the test ends, it leaves nothing behind, unless a call of the
\* clean-up itself fails, or one of the directories has other files in it:
\* then both may stay.
TestCleansUp ==
    /\ at = "end" /\ broken \cap Cleanup = {}
    /\ ~in.others /\ ~out.others
    => ~in.there /\ ~out.there

----------------------------------------------------------------------------
(* Why they hold *)

\* From its removal on, the output is the one of this run; zero comes from the
\* tool, and there are results then.
Earned ==
    /\ at \in {"tool", "read"} /\ out.file # "none" => fresh
    /\ seen # "none" => fresh
    /\ exit = "zero" => verdict = "zero"
    /\ verdict = "zero" => results

\* The directories are there when something is put into them.
Made ==
    /\ at = "write" => in.there
    /\ at \in {"clear", "tool"} => out.there

\* What each step of the clean-up has done.
Cleaned ==
    /\ at \in {"rmdirin", "unlinkout", "rmdirout", "judge"} => in.file = "none"
    /\ at \in {"unlinkout", "rmdirout", "judge"} => ~in.there
    /\ at = "rmdirout" => out.file = "none"
    /\ at = "judge" => ~out.there

TestInv ==
    TestTypeOK /\ Earned /\ Made /\ Cleaned /\ PassIsEarned /\ TestCleansUp
=============================================================================
