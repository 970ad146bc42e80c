------------------------------ MODULE LogStore ------------------------------
(***************************************************************************)
(* The command log of cincan/command_log.py: processes of one user share   *)
(* ~/.cincan/uid.txt and the log directory it names.  A writer             *)
(* (CommandLogWriter, at the end of a run) adds one file, a reader         *)
(* (CommandLogIndex) loads all of them.  There are no locks: every access  *)
(* to the file system is a step, and a process may die between two.        *)
(***************************************************************************)
EXTENDS Naturals, FiniteSets

CONSTANTS
    Writers, Readers,   \* processes
    MaxTime,            \* file names that the clock can give (bound)
    Crashes             \* may processes die?

Procs == Writers \cup Readers

\* A uid is known by the process that made it, "old" is one of an earlier
\* run; Unwritten is the empty string that is read from a file that is open.
NoFile    == "absent"
Unwritten == "empty"
Uids      == Procs \cup {"old", Unwritten}
Times     == 0..MaxTime

ASSUME StoreAssumption ==
    /\ Writers \cap Readers = {}
    /\ {"old", "empty", "absent", "partial", "mixed"} \cap Procs = {}
    /\ MaxTime \in Nat
    /\ Crashes \in BOOLEAN

VARIABLES
    uidFile,    \* content of uid.txt, or NoFile
    files,      \* content of the log files of each directory
    now,        \* the local clock, which may be set back
    pc,
    dead,       \* processes that died, before the step that pc names
    dir,        \* directoryname of each process
    name,       \* log_file of each writer
    todo,       \* names that a reader still has to load
    seen,       \* writers whose entries it has loaded
    due,        \* entries that were complete when it listed (history)
    raced,      \* was uid.txt created twice, or read half-made? (history)
    clash       \* did two writers test one free name at once? (history)

own    == <<dead, dir, name>>
index  == <<todo, seen, due>>
past   == <<raced, clash>>
vars   == <<uidFile, files, now, pc, dead, dir, name, todo, seen, due,
            raced, clash>>

Contents == Writers \cup {NoFile, "partial", "mixed"}

Init ==
    /\ uidFile \in {NoFile, "old"}
    /\ files = [u \in Uids |-> [t \in Times |-> NoFile]]
    /\ now \in Times
    /\ pc = [p \in Procs |-> "check"]
    /\ dead = {}
    /\ dir = [p \in Procs |-> NoFile]
    /\ name = [p \in Procs |-> 0]
    /\ todo = [p \in Readers |-> {}]
    /\ seen = [p \in Readers |-> {}]
    /\ due = [p \in Readers |-> {}]
    /\ raced = FALSE
    /\ clash = FALSE

At(p, s) == pc[p] = s /\ p \notin dead

Goto(p, s) == pc' = [pc EXCEPT ![p] = s]

File(p) == files[dir[p]][name[p]]

----------------------------------------------------------------------------
(* CommandLogBase.__init__ *)

\* (fault) the existing uid.txt is not looked for
CheckBlind(p) ==
    /\ At(p, "check")
    /\ Goto(p, "create")
    /\ raced' = (raced \/ \E q \in Procs \ {p} : At(q, "create") \/ At(q, "write"))
    /\ UNCHANGED <<uidFile, files, now, own, index, clash>>

\* os.path.isfile
Check(p) ==
    /\ At(p, "check")
    /\ Goto(p, IF uidFile = NoFile THEN "create" ELSE "read")
    /\ raced' = (raced \/ \E q \in Procs \ {p} : At(q, "create") \/ At(q, "write"))
    /\ UNCHANGED <<uidFile, files, now, own, index, clash>>

AfterBase(p) == IF p \in Writers THEN "pick" ELSE "list"

ReadUid(p) ==
    /\ At(p, "read")
    /\ dir' = [dir EXCEPT ![p] = uidFile]
    /\ Goto(p, AfterBase(p))
    /\ UNCHANGED <<uidFile, files, now, dead, name, index, past>>

\* open(..., "w") makes the file empty
CreateUid(p) ==
    /\ At(p, "create")
    /\ uidFile' = Unwritten
    /\ Goto(p, "write")
    /\ UNCHANGED <<files, now, own, index, past>>

WriteUid(p) ==
    /\ At(p, "write")
    /\ uidFile' = p
    /\ dir' = [dir EXCEPT ![p] = p]
    /\ Goto(p, AfterBase(p))
    /\ UNCHANGED <<files, now, dead, name, index, past>>

----------------------------------------------------------------------------
(* CommandLogWriter.write *)

\* datetime.now() as file name
Pick(p) ==
    /\ At(p, "pick")
    /\ name' = [name EXCEPT ![p] = now]
    /\ Goto(p, "exists")
    /\ UNCHANGED <<uidFile, files, now, dead, dir, index, past>>

Twins(p) == {q \in Writers \ {p} :
                At(q, "open") /\ dir[q] = dir[p] /\ name[q] = name[p]}

\* (fault) the name is taken as it comes
ExistsSkipped(p) ==
    /\ At(p, "exists")
    /\ Goto(p, "open")
    /\ clash' = (clash \/ Twins(p) # {})
    /\ UNCHANGED <<uidFile, files, now, own, index, raced>>

\* `while log_file.exists()`
Exists(p) ==
    /\ At(p, "exists")
    /\ IF File(p) # NoFile
         THEN Goto(p, "pick") /\ UNCHANGED clash
         ELSE Goto(p, "open") /\ clash' = (clash \/ Twins(p) # {})
    /\ UNCHANGED <<uidFile, files, now, own, index, raced>>

SetFile(p, content) ==
    files' = [files EXCEPT ![dir[p]][name[p]] = content]

\* open("w") truncates whatever is there
Open(p) ==
    /\ At(p, "open")
    /\ SetFile(p, "partial")
    /\ Goto(p, "dump")
    /\ UNCHANGED <<uidFile, now, own, index, past>>

\* Two open files of one name overwrite each other from the start, and the
\* longer text sticks out.
Dump(p) ==
    /\ At(p, "dump")
    /\ IF File(p) = "partial" THEN SetFile(p, p)
                              ELSE SetFile(p, p) \/ SetFile(p, "mixed")
    /\ Goto(p, "done")
    /\ UNCHANGED <<uidFile, now, own, index, past>>

----------------------------------------------------------------------------
(* CommandLogIndex.__read_log *)

Complete(u) == {files[u][t] : t \in Times} \cap Writers

\* (fault) the directory of the uid that is in uid.txt by now
ListCurrent(p) ==
    /\ At(p, "list")
    /\ todo' = [todo EXCEPT ![p] =
                  {t \in Times : uidFile # NoFile /\ files[uidFile][t] # NoFile}]
    /\ due' = [due EXCEPT ![p] = Complete(dir[p])]
    /\ Goto(p, "load")
    /\ UNCHANGED <<uidFile, files, now, own, seen, past>>

\* iterdir
List(p) ==
    /\ At(p, "list")
    /\ todo' = [todo EXCEPT ![p] = {t \in Times : files[dir[p]][t] # NoFile}]
    /\ due' = [due EXCEPT ![p] = Complete(dir[p])]
    /\ Goto(p, "load")
    /\ UNCHANGED <<uidFile, files, now, own, seen, past>>

\* a file that is not JSON ends the reader with an exception
Load(p) ==
    /\ At(p, "load")
    /\ \E t \in todo[p] :
          LET f == files[dir[p]][t] IN
          IF f \in Writers
            THEN /\ seen' = [seen EXCEPT ![p] = @ \cup {f}]
                 /\ todo' = [todo EXCEPT ![p] = @ \ {t}]
                 /\ UNCHANGED pc
            ELSE Goto(p, "failed") /\ UNCHANGED <<seen, todo>>
    /\ UNCHANGED <<uidFile, files, now, own, due, past>>

\* (fault) a reader gives up the rest of the list
LoadedSome(p) ==
    /\ At(p, "load")
    /\ Goto(p, "done")
    /\ UNCHANGED <<uidFile, files, now, own, index, past>>

Loaded(p) ==
    /\ At(p, "load") /\ todo[p] = {}
    /\ Goto(p, "done")
    /\ UNCHANGED <<uidFile, files, now, own, index, past>>

----------------------------------------------------------------------------

\* time passes, or the local clock is set back
Tick ==
    /\ now' \in Times \ {now}
    /\ UNCHANGED <<uidFile, files, pc, own, index, past>>

Die(p) ==
    /\ Crashes /\ p \notin dead /\ pc[p] \notin {"done", "failed"}
    /\ dead' = dead \cup {p}
    /\ UNCHANGED <<uidFile, files, now, pc, dir, name, index, past>>

Next ==
    \/ \E p \in Procs : Check(p) \/ ReadUid(p) \/ CreateUid(p) \/ WriteUid(p) \/ Die(p)
    \/ \E p \in Writers : Pick(p) \/ Exists(p) \/ Open(p) \/ Dump(p)
    \/ \E p \in Readers : List(p) \/ Load(p) \/ Loaded(p)
    \/ Tick

Spec == Init /\ [][Next]_vars

----------------------------------------------------------------------------
(* Properties *)

TypeOK ==
    /\ uidFile \in Uids \cup {NoFile}
    /\ files \in [Uids -> [Times -> Contents]]
    /\ now \in Times
    /\ pc \in [Procs -> {"check", "read", "create", "write", "pick", "exists",
                        "open", "dump", "list", "load", "done", "failed"}]
    /\ dead \subseteq Procs
    /\ dir \in [Procs -> Uids \cup {NoFile}]
    /\ \A p \in Procs : dir[p] = NoFile <=> pc[p] \in {"check", "read", "create", "write"}
    /\ name \in [Procs -> Times]
    /\ todo \in [Readers -> SUBSET Times]
    /\ seen \in [Readers -> SUBSET Writers]
    /\ due \in [Readers -> SUBSET Writers]
    /\ raced \in BOOLEAN /\ clash \in BOOLEAN

\* A finished run stays in the log: the test for a free name keeps a writer
\* from overwriting an entry, also when the clock goes back, unless two
\* writers test the same name at once (the test and `open` are two steps).
EntryKept ==
    ~clash => \A p \in Writers : pc[p] = "done" => File(p) = p

\* Unless uid.txt is made by two processes at once, everyone uses the one
\* directory that it names, whoever dies halfway.
OneHome ==
    ~raced => \A p \in Procs : dir[p] # NoFile => dir[p] = uidFile

\* A reader that ends well has loaded every entry of its directory that was
\* complete when it listed it.
IndexComplete ==
    \A r \in Readers : pc[r] = "done" /\ ~clash => due[r] \subseteq seen[r]

\* A reader only stumbles over an entry whose writer is writing or died
\* while writing.
IndexStumbles ==
    [][\A r \in Readers : pc[r] # "failed" /\ pc'[r] = "failed" /\ ~clash =>
          \E p \in Writers : /\ pc[p] = "dump"
                             /\ dir[p] = dir[r] /\ name[p] \in todo[r]]_vars

----------------------------------------------------------------------------
(* An append-only log *)

Stored == {w \in Writers : \E u \in Uids, t \in Times : files[u][t] = w}

Log == INSTANCE AppendLog
          WITH Entry <- Writers, entries <- Stored, broken <- clash

\* The directories of all uids together are a log to which entries are only
\* added, until two writers test one free name at once.
KeepsLog == Log!Spec

----------------------------------------------------------------------------
(* Why the invariants hold *)

\* While a process makes uid.txt, all others are still to look for it, or died
\* before they made it.
UidOnce ==
    /\ uidFile = NoFile => \A p \in Procs : pc[p] \in {"check", "create"}
    /\ ~raced => \A p \in Procs : pc[p] \in {"create", "write"} /\ p \notin dead =>
          /\ uidFile = IF pc[p] = "create" THEN NoFile ELSE Unwritten
          /\ \A q \in Procs \ {p} :
                pc[q] = "check" \/ (pc[q] = "create" /\ q \in dead)

\* A writer has its name for itself from the test on, and a file with content
\* has a writer to whom it belongs.
Claims(p) == pc[p] = "dump" \/ At(p, "open")

OwnFile ==
    \A p \in Writers :
        /\ At(p, "open") => File(p) = NoFile
        /\ pc[p] = "dump" => File(p) = "partial"
        /\ pc[p] = "done" => File(p) = p

OwnName ==
    \A p, q \in Writers :
        p # q /\ Claims(p) /\ Claims(q) => dir[p] # dir[q] \/ name[p] # name[q]

Owner ==
    \A u \in Uids, t \in Times, w \in Writers :
        files[u][t] = w => pc[w] = "done" /\ dir[w] = u /\ name[w] = t

Unfinished ==
    \A u \in Uids, t \in Times : files[u][t] \in {"partial", "mixed"} =>
        \E p \in Writers : pc[p] = "dump" /\ dir[p] = u /\ name[p] = t

NamesOwned == OwnFile /\ OwnName /\ Owner /\ Unfinished

\* What a reader has to load is there, and it has all that was due.
ListTrue ==
    \A r \in Readers :
        /\ pc[r] = "load" => \A t \in todo[r] : files[dir[r]][t] # NoFile
        /\ pc[r] \in {"load", "done"} /\ ~clash => \A w \in due[r] :
              \/ w \in seen[r]
              \/ pc[r] = "load" /\ pc[w] = "done" /\ dir[w] = dir[r] /\ name[w] \in todo[r]

IInv == TypeOK /\ UidOnce /\ OneHome /\ (~clash => NamesOwned) /\ ListTrue
=============================================================================
