----------------------------- MODULE ResultFetch -----------------------------
(***************************************************************************)
(* What TarTool (cincan/tar_tool.py) does to the files of the host: the    *)
(* upload with its upload_stats, the changes that the tool makes in the    *)
(* container and the user makes on the host meanwhile, and the download    *)
(* that decides for each file by size, time stamp and digest whether to    *)
(* replace it, with a Ctrl-C that starts the download, or starts it anew.  *)
(* The tool is not stopped by it: it goes on writing while the results are *)
(* fetched, and Docker packs each file as it finds it.                     *)
(*                                                                         *)
(* Data are abstract values with a size.  The clock counts half seconds,   *)
(* the comparison whole ones.                                              *)
(***************************************************************************)
EXTENDS Integers

CONSTANTS
    Paths,          \* files below the working directory
    Data,           \* contents of files
    Size(_),        \* length of a content
    MaxTime,        \* end of the clock (bound)
    MaxPresses      \* how often the user presses Ctrl-C (bound)

None == [none |-> TRUE]

ASSUME FetchAssumption ==
    /\ MaxTime \in Nat /\ MaxPresses \in Nat
    /\ \A d \in Data : Size(d) \in Nat
    /\ "partial" \notin Data

\* what a file has that is not written to its end
Partial == "partial"

Times == 0..MaxTime
Files == [data: Data \cup {Partial}, mtime: Times]
Whole == [data: Data, mtime: Times]
Stats == [size: {Size(d) : d \in Data}, mtime: Times, up: Times]

\* int(timestamp)
Sec(t) == t \div 2

VARIABLES
    now,
    phase,      \* "upload", "exec", "download", "rescue", "done" or "failed"
    todo,       \* files to upload, then files_to_do
    host,       \* the files on the host
    temp,       \* the files with _TEMP appended to their name
    cont,       \* the files in the container
    stats,      \* upload_stats
    given,      \* what was uploaded (history)
    running,    \* may the tool still write?
    packed,     \* the files as Docker has packed them for the download
    cur,        \* the file being replaced, and the next step for it
    presses,
    backdated,  \* files whose time stamp the tool has set back (history)
    late,       \* files it has touched since a Ctrl-C (history)
    edited      \* what the user last saved during the run (history)

world == <<now, presses, running, backdated, late, edited>>
vars  == <<now, phase, todo, host, temp, cont, stats, given, running, packed,
           cur, presses, backdated, late, edited>>

Idle == [path |-> None, step |-> "idle"]

\* Files of the host have been written before now.
Init ==
    /\ now \in Times
    /\ phase = "upload"
    /\ host \in [Paths -> [data: Data, mtime: 0..now] \cup {None}]
    /\ todo = {p \in Paths : host[p] # None}
    /\ temp = [p \in Paths |-> None]
    /\ cont = [p \in Paths |-> None]
    /\ stats = [p \in Paths |-> None]
    /\ given = [p \in Paths |-> None]
    /\ running = FALSE
    /\ packed = [p \in Paths |-> None]
    /\ cur = Idle
    /\ presses = 0
    /\ backdated = {} /\ late = {}
    /\ edited = [p \in Paths |-> None]

----------------------------------------------------------------------------
(* upload *)

\* __create_tar and put_archive for one file
Upload(p) ==
    /\ phase = "upload" /\ p \in todo
    /\ stats' = [stats EXCEPT ![p] =
          [size |-> Size(host[p].data), mtime |-> host[p].mtime, up |-> now]]
    /\ cont' = [cont EXCEPT ![p] = host[p]]
    /\ given' = [given EXCEPT ![p] = host[p]]
    /\ todo' = todo \ {p}
    /\ UNCHANGED <<world, phase, host, temp, packed, cur>>

Start ==
    /\ phase = "upload" /\ todo = {}
    /\ phase' = "exec"
    /\ running' = TRUE
    /\ UNCHANGED <<now, presses, backdated, late, edited, todo, host, temp, cont,
                   stats, given, packed, cur>>

----------------------------------------------------------------------------
(* the tool *)

\* It goes on during a download that a Ctrl-C has started; what it writes
\* after that goes with the container.
Touches(p) ==
    /\ running /\ phase \in {"exec", "rescue"}
    /\ late' = IF phase = "exec" THEN late ELSE late \cup {p}
    /\ UNCHANGED <<now, presses, running, edited, phase, todo, host, temp, stats,
                   given, packed, cur>>

ToolWrites(p) ==
    /\ Touches(p)
    /\ \E d \in Data : cont' = [cont EXCEPT ![p] = [data |-> d, mtime |-> now]]
    /\ UNCHANGED backdated

\* as tar, unzip or touch -r do
ToolBackdates(p) ==
    /\ Touches(p)
    /\ \E d \in Data, t \in 0..now :
          cont' = [cont EXCEPT ![p] = [data |-> d, mtime |-> t]]
    /\ backdated' = backdated \cup {p}

ToolDeletes(p) ==
    /\ Touches(p) /\ cont[p] # None
    /\ cont' = [cont EXCEPT ![p] = None]
    /\ UNCHANGED backdated

\* The diff names what was uploaded or written.
Results == {p \in Paths : cont[p] # None}

Finish ==
    /\ phase = "exec"
    /\ phase' = "download"
    /\ todo' = Results
    /\ running' = FALSE
    /\ UNCHANGED <<now, presses, backdated, late, edited, host, temp, cont, stats,
                   given, packed, cur>>

----------------------------------------------------------------------------
(* download *)

\* (fault) the time of the upload is not looked at
VerdictCoarse(s, f) ==
    IF s = None \/ s.size # Size(f.data) \/ Sec(s.mtime) # Sec(f.mtime)
      THEN "modified" ELSE "unmodified"

\* (fault) equal size and time are never doubted, and never trusted
VerdictUnsure(s, f) ==
    IF s = None \/ s.size # Size(f.data) \/ Sec(s.mtime) # Sec(f.mtime)
      THEN "modified" ELSE "unsure"

\* __check_if_modified
Verdict(s, f) ==
    IF s = None \/ s.size # Size(f.data) \/ Sec(s.mtime) # Sec(f.mtime)
      THEN "modified"
      ELSE IF Sec(s.mtime) # Sec(s.up) THEN "unmodified" ELSE "unsure"

Fetching == phase \in {"download", "rescue"}

\* What there is to do about a file f of the tar stream, if it is there.
After(p, f) ==
    IF f = None \/ Verdict(stats[p], f) = "unmodified" THEN Idle
    ELSE [path |-> p, step |-> IF host[p] = None THEN "new"
                               ELSE IF Verdict(stats[p], f) = "modified" THEN "replace"
                               ELSE "compare"]

\* (fault) the file stays in files_to_do
TakeKeeps(p) ==
    /\ Fetching /\ cur = Idle /\ p \in todo
    /\ packed' = [packed EXCEPT ![p] = cont[p]]
    /\ cur' = After(p, cont[p])
    /\ UNCHANGED <<world, phase, todo, host, temp, cont, stats, given>>

\* The next file of files_to_do: as it is in the tar stream, or not found.
Take(p) ==
    /\ Fetching /\ cur = Idle /\ p \in todo
    /\ todo' = todo \ {p}
    /\ packed' = [packed EXCEPT ![p] = cont[p]]
    /\ cur' = After(p, cont[p])
    /\ UNCHANGED <<world, phase, host, temp, cont, stats, given>>

Copy(p) == [data |-> packed[p].data, mtime |-> now]

At(p, step) == Fetching /\ cur = [path |-> p, step |-> step]

\* "no local file": write it in place
OpenNew(p) ==
    /\ At(p, "new")
    /\ host' = [host EXCEPT ![p] = [data |-> Partial, mtime |-> now]]
    /\ cur' = [path |-> p, step |-> "write"]
    /\ UNCHANGED <<world, phase, todo, temp, cont, stats, given, packed>>

WriteNew(p) ==
    /\ At(p, "write")
    /\ host' = [host EXCEPT ![p] = Copy(p)]
    /\ cur' = Idle
    /\ UNCHANGED <<world, phase, todo, temp, cont, stats, given, packed>>

WriteTemp(p) ==
    /\ At(p, "replace")
    /\ temp' = [temp EXCEPT ![p] = Copy(p)]
    /\ cur' = [path |-> p, step |-> "unlink"]
    /\ UNCHANGED <<world, phase, todo, host, cont, stats, given, packed>>

WriteTempToCompare(p) ==
    /\ At(p, "compare")
    /\ temp' = [temp EXCEPT ![p] = Copy(p)]
    /\ cur' = [path |-> p, step |-> "digest"]
    /\ UNCHANGED <<world, phase, todo, host, cont, stats, given, packed>>

Digest(p) ==
    /\ At(p, "digest")
    /\ IF host[p].data = temp[p].data
         THEN temp' = [temp EXCEPT ![p] = None] /\ cur' = Idle
         ELSE cur' = [path |-> p, step |-> "unlink"] /\ UNCHANGED temp
    /\ UNCHANGED <<world, phase, todo, host, cont, stats, given, packed>>

\* (fault) the target goes before the copy is there
UnlinkFirst(p) ==
    /\ At(p, "unlink") \/ At(p, "replace")
    /\ host' = [host EXCEPT ![p] = None]
    /\ cur' = [path |-> p, step |-> "rename"]
    /\ UNCHANGED <<world, phase, todo, temp, cont, stats, given, packed>>

Unlink(p) ==
    /\ At(p, "unlink")
    /\ host' = [host EXCEPT ![p] = None]
    /\ cur' = [path |-> p, step |-> "rename"]
    /\ UNCHANGED <<world, phase, todo, temp, cont, stats, given, packed>>

Rename(p) ==
    /\ At(p, "rename")
    /\ host' = [host EXCEPT ![p] = temp[p]]
    /\ temp' = [temp EXCEPT ![p] = None]
    /\ cur' = Idle
    /\ UNCHANGED <<world, phase, todo, cont, stats, given, packed>>

Downloaded ==
    /\ Fetching /\ cur = Idle /\ todo = {}
    /\ phase' = "done"
    /\ UNCHANGED <<world, todo, host, temp, cont, stats, given, packed, cur>>

\* The file system or Docker fails; that a file is not found is no failure.
FetchFails ==
    /\ Fetching
    /\ phase' = "failed"
    /\ UNCHANGED <<world, todo, host, temp, cont, stats, given, packed, cur>>

----------------------------------------------------------------------------
(* the user *)

\* Ctrl-C while the client waits for the tool starts the download of what
\* there is, and during a download starts it anew; in that one it ends the run.
Interrupt ==
    /\ phase = "exec" \/ Fetching
    /\ presses < MaxPresses
    /\ presses' = presses + 1
    /\ cur' = Idle
    /\ IF phase = "rescue" THEN phase' = "failed" /\ UNCHANGED todo
                           ELSE phase' = "rescue" /\ todo' = Results
    /\ UNCHANGED <<now, host, temp, cont, stats, given, packed, running, backdated,
                   late, edited>>

\* The user saves a file of the host while the client waits for the tool.
Edit(p) ==
    /\ phase = "exec" /\ host[p] # None
    /\ \E d \in Data :
          LET f == [data |-> d, mtime |-> now] IN
          host' = [host EXCEPT ![p] = f] /\ edited' = [edited EXCEPT ![p] = f]
    /\ UNCHANGED <<now, phase, todo, temp, cont, stats, given, packed, cur,
                   presses, running, backdated, late>>

Tick ==
    /\ now < MaxTime
    /\ now' = now + 1
    /\ UNCHANGED <<phase, todo, host, temp, cont, stats, given, packed, cur,
                   presses, running, backdated, late, edited>>

----------------------------------------------------------------------------

Client ==
    \/ \E p \in Paths :
          \/ Upload(p) \/ Take(p) \/ OpenNew(p) \/ WriteNew(p)
          \/ WriteTemp(p) \/ WriteTempToCompare(p) \/ Digest(p) \/ Unlink(p) \/ Rename(p)
    \/ Start \/ Downloaded

Tool == Finish \/ \E p \in Paths :
                     ToolWrites(p) \/ ToolBackdates(p) \/ ToolDeletes(p)

User == Interrupt \/ \E p \in Paths : Edit(p)

Next == Client \/ Tool \/ User \/ FetchFails \/ Tick

Spec == Init /\ [][Next]_vars

\* The client does not pause.
FairSpec == Spec /\ WF_vars(Client)

----------------------------------------------------------------------------
(* Properties *)

Steps == {"idle", "new", "write", "replace", "compare", "digest", "unlink",
          "rename"}

TypeOK ==
    /\ now \in Times
    /\ phase \in {"upload", "exec", "download", "rescue", "done", "failed"}
    /\ todo \subseteq Paths
    /\ host \in [Paths -> Files \cup {None}]
    /\ temp \in [Paths -> Files \cup {None}]
    /\ cont \in [Paths -> Whole \cup {None}]
    /\ given \in [Paths -> Whole \cup {None}]
    /\ stats \in [Paths -> Stats \cup {None}]
    /\ cur \in [path: Paths \cup {None}, step: Steps]
    /\ running \in BOOLEAN
    /\ packed \in [Paths -> Whole \cup {None}]
    /\ presses \in 0..MaxPresses
    /\ backdated \subseteq Paths /\ late \subseteq Paths
    /\ edited \in [Paths -> Whole \cup {None}]

\* Is f, a state of the file p in the container, the work of the tool, with
\* the time at which it was done?
Altered(p, f) ==
    /\ p \notin backdated /\ f # None
    /\ given[p] = None \/ given[p].data # f.data

\* The heuristic of sizes and whole seconds never overlooks a result: at the
\* end each file has been packed as the tool left it, or as it found it at some
\* moment when the tool went on with it after a Ctrl-C, and what the tool had
\* written by then is on the host, unless it set the clock of the file back.
ResultsArrive ==
    phase = "done" => \A p \in Paths :
        /\ p \notin late => packed[p] = cont[p]
        /\ Altered(p, packed[p]) => host[p] # None /\ host[p].data = packed[p].data

\* A file that comes back as it was given, or does not come back, is left alone
\* on the host, with what the user saved meanwhile, when it was not uploaded
\* within the second in which it was written.
EditKept ==
    \A p \in Paths :
        /\ edited[p] # None /\ packed[p] \in {None, given[p]}
        /\ stats[p] # None /\ Sec(stats[p].mtime) # Sec(stats[p].up)
        => host[p] = edited[p]

\* A file of the host is at no moment without a complete copy under its own
\* or its temporary name, so that a crash or a Ctrl-C cannot lose it.
NeverGone ==
    \A p \in Paths : given[p] # None =>
        \/ host[p] # None /\ host[p].data # Partial
        \/ temp[p] # None

\* A download ends.
DownloadEnds == Fetching ~> phase \in {"done", "failed"}

----------------------------------------------------------------------------
(* Why the invariants hold *)

\* Until the download nothing is replaced, and before the tool runs all files
\* are whole and none is younger than now.
BeforeDownload ==
    /\ phase \in {"upload", "exec"} =>
          cur = Idle /\ \A p \in Paths : edited[p] # None => host[p] = edited[p]
    /\ phase = "upload" => \A p \in Paths :
          /\ host[p] # None => host[p] \in Whole /\ host[p].mtime <= now
          /\ p \in todo => host[p] # None
          /\ edited[p] = None

\* upload_stats say what was uploaded, and when.
StatsTrue ==
    \A p \in Paths :
        /\ stats[p] = None <=> given[p] = None
        /\ stats[p] # None =>
              /\ stats[p].size = Size(given[p].data)
              /\ stats[p].mtime = given[p].mtime
              /\ stats[p].mtime <= stats[p].up /\ stats[p].up <= now

\* What the tool has changed without setting the clock back is not older than
\* its upload.
Younger ==
    \A p \in Paths : stats[p] # None =>
        \A f \in {cont[p], packed[p]} : Altered(p, f) => f.mtime >= stats[p].up

\* Only a tool that a Ctrl-C has not stopped touches a file during a download;
\* the others are packed as they are.
Packing ==
    /\ phase \in {"upload", "download"} => ~running
    /\ phase \in {"upload", "exec"} \/ ~running => late = {}
    /\ phase \in {"upload", "exec"} => \A p \in Paths : packed[p] = None
    /\ running => \A p \in todo : packed[p] = None
    /\ \A p \in Paths \ late :
          /\ packed[p] \in {None, cont[p]}
          /\ phase \in {"download", "rescue", "done"} =>
                packed[p] = cont[p] \/ (Fetching /\ p \in todo)

\* What is known of the file that is being replaced.
Replacing ==
    Fetching /\ cur # Idle => \E p \in Paths :
        /\ cur.path = p /\ packed[p] # None
        /\ Verdict(stats[p], packed[p]) # "unmodified"
        /\ cur.step = "new" => host[p] = None
        /\ cur.step \in {"replace", "compare", "digest"} => host[p] # None
        /\ cur.step \in {"digest", "unlink", "rename"} =>
              temp[p] # None /\ temp[p].data = packed[p].data

\* A result has arrived, or is still to come.
Arrives ==
    phase \in {"download", "rescue", "done"} =>
        \A p \in Paths : Altered(p, packed[p]) =>
            \/ host[p] # None /\ host[p].data = packed[p].data
            \/ Fetching /\ (p \in todo \/ (cur # Idle /\ cur.path = p))

IInv ==
    /\ TypeOK /\ BeforeDownload /\ StatsTrue /\ Younger /\ Packing
    /\ Replacing /\ Arrives /\ ResultsArrive /\ EditKept /\ NeverGone
=============================================================================
