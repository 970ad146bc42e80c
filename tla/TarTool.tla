------------------------------ MODULE TarTool -------------------------------
(***************************************************************************)
(* TarTool of cincan/tar_tool.py, without its filters (OutputSelect) and   *)
(* without the steps of one file (ResultFetch): the archive of the upload  *)
(* with upload_stats, and the download, which takes the results out of     *)
(* files_to_do and puts each of them into the current directory or into    *)
(* the archive of --out.                                                   *)
(*                                                                         *)
(* Files are records of their kind and of where their content comes from:  *)
(* "tool", or "backdated" when the tool has kept size and second of the    *)
(* input of that name, with which upload_stats are compared.               *)
(* Names in the container are relative to its working directory.           *)
(***************************************************************************)
EXTENDS RunFiles

CONSTANTS
    WorkDir,        \* the working directory of the container
    TempName(_),    \* a name with _TEMP appended
    Explicit,       \* possible --explicit-output options
    TarName         \* what the archive of --in has in it

VARIABLES
    cont,       \* the files in the working directory of the container
    stats,      \* upload_stats: what was uploaded under which name
    todo,       \* files_to_do
    lookIn,     \* the paths that are fetched from the container, one by one
    outTar,     \* --out
    tar         \* what is in its archive

ASSUME TarAssumption ==
    /\ WorkDir \in Resolved
    /\ \A n \in Name : TempName(n) # n

Dir == [kind |-> "dir", from |-> "mkdir"]

TarFile == [kind |-> "file", from |-> "tar"]

\* mkdir(parents=True), and the file or directory itself
Put(files, p, entry) ==
    [q \in {p} \cup DOMAIN files \cup Parents(p) |->
        IF q = p THEN entry ELSE IF q \in DOMAIN files THEN files[q] ELSE Dir]

TarInit ==
    /\ cont = <<>> /\ stats = <<>>
    /\ todo = {} /\ lookIn = {}
    /\ outTar = FALSE
    /\ tar = {}

----------------------------------------------------------------------------
(* upload *)

OnHost(p) == Resolve(p) \in DOMAIN host
Names     == {ArchiveName(u) : u \in uploads}

\* A file below the current directory and one from elsewhere may have one name;
\* the one whose path comes last in the order of the paths stays.  It is that
\* from elsewhere for a name such as "-x", which comes before "/".
Doubled == {n \in Names : /\ \E u \in uploads : ArchiveName(u) = n /\ UseAbsolutePath(u)
                          /\ \E u \in uploads : ArchiveName(u) = n /\ ~UseAbsolutePath(u)}

\* The source of a name, given the doubled names that are from elsewhere
Source(name, elsewhere) ==
    CHOOSE u \in uploads :
        /\ ArchiveName(u) = name
        /\ name \in Doubled => (UseAbsolutePath(u) <=> name \in elsewhere)

Entry(name, elsewhere) ==
    LET u == Source(name, elsewhere)
    IN  IF OnHost(u) THEN host[Resolve(u)] ELSE Dir

\* __create_tar: the files, and all directories leading to them
CreateTar(elsewhere) ==
    LET all == (Names \cup UNION {Parents(n) : n \in Names}) \ {<<>>}
    IN  [n \in all |-> IF n \in Names THEN Entry(n, elsewhere) ELSE Dir]

CreateStats(elsewhere) ==
    [n \in {m \in Names : OnHost(Source(m, elsewhere))} |-> Entry(n, elsewhere)]

Upload ==
    /\ phase = "upload"
    /\ phase' = "exec"
    /\ IF inTar
         THEN /\ cont' = [n \in {TarName} |-> TarFile]
              /\ stats' = [n \in {TarName} |-> TarFile]
         ELSE \E elsewhere \in SUBSET Doubled :
                 cont' = CreateTar(elsewhere) /\ stats' = CreateStats(elsewhere)
    /\ UNCHANGED <<host, outDirs, inTar, uploads, todo, lookIn, outTar, tar>>

----------------------------------------------------------------------------
(* download *)

\* (fault) the directories above are kept instead
LeavesTop == {c \in DOMAIN cont : \A d \in DOMAIN cont : ~IsStrictPrefix(d, c)}

\* "remove files which are paths to files"
Leaves == {c \in DOMAIN cont : \A d \in DOMAIN cont : ~IsStrictPrefix(c, d)}

\* --explicit-output, --no-implicit-output, or the default, which looks into
\* the working directory and then for each file.  Nothing reads these options
\* and --out before.
StartDownload ==
    /\ phase = "exec"
    /\ phase' = "download"
    /\ outTar' \in BOOLEAN
    /\ todo' = Leaves
    /\ \/ lookIn' \in Explicit
       \/ lookIn' = outDirs
       \/ lookIn' = outDirs \cup {<<>>}
    /\ UNCHANGED <<host, outDirs, inTar, uploads, cont, stats, tar>>

\* pathlib's "/" of the working directory and an option
InContainer(d) == IF IsAbsolute(d) THEN d ELSE WorkDir \o d

\* The member of files_to_do that get_archive brings.  Members that it brings
\* from a path with ".." have names that are not in files_to_do.
Fetched(c) ==
    \E d \in lookIn : ~Contains(d, Up) /\ IsPrefix(InContainer(d), WorkDir \o c)

\* __check_if_modified: what sizes and time stamps may say.  A directory has
\* another size in the container.
Verdicts(c) ==
    IF c \notin DOMAIN stats               THEN {"modified"}
    ELSE IF cont[c].from = "backdated"     THEN {"unmodified", "unsure"}
    ELSE IF cont[c] # stats[c]             THEN {"modified", "unsure"}
    ELSE IF cont[c].kind = "dir"           THEN {"modified", "unmodified", "unsure"}
    ELSE {"unmodified", "unsure"}

\* (fault) files go back to where absolute names came from
TargetRoot(c) == RootDir \o c

Target(c)  == Cwd \o c
There(c)   == Target(c) \in DOMAIN host
Blocked(c) == \E q \in Parents(Target(c)) :
                 q \in DOMAIN host /\ host[q].kind # "dir"

Placed(c, entry) == Put(host, Target(c), entry)

Temp(c)      == Front(Target(c)) \o <<TempName(Last(Target(c)))>>
TempTaken(c) == Temp(c) \in DOMAIN host /\ host[Temp(c)].kind = "dir"

\* the next member of a tar stream that is in files_to_do
Take(c) ==
    /\ phase = "download" /\ c \in todo /\ Fetched(c)
    /\ todo' = todo \ {c}
    /\ UNCHANGED <<outDirs, inTar, uploads, cont, stats, lookIn, outTar>>

Unmodified(c) ==
    /\ Take(c) /\ "unmodified" \in Verdicts(c)
    /\ UNCHANGED <<host, phase, tar>>

Modified(c) == Take(c) /\ Verdicts(c) # {"unmodified"}

IntoTar(c) ==
    /\ Modified(c) /\ outTar /\ cont[c].kind = "file"
    /\ tar' = tar \cup {c}
    /\ UNCHANGED <<host, phase>>

NewFile(c) ==
    /\ Modified(c) /\ ~outTar /\ cont[c].kind = "file" /\ ~There(c) /\ ~Blocked(c)
    /\ host' = Placed(c, cont[c])
    /\ UNCHANGED <<phase, tar>>

\* Replaced when it is modified, or when the digests differ; by way of a copy,
\* which takes the place of what has its name, and then that of the target.
OldFile(c) ==
    /\ Modified(c) /\ ~outTar /\ cont[c].kind = "file"
    /\ There(c) /\ host[Target(c)].kind = "file" /\ ~TempTaken(c)
    /\ host' = [p \in DOMAIN host \ {Temp(c)} |->
                   IF p = Target(c) THEN cont[c] ELSE host[p]]
    /\ UNCHANGED <<phase, tar>>

\* "must be a directory we need", or a link, or a device
NewDirectory(c) ==
    /\ Modified(c) /\ ~outTar /\ cont[c].kind # "file" /\ ~There(c) /\ ~Blocked(c)
    /\ host' = Placed(c, Dir)
    /\ UNCHANGED <<phase, tar>>

OldDirectory(c) ==
    /\ Modified(c) /\ ~outTar /\ cont[c].kind # "file" /\ There(c)
    /\ UNCHANGED <<host, phase, tar>>

\* extractfile of what is no file, a file in the way of a directory, or a
\* directory in the way of the copy
MemberRaises(c) ==
    /\ Modified(c)
    /\ IF outTar THEN cont[c].kind # "file"
       ELSE \/ ~There(c) /\ Blocked(c)
            \/ There(c) /\ cont[c].kind = "file" /\ TempTaken(c)
    /\ phase' = "failed"
    /\ UNCHANGED <<host, tar>>

\* A directory is in the way of a file, after the copy was written.
CopyRaises(c) ==
    /\ Modified(c) /\ ~outTar /\ cont[c].kind = "file"
    /\ There(c) /\ host[Target(c)].kind # "file" /\ ~TempTaken(c)
    /\ host' = [p \in DOMAIN host \cup {Temp(c)} |->
                   IF p = Temp(c) THEN cont[c] ELSE host[p]]
    /\ phase' = "failed"
    /\ UNCHANGED tar

Downloaded ==
    /\ phase = "download" /\ \A c \in todo : ~Fetched(c)
    /\ phase' = "done"
    /\ UNCHANGED <<host, outDirs, inTar, uploads, cont, stats, todo, lookIn,
                   outTar, tar>>

Tar ==
    \/ Upload \/ StartDownload \/ Downloaded
    \/ \E c \in DOMAIN cont :
          \/ Unmodified(c) \/ IntoTar(c) \/ NewFile(c) \/ OldFile(c)
          \/ NewDirectory(c) \/ OldDirectory(c) \/ MemberRaises(c) \/ CopyRaises(c)
=============================================================================
