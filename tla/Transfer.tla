------------------------------ MODULE Transfer ------------------------------
(***************************************************************************)
(* The files of one run, from the arguments to the results: FileResolver   *)
(* decides what is uploaded, TarTool uploads it, the tool writes something *)
(* in its container, and TarTool downloads what has changed.  As in        *)
(* ToolImage.__run of cincan/frontend.py.                                  *)
(***************************************************************************)
EXTENDS FileResolver, TarTool

CONSTANTS
    Hosts,          \* what may be on the host before
    Arguments,      \* possible arguments
    MaxParts,       \* parts in all arguments together (bound)
    OutDirs,        \* possible sets of -d directories
    Filters,        \* possible sets of --in-filter options
    ToolNames       \* what the tool may write

\* The tool's own work
ToolMade == {"tool", "backdated"}

ASSUME TransferAssumption ==
    /\ \A h \in Hosts : IsTree(h) /\ \A p \in DOMAIN h : h[p].from \notin ToolMade
    /\ Arguments \subseteq [whole: Paths, parts: Seq(Paths) \ {<<>>}, mark: Letter]
    /\ \A a \in Arguments :
          /\ Spelled(a.whole) = Joined(a.mark, [j \in DOMAIN a.parts |-> Spelled(a.parts[j])])
          /\ Len(a.parts) = 1 => a.parts[1] = a.whole
          /\ Len(a.parts) > 1 =>
                \A j \in DOMAIN a.parts : ~Contains(Spelled(a.parts[j]), a.mark)
    /\ \A ds \in OutDirs \cup Explicit : ds \subseteq Paths
    /\ ToolNames \cup {TarName} \subseteq Plain \ {<<>>}

VARIABLES
    start,      \* the host before (history)
    wrote       \* what the tool has written (history)

resolving == <<args, filters, hostFiles, command, reading>>
tarring   == <<cont, stats, todo, lookIn, outTar, tar>>
vars      == <<host, args, outDirs, filters, inTar, phase, hostFiles, command,
               reading, uploads, cont, stats, todo, lookIn, outTar, tar, start,
               wrote>>

Parts(as) == FoldLeft(LAMBDA n, a : n + Len(a.parts), 0, as)

Init ==
    /\ host \in Hosts
    /\ args \in {s \in BoundedSeq(Arguments, MaxParts) : Parts(s) <= MaxParts}
    /\ outDirs \in OutDirs
    /\ filters \in Filters
    /\ inTar \in BOOLEAN
    /\ ResolverInit
    /\ TarInit
    /\ start = host
    /\ wrote = {}

Analysis == Resolver /\ UNCHANGED <<tarring, start, wrote>>
Transport == Tar /\ UNCHANGED <<resolving, start, wrote>>

\* The tool writes a file, in time or with size and second of the input, or
\* makes something else (a link, which is for TarTool no more a file than a
\* directory is), where no file is in the way.
ToolWrites ==
    /\ phase = "exec" /\ wrote = {}
    /\ \E c \in ToolNames, k \in {"file", "link"}, f \in ToolMade :
          /\ f = "backdated" => k = "file" /\ c \in DOMAIN stats
          /\ \A q \in Parents(c) \cap DOMAIN cont : cont[q].kind = "dir"
          /\ \A d \in DOMAIN cont : ~IsStrictPrefix(c, d)
          /\ cont' = Put(cont, c, [kind |-> k, from |-> f])
          /\ wrote' = {c}
    /\ UNCHANGED <<resolving, host, outDirs, inTar, phase, uploads, stats, todo,
                   lookIn, outTar, tar, start>>

Next == Analysis \/ Transport \/ ToolWrites

Spec == Init /\ [][Next]_vars

----------------------------------------------------------------------------
(* Properties *)

\* What the arguments have been read as, and the arguments as one path
Read   == UNION {{reading[i][j] : j \in DOMAIN reading[i]} : i \in DOMAIN reading}
Wholes == {args[i].whole : i \in DOMAIN args}

\* What a part of an argument means: the file or directory itself, and, but
\* for an output directory, everything below.
Meant(part) ==
    IF ~Exists(part) \/ part = RootDir THEN {}
    ELSE {HostFile(part)}
         \cup (IF part \in outDirs THEN {} ELSE Inside(part))

Named == outDirs \cup Read

Asked == {f \in outDirs \cup UNION {Meant(p) : p \in Read \cup Wholes} :
             \A x \in filters : Passes(x, f)}

\* The path to a file that is not there may lead through a file.
InTheWay == UNION {Parents(p) : p \in {n \in Named : ~Exists(n)}}

FilesOf(S) == {f \in S : Exists(f) /\ ~IsDir(f)}

\* The files that are uploaded are exactly those that an option or argument
\* names, or that are below a directory which an argument names, and that
\* pass the filters; in whatever order and however often they are named.
\* (Only a file in the way of one that is not there comes with them unasked.)
UploadsAsked ==
    phase = "upload" /\ ~inTar =>
        /\ FilesOf(Asked) \subseteq uploads
        /\ FilesOf(uploads) \subseteq Asked \cup InTheWay

NewName(part) ==
    IF Exists(part) /\ ~Nameless(part) THEN ArchiveName(part) ELSE part

\* The text of a part that gets another name is found in another part, or in
\* the new name of one: the replacement hits both.
Overlaps(parts) ==
    \E i, j \in DOMAIN parts :
        /\ i # j /\ NewName(parts[i]) # parts[i]
        /\ \E new \in {Spelled(NewName(parts[j]))} \cup
                       (IF parts[i] = parts[j] THEN {} ELSE {Spelled(parts[j])}) :
              \E m \in DOMAIN new :
                 IsPrefix(Spelled(parts[i]), SubSeq(new, m, Len(new)))

\* A relative path with a blank that is not there, below a directory that is
Glued(arg) ==
    /\ Contains(Spelled(arg.whole), Blank) /\ ~Exists(arg.whole)
    /\ ~UseAbsolutePath(arg.whole) /\ \E q \in Parents(arg.whole) : IsDir(q)

\* How an argument is to be read: as one path when that is there, else in parts
Understood(arg) ==
    IF Exists(arg.whole) /\ ~Nameless(arg.whole) THEN <<arg.whole>> ELSE arg.parts

Renamed(mark, parts) ==
    Joined(mark, [j \in DOMAIN parts |-> Spelled(NewName(parts[j]))])

\* In the container an argument names the files that it named on the host,
\* under the names under which they are uploaded; unless one replacement hits
\* two parts, or a blank makes one path to write to out of several parts.
ArgumentsMean ==
    phase = "upload" /\ ~inTar => \A i \in DOMAIN args :
        /\ reading[i] = Understood(args[i]) \/ Glued(args[i])
        /\ command[i] = Renamed(args[i].mark, reading[i]) \/ Overlaps(reading[i])

\* A directory in the container, unless a file that is uploaded has its name
HasPlace(c) ==
    \/ c = <<>>
    \/ c \in DOMAIN cont /\ cont[c].kind = "dir"
    \/ \E u \in uploads : ArchiveName(u) = c /\ OnHost(u) /\ ~DirThere(u)

\* A relative name that is resolved all the same, for the dots in it
Detour(p) == UseAbsolutePath(p) /\ ~IsAbsolute(p) /\ p[1] # Up

\* A tool finds the directories of -d, and those in which it is told to write,
\* unless a filter drops them, or a file is listed with dots in its name, or
\* with --in.
PlacesMade ==
    phase = "exec" /\ wrote = {} /\ ~inTar /\ filters = {} =>
        /\ \A d \in outDirs : HasPlace(ArchiveName(d))
        /\ \/ \E f \in hostFiles : Detour(f)
           \/ \A p \in Read : ~UseAbsolutePath(p) /\ ~Exists(p) =>
                 \A q \in Parents(p) : IsDir(q) => HasPlace(q)

\* An input with this name comes from elsewhere: its own name is absolute, or
\* it comes from the archive of --in.
Borrowed(c) == inTar \/ \E u \in uploads : UseAbsolutePath(u) /\ ArchiveName(u) = c

\* The name of the copy of a file from the container is used.
CopyOf(p) == \E c \in DOMAIN cont : cont[c].kind = "file" /\ p = Temp(c)

\* The host keeps its files as they are, and gets no others, but where the
\* tool has written, directories, and what has the name of a copy.  (An input
\* from elsewhere may be taken for a result when it is as young as the run.)
HostKept ==
    /\ \A p \in DOMAIN start : p \in DOMAIN host \/ CopyOf(p)
    /\ \A p \in DOMAIN host :
          \/ p \in DOMAIN start /\ host[p] = start[p]
          \/ p \notin DOMAIN start /\ host[p].kind = "dir"
          \/ \E c \in DOMAIN cont : p = Target(c) /\ (c \in wrote \/ Borrowed(c))
          \/ CopyOf(p)

\* A download that ends well has fetched every file that the tool has written
\* below one of the paths to look in, whether or not an input had its name;
\* unless it has kept size and second of that input, or a copy had the name.
ResultsPlaced ==
    phase = "done" => \A c \in wrote, d \in lookIn :
        /\ cont[c].kind = "file" /\ (cont[c].from = "backdated" => c \notin DOMAIN stats)
        /\ ~Contains(d, Up) /\ IsPrefix(InContainer(d), WorkDir \o c)
        /\ ~CopyOf(Target(c))
        => IF outTar THEN c \in tar
           ELSE Target(c) \in DOMAIN host /\ host[Target(c)] = cont[c]

\* "these are output directories, upload them without contents": what is below
\* them is not there unless an argument names it.
MkdirEmpty ==
    phase = "exec" /\ wrote = {} /\ ~inTar =>
        \A d \in outDirs, c \in DOMAIN cont :
            IsStrictPrefix(ArchiveName(d), c) =>
                c \in {ArchiveName(p) : p \in Read}

----------------------------------------------------------------------------
(* The inductive invariant behind the theorems of TransferProofs *)

TypeOK ==
    /\ phase \in {"resolve", "detect", "upload", "exec", "download", "done",
                  "failed"}
    /\ args \in Seq(Arguments) /\ outDirs \in OutDirs /\ filters \in Filters
    /\ inTar \in BOOLEAN /\ outTar \in BOOLEAN
    /\ hostFiles \subseteq Paths /\ uploads \subseteq Paths
    /\ Len(command) \in 0..Len(args)
    /\ command = [i \in 1..Len(command) |-> command[i]]
    /\ reading = [i \in 1..Len(reading) |-> reading[i]]
    /\ Len(reading) = IF inTar THEN 0 ELSE Len(command)
    /\ \A i \in 1..Len(reading) : reading[i] \in {<<args[i].whole>>, args[i].parts}
    /\ start \in Hosts
    /\ DOMAIN cont \subseteq Plain \ {<<>>} /\ wrote \subseteq DOMAIN cont
    /\ todo \subseteq DOMAIN cont

\* Nothing has changed before the tool runs, and the tool does not change the
\* host.
Waits ==
    /\ phase \in {"resolve", "detect", "upload", "exec"} => host = start
    /\ phase \in {"resolve", "detect", "upload"} => wrote = {} /\ cont = <<>>

\* What is listed when the given paths have been resolved
Lists(files, parts) ==
    /\ outDirs \subseteq files
    /\ FilesOf(files) = FilesOf(outDirs \cup UNION {Meant(p) : p \in parts})
    /\ \A f \in files : Exists(f) \/ f \in outDirs \cup parts
    /\ \A p \in parts : ~UseAbsolutePath(p) /\ ~Exists(p) =>
          p \in files \/ \A q \in Parents(p) : IsDir(q) => q \in files

\* A whole that is there is listed even when it has no name.
Done == Read \cup {p \in {args[i].whole : i \in 1..Len(command)} : Exists(p)}

Listing ==
    /\ phase = "resolve" /\ ~inTar => Lists(hostFiles, Done)
    /\ phase = "detect" /\ ~inTar =>
          /\ Len(command) = Len(args)
          /\ FilesOf(hostFiles) = FilesOf(Asked)
          /\ \A f \in hostFiles : Exists(f) \/ f \in Named
          /\ filters = {} => Lists(hostFiles, Done)

\* The arguments that are done
Rewritten ==
    phase \in {"resolve", "detect", "upload"} /\ ~inTar =>
        /\ phase = "upload" => Len(command) = Len(args)
        /\ \A i \in 1..Len(command) :
              /\ reading[i] = Understood(args[i]) \/ Glued(args[i])
              /\ \/ command[i] = Renamed(args[i].mark, reading[i])
                 \/ Overlaps(reading[i])

\* The way to what is uploaded leads to every place of PlacesMade.
Leads(q) == \E n \in Names : q = n \/ q \in Parents(n)

Places ==
    /\ outDirs \subseteq uploads
    /\ \/ \E f \in hostFiles : Detour(f)
       \/ \A p \in Read : ~UseAbsolutePath(p) /\ ~Exists(p) =>
             \A q \in Parents(p) : IsDir(q) => Leads(q)

Packing ==
    /\ phase \in {"upload", "exec"} /\ ~inTar /\ filters = {} => Places
    /\ phase = "exec" /\ wrote = {} /\ ~inTar =>
          \E elsewhere \in SUBSET Doubled : cont = CreateTar(elsewhere)

\* A file in the container is the tool's or the user's.
Origins ==
    /\ \A c \in DOMAIN cont :
          \/ c \in wrote \/ Borrowed(c) \/ cont[c].kind # "file"
          \/ Target(c) \in DOMAIN start /\ cont[c] = start[Target(c)]
    /\ \A c \in wrote : cont[c].from \in ToolMade
    /\ \A c \in DOMAIN stats : stats[c].from \notin ToolMade

\* What the tool has written is still to be fetched, or has been.
Fetching ==
    \A c \in wrote :
        /\ \A d \in DOMAIN cont : ~IsStrictPrefix(c, d)
        /\ /\ phase \in {"download", "done"} /\ cont[c].kind = "file"
           /\ cont[c].from = "backdated" => c \notin DOMAIN stats
           /\ ~CopyOf(Target(c))
           => \/ c \in todo
              \/ IF outTar THEN c \in tar
                 ELSE Target(c) \in DOMAIN host /\ host[Target(c)] = cont[c]
        /\ phase = "done" => ~(c \in todo /\ Fetched(c))

IInv ==
    /\ TypeOK /\ Waits /\ Listing /\ Rewritten /\ Packing /\ Origins /\ Fetching
    /\ UploadsAsked /\ HostKept
=============================================================================
