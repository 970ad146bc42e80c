---------------------------- MODULE FileResolver ----------------------------
(***************************************************************************)
(* FileResolver of cincan/file_tool.py: it finds the files of the host     *)
(* that the arguments of a tool name, rewrites the arguments to the names  *)
(* that the files have in the container, and adds the directories of -d    *)
(* and those in which the tool may want to write.                          *)
(*                                                                         *)
(* An argument is a path as a whole, and may be divided into parts that    *)
(* are paths as well, with a mark such as a comma or a blank between them. *)
(***************************************************************************)
EXTENDS RunFiles

CONSTANT Quote                  \* a part with an unbalanced quotation mark

VARIABLES
    args,       \* original_args
    filters,    \* input_filters: [hits, include]
    hostFiles,  \* host_files, and already_listed, which has the same members
    command,    \* command_args, as texts
    reading     \* how the arguments have been read: as one path, or as their
                \* parts (history)

asked == <<host, args, outDirs, filters, inTar>>

ResolverInit ==
    /\ phase = "resolve"
    /\ hostFiles = outDirs
    /\ command = <<>> /\ reading = <<>>
    /\ uploads = {}

----------------------------------------------------------------------------
(* __file_exists *)

DirThere(p) == Resolve(p) \in DOMAIN host /\ host[Resolve(p)].kind = "dir"

\* Nothing is there when the path leads through what is not a directory.
Exists(p) ==
    /\ Resolve(p) \in DOMAIN host
    /\ \A q \in Parents(p) : DirThere(q)

IsDir(p) == Exists(p) /\ DirThere(p)

\* What is below a directory, under the name by which it was asked for.
Inside(p) ==
    LET there == Resolve(p)
    IN  {p \o SubSeq(h, Len(there) + 1, Len(h)) :
            h \in {f \in DOMAIN host : IsStrictPrefix(there, f)}}

\* "there is existing parent directory, perhaps for output"
ParentThere(p, files) ==
    ~UseAbsolutePath(p) /\ \E q \in Parents(p) : IsDir(q) /\ q \notin files

\* "No attempt to copy '/', leave it as it is"
FileExists(p, files, parentCheck) ==
    \/ Exists(p) /\ p # RootDir
    \/ ~Exists(p) /\ parentCheck /\ ParentThere(p, files)

\* (fault) an output directory that an argument names comes with its contents
ListedWithContents(files, p) ==
    files \cup {HostFile(p)} \cup (IF IsDir(p) THEN Inside(p) ELSE {})

\* the additions to already_listed, with those of __include_sub_dirs
Listed(files, p) ==
    files \cup {HostFile(p)}
          \cup (IF IsDir(p) /\ p \notin outDirs THEN Inside(p) ELSE {})

----------------------------------------------------------------------------
(* __analyze, one argument at a time *)

Resolving == phase = "resolve" /\ ~inTar /\ Len(command) < Len(args)
Arg       == args[Len(command) + 1]

\* The whole argument, whose parents are checked when it has a blank
WholeThere == FileExists(Arg.whole, hostFiles, Contains(Spelled(Arg.whole), Blank))

\* "Potential path as argument, not dividing it pieces yet"
IsWhole == WholeThere /\ ~Nameless(Arg.whole)

ResolveWhole ==
    /\ Resolving /\ IsWhole
    /\ hostFiles' = Listed(hostFiles, Arg.whole)
    /\ command' = Append(command, Spelled(ArchiveName(Arg.whole)))
    /\ reading' = Append(reading, <<Arg.whole>>)
    /\ UNCHANGED <<asked, phase, uploads>>

\* A part, and what it adds to host_files
ListPart(files, part) ==
    IF FileExists(part, files, TRUE) THEN Listed(files, part) ELSE files

\* (fault) the name on the host is put in, where the one in the archive belongs
RewritePartHost(text, part, files) ==
    IF FileExists(part, files, TRUE) /\ ~Nameless(part)
      THEN ReplaceText(text, Spelled(part), Spelled(HostFile(part)))
      ELSE text

\* All replacements are made in the whole text.
RewritePart(text, part, files) ==
    IF FileExists(part, files, TRUE) /\ ~Nameless(part)
      THEN ReplaceText(text, Spelled(part), Spelled(ArchiveName(part)))
      ELSE text

\* One part after the other, when the whole is not there or has no name
ResolveParts ==
    /\ Resolving /\ ~IsWhole /\ ~Contains(Arg.parts, Quote)
    /\ LET files[n \in 0..Len(Arg.parts)] ==
              IF n = 0 THEN IF WholeThere THEN Listed(hostFiles, Arg.whole) ELSE hostFiles
              ELSE ListPart(files[n - 1], Arg.parts[n])
           text[n \in 0..Len(Arg.parts)] ==
              IF n = 0 THEN Spelled(Arg.whole)
              ELSE RewritePart(text[n - 1], Arg.parts[n], files[n - 1])
       IN  /\ hostFiles' = files[Len(Arg.parts)]
           /\ command' = Append(command, text[Len(Arg.parts)])
    /\ reading' = Append(reading, Arg.parts)
    /\ UNCHANGED <<asked, phase, uploads>>

\* shlex: "No closing quotation"
ResolveRaises ==
    /\ Resolving /\ ~IsWhole /\ Contains(Arg.parts, Quote)
    /\ phase' = "failed"
    /\ UNCHANGED <<asked, hostFiles, command, reading, uploads>>

----------------------------------------------------------------------------

\* filter_upload_files of one FileMatcher
Passes(filter, f) == (f \in filter.hits) = filter.include

ApplyFilters ==
    /\ phase = "resolve" /\ ~inTar /\ Len(command) = Len(args)
    /\ phase' = "detect"
    /\ hostFiles' = {f \in hostFiles : \A x \in filters : Passes(x, f)}
    /\ UNCHANGED <<asked, command, reading, uploads>>

\* not do_resolve
TakeArgsAsTheyAre ==
    /\ phase = "resolve" /\ inTar
    /\ phase' = "detect"
    /\ command' = [i \in DOMAIN args |-> Spelled(args[i].whole)]
    /\ UNCHANGED <<asked, hostFiles, reading, uploads>>

\* Path.parents has "." as well, for a relative path
ParentsAndCwd(p) == Parents(p) \cup (IF IsAbsolute(p) THEN {} ELSE {<<>>})

\* the nearest parent that exists
Nearest(p) ==
    CHOOSE q \in ParentsAndCwd(p) :
        /\ Exists(q)
        /\ \A r \in ParentsAndCwd(p) : Exists(r) => Len(r) <= Len(q)

\* (fault) the directories in which the tool may write are left out
DetectExisting ==
    /\ phase = "detect"
    /\ phase' = "upload"
    /\ uploads' = {f \in hostFiles : Exists(f)}
    /\ UNCHANGED <<asked, hostFiles, command, reading>>

\* detect_upload_files and resolve_upload_files
DetectUploadFiles ==
    /\ phase = "detect"
    /\ phase' = "upload"
    /\ LET res     == {f \in hostFiles : Exists(f) \/ f \in outDirs}
           allDirs == res \cup UNION {ParentsAndCwd(f) : f \in res}
       IN  uploads' = res \cup
             ({Nearest(f) : f \in {g \in hostFiles : ~Exists(g)}} \ allDirs)
    /\ UNCHANGED <<asked, hostFiles, command, reading>>

Resolver ==
    \/ ResolveWhole \/ ResolveParts \/ ResolveRaises
    \/ ApplyFilters \/ TakeArgsAsTheyAre \/ DetectUploadFiles
=============================================================================
