----------------------------- MODULE HostPaths ------------------------------
(***************************************************************************)
(* Paths of the host, as cincan/file_tool.py uses pathlib for them, and    *)
(* the names that they get in an archive.  A path is a sequence of names,  *)
(* an absolute one begins with "/", and "." is the empty sequence.         *)
(***************************************************************************)
EXTENDS Naturals, Sequences, SequencesExt

CONSTANTS
    Name,           \* the names in paths, "/" and ".." among them
    Letter,         \* what texts are made of: letters, and longer pieces
    Spelling(_),    \* the text of a name
    Cwd             \* the current directory, without links

Slash  == "/"
Up     == ".."
Here   == "."
Blank  == " "
RootDir == <<Slash>>

IsAbsolute(p) == p # <<>> /\ p[1] = Slash

\* "use absolute paths, if /../ used (ok, quite weak)"
\* (which finds the dots in a name such as "a..b" as well)
UseAbsolutePath(p) ==
    IsAbsolute(p) \/ \E i \in DOMAIN p : Contains(Spelling(p[i]), Up)

Paths    == {p \in Seq(Name) : \A i \in 2..Len(p) : p[i] # Slash}
Resolved == {p \in Paths : IsAbsolute(p) /\ ~Contains(p, Up)}
Plain    == {p \in Paths : ~IsAbsolute(p) /\ ~Contains(p, Up)}

ASSUME PathAssumption ==
    /\ {Slash, Up} \subseteq Name /\ Cwd \in Resolved
    /\ {Slash, Here} \subseteq Letter
    /\ \A n \in Name : Spelling(n) \in Seq(Letter) /\ Len(Spelling(n)) > 0
    /\ Spelling(Up) = <<Up>>

\* One name further; the root is its own parent.
Enter(dir, n) ==
    CASE n = Slash -> RootDir
      [] n = Up    -> IF dir = RootDir THEN RootDir ELSE Front(dir)
      [] OTHER     -> Append(dir, n)

\* Path.resolve, without links
Resolve(p) ==
    LET dir[i \in 0..Len(p)] == IF i = 0 THEN Cwd ELSE Enter(dir[i - 1], p[i])
    IN  dir[Len(p)]

\* __archive_name_for: its two results
HostFile(p)    == IF UseAbsolutePath(p) THEN Resolve(p) ELSE p
ArchiveName(p) == IF UseAbsolutePath(p) THEN Tail(Resolve(p)) ELSE p

\* The archive name is the empty text.
Nameless(p) == UseAbsolutePath(p) /\ Resolve(p) = RootDir

\* Path.parents, but for "."
Parents(p) == {SubSeq(p, 1, n) : n \in 1..(Len(p) - 1)}

----------------------------------------------------------------------------
(* Texts *)

\* Path.as_posix
Spelled(p) ==
    IF p = <<>> THEN <<Here>>
    ELSE FlattenSeq([i \in DOMAIN p |->
             IF i = 1 \/ p[i - 1] = Slash THEN Spelling(p[i])
             ELSE <<Slash>> \o Spelling(p[i])])

\* str.replace: every occurrence, from the left
ReplaceText(text, old, new) ==
    LET from[i \in 1..(Len(text) + 1)] ==
            IF i > Len(text) THEN <<>>
            ELSE IF IsPrefix(old, SubSeq(text, i, Len(text)))
                 THEN new \o from[i + Len(old)]
                 ELSE <<text[i]>> \o from[i + 1]
    IN  from[1]

\* the parts of an argument such as /t,d/t or "/t d/t"
Joined(mark, texts) ==
    FlattenSeq([i \in DOMAIN texts |->
                   IF i = 1 THEN texts[i] ELSE <<mark>> \o texts[i]])
=============================================================================
