---------------------------- MODULE OutputSelect ----------------------------
(***************************************************************************)
(* TarTool.__filter_files of cincan/tar_tool.py: which of the paths that   *)
(* the container's diff names are results.  Filters of the user (--out-    *)
(* filter) and of the image (.cincanignore) are sorted, merged and applied *)
(* one after the other.  What a pattern matches is a constant here; how a  *)
(* pattern is matched is the subject of module Glob.                       *)
(***************************************************************************)
EXTENDS Naturals, Sequences, FiniteSets, SequencesExt

CONSTANTS
    Paths,          \* absolute paths: sequences of names
    WorkDir,        \* the working directory of the container
    Patterns,       \* match_string of filters
    Hits(_),        \* the paths that a pattern matches
    IgnoreFile,     \* the pattern ".cincanignore", which is always ignored
    MaxFilters      \* number of --out-filter options (bound)

ASSUME SelectAssumption ==
    /\ Paths \subseteq Seq(STRING) \ {<<>>}
    /\ WorkDir \in Seq(STRING)
    /\ IgnoreFile \in Patterns
    /\ \A p \in Patterns : Hits(p) \subseteq Paths
    /\ MaxFilters \in Nat

Filter == [pattern: Patterns, include: BOOLEAN]

Excluding(p) == [pattern |-> p, include |-> FALSE]

VARIABLES
    diff,       \* the container's diff: what changed, and the directories above
    filters,    \* --out-filter, in the order of the options
    defaults,   \* not --no-defaults
    ignore,     \* the patterns of .cincanignore
    phase,
    pos,        \* where enumerate() is
    excl,       \* output_filters_to_exclude
    incl,       \* output_filters_to_include
    queue,      \* filters that are still to be applied
    kept        \* the candidates that are left

given == <<diff, filters, defaults, ignore>>
vars  == <<diff, filters, defaults, ignore, phase, pos, excl, incl, queue,
           kept>>

Init ==
    /\ diff \in {d \in SUBSET Paths : \A c \in d, e \in Paths : IsPrefix(e, c) => e \in d}
    /\ filters \in UNION {[1..n -> Filter] : n \in 0..MaxFilters}
    /\ defaults \in BOOLEAN
    /\ \E s \in SUBSET (Patterns \ {IgnoreFile}) : ignore = s \cup {IgnoreFile}
    /\ phase = "sort"
    /\ pos = 1
    /\ excl = filters
    /\ incl = <<>>
    /\ queue = {}
    /\ kept = {}

----------------------------------------------------------------------------

\* pop(i) while enumerate(...) runs: what follows moves up, pos moves on
SortInclude ==
    /\ phase = "sort" /\ pos <= Len(excl) /\ excl[pos].include
    /\ incl' = Append(incl, excl[pos])
    /\ excl' = RemoveAt(excl, pos)
    /\ pos' = pos + 1
    /\ UNCHANGED <<given, phase, queue, kept>>

SortExclude ==
    /\ phase = "sort" /\ pos <= Len(excl) /\ ~excl[pos].include
    /\ pos' = pos + 1
    /\ UNCHANGED <<given, phase, excl, incl, queue, kept>>

\* "paths to files" go, and what is not in the working directory
Leaves(d) ==
    {c \in d : /\ \A e \in d : ~IsStrictPrefix(c, e)
               /\ IsStrictPrefix(WorkDir, c)}

IgnoreFilters == {Excluding(p) : p \in ignore}

\* The excluding filters of the user, and those of the image that are not
\* equal to the first of them: equal to a later one they are there twice.
Merged ==
    IF excl = <<>> THEN IgnoreFilters
    ELSE ToSet(excl) \cup {f \in IgnoreFilters : f.pattern # excl[1].pattern}

\* (fault) the ignored files of the image are left in when the user excludes
ChosenUserOnly ==
    CASE ~defaults                                -> ToSet(filters)
      [] defaults /\ filters = <<>>               -> IgnoreFilters
      [] defaults /\ filters # <<>> /\ incl # <<>> -> ToSet(incl)
      [] OTHER                                    -> ToSet(excl)

\* (fault) --no-defaults is not looked at when there are including filters
ChosenIncluding ==
    CASE incl # <<>>                              -> ToSet(incl) \cup IgnoreFilters
      [] incl = <<>> /\ ~defaults                 -> ToSet(filters)
      [] OTHER                                    -> Merged

\* Without the defaults all filters of the user; the image's; the including
\* ones; or the merged excluding ones.
Chosen ==
    CASE ~defaults                                -> ToSet(filters)
      [] defaults /\ filters = <<>>               -> IgnoreFilters
      [] defaults /\ filters # <<>> /\ incl # <<>> -> ToSet(incl)
      [] OTHER                                    -> Merged

Choose ==
    /\ phase = "sort" /\ pos > Len(excl)
    /\ kept' = Leaves(diff)
    /\ queue' = Chosen
    /\ phase' = "apply"
    /\ UNCHANGED <<given, pos, excl, incl>>

Passes(f, c) == (c \in Hits(f.pattern)) = f.include

\* (fault) an including filter brings its files back
ApplyAdds ==
    /\ phase = "apply"
    /\ \E f \in queue :
          /\ kept' = IF f.include
                       THEN kept \cup (Hits(f.pattern) \cap Leaves(diff))
                       ELSE {c \in kept : Passes(f, c)}
          /\ queue' = queue \ {f}
    /\ UNCHANGED <<given, phase, pos, excl, incl>>

\* filter_download_files; the merged filters are a Python set, in any order
Apply ==
    /\ phase = "apply"
    /\ \E f \in queue :
          /\ kept' = {c \in kept : Passes(f, c)}
          /\ queue' = queue \ {f}
    /\ UNCHANGED <<given, phase, pos, excl, incl>>

Return ==
    /\ phase = "apply" /\ queue = {}
    /\ phase' = "done"
    /\ UNCHANGED <<given, pos, excl, incl, queue, kept>>

Next == SortInclude \/ SortExclude \/ Choose \/ Apply \/ Return

Spec == Init /\ [][Next]_vars

----------------------------------------------------------------------------
(* What is asked for *)

User == ToSet(filters)

Ignored(c) == \E p \in ignore : c \in Hits(p)

Including == {f \in User : f.include}

\* Including filters make the image's ignored files, and the user's own
\* excluding filters, irrelevant.
Asked(c) ==
    IF Including # {} /\ defaults THEN \A f \in Including : Passes(f, c)
    ELSE (\A f \in User : Passes(f, c)) /\ (defaults => ~Ignored(c))

\* Where the enumeration is over the list it takes from, it passes over the
\* filter that follows one it takes.
Neighbours ==
    \E k \in 1..(Len(filters) - 1) : filters[k].include /\ filters[k + 1].include

----------------------------------------------------------------------------
(* Properties *)

TypeOK ==
    /\ diff \subseteq Paths
    /\ filters \in Seq(Filter) /\ Len(filters) <= MaxFilters
    /\ defaults \in BOOLEAN
    /\ ignore \subseteq Patterns
    /\ phase \in {"sort", "apply", "done"}
    /\ pos \in 1..(MaxFilters + 1)
    /\ excl \in Seq(Filter) /\ incl \in Seq(Filter)
    /\ \A k \in 1..Len(incl) : incl[k].include
    /\ queue \subseteq Filter
    /\ kept \subseteq Leaves(diff)

\* The results are the files that were asked for, in whatever order the
\* filters are applied, unless two including filters follow each other.
AsAsked ==
    phase = "done" /\ (~Neighbours \/ ~defaults) =>
        kept = {c \in Leaves(diff) : Asked(c)}

\* Nothing that all filters let pass is lost on the way.
WantedArrives ==
    phase = "done" =>
        \A c \in Leaves(diff) :
            /\ \A f \in User : Passes(f, c)
            /\ Including # {} \/ ~defaults \/ ~Ignored(c)
            => c \in kept

\* A file that the image ignores is a result only when the user says so.
IgnoredStays ==
    phase = "done" => \A c \in kept :
        Ignored(c) => ~defaults \/ \E f \in Including : c \in Hits(f.pattern)

\* "If we have some including filters, only those are applied", every one of
\* them: no result misses the pattern of an including filter.
IncludesApplied ==
    phase = "done" => \A c \in kept, f \in Including : Passes(f, c)

----------------------------------------------------------------------------
(* Why the invariants hold *)

\* The sorting loses no filter and puts none into the wrong list of including
\* ones, and it takes at least the first of these.  Without two of them in a
\* row it leaves none behind.
Sorting ==
    /\ Len(excl) + Len(incl) = Len(filters)
    /\ ToSet(excl) \cup ToSet(incl) = User
    /\ phase # "sort" => pos > Len(excl)
    /\ incl = <<>> =>
          /\ excl = filters
          /\ \A k \in 1..Len(excl) : k < pos => ~excl[k].include
    /\ ~Neighbours => \A k \in 1..Len(excl) :
          IF k < pos THEN ~excl[k].include ELSE excl[k] = filters[k + Len(incl)]

\* What is kept has passed the chosen filters that are not in the queue.
Filtering ==
    /\ phase # "sort" =>
          /\ queue \subseteq Chosen
          /\ kept = {c \in Leaves(diff) : \A f \in Chosen \ queue : Passes(f, c)}
    /\ phase = "done" => queue = {}

IInv == TypeOK /\ Sorting /\ Filtering
=============================================================================
