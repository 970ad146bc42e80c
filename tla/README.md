# cincan-command: TLA+ models, checks and proofs

`cincan run` executes a command line tool in a Docker container as if it were
installed on the host: it guesses which arguments are files, copies them into a
fresh container, connects stdin, stdout and stderr, waits for the tool, copies
the changed files back, removes the container, enters the run in a command log
and exits with the tool's exit code. This directory models that program. Paths
below are relative to the repository, `cincan/` being the program.

## 1. Inventory

| Component | Code | State | Operations |
|---|---|---|---|
| Run lifecycle | `frontend.py` `ToolImage.__run`, `__create_container`, `_detect_shell`, `__container_exec` (calls), `__download_results`, end of `main` | Docker containers and image, terminal mode, `CommandLog`, pending exception, exit code | probe, create, upload, set raw, attach, start, loop, wait, record, download, kill, commit, remove, remove image, write log, exit; Ctrl-C |
| Stream loop | `frontend.py` `__container_exec` (loop), `__unpack_container_stream`, `ToolStream` | `active_streams`, `c_socket_open`, offsets, hashes | select, read stdin, send, shut down, read a frame, write it |
| Argument resolution | `file_tool.py` `FileResolver` | `host_files`, `already_listed`, `command_args` | analyse, include directories, filter, add directories |
| Upload, download | `tar_tool.py` `TarTool` | `upload_stats`, `files_to_do`, files on the host, `_TEMP` files, the archive of `--out` | build and put an archive, get archives, decide per file, replace |
| Result selection | `tar_tool.py` `__filter_files` | lists of filters, candidates | sort, merge and apply filters |
| File patterns | `file_tool.py` `FileMatcher` | position of the scan | match |
| Command log store | `command_log.py` | `~/.cincan/uid.txt`, one file per run | find or make the uid, write an entry, load all |
| Image retrieval | `image_fetcher.py` | local images, the name that is asked for | look up, pull, fall back to the development tag, repeat |
| Self test | `container_check.py` | two files and directories on the host | make, run, compare, remove |
| Inspector, versions, configuration, helpers, registry subcommands | `command_inspector.py`, `version_handler.py`, `configuration.py`, `utils.py`, package `cincanregistry` | none, or outside this repository | display |

How they interact: `main` builds a `ToolImage`, which retrieves the image, and
calls `run`; `__run` calls `FileResolver`, creates the container, uploads with
`TarTool` and keeps `upload_stats` for the download, runs the stream loop,
downloads with a second `TarTool` on the same `upload_stats`, and cleans up in
a `finally`; `main` writes the entry with a `CommandLogWriter`. `cincan test`
puts a whole run between its own set-up and clean-up. The Docker daemon, the
tool and the user act concurrently with all of this; other `cincan` processes
share the images and the log directory.

What is hard in this code:

- **Failure and interrupts.** Some 20 calls to Docker, the file system and the
  terminal may fail, and Ctrl-C can come between any two. Three handlers
  (`except KeyboardInterrupt`, `finally`, and the `try` inside it) decide what
  is still done.
- **Two-way streaming.** One thread copies in both directions over bounded
  channels, with blocking sends.
- **Heuristics about time.** Whether a result is new is guessed from its size
  and two time stamps cut to whole seconds.
- **Names.** A file is named by an argument, by an absolute path, inside the
  archive and in the container; arguments are rewritten as text, and a result
  is looked for in up to three places.
- **Shared state without locks.** `uid.txt`, the log entries, the images.
- **A repeated call without a bound** in the retrieval of an image.
- **A list changed while it is enumerated, and a greedy pattern match.**

What makes each part correct: see section 4. `PROJECT.json` lists the hazards
with their lines.

## 2. Modules

| Module | Models | Checked by | Proofs |
|---|---|---|---|
| `RunContract` | what one run promises its caller (abstract) | refined by `ToolRun`, used by `SelfTest` | |
| `ToolRun` | run lifecycle | `ToolRun.cfg`, `ToolRunTerminal.cfg` | `ToolRunProofs` |
| `ExecStream` | stream loop | `ExecStream.cfg` | `ExecStreamProofs` |
| `AppendLog` | a log that only grows (abstract) | refined by `LogStore` | |
| `LogStore` | command log store | `LogStore.cfg` | `LogStoreProofs` |
| `ImageFetch` | image retrieval | `ImageFetch.cfg` | `ImageFetchProofs` |
| `SelfTest` | self test, around `RunContract` | `SelfTest.cfg` | `ToolRunProofs` |
| `HostPaths` | paths, their names in the archive and as texts | in `Transfer` | |
| `RunFiles` | what the next two share: host, uploads, phase | in `Transfer` | |
| `FileResolver` | argument resolution | in `Transfer` | in `TransferProofs` |
| `TarTool` | upload and download of all files | in `Transfer` | in `TransferProofs` |
| `Transfer` | `FileResolver`, `TarTool` and a tool, composed | `Transfer.cfg`, `TransferMkdir.cfg` | `TransferProofs` |
| `ResultFetch` | the fate of one file in upload and download, step by step | `ResultFetch.cfg` | `ResultFetchProofs` |
| `OutputSelect` | `TarTool.__filter_files` | `OutputSelect.cfg`, `OutputSelectIncludes.cfg` | `OutputSelectProofs` |
| `Glob` | `FileMatcher.__match` | `Glob.cfg` | `GlobProofs` |

Each `MC*` module gives the constants of its module values for TLC. The
operators marked `(fault)` are plausible bugs of the definition next to them;
each property is known to fail when one of them takes the place of the original.

**ToolRun.** `pc` names the call that the client is about to make. A call has an
action for its success and one for its failure; when the answer of a mutating
call is lost, it may or may not have taken effect. `Throw` is where the three
handlers of `__run` are: from `__container_exec` to the download an exception
leads to `kill`, from everywhere else it ends the process. `Interrupt` is
`KeyboardInterrupt` (or `rescue`, the second download). `box[0]` is the tool's
container, the others are those of the shell probe. Where the code catches
Docker's `APIError` and goes on (`kill`, the removal of a built image) there is
an action for the refusal as well (`KillRefused`, `RmImageRefused`) next to the
one for what the handler lets through. `log` has the exit code
(zero or not) and whether inputs and outputs are entered. What the streams carry
is in `ExecStream`, what the download writes in `ResultFetch` and `TarTool`.

**ExecStream.** Data are counted units, so that the offset arithmetic of `send`
and the framing are kept, and the contents are not. `up` and `down` are what
lies between client and tool. The tool is a filter: one unit of output on stdout
or stderr for one of input, in order; it may quit at any time. `Break` loses a
suffix of what is on its way, cut between frames, in a header or in a frame.
`HostRefuses` is a stdout or stderr of the host that takes no more (the reader of
a pipe is gone, the disk is full); the next write to it raises (`RecvRefused`).
In one round of `select` the socket comes first and stdin (`alsoStdin`) after it,
as in the list.

**LogStore.** Every access to the file system is one step. A process may die
before each; `now` takes any value, as local time may be set back. `raced` and
`clash` record that two processes were between the same test and its use. Under
the mapping of `KeepsLog` the log has the entries that can be read, and a
`clash` is the one accident that `AppendLog` allows.

**ImageFetch.** An image is a repository and a tag; repositories are told apart
only by their registry (Docker Hub, the default one, another). `Convert` and
`NameTag` are `namespace_conversion` and the choice of the tag, `at` names the
call to Docker, `depth` counts how often `get_image` has called itself. The
registry is fixed; another process may remove images. `Wanted` is what the
command line means, written without the code's conversions.

**SelfTest.** A directory has the file `cincan.txt` and perhaps others, and may
be there before, with what an earlier test or the user has left. The run of the
tool in the middle is every behaviour of `RunContract`, which `ToolRun` is
proved to implement, so that the two modules compose without the state of both.

**HostPaths, RunFiles, FileResolver, TarTool, Transfer.** A path is a sequence
of names, an absolute one beginning with "/"; the host's files are a tree
(`IsTree`), each with its kind and where its content comes from. `Spelled` is the
text of a path, of letters, since `str.replace` and the tests for ".." and " "
work on texts: "/t" is found in "/tx", ".." in "a..b". An argument is a record of
the path that it is as a whole, of its parts, and of the mark between them, a
comma or a blank as in `/t,d/t` or `"/t d/t"`; both spell the same text. The code
reads it as one path if that is there (`IsWhole`; with a blank in it a path to
write to will do, `file_tool.py:120`) and as its parts if not or if the archive
name is empty (`Nameless`); `reading` records which. `FileResolver` and `TarTool`
extend `RunFiles` by their own variables and actions; `Transfer` composes them
with a tool that writes one file or link, possibly with size and second of the
input of that name ("backdated", as by `cp -p`). `Verdicts` gives for each file
the answers of `__check_if_modified` that sizes and time stamps allow; when which
of them comes is in `ResultFetch`. The copy next to an old file, `t_TEMP`, is
part of `OldFile` and `CopyRaises`: it takes the place of a file of this name,
is renamed, and stays when a directory is in the way of the result.

**ResultFetch.** A file is its content and time stamp. The clock counts half
seconds, so that two events can be in the same second and yet one after the
other. `Verdict` is `__check_if_modified`; the steps of the replacement are
single actions, because Ctrl-C and crashes come between them. The user may save
the host's file while the tool runs. Ctrl-C while the client waits for the tool
starts the download at once, and the tool is killed only after it
(`frontend.py:458-465`): until then it is `running` and writes, and each file is
`packed` in the state in which Docker meets it. What the tool has touched since
is `late`.

**Glob, OutputSelect.** Algorithms as step-by-step specifications, so that what
holds in the middle can be stated. `Glob` defines what a pattern means
(`GlobMatches`: all pieces have places, in order and apart) and compares.
`OutputSelect` takes the relation of patterns and paths as a constant, and
compares with `Asked`.

## 3. Runs, bounds and what they show

| Run | Bounds | Shows |
|---|---|---|
| `tool_run` | all options, 2 shell candidates, 2 Ctrl-C, every call may fail | where container, image, terminal, log entry and exit code end; the contract; termination |
| `exec_stream` | 4 units of input, reads of 1-2, 2 units up, 1 down, broken connections, refused writes | streams are complete and in order, failures have a cause, the loop ends |
| `log_store` | 2 writers, 1 reader, 2 file names, crashes | entries are kept, one home, readers stumble only over partial entries; the append-only log |
| `image_fetch` | 3 registries, 3 tags, every content of registry and Docker, 2 broken pulls, 1 image removed by others | the image is the one that was named, and the repetition ends |
| `self_test` | none: the module has no constants | "Test pass" is earned, the directories are removed |
| `transfer` | 9 hosts, arguments of up to 2 parts together out of 22, 3 sets of `-d`, 2 of filters, `--in`, `--out`, one `--explicit-output`, one file or link written under one of 4 names | what is uploaded, what the arguments then mean, where results go, and that nothing else on the host changes |
| `result_fetch` | 1 file, 2 contents of one length and a longer one, 2 seconds, 2 Ctrl-C | results arrive, edits survive, nothing is lost in between |
| `glob` | 2 characters, names up to 5, up to 3 pieces of up to 2 | the match is sound, and misses only as described |
| `output_select` | up to 3 filters of 4 patterns, all ignore files, all diffs of 5 paths | the selection is what was asked for |
| `tool_run_terminal`, `output_select_includes`, `transfer_mkdir` | as above | the disagreements of section 5 |

Why these are enough: two probe candidates give every order of a missing and a
present one; two Ctrl-C reach each handler and then break it off. Four units of
input exceed each channel, so that `send` is partial and blocks, but not what
both channels and the tool hold together, which is where the loop can wedge
(section 5). Two names and two writers give every race of the log, since each
writer uses one name. One tag is the stable one, one the development tag and one
what Docker takes by default, which is every way in which the code treats a tag;
with two breaks and one removal the repeated call is repeated. The hosts of
`transfer` have a file with the name of another elsewhere, a directory that is
empty or has a file of that name, and a directory for output; two parts give every order in
which one is named before, twice, below or beside the other, in one argument or
in two. The other hosts have a file whose name is that of two arguments with a
comma (`t,t`), a directory with dots in its name (`a..b`), and a file or
directory that has the name of a copy (`t_TEMP`, `d_TEMP`). Files do not influence each other in `ResultFetch`, so one is enough;
two seconds in four halves give every comparison of the three time stamps. Two
characters, three pieces: prefix, middle and suffix with overlaps. Three filters
are the least at which the enumeration passes over one and then goes on.

`CHECK_DEADLOCK FALSE` is set throughout: all of these programs end.

**Fairness.** `ToolRun!FairSpec`, `ResultFetch!FairSpec` and
`ImageFetch!FairSpec` assume only that the client, a single thread, goes on when
it can (`WF_vars(Client)`). Nothing obliges the tool to end, a call to fail or
the user to act; hence `AlwaysEnds` says that the run ends or listens to a
running tool, and `InterruptEnds` that Ctrl-C ends it in any case (the clean-up
kills the tool). `ExecStream!FairSpec` assumes in addition that a filter reads,
answers and ends when it can. The other modules have no liveness property and no
fairness.

## 4. Properties

*ToolRun.* `LeakNeedsCause`: a tool container is only left behind by trouble in
create, upload or the clean-up itself, and one of the shell probe only where its
candidate is missing (as the code does) or after trouble. `SuccessMeansDelivered`: exit code 0
means results on the host and container gone. `ZeroIsEarned`: without Ctrl-C 0
is the tool's own. `EntryComplete`: what the log lists. `RawNeedsCause`: when
the terminal may be raw. `BuiltImageRemoved`: only images that were built for
the run are removed, after their container, and why one may stay (a committed
image, a container of the probe, a refusal of Docker that the code only logs). `FetchedAtRest`: results come from a
tool that has ended. `KeepsContract`: refinement of `RunContract`. `AlwaysEnds`,
`InterruptEnds`.

*ExecStream.* `StreamsFaithful`: stdout and stderr each get, in order and once,
what the tool wrote there; what is missing is under way, was lost with the
connection, belongs to a muted stdout, or is the one frame that the host refused. `LoopComplete`: a loop that ends by
itself has handed over everything in both directions. `FailureNeedsCause`: it fails only over a tool that quits, a
broken connection or a refused write. `NeverWedged`, `LoopEnds`.

*LogStore.* `EntryKept`, `OneHome`, `IndexComplete`, `IndexStumbles`, and
`KeepsLog`: refinement of `AppendLog`.

*ImageFetch.* `RightImage`: what is run is what the command line names, or the
development image of a tool that has no stable one. `FoundIfThere`: an image
that the registry has is not given up. `RepeatHasCause`: each further pull has a
broken pull or a removal behind it. `FetchEnds`.

*SelfTest.* `PassIsEarned`: a pass is a copy of this run, never what an earlier
test has left. `TestCleansUp`: nothing stays, however the test ends.

*Transfer.* `UploadsAsked`: exactly the files that are named or below a named
directory, and pass the filters, are uploaded (`FilesOf`; of directories more
may come, as parents). `ArgumentsMean`: an argument is read as one path or in
parts as it should be (`Understood`, or `Glued`), and has the names under which
its files are in the container. `PlacesMade`: the directories of `-d`, and those
in which the tool is told to write, are there. `HostKept`: no file of the host is
lost or changed, and no other file comes, but where the tool has written, where
an input came from elsewhere, and under the name of a copy. `ResultsPlaced`: what
the tool wrote at a place that is looked into is fetched, unless it kept size and
second of an input of that name, or a copy has taken its name.

*ResultFetch.* `ResultsArrive`: a file is packed for the download as the tool
left it, or in some state in between when the tool goes on after Ctrl-C; and the
heuristic overlooks nothing of what was packed, unless the tool sets the time
stamp back. `EditKept`: it overwrites no edit of a file that comes back as it
was given, unless write and upload were within one second. `NeverGone`: there is
always a complete copy. `DownloadEnds`.

*Glob, OutputSelect.* `Sound`, `MissNeedsRepeat`; `AsAsked`, `WantedArrives`,
`IgnoredStays`.

## 5. Where the code and its comments disagree

Shown by a run that must fail; `PROJECT.json` quotes the lines.

1. `TerminalRestored`: a failing attach or start leaves the terminal raw.
2. `IncludesApplied`: the second of two including filters in a row is dropped.
3. `MkdirEmpty`: a directory of `-d` that lies below another argument is
   uploaded with its contents (`file_tool.py:172`), against the comment at
   `file_tool.py:91` and `docs/commands/cincan_run.rst:96`.

Not runs of their own, but what the preconditions of the properties are there
for:

- `cincan shell` leaves a probe container for each shell path that the image
  does not have (`frontend.py:189`; `LeakNeedsCause`), which keeps a built image
  (`BuiltImageRemoved`).
- A built image that Docker does not remove, for whatever reason, stays; the run
  ends as if nothing had happened (`frontend.py:482`, `BuiltImageRemoved`).
- The loop does not read output while it sends a chunk: with input and output
  larger than the buffers, client and tool wait for each other
  (`NeverWedged`).
- Two first runs at once make two log directories (`raced` in `OneHome`), two
  runs within a microsecond overwrite each other (`clash` in `EntryKept`).
- A process that dies while it makes `uid.txt` leaves it empty: all later runs
  log into the directory of the empty uid, on which they agree (`OneHome`).
- After Ctrl-C during the execution the results are those of a tool that is still
  at work (`late` in `ResultsArrive`).
- A file that was uploaded in the second in which it was written is compared by
  digest with the host's file as the user has saved it meanwhile, and replaces
  it although the tool left it alone (`EditKept`).
- The greedy match misses `a.txt.txt` for `*.txt` (`MissNeedsRepeat`).
- An interrupted run exits with 0 (`ZeroIsEarned`), and so does Ctrl-C in a
  pull (`image_fetcher.py`).
- The port of a registry is taken for a tag (`FoundIfThere`); when every pull
  breaks behind its first message, `get_image` repeats without end
  (`RepeatHasCause`).
- The new name of a file replaces every occurrence of the old one in the
  argument, so that `if=/t,of=d/t` becomes `if=t,of=dt` (`Overlaps` in
  `ArgumentsMean`).
- The parts of an argument with a blank, as in `"d/t d/x"`, are one path as soon
  as the first name is a directory: for a path with a blank the code looks for a
  parent directory (`file_tool.py:120`), although the comment above it says "Not
  checking parents" (`file_tool.py:119`). Then only `d` is uploaded, and the parts
  keep the names of the host, so that `"d/x /t"` means `/t` of the container
  (`Glued` in `ArgumentsMean`; `Read` in `UploadsAsked` and `PlacesMade` is what
  the argument was taken for).
- An argument that leads to the root without being spelled "/", as `..` in a
  directory of the root, is listed, with everything below, and stays as it is,
  since its archive name is empty (`Nameless`).
- An argument `d/t/x` where `d/t` is a file has this file uploaded, although
  nothing names it (`InTheWay` in `UploadsAsked`).
- A tool that is told to write `o/x` may find no directory `o` when another
  argument or a `-d` option goes down and up again, as in `o/../d`: this counts
  as leading through `o`, but its name in the archive, `d`, does not (`Detour`
  in `PlacesMade`); so does a name with two dots in it. Nor is there a directory to write in when a file is uploaded
  under its name (`HasPlace`).
- `/t` and `t` have one name in the archive. An input from elsewhere, or the
  archive of `--in`, that is as young as the run is taken for a result and is
  written into the current directory (`Borrowed` in `HostKept`).
- A result that replaces a file `t` takes the place of a file `t_TEMP`, and when
  a directory has the name of the result, the copy is left behind (`CopyOf` in
  `HostKept`); of results `t` and `t_TEMP` in one run the second may be lost
  (`ResultsPlaced`).
- A tool that keeps size and second of an input (`cp -p`, `tar`) has changed
  nothing as far as the download can see (`backdated` in `ResultsArrive` and
  `ResultsPlaced`).
- An input filter that excludes a directory of `-d`, and `--in`, drop it
  (`PlacesMade`). With `--no-implicit-output` a directory of `-d` that was given
  by an absolute path is not downloaded (`ResultsPlaced`).
- The download into `--out` ends with an exception at a link or an empty
  directory (`MemberRaises`).
- A failed self test exits with the exit code of the tool, which may be 0
  (`Judge`); a directory with other files in it makes the clean-up leave the
  second directory as well (`TestCleansUp`).

## 6. Proofs

TLAPS checks the theorems for every value of the constants that satisfies the
named assumptions (`ParamAssumption`, `CapAssumption`, `GlobAssumption`,
`StoreAssumption`, `ImageAssumption`, `FetchAssumption`, `SelectAssumption`,
`PathAssumption`, `TarAssumption`, `TransferAssumption`). They give types, say
that names with a special meaning ("none", "partial", ...) are not also ordinary
ones, of `ImageFetch` that the stable and the development tag are two, and of
`Transfer` that the current directory and the container's are absolute, that
every name has a text, that a name is not that of its copy, that the host's files
are a tree with the current directory in it, that none of them is the tool's
beforehand, and that the parts of an argument with the mark in between are the
text of the argument, where a part of several does not contain the mark (the
lexer would divide it there, `file_tool.py:90`).

In each module `IInv` is the inductive invariant; its parts are definitions at
the end of the component's module. `InvInit` and `InvStep` prove it, with one step per action, `Invariance` states
it, and one theorem per property follows.

**ToolRunProofs.** `IInv` is type correctness, `BoxAtCall` (where the container
is when each call is about to be made), `LogAtCall` (what the log and the
pending exception say then) and the invariants. The invariants alone are not
inductive: that a run with exit code 0 has fetched its results depends, one step
before, on the log being complete when `close` is reached without an exception,
and so on back to `record`. `ImageStep` adds `ImageFate`, what has become of the
image on the way out and what has kept it, for `BuiltImageRemoved`. `Refinement` proves that every
step maps to a step or a stutter of `RunContract` (`ContractStep`), from `IInv`.
Its last section is about `SelfTest`, around the contract that has just been
refined: `Earned`, `Made` and `Cleaned` say that from its removal on the output
is of this run, that directories are there when something is put into them, and
what each step of the clean-up has done. That zero means results comes from the
contract of the run.

**ExecStreamProofs.** `IInv` counts where the units are between stdin and the
answer (`Accounted`) and who has closed what (`Closed`). `LoopComplete`,
`FailureNeedsCause` and `NeverWedged` follow, the last because a wedged client
has sent as many units as the channels hold and has one more. `Faithful` proves
`StreamsFaithful` next to it: the client has unpacked the first n frames, for
some n, and a frame's place on its stream is the number of frames of this stream
up to it (`PlaceCounts`). Unpacking one more appends it there (`ShowNext`), a
refused one ends the loop with n as it was, and no other step changes what has
been shown (`ShownKept`).

**LogStoreProofs.** `UidOnce`: while one process makes `uid.txt`, all others are
still to look for it. `NamesOwned`: until two writers clash, a name belongs to
one writer from its test on, and a file has the writer it names. `ListTrue`: a
reader has what was due or has it still on its list. `Refinement` proves
`KeepsLog` from them: only `Dump` adds an entry, and no step takes one away.

**ImageFetchProofs.** `RefAtCall` says which image each call is about; a look-up
after a pull that finds nothing has a break or removal of its own that the
repeated call can count.

**ResultFetchProofs.** `ChangesShow` is the argument behind the heuristic: a
file that the tool has changed, in whatever state it was packed, is not older
than its upload (`Younger`), which is not older than its source (`StatsTrue`); if
its second were that of its source, all three would lie in one second, and then
the code does not trust it. `Packing` says that only a tool which Ctrl-C has left
running touches a file during a download, and that all others are packed as they
are. `Arrives` says that a result that was packed is on the host or still to
come, also when the download starts anew, and `Replacing` what is known of the
file at hand; `OthersPass` is the converse for files that the tool left alone.

**TransferProofs.** First the paths: what `Resolve` computes name by name is
unfolded by an induction over the places of the path (`Upwards`, from the
well-foundedness of the numbers; `Iterated` says that a function may be defined
place by place). So what is below a path is below what it resolves to
(`ResolveBelow`), a plain path is below the current directory, a resolved one
stays as it is, and in a tree what exists exists under each of its names
(`HostFileThere`, `InsideThere`). Then the resolver: `Lists` is what the lists
are when some of the parts of the arguments have been done. It is about sets,
so that the order of the arguments does not matter: a part adds exactly what it
means, or itself when it is a place to write, unless such a place is listed
already (`ListsOne`), and so do all parts of an argument (`ListsAll`). At the
end this is what was asked for, and `Listing` says so. For the places to write,
the nearest existing parent of a path leads through all existing ones
(`NearerParent`), and when it is not added, then because something that is
uploaded leads through it (`UploadsLead`; this is where a detour matters). What
has been done is `Done`: what the arguments have been read as (`Read`), and a
whole that is there although it has no name.
`Packing` hands this over to the archive: there is some choice of sources, for
names that come from two files, of which it is made. For the results, `Origins`
says where each file in the container comes from, so that what is neither the
tool's nor from elsewhere is, byte for byte, what the host already has at its
target; and `Fetching` that what the tool has written is a leaf, is never taken
for unmodified when it does not look like its input, and is still to come or has
been placed, unless a copy may have taken its name. `FetchesOne` says of each
step of the download what it does to the host (`Replaces` with the copy,
`LeavesCopy` when it stays behind), and `MayBe` what `HostKept` allows at a path.

For the command, `Rewritten` is the part of the invariant: how each argument has
been read (`Rewrites`: as it should be, or `Glued`) and what is left of it when
its parts have been replaced. `str.replace` goes through the whole argument for
each part, so what has to be shown is that it hits nothing else. `ReplaceIs`
unfolds the search from the end of the text, and `PieceReplaced` says of one
piece that it stays as it is when the old name is nowhere in it, and becomes the
new name when it is the old one. No part of several has the mark (`Divided`), so
a text is replaced on both sides of a mark separately (`ReplacedAtMark`), and the
pieces of an argument one by one (`JoinedReplaced`). Without `Overlaps` the old
name is in no other piece, old or new (`OnePiece`). `RewriteOne` and `RewriteAll`
take one part after the other, and `RewriteMeans` says that a part which is a
place to write is replaced by itself.

**OutputSelectProofs.** `MoveKeeps`: the sorting moves filters and loses none.
`Sorting`: it takes at least the first including filter (`FirstIsTaken`) and
without neighbours all of them (`AllAreTaken`); hence the merged filters are
those of user and image together (`MergedIsAll`: the one that is left out equals
the first of the user's). `Filtering`: whatever the order, what is kept has
passed the filters that are not in the queue any more.

**GlobProofs.** `IInv` has `Earliest`: the scan is at the earliest place at which
the pieces so far can end. `Longer` and `Shorter` extend and cut placements;
from them, finding the next piece first keeps the scan earliest, and not finding
it means that there is no placement. So the answer is right for all names and
patterns, except for the last piece, which is looked for like the others and
then has to be at the end.

Only model-checked: liveness (`AlwaysEnds`, `InterruptEnds`, `LoopEnds`,
`DownloadEnds`, `FetchEnds`), which needs `ENABLED`, and that the prover does
not handle. Every other property that a passing run checks is a theorem. No
module here declares a RECURSIVE operator; where induction is needed, it is over
the numbers of a bounded range, as in `Upwards`.

## 7. Not modelled

- The inspector: no subcommand calls it, it keeps no state and builds a tree for
  display.
- Version messages, configuration files, the registry, list and manifest
  subcommands: they compare or hand on what the package `cincanregistry`
  reports, which is not in this repository. The two values of the configuration
  that matter here are inputs of `ToolRun`.
- In `ToolImage`: the constructor that builds or loads an image (only that there
  may be such an image), argument parsing, the lines that print.
- In `command_log.py`: what is in an entry, and sorting. The logs of other users
  are not read by any code here (`command_log.py:154`).
- In `tar_tool.py`: reading `.cincanignore` (its patterns are given), and the
  digests in log entries.
- In the stream loop: frames of a type other than stdout and stderr, which a tool
  cannot write (the code drops them), and the buffered mode for callers from
  Python.
- In `file_tool.py`: of `shlex` only the division at a mark and the unbalanced
  quotation mark (so no quoted marks within a part, and one mark in an
  argument), no slashes at the end of an argument, no empty argument, no links
  among the host's files.
- Between the models: Ctrl-C during the execution is in `ToolRun` and
  `ResultFetch`, not in `Transfer`, where the tool has ended when the download
  starts. An older image of the name that is asked for is not told from the
  present one in `ImageFetch`.
- The progress display, formatting, packaging.

What could come next: a proof that the answers of `ResultFetch!Verdict` are
among `TarTool!Verdicts`, which ties the step-by-step model of one file to that
of all; in `Transfer` tools that write two files, so that a link can end a
download half-way; and images with a version in `ImageFetch`.
