----------------------------- MODULE ExecStream -----------------------------
(***************************************************************************)
(* The io loop of ToolImage.__container_exec in cincan/frontend.py: the    *)
(* client selects on its stdin and on the socket of the attached container,*)
(* copies stdin to the tool with blocking `send` calls, and takes the      *)
(* multiplexed output of the tool apart into stdout and stderr.            *)
(*                                                                         *)
(* The tool, its container and the Docker daemon are external: two bounded *)
(* channels and a tool that answers every unit it reads with one unit on   *)
(* stdout or stderr, as a filter does, and that may quit at any time.      *)
(***************************************************************************)
EXTENDS Naturals, Sequences, FiniteSets

CONSTANTS
    Input,          \* units of data on stdin, then end of file (bound)
    ReadMax,        \* units that one os.read may return: BUFFER_SIZE
    UpCap,          \* units between client and tool before `send` blocks
    DownCap,        \* units between tool and client before the tool blocks
    Cuts            \* may the connection break?

ASSUME CapAssumption ==
    /\ Input \in Nat
    /\ ReadMax \in Nat \ {0}
    /\ UpCap \in Nat
    /\ DownCap \in Nat
    /\ Cuts \in BOOLEAN

VARIABLES
    phase,      \* what the client does
    alsoStdin,  \* is stdin in the rest of select_in?
    open,       \* c_socket_open
    listening,  \* is stdin in active_streams?
    tty,        \* --tty: the stream has no frames and no stderr
    muted,      \* the output tar goes to stdout: there is no stdout_s
    read,       \* units read from stdin and hashed
    sent,       \* units of them sent
    shut,       \* SHUT_WR
    up,         \* number of units on their way to the tool
    tool,       \* "running", "ended" at end of file, or "quit"
    taken,      \* number of units the tool has read
    held,       \* has the tool read a unit and not yet answered it?
    down,       \* the frames on their way to the client
    wrote,      \* all frames the tool has written (history)
    out,        \* what the client has written to stdout (1) and stderr (2)
    refused,    \* the streams that the host does not take any more: the reader
                \* of a pipe is gone, the disk is full
    cut         \* "no", or what the client finds where the connection broke

client == <<phase, alsoStdin, open, listening, read, sent, shut, out>>
host   == <<tty, muted, refused>>
remote == <<tool, taken, held, wrote>>
vars   == <<phase, alsoStdin, open, listening, tty, muted, read, sent, shut,
            up, tool, taken, held, down, wrote, out, refused, cut>>

Streams == {1, 2}
Frames  == [stream: Streams, unit: Nat]

Init ==
    /\ phase = "select"
    /\ alsoStdin = FALSE
    /\ open = TRUE
    /\ listening \in BOOLEAN        \* --interactive
    /\ tty \in BOOLEAN /\ muted \in BOOLEAN
    /\ read = 0 /\ sent = 0 /\ shut = ~listening
    /\ up = 0
    /\ tool = "running"
    /\ taken = 0
    /\ held = FALSE
    /\ down = <<>>
    /\ wrote = <<>>
    /\ out = [s \in Streams |-> <<>>]
    /\ refused = {}
    /\ cut = "no"

----------------------------------------------------------------------------
(* the client *)

AtEnd == down = <<>> /\ (tool # "running" \/ cut # "no")

Readable == down # <<>> \/ AtEnd

\* select_in lists the socket before stdin, which is a file or a pipe.
Select ==
    /\ phase = "select" /\ open
    /\ alsoStdin' \in IF listening THEN BOOLEAN ELSE {FALSE}
    /\ \/ Readable /\ phase' = "recv"
       \/ ~Readable /\ alsoStdin' /\ phase' = "stdin"
    /\ UNCHANGED <<open, listening, host, read, sent, shut, up, remote, down,
                   out, cut>>

Leave ==
    /\ phase = "select" /\ ~open
    /\ phase' = "done"
    /\ UNCHANGED <<alsoStdin, open, listening, host, read, sent, shut, up,
                   remote, down, out, cut>>

AfterRecv == IF alsoStdin THEN "stdin" ELSE "select"

\* (fault) the header's stream type is not looked at
RecvMixes ==
    /\ phase = "recv" /\ down # <<>>
    /\ out' = [out EXCEPT ![1] = Append(@, Head(down).unit)]
    /\ down' = Tail(down)
    /\ phase' = AfterRecv
    /\ UNCHANGED <<alsoStdin, open, listening, host, read, sent, shut, up,
                   remote, cut>>

\* Does the loop write to stream s at all?
Writes(s) == ~(muted /\ s = 1)

\* one frame: unpack it and write it to its stream
Recv ==
    /\ phase = "recv" /\ down # <<>>
    /\ Writes(Head(down).stream) => Head(down).stream \notin refused
    /\ LET f == Head(down)
       IN  out' = IF Writes(f.stream)
                    THEN [out EXCEPT ![f.stream] = Append(@, f.unit)]
                    ELSE out
    /\ down' = Tail(down)
    /\ phase' = AfterRecv
    /\ UNCHANGED <<alsoStdin, open, listening, host, read, sent, shut, up,
                   remote, cut>>

\* write or flush raises, and the frame is lost
RecvRefused ==
    /\ phase = "recv" /\ down # <<>>
    /\ Writes(Head(down).stream) /\ Head(down).stream \in refused
    /\ down' = Tail(down)
    /\ phase' = "failed"
    /\ UNCHANGED <<alsoStdin, open, listening, host, read, sent, shut, up,
                   remote, out, cut>>

\* (fault) no bytes at the moment is taken for the end
RecvEofEarly ==
    /\ phase \in {"recv", "select"} /\ down = <<>>
    /\ open' = FALSE
    /\ phase' = AfterRecv
    /\ UNCHANGED <<alsoStdin, listening, host, read, sent, shut, up, remote,
                   down, out, cut>>

\* The end of the stream, or a header that is not complete, ends the loop,
\* but not before stdin is served when it is in select_in as well.
RecvEof ==
    /\ phase = "recv" /\ AtEnd /\ cut # "frame"
    /\ open' = FALSE
    /\ phase' = AfterRecv
    /\ UNCHANGED <<alsoStdin, listening, host, read, sent, shut, up, remote,
                   down, out, cut>>

\* (fault) a frame that arrives in pieces is taken for a truncated one
RecvShort ==
    /\ phase = "recv" /\ (down # <<>> \/ (AtEnd /\ cut = "frame"))
    /\ phase' = "failed"
    /\ UNCHANGED <<alsoStdin, open, listening, host, read, sent, shut, up,
                   remote, down, out, cut>>

\* sys.exit('Failed to read all data from the container')
RecvTruncated ==
    /\ phase = "recv" /\ AtEnd /\ cut = "frame"
    /\ phase' = "failed"
    /\ UNCHANGED <<alsoStdin, open, listening, host, read, sent, shut, up,
                   remote, down, out, cut>>

StdinData ==
    /\ phase = "stdin" /\ read < Input
    /\ \E n \in 1..ReadMax :
          /\ read + n <= Input
          /\ read' = read + n
    /\ phase' = "send"
    /\ UNCHANGED <<alsoStdin, open, listening, host, sent, shut, up, remote,
                   down, out, cut>>

Connected == tool = "running" /\ cut = "no"

\* (fault) end of file on stdin is not handed on
StdinEofKept ==
    /\ phase = "stdin" /\ read = Input
    /\ listening' = FALSE
    /\ phase' = "select"
    /\ UNCHANGED <<alsoStdin, open, host, read, sent, shut, up, remote, down,
                   out, cut>>

StdinEof ==
    /\ phase = "stdin" /\ read = Input
    /\ listening' = FALSE
    /\ shut' = TRUE
    /\ phase' = "select"
    /\ UNCHANGED <<alsoStdin, open, host, read, sent, up, remote, down, out,
                   cut>>

\* `shutdown` raises when the connection is gone
StdinEofFails ==
    /\ phase = "stdin" /\ read = Input /\ ~Connected
    /\ listening' = FALSE
    /\ phase' = "failed"
    /\ UNCHANGED <<alsoStdin, open, host, read, sent, shut, up, remote, down,
                   out, cut>>

\* (fault) `send(s_data)`: the chunk is sent again from its start
SendWhole ==
    /\ phase = "send" /\ Connected
    /\ \E n \in 1..ReadMax :
          /\ up + n <= UpCap
          /\ up' = up + n
          /\ sent' = IF sent + n < read THEN sent + n ELSE read
    /\ phase' = IF sent' = read THEN "select" ELSE "send"
    /\ UNCHANGED <<alsoStdin, open, listening, host, read, shut, remote, down,
                   out, cut>>

\* `send` blocks while there is no room, and takes what there is room for.
Send ==
    /\ phase = "send" /\ Connected
    /\ \E n \in 1..(read - sent) :
          /\ up + n <= UpCap
          /\ up' = up + n
          /\ sent' = sent + n
    /\ phase' = IF sent' = read THEN "select" ELSE "send"
    /\ UNCHANGED <<alsoStdin, open, listening, host, read, shut, remote, down,
                   out, cut>>

\* A socket without a reader swallows the data, or breaks the pipe.
SendToNobody ==
    /\ phase = "send" /\ ~Connected
    /\ \/ sent' = read /\ phase' = "select"
       \/ sent' = sent /\ phase' = "failed"
    /\ UNCHANGED <<alsoStdin, open, listening, host, read, shut, up, remote,
                   down, out, cut>>

----------------------------------------------------------------------------
(* the tool and the connection *)

Take ==
    /\ tool = "running" /\ ~held /\ up > 0
    /\ up' = up - 1
    /\ taken' = taken + 1
    /\ held' = TRUE
    /\ UNCHANGED <<client, host, tool, down, wrote, cut>>

Answer ==
    /\ tool = "running" /\ held /\ Len(down) < DownCap /\ cut = "no"
    /\ \E s \in IF tty THEN {1} ELSE Streams :
          LET f == [stream |-> s, unit |-> taken]
          IN  down' = Append(down, f) /\ wrote' = Append(wrote, f)
    /\ held' = FALSE
    /\ UNCHANGED <<client, host, up, tool, taken, cut>>

ToolEnds ==
    /\ tool = "running" /\ ~held /\ up = 0 /\ shut
    /\ tool' = "ended"
    /\ UNCHANGED <<client, host, up, taken, held, down, wrote, cut>>

\* it does not want more input, or fails
ToolQuits ==
    /\ tool = "running"
    /\ tool' = "quit"
    /\ UNCHANGED <<client, host, up, taken, held, down, wrote, cut>>

\* what is on its way is lost from some point on
Break ==
    /\ Cuts /\ cut = "no"
    /\ cut' \in IF tty THEN {"clean"} ELSE {"clean", "header", "frame"}
    /\ \E n \in 0..Len(down) : down' = SubSeq(down, 1, n)
    /\ UNCHANGED <<client, host, up, remote, wrote>>

\* the reader of a pipe ends, the disk is full
HostRefuses ==
    /\ \E s \in Streams \ refused : refused' = refused \cup {s}
    /\ UNCHANGED <<client, tty, muted, up, remote, down, cut>>

----------------------------------------------------------------------------

Client == Select \/ Leave \/ Recv \/ RecvRefused \/ RecvEof \/ RecvTruncated
            \/ StdinData \/ StdinEof \/ StdinEofFails \/ Send \/ SendToNobody

Tool == Take \/ Answer \/ ToolEnds

Next == Client \/ Tool \/ ToolQuits \/ Break \/ HostRefuses

Spec == Init /\ [][Next]_vars

\* Neither the client nor a filter pauses; quitting and breaking are free.
FairSpec == Spec /\ WF_vars(Client) /\ WF_vars(Tool)

----------------------------------------------------------------------------
(* Properties *)

TypeOK ==
    /\ phase \in {"select", "recv", "stdin", "send", "done", "failed"}
    /\ alsoStdin \in BOOLEAN /\ open \in BOOLEAN /\ listening \in BOOLEAN
    /\ tty \in BOOLEAN /\ muted \in BOOLEAN /\ shut \in BOOLEAN /\ held \in BOOLEAN
    /\ read \in 0..Input /\ sent \in 0..Input /\ taken \in 0..Input
    /\ up \in 0..UpCap
    /\ tool \in {"running", "ended", "quit"}
    /\ down \in Seq(Frames) /\ wrote \in Seq(Frames)
    /\ out \in [Streams -> Seq(Nat)]
    /\ refused \subseteq Streams
    /\ cut \in {"no", "clean", "header", "frame"}

Quiet == tool # "quit" /\ cut = "no"

\* Where the i-th frame of the tool belongs in its stream s.
Place(s, i) == Cardinality({j \in 1..i : wrote[j].stream = s})

\* The client has written the first n frames of the tool and nothing else.
Shown(n) == \A s \in Streams :
    IF ~Writes(s) THEN out[s] = <<>>
    ELSE /\ Len(out[s]) = Place(s, n)
         /\ \A i \in 1..n :
               wrote[i].stream = s => out[s][Place(s, i)] = wrote[i].unit

\* What is on its way follows the first n frames; all the rest is, as long as
\* the connection lasts.
Pending(n) ==
    /\ IF cut = "no" THEN n + Len(down) = Len(wrote)
                     ELSE n + Len(down) <= Len(wrote)
    /\ \A k \in 1..Len(down) : down[k] = wrote[n + k]

\* Stdout and stderr have got the first frames that the tool wrote, each unit
\* on its own stream and in its place, and the next frames are on their way:
\* the loop never loses, mixes up or swaps frames, and a connection that
\* breaks only cuts the answer short.  The one frame that may be missing in
\* between is the one whose stream did not take it, which ends the loop.
StreamsFaithful ==
    \E n \in 0..Len(wrote) :
        /\ Shown(n)
        /\ \/ Pending(n)
           \/ /\ phase = "failed" /\ n < Len(wrote) /\ Pending(n + 1)
              /\ wrote[n + 1].stream \in refused /\ Writes(wrote[n + 1].stream)

\* When the loop ends by itself, a tool that reads all its input has had all
\* of stdin, the log's digest of /dev/stdin is that of what the tool had, and
\* its whole answer has been written.
LoopComplete ==
    phase = "done" /\ Quiet =>
        /\ tool = "ended" /\ down = <<>>
        /\ taken = read /\ Len(wrote) = read
        /\ shut /\ ~listening

\* Only a tool that quits, a connection that breaks, or a stream of the host
\* to which the loop writes makes it fail.
FailureNeedsCause ==
    phase = "failed" => ~Quiet \/ \E s \in refused : Writes(s)

\* Where the units are between stdin and the answer.
Accounted ==
    /\ up + taken <= sent /\ sent <= read
    /\ Quiet => sent = up + taken
    /\ cut = "no" => taken = Len(wrote) + (IF held THEN 1 ELSE 0)
    /\ Len(down) <= Len(wrote) /\ Len(down) <= DownCap
    /\ IF phase = "send" THEN sent < read ELSE Quiet => sent = read

\* The client has stopped listening to stdin when it has closed that
\* direction, and only then does a tool that is not in a hurry end.
Closed ==
    /\ phase # "failed" => (shut <=> ~listening)
    /\ phase \in {"stdin", "send"} => listening
    /\ phase = "recv" /\ alsoStdin => listening
    /\ tool = "ended" => shut /\ up = 0 /\ ~held
    /\ phase = "done" => ~open
    /\ ~open /\ Quiet => tool = "ended" /\ down = <<>>

\* The inductive invariant behind the theorems of ExecStreamProofs.
IInv == TypeOK /\ Accounted /\ Closed /\ FailureNeedsCause

\* Client and tool wait for each other: `send` for the tool to read, the tool
\* for the client to read its answer.
Wedged ==
    /\ phase = "send" /\ Connected
    /\ up = UpCap /\ held /\ Len(down) = DownCap

\* They never do while the input fits into what lies between them.
NeverWedged == Input <= UpCap + DownCap + 1 => ~Wedged

\* The loop ends whenever the tool does or may.
LoopEnds == <>(phase \in {"done", "failed"})

=============================================================================
