------------------------- MODULE ResultFetchProofs --------------------------
(***************************************************************************)
(* Theorems about ResultFetch, for any files, contents and lengths of      *)
(* contents, any length of the clock and any number of Ctrl-C.             *)
(***************************************************************************)
EXTENDS ResultFetch, TLAPS

----------------------------------------------------------------------------
(* Files and times *)

\* A missing file is none of the files, and has no stats.
LEMMA NoneIsNoFile == None \notin Files /\ None \notin Whole /\ None \notin Stats
<1>1. DOMAIN None = {"none"}
  BY DEF None
<1>2. \A f \in Files \cup Whole : "data" \in DOMAIN f
  BY DEF Files, Whole
<1>3. \A s \in Stats : "size" \in DOMAIN s
  BY DEF Stats
<1>. QED  BY <1>1, <1>2, <1>3

\* A whole file is a file, and has a content that is not partial.
LEMMA WholeIsFile == Whole \subseteq Files /\ \A f \in Whole : f.data # Partial
BY FetchAssumption DEF Whole, Files, Partial

\* Whole seconds are in the order of the times.
LEMMA SecondsOrdered == \A s, t \in Nat : s <= t => Sec(s) <= Sec(t) /\ Sec(s) \in Nat
BY DEF Sec

\* A file that the tool has changed is never taken for unmodified: its time
\* would have to be that of its source, in an earlier second than the upload.
LEMMA ChangesShow ==
  ASSUME IInv, NEW p \in Paths, NEW f \in {cont[p], packed[p]}, Altered(p, f)
  PROVE  Verdict(stats[p], f) # "unmodified"
<1>1. CASE stats[p] = None
  BY <1>1 DEF Verdict
<1>2. CASE stats[p] # None
  <2>1. stats[p] \in Stats /\ f \in Whole
    BY <1>2 DEF IInv, TypeOK, Altered
  <2>2. /\ stats[p].mtime <= stats[p].up /\ stats[p].up <= f.mtime
        /\ stats[p].mtime \in Nat /\ stats[p].up \in Nat /\ f.mtime \in Nat
    BY <1>2, <2>1, FetchAssumption
    DEF IInv, StatsTrue, Younger, Stats, Whole, Times
  <2>3. /\ Sec(stats[p].mtime) <= Sec(stats[p].up)
        /\ Sec(stats[p].up) <= Sec(f.mtime)
        /\ Sec(stats[p].mtime) \in Nat /\ Sec(stats[p].up) \in Nat
        /\ Sec(f.mtime) \in Nat
    BY <2>2, SecondsOrdered
  <2>4. /\ stats[p].size = Size(given[p].data) /\ stats[p].mtime = given[p].mtime
        /\ given[p] # None
    BY <1>2 DEF IInv, StatsTrue
  <2>. QED  BY <1>2, <2>3, <2>4 DEF Verdict
<1>. QED  BY <1>1, <1>2

\* A file that the tool has left alone, and that was not uploaded within the
\* second in which it was written, is taken for unmodified.
LEMMA OthersPass ==
  ASSUME IInv, NEW p \in Paths, stats[p] # None,
         Sec(stats[p].mtime) # Sec(stats[p].up)
  PROVE  Verdict(stats[p], given[p]) = "unmodified"
BY DEF IInv, StatsTrue, Verdict

----------------------------------------------------------------------------
(* The inductive invariant *)

\* A run starts in it.
LEMMA InvInit == Init => IInv
<1>. SUFFICES ASSUME Init PROVE IInv
  OBVIOUS
<1>. USE NoneIsNoFile, WholeIsFile, FetchAssumption
<1>1. \A p \in Paths : host[p] # None =>
         host[p] \in Whole /\ host[p].mtime <= now
  BY DEF Init, Whole, Times
<1>2. TypeOK
  <2>1. host \in [Paths -> Files \cup {None}]
    BY <1>1 DEF Init
  <2>2. cur \in [path: Paths \cup {None}, step: Steps]
    BY DEF Init, Idle, Steps
  <2>3. /\ packed \in [Paths -> Whole \cup {None}] /\ running \in BOOLEAN
        /\ backdated \subseteq Paths /\ late \subseteq Paths
    BY DEF Init
  <2>4. phase \in {"upload"} /\ now \in Times /\ todo \subseteq Paths
    BY DEF Init
  <2>5. /\ temp \in [Paths -> Files \cup {None}] /\ cont \in [Paths -> Whole \cup {None}]
        /\ given \in [Paths -> Whole \cup {None}]
        /\ stats \in [Paths -> Stats \cup {None}]
        /\ edited \in [Paths -> Whole \cup {None}] /\ presses \in 0..MaxPresses
    BY DEF Init
  <2>. QED  BY <2>1, <2>2, <2>3, <2>4, <2>5 DEF TypeOK
<1>3. BeforeDownload /\ StatsTrue /\ Younger /\ Packing
  BY <1>1 DEF Init, BeforeDownload, StatsTrue, Younger, Packing, Fetching
<1>4. Replacing /\ Arrives /\ ResultsArrive /\ EditKept /\ NeverGone
  BY DEF Init, Replacing, Arrives, ResultsArrive, EditKept, NeverGone, Fetching
<1>. QED  BY <1>2, <1>3, <1>4 DEF IInv

\* What the file at hand is, and what it is not.
LEMMA AtHand ==
  ASSUME IInv, NEW p \in Paths, NEW step, At(p, step), step # "idle"
  PROVE  /\ Fetching /\ cur # Idle /\ cur.path = p /\ cur.step = step
         /\ packed[p] \in Whole /\ Verdict(stats[p], packed[p]) # "unmodified"
         /\ step = "new" => host[p] = None
         /\ step \in {"replace", "compare", "digest"} => host[p] # None
         /\ step \in {"digest", "unlink", "rename"} =>
               temp[p] # None /\ temp[p].data = packed[p].data
<1>1. cur # Idle /\ cur.path = p /\ cur.step = step /\ Fetching
  BY DEF At, Idle
<1>. QED  BY <1>1 DEF IInv, TypeOK, Replacing

\* The copy of a whole file is a file of the host, complete and with the same
\* content.
LEMMA CopyIsWhole ==
  ASSUME TypeOK, NEW p \in Paths, packed[p] \in Whole
  PROVE  /\ Copy(p) \in Whole /\ Copy(p) # None
         /\ Copy(p).data = packed[p].data /\ Copy(p).data # Partial
<1>1. Copy(p) \in Whole /\ Copy(p).data = packed[p].data
  BY DEF TypeOK, Copy, Whole
<1>. QED  BY <1>1, NoneIsNoFile, WholeIsFile

\* Every step preserves it.
LEMMA InvStep == IInv /\ [Next]_vars => IInv'
<1>. SUFFICES ASSUME IInv, [Next]_vars PROVE IInv'
  OBVIOUS
<1>. USE NoneIsNoFile, WholeIsFile, FetchAssumption DEF IInv, world
<1>1. ASSUME NEW p \in Paths, Upload(p) PROVE IInv'
  <2>1. /\ phase = "upload" /\ cur = Idle
        /\ host[p] \in Whole /\ host[p].mtime \in Nat /\ host[p].mtime <= now
    BY <1>1 DEF Upload, TypeOK, BeforeDownload, Whole, Times
  <2>2. [size |-> Size(host[p].data), mtime |-> host[p].mtime, up |-> now] \in Stats
    BY <2>1 DEF TypeOK, Stats, Whole, Times
  <2>3. TypeOK'
    BY <1>1, <2>1, <2>2 DEF Upload, TypeOK
  <2>4. BeforeDownload'
    BY <1>1, <2>1 DEF Upload, BeforeDownload
  <2>7. StatsTrue'
    <3>1. stats'[p] # None /\ given'[p] # None
      BY <1>1, <2>1, <2>2 DEF Upload, TypeOK
    <3>2. /\ stats'[p].size = Size(given'[p].data)
          /\ stats'[p].mtime = given'[p].mtime
          /\ stats'[p].mtime <= stats'[p].up /\ stats'[p].up <= now'
      BY <1>1, <2>1 DEF Upload, TypeOK, Times
    <3>3. \A q \in Paths \ {p} : stats'[q] = stats[q] /\ given'[q] = given[q]
      BY <1>1 DEF Upload, TypeOK
    <3>. QED  BY <1>1, <3>1, <3>2, <3>3 DEF Upload, StatsTrue
  <2>8. Younger' /\ Packing'
    BY <1>1, <2>1 DEF Upload, TypeOK, Younger, Altered, Packing, Fetching
  <2>5. Replacing' /\ Arrives' /\ ResultsArrive'
    BY <1>1, <2>1 DEF Upload, Replacing, Arrives, ResultsArrive, Fetching
  <2>6. EditKept' /\ NeverGone'
    BY <1>1, <2>1 DEF Upload, TypeOK, BeforeDownload, EditKept, NeverGone
  <2>. QED  BY <2>3, <2>4, <2>5, <2>6, <2>7, <2>8
<1>2. CASE Start
  BY <1>2 DEF Start, TypeOK, BeforeDownload, StatsTrue, Younger, Altered, Packing,
              Replacing, Arrives, ResultsArrive, EditKept, NeverGone, Fetching
<1>3. CASE Tick
  <2>1. now \in Nat /\ now' = now + 1 /\ now' \in Times
    BY <1>3 DEF Tick, TypeOK, Times
  <2>2. TypeOK'
    BY <1>3, <2>1 DEF Tick, TypeOK
  <2>3. BeforeDownload'
    BY <1>3, <2>1 DEF Tick, BeforeDownload, Whole, Times
  <2>4. StatsTrue'
    BY <1>3, <2>1 DEF Tick, TypeOK, StatsTrue, Stats, Times
  <2>5. Younger' /\ Packing' /\ Replacing' /\ Arrives' /\ ResultsArrive'
    BY <1>3 DEF Tick, Younger, Altered, Packing, Replacing, Arrives, ResultsArrive,
                Fetching
  <2>6. EditKept' /\ NeverGone'
    BY <1>3 DEF Tick, EditKept, NeverGone
  <2>. QED
    BY <2>2, <2>3, <2>4, <2>5, <2>6
<1>4. CASE Downloaded \/ FetchFails
  BY <1>4 DEF Downloaded, FetchFails, TypeOK, BeforeDownload, StatsTrue, Younger,
              Altered, Packing, Replacing, Arrives, ResultsArrive, EditKept, NeverGone,
              Fetching
<1>5. CASE Finish
  <2>1. TypeOK' /\ BeforeDownload' /\ StatsTrue' /\ EditKept' /\ NeverGone'
    BY <1>5 DEF Finish, TypeOK, BeforeDownload, StatsTrue, EditKept, NeverGone, Results
  <2>2. Younger' /\ Packing'
    BY <1>5 DEF Finish, Younger, Altered, Packing, Fetching, Results
  <2>3. Replacing' /\ Arrives' /\ ResultsArrive'
    BY <1>5 DEF Finish, BeforeDownload, Packing, Altered, Replacing, Arrives,
                ResultsArrive, Fetching
  <2>. QED  BY <2>1, <2>2, <2>3
<1>6. CASE Interrupt
  <2>1. TypeOK' /\ BeforeDownload' /\ StatsTrue' /\ EditKept' /\ NeverGone'
    BY <1>6 DEF Interrupt, Fetching, TypeOK, BeforeDownload, StatsTrue, EditKept,
                NeverGone, Results, Idle, Steps
  <2>2. Younger'
    BY <1>6 DEF Interrupt, Younger, Altered
  <2>3. Packing'
    <3>1. CASE phase = "rescue"
      BY <1>6, <3>1 DEF Interrupt, Packing, Fetching
    <3>2. CASE phase # "rescue"
      <4>1. late = {} /\ phase' = "rescue" /\ todo' = Results
            /\ UNCHANGED <<running, late, packed, cont>>
            /\ phase \in {"exec", "download"}
        BY <1>6, <3>2 DEF Interrupt, Packing, Fetching
      <4>2. running => \A p \in Paths : packed[p] = None
        BY <4>1 DEF Packing
      <4>3. \A p \in Paths : p \notin Results => packed[p] = cont[p]
        BY <4>1 DEF Packing, Results
      <4>. QED  BY <4>1, <4>2, <4>3 DEF Packing, Fetching, Results
    <3>. QED  BY <3>1, <3>2
  <2>4. Replacing' /\ ResultsArrive'
    BY <1>6 DEF Interrupt, Replacing, ResultsArrive
  <2>5. Arrives'
    BY <1>6 DEF Interrupt, BeforeDownload, Packing, Altered, Arrives, Fetching, Results
  <2>. QED  BY <2>1, <2>2, <2>3, <2>4, <2>5
<1>7. ASSUME NEW p \in Paths, ToolWrites(p) \/ ToolBackdates(p) \/ ToolDeletes(p)
      PROVE  IInv'
  <2>1. /\ running /\ phase \in {"exec", "rescue"}
        /\ UNCHANGED <<now, presses, running, edited, phase, todo, host, temp, stats,
                       given, packed, cur>>
        /\ phase = "rescue" => late' = late \cup {p}
        /\ phase = "exec" => late' = late
    BY <1>7 DEF ToolWrites, ToolBackdates, ToolDeletes, Touches
  <2>2. /\ cont' \in [Paths -> Whole \cup {None}]
        /\ \A q \in Paths : q # p => cont'[q] = cont[q]
    BY <1>7 DEF ToolWrites, ToolBackdates, ToolDeletes, TypeOK, Times, Whole
  <2>3. backdated \subseteq backdated' /\ backdated' \subseteq Paths
    BY <1>7 DEF ToolWrites, ToolBackdates, ToolDeletes, TypeOK
  <2>4. \/ p \in backdated'
        \/ cont'[p] = None \/ cont'[p].mtime = now
    BY <1>7 DEF ToolWrites, ToolBackdates, ToolDeletes, TypeOK
  <2>5. TypeOK'
    BY <2>1, <2>2, <2>3 DEF TypeOK
  <2>6. BeforeDownload' /\ StatsTrue' /\ NeverGone'
    BY <2>1 DEF BeforeDownload, StatsTrue, NeverGone
  <2>7. Younger'
    <3>. SUFFICES ASSUME NEW q \in Paths, stats[q] # None,
                         NEW f \in {cont'[q], packed[q]}, Altered(q, f)'
                  PROVE  f.mtime >= stats[q].up
      BY <2>1 DEF Younger
    <3>1. Altered(q, f)
      BY <2>1, <2>3 DEF Altered
    <3>2. CASE f \in {cont[q], packed[q]}
      BY <3>1, <3>2 DEF Younger
    <3>3. CASE f = cont'[p] /\ q = p
      <4>1. f.mtime = now
        BY <2>4, <3>3 DEF Altered
      <4>. QED  BY <4>1 DEF StatsTrue, TypeOK, Stats, Times
    <3>. QED  BY <2>2, <3>2, <3>3
  <2>8. Packing'
    <3>1. CASE phase = "exec"
      BY <2>1, <3>1 DEF Packing, Fetching
    <3>2. CASE phase = "rescue"
      BY <2>1, <2>2, <3>2 DEF Packing, Fetching
    <3>. QED  BY <2>1, <3>1, <3>2
  <2>9. Replacing' /\ Arrives' /\ ResultsArrive'
    BY <2>1, <2>3 DEF Replacing, Arrives, ResultsArrive, Altered, Fetching
  <2>10. EditKept'
    BY <2>1 DEF EditKept
  <2>. QED  BY <2>5, <2>6, <2>7, <2>8, <2>9, <2>10
<1>10. ASSUME NEW p \in Paths, Edit(p) PROVE IInv'
  <2>1. TypeOK' /\ BeforeDownload' /\ StatsTrue' /\ NeverGone'
    BY <1>10 DEF Edit, TypeOK, BeforeDownload, StatsTrue, NeverGone, Whole, Times
  <2>2. Younger' /\ Packing' /\ Replacing' /\ Arrives' /\ ResultsArrive'
    BY <1>10 DEF Edit, Younger, Altered, Packing, Replacing, Arrives, ResultsArrive,
                 Fetching
  <2>3. EditKept'
    BY <1>10 DEF Edit, TypeOK, EditKept
  <2>. QED  BY <2>1, <2>2, <2>3
<1>11. ASSUME NEW p \in Paths, Take(p) PROVE IInv'
  <2>1. /\ cur = Idle /\ Fetching /\ p \in todo /\ todo' = todo \ {p}
        /\ packed' = [packed EXCEPT ![p] = cont[p]] /\ cur' = After(p, cont[p])
        /\ cont' = cont /\ stats' = stats /\ host' = host /\ temp' = temp
        /\ phase' = phase /\ given' = given /\ edited' = edited
        /\ UNCHANGED <<running, backdated, late>>
    BY <1>11 DEF Take
  <2>2. packed'[p] = cont[p] /\ \A q \in Paths : q # p => packed'[q] = packed[q]
    BY <2>1 DEF TypeOK
  <2>3. cur' = Idle \/ cur' \in [path: Paths, step: {"new", "replace", "compare"}]
    BY <2>1 DEF After
  <2>4. TypeOK'
    BY <1>11, <2>3 DEF Take, TypeOK, Idle, Steps
  <2>5. BeforeDownload' /\ StatsTrue' /\ ResultsArrive' /\ NeverGone'
    BY <1>11, <2>1 DEF Take, BeforeDownload, StatsTrue, ResultsArrive, NeverGone,
                       Fetching
  <2>6. Younger'
    BY <2>1, <2>2 DEF Younger, Altered
  <2>7. Packing'
    BY <2>1, <2>2 DEF Packing, Fetching
  <2>8. Replacing'
    BY <2>1, <2>2 DEF After, Replacing, Verdict, Idle
  <2>9. Altered(p, cont[p]) => cur' # Idle /\ cur'.path = p
    BY <2>1, ChangesShow DEF After, Idle, Altered
  <2>10. Arrives'
    BY <2>1, <2>2, <2>9 DEF Arrives, Altered, Fetching
  <2>11. EditKept'
    <3>1. packed[p] \in {None, cont[p]}
      BY <2>1 DEF Packing
    <3>. QED  BY <2>1, <2>2, <3>1 DEF EditKept
  <2>. QED  BY <2>4, <2>5, <2>6, <2>7, <2>8, <2>10, <2>11
<1>12. ASSUME NEW p \in Paths, OpenNew(p) PROVE IInv'
  <2>1. /\ cur.path = p /\ cur # Idle /\ host[p] = None
        /\ Verdict(stats[p], packed[p]) # "unmodified"
        /\ Fetching /\ phase' = phase
    BY <1>12, AtHand DEF OpenNew, At
  <2>2. TypeOK'
    BY <1>12 DEF OpenNew, TypeOK, Files, Steps
  <2>3. BeforeDownload' /\ StatsTrue' /\ Younger' /\ Packing' /\ Arrives' /\ ResultsArrive'
    BY <1>12, <2>1 DEF OpenNew, TypeOK, BeforeDownload, StatsTrue, Younger, Altered, Packing, Arrives,
                       ResultsArrive, Fetching, Idle
  <2>4. Replacing'
    BY <1>12, <2>1 DEF OpenNew, Replacing, Fetching
  <2>5. EditKept'
    BY <1>12, <2>1, OthersPass DEF OpenNew, TypeOK, EditKept
  <2>6. NeverGone'
    BY <1>12, <2>1 DEF OpenNew, TypeOK, NeverGone
  <2>. QED  BY <2>2, <2>3, <2>4, <2>5, <2>6
<1>13. ASSUME NEW p \in Paths, WriteNew(p) PROVE IInv'
  <2>1. /\ cur.path = p /\ cur # Idle /\ packed[p] \in Whole
        /\ Verdict(stats[p], packed[p]) # "unmodified"
        /\ Fetching /\ phase' = phase
    BY <1>13, AtHand DEF WriteNew, At
  <2>2. TypeOK'
    BY <1>13, <2>1 DEF WriteNew, TypeOK, Whole, Files, Steps, Copy, Idle
  <2>3. BeforeDownload' /\ StatsTrue' /\ Younger' /\ Packing' /\ ResultsArrive'
    BY <1>13, <2>1 DEF WriteNew, BeforeDownload, StatsTrue, Younger, Altered, Packing, ResultsArrive,
                       Fetching
  <2>4. Replacing'
    BY <1>13, <2>1 DEF WriteNew, TypeOK, Replacing, Fetching, Copy
  <2>8. /\ host'[p] # None /\ host'[p].data = packed'[p].data
        /\ \A q \in Paths \ {p} : host'[q] = host[q]
    BY <1>13, <2>1, CopyIsWhole DEF WriteNew, TypeOK
  <2>5. Arrives'
    <3>. SUFFICES ASSUME phase' \in {"download", "rescue", "done"},
                         NEW q \in Paths, Altered(q, packed[q])'
                  PROVE  \/ host'[q] # None /\ host'[q].data = packed'[q].data
                         \/ Fetching' /\ (q \in todo' \/ (cur' # Idle /\ cur'.path = q))
      BY DEF Arrives
    <3>1. CASE q = p
      BY <3>1, <2>8
    <3>2. CASE q # p
      <4>1. Altered(q, packed[q]) /\ phase \in {"download", "rescue", "done"} /\ cur.path # q
        BY <1>13, <2>1, <3>2 DEF WriteNew, Altered
      <4>2. (host[q] # None /\ host[q].data = packed[q].data) \/ q \in todo
        BY <4>1 DEF Arrives
      <4>. QED  BY <1>13, <2>1, <2>8, <3>2, <4>2 DEF WriteNew, Fetching
    <3>. QED  BY <3>1, <3>2
  <2>6. EditKept'
    BY <1>13, <2>1, OthersPass DEF WriteNew, TypeOK, EditKept
  <2>7. NeverGone'
    BY <1>13, <2>1 DEF WriteNew, TypeOK, NeverGone, Copy, Whole
  <2>. QED  BY <2>2, <2>3, <2>4, <2>5, <2>6, <2>7
<1>14. ASSUME NEW p \in Paths, WriteTemp(p) PROVE IInv'
  <2>1. /\ cur.path = p /\ cur # Idle /\ packed[p] \in Whole
        /\ Verdict(stats[p], packed[p]) # "unmodified"
        /\ Fetching /\ phase' = phase /\ host[p] # None
    BY <1>14, AtHand DEF WriteTemp, At
  <2>2. TypeOK'
    BY <1>14, <2>1 DEF WriteTemp, TypeOK, Whole, Files, Steps, Copy
  <2>3. BeforeDownload' /\ StatsTrue' /\ Younger' /\ Packing' /\ ResultsArrive'
    BY <1>14, <2>1 DEF WriteTemp, BeforeDownload, StatsTrue, Younger, Altered, Packing, ResultsArrive,
                       Fetching
  <2>8. /\ temp'[p] # None /\ temp'[p].data = packed'[p].data
        /\ cur'.path = p /\ cur'.step = "unlink"
    BY <1>14, <2>1, CopyIsWhole DEF WriteTemp, TypeOK
  <2>9. host'[p] # None /\ packed'[p] # None
        /\ Verdict(stats'[p], packed'[p]) # "unmodified"
    BY <1>14, <2>1 DEF WriteTemp, Replacing
  <2>4. Replacing'
    BY <2>1, <2>8, <2>9 DEF Replacing
  <2>5. Arrives'
    BY <1>14, <2>1 DEF WriteTemp, TypeOK, Arrives, Altered, Fetching, Copy, Idle
  <2>6. EditKept'
    BY <1>14, <2>1, OthersPass DEF WriteTemp, TypeOK, EditKept
  <2>7. NeverGone'
    BY <1>14, <2>1 DEF WriteTemp, TypeOK, NeverGone, Copy, Whole
  <2>. QED  BY <2>2, <2>3, <2>4, <2>5, <2>6, <2>7
<1>15. ASSUME NEW p \in Paths, WriteTempToCompare(p) PROVE IInv'
  <2>1. /\ cur.path = p /\ cur # Idle /\ packed[p] \in Whole
        /\ Verdict(stats[p], packed[p]) # "unmodified"
        /\ Fetching /\ phase' = phase /\ host[p] # None
    BY <1>15, AtHand DEF WriteTempToCompare, At
  <2>2. TypeOK'
    BY <1>15, <2>1 DEF WriteTempToCompare, TypeOK, Whole, Files, Steps, Copy
  <2>3. BeforeDownload' /\ StatsTrue' /\ Younger' /\ Packing' /\ ResultsArrive'
    BY <1>15, <2>1 DEF WriteTempToCompare, BeforeDownload, StatsTrue, Younger, Altered, Packing, ResultsArrive,
                       Fetching
  <2>8. /\ temp'[p] # None /\ temp'[p].data = packed'[p].data
        /\ cur'.path = p /\ cur'.step = "digest"
    BY <1>15, <2>1, CopyIsWhole DEF WriteTempToCompare, TypeOK
  <2>9. host'[p] # None /\ packed'[p] # None
        /\ Verdict(stats'[p], packed'[p]) # "unmodified"
    BY <1>15, <2>1 DEF WriteTempToCompare, Replacing
  <2>4. Replacing'
    BY <2>1, <2>8, <2>9 DEF Replacing
  <2>5. Arrives'
    BY <1>15, <2>1 DEF WriteTempToCompare, TypeOK, Arrives, Altered, Fetching, Copy, Idle
  <2>6. EditKept'
    BY <1>15, <2>1, OthersPass DEF WriteTempToCompare, TypeOK, EditKept
  <2>7. NeverGone'
    BY <1>15, <2>1 DEF WriteTempToCompare, TypeOK, NeverGone, Copy, Whole
  <2>. QED  BY <2>2, <2>3, <2>4, <2>5, <2>6, <2>7
<1>16. ASSUME NEW p \in Paths, Digest(p) PROVE IInv'
  <2>1. /\ cur.path = p /\ cur # Idle /\ packed[p] \in Whole
        /\ Verdict(stats[p], packed[p]) # "unmodified"
        /\ Fetching /\ phase' = phase /\ host[p] # None /\ temp[p] # None
        /\ temp[p].data = packed[p].data
    BY <1>16, AtHand DEF Digest, At
  <2>2. TypeOK'
    BY <1>16, <2>1 DEF Digest, TypeOK, Whole, Files, Steps, Copy, Idle
  <2>3. BeforeDownload' /\ StatsTrue' /\ Younger' /\ Packing' /\ ResultsArrive'
    BY <1>16, <2>1 DEF Digest, BeforeDownload, StatsTrue, Younger, Altered, Packing, ResultsArrive,
                       Fetching
  <2>4. Replacing'
    BY <1>16, <2>1 DEF Digest, TypeOK, Replacing, Fetching, Copy
  <2>5. Arrives'
    BY <1>16, <2>1 DEF Digest, TypeOK, Arrives, Altered, Fetching, Copy, Idle
  <2>6. EditKept'
    BY <1>16, <2>1, OthersPass DEF Digest, TypeOK, EditKept
  <2>7. NeverGone'
    BY <1>16, <2>1 DEF Digest, TypeOK, NeverGone, Copy, Whole
  <2>. QED  BY <2>2, <2>3, <2>4, <2>5, <2>6, <2>7
<1>17. ASSUME NEW p \in Paths, Unlink(p) PROVE IInv'
  <2>1. /\ cur.path = p /\ cur # Idle /\ packed[p] \in Whole
        /\ Verdict(stats[p], packed[p]) # "unmodified"
        /\ Fetching /\ phase' = phase /\ temp[p] # None
        /\ temp[p].data = packed[p].data
    BY <1>17, AtHand DEF Unlink, At
  <2>2. TypeOK'
    BY <1>17, <2>1 DEF Unlink, TypeOK, Whole, Files, Steps, Copy
  <2>3. BeforeDownload' /\ StatsTrue' /\ Younger' /\ Packing' /\ ResultsArrive'
    BY <1>17, <2>1 DEF Unlink, BeforeDownload, StatsTrue, Younger, Altered, Packing, ResultsArrive,
                       Fetching
  <2>4. Replacing'
    BY <1>17, <2>1 DEF Unlink, TypeOK, Replacing, Fetching, Copy
  <2>5. Arrives'
    BY <1>17, <2>1 DEF Unlink, TypeOK, Arrives, Altered, Fetching, Copy, Idle
  <2>6. EditKept'
    BY <1>17, <2>1, OthersPass DEF Unlink, TypeOK, EditKept
  <2>7. NeverGone'
    BY <1>17, <2>1 DEF Unlink, TypeOK, NeverGone, Copy, Whole
  <2>. QED  BY <2>2, <2>3, <2>4, <2>5, <2>6, <2>7
<1>18. ASSUME NEW p \in Paths, Rename(p) PROVE IInv'
  <2>1. /\ cur.path = p /\ cur # Idle /\ packed[p] \in Whole
        /\ Verdict(stats[p], packed[p]) # "unmodified"
        /\ Fetching /\ phase' = phase /\ temp[p] # None
        /\ temp[p].data = packed[p].data
    BY <1>18, AtHand DEF Rename, At
  <2>2. TypeOK'
    BY <1>18, <2>1 DEF Rename, TypeOK, Whole, Files, Steps, Copy, Idle
  <2>3. BeforeDownload' /\ StatsTrue' /\ Younger' /\ Packing' /\ ResultsArrive'
    BY <1>18, <2>1 DEF Rename, BeforeDownload, StatsTrue, Younger, Altered, Packing, ResultsArrive,
                       Fetching
  <2>4. Replacing'
    BY <1>18, <2>1 DEF Rename, TypeOK, Replacing, Fetching, Copy
  <2>5. Arrives'
    BY <1>18, <2>1 DEF Rename, TypeOK, Arrives, Altered, Fetching, Copy, Idle
  <2>6. EditKept'
    BY <1>18, <2>1, OthersPass DEF Rename, TypeOK, EditKept
  <2>7. NeverGone'
    BY <1>18, <2>1 DEF Rename, TypeOK, NeverGone, Copy, Whole
  <2>. QED  BY <2>2, <2>3, <2>4, <2>5, <2>6, <2>7
<1>19. CASE UNCHANGED vars
  BY <1>19 DEF vars, TypeOK, BeforeDownload, StatsTrue, Younger, Altered, Packing, Replacing,
               Arrives, ResultsArrive, EditKept, NeverGone, Fetching
<1>. QED
  BY <1>1, <1>2, <1>3, <1>4, <1>5, <1>6, <1>7, <1>10, <1>11, <1>12,
     <1>13, <1>14, <1>15, <1>16, <1>17, <1>18, <1>19
  DEF Next, Client, Tool, User

----------------------------------------------------------------------------
(* The theorems *)

\* The inductive invariant holds in every run.
THEOREM Invariance == Spec => []IInv
BY InvInit, InvStep, PTL DEF Spec

\* Every variable keeps its type.
THEOREM TypeCorrect == Spec => []TypeOK
<1>1. IInv => TypeOK
  BY DEF IInv
<1>. QED  BY <1>1, Invariance, PTL

\* No result is overlooked for its size and time stamp.
THEOREM NothingOverlooked == Spec => []ResultsArrive
<1>1. IInv => ResultsArrive
  BY DEF IInv
<1>. QED  BY <1>1, Invariance, PTL

\* What the user saved during the run is not overwritten.
THEOREM EditsSurvive == Spec => []EditKept
<1>1. IInv => EditKept
  BY DEF IInv
<1>. QED  BY <1>1, Invariance, PTL

\* At no moment is a file without a complete copy.
THEOREM AlwaysACopy == Spec => []NeverGone
<1>1. IInv => NeverGone
  BY DEF IInv
<1>. QED  BY <1>1, Invariance, PTL
=============================================================================
