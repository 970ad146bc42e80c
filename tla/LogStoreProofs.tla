--------------------------- MODULE LogStoreProofs ---------------------------
(***************************************************************************)
(* Theorems about LogStore, for every number of writers and readers and    *)
(* every clock.                                                            *)
(***************************************************************************)
EXTENDS LogStore, TLAPS

\* The clock has a first name.
LEMMA ZeroTime == 0 \in Times
<1>1. MaxTime \in Nat
  BY StoreAssumption
<1>. QED  BY <1>1 DEF Times

\* The processes start in the inductive invariant.
LEMMA InvInit == Init => IInv
<1>. SUFFICES ASSUME Init PROVE IInv
  OBVIOUS
<1>. USE StoreAssumption
     DEF Init, Procs, NoFile, Unwritten, Unwritten
<1>1. TypeOK
  <2>1. uidFile \in Uids \cup {NoFile} /\ now \in Times
    BY DEF Uids
  <2>2. files \in [Uids -> [Times -> Contents]]
    BY DEF Contents
  <2>. QED  BY <2>1, <2>2, ZeroTime DEF TypeOK
<1>2. UidOnce /\ OneHome
  BY DEF UidOnce, OneHome
<1>3. NamesOwned
  BY DEF NamesOwned, OwnFile, OwnName, Owner, Unfinished, Claims, At
<1>4. ListTrue
  BY DEF ListTrue
<1>. QED  BY <1>1, <1>2, <1>3, <1>4 DEF IInv

\* Types are kept.
LEMMA TypeStep == TypeOK /\ UidOnce /\ [Next]_vars => TypeOK'
<1>. SUFFICES ASSUME TypeOK, UidOnce, [Next]_vars PROVE TypeOK'
  OBVIOUS
<1>. USE StoreAssumption
     DEF TypeOK, Procs, NoFile, Unwritten, Uids, Times, Contents, At, Goto, own, index, past
<1>1. ASSUME NEW p \in Procs, Check(p) PROVE TypeOK'
  BY <1>1 DEF Check
<1>2. ASSUME NEW p \in Procs, ReadUid(p) PROVE TypeOK'
  BY <1>2 DEF ReadUid, UidOnce, AfterBase
<1>3. ASSUME NEW p \in Procs, CreateUid(p) PROVE TypeOK'
  BY <1>3 DEF CreateUid
<1>4. ASSUME NEW p \in Procs, WriteUid(p) PROVE TypeOK'
  BY <1>4 DEF WriteUid, AfterBase
<1>5. ASSUME NEW p \in Procs, Die(p) PROVE TypeOK'
  BY <1>5 DEF Die
<1>6. ASSUME NEW p \in Writers, Pick(p) PROVE TypeOK'
  BY <1>6 DEF Pick
<1>7. ASSUME NEW p \in Writers, Exists(p) PROVE TypeOK'
  <2>1. clash' \in BOOLEAN
    BY <1>7 DEF Exists
  <2>2. \E s \in {"pick", "open"} : pc' = [pc EXCEPT ![p] = s]
    BY <1>7 DEF Exists
  <2>3. pc[p] = "exists" /\ UNCHANGED <<uidFile, files, now, own, index, raced>>
    BY <1>7 DEF Exists
  <2>. QED  BY <2>1, <2>2, <2>3
<1>8. ASSUME NEW p \in Writers, Open(p) PROVE TypeOK'
  BY <1>8 DEF Open, SetFile
<1>9. ASSUME NEW p \in Writers, Dump(p) PROVE TypeOK'
  <2>1. PICK c \in Contents : files' = [files EXCEPT ![dir[p]][name[p]] = c]
    BY <1>9 DEF Dump, SetFile
  <2>2. files' \in [Uids -> [Times -> Contents]]
    BY <1>9, <2>1 DEF Dump
  <2>. QED  BY <1>9, <2>2 DEF Dump
<1>10. ASSUME NEW r \in Readers, List(r) PROVE TypeOK'
  BY <1>10 DEF List, Complete
<1>11. ASSUME NEW r \in Readers, Load(r) PROVE TypeOK'
  <2>1. PICK t \in todo[r] :
          LET f == files[dir[r]][t] IN
          IF f \in Writers
            THEN /\ seen' = [seen EXCEPT ![r] = @ \cup {f}]
                 /\ todo' = [todo EXCEPT ![r] = @ \ {t}]
                 /\ UNCHANGED pc
            ELSE pc' = [pc EXCEPT ![r] = "failed"] /\ UNCHANGED <<seen, todo>>
    BY <1>11 DEF Load
  <2>2. CASE files[dir[r]][t] \in Writers
    <3>0. /\ seen' = [seen EXCEPT ![r] = @ \cup {files[dir[r]][t]}]
          /\ todo' = [todo EXCEPT ![r] = @ \ {t}]
      BY <2>1, <2>2
    <3>1. seen' \in [Readers -> SUBSET Writers]
      BY <2>2, <3>0
    <3>2. todo' \in [Readers -> SUBSET Times]
      BY <3>0
    <3>3. pc' = pc /\ UNCHANGED <<uidFile, files, now, own, due, past>>
      BY <1>11, <2>1, <2>2 DEF Load
    <3>. QED  BY <3>1, <3>2, <3>3
  <2>3. CASE files[dir[r]][t] \notin Writers
    <3>1. pc' = [pc EXCEPT ![r] = "failed"] /\ UNCHANGED <<seen, todo>>
      BY <2>1, <2>3
    <3>2. pc[r] = "load" /\ UNCHANGED <<uidFile, files, now, own, due, past>>
      BY <1>11 DEF Load
    <3>. QED  BY <3>1, <3>2
  <2>. QED  BY <2>2, <2>3
<1>12. ASSUME NEW r \in Readers, Loaded(r) PROVE TypeOK'
  BY <1>12 DEF Loaded
<1>13. CASE Tick
  BY <1>13 DEF Tick
<1>14. CASE UNCHANGED vars
  BY <1>14 DEF vars
<1>. QED
  BY <1>1, <1>2, <1>3, <1>4, <1>5, <1>6, <1>7, <1>8, <1>9, <1>10, <1>11,
     <1>12, <1>13, <1>14 DEF Next

\* where a process is when it has left CommandLogBase.__init__
Later == {"pick", "exists", "open", "dump", "list", "load", "done", "failed"}

\* uid.txt is made once, and everyone has its content.
LEMMA UidStep ==
  TypeOK /\ UidOnce /\ OneHome /\ [Next]_vars => UidOnce' /\ OneHome'
<1>. SUFFICES ASSUME TypeOK, UidOnce, OneHome, [Next]_vars
              PROVE  UidOnce' /\ OneHome'
  OBVIOUS
<1>. USE StoreAssumption
     DEF TypeOK, UidOnce, OneHome, Procs, NoFile, Unwritten, Uids, At, Goto, own, past
<1>1. ASSUME NEW p \in Procs, Check(p) PROVE UidOnce' /\ OneHome'
  BY <1>1 DEF Check
<1>2. ASSUME NEW p \in Procs, ReadUid(p) PROVE UidOnce' /\ OneHome'
  BY <1>2 DEF ReadUid, AfterBase
<1>3. ASSUME NEW p \in Procs, CreateUid(p) PROVE UidOnce' /\ OneHome'
  BY <1>3 DEF CreateUid
<1>4. ASSUME NEW p \in Procs, WriteUid(p) PROVE UidOnce' /\ OneHome'
  BY <1>4 DEF WriteUid, AfterBase
<1>5. ASSUME NEW p \in Procs, Die(p) PROVE UidOnce' /\ OneHome'
  BY <1>5 DEF Die
<1>6. ASSUME NEW p \in Procs, NEW s, pc[p] \in Later, s \in Later,
             pc' = [pc EXCEPT ![p] = s] \/ pc' = pc,
             UNCHANGED <<uidFile, dir, dead, raced>>
      PROVE UidOnce' /\ OneHome'
  <2>1. \A q \in Procs : q # p => pc'[q] = pc[q]
    BY <1>6
  <2>2. pc'[p] \in Later
    BY <1>6
  <2>3. uidFile # NoFile
    BY <1>6 DEF Later
  <2>. QED  BY <1>6, <2>1, <2>2, <2>3 DEF Later
<1>7. ASSUME NEW p \in Writers, Pick(p) \/ Exists(p) \/ Open(p) \/ Dump(p)
      PROVE  UidOnce' /\ OneHome'
  <2>1. pc[p] \in Later /\ UNCHANGED <<uidFile, dir, dead, raced>>
    BY <1>7 DEF Pick, Exists, Open, Dump, Later
  <2>2. \E s \in Later : pc' = [pc EXCEPT ![p] = s]
    BY <1>7 DEF Pick, Exists, Open, Dump, Later
  <2>. QED  BY <1>6, <2>1, <2>2
<1>8. ASSUME NEW r \in Readers, List(r) \/ Load(r) \/ Loaded(r)
      PROVE  UidOnce' /\ OneHome'
  <2>1. pc[r] \in Later /\ UNCHANGED <<uidFile, dir, dead, raced>>
    BY <1>8 DEF List, Load, Loaded, Later
  <2>2. \E s \in Later : pc' = [pc EXCEPT ![r] = s] \/ pc' = pc
    BY <1>8 DEF List, Load, Loaded, Later
  <2>. QED  BY <1>6, <2>1, <2>2
<1>9. CASE Tick
  BY <1>9 DEF Tick
<1>10. CASE UNCHANGED vars
  BY <1>10 DEF vars
<1>. QED
  BY <1>1, <1>2, <1>3, <1>4, <1>5, <1>7, <1>8, <1>9, <1>10 DEF Next

\* from the test of its name on
Busy(p) == pc[p] \in {"open", "dump", "done"}

\* Every writer has its name for itself.
LEMMA NamesStep ==
  TypeOK /\ (~clash => NamesOwned) /\ [Next]_vars => (~clash' => NamesOwned')
<1>. SUFFICES ASSUME TypeOK, ~clash, NamesOwned, ~clash', [Next]_vars
              PROVE  NamesOwned'
  <2>1. clash => (clash' \/ ~[Next]_vars)
    BY DEF TypeOK, Next, Check, ReadUid, CreateUid, WriteUid, Die, Pick, Exists,
           Open, Dump, List, Load, Loaded, Tick, vars, past
  <2>. QED  BY <2>1
<1>. USE StoreAssumption
     DEF TypeOK, NamesOwned, Claims, Procs, NoFile, Unwritten, At, Goto, own, past, File
<1>1. ASSUME \A q \in Writers : Busy(q) \/ Busy(q)' =>
                pc'[q] = pc[q] /\ dir'[q] = dir[q] /\ name'[q] = name[q],
             UNCHANGED files, dead \subseteq dead'
      PROVE NamesOwned'
  <2>1. OwnFile'
    BY <1>1 DEF OwnFile, Busy
  <2>2. OwnName'
    BY <1>1 DEF OwnName, Busy
  <2>3. Owner'
    BY <1>1 DEF Owner, Busy
  <2>4. Unfinished'
    BY <1>1 DEF Unfinished, Busy
  <2>. QED  BY <2>1, <2>2, <2>3, <2>4
<1>2. ASSUME NEW p \in Procs, Check(p) \/ ReadUid(p) \/ CreateUid(p) \/ WriteUid(p)
      PROVE  NamesOwned'
  <2>1. /\ pc[p] \in {"check", "read", "create", "write"}
        /\ \E s \in {"read", "create", "write", "pick", "list"} :
              pc' = [pc EXCEPT ![p] = s]
        /\ \A q \in Procs \ {p} : dir'[q] = dir[q]
        /\ UNCHANGED <<files, dead, name>>
    BY <1>2 DEF Check, ReadUid, CreateUid, WriteUid, AfterBase
  <2>. QED  BY <1>1, <2>1 DEF Busy
<1>3. ASSUME NEW p \in Procs, Die(p) PROVE NamesOwned'
  BY <1>1, <1>3 DEF Die
<1>4. ASSUME NEW p \in Writers, Pick(p) PROVE NamesOwned'
  <2>1. \A q \in Writers : Busy(q) \/ Busy(q)' =>
           pc'[q] = pc[q] /\ dir'[q] = dir[q] /\ name'[q] = name[q]
    BY <1>4 DEF Pick, Busy
  <2>. QED  BY <1>1, <1>4, <2>1 DEF Pick
<1>5. ASSUME NEW p \in Writers, Exists(p) PROVE NamesOwned'
  <2>1. CASE pc' = [pc EXCEPT ![p] = "pick"]
    <3>1. \A q \in Writers : Busy(q) \/ Busy(q)' =>
             pc'[q] = pc[q] /\ dir'[q] = dir[q] /\ name'[q] = name[q]
      BY <1>5, <2>1 DEF Exists, Busy
    <3>. QED  BY <1>1, <1>5, <3>1 DEF Exists
  <2>2. CASE pc' = [pc EXCEPT ![p] = "open"] /\ File(p) = NoFile /\ Twins(p) = {}
    <3>1. OwnFile'
      BY <1>5, <2>2 DEF Exists, OwnFile
    <3>2. OwnName'
      <4>1. \A q \in Writers : q # p /\ Claims(q) => dir[p] # dir[q] \/ name[p] # name[q]
        BY <2>2 DEF Twins, OwnFile
      <4>. QED  BY <1>5, <2>2, <4>1 DEF Exists, OwnName
    <3>3. Owner'
      BY <1>5, <2>2 DEF Exists, Owner
    <3>4. Unfinished'
      BY <1>5, <2>2 DEF Exists, Unfinished
    <3>. QED  BY <3>1, <3>2, <3>3, <3>4
  <2>. QED  BY <1>5, <2>1, <2>2 DEF Exists
<1>6. ASSUME NEW p \in Writers, Open(p) PROVE NamesOwned'
  <2>1. /\ dir[p] \in Uids /\ name[p] \in Times
        /\ files' = [files EXCEPT ![dir[p]][name[p]] = "partial"]
        /\ pc' = [pc EXCEPT ![p] = "dump"]
        /\ pc[p] = "open" /\ p \notin dead /\ UNCHANGED <<dir, name, dead>>
    BY <1>6 DEF Open, SetFile
  <2>2. files[dir[p]][name[p]] = NoFile
    BY <2>1 DEF OwnFile
  <2>3. \A u \in Uids, t \in Times :
           files'[u][t] = IF u = dir[p] /\ t = name[p] THEN "partial" ELSE files[u][t]
    BY <2>1
  <2>4. OwnFile'
    BY <2>1, <2>2, <2>3 DEF OwnFile, OwnName
  <2>5. OwnName'
    BY <2>1 DEF OwnName
  <2>6. Owner'
    BY <2>1, <2>3 DEF Owner
  <2>7. Unfinished'
    BY <2>1, <2>3 DEF Unfinished
  <2>. QED  BY <2>4, <2>5, <2>6, <2>7
<1>7. ASSUME NEW p \in Writers, Dump(p) PROVE NamesOwned'
  <2>1. /\ dir[p] \in Uids /\ name[p] \in Times
        /\ files' = [files EXCEPT ![dir[p]][name[p]] = p]
        /\ pc' = [pc EXCEPT ![p] = "done"]
        /\ pc[p] = "dump" /\ UNCHANGED <<dir, name, dead>>
        /\ files[dir[p]][name[p]] = "partial"
    BY <1>7 DEF Dump, SetFile, OwnFile
  <2>2. \A u \in Uids, t \in Times :
           files'[u][t] = IF u = dir[p] /\ t = name[p] THEN p ELSE files[u][t]
    BY <2>1
  <2>3. OwnFile'
    BY <2>1, <2>2 DEF OwnFile, OwnName
  <2>4. OwnName'
    BY <2>1 DEF OwnName
  <2>5. Owner'
    BY <2>1, <2>2 DEF Owner
  <2>6. Unfinished'
    BY <2>1, <2>2 DEF Unfinished
  <2>. QED  BY <2>3, <2>4, <2>5, <2>6
<1>8. ASSUME NEW r \in Readers, List(r) \/ Load(r) \/ Loaded(r)
      PROVE  NamesOwned'
  <2>1. /\ \A q \in Writers : pc'[q] = pc[q]
        /\ UNCHANGED <<files, dir, name, dead>>
    BY <1>8 DEF List, Load, Loaded
  <2>. QED  BY <1>1, <2>1
<1>9. CASE Tick
  BY <1>1, <1>9 DEF Tick
<1>10. CASE UNCHANGED vars
  BY <1>1, <1>10 DEF vars
<1>. QED
  BY <1>2, <1>3, <1>4, <1>5, <1>6, <1>7, <1>8, <1>9, <1>10 DEF Next

\* Readers have what they are due, or it is still in front of them.
LEMMA ListStep ==
  TypeOK /\ ListTrue /\ (~clash => NamesOwned) /\ [Next]_vars => ListTrue'
<1>. SUFFICES ASSUME TypeOK, ListTrue, ~clash => NamesOwned, [Next]_vars
              PROVE  ListTrue'
  OBVIOUS
<1>. USE StoreAssumption
     DEF TypeOK, ListTrue, Procs, NoFile, At, Goto, own, index, past, File
\* What a step leaves alone, and what it may do to the files.
<1>1. ASSUME NEW w \in Procs, w \notin Readers \/ pc[w] \notin {"list", "load"},
             \A q \in Procs \ {w} : pc'[q] = pc[q] /\ dir'[q] = dir[q],
             w \in Readers => pc'[w] \notin {"load", "done"},
             pc[w] = "done" => pc'[w] = "done" /\ dir'[w] = dir[w],
             \A v \in Writers : pc[v] = "done" => name'[v] = name[v],
             \A u \in Uids, t \in Times : files[u][t] # NoFile => files'[u][t] # NoFile,
             clash => clash', UNCHANGED index
      PROVE ListTrue'
  <2>1. \A r \in Readers : pc'[r] \in {"load", "done"} =>
           r # w /\ pc'[r] = pc[r] /\ dir'[r] = dir[r] /\ (dir[r] \in Uids)
    BY <1>1
  <2>2. \A v \in Writers : pc[v] = "done" =>
           pc'[v] = "done" /\ dir'[v] = dir[v] /\ name'[v] = name[v]
    BY <1>1
  <2>. QED  BY <1>1, <2>1, <2>2
<1>2. ASSUME NEW p \in Procs, Check(p) \/ ReadUid(p) \/ CreateUid(p) \/ WriteUid(p)
      PROVE  ListTrue'
  <2>1. /\ pc[p] \in {"check", "read", "create", "write"}
        /\ \E s \in {"read", "create", "write", "pick", "list"} :
              pc' = [pc EXCEPT ![p] = s]
        /\ \A q \in Procs \ {p} : dir'[q] = dir[q]
        /\ UNCHANGED <<files, name, clash, index>>
    BY <1>2 DEF Check, ReadUid, CreateUid, WriteUid, AfterBase
  <2>. QED  BY <1>1, <2>1
<1>3. ASSUME NEW p \in Procs, Die(p) PROVE ListTrue'
  BY <1>3 DEF Die
<1>4. ASSUME NEW p \in Writers, Pick(p) \/ Exists(p) PROVE ListTrue'
  <2>1. /\ pc[p] \in {"pick", "exists"}
        /\ \E s \in {"pick", "exists", "open"} : pc' = [pc EXCEPT ![p] = s]
        /\ \A q \in Procs \ {p} : name'[q] = name[q]
        /\ UNCHANGED <<files, dir, index>> /\ (clash => clash')
    BY <1>4 DEF Pick, Exists
  <2>. QED  BY <1>1, <2>1
<1>5. ASSUME NEW p \in Writers, Open(p) \/ Dump(p) PROVE ListTrue'
  <2>1. PICK c \in Contents \ {NoFile} :
           files' = [files EXCEPT ![dir[p]][name[p]] = c]
    BY <1>5 DEF Open, Dump, SetFile, Contents
  <2>2. /\ pc[p] \in {"open", "dump"}
        /\ \E s \in {"dump", "done"} : pc' = [pc EXCEPT ![p] = s]
        /\ UNCHANGED <<name, dir, clash, index>>
    BY <1>5 DEF Open, Dump
  <2>3. \A u \in Uids, t \in Times : files[u][t] # NoFile => files'[u][t] # NoFile
    BY <2>1, <2>2
  <2>4. /\ p \in Procs /\ p \notin Readers /\ pc[p] # "done"
        /\ \A q \in Procs \ {p} : pc'[q] = pc[q] /\ dir'[q] = dir[q]
    BY <2>2
  <2>. QED  BY <1>1, <2>2, <2>3, <2>4
<1>6. ASSUME NEW r \in Readers, List(r) PROVE ListTrue'
  <2>1. /\ pc[r] = "list" /\ dir[r] \in Uids
        /\ todo' = [todo EXCEPT ![r] = {t \in Times : files[dir[r]][t] # NoFile}]
        /\ due' = [due EXCEPT ![r] = Complete(dir[r])]
        /\ pc' = [pc EXCEPT ![r] = "load"]
        /\ UNCHANGED <<files, dir, name, seen, clash>>
    BY <1>6 DEF List
  <2>2. ~clash => \A w \in Complete(dir[r]) :
           pc[w] = "done" /\ dir[w] = dir[r] /\ name[w] \in todo'[r]
    BY <2>1 DEF Complete, NamesOwned, Owner
  <2>. QED  BY <2>1, <2>2
<1>7. ASSUME NEW r \in Readers, Load(r) PROVE ListTrue'
  <2>1. PICK t \in todo[r] :
          LET f == files[dir[r]][t] IN
          IF f \in Writers
            THEN /\ seen' = [seen EXCEPT ![r] = @ \cup {f}]
                 /\ todo' = [todo EXCEPT ![r] = @ \ {t}]
                 /\ UNCHANGED pc
            ELSE pc' = [pc EXCEPT ![r] = "failed"] /\ UNCHANGED <<seen, todo>>
    BY <1>7 DEF Load
  <2>2. pc[r] = "load" /\ UNCHANGED <<files, dir, name, due, clash>>
    BY <1>7 DEF Load
  <2>3. CASE files[dir[r]][t] \in Writers
    <3>1. /\ seen' = [seen EXCEPT ![r] = @ \cup {files[dir[r]][t]}]
          /\ todo' = [todo EXCEPT ![r] = @ \ {t}]
          /\ UNCHANGED pc
      BY <2>1, <2>3
    <3>2. ~clash => \A w \in Writers :
             pc[w] = "done" /\ dir[w] = dir[r] /\ name[w] = t => w = files[dir[r]][t]
      BY DEF NamesOwned, OwnFile
    <3>. QED  BY <2>2, <3>1, <3>2
  <2>4. CASE files[dir[r]][t] \notin Writers
    BY <2>1, <2>2, <2>4
  <2>. QED  BY <2>3, <2>4
<1>8. ASSUME NEW r \in Readers, Loaded(r) PROVE ListTrue'
  BY <1>8 DEF Loaded
<1>9. CASE Tick
  BY <1>9 DEF Tick
<1>10. CASE UNCHANGED vars
  BY <1>10 DEF vars
<1>. QED
  BY <1>2, <1>3, <1>4, <1>5, <1>6, <1>7, <1>8, <1>9, <1>10 DEF Next

\* Every step preserves the inductive invariant.
LEMMA InvStep == IInv /\ [Next]_vars => IInv'
BY TypeStep, UidStep, NamesStep, ListStep DEF IInv

\* The inductive invariant holds in every run.
THEOREM Invariance == Spec => []IInv
BY InvInit, InvStep, PTL DEF Spec

\* Every variable always has its type.
THEOREM TypeCorrect == Spec => []TypeOK
<1>1. IInv => TypeOK
  BY DEF IInv
<1>. QED  BY <1>1, Invariance, PTL

\* A finished entry stays, while no two writers test one name at once.
THEOREM EntriesKept == Spec => []EntryKept
<1>1. IInv => EntryKept
  BY DEF IInv, EntryKept, NamesOwned, OwnFile
<1>. QED  BY <1>1, Invariance, PTL

\* Everyone uses one directory, while uid.txt is not made twice.
THEOREM OneDirectory == Spec => []OneHome
<1>1. IInv => OneHome
  BY DEF IInv
<1>. QED  BY <1>1, Invariance, PTL

\* A reader that ends has loaded every entry that was complete at its listing.
THEOREM ReadsComplete == Spec => []IndexComplete
<1>1. IInv => IndexComplete
  BY DEF IInv, TypeOK, ListTrue, IndexComplete
<1>. QED  BY <1>1, Invariance, PTL

\* A reader stumbles only over an entry that is being written.
THEOREM StumblesExplained == Spec => IndexStumbles
<1>1. IInv /\ [Next]_vars =>
        [\A r \in Readers : pc[r] # "failed" /\ pc'[r] = "failed" /\ ~clash =>
          \E p \in Writers : /\ pc[p] = "dump"
                             /\ dir[p] = dir[r] /\ name[p] \in todo[r]]_vars
  <2>. SUFFICES ASSUME IInv, Next, NEW r \in Readers, pc[r] # "failed",
                       pc'[r] = "failed", ~clash
                PROVE  \E p \in Writers : /\ pc[p] = "dump" /\ dir[p] = dir[r]
                                          /\ name[p] \in todo[r]
    OBVIOUS
  <2>. USE StoreAssumption DEF IInv, TypeOK, Procs, NoFile, Unwritten, At, Goto
  <2>1. Load(r)
    BY DEF Next, Check, ReadUid, CreateUid, WriteUid, AfterBase, Die, Pick,
           Exists, Open, Dump, List, Load, Loaded, Tick
  <2>2. PICK t \in todo[r] : files[dir[r]][t] \notin Writers /\ pc[r] = "load"
    BY <2>1 DEF Load
  <2>3. dir[r] \in Uids /\ t \in Times
    BY <2>2
  <2>4. files[dir[r]][t] # NoFile
    BY <2>2 DEF ListTrue
  <2>5. files[dir[r]][t] \in {"partial", "mixed"}
    BY <2>2, <2>3, <2>4 DEF Contents
  <2>. QED  BY <2>2, <2>3, <2>5 DEF NamesOwned, Unfinished
<1>. QED  BY <1>1, Invariance, PTL DEF Spec, IndexStumbles

\* The directories together are an append-only log.
THEOREM Refinement == Spec => KeepsLog
<1>1. Init => Log!Init
  BY StoreAssumption DEF Init, Log!Init, Stored, Procs, NoFile
<1>2. IInv /\ [Next]_vars => [Log!Next]_Log!vars
  <2>. SUFFICES ASSUME IInv, Next PROVE Log!Next \/ UNCHANGED Log!vars
    BY DEF vars, Log!vars, Stored
  <2>. USE DEF IInv, TypeOK
  <2>1. CASE UNCHANGED files
    <3>1. Stored' = Stored
      BY <2>1 DEF Stored
    <3>2. clash' = clash \/ clash' = TRUE
      BY DEF Next, Check, ReadUid, CreateUid, WriteUid, Die, Pick, Exists,
             Open, Dump, List, Load, Loaded, Tick, past
    <3>. QED  BY <3>1, <3>2 DEF Log!Next, Log!Break, Log!vars
  <2>2. ASSUME NEW p \in Writers, Open(p) \/ Dump(p), clash
        PROVE  Log!Next
    <3>1. clash' = clash /\ Stored' \in SUBSET Writers
      BY <2>2 DEF Open, Dump, Stored, past
    <3>. QED  BY <2>2, <3>1 DEF Log!Next, Log!Anything
  <2>3. ASSUME NEW p \in Writers, Open(p), ~clash
        PROVE  UNCHANGED Log!vars
    <3>1. /\ dir[p] \in Uids /\ name[p] \in Times
          /\ files[dir[p]][name[p]] = NoFile
          /\ files' = [files EXCEPT ![dir[p]][name[p]] = "partial"]
          /\ clash' = clash
      BY <2>3, StoreAssumption
      DEF Open, SetFile, NamesOwned, OwnFile, File, At, past, Procs, NoFile
    <3>2. Stored' = Stored
      BY <3>1, StoreAssumption DEF Stored, NoFile, Procs
    <3>. QED  BY <3>1, <3>2 DEF Log!vars
  <2>4. ASSUME NEW p \in Writers, Dump(p), ~clash
        PROVE  Log!Next
    <3>1. /\ dir[p] \in Uids /\ name[p] \in Times
          /\ files[dir[p]][name[p]] = "partial"
          /\ files' = [files EXCEPT ![dir[p]][name[p]] = p]
          /\ clash' = clash
      BY <2>4, StoreAssumption
      DEF Dump, SetFile, NamesOwned, OwnFile, File, At, past, Procs, NoFile
    <3>2. p \notin Stored
      BY <2>4 DEF Stored, NamesOwned, Owner, Dump, At
    <3>3. Stored' = Stored \cup {p}
      BY <3>1, StoreAssumption DEF Stored, Procs
    <3>. QED  BY <3>1, <3>2, <3>3 DEF Log!Next, Log!Add
  <2>. QED
    BY <2>1, <2>2, <2>3, <2>4
    DEF Next, Check, ReadUid, CreateUid, WriteUid, Die, Pick, Exists,
        List, Load, Loaded, Tick
<1>. QED
  BY <1>1, <1>2, Invariance, PTL DEF Spec, KeepsLog, Log!Spec
=============================================================================
