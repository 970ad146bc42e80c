--------------------------- MODULE ToolRunProofs ---------------------------
(***************************************************************************)
(* Theorems about ToolRun, for every number of shell candidates, of Ctrl-C *)
(* and every set of sites that may fail.  All of them rest on the          *)
(* inductive invariant IInv.  The last section is about SelfTest, which    *)
(* has a run of the tool in its middle and names of its own.               *)
(***************************************************************************)
EXTENDS ToolRun, SelfTest, TLAPS

\* A run starts in the inductive invariant.
LEMMA InvInit == Init => IInv
<1>. SUFFICES ASSUME Init PROVE IInv
  OBVIOUS
<1>. USE ParamAssumption
     DEF Logs, Sites, Outside, Probing, Guarded, Finally, Closing, Boxes, Held
<1>1. TypeOK
  <2>1. opt \in Options
    BY DEF Init
  <2>2. pc \in Sites
    BY DEF Init
  <2>3. box \in [Boxes -> Held \cup {"absent", "removed"}]
    BY DEF Init
  <2>4. log \in Logs
    BY DEF Init
  <2>5. probe \in 1..(NumShells + 1) /\ presses \in 0..MaxPresses
    BY DEF Init
  <2>6. newImage \in BOOLEAN /\ written \in BOOLEAN /\ exc \in BOOLEAN
    BY DEF Init
  <2>. QED
    BY <2>1, <2>2, <2>3, <2>4, <2>5, <2>6 DEF Init, TypeOK
<1>2. BoxAtCall
  BY DEF Init, BoxAtCall
<1>3. LogAtCall
  BY DEF Init, LogAtCall
<1>4. /\ LeakNeedsCause /\ SuccessMeansDelivered /\ ZeroIsEarned
      /\ EntryComplete /\ RawNeedsCause
  BY DEF Init, LeakNeedsCause, SuccessMeansDelivered, ZeroIsEarned,
         EntryComplete, RawNeedsCause
<1>. QED
  BY <1>1, <1>2, <1>3, <1>4 DEF IInv

\* Every step of the client, the tool and the user preserves it.
LEMMA InvStep == IInv /\ [Next]_vars => IInv'
<1>1. SUFFICES ASSUME IInv, [Next]_vars PROVE IInv'
  OBVIOUS
<1>2. QED
  <2>. USE <1>1, ParamAssumption
       DEF IInv, TypeOK, BoxAtCall, LogAtCall, LeakNeedsCause,
           SuccessMeansDelivered, ZeroIsEarned, EntryComplete, RawNeedsCause,
           OnTerminal, Sites, Outside, Probing, Guarded, Finally, Closing,
           Boxes, Held, Logs, docker, local, flow
  <2>1. CASE ProbeCreate
    BY <2>1 DEF ProbeCreate, BoxCall, SetBox, Goto
  <2>2. CASE ProbeNoImage
    BY <2>2 DEF ProbeNoImage, NextCandidate, Goto
  <2>3. CASE ProbeCreateFails
    BY <2>3 DEF ProbeCreateFails, LostCall, Throw, SetBox, Exit
  <2>4. CASE NoShell
    BY <2>4 DEF NoShell, Raise, Throw, Exit
  <2>5. CASE ProbeFound
    BY <2>5 DEF ProbeFound, Pass, Goto
  <2>6. CASE ProbeMissing
    BY <2>6 DEF ProbeMissing, NextCandidate, Goto
  <2>7. CASE ProbeRemove
    BY <2>7 DEF ProbeRemove, BoxCall, SetBox, Goto
  <2>8. CASE ProbeRemoveFails
    BY <2>8 DEF ProbeRemoveFails, LostCall, Throw, SetBox, Exit
  <2>9. CASE Create
    BY <2>9 DEF Create, BoxCall, SetBox, Goto
  <2>10. CASE CreateFails
    BY <2>10 DEF CreateFails, LostCall, Throw, SetBox, Exit
  <2>11. CASE Upload
    BY <2>11 DEF Upload, Pass, Goto
  <2>12. CASE SetRaw
    BY <2>12 DEF SetRaw, SetTerm, Goto
  <2>13. CASE NotATerminal
    BY <2>13 DEF NotATerminal, Raise, Throw, Exit
  <2>14. CASE Attach
    BY <2>14 DEF Attach, Pass, Goto
  <2>15. CASE Start
    BY <2>15 DEF Start, BoxCall, SetBox, Goto
  <2>16. CASE StartRefused
    BY <2>16 DEF StartRefused, Caught
  <2>17. CASE StartFails
    BY <2>17 DEF StartFails, LostCall, Throw, SetBox, Exit
  <2>18. CASE StartWait
    BY <2>18 DEF StartWait, LogCall, Goto
  <2>19. CASE LoopEof
    BY <2>19 DEF LoopEof, SetTerm, Restored, Goto
  <2>20. CASE LoopDrop
    BY <2>20 DEF LoopDrop, Restored, Caught
  <2>21. CASE LoopFails
    BY <2>21 DEF LoopFails, Restored, Throw, Exit
  <2>22. CASE Wait
    BY <2>22 DEF Wait, LogCall, Goto
  <2>23. CASE WaitTimeout
    BY <2>23 DEF WaitTimeout, Raise, Throw, Exit
  <2>24. CASE Record
    <3>1. /\ pc = "record" /\ pc' \in {"download", "kill"}
          /\ pc' = "download" <=> log.exit = "zero"
          /\ log' = [log EXCEPT !.ins = TRUE]
          /\ UNCHANGED <<opt, box, toolExit, image, newImage, probe, term,
                         written, exc, trouble, presses, status>>
      BY <2>24 DEF Record, LogCall, AfterRecord, Goto
    <3>2. TypeOK' /\ BoxAtCall'
      BY <3>1
    <3>3. LogAtCall' /\ EntryComplete'
      BY <3>1
    <3>. QED  BY <3>1, <3>2, <3>3
  <2>25. CASE Download
    <3>1. PICK s \in {"download", "rescue"} : LogCall(s, "kill", "outs", TRUE)
      BY <2>25 DEF Download
    <3>2. pc = s /\ pc' = "kill" /\ log' = [log EXCEPT !.outs = TRUE]
      BY <3>1 DEF LogCall, Goto
    <3>3. UNCHANGED <<opt, box, toolExit, image, newImage, probe, term, written,
                      exc, trouble, presses, status>>
      BY <3>1 DEF LogCall, Goto
    <3>4. presses' = 0 => s = "download"
      BY <3>2, <3>3
    <3>5. TypeOK' /\ BoxAtCall'
      BY <3>2, <3>3
    <3>. QED  BY <3>2, <3>3, <3>4, <3>5
  <2>26. CASE Kill
    BY <2>26 DEF Kill, SetBox, Goto, AfterKill
  <2>27. CASE KillNotRunning
    BY <2>27 DEF KillNotRunning, Pass, AfterKill, Goto
  <2>28. CASE KillRefused
    BY <2>28 DEF KillRefused, Caught, AfterKill
  <2>29. CASE Commit
    BY <2>29 DEF Commit, Goto
  <2>30. CASE CommitFails
    <3>1. /\ pc = "commit" /\ pc' = "exited" /\ status' = "nonzero"
          /\ exc' = TRUE /\ trouble' = trouble \cup {"commit"}
          /\ newImage' \in BOOLEAN
          /\ UNCHANGED <<opt, box, toolExit, image, probe, term, log, written,
                         presses>>
      BY <2>30 DEF CommitFails, Throw, Exit
    <3>2. TypeOK' /\ BoxAtCall'
      BY <3>1
    <3>3. LogAtCall' /\ LeakNeedsCause'
      BY <3>1
    <3>. QED  BY <3>1, <3>2, <3>3
  <2>31. CASE Remove
    <3>1. /\ pc = "remove" /\ box[0] # "running"
          /\ box' = [box EXCEPT ![0] = "removed"]
          /\ UNCHANGED <<opt, toolExit, image, newImage, probe, term, log,
                         written, exc, trouble, presses>>
          /\ \/ pc' = "exited" /\ status' = "nonzero" /\ exc
             \/ pc' = "report" /\ status' = status /\ ~exc
             \/ pc' = "rmimage" /\ status' = status
      BY <2>31 DEF Remove, SetBox, AfterFinally, Exit, Goto
    <3>2. box'[0] = "removed" /\ box' \in [Boxes -> Held \cup {"absent", "removed"}]
      BY <3>1
    <3>3. TypeOK'
      BY <3>1, <3>2
    <3>4. BoxAtCall'
      BY <3>1, <3>2
    <3>5. LogAtCall'
      BY <3>1, <3>2
    <3>. QED  BY <3>1, <3>2, <3>3, <3>4, <3>5
  <2>32. CASE RemoveConflict
    BY <2>32 DEF RemoveConflict, Raise, Throw, Exit
  <2>33. CASE RemoveFails
    BY <2>33 DEF RemoveFails, LostCall, Throw, SetBox, Exit
  <2>34. CASE RmImage
    <3>1. /\ pc = "rmimage" /\ image' \in {"present", "removed"}
          /\ UNCHANGED <<opt, box, toolExit, newImage, probe, term, log,
                         written, exc, trouble, presses>>
          /\ \/ pc' = "exited" /\ status' = "nonzero" /\ exc
             \/ pc' = "report" /\ status' = status /\ ~exc
      BY <2>34 DEF RmImage, AfterFinally, Exit, Goto
    <3>2. TypeOK' /\ BoxAtCall'
      BY <3>1
    <3>3. LogAtCall'
      BY <3>1
    <3>. QED  BY <3>1, <3>2, <3>3
  <2>35. CASE RmImageFails
    BY <2>35 DEF RmImageFails, Throw, Exit
  <2>36. CASE Report
    BY <2>36 DEF Report, Goto
  <2>37. CASE Close
    BY <2>37 DEF Close, Exit
  <2>38. CASE Interrupt
    <3>1. TypeOK'
      <4>1. pc \in Sites /\ presses' \in 0..MaxPresses
        BY <2>38 DEF Interrupt
      <4>2. CASE pc \in Guarded
        <5>1. pc' = "rescue" /\ trouble' = trouble \cup {pc}
              /\ UNCHANGED <<exc, status>>
          BY <2>38, <4>2 DEF Interrupt, Caught
        <5>. QED  BY <2>38, <4>1, <5>1 DEF Interrupt
      <4>3. CASE pc \notin Guarded
        <5>1. /\ pc' \in {"kill", "exited"} /\ trouble' = trouble \cup {pc}
              /\ exc' = TRUE /\ status' \in {status, "nonzero"}
          BY <2>38, <4>3 DEF Interrupt, Throw, Exit
        <5>. QED  BY <2>38, <4>1, <5>1 DEF Interrupt
      <4>. QED  BY <4>2, <4>3
    <3>2. BoxAtCall'
      BY <2>38 DEF Interrupt, Caught, Throw, Exit
    <3>3. LogAtCall'
      BY <2>38 DEF Interrupt, Caught, Throw, Exit
    <3>4. LeakNeedsCause'
      BY <2>38 DEF Interrupt, Caught, Throw, Exit
    <3>5. SuccessMeansDelivered'
      BY <2>38 DEF Interrupt, Caught, Throw, Exit
    <3>6. ZeroIsEarned'
      BY <2>38 DEF Interrupt, Caught, Throw, Exit
    <3>7. EntryComplete'
      BY <2>38 DEF Interrupt, Caught, Throw, Exit
    <3>8. RawNeedsCause'
      BY <2>38 DEF Interrupt, Caught, Throw, Exit
    <3>. QED  BY <3>1, <3>2, <3>3, <3>4, <3>5, <3>6, <3>7, <3>8
  <2>39. CASE ToolEnds
    BY <2>39 DEF ToolEnds, SetBox
  <2>40. CASE CallFails
    <3>1. PICK call \in Faults \cap {"look", "upload", "attach", "startwait", "wait",
                                    "download", "rescue", "kill", "report", "close"} :
            Raise(call)
      BY <2>40 DEF CallFails
    <3>2. /\ pc = call /\ call \in Sites /\ exc' = TRUE
          /\ trouble' = trouble \cup {call}
          /\ \/ call \in Guarded \cup {"rescue"} /\ pc' = "kill" /\ status' = status
             \/ /\ call \notin Guarded \cup {"rescue"}
                /\ pc' = "exited" /\ status' = "nonzero"
          /\ UNCHANGED <<opt, box, toolExit, image, newImage, probe, term, log,
                         written, presses>>
      BY <3>1 DEF Raise, Throw, Exit
    <3>3. TypeOK'
      <4>1. trouble' \in SUBSET Sites
        BY <3>2
      <4>2. pc' \in Sites \cup {"exited"} /\ status' \in {"open", "zero", "nonzero"}
        BY <3>2
      <4>3. exc' \in BOOLEAN
        BY <3>2
      <4>. HIDE DEF Sites
      <4>. QED  BY <3>2, <4>1, <4>2, <4>3
    <3>4. BoxAtCall'
      BY <3>2
    <3>5. LogAtCall'
      BY <3>2
    <3>6. LeakNeedsCause' /\ RawNeedsCause'
      BY <3>2
    <3>. QED  BY <3>2, <3>3, <3>4, <3>5, <3>6
  <2>41. CASE ProbeGone
    BY <2>41 DEF ProbeGone, SetBox, Caught
  <2>42. CASE RmImageRefused
    BY <2>42 DEF RmImageRefused, Exit
  <2>43. CASE UNCHANGED vars
    BY <2>43 DEF vars
  <2>. QED
    BY <2>1, <2>2, <2>3, <2>4, <2>5, <2>6, <2>7, <2>8, <2>9, <2>10, <2>11,
       <2>12, <2>13, <2>14, <2>15, <2>16, <2>17, <2>18, <2>19, <2>20, <2>21,
       <2>22, <2>23, <2>24, <2>25, <2>26, <2>27, <2>28, <2>29, <2>30, <2>31,
       <2>32, <2>33, <2>34, <2>35, <2>36, <2>37, <2>38, <2>39, <2>40, <2>41,
       <2>42, <2>43
       DEF Next, Client, Failure

\* Every step preserves what is known of the image, in a state of the
\* inductive invariant.
LEMMA ImageStep == IInv /\ ImageFate /\ [Next]_vars => ImageFate'
<1>1. SUFFICES ASSUME IInv, ImageFate, [Next]_vars PROVE ImageFate'
  OBVIOUS
<1>2. QED
  <2>. USE <1>1, ParamAssumption
       DEF IInv, TypeOK, BoxAtCall, LogAtCall, ImageFate, ImageInUse, Sites,
           Outside, Probing, Guarded, Finally, Closing, Boxes, Held, docker,
           local, flow
  <2>1. CASE ProbeCreate
    BY <2>1 DEF ProbeCreate, BoxCall, SetBox, Goto
  <2>2. CASE ProbeNoImage
    BY <2>2 DEF ProbeNoImage, NextCandidate, Goto
  <2>3. CASE ProbeCreateFails
    BY <2>3 DEF ProbeCreateFails, LostCall, Throw, SetBox, Exit
  <2>4. CASE NoShell
    BY <2>4 DEF NoShell, Raise, Throw, Exit
  <2>5. CASE ProbeFound
    BY <2>5 DEF ProbeFound, Pass, Goto
  <2>6. CASE ProbeMissing
    BY <2>6 DEF ProbeMissing, NextCandidate, Goto
  <2>7. CASE ProbeRemove
    BY <2>7 DEF ProbeRemove, BoxCall, SetBox, Goto
  <2>8. CASE ProbeRemoveFails
    BY <2>8 DEF ProbeRemoveFails, LostCall, Throw, SetBox, Exit
  <2>9. CASE Create
    BY <2>9 DEF Create, BoxCall, SetBox, Goto
  <2>10. CASE CreateFails
    BY <2>10 DEF CreateFails, LostCall, Throw, SetBox, Exit
  <2>11. CASE Upload
    BY <2>11 DEF Upload, Pass, Goto
  <2>12. CASE SetRaw
    BY <2>12 DEF SetRaw, SetTerm, Goto
  <2>13. CASE NotATerminal
    BY <2>13 DEF NotATerminal, Raise, Throw, Exit
  <2>14. CASE Attach
    BY <2>14 DEF Attach, Pass, Goto
  <2>15. CASE Start
    BY <2>15 DEF Start, BoxCall, SetBox, Goto
  <2>16. CASE StartRefused
    BY <2>16 DEF StartRefused, Caught
  <2>17. CASE StartFails
    BY <2>17 DEF StartFails, LostCall, Throw, SetBox, Exit
  <2>18. CASE StartWait
    BY <2>18 DEF StartWait, LogCall, Goto
  <2>19. CASE LoopEof
    BY <2>19 DEF LoopEof, SetTerm, Restored, Goto
  <2>20. CASE LoopDrop
    BY <2>20 DEF LoopDrop, Restored, Caught
  <2>21. CASE LoopFails
    BY <2>21 DEF LoopFails, Restored, Throw, Exit
  <2>22. CASE Wait
    BY <2>22 DEF Wait, LogCall, Goto
  <2>23. CASE WaitTimeout
    BY <2>23 DEF WaitTimeout, Raise, Throw, Exit
  <2>24. CASE Record
    BY <2>24 DEF Record, LogCall, AfterRecord, Goto
  <2>25. CASE Download
    BY <2>25 DEF Download, LogCall, Goto
  <2>26. CASE Kill
    BY <2>26 DEF Kill, SetBox, Goto, AfterKill
  <2>27. CASE KillNotRunning
    BY <2>27 DEF KillNotRunning, Pass, AfterKill, Goto
  <2>28. CASE KillRefused
    BY <2>28 DEF KillRefused, Caught, AfterKill
  <2>29. CASE Commit
    BY <2>29 DEF Commit, Goto
  <2>30. CASE CommitFails
    BY <2>30 DEF CommitFails, Throw, Exit
  <2>31. CASE Remove
    BY <2>31 DEF Remove, SetBox, AfterFinally, Exit, Goto
  <2>32. CASE RemoveConflict
    BY <2>32 DEF RemoveConflict, Raise, Throw, Exit
  <2>33. CASE RemoveFails
    BY <2>33 DEF RemoveFails, LostCall, Throw, SetBox, Exit
  <2>34. CASE RmImage
    BY <2>34 DEF RmImage, AfterFinally, Exit, Goto
  <2>35. CASE RmImageFails
    BY <2>35 DEF RmImageFails, Throw, Exit
  <2>36. CASE Report
    BY <2>36 DEF Report, Goto
  <2>37. CASE Close
    BY <2>37 DEF Close, Exit
  <2>38. CASE Interrupt
    BY <2>38 DEF Interrupt, Caught, Throw, Exit
  <2>39. CASE ToolEnds
    BY <2>39 DEF ToolEnds, SetBox
  <2>40. CASE CallFails
    BY <2>40 DEF CallFails, Raise, Throw, Exit
  <2>41. CASE ProbeGone
    BY <2>41 DEF ProbeGone, SetBox, Caught
  <2>42. CASE RmImageRefused
    BY <2>42 DEF RmImageRefused, Exit
  <2>43. CASE UNCHANGED vars
    BY <2>43 DEF vars
  <2>. QED
    BY <2>1, <2>2, <2>3, <2>4, <2>5, <2>6, <2>7, <2>8, <2>9, <2>10, <2>11,
       <2>12, <2>13, <2>14, <2>15, <2>16, <2>17, <2>18, <2>19, <2>20, <2>21,
       <2>22, <2>23, <2>24, <2>25, <2>26, <2>27, <2>28, <2>29, <2>30, <2>31,
       <2>32, <2>33, <2>34, <2>35, <2>36, <2>37, <2>38, <2>39, <2>40, <2>41,
       <2>42, <2>43
       DEF Next, Client, Failure

\* The inductive invariant holds in every run.
THEOREM Invariance == Spec => []IInv
<1>. QED
  BY InvInit, InvStep, PTL DEF Spec

\* Every variable always has its type.
THEOREM TypeCorrect == Spec => []TypeOK
<1>1. IInv => TypeOK
  BY DEF IInv
<1>. QED
  BY <1>1, Invariance, PTL

\* A tool container that is left behind was left by its creation, by the
\* upload or by the clean-up (the `finally` of __run).
THEOREM LeaksExplained == Spec => []LeakNeedsCause
<1>1. IInv => LeakNeedsCause
  BY DEF IInv
<1>. QED
  BY <1>1, Invariance, PTL

\* Exit code 0 means that the results are here and the container is gone.
THEOREM SuccessDelivers == Spec => []SuccessMeansDelivered
<1>1. IInv => SuccessMeansDelivered
  BY DEF IInv
<1>. QED
  BY <1>1, Invariance, PTL

\* Without Ctrl-C, exit code 0 of cincan is exit code 0 of the tool.
THEOREM ZeroEarned == Spec => []ZeroIsEarned
<1>1. IInv => ZeroIsEarned
  BY DEF IInv
<1>. QED
  BY <1>1, Invariance, PTL

\* Entries of the command log list the results, and the input files too
\* unless the run was interrupted.
THEOREM EntriesComplete == Spec => []EntryComplete
<1>1. IInv => EntryComplete
  BY DEF IInv
<1>. QED
  BY <1>1, Invariance, PTL

\* Only a failed attach or start leaves the terminal in raw mode.
THEOREM RawExplained == Spec => []RawNeedsCause
<1>1. IInv => RawNeedsCause
  BY DEF IInv
<1>. QED
  BY <1>1, Invariance, PTL

\* A run never removes an image it did not build, and keeps one it built only
\* for a reason.
THEOREM ImageRemoved == Spec => []BuiltImageRemoved
<1>1. Init => ImageFate
  BY DEF Init, ImageFate, Closing
<1>2. IInv /\ ImageFate => BuiltImageRemoved
  <2>. SUFFICES ASSUME IInv, ImageFate, status = "zero"
                PROVE  ~opt.loaded => \/ image = "removed" \/ "rmimage" \in trouble
                                      \/ newImage \/ \E i \in Boxes \ {0} : box[i] \in Held
    BY DEF ImageFate, BuiltImageRemoved
  <2>1. box[0] \notin Held
    BY DEF IInv, SuccessMeansDelivered, Held
  <2>. QED  BY <2>1 DEF ImageFate, ImageInUse
<1>. QED
  BY <1>1, <1>2, ImageStep, Invariance, PTL DEF Spec


\* A run begins the way the contract says, and each of its steps is a step of
\* the contract or invisible to the caller.
LEMMA ContractStep ==
  IInv /\ [Next]_vars => [Contract!Next]_(Contract!vars)
<1>1. SUFFICES ASSUME IInv, [Next]_vars
               PROVE  [Contract!Next]_(Contract!vars)
  OBVIOUS
<1>2. QED
  <2>. USE <1>1, ParamAssumption
       DEF IInv, TypeOK, BoxAtCall, LogAtCall, OnTerminal, Probing, Guarded,
           Finally, Closing, Logs, Boxes, Held, docker, local, flow, Contract!Next, Contract!vars,
           Contract!Acquire, Contract!Fetch, Contract!Release,
           Contract!Succeed, Contract!Fail, Contract!CutShort
  <2>1. CASE ProbeCreate
    BY <2>1 DEF ProbeCreate, BoxCall, SetBox, Goto
  <2>2. CASE ProbeNoImage
    BY <2>2 DEF ProbeNoImage, NextCandidate, Goto
  <2>3. CASE ProbeCreateFails
    BY <2>3 DEF ProbeCreateFails, LostCall, Throw, SetBox, Exit
  <2>4. CASE NoShell
    BY <2>4 DEF NoShell, Raise, Throw, Exit
  <2>5. CASE ProbeFound
    BY <2>5 DEF ProbeFound, Pass, Goto
  <2>6. CASE ProbeMissing
    BY <2>6 DEF ProbeMissing, NextCandidate, Goto
  <2>7. CASE ProbeRemove
    BY <2>7 DEF ProbeRemove, BoxCall, SetBox, Goto
  <2>8. CASE ProbeRemoveFails
    BY <2>8 DEF ProbeRemoveFails, LostCall, Throw, SetBox, Exit
  <2>9. CASE Create
    BY <2>9 DEF Create, BoxCall, SetBox, Goto
  <2>10. CASE CreateFails
    BY <2>10 DEF CreateFails, LostCall, Throw, SetBox, Exit
  <2>11. CASE Upload
    BY <2>11 DEF Upload, Pass, Goto
  <2>12. CASE SetRaw
    BY <2>12 DEF SetRaw, SetTerm, Goto
  <2>13. CASE NotATerminal
    BY <2>13 DEF NotATerminal, Raise, Throw, Exit
  <2>14. CASE Attach
    BY <2>14 DEF Attach, Pass, Goto
  <2>15. CASE Start
    BY <2>15 DEF Start, BoxCall, SetBox, Goto
  <2>16. CASE StartRefused
    BY <2>16 DEF StartRefused, Caught
  <2>17. CASE StartFails
    BY <2>17 DEF StartFails, LostCall, Throw, SetBox, Exit
  <2>18. CASE StartWait
    BY <2>18 DEF StartWait, LogCall, Goto
  <2>19. CASE LoopEof
    BY <2>19 DEF LoopEof, SetTerm, Restored, Goto
  <2>20. CASE LoopDrop
    BY <2>20 DEF LoopDrop, Restored, Caught
  <2>21. CASE LoopFails
    BY <2>21 DEF LoopFails, Restored, Throw, Exit
  <2>22. CASE Wait
    BY <2>22 DEF Wait, LogCall, Goto
  <2>23. CASE WaitTimeout
    BY <2>23 DEF WaitTimeout, Raise, Throw, Exit
  <2>24. CASE Record
    BY <2>24 DEF Record, LogCall, AfterRecord, Goto
  <2>25. CASE Download
    BY <2>25 DEF Download, LogCall, Goto
  <2>26. CASE Kill
    BY <2>26 DEF Kill, SetBox, Goto, AfterKill
  <2>27. CASE KillNotRunning
    BY <2>27 DEF KillNotRunning, Pass, AfterKill, Goto
  <2>28. CASE KillRefused
    BY <2>28 DEF KillRefused, Caught, AfterKill
  <2>29. CASE Commit
    BY <2>29 DEF Commit, Goto
  <2>30. CASE CommitFails
    BY <2>30 DEF CommitFails, Throw, Exit
  <2>31. CASE Remove
    BY <2>31 DEF Remove, SetBox, AfterFinally, Goto, Exit
  <2>32. CASE RemoveConflict
    BY <2>32 DEF RemoveConflict, Raise, Throw, Exit
  <2>33. CASE RemoveFails
    BY <2>33 DEF RemoveFails, LostCall, Throw, SetBox, Exit
  <2>34. CASE RmImage
    BY <2>34 DEF RmImage, AfterFinally, Exit, Goto
  <2>35. CASE RmImageFails
    BY <2>35 DEF RmImageFails, Throw, Exit
  <2>36. CASE Report
    BY <2>36 DEF Report, Goto
  <2>37. CASE Close
    BY <2>37 DEF Close, Exit
  <2>38. CASE Interrupt
    BY <2>38 DEF Interrupt, Caught, Throw, Exit
  <2>39. CASE ToolEnds
    BY <2>39 DEF ToolEnds, SetBox
  <2>40. CASE CallFails
    BY <2>40 DEF CallFails, Raise, Throw, Exit
  <2>41. CASE ProbeGone
    BY <2>41 DEF ProbeGone, SetBox, Caught
  <2>42. CASE RmImageRefused
    BY <2>42 DEF RmImageRefused, Exit
  <2>43. CASE UNCHANGED vars
    BY <2>43 DEF vars
  <2>. QED
    BY <2>1, <2>2, <2>3, <2>4, <2>5, <2>6, <2>7, <2>8, <2>9, <2>10, <2>11,
       <2>12, <2>13, <2>14, <2>15, <2>16, <2>17, <2>18, <2>19, <2>20, <2>21,
       <2>22, <2>23, <2>24, <2>25, <2>26, <2>27, <2>28, <2>29, <2>30, <2>31,
       <2>32, <2>33, <2>34, <2>35, <2>36, <2>37, <2>38, <2>39, <2>40, <2>41,
       <2>42, <2>43
       DEF Next, Client, Failure

\* One run implements the contract with its caller.
THEOREM Refinement == Spec => KeepsContract
<1>1. Init => Contract!Init
  BY ParamAssumption DEF Init, Contract!Init, Boxes
<1>. QED
  BY <1>1, ContractStep, Invariance, PTL DEF Spec, KeepsContract, Contract!Spec

\* Only Download fetches, and without Ctrl-C the tool has ended with zero by
\* then.
THEOREM FetchesAtRest == Spec => FetchedAtRest
<1>1. IInv /\ [Next]_vars =>
        [~log.outs /\ log'.outs /\ presses = 0 =>
             box[0] = "exited" /\ toolExit = "zero"]_vars
  <2>. SUFFICES ASSUME IInv, Next, ~log.outs, log'.outs, presses = 0
                PROVE  box[0] = "exited" /\ toolExit = "zero"
    OBVIOUS
  <2>. USE ParamAssumption DEF IInv, TypeOK, BoxAtCall, LogAtCall, Logs
  <2>1. CASE ProbeCreate \/ ProbeNoImage \/ ProbeCreateFails \/ NoShell \/
           ProbeFound \/ ProbeMissing \/ ProbeRemove \/ ProbeRemoveFails \/
           Create \/ CreateFails \/ Upload
    BY <2>1 DEF ProbeCreate, BoxCall, SetBox, Goto, local, ProbeNoImage,
       NextCandidate, docker, ProbeCreateFails, LostCall, Throw, Guarded,
       Exit, NoShell, Raise, ProbeFound, Pass, ProbeMissing, ProbeRemove,
       ProbeRemoveFails, Create, CreateFails, Upload
  <2>2. CASE SetRaw \/ NotATerminal \/ Attach \/ Start \/ StartRefused \/
           StartFails \/ StartWait \/ LoopEof \/ LoopDrop \/ LoopFails \/
           Wait \/ WaitTimeout
    BY <2>2 DEF SetRaw, OnTerminal, SetTerm, Goto, docker, NotATerminal,
       Raise, Throw, local, Guarded, Exit, Attach, Pass, Start, BoxCall,
       SetBox, StartRefused, Caught, StartFails, LostCall, StartWait,
       LogCall, LoopEof, Restored, LoopDrop, LoopFails, Wait, WaitTimeout
  <2>3. CASE Record \/ Kill \/ KillNotRunning \/ KillRefused \/ Commit \/
           CommitFails \/ Remove \/ RemoveConflict \/ RemoveFails \/ RmImage
           \/ RmImageFails \/ Report \/ Close \/ Interrupt \/ ToolEnds \/
           CallFails \/ ProbeGone \/ RmImageRefused
    BY <2>3 DEF Record, LogCall, AfterRecord, Goto, docker, Kill, SetBox,
       AfterKill, local, KillNotRunning, Pass, KillRefused, Caught, Commit,
       CommitFails, Throw, Guarded, Exit, Remove, AfterFinally,
       RemoveConflict, Raise, RemoveFails, LostCall, RmImage, ImageInUse,
       Boxes, Held, RmImageFails, Report, Close, Interrupt, ToolEnds, flow,
       CallFails, ProbeGone, RmImageRefused
  <2>4. CASE Download
    <3>1. pc = "download"
      <4>1. PICK s \in {"download", "rescue"} :
              LogCall(s, "kill", "outs", TRUE)
        BY <2>4 DEF Download
      <4>2. pc # "rescue"
        OBVIOUS
      <4>. QED  BY <4>1, <4>2 DEF LogCall
    <3>2. ~exc /\ log.exit = "zero"
      BY <3>1 DEF Finally
    <3>3. box[0] \in {"created", "exited"}
      BY <3>1
    <3>. QED
      BY <3>1, <3>2, <3>3
  <2>. QED
    BY <2>1, <2>2, <2>3, <2>4 DEF Next, Client, Failure
<1>. QED
  BY <1>1, Invariance, PTL DEF Spec, FetchedAtRest

----------------------------------------------------------------------------
(***************************************************************************)
(* The self test, which has a whole run in its middle.  That run is any    *)
(* that keeps RunContract; by Refinement above, the run of ToolRun is one. *)
(***************************************************************************)

\* The self test starts in the inductive invariant.
LEMMA TestStarts == TestInit => TestInv
BY DEF TestInit, Run!Init, TestInv, TestTypeOK, Earned, Made, Cleaned,
       PassIsEarned, TestCleansUp, Dirs, Contents, Setup, Cleanup

\* Every step of the test preserves it.
LEMMA TestSteps == TestInv /\ [TestNext]_testVars => TestInv'
<1>. SUFFICES ASSUME TestInv, [TestNext]_testVars PROVE TestInv'
  OBVIOUS
<1>. USE DEF TestInv, TestTypeOK, Earned, Made, Cleaned, PassIsEarned,
             TestCleansUp, Dirs, Contents, Setup, Cleanup, Proceed, host, tool
<1>1. CASE Mkdir("mkin", "write") \/ Mkdir("mkout", "clear")
  BY <1>1 DEF Mkdir
<1>2. CASE Write
  BY <1>2 DEF Write
<1>3. CASE Clear
  BY <1>3 DEF Clear
<1>4. CASE ToolActs
  <2>. USE DEF Run!Next, Run!Acquire, Run!Fetch, Run!Release, Run!Succeed,
               Run!Fail
  <2>1. at = "tool" /\ verdict = "open" /\ out.there
    BY <1>4 DEF ToolActs
  <2>2. /\ verdict' \in {"open", "zero", "nonzero"}
        /\ verdict' = "zero" => results'
    BY <1>4, <2>1 DEF ToolActs
  <2>3. UNCHANGED <<in, at, raised, seen, exit, passed, broken>>
    BY <1>4 DEF ToolActs
  <2>4. \/ out' = out /\ fresh' = fresh
        \/ /\ fresh' = TRUE
           /\ \E c \in {"test", "else"}, o \in {out.others, TRUE} :
                 out' = [out EXCEPT !.file = c, !.others = o]
    BY <1>4 DEF ToolActs
  <2>5. out' \in Dirs /\ fresh' \in BOOLEAN /\ (out' # out => fresh')
    <3>1. CASE out' = out /\ fresh' = fresh
      BY <3>1
    <3>2. ASSUME fresh' = TRUE,
                 NEW c \in {"test", "else"}, NEW o \in {out.others, TRUE},
                 out' = [out EXCEPT !.file = c, !.others = o]
          PROVE  out' \in Dirs
      <4>1. out' = [there |-> out.there, file |-> c, others |-> o]
        BY <3>2
      <4>2. o \in BOOLEAN
        OBVIOUS
      <4>. QED  BY <4>1, <4>2, <2>1
    <3>. QED  BY <2>4, <3>1, <3>2
  <2>6. passed = "pass" => verdict = "zero"
    OBVIOUS
  <2>. HIDE DEF Run!Next
  <2>7. TestTypeOK'
    BY <2>2, <2>3, <2>5
  <2>8. Earned'
    BY <2>1, <2>2, <2>3, <2>4, <2>5
  <2>9. out'.there
    BY <2>1, <2>4
  <2>. QED  BY <2>1, <2>2, <2>3, <2>6, <2>7, <2>8, <2>9
<1>5. CASE ToolReturns
  BY <1>5 DEF ToolReturns
<1>6. CASE ToolRaises
  BY <1>6 DEF ToolRaises
<1>7. CASE Read
  BY <1>7 DEF Read
<1>8. CASE \/ Unlink("unlinkin", "rmdirin")
           \/ Unlink("unlinkout", "rmdirout")
  BY <1>8 DEF Unlink
<1>9. CASE RmdirIn
  BY <1>9 DEF RmdirIn, Empty
<1>10. CASE RmdirOut
  BY <1>10 DEF RmdirOut, Empty, AfterCleanup
<1>11. CASE RmdirRefused
  BY <1>11 DEF RmdirRefused, Escape, Empty
<1>12. CASE Breaks
  BY <1>12 DEF Breaks, Escape
<1>13. CASE Judge
  BY <1>13 DEF Judge
<1>14. CASE UNCHANGED testVars
  BY <1>14 DEF testVars
<1>. QED
  BY <1>1, <1>2, <1>3, <1>4, <1>5, <1>6, <1>7, <1>8, <1>9, <1>10, <1>11,
     <1>12, <1>13, <1>14 DEF TestNext

\* The inductive invariant of SelfTest holds in every test.
THEOREM TestInvariance == TestSpec => []TestInv
BY TestStarts, TestSteps, PTL DEF TestSpec

\* A test that passes (PassIsEarned) shows a copy made by this run.
THEOREM PassesEarned == TestSpec => []PassIsEarned
<1>1. TestInv => PassIsEarned
  BY DEF TestInv
<1>. QED  BY <1>1, TestInvariance, PTL

\* A test leaves nothing behind, however it ends (TestCleansUp).
THEOREM CleansUp == TestSpec => []TestCleansUp
<1>1. TestInv => TestCleansUp
  BY DEF TestInv
<1>. QED  BY <1>1, TestInvariance, PTL
=============================================================================
