-------------------------- MODULE ExecStreamProofs --------------------------
(***************************************************************************)
(* Theorems about ExecStream, for every amount of input and every capacity *)
(* of the channels.                                                        *)
(***************************************************************************)
EXTENDS ExecStream, FiniteSetTheorems, TLAPS

\* The loop starts in the inductive invariant.
LEMMA InvInit == Init => IInv
<1>. SUFFICES ASSUME Init PROVE IInv
  OBVIOUS
<1>1. TypeOK
  <2>0. refused \subseteq Streams
    BY DEF Init
  <2>1. read \in 0..Input /\ sent \in 0..Input /\ taken \in 0..Input
        /\ up \in 0..UpCap
    BY CapAssumption DEF Init
  <2>2. out \in [Streams -> Seq(Nat)]
    BY DEF Init
  <2>3. listening \in BOOLEAN /\ shut \in BOOLEAN
    BY DEF Init
  <2>4. tty \in BOOLEAN /\ muted \in BOOLEAN
    BY DEF Init
  <2>5. alsoStdin \in BOOLEAN /\ open \in BOOLEAN /\ held \in BOOLEAN
    BY DEF Init
  <2>6. down \in Seq(Frames) /\ wrote \in Seq(Frames)
    BY DEF Init
  <2>7. phase = "select" /\ tool = "running" /\ cut = "no"
    BY DEF Init
  <2>. QED
    BY <2>0, <2>1, <2>2, <2>3, <2>4, <2>5, <2>6, <2>7 DEF TypeOK
<1>2. Accounted
  BY CapAssumption DEF Init, Accounted
<1>3. Closed /\ FailureNeedsCause
  BY DEF Init, Closed, FailureNeedsCause
<1>. QED
  BY <1>1, <1>2, <1>3 DEF IInv

\* Every step of the client, the tool and the connection preserves it.
LEMMA InvStep == IInv /\ [Next]_vars => IInv'
<1>1. SUFFICES ASSUME IInv, [Next]_vars PROVE IInv'
  OBVIOUS
<1>2. QED
  <2>. USE <1>1, CapAssumption
       DEF IInv, TypeOK, Accounted, Closed, FailureNeedsCause, Quiet,
           host, client, remote, Writes
  <2>1. CASE Select
    BY <2>1 DEF Select, Readable, AtEnd
  <2>2. CASE Leave
    BY <2>2 DEF Leave
  <2>3. CASE Recv
    <3>1. Head(down) \in Frames /\ Tail(down) \in Seq(Frames)
          /\ Len(Tail(down)) = Len(down) - 1
      BY <2>3 DEF Recv
    <3>2. Head(down).stream \in Streams /\ Head(down).unit \in Nat
      BY <3>1 DEF Frames
    <3>3. /\ down' = Tail(down)
          /\ phase = "recv" /\ phase' = AfterRecv
          /\ phase' \in {"select", "stdin"}
          /\ UNCHANGED <<alsoStdin, open, listening, host, read, sent, shut,
                         up, remote, cut>>
      BY <2>3 DEF Recv, AfterRecv
    <3>4. out' \in [Streams -> Seq(Nat)]
      <4>1. CASE out' = out
        BY <4>1
      <4>2. CASE out' = [out EXCEPT ![Head(down).stream] =
                            Append(out[Head(down).stream], Head(down).unit)]
        <5>1. Append(out[Head(down).stream], Head(down).unit) \in Seq(Nat)
          BY <3>2
        <5>. QED  BY <4>2, <5>1, <3>2
      <4>. QED  BY <2>3, <4>1, <4>2 DEF Recv
    <3>5. TypeOK'
      BY <3>1, <3>3, <3>4
    <3>. QED  BY <2>3, <3>1, <3>3, <3>5 DEF AfterRecv
  <2>4. CASE RecvEof
    BY <2>4 DEF RecvEof, AfterRecv, AtEnd
  <2>5. CASE RecvTruncated
    BY <2>5 DEF RecvTruncated, AtEnd
  <2>6. CASE StdinData
    BY <2>6 DEF StdinData
  <2>7. CASE StdinEof
    BY <2>7 DEF StdinEof
  <2>8. CASE Send
    BY <2>8 DEF Send, Connected
  <2>9. CASE SendToNobody
    BY <2>9 DEF SendToNobody, Connected
  <2>10. CASE Take
    BY <2>10 DEF Take
  <2>11. CASE Answer
    <3>1. PICK s \in Streams :
            LET f == [stream |-> s, unit |-> taken]
            IN  down' = Append(down, f) /\ wrote' = Append(wrote, f)
      BY <2>11 DEF Answer, Streams
    <3>2. [stream |-> s, unit |-> taken] \in Frames
      BY DEF Frames
    <3>3. /\ down' \in Seq(Frames) /\ wrote' \in Seq(Frames)
          /\ Len(down') = Len(down) + 1 /\ Len(wrote') = Len(wrote) + 1
      BY <3>1, <3>2
    <3>4. TypeOK'
      BY <2>11, <3>3 DEF Answer
    <3>. QED  BY <2>11, <3>3, <3>4 DEF Answer
  <2>12. CASE ToolEnds
    BY <2>12 DEF ToolEnds
  <2>13. CASE ToolQuits
    BY <2>13 DEF ToolQuits
  <2>14. CASE Break
    <3>1. PICK n \in 0..Len(down) : down' = SubSeq(down, 1, n)
      BY <2>14 DEF Break
    <3>2. down' \in Seq(Frames) /\ Len(down') <= Len(down)
      BY <3>1
    <3>3. cut' \in {"clean", "header", "frame"}
      BY <2>14 DEF Break
    <3>4. TypeOK'
      BY <2>14, <3>2, <3>3 DEF Break
    <3>. QED  BY <2>14, <3>2, <3>3, <3>4 DEF Break
  <2>15. CASE RecvRefused
    <3>1. Head(down) \in Frames /\ Tail(down) \in Seq(Frames)
          /\ Len(Tail(down)) = Len(down) - 1
      BY <2>15 DEF RecvRefused
    <3>2. \E s \in refused : Writes(s)
      BY <2>15 DEF RecvRefused
    <3>3. \E s \in refused' : Writes(s)'
      BY <2>15, <3>2 DEF RecvRefused, Writes
    <3>. QED  BY <2>15, <3>1, <3>3 DEF RecvRefused
  <2>16. CASE StdinEofFails
    BY <2>16 DEF StdinEofFails, Connected
  <2>17. CASE HostRefuses
    <3>1. PICK s \in Streams \ refused : refused' = refused \cup {s}
      BY <2>17 DEF HostRefuses
    <3>2. (\E r \in refused : Writes(r)) => \E r \in refused' : Writes(r)'
      BY <2>17, <3>1 DEF HostRefuses, Writes
    <3>. QED  BY <2>17, <3>1, <3>2 DEF HostRefuses
  <2>18. CASE UNCHANGED vars
    BY <2>18 DEF vars, Writes
  <2>. QED
    BY <1>1, <2>1, <2>2, <2>3, <2>4, <2>5, <2>6, <2>7, <2>8, <2>9, <2>10,
       <2>11, <2>12, <2>13, <2>14, <2>15, <2>16, <2>17, <2>18
       DEF Next, Client, Tool

\* The inductive invariant holds in every run.
THEOREM Invariance == Spec => []IInv
<1>. QED
  BY InvInit, InvStep, PTL DEF Spec

\* Every variable always has its type.
THEOREM TypeCorrect == Spec => []TypeOK
<1>1. IInv => TypeOK
  BY DEF IInv
<1>. QED
  BY <1>1, Invariance, PTL

\* The loop fails only with the tool or the connection.
THEOREM FailuresExplained == Spec => []FailureNeedsCause
<1>1. IInv => FailureNeedsCause
  BY DEF IInv
<1>. QED
  BY <1>1, Invariance, PTL

\* A loop that ends by itself has carried all the input and all the answer.
THEOREM Complete == Spec => []LoopComplete
<1>1. IInv => LoopComplete
  BY DEF IInv, TypeOK, Accounted, Closed, LoopComplete, Quiet
<1>. QED
  BY <1>1, Invariance, PTL

\* Client and tool cannot wait for each other while the whole input fits into
\* the two channels and the tool.
THEOREM Unwedged == Spec => []NeverWedged
<1>1. IInv => NeverWedged
  BY CapAssumption
  DEF IInv, TypeOK, Accounted, NeverWedged, Wedged, Connected, Quiet
<1>. QED
  BY <1>1, Invariance, PTL

\* The place of a frame is a number, and counts the frames of its stream.
LEMMA PlaceCounts ==
    ASSUME NEW s, NEW i \in Nat
    PROVE  /\ Place(s, i) \in Nat
           /\ Place(s, 0) = 0
           /\ Place(s, i + 1) =
                 Place(s, i) + (IF wrote[i + 1].stream = s THEN 1 ELSE 0)
<1>. DEFINE own(n) == {j \in 1..n : wrote[j].stream = s}
<1>1. \A n \in Nat : IsFiniteSet(own(n))
  <2>. SUFFICES ASSUME NEW n \in Nat PROVE IsFiniteSet(own(n))
    OBVIOUS
  <2>1. IsFiniteSet(1..n) /\ own(n) \subseteq 1..n
    BY FS_Interval
  <2>. HIDE DEF own
  <2>. QED  BY <2>1, FS_Subset
<1>2. own(0) = {}
  OBVIOUS
<1>3. Cardinality(own(i)) \in Nat /\ Cardinality(own(0)) = 0
  <2>. HIDE DEF own
  <2>. QED  BY <1>1, <1>2, FS_CardinalityType, FS_EmptySet
<1>4. CASE wrote[i + 1].stream = s
  <2>1. own(i + 1) = own(i) \cup {i + 1} /\ i + 1 \notin own(i)
    BY <1>4
  <2>2. Cardinality(own(i + 1)) = Cardinality(own(i)) + 1
    <3>. HIDE DEF own
    <3>. QED  BY <1>1, <2>1, FS_AddElement
  <2>. QED  BY <1>3, <1>4, <2>2 DEF Place
<1>5. CASE wrote[i + 1].stream # s
  <2>1. own(i + 1) = own(i)
    BY <1>5
  <2>2. Cardinality(own(i + 1)) = Cardinality(own(i))
    BY <2>1
  <2>. QED  BY <1>3, <1>5, <2>2 DEF Place
<1>. QED  BY <1>4, <1>5

\* Among the first n frames, the places of a stream's own frames are those
\* from 1 to the number of its frames.
LEMMA PlaceWithin ==
    ASSUME NEW s, NEW n \in Nat, NEW i \in 1..n, wrote[i].stream = s
    PROVE  Place(s, i) \in 1..Place(s, n)
<1>. DEFINE own(m) == {j \in 1..m : wrote[j].stream = s}
<1>1. IsFiniteSet(own(n))
  <2>1. IsFiniteSet(1..n) /\ own(n) \subseteq 1..n
    BY FS_Interval
  <2>. HIDE DEF own
  <2>. QED  BY <2>1, FS_Subset
<1>2. own(i) \subseteq own(n) /\ i \in own(i)
  OBVIOUS
<1>. HIDE DEF own
<1>3. IsFiniteSet(own(i)) /\ Cardinality(own(i)) <= Cardinality(own(n))
  BY <1>1, <1>2, FS_Subset
<1>4. Cardinality(own(i)) # 0
  BY <1>2, <1>3, FS_EmptySet
<1>5. Cardinality(own(i)) \in Nat /\ Cardinality(own(n)) \in Nat
  BY <1>1, <1>3, FS_CardinalityType
<1>6. Cardinality(own(i)) \in 1..Cardinality(own(n))
  BY <1>3, <1>4, <1>5
<1>. QED  BY <1>6 DEF own, Place

\* What has been shown is not disturbed by frames that the tool adds.
LEMMA ShownKept ==
    ASSUME NEW n \in Nat, Shown(n), UNCHANGED <<out, muted>>,
           \A j \in 1..n : wrote'[j] = wrote[j]
    PROVE  Shown(n)'
<1>1. ASSUME NEW s, NEW i \in 0..n PROVE Place(s, i)' = Place(s, i)
  <2>1. {j \in 1..i : wrote'[j].stream = s} = {j \in 1..i : wrote[j].stream = s}
    OBVIOUS
  <2>. QED  BY <2>1 DEF Place
<1>. QED  BY <1>1 DEF Shown, Writes

\* A frame that is unpacked goes to the end of its own stream.
LEMMA ShowNext ==
    ASSUME TypeOK, NEW n \in Nat, n < Len(wrote), Shown(n), UNCHANGED <<wrote, muted>>,
           out' = IF Writes(wrote[n + 1].stream)
                    THEN [out EXCEPT ![wrote[n + 1].stream] =
                             Append(@, wrote[n + 1].unit)]
                    ELSE out
    PROVE  Shown(n + 1)'
<1>. DEFINE f == wrote[n + 1]
<1>1. f \in Frames /\ f.stream \in Streams /\ f.unit \in Nat
  <2>1. n + 1 \in 1..Len(wrote) /\ wrote \in Seq(Frames)
    BY DEF TypeOK
  <2>2. f \in Frames
    BY <2>1
  <2>. QED  BY <2>2 DEF Frames
<1>2. \A s, i : Place(s, i)' = Place(s, i)
  BY DEF Place
<1>3. ASSUME NEW s \in Streams, ~(muted /\ s = 1)
      PROVE  /\ Len(out'[s]) = Place(s, n + 1)
             /\ \A i \in 1..(n + 1) :
                   wrote[i].stream = s => out'[s][Place(s, i)] = wrote[i].unit
  <2>. HIDE DEF f
  <2>1. /\ out[s] \in Seq(Nat) /\ Len(out[s]) = Place(s, n)
        /\ \A i \in 1..n :
              wrote[i].stream = s => out[s][Place(s, i)] = wrote[i].unit
    BY <1>3 DEF Shown, Writes, TypeOK
  <2>2. /\ Place(s, n) \in Nat
        /\ Place(s, n + 1) = Place(s, n) + (IF f.stream = s THEN 1 ELSE 0)
    BY PlaceCounts DEF f
  <2>3. \A i \in 1..n : wrote[i].stream = s => Place(s, i) \in 1..Place(s, n)
    BY PlaceWithin
  <2>4. CASE f.stream = s
    <3>1. out'[s] = Append(out[s], f.unit)
      BY <1>1, <1>3, <2>4 DEF f, TypeOK, Writes
    <3>2. /\ Len(out'[s]) = Place(s, n) + 1 /\ out'[s][Place(s, n) + 1] = f.unit
          /\ \A k \in 1..Place(s, n) : out'[s][k] = out[s][k]
      BY <1>1, <2>1, <2>2, <3>1
    <3>3. \A i \in 1..n :
             wrote[i].stream = s => out'[s][Place(s, i)] = wrote[i].unit
      BY <2>1, <2>3, <3>2
    <3>4. out'[s][Place(s, n + 1)] = f.unit
      BY <2>2, <2>4, <3>2
    <3>5. \A i \in 1..(n + 1) : i \in 1..n \/ i = n + 1
      OBVIOUS
    <3>. QED  BY <2>2, <2>4, <3>2, <3>3, <3>4, <3>5 DEF f
  <2>5. CASE f.stream # s
    <3>1. out'[s] = out[s]
      BY <1>1, <1>3, <2>5 DEF f, TypeOK, Writes
    <3>2. \A i \in 1..(n + 1) : i \in 1..n \/ i = n + 1
      OBVIOUS
    <3>. QED  BY <2>1, <2>2, <2>5, <3>1, <3>2 DEF f
  <2>. QED  BY <2>4, <2>5
<1>4. ASSUME NEW s \in Streams, muted, s = 1 PROVE out'[s] = <<>>
  <2>1. out[s] = <<>>
    BY <1>4 DEF Shown, Writes
  <2>2. CASE f.stream = 1
    BY <1>4, <2>1, <2>2 DEF Writes, f
  <2>3. CASE f.stream # 1
    BY <1>1, <1>4, <2>1, <2>3 DEF TypeOK, Writes
  <2>. QED  BY <2>2, <2>3
<1>. HIDE DEF f
<1>5. ASSUME NEW s \in Streams
      PROVE  IF ~Writes(s)' THEN out'[s] = <<>>
             ELSE /\ Len(out'[s]) = Place(s, n + 1)'
                  /\ \A i \in 1..(n + 1) :
                        wrote'[i].stream = s => out'[s][Place(s, i)'] = wrote'[i].unit
  <2>1. CASE muted /\ s = 1
    BY <1>4, <2>1 DEF Writes
  <2>2. CASE ~(muted /\ s = 1)
    BY <1>2, <1>3, <2>2 DEF Writes
  <2>. QED  BY <2>1, <2>2
<1>. QED  BY <1>5 DEF Shown, Writes

\* The frame after the first n is the one that its stream did not take.
Lost(n) ==
    /\ phase = "failed" /\ n < Len(wrote)
    /\ wrote[n + 1].stream \in refused /\ Writes(wrote[n + 1].stream)

\* Every step keeps the frames in order.
LEMMA FaithfulStep ==
  IInv /\ StreamsFaithful /\ [Next]_vars => StreamsFaithful'
<1>. SUFFICES ASSUME IInv, StreamsFaithful, [Next]_vars PROVE StreamsFaithful'
  OBVIOUS
<1>0. PICK n \in 0..Len(wrote) :
        /\ Shown(n)
        /\ Pending(n) \/ (Pending(n + 1) /\ Lost(n))
  BY DEF StreamsFaithful, Lost
<1>1. PICK m \in {n, n + 1} :
        /\ n \in 0..Len(wrote) /\ Shown(n) /\ Pending(m)
        /\ m = n \/ Lost(n)
  BY <1>0
<1>2. /\ n \in Nat /\ m \in Nat /\ Len(wrote) \in Nat /\ Len(down) \in Nat
      /\ wrote \in Seq(Frames) /\ down \in Seq(Frames)
  BY <1>1 DEF IInv, TypeOK
<1>3. ASSUME Shown(n)', Pending(m)', Len(wrote) <= Len(wrote'),
             Len(wrote') \in Nat,
             \A j \in 1..Len(wrote) : wrote'[j] = wrote[j],
             phase = "failed" => phase' = "failed",
             refused \subseteq refused', UNCHANGED muted
      PROVE  StreamsFaithful'
  <2>1. CASE m = n
    BY <1>1, <1>2, <1>3, <2>1 DEF StreamsFaithful
  <2>2. CASE m # n
    <3>1. Lost(n) /\ m = n + 1 /\ n + 1 \in 1..Len(wrote)
      BY <1>1, <1>2, <2>2 DEF Lost
    <3>2. Lost(n)'
      BY <1>2, <1>3, <3>1 DEF Lost, Writes
    <3>3. n \in 0..Len(wrote')
      BY <1>1, <1>2, <1>3
    <3>. QED  BY <1>3, <3>1, <3>2, <3>3 DEF StreamsFaithful, Lost
  <2>. QED  BY <2>1, <2>2
<1>4. ASSUME UNCHANGED <<down, wrote, out, muted, cut>>,
             phase = "failed" => phase' = "failed", refused \subseteq refused'
      PROVE  StreamsFaithful'
  <2>1. Shown(n)'
    BY <1>1, <1>2, <1>4, ShownKept
  <2>2. Pending(m)'
    BY <1>1, <1>4 DEF Pending
  <2>. QED  BY <1>2, <1>3, <1>4, <2>1, <2>2
<1>5. CASE Select \/ Leave \/ RecvEof \/ RecvTruncated \/ StdinData \/ StdinEof
           \/ StdinEofFails \/ Send \/ SendToNobody
  BY <1>4, <1>5 DEF Select, Leave, RecvEof, RecvTruncated, StdinData, StdinEof,
                    StdinEofFails, Send, SendToNobody, remote, host
<1>6. CASE Take \/ ToolEnds \/ ToolQuits \/ HostRefuses \/ UNCHANGED vars
  BY <1>4, <1>6 DEF Take, ToolEnds, ToolQuits, HostRefuses, client, host, remote,
                    vars
<1>7. ASSUME Recv \/ RecvRefused
      PROVE  /\ m = n /\ n + 1 \in 0..Len(wrote) /\ n < Len(wrote)
             /\ Pending(n + 1)' /\ Head(down) = wrote[n + 1]
             /\ UNCHANGED <<wrote, muted, refused, cut>>
  <2>1. /\ down # <<>> /\ down' = Tail(down) /\ phase = "recv"
        /\ UNCHANGED <<wrote, muted, refused, cut>>
    BY <1>7 DEF Recv, RecvRefused, host, remote
  <2>2. m = n
    BY <1>1, <2>1 DEF Lost
  <2>3. /\ Len(down) > 0 /\ Len(down') = Len(down) - 1
        /\ \A k \in 1..Len(down') : down'[k] = down[k + 1]
    BY <1>2, <2>1
  <2>4. n + Len(down) <= Len(wrote) /\ n < Len(wrote)
    BY <1>1, <1>2, <2>2, <2>3 DEF Pending
  <2>5. Head(down) = wrote[n + 1]
    BY <1>1, <1>2, <2>1, <2>2, <2>3 DEF Pending
  <2>6. \A k \in 1..Len(down') : down'[k] = wrote'[(n + 1) + k]
    BY <1>1, <1>2, <2>1, <2>2, <2>3 DEF Pending
  <2>7. IF cut' = "no" THEN (n + 1) + Len(down') = Len(wrote')
                       ELSE (n + 1) + Len(down') <= Len(wrote')
    BY <1>1, <1>2, <2>1, <2>2, <2>3 DEF Pending
  <2>8. Pending(n + 1)'
    BY <2>6, <2>7 DEF Pending
  <2>. QED  BY <1>2, <2>1, <2>2, <2>4, <2>5, <2>8
<1>8. CASE Recv
  <2>1. out' = IF Writes(wrote[n + 1].stream)
                 THEN [out EXCEPT ![wrote[n + 1].stream] =
                          Append(@, wrote[n + 1].unit)]
                 ELSE out
    BY <1>7, <1>8 DEF Recv
  <2>2. Shown(n + 1)'
    BY <1>1, <1>2, <1>7, <1>8, <2>1, ShowNext DEF IInv
  <2>. QED  BY <1>7, <1>8, <2>2 DEF StreamsFaithful
<1>9. CASE RecvRefused
  <2>1. out' = out /\ phase' = "failed"
    BY <1>9 DEF RecvRefused
  <2>2. Shown(n)'
    BY <1>1, <1>2, <1>7, <1>9, <2>1, ShownKept
  <2>3. Pending(n + 1)' /\ wrote' = wrote /\ refused' = refused /\ muted' = muted
    BY <1>7, <1>9
  <2>4. /\ wrote[n + 1].stream \in refused /\ Writes(wrote[n + 1].stream)
        /\ n < Len(wrote)
    BY <1>7, <1>9 DEF RecvRefused
  <2>5. Lost(n)'
    BY <2>1, <2>3, <2>4 DEF Lost, Writes
  <2>6. n \in 0..Len(wrote')
    BY <1>1, <2>3
  <2>. QED  BY <2>2, <2>3, <2>5, <2>6 DEF StreamsFaithful, Lost
<1>10. CASE Answer
  <2>1. PICK s \in Streams :
          LET f == [stream |-> s, unit |-> taken]
          IN  down' = Append(down, f) /\ wrote' = Append(wrote, f)
    BY <1>10 DEF Answer, Streams
  <2>. DEFINE f == [stream |-> s, unit |-> taken]
  <2>2. cut = "no" /\ UNCHANGED <<cut, out, muted, refused, phase>>
    BY <1>10 DEF Answer, client, host
  <2>3. down' = Append(down, f) /\ wrote' = Append(wrote, f) /\ f \in Frames
    BY <2>1 DEF IInv, TypeOK, Frames
  <2>. HIDE DEF f
  <2>4. /\ Len(wrote') = Len(wrote) + 1 /\ Len(down') = Len(down) + 1
        /\ \A k \in 1..Len(wrote) : wrote'[k] = wrote[k]
        /\ \A k \in 1..Len(down) : down'[k] = down[k]
        /\ wrote'[Len(wrote) + 1] = f /\ down'[Len(down) + 1] = f
    BY <1>2, <2>3
  <2>5. m + Len(down) = Len(wrote)
    BY <1>1, <2>2 DEF Pending
  <2>6. Shown(n)'
    <3>1. \A j \in 1..n : wrote'[j] = wrote[j]
      BY <1>1, <1>2, <2>4
    <3>. QED  BY <1>1, <1>2, <2>2, <3>1, ShownKept
  <2>7. \A k \in 1..Len(down') : down'[k] = wrote'[m + k]
    <3>1. \A k \in 1..Len(down) : m + k \in 1..Len(wrote) /\ down[k] = wrote[m + k]
      BY <1>1, <1>2, <2>5 DEF Pending
    <3>2. SUFFICES ASSUME NEW k \in 1..Len(down')
                   PROVE  down'[k] = wrote'[m + k]
      OBVIOUS
    <3>3. CASE k \in 1..Len(down)
      BY <2>4, <3>1, <3>3
    <3>4. CASE k = Len(down) + 1
      <4>1. m + k = Len(wrote) + 1
        BY <1>2, <2>5, <3>4
      <4>. QED  BY <2>4, <3>4, <4>1
    <3>. QED  BY <1>2, <2>4, <3>2, <3>3, <3>4
  <2>8. Pending(m)'
    <3>1. Len(wrote') = Len(wrote) + 1 /\ Len(down') = Len(down) + 1
      BY <2>4
    <3>2. m + Len(down') = Len(wrote')
      BY <1>2, <2>5, <3>1
    <3>. QED  BY <2>2, <2>7, <3>2 DEF Pending
  <2>. QED  BY <1>2, <1>3, <2>2, <2>4, <2>6, <2>8
<1>11. CASE Break
  <2>1. PICK l \in 0..Len(down) : down' = SubSeq(down, 1, l)
    BY <1>11 DEF Break
  <2>2. UNCHANGED <<wrote, out, muted, refused, phase>> /\ cut' # "no"
    BY <1>11 DEF Break, client, remote, host
  <2>3. /\ Len(down') = l /\ l <= Len(down)
        /\ \A k \in 1..Len(down') : down'[k] = down[k] /\ k \in 1..Len(down)
    BY <1>2, <2>1
  <2>4. Shown(n)'
    BY <1>1, <1>2, <2>2, ShownKept
  <2>5. m + Len(down) <= Len(wrote)
    BY <1>1, <1>2 DEF Pending
  <2>6. Pending(m)'
    BY <1>1, <1>2, <2>1, <2>2, <2>3, <2>5 DEF Pending
  <2>. QED  BY <1>2, <1>3, <2>2, <2>4, <2>6
<1>. QED
  BY <1>5, <1>6, <1>8, <1>9, <1>10, <1>11 DEF Next, Client, Tool

\* Stdout and stderr get what the tool wrote there, in that order, for every
\* number of units and frames, and a broken connection only cuts it short.
THEOREM Faithful == Spec => []StreamsFaithful
<1>1. Init => StreamsFaithful
  <2>. SUFFICES ASSUME Init PROVE Pending(0) /\ Shown(0) /\ Len(wrote) = 0
    BY DEF StreamsFaithful
  <2>1. wrote = <<>> /\ down = <<>> /\ \A s \in Streams : out[s] = <<>>
    BY DEF Init
  <2>2. \A s \in Streams : Place(s, 0) = 0
    BY PlaceCounts
  <2>. QED  BY <2>1, <2>2 DEF Pending, Shown
<1>. QED
  BY <1>1, FaithfulStep, Invariance, PTL DEF Spec
=============================================================================
