----------------------------- MODULE GlobProofs -----------------------------
(***************************************************************************)
(* Theorems about Glob, for all names and all patterns.                    *)
(***************************************************************************)
EXTENDS Glob, TLAPS

\* Lengths and characters are where they belong.
LEMMA Lengths ==
    ASSUME TypeOK
    PROVE  /\ value \in Seq(Chars) /\ Len(value) \in Nat
           /\ split \in Seq(Seq(Chars)) /\ Len(split) \in Nat \ {0}
           /\ \A n \in 1..Len(split) : /\ split[n] \in Seq(Chars)
                                       /\ Len(split[n]) \in Nat
<1>1. value \in Seq(Chars) /\ split \in Seq(Seq(Chars)) /\ split # <<>>
  BY GlobAssumption DEF TypeOK
<1>2. Len(split) # 0
  BY <1>1
<1>3. \A n \in 1..Len(split) : split[n] \in Seq(Chars)
  BY <1>1
<1>. QED
  BY <1>1, <1>2, <1>3

\* The first piece has one place.
LEMMA First ==
    ASSUME TypeOK, NEW e \in Nat
    PROVE  EndsAt(1, e) <=> Occurs(split[1], 0) /\ e = Len(split[1])
<1>. DEFINE at == [k \in 1..1 |-> 0]
<1>1. Len(split[1]) \in Nat /\ Len(value) \in Nat
  BY Lengths
<1>2. ASSUME EndsAt(1, e) PROVE Occurs(split[1], 0) /\ e = Len(split[1])
  BY <1>1, <1>2 DEF EndsAt, Places, Placed
<1>3. ASSUME Occurs(split[1], 0), e = Len(split[1]) PROVE EndsAt(1, e)
  <2>1. at \in Places(1) /\ at[1] = 0
    BY <1>1 DEF Places
  <2>2. Placed(1, at)
    BY <2>1, <1>3 DEF Placed
  <2>. QED
    BY <2>1, <2>2, <1>1, <1>3 DEF EndsAt
<1>. QED
  BY <1>2, <1>3

\* A placement of n pieces is continued by a place of the next one behind it.
LEMMA Longer ==
    ASSUME TypeOK, NEW n \in 1..(Len(split) - 1), NEW e \in Nat, NEW k \in Nat,
           EndsAt(n, e), e <= k, Occurs(split[n + 1], k)
    PROVE  EndsAt(n + 1, k + Len(split[n + 1]))
<1>1. /\ Len(value) \in Nat /\ Len(split) \in Nat
      /\ \A m \in 1..Len(split) : Len(split[m]) \in Nat
  BY Lengths
<1>2. PICK at \in Places(n) : Placed(n, at) /\ at[n] + Len(split[n]) = e
  BY DEF EndsAt
<1>. DEFINE to == [m \in 1..(n + 1) |-> IF m = n + 1 THEN k ELSE at[m]]
<1>3. k \in 0..Len(value)
  BY <1>1 DEF Occurs
<1>4. \A m \in 1..n : at[m] \in 0..Len(value) /\ to[m] = at[m]
  BY <1>2 DEF Places
<1>5. to \in Places(n + 1) /\ to[n + 1] = k
  BY <1>3, <1>4 DEF Places
<1>6. Placed(n + 1, to)
  <2>1. to[1] = 0
    BY <1>2, <1>4 DEF Placed
  <2>2. \A m \in 1..(n + 1) : Occurs(split[m], to[m])
    <3>1. \A m \in 1..n : Occurs(split[m], at[m])
      BY <1>2 DEF Placed
    <3>2. \A m \in 1..(n + 1) : m = n + 1 \/ m \in 1..n
      OBVIOUS
    <3>. HIDE DEF to
    <3>. QED
      BY <3>1, <3>2, <1>4, <1>5
  <2>3. \A m \in 1..((n + 1) - 1) : to[m] + Len(split[m]) <= to[m + 1]
    <3>1. \A m \in 1..(n - 1) : at[m] + Len(split[m]) <= at[m + 1]
      BY <1>2 DEF Placed
    <3>2. \A m \in 1..(n - 1) : m \in 1..n /\ m + 1 \in 1..n
      OBVIOUS
    <3>3. \A m \in 1..((n + 1) - 1) : m = n \/ m \in 1..(n - 1)
      OBVIOUS
    <3>4. to[n] + Len(split[n]) <= to[n + 1]
      BY <1>2, <1>4, <1>5
    <3>. HIDE DEF to
    <3>. QED
      BY <3>1, <3>2, <3>3, <3>4, <1>4
  <2>. HIDE DEF to
  <2>. QED
    BY <2>1, <2>2, <2>3 DEF Placed
<1>. HIDE DEF to
<1>. QED
  BY <1>5, <1>6 DEF EndsAt

\* A placement of n + 1 pieces is one of n pieces and a place behind it.
LEMMA Shorter ==
    ASSUME TypeOK, NEW n \in 1..(Len(split) - 1), NEW e, EndsAt(n + 1, e)
    PROVE  \E k \in 0..Len(value) :
              /\ Occurs(split[n + 1], k) /\ e = k + Len(split[n + 1])
              /\ \E d \in 0..k : EndsAt(n, d)
<1>1. /\ Len(value) \in Nat /\ Len(split) \in Nat
      /\ \A m \in 1..Len(split) : Len(split[m]) \in Nat
  BY Lengths
<1>2. PICK at \in Places(n + 1) :
         Placed(n + 1, at) /\ at[n + 1] + Len(split[n + 1]) = e
  BY DEF EndsAt
<1>. DEFINE to == [m \in 1..n |-> at[m]]
<1>3. \A m \in 1..(n + 1) : at[m] \in 0..Len(value)
  BY <1>2 DEF Places
<1>4. to \in Places(n) /\ \A m \in 1..n : to[m] = at[m]
  BY <1>3 DEF Places
<1>5. Placed(n, to)
  <2>1. to[1] = 0
    BY <1>2, <1>4 DEF Placed
  <2>2. \A m \in 1..n : Occurs(split[m], to[m])
    BY <1>2, <1>4 DEF Placed
  <2>3. \A m \in 1..(n - 1) : to[m] + Len(split[m]) <= to[m + 1]
    <3>1. \A m \in 1..(n - 1) : m \in 1..n /\ m + 1 \in 1..n /\ m \in 1..((n + 1) - 1)
      OBVIOUS
    <3>. HIDE DEF to
    <3>. QED
      BY <1>2, <1>4, <3>1 DEF Placed
  <2>. HIDE DEF to
  <2>. QED
    BY <2>1, <2>2, <2>3 DEF Placed
<1>6. at[n] + Len(split[n]) <= at[n + 1]
  BY <1>2 DEF Placed
<1>7. EndsAt(n, at[n] + Len(split[n]))
  <2>1. to[n] = at[n]
    BY <1>4
  <2>. HIDE DEF to
  <2>. QED
    BY <2>1, <1>4, <1>5 DEF EndsAt
<1>8. at[n] + Len(split[n]) \in 0..at[n + 1]
  BY <1>1, <1>3, <1>6
<1>9. Occurs(split[n + 1], at[n + 1])
  BY <1>2 DEF Placed
<1>. QED
  BY <1>2, <1>3, <1>7, <1>8, <1>9

\* Steps do not change the name and the pattern, nor what is placed where.
LEMMA Frozen ==
    ASSUME UNCHANGED input
    PROVE  /\ \A n, e : EndsAt(n, e)' <=> EndsAt(n, e)
           /\ \A s, k : Occurs(s, k)' <=> Occurs(s, k)
           /\ GlobMatches' <=> GlobMatches
           /\ Last' = Last
<1>1. value' = value /\ split' = split
  BY DEF input
<1>2. \A s, k : Occurs(s, k)' <=> Occurs(s, k)
  BY <1>1 DEF Occurs
<1>3. \A n, e : EndsAt(n, e)' <=> EndsAt(n, e)
  BY <1>1 DEF EndsAt, Places, Placed, Occurs
<1>4. GlobMatches' <=> GlobMatches
  BY <1>1 DEF GlobMatches, EndsAt, Places, Placed, Occurs
<1>. QED
  BY <1>1, <1>2, <1>3, <1>4 DEF Last

\* The scan starts in the invariant.
LEMMA InvInit == Init => IInv
<1>. SUFFICES ASSUME Init PROVE IInv
  OBVIOUS
<1>1. split # <<>> /\ split \in Seq(Seq(Chars)) /\ value \in Seq(Chars)
  BY GlobAssumption DEF Init
<1>. QED
  BY <1>1 DEF Init, IInv, TypeOK, Earliest, Sound, MissNeedsRepeat

\* Finding the next piece at its first place keeps the scan the earliest one.
LEMMA FindEarliest ==
    ASSUME IInv, Find
    PROVE  /\ off' \in 0..Len(value)
           /\ EndsAt(i, off')
           /\ \A e \in 0..Len(value) : EndsAt(i, e) => off' <= e
<1>. DEFINE n == i - 1
<1>1. /\ Len(value) \in Nat /\ Len(split) \in Nat
      /\ \A m \in 1..Len(split) : Len(split[m]) \in Nat
  BY Lengths DEF IInv
<1>2. n \in 1..(Len(split) - 1) /\ i = n + 1 /\ off \in 0..Len(value)
      /\ i \in 1..Len(split)
  BY <1>1 DEF Find, Scanning, IInv, TypeOK
<1>3. PICK k \in off..Len(value) :
         /\ Occurs(split[i], k)
         /\ \A l \in off..(k - 1) : ~Occurs(split[i], l)
         /\ off' = k + Len(split[i])
  BY DEF Find
<1>4. EndsAt(n, off) /\ \A e \in 0..Len(value) : EndsAt(n, e) => off <= e
  BY <1>2 DEF IInv, Earliest
<1>5. off' \in 0..Len(value)
  BY <1>1, <1>2, <1>3 DEF Occurs
<1>6. EndsAt(i, off')
  BY <1>2, <1>3, <1>4, Longer DEF IInv
<1>7. ASSUME NEW e \in 0..Len(value), EndsAt(i, e) PROVE off' <= e
  <2>1. PICK l \in 0..Len(value) :
           /\ Occurs(split[i], l) /\ e = l + Len(split[i])
           /\ \E d \in 0..l : EndsAt(n, d)
    <3>1. TypeOK /\ EndsAt(n + 1, e)
      BY <1>2, <1>7 DEF IInv
    <3>. HIDE DEF n
    <3>. QED  BY <1>2, <3>1, Shorter
  <2>2. off <= l
    BY <1>1, <1>2, <1>4, <2>1
  <2>3. k <= l
    BY <1>2, <1>3, <2>1, <2>2
  <2>. QED
    BY <1>1, <1>2, <1>3, <2>1, <2>3
<1>. QED
  BY <1>5, <1>6, <1>7

\* A piece that is not found behind the earliest scan has no place at all.
LEMMA NotFoundNowhere ==
    ASSUME IInv, NotFound
    PROVE  ~GlobMatches
<1>. SUFFICES ASSUME GlobMatches PROVE FALSE
  OBVIOUS
<1>. DEFINE N == Len(split)
<1>1. /\ Len(value) \in Nat /\ N \in Nat
      /\ \A m \in 1..N : Len(split[m]) \in Nat
  BY Lengths DEF IInv
<1>2. i \in 2..N /\ off \in 0..Len(value)
  BY DEF NotFound, Scanning, IInv, TypeOK
<1>3. PICK at \in Places(N) : Placed(N, at)
  BY DEF GlobMatches, EndsAt
<1>. DEFINE to == [m \in 1..(i - 1) |-> at[m]]
<1>4. \A m \in 1..N : at[m] \in 0..Len(value)
  BY <1>3 DEF Places
<1>5. to \in Places(i - 1) /\ \A m \in 1..(i - 1) : to[m] = at[m]
  BY <1>2, <1>4 DEF Places
<1>6. Placed(i - 1, to)
  <2>1. \A m \in 1..(i - 1) : m \in 1..N
    BY <1>1, <1>2
  <2>2. \A m \in 1..((i - 1) - 1) :
           m \in 1..(N - 1) /\ m \in 1..(i - 1) /\ m + 1 \in 1..(i - 1)
    BY <1>1, <1>2
  <2>3. 1 \in 1..(i - 1)
    BY <1>2
  <2>. HIDE DEF to, N
  <2>. QED
    BY <1>3, <1>5, <2>1, <2>2, <2>3 DEF Placed
<1>. DEFINE e == at[i - 1] + Len(split[i - 1])
<1>7. i - 1 \in 1..(N - 1) /\ (i - 1) + 1 = i /\ i - 1 \in 1..(i - 1)
  BY <1>1, <1>2
<1>8. e <= at[i] /\ Occurs(split[i], at[i]) /\ at[i] \in 0..Len(value)
      /\ at[i - 1] \in 0..Len(value)
  BY <1>1, <1>2, <1>3, <1>4, <1>7 DEF Placed
<1>9. EndsAt(i - 1, e)
  <2>. HIDE DEF to
  <2>. QED
    BY <1>5, <1>6, <1>7 DEF EndsAt
<1>10. e \in 0..Len(value)
  BY <1>1, <1>7, <1>8
<1>11. off <= e
  BY <1>2, <1>9, <1>10 DEF IInv, Earliest
<1>. HIDE DEF e
<1>12. at[i] \in off..Len(value)
  BY <1>1, <1>2, <1>8, <1>10, <1>11
<1>. QED
  BY <1>8, <1>12 DEF NotFound

\* Without a star the pattern matches the name that it is.
LEMMA ExactRight ==
    ASSUME IInv, IsExact
    PROVE  GlobMatches <=> split[1] = value
<1>1. /\ value \in Seq(Chars) /\ split[1] \in Seq(Chars) /\ Len(split) = 1
      /\ Len(value) \in Nat /\ Len(split[1]) \in Nat
  BY Lengths DEF IInv, IsExact
<1>2. GlobMatches <=> Occurs(split[1], 0) /\ Len(value) = Len(split[1])
  BY <1>1, First DEF GlobMatches, IInv
<1>3. ASSUME Occurs(split[1], 0), Len(value) = Len(split[1])
      PROVE  split[1] = value
  BY <1>1, <1>3 DEF Occurs
<1>4. ASSUME split[1] = value
      PROVE  Occurs(split[1], 0) /\ Len(value) = Len(split[1])
  BY <1>1, <1>4 DEF Occurs
<1>. QED
  BY <1>2, <1>3, <1>4

\* The verdict at the end of the scan is right, but for a last piece that
\* could also be placed later.
LEMMA RestRight ==
    ASSUME IInv, Rest
    PROVE  /\ Last = <<>> \/ off = Len(value) => GlobMatches
           /\ Last # <<>> /\ off # Len(value) =>
                 \E k \in 0..Len(value) :
                     Occurs(Last, k) /\ k + Len(Last) < Len(value)
<1>. DEFINE n == Len(split) - 1
<1>1. /\ Len(value) \in Nat /\ Len(split) \in Nat \ {0}
      /\ \A m \in 1..Len(split) : Len(split[m]) \in Nat
  BY Lengths DEF IInv
<1>2. n \in 1..(Len(split) - 1) /\ Len(split) = n + 1 /\ i = (n + 1) + 1
      /\ off \in 0..Len(value) /\ n + 1 \in 1..Len(split)
  <2>1. i \in 1..(Len(split) + 1) /\ off \in 0..Len(value)
    BY DEF IInv, TypeOK
  <2>2. i > Len(split) /\ Len(split) # 1
    BY DEF Rest, IsExact
  <2>3. Len(split) \in Nat /\ Len(split) > 1
    BY <1>1, <2>2
  <2>4. i = Len(split) + 1
    BY <2>1, <2>2, <2>3
  <2>5. n \in Nat /\ n > 0 /\ Len(split) = n + 1
    BY <2>3
  <2>. HIDE DEF n
  <2>. QED
    BY <2>1, <2>4, <2>5
<1>3. EndsAt(n + 1, off)
  <2>1. i > 1 /\ i - 1 = n + 1
    BY <1>2
  <2>. QED
    BY <2>1 DEF IInv, Earliest
<1>4. Last = split[n + 1]
  BY <1>2 DEF Last
<1>5. PICK k \in 0..Len(value) :
         /\ Occurs(Last, k) /\ off = k + Len(Last)
         /\ \E d \in 0..k : EndsAt(n, d)
  BY <1>2, <1>3, <1>4, Shorter DEF IInv
<1>6. ASSUME Last = <<>> PROVE GlobMatches
  <2>1. PICK d \in 0..k : EndsAt(n, d)
    BY <1>5
  <2>2. Occurs(Last, Len(value)) /\ Len(Last) = 0
    BY <1>1, <1>6 DEF Occurs
  <2>3. d \in Nat /\ d <= Len(value)
    BY <1>1, <1>5, <2>1
  <2>4. EndsAt(n + 1, Len(value) + Len(split[n + 1]))
    BY <1>1, <1>2, <1>4, <2>1, <2>2, <2>3, Longer DEF IInv
  <2>. QED
    BY <1>1, <1>2, <1>4, <2>2, <2>4 DEF GlobMatches
<1>7. ASSUME off = Len(value) PROVE GlobMatches
  BY <1>2, <1>3, <1>7 DEF GlobMatches
<1>8. ASSUME off # Len(value)
      PROVE  Occurs(Last, k) /\ k + Len(Last) < Len(value)
  BY <1>1, <1>2, <1>5, <1>8
<1>. QED
  BY <1>5, <1>6, <1>7, <1>8

\* Every step of the scan preserves the invariant.
LEMMA InvStep == IInv /\ [Next]_vars => IInv'
<1>. SUFFICES ASSUME IInv, [Next]_vars PROVE IInv'
  OBVIOUS
<1>1. CASE UNCHANGED vars
  BY <1>1, Frozen DEF vars, input, IInv, TypeOK, Earliest, Sound, MissNeedsRepeat
<1>. SUFFICES ASSUME Next PROVE IInv'
  BY <1>1
<1>2. UNCHANGED input
  BY DEF Next, Exact, Prefix, NoPrefix, Find, NotFound, Rest
<1>3. value' = value /\ split' = split
  BY <1>2 DEF input
<1>4. /\ Len(value) \in Nat /\ Len(split) \in Nat \ {0}
      /\ \A m \in 1..Len(split) : Len(split[m]) \in Nat
      /\ i \in 1..(Len(split) + 1) /\ off \in 0..Len(value)
      /\ value \in Values /\ split \in Patterns
  BY Lengths DEF IInv, TypeOK
\* what is left to show when the scan goes on, and when it ends
<1>5. ASSUME i' \in 2..(Len(split) + 1), off' \in 0..Len(value),
             verdict' = "open", EndsAt(i' - 1, off'),
             \A e \in 0..Len(value) : EndsAt(i' - 1, e) => off' <= e
      PROVE  IInv'
  <2>1. EndsAt(i - 1, off)' <=> EndsAt(i' - 1, off')
    BY <1>3 DEF EndsAt, Places, Placed, Occurs
  <2>2. \A e : EndsAt(i - 1, e)' <=> EndsAt(i' - 1, e)
    BY <1>3 DEF EndsAt, Places, Placed, Occurs
  <2>3. TypeOK'
    BY <1>3, <1>4, <1>5 DEF TypeOK
  <2>4. Earliest'
    BY <1>3, <1>5, <2>1, <2>2 DEF Earliest
  <2>. QED
    BY <1>5, <2>3, <2>4 DEF IInv, Sound, MissNeedsRepeat
<1>6. ASSUME UNCHANGED <<i, off>>, verdict' \in {"match", "miss"},
             verdict' = "match" => GlobMatches,
             verdict' = "miss" /\ GlobMatches =>
                \E k \in 0..Len(value) : Occurs(Last, k) /\ k + Len(Last) < Len(value)
      PROVE  IInv'
  <2>1. TypeOK'
    BY <1>3, <1>4, <1>6 DEF TypeOK
  <2>2. Earliest'
    <3>1. EndsAt(i - 1, off)' <=> EndsAt(i - 1, off)
      BY <1>3, <1>6 DEF EndsAt, Places, Placed, Occurs
    <3>2. \A e : EndsAt(i - 1, e)' <=> EndsAt(i - 1, e)
      BY <1>3, <1>6 DEF EndsAt, Places, Placed, Occurs
    <3>. QED
      BY <1>3, <1>6, <3>1, <3>2 DEF Earliest, IInv
  <2>3. Sound'
    BY <1>2, <1>6, Frozen DEF Sound
  <2>4. MissNeedsRepeat'
    <3>1. \A k : Occurs(Last, k)' <=> Occurs(Last, k)
      BY <1>3 DEF Occurs, Last
    <3>. QED
      BY <1>2, <1>3, <1>6, <3>1, Frozen DEF MissNeedsRepeat
  <2>. QED
    BY <2>1, <2>2, <2>3, <2>4 DEF IInv
<1>7. CASE Exact
  BY <1>6, <1>7, ExactRight DEF Exact
<1>8. CASE Prefix
  <2>1. /\ i' = 2 /\ off' = Len(split[1]) /\ verdict' = "open"
        /\ Occurs(split[1], 0) /\ Len(split) # 1
    BY <1>8 DEF Prefix, IsExact
  <2>2. off' \in 0..Len(value) /\ i' \in 2..(Len(split) + 1) /\ i' - 1 = 1
    BY <1>4, <2>1 DEF Occurs
  <2>3. EndsAt(1, off') /\ \A e \in 0..Len(value) : EndsAt(1, e) => off' <= e
    BY <1>4, <2>1, <2>2, First DEF IInv
  <2>. QED
    BY <1>5, <2>1, <2>2, <2>3
<1>9. CASE NoPrefix
  <2>1. ~GlobMatches
    BY <1>4, <1>9 DEF NoPrefix, GlobMatches, EndsAt, Placed
  <2>. QED
    BY <1>6, <1>9, <2>1 DEF NoPrefix
<1>10. CASE Find
  <2>1. i \in 2..Len(split) /\ i' = i + 1 /\ verdict' = "open"
    BY <1>10 DEF Find, Scanning
  <2>2. i' \in 2..(Len(split) + 1) /\ i' - 1 = i
    BY <1>4, <2>1
  <2>. QED
    BY <1>5, <1>10, <2>1, <2>2, FindEarliest
<1>11. CASE NotFound
  BY <1>6, <1>11, NotFoundNowhere DEF NotFound
<1>12. CASE Rest
  BY <1>6, <1>12, RestRight DEF Rest
<1>. QED
  BY <1>7, <1>8, <1>9, <1>10, <1>11, <1>12 DEF Next

\* The invariant holds all along the scan of any name by any pattern.
THEOREM Invariance == Spec => []IInv
<1>. QED
  BY InvInit, InvStep, PTL DEF Spec

\* A filter never matches a name that its pattern does not.
THEOREM MatchesAreRight == Spec => []Sound
<1>1. IInv => Sound
  BY DEF IInv
<1>. QED
  BY <1>1, Invariance, PTL

\* It misses a name that its pattern matches only when the pattern's last
\* piece occurs in the name before its end as well.
THEOREM MissesExplained == Spec => []MissNeedsRepeat
<1>1. IInv => MissNeedsRepeat
  BY DEF IInv
<1>. QED
  BY <1>1, Invariance, PTL
=============================================================================
