--------------------------- MODULE TransferProofs ---------------------------
(***************************************************************************)
(* Theorems about Transfer, for every tree of files, all arguments and     *)
(* every current directory.                                                *)
(***************************************************************************)
EXTENDS Transfer, WellFoundedInduction, TLAPS

(* Induction over the places of a sequence *)

\* A set of numbers that is not empty has a least one.
LEMMA Least ==
    ASSUME NEW T, T \subseteq Nat, T # {}
    PROVE  \E m \in T : \A k \in T : m <= k
<1>1. IsWellFoundedOn(OpToRel(<, Nat), Nat)
  BY NatLessThanWellFounded
<1>2. PICK m \in T : \A k \in T : ~(<<k, m>> \in OpToRel(<, Nat))
  BY <1>1, WFMin
<1>3. \A k \in T : ~(k < m)
  BY <1>2 DEF OpToRel
<1>. QED  BY <1>3

\* What holds of 0, and of each number after one of which it holds, holds up
\* to the last one.
LEMMA Upwards ==
    ASSUME NEW N \in Nat, NEW S, 0 \in S,
           \A n \in 0..(N - 1) : n \in S => n + 1 \in S
    PROVE  0..N \subseteq S
<1>. DEFINE T == (0..N) \ S
<1>1. SUFFICES ASSUME T # {} PROVE FALSE
  OBVIOUS
<1>2. T \subseteq Nat
  OBVIOUS
<1>3. PICK m \in T : \A k \in T : m <= k
  <2>. HIDE DEF T
  <2>. QED  BY <1>1, <1>2, Least
<1>4. m # 0 /\ m - 1 \in 0..(N - 1) /\ m - 1 \notin T
  BY <1>3
<1>5. (m - 1) + 1 \in S
  BY <1>4
<1>. QED  BY <1>3, <1>5

Iterates(f, N, D, base, step) ==
    /\ f \in [0..N -> D]
    /\ f[0] = base
    /\ \A n \in 1..N : f[n] = step[n][f[n - 1]]

\* A function may be defined place by place.
LEMMA Iterated ==
    ASSUME NEW N \in Nat, NEW D, NEW base \in D, NEW step \in [1..N -> [D -> D]]
    PROVE  \E f : Iterates(f, N, D, base, step)
<1>. DEFINE Runs(f, m) == Iterates(f, m, D, base, step)
            S == {m \in 0..N : \E f : Runs(f, m)}
<1>1. 0 \in S
  <2>1. Runs([n \in 0..0 |-> base], 0)
    BY DEF Iterates
  <2>. HIDE DEF Runs
  <2>. QED  BY <2>1
<1>2. \A m \in 0..(N - 1) : m \in S => m + 1 \in S
  <2>. SUFFICES ASSUME NEW m \in 0..(N - 1), m \in S PROVE m + 1 \in S
    OBVIOUS
  <2>. USE DEF Iterates
  <2>1. PICK f : Runs(f, m)
    OBVIOUS
  <2>. DEFINE g == [n \in 0..(m + 1) |-> IF n = m + 1 THEN step[n][f[m]] ELSE f[n]]
  <2>2. step[m + 1] \in [D -> D] /\ f[m] \in D
    BY <2>1
  <2>3. g \in [0..(m + 1) -> D]
    BY <2>1, <2>2
  <2>4. \A n \in 0..m : g[n] = f[n]
    BY <2>1
  <2>5. g[m + 1] = step[m + 1][g[m]]
    BY <2>4
  <2>6. Runs(g, m + 1)
    <3>. HIDE DEF g
    <3>1. SUFFICES ASSUME NEW n \in 1..(m + 1) PROVE g[n] = step[n][g[n - 1]]
      BY <2>1, <2>3, <2>4
    <3>2. CASE n = m + 1
      BY <2>5, <3>2
    <3>3. CASE n \in 1..m
      <4>1. n \in 0..m /\ n - 1 \in 0..m
        BY <3>3
      <4>. QED  BY <2>1, <2>4, <3>3, <4>1
    <3>. QED  BY <3>2, <3>3
  <2>. HIDE DEF g, Runs
  <2>. QED  BY <2>3, <2>6
<1>3. N \in S
  <2>. HIDE DEF S
  <2>1. 0..N \subseteq S
    BY <1>1, <1>2, Upwards
  <2>. QED  BY <2>1
<1>. QED  BY <1>3

----------------------------------------------------------------------------
(* Paths *)

\* Joining, name by name.
LEMMA JoinedNames ==
    ASSUME NEW s \in Seq(Name), NEW t \in Seq(Name)
    PROVE  /\ s \o t \in Seq(Name) /\ Len(s \o t) = Len(s) + Len(t)
           /\ \A i \in 1..Len(s) : (s \o t)[i] = s[i]
           /\ \A i \in 1..Len(t) : (s \o t)[Len(s) + i] = t[i]
OBVIOUS

\* Joining is associative.
LEMMA JoinedAgain ==
    ASSUME NEW s \in Seq(Name), NEW t \in Seq(Name), NEW u \in Seq(Name)
    PROVE  (s \o t) \o u = s \o (t \o u)
OBVIOUS

\* "/" and ".." are names, and not the same.
LEMMA NameFacts == Slash \in Name /\ Up \in Name /\ Slash # Up
BY PathAssumption DEF Slash, Up

\* Resolved and plain paths, name by name.
LEMMA ResolvedMeans ==
    ASSUME NEW p \in Resolved
    PROVE  /\ p \in Seq(Name) /\ Len(p) > 0 /\ p[1] = Slash
           /\ \A i \in 2..Len(p) : p[i] # Slash /\ p[i] # Up
BY NameFacts DEF Resolved, Paths, IsAbsolute, Contains

\* The converse of ResolvedMeans
LEMMA ResolvedIf ==
    ASSUME NEW p \in Seq(Name), Len(p) > 0, p[1] = Slash,
           \A i \in 2..Len(p) : p[i] # Slash /\ p[i] # Up
    PROVE  p \in Resolved
BY NameFacts DEF Resolved, Paths, IsAbsolute, Contains

\* A plain path goes only down.
LEMMA PlainMeans ==
    ASSUME NEW p \in Plain
    PROVE  /\ p \in Seq(Name)
           /\ \A i \in 1..Len(p) : p[i] # Slash /\ p[i] # Up
BY DEF Plain, Paths, IsAbsolute, Contains

\* The converse of PlainMeans
LEMMA PlainIf ==
    ASSUME NEW p \in Seq(Name), \A i \in 1..Len(p) : p[i] # Slash /\ p[i] # Up
    PROVE  p \in Plain
<1>1. p # <<>> => Len(p) > 0
  OBVIOUS
<1>. QED  BY <1>1 DEF Plain, Paths, IsAbsolute, Contains

\* One name further is again a resolved path.
LEMMA EnterType ==
    ASSUME NEW dir \in Resolved, NEW n \in Name
    PROVE  Enter(dir, n) \in Resolved
<1>1. CASE n = Slash
  <2>1. RootDir \in Seq(Name) /\ Len(RootDir) = 1 /\ RootDir[1] = Slash
    BY NameFacts DEF RootDir
  <2>2. RootDir \in Resolved
    BY <2>1, ResolvedIf
  <2>3. Enter(dir, n) = RootDir
    BY <1>1, NameFacts DEF Enter
  <2>. QED  BY <2>2, <2>3
<1>2. CASE n = Up
  <2>0. n # Slash
    BY <1>2, NameFacts
  <2>1. CASE dir = RootDir
    BY <1>2, <2>0, <2>1 DEF Enter
  <2>2. CASE dir # RootDir
    <3>1. dir \in Seq(Name) /\ Len(dir) > 0 /\ dir[1] = Slash
      BY ResolvedMeans
    <3>2. Len(dir) > 1
      <4>1. Len(dir) = 1 => dir = <<dir[1]>>
        BY <3>1
      <4>2. Len(dir) # 1
        BY <2>2, <3>1, <4>1 DEF RootDir
      <4>. QED  BY <3>1, <4>2
    <3>3. /\ Front(dir) \in Seq(Name) /\ Len(Front(dir)) = Len(dir) - 1
          /\ \A i \in 1..Len(Front(dir)) : Front(dir)[i] = dir[i]
      BY <3>1, <3>2 DEF Front
    <3>4. Front(dir) \in Resolved
      BY <3>1, <3>2, <3>3, ResolvedMeans, ResolvedIf
    <3>. QED  BY <1>2, <2>0, <2>2, <3>4 DEF Enter
  <2>. QED  BY <2>1, <2>2
<1>3. CASE n # Slash /\ n # Up
  <2>1. Enter(dir, n) = Append(dir, n)
    BY <1>3 DEF Enter
  <2>2. dir \in Seq(Name)
    BY ResolvedMeans
  <2>3. /\ Append(dir, n) \in Seq(Name) /\ Len(Append(dir, n)) = Len(dir) + 1
        /\ \A i \in 1..Len(dir) : Append(dir, n)[i] = dir[i]
        /\ Append(dir, n)[Len(dir) + 1] = n
    BY <2>2
  <2>4. \A i \in 2..(Len(dir) + 1) :
          Append(dir, n)[i] # Slash /\ Append(dir, n)[i] # Up
    BY <1>3, <2>2, <2>3, ResolvedMeans
  <2>5. Len(dir) > 0 /\ dir[1] = Slash
    BY ResolvedMeans
  <2>6. Append(dir, n)[1] = Slash /\ Len(Append(dir, n)) > 0
    BY <2>2, <2>3, <2>5
  <2>7. Append(dir, n) \in Resolved
    BY <2>2, <2>3, <2>4, <2>6, ResolvedIf
  <2>. QED  BY <2>1, <2>7
<1>. QED  BY <1>1, <1>2, <1>3

\* Resolve goes through the names of the path, one by one.
LEMMA ResolveIs ==
    ASSUME NEW p \in Seq(Name), NEW g \in [0..Len(p) -> Resolved],
           g[0] = Cwd, \A i \in 1..Len(p) : g[i] = Enter(g[i - 1], p[i])
    PROVE  Resolve(p) = g[Len(p)]
<1>. DEFINE N == Len(p)
            Def(f) == [i \in 0..N |-> IF i = 0 THEN Cwd ELSE Enter(f[i - 1], p[i])]
            d == CHOOSE f : f = Def(f)
<1>1. N \in Nat
  OBVIOUS
<1>2. g = Def(g)
  <2>. HIDE DEF N
  <2>. QED  BY <1>1
<1>3. d = Def(d)
  <2>. HIDE DEF Def
  <2>. QED  BY <1>2
<1>4. Resolve(p) = d[N]
  BY DEF Resolve
<1>. HIDE DEF d, N
<1>5. \A i \in 0..N : d[i] = IF i = 0 THEN Cwd ELSE Enter(d[i - 1], p[i])
  <2>1. \A i \in 0..N : d[i] = Def(d)[i]
    BY <1>3
  <2>. QED  BY <2>1
<1>. DEFINE S == {i \in 0..N : d[i] = g[i]}
<1>6. 0 \in S
  BY <1>1, <1>5
<1>7. \A i \in 0..(N - 1) : i \in S => i + 1 \in S
  BY <1>1, <1>5 DEF N
<1>8. 0..N \subseteq S
  <2>. HIDE DEF S
  <2>. QED  BY <1>1, <1>6, <1>7, Upwards
<1>. QED  BY <1>1, <1>4, <1>8 DEF N

\* A path leads through one directory after the other.
LEMMA ResolveUnfolds ==
    ASSUME NEW p \in Seq(Name)
    PROVE  \E g \in [0..Len(p) -> Resolved] :
              /\ g[0] = Cwd
              /\ \A i \in 1..Len(p) : g[i] = Enter(g[i - 1], p[i])
              /\ Resolve(p) = g[Len(p)]
<1>. DEFINE N == Len(p)
            step == [i \in 1..N |-> [dir \in Resolved |-> Enter(dir, p[i])]]
<1>1. N \in Nat /\ Cwd \in Resolved
  BY PathAssumption
<1>2. \A i \in 1..N : p[i] \in Name
  OBVIOUS
<1>3. step \in [1..N -> [Resolved -> Resolved]]
  BY <1>2, EnterType
<1>4. PICK g : Iterates(g, N, Resolved, Cwd, step)
  <2>. HIDE DEF N, step
  <2>. QED  BY <1>1, <1>3, Iterated
<1>5. \A i \in 1..N : g[i] = Enter(g[i - 1], p[i])
  <2>. SUFFICES ASSUME NEW i \in 1..N PROVE g[i] = Enter(g[i - 1], p[i])
    OBVIOUS
  <2>1. g[i - 1] \in Resolved
    BY <1>1, <1>4 DEF Iterates
  <2>. QED  BY <1>4, <2>1 DEF Iterates
<1>6. g \in [0..N -> Resolved] /\ g[0] = Cwd
  BY <1>4 DEF Iterates
<1>7. Resolve(p) = g[N]
  BY <1>5, <1>6, ResolveIs
<1>. QED  BY <1>5, <1>6, <1>7

\* Every path resolves to an absolute one without "..".
LEMMA ResolveType ==
    ASSUME NEW p \in Seq(Name)
    PROVE  Resolve(p) \in Resolved
<1>1. Len(p) \in 0..Len(p)
  OBVIOUS
<1>. QED  BY <1>1, ResolveUnfolds

\* Pieces of plain paths are plain, and what is below a resolved path is one.
LEMMA PlainPiece ==
    ASSUME NEW q \in Plain, NEW m \in Nat, NEW n \in Nat, 0 < m, n <= Len(q)
    PROVE  SubSeq(q, m, n) \in Plain
<1>1. q \in Seq(Name) /\ \A i \in 1..Len(q) : q[i] # Slash /\ q[i] # Up
  BY PlainMeans
<1>2. /\ SubSeq(q, m, n) \in Seq(Name)
      /\ \A i \in 1..Len(SubSeq(q, m, n)) :
            /\ SubSeq(q, m, n)[i] = q[m + i - 1]
            /\ m + i - 1 \in 1..Len(q)
  BY <1>1
<1>. QED  BY <1>1, <1>2, PlainIf

\* A plain path below a resolved one is resolved.
LEMMA BelowType ==
    ASSUME NEW dir \in Resolved, NEW q \in Plain
    PROVE  dir \o q \in Resolved
<1>1. /\ dir \in Seq(Name) /\ Len(dir) > 0 /\ dir[1] = Slash
      /\ \A i \in 2..Len(dir) : dir[i] # Slash /\ dir[i] # Up
  BY ResolvedMeans
<1>2. q \in Seq(Name) /\ \A i \in 1..Len(q) : q[i] # Slash /\ q[i] # Up
  BY PlainMeans
<1>3. /\ dir \o q \in Seq(Name) /\ Len(dir \o q) = Len(dir) + Len(q)
      /\ \A i \in 1..Len(dir) : (dir \o q)[i] = dir[i]
      /\ \A i \in (Len(dir) + 1)..(Len(dir) + Len(q)) :
            (dir \o q)[i] = q[i - Len(dir)]
  BY <1>1, <1>2
<1>4. \A i \in 2..Len(dir \o q) : (dir \o q)[i] # Slash /\ (dir \o q)[i] # Up
  <2>. SUFFICES ASSUME NEW i \in 2..Len(dir \o q)
                PROVE  (dir \o q)[i] # Slash /\ (dir \o q)[i] # Up
    OBVIOUS
  <2>1. CASE i <= Len(dir)
    BY <2>1, <1>1, <1>3
  <2>2. CASE i > Len(dir)
    <3>1. i - Len(dir) \in 1..Len(q) /\ (dir \o q)[i] = q[i - Len(dir)]
      BY <2>2, <1>1, <1>2, <1>3
    <3>. QED  BY <3>1, <1>2
  <2>. QED  BY <2>1, <2>2, <1>1
<1>5. Len(dir \o q) > 0 /\ (dir \o q)[1] = Slash
  BY <1>1, <1>2, <1>3
<1>. QED  BY <1>3, <1>4, <1>5, ResolvedIf

\* A piece of a path is the piece before it and one name.
LEMMA OneFurther ==
    ASSUME NEW s \in Seq(Name), NEW q \in Seq(Name), NEW k \in 1..Len(q)
    PROVE  Append(s \o SubSeq(q, 1, k - 1), q[k]) = s \o SubSeq(q, 1, k)
<1>. DEFINE l == Append(s \o SubSeq(q, 1, k - 1), q[k])
            r == s \o SubSeq(q, 1, k)
<1>1. /\ SubSeq(q, 1, k - 1) \in Seq(Name) /\ Len(SubSeq(q, 1, k - 1)) = k - 1
      /\ SubSeq(q, 1, k) \in Seq(Name) /\ Len(SubSeq(q, 1, k)) = k
      /\ \A i \in 1..(k - 1) : SubSeq(q, 1, k - 1)[i] = q[i]
      /\ \A i \in 1..k : SubSeq(q, 1, k)[i] = q[i]
  OBVIOUS
<1>2. /\ l \in Seq(Name) /\ r \in Seq(Name)
      /\ Len(l) = Len(s) + k /\ Len(r) = Len(s) + k
  BY <1>1
<1>3. \A i \in 1..(Len(s) + k) : l[i] = r[i]
  BY <1>1
<1>. QED
  <2>. HIDE DEF l, r
  <2>1. l = r
    BY <1>2, <1>3
  <2>. QED  BY <2>1 DEF l, r

\* What is below a path is below what the path resolves to.
LEMMA ResolveBelow ==
    ASSUME NEW p \in Seq(Name), NEW q \in Plain
    PROVE  Resolve(p \o q) = Resolve(p) \o q
<1>. DEFINE N == Len(p)
            M == Len(p \o q)
<1>1. PICK f \in [0..N -> Resolved] :
        /\ f[0] = Cwd
        /\ \A i \in 1..N : f[i] = Enter(f[i - 1], p[i])
        /\ Resolve(p) = f[N]
  BY ResolveUnfolds
<1>. DEFINE g == [i \in 0..M |-> IF i <= N THEN f[i]
                                 ELSE f[N] \o SubSeq(q, 1, i - N)]
<1>2. /\ q \in Seq(Name) /\ p \o q \in Seq(Name)
      /\ N \in Nat /\ Len(q) \in Nat /\ M = N + Len(q)
  BY PlainMeans
<1>3. /\ \A i \in 1..N : (p \o q)[i] = p[i]
      /\ \A k \in 1..Len(q) : (p \o q)[N + k] = q[k]
  BY <1>2
<1>4. f[N] \in Resolved /\ f[N] \in Seq(Name)
  BY <1>1, <1>2, ResolvedMeans
<1>5. \A k \in 0..Len(q) : g[N + k] = f[N] \o SubSeq(q, 1, k)
  <2>. SUFFICES ASSUME NEW k \in 0..Len(q)
                PROVE  g[N + k] = f[N] \o SubSeq(q, 1, k)
    OBVIOUS
  <2>1. CASE k = 0
    <3>1. SubSeq(q, 1, 0) = <<>> /\ f[N] \o <<>> = f[N]
      BY <1>2, <1>4
    <3>2. N \in 0..M /\ N + k = N
      BY <2>1, <1>2
    <3>3. g[N] = f[N]
      BY <3>2
    <3>. HIDE DEF g
    <3>. QED  BY <2>1, <3>1, <3>2, <3>3
  <2>2. CASE k > 0
    BY <2>2, <1>2
  <2>. QED  BY <2>1, <2>2
<1>6. \A i \in 0..N : g[i] = f[i]
  BY <1>2
<1>. HIDE DEF g
<1>7. g \in [0..M -> Resolved]
  <2>1. \A i \in 0..N : g[i] \in Resolved
    BY <1>1, <1>6
  <2>2. \A k \in 0..Len(q) : SubSeq(q, 1, k) \in Plain
    BY <1>2, PlainPiece
  <2>3. \A k \in 0..Len(q) : g[N + k] \in Resolved
    BY <2>2, <1>4, <1>5, BelowType
  <2>4. \A i \in 0..M : g[i] \in Resolved
    <3>. SUFFICES ASSUME NEW i \in 0..M, i > N PROVE g[i] \in Resolved
      BY <2>1, <1>2
    <3>1. i - N \in 0..Len(q) /\ i = N + (i - N)
      BY <1>2
    <3>. QED  BY <3>1, <2>3
  <2>. QED  BY <2>4 DEF g
<1>8. \A i \in 1..M : g[i] = Enter(g[i - 1], (p \o q)[i])
  <2>. SUFFICES ASSUME NEW i \in 1..M
                PROVE  g[i] = Enter(g[i - 1], (p \o q)[i])
    OBVIOUS
  <2>1. CASE i <= N
    BY <2>1, <1>1, <1>2, <1>3, <1>6
  <2>2. CASE i > N
    <3>. DEFINE k == i - N
    <3>1. k \in 1..Len(q) /\ i = N + k /\ k - 1 \in 0..Len(q)
      BY <2>2, <1>2
    <3>. HIDE DEF k
    <3>2. g[i] = f[N] \o SubSeq(q, 1, k)
      <4>1. k \in 0..Len(q)
        BY <3>1, <1>2
      <4>2. g[N + k] = f[N] \o SubSeq(q, 1, k)
        BY <4>1, <1>5
      <4>. QED  BY <3>1, <4>2
    <3>3. i - 1 = N + (k - 1)
      BY <3>1, <1>2
    <3>4. g[i - 1] = f[N] \o SubSeq(q, 1, k - 1)
      BY <3>1, <3>3, <1>5
    <3>5. q[k] # Slash /\ q[k] # Up /\ (p \o q)[i] = q[k]
      BY <3>1, <1>3, PlainMeans
    <3>6. Enter(g[i - 1], (p \o q)[i]) = Append(g[i - 1], q[k])
      BY <3>5 DEF Enter
    <3>7. Append(f[N] \o SubSeq(q, 1, k - 1), q[k]) = f[N] \o SubSeq(q, 1, k)
      BY <3>1, <1>2, <1>4, OneFurther
    <3>. QED  BY <3>2, <3>4, <3>6, <3>7
  <2>. QED  BY <2>1, <2>2, <1>2
<1>9. g[0] = Cwd /\ g[M] = f[N] \o SubSeq(q, 1, Len(q))
  BY <1>1, <1>2, <1>5, <1>6
<1>10. Resolve(p \o q) = g[M]
  BY <1>2, <1>7, <1>8, <1>9, ResolveIs
<1>11. SubSeq(q, 1, Len(q)) = q
  BY <1>2
<1>. QED  BY <1>1, <1>9, <1>10, <1>11

\* A relative path that only goes down is one below the current directory.
LEMMA ResolvePlain ==
    ASSUME NEW q \in Plain
    PROVE  Resolve(q) = Cwd \o q
<1>1. <<>> \in Seq(Name) /\ <<>> \o q = q
  BY PlainMeans
<1>2. PICK f \in [0..Len(<<>>) -> Resolved] : f[0] = Cwd /\ Resolve(<<>>) = f[Len(<<>>)]
  BY <1>1, ResolveUnfolds
<1>3. Resolve(<<>>) = Cwd
  BY <1>2
<1>. QED  BY <1>1, <1>3, ResolveBelow

\* A resolved path stays as it is.
LEMMA ResolveAgain ==
    ASSUME NEW p \in Resolved
    PROVE  Resolve(p) = p /\ Tail(p) \in Plain /\ p = RootDir \o Tail(p)
<1>1. /\ p \in Seq(Name) /\ Len(p) > 0 /\ p[1] = Slash
      /\ \A i \in 2..Len(p) : p[i] # Slash /\ p[i] # Up
  BY ResolvedMeans
<1>2. /\ Tail(p) \in Seq(Name) /\ Len(Tail(p)) = Len(p) - 1
      /\ \A i \in 1..Len(Tail(p)) : Tail(p)[i] = p[i + 1]
  BY <1>1
<1>3. Tail(p) \in Plain
  <2>1. \A i \in 1..Len(Tail(p)) : Tail(p)[i] # Slash /\ Tail(p)[i] # Up
    BY <1>1, <1>2
  <2>. QED  BY <1>2, <2>1, PlainIf
<1>4. RootDir \in Seq(Name) /\ Len(RootDir) = 1 /\ RootDir[1] = Slash
  BY NameFacts DEF RootDir
<1>5. p = RootDir \o Tail(p)
  <2>. DEFINE t == Tail(p)
              r == RootDir \o t
  <2>1. /\ r \in Seq(Name) /\ Len(r) = 1 + Len(t)
        /\ r[1] = Slash /\ \A i \in 1..Len(t) : r[1 + i] = t[i]
    <3>1. 1 \in 1..Len(RootDir)
      BY <1>4
    <3>. HIDE DEF t
    <3>2. t \in Seq(Name)
      BY <1>2 DEF t
    <3>. QED  BY <3>1, <3>2, <1>4, JoinedNames
  <2>2. Len(t) = Len(p) - 1 /\ \A i \in 1..Len(t) : t[i] = p[1 + i]
    BY <1>2
  <2>. HIDE DEF t, r
  <2>3. \A i \in 1..Len(p) : r[i] = p[i]
    <3>. SUFFICES ASSUME NEW i \in 1..Len(p) PROVE r[i] = p[i]
      OBVIOUS
    <3>1. CASE i = 1
      BY <3>1, <1>1, <2>1
    <3>2. CASE i > 1
      <4>1. i - 1 \in 1..Len(t) /\ 1 + (i - 1) = i
        BY <3>2, <1>1, <2>2
      <4>. QED  BY <4>1, <2>1, <2>2
    <3>. QED  BY <3>1, <3>2
  <2>4. r = p
    BY <1>1, <2>1, <2>2, <2>3
  <2>. QED  BY <2>4 DEF r, t
<1>6. Resolve(RootDir) = RootDir
  <2>1. PICK f \in [0..1 -> Resolved] :
          f[1] = Enter(f[0], RootDir[1]) /\ Resolve(RootDir) = f[1]
    BY <1>4, ResolveUnfolds
  <2>. QED  BY <2>1, <1>4, NameFacts DEF Enter
<1>. QED  BY <1>3, <1>4, <1>5, <1>6, ResolveBelow

\* Two paths that begin alike
LEMMA SameStart ==
    ASSUME NEW S, NEW s \in Seq(S), NEW t \in Seq(S),
           NEW n \in 0..Len(s), n \in 0..Len(t), \A i \in 1..n : s[i] = t[i]
    PROVE  SubSeq(s, 1, n) = SubSeq(t, 1, n)
<1>. DEFINE a == SubSeq(s, 1, n)
            b == SubSeq(t, 1, n)
<1>1. a \in Seq(S) /\ Len(a) = n /\ \A i \in 1..n : a[i] = s[i]
  OBVIOUS
<1>2. b \in Seq(S) /\ Len(b) = n /\ \A i \in 1..n : b[i] = t[i]
  OBVIOUS
<1>. HIDE DEF a, b
<1>3. a = b
  BY <1>1, <1>2
<1>. QED  BY <1>3 DEF a, b

----------------------------------------------------------------------------
(* The names of a file *)

\* A path is plain, or it is replaced by an absolute one.
LEMMA PathKinds ==
    /\ Plain \subseteq Paths /\ Resolved \subseteq Paths /\ Paths \subseteq Seq(Name)
    /\ \A p \in Paths : UseAbsolutePath(p) \/ p \in Plain
    /\ \A p \in Resolved : UseAbsolutePath(p)
<1>1. Plain \subseteq Paths /\ Resolved \subseteq Paths /\ Paths \subseteq Seq(Name)
  BY DEF Plain, Resolved, Paths
<1>2. ASSUME NEW p \in Paths, ~UseAbsolutePath(p) PROVE p \in Plain
  <2>1. \A i \in DOMAIN p : p[i] # Up
    <3>1. Contains(Spelling(Up), Up)
      <4>1. 1 \in DOMAIN <<Up>> /\ <<Up>>[1] = Up
        OBVIOUS
      <4>. QED  BY <4>1, PathAssumption DEF Contains
    <3>. QED  BY <1>2, <3>1 DEF UseAbsolutePath
  <2>. QED  BY <1>2, <2>1 DEF UseAbsolutePath, Plain, Contains
<1>. QED  BY <1>1, <1>2 DEF Resolved, UseAbsolutePath

\* A file is the same under its own name and under that which it is given, and
\* in the archive it is below the working directory.
LEMMA NamesOfOne ==
    ASSUME NEW p \in Paths
    PROVE  /\ HostFile(p) \in Paths /\ Resolve(HostFile(p)) = Resolve(p)
           /\ ArchiveName(p) \in Plain
           /\ HostFile(p) # p => HostFile(p) \in Resolved
<1>1. Resolve(p) \in Resolved
  BY PathKinds, ResolveType
<1>2. Resolve(Resolve(p)) = Resolve(p) /\ Tail(Resolve(p)) \in Plain
  BY <1>1, ResolveAgain
<1>. QED  BY <1>1, <1>2, PathKinds DEF HostFile, ArchiveName

\* Parents are paths of the same kind.
LEMMA ParentsType ==
    ASSUME NEW p \in Seq(Name), NEW q \in Parents(p)
    PROVE  /\ q \in Seq(Name) /\ Len(q) \in 1..(Len(p) - 1)
           /\ \A i \in 1..Len(q) : q[i] = p[i]
           /\ p \in Plain => q \in Plain
           /\ p \in Resolved => q \in Resolved
           /\ p \in Paths => q \in Paths
           /\ ~UseAbsolutePath(p) => ~UseAbsolutePath(q)
<1>1. PICK n \in 1..(Len(p) - 1) : q = SubSeq(p, 1, n)
  BY DEF Parents
<1>2. /\ q \in Seq(Name) /\ Len(q) = n
      /\ \A i \in 1..n : q[i] = p[i]
  BY <1>1
<1>3. p \in Plain => q \in Plain
  BY <1>2, PlainMeans, PlainIf
<1>4. p \in Resolved => q \in Resolved
  <2>. SUFFICES ASSUME p \in Resolved PROVE q \in Resolved
    OBVIOUS
  <2>1. p[1] = Slash /\ \A i \in 2..Len(p) : p[i] # Slash /\ p[i] # Up
    BY ResolvedMeans
  <2>2. Len(q) > 0 /\ q[1] = Slash
    BY <1>2, <2>1
  <2>3. \A i \in 2..Len(q) : q[i] # Slash /\ q[i] # Up
    BY <1>2, <2>1
  <2>. QED  BY <1>2, <2>2, <2>3, ResolvedIf
<1>5. p \in Paths => q \in Paths
  BY <1>2 DEF Paths
<1>6. ~UseAbsolutePath(p) => ~UseAbsolutePath(q)
  <2>1. q # <<>> => Len(q) > 0
    BY <1>2
  <2>2. p # <<>>
    BY <1>1
  <2>. QED  BY <1>2, <2>1, <2>2 DEF UseAbsolutePath, IsAbsolute
<1>. QED  BY <1>2, <1>3, <1>4, <1>5, <1>6

\* A tree has all directories that lead to its files.
LEMMA TreeHas ==
    ASSUME IsTree(host), NEW dir \in Resolved, NEW s \in Plain, s # <<>>,
           dir \o s \in DOMAIN host
    PROVE  dir \in DOMAIN host /\ host[dir].kind = "dir"
<1>1. /\ dir \in Seq(Name) /\ Len(dir) > 0 /\ s \in Seq(Name) /\ Len(s) > 0
  BY ResolvedMeans, PlainMeans
<1>2. /\ Len(dir \o s) = Len(dir) + Len(s) /\ dir \o s \in Seq(Name)
      /\ \A i \in 1..Len(dir) : (dir \o s)[i] = dir[i]
  BY <1>1, JoinedNames
<1>3. SubSeq(dir \o s, 1, Len(dir)) = dir
  <2>. DEFINE r == dir \o s
  <2>. HIDE DEF r
  <2>1. /\ r \in Seq(Name) /\ Len(dir) <= Len(r)
        /\ \A i \in 1..Len(dir) : r[i] = dir[i]
    BY <1>1, <1>2 DEF r
  <2>2. SubSeq(r, 1, Len(dir)) = dir
    BY <1>1, <2>1
  <2>. QED  BY <2>2 DEF r
<1>4. dir \in Parents(dir \o s)
  <2>1. Len(dir) \in 1..(Len(dir \o s) - 1)
    BY <1>1, <1>2
  <2>. QED  BY <1>3, <2>1 DEF Parents
<1>. QED  BY <1>4 DEF IsTree

\* What is inside of a path is there, and below it.
LEMMA InsideMeans ==
    ASSUME NEW p \in Seq(Name), NEW f \in Inside(p), DOMAIN host \subseteq Resolved
    PROVE  \E s \in Plain : /\ s # <<>> /\ f = p \o s
                            /\ Resolve(f) = Resolve(p) \o s
                            /\ Resolve(f) \in DOMAIN host
<1>. DEFINE there == Resolve(p)
<1>1. PICK h \in DOMAIN host :
        IsStrictPrefix(there, h) /\ f = p \o SubSeq(h, Len(there) + 1, Len(h))
  BY DEF Inside
<1>. DEFINE s == SubSeq(h, Len(there) + 1, Len(h))
<1>2. /\ there \in Seq(Name) /\ Len(there) > 0
      /\ h \in Seq(Name) /\ \A i \in 2..Len(h) : h[i] # Slash /\ h[i] # Up
  <2>1. there \in Resolved
    BY ResolveType
  <2>. HIDE DEF there
  <2>. QED  BY <2>1, <1>1, ResolvedMeans
<1>3. /\ Len(there) <= Len(h) /\ h # there
      /\ SubSeq(there, 1, Len(there)) = SubSeq(h, 1, Len(there))
  BY <1>1 DEF IsStrictPrefix, IsPrefix
<1>. HIDE DEF there
<1>4. /\ s \in Seq(Name) /\ Len(s) = Len(h) - Len(there)
      /\ \A i \in 1..Len(s) : s[i] = h[Len(there) + i]
  BY <1>2, <1>3
<1>5. \A i \in 1..Len(there) : h[i] = there[i]
  <2>. SUFFICES ASSUME NEW i \in 1..Len(there) PROVE h[i] = there[i]
    OBVIOUS
  <2>1. SubSeq(there, 1, Len(there))[i] = there[i]
    BY <1>2
  <2>2. SubSeq(h, 1, Len(there))[i] = h[i]
    BY <1>2, <1>3
  <2>. QED  BY <2>1, <2>2, <1>3
<1>. HIDE DEF s
<1>6. h = there \o s
  <2>. DEFINE r == there \o s
  <2>1. /\ r \in Seq(Name) /\ Len(r) = Len(h)
        /\ \A i \in 1..Len(there) : r[i] = there[i]
        /\ \A i \in 1..Len(s) : r[Len(there) + i] = s[i]
    BY <1>2, <1>4, JoinedNames
  <2>. HIDE DEF r
  <2>2. Len(there) \in Nat /\ Len(h) \in Nat
    BY <1>2
  <2>3. ASSUME NEW i \in 1..Len(h), i <= Len(there) PROVE r[i] = h[i]
    BY <2>3, <1>5, <2>1, <2>2
  <2>4. ASSUME NEW i \in 1..Len(h), i > Len(there) PROVE r[i] = h[i]
    <3>1. i - Len(there) \in 1..Len(s) /\ Len(there) + (i - Len(there)) = i
      BY <2>4, <2>2, <1>4
    <3>. QED  BY <3>1, <1>4, <2>1
  <2>5. \A i \in 1..Len(h) : r[i] = h[i]
    BY <2>2, <2>3, <2>4
  <2>6. r = h
    BY <1>2, <2>1, <2>5
  <2>. QED  BY <2>6 DEF r
<1>7. s # <<>>
  <2>1. there \o <<>> = there
    BY <1>2
  <2>. QED  BY <2>1, <1>3, <1>6
<1>8. s \in Plain
  <2>1. \A i \in 1..Len(s) : Len(there) + i \in 2..Len(h)
    BY <1>2, <1>4
  <2>2. \A i \in 1..Len(s) : s[i] # Slash /\ s[i] # Up
    BY <1>2, <1>4, <2>1
  <2>. QED  BY <1>4, <2>2, PlainIf
<1>9. f = p \o s /\ Resolve(f) = there \o s
  BY <1>1, <1>8, ResolveBelow DEF s, there
<1>. QED  BY <1>1, <1>6, <1>7, <1>8, <1>9 DEF there

\* What is inside of a directory is there.
LEMMA InsideThere ==
    ASSUME IsTree(host), NEW p \in Paths, Exists(p), NEW f \in Inside(p)
    PROVE  f \in Paths /\ Exists(f) /\ IsDir(p)
<1>1. p \in Seq(Name) /\ DOMAIN host \subseteq Resolved
  BY PathKinds DEF IsTree
<1>2. PICK s \in Plain : /\ s # <<>> /\ f = p \o s
                        /\ Resolve(f) = Resolve(p) \o s
                        /\ Resolve(f) \in DOMAIN host
  BY <1>1, InsideMeans
<1>3. s \in Seq(Name) /\ Len(s) > 0 /\ \A i \in 1..Len(s) : s[i] # Slash /\ s[i] # Up
  BY <1>2, PlainMeans
<1>4. /\ f \in Seq(Name) /\ Len(f) = Len(p) + Len(s)
      /\ \A i \in 1..Len(p) : f[i] = p[i]
      /\ \A i \in 1..Len(s) : f[Len(p) + i] = s[i]
  BY <1>1, <1>2, <1>3, JoinedNames
<1>5. ASSUME NEW i \in 1..Len(f), i > Len(p) PROVE f[i] # Slash /\ f[i] # Up
  <2>1. i - Len(p) \in 1..Len(s) /\ Len(p) + (i - Len(p)) = i
    BY <1>1, <1>3, <1>4, <1>5
  <2>. QED  BY <2>1, <1>3, <1>4
<1>6. f \in Paths
  <2>1. ASSUME NEW i \in 2..Len(f) PROVE f[i] # Slash
    <3>1. CASE i <= Len(p)
      BY <3>1, <1>1, <1>4 DEF Paths
    <3>2. CASE i > Len(p)
      BY <3>2, <1>1, <1>4, <1>5
    <3>. QED  BY <3>1, <3>2, <1>1
  <2>. QED  BY <1>4, <2>1 DEF Paths
<1>7. DirThere(p)
  <2>1. Resolve(p) \in Resolved
    BY <1>1, ResolveType
  <2>. QED  BY <2>1, <1>2, TreeHas DEF DirThere
<1>8. ASSUME NEW q \in Parents(f) PROVE DirThere(q)
  <2>1. PICK n \in 1..(Len(f) - 1) : q = SubSeq(f, 1, n)
    BY DEF Parents
  <2>2. CASE n < Len(p)
    <3>1. SubSeq(f, 1, n) = SubSeq(p, 1, n)
      BY <2>2, <1>1, <1>4
    <3>2. n \in 1..(Len(p) - 1)
      BY <2>2, <1>1
    <3>3. q \in Parents(p)
      BY <2>1, <3>1, <3>2 DEF Parents
    <3>. QED  BY <3>3 DEF Exists
  <2>3. CASE n >= Len(p)
    <3>. DEFINE k == n - Len(p)
                a == SubSeq(s, 1, k)
                b == SubSeq(s, k + 1, Len(s))
    <3>1. k \in 0..(Len(s) - 1) /\ n = Len(p) + k
      BY <2>1, <2>3, <1>1, <1>3, <1>4
    <3>. HIDE DEF k
    <3>2. /\ a \in Seq(Name) /\ Len(a) = k /\ \A i \in 1..k : a[i] = s[i]
          /\ b \in Seq(Name) /\ Len(b) = Len(s) - k /\ a \o b = s
      <4>1. a \in Seq(Name) /\ Len(a) = k /\ \A i \in 1..k : a[i] = s[i]
        BY <3>1, <1>3
      <4>2. /\ b \in Seq(Name) /\ Len(b) = Len(s) - k
            /\ \A i \in 1..(Len(s) - k) : b[i] = s[k + i]
        BY <3>1, <1>3
      <4>. DEFINE r == a \o b
      <4>. HIDE DEF a, b
      <4>3. /\ r \in Seq(Name) /\ Len(r) = Len(s)
            /\ \A i \in 1..k : r[i] = s[i]
            /\ \A i \in 1..(Len(s) - k) : r[k + i] = s[k + i]
        <5>1. /\ r \in Seq(Name) /\ Len(r) = Len(a) + Len(b)
              /\ \A i \in 1..Len(a) : r[i] = a[i]
              /\ \A i \in 1..Len(b) : r[Len(a) + i] = b[i]
          BY <4>1, <4>2, JoinedNames
        <5>. HIDE DEF r
        <5>2. k + (Len(s) - k) = Len(s)
          BY <3>1, <1>3
        <5>. QED  BY <4>1, <4>2, <5>1, <5>2
      <4>. HIDE DEF r
      <4>4. ASSUME NEW i \in 1..Len(s) PROVE r[i] = s[i]
        <5>1. i \in 1..k \/ (i - k \in 1..(Len(s) - k) /\ i = k + (i - k))
          BY <3>1, <1>3
        <5>. QED  BY <5>1, <4>3
      <4>5. r = s
        BY <4>3, <4>4, <1>3
      <4>. QED  BY <4>1, <4>2, <4>5 DEF r
    <3>3. a \in Plain /\ b \in Plain
      BY <3>1, <1>3, PlainPiece
    <3>. HIDE DEF a, b
    <3>4. b # <<>>
      BY <3>1, <3>2, <1>3
    <3>5. q = p \o a
      <4>. DEFINE r == p \o a
      <4>1. /\ r \in Seq(Name) /\ Len(r) = n
            /\ \A i \in 1..Len(p) : r[i] = p[i]
            /\ \A i \in 1..k : r[Len(p) + i] = a[i]
        BY <3>1, <3>2, <1>1, JoinedNames
      <4>. HIDE DEF r
      <4>2. q \in Seq(Name) /\ Len(q) = n /\ \A i \in 1..n : q[i] = f[i]
        BY <2>1, <1>4
      <4>3. ASSUME NEW i \in 1..n, i > Len(p) PROVE q[i] = r[i]
        <5>1. i - Len(p) \in 1..k /\ Len(p) + (i - Len(p)) = i /\ k <= Len(s)
          BY <4>3, <3>1, <1>1, <1>3
        <5>. DEFINE j == i - Len(p)
        <5>2. j \in 1..k /\ j \in 1..Len(s) /\ Len(p) + j = i
          BY <5>1, <3>1, <1>1, <1>3
        <5>. HIDE DEF j
        <5>3. r[i] = s[j]
          BY <5>2, <3>2, <4>1
        <5>4. q[i] = s[j]
          BY <5>2, <4>2, <1>4
        <5>. QED  BY <5>3, <5>4
      <4>4. ASSUME NEW i \in 1..n, i <= Len(p) PROVE q[i] = r[i]
        BY <4>4, <4>1, <4>2, <1>1, <1>4
      <4>5. \A i \in 1..n : q[i] = r[i]
        BY <4>3, <4>4, <1>1
      <4>6. q = r
        BY <4>1, <4>2, <4>5
      <4>. QED  BY <4>6 DEF r
    <3>6. Resolve(q) = Resolve(p) \o a
      BY <3>3, <3>5, <1>1, ResolveBelow
    <3>7. Resolve(p) \in Resolved
      BY <1>1, ResolveType
    <3>8. Resolve(q) \in Resolved
      BY <3>3, <3>6, <3>7, BelowType
    <3>9. (Resolve(p) \o a) \o b = Resolve(p) \o (a \o b)
      <4>1. Resolve(p) \in Seq(Name)
        BY <3>7, ResolvedMeans
      <4>. QED  BY <4>1, <3>2, JoinedAgain
    <3>10. Resolve(q) \o b \in DOMAIN host
      BY <3>2, <3>6, <3>9, <1>2
    <3>. QED  BY <3>3, <3>4, <3>8, <3>10, TreeHas DEF DirThere
  <2>. QED  BY <2>1, <2>2, <2>3, <1>1
<1>9. Exists(f)
  BY <1>2, <1>8 DEF Exists
<1>. QED  BY <1>6, <1>7, <1>9 DEF IsDir

\* A path that is there is there under the name under which it is listed.
LEMMA HostFileThere ==
    ASSUME IsTree(host), NEW p \in Paths, Exists(p)
    PROVE  Exists(HostFile(p))
<1>1. CASE HostFile(p) = p
  BY <1>1
<1>2. CASE HostFile(p) # p
  <2>. DEFINE h == HostFile(p)
  <2>1. h \in Resolved /\ h \in Seq(Name) /\ Resolve(h) \in DOMAIN host
    BY <1>2, NamesOfOne, ResolvedMeans DEF Exists
  <2>. HIDE DEF h
  <2>2. Resolve(h) = h
    BY <2>1, ResolveAgain
  <2>3. ASSUME NEW q \in Parents(h) PROVE DirThere(q)
    <3>1. q \in DOMAIN host /\ host[q].kind = "dir"
      BY <2>1, <2>2 DEF IsTree
    <3>2. Resolve(q) = q
      BY <2>1, ParentsType, ResolveAgain
    <3>. QED  BY <3>1, <3>2 DEF DirThere
  <2>. QED  BY <2>1, <2>3 DEF Exists, h
<1>. QED  BY <1>1, <1>2

----------------------------------------------------------------------------
(* The files that are listed *)

\* What a part means is there.
LEMMA MeantThere ==
    ASSUME IsTree(host), NEW p \in Paths
    PROVE  Meant(p) \subseteq Paths /\ \A f \in Meant(p) : Exists(f)
<1>1. CASE Exists(p)
  BY <1>1, NamesOfOne, HostFileThere, InsideThere DEF Meant
<1>2. CASE ~Exists(p)
  BY <1>2 DEF Meant
<1>. QED  BY <1>1, <1>2

\* What one part adds: the files that it means, or itself as a place to write.
LEMMA ListPartMeans ==
    ASSUME IsTree(host), NEW files, NEW p \in Paths
    PROVE  /\ Exists(p) => ListPart(files, p) = files \cup Meant(p)
           /\ ~Exists(p) => Meant(p) = {}
           /\ ~Exists(p) /\ ParentThere(p, files) => ListPart(files, p) = files \cup {p}
           /\ ~Exists(p) /\ ~ParentThere(p, files) => ListPart(files, p) = files
<1>1. CASE Exists(p)
  <2>1. CASE p = RootDir
    BY <1>1, <2>1 DEF ListPart, FileExists, Meant
  <2>2. CASE p # RootDir
    <3>1. ListPart(files, p) = Listed(files, p)
      BY <1>1, <2>2 DEF ListPart, FileExists
    <3>2. ~IsDir(p) => Inside(p) = {}
      BY <1>1, InsideThere
    <3>. QED  BY <1>1, <2>2, <3>1, <3>2 DEF Listed, Meant
  <2>. QED  BY <2>1, <2>2
<1>2. CASE ~Exists(p)
  <2>1. CASE ParentThere(p, files)
    <3>1. ListPart(files, p) = Listed(files, p) /\ HostFile(p) = p
      BY <1>2, <2>1 DEF ListPart, FileExists, ParentThere, HostFile
    <3>. QED  BY <1>2, <2>1, <3>1 DEF Listed, IsDir, Meant
  <2>2. CASE ~ParentThere(p, files)
    BY <1>2, <2>2 DEF ListPart, FileExists, Meant
  <2>. QED  BY <2>1, <2>2
<1>. QED  BY <1>1, <1>2

\* One part more.
LEMMA ListsOne ==
    ASSUME IsTree(host), NEW files, NEW parts, NEW p \in Paths,
           Lists(files, parts), files \subseteq Paths
    PROVE  /\ Lists(ListPart(files, p), parts \cup {p})
           /\ ListPart(files, p) \subseteq Paths
<1>. DEFINE new == ListPart(files, p)
            more == parts \cup {p}
<1>1. /\ files \subseteq new /\ new \subseteq files \cup Meant(p) \cup {p}
      /\ Meant(p) \subseteq new
      /\ \A f \in new : f \in files \/ f \in Meant(p) \/ (f = p /\ ~Exists(p))
  BY ListPartMeans
<1>2. ~Exists(p) => p \in new \/ ~ParentThere(p, files)
  BY ListPartMeans
<1>. HIDE DEF new
<1>3. new \subseteq Paths
  BY <1>1, MeantThere
<1>4. outDirs \subseteq new
  BY <1>1 DEF Lists
<1>5. FilesOf(new) = FilesOf(outDirs \cup UNION {Meant(r) : r \in more})
  <2>1. FilesOf(files) = FilesOf(outDirs \cup UNION {Meant(r) : r \in parts})
    BY DEF Lists
  <2>2. FilesOf(new) = FilesOf(files) \cup FilesOf(Meant(p))
    BY <1>1 DEF FilesOf
  <2>3. FilesOf(outDirs \cup UNION {Meant(r) : r \in more}) =
        FilesOf(outDirs \cup UNION {Meant(r) : r \in parts}) \cup FilesOf(Meant(p))
    BY DEF FilesOf
  <2>. QED  BY <2>1, <2>2, <2>3
<1>6. \A f \in new : Exists(f) \/ f \in outDirs \cup more
  BY <1>1, MeantThere DEF Lists
<1>8. ASSUME NEW r \in more, ~UseAbsolutePath(r), ~Exists(r)
      PROVE  r \in new \/ \A q \in Parents(r) : IsDir(q) => q \in new
  <2>1. CASE r \in parts
    BY <1>8, <2>1, <1>1 DEF Lists
  <2>2. CASE r = p
    BY <1>8, <2>2, <1>1, <1>2 DEF ParentThere
  <2>. QED  BY <2>1, <2>2
<1>9. Lists(new, more)
  <2>. HIDE DEF more
  <2>. QED  BY <1>4, <1>5, <1>6, <1>8 DEF Lists
<1>. QED  BY <1>3, <1>9 DEF new

\* The parts of an argument, one after the other.
LEMMA ListsAll ==
    ASSUME IsTree(host), NEW base \in SUBSET Paths, NEW parts,
           NEW arg \in Seq(Paths), Lists(base, parts),
           NEW d, d = CHOOSE f : f = [n \in 0..Len(arg) |->
                                        IF n = 0 THEN base
                                        ELSE ListPart(f[n - 1], arg[n])]
    PROVE  /\ d[Len(arg)] \subseteq Paths
           /\ Lists(d[Len(arg)], parts \cup {arg[j] : j \in 1..Len(arg)})
<1>. DEFINE N == Len(arg)
            D == SUBSET Paths
            step == [n \in 1..N |-> [files \in D |-> ListPart(files, arg[n])]]
            Def(f) == [n \in 0..N |-> IF n = 0 THEN base
                                      ELSE ListPart(f[n - 1], arg[n])]
            S == {n \in 0..N :
                    /\ d[n] \subseteq Paths
                    /\ Lists(d[n], parts \cup {arg[j] : j \in 1..n})}
<1>1. N \in Nat /\ base \in D /\ \A n \in 1..N : arg[n] \in Paths
  OBVIOUS
<1>2. ASSUME NEW n \in 1..N, NEW files \in D PROVE ListPart(files, arg[n]) \in D
  BY <1>1, ListPartMeans, MeantThere
<1>3. step \in [1..N -> [D -> D]]
  BY <1>2
<1>4. PICK g : Iterates(g, N, D, base, step)
  <2>. HIDE DEF N, D, step
  <2>. QED  BY <1>1, <1>3, Iterated
<1>5. g = Def(g)
  <2>1. g \in [0..N -> D] /\ g[0] = base
    BY <1>4 DEF Iterates
  <2>2. ASSUME NEW n \in 1..N PROVE g[n] = ListPart(g[n - 1], arg[n])
    <3>1. g[n - 1] \in D
      BY <1>1, <2>1
    <3>. QED  BY <1>4, <3>1 DEF Iterates
  <2>. HIDE DEF N, D
  <2>. QED  BY <1>1, <2>1, <2>2
<1>6. d = Def(d)
  <2>1. d = CHOOSE f : f = Def(f)
    OBVIOUS
  <2>. HIDE DEF Def
  <2>. QED  BY <1>5, <2>1
<1>7. \A n \in 0..N : d[n] = IF n = 0 THEN base ELSE ListPart(d[n - 1], arg[n])
  <2>1. \A n \in 0..N : d[n] = Def(d)[n]
    BY <1>6
  <2>. QED  BY <2>1
<1>8. 0 \in S
  <2>1. d[0] = base
    BY <1>1, <1>7
  <2>2. parts \cup {arg[j] : j \in 1..0} = parts
    OBVIOUS
  <2>3. d[0] \subseteq Paths /\ Lists(d[0], parts \cup {arg[j] : j \in 1..0})
    BY <2>1, <2>2
  <2>4. 0 \in 0..N
    BY <1>1
  <2>. QED  BY <2>3, <2>4
<1>9. ASSUME NEW n \in 0..(N - 1), n \in S PROVE n + 1 \in S
  <2>1. /\ n + 1 \in 1..N /\ arg[n + 1] \in Paths
        /\ d[n + 1] = ListPart(d[n], arg[n + 1])
    <3>1. n + 1 \in 1..N /\ n + 1 \in 0..N /\ n + 1 # 0 /\ (n + 1) - 1 = n
      BY <1>1
    <3>. QED  BY <3>1, <1>1, <1>7
  <2>. DEFINE old == parts \cup {arg[j] : j \in 1..n}
  <2>2. parts \cup {arg[j] : j \in 1..(n + 1)} = old \cup {arg[n + 1]}
    BY <1>1
  <2>3. d[n] \subseteq Paths /\ Lists(d[n], old)
    BY <1>9
  <2>. DEFINE files == d[n]
              p == arg[n + 1]
              new == ListPart(files, p)
  <2>4. p \in Paths /\ files \subseteq Paths /\ Lists(files, old)
    BY <2>1, <2>3
  <2>5. new \subseteq Paths /\ Lists(new, old \cup {p})
    <3>. HIDE DEF old, files, p
    <3>. QED  BY <2>4, ListsOne
  <2>6. d[n + 1] = new
    BY <2>1
  <2>7. d[n + 1] \subseteq Paths
        /\ Lists(d[n + 1], parts \cup {arg[j] : j \in 1..(n + 1)})
    <3>. HIDE DEF new
    <3>. QED  BY <2>2, <2>5, <2>6
  <2>8. n + 1 \in 0..N
    BY <1>1
  <2>. HIDE DEF old, new
  <2>. QED  BY <2>7, <2>8
<1>10. N \in S
  <2>1. \A n \in 0..(N - 1) : n \in S => n + 1 \in S
    BY <1>9
  <2>. HIDE DEF S, N
  <2>2. 0..N \subseteq S
    BY <1>1, <1>8, <2>1, Upwards
  <2>. QED  BY <1>1, <2>2
<1>. QED  BY <1>10

\* What is listed stays so when only the phase and the uploads change.
LEMMA SameLists ==
    ASSUME host' = host, outDirs' = outDirs, Lists(hostFiles', Done')
    PROVE  Lists(hostFiles, Done)'
<1>1. \A p : DirThere(p)' <=> DirThere(p)
  BY DEF DirThere
<1>2. \A p : Exists(p)' <=> Exists(p)
  BY <1>1 DEF Exists
<1>3. \A p : IsDir(p)' <=> IsDir(p)
  BY <1>1, <1>2 DEF IsDir
<1>4. \A p : Inside(p)' = Inside(p)
  BY DEF Inside
<1>5. \A p : Meant(p)' = Meant(p)
  BY <1>2, <1>4 DEF Meant
<1>. DEFINE files == hostFiles'
            parts == Done'
<1>7. /\ outDirs \subseteq files
      /\ FilesOf(files) = FilesOf(outDirs \cup UNION {Meant(p) : p \in parts})
      /\ \A f \in files : Exists(f) \/ f \in outDirs \cup parts
      /\ \A p \in parts : ~UseAbsolutePath(p) /\ ~Exists(p) =>
            p \in files \/ \A q \in Parents(p) : IsDir(q) => q \in files
  BY DEF Lists
<1>8. (\A p \in Done : ~UseAbsolutePath(p) /\ ~Exists(p) =>
          p \in hostFiles \/ \A q \in Parents(p) : IsDir(q) => q \in hostFiles)'
  BY <1>2, <1>3, <1>7
<1>9. (UNION {Meant(p) : p \in Done})' = UNION {Meant(p) : p \in parts}
  BY <1>5
<1>10. (FilesOf(hostFiles) = FilesOf(outDirs \cup UNION {Meant(p) : p \in Done}))'
  <2>1. \A S : {f \in S : Exists(f)' /\ ~IsDir(f)'} = FilesOf(S)
    BY <1>2, <1>3 DEF FilesOf
  <2>. QED  BY <2>1, <1>7, <1>9 DEF FilesOf
<1>11. (\A f \in hostFiles : Exists(f) \/ f \in outDirs \cup Done)'
  BY <1>2, <1>7
<1>. HIDE DEF files, parts
<1>. QED  BY <1>7, <1>8, <1>10, <1>11 DEF Lists, files

----------------------------------------------------------------------------
(* The files that are uploaded *)

\* An absolute path leads through the root.
LEMMA RootFirst ==
    ASSUME NEW p \in Seq(Name), Len(p) > 0, p[1] = Slash
    PROVE  p = RootDir \/ RootDir \in Parents(p)
<1>. DEFINE s == SubSeq(p, 1, 1)
<1>1. s \in Seq(Name) /\ Len(s) = 1 /\ s[1] = Slash
  OBVIOUS
<1>2. RootDir \in Seq(Name) /\ Len(RootDir) = 1 /\ RootDir[1] = Slash
  BY NameFacts DEF RootDir
<1>3. Len(p) = 1 => p = RootDir
  BY <1>2
<1>. HIDE DEF s
<1>4. s = RootDir
  BY <1>1, <1>2
<1>5. Len(p) > 1 => 1 \in 1..(Len(p) - 1)
  OBVIOUS
<1>. QED  BY <1>3, <1>4, <1>5 DEF Parents, s

\* The current directory and the root are there.
LEMMA AlwaysThere ==
    ASSUME IsTree(host)
    PROVE  IsDir(<<>>) /\ Exists(RootDir)
<1>1. <<>> \in Plain
  <2>1. <<>> \in Seq(Name) /\ \A i \in 1..Len(<<>>) : FALSE
    OBVIOUS
  <2>. HIDE DEF Slash, Up
  <2>. QED  BY <2>1, PlainIf
<1>2. Cwd \in Resolved /\ Cwd \in Seq(Name) /\ Len(Cwd) > 0 /\ Cwd[1] = Slash
  BY PathAssumption, ResolvedMeans
<1>3. Resolve(<<>>) = Cwd
  <2>1. Cwd \o <<>> = Cwd
    BY <1>2
  <2>. QED  BY <1>1, <2>1, ResolvePlain
<1>4. Parents(<<>>) = {} /\ Parents(RootDir) = {}
  BY DEF Parents, RootDir
<1>5. RootDir \in DOMAIN host
  <2>1. Cwd = RootDir \/ RootDir \in Parents(Cwd)
    BY <1>2, RootFirst
  <2>. QED  BY <2>1 DEF IsTree
<1>6. Resolve(RootDir) = RootDir
  <2>1. RootDir \in Seq(Name) /\ Len(RootDir) = 1 /\ RootDir[1] = Slash
    BY NameFacts DEF RootDir
  <2>2. RootDir \in Resolved
    BY <2>1, ResolvedIf
  <2>. QED  BY <2>2, ResolveAgain
<1>. QED  BY <1>3, <1>4, <1>5, <1>6 DEF IsTree, IsDir, Exists, DirThere

\* There is a nearest parent that exists.
LEMMA NearestMeans ==
    ASSUME IsTree(host), NEW p \in Paths, ~Exists(p)
    PROVE  /\ Nearest(p) \in ParentsAndCwd(p) /\ Exists(Nearest(p))
           /\ \A r \in ParentsAndCwd(p) : Exists(r) => Len(r) <= Len(Nearest(p))
<1>. DEFINE T == {r \in ParentsAndCwd(p) : Exists(r)}
            U == {Len(p) - Len(r) : r \in T}
<1>1. p \in Seq(Name)
  BY PathKinds
<1>2. \A r \in T : Len(r) \in 0..Len(p)
  <2>1. \A r \in Parents(p) : Len(r) \in 0..Len(p)
    BY <1>1, ParentsType
  <2>2. Len(<<>>) = 0
    OBVIOUS
  <2>. QED  BY <1>1, <2>1, <2>2 DEF ParentsAndCwd
<1>3. T # {}
  <2>1. CASE ~IsAbsolute(p)
    BY <2>1, AlwaysThere DEF ParentsAndCwd, IsDir
  <2>2. CASE IsAbsolute(p)
    <3>1. p # RootDir
      BY AlwaysThere
    <3>2. p[1] = Slash /\ Len(p) > 0
      BY <2>2, <1>1 DEF IsAbsolute
    <3>3. RootDir \in Parents(p)
      BY <3>1, <3>2, <1>1, RootFirst
    <3>. QED  BY <2>2, <3>3, AlwaysThere DEF ParentsAndCwd
  <2>. QED  BY <2>1, <2>2
<1>4. PICK m \in U : \A k \in U : m <= k
  <2>1. U \subseteq Nat /\ U # {}
    BY <1>1, <1>2, <1>3
  <2>. HIDE DEF U
  <2>. QED  BY <2>1, Least
<1>5. PICK q \in T : m = Len(p) - Len(q)
  BY <1>4
<1>6. ASSUME NEW r \in T PROVE Len(r) <= Len(q)
  <2>1. Len(p) - Len(r) \in U
    OBVIOUS
  <2>2. m <= Len(p) - Len(r)
    BY <2>1, <1>4
  <2>3. Len(p) \in Nat /\ Len(r) \in Nat /\ Len(q) \in Nat
    BY <1>1, <1>2
  <2>. QED  BY <2>2, <2>3, <1>5
<1>. QED  BY <1>5, <1>6 DEF Nearest

\* A parent of a path that is not longer than another one leads to it.
LEMMA NearerParent ==
    ASSUME NEW p \in Seq(Name), NEW q \in Parents(p), NEW r \in Parents(p),
           Len(q) <= Len(r)
    PROVE  q = r \/ q \in Parents(r)
<1>1. /\ q \in Seq(Name) /\ Len(q) \in 1..(Len(p) - 1) /\ \A i \in 1..Len(q) : q[i] = p[i]
      /\ r \in Seq(Name) /\ Len(r) \in 1..(Len(p) - 1) /\ \A i \in 1..Len(r) : r[i] = p[i]
  BY ParentsType
<1>2. CASE Len(q) = Len(r)
  BY <1>1, <1>2
<1>3. CASE Len(q) < Len(r)
  <2>. DEFINE s == SubSeq(r, 1, Len(q))
  <2>1. s \in Seq(Name) /\ Len(s) = Len(q) /\ \A i \in 1..Len(q) : s[i] = r[i]
    BY <1>1, <1>3
  <2>. HIDE DEF s
  <2>2. s = q
    BY <1>1, <1>3, <2>1
  <2>3. Len(q) \in 1..(Len(r) - 1)
    BY <1>1, <1>3
  <2>. QED  BY <2>2, <2>3 DEF Parents, s
<1>. QED  BY <1>1, <1>2, <1>3

\* What DetectUploadFiles hands over
Detected(ups, res) ==
    /\ res = {f \in hostFiles : Exists(f) \/ f \in outDirs}
    /\ ups = res \cup ({Nearest(f) : f \in {g \in hostFiles : ~Exists(g)}}
                         \ (res \cup UNION {ParentsAndCwd(f) : f \in res}))

\* The way to what is uploaded leads to the places to write.
LEMMA UploadsLead ==
    ASSUME IsTree(host), hostFiles \subseteq Paths, NEW parts, Lists(hostFiles, parts),
           NEW ups, NEW res, Detected(ups, res),
           \A f \in hostFiles : ~Detour(f),
           NEW p \in parts, p \in Paths, ~UseAbsolutePath(p), ~Exists(p),
           NEW q \in Parents(p), IsDir(q)
    PROVE  \E u \in ups : q = ArchiveName(u) \/ q \in Parents(ArchiveName(u))
<1>0. /\ res = {f \in hostFiles : Exists(f) \/ f \in outDirs}
      /\ ups = res \cup ({Nearest(f) : f \in {g \in hostFiles : ~Exists(g)}}
                           \ (res \cup UNION {ParentsAndCwd(f) : f \in res}))
  BY DEF Detected
<1>1. p \in Seq(Name) /\ p \in Plain /\ q \in Plain /\ Exists(q) /\ ~UseAbsolutePath(q)
  BY PathKinds, ParentsType DEF IsDir
<1>2. CASE q \in hostFiles
  BY <1>0, <1>1, <1>2 DEF ArchiveName
<1>3. CASE p \in hostFiles /\ p \in outDirs
  BY <1>0, <1>3 DEF ArchiveName
<1>4. CASE p \in hostFiles /\ p \notin outDirs
  <2>. DEFINE near == Nearest(p)
  <2>1. /\ near \in ParentsAndCwd(p) /\ Exists(near)
        /\ \A r \in ParentsAndCwd(p) : Exists(r) => Len(r) <= Len(near)
    BY NearestMeans
  <2>2. Len(q) <= Len(near) /\ Len(q) > 0
    BY <1>1, <2>1, ParentsType DEF ParentsAndCwd
  <2>. HIDE DEF near
  <2>3. near \in Parents(p)
    <3>1. Len(<<>>) = 0
      OBVIOUS
    <3>2. near # <<>>
      BY <3>1, <2>2, <1>1, ParentsType
    <3>. QED  BY <3>2, <2>1 DEF ParentsAndCwd
  <2>4. near \in Plain /\ ~UseAbsolutePath(near) /\ near \in Seq(Name) /\ Len(near) > 0
    BY <1>1, <2>3, PathKinds, ParentsType
  <2>5. q = near \/ q \in Parents(near)
    BY <1>1, <2>2, <2>3, NearerParent
  <2>6. CASE near \in ups
    BY <2>4, <2>5, <2>6 DEF ArchiveName
  <2>7. CASE near \notin ups
    <3>1. near \in res \cup UNION {ParentsAndCwd(f) : f \in res}
      BY <1>0, <2>7, <1>4 DEF near
    <3>2. near \notin res
      BY <1>0, <2>7
    <3>3. PICK f \in res : near \in ParentsAndCwd(f)
      BY <3>1, <3>2
    <3>4. near # <<>>
      BY <2>4
    <3>5. near \in Parents(f)
      BY <3>3, <3>4 DEF ParentsAndCwd
    <3>6. f \in Seq(Name) /\ f \in Paths /\ f \in ups
      BY <1>0, <3>3, PathKinds
    <3>7. near[1] = f[1] /\ near[1] # Slash /\ near[1] # Up
      BY <2>4, <3>5, <3>6, ParentsType, PlainMeans
    <3>8. ~UseAbsolutePath(f)
      <4>1. ~Detour(f)
        BY <1>0, <3>3
      <4>. QED  BY <4>1, <3>7 DEF Detour, IsAbsolute
    <3>9. q \in Parents(f)
      <4>1. q = near \/ q \in Parents(near)
        BY <2>5
      <4>2. ASSUME q \in Parents(near) PROVE q \in Parents(f)
        <5>1. PICK n \in 1..(Len(near) - 1) : q = SubSeq(near, 1, n)
          BY <4>2 DEF Parents
        <5>2. /\ near \in Seq(Name) /\ Len(near) \in 1..(Len(f) - 1)
              /\ \A i \in 1..Len(near) : near[i] = f[i]
          BY <3>5, <3>6, ParentsType
        <5>3. Len(f) \in Nat
          BY <3>6
        <5>4. n \in 0..Len(near) /\ n \in 0..Len(f) /\ n \in 1..(Len(f) - 1)
          BY <5>1, <5>2, <5>3
        <5>5. \A i \in 1..n : near[i] = f[i]
          BY <5>1, <5>2
        <5>6. SubSeq(near, 1, n) = SubSeq(f, 1, n)
          <6>. HIDE DEF near
          <6>. QED  BY <5>2, <3>6, <5>4, <5>5, SameStart
        <5>. QED  BY <5>1, <5>4, <5>6 DEF Parents
      <4>. QED  BY <4>1, <4>2, <3>5
    <3>. QED  BY <3>6, <3>8, <3>9 DEF ArchiveName
  <2>. QED  BY <2>6, <2>7
<1>5. p \in hostFiles \/ \A r \in Parents(p) : IsDir(r) => r \in hostFiles
  BY DEF Lists
<1>. QED  BY <1>2, <1>3, <1>4, <1>5

----------------------------------------------------------------------------
(* The archive of the upload *)

\* A name in the archive comes from one of the files with this name, and from
\* one that has it itself, when there is one.
LEMMA SourceMeans ==
    ASSUME NEW n \in Names, NEW elsewhere
    PROVE  LET u == Source(n, elsewhere)
           IN  /\ u \in uploads /\ ArchiveName(u) = n
               /\ UseAbsolutePath(u) => Borrowed(n)
               /\ ~UseAbsolutePath(u) => u = n
<1>. DEFINE Fits(u) == /\ ArchiveName(u) = n
                       /\ n \in Doubled => (UseAbsolutePath(u) <=> n \in elsewhere)
<1>1. \E u \in uploads : Fits(u)
  <2>1. CASE n \in Doubled
    BY <2>1 DEF Doubled
  <2>2. CASE n \notin Doubled
    BY <2>2 DEF Names
  <2>. QED  BY <2>1, <2>2
<1>. DEFINE u == Source(n, elsewhere)
<1>2. u \in uploads /\ ArchiveName(u) = n
  BY <1>1 DEF Source
<1>. QED  BY <1>2 DEF Borrowed, ArchiveName

\* What the archive has.
LEMMA TarHas ==
    ASSUME uploads \subseteq Paths, NEW elsewhere, NEW arc, arc = CreateTar(elsewhere)
    PROVE  /\ DOMAIN arc \subseteq Plain \ {<<>>} /\ <<>> \notin DOMAIN arc
           /\ Names \subseteq Plain
           /\ \A n \in Names : n = <<>> \/ n \in DOMAIN arc
           /\ \A n \in Names : \A q \in Parents(n) : q \in DOMAIN arc
           /\ \A c \in DOMAIN arc :
                 arc[c] = IF c \in Names THEN Entry(c, elsewhere) ELSE Dir
<1>1. Names \subseteq Plain
  BY NamesOfOne DEF Names
<1>2. \A n \in Names : \A q \in Parents(n) : q \in Plain /\ q # <<>>
  <2>. SUFFICES ASSUME NEW n \in Names, NEW q \in Parents(n) PROVE q \in Plain /\ q # <<>>
    OBVIOUS
  <2>1. q \in Plain /\ Len(q) > 0
    BY <1>1, PlainMeans, ParentsType
  <2>. QED  BY <2>1
<1>. QED  BY <1>1, <1>2 DEF CreateTar

----------------------------------------------------------------------------
(* Types *)

\* The types hold in the beginning.
LEMMA InitType ==
    ASSUME Init
    PROVE  TypeOK
<1>1. args \in Seq(Arguments) /\ Len(args) \in Nat
  <2>1. PICK m \in 0..MaxParts : args \in [1..m -> Arguments]
    BY DEF Init, BoundedSeq, SeqOf
  <2>. QED  BY <2>1
<1>2. hostFiles \subseteq Paths /\ uploads \subseteq Paths
  BY TransferAssumption DEF Init, ResolverInit
<1>3. Len(command) = 0 /\ command = [i \in 1..Len(command) |-> command[i]]
  BY DEF Init, ResolverInit
<1>4. /\ DOMAIN cont = {} /\ Len(reading) = 0
      /\ reading = [i \in 1..Len(reading) |-> reading[i]]
  BY DEF Init, ResolverInit, TarInit
<1>5. Len(command) \in 0..Len(args)
  BY <1>1, <1>3
<1>6. 1..Len(reading) = {}
  BY <1>4
<1>. QED  BY <1>1, <1>2, <1>3, <1>4, <1>5, <1>6 DEF Init, ResolverInit, TarInit, TypeOK

\* The argument that is resolved
LEMMA ArgType ==
    ASSUME TypeOK, Len(command) < Len(args)
    PROVE  /\ Len(command) + 1 \in DOMAIN args /\ Arg \in Arguments
           /\ Arg.whole \in Paths /\ Arg.parts \in Seq(Paths)
           /\ \A j \in 1..Len(Arg.parts) : Arg.parts[j] \in Paths
<1>1. Len(command) + 1 \in DOMAIN args /\ Arg \in Arguments
  BY DEF TypeOK, Arg
<1>2. Arg.whole \in Paths /\ Arg.parts \in Seq(Paths)
  BY <1>1, TransferAssumption
<1>3. \A j \in 1..Len(Arg.parts) : Arg.parts[j] \in Paths
  BY <1>2
<1>. QED  BY <1>1, <1>2, <1>3

\* A sequence, of whatever there is in it
IsSeq(s) == Len(s) \in Nat /\ s = [i \in 1..Len(s) |-> s[i]]

\* Every sequence is one.
LEMMA SeqIs ==
    ASSUME NEW C, NEW t \in Seq(C)
    PROVE  IsSeq(t)
BY DEF IsSeq

Grown(t, s, x) == t = Append(s, x)

\* A sequence with one element more
LEMMA OneMore ==
    ASSUME NEW s, IsSeq(s), NEW x, NEW t, Grown(t, s, x)
    PROVE  /\ IsSeq(t) /\ Len(t) = Len(s) + 1 /\ t[Len(s) + 1] = x
           /\ \A i \in 1..Len(s) : t[i] = s[i]
<1>. DEFINE n == Len(s)
            C == {s[i] : i \in 1..n} \cup {x}
<1>1. n \in Nat /\ s = [i \in 1..n |-> s[i]]
  BY DEF IsSeq
<1>2. s \in Seq(C) /\ x \in C
  <2>1. [i \in 1..n |-> s[i]] \in Seq(C)
    BY <1>1
  <2>. QED  BY <1>1, <2>1
<1>. HIDE DEF C
<1>3. /\ t \in Seq(C) /\ Len(t) = Len(s) + 1 /\ t[Len(s) + 1] = x
      /\ \A i \in 1..Len(s) : t[i] = s[i]
  BY <1>2 DEF Grown
<1>4. IsSeq(t)
  BY <1>3, SeqIs
<1>. QED  BY <1>3, <1>4

\* A rewritten argument is appended.
LEMMA OneCommandMore ==
    ASSUME TypeOK, Len(command) < Len(args), NEW text, command' = Append(command, text)
    PROVE  /\ Len(command') \in 0..Len(args) /\ Len(command') = Len(command) + 1
           /\ command' = [i \in 1..Len(command') |-> command'[i]]
           /\ \A i \in 1..Len(command) : command'[i] = command[i]
           /\ command'[Len(command) + 1] = text
<1>1. /\ Len(command) \in Nat /\ Len(args) \in Nat
      /\ command = [i \in 1..Len(command) |-> command[i]]
  BY DEF TypeOK
<1>. DEFINE c == command'
<1>2. Grown(c, command, text)
  BY DEF Grown
<1>. HIDE DEF c
<1>3. /\ IsSeq(c) /\ Len(c) = Len(command) + 1 /\ c[Len(command) + 1] = text
      /\ \A i \in 1..Len(command) : c[i] = command[i]
  <2>1. IsSeq(command)
    BY <1>1 DEF IsSeq
  <2>. QED  BY <2>1, <1>2, OneMore
<1>. QED  BY <1>1, <1>3 DEF c, IsSeq

\* How it has been read is appended as well.
LEMMA OneReadMore ==
    ASSUME TypeOK, ~inTar, Len(command) < Len(args), args' = args,
           NEW r, r \in {<<Arg.whole>>, Arg.parts}, reading' = Append(reading, r)
    PROVE  /\ Len(reading') = Len(command) + 1
           /\ reading' = [i \in 1..Len(reading') |-> reading'[i]]
           /\ \A i \in 1..Len(command) : reading'[i] = reading[i]
           /\ reading'[Len(command) + 1] = r
           /\ \A i \in 1..Len(reading') : reading'[i] \in {<<args[i].whole>>, args[i].parts}
<1>1. /\ Len(reading) = Len(command) /\ Len(command) \in Nat
      /\ reading = [i \in 1..Len(reading) |-> reading[i]]
      /\ \A i \in 1..Len(reading) : reading[i] \in {<<args[i].whole>>, args[i].parts}
  BY DEF TypeOK
<1>. DEFINE c == reading'
<1>2. Grown(c, reading, r)
  BY DEF Grown
<1>. HIDE DEF c
<1>3. /\ IsSeq(c) /\ Len(c) = Len(reading) + 1 /\ c[Len(reading) + 1] = r
      /\ \A i \in 1..Len(reading) : c[i] = reading[i]
  <2>1. IsSeq(reading)
    BY <1>1 DEF IsSeq
  <2>. QED  BY <2>1, <1>2, OneMore
<1>4. ASSUME NEW i \in 1..Len(c) PROVE c[i] \in {<<args[i].whole>>, args[i].parts}
  <2>1. CASE i = Len(command) + 1
    BY <2>1, <1>1, <1>3 DEF Arg
  <2>2. CASE i # Len(command) + 1
    <3>1. i \in 1..Len(reading)
      BY <2>2, <1>1, <1>3
    <3>. QED  BY <3>1, <1>1, <1>3
  <2>. QED  BY <2>1, <2>2
<1>. QED  BY <1>1, <1>3, <1>4 DEF c, IsSeq

----------------------------------------------------------------------------
(* The steps of the resolver *)

\* What is there stays there when the host does.
LEMMA SameThere ==
    ASSUME host' = host
    PROVE  /\ \A p : Exists(p)' <=> Exists(p)
           /\ \A p : IsDir(p)' <=> IsDir(p)
           /\ \A p : Inside(p)' = Inside(p)
<1>1. \A p : DirThere(p)' <=> DirThere(p)
  BY DEF DirThere
<1>2. \A p : Exists(p)' <=> Exists(p)
  BY <1>1 DEF Exists
<1>3. \A p : IsDir(p)' <=> IsDir(p)
  BY <1>1, <1>2 DEF IsDir
<1>4. \A p : Inside(p)' = Inside(p)
  BY DEF Inside
<1>. QED  BY <1>2, <1>3, <1>4

\* What is read in one argument
ReadIn(r) == {r[j] : j \in DOMAIN r}

\* A whole that is there
WholeIn(arg) == {p \in {arg.whole} : Exists(p)}

\* One argument more is done.
LEMMA OneDone ==
    ASSUME TypeOK, ~inTar, Len(command) < Len(args), args' = args, host' = host,
           Len(command') = Len(command) + 1,
           NEW r, r \in {<<Arg.whole>>, Arg.parts}, reading' = Append(reading, r)
    PROVE  Done' = (Done \cup WholeIn(Arg)) \cup ReadIn(r)
<1>1. /\ Len(command) \in Nat /\ Len(reading) = Len(command)
      /\ reading = [i \in 1..Len(reading) |-> reading[i]]
  BY DEF TypeOK
<1>2. /\ Len(reading') = Len(command) + 1
      /\ reading' = [i \in 1..Len(reading') |-> reading'[i]]
      /\ \A i \in 1..Len(command) : reading'[i] = reading[i]
      /\ reading'[Len(command) + 1] = r
  BY OneReadMore
<1>3. 1..(Len(command) + 1) = (1..Len(command)) \cup {Len(command) + 1}
  BY <1>1
<1>4. /\ DOMAIN reading = 1..Len(command)
      /\ DOMAIN reading' = (1..Len(command)) \cup {Len(command) + 1}
  BY <1>1, <1>2, <1>3
<1>5. Read' = Read \cup ReadIn(r)
  BY <1>2, <1>4 DEF Read, ReadIn
<1>6. {args'[i].whole : i \in 1..Len(command')} =
      {args[i].whole : i \in 1..Len(command)} \cup {Arg.whole}
  BY <1>3 DEF Arg
<1>7. \A p : Exists(p)' <=> Exists(p)
  BY SameThere
<1>. QED  BY <1>5, <1>6, <1>7 DEF Done, WholeIn

\* Until the download the files of the host are those of the beginning.
LEMMA StartIsTree ==
    ASSUME TypeOK, Waits, phase \in {"resolve", "detect", "upload", "exec"}
    PROVE  IsTree(host)
BY TransferAssumption DEF TypeOK, Waits

\* An argument that is a path as a whole
LEMMA WholeListed ==
    ASSUME TypeOK, Waits, Listing, ResolveWhole
    PROVE  hostFiles' \subseteq Paths /\ Lists(hostFiles', Done')
<1>. DEFINE p == Arg.whole
            new == ListPart(hostFiles, p)
<1>1. /\ phase = "resolve" /\ ~inTar /\ Len(command) < Len(args)
      /\ WholeThere
      /\ hostFiles' = Listed(hostFiles, p) /\ args' = args /\ host' = host
      /\ \E text : command' = Append(command, text)
      /\ reading' = Append(reading, <<p>>)
  BY DEF ResolveWhole, Resolving, IsWhole, asked
<1>2. IsTree(host) /\ p \in Paths /\ hostFiles \subseteq Paths
  BY <1>1, StartIsTree, ArgType DEF TypeOK
<1>3. hostFiles' = new
  BY <1>1 DEF WholeThere, ListPart, FileExists
<1>4. Lists(hostFiles, Done)
  BY <1>1 DEF Listing
<1>5. Lists(new, Done \cup {p}) /\ new \subseteq Paths
  <2>. HIDE DEF p
  <2>. QED  BY <1>2, <1>4, ListsOne
<1>6. Done' = Done \cup {p}
  <2>1. Done' = (Done \cup WholeIn(Arg)) \cup ReadIn(<<p>>)
    BY <1>1, OneCommandMore, OneDone
  <2>2. ReadIn(<<p>>) = {p}
    BY DEF ReadIn
  <2>. QED  BY <2>1, <2>2 DEF WholeIn
<1>. HIDE DEF new, p
<1>. QED  BY <1>3, <1>5, <1>6

\* An argument that is analysed part by part
LEMMA PartsListed ==
    ASSUME TypeOK, Waits, Listing, ResolveParts
    PROVE  /\ hostFiles' \subseteq Paths /\ Lists(hostFiles', Done')
           /\ \E text : command' = Append(command, text)
           /\ reading' = Append(reading, Arg.parts)
<1>. DEFINE p == Arg.whole
            base == IF WholeThere THEN Listed(hostFiles, p) ELSE hostFiles
            d == CHOOSE f : f = [n \in 0..Len(Arg.parts) |->
                                   IF n = 0 THEN base
                                   ELSE ListPart(f[n - 1], Arg.parts[n])]
<1>1. /\ phase = "resolve" /\ ~inTar /\ Len(command) < Len(args)
      /\ args' = args /\ host' = host /\ ~IsWhole
      /\ \E text : command' = Append(command, text)
      /\ reading' = Append(reading, Arg.parts)
  BY DEF ResolveParts, Resolving, asked
<1>2. hostFiles' = d[Len(Arg.parts)]
  BY DEF ResolveParts
<1>3. /\ IsTree(host) /\ p \in Paths /\ Arg.parts \in Seq(Paths)
      /\ hostFiles \subseteq Paths /\ Lists(hostFiles, Done)
  BY <1>1, StartIsTree, ArgType DEF TypeOK, Listing
<1>4. base \subseteq Paths /\ Lists(base, Done \cup WholeIn(Arg))
  <2>1. CASE Exists(p)
    <3>1. base = ListPart(hostFiles, p)
      BY <2>1 DEF WholeThere, ListPart, FileExists
    <3>2. WholeIn(Arg) = {p}
      BY <2>1 DEF WholeIn
    <3>3. Lists(ListPart(hostFiles, p), Done \cup {p}) /\ ListPart(hostFiles, p) \subseteq Paths
      <4>. HIDE DEF p
      <4>. QED  BY <1>3, ListsOne
    <3>. HIDE DEF base, p
    <3>. QED  BY <3>1, <3>2, <3>3
  <2>2. CASE ~Exists(p)
    <3>1. ~WholeThere
      BY <1>1, <2>2 DEF WholeThere, IsWhole, FileExists, ParentThere, Nameless
    <3>2. WholeIn(Arg) = {}
      BY <2>2 DEF WholeIn
    <3>3. Done \cup {} = Done
      OBVIOUS
    <3>. QED  BY <3>1, <3>2, <3>3, <1>3
  <2>. QED  BY <2>1, <2>2
<1>5. /\ d[Len(Arg.parts)] \subseteq Paths
      /\ Lists(d[Len(Arg.parts)],
               (Done \cup WholeIn(Arg)) \cup {Arg.parts[j] : j \in 1..Len(Arg.parts)})
  <2>. DEFINE dd == d
              parts == Done \cup WholeIn(Arg)
              arg == Arg.parts
              from == base
  <2>1. dd = CHOOSE f : f = [n \in 0..Len(arg) |->
                               IF n = 0 THEN from ELSE ListPart(f[n - 1], arg[n])]
    OBVIOUS
  <2>2. from \in SUBSET Paths /\ Lists(from, parts) /\ arg \in Seq(Paths)
    BY <1>3, <1>4
  <2>. HIDE DEF dd, from, parts, arg
  <2>3. /\ dd[Len(arg)] \subseteq Paths
        /\ Lists(dd[Len(arg)], parts \cup {arg[j] : j \in 1..Len(arg)})
    BY <1>3, <2>1, <2>2, ListsAll
  <2>. QED  BY <2>3 DEF dd, parts, arg
<1>6. Done' = (Done \cup WholeIn(Arg)) \cup {Arg.parts[j] : j \in 1..Len(Arg.parts)}
  <2>1. Done' = (Done \cup WholeIn(Arg)) \cup ReadIn(Arg.parts)
    BY <1>1, OneCommandMore, OneDone
  <2>2. DOMAIN Arg.parts = 1..Len(Arg.parts)
    BY <1>3
  <2>. QED  BY <2>1, <2>2 DEF ReadIn
<1>. HIDE DEF d, base
<1>. QED  BY <1>1, <1>2, <1>5, <1>6

\* What the resolver leaves as it is
LEMMA AnalysisKeeps ==
    ASSUME Analysis
    PROVE  /\ phase \in {"resolve", "detect"}
           /\ phase' \in {"resolve", "detect", "upload", "failed"}
           /\ UNCHANGED <<host, args, outDirs, filters, inTar>>
           /\ UNCHANGED <<cont, stats, todo, lookIn, outTar, tar, start, wrote>>
           /\ phase' # "upload" => uploads' = uploads
BY DEF Analysis, Resolver, ResolveWhole, ResolveParts, ResolveRaises, ApplyFilters,
       TakeArgsAsTheyAre, DetectUploadFiles, Resolving, asked, tarring

\* The resolver keeps the types of its variables.
LEMMA AnalysisType ==
    ASSUME TypeOK, Waits, Listing, Analysis
    PROVE  /\ hostFiles' \subseteq Paths /\ uploads' \subseteq Paths
           /\ Len(command') \in 0..Len(args)
           /\ command' = [i \in 1..Len(command') |-> command'[i]]
           /\ reading' = [i \in 1..Len(reading') |-> reading'[i]]
           /\ Len(reading') = IF inTar THEN 0 ELSE Len(command')
           /\ \A i \in 1..Len(reading') :
                 reading'[i] \in {<<args[i].whole>>, args[i].parts}
<1>1. /\ hostFiles \subseteq Paths /\ uploads \subseteq Paths
      /\ Len(command) \in 0..Len(args) /\ args \in Seq(Arguments)
      /\ command = [i \in 1..Len(command) |-> command[i]]
  BY DEF TypeOK
<1>2. /\ reading = [i \in 1..Len(reading) |-> reading[i]]
      /\ Len(reading) = IF inTar THEN 0 ELSE Len(command)
      /\ \A i \in 1..Len(reading) : reading[i] \in {<<args[i].whole>>, args[i].parts}
  BY DEF TypeOK
<1>3. CASE ResolveWhole
  <2>1. hostFiles' \subseteq Paths /\ uploads' = uploads /\ args' = args /\ ~inTar
    BY <1>3, WholeListed DEF ResolveWhole, Resolving, asked
  <2>2. /\ Len(command) < Len(args) /\ \E text : command' = Append(command, text)
        /\ reading' = Append(reading, <<Arg.whole>>)
    BY <1>3 DEF ResolveWhole, Resolving
  <2>3. /\ Len(command') \in 0..Len(args) /\ Len(command') = Len(command) + 1
        /\ command' = [i \in 1..Len(command') |-> command'[i]]
    BY <2>2, OneCommandMore
  <2>4. /\ Len(reading') = Len(command) + 1
        /\ reading' = [i \in 1..Len(reading') |-> reading'[i]]
        /\ \A i \in 1..Len(reading') : reading'[i] \in {<<args[i].whole>>, args[i].parts}
    BY <2>1, <2>2, OneReadMore
  <2>. QED  BY <2>1, <2>3, <2>4, <1>1
<1>4. CASE ResolveParts
  <2>1. hostFiles' \subseteq Paths /\ uploads' = uploads /\ args' = args /\ ~inTar
    BY <1>4, PartsListed DEF ResolveParts, Resolving, asked
  <2>2. /\ Len(command) < Len(args) /\ \E text : command' = Append(command, text)
        /\ reading' = Append(reading, Arg.parts)
    BY <1>4, PartsListed DEF ResolveParts, Resolving
  <2>3. /\ Len(command') \in 0..Len(args) /\ Len(command') = Len(command) + 1
        /\ command' = [i \in 1..Len(command') |-> command'[i]]
    BY <2>2, OneCommandMore
  <2>4. /\ Len(reading') = Len(command) + 1
        /\ reading' = [i \in 1..Len(reading') |-> reading'[i]]
        /\ \A i \in 1..Len(reading') : reading'[i] \in {<<args[i].whole>>, args[i].parts}
    BY <2>1, <2>2, OneReadMore
  <2>. QED  BY <2>1, <2>3, <2>4, <1>1
<1>5. CASE ResolveRaises
  BY <1>1, <1>2, <1>5 DEF ResolveRaises
<1>6. CASE ApplyFilters
  BY <1>1, <1>2, <1>6 DEF ApplyFilters
<1>7. CASE TakeArgsAsTheyAre
  <2>1. PICK n \in Nat : n = Len(args) /\ DOMAIN args = 1..n
    BY <1>1
  <2>. DEFINE c == command'
  <2>2. \E F : c = [i \in 1..n |-> F[i]]
    <3>. DEFINE F == [i \in 1..n |-> Spelled(args[i].whole)]
    <3>1. c = [i \in 1..n |-> F[i]]
      BY <1>7, <2>1 DEF TakeArgsAsTheyAre
    <3>. HIDE DEF F
    <3>. QED  BY <3>1
  <2>. HIDE DEF c
  <2>3. Len(c) = n /\ c = [i \in 1..Len(c) |-> c[i]]
    <3>1. PICK F : c = [i \in 1..n |-> F[i]]
      BY <2>2
    <3>2. Len(c) = n
      BY <3>1, <2>1
    <3>. QED  BY <3>1, <3>2
  <2>4. hostFiles' = hostFiles /\ uploads' = uploads /\ reading' = reading /\ inTar
    BY <1>7 DEF TakeArgsAsTheyAre
  <2>. QED  BY <1>1, <1>2, <2>1, <2>3, <2>4 DEF c
<1>8. CASE DetectUploadFiles
  <2>1. phase = "detect" /\ hostFiles' = hostFiles /\ command' = command /\ reading' = reading
    BY <1>8 DEF DetectUploadFiles
  <2>2. ASSUME NEW f \in hostFiles, ~Exists(f) PROVE Nearest(f) \in Paths
    <3>1. Nearest(f) \in ParentsAndCwd(f) /\ f \in Seq(Name) /\ f \in Paths
      BY <1>1, <2>1, <2>2, StartIsTree, NearestMeans, PathKinds
    <3>2. <<>> \in Paths
      BY DEF Paths
    <3>. QED  BY <3>1, <3>2, ParentsType DEF ParentsAndCwd
  <2>3. uploads' \subseteq hostFiles \cup {Nearest(f) : f \in {g \in hostFiles : ~Exists(g)}}
    BY <1>8 DEF DetectUploadFiles
  <2>4. uploads' \subseteq Paths
    BY <1>1, <2>2, <2>3
  <2>. QED  BY <1>1, <1>2, <2>1, <2>4
<1>. QED  BY <1>3, <1>4, <1>5, <1>6, <1>7, <1>8 DEF Analysis, Resolver

\* What the steps of TarTool leave as it is
LEMMA TransportKeeps ==
    ASSUME Transport
    PROVE  /\ UNCHANGED <<args, filters, hostFiles, command, reading, start, wrote>>
           /\ UNCHANGED <<outDirs, inTar, uploads>>
           /\ Upload \/ UNCHANGED <<cont, stats>>
           /\ Upload \/ StartDownload \/ UNCHANGED <<lookIn, outTar>>
           /\ phase \in {"upload", "exec", "download"}
           /\ phase' \in {"exec", "download", "done", "failed"}
           /\ phase' = "exec" => Upload
           /\ \/ Upload \/ StartDownload \/ Downloaded
              \/ \E c \in DOMAIN cont : Take(c)
BY DEF Transport, Tar, Upload, StartDownload, Downloaded, Unmodified, IntoTar,
       NewFile, OldFile, NewDirectory, OldDirectory, MemberRaises, CopyRaises,
       Modified, Take, resolving

\* What the tool leaves as it is
LEMMA ToolKeeps ==
    ASSUME ToolWrites
    PROVE  /\ phase = "exec" /\ wrote = {}
           /\ UNCHANGED <<args, filters, hostFiles, command, reading, host, outDirs, inTar,
                          phase, uploads, stats, todo, lookIn, outTar, tar, start>>
           /\ \E c \in ToolNames, k \in {"file", "link"}, f \in ToolMade :
                 /\ wrote' = {c}
                 /\ \A d \in DOMAIN cont : ~IsStrictPrefix(c, d)
                 /\ DOMAIN cont' = {c} \cup DOMAIN cont \cup Parents(c)
                 /\ cont'[c] = [kind |-> k, from |-> f]
                 /\ \A d \in DOMAIN cont \ {c} : cont'[d] = cont[d]
                 /\ \A d \in Parents(c) \ ({c} \cup DOMAIN cont) : cont'[d] = Dir
<1>1. /\ phase = "exec" /\ wrote = {}
      /\ UNCHANGED <<args, filters, hostFiles, command, reading, host, outDirs, inTar,
                     phase, uploads, stats, todo, lookIn, outTar, tar, start>>
  BY DEF ToolWrites, resolving
<1>2. PICK c \in ToolNames, k \in {"file", "link"}, f \in ToolMade :
        /\ wrote' = {c}
        /\ \A d \in DOMAIN cont : ~IsStrictPrefix(c, d)
        /\ cont' = Put(cont, c, [kind |-> k, from |-> f])
  BY DEF ToolWrites
<1>3. /\ DOMAIN cont' = {c} \cup DOMAIN cont \cup Parents(c)
      /\ cont'[c] = [kind |-> k, from |-> f]
      /\ \A d \in DOMAIN cont \ {c} : cont'[d] = cont[d]
      /\ \A d \in Parents(c) \ ({c} \cup DOMAIN cont) : cont'[d] = Dir
  BY <1>2 DEF Put
<1>. QED  BY <1>1, <1>2, <1>3

\* Every step keeps the types.
LEMMA TypeStep ==
    ASSUME TypeOK, Waits, Listing, Next
    PROVE  TypeOK'
<1>1. CASE Analysis
  <2>1. phase' \in {"resolve", "detect", "upload", "failed"}
    BY <1>1, AnalysisKeeps
  <2>2. UNCHANGED <<args, outDirs, filters, inTar, outTar, start, cont, wrote, todo>>
    BY <1>1, AnalysisKeeps
  <2>. QED  BY <1>1, <2>1, <2>2, AnalysisType DEF TypeOK
<1>2. CASE Transport
  <2>1. /\ UNCHANGED <<args, filters, hostFiles, command, reading, start, wrote>>
        /\ UNCHANGED <<outDirs, inTar, uploads>>
        /\ phase' \in {"exec", "download", "done", "failed"}
    BY <1>2, TransportKeeps
  <2>2. CASE Upload
    <3>1. DOMAIN cont' \subseteq Plain \ {<<>>}
      <4>1. CASE inTar
        <5>1. cont' = [n \in {TarName} |-> TarFile]
          BY <4>1, <2>2 DEF Upload
        <5>2. TarName \in Plain \ {<<>>}
          BY TransferAssumption
        <5>. QED  BY <5>1, <5>2
      <4>2. CASE ~inTar
        <5>1. PICK elsewhere \in SUBSET Doubled : cont' = CreateTar(elsewhere)
          BY <4>2, <2>2 DEF Upload
        <5>. QED  BY <5>1, TarHas DEF TypeOK
      <4>. QED  BY <4>1, <4>2
    <3>2. wrote = {} /\ todo' = todo /\ todo = {}
      BY <2>2 DEF Upload, Waits, TypeOK
    <3>. QED  BY <2>1, <2>2, <3>1, <3>2 DEF TypeOK, Upload
  <2>3. CASE StartDownload
    BY <2>1, <2>3 DEF TypeOK, StartDownload, Leaves
  <2>4. CASE Downloaded
    BY <2>1, <2>4 DEF TypeOK, Downloaded
  <2>5. ASSUME NEW c \in DOMAIN cont, Take(c) PROVE TypeOK'
    BY <2>1, <2>5 DEF TypeOK, Take
  <2>. QED  BY <1>2, <2>2, <2>3, <2>4, <2>5, TransportKeeps
<1>3. CASE ToolWrites
  <2>1. PICK c \in ToolNames :
          wrote' = {c} /\ DOMAIN cont' = {c} \cup DOMAIN cont \cup Parents(c)
    BY <1>3, ToolKeeps
  <2>2. c \in Plain /\ c # <<>> /\ c \in Seq(Name)
    BY TransferAssumption, PathKinds
  <2>3. \A q \in Parents(c) : q \in Plain /\ q # <<>>
    <3>. SUFFICES ASSUME NEW q \in Parents(c) PROVE q \in Plain /\ q # <<>>
      OBVIOUS
    <3>1. q \in Plain /\ Len(q) > 0
      BY <2>2, ParentsType
    <3>. QED  BY <3>1
  <2>4. DOMAIN cont' \subseteq Plain \ {<<>>}
    BY <2>1, <2>2, <2>3 DEF TypeOK
  <2>5. UNCHANGED <<args, filters, hostFiles, command, reading, host, outDirs, inTar,
                    phase, uploads, todo, outTar, start>>
    BY <1>3, ToolKeeps
  <2>. QED  BY <2>1, <2>4, <2>5 DEF TypeOK
<1>. QED  BY <1>1, <1>2, <1>3 DEF Next

\* Nothing changes on the host before the download, nor in the container before
\* the upload.
LEMMA WaitsStep ==
    ASSUME Waits, Next
    PROVE  Waits'
<1>1. CASE Analysis
  BY <1>1, AnalysisKeeps DEF Waits
<1>2. CASE Transport
  <2>1. CASE Upload
    BY <1>2, <2>1, TransportKeeps DEF Waits, Upload
  <2>2. CASE ~Upload
    BY <1>2, <2>2, TransportKeeps DEF Waits
  <2>. QED  BY <2>1, <2>2
<1>3. CASE ToolWrites
  BY <1>3, ToolKeeps DEF Waits
<1>. QED  BY <1>1, <1>2, <1>3 DEF Next

----------------------------------------------------------------------------
(* What is listed, and what is uploaded *)

\* Files, and where they are there, stay the same when the host does.
LEMMA SameFiles ==
    ASSUME UNCHANGED <<host, outDirs, args, filters, reading>>
    PROVE  /\ \A p : Exists(p)' <=> Exists(p)
           /\ \A S : FilesOf(S)' = FilesOf(S)
           /\ Read' = Read /\ Named' = Named /\ Asked' = Asked
           /\ InTheWay' = InTheWay
           /\ \A p : IsDir(p)' <=> IsDir(p)
<1>1. /\ \A p : Exists(p)' <=> Exists(p)
      /\ \A p : IsDir(p)' <=> IsDir(p)
      /\ \A p : Inside(p)' = Inside(p)
  BY SameThere
<1>2. \A p : Meant(p)' = Meant(p)
  BY <1>1 DEF Meant
<1>3. Read' = Read
  BY DEF Read
<1>4. Named' = Named /\ Wholes' = Wholes
  BY <1>3 DEF Named, Wholes
<1>5. \A S : FilesOf(S)' = FilesOf(S)
  BY <1>1 DEF FilesOf
<1>6. Asked' = Asked
  BY <1>2, <1>3, <1>4 DEF Asked
<1>7. InTheWay' = InTheWay
  BY <1>1, <1>4 DEF InTheWay
<1>. QED  BY <1>1, <1>3, <1>4, <1>5, <1>6, <1>7

\* In the end all that the arguments mean has been listed.
LEMMA AllDone ==
    ASSUME TypeOK, Len(command) = Len(args)
    PROVE  UNION {Meant(p) : p \in Done} = UNION {Meant(p) : p \in Read \cup Wholes}
<1>1. DOMAIN args = 1..Len(command)
  BY DEF TypeOK
<1>2. Done \subseteq Read \cup Wholes
  BY <1>1 DEF Done, Wholes
<1>3. \A p \in (Read \cup Wholes) \ Done : Meant(p) = {}
  BY <1>1 DEF Done, Wholes, Meant
<1>. QED  BY <1>2, <1>3

\* Every step of the resolver keeps the lists true.
LEMMA ListingStep ==
    ASSUME TypeOK, Waits, Listing, Next
    PROVE  Listing'
<1>1. CASE Analysis /\ ResolveWhole
  <2>1. Lists(hostFiles', Done') /\ phase' = "resolve"
    BY <1>1, WholeListed DEF ResolveWhole, Resolving
  <2>2. Lists(hostFiles, Done)'
    BY <1>1, <2>1, AnalysisKeeps, SameLists
  <2>. QED  BY <2>1, <2>2 DEF Listing
<1>2. CASE Analysis /\ ResolveParts
  <2>1. Lists(hostFiles', Done') /\ phase' = "resolve"
    BY <1>2, PartsListed DEF ResolveParts, Resolving
  <2>2. Lists(hostFiles, Done)'
    BY <1>2, <2>1, AnalysisKeeps, SameLists
  <2>. QED  BY <2>1, <2>2 DEF Listing
<1>3. CASE Analysis /\ ApplyFilters
  <2>1. /\ phase = "resolve" /\ ~inTar /\ Len(command) = Len(args)
        /\ phase' = "detect" /\ command' = command /\ reading' = reading
        /\ hostFiles' = {f \in hostFiles : \A x \in filters : Passes(x, f)}
    BY <1>3 DEF ApplyFilters
  <2>2. UNCHANGED <<host, outDirs, args, filters, reading>>
    BY <1>3, <2>1, AnalysisKeeps
  <2>3. Lists(hostFiles, Done)
    BY <2>1 DEF Listing
  <2>4. FilesOf(hostFiles') = FilesOf(Asked)
    <3>. DEFINE all == outDirs \cup UNION {Meant(p) : p \in Read \cup Wholes}
    <3>1. FilesOf(hostFiles) = FilesOf(all)
      BY <2>1, <2>3, AllDone DEF Lists
    <3>2. Asked = {f \in all : \A x \in filters : Passes(x, f)}
      BY DEF Asked
    <3>. HIDE DEF all
    <3>. QED  BY <2>1, <3>1, <3>2 DEF FilesOf
  <2>5. \A f \in hostFiles' : Exists(f) \/ f \in Named
    BY <2>1, <2>3 DEF Lists, Done, Named
  <2>6. filters' = {} => Lists(hostFiles, Done)'
    <3>1. filters = {} => hostFiles' = hostFiles
      BY <2>1
    <3>2. Done' = Done
      <4>1. \A p : Exists(p)' <=> Exists(p)
        BY <2>2, SameThere
      <4>. QED  BY <2>1, <2>2, <4>1 DEF Done, Read
    <3>. QED  BY <2>2, <2>3, <3>1, <3>2, SameLists
  <2>7. FilesOf(hostFiles)' = FilesOf(Asked)'
    BY <2>2, <2>4, SameFiles DEF FilesOf
  <2>8. (\A f \in hostFiles : Exists(f) \/ f \in Named)'
    BY <2>2, <2>5, SameFiles
  <2>. QED  BY <2>1, <2>2, <2>6, <2>7, <2>8 DEF Listing
<1>4. CASE Analysis /\ TakeArgsAsTheyAre
  BY <1>4, AnalysisKeeps DEF TakeArgsAsTheyAre, Listing
<1>5. CASE Analysis /\ (DetectUploadFiles \/ ResolveRaises)
  BY <1>5 DEF Listing, DetectUploadFiles, ResolveRaises
<1>6. CASE Transport
  BY <1>6, TransportKeeps DEF Listing
<1>7. CASE ToolWrites
  BY <1>7, ToolKeeps DEF Listing
<1>. QED  BY <1>1, <1>2, <1>3, <1>4, <1>5, <1>6, <1>7 DEF Next, Analysis, Resolver

\* What DetectUploadFiles decides
LEMMA DetectAsked ==
    ASSUME TypeOK, Waits, Listing, DetectUploadFiles, ~inTar
    PROVE  FilesOf(Asked) \subseteq uploads' /\ FilesOf(uploads') \subseteq Asked \cup InTheWay
<1>. DEFINE res == {f \in hostFiles : Exists(f) \/ f \in outDirs}
            near == {Nearest(f) : f \in {g \in hostFiles : ~Exists(g)}}
<1>1. phase = "detect" /\ hostFiles \subseteq Paths
  BY DEF DetectUploadFiles, TypeOK
<1>2. res \subseteq uploads' /\ uploads' \subseteq res \cup near
  BY DEF DetectUploadFiles
<1>3. FilesOf(hostFiles) = FilesOf(Asked) /\ \A f \in hostFiles : Exists(f) \/ f \in Named
  BY <1>1 DEF Listing
<1>4. FilesOf(Asked) \subseteq res
  BY <1>3 DEF FilesOf
<1>5. FilesOf(res) \subseteq Asked
  BY <1>3 DEF FilesOf
<1>6. ASSUME NEW n \in near PROVE IsDir(n) \/ n \in InTheWay
  <2>1. PICK f \in hostFiles : ~Exists(f) /\ n = Nearest(f)
    OBVIOUS
  <2>2. IsTree(host)
    BY <1>1, StartIsTree
  <2>3. n \in ParentsAndCwd(f)
    BY <1>1, <2>1, <2>2, NearestMeans
  <2>4. n \in Parents(f) => n \in InTheWay
    BY <1>3, <2>1 DEF InTheWay
  <2>. QED  BY <2>2, <2>3, <2>4, AlwaysThere DEF ParentsAndCwd
<1>. HIDE DEF res, near
<1>7. FilesOf(uploads') \subseteq Asked \cup InTheWay
  BY <1>2, <1>5, <1>6 DEF FilesOf
<1>. QED  BY <1>2, <1>4, <1>7

\* UploadsAsked is established by DetectUploadFiles alone.
LEMMA UploadsAskedStep ==
    ASSUME TypeOK, Waits, Listing, UploadsAsked, Next
    PROVE  UploadsAsked'
<1>1. CASE Analysis /\ DetectUploadFiles
  <2>. SUFFICES ASSUME ~inTar'
                PROVE  (FilesOf(Asked) \subseteq uploads
                        /\ FilesOf(uploads) \subseteq Asked \cup InTheWay)'
    BY DEF UploadsAsked
  <2>1. UNCHANGED <<host, outDirs, args, filters, reading>> /\ ~inTar
    BY <1>1, AnalysisKeeps DEF DetectUploadFiles
  <2>2. FilesOf(Asked) \subseteq uploads' /\ FilesOf(uploads') \subseteq Asked \cup InTheWay
    BY <1>1, <2>1, DetectAsked
  <2>3. Asked' = Asked /\ InTheWay' = InTheWay /\ FilesOf(Asked)' = FilesOf(Asked)
    BY <2>1, SameFiles DEF FilesOf
  <2>4. FilesOf(uploads)' = FilesOf(uploads')
    BY <2>1, SameFiles DEF FilesOf
  <2>. QED  BY <2>2, <2>3, <2>4
<1>2. CASE Analysis /\ ~DetectUploadFiles
  BY <1>2 DEF UploadsAsked, Analysis, Resolver, ResolveWhole, ResolveParts, ResolveRaises,
              ApplyFilters, TakeArgsAsTheyAre, Resolving
<1>3. CASE Transport
  BY <1>3, TransportKeeps DEF UploadsAsked
<1>4. CASE ToolWrites
  BY <1>4, ToolKeeps DEF UploadsAsked
<1>. QED  BY <1>1, <1>2, <1>3, <1>4 DEF Next

\* Places stay when the host and the uploads do.
LEMMA SamePlaces ==
    ASSUME UNCHANGED <<host, outDirs, args, filters, reading, hostFiles, uploads>>, Places
    PROVE  Places'
<1>1. Names' = Names
  BY DEF Names
<1>2. \A q : Leads(q)' <=> Leads(q)
  BY <1>1 DEF Leads
<1>3. /\ \A p : Exists(p)' <=> Exists(p)
      /\ \A p : IsDir(p)' <=> IsDir(p)
      /\ Read' = Read
  BY SameFiles
<1>4. outDirs' \subseteq uploads'
  BY DEF Places
<1>5. CASE \E f \in hostFiles : Detour(f)
  BY <1>4, <1>5 DEF Places
<1>6. CASE ~(\E f \in hostFiles : Detour(f))
  <2>1. \A p \in Read : ~UseAbsolutePath(p) /\ ~Exists(p) =>
           \A q \in Parents(p) : IsDir(q) => Leads(q)
    BY <1>6 DEF Places
  <2>2. (\A p \in Read : ~UseAbsolutePath(p) /\ ~Exists(p) =>
           \A q \in Parents(p) : IsDir(q) => Leads(q))'
    BY <1>2, <1>3, <2>1
  <2>. QED  BY <1>4, <2>2 DEF Places
<1>. QED  BY <1>5, <1>6

\* What has been read are paths.
LEMMA ReadType ==
    ASSUME TypeOK
    PROVE  Read \subseteq Paths
<1>. SUFFICES ASSUME NEW i \in DOMAIN reading, NEW j \in DOMAIN reading[i]
              PROVE  reading[i][j] \in Paths
  BY DEF Read
<1>1. i \in 1..Len(reading) /\ Len(reading) <= Len(args) /\ args \in Seq(Arguments)
  BY DEF TypeOK
<1>2. args[i] \in Arguments
  BY <1>1
<1>3. args[i].whole \in Paths /\ args[i].parts \in Seq(Paths)
  BY <1>2, TransferAssumption
<1>4. reading[i] \in {<<args[i].whole>>, args[i].parts}
  BY <1>1 DEF TypeOK
<1>. QED  BY <1>3, <1>4

\* DetectUploadFiles adds what the places to write need.
LEMMA DetectPlaces ==
    ASSUME TypeOK, Waits, Listing, DetectUploadFiles, Analysis, ~inTar, filters = {}
    PROVE  Places'
<1>. DEFINE res == {f \in hostFiles : Exists(f) \/ f \in outDirs}
<1>1. /\ phase = "detect" /\ hostFiles \subseteq Paths /\ IsTree(host)
      /\ UNCHANGED <<host, outDirs, args, filters, reading, hostFiles>>
  BY AnalysisKeeps, StartIsTree DEF DetectUploadFiles, TypeOK
<1>2. Lists(hostFiles, Done)
  BY <1>1 DEF Listing
<1>3. uploads' = res \cup ({Nearest(f) : f \in {g \in hostFiles : ~Exists(g)}}
                             \ (res \cup UNION {ParentsAndCwd(f) : f \in res}))
  BY DEF DetectUploadFiles
<1>4. outDirs \subseteq uploads'
  BY <1>2, <1>3 DEF Lists
<1>5. ASSUME \A f \in hostFiles : ~Detour(f), NEW p \in Read, ~UseAbsolutePath(p),
             ~Exists(p), NEW q \in Parents(p), IsDir(q)
      PROVE  \E u \in uploads' : q = ArchiveName(u) \/ q \in Parents(ArchiveName(u))
  <2>. HIDE DEF res
  <2>. DEFINE ups == uploads'
              parts == Done
  <2>1. p \in Paths /\ p \in parts /\ Lists(hostFiles, parts)
    BY <1>2, <1>5, ReadType DEF Done
  <2>2. Detected(ups, res)
    BY <1>3 DEF res, Detected
  <2>. HIDE DEF ups, parts
  <2>4. \E u \in ups : q = ArchiveName(u) \/ q \in Parents(ArchiveName(u))
    BY <1>1, <1>5, <2>1, <2>2, UploadsLead
  <2>. QED  BY <2>4 DEF ups
<1>6. ASSUME \A f \in hostFiles : ~Detour(f)
      PROVE  (\A p \in Read : ~UseAbsolutePath(p) /\ ~Exists(p) =>
                 \A q \in Parents(p) : IsDir(q) => Leads(q))'
  <2>1. \A p \in Read : ~UseAbsolutePath(p) /\ ~Exists(p) =>
           \A q \in Parents(p) : IsDir(q) =>
              \E u \in uploads' : q = ArchiveName(u) \/ q \in Parents(ArchiveName(u))
    BY <1>5, <1>6
  <2>2. \A q : (\E u \in uploads' : q = ArchiveName(u) \/ q \in Parents(ArchiveName(u)))
                  => Leads(q)'
    BY DEF Leads, Names
  <2>. QED  BY <1>1, <2>1, <2>2, SameFiles
<1>7. (\E f \in hostFiles : Detour(f))' <=> \E f \in hostFiles : Detour(f)
  BY <1>1
<1>. QED  BY <1>1, <1>4, <1>6, <1>7 DEF Places

\* The archive is made of the host and of what is uploaded.
LEMMA SameTar ==
    ASSUME UNCHANGED <<host, uploads>>
    PROVE  Doubled' = Doubled /\ \A e : CreateTar(e)' = CreateTar(e)
<1>1. Names' = Names
  BY DEF Names
<1>2. Doubled' = Doubled
  BY <1>1 DEF Doubled
<1>. QED  BY <1>1, <1>2 DEF CreateTar, Entry, Source, OnHost

\* The archive has what was detected.
LEMMA PackingStep ==
    ASSUME TypeOK, Waits, Listing, Packing, Next
    PROVE  Packing'
<1>1. CASE Analysis /\ DetectUploadFiles
  BY <1>1, DetectPlaces, AnalysisKeeps DEF Packing, Places, DetectUploadFiles
<1>2. CASE Analysis /\ ~DetectUploadFiles
  BY <1>2 DEF Packing, Analysis, Resolver, ResolveWhole, ResolveParts, ResolveRaises,
              ApplyFilters, TakeArgsAsTheyAre, Resolving
<1>3. CASE Transport /\ Upload
  <2>1. /\ UNCHANGED <<host, outDirs, args, filters, reading, hostFiles, uploads, inTar>>
        /\ phase = "upload" /\ phase' = "exec"
        /\ ~inTar => \E elsewhere \in SUBSET Doubled : cont' = CreateTar(elsewhere)
    BY <1>3, TransportKeeps DEF Upload
  <2>2. ~inTar' => (\E elsewhere \in SUBSET Doubled : cont = CreateTar(elsewhere))'
    BY <2>1, SameTar
  <2>3. ~inTar /\ filters = {} => Places
    BY <2>1 DEF Packing, Places
  <2>4. ~inTar' /\ filters' = {} => Places'
    BY <2>1, <2>3, SamePlaces
  <2>. QED  BY <2>1, <2>2, <2>4 DEF Packing, Places
<1>4. CASE Transport /\ ~Upload
  BY <1>4, TransportKeeps DEF Packing
<1>5. CASE ToolWrites
  <2>1. /\ UNCHANGED <<host, outDirs, args, filters, reading, hostFiles, uploads, inTar,
                       phase>>
        /\ phase = "exec" /\ wrote' # {}
    BY <1>5, ToolKeeps
  <2>2. ~inTar /\ filters = {} => Places
    BY <2>1 DEF Packing, Places
  <2>3. ~inTar' /\ filters' = {} => Places'
    BY <2>1, <2>2, SamePlaces
  <2>. QED  BY <2>1, <2>3 DEF Packing, Places
<1>. QED  BY <1>1, <1>2, <1>3, <1>4, <1>5 DEF Next

----------------------------------------------------------------------------
(* Where files come from *)

\* What the archive has comes from the host, but not from the tool.
LEMMA TarOrigins ==
    ASSUME TypeOK, Waits, phase = "upload", ~inTar, NEW elsewhere, NEW arc,
           arc = CreateTar(elsewhere)
    PROVE  /\ \A c \in DOMAIN arc :
                 \/ Borrowed(c) \/ arc[c].kind # "file"
                 \/ Target(c) \in DOMAIN start /\ arc[c] = start[Target(c)]
           /\ \A n \in Names : Entry(n, elsewhere).from \notin ToolMade
<1>1. start = host /\ uploads \subseteq Paths
  BY DEF TypeOK, Waits
<1>2. Dir.kind # "file" /\ Dir.from \notin ToolMade
  BY DEF Dir, ToolMade
<1>3. ASSUME NEW c \in DOMAIN arc
      PROVE  \/ Borrowed(c) \/ arc[c].kind # "file"
             \/ Target(c) \in DOMAIN start /\ arc[c] = start[Target(c)]
  <2>1. CASE c \notin Names
    BY <1>1, <1>2, <2>1, TarHas
  <2>2. CASE c \in Names
    <3>. DEFINE u == Source(c, elsewhere)
    <3>1. arc[c] = Entry(c, elsewhere) /\ c \in Plain
      BY <1>1, <2>2, TarHas
    <3>2. u \in Paths /\ (UseAbsolutePath(u) => Borrowed(c)) /\ (~UseAbsolutePath(u) => u = c)
      BY <1>1, <2>2, SourceMeans
    <3>3. CASE UseAbsolutePath(u)
      BY <3>2, <3>3
    <3>4. CASE ~UseAbsolutePath(u) /\ ~OnHost(u)
      BY <1>2, <3>1, <3>4 DEF Entry
    <3>5. CASE ~UseAbsolutePath(u) /\ OnHost(u)
      <4>1. u = c /\ Resolve(c) = Target(c)
        BY <3>1, <3>2, <3>5, ResolvePlain DEF Target
      <4>. QED  BY <1>1, <3>1, <3>5, <4>1 DEF Entry, OnHost
    <3>. QED  BY <3>3, <3>4, <3>5
  <2>. QED  BY <2>1, <2>2
<1>4. ASSUME NEW n \in Names PROVE Entry(n, elsewhere).from \notin ToolMade
  <2>1. \A p \in DOMAIN host : host[p].from \notin ToolMade
    BY <1>1, TransferAssumption DEF TypeOK
  <2>. QED  BY <1>2, <2>1 DEF Entry, OnHost
<1>. QED  BY <1>3, <1>4

\* Files in the container come from the host, from elsewhere or from the tool.
LEMMA OriginsStep ==
    ASSUME TypeOK, Waits, Origins, Next
    PROVE  Origins'
<1>1. CASE Analysis
  <2>1. /\ UNCHANGED <<inTar, cont, stats, start, wrote>>
        /\ phase \in {"resolve", "detect"}
    BY <1>1, AnalysisKeeps
  <2>2. cont = <<>> /\ wrote = {}
    BY <2>1 DEF Waits
  <2>. QED  BY <2>1, <2>2 DEF Origins
<1>2. CASE Transport
  <2>1. UNCHANGED <<inTar, start, wrote, uploads>>
    BY <1>2, TransportKeeps
  <2>2. \A c : Borrowed(c)' <=> Borrowed(c)
    BY <2>1 DEF Borrowed
  <2>3. CASE Upload
    <3>1. phase = "upload" /\ wrote = {}
      BY <2>3 DEF Upload, Waits
    <3>2. CASE inTar
      <4>1. /\ cont' = [n \in {TarName} |-> TarFile]
            /\ stats' = [n \in {TarName} |-> TarFile]
        BY <2>3, <3>2 DEF Upload
      <4>2. TarFile.from \notin ToolMade
        BY DEF TarFile, ToolMade
      <4>. QED  BY <2>1, <2>2, <3>1, <3>2, <4>1, <4>2 DEF Origins, Borrowed
    <3>3. CASE ~inTar
      <4>1. PICK elsewhere \in SUBSET Doubled :
              cont' = CreateTar(elsewhere) /\ stats' = CreateStats(elsewhere)
        BY <2>3, <3>3 DEF Upload
      <4>2. \A c \in DOMAIN cont' :
               \/ Borrowed(c) \/ cont'[c].kind # "file"
               \/ Target(c) \in DOMAIN start /\ cont'[c] = start[Target(c)]
        BY <3>1, <3>3, <4>1, TarOrigins
      <4>3. \A n \in Names : Entry(n, elsewhere).from \notin ToolMade
        BY <3>1, <3>3, TarOrigins
      <4>4. \A c \in DOMAIN stats' : stats'[c].from \notin ToolMade
        BY <4>1, <4>3 DEF CreateStats
      <4>. QED  BY <2>1, <2>2, <3>1, <4>2, <4>4 DEF Origins
    <3>. QED  BY <3>2, <3>3
  <2>4. CASE ~Upload
    <3>1. cont' = cont /\ stats' = stats
      BY <1>2, <2>4, TransportKeeps
    <3>. QED  BY <2>1, <2>2, <3>1 DEF Origins
  <2>. QED  BY <2>3, <2>4
<1>3. CASE ToolWrites
  <2>1. UNCHANGED <<inTar, start, stats, uploads>> /\ wrote = {}
    BY <1>3, ToolKeeps
  <2>2. PICK c \in ToolNames, k \in {"file", "link"}, f \in ToolMade :
          /\ wrote' = {c}
          /\ DOMAIN cont' = {c} \cup DOMAIN cont \cup Parents(c)
          /\ cont'[c] = [kind |-> k, from |-> f]
          /\ \A d \in DOMAIN cont \ {c} : cont'[d] = cont[d]
          /\ \A d \in Parents(c) \ ({c} \cup DOMAIN cont) : cont'[d] = Dir
    BY <1>3, ToolKeeps
  <2>3. \A d : Borrowed(d)' <=> Borrowed(d)
    BY <2>1 DEF Borrowed
  <2>4. ASSUME NEW d \in DOMAIN cont'
        PROVE  \/ d \in wrote' \/ Borrowed(d)' \/ cont'[d].kind # "file"
               \/ Target(d) \in DOMAIN start' /\ cont'[d] = start'[Target(d)]
    BY <2>1, <2>2, <2>3 DEF Origins, Dir
  <2>5. \A d \in wrote' : cont'[d].from \in ToolMade
    BY <2>2
  <2>. QED  BY <2>1, <2>4, <2>5 DEF Origins
<1>. QED  BY <1>1, <1>2, <1>3 DEF Next

----------------------------------------------------------------------------
(* What is fetched *)

\* Different names are placed at different paths.
LEMMA TargetsDiffer ==
    ASSUME NEW c \in Plain, NEW d \in Plain, Target(c) = Target(d)
    PROVE  c = d
<1>1. Cwd \in Seq(Name) /\ c \in Seq(Name) /\ d \in Seq(Name)
  BY PathAssumption, ResolvedMeans, PlainMeans
<1>. DEFINE r == Cwd \o c
            t == Cwd \o d
<1>2. /\ Len(r) = Len(Cwd) + Len(c) /\ \A i \in 1..Len(c) : r[Len(Cwd) + i] = c[i]
      /\ Len(t) = Len(Cwd) + Len(d) /\ \A i \in 1..Len(d) : t[Len(Cwd) + i] = d[i]
  BY <1>1, JoinedNames
<1>3. r = t
  BY DEF Target
<1>. HIDE DEF r, t
<1>4. Len(c) = Len(d)
  BY <1>1, <1>2, <1>3
<1>. QED  BY <1>1, <1>2, <1>3, <1>4

\* A file takes the place of the old one, by way of its copy.
Replaces(c) ==
    /\ DOMAIN host' = DOMAIN host \ {Temp(c)}
    /\ \A p \in DOMAIN host' :
          host'[p] = IF p = Target(c) THEN cont[c] ELSE host[p]
    /\ Target(c) \in DOMAIN host

\* The copy stays.
LeavesCopy(c) ==
    /\ DOMAIN host' = DOMAIN host \cup {Temp(c)}
    /\ \A p \in DOMAIN host \ {Temp(c)} : host'[p] = host[p]

\* The steps that fetch something
FetchesOne(c) ==
    /\ Take(c)
    /\ \/ phase' = phase /\ host' = host /\ tar' = tar /\ "unmodified" \in Verdicts(c)
       \/ phase' = phase /\ host' = host /\ outTar /\ tar' = tar \cup {c}
       \/ /\ phase' = phase /\ tar' = tar /\ ~outTar /\ cont[c].kind = "file"
          /\ ~There(c) /\ host' = Placed(c, cont[c])
       \/ /\ phase' = phase /\ tar' = tar /\ ~outTar /\ cont[c].kind = "file"
          /\ Replaces(c)
       \/ /\ phase' = phase /\ tar' = tar /\ cont[c].kind # "file" /\ ~There(c)
          /\ host' = Placed(c, Dir)
       \/ phase' = phase /\ host' = host /\ tar' = tar /\ cont[c].kind # "file"
       \/ phase' = "failed" /\ host' = host /\ tar' = tar
       \/ phase' = "failed" /\ tar' = tar /\ cont[c].kind = "file" /\ LeavesCopy(c)

LEMMA FetchSteps ==
    ASSUME Tar, ~Upload, ~StartDownload, ~Downloaded
    PROVE  \E c \in DOMAIN cont : FetchesOne(c)
<1>1. PICK c \in DOMAIN cont :
        \/ Unmodified(c) \/ IntoTar(c) \/ NewFile(c) \/ OldFile(c)
        \/ NewDirectory(c) \/ OldDirectory(c) \/ MemberRaises(c) \/ CopyRaises(c)
  BY DEF Tar
<1>2. CASE OldFile(c)
  <2>1. Replaces(c)
    BY <1>2 DEF OldFile, Replaces, There
  <2>. QED  BY <1>2, <2>1 DEF OldFile, Modified, FetchesOne
<1>3. CASE CopyRaises(c)
  <2>1. LeavesCopy(c)
    BY <1>3 DEF CopyRaises, LeavesCopy
  <2>. QED  BY <1>3, <2>1 DEF CopyRaises, Modified, FetchesOne
<1>4. CASE Unmodified(c) \/ IntoTar(c) \/ NewFile(c)
  BY <1>4 DEF Unmodified, IntoTar, NewFile, Modified, FetchesOne
<1>5. CASE NewDirectory(c) \/ OldDirectory(c) \/ MemberRaises(c)
  BY <1>5 DEF NewDirectory, OldDirectory, MemberRaises, Modified, FetchesOne
<1>. QED  BY <1>1, <1>2, <1>3, <1>4, <1>5

\* What the tool has written is not what was uploaded, unless it looks like it.
LEMMA NeverUnmodified ==
    ASSUME Origins, NEW c \in wrote, c \in DOMAIN cont,
           cont[c].from = "backdated" => c \notin DOMAIN stats
    PROVE  "unmodified" \notin Verdicts(c)
BY DEF Origins, Verdicts

\* What the tool has written is not lost on the way.
LEMMA FetchingStep ==
    ASSUME TypeOK, Waits, Origins, Fetching, Next
    PROVE  Fetching'
<1>1. CASE Analysis
  <2>1. wrote = {} /\ wrote' = wrote
    BY <1>1, AnalysisKeeps DEF Waits
  <2>. QED  BY <2>1 DEF Fetching
<1>2. CASE Transport /\ Upload
  <2>1. wrote = {} /\ wrote' = wrote
    BY <1>2, TransportKeeps DEF Waits, Upload
  <2>. QED  BY <2>1 DEF Fetching
<1>3. CASE Transport /\ StartDownload
  <2>1. wrote' = wrote /\ cont' = cont /\ phase' = "download" /\ todo' = Leaves
    BY <1>3, TransportKeeps DEF StartDownload
  <2>2. wrote \subseteq Leaves
    BY DEF Fetching, TypeOK, Leaves
  <2>. QED  BY <2>1, <2>2 DEF Fetching
<1>4. CASE Transport /\ Downloaded
  <2>1. /\ phase = "download" /\ \A c \in todo : ~Fetched(c)
        /\ UNCHANGED <<wrote, cont, stats, todo, lookIn, host, outTar, tar>>
    BY <1>4, TransportKeeps DEF Downloaded
  <2>2. \A c : Fetched(c)' <=> Fetched(c)
    BY <2>1 DEF Fetched
  <2>3. \A c : CopyOf(Target(c))' <=> CopyOf(Target(c))
    BY <2>1 DEF CopyOf
  <2>. QED  BY <2>1, <2>2, <2>3 DEF Fetching
<1>5. CASE Transport /\ ~Upload /\ ~StartDownload /\ ~Downloaded
  <2>1. PICK c \in DOMAIN cont : FetchesOne(c)
    BY <1>5, FetchSteps DEF Transport
  <2>2. /\ phase = "download" /\ todo' = todo \ {c}
        /\ UNCHANGED <<cont, outTar, wrote, stats>>
    BY <1>5, <2>1, TransportKeeps DEF Take, FetchesOne
  <2>3. ASSUME NEW w \in wrote PROVE \A d \in DOMAIN cont' : ~IsStrictPrefix(w, d)
    BY <2>2 DEF Fetching
  <2>4. ASSUME NEW w \in wrote, phase' \in {"download", "done"}, cont[w].kind = "file",
               cont[w].from = "backdated" => w \notin DOMAIN stats, ~CopyOf(Target(w))
        PROVE  \/ w \in todo'
               \/ IF outTar THEN w \in tar'
                  ELSE Target(w) \in DOMAIN host' /\ host'[Target(w)] = cont[w]
    <3>1. \/ w \in todo
          \/ IF outTar THEN w \in tar
             ELSE Target(w) \in DOMAIN host /\ host[Target(w)] = cont[w]
      BY <2>2, <2>4 DEF Fetching
    <3>2. w \in DOMAIN cont /\ w \in Plain /\ c \in Plain
      BY DEF TypeOK
    <3>3. ASSUME NEW e, host' = Placed(c, e)
          PROVE  /\ Target(c) \in DOMAIN host' /\ host'[Target(c)] = e
                 /\ \A p \in DOMAIN host \ {Target(c)} :
                       p \in DOMAIN host' /\ host'[p] = host[p]
      BY <3>3 DEF Placed, Put
    <3>4. cont[c].kind = "file" => Target(w) # Temp(c)
      BY <2>4 DEF CopyOf
    <3>5. CASE w = c
      <4>1. "unmodified" \notin Verdicts(c) /\ cont[c].kind = "file" /\ phase' # "failed"
        BY <2>4, <3>2, <3>5, NeverUnmodified
      <4>2. CASE outTar /\ tar' = tar \cup {c}
        BY <3>5, <4>2
      <4>3. CASE ~outTar /\ host' = Placed(c, cont[c])
        BY <3>3, <3>5, <4>3
      <4>4. CASE ~outTar /\ Replaces(c)
        BY <3>4, <3>5, <4>1, <4>4 DEF Replaces
      <4>. QED  BY <2>1, <4>1, <4>2, <4>3, <4>4 DEF FetchesOne
    <3>6. CASE w # c
      <4>1. Target(w) # Target(c)
        BY <3>2, <3>6, TargetsDiffer
      <4>2. CASE w \in todo
        BY <2>2, <3>6, <4>2
      <4>3. CASE outTar /\ w \in tar
        BY <2>1, <4>3 DEF FetchesOne
      <4>4. CASE ~outTar /\ Target(w) \in DOMAIN host /\ host[Target(w)] = cont[w]
        <5>1. CASE host' = host
          BY <4>4, <5>1
        <5>2. CASE \E e : host' = Placed(c, e)
          BY <3>3, <4>1, <4>4, <5>2
        <5>3. CASE Replaces(c) /\ cont[c].kind = "file"
          BY <3>4, <4>1, <4>4, <5>3 DEF Replaces
        <5>4. phase' # "failed"
          BY <2>4
        <5>. QED  BY <2>1, <5>1, <5>2, <5>3, <5>4 DEF FetchesOne
      <4>. QED  BY <3>1, <4>2, <4>3, <4>4
    <3>. QED  BY <3>5, <3>6
  <2>5. phase' # "done"
    BY <2>1, <2>2 DEF FetchesOne
  <2>6. \A w : /\ Target(w)' = Target(w)
              /\ CopyOf(Target(w))' <=> CopyOf(Target(w))
    BY <2>2 DEF CopyOf
  <2>. QED  BY <2>2, <2>3, <2>4, <2>5, <2>6 DEF Fetching
<1>6. CASE ToolWrites
  <2>1. PICK c \in ToolNames :
          /\ wrote' = {c}
          /\ \A d \in DOMAIN cont : ~IsStrictPrefix(c, d)
          /\ DOMAIN cont' = {c} \cup DOMAIN cont \cup Parents(c)
    BY <1>6, ToolKeeps
  <2>2. phase' = "exec"
    BY <1>6, ToolKeeps
  <2>3. c \in Seq(Name)
    BY TransferAssumption, PlainMeans
  <2>4. ASSUME NEW q \in Parents(c) \cup {c} PROVE ~IsStrictPrefix(c, q)
    <3>1. q = c \/ Len(q) < Len(c)
      BY <2>3, ParentsType
    <3>2. Len(q) < Len(c) => ~(Len(c) <= Len(q))
      BY <2>3, <2>4, ParentsType
    <3>. QED  BY <3>1, <3>2 DEF IsStrictPrefix, IsPrefix
  <2>. QED  BY <2>1, <2>2, <2>4 DEF Fetching
<1>. QED  BY <1>1, <1>2, <1>3, <1>4, <1>5, <1>6 DEF Next

----------------------------------------------------------------------------
(* What the host keeps *)

\* What may be at a path of the host
MayBe(p, entry) ==
    \/ p \in DOMAIN start /\ entry = start[p]
    \/ p \notin DOMAIN start /\ entry.kind = "dir"
    \/ \E c \in DOMAIN cont : p = Target(c) /\ (c \in wrote \/ Borrowed(c))
    \/ CopyOf(p)

\* A file from the container may be at its target.
LEMMA FileMayBe ==
    ASSUME Origins, NEW c \in DOMAIN cont, cont[c].kind = "file"
    PROVE  MayBe(Target(c), cont[c])
BY DEF Origins, MayBe, Target

\* Only the download changes the host.
LEMMA HostKeptStep ==
    ASSUME TypeOK, Waits, Origins, HostKept, Next
    PROVE  HostKept'
<1>0. phase \in {"resolve", "detect", "upload", "exec"} => host = start
  BY DEF Waits
<1>1. ASSUME host' = host, start' = start, host = start PROVE HostKept'
  BY <1>1 DEF HostKept
<1>2. CASE Analysis
  BY <1>0, <1>1, <1>2, AnalysisKeeps
<1>3. CASE ToolWrites
  BY <1>0, <1>1, <1>3, ToolKeeps
<1>4. CASE Transport /\ (Upload \/ StartDownload)
  BY <1>0, <1>1, <1>4, TransportKeeps DEF Upload, StartDownload
<1>5. CASE Transport /\ ~Upload /\ ~StartDownload
  <2>1. UNCHANGED <<start, wrote, cont, inTar, uploads>>
    BY <1>5, TransportKeeps
  <2>2. \A p : CopyOf(p)' <=> CopyOf(p)
    BY <2>1 DEF CopyOf
  <2>3. \A c : Borrowed(c)' <=> Borrowed(c)
    BY <2>1 DEF Borrowed
  <2>4. \A p \in DOMAIN start : p \in DOMAIN host \/ CopyOf(p)
    BY DEF HostKept
  <2>5. \A p \in DOMAIN host : MayBe(p, host[p])
    BY DEF HostKept, MayBe
  <2>6. /\ \A p \in DOMAIN start : p \in DOMAIN host' \/ CopyOf(p)
        /\ \A p \in DOMAIN host' : MayBe(p, host'[p])
    <3>1. CASE host' = host
      BY <2>4, <2>5, <3>1
    <3>2. CASE host' # host
      <4>1. PICK c \in DOMAIN cont : FetchesOne(c)
        BY <1>5, <3>2, FetchSteps DEF Transport, Downloaded
      <4>2. CASE \E e : /\ host' = Placed(c, e)
                        /\ \/ e = cont[c] /\ cont[c].kind = "file"
                           \/ e = Dir /\ ~There(c)
        <5>1. PICK e : /\ host' = Placed(c, e)
                       /\ \/ e = cont[c] /\ cont[c].kind = "file"
                          \/ e = Dir /\ ~There(c)
          BY <4>2
        <5>2. /\ DOMAIN host' = {Target(c)} \cup DOMAIN host \cup Parents(Target(c))
              /\ host'[Target(c)] = e
              /\ \A p \in DOMAIN host \ {Target(c)} : host'[p] = host[p]
              /\ \A p \in Parents(Target(c)) \ ({Target(c)} \cup DOMAIN host) :
                    host'[p] = Dir
          BY <5>1 DEF Placed, Put
        <5>3. \A p : p \notin DOMAIN host => MayBe(p, Dir)
          BY <2>4 DEF MayBe, Dir
        <5>4. MayBe(Target(c), e)
          BY <5>1, <5>3, FileMayBe DEF There
        <5>. QED  BY <2>4, <2>5, <5>2, <5>3, <5>4
      <4>3. CASE Replaces(c) /\ cont[c].kind = "file"
        <5>1. CopyOf(Temp(c))
          BY <4>3 DEF CopyOf
        <5>2. \A p \in DOMAIN start : p \in DOMAIN host' \/ CopyOf(p)
          BY <2>4, <4>3, <5>1 DEF Replaces
        <5>3. \A p \in DOMAIN host' : MayBe(p, host'[p])
          BY <2>5, <4>3, FileMayBe DEF Replaces
        <5>. QED  BY <5>2, <5>3
      <4>4. CASE LeavesCopy(c) /\ cont[c].kind = "file"
        <5>1. CopyOf(Temp(c)) /\ \A e : MayBe(Temp(c), e)
          BY <4>4 DEF CopyOf, MayBe
        <5>. QED  BY <2>4, <2>5, <4>4, <5>1 DEF LeavesCopy
      <4>. QED  BY <3>2, <4>1, <4>2, <4>3, <4>4 DEF FetchesOne
    <3>. QED  BY <3>1, <3>2
  <2>7. (\A p \in DOMAIN start : p \in DOMAIN host \/ CopyOf(p))'
    BY <2>1, <2>2, <2>6
  <2>8. ASSUME NEW p \in DOMAIN host'
        PROVE  \/ p \in DOMAIN start' /\ host'[p] = start'[p]
               \/ p \notin DOMAIN start' /\ host'[p].kind = "dir"
               \/ \E c \in DOMAIN cont' : p = Target(c) /\ (c \in wrote' \/ Borrowed(c)')
               \/ CopyOf(p)'
    <3>1. MayBe(p, host'[p])
      BY <2>6
    <3>. QED  BY <2>1, <2>2, <2>3, <3>1 DEF MayBe
  <2>. QED  BY <2>7, <2>8 DEF HostKept
<1>. QED  BY <1>2, <1>3, <1>4, <1>5 DEF Next

----------------------------------------------------------------------------
(* Texts *)

\* Joining sequences, place by place.
LEMMA JoinedPlaces ==
    ASSUME NEW S, NEW s \in Seq(S), NEW t \in Seq(S)
    PROVE  /\ s \o t \in Seq(S) /\ Len(s \o t) = Len(s) + Len(t)
           /\ \A i \in 1..Len(s) : (s \o t)[i] = s[i]
           /\ \A i \in 1..Len(t) : (s \o t)[Len(s) + i] = t[i]
OBVIOUS

\* Joining is associative, and <<>> adds nothing.
LEMMA JoinedTwice ==
    ASSUME NEW S, NEW s \in Seq(S), NEW t \in Seq(S), NEW u \in Seq(S)
    PROVE  /\ (s \o t) \o u = s \o (t \o u)
           /\ s \o <<>> = s /\ <<>> \o s = s
OBVIOUS

\* What it means that one text is in another at a place.
LEMMA OccursMeans ==
    ASSUME NEW S, NEW s \in Seq(S), NEW t \in Seq(S), NEW i \in 1..Len(t)
    PROVE  IsPrefix(s, SubSeq(t, i, Len(t))) <=>
              /\ i + Len(s) <= Len(t) + 1
              /\ \A k \in 1..Len(s) : t[i + k - 1] = s[k]
<1>. DEFINE r == SubSeq(t, i, Len(t))
<1>1. /\ r \in Seq(S) /\ Len(r) = Len(t) - i + 1
      /\ \A k \in 1..Len(r) : r[k] = t[i + k - 1]
  OBVIOUS
<1>2. SubSeq(s, 1, Len(s)) = s
  OBVIOUS
<1>. HIDE DEF r
<1>3. Len(s) <= Len(r) => /\ SubSeq(r, 1, Len(s)) \in Seq(S)
                          /\ Len(SubSeq(r, 1, Len(s))) = Len(s)
                          /\ \A k \in 1..Len(s) : SubSeq(r, 1, Len(s))[k] = r[k]
  BY <1>1
<1>4. IsPrefix(s, r) <=> Len(s) <= Len(r) /\ \A k \in 1..Len(s) : r[k] = s[k]
  BY <1>1, <1>2, <1>3 DEF IsPrefix
<1>5. ASSUME Len(s) <= Len(r), NEW k \in 1..Len(s) PROVE r[k] = t[i + k - 1]
  <2>1. k \in 1..Len(r)
    BY <1>1, <1>5
  <2>. QED  BY <1>1, <2>1
<1>6. Len(s) <= Len(r) <=> i + Len(s) <= Len(t) + 1
  <2>1. Len(s) \in Nat /\ Len(t) \in Nat
    OBVIOUS
  <2>. QED  BY <1>1, <2>1
<1>7. IsPrefix(s, r) <=> Len(s) <= Len(r) /\ \A k \in 1..Len(s) : t[i + k - 1] = s[k]
  BY <1>4, <1>5
<1>. QED  BY <1>6, <1>7 DEF r

\* What ReplaceText puts for the text from a place on, given what it puts for
\* that from later places on.
After(text, old, new, from, i) ==
    IF i > Len(text) THEN <<>>
    ELSE IF IsPrefix(old, SubSeq(text, i, Len(text)))
         THEN new \o from[i + Len(old)]
         ELSE <<text[i]>> \o from[i + 1]

\* It looks only at later places.
LEMMA OccursLater ==
    ASSUME NEW S, NEW text \in Seq(S), NEW old \in Seq(S), Len(old) > 0,
           NEW i \in 1..Len(text), IsPrefix(old, SubSeq(text, i, Len(text)))
    PROVE  i + Len(old) \in (i + 1)..(Len(text) + 1)
BY OccursMeans

\* ReplaceText goes through the text from its end.
LEMMA ReplaceIs ==
    ASSUME NEW S, NEW text \in Seq(S), NEW old \in Seq(S), Len(old) > 0, NEW new,
           NEW g, g = [i \in 1..(Len(text) + 1) |-> g[i]],
           \A i \in 1..(Len(text) + 1) : g[i] = After(text, old, new, g, i)
    PROVE  ReplaceText(text, old, new) = g[1]
<1>. DEFINE L == Len(text)
            Def(f) == [i \in 1..(L + 1) |-> After(text, old, new, f, i)]
            d == CHOOSE f : f = Def(f)
<1>1. L \in Nat /\ L = Len(text)
  OBVIOUS
<1>2. g = Def(g)
  OBVIOUS
<1>3. d = Def(d)
  <2>. HIDE DEF Def
  <2>. QED  BY <1>2
<1>4. ReplaceText(text, old, new) = d[1]
  BY DEF ReplaceText, After
<1>. HIDE DEF d, L
<1>5. \A i \in 1..(L + 1) : d[i] = After(text, old, new, d, i)
  <2>1. \A i \in 1..(L + 1) : d[i] = Def(d)[i]
    BY <1>3
  <2>. QED  BY <2>1
<1>. DEFINE T == {n \in 0..L : \A i \in (L + 1 - n)..(L + 1) : d[i] = g[i]}
<1>6. 0 \in T
  <2>1. \A i \in (L + 1 - 0)..(L + 1) : i \in 1..(L + 1) /\ i > Len(text)
    BY <1>1
  <2>2. \A i \in (L + 1 - 0)..(L + 1) : d[i] = <<>> /\ g[i] = <<>>
    BY <1>1, <1>5, <2>1 DEF After
  <2>3. 0 \in 0..L
    BY <1>1
  <2>. QED  BY <2>2, <2>3
<1>7. ASSUME NEW n \in 0..(L - 1), n \in T PROVE n + 1 \in T
  <2>0. L - n \in 1..(L + 1) /\ (L - n) + 1 = L + 1 - n
    BY <1>1
  <2>1. L - n \in 1..(L + 1) /\ \A k \in ((L - n) + 1)..(L + 1) : d[k] = g[k]
    BY <1>7, <2>0
  <2>2. d[L - n] = g[L - n]
    <3>. DEFINE j == L - n
    <3>0. j \in 1..(Len(text) + 1) /\ \A k \in (j + 1)..(Len(text) + 1) : d[k] = g[k]
      BY <1>1, <2>1
    <3>. HIDE DEF j
    <3>1. d[j] = After(text, old, new, d, j) /\ g[j] = After(text, old, new, g, j)
      BY <1>1, <1>5, <3>0
    <3>2. CASE j > Len(text)
      BY <3>1, <3>2 DEF After, j
    <3>3. CASE j <= Len(text)
      <4>1. j \in 1..Len(text) /\ d[j + 1] = g[j + 1]
        <5>1. j \in 1..Len(text) /\ j + 1 \in (j + 1)..(Len(text) + 1)
          BY <3>0, <3>3
        <5>. HIDE DEF j
        <5>. QED  BY <3>0, <5>1
      <4>2. IsPrefix(old, SubSeq(text, j, Len(text))) => d[j + Len(old)] = g[j + Len(old)]
        BY <3>0, <4>1, OccursLater
      <4>. QED  BY <3>1, <3>3, <4>1, <4>2 DEF After, j
    <3>. QED  BY <3>0, <3>2, <3>3
  <2>3. \A i \in (L + 1 - (n + 1))..(L + 1) : i = L - n \/ i \in ((L - n) + 1)..(L + 1)
    BY <1>1
  <2>4. n + 1 \in 0..L
    BY <1>1
  <2>. QED  BY <2>1, <2>2, <2>3, <2>4
<1>8. L \in T
  <2>. HIDE DEF T
  <2>1. 0..L \subseteq T
    BY <1>1, <1>6, <1>7, Upwards
  <2>. QED  BY <1>1, <2>1
<1>. QED  BY <1>1, <1>4, <1>8

\* There is such a function.
LEMMA ReplaceUnfolds ==
    ASSUME NEW S, NEW text \in Seq(S), NEW old \in Seq(S), Len(old) > 0,
           NEW new \in Seq(S)
    PROVE  \E f \in [1..(Len(text) + 1) -> Seq(S)] :
              /\ \A i \in 1..(Len(text) + 1) : f[i] = After(text, old, new, f, i)
              /\ ReplaceText(text, old, new) = f[1]
<1>. DEFINE L == Len(text)
            D == [1..(L + 1) -> Seq(S)]
            Put1(t, i) == [t EXCEPT ![i] = After(text, old, new, t, i)]
            step == [n \in 1..L |-> [t \in D |-> Put1(t, L + 1 - n)]]
            base == [i \in 1..(L + 1) |-> <<>>]
<1>1. L \in Nat /\ L = Len(text) /\ base \in D
  OBVIOUS
<1>. HIDE DEF L
<1>2. ASSUME NEW t \in D, NEW i \in 1..L
      PROVE  After(text, old, new, t, i) \in Seq(S)
  <2>1. CASE IsPrefix(old, SubSeq(text, i, Len(text)))
    <3>1. i + Len(old) \in 1..(L + 1)
      BY <1>1, <2>1, OccursLater
    <3>2. After(text, old, new, t, i) = new \o t[i + Len(old)]
      BY <1>1, <2>1 DEF After
    <3>. QED  BY <3>1, <3>2
  <2>2. CASE ~IsPrefix(old, SubSeq(text, i, Len(text)))
    <3>1. i + 1 \in 1..(L + 1) /\ text[i] \in S
      BY <1>1
    <3>2. After(text, old, new, t, i) = <<text[i]>> \o t[i + 1]
      BY <1>1, <2>2 DEF After
    <3>3. t[i + 1] \in Seq(S) /\ <<text[i]>> \in Seq(S)
      BY <3>1
    <3>. QED  BY <3>2, <3>3
  <2>. QED  BY <2>1, <2>2
<1>3. step \in [1..L -> [D -> D]]
  <2>1. ASSUME NEW n \in 1..L, NEW t \in D PROVE Put1(t, L + 1 - n) \in D
    <3>1. L + 1 - n \in 1..L
      BY <1>1
    <3>. QED  BY <3>1, <1>2
  <2>. HIDE DEF D, Put1
  <2>. QED  BY <2>1
<1>4. PICK h : Iterates(h, L, D, base, step)
  <2>. HIDE DEF step, D, base
  <2>. QED  BY <1>1, <1>3, Iterated
<1>5. h \in [0..L -> D] /\ h[0] = base
      /\ \A n \in 1..L : h[n] = Put1(h[n - 1], L + 1 - n)
  <2>1. h \in [0..L -> D] /\ h[0] = base /\ \A n \in 1..L : h[n] = step[n][h[n - 1]]
    BY <1>4 DEF Iterates
  <2>. HIDE DEF D, Put1, base
  <2>2. \A n \in 1..L : h[n - 1] \in D
    <3>1. \A n \in 1..L : n - 1 \in 0..L
      BY <1>1
    <3>. HIDE DEF step
    <3>. QED  BY <2>1, <3>1
  <2>3. ASSUME NEW n \in 1..L PROVE step[n][h[n - 1]] = Put1(h[n - 1], L + 1 - n)
    BY <2>2
  <2>. QED  BY <2>1, <2>3
<1>. DEFINE T == {n \in 0..L : \A i \in (L + 1 - n)..(L + 1) :
                                  h[n][i] = After(text, old, new, h[n], i)}
<1>6. 0 \in T
  <2>1. \A i \in (L + 1 - 0)..(L + 1) : i \in 1..(L + 1) /\ i > Len(text)
    BY <1>1
  <2>. QED  BY <1>1, <1>5, <2>1 DEF After
<1>7. ASSUME NEW n \in 0..(L - 1), n \in T PROVE n + 1 \in T
  <2>. DEFINE j == L - n
              t == h[n]
              u == h[n + 1]
  <2>1. j \in 1..L /\ n + 1 \in 1..L /\ (n + 1) - 1 = n /\ L + 1 - (n + 1) = j /\ n \in 0..L
    BY <1>1
  <2>2. t \in D /\ u = Put1(t, j)
    BY <1>5, <2>1
  <2>3. \A i \in (j + 1)..(L + 1) : t[i] = After(text, old, new, t, i)
    BY <1>1, <1>7
  <2>. HIDE DEF t, u, j, T
  <2>4. u[j] = After(text, old, new, t, j) /\ \A i \in 1..(L + 1) : i # j => u[i] = t[i]
    <3>. DEFINE a == After(text, old, new, t, j)
    <3>1. u = [t EXCEPT ![j] = a] /\ t \in [1..(L + 1) -> Seq(S)] /\ j \in 1..(L + 1)
      BY <1>1, <2>1, <2>2
    <3>. HIDE DEF a
    <3>2. u[j] = a /\ \A i \in 1..(L + 1) : i # j => u[i] = t[i]
      BY <3>1
    <3>. QED  BY <3>2 DEF a
  <2>5. ASSUME NEW i \in j..(L + 1) PROVE u[i] = After(text, old, new, u, i)
    <3>1. \A k \in (i + 1)..(L + 1) : t[k] = u[k]
      BY <1>1, <2>1, <2>4
    <3>2. After(text, old, new, t, i) = After(text, old, new, u, i)
      <4>1. CASE i > Len(text)
        BY <4>1 DEF After
      <4>2. CASE i <= Len(text)
        <5>1. i \in 1..Len(text) /\ t[i + 1] = u[i + 1]
          BY <1>1, <2>1, <3>1, <4>2
        <5>2. IsPrefix(old, SubSeq(text, i, Len(text))) => t[i + Len(old)] = u[i + Len(old)]
          BY <1>1, <3>1, <5>1, OccursLater
        <5>. QED  BY <4>2, <5>1, <5>2 DEF After
      <4>. QED  BY <1>1, <2>1, <4>1, <4>2
    <3>3. CASE i = j
      BY <2>4, <3>2, <3>3
    <3>4. CASE i # j
      <4>1. i \in (j + 1)..(L + 1) /\ i \in 1..(L + 1)
        BY <1>1, <2>1, <3>4
      <4>. QED  BY <2>3, <2>4, <3>2, <3>4, <4>1
    <3>. QED  BY <3>3, <3>4
  <2>. QED  BY <2>1, <2>5 DEF T, u
<1>8. L \in T
  <2>. HIDE DEF T
  <2>1. 0..L \subseteq T
    BY <1>1, <1>6, <1>7, Upwards
  <2>. QED  BY <1>1, <2>1
<1>. DEFINE f == h[L]
<1>9. f \in D /\ \A i \in 1..(L + 1) : f[i] = After(text, old, new, f, i)
  <2>1. L \in 0..L /\ L + 1 - L = 1
    BY <1>1
  <2>2. f \in D
    BY <1>5, <2>1
  <2>3. \A i \in (L + 1 - L)..(L + 1) : f[i] = After(text, old, new, f, i)
    BY <1>8
  <2>. HIDE DEF f, D
  <2>. QED  BY <2>1, <2>2, <2>3
<1>. HIDE DEF f
<1>10. ReplaceText(text, old, new) = f[1]
  <2>1. f = [i \in 1..(Len(text) + 1) |-> f[i]]
    BY <1>1, <1>9
  <2>2. \A i \in 1..(Len(text) + 1) : f[i] = After(text, old, new, f, i)
    BY <1>1, <1>9
  <2>. QED  BY <2>1, <2>2, ReplaceIs
<1>. QED  BY <1>1, <1>9, <1>10

\* A text from a place on begins with what occurs there.
LEMMA OccursSplits ==
    ASSUME NEW S, NEW s \in Seq(S), NEW t \in Seq(S), NEW i \in 1..(Len(t) + 1),
           i + Len(s) <= Len(t) + 1, \A k \in 1..Len(s) : t[i + k - 1] = s[k]
    PROVE  SubSeq(t, i, Len(t)) = s \o SubSeq(t, i + Len(s), Len(t))
<1>. DEFINE l == SubSeq(t, i, Len(t))
            u == SubSeq(t, i + Len(s), Len(t))
            r == s \o u
<1>1. /\ l \in Seq(S) /\ Len(l) = Len(t) - i + 1
      /\ \A k \in 1..Len(l) : l[k] = t[i + k - 1]
  OBVIOUS
<1>2. /\ u \in Seq(S) /\ Len(u) = Len(t) - i + 1 - Len(s)
      /\ \A k \in 1..Len(u) : u[k] = t[i + Len(s) + k - 1]
  <2>. DEFINE m == i + Len(s)
  <2>1. m \in 1..(Len(t) + 1)
    OBVIOUS
  <2>. HIDE DEF m
  <2>2. LET v == SubSeq(t, m, Len(t))
        IN  v \in Seq(S) /\ Len(v) = Len(t) - m + 1 /\ \A k \in 1..Len(v) : v[k] = t[m + k - 1]
    BY <2>1
  <2>3. Len(t) - m + 1 = Len(t) - i + 1 - Len(s)
    BY DEF m
  <2>. QED  BY <2>2, <2>3 DEF m
<1>. HIDE DEF l, u
<1>3. /\ r \in Seq(S) /\ Len(r) = Len(s) + Len(u)
      /\ \A k \in 1..Len(s) : r[k] = s[k]
      /\ \A k \in 1..Len(u) : r[Len(s) + k] = u[k]
  BY <1>2, JoinedPlaces
<1>. HIDE DEF r
<1>4. ASSUME NEW k \in 1..Len(l) PROVE l[k] = r[k]
  <2>1. CASE k <= Len(s)
    BY <2>1, <1>1, <1>3
  <2>2. CASE k > Len(s)
    <3>1. k - Len(s) \in 1..Len(u) /\ Len(s) + (k - Len(s)) = k
      BY <2>2, <1>1, <1>2
    <3>2. r[k] = t[i + Len(s) + (k - Len(s)) - 1]
      BY <3>1, <1>2, <1>3
    <3>3. i + Len(s) + (k - Len(s)) - 1 = i + k - 1
      BY <3>1
    <3>. QED  BY <3>2, <3>3, <1>1
  <2>. QED  BY <2>1, <2>2, <1>1
<1>5. Len(l) = Len(r)
  BY <1>1, <1>2, <1>3
<1>. QED  BY <1>1, <1>3, <1>4, <1>5 DEF l, r, u

\* A text from a place on is the one there and the rest.
LEMMA OneSplits ==
    ASSUME NEW S, NEW t \in Seq(S), NEW i \in 1..Len(t)
    PROVE  SubSeq(t, i, Len(t)) = <<t[i]>> \o SubSeq(t, i + 1, Len(t))
<1>1. /\ <<t[i]>> \in Seq(S) /\ Len(<<t[i]>>) = 1
      /\ \A k \in 1..1 : t[i + k - 1] = <<t[i]>>[k]
  OBVIOUS
<1>2. i \in 1..(Len(t) + 1) /\ i + 1 <= Len(t) + 1
  OBVIOUS
<1>. QED  BY <1>1, <1>2, OccursSplits

\* What is replaced by itself leaves the text as it is.
LEMMA ReplacedBySame ==
    ASSUME NEW S, NEW text \in Seq(S), NEW old \in Seq(S), Len(old) > 0
    PROVE  ReplaceText(text, old, old) = text
<1>. DEFINE L == Len(text)
            g == [i \in 1..(L + 1) |-> SubSeq(text, i, L)]
<1>1. \A i \in 1..(L + 1) : g[i] = SubSeq(text, i, L)
  OBVIOUS
<1>2. g = [i \in 1..(L + 1) |-> g[i]]
  OBVIOUS
<1>. HIDE DEF g
<1>3. ASSUME NEW i \in 1..(L + 1) PROVE g[i] = After(text, old, old, g, i)
  <2>1. CASE i > L
    BY <1>1, <2>1 DEF After
  <2>2. CASE i <= L /\ IsPrefix(old, SubSeq(text, i, L))
    <3>1. i + Len(old) <= L + 1 /\ \A k \in 1..Len(old) : text[i + k - 1] = old[k]
      BY <2>2, OccursMeans
    <3>2. SubSeq(text, i, L) = old \o SubSeq(text, i + Len(old), L)
      BY <3>1, OccursSplits
    <3>3. g[i + Len(old)] = SubSeq(text, i + Len(old), L)
      BY <1>1, <3>1
    <3>4. After(text, old, old, g, i) = old \o g[i + Len(old)]
      BY <2>2 DEF After
    <3>. QED  BY <1>1, <3>2, <3>3, <3>4
  <2>3. CASE i <= L /\ ~IsPrefix(old, SubSeq(text, i, L))
    <3>1. SubSeq(text, i, L) = <<text[i]>> \o SubSeq(text, i + 1, L)
      BY <2>3, OneSplits
    <3>2. g[i + 1] = SubSeq(text, i + 1, L)
      BY <1>1, <2>3
    <3>3. After(text, old, old, g, i) = <<text[i]>> \o g[i + 1]
      BY <2>3 DEF After
    <3>. QED  BY <1>1, <3>1, <3>2, <3>3
  <2>. QED  BY <2>1, <2>2, <2>3
<1>4. ReplaceText(text, old, old) = g[1]
  BY <1>2, <1>3, ReplaceIs
<1>5. SubSeq(text, 1, Len(text)) = text /\ 1 \in 1..(L + 1)
  OBVIOUS
<1>6. g[1] = SubSeq(text, 1, L)
  BY <1>1, <1>5
<1>. QED  BY <1>4, <1>5, <1>6

\* A text in pieces grows piece by piece.
JoinsUp(J, S, q, N) ==
    /\ J \in [0..N -> Seq(S)] /\ J[0] = <<>>
    /\ \A n \in 1..N : J[n] = J[n - 1] \o q[n]
    /\ FlattenSeq(q) = J[N]

LEMMA FlattenJoins ==
    ASSUME NEW S, NEW N \in Nat, N > 0, NEW q \in [1..N -> Seq(S)]
    PROVE  \E J : JoinsUp(J, S, q, N)
<1>. DEFINE D == Seq(S)
            right == [n \in 1..N |-> [s \in D |-> s \o q[n]]]
<1>0. <<>> \in D /\ \A n \in 1..N : q[n] \in D
  OBVIOUS
<1>1. right \in [1..N -> [D -> D]]
  BY <1>0
<1>3. PICK J : Iterates(J, N, D, <<>>, right)
  <2>. HIDE DEF right, D
  <2>. QED  BY <1>0, <1>1, Iterated
<1>5. J \in [0..N -> D] /\ J[0] = <<>> /\ \A n \in 1..N : J[n] = J[n - 1] \o q[n]
  <2>1. \A n \in 1..N : n - 1 \in 0..N
    OBVIOUS
  <2>. HIDE DEF D
  <2>. QED  BY <1>3, <2>1 DEF Iterates
<1>13. J[1] = q[1]
  <2>1. 1 \in 1..N /\ 1 - 1 = 0 /\ q[1] \in D
    BY <1>0
  <2>2. J[1] = <<>> \o q[1]
    BY <1>5, <2>1
  <2>. QED  BY <2>1, <2>2, JoinedTwice
<1>8. FlattenSeq(q) = J[N]
  <2>. DEFINE Def(f) == [n \in 1..N |-> IF n = 1 THEN q[n] ELSE f[n - 1] \o q[n]]
              d == CHOOSE f : f = Def(f)
              g == [n \in 1..N |-> J[n]]
  <2>1. g = Def(g)
    <3>1. J[1] = q[1]
      BY <1>13
    <3>2. \A n \in 1..N : n # 1 => n - 1 \in 1..N
      OBVIOUS
    <3>3. ASSUME NEW n \in 1..N PROVE g[n] = IF n = 1 THEN q[n] ELSE g[n - 1] \o q[n]
      BY <3>1, <3>2, <1>5
    <3>. QED  BY <3>3
  <2>2. d = Def(d)
    <3>. HIDE DEF Def
    <3>. QED  BY <2>1
  <2>3. Len(q) = N
    OBVIOUS
  <2>4. FlattenSeq(q) = d[N]
    BY <2>3 DEF FlattenSeq
  <2>. HIDE DEF d
  <2>5. \A n \in 1..N : d[n] = IF n = 1 THEN q[n] ELSE d[n - 1] \o q[n]
    <3>1. \A n \in 1..N : d[n] = Def(d)[n]
      BY <2>2
    <3>. QED  BY <3>1
  <2>. DEFINE T == {n \in 0..N : n > 0 => d[n] = J[n]}
  <2>6. 0 \in T
    OBVIOUS
  <2>7. ASSUME NEW n \in 0..(N - 1), n \in T PROVE n + 1 \in T
    <3>1. n + 1 \in 1..N /\ (n + 1) - 1 = n
      OBVIOUS
    <3>2. CASE n = 0
      BY <1>13, <2>5, <3>1, <3>2
    <3>3. CASE n > 0
      <4>1. d[n] = J[n] /\ n + 1 # 1
        BY <2>7, <3>3
      <4>2. d[n + 1] = d[(n + 1) - 1] \o q[n + 1]
        BY <2>5, <3>1, <4>1
      <4>3. J[n + 1] = J[(n + 1) - 1] \o q[n + 1]
        BY <1>5, <3>1
      <4>4. d[n + 1] = J[n + 1]
        <5>1. d[(n + 1) - 1] = J[(n + 1) - 1]
          BY <3>1, <4>1
        <5>. QED  BY <4>2, <4>3, <5>1
      <4>. QED  BY <4>4
    <3>. QED  BY <3>2, <3>3
  <2>8. N \in T
    <3>. HIDE DEF T
    <3>1. 0..N \subseteq T
      BY <2>6, <2>7, Upwards
    <3>. QED  BY <3>1
  <2>. QED  BY <2>4, <2>8
<1>. QED  BY <1>5, <1>8 DEF JoinsUp

\* What ReplaceText goes through
Unfolds(f, S, text, old, new) ==
    /\ f \in [1..(Len(text) + 1) -> Seq(S)]
    /\ \A i \in 1..(Len(text) + 1) : f[i] = After(text, old, new, f, i)
    /\ ReplaceText(text, old, new) = f[1]

LEMMA TextUnfolds ==
    ASSUME NEW S, NEW text \in Seq(S), NEW old \in Seq(S), Len(old) > 0,
           NEW new \in Seq(S)
    PROVE  \E f : Unfolds(f, S, text, old, new)
BY ReplaceUnfolds DEF Unfolds

Without(mark, t) == \A k \in 1..Len(t) : t[k] # mark

\* The same as \o, for leaves that only regroup
Cat(s, t) == s \o t

LEMMA Regrouped ==
    ASSUME NEW S
    PROVE  \A x, y, z \in Seq(S) :
              Cat(x, y) \in Seq(S) /\ Cat(Cat(x, y), z) = Cat(x, Cat(y, z))
BY JoinedPlaces, JoinedTwice DEF Cat

\* What Follows After from place to place is what ReplaceText goes through.
Follows(g, text, old, new) ==
    /\ g = [i \in 1..(Len(text) + 1) |-> g[i]]
    /\ \A i \in 1..(Len(text) + 1) : g[i] = After(text, old, new, g, i)

LEMMA FollowsIs ==
    ASSUME NEW S, NEW text \in Seq(S), NEW old \in Seq(S), Len(old) > 0, NEW new,
           NEW g, Follows(g, text, old, new)
    PROVE  ReplaceText(text, old, new) = g[1]
BY ReplaceIs DEF Follows

\* Two texts with a mark between them
WithMark(mark, s, t) == (s \o <<mark>>) \o t

\* Two texts and something between them
LEMMA BetweenPlaces ==
    ASSUME NEW S, NEW u \in Seq(S), NEW c \in S, NEW v \in Seq(S)
    PROVE  LET t == (u \o <<c>>) \o v
           IN  /\ t \in Seq(S) /\ Len(t) = Len(u) + 1 + Len(v)
               /\ \A k \in 1..Len(u) : t[k] = u[k]
               /\ t[Len(u) + 1] = c
               /\ \A k \in 1..Len(v) : t[Len(u) + 1 + k] = v[k]
<1>. DEFINE a == u \o <<c>>
            t == a \o v
<1>1. <<c>> \in Seq(S) /\ Len(<<c>>) = 1 /\ <<c>>[1] = c
  OBVIOUS
<1>2. /\ a \in Seq(S) /\ Len(a) = Len(u) + 1
      /\ \A k \in 1..Len(u) : a[k] = u[k]
      /\ a[Len(u) + 1] = c
  OBVIOUS
<1>. HIDE DEF a
<1>3. /\ t \in Seq(S) /\ Len(t) = Len(a) + Len(v)
      /\ \A k \in 1..Len(a) : t[k] = a[k]
      /\ \A k \in 1..Len(v) : t[Len(a) + k] = v[k]
  BY <1>2
<1>. HIDE DEF t
<1>4. \A k \in 1..(Len(u) + 1) : k \in 1..Len(a)
  BY <1>2
<1>5. Len(u) \in Nat
  OBVIOUS
<1>6. /\ t \in Seq(S) /\ Len(t) = Len(u) + 1 + Len(v)
      /\ \A k \in 1..Len(u) : t[k] = u[k]
      /\ t[Len(u) + 1] = c
      /\ \A k \in 1..Len(v) : t[Len(u) + 1 + k] = v[k]
  BY <1>2, <1>3, <1>4, <1>5
<1>. QED  BY <1>6 DEF t, a

\* A text is replaced piece by piece at a mark, as no mark is replaced.
LEMMA ReplacedAtMark ==
    ASSUME NEW S, NEW mark \in S, NEW u \in Seq(S), NEW v \in Seq(S),
           NEW old \in Seq(S), Len(old) > 0, Without(mark, old), NEW new \in Seq(S)
    PROVE  ReplaceText(WithMark(mark, u, v), old, new)
              = WithMark(mark, ReplaceText(u, old, new), ReplaceText(v, old, new))
<1>. DEFINE C == <<mark>>
            t == (u \o C) \o v
            U == Len(u)
            V == Len(v)
            L == Len(t)
            O == Len(old)
<1>1. C \in Seq(S) /\ Len(C) = 1 /\ C[1] = mark
  OBVIOUS
<1>. HIDE DEF C
<1>3. U \in Nat /\ V \in Nat /\ O \in Nat /\ O > 0
      /\ L = U + 1 + V /\ L \in Nat
  <2>1. U \in Nat /\ V \in Nat /\ O \in Nat /\ O > 0
    OBVIOUS
  <2>2. L = U + 1 + V
    BY BetweenPlaces, SMTT(30) DEF C
  <2>. HIDE DEF U, V, L, O
  <2>. QED  BY <2>1, <2>2
<1>4. /\ t \in Seq(S)
      /\ \A k \in 1..U : t[k] = u[k]
      /\ t[U + 1] = mark
      /\ \A k \in 1..V : t[U + 1 + k] = v[k]
  BY BetweenPlaces, SMTT(30) DEF C
<1>5. \A k \in 1..O : old[k] # mark
  BY DEF Without
<1>. HIDE DEF t, U, V, L, O
<1>6a. PICK g : Unfolds(g, S, u, old, new)
  BY TextUnfolds
<1>6. /\ g \in [1..(U + 1) -> Seq(S)]
      /\ \A i \in 1..(U + 1) : g[i] = After(u, old, new, g, i)
      /\ ReplaceText(u, old, new) = g[1]
  BY <1>6a DEF Unfolds, U
<1>7a. PICK h : Unfolds(h, S, v, old, new)
  BY TextUnfolds
<1>7. /\ h \in [1..(V + 1) -> Seq(S)]
      /\ \A i \in 1..(V + 1) : h[i] = After(v, old, new, h, i)
      /\ ReplaceText(v, old, new) = h[1]
  BY <1>7a DEF Unfolds, V
<1>7b. \A x, y, z \in Seq(S) :
          Cat(x, y) \in Seq(S) /\ Cat(Cat(x, y), z) = Cat(x, Cat(y, z))
  BY Regrouped
<1>. DEFINE f == [i \in 1..(L + 1) |->
                     IF i <= U + 1 THEN (g[i] \o C) \o h[1] ELSE h[i - (U + 1)]]
<1>8. /\ \A i \in 1..(U + 1) : f[i] = (g[i] \o C) \o h[1]
      /\ \A j \in 1..(V + 1) : f[U + 1 + j] = h[j]
  <2>3. ASSUME NEW j \in 1..(V + 1) PROVE f[U + 1 + j] = h[j]
    <3>1. /\ U + 1 + j \in 1..(L + 1) /\ ~(U + 1 + j <= U + 1)
          /\ (U + 1 + j) - (U + 1) = j
      BY <1>3
    <3>. QED  BY <3>1
  <2>4. ASSUME NEW i \in 1..(U + 1) PROVE f[i] = (g[i] \o C) \o h[1]
    <3>1. i \in 1..(L + 1) /\ i <= U + 1
      BY <1>3
    <3>. QED  BY <3>1
  <2>. QED  BY <2>3, <2>4
<1>9. f = [i \in 1..(L + 1) |-> f[i]]
  OBVIOUS
<1>. HIDE DEF f
<1>10. 1 \in 1..(V + 1) /\ 1 \in 1..(U + 1) /\ h[1] \in Seq(S)
  BY <1>3, <1>7
<1>11. ASSUME NEW i \in 1..(L + 1) PROVE f[i] = After(t, old, new, f, i)
  <2>1. CASE i > L
    <3>0. i = L + 1 /\ V + 1 \in 1..(V + 1) /\ V + 1 > V
      BY <2>1, <1>3
    <3>1. i = U + 1 + (V + 1) /\ V + 1 \in 1..(V + 1) /\ V + 1 > Len(v)
      BY <3>0, <1>3, <1>4 DEF V
    <3>2. f[i] = h[V + 1]
      BY <3>1, <1>8
    <3>3. h[V + 1] = <<>>
      BY <3>1, <1>7 DEF After
    <3>. QED  BY <2>1, <3>2, <3>3 DEF After, L
  <2>2. CASE i <= L /\ i > U + 1
    <3>. DEFINE j == i - (U + 1)
    <3>1. j \in 1..V /\ i = U + 1 + j /\ j \in 1..(V + 1) /\ j + 1 \in 1..(V + 1)
          /\ i + 1 = U + 1 + (j + 1)
      BY <2>2, <1>3
    <3>2. IsPrefix(old, SubSeq(v, j, V)) <=>
             j + O <= V + 1 /\ \A k \in 1..O : v[j + k - 1] = old[k]
      <4>. HIDE DEF j
      <4>. QED  BY <3>1, OccursMeans DEF V, O
    <3>3. IsPrefix(old, SubSeq(t, i, L)) <=>
             i + O <= L + 1 /\ \A k \in 1..O : t[i + k - 1] = old[k]
      <4>1. i \in 1..Len(t)
        BY <2>2, <1>3 DEF L
      <4>. QED  BY <4>1, <1>4, OccursMeans DEF L, O
    <3>4. i + O <= L + 1 <=> j + O <= V + 1
      BY <1>3, <3>1
    <3>5. j + O <= V + 1 => \A k \in 1..O : t[i + k - 1] = v[j + k - 1]
      <4>. SUFFICES ASSUME j + O <= V + 1, NEW k \in 1..O PROVE t[i + k - 1] = v[j + k - 1]
        OBVIOUS
      <4>1. j + k - 1 \in 1..V /\ i + k - 1 = U + 1 + (j + k - 1)
        BY <1>3, <3>1
      <4>. QED  BY <4>1, <1>4
    <3>6. IsPrefix(old, SubSeq(t, i, L)) <=> IsPrefix(old, SubSeq(v, j, V))
      <4>. HIDE DEF j
      <4>. QED  BY <3>2, <3>3, <3>4, <3>5
    <3>7. f[i] = h[j] /\ f[i + 1] = h[j + 1] /\ t[i] = v[j]
      <4>. HIDE DEF j
      <4>. QED  BY <1>4, <1>8, <3>1
    <3>8. IsPrefix(old, SubSeq(v, j, V)) => f[i + O] = h[j + O]
      <4>1. j + O <= V + 1 => j + O \in 1..(V + 1) /\ i + O = U + 1 + (j + O)
        BY <1>3, <3>1
      <4>. HIDE DEF j
      <4>. QED  BY <1>8, <3>2, <4>1
    <3>9. h[j] = After(v, old, new, h, j) /\ ~(j > Len(v)) /\ ~(i > Len(t))
      BY <1>7, <3>1, <1>3, <2>2, <1>4 DEF V, L
    <3>. HIDE DEF j
    <3>. QED  BY <3>6, <3>7, <3>8, <3>9 DEF After, V, L, O
  <2>3. CASE i = U + 1
    <3>1. g[i] = <<>>
      <4>1. i > Len(u) /\ i \in 1..(U + 1)
        BY <2>3, <1>3 DEF U
      <4>. QED  BY <4>1, <1>6 DEF After
    <3>2. f[i] = C \o h[1]
      <4>1. f[i] = (<<>> \o C) \o h[1]
        <5>1. i \in 1..(U + 1)
          BY <1>3, <2>3
        <5>. QED  BY <5>1, <1>8, <3>1
      <4>2. <<>> \o C = C
        BY <1>1, JoinedTwice
      <4>. QED  BY <4>1, <4>2
    <3>3. f[i + 1] = h[1] /\ t[i] = mark /\ i \in 1..L
      <4>1. i + 1 = U + 1 + 1 /\ i \in 1..L
        BY <1>3, <1>4, <2>3
      <4>2. f[U + 1 + 1] = h[1]
        BY <1>8, <1>10
      <4>. QED  BY <1>4, <2>3, <4>1, <4>2
    <3>4. ~IsPrefix(old, SubSeq(t, i, L))
      <4>1. 1 \in 1..O /\ i + 1 - 1 = i
        BY <1>3, <2>3 DEF O
      <4>2. IsPrefix(old, SubSeq(t, i, L)) => t[i + 1 - 1] = old[1]
        <5>1. i \in 1..Len(t)
          BY <3>3 DEF L
        <5>2. IsPrefix(old, SubSeq(t, i, L)) => \A k \in 1..O : t[i + k - 1] = old[k]
          BY <1>4, <5>1, OccursMeans DEF L, O
        <5>. QED  BY <4>1, <5>2
      <4>. QED  BY <1>5, <3>3, <4>1, <4>2
    <3>5. ~(i > Len(t))
      BY <1>3, <1>4, <2>3 DEF L
    <3>. QED  BY <3>2, <3>3, <3>4, <3>5 DEF After, L, C
  <2>4. CASE i <= U
    <3>1. i \in 1..U /\ i \in 1..L /\ i \in 1..(U + 1) /\ i + 1 \in 1..(U + 1)
      <4>. HIDE DEF U, V, L
      <4>. QED  BY <2>4, <1>3
    <3>2. IsPrefix(old, SubSeq(u, i, U)) <=>
             i + O <= U + 1 /\ \A k \in 1..O : u[i + k - 1] = old[k]
      BY <3>1, OccursMeans DEF U, O
    <3>3. IsPrefix(old, SubSeq(t, i, L)) <=>
             i + O <= L + 1 /\ \A k \in 1..O : t[i + k - 1] = old[k]
      <4>1. i \in 1..Len(t)
        BY <3>1 DEF L
      <4>. QED  BY <4>1, <1>4, OccursMeans DEF L, O
    <3>4. ASSUME IsPrefix(old, SubSeq(t, i, L)), ~(i + O <= U + 1) PROVE FALSE
      <4>. DEFINE k == U + 2 - i
      <4>1. k \in 1..O /\ i + k - 1 = U + 1
        BY <1>3, <3>1, <3>4
      <4>. HIDE DEF k
      <4>2. t[i + k - 1] = old[k]
        BY <3>3, <3>4, <4>1
      <4>. QED  BY <1>4, <1>5, <4>1, <4>2
    <3>5. i + O <= U + 1 => /\ i + O <= L + 1
                            /\ \A k \in 1..O : t[i + k - 1] = u[i + k - 1]
      <4>1. ASSUME i + O <= U + 1, NEW k \in 1..O PROVE t[i + k - 1] = u[i + k - 1]
        <5>1. i + k - 1 \in 1..U
          BY <1>3, <3>1, <4>1
        <5>. QED  BY <5>1, <1>4
      <4>. QED  BY <1>3, <4>1
    <3>6. IsPrefix(old, SubSeq(t, i, L)) <=> IsPrefix(old, SubSeq(u, i, U))
      BY <3>2, <3>3, <3>4, <3>5
    <3>7. /\ f[i] = (g[i] \o C) \o h[1] /\ f[i + 1] = (g[i + 1] \o C) \o h[1]
          /\ t[i] = u[i] /\ g[i + 1] \in Seq(S)
      BY <1>4, <1>6, <1>8, <3>1
    <3>8. IsPrefix(old, SubSeq(u, i, U)) =>
             f[i + O] = (g[i + O] \o C) \o h[1] /\ g[i + O] \in Seq(S)
      <4>1. i + O <= U + 1 => i + O \in 1..(U + 1)
        BY <1>3, <3>1
      <4>. QED  BY <1>6, <1>8, <3>2, <4>1
    <3>9. g[i] = After(u, old, new, g, i) /\ ~(i > Len(u)) /\ ~(i > Len(t))
      BY <1>3, <1>4, <1>6, <3>1 DEF U, L
    <3>10. ASSUME NEW a \in Seq(S), NEW b \in Seq(S)
           PROVE  ((a \o b) \o C) \o h[1] = a \o ((b \o C) \o h[1])
      <4>. DEFINE c == h[1]
      <4>1. c \in Seq(S)
        BY <1>10
      <4>. HIDE DEF c
      <4>2. Cat(Cat(a, b), C) = Cat(a, Cat(b, C)) /\ Cat(b, C) \in Seq(S)
        BY <1>1, <1>7b
      <4>3. Cat(Cat(a, Cat(b, C)), c) = Cat(a, Cat(Cat(b, C), c))
        BY <4>1, <4>2, <1>7b
      <4>4. Cat(Cat(Cat(a, b), C), c) = Cat(a, Cat(Cat(b, C), c))
        BY <4>2, <4>3
      <4>. QED  BY <4>4 DEF Cat, c
    <3>11. CASE IsPrefix(old, SubSeq(t, i, L))
      <4>1. g[i] = new \o g[i + O]
        BY <3>6, <3>9, <3>11 DEF After, U, O
      <4>2. f[i] = new \o f[i + O]
        BY <3>6, <3>7, <3>8, <3>10, <3>11, <4>1
      <4>. QED  BY <3>9, <3>11, <4>2 DEF After, L, O
    <3>12. CASE ~IsPrefix(old, SubSeq(t, i, L))
      <4>1. g[i] = <<u[i]>> \o g[i + 1]
        BY <3>6, <3>9, <3>12 DEF After, U
      <4>2. <<u[i]>> \in Seq(S)
        BY <3>1 DEF U
      <4>3. f[i] = <<u[i]>> \o f[i + 1]
        BY <3>7, <3>10, <4>1, <4>2
      <4>. QED  BY <3>7, <3>9, <3>12, <4>3 DEF After, L
    <3>. QED  BY <3>11, <3>12
  <2>. QED  BY <1>3, <1>4, <2>1, <2>2, <2>3, <2>4
<1>12. ReplaceText(t, old, new) = f[1]
  <2>1. Follows(f, t, old, new)
    BY <1>9, <1>11 DEF L, Follows
  <2>. QED  BY <1>4, <2>1, FollowsIs
<1>13. f[1] = (g[1] \o C) \o h[1]
  BY <1>8, <1>10
<1>. QED  BY <1>6, <1>7, <1>12, <1>13 DEF t, C, WithMark

\* The new text is a text.
LEMMA ReplaceType ==
    ASSUME NEW S, NEW text \in Seq(S), NEW old \in Seq(S), Len(old) > 0,
           NEW new \in Seq(S)
    PROVE  ReplaceText(text, old, new) \in Seq(S)
<1>1. PICK f : Unfolds(f, S, text, old, new)
  BY TextUnfolds
<1>2. 1 \in 1..(Len(text) + 1)
  OBVIOUS
<1>. QED  BY <1>1, <1>2 DEF Unfolds

\* A piece that has the old text nowhere, or is the old text.
LEMMA PieceReplaced ==
    ASSUME NEW S, NEW p \in Seq(S), NEW old \in Seq(S), Len(old) > 0,
           NEW new \in Seq(S),
           p # old => \A m \in 1..Len(p) : ~IsPrefix(old, SubSeq(p, m, Len(p)))
    PROVE  ReplaceText(p, old, new) = IF p = old THEN new ELSE p
<1>. DEFINE L == Len(p)
<1>0. L \in Nat /\ L = Len(p)
  OBVIOUS
<1>. HIDE DEF L
<1>1. CASE p = old
  <2>0. PICK g : Unfolds(g, S, p, old, new)
    BY TextUnfolds
  <2>1. /\ g \in [1..(L + 1) -> Seq(S)]
        /\ \A i \in 1..(L + 1) : g[i] = After(p, old, new, g, i)
        /\ ReplaceText(p, old, new) = g[1]
    BY <1>0, <2>0 DEF Unfolds
  <2>2. 1 \in 1..L /\ L + 1 \in 1..(L + 1) /\ 1 \in 1..(L + 1) /\ 1 + L = L + 1
        /\ ~(1 > L) /\ L + 1 > L
    BY <1>0, <1>1
  <2>3. g[L + 1] = <<>>
    BY <1>0, <2>1, <2>2 DEF After
  <2>4. IsPrefix(old, SubSeq(p, 1, L))
    <3>1. 1 + Len(old) <= Len(p) + 1 /\ \A k \in 1..Len(old) : p[1 + k - 1] = old[k]
      BY <1>1
    <3>. QED  BY <1>0, <2>2, <3>1, OccursMeans
  <2>5. g[1] = new \o g[L + 1]
    <3>1. g[1] = new \o g[1 + Len(old)]
      BY <1>0, <2>1, <2>2, <2>4 DEF After
    <3>. QED  BY <1>0, <1>1, <2>2, <3>1
  <2>. QED  BY <1>1, <2>1, <2>3, <2>5, JoinedTwice
<1>2. CASE p # old
  <2>. DEFINE g == [i \in 1..(L + 1) |-> SubSeq(p, i, L)]
  <2>1. \A i \in 1..(L + 1) : g[i] = SubSeq(p, i, L)
    OBVIOUS
  <2>2. g = [i \in 1..(L + 1) |-> g[i]]
    OBVIOUS
  <2>. HIDE DEF g
  <2>3. ASSUME NEW i \in 1..(L + 1) PROVE g[i] = After(p, old, new, g, i)
    <3>1. CASE i > L
      <4>1. SubSeq(p, i, L) = <<>>
        BY <1>0, <3>1
      <4>. QED  BY <1>0, <2>1, <3>1, <4>1 DEF After
    <3>2. CASE i <= L
      <4>1. i \in 1..L /\ i + 1 \in 1..(L + 1) /\ ~(i > L)
        BY <1>0, <3>2
      <4>2. SubSeq(p, i, L) = <<p[i]>> \o SubSeq(p, i + 1, L)
        BY <1>0, <4>1, OneSplits
      <4>3. ~IsPrefix(old, SubSeq(p, i, L))
        BY <1>0, <1>2, <4>1
      <4>. QED  BY <1>0, <2>1, <4>1, <4>2, <4>3 DEF After
    <3>. QED  BY <1>0, <3>1, <3>2
  <2>4. ReplaceText(p, old, new) = g[1]
    BY <1>0, <2>2, <2>3, ReplaceIs
  <2>5. SubSeq(p, 1, Len(p)) = p /\ 1 \in 1..(L + 1)
    BY <1>0
  <2>. QED  BY <1>0, <1>2, <2>1, <2>4, <2>5
<1>. QED  BY <1>1, <1>2

\* Pieces are joined one after the other, with a mark between them.
Joins(mark, K, P, N) ==
    /\ K[1] = P[1]
    /\ \A n \in 2..N : K[n] = WithMark(mark, K[n - 1], P[n])

LEMMA JoinedGrows ==
    ASSUME NEW S, NEW mark \in S, NEW N \in Nat, N > 0, NEW P \in [1..N -> Seq(S)]
    PROVE  \E K \in [1..N -> Seq(S)] : Joins(mark, K, P, N) /\ Joined(mark, P) = K[N]
<1>. DEFINE q == [i \in 1..N |-> IF i = 1 THEN P[i] ELSE <<mark>> \o P[i]]
<1>1. Joined(mark, P) = FlattenSeq(q)
  <2>1. DOMAIN P = 1..N
    OBVIOUS
  <2>. QED  BY <2>1 DEF Joined
<1>2. <<mark>> \in Seq(S)
  OBVIOUS
<1>3. q \in [1..N -> Seq(S)]
  <2>1. \A i \in 1..N : P[i] \in Seq(S) /\ <<mark>> \o P[i] \in Seq(S)
    BY <1>2, JoinedPlaces
  <2>. QED  BY <2>1
<1>4. \A i \in 1..N : q[i] = IF i = 1 THEN P[i] ELSE <<mark>> \o P[i]
  OBVIOUS
<1>. HIDE DEF q
<1>5. PICK J : JoinsUp(J, S, q, N)
  BY <1>3, FlattenJoins
<1>5a. J \in [0..N -> Seq(S)] /\ J[0] = <<>> /\ FlattenSeq(q) = J[N]
       /\ \A n \in 1..N : J[n] = J[n - 1] \o q[n]
  BY <1>5 DEF JoinsUp
<1>6. \A n \in 1..N : n \in 0..N /\ n - 1 \in 0..N /\ J[n] \in Seq(S) /\ J[n - 1] \in Seq(S)
  BY <1>5a
<1>. DEFINE K == [n \in 1..N |-> J[n]]
<1>7. K \in [1..N -> Seq(S)] /\ \A n \in 1..N : K[n] = J[n]
  BY <1>6
<1>. HIDE DEF K
<1>8. K[1] = P[1]
  <2>1. 1 \in 1..N /\ 1 - 1 = 0 /\ P[1] \in Seq(S)
    OBVIOUS
  <2>2. J[1] = J[1 - 1] \o q[1] /\ q[1] = P[1] /\ K[1] = J[1]
    BY <1>4, <1>5a, <1>7, <2>1
  <2>3. K[1] = <<>> \o P[1]
    BY <1>5a, <2>1, <2>2
  <2>. QED  BY <2>1, <2>3, JoinedTwice
<1>9. ASSUME NEW n \in 2..N PROVE K[n] = WithMark(mark, K[n - 1], P[n])
  <2>1. n \in 1..N /\ n # 1 /\ n - 1 \in 1..N
    OBVIOUS
  <2>. DEFINE a == J[n - 1]
              p == P[n]
              c == <<mark>>
  <2>2. a \in Seq(S) /\ p \in Seq(S) /\ c \in Seq(S)
    BY <1>2, <1>6, <2>1
  <2>3. K[n] = a \o (c \o p) /\ K[n - 1] = a
    BY <1>4, <1>5a, <1>7, <2>1
  <2>. HIDE DEF a, p, c
  <2>4. (a \o c) \o p = a \o (c \o p)
    <3>1. Cat(Cat(a, c), p) = Cat(a, Cat(c, p))
      BY <2>2, Regrouped
    <3>. QED  BY <3>1 DEF Cat
  <2>. QED  BY <2>3, <2>4 DEF p, c, WithMark
<1>10. Joined(mark, P) = K[N]
  <2>1. N \in 0..N /\ N \in 1..N
    OBVIOUS
  <2>. QED  BY <1>1, <1>5a, <1>7, <2>1
<1>. QED  BY <1>7, <1>8, <1>9, <1>10 DEF Joins

\* The joined text is a text.
LEMMA JoinedType ==
    ASSUME NEW S, NEW mark \in S, NEW N \in Nat, N > 0, NEW P \in [1..N -> Seq(S)]
    PROVE  Joined(mark, P) \in Seq(S)
<1>1. PICK K \in [1..N -> Seq(S)] : Joins(mark, K, P, N) /\ Joined(mark, P) = K[N]
  BY JoinedGrows
<1>2. N \in 1..N
  OBVIOUS
<1>. QED  BY <1>1, <1>2

\* Only one sequence of texts is joined like this.
LEMMA JoinedIs ==
    ASSUME NEW S, NEW mark \in S, NEW N \in Nat, N > 0, NEW P \in [1..N -> Seq(S)],
           NEW M, Joins(mark, M, P, N)
    PROVE  Joined(mark, P) = M[N]
<1>1. PICK K \in [1..N -> Seq(S)] : Joins(mark, K, P, N) /\ Joined(mark, P) = K[N]
  BY JoinedGrows
<1>. DEFINE T == {n \in 0..N : n > 0 => K[n] = M[n]}
<1>2. 0 \in T
  OBVIOUS
<1>3. ASSUME NEW n \in 0..(N - 1), n \in T PROVE n + 1 \in T
  <2>1. CASE n = 0
    BY <1>1, <2>1 DEF Joins
  <2>2. CASE n > 0
    <3>1. n + 1 \in 2..N /\ (n + 1) - 1 = n /\ K[n] = M[n]
      BY <1>3, <2>2
    <3>2. /\ K[n + 1] = WithMark(mark, K[(n + 1) - 1], P[n + 1])
          /\ M[n + 1] = WithMark(mark, M[(n + 1) - 1], P[n + 1])
      BY <1>1, <3>1 DEF Joins
    <3>3. K[n + 1] = M[n + 1]
      <4>1. K[(n + 1) - 1] = M[(n + 1) - 1]
        BY <3>1
      <4>. QED  BY <3>2, <4>1
    <3>. QED  BY <3>1, <3>3
  <2>. QED  BY <2>1, <2>2
<1>4. 0..N \subseteq T
  <2>. HIDE DEF T
  <2>. QED  BY <1>2, <1>3, Upwards
<1>. QED  BY <1>1, <1>4

\* Q is P with the old text replaced in every piece.
PiecesReplaced(S, mark, N, P, Q, old, new) ==
    /\ N \in Nat /\ N > 0 /\ mark \in S
    /\ P \in [1..N -> Seq(S)] /\ Q \in [1..N -> Seq(S)]
    /\ old \in Seq(S) /\ Len(old) > 0 /\ Without(mark, old) /\ new \in Seq(S)
    /\ \A n \in 1..N : ReplaceText(P[n], old, new) = Q[n]

\* What is replaced in joined pieces is replaced in each of them.
LEMMA JoinedReplaced ==
    ASSUME NEW S, NEW mark, NEW N, NEW P, NEW Q, NEW old, NEW new,
           PiecesReplaced(S, mark, N, P, Q, old, new)
    PROVE  ReplaceText(Joined(mark, P), old, new) = Joined(mark, Q)
<1>. USE DEF PiecesReplaced
<1>. DEFINE Rep(t) == ReplaceText(t, old, new)
<1>0. mark \in S /\ N \in Nat /\ N > 0 /\ P \in [1..N -> Seq(S)]
  OBVIOUS
<1>1. PICK K \in [1..N -> Seq(S)] : Joins(mark, K, P, N) /\ Joined(mark, P) = K[N]
  <2>. HIDE DEF PiecesReplaced
  <2>. QED  BY <1>0, JoinedGrows
<1>. DEFINE M == [n \in 1..N |-> Rep(K[n])]
<1>2. \A t \in Seq(S) : Rep(t) \in Seq(S)
  BY ReplaceType
<1>3. ASSUME NEW u \in Seq(S), NEW v \in Seq(S)
      PROVE  Rep(WithMark(mark, u, v)) = WithMark(mark, Rep(u), Rep(v))
  BY ReplacedAtMark
<1>4. \A n \in 1..N : Q[n] = Rep(P[n])
  OBVIOUS
<1>. HIDE DEF Rep
<1>5. \A n \in 1..N : M[n] = Rep(K[n])
  OBVIOUS
<1>. HIDE DEF M
<1>6. M[1] = Q[1]
  <2>1. 1 \in 1..N
    OBVIOUS
  <2>. QED  BY <1>1, <1>4, <1>5, <2>1 DEF Joins
<1>7. ASSUME NEW n \in 2..N PROVE M[n] = WithMark(mark, M[n - 1], Q[n])
  <2>1. n \in 1..N /\ n - 1 \in 1..N /\ K[n - 1] \in Seq(S) /\ P[n] \in Seq(S)
    OBVIOUS
  <2>2. K[n] = WithMark(mark, K[n - 1], P[n])
    BY <1>1 DEF Joins
  <2>3. Rep(K[n]) = WithMark(mark, Rep(K[n - 1]), Rep(P[n]))
    BY <1>3, <2>1, <2>2
  <2>. QED  BY <1>4, <1>5, <2>1, <2>3
<1>8. Joined(mark, Q) = M[N]
  <2>1. Joins(mark, M, Q, N)
    BY <1>6, <1>7 DEF Joins
  <2>. QED  BY <1>4, <2>1, JoinedIs
<1>9. N \in 1..N
  OBVIOUS
<1>. QED  BY <1>1, <1>5, <1>8, <1>9 DEF Rep

\* One piece is joined to itself.
LEMMA JoinedOne ==
    ASSUME NEW S, NEW mark \in S, NEW P \in [1..1 -> Seq(S)]
    PROVE  Joined(mark, P) = P[1]
<1>1. Joins(mark, P, P, 1) /\ 1 > 0 /\ 1 \in Nat
  BY DEF Joins
<1>. QED  BY <1>1, JoinedIs

----------------------------------------------------------------------------
(* The texts of paths *)

\* A path is spelled with one letter at least.
LEMMA SpelledMeans ==
    ASSUME NEW p \in Seq(Name)
    PROVE  Spelled(p) \in Seq(Letter) /\ Len(Spelled(p)) > 0
<1>1. CASE p = <<>>
  <2>1. Spelled(p) = <<Here>> /\ Here \in Letter
    BY <1>1, PathAssumption DEF Spelled
  <2>2. \A l \in Letter : <<l>> \in Seq(Letter) /\ Len(<<l>>) > 0
    OBVIOUS
  <2>. QED  BY <2>1, <2>2
<1>2. CASE p # <<>>
  <2>. DEFINE N == Len(p)
              q == [i \in 1..N |-> IF i = 1 \/ p[i - 1] = Slash THEN Spelling(p[i])
                                   ELSE <<Slash>> \o Spelling(p[i])]
  <2>1. N \in Nat /\ N > 0 /\ DOMAIN p = 1..N /\ \A i \in 1..N : p[i] \in Name
    BY <1>2
  <2>2. Spelled(p) = FlattenSeq(q)
    BY <1>2, <2>1 DEF Spelled
  <2>3. ASSUME NEW i \in 1..N PROVE q[i] \in Seq(Letter) /\ Len(q[i]) > 0
    <3>1. Spelling(p[i]) \in Seq(Letter) /\ Len(Spelling(p[i])) > 0
      BY <2>1, PathAssumption
    <3>2. <<Slash>> \in Seq(Letter)
      BY PathAssumption
    <3>3. ASSUME NEW s \in Seq(Letter), Len(s) > 0, NEW m \in Seq(Letter)
          PROVE  m \o s \in Seq(Letter) /\ Len(m \o s) > 0
      BY <3>3, JoinedPlaces
    <3>4. q[i] = Spelling(p[i]) \/ q[i] = <<Slash>> \o Spelling(p[i])
      OBVIOUS
    <3>. HIDE DEF q
    <3>. QED  BY <3>1, <3>2, <3>3, <3>4
  <2>4. q \in [1..N -> Seq(Letter)]
    BY <2>3
  <2>. HIDE DEF q, N
  <2>5. PICK J : JoinsUp(J, Letter, q, N)
    BY <2>1, <2>4, FlattenJoins
  <2>. DEFINE a == J[N - 1]
              b == q[N]
  <2>6. N \in 1..N /\ N - 1 \in 0..N
    BY <2>1
  <2>7. FlattenSeq(q) = a \o b /\ a \in Seq(Letter)
    BY <2>5, <2>6 DEF JoinsUp
  <2>8. b \in Seq(Letter) /\ Len(b) > 0
    BY <2>3, <2>6
  <2>. HIDE DEF a, b
  <2>9. a \o b \in Seq(Letter) /\ Len(a \o b) = Len(a) + Len(b)
    BY <2>7, <2>8, JoinedPlaces
  <2>10. Len(a) \in Nat
    BY <2>7
  <2>. QED  BY <2>2, <2>7, <2>8, <2>9, <2>10
<1>. QED  BY <1>1, <1>2

----------------------------------------------------------------------------
(* How the arguments are rewritten *)

\* The root has no name in the archive.
LEMMA RootNameless == Nameless(RootDir)
<1>1. RootDir \in Resolved
  <2>1. RootDir \in Seq(Name) /\ Len(RootDir) = 1 /\ RootDir[1] = Slash
    BY NameFacts DEF RootDir
  <2>. QED  BY <2>1, ResolvedIf
<1>. QED  BY <1>1, ResolveAgain, PathKinds DEF Nameless

\* What is done with a part: its name is replaced by the new one, if it has one.
LEMMA RewriteMeans ==
    ASSUME NEW p \in Paths, NEW text \in Seq(Letter), NEW files
    PROVE  RewritePart(text, p, files) =
              IF NewName(p) = p THEN text
              ELSE ReplaceText(text, Spelled(p), Spelled(NewName(p)))
<1>1. p \in Seq(Name) /\ Spelled(p) \in Seq(Letter) /\ Len(Spelled(p)) > 0
  BY PathKinds, SpelledMeans
<1>2. ReplaceText(text, Spelled(p), Spelled(p)) = text
  BY <1>1, ReplacedBySame
<1>3. CASE Exists(p) /\ ~Nameless(p)
  <2>1. NewName(p) = ArchiveName(p) /\ p # RootDir
    BY <1>3, RootNameless DEF NewName
  <2>2. RewritePart(text, p, files) = ReplaceText(text, Spelled(p), Spelled(NewName(p)))
    BY <1>3, <2>1 DEF RewritePart, FileExists
  <2>. QED  BY <1>2, <2>2
<1>4. CASE ~(Exists(p) /\ ~Nameless(p))
  <2>1. NewName(p) = p
    BY <1>4 DEF NewName
  <2>2. CASE FileExists(p, files, TRUE) /\ ~Nameless(p)
    <3>1. ~UseAbsolutePath(p)
      BY <1>4, <2>2 DEF FileExists, ParentThere
    <3>2. RewritePart(text, p, files) = ReplaceText(text, Spelled(p), Spelled(p))
      BY <2>2, <3>1 DEF RewritePart, ArchiveName
    <3>. QED  BY <1>2, <2>1, <3>2
  <2>3. CASE ~(FileExists(p, files, TRUE) /\ ~Nameless(p))
    BY <2>1, <2>3 DEF RewritePart
  <2>. QED  BY <2>2, <2>3
<1>. QED  BY <1>3, <1>4

\* The new name of a part is a path.
LEMMA NewNameType ==
    ASSUME NEW p \in Paths
    PROVE  /\ NewName(p) \in Seq(Name)
           /\ Spelled(p) \in Seq(Letter) /\ Len(Spelled(p)) > 0
           /\ Spelled(NewName(p)) \in Seq(Letter) /\ Len(Spelled(NewName(p))) > 0
<1>1. p \in Seq(Name) /\ ArchiveName(p) \in Seq(Name)
  BY PathKinds, NamesOfOne
<1>2. NewName(p) \in Seq(Name)
  BY <1>1 DEF NewName
<1>. QED  BY <1>1, <1>2, SpelledMeans

\* The pieces of an argument when n of its parts have been replaced: the parts
\* that are spelled alike are replaced together.
Pieces(arg, n) ==
    [j \in 1..Len(arg) |-> IF \E i \in 1..n : arg[i] = arg[j]
                           THEN Spelled(NewName(arg[j])) ELSE Spelled(arg[j])]

\* What a piece becomes when a part of the argument is replaced.
LEMMA OnePiece ==
    ASSUME NEW arg \in Seq(Paths), ~Overlaps(arg), NEW n \in 0..(Len(arg) - 1),
           NewName(arg[n + 1]) # arg[n + 1], NEW j \in 1..Len(arg)
    PROVE  ReplaceText(Pieces(arg, n)[j], Spelled(arg[n + 1]),
                       Spelled(NewName(arg[n + 1]))) = Pieces(arg, n + 1)[j]
<1>. DEFINE p == arg[n + 1]
            b == arg[j]
            old == Spelled(p)
            new == Spelled(NewName(p))
            piece == Pieces(arg, n)[j]
<1>1. n + 1 \in 1..Len(arg) /\ n + 1 \in DOMAIN arg /\ j \in DOMAIN arg /\ n \in Nat
  OBVIOUS
<1>2. p \in Paths /\ b \in Paths
  BY <1>1
<1>3. /\ piece = IF \E i \in 1..n : arg[i] = b THEN Spelled(NewName(b)) ELSE Spelled(b)
      /\ Pieces(arg, n + 1)[j] =
            IF \E i \in 1..(n + 1) : arg[i] = b THEN Spelled(NewName(b)) ELSE Spelled(b)
  BY DEF Pieces
<1>4. (\E i \in 1..(n + 1) : arg[i] = b) <=> (\E i \in 1..n : arg[i] = b) \/ p = b
  <2>1. \A i : i \in 1..(n + 1) <=> i \in 1..n \/ i = n + 1
    BY <1>1
  <2>. QED  BY <2>1
<1>6. /\ old \in Seq(Letter) /\ Len(old) > 0 /\ new \in Seq(Letter)
      /\ piece \in Seq(Letter)
  BY <1>2, <1>3, NewNameType
<1>7. CASE b = p
  <2>1. piece # old => piece = new /\ \E i \in 1..n : arg[i] = p
    BY <1>3, <1>7
  <2>2. ASSUME NEW i \in 1..n, arg[i] = p
        PROVE  \A m \in 1..Len(new) : ~IsPrefix(old, SubSeq(new, m, Len(new)))
    <3>1. i \in DOMAIN arg /\ i # n + 1
      BY <1>1
    <3>2. 1..Len(new) = DOMAIN new
      BY <1>6
    <3>. QED  BY <1>1, <2>2, <3>1, <3>2 DEF Overlaps
  <2>3. Pieces(arg, n + 1)[j] = new
    BY <1>3, <1>4, <1>7
  <2>. HIDE DEF old, new, piece
  <2>4. ReplaceText(piece, old, new) = IF piece = old THEN new ELSE piece
    BY <1>6, <2>1, <2>2, PieceReplaced
  <2>. QED  BY <2>1, <2>3, <2>4 DEF old, new, piece
<1>8. CASE b # p
  <2>1. \A m \in 1..Len(piece) : ~IsPrefix(old, SubSeq(piece, m, Len(piece)))
    <3>1. \A text \in {Spelled(NewName(b))} \cup {Spelled(b)} :
             \A m \in DOMAIN text : ~IsPrefix(old, SubSeq(text, m, Len(text)))
      BY <1>1, <1>8 DEF Overlaps
    <3>2. piece \in {Spelled(NewName(b))} \cup {Spelled(b)}
      BY <1>3
    <3>3. DOMAIN piece = 1..Len(piece)
      BY <1>6
    <3>. HIDE DEF old, piece
    <3>. QED  BY <3>1, <3>2, <3>3
  <2>2. Pieces(arg, n + 1)[j] = piece
    BY <1>3, <1>4, <1>8
  <2>. HIDE DEF old, new, piece
  <2>3. piece # old
    <3>. SUFFICES ASSUME piece = old PROVE FALSE
      OBVIOUS
    <3>1. 1 \in 1..Len(old) /\ 1 + Len(old) <= Len(old) + 1
          /\ \A k \in 1..Len(old) : old[1 + k - 1] = old[k]
      BY <1>6
    <3>2. IsPrefix(old, SubSeq(old, 1, Len(old)))
      BY <1>6, <3>1, OccursMeans
    <3>. QED  BY <2>1, <3>1, <3>2
  <2>4. ReplaceText(piece, old, new) = IF piece = old THEN new ELSE piece
    BY <1>6, <2>1, PieceReplaced
  <2>. QED  BY <2>2, <2>3, <2>4 DEF old, new, piece
<1>. QED  BY <1>7, <1>8

\* The mark is in none of several parts, and a single part is left as it is.
Divided(mark, arg) ==
    /\ Len(arg) > 1 => \A j \in DOMAIN arg : ~Contains(Spelled(arg[j]), mark)
    /\ Len(arg) = 1 => NewName(arg[1]) = arg[1]

\* One part more is replaced.
LEMMA RewriteOne ==
    ASSUME NEW mark \in Letter, NEW arg \in Seq(Paths), ~Overlaps(arg), Divided(mark, arg),
           NEW n \in 0..(Len(arg) - 1), NEW files
    PROVE  RewritePart(Joined(mark, Pieces(arg, n)), arg[n + 1], files)
              = Joined(mark, Pieces(arg, n + 1))
<1>. DEFINE N == Len(arg)
            p == arg[n + 1]
            old == Spelled(p)
            new == Spelled(NewName(p))
            P == Pieces(arg, n)
            Q == Pieces(arg, n + 1)
<1>1. n + 1 \in 1..N /\ N \in Nat /\ N > 0 /\ n \in Nat
  OBVIOUS
<1>2. \A j \in 1..N : arg[j] \in Paths
  OBVIOUS
<1>3. ASSUME NEW k PROVE Pieces(arg, k) \in [1..N -> Seq(Letter)]
  <2>1. ASSUME NEW j \in 1..N
        PROVE  Spelled(arg[j]) \in Seq(Letter) /\ Spelled(NewName(arg[j])) \in Seq(Letter)
    BY <1>2, NewNameType
  <2>. QED  BY <2>1 DEF Pieces
<1>4. p \in Paths /\ old \in Seq(Letter) /\ Len(old) > 0 /\ new \in Seq(Letter)
  BY <1>1, <1>2, NewNameType
<1>5. mark \in Letter
  OBVIOUS
<1>6. Joined(mark, P) \in Seq(Letter)
  <2>1. P \in [1..N -> Seq(Letter)]
    BY <1>3
  <2>. HIDE DEF P, N
  <2>2. N \in Nat /\ N > 0
    BY <1>1
  <2>. QED  BY <1>5, <2>1, <2>2, JoinedType
<1>7. RewritePart(Joined(mark, P), p, files) =
         IF NewName(p) = p THEN Joined(mark, P) ELSE ReplaceText(Joined(mark, P), old, new)
  <2>. HIDE DEF P, p
  <2>. QED  BY <1>4, <1>6, RewriteMeans DEF p
<1>8. CASE NewName(p) = p
  <2>1. ASSUME NEW j \in 1..N PROVE P[j] = Q[j]
    <3>1. \A i : i \in 1..(n + 1) <=> i \in 1..n \/ i = n + 1
      BY <1>1
    <3>2. CASE arg[j] = p
      BY <1>8, <3>2 DEF Pieces
    <3>3. CASE arg[j] # p
      <4>1. (\E i \in 1..(n + 1) : arg[i] = arg[j]) <=> (\E i \in 1..n : arg[i] = arg[j])
        BY <3>1, <3>3
      <4>. QED  BY <4>1 DEF Pieces
    <3>. QED  BY <3>2, <3>3
  <2>2. P \in [1..N -> Seq(Letter)] /\ Q \in [1..N -> Seq(Letter)]
    BY <1>3
  <2>3. P = Q
    <3>. HIDE DEF P, Q, N
    <3>1. P = [j \in 1..N |-> P[j]] /\ Q = [j \in 1..N |-> Q[j]]
      BY <2>2
    <3>2. [j \in 1..N |-> P[j]] = [j \in 1..N |-> Q[j]]
      BY <2>1
    <3>. QED  BY <3>1, <3>2
  <2>. QED  BY <1>7, <1>8, <2>3
<1>9. CASE NewName(p) # p
  <2>1. N > 1
    <3>1. N = 1 => n + 1 = 1
      BY <1>1
    <3>2. N # 1
      BY <1>9, <3>1 DEF Divided
    <3>. HIDE DEF N
    <3>. QED  BY <1>1, <3>2
  <2>2. Without(mark, old)
    <3>1. ~Contains(old, mark)
      BY <1>1, <2>1 DEF Divided
    <3>2. DOMAIN old = 1..Len(old)
      BY <1>4
    <3>. HIDE DEF old
    <3>. QED  BY <3>1, <3>2 DEF Without, Contains
  <2>3. \A j \in 1..N : ReplaceText(P[j], old, new) = Q[j]
    BY <1>9, OnePiece
  <2>4. P \in [1..N -> Seq(Letter)] /\ Q \in [1..N -> Seq(Letter)]
    BY <1>3
  <2>. HIDE DEF P, Q, N, old, new
  <2>5. ReplaceText(Joined(mark, P), old, new) = Joined(mark, Q)
    <3>1. PiecesReplaced(Letter, mark, N, P, Q, old, new)
      BY <1>1, <1>4, <2>2, <2>3, <2>4 DEF PiecesReplaced
    <3>. QED  BY <3>1, JoinedReplaced
  <2>. QED  BY <1>7, <1>9, <2>5 DEF P, Q, old, new
<1>. QED  BY <1>8, <1>9

\* What ResolveParts goes through
OneByOne(d, text, arg, files) ==
    d = CHOOSE f : f = [n \in 0..Len(arg) |->
           IF n = 0 THEN text ELSE RewritePart(f[n - 1], arg[n], files[n - 1])]

\* An argument in its original text
Undivided(mark, arg) == Joined(mark, [j \in DOMAIN arg |-> Spelled(arg[j])])

\* The parts of an argument, one after the other.
LEMMA RewriteAll ==
    ASSUME NEW mark \in Letter, NEW arg \in Seq(Paths), ~Overlaps(arg), Divided(mark, arg),
           NEW files,
           NEW text, text = Undivided(mark, arg),
           NEW d, OneByOne(d, text, arg, files)
    PROVE  d[Len(arg)] = Renamed(mark, arg)
<1>. DEFINE N == Len(arg)
            Def(f) == [n \in 0..N |-> IF n = 0 THEN text
                                      ELSE RewritePart(f[n - 1], arg[n], files[n - 1])]
            g == [n \in 0..N |-> Joined(mark, Pieces(arg, n))]
            S == {n \in 0..N : d[n] = g[n]}
<1>1. N \in Nat /\ DOMAIN arg = 1..N
  OBVIOUS
<1>2. Joined(mark, Pieces(arg, 0)) = text
  <2>1. \A j \in 1..N : ~\E i \in 1..0 : arg[i] = arg[j]
    OBVIOUS
  <2>2. Pieces(arg, 0) = [j \in DOMAIN arg |-> Spelled(arg[j])]
    BY <1>1, <2>1 DEF Pieces
  <2>. QED  BY <2>2 DEF Undivided
<1>3. ASSUME NEW n \in 1..N
      PROVE  RewritePart(Joined(mark, Pieces(arg, n - 1)), arg[n], files[n - 1])
                = Joined(mark, Pieces(arg, n))
  <2>. DEFINE m == n - 1
              fs == files[n - 1]
  <2>1. m \in 0..(Len(arg) - 1) /\ m + 1 = n
    BY <1>1
  <2>2. RewritePart(Joined(mark, Pieces(arg, m)), arg[m + 1], fs) = Joined(mark, Pieces(arg, m + 1))
    <3>. HIDE DEF m, fs
    <3>. QED  BY <2>1, RewriteOne
  <2>. QED  BY <2>1, <2>2
<1>4. g = Def(g)
  <2>1. g[0] = text
    BY <1>1, <1>2
  <2>2. ASSUME NEW n \in 1..N PROVE g[n] = RewritePart(g[n - 1], arg[n], files[n - 1])
    <3>1. n \in 0..N /\ n - 1 \in 0..N
      BY <1>1
    <3>2. g[n] = Joined(mark, Pieces(arg, n)) /\ g[n - 1] = Joined(mark, Pieces(arg, n - 1))
      BY <3>1
    <3>. HIDE DEF g
    <3>. QED  BY <1>3, <3>2
  <2>3. g = [n \in 0..N |-> g[n]]
    OBVIOUS
  <2>4. \A n \in 0..N : g[n] = IF n = 0 THEN text
                               ELSE RewritePart(g[n - 1], arg[n], files[n - 1])
    <3>1. \A n \in 0..N : n # 0 => n \in 1..N
      BY <1>1
    <3>. HIDE DEF g
    <3>. QED  BY <2>1, <2>2, <3>1
  <2>. HIDE DEF g
  <2>. QED  BY <2>3, <2>4
<1>5. d = Def(d)
  <2>1. d = CHOOSE f : f = Def(f)
    BY DEF OneByOne
  <2>. HIDE DEF Def, g
  <2>. QED  BY <1>4, <2>1
<1>6. \A n \in 0..N : /\ d[n] = IF n = 0 THEN text
                                ELSE RewritePart(d[n - 1], arg[n], files[n - 1])
                      /\ g[n] = IF n = 0 THEN text
                                ELSE RewritePart(g[n - 1], arg[n], files[n - 1])
  <2>1. \A n \in 0..N : d[n] = Def(d)[n] /\ g[n] = Def(g)[n]
    <3>. HIDE DEF Def, g
    <3>. QED  BY <1>4, <1>5
  <2>. HIDE DEF g
  <2>. QED  BY <2>1
<1>. HIDE DEF g
<1>7. 0 \in S
  <2>1. 0 \in 0..N
    BY <1>1
  <2>2. d[0] = text /\ g[0] = text
    BY <1>6, <2>1
  <2>. QED  BY <2>1, <2>2
<1>8. ASSUME NEW n \in 0..(N - 1), n \in S PROVE n + 1 \in S
  <2>1. n + 1 \in 0..N /\ n + 1 # 0 /\ (n + 1) - 1 = n
    BY <1>1
  <2>2. d[n + 1] = RewritePart(d[n], arg[n + 1], files[n])
        /\ g[n + 1] = RewritePart(g[n], arg[n + 1], files[n])
    <3>. DEFINE k == n + 1
    <3>1. k \in 0..N /\ k # 0 /\ k - 1 = n
      BY <2>1
    <3>. HIDE DEF k
    <3>2. d[k] = RewritePart(d[n], arg[k], files[n]) /\ g[k] = RewritePart(g[n], arg[k], files[n])
      BY <1>6, <3>1
    <3>. QED  BY <3>2 DEF k
  <2>. QED  BY <1>8, <2>1, <2>2
<1>9. d[N] = g[N]
  <2>. HIDE DEF S, N
  <2>1. 0..N \subseteq S
    BY <1>1, <1>7, <1>8, Upwards
  <2>. QED  BY <1>1, <2>1 DEF S
<1>10. g[N] = Joined(mark, Pieces(arg, N))
  BY <1>1 DEF g
<1>11. Pieces(arg, N) = [j \in DOMAIN arg |-> Spelled(NewName(arg[j]))]
  BY <1>1 DEF Pieces
<1>. QED  BY <1>9, <1>10, <1>11 DEF Renamed

\* What a part is called, and what overlaps, depends on the host only.
LEMMA SameNames ==
    ASSUME host' = host
    PROVE  /\ \A a : Overlaps(a)' <=> Overlaps(a)
           /\ \A m, a : Renamed(m, a)' = Renamed(m, a)
           /\ \A a : Understood(a)' = Understood(a) /\ (Glued(a)' <=> Glued(a))
<1>1. /\ \A p : Exists(p)' <=> Exists(p)
      /\ \A p : IsDir(p)' <=> IsDir(p)
  BY SameThere
<1>2. \A p : NewName(p)' = NewName(p)
  BY <1>1 DEF NewName
<1>3. ASSUME NEW a PROVE Overlaps(a)' <=> Overlaps(a)
  BY <1>2 DEF Overlaps
<1>4. ASSUME NEW m, NEW a PROVE Renamed(m, a)' = Renamed(m, a)
  BY <1>2 DEF Renamed
<1>5. ASSUME NEW a PROVE Understood(a)' = Understood(a) /\ (Glued(a)' <=> Glued(a))
  BY <1>1 DEF Understood, Glued
<1>. QED  BY <1>3, <1>4, <1>5

\* How an argument has been read and rewritten
Rewrites(arg, parts, text) ==
    /\ parts = Understood(arg) \/ Glued(arg)
    /\ text = Renamed(arg.mark, parts) \/ Overlaps(parts)

\* An argument that is a path as a whole gets its new name.
LEMMA WholeRenamed ==
    ASSUME TypeOK, Resolving, IsWhole
    PROVE  Rewrites(Arg, <<Arg.whole>>, Spelled(ArchiveName(Arg.whole)))
<1>. DEFINE p == Arg.whole
            parts == <<p>>
            P == [j \in DOMAIN parts |-> Spelled(NewName(parts[j]))]
<1>1. p \in Paths /\ Arg.mark \in Letter
  BY ArgType, TransferAssumption DEF Resolving
<1>2. WholeThere /\ ~Nameless(p)
  BY DEF IsWhole
<1>4. NewName(p) = ArchiveName(p) /\ (parts = Understood(Arg) \/ Glued(Arg))
  <2>1. CASE Exists(p)
    BY <1>2, <2>1 DEF Understood, NewName
  <2>2. CASE ~Exists(p)
    <3>1. Contains(Spelled(p), Blank) /\ ParentThere(p, hostFiles)
      BY <1>2, <2>2 DEF WholeThere, FileExists
    <3>2. Glued(Arg) /\ ~UseAbsolutePath(p)
      BY <2>2, <3>1 DEF ParentThere, Glued
    <3>. QED  BY <2>2, <3>2 DEF NewName, ArchiveName
  <2>. QED  BY <2>1, <2>2
<1>5. Spelled(NewName(p)) \in Seq(Letter)
  BY <1>1, NewNameType
<1>6. P \in [1..1 -> Seq(Letter)] /\ P[1] = Spelled(NewName(p))
  <2>. HIDE DEF p
  <2>. QED  BY <1>5
<1>7. Joined(Arg.mark, P) = P[1]
  <2>. HIDE DEF P
  <2>. QED  BY <1>1, <1>6, JoinedOne
<1>8. Renamed(Arg.mark, parts) = Spelled(ArchiveName(p))
  BY <1>4, <1>6, <1>7 DEF Renamed
<1>. QED  BY <1>4, <1>8 DEF Rewrites

\* An argument that is analysed part by part gets the new names of its parts.
LEMMA PartsRenamed ==
    ASSUME TypeOK, ResolveParts
    PROVE  \E text : command' = Append(command, text) /\ Rewrites(Arg, Arg.parts, text)
<1>. DEFINE base == IF WholeThere THEN Listed(hostFiles, Arg.whole) ELSE hostFiles
            files == CHOOSE f : f = [n \in 0..Len(Arg.parts) |->
                                   IF n = 0 THEN base
                                   ELSE ListPart(f[n - 1], Arg.parts[n])]
            d == CHOOSE f : f = [n \in 0..Len(Arg.parts) |->
                                   IF n = 0 THEN Spelled(Arg.whole)
                                   ELSE RewritePart(f[n - 1], Arg.parts[n], files[n - 1])]
<1>1. command' = Append(command, d[Len(Arg.parts)])
  BY DEF ResolveParts
<1>2. Len(command) < Len(args) /\ ~IsWhole
  BY DEF ResolveParts, Resolving
<1>3. Arg \in Arguments /\ Arg.parts \in Seq(Paths) /\ Arg.mark \in Letter
  BY <1>2, ArgType, TransferAssumption
<1>4. /\ Spelled(Arg.whole)
            = Joined(Arg.mark, [j \in DOMAIN Arg.parts |-> Spelled(Arg.parts[j])])
      /\ Len(Arg.parts) = 1 => Arg.parts[1] = Arg.whole
      /\ Len(Arg.parts) > 1 =>
            \A j \in DOMAIN Arg.parts : ~Contains(Spelled(Arg.parts[j]), Arg.mark)
  BY <1>3, TransferAssumption
<1>5. ~(Exists(Arg.whole) /\ ~Nameless(Arg.whole))
  <2>. SUFFICES ASSUME Exists(Arg.whole), ~Nameless(Arg.whole) PROVE FALSE
    OBVIOUS
  <2>1. WholeThere
    BY RootNameless DEF WholeThere, FileExists
  <2>. QED  BY <1>2, <2>1 DEF IsWhole
<1>6. Arg.parts = Understood(Arg)
  BY <1>5 DEF Understood
<1>7. Divided(Arg.mark, Arg.parts)
  BY <1>4, <1>5 DEF Divided, NewName
<1>8. ~Overlaps(Arg.parts) => d[Len(Arg.parts)] = Renamed(Arg.mark, Arg.parts)
  <2>. DEFINE a == Arg.parts
              m == Arg.mark
              w == Spelled(Arg.whole)
              dd == d
              fs == files
  <2>1. OneByOne(dd, w, a, fs)
    BY DEF OneByOne
  <2>2. /\ a \in Seq(Paths) /\ m \in Letter /\ Divided(m, a)
        /\ w = Undivided(m, a)
    BY <1>3, <1>4, <1>7 DEF Undivided
  <2>. HIDE DEF a, m, w, dd, fs
  <2>3. ~Overlaps(a) => dd[Len(a)] = Renamed(m, a)
    BY <2>1, <2>2, RewriteAll
  <2>. QED  BY <2>3 DEF a, m, dd
<1>. HIDE DEF d
<1>. QED  BY <1>1, <1>6, <1>8 DEF Rewrites

\* One argument more is rewritten.
LEMMA RewrittenMore ==
    ASSUME TypeOK, Rewritten, Resolving, UNCHANGED <<host, args, inTar, phase>>,
           NEW text, command' = Append(command, text),
           NEW r, r \in {<<Arg.whole>>, Arg.parts}, reading' = Append(reading, r),
           Rewrites(Arg, r, text)
    PROVE  Rewritten'
<1>1. /\ Len(command) \in Nat /\ Len(command) < Len(args)
      /\ phase = "resolve" /\ ~inTar /\ phase' = "resolve"
  BY DEF Resolving, TypeOK
<1>2. /\ Len(command') = Len(command) + 1
      /\ \A i \in 1..Len(command) : command'[i] = command[i]
      /\ command'[Len(command) + 1] = text
  BY <1>1, OneCommandMore
<1>3. /\ \A i \in 1..Len(command) : reading'[i] = reading[i]
      /\ reading'[Len(command) + 1] = r
  BY <1>1, OneReadMore
<1>4. ASSUME NEW i \in 1..Len(command') PROVE Rewrites(args[i], reading'[i], command'[i])
  <2>1. CASE i \in 1..Len(command)
    BY <1>1, <1>2, <1>3, <2>1 DEF Rewritten, Rewrites
  <2>2. CASE i = Len(command) + 1
    BY <1>2, <1>3, <2>2 DEF Arg
  <2>3. i \in 1..(Len(command) + 1)
    BY <1>2
  <2>4. i \in 1..Len(command) \/ i = Len(command) + 1
    BY <1>1, <2>3
  <2>. QED  BY <2>1, <2>2, <2>4
<1>5. ASSUME NEW i \in 1..Len(command')
      PROVE  /\ reading'[i] = Understood(args[i])' \/ Glued(args[i])'
             /\ \/ command'[i] = Renamed(args[i].mark, reading[i])'
                \/ Overlaps(reading[i])'
  BY <1>4, SameNames DEF Rewrites
<1>. QED  BY <1>1, <1>5 DEF Rewritten

\* What is rewritten stays so.
LEMMA SameRewritten ==
    ASSUME Rewritten, UNCHANGED <<host, args, inTar, command, reading>>,
           phase \in {"resolve", "detect", "upload"} \/ inTar
              \/ phase' \notin {"resolve", "detect", "upload"},
           phase' = "upload" /\ phase # "upload" => inTar \/ Len(command) = Len(args)
    PROVE  Rewritten'
<1>1. \A i : /\ Understood(args[i])' = Understood(args[i])
             /\ Glued(args[i])' <=> Glued(args[i])
             /\ Renamed(args[i].mark, reading[i])' = Renamed(args[i].mark, reading[i])
             /\ Overlaps(reading[i])' <=> Overlaps(reading[i])
  BY SameNames
<1>. QED  BY <1>1 DEF Rewritten

\* Every step of the resolver rewrites the arguments like this.
LEMMA RewrittenStep ==
    ASSUME TypeOK, Listing, Rewritten, Next
    PROVE  Rewritten'
<1>1. CASE Analysis /\ ResolveWhole
  <2>1. /\ UNCHANGED <<host, args, inTar, phase>> /\ Resolving /\ IsWhole
        /\ command' = Append(command, Spelled(ArchiveName(Arg.whole)))
        /\ reading' = Append(reading, <<Arg.whole>>)
    BY <1>1, AnalysisKeeps DEF ResolveWhole
  <2>2. Rewrites(Arg, <<Arg.whole>>, Spelled(ArchiveName(Arg.whole)))
    BY <2>1, WholeRenamed
  <2>. QED  BY <2>1, <2>2, RewrittenMore
<1>2. CASE Analysis /\ ResolveParts
  <2>1. /\ UNCHANGED <<host, args, inTar, phase>> /\ Resolving
        /\ reading' = Append(reading, Arg.parts)
    BY <1>2, AnalysisKeeps DEF ResolveParts
  <2>2. PICK text : command' = Append(command, text) /\ Rewrites(Arg, Arg.parts, text)
    BY <1>2, PartsRenamed
  <2>. QED  BY <2>1, <2>2, RewrittenMore
<1>3. CASE Analysis /\ (ApplyFilters \/ DetectUploadFiles)
  <2>1. UNCHANGED <<host, args, inTar, command, reading>>
        /\ phase \in {"resolve", "detect"} /\ (phase' = "upload" => phase = "detect")
    BY <1>3, AnalysisKeeps DEF ApplyFilters, DetectUploadFiles
  <2>2. phase' = "upload" => inTar \/ Len(command) = Len(args)
    BY <2>1 DEF Listing
  <2>. QED  BY <2>1, <2>2, SameRewritten
<1>4. CASE Analysis /\ TakeArgsAsTheyAre
  BY <1>4, AnalysisKeeps DEF TakeArgsAsTheyAre, Rewritten
<1>5. CASE Analysis /\ ResolveRaises
  BY <1>5 DEF Rewritten, ResolveRaises
<1>6. CASE Transport
  BY <1>6, TransportKeeps DEF Rewritten
<1>7. CASE ToolWrites
  BY <1>7, ToolKeeps DEF Rewritten
<1>. QED  BY <1>1, <1>2, <1>3, <1>4, <1>5, <1>6, <1>7 DEF Next, Analysis, Resolver

----------------------------------------------------------------------------
(* The invariant, and the theorems that follow from it *)

\* The inductive invariant holds in the beginning.
LEMMA InvInit ==
    ASSUME Init
    PROVE  IInv
<1>1. TypeOK
  BY InitType
<1>2. Waits /\ HostKept /\ phase = "resolve"
  BY DEF Init, ResolverInit, TarInit, Waits, HostKept
<1>3. Listing
  <2>1. hostFiles = outDirs /\ Len(command) = 0 /\ DOMAIN reading = {}
    BY DEF Init, ResolverInit
  <2>2. Done = {}
    <3>1. Read = {}
      BY <2>1 DEF Read
    <3>2. 1..Len(command) = {}
      BY <2>1
    <3>. QED  BY <3>1, <3>2 DEF Done
  <2>3. Lists(hostFiles, {})
    BY <2>1 DEF Lists, FilesOf
  <2>. QED  BY <1>2, <2>2, <2>3 DEF Listing
<1>4. Packing /\ UploadsAsked
  BY <1>2 DEF Packing, UploadsAsked
<1>5. Origins /\ Fetching
  BY DEF Init, TarInit, Origins, Fetching
<1>6. Rewritten
  <2>1. Len(command) = 0 /\ phase = "resolve"
    BY DEF Init, ResolverInit
  <2>. QED  BY <2>1 DEF Rewritten
<1>. QED  BY <1>1, <1>2, <1>3, <1>4, <1>5, <1>6 DEF IInv

\* Every step keeps the inductive invariant.
LEMMA InvStep ==
    ASSUME IInv, [Next]_vars
    PROVE  IInv'
<1>1. CASE Next
  BY <1>1, TypeStep, WaitsStep, ListingStep, PackingStep, OriginsStep, FetchingStep,
     RewrittenStep, UploadsAskedStep, HostKeptStep DEF IInv
<1>2. CASE UNCHANGED vars
  <2>1. /\ UNCHANGED <<host, outDirs, args, filters, inTar, phase, uploads>>
        /\ UNCHANGED <<hostFiles, command, reading, cont, stats, wrote, start>>
    BY <1>2 DEF vars
  <2>2. /\ \A c : Borrowed(c)' <=> Borrowed(c)
        /\ \A c : Fetched(c)' <=> Fetched(c)
        /\ \A p : CopyOf(p)' <=> CopyOf(p)
    BY <1>2 DEF vars, Borrowed, Fetched, CopyOf
  <2>3. TypeOK' /\ Waits'
    BY <1>2 DEF vars, IInv, TypeOK, Waits
  <2>4. Origins' /\ HostKept'
    BY <1>2, <2>2 DEF vars, IInv, Origins, HostKept
  <2>5. Fetching'
    BY <1>2, <2>2 DEF vars, IInv, Fetching
  <2>6. Listing'
    <3>1. Done' = Done
      BY <2>1, SameFiles DEF Done
    <3>2. Lists(hostFiles, Done) => Lists(hostFiles, Done)'
      BY <2>1, <3>1, SameLists
    <3>3. FilesOf(hostFiles)' = FilesOf(hostFiles) /\ FilesOf(Asked)' = FilesOf(Asked)
      BY <2>1, SameFiles DEF FilesOf
    <3>4. (\A f \in hostFiles : Exists(f) \/ f \in Named)' <=>
             \A f \in hostFiles : Exists(f) \/ f \in Named
      BY <2>1, SameFiles
    <3>. QED  BY <2>1, <3>2, <3>3, <3>4 DEF IInv, Listing
  <2>7. Packing'
    <3>1. phase \in {"upload", "exec"} /\ ~inTar /\ filters = {} => Places
      BY DEF IInv, Packing
    <3>2. Places => Places'
      BY <2>1, SamePlaces
    <3>3. (\E elsewhere \in SUBSET Doubled : cont = CreateTar(elsewhere))
             => (\E elsewhere \in SUBSET Doubled : cont = CreateTar(elsewhere))'
      BY <2>1, SameTar
    <3>. QED  BY <2>1, <3>1, <3>2, <3>3 DEF IInv, Packing
  <2>8. UploadsAsked'
    <3>1. FilesOf(Asked)' = FilesOf(Asked) /\ FilesOf(uploads)' = FilesOf(uploads)
          /\ Asked' = Asked /\ InTheWay' = InTheWay
      BY <2>1, SameFiles DEF FilesOf
    <3>. QED  BY <2>1, <3>1 DEF IInv, UploadsAsked
  <2>9. Rewritten'
    <3>1. phase \notin {"resolve", "detect", "upload"} =>
             phase' \notin {"resolve", "detect", "upload"}
      BY <2>1
    <3>. QED  BY <2>1, <3>1, SameRewritten DEF IInv
  <2>. QED  BY <2>3, <2>4, <2>5, <2>6, <2>7, <2>8, <2>9 DEF IInv
<1>. QED  BY <1>1, <1>2

\* In every state of a run the lists, the archive and the results are where
\* IInv says: for any tree of files, any arguments and any current directory.
THEOREM Invariance == Spec => []IInv
BY InvInit, InvStep, PTL DEF Spec

\* Every variable keeps its type.
THEOREM TypeCorrect == Spec => []TypeOK
<1>1. IInv => TypeOK
  BY DEF IInv
<1>. QED  BY <1>1, Invariance, PTL

\* detect_upload_files ends with exactly the files that were asked for, in
\* whatever order the arguments name them and however they overlap.
THEOREM NoMoreNoLess == Spec => []UploadsAsked
<1>1. IInv => UploadsAsked
  BY DEF IInv
<1>. QED  BY <1>1, Invariance, PTL

\* Every argument names, in the container, the files that it named on the host:
\* str.replace, made for one part after the other in the whole argument, hits
\* nothing but the parts, unless one is spelled like a piece of another, or
\* __file_exists takes several parts with a blank for one path to write to.
THEOREM SameMeaning == Spec => []ArgumentsMean
<1>1. IInv => ArgumentsMean
  <2>. SUFFICES ASSUME IInv, phase = "upload", ~inTar, NEW i \in DOMAIN args
                PROVE  /\ reading[i] = Understood(args[i]) \/ Glued(args[i])
                       /\ \/ command[i] = Renamed(args[i].mark, reading[i])
                          \/ Overlaps(reading[i])
    BY DEF ArgumentsMean
  <2>1. Len(command) = Len(args) /\ args \in Seq(Arguments)
    BY DEF IInv, Rewritten, TypeOK
  <2>2. i \in 1..Len(command)
    BY <2>1
  <2>. QED  BY <2>2 DEF IInv, Rewritten
<1>. QED  BY <1>1, Invariance, PTL

\* The download changes nothing on the host but where the tool has written, or
\* an input came from elsewhere, and what has the name of a _TEMP copy.
THEOREM HostSafe == Spec => []HostKept
<1>1. IInv => HostKept
  BY DEF IInv
<1>. QED  BY <1>1, Invariance, PTL

\* A download that ends well has put every result of the tool in its place,
\* unless size and second say that it is the input, or a copy had its name.
THEOREM ResultsArrive == Spec => []ResultsPlaced
<1>1. IInv => ResultsPlaced
  <2>. SUFFICES ASSUME IInv, phase = "done", NEW c \in wrote, NEW d \in lookIn,
                       cont[c].kind = "file",
                       cont[c].from = "backdated" => c \notin DOMAIN stats,
                       ~Contains(d, Up), IsPrefix(InContainer(d), WorkDir \o c),
                       ~CopyOf(Target(c))
                PROVE  IF outTar THEN c \in tar
                       ELSE Target(c) \in DOMAIN host /\ host[Target(c)] = cont[c]
    BY DEF ResultsPlaced
  <2>1. Fetched(c)
    BY DEF Fetched
  <2>. QED  BY <2>1 DEF IInv, Fetching
<1>. QED  BY <1>1, Invariance, PTL

\* __create_tar makes the directories of -d, and those in which the tool is told
\* to write, unless a file is listed under another name for the dots in its own.
THEOREM PlacesThere == Spec => []PlacesMade
<1>1. IInv => PlacesMade
  <2>. SUFFICES ASSUME IInv, phase = "exec", wrote = {}, ~inTar, filters = {}
                PROVE  /\ \A d \in outDirs : HasPlace(ArchiveName(d))
                       /\ \/ \E f \in hostFiles : Detour(f)
                          \/ \A p \in Read : ~UseAbsolutePath(p) /\ ~Exists(p) =>
                                \A q \in Parents(p) : IsDir(q) => HasPlace(q)
    BY DEF PlacesMade
  <2>1. Places /\ uploads \subseteq Paths
    BY DEF IInv, Packing, TypeOK
  <2>0. PICK elsewhere \in SUBSET Doubled : cont = CreateTar(elsewhere)
    BY DEF IInv, Packing
  <2>2. ASSUME NEW n \in Names PROVE HasPlace(n)
    <3>1. CASE n = <<>>
      BY <3>1 DEF HasPlace
    <3>2. CASE n # <<>>
      <4>. DEFINE u == Source(n, elsewhere)
      <4>1. n \in DOMAIN cont /\ cont[n] = Entry(n, elsewhere)
        BY <2>0, <2>1, <3>2, TarHas
      <4>2. u \in uploads /\ ArchiveName(u) = n
        BY SourceMeans
      <4>3. CASE ~OnHost(u)
        BY <4>1, <4>3 DEF Entry, HasPlace, Dir
      <4>4. CASE OnHost(u) /\ DirThere(u)
        BY <4>1, <4>4 DEF Entry, HasPlace, DirThere
      <4>5. CASE OnHost(u) /\ ~DirThere(u)
        BY <4>2, <4>5 DEF HasPlace
      <4>. QED  BY <4>3, <4>4, <4>5
    <3>. QED  BY <3>1, <3>2
  <2>3. ASSUME NEW q, Leads(q) PROVE HasPlace(q)
    <3>1. CASE q \in Names
      BY <2>2, <3>1
    <3>2. CASE q \notin Names
      <4>1. q \in DOMAIN cont /\ cont[q] = Dir
        BY <2>0, <2>1, <2>3, <3>2, TarHas DEF Leads
      <4>. QED  BY <4>1 DEF HasPlace, Dir
    <3>. QED  BY <3>1, <3>2
  <2>4. \A d \in outDirs : ArchiveName(d) \in Names
    BY <2>1 DEF Places, Names
  <2>. QED  BY <2>1, <2>2, <2>3, <2>4 DEF Places
<1>. QED  BY <1>1, Invariance, PTL
=============================================================================
