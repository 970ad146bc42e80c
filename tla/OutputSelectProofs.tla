------------------------ MODULE OutputSelectProofs -------------------------
(***************************************************************************)
(* Theorems about OutputSelect, for any tree, any patterns and any number  *)
(* of filters.                                                             *)
(***************************************************************************)
EXTENDS OutputSelect, TLAPS

\* What is left of a sequence without one of its elements.
LEMMA RemoveAtFacts ==
  ASSUME NEW S, NEW s \in Seq(S), NEW i \in 1..Len(s)
  PROVE  /\ RemoveAt(s, i) \in Seq(S)
         /\ Len(RemoveAt(s, i)) = Len(s) - 1
         /\ \A k \in 1..(Len(s) - 1) :
               RemoveAt(s, i)[k] = IF k < i THEN s[k] ELSE s[k + 1]
<1>. DEFINE a == SubSeq(s, 1, i - 1)
            b == SubSeq(s, i + 1, Len(s))
<1>1. /\ a \in Seq(S) /\ Len(a) = i - 1
      /\ \A k \in 1..(i - 1) : a[k] = s[k]
  OBVIOUS
<1>2. /\ b \in Seq(S) /\ Len(b) = Len(s) - i
      /\ \A k \in 1..(Len(s) - i) : b[k] = s[k + i]
  OBVIOUS
<1>3. RemoveAt(s, i) = a \o b
  BY DEF RemoveAt
<1>. HIDE DEF a, b
<1>4. /\ a \o b \in Seq(S) /\ Len(a \o b) = Len(s) - 1
      /\ \A k \in 1..(Len(s) - 1) :
            (a \o b)[k] = IF k < i THEN a[k] ELSE b[k - (i - 1)]
  <2>1. a \o b \in Seq(S) /\ Len(a \o b) = Len(s) - 1 /\ Len(a) = i - 1
    BY <1>1, <1>2
  <2>2. \A k \in 1..(Len(s) - 1) :
           (a \o b)[k] = IF k <= Len(a) THEN a[k] ELSE b[k - Len(a)]
    BY <1>1, <1>2
  <2>. QED  BY <2>1, <2>2
<1>5. \A k \in 1..(Len(s) - 1) :
         k >= i => k - (i - 1) \in 1..(Len(s) - i) /\ k - (i - 1) + i = k + 1
  OBVIOUS
<1>. QED  BY <1>1, <1>2, <1>3, <1>4, <1>5

\* Taking an element out of one sequence and appending it to another loses
\* none and adds none.
LEMMA MoveKeeps ==
  ASSUME NEW S, NEW s \in Seq(S), NEW t \in Seq(S), NEW i \in 1..Len(s)
  PROVE  ToSet(RemoveAt(s, i)) \cup ToSet(Append(t, s[i])) = ToSet(s) \cup ToSet(t)
<1>. DEFINE r == RemoveAt(s, i)
            u == Append(t, s[i])
<1>1. /\ r \in Seq(S) /\ Len(r) = Len(s) - 1
      /\ \A k \in 1..(Len(s) - 1) : r[k] = IF k < i THEN s[k] ELSE s[k + 1]
  BY RemoveAtFacts
<1>2. /\ u \in Seq(S) /\ Len(u) = Len(t) + 1 /\ u[Len(t) + 1] = s[i]
      /\ \A k \in 1..Len(t) : u[k] = t[k]
  OBVIOUS
<1>. HIDE DEF r, u
<1>3. ToSet(r) \cup ToSet(u) \subseteq ToSet(s) \cup ToSet(t)
  <2>1. \A k \in 1..Len(r) : r[k] \in ToSet(s)
    <3>. SUFFICES ASSUME NEW k \in 1..Len(r) PROVE r[k] \in ToSet(s)
      OBVIOUS
    <3>1. \E j \in 1..Len(s) : r[k] = s[j]
      <4>1. k \in 1..Len(s) /\ k + 1 \in 1..Len(s)
        BY <1>1
      <4>. QED  BY <4>1, <1>1
    <3>. QED  BY <3>1 DEF ToSet
  <2>2. \A k \in 1..Len(u) : u[k] \in ToSet(s) \cup ToSet(t)
    <3>. SUFFICES ASSUME NEW k \in 1..Len(u) PROVE u[k] \in ToSet(s) \cup ToSet(t)
      OBVIOUS
    <3>1. CASE k = Len(t) + 1
      BY <3>1, <1>2 DEF ToSet
    <3>2. CASE k # Len(t) + 1
      <4>1. k \in 1..Len(t)
        BY <3>2, <1>2
      <4>. QED  BY <4>1, <1>2 DEF ToSet
    <3>. QED  BY <3>1, <3>2
  <2>3. DOMAIN r = 1..Len(r) /\ DOMAIN u = 1..Len(u)
    BY <1>1, <1>2
  <2>4. ToSet(r) = {r[k] : k \in 1..Len(r)} /\ ToSet(u) = {u[k] : k \in 1..Len(u)}
    BY <2>3 DEF ToSet
  <2>. QED  BY <2>1, <2>2, <2>4
<1>4. ToSet(s) \subseteq ToSet(r) \cup ToSet(u)
  <2>. SUFFICES ASSUME NEW k \in 1..Len(s) PROVE s[k] \in ToSet(r) \cup ToSet(u)
    BY DEF ToSet
  <2>1. CASE k < i
    <3>1. k \in 1..Len(r) /\ r[k] = s[k]
      BY <2>1, <1>1
    <3>. QED  BY <3>1, <1>1 DEF ToSet
  <2>2. CASE k = i
    BY <2>2, <1>2 DEF ToSet
  <2>3. CASE k > i
    <3>1. k - 1 \in 1..Len(r) /\ r[k - 1] = s[k]
      BY <2>3, <1>1
    <3>. QED  BY <3>1, <1>1 DEF ToSet
  <2>. QED  BY <2>1, <2>2, <2>3
<1>5. ToSet(t) \subseteq ToSet(u)
  <2>. SUFFICES ASSUME NEW k \in 1..Len(t) PROVE t[k] \in ToSet(u)
    BY DEF ToSet
  <2>1. k \in 1..Len(u) /\ u[k] = t[k]
    BY <1>2
  <2>. QED  BY <2>1, <1>2 DEF ToSet
<1>. QED  BY <1>3, <1>4, <1>5 DEF r, u

----------------------------------------------------------------------------
(* The inductive invariant *)

\* A selection starts in it.
LEMMA InvInit == Init => IInv
<1>. SUFFICES ASSUME Init PROVE IInv
  OBVIOUS
<1>1. PICK n \in 0..MaxFilters : filters \in [1..n -> Filter]
  BY SelectAssumption DEF Init
<1>2. filters \in Seq(Filter) /\ Len(filters) = n
  BY <1>1
<1>3. TypeOK
  BY <1>1, <1>2, SelectAssumption DEF Init, TypeOK
<1>4. Sorting
  BY <1>2 DEF Init, Sorting, User, ToSet
<1>. QED  BY <1>3, <1>4 DEF Init, IInv, Filtering

\* Every step preserves it.
LEMMA InvStep == IInv /\ [Next]_vars => IInv'
<1>. SUFFICES ASSUME IInv, [Next]_vars PROVE IInv'
  OBVIOUS
<1>. USE SelectAssumption DEF IInv, given
<1>1. CASE SortInclude
  <2>1. /\ pos \in 1..Len(excl) /\ excl[pos].include /\ excl[pos] \in Filter
        /\ phase = "sort" /\ phase' = "sort"
    BY <1>1 DEF SortInclude, TypeOK
  <2>2. /\ excl' \in Seq(Filter) /\ Len(excl') = Len(excl) - 1
        /\ \A k \in 1..(Len(excl) - 1) :
              excl'[k] = IF k < pos THEN excl[k] ELSE excl[k + 1]
    BY <1>1, <2>1, RemoveAtFacts DEF SortInclude, TypeOK
  <2>3. /\ incl' \in Seq(Filter) /\ Len(incl') = Len(incl) + 1 /\ incl' # <<>>
        /\ incl'[Len(incl) + 1] = excl[pos] /\ \A k \in 1..Len(incl) : incl'[k] = incl[k]
    BY <1>1, <2>1 DEF SortInclude, TypeOK
  <2>4. \A k \in 1..Len(incl') : incl'[k].include
    <3>1. \A k \in 1..Len(incl) : incl[k].include
      BY DEF TypeOK
    <3>2. ASSUME NEW k \in 1..Len(incl') PROVE k \in 1..Len(incl) \/ k = Len(incl) + 1
      BY <2>3, Len(incl) \in Nat DEF TypeOK
    <3>. HIDE DEF IInv
    <3>. QED  BY <3>1, <3>2, <2>1, <2>3
  <2>5. Len(excl) <= MaxFilters
    BY DEF Sorting, TypeOK
  <2>6. pos' = pos + 1 /\ pos' \in 1..(MaxFilters + 1)
    BY <1>1, <2>1, <2>5 DEF SortInclude, TypeOK
  <2>7. TypeOK'
    BY <1>1, <2>1, <2>2, <2>3, <2>4, <2>6 DEF SortInclude, TypeOK, Leaves
  <2>8. ToSet(excl') \cup ToSet(incl') = User'
    BY <1>1, <2>1, MoveKeeps DEF SortInclude, TypeOK, Sorting, User
  <2>9. ASSUME ~Neighbours', NEW k \in 1..Len(excl')
        PROVE  IF k < pos' THEN ~excl'[k].include
               ELSE excl'[k] = filters'[k + Len(incl')]
    <3>1. ~Neighbours /\ filters' = filters
      BY <1>1, <2>9 DEF SortInclude, Neighbours
    <3>2. \A j \in 1..Len(excl) :
             IF j < pos THEN ~excl[j].include ELSE excl[j] = filters[j + Len(incl)]
      BY <3>1 DEF Sorting
    <3>3. CASE k < pos
      BY <3>3, <3>2, <2>1, <2>2, <2>6
    <3>4. CASE k >= pos
      <4>1. k + 1 \in 1..Len(excl) /\ k + 1 >= pos /\ excl'[k] = excl[k + 1]
        BY <3>4, <2>1, <2>2
      <4>2. excl'[k] = filters[k + 1 + Len(incl)]
        BY <4>1, <3>2, <2>1
      <4>3. excl'[k] = filters'[k + Len(incl')]
        BY <4>2, <2>3, <3>1 DEF TypeOK
      <4>4. ASSUME k = pos PROVE ~excl'[k].include
        <5>1. excl[pos] = filters[pos + Len(incl)]
          BY <3>2, <2>1
        <5>2. pos + Len(incl) \in 1..(Len(filters) - 1)
          BY <2>1, <2>2, <4>4 DEF Sorting, TypeOK
        <5>3. (pos + Len(incl)) + 1 = k + 1 + Len(incl)
          BY <4>4 DEF TypeOK
        <5>. QED  BY <5>1, <5>2, <5>3, <4>2, <3>1, <2>1 DEF Neighbours
      <4>. QED  BY <4>3, <4>4, <3>4, <2>6, <2>1
    <3>. QED  BY <3>3, <3>4, <2>1
  <2>10. Len(excl') + Len(incl') = Len(filters')
    <3>1. /\ Len(excl) + Len(incl) = Len(filters) /\ filters' = filters
          /\ Len(excl) \in Nat /\ Len(incl) \in Nat
      BY <1>1 DEF SortInclude, Sorting, TypeOK
    <3>2. Len(excl') = Len(excl) - 1 /\ Len(incl') = Len(incl) + 1
      BY <2>2, <2>3
    <3>. HIDE DEF IInv
    <3>. QED  BY ONLY <3>1, <3>2
  <2>11. Sorting'
    BY <2>1, <2>3, <2>8, <2>9, <2>10 DEF Sorting
  <2>12. Filtering'
    BY <2>1 DEF Filtering
  <2>. QED  BY <2>7, <2>11, <2>12
<1>2. CASE SortExclude
  <2>1. Len(excl) <= MaxFilters
    BY DEF Sorting, TypeOK
  <2>2. TypeOK'
    BY <1>2, <2>1 DEF SortExclude, TypeOK, Leaves
  <2>3. Neighbours' = Neighbours /\ User' = User
    BY <1>2 DEF SortExclude, Neighbours, User
  <2>4. Sorting'
    BY <1>2, <2>3 DEF SortExclude, Sorting, TypeOK
  <2>. QED  BY <1>2, <2>2, <2>4 DEF SortExclude, Filtering
<1>3. CASE Choose
  <2>1. Chosen' = Chosen /\ Leaves(diff') = Leaves(diff) /\ User' = User
        /\ Neighbours' = Neighbours
    BY <1>3 DEF Choose, Chosen, Merged, IgnoreFilters, Leaves, User, Neighbours
  <2>2. Chosen \subseteq Filter
    <3>1. IgnoreFilters \subseteq Filter
      <4>1. \A p \in Patterns : Excluding(p) \in Filter
        BY DEF Excluding, Filter
      <4>. QED  BY <4>1 DEF TypeOK, IgnoreFilters
    <3>2. ToSet(filters) \subseteq Filter /\ ToSet(excl) \subseteq Filter
          /\ ToSet(incl) \subseteq Filter
      BY DEF TypeOK, ToSet
    <3>. QED  BY <3>1, <3>2 DEF Chosen, Merged
  <2>3. TypeOK'
    BY <1>3, <2>1, <2>2 DEF Choose, TypeOK
  <2>4. Sorting'
    BY <1>3, <2>1 DEF Choose, Sorting
  <2>5. Filtering'
    BY <1>3, <2>1 DEF Choose, Filtering
  <2>. QED  BY <2>3, <2>4, <2>5
<1>4. CASE Apply
  <2>1. PICK f \in queue : /\ kept' = {c \in kept : Passes(f, c)}
                           /\ queue' = queue \ {f}
    BY <1>4 DEF Apply
  <2>2. Chosen' = Chosen /\ Leaves(diff') = Leaves(diff) /\ User' = User
        /\ Neighbours' = Neighbours
    BY <1>4 DEF Apply, Chosen, Merged, IgnoreFilters, Leaves, User, Neighbours
  <2>3. TypeOK'
    BY <1>4, <2>1, <2>2 DEF Apply, TypeOK
  <2>4. Sorting'
    BY <1>4, <2>2 DEF Apply, Sorting
  <2>5. kept = {c \in Leaves(diff) : \A g \in Chosen \ queue : Passes(g, c)}
        /\ queue \subseteq Chosen
    BY <1>4 DEF Apply, Filtering
  <2>6. Chosen \ queue' = (Chosen \ queue) \cup {f}
    BY <2>1, <2>5
  <2>7. kept' = {c \in Leaves(diff) : \A g \in Chosen \ queue' : Passes(g, c)}
    BY <2>1, <2>5, <2>6
  <2>8. Filtering'
    BY <1>4, <2>1, <2>2, <2>5, <2>7 DEF Apply, Filtering
  <2>. QED  BY <2>3, <2>4, <2>8
<1>5. CASE Return
  BY <1>5 DEF Return, TypeOK, Sorting, Filtering, Chosen, Merged, IgnoreFilters,
              Leaves, User, Neighbours
<1>6. CASE UNCHANGED vars
  BY <1>6 DEF vars, TypeOK, Sorting, Filtering, Chosen, Merged, IgnoreFilters,
              Leaves, User, Neighbours
<1>. QED  BY <1>1, <1>2, <1>3, <1>4, <1>5, <1>6 DEF Next

\* The inductive invariant holds at all times.
THEOREM Invariance == Spec => []IInv
<1>. QED  BY InvInit, InvStep, PTL DEF Spec

\* Every variable always has its type.
THEOREM TypeCorrect == Spec => []TypeOK
<1>1. IInv => TypeOK
  BY DEF IInv
<1>. QED  BY <1>1, Invariance, PTL

----------------------------------------------------------------------------
(* What is chosen *)

\* Both kinds of filters come from the user.
LEMMA ListsAreTheUsers ==
  ASSUME IInv
  PROVE  ToSet(excl) \subseteq User /\ ToSet(incl) \subseteq Including
<1>1. \A f \in ToSet(incl) : f.include
  BY DEF IInv, TypeOK, ToSet
<1>. QED  BY <1>1 DEF IInv, Sorting, Including

\* The list of including filters is empty only when there are none.
LEMMA FirstIsTaken ==
  ASSUME IInv, phase # "sort", incl = <<>>
  PROVE  excl = filters /\ Including = {}
<1>1. \A k \in 1..Len(filters) : ~filters[k].include
  BY DEF IInv, TypeOK, Sorting
<1>. QED  BY <1>1 DEF IInv, TypeOK, Sorting, Including, User, ToSet

\* Then all filters of the user and of the image are merged: one that is left
\* out is equal to the first of the user's.
LEMMA MergedIsAll ==
  ASSUME IInv, phase # "sort", incl = <<>>
  PROVE  Merged = User \cup IgnoreFilters
<1>1. excl = filters /\ Including = {}
  BY FirstIsTaken
<1>2. CASE filters = <<>>
  BY <1>1, <1>2 DEF Merged, User, ToSet
<1>3. CASE filters # <<>>
  <2>1. filters[1] \in User /\ filters[1] \in Filter
    BY <1>3 DEF IInv, TypeOK, User, ToSet
  <2>2. filters[1].include = FALSE
    BY <2>1, <1>1 DEF Including, Filter
  <2>3. ASSUME NEW f \in IgnoreFilters, f.pattern = filters[1].pattern
        PROVE  f = filters[1]
    <3>1. PICK q \in ignore : f = Excluding(q)
      BY <2>3 DEF IgnoreFilters
    <3>2. q = filters[1].pattern
      BY <3>1, <2>3 DEF Excluding
    <3>. QED  BY <3>1, <3>2, <2>1, <2>2 DEF Excluding, Filter
  <2>. QED  BY <1>1, <1>3, <2>1, <2>3 DEF Merged, User
<1>. QED  BY <1>2, <1>3

\* Without two including filters in a row all of them are taken.
LEMMA AllAreTaken ==
  ASSUME IInv, phase # "sort", ~Neighbours
  PROVE  ToSet(incl) = Including
<1>1. \A k \in 1..Len(excl) : ~excl[k].include
  BY DEF IInv, TypeOK, Sorting
<1>2. \A f \in ToSet(excl) : ~f.include
  BY <1>1 DEF IInv, TypeOK, ToSet
<1>. QED  BY <1>2, ListsAreTheUsers DEF IInv, Sorting, Including

\* A path that passes the filters of the image is one that it does not ignore.
LEMMA IgnoreFiltersIgnore ==
  ASSUME NEW c
  PROVE  (\A f \in IgnoreFilters : Passes(f, c)) <=> ~Ignored(c)
<1>1. ASSUME NEW p PROVE Passes(Excluding(p), c) <=> c \notin Hits(p)
  <2>1. Excluding(p).pattern = p /\ Excluding(p).include = FALSE
    BY DEF Excluding
  <2>2. Passes(Excluding(p), c) <=> ((c \in Hits(p)) = FALSE)
    BY <2>1, Zenon DEF Passes
  <2>3. CASE c \in Hits(p)
    <3>1. (c \in Hits(p)) = TRUE
      BY <2>3
    <3>. QED  BY <3>1, <2>2
  <2>4. CASE c \notin Hits(p)
    <3>1. (c \in Hits(p)) = FALSE
      BY <2>4
    <3>. QED  BY <3>1, <2>2, <2>4
  <2>. QED  BY <2>3, <2>4
<1>. QED  BY <1>1 DEF IgnoreFilters, Ignored

----------------------------------------------------------------------------
(* The results *)

\* The results are the files that were asked for, in whatever order the
\* filters are applied, unless two including filters follow each other.
THEOREM AskedIsKept == Spec => []AsAsked
<1>1. ASSUME IInv PROVE AsAsked
  <2>. SUFFICES ASSUME phase = "done", ~Neighbours \/ ~defaults
                PROVE  kept = {c \in Leaves(diff) : Asked(c)}
    BY DEF AsAsked
  <2>1. kept = {c \in Leaves(diff) : \A f \in Chosen : Passes(f, c)}
    BY <1>1 DEF IInv, Filtering
  <2>2. \A c : (\A f \in Chosen : Passes(f, c)) <=> Asked(c)
    <3>1. CASE ~defaults
      BY <3>1 DEF Chosen, Asked, User
    <3>2. CASE defaults /\ incl # <<>>
      <4>1. ToSet(incl) = Including /\ ToSet(incl) # {}
        BY <1>1, <3>2, AllAreTaken DEF IInv, TypeOK, ToSet
      <4>2. filters # <<>>
        BY <4>1 DEF Including, User, ToSet
      <4>3. Chosen = Including
        BY <3>2, <4>1, <4>2 DEF Chosen
      <4>. QED  BY <3>2, <4>1, <4>3 DEF Asked
    <3>3. CASE defaults /\ incl = <<>>
      <4>1. Including = {} /\ Merged = User \cup IgnoreFilters
        BY <1>1, <3>3, FirstIsTaken, MergedIsAll
      <4>2. filters = <<>> => User = {}
        BY DEF User, ToSet
      <4>3. Chosen = User \cup IgnoreFilters
        BY <3>3, <4>1, <4>2 DEF Chosen
      <4>. QED  BY <3>3, <4>1, <4>3, IgnoreFiltersIgnore DEF Asked
    <3>. QED  BY <3>1, <3>2, <3>3
  <2>. QED  BY <2>1, <2>2
<1>. QED  BY <1>1, Invariance, PTL

\* Nothing that all filters let pass is lost on the way.
THEOREM NothingWantedIsLost == Spec => []WantedArrives
<1>1. ASSUME IInv PROVE WantedArrives
  <2>. SUFFICES ASSUME phase = "done", NEW c \in Leaves(diff),
                       \A f \in User : Passes(f, c),
                       Including # {} \/ ~defaults \/ ~Ignored(c)
                PROVE  c \in kept
    BY DEF WantedArrives
  <2>1. kept = {d \in Leaves(diff) : \A f \in Chosen : Passes(f, d)}
    BY <1>1 DEF IInv, Filtering
  <2>2. ToSet(incl) \subseteq User /\ Including \subseteq User
    BY <1>1, ListsAreTheUsers DEF Including
  <2>3. \A f \in Chosen : Passes(f, c)
    <3>1. CASE ~defaults
      BY <3>1 DEF Chosen, User
    <3>2. CASE defaults /\ incl # <<>>
      <4>1. ToSet(incl) # {}
        BY <1>1, <3>2 DEF IInv, TypeOK, ToSet
      <4>2. filters # <<>>
        <5>1. User # {}
          BY <4>1, <2>2
        <5>. QED  BY <5>1 DEF User, ToSet
      <4>3. Chosen = ToSet(incl)
        BY <3>2, <4>2 DEF Chosen
      <4>. QED  BY <4>3, <2>2
    <3>3. CASE defaults /\ incl = <<>>
      <4>1. Including = {} /\ Merged = User \cup IgnoreFilters
        BY <1>1, <3>3, FirstIsTaken, MergedIsAll
      <4>2. Chosen \subseteq User \cup IgnoreFilters
        BY <3>3, <4>1 DEF Chosen
      <4>. QED  BY <3>3, <4>1, <4>2, IgnoreFiltersIgnore
    <3>. QED  BY <3>1, <3>2, <3>3
  <2>. QED  BY <2>1, <2>3
<1>. QED  BY <1>1, Invariance, PTL

\* A file that the image ignores is a result only when the user says so.
THEOREM IgnoredNeedsTheUser == Spec => []IgnoredStays
<1>1. ASSUME IInv PROVE IgnoredStays
  <2>. SUFFICES ASSUME phase = "done", NEW c \in kept, Ignored(c), defaults
                PROVE  \E f \in Including : c \in Hits(f.pattern)
    BY DEF IgnoredStays
  <2>1. \A f \in Chosen : Passes(f, c)
    BY <1>1 DEF IInv, Filtering
  <2>2. CASE incl = <<>>
    <3>1. Including = {} /\ Merged = User \cup IgnoreFilters
      BY <1>1, <2>2, FirstIsTaken, MergedIsAll
    <3>2. IgnoreFilters \subseteq Chosen
      BY <2>2, <3>1 DEF Chosen
    <3>. QED  BY <2>1, <3>2, IgnoreFiltersIgnore
  <2>3. CASE incl # <<>>
    <3>1. incl[1] \in ToSet(incl)
      BY <1>1, <2>3 DEF IInv, TypeOK, ToSet
    <3>2. incl[1] \in Including
      BY <1>1, <3>1, ListsAreTheUsers
    <3>3. filters # <<>>
      BY <3>2 DEF Including, User, ToSet
    <3>4. Chosen = ToSet(incl)
      BY <2>3, <3>3 DEF Chosen
    <3>. QED  BY <2>1, <3>1, <3>2, <3>4 DEF Passes, Including
  <2>. QED  BY <2>2, <2>3
<1>. QED  BY <1>1, Invariance, PTL
=============================================================================
