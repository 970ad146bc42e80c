-------------------------- MODULE ImageFetchProofs --------------------------
(***************************************************************************)
(* Theorems about ImageFetch, for every registry, every set of tags, and   *)
(* any number of broken pulls and removed images.                          *)
(***************************************************************************)
EXTENDS ImageFetch, TLAPS

\* Names mean what the command line says.
LEMMA NamesRight ==
  ASSUME TypeOK
  PROVE  /\ Repo = Target /\ Target \in Spaces
         /\ NameTag \in Refs /\ Dev \in Refs /\ Wanted \in Refs
         /\ Meaning(NameTag) = Wanted
         /\ ask.tag # Port => NameTag = Wanted
         /\ MayFallBack <=> Wanted = <<Home, StableTag>>
         /\ MayFallBack => NameTag = Wanted
<1>. USE ImageAssumption DEF TypeOK, Names, Refs, Target
<1>1. Repo = Target /\ Target \in Spaces
  BY DEF Repo, Convert
<1>2. ask.space \in Spaces /\ ask.tag \in Tags \cup {"none", Port}
  OBVIOUS
<1>3. NameTag \in Refs /\ Dev \in Refs /\ Wanted \in Refs
  BY <1>1, <1>2 DEF NameTag, Dev, Wanted, DefaultTag
<1>4. CASE ask.tag = Port
  <2>1. Target # Home /\ "none" # Port
    BY <1>4 DEF Hub, Port
  <2>2. NameTag = <<Target, Port>> /\ Wanted = <<Target, Latest>>
    BY <1>1, <1>4, <2>1 DEF NameTag, Wanted
  <2>. QED  BY <1>1, <1>3, <1>4, <2>1, <2>2 DEF Meaning, MayFallBack
<1>5. CASE ask.tag # Port
  <2>1. NameTag = Wanted /\ NameTag[2] # Port
    BY <1>1, <1>2, <1>5 DEF NameTag, Wanted, DefaultTag
  <2>2. NameTag[1] = Target
    BY <1>1 DEF NameTag
  <2>3. MayFallBack <=> Wanted = <<Home, StableTag>>
    BY <1>1, <2>1, <2>2 DEF MayFallBack, NameTag
  <2>. QED  BY <1>1, <1>3, <2>1, <2>3 DEF Meaning
<1>. QED  BY <1>4, <1>5

\* What is in the registry has a tag, and no port number.
LEMMA RemoteTagged ==
  ASSUME TypeOK, NEW r \in remote
  PROVE  Meaning(r) = r /\ r \in Refs /\ r[1] = Target
BY NamesRight, ImageAssumption DEF TypeOK, Meaning, Refs

\* The search starts in the inductive invariant.
LEMMA InvInit == Init => IInv
<1>. SUFFICES ASSUME Init PROVE IInv
  OBVIOUS
<1>1. TypeOK
  <2>. USE ImageAssumption DEF Init, Names, Refs
  <2>1. Target \in Spaces /\ Hub \in Spaces
    BY DEF Target
  <2>2. local \subseteq Refs
    BY <2>1
  <2>3. ref \in Refs /\ got \in Refs
    BY <2>1 DEF NameTag, Repo, Convert, DefaultTag, Target
  <2>4. depth \in 0..DepthCap /\ breaks \in 0..MaxBreaks
        /\ removals \in 0..MaxRemovals
    BY DEF DepthCap
  <2>5. remote \subseteq {Target} \X Tags
    OBVIOUS
  <2>6. pulling \in BOOLEAN /\ pull \in BOOLEAN /\ stream \in BOOLEAN
        /\ at \in {"look", "pull", "devlook", "devpull", "end"}
    OBVIOUS
  <2>7. ask \in Names /\ (ask.tag = Port => ask.space \notin {Hub, Home})
    OBVIOUS
  <2>8. trouble \in BOOLEAN /\ result \in {"open", "image", "zero", "nonzero"}
    OBVIOUS
  <2>. QED
    BY <2>2, <2>3, <2>4, <2>5, <2>6, <2>7, <2>8 DEF TypeOK
<1>2. RefAtCall
  BY DEF Init, RefAtCall
<1>3. RightImage /\ FoundIfThere /\ RepeatHasCause
  BY ImageAssumption DEF Init, RightImage, FoundIfThere, RepeatHasCause
<1>. QED  BY <1>1, <1>2, <1>3 DEF IInv

\* Every step of the client, of Docker and of others preserves it.
LEMMA InvStep == IInv /\ [Next]_vars => IInv'
<1>. SUFFICES ASSUME IInv, [Next]_vars PROVE IInv'
  OBVIOUS
<1>1. TypeOK
  BY DEF IInv
<1>2. /\ Repo = Target /\ NameTag \in Refs /\ Dev \in Refs
      /\ Meaning(NameTag) = Wanted /\ (ask.tag # Port => NameTag = Wanted)
      /\ MayFallBack <=> Wanted = <<Home, StableTag>>
      /\ MayFallBack => NameTag = Wanted
      /\ Dev[2] = DevTag /\ Meaning(Dev) = Dev
  BY <1>1, NamesRight, ImageAssumption DEF Dev, Meaning
<1>3. \A r \in remote : Meaning(r) = r /\ r \in Refs /\ r[1] = Target
  BY <1>1, RemoteTagged
<1>4. /\ UNCHANGED conf
      /\ Target' = Target /\ Wanted' = Wanted /\ Dev' = Dev
      /\ NameTag' = NameTag /\ (MayFallBack <=> MayFallBack')
  <2>1. UNCHANGED conf
    BY DEF Next, Client, CallFails, Fails, LookFound, LookMissing, Pulled,
           PullNotFound, FallBack, DevFound, DevMissing, DevNotFound,
           PullBreaks, Interrupt, Remove, vars, conf
  <2>. QED
    BY <2>1 DEF conf, Target, Wanted, Dev, NameTag, Repo, MayFallBack
<1>. USE ImageAssumption, <1>1, <1>2, <1>3, <1>4
     DEF IInv, TypeOK, RefAtCall, RightImage, FoundIfThere, RepeatHasCause,
         conf, call, past, End, DepthCap
<1>5. CASE LookFound
  BY <1>5 DEF LookFound, Meaning, Refs
<1>6. CASE LookMissing
  BY <1>6 DEF LookMissing, Again
<1>7. CASE Pulled("pull")
  BY <1>7 DEF Pulled
<1>8. CASE Pulled("devpull")
  BY <1>8 DEF Pulled
<1>9. CASE PullNotFound
  <2>1. {r \in remote : r[1] = Repo} = {} => Dev \notin remote
    BY DEF Dev
  <2>. QED  BY <1>9, <2>1 DEF PullNotFound
<1>10. CASE FallBack
  BY <1>10 DEF FallBack
<1>11. CASE DevFound
  BY <1>11 DEF DevFound
<1>12. CASE DevMissing
  BY <1>12 DEF DevMissing
<1>13. CASE DevNotFound
  BY <1>13 DEF DevNotFound
<1>14. CASE CallFails
  BY <1>14 DEF CallFails, Fails
<1>15. CASE PullBreaks
  BY <1>15 DEF PullBreaks
<1>16. CASE Interrupt
  BY <1>16 DEF Interrupt
<1>17. CASE Remove
  BY <1>17 DEF Remove
<1>18. CASE UNCHANGED vars
  BY <1>18 DEF vars
<1>. QED
  BY <1>5, <1>6, <1>7, <1>8, <1>9, <1>10, <1>11, <1>12, <1>13, <1>14, <1>15,
     <1>16, <1>17, <1>18 DEF Next, Client

\* The inductive invariant holds in every run.
THEOREM Invariance == Spec => []IInv
BY InvInit, InvStep, PTL DEF Spec

\* Every variable always has its type.
THEOREM TypeCorrect == Spec => []TypeOK
<1>1. IInv => TypeOK
  BY DEF IInv
<1>. QED  BY <1>1, Invariance, PTL

\* The image that is run is the one that was asked for.
THEOREM ImageIsRight == Spec => []RightImage
<1>1. IInv => RightImage
  BY DEF IInv
<1>. QED  BY <1>1, Invariance, PTL

\* An image that is in the registry is not given up.
THEOREM NotGivenUp == Spec => []FoundIfThere
<1>1. IInv => FoundIfThere
  BY DEF IInv
<1>. QED  BY <1>1, Invariance, PTL

\* Repeated pulls are counted by the broken ones and the removed images.
THEOREM RepeatsExplained == Spec => []RepeatHasCause
<1>1. IInv => RepeatHasCause
  BY DEF IInv
<1>. QED  BY <1>1, Invariance, PTL
=============================================================================
