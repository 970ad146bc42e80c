----------------------------- MODULE ImageFetch -----------------------------
(***************************************************************************)
(* How a ToolImage gets its image: namespace_conversion in                 *)
(* cincan/frontend.py and ImageFetcher in cincan/image_fetcher.py, which   *)
(* looks the name up among the local images, pulls it, falls back to the   *)
(* development tag, and calls itself again when there is still no image.   *)
(*                                                                         *)
(* Other processes remove images meanwhile, a pull may break in the middle *)
(* of its stream of progress messages, every call may fail, and Ctrl-C can *)
(* come at any time.  The Docker client library is external.               *)
(***************************************************************************)
EXTENDS Naturals

CONSTANTS
    Spaces,                     \* name spaces of repositories
    Home,                       \* that of the default registry
    Tags, StableTag, DevTag,    \* tags, and the two of the configuration
    MaxBreaks,                  \* pulls that break (bound)
    MaxRemovals                 \* images that others remove (bound)

\* The repository that a name has in Docker Hub, the tag that Docker takes
\* when there is none, and what is behind the colon of a port number.
Hub    == "hub"
Latest == "latest"
Port   == "5000/tool"

ASSUME ImageAssumption ==
    /\ {Hub, Home} \subseteq Spaces
    /\ {StableTag, DevTag, Latest} \subseteq Tags
    /\ "none" \notin Tags /\ Port \notin Tags
    /\ StableTag # DevTag
    /\ MaxBreaks \in Nat /\ MaxRemovals \in Nat

\* The argument: with a tag, without, or with a colon before a port only.
Names == [space: Spaces, tag: Tags \cup {"none", Port}]
Refs  == Spaces \X (Tags \cup {"none", Port})

VARIABLES
    ask,        \* the name on the command line
    pull,       \* --pull
    stream,     \* is there a terminal to show the progress of a pull on?
    remote,     \* images in the registries
    local,      \* images in Docker
    ref,        \* name_tag
    pulling,    \* the argument `pull` of the current call of get_image
    at,         \* the call the client is about to make
    depth,      \* how often get_image has called itself, up to DepthCap
    got,        \* the image object
    result,     \* "open", "image", or the exit code of the process
    trouble,    \* has a call failed or been interrupted? (history)
    breaks, removals

conf  == <<ask, pull, stream, remote>>
call  == <<ref, pulling, depth>>
past  == <<breaks, removals>>
vars  == <<ask, pull, stream, remote, local, ref, pulling, at, depth, got,
           result, trouble, breaks, removals>>

\* Depths above this one are not told apart: no run without fault gets here.
DepthCap == MaxBreaks + MaxRemovals + 2

----------------------------------------------------------------------------
(* Names *)

\* (fault) names of Docker Hub are left as they are
ConvertNothing(s) == s

\* namespace_conversion, with another registry than Docker Hub as default
Convert(s) == IF s = Hub THEN Home ELSE s

Repo == Convert(ask.space)

\* (fault) the stable tag of the configuration for every image
DefaultTagStable(s) == StableTag

DefaultTag(s) == IF s = Home THEN StableTag ELSE Latest

\* image.rsplit(':', 1) if ':' in image
NameTag ==
    <<Repo, IF ask.tag = "none" THEN DefaultTag(Repo) ELSE ask.tag>>

\* ":".join(name_tag) gives Docker the whole name again, port and all.
Meaning(r) == IF r[2] = Port THEN <<r[1], Latest>> ELSE r

\* What the command line means.
Target == IF ask.space = Hub THEN Home ELSE ask.space
Wanted ==
    <<Target, CASE ask.tag \in Tags                   -> ask.tag
                [] ask.tag = "none" /\ Target = Home -> StableTag
                [] OTHER                             -> Latest>>
Dev    == <<Target, DevTag>>

\* initial_tag is the stable one, of a tool of the default registry
MayFallBack == Repo = Home /\ NameTag[2] = StableTag

----------------------------------------------------------------------------
(* get_image *)

Init ==
    /\ ask \in Names
    /\ ask.tag = Port => ask.space \notin {Hub, Home}
    /\ pull \in BOOLEAN /\ stream \in BOOLEAN
    /\ remote \in SUBSET ({Target} \X Tags)
    /\ \E own \in SUBSET ({Target} \X Tags) : local = own \cup ({Hub} \X Tags)
    /\ ref = NameTag
    /\ pulling = pull
    /\ at = IF pull THEN "pull" ELSE "look"
    /\ depth = 0
    /\ got = <<Repo, "none">>
    /\ result = "open"
    /\ trouble = FALSE
    /\ breaks = 0 /\ removals = 0

End(r) == at' = "end" /\ result' = r

\* sys.exit(1) and exceptions that nobody catches
Fails(site) ==
    /\ at = site
    /\ End("nonzero")
    /\ trouble' = TRUE
    /\ UNCHANGED <<conf, local, call, got, past>>

\* APIError in any of the calls
CallFails == \E site \in {"look", "pull", "devlook", "devpull"} : Fails(site)

\* (fault) a second pull is not given its argument
AgainWithoutPull ==
    /\ pulling' = FALSE
    /\ at' = "look"
    /\ UNCHANGED result

\* get_image(image, pull=True)
Again ==
    /\ pulling' = TRUE
    /\ at' = "pull"
    /\ UNCHANGED result

LookFound ==
    /\ at = "look" /\ Meaning(ref) \in local
    /\ got' = Meaning(ref)
    /\ End("image")
    /\ UNCHANGED <<conf, local, call, trouble, past>>

\* ImageNotFound, whether this call has pulled or not
LookMissing ==
    /\ at = "look" /\ Meaning(ref) \notin local
    /\ ref' = NameTag
    /\ depth' = IF depth < DepthCap THEN depth + 1 ELSE depth
    /\ Again
    /\ UNCHANGED <<conf, local, got, trouble, past>>

\* (fault) the client looks at its registry and stores nothing
PulledOld(site) ==
    /\ at = site /\ ref \in remote
    /\ at' = "look"
    /\ UNCHANGED <<conf, local, call, got, result, trouble, past>>

\* __pull_image, or the pull of the development image
Pulled(site) ==
    /\ at = site /\ ref \in remote
    /\ local' = local \cup {ref}
    /\ at' = "look"
    /\ UNCHANGED <<conf, call, got, result, trouble, past>>

\* Errors behind the first message of a stream are messages: nobody reads
\* them, and there is no image.
PullBreaks ==
    /\ at = "pull" /\ stream /\ breaks < MaxBreaks
    /\ breaks' = breaks + 1
    /\ at' = "look"
    /\ UNCHANGED <<conf, local, call, got, result, trouble, removals>>

\* ImageNotFound for the repository, NotFound for a tag that was chosen, and
\* "invalid reference" for a port number that is taken for a tag
PullNotFound ==
    /\ at = "pull" /\ ref \notin remote
    /\ ~MayFallBack \/ {r \in remote : r[1] = Repo} = {}
    /\ End("nonzero")
    /\ UNCHANGED <<conf, local, call, got, trouble, past>>

\* NotFound for the stable tag
FallBack ==
    /\ at = "pull" /\ ref \notin remote
    /\ MayFallBack /\ {r \in remote : r[1] = Repo} # {}
    /\ ref' = Dev
    /\ at' = "devlook"
    /\ UNCHANGED <<conf, local, pulling, depth, got, result, trouble, past>>

\* "Attempt to use dev image without pull at first"
DevFound ==
    /\ at = "devlook" /\ ref \in local
    /\ got' = ref
    /\ End("image")
    /\ UNCHANGED <<conf, local, call, trouble, past>>

DevMissing ==
    /\ at = "devlook" /\ ref \notin local
    /\ at' = "devpull"
    /\ UNCHANGED <<conf, local, call, got, result, trouble, past>>

DevNotFound ==
    /\ at = "devpull" /\ ref \notin remote
    /\ End("nonzero")
    /\ UNCHANGED <<conf, local, call, got, trouble, past>>

\* KeyboardInterrupt: sys.exit(0) in __pull_image, a traceback elsewhere
Interrupt ==
    /\ result = "open"
    /\ trouble' = TRUE
    /\ IF at = "pull" THEN End("zero") ELSE End("nonzero")
    /\ UNCHANGED <<conf, local, call, got, past>>

\* another process: docker rmi
Remove ==
    /\ result = "open" /\ removals < MaxRemovals
    /\ \E r \in local : local' = local \ {r}
    /\ removals' = removals + 1
    /\ UNCHANGED <<conf, call, at, got, result, trouble, breaks>>

Client ==
    \/ LookFound \/ LookMissing \/ Pulled("pull") \/ PullNotFound \/ FallBack
    \/ DevFound \/ DevMissing \/ Pulled("devpull") \/ DevNotFound

Next == Client \/ CallFails \/ PullBreaks \/ Interrupt \/ Remove

Spec == Init /\ [][Next]_vars

FairSpec == Spec /\ WF_vars(Client)

----------------------------------------------------------------------------
(* Properties *)

TypeOK ==
    /\ ask \in Names /\ (ask.tag = Port => ask.space \notin {Hub, Home})
    /\ pull \in BOOLEAN /\ stream \in BOOLEAN
    /\ remote \subseteq {Target} \X Tags /\ local \subseteq Refs
    /\ ref \in Refs /\ got \in Refs
    /\ pulling \in BOOLEAN
    /\ at \in {"look", "pull", "devlook", "devpull", "end"}
    /\ depth \in 0..DepthCap
    /\ result \in {"open", "image", "zero", "nonzero"}
    /\ trouble \in BOOLEAN
    /\ breaks \in 0..MaxBreaks /\ removals \in 0..MaxRemovals

\* The image that is run is the one that the command line names, in the
\* default registry when it names Docker Hub, or the development image of a
\* tool whose stable tag was asked for and is not in the registry.
RightImage ==
    result = "image" =>
        \/ got = Wanted
        \/ Wanted = <<Home, StableTag>> /\ Wanted \notin remote /\ got = Dev

\* An image that is in the registry is not given up, but for a call that
\* fails or a port number that is taken for a tag.
FoundIfThere ==
    result = "nonzero" /\ ~trouble =>
        \/ ask.tag = Port
        \/ /\ Wanted \notin remote
           /\ Wanted = <<Home, StableTag>> => Dev \notin remote

\* get_image calls itself once when it has not pulled yet; every further time
\* a pull has broken or another process has removed the image.  (The code has
\* no bound of its own: pulls that always break repeat for ever.)
RepeatHasCause ==
    depth <= (IF pull THEN 0 ELSE 1) + breaks + removals

\* The search ends, when pulls do not break for ever.
FetchEnds == <>(result # "open")

\* Why the invariants hold: `ref` is what was asked for or, after a fall-back,
\* the development image, and a look-up after a pull that finds nothing has
\* its own break or removal.
RefAtCall ==
    /\ result = "open" <=> at # "end"
    /\ at \in {"devlook", "devpull"} => ref = Dev
    /\ at = "pull" => ref = NameTag
    /\ at \in {"devlook", "devpull"} => MayFallBack /\ Wanted \notin remote
    /\ at = "look" => \/ ref = NameTag
                      \/ ref = Dev /\ MayFallBack /\ Wanted \notin remote
    /\ at \in {"pull", "devlook", "devpull"} => pulling
    /\ ~pulling => depth = 0 /\ ~pull
    /\ at = "look" /\ pulling /\ Meaning(ref) \notin local =>
          depth < (IF pull THEN 0 ELSE 1) + breaks + removals

IInv == TypeOK /\ RefAtCall /\ RightImage /\ FoundIfThere /\ RepeatHasCause

=============================================================================
