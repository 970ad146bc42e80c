------------------------------ MODULE RunFiles ------------------------------
(***************************************************************************)
(* What FileResolver and TarTool share in a run: the files of the host,    *)
(* two options, and the files to upload, which the one hands to the other. *)
(***************************************************************************)
EXTENDS HostPaths

VARIABLES
    host,       \* what is on the host: [kind, from] by resolved path
    outDirs,    \* output_dirs, the -d options
    inTar,      \* --in
    phase,      \* what comes next: "resolve", "detect", "upload", "exec",
                \* "download", then "done" or "failed"
    uploads     \* the files that are uploaded, under ArchiveName

\* The host's files are a tree, in which the current directory is.
IsTree(h) ==
    /\ DOMAIN h \subseteq Resolved
    /\ \A p \in DOMAIN h : h[p].kind \in {"file", "dir"}
    /\ Cwd \in DOMAIN h /\ h[Cwd].kind = "dir"
    /\ \A p \in DOMAIN h : \A q \in Parents(p) :
          q \in DOMAIN h /\ h[q].kind = "dir"
=============================================================================
