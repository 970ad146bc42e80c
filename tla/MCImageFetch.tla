---------------------------- MODULE MCImageFetch ----------------------------
(* Docker Hub, the default registry and another one; a stable tag that is    *)
(* not the one which Docker takes by default.                               *)
EXTENDS ImageFetch

MCSpaces == {"hub", "quay", "other"}
MCTags   == {"latest", "dev", "stable"}
=============================================================================
