--------------------------- MODULE MCOutputSelect ---------------------------
(***************************************************************************)
(* An instance of OutputSelect for TLC: two results in a directory of the  *)
(* working directory and one path elsewhere.                               *)
(***************************************************************************)
EXTENDS OutputSelect

Work == <<"w">>

Tree == {<<"w">>, <<"w", "d">>, <<"w", "d", "x">>, <<"w", "d", "y">>, <<"t">>}

Globs == {"d/*", "d/x", "d/y", ".cincanignore"}

Matches(p) ==
    CASE p = "d/*" -> {<<"w", "d", "x">>, <<"w", "d", "y">>}
      [] p = "d/x" -> {<<"w", "d", "x">>}
      [] p = "d/y" -> {<<"w", "d", "y">>}
      [] OTHER     -> {}
=============================================================================
