----------------------------- MODULE MCTransfer -----------------------------
(***************************************************************************)
(* A current directory /h with a file, with two directories that are       *)
(* empty, or with both and a file in one of them, or with nothing, and a   *)
(* file of the same name elsewhere; and hosts on which a name has a comma, *)
(* or dots, or is that of a copy.                                          *)
(***************************************************************************)
EXTENDS Transfer

MCLetter == {"/", ".", "..", ",", " ", "_TEMP", "h", "t", "d", "o", "x", "w", "'"}

\* Names of several letters
Compound ==
    ("tx"  :> <<"t", "x">>      @@ "t,"  :> <<"t", ",">>      @@
     "t,t" :> <<"t", ",", "t">> @@ "t,d" :> <<"t", ",", "d">> @@
     "t,o" :> <<"t", ",", "o">> @@ "t,x" :> <<"t", ",", "x">> @@
     "x,t" :> <<"x", ",", "t">> @@ "x,x" :> <<"x", ",", "x">> @@
     "t,'" :> <<"t", ",", "'">> @@ "t d" :> <<"t", " ", "d">> @@
     "x o" :> <<"x", " ", "o">> @@ "x "  :> <<"x", " ">>      @@
     "a..b"   :> <<"x", "..", "x">> @@ "a..b,x" :> <<"x", "..", "x", ",", "x">> @@
     "t_TEMP" :> <<"t", "_TEMP">>   @@ "d_TEMP" :> <<"d", "_TEMP">>)

MCSpelling(n) == IF n \in DOMAIN Compound THEN Compound[n] ELSE <<n>>

MCTempName(n) == n \o "_TEMP"

MCName == {"/", "..", "h", "t", "d", "o", "x", "w", "'"} \cup DOMAIN Compound

MCCwd == <<"/", "h">>

MCWorkDir == <<"/", "w">>

\* What may be on the host, and always is
Optional == {<<"/", "h", "t">>, <<"/", "h", "d">>, <<"/", "h", "d", "t">>,
             <<"/", "h", "o">>}
Fixed    == {<<"/">>, <<"/", "h">>, <<"/", "t">>}

File(p) == [kind |-> "file", from |-> ToString(p)]
MCHosts ==
    LET Own(p)    == IF Last(p) \in {"/", "h", "d", "o"} THEN Dir ELSE File(p)
        Closed(s) ==
            /\ \A p \in s : \A q \in Parents(p) : q \in s \cup Fixed
            /\ <<"/", "h", "o">> \in s <=> <<"/", "h", "d">> \in s
            /\ <<"/", "h", "d", "t">> \in s <=>
                  {<<"/", "h", "t">>, <<"/", "h", "d">>} \subseteq s
        base      == {[p \in s \cup Fixed |-> Own(p)] :
                         s \in {x \in SUBSET Optional : Closed(x)}}
        \* one more file or directory
        More(s, n, e) == LET p == Append(Cwd, n)
                         IN  [q \in s \cup Fixed \cup {p} |-> IF q = p THEN e ELSE Own(q)]
    IN  base \cup {More({<<"/", "h", "t">>}, "t_TEMP", File(<<"t_TEMP">>)),
                   More({<<"/", "h", "t">>}, "t_TEMP", Dir),
                   More({<<"/", "h", "d">>}, "d_TEMP", File(<<"d_TEMP">>)),
                   More({}, "t,t", File(<<"t,t">>)), More({}, "a..b", Dir)}

One(p) == [whole |-> p, parts |-> <<p>>, mark |-> ","]
\* The whole of two parts: the last name of one and the first of the other are
\* one name, if the other is relative.
Two(p, m, q) ==
    [whole |-> Front(p) \o <<Last(p) \o m \o (IF IsAbsolute(q) THEN "" ELSE q[1])>>
                        \o Tail(q),
     parts |-> <<p, q>>, mark |-> m]

MCArguments ==
    {One(p) : p \in {<<"t">>, <<"/", "t">>, <<>>, <<"d">>, <<"d", "t">>, <<"o", "x">>,
                     <<"..">>}}
    \cup {Two(p, ",", <<"x">>) : p \in {<<"d", "t", "x">>, <<"..", "t">>, <<"a..b">>}}
    \cup {Two(p, ",", q) : p, q \in {<<"t">>, <<"/", "t">>}}
    \cup {Two(<<"o", "x">>, ",", <<"t">>), Two(<<"d", "t">>, ",", <<"o", "x">>),
          Two(<<"/", "t">>, ",", <<"d", "t">>), Two(<<"/", "t">>, ",", <<"/", "tx">>),
          Two(<<"t">>, ",", <<"'">>)}
    \* a blank
    \cup {Two(<<"d", "t">>, " ", <<"d", "x">>), Two(<<"d", "x">>, " ", <<"o", "x">>),
          Two(<<"d", "x">>, " ", <<"/", "t">>)}

MCOutDirs == {{}, {<<"d">>}, {<<"o">>, <<"/", "o">>, <<"o", "..", "d">>}}

\* --in-filter "d*" and "^d/t"
MCFilters ==
    {{}, {[hits |-> {<<"d">>, <<"d", "t">>}, include |-> TRUE],
          [hits |-> {<<"d", "t">>}, include |-> FALSE]}}

MCQuote == <<"'">>

MCExplicit == {{<<"o">>, <<"/", "w", "d", "t">>}}

MCTarName == <<"t">>

MCToolNames == {<<"t">>, <<"d">>, <<"d", "t">>, <<"o", "x">>}
=============================================================================
