-------------------------------- MODULE MCDel --------------------------------
(***************************************************************************)
(* A small desktop: two programs that desktop entries name, one of which   *)
(* is excluded, comes and goes, or is installed in lower-case letters; one *)
(* entry that starts its program through env and one that is hidden.       *)
(***************************************************************************)
EXTENDS Del

MCCommands == {"gimp", "xeyes", "XEyes", "mc"}

MCLower == [c \in MCCommands |-> IF c = "XEyes" THEN "xeyes" ELSE c]
MCRank == [c \in MCCommands |-> IF c = "gimp" THEN 1 ELSE IF c = "mc" THEN 2 ELSE 3]

Line(key) == [key |-> key, words |-> <<>>]
Exec(words) == [key |-> "Exec", words |-> words]
Group == Line("[Desktop Entry]")

MCEntries == {
  <<Exec(<<"mc">>), Group, Exec(<<"env", "variable", "gimp", "option">>), Line("other")>>,
  <<Group, Exec(<<"env", "option">>), Exec(<<"XEyes">>)>>,
  <<Group, Exec(<<"mc">>), Line("Terminal")>>}

MCPaths == {<<{"gimp"}, {"xeyes", "mc"}>>, <<{}, {"mc"}>>}

MCPatterns == {[bracket |-> FALSE, matches |-> {"XEyes"}],
               [bracket |-> TRUE, matches |-> {"gimp"}]}

MCStdin == {<<>>, <<"mc", "mc">>}
MCOldList == <<"gimp">>
=============================================================================
