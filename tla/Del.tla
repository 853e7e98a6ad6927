--------------------------------- MODULE Del ---------------------------------
(***************************************************************************)
(* The two sides of del and what they share, the command list: a user      *)
(* opens the menu while refreshes replace the list under it.               *)
(***************************************************************************)
EXTENDS DelRefresh, DelMenu

CONSTANT MaxPrograms \* bound on how many of them run in one behaviour

ASSUME NoFileAssumption == Closed = Absent

vars == <<refreshVars, menuVars>>

Init ==
  /\ RefreshInit /\ MenuInit
  /\ Cardinality({p \in Proc : pc[p] = "start"}) + (IF launcher = "start" THEN 1 ELSE 0)
       <= MaxPrograms

\* The child opens what the path leads to at that moment and keeps reading that
\* file, whatever the path leads to later.
ChildOpens == BecomeMenu(list)
MenuReadsInput == input # Closed /\ MenuReads(content[input])

MenuNext ==
  ChildOpens \/ MenuReadsInput \/ MenuPrints \/ MenuExits \/ MenuHangsUp \/ MenuKilled

Refreshing == RefreshNext /\ UNCHANGED menuVars
Launching == (LauncherNext \/ MenuNext) /\ UNCHANGED refreshVars

MachineCrash == Crash /\ MenuCrash

Next == Refreshing \/ Launching \/ MachineCrash

\* The launcher and the menu go on when they can without counting on a failure;
\* the user ends with the menu after all.
Fairness ==
  /\ WF_vars(LauncherNext /\ UNCHANGED <<broken, refreshVars>>)
  /\ WF_vars((ChildOpens \/ MenuReadsInput \/ MenuPrints \/ MenuExits) /\ UNCHANGED refreshVars)
  /\ WF_vars(MenuHangsUp /\ UNCHANGED refreshVars)

Spec == Init /\ [][Next]_vars /\ Fairness

-----------------------------------------------------------------------------
Promise == INSTANCE CommandList WITH
  Initial <- {OldList, <<>>}, Lists <- OrderedLists, list <- Current, made <- made

\* Whatever fails and whoever else refreshes it, the command list is always a
\* whole one that some refresh made, sorted and without duplicates.
PromiseSpec == Promise!Spec

\* The menu shows one whole list, even if the list is replaced while it reads.
MenuReadsOneList == menu = "showing" => seen \in made
=============================================================================
