-------------------------------- MODULE MCMvls --------------------------------
(***************************************************************************)
(* mvls processes on small systems: one to three switches, among devices   *)
(* of other drivers and switches mvls does not know.                       *)
(***************************************************************************)
EXTENDS MvlsEnv

Switch(d, asic, index, ports) ==
  [dev |-> d, mv88e6 |-> TRUE, asic |-> asic, index |-> index, ports |-> ports]
Other == [Switch("other", "none", 0, <<0>>) EXCEPT !.mv88e6 = FALSE]

Pair == {<<Switch("sw0", "known", 1, <<0>>), Switch("sw1", "known", 0, <<>>)>>,
         <<Other, Switch("sw0", "known", 0, <<3>>), Switch("sw1", "none", 1, <<0>>)>>,
         <<Switch("sw0", "known", 0, <<0>>), Switch("sw1", "unknown", 1, <<0>>)>>,
         <<Switch("sw0", "known", 1, <<>>), Switch("sw1", "known", 1, <<>>)>>,
         <<Other>>}

Orders == {<<0, 1, 2>>, <<0, 2, 1>>, <<1, 0, 2>>, <<1, 2, 0>>, <<2, 0, 1>>, <<2, 1, 0>>}

\* Three switches, in every order devlink may report them.
Three == {<<Switch("sw0", "known", o[1], <<0>>), Switch("sw1", "known", o[2], <<0>>),
            Switch("sw2", "known", o[3], <<0>>)>> : o \in Orders}

Command(tabs) == [tabs |-> tabs, dev |-> -1, json |-> FALSE]
Json(command) == [command EXCEPT !.json = TRUE]
PvtDev(d) == [Command(<<"pvtdev">>) EXCEPT !.dev = d]

\* Device 1 may not be there.
AllCommands == {Command(<<"vtu", "ports">>), Command(<<"pvt">>), PvtDev(1), Json(PvtDev(1))}
Symmetry == Permutations(Procs)

AtuOnly == {Command(<<"atu">>)}
===============================================================================
