-------------------------------- MODULE MCPure --------------------------------
(***************************************************************************)
(* The two parts that compute and keep nothing, one input of one of them   *)
(* at a time: what mvls shows of a switch, and what mdio makes of a line.  *)
(***************************************************************************)
EXTENDS MCViews, MCLines

PureInit == ViewInit /\ LineInit
PureNext ==
  \/ typed = Blank /\ ViewNext /\ UNCHANGED <<typed, plan>>
  \/ in = Nothing /\ LineNext /\ UNCHANGED in
PureSpec == PureInit /\ [][PureNext]_<<in, typed, plan>>
===============================================================================
