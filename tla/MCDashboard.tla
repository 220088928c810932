----------------------------- MODULE MCDashboard -----------------------------
(***************************************************************************)
(* Dashboard for TLC: the layout with three panels; or two panels, and     *)
(* faults, or clients that ask for a line or for the corner.               *)
(***************************************************************************)
EXTENDS Dashboard

MCBoxes == {<<1, 2>>, <<2, 1>>}
MCCoords == {<<Auto, Auto>>, <<Auto, 0>>, <<0, 0>>}
Scenes ==
  \/ faults = 0 /\ ~loose
  \/ made < MaxPanels /\ ops < MaxOps - 2
=============================================================================
