---------------------------- MODULE MCPanelBackups ----------------------------
(***************************************************************************)
(* Instances of PanelBackups for model checking: a day of two ticks and a  *)
(* week of three.                                                          *)
(***************************************************************************)
EXTENDS PanelBackups

DayAndWeek == <<2, 3>>
===============================================================================
