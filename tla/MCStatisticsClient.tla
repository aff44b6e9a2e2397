------------------------- MODULE MCStatisticsClient -------------------------
(***************************************************************************)
(* Two concurrent calls and the response of one call of another replica.   *)
(* Two is what the table needs to confuse calls; the calls are             *)
(* interchangeable, but the leads-to property rules symmetry out.          *)
(***************************************************************************)
EXTENDS StatisticsClient, TLC
=============================================================================
