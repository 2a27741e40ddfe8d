------------------------------- MODULE MCConv64 -------------------------------
(***************************************************************************)
(* Instance of Conv64 for TLC, with the ceiling scaled down so that every  *)
(* route is executed, next to the route table at its real size, where the  *)
(* ranges of its routes are the documented ones.  The table is asked for a *)
(* length and a pair of environment settings while no plan exists, and     *)
(* forgets the answer.                                                     *)
(***************************************************************************)
EXTENDS Conv64

VARIABLE table    \* the real table's answer

RealCeiling  == 32768
RealTinyTaps == 8

MCInit == Init /\ table = NoRoute

Ask ==
    /\ pc = "new" /\ table = NoRoute
    /\ \E n \in 1..RealCeiling : Answers(RealCeiling, RealTinyTaps, n, table')
    /\ UNCHANGED vars

Forget ==
    /\ table # NoRoute
    /\ table' = NoRoute
    /\ UNCHANGED vars

Convolve == table = NoRoute /\ Next /\ UNCHANGED table

MCNext == Ask \/ Forget \/ Convolve

MCSpec == MCInit /\ [][MCNext]_<<vars, table>>
-----------------------------------------------------------------------------
\* What ConvRoute promises, of the real table: the welds a route asks for
\* can be built; no weld of an uncorrected route aliases; a corrected one
\* aliases exactly what the correction covers; and the routes' ranges are those
\* the comment in front of fft_plan_create_conv_fp64 gives.
WeldsBuildable         == Buildable(RealCeiling, RealTinyTaps, table)
NoAliasing             == Unaliased(table)
CorrectionFits         == Corrected(RealTinyTaps, table)
RouteTableAsDocumented == AsDocumented(RealCeiling, table)
=============================================================================
