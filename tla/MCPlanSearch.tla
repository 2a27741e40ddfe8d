----------------------------- MODULE MCPlanSearch -----------------------------
(* Searches for TLC.                                                       *)
EXTENDS PlanSearch

Search(kind, n) ==
    [kind |-> kind, n |-> n, tile |-> NoTile, place |-> "any", form |-> "any",
     windowed |-> FALSE]

\* fp64 at 4096 points, where 40 lists of four times as many are tried; the
\* fp32 ones at 512, the first length that is refined; batches at the lengths
\* of the straight-line kernel and above; welds with a scalar head (18, 90),
\* with padding lanes (225) and with every kind of stage (60).
SomeSearches ==
    {Search("fp64", 4096), [Search("fp64", 4096) EXCEPT !.tile = 512],
     Search("fp32", 512), [Search("fp32", 1024) EXCEPT !.tile = 0],
     [Search("fp32", 64) EXCEPT !.windowed = TRUE],
     Search("conv", 64), [Search("conv", 512) EXCEPT !.place = "load"],
     [Search("conv", 1024) EXCEPT !.place = "standalone", !.tile = 512],
     Search("batch", 16), Search("batch", 32),
     [Search("batch", 32) EXCEPT !.place = "load", !.form = "slim"],
     [Search("batch", 32) EXCEPT !.place = "presweep"],
     [Search("batch", 64) EXCEPT !.place = "load", !.form = "loop"],
     [Search("batch", 64) EXCEPT !.form = "bare"],
     Search("weld", 18), Search("weld", 60), Search("weld", 90), Search("weld", 225)}

=============================================================================
