---------------------------- MODULE MCPlotStore ----------------------------
(* Instances of PlotStore for model checking. *)
EXTENDS PlotStore
CONSTANTS vox, n1, n2, seti, loop, h1, h2
OneTag == {vox}
OneName == {n1}
TwoNames == {n1, n2}
OneIngest == {h1}
TwoIngests == {h1, h2}
None == {}
=============================================================================
