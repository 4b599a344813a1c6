--------------------------- MODULE MCSeriesPlanning ---------------------------
(* Instances of SeriesPlanning for TLC.                                     *)
EXTENDS SeriesPlanning, TLC

CONSTANTS e1, c1, c2

MCEpisode == {e1}
MCCall == {c1, c2}
=============================================================================
