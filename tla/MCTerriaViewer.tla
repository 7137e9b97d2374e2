--------------------------- MODULE MCTerriaViewer ---------------------------
(* Two containers, three camera views, two zooms at a time, and two          *)
(* constructors that throw before the first timer fires.                     *)
EXTENDS TerriaViewer
=============================================================================
