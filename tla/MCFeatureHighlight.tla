------------------------ MODULE MCFeatureHighlight ------------------------
(* A feature that is recoloured, two regions and the marker of a pick, and   *)
(* three calls at a time on two viewers in turn.                             *)
EXTENDS FeatureHighlight
=============================================================================
