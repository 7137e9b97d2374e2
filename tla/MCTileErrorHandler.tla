------------------------- MODULE MCTileErrorHandler -------------------------
(* Two tiles at the same place, of two sources that draw the layer, and    *)
(* one outside its extent; two failures hide the layer, the map may retry  *)
(* a tile once, the server gets one backoff.                               *)
EXTENDS TileErrorHandler, TLC

CONSTANTS t, u, w, p, q, here, there

Sources == t :> p @@ u :> q @@ w :> q
Keys == t :> here @@ u :> here @@ w :> there
=============================================================================
