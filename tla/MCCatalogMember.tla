-------------------------- MODULE MCCatalogMember --------------------------
(* Three items, two with the same message and two with the same key.         *)
EXTENDS CatalogMember, TLC

CONSTANTS i1, i2, i3, hello, careful, k1, k2

Texts == i1 :> hello @@ i2 :> hello @@ i3 :> careful
Keys  == i1 :> k1 @@ i2 :> k2 @@ i3 :> k1
=============================================================================
