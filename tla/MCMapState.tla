----------------------------- MODULE MCMapState -----------------------------
(***************************************************************************)
(* One init source and two stories, two runs of applyInitData at a time.   *)
(* The init source asks for a base map and a reference that cannot be      *)
(* loaded; the first story names a group of items by a reference, and one  *)
(* of them again; the second a group with a reference among its members.   *)
(* The user toggles either item, one of them time-varying.                 *)
(***************************************************************************)
EXTENDS MapState, TLC

CONSTANTS a, b, ref, lost, inner, folder, mixed, start, story1, story2, base1, base2

References == ref :> folder @@ lost :> a @@ inner :> a
Members    == folder :> <<a, b>> @@ mixed :> <<inner>>
Workbenches == start :> <<lost, b>> @@ story1 :> <<ref, b>> @@ story2 :> <<mixed>>
Timelines   == start :> {} @@ story1 :> {a} @@ story2 :> {a}
BaseMaps    == start :> base2 @@ story1 :> NoBaseMap @@ story2 :> NoBaseMap
Starts      == <<start>>

=============================================================================
