-------------------------- MODULE FeatureHighlight --------------------------
(***************************************************************************)
(* _highlightFeature of lib/Models/GlobeOrMap.ts, called by each viewer    *)
(* whenever terria.selectedFeature changes: the highlight of the feature   *)
(* before is removed, and the new one drawn, in an async function that     *)
(* nobody waits for.                                                       *)
(*                                                                         *)
(* Some features are recoloured, and the callback that removes the         *)
(* highlight restores what they were; regions are drawn by one catalogue   *)
(* item, which is loaded, shown and hidden; a point is not drawn at all.   *)
(* The unfinished calls are a queue, in the order in which they began to   *)
(* wait for the callback or for the import(), and later for the load.      *)
(***************************************************************************)
EXTENDS ListOps

CONSTANTS
  Styled,      \* features that are recoloured: polygons, polylines, 3D tiles
  Region,      \* features drawn from their GeoJSON
  Nothing,     \* undefined, or the point that marks the place of a pick
  MaxCalls,    \* bound: calls that have not ended
  MaxViewers   \* bound: viewers, one after another

ASSUME HighlightAssumption ==
  /\ Styled \intersect Region = {}
  /\ Nothing \notin Styled \union Region
  /\ MaxCalls \in Nat \ {0} /\ MaxViewers \in Nat \ {0}

VARIABLES
  viewer,       \* the current viewer
  selected,     \* terria.selectedFeature
  calls,        \* the unfinished calls of _highlightFeature()
  callback,     \* per viewer: _removeHighlightCallback; that of the item with the load whose
                \* promise is _highlightPromise, as both are assigned together
  highlighted,  \* the features whose style is the highlight's
  item,         \* the catalogue item that draws regions: its feature and show
  past          \* history: "overtaken", a call was before it had drawn what it was given;
                \* "late", one that began later went on before it; else "orderly"

highlightVars == <<viewer, selected, calls, callback, highlighted, item, past>>

Lists == INSTANCE SequencesExt

Viewer  == 1..MaxViewers
LoadId  == 1..(MaxCalls + MaxViewers)
Feature == Styled \union Region \union {Nothing}
Drawn   == Styled \union Region

NoCallback == [kind |-> "none"]
Callback == {NoCallback} \union [kind : {"item"}, id : LoadId]
              \union [kind : {"style"}, feature : Styled, was : BOOLEAN]
Call == [id : LoadId \union {0}, viewer : Viewer, feature : Feature, waits : LoadId \union {0},
         stage : {"waiting", "clearing", "importing", "loading", "loaded"}]

HighlightTypeOK ==
  /\ viewer \in Viewer /\ selected \in Feature
  /\ calls \in Seq(Call) /\ Len(calls) <= MaxCalls
  /\ callback \in [Viewer -> Callback]
  /\ highlighted \subseteq Styled
  /\ item \in [feature : Region \union {Nothing}, show : BOOLEAN]
  /\ past \in {"orderly", "overtaken", "late"}

-----------------------------------------------------------------------------
(* The queue of calls *)

Calls == {calls[i] : i \in DOMAIN calls}

Loading(id) == \E c \in Calls : c.id = id /\ c.stage = "loading"

UnusedIds == {id \in LoadId :
  /\ \A c \in Calls : id \notin {c.id, c.waits}
  /\ \A v \in Viewer : callback[v].kind = "item" => callback[v].id # id}

WaitingFor(v, id) ==
  {i \in DOMAIN calls : calls[i].viewer = v /\ calls[i].stage = "waiting" /\ calls[i].waits = id}

\* The callback of a call is about to return: what it waits for is settled.
Returning(c) == c.stage = "clearing" \/ (c.stage = "waiting" /\ ~Loading(c.waits))

\* A promise resumes those who wait for it in the order they began to; the import() takes
\* longer than the return of a callback.
IsFirst(i, stage) ==
  /\ calls[i].stage = stage
  /\ \A j \in 1..(i - 1) :
       calls[j].stage # stage /\ (stage = "importing" => ~Returning(calls[j]))

\* The callbacks of viewers that have been replaced matter to their unfinished calls.
InUse(callbacks, unfinished, v) ==
  [u \in Viewer |-> IF u = v \/ \E i \in DOMAIN unfinished : unfinished[i].viewer = u
                      THEN callbacks[u] ELSE NoCallback]

Ends(i, callbacks) ==
  LET others == Lists!RemoveAt(calls, i) IN
  calls' = others /\ callback' = InUse(callbacks, others, viewer)

-----------------------------------------------------------------------------
(* _highlightFeature() *)

Restored(v) ==
  IF callback[v].kind # "style" THEN highlighted
  ELSE IF callback[v].was THEN highlighted \union {callback[v].feature}
  ELSE highlighted \ {callback[v].feature}

\* Mutant: the highlight before is left where there is nothing to draw.
CalledUnlessNothing(v, f) ==
  LET called == [id |-> 0, viewer |-> v, feature |-> f,
                 waits |-> 0, stage |-> "importing"] IN
  IF f = Nothing \/ callback[v].kind = "none"
    THEN calls' = Append(calls, called) /\ UNCHANGED highlighted
    ELSE /\ highlighted' = Restored(v)
         /\ calls' = Append(calls,
              IF callback[v].kind = "item"
                THEN [called EXCEPT !.stage = "waiting", !.waits = callback[v].id]
                ELSE [called EXCEPT !.stage = "clearing"])

\* The call begins: a callback that restores a style does so at once, that of the item
\* waits for _highlightPromise.
Called(v, f) ==
  LET called == [id |-> 0, viewer |-> v, feature |-> f,
                 waits |-> 0, stage |-> "importing"] IN
  /\ highlighted' = Restored(v)
  /\ calls' = Append(calls,
       CASE callback[v].kind = "none" -> called
         [] callback[v].kind = "item" ->
              [called EXCEPT !.stage = "waiting", !.waits = callback[v].id]
         [] OTHER -> [called EXCEPT !.stage = "clearing"])

\* Mutant: a callback that is no longer the callback waits until it is again.
HideIfCurrent(v, id) ==
  /\ WaitingFor(v, id) # {} /\ ~Loading(id)
  /\ IF callback[v] # [kind |-> "item", id |-> id] THEN UNCHANGED highlightVars ELSE
     /\ item' = [item EXCEPT !.show = FALSE]
     /\ calls' = [i \in DOMAIN calls |-> IF i \in WaitingFor(v, id)
                   THEN [calls[i] EXCEPT !.stage = "clearing", !.waits = 0] ELSE calls[i]]
     /\ UNCHANGED <<viewer, selected, callback, highlighted, past>>

\* _highlightPromise is settled: the callback hides the item, if it is still the callback,
\* for all who wait for it in turn.
Hide(v, id) ==
  /\ WaitingFor(v, id) # {} /\ ~Loading(id)
  /\ item' = IF callback[v] = [kind |-> "item", id |-> id]
               THEN [item EXCEPT !.show = FALSE] ELSE item
  /\ calls' = [i \in DOMAIN calls |-> IF i \in WaitingFor(v, id)
                THEN [calls[i] EXCEPT !.stage = "clearing", !.waits = 0] ELSE calls[i]]
  /\ UNCHANGED <<viewer, selected, callback, highlighted, past>>

PastWaiting == IF \E c \in Calls : c.stage = "waiting" THEN "late" ELSE past

\* A call that has yet to draw what it was given.
Pending(c) == c.feature \in Drawn /\ c.stage \in {"waiting", "clearing", "importing"}

\* A call goes behind one that began later: that one is of the viewer after, and had no
\* callback to wait for.
FallsBehind(cleared) ==
  \E i, j \in DOMAIN calls :
    /\ i < j /\ Pending(calls[i]) /\ Pending(calls[j])
    /\ calls[i] \in cleared /\ calls[j] \notin cleared

\* The callback has returned: those who called it forget it and import.
Clear(v) ==
  LET cleared   == {c \in Calls : c.viewer = v /\ c.stage = "clearing"}
      importing == Filter(calls, cleared)
  IN
  /\ cleared # {}
  /\ callback' = [callback EXCEPT ![v] = NoCallback]
  /\ calls' = Filter(calls, Calls \ cleared) \o
       [i \in DOMAIN importing |-> [importing[i] EXCEPT !.stage = "importing"]]
  /\ past' = IF FallsBehind(cleared) THEN "late" ELSE PastWaiting
  /\ UNCHANGED <<viewer, selected, highlighted, item>>

DrawStyled(i) ==
  LET c == calls[i] IN
  /\ IsFirst(i, "importing") /\ c.feature \in Styled
  /\ highlighted' = highlighted \union {c.feature}
  /\ Ends(i, [callback EXCEPT ![c.viewer] =
               [kind |-> "style", feature |-> c.feature, was |-> c.feature \in highlighted]])
  /\ past' = PastWaiting
  /\ UNCHANGED <<viewer, selected, item>>

\* The item is given the region and becomes an overlay, in case it was none, and is loaded.
DrawRegion(i) ==
  LET c == calls[i]
      new == CHOOSE id \in UnusedIds : TRUE
  IN
  /\ IsFirst(i, "importing") /\ c.feature \in Region
  /\ item' = [item EXCEPT !.feature = c.feature]
  /\ callback' = [callback EXCEPT ![c.viewer] = [kind |-> "item", id |-> new]]
  /\ calls' = Append(Lists!RemoveAt(calls, i), [c EXCEPT !.id = new, !.stage = "loading"])
  /\ past' = PastWaiting
  /\ UNCHANGED <<viewer, selected, highlighted>>

\* "Don't show points; the targeting cursor is sufficient."
DrawNothing(i) ==
  /\ IsFirst(i, "importing") /\ calls[i].feature \notin Drawn
  /\ Ends(i, callback)
  /\ UNCHANGED <<viewer, selected, highlighted, item, past>>

LoadEnds(i) ==
  /\ IsFirst(i, "loading")
  /\ calls' = [calls EXCEPT ![i].stage = "loaded"]
  /\ UNCHANGED <<viewer, selected, callback, highlighted, item, past>>

\* The call goes on after the load: the item is shown if the callback is still its own.
Show(i) ==
  LET c == calls[i] IN
  /\ IsFirst(i, "loaded")
  /\ item' = IF callback[c.viewer] = [kind |-> "item", id |-> c.id]
               THEN [item EXCEPT !.show = TRUE] ELSE item
  /\ Ends(i, callback)
  /\ UNCHANGED <<viewer, selected, highlighted, past>>

-----------------------------------------------------------------------------
(* The callers *)

HighlightInit ==
  /\ viewer = 1 /\ selected = Nothing /\ calls = <<>>
  /\ callback = [v \in Viewer |-> NoCallback]
  /\ highlighted = {}
  /\ item = [feature |-> Nothing, show |-> TRUE]
  /\ past = "orderly"

\* Something drawn, or about to be.
Overtaken == \E c \in Calls : c.feature \in Drawn
Visible == item.feature # Nothing /\ item.show

\* selectedFeature changes, by a pick or in the feature panel.
Select(f) ==
  /\ Len(calls) < MaxCalls
  /\ f # selected \/ f = Nothing
  /\ selected' = f
  /\ past' = IF past = "orderly" /\ Overtaken THEN "overtaken" ELSE past
  /\ Called(viewer, f)
  /\ UNCHANGED <<viewer, callback, item>>

\* Another viewer takes over and selects the feature in its turn.  The one it replaces
\* leaves its highlight.
SwitchViewer(v) ==
  /\ Len(calls) < MaxCalls
  /\ v = viewer + 1
  /\ viewer' = v
  /\ callback' = InUse(callback, calls, v)
  /\ calls' = Append(calls, [id |-> 0, viewer |-> v,
                             feature |-> selected, waits |-> 0, stage |-> "importing"])
  /\ past' = IF past = "orderly" /\ (Overtaken \/ highlighted # {} \/ Visible)
                THEN "overtaken" ELSE past
  /\ UNCHANGED <<selected, highlighted, item>>

Step ==
  \/ \E v \in Viewer : Clear(v) \/ \E id \in LoadId : Hide(v, id)
  \/ \E i \in DOMAIN calls :
       LoadEnds(i) \/ Show(i) \/ DrawStyled(i) \/ DrawRegion(i) \/ DrawNothing(i)

HighlightNext ==
  \/ \E f \in Feature : Select(f)
  \/ \E v \in Viewer : SwitchViewer(v)
  \/ Step

HighlightSpec == HighlightInit /\ [][HighlightNext]_highlightVars

\* The loads of the item end and the calls go on.
HighlightFairSpec == HighlightSpec /\ WF_highlightVars(Step)

-----------------------------------------------------------------------------
(* Properties *)

Idle == calls = <<>>

\* When no call is left, what is selected is highlighted, also where calls were overtaken:
\* a pick selects its marker and then a feature, so that calls overlap, restore a style
\* twice and wait for the same callback; but a removal that comes late never removes the
\* highlight drawn after it was asked for. It is not so only if a call, of the same viewer
\* or of the one before it, waited for its callback while one that began later went on, and
\* so came last. And nothing else is highlighted, if each call had drawn what it was given
\* before the next one overtook it.
SelectedHighlighted ==
  Idle =>
    /\ past # "late" =>
         /\ selected \in Styled => selected \in highlighted
         /\ selected \in Region => Visible /\ item.feature = selected
    /\ past = "orderly" =>
         /\ highlighted = Styled \intersect {selected}
         /\ Visible <=> selected \in Region

\* No call waits for ever for the highlight of another: when nothing new is selected, and
\* no other viewer comes, all calls end.
CallsEnd ==
  <>[][Step]_highlightVars => <>[]Idle

\* Nothing else is highlighted, however calls overlap: "Check to make sure we don't
\* have a different `catalogItem` after loading" (GlobeOrMap.ts:420).
OnlySelectedHighlighted ==
  Idle => /\ highlighted = Styled \intersect {selected}
          /\ Visible <=> selected \in Region

=============================================================================
