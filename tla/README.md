# TerriaJS: specifications, model checking and proofs

TerriaJS is a library for map applications in the browser. Its own logic is the
model layer under `lib/`: catalogue items that load themselves asynchronously, the
workbench that says which of them are on the map, the clock they share, and the
viewers that follow; and with them the search box, init data and stories, and what the
user is notified of. It is single-threaded and highly concurrent all the same: every
`await`, timer, MobX reaction and event of the map library is a place where another
handler may run between two statements of this one.

This directory holds TLA+ models of that layer, the TLC runs that check them on small
instances, and proofs, checked by TLAPS, of what holds for all of them. Line numbers are
those of the files under `src/lib/`. In all modules one action is the code from one
`await` (or event) to the next.

## 1. The system

| Component | State | Operations | Hard behaviour | Modules |
|---|---|---|---|---|
| `AsyncLoader` | `_promise`, `_isLoading`, `_result`, `_forceReloadCount`, the kept-alive computed | `load`, `load(true)`, `dispose`, the end of a load | overlapping loads, invalidation by MobX, disposal | AsyncLoader, LoadRequest |
| `ReferenceMixin` | `_target`, its loader | `loadReference`, `dispose`, the callback | runs that end out of order | Reference |
| `Workbench` | `_items` | `add` (three awaits), `remove`, `removeAll`, `moveItemToIndex` | the list changes while an add waits; references and targets are the same item | Workbench |
| `TimelineStack` | the stack, the Cesium clock, the traits of the layers | nine operations, an autorun, the tick | two writers of one clock | TimelineStack |
| `AutoRefreshingMixin` | two reaction disposers | observed, unobserved, the trait changes | reactions that dispose each other | AutoRefreshing |
| `CatalogFunctionJobMixin` | `jobStatus`, `downloadedResults`, two flags | `invoke`, `refreshData`, `forceLoadMetadata`, `onJobFinish` | three functions meet at the end of a job; the page is reloaded | CatalogFunctionJob |
| `TileErrorHandlerMixin` | `tileFailures`, `tileRetriesByMap`, `show` | `onTileLoadError` with backoff | many tiles, of several imagery layers, share one set of counts | TileErrorHandler |
| Viewer data sources (`Cesium.ts`, `Leaflet.ts`) | the collection, a chain of promises | the reaction, `syncDataSourceCollection` | the model changes during a sync | DataSourceSync |
| `TerriaViewer`, `NoViewer` | `viewerMode`, `mapContainer`, the current and the last viewer, the home camera | `attach`, `detach`, the modes, `currentViewer`, `zoomTo` | code that comes late or never, constructors that throw, zooms that overlap | TerriaViewer |
| `GlobeOrMap` | `_removeHighlightCallback`, `_highlightPromise`, the item of the highlighted region | `_highlightFeature`, called by each viewer | nobody awaits it, and each call waits for the one before | FeatureHighlight |
| Search (`SearchState`, `SearchBox`, providers, `CatalogIndex`) | the text, the results of each search, the index | typing, the debounce, `search`, `doSearch` | superseded searches go on; the index loads once for all | Search |
| `Terria` (init sources), stories, `toggleItemOnMapFromCatalog` | the workbench, the timeline and the base map | `applyInitData`, `loadInitSources`, `activateStory`, `setBaseMap`, the user's toggles | all of them write the same lists after awaits | MapState |
| `MappableMixin`, `CatalogMemberMixin`, `NotificationState` | two loaders, the initial message, the queue of notifications and its keys | `loadMapItems`, `loadMetadata`, raising errors, dismissing | overlapping calls share one load, and its error if it is a `TerriaError` | CatalogMember |

How they interact: `Workbench.add` calls `loadReference`, `loadMetadata` and
`loadMapItems`, each of them an `AsyncLoader`; the viewers observe the map items of what
is on the workbench and synchronise their collections; observing map items starts the
polling of auto-refreshing items; a function job is polled that way and adds its results
to the workbench; the errors of the map's tiles come back to the item, which may take
itself off the map; items with dates join the timeline, whose clock the viewer ticks.
`TerriaViewer` makes the viewers, each of which highlights the feature that is selected;
init sources and stories fill workbench, timeline and base map; what fails on the way is
an error that the notifications tell of.

What makes each component correct:

- **AsyncLoader**: a caller is answered from a load of the observables as they were when
  it called; nothing is loaded again without a reason; the loading indicator never stays.
- **Reference**: who is told that the reference has loaded finds a target; the target
  carries the reference's settings; the newest load decides.
- **Workbench**: no model twice, not even as a reference and as its target; an item added
  stays, an item removed stays away; the order of the kinds is kept.
- **TimelineStack**: clock and top layer agree; the layers move together; the clock stops
  with its last layer; nobody is given another one's dates.
- **AutoRefreshing, CatalogFunctionJob**: polling only for somebody and only while the job
  runs; the job ends; its results arrive once.
- **TileErrorHandler**: the user is told once; retries are bounded; an outage hides the layer.
- **DataSourceSync**: nothing is drawn twice, left behind or forgotten.
- **TerriaViewer**: the mode asked for is shown in the end; the camera stays where it was
  put; the indicator of a zoom is that of the last one.
- **FeatureHighlight**: what is selected is drawn, and nothing else is.
- **Search**: what is shown belongs to the text in the box, is whole or explained, and comes.
- **MapState**: the workbench is what one init source names, whole; the timeline has what
  is on the map; there is a base map.
- **CatalogMember**: no map items before the metadata; each notification is shown once, and
  none is lost.

Components without a model are listed in `PROJECT.json` with the reason: they are computed
values, views, single requests or translations of server documents.

## 2. Modules

`MC*` modules extend a specification and add what TLC needs; `*Proofs` modules extend one
or more and hold their theorems (section 5). Where a module of proofs extends several, one
of them keeps the plain names (`Init`, `Next`, `Spec`, `TypeOK`) and the others have their
own: `JobInit`, `SyncSpec`, `MapNext`, `MemberTypeOK`. `ListOps` has the operations on
lists that the code writes as loops or with the methods of arrays, filtering and joining,
as recursive functions, which can be proved about; `ListLemmas` proves what they return.
Operators whose comment begins with "Mutant:" are changed versions of the definition that
follows them, one for each property a run checks, and are used by no specification:
putting one in place of the definition makes TLC find the property violated.

### AsyncLoader and LoadRequest

`AsyncLoader.tla` has one variable per field of the class, and `stale`, `nRuns` and `run`
for the MobX computed `loadKeepAlive` and the promises its callback returns. What the
callback reads is one `version`. `BeginLoad` is `load()` up to its await, `Resume` the rest
of it, `Settle` the end of a promise; `Dispose` is a load with the count -1, for which the
computed returns `disposeCallback()`. Continuations of one promise may run in any order:
more than JavaScript allows.

`LoadRequest.tla` is the abstract specification: callers that wait and are answered, each
from the version it asked at. `ImplementsLoadRequest` maps a caller's slot to that of
`LoadRequest` and includes its liveness.

### Reference

Composes an instance of `AsyncLoader` with the callback of `_referenceLoader`: a run that
begins is shown the previous target, and one that ends assigns `_target`, to a new model
or to the updated old one. Models are named by the run that made them. `loadReference()`
has a second part after its loader's answer (`ApplyToTarget`), which reads `target` anew.

### Workbench

`Inserted` is `insertItem`: the class of the item moves the index down or up
(`ClassIndex`), then `keepOnTop` does (`TopIndex`); the `while` loops are a least or a
greatest index. `Places` is `indexOf`, which compares dereferenced models. `Add`,
`AddTarget`, `ReferenceFails`, `MetadataReturns` and `MapItemsReturn` are the parts of
`add()` between its awaits; `ReferenceLoads` is the moment a reference gets its target,
whoever called `loadReference()`: an add, the preview, init data. A `Weak` reference is one
whose target has no `sourceReference` (it was not constructed by it). `disturbed` and
`doubled` are history variables: the adds during which something was taken out, and the
models that two entries show since a load that no add had asked for.

### TimelineStack

MobX runs the autorun at the end of the action that changed what it reads; so each action
computes its changes and ends with `Reaction`. `Tick` is the viewer's, `SyncToClock` the
listener. The dates of a layer are its `time`, and `bounds` for its start and stop, named
after the layer they belong to: `OwnBounds` says that the clock never carries them to
another one. The controls that write clock or layers are actions too (TimelineControls,
CesiumTimeline, DateTimeSelectorSection). Dates are objects where it matters: "go to start"
assigns the clock's start to its current time (TimelineControls.jsx:35), and as long as the
two are one object (`shared`) the autorun, which clones first the one and then the other in
place, leaves the start in both (`Copied`); a later assignment of another date separates
them. `ahead` and `fresh` are history variables: the controls have set the clock, or a
layer, since the two last met.

### AutoRefreshing and CatalogFunctionJob

The two disposers are two booleans; `SetRefreshEnabled` is the trait's change with the
reaction to it. `CatalogFunctionJob` instantiates it and adds `invoke`, `refreshData` and
`forceLoadMetadata`, each idle, waiting for the server, or downloading. `Reload` keeps the
traits and forgets the fields, as a share link does. A job is put on the workbench when it
is submitted, and by the user later.

### TileErrorHandler

Every tile is idle, requested by the map, checked, or waiting for its backoff. What the
fetch of a tile returns is a choice: failure, ignored, server error, success. A layer is
drawn from one or several sources (`Source`): the imagery layers or Leaflet tile layers of
the parts of its item, each with a `TileProviderError` of its own
(ImageryProviderLeafletTileLayer.ts:45,189), whose `timesRetried` is 0 at its first error
and at the first after a success (`succeeded`); such an error clears the counts of the
whole layer. Retries are counted by level, coordinates and time (`KeyOf`), which tiles of
two sources may share. `Globe` says which map is on the other side, which is external and
modelled from how the handler and `ImageryProviderLeafletTileLayer.ts` use it: Cesium waits
for the promise `retry` and resets `timesRetried`, Leaflet does neither. `raised`, `failed`,
`pressed` and `helped` are history variables.

### DataSourceSync

`syncs` is the chain of `syncDataSourcesPromise`: syncs that were triggered, the first of
which may be under way. A sync keeps the list it began with and reads collection and `show`
anew after each addition. `Leaflet` chooses the viewer that leaves out hidden sources.

### TerriaViewer

`currentViewer` is a MobX computed that a reaction keeps evaluated; so each action that
changes the mode, the container or the code that has arrived ends with `React`, which makes
a viewer if the last one no longer fits: the last one is destroyed and its camera view is
handed on. `broken` are the modes whose constructor throws on this system. `Fallback` is
the timer such a constructor leaves behind. The calls of `zoomTo` are numbered; a zoom may
end in any order, and after its viewer is gone.

### FeatureHighlight

`_highlightFeature` is async and nobody awaits it. `calls` is the queue of its unfinished
calls, each with the point it has reached; `Step` lets one of them go on: those that wait at
the same point do so in their order, those at different points in any. Every viewer has a
callback of its own; `_highlightPromise` is assigned with the callback that waits for it, so
that callback carries the number of its load. A viewer that has been replaced is forgotten
when its last call ends (`InUse`). The catalogue item that draws regions is one for all.
`past` is history: whether a call was overtaken before it had drawn, and whether one came
last that had begun before another.

### Search

`results` are the `SearchProviderResults` of all searches that have not ended or are shown,
with the point that `doSearch` has reached; `shown` is the one the box shows. `backend`
chooses among the providers: the catalogue with an index, without one, and a service.
`waiting` and `timer` are the debounce, which only the text without any characters
bypasses; other texts may be too short (`TooShort`) and are told so. `whole` and `cut` are
history.

### MapState

`applyInitData` is split at its awaits; `Slot` holds its runs that are not over: the init
sources, one after another, and any number of stories beside them. A model goes on the
workbench when it has loaded, a group as its members. `choosing` are the base maps whose
map items are loading. `toggling` are the user's toggles between their await and their
end. Items leave the workbench by the menu, which tells the timeline (`RemoveFromMap`), or
by the hand of code that does not: `RemoveFromWorkbench` is a chart that expands another
source (ChartExpandAndDownloadButtons.tsx:66-71) and `removeModelReferences`
(Terria.ts:859-868). `ToggleTimeline` is the button of the date selector. `due` and `stray`
are history: the init data the workbench is due to, until the user touches it; and the
items of the timeline whose add ended after they had left the map, that left the workbench
alone, or that were put on the timeline a second time: `addToTop()` of an item that is
there and not on top takes its neighbour out (4.7), and a removal then leaves one of the
two. `MaxStack` bounds the stack that such clicks can pile up. Code that adds to the
workbench alone cannot put a layer on the timeline, and is not modelled here.

### CatalogMember

Both loaders load once, as nothing they read changes. `calls` are the calls of
`loadMapItems`, first waiting for the metadata. `AddMessage` and `AddError` are
`addNotificationToQueue` with its three reasons not to add one: ignored, queued already,
known by its key. `Ignored` is read when a notification is added and again when another is
dismissed. A load fails with a `TerriaError` (`failed`), which every caller then has as its
cause, so that dismissing one marks it for all: `raisedToUser`; or with anything else, such
as the error of a request (`thrown`), of which every caller's `TerriaError.from` makes an
error of its `own`.

## 3. Runs

| Run | Instance | States | Shows |
|---|---|---|---|
| async_loader | 2 callers, 3 runs, 2 changes, 1 reload | 58 000 | the indicator always has an owner; memoisation; refinement of LoadRequest with its liveness |
| reference | 2 callers, 3 runs, 1 change, 1 reload | 57 000 | who is answered finds a target, and it carries the reference's settings |
| workbench | strong and weak reference, 3 models of 3 kinds, 2 adds, references loaded by others | 42 000 | no duplicates, order kept, what was added stays; nothing is shown twice but by a load no add had asked for |
| timeline_stack | 2 layers, 2 dates, stack of 3 | 559 000 | clock and layers agree at every moment between actions and after every tick; a date that is picked is shown unless the clock's dates are one object |
| catalog_function_job | one job | 188 | results are delivered once, polling stops, the job ends |
| tile_error_handler | 2 sources, a tile of each at one place and 1 outside, limits 1, 1, 1 | 182 000 | told once, retries bounded, an outage hides the layer, every error settled |
| data_source_sync | 3 sources, 2 syncs | 19 000 | no duplicates, agreement when idle, convergence |
| terria_viewer | 2 containers, 3 camera views, 2 zooms, 2 timers | 61 000 | the camera stays put, the indicator of a zoom is right, the mode asked for appears |
| feature_highlight | a styled feature, 2 regions, a marker; 3 calls, 2 viewers | 349 000 | what is selected is drawn unless a call comes last that began before, nothing else if no call is overtaken; no call waits for ever |
| search | 2 texts, one too short and the empty one, 3 members, 3 searches, 3 providers | 484 000 | results belong to the text, are whole or explained, and come |
| map_state | an init source, 2 stories, 2 runs at a time, 2 items, 2 base maps, 1 toggle | 366 000 | the workbench is one init source's, whole; the timeline follows; a base map comes |
| catalog_member | 3 items, 2 messages, 2 keys, 2 calls, queue of 3, 2 kinds of failure | 282 000 | metadata first; each thing is told once, and none is lost |

### Bounds and why they are enough

- *Callers and runs of a loader.* Two callers and three runs give an older, a newer and a
  superseding load, with both orders of their ends; two changes of the observables before
  and between them. The bounds disable further calls, so the loader and the reference
  really stop: `CHECK_DEADLOCK FALSE` in their configurations is for that alone.
- *Workbench.* Two adds overlap each other, loads by others, and the user's removals and
  moves. The five models are the cases the code tells apart: strong and weak reference,
  their targets (one of them kept on top), one that cannot be reordered. The adds are
  interchangeable (`SYMMETRY`). The list needs no bound: it has no duplicates.
- *Timeline.* Two layers and a stack of three: the operations of the stack may leave an
  entry twice (4.7), so there is one place more than layers. Two dates distinguish "the
  same" from "another"; the layers start at different ones, so that a start copied from the
  wrong layer shows.
- *Tiles.* Two tiles of different sources have one key and compete for one count; a third,
  outside the extent and of the source of one of them, takes the early return. The limits
  are constants: 5, 5 and 8 in the code, 1 here, so that each is reached and exceeded; the
  proofs are for all of them. A count stops at one above its limit, beyond which the code
  does not distinguish its values.
- *Data sources.* Three sources: one that stays, one that comes, one that goes. With a
  queue of two, the model changes while one sync runs and one waits; a third would begin
  as the second does, with the model of that moment.
- *Viewers.* Two containers, as a viewer that is attached may be attached elsewhere. Three
  views: the one a home camera starts with and two that others put there. Two zooms of one
  viewer give one that supersedes another; two timers a second constructor that throws
  before the first timer fires.
- *Highlights.* A pick selects its marker and then a feature, so three calls are two picks
  that overlap; a second viewer finds the style that the first has left. There are two
  regions, as both viewers draw theirs with one item: with one region, whichever call comes
  last gives the item what is selected.
- *Searches.* One that is shown, one that is superseded, and one more that waits for the
  index. Two texts share a member, so that results of the wrong text can be told; of the
  two that are too short only one bypasses the debounce.
- *Init data.* One toggle under way meets the other ways to remove the item it adds. Two
  runs overlap: an init source and a story, or two stories. The models are the cases of
  the code: an item, a reference to one, references and groups that fail, a group of
  items, and a group with a reference among its members. `WholeSource` and
  `OrderMaintained` differ in that last one.
- *Notifications.* Two items with one message, two with one key, and their errors: each
  reason for not queueing meets an entry that is queued and one that was dismissed; every
  load may fail in either way. A queue of three holds one of each kind; a call only begins
  while there is room for what it says.

### Fairness and why the code justifies it

- A settled promise runs its continuations (the job queue): weak fairness of `Resume`, of
  `Begin` and `Added`.
- A request ends in an answer, an error or a timeout: weak fairness of `Settle`, of the
  ends of a poll and of a download, of the check of a tile. For the data sources it is the
  promise of Cesium's `DataSourceCollection.add`, which only waits for a value.
- A timer goes off: weak fairness of `NextAttempt` and `RefreshData`.
- `RunningEnds` needs one assumption about the server, strong fairness of the answer that
  a job is over: a server asked for ever does not say "still running" for ever.
- Code that is downloaded comes or fails: weak fairness of `CodeArrives`. The timers of the
  fallback and of the debounce fire: `Fallback`, `DebouncedSearch`.
- The calls of `_highlightFeature` go on: weak fairness of `Step`, one for the whole queue.
- An index, a search, a model and a base map load or fail: weak fairness of each, and of the
  rest of `applyInitData` and of `loadInitSources`.
- `TextsSeen` is about the queue of notifications: it needs a user who dismisses what he is
  shown, as the queue shows one notification at a time. This is the one assumption about a
  user.
- Otherwise users and maps owe nothing: no action of theirs is fair. A tile that was told
  to retry need not be asked for again.

## 4. Where code and documentation disagree

Each of these is a counterexample TLC finds. Items 2, 13 and 20 contradict no sentence:
they are what a reader of the code would expect of it. A configuration whose name begins
with `MC` is that of a run of section 3: the property takes the place of the run's own
properties (and of `SYMMETRY`), under `INVARIANT` if it is a formula of one state and
under `PROPERTY` if it is an action property (`RemovedStaysRemoved`, `ErrorSparesOthers`,
`RemovesThatLayer`, `MovedToTop`, `PickedDateAlwaysShown`, `ViewSurvivesDetach`) or a
temporal one (`DebounceEnds`, `KeysSeen`). The others are in this directory as they are,
because they need other constants.

1. `LoadingIsShown` (`MCAsyncLoader.cfg`): "Gets a value indicating whether we are
   currently loading" (AsyncLoader.ts:101). The end of an older load clears `isLoading`
   while a newer one is still running, as line 141 does not ask whose promise has ended.
2. `ResultIsLatest` (`MCAsyncLoader.cfg`): nothing says which result `result`
   (AsyncLoader.ts:106-108) is, and a reader takes it for that of the last load. An
   older load that ends last overwrites it: line 140 does not ask whose promise has
   ended either. What each caller is answered is right, as `LoadRequest` says.
3. `TargetIsCurrent` (`MCReference.cfg`): the target "may be undefined or stale" while
   the reference loads (ReferenceMixin.ts:83-84), hence not afterwards. An older run
   that ends last assigns its target last.
4. `RemovedStaysRemoved` (`MCWorkbench.cfg`): "Removes a model or its dereferenced
   equivalent from the workbench" (Workbench.ts:76). An item removed while its reference
   was loading comes back when it has loaded.
5. `RemovesThatLayer` (`MCTimelineStack.cfg`): "Removes a layer from the stack, no
   matter what its location" (TimelineStack.ts:154). Removing a layer that is not there
   takes the last one out.
6. `PollsWhenEnabled` (`AutoRefreshToggle.cfg`): "Toggle autorefresh when
   `refreshEnabled` trait changes" (AutoRefreshingMixin.ts:40). Disabling it disposes
   the reaction that would notice it being enabled again.
7. `MovedToTop` (`MCTimelineStack.cfg`): "If the item is already in the stack, it will
   be moved rather than added twice" (TimelineStack.ts:139-140). The index is one too
   small after the `unshift`: the neighbour goes, and the item is there twice.
8. `PickedDateAlwaysShown` (`MCTimelineStack.cfg`): "Set the time on the item, set it to
   use its own clock, update the imagery and repaint" (DateTimeSelectorSection.tsx:54).
   After "go to start" on a paused clock its two dates are one object, and the autorun
   that follows a picked date writes the start over it; the next tick brings the layer
   back to the start too.
9. `OrderedWhenIdle` (`MCWorkbench.cfg`): "Keep reorderable data sources (e.g.: imagery
   layers) below non-orderable ones" (Workbench.ts:129). A reference whose target
   another call loads keeps the place it had before its kind was known.
10. `NothingInvisibleStays` (`WorkbenchGroup.cfg`): a reference to a group "will be
    removed from the workbench" (Workbench.ts:174-176). It gets a warning, and warnings
    stay.
11. `ContainsItsItems` (`WorkbenchNested.cfg`): with a reference to a loaded reference
    `contains()` denies an entry of its own list.
12. `NeverShownTwice` (`MCWorkbench.cfg`): "This method does nothing" for an item that
    is already present (Workbench.ts:112). A reference whose load ended in a warning
    stays on the list without a target; when its target is added by itself, and the
    reference is then loaded by the preview or by init data, both entries show one
    model. `ShownOnce` excepts just the models that such a load has made to be shown
    twice, for as long as they are.
13. `ErrorSparesOthers` (`MCWorkbench.cfg`): "Remove item if TerriaError severity is
    Error" (Workbench.ts:227) means the item of that add. Two adds of one item share an
    entry, and so do a reference and its target: the error of the one takes out what the
    other is still loading.
14. `LoadWouldDownload` (`MCCatalogFunctionJob.cfg`): the download "can be triggered
    [...] on `loadMetadata`" (CatalogFunctionJobMixin.ts:209-212). A download that
    failed there leaves `downloadingResults` set, and nothing triggers another one.
15. `GivesUpAnyway` (`TileStuck.cfg`): "We must not get stuck repeating the request
    forever" (TileErrorHandlerMixin.ts:250-252). The counts of all tiles are cleared
    when any tile loads, and when another source of the layer meets its first error.
16. `OutsideIsIgnored` (`TileOutside.cfg`): "We're only concerned about failures for
    tiles that actually overlap this item's extent" (TileErrorHandlerMixin.ts:105). The
    error of a tile outside is none the less its source's first after a success, so the
    next one, inside, finds `timesRetried` past 0 and does not restart the counts.
17. `RetriesAfterPromise` (`TileLeaflet.cfg`): Leaflet "retries after the promise
    resolves" (ImageryProviderLeafletTileLayer.ts:158-160). The function that would is
    not passed on.
18. `FirstOnTop` (`DataSourceOrder.cfg`): "first item appears on top" (Cesium.ts:684).
    Raising every item in the order of the list leaves the last one on top; `Settled`
    states the order the code gives.
19. `FallsBackToLeaflet` (`MCTerriaViewer.cfg`): "It gracefully falls back to 2D with
    Leaflet on systems that can't run Cesium" (README.md:7). The timer reads
    `viewerMode` when it fires (TerriaViewer.ts:212): the second of two constructors
    that threw finds Leaflet there, and leaves no mode at all.
20. `ViewSurvivesDetach` (`MCTerriaViewer.cfg`): a change of mode keeps the view
    (TerriaViewer.ts:222); `detach()` drops what `destroyCurrentViewer()` returns (line
    239), so that the `NoViewer` made next starts at the home camera, and hands that on
    when the map is attached again.
21. `OnlySelectedHighlighted` (`MCFeatureHighlight.cfg`): "Check to make sure we don't
    have a different `catalogItem` after loading" (GlobeOrMap.ts:420). A region that is
    still loading when something else is selected is shown all the same; and a viewer
    made while a feature is highlighted takes the highlight's style for the feature's
    own, although CHANGES.md:3225 says that this was fixed. What is selected may even
    stay hidden: a call of the viewer before, which waits there for a load, goes on
    after the new viewer has drawn the same or another region, and hides the item that
    both draw with, or gives it its own region. `SelectedHighlighted` excepts just these
    behaviours (`past = "late"`).
22. `IndexIsSearched` (`MCSearch.cfg`): "Load catalogIndex if needed"
    (CatalogSearchProvider.ts:154). A search that begins while another one loads the
    index searches the models that happen to be known, and its answer stays.
23. `DebounceEnds` (`MCSearch.cfg`): "Called when the search changes, after a debounce"
    (SearchBox.jsx:35). Closing the box cancels the search, and opening it again does
    not start one (line 83): the text is there and is searched for by nobody.
24. `OrderMaintained` (`MCMapState.cfg`): "Maintain the model order in the workbench"
    (Terria.ts:1858). The references among the members of a group are not awaited, and
    come last or not at all.
25. `BaseMapOfShare` (`MapBaseMap.cfg`): "Selected basemap ID. This is used to save
    basemap for shares/stories" (doc/customizing/initialization-files.md:315).
    `loadInitSources` asks whether there is a base map while that one is still loading
    (Terria.ts:1439), and the default may come last.
26. `ToggledOffTimeline` (`MCMapState.cfg`): "Toggle an item on or off the map"
    (toggleItemOnMapFromCatalog.ts:36). An item that was removed while its toggle waited
    for its load joins the timeline all the same. And whoever removes an item from the
    workbench alone leaves it on the timeline.
27. `DismissedWhateverThrown` (`MCCatalogMember.cfg`): no notification if "we have
    already raisedToUser" (TerriaError.ts:339). A load that throws something other than
    a `TerriaError` gives each of its callers an error of its own
    (AsyncLoader.ts:131-141): dismissing one leaves the others in the queue.
28. `RaisedOnce` (`MCCatalogMember.cfg`): the same line. Also of a shared `TerriaError`,
    a notification that is forced is not ignored, though the user has dismissed it as
    the cause of another one (line 294).
29. `KeysSeen` (`MCCatalogMember.cfg`): "Notifications with the same key will only be
    added once" (NotificationState.ts:26). A key is remembered although its message was
    not added, as one with the same text was queued: neither it nor a later one with
    that key is ever seen.

To see one that is here: `tlc -config TileStuck.cfg MCTileErrorHandler`, and likewise with
the `MC` module of the property's module where there is one (`MCTileErrorHandler`,
`MCWorkbench`, `MCMapState`, `MCDataSourceSync`), or with that module itself.

Seen while reading, and checked by no run: the comment in `CatalogSearchProvider` that a
search calls itself again describes no code that is there, and nothing reads the
`isSearching` of a provider; `GroupMixin.ts:193-255` puts a group it has merged into
`excludeMembers`; `removeSelectedFeaturesForModel` (Terria.ts:870-883) splices the list it
iterates over, and so skips the neighbour of what it removes.

## 5. Proofs

| Theorem | Statement | Assumes |
|---|---|---|
| AsyncLoaderProofs: TypeCorrect, CacheIsKnown, IndicatorIsOwned, LoadIsMemoised | `TypeOK`, `CacheKnown`, `SpinnerOwned`, `Memoised` always | `BoundsAssumption` |
| AsyncLoaderProofs: RefinesLoadRequest | `Spec => Answered!Spec` | the same |
| MixinProofs: UsesItsLoader | `Spec => Proofs!Spec`, the specification of `AsyncLoader` | nothing |
| MixinProofs: TypeCorrect, TargetFound, TargetFurnished | `TypeOK`, `TargetWhenResolved`, `TargetIsFurnished` | `ReferenceAssumption` |
| MixinProofs: JobInvariant, JobTypeCorrect, PolledOnlyWhileRunning, DeliveredAtMostOnce | the invariant, `JobTypeOK`, `PolledWhileRunning`, `DeliveredOnce` | nothing |
| WorkbenchProofs: OrderIsKept, NothingTwice, NothingShownTwice, WhatWasAddedStays | `OrderKept`, `NoDuplicates`, `ShownOnce`, `AddedStays` | `ModelAssumption`, `NoNesting` |
| TimelineStackProofs: ClockFollowsTop, ClockInSync, BoundsStayOwn, TicksAgree, LayersMoveTogether, PickedDateShows | the invariant, `InSync`, `OwnBounds`, `TickAgrees`, `LayersTogether`, `PickedDateIsShown` | `StackAssumption` |
| EventProofs: TypeCorrect, UserToldOnce, TileIsGivenUp, OutageIsCounted | `TypeOK`, `ToldOnce`, `GivesUp`, `OutageHides` of TileErrorHandler | `TileAssumption` |
| EventProofs: HighlightTypeCorrect, SelectedIsHighlighted | `HighlightTypeOK`, `SelectedHighlighted` of FeatureHighlight | `HighlightAssumption` |
| MapProofs: TypeCorrect, ZoomIsKnown, ViewIsKept | `TypeOK`, `ZoomingKnown`, `ViewKept` of TerriaViewer | `ViewerAssumption` |
| MapProofs: SyncInvariant, SyncTypeCorrect, DrawnOnce, SettledIsModel | the invariant, `SyncTypeOK`, `NoDuplicates`, `Settled` of DataSourceSync | `SyncAssumption` |
| MapProofs: TimelineInvariant, MapTypeCorrect, TimelineIsOnMap | the invariant, `MapTypeOK`, `TimelineOnMap` of MapState | `MapAssumption` |
| MapProofs: TrackInvariant, WorkbenchIsWhole | the invariant, `WholeSource` | `MapAssumption` |
| CatalogProofs: TypeCorrect, ResultsBelong, SomethingIsSaid, IndexIsComplete | `TypeOK`, `ShownBelongs`, `NothingIsSaid`, `WholeIndexSearched` of Search | `SearchAssumption` |
| CatalogProofs: MemberTypeCorrect, MetadataComesFirst, KeyAddedOnce, DismissedStaysGone | `MemberTypeOK`, `MetadataFirst`, `KeysOnce`, `DismissedIsGone` of CatalogMember | `ItemAssumption` |

*AsyncLoader.* That two runs never have the same key needs to know what MobX knows: the
cached promise is the newest, was made with the present count, and is stale only if an
observable of a load has changed since (`CacheKnown`). With it
each action is a step of `LoadRequest` or a stutter.

*Reference.* Each action of a reference is an action of its loader or leaves the loader
alone; so the loader's invariant is had from `AsyncLoaderProofs` by instantiation, and not
proved again. What is added says who is on his way: a run that has not ended is waited for
(`Awaited`), whoever is answered has his run's outcome (`Told`), a successful load has found
a target before anybody is told (`Found`), and a target that lacks its settings has a call
that will bring them (`Furnishes`).

*Workbench.* The heart is that `Position` returns an index at which an ordered list stays
ordered, from any starting index. The two pairs of loops are a least and a greatest index
(`ListLemmas.tla`), which bound what the entries above and below can be; the rest is
arithmetic on ranks. `NoNesting`, that no reference leads to another reference, is needed:
item 11 above is what happens without it. With it `contains()` asks exactly whether the list
shows what a model shows (`ContainsShown`), from which `NoDuplicates` and `AddedStays`
follow: what is inserted was not shown, and what is swapped shows the same.

`ShownOnce` is about the moments when no add is under way, and no invariant of a single pair
of entries leads there: a reference that gets its target may turn out to show what any
number of entries show already, references of other adds or the target itself, and each of
these adds takes its own away later, in any order. What is invariant is a count (`Few`): of
the entries that show a model there is at most one more than there are adds about to swap
their reference for it. When no add is left, there is at most one. The count needs `Slot`
to be finite, as the calls of `add()` in flight are. A load that no add has asked for breaks
it: the models that two entries then show are `doubled`, and the count is of the others. It
must hold again of a model that is doubled no more, as it is then shown at most once
(`Heals`).

*TimelineStack.* `InSync` is not inductive. The strengthening says who hears the ticks: an
active stack with a layer on top is subscribed, and the clock holds the bounds of that top.
So a tick writes back to the top layer what it was given by it, and `Reaction` has nothing
to undo. A clock whose two dates are one object shows the start of the layer whose bounds it
has (`OneDate`), which is what the autorun would leave there: so "go to start" and the picks
that follow it keep `InSync`, in the form that allows for the shared object, and a tick makes
the layer agree with the clock again (`TicksAgree`). Every action that ends in a reaction is
one lemma. `PickedDateIsShown` needs `InSync` where the autorun does not run, as nothing it
reads has changed: then the clock has the date already.

*TileErrorHandler.* For `GivesUp` the invariant relates each tile's own history to the
counts all tiles share. While nothing loads, every source clears them at most once, with
its first error: so a tile that no load helps has had no more retries than are counted now,
and as many again as the limit for each other source that is failing (`Counted`), its own
being one of these (`SourceFails`). `OutageHides` has the same argument for the failures of
the layer (`Endured`). Both need `Source` to be finite.

*FeatureHighlight.* The invariant says what will be on the map when the queue is empty. The
last call that has anything to do has what is selected to draw, or nobody has anything left
to do and it is drawn or loads (`Comes`): a call in the middle of the queue may restore
styles and hide the item as it likes, as long as it is not the last. If no call was
overtaken, only one call has anything to draw, what is highlighted is selected and will be
restored to its own style, and a region that is visible is selected or has a call that will
hide it (`NothingElse`). The first attempt failed for a reason: with two regions and two
viewers TLC found a call of the viewer before, which had returned from its callback and so
went behind a later call of the viewer after. The property, checked with one region only,
had not seen it, and `FallsBehind` was added to what counts as coming last.
`HighlightTypeOK` needs that there is an id for one more load, which is a count: the calls
and the viewers use fewer ids than there are (`IdUnused`). What `Clear` does to the queue is
`Parted`, below.

*CatalogFunctionJob.* Three functions share one job and its flags. `JobInv` says who may be
where: one that waits for its request has the job to itself (`WaitsAlone`), one that
downloads has found it finished and nothing downloaded, and is the only one
(`DownloadsOnce`), and the timer belongs to the reaction that set it (`TimerOwned`).
`DeliveredOnce` then has one case: the end of a download.

*DataSourceSync.* `Settled` says nothing while a sync runs; so the invariant says how far
the first one is: it follows the list it began with, up to `at` the collection has what that
wants (`HasUpTo`), and what it waits for is not in the collection (`OneAtATime`). The last
sync of the queue follows the model as it is now (`LastIsCurrent`). What
`Raised` returns at its end is a lemma (`RaisedKeeps`): the wanted sources, in the order of
the list.

*MapState.* `TimelineOnMap` is inductive with `TwiceStrays`: a layer that is on the
timeline twice has strayed. Without that it is not: taking an item off removes one of two.
A layer also strays when the workbench alone is told that it goes, until it leaves the
timeline (`Straying`). An earlier form of the property that did not except such layers
holds on an instance with one time-varying item and is false with two, which the attempt
to prove it showed. For `WholeSource` every run of `applyInitData` that is not over is on
track (`OnTrack`): what it has pushed, and what it has still to push of the model it waits
for, is what the first n of its models promise. Whichever run assigns the workbench last,
that is all of them.

*CatalogMember.* `KeysOnce` speaks of what is in the queue and `DismissedIsGone` of what was
dismissed; what links them is that a key is remembered from before its message was queued
(`KeysRemembered`). `DismissedIsGone` needs two facts more: nothing that is to be ignored is
in the queue (`NoneIgnored`), and unless a load of the item has thrown something, no error of
it is a caller's own, so that whichever was dismissed has marked the one they share
(`Accounted`).

*Lists.* No rule of induction can be instantiated here, so an induction on the length of a
list is a least counterexample: `LeastElement` is had from the well-foundedness of the
natural numbers as a set of pairs. With it `ListLemmas` proves that the recursive function of
`FirstJoined` exists (`UpToExists`), and of `Filter` that it keeps what it should, in order
and once (`FilterElements`, `FilterDistinct`). A list that is split by a filter into those it
keeps and those it does not has every element in one place of one part (`Parted`).

*TerriaViewer.* `ZoomOwned` says whose the indicator is: the zoom with `_currentZoomId` is
the last one while it is on. For `ViewKept` a new viewer is given the view of the last one
in every branch of `currentViewer`, also by the `NoViewer` that stands in for it.

*Search.* The invariant is of all searches, not only of the one that is shown: whatever any
of them has found matches its own text (`FoundMatch`), and one that has the whole index
ends with all of it (`WholeFound`). What is shown is of the text in the box, or says that
there is nothing to search for (`ShownOf`).

*Assumptions.* Each is the ASSUME of its module, which TLC evaluates in the run; they say
that kinds of things differ, that bounds are numbers and functions have their domains.
`NoNesting` is a hypothesis of theorems and not of the module: references to references are
possible, and the instance of `WorkbenchNested.cfg` has one.

Only model-checked: the liveness properties (`RunningEnds`, `ErrorsSettle`, `Converges`,
`MapAppears`, `CallsEnd`, `SearchIsAnswered`, `BaseMapComes`, `TextsSeen`) and the fairness
part of the refinement `ImplementsLoadRequest`, whose steps are proved: TLAPS 1.4.5 does not
reason about ENABLED, which WF and SF rest on. Every invariant and every action property
that a run checks is proved. AutoRefreshing is proved and checked as a part of the job.

The type invariants are in no run's list, as they are proved of all components (`JobTypeOK`
includes that of AutoRefreshing; that of Workbench is in the lemma `KeepsAll`).

## 6. Abstractions

- Errors are outcomes: `ok`/`failed`, or the severity where the code branches on it.
- MobX is its contract: a computed is evaluated again when something it read has changed, a
  reaction runs at the end of the outermost action. Its batching is not modelled.
- Analytics, notifications' wording, logging and repaint requests are left out.
- `Workbench`: `add()` of an array is its single adds in reverse order; the setter `items`,
  `collapseAll` and `expandAll` are left out.
- `TerriaViewer`: a flight shows one of its ends; the picking and the rendering of a viewer
  are left out. The base map is in `MapState`.
- `FeatureHighlight`: the highlight of a vector tile, loads that fail, and 3D tiles that have
  data of their own are left out.
- `Search`: which members match a text, and their order, are data (`Matches`).
- `MapState`: items on the workbench are targets of one kind, so that a new one goes first;
  `Workbench` has the references and the kinds. Traits, camera and picked features are left
  out of init data.
- `CatalogMember`: loaders load once; whether a load fails with a `TerriaError` is a choice;
  descriptions and computed traits are left out.
- `TimelineStack`: the multiplier travels with the bounds; items are time-varying layers,
  never references. Of the objects that dates are, only the one that "go to start" shares is
  told apart.
- `TileErrorHandler`: the result of the trait-level hook `handleTileError` is ignored by the
  handler and is not modelled; backoff times have no length. A source that is made anew when
  its part changes is one more member of `Source`, which is finite.
- `Reference`: `recursivelyLoadReference` and `nestedTarget`, loops over single references.

## 7. What is not modelled

`PROJECT.json` has the list with a reason for each. The hundred catalogue items, groups and
references of the services, most of the code of the repository, translate documents of
servers to traits: their asynchronous behaviour is that of the mixins, which are modelled.
The views of the user interface read the model layer; the handlers that write it are actions
here. Tables, strata and groups are computed values, which hold no state between two steps.
Imagery layers and primitives are synchronised by one autorun without an await, and are the
part of the viewers' synchronisation that is left out.

A hazard without a property has a note that says why, and section 4 shows what goes wrong.

## 8. Order of the modules, and what is left

The modules were written in the order of the state they share: AsyncLoader and LoadRequest,
Reference, Workbench, TimelineStack, AutoRefreshing and CatalogFunctionJob,
TileErrorHandler, DataSourceSync; then TerriaViewer, FeatureHighlight, Search, MapState and
CatalogMember. What could follow:

1. MapState over Workbench itself, with references and kinds.
2. GroupMixin's members over merged strata, and `upsertModelFromJson`, as operators against
   a reference definition.
3. Picking, and the stack of interaction modes.
4. Proofs: abstract specifications, as LoadRequest is for the loader, of what the workbench
   and the synchronisation of data sources promise, and their refinements.
