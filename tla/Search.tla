------------------------------- MODULE Search -------------------------------
(***************************************************************************)
(* One search box: the text and results of lib/ReactViewModels/            *)
(* SearchState.ts, the debounce of lib/ReactViews/Search/SearchBox.jsx,    *)
(* search() of SearchProviderMixin, and the doSearch of what the box       *)
(* searches: the catalogue with its index, the catalogue without one, or   *)
(* places that a service knows.  The three boxes of SearchState differ in  *)
(* that only.                                                              *)
(*                                                                         *)
(* Every call of search() has a SearchProviderResults of its own, in which *)
(* an async doSearch leaves what it finds, also when it is shown no more.  *)
(***************************************************************************)
EXTENDS Naturals

CONSTANTS
  Text,          \* texts to search for, Empty among them
  Empty,         \* the one with no characters
  TooShort,      \* those with too few characters, Empty among them
  Doc,           \* the members of the catalogue, or places
  Matches,       \* per text: those it matches
  MaxSearches    \* bound: results that are shown or still searched for

ASSUME SearchAssumption ==
  /\ Empty \in TooShort /\ TooShort \subseteq Text
  /\ Matches \in [Text -> SUBSET Doc]
  /\ MaxSearches \in Nat \ {0, 1}

VARIABLES
  backend,   \* what is searched: "index", "models" or "service"
  text,      \* catalogSearchText
  waiting,   \* isWaitingToStartCatalogSearch
  box,       \* the box is on the screen
  timer,     \* its debounced search
  results,   \* SearchProviderResults, and where the search for each is; whole is history:
             \* the index was loaded when it began, or was loaded by it
  shown,     \* catalogSearchResults
  index,     \* catalogIndex: "unasked", "loading", "loaded" or "failed"
  known,     \* the members of the catalogue that terria.models has
  cut        \* history: the box was closed before the debounced search of this text

vars == <<backend, text, waiting, box, timer, results, shown, index, known, cut>>

Id == 1..MaxSearches

NoResults == [text |-> Empty, stage |-> "complete", found |-> {}, message |-> "none",
              isCanceled |-> FALSE, whole |-> FALSE]

Result == [text : Text, stage : {"complete", "index", "search", "references", "service"},
           found : SUBSET Doc, message : {"none", "minCharacters", "nothing", "error"},
           isCanceled : BOOLEAN, whole : BOOLEAN]

TypeOK ==
  /\ backend \in {"index", "models", "service"}
  /\ text \in Text /\ waiting \in BOOLEAN /\ box \in BOOLEAN /\ timer \in BOOLEAN
  /\ results \in [Id -> Result]
  /\ shown \in Id \union {0}
  /\ index \in {"unasked", "loading", "loaded", "failed"}
  /\ known \subseteq Doc /\ cut \in BOOLEAN
  /\ \A id \in Id : results[id].stage = "index" => index # "unasked"

-----------------------------------------------------------------------------
(* search() and doSearch() *)

\* SearchProviderResults that nobody holds.
Unused == {id \in Id : id # shown /\ results[id].stage = "complete"}

\* Mutant: the index is searched as it is.
FirstStageNow(t) ==
  CASE backend = "service" -> "service"
    [] backend = "index" /\ index = "loaded" -> "search"
    [] OTHER -> "references"

\* What doSearch() waits for first.  The index is waited for by the call that loads it;
\* while it loads, others search the models.
FirstStage(t) ==
  CASE backend = "service" -> "service"
    [] backend = "index" /\ index = "unasked" -> "index"
    [] backend = "index" /\ index = "loaded" -> "search"
    [] OTHER -> "references"

\* loadAndSearchCatalogRecursively(): the models it knows are matched at once.  The array
\* of models is the same in every round, and no model is matched twice.
FoundAtOnce(t, stage) == IF stage = "references" THEN Matches[t] \intersect known ELSE {}

\* The result of search(t): a text that is too short is answered at once.
Searching(t) ==
  IF t \in TooShort THEN [NoResults EXCEPT !.message = "minCharacters"]
  ELSE [NoResults EXCEPT !.text = t, !.stage = FirstStage(t),
                         !.found = FoundAtOnce(t, FirstStage(t)),
                         !.whole = (index \in {"unasked", "loaded"})]

\* search(t), while the results before are rs; catalogIndex.load() if needed.
ShowSearch(rs, t) ==
  \E id \in Unused :
    /\ \A other \in Unused : id <= other
    /\ results' = [rs EXCEPT ![id] = Searching(t)]
    /\ shown' = id
    /\ index' = IF results'[id].stage = "index" THEN "loading" ELSE index

\* Mutant: the results before are not replaced.
TextChangesOnly ==
  /\ waiting' = TRUE
  /\ UNCHANGED <<results, shown, index>>

\* The reaction to a new text.
TextChanges == waiting' = TRUE /\ ShowSearch(results, Empty)

\* Mutant: the results that are shown next are cancelled.
CatalogSearchedCancelling(t) ==
  IF ~waiting THEN UNCHANGED <<waiting, results, shown, index>>
  ELSE /\ waiting' = FALSE
       /\ \E id \in Unused :
            /\ results' = [results EXCEPT ![id] = [Searching(t) EXCEPT !.isCanceled = TRUE]]
            /\ shown' = id
            /\ index' = IF results'[id].stage = "index" THEN "loading" ELSE index

\* searchCatalog(), searchLocations() and searchUnified()
CatalogSearched(t) ==
  IF ~waiting THEN UNCHANGED <<waiting, results, shown, index>>
  ELSE /\ waiting' = FALSE
       /\ ShowSearch(IF shown = 0 THEN results ELSE [results EXCEPT ![shown].isCanceled = TRUE], t)

-----------------------------------------------------------------------------
(* Operations *)

Init ==
  /\ backend \in {"index", "models", "service"}
  /\ text = Empty /\ waiting = FALSE
  /\ box = TRUE /\ timer = FALSE
  /\ results = [id \in Id |-> NoResults] /\ shown = 0
  /\ index = "unasked"
  /\ known \in SUBSET Doc
  /\ cut = FALSE

\* The text is changed in the box, to an empty one too, and the debounced search set.
ChangeText(t) ==
  /\ box /\ t # text /\ text # Empty
  /\ text' = t
  /\ TextChanges
  /\ timer' = TRUE /\ cut' = FALSE
  /\ UNCHANGED <<backend, box, known>>

\* Where there were no characters at all the text is searched for at once, and so when it is
\* cleared by the button: what the reaction has just shown is cancelled, and not the results
\* before.
ChangeAndSearch(t) ==
  /\ box /\ t # text /\ Empty \in {text, t}
  /\ text' = t
  /\ waiting' = FALSE
  /\ ShowSearch(results, t)
  /\ timer' = FALSE /\ cut' = FALSE
  /\ UNCHANGED <<backend, box, known>>

\* The debounced search, or Enter, or the button; the timer is cancelled.
Search ==
  /\ box /\ (timer \/ waiting)
  /\ CatalogSearched(text)
  /\ timer' = FALSE /\ cut' = FALSE
  /\ UNCHANGED <<backend, text, box, known>>

DebouncedSearch == timer /\ Search

CloseBox ==
  /\ box /\ box' = FALSE
  /\ timer' = FALSE
  /\ cut' = (cut \/ timer)
  /\ UNCHANGED <<backend, text, waiting, results, shown, index, known>>

OpenBox ==
  /\ ~box /\ box' = TRUE
  /\ UNCHANGED <<backend, text, waiting, timer, results, shown, index, known, cut>>

\* terria.models has another member, a reference may have been loaded.
ModelAdded(d) ==
  /\ d \notin known /\ known' = known \union {d}
  /\ UNCHANGED <<backend, text, waiting, box, timer, results, shown, index, cut>>

\* Something else loads the index: getModelByIdShareKeyOrCatalogIndex().
IndexAsked ==
  /\ backend = "index" /\ index = "unasked" /\ index' = "loading"
  /\ UNCHANGED <<backend, text, waiting, box, timer, results, shown, known, cut>>

\* The index file is downloaded, or is not and an error is shown.
IndexSettles(state) ==
  /\ index = "loading" /\ index' = state
  /\ UNCHANGED <<backend, text, waiting, box, timer, results, shown, known, cut>>

\* Mutant: the error of the load is not caught.
IndexAwaitedLoaded(id) ==
  /\ results[id].stage = "index" /\ index = "loaded"
  /\ results' = [results EXCEPT ![id].stage = "search", ![id].whole = TRUE]
  /\ UNCHANGED <<backend, text, waiting, box, timer, shown, index, known, cut>>

\* doSearch() after the load that it began.
IndexAwaited(id) ==
  LET t == results[id].text
      stage == IF index = "loaded" THEN "search" ELSE "references"
  IN
  /\ results[id].stage = "index" /\ index # "loading"
  /\ results' = [results EXCEPT ![id].stage = stage, ![id].found = FoundAtOnce(t, stage),
                                ![id].whole = (index = "loaded")]
  /\ UNCHANGED <<backend, text, waiting, box, timer, shown, index, known, cut>>

\* The end of doSearch(): what was found, and a message if it was nothing.  A service
\* leaves cancelled results as they are; the catalogue fills them and adds no message.
Found(r) ==
  LET found == IF r.stage = "references" THEN r.found ELSE Matches[r.text] IN
  IF r.isCanceled /\ r.stage = "service" THEN [r EXCEPT !.stage = "complete"]
  ELSE [r EXCEPT !.stage = "complete", !.found = found,
                 !.message = IF found = {} /\ ~r.isCanceled THEN "nothing" ELSE "none"]

SearchEnds(id) ==
  /\ results[id].stage \in {"search", "references", "service"}
  /\ results' = [results EXCEPT ![id] = Found(results[id])]
  /\ UNCHANGED <<backend, text, waiting, box, timer, shown, index, known, cut>>

SearchFails(id) ==
  /\ results[id].stage \in {"search", "references", "service"}
  /\ results' = [results EXCEPT ![id].stage = "complete",
                   ![id].message = IF results[id].isCanceled THEN @ ELSE "error"]
  /\ UNCHANGED <<backend, text, waiting, box, timer, shown, index, known, cut>>

Next ==
  \/ \E t \in Text : ChangeText(t) \/ ChangeAndSearch(t)
  \/ Search \/ CloseBox \/ OpenBox \/ IndexAsked
  \/ \E d \in Doc : ModelAdded(d)
  \/ \E state \in {"loaded", "failed"} : IndexSettles(state)
  \/ \E id \in Id : IndexAwaited(id) \/ SearchEnds(id) \/ SearchFails(id)

Spec == Init /\ [][Next]_vars

\* The browser runs the timer, and every request is answered or fails.
Fairness ==
  /\ WF_vars(DebouncedSearch)
  /\ WF_vars(\E state \in {"loaded", "failed"} : IndexSettles(state))
  /\ \A id \in Id : WF_vars(IndexAwaited(id) \/ SearchEnds(id) \/ SearchFails(id))

FairSpec == Spec /\ Fairness

-----------------------------------------------------------------------------
(* Properties *)

Answered == shown # 0 /\ ~waiting /\ results[shown].stage = "complete"

\* What is shown was searched for the text in the box, whichever searches end late, and
\* nothing is shown while a new text waits to be searched for.
ShownBelongs ==
  shown # 0 => /\ results[shown].found \subseteq Matches[text]
               /\ waiting => results[shown].found = {}

\* The box never ends with neither results nor a message: the results it shows are never
\* taken for superseded ones ("A new search has superseded this one, so ignore the
\* result").
NothingIsSaid == Answered /\ results[shown].found = {} => results[shown].message # "none"

\* Where there is an index that loads, a search finds all it has ("Load catalogIndex if
\* needed"), unless it began while another one was loading it.
WholeIndexSearched ==
  Answered /\ backend = "index" /\ index = "loaded" /\ results[shown].whole
    /\ results[shown].message # "error" => results[shown].found = Matches[text]

\* A text that stays is searched for and answered, unless the box was closed before its
\* debounced search.
SearchIsAnswered == \A t \in Text \ {Empty} : <>[](text = t /\ ~cut) => <>[]Answered

\* "Load catalogIndex if needed" (CatalogSearchProvider.ts:154): once the index is loaded
\* what was answered is what it has.
IndexIsSearched ==
  Answered /\ backend = "index" /\ index = "loaded" /\ results[shown].message # "error"
    => results[shown].found = Matches[text]

\* "Called when the search changes, after a debounce" (SearchBox.jsx:35): a text that stays
\* in an open box is searched for.
DebounceEnds == \A t \in Text \ {Empty} : <>[](text = t /\ box) => <>[]Answered

=============================================================================
