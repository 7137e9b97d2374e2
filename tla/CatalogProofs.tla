---------------------------- MODULE CatalogProofs ----------------------------
(***************************************************************************)
(* Theorems of Search and of CatalogMember, which have nothing in common   *)
(* but the catalogue: what a search box shows, for any texts, members of   *)
(* the catalogue and number of searches under way; and in which order an   *)
(* item loads and what the user is told of it, for any items, keys, calls  *)
(* and length of the queue.                                                *)
(***************************************************************************)
EXTENDS Search, CatalogMember, ListLemmas, FiniteSetTheorems, TLAPS

-----------------------------------------------------------------------------
(* Search *)

\* Whatever is found, also by searches that are shown no more, matches their text.
FoundMatch(rs) == \A id \in Id : rs[id].found \subseteq Matches[rs[id].text]

\* A search that has the whole index searches it, unless it fails or is superseded.
WholeFound(rs) ==
  \A id \in Id : LET r == rs[id] IN
    backend = "index" /\ r.whole /\ ~r.isCanceled =>
      \/ r.stage \in {"index", "search"}
      \/ r.stage = "complete" /\ (r.message = "error" \/ r.found = Matches[r.text])

\* The answer to a text that is too short.
Blank(r) == r.stage = "complete" /\ r.found = {} /\ r.message # "none" /\ ~r.whole

\* What is shown was not superseded; it is of the text, or blank, and has something to say.
ShownOf(r) ==
  /\ ~r.isCanceled
  /\ r.text = text \/ Blank(r)
  /\ waiting => Blank(r)
  /\ r.stage = "complete" /\ r.found = {} => r.message # "none"

IInv ==
  /\ TypeOK
  /\ FoundMatch(results) /\ WholeFound(results)
  /\ shown # 0 => ShownOf(results[shown])

-----------------------------------------------------------------------------

\* A search that begins has found what it can at once, and waits for the rest.
LEMMA SearchingStarts ==
  ASSUME TypeOK, NEW t \in Text
  PROVE  LET r == Searching(t) IN
         /\ r \in Result /\ ~r.isCanceled /\ r.found \subseteq Matches[r.text]
         /\ IF t \in TooShort THEN Blank(r) ELSE r.text = t /\ r.stage # "complete"
         /\ r.stage = "index" => backend = "index" /\ index = "unasked"
         /\ backend = "index" /\ r.whole => r.stage \in {"index", "search"}
<1>1. Matches[t] \subseteq Doc /\ Matches[Empty] \subseteq Doc /\ known \subseteq Doc /\ Empty \in Text
  BY SearchAssumption DEF TypeOK
<1>2. CASE t \in TooShort
  BY <1>1, <1>2 DEF Searching, NoResults, Result, Blank
<1>3. CASE t \notin TooShort
  <2> DEFINE stage == FirstStage(t)
             found == FoundAtOnce(t, stage)
             whole == index \in {"unasked", "loaded"}
  <2>1. stage \in {"index", "search", "references", "service"}
    BY DEF FirstStage
  <2>2. found \subseteq Matches[t]
    BY DEF FoundAtOnce
  <2>3. Searching(t) = [text |-> t, stage |-> stage, found |-> found, message |-> "none",
                        isCanceled |-> FALSE, whole |-> whole]
    BY <1>3 DEF Searching, NoResults
  <2>4. stage = "index" => backend = "index" /\ index = "unasked"
    BY DEF FirstStage
  <2>5. backend = "index" /\ whole => stage \in {"index", "search"}
    BY DEF FirstStage
  <2>0. whole \in BOOLEAN
    OBVIOUS
  <2> HIDE DEF stage, found, whole
  <2>6. Searching(t) \in Result
    BY <1>1, <2>1, <2>2, <2>3, <2>0 DEF Result
  <2>7. ~Searching(t).isCanceled /\ (Searching(t).whole = whole)
    BY <2>3
  <2>8. Searching(t).text = t /\ Searching(t).stage = stage /\ Searching(t).found = found
    BY <2>3
  <2>9. stage # "complete"
    BY <2>1
  <2> QED BY <1>3, <2>0, <2>2, <2>4, <2>5, <2>6, <2>7, <2>8, <2>9
<1> QED BY <1>2, <1>3

\* A search that is shown takes the place of results nobody holds.
LEMMA ShowSearchKeeps ==
  ASSUME IInv, NEW t \in Text, NEW rs \in [Id -> Result], ShowSearch(rs, t),
         FoundMatch(rs), WholeFound(rs), \A id \in Id : rs[id].stage = results[id].stage,
         UNCHANGED <<backend, known>>
  PROVE  /\ results' \in [Id -> Result] /\ shown' \in Id /\ results'[shown'] = Searching(t)
         /\ index' \in {"unasked", "loading", "loaded", "failed"}
         /\ FoundMatch(results)' /\ WholeFound(results)'
         /\ \A id \in Id : results'[id].stage = "index" => index' # "unasked"
<1>1. PICK new \in Id : /\ results' = [rs EXCEPT ![new] = Searching(t)] /\ shown' = new
                        /\ index' = IF results'[new].stage = "index" THEN "loading" ELSE index
  BY DEF ShowSearch, Unused
<1> DEFINE r == Searching(t)
<1>2. /\ r \in Result /\ ~r.isCanceled /\ r.found \subseteq Matches[r.text]
      /\ r.stage = "index" => backend = "index" /\ index = "unasked"
      /\ backend = "index" /\ r.whole => r.stage \in {"index", "search"}
  BY SearchingStarts DEF IInv
<1> HIDE DEF r
<1>3. results' = [rs EXCEPT ![new] = r]
  BY <1>1 DEF r
<1>4. results' \in [Id -> Result] /\ results'[new] = r /\ \A id \in Id \ {new} : results'[id] = rs[id]
  BY <1>2, <1>3
<1>5. index' \in {"unasked", "loading", "loaded", "failed"}
  BY <1>1 DEF IInv, TypeOK
<1>6. FoundMatch(results)'
  BY <1>2, <1>4 DEF FoundMatch
<1>7. WholeFound(results)'
  BY <1>2, <1>4 DEF WholeFound
<1>8. ASSUME NEW id \in Id, results'[id].stage = "index" PROVE index' # "unasked"
  BY <1>1, <1>4, <1>8 DEF IInv, TypeOK
<1> QED BY <1>1, <1>4, <1>5, <1>6, <1>7, <1>8 DEF r

\* What a text change or a search shows.
LEMMA Shows ==
  ASSUME IInv, NEW t \in Text, NEW rs \in [Id -> Result], ShowSearch(rs, t),
         FoundMatch(rs), WholeFound(rs), \A id \in Id : rs[id].stage = results[id].stage,
         UNCHANGED <<backend, known>>, text' \in Text, waiting' \in BOOLEAN, box' \in BOOLEAN,
         timer' \in BOOLEAN, cut' \in BOOLEAN,
         t = Empty \/ (t = text' /\ ~waiting')
  PROVE  IInv'
<1>1. /\ results' \in [Id -> Result] /\ shown' \in Id /\ results'[shown'] = Searching(t)
      /\ index' \in {"unasked", "loading", "loaded", "failed"}
      /\ FoundMatch(results)' /\ WholeFound(results)'
      /\ \A id \in Id : results'[id].stage = "index" => index' # "unasked"
  BY ShowSearchKeeps
<1>2. TypeOK'
  BY <1>1 DEF IInv, TypeOK
<1>3. ShownOf(results[shown])'
  <2>1. /\ ~Searching(t).isCanceled
        /\ IF t \in TooShort THEN Blank(Searching(t))
           ELSE Searching(t).text = t /\ Searching(t).stage # "complete"
    BY SearchingStarts DEF IInv
  <2>2. t = Empty => t \in TooShort
    BY SearchAssumption
  <2> QED BY <1>1, <2>1, <2>2 DEF ShownOf, Blank
<1> QED BY <1>1, <1>2, <1>3 DEF IInv

LEMMA ChangeKeeps ==
  ASSUME IInv, NEW t \in Text, ChangeText(t) \/ ChangeAndSearch(t)
  PROVE  IInv'
<1>1. Empty \in Text
  BY SearchAssumption
<1>2. CASE ChangeText(t)
  BY <1>1, <1>2, Shows DEF ChangeText, TextChanges, IInv, TypeOK
<1>3. CASE ChangeAndSearch(t)
  BY <1>3, Shows DEF ChangeAndSearch, IInv, TypeOK
<1> QED BY <1>2, <1>3

\* The results that are shown are cancelled when others are searched for.
LEMMA SearchKeeps == ASSUME IInv, Search PROVE IInv'
<1>1. CASE ~waiting
  <2>1. UNCHANGED <<backend, text, box, known, waiting, results, shown, index>>
        /\ timer' = FALSE /\ cut' = FALSE
    BY <1>1 DEF Search, CatalogSearched
  <2> QED BY <2>1 DEF IInv, TypeOK, FoundMatch, WholeFound, ShownOf, Blank
<1>2. CASE waiting
  <2> DEFINE rs == IF shown = 0 THEN results ELSE [results EXCEPT ![shown].isCanceled = TRUE]
  <2>1. /\ ShowSearch(rs, text) /\ waiting' = FALSE
        /\ UNCHANGED <<backend, text, box, known>> /\ timer' = FALSE /\ cut' = FALSE
    BY <1>2 DEF Search, CatalogSearched
  <2>2. \A id \in Id : /\ rs[id].stage = results[id].stage /\ rs[id].text = results[id].text
                       /\ rs[id].found = results[id].found /\ rs[id].message = results[id].message
                       /\ rs[id].whole = results[id].whole
                       /\ ~rs[id].isCanceled => ~results[id].isCanceled
    BY DEF IInv, TypeOK, Result
  <2>3. rs \in [Id -> Result]
    BY DEF IInv, TypeOK, Result
  <2> HIDE DEF rs
  <2>4. FoundMatch(rs) /\ WholeFound(rs)
    BY <2>2 DEF IInv, FoundMatch, WholeFound
  <2> QED BY <2>1, <2>2, <2>3, <2>4, Shows DEF IInv, TypeOK
<1> QED BY <1>1, <1>2 DEF IInv, TypeOK

-----------------------------------------------------------------------------
(* A search goes on *)

\* Results that are still searched for are replaced by the same with what was found; if
\* they are shown they were not blank.
LEMMA GoesOn ==
  ASSUME IInv, NEW id \in Id, NEW r \in Result, results[id].stage # "complete",
         results' = [results EXCEPT ![id] = r],
         UNCHANGED <<backend, text, waiting, box, timer, shown, index, known, cut>>,
         r.text = results[id].text, r.isCanceled = results[id].isCanceled, r.stage # "index",
         r.found \subseteq Matches[r.text],
         r.stage = "complete" /\ r.found = {} /\ ~r.isCanceled => r.message # "none",
         WholeFound([results EXCEPT ![id] = r])
  PROVE  IInv'
<1>1. results' \in [Id -> Result] /\ results'[id] = r /\ \A i \in Id \ {id} : results'[i] = results[i]
  BY DEF IInv, TypeOK
<1>2. TypeOK'
  BY <1>1 DEF IInv, TypeOK
<1>3. FoundMatch(results)' /\ WholeFound(results)'
  BY <1>1 DEF IInv, FoundMatch, WholeFound
<1>4. ASSUME shown # 0 PROVE ShownOf(results[shown])'
  <2>1. shown \in Id /\ ShownOf(results[shown])
    BY <1>4 DEF IInv, TypeOK
  <2>2. CASE shown = id
    BY <1>1, <2>1, <2>2 DEF ShownOf, Blank
  <2>3. CASE shown # id
    BY <1>1, <2>1, <2>3 DEF ShownOf, Blank
  <2> QED BY <2>2, <2>3
<1> QED BY <1>2, <1>3, <1>4 DEF IInv

LEMMA IndexAwaitedKeeps == ASSUME IInv, NEW id \in Id, IndexAwaited(id) PROVE IInv'
<1> DEFINE t == results[id].text
           stage == IF index = "loaded" THEN "search" ELSE "references"
           r == [results[id] EXCEPT !.stage = stage, !.found = FoundAtOnce(t, stage),
                                    !.whole = (index = "loaded")]
<1>1. results[id] \in Result /\ results[id].stage = "index" /\ t \in Text
  BY DEF IInv, TypeOK, Result, IndexAwaited
<1>2. FoundAtOnce(t, stage) \subseteq Matches[t] /\ Matches[t] \subseteq Doc
  BY <1>1, SearchAssumption DEF FoundAtOnce
<1>3. /\ r \in Result /\ r.text = t /\ r.isCanceled = results[id].isCanceled /\ r.stage = stage
      /\ r.found = FoundAtOnce(t, stage) /\ r.whole = (index = "loaded")
  BY <1>1, <1>2 DEF Result
<1>4. results' = [results EXCEPT ![id] = r]
  BY <1>1 DEF IInv, TypeOK, Result, IndexAwaited
<1>5. UNCHANGED <<backend, text, waiting, box, timer, shown, index, known, cut>>
  BY DEF IndexAwaited
<1> HIDE DEF r
<1>6. WholeFound([results EXCEPT ![id] = r])
  BY <1>3 DEF IInv, TypeOK, WholeFound
<1> QED BY <1>1, <1>2, <1>3, <1>4, <1>5, <1>6, GoesOn

LEMMA SearchEndsKeeps == ASSUME IInv, NEW id \in Id, SearchEnds(id) PROVE IInv'
<1> DEFINE r == Found(results[id])
<1>1. /\ results[id] \in Result /\ results[id].text \in Text
      /\ results[id].stage \in {"search", "references", "service"}
  BY DEF IInv, TypeOK, Result, SearchEnds
<1>2. Matches[results[id].text] \subseteq Doc /\ results[id].found \subseteq Matches[results[id].text]
  BY <1>1, SearchAssumption DEF IInv, FoundMatch
<1>3. /\ r \in Result /\ r.text = results[id].text /\ r.isCanceled = results[id].isCanceled
      /\ r.stage = "complete" /\ r.whole = results[id].whole /\ r.found \subseteq Matches[r.text]
      /\ r.found = {} /\ ~r.isCanceled => r.message # "none"
      /\ results[id].stage = "search" => r.found = Matches[r.text]
  BY <1>1, <1>2 DEF Found, Result
<1>4. /\ results' = [results EXCEPT ![id] = r]
      /\ UNCHANGED <<backend, text, waiting, box, timer, shown, index, known, cut>>
  BY DEF SearchEnds
<1> HIDE DEF r
<1>5. WholeFound([results EXCEPT ![id] = r])
  BY <1>1, <1>3 DEF IInv, TypeOK, WholeFound
<1> QED BY <1>1, <1>3, <1>4, <1>5, GoesOn

LEMMA SearchFailsKeeps == ASSUME IInv, NEW id \in Id, SearchFails(id) PROVE IInv'
<1> DEFINE r == [results[id] EXCEPT !.stage = "complete",
                   !.message = IF results[id].isCanceled THEN @ ELSE "error"]
<1>1. /\ results[id] \in Result
      /\ results[id].stage \in {"search", "references", "service"}
  BY DEF IInv, TypeOK, Result, SearchFails
<1>2. results[id].found \subseteq Matches[results[id].text]
  BY DEF IInv, FoundMatch
<1>3. /\ r \in Result /\ r.text = results[id].text /\ r.isCanceled = results[id].isCanceled
      /\ r.stage = "complete" /\ r.found \subseteq Matches[r.text]
      /\ ~r.isCanceled => r.message = "error"
  BY <1>1, <1>2 DEF Result
<1>4. /\ results' = [results EXCEPT ![id] = r]
      /\ UNCHANGED <<backend, text, waiting, box, timer, shown, index, known, cut>>
  BY <1>1 DEF IInv, TypeOK, Result, SearchFails
<1> HIDE DEF r
<1>5. WholeFound([results EXCEPT ![id] = r])
  BY <1>3 DEF IInv, TypeOK, WholeFound
<1> QED BY <1>1, <1>3, <1>4, <1>5, GoesOn

-----------------------------------------------------------------------------

\* Boxes that open and close, models that become known and an index that is loaded by
\* somebody else leave what was found alone.
LEMMA OthersKeep ==
  ASSUME IInv, \/ CloseBox \/ OpenBox \/ IndexAsked
               \/ \E d \in Doc : ModelAdded(d)
               \/ \E state \in {"loaded", "failed"} : IndexSettles(state)
               \/ UNCHANGED vars
  PROVE  IInv'
<1>1. UNCHANGED <<backend, text, waiting, results, shown>>
  BY DEF CloseBox, OpenBox, IndexAsked, ModelAdded, IndexSettles, vars
<1>2. index' \in {"unasked", "loading", "loaded", "failed"} /\ (index' = "unasked" => index = "unasked")
  BY DEF CloseBox, OpenBox, IndexAsked, ModelAdded, IndexSettles, vars, IInv, TypeOK
<1>3. known' \subseteq Doc
  BY DEF CloseBox, OpenBox, IndexAsked, ModelAdded, IndexSettles, vars, IInv, TypeOK
<1>4. box' \in BOOLEAN /\ timer' \in BOOLEAN /\ cut' \in BOOLEAN
  BY DEF CloseBox, OpenBox, IndexAsked, ModelAdded, IndexSettles, vars, IInv, TypeOK
<1>5. TypeOK'
  BY <1>1, <1>2, <1>3, <1>4 DEF IInv, TypeOK
<1> QED BY <1>1, <1>5 DEF IInv, FoundMatch, WholeFound, ShownOf, Blank

LEMMA InitHolds == Init => IInv
<1> SUFFICES ASSUME Init PROVE IInv
  OBVIOUS
<1>1. NoResults \in Result /\ NoResults.found = {} /\ ~NoResults.whole /\ NoResults.stage = "complete"
  BY SearchAssumption DEF NoResults, Result
<1> QED BY <1>1, SearchAssumption DEF Init, IInv, TypeOK, FoundMatch, WholeFound

LEMMA Inductive == IInv /\ [Next]_vars => IInv'
<1> SUFFICES ASSUME IInv, [Next]_vars PROVE IInv'
  OBVIOUS
<1>1. CASE \E t \in Text : ChangeText(t) \/ ChangeAndSearch(t)
  BY <1>1, ChangeKeeps
<1>2. CASE Search
  BY <1>2, SearchKeeps
<1>3. CASE \E id \in Id : IndexAwaited(id) \/ SearchEnds(id) \/ SearchFails(id)
  BY <1>3, IndexAwaitedKeeps, SearchEndsKeeps, SearchFailsKeeps
<1> QED BY <1>1, <1>2, <1>3, OthersKeep DEF Next

\* The state of a search box has its types: an index is never waited for that nobody
\* asked for.
THEOREM TypeCorrect == Spec => []TypeOK
<1>1. IInv => TypeOK
  BY DEF IInv
<1> QED BY <1>1, InitHolds, Inductive, PTL DEF Spec

\* What is shown belongs to the text in the box, for any number of searches that end late.
THEOREM ResultsBelong == Spec => []ShownBelongs
<1>1. IInv => ShownBelongs
  <2> SUFFICES ASSUME IInv, shown # 0
               PROVE  /\ results[shown].found \subseteq Matches[text]
                      /\ waiting => results[shown].found = {}
    BY DEF ShownBelongs
  <2>1. shown \in Id /\ ShownOf(results[shown])
    BY DEF IInv, TypeOK
  <2> QED BY <2>1 DEF IInv, FoundMatch, ShownOf, Blank
<1> QED BY <1>1, InitHolds, Inductive, PTL DEF Spec

\* A box that found nothing says so.
THEOREM SomethingIsSaid == Spec => []NothingIsSaid
<1>1. IInv => NothingIsSaid
  BY DEF IInv, NothingIsSaid, Answered, ShownOf
<1> QED BY <1>1, InitHolds, Inductive, PTL DEF Spec

\* A search that waited for the index, or found it loaded, finds all that it has.
THEOREM IndexIsComplete == Spec => []WholeIndexSearched
<1>1. IInv => WholeIndexSearched
  <2> SUFFICES ASSUME IInv, Answered, backend = "index", results[shown].whole,
                      results[shown].message # "error"
               PROVE  results[shown].found = Matches[text]
    BY DEF WholeIndexSearched
  <2>1. shown \in Id /\ ShownOf(results[shown]) /\ results[shown].stage = "complete"
    BY DEF IInv, TypeOK, Answered
  <2> QED BY <2>1 DEF IInv, WholeFound, ShownOf, Blank
<1> QED BY <1>1, InitHolds, Inductive, PTL DEF Spec

-----------------------------------------------------------------------------
(* CatalogMember *)

\* Whatever key was seen or is in the queue has been remembered.
KeysRemembered ==
  /\ seen \intersect Key \subseteq alreadyNotifiedKeys
  /\ \A n \in 1..Len(notifications) :
       notifications[n].text # NoMessage => KeyOf[notifications[n].of] \in alreadyNotifiedKeys

\* What is to be ignored has been taken out of the queue.
NoneIgnored == \A n \in 1..Len(notifications) : ~Ignored(notifications[n], raisedToUser)

Told ==
  /\ KeysRemembered
  /\ KeysOnce /\ NoneIgnored

\* Callers only have errors of their own of a load that has thrown something, and whatever
\* error was dismissed is marked as raised, but for those.
OwnError(notice, i) == notice.text = NoMessage /\ notice.own /\ notice.of = i

Accounted ==
  \A i \in Item :
    \/ Thrown(i)
    \/ /\ i \in seen => i \in raisedToUser
       /\ \A n \in 1..Len(notifications) : ~OwnError(notifications[n], i)

MemberInv == MemberTypeOK /\ MetadataFirst /\ Told /\ Accounted

LEMMA NoticeIs ==
  ASSUME NEW notice \in Notice
  PROVE  /\ notice.of \in Item /\ notice.text \in Message \union {NoMessage} /\ KeyOf[notice.of] \in Key
         /\ notice.of \notin Key
         /\ notice.text # NoMessage => notice.text \notin Key
BY ItemAssumption DEF Notice

\* A notification that is added at the end of the queue.
LEMMA AppendKeeps ==
  ASSUME MemberTypeOK, Told, NEW notice \in Notice,
         ~Ignored(notice, raisedToUser),
         notice.text # NoMessage => KeyOf[notice.of] \notin alreadyNotifiedKeys,
         notifications' = Append(notifications, notice),
         alreadyNotifiedKeys' =
           IF notice.text = NoMessage THEN alreadyNotifiedKeys
           ELSE alreadyNotifiedKeys \union {KeyOf[notice.of]},
         raisedToUser' = raisedToUser, seen' = seen
  PROVE  /\ Told' /\ notifications' \in Seq(Notice)
         /\ Len(notifications') = Len(notifications) + 1
         /\ \A n \in 1..Len(notifications') :
              \/ notifications'[n] = notice
              \/ \E m \in 1..Len(notifications) : notifications'[n] = notifications[m]
<1> DEFINE len == Len(notifications)
<1>1. /\ notifications \in Seq(Notice) /\ len \in Nat
      /\ \A n \in 1..len : notifications[n] \in Notice
  BY DEF MemberTypeOK
<1>2. /\ notifications' \in Seq(Notice) /\ Len(notifications') = len + 1
      /\ \A n \in 1..len : notifications'[n] = notifications[n]
      /\ notifications'[len + 1] = notice
  BY <1>1
<1> HIDE DEF len
<1>0. \A n \in 1..len + 1 : n \in 1..len \/ n = len + 1
  BY <1>1
<1>3. KeyOf[notice.of] \in Key
  BY NoticeIs
<1>4. KeysRemembered'
  <2>1. seen' \intersect Key \subseteq alreadyNotifiedKeys'
    BY DEF Told, KeysRemembered
  <2>2. ASSUME NEW n \in 1..len + 1, notifications'[n].text # NoMessage
        PROVE  KeyOf[notifications'[n].of] \in alreadyNotifiedKeys'
    <3>1. CASE n = len + 1
      BY <1>2, <2>2, <3>1
    <3>2. CASE n \in 1..len
      BY <1>2, <2>2, <3>2 DEF Told, KeysRemembered, len
    <3> QED BY <1>0, <3>1, <3>2
  <2> QED BY <1>2, <2>1, <2>2 DEF KeysRemembered
<1>5. NoneIgnored'
  <2>1. ASSUME NEW n \in 1..len + 1 PROVE ~Ignored(notifications'[n], raisedToUser')
    <3>1. CASE n = len + 1
      BY <1>2, <3>1 DEF Ignored
    <3>2. CASE n \in 1..len
      BY <1>2, <3>2 DEF Told, NoneIgnored, Ignored, len
    <3> QED BY <1>0, <3>1, <3>2
  <2> QED BY <1>2, <2>1 DEF NoneIgnored
<1>6. KeysOnce'
  <2>1. ASSUME NEW n \in 1..len + 1, notifications'[n].text # NoMessage
        PROVE  KeyOf[notifications'[n].of] \notin seen'
    <3>1. CASE n = len + 1
      BY <1>2, <1>3, <2>1, <3>1 DEF Told, KeysRemembered
    <3>2. CASE n \in 1..len
      BY <1>2, <2>1, <3>2 DEF Told, KeysOnce, len
    <3> QED BY <1>0, <3>1, <3>2
  <2>2. ASSUME NEW n \in 1..len + 1, NEW m \in 1..len + 1, m # n,
               notifications'[n].text # NoMessage, notifications'[m].text # NoMessage
        PROVE  KeyOf[notifications'[m].of] # KeyOf[notifications'[n].of]
    <3>1. CASE n \in 1..len /\ m \in 1..len
      BY <1>2, <2>2, <3>1 DEF Told, KeysOnce, len
    <3>2. CASE n = len + 1 /\ m \in 1..len
      BY <1>2, <2>2, <3>2 DEF Told, KeysRemembered, len
    <3>3. CASE m = len + 1 /\ n \in 1..len
      BY <1>2, <2>2, <3>3 DEF Told, KeysRemembered, len
    <3> QED BY <1>0, <2>2, <3>1, <3>2, <3>3
  <2> QED BY <1>2, <2>1, <2>2 DEF KeysOnce
<1>7. \A n \in 1..len + 1 :
        notifications'[n] = notice \/ \E m \in 1..len : notifications'[n] = notifications[m]
  BY <1>0, <1>2
<1> QED BY <1>2, <1>4, <1>5, <1>6, <1>7 DEF Told, len

LEMMA AddMessageKeeps ==
  ASSUME MemberTypeOK, Told,
         NEW i \in Item, TextOf[i] # NoMessage, AddMessage(i)
  PROVE  /\ Told' /\ notifications' \in Seq(Notice)
         /\ Len(notifications') \in {Len(notifications), Len(notifications) + 1}
         /\ alreadyNotifiedKeys' \subseteq Key /\ raisedToUser' = raisedToUser /\ seen' = seen
         /\ \A n \in 1..Len(notifications') :
              \/ notifications'[n] = MessageOf(i)
              \/ \E m \in 1..Len(notifications) : notifications'[n] = notifications[m]
<1> DEFINE notice == MessageOf(i)
<1>1. notice \in Notice /\ ~Ignored(notice, raisedToUser) /\ KeyOf[i] \in Key
  BY ItemAssumption DEF Notice, Ignored, MessageOf
<1>2. alreadyNotifiedKeys' \subseteq Key /\ raisedToUser' = raisedToUser /\ seen' = seen
  BY <1>1 DEF AddMessage, MemberTypeOK
<1>3. CASE Queued(TextOf[i]) \/ KeyOf[i] \in alreadyNotifiedKeys
  <2>1. notifications' = notifications /\ alreadyNotifiedKeys \subseteq alreadyNotifiedKeys'
    BY <1>3 DEF AddMessage
  <2>2. Told'
    BY <1>2, <2>1 DEF Told, KeysRemembered, KeysOnce, NoneIgnored, Ignored
  <2> QED BY <1>2, <2>1, <2>2 DEF MemberTypeOK
<1>4. CASE ~(Queued(TextOf[i]) \/ KeyOf[i] \in alreadyNotifiedKeys)
  <2>1. notifications' = Append(notifications, notice)
    BY <1>4 DEF AddMessage
  <2>2. alreadyNotifiedKeys' = IF notice.text = NoMessage THEN alreadyNotifiedKeys
                               ELSE alreadyNotifiedKeys \union {KeyOf[notice.of]}
    BY DEF AddMessage, MessageOf
  <2>3. notice.text # NoMessage => KeyOf[notice.of] \notin alreadyNotifiedKeys
    BY <1>4 DEF MessageOf
  <2> HIDE DEF notice
  <2> QED BY <1>1, <1>2, <2>1, <2>2, <2>3, AppendKeeps DEF notice
<1> QED BY <1>3, <1>4

LEMMA AddErrorKeeps ==
  ASSUME MemberTypeOK, Told,
         NEW i \in Item, NEW failure \in Failure, NEW forced \in BOOLEAN,
         AddError(i, failure, forced)
  PROVE  /\ Told' /\ notifications' \in Seq(Notice)
         /\ Len(notifications') \in {Len(notifications), Len(notifications) + 1}
         /\ UNCHANGED <<alreadyNotifiedKeys, raisedToUser, seen>>
         /\ \A n \in 1..Len(notifications') :
              \/ notifications'[n] = ErrorOf(i, failure, forced)
              \/ \E m \in 1..Len(notifications) : notifications'[n] = notifications[m]
<1> DEFINE notice == ErrorOf(i, failure, forced)
<1>1. notice \in Notice /\ UNCHANGED <<alreadyNotifiedKeys, raisedToUser, seen>>
  BY DEF Notice, AddError, ErrorOf
<1>2. CASE Ignored(notice, raisedToUser)
  <2>1. notifications' = notifications
    BY <1>2 DEF AddError
  <2>2. Told'
    BY <1>1, <2>1 DEF Told, KeysRemembered, KeysOnce, NoneIgnored, Ignored
  <2> QED BY <1>1, <2>1, <2>2 DEF MemberTypeOK
<1>3. CASE ~Ignored(notice, raisedToUser)
  <2>1. notifications' = Append(notifications, notice) /\ notice.text = NoMessage
    BY <1>3 DEF AddError, ErrorOf
  <2> HIDE DEF notice
  <2> QED BY <1>1, <1>3, <2>1, AppendKeeps DEF notice
<1> QED BY <1>2, <1>3

\* What is left in the queue when its head is dismissed was there behind it.
LEMMA DismissKeeps ==
  ASSUME MemberTypeOK, Told, Accounted, Dismiss
  PROVE  /\ Told' /\ notifications' \in Seq(Notice)
         /\ Len(notifications') < Len(notifications)
         /\ alreadyNotifiedKeys' = alreadyNotifiedKeys
         /\ raisedToUser' \subseteq Item /\ seen' \subseteq Item \union Message \union Key
         /\ Accounted'
<1> DEFINE removed == Head(notifications)
           rest    == Tail(notifications)
           kept    == {n \in Notice : ~Ignored(n, raisedToUser')}
<1>1. /\ notifications \in Seq(Notice) /\ notifications # << >>
      /\ removed \in Notice /\ removed = notifications[1]
      /\ rest \in Seq(Notice) /\ Len(rest) = Len(notifications) - 1
      /\ \A n \in 1..Len(rest) : rest[n] = notifications[n + 1]
  BY DEF MemberTypeOK, Dismiss
<1>2. /\ notifications' = Filter(rest, kept)
      /\ raisedToUser' = IF removed.text = NoMessage /\ ~removed.own
                           THEN raisedToUser \union {removed.of} ELSE raisedToUser
      /\ seen' = seen \union (IF removed.text = NoMessage THEN {removed.of}
                              ELSE {removed.text, KeyOf[removed.of]})
      /\ alreadyNotifiedKeys' = alreadyNotifiedKeys
  BY DEF Dismiss
<1> HIDE DEF removed, rest, kept
<1>3. /\ notifications' \in Seq(Notice) /\ PartOf(notifications', rest)
      /\ \A i \in 1..Len(notifications') : notifications'[i] \in kept
  BY <1>1, <1>2, FilterElements
<1>4. \A i \in 1..Len(notifications') :
        \E n \in 2..Len(notifications) : notifications[n] = notifications'[i]
  <2> SUFFICES ASSUME NEW i \in 1..Len(notifications')
               PROVE  \E n \in 2..Len(notifications) : notifications[n] = notifications'[i]
    OBVIOUS
  <2>1. PICK n \in 1..Len(rest) : rest[n] = notifications'[i]
    BY <1>3 DEF PartOf
  <2>2. n + 1 \in 2..Len(notifications) /\ notifications[n + 1] = notifications'[i]
    BY <1>1, <2>1
  <2> QED BY <2>2
<1>5. ASSUME NEW i \in 1..Len(notifications'), NEW j \in 1..Len(notifications'), i < j
      PROVE  \E m, n \in 1..Len(notifications) :
               m # n /\ notifications[m] = notifications'[i] /\ notifications[n] = notifications'[j]
  <2>1. PICK m \in 1..Len(rest), n \in 1..Len(rest) :
          m < n /\ rest[m] = notifications'[i] /\ rest[n] = notifications'[j]
    BY <1>3, <1>5 DEF PartOf
  <2>2. /\ m + 1 \in 1..Len(notifications) /\ n + 1 \in 1..Len(notifications) /\ m + 1 # n + 1
        /\ notifications[m + 1] = notifications'[i] /\ notifications[n + 1] = notifications'[j]
    BY <1>1, <2>1
  <2> QED BY <2>2
<1>6. KeyOf[removed.of] \in Key /\ removed.of \in Item /\ removed.of \notin Key
      /\ removed.text \in Message \union {NoMessage}
      /\ (removed.text # NoMessage => removed.text \notin Key)
  BY <1>1, NoticeIs
<1>7. seen' \intersect Key \subseteq
        seen \union (IF removed.text = NoMessage THEN {} ELSE {KeyOf[removed.of]})
  BY <1>2, <1>6
<1>8. KeysRemembered'
  <2>1. removed.text # NoMessage => KeyOf[removed.of] \in alreadyNotifiedKeys
    BY <1>1 DEF Told, KeysRemembered
  <2>2. seen' \intersect Key \subseteq alreadyNotifiedKeys
    BY <1>7, <2>1 DEF Told, KeysRemembered
  <2>3. \A i \in 1..Len(notifications') : notifications'[i].text # NoMessage =>
          KeyOf[notifications'[i].of] \in alreadyNotifiedKeys
    BY <1>4 DEF Told, KeysRemembered
  <2> QED BY <1>2, <2>2, <2>3 DEF KeysRemembered
<1>9. NoneIgnored'
  BY <1>3 DEF NoneIgnored, kept
<1>10. KeysOnce'
  <2>1. ASSUME NEW i \in 1..Len(notifications'), notifications'[i].text # NoMessage
        PROVE  KeyOf[notifications'[i].of] \notin seen'
    <3>1. PICK n \in 2..Len(notifications) : notifications[n] = notifications'[i]
      BY <1>4
    <3>2. KeyOf[notifications[n].of] \notin seen
      BY <2>1, <3>1 DEF Told, KeysOnce
    <3>3. removed.text # NoMessage => KeyOf[notifications[n].of] # KeyOf[removed.of]
      BY <1>1, <2>1, <3>1 DEF Told, KeysOnce
    <3>4. KeyOf[notifications[n].of] \in Key
      BY <1>1, <3>1, NoticeIs
    <3> QED BY <1>7, <3>1, <3>2, <3>3, <3>4
  <2>2. ASSUME NEW i \in 1..Len(notifications'), NEW j \in 1..Len(notifications'), i < j,
               notifications'[i].text # NoMessage, notifications'[j].text # NoMessage
        PROVE  KeyOf[notifications'[i].of] # KeyOf[notifications'[j].of]
    <3>1. PICK m \in 1..Len(notifications), n \in 1..Len(notifications) :
            m # n /\ notifications[m] = notifications'[i] /\ notifications[n] = notifications'[j]
      BY <1>5, <2>2
    <3> QED BY <2>2, <3>1 DEF Told, KeysOnce
  <2>3. \A i, j \in 1..Len(notifications') : i # j => i < j \/ j < i
    BY <1>3
  <2> QED BY <2>1, <2>2, <2>3 DEF KeysOnce
<1>11. raisedToUser' \subseteq Item /\ seen' \subseteq Item \union Message \union Key
  BY <1>2, <1>6 DEF MemberTypeOK
<1>12. UNCHANGED loading
  BY DEF Dismiss
<1>13. \A i : Thrown(i)' <=> Thrown(i)
  BY <1>12 DEF Thrown, loading
<1>14. Accounted'
  <2> SUFFICES ASSUME NEW i \in Item, ~Thrown(i)
               PROVE  /\ i \in seen' => i \in raisedToUser'
                      /\ \A n \in 1..Len(notifications') : ~OwnError(notifications'[n], i)
    BY <1>13 DEF Accounted
  <2>1. \A n \in 1..Len(notifications) : ~OwnError(notifications[n], i)
    BY DEF Accounted
  <2>2. ASSUME i \in seen', i \notin seen PROVE i \in raisedToUser'
    <3>1. removed.text = NoMessage /\ i = removed.of
      BY <1>1, <1>2, <1>6, <2>2, ItemAssumption
    <3>2. ~OwnError(removed, i)
      BY <1>1, <2>1
    <3>3. ~removed.own
      BY <3>1, <3>2, Zenon DEF OwnError
    <3> QED BY <1>2, <3>1, <3>3
  <2>3. raisedToUser \subseteq raisedToUser'
    BY <1>2
  <2>4. \A n \in 1..Len(notifications') : ~OwnError(notifications'[n], i)
    <3>1. \A n \in 1..Len(notifications') :
            \E m \in 1..Len(notifications) : notifications[m] = notifications'[n]
      BY <1>4
    <3> QED BY <2>1, <3>1
  <2> QED BY <2>2, <2>3, <2>4 DEF Accounted
<1> QED BY <1>1, <1>2, <1>3, <1>8, <1>9, <1>10, <1>11, <1>14 DEF Told, PartOf

-----------------------------------------------------------------------------

\* How a call that begins, goes on or ends changes the number of those under way.
LEMMA ActiveChanges ==
  ASSUME MemberTypeOK, NEW c \in Call, NEW call,
         calls' = [calls EXCEPT ![c] = call]
  PROVE  /\ Cardinality(Active) \in Nat /\ Cardinality(Active') \in Nat
         /\ Cardinality(Active') <= Cardinality(Active) + 1
         /\ c \in Active =>
              Cardinality(Active') <= Cardinality(Active)
         /\ c \in Active /\ call = Idle =>
              Cardinality(Active') = Cardinality(Active) - 1
<1> DEFINE active == Active
           after  == Active'
<1>1. IsFiniteSet(active) /\ active \subseteq Call
  <2>1. IsFiniteSet(Call) /\ active \subseteq Call
    BY ItemAssumption DEF Active
  <2> QED BY <2>1, FS_Subset
<1>2. after = IF call = Idle THEN active \ {c} ELSE active \union {c}
  BY DEF MemberTypeOK, Active, Idle
<1> HIDE DEF active, after
<1>3. Cardinality(active) \in Nat
  BY <1>1, FS_CardinalityType
<1>4. Cardinality(active \union {c}) = IF c \in active THEN Cardinality(active) ELSE Cardinality(active) + 1
  BY <1>1, FS_AddElement
<1>5. Cardinality(active \ {c}) = IF c \in active THEN Cardinality(active) - 1 ELSE Cardinality(active)
  BY <1>1, FS_RemoveElement
<1>6. /\ Cardinality(after) \in Nat /\ Cardinality(after) <= Cardinality(active) + 1
      /\ c \in active => Cardinality(after) <= Cardinality(active)
      /\ c \in active /\ call = Idle => Cardinality(after) = Cardinality(active) - 1
  <2>1. CASE call = Idle
    <3>1. c \in active => Cardinality(active) # 0
      BY <1>1, FS_EmptySet
    <3> QED BY <1>2, <1>3, <1>5, <2>1, <3>1
  <2>2. CASE call # Idle
    BY <1>2, <1>3, <1>4, <2>2
  <2> QED BY <2>1, <2>2
<1> QED BY <1>3, <1>6 DEF active, after

LEMMA ActiveFacts ==
  ASSUME MemberTypeOK, NEW c \in Active
  PROVE  c \in Call /\ calls[c].of \in Item /\ calls[c].forced \in BOOLEAN
BY DEF MemberTypeOK, Active

LEMMA SameActive == calls' = calls => Active' = Active
BY DEF Active, Idle

\* An entry that is added to the queue is accounted for if it should be.
LEMMA AccountedKeeps ==
  ASSUME Accounted, \A i \in Item : Thrown(i) => Thrown(i)', NEW notice,
         \A i \in Item : OwnError(notice, i) => Thrown(i)',
         \A n \in 1..Len(notifications') :
           \/ notifications'[n] = notice
           \/ \E m \in 1..Len(notifications) : notifications'[n] = notifications[m],
         UNCHANGED <<raisedToUser, seen>>
  PROVE  Accounted'
<1> SUFFICES ASSUME NEW i \in Item, ~Thrown(i)'
             PROVE  /\ i \in seen' => i \in raisedToUser'
                    /\ \A n \in 1..Len(notifications') : ~OwnError(notifications'[n], i)
  BY DEF Accounted
<1>1. /\ i \in seen => i \in raisedToUser
      /\ \A n \in 1..Len(notifications) : ~OwnError(notifications[n], i)
  BY DEF Accounted
<1>2. ~OwnError(notice, i)
  OBVIOUS
<1> HIDE DEF OwnError
<1> QED BY <1>1, <1>2

\* The queue stays as it is.
LEMMA AccountedStays ==
  ASSUME Accounted, \A i \in Item : Thrown(i) => Thrown(i)',
         UNCHANGED <<notifications, raisedToUser, seen>>
  PROVE  Accounted'
<1> SUFFICES ASSUME NEW i \in Item, ~Thrown(i)'
             PROVE  /\ i \in seen' => i \in raisedToUser'
                    /\ \A n \in 1..Len(notifications') : ~OwnError(notifications'[n], i)
  BY DEF Accounted
<1> QED BY DEF Accounted

LEMMA LoadKeeps ==
  ASSUME MemberInv, NEW c \in Call, NEW i \in Item, NEW forced \in BOOLEAN,
         LoadMapItems(c, i, forced)
  PROVE  MemberInv'
<1> DEFINE call == [of |-> i, forced |-> forced, at |-> "metadata"]
<1>1. /\ calls' = [calls EXCEPT ![c] = call] /\ mapItems' = mapItems
      /\ metadata' = Asked(metadata, i)
      /\ Len(notifications) + Cardinality(Active) <= MaxQueue - 2
  BY DEF LoadMapItems
<1>2. /\ Told' /\ notifications' \in Seq(Notice)
      /\ Len(notifications') \in {Len(notifications), Len(notifications) + 1}
      /\ alreadyNotifiedKeys' \subseteq Key /\ raisedToUser' = raisedToUser /\ seen' = seen
      /\ initialMessageShown' \subseteq Item /\ Accounted'
  <2>0. \A j \in Item : Thrown(j) => Thrown(j)'
    BY <1>1 DEF MemberInv, MemberTypeOK, Asked, Thrown
  <2>1. CASE ShouldShowInitialMessage(i)
    <3>1. AddMessage(i) /\ TextOf[i] # NoMessage
      BY <2>1 DEF LoadMapItems, ShouldShowInitialMessage
    <3>2. initialMessageShown' \subseteq Item
      BY <2>1 DEF LoadMapItems, MemberInv, MemberTypeOK
    <3>4. /\ Told' /\ notifications' \in Seq(Notice)
          /\ Len(notifications') \in {Len(notifications), Len(notifications) + 1}
          /\ alreadyNotifiedKeys' \subseteq Key /\ raisedToUser' = raisedToUser /\ seen' = seen
          /\ \A n \in 1..Len(notifications') :
               \/ notifications'[n] = MessageOf(i)
               \/ \E m \in 1..Len(notifications) : notifications'[n] = notifications[m]
      BY <3>1, AddMessageKeeps DEF MemberInv
    <3>5. \A j \in Item : ~OwnError(MessageOf(i), j)
      BY <3>1 DEF MessageOf, OwnError
    <3>6. Accounted'
      BY <2>0, <3>4, <3>5, AccountedKeeps DEF MemberInv
    <3> QED BY <3>2, <3>4, <3>6
  <2>2. CASE ~ShouldShowInitialMessage(i)
    <3>1. UNCHANGED <<notifications, alreadyNotifiedKeys, raisedToUser, seen, initialMessageShown>>
      BY <2>2 DEF LoadMapItems, telling
    <3>2. Told'
      BY <3>1 DEF MemberInv, Told, KeysRemembered, KeysOnce, NoneIgnored, Ignored
    <3>3. Accounted'
      BY <2>0, <3>1, AccountedStays DEF MemberInv
    <3> QED BY <3>1, <3>2, <3>3 DEF MemberInv, MemberTypeOK
  <2> QED BY <2>1, <2>2
<1>3. metadata' \in [Item -> Loader] /\ MetadataFirst'
  BY <1>1 DEF MemberInv, MemberTypeOK, MetadataFirst, Asked, Loader
<1>4. /\ calls' \in [Call -> [of : Item \union {NoItem}, forced : BOOLEAN,
                              at : {"metadata", "mapItems"}]]
      /\ \A d \in Active' : calls'[d].of \in Item
  BY <1>1 DEF MemberInv, MemberTypeOK, Active, Idle
<1>5. Len(notifications') + Cardinality(Active') <= MaxQueue
  <2>1. /\ Cardinality(Active) \in Nat /\ Cardinality(Active') \in Nat
        /\ Cardinality(Active') <= Cardinality(Active) + 1
    BY <1>1, ActiveChanges DEF MemberInv
  <2>2. Len(notifications) \in Nat /\ MaxQueue \in Nat
    BY ItemAssumption DEF MemberInv, MemberTypeOK
  <2> QED BY <1>1, <1>2, <2>1, <2>2
<1> QED BY <1>1, <1>2, <1>3, <1>4, <1>5 DEF MemberInv, MemberTypeOK

\* A call that goes on or ends, with an error or without one.
LEMMA ReturnKeeps ==
  ASSUME MemberInv, NEW c \in Call, Returns(c)
  PROVE  MemberInv'
<1> DEFINE i == calls[c].of
<1>1. c \in Active /\ i \in Item /\ calls[c].forced \in BOOLEAN
  <2>1. c \in Active
    BY DEF Returns, MetadataReturn, MapItemsReturn
  <2> QED BY <2>1, ActiveFacts DEF MemberInv
<1>2. metadata' = metadata /\ initialMessageShown' = initialMessageShown
  BY DEF Returns, MetadataReturn, MapItemsReturn, loading
<1>3. mapItems' \in [Item -> Loader] /\ MetadataFirst'
  <2>1. mapItems' = mapItems \/ (metadata[i] = "loaded" /\ mapItems' = Asked(mapItems, i))
    <3>1. CASE MetadataReturn(c)
      BY <3>1 DEF MetadataReturn
    <3>2. CASE MapItemsReturn(c)
      BY <3>2 DEF MapItemsReturn, loading
    <3> QED BY <3>1, <3>2 DEF Returns
  <2> QED BY <1>1, <1>2, <2>1 DEF MemberInv, MemberTypeOK, MetadataFirst, Asked, Loader
<1>4. \/ calls' = [calls EXCEPT ![c].at = "mapItems"] /\ UNCHANGED telling
      \/ /\ calls' = [calls EXCEPT ![c] = Idle]
         /\ \/ UNCHANGED telling
            \/ \E failure \in Failure : /\ failure \in {metadata[i], mapItems[i]}
                                       /\ AddError(i, failure, calls[c].forced)
  BY DEF Returns, MetadataReturn, MapItemsReturn
<1>0. \A j \in Item : Thrown(j) => Thrown(j)'
  <2>1. mapItems' = mapItems \/ mapItems' = Asked(mapItems, i)
    BY DEF Returns, MetadataReturn, MapItemsReturn, loading
  <2> QED BY <1>1, <1>2, <2>1 DEF MemberInv, MemberTypeOK, Asked, Thrown
<1>5. CASE UNCHANGED telling
  <2>1. UNCHANGED <<notifications, alreadyNotifiedKeys, raisedToUser, seen>>
    BY <1>5 DEF telling
  <2>2. Told'
    BY <2>1 DEF MemberInv, Told, KeysRemembered, KeysOnce, NoneIgnored, Ignored
  <2>0. Accounted'
    BY <1>0, <2>1, AccountedStays DEF MemberInv
  <2>3. PICK call : /\ calls' = [calls EXCEPT ![c] = call]
                    /\ call = Idle \/ call = [calls[c] EXCEPT !.at = "mapItems"]
    BY <1>4
  <2>4. /\ calls' \in [Call -> [of : Item \union {NoItem}, forced : BOOLEAN,
                                at : {"metadata", "mapItems"}]]
        /\ \A d \in Active' : calls'[d].of \in Item
    <3>1. calls[c] \in [of : Item \union {NoItem}, forced : BOOLEAN, at : {"metadata", "mapItems"}]
      BY <1>1, ActiveFacts DEF MemberInv, MemberTypeOK
    <3>2. call \in [of : Item \union {NoItem}, forced : BOOLEAN, at : {"metadata", "mapItems"}]
      <4>1. CASE call = Idle
        BY <4>1 DEF Idle
      <4>2. CASE call = [calls[c] EXCEPT !.at = "mapItems"]
        BY <3>1, <4>2
      <4> QED BY <2>3, <4>1, <4>2
    <3>3. call = Idle \/ call.of \in Item
      BY <1>1, <2>3, <3>1
    <3> QED BY <1>1, <2>3, <3>2, <3>3 DEF MemberInv, MemberTypeOK, Active, Idle
  <2>5. Cardinality(Active') \in Nat /\ Cardinality(Active) \in Nat
        /\ Cardinality(Active') <= Cardinality(Active)
    BY <1>1, <2>3, ActiveChanges DEF MemberInv
  <2>6. Len(notifications') + Cardinality(Active') <= MaxQueue
    BY <2>1, <2>5, ItemAssumption DEF MemberInv, MemberTypeOK
  <2> QED BY <1>2, <1>3, <2>0, <2>1, <2>2, <2>4, <2>6 DEF MemberInv, MemberTypeOK
<1>6. ASSUME NEW failure \in Failure, failure \in {metadata[i], mapItems[i]},
             calls' = [calls EXCEPT ![c] = Idle], AddError(i, failure, calls[c].forced)
      PROVE  MemberInv'
  <2> DEFINE notice == ErrorOf(i, failure, calls[c].forced)
  <2>1. /\ Told' /\ notifications' \in Seq(Notice)
        /\ Len(notifications') \in {Len(notifications), Len(notifications) + 1}
        /\ UNCHANGED <<alreadyNotifiedKeys, raisedToUser, seen>>
        /\ \A n \in 1..Len(notifications') :
             \/ notifications'[n] = notice
             \/ \E m \in 1..Len(notifications) : notifications'[n] = notifications[m]
    BY <1>1, <1>6, AddErrorKeeps DEF MemberInv
  <2>0. Accounted'
    <3>1. ASSUME NEW j \in Item, OwnError(notice, j) PROVE Thrown(j)'
      <4>1. failure = "thrown" /\ j = i
        BY <3>1 DEF OwnError, ErrorOf
      <4>2. Thrown(i)
        BY <1>6, <4>1 DEF Thrown
      <4> QED BY <1>0, <1>1, <4>1, <4>2
    <3> HIDE DEF notice
    <3> QED BY <1>0, <2>1, <3>1, AccountedKeeps DEF MemberInv
  <2>2. /\ calls' \in [Call -> [of : Item \union {NoItem}, forced : BOOLEAN,
                                at : {"metadata", "mapItems"}]]
        /\ \A d \in Active' : calls'[d].of \in Item
    BY <1>1, <1>6 DEF MemberInv, MemberTypeOK, Active, Idle
  <2>3. Cardinality(Active') \in Nat /\ Cardinality(Active) \in Nat
        /\ Cardinality(Active') = Cardinality(Active) - 1
    BY <1>1, <1>6, ActiveChanges DEF MemberInv
  <2>4. Len(notifications') + Cardinality(Active') <= MaxQueue
    BY <2>1, <2>3, ItemAssumption DEF MemberInv, MemberTypeOK
  <2> QED BY <1>2, <1>3, <2>0, <2>1, <2>2, <2>4 DEF MemberInv, MemberTypeOK
<1> QED BY <1>4, <1>5, <1>6

\* A loader that settles, and a notification that is dismissed, leave the calls alone.
LEMMA MemberOthersKeep ==
  ASSUME MemberInv,
         Dismiss \/ (\E i \in Item : Settles(i)) \/ UNCHANGED memberVars
  PROVE  MemberInv'
<1>1. /\ calls' = calls /\ initialMessageShown' = initialMessageShown /\ Active' = Active
      /\ Cardinality(Active) \in Nat
  <2>1. calls' = calls /\ initialMessageShown' = initialMessageShown
    BY DEF Dismiss, Settles, MetadataSettles, MapItemsSettle, memberVars
  <2>2. IsFiniteSet(Call) /\ Active \subseteq Call
    BY ItemAssumption DEF Active
  <2>3. Cardinality(Active) \in Nat
    BY <2>2, FS_Subset, FS_CardinalityType
  <2> QED BY <2>1, <2>3, SameActive
<1>2. /\ metadata' \in [Item -> Loader] /\ mapItems' \in [Item -> Loader]
      /\ MetadataFirst'
  <2>1. CASE \E i \in Item : Settles(i)
    BY <2>1 DEF MemberInv, MemberTypeOK, MetadataFirst, Loader, Failure, Settled, Settles,
                MetadataSettles, MapItemsSettle
  <2>2. CASE Dismiss \/ UNCHANGED memberVars
    BY <2>2 DEF MemberInv, MemberTypeOK, MetadataFirst, Dismiss, memberVars, loading
  <2> QED BY <2>1, <2>2
<1>3. CASE Dismiss
  <2>1. /\ Told' /\ notifications' \in Seq(Notice)
        /\ Len(notifications') < Len(notifications) /\ alreadyNotifiedKeys' = alreadyNotifiedKeys
        /\ raisedToUser' \subseteq Item /\ seen' \subseteq Item \union Message \union Key
        /\ Accounted'
    BY <1>3, DismissKeeps DEF MemberInv
  <2>2. Len(notifications') + Cardinality(Active') <= MaxQueue
    BY <1>1, <2>1, ItemAssumption DEF MemberInv, MemberTypeOK
  <2> QED BY <1>1, <1>2, <2>1, <2>2 DEF MemberInv, MemberTypeOK
<1>4. CASE ~Dismiss
  <2>1. UNCHANGED <<notifications, alreadyNotifiedKeys, raisedToUser, seen>>
    BY <1>4 DEF Settles, MetadataSettles, MapItemsSettle, memberVars, telling
  <2>2. Told'
    BY <2>1 DEF MemberInv, Told, KeysRemembered, KeysOnce, NoneIgnored, Ignored
  <2>3. \A j \in Item : Thrown(j) => Thrown(j)'
    <3>1. CASE \E i \in Item : Settles(i)
      BY <3>1 DEF MemberInv, MemberTypeOK, Thrown, Settles, MetadataSettles, MapItemsSettle
    <3>2. CASE UNCHANGED memberVars
      BY <3>2 DEF Thrown, memberVars, loading
    <3> QED BY <1>4, <3>1, <3>2
  <2>4. Accounted'
    BY <2>1, <2>3, AccountedStays DEF MemberInv
  <2> QED BY <1>1, <1>2, <2>1, <2>2, <2>4 DEF MemberInv, MemberTypeOK
<1> QED BY <1>3, <1>4

LEMMA MemberInitHolds == ASSUME MemberInit PROVE MemberInv
<1>1. Active = {} /\ Cardinality(Active) = 0
  <2>1. Active = {}
    BY DEF MemberInit, Active
  <2> QED BY <2>1, FS_EmptySet
<1>2. MemberTypeOK
  BY <1>1, ItemAssumption DEF MemberInit, MemberTypeOK, Loader, Idle
<1> QED BY <1>2 DEF MemberInit, MemberInv, MetadataFirst, Told, KeysRemembered, KeysOnce,
                    NoneIgnored, Accounted

LEMMA MemberInductive ==
  ASSUME MemberInv, [MemberNext]_memberVars
  PROVE  MemberInv'
BY LoadKeeps, ReturnKeeps, MemberOthersKeep DEF MemberNext

LEMMA MemberAlways == MemberSpec => []MemberInv
<1>1. MemberInit => MemberInv
  BY MemberInitHolds
<1>2. MemberInv /\ [MemberNext]_memberVars => MemberInv'
  BY MemberInductive
<1> QED BY <1>1, <1>2, PTL DEF MemberSpec

\* The state of loaders, calls and notifications has its types, and a call only begins
\* while the queue has room for what it may say.
THEOREM MemberTypeCorrect == MemberSpec => []MemberTypeOK
<1>1. MemberInv => MemberTypeOK
  BY DEF MemberInv
<1> QED BY <1>1, MemberAlways, PTL

\* Map items are only loaded of an item whose metadata have loaded, for any calls.
THEOREM MetadataComesFirst == MemberSpec => []MetadataFirst
<1>1. MemberInv => MetadataFirst
  BY DEF MemberInv
<1> QED BY <1>1, MemberAlways, PTL

\* No two messages in the queue have the same key, and none has that of one dismissed.
THEOREM KeyAddedOnce == MemberSpec => []KeysOnce
<1>1. MemberInv => KeysOnce
  BY DEF MemberInv, Told
<1> QED BY <1>1, MemberAlways, PTL

\* The TerriaError of a load, once the user has dismissed it for one caller, is nowhere in
\* the queue for another, unless it is forced.
THEOREM DismissedStaysGone == MemberSpec => []DismissedIsGone
<1>1. MemberInv => DismissedIsGone
  <2> SUFFICES ASSUME MemberInv, NEW n \in 1..Len(notifications),
                      notifications[n].text = NoMessage, ~notifications[n].forced,
                      notifications[n].of \in seen
               PROVE  Thrown(notifications[n].of)
    BY DEF DismissedIsGone
  <2>1. notifications[n].of \in Item
    <3>1. notifications[n] \in Notice
      BY DEF MemberInv, MemberTypeOK
    <3> QED BY <3>1, NoticeIs
  <2>2. ASSUME NEW i \in Item, notifications[n].of = i, ~Thrown(i) PROVE FALSE
    <3>1. ~OwnError(notifications[n], i) /\ i \in raisedToUser
      BY <2>2 DEF MemberInv, Accounted
    <3>2. ~notifications[n].own
      BY <2>2, <3>1, Zenon DEF OwnError
    <3> QED BY <2>2, <3>1, <3>2 DEF MemberInv, Told, NoneIgnored, Ignored
  <2> QED BY <2>1, <2>2
<1> QED BY <1>1, MemberAlways, PTL

=============================================================================
