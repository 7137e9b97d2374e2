---------------------------- MODULE CatalogMember ----------------------------
(***************************************************************************)
(* lib/ModelMixins/MappableMixin.ts and CatalogMemberMixin.ts: the         *)
(* metadata and the map items of catalogue items, loaded one after the     *)
(* other; and what the user is told meanwhile, by NotificationState.ts:    *)
(* initial messages, and the errors of loads, by TerriaError.ts.           *)
(*                                                                         *)
(* Each loader is an AsyncLoader none of whose dependencies change: one    *)
(* load, whose promise all callers share.  If it rejects with a            *)
(* TerriaError, every caller wraps that one in an error of its own:        *)
(* dismissing any of these marks it as raised, and the others are then     *)
(* ignored, unless they are forced.  Of anything else it rejects with,     *)
(* such as the error of a request, every caller makes a TerriaError of its *)
(* own, which has nothing in common with those of the others.              *)
(***************************************************************************)
EXTENDS FiniteSetsExt, ListOps

CONSTANTS
  Item,
  NoItem,
  Message,   \* the texts of initial messages
  NoMessage,
  TextOf,    \* the initial message of each item, or NoMessage
  Key,
  KeyOf,     \* its key
  Call,      \* calls of loadMapItems() that are not over
  MaxQueue   \* bound: notifications in the queue and calls that may add one

ASSUME ItemAssumption ==
  /\ NoItem \notin Item /\ NoMessage \notin Message
  /\ TextOf \in [Item -> Message \union {NoMessage}] /\ KeyOf \in [Item -> Key]
  /\ Item \intersect Message = {} /\ Key \intersect (Item \union Message) = {}
  /\ IsFiniteSet(Call) /\ MaxQueue \in Nat

VARIABLES
  metadata,             \* the loaders of metadata
  mapItems,             \* and of map items
  calls,                \* the calls of loadMapItems() and what each waits for
  initialMessageShown,  \* the items with that flag
  notifications,        \* the queue
  alreadyNotifiedKeys,
  raisedToUser,         \* the items whose TerriaError, that callers share, is marked so
  seen                  \* history: the messages and errors dismissed, and the keys of messages

loading    == <<metadata, mapItems>>
telling    == <<notifications, alreadyNotifiedKeys, raisedToUser, seen>>
memberVars == <<loading, calls, initialMessageShown, telling>>

\* A load fails with a TerriaError, or with something else that it throws.
Failure == {"failed", "thrown"}
Settled == {"loaded"} \union Failure
Loader  == {"unloaded", "loading"} \union Settled

\* Either the initial message of an item, with a key, or an error of its loads, which has
\* a TerriaError in common with those of other callers or is the caller's own.
Notice == [of : Item, text : Message, forced : {FALSE}, own : {FALSE}]
            \union [of : Item, text : {NoMessage}, forced : BOOLEAN, own : BOOLEAN]

Idle == [of |-> NoItem, forced |-> FALSE, at |-> "metadata"]

Active == {c \in Call : calls[c] # Idle}

MemberTypeOK ==
  /\ metadata \in [Item -> Loader] /\ mapItems \in [Item -> Loader]
  /\ calls \in [Call -> [of : Item \union {NoItem}, forced : BOOLEAN,
                     at : {"metadata", "mapItems"}]]
  /\ initialMessageShown \subseteq Item
  /\ notifications \in Seq(Notice)
  /\ \A c \in Active : calls[c].of \in Item
  /\ Len(notifications) + Cardinality(Active) <= MaxQueue
  /\ alreadyNotifiedKeys \subseteq Key /\ raisedToUser \subseteq Item
  /\ seen \subseteq Item \union Message \union Key

-----------------------------------------------------------------------------
(* NotificationState *)

Queued(text) == \E n \in 1..Len(notifications) : notifications[n].text = text

\* Of an error: !shouldRaiseToUser.  A message is never ignored, and an error of the
\* caller's own is only marked as raised when it leaves the queue itself.
Ignored(notice, raised) ==
  /\ notice.text = NoMessage /\ ~notice.forced /\ ~notice.own
  /\ notice.of \in raised

MessageOf(i) == [of |-> i, text |-> TextOf[i], forced |-> FALSE, own |-> FALSE]

\* Mutant: the key is remembered when the message is dismissed.
AddMessageForgetting(i) ==
  /\ notifications' = IF Queued(TextOf[i]) \/ KeyOf[i] \in alreadyNotifiedKeys THEN notifications
                      ELSE Append(notifications, MessageOf(i))
  /\ UNCHANGED <<alreadyNotifiedKeys, raisedToUser, seen>>

\* addNotificationToQueue() of a message: a key is remembered in any case.
AddMessage(i) ==
  /\ notifications' = IF Queued(TextOf[i]) \/ KeyOf[i] \in alreadyNotifiedKeys THEN notifications
                      ELSE Append(notifications, MessageOf(i))
  /\ alreadyNotifiedKeys' = alreadyNotifiedKeys \union {KeyOf[i]}
  /\ UNCHANGED <<raisedToUser, seen>>

\* TerriaError.from(): what a load rejected with is a TerriaError already, or the caller
\* makes one of it.
ErrorOf(i, failure, forced) ==
  [of |-> i, text |-> NoMessage, forced |-> forced, own |-> failure = "thrown"]

\* addNotificationToQueue() of an error: it has no key and is never equal to another.
AddError(i, failure, forced) ==
  LET notice == ErrorOf(i, failure, forced) IN
  /\ notifications' = IF Ignored(notice, raisedToUser) THEN notifications
                      ELSE Append(notifications, notice)
  /\ UNCHANGED <<alreadyNotifiedKeys, raisedToUser, seen>>

\* Mutant: what is ignored is removed before the user's answer is known.
DismissEarly ==
  /\ notifications # << >>
  /\ LET removed == Head(notifications)
         error   == removed.text = NoMessage
     IN  /\ raisedToUser' = IF error /\ ~removed.own THEN raisedToUser \union {removed.of}
                            ELSE raisedToUser
         /\ notifications' = Filter(Tail(notifications), {n \in Notice : ~Ignored(n, raisedToUser)})
         /\ seen' = seen \union (IF error THEN {removed.of} ELSE {removed.text, KeyOf[removed.of]})
  /\ UNCHANGED <<loading, calls, initialMessageShown, alreadyNotifiedKeys>>

\* Mutant: what has no ignore is taken for something to be ignored.
DismissMessages ==
  /\ notifications # << >>
  /\ LET removed == Head(notifications)
         error   == removed.text = NoMessage
     IN  /\ raisedToUser' = IF error /\ ~removed.own THEN raisedToUser \union {removed.of}
                            ELSE raisedToUser
         /\ notifications' =
              Filter(Tail(notifications),
                     {n \in Notice : n.text = NoMessage /\ ~Ignored(n, raisedToUser')})
         /\ seen' = seen \union (IF error THEN {removed.of} ELSE {removed.text, KeyOf[removed.of]})
  /\ UNCHANGED <<loading, calls, initialMessageShown, alreadyNotifiedKeys>>

\* dismissCurrentNotification(): onDismiss marks an error as raised, and those that are
\* to be ignored now are removed.
Dismiss ==
  /\ notifications # << >>
  /\ LET removed == Head(notifications)
         error   == removed.text = NoMessage
     IN  /\ raisedToUser' = IF error /\ ~removed.own THEN raisedToUser \union {removed.of}
                            ELSE raisedToUser
         /\ notifications' =
              Filter(Tail(notifications), {n \in Notice : ~Ignored(n, raisedToUser')})
         /\ seen' = seen \union (IF error THEN {removed.of} ELSE {removed.text, KeyOf[removed.of]})
  /\ UNCHANGED <<loading, calls, initialMessageShown, alreadyNotifiedKeys>>

-----------------------------------------------------------------------------
(* loadMapItems *)

\* AsyncLoader.load(): a loader loads once.
Asked(loader, i) == [loader EXCEPT ![i] = IF @ = "unloaded" THEN "loading" ELSE @]

ShouldShowInitialMessage(i) == TextOf[i] # NoMessage /\ i \notin initialMessageShown

\* loadMapItems() up to its first await.  The user looks at an item, or puts it on the
\* map: then its errors are forced upon him.
LoadMapItems(c, i, forced) ==
  /\ calls[c] = Idle
  /\ Len(notifications) + Cardinality(Active) <= MaxQueue - 2
  /\ calls' = [calls EXCEPT ![c] = [of |-> i, forced |-> forced, at |-> "metadata"]]
  /\ IF ShouldShowInitialMessage(i)
       THEN AddMessage(i) /\ initialMessageShown' = initialMessageShown \union {i}
       ELSE UNCHANGED <<telling, initialMessageShown>>
  /\ metadata' = Asked(metadata, i)
  /\ UNCHANGED mapItems

\* A loader's promise is settled.
MetadataSettles(i, state) ==
  /\ metadata[i] = "loading"
  /\ metadata' = [metadata EXCEPT ![i] = state]
  /\ UNCHANGED <<mapItems, calls, initialMessageShown, telling>>

MapItemsSettle(i, state) ==
  /\ mapItems[i] = "loading"
  /\ mapItems' = [mapItems EXCEPT ![i] = state]
  /\ UNCHANGED <<metadata, calls, initialMessageShown, telling>>

\* Mutant: the map items are loaded even if the metadata are not.
MetadataReturnAnyway(c) ==
  LET i == calls[c].of IN
  /\ c \in Active /\ calls[c].at = "metadata"
  /\ metadata[i] \in Settled
  /\ calls' = [calls EXCEPT ![c].at = "mapItems"]
  /\ mapItems' = Asked(mapItems, i)
  /\ UNCHANGED telling
  /\ UNCHANGED <<metadata, initialMessageShown>>

\* loadMetadata() has returned: its error ends the call.
MetadataReturn(c) ==
  LET i == calls[c].of IN
  /\ c \in Active /\ calls[c].at = "metadata"
  /\ \/ /\ metadata[i] = "loaded"
        /\ calls' = [calls EXCEPT ![c].at = "mapItems"]
        /\ mapItems' = Asked(mapItems, i)
        /\ UNCHANGED telling
     \/ /\ metadata[i] \in Failure
        /\ calls' = [calls EXCEPT ![c] = Idle]
        /\ AddError(i, metadata[i], calls[c].forced)
        /\ UNCHANGED mapItems
  /\ UNCHANGED <<metadata, initialMessageShown>>

\* The map items have loaded, or the call ends with their error.
MapItemsReturn(c) ==
  LET i == calls[c].of IN
  /\ c \in Active /\ calls[c].at = "mapItems"
  /\ mapItems[i] \in Settled
  /\ calls' = [calls EXCEPT ![c] = Idle]
  /\ IF mapItems[i] \in Failure THEN AddError(i, mapItems[i], calls[c].forced)
                                 ELSE UNCHANGED telling
  /\ UNCHANGED <<loading, initialMessageShown>>

-----------------------------------------------------------------------------
(* The specification *)

MemberInit ==
  /\ metadata = [i \in Item |-> "unloaded"] /\ mapItems = [i \in Item |-> "unloaded"]
  /\ calls = [c \in Call |-> Idle]
  /\ initialMessageShown = {} /\ notifications = << >>
  /\ alreadyNotifiedKeys = {} /\ raisedToUser = {} /\ seen = {}

Settles(i) == \E state \in Settled : MetadataSettles(i, state) \/ MapItemsSettle(i, state)

Returns(c) == MetadataReturn(c) \/ MapItemsReturn(c)

MemberNext ==
  \/ Dismiss
  \/ \E c \in Call : Returns(c) \/ \E i \in Item, forced \in BOOLEAN : LoadMapItems(c, i, forced)
  \/ \E i \in Item : Settles(i)

MemberSpec == MemberInit /\ [][MemberNext]_memberVars

\* Loads end, and the user dismisses what he is shown.
MemberFairness ==
  /\ WF_memberVars(Dismiss)
  /\ \A c \in Call : WF_memberVars(Returns(c))
  /\ \A i \in Item : WF_memberVars(Settles(i))

MemberFairSpec == MemberSpec /\ MemberFairness

-----------------------------------------------------------------------------
(* Properties *)

\* "It is guaranteed that `loadMetadata` has finished before this is called"
\* (MappableMixin.ts:199), whichever call comes first and whatever fails.
MetadataFirst == \A i \in Item : mapItems[i] # "unloaded" => metadata[i] = "loaded"

\* "Notifications with the same key will only be added once" (NotificationState.ts:26):
\* once a message has been dismissed none with its key is in the queue, and at most one
\* is before.
KeysOnce ==
  \A n \in 1..Len(notifications) :
    notifications[n].text # NoMessage =>
      /\ KeyOf[notifications[n].of] \notin seen
      /\ \A m \in 1..Len(notifications) :
           m # n /\ notifications[m].text # NoMessage
             => KeyOf[notifications[m].of] # KeyOf[notifications[n].of]

\* A load has rejected with something that is no TerriaError.
Thrown(i) == "thrown" \in {metadata[i], mapItems[i]}

\* However many calls fail with the TerriaError of one load, once the user has dismissed it
\* for any of them it is not in the queue for another, unless it is forced upon him.
DismissedIsGone ==
  \A n \in 1..Len(notifications) :
    LET notice == notifications[n] IN
    notice.text = NoMessage /\ ~notice.forced /\ notice.of \in seen => Thrown(notice.of)

\* The user sees the text of an initial message, or that of an item with the same key,
\* although other items are loaded, and fail, while it waits in the queue.
TextsSeen ==
  \A i \in Item :
    i \in initialMessageShown ~>
      \E j \in initialMessageShown : (j = i \/ KeyOf[j] = KeyOf[i]) /\ TextOf[j] \in seen

\* "Notifications with the same key will only be added once" (NotificationState.ts:26),
\* but once: with a message's own text or key the user does see one.
KeysSeen ==
  \A i \in Item : i \in initialMessageShown ~> TextOf[i] \in seen \/ KeyOf[i] \in seen

\* "Don't show TerriaError Notification if shouldRaiseToUser is false, or we have already
\* raisedToUser" (TerriaError.ts:339), for whatever a load rejects with,
DismissedWhateverThrown ==
  \A n \in 1..Len(notifications) :
    LET notice == notifications[n] IN
    notice.text = NoMessage /\ ~notice.forced => notice.of \notin seen

\* and for errors that are forced too.
RaisedOnce ==
  \A n \in 1..Len(notifications) :
    LET notice == notifications[n] IN
    notice.text = NoMessage /\ ~Thrown(notice.of) => notice.of \notin seen

=============================================================================
