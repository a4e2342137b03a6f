------------------------------- MODULE BookFeed -------------------------------
(***************************************************************************)
(* stream_orderbook() and the message parser of one connector, from the    *)
(* venue's book to the program's copy of it: the subscription, the         *)
(* messages on their way, lost connections and the reconnects.  What a     *)
(* venue sends is external, and as the parsers expect it: Bybit, Kraken    *)
(* and Lighter answer a subscription with a snapshot and go on with        *)
(* deltas, Hyperliquid sends whole books, dYdX sends the book in a         *)
(* "subscribed" message, and Binance's stream has deltas only.  The book   *)
(* of a venue is the part of it the feed subscribes to.                    *)
(***************************************************************************)
EXTENDS OrderBook

CONSTANTS
  FeedKinds,   \* the connectors to consider
  VenueBooks,  \* books a venue may have when the program starts
  Updates,     \* changes a venue may send: [Sides -> price |-> quantity]
  MaxChanges,  \* bound: changes of the venue's book
  MaxLosses    \* bound: lost connections

\* The books of a venue
Books == [Sides -> [Prices -> Nat]]

ASSUME FeedAssumption ==
  /\ VenueBooks \subseteq Books
  /\ \A ups \in Updates : IsUpdate(ups)
  /\ MaxChanges \in Nat /\ MaxLosses \in Nat

VARIABLES
  kind,     \* the connector
  venue,    \* the venue's book: [Sides -> [Prices -> Nat]]
  link,     \* the connection: "down", "up", or a Fate of the feed task
  channel,  \* messages sent and not yet handled
  book,     \* the program's OrderBook
  unsent,   \* levels whose last change no message of this connection carried
  wiped,    \* levels a delta taken for a snapshot removed
  changes, losses

vars == <<kind, venue, link, channel, book, unsent, wiped, changes, losses>>

\* The feed task ended: over a message, or over a connection that failed.
Fates == {"crashed", "refused"}

Level == Sides \X Prices

LevelsOf(ups) == {l \in Level : l[2] \in DOMAIN ups[l[1]]}

\* A message with no level on either side
Empty(ups) == LevelsOf(ups) = {}

\* The venue's book v after the update ups, and v as an update
Changed(v, ups) ==
  [side \in Sides |-> [p \in Prices |-> IF p \in DOMAIN ups[side] THEN ups[side][p] ELSE v[side][p]]]

Whole(v) == [side \in Sides |-> [p \in {q \in Prices : v[side][q] # 0} |-> v[side][p]]]

\* The dicts of the program's copy
Copied == [side \in Sides |-> book[side].levels]

\* "both" is a change in a channel_data message of dYdX that has the keys
\* bids and asks, whatever their lists hold.
MessageTypes == {"snapshot", "delta", "both", "subscribed"}

\* A message; shows is the venue's book at the moment it was sent.
Message(type, ups, shows) == [type |-> type, ups |-> ups, shows |-> shows]

-----------------------------------------------------------------------------
\* The venue

\* What it sends first to a subscriber
Opening ==
  CASE kind = "binance" -> <<>>
    [] kind = "dydx"    -> <<Message("subscribed", Whole(venue), venue)>>
    [] OTHER            -> <<Message("snapshot", Whole(venue), venue)>>

\* The levels of an update that only leave the depth Kraken's feed asks for,
\* pushed out by a better one: the venue leaves them to the client.
PushedOut(ups) ==
  {l \in LevelsOf(ups) :
     /\ ups[l[1]][l[2]] = 0
     /\ \E p \in DOMAIN ups[l[1]] : ups[l[1]][p] # 0 /\ Better(l[1], p, l[2])}

Without(ups, out) ==
  [side \in Sides |->
     [p \in {q \in DOMAIN ups[side] : <<side, q>> \notin out} |-> ups[side][p]]]

\* What it may send of a change
Sent(ups) ==
  CASE kind = "hyperliquid" -> {Message("snapshot", Whole(venue'), venue')}
    [] kind = "kraken"      -> {Message("delta", Without(ups, out), venue') : out \in SUBSET PushedOut(ups)}
    [] kind = "dydx"        -> {Message(type, ups, venue') : type \in {"delta", "both"}}
    [] OTHER                -> {Message("delta", ups, venue')}

Init ==
  /\ kind \in FeedKinds
  /\ venue \in VenueBooks
  /\ link = "down"
  /\ channel = <<>>
  /\ book = EmptyBook
  /\ unsent = LevelsOf(Whole(venue))
  /\ wiped = {}
  /\ changes = 0 /\ losses = 0

Change(ups) ==
  /\ changes < MaxChanges /\ changes' = changes + 1
  /\ venue' = Changed(venue, ups)
  /\ IF link = "up"
       THEN \E msg \in Sent(ups) :
              /\ channel' = Append(channel, msg)
              /\ unsent' = IF msg.type = "snapshot" THEN {}
                           ELSE (unsent \cup LevelsOf(ups)) \ LevelsOf(msg.ups)
       ELSE /\ channel' = channel
            /\ unsent' = unsent \cup LevelsOf(ups)
  /\ UNCHANGED <<kind, link, book, wiped, losses>>

-----------------------------------------------------------------------------
\* The parser: _handle_msg, _handle_depth_msg

\* Mutant: a message must touch both sides to be pushed.
IgnoresOneSided(msg) ==
  \/ \E side \in Sides : DOMAIN msg.ups[side] = {}
  \/ kind = "dydx" /\ msg.type = "subscribed"

\* Nothing is pushed: `if bids or asks`, and the types dYdX's parser passes.
Ignores(msg) ==
  \/ kind \in {"binance", "lighter", "dydx"} /\ Empty(msg.ups)
  \/ kind = "dydx" /\ msg.type = "subscribed"

\* Mutant: every parser looks for both lists, as dYdX's does, and the other
\* venues' messages always have both.
SnapshotByKeys(msg) == kind # "dydx" \/ msg.type = "both"

\* is_snapshot: by the message's type, always for Hyperliquid, and for dYdX
\* by the presence of both keys in a channel_data message.
IsSnapshot(msg) == msg.type = IF kind = "dydx" THEN "both" ELSE "snapshot"

\* The next message reaches handle_update.
Deliver ==
  /\ link = "up" /\ channel # <<>>
  /\ LET msg == Head(channel)
     IN  \/ /\ Ignores(msg)
            /\ UNCHANGED <<book, wiped>>
         \/ /\ ~Ignores(msg) /\ IsSnapshot(msg)
            /\ book' = SnapshotBook(book, msg.ups)
            /\ wiped' = IF msg.type = "snapshot" THEN {} ELSE (wiped \cup Level) \ LevelsOf(msg.ups)
         \/ /\ ~Ignores(msg) /\ ~IsSnapshot(msg)
            /\ book' = DeltaBook(book, msg.ups)
            /\ wiped' = wiped \ LevelsOf(msg.ups)
  /\ channel' = Tail(channel)
  /\ UNCHANGED <<kind, venue, link, unsent, changes, losses>>

-----------------------------------------------------------------------------
\* The connection

\* Mutant: the feed connects once.
ConnectOnce ==
  /\ link = "down" /\ losses = 0
  /\ link' = "up"
  /\ channel' = Opening
  /\ unsent' = IF kind \in {"binance", "dydx"} THEN unsent ELSE {}
  /\ UNCHANGED <<kind, venue, book, wiped, changes, losses>>

\* The connection opens and the feed subscribes: `async for ws in connect()`
\* goes on to the next connection after a lost one.  The book is as it was.
Connect ==
  /\ link = "down"
  /\ link' = "up"
  /\ channel' = Opening
  /\ unsent' = IF \A i \in DOMAIN Opening : Ignores(Opening[i]) THEN unsent ELSE {}
  /\ UNCHANGED <<kind, venue, book, wiped, changes, losses>>

\* The attempt to open it fails in a way that websockets does not retry, and
\* the exception leaves `async for`, outside every `try` of the feeds.
Refuse ==
  /\ link = "down"
  /\ link' = "refused"
  /\ UNCHANGED <<kind, venue, channel, book, unsent, wiped, changes, losses>>

\* Levels of the messages that are lost with the connection
LostLevels ==
  UNION {IF IsSnapshot(msg) THEN Level ELSE LevelsOf(msg.ups) : msg \in ToSet(channel)}

\* Mutant: messages of the lost connection are still handled after the next
\* one has opened.
LoseKeepsQueue(place) ==
  /\ link = "up" /\ losses < MaxLosses
  /\ link' = place
  /\ losses' = losses + 1
  /\ unsent' = unsent \cup LostLevels
  /\ UNCHANGED <<kind, venue, channel, book, wiped, changes>>

Lose(place) ==
  /\ link = "up" /\ losses < MaxLosses
  /\ link' = place
  /\ losses' = losses + 1
  /\ channel' = <<>>
  /\ unsent' = unsent \cup LostLevels
  /\ UNCHANGED <<kind, venue, book, wiped, changes>>

\* ConnectionClosed is caught.
Drop == Lose("down")

\* Any other exception, of a message the parser cannot read, is caught by
\* Hyperliquid's feed only; from the others it reaches _run_feeds, which
\* shuts the engine down.
Malformed == Lose(IF kind = "hyperliquid" THEN "down" ELSE "crashed")

-----------------------------------------------------------------------------
Next ==
  \/ \E ups \in Updates : Change(ups)
  \/ Deliver
  \/ Connect
  \/ Refuse
  \/ Drop
  \/ Malformed

Spec == Init /\ [][Next]_vars

\* The feed task runs whenever a message is there, and websockets tries a
\* connection again until one opens or is refused for good.  Changes, losses
\* and refusals are not fair.
FairSpec == Spec /\ WF_vars(Deliver) /\ WF_vars(Connect)

-----------------------------------------------------------------------------
\* Properties

TypeOK ==
  /\ kind \in FeedKinds
  /\ venue \in Books
  /\ link \in {"down", "up"} \cup Fates
  /\ \A i \in DOMAIN channel :
       /\ channel[i].type \in MessageTypes
       /\ IsUpdate(channel[i].ups) /\ channel[i].shows \in Books
  /\ link # "up" => channel = <<>>
  /\ book \in [Sides -> Ladder]
  /\ unsent \subseteq Level
  /\ wiped \subseteq Level

\* The connectors whose copy follows the venue
Followers == {"bybit", "hyperliquid"}

\* Their feed implements LaggingCopy: through any losses and reconnects a
\* message leaves the copy as the venue's book was when it was sent, and
\* nothing else moves it (bybit.py:66-78, hyperliquid.py:106-116).
Copy == INSTANCE LaggingCopy WITH
  truth <- venue, backlog <- [i \in DOMAIN channel |-> channel[i].shows], copy <- Copied

CopyStep == [Copy!Next]_(Copy!vars)

FollowsVenue == [][(kind \in Followers) => CopyStep]_vars

\* Whatever the connector: when every message is handled, a level that
\* differs from the venue's is one whose change no message of the connection
\* carried - Kraken's that left the depth 25 it asks for among them - or one
\* that dYdX's parser wiped by taking a delta with both keys for a snapshot
\* (binance.py:66-88, dydx.py:69-87, kraken.py:56-79, lighter.py:95-106).
GapsExplained ==
  link = "up" /\ channel = <<>> =>
    {l \in Level : Copied[l[1]][l[2]] # venue[l[1]][l[2]]} \subseteq unsent \cup wiped

\* Once changes and losses end, a follower's copy is the venue's book, unless
\* its feed task ended: over a refused connection, or over an unreadable
\* message, which Hyperliquid's survives.
Converges ==
  <>[](kind \in Followers =>
         \/ link = "up" /\ Copied = venue
         \/ link = "refused"
         \/ link = "crashed" /\ kind # "hyperliquid")
=============================================================================
