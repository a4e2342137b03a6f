---------------------------- MODULE BookFeedProofs ----------------------------
(***************************************************************************)
(* Proofs about the feed of a connector, for any books, updates and        *)
(* losses.  The connectors that send whole books, or a snapshot before     *)
(* their deltas, implement LaggingCopy: every message on its way fits the  *)
(* one before it, so that handled in order each leaves the copy at the     *)
(* book it was sent for.  For every connector a level that differs from    *)
(* the venue's has a cause: the last message on its way that touches the   *)
(* level brings the venue's value or wipes it, and where none does the     *)
(* copy is right already.                                                  *)
(***************************************************************************)
EXTENDS BookFeed, DataLemmas, SequenceTheorems

\* What a message says of one side, and of a book, as sets
SideUpdates == UNION {[ps -> Nat] : ps \in SUBSET Prices}
BookUpdates == [Sides -> SideUpdates]

Messages == [type : MessageTypes, ups : BookUpdates, shows : Books]

TypeInv ==
  /\ kind \in FeedKinds
  /\ venue \in Books
  /\ link \in {"down", "up"} \cup Fates
  /\ channel \in Seq(Messages)
  /\ link # "up" => channel = <<>>
  /\ book \in [Sides -> Ladder]
  /\ unsent \subseteq Level
  /\ wiped \subseteq Level

\* The levels a message makes of those before it
SnapshotLevels(ups) ==
  [side \in Sides |-> [p \in Prices |-> IF p \in DOMAIN ups[side] THEN ups[side][p] ELSE 0]]

Applied(levels, msg) ==
  IF msg.type = "snapshot" THEN SnapshotLevels(msg.ups) ELSE Changed(levels, msg.ups)

\* What the next message finds in the copy, and what each one after it
BookBefore(i) == IF i = 1 THEN Copied ELSE channel[i - 1].shows

\* The book a message sent now would find
BookAtEnd == IF channel = <<>> THEN Copied ELSE channel[Len(channel)].shows

ChainInv ==
  /\ \A i \in 1..Len(channel) : Applied(BookBefore(i), channel[i]) = channel[i].shows
  /\ link = "up" => BookAtEnd = venue

FollowInv == kind \in Followers => ChainInv
-----------------------------------------------------------------------------
\* What the methods of a ladder make of it

\* _rebuild lists keys of the dict.
LEMMA SortedType ==
  ASSUME NEW side \in Sides, NEW levels
  PROVE  Sorted(side, levels) \in Seq(Prices)
<1> DEFINE keys == {p \in Prices : levels[p] # 0}
           n == Cardinality(keys)
           s == Sorted(side, levels)
<1>1. IsFiniteSet(keys) /\ n \in Nat /\ keys \in SUBSET Nat
  BY PricesAssumption, FS_Subset, FS_CardinalityType
<1>2. \E t \in [1..n -> keys] : \A i, j \in 1..n : i < j => Better(side, t[i], t[j])
  <2> HIDE DEF keys
  <2> QED BY <1>1, SortedListings DEF Better, Sides
<1>3. s = CHOOSE t \in [1..n -> keys] : \A i, j \in DOMAIN t : i < j => Better(side, t[i], t[j])
  BY DEF Sorted
<1> HIDE DEF s, n
<1>4. s \in [1..n -> keys]
  BY <1>2, <1>3
<1>5. QED
  BY <1>1, <1>4 DEF s

\* Once marked dirty a ladder is rebuilt from the new levels.
LEMMA RebuildType ==
  ASSUME NEW side \in Sides, NEW ladder \in Ladder, NEW levels \in [Prices -> Nat]
  PROVE  /\ Rebuild(side, [ladder EXCEPT !.levels = levels, !.dirty = TRUE]) \in Ladder
         /\ Rebuild(side, [ladder EXCEPT !.levels = levels, !.dirty = TRUE]).levels = levels
<1> DEFINE s == Sorted(side, levels)
           q == [i \in DOMAIN s |-> levels[s[i]]]
           l == [levels |-> levels, prices |-> s, dirty |-> FALSE, qtys |-> q]
<1>1. Rebuild(side, [ladder EXCEPT !.levels = levels, !.dirty = TRUE]) = l
  BY DEF Rebuild, Ladder
<1>2. s \in Seq(Prices)
  BY SortedType
<1> HIDE DEF s
<1>3. q \in Seq(Nat)
  BY <1>2
<1> HIDE DEF q
<1>4. l \in Ladder /\ l.levels = levels
  BY <1>2, <1>3 DEF Ladder
<1> HIDE DEF l
<1>5. QED
  BY <1>1, <1>4

LEMMA LadderUpdates ==
  ASSUME NEW side \in Sides, NEW ladder \in Ladder, NEW ups \in SideUpdates
  PROVE  /\ DeltaLadder(side, ladder, ups) \in Ladder
         /\ DeltaLadder(side, ladder, ups).levels
              = [p \in Prices |-> IF p \in DOMAIN ups THEN ups[p] ELSE ladder.levels[p]]
         /\ SnapshotLadder(side, ladder, ups) \in Ladder
         /\ SnapshotLadder(side, ladder, ups).levels
              = [p \in Prices |-> IF p \in DOMAIN ups THEN ups[p] ELSE 0]
<1> DEFINE more == [p \in Prices |-> IF p \in DOMAIN ups THEN ups[p] ELSE ladder.levels[p]]
           new  == [p \in Prices |-> IF p \in DOMAIN ups THEN ups[p] ELSE 0]
<1>1. ladder.levels \in [Prices -> Nat] /\ more \in [Prices -> Nat] /\ new \in [Prices -> Nat]
  BY DEF Ladder, SideUpdates
<1>2. DOMAIN ups = {} => more = ladder.levels
  BY <1>1
<1>3. /\ DeltaLadder(side, ladder, ups) =
           IF DOMAIN ups = {} THEN ladder
           ELSE Rebuild(side, [ladder EXCEPT !.levels = more, !.dirty = TRUE])
      /\ SnapshotLadder(side, ladder, ups) =
           Rebuild(side, [ladder EXCEPT !.levels = new, !.dirty = TRUE])
  BY DEF DeltaLadder, SnapshotLadder
<1>4. /\ DeltaLadder(side, ladder, ups) \in Ladder
      /\ DeltaLadder(side, ladder, ups).levels = more
      /\ SnapshotLadder(side, ladder, ups) \in Ladder
      /\ SnapshotLadder(side, ladder, ups).levels = new
  <2> HIDE DEF more, new
  <2>1. \A lv \in [Prices -> Nat] :
          /\ Rebuild(side, [ladder EXCEPT !.levels = lv, !.dirty = TRUE]) \in Ladder
          /\ Rebuild(side, [ladder EXCEPT !.levels = lv, !.dirty = TRUE]).levels = lv
    BY RebuildType
  <2>2. QED
    BY <1>1, <1>2, <1>3, <2>1
<1>5. QED
  BY <1>4

\* What the parser and the book make of the copy when a message is handled
Handled(levels, msg) ==
  IF Ignores(msg) THEN levels
  ELSE IF IsSnapshot(msg) THEN SnapshotLevels(msg.ups)
  ELSE Changed(levels, msg.ups)

LEMMA BookUpdatesType ==
  ASSUME book \in [Sides -> Ladder], NEW ups \in BookUpdates
  PROVE  /\ SnapshotBook(book, ups) \in [Sides -> Ladder]
         /\ [side \in Sides |-> SnapshotBook(book, ups)[side].levels] = SnapshotLevels(ups)
         /\ DeltaBook(book, ups) \in [Sides -> Ladder]
         /\ [side \in Sides |-> DeltaBook(book, ups)[side].levels] = Changed(Copied, ups)
<1>1. \A side \in Sides : ups[side] \in SideUpdates /\ book[side] \in Ladder
  BY DEF BookUpdates
<1>2. \A side \in Sides :
        /\ SnapshotBook(book, ups)[side] = SnapshotLadder(side, book[side], ups[side])
        /\ DeltaBook(book, ups)[side] = DeltaLadder(side, book[side], ups[side])
        /\ Copied[side] = book[side].levels
  BY DEF SnapshotBook, DeltaBook, Copied
<1>3. \A side \in Sides :
        /\ SnapshotBook(book, ups)[side] \in Ladder
        /\ SnapshotBook(book, ups)[side].levels = SnapshotLevels(ups)[side]
        /\ DeltaBook(book, ups)[side] \in Ladder
        /\ DeltaBook(book, ups)[side].levels = Changed(Copied, ups)[side]
  BY <1>1, <1>2, LadderUpdates DEF SnapshotLevels, Changed
<1>4. /\ SnapshotBook(book, ups) = [side \in Sides |-> SnapshotBook(book, ups)[side]]
      /\ DeltaBook(book, ups) = [side \in Sides |-> DeltaBook(book, ups)[side]]
      /\ SnapshotLevels(ups) = [side \in Sides |-> SnapshotLevels(ups)[side]]
      /\ Changed(Copied, ups) = [side \in Sides |-> Changed(Copied, ups)[side]]
  BY DEF SnapshotBook, DeltaBook, SnapshotLevels, Changed
<1>5. QED
  BY <1>3, <1>4

LEMMA DeliverHandles ==
  ASSUME TypeInv, Deliver
  PROVE  book' \in [Sides -> Ladder] /\ Copied' = Handled(Copied, channel[1])
<1> DEFINE msg == channel[1]
<1>1. channel # <<>> /\ Head(channel) = msg /\ msg.ups \in BookUpdates
  <2>1. channel \in Seq(Messages) /\ channel # <<>>
    BY DEF Deliver, TypeInv
  <2>2. channel[1] \in Messages
    BY <2>1
  <2>3. QED
    BY <2>1, <2>2 DEF Messages
<1>2. \/ Ignores(msg) /\ book' = book
      \/ ~Ignores(msg) /\ IsSnapshot(msg) /\ book' = SnapshotBook(book, msg.ups)
      \/ ~Ignores(msg) /\ ~IsSnapshot(msg) /\ book' = DeltaBook(book, msg.ups)
  BY <1>1 DEF Deliver
<1>3. book \in [Sides -> Ladder]
  BY DEF TypeInv
<1> HIDE DEF msg
<1>4. QED
  BY <1>1, <1>2, <1>3, BookUpdatesType DEF Copied, Handled, msg
-----------------------------------------------------------------------------
\* The steps keep the types

\* What the venue's book is as an update leaves that book, whatever it meets.
LEMMA WholeIsSnapshot ==
  ASSUME NEW v \in Books
  PROVE  Whole(v) \in BookUpdates /\ SnapshotLevels(Whole(v)) = v
<1>1. \A side \in Sides : Whole(v)[side] \in [{q \in Prices : v[side][q] # 0} -> Nat]
  BY DEF Whole, Books
<1>2. Whole(v) \in BookUpdates
  BY <1>1 DEF Whole, BookUpdates, SideUpdates
<1>3. \A side \in Sides, p \in Prices :
        (IF p \in DOMAIN Whole(v)[side] THEN Whole(v)[side][p] ELSE 0) = v[side][p]
  BY DEF Whole, Books
<1>4. QED
  BY <1>2, <1>3 DEF SnapshotLevels, Books

LEMMA UpdateIsTyped ==
  ASSUME NEW ups, IsUpdate(ups)
  PROVE  ups \in BookUpdates
BY DEF IsUpdate, BookUpdates, SideUpdates

\* A book after an update is a book.
LEMMA ChangedIsBook ==
  ASSUME NEW v \in Books, NEW ups \in BookUpdates
  PROVE  Changed(v, ups) \in Books
BY DEF Changed, Books, BookUpdates, SideUpdates

\* What is left of an update without some of its levels
LEMMA WithoutIsTyped ==
  ASSUME NEW ups \in BookUpdates, NEW out
  PROVE  /\ Without(ups, out) \in BookUpdates
         /\ \A l \in Level : /\ l \in LevelsOf(Without(ups, out)) <=> l \in LevelsOf(ups) \ out
                             /\ l \in LevelsOf(Without(ups, out)) =>
                                  Without(ups, out)[l[1]][l[2]] = ups[l[1]][l[2]]
<1> DEFINE kept(side) == {q \in DOMAIN ups[side] : <<side, q>> \notin out}
<1>1. \A side \in Sides :
        /\ DOMAIN ups[side] \subseteq Prices /\ ups[side] \in [DOMAIN ups[side] -> Nat]
        /\ Without(ups, out)[side] = [p \in kept(side) |-> ups[side][p]]
  BY DEF BookUpdates, SideUpdates, Without
<1>2. \A side \in Sides : Without(ups, out)[side] \in SideUpdates
  <2> TAKE side \in Sides
  <2>1. kept(side) \in SUBSET Prices /\ Without(ups, out)[side] \in [kept(side) -> Nat]
    BY <1>1
  <2> HIDE DEF kept
  <2>2. QED
    BY <2>1 DEF SideUpdates
<1>3. Without(ups, out) \in BookUpdates
  BY <1>2 DEF Without, BookUpdates
<1>4. ASSUME NEW l \in Level
      PROVE  /\ l \in LevelsOf(Without(ups, out)) <=> l \in LevelsOf(ups) \ out
             /\ l \in LevelsOf(Without(ups, out)) =>
                  Without(ups, out)[l[1]][l[2]] = ups[l[1]][l[2]]
  <2>1. l[1] \in Sides /\ l = <<l[1], l[2]>>
    BY DEF Level
  <2>2. /\ DOMAIN Without(ups, out)[l[1]] = kept(l[1])
        /\ \A p \in kept(l[1]) : Without(ups, out)[l[1]][p] = ups[l[1]][p]
    BY <1>1, <2>1
  <2>3. l[2] \in kept(l[1]) <=> l[2] \in DOMAIN ups[l[1]] /\ l \notin out
    BY <2>1
  <2> HIDE DEF kept
  <2>4. QED
    BY <1>4, <2>2, <2>3 DEF LevelsOf
<1>5. QED
  BY <1>3, <1>4

\* What a change makes of the venue's book
LEMMA ChangeMoves ==
  ASSUME TypeInv, NEW ups \in Updates, Change(ups)
  PROVE  /\ ups \in BookUpdates
         /\ venue' = Changed(venue, ups) /\ venue' \in Books
         /\ UNCHANGED <<kind, link, book, wiped>> /\ Copied' = Copied
         /\ link # "up" => /\ channel' = channel
                           /\ unsent' = unsent \cup LevelsOf(ups)
<1>1. ups \in BookUpdates /\ venue' = Changed(venue, ups) /\ venue' \in Books
  BY UpdateIsTyped, ChangedIsBook, FeedAssumption DEF Change, TypeInv
<1>2. QED
  BY <1>1 DEF Change, Copied

\* What is sent of it: the whole book, or the levels of the update that the
\* venue does not leave to the client
LEMMA ChangeSends ==
  ASSUME TypeInv, NEW ups \in Updates, Change(ups), link = "up"
  PROVE  \E msg \in Messages :
           /\ channel' = Append(channel, msg) /\ msg.shows = venue'
           /\ unsent' = IF msg.type = "snapshot" THEN {}
                        ELSE (unsent \cup LevelsOf(ups)) \ LevelsOf(msg.ups)
           /\ kind = "hyperliquid" => msg.type = "snapshot" /\ msg.ups = Whole(venue')
           /\ kind # "hyperliquid" =>
                /\ msg.type \in {"delta", "both"}
                /\ kind # "dydx" => msg.type = "delta"
                /\ kind # "kraken" => msg.ups = ups
                /\ \A l \in LevelsOf(msg.ups) :
                     l \in LevelsOf(ups) /\ msg.ups[l[1]][l[2]] = ups[l[1]][l[2]]
<1>1. ups \in BookUpdates /\ venue' \in Books /\ Whole(venue') \in BookUpdates
  BY ChangeMoves, WholeIsSnapshot
<1>2. PICK msg \in Sent(ups) :
        /\ channel' = Append(channel, msg)
        /\ unsent' = IF msg.type = "snapshot" THEN {}
                     ELSE (unsent \cup LevelsOf(ups)) \ LevelsOf(msg.ups)
  BY DEF Change
<1>3. CASE kind = "hyperliquid"
  <2>1. msg = Message("snapshot", Whole(venue'), venue')
    BY <1>2, <1>3 DEF Sent
  <2>2. QED
    BY <1>1, <1>2, <1>3, <2>1 DEF Message, Messages, MessageTypes
<1>4. CASE kind = "kraken"
  <2>1. PICK out : msg = Message("delta", Without(ups, out), venue')
    BY <1>2, <1>4 DEF Sent
  <2>2. /\ Without(ups, out) \in BookUpdates
        /\ \A l \in LevelsOf(Without(ups, out)) :
             l \in LevelsOf(ups) /\ Without(ups, out)[l[1]][l[2]] = ups[l[1]][l[2]]
    <3>1. LevelsOf(Without(ups, out)) \subseteq Level
      BY DEF LevelsOf
    <3>2. QED
      BY <1>1, <3>1, WithoutIsTyped
  <2>3. QED
    BY <1>1, <1>2, <1>4, <2>1, <2>2 DEF Message, Messages, MessageTypes
<1>5. CASE kind = "dydx"
  <2>1. PICK type \in {"delta", "both"} : msg = Message(type, ups, venue')
    BY <1>2, <1>5 DEF Sent
  <2>2. /\ msg \in Messages /\ msg.shows = venue' /\ msg.type = type /\ msg.ups = ups
    BY <1>1, <2>1 DEF Message, Messages, MessageTypes
  <2>3. QED
    BY <1>2, <1>5, <2>2
<1>6. CASE kind \notin {"hyperliquid", "kraken", "dydx"}
  <2>1. msg = Message("delta", ups, venue')
    BY <1>2, <1>6 DEF Sent
  <2>2. QED
    BY <1>1, <1>2, <1>6, <2>1 DEF Message, Messages, MessageTypes
<1>7. QED
  BY <1>3, <1>4, <1>5, <1>6

\* What opens a subscription shows the venue's book.
LEMMA OpeningIsTyped ==
  ASSUME TypeInv
  PROVE  /\ Opening \in Seq(Messages)
         /\ \/ kind = "binance" /\ Opening = <<>>
            \/ /\ kind # "binance" /\ Len(Opening) = 1
               /\ Opening[1].ups = Whole(venue) /\ Opening[1].shows = venue
               /\ Opening[1].type = IF kind = "dydx" THEN "subscribed" ELSE "snapshot"
<1>1. Whole(venue) \in BookUpdates /\ venue \in Books
  BY WholeIsSnapshot DEF TypeInv
<1>2. \A type \in MessageTypes :
        Message(type, Whole(venue), venue) \in Messages
  BY <1>1 DEF Message, Messages
<1>3. QED
  BY <1>2 DEF Opening, Message, MessageTypes

\* The messages behind the one handled move up.
LEMMA DeliverShifts ==
  ASSUME TypeInv, Deliver
  PROVE  /\ channel # <<>> /\ Len(channel) \in Nat \ {0} /\ channel[1] \in Messages
         /\ channel' = Tail(channel) /\ channel' \in Seq(Messages)
         /\ Len(channel') = Len(channel) - 1
         /\ \A i \in 1..Len(channel') : channel'[i] = channel[i + 1]
         /\ link = "up" /\ UNCHANGED <<kind, venue, link, unsent>>
BY DEF Deliver, TypeInv

LEMMA FeedKeepsType == TypeInv /\ [Next]_vars => TypeInv' /\ kind' = kind
<1> SUFFICES ASSUME TypeInv, [Next]_vars PROVE TypeInv' /\ kind' = kind
  OBVIOUS
<1>1. CASE UNCHANGED vars
  BY <1>1 DEF vars, TypeInv
<1>2. ASSUME NEW ups \in Updates, Change(ups) PROVE TypeInv' /\ kind' = kind
  <2>1. /\ channel' \in Seq(Messages) /\ (link' # "up" => channel' = <<>>)
        /\ unsent' \subseteq Level
    <3>1. LevelsOf(ups) \subseteq Level /\ unsent \subseteq Level /\ channel \in Seq(Messages)
      BY DEF LevelsOf, TypeInv
    <3>2. CASE link = "up"
      BY <1>2, <3>1, <3>2, ChangeMoves, ChangeSends
    <3>3. CASE link # "up"
      BY <1>2, <3>1, <3>3, ChangeMoves DEF TypeInv
    <3>4. QED
      BY <3>2, <3>3
  <2>2. QED
    BY <1>2, <2>1, ChangeMoves DEF TypeInv
<1>3. CASE Deliver
  <2>1. wiped' \subseteq Level
    BY <1>3 DEF Deliver, TypeInv
  <2>2. QED
    BY <1>3, <2>1, DeliverShifts, DeliverHandles DEF TypeInv
<1>4. CASE Connect
  BY <1>4, OpeningIsTyped DEF Connect, TypeInv
<1>5. ASSUME NEW place \in {"down", "crashed"}, Lose(place) PROVE TypeInv' /\ kind' = kind
  <2>1. LostLevels \subseteq Level
    BY DEF LostLevels, LevelsOf
  <2>2. QED
    BY <1>5, <2>1 DEF Lose, TypeInv, Fates
<1>6. CASE Refuse
  BY <1>6 DEF Refuse, TypeInv, Fates
<1>7. QED
  BY <1>1, <1>2, <1>3, <1>4, <1>5, <1>6 DEF Next, Drop, Malformed

LEMMA FeedInitTyped == Init => TypeInv /\ ChainInv
<1> SUFFICES ASSUME Init PROVE TypeInv /\ ChainInv
  OBVIOUS
<1>1. EmptyLadder \in Ladder
  BY DEF EmptyLadder, Ladder
<1>2. channel = <<>> /\ <<>> \in Seq(Messages) /\ link # "up"
  BY DEF Init
<1>3. QED
  BY <1>1, <1>2, FeedAssumption DEF Init, EmptyBook, TypeInv, ChainInv, LevelsOf

\* The program's copy is a book whose arrays and dicts are of their types,
\* and every message of the parsers on its way is one, through any changes,
\* losses and reconnects (orderbook.py:24-84).
THEOREM FeedTypeCorrect == Spec => []TypeOK
<1>1. TypeInv => TypeOK
  <2> SUFFICES ASSUME TypeInv PROVE TypeOK
    OBVIOUS
  <2>1. \A ups \in BookUpdates : IsUpdate(ups)
    BY DEF BookUpdates, SideUpdates, IsUpdate
  <2>2. \A i \in DOMAIN channel : channel[i] \in Messages
    BY DEF TypeInv
  <2>3. \A i \in DOMAIN channel :
          /\ channel[i].type \in MessageTypes
          /\ IsUpdate(channel[i].ups) /\ channel[i].shows \in Books
    BY <2>1, <2>2 DEF Messages
  <2>4. QED
    BY <2>3 DEF TypeInv, TypeOK
<1>2. QED
  BY <1>1, FeedInitTyped, FeedKeepsType, PTL DEF Spec
-----------------------------------------------------------------------------
\* The copies that follow the venue

\* A message that is sent fits at the end of those before it.
LEMMA AppendKeepsChain ==
  ASSUME TypeInv, ChainInv, link = "up", NEW msg \in Messages,
         Applied(BookAtEnd, msg) = msg.shows, msg.shows = venue',
         channel' = Append(channel, msg), UNCHANGED <<link, book>>
  PROVE  ChainInv'
<1>1. /\ channel \in Seq(Messages) /\ channel' \in Seq(Messages)
      /\ Len(channel') = Len(channel) + 1 /\ Len(channel) \in Nat
      /\ channel'[Len(channel) + 1] = msg
      /\ \A i \in 1..Len(channel) : channel'[i] = channel[i]
  BY DEF TypeInv
<1>2. Copied' = Copied
  BY DEF Copied
<1>3. BookAtEnd' = venue'
  BY <1>1 DEF BookAtEnd
<1>4. ASSUME NEW i \in 1..Len(channel')
      PROVE  Applied(BookBefore(i)', channel'[i]) = channel'[i].shows
  <2>1. CASE i \in 1..Len(channel)
    <3>1. BookBefore(i)' = BookBefore(i)
      BY <1>1, <1>2, <2>1 DEF BookBefore
    <3>2. QED
      BY <1>1, <2>1, <3>1 DEF ChainInv
  <2>2. CASE i = Len(channel) + 1
    <3>1. BookBefore(i)' = BookAtEnd
      BY <1>1, <1>2, <2>2 DEF BookBefore, BookAtEnd
    <3>2. QED
      BY <1>1, <2>2, <3>1
  <2>3. QED
    BY <1>1, <2>1, <2>2
<1>5. QED
  BY <1>3, <1>4 DEF ChainInv

\* The next message leaves the copy at the book it was sent for.
LEMMA DeliverShows ==
  ASSUME TypeInv, ChainInv, Deliver, kind \in Followers
  PROVE  Copied' = channel[1].shows
<1> DEFINE msg == channel[1]
<1>1. Copied' = Handled(Copied, msg) /\ 1 \in 1..Len(channel)
  BY DeliverHandles, DeliverShifts
<1>2. Applied(Copied, msg) = msg.shows
  BY <1>1 DEF ChainInv, BookBefore
<1>3. Handled(Copied, msg) = Applied(Copied, msg)
  BY DEF Handled, Applied, Ignores, IsSnapshot, Followers
<1>4. QED
  BY <1>1, <1>2, <1>3

LEMMA DeliverKeepsChain ==
  ASSUME TypeInv, ChainInv, Deliver, kind \in Followers
  PROVE  ChainInv'
<1>1. /\ Len(channel) \in Nat \ {0} /\ Len(channel') = Len(channel) - 1
      /\ channel' \in Seq(Messages)
      /\ \A i \in 1..Len(channel') : channel'[i] = channel[i + 1]
      /\ link = "up" /\ venue' = venue /\ Copied' = channel[1].shows
  BY DeliverShifts, DeliverShows
<1>2. BookAtEnd' = venue'
  <2>1. channel # <<>> /\ channel[Len(channel)].shows = venue
    BY <1>1 DEF ChainInv, BookAtEnd, Deliver
  <2>2. CASE Len(channel) = 1
    BY <1>1, <2>1, <2>2 DEF BookAtEnd
  <2>3. CASE Len(channel) # 1
    BY <1>1, <2>1, <2>3 DEF BookAtEnd
  <2>4. QED
    BY <2>2, <2>3
<1>3. ASSUME NEW i \in 1..Len(channel')
      PROVE  Applied(BookBefore(i)', channel'[i]) = channel'[i].shows
  <2>1. BookBefore(i)' = BookBefore(i + 1)
    BY <1>1 DEF BookBefore
  <2>2. i + 1 \in 1..Len(channel) /\ channel'[i] = channel[i + 1]
    BY <1>1
  <2>3. QED
    BY <2>1, <2>2 DEF ChainInv
<1>4. QED
  BY <1>2, <1>3 DEF ChainInv

LEMMA ChangeKeepsChain ==
  ASSUME TypeInv, ChainInv, NEW ups \in Updates, Change(ups), kind \in Followers
  PROVE  ChainInv'
<1>1. CASE link = "up"
  <2>1. PICK msg \in Messages :
          /\ channel' = Append(channel, msg) /\ msg.shows = venue'
          /\ \/ msg.type = "snapshot" /\ msg.ups = Whole(venue')
             \/ msg.type = "delta" /\ msg.ups = ups
    BY <1>1, ChangeSends DEF Followers
  <2>2. Applied(BookAtEnd, msg) = venue'
    <3>1. CASE msg.type = "snapshot" /\ msg.ups = Whole(venue')
      BY <3>1, ChangeMoves, WholeIsSnapshot DEF Applied
    <3>2. CASE msg.type = "delta" /\ msg.ups = ups
      BY <1>1, <3>2, ChangeMoves DEF ChainInv, Applied
    <3>3. QED
      BY <2>1, <3>1, <3>2
  <2>3. QED
    BY <1>1, <2>1, <2>2, ChangeMoves, AppendKeepsChain
<1>2. CASE link # "up"
  BY <1>2, ChangeMoves DEF TypeInv, ChainInv
<1>3. QED
  BY <1>1, <1>2

LEMMA ConnectKeepsChain ==
  ASSUME TypeInv, ChainInv, Connect, kind \in Followers
  PROVE  ChainInv'
<1>1. /\ channel' = Opening /\ Opening \in Seq(Messages) /\ Len(Opening) = 1 /\ venue' = venue
      /\ Opening[1].type = "snapshot" /\ Opening[1].ups = Whole(venue)
      /\ Opening[1].shows = venue
  BY OpeningIsTyped DEF Connect, Followers
<1>2. \A levels : Applied(levels, Opening[1]) = venue
  BY <1>1, WholeIsSnapshot DEF Applied, TypeInv
<1>3. Len(channel') = 1 /\ channel'[1] = Opening[1] /\ channel' # <<>>
  <2>1. Len(channel') = 1 /\ channel'[1] = Opening[1]
    BY <1>1
  <2>2. QED
    BY <2>1, Len(<<>>) = 0
<1>4. QED
  BY <1>1, <1>2, <1>3 DEF ChainInv, BookAtEnd

LEMMA LoseKeepsChain ==
  ASSUME TypeInv, ChainInv, NEW place \in {"down", "crashed"}, Lose(place)
  PROVE  ChainInv'
BY DEF Lose, ChainInv

LEMMA FeedStepKeeps == TypeInv /\ FollowInv /\ [Next]_vars => FollowInv'
<1> SUFFICES ASSUME TypeInv, ChainInv, [Next]_vars, kind \in Followers PROVE ChainInv'
  BY FeedKeepsType DEF FollowInv
<1>1. CASE UNCHANGED vars
  BY <1>1 DEF vars, ChainInv, BookBefore, BookAtEnd, Copied
<1>2. CASE Drop \/ Malformed
  BY <1>2, LoseKeepsChain DEF Drop, Malformed
<1>3. CASE Refuse
  BY <1>3 DEF Refuse, TypeInv, ChainInv
<1>4. QED
  BY <1>1, <1>2, <1>3, ChangeKeepsChain, DeliverKeepsChain, ConnectKeepsChain DEF Next
-----------------------------------------------------------------------------
\* The refinement

\* The books that the messages on their way will show
Backlog == [i \in DOMAIN channel |-> channel[i].shows]

LEMMA StepIsCopyStep ==
  ASSUME TypeInv, FollowInv, [Next]_vars, kind \in Followers
  PROVE  CopyStep
<1> USE DEF CopyStep, Copy!Next, Copy!vars
<1>1. ChainInv /\ channel \in Seq(Messages)
  BY DEF FollowInv, TypeInv
<1>2. CASE UNCHANGED vars
  BY <1>2 DEF vars, Copied
<1>3. ASSUME NEW ups \in Updates, Change(ups) PROVE CopyStep
  <2>1. Copied' = Copied
    BY <1>3 DEF Change, Copied
  <2>2. CASE link = "up"
    <3>1. PICK msg \in Messages : channel' = Append(channel, msg) /\ msg.shows = venue'
      BY <1>3, <2>2, ChangeSends
    <3>2. Backlog' = Append(Backlog, venue')
      BY <1>1, <3>1 DEF Backlog
    <3>3. QED
      BY <2>1, <3>2 DEF Backlog, Copy!Change
  <2>3. CASE link # "up"
    BY <1>3, <2>1, <2>3 DEF Change, Copy!Change
  <2>4. QED
    BY <2>2, <2>3
<1>4. CASE Deliver
  <2>1. Copied' = channel[1].shows /\ channel # <<>> /\ channel' = Tail(channel) /\ venue' = venue
    BY <1>1, <1>4, DeliverShows, DeliverShifts
  <2>2. Backlog # <<>> /\ Head(Backlog) = channel[1].shows /\ Backlog' = Tail(Backlog)
    BY <1>1, <2>1 DEF Backlog
  <2>3. QED
    BY <2>1, <2>2 DEF Backlog, Copy!Show
<1>5. CASE Connect
  <2>1. channel = <<>> /\ channel' = <<Message("snapshot", Whole(venue), venue)>>
        /\ venue' = venue /\ book' = book
    BY <1>1, <1>5 DEF Connect, Opening, Followers, TypeInv
  <2>2. Backlog' = Append(Backlog, venue)
    BY <2>1 DEF Backlog, Message
  <2>3. QED
    BY <2>1, <2>2 DEF Backlog, Copied, Copy!Resend
<1>6. CASE Drop \/ Malformed
  <2>1. channel' = <<>> /\ venue' = venue /\ book' = book
    BY <1>6 DEF Drop, Malformed, Lose
  <2>2. Backlog' = <<>>
    BY <2>1 DEF Backlog
  <2>3. QED
    BY <2>1, <2>2 DEF Backlog, Copied, Copy!Lose
<1>7. CASE Refuse
  BY <1>7 DEF Refuse, Copied
<1>8. QED
  BY <1>2, <1>3, <1>4, <1>5, <1>6, <1>7 DEF Next

\* The feeds of Bybit and Hyperliquid implement LaggingCopy: every message
\* leaves the program's copy at the book the venue had when it sent it,
\* through any sequence of changes, losses and reconnects, and nothing else
\* moves the copy (bybit.py:66-78, hyperliquid.py:106-116, orderbook.py:50-84).
THEOREM FeedsFollowTheVenue == Spec => FollowsVenue
<1>1. TypeInv /\ FollowInv /\ [Next]_vars => [(kind \in Followers) => CopyStep]_vars
  BY StepIsCopyStep
<1>2. Init => TypeInv /\ FollowInv
  BY FeedInitTyped DEF FollowInv
<1>3. QED
  BY <1>1, <1>2, FeedKeepsType, FeedStepKeeps, PTL DEF Spec, FollowsVenue
-----------------------------------------------------------------------------
\* The levels that differ

\* The quantity of a level in the dicts of a book
At(levels, l) == levels[l[1]][l[2]]

\* The i-th message on its way sets the level l, to the quantity Brings; it
\* does not say so of a level it Wipes, being a delta taken for a snapshot.
Touches(i, l) ==
  /\ ~Ignores(channel[i])
  /\ IsSnapshot(channel[i]) \/ l \in LevelsOf(channel[i].ups)
Brings(i, l) == IF l \in LevelsOf(channel[i].ups) THEN At(channel[i].ups, l) ELSE 0
Wipes(i, l) ==
  IsSnapshot(channel[i]) /\ channel[i].type # "snapshot" /\ l \notin LevelsOf(channel[i].ups)

LastTouch(i, l) == Touches(i, l) /\ \A j \in 1..Len(channel) : i < j => ~Touches(j, l)

CopyRight(l) == At(Copied, l) = At(venue, l) \/ l \in wiped
MessageRight(i, l) == Brings(i, l) = At(venue, l) \/ Wipes(i, l)

\* A level all of whose changes were sent is right in the last message that
\* sets it, and in the copy if none on its way does.
LevelInv(l) ==
  /\ (\A i \in 1..Len(channel) : ~Touches(i, l)) => CopyRight(l)
  /\ \A i \in 1..Len(channel) : LastTouch(i, l) => MessageRight(i, l)

GapInv == \A l \in Level \ unsent : LevelInv(l)

LEMMA HandledAt ==
  ASSUME NEW l \in Level
  PROVE  At(Handled(Copied, channel[1]), l)
           = IF Touches(1, l) THEN Brings(1, l) ELSE At(Copied, l)
<1> DEFINE msg == channel[1]
<1>1. l[1] \in Sides /\ l[2] \in Prices
  BY DEF Level
<1>2. l \in LevelsOf(msg.ups) <=> l[2] \in DOMAIN msg.ups[l[1]]
  BY DEF LevelsOf
<1>3. /\ At(SnapshotLevels(msg.ups), l) = Brings(1, l)
      /\ At(Changed(Copied, msg.ups), l)
           = IF l \in LevelsOf(msg.ups) THEN Brings(1, l) ELSE At(Copied, l)
  BY <1>1, <1>2 DEF At, SnapshotLevels, Changed, Brings
<1>4. QED
  BY <1>3 DEF Handled, Touches

\* Messages that stay say the same of a level.
LEMMA SameMessage ==
  ASSUME NEW i, NEW j, NEW l, kind' = kind, channel'[i] = channel[j]
  PROVE  /\ Touches(i, l)' <=> Touches(j, l)
         /\ Brings(i, l)' = Brings(j, l)
         /\ Wipes(i, l)' <=> Wipes(j, l)
BY DEF Touches, Brings, Wipes, Ignores, IsSnapshot

\* A level a change leaves alone is as it was, and one it sets is as the
\* message says.
LEMMA ChangeKeepsGaps ==
  ASSUME TypeInv, GapInv, NEW ups \in Updates, Change(ups)
  PROVE  GapInv'
<1> SUFFICES ASSUME NEW l \in Level, l \notin unsent' PROVE LevelInv(l)'
  BY DEF GapInv
<1>1. l \notin LevelsOf(ups) => At(venue', l) = At(venue, l)
  BY ChangeMoves DEF LevelsOf, At, Changed, Level
<1>2. l \in LevelsOf(ups) => At(venue', l) = At(ups, l)
  BY ChangeMoves DEF LevelsOf, At, Changed, Level
<1>3. Copied' = Copied /\ wiped' = wiped /\ kind' = kind
  BY ChangeMoves
<1>4. CASE link # "up"
  <2>1. channel = <<>> /\ channel' = <<>> /\ l \notin unsent /\ l \notin LevelsOf(ups)
    BY <1>4, ChangeMoves DEF TypeInv
  <2>2. CopyRight(l)
    BY <2>1 DEF GapInv, LevelInv
  <2>3. CopyRight(l)'
    BY <1>1, <1>3, <2>1, <2>2 DEF CopyRight, At
  <2>4. QED
    BY <2>1, <2>3 DEF LevelInv
<1>5. CASE link = "up"
  <2> PICK n \in Nat : n = Len(channel)
    BY DEF TypeInv
  <2>1. PICK msg \in Messages :
          /\ channel' = Append(channel, msg)
          /\ unsent' = IF msg.type = "snapshot" THEN {}
                       ELSE (unsent \cup LevelsOf(ups)) \ LevelsOf(msg.ups)
          /\ kind = "hyperliquid" => msg.type = "snapshot" /\ msg.ups = Whole(venue')
          /\ kind # "hyperliquid" =>
               /\ msg.type \in {"delta", "both"}
               /\ \A m \in LevelsOf(msg.ups) :
                    m \in LevelsOf(ups) /\ msg.ups[m[1]][m[2]] = ups[m[1]][m[2]]
    BY <1>5, ChangeSends
  <2>2. /\ Len(channel') = n + 1 /\ channel'[n + 1] = msg
        /\ \A i \in 1..n : channel'[i] = channel[i]
    BY <2>1 DEF TypeInv
  <2>3. \A i \in 1..n : /\ Touches(i, l)' <=> Touches(i, l)
                        /\ Brings(i, l)' = Brings(i, l)
                        /\ Wipes(i, l)' <=> Wipes(i, l)
    BY <1>3, <2>2, SameMessage
  <2>4. CASE Touches(n + 1, l)'
    <3>1. MessageRight(n + 1, l)'
      <4>1. CASE kind = "hyperliquid"
        <5>1. msg.ups = Whole(venue') /\ venue' \in Books
          BY <2>1, <4>1, ChangeMoves
        <5>2. SnapshotLevels(Whole(venue')) = venue'
          BY <5>1, WholeIsSnapshot
        <5>3. At(venue', l) = IF l \in LevelsOf(msg.ups) THEN At(msg.ups, l) ELSE 0
          BY <5>1, <5>2 DEF SnapshotLevels, At, LevelsOf, Level
        <5>4. QED
          BY <2>2, <5>3 DEF MessageRight, Brings, At
      <4>2. CASE kind # "hyperliquid"
        <5>1. msg.type \in {"delta", "both"}
          BY <2>1, <4>2
        <5>2. CASE l \in LevelsOf(msg.ups)
          <6>1. At(msg.ups, l) = At(venue', l)
            BY <1>2, <2>1, <4>2, <5>2 DEF At
          <6>2. QED
            BY <2>2, <5>2, <6>1 DEF MessageRight, Brings, At
        <5>3. CASE l \notin LevelsOf(msg.ups)
          <6>1. Wipes(n + 1, l)'
            BY <2>2, <2>4, <5>1, <5>3 DEF Wipes, Touches
          <6>2. QED
            BY <6>1 DEF MessageRight
        <5>4. QED
          BY <5>2, <5>3
      <4>3. QED
        BY <4>1, <4>2
    <3>2. ASSUME NEW i \in 1..(n + 1), LastTouch(i, l)' PROVE i = n + 1
      BY <2>2, <2>4, <3>2 DEF LastTouch
    <3>3. ~\A i \in 1..Len(channel') : ~Touches(i, l)'
      BY <2>2, <2>4
    <3>4. \A i \in 1..Len(channel') : LastTouch(i, l)' => MessageRight(i, l)'
      BY <2>2, <3>1, <3>2
    <3>5. QED
      BY <3>3, <3>4 DEF LevelInv
  <2>5. CASE ~Touches(n + 1, l)'
    <3>1. msg.type # "snapshot" /\ l \notin LevelsOf(msg.ups)
      <4>1. kind # "hyperliquid" /\ msg.type \in {"delta", "both"}
        <5>1. kind = "hyperliquid" => Touches(n + 1, l)'
          BY <1>3, <2>1, <2>2 DEF Touches, Ignores, IsSnapshot
        <5>2. QED
          BY <2>1, <2>5, <5>1
      <4>2. l \in LevelsOf(msg.ups) => Touches(n + 1, l)'
        BY <1>3, <2>2, <4>1 DEF Touches, Ignores, Empty
      <4>3. QED
        BY <2>5, <4>1, <4>2
    <3>2. l \notin unsent /\ At(venue', l) = At(venue, l)
      BY <1>1, <2>1, <3>1
    <3>3. LevelInv(l)
      BY <3>2 DEF GapInv
    <3>4. CopyRight(l) => CopyRight(l)'
      BY <1>3, <3>2 DEF CopyRight, At
    <3>5. \A i \in 1..n : MessageRight(i, l) => MessageRight(i, l)'
      BY <2>3, <3>2 DEF MessageRight, At
    <3>6. \A i \in 1..n : LastTouch(i, l)' => LastTouch(i, l)
      BY <2>2, <2>3 DEF LastTouch
    <3>7. ~LastTouch(n + 1, l)'
      BY <2>5 DEF LastTouch
    <3>8. (\A i \in 1..Len(channel') : ~Touches(i, l)') => CopyRight(l)'
      BY <2>2, <2>3, <3>3, <3>4 DEF LevelInv
    <3>9. \A i \in 1..Len(channel') : LastTouch(i, l)' => MessageRight(i, l)'
      BY <2>2, <3>3, <3>5, <3>6, <3>7 DEF LevelInv
    <3>10. QED
      BY <3>8, <3>9 DEF LevelInv
  <2>6. QED
    BY <2>4, <2>5
<1>6. QED
  BY <1>4, <1>5

\* The message that is handled does what it says to the copy.
LEMMA DeliverKeepsGaps ==
  ASSUME TypeInv, GapInv, Deliver
  PROVE  GapInv'
<1> SUFFICES ASSUME NEW l \in Level, l \notin unsent' PROVE LevelInv(l)'
  BY DEF GapInv
<1> DEFINE n == Len(channel)
<1>1. n \in Nat \ {0} /\ Len(channel') = n - 1 /\ UNCHANGED <<kind, venue>>
      /\ \A i \in 1..(n - 1) : channel'[i] = channel[i + 1]
  BY DeliverShifts
<1>2. LevelInv(l)
  BY DeliverShifts DEF GapInv
<1>3. \A i \in 1..(n - 1) : /\ Touches(i, l)' <=> Touches(i + 1, l)
                            /\ Brings(i, l)' = Brings(i + 1, l)
                            /\ Wipes(i, l)' <=> Wipes(i + 1, l)
  BY <1>1, SameMessage
<1>4. At(Copied', l) = IF Touches(1, l) THEN Brings(1, l) ELSE At(Copied, l)
  BY DeliverHandles, HandledAt DEF At
<1>5. /\ Touches(1, l) /\ Wipes(1, l) => l \in wiped'
      /\ ~Touches(1, l) /\ l \in wiped => l \in wiped'
  <2>1. Head(channel) = channel[1]
    BY DeliverShifts
  <2>2. QED
    BY <2>1 DEF Deliver, Touches, Wipes
<1>6. \A i \in 1..(n - 1) : LastTouch(i, l)' => MessageRight(i, l)'
  <2> SUFFICES ASSUME NEW i \in 1..(n - 1), LastTouch(i, l)' PROVE MessageRight(i, l)'
    OBVIOUS
  <2>1. Touches(i + 1, l)
    BY <1>3 DEF LastTouch
  <2>2. ASSUME NEW j \in 1..n, i + 1 < j PROVE ~Touches(j, l)
    <3>1. j - 1 \in 1..(n - 1) /\ i < j - 1 /\ (j - 1) + 1 = j
      BY <1>1, <2>2
    <3>2. ~Touches(j - 1, l)'
      BY <1>1, <3>1 DEF LastTouch
    <3>3. QED
      BY <1>3, <3>1, <3>2
  <2>3. i + 1 \in 1..n /\ LastTouch(i + 1, l)
    BY <1>1, <2>1, <2>2 DEF LastTouch
  <2>4. MessageRight(i + 1, l)
    BY <1>2, <2>3 DEF LevelInv
  <2>5. QED
    BY <1>1, <1>3, <2>4 DEF MessageRight, At
<1>7. ASSUME \A i \in 1..(n - 1) : ~Touches(i, l)' PROVE CopyRight(l)'
  <2>1. \A j \in 1..n : 1 < j => ~Touches(j, l)
    <3> TAKE j \in 1..n
    <3> HAVE 1 < j
    <3>1. j - 1 \in 1..(n - 1) /\ (j - 1) + 1 = j
      BY <1>1
    <3>2. QED
      BY <1>3, <1>7, <3>1
  <2>2. CASE Touches(1, l)
    <3>1. 1 \in 1..n /\ LastTouch(1, l)
      BY <1>1, <2>1, <2>2 DEF LastTouch
    <3>2. MessageRight(1, l)
      BY <1>2, <3>1 DEF LevelInv
    <3>3. QED
      BY <1>1, <1>4, <1>5, <2>2, <3>2 DEF MessageRight, CopyRight, At
  <2>3. CASE ~Touches(1, l)
    <3>1. \A j \in 1..n : ~Touches(j, l)
      BY <1>1, <2>1, <2>3
    <3>2. CopyRight(l)
      BY <1>2, <3>1 DEF LevelInv
    <3>3. QED
      BY <1>1, <1>4, <1>5, <2>3, <3>2 DEF CopyRight, At
  <2>4. QED
    BY <2>2, <2>3
<1>8. QED
  BY <1>1, <1>6, <1>7 DEF LevelInv

\* The first message of a connection either sets every level, or is passed
\* over and leaves the gaps there are.
LEMMA ConnectKeepsGaps ==
  ASSUME TypeInv, GapInv, Connect
  PROVE  GapInv'
<1> SUFFICES ASSUME NEW l \in Level, l \notin unsent' PROVE LevelInv(l)'
  BY DEF GapInv
<1>1. channel = <<>> /\ channel' = Opening /\ UNCHANGED <<kind, venue, book, wiped>>
      /\ unsent' = IF \A i \in DOMAIN Opening : Ignores(Opening[i]) THEN unsent ELSE {}
  BY DEF Connect, TypeInv
<1>2. DOMAIN Opening = 1..Len(Opening) /\ Len(Opening) \in {0, 1}
  BY OpeningIsTyped, Len(<<>>) = 0
<1>3. \A i \in 1..Len(Opening) : Ignores(channel[i])' <=> Ignores(Opening[i])
  BY <1>1 DEF Ignores
<1>4. CASE \A i \in DOMAIN Opening : Ignores(Opening[i])
  <2>1. CopyRight(l)
    BY <1>1, <1>4 DEF GapInv, LevelInv
  <2>2. CopyRight(l)'
    BY <1>1, <2>1 DEF CopyRight, At, Copied
  <2>3. \A i \in 1..Len(channel') : ~Touches(i, l)'
    BY <1>1, <1>2, <1>3, <1>4 DEF Touches
  <2>4. QED
    BY <2>2, <2>3 DEF LevelInv, LastTouch
<1>5. CASE ~\A i \in DOMAIN Opening : Ignores(Opening[i])
  <2>1. Len(Opening) = 1 /\ ~Ignores(Opening[1])
    BY <1>2, <1>5
  <2>2. kind \notin {"binance", "dydx"} /\ Opening[1].type = "snapshot"
        /\ Opening[1].ups = Whole(venue)
    BY <2>1, OpeningIsTyped, Len(<<>>) = 0 DEF Ignores
  <2>3. Touches(1, l)'
    BY <1>1, <1>2, <1>3, <2>1, <2>2 DEF Touches, IsSnapshot
  <2>4. MessageRight(1, l)'
    <3>1. SnapshotLevels(Whole(venue)) = venue
      BY WholeIsSnapshot DEF TypeInv
    <3>2. At(venue, l) = IF l \in LevelsOf(Whole(venue)) THEN At(Whole(venue), l) ELSE 0
      BY <3>1 DEF SnapshotLevels, At, LevelsOf, Level
    <3>3. QED
      BY <1>1, <2>2, <3>2 DEF MessageRight, Brings, At
  <2>5. QED
    BY <1>1, <2>1, <2>3, <2>4 DEF LevelInv
<1>6. QED
  BY <1>4, <1>5

\* What is lost with a connection is counted as unsent.
LEMMA LoseKeepsGaps ==
  ASSUME TypeInv, GapInv, NEW place \in {"down", "crashed"}, Lose(place)
  PROVE  GapInv'
<1> SUFFICES ASSUME NEW l \in Level, l \notin unsent' PROVE LevelInv(l)'
  BY DEF GapInv
<1>1. channel' = <<>> /\ UNCHANGED <<venue, book, wiped>> /\ l \notin unsent /\ l \notin LostLevels
  BY DEF Lose
<1>2. \A i \in 1..Len(channel) : ~Touches(i, l)
  <2> TAKE i \in 1..Len(channel)
  <2>1. channel[i] \in ToSet(channel)
    BY DEF TypeInv, ToSet
  <2>2. l \notin IF IsSnapshot(channel[i]) THEN Level ELSE LevelsOf(channel[i].ups)
    BY <1>1, <2>1 DEF LostLevels
  <2>3. QED
    BY <2>2 DEF Touches
<1>3. CopyRight(l)
  BY <1>1, <1>2 DEF GapInv, LevelInv
<1>4. CopyRight(l)'
  BY <1>1, <1>3 DEF CopyRight, At, Copied
<1>5. QED
  BY <1>1, <1>4 DEF LevelInv

\* A step that moves neither books nor messages keeps the gaps there are.
LEMMA IdleKeepsGaps ==
  ASSUME GapInv, UNCHANGED <<kind, venue, channel, book, unsent, wiped>>
  PROVE  GapInv'
<1>1. kind' = kind /\ channel' = channel /\ venue' = venue /\ Copied' = Copied
      /\ wiped' = wiped /\ unsent' = unsent
  BY DEF Copied
<1>2. ASSUME NEW l PROVE LevelInv(l) => LevelInv(l)'
  <2> PICK n : n = Len(channel)
    OBVIOUS
  <2>1. Len(channel) = n /\ Len(channel') = n
    BY <1>1
  <2>2. \A i \in 1..n : /\ Touches(i, l)' <=> Touches(i, l)
                        /\ Brings(i, l)' = Brings(i, l)
                        /\ Wipes(i, l)' <=> Wipes(i, l)
    BY <1>1, SameMessage
  <2>3. CopyRight(l)' <=> CopyRight(l)
    BY <1>1 DEF CopyRight, At
  <2>4. \A i \in 1..n : LastTouch(i, l)' <=> LastTouch(i, l)
    BY <2>1, <2>2 DEF LastTouch
  <2>5. \A i \in 1..n : MessageRight(i, l)' <=> MessageRight(i, l)
    BY <1>1, <2>2 DEF MessageRight, At
  <2>6. QED
    BY <2>1, <2>2, <2>3, <2>4, <2>5 DEF LevelInv
<1>3. QED
  BY <1>1, <1>2 DEF GapInv

LEMMA FeedKeepsGaps == TypeInv /\ GapInv /\ [Next]_vars => GapInv'
<1> SUFFICES ASSUME TypeInv, GapInv, [Next]_vars PROVE GapInv'
  OBVIOUS
<1>1. CASE UNCHANGED vars
  BY <1>1, IdleKeepsGaps DEF vars
<1>2. CASE Drop \/ Malformed
  BY <1>2, LoseKeepsGaps DEF Drop, Malformed
<1>3. CASE Refuse
  BY <1>3, IdleKeepsGaps DEF Refuse
<1>4. QED
  BY <1>2, <1>3, <1>1, ChangeKeepsGaps, DeliverKeepsGaps, ConnectKeepsGaps DEF Next

LEMMA FeedInitGaps == Init => GapInv
<1> SUFFICES ASSUME Init, NEW l \in Level, l \notin unsent PROVE LevelInv(l)
  BY DEF GapInv
<1>1. channel = <<>> /\ venue \in Books /\ book = EmptyBook /\ l \notin LevelsOf(Whole(venue))
  BY FeedAssumption DEF Init
<1>2. At(venue, l) = 0
  BY <1>1 DEF LevelsOf, Whole, Level, At, Books
<1>3. At(Copied, l) = 0
  BY <1>1 DEF Copied, EmptyBook, EmptyLadder, At, Level
<1>4. QED
  BY <1>1, <1>2, <1>3 DEF LevelInv, CopyRight

\* Whatever the connector and whatever it lost: when every message is
\* handled, a level of the copy that differs from the venue's is one whose
\* change no message of the connection carried - Kraken's that left the depth
\* among them - or one that a change with both keys, taken for a snapshot,
\* wiped (binance.py:66-88, dydx.py:69-87, kraken.py:56-79, lighter.py:95-106).
THEOREM GapsAreExplained == Spec => []GapsExplained
<1>1. GapInv => GapsExplained
  <2> SUFFICES ASSUME GapInv, channel = <<>>, NEW l \in Level, l \notin unsent
               PROVE  Copied[l[1]][l[2]] = venue[l[1]][l[2]] \/ l \in wiped
    BY DEF GapsExplained
  <2>1. QED
    BY DEF GapInv, LevelInv, CopyRight, At
<1>2. QED
  BY <1>1, FeedInitTyped, FeedInitGaps, FeedKeepsType, FeedKeepsGaps, PTL DEF Spec
=============================================================================
