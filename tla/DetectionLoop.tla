---------------------------- MODULE DetectionLoop ----------------------------
(***************************************************************************)
(* From a book update to a scan: OrderBookManager (core/orderbook.py), the *)
(* detection loop of engine.py and the part of OpportunityDetector.scan    *)
(* that decides whether a pair is worth a size.  Feeds deliver updates     *)
(* between any two resumptions of the loop.  From a resumption to the next *)
(* await the loop runs alone.  The trading gate is the abstract one that   *)
(* Trading is shown to implement.                                          *)
(***************************************************************************)
EXTENDS OrderBook

CONSTANTS
  Books,      \* <<venue, symbol>>: the keys of _books
  Symbols,    \* symbols a feed or a pair may name
  FeedVenues, \* venues that stream
  Pairs,      \* arb_pairs: a sequence of [buy, sell, symbol]
  FeeVenues,  \* venues with a fee model
  MaxTarget,  \* bound: the largest quantity a sweep is asked for
  Messages    \* contents a feed may deliver: [Sides -> price |-> quantity]

ASSUME PairsAssumption ==
  Pairs \in Seq([buy : STRING, sell : STRING, symbol : Symbols])

ASSUME MessagesAssumption == \A ups \in Messages : IsUpdate(ups)

VARIABLES
  books,     \* OrderBook of each key
  event,     \* _update_event
  loop,      \* where the detection loop stands
  gate,      \* the trading state
  seen,      \* what the books showed to the last scan
  skipped    \* the last wake-up did not scan: trading was not allowed

vars == <<books, event, loop, gate, seen, skipped>>

Gate == INSTANCE CircuitBreaker

\* The best levels of every book
Shown == [k \in Books |-> BBO(books[k])]

Init ==
  /\ books = [k \in Books |-> EmptyBook]
  /\ event = FALSE
  /\ loop = "waiting"
  /\ Gate!Init
  /\ seen = Shown
  /\ skipped = FALSE

\* handle_update of a snapshot, which always sets the event
TakeSnapshot(k, ups) ==
  /\ books' = [books EXCEPT ![k] = SnapshotBook(@, ups)]
  /\ event' = TRUE

\* handle_update of a delta, which sets it when a top moved
TakeDelta(k, ups) ==
  /\ books' = [books EXCEPT ![k] = DeltaBook(@, ups)]
  /\ event' = (event \/ BookMoved(books[k], ups))

\* A feed delivers; an update for no configured book is ignored.
Update(venue, symbol) ==
  /\ \/ /\ <<venue, symbol>> \in Books
        /\ \E ups \in Messages :
             TakeSnapshot(<<venue, symbol>>, ups) \/ TakeDelta(<<venue, symbol>>, ups)
     \/ /\ <<venue, symbol>> \notin Books
        /\ UNCHANGED <<books, event>>
  /\ UNCHANGED <<loop, gate, seen, skipped>>

-----------------------------------------------------------------------------
\* The scan

BuyKey(pair)  == <<pair.buy, pair.symbol>>
SellKey(pair) == <<pair.sell, pair.symbol>>

\* _evaluate_pair up to _optimal_size: both books are there, both have a
\* BBO, and the best bid of the one is above the best ask of the other.
Crosses(pair) ==
  /\ {BuyKey(pair), SellKey(pair)} \subseteq Books
  /\ ~NoBBO(books[BuyKey(pair)]) /\ ~NoBBO(books[SellKey(pair)])
  /\ Top(books[SellKey(pair)]["bids"]).price > Top(books[BuyKey(pair)]["asks"]).price

\* _optimal_size: 0 without both fee models, otherwise `asks[:10]` raises
\* TypeError, for a PriceLadder has no subscript.
Raises(pair) == Crosses(pair) /\ {pair.buy, pair.sell} \subseteq FeeVenues

\* The pairs scan() gets through before one raises.
Evaluated ==
  CHOOSE n \in 0..Len(Pairs) :
    /\ \A i \in 1..n : ~Raises(Pairs[i])
    /\ n = Len(Pairs) \/ Raises(Pairs[n + 1])

\* wait_for_update() returns: the event is cleared.  Trading is not allowed.
Skip ==
  /\ loop = "waiting" /\ event
  /\ gate # "active"
  /\ event' = FALSE /\ skipped' = TRUE
  /\ UNCHANGED <<books, loop, gate, seen>>

\* Mutant: the error of a scan ends the loop.
LookStops ==
  /\ loop = "waiting" /\ event
  /\ gate = "active"
  /\ event' = FALSE /\ skipped' = FALSE /\ seen' = Shown
  /\ loop' = IF Evaluated = Len(Pairs) THEN "waiting" ELSE "stopped"
  /\ UNCHANGED <<books, gate>>

\* It is: the books are scanned, and after an error the loop sleeps.
Look ==
  /\ loop = "waiting" /\ event
  /\ gate = "active"
  /\ event' = FALSE /\ skipped' = FALSE /\ seen' = Shown
  /\ loop' = IF Evaluated = Len(Pairs) THEN "waiting" ELSE "asleep"
  /\ UNCHANGED <<books, gate>>

\* The sleep after an error ends.
Recover ==
  /\ loop = "asleep"
  /\ loop' = "waiting"
  /\ UNCHANGED <<books, event, gate, seen, skipped>>

\* The risk manager moves the gate.
MoveGate ==
  /\ Gate!Next
  /\ UNCHANGED <<books, event, loop, seen, skipped>>

Next ==
  \/ \E venue \in FeedVenues, symbol \in Symbols : Update(venue, symbol)
  \/ Skip
  \/ Look
  \/ Recover
  \/ MoveGate

Spec == Init /\ [][Next]_vars

\* The event loop runs the detection task whenever it is ready.
FairSpec == Spec /\ WF_vars(Skip \/ Look) /\ WF_vars(Recover)

-----------------------------------------------------------------------------
\* Properties

TypeOK ==
  /\ books \in [Books -> [Sides -> Ladder]]
  /\ event \in BOOLEAN
  /\ loop \in {"waiting", "asleep"}
  /\ gate \in {"active", "paused", "halted"}
  /\ seen \in [Books -> [Sides -> [price : Nat, qty : Nat]]]
  /\ skipped \in BOOLEAN

\* A ladder that was ever updated shows the levels of its dict, best first.
SortedAsTheDict(side, ladder) ==
  \/ ladder = EmptyLadder
  \/ /\ ~ladder.dirty /\ DOMAIN ladder.qtys = DOMAIN ladder.prices
     /\ {<<ladder.prices[i], ladder.qtys[i]>> : i \in DOMAIN ladder.prices}
          = {<<p, ladder.levels[p]>> : p \in {q \in Prices : ladder.levels[q] # 0}}
     /\ \A i, j \in DOMAIN ladder.prices :
          i < j => Better(side, ladder.prices[i], ladder.prices[j])

\* Through any mix of snapshots and deltas the sorted arrays that scans and
\* sweeps read agree with the dict that updates write (orderbook.py:59-126).
LaddersAgree ==
  \A k \in Books, side \in Sides : SortedAsTheDict(side, books[k][side])

\* The ways to fill a target from a ladder, and what one costs.
Fills(ladder, filled) ==
  {take \in [DOMAIN ladder.prices -> 0..filled] :
     /\ \A i \in DOMAIN take : take[i] <= ladder.qtys[i]
     /\ SumFunction(take) = filled}

Cost(ladder, take) == SumFunction([i \in DOMAIN take |-> ladder.prices[i] * take[i]])

\* A sweep fills as much of the target as the ladder holds, at the best
\* price any way of filling it has (orderbook.py:88-108).
SweepIsBest ==
  \A k \in Books, side \in Sides, target \in 0..MaxTarget :
    LET ladder == books[k][side]
        sweep  == Sweep(ladder, target)
        depth  == SumFunction(ladder.qtys)
    IN  /\ sweep.filled = IF target < depth THEN target ELSE depth
        /\ \A take \in Fills(ladder, sweep.filled) :
             IF side = "bids" THEN sweep.cost >= Cost(ladder, take)
                              ELSE sweep.cost <= Cost(ladder, take)

Tops(shown) == [k \in Books |-> [side \in Sides |-> shown[k][side].price]]

\* No wake-up is lost: when the event is clear, the last scan saw the top
\* prices of every book, unless trading was not allowed at the last wake-up.
\* An update that lands between the event and the scan, or while the loop
\* sleeps off an error, is seen (orderbook.py:213-222, engine.py:80-96).
NoLostWakeUp == event \/ skipped \/ Tops(seen) = Tops(Shown)

\* Every wake-up is consumed, also after a scan raised.
WakeUpsConsumed == event ~> ~event

=============================================================================
