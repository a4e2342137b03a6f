------------------------------ MODULE OrderBook ------------------------------
(***************************************************************************)
(* core/orderbook.py: one side of a book (PriceLadder) and a book.  The    *)
(* methods never await, so each is an operator from a ladder to the next   *)
(* one.  Prices and quantities are integers; a price that is not a key of  *)
(* the dict has quantity 0.                                                *)
(***************************************************************************)
EXTENDS Integers, SequencesExt

CONSTANT Prices

ASSUME PricesAssumption == Prices \subseteq Nat \ {0} /\ IsFiniteSet(Prices)

Sides == {"bids", "asks"}

\* What a message says of a book: new quantities of prices, on each side
IsUpdate(ups) ==
  /\ ups = [side \in Sides |-> ups[side]]
  /\ \A side \in Sides :
       DOMAIN ups[side] \subseteq Prices /\ ups[side] \in [DOMAIN ups[side] -> Nat]

\* _levels, the sorted arrays _prices and _qtys, and _dirty
Ladder ==
  [levels : [Prices -> Nat], prices : Seq(Prices), qtys : Seq(Nat), dirty : BOOLEAN]

EmptyLadder ==
  [levels |-> [p \in Prices |-> 0], prices |-> <<>>, qtys |-> <<>>, dirty |-> TRUE]

EmptyBook == [side \in Sides |-> EmptyLadder]

\* _descending: the best bid is the highest, the best ask the lowest.
Better(side, p, q) == IF side = "bids" THEN p > q ELSE p < q

\* The keys of the dict, best first
Sorted(side, levels) ==
  LET keys == {p \in Prices : levels[p] # 0}
  IN  CHOOSE s \in [1..Cardinality(keys) -> keys] :
        \A i, j \in DOMAIN s : i < j => Better(side, s[i], s[j])

\* _rebuild
Rebuild(side, ladder) ==
  LET prices == Sorted(side, ladder.levels)
  IN  IF ladder.dirty
        THEN [levels |-> ladder.levels, prices |-> prices, dirty |-> FALSE,
              qtys |-> [i \in DOMAIN prices |-> ladder.levels[prices[i]]]]
        ELSE ladder

NoLevel == [price |-> 0, qty |-> 0]

\* The price apply_delta compares: none while the arrays are dirty.
TopPrice(ladder) ==
  IF ladder.dirty \/ ladder.prices = <<>> THEN NoLevel.price ELSE Head(ladder.prices)

\* PriceLadder.apply_delta; `ups` maps the prices of the message to their
\* new quantities, and 0 removes a level.
DeltaLadder(side, ladder, ups) ==
  IF DOMAIN ups = {} THEN ladder
  ELSE Rebuild(side, [ladder EXCEPT
         !.levels = [p \in Prices |-> IF p \in DOMAIN ups THEN ups[p] ELSE @[p]],
         !.dirty = TRUE])

\* Its return value: the price at the top is another one.
TopMoved(side, ladder, ups) == TopPrice(ladder) # TopPrice(DeltaLadder(side, ladder, ups))

\* Mutant: the arrays are not marked dirty, so the old ones stay.
SnapshotUnmarked(side, ladder, ups) ==
  Rebuild(side, [ladder EXCEPT
    !.levels = [p \in Prices |-> IF p \in DOMAIN ups THEN ups[p] ELSE 0]])

\* PriceLadder.apply_snapshot
SnapshotLadder(side, ladder, ups) ==
  Rebuild(side, [ladder EXCEPT
    !.levels = [p \in Prices |-> IF p \in DOMAIN ups THEN ups[p] ELSE 0],
    !.dirty = TRUE])

-----------------------------------------------------------------------------
\* Books

DeltaBook(book, ups) ==
  [side \in Sides |-> DeltaLadder(side, book[side], ups[side])]

SnapshotBook(book, ups) ==
  [side \in Sides |-> SnapshotLadder(side, book[side], ups[side])]

\* Mutant: a book has moved when both of its tops have.
BothTopsMoved(book, ups) == \A side \in Sides : TopMoved(side, book[side], ups[side])

\* OrderBook.apply_delta returns True
BookMoved(book, ups) == \E side \in Sides : TopMoved(side, book[side], ups[side])

\* top(): the best price and its quantity
Top(ladder) ==
  IF ladder.prices = <<>> THEN NoLevel
  ELSE [price |-> Head(ladder.prices), qty |-> Head(ladder.qtys)]

\* bbo(), which is None unless both sides have a top
BBO(book) == [side \in Sides |-> Top(book[side])]
NoBBO(book) == \E side \in Sides : Top(book[side]) = NoLevel

-----------------------------------------------------------------------------
\* Walking a ladder

\* np.cumsum(_qtys)[i - 1], 0 for i = 1: what the levels before i hold
Before(ladder, i) == SumFunctionOnSet(ladder.qtys, 1..(i - 1))

\* What the levels before i cost: np.dot(_prices[:idx], _qtys[:idx])
CostBefore(ladder, i) ==
  SumFunctionOnSet([j \in DOMAIN ladder.qtys |-> ladder.prices[j] * ladder.qtys[j]], 1..(i - 1))

\* searchsorted(cumsum, target, side="left"), at most the last level: the
\* first level whose cumulative quantity reaches the target.
LastLevel(ladder, target) ==
  CHOOSE i \in DOMAIN ladder.qtys :
    /\ Before(ladder, i) < target
    /\ i = Len(ladder.qtys) \/ Before(ladder, i + 1) >= target

\* Mutant: the last level is taken whole.
SweepWholeLevels(ladder, target) ==
  IF ladder.prices = <<>> \/ target <= 0 THEN [cost |-> 0, filled |-> 0]
  ELSE LET last == LastLevel(ladder, target)
       IN  [cost   |-> CostBefore(ladder, last + 1),
            filled |-> Before(ladder, last + 1)]

\* sweep: what target_qty costs and how much of it the ladder fills; the
\* code returns their quotient, the vwap, instead of the cost.
Sweep(ladder, target) ==
  IF ladder.prices = <<>> \/ target <= 0 THEN [cost |-> 0, filled |-> 0]
  ELSE LET last == LastLevel(ladder, target)
           left == target - Before(ladder, last)
           part == IF left < ladder.qtys[last] THEN left ELSE ladder.qtys[last]
       IN  [cost   |-> CostBefore(ladder, last) + ladder.prices[last] * part,
            filled |-> Before(ladder, last) + part]
=============================================================================
