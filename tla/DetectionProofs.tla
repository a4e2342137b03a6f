---------------------------- MODULE DetectionProofs ----------------------------
(***************************************************************************)
(* The ladders and the wake-ups, for every configuration of books and      *)
(* pairs and all messages.  The comparison apply_delta makes ignores       *)
(* arrays that are dirty, so that no wake-up is lost only because they are *)
(* dirty while a ladder is empty, which is part of the ladders' agreement. *)
(* A sweep is best by exchange: a filling that takes less than it of a     *)
(* level takes as much more of levels that are no better.                  *)
(***************************************************************************)
EXTENDS DetectionLoop, DataLemmas

-----------------------------------------------------------------------------
\* A ladder

\* The keys of the dict _levels
Keys(levels) == {p \in Prices : levels[p] # 0}

\* A ladder between two calls
Agrees(side, ladder) == ladder \in Ladder /\ SortedAsTheDict(side, ladder)

\* _rebuild lists the keys of the dict, each once and best first.
LEMMA SortedLists ==
  ASSUME NEW side \in Sides, NEW levels
  PROVE  LET n == Cardinality(Keys(levels))
             s == Sorted(side, levels)
         IN  /\ n \in Nat
             /\ s \in [1..n -> Keys(levels)]
             /\ \A i, j \in 1..n : i < j => Better(side, s[i], s[j])
             /\ \A p \in Keys(levels) : \E i \in 1..n : s[i] = p
<1> DEFINE n == Cardinality(Keys(levels))
           s == Sorted(side, levels)
<1>1. IsFiniteSet(Keys(levels)) /\ n \in Nat /\ Keys(levels) \in SUBSET Nat
  BY PricesAssumption, FS_Subset, FS_CardinalityType DEF Keys
<1>2. \E t \in [1..n -> Keys(levels)] : \A i, j \in 1..n : i < j => Better(side, t[i], t[j])
  BY <1>1, SortedListings DEF Better, Sides
<1>3. s \in [1..n -> Keys(levels)] /\ \A i, j \in 1..n : i < j => Better(side, s[i], s[j])
  <2>1. s = CHOOSE t \in [1..n -> Keys(levels)] :
              \A i, j \in DOMAIN t : i < j => Better(side, t[i], t[j])
    BY DEF Sorted, Keys
  <2> HIDE DEF s, n
  <2>2. QED
    BY <1>2, <2>1
<1> HIDE DEF s
<1>4. \A i, j \in 1..n : i # j => s[i] # s[j]
  <2>1. \A i, j \in 1..n : i < j => s[i] # s[j]
    BY <1>1, <1>3 DEF Better
  <2>2. QED
    BY <1>1, <2>1
<1>5. \A p \in Keys(levels) : \E i \in 1..n : s[i] = p
  BY <1>1, <1>3, <1>4, ListingIsOnto
<1>6. QED
  BY <1>1, <1>3, <1>5 DEF s

\* Whatever the arrays held, once they are marked dirty _rebuild makes them
\* agree with the dict.
LEMMA RebuildAgrees ==
  ASSUME NEW side \in Sides, NEW ladder \in Ladder, NEW levels \in [Prices -> Nat]
  PROVE  Agrees(side, Rebuild(side, [ladder EXCEPT !.levels = levels, !.dirty = TRUE]))
<1> DEFINE n == Cardinality(Keys(levels))
           s == Sorted(side, levels)
           q == [i \in DOMAIN s |-> levels[s[i]]]
           l == [levels |-> levels, prices |-> s, dirty |-> FALSE, qtys |-> q]
<1>1. Rebuild(side, [ladder EXCEPT !.levels = levels, !.dirty = TRUE]) = l
  BY DEF Rebuild, Ladder
<1>2. /\ n \in Nat /\ s \in [1..n -> Keys(levels)]
      /\ \A i, j \in 1..n : i < j => Better(side, s[i], s[j])
      /\ \A p \in Keys(levels) : \E i \in 1..n : s[i] = p
  BY SortedLists
<1> HIDE DEF s, n
<1>3. s \in Seq(Prices) /\ q \in Seq(Nat)
  BY <1>2 DEF Keys
<1>4. l \in Ladder
  BY <1>3 DEF Ladder
<1>5. {<<s[i], q[i]>> : i \in DOMAIN s} = {<<p, levels[p]>> : p \in Keys(levels)}
  BY <1>2
<1>6. /\ l.levels = levels /\ l.prices = s /\ l.qtys = q /\ ~l.dirty
      /\ DOMAIN s = 1..n /\ DOMAIN q = DOMAIN s
  BY <1>2
<1> HIDE DEF l, q
<1>7. SortedAsTheDict(side, l)
  BY <1>2, <1>5, <1>6 DEF SortedAsTheDict, Keys
<1>8. QED
  BY <1>1, <1>4, <1>7 DEF Agrees

\* Deltas and snapshots leave a ladder whose arrays agree with its dict.
LEMMA UpdatesAgree ==
  ASSUME NEW side \in Sides, NEW ladder, Agrees(side, ladder), NEW ups \in Messages
  PROVE  /\ Agrees(side, DeltaLadder(side, ladder, ups[side]))
         /\ Agrees(side, SnapshotLadder(side, ladder, ups[side]))
<1> DEFINE u == ups[side]
           more == [p \in Prices |-> IF p \in DOMAIN u THEN u[p] ELSE ladder.levels[p]]
           new  == [p \in Prices |-> IF p \in DOMAIN u THEN u[p] ELSE 0]
<1>1. DOMAIN u \subseteq Prices /\ u \in [DOMAIN u -> Nat] /\ ladder \in Ladder
  BY MessagesAssumption DEF IsUpdate, Agrees
<1>2. more \in [Prices -> Nat] /\ new \in [Prices -> Nat]
  BY <1>1 DEF Ladder
<1>3. /\ DeltaLadder(side, ladder, u) =
           IF DOMAIN u = {} THEN ladder
           ELSE Rebuild(side, [ladder EXCEPT !.levels = more, !.dirty = TRUE])
      /\ SnapshotLadder(side, ladder, u) =
           Rebuild(side, [ladder EXCEPT !.levels = new, !.dirty = TRUE])
  BY DEF DeltaLadder, SnapshotLadder
<1> HIDE DEF more, new
<1>4. /\ Agrees(side, Rebuild(side, [ladder EXCEPT !.levels = more, !.dirty = TRUE]))
      /\ Agrees(side, Rebuild(side, [ladder EXCEPT !.levels = new, !.dirty = TRUE]))
  BY <1>1, <1>2, RebuildAgrees
<1>5. QED
  BY <1>3, <1>4

\* The price apply_delta compares is the one bbo() shows.
LEMMA TopIsTopPrice ==
  ASSUME NEW side, NEW ladder, Agrees(side, ladder)
  PROVE  TopPrice(ladder) = Top(ladder).price
BY DEF Agrees, SortedAsTheDict, EmptyLadder, TopPrice, Top, NoLevel

\* The best level is one of the dict's, or none.
LEMMA TopType ==
  ASSUME NEW side, NEW ladder, Agrees(side, ladder)
  PROVE  Top(ladder) \in [price : Nat, qty : Nat]
<1>1. ladder.prices \in Seq(Prices) /\ ladder.levels \in [Prices -> Nat]
  BY DEF Agrees, Ladder
<1>2. CASE ladder.prices = <<>>
  BY <1>2 DEF Top, NoLevel
<1>3. CASE ladder.prices # <<>>
  <2>1. 1 \in DOMAIN ladder.prices
    BY <1>1, <1>3
  <2>2. ladder # EmptyLadder
    BY <1>3 DEF EmptyLadder
  <2>3. <<ladder.prices[1], ladder.qtys[1]>> \in
          {<<p, ladder.levels[p]>> : p \in {q \in Prices : ladder.levels[q] # 0}}
    BY <2>1, <2>2 DEF Agrees, SortedAsTheDict
  <2>4. ladder.prices[1] \in Nat /\ ladder.qtys[1] \in Nat
    BY <1>1, <2>3, PricesAssumption
  <2>5. QED
    BY <1>3, <2>4 DEF Top
<1>4. QED
  BY <1>2, <1>3
-----------------------------------------------------------------------------
\* The invariant

LoopInv == TypeOK /\ LaddersAgree /\ NoLostWakeUp

LEMMA LaddersOfInv ==
  ASSUME TypeOK, LaddersAgree
  PROVE  \A k \in Books, side \in Sides : Agrees(side, books[k][side])
BY DEF TypeOK, LaddersAgree, Agrees

\* What a scan sees has its type.
LEMMA ShownType ==
  ASSUME TypeOK, LaddersAgree
  PROVE  Shown \in [Books -> [Sides -> [price : Nat, qty : Nat]]]
BY LaddersOfInv, TopType DEF Shown, BBO

\* What the books show is their top prices, before and after a step.
LEMMA TopsOfShown ==
  Tops(Shown) = [k \in Books |-> [side \in Sides |-> Top(books[k][side]).price]]
BY DEF Tops, Shown, BBO

\* A book whose ladders are updated keeps its type and the agreement.
LEMMA BookReplaced ==
  ASSUME TypeOK, LaddersAgree, NEW k \in Books, NEW book, books' = [books EXCEPT ![k] = book],
         book = [side \in Sides |-> book[side]], \A side \in Sides : Agrees(side, book[side])
  PROVE  books' \in [Books -> [Sides -> Ladder]] /\ LaddersAgree'
<1>1. book \in [Sides -> Ladder]
  BY DEF Agrees
<1>2. \A j \in Books : books'[j] = IF j = k THEN book ELSE books[j]
  BY DEF TypeOK
<1>3. QED
  BY <1>1, <1>2, LaddersOfInv DEF TypeOK, LaddersAgree, Agrees

\* An update sets the event or leaves every top where it was.
LEMMA UpdateKeeps ==
  ASSUME LoopInv, NEW k \in Books, NEW ups \in Messages, TakeSnapshot(k, ups) \/ TakeDelta(k, ups),
         UNCHANGED <<loop, gate, seen, skipped>>
  PROVE  LoopInv'
<1>1. \A side \in Sides : Agrees(side, books[k][side])
  BY LaddersOfInv DEF LoopInv
<1>2. CASE TakeSnapshot(k, ups)
  <2> DEFINE book == SnapshotBook(books[k], ups)
  <2>1. books' = [books EXCEPT ![k] = book] /\ event' = TRUE
    BY <1>2 DEF TakeSnapshot
  <2>2. book = [side \in Sides |-> book[side]] /\ \A side \in Sides : Agrees(side, book[side])
    BY <1>1, UpdatesAgree DEF SnapshotBook
  <2> HIDE DEF book
  <2>3. books' \in [Books -> [Sides -> Ladder]] /\ LaddersAgree'
    BY <2>1, <2>2, BookReplaced DEF LoopInv
  <2>4. QED
    BY <2>1, <2>3 DEF LoopInv, TypeOK, NoLostWakeUp
<1>3. CASE TakeDelta(k, ups)
  <2> DEFINE book == DeltaBook(books[k], ups)
  <2>1. books' = [books EXCEPT ![k] = book] /\ event' = (event \/ BookMoved(books[k], ups))
    BY <1>3 DEF TakeDelta
  <2>2. \A side \in Sides : book[side] = DeltaLadder(side, books[k][side], ups[side])
    BY DEF DeltaBook
  <2>3. book = [side \in Sides |-> book[side]] /\ \A side \in Sides : Agrees(side, book[side])
    BY <1>1, <2>2, UpdatesAgree DEF DeltaBook
  <2> HIDE DEF book
  <2>4. books' \in [Books -> [Sides -> Ladder]] /\ LaddersAgree'
    BY <2>1, <2>3, BookReplaced DEF LoopInv
  <2>5. event' \in BOOLEAN
    BY <2>1 DEF LoopInv, TypeOK, BookMoved
  <2>6. ASSUME ~BookMoved(books[k], ups)
        PROVE  Tops(Shown)' = Tops(Shown)
    <3>1. \A side \in Sides : Top(book[side]).price = Top(books[k][side]).price
      BY <1>1, <2>2, <2>3, <2>6, TopIsTopPrice DEF BookMoved, TopMoved
    <3>2. \A j \in Books, side \in Sides : Top(books'[j][side]).price = Top(books[j][side]).price
      BY <2>1, <3>1 DEF LoopInv, TypeOK
    <3>3. Tops(Shown)' = [j \in Books |-> [side \in Sides |-> Top(books'[j][side]).price]]
      BY DEF Tops, Shown, BBO
    <3>4. QED
      BY <3>2, <3>3, TopsOfShown
  <2>7. Tops(seen)' = Tops(seen)
    BY DEF Tops
  <2>8. NoLostWakeUp'
    BY <2>1, <2>6, <2>7 DEF LoopInv, NoLostWakeUp
  <2>9. QED
    BY <2>4, <2>5, <2>8 DEF LoopInv, TypeOK
<1>4. QED
  BY <1>2, <1>3

LEMMA LoopInitHolds == Init => LoopInv
<1> SUFFICES ASSUME Init PROVE LoopInv
  OBVIOUS
<1>1. EmptyLadder \in Ladder
  BY DEF EmptyLadder, Ladder
<1>2. books \in [Books -> [Sides -> Ladder]] /\ LaddersAgree
  BY <1>1 DEF Init, EmptyBook, LaddersAgree, SortedAsTheDict
<1>3. Shown \in [Books -> [Sides -> [price : Nat, qty : Nat]]]
  BY DEF Init, Shown, BBO, Top, NoLevel, EmptyBook, EmptyLadder
<1>4. TypeOK
  BY <1>2, <1>3 DEF Init, TypeOK, Gate!Init
<1>5. QED
  BY <1>2, <1>4 DEF Init, LoopInv, NoLostWakeUp

LEMMA LoopStepKeeps == LoopInv /\ [Next]_vars => LoopInv'
<1> SUFFICES ASSUME LoopInv, [Next]_vars PROVE LoopInv'
  OBVIOUS
<1>1. ASSUME UNCHANGED <<books, event, loop, gate, seen, skipped>> PROVE LoopInv'
  BY <1>1 DEF LoopInv, TypeOK, LaddersAgree, NoLostWakeUp, Tops, Shown
<1>2. ASSUME NEW venue \in FeedVenues, NEW symbol \in Symbols, Update(venue, symbol)
      PROVE  LoopInv'
  <2>1. CASE UNCHANGED <<books, event>>
    BY <1>1, <1>2, <2>1 DEF Update
  <2>2. CASE ~UNCHANGED <<books, event>>
    BY <1>2, <2>2, UpdateKeeps DEF Update
  <2>3. QED
    BY <2>1, <2>2
<1>3. CASE Skip
  BY <1>3 DEF Skip, LoopInv, TypeOK, LaddersAgree, NoLostWakeUp
<1>4. CASE Look
  <2>1. seen' = Shown /\ books' = books /\ skipped' = FALSE
    BY <1>4 DEF Look
  <2>2. Tops(seen)' = Tops(Shown)' /\ LaddersAgree'
    BY <2>1 DEF Tops, Shown, LaddersAgree, LoopInv
  <2>3. TypeOK'
    BY <1>4, <2>1, ShownType DEF Look, LoopInv, TypeOK
  <2>4. QED
    BY <2>1, <2>2, <2>3 DEF LoopInv, NoLostWakeUp
<1>5. CASE Recover
  BY <1>5 DEF Recover, LoopInv, TypeOK, LaddersAgree, NoLostWakeUp, Tops, Shown
<1>6. CASE MoveGate
  <2>1. gate' \in {"active", "paused", "halted"} /\ UNCHANGED <<books, event, loop, seen, skipped>>
    BY <1>6 DEF MoveGate, Gate!Next, Gate!PauseGate, Gate!ResumeGate, Gate!HaltGate
  <2>2. QED
    BY <2>1 DEF LoopInv, TypeOK, LaddersAgree, NoLostWakeUp, Tops, Shown
<1>7. CASE UNCHANGED vars
  BY <1>1, <1>7 DEF vars
<1>8. QED
  BY <1>2, <1>3, <1>4, <1>5, <1>6, <1>7 DEF Next

LEMMA LoopInvariance == Spec => []LoopInv
BY LoopInitHolds, LoopStepKeeps, PTL DEF Spec
-----------------------------------------------------------------------------
\* The books, the flags and what a scan saw keep their types.
THEOREM LoopTypeCorrect == Spec => []TypeOK
<1>1. LoopInv => TypeOK
  BY DEF LoopInv
<1>2. QED
  BY <1>1, LoopInvariance, PTL

\* Through any mix of snapshots and deltas, on any number of prices, the
\* sorted arrays that scans and sweeps read agree with the dict that updates
\* write (orderbook.py:59-126).
THEOREM LaddersStaySorted == Spec => []LaddersAgree
<1>1. LoopInv => LaddersAgree
  BY DEF LoopInv
<1>2. QED
  BY <1>1, LoopInvariance, PTL

\* When the event is clear, the last scan saw the top prices of every book,
\* unless trading was not allowed at the last wake-up.
THEOREM NoWakeUpIsLost == Spec => []NoLostWakeUp
<1>1. LoopInv => NoLostWakeUp
  BY DEF LoopInv
<1>2. QED
  BY <1>1, LoopInvariance, PTL
-----------------------------------------------------------------------------
\* The sweep

LEMMA Products ==
  ASSUME NEW p \in Int, NEW best \in Int, NEW t \in Int, NEW u \in Int,
         \/ p <= best /\ u <= t
         \/ p >= best /\ u >= t
  PROVE  p * t + best * u <= p * u + best * t
<1>1. \A m, n \in Int : (m >= 0 /\ n >= 0) \/ (m <= 0 /\ n <= 0) => m * n >= 0
  OBVIOUS
<1>2. (p - best) * (u - t) >= 0
  BY <1>1
<1>3. (p - best) * (u - t) = p * u - p * t - best * u + best * t
  OBVIOUS
<1>4. p * u \in Int /\ p * t \in Int /\ best * u \in Int /\ best * t \in Int
  OBVIOUS
<1>5. QED
  BY <1>2, <1>3, <1>4

\* What the amounts t cost, term by term
Costs(S, p, t, pt) == \A x \in S : pt[x] = p[x] * t[x]

\* t has more than u of what is cheaper than best, and less of what is dearer.
Prefers(S, p, t, u, best) ==
  \A x \in S : /\ p[x] \in Int /\ t[x] \in Int /\ u[x] \in Int
              /\ \/ p[x] <= best /\ u[x] <= t[x]
                 \/ p[x] >= best /\ u[x] >= t[x]

\* Of two ways t and u to spread an amount, the one that has more of what is
\* cheaper than some price and less of what is dearer costs no more.
LEMMA Exchange ==
  ASSUME NEW S, IsFiniteSet(S), NEW p, NEW t, NEW u, NEW best \in Int,
         Prefers(S, p, t, u, best), SumFunctionOnSet(t, S) = SumFunctionOnSet(u, S),
         NEW pt, NEW pu, Costs(S, p, t, pt), Costs(S, p, u, pu)
  PROVE  SumFunctionOnSet(pt, S) <= SumFunctionOnSet(pu, S)
<1> USE DEF Prefers, Costs
<1> DEFINE bt == [x \in S |-> best * t[x]]
           bu == [x \in S |-> best * u[x]]
           l  == [x \in S |-> pt[x] + bu[x]]
           g  == [x \in S |-> pu[x] + bt[x]]
<1>1. \A x \in S : pt[x] \in Int /\ pu[x] \in Int /\ bt[x] \in Int /\ bu[x] \in Int
  OBVIOUS
<1>2. \A x \in S : l[x] \in Int /\ g[x] \in Int /\ l[x] <= g[x]
  <2> TAKE x \in S
  <2>1. p[x] * t[x] + best * u[x] <= p[x] * u[x] + best * t[x]
    BY Products
  <2>2. l[x] = p[x] * t[x] + best * u[x] /\ g[x] = p[x] * u[x] + best * t[x]
    OBVIOUS
  <2>3. l[x] \in Int /\ g[x] \in Int
    BY <1>1
  <2>4. QED
    BY <2>1, <2>2, <2>3
<1>3. \A x \in S : /\ bt[x] = best * t[x] /\ bu[x] = best * u[x]
                   /\ l[x] = pt[x] + bu[x] /\ g[x] = pu[x] + bt[x]
  OBVIOUS
<1> HIDE DEF bt, bu, l, g
<1>4. SumFunctionOnSet(bt, S) = SumFunctionOnSet(bu, S)
  <2>1. SumFunctionOnSet(bt, S) = best * SumFunctionOnSet(t, S)
    BY <1>3, SumScaled
  <2>2. SumFunctionOnSet(bu, S) = best * SumFunctionOnSet(u, S)
    BY <1>3, SumScaled
  <2>3. QED
    BY <2>1, <2>2
<1>5. SumFunctionOnSet(l, S) = SumFunctionOnSet(pt, S) + SumFunctionOnSet(bu, S)
  BY <1>1, <1>3, SumPlus
<1>6. SumFunctionOnSet(g, S) = SumFunctionOnSet(pu, S) + SumFunctionOnSet(bt, S)
  BY <1>1, <1>3, SumPlus
<1>7. SumFunctionOnSet(l, S) <= SumFunctionOnSet(g, S)
  BY <1>2, SumOrdered
<1>8. /\ SumFunctionOnSet(pt, S) \in Int /\ SumFunctionOnSet(pu, S) \in Int
      /\ SumFunctionOnSet(bt, S) \in Int
  BY <1>1, SumType
<1>9. QED
  BY <1>4, <1>5, <1>6, <1>7, <1>8

\* The arrays of a ladder, as a sweep reads them
Arrays(side, ladder, n) ==
  /\ n \in Nat /\ n = Len(ladder.prices)
  /\ ladder.prices \in [1..n -> Nat] /\ ladder.qtys \in [1..n -> Nat]
  /\ \A i, j \in 1..n : i < j => Better(side, ladder.prices[i], ladder.prices[j])

LEMMA ArraysOfLadder ==
  ASSUME NEW side, NEW ladder, Agrees(side, ladder)
  PROVE  Arrays(side, ladder, Len(ladder.prices))
<1>1. /\ ladder.prices \in Seq(Prices) /\ ladder.qtys \in Seq(Nat)
      /\ DOMAIN ladder.qtys = DOMAIN ladder.prices
  BY DEF Agrees, Ladder, SortedAsTheDict, EmptyLadder
<1>2. Prices \subseteq Nat
  BY PricesAssumption
<1>3. \A i, j \in DOMAIN ladder.prices : i < j => Better(side, ladder.prices[i], ladder.prices[j])
  BY <1>1 DEF Agrees, SortedAsTheDict, EmptyLadder
<1> DEFINE n == Len(ladder.prices)
<1>4. n \in Nat /\ DOMAIN ladder.prices = 1..n /\ DOMAIN ladder.qtys = 1..n
  BY <1>1
<1> HIDE DEF n
<1>5. ladder.prices \in [1..n -> Nat] /\ ladder.qtys \in [1..n -> Nat]
  <2>1. \A i \in 1..n : ladder.prices[i] \in Nat /\ ladder.qtys[i] \in Nat
    <3>1. \A T, t : t \in Seq(T) => \A i \in DOMAIN t : t[i] \in T
      OBVIOUS
    <3>2. QED
      BY <1>1, <1>2, <1>4, <3>1
  <2>2. ladder.prices = [i \in 1..n |-> ladder.prices[i]]
    BY <1>1, <1>4
  <2>3. ladder.qtys = [i \in 1..n |-> ladder.qtys[i]]
    BY <1>1, <1>4
  <2>4. QED
    BY <2>1, <2>2, <2>3
<1>6. QED
  BY <1>3, <1>4, <1>5 DEF Arrays, n

\* What the levels before one hold, and with that one
LEMMA BeforeNext ==
  ASSUME NEW side, NEW ladder, NEW n, Arrays(side, ladder, n), NEW i \in 1..n
  PROVE  /\ Before(ladder, i) \in Nat
         /\ Before(ladder, i + 1) = Before(ladder, i) + ladder.qtys[i]
         /\ Before(ladder, i + 1) \in Nat
         /\ Before(ladder, i + 1) <= Before(ladder, n + 1)
<1> DEFINE q == ladder.qtys
<1>1. n \in Nat /\ \A j \in 1..n : q[j] \in Nat
  BY DEF Arrays
<1>2. IsFiniteSet(1..(i - 1)) /\ IsFiniteSet(1..n) /\ IsFiniteSet(1..i)
  BY <1>1, FS_Interval
<1>3. 1..i = 1..(i - 1) \cup {i} /\ i \notin 1..(i - 1) /\ 1..i \subseteq 1..n
  BY <1>1
<1>4. SumFunctionOnSet(q, 1..i) = q[i] + SumFunctionOnSet(q, 1..(i - 1))
  <2>1. \A j \in 1..(i - 1) \cup {i} : q[j] \in Int
    BY <1>1, <1>3
  <2>2. SumFunctionOnSet(q, 1..(i - 1) \cup {i}) = q[i] + SumFunctionOnSet(q, 1..(i - 1))
    BY <1>2, <1>3, <2>1, SumAdd
  <2>3. QED
    BY <1>3, <2>2
<1>5. SumFunctionOnSet(q, 1..i) \in Nat /\ SumFunctionOnSet(q, 1..(i - 1)) \in Nat
  BY <1>1, <1>2, <1>3, SumType
<1>6. SumFunctionOnSet(q, 1..i) <= SumFunctionOnSet(q, 1..n)
  BY <1>1, <1>2, <1>3, SumOfMore
<1>7. (i + 1) - 1 = i /\ (n + 1) - 1 = n
  BY <1>1
<1>8. QED
  BY <1>1, <1>4, <1>5, <1>6, <1>7 DEF Before

\* searchsorted finds a level.
LEMMA LastLevelFound ==
  ASSUME NEW side, NEW ladder, NEW n, Arrays(side, ladder, n), n > 0,
         NEW target \in Nat, target > 0
  PROVE  LET last == LastLevel(ladder, target)
         IN  /\ last \in 1..n /\ Before(ladder, last) < target
             /\ last = n \/ Before(ladder, last + 1) >= target
<1> DEFINE Enough == {i \in 1..n : i = n \/ Before(ladder, i + 1) >= target}
           Fits(i) == Before(ladder, i) < target /\ (i = n \/ Before(ladder, i + 1) >= target)
<1>1. n \in Nat /\ DOMAIN ladder.qtys = 1..n /\ Len(ladder.qtys) = n
  <2>1. ladder.qtys \in [1..n -> Nat] /\ n \in Nat
    BY DEF Arrays
  <2>2. QED
    BY <2>1
<1>2. PICK m \in Enough : \A k \in Enough : m <= k
  <2>1. n \in Enough /\ Enough \in SUBSET Nat
    BY <1>1
  <2>2. QED
    BY <2>1, LeastNatural
<1>3. Before(ladder, m) < target
  <2>1. CASE m = 1
    <3>1. Before(ladder, m) = 0
      BY <2>1, SumOfNone DEF Before
    <3>2. QED
      BY <3>1
  <2>2. CASE m # 1
    <3>1. m - 1 \in 1..n /\ m - 1 \notin Enough /\ (m - 1) + 1 = m
      BY <1>1, <1>2, <2>2
    <3>2. Before(ladder, m) \in Nat /\ ~(Before(ladder, m) >= target)
      BY <1>2, <3>1, BeforeNext
    <3>3. QED
      BY <3>2
  <2>3. QED
    BY <2>1, <2>2
<1>4. m \in 1..n /\ Fits(m)
  BY <1>2, <1>3
<1>5. LastLevel(ladder, target) = CHOOSE i \in 1..n : Fits(i)
  BY <1>1 DEF LastLevel
<1> HIDE DEF Fits
<1>6. LastLevel(ladder, target) \in 1..n /\ Fits(LastLevel(ladder, target))
  BY <1>4, <1>5
<1>7. QED
  BY <1>6 DEF Fits

\* What a sweep takes of each level: all of those before the last
Taken(ladder, last, part) ==
  [i \in DOMAIN ladder.qtys |-> IF i < last THEN ladder.qtys[i] ELSE IF i = last THEN part ELSE 0]

\* A sum over the levels of which only those up to the last count
LEMMA SumToLast ==
  ASSUME NEW n \in Nat, NEW last \in 1..n, NEW f, NEW q, \A i \in 1..n : f[i] \in Int,
         \A i \in 1..n : i < last => f[i] = q[i],
         \A i \in 1..n : i > last => f[i] = 0
  PROVE  SumFunctionOnSet(f, 1..n) = SumFunctionOnSet(q, 1..(last - 1)) + f[last]
<1>1. IsFiniteSet(1..n) /\ IsFiniteSet(1..last) /\ IsFiniteSet(1..(last - 1))
  BY FS_Interval
<1>2. /\ 1..last \subseteq 1..n /\ \A i \in 1..n \ 1..last : f[i] = 0
      /\ 1..last = 1..(last - 1) \cup {last} /\ last \notin 1..(last - 1)
      /\ \A i \in 1..(last - 1) : f[i] = q[i] /\ f[i] \in Int
  OBVIOUS
<1>3. SumFunctionOnSet(f, 1..n) = SumFunctionOnSet(f, 1..last)
  BY <1>1, <1>2, SumOfNonzero
<1>4. SumFunctionOnSet(f, 1..last) = f[last] + SumFunctionOnSet(f, 1..(last - 1))
  BY <1>1, <1>2, SumAdd
<1>5. SumFunctionOnSet(f, 1..(last - 1)) = SumFunctionOnSet(q, 1..(last - 1))
  BY <1>1, <1>2, SumSame
<1>6. SumFunctionOnSet(f, 1..(last - 1)) \in Int
  BY <1>1, <1>2, SumType
<1>7. QED
  BY <1>3, <1>4, <1>5, <1>6

\* take is what a sweep for target takes of n levels, the last one partly.
IsTaken(ladder, n, target, last, take) ==
  /\ \A i \in 1..n : /\ i < last => take[i] = ladder.qtys[i]
                     /\ i > last => take[i] = 0
  /\ Sweep(ladder, target).filled = SumFunctionOnSet(take, 1..n)
  /\ Sweep(ladder, target).cost = Cost(ladder, take)
  /\ Sweep(ladder, target).filled
       = IF target < Before(ladder, n + 1) THEN target ELSE Before(ladder, n + 1)

\* A sweep of a ladder that has levels
LEMMA SweepTakes ==
  ASSUME NEW side, NEW ladder, NEW n, Arrays(side, ladder, n), n > 0,
         NEW target \in Nat, target > 0
  PROVE  \E last \in 1..n, take \in [1..n -> Nat] : IsTaken(ladder, n, target, last, take)
<1> DEFINE last == LastLevel(ladder, target)
           left == target - Before(ladder, last)
           part == IF left < ladder.qtys[last] THEN left ELSE ladder.qtys[last]
           take == Taken(ladder, last, part)
           q    == ladder.qtys
           p    == ladder.prices
<1>1. /\ n \in Nat /\ q \in [1..n -> Nat] /\ p \in [1..n -> Nat] /\ DOMAIN q = 1..n
      /\ p # <<>>
  <2>1. n = Len(p) /\ Len(<<>>) = 0
    BY DEF Arrays
  <2>2. QED
    BY <2>1 DEF Arrays
<1>2. /\ last \in 1..n /\ Before(ladder, last) < target
      /\ last = n \/ Before(ladder, last + 1) >= target
  BY LastLevelFound
<1>3. /\ Before(ladder, last) \in Nat /\ q[last] \in Nat
      /\ Before(ladder, last + 1) = Before(ladder, last) + q[last]
      /\ Before(ladder, last + 1) <= Before(ladder, n + 1)
      /\ Before(ladder, n + 1) \in Nat
  <2>1. n \in 1..n /\ q[last] \in Nat
    BY <1>1, <1>2
  <2>2. QED
    BY <1>2, <2>1, BeforeNext
<1>4. /\ Sweep(ladder, target).cost = CostBefore(ladder, last) + p[last] * part
      /\ Sweep(ladder, target).filled = Before(ladder, last) + part
  BY <1>1 DEF Sweep
<1> HIDE DEF last
<1>5. part \in Nat /\ part <= q[last]
  BY <1>2, <1>3
<1>6. Before(ladder, last) + part
        = IF target < Before(ladder, n + 1) THEN target ELSE Before(ladder, n + 1)
  BY <1>1, <1>2, <1>3
<1> HIDE DEF part
<1>7. /\ take \in [1..n -> Nat] /\ take[last] = part
      /\ \A i \in 1..n : take[i] \in Int
      /\ \A i \in 1..n : i < last => take[i] = q[i]
      /\ \A i \in 1..n : i > last => take[i] = 0
  BY <1>1, <1>2, <1>5 DEF Taken
<1> HIDE DEF take
<1>8. SumFunctionOnSet(take, 1..n) = Before(ladder, last) + part
  <2> HIDE DEF q
  <2>1. SumFunctionOnSet(take, 1..n) = SumFunctionOnSet(q, 1..(last - 1)) + take[last]
    BY <1>1, <1>2, <1>7, SumToLast
  <2>2. QED
    BY <1>7, <2>1 DEF Before, q
<1>9. Cost(ladder, take) = CostBefore(ladder, last) + p[last] * part
  <2> DEFINE c == [i \in DOMAIN take |-> p[i] * take[i]]
             b == [i \in DOMAIN q |-> p[i] * q[i]]
  <2>1. /\ \A i \in 1..n : c[i] \in Int
        /\ \A i \in 1..n : i < last => c[i] = b[i]
        /\ \A i \in 1..n : i > last => c[i] = 0
        /\ c[last] = p[last] * part
        /\ DOMAIN c = 1..n
    <3>1. \A i \in 1..n : c[i] = p[i] * take[i] /\ b[i] = p[i] * q[i]
      BY <1>1, <1>7
    <3>2. \A i \in 1..n : p[i] \in Nat /\ take[i] \in Nat
      BY <1>1, <1>7
    <3>3. \A m \in Nat : m * 0 = 0
      OBVIOUS
    <3>4. \A l, m \in Nat : l * m \in Int
      OBVIOUS
    <3>5. DOMAIN c = 1..n
      BY <1>7
    <3> HIDE DEF c, b
    <3>6. QED
      BY <1>2, <1>7, <3>1, <3>2, <3>3, <3>4, <3>5
  <2>2. Cost(ladder, take) = SumFunctionOnSet(c, 1..n)
        /\ CostBefore(ladder, last) = SumFunctionOnSet(b, 1..(last - 1))
    BY <2>1 DEF Cost, SumFunction, CostBefore
  <2> HIDE DEF c, b
  <2>3. SumFunctionOnSet(c, 1..n) = SumFunctionOnSet(b, 1..(last - 1)) + c[last]
    BY <1>1, <1>2, <2>1, SumToLast
  <2>4. QED
    BY <2>1, <2>2, <2>3
<1>10. QED
  <2>1. SumFunctionOnSet(take, 1..n) = Sweep(ladder, target).filled
    BY <1>4, <1>8
  <2>2. Sweep(ladder, target).cost = Cost(ladder, take)
    BY <1>4, <1>9
  <2>3. IsTaken(ladder, n, target, last, take)
    BY <1>4, <1>6, <1>7, <2>1, <2>2 DEF IsTaken
  <2>4. QED
    BY <1>2, <1>7, <2>3

\* Nothing is filled of an empty ladder, and nothing of a target of 0.
LEMMA SweepOfNone ==
  ASSUME NEW side, NEW ladder, NEW n, Arrays(side, ladder, n), NEW target \in Nat,
         n = 0 \/ target = 0
  PROVE  /\ Sweep(ladder, target) = [cost |-> 0, filled |-> 0]
         /\ \A take \in Fills(ladder, 0) : Cost(ladder, take) = 0
         /\ Before(ladder, n + 1) \in Nat /\ (n = 0 => Before(ladder, n + 1) = 0)
<1>1. n \in Nat /\ ladder.prices \in [1..n -> Nat] /\ n = Len(ladder.prices)
  BY DEF Arrays
<1>2. n = 0 => ladder.prices = <<>>
  BY <1>1
<1>3. Sweep(ladder, target) = [cost |-> 0, filled |-> 0]
  BY <1>2 DEF Sweep
<1>4. ASSUME NEW take \in Fills(ladder, 0) PROVE Cost(ladder, take) = 0
  <2> DEFINE c == [i \in DOMAIN take |-> ladder.prices[i] * take[i]]
  <2>1. take \in [1..n -> 0..0] /\ DOMAIN take = 1..n
    BY <1>1 DEF Fills
  <2>2. \A i \in 1..n : c[i] = 0
    BY <1>1, <2>1
  <2>3. DOMAIN c = 1..n
    BY <2>1
  <2>4. Cost(ladder, take) = SumFunctionOnSet(c, 1..n)
    BY <2>3 DEF Cost, SumFunction
  <2> HIDE DEF c
  <2>5. SumFunctionOnSet(c, 1..n) = SumFunctionOnSet(c, {})
    <3>1. IsFiniteSet(1..n) /\ {} \in SUBSET (1..n)
      BY <1>1, FS_Interval
    <3>2. \A i \in 1..n : c[i] \in Int
      BY <2>2
    <3>3. QED
      BY <2>2, <3>1, <3>2, SumOfNonzero
  <2>6. QED
    BY <2>4, <2>5, SumOfNone
<1>5. Before(ladder, n + 1) \in Nat /\ (n = 0 => Before(ladder, n + 1) = 0)
  <2>1. (n + 1) - 1 = n /\ IsFiniteSet(1..n) /\ \A i \in 1..n : ladder.qtys[i] \in Nat
    <3>1. ladder.qtys \in [1..n -> Nat]
      BY DEF Arrays
    <3>2. IsFiniteSet(1..n)
      BY <1>1, FS_Interval
    <3>3. QED
      BY <1>1, <3>1, <3>2
  <2>2. SumFunctionOnSet(ladder.qtys, 1..n) \in Nat
    BY <2>1, SumType
  <2>3. n = 0 => 1..n = {}
    OBVIOUS
  <2>4. QED
    BY <2>1, <2>2, <2>3, SumOfNone DEF Before
<1>6. QED
  BY <1>3, <1>4, <1>5

\* The depth of a ladder is what the levels before its end hold.
LEMMA DepthIsBefore ==
  ASSUME NEW side, NEW ladder, NEW n, Arrays(side, ladder, n)
  PROVE  SumFunction(ladder.qtys) = Before(ladder, n + 1)
<1>1. DOMAIN ladder.qtys = 1..n /\ (n + 1) - 1 = n
  BY DEF Arrays
<1>2. QED
  BY <1>1 DEF Before, SumFunction

\* Any other way to fill as much of a ladder as a sweep does costs no less.
LEMMA SweepCost ==
  ASSUME NEW side \in Sides, NEW ladder, NEW n, Arrays(side, ladder, n),
         NEW target \in Nat, NEW other \in Fills(ladder, Sweep(ladder, target).filled)
  PROVE  IF side = "bids" THEN Sweep(ladder, target).cost >= Cost(ladder, other)
                          ELSE Sweep(ladder, target).cost <= Cost(ladder, other)
<1> DEFINE p == ladder.prices
           q == ladder.qtys
           sweep == Sweep(ladder, target)
<1>1. CASE n = 0 \/ target = 0
  <2>1. sweep.filled = 0 /\ sweep.cost = 0 /\ Cost(ladder, other) = 0
    BY <1>1, SweepOfNone
  <2>2. QED
    BY <2>1
<1>2. CASE ~(n = 0 \/ target = 0)
  <2>1. n \in Nat /\ n > 0 /\ target > 0 /\ DOMAIN p = 1..n /\ IsFiniteSet(1..n)
        /\ \A i \in 1..n : p[i] \in Nat /\ q[i] \in Nat
    <3>1. n \in Nat /\ p \in [1..n -> Nat] /\ q \in [1..n -> Nat]
      BY DEF Arrays
    <3>2. IsFiniteSet(1..n)
      BY <3>1, FS_Interval
    <3>3. n > 0 /\ target > 0
      BY <1>2, <3>1
    <3>4. QED
      BY <3>1, <3>2, <3>3
  <2>2. PICK last \in 1..n, take \in [1..n -> Nat] : IsTaken(ladder, n, target, last, take)
    BY <2>1, SweepTakes
  <2>3. /\ \A i \in 1..n : /\ i < last => take[i] = q[i]
                           /\ i > last => take[i] = 0
        /\ sweep.filled = SumFunctionOnSet(take, 1..n) /\ sweep.cost = Cost(ladder, take)
    BY <2>2 DEF IsTaken
  <2>4. /\ DOMAIN other = 1..n
        /\ \A i \in 1..n : other[i] \in Nat /\ other[i] <= q[i]
        /\ SumFunctionOnSet(other, 1..n) = sweep.filled
    <3>1. /\ other \in [1..n -> 0..sweep.filled] /\ SumFunction(other) = sweep.filled
          /\ \A i \in DOMAIN other : other[i] <= q[i]
      BY <2>1 DEF Fills
    <3> HIDE DEF sweep
    <3>2. DOMAIN other = 1..n /\ \A i \in 1..n : other[i] \in Nat
      BY <3>1
    <3>3. QED
      BY <3>1, <3>2 DEF SumFunction
  <2> DEFINE pt == [i \in DOMAIN take |-> p[i] * take[i]]
             pu == [i \in DOMAIN other |-> p[i] * other[i]]
             best == p[last]
  <2>5. /\ Cost(ladder, take) = SumFunctionOnSet(pt, 1..n)
        /\ Cost(ladder, other) = SumFunctionOnSet(pu, 1..n)
        /\ Costs(1..n, p, take, pt) /\ Costs(1..n, p, other, pu)
    <3>1. DOMAIN pt = 1..n /\ DOMAIN pu = 1..n
      BY <2>4
    <3>2. QED
      BY <2>4, <3>1 DEF Cost, SumFunction, Costs
  <2>6. /\ best \in Int
        /\ \A i \in 1..n : p[i] \in Int /\ take[i] \in Int /\ other[i] \in Int
        /\ \A i \in 1..n : i < last => other[i] <= take[i]
        /\ \A i \in 1..n : i > last => other[i] >= take[i]
    <3>1. \A i \in 1..n : /\ p[i] \in Nat /\ take[i] \in Nat /\ other[i] \in Nat
                          /\ other[i] <= q[i]
                          /\ (i < last => take[i] = q[i]) /\ (i > last => take[i] = 0)
      BY <2>1, <2>2, <2>3, <2>4
    <3> HIDE DEF p, q
    <3>2. QED
      BY <3>1
  <2>7. \A i \in 1..n : /\ i < last => Better(side, p[i], best)
                        /\ last < i => Better(side, best, p[i])
    BY DEF Arrays
  <2>8. SumFunctionOnSet(take, 1..n) = SumFunctionOnSet(other, 1..n)
    BY <2>3, <2>4
  <2> HIDE DEF pt, pu, p, q, sweep, best
  <2>9. CASE side = "bids"
    <3>1. Prefers(1..n, p, other, take, best)
      <4> SUFFICES ASSUME NEW i \in 1..n
                   PROVE  \/ p[i] <= best /\ take[i] <= other[i]
                          \/ p[i] >= best /\ take[i] >= other[i]
        BY <2>6 DEF Prefers
      <4>1. i < last \/ i = last \/ i > last
        BY <2>1
      <4>2. i = last => p[i] = best
        BY DEF best, p
      <4>3. QED
        BY <2>1, <2>6, <2>7, <2>9, <4>1, <4>2 DEF Better
    <3>2. SumFunctionOnSet(pu, 1..n) <= SumFunctionOnSet(pt, 1..n)
      BY <2>1, <2>5, <2>6, <2>8, <3>1, Exchange
    <3>3. QED
      BY <2>3, <2>5, <2>9, <3>2 DEF sweep
  <2>10. CASE side # "bids"
    <3>1. Prefers(1..n, p, take, other, best)
      <4> SUFFICES ASSUME NEW i \in 1..n
                   PROVE  \/ p[i] <= best /\ other[i] <= take[i]
                          \/ p[i] >= best /\ other[i] >= take[i]
        BY <2>6 DEF Prefers
      <4>1. i < last \/ i = last \/ i > last
        BY <2>1
      <4>2. i = last => p[i] = best
        BY DEF best, p
      <4>3. QED
        BY <2>1, <2>6, <2>7, <2>10, <4>1, <4>2 DEF Better
    <3>2. SumFunctionOnSet(pt, 1..n) <= SumFunctionOnSet(pu, 1..n)
      BY <2>1, <2>5, <2>6, <2>8, <3>1, Exchange
    <3>3. QED
      BY <2>3, <2>5, <2>10, <3>2 DEF sweep
  <2>11. QED
    BY <2>9, <2>10
<1>3. QED
  BY <1>1, <1>2

\* On any number of levels, for any quantities: a sweep fills as much of the
\* target as the ladder holds, at the best price any way of filling it has
\* (orderbook.py:88-108).
THEOREM SweepsAreBest == Spec => []SweepIsBest
<1>1. LoopInv => SweepIsBest
  <2> SUFFICES ASSUME LoopInv, NEW k \in Books, NEW side \in Sides, NEW target \in 0..MaxTarget
               PROVE  LET ladder == books[k][side]
                          sweep  == Sweep(ladder, target)
                          depth  == SumFunction(ladder.qtys)
                      IN  /\ sweep.filled = IF target < depth THEN target ELSE depth
                          /\ \A take \in Fills(ladder, sweep.filled) :
                               IF side = "bids" THEN sweep.cost >= Cost(ladder, take)
                                                ELSE sweep.cost <= Cost(ladder, take)
    BY DEF SweepIsBest
  <2> DEFINE ladder == books[k][side]
             n == Len(ladder.prices)
  <2>1. Arrays(side, ladder, n) /\ target \in Nat
    BY LaddersOfInv, ArraysOfLadder DEF LoopInv
  <2>2. SumFunction(ladder.qtys) = Before(ladder, n + 1)
    BY <2>1, DepthIsBefore
  <2>3. Sweep(ladder, target).filled
          = IF target < Before(ladder, n + 1) THEN target ELSE Before(ladder, n + 1)
    <3>1. CASE n = 0 \/ target = 0
      BY <2>1, <3>1, SweepOfNone
    <3>2. CASE ~(n = 0 \/ target = 0)
      <4>1. n > 0 /\ target > 0
        BY <2>1, <3>2 DEF Arrays
      <4> HIDE DEF ladder, n
      <4>2. PICK last \in 1..n, take \in [1..n -> Nat] : IsTaken(ladder, n, target, last, take)
        BY <2>1, <4>1, SweepTakes
      <4>3. QED
        BY <4>2 DEF IsTaken
    <3>3. QED
      BY <3>1, <3>2
  <2>4. \A take \in Fills(ladder, Sweep(ladder, target).filled) :
          IF side = "bids" THEN Sweep(ladder, target).cost >= Cost(ladder, take)
                           ELSE Sweep(ladder, target).cost <= Cost(ladder, take)
    BY <2>1, SweepCost
  <2>5. QED
    BY <2>2, <2>3, <2>4
<1>2. QED
  BY <1>1, LoopInvariance, PTL
=============================================================================
