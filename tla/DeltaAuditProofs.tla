--------------------------- MODULE DeltaAuditProofs ---------------------------
(***************************************************************************)
(* Proofs about the audit of positions, for any venues, symbols and        *)
(* trades.  While no venue traded, failed, kept its positions to itself or *)
(* gave two the same key, what the collection has got of the venues it     *)
(* asked is all they hold; added up, it is what the venues hold, whatever  *)
(* key Hyperliquid's positions have.                                       *)
(***************************************************************************)
EXTENDS DeltaAudit, DataLemmas

Answers ==
  {p \in [venue : Venues, key : Symbols \cup {"type"}, usd : -MaxHeld..MaxHeld] :
     ~ReportsNone(p.venue)}

TypeInv ==
  /\ hold \in [Venues -> [Symbols -> -MaxHeld..MaxHeld]]
  /\ trades \in 0..MaxTrades
  /\ asked \in 0..(Len(Order) + 1)
  /\ collected \subseteq Answers /\ IsFiniteSet(collected)
  /\ positions \subseteq Answers /\ IsFiniteSet(positions)
  /\ asked = 0 => collected = {} /\ missed = {}
  /\ moved \in BOOLEAN /\ warned \in BOOLEAN
  /\ netDelta \in Int

LEMMA OrderType ==
  /\ Len(Order) \in Nat /\ DOMAIN Order = 1..Len(Order)
  /\ Venues = {Order[i] : i \in 1..Len(Order)}
  /\ IsFiniteSet(Venues)
<1>1. /\ Len(Order) \in Nat /\ DOMAIN Order = 1..Len(Order)
      /\ Venues = {Order[i] : i \in 1..Len(Order)}
  BY AuditAssumption DEF Venues, ToSet
<1>2. IsFiniteSet(1..Len(Order))
  BY <1>1, FS_Interval
<1>3. IsFiniteSet({Order[i] : i \in 1..Len(Order)})
  BY <1>1, <1>2, ValuesAreFinite, AuditAssumption
<1>4. QED
  BY <1>1, <1>3

LEMMA LiveIsFinite == \A v : Live(v) \subseteq Symbols /\ IsFiniteSet(Live(v))
BY AuditAssumption, FS_Subset DEF Live

\* The dollars of a finite set of positions are an integer.
LEMMA TotalType ==
  ASSUME NEW held, IsFiniteSet(held), \A p \in held : p.usd \in Int
  PROVE  Total(held) \in Int
<1> DEFINE f == [p \in held |-> p.usd]
<1>1. DOMAIN f = held /\ \A p \in held : f[p] \in Int
  OBVIOUS
<1>2. SumFunctionOnSet(f, held) \in Int
  <2> HIDE DEF f
  <2> QED BY <1>1, SumType
<1>3. QED
  BY <1>1, <1>2 DEF Total, SumFunction

\* What a venue can answer
LEMMA KeptType ==
  ASSUME TypeInv, NEW v \in Venues, NEW kept \in Kept(v)
  PROVE  kept \subseteq Answers /\ IsFiniteSet(kept)
<1>1. CASE ReportsNone(v) \/ Live(v) = {}
  BY <1>1, FS_EmptySet DEF Kept
<1>2. CASE ~(ReportsNone(v) \/ Live(v) = {}) /\ v = "hyperliquid"
  <2>1. PICK s \in Live(v) : kept = {Position(v, "type", hold[v][s])}
    BY <1>2 DEF Kept
  <2>2. Position(v, "type", hold[v][s]) \in Answers
    BY <1>2, LiveIsFinite DEF Position, Answers, TypeInv
  <2>3. QED
    BY <2>1, <2>2, FS_Singleton
<1>3. CASE ~(ReportsNone(v) \/ Live(v) = {}) /\ v # "hyperliquid"
  <2>1. kept = {Position(v, s, hold[v][s]) : s \in Live(v)}
    BY <1>3 DEF Kept
  <2>2. \A s \in Live(v) : Position(v, s, hold[v][s]) \in Answers
    BY <1>3, LiveIsFinite DEF Position, Answers, TypeInv
  <2>3. IsFiniteSet({Position(v, s, hold[v][s]) : s \in Live(v)})
    <3> DEFINE f == [s \in Live(v) |-> Position(v, s, hold[v][s])]
    <3>1. f = [s \in Live(v) |-> f[s]]
          /\ {Position(v, s, hold[v][s]) : s \in Live(v)} = {f[s] : s \in Live(v)}
      OBVIOUS
    <3> HIDE DEF f
    <3>2. QED
      BY <3>1, LiveIsFinite, ValuesAreFinite
  <2>4. QED
    BY <2>1, <2>2, <2>3
<1>4. QED
  BY <1>1, <1>2, <1>3

LEMMA AuditKeepsType == TypeInv /\ [Next]_vars => TypeInv'
<1> SUFFICES ASSUME TypeInv, [Next]_vars PROVE TypeInv'
  OBVIOUS
<1> USE OrderType
<1>1. CASE UNCHANGED vars
  BY <1>1 DEF vars, loopVars, TypeInv
<1>2. ASSUME NEW v \in Venues, NEW s \in Symbols, NEW usd \in {-1, 1}, Trade(v, s, usd)
      PROVE  TypeInv'
  <2>1. hold' \in [Venues -> [Symbols -> -MaxHeld..MaxHeld]]
    BY <1>2 DEF Trade, TypeInv
  <2>2. trades' \in 0..MaxTrades /\ moved' \in BOOLEAN
    BY <1>2, AuditAssumption DEF Trade, TypeInv
  <2>3. QED
    BY <1>2, <2>1, <2>2 DEF Trade, loopVars, TypeInv
<1>3. CASE Wake
  <2>1. 1 \in 0..(Len(Order) + 1) /\ 1 # 0
    OBVIOUS
  <2>2. asked' = 1 /\ moved' = FALSE
        /\ UNCHANGED <<hold, trades, collected, missed, positions, netDelta, warned>>
    BY <1>3 DEF Wake
  <2>3. QED
    BY <2>1, <2>2 DEF TypeInv
<1>4. CASE Answer
  <2>1. PICK kept \in Kept(Order[asked]) : collected' = collected \cup kept
    BY <1>4 DEF Answer
  <2>2. collected' \subseteq Answers /\ IsFiniteSet(collected')
    <3>1. asked \in 1..Len(Order) /\ Order[asked] \in Venues
      BY <1>4 DEF Answer
    <3>2. kept \subseteq Answers /\ IsFiniteSet(kept)
      BY <2>1, <3>1, KeptType
    <3>3. QED
      BY <2>1, <3>2, FS_Union DEF TypeInv
  <2>3. asked' \in 0..(Len(Order) + 1) /\ asked' # 0
    BY <1>4 DEF Answer, TypeInv
  <2>4. QED
    BY <1>4, <2>2, <2>3 DEF Answer, TypeInv
<1>5. CASE Failure
  BY <1>5 DEF Failure, TypeInv
<1>6. CASE Audit
  <2>1. positions' = collected /\ collected' = {} /\ IsFiniteSet(collected')
    BY <1>6, FS_EmptySet DEF Audit, SyncPositions
  <2>2. \A p \in collected : p.usd \in Int
    BY AuditAssumption DEF TypeInv, Answers
  <2>3. Total(collected) \in Int
    BY <2>2, TotalType DEF TypeInv
  <2>4. netDelta' \in Int /\ warned' \in BOOLEAN
    BY <1>6, <2>1, <2>3 DEF Audit, CheckDelta
  <2>5. QED
    BY <1>6, <2>1, <2>4 DEF Audit, TypeInv
<1>7. QED
  BY <1>1, <1>2, <1>3, <1>4, <1>5, <1>6 DEF Next, Loop

LEMMA AuditInitTyped == Init => TypeInv
<1> SUFFICES ASSUME Init PROVE TypeInv
  OBVIOUS
<1>1. 0 \in -MaxHeld..MaxHeld /\ 0 \in 0..MaxTrades /\ 0 \in 0..(Len(Order) + 1)
  BY AuditAssumption, OrderType
<1>2. hold \in [Venues -> [Symbols -> -MaxHeld..MaxHeld]]
  BY <1>1 DEF Init
<1>3. trades \in 0..MaxTrades /\ asked \in 0..(Len(Order) + 1) /\ netDelta \in Int
  BY <1>1 DEF Init
<1>4. /\ moved = FALSE /\ warned = FALSE /\ collected = {} /\ missed = {} /\ positions = {}
      /\ IsFiniteSet({})
  BY FS_EmptySet DEF Init
<1>5. QED
  BY <1>2, <1>3, <1>4 DEF TypeInv

\* The positions the audits work on are of venues that report any, and none
\* outlives its collection (engine.py:135-142, manager.py:195-207).
THEOREM AuditTypeCorrect == Spec => []TypeOK
<1>1. TypeInv => TypeOK
  BY DEF TypeInv, TypeOK, Answers
<1>2. QED
  BY <1>1, AuditInitTyped, AuditKeepsType, PTL DEF Spec
-----------------------------------------------------------------------------
\* What is collected

\* A position of v as its answer has it, and all of the venue's
Entry(v, s) == Position(v, IF v = "hyperliquid" THEN "type" ELSE s, hold[v][s])
Entries(v) == {Entry(v, s) : s \in Live(v)}

\* Nothing keeps a collection from being complete.
Undisturbed == missed = {} /\ ~moved /\ ~Unseen /\ ~Collided

CollectInv ==
  asked > 0 /\ Undisturbed => collected = UNION {Entries(Order[i]) : i \in 1..(asked - 1)}

\* Hyperliquid has one position at most, then.
LEMMA OneLive ==
  ASSUME ~Collided, NEW s \in Live("hyperliquid"), NEW t \in Live("hyperliquid")
  PROVE  s = t
<1> DEFINE S == Live("hyperliquid")
<1>1. IsFiniteSet(S) /\ Cardinality(S) \in Nat /\ Cardinality(S) <= 1
  BY LiveIsFinite, FS_CardinalityType DEF Collided
<1> HIDE DEF S
<1>2. Cardinality(S \ {s}) = Cardinality(S) - 1 /\ IsFiniteSet(S \ {s})
  BY <1>1, FS_RemoveElement DEF S
<1>3. Cardinality(S \ {s}) \in Nat
  BY <1>2, FS_CardinalityType
<1>4. S \ {s} = {}
  BY <1>1, <1>2, <1>3, FS_EmptySet
<1>5. QED
  BY <1>4 DEF S

LEMMA AnswerIsComplete ==
  ASSUME ~Unseen, ~Collided, NEW v \in Venues, NEW kept \in Kept(v)
  PROVE  kept = Entries(v)
<1>1. CASE Live(v) = {}
  BY <1>1 DEF Kept, Entries
<1>2. CASE Live(v) # {}
  <2>1. ~ReportsNone(v)
    BY <1>2 DEF Unseen
  <2>2. CASE v = "hyperliquid"
    <3>1. PICK s \in Live(v) : kept = {Position(v, "type", hold[v][s])}
      BY <1>2, <2>1, <2>2 DEF Kept
    <3>2. \A t \in Live(v) : t = s
      BY <2>2, OneLive
    <3>3. QED
      BY <2>2, <3>1, <3>2 DEF Entries, Entry
  <2>3. CASE v # "hyperliquid"
    BY <1>2, <2>1, <2>3 DEF Kept, Entries, Entry
  <2>4. QED
    BY <2>2, <2>3
<1>3. QED
  BY <1>1, <1>2

LEMMA StepKeepsCollection == TypeInv /\ CollectInv /\ [Next]_vars => CollectInv'
<1> SUFFICES ASSUME TypeInv, CollectInv, [Next]_vars, asked' > 0, Undisturbed'
             PROVE  collected' = UNION {Entries(Order[i])' : i \in 1..(asked' - 1)}
  BY DEF CollectInv
<1> USE OrderType
<1>1. ASSUME hold' = hold PROVE \A v : Entries(v)' = Entries(v)
  BY <1>1 DEF Entries, Entry, Live
<1>2. ASSUME hold' = hold, missed = {}, ~moved PROVE Undisturbed
  BY <1>2 DEF Undisturbed, Unseen, Collided, Live
<1>3. CASE UNCHANGED vars
  BY <1>1, <1>2, <1>3 DEF vars, loopVars, CollectInv, Undisturbed
<1>4. ASSUME NEW v \in Venues, NEW s \in Symbols, NEW usd \in {-1, 1}, Trade(v, s, usd)
      PROVE  FALSE
  BY <1>4 DEF Trade, loopVars, Undisturbed
<1>5. CASE Wake
  <2>1. asked' = 1 /\ collected' = {}
    BY <1>5 DEF Wake, TypeInv
  <2>2. QED
    BY <2>1
<1>6. CASE Answer
  <2>1. /\ asked \in 1..Len(Order) /\ asked' = asked + 1 /\ Order[asked] \in Venues
        /\ hold' = hold /\ missed = {} /\ ~moved
    BY <1>6 DEF Answer, Undisturbed
  <2>2. Undisturbed
    BY <1>2, <2>1
  <2>3. collected' = collected \cup Entries(Order[asked])
    BY <1>6, <2>1, <2>2, AnswerIsComplete DEF Answer, Undisturbed
  <2>4. collected = UNION {Entries(Order[i]) : i \in 1..(asked - 1)}
    BY <2>1, <2>2 DEF CollectInv
  <2>5. 1..(asked' - 1) = 1..(asked - 1) \cup {asked}
    BY <2>1
  <2>6. QED
    BY <1>1, <2>1, <2>3, <2>4, <2>5
<1>7. CASE Failure
  BY <1>7 DEF Failure, Undisturbed
<1>8. CASE Audit
  BY <1>8 DEF Audit
<1>9. QED
  BY <1>3, <1>4, <1>5, <1>6, <1>7, <1>8 DEF Next, Loop
-----------------------------------------------------------------------------
\* The sum

\* The positions of the venues by their symbols, and those that are not 0
Held == {Position(v, s, hold[v][s]) : v \in Venues, s \in Symbols}
HeldLive == {p \in Held : p.usd # 0}

AllEntries == UNION {Entries(v) : v \in Venues}

LEMMA HeldType ==
  ASSUME TypeInv
  PROVE  IsFiniteSet(Held) /\ \A p \in Held : p.usd \in Int
<1>1. IsFiniteSet(Venues \X Symbols)
  BY OrderType, AuditAssumption, FS_Product
<1> DEFINE f == [vs \in Venues \X Symbols |-> Position(vs[1], vs[2], hold[vs[1]][vs[2]])]
<1>2. \A v \in Venues, s \in Symbols :
        \E vs \in Venues \X Symbols : Position(v, s, hold[v][s]) = f[vs]
  <2> TAKE v \in Venues, s \in Symbols
  <2>1. <<v, s>> \in Venues \X Symbols /\ <<v, s>>[1] = v /\ <<v, s>>[2] = s
    OBVIOUS
  <2>2. f[<<v, s>>] = Position(v, s, hold[v][s])
    BY <2>1
  <2> HIDE DEF f
  <2>3. QED
    BY <2>1, <2>2
<1>3. IsFiniteSet(Held)
  <2>1. f = [vs \in Venues \X Symbols |-> f[vs]]
    OBVIOUS
  <2> HIDE DEF f
  <2> DEFINE values == {f[vs] : vs \in Venues \X Symbols}
  <2>2. IsFiniteSet(values)
    BY <1>1, <2>1, ValuesAreFinite
  <2>3. Held \subseteq values
    <3> SUFFICES ASSUME NEW p \in Held PROVE p \in values
      OBVIOUS
    <3>1. PICK v \in Venues, s \in Symbols : p = Position(v, s, hold[v][s])
      BY DEF Held
    <3>2. QED
      BY <1>2, <3>1
  <2> HIDE DEF values
  <2>4. QED
    BY <2>2, <2>3, FS_Subset
<1>4. \A p \in Held : p.usd \in Int
  BY AuditAssumption DEF Held, Position, TypeInv
<1>5. QED
  BY <1>3, <1>4

\* Positions of 0 do not count.
LEMMA TotalOfLive ==
  ASSUME TypeInv
  PROVE  Exposure = Total(HeldLive)
<1> DEFINE f == [p \in Held |-> p.usd]
           g == [p \in HeldLive |-> p.usd]
<1>1. /\ DOMAIN f = Held /\ DOMAIN g = HeldLive /\ HeldLive \subseteq Held
      /\ \A p \in Held : f[p] \in Int
      /\ \A p \in Held \ HeldLive : f[p] = 0
      /\ \A p \in HeldLive : f[p] = g[p]
  BY HeldType DEF HeldLive
<1>2. IsFiniteSet(Held) /\ IsFiniteSet(HeldLive)
  BY <1>1, HeldType, FS_Subset
<1>3. Exposure = SumFunctionOnSet(f, Held) /\ Total(HeldLive) = SumFunctionOnSet(g, HeldLive)
  BY <1>1 DEF Exposure, Held, Total, SumFunction
<1> HIDE DEF f, g
<1>4. SumFunctionOnSet(f, Held) = SumFunctionOnSet(f, HeldLive)
  BY <1>1, <1>2, SumOfNonzero
<1>5. SumFunctionOnSet(f, HeldLive) = SumFunctionOnSet(g, HeldLive)
  BY <1>1, <1>2, SumSame
<1>6. QED
  BY <1>3, <1>4, <1>5

\* One position under another key changes no sum.
LEMMA TotalOfRenamed ==
  ASSUME NEW C, IsFiniteSet(C), NEW a, a \notin C, NEW b, b \notin C, a.usd = b.usd,
         \A p \in C \cup {a} : p.usd \in Int
  PROVE  Total(C \cup {a}) = Total(C \cup {b})
<1> DEFINE f == [p \in C \cup {a, b} |-> p.usd]
<1>1. \A x \in {a, b} : IsFiniteSet(C \cup {x})
  BY FS_AddElement
<1>2. \A D : D \subseteq C \cup {a, b} => DOMAIN [p \in D |-> p.usd] = D
                                          /\ \A p \in D : f[p] = [q \in D |-> q.usd][p]
  OBVIOUS
<1>3. f[a] = f[b] /\ \A p \in C \cup {a, b} : f[p] \in Int
  OBVIOUS
<1> HIDE DEF f
<1>4. \A x \in {a, b} : Total(C \cup {x}) = SumFunctionOnSet(f, C \cup {x})
  BY <1>1, <1>2, SumSame DEF Total, SumFunction
<1>5. \A x \in {a, b} : SumFunctionOnSet(f, C \cup {x}) = f[x] + SumFunctionOnSet(f, C)
  BY <1>3, SumAdd
<1>6. QED
  BY <1>3, <1>4, <1>5

LEMMA EntriesAddUp ==
  ASSUME TypeInv, ~Collided
  PROVE  Total(AllEntries) = Exposure
<1> DEFINE Others == {p \in HeldLive : p.venue # "hyperliquid"}
<1>1. IsFiniteSet(Others) /\ \A p \in HeldLive : p.usd \in Int
  BY HeldType, FS_Subset DEF HeldLive
<1>2. HeldLive = UNION {{Position(v, s, hold[v][s]) : s \in Live(v)} : v \in Venues}
  BY DEF HeldLive, Held, Live, Position
<1>3. CASE \E v \in Venues : v = "hyperliquid" /\ Live(v) # {}
  <2>1. PICK s : s \in Live("hyperliquid") /\ "hyperliquid" \in Venues
    BY <1>3
  <2> DEFINE a == Position("hyperliquid", s, hold["hyperliquid"][s])
             b == Position("hyperliquid", "type", hold["hyperliquid"][s])
  <2>2. \A t \in Live("hyperliquid") : t = s
    BY <2>1, OneLive
  <2>3. HeldLive = Others \cup {a}
    BY <1>2, <2>1, <2>2 DEF Position
  <2>4. AllEntries = Others \cup {b}
    BY <1>2, <2>1, <2>2 DEF AllEntries, Entries, Entry, Position
  <2>5. a \notin Others /\ b \notin Others /\ a.usd = b.usd
    BY DEF Position
  <2> HIDE DEF a, b, Others
  <2>6. QED
    BY <1>1, <2>3, <2>4, <2>5, TotalOfRenamed, TotalOfLive
<1>4. CASE ~\E v \in Venues : v = "hyperliquid" /\ Live(v) # {}
  <2>1. AllEntries = HeldLive
    BY <1>2, <1>4 DEF AllEntries, Entries, Entry
  <2>2. QED
    BY <2>1, TotalOfLive
<1>5. QED
  BY <1>3, <1>4

\* The net delta of an audit is what the venues hold, with the sign of a
\* perpetual, unless a venue failed or traded during the collection, one that
\* reports no positions holds some, or two of Hyperliquid's share their key
\* (engine.py:135-142, manager.py:195-207, hyperliquid.py:272).
THEOREM NetDeltaIsExposure == Spec => DeltaExplained
<1> DEFINE Explained == Audit => netDelta' = -Exposure \/ missed # {} \/ moved \/ Unseen \/ Collided
<1>1. ASSUME TypeInv, CollectInv, Audit, Undisturbed PROVE netDelta' = -Exposure
  <2>1. asked = Len(Order) + 1 /\ Len(Order) \in Nat
    BY <1>1, OrderType DEF Audit, TypeInv
  <2>2. collected = UNION {Entries(Order[i]) : i \in 1..Len(Order)}
    BY <1>1, <2>1 DEF CollectInv
  <2>3. collected = AllEntries
    BY <2>2, OrderType DEF AllEntries
  <2>4. Total(collected) = Exposure
    BY <1>1, <2>3, EntriesAddUp DEF Undisturbed
  <2>5. QED
    BY <1>1, <2>4 DEF Audit, SyncPositions, CheckDelta
<1>2. TypeInv /\ CollectInv => Explained
  BY <1>1 DEF Undisturbed
<1>3. Init => CollectInv
  BY DEF Init, CollectInv
<1>4. QED
  BY <1>2, <1>3, AuditInitTyped, AuditKeepsType, StepKeepsCollection, PTL
  DEF Spec, DeltaExplained
=============================================================================
