----------------------------- MODULE DexSwapProofs -----------------------------
(***************************************************************************)
(* Proofs about DexSwap, for any number of swaps.  The inductive invariant *)
(* follows a transaction from the count its nonce was taken from to its    *)
(* receipt: the pool holds one transaction at most, of the next nonce, and *)
(* whatever left it was mined or has a rival.                              *)
(***************************************************************************)
EXTENDS DexSwap, TLAPS

\* Before a call sends it has no transaction, and while it waits it has one.
Unsent(s) == stage[s] \in {"idle", "pricing", "counting", "building", "sending"}

SentInv ==
  \A s \in Swaps :
    /\ Unsent(s) => s \notin sent /\ answer[s] = Untried
    /\ stage[s] = "waiting" => s \in sent /\ answer[s] = Untried
    /\ s \notin sent => receipt[s] = "none"

\* The nonce a call is about to use was the count at some time.
NonceInv == \A s \in Swaps : nonce[s] <= mined

PoolInv ==
  /\ \A s \in pool : nonce[s] = mined /\ receipt[s] = "none"
  /\ \A s, t \in pool : s = t

\* What a transaction executed, and what the call says of it
ReceiptInv ==
  \A s \in Swaps :
    /\ receipt[s] = "success" => did[s] \in Executed(Size) \ {0}
    /\ receipt[s] # "success" => did[s] = 0

AnswerInv ==
  \A s \in Swaps : stage[s] = "done" =>
    \/ answer[s] = NoFill
    \/ answer[s] = Report("filled", Size) /\ receipt[s] = "success"
    \/ answer[s] = Report("failed", 0) /\ s \notin pool /\ receipt[s] # "success"

\* Every nonce below the count was mined, and a transaction that left the
\* pool without a receipt was replaced.
MinedInv == \A n \in 0..(mined - 1) : \E t \in sent : nonce[t] = n /\ receipt[t] # "none"

ReplacedInv ==
  \A s \in sent \ pool : receipt[s] = "none" => \E t \in sent \ {s} : nonce[t] = nonce[s]

RefusedInv ==
  \A s \in Swaps : stage[s] = "done" /\ answer[s] = NoFill /\ s \notin faulty /\ s \notin sent
    => \E t \in sent : nonce[t] = nonce[s]

IInv ==
  /\ TypeOK /\ SentInv /\ NonceInv /\ PoolInv /\ ReceiptInv
  /\ AnswerInv /\ MinedInv /\ ReplacedInv /\ RefusedInv
-----------------------------------------------------------------------------
\* What a transaction may execute is a quantity, and nothing is one of them.
LEMMA ExecutedOfSize == Executed(Size) \subseteq Nat /\ 0 \in Executed(Size)
<1>1. ASSUME NEW f \in Fractions PROVE (Size * f) \div 100 \in Nat
  <2>1. f \in Nat /\ Size \in Nat
    BY FractionsAssumption, SwapAssumption
  <2> DEFINE x == Size * f
  <2>2. x \in Nat
    BY <2>1
  <2> HIDE DEF x
  <2>3. x \div 100 \in Nat
    BY <2>2
  <2>4. QED
    BY <2>3 DEF x
<1>2. (Size * 0) \div 100 = 0
  BY SwapAssumption
<1>3. QED
  BY <1>1, <1>2, FractionsAssumption DEF Executed

\* What the swap returns are reports, and None is none of the others.
LEMMA ReportTypes ==
  /\ Untried \in Reports /\ NoFill \in Reports
  /\ Report("filled", Size) \in Reports /\ Report("failed", 0) \in Reports
  /\ Untried # NoFill /\ Report("failed", 0) # NoFill /\ Report("filled", Size) # NoFill
BY SwapAssumption DEF Untried, NoFill, Report, Reports, OrderStatus

-----------------------------------------------------------------------------
\* The invariant holds at first, and every action keeps each part of it.
LEMMA InitHolds == Init => IInv
BY ReportTypes DEF Init, IInv, TypeOK, SentInv, NonceInv, PoolInv, ReceiptInv, AnswerInv, MinedInv, ReplacedInv, RefusedInv, Stages, Unsent

LEMMA CallKeeps ==
  ASSUME IInv, NEW s \in Swaps, Call(s)
  PROVE  IInv'
<1>1. TypeOK'
  BY DEF IInv, TypeOK, Stages, Call, At, chainVars
<1>2. SentInv'
  BY DEF IInv, TypeOK, SentInv, Unsent, Call, At, chainVars
<1>3. NonceInv'
  BY DEF IInv, TypeOK, NonceInv, Call, At, chainVars
<1>4. PoolInv'
  BY DEF IInv, TypeOK, PoolInv, Call, At, chainVars
<1>5. ReceiptInv'
  BY DEF IInv, TypeOK, ReceiptInv, Call, At, chainVars
<1>6. AnswerInv'
  BY DEF IInv, TypeOK, AnswerInv, Call, At, chainVars
<1>7. MinedInv'
  BY DEF IInv, TypeOK, MinedInv, Call, At, chainVars
<1>8. ReplacedInv'
  BY DEF IInv, TypeOK, ReplacedInv, Call, At, chainVars
<1>9. RefusedInv'
  BY DEF IInv, TypeOK, RefusedInv, Call, At, chainVars
<1>10. QED
  BY <1>1, <1>2, <1>3, <1>4, <1>5, <1>6, <1>7, <1>8, <1>9 DEF IInv

LEMMA PricedKeeps ==
  ASSUME IInv, NEW s \in Swaps, Priced(s)
  PROVE  IInv'
<1>1. TypeOK'
  BY DEF IInv, TypeOK, Stages, Priced, At, chainVars
<1>2. SentInv'
  BY DEF IInv, TypeOK, SentInv, Unsent, Priced, At, chainVars
<1>3. NonceInv'
  BY DEF IInv, TypeOK, NonceInv, Priced, At, chainVars
<1>4. PoolInv'
  BY DEF IInv, TypeOK, PoolInv, Priced, At, chainVars
<1>5. ReceiptInv'
  BY DEF IInv, TypeOK, ReceiptInv, Priced, At, chainVars
<1>6. AnswerInv'
  BY DEF IInv, TypeOK, AnswerInv, Priced, At, chainVars
<1>7. MinedInv'
  BY DEF IInv, TypeOK, MinedInv, Priced, At, chainVars
<1>8. ReplacedInv'
  BY DEF IInv, TypeOK, ReplacedInv, Priced, At, chainVars
<1>9. RefusedInv'
  BY DEF IInv, TypeOK, RefusedInv, Priced, At, chainVars
<1>10. QED
  BY <1>1, <1>2, <1>3, <1>4, <1>5, <1>6, <1>7, <1>8, <1>9 DEF IInv

LEMMA CountedKeeps ==
  ASSUME IInv, NEW s \in Swaps, Counted(s)
  PROVE  IInv'
<1>1. TypeOK'
  BY DEF IInv, TypeOK, Stages, Counted, At, chainVars
<1>2. SentInv'
  BY DEF IInv, TypeOK, SentInv, Unsent, Counted, At, chainVars
<1>3. NonceInv'
  BY DEF IInv, TypeOK, NonceInv, Counted, At, chainVars
<1>4. PoolInv'
  BY DEF IInv, TypeOK, PoolInv, Counted, At, chainVars
<1>5. ReceiptInv'
  BY DEF IInv, TypeOK, ReceiptInv, Counted, At, chainVars
<1>6. AnswerInv'
  BY DEF IInv, TypeOK, AnswerInv, Counted, At, chainVars
<1>7. MinedInv'
  BY DEF IInv, TypeOK, MinedInv, SentInv, Unsent, Counted, At, chainVars
<1>8. ReplacedInv'
  BY DEF IInv, TypeOK, ReplacedInv, SentInv, Unsent, Counted, At, chainVars
<1>9. RefusedInv'
  BY DEF IInv, TypeOK, RefusedInv, SentInv, Unsent, Counted, At, chainVars
<1>10. QED
  BY <1>1, <1>2, <1>3, <1>4, <1>5, <1>6, <1>7, <1>8, <1>9 DEF IInv

LEMMA BuiltKeeps ==
  ASSUME IInv, NEW s \in Swaps, Built(s)
  PROVE  IInv'
<1>1. TypeOK'
  BY ReportTypes DEF IInv, TypeOK, Stages, Built, At, Returns, chainVars
<1>2. SentInv'
  BY DEF IInv, TypeOK, SentInv, Unsent, Built, At, Returns, chainVars
<1>3. NonceInv'
  BY DEF IInv, TypeOK, NonceInv, Built, At, Returns, chainVars
<1>4. PoolInv'
  BY DEF IInv, TypeOK, PoolInv, Built, At, Returns, chainVars
<1>5. ReceiptInv'
  BY DEF IInv, TypeOK, ReceiptInv, Built, At, Returns, chainVars
<1>6. AnswerInv'
  BY ReportTypes DEF IInv, TypeOK, AnswerInv, SentInv, Unsent, Built, At, Returns, chainVars
<1>7. MinedInv'
  BY DEF IInv, TypeOK, MinedInv, Built, At, Returns, chainVars
<1>8. ReplacedInv'
  BY DEF IInv, TypeOK, ReplacedInv, Built, At, Returns, chainVars
<1>9. RefusedInv'
  BY ReportTypes DEF IInv, TypeOK, RefusedInv, Built, At, Returns, chainVars
<1>10. QED
  BY <1>1, <1>2, <1>3, <1>4, <1>5, <1>6, <1>7, <1>8, <1>9 DEF IInv

LEMMA SendKeeps ==
  ASSUME IInv, NEW s \in Swaps, Send(s)
  PROVE  IInv'
<1>1. TypeOK'
  BY ReportTypes DEF IInv, TypeOK, Stages, Send, Accept, Refuse, Rivals, At, Returns
<1>2. SentInv'
  BY DEF IInv, TypeOK, SentInv, Unsent, Send, Accept, Refuse, Rivals, At, Returns
<1>3. NonceInv'
  BY DEF IInv, TypeOK, NonceInv, Send, Accept, Refuse, Rivals, At, Returns
<1>4. PoolInv'
  BY DEF IInv, TypeOK, PoolInv, SentInv, Unsent, NonceInv, Send, Accept, Refuse, Rivals, At, Returns
<1>5. ReceiptInv'
  BY DEF IInv, TypeOK, ReceiptInv, Send, Accept, Refuse, Rivals, At, Returns
<1>6. AnswerInv'
  BY DEF IInv, TypeOK, AnswerInv, Send, Accept, Refuse, Rivals, At, Returns
<1>7. MinedInv'
  BY DEF IInv, TypeOK, MinedInv, Send, Accept, Refuse, Rivals, At, Returns
<1>8. ReplacedInv'
  BY DEF IInv, TypeOK, ReplacedInv, Send, Accept, Refuse, Rivals, At, Returns
<1>9. RefusedInv'
  BY DEF IInv, TypeOK, RefusedInv, MinedInv, NonceInv, Unsent, SentInv, Send, Accept, Refuse, Rivals, At, Returns
<1>10. QED
  BY <1>1, <1>2, <1>3, <1>4, <1>5, <1>6, <1>7, <1>8, <1>9 DEF IInv

LEMMA ReceiptKeeps ==
  ASSUME IInv, NEW s \in Swaps, Receipt(s)
  PROVE  IInv'
<1>1. TypeOK'
  BY ReportTypes DEF IInv, TypeOK, Stages, Receipt, At, Returns, chainVars
<1>2. SentInv'
  BY DEF IInv, TypeOK, SentInv, Unsent, Receipt, At, Returns, chainVars
<1>3. NonceInv'
  BY DEF IInv, TypeOK, NonceInv, Receipt, At, Returns, chainVars
<1>4. PoolInv'
  BY DEF IInv, TypeOK, PoolInv, Receipt, At, Returns, chainVars
<1>5. ReceiptInv'
  BY DEF IInv, TypeOK, ReceiptInv, Receipt, At, Returns, chainVars
<1>6. AnswerInv'
  BY DEF IInv, TypeOK, AnswerInv, PoolInv, Receipt, At, Returns, chainVars
<1>7. MinedInv'
  BY DEF IInv, TypeOK, MinedInv, Receipt, At, Returns, chainVars
<1>8. ReplacedInv'
  BY DEF IInv, TypeOK, ReplacedInv, Receipt, At, Returns, chainVars
<1>9. RefusedInv'
  BY DEF IInv, TypeOK, RefusedInv, SentInv, Receipt, At, Returns, chainVars
<1>10. QED
  BY <1>1, <1>2, <1>3, <1>4, <1>5, <1>6, <1>7, <1>8, <1>9 DEF IInv

LEMMA TimeoutKeeps ==
  ASSUME IInv, NEW s \in Swaps, Timeout(s)
  PROVE  IInv'
<1>1. TypeOK'
  BY ReportTypes DEF IInv, TypeOK, Stages, Timeout, At, Returns, chainVars
<1>2. SentInv'
  BY DEF IInv, TypeOK, SentInv, Unsent, Timeout, At, Returns, chainVars
<1>3. NonceInv'
  BY DEF IInv, TypeOK, NonceInv, Timeout, At, Returns, chainVars
<1>4. PoolInv'
  BY DEF IInv, TypeOK, PoolInv, Timeout, At, Returns, chainVars
<1>5. ReceiptInv'
  BY DEF IInv, TypeOK, ReceiptInv, Timeout, At, Returns, chainVars
<1>6. AnswerInv'
  BY DEF IInv, TypeOK, AnswerInv, Timeout, At, Returns, chainVars
<1>7. MinedInv'
  BY DEF IInv, TypeOK, MinedInv, Timeout, At, Returns, chainVars
<1>8. ReplacedInv'
  BY DEF IInv, TypeOK, ReplacedInv, Timeout, At, Returns, chainVars
<1>9. RefusedInv'
  BY DEF IInv, TypeOK, RefusedInv, SentInv, Timeout, At, Returns, chainVars
<1>10. QED
  BY <1>1, <1>2, <1>3, <1>4, <1>5, <1>6, <1>7, <1>8, <1>9 DEF IInv

LEMMA FaultKeeps ==
  ASSUME IInv, NEW s \in Swaps, Fault(s)
  PROVE  IInv'
<1>1. TypeOK'
  BY ReportTypes DEF IInv, TypeOK, Stages, Fault, Accept, Rivals, Returns
<1>2. SentInv'
  BY DEF IInv, TypeOK, SentInv, Unsent, Fault, Accept, Rivals, Returns
<1>3. NonceInv'
  BY DEF IInv, TypeOK, NonceInv, Fault, Accept, Rivals, Returns
<1>4. PoolInv'
  BY DEF IInv, TypeOK, PoolInv, SentInv, Unsent, NonceInv, Fault, Accept, Rivals, Returns
<1>5. ReceiptInv'
  BY DEF IInv, TypeOK, ReceiptInv, Fault, Accept, Rivals, Returns
<1>6. AnswerInv'
  BY DEF IInv, TypeOK, AnswerInv, Fault, Accept, Rivals, Returns
<1>7. MinedInv'
  BY DEF IInv, TypeOK, MinedInv, Fault, Accept, Rivals, Returns
<1>8. ReplacedInv'
  BY DEF IInv, TypeOK, ReplacedInv, Fault, Accept, Rivals, Returns
<1>9. RefusedInv'
  BY DEF IInv, TypeOK, RefusedInv, Fault, Accept, Rivals, Returns
<1>10. QED
  BY <1>1, <1>2, <1>3, <1>4, <1>5, <1>6, <1>7, <1>8, <1>9 DEF IInv

LEMMA MineKeeps ==
  ASSUME IInv, NEW s \in Swaps, Mine(s)
  PROVE  IInv'
<1>1. TypeOK'
  BY ExecutedOfSize DEF IInv, TypeOK, Mine, callVars
<1>2. SentInv'
  BY DEF IInv, TypeOK, SentInv, Unsent, Mine, callVars
<1>3. NonceInv'
  BY DEF IInv, TypeOK, NonceInv, Mine, callVars
<1>4. PoolInv'
  BY DEF IInv, TypeOK, PoolInv, Mine, callVars
<1>5. ReceiptInv'
  BY DEF IInv, TypeOK, ReceiptInv, Mine, callVars
<1>6. AnswerInv'
  BY DEF IInv, TypeOK, AnswerInv, PoolInv, SentInv, Unsent, Mine, callVars
<1>7. MinedInv'
  BY DEF IInv, TypeOK, MinedInv, Mine, callVars
<1>8. ReplacedInv'
  BY DEF IInv, TypeOK, ReplacedInv, Mine, callVars
<1>9. RefusedInv'
  BY DEF IInv, TypeOK, RefusedInv, Mine, callVars
<1>10. QED
  BY <1>1, <1>2, <1>3, <1>4, <1>5, <1>6, <1>7, <1>8, <1>9 DEF IInv

LEMMA StepKeeps == IInv /\ [Next]_vars => IInv'
<1> SUFFICES ASSUME IInv, [Next]_vars PROVE IInv'
  OBVIOUS
<1>1. CASE UNCHANGED vars
  BY <1>1 DEF IInv, TypeOK, SentInv, NonceInv, PoolInv, ReceiptInv, AnswerInv, MinedInv, ReplacedInv, RefusedInv, vars, callVars, chainVars, Unsent
<1>2. CASE Next
  BY <1>2, CallKeeps, PricedKeeps, CountedKeeps, BuiltKeeps, SendKeeps, ReceiptKeeps, TimeoutKeeps, FaultKeeps, MineKeeps DEF Next, Goes
<1>3. QED
  BY <1>1, <1>2

LEMMA Invariance == Spec => []IInv
<1>1. QED
  BY InitHolds, StepKeeps, PTL DEF Spec
-----------------------------------------------------------------------------
\* The variables of the calls and of the chain keep their types.
THEOREM TypeCorrect == Spec => []TypeOK
<1>1. IInv => TypeOK
  BY DEF IInv
<1>2. QED
  BY <1>1, Invariance, PTL

\* Whatever the calls and the chain interleave, what a call returned and what
\* its transaction executes, then or later, is one of the outcomes that
\* Connectors!SwapAnswers offers the router (lighter.py:155-192): a swap
\* reported FAILED never executes, one reported FILLED executed in part at
\* least, and None may stand for anything.
THEOREM SwapsRefineTheirAnswers == Spec => []AnswersRefined
<1>1. IInv => AnswersRefined
  <2> SUFFICES ASSUME IInv, NEW s \in Swaps, stage[s] = "done"
               PROVE  Answer(did[s], answer[s]) \in SwapAnswers("lighter", Size)
    BY DEF AnswersRefined
  <2>1. did[s] \in Executed(Size) /\ (receipt[s] = "success" => did[s] # 0)
    BY ExecutedOfSize DEF IInv, ReceiptInv
  <2>2. CASE answer[s] = NoFill
    BY <2>1, <2>2 DEF SwapAnswers, Lost
  <2>3. CASE answer[s] = Report("filled", Size) /\ receipt[s] = "success"
    BY <2>1, <2>3 DEF SwapAnswers
  <2>4. CASE answer[s] = Report("failed", 0) /\ receipt[s] # "success"
    BY <2>4 DEF SwapAnswers, Rejected, IInv, ReceiptInv
  <2>5. QED
    BY <2>2, <2>3, <2>4 DEF IInv, AnswerInv
<1>2. QED
  BY <1>1, Invariance, PTL

\* Since the count leaves pending transactions out, no swap ever takes a
\* nonce above one that is still free: a pending transaction can always be
\* the next one mined (lighter.py:163).
THEOREM PoolStaysMineable == Spec => []PoolIsMineable
<1>1. IInv => PoolIsMineable
  BY DEF IInv, PoolInv, PoolIsMineable
<1>2. QED
  BY <1>1, Invariance, PTL

\* The price of that: a swap that met no fault and still came to nothing was
\* refused or replaced because of another that had read the same count
\* (lighter.py:163-168).
THEOREM LostSwapsCollided == Spec => []CollisionsExplained
<1>1. IInv => CollisionsExplained
  <2> SUFFICES ASSUME IInv, NEW s \in Swaps, stage[s] = "done", answer[s] = NoFill,
                      s \notin faulty \cup pool, receipt[s] = "none"
               PROVE  \E t \in sent \ {s} : nonce[t] = nonce[s]
    BY DEF CollisionsExplained
  <2>1. CASE s \in sent
    BY <2>1 DEF IInv, ReplacedInv
  <2>2. CASE s \notin sent
    BY <2>2 DEF IInv, RefusedInv
  <2>3. QED
    BY <2>1, <2>2
<1>2. QED
  BY <1>1, Invariance, PTL
=============================================================================
