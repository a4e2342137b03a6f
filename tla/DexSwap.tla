------------------------------- MODULE DexSwap -------------------------------
(***************************************************************************)
(* LighterVenue.execute_atomic_swap, await by await, for swaps that run at *)
(* the same time, over the chain they share: the transaction count the     *)
(* nonce is taken from counts mined transactions only, a transaction may   *)
(* replace a pending one of the same nonce, and one whose receipt was      *)
(* given up may be mined later.  Connectors' SwapAnswers says the same of  *)
(* a swap in one step.  The chain is external.                             *)
(***************************************************************************)
EXTENDS Connectors, FiniteSets

CONSTANTS
  Swaps,  \* calls of execute_atomic_swap
  Size    \* the quantity of each

ASSUME SwapAssumption == IsFiniteSet(Swaps) /\ Size \in Nat \ {0}

VARIABLES
  stage,    \* the await each call is at
  nonce,    \* the transaction count it read
  answer,   \* what it returned
  faulty,   \* calls that met an RPC error, or no executor
  sent,     \* swaps whose transaction a node accepted
  pool,     \* those of them that are pending
  mined,    \* transactions of the account that were mined
  receipt,  \* of each transaction: "none", "success" or "reverted"
  did       \* the quantity each transaction executed

callVars  == <<stage, nonce, answer, faulty>>
chainVars == <<sent, pool, mined, receipt, did>>
vars == <<callVars, chainVars>>

Stages == {"idle", "pricing", "counting", "building", "sending", "waiting", "done"}

Init ==
  /\ stage = [s \in Swaps |-> "idle"]
  /\ nonce = [s \in Swaps |-> 0]
  /\ answer = [s \in Swaps |-> Untried]
  /\ faulty = {}
  /\ sent = {} /\ pool = {} /\ mined = 0
  /\ receipt = [s \in Swaps |-> "none"]
  /\ did = [s \in Swaps |-> 0]

-----------------------------------------------------------------------------
\* The chain

\* The next nonce of the account is mined: the swap executes in part or
\* whole, or the contract reverts; it reverts on a zero fill.
Mine(s) ==
  /\ s \in pool /\ nonce[s] = mined
  /\ mined' = mined + 1
  /\ pool' = pool \ {s}
  /\ \E x \in Executed(Size) :
       /\ did' = [did EXCEPT ![s] = x]
       /\ receipt' = [receipt EXCEPT ![s] = IF x = 0 THEN "reverted" ELSE "success"]
  /\ UNCHANGED <<callVars, sent>>

Rivals(s) == {t \in pool : nonce[t] = nonce[s]}

\* A node takes the transaction of s: alone, or in the place of a pending
\* one that pays less.
Accept(s) ==
  /\ nonce[s] >= mined
  /\ pool' = (pool \ Rivals(s)) \cup {s}
  /\ sent' = sent \cup {s}

\* It does not: the nonce is used, or a pending transaction has it and the
\* fee is not enough to replace it.
Refuse(s) ==
  /\ nonce[s] < mined \/ Rivals(s) # {}
  /\ UNCHANGED <<sent, pool>>

-----------------------------------------------------------------------------
\* The call

At(s, from, to) == stage[s] = from /\ stage' = [stage EXCEPT ![s] = to]

Returns(s, report) == answer' = [answer EXCEPT ![s] = report]

\* The router calls: the gas price is asked for.
Call(s) ==
  /\ At(s, "idle", "pricing")
  /\ UNCHANGED <<nonce, answer, faulty, chainVars>>

\* _get_priority_gas_price returns, with its defaults after an error.
Priced(s) ==
  /\ At(s, "pricing", "counting")
  /\ UNCHANGED <<nonce, answer, faulty, chainVars>>

\* Mutant: the transactions that are pending are counted too, as a counter
\* kept by the connector would.
CountedAhead(s) ==
  /\ At(s, "counting", "building")
  /\ nonce' = [nonce EXCEPT ![s] =
                 mined + Cardinality({t \in Swaps : stage[t] \in {"building", "sending", "waiting"}})]
  /\ UNCHANGED <<answer, faulty, chainVars>>

\* get_transaction_count returns; it is asked for before the transaction
\* that takes it is built.
Counted(s) ==
  /\ At(s, "counting", "building")
  /\ nonce' = [nonce EXCEPT ![s] = mined]
  /\ UNCHANGED <<answer, faulty, chainVars>>

\* Mutant: a revert is caught by the general except clause.
RevertIsNone(s) ==
  /\ \/ At(s, "building", "sending") /\ UNCHANGED answer
     \/ At(s, "building", "done") /\ Returns(s, NoFill)
  /\ UNCHANGED <<nonce, faulty, chainVars>>

\* build_transaction estimates the gas: the call goes on, or the contract
\* already reverts, which is FAILED.
Built(s) ==
  /\ \/ At(s, "building", "sending") /\ UNCHANGED answer
     \/ At(s, "building", "done") /\ Returns(s, Report("failed", 0))
  /\ UNCHANGED <<nonce, faulty, chainVars>>

\* send_raw_transaction returns a hash, or raises, which is None.
Send(s) ==
  /\ \/ At(s, "sending", "waiting") /\ Accept(s) /\ UNCHANGED answer
     \/ At(s, "sending", "done") /\ Refuse(s) /\ Returns(s, NoFill)
  /\ UNCHANGED <<nonce, faulty, mined, receipt, did>>

\* Mutant: the status of the receipt is passed on as it is.
ReceiptAsIs(s) ==
  /\ At(s, "waiting", "done")
  /\ receipt[s] # "none" /\ Returns(s, Report(receipt[s], Size))
  /\ UNCHANGED <<nonce, faulty, chainVars>>

\* The receipt is there; a success stands for the whole quantity.
Receipt(s) ==
  /\ At(s, "waiting", "done")
  /\ \/ receipt[s] = "success"  /\ Returns(s, Report("filled", Size))
     \/ receipt[s] = "reverted" /\ Returns(s, Report("failed", 0))
  /\ UNCHANGED <<nonce, faulty, chainVars>>

\* Mutant: a receipt that does not come is a failed swap.
TimeoutIsFailure(s) ==
  /\ At(s, "waiting", "done")
  /\ Returns(s, Report("failed", 0))
  /\ UNCHANGED <<nonce, faulty, chainVars>>

\* Mutant: the wait has no timeout.
WaitForEver(s) ==
  /\ At(s, "waiting", "done")
  /\ receipt[s] # "none"
  /\ Returns(s, NoFill)
  /\ UNCHANGED <<nonce, faulty, chainVars>>

\* 30 seconds without one; it may have come since the last poll.
Timeout(s) ==
  /\ At(s, "waiting", "done")
  /\ Returns(s, NoFill)
  /\ UNCHANGED <<nonce, faulty, chainVars>>

\* There is no executor, or an RPC call fails, which is None; if it was the
\* sending, the transaction may have been taken.
Fault(s) ==
  /\ stage[s] \in {"idle", "counting", "building", "sending", "waiting"}
  /\ stage' = [stage EXCEPT ![s] = "done"]
  /\ Returns(s, NoFill)
  /\ faulty' = faulty \cup {s}
  /\ \/ UNCHANGED <<sent, pool>>
     \/ stage[s] = "sending" /\ Accept(s)
  /\ UNCHANGED <<nonce, mined, receipt, did>>

Goes(s) == Priced(s) \/ Counted(s) \/ Built(s) \/ Send(s) \/ Receipt(s) \/ Timeout(s)

Next == \E s \in Swaps : Call(s) \/ Goes(s) \/ Fault(s) \/ Mine(s)

Spec == Init /\ [][Next]_vars

\* Every RPC call ends by its timeout, and so does the wait; a miner owes
\* nothing.
FairSpec == Spec /\ \A s \in Swaps : WF_vars(Goes(s))

-----------------------------------------------------------------------------
\* Properties

TypeOK ==
  /\ stage \in [Swaps -> Stages]
  /\ nonce \in [Swaps -> Nat]
  /\ answer \in [Swaps -> Reports]
  /\ faulty \subseteq Swaps
  /\ pool \subseteq sent /\ sent \subseteq Swaps
  /\ mined \in Nat
  /\ receipt \in [Swaps -> {"none", "success", "reverted"}]
  /\ did \in [Swaps -> Nat]

\* What a call returned and what its transaction executed, then or after it
\* was given up, is one of SwapAnswers: in particular a swap reported FAILED
\* never executes later, however calls and blocks interleave
\* (lighter.py:155-192, and the routes of ExecutionRouter rest on it).
AnswersRefined ==
  \A s \in Swaps :
    stage[s] = "done" => Answer(did[s], answer[s]) \in SwapAnswers("lighter", Size)

\* No transaction waits for a nonce that nothing will fill: each pending one
\* can be mined next, whichever calls failed, were refused or were replaced
\* (lighter.py:163).
PoolIsMineable == \A s \in pool : nonce[s] = mined

\* A swap whose RPC calls were all answered, and which returned None with
\* its transaction neither pending nor mined, collided with a swap that had
\* read the same count (lighter.py:163-168).
CollisionsExplained ==
  \A s \in Swaps :
    stage[s] = "done" /\ answer[s] = NoFill /\ s \notin faulty \cup pool /\ receipt[s] = "none"
      => \E t \in sent \ {s} : nonce[t] = nonce[s]

\* Every call returns, also one whose transaction was replaced and never
\* gets a receipt.
SwapsReturn == \A s \in Swaps : stage[s] = "pricing" ~> stage[s] = "done"
=============================================================================
