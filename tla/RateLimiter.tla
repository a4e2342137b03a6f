----------------------------- MODULE RateLimiter -----------------------------
(***************************************************************************)
(* utils/rate_limiter.py: one RateLimiter and the coroutines that make     *)
(* REST calls behind it, one call after another for ever.  Times are kept  *)
(* as ages, counted in ticks of the shortest sleep (a millisecond) up to   *)
(* the first tick beyond the window, so that an endless run has finitely   *)
(* many states.  The deque of timestamps is the part of the log of grants  *)
(* from `head` on: an eviction moves head, a grant appends.  asyncio's     *)
(* semaphore hands a released permit to its oldest waiter.  The lock       *)
(* around the window is never contended, for there is no await under it.   *)
(***************************************************************************)
EXTENDS Integers, Sequences, FiniteSets

CONSTANTS
  Callers,            \* the coroutines that call
  RequestsPerSecond,
  Burst,
  MaxConcurrent,
  Second,             \* ticks in the rolling window
  Lateness            \* bound: how late the loop runs a coroutine that is due

ASSUME LimiterAssumption ==
  /\ RequestsPerSecond \in Nat \ {0}
  /\ Burst \in Nat
  /\ MaxConcurrent \in Nat \ {0}
  /\ Second \in Nat \ {0}
  /\ Lateness \in Nat \ {0}

VARIABLES
  log,      \* ages of the grants of the last second, and of those in the deque
  head,     \* index in log of the oldest timestamp of the deque
  st,       \* where the call of each coroutine stands
  wait,     \* ticks until a call in _wait_for_slot is due to look
  permits,  \* value of the semaphore
  queue     \* calls that wait for the semaphore

vars == <<log, head, st, wait, permits, queue>>

Limit == RequestsPerSecond + Burst

Stages == {"idle", "queued", "slot", "calling"}

Ages == 0..(Second + 1)

Init ==
  /\ log = <<>>
  /\ head = 1
  /\ st = [c \in Callers |-> "idle"]
  /\ wait = [c \in Callers |-> 0]
  /\ permits = MaxConcurrent
  /\ queue = <<>>

-----------------------------------------------------------------------------
\* Mutant: a permit is taken whether or not one is free.
ArriveOverdrawn(c) ==
  /\ st[c] = "idle"
  /\ permits' = permits - 1
  /\ st' = [st EXCEPT ![c] = "slot"]
  /\ UNCHANGED <<log, head, wait, queue>>

\* acquire(): the semaphore is free and nobody waits, or the call queues.
Arrive(c) ==
  /\ st[c] = "idle"
  /\ IF permits > 0 /\ queue = <<>>
       THEN /\ permits' = permits - 1
            /\ st' = [st EXCEPT ![c] = "slot"]
            /\ UNCHANGED queue
       ELSE /\ queue' = Append(queue, c)
            /\ st' = [st EXCEPT ![c] = "queued"]
            /\ UNCHANGED permits
  /\ UNCHANGED <<log, head, wait>>

\* Mutant: timestamps on the edge of the window are evicted too.
EvictedIncludingEdge(h) ==
  /\ h \in head..(Len(log) + 1)
  /\ \A i \in head..(h - 1) : log[i] >= Second
  /\ h <= Len(log) => log[h] < Second

\* Mutant: nothing is evicted.
EvictedNever(h) == h = head

\* h is the head after the timestamps of more than a second ago were popped.
Evicted(h) ==
  /\ h \in head..(Len(log) + 1)
  /\ \A i \in head..(h - 1) : log[i] > Second
  /\ h <= Len(log) => log[h] <= Second

\* Mutant: the permit goes back to the counter and no waiter is woken.
ReleaseToCounter(c) ==
  /\ permits' = permits + 1
  /\ st' = [st EXCEPT ![c] = "calling"]
  /\ UNCHANGED queue

\* Mutant: the waiter that came last is woken.
ReleaseToNewest(c) ==
  IF queue = <<>>
    THEN /\ permits' = permits + 1
         /\ st' = [st EXCEPT ![c] = "calling"]
         /\ UNCHANGED queue
    ELSE /\ queue' = SubSeq(queue, 1, Len(queue) - 1)
         /\ st' = [st EXCEPT ![c] = "calling", ![queue[Len(queue)]] = "slot"]
         /\ UNCHANGED permits

\* The semaphore is released as acquire() returns, before the request.
Release(c) ==
  IF queue = <<>>
    THEN /\ permits' = permits + 1
         /\ st' = [st EXCEPT ![c] = "calling"]
         /\ UNCHANGED queue
    ELSE /\ queue' = Tail(queue)
         /\ st' = [st EXCEPT ![c] = "calling", ![Head(queue)] = "slot"]
         /\ UNCHANGED permits

Looks(c) == st[c] = "slot" /\ wait[c] <= 0

\* _wait_for_slot: the window has room.
Grant(c) ==
  /\ Looks(c)
  /\ \E h \in 1..(Len(log) + 1) :
       /\ Evicted(h)
       /\ Len(log) + 1 - h < Limit
       /\ head' = h
  /\ log' = Append(log, 0)
  /\ wait' = [wait EXCEPT ![c] = 0]
  /\ Release(c)

\* _wait_for_slot: it is full, so sleep until the oldest request ages out.
Sleep(c) ==
  /\ Looks(c)
  /\ \E h \in 1..(Len(log) + 1) :
       /\ Evicted(h)
       /\ Len(log) + 1 - h >= Limit
       /\ head' = h
       /\ LET left == Second - log[h]
          IN  wait' = [wait EXCEPT ![c] = IF left > 1 THEN left ELSE 1]
  /\ UNCHANGED <<log, st, permits, queue>>

\* The request behind the limiter ends, and the coroutine may call again.
Finish(c) ==
  /\ st[c] = "calling"
  /\ st' = [st EXCEPT ![c] = "idle"]
  /\ UNCHANGED <<log, head, wait, permits, queue>>

\* A grant is left in the log while it is in the deque or in the last second.
Kept(i) == i >= head \/ log[i] <= Second

Older(age) == IF age > Second THEN age ELSE age + 1

\* Time passes when no call that is due is overdue.
Tick ==
  /\ \A c \in Callers : st[c] = "slot" => wait[c] > -Lateness
  /\ \E k \in 0..Len(log) :
       /\ \A i \in 1..k : ~Kept(i)
       /\ k < Len(log) => Kept(k + 1)
       /\ log' = [i \in 1..(Len(log) - k) |-> Older(log[i + k])]
       /\ head' = head - k
  /\ wait' = [c \in Callers |-> IF st[c] = "slot" THEN wait[c] - 1 ELSE 0]
  /\ UNCHANGED <<st, permits, queue>>

Step(c) == Arrive(c) \/ Grant(c) \/ Sleep(c) \/ Finish(c)

Next == Tick \/ \E c \in Callers : Step(c)

Spec == Init /\ [][Next]_vars

\* The event loop runs every coroutine that is due, and time passes.  Nobody
\* owes a call, nor the end of a request.
FairSpec ==
  /\ Spec
  /\ WF_vars(Tick)
  /\ \A c \in Callers : WF_vars(Grant(c) \/ Sleep(c))

-----------------------------------------------------------------------------
\* Properties

\* Ages, indices and stages keep their types, and a permit is there when it
\* is taken.
TypeOK ==
  /\ log \in Seq(Ages)
  /\ head \in 1..(Len(log) + 1)
  /\ st \in [Callers -> Stages]
  /\ wait \in [Callers -> (-Lateness)..Second]
  /\ permits \in Nat
  /\ queue \in Seq(Callers)

\* No closed interval of one second holds more grants than the limit, now or
\* at any other time, however the coroutines interleave: a timestamp on the
\* very edge of the window still counts (rate_limiter.py:59-77).
WindowBound == Cardinality({i \in DOMAIN log : log[i] <= Second}) <= Limit

\* Every permit is free or held by one call that looks for a slot, and a
\* call waits for one only when none is free (rate_limiter.py:48-50).
PermitsConserved ==
  /\ permits + Cardinality({c \in Callers : st[c] = "slot"}) = MaxConcurrent
  /\ queue # <<>> => permits = 0

\* The semaphore is fair: a call that waits for it gets to look for a slot,
\* however many come after it, and although of the calls that look for one
\* some may be overtaken for ever (rate_limiter.py:48-50).
QueueMoves == \A c \in Callers : st[c] = "queued" ~> st[c] = "slot"

\* The window is not: a call that woke up finds a slot taken by one that came
\* later.  But it waits for ever only if others are granted for ever; once
\* the calls that compete with it end, it returns (rate_limiter.py:59-77).
OnlyOvertaken ==
  \A c \in Callers :
    \/ []<>(st[c] # "slot")
    \/ []<><<\E d \in Callers \ {c} : Grant(d)>>_vars
=============================================================================
