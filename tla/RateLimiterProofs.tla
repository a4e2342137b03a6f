-------------------------- MODULE RateLimiterProofs --------------------------
(***************************************************************************)
(* The rolling window bounds the rate for every number of callers, every   *)
(* limit and every interleaving.  What makes the bound inductive is that a *)
(* timestamp leaves the deque only when it is more than a second old, and  *)
(* that the deque never holds more than the limit.                         *)
(***************************************************************************)
EXTENDS RateLimiter, FiniteSetTheorems, TLAPS

WindowInv ==
  /\ log \in Seq(Ages)
  /\ head \in 1..(Len(log) + 1)
  /\ \A i \in 1..(head - 1) : log[i] > Second
  /\ Len(log) + 1 - head <= Limit

LEMMA LimitIsNat == Limit \in Nat /\ Limit >= 1
BY LimiterAssumption DEF Limit

\* An eviction keeps the timestamps of the last second.
LEMMA EvictionKeepsSecond ==
  ASSUME WindowInv, NEW h \in 1..(Len(log) + 1), Evicted(h)
  PROVE  h >= head /\ \A i \in 1..(h - 1) : log[i] > Second
<1>1. h \in head..(Len(log) + 1) /\ \A i \in head..(h - 1) : log[i] > Second
  BY DEF Evicted
<1>2. Len(log) \in Nat /\ head \in Int
  BY DEF WindowInv
<1>3. ASSUME NEW i \in 1..(h - 1) PROVE log[i] > Second
  <2>1. CASE i <= head - 1
    BY <1>2, <2>1 DEF WindowInv
  <2>2. CASE i >= head
    BY <1>1, <1>2, <2>2
  <2>3. QED
    BY <1>2, <2>1, <2>2
<1>4. QED
  BY <1>1, <1>2, <1>3

\* A grant that found room leaves the deque within the limit.
LEMMA GrantKeepsWindow ==
  ASSUME WindowInv, NEW c \in Callers, Grant(c)
  PROVE  WindowInv'
<1> PICK n \in Nat : n = Len(log)
  BY DEF WindowInv
<1>1. PICK h \in 1..(n + 1) : Evicted(h) /\ n + 1 - h < Limit /\ head' = h
  BY DEF Grant
<1>2. /\ log \in Seq(Ages) /\ 0 \in Ages /\ log' = Append(log, 0)
  BY LimiterAssumption DEF Grant, WindowInv, Ages
<1>3. /\ log' \in Seq(Ages) /\ Len(log') = n + 1
      /\ \A i \in 1..n : log'[i] = log[i]
  BY <1>2
<1>4. \A i \in 1..(h - 1) : log[i] > Second
  BY <1>1, EvictionKeepsSecond
<1>5. \A i \in 1..(h - 1) : log'[i] > Second
  BY <1>1, <1>3, <1>4
<1>6. QED
  BY <1>1, <1>3, <1>5, LimitIsNat DEF WindowInv

LEMMA SleepKeepsWindow ==
  ASSUME WindowInv, NEW c \in Callers, Sleep(c)
  PROVE  WindowInv'
<1>1. PICK h \in 1..(Len(log) + 1) : Evicted(h) /\ head' = h
  BY DEF Sleep
<1>2. log' = log
  BY DEF Sleep
<1>3. h >= head /\ \A i \in 1..(h - 1) : log[i] > Second
  BY <1>1, EvictionKeepsSecond
<1>4. Len(log) \in Nat /\ head \in Int /\ h \in Int /\ Limit \in Nat
  BY <1>1, LimitIsNat DEF WindowInv
<1>5. QED
  BY <1>1, <1>2, <1>3, <1>4 DEF WindowInv

\* What time does to the log: the deque keeps its length, and what was popped
\* grows older.
LEMMA TickShifts ==
  ASSUME log \in Seq(Ages), head \in 1..(Len(log) + 1), Tick
  PROVE  \E k \in 0..Len(log) :
           /\ k < head /\ head' = head - k
           /\ log' \in Seq(Ages) /\ Len(log') = Len(log) - k
           /\ \A i \in 1..(Len(log) - k) : log'[i] = Older(log[i + k])
<1> PICK n \in Nat : n = Len(log)
  OBVIOUS
<1>1. PICK k \in 0..n :
        /\ \A i \in 1..k : ~Kept(i)
        /\ log' = [i \in 1..(n - k) |-> Older(log[i + k])]
        /\ head' = head - k
  BY DEF Tick
<1>2. k < head
  <2>1. CASE k = 0
    BY <2>1
  <2>2. CASE k # 0
    <3>1. ~Kept(k)
      BY <1>1, <2>2
    <3>2. QED
      BY <3>1 DEF Kept
  <2>3. QED
    BY <2>1, <2>2
<1>3. \A i \in 1..(n - k) : Older(log[i + k]) \in Ages
  <2> TAKE i \in 1..(n - k)
  <2>1. log[i + k] \in Ages
    BY <1>1
  <2>2. QED
    BY <2>1, LimiterAssumption DEF Older, Ages
<1>4. n - k \in Nat
  BY <1>1
<1>5. log' \in Seq(Ages) /\ Len(log') = n - k
  BY <1>1, <1>3, <1>4
<1>6. QED
  BY <1>1, <1>2, <1>5

LEMMA TickKeepsWindow ==
  ASSUME WindowInv, Tick
  PROVE  WindowInv'
<1> PICK n \in Nat : n = Len(log)
  BY DEF WindowInv
<1>1. PICK k \in 0..n :
        /\ k < head /\ head' = head - k
        /\ log' \in Seq(Ages) /\ Len(log') = n - k
        /\ \A i \in 1..(n - k) : log'[i] = Older(log[i + k])
  BY TickShifts DEF WindowInv
<1>2. ASSUME NEW i \in 1..(head' - 1) PROVE log'[i] > Second
  <2>1. i + k \in 1..(head - 1) /\ i \in 1..(n - k) /\ i + k \in 1..n
    BY <1>1, <1>2 DEF WindowInv
  <2>2. log[i + k] > Second
    BY <2>1 DEF WindowInv
  <2>3. QED
    BY <1>1, <2>1, <2>2 DEF Older
<1>3. QED
  BY <1>1, <1>2, LimitIsNat DEF WindowInv

\* The grants of the last second are all in the deque.
LEMMA WindowInDeque == WindowInv => WindowBound
<1> SUFFICES ASSUME WindowInv PROVE WindowBound
  OBVIOUS
<1> PICK n \in Nat : n = Len(log)
  BY DEF WindowInv
<1> DEFINE recent == {i \in DOMAIN log : log[i] <= Second}
<1>1. \A i \in 1..n : log[i] \in Ages /\ log[i] \in Nat
  BY LimiterAssumption DEF WindowInv, Ages
<1>2. recent \subseteq head..n
  BY <1>1, LimiterAssumption DEF WindowInv
<1>3. head \in Int /\ head <= n + 1
  BY DEF WindowInv
<1>4. IsFiniteSet(head..n) /\ Cardinality(head..n) = n + 1 - head
  <2>1. CASE head > n
    <3>1. head..n = {} /\ n + 1 - head = 0
      BY <1>3, <2>1
    <3>2. QED
      BY <3>1, FS_EmptySet
  <2>2. CASE head <= n
    BY <1>3, <2>2, FS_Interval
  <2>3. QED
    BY <1>3, <2>1, <2>2
<1>5. Cardinality(recent) <= Cardinality(head..n) /\ Cardinality(recent) \in Nat
  BY <1>2, <1>4, FS_Subset, FS_CardinalityType
<1>6. n + 1 - head <= Limit
  BY DEF WindowInv
<1>7. QED
  BY <1>3, <1>4, <1>5, <1>6, LimitIsNat DEF WindowBound

\* No closed second ever holds more grants than requests_per_second + burst.
THEOREM WindowIsBounded == Spec => []WindowBound
<1>1. Init => WindowInv
  BY LimitIsNat DEF Init, WindowInv
<1>2. WindowInv /\ [Next]_vars => WindowInv'
  <2> SUFFICES ASSUME WindowInv, [Next]_vars PROVE WindowInv'
    OBVIOUS
  <2>1. ASSUME NEW c \in Callers, Arrive(c) \/ Finish(c) PROVE WindowInv'
    BY <2>1 DEF Arrive, Finish, WindowInv
  <2>2. CASE UNCHANGED vars
    BY <2>2 DEF vars, WindowInv
  <2>3. QED
    BY <2>1, <2>2, GrantKeepsWindow, SleepKeepsWindow, TickKeepsWindow DEF Next, Step
<1>3. QED
  BY <1>1, <1>2, WindowInDeque, PTL DEF Spec
-----------------------------------------------------------------------------
\* The permits

\* Callers that look for a slot
Looking == {c \in Callers : st[c] = "slot"}

\* The queue holds each waiting call once; the permits that are not free are
\* as many as the calls that look for a slot.
PermitInv ==
  /\ TypeOK
  /\ \A i \in 1..Len(queue) : st[queue[i]] = "queued"
  /\ \A i, j \in 1..Len(queue) : queue[i] = queue[j] => i = j
  /\ IsFiniteSet(Looking)
  /\ permits + Cardinality(Looking) = MaxConcurrent
  /\ queue # <<>> => permits = 0

\* A call that was not looking takes a permit, or the one of another call.
LEMMA LookingCounts ==
  ASSUME IsFiniteSet(Looking)
  PROVE  /\ Cardinality(Looking) \in Nat
         /\ \A c \in Looking : /\ IsFiniteSet(Looking \ {c})
                              /\ Cardinality(Looking \ {c}) = Cardinality(Looking) - 1
         /\ \A c \in Callers \ Looking : /\ IsFiniteSet(Looking \cup {c})
                                     /\ Cardinality(Looking \cup {c}) = Cardinality(Looking) + 1
         /\ \A c \in Looking, d \in Callers \ Looking :
              /\ IsFiniteSet((Looking \ {c}) \cup {d})
              /\ Cardinality((Looking \ {c}) \cup {d}) = Cardinality(Looking)
<1>1. Cardinality(Looking) \in Nat
  BY FS_CardinalityType
<1>2. \A c \in Looking : /\ IsFiniteSet(Looking \ {c})
                        /\ Cardinality(Looking \ {c}) = Cardinality(Looking) - 1
  BY FS_RemoveElement
<1>3. \A c \in Callers \ Looking : /\ IsFiniteSet(Looking \cup {c})
                               /\ Cardinality(Looking \cup {c}) = Cardinality(Looking) + 1
  BY FS_AddElement
<1>4. ASSUME NEW c \in Looking, NEW d \in Callers \ Looking
      PROVE  /\ IsFiniteSet((Looking \ {c}) \cup {d})
             /\ Cardinality((Looking \ {c}) \cup {d}) = Cardinality(Looking)
  <2>1. /\ IsFiniteSet((Looking \ {c}) \cup {d})
        /\ Cardinality((Looking \ {c}) \cup {d}) = Cardinality(Looking \ {c}) + 1
    BY <1>2, <1>4, FS_AddElement
  <2>2. Cardinality(Looking \ {c}) = Cardinality(Looking) - 1
    BY <1>2, <1>4
  <2> HIDE DEF Looking
  <2>3. QED
    BY <1>1, <2>1, <2>2
<1>5. QED
  BY <1>1, <1>2, <1>3, <1>4

LEMMA ArriveKeepsPermits ==
  ASSUME PermitInv, NEW c \in Callers, Arrive(c)
  PROVE  PermitInv'
<1>1. TypeOK /\ permits \in Nat /\ Cardinality(Looking) \in Nat /\ MaxConcurrent \in Nat
  BY LookingCounts, LimiterAssumption DEF PermitInv, TypeOK
<1>2. CASE permits > 0 /\ queue = <<>>
  <2>1. /\ permits' = permits - 1 /\ st' = [st EXCEPT ![c] = "slot"]
        /\ UNCHANGED <<log, head, wait, queue>>
    BY <1>2 DEF Arrive
  <2>2. Looking' = Looking \cup {c} /\ c \in Callers \ Looking
    BY <1>1, <2>1 DEF Looking, TypeOK, Arrive
  <2>3. IsFiniteSet(Looking') /\ Cardinality(Looking') = Cardinality(Looking) + 1
    BY <2>2, LookingCounts DEF PermitInv
  <2>4. TypeOK'
    BY <1>1, <1>2, <2>1 DEF TypeOK, Stages
  <2>5. QED
    BY <1>1, <1>2, <2>1, <2>3, <2>4 DEF PermitInv
<1>3. CASE ~(permits > 0 /\ queue = <<>>)
  <2>1. /\ queue' = Append(queue, c) /\ st' = [st EXCEPT ![c] = "queued"]
        /\ UNCHANGED <<permits, wait, log, head>>
    BY <1>3 DEF Arrive
  <2>2. /\ queue \in Seq(Callers) /\ st \in [Callers -> Stages] /\ st[c] = "idle"
        /\ Len(queue') = Len(queue) + 1 /\ queue'[Len(queue) + 1] = c
        /\ \A i \in 1..Len(queue) : queue'[i] = queue[i] /\ queue[i] \in Callers
    BY <1>1, <2>1 DEF TypeOK, Arrive
  <2>3. Looking' = Looking
    BY <2>1, <2>2 DEF Looking
  <2>4. TypeOK'
    BY <1>1, <2>1 DEF TypeOK, Stages
  <2>5. \A i \in 1..Len(queue) : queue[i] # c
    BY <2>2 DEF PermitInv
  <2>6. \A i \in 1..Len(queue') : st'[queue'[i]] = "queued"
    BY <2>1, <2>2, <2>5 DEF PermitInv
  <2>7. \A i, j \in 1..Len(queue') : queue'[i] = queue'[j] => i = j
    BY <2>2, <2>5 DEF PermitInv
  <2>8. permits' = 0
    BY <1>1, <1>3, <2>1 DEF PermitInv
  <2>9. QED
    BY <2>1, <2>3, <2>4, <2>6, <2>7, <2>8 DEF PermitInv
<1>4. QED
  BY <1>2, <1>3

LEMMA GrantKeepsPermits ==
  ASSUME PermitInv, NEW c \in Callers, Grant(c)
  PROVE  PermitInv'
<1>1. /\ TypeOK /\ permits \in Nat /\ Cardinality(Looking) \in Nat /\ MaxConcurrent \in Nat
      /\ st[c] = "slot" /\ c \in Looking
  BY LookingCounts, LimiterAssumption DEF PermitInv, TypeOK, Grant, Looks, Looking
<1>2. PICK h \in 1..(Len(log) + 1) : head' = h
  BY DEF Grant
<1>3. /\ log' \in Seq(Ages) /\ Len(log') = Len(log) + 1 /\ head' \in 1..(Len(log') + 1)
      /\ wait' \in [Callers -> (-Lateness)..Second]
  <2>1. 0 \in Ages /\ 0 \in (-Lateness)..Second
    BY LimiterAssumption DEF Ages
  <2>2. QED
    BY <1>1, <1>2, <2>1 DEF Grant, TypeOK
<1>4. CASE queue = <<>>
  <2>1. permits' = permits + 1 /\ st' = [st EXCEPT ![c] = "calling"] /\ UNCHANGED queue
    BY <1>4 DEF Grant, Release
  <2>2. Looking' = Looking \ {c}
    BY <1>1, <2>1 DEF Looking, TypeOK
  <2>3. IsFiniteSet(Looking') /\ Cardinality(Looking') = Cardinality(Looking) - 1
    BY <1>1, <2>2, LookingCounts DEF PermitInv
  <2>4. TypeOK'
    BY <1>1, <1>3, <2>1 DEF TypeOK, Stages
  <2>5. QED
    BY <1>1, <1>4, <2>1, <2>3, <2>4 DEF PermitInv
<1>5. CASE queue # <<>>
  <2> DEFINE hd == Head(queue)
  <2>1. /\ queue' = Tail(queue)
        /\ st' = [st EXCEPT ![c] = "calling", ![hd] = "slot"] /\ UNCHANGED permits
    BY <1>5 DEF Grant, Release
  <2>2. /\ queue \in Seq(Callers) /\ 1 \in 1..Len(queue) /\ hd = queue[1] /\ hd \in Callers
        /\ queue' \in Seq(Callers) /\ Len(queue') = Len(queue) - 1 /\ Len(queue) \in Nat
        /\ \A i \in 1..Len(queue') : queue'[i] = queue[i + 1] /\ i + 1 \in 1..Len(queue)
    BY <1>1, <1>5, <2>1 DEF TypeOK
  <2>3. st[hd] = "queued" /\ hd \in Callers \ Looking
    BY <2>2 DEF PermitInv, Looking
  <2> HIDE DEF hd
  <2>4. Looking' = (Looking \ {c}) \cup {hd}
    BY <1>1, <2>1, <2>2, <2>3 DEF Looking, TypeOK
  <2>5. IsFiniteSet(Looking') /\ Cardinality(Looking') = Cardinality(Looking)
    BY <1>1, <2>3, <2>4, LookingCounts DEF PermitInv
  <2>6. TypeOK'
    BY <1>1, <1>3, <2>1, <2>2 DEF TypeOK, Stages
  <2>7. ASSUME NEW i \in 1..Len(queue') PROVE st'[queue'[i]] = "queued"
    <3>1. queue[i + 1] # hd /\ st[queue[i + 1]] = "queued" /\ queue[i + 1] \in Callers
      BY <2>2, <2>7 DEF PermitInv
    <3>2. QED
      BY <1>1, <2>1, <2>2, <2>7, <3>1 DEF TypeOK
  <2>8. \A i, j \in 1..Len(queue') : queue'[i] = queue'[j] => i = j
    BY <2>2 DEF PermitInv
  <2>9. QED
    BY <1>1, <1>5, <2>1, <2>5, <2>6, <2>7, <2>8 DEF PermitInv
<1>6. QED
  BY <1>4, <1>5

LEMMA SleepKeepsPermits ==
  ASSUME PermitInv, NEW c \in Callers, Sleep(c)
  PROVE  PermitInv'
<1>1. TypeOK /\ Limit \in Nat /\ Limit >= 1 /\ Second \in Nat \ {0} /\ Lateness \in Nat
  BY LimitIsNat, LimiterAssumption DEF PermitInv
<1>2. PICK h \in 1..(Len(log) + 1) :
        /\ Len(log) + 1 - h >= Limit /\ head' = h
        /\ wait' = [wait EXCEPT ![c] = IF Second - log[h] > 1 THEN Second - log[h] ELSE 1]
  BY DEF Sleep
<1>3. UNCHANGED <<log, st, permits, queue>>
  BY DEF Sleep
<1>4. log[h] \in Ages
  BY <1>1, <1>2 DEF TypeOK
<1>5. (IF Second - log[h] > 1 THEN Second - log[h] ELSE 1) \in (-Lateness)..Second
  BY <1>1, <1>4 DEF Ages
<1>6. TypeOK'
  BY <1>1, <1>2, <1>3, <1>5 DEF TypeOK
<1>7. Looking' = Looking
  BY <1>3 DEF Looking
<1>8. QED
  BY <1>3, <1>6, <1>7 DEF PermitInv

\* A call that waits comes closer to its time, and is never too late.
LEMMA TickKeepsPermits ==
  ASSUME PermitInv, Tick
  PROVE  PermitInv'
<1>1. TypeOK /\ Second \in Nat /\ Lateness \in Nat
  BY LimiterAssumption DEF PermitInv
<1>2. UNCHANGED <<st, permits, queue>>
  BY DEF Tick
<1>3. wait' \in [Callers -> (-Lateness)..Second]
  <2>1. ASSUME NEW c \in Callers
        PROVE  (IF st[c] = "slot" THEN wait[c] - 1 ELSE 0) \in (-Lateness)..Second
    <3>1. wait[c] \in (-Lateness)..Second /\ (st[c] = "slot" => wait[c] > -Lateness)
      BY <1>1 DEF Tick, TypeOK
    <3>2. QED
      BY <1>1, <3>1
  <2>2. QED
    BY <2>1 DEF Tick
<1>4. log' \in Seq(Ages) /\ head' \in 1..(Len(log') + 1)
  <2> PICK n \in Nat : n = Len(log)
    BY <1>1 DEF TypeOK
  <2>1. PICK k \in 0..n :
          /\ k < head /\ head' = head - k
          /\ log' \in Seq(Ages) /\ Len(log') = n - k
    BY <1>1, TickShifts DEF TypeOK
  <2>2. QED
    BY <1>1, <2>1 DEF TypeOK
<1>5. TypeOK' /\ Looking' = Looking
  BY <1>1, <1>2, <1>3, <1>4 DEF TypeOK, Looking
<1>6. QED
  BY <1>2, <1>5 DEF PermitInv

LEMMA PermitStep == PermitInv /\ [Next]_vars => PermitInv'
<1> SUFFICES ASSUME PermitInv, [Next]_vars PROVE PermitInv'
  OBVIOUS
<1>1. ASSUME NEW c \in Callers, Finish(c) PROVE PermitInv'
  <2>1. /\ st' = [st EXCEPT ![c] = "idle"] /\ st[c] = "calling"
        /\ UNCHANGED <<log, head, wait, permits, queue>>
    BY <1>1 DEF Finish
  <2>2. TypeOK /\ TypeOK' /\ Looking' = Looking
    BY <2>1 DEF PermitInv, TypeOK, Stages, Looking
  <2>3. ASSUME NEW i \in 1..Len(queue') PROVE st'[queue'[i]] = "queued"
    <3>1. queue' = queue /\ i \in 1..Len(queue)
      BY <2>1, <2>3
    <3>2. st[queue[i]] = "queued" /\ queue[i] # c
      BY <2>1, <3>1 DEF PermitInv
    <3>3. QED
      BY <2>1, <2>2, <3>1, <3>2 DEF TypeOK
  <2>4. QED
    BY <2>1, <2>2, <2>3 DEF PermitInv
<1>2. CASE UNCHANGED vars
  BY <1>2 DEF vars, PermitInv, TypeOK, Looking
<1>3. QED
  BY <1>1, <1>2, ArriveKeepsPermits, GrantKeepsPermits, SleepKeepsPermits, TickKeepsPermits
     DEF Next, Step

LEMMA PermitInit == Init => PermitInv
<1> SUFFICES ASSUME Init PROVE PermitInv
  OBVIOUS
<1>1. Looking = {}
  BY DEF Init, Looking
<1>2. IsFiniteSet(Looking) /\ Cardinality(Looking) = 0
  BY <1>1, FS_EmptySet
<1>3. TypeOK
  BY LimiterAssumption DEF Init, TypeOK, Stages, Ages
<1>4. queue = <<>> /\ permits = MaxConcurrent /\ MaxConcurrent \in Nat
  BY LimiterAssumption DEF Init
<1>5. \A i \in 1..Len(queue) : FALSE
  BY <1>4
<1>6. permits + Cardinality(Looking) = MaxConcurrent
  BY <1>2, <1>4
<1>7. QED
  BY <1>2, <1>3, <1>4, <1>5, <1>6 DEF PermitInv

\* Ages, indices, stages and permits keep their types: in particular no
\* permit is taken that is not there.
THEOREM TypeCorrect == Spec => []TypeOK
<1>1. PermitInv => TypeOK
  BY DEF PermitInv
<1>2. QED
  BY <1>1, PermitInit, PermitStep, PTL DEF Spec

\* Every permit is free or held by one call that looks for a slot, and a
\* call waits for one only when none is free.
THEOREM PermitsAreConserved == Spec => []PermitsConserved
<1>1. PermitInv => PermitsConserved
  BY DEF PermitInv, PermitsConserved, Looking
<1>2. QED
  BY <1>1, PermitInit, PermitStep, PTL DEF Spec
=============================================================================
