--------------------------- MODULE CopyTradeProofs ---------------------------
(***************************************************************************)
(* What the copy-trade engine promises for any markets, evaluations and    *)
(* restarts: the in-flight lock is exact, a market is opened a bounded     *)
(* number of times, and no position it owns passes the ceiling.  And what  *)
(* its sizing functions promise of a size.                                 *)
(***************************************************************************)
EXTENDS CopyTrade, FiniteSetTheorems, NaturalsInduction, WellFoundedInduction,
        TLAPS

Resting == {"idle", "feed", "scan"}
Deciding == {"price", "book"}
Busy    == {"price", "book", "order", "filled"}

\* Of a job only the market and the kind matter here.
JobLike(j) == {"m", "kind"} \subseteq DOMAIN j /\ j.m \in Markets /\ j.kind \in {"open", "add"}

-----------------------------------------------------------------------------
(***************************************************************************)
(* The invariant.                                                          *)
(***************************************************************************)
Shape ==
  /\ pc \in [Buyers -> Resting \cup Busy] /\ job = [b \in Buyers |-> job[b]]
  /\ \A b \in Buyers : pc[b] \in Busy => JobLike(job[b])
  /\ opens \in [Markets -> Nat] /\ restarts \in Nat /\ unheard \in [Markets -> Nat]

\* A market is claimed while some evaluation has an order for it out, one only.
LockExact ==
  /\ \A m \in Markets : m \in inFlight <=> \E b \in Buyers : Placing(b, m)
  /\ \A m \in Markets, b, c \in Buyers : Placing(b, m) /\ Placing(c, m) => b = c

Opening(b, m) == job[b].m = m /\ job[b].kind = "open"

\* Evaluations that passed the check of seen and have not filled, and those
\* whose opening filled and is not booked.
Pending(m) == {b \in Buyers : pc[b] \in {"price", "book", "order"} /\ Opening(b, m)}
Landed(m)  == {b \in Buyers : pc[b] = "filled" /\ Opening(b, m)}

\* A market nobody marked was opened once by each lost process and each lost
\* answer, and once by an opening that is not booked; one that is marked, by
\* who passed the check.
Spare(m) == restarts + unheard[m]

CountedFor(m) ==
  IF m \in seen THEN opens[m] + Cardinality(Pending(m)) <= Cardinality(Buyers) + Spare(m)
  ELSE opens[m] <= Spare(m) + (IF Landed(m) = {} THEN 0 ELSE 1)

OpensCounted == \A m \in Markets : CountedFor(m)

IInv == Shape /\ LockExact /\ seen = seenFile /\ OpensCounted

-----------------------------------------------------------------------------
LEMMA FiniteBuyers ==
  /\ IsFiniteSet(Buyers) /\ Cardinality(Buyers) \in Nat /\ Cardinality(Buyers) > 0
  /\ \A S : S \subseteq Buyers => IsFiniteSet(S) /\ Cardinality(S) \in Nat
                                   /\ Cardinality(S) <= Cardinality(Buyers)
<1>1. IsFiniteSet(Buyers)
  BY CopyBounds, FS_AddElement DEF Buyers
<1>2. \A S : S \subseteq Buyers => IsFiniteSet(S) /\ Cardinality(S) \in Nat
                                   /\ Cardinality(S) <= Cardinality(Buyers)
  BY <1>1, FS_Subset, FS_CardinalityType
<1>3. Cardinality(Buyers) \in Nat /\ Cardinality(Buyers) # 0
  BY <1>1, FS_CardinalityType, FS_EmptySet DEF Buyers
<1> QED BY <1>1, <1>2, <1>3

LEMMA FewerPending ==
  ASSUME NEW S, NEW T, T \subseteq Buyers, S \subseteq T
  PROVE  Cardinality(S) <= Cardinality(T)
BY FiniteBuyers, FS_Subset

LEMMA WithoutOne ==
  ASSUME NEW S, S \subseteq Buyers, NEW b \in Buyers, b \notin S
  PROVE  Cardinality(S) + 1 <= Cardinality(Buyers)
<1>1. S \cup {b} \subseteq Buyers /\ IsFiniteSet(S) /\ Cardinality(S) \in Nat
  BY FiniteBuyers
<1>2. Cardinality(S \cup {b}) = Cardinality(S) + 1
  BY <1>1, FS_AddElement
<1> QED BY <1>1, <1>2, FiniteBuyers

\* Where one evaluation moves, the others stand as they stood.
OneMoves(b, to, j) ==
  /\ pc' = [pc EXCEPT ![b] = to] /\ job' = [job EXCEPT ![b] = j]

LEMMA MoveShape ==
  ASSUME Shape, NEW b \in Buyers, NEW to \in Resting \cup Busy, NEW j, OneMoves(b, to, j),
         to \in Busy => JobLike(j), opens' \in [Markets -> Nat], restarts' \in Nat,
         unheard' \in [Markets -> Nat]
  PROVE  /\ Shape' /\ pc'[b] = to /\ job'[b] = j
         /\ \A c \in Buyers \ {b} : pc'[c] = pc[c] /\ job'[c] = job[c]
<1>1. pc'[b] = to /\ job'[b] = j /\ job' = [c \in Buyers |-> job'[c]] /\ pc' \in [Buyers -> Resting \cup Busy]
      /\ \A c \in Buyers \ {b} : pc'[c] = pc[c] /\ job'[c] = job[c]
  BY DEF OneMoves, Shape
<1>2. \A c \in Buyers : pc'[c] \in Busy => JobLike(job'[c])
  BY <1>1 DEF Shape
<1> QED BY <1>1, <1>2 DEF Shape

\* An evaluation with no order out goes on, ends, or decides: only an opening
\* of a market that is not marked joins those that passed the check.
LEMMA Decides ==
  ASSUME IInv, NEW b \in Buyers, NEW to \in Resting \cup Deciding, NEW j, OneMoves(b, to, j),
         pc[b] \in Resting \cup Deciding, to \in Deciding => JobLike(j),
         to \in Deciding /\ j.kind = "open" => j.m \notin seen \/ (pc[b] \in Deciding /\ j = job[b]),
         UNCHANGED <<inFlight, seen, seenFile, opens, restarts, unheard>>
  PROVE  IInv'
<1>1. Shape' /\ pc'[b] = to /\ job'[b] = j
      /\ \A c \in Buyers \ {b} : pc'[c] = pc[c] /\ job'[c] = job[c]
  BY MoveShape DEF IInv, Resting, Deciding, Busy, Shape
<1>2. \A c \in Buyers, m \in Markets : Placing(c, m)' <=> Placing(c, m)
  BY <1>1 DEF Placing, Resting, Deciding
<1>3. LockExact'
  BY <1>2 DEF IInv, LockExact
<1>4. ASSUME NEW m \in Markets
      PROVE  CountedFor(m)'
  <2>1. Landed(m)' = Landed(m)
    BY <1>1 DEF Landed, Opening, Resting, Deciding
  <2>2. CASE m \in seen
    <3>1. Pending(m)' \subseteq Pending(m)
      BY <1>1, <2>2 DEF Pending, Opening, Resting, Deciding
    <3>2. Cardinality(Pending(m)') <= Cardinality(Pending(m)) /\ Cardinality(Pending(m)') \in Nat
          /\ Cardinality(Pending(m)) \in Nat
      BY <3>1, FewerPending, FiniteBuyers DEF Pending
    <3> QED BY <2>2, <3>2, FiniteBuyers DEF IInv, OpensCounted, CountedFor, Spare, Shape
  <2>3. CASE m \notin seen
    BY <2>1, <2>3 DEF IInv, OpensCounted, CountedFor, Spare
  <2> QED BY <2>2, <2>3
<1>5. OpensCounted'
  BY <1>4 DEF OpensCounted
<1> QED BY <1>1, <1>3, <1>5 DEF IInv

\* What the counts are made of, when nobody opens, fills or marks.
LEMMA SameCounts ==
  ASSUME IInv, UNCHANGED <<seen, opens, restarts, unheard>>,
         \A m \in Markets : Landed(m)' = Landed(m) /\ Pending(m)' \subseteq Pending(m)
  PROVE  OpensCounted'
<1>1. ASSUME NEW m \in Markets
      PROVE  CountedFor(m)'
  <2>1. Cardinality(Pending(m)') <= Cardinality(Pending(m)) /\ Cardinality(Pending(m)') \in Nat
        /\ Cardinality(Pending(m)) \in Nat
    BY FewerPending, FiniteBuyers DEF Pending
  <2> QED BY <2>1, FiniteBuyers DEF IInv, OpensCounted, CountedFor, Spare, Shape
<1> QED BY <1>1 DEF OpensCounted

\* The claim and the order, without an await between them.
LEMMA Claims ==
  ASSUME IInv, NEW b \in Buyers, pc[b] \in Deciding, ~ Claimed(job[b].m),
         OneMoves(b, "order", job[b]), inFlight' = inFlight \cup {job[b].m},
         UNCHANGED <<seen, seenFile, opens, restarts, unheard>>
  PROVE  IInv'
<1>1. JobLike(job[b])
  BY DEF IInv, Shape, Deciding, Busy
<1>2. Shape' /\ pc'[b] = "order" /\ job'[b] = job[b]
      /\ \A c \in Buyers \ {b} : pc'[c] = pc[c] /\ job'[c] = job[c]
  BY <1>1, MoveShape DEF IInv, Busy, Shape
<1>3. \A c \in Buyers, m \in Markets :
        Placing(c, m)' <=> Placing(c, m) \/ (c = b /\ m = job[b].m)
  BY <1>2 DEF Placing
<1>4. \A c \in Buyers : ~ Placing(c, job[b].m)
  BY <1>1 DEF IInv, LockExact, Claimed, JobLike
<1>5. LockExact'
  BY <1>1, <1>3, <1>4 DEF IInv, LockExact, JobLike
<1>6. \A m \in Markets : Landed(m)' = Landed(m) /\ Pending(m)' = Pending(m)
  BY <1>2 DEF Landed, Pending, Opening, Deciding
<1>7. OpensCounted'
  BY <1>6, SameCounts
<1> QED BY <1>2, <1>5, <1>7 DEF IInv

LEMMA ClaimSteps ==
  ASSUME IInv, NEW b \in Buyers, pc[b] \in Deciding, ClaimAndSend(b),
         UNCHANGED <<seen, seenFile, opens, restarts, unheard>>
  PROVE  IInv'
<1>1. CASE Over(b) /\ UNCHANGED <<inFlight, cooldown, orders>>
  <2> DEFINE to == IF b = "tick" THEN "scan" ELSE "idle"
  <2>1. OneMoves(b, to, None) /\ to \in Resting
    BY <1>1 DEF Over, OneMoves, Resting
  <2> HIDE DEF to
  <2> QED BY <1>1, <2>1, Decides DEF Resting, Deciding
<1>2. CASE /\ ~ Claimed(job[b].m) /\ inFlight' = inFlight \cup {job[b].m}
           /\ pc' = [pc EXCEPT ![b] = "order"] /\ UNCHANGED job
  <2>1. OneMoves(b, "order", job[b])
    BY <1>2 DEF OneMoves, IInv, Shape
  <2> QED BY <1>2, <2>1, Claims
<1> QED BY <1>1, <1>2 DEF ClaimAndSend

\* The venue has answered with a fill, or with what is taken for one: of the
\* opening evaluations that passed the check one has landed.
LEMMA LandsKeeps ==
  ASSUME IInv, NEW b \in Buyers, pc[b] = "order", NEW j, JobLike(j),
         j.m = job[b].m, j.kind = job[b].kind, OneMoves(b, "filled", j),
         UNCHANGED <<inFlight, seen, seenFile, restarts, unheard>>,
         opens' \in [Markets -> Nat],
         \A m \in Markets : \/ opens'[m] = opens[m]
                            \/ Opening(b, m) /\ opens'[m] = opens[m] + 1
  PROVE  IInv'
<1>1. JobLike(job[b])
  BY DEF IInv, Shape, Busy
<1>2. Shape' /\ pc'[b] = "filled" /\ job'[b] = j
      /\ \A c \in Buyers \ {b} : pc'[c] = pc[c] /\ job'[c] = job[c]
  BY MoveShape DEF IInv, Busy, Shape
<1>3. \A c \in Buyers, m \in Markets : Placing(c, m)' <=> Placing(c, m)
  BY <1>2 DEF Placing
<1>4. LockExact'
  BY <1>3 DEF IInv, LockExact
<1>5. ASSUME NEW m \in Markets PROVE CountedFor(m)'
  <2>1. CountedFor(m) /\ opens[m] \in Nat /\ restarts \in Nat /\ unheard[m] \in Nat
        /\ opens'[m] \in Nat
    BY DEF IInv, OpensCounted, Shape
  <2>2. CASE ~ Opening(b, m)
    <3>1. Landed(m)' = Landed(m) /\ Pending(m)' = Pending(m) /\ opens'[m] = opens[m]
      BY <1>2, <2>2 DEF Landed, Pending, Opening
    <3> QED BY <2>1, <3>1 DEF CountedFor, Spare
  <2>3. CASE Opening(b, m)
    <3>1. b \in Pending(m) /\ b \in Landed(m)' /\ Pending(m)' = Pending(m) \ {b}
      BY <1>2, <2>3 DEF Landed, Pending, Opening
    <3>2. Landed(m) = {}
      <4>1. Placing(b, m)
        BY <2>3 DEF Placing, Opening
      <4>2. \A c \in Landed(m) : c \in Buyers /\ Placing(c, m) /\ c # b
        BY DEF Landed, Placing, Opening
      <4> QED BY <4>1, <4>2 DEF IInv, LockExact
    <3>3. IsFiniteSet(Pending(m)) /\ Cardinality(Pending(m)) \in Nat
      BY FiniteBuyers DEF Pending
    <3>4. Cardinality(Pending(m)') = Cardinality(Pending(m)) - 1
      BY <3>1, <3>3, FS_RemoveElement
    <3>5. opens'[m] <= opens[m] + 1
      BY <2>1
    <3>6. CASE m \in seen
      BY <2>1, <3>3, <3>4, <3>5, <3>6, FiniteBuyers DEF CountedFor, Spare
    <3>7. CASE m \notin seen
      BY <2>1, <3>1, <3>2, <3>5, <3>7 DEF CountedFor, Spare
    <3> QED BY <3>6, <3>7
  <2> QED BY <2>2, <2>3
<1>6. OpensCounted'
  BY <1>5 DEF OpensCounted
<1> QED BY <1>2, <1>4, <1>6 DEF IInv

\* What Taken leaves of the counts.
LEMMA TakenCounts ==
  ASSUME IInv, NEW b \in Buyers, pc[b] = "order", NEW usd, Taken(job[b], usd)
  PROVE  /\ opens' \in [Markets -> Nat]
         /\ \A m \in Markets : \/ opens'[m] = opens[m]
                               \/ Opening(b, m) /\ opens'[m] = opens[m] + 1
<1>1. JobLike(job[b]) /\ opens \in [Markets -> Nat]
  BY DEF IInv, Shape, Busy
<1>2. opens' = [opens EXCEPT ![job[b].m] = IF usd > 0 /\ job[b].kind = "open" THEN @ + 1 ELSE @]
  BY DEF Taken
<1>3. job[b].m \in Markets
  BY <1>1 DEF JobLike
<1> QED BY <1>1, <1>2, <1>3 DEF Opening

LEMMA VenueFillsKeeps ==
  ASSUME IInv, NEW b \in Buyers, NEW rest, VenueFills(b, rest) PROVE IInv'
<1> DEFINE usd == job[b].usd - rest
           j == [job[b] EXCEPT !.usd = usd]
<1>1. pc[b] = "order" /\ JobLike(job[b]) /\ Taken(job[b], usd)
  BY DEF VenueFills, IInv, Shape, Busy
<1>2. JobLike(j) /\ j.m = job[b].m /\ j.kind = job[b].kind
  BY <1>1 DEF JobLike
<1>3. OneMoves(b, "filled", j) /\ UNCHANGED <<inFlight, seen, seenFile, restarts, unheard>>
  BY DEF VenueFills, OneMoves, IInv, Shape, shop
<1> HIDE DEF j, usd
<1> QED BY <1>1, <1>2, <1>3, TakenCounts, LandsKeeps

LEMMA UnreadableKeeps ==
  ASSUME IInv, NEW b \in Buyers, NEW filled \in BOOLEAN, Unreadable(b, filled) PROVE IInv'
<1>1. pc[b] = "order" /\ JobLike(job[b]) /\ \E usd : Taken(job[b], usd)
  BY DEF Unreadable, IInv, Shape, Busy
<1>2. OneMoves(b, "filled", job[b]) /\ UNCHANGED <<inFlight, seen, seenFile, restarts, unheard>>
  BY DEF Unreadable, OneMoves, IInv, Shape, shop
<1> QED BY <1>1, <1>2, TakenCounts, LandsKeeps

\* An evaluation whose order is over gives the market back.
LEMMA Releases ==
  ASSUME IInv, NEW b \in Buyers, pc[b] \in {"order", "filled"}, NEW to \in Resting,
         OneMoves(b, to, None), inFlight' = inFlight \ {job[b].m}, restarts' \in Nat,
         opens' \in [Markets -> Nat], unheard' \in [Markets -> Nat]
  PROVE  /\ Shape' /\ LockExact'
         /\ \A m \in Markets : /\ Pending(m)' = Pending(m) \ {b}
                               /\ Landed(m)' = Landed(m) \ {b}
<1>1. JobLike(job[b]) /\ Placing(b, job[b].m)
  BY DEF IInv, Shape, Busy, Placing
<1>2. Shape' /\ pc'[b] = to /\ job'[b] = None
      /\ \A c \in Buyers \ {b} : pc'[c] = pc[c] /\ job'[c] = job[c]
  BY MoveShape DEF IInv, Resting, Busy, Shape
<1>3. \A c \in Buyers, m \in Markets : Placing(c, m)' <=> Placing(c, m) /\ c # b
  BY <1>2 DEF Placing, Resting
<1>4. \A c \in Buyers, m \in Markets : Placing(c, m) /\ m = job[b].m => c = b
  BY <1>1 DEF IInv, LockExact
<1>5. \A m \in Markets : Placing(b, m) => m = job[b].m
  BY DEF Placing
<1>6. LockExact'
  BY <1>3, <1>4, <1>5 DEF IInv, LockExact
<1>7. \A m \in Markets : Pending(m)' = Pending(m) \ {b} /\ Landed(m)' = Landed(m) \ {b}
  BY <1>2 DEF Pending, Landed, Opening, Resting
<1> QED BY <1>2, <1>6, <1>7

LEMMA FilledKeeps ==
  ASSUME IInv, NEW b \in Buyers, Filled(b) PROVE IInv'
<1> DEFINE k == job[b].m
           to == IF b = "tick" THEN "scan" ELSE "idle"
<1>1. pc[b] = "filled" /\ JobLike(job[b]) /\ k \in Markets
  BY DEF Filled, IInv, Shape, Busy, JobLike
<1>2. /\ OneMoves(b, to, None) /\ to \in Resting /\ inFlight' = inFlight \ {k}
      /\ UNCHANGED <<opens, restarts, unheard>>
  BY DEF Filled, OneMoves, Resting, hist
<1> HIDE DEF to
<1>3. /\ Shape' /\ LockExact'
      /\ \A m \in Markets : Pending(m)' = Pending(m) \ {b} /\ Landed(m)' = Landed(m) \ {b}
  BY <1>1, <1>2, Releases DEF IInv, Shape
<1>4. \A m \in Markets : b \notin Pending(m)
  BY <1>1 DEF Pending
<1> HIDE DEF k
<1>5. CASE job[b].kind # "open"
  <2>1. UNCHANGED <<seen, seenFile>>
    BY <1>5 DEF Filled, MarkSeen
  <2>2. \A m \in Markets : b \notin Landed(m)
    BY <1>5 DEF Landed, Opening
  <2>3. OpensCounted'
    BY <1>2, <1>3, <2>1, <2>2, SameCounts
  <2> QED BY <1>3, <2>1, <2>3 DEF IInv
<1>6. CASE job[b].kind = "open"
  <2>1. seen' = seen \cup {k} /\ seenFile' = seen'
    BY <1>6 DEF Filled, MarkSeen, k
  <2>2. ASSUME NEW m \in Markets
        PROVE  CountedFor(m)'
    <3>1. Pending(m)' = Pending(m) /\ Cardinality(Pending(m)) \in Nat /\ Pending(m) \subseteq Buyers
      BY <1>3, <1>4, FiniteBuyers DEF Pending
    <3>2. CASE m \in seen
      BY <1>2, <2>1, <3>1, <3>2 DEF IInv, OpensCounted, CountedFor, Spare
    <3>3. CASE m \notin seen /\ m = k
      <4>1. opens[m] <= Spare(m) + 1
        BY <3>3 DEF IInv, OpensCounted, CountedFor, Spare, Shape
      <4>2. Cardinality(Pending(m)) + 1 <= Cardinality(Buyers)
        BY <1>4, <3>1, WithoutOne
      <4> QED BY <1>2, <2>1, <3>1, <3>3, <4>1, <4>2, FiniteBuyers DEF IInv, Shape, CountedFor, Spare
    <3>4. CASE m \notin seen /\ m # k
      <4>1. b \notin Landed(m)
        BY <3>4 DEF Landed, Opening, k
      <4>2. Landed(m)' = Landed(m)
        BY <1>3, <4>1
      <4> QED BY <1>2, <2>1, <3>4, <4>2 DEF IInv, OpensCounted, CountedFor, Spare
    <3> QED BY <3>2, <3>3, <3>4
  <2>3. OpensCounted'
    BY <2>2 DEF OpensCounted
  <2> QED BY <1>3, <2>1, <2>3 DEF IInv
<1> QED BY <1>5, <1>6

LEMMA RefusedKeeps ==
  ASSUME IInv, NEW b \in Buyers, NEW code, Refused(b, code) PROVE IInv'
<1> DEFINE to == IF b = "tick" THEN "scan" ELSE "idle"
<1>1. /\ pc[b] = "order" /\ OneMoves(b, to, None) /\ to \in Resting
      /\ inFlight' = inFlight \ {job[b].m} /\ UNCHANGED <<opens, restarts, unheard, seen, seenFile>>
  BY DEF Refused, Over, OneMoves, Resting, hist, Release, MarkSeen
<1> HIDE DEF to
<1>2. /\ Shape' /\ LockExact'
      /\ \A m \in Markets : Pending(m)' = Pending(m) \ {b} /\ Landed(m)' = Landed(m) \ {b}
  BY <1>1, Releases DEF IInv, Shape
<1>3. \A m \in Markets : b \notin Landed(m)
  BY <1>1 DEF Landed
<1>4. OpensCounted'
  BY <1>1, <1>2, <1>3, SameCounts
<1> QED BY <1>1, <1>2, <1>4 DEF IInv

\* An opening whose answer is lost has been taken, and counts as unheard.
LEMMA AnswerLostKeeps ==
  ASSUME IInv, NEW b \in Buyers, AnswerLost(b) PROVE IInv'
<1> DEFINE k == job[b].m
           to == IF b = "tick" THEN "scan" ELSE "idle"
<1>1. /\ pc[b] = "order" /\ OneMoves(b, to, None) /\ to \in Resting
      /\ inFlight' = inFlight \ {k} /\ UNCHANGED <<restarts, seen, seenFile>>
      /\ Taken(job[b], job[b].usd)
      /\ unheard' = [unheard EXCEPT ![k] = IF job[b].kind = "open" THEN @ + 1 ELSE @]
  BY DEF AnswerLost, Over, OneMoves, Resting, Release, MarkSeen
<1> HIDE DEF to
<1>2. k \in Markets /\ unheard \in [Markets -> Nat] /\ restarts \in Nat /\ opens \in [Markets -> Nat]
  BY <1>1 DEF IInv, Shape, Busy, JobLike
<1>3. /\ opens' \in [Markets -> Nat]
      /\ \A m \in Markets : \/ opens'[m] = opens[m]
                            \/ Opening(b, m) /\ opens'[m] = opens[m] + 1
  BY <1>1, TakenCounts
<1>4. unheard' \in [Markets -> Nat]
  BY <1>1, <1>2
<1>5. \A m \in Markets : unheard'[m] = IF Opening(b, m) THEN unheard[m] + 1 ELSE unheard[m]
  BY <1>1, <1>2 DEF Opening
<1>6. /\ Shape' /\ LockExact'
      /\ \A m \in Markets : Pending(m)' = Pending(m) \ {b} /\ Landed(m)' = Landed(m) \ {b}
  BY <1>1, <1>2, <1>3, <1>4, Releases
<1>7. ASSUME NEW m \in Markets PROVE CountedFor(m)'
  <2>1. CountedFor(m) /\ opens[m] \in Nat /\ restarts \in Nat /\ unheard[m] \in Nat
        /\ opens'[m] \in Nat
    BY <1>2, <1>3 DEF IInv, OpensCounted
  <2>2. Landed(m)' = Landed(m)
    BY <1>1, <1>6 DEF Landed
  <2>3. Cardinality(Pending(m)') <= Cardinality(Pending(m)) /\ Cardinality(Pending(m)') \in Nat
        /\ Cardinality(Pending(m)) \in Nat
    <3>1. Pending(m)' \subseteq Pending(m) /\ Pending(m) \subseteq Buyers
      BY <1>6 DEF Pending
    <3> QED BY <3>1, FewerPending, FiniteBuyers
  <2>4. opens'[m] - unheard'[m] <= opens[m] - unheard[m] /\ unheard'[m] \in Nat
    BY <1>3, <1>5, <2>1
  <2>5. UNCHANGED <<seen, restarts>>
    BY <1>1
  <2> QED BY <2>1, <2>2, <2>3, <2>4, <2>5, FiniteBuyers DEF CountedFor, Spare
<1>8. OpensCounted'
  BY <1>7 DEF OpensCounted
<1> QED BY <1>1, <1>6, <1>8 DEF IInv

\* A process ends: an opening that is not booked is the one it loses.
LEMMA RestartKeeps ==
  ASSUME IInv, Restart PROVE IInv'
<1>1. /\ pc' = [b \in Buyers |-> "idle"] /\ job' = [b \in Buyers |-> None]
      /\ restarts' = restarts + 1 /\ seen' = seenFile /\ inFlight' = {}
      /\ UNCHANGED <<seenFile, opens, unheard>>
  BY DEF Restart
<1>2. Shape'
  BY <1>1 DEF IInv, Shape, Resting, Busy
<1>3. LockExact'
  BY <1>1 DEF LockExact, Placing
<1>4. \A m \in Markets : Pending(m)' = {} /\ Landed(m)' = {}
  BY <1>1 DEF Pending, Landed
<1>5. ASSUME NEW m \in Markets
      PROVE  CountedFor(m)'
  <2>1. Cardinality(Pending(m)') = 0 /\ Cardinality(Pending(m)) \in Nat
    BY <1>4, FS_EmptySet, FiniteBuyers DEF Pending
  <2>2. CASE m \in seen
    BY <1>1, <2>1, <2>2, FiniteBuyers DEF IInv, OpensCounted, CountedFor, Spare, Shape
  <2>3. CASE m \notin seen
    BY <1>1, <1>4, <2>3 DEF IInv, OpensCounted, CountedFor, Spare, Shape
  <2> QED BY <2>2, <2>3
<1>6. OpensCounted'
  BY <1>5 DEF OpensCounted
<1> QED BY <1>1, <1>2, <1>3, <1>6 DEF IInv

\* Of the steps that move no evaluation, and of those that move it among the
\* steps before a decision.
LEMMA NothingMoves ==
  ASSUME IInv, UNCHANGED <<pc, job, inFlight, seen, seenFile, opens, restarts, unheard>>
  PROVE  IInv'
<1>1. \A m \in Markets : Landed(m)' = Landed(m) /\ Pending(m)' = Pending(m)
  BY DEF Landed, Pending, Opening
<1>2. \A m \in Markets, c \in Buyers : Placing(c, m)' <=> Placing(c, m)
  BY DEF Placing
<1>3. OpensCounted'
  BY <1>1, SameCounts
<1> QED BY <1>2, <1>3 DEF IInv, Shape, LockExact

\* Whatever a signal leads to, an opening is of a market that is not marked.
LEMMA DecisionsFit ==
  ASSUME NEW b, NEW m \in Markets, NEW s, NEW q, NEW src, NEW sold,
         NEW j \in Decisions(b, m, s, q, src, sold)
  PROVE  JobLike(j) /\ (j.kind = "open" => j.m \notin seen)
BY DEF Decisions, JobLike

LEMMA FastOpenKeeps ==
  ASSUME IInv, NEW b \in Fasts, NEW m \in Markets, FastOpen(b, m) PROVE IInv'
<1>1. PICK q \in Quotes, src \in Fills \cup {None}, sold \in BOOLEAN :
        \E j \in Decisions(b, m, file, q, src, sold) :
          pc' = [pc EXCEPT ![b] = "price"] /\ job' = [job EXCEPT ![b] = j]
  BY DEF FastOpen
<1>2. PICK j \in Decisions(b, m, file, q, src, sold) : OneMoves(b, "price", j)
  BY <1>1 DEF OneMoves
<1>3. JobLike(j) /\ (j.kind = "open" => j.m \notin seen)
  BY DecisionsFit
<1>4. b \in Buyers /\ pc[b] \in Resting
  BY DEF FastOpen, Buyers, Resting
<1>5. UNCHANGED <<inFlight, seen, seenFile, opens, restarts, unheard>>
  BY DEF FastOpen, shop, hist
<1> QED BY <1>2, <1>3, <1>4, <1>5, Decides DEF Deciding

LEMMA TickSignalKeeps ==
  ASSUME IInv, NEW m \in Markets, TickSignal(m) PROVE IInv'
<1>1. UNCHANGED <<inFlight, seen, seenFile, opens, restarts, unheard>>
  BY DEF TickSignal, shop, hist
<1>2. CASE UNCHANGED <<pc, job>>
  BY <1>1, <1>2, NothingMoves
<1>3. ASSUME NEW q \in Quotes, NEW src \in Fills \cup {None}, NEW sold \in BOOLEAN,
             NEW j \in Decisions("tick", m, snap["tick"], q, src, sold),
             pc' = [pc EXCEPT !["tick"] = "price"], job' = [job EXCEPT !["tick"] = j]
      PROVE  IInv'
  <2>1. OneMoves("tick", "price", j)
    BY <1>3 DEF OneMoves
  <2>2. JobLike(j) /\ (j.kind = "open" => j.m \notin seen)
    BY DecisionsFit
  <2>3. "tick" \in Buyers /\ pc["tick"] \in Resting
    BY DEF TickSignal, Buyers, Resting
  <2> QED BY <1>1, <2>1, <2>2, <2>3, Decides DEF Deciding
<1> QED BY <1>2, <1>3 DEF TickSignal

\* The tick's steps between its signals.
LEMMA TickRests ==
  ASSUME IInv, TickStarts \/ TickLoads \/ TickEnds PROVE IInv'
<1>1. "tick" \in Buyers /\ pc["tick"] \in Resting
  BY DEF TickStarts, TickLoads, TickEnds, Buyers, Resting
<1>2. UNCHANGED <<inFlight, seen, seenFile, opens, restarts, unheard>> /\ job' = job
  BY DEF TickStarts, TickLoads, TickEnds, shop, hist
<1>3. PICK to \in Resting : pc' = [pc EXCEPT !["tick"] = to]
  BY DEF TickStarts, TickLoads, TickEnds, Resting
<1>4. OneMoves("tick", to, job["tick"])
  BY <1>1, <1>2, <1>3 DEF OneMoves, IInv, Shape
<1> QED BY <1>1, <1>2, <1>4, Decides DEF Resting, Deciding

LEMMA DecidedSteps ==
  ASSUME IInv, NEW b \in Buyers,
         NoPrice(b) \/ Buy(b) \/ \E usable \in BOOLEAN : BookRead(b, usable)
  PROVE  IInv'
<1>1. pc[b] \in Deciding /\ UNCHANGED <<seen, seenFile, opens, restarts, unheard>>
  <2>1. CASE NoPrice(b)
    BY <2>1 DEF NoPrice, Deciding, shop, hist
  <2>2. CASE Buy(b)
    BY <2>2 DEF Buy, Deciding
  <2>3. CASE \E usable \in BOOLEAN : BookRead(b, usable)
    BY <2>3 DEF BookRead, Deciding
  <2> QED BY <2>1, <2>2, <2>3
<1>2. CASE ClaimAndSend(b)
  BY <1>1, <1>2, ClaimSteps
<1>3. CASE Over(b) /\ UNCHANGED inFlight
  <2> DEFINE to == IF b = "tick" THEN "scan" ELSE "idle"
  <2>1. OneMoves(b, to, None) /\ to \in Resting
    BY <1>3 DEF Over, OneMoves, Resting
  <2> HIDE DEF to
  <2> QED BY <1>1, <1>3, <2>1, Decides DEF Resting, Deciding
<1>4. CASE pc' = [pc EXCEPT ![b] = "book"] /\ UNCHANGED <<job, inFlight>>
  <2>1. OneMoves(b, "book", job[b]) /\ JobLike(job[b])
    BY <1>1, <1>4 DEF OneMoves, IInv, Shape, Deciding, Busy
  <2> QED BY <1>1, <1>4, <2>1, Decides DEF Resting, Deciding
<1>5. \/ ClaimAndSend(b) \/ (Over(b) /\ UNCHANGED inFlight)
      \/ pc' = [pc EXCEPT ![b] = "book"] /\ UNCHANGED <<job, inFlight>>
  <2>1. CASE NoPrice(b)
    BY <2>1 DEF NoPrice, shop
  <2>2. CASE Buy(b)
    BY <2>2 DEF Buy
  <2>3. CASE \E usable \in BOOLEAN : BookRead(b, usable)
    BY <2>3 DEF BookRead
  <2> QED BY <2>1, <2>2, <2>3
<1> QED BY <1>2, <1>3, <1>4, <1>5

-----------------------------------------------------------------------------
(***************************************************************************)
(* The ceiling.  Every copy of the file that an evaluation or the cycle    *)
(* holds is as sound as the file itself: whichever of them is written      *)
(* back, and however old, no position of the engine's own is above the     *)
(* ceiling of a quote.  An order is sized against the copy it will be      *)
(* booked into, so the copy with the order in it is sound too.             *)
(***************************************************************************)
UnderCeil(usd) == \E q \in Quotes : usd <= q.ceil + Lift(q)

Sound(f) ==
  /\ f \in Files
  /\ \A m \in Markets : f[m] # None /\ f[m].own = "copytrade" => UnderCeil(f[m].usd)

\* The job j, and what its order makes of its market in the snapshot s.
JobSound(j, s) ==
  /\ j \in Job
  /\ j.kind = "open" => UnderCeil(j.usd)
  /\ j.kind = "add" => /\ s[j.m] # None
                       /\ s[j.m].own = "copytrade" => UnderCeil(s[j.m].usd + j.usd)

\* An evaluation at the step "to" with the job j, the snapshot s and the
\* signals t before it.
LocalOf(to, j, s, t) ==
  /\ to \in Busy => JobSound(j, s)
  /\ to \notin Busy => j = None
  /\ s = None \/ Sound(s)
  /\ to \in Busy \cup {"scan"} => Sound(s)
  /\ t \subseteq Markets

Locals ==
  /\ snap = [b \in Buyers |-> snap[b]] /\ todo = [b \in Buyers |-> todo[b]]
  /\ \A b \in Buyers : LocalOf(pc[b], job[b], snap[b], todo[b])

CycleSound ==
  /\ cyc = [at |-> cyc.at, snap |-> cyc.snap, wallet |-> cyc.wallet]
  /\ cyc.at \in {"idle", "read", "exits"}
  /\ cyc.at # "idle" => Sound(cyc.snap)
  /\ cyc.at = "read" => cyc.wallet \in [Markets -> Nat]

ShopTypes ==
  /\ seen \subseteq Markets /\ seenFile \subseteq Markets
  /\ cooldown \subseteq Markets /\ inFlight \subseteq Markets /\ noBook \subseteq Markets
  /\ paused \in BOOLEAN /\ backoff \in BOOLEAN

CountTypes ==
  /\ held \in [Markets -> Nat]
  /\ orders \in 0..MaxOrders /\ restarts \in 0..MaxRestarts

\* An order that is out was counted before it can open the market.
Out(m) == \E b \in Buyers : pc[b] = "order" /\ job[b].m = m

OrdersCounted ==
  \A m \in Markets : /\ opens[m] <= orders /\ unheard[m] <= opens[m]
                     /\ Out(m) => opens[m] + 1 <= orders

CInv ==
  /\ IInv /\ Locals /\ Sound(file) /\ CycleSound
  /\ ShopTypes /\ CountTypes /\ OrdersCounted

-----------------------------------------------------------------------------
LEMMA QuoteFacts ==
  ASSUME NEW q \in Quotes
  PROVE  /\ q.target \in Int /\ q.ceil \in Nat /\ q.ceil >= MIN_ORDER_USD
         /\ q.floor \in Nat /\ q.floor >= MIN_ORDER_USD
         /\ q.opens \subseteq 1..99 /\ q.adds \subseteq 1..99
         /\ Lift(q) \in Nat /\ q.ceil + Lift(q) \in Nat
<1>1. PICK sig \in Signals, c \in Profiles, port \in Portfolios : q = Quote(sig, c, port)
  BY DEF Quotes
<1>2. /\ q.target = sizeFor(sig, c, port) /\ q.ceil = positionCeil(c, port)
      /\ q.floor = addFloorUsd(c) /\ q.opens \subseteq 1..99 /\ q.adds \subseteq 1..99
  BY <1>1 DEF Quote
<1>3. port \in Nat
  BY CopyBounds
<1>4. positionCeil(c, port) \in Nat /\ positionCeil(c, port) >= MIN_ORDER_USD
  BY <1>3 DEF positionCeil, Greater, MIN_ORDER_USD
<1>5. addFloorUsd(c) \in Nat /\ addFloorUsd(c) >= MIN_ORDER_USD
  BY DEF addFloorUsd, V2_FLOOR_USD, MIN_ORDER_USD
<1>6. sizeFor(sig, c, port) \in Int
  BY SizesAreNumbers
<1>7. Lift(q) \in Nat /\ q.ceil + Lift(q) \in Nat
  BY <1>2, <1>4 DEF Lift
<1> QED BY <1>2, <1>4, <1>5, <1>6, <1>7

\* The shares of an order of a dollar or more come to what was asked, or to
\* less than two dollars (copytrade.mjs:741).
LEMMA OrderUsdFacts ==
  ASSUME NEW usd \in Nat, usd >= MIN_ORDER_USD, NEW cents \in 1..99
  PROVE  orderUsd(usd, cents) \in Nat \ {0} /\ orderUsd(usd, cents) <= Greater(usd, 1980)
<1> DEFINE least == (99 + cents) \div cents
           whole == usd \div (10 * cents)
<1>1. least \in Nat /\ cents * least <= 99 + cents /\ least >= 1
  OBVIOUS
<1>2. 10 * cents \in Nat \ {0} /\ whole \in Nat /\ (10 * cents) * whole <= usd
  OBVIOUS
<1>3. orderUsd(usd, cents) = (10 * cents) * Greater(least, whole)
  BY DEF orderUsd
<1> HIDE DEF least, whole
<1>4. (10 * cents) * least = 10 * (cents * least) /\ 10 * (cents * least) <= 1980
      /\ (10 * cents) * least >= 10 * cents
  <2>1. cents * least \in Nat /\ cents * least <= 198
    BY <1>1
  <2>2. (10 * cents) * least = 10 * (cents * least)
    BY <1>1
  <2>3. PICK k \in Nat : least = k + 1
    <3>1. least - 1 \in Nat /\ least = (least - 1) + 1
      BY <1>1
    <3> QED BY <3>1
  <2>4. (10 * cents) * (k + 1) = (10 * cents) * k + 10 * cents /\ (10 * cents) * k \in Nat
    OBVIOUS
  <2> QED BY <2>1, <2>2, <2>3, <2>4
<1> DEFINE a == (10 * cents) * least
           b == (10 * cents) * whole
<1>5. a \in Nat /\ a <= 1980 /\ a > 0
  BY <1>1, <1>2, <1>4
<1>6. b \in Nat /\ b <= usd
  BY <1>2
<1>7. CASE least >= whole
  <2>1. Greater(least, whole) = least
    BY <1>1, <1>2, <1>7 DEF Greater
  <2>2. orderUsd(usd, cents) = a
    BY <1>3, <2>1
  <2> HIDE DEF a
  <2> QED BY <1>5, <2>2 DEF Greater
<1>8. CASE whole > least
  <2>1. orderUsd(usd, cents) = b
    BY <1>1, <1>2, <1>3, <1>8 DEF Greater
  <2>2. PICK k \in Nat : whole = least + k
    <3>1. whole - least \in Nat /\ whole = least + (whole - least)
      BY <1>1, <1>2, <1>8
    <3> QED BY <3>1
  <2>3. (10 * cents) * (least + k) = (10 * cents) * least + (10 * cents) * k
        /\ (10 * cents) * k \in Nat
    BY <1>1
  <2>4. b >= a
    BY <1>1, <1>5, <2>2, <2>3
  <2> HIDE DEF a, b
  <2> QED BY <1>5, <1>6, <2>1, <2>4 DEF Greater
<1> QED BY <1>1, <1>2, <1>7, <1>8

\* A size worth an order is positive, and the ceiling bounds it.
LEMMA SizedFacts ==
  ASSUME NEW q \in Quotes
  PROVE  /\ Sized(q) \in Int /\ Sized(q) <= q.ceil
         /\ ~ (q.target < MIN_ORDER_USD) => Sized(q) \in Nat /\ Sized(q) >= MIN_ORDER_USD
BY QuoteFacts DEF Sized, Lesser, MIN_ORDER_USD

\* What is bought on top of had, of at least a profile's floor, stays under the
\* ceiling and its lift if it was to stay under the ceiling.
LEMMA LiftedFits ==
  ASSUME NEW q \in Quotes, NEW had \in Nat, NEW usd \in Nat, usd >= MIN_ORDER_USD,
         had + usd <= q.ceil, had > 0 => usd >= q.floor, NEW cents \in 1..99
  PROVE  had + orderUsd(usd, cents) <= q.ceil + Lift(q)
<1>1. orderUsd(usd, cents) \in Nat /\ orderUsd(usd, cents) <= Greater(usd, 1980)
  BY OrderUsdFacts
<1>2. q.ceil \in Nat /\ q.floor \in Nat
  BY QuoteFacts
<1>3. CASE q.floor >= V2_FLOOR_USD /\ q.ceil >= V2_FLOOR_USD
  <2>1. Lift(q) = 0
    BY <1>3 DEF Lift
  <2> QED BY <1>1, <1>2, <1>3, <2>1 DEF Greater, V2_FLOOR_USD
<1>4. CASE ~ (q.floor >= V2_FLOOR_USD /\ q.ceil >= V2_FLOOR_USD)
  <2>1. Lift(q) = 980
    BY <1>4 DEF Lift
  <2> QED BY <1>1, <1>2, <2>1 DEF Greater, MIN_ORDER_USD
<1> QED BY <1>3, <1>4

\* Whatever a signal leads to, the snapshot with its order in it is sound.
LEMMA DecisionsSound ==
  ASSUME NEW b \in Buyers, NEW m \in Markets, NEW s, Sound(s), NEW q \in Quotes,
         NEW src \in Fills \cup {None}, NEW sold,
         NEW j \in Decisions(b, m, s, q, src, sold)
  PROVE  JobSound(j, s)
<1> DEFINE p == s[m]
<1>1. ~ (q.target < MIN_ORDER_USD)
  BY DEF Decisions
<1>2. CASE Mine(b, p)
  <2>1. PICK cents \in q.adds :
          /\ j = [m |-> m, kind |-> "add", usd |-> orderUsd(TopUp(q, p), cents), src |-> src]
          /\ TopUp(q, p) >= q.floor
    BY <1>1, <1>2 DEF Decisions
  <2>2. p # None /\ p \in Position /\ p.usd \in Nat
    BY <1>2 DEF Mine, Sound, Files, Position, Amounts
  <2>3. TopUp(q, p) \in Int /\ p.usd + TopUp(q, p) <= q.ceil
    BY <2>2, SizedFacts, QuoteFacts DEF TopUp
  <2>4. TopUp(q, p) \in Nat /\ TopUp(q, p) >= MIN_ORDER_USD /\ cents \in 1..99
    BY <2>1, <2>3, QuoteFacts DEF MIN_ORDER_USD
  <2>5. orderUsd(TopUp(q, p), cents) \in Nat \ {0}
    BY <2>4, OrderUsdFacts
  <2>6. j \in Job
    BY <2>1, <2>5 DEF Job
  <2>7. p.usd + orderUsd(TopUp(q, p), cents) <= q.ceil + Lift(q)
    BY <2>1, <2>2, <2>3, <2>4, LiftedFits
  <2>8. UnderCeil(p.usd + j.usd)
    BY <2>1, <2>7 DEF UnderCeil
  <2> QED BY <2>1, <2>2, <2>6, <2>8 DEF JobSound
<1>3. CASE ~ Mine(b, p)
  <2>1. PICK cents \in q.opens :
          j = [m |-> m, kind |-> "open", usd |-> orderUsd(Sized(q), cents), src |-> None]
    BY <1>1, <1>3 DEF Decisions
  <2>2. Sized(q) \in Nat /\ Sized(q) >= MIN_ORDER_USD /\ Sized(q) <= q.ceil /\ cents \in 1..99
    BY <1>1, SizedFacts, QuoteFacts
  <2>3. orderUsd(Sized(q), cents) \in Nat \ {0}
    BY <2>2, OrderUsdFacts
  <2>4. 0 + orderUsd(Sized(q), cents) <= q.ceil + Lift(q)
    BY <2>2, LiftedFits
  <2>5. j \in Job /\ j.kind = "open" /\ UnderCeil(j.usd)
    BY <2>1, <2>3, <2>4 DEF Job, UnderCeil
  <2> QED BY <2>5 DEF JobSound
<1> QED BY <1>2, <1>3

\* The copy with one position that is sound is sound.
LEMMA SoundWith ==
  ASSUME NEW f, Sound(f), NEW m \in Markets, NEW p \in Position \cup {None},
         p # None /\ p.own = "copytrade" => UnderCeil(p.usd)
  PROVE  Sound([f EXCEPT ![m] = p])
<1>1. f \in [Markets -> Position \cup {None}]
  BY DEF Sound, Files
<1> DEFINE g == [f EXCEPT ![m] = p]
<1>2. g \in [Markets -> Position \cup {None}]
  BY <1>1
<1>3. \A k \in Markets : g[k] = IF k = m THEN p ELSE f[k]
  BY <1>1
<1> HIDE DEF g
<1>4. \A k \in Markets : g[k] # None /\ g[k].own = "copytrade" => UnderCeil(g[k].usd)
  BY <1>3 DEF Sound
<1>5. Sound(g)
  BY <1>2, <1>4 DEF Sound, Files
<1> QED BY <1>5 DEF g

LEMMA TopUpRecord ==
  ASSUME NEW p \in Position, NEW usd, p.usd + usd \in Nat,
         NEW done, done \in SUBSET Fills
  PROVE  LET r == [p EXCEPT !.usd = p.usd + usd, !.done = done] IN
         r \in Position /\ r.own = p.own /\ r.usd = p.usd + usd
BY DEF Position, Amounts

LEMMA BookedSound ==
  ASSUME NEW b \in Buyers, Sound(snap[b]), JobSound(job[b], snap[b])
  PROVE  Sound(Booked(b))
<1> DEFINE j == job[b]
           old == snap[b][j.m]
           opened == [usd |-> j.usd, own |-> "copytrade", done |-> {}]
           added == [old EXCEPT !.usd = @ + j.usd, !.done = rememberSource(@, j.src)]
<1>1. j.m \in Markets /\ j.usd \in Nat /\ j.kind \in {"open", "add"} /\ j.src \in Fills \cup {None}
  BY DEF JobSound, Job
<1>2. CASE j.kind = "open"
  <2>1. opened \in Position /\ UnderCeil(opened.usd)
    BY <1>1, <1>2 DEF Position, Amounts, JobSound
  <2>2. Booked(b) = [snap[b] EXCEPT ![j.m] = opened]
    BY <1>2 DEF Booked
  <2> HIDE DEF opened
  <2> QED BY <1>1, <2>1, <2>2, SoundWith
<1>3. CASE j.kind = "add"
  <2>1. old # None /\ old \in Position
    BY <1>1, <1>3 DEF JobSound, Sound, Files
  <2>2. old.usd \in Nat /\ old.own \in {"copytrade", "adopted"} /\ old.done \in SUBSET Fills
        /\ old = [usd |-> old.usd, own |-> old.own, done |-> old.done]
    BY <2>1 DEF Position, Amounts
  <2>3. rememberSource(old.done, j.src) \in SUBSET Fills
    BY <1>1, <2>2 DEF rememberSource
  <2>4. old.usd + j.usd \in Nat
    BY <1>1, <2>2
  <2>5. added = [old EXCEPT !.usd = old.usd + j.usd, !.done = rememberSource(old.done, j.src)]
    BY <2>2
  <2>6. added \in Position /\ added.own = old.own /\ added.usd = old.usd + j.usd
    BY <2>1, <2>3, <2>4, <2>5, TopUpRecord
  <2>7. added.own = "copytrade" => UnderCeil(added.usd)
    BY <1>3, <2>6 DEF JobSound
  <2>8. Booked(b) = [snap[b] EXCEPT ![j.m] = added]
    BY <1>3 DEF Booked
  <2> HIDE DEF added
  <2> QED BY <1>1, <2>6, <2>7, <2>8, SoundWith
<1> QED BY <1>1, <1>2, <1>3

-----------------------------------------------------------------------------
\* One evaluation moves with its job, its snapshot and its signals.
Moves(b, to, j, s, t) ==
  /\ pc' = [pc EXCEPT ![b] = to]   /\ job' = [job EXCEPT ![b] = j]
  /\ snap' = [snap EXCEPT ![b] = s] /\ todo' = [todo EXCEPT ![b] = t]

LEMMA MovesPointwise ==
  ASSUME CInv, NEW b \in Buyers, NEW to, NEW j, NEW s, NEW t, Moves(b, to, j, s, t)
  PROVE  /\ pc'[b] = to /\ job'[b] = j /\ snap'[b] = s /\ todo'[b] = t
         /\ \A c \in Buyers \ {b} : /\ pc'[c] = pc[c] /\ job'[c] = job[c]
                                    /\ snap'[c] = snap[c] /\ todo'[c] = todo[c]
         /\ snap' = [c \in Buyers |-> snap'[c]] /\ todo' = [c \in Buyers |-> todo'[c]]
<1>1. pc'[b] = to /\ \A c \in Buyers \ {b} : pc'[c] = pc[c]
  BY DEF Moves, CInv, IInv, Shape
<1>2. job'[b] = j /\ \A c \in Buyers \ {b} : job'[c] = job[c]
  BY DEF Moves, CInv, IInv, Shape
<1>3. snap'[b] = s /\ (\A c \in Buyers \ {b} : snap'[c] = snap[c]) /\ snap' = [c \in Buyers |-> snap'[c]]
  BY DEF Moves, CInv, Locals
<1>4. todo'[b] = t /\ (\A c \in Buyers \ {b} : todo'[c] = todo[c]) /\ todo' = [c \in Buyers |-> todo'[c]]
  BY DEF Moves, CInv, Locals
<1> QED BY <1>1, <1>2, <1>3, <1>4

LEMMA LocalsMove ==
  ASSUME CInv, NEW b \in Buyers, NEW to, NEW j, NEW s, NEW t, Moves(b, to, j, s, t),
         LocalOf(to, j, s, t)
  PROVE  Locals'
<1>1. ASSUME NEW c \in Buyers PROVE LocalOf(pc'[c], job'[c], snap'[c], todo'[c])
  BY MovesPointwise DEF CInv, Locals
<1> QED BY <1>1, MovesPointwise DEF Locals

\* Nothing opens, and no order goes out, whatever else moves.
LEMMA NothingOut ==
  ASSUME CInv, NEW b \in Buyers, NEW to, NEW j, NEW s, NEW t, Moves(b, to, j, s, t),
         to # "order", UNCHANGED <<opens, unheard, orders>>
  PROVE  OrdersCounted'
<1>1. \A m \in Markets : Out(m)' => Out(m)
  BY MovesPointwise DEF Out
<1> QED BY <1>1 DEF OrdersCounted, CInv

LEMMA StandStill ==
  ASSUME CInv, UNCHANGED local PROVE Locals'
BY DEF CInv, Locals, local

LEMMA SameOrders ==
  ASSUME CInv, UNCHANGED <<pc, job, opens, unheard, orders>> PROVE OrdersCounted'
BY DEF CInv, OrdersCounted, Out

\* The evaluation ends: the tick goes on and keeps its snapshot.
EndStep(b) == IF b = "tick" THEN "scan" ELSE "idle"
EndSnap(b) == IF b = "tick" THEN snap[b] ELSE None

LEMMA OverMoves ==
  ASSUME CInv, NEW b \in Buyers, pc[b] \in Busy, Over(b)
  PROVE  /\ Moves(b, EndStep(b), None, EndSnap(b), todo[b]) /\ EndStep(b) # "order"
         /\ LocalOf(EndStep(b), None, EndSnap(b), todo[b])
<1>1. LocalOf(pc[b], job[b], snap[b], todo[b]) /\ snap = [c \in Buyers |-> snap[c]]
      /\ todo = [c \in Buyers |-> todo[c]]
  BY DEF CInv, Locals
<1>2. todo' = [todo EXCEPT ![b] = todo[b]]
  BY <1>1 DEF Over
<1>3. snap' = [snap EXCEPT ![b] = EndSnap(b)]
  BY <1>1 DEF Over, EndSnap
<1>4. Moves(b, EndStep(b), None, EndSnap(b), todo[b])
  BY <1>2, <1>3 DEF Over, Moves, EndStep
<1>5. LocalOf(EndStep(b), None, EndSnap(b), todo[b]) /\ EndStep(b) # "order"
  BY <1>1 DEF LocalOf, Busy, EndStep, EndSnap
<1> QED BY <1>4, <1>5

\* The steps of a decision, before any order.
LEMMA FastOpenSound ==
  ASSUME CInv, NEW b \in Fasts, NEW m \in Markets, FastOpen(b, m)
  PROVE  Locals' /\ OrdersCounted'
<1>1. PICK q \in Quotes, src \in Fills \cup {None}, sold \in BOOLEAN :
        \E j \in Decisions(b, m, file, q, src, sold) :
          /\ pc' = [pc EXCEPT ![b] = "price"] /\ job' = [job EXCEPT ![b] = j]
          /\ snap' = [snap EXCEPT ![b] = file] /\ UNCHANGED todo
  BY DEF FastOpen
<1>2. PICK j \in Decisions(b, m, file, q, src, sold) :
          /\ pc' = [pc EXCEPT ![b] = "price"] /\ job' = [job EXCEPT ![b] = j]
          /\ snap' = [snap EXCEPT ![b] = file] /\ UNCHANGED todo
  BY <1>1
<1>3. b \in Buyers /\ LocalOf(pc[b], job[b], snap[b], todo[b])
      /\ todo = [c \in Buyers |-> todo[c]] /\ Sound(file)
  BY DEF Buyers, CInv, Locals
<1>4. Moves(b, "price", j, file, todo[b])
  BY <1>2, <1>3 DEF Moves
<1>5. LocalOf("price", j, file, todo[b])
  BY <1>3, DecisionsSound DEF LocalOf, Busy
<1>6. UNCHANGED <<opens, unheard, orders>>
  BY DEF FastOpen, hist
<1> QED BY <1>3, <1>4, <1>5, <1>6, LocalsMove, NothingOut

LEMMA TickSignalSound ==
  ASSUME CInv, NEW m \in Markets, TickSignal(m)
  PROVE  Locals' /\ OrdersCounted' /\ Sound(file')
<1> DEFINE s == snap["tick"]
           t == todo["tick"] \ {m}
<1>1. "tick" \in Buyers /\ LocalOf(pc["tick"], job["tick"], s, todo["tick"]) /\ pc["tick"] = "scan"
      /\ snap = [c \in Buyers |-> snap[c]] /\ todo = [c \in Buyers |-> todo[c]] /\ Sound(file)
  BY DEF Buyers, CInv, Locals, TickSignal
<1>2. Sound(s) /\ t \subseteq Markets /\ job["tick"] = None
  BY <1>1 DEF LocalOf, Busy
<1>3. UNCHANGED <<opens, unheard, orders>>
  BY DEF TickSignal, hist
<1>4. snap' = [snap EXCEPT !["tick"] = s] /\ todo' = [todo EXCEPT !["tick"] = t]
  BY <1>1 DEF TickSignal
<1>5. file' = file \/ file' = s
  BY DEF TickSignal
<1> HIDE DEF s, t
<1>6. CASE UNCHANGED <<pc, job>>
  <2>1. Moves("tick", "scan", None, s, t)
    BY <1>1, <1>2, <1>4, <1>6 DEF Moves, CInv, IInv, Shape
  <2>2. LocalOf("scan", None, s, t)
    BY <1>2 DEF LocalOf, Busy
  <2> QED BY <1>1, <1>2, <1>3, <1>5, <2>1, <2>2, LocalsMove, NothingOut
<1>7. ASSUME NEW q \in Quotes, NEW src \in Fills \cup {None}, NEW sold \in BOOLEAN,
             NEW j \in Decisions("tick", m, s, q, src, sold),
             pc' = [pc EXCEPT !["tick"] = "price"], job' = [job EXCEPT !["tick"] = j]
      PROVE  Locals' /\ OrdersCounted'
  <2>1. Moves("tick", "price", j, s, t)
    BY <1>4, <1>7 DEF Moves
  <2>2. LocalOf("price", j, s, t)
    BY <1>1, <1>2, <1>7, DecisionsSound DEF LocalOf, Busy
  <2> QED BY <1>1, <1>3, <2>1, <2>2, LocalsMove, NothingOut
<1>8. Sound(file')
  BY <1>1, <1>2, <1>5
<1> QED BY <1>6, <1>7, <1>8 DEF TickSignal, s

LEMMA TickRestsSound ==
  ASSUME CInv, TickStarts \/ TickLoads \/ TickEnds
  PROVE  Locals' /\ OrdersCounted'
<1>1. "tick" \in Buyers /\ LocalOf(pc["tick"], job["tick"], snap["tick"], todo["tick"])
      /\ snap = [c \in Buyers |-> snap[c]] /\ todo = [c \in Buyers |-> todo[c]]
      /\ job = [c \in Buyers |-> job[c]] /\ Sound(file)
  BY DEF Buyers, CInv, Locals, IInv, Shape
<1>2. UNCHANGED <<opens, unheard, orders>>
  BY DEF TickStarts, TickLoads, TickEnds, hist
<1>3. pc["tick"] \in Resting /\ job["tick"] = None
  BY <1>1 DEF TickStarts, TickLoads, TickEnds, Resting, Busy, LocalOf
<1>4. CASE TickStarts
  <2>1. Moves("tick", "feed", None, snap["tick"], todo["tick"])
    BY <1>1, <1>3, <1>4 DEF TickStarts, Moves
  <2>2. LocalOf("feed", None, snap["tick"], todo["tick"])
    BY <1>1 DEF LocalOf, Busy
  <2> QED BY <1>1, <1>2, <2>1, <2>2, LocalsMove, NothingOut
<1>5. CASE TickLoads
  <2>1. Moves("tick", "scan", None, file, Markets)
    BY <1>1, <1>3, <1>5 DEF TickLoads, Moves
  <2>2. LocalOf("scan", None, file, Markets)
    BY <1>1 DEF LocalOf, Busy
  <2> QED BY <1>1, <1>2, <2>1, <2>2, LocalsMove, NothingOut
<1>6. CASE TickEnds
  <2>1. Moves("tick", "idle", None, None, todo["tick"])
    BY <1>1, <1>3, <1>6 DEF TickEnds, Moves
  <2>2. LocalOf("idle", None, None, todo["tick"])
    BY <1>1 DEF LocalOf, Busy
  <2> QED BY <1>1, <1>2, <2>1, <2>2, LocalsMove, NothingOut
<1> QED BY <1>4, <1>5, <1>6

\* What an evaluation that is under way knows of its job.
LEMMA UnderWay ==
  ASSUME CInv, NEW b \in Buyers, pc[b] \in Busy
  PROVE  /\ job[b] \in Job /\ job[b].m \in Markets /\ job[b].usd \in Nat \ {0}
         /\ JobSound(job[b], snap[b]) /\ Sound(snap[b]) /\ todo[b] \subseteq Markets
BY DEF CInv, Locals, LocalOf, JobSound, Job

\* An evaluation goes on with the job it has.
LEMMA GoesOn ==
  ASSUME CInv, NEW b \in Buyers, pc[b] \in Busy, NEW to \in Busy,
         pc' = [pc EXCEPT ![b] = to], UNCHANGED <<job, snap, todo>>
  PROVE  Moves(b, to, job[b], snap[b], todo[b]) /\ LocalOf(to, job[b], snap[b], todo[b])
<1>1. Moves(b, to, job[b], snap[b], todo[b])
  BY DEF Moves, CInv, Locals, IInv, Shape
<1>2. LocalOf(to, job[b], snap[b], todo[b])
  BY UnderWay DEF LocalOf
<1> QED BY <1>1, <1>2

LEMMA ClaimSound ==
  ASSUME CInv, NEW b \in Buyers, pc[b] \in Deciding, ClaimAndSend(b), UNCHANGED <<opens, unheard>>
  PROVE  /\ Locals' /\ OrdersCounted' /\ orders' \in 0..MaxOrders
         /\ inFlight' \subseteq Markets /\ cooldown' \subseteq Markets
<1>1. pc[b] \in Busy /\ job[b].m \in Markets /\ orders \in 0..MaxOrders
      /\ inFlight \subseteq Markets /\ cooldown \subseteq Markets
  BY UnderWay DEF Deciding, Busy, CInv, CountTypes, ShopTypes
<1>2. CASE Over(b) /\ UNCHANGED <<inFlight, cooldown, orders>>
  <2>1. /\ Moves(b, EndStep(b), None, EndSnap(b), todo[b]) /\ EndStep(b) # "order"
        /\ LocalOf(EndStep(b), None, EndSnap(b), todo[b])
    BY <1>1, <1>2, OverMoves
  <2> QED BY <1>1, <1>2, <2>1, LocalsMove, NothingOut
<1>3. CASE /\ orders < MaxOrders
           /\ inFlight' = inFlight \cup {job[b].m} /\ cooldown' = cooldown \cup {job[b].m}
           /\ orders' = orders + 1 /\ pc' = [pc EXCEPT ![b] = "order"]
           /\ UNCHANGED <<job, snap, todo>>
  <2>1. Moves(b, "order", job[b], snap[b], todo[b])
        /\ LocalOf("order", job[b], snap[b], todo[b])
    BY <1>1, <1>3, GoesOn DEF Busy
  <2>2. orders' \in 0..MaxOrders
    BY <1>1, <1>3, CopyBounds
  <2>3. \A m \in Markets : opens[m] <= orders /\ opens[m] \in Nat
    BY DEF CInv, OrdersCounted, IInv, Shape
  <2>4. OrdersCounted'
    BY <1>1, <1>3, <2>3 DEF OrdersCounted, CInv
  <2> QED BY <1>1, <1>3, <2>1, <2>2, <2>4, LocalsMove
<1> QED BY <1>2, <1>3 DEF ClaimAndSend

LEMMA DecidedSound ==
  ASSUME CInv, NEW b \in Buyers,
         NoPrice(b) \/ Buy(b) \/ \E usable \in BOOLEAN : BookRead(b, usable)
  PROVE  /\ Locals' /\ OrdersCounted' /\ orders' \in 0..MaxOrders
         /\ inFlight' \subseteq Markets /\ cooldown' \subseteq Markets /\ noBook' \subseteq Markets
         /\ UNCHANGED <<file, held, seen, seenFile, paused, backoff, cyc, restarts>>
<1>1. /\ pc[b] \in Deciding /\ UNCHANGED <<opens, unheard>> /\ noBook' \subseteq Markets
      /\ UNCHANGED <<file, held, seen, seenFile, paused, backoff, cyc, restarts>>
  <2>1. CASE NoPrice(b)
    BY <2>1 DEF NoPrice, Deciding, shop, hist, CInv, ShopTypes
  <2>2. CASE Buy(b)
    BY <2>2 DEF Buy, Deciding, CInv, ShopTypes
  <2>3. CASE \E usable \in BOOLEAN : BookRead(b, usable)
    BY <2>3 DEF BookRead, Deciding, CInv, ShopTypes
  <2> QED BY <2>1, <2>2, <2>3
<1>2. pc[b] \in Busy /\ orders \in 0..MaxOrders
      /\ inFlight \subseteq Markets /\ cooldown \subseteq Markets
  BY <1>1 DEF Deciding, Busy, CInv, CountTypes, ShopTypes
<1>3. CASE ClaimAndSend(b)
  BY <1>1, <1>3, ClaimSound
<1>4. CASE Over(b) /\ UNCHANGED <<inFlight, cooldown, orders>>
  <2>1. /\ Moves(b, EndStep(b), None, EndSnap(b), todo[b]) /\ EndStep(b) # "order"
        /\ LocalOf(EndStep(b), None, EndSnap(b), todo[b])
    BY <1>2, <1>4, OverMoves
  <2> QED BY <1>1, <1>2, <1>4, <2>1, LocalsMove, NothingOut
<1>5. CASE pc' = [pc EXCEPT ![b] = "book"] /\ UNCHANGED <<job, snap, todo, inFlight, cooldown, orders>>
  <2>1. Moves(b, "book", job[b], snap[b], todo[b]) /\ LocalOf("book", job[b], snap[b], todo[b])
    BY <1>2, <1>5, GoesOn DEF Busy
  <2> QED BY <1>1, <1>2, <1>5, <2>1, LocalsMove, NothingOut
<1>6. \/ ClaimAndSend(b) \/ (Over(b) /\ UNCHANGED <<inFlight, cooldown, orders>>)
      \/ pc' = [pc EXCEPT ![b] = "book"] /\ UNCHANGED <<job, snap, todo, inFlight, cooldown, orders>>
  <2>1. CASE NoPrice(b)
    BY <2>1 DEF NoPrice, shop, hist
  <2>2. CASE Buy(b)
    BY <2>2 DEF Buy
  <2>3. CASE \E usable \in BOOLEAN : BookRead(b, usable)
    BY <2>3 DEF BookRead
  <2> QED BY <2>1, <2>2, <2>3
<1> QED BY <1>3, <1>4, <1>5, <1>6

\* One order at most is out for a market: when it has been answered, none is.
LEMMA NoneOut ==
  ASSUME CInv, NEW b \in Buyers, pc[b] = "order", NEW to, to # "order", NEW j, NEW s, NEW t,
         Moves(b, to, j, s, t), NEW m \in Markets, Out(m)'
  PROVE  Out(m) /\ m # job[b].m
<1>1. PICK c \in Buyers : pc'[c] = "order" /\ job'[c].m = m
  BY DEF Out
<1>2. c # b /\ pc[c] = "order" /\ job[c].m = m
  BY <1>1, MovesPointwise
<1>3. Placing(c, m) /\ Placing(b, job[b].m)
  BY <1>2 DEF Placing
<1>4. m # job[b].m
  BY <1>2, <1>3 DEF CInv, IInv, LockExact
<1> QED BY <1>2, <1>4 DEF Out

LEMMA AnsweredCounts ==
  ASSUME CInv, NEW b \in Buyers, pc[b] = "order", NEW to, to # "order", NEW j, NEW s, NEW t,
         Moves(b, to, j, s, t), UNCHANGED orders,
         \A m \in Markets : \/ opens'[m] = opens[m]
                            \/ Opening(b, m) /\ opens'[m] = opens[m] + 1,
         \A m \in Markets : unheard'[m] <= opens'[m]
  PROVE  OrdersCounted'
<1>1. ASSUME NEW m \in Markets
      PROVE  opens'[m] <= orders /\ (Out(m)' => opens'[m] + 1 <= orders)
  <2>1. opens[m] <= orders /\ (Out(m) => opens[m] + 1 <= orders) /\ opens[m] \in Nat
        /\ orders \in Nat
    BY CopyBounds DEF CInv, OrdersCounted, IInv, Shape, CountTypes
  <2>2. CASE m = job[b].m
    <3>1. Out(m) /\ ~ Out(m)'
      BY <2>2, NoneOut DEF Out
    <3> QED BY <2>1, <3>1
  <2>3. CASE m # job[b].m
    <3>1. opens'[m] = opens[m]
      BY <2>3 DEF Opening
    <3>2. Out(m)' => Out(m)
      BY NoneOut
    <3> QED BY <2>1, <3>1, <3>2
  <2> QED BY <2>2, <2>3
<1> QED BY <1>1 DEF OrdersCounted

\* The order fills, perhaps all but a rest: less than the job asked for.
LEMMA VenueFillsSound ==
  ASSUME CInv, NEW b \in Buyers, NEW rest \in {0, V2_FLOOR_USD}, VenueFills(b, rest)
  PROVE  Locals' /\ OrdersCounted' /\ held' \in [Markets -> Nat]
<1> DEFINE j == job[b]
           usd == j.usd - rest
           less == [j EXCEPT !.usd = usd]
           s == snap[b]
<1>1. pc[b] \in Busy /\ pc[b] = "order" /\ usd > 0 /\ Taken(j, usd)
      /\ UNCHANGED <<orders, unheard>>
  BY DEF VenueFills, Busy
<1>2. j \in Job /\ j.m \in Markets /\ j.usd \in Nat \ {0} /\ JobSound(j, s) /\ Sound(s)
      /\ todo[b] \subseteq Markets
  BY <1>1, UnderWay
<1>3. rest \in Nat /\ usd \in Nat \ {0} /\ usd <= j.usd
  BY <1>1, <1>2 DEF V2_FLOOR_USD
<1>4. Moves(b, "filled", less, s, todo[b])
  BY DEF VenueFills, Moves, CInv, Locals, IInv, Shape
<1>5. held' = [held EXCEPT ![j.m] = @ + usd] /\ held \in [Markets -> Nat]
  BY <1>1 DEF Taken, CInv, CountTypes
<1>6. \A m \in Markets : \/ opens'[m] = opens[m]
                         \/ Opening(b, m) /\ opens'[m] = opens[m] + 1
  BY <1>1, TakenCounts DEF CInv
<1> HIDE DEF usd
<1>7. less \in Job /\ less.usd = usd /\ less.m = j.m /\ less.kind = j.kind
  BY <1>2, <1>3 DEF Job
<1> HIDE DEF less
<1>8. \A q \in Quotes, x \in Nat : x + j.usd <= q.ceil + Lift(q) => x + usd <= q.ceil + Lift(q)
  BY <1>2, <1>3, QuoteFacts
<1>9. UnderCeil(j.usd) => UnderCeil(usd)
  BY <1>2, <1>3, QuoteFacts DEF UnderCeil
<1>10. j.kind = "add" => s[j.m].usd \in Nat
  BY <1>2 DEF JobSound, Sound, Files, Position, Amounts
<1>11. j.kind = "add" /\ UnderCeil(s[j.m].usd + j.usd) => UnderCeil(s[j.m].usd + usd)
  BY <1>8, <1>10 DEF UnderCeil
<1>12. JobSound(less, s)
  BY <1>2, <1>7, <1>9, <1>11 DEF JobSound
<1>13. LocalOf("filled", less, s, todo[b])
  BY <1>2, <1>12 DEF LocalOf, Busy
<1>14. Locals'
  BY <1>4, <1>13, LocalsMove
<1>15. held' \in [Markets -> Nat]
  <2>1. held[j.m] + usd \in Nat
    BY <1>2, <1>3, <1>5
  <2> QED BY <1>2, <1>5, <2>1
<1>16. \A m \in Markets : unheard'[m] <= opens'[m]
  BY <1>1, <1>6 DEF CInv, OrdersCounted, IInv, Shape
<1>17. OrdersCounted'
  BY <1>1, <1>4, <1>6, <1>16, AnsweredCounts
<1> QED BY <1>14, <1>15, <1>17

\* The answer cannot be read: the whole order counts as filled.
LEMMA UnreadableSound ==
  ASSUME CInv, NEW b \in Buyers, NEW filled \in BOOLEAN, Unreadable(b, filled)
  PROVE  Locals' /\ OrdersCounted' /\ held' \in [Markets -> Nat]
<1> DEFINE j == job[b]
           usd == IF filled THEN j.usd ELSE 0
<1>1. pc[b] \in Busy /\ pc[b] = "order" /\ Taken(j, usd) /\ UNCHANGED <<orders, unheard>>
      /\ pc' = [pc EXCEPT ![b] = "filled"] /\ UNCHANGED <<job, snap, todo>>
  BY DEF Unreadable, Busy
<1>2. j.m \in Markets /\ usd \in Nat
  BY <1>1, UnderWay
<1>3. /\ Moves(b, "filled", job[b], snap[b], todo[b])
      /\ LocalOf("filled", job[b], snap[b], todo[b])
  BY <1>1, GoesOn DEF Busy
<1>4. held' = [held EXCEPT ![j.m] = @ + usd] /\ held \in [Markets -> Nat]
  BY <1>1 DEF Taken, CInv, CountTypes
<1>5. \A m \in Markets : \/ opens'[m] = opens[m]
                         \/ Opening(b, m) /\ opens'[m] = opens[m] + 1
  BY <1>1, TakenCounts DEF CInv
<1> HIDE DEF usd
<1>6. held' \in [Markets -> Nat]
  BY <1>2, <1>4
<1>7. \A m \in Markets : unheard'[m] <= opens'[m]
  BY <1>1, <1>5 DEF CInv, OrdersCounted, IInv, Shape
<1>8. OrdersCounted'
  BY <1>1, <1>3, <1>5, <1>7, AnsweredCounts
<1> QED BY <1>3, <1>6, <1>8, LocalsMove

LEMMA AnswerLostSound ==
  ASSUME CInv, NEW b \in Buyers, AnswerLost(b)
  PROVE  Locals' /\ OrdersCounted' /\ ShopTypes' /\ held' \in [Markets -> Nat]
<1> DEFINE j == job[b]
<1>1. /\ pc[b] \in Busy /\ pc[b] = "order" /\ Over(b) /\ Taken(j, j.usd) /\ UNCHANGED orders
      /\ unheard' = [unheard EXCEPT ![j.m] = IF j.kind = "open" THEN @ + 1 ELSE @]
  BY DEF AnswerLost, Busy
<1>2. j.m \in Markets /\ j.usd \in Nat \ {0}
  BY <1>1, UnderWay
<1>3. /\ Moves(b, EndStep(b), None, EndSnap(b), todo[b]) /\ EndStep(b) # "order"
      /\ LocalOf(EndStep(b), None, EndSnap(b), todo[b])
  BY <1>1, OverMoves
<1>4. held' \in [Markets -> Nat]
  <2>1. held' = [held EXCEPT ![j.m] = @ + j.usd] /\ held \in [Markets -> Nat]
    BY <1>1 DEF Taken, CInv, CountTypes
  <2> QED BY <1>2, <2>1
<1>5. \A m \in Markets : opens'[m] = IF Opening(b, m) THEN opens[m] + 1 ELSE opens[m]
  BY <1>1, <1>2 DEF Taken, Opening, CInv, IInv, Shape
<1>6. \A m \in Markets : unheard'[m] = IF Opening(b, m) THEN unheard[m] + 1 ELSE unheard[m]
  BY <1>1, <1>2 DEF Opening, CInv, IInv, Shape
<1>7. \A m \in Markets : unheard'[m] <= opens'[m]
  BY <1>5, <1>6 DEF CInv, OrdersCounted, IInv, Shape
<1>8. OrdersCounted'
  BY <1>1, <1>3, <1>5, <1>7, AnsweredCounts
<1>9. ShopTypes'
  BY <1>2 DEF AnswerLost, MarkSeen, Release, CInv, ShopTypes
<1> QED BY <1>3, <1>4, <1>8, <1>9, LocalsMove

LEMMA FilledSound ==
  ASSUME CInv, NEW b \in Buyers, Filled(b)
  PROVE  Locals' /\ OrdersCounted' /\ Sound(file') /\ ShopTypes'
<1> DEFINE to == IF b = "tick" THEN "scan" ELSE "idle"
           s == IF b = "tick" THEN file' ELSE None
<1>1. pc[b] \in Busy /\ job[b].m \in Markets /\ Sound(snap[b]) /\ JobSound(job[b], snap[b])
      /\ todo[b] \subseteq Markets
  BY UnderWay DEF Filled, Busy
<1>2. Sound(file')
  BY <1>1, BookedSound DEF Filled
<1>3. Moves(b, to, None, s, todo[b])
  BY DEF Filled, Moves, CInv, Locals
<1>4. LocalOf(to, None, s, todo[b])
  BY <1>1, <1>2 DEF LocalOf, Busy
<1>5. to # "order" /\ UNCHANGED <<opens, unheard, orders>>
  BY DEF Filled, hist
<1>6. ShopTypes'
  BY <1>1 DEF Filled, MarkSeen, CInv, ShopTypes
<1> HIDE DEF to, s
<1> QED BY <1>2, <1>3, <1>4, <1>5, <1>6, LocalsMove, NothingOut

LEMMA RefusedSound ==
  ASSUME CInv, NEW b \in Buyers, NEW code \in Codes, Refused(b, code)
  PROVE  Locals' /\ OrdersCounted' /\ ShopTypes'
<1>1. pc[b] \in Busy /\ Over(b) /\ UNCHANGED <<opens, unheard, orders>>
  BY DEF Refused, Busy, hist
<1>2. /\ Moves(b, EndStep(b), None, EndSnap(b), todo[b]) /\ EndStep(b) # "order"
      /\ LocalOf(EndStep(b), None, EndSnap(b), todo[b])
  BY <1>1, OverMoves
<1>3. job[b].m \in Markets
  BY <1>1, UnderWay
<1>4. UNCHANGED <<seen, seenFile, cooldown>> /\ inFlight' \subseteq inFlight
      /\ noBook' \subseteq noBook \cup {job[b].m}
  BY DEF Refused, MarkSeen, Release
<1>5. paused \in BOOLEAN /\ backoff \in BOOLEAN
  BY DEF CInv, ShopTypes
<1>6. paused' \in {paused, TRUE} /\ backoff' \in {backoff, TRUE}
  BY DEF Refused
<1>7. ShopTypes'
  BY <1>3, <1>4, <1>5, <1>6 DEF CInv, ShopTypes
<1> QED BY <1>1, <1>2, <1>7, LocalsMove, NothingOut

\* The cycle: what it adopts is the wallet's, not the engine's own.
LEMMA CycleStepsSound ==
  ASSUME CInv, \/ CycleLoads \/ CycleReconciles \/ CycleHoldingsFail \/ CycleEnds
               \/ \E m \in Markets : CycleSells(m)
  PROVE  CycleSound' /\ Sound(file') /\ held' \in [Markets -> Nat]
<1>1. /\ cyc = [at |-> cyc.at, snap |-> cyc.snap, wallet |-> cyc.wallet]
      /\ cyc.at # "idle" => Sound(cyc.snap)
      /\ cyc.at = "read" => cyc.wallet \in [Markets -> Nat]
      /\ Sound(file) /\ held \in [Markets -> Nat]
  BY DEF CInv, CycleSound, CountTypes
<1>2. CASE CycleLoads
  <2>1. cyc' = [at |-> "read", snap |-> file, wallet |-> held] /\ UNCHANGED <<file, held>>
    BY <1>2 DEF CycleLoads
  <2> QED BY <1>1, <2>1 DEF CycleSound
<1>3. CASE CycleReconciles
  <2>1. cyc.at = "read" /\ file' = Reconciled
        /\ cyc' = [at |-> "exits", snap |-> file', wallet |-> None] /\ UNCHANGED held
    BY <1>3 DEF CycleReconciles
  <2>2. Sound(cyc.snap) /\ cyc.wallet \in [Markets -> Nat]
    BY <1>1, <2>1
  <2>3. ASSUME NEW m \in Markets
        PROVE  Adopted(m) \in Position /\ Adopted(m).own = "adopted"
               /\ cyc.snap[m] \in Position \cup {None}
    BY <2>2 DEF Adopted, Position, Amounts, Sound, Files
  <2>4. ASSUME NEW m \in Markets
        PROVE  /\ Reconciled[m] \in Position \cup {None}
               /\ Reconciled[m] # None /\ Reconciled[m].own = "copytrade" => UnderCeil(Reconciled[m].usd)
    <3>1. Reconciled[m] \in {None, Adopted(m), cyc.snap[m]}
      BY DEF Reconciled
    <3> QED BY <2>2, <2>3, <3>1 DEF Sound
  <2>5. Reconciled = [m \in Markets |-> Reconciled[m]]
    BY DEF Reconciled
  <2>6. Reconciled \in Files
    BY <2>4, <2>5 DEF Files
  <2>7. Sound(file')
    BY <2>1, <2>4, <2>6 DEF Sound
  <2> QED BY <1>1, <2>1, <2>7 DEF CycleSound
<1>4. CASE CycleHoldingsFail
  <2>1. cyc.at = "read" /\ cyc' = [at |-> "exits", snap |-> cyc.snap, wallet |-> None]
        /\ UNCHANGED <<file, held>>
    BY <1>1, <1>4 DEF CycleHoldingsFail
  <2> QED BY <1>1, <2>1 DEF CycleSound
<1>5. ASSUME NEW m \in Markets, CycleSells(m) PROVE CycleSound' /\ Sound(file') /\ held' \in [Markets -> Nat]
  <2>1. cyc.at = "exits" /\ cyc' = [cyc EXCEPT !.snap[m] = None] /\ file' = cyc'.snap
        /\ held' = [held EXCEPT ![m] = 0]
    BY <1>5 DEF CycleSells
  <2>2. cyc' = [at |-> cyc.at, snap |-> [cyc.snap EXCEPT ![m] = None], wallet |-> cyc.wallet]
    BY <1>1, <2>1
  <2>3. Sound([cyc.snap EXCEPT ![m] = None])
    BY <1>1, <2>1, SoundWith
  <2>4. held' \in [Markets -> Nat]
    BY <1>1, <2>1
  <2> QED BY <2>1, <2>2, <2>3, <2>4 DEF CycleSound
<1>6. CASE CycleEnds
  <2>1. cyc' = [at |-> "idle", snap |-> None, wallet |-> None] /\ UNCHANGED <<file, held>>
    BY <1>6 DEF CycleEnds, IdleCycle
  <2> QED BY <1>1, <2>1 DEF CycleSound
<1> QED BY <1>2, <1>3, <1>4, <1>5, <1>6

LEMMA RestartSound == ASSUME CInv, Restart PROVE CInv'
<1>1. /\ restarts < MaxRestarts /\ restarts' = restarts + 1 /\ seen' = seenFile
      /\ cooldown' = {} /\ inFlight' = {} /\ noBook' = {} /\ paused' = FALSE /\ backoff' = FALSE
      /\ pc' = [b \in Buyers |-> "idle"] /\ job' = [b \in Buyers |-> None]
      /\ snap' = [b \in Buyers |-> None] /\ todo' = [b \in Buyers |-> {}]
      /\ cyc' = [at |-> "idle", snap |-> None, wallet |-> None]
      /\ UNCHANGED <<file, held, seenFile, orders, opens, unheard>>
  BY DEF Restart, IdleCycle
<1>2. IInv'
  BY RestartKeeps DEF CInv
<1>3. Locals'
  BY <1>1 DEF Locals, LocalOf, Busy
<1>4. CycleSound'
  BY <1>1 DEF CycleSound
<1>5. ShopTypes'
  BY <1>1 DEF ShopTypes, CInv
<1>6. CountTypes'
  BY <1>1, CopyBounds DEF CountTypes, CInv
<1>7. OrdersCounted'
  BY <1>1 DEF OrdersCounted, Out, CInv
<1> QED BY <1>1, <1>2, <1>3, <1>4, <1>5, <1>6, <1>7 DEF CInv

-----------------------------------------------------------------------------
(***************************************************************************)
(* The theorems.                                                           *)
(***************************************************************************)
LEMMA Starts == Init => IInv
<1> SUFFICES ASSUME Init PROVE IInv
  OBVIOUS
<1>1. Shape
  BY DEF Init, Shape, Resting, Busy
<1>2. LockExact
  BY DEF Init, LockExact, Placing
<1>3. OpensCounted
  BY DEF Init, OpensCounted, CountedFor, Spare
<1> QED BY <1>1, <1>2, <1>3 DEF Init, IInv

LEMMA Keeps == IInv /\ [Next]_vars => IInv'
<1> SUFFICES ASSUME IInv, [Next]_vars PROVE IInv'
  OBVIOUS
<1> DEFINE Still == UNCHANGED <<pc, job, inFlight, seen, seenFile, opens, restarts, unheard>>
<1>1. ASSUME NEW m \in Markets, Cools(m) \/ MemoExpires(m) \/ CycleSells(m) PROVE Still
  BY <1>1 DEF Cools, MemoExpires, CycleSells, shop, local, hist
<1>2. CASE BreakersExpire \/ CycleLoads \/ CycleReconciles \/ CycleHoldingsFail \/ CycleEnds
  <2>1. Still
    BY <1>2 DEF BreakersExpire, CycleLoads, CycleReconciles, CycleHoldingsFail, CycleEnds,
                shop, local, hist
  <2> QED BY <2>1, NothingMoves
<1>3. CASE UNCHANGED vars
  BY <1>3, NothingMoves DEF vars, shop, local, hist
<1> HIDE DEF Still
<1>4. ASSUME NEW m \in Markets, Cools(m) \/ MemoExpires(m) \/ CycleSells(m) PROVE IInv'
  BY <1>1, <1>4, NothingMoves DEF Still
<1>5. ASSUME NEW b \in Buyers, \/ NoPrice(b) \/ Buy(b) \/ Filled(b) \/ AnswerLost(b)
                               \/ \E filled \in BOOLEAN : Unreadable(b, filled)
                               \/ \E usable \in BOOLEAN : BookRead(b, usable)
                               \/ \E rest \in {0, V2_FLOOR_USD} : VenueFills(b, rest)
                               \/ \E code \in Codes : Refused(b, code)
      PROVE  IInv'
  BY <1>5, DecidedSteps, FilledKeeps, VenueFillsKeeps, RefusedKeeps, UnreadableKeeps,
     AnswerLostKeeps
<1> QED BY <1>2, <1>3, <1>4, <1>5, FastOpenKeeps, TickRests, TickSignalKeeps, RestartKeeps
        DEF Next

LEMMA Invariance == Spec => []IInv
BY Starts, Keeps, PTL DEF Spec

\* The claim of a market (copytrade.mjs, inFlightBuys) stands for one order
\* that is out, never for two and never for none, for any number of
\* evaluations, refusals and restarts.
THEOREM LockIsExact == Spec => []OneOrderInFlight
<1>1. IInv => OneOrderInFlight
  <2> SUFFICES ASSUME IInv, NEW m \in Markets
               PROVE  Cardinality({b \in Buyers : Placing(b, m)})
                        = (IF m \in inFlight THEN 1 ELSE 0)
    BY DEF OneOrderInFlight
  <2> DEFINE S == {b \in Buyers : Placing(b, m)}
  <2>1. CASE m \in inFlight
    <3>1. PICK b \in Buyers : Placing(b, m)
      BY <2>1 DEF IInv, LockExact
    <3>2. S = {b}
      BY <3>1 DEF IInv, LockExact
    <3> QED BY <2>1, <3>2, FS_Singleton
  <2>2. CASE m \notin inFlight
    <3>1. S = {}
      BY <2>2 DEF IInv, LockExact
    <3> QED BY <2>2, <3>1, FS_EmptySet
  <2> QED BY <2>1, <2>2
<1> QED BY <1>1, Invariance, PTL

\* However evaluations, sales, re-adoptions and crashes interleave, a market is
\* opened no more often than there are evaluations, restarts and openings that
\* filled although their answer was taken for a failure: "once ever"
\* (copytrade.mjs 156-158) as it can be relied on.
THEOREM OpensAreBounded == Spec => []OpensBounded
<1>1. IInv => OpensBounded
  <2> SUFFICES ASSUME IInv, NEW m \in Markets
               PROVE  opens[m] <= Cardinality(Buyers) + restarts + unheard[m]
    BY DEF OpensBounded
  <2>1. opens[m] \in Nat /\ restarts \in Nat /\ unheard[m] \in Nat /\ Cardinality(Pending(m)) \in Nat
        /\ Cardinality(Buyers) \in Nat /\ Cardinality(Buyers) > 0
    BY FiniteBuyers DEF IInv, Shape, Pending
  <2>2. CASE m \in seen
    BY <2>1, <2>2 DEF IInv, OpensCounted, CountedFor, Spare
  <2>3. CASE m \notin seen
    <3>1. opens[m] <= Spare(m) + 1
      BY <2>1, <2>3 DEF IInv, OpensCounted, CountedFor, Spare
    <3> QED BY <2>1, <3>1 DEF Spare
  <2> QED BY <2>2, <2>3
<1> QED BY <1>1, Invariance, PTL

LEMMA SoundStarts == Init => CInv
<1> SUFFICES ASSUME Init PROVE CInv
  OBVIOUS
<1>1. IInv
  BY Starts
<1>2. Locals
  BY DEF Init, Locals, LocalOf, Busy
<1>3. Sound(file)
  BY DEF Init, Sound, Files
<1>4. CycleSound
  BY DEF Init, CycleSound, IdleCycle
<1>5. ShopTypes /\ CountTypes
  <2>1. ShopTypes
    BY DEF Init, ShopTypes
  <2>2. held \in [Markets -> Nat]
    BY DEF Init
  <2>3. 0 \in 0..MaxOrders /\ 0 \in 0..MaxRestarts
    BY CopyBounds
  <2> QED BY <2>1, <2>2, <2>3 DEF Init, CountTypes
<1>6. OrdersCounted
  BY DEF Init, OrdersCounted, Out
<1> QED BY <1>1, <1>2, <1>3, <1>4, <1>5, <1>6 DEF CInv

LEMMA SoundKeeps == CInv /\ [Next]_vars => CInv'
<1> SUFFICES ASSUME CInv, [Next]_vars PROVE CInv'
  OBVIOUS
<1>1. IInv'
  BY Keeps DEF CInv
<1>2. ASSUME UNCHANGED <<held, orders, restarts>> PROVE CountTypes'
  BY <1>2 DEF CInv, CountTypes
<1>3. ASSUME UNCHANGED cyc PROVE CycleSound'
  BY <1>3 DEF CInv, CycleSound
<1>4. ASSUME UNCHANGED shop PROVE ShopTypes'
  BY <1>4 DEF CInv, ShopTypes, shop
<1>5. ASSUME UNCHANGED file PROVE Sound(file')
  BY <1>5 DEF CInv
<1>6. ASSUME NEW b \in Fasts, NEW m \in Markets, FastOpen(b, m) PROVE CInv'
  <2>1. UNCHANGED <<file, held, orders, restarts>> /\ UNCHANGED cyc /\ UNCHANGED shop
    BY <1>6 DEF FastOpen, hist
  <2> QED BY <1>1, <1>2, <1>3, <1>4, <1>5, <1>6, <2>1, FastOpenSound DEF CInv
<1>7. CASE TickStarts \/ TickLoads \/ TickEnds
  <2>1. UNCHANGED <<file, held, orders, restarts>> /\ UNCHANGED cyc /\ UNCHANGED shop
    BY <1>7 DEF TickStarts, TickLoads, TickEnds, hist
  <2> QED BY <1>1, <1>2, <1>3, <1>4, <1>5, <1>7, <2>1, TickRestsSound DEF CInv
<1>8. ASSUME NEW m \in Markets, TickSignal(m) PROVE CInv'
  <2>1. UNCHANGED <<held, orders, restarts>> /\ UNCHANGED cyc /\ UNCHANGED shop
    BY <1>8 DEF TickSignal, hist
  <2> QED BY <1>1, <1>2, <1>3, <1>4, <1>8, <2>1, TickSignalSound DEF CInv
<1>9. ASSUME NEW b \in Buyers,
             NoPrice(b) \/ Buy(b) \/ \E usable \in BOOLEAN : BookRead(b, usable)
      PROVE  CInv'
  <2>1. /\ Locals' /\ OrdersCounted' /\ orders' \in 0..MaxOrders
        /\ inFlight' \subseteq Markets /\ cooldown' \subseteq Markets /\ noBook' \subseteq Markets
        /\ UNCHANGED <<file, held, seen, seenFile, paused, backoff, cyc, restarts>>
    BY <1>9, DecidedSound
  <2>2. ShopTypes' /\ CountTypes'
    BY <2>1 DEF CInv, ShopTypes, CountTypes
  <2> QED BY <1>1, <1>3, <1>5, <2>1, <2>2 DEF CInv
<1>10. ASSUME NEW b \in Buyers, NEW rest \in {0, V2_FLOOR_USD}, VenueFills(b, rest) PROVE CInv'
  <2>1. UNCHANGED <<file, orders, restarts>> /\ UNCHANGED cyc /\ UNCHANGED shop
    BY <1>10 DEF VenueFills
  <2>2. Locals' /\ OrdersCounted' /\ held' \in [Markets -> Nat]
    BY <1>10, VenueFillsSound
  <2>3. CountTypes'
    BY <2>1, <2>2 DEF CInv, CountTypes
  <2> QED BY <1>1, <1>3, <1>4, <1>5, <2>1, <2>2, <2>3 DEF CInv
<1>18. ASSUME NEW b \in Buyers, NEW filled \in BOOLEAN, Unreadable(b, filled) PROVE CInv'
  <2>1. UNCHANGED <<file, orders, restarts>> /\ UNCHANGED cyc /\ UNCHANGED shop
    BY <1>18 DEF Unreadable
  <2>2. Locals' /\ OrdersCounted' /\ held' \in [Markets -> Nat]
    BY <1>18, UnreadableSound
  <2>3. CountTypes'
    BY <2>1, <2>2 DEF CInv, CountTypes
  <2> QED BY <1>1, <1>3, <1>4, <1>5, <2>1, <2>2, <2>3 DEF CInv
<1>19. ASSUME NEW b \in Buyers, AnswerLost(b) PROVE CInv'
  <2>1. UNCHANGED <<file, orders, restarts>> /\ UNCHANGED cyc
    BY <1>19 DEF AnswerLost
  <2>2. Locals' /\ OrdersCounted' /\ ShopTypes' /\ held' \in [Markets -> Nat]
    BY <1>19, AnswerLostSound
  <2>3. CountTypes'
    BY <2>1, <2>2 DEF CInv, CountTypes
  <2> QED BY <1>1, <1>3, <1>5, <2>1, <2>2, <2>3 DEF CInv
<1>11. ASSUME NEW b \in Buyers, Filled(b) PROVE CInv'
  <2>1. UNCHANGED <<held, orders, restarts>> /\ UNCHANGED cyc
    BY <1>11 DEF Filled, hist
  <2> QED BY <1>1, <1>2, <1>3, <1>11, <2>1, FilledSound DEF CInv
<1>12. ASSUME NEW b \in Buyers, NEW code \in Codes, Refused(b, code) PROVE CInv'
  <2>1. UNCHANGED <<file, held, orders, restarts>> /\ UNCHANGED cyc
    BY <1>12 DEF Refused, hist
  <2> QED BY <1>1, <1>2, <1>3, <1>5, <1>12, <2>1, RefusedSound DEF CInv
<1>13. ASSUME NEW m \in Markets, Cools(m) \/ MemoExpires(m) PROVE CInv'
  <2>1. UNCHANGED <<file, held, orders, restarts>> /\ UNCHANGED cyc /\ UNCHANGED local /\ UNCHANGED <<opens, unheard>>
    BY <1>13 DEF Cools, MemoExpires, hist
  <2>2. ShopTypes'
    BY <1>13 DEF Cools, MemoExpires, CInv, ShopTypes
  <2>3. UNCHANGED <<pc, job, opens, unheard, orders>>
    BY <2>1 DEF local
  <2> QED BY <1>1, <1>2, <1>3, <1>5, <2>1, <2>2, <2>3, StandStill, SameOrders DEF CInv
<1>14. CASE BreakersExpire
  <2>1. UNCHANGED <<file, held, orders, restarts>> /\ UNCHANGED cyc /\ UNCHANGED local /\ UNCHANGED <<opens, unheard>>
    BY <1>14 DEF BreakersExpire, hist
  <2>2. ShopTypes'
    BY <1>14 DEF BreakersExpire, CInv, ShopTypes
  <2>3. UNCHANGED <<pc, job, opens, unheard, orders>>
    BY <2>1 DEF local
  <2> QED BY <1>1, <1>2, <1>3, <1>5, <2>1, <2>2, <2>3, StandStill, SameOrders DEF CInv
<1>15. CASE \/ CycleLoads \/ CycleReconciles \/ CycleHoldingsFail \/ CycleEnds
            \/ \E m \in Markets : CycleSells(m)
  <2>1. UNCHANGED <<orders, restarts>> /\ UNCHANGED shop /\ UNCHANGED local /\ UNCHANGED <<opens, unheard>>
    BY <1>15 DEF CycleLoads, CycleReconciles, CycleHoldingsFail, CycleEnds, CycleSells, hist
  <2>2. CycleSound' /\ Sound(file') /\ held' \in [Markets -> Nat]
    BY <1>15, CycleStepsSound
  <2>3. CountTypes'
    BY <2>1, <2>2 DEF CInv, CountTypes
  <2>4. UNCHANGED <<pc, job, opens, unheard, orders>>
    BY <2>1 DEF local
  <2> QED BY <1>1, <1>4, <2>1, <2>2, <2>3, <2>4, StandStill, SameOrders DEF CInv
<1>16. CASE Restart
  BY <1>16, RestartSound
<1>17. CASE UNCHANGED vars
  <2>1. UNCHANGED <<file, held, orders, restarts>> /\ UNCHANGED cyc /\ UNCHANGED local
        /\ UNCHANGED <<opens, unheard>> /\ UNCHANGED shop
    BY <1>17 DEF vars, hist
  <2>2. UNCHANGED <<pc, job, opens, unheard, orders>>
    BY <2>1 DEF local
  <2> QED BY <1>1, <1>2, <1>3, <1>4, <1>5, <2>1, <2>2, StandStill, SameOrders DEF CInv
<1> QED BY <1>6, <1>7, <1>8, <1>9, <1>10, <1>11, <1>12, <1>13, <1>14, <1>15, <1>16, <1>17,
          <1>18, <1>19 DEF Next

\* The file of positions has its shape and, whichever of the tick, the fast
\* paths and the cycle writes a snapshot back, and however stale it is, holds
\* no more of the engine's own in one position than the ceiling
\* (copytrade.mjs, positionCeil) of some signal, profile and portfolio, and
\* 98 cents above it where an order may be of less than two dollars: what
\* copytrade.mjs:741 adds to make a dollar of shares.
THEOREM CeilingHolds == Spec => []FileWithinCeiling
<1>1. Spec => []CInv
  BY SoundStarts, SoundKeeps, PTL DEF Spec
<1>2. CInv => FileWithinCeiling
  <2> SUFFICES ASSUME CInv PROVE FileWithinCeiling
    OBVIOUS
  <2>1. file \in Files /\ held \in [Markets -> Amounts]
    BY DEF CInv, Sound, CountTypes, Amounts
  <2>2. /\ {seen, seenFile, cooldown, inFlight, noBook} \subseteq SUBSET Markets
        /\ {paused, backoff} \subseteq BOOLEAN
    BY DEF CInv, ShopTypes
  <2>3. pc \in [Buyers -> {"idle", "feed", "scan", "price", "book", "order", "filled"}]
    BY DEF CInv, IInv, Shape, Resting, Busy
  <2>4. \A b \in Buyers : /\ job[b] \in Job \cup {None}
                          /\ snap[b] \in Files \cup {None}
                          /\ todo[b] \subseteq Markets
    BY DEF CInv, Locals, LocalOf, JobSound, Sound
  <2>5. {opens, unheard} \subseteq [Markets -> 0..MaxOrders]
    <3>1. \A m \in Markets : opens[m] \in 0..MaxOrders /\ unheard[m] \in 0..MaxOrders
      BY CopyBounds DEF CInv, IInv, Shape, OrdersCounted, CountTypes
    <3> QED BY <3>1 DEF CInv, IInv, Shape
  <2>6. cyc.at \in {"idle", "read", "exits"} /\ orders \in 0..MaxOrders /\ restarts \in 0..MaxRestarts
    BY DEF CInv, CycleSound, CountTypes
  <2>7. TypeOK
    BY <2>1, <2>2, <2>3, <2>4, <2>5, <2>6 DEF TypeOK
  <2> QED BY <2>7 DEF FileWithinCeiling, CInv, Sound, UnderCeil
<1> QED BY <1>1, <1>2, PTL

-----------------------------------------------------------------------------
(***************************************************************************)
(* The sizes themselves, whatever the whale and the portfolio are.         *)
(***************************************************************************)
LEMMA CappedFacts ==
  ASSUME NEW want \in Int, NEW floor \in Int, NEW port \in Nat
  PROVE  Capped(want, floor, port) = 0
         \/ Capped(want, floor, port) \in MIN_ORDER_USD..70 * port
BY DEF Capped, Lesser, Greater, MIN_ORDER_USD

\* One order for the whole position: none, or between the venue's minimum and
\* 7 percent of the portfolio.  The cap wins over the floor that lifts small
\* orders (copytrade.mjs:344, 370-391).
THEOREM OneShotWithinCap ==
  ASSUME NEW sig, NEW port \in Nat, sig.cost \in Nat, sig.anchor \in Nat
  PROVE  oneShotTarget(sig, port) = 0
         \/ oneShotTarget(sig, port) \in MIN_ORDER_USD..70 * port
<1>1. 30 * port \in Int /\ 4000 \in Int /\ 5000 \in Int
  OBVIOUS
<1>2. sig.anchor > 0 => Graded(sig, port) \in Int
  <2> SUFFICES ASSUME sig.anchor > 0 PROVE Graded(sig, port) \in Int
    OBVIOUS
  <2>1. 70 * sig.cost * port \in Int /\ 70 * port \in Int
    OBVIOUS
  <2>2. (70 * sig.cost * port) \div sig.anchor \in Int
    BY <2>1
  <2> QED BY <2>1, <2>2 DEF Graded, Lesser
<1>3. /\ Capped(30 * port, 4000, port) = 0 \/ Capped(30 * port, 4000, port) \in MIN_ORDER_USD..70 * port
      /\ Capped(30 * port, 5000, port) = 0 \/ Capped(30 * port, 5000, port) \in MIN_ORDER_USD..70 * port
  BY <1>1, CappedFacts
<1>4. sig.anchor > 0 => Capped(Graded(sig, port), 4000, port) = 0
                        \/ Capped(Graded(sig, port), 4000, port) \in MIN_ORDER_USD..70 * port
  BY <1>1, <1>2, CappedFacts
<1>5. oneShotTarget(sig, port) \in {0, Capped(30 * port, 4000, port), Capped(30 * port, 5000, port)}
      \/ (sig.anchor > 0 /\ oneShotTarget(sig, port) = Capped(Graded(sig, port), 4000, port))
  BY DEF oneShotTarget
<1> QED BY <1>3, <1>4, <1>5

\* The dollars of a top-up bring a position up to its tier and never past the
\* ceiling; what is above the ceiling already gets nothing (tier-ladder.mjs).
\* The shares they are turned into are another matter: see orderUsd.
THEOREM TopUpWithinCeiling ==
  ASSUME NEW pct \in Nat, NEW port \in Nat, NEW had \in Nat, NEW ceilPct \in Nat
  PROVE  /\ topUp(pct, port, had, ceilPct) \in Nat
         /\ had + topUp(pct, port, had, ceilPct) <= Greater(had, ceilPct * port)
         /\ pct <= ceilPct => had + topUp(pct, port, had, ceilPct) >= pct * port
<1>1. pct * port \in Nat /\ ceilPct * port \in Nat
  OBVIOUS
<1>2. pct <= ceilPct => pct * port <= ceilPct * port
  <2> SUFFICES ASSUME pct <= ceilPct PROVE pct * port <= ceilPct * port
    OBVIOUS
  <2>1. PICK k \in Nat : ceilPct = pct + k
    <3>1. ceilPct - pct \in Nat /\ ceilPct = pct + (ceilPct - pct)
      OBVIOUS
    <3> QED BY <3>1
  <2>2. (pct + k) * port = pct * port + k * port /\ k * port \in Nat
    OBVIOUS
  <2> QED BY <1>1, <2>1, <2>2
<1> DEFINE a == pct * port
           b == ceilPct * port
<1>3. a \in Nat /\ b \in Nat /\ (pct <= ceilPct => a <= b)
  BY <1>1, <1>2
<1>4. topUp(pct, port, had, ceilPct) = Greater(0, Lesser(a, b) - had)
  BY DEF topUp
<1> HIDE DEF a, b
<1>5. LET t == Greater(0, Lesser(a, b) - had)
      IN t \in Nat /\ had + t <= Greater(had, b) /\ (a <= b => had + t >= a)
  BY <1>3 DEF Greater, Lesser
<1> QED BY <1>3, <1>4, <1>5 DEF b, a

\* A whale that puts in more never gets a smaller percentage, on any ladder
\* whose percentages fall along its bands (tier-ladder.mjs).
THEOREM LadderRises ==
  ASSUME NEW t, NEW n \in Nat, NEW pcts \in [1..n -> Nat],
         \A i \in DOMAIN t : t[i] \in Nat,
         \A i, j \in 1..n : i <= j => pcts[j] <= pcts[i],
         NEW less \in Nat, NEW more \in Nat, less <= more
  PROVE  pctFromBands(less, t, pcts) <= pctFromBands(more, t, pcts)
<1> DEFINE hit(x) == {i \in DOMAIN pcts : i \in DOMAIN t /\ x >= t[i]}
           first(x) == CHOOSE i \in hit(x) : \A k \in hit(x) : i <= k
<1>1. DOMAIN pcts = 1..n /\ hit(less) \subseteq 1..n /\ hit(more) \subseteq 1..n
      /\ hit(less) \subseteq hit(more)
  OBVIOUS
<1>2. ASSUME NEW x \in {less, more}, hit(x) # {}
      PROVE  first(x) \in hit(x) /\ \A k \in hit(x) : first(x) <= k
  <2> DEFINE S == hit(x)
  <2>1. S \subseteq Nat /\ S # {}
    BY <1>1, <1>2
  <2> HIDE DEF S
  <2>2. IsWellFoundedOn(OpToRel(<, Nat), Nat)
    BY NatLessThanWellFounded
  <2>3. PICK m \in S : \A k \in S : ~ (<<k, m>> \in OpToRel(<, Nat))
    BY <2>1, <2>2, WFMin, Zenon
  <2>4. \A k \in S : m <= k
    <3> SUFFICES ASSUME NEW k \in S PROVE m <= k
      OBVIOUS
    <3>1. k \in Nat /\ m \in Nat /\ ~ (k < m)
      BY <2>1, <2>3 DEF OpToRel
    <3> QED BY <3>1
  <2> QED BY <2>3, <2>4 DEF S
<1>3. \A x \in {less, more} :
        pctFromBands(x, t, pcts) = IF hit(x) = {} THEN 0 ELSE pcts[first(x)]
  BY DEF pctFromBands
<1> HIDE DEF hit, first
<1>4. CASE hit(less) = {}
  <2>1. hit(more) # {} => pcts[first(more)] >= 0
    BY <1>1, <1>2
  <2> QED BY <1>3, <1>4, <2>1
<1>5. CASE hit(less) # {}
  <2>1. hit(more) # {} /\ first(more) <= first(less) /\ first(more) \in 1..n /\ first(less) \in 1..n
    BY <1>1, <1>2, <1>5
  <2> QED BY <1>3, <1>5, <2>1
<1> QED BY <1>4, <1>5
=============================================================================
