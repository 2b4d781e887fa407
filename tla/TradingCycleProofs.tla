------------------------- MODULE TradingCycleProofs -------------------------
(***************************************************************************)
(* Theorems about TradingCycle, for any number of positions and purchases, *)
(* any ladder, any book, signal, setting and account.                      *)
(***************************************************************************)
EXTENDS TradingCycle, TLAPS

Acting  == {"price", "take", "ask", "follow", "edge", "sports", "sell"}
Walking == Acting \cup {"walk"}
Buying  == {"entries", "buy"}
LoopRec == [at : {"idle", "held"} \cup Walking \cup Buying,
            snap : Files \cup {None}, p : Positions \cup {None},
            ask : Shares, seq : 0..MaxSeq]

\* A loop under way has a snapshot, and its position is in it.
Good(r) ==
  /\ r.at # "idle" => r.snap \in Files
  /\ r.at \in Acting => r.p \in Positions /\ r.snap[r.p] # None
  /\ r.at = "buy" => r.p \in Positions
  /\ r.at = "follow" => r.ask <= r.snap[r.p].size

LoopsOK ==
  /\ loop \in [Loops -> LoopRec] /\ left \subseteq Positions
  /\ \A l \in Loops : Good(loop[l])
  /\ loop["tp"].at \in {"idle", "price", "take", "ask", "follow"}
  /\ loop["cycle"].at = "held" => walletRead \in [Positions -> Shares]
  /\ loop["cycle"].at \in Walking => \A p \in left : loop["cycle"].snap[p] # None

\* The venue's side: what is held was bought.
DataOK ==
  /\ wallet \in [Positions -> Nat] /\ buys \in [Positions -> 0..MaxBuys]
  /\ \A p \in Positions : wallet[p] <= Size * buys[p]
  /\ unsure \in [Positions -> Nat] /\ \A p \in Positions : unsure[p] <= buys[p]
  /\ file \in Files /\ ladder \in [Positions -> 0..MaxSeq]
  /\ feed \in [Positions -> 0..MaxSeq \cup {None}] /\ book \in [Positions -> Books]
  /\ walletRead \in [Positions -> Shares] \cup {None}
  /\ heldCids \in (SUBSET Positions) \cup {None}
  /\ seen \in (SUBSET Positions) \cup {None}
  /\ fails \in [Positions -> 0..RejectLimit]
  /\ source \in [Positions -> Sources] /\ ladderTaken \subseteq Steps
  /\ forgot \in [Positions -> 0..MaxForgets]

CycleTypes == LoopsOK /\ DataOK

LEMMA TypesImply == CycleTypes => TypeOK
<1> SUFFICES ASSUME CycleTypes PROVE TypeOK
  OBVIOUS
<1>1. \A p \in Positions : wallet[p] \in Shares
  <2> SUFFICES ASSUME NEW p \in Positions PROVE wallet[p] \in Shares
    OBVIOUS
  <2>1. /\ wallet[p] \in Nat /\ buys[p] \in Nat /\ buys[p] <= MaxBuys
        /\ wallet[p] <= Size * buys[p] /\ Size \in Nat /\ MaxBuys \in Nat
    BY CycleBounds DEF CycleTypes, DataOK
  <2>2. Size * buys[p] <= Size * MaxBuys
    BY <2>1
  <2>3. Size * buys[p] \in Nat /\ Size * MaxBuys \in Nat
    BY <2>1
  <2> QED BY <2>1, <2>2, <2>3 DEF Shares
<1>2. wallet \in [Positions -> Shares] /\ unsure \in [Positions -> 0..MaxBuys]
  BY <1>1, CycleBounds DEF CycleTypes, DataOK
<1>3. \A l \in Loops :
       /\ loop[l].at \in {"idle", "held", "walk", "price", "take", "ask", "follow",
                          "edge", "sports", "sell", "entries", "buy"}
       /\ loop[l].snap \in Files \cup {None}
       /\ loop[l].p \in Positions \cup {None}
       /\ loop[l].ask \in Shares /\ loop[l].seq \in 0..MaxSeq
  <2> SUFFICES ASSUME NEW l \in Loops, loop[l] \in LoopRec
               PROVE  /\ loop[l].at \in {"idle", "held", "walk", "price", "take", "ask",
                                         "follow", "edge", "sports", "sell", "entries", "buy"}
                      /\ loop[l].snap \in Files \cup {None}
                      /\ loop[l].p \in Positions \cup {None}
                      /\ loop[l].ask \in Shares /\ loop[l].seq \in 0..MaxSeq
    BY DEF CycleTypes, LoopsOK
  <2> QED BY DEF LoopRec, Acting, Walking, Buying
<1> QED BY <1>2, <1>3 DEF CycleTypes, LoopsOK, DataOK, TypeOK

LEMMA NoShares == 0 \in Shares /\ 0 \in 0..MaxSeq /\ Idle \in LoopRec /\ Idle.at = "idle"
<1>1. Size * MaxBuys \in Nat
  BY CycleBounds
<1>2. 0 \in Shares /\ 0 \in 0..MaxSeq
  BY <1>1, CycleBounds DEF Shares
<1> QED BY <1>2 DEF Idle, LoopRec

LEMMA SharesAreNat == Shares \subseteq Nat
BY CycleBounds DEF Shares

-----------------------------------------------------------------------------
(***************************************************************************)
(* The moves of a loop.                                                    *)
(***************************************************************************)
\* One loop goes to a good record; the other is as it was.
LEMMA LoopMoves ==
  ASSUME LoopsOK, NEW l \in Loops, NEW r \in LoopRec, Good(r),
         loop' = [loop EXCEPT ![l] = r],
         left' \subseteq Positions, l = "tp" => left' = left /\ walletRead' = walletRead,
         l = "tp" => r.at \in {"idle", "price", "take", "ask", "follow"},
         l = "cycle" /\ r.at = "held" => walletRead' \in [Positions -> Shares],
         l = "cycle" /\ r.at \in Walking => \A p \in left' : r.snap[p] # None
  PROVE  LoopsOK'
<1>1. loop' \in [Loops -> LoopRec] /\ loop'[l] = r
      /\ \A k \in Loops : k # l => loop'[k] = loop[k]
  BY DEF LoopsOK
<1>2. \A k \in Loops : Good(loop'[k])
  BY <1>1 DEF LoopsOK
<1>3. CASE l = "tp"
  BY <1>1, <1>2, <1>3 DEF LoopsOK, Loops
<1>4. CASE l = "cycle"
  BY <1>1, <1>2, <1>4 DEF LoopsOK, Loops
<1> QED BY <1>3, <1>4 DEF Loops

LEMMA AtMoves ==
  ASSUME LoopsOK, NEW l \in Loops, NEW step \in Acting \ {"follow"}, At(l, step),
         loop[l].at \in Acting, l = "tp" => step \in {"take", "ask"},
         left' = left, walletRead' = walletRead
  PROVE  LoopsOK'
<1> DEFINE r == [loop[l] EXCEPT !.at = step]
<1>1. loop[l] \in LoopRec /\ Good(loop[l])
  BY DEF LoopsOK
<1>2. r \in LoopRec
  BY <1>1 DEF LoopRec, Walking
<1>3. r.at = step /\ r.snap = loop[l].snap /\ r.p = loop[l].p /\ step # "idle"
      /\ step # "held" /\ step # "buy" /\ step # "follow"
  BY <1>1 DEF LoopRec, Acting
<1>4. Good(r)
  <2> HIDE DEF r
  <2> QED BY <1>1, <1>3 DEF Good, Acting
<1>5. loop' = [loop EXCEPT ![l] = r]
  BY DEF At
<1>6. l = "cycle" => \A p \in left : loop[l].snap[p] # None
  BY DEF LoopsOK, Walking
<1> HIDE DEF r
<1> QED BY <1>2, <1>3, <1>4, <1>5, <1>6, LoopMoves DEF LoopsOK

LEMMA OverMoves ==
  ASSUME LoopsOK, NEW l \in Loops, NEW snap \in Files, Over(l, snap),
         l = "cycle" => \A p \in left : snap[p] # None,
         left' = left, walletRead' = walletRead
  PROVE  LoopsOK'
<1>1. Idle \in LoopRec /\ Good(Idle) /\ Idle.at = "idle"
  BY NoShares DEF Good, Idle, Acting
<1>2. CASE l = "tp"
  <2>1. loop' = [loop EXCEPT ![l] = Idle]
    BY <1>2 DEF Over
  <2> QED BY <1>1, <1>2, <2>1, LoopMoves DEF LoopsOK
<1>3. CASE l = "cycle"
  <2> DEFINE r == [Idle EXCEPT !.at = "walk", !.snap = snap]
  <2>1. r \in LoopRec
    BY NoShares DEF LoopRec, Walking
  <2>2. r.at = "walk" /\ r.snap = snap
    BY NoShares DEF LoopRec
  <2>3. Good(r)
    <3> HIDE DEF r
    <3> QED BY <2>2 DEF Good, Acting
  <2>4. loop' = [loop EXCEPT ![l] = r]
    BY <1>3 DEF Over
  <2> HIDE DEF r
  <2> QED BY <1>3, <2>1, <2>2, <2>3, <2>4, LoopMoves DEF LoopsOK
<1> QED BY <1>2, <1>3 DEF Loops

\* A loop at a position holds its snapshot and, the cycle, those to visit.
LEMMA ActingHolds ==
  ASSUME LoopsOK, NEW l \in Loops, loop[l].at \in Acting
  PROVE  /\ loop[l].snap \in Files /\ Pos(l) \in Positions /\ Rec(l) \in Record
         /\ l = "cycle" => \A p \in left : loop[l].snap[p] # None
<1>1. Good(loop[l]) /\ loop[l].at # "idle"
  BY DEF LoopsOK, Acting
<1>2. loop[l].snap \in Files /\ loop[l].p \in Positions /\ loop[l].snap[loop[l].p] # None
  BY <1>1 DEF Good
<1>3. loop[l].snap[loop[l].p] \in Record \cup {None}
  BY <1>2 DEF Files
<1> QED BY <1>2, <1>3 DEF LoopsOK, Pos, Rec, Walking

LEMMA DeclinedMoves ==
  ASSUME LoopsOK, NEW l \in Loops, loop[l].at \in Acting, Declined(l),
         left' = left, walletRead' = walletRead
  PROVE  LoopsOK'
<1>1. CASE l = "cycle"
  <2> DEFINE r == [loop[l] EXCEPT !.at = "edge", !.ask = 0, !.seq = 0]
  <2>1. loop[l] \in LoopRec /\ Good(loop[l])
    BY DEF LoopsOK
  <2>2. r \in LoopRec /\ r.at = "edge" /\ r.snap = loop[l].snap /\ r.p = loop[l].p
    BY <2>1, NoShares DEF LoopRec, Walking, Acting
  <2>3. loop' = [loop EXCEPT ![l] = r]
    BY <1>1, <2>1 DEF Declined, LoopRec, LoopsOK
  <2> HIDE DEF r
  <2>4. Good(r)
    BY <2>1, <2>2 DEF Good, Acting
  <2>5. \A p \in left : loop[l].snap[p] # None
    BY <1>1 DEF LoopsOK, Walking
  <2> QED BY <1>1, <2>2, <2>3, <2>4, <2>5, LoopMoves DEF LoopsOK
<1>2. CASE l # "cycle"
  BY <1>2, ActingHolds, OverMoves DEF Declined
<1> QED BY <1>1, <1>2

LEMMA LadderMoves ==
  ASSUME LoopsOK, NEW l \in Loops, loop[l].at \in Acting, Ladder(l),
         left' = left, walletRead' = walletRead
  PROVE  LoopsOK'
BY DeclinedMoves, AtMoves DEF Ladder, Acting
-----------------------------------------------------------------------------
(***************************************************************************)
(* The venue, and the records of the file.                                 *)
(***************************************************************************)
LEMMA SharesDown ==
  ASSUME NEW a \in Shares, NEW b \in Int, 0 <= b, b <= a
  PROVE  b \in Shares
<1>1. Size * MaxBuys \in Nat
  BY CycleBounds
<1> QED BY <1>1 DEF Shares

LEMMA LeaveKeeps ==
  ASSUME DataOK, NEW p \in Positions, NEW asked, NEW n \in Shares, Leave(p, asked, n)
  PROVE  /\ wallet' \in [Positions -> Nat]
         /\ \A q \in Positions : wallet'[q] <= wallet[q] /\ wallet'[q] <= Size * buys[q]
<1>1. wallet \in [Positions -> Nat] /\ n \in Nat
  BY SharesAreNat DEF DataOK
<1>2. n <= wallet[p] /\ wallet' = [wallet EXCEPT ![p] = @ - n]
  BY DEF Leave
<1>3. wallet[p] - n \in Nat /\ wallet[p] - n <= wallet[p]
  BY <1>1, <1>2
<1>4. \A q \in Positions : wallet'[q] \in Nat /\ wallet'[q] <= wallet[q]
  BY <1>1, <1>2, <1>3
<1>5. \A q \in Positions : Size * buys[q] \in Int /\ wallet[q] <= Size * buys[q]
  BY CycleBounds DEF DataOK
<1>6. \A q \in Positions : wallet'[q] <= Size * buys[q]
  BY <1>1, <1>4, <1>5
<1> QED BY <1>1, <1>2, <1>4, <1>6

LEMMA BoughtKeeps ==
  ASSUME DataOK, NEW p \in Positions, NEW n \in 1..Size, Bought(p, n)
  PROVE  /\ wallet' \in [Positions -> Nat] /\ buys' \in [Positions -> 0..MaxBuys]
         /\ \A q \in Positions : wallet'[q] <= Size * buys'[q]
         /\ buys'[p] = buys[p] + 1 /\ \A q \in Positions \ {p} : buys'[q] = buys[q]
         /\ \A q \in Positions \ {p} : wallet'[q] = wallet[q]
         /\ Size \in Shares \ {0}
<1>1. /\ wallet \in [Positions -> Nat] /\ buys \in [Positions -> 0..MaxBuys]
      /\ n \in Nat /\ n <= Size /\ Size \in Nat \ {0} /\ MaxBuys \in Nat
      /\ \A q \in Positions : wallet[q] <= Size * buys[q]
  BY CycleBounds DEF DataOK
<1>2. buys[p] < MaxBuys /\ wallet' = [wallet EXCEPT ![p] = @ + n]
      /\ buys' = [buys EXCEPT ![p] = @ + 1]
  BY DEF Bought
<1>3. buys[p] \in Nat /\ buys[p] + 1 \in 0..MaxBuys
  BY <1>1, <1>2
<1>4. Size * (buys[p] + 1) = Size * buys[p] + Size /\ Size * buys[p] \in Nat
  BY <1>1, <1>3
<1>5. wallet[p] + n <= Size * (buys[p] + 1)
  BY <1>1, <1>4
<1>6. Size * MaxBuys >= Size /\ Size * MaxBuys \in Nat
  <2>1. MaxBuys >= 1
    BY <1>1, <1>2, <1>3
  <2> QED BY <1>1, <2>1
<1> QED BY <1>1, <1>2, <1>3, <1>5, <1>6 DEF Shares

LEMMA NewRecord ==
  ASSUME NEW src \in Sources, NEW size \in Shares \ {0}
  PROVE  [src |-> src, size |-> size, seq |-> 0, part |-> FALSE] \in Record
BY NoShares DEF Record

LEMMA ShrunkRecord ==
  ASSUME NEW r \in Record, NEW n \in Shares, n < r.size
  PROVE  r.size - n \in Shares \ {0}
<1>1. r.size \in Shares /\ r.size \in Nat /\ n \in Nat
  BY SharesAreNat DEF Record
<1>2. r.size - n \in Int /\ 0 < r.size - n /\ r.size - n <= r.size
  BY <1>1
<1>3. r.size - n \in Shares
  BY <1>1, <1>2, SharesDown
<1> QED BY <1>2, <1>3

\* What a record loses is at most what was asked for.
LEMMA ShrinksWithin ==
  ASSUME LoopsOK, NEW l \in Loops, NEW k \in Answers, NEW n \in Shares,
         loop[l].at = "follow", k # 0, Sells(Pos(l), loop[l].ask, k, n)
  PROVE  Shrinks(l, k) \in Shares /\ Shrinks(l, k) <= loop[l].ask
<1>1. loop[l].ask \in Shares /\ loop[l].ask \in Nat /\ n \in Nat
  BY SharesAreNat DEF LoopsOK, LoopRec
<1>2. CASE k = Unread \/ Rec(l).src = "top5"
  BY <1>1, <1>2 DEF Shrinks
<1>3. CASE ~(k = Unread \/ Rec(l).src = "top5")
  <2>1. k \in Shares /\ k \in Nat /\ k <= Less(loop[l].ask, n)
    BY <1>1, <1>3, SharesAreNat DEF Sells, Answers
  <2>2. Shrinks(l, k) = k
    BY <1>3 DEF Shrinks
  <2> QED BY <1>1, <2>1, <2>2 DEF Less
<1> QED BY <1>2, <1>3

\* The record of a step followed, and its snapshot.
LEMMA SteppedTyped ==
  ASSUME LoopsOK, NEW l \in Loops, NEW k \in Answers, NEW n \in Shares,
         loop[l].at = "follow", Sells(Pos(l), loop[l].ask, k, n)
  PROVE  /\ Stepped(l, k) \in Files
         /\ \A q \in Positions : loop[l].snap[q] # None => Stepped(l, k)[q] # None
         /\ \A q \in Positions \ {Pos(l)} : Stepped(l, k)[q] = loop[l].snap[q]
         /\ k # 0 => Stepped(l, k)[Pos(l)].seq = loop[l].seq
<1>1. loop[l].snap \in Files /\ Pos(l) \in Positions /\ Rec(l) \in Record
  BY ActingHolds DEF Acting
<1>2. loop[l].ask \in Shares /\ loop[l].seq \in 0..MaxSeq
  BY DEF LoopsOK, LoopRec
<1>3. Rec(l) = loop[l].snap[Pos(l)] /\ Rec(l) # None
  BY DEF LoopsOK, Good, Pos, Rec, Acting
<1>0. CASE k = 0
  BY <1>0, <1>1 DEF Stepped
<1>9. CASE k # 0
  <2> DEFINE n0 == Shrinks(l, k)
             size == IF loop[l].ask < Rec(l).size THEN Rec(l).size - n0 ELSE Rec(l).size
             rec == [Rec(l) EXCEPT !.seq = loop[l].seq, !.size = size]
  <2>1. n0 \in Shares /\ n0 <= loop[l].ask
    BY <1>9, ShrinksWithin
  <2>2. size \in Shares \ {0}
    <3> HIDE DEF n0
    <3>1. CASE loop[l].ask < Rec(l).size
      <4>1. n0 < Rec(l).size
        <5>1. Rec(l).size \in Nat /\ loop[l].ask \in Nat /\ n0 \in Nat
          BY <1>1, <1>2, <2>1, SharesAreNat DEF Record
        <5> QED BY <2>1, <3>1, <5>1
      <4> QED BY <1>1, <2>1, <3>1, <4>1, ShrunkRecord
    <3>2. CASE ~(loop[l].ask < Rec(l).size)
      BY <1>1, <3>2 DEF Record
    <3> QED BY <3>1, <3>2
  <2>3. rec \in Record /\ rec.seq = loop[l].seq
    <3> HIDE DEF size
    <3> QED BY <1>1, <1>2, <2>2 DEF Record
  <2>4. rec # None
    BY <2>3, NoRecord
  <2>5. Stepped(l, k) = [loop[l].snap EXCEPT ![Pos(l)] = rec]
    BY <1>1, <1>3, <1>9 DEF Stepped, Files
  <2> HIDE DEF rec
  <2> QED BY <1>1, <2>3, <2>4, <2>5 DEF Files
<1> QED BY <1>0, <1>9
-----------------------------------------------------------------------------
(***************************************************************************)
(* Type correctness, action by action.                                     *)
(***************************************************************************)
LEMMA TypesInit == Init => CycleTypes
<1> SUFFICES ASSUME Init PROVE CycleTypes
  OBVIOUS
<1>1. loop = [l \in Loops |-> Idle] /\ left = {}
  BY DEF Init
<1>2. Good(Idle) /\ Idle \in LoopRec /\ Idle.at = "idle"
  BY NoShares DEF Good, Idle, Acting
<1>3. LoopsOK
  BY <1>1, <1>2 DEF LoopsOK, Loops, Walking, Acting
<1>4. source \in [Positions -> Sources]
  BY DEF Init, Sources, FeedSources
<1>5. /\ wallet \in [Positions -> Nat] /\ buys \in [Positions -> 0..MaxBuys]
      /\ unsure \in [Positions -> Nat] /\ \A p \in Positions : unsure[p] <= buys[p]
      /\ \A p \in Positions : wallet[p] = 0 /\ buys[p] = 0
      /\ ladder \in [Positions -> 0..MaxSeq] /\ fails \in [Positions -> 0..RejectLimit]
  BY CycleBounds DEF Init
<1>6. file \in Files /\ feed \in [Positions -> 0..MaxSeq \cup {None}]
  BY DEF Init, Files
<1>7. book \in [Positions -> Books] /\ walletRead = None /\ heldCids = None
      /\ seen \in {None, {}} /\ ladderTaken = {}
      /\ forgot \in [Positions -> 0..MaxForgets]
  BY CycleBounds DEF Init
<1>8. \A p \in Positions : wallet[p] <= Size * buys[p]
  BY <1>5, CycleBounds
<1> QED BY <1>3, <1>4, <1>5, <1>6, <1>7, <1>8 DEF CycleTypes, DataOK

\* A copy step of either loop.
LEMMA CopyTypes ==
  ASSUME CycleTypes, NEW l \in Loops, CopyStep(l)
  PROVE  CycleTypes'
<1> USE DEF CycleTypes
<1>1. CASE ReadPrice(l)
  <2>1. LoopsOK'
    BY <1>1, AtMoves, LadderMoves DEF ReadPrice, Acting, reads
  <2> QED BY <1>1, <2>1 DEF ReadPrice, DataOK, reads, feedvars, hist
<1>2. CASE AskFails(l)
  <2>1. LoopsOK'
    BY <1>2, DeclinedMoves DEF AskFails, Acting, reads
  <2> QED BY <1>2, <2>1 DEF AskFails, DataOK, reads, feedvars, hist
<1>3. CASE Asked(l)
  <2>1. CASE ladder[Pos(l)] > Rec(l).seq
    <3>1. loop[l] \in LoopRec /\ Pos(l) \in Positions /\ Rec(l) \in Record
          /\ loop[l].snap \in Files /\ loop[l].snap[loop[l].p] # None
          /\ (l = "cycle" => \A p \in left : loop[l].snap[p] # None)
      BY <1>3, ActingHolds DEF Asked, LoopsOK, Acting, Good
    <3>2. Chunk(l) \in Shares /\ Chunk(l) <= Rec(l).size
      <4> DEFINE steps == ladder[Pos(l)] - Rec(l).seq
                 part == Less(Rec(l).size, (Size * steps) \div MaxSeq)
      <4>1. steps \in Nat /\ Rec(l).size \in Shares /\ Rec(l).size \in Nat
        <5>1. ladder[Pos(l)] \in Nat
          BY <3>1, CycleBounds DEF DataOK
        <5>2. Rec(l).seq \in Nat /\ Rec(l).size \in Shares
          BY <3>1, CycleBounds DEF Record
        <5>3. Rec(l).size \in Nat
          BY <5>2, SharesAreNat
        <5>4. steps \in Nat
          BY <2>1, <5>1, <5>2
        <5> QED BY <5>2, <5>3, <5>4
      <4>2. Size * steps \in Nat /\ MaxSeq \in Nat \ {0}
        BY <4>1, CycleBounds
      <4>3. (Size * steps) \div MaxSeq \in Nat
        <5> HIDE DEF steps
        <5> DEFINE x == Size * steps
        <5> HIDE DEF x
        <5>1. x \div MaxSeq \in Nat
          BY <4>2 DEF x
        <5> QED BY <5>1 DEF x
      <4>4. part \in Nat /\ part <= Rec(l).size
        <5> HIDE DEF steps
        <5> QED BY <4>1, <4>3 DEF Less
      <4>5. part \in Shares
        <5> HIDE DEF part
        <5> QED BY <4>1, <4>4, SharesDown
      <4>6. Chunk(l) \in {part, Rec(l).size}
        BY DEF Chunk
      <4> HIDE DEF part
      <4> QED BY <4>1, <4>4, <4>5, <4>6
    <3> DEFINE r == [loop[l] EXCEPT !.at = "follow", !.ask = Chunk(l), !.seq = ladder[Pos(l)]]
    <3>3. r \in LoopRec /\ r.at = "follow" /\ r.snap = loop[l].snap /\ r.p = loop[l].p
          /\ r.ask = Chunk(l)
      BY <3>1, <3>2 DEF LoopRec, Walking, Acting, DataOK
    <3>4. loop' = [loop EXCEPT ![l] = r] /\ left' = left /\ walletRead' = walletRead
      BY <1>3, <2>1, <3>1 DEF Asked, reads, LoopRec, LoopsOK
    <3> HIDE DEF r
    <3>5. Good(r)
      BY <3>1, <3>2, <3>3 DEF Good, Pos, Rec
    <3>6. LoopsOK'
      BY <3>1, <3>3, <3>4, <3>5, LoopMoves DEF LoopsOK
    <3> QED BY <1>3, <3>6 DEF Asked, DataOK, reads, feedvars, hist
  <2>2. CASE ~(ladder[Pos(l)] > Rec(l).seq)
    <3>1. LoopsOK'
      BY <1>3, <2>2, DeclinedMoves DEF Asked, Acting, reads
    <3> QED BY <1>3, <3>1 DEF Asked, DataOK, reads, feedvars, hist
  <2> QED BY <2>1, <2>2
<1>4. CASE \E k \in Answers, n \in Shares : Took(l, k, n)
  <2>1. PICK k \in Answers, n \in Shares : Took(l, k, n)
    BY <1>4
  <2>2. loop[l].at \in Acting /\ loop[l].at = "take"
    BY <2>1 DEF Took, Acting
  <2>3. loop[l].snap \in Files /\ Pos(l) \in Positions /\ Rec(l) \in Record
        /\ (l = "cycle" => \A p \in left : loop[l].snap[p] # None)
    BY <2>2, ActingHolds
  <2>4. wallet' \in [Positions -> Nat]
        /\ \A q \in Positions : wallet'[q] <= Size * buys[q]
    BY <2>1, <2>3, LeaveKeeps DEF Took, Sells
  <2>5. file' \in Files /\ LoopsOK'
    BY <2>1, <2>2, <2>3, OverMoves, LadderMoves DEF Took, reads, DataOK
  <2> QED BY <2>1, <2>4, <2>5 DEF Took, DataOK, reads, feedvars, hist
<1>5. CASE \E k \in Answers, n \in Shares : Followed(l, k, n)
  <2>1. PICK k \in Answers, n \in Shares : Followed(l, k, n)
    BY <1>5
  <2>2. loop[l].at \in Acting /\ loop[l].at = "follow"
    BY <2>1 DEF Followed, Acting
  <2>3. loop[l].snap \in Files /\ Pos(l) \in Positions /\ loop[l].seq \in 0..MaxSeq
        /\ (l = "cycle" => \A p \in left : loop[l].snap[p] # None)
    BY <2>2, ActingHolds DEF LoopsOK, LoopRec
  <2>4. /\ wallet' \in [Positions -> Nat]
        /\ \A q \in Positions : wallet'[q] <= Size * buys[q]
    BY <2>1, <2>3, LeaveKeeps DEF Followed, Sells
  <2>5. Stepped(l, k) \in Files
        /\ \A q \in Positions : loop[l].snap[q] # None => Stepped(l, k)[q] # None
    BY <2>1, <2>2, SteppedTyped DEF Followed
  <2>6. left \subseteq Positions
    BY DEF LoopsOK
  <2>7. file' \in Files
    BY <2>1, <2>5 DEF Followed, DataOK
  <2>8. LoopsOK'
    <3>1. CASE k = 0
      BY <2>1, <2>2, <3>1, DeclinedMoves DEF Followed, reads
    <3>2. CASE k # 0
      <4>1. Over(l, Stepped(l, k)) /\ left' = left /\ walletRead' = walletRead
        BY <2>1, <3>2 DEF Followed, reads
      <4> QED BY <2>3, <2>5, <2>6, <4>1, OverMoves
    <3> QED BY <3>1, <3>2
  <2>9. ladderTaken' \subseteq Steps
    BY <2>1, <2>3 DEF Followed, DataOK, Steps
  <2> QED BY <2>1, <2>4, <2>7, <2>8, <2>9 DEF Followed, DataOK, reads, feedvars
<1> QED BY <1>1, <1>2, <1>3, <1>4, <1>5 DEF CopyStep

LEMMA HeadTypes ==
  ASSUME CycleTypes, CycleBegins \/ CycleReconciles \/ CycleHoldingsFail
  PROVE  CycleTypes'
<1> USE DEF CycleTypes
<1> "cycle" \in Loops
  BY DEF Loops
<1>1. loop["cycle"] \in LoopRec /\ Good(loop["cycle"])
  BY DEF LoopsOK
<1>2. wallet \in [Positions -> Shares]
  BY TypesImply DEF TypeOK
<1>3. CASE CycleBegins
  <2> DEFINE r == [loop["cycle"] EXCEPT !.at = "held", !.snap = file]
  <2>1. r \in LoopRec /\ r.at = "held" /\ r.snap = file
    BY <1>1 DEF LoopRec, DataOK
  <2>2. loop' = [loop EXCEPT !["cycle"] = r] /\ left' = left /\ walletRead' = wallet
    BY <1>1, <1>3 DEF CycleBegins, LoopRec, LoopsOK
  <2> HIDE DEF r
  <2>3. Good(r)
    BY <2>1 DEF Good, Acting, DataOK
  <2>4. LoopsOK'
    BY <1>2, <2>1, <2>2, <2>3, LoopMoves DEF LoopsOK, Walking, Acting
  <2> QED BY <1>2, <1>3, <2>4 DEF CycleBegins, DataOK, feedvars, hist
<1>4. CASE CycleReconciles
  <2>1. loop["cycle"].snap \in Files /\ walletRead \in [Positions -> Shares]
    BY <1>1, <1>4 DEF CycleReconciles, Good, LoopsOK
  <2>2. file' = Reconciled(loop["cycle"].snap)
    BY <1>4 DEF CycleReconciles
  <2>3. \A p \in Positions : file'[p] \in Record \cup {None}
    <3> SUFFICES ASSUME NEW p \in Positions PROVE file'[p] \in Record \cup {None}
      OBVIOUS
    <3>1. file'[p] = IF walletRead[p] = 0 THEN None
                     ELSE IF loop["cycle"].snap[p] = None THEN Adopted(p)
                     ELSE [loop["cycle"].snap[p] EXCEPT !.size = walletRead[p]]
      BY <2>2 DEF Reconciled
    <3>2. CASE walletRead[p] # 0
      <4>1. walletRead[p] \in Shares \ {0} /\ "adopted" \in Sources
        BY <2>1, <3>2 DEF Sources
      <4>2. Adopted(p) \in Record
        BY <4>1, NewRecord DEF Adopted
      <4>3. loop["cycle"].snap[p] \in Record \cup {None}
        BY <2>1 DEF Files
      <4>4. loop["cycle"].snap[p] # None
              => [loop["cycle"].snap[p] EXCEPT !.size = walletRead[p]] \in Record
        BY <4>1, <4>3 DEF Record
      <4> QED BY <3>1, <3>2, <4>2, <4>4
    <3> QED BY <3>1, <3>2
  <2>4. file' \in Files
    BY <2>2, <2>3 DEF Reconciled, Files
  <2> DEFINE r == [loop["cycle"] EXCEPT !.at = "walk", !.snap = file']
  <2>5. r \in LoopRec /\ r.at = "walk" /\ r.snap = file'
    BY <1>1, <2>4 DEF LoopRec, Walking
  <2>6. loop' = [loop EXCEPT !["cycle"] = r]
        /\ left' = {p \in Positions : file'[p] # None} /\ walletRead' = None
        /\ heldCids' \in SUBSET Positions
    BY <1>1, <1>4 DEF CycleReconciles, LoopRec, LoopsOK
  <2> HIDE DEF r
  <2>7. Good(r)
    BY <2>4, <2>5 DEF Good, Acting
  <2>8. LoopsOK'
    BY <2>5, <2>6, <2>7, LoopMoves DEF LoopsOK
  <2> QED BY <1>4, <2>4, <2>6, <2>8 DEF CycleReconciles, DataOK, feedvars, hist
<1>5. CASE CycleHoldingsFail
  <2> DEFINE r == [loop["cycle"] EXCEPT !.at = "walk"]
  <2>1. r \in LoopRec /\ r.at = "walk" /\ r.snap = loop["cycle"].snap
    BY <1>1 DEF LoopRec, Walking
  <2>2. loop' = [loop EXCEPT !["cycle"] = r]
        /\ left' = {p \in Positions : loop["cycle"].snap[p] # None} /\ walletRead' = None
        /\ loop["cycle"].at = "held"
    BY <1>1, <1>5 DEF CycleHoldingsFail, At
  <2> HIDE DEF r
  <2>3. Good(r)
    BY <1>1, <2>1, <2>2 DEF Good, Acting
  <2>4. LoopsOK'
    BY <2>1, <2>2, <2>3, LoopMoves DEF LoopsOK
  <2> QED BY <1>5, <2>2, <2>4 DEF CycleHoldingsFail, DataOK, feedvars, hist
<1> QED BY <1>3, <1>4, <1>5

LEMMA WalkTypes ==
  ASSUME CycleTypes, NEW p \in Positions, CycleVisits(p) \/ TpBegins(p)
  PROVE  CycleTypes'
<1> USE DEF CycleTypes
<1> "cycle" \in Loops /\ "tp" \in Loops
  BY DEF Loops
<1>1. \A l \in Loops : loop[l] \in LoopRec /\ Good(loop[l])
  BY DEF LoopsOK
<1>2. CASE CycleVisits(p)
  <2>1. loop["cycle"].at = "walk" /\ p \in left /\ left' = left \ {p}
        /\ walletRead' = walletRead /\ loop["cycle"].snap[p] # None
        /\ loop["cycle"].snap \in Files
        /\ \A q \in left' : q \in Positions /\ loop["cycle"].snap[q] # None
    BY <1>1, <1>2 DEF CycleVisits, reads, LoopsOK, Walking, Good
  <2>2. CASE UNCHANGED loop
    BY <1>2, <2>1, <2>2 DEF CycleVisits, LoopsOK, DataOK, reads, feedvars, hist
  <2>3. CASE ~UNCHANGED loop
    <3> DEFINE at == Route(loop["cycle"].snap[p].src)
               r == [loop["cycle"] EXCEPT !.at = at, !.p = p]
    <3>1. at \in {"price", "ask", "edge"}
      BY DEF Route
    <3>2. loop' = [loop EXCEPT !["cycle"] = r]
      BY <1>1, <1>2, <2>3 DEF CycleVisits, LoopRec, LoopsOK
    <3> HIDE DEF at
    <3>3. r \in LoopRec /\ r.at = at /\ r.snap = loop["cycle"].snap /\ r.p = p
      BY <1>1, <3>1 DEF LoopRec, Walking, Acting
    <3> HIDE DEF r
    <3>4. Good(r)
      BY <2>1, <3>1, <3>3 DEF Good, Acting
    <3>5. LoopsOK'
      BY <2>1, <3>1, <3>2, <3>3, <3>4, LoopMoves DEF LoopsOK
    <3> QED BY <1>2, <3>5 DEF CycleVisits, DataOK, reads, feedvars, hist
  <2> QED BY <2>2, <2>3
<1>3. CASE TpBegins(p)
  <2> DEFINE r == [Idle EXCEPT !.at = "price", !.snap = file, !.p = p]
  <2>1. r \in LoopRec
    BY NoShares DEF LoopRec, Walking, Acting, DataOK
  <2>2. r.at = "price" /\ r.snap = file /\ r.p = p
    BY NoShares DEF LoopRec
  <2>3. loop' = [loop EXCEPT !["tp"] = r] /\ left' = left /\ walletRead' = walletRead
        /\ file[p] # None /\ file \in Files
    BY <1>3 DEF TpBegins, DataOK, reads
  <2> HIDE DEF r
  <2>4. Good(r)
    BY <2>2, <2>3 DEF Good
  <2>5. LoopsOK'
    BY <2>1, <2>2, <2>3, <2>4, LoopMoves DEF LoopsOK
  <2> QED BY <1>3, <2>5 DEF TpBegins, DataOK, reads, feedvars, hist
<1> QED BY <1>2, <1>3

\* A snapshot in which no step was followed that f does not know of.
NoNewSteps(g, f) ==
  \A q \in Positions : g[q] # None => f[q] # None /\ g[q].seq = f[q].seq

\* The snapshot of a part that was sold, and its save.
Halved(chunk) ==
  LET part == [loop["cycle"].snap EXCEPT ![Pos("cycle")].part = TRUE,
                                         ![Pos("cycle")].size = @ - chunk]
  IN  file' = part /\ Over("cycle", part)

LEMMA HalvedTyped ==
  ASSUME LoopsOK, loop["cycle"].at \in Acting, Rec("cycle").size \div 2 > 0,
         Halved(Rec("cycle").size \div 2)
  PROVE  \E g \in Files : /\ NoNewSteps(g, loop["cycle"].snap)
                          /\ \A q \in left : g[q] # None
                          /\ file' = g /\ Over("cycle", g)
<1> DEFINE r == Rec("cycle") p == Pos("cycle") chunk == r.size \div 2
           half == [loop["cycle"].snap EXCEPT ![p].part = TRUE, ![p].size = @ - chunk]
           rec == [r EXCEPT !.part = TRUE, !.size = r.size - chunk]
<1>0. "cycle" \in Loops
  BY DEF Loops
<1>1. /\ loop["cycle"].snap \in Files /\ p \in Positions /\ r \in Record
      /\ r = loop["cycle"].snap[p] /\ \A q \in left : loop["cycle"].snap[q] # None
  BY <1>0, ActingHolds DEF Pos, Rec
<1>2. loop["cycle"].snap[p] # None
  BY <1>0 DEF LoopsOK, Good, Pos
<1>3. r.size \in Shares /\ r.size \in Nat
  BY <1>1, SharesAreNat DEF Record
<1>4. r.size - chunk \in Shares \ {0}
  <2>1. r.size - chunk \in Nat /\ r.size - chunk <= r.size /\ r.size - chunk # 0
    BY <1>3
  <2> QED BY <1>3, <2>1, SharesDown
<1> HIDE DEF chunk
<1>5. rec \in Record /\ rec.seq = r.seq
  BY <1>1, <1>4 DEF Record
<1>6. rec # None
  BY <1>5, NoRecord
<1>7. half = [loop["cycle"].snap EXCEPT ![p] = rec]
  BY <1>1 DEF Files
<1>8. file' = half /\ Over("cycle", half)
  BY DEF Halved, chunk
<1> HIDE DEF half, rec, r, p
<1>9. half \in Files
  BY <1>1, <1>5, <1>7 DEF Files
<1>10. \A q \in left : half[q] # None
  BY <1>1, <1>6, <1>7 DEF Files
<1>11. NoNewSteps(half, loop["cycle"].snap)
  BY <1>1, <1>2, <1>5, <1>7 DEF NoNewSteps, Files
<1> QED BY <1>8, <1>9, <1>10, <1>11

\* The other exits of the cycle.
Exits ==
  \/ Edge \/ \E n \in Shares : Sold(n)
  \/ \E k \in Answers, n \in Shares : Sports(k, n)

LEMMA ExitTypes ==
  ASSUME CycleTypes, Exits
  PROVE  CycleTypes'
<1> USE DEF CycleTypes
<1> "cycle" \in Loops
  BY DEF Loops
<1>1. loop["cycle"] \in LoopRec /\ Good(loop["cycle"])
  BY DEF LoopsOK
<1>2. CASE Edge
  <2>1. /\ loop["cycle"].at \in Acting /\ left' = left /\ walletRead' = walletRead
        /\ \/ Over("cycle", loop["cycle"].snap)
           \/ At("cycle", "sports") \/ At("cycle", "sell")
    BY <1>2 DEF Edge, Acting, reads
  <2>2. /\ loop["cycle"].snap \in Files /\ Rec("cycle") \in Record
        /\ \A q \in left : loop["cycle"].snap[q] # None
    BY <2>1, ActingHolds
  <2>3. CASE Over("cycle", loop["cycle"].snap)
    <3>1. LoopsOK'
      BY <2>1, <2>2, <2>3, OverMoves
    <3> QED BY <1>2, <3>1 DEF Edge, DataOK, reads, feedvars, hist
  <2>4. CASE At("cycle", "sports") \/ At("cycle", "sell")
    <3>1. LoopsOK'
      BY <2>1, <2>4, AtMoves DEF Acting
    <3> QED BY <1>2, <3>1 DEF Edge, DataOK, reads, feedvars, hist
  <2> QED BY <2>1, <2>3, <2>4
<1>3. CASE \E n \in Shares : Sold(n)
  <2>1. PICK n \in Shares : Sold(n)
    BY <1>3
  <2>2. loop["cycle"].at \in Acting
    BY <2>1 DEF Sold, Acting
  <2>3. /\ loop["cycle"].snap \in Files /\ Pos("cycle") \in Positions
        /\ \A q \in left : loop["cycle"].snap[q] # None
    BY <1>1, <2>2, ActingHolds DEF LoopRec
  <2>4. wallet' \in [Positions -> Nat] /\ \A q \in Positions : wallet'[q] <= Size * buys[q]
    BY <2>1, <2>3, LeaveKeeps DEF Sold
  <2>5. LoopsOK'
    BY <2>1, <2>3, OverMoves DEF Sold, reads
  <2> QED BY <2>1, <2>4, <2>5 DEF Sold, DataOK, reads, feedvars, hist
<1>4. CASE \E k \in Answers, n \in Shares : Sports(k, n)
  <2>1. PICK k \in Answers, n \in Shares : Sports(k, n)
    BY <1>4
  <2>2. loop["cycle"].at \in Acting
    BY <2>1 DEF Sports, Acting
  <2>3. /\ loop["cycle"].snap \in Files /\ Pos("cycle") \in Positions
        /\ \A q \in left : loop["cycle"].snap[q] # None
    BY <2>2, ActingHolds
  <2>4. /\ left' = left /\ walletRead' = walletRead
        /\ \/ /\ Halved(Rec("cycle").size \div 2) /\ Rec("cycle").size \div 2 > 0
              /\ \E asked : Leave(Pos("cycle"), asked, n)
           \/ /\ UNCHANGED file /\ Over("cycle", loop["cycle"].snap)
              /\ wallet' = wallet \/ \E asked : Leave(Pos("cycle"), asked, n)
    BY <2>1 DEF Sports, Sells, Halved, reads
  <2>5. wallet' \in [Positions -> Nat] /\ \A q \in Positions : wallet'[q] <= Size * buys[q]
    BY <2>3, <2>4, LeaveKeeps DEF DataOK
  <2>6. file' \in Files /\ LoopsOK'
    <3>1. CASE Halved(Rec("cycle").size \div 2) /\ Rec("cycle").size \div 2 > 0
      <4>1. PICK g \in Files : /\ NoNewSteps(g, loop["cycle"].snap)
                               /\ \A q \in left : g[q] # None
                               /\ file' = g /\ Over("cycle", g)
        BY <2>2, <3>1, HalvedTyped
      <4>2. left' = left /\ walletRead' = walletRead /\ \A q \in left : g[q] # None
        BY <2>4, <4>1
      <4>3. LoopsOK'
        BY <4>1, <4>2, OverMoves
      <4> QED BY <4>1, <4>3
    <3>2. CASE UNCHANGED file /\ Over("cycle", loop["cycle"].snap)
      BY <2>3, <2>4, <3>2, OverMoves DEF DataOK
    <3> QED BY <2>4, <3>1, <3>2
  <2> QED BY <2>1, <2>5, <2>6 DEF Sports, DataOK, reads, feedvars, hist
<1> QED BY <1>2, <1>3, <1>4 DEF Exits

\* A loop's record, spelled out.
LEMMA CycleRec ==
  ASSUME LoopsOK
  PROVE  /\ loop["cycle"] \in LoopRec /\ Good(loop["cycle"])
         /\ loop["cycle"].p \in Positions \cup {None} /\ loop["cycle"].ask \in Shares
         /\ loop["cycle"].seq \in 0..MaxSeq
         /\ loop["cycle"].at # "idle" => loop["cycle"].snap \in Files
         /\ loop["cycle"] = [at |-> loop["cycle"].at, snap |-> loop["cycle"].snap,
                             p |-> loop["cycle"].p, ask |-> loop["cycle"].ask,
                             seq |-> loop["cycle"].seq]
<1>1. loop["cycle"] \in LoopRec /\ Good(loop["cycle"])
  BY DEF LoopsOK, Loops
<1> QED BY <1>1 DEF LoopRec, Good

LEMMA IdleMoves ==
  ASSUME LoopsOK, loop' = [loop EXCEPT !["cycle"] = Idle], left' \subseteq Positions
  PROVE  LoopsOK'
<1>1. Idle \in LoopRec /\ Good(Idle) /\ Idle.at = "idle" /\ "cycle" \in Loops
  BY NoShares DEF Good, Idle, Acting, Loops
<1> QED BY <1>1, LoopMoves DEF Walking, Acting

LEMMA BackMoves ==
  ASSUME LoopsOK, NEW snap \in Files,
         loop' = [loop EXCEPT !["cycle"] = [Idle EXCEPT !.at = "entries", !.snap = snap]],
         left' \subseteq Positions
  PROVE  LoopsOK'
<1> DEFINE r == [Idle EXCEPT !.at = "entries", !.snap = snap]
<1>1. r \in LoopRec
  BY NoShares DEF LoopRec, Buying
<1>2. r.at = "entries" /\ r.snap = snap
  BY NoShares DEF LoopRec
<1> HIDE DEF r
<1>3. Good(r) /\ "cycle" \in Loops
  BY <1>2 DEF Good, Acting, Loops
<1> QED BY <1>1, <1>2, <1>3, LoopMoves DEF Walking, Acting, r

\* Entries are only tried with a list of the markets done and the wallet known.
BuyOK == loop["cycle"].at \in Buying => seen # None /\ heldCids # None

LEMMA EntryTypes ==
  ASSUME CycleTypes, BuyOK,
         \/ CycleEnters \/ CycleEnds \/ EntryWaits
         \/ \E p \in Positions : EntryConsidered(p)
         \/ \E n \in 0..Size : EntryFills(n) \/ EntryFails(n)
  PROVE  CycleTypes'
<1> USE DEF CycleTypes
<1>0. /\ loop["cycle"] \in LoopRec /\ Good(loop["cycle"]) /\ left \subseteq Positions
      /\ loop["cycle"].at # "idle" => loop["cycle"].snap \in Files
      /\ loop["cycle"].at = "buy" => Pos("cycle") \in Positions
  BY CycleRec DEF LoopsOK, Good, Pos
<1>1. CASE CycleEnters
  <2>1. PICK listed \in SUBSET {p \in Positions : source[p] \in FeedSources},
             old \in SUBSET Positions :
          /\ \A p \in old : forgot[p] < MaxForgets
          /\ forgot' = [p \in Positions |-> IF p \in old THEN forgot[p] + 1 ELSE forgot[p]]
          /\ seen' = IF seen = None THEN {p \in listed : Backlog(p)} ELSE seen \ old
          /\ IF seen # None /\ HoldingsKnown
             THEN At("cycle", "entries") /\ left' = listed /\ UNCHANGED heldCids
             ELSE /\ loop' = [loop EXCEPT !["cycle"] = Idle]
                  /\ heldCids' = None /\ UNCHANGED left
    BY <1>1 DEF CycleEnters
  <2>2. forgot' \in [Positions -> 0..MaxForgets]
    BY <2>1, CycleBounds DEF DataOK
  <2>3. seen' \in (SUBSET Positions) \cup {None}
    BY <2>1 DEF DataOK
  <2>4. LoopsOK' /\ heldCids' \in (SUBSET Positions) \cup {None}
    <3>1. CASE seen # None /\ HoldingsKnown
      <4> DEFINE r == [loop["cycle"] EXCEPT !.at = "entries"]
      <4>1. r \in LoopRec /\ r.at = "entries" /\ r.snap = loop["cycle"].snap
            /\ loop' = [loop EXCEPT !["cycle"] = r] /\ left' \subseteq Positions
        BY <1>0, <2>1, <3>1 DEF LoopRec, Buying, At
      <4> HIDE DEF r
      <4>2. Good(r) /\ "cycle" \in Loops
        BY <1>0, <1>1, <4>1 DEF Good, Acting, CycleEnters, Loops
      <4>3. LoopsOK'
        BY <4>1, <4>2, LoopMoves DEF Walking, Acting
      <4> QED BY <2>1, <3>1, <4>3 DEF DataOK
    <3>2. CASE ~(seen # None /\ HoldingsKnown)
      <4>1. loop' = [loop EXCEPT !["cycle"] = Idle] /\ heldCids' = None /\ left' = left
        BY <2>1, <3>2
      <4> QED BY <1>0, <4>1, IdleMoves
    <3> QED BY <3>1, <3>2
  <2> QED BY <1>1, <2>2, <2>3, <2>4 DEF CycleEnters, DataOK
<1>2. CASE CycleEnds
  <2>1. LoopsOK'
    BY <1>2, IdleMoves DEF CycleEnds
  <2> QED BY <1>2, <2>1 DEF CycleEnds, DataOK, feedvars, hist
<1>3. CASE EntryWaits
  <2>1. LoopsOK'
    BY <1>0, <1>3, BackMoves DEF EntryWaits, BackToEntries
  <2> QED BY <1>3, <2>1 DEF EntryWaits, DataOK, reads, feedvars, hist
<1>4. CASE \E n \in 0..Size : EntryFails(n)
  <2>1. PICK n \in 0..Size : EntryFails(n)
    BY <1>4
  <2>2. LoopsOK' /\ Pos("cycle") \in Positions
    BY <1>0, <2>1, BackMoves DEF EntryFails, BackToEntries
  <2>3. fails' \in [Positions -> 0..RejectLimit]
    <3>1. \A x \in 0..RejectLimit : Less(x + 1, RejectLimit) \in 0..RejectLimit
      BY CycleBounds DEF Less
    <3> QED BY <2>1, <2>2, <3>1 DEF EntryFails, DataOK
  <2>4. seen' \in SUBSET Positions
    <3>1. seen \in SUBSET Positions
      BY <2>1 DEF EntryFails, BuyOK, Buying, DataOK
    <3>2. seen' \in {seen \cup {Pos("cycle")}, seen}
      BY <2>1 DEF EntryFails
    <3> QED BY <2>2, <3>1, <3>2
  <2>5. /\ wallet' \in [Positions -> Nat] /\ buys' \in [Positions -> 0..MaxBuys]
        /\ \A q \in Positions : wallet'[q] <= Size * buys'[q]
        /\ unsure' \in [Positions -> Nat] /\ \A q \in Positions : unsure'[q] <= buys'[q]
    <3>1. CASE n = 0
      BY <2>1, <3>1 DEF EntryFails, DataOK
    <3>2. CASE n # 0
      <4>1. n \in 1..Size
        BY <3>2, CycleBounds
      <4>2. Bought(Pos("cycle"), n) /\ unsure' = [unsure EXCEPT ![Pos("cycle")] = @ + 1]
        BY <2>1, <3>2 DEF EntryFails
      <4>3. /\ wallet' \in [Positions -> Nat] /\ buys' \in [Positions -> 0..MaxBuys]
            /\ \A q \in Positions : wallet'[q] <= Size * buys'[q]
            /\ buys'[Pos("cycle")] = buys[Pos("cycle")] + 1
            /\ \A q \in Positions \ {Pos("cycle")} : buys'[q] = buys[q]
        BY <2>2, <4>1, <4>2, BoughtKeeps
      <4>4. /\ unsure \in [Positions -> Nat] /\ buys \in [Positions -> Nat]
            /\ \A p \in Positions : unsure[p] <= buys[p]
        BY CycleBounds DEF DataOK
      <4>5. unsure' \in [Positions -> Nat]
        BY <2>2, <4>2, <4>4
      <4>6. \A q \in Positions : unsure'[q] <= buys'[q]
        <5>1. unsure'[Pos("cycle")] = unsure[Pos("cycle")] + 1
          BY <2>2, <4>2, <4>4
        <5>2. unsure'[Pos("cycle")] <= buys'[Pos("cycle")]
          BY <2>2, <4>3, <4>4, <5>1
        <5> QED BY <4>2, <4>3, <4>4, <5>2
      <4> QED BY <4>3, <4>5, <4>6
    <3> QED BY <3>1, <3>2
  <2> QED BY <2>1, <2>2, <2>3, <2>4, <2>5 DEF EntryFails, DataOK, reads
<1>6. CASE \E n \in 0..Size : EntryFills(n)
  <2>1. PICK n \in 0..Size : EntryFills(n)
    BY <1>6
  <2> DEFINE p == Pos("cycle")
             rec == [src |-> source[p], size |-> Size, seq |-> 0, part |-> FALSE]
             snap == [loop["cycle"].snap EXCEPT ![p] = rec]
  <2>2. /\ loop["cycle"].at = "buy" /\ p \in Positions /\ loop["cycle"].snap \in Files
        /\ seen \in SUBSET Positions
    BY <1>0, <2>1 DEF EntryFills, BuyOK, Buying, DataOK
  <2>3. seen' = seen \cup {p} /\ file' = snap
        /\ loop' = [loop EXCEPT !["cycle"] = [Idle EXCEPT !.at = "entries", !.snap = snap]]
    BY <2>1 DEF EntryFills, Marked
  <2>4. Size \in Shares \ {0}
    <3>1. Size * MaxBuys >= Size /\ Size * MaxBuys \in Nat
      BY CycleBounds
    <3> QED BY <3>1, CycleBounds DEF Shares
  <2>5. rec \in Record
    BY <2>2, <2>4, NewRecord DEF DataOK
  <2>6. snap \in Files
    <3> HIDE DEF rec
    <3> QED BY <2>2, <2>5 DEF Files
  <2>7. LoopsOK'
    <3> HIDE DEF snap
    <3>1. left' \subseteq Positions
      BY <1>0, <2>1 DEF EntryFills
    <3> QED BY <2>3, <2>6, <3>1, BackMoves
  <2>8. /\ wallet' \in [Positions -> Nat] /\ buys' \in [Positions -> 0..MaxBuys]
        /\ \A q \in Positions : wallet'[q] <= Size * buys'[q]
        /\ \A q \in Positions : unsure[q] <= buys'[q]
    <3>1. CASE n = 0
      BY <2>1, <3>1 DEF EntryFills, DataOK
    <3>2. CASE n # 0
      <4>1. n \in 1..Size /\ Bought(p, n)
        BY <2>1, <3>2, CycleBounds DEF EntryFills
      <4>2. \A q \in Positions : /\ unsure[q] \in Nat /\ buys[q] \in Nat
                                 /\ unsure[q] <= buys[q]
        BY CycleBounds DEF DataOK
      <4> QED BY <2>2, <4>1, <4>2, BoughtKeeps
    <3> QED BY <3>1, <3>2
  <2>9. file' \in Files /\ seen' \in SUBSET Positions
    BY <2>2, <2>3, <2>6
  <2> HIDE DEF p, snap
  <2> QED BY <2>1, <2>7, <2>8, <2>9 DEF EntryFills, DataOK, reads
<1>7. CASE \E p \in Positions : EntryConsidered(p)
  <2>1. PICK p \in Positions : EntryConsidered(p)
    BY <1>7
  <2>2. /\ loop["cycle"].at = "entries" /\ left' = left \ {p} /\ seen \in SUBSET Positions
        /\ left' \subseteq Positions
    BY <1>0, <2>1 DEF EntryConsidered, BuyOK, Buying, DataOK
  <2>3. /\ seen' \in {seen, seen \cup {p}}
        /\ \/ UNCHANGED loop
           \/ loop' = [loop EXCEPT !["cycle"].at = "buy", !["cycle"].p = p]
    BY <2>1 DEF EntryConsidered
  <2>4. LoopsOK'
    <3>1. CASE UNCHANGED loop
      BY <2>2, <3>1 DEF LoopsOK, Walking, Acting, Loops
    <3>2. CASE loop' = [loop EXCEPT !["cycle"].at = "buy", !["cycle"].p = p]
      <4> DEFINE r == [loop["cycle"] EXCEPT !.at = "buy", !.p = p]
      <4>1. r \in LoopRec /\ r.at = "buy" /\ r.snap = loop["cycle"].snap /\ r.p = p
            /\ loop' = [loop EXCEPT !["cycle"] = r]
        BY <1>0, <3>2 DEF LoopRec, Buying, LoopsOK
      <4> HIDE DEF r
      <4>2. Good(r) /\ "cycle" \in Loops
        BY <1>0, <2>2, <4>1 DEF Good, Acting, Loops
      <4> QED BY <2>2, <4>1, <4>2, LoopMoves DEF Walking, Acting
    <3> QED BY <2>3, <3>1, <3>2
  <2>5. seen' \in SUBSET Positions
    BY <2>2, <2>3
  <2> QED BY <2>1, <2>4, <2>5 DEF EntryConsidered, DataOK, reads, hist
<1> QED BY <1>1, <1>2, <1>3, <1>4, <1>6, <1>7

LEMMA WorldTypes ==
  ASSUME CycleTypes,
         \E p \in Positions : \/ EngineBuys(p) \/ WhaleSells(p) \/ FeedPolled(p)
                              \/ FeedAges(p) \/ Quote(p)
  PROVE  CycleTypes'
<1> USE DEF CycleTypes
<1>1. LoopsOK'
  BY DEF EngineBuys, WhaleSells, FeedPolled, FeedAges, Quote, LoopsOK, reads
<1>2. CASE \E p \in Positions : EngineBuys(p)
  <2>1. PICK p \in Positions : EngineBuys(p)
    BY <1>2
  <2>2. Bought(p, Size) /\ Size \in 1..Size
    BY <2>1, CycleBounds DEF EngineBuys
  <2>3. /\ wallet' \in [Positions -> Nat] /\ buys' \in [Positions -> 0..MaxBuys]
        /\ \A q \in Positions : wallet'[q] <= Size * buys'[q]
        /\ Size \in Shares \ {0}
        /\ buys'[p] = buys[p] + 1 /\ \A q \in Positions \ {p} : buys'[q] = buys[q]
    BY <2>2, BoughtKeeps
  <2>4. [src |-> source[p], size |-> Size, seq |-> 0, part |-> FALSE] \in Record
    BY <2>3, NewRecord DEF DataOK
  <2>5. file' \in Files
    <3>1. \/ file' = file
          \/ file' = [file EXCEPT ![p] = [src |-> source[p], size |-> Size, seq |-> 0,
                                          part |-> FALSE]]
      BY <2>1 DEF EngineBuys
    <3> QED BY <2>4, <3>1 DEF Files, DataOK
  <2>6. \A q \in Positions : unsure[q] <= buys'[q]
    <3>1. \A q \in Positions : unsure[q] \in Nat /\ buys[q] \in Nat /\ unsure[q] <= buys[q]
      BY CycleBounds DEF DataOK
    <3> QED BY <2>3, <3>1
  <2> QED BY <1>1, <2>1, <2>3, <2>5, <2>6 DEF EngineBuys, DataOK, reads, feedvars
<1>3. CASE \E p \in Positions : WhaleSells(p)
  <2>1. ladder' \in [Positions -> 0..MaxSeq]
    BY <1>3, CycleBounds DEF WhaleSells, DataOK
  <2> QED BY <1>1, <1>3, <2>1 DEF WhaleSells, DataOK, reads, feedvars, hist
<1>4. CASE \E p \in Positions : FeedPolled(p) \/ FeedAges(p)
  BY <1>1, <1>4 DEF FeedPolled, FeedAges, DataOK, reads, feedvars, hist
<1>5. CASE \E p \in Positions : Quote(p)
  BY <1>1, <1>5 DEF Quote, DataOK, reads, feedvars, hist
<1> QED BY <1>2, <1>3, <1>4, <1>5
-----------------------------------------------------------------------------
(***************************************************************************)
(* What the exits leave alone: they sell, and the loop goes on.            *)
(***************************************************************************)
\* Loop l is at a position, and goes on; the other loop stays where it is.
Moves(l) ==
  /\ loop[l].at \in Acting /\ \A k \in Loops \ {l} : loop'[k] = loop[k]
  /\ l = "cycle" => loop'[l].at \in Walking

\* Nothing is bought; the lists and answers of the cycle stay as they are.
SellsOnly ==
  /\ \A q \in Positions : wallet'[q] <= wallet[q]
  /\ left' = left /\ walletRead' = walletRead /\ heldCids' = heldCids
  /\ seen' = seen /\ source' = source
  /\ buys' = buys /\ unsure' = unsure /\ forgot' = forgot

\* The loop keeps its snapshot, unless it is done.
SameSnap(l, snap) == loop'[l].at = "idle" \/ loop'[l].snap = snap

LEMMA AtFrame ==
  ASSUME LoopsOK, NEW l \in Loops, loop[l].at \in Acting, NEW step \in Acting, At(l, step)
  PROVE  Moves(l) /\ SameSnap(l, loop[l].snap)
BY DEF LoopsOK, LoopRec, At, Moves, SameSnap, Walking

LEMMA OverFrame ==
  ASSUME LoopsOK, NEW l \in Loops, loop[l].at \in Acting, NEW snap \in Files, Over(l, snap)
  PROVE  Moves(l) /\ SameSnap(l, snap)
<1>1. CASE l = "tp"
  BY <1>1, NoShares DEF LoopsOK, Over, Moves, SameSnap
<1>2. CASE l = "cycle"
  <2> DEFINE r == [Idle EXCEPT !.at = "walk", !.snap = snap]
  <2>1. r.at = "walk" /\ r.snap = snap
    BY NoShares DEF LoopRec
  <2>2. loop' = [loop EXCEPT ![l] = r]
    BY <1>2 DEF Over
  <2> HIDE DEF r
  <2> QED BY <2>1, <2>2 DEF LoopsOK, Moves, SameSnap, Walking
<1> QED BY <1>1, <1>2 DEF Loops

LEMMA DeclinedFrame ==
  ASSUME LoopsOK, NEW l \in Loops, loop[l].at \in Acting, Declined(l) \/ Ladder(l)
  PROVE  Moves(l) /\ SameSnap(l, loop[l].snap)
<1>1. loop[l].snap \in Files
  BY ActingHolds
<1>2. CASE Declined(l)
  <2>1. CASE l = "cycle"
    <3>1. loop' = [loop EXCEPT ![l].at = "edge", ![l].ask = 0, ![l].seq = 0]
      BY <1>2, <2>1 DEF Declined
    <3> QED BY <2>1, <3>1 DEF LoopsOK, LoopRec, Moves, SameSnap, Walking, Acting
  <2>2. CASE l # "cycle"
    BY <1>1, <1>2, <2>2, OverFrame DEF Declined
  <2> QED BY <2>1, <2>2
<1> QED BY <1>2, AtFrame DEF Ladder, Acting

\* A copy step: what it writes is its snapshot, with a step or without.
LEMMA CopyFrame ==
  ASSUME CycleTypes, NEW l \in Loops, CopyStep(l)
  PROVE  /\ Moves(l) /\ SellsOnly
         /\ \/ /\ file' \in {file, loop[l].snap} /\ SameSnap(l, loop[l].snap)
               /\ ladderTaken \subseteq ladderTaken'
            \/ \E k \in Answers, n \in Shares :
                 /\ loop[l].at = "follow" /\ k # 0 /\ Sells(Pos(l), loop[l].ask, k, n)
                 /\ file' \in {file, Stepped(l, k)} /\ SameSnap(l, Stepped(l, k))
                 /\ ladderTaken' = ladderTaken \cup {<<Pos(l), loop[l].seq>>}
<1> USE DEF CycleTypes
<1>0. \A q \in Positions : wallet[q] \in Nat
  BY DEF DataOK
<1>1. CASE ReadPrice(l)
  <2>1. loop[l].at \in Acting /\ (At(l, "take") \/ Ladder(l))
    BY <1>1 DEF ReadPrice, Acting
  <2>2. Moves(l) /\ SameSnap(l, loop[l].snap)
    BY <2>1, AtFrame, DeclinedFrame DEF Acting
  <2> QED BY <1>0, <1>1, <2>2 DEF ReadPrice, SellsOnly, reads, feedvars, hist
<1>2. CASE AskFails(l)
  <2>1. Moves(l) /\ SameSnap(l, loop[l].snap)
    BY <1>2, DeclinedFrame DEF AskFails, Acting
  <2> QED BY <1>0, <1>2, <2>1 DEF AskFails, SellsOnly, reads, feedvars, hist
<1>3. CASE Asked(l)
  <2>1. CASE ladder[Pos(l)] > Rec(l).seq
    <3>1. Moves(l) /\ SameSnap(l, loop[l].snap)
      BY <1>3, <2>1 DEF Asked, LoopsOK, LoopRec, Moves, SameSnap, Walking, Acting
    <3> QED BY <1>0, <1>3, <3>1 DEF Asked, SellsOnly, reads, feedvars, hist
  <2>2. CASE ~(ladder[Pos(l)] > Rec(l).seq)
    <3>1. Moves(l) /\ SameSnap(l, loop[l].snap)
      BY <1>3, <2>2, DeclinedFrame DEF Asked, Acting
    <3> QED BY <1>0, <1>3, <3>1 DEF Asked, SellsOnly, reads, feedvars, hist
  <2> QED BY <2>1, <2>2
<1>4. CASE \E k \in Answers, n \in Shares : Took(l, k, n)
  <2>1. PICK k \in Answers, n \in Shares : Took(l, k, n)
    BY <1>4
  <2>2. loop[l].at \in Acting
    BY <2>1 DEF Took, Acting
  <2>3. loop[l].snap \in Files /\ Pos(l) \in Positions /\ Rec(l) \in Record
    BY <2>2, ActingHolds
  <2>4. \A q \in Positions : wallet'[q] <= wallet[q]
    BY <2>1, <2>3, LeaveKeeps DEF Took, Sells
  <2>5. Moves(l) /\ SameSnap(l, loop[l].snap)
    BY <2>1, <2>2, <2>3, OverFrame, DeclinedFrame DEF Took
  <2> QED BY <2>1, <2>4, <2>5 DEF Took, SellsOnly, reads, feedvars, hist
<1>5. CASE \E k \in Answers, n \in Shares : Followed(l, k, n)
  <2>1. PICK k \in Answers, n \in Shares : Followed(l, k, n)
    BY <1>5
  <2>2. loop[l].at \in Acting /\ loop[l].at = "follow"
    BY <2>1 DEF Followed, Acting
  <2>3. loop[l].snap \in Files /\ Pos(l) \in Positions
    BY <2>2, ActingHolds
  <2>4. \A q \in Positions : wallet'[q] <= wallet[q]
    BY <2>1, <2>3, LeaveKeeps DEF Followed, Sells
  <2>5. SellsOnly
    BY <2>1, <2>4 DEF Followed, SellsOnly, reads, feedvars
  <2>6. Stepped(l, k) \in Files /\ Sells(Pos(l), loop[l].ask, k, n)
    BY <2>1, <2>2, SteppedTyped DEF Followed
  <2>7. CASE k = 0
    <3>1. Stepped(l, k) = loop[l].snap
      BY <2>7 DEF Stepped
    <3>2. Declined(l) /\ file' = file /\ ladderTaken \subseteq ladderTaken'
      BY <2>1, <2>7, <3>1 DEF Followed
    <3>3. Moves(l) /\ SameSnap(l, loop[l].snap)
      BY <2>2, <3>2, DeclinedFrame
    <3> QED BY <2>5, <3>2, <3>3
  <2>8. CASE k # 0
    <3>1. Over(l, Stepped(l, k)) /\ file' \in {file, Stepped(l, k)}
      BY <2>1, <2>8 DEF Followed
    <3>2. n > 0 \/ k = Unread
      <4>1. CASE k # Unread
        <5>1. k \in Nat /\ n \in Nat /\ loop[l].ask \in Nat
          BY <2>2, <4>1, SharesAreNat DEF Answers, LoopsOK, LoopRec
        <5>2. k <= Less(loop[l].ask, n)
          BY <2>6, <2>8, <4>1 DEF Sells
        <5> QED BY <2>8, <5>1, <5>2 DEF Less
      <4> QED BY <4>1
    <3>3. ladderTaken' = ladderTaken \cup {<<Pos(l), loop[l].seq>>}
      BY <2>1, <3>2 DEF Followed
    <3>4. Moves(l) /\ SameSnap(l, Stepped(l, k))
      BY <2>2, <2>6, <3>1, OverFrame
    <3> QED BY <2>2, <2>5, <2>6, <2>8, <3>1, <3>3, <3>4
  <2> QED BY <2>7, <2>8
<1> QED BY <1>1, <1>2, <1>3, <1>4, <1>5 DEF CopyStep

\* The other exits of the cycle.
LEMMA ExitFrame ==
  ASSUME CycleTypes, Exits
  PROVE  /\ Moves("cycle") /\ SellsOnly /\ ladderTaken' = ladderTaken
         /\ \E g \in Files : /\ NoNewSteps(g, loop["cycle"].snap)
                             /\ file' \in {file, g} /\ SameSnap("cycle", g)
<1> USE DEF CycleTypes
<1> "cycle" \in Loops
  BY DEF Loops
<1>0. \A q \in Positions : wallet[q] \in Nat
  BY DEF DataOK
<1>1. loop["cycle"].at \in Acting
  BY DEF Exits, Edge, Sold, Sports, Acting
<1>2. /\ loop["cycle"].snap \in Files /\ Pos("cycle") \in Positions
      /\ Rec("cycle") \in Record
  BY <1>1, ActingHolds
<1>3. NoNewSteps(loop["cycle"].snap, loop["cycle"].snap)
  BY DEF NoNewSteps
<1>4. CASE Edge
  <2>1. \/ Over("cycle", loop["cycle"].snap)
        \/ At("cycle", "sports")
        \/ At("cycle", "sell")
    BY <1>4 DEF Edge
  <2>2. Moves("cycle") /\ SameSnap("cycle", loop["cycle"].snap)
    BY <1>1, <1>2, <2>1, OverFrame, AtFrame DEF Acting
  <2>3. UNCHANGED <<wallet, file, left, walletRead, heldCids, seen, source, buys, unsure,
                   forgot, ladderTaken>>
    BY <1>4 DEF Edge, reads, feedvars, hist
  <2>4. SellsOnly
    BY <1>0, <2>3 DEF SellsOnly
  <2> QED BY <1>2, <1>3, <2>2, <2>3, <2>4
<1>5. CASE \E n \in Shares : Sold(n)
  <2>1. PICK n \in Shares : Sold(n)
    BY <1>5
  <2>2. \A q \in Positions : wallet'[q] <= wallet[q]
    BY <1>2, <2>1, LeaveKeeps DEF Sold
  <2>3. Moves("cycle") /\ SameSnap("cycle", loop["cycle"].snap)
    BY <1>1, <1>2, <2>1, OverFrame DEF Sold
  <2>4. UNCHANGED <<file, left, walletRead, heldCids, seen, source, buys, unsure,
                   forgot, ladderTaken>>
    BY <2>1 DEF Sold, reads, feedvars, hist
  <2>5. SellsOnly
    BY <2>2, <2>4 DEF SellsOnly
  <2> QED BY <1>2, <1>3, <2>3, <2>4, <2>5
<1>6. CASE \E k \in Answers, n \in Shares : Sports(k, n)
  <2>1. PICK k \in Answers, n \in Shares : Sports(k, n)
    BY <1>6
  <2>2. \/ /\ Halved(Rec("cycle").size \div 2) /\ Rec("cycle").size \div 2 > 0
           /\ \E asked : Leave(Pos("cycle"), asked, n)
        \/ /\ UNCHANGED file /\ Over("cycle", loop["cycle"].snap)
           /\ wallet' = wallet \/ \E asked : Leave(Pos("cycle"), asked, n)
    BY <2>1 DEF Sports, Sells, Halved
  <2>3. \A q \in Positions : wallet'[q] <= wallet[q]
    BY <1>0, <1>2, <2>2, LeaveKeeps
  <2>4. SellsOnly /\ ladderTaken' = ladderTaken
    BY <2>1, <2>3 DEF Sports, SellsOnly, reads, feedvars, hist
  <2>5. CASE UNCHANGED file /\ Over("cycle", loop["cycle"].snap)
    BY <1>1, <1>2, <1>3, <2>4, <2>5, OverFrame
  <2>6. CASE Halved(Rec("cycle").size \div 2) /\ Rec("cycle").size \div 2 > 0
    <3>1. PICK g \in Files : /\ NoNewSteps(g, loop["cycle"].snap)
                             /\ \A q \in left : g[q] # None
                             /\ file' = g /\ Over("cycle", g)
      BY <1>1, <2>6, HalvedTyped
    <3>2. g \in Files /\ Over("cycle", g)
      BY <3>1
    <3>3. Moves("cycle") /\ SameSnap("cycle", g)
      BY <1>1, <3>2, OverFrame
    <3> QED BY <2>4, <3>1, <3>3
  <2> QED BY <2>2, <2>5, <2>6
<1> QED BY <1>4, <1>5, <1>6 DEF Exits
-----------------------------------------------------------------------------
(***************************************************************************)
(* No step of the whale is burned: also the snapshots say so.              *)
(***************************************************************************)
Told(f) ==
  \A q \in Positions : f[q] # None /\ f[q].seq > 0 => <<q, f[q].seq>> \in ladderTaken
StepsInv == Told(file) /\ \A l \in Loops : loop[l].at # "idle" => Told(loop[l].snap)

\* What the entries and the engines write begins with step 0.
LEMMA FreshTold ==
  ASSUME NEW f \in Files, Told(f), NEW p \in Positions, NEW src, NEW size
  PROVE  Told([f EXCEPT ![p] = [src |-> src, size |-> size, seq |-> 0, part |-> FALSE]])
<1> DEFINE rec == [src |-> src, size |-> size, seq |-> 0, part |-> FALSE]
<1>1. ~(rec.seq > 0)
  OBVIOUS
<1> HIDE DEF rec
<1>2. Told([f EXCEPT ![p] = rec])
  BY <1>1 DEF Told, Files
<1> QED BY <1>2 DEF rec

LEMMA StepsCopy ==
  ASSUME CycleTypes, StepsInv, NEW l \in Loops, CopyStep(l)
  PROVE  StepsInv'
<1> USE DEF CycleTypes
<1>1. Moves(l) /\ loop[l].at # "idle" /\ Told(loop[l].snap)
  BY CopyFrame DEF StepsInv, Moves, Acting
<1> DEFINE Kept(f) == \A q \in Positions : f[q] # None /\ f[q].seq > 0
                                               => <<q, f[q].seq>> \in ladderTaken'
<1>2. PICK g : /\ file' \in {file, g} /\ SameSnap(l, g) /\ Kept(g)
               /\ ladderTaken \subseteq ladderTaken'
  <2>1. CASE /\ file' \in {file, loop[l].snap} /\ SameSnap(l, loop[l].snap)
             /\ ladderTaken \subseteq ladderTaken'
    BY <1>1, <2>1 DEF Told
  <2>2. CASE \E k \in Answers, n \in Shares :
               /\ loop[l].at = "follow" /\ k # 0 /\ Sells(Pos(l), loop[l].ask, k, n)
               /\ file' \in {file, Stepped(l, k)} /\ SameSnap(l, Stepped(l, k))
               /\ ladderTaken' = ladderTaken \cup {<<Pos(l), loop[l].seq>>}
    <3>1. PICK k \in Answers, n \in Shares :
               /\ loop[l].at = "follow" /\ k # 0 /\ Sells(Pos(l), loop[l].ask, k, n)
               /\ file' \in {file, Stepped(l, k)} /\ SameSnap(l, Stepped(l, k))
               /\ ladderTaken' = ladderTaken \cup {<<Pos(l), loop[l].seq>>}
      BY <2>2
    <3> DEFINE g == Stepped(l, k)
    <3>2. /\ \A q \in Positions \ {Pos(l)} : g[q] = loop[l].snap[q]
          /\ g[Pos(l)].seq = loop[l].seq
      BY <3>1, SteppedTyped
    <3> HIDE DEF g
    <3>3. Kept(g)
      BY <1>1, <3>1, <3>2 DEF Told
    <3> QED BY <3>1, <3>3 DEF g
  <2> QED BY <2>1, <2>2, CopyFrame
<1>3. Kept(file') /\ \A k \in Loops : loop'[k].at # "idle" => Kept(loop'[k].snap)
  <2>1. Kept(file)
    BY <1>2 DEF StepsInv, Told
  <2>2. \A k \in Loops : loop[k].at # "idle" => Kept(loop[k].snap)
    BY <1>2 DEF StepsInv, Told
  <2> HIDE DEF Kept
  <2>3. Kept(file')
    BY <1>2, <2>1
  <2>4. \A k \in Loops : loop'[k].at # "idle" => Kept(loop'[k].snap)
    BY <1>1, <1>2, <2>2 DEF Moves, SameSnap
  <2> QED BY <2>3, <2>4
<1> QED BY <1>3 DEF StepsInv, Told

LEMMA StepsExit ==
  ASSUME CycleTypes, StepsInv, Exits
  PROVE  StepsInv'
<1> USE DEF CycleTypes
<1>1. PICK g \in Files : /\ NoNewSteps(g, loop["cycle"].snap)
                         /\ file' \in {file, g} /\ SameSnap("cycle", g)
  BY ExitFrame
<1>2. Moves("cycle") /\ ladderTaken' = ladderTaken
  BY ExitFrame
<1>3. Told(loop["cycle"].snap)
  BY <1>2 DEF StepsInv, Moves, Acting, Loops
<1>4. \A q \in Positions : g[q] # None /\ g[q].seq > 0 => <<q, g[q].seq>> \in ladderTaken'
  BY <1>1, <1>2, <1>3 DEF NoNewSteps, Told
<1>5. \A k \in Loops : loop'[k].at # "idle" =>
        \A q \in Positions : loop'[k].snap[q] # None /\ loop'[k].snap[q].seq > 0
                               => <<q, loop'[k].snap[q].seq>> \in ladderTaken'
  BY <1>1, <1>2, <1>4 DEF StepsInv, Told, Moves, SameSnap
<1> QED BY <1>1, <1>2, <1>4, <1>5 DEF StepsInv, Told

\* The steps that only take the file as their snapshot, reconcile it, or buy.
LEMMA StepsRest ==
  ASSUME CycleTypes, StepsInv,
         \/ CycleBegins \/ CycleReconciles \/ CycleHoldingsFail \/ CycleEnters
         \/ CycleEnds \/ EntryWaits
         \/ \E p \in Positions : \/ CycleVisits(p) \/ EntryConsidered(p) \/ TpBegins(p)
                                 \/ EngineBuys(p) \/ WhaleSells(p) \/ FeedPolled(p)
                                 \/ FeedAges(p) \/ Quote(p)
         \/ \E n \in 0..Size : EntryFills(n) \/ EntryFails(n)
  PROVE  StepsInv'
<1> USE DEF CycleTypes
<1> "cycle" \in Loops /\ "tp" \in Loops
  BY DEF Loops
<1>0. /\ loop \in [Loops -> LoopRec]
      /\ loop["cycle"].at # "idle" => loop["cycle"].snap \in Files
      /\ loop["cycle"].at # "idle" => Told(loop["cycle"].snap)
  BY CycleRec DEF LoopsOK, StepsInv
<1>1. ladderTaken' = ladderTaken
  BY DEF CycleBegins, CycleReconciles, CycleHoldingsFail, CycleEnters, CycleEnds, EntryWaits,
         CycleVisits, EntryConsidered, TpBegins, EngineBuys, WhaleSells, FeedPolled, FeedAges,
         Quote, EntryFails, EntryFills, hist
<1> DEFINE Kept(f) == \A q \in Positions : f[q] # None /\ f[q].seq > 0
                                        => <<q, f[q].seq>> \in ladderTaken
<1>2. SUFFICES Kept(file') /\ \A l \in Loops : loop'[l].at # "idle" => Kept(loop'[l].snap)
  BY <1>1 DEF StepsInv, Told
<1>3. Kept(file) /\ \A l \in Loops : loop[l].at # "idle" => Kept(loop[l].snap)
  BY DEF StepsInv, Told
<1>4. CASE \/ CycleHoldingsFail \/ \E p \in Positions : CycleVisits(p) \/ EntryConsidered(p)
  <2>1. file' = file /\ loop["cycle"].at # "idle"
    BY <1>4 DEF CycleHoldingsFail, CycleVisits, EntryConsidered
  <2>2. loop'["tp"] = loop["tp"] /\ loop'["cycle"].snap = loop["cycle"].snap
    <3>1. CASE CycleHoldingsFail
      BY <1>0, <3>1 DEF CycleHoldingsFail, At, LoopRec
    <3>2. CASE \E p \in Positions : CycleVisits(p)
      <4>1. PICK p \in Positions : CycleVisits(p)
        BY <3>2
      <4>2. \/ loop' = loop
            \/ loop' = [loop EXCEPT !["cycle"].at = Route(loop["cycle"].snap[p].src),
                                    !["cycle"].p = p]
        BY <4>1 DEF CycleVisits
      <4> QED BY <1>0, <4>2 DEF LoopRec
    <3>3. CASE \E p \in Positions : EntryConsidered(p)
      <4>1. PICK p \in Positions : EntryConsidered(p)
        BY <3>3
      <4>2. \/ loop' = loop
            \/ loop' = [loop EXCEPT !["cycle"].at = "buy", !["cycle"].p = p]
        BY <4>1 DEF EntryConsidered
      <4> QED BY <1>0, <4>2 DEF LoopRec
    <3> QED BY <1>4, <3>1, <3>2, <3>3
  <2> QED BY <1>3, <2>1, <2>2 DEF Loops
<1>5. CASE \E p \in Positions : WhaleSells(p) \/ FeedPolled(p) \/ FeedAges(p) \/ Quote(p)
  BY <1>3, <1>5 DEF WhaleSells, FeedPolled, FeedAges, Quote
<1>6. CASE CycleBegins
  <2>1. file' = file /\ loop'["tp"] = loop["tp"] /\ loop'["cycle"].snap = file
    BY <1>0, <1>6 DEF CycleBegins, LoopRec
  <2> QED BY <1>3, <2>1 DEF Loops
<1>7. CASE CycleReconciles
  <2>1. /\ loop["cycle"].at # "idle" /\ loop'["tp"] = loop["tp"]
        /\ loop'["cycle"].snap = file' /\ file' = Reconciled(loop["cycle"].snap)
    BY <1>0, <1>7 DEF CycleReconciles, LoopRec
  <2>2. \A q \in Positions : file'[q] # None /\ file'[q].seq > 0
                               => /\ loop["cycle"].snap[q] # None
                                  /\ loop["cycle"].snap[q].seq = file'[q].seq
    <3> SUFFICES ASSUME NEW q \in Positions, file'[q] # None, file'[q].seq > 0
                 PROVE  /\ loop["cycle"].snap[q] # None
                        /\ loop["cycle"].snap[q].seq = file'[q].seq
      OBVIOUS
    <3>1. file'[q] = IF walletRead[q] = 0 THEN None
                     ELSE IF loop["cycle"].snap[q] = None THEN Adopted(q)
                     ELSE [loop["cycle"].snap[q] EXCEPT !.size = walletRead[q]]
      BY <2>1 DEF Reconciled
    <3>2. Adopted(q).seq = 0
      BY DEF Adopted
    <3>3. loop["cycle"].snap[q] # None
      BY <3>1, <3>2
    <3>4. loop["cycle"].snap[q] \in Record
      BY <1>0, <2>1, <3>3 DEF Files
    <3> QED BY <3>1, <3>3, <3>4 DEF Record
  <2>3. Kept(file')
    BY <1>3, <2>1, <2>2
  <2> QED BY <1>3, <2>1, <2>3 DEF Loops
<1>8. CASE \E p \in Positions : TpBegins(p)
  <2>1. file' = file /\ loop'["cycle"] = loop["cycle"] /\ loop'["tp"].snap = file
    BY <1>0, <1>8, NoShares DEF TpBegins, LoopRec
  <2> QED BY <1>3, <2>1 DEF Loops
<1>9. CASE CycleEnters \/ CycleEnds
  <2>1. file' = file /\ loop'["tp"] = loop["tp"]
        /\ (loop'["cycle"].at = "idle" \/ (loop["cycle"].at # "idle"
                                           /\ loop'["cycle"].snap = loop["cycle"].snap))
    BY <1>0, <1>9, NoShares DEF CycleEnters, CycleEnds, At, LoopRec
  <2> QED BY <1>3, <2>1 DEF Loops
<1>10. CASE EntryWaits \/ \E n \in 0..Size : EntryFails(n)
  <2>1. BackToEntries /\ file' = file /\ loop["cycle"].at # "idle"
    BY <1>10 DEF EntryWaits, EntryFails
  <2>2. loop'["tp"] = loop["tp"] /\ loop'["cycle"].snap = loop["cycle"].snap
    BY <1>0, <2>1, NoShares DEF BackToEntries, LoopRec
  <2> QED BY <1>3, <2>1, <2>2 DEF Loops
<1>11. CASE \E p \in Positions : EngineBuys(p)
  <2>1. PICK p \in Positions : EngineBuys(p)
    BY <1>11
  <2>2. Told(file') /\ loop' = loop
    <3>1. /\ loop' = loop
          /\ \/ file' = file
             \/ file' = [file EXCEPT ![p] = [src |-> source[p], size |-> Size, seq |-> 0,
                                             part |-> FALSE]]
      BY <2>1 DEF EngineBuys
    <3>2. file \in Files /\ Told(file)
      BY DEF StepsInv, DataOK
    <3>3. Told([file EXCEPT ![p] = [src |-> source[p], size |-> Size, seq |-> 0,
                                    part |-> FALSE]])
      BY <3>2, FreshTold
    <3> QED BY <1>1, <3>1, <3>2, <3>3 DEF Told
  <2> QED BY <1>3, <2>2 DEF Told
<1>12. CASE \E n \in 0..Size : EntryFills(n)
  <2>1. loop["cycle"].at = "buy" /\ Pos("cycle") \in Positions
    BY <1>12 DEF EntryFills, LoopsOK, Good, Pos
  <2>2. Told(file')
    BY <1>0, <1>12, <2>1, FreshTold DEF EntryFills
  <2>3. loop'["tp"] = loop["tp"] /\ loop'["cycle"].snap = file'
    BY <1>0, <1>12, NoShares DEF EntryFills, LoopRec
  <2> QED BY <1>3, <2>2, <2>3 DEF Told, Loops
<1> QED BY <1>4, <1>5, <1>6, <1>7, <1>8, <1>9, <1>10, <1>11, <1>12
-----------------------------------------------------------------------------
(***************************************************************************)
(* The entries: what a purchase of the main feed relies on.                *)
(***************************************************************************)
Feeds == {p \in Positions : source[p] \in FeedSources}

\* The fills whose answer was lost and the marks that grew too old.
Excused(p) == unsure[p] + forgot[p]

\* But for those, once a fill is known its market is in seen; an engine buys once.
Remembered ==
  /\ seen = None => \A p \in Feeds : buys[p] = 0
  /\ \A p \in Feeds : \/ buys[p] <= Excused(p)
                      \/ p \in seen /\ buys[p] <= 1 + Excused(p)
  /\ \A p \in Positions \ Feeds : buys[p] <= 1

\* What the wallet did not list when the cycle asked is still not held, until
\* the cycle itself buys it.
NotHeld ==
  /\ loop["cycle"].at \in {"idle", "held"} => heldCids = None
  /\ loop["cycle"].at = "held" => \A p \in Feeds : walletRead[p] = 0 => wallet[p] = 0
  /\ loop["cycle"].at \in Walking /\ heldCids # None
       => \A p \in Feeds : p \notin heldCids => wallet[p] = 0
  /\ loop["cycle"].at \in Buying
       => left \subseteq Feeds /\ \A p \in left : p \notin heldCids => wallet[p] = 0
  /\ loop["cycle"].at = "buy"
       => /\ Pos("cycle") \in Feeds \ left /\ Pos("cycle") \notin seen
          /\ wallet[Pos("cycle")] = 0

EntryInv == BuyOK /\ Remembered /\ NotHeld

\* What the feed buys, it buys where nothing is held.
OnlyIntoNothing ==
  \A p \in Positions : source[p] \in FeedSources /\ wallet'[p] > wallet[p] => wallet[p] = 0

LEMMA EntryInit == Init => EntryInv
<1> SUFFICES ASSUME Init PROVE EntryInv
  OBVIOUS
<1>1. loop["cycle"].at = "idle" /\ heldCids = None
  BY DEF Init, Loops, Idle
<1>2. \A p \in Positions : buys[p] = 0 /\ unsure[p] = 0 /\ forgot[p] = 0
  BY DEF Init
<1> QED BY <1>1, <1>2 DEF EntryInv, Excused, BuyOK, Remembered, NotHeld, Feeds, Buying, Walking, Acting

\* A sale of either loop disturbs none of it.
LEMMA EntrySells ==
  ASSUME CycleTypes, CycleTypes', EntryInv, NEW l \in Loops, Moves(l), SellsOnly
  PROVE  EntryInv'
<1>1. Feeds' = Feeds /\ Remembered'
  BY DEF EntryInv, Remembered, Excused, SellsOnly, Feeds
<1>2. \A q \in Positions : wallet[q] = 0 => wallet'[q] = 0
  <2>1. \A q \in Positions : wallet[q] \in Nat /\ wallet'[q] \in Nat
    BY DEF CycleTypes, DataOK
  <2> QED BY <2>1 DEF SellsOnly
<1>3. Feeds \subseteq Positions
  BY DEF Feeds
<1>4. CASE l = "cycle"
  <2>1. loop["cycle"].at \in Acting /\ loop'["cycle"].at \in Walking
    BY <1>4 DEF Moves
  <2>2. loop'["cycle"].at \notin Buying /\ loop'["cycle"].at \notin {"idle", "held", "buy"}
    BY <2>1 DEF Walking, Acting, Buying
  <2> QED BY <1>1, <1>2, <1>3, <2>1, <2>2 DEF EntryInv, BuyOK, NotHeld, SellsOnly, Walking
<1>5. CASE l = "tp"
  <2>1. loop'["cycle"] = loop["cycle"]
    BY <1>5 DEF Moves, Loops
  <2> QED BY <1>1, <1>2, <1>3, <2>1 DEF EntryInv, BuyOK, NotHeld, SellsOnly, Pos
<1> QED BY <1>4, <1>5 DEF Loops

LEMMA EntryHead ==
  ASSUME CycleTypes, EntryInv, CycleBegins \/ CycleReconciles \/ CycleHoldingsFail
  PROVE  EntryInv'
<1>0. loop \in [Loops -> LoopRec] /\ "cycle" \in Loops /\ loop["cycle"] \in LoopRec
  BY DEF CycleTypes, LoopsOK, Loops
<1>1. Feeds' = Feeds /\ Remembered' /\ wallet' = wallet /\ Feeds \subseteq Positions
  BY DEF EntryInv, Remembered, Excused, Feeds, CycleBegins, CycleReconciles, CycleHoldingsFail,
         feedvars, hist
<1>2. CASE CycleBegins
  <2>1. loop'["cycle"].at = "held" /\ heldCids' = None /\ walletRead' = wallet
    BY <1>0, <1>2 DEF CycleBegins, EntryInv, NotHeld, LoopRec
  <2> QED BY <1>1, <2>1 DEF EntryInv, BuyOK, NotHeld, Buying, Walking, Acting
<1>3. CASE CycleReconciles
  <2>1. loop["cycle"].at = "held" /\ loop'["cycle"].at = "walk"
        /\ heldCids' = {p \in Positions : walletRead[p] > 0}
    BY <1>0, <1>3 DEF CycleReconciles, LoopRec
  <2>2. walletRead \in [Positions -> Nat]
    BY <2>1, SharesAreNat DEF CycleTypes, LoopsOK
  <2>3. \A p \in Feeds : p \notin heldCids' => wallet[p] = 0
    BY <1>1, <2>1, <2>2 DEF EntryInv, NotHeld
  <2> QED BY <1>1, <2>1, <2>3 DEF EntryInv, BuyOK, NotHeld, Buying
<1>4. CASE CycleHoldingsFail
  <2>1. loop'["cycle"].at = "walk" /\ heldCids' = None
    BY <1>0, <1>4 DEF CycleHoldingsFail, At, EntryInv, NotHeld, LoopRec
  <2> QED BY <1>1, <2>1 DEF EntryInv, BuyOK, NotHeld, Buying
<1> QED BY <1>2, <1>3, <1>4

LEMMA EntryWalk ==
  ASSUME CycleTypes, EntryInv, NEW p \in Positions, CycleVisits(p) \/ TpBegins(p)
  PROVE  EntryInv'
<1>0. loop \in [Loops -> LoopRec] /\ "cycle" \in Loops /\ loop["cycle"] \in LoopRec
  BY DEF CycleTypes, LoopsOK, Loops
<1>1. /\ Feeds' = Feeds /\ Remembered' /\ wallet' = wallet /\ heldCids' = heldCids
      /\ seen' = seen /\ walletRead' = walletRead
  BY DEF EntryInv, Remembered, Excused, Feeds, CycleVisits, TpBegins, feedvars, hist, reads
<1>2. CASE CycleVisits(p)
  <2>1. /\ loop["cycle"].at = "walk"
        /\ \/ loop' = loop
           \/ loop' = [loop EXCEPT !["cycle"].at = Route(loop["cycle"].snap[p].src),
                                   !["cycle"].p = p]
    BY <1>2 DEF CycleVisits
  <2>2. loop'["cycle"].at \in {"walk", "price", "ask", "edge"}
    BY <1>0, <2>1 DEF LoopRec, Route
  <2> QED BY <1>1, <2>1, <2>2 DEF EntryInv, BuyOK, NotHeld, Buying, Walking, Acting
<1>3. CASE TpBegins(p)
  <2>1. loop'["cycle"] = loop["cycle"] /\ left' = left
    BY <1>0, <1>3 DEF TpBegins
  <2> QED BY <1>1, <2>1 DEF EntryInv, BuyOK, NotHeld, Pos
<1> QED BY <1>2, <1>3

LEMMA EntryEnters ==
  ASSUME CycleTypes, EntryInv, CycleEnters \/ CycleEnds
  PROVE  EntryInv'
<1>0. loop \in [Loops -> LoopRec] /\ "cycle" \in Loops /\ loop["cycle"] \in LoopRec
      /\ Idle.at = "idle"
  BY NoShares DEF CycleTypes, LoopsOK, Loops
<1>1. CASE CycleEnds
  <2>1. loop'["cycle"].at = "idle" /\ heldCids' = None
    BY <1>0, <1>1 DEF CycleEnds
  <2>2. Remembered'
    BY <1>1 DEF CycleEnds, EntryInv, Remembered, Excused, Feeds, feedvars, hist
  <2> QED BY <2>1, <2>2 DEF EntryInv, BuyOK, NotHeld, Buying, Walking, Acting
<1>2. CASE CycleEnters
  <2>1. PICK listed \in SUBSET Feeds, old \in SUBSET Positions :
          /\ old \subseteq (IF seen = None THEN {} ELSE seen)
          /\ forgot' = [p \in Positions |-> IF p \in old THEN forgot[p] + 1 ELSE forgot[p]]
          /\ seen' = IF seen = None THEN {p \in listed : Backlog(p)} ELSE seen \ old
          /\ IF seen # None /\ HoldingsKnown
             THEN At("cycle", "entries") /\ left' = listed /\ UNCHANGED heldCids
             ELSE /\ loop' = [loop EXCEPT !["cycle"] = Idle]
                  /\ heldCids' = None /\ UNCHANGED left
    BY <1>2 DEF CycleEnters, Feeds
  <2>2. /\ loop["cycle"].at = "walk" /\ wallet' = wallet /\ buys' = buys /\ unsure' = unsure
        /\ Feeds' = Feeds /\ Feeds \subseteq Positions
    BY <1>2 DEF CycleEnters, Feeds
  <2>3. /\ \A p \in Positions : buys[p] \in Nat /\ unsure[p] \in Nat /\ forgot[p] \in Nat
        /\ seen' # None
    <3>1. seen \in (SUBSET Positions) \cup {None}
      BY DEF CycleTypes, DataOK
    <3>2. seen' \in SUBSET Positions
      BY <2>1, <2>2, <3>1
    <3> QED BY <3>2, CycleBounds, NoRecord DEF CycleTypes, DataOK
  <2>4. Remembered'
    <3>1. \A p \in Feeds : \/ buys'[p] <= unsure'[p] + forgot'[p]
                           \/ p \in seen' /\ buys'[p] <= 1 + (unsure'[p] + forgot'[p])
      <4> SUFFICES ASSUME NEW p \in Feeds
                   PROVE  \/ buys[p] <= unsure[p] + forgot'[p]
                          \/ p \in seen' /\ buys[p] <= 1 + (unsure[p] + forgot'[p])
        BY <2>2
      <4>0. p \in Positions /\ forgot'[p] = IF p \in old THEN forgot[p] + 1 ELSE forgot[p]
        BY <2>1, <2>2
      <4>1. CASE seen = None
        BY <2>3, <4>0, <4>1 DEF EntryInv, Remembered
      <4>2. CASE seen # None /\ p \in old
        <5>1. buys[p] <= 1 + (unsure[p] + forgot[p])
          BY <2>3, <4>0 DEF EntryInv, Remembered, Excused
        <5> QED BY <2>3, <4>0, <4>2, <5>1
      <4>3. CASE seen # None /\ p \notin old
        <5>1. p \in seen => p \in seen'
          BY <2>1, <4>3
        <5> QED BY <4>0, <4>3, <5>1 DEF EntryInv, Remembered, Excused
      <4> QED BY <4>1, <4>2, <4>3
    <3>2. \A p \in Positions \ Feeds : buys[p] <= 1
      BY DEF EntryInv, Remembered
    <3> QED BY <2>2, <2>3, <3>1, <3>2 DEF Remembered, Excused
  <2>5. CASE seen # None /\ HoldingsKnown
    <3>1. /\ loop'["cycle"].at = "entries" /\ left' \subseteq Feeds
          /\ heldCids' = heldCids /\ heldCids # None
      BY <1>0, <2>1, <2>5 DEF At, LoopRec, HoldingsKnown
    <3>2. \A p \in Feeds : p \notin heldCids => wallet[p] = 0
      BY <2>2, <3>1 DEF EntryInv, NotHeld, Walking
    <3> QED BY <2>2, <2>3, <2>4, <3>1, <3>2
            DEF EntryInv, BuyOK, NotHeld, Walking, Acting
  <2>6. CASE ~(seen # None /\ HoldingsKnown)
    <3>1. loop'["cycle"].at = "idle" /\ heldCids' = None
      BY <1>0, <2>1, <2>6
    <3> QED BY <2>4, <3>1 DEF EntryInv, BuyOK, NotHeld, Buying, Walking, Acting
  <2> QED BY <2>5, <2>6
<1> QED BY <1>1, <1>2

LEMMA EntryChoice ==
  ASSUME CycleTypes, EntryInv, NEW p \in Positions, EntryConsidered(p)
  PROVE  EntryInv'
<1>0. loop \in [Loops -> LoopRec] /\ "cycle" \in Loops /\ loop["cycle"] \in LoopRec
  BY DEF CycleTypes, LoopsOK, Loops
<1>1. /\ loop["cycle"].at = "entries" /\ p \in left /\ left' = left \ {p}
      /\ wallet' = wallet /\ buys' = buys /\ unsure' = unsure /\ heldCids' = heldCids
      /\ Feeds' = Feeds /\ forgot' = forgot
  BY DEF EntryConsidered, reads, hist, Feeds
<1>2. seen \in SUBSET Positions /\ heldCids \in SUBSET Positions
      /\ seen # None /\ heldCids # None
  BY <1>1 DEF EntryInv, BuyOK, Buying, CycleTypes, DataOK
<1>3. \/ loop' = loop /\ seen' \in {seen, seen \cup {p}}
      \/ /\ loop' = [loop EXCEPT !["cycle"].at = "buy", !["cycle"].p = p]
         /\ seen' = seen /\ p \notin seen /\ p \notin heldCids
  BY <1>2 DEF EntryConsidered, Held
<1>4. p \in Feeds /\ left' \subseteq Feeds /\ \A q \in left : q \notin heldCids => wallet[q] = 0
  BY <1>1 DEF EntryInv, NotHeld, Buying
<1>6. CASE loop' = loop /\ seen' \in {seen, seen \cup {p}}
  <2>1. seen' # None /\ seen \subseteq seen'
    BY <1>2, <1>6, NoRecord
  <2> QED BY <1>1, <1>4, <1>6, <2>1
          DEF EntryInv, BuyOK, Remembered, Excused, NotHeld, Walking, Acting, Buying
<1>7. CASE /\ loop' = [loop EXCEPT !["cycle"].at = "buy", !["cycle"].p = p]
           /\ seen' = seen /\ p \notin seen /\ p \notin heldCids
  <2>1. loop'["cycle"].at = "buy" /\ loop'["cycle"].p = p
    BY <1>0, <1>7 DEF LoopRec
  <2> QED BY <1>1, <1>2, <1>4, <1>7, <2>1
          DEF EntryInv, BuyOK, Remembered, Excused, NotHeld, Walking, Acting, Buying, Pos
<1> QED BY <1>3, <1>6, <1>7

\* The venue's answer to an entry, or none.
LEMMA EntryAnswers ==
  ASSUME CycleTypes, CycleTypes', EntryInv,
         \/ EntryWaits
         \/ \E n \in 0..Size : EntryFills(n) \/ EntryFails(n)
  PROVE  EntryInv' /\ OnlyIntoNothing
<1>0. loop \in [Loops -> LoopRec] /\ "cycle" \in Loops /\ loop["cycle"] \in LoopRec
  BY DEF CycleTypes, LoopsOK, Loops
<1> DEFINE p == Pos("cycle")
<1>1. /\ loop["cycle"].at = "buy" /\ left' = left /\ heldCids' = heldCids
      /\ source' = source /\ Feeds' = Feeds /\ forgot' = forgot
  BY DEF EntryWaits, EntryFails, EntryFills, reads, hist, Feeds
<1>2. /\ seen \in SUBSET Positions /\ heldCids # None
      /\ p \in Feeds /\ p \in Positions /\ p \notin left /\ wallet[p] = 0 /\ p \notin seen
      /\ left \subseteq Feeds /\ \A q \in left : q \notin heldCids => wallet[q] = 0
      /\ seen # None
  BY <1>1 DEF EntryInv, BuyOK, NotHeld, Buying, CycleTypes, DataOK, Feeds
<1>3. loop'["cycle"].at = "entries"
  <2>1. \E snap : loop' = [loop EXCEPT !["cycle"] = [Idle EXCEPT !.at = "entries", !.snap = snap]]
    BY DEF EntryWaits, EntryFails, EntryFills, BackToEntries
  <2> QED BY <1>0, <2>1, NoShares DEF LoopRec
<1>4. \A q \in Positions : /\ buys[q] \in Nat /\ unsure[q] \in Nat /\ forgot[q] \in Nat
                           /\ wallet[q] \in Nat /\ wallet'[q] \in Nat
  BY CycleBounds DEF CycleTypes, DataOK
<1>5. /\ \A q \in Positions \ {p} : wallet'[q] = wallet[q] /\ buys'[q] = buys[q]
                                      /\ unsure'[q] = unsure[q]
      /\ seen' \in {seen, seen \cup {p}}
      /\ \/ buys'[p] = buys[p] /\ unsure'[p] = unsure[p]
         \/ buys'[p] = buys[p] + 1 /\ unsure'[p] = unsure[p] + 1
         \/ buys'[p] = buys[p] + 1 /\ unsure'[p] = unsure[p] /\ p \in seen'
  <2>1. CASE EntryWaits
    BY <2>1 DEF EntryWaits, feedvars, hist
  <2>2. CASE \E n \in 0..Size : EntryFails(n)
    <3>1. PICK n \in 0..Size : EntryFails(n)
      BY <2>2
    <3>2. seen' \in {seen, seen \cup {p}}
      BY <3>1 DEF EntryFails
    <3>3. CASE n = 0
      BY <3>1, <3>2, <3>3 DEF EntryFails
    <3>4. CASE n # 0
      <4>1. n \in 1..Size /\ Bought(p, n) /\ unsure' = [unsure EXCEPT ![p] = @ + 1]
        BY <3>1, <3>4, CycleBounds DEF EntryFails
      <4>2. buys'[p] = buys[p] + 1
            /\ \A q \in Positions \ {p} : buys'[q] = buys[q] /\ wallet'[q] = wallet[q]
        BY <1>2, <4>1, BoughtKeeps DEF CycleTypes
      <4> QED BY <1>2, <3>2, <4>1, <4>2 DEF CycleTypes, DataOK
    <3> QED BY <3>3, <3>4
  <2>3. CASE \E n \in 0..Size : EntryFills(n)
    <3>1. PICK n \in 0..Size : EntryFills(n)
      BY <2>3
    <3>2. seen' = seen \cup {p} /\ unsure' = unsure
      BY <3>1 DEF EntryFills, Marked
    <3>3. CASE n = 0
      BY <3>1, <3>2, <3>3 DEF EntryFills
    <3>4. CASE n # 0
      <4>1. n \in 1..Size /\ Bought(p, n)
        BY <3>1, <3>4, CycleBounds DEF EntryFills
      <4> QED BY <1>2, <3>2, <4>1, BoughtKeeps DEF CycleTypes
    <3> QED BY <3>3, <3>4
  <2> QED BY <2>1, <2>2, <2>3
<1> HIDE DEF p
<1>6. seen' # None /\ seen \subseteq seen'
  BY <1>2, <1>5, NoRecord
<1>7. Remembered'
  <2>1. \A q \in Feeds : \/ buys'[q] <= unsure'[q] + forgot[q]
                         \/ q \in seen' /\ buys'[q] <= 1 + (unsure'[q] + forgot[q])
    <3> SUFFICES ASSUME NEW q \in Feeds
                 PROVE  \/ buys'[q] <= unsure'[q] + forgot[q]
                        \/ q \in seen' /\ buys'[q] <= 1 + (unsure'[q] + forgot[q])
      OBVIOUS
    <3>1. q \in Positions
          /\ (\/ buys[q] <= unsure[q] + forgot[q]
              \/ q \in seen /\ buys[q] <= 1 + (unsure[q] + forgot[q]))
      BY DEF EntryInv, Remembered, Excused, Feeds
    <3>2. CASE q = p
      <4>1. buys[p] <= unsure[p] + forgot[p]
        BY <1>2, <3>1, <3>2
      <4> QED BY <1>2, <1>4, <1>5, <3>2, <4>1
    <3>3. CASE q # p
      BY <1>5, <1>6, <3>1, <3>3
    <3> QED BY <3>2, <3>3
  <2>2. \A q \in Positions \ Feeds : buys'[q] <= 1
    BY <1>2, <1>5 DEF EntryInv, Remembered
  <2> QED BY <1>1, <1>6, <2>1, <2>2 DEF Remembered, Excused
<1>8. BuyOK' /\ NotHeld'
  <2>1. \A q \in left' : q \in Positions /\ (q \notin heldCids' => wallet'[q] = 0)
    BY <1>1, <1>2, <1>5 DEF Feeds
  <2> QED BY <1>1, <1>2, <1>3, <1>6, <2>1 DEF BuyOK, NotHeld, Walking, Acting
<1>9. OnlyIntoNothing
  <2>1. \A q \in Positions \ {p} : ~(wallet'[q] > wallet[q])
    BY <1>4, <1>5
  <2> QED BY <1>2, <2>1 DEF OnlyIntoNothing
<1> QED BY <1>7, <1>8, <1>9 DEF EntryInv

LEMMA EntryWorld ==
  ASSUME CycleTypes, EntryInv,
         \E p \in Positions : \/ EngineBuys(p) \/ WhaleSells(p) \/ FeedPolled(p)
                              \/ FeedAges(p) \/ Quote(p)
  PROVE  EntryInv' /\ OnlyIntoNothing
<1>1. /\ loop' = loop /\ left' = left /\ heldCids' = heldCids /\ walletRead' = walletRead
      /\ seen' = seen /\ unsure' = unsure /\ forgot' = forgot /\ Feeds' = Feeds
  BY DEF EngineBuys, WhaleSells, FeedPolled, FeedAges, Quote, reads, feedvars, hist, Feeds
<1>2. CASE \E p \in Positions : EngineBuys(p)
  <2>1. PICK p \in Positions : EngineBuys(p)
    BY <1>2
  <2>2. p \notin Feeds /\ buys[p] = 0 /\ Bought(p, Size) /\ Size \in 1..Size
    BY <2>1, CycleBounds DEF EngineBuys, Feeds
  <2>3. /\ buys'[p] = 1
        /\ \A q \in Positions \ {p} : buys'[q] = buys[q] /\ wallet'[q] = wallet[q]
    BY <2>2, BoughtKeeps DEF CycleTypes
  <2>4. \A q \in Positions : wallet[q] \in Nat
    BY DEF CycleTypes, DataOK
  <2>5. \A q \in Feeds : q \in Positions \ {p} /\ wallet'[q] = wallet[q] /\ buys'[q] = buys[q]
    BY <2>2, <2>3 DEF Feeds
  <2>6. Remembered'
    BY <1>1, <2>3, <2>5 DEF EntryInv, Remembered, Excused
  <2>7. BuyOK' /\ NotHeld'
    <3>1. loop["cycle"].at = "buy" => Pos("cycle") \in Feeds /\ Pos("cycle")' = Pos("cycle")
      BY <1>1 DEF EntryInv, NotHeld, Pos
    <3>2. loop["cycle"].at \in Buying => left \subseteq Feeds
      BY DEF EntryInv, NotHeld
    <3> QED BY <1>1, <2>5, <3>1, <3>2 DEF EntryInv, BuyOK, NotHeld
  <2>8. OnlyIntoNothing
    <3>1. \A q \in Feeds : ~(wallet'[q] > wallet[q])
      BY <2>4, <2>5
    <3> QED BY <3>1 DEF OnlyIntoNothing, Feeds
  <2> QED BY <2>6, <2>7, <2>8 DEF EntryInv
<1>3. CASE ~\E p \in Positions : EngineBuys(p)
  <2>1. wallet' = wallet /\ buys' = buys
    BY <1>3 DEF WhaleSells, FeedPolled, FeedAges, Quote, hist
  <2>2. \A q \in Positions : wallet[q] \in Nat
    BY DEF CycleTypes, DataOK
  <2>3. EntryInv'
    BY <1>1, <2>1 DEF EntryInv, BuyOK, Remembered, Excused, NotHeld, Pos
  <2> QED BY <2>1, <2>2, <2>3 DEF OnlyIntoNothing
<1> QED BY <1>2, <1>3

-----------------------------------------------------------------------------
(***************************************************************************)
(* The invariant of the cycle, and the theorems.                           *)
(***************************************************************************)
CycleInv == CycleTypes /\ StepsInv /\ EntryInv

LEMMA CycleInit == Init => CycleInv
<1> SUFFICES ASSUME Init PROVE CycleInv
  OBVIOUS
<1>1. StepsInv
  <2>1. file = [p \in Positions |-> None] /\ loop = [l \in Loops |-> Idle]
    BY DEF Init
  <2> QED BY <2>1 DEF StepsInv, Told, Idle
<1> QED BY <1>1, TypesInit, EntryInit DEF CycleInv

\* What no step but a purchase does: the wallet never gains.
LEMMA NoGain ==
  ASSUME CycleTypes, CycleTypes', SellsOnly \/ wallet' = wallet
  PROVE  OnlyIntoNothing
<1>1. \A q \in Positions : wallet[q] \in Nat /\ wallet'[q] \in Nat
  BY DEF CycleTypes, DataOK
<1>2. \A q \in Positions : wallet'[q] <= wallet[q]
  <2>1. CASE wallet' = wallet
    BY <1>1, <2>1
  <2>2. CASE SellsOnly
    BY <2>2 DEF SellsOnly
  <2> QED BY <2>1, <2>2
<1>3. \A q \in Positions : ~(wallet'[q] > wallet[q])
  BY <1>1, <1>2
<1> QED BY <1>3 DEF OnlyIntoNothing

LEMMA SalesStep ==
  ASSUME CycleInv, NEW l \in Loops,
         CopyStep(l) \/ (l = "cycle" /\ Exits)
  PROVE  CycleInv' /\ OnlyIntoNothing
<1>1. CycleTypes /\ StepsInv /\ EntryInv
  BY DEF CycleInv
<1>2. CASE CopyStep(l)
  <2>1. CycleTypes' /\ StepsInv'
    BY <1>1, <1>2, CopyTypes, StepsCopy
  <2>2. Moves(l) /\ SellsOnly
    BY <1>1, <1>2, CopyFrame
  <2> QED BY <1>1, <2>1, <2>2, EntrySells, NoGain DEF CycleInv
<1>3. CASE l = "cycle" /\ Exits
  <2>1. CycleTypes' /\ StepsInv'
    BY <1>1, <1>3, ExitTypes, StepsExit
  <2>2. Moves("cycle") /\ SellsOnly
    BY <1>1, <1>3, ExitFrame
  <2> QED BY <1>1, <1>3, <2>1, <2>2, EntrySells, NoGain DEF CycleInv
<1> QED BY <1>2, <1>3

LEMMA WalkStep ==
  ASSUME CycleInv,
         \/ CycleBegins \/ CycleReconciles \/ CycleHoldingsFail \/ CycleEnters \/ CycleEnds
         \/ \E p \in Positions : CycleVisits(p) \/ EntryConsidered(p) \/ TpBegins(p)
  PROVE  CycleInv' /\ OnlyIntoNothing
<1>1. CycleTypes /\ StepsInv /\ EntryInv /\ BuyOK
  BY DEF CycleInv, EntryInv
<1>2. StepsInv'
  BY <1>1, StepsRest
<1>3. CycleTypes'
  BY <1>1, HeadTypes, WalkTypes, EntryTypes
<1>4. EntryInv'
  BY <1>1, EntryHead, EntryWalk, EntryEnters, EntryChoice
<1>5. wallet' = wallet
  BY DEF CycleBegins, CycleReconciles, CycleHoldingsFail, CycleEnters, CycleEnds,
         CycleVisits, EntryConsidered, TpBegins
<1> QED BY <1>1, <1>2, <1>3, <1>4, <1>5, NoGain DEF CycleInv

LEMMA AnswerStep ==
  ASSUME CycleInv, EntryWaits \/ \E n \in 0..Size : EntryFills(n) \/ EntryFails(n)
  PROVE  CycleInv' /\ OnlyIntoNothing
<1>1. CycleTypes /\ StepsInv /\ EntryInv /\ BuyOK
  BY DEF CycleInv, EntryInv
<1>2. CycleTypes'
  BY <1>1, EntryTypes
<1>3. StepsInv'
  BY <1>1, StepsRest
<1> QED BY <1>1, <1>2, <1>3, EntryAnswers DEF CycleInv

LEMMA WorldStep ==
  ASSUME CycleInv,
         \E p \in Positions : \/ EngineBuys(p) \/ WhaleSells(p) \/ FeedPolled(p)
                              \/ FeedAges(p) \/ Quote(p)
  PROVE  CycleInv' /\ OnlyIntoNothing
<1>1. CycleTypes /\ StepsInv /\ EntryInv
  BY DEF CycleInv
<1>2. CycleTypes' /\ StepsInv'
  BY <1>1, WorldTypes, StepsRest
<1> QED BY <1>1, <1>2, EntryWorld DEF CycleInv

LEMMA CycleNext == CycleInv /\ [Next]_vars => CycleInv' /\ (OnlyIntoNothing \/ UNCHANGED vars)
<1> SUFFICES ASSUME CycleInv, [Next]_vars
             PROVE  CycleInv' /\ (OnlyIntoNothing \/ UNCHANGED vars)
  OBVIOUS
<1>0. "cycle" \in Loops /\ "tp" \in Loops
  BY DEF Loops
<1>1. CASE CopyStep("cycle") \/ CopyStep("tp") \/ Exits
  BY <1>0, <1>1, SalesStep
<1>2. CASE \/ CycleBegins \/ CycleReconciles \/ CycleHoldingsFail \/ CycleEnters \/ CycleEnds
           \/ \E p \in Positions : CycleVisits(p) \/ EntryConsidered(p) \/ TpBegins(p)
  BY <1>2, WalkStep
<1>3. CASE EntryWaits \/ \E n \in 0..Size : EntryFills(n) \/ EntryFails(n)
  BY <1>3, AnswerStep
<1>4. CASE \E p \in Positions : \/ EngineBuys(p) \/ WhaleSells(p) \/ FeedPolled(p)
                                \/ FeedAges(p) \/ Quote(p)
  BY <1>4, WorldStep
<1>5. CASE UNCHANGED vars
  <2>1. /\ wallet' = wallet /\ file' = file /\ ladder' = ladder /\ feed' = feed
        /\ book' = book /\ loop' = loop /\ left' = left /\ walletRead' = walletRead
        /\ heldCids' = heldCids /\ seen' = seen /\ fails' = fails /\ source' = source
        /\ buys' = buys /\ unsure' = unsure /\ forgot' = forgot
        /\ ladderTaken' = ladderTaken
    BY <1>5 DEF vars, reads, feedvars, hist
  <2>2. LoopsOK' /\ DataOK'
    BY <2>1 DEF CycleInv, CycleTypes, LoopsOK, DataOK
  <2>3. StepsInv'
    BY <2>1 DEF CycleInv, StepsInv, Told
  <2>4. EntryInv'
    BY <2>1 DEF CycleInv, EntryInv, BuyOK, Remembered, Excused, NotHeld, Feeds, Pos
  <2> QED BY <1>5, <2>2, <2>3, <2>4 DEF CycleInv, CycleTypes
<1>6. CASE CycleStep
  BY <1>1, <1>2, <1>3, <1>6 DEF CycleStep, Exits
<1> QED BY <1>1, <1>2, <1>4, <1>5, <1>6 DEF Next

LEMMA CycleInvariance == Spec => []CycleInv
<1>1. CycleInv /\ [Next]_vars => CycleInv'
  BY CycleNext
<1> QED BY CycleInit, <1>1, PTL DEF Spec

\* No step of the whale is burned by an order the venue refused, killed or
\* never answered: the record of a step is written only after shares were sold
\* for that very step or the venue took the order for it, whichever of the two
\* loops follows it and however their saves of positions.json interleave
\* (bot.mjs copyExitStep).
THEOREM NoStepIsBurned == Spec => []StepsAreSold
<1>1. CycleInv => StepsAreSold
  BY TypesImply DEF CycleInv, StepsInv, Told, StepsAreSold
<1> QED BY <1>1, CycleInvariance, PTL

\* A market of the main feed is bought once over any number of cycles, but for
\* the fills whose answer was lost and the marks of more than thirty days
\* (bot.mjs tradingCycle, the entries).
THEOREM BoughtOnce == Spec => []FeedBuysOnce
<1>1. CycleInv => FeedBuysOnce
  <2> SUFFICES ASSUME CycleInv, NEW p \in Feeds
               PROVE  buys[p] <= 1 + unsure[p] + forgot[p]
    BY DEF FeedBuysOnce, Feeds
  <2>1. buys[p] \in Nat /\ unsure[p] \in Nat /\ forgot[p] \in Nat
    BY CycleBounds DEF CycleInv, CycleTypes, DataOK, Feeds
  <2>2. buys[p] <= 1 + (unsure[p] + forgot[p])
    BY <2>1 DEF CycleInv, EntryInv, Remembered, Excused
  <2> QED BY <2>1, <2>2
<1> QED BY <1>1, CycleInvariance, PTL

\* No purchase of the main feed adds to shares the wallet holds, even after a
\* fill whose answer was lost, a mark that was dropped, or a record the file
\* has lost (bot.mjs tradingCycle, heldCids).
THEOREM NothingIsDoubled == Spec => NeverDoubles
<1>1. CycleInv /\ [Next]_vars
        => [\A p \in Positions : source[p] \in FeedSources /\ wallet'[p] > wallet[p]
                                 => wallet[p] = 0]_vars
  BY CycleNext DEF OnlyIntoNothing
<1> QED BY <1>1, CycleInvariance, PTL DEF Spec, NeverDoubles

-----------------------------------------------------------------------------
(***************************************************************************)
(* What an entry of the main feed costs.                                   *)
(***************************************************************************)
\* The settings of an account, as the server sends them.
IsSizing(z) ==
  /\ {z.platinum, z.gold, z.pct, z.fixedUsd, z.accountSizeUsd, z.maxPerTradeUsd,
      z.maxExposurePct} \subseteq Nat

Basis(z, portfolio) == IF z.accountSizeUsd > 0 THEN z.accountSizeUsd ELSE portfolio

LEMMA PercentIsSet ==
  ASSUME NEW z, IsSizing(z) PROVE pctOf(z) \in Nat /\ pctOf(z) > 0
<1>1. ASSUME NEW a \in Nat, NEW b \in Nat, NEW c \in Nat
      PROVE  FirstSet(<<a, b, c, DEFAULT_PCT>>) \in Nat /\ FirstSet(<<a, b, c, DEFAULT_PCT>>) > 0
  <2> DEFINE s == <<a, b, c, DEFAULT_PCT>>
             P(i) == s[i] > 0 /\ \A j \in 1..i-1 : s[j] <= 0
  <2>1. DOMAIN s = 1..4 /\ s[1] = a /\ s[2] = b /\ s[3] = c /\ s[4] = DEFAULT_PCT
    OBVIOUS
  <2> HIDE DEF s
  <2>2. \A i \in 1..4 : s[i] \in Nat
    BY <2>1 DEF DEFAULT_PCT
  <2>3. \E i \in DOMAIN s : P(i)
    <3>1. CASE a > 0
      <4>1. P(1)
        BY <2>1, <3>1
      <4> QED BY <2>1, <4>1
    <3>2. CASE a = 0 /\ b > 0
      <4>1. P(2)
        BY <2>1, <3>2
      <4> QED BY <2>1, <4>1
    <3>3. CASE a = 0 /\ b = 0 /\ c > 0
      <4>1. P(3)
        BY <2>1, <3>3
      <4> QED BY <2>1, <4>1
    <3>4. CASE a = 0 /\ b = 0 /\ c = 0
      <4>1. P(4)
        BY <2>1, <3>4 DEF DEFAULT_PCT
      <4> QED BY <2>1, <4>1
    <3> QED BY <3>1, <3>2, <3>3, <3>4
  <2>4. FirstSet(s) = s[CHOOSE i \in DOMAIN s : P(i)]
    BY DEF FirstSet
  <2> DEFINE k == CHOOSE i \in DOMAIN s : P(i)
  <2>5. k \in DOMAIN s /\ P(k)
    BY <2>3
  <2> HIDE DEF k
  <2>6. k \in 1..4 /\ s[k] > 0
    BY <2>1, <2>5
  <2> QED BY <2>2, <2>4, <2>6 DEF k, s
<1> QED BY <1>1 DEF pctOf, IsSizing

LEMMA SizeFacts ==
  ASSUME NEW z, IsSizing(z), NEW weatherYes \in BOOLEAN, NEW portfolio \in Nat, NEW deployed \in Nat
  PROVE  LET usd == sizeForSignal(z, weatherYes, portfolio, deployed)
         IN /\ usd \in Nat
            /\ z.maxExposurePct > 0 /\ usd > 0
                 => deployed * 100 + usd <= Basis(z, portfolio) * z.maxExposurePct
            /\ z.maxPerTradeUsd > 0 => usd <= z.maxPerTradeUsd * 100
<1> DEFINE basis == Basis(z, portfolio)
           full == IF z.mode = "fixed" THEN z.fixedUsd * 100 ELSE basis * pctOf(z)
           usd == Cap(IF weatherYes THEN (3 * full) \div 4 ELSE full, z.maxPerTradeUsd)
           room == basis * z.maxExposurePct - deployed * 100
<1>1. basis \in Nat /\ z.fixedUsd \in Nat /\ z.maxPerTradeUsd \in Nat /\ z.maxExposurePct \in Nat
  BY DEF IsSizing, Basis
<1>2. basis * pctOf(z) \in Nat /\ z.fixedUsd * 100 \in Nat
  BY <1>1, PercentIsSet
<1>3. full \in Nat
  BY <1>2
<1>4. sizeForSignal(z, weatherYes, portfolio, deployed)
        = IF z.maxExposurePct > 0 THEN Less(usd, More(0, room)) ELSE usd
  BY DEF sizeForSignal, Basis
<1>5. room \in Int
  <2>1. basis * z.maxExposurePct \in Nat
    BY <1>1
  <2> QED BY <2>1
<1> HIDE DEF basis, full
<1>6. (3 * full) \div 4 \in Nat
  BY <1>3
<1>7. usd \in Nat /\ (z.maxPerTradeUsd > 0 => usd <= z.maxPerTradeUsd * 100)
  BY <1>1, <1>3, <1>6 DEF Cap, Less
<1> HIDE DEF usd
<1>8. basis * z.maxExposurePct \in Nat
  BY <1>1
<1>9. room = basis * z.maxExposurePct - deployed * 100
  OBVIOUS
<1> HIDE DEF room
<1>10. Less(usd, More(0, room)) \in Nat /\ Less(usd, More(0, room)) <= usd
       /\ (Less(usd, More(0, room)) > 0 => Less(usd, More(0, room)) <= room)
  BY <1>5, <1>7 DEF Less, More
<1> QED BY <1>1, <1>4, <1>7, <1>8, <1>9, <1>10 DEF basis

\* An entry is none, or at least the minimum trade, within the cash that is
\* left and within the exposure cap, the lift to the minimum included
\* (bot.mjs:222-248, 1334-1343).
THEOREM EntryWithinCaps ==
  ASSUME NEW z, IsSizing(z), NEW weatherYes \in BOOLEAN, NEW portfolio \in Nat,
         NEW deployed \in Nat, NEW remaining \in Nat
  PROVE  LET usd == entryUsd(z, weatherYes, portfolio, deployed, remaining)
         IN \/ usd = 0
            \/ /\ usd \in MIN_TRADE_USD..remaining * 100
               /\ z.maxExposurePct > 0
                    => deployed * 100 + usd
                         <= More(Basis(z, portfolio), portfolio) * z.maxExposurePct
<1> DEFINE usd == sizeForSignal(z, weatherYes, portfolio, deployed)
           e == entryUsd(z, weatherYes, portfolio, deployed, remaining)
           most == More(Basis(z, portfolio), portfolio) * z.maxExposurePct
<1>1. usd \in Nat /\ (z.maxExposurePct > 0 /\ usd > 0
                        => deployed * 100 + usd <= Basis(z, portfolio) * z.maxExposurePct)
  BY SizeFacts
<1>2. z.maxExposurePct \in Nat /\ Basis(z, portfolio) \in Nat
  BY DEF IsSizing, Basis
<1>3. /\ Basis(z, portfolio) * z.maxExposurePct \in Nat /\ portfolio * z.maxExposurePct \in Nat
      /\ Basis(z, portfolio) * z.maxExposurePct <= most /\ portfolio * z.maxExposurePct <= most
      /\ most \in Nat
  <2>1. ASSUME NEW a \in Nat, NEW b \in Nat, NEW p \in Nat, a <= b
        PROVE  a * p <= b * p /\ a * p \in Nat /\ b * p \in Nat
    <3>1. b - a \in Nat /\ b = a + (b - a)
      BY <2>1
    <3>2. PICK k \in Nat : b = a + k
      BY <3>1
    <3>3. (a + k) * p = a * p + k * p /\ k * p \in Nat /\ a * p \in Nat
      OBVIOUS
    <3> QED BY <3>2, <3>3
  <2>2. More(Basis(z, portfolio), portfolio) \in Nat
        /\ Basis(z, portfolio) <= More(Basis(z, portfolio), portfolio)
        /\ portfolio <= More(Basis(z, portfolio), portfolio)
    BY <1>2 DEF More
  <2> QED BY <1>2, <2>1, <2>2
<1> HIDE DEF usd, most
<1> DEFINE spare == portfolio * z.maxExposurePct
<1>4. e = LET room == z.maxExposurePct = 0 \/ spare - deployed * 100 >= MIN_TRADE_USD
              want == IF usd < MIN_TRADE_USD /\ room THEN MIN_TRADE_USD ELSE usd
          IN IF want < MIN_TRADE_USD \/ want > remaining * 100 THEN 0 ELSE want
  BY DEF entryUsd, usd
<1>5. spare \in Nat /\ spare <= most
  BY <1>3
<1> HIDE DEF e, spare
<1>6. e = 0 \/ (e \in MIN_TRADE_USD..remaining * 100
                /\ (e = usd \/ (e = MIN_TRADE_USD
                                /\ (z.maxExposurePct = 0 \/ spare - deployed * 100 >= MIN_TRADE_USD))))
  BY <1>1, <1>4 DEF MIN_TRADE_USD
<1>7. e # 0 /\ z.maxExposurePct > 0 => deployed * 100 + e <= most
  BY <1>1, <1>2, <1>3, <1>5, <1>6 DEF MIN_TRADE_USD
<1> QED BY <1>6, <1>7 DEF e, most

\* An order is worth at least the venue's minimum of one dollar, whatever size
\* is asked for and whatever a share costs (bot.mjs:1392-1394).
THEOREM OrdersAreWorthADollar ==
  ASSUME NEW usd \in Nat, NEW price \in 1..99
  PROVE  sharesBought(usd, price) \in Nat /\ sharesBought(usd, price) * price >= 100
<1> DEFINE n == ceilDiv(100, price)
           m == sharesBought(usd, price)
<1>1. n \in Nat /\ n * price >= 100
  <2>1. n = (100 + price - 1) \div price
    BY DEF ceilDiv
  <2>2. (100 + price - 1) = price * ((100 + price - 1) \div price) + ((100 + price - 1) % price)
        /\ (100 + price - 1) % price \in 0..price - 1 /\ (100 + price - 1) \div price \in Nat
    OBVIOUS
  <2>3. n \in Nat /\ price * n = n * price
    BY <2>1, <2>2
  <2> HIDE DEF n
  <2> QED BY <2>1, <2>2, <2>3
<1>2. sharesFor(usd, price) \in Nat
  BY DEF sharesFor, More
<1> HIDE DEF n
<1>3. m \in Nat /\ m >= n
  BY <1>1, <1>2 DEF sharesBought, More, n
<1> HIDE DEF m
<1>4. m * price >= n * price
  <2>1. m - n \in Nat /\ m = n + (m - n)
    BY <1>1, <1>3
  <2>2. PICK k \in Nat : m = n + k
    BY <2>1
  <2>3. (n + k) * price = n * price + k * price /\ k * price \in Nat /\ n * price \in Nat
    BY <1>1
  <2> QED BY <2>2, <2>3
<1> QED BY <1>1, <1>3, <1>4 DEF m
=============================================================================
