--------------------------- MODULE FillPathProofs ----------------------------
(***************************************************************************)
(* The way of a fill into a bot: the watcher that hears of it (ChildWatch) *)
(* and the marker that keeps the polled tick off what the fast path        *)
(* decided (ExecutionAuthority), for any chain, any number of fills and of *)
(* replays, any memory and any order of the answers.                       *)
(***************************************************************************)
EXTENDS ChildWatch, ExecutionAuthority, FiniteSetTheorems, SequenceTheorems,
        NaturalsInduction, WellFoundedInduction, TLAPS

-----------------------------------------------------------------------------
(***************************************************************************)
(* The watcher: one evaluation per fill, no trade on a split and a         *)
(* complete replay.                                                        *)
(***************************************************************************)
\* The log l is on the channel q, and what the chain ks says of l.
Has(q, l)  == \E i \in 1..Len(q) : q[i] = l
On(ks, l)  == l[1] \in 1..Len(ks)
              /\ (ks[l[1]] = "split" \/ (ks[l[1]] = "fill" /\ l[2] = 1))
Ordered(q) == \A i, j \in 1..Len(q) : i < j => Earlier(q[i], q[j])
Mined(l)   == On(kind, l)
Known      == done \cup forgot

(***************************************************************************)
(* The inductive invariant.                                                *)
(***************************************************************************)
\* Nothing is remembered, buffered or acted on before it is mined.
NothingEarly ==
  /\ \A l \in Known : Mined(l)
  /\ \A l \in Logs : ~Mined(l) => acted[l] = 0 /\ l[2] \notin buf[l[1]]

\* A log waits or was acted on only as one that is remembered, and never both.
Once ==
  \A l \in Logs \ forgot :
    /\ l[2] \in buf[l[1]] => l \in done /\ acted[l] = 0
    /\ acted[l] > 0 => l \in done
    /\ acted[l] <= 1

\* A channel brings mined logs in the order of the chain.  The first leg of a
\* split is before the second, if it is not known already, and never without it.
ChannelOK(q, ks, known) ==
  /\ Ordered(q)
  /\ \A l \in Logs : Has(q, l) => On(ks, l)
  /\ \A b \in Blocks : Has(q, <<b, 2>>) => <<b, 1>> \in known \/ Has(q, <<b, 1>>)
  /\ \A b \in Blocks : Has(q, <<b, 1>>) /\ ks[b] = "split" => Has(q, <<b, 2>>)

\* The channel that has brought the first leg of a split and not yet the second.
Half(q, b) == Has(q, <<b, 2>>) /\ ~Has(q, <<b, 1>>)

\* Of a split, one leg waits alone only while the other is on its way behind
\* it; the second is never known before the first, and both leave together.
SplitWaits(b) ==
  /\ acted[<<b, 1>>] = 0 /\ acted[<<b, 2>>] = 0
  /\ <<b, 2>> \in done => <<b, 1>> \in done /\ (1 \in buf[b] <=> 2 \in buf[b])
  /\ <<b, 1>> \in done /\ <<b, 2>> \notin done => 1 \in buf[b]

SplitOut(b) == <<b, 1>> \in done /\ <<b, 2>> \notin done => Half(wire, b) \/ Half(ipc, b)

Kept(b) == kind[b] = "split" /\ b \notin torn /\ <<b, 1>> \notin forgot /\ <<b, 2>> \notin forgot

SplitsWait == \A b \in 1..Top : Kept(b) => SplitWaits(b) /\ SplitOut(b)

\* What a replay that was never refused has behind it is remembered.
Passed(x) == {b \in Blocks : x.base < b /\ b < x.a /\ b >= x.to - MaxGap}

ReplayOK(x) ==
  x.at = "logs" =>
    /\ x.a >= 1 /\ x.a <= x.to /\ x.to <= Top
    /\ x.whole => \A b \in Passed(x) : LogsOf(b) \subseteq Known

WatchInv ==
  /\ WatchTypeOK /\ NothingEarly /\ Once
  /\ ChannelOK(wire, kind, Known) /\ ChannelOK(ipc, kind, Known)
  /\ SplitsWait
  /\ \A r \in Replays : ReplayOK(bf[r])

(***************************************************************************)
(* Logs, and the order in which the code walks them.                       *)
(***************************************************************************)
LEMMA Caps ==
  /\ MaxBlock \in Nat /\ MaxGap \in Nat /\ Chunk \in Nat /\ Chunk >= 1
  /\ DoneCap \in Nat /\ DoneCap >= 1 /\ MaxBlock >= 1
BY WatchBounds

LEMMA LogFacts ==
  ASSUME NEW l \in Logs
  PROVE  /\ l[1] \in Blocks /\ l[1] \in 1..MaxBlock /\ l[1] \in Nat
         /\ l[2] \in {1, 2} /\ l = <<l[1], l[2]>>
BY Caps DEF Logs, Blocks

LEMMA LogsFinite == IsFiniteSet(Logs)
<1>1. IsFiniteSet(Blocks) /\ IsFiniteSet({1, 2})
  <2>1. {1, 2} = 1..2 /\ 1 \in Int /\ 2 \in Int /\ MaxBlock \in Int
    BY Caps
  <2>2. IsFiniteSet(1..MaxBlock) /\ IsFiniteSet(1..2)
    BY <2>1, FS_Interval, Zenon
  <2> QED BY <2>1, <2>2 DEF Blocks
<1> QED BY <1>1, FS_Product DEF Logs

LEMMA FiniteLogs ==
  ASSUME NEW S \in SUBSET Logs
  PROVE  IsFiniteSet(S) /\ Cardinality(S) \in Nat
BY LogsFinite, FS_Subset, FS_CardinalityType

Less == OpToRel(<, Nat)
Key(l) == 2 * l[1] + l[2]

LEMMA KeyFacts ==
  ASSUME NEW l \in Logs, NEW m \in Logs
  PROVE  /\ Key(l) \in Nat /\ (Earlier(l, m) <=> Key(l) < Key(m))
         /\ l # m => Key(l) # Key(m)
BY LogFacts DEF Key, Earlier

\* Of some logs, one comes first.
LEMMA FirstLog ==
  ASSUME NEW S \in SUBSET Logs, S # {}
  PROVE  \E l \in S : \A m \in S : m # l => Earlier(l, m)
<1> DEFINE K == {Key(l) : l \in S}
<1>1. K \subseteq Nat /\ K # {}
  BY KeyFacts
<1>2. IsWellFoundedOn(Less, Nat)
  BY NatLessThanWellFounded DEF Less
<1>3. PICK x \in K : \A y \in K : ~ (<<y, x>> \in Less)
  BY <1>1, <1>2, WFMin, Zenon
<1>4. ASSUME NEW y \in K
      PROVE  x <= y
  <2>1. x \in Nat /\ y \in Nat
    BY <1>1
  <2>2. ~ (y < x)
    BY <1>3, <2>1 DEF Less, OpToRel
  <2> QED BY <2>1, <2>2
<1>5. PICK l \in S : x = Key(l)
  OBVIOUS
<1>6. ASSUME NEW m \in S, m # l
      PROVE  Earlier(l, m)
  <2>1. Key(l) <= Key(m) /\ Key(l) # Key(m)
    BY <1>4, <1>5, <1>6, KeyFacts
  <2> QED BY <2>1, KeyFacts
<1> QED BY <1>5, <1>6

\* What is kept after the last time the memory was cleared is not more than
\* the logs that came since.
LEMMA RestFits ==
  ASSUME NEW A \in SUBSET Logs, NEW k \in Nat
  PROVE  Cardinality({l \in A : Cardinality({m \in A : Earlier(l, m)}) < k}) <= k
<1> DEFINE behind(l) == {m \in A : Earlier(l, m)}
           S == {l \in A : Cardinality(behind(l)) < k}
<1>1. CASE S = {}
  <2>1. Cardinality(S) = 0
    BY <1>1, FS_EmptySet
  <2> QED BY <2>1
<1>2. CASE S # {}
  <2>1. PICK l \in S : \A m \in S : m # l => Earlier(l, m)
    BY <1>2, FirstLog
  <2>2. S \ {l} \subseteq behind(l)
    BY <2>1
  <2>3. behind(l) \in SUBSET Logs /\ S \in SUBSET Logs /\ Cardinality(behind(l)) < k
    BY <2>1
  <2> HIDE DEF S, behind
  <2>4. Cardinality(S \ {l}) = Cardinality(S) - 1 /\ Cardinality(S) \in Nat
    BY <2>1, <2>3, FiniteLogs, FS_RemoveElement
  <2>5. Cardinality(S \ {l}) <= Cardinality(behind(l)) /\ Cardinality(behind(l)) \in Nat
    BY <2>2, <2>3, FiniteLogs, FS_Subset
  <2> QED BY <2>3, <2>4, <2>5 DEF S, behind
<1> QED BY <1>1, <1>2

(***************************************************************************)
(* handle().                                                               *)
(***************************************************************************)
BookOK == /\ done \in SUBSET Logs /\ Cardinality(done) <= DoneCap
          /\ buf \in [Blocks -> SUBSET {1, 2}] /\ forgot \in SUBSET Logs

LEMMA RememberedFacts ==
  ASSUME BookOK, NEW L \in SUBSET Logs
  PROVE  /\ Remembered(L) \subseteq done \cup L
         /\ Cardinality(Remembered(L)) <= DoneCap
         /\ ~Overflows(L) => Remembered(L) = done \cup L /\ Behind(L) = {}
         /\ Behind(L) \subseteq L
<1>1. /\ L \ done \in SUBSET Logs /\ done \cup L \in SUBSET Logs
      /\ Cardinality(L \ done) \in Nat /\ Cardinality(done) \in Nat
      /\ IsFiniteSet(L \ done) /\ IsFiniteSet(done)
  BY FiniteLogs DEF BookOK
<1>2. Behind(L) \subseteq L
  BY DEF Behind
<1>3. CASE ~Overflows(L)
  <2>1. Remembered(L) = done \cup L
    BY <1>3 DEF Remembered
  <2>2. Cardinality(L \ done) <= DoneCap - Cardinality(done)
    BY <1>1, <1>3, Caps DEF Overflows, Room
  <2>3. Cardinality(done \cup L) <= DoneCap
    <3>1. done \cup L = done \cup (L \ done) /\ done \cap (L \ done) = {}
      OBVIOUS
    <3>2. Cardinality(done \cup (L \ done)) = Cardinality(done) + Cardinality(L \ done) - 0
      BY <1>1, <3>1, FS_Union, FS_EmptySet
    <3> QED BY <1>1, <2>2, <3>1, <3>2, Caps
  <2>4. Behind(L) = {}
    <3> SUFFICES ASSUME NEW l \in L,
                        Cardinality({m \in L \ done : Earlier(m, l)}) > Room
                 PROVE  FALSE
      BY DEF Behind
    <3>1. Cardinality({m \in L \ done : Earlier(m, l)}) <= Cardinality(L \ done)
          /\ Cardinality({m \in L \ done : Earlier(m, l)}) \in Nat
      BY <1>1, FS_Subset, FiniteLogs
    <3> QED BY <1>1, <2>2, <3>1, Caps DEF Room
  <2> QED BY <1>2, <1>3, <2>1, <2>3, <2>4
<1>4. CASE Overflows(L)
  <2> DEFINE A == Behind(L)
             rest == Cardinality(A) % (DoneCap + 1)
  <2>1. A \in SUBSET Logs /\ Cardinality(A) \in Nat
    BY <1>2, FiniteLogs
  <2>2. rest \in 0..DoneCap
    BY <2>1, Caps
  <2>3. Remembered(L) = {l \in A : Cardinality({m \in A : Earlier(l, m)}) < rest}
    BY <1>4 DEF Remembered
  <2> HIDE DEF A, rest
  <2>4. Cardinality(Remembered(L)) <= rest /\ Remembered(L) \subseteq A
    <3>1. rest \in Nat
      BY <2>2, Caps
    <3>2. Cardinality({l \in A : Cardinality({m \in A : Earlier(l, m)}) < rest}) <= rest
      BY <2>1, <3>1, RestFits, Zenon
    <3> QED BY <2>3, <3>2
  <2>5. Cardinality(Remembered(L)) \in Nat
    BY <2>1, <2>4, FiniteLogs
  <2>6. Cardinality(Remembered(L)) <= DoneCap
    BY <2>2, <2>4, <2>5, Caps
  <2> QED BY <1>2, <1>4, <2>4, <2>6 DEF A
<1> QED BY <1>3, <1>4

\* Of what is not forgotten, the logs L become known, and wait if they were not.
LEMMA HandleFacts ==
  ASSUME BookOK, NEW L \in SUBSET Logs, Handle(L)
  PROVE  /\ BookOK' /\ done' \subseteq done \cup L
         /\ forgot \subseteq forgot' /\ forgot' \subseteq forgot \cup done \cup L
         /\ done \cup L \subseteq done' \cup forgot'
         /\ \A l \in Logs : l[2] \in buf'[l[1]] => l[2] \in buf[l[1]] \/ l \in L
         /\ \A l \in Logs \ forgot' :
              /\ l \in done' <=> l \in done \cup L
              /\ l[2] \in buf'[l[1]] <=> l[2] \in buf[l[1]] \/ l \in L \ done
<1>1. /\ done' = Remembered(L)
      /\ forgot' = IF Overflows(L) THEN forgot \cup done \cup (L \ done') ELSE forgot
      /\ buf' = [b \in Blocks |-> buf[b] \cup {l[2] : l \in {m \in New(L) : m[1] = b}}]
  BY DEF Handle
<1>2. /\ Remembered(L) \subseteq done \cup L
      /\ Cardinality(Remembered(L)) <= DoneCap
      /\ ~Overflows(L) => Remembered(L) = done \cup L /\ Behind(L) = {}
      /\ Behind(L) \subseteq L
  BY RememberedFacts
<1>3. done' \subseteq done \cup L /\ forgot \subseteq forgot'
      /\ forgot' \subseteq forgot \cup done \cup L /\ done \cup L \subseteq done' \cup forgot'
  BY <1>1, <1>2
<1>4. ASSUME NEW l \in Logs
      PROVE  l[2] \in buf'[l[1]] <=> l[2] \in buf[l[1]] \/ l \in New(L)
  <2>1. l[1] \in Blocks /\ New(L) \subseteq Logs
    BY <1>2, LogFacts DEF New
  <2>2. buf'[l[1]] = buf[l[1]] \cup {m[2] : m \in {n \in New(L) : n[1] = l[1]}}
    BY <1>1, <2>1
  <2>3. \A m \in New(L) : m[1] = l[1] /\ m[2] = l[2] => m = l
    BY <2>1, LogFacts
  <2> QED BY <2>2, <2>3
<1>5. New(L) \subseteq L
  BY <1>2 DEF New
<1>6. buf' \in [Blocks -> SUBSET {1, 2}]
  <2>1. ASSUME NEW b \in Blocks
        PROVE  buf'[b] \in SUBSET {1, 2}
    <3>1. buf'[b] = buf[b] \cup {l[2] : l \in {m \in New(L) : m[1] = b}}
      BY <1>1
    <3>2. \A l \in New(L) : l[2] \in {1, 2}
      BY <1>5, LogFacts
    <3> QED BY <3>1, <3>2 DEF BookOK
  <2>2. buf' = [b \in Blocks |-> buf'[b]]
    BY <1>1
  <2> QED BY <2>1, <2>2
<1>7. ASSUME NEW l \in Logs \ forgot'
      PROVE  /\ l \in done' <=> l \in done \cup L
             /\ l \in New(L) <=> l \in L \ done
  <2>1. l \in done' <=> l \in done \cup L
    BY <1>3
  <2>2. l \in New(L) => l \in L \ done
    <3>1. CASE ~Overflows(L)
      BY <1>2, <3>1 DEF New
    <3>2. CASE Overflows(L)
      BY <1>1, <1>5, <1>7, <3>2
    <3> QED BY <3>1, <3>2
  <2>3. l \in L \ done => l \in New(L)
    BY DEF New
  <2> QED BY <2>1, <2>2, <2>3
<1>8. BookOK'
  BY <1>1, <1>2, <1>3, <1>6 DEF BookOK
<1> QED BY <1>3, <1>4, <1>5, <1>7, <1>8

(***************************************************************************)
(* Channels.                                                               *)
(***************************************************************************)
LEMMA LogKinds ==
  ASSUME WatchTypeOK, NEW b \in 1..Top
  PROVE  /\ b \in Blocks /\ LogsOf(b) \in SUBSET Logs
         /\ \A l \in Logs : l \in LogsOf(b) <=> l[1] = b /\ Mined(l)
         /\ kind[b] = "split" => LogsOf(b) = {<<b, 1>>, <<b, 2>>}
<1>1. b \in Blocks /\ kind[b] \in {"none", "fill", "split"} /\ Top = Len(kind)
  BY Caps DEF WatchTypeOK, Top, Blocks
<1>2. CASE kind[b] = "fill"
  BY <1>1, <1>2, LogFacts DEF LogsOf, Logs, Mined, On
<1>3. CASE kind[b] = "split"
  BY <1>1, <1>3, LogFacts DEF LogsOf, Logs, Mined, On
<1>4. CASE kind[b] = "none"
  BY <1>1, <1>4, LogFacts DEF LogsOf, Logs, Mined, On
<1> QED BY <1>1, <1>2, <1>3, <1>4

LEMMA TailFacts ==
  ASSUME NEW q \in Seq(Logs), q # <<>>, Ordered(q)
  PROVE  /\ Tail(q) \in Seq(Logs) /\ Head(q) \in Logs /\ Ordered(Tail(q))
         /\ Has(q, Head(q))
         /\ \A l \in Logs : Has(q, l) <=> l = Head(q) \/ Has(Tail(q), l)
         /\ \A l \in Logs : Has(Tail(q), l) => Earlier(Head(q), l)
<1>1. /\ Len(q) \in Nat /\ Len(q) >= 1 /\ Head(q) = q[1] /\ Tail(q) \in Seq(Logs)
      /\ Len(Tail(q)) = Len(q) - 1
      /\ \A i \in 1..Len(Tail(q)) : Tail(q)[i] = q[i + 1]
  BY HeadTailProperties, EmptySeq, LenProperties
<1>2. Head(q) \in Logs
  BY <1>1, ElementOfSeq
<1>3. Ordered(Tail(q))
  BY <1>1 DEF Ordered
<1>4. ASSUME NEW l \in Logs
      PROVE  Has(q, l) <=> l = Head(q) \/ Has(Tail(q), l)
  <2>1. ASSUME NEW i \in 1..Len(q), q[i] = l, i # 1
        PROVE  Has(Tail(q), l)
    <3>1. i - 1 \in 1..Len(Tail(q)) /\ Tail(q)[i - 1] = q[i]
      BY <1>1, <2>1
    <3> QED BY <2>1, <3>1 DEF Has
  <2>2. ASSUME NEW i \in 1..Len(Tail(q)), Tail(q)[i] = l
        PROVE  Has(q, l)
    <3>1. i + 1 \in 1..Len(q) /\ q[i + 1] = l
      BY <1>1, <2>2
    <3> QED BY <3>1 DEF Has
  <2>3. 1 \in 1..Len(q)
    BY <1>1
  <2> QED BY <1>1, <2>1, <2>2, <2>3 DEF Has
<1>5. ASSUME NEW l \in Logs, Has(Tail(q), l)
      PROVE  Earlier(Head(q), l)
  <2>1. PICK i \in 1..Len(Tail(q)) : Tail(q)[i] = l
    BY <1>5 DEF Has
  <2>2. 1 \in 1..Len(q) /\ i + 1 \in 1..Len(q) /\ 1 < i + 1 /\ q[i + 1] = l
    BY <1>1, <2>1
  <2> QED BY <1>1, <2>2 DEF Ordered
<1>6. Has(q, Head(q))
  BY <1>2, <1>4
<1> QED BY <1>1, <1>2, <1>3, <1>4, <1>5, <1>6

LEMMA JoinFacts ==
  ASSUME NEW q \in Seq(Logs), NEW s \in Seq(Logs), Ordered(q), Ordered(s),
         \A l, m \in Logs : Has(q, l) /\ Has(s, m) => Earlier(l, m)
  PROVE  /\ q \o s \in Seq(Logs) /\ Ordered(q \o s)
         /\ \A l \in Logs : Has(q \o s, l) <=> Has(q, l) \/ Has(s, l)
<1>1. /\ q \o s \in Seq(Logs) /\ Len(q \o s) = Len(q) + Len(s)
      /\ Len(q) \in Nat /\ Len(s) \in Nat
      /\ \A i \in 1..Len(q) + Len(s) :
           (q \o s)[i] = IF i <= Len(q) THEN q[i] ELSE s[i - Len(q)]
  BY ConcatProperties, LenProperties
<1>2. /\ \A i \in 1..Len(q) : q[i] \in Logs /\ Has(q, q[i])
      /\ \A i \in 1..Len(s) : s[i] \in Logs /\ Has(s, s[i])
  BY ElementOfSeq DEF Has
<1> DEFINE qs == q \o s
<1>3. ASSUME NEW i \in 1..Len(qs)
      PROVE  \/ i \in 1..Len(q) /\ qs[i] = q[i]
             \/ i - Len(q) \in 1..Len(s) /\ i > Len(q) /\ qs[i] = s[i - Len(q)]
  BY <1>1
<1>4. /\ \A i \in 1..Len(q) : i \in 1..Len(qs) /\ qs[i] = q[i]
      /\ \A i \in 1..Len(s) : i + Len(q) \in 1..Len(qs) /\ qs[i + Len(q)] = s[i]
  BY <1>1
<1>5. Len(q) \in Nat /\ Len(qs) \in Nat
  BY <1>1
<1> HIDE DEF qs
<1>6. Ordered(qs)
  <2> SUFFICES ASSUME NEW i \in 1..Len(qs), NEW j \in 1..Len(qs), i < j
               PROVE  Earlier(qs[i], qs[j])
    BY DEF Ordered
  <2>1. CASE j \in 1..Len(q) /\ qs[j] = q[j]
    <3>1. i \in 1..Len(q) /\ qs[i] = q[i]
      BY <1>3, <1>5, <2>1
    <3> QED BY <2>1, <3>1 DEF Ordered
  <2>2. CASE i \in 1..Len(q) /\ qs[i] = q[i] /\ j - Len(q) \in 1..Len(s) /\ qs[j] = s[j - Len(q)]
    BY <1>2, <2>2
  <2>3. CASE /\ i - Len(q) \in 1..Len(s) /\ qs[i] = s[i - Len(q)]
             /\ j - Len(q) \in 1..Len(s) /\ qs[j] = s[j - Len(q)]
    <3>1. i - Len(q) < j - Len(q)
      BY <1>5
    <3> QED BY <2>3, <3>1 DEF Ordered
  <2> QED BY <1>3, <2>1, <2>2, <2>3
<1>7. ASSUME NEW l \in Logs
      PROVE  Has(qs, l) <=> Has(q, l) \/ Has(s, l)
  BY <1>3, <1>4 DEF Has
<1> QED BY <1>1, <1>6, <1>7 DEF qs

LEMMA SentFacts ==
  ASSUME NEW b \in Blocks, NEW k \in {"none", "fill", "split"}
  PROVE  /\ Sent(b, k) \in Seq(Logs) /\ Ordered(Sent(b, k))
         /\ \A l \in Logs : Has(Sent(b, k), l) <=>
              l[1] = b /\ (k = "split" \/ (k = "fill" /\ l[2] = 1))
<1>1. <<b, 1>> \in Logs /\ <<b, 2>> \in Logs /\ b \in Nat
  BY Caps DEF Logs, Blocks
<1>2. CASE k = "none"
  <2>1. Sent(b, k) = <<>>
    BY <1>2 DEF Sent
  <2>2. Len(Sent(b, k)) = 0 /\ Sent(b, k) \in Seq(Logs) /\ 1..0 = {}
    BY <2>1
  <2> QED BY <1>2, <2>2 DEF Has, Ordered
<1>3. CASE k = "fill"
  <2>1. Sent(b, k) = << <<b, 1>> >>
    BY <1>3 DEF Sent
  <2>2. Sent(b, k) \in Seq(Logs) /\ Len(Sent(b, k)) = 1 /\ Sent(b, k)[1] = <<b, 1>>
    BY <1>1, <2>1
  <2>3. \A l \in Logs : Has(Sent(b, k), l) <=> l = <<b, 1>>
    <3>1. 1..1 = {1}
      OBVIOUS
    <3> QED BY <2>2, <3>1 DEF Has
  <2>4. Ordered(Sent(b, k))
    BY <2>2 DEF Ordered
  <2> QED BY <1>3, <2>2, <2>3, <2>4, LogFacts
<1>4. CASE k = "split"
  <2>1. Sent(b, k) = << <<b, 1>>, <<b, 2>> >>
    BY <1>4 DEF Sent
  <2>2. /\ Sent(b, k) \in Seq(Logs) /\ Len(Sent(b, k)) = 2
        /\ Sent(b, k)[1] = <<b, 1>> /\ Sent(b, k)[2] = <<b, 2>>
    BY <1>1, <2>1
  <2>3. \A l \in Logs : Has(Sent(b, k), l) <=> l = <<b, 1>> \/ l = <<b, 2>>
    <3>1. 1..2 = {1, 2}
      OBVIOUS
    <3> QED BY <2>2, <3>1 DEF Has
  <2>4. Ordered(Sent(b, k))
    <3>1. Earlier(<<b, 1>>, <<b, 2>>)
      BY <1>1 DEF Earlier
    <3>2. \A i, j \in 1..2 : i < j => i = 1 /\ j = 2
      OBVIOUS
    <3> QED BY <2>2, <3>1, <3>2 DEF Ordered
  <2> QED BY <1>4, <2>2, <2>3, <2>4, LogFacts
<1> QED BY <1>2, <1>3, <1>4

(***************************************************************************)
(* The heights.                                                            *)
(***************************************************************************)
LEMMA HasGreatest ==
  ASSUME NEW S \in SUBSET (0..MaxBlock), S # {}
  PROVE  \E x \in S : \A y \in S : y <= x
<1> DEFINE K == {MaxBlock - x : x \in S}
<1>1. K \subseteq Nat /\ K # {}
  <2>1. \A x \in 0..MaxBlock : MaxBlock - x \in Nat
    BY Caps
  <2> QED BY <2>1
<1>2. IsWellFoundedOn(Less, Nat)
  BY NatLessThanWellFounded DEF Less
<1>3. PICK k \in K : \A y \in K : ~ (<<y, k>> \in Less)
  BY <1>1, <1>2, WFMin, Zenon
<1>4. PICK x \in S : k = MaxBlock - x
  OBVIOUS
<1>5. ASSUME NEW y \in S
      PROVE  y <= x
  <2>1. MaxBlock - y \in K /\ MaxBlock - y \in Nat /\ k \in Nat
    BY <1>1
  <2>2. ~ (MaxBlock - y < k)
    BY <1>3, <2>1 DEF Less, OpToRel
  <2>3. x \in 0..MaxBlock /\ y \in 0..MaxBlock
    OBVIOUS
  <2> QED BY <1>4, <2>1, <2>2, <2>3, Caps
<1> QED BY <1>5

LEMMA HighestType ==
  ASSUME lastBlock \in 0..MaxBlock, BookOK, NEW L \in SUBSET Logs
  PROVE  Highest(L) \in 0..MaxBlock
<1> DEFINE bs == {lastBlock} \cup {l[1] : l \in New(L)}
<1>1. New(L) \subseteq Logs
  BY RememberedFacts DEF New
<1>2. \A l \in New(L) : l[1] \in 0..MaxBlock
  BY <1>1, LogFacts, Caps
<1>3. bs \in SUBSET (0..MaxBlock) /\ bs # {}
  BY <1>2
<1>4. Highest(L) = CHOOSE b \in bs : \A c \in bs : c <= b
  BY DEF Highest
<1> HIDE DEF bs
<1>5. \E b \in bs : \A c \in bs : c <= b
  BY <1>3, HasGreatest
<1> QED BY <1>3, <1>4, <1>5

(***************************************************************************)
(* What a step leaves of the invariant.                                    *)
(***************************************************************************)
LEMMA TypeFacts ==
  ASSUME WatchTypeOK
  PROVE  /\ BookOK /\ wire \in Seq(Logs) /\ ipc \in Seq(Logs) /\ Top \in 0..MaxBlock
         /\ kind \in Seq({"none", "fill", "split"}) /\ Top = Len(kind)
         /\ Known \in SUBSET Logs
<1>1. Len(kind) \in Nat
  BY LenProperties DEF WatchTypeOK
<1> QED BY <1>1, Caps DEF WatchTypeOK, BookOK, Top, Known

LEMMA ReplayKeeps ==
  ASSUME WatchTypeOK, Top \in Nat, Top' \in Nat, Top <= Top', Known \subseteq Known',
         \A b \in 1..Top : LogsOf(b)' = LogsOf(b),
         NEW r \in Replays, ReplayOK(bf[r]), bf'[r] = bf[r]
  PROVE  ReplayOK(bf[r])'
<1> DEFINE x == bf[r]
<1>1. x \in Replay
  BY DEF WatchTypeOK
<1>2. ReplayOK(bf[r])' <=>
        (x.at = "logs" =>
           /\ x.a >= 1 /\ x.a <= x.to /\ x.to <= Top'
           /\ x.whole => \A b \in Passed(x) : LogsOf(b)' \subseteq Known')
  BY DEF ReplayOK, Passed
<1>3. x.a \in Int /\ x.to \in Int /\ x.base \in Int
  BY <1>1, Caps DEF Replay
<1> SUFFICES ASSUME x.at = "logs"
             PROVE  /\ x.a >= 1 /\ x.a <= x.to /\ x.to <= Top'
                    /\ x.whole => \A b \in Passed(x) : LogsOf(b)' \subseteq Known'
  BY <1>2
<1>4. /\ x.a >= 1 /\ x.a <= x.to /\ x.to <= Top
      /\ x.whole => \A b \in Passed(x) : LogsOf(b) \subseteq Known
  BY DEF ReplayOK
<1>5. x.to <= Top'
  BY <1>3, <1>4
<1>6. ASSUME NEW b \in Passed(x)
      PROVE  b \in 1..Top
  BY <1>3, <1>4, Caps DEF Passed, Blocks
<1> QED BY <1>4, <1>5, <1>6

\* The steps of the timers, the sockets and the replays that touch no log.
LEMMA Quiet ==
  ASSUME WatchInv, UNCHANGED <<kind, wire, ipc, done, buf, acted, torn, forgot>>,
         WatchTypeOK', \A r \in Replays : ReplayOK(bf[r])'
  PROVE  WatchInv'
<1>1. UNCHANGED <<Top, Known>> /\ (\A l : Mined(l)' <=> Mined(l))
  BY DEF Top, Known, Mined
<1>2. NothingEarly'
  BY <1>1 DEF WatchInv, NothingEarly
<1>3. Once'
  BY DEF WatchInv, Once
<1>4. ChannelOK(wire, kind, Known)' /\ ChannelOK(ipc, kind, Known)'
  BY <1>1 DEF WatchInv
<1>5. SplitsWait'
  BY <1>1 DEF WatchInv, SplitsWait, Kept, SplitWaits, SplitOut, Half
<1> QED BY <1>2, <1>3, <1>4, <1>5 DEF WatchInv

LEMMA ChannelMono ==
  ASSUME NEW q, NEW ks, NEW k1, NEW k2, k1 \subseteq k2, ChannelOK(q, ks, k1)
  PROVE  ChannelOK(q, ks, k2)
BY DEF ChannelOK

LEMMA ChannelEmpty ==
  ASSUME NEW ks, NEW known
  PROVE  ChannelOK(<<>>, ks, known)
<1>1. Len(<<>>) = 0 /\ 1..0 = {}
  OBVIOUS
<1> QED BY <1>1 DEF ChannelOK, Ordered, Has

LEMMA LegFacts ==
  ASSUME NEW b \in Blocks
  PROVE  /\ <<b, 1>> \in Logs /\ <<b, 2>> \in Logs /\ <<b, 1>> # <<b, 2>>
         /\ <<b, 1>>[1] = b /\ <<b, 2>>[1] = b /\ <<b, 1>>[2] = 1 /\ <<b, 2>>[2] = 2
         /\ ~Earlier(<<b, 2>>, <<b, 1>>) /\ b \in Nat
         /\ \A l \in Logs : l[1] = b => l = <<b, 1>> \/ l = <<b, 2>>
BY Caps, LogFacts DEF Logs, Blocks, Earlier

LEMMA ChannelTail ==
  ASSUME NEW q \in Seq(Logs), q # <<>>, NEW ks, NEW k1, NEW k2,
         ChannelOK(q, ks, k1), k1 \subseteq k2, Head(q) \in k2
  PROVE  ChannelOK(Tail(q), ks, k2)
<1>1. /\ Ordered(Tail(q))
      /\ \A l \in Logs : Has(q, l) <=> l = Head(q) \/ Has(Tail(q), l)
      /\ \A l \in Logs : Has(Tail(q), l) => Earlier(Head(q), l)
  BY TailFacts DEF ChannelOK
<1>2. ASSUME NEW b \in Blocks
      PROVE  /\ Has(Tail(q), <<b, 2>>) => <<b, 1>> \in k2 \/ Has(Tail(q), <<b, 1>>)
             /\ Has(Tail(q), <<b, 1>>) /\ ks[b] = "split" => Has(Tail(q), <<b, 2>>)
  <2>1. <<b, 1>> \in Logs /\ <<b, 2>> \in Logs /\ ~Earlier(<<b, 2>>, <<b, 1>>)
    BY LegFacts
  <2> QED BY <1>1, <2>1 DEF ChannelOK
<1>3. \A l \in Logs : Has(Tail(q), l) => On(ks, l)
  BY <1>1 DEF ChannelOK
<1> QED BY <1>1, <1>2, <1>3 DEF ChannelOK

LEMMA HalfTail ==
  ASSUME NEW q \in Seq(Logs), q # <<>>, NEW ks, NEW known, ChannelOK(q, ks, known),
         NEW b \in Blocks, ks[b] = "split"
  PROVE  /\ Head(q)[1] # b /\ Half(q, b) => Half(Tail(q), b)
         /\ Head(q) = <<b, 1>> => Half(Tail(q), b)
<1>1. /\ \A l \in Logs : Has(q, l) <=> l = Head(q) \/ Has(Tail(q), l)
      /\ \A l \in Logs : Has(Tail(q), l) => Earlier(Head(q), l)
      /\ Has(q, Head(q))
  BY TailFacts DEF ChannelOK
<1>2. /\ <<b, 1>> \in Logs /\ <<b, 2>> \in Logs /\ <<b, 1>> # <<b, 2>>
      /\ <<b, 1>>[1] = b /\ <<b, 2>>[1] = b
  BY LegFacts
<1>3. ~Earlier(<<b, 1>>, <<b, 1>>)
  BY <1>2, KeyFacts
<1>4. Head(q)[1] # b /\ Half(q, b) => Half(Tail(q), b)
  BY <1>1, <1>2 DEF Half
<1>5. Head(q) = <<b, 1>> => Half(Tail(q), b)
  BY <1>1, <1>2, <1>3 DEF Half, ChannelOK
<1> QED BY <1>4, <1>5

(***************************************************************************)
(* What handle() leaves of it.                                             *)
(***************************************************************************)
LEMMA HandleKeeps ==
  ASSUME WatchInv, NEW L \in SUBSET Logs, \A l \in L : Mined(l), Handle(L),
         UNCHANGED <<kind, acted, torn>>
  PROVE  /\ BookOK' /\ NothingEarly' /\ Once' /\ Known \cup L \subseteq Known'
         /\ \A b \in Blocks : Kept(b)' => Kept(b)
<1>1. BookOK
  BY TypeFacts DEF WatchInv
<1>2. /\ BookOK' /\ done' \subseteq done \cup L
      /\ forgot \subseteq forgot' /\ forgot' \subseteq forgot \cup done \cup L
      /\ done \cup L \subseteq done' \cup forgot'
  BY <1>1, HandleFacts
<1>3. \A l \in Logs : l[2] \in buf'[l[1]] => l[2] \in buf[l[1]] \/ l \in L
  BY <1>1, HandleFacts
<1>4. \A l \in Logs \ forgot' :
         /\ l \in done' <=> l \in done \cup L
         /\ l[2] \in buf'[l[1]] <=> l[2] \in buf[l[1]] \/ l \in L \ done
  BY <1>1, HandleFacts
<1>5. \A l : Mined(l)' <=> Mined(l)
  BY DEF Mined
<1>6. Known \cup L \subseteq Known' /\ Known' \subseteq Known \cup L
  BY <1>2 DEF Known
<1>7. NothingEarly'
  BY <1>3, <1>5, <1>6 DEF WatchInv, NothingEarly
<1>8. Once'
  <2> SUFFICES ASSUME NEW l \in Logs \ forgot'
               PROVE  /\ l[2] \in buf'[l[1]] => l \in done' /\ acted'[l] = 0
                      /\ acted'[l] > 0 => l \in done'
                      /\ acted'[l] <= 1
    BY DEF Once
  <2>1. l \in Logs \ forgot /\ acted'[l] = acted[l] /\ acted[l] \in 0..2
    BY <1>2 DEF WatchInv, WatchTypeOK
  <2>2. /\ l[2] \in buf[l[1]] => l \in done /\ acted[l] = 0
        /\ acted[l] > 0 => l \in done
        /\ acted[l] <= 1
    BY <2>1 DEF WatchInv, Once
  <2> QED BY <1>4, <2>1, <2>2
<1>9. \A b \in Blocks : Kept(b)' => Kept(b)
  BY <1>2 DEF Kept
<1> QED BY <1>2, <1>6, <1>7, <1>8, <1>9

\* One log of a channel is handled: what becomes of the legs of a split.
LEMMA LegTaken ==
  ASSUME WatchInv, NEW h \in Logs, Mined(h), Handle({h}), UNCHANGED <<kind, acted, torn>>,
         h[2] = 2 => <<h[1], 1>> \in Known,
         NEW b \in Blocks, b \in 1..Top, Kept(b)'
  PROVE  /\ SplitWaits(b)'
         /\ <<b, 1>> \in done' /\ <<b, 2>> \notin done' =>
              h = <<b, 1>> \/ (h[1] # b /\ (Half(wire, b) \/ Half(ipc, b)))
<1>1. BookOK
  BY TypeFacts DEF WatchInv
<1>2. /\ <<b, 1>> \in Logs /\ <<b, 2>> \in Logs /\ <<b, 1>> # <<b, 2>>
      /\ <<b, 1>>[1] = b /\ <<b, 2>>[1] = b /\ <<b, 1>>[2] = 1 /\ <<b, 2>>[2] = 2
      /\ h[1] = b => h = <<b, 1>> \/ h = <<b, 2>>
  BY LegFacts
<1>3. Kept(b) /\ <<b, 1>> \notin forgot' /\ <<b, 2>> \notin forgot'
  BY HandleKeeps DEF Kept
<1>4. \A l \in Logs \ forgot' :
         /\ l \in done' <=> l \in done \cup {h}
         /\ l[2] \in buf'[l[1]] <=> l[2] \in buf[l[1]] \/ l \in {h} \ done
  BY <1>1, HandleFacts
<1>5. /\ <<b, 1>> \in done' <=> <<b, 1>> \in done \/ h = <<b, 1>>
      /\ <<b, 2>> \in done' <=> <<b, 2>> \in done \/ h = <<b, 2>>
      /\ 1 \in buf'[b] <=> 1 \in buf[b] \/ (h = <<b, 1>> /\ <<b, 1>> \notin done)
      /\ 2 \in buf'[b] <=> 2 \in buf[b] \/ (h = <<b, 2>> /\ <<b, 2>> \notin done)
  BY <1>2, <1>3, <1>4
<1>6. SplitWaits(b) /\ SplitOut(b)
  BY <1>3 DEF WatchInv, SplitsWait
<1>7. /\ 1 \in buf[b] => <<b, 1>> \in done
      /\ 2 \in buf[b] => <<b, 2>> \in done
  BY <1>2, <1>3 DEF WatchInv, Once, Kept
<1>8. h = <<b, 2>> => <<b, 1>> \in done
  BY <1>2, <1>3 DEF Known, Kept
<1>9. SplitWaits(b)'
  BY <1>2, <1>5, <1>6, <1>7, <1>8 DEF SplitWaits
<1> QED BY <1>2, <1>5, <1>6, <1>9 DEF SplitOut

(***************************************************************************)
(* The initial states, and one lemma per action.                           *)
(***************************************************************************)
LEMMA WatchInvInit == ASSUME WatchInit PROVE WatchInv
<1>1. Top = 1 /\ kind[1] = "none" /\ Known = {} /\ Len(kind) = 1 /\ 1..1 = {1}
  BY DEF WatchInit, Top, Known
<1>2. \A l \in Logs : ~Mined(l)
  BY <1>1 DEF Mined, On
<1>3. WatchTypeOK
  <2>1. 1 <= MaxBlock /\ 0 \in 0..MaxBlock /\ 0 \in 0..2
    BY Caps
  <2>2. Idle \in Replay
    BY <2>1 DEF Idle, Replay
  <2>3. Cardinality(done) <= DoneCap
    BY Caps, FS_EmptySet DEF WatchInit
  <2>4. kind \in Seq({"none", "fill", "split"}) /\ wire \in Seq(Logs) /\ ipc \in Seq(Logs)
    BY DEF WatchInit
  <2> QED BY <1>1, <2>1, <2>2, <2>3, <2>4 DEF WatchInit, WatchTypeOK
<1>4. NothingEarly /\ Once
  <2>1. \A l \in Logs : acted[l] = 0 /\ l[2] \notin buf[l[1]]
    BY LogFacts DEF WatchInit
  <2> QED BY <1>1, <2>1 DEF NothingEarly, Once
<1>5. ChannelOK(wire, kind, Known) /\ ChannelOK(ipc, kind, Known)
  BY ChannelEmpty DEF WatchInit
<1>6. SplitsWait
  BY <1>1 DEF SplitsWait, Kept
<1>7. \A r \in Replays : ReplayOK(bf[r])
  BY DEF WatchInit, Idle, ReplayOK
<1> QED BY <1>3, <1>4, <1>5, <1>6, <1>7 DEF WatchInv

LEMMA DeliverStep == ASSUME WatchInv, Deliver PROVE WatchInv'
<1>1. /\ BookOK /\ wire \in Seq(Logs) /\ ipc \in Seq(Logs) /\ wire # <<>>
      /\ wire' = Tail(wire) /\ ipc' = ipc /\ UNCHANGED <<kind, acted, torn>>
      /\ Handle({Head(wire)}) /\ bf' = bf
  BY TypeFacts DEF WatchInv, Deliver
<1>2. ChannelOK(wire, kind, Known) /\ ChannelOK(ipc, kind, Known)
  BY DEF WatchInv
<1>3. /\ Tail(wire) \in Seq(Logs) /\ Head(wire) \in Logs /\ Has(wire, Head(wire))
      /\ \A l \in Logs : Has(wire, l) <=> l = Head(wire) \/ Has(Tail(wire), l)
      /\ \A l \in Logs : Has(Tail(wire), l) => Earlier(Head(wire), l)
  BY <1>1, <1>2, TailFacts DEF ChannelOK
<1>4. Mined(Head(wire))
  BY <1>2, <1>3 DEF ChannelOK, Mined
<1> DEFINE h == Head(wire)
<1>5. h[2] = 2 => <<h[1], 1>> \in Known
  <2> SUFFICES ASSUME h[2] = 2
               PROVE  <<h[1], 1>> \in Known
    OBVIOUS
  <2>1. h[1] \in Blocks /\ h = <<h[1], 2>>
    BY <1>3, LogFacts
  <2>2. <<h[1], 1>> \in Logs /\ <<h[1], 1>> # h /\ ~Earlier(h, <<h[1], 1>>)
    BY <2>1, LegFacts
  <2> QED BY <1>2, <1>3, <2>1, <2>2 DEF ChannelOK
<1>6. /\ BookOK' /\ NothingEarly' /\ Once' /\ Known \subseteq Known' /\ h \in Known'
  BY <1>1, <1>3, <1>4, HandleKeeps
<1>7. ChannelOK(wire, kind, Known)' /\ ChannelOK(ipc, kind, Known)'
  <2>1. ChannelOK(Tail(wire), kind, Known')
    BY <1>1, <1>2, <1>6, ChannelTail
  <2>2. ChannelOK(ipc, kind, Known')
    BY <1>2, <1>6, ChannelMono
  <2> QED BY <1>1, <2>1, <2>2
<1>8. SplitsWait'
  <2> SUFFICES ASSUME NEW b \in 1..Top, Kept(b)'
               PROVE  SplitWaits(b)' /\ SplitOut(b)'
    BY <1>1 DEF SplitsWait, Top
  <2>1. b \in Blocks /\ kind[b] = "split"
    BY <1>1, LogKinds DEF WatchInv, Kept
  <2>2. /\ SplitWaits(b)'
        /\ <<b, 1>> \in done' /\ <<b, 2>> \notin done' =>
             h = <<b, 1>> \/ (h[1] # b /\ (Half(wire, b) \/ Half(ipc, b)))
    BY <1>1, <1>3, <1>4, <1>5, <2>1, LegTaken
  <2>3. /\ h[1] # b /\ Half(wire, b) => Half(Tail(wire), b)
        /\ h = <<b, 1>> => Half(Tail(wire), b)
    BY <1>1, <1>2, <2>1, HalfTail
  <2> HIDE DEF h
  <2>4. SplitOut(b)'
    BY <1>1, <2>2, <2>3 DEF SplitOut
  <2> QED BY <2>2, <2>4
<1>9. \A r \in Replays : ReplayOK(bf[r])'
  BY <1>1, <1>6, ReplayKeeps, TypeFacts DEF WatchInv, Top, LogsOf
<1>10. WatchTypeOK'
  <2>1. lastBlock' \in 0..MaxBlock
    BY <1>1, <1>3, HighestType DEF WatchInv, WatchTypeOK, Deliver
  <2> QED BY <1>1, <1>3, <1>6, <2>1 DEF WatchInv, WatchTypeOK, BookOK, Deliver, Top
<1> QED BY <1>6, <1>7, <1>8, <1>9, <1>10 DEF WatchInv

LEMMA HubDeliversStep == ASSUME WatchInv, HubDelivers PROVE WatchInv'
<1>1. /\ BookOK /\ ipc \in Seq(Logs) /\ wire \in Seq(Logs) /\ ipc # <<>>
      /\ ipc' = Tail(ipc) /\ wire' = wire /\ UNCHANGED <<kind, acted, torn>>
      /\ Handle({Head(ipc)}) /\ bf' = bf
  BY TypeFacts DEF WatchInv, HubDelivers
<1>2. ChannelOK(ipc, kind, Known) /\ ChannelOK(wire, kind, Known)
  BY DEF WatchInv
<1>3. /\ Tail(ipc) \in Seq(Logs) /\ Head(ipc) \in Logs /\ Has(ipc, Head(ipc))
      /\ \A l \in Logs : Has(ipc, l) <=> l = Head(ipc) \/ Has(Tail(ipc), l)
      /\ \A l \in Logs : Has(Tail(ipc), l) => Earlier(Head(ipc), l)
  BY <1>1, <1>2, TailFacts DEF ChannelOK
<1>4. Mined(Head(ipc))
  BY <1>2, <1>3 DEF ChannelOK, Mined
<1> DEFINE h == Head(ipc)
<1>5. h[2] = 2 => <<h[1], 1>> \in Known
  <2> SUFFICES ASSUME h[2] = 2
               PROVE  <<h[1], 1>> \in Known
    OBVIOUS
  <2>1. h[1] \in Blocks /\ h = <<h[1], 2>>
    BY <1>3, LogFacts
  <2>2. <<h[1], 1>> \in Logs /\ <<h[1], 1>> # h /\ ~Earlier(h, <<h[1], 1>>)
    BY <2>1, LegFacts
  <2> QED BY <1>2, <1>3, <2>1, <2>2 DEF ChannelOK
<1>6. /\ BookOK' /\ NothingEarly' /\ Once' /\ Known \subseteq Known' /\ h \in Known'
  BY <1>1, <1>3, <1>4, HandleKeeps
<1>7. ChannelOK(ipc, kind, Known)' /\ ChannelOK(wire, kind, Known)'
  <2>1. ChannelOK(Tail(ipc), kind, Known')
    BY <1>1, <1>2, <1>6, ChannelTail
  <2>2. ChannelOK(wire, kind, Known')
    BY <1>2, <1>6, ChannelMono
  <2> QED BY <1>1, <2>1, <2>2
<1>8. SplitsWait'
  <2> SUFFICES ASSUME NEW b \in 1..Top, Kept(b)'
               PROVE  SplitWaits(b)' /\ SplitOut(b)'
    BY <1>1 DEF SplitsWait, Top
  <2>1. b \in Blocks /\ kind[b] = "split"
    BY <1>1, LogKinds DEF WatchInv, Kept
  <2>2. /\ SplitWaits(b)'
        /\ <<b, 1>> \in done' /\ <<b, 2>> \notin done' =>
             h = <<b, 1>> \/ (h[1] # b /\ (Half(wire, b) \/ Half(ipc, b)))
    BY <1>1, <1>3, <1>4, <1>5, <2>1, LegTaken
  <2>3. /\ h[1] # b /\ Half(ipc, b) => Half(Tail(ipc), b)
        /\ h = <<b, 1>> => Half(Tail(ipc), b)
    BY <1>1, <1>2, <2>1, HalfTail
  <2> HIDE DEF h
  <2>4. SplitOut(b)'
    BY <1>1, <2>2, <2>3 DEF SplitOut
  <2> QED BY <2>2, <2>4
<1>9. \A r \in Replays : ReplayOK(bf[r])'
  BY <1>1, <1>6, ReplayKeeps, TypeFacts DEF WatchInv, Top, LogsOf
<1>10. WatchTypeOK'
  <2>1. lastBlock' \in 0..MaxBlock
    BY <1>1, <1>3, HighestType DEF WatchInv, WatchTypeOK, HubDelivers
  <2> QED BY <1>1, <1>3, <1>6, <2>1 DEF WatchInv, WatchTypeOK, BookOK, HubDelivers, Top
<1> QED BY <1>6, <1>7, <1>8, <1>9, <1>10 DEF WatchInv

\* A step of the hub or of a socket that moves no log.
LEMMA LinkStep ==
  ASSUME WatchInv, UNCHANGED <<kind, wire, ipc, book, bf, hist>>,
         hub' \in {"none", "up", "mute"}, fellBack' \in BOOLEAN,
         conn' \in {"none", "opening", "open", "unheard", "live", "retry", "dead"}
  PROVE  WatchInv'
<1>1. WatchTypeOK'
  BY DEF WatchInv, WatchTypeOK, book, hist, Top
<1>2. \A r \in Replays : ReplayOK(bf[r])'
  BY DEF WatchInv, book, hist, ReplayOK, Top, Known, LogsOf, Passed
<1> QED BY <1>1, <1>2, Quiet DEF book, hist

LEMMA FlushStep == ASSUME WatchInv, NEW b \in Blocks, Flush(b) PROVE WatchInv'
<1>1. /\ buf[b] # {} /\ ~OnWires(b) /\ UNCHANGED <<kind, sock, lastBlock, done, bf, torn, forgot>>
      /\ acted' = [l \in Logs |-> IF l[1] = b /\ l[2] \in Traded(b) /\ acted[l] < 2
                                  THEN acted[l] + 1 ELSE acted[l]]
      /\ buf' = [buf EXCEPT ![b] = {}]
  BY DEF Flush
<1>2. WatchTypeOK /\ acted \in [Logs -> 0..2] /\ buf \in [Blocks -> SUBSET {1, 2}]
  BY DEF WatchInv, WatchTypeOK
<1>3. /\ UNCHANGED <<wire, ipc, hub, fellBack, conn, Top, Known>>
      /\ \A l : Mined(l)' <=> Mined(l)
  BY <1>1 DEF sock, Top, Known, Mined
<1>4. \A l \in Logs : buf'[l[1]] = IF l[1] = b THEN {} ELSE buf[l[1]]
  BY <1>1, <1>2, LogFacts
<1>5. Traded(b) \subseteq buf[b]
  BY DEF Traded
<1>6. ASSUME NEW l \in Logs
      PROVE  /\ acted'[l] \in 0..2
             /\ acted'[l] # acted[l] => l[1] = b /\ l[2] \in buf[b] /\ acted'[l] = acted[l] + 1
  BY <1>1, <1>2, <1>5
<1>7. WatchTypeOK'
  <2>1. acted' \in [Logs -> 0..2]
    <3>1. acted' = [l \in Logs |-> acted'[l]]
      BY <1>1
    <3> QED BY <1>6, <3>1
  <2>2. buf' \in [Blocks -> SUBSET {1, 2}]
    BY <1>1, <1>2
  <2> QED BY <1>1, <1>2, <1>3, <2>1, <2>2 DEF WatchTypeOK
<1>8. NothingEarly'
  BY <1>3, <1>4, <1>6 DEF WatchInv, NothingEarly
<1>9. Once'
  <2> SUFFICES ASSUME NEW l \in Logs \ forgot
               PROVE  /\ l[2] \in buf'[l[1]] => l \in done /\ acted'[l] = 0
                      /\ acted'[l] > 0 => l \in done
                      /\ acted'[l] <= 1
    BY <1>1 DEF Once
  <2>1. /\ l[2] \in buf[l[1]] => l \in done /\ acted[l] = 0
        /\ acted[l] > 0 => l \in done
        /\ acted[l] <= 1 /\ acted[l] \in 0..2
    BY <1>2 DEF WatchInv, Once
  <2>2. CASE acted'[l] = acted[l]
    BY <1>4, <2>1, <2>2
  <2>3. CASE acted'[l] # acted[l]
    <3>1. l[1] = b /\ l[2] \in buf[l[1]] /\ acted'[l] = acted[l] + 1
      BY <1>6, <2>3
    <3> QED BY <1>4, <2>1, <3>1
  <2> QED BY <2>2, <2>3
<1>10. ChannelOK(wire, kind, Known)' /\ ChannelOK(ipc, kind, Known)'
  BY <1>1, <1>3 DEF WatchInv
<1>11. SplitsWait'
  <2> SUFFICES ASSUME NEW c \in 1..Top, Kept(c)'
               PROVE  SplitWaits(c)' /\ SplitOut(c)'
    BY <1>3 DEF SplitsWait
  <2>1. Kept(c) /\ c \in Blocks /\ UNCHANGED <<done, wire, ipc>>
    BY <1>1, <1>2, <1>3, LogKinds DEF Kept
  <2>2. SplitWaits(c) /\ SplitOut(c)
    BY <2>1 DEF WatchInv, SplitsWait
  <2>3. SplitOut(c)'
    BY <2>1, <2>2 DEF SplitOut
  <2>4. /\ <<c, 1>> \in Logs /\ <<c, 2>> \in Logs
        /\ <<c, 1>>[1] = c /\ <<c, 2>>[1] = c /\ <<c, 1>>[2] = 1 /\ <<c, 2>>[2] = 2
    BY <2>1, LegFacts
  <2>5. CASE c # b
    <3>1. /\ acted'[<<c, 1>>] = acted[<<c, 1>>] /\ acted'[<<c, 2>>] = acted[<<c, 2>>]
          /\ buf'[c] = buf[c]
      BY <1>4, <1>6, <2>4, <2>5
    <3> QED BY <2>1, <2>2, <2>3, <3>1 DEF SplitWaits
  <2>6. CASE c = b
    <3>1. ~Half(wire, b) /\ ~Half(ipc, b)
      <4>1. \A q \in {wire, ipc} : ~Has(q, <<b, 2>>)
        <5>1. ASSUME NEW q \in {wire, ipc}, NEW i \in 1..Len(q), q[i] = <<b, 2>>
              PROVE  FALSE
          <6>1. i \in DOMAIN q
            BY <1>2, LenProperties DEF WatchTypeOK
          <6>2. q[i][1] = b
            BY <5>1
          <6> QED BY <1>1, <6>1, <6>2 DEF OnWires
        <5> QED BY <5>1 DEF Has
      <4> QED BY <4>1 DEF Half
    <3>2. <<b, 1>> \in done => <<b, 2>> \in done
      BY <2>2, <2>6, <3>1 DEF SplitOut
    <3>3. /\ 1 \in buf[b] => <<b, 1>> \in done
          /\ 2 \in buf[b] => <<b, 2>> \in done
      BY <2>1, <2>4, <2>6 DEF WatchInv, Once, Kept
    <3>4. (1 \in buf[b] <=> 2 \in buf[b]) /\ buf[b] \subseteq {1, 2}
      BY <1>2, <2>2, <2>6, <3>2, <3>3 DEF SplitWaits
    <3>5. Traded(b) = {}
      <4>1. buf[b] = {1, 2}
        BY <1>1, <3>4
      <4> QED BY <4>1 DEF Traded
    <3>6. acted'[<<b, 1>>] = 0 /\ acted'[<<b, 2>>] = 0
      BY <1>1, <2>2, <2>4, <2>6, <3>5 DEF SplitWaits
    <3>7. buf'[b] = {}
      BY <1>1, <1>2
    <3> QED BY <2>1, <2>2, <2>3, <2>6, <3>2, <3>6, <3>7 DEF SplitWaits
  <2> QED BY <2>5, <2>6
<1>12. \A r \in Replays : ReplayOK(bf[r])'
  BY <1>1, <1>3 DEF WatchInv, ReplayOK, LogsOf, Passed
<1> QED BY <1>7, <1>8, <1>9, <1>10, <1>11, <1>12 DEF WatchInv

LEMMA ClosesStep == ASSUME WatchInv, Closes PROVE WatchInv'
<1>1. /\ conn' = Down(conn) /\ wire' = <<>> /\ torn' = torn \cup Cut
      /\ UNCHANGED <<kind, hub, fellBack, ipc, lastBlock, done, buf, bf, acted, forgot>>
  BY DEF Closes, book
<1>2. /\ UNCHANGED <<Top, Known>> /\ (\A l : Mined(l)' <=> Mined(l))
  BY <1>1 DEF Top, Known, Mined
<1>3. WatchTypeOK /\ wire \in Seq(Logs)
  BY DEF WatchInv, WatchTypeOK
<1>4. WatchTypeOK'
  <2>1. Cut \subseteq Blocks /\ <<>> \in Seq(Logs)
    BY DEF Cut
  <2>2. Down(conn) \in {"retry", "dead"}
    BY DEF Down
  <2> QED BY <1>1, <1>2, <1>3, <2>1, <2>2 DEF WatchTypeOK
<1>5. NothingEarly' /\ Once'
  BY <1>1, <1>2 DEF WatchInv, NothingEarly, Once
<1>6. ChannelOK(wire, kind, Known)' /\ ChannelOK(ipc, kind, Known)'
  BY <1>1, <1>2, ChannelEmpty DEF WatchInv
<1>7. SplitsWait'
  <2> SUFFICES ASSUME NEW b \in 1..Top, Kept(b)'
               PROVE  SplitWaits(b)' /\ SplitOut(b)'
    BY <1>2 DEF SplitsWait
  <2>1. Kept(b) /\ b \notin Cut /\ b \in Blocks
    BY <1>1, <1>3, LogKinds DEF Kept
  <2>2. SplitWaits(b) /\ SplitOut(b)
    BY <2>1 DEF WatchInv, SplitsWait
  <2>3. ~Half(wire, b)
    BY <1>3, <2>1, LenProperties DEF Cut, Half, Has
  <2>4. SplitOut(b)'
    BY <1>1, <2>2, <2>3 DEF SplitOut
  <2>5. SplitWaits(b)'
    BY <1>1, <2>2 DEF SplitWaits
  <2> QED BY <2>4, <2>5
<1>8. \A r \in Replays : ReplayOK(bf[r])'
  BY <1>1, <1>2 DEF WatchInv, ReplayOK, LogsOf, Passed
<1> QED BY <1>4, <1>5, <1>6, <1>7, <1>8 DEF WatchInv

\* A mined block comes to a channel that listens, and to no other.
LEMMA MineChannel ==
  ASSUME WatchInv, NEW k \in {"none", "fill", "split"}, Top < MaxBlock,
         NEW q \in Seq(Logs), ChannelOK(q, kind, Known), NEW on \in BOOLEAN
  PROVE  LET p == IF on THEN q \o Sent(Top + 1, k) ELSE q IN
         /\ p \in Seq(Logs) /\ ChannelOK(p, Append(kind, k), Known)
         /\ \A b \in 1..Top : Half(q, b) => Half(p, b)
<1> DEFINE s == Sent(Top + 1, k)
           p == IF on THEN q \o s ELSE q
           ks == Append(kind, k)
<1>1. /\ Top \in Nat /\ Top + 1 \in Blocks /\ Len(ks) = Top + 1 /\ ks[Top + 1] = k
      /\ \A b \in 1..Top : ks[b] = kind[b] /\ b \in Blocks
  BY TypeFacts, AppendProperties, Caps DEF WatchInv, Blocks, Top
<1>2. /\ s \in Seq(Logs) /\ Ordered(s)
      /\ \A l \in Logs : Has(s, l) <=>
           l[1] = Top + 1 /\ (k = "split" \/ (k = "fill" /\ l[2] = 1))
  BY <1>1, SentFacts
<1>3. ASSUME NEW l \in Logs, Has(q, l)
      PROVE  l[1] \in 1..Top /\ On(ks, l)
  <2>1. On(kind, l) /\ Top = Len(kind)
    BY <1>3 DEF ChannelOK, Top
  <2>2. l[1] \in 1..Top /\ l[1] \in 1..(Top + 1)
    BY <1>1, <2>1 DEF On
  <2> QED BY <1>1, <2>1, <2>2 DEF On
<1>4. \A l, m \in Logs : Has(q, l) /\ Has(s, m) => Earlier(l, m)
  <2>1. ASSUME NEW l \in Logs, NEW m \in Logs, Has(q, l), Has(s, m)
        PROVE  Earlier(l, m)
    <3>1. l[1] \in 1..Top /\ m[1] = Top + 1 /\ l[2] \in {1, 2} /\ m[2] \in {1, 2}
      BY <1>2, <1>3, <2>1, LogFacts
    <3> QED BY <1>1, <3>1 DEF Earlier
  <2> QED BY <2>1
<1>5. Ordered(q)
  BY DEF ChannelOK
<1>6. /\ p \in Seq(Logs) /\ Ordered(p)
      /\ \A l \in Logs : Has(p, l) <=> Has(q, l) \/ (on /\ Has(s, l))
  <2>1. /\ q \o s \in Seq(Logs) /\ Ordered(q \o s)
        /\ \A l \in Logs : Has(q \o s, l) <=> Has(q, l) \/ Has(s, l)
    BY <1>2, <1>4, <1>5, JoinFacts
  <2> QED BY <1>5, <2>1
<1> HIDE DEF p, s
<1>7. ASSUME NEW l \in Logs, Has(p, l)
      PROVE  On(ks, l)
  <2>1. CASE Has(q, l)
    BY <1>3, <2>1
  <2>2. CASE Has(s, l)
    <3>1. Top + 1 \in 1..(Top + 1)
      BY <1>1
    <3> QED BY <1>1, <1>2, <2>2, <3>1 DEF On
  <2> QED BY <1>6, <1>7, <2>1, <2>2
<1>8. ASSUME NEW b \in Blocks
      PROVE  /\ Has(p, <<b, 2>>) => <<b, 1>> \in Known \/ Has(p, <<b, 1>>)
             /\ Has(p, <<b, 1>>) /\ ks[b] = "split" => Has(p, <<b, 2>>)
  <2>1. /\ <<b, 1>> \in Logs /\ <<b, 2>> \in Logs
        /\ <<b, 1>>[1] = b /\ <<b, 2>>[1] = b /\ <<b, 1>>[2] = 1 /\ <<b, 2>>[2] = 2
    BY LegFacts
  <2>2. Has(q, <<b, 2>>) => <<b, 1>> \in Known \/ Has(q, <<b, 1>>)
    BY DEF ChannelOK
  <2>3. Has(q, <<b, 1>>) /\ ks[b] = "split" => Has(q, <<b, 2>>)
    BY <1>1, <1>3, <2>1 DEF ChannelOK
  <2>4. Has(s, <<b, 2>>) => Has(s, <<b, 1>>)
    BY <1>2, <2>1
  <2>5. Has(s, <<b, 1>>) /\ ks[b] = "split" => Has(s, <<b, 2>>)
    BY <1>1, <1>2, <2>1
  <2> QED BY <1>6, <2>1, <2>2, <2>3, <2>4, <2>5
<1>9. ChannelOK(p, ks, Known)
  BY <1>6, <1>7, <1>8 DEF ChannelOK
<1>10. ASSUME NEW b \in 1..Top, Half(q, b)
       PROVE  Half(p, b)
  <2>1. <<b, 1>> \in Logs /\ <<b, 2>> \in Logs /\ <<b, 1>>[1] = b
    BY <1>1, LegFacts
  <2>2. ~Has(s, <<b, 1>>)
    BY <1>1, <1>2, <2>1
  <2> QED BY <1>6, <1>10, <2>1, <2>2 DEF Half
<1> QED BY <1>6, <1>9, <1>10 DEF p, s

LEMMA MineStep ==
  ASSUME WatchInv, NEW k \in {"none", "fill", "split"}, Mine(k)
  PROVE  WatchInv'
<1>1. /\ Top < MaxBlock /\ kind' = Append(kind, k)
      /\ wire' = IF conn = "live" THEN wire \o Sent(Top + 1, k) ELSE wire
      /\ ipc'  = IF hub = "up" THEN ipc \o Sent(Top + 1, k) ELSE ipc
      /\ UNCHANGED <<hub, fellBack, conn, lastBlock, done, buf, bf, acted, torn, forgot>>
      /\ UNCHANGED Known
  BY DEF Mine, book, hist, Known
<1>2. /\ WatchTypeOK /\ wire \in Seq(Logs) /\ ipc \in Seq(Logs) /\ Top \in 0..MaxBlock
      /\ kind \in Seq({"none", "fill", "split"}) /\ Top = Len(kind)
      /\ Known \in SUBSET Logs
  BY TypeFacts DEF WatchInv
<1>3. /\ Top' = Top + 1 /\ kind' \in Seq({"none", "fill", "split"})
      /\ \A b \in 1..Top : kind'[b] = kind[b]
  BY <1>1, <1>2, AppendProperties DEF Top
<1>4. \A l : Mined(l) => Mined(l)'
  <2> SUFFICES ASSUME NEW l, Mined(l)
               PROVE  Mined(l)'
    OBVIOUS
  <2>1. l[1] \in 1..Top
    BY <1>2 DEF Mined, On
  <2>2. l[1] \in 1..Top' /\ Top' = Len(kind')
    BY <1>2, <1>3, <2>1 DEF Top
  <2> QED BY <1>3, <2>1, <2>2 DEF Mined, On
<1>5. \A b \in 1..Top : LogsOf(b)' = LogsOf(b)
  BY <1>3 DEF LogsOf
<1>6. /\ wire' \in Seq(Logs) /\ ChannelOK(wire', kind', Known)
      /\ \A b \in 1..Top : Half(wire, b) => Half(wire', b)
  <2>1. CASE conn = "live"
    BY <1>1, <1>2, <2>1, MineChannel DEF WatchInv
  <2>2. CASE conn # "live"
    BY <1>1, <1>2, <2>2, MineChannel DEF WatchInv
  <2> QED BY <2>1, <2>2
<1>7. /\ ipc' \in Seq(Logs) /\ ChannelOK(ipc', kind', Known)
      /\ \A b \in 1..Top : Half(ipc, b) => Half(ipc', b)
  <2>1. CASE hub = "up"
    BY <1>1, <1>2, <2>1, MineChannel DEF WatchInv
  <2>2. CASE hub # "up"
    BY <1>1, <1>2, <2>2, MineChannel DEF WatchInv
  <2> QED BY <2>1, <2>2
<1>8. WatchTypeOK'
  <2>1. Top' <= MaxBlock
    BY <1>1, <1>2, <1>3, Caps
  <2> QED BY <1>1, <1>2, <1>3, <1>6, <1>7, <2>1 DEF WatchTypeOK
<1>9. NothingEarly' /\ Once'
  BY <1>1, <1>4 DEF WatchInv, NothingEarly, Once
<1>10. ChannelOK(wire, kind, Known)' /\ ChannelOK(ipc, kind, Known)'
  BY <1>1, <1>6, <1>7
<1>11. SplitsWait'
  <2> SUFFICES ASSUME NEW b \in 1..Top', Kept(b)'
               PROVE  SplitWaits(b)' /\ SplitOut(b)'
    BY DEF SplitsWait
  <2>1. CASE b \in 1..Top
    <3>1. Kept(b)
      BY <1>1, <1>3, <2>1 DEF Kept
    <3>2. SplitWaits(b) /\ SplitOut(b)
      BY <2>1, <3>1 DEF WatchInv, SplitsWait
    <3>3. SplitWaits(b)'
      BY <1>1, <3>2 DEF SplitWaits
    <3>4. SplitOut(b)'
      BY <1>1, <1>6, <1>7, <2>1, <3>2 DEF SplitOut
    <3> QED BY <3>3, <3>4
  <2>2. CASE b \notin 1..Top
    <3>1. b = Top + 1 /\ b \in Blocks
      BY <1>1, <1>2, <1>3, <2>2, Caps DEF Blocks
    <3>2. /\ <<b, 1>> \in Logs /\ <<b, 2>> \in Logs
          /\ <<b, 1>>[1] = b /\ <<b, 2>>[1] = b /\ <<b, 1>>[2] = 1 /\ <<b, 2>>[2] = 2
      BY <3>1, LegFacts
    <3>3. ~Mined(<<b, 1>>) /\ ~Mined(<<b, 2>>)
      BY <1>2, <2>2, <3>2 DEF Mined, On
    <3>4. /\ <<b, 1>> \notin done /\ <<b, 2>> \notin done
          /\ acted[<<b, 1>>] = 0 /\ acted[<<b, 2>>] = 0
      BY <3>2, <3>3 DEF WatchInv, NothingEarly, Known
    <3> QED BY <1>1, <3>4 DEF SplitWaits, SplitOut
  <2> QED BY <2>1, <2>2
<1>12. \A r \in Replays : ReplayOK(bf[r])'
  <2>1. Top \in Nat /\ Top' \in Nat /\ Top <= Top' /\ Known \subseteq Known' /\ bf' = bf
    BY <1>1, <1>2, <1>3
  <2> QED BY <1>2, <1>5, <2>1, ReplayKeeps DEF WatchInv
<1> QED BY <1>8, <1>9, <1>10, <1>11, <1>12 DEF WatchInv

(***************************************************************************)
(* The replays.                                                            *)
(***************************************************************************)
\* A replay that stands where nothing is promised of it.
LEMMA ReplayQuiet ==
  ASSUME WatchInv, UNCHANGED <<kind, wire, ipc, hub, fellBack, conn, done, buf, acted, torn, forgot>>,
         lastBlock' \in 0..MaxBlock, NEW r \in Replays, NEW y \in Replay,
         bf' = [bf EXCEPT ![r] = y], ReplayOK(y)
  PROVE  WatchInv'
<1>1. WatchTypeOK'
  BY DEF WatchInv, WatchTypeOK, Top
<1>2. bf \in [Replays -> Replay]
  BY DEF WatchInv, WatchTypeOK
<1>3. ASSUME NEW p \in Replays
      PROVE  ReplayOK(bf[p])'
  <2>1. bf'[p] = bf[p] \/ bf'[p] = y
    BY <1>2
  <2>2. ReplayOK(bf[p])
    BY DEF WatchInv
  <2> QED BY <2>1, <2>2 DEF ReplayOK, Top, Known, LogsOf, Passed
<1> QED BY <1>1, <1>3, Quiet

LEMMA SubAckStep == ASSUME WatchInv, NEW r \in Replays, SubAck(r) PROVE WatchInv'
<1> DEFINE y == [Idle EXCEPT !.at = "height", !.base = lastBlock]
<1>1. /\ conn' = "live" /\ bf' = [bf EXCEPT ![r] = y]
      /\ UNCHANGED <<kind, hub, fellBack, wire, ipc, lastBlock, done, buf, acted, torn, forgot>>
  BY DEF SubAck, book, hist
<1>2. lastBlock \in 0..MaxBlock /\ 0 \in 0..MaxBlock
  BY Caps DEF WatchInv, WatchTypeOK
<1>3. y \in Replay /\ y.at = "height"
  BY <1>2 DEF Idle, Replay
<1> HIDE DEF y
<1>4. WatchTypeOK'
  BY <1>1, <1>3 DEF WatchInv, WatchTypeOK, Top
<1>5. bf \in [Replays -> Replay]
  BY DEF WatchInv, WatchTypeOK
<1>6. ASSUME NEW p \in Replays
      PROVE  ReplayOK(bf[p])'
  <2>1. bf'[p] = bf[p] \/ bf'[p] = y
    BY <1>1, <1>5
  <2>2. ReplayOK(bf[p])
    BY DEF WatchInv
  <2>3. ReplayOK(y)
    BY <1>3 DEF ReplayOK
  <2> QED BY <1>1, <2>1, <2>2, <2>3 DEF ReplayOK, Top, Known, LogsOf, Passed
<1> QED BY <1>1, <1>4, <1>6, Quiet

LEMMA IdleFacts == Idle \in Replay /\ ReplayOK(Idle) /\ Idle.at = "idle" /\ Idle.whole
BY Caps DEF Idle, Replay, ReplayOK

LEMMA HeightStep ==
  ASSUME WatchInv, NEW r \in Replays, NEW ok \in BOOLEAN, HeightReply(r, ok)
  PROVE  WatchInv'
<1>1. UNCHANGED <<kind, wire, ipc, hub, fellBack, conn, done, buf, acted, torn, forgot>>
  BY DEF HeightReply, sock, hist
<1>2. /\ lastBlock \in 0..MaxBlock /\ Top \in 0..MaxBlock
      /\ bf[r] \in Replay /\ bf \in [Replays -> Replay]
  BY TypeFacts DEF WatchInv, WatchTypeOK
<1>3. CASE bf' = [bf EXCEPT ![r] = Idle] /\ lastBlock' \in 0..MaxBlock
  BY <1>1, <1>3, IdleFacts, ReplayQuiet
<1>4. CASE /\ lastBlock # 0 /\ ~(lastBlock >= Top) /\ lastBlock' = lastBlock
           /\ bf' = [bf EXCEPT ![r].at = "logs", ![r].a = ReplayFrom(Top), ![r].to = Top,
                               ![r].whole = lastBlock = bf[r].base]
  <2> DEFINE a == ReplayFrom(Top)
             y == [bf[r] EXCEPT !.at = "logs", !.a = a, !.to = Top,
                                !.whole = lastBlock = bf[r].base]
  <2>1. /\ a \in 0..MaxBlock /\ a >= 1 /\ a <= Top
        /\ a = lastBlock + 1 \/ a <= Top - MaxGap
    BY <1>2, <1>4, Caps DEF ReplayFrom
  <2>2. bf' = [bf EXCEPT ![r] = y]
    BY <1>2, <1>4
  <2> HIDE DEF a
  <2>3. /\ y \in Replay /\ y.at = "logs" /\ y.a = a /\ y.to = Top /\ y.base = bf[r].base
        /\ y.whole <=> lastBlock = bf[r].base
    <3>1. (lastBlock = bf[r].base) \in BOOLEAN
      OBVIOUS
    <3> QED BY <1>2, <2>1, <3>1 DEF Replay
  <2> HIDE DEF y
  <2>4. ReplayOK(y)
    <3>1. ASSUME y.whole, NEW b \in Passed(y)
          PROVE  FALSE
      <4>1. lastBlock < b /\ b < a /\ b >= Top - MaxGap /\ b \in Nat
        BY <2>3, <3>1, Caps DEF Passed, Blocks
      <4> QED BY <1>2, <2>1, <4>1, Caps
    <3> QED BY <1>2, <2>1, <2>3, <3>1 DEF ReplayOK
  <2> QED BY <1>1, <1>2, <1>4, <2>2, <2>3, <2>4, ReplayQuiet
<1> QED BY <1>2, <1>3, <1>4 DEF HeightReply

\* The blocks of a chunk, its logs, and the replay behind it.
ChunkLogs(x) == UNION {LogsOf(c) : c \in x.a..ChunkEnd(x)}

After(x, ok) == IF ChunkEnd(x) = x.to THEN [Idle EXCEPT !.whole = x.whole /\ ok]
                ELSE [x EXCEPT !.a = ChunkEnd(x) + 1, !.whole = @ /\ ok]

LEMMA ChunkFacts ==
  ASSUME WatchInv, NEW r \in Replays, bf[r].at = "logs", NEW ok \in BOOLEAN
  PROVE  LET x == bf[r] b == ChunkEnd(x) IN
         /\ x \in Replay /\ b \in 1..MaxBlock /\ b <= x.to /\ x.a <= b /\ x.a >= 1
         /\ x.to <= Top /\ Top \in 0..MaxBlock
         /\ ChunkLogs(x) \in SUBSET Logs
         /\ \A l \in Logs : l \in ChunkLogs(x) <=> l[1] \in x.a..b /\ Mined(l)
         /\ After(x, ok) \in Replay
         /\ b = x.to => After(x, ok).at = "idle"
         /\ b # x.to => /\ After(x, ok).at = "logs" /\ After(x, ok).a = b + 1
                        /\ After(x, ok).to = x.to /\ After(x, ok).base = x.base
                        /\ After(x, ok).whole <=> x.whole /\ ok
<1> DEFINE x == bf[r]
           b == ChunkEnd(x)
<1>1. x \in Replay /\ Top \in 0..MaxBlock /\ WatchTypeOK
  BY TypeFacts DEF WatchInv, WatchTypeOK
<1>2. x.a >= 1 /\ x.a <= x.to /\ x.to <= Top /\ x.a \in Nat /\ x.to \in 0..MaxBlock
  BY <1>1, Caps DEF WatchInv, ReplayOK, Replay
<1>3. b \in 1..MaxBlock /\ b <= x.to /\ x.a <= b
  BY <1>1, <1>2, Caps DEF ChunkEnd
<1>4. \A c \in x.a..b : c \in 1..Top
  BY <1>1, <1>2, <1>3
<1>5. ChunkLogs(x) \in SUBSET Logs
  BY <1>1, <1>4, LogKinds DEF ChunkLogs
<1>6. ASSUME NEW l \in Logs
      PROVE  l \in ChunkLogs(x) <=> l[1] \in x.a..b /\ Mined(l)
  <2>1. \A c \in x.a..b : l \in LogsOf(c) <=> l[1] = c /\ Mined(l)
    BY <1>1, <1>4, LogKinds
  <2> QED BY <2>1 DEF ChunkLogs
<1>7. (x.whole /\ ok) \in BOOLEAN /\ x.whole \in BOOLEAN
  BY <1>1 DEF Replay
<1> HIDE DEF x
<1>8. CASE b = x.to
  <2>1. After(x, ok) = [Idle EXCEPT !.whole = x.whole /\ ok]
    BY <1>8 DEF After
  <2>2. After(x, ok) \in Replay /\ After(x, ok).at = "idle"
    BY <1>7, <2>1, IdleFacts DEF Replay
  <2> QED BY <1>1, <1>2, <1>3, <1>5, <1>6, <1>8, <2>2 DEF x
<1>9. CASE b # x.to
  <2>1. After(x, ok) = [x EXCEPT !.a = b + 1, !.whole = x.whole /\ ok]
    BY <1>9 DEF After
  <2>2. b + 1 \in 0..MaxBlock
    BY <1>2, <1>3, <1>9, Caps
  <2>3. x.at = "logs"
    BY DEF x
  <2> HIDE DEF b
  <2>4. /\ After(x, ok) \in Replay /\ After(x, ok).at = "logs" /\ After(x, ok).a = b + 1
        /\ After(x, ok).to = x.to /\ After(x, ok).base = x.base
        /\ After(x, ok).whole = (x.whole /\ ok)
    BY <1>1, <1>7, <2>1, <2>2, <2>3 DEF Replay
  <2> QED BY <1>1, <1>2, <1>3, <1>5, <1>6, <1>9, <2>4 DEF x, b
<1> QED BY <1>8, <1>9

LEMMA ChunkDoes ==
  ASSUME WatchInv, NEW r \in Replays, NEW ok \in BOOLEAN, ChunkReply(r, ok)
  PROVE  /\ bf[r].at = "logs" /\ bf' = [bf EXCEPT ![r] = After(bf[r], ok)]
         /\ IF ok THEN Handle(ChunkLogs(bf[r])) ELSE UNCHANGED <<done, buf, forgot>>
         /\ UNCHANGED <<kind, wire, ipc, hub, fellBack, conn, acted, torn>>
         /\ lastBlock' \in 0..MaxBlock
<1> DEFINE x == bf[r]
<1>1. /\ x.at = "logs"
      /\ IF ok THEN Handle(ChunkLogs(x)) ELSE UNCHANGED <<done, buf, forgot>>
      /\ UNCHANGED <<kind, wire, ipc, hub, fellBack, conn, acted, torn>>
  BY DEF ChunkReply, ChunkLogs, sock
<1>2. bf \in [Replays -> Replay] /\ x \in Replay
  BY DEF WatchInv, WatchTypeOK
<1>3. bf' = [bf EXCEPT ![r] = After(x, ok)]
  BY <1>2 DEF ChunkReply, After
<1>4. lastBlock' \in 0..MaxBlock
  <2>1. /\ ChunkLogs(x) \in SUBSET Logs /\ lastBlock \in 0..MaxBlock /\ BookOK
        /\ x.to \in 0..MaxBlock
    BY <1>1, <1>2, ChunkFacts, TypeFacts DEF WatchInv, WatchTypeOK, Replay
  <2>2. Highest(ChunkLogs(x)) \in 0..MaxBlock
    BY <2>1, HighestType
  <2>3. lastBlock' \in {x.to, Highest(ChunkLogs(x)), lastBlock}
    BY DEF ChunkReply, ChunkLogs
  <2> QED BY <2>1, <2>2, <2>3
<1> QED BY <1>1, <1>3, <1>4

\* A chunk that came: every log of its blocks is known, and the replay goes on.
LEMMA ChunkHandled ==
  ASSUME WatchInv, NEW r \in Replays, ChunkReply(r, TRUE)
  PROVE  WatchInv' /\ Known \cup ChunkLogs(bf[r]) \subseteq Known'
<1> DEFINE x == bf[r]
           L == ChunkLogs(x)
           y == After(x, TRUE)
           b == ChunkEnd(x)
<1>1. /\ x.at = "logs" /\ bf' = [bf EXCEPT ![r] = y] /\ Handle(L)
      /\ UNCHANGED <<kind, wire, ipc, hub, fellBack, conn, acted, torn>>
      /\ lastBlock' \in 0..MaxBlock
  BY ChunkDoes
<1>2. /\ x \in Replay /\ b \in 1..MaxBlock /\ b <= x.to /\ x.a <= b /\ x.a >= 1
      /\ x.to <= Top /\ Top \in 0..MaxBlock /\ L \in SUBSET Logs
      /\ \A l \in Logs : l \in L <=> l[1] \in x.a..b /\ Mined(l)
      /\ y \in Replay
      /\ b = x.to => y.at = "idle"
      /\ b # x.to => /\ y.at = "logs" /\ y.a = b + 1
                     /\ y.to = x.to /\ y.base = x.base /\ (y.whole <=> x.whole)
  BY <1>1, ChunkFacts
<1> HIDE DEF L, y, b
<1>3. /\ BookOK' /\ NothingEarly' /\ Once' /\ Known \cup L \subseteq Known'
      /\ \A c \in Blocks : Kept(c)' => Kept(c)
  BY <1>1, <1>2, HandleKeeps
<1>4. WatchTypeOK'
  BY <1>1, <1>2, <1>3 DEF WatchInv, WatchTypeOK, BookOK, Top
<1>5. ChannelOK(wire, kind, Known)' /\ ChannelOK(ipc, kind, Known)'
  <2>1. ChannelOK(wire, kind, Known') /\ ChannelOK(ipc, kind, Known')
    BY <1>3, ChannelMono DEF WatchInv
  <2> QED BY <1>1, <2>1
<1>6. SplitsWait'
  <2> SUFFICES ASSUME NEW c \in 1..Top, Kept(c)'
               PROVE  SplitWaits(c)' /\ SplitOut(c)'
    BY <1>1 DEF SplitsWait, Top
  <2>1. c \in Blocks
    BY LogKinds DEF WatchInv
  <2>2. /\ <<c, 1>> \in Logs /\ <<c, 2>> \in Logs
        /\ <<c, 1>>[1] = c /\ <<c, 2>>[1] = c /\ <<c, 1>>[2] = 1 /\ <<c, 2>>[2] = 2
    BY <2>1, LegFacts
  <2>3. Kept(c) /\ <<c, 1>> \notin forgot' /\ <<c, 2>> \notin forgot' /\ kind[c] = "split"
    BY <1>3, <2>1 DEF Kept
  <2>4. SplitWaits(c) /\ SplitOut(c)
    BY <2>3 DEF WatchInv, SplitsWait
  <2>5. BookOK
    BY TypeFacts DEF WatchInv
  <2>6. \A l \in Logs \ forgot' :
           /\ l \in done' <=> l \in done \cup L
           /\ l[2] \in buf'[l[1]] <=> l[2] \in buf[l[1]] \/ l \in L \ done
    BY <1>1, <1>2, <2>5, HandleFacts
  <2>7. <<c, 1>> \in L <=> <<c, 2>> \in L
    <3>1. Mined(<<c, 1>>) /\ Mined(<<c, 2>>)
      BY <2>2, <2>3 DEF Mined, On, Top
    <3> QED BY <1>2, <2>2, <3>1
  <2>8. /\ <<c, 1>> \in done' <=> <<c, 1>> \in done \cup L
        /\ <<c, 2>> \in done' <=> <<c, 2>> \in done \cup L
        /\ 1 \in buf'[c] <=> 1 \in buf[c] \/ <<c, 1>> \in L \ done
        /\ 2 \in buf'[c] <=> 2 \in buf[c] \/ <<c, 2>> \in L \ done
    BY <2>2, <2>3, <2>6
  <2>9. /\ 1 \in buf[c] => <<c, 1>> \in done
        /\ 2 \in buf[c] => <<c, 2>> \in done
    BY <2>2, <2>3 DEF WatchInv, Once, Kept
  <2>10. SplitWaits(c)'
    BY <1>1, <2>4, <2>7, <2>8, <2>9 DEF SplitWaits
  <2>11. SplitOut(c)'
    BY <1>1, <2>4, <2>7, <2>8 DEF SplitOut
  <2> QED BY <2>10, <2>11
<1>7. bf \in [Replays -> Replay] /\ (\A p \in Replays : ReplayOK(bf[p])) /\ WatchTypeOK
  BY DEF WatchInv, WatchTypeOK
<1>8. Top' = Top /\ (\A c : LogsOf(c)' = LogsOf(c))
  BY <1>1 DEF Top, LogsOf
<1>9. ASSUME NEW p \in Replays
      PROVE  ReplayOK(bf[p])'
  <2>1. CASE p # r
    <3>1. bf'[p] = bf[p] /\ ReplayOK(bf[p]) /\ Known \subseteq Known'
      BY <1>1, <1>3, <1>7, <2>1
    <3> QED BY <1>2, <1>7, <1>8, <3>1, ReplayKeeps
  <2>2. CASE p = r
    <3>1. bf'[p] = y
      BY <1>1, <1>7, <2>2
    <3>2. CASE b = x.to
      BY <1>2, <3>1, <3>2 DEF ReplayOK
    <3>3. CASE b # x.to
      <4>1. /\ y.a >= 1 /\ y.a <= y.to /\ y.to <= Top'
        BY <1>2, <1>8, <3>3 DEF Replay
      <4>2. ASSUME y.whole, NEW c \in Passed(y)
            PROVE  LogsOf(c) \subseteq Known'
        <5>1. /\ c \in Blocks /\ c \in Nat /\ x.base < c /\ c < b + 1 /\ c >= x.to - MaxGap
              /\ x.whole
          BY <1>2, <3>3, <4>2, Caps DEF Passed, Blocks
        <5>2. CASE c < x.a
          <6>1. c \in Passed(x)
            BY <5>1, <5>2 DEF Passed
          <6>2. LogsOf(c) \subseteq Known
            BY <1>1, <1>7, <5>1, <6>1 DEF ReplayOK
          <6> QED BY <1>3, <6>2
        <5>3. CASE ~(c < x.a)
          <6>1. c \in x.a..b
            BY <1>2, <5>1, <5>3 DEF Replay
          <6>2. LogsOf(c) \subseteq L
            BY <6>1 DEF L, ChunkLogs, b
          <6> QED BY <1>3, <6>2
        <5> QED BY <5>2, <5>3
      <4> QED BY <1>8, <3>1, <4>1, <4>2 DEF ReplayOK, Passed
    <3> QED BY <3>2, <3>3
  <2> QED BY <2>1, <2>2
<1> QED BY <1>3, <1>4, <1>5, <1>6, <1>9 DEF WatchInv, L

LEMMA ChunkStep ==
  ASSUME WatchInv, NEW r \in Replays, NEW ok \in BOOLEAN, ChunkReply(r, ok)
  PROVE  WatchInv'
<1>1. CASE ok
  BY <1>1, ChunkHandled
<1>2. CASE ~ok
  <2> DEFINE x == bf[r]
             y == After(x, ok)
  <2>1. /\ x.at = "logs" /\ bf' = [bf EXCEPT ![r] = y]
        /\ UNCHANGED <<kind, wire, ipc, hub, fellBack, conn, done, buf, acted, torn, forgot>>
        /\ lastBlock' \in 0..MaxBlock
    BY <1>2, ChunkDoes
  <2>2. /\ x \in Replay /\ ChunkEnd(x) \in 1..MaxBlock /\ ChunkEnd(x) <= x.to /\ x.a >= 1
        /\ x.to <= Top /\ y \in Replay
        /\ ChunkEnd(x) = x.to => y.at = "idle"
        /\ ChunkEnd(x) # x.to => /\ y.a = ChunkEnd(x) + 1 /\ y.to = x.to /\ ~y.whole
    BY <1>2, <2>1, ChunkFacts
  <2> HIDE DEF y
  <2>3. ReplayOK(y)
    <3>1. x.to \in Int
      BY <2>2, Caps DEF Replay
    <3> QED BY <2>2, <3>1 DEF ReplayOK
  <2> QED BY <2>1, <2>2, <2>3, ReplayQuiet
<1> QED BY <1>1, <1>2

(***************************************************************************)
(* The theorems.                                                           *)
(***************************************************************************)
LEMMA WatchInvStep == ASSUME WatchInv, [WatchNext]_watchVars PROVE WatchInv'
<1>1. ASSUME NEW k \in {"none", "fill", "split"}, Mine(k) PROVE WatchInv'
  BY <1>1, MineStep
<1>2. CASE HubChanges
  BY <1>2, LinkStep DEF HubChanges, WatchInv, WatchTypeOK
<1>3. CASE Deliver
  BY <1>3, DeliverStep
<1>4. CASE HubDelivers
  BY <1>4, HubDeliversStep
<1>5. ASSUME NEW b \in Blocks, Flush(b) PROVE WatchInv'
  BY <1>5, FlushStep
<1>6. CASE Connect
  BY <1>6, LinkStep DEF Connect, WatchInv, WatchTypeOK
<1>7. ASSUME NEW c \in {"open", "unheard"}, OpenOk(c) PROVE WatchInv'
  BY <1>7, LinkStep DEF OpenOk, WatchInv, WatchTypeOK
<1>8. CASE OpenFails \/ Drop \/ Unconfirmed \/ RosterChanges \/ Watchdog
  BY <1>8, ClosesStep DEF OpenFails, Drop, Unconfirmed, RosterChanges, Watchdog
<1>9. CASE FallBack
  BY <1>9, LinkStep DEF FallBack, WatchInv, WatchTypeOK
<1>10. ASSUME NEW r \in Replays, SubAck(r) PROVE WatchInv'
  BY <1>10, SubAckStep
<1>11. ASSUME NEW r \in Replays, NEW ok \in BOOLEAN, HeightReply(r, ok) PROVE WatchInv'
  BY <1>11, HeightStep
<1>12. ASSUME NEW r \in Replays, NEW ok \in BOOLEAN, ChunkReply(r, ok) PROVE WatchInv'
  BY <1>12, ChunkStep
<1>13. CASE UNCHANGED watchVars
  <2>1. UNCHANGED <<kind, wire, ipc, book, bf, hist, hub, fellBack, conn>>
    BY <1>13 DEF watchVars, sock
  <2> QED BY <2>1, LinkStep DEF WatchInv, WatchTypeOK
<1> QED
  BY <1>1, <1>2, <1>3, <1>4, <1>5, <1>6, <1>7, <1>8, <1>9, <1>10, <1>11, <1>12, <1>13
  DEF WatchNext

LEMMA WatchInvHolds == WatchSpec => []WatchInv
<1>1. WatchInit => WatchInv
  BY WatchInvInit
<1>2. WatchInv /\ [WatchNext]_watchVars => WatchInv'
  BY WatchInvStep
<1> QED BY <1>1, <1>2, PTL DEF WatchSpec

\* The types hold, and no log that is still remembered was handed to onFill
\* twice, whichever of the hub, a socket and the replays brought it
\* (chainwatch.mjs: handle, flush).
THEOREM FillsHandledOnce == WatchSpec => []HandledOnce
<1>1. WatchInv => HandledOnce
  BY DEF WatchInv, Once, HandledOnce
<1> QED BY <1>1, WatchInvHolds, PTL

\* Neither leg of a split is traded unless a dying socket took one of them or
\* its logs were cleared from the memory (chainwatch.mjs: handle, flush, down).
THEOREM SplitsNotTraded == WatchSpec => []SplitsAreNotTraded
<1>1. ASSUME WatchInv PROVE SplitsAreNotTraded
  <2> SUFFICES ASSUME NEW b \in 1..Top, kind[b] = "split", b \notin torn,
                      LogsOf(b) \cap forgot = {}
               PROVE  acted[<<b, 1>>] + acted[<<b, 2>>] = 0
    BY DEF SplitsAreNotTraded
  <2>1. Kept(b)
    BY <1>1, LogKinds DEF WatchInv, Kept
  <2>2. acted[<<b, 1>>] = 0 /\ acted[<<b, 2>>] = 0
    BY <1>1, <2>1 DEF WatchInv, SplitsWait, SplitWaits
  <2> QED BY <2>2
<1> QED BY <1>1, WatchInvHolds, PTL

\* A replay that ends with no chunk refused has brought every log between the
\* block that was last seen when the subscription stood and the height it
\* asked for, as far back as it goes, unless that block moved before the
\* height was known (chainwatch.mjs: backfill).
THEOREM ReplayCovers == WatchSpec => ReplayCoversGap
<1> DEFINE Recovered ==
      \A r \in Replays :
        LET x == bf[r] IN
        x.at = "logs" /\ bf'[r] = Idle
          => \A b \in (x.base + 1)..x.to :
               b >= x.to - MaxGap => LogsOf(b) \subseteq done' \cup forgot'
<1>1. ASSUME WatchInv, [WatchNext]_watchVars PROVE Recovered
  <2> SUFFICES ASSUME NEW r \in Replays, bf[r].at = "logs", bf'[r] = Idle,
                      NEW b \in (bf[r].base + 1)..bf[r].to, b >= bf[r].to - MaxGap
               PROVE  LogsOf(b) \subseteq Known'
    BY DEF Known
  <2> DEFINE x == bf[r]
  <2>1. bf \in [Replays -> Replay] /\ x \in Replay /\ ReplayOK(x)
    BY <1>1 DEF WatchInv, WatchTypeOK
  <2>2. bf'[r] # bf[r]
    BY IdleFacts
  <2>3. PICK ok \in BOOLEAN : ChunkReply(r, ok)
    <3>1. CASE UNCHANGED bf
      BY <2>2, <3>1
    <3>2. ASSUME NEW p \in Replays, SubAck(p) \/ (\E ok \in BOOLEAN : HeightReply(p, ok))
          PROVE  FALSE
      <4>1. bf[p].at # "logs" /\ p # r
        BY <3>2 DEF SubAck, HeightReply
      <4>2. bf'[r] = bf[r]
        BY <2>1, <3>2, <4>1 DEF SubAck, HeightReply
      <4> QED BY <2>2, <4>2
    <3>3. ASSUME NEW p \in Replays, NEW ok \in BOOLEAN, ChunkReply(p, ok)
          PROVE  p = r
      <4>1. bf' = [bf EXCEPT ![p] = After(bf[p], ok)]
        BY <1>1, <3>3, ChunkDoes
      <4> QED BY <2>1, <2>2, <4>1
    <3>4. \/ UNCHANGED bf
          \/ \E p \in Replays : SubAck(p)
          \/ \E p \in Replays, ok \in BOOLEAN : HeightReply(p, ok) \/ ChunkReply(p, ok)
      BY <1>1 DEF WatchNext, watchVars, hist, book, sock, Mine, HubChanges, Deliver, HubDelivers,
            Flush, Connect, OpenOk, OpenFails, Drop, Unconfirmed, RosterChanges, Watchdog,
            Closes, FallBack
    <3> QED BY <3>1, <3>2, <3>3, <3>4
  <2>4. bf' = [bf EXCEPT ![r] = After(x, ok)] /\ After(x, ok) = Idle
    <3>1. bf' = [bf EXCEPT ![r] = After(x, ok)]
      BY <1>1, <2>3, ChunkDoes
    <3> QED BY <2>1, <3>1
  <2>5. ChunkEnd(x) = x.to
    <3>1. ChunkEnd(x) # x.to => After(x, ok).at = "logs"
      BY <1>1, ChunkFacts
    <3> QED BY <2>4, <3>1, IdleFacts
  <2>6. x.whole /\ ok
    <3>1. Idle = [Idle EXCEPT !.whole = x.whole /\ ok]
      BY <2>4, <2>5 DEF After
    <3>2. (x.whole /\ ok) \in BOOLEAN /\ x.whole \in BOOLEAN
      BY <2>1 DEF Replay
    <3> QED BY <3>1, <3>2 DEF Idle
  <2>7. Known \cup ChunkLogs(x) \subseteq Known'
    <3>1. ChunkReply(r, TRUE)
      BY <2>3, <2>6
    <3> QED BY <1>1, <3>1, ChunkHandled
  <2>8. /\ x.a >= 1 /\ x.a <= x.to /\ x.to <= Top /\ Top \in 0..MaxBlock
        /\ x.base \in 0..MaxBlock /\ x.a \in Nat /\ x.to \in Nat
        /\ \A c \in Passed(x) : LogsOf(c) \subseteq Known
    BY <1>1, <2>1, <2>6, TypeFacts, Caps DEF ReplayOK, WatchInv, Replay
  <2>9. b \in Blocks /\ x.base < b /\ b <= x.to
    BY <2>8, Caps DEF Blocks
  <2>10. CASE b < x.a
    <3>1. b \in Passed(x)
      BY <2>9, <2>10 DEF Passed
    <3> QED BY <2>7, <2>8, <3>1
  <2>11. CASE ~(b < x.a)
    <3>1. b \in x.a..ChunkEnd(x)
      BY <2>5, <2>8, <2>9, <2>11
    <3> QED BY <2>7, <3>1 DEF ChunkLogs
  <2> QED BY <2>10, <2>11
<1>2. [][Recovered]_watchVars <=> ReplayCoversGap
  BY DEF ReplayCoversGap
<1> QED BY <1>1, <1>2, WatchInvHolds, PTL DEF WatchSpec

-----------------------------------------------------------------------------
(***************************************************************************)
(* The marker of the execution authority.                                  *)
(***************************************************************************)
\* The marker covers every state reported as decided since it was lost.
Covered == \A s \in owned : s <= marker
Reading == tick.at # "idle" => tick.row \in Fill     \* the tick has read a row
AuthorityInv == TypeOK /\ Covered /\ Reading

\* A decision reports at most two states, the signal's and its copy-check's.
Pair(S) == \E a, b \in 0..Fills : S \subseteq {a, b}

LEMMA PairHasLargest ==
  ASSUME NEW S, Pair(S), S # {}
  PROVE  \E x \in S : \A y \in S : y <= x
<1>1. PICK a, b \in 0..Fills : S \subseteq {a, b}
  BY DEF Pair
<1>2. CASE a \in S /\ b \in S
  <2>1. CASE a <= b
    BY <1>1, <1>2, <2>1, AuthorityBounds
  <2>2. CASE b <= a
    BY <1>1, <1>2, <2>2, AuthorityBounds
  <2> QED BY <2>1, <2>2, <1>1, AuthorityBounds
<1>3. CASE a \notin S \/ b \notin S
  <2>1. \E x \in {a, b} : S = {x}
    BY <1>1, <1>3
  <2>2. PICK x \in 0..Fills : S = {x}
    BY <2>1
  <2>3. x <= x
    BY AuthorityBounds
  <2> QED BY <2>2, <2>3
<1> QED BY <1>2, <1>3

LEMMA PairIsTyped == ASSUME NEW S, Pair(S) PROVE S \subseteq 0..Fills
BY DEF Pair

LEMMA MarkKeeps ==
  ASSUME AuthorityInv, NEW S, Pair(S), Mark(S)
  PROVE  marker' \in 0..Fills /\ owned' \subseteq Fill /\ Covered'
<1> DEFINE s == IF S = {} THEN 0 ELSE CHOOSE x \in S : \A y \in S : y <= x
<1>1. S \subseteq 0..Fills
  BY PairIsTyped
<1>2. s \in 0..Fills /\ (\A y \in S : y <= s)
  <2>1. CASE S = {}
    BY <2>1, AuthorityBounds
  <2>2. CASE S # {}
    BY <2>2, <1>1, PairHasLargest
  <2> QED BY <2>1, <2>2
<1>3. marker' = (IF s = 0 THEN marker ELSE Ratchet(s)) /\ owned' = owned \cup (S \ {0})
  BY DEF Mark
<1> HIDE DEF s
<1>4. marker \in 0..Fills /\ owned \subseteq Fill /\ \A o \in owned : o <= marker
  BY DEF AuthorityInv, TypeOK, Covered
<1>5. marker' \in 0..Fills /\ marker' >= marker /\ marker' >= s
  BY <1>2, <1>3, <1>4, AuthorityBounds DEF Ratchet, Later
<1>6. owned' \subseteq Fill
  BY <1>1, <1>3, <1>4, AuthorityBounds DEF Fill
<1>7. \A o \in owned' : o <= marker'
  <2> SUFFICES ASSUME NEW o \in owned' PROVE o <= marker'
    OBVIOUS
  <2>1. CASE o \in owned
    BY <2>1, <1>4, <1>5, AuthorityBounds DEF Fill
  <2>2. CASE o \in S
    BY <2>2, <1>1, <1>2, <1>5, AuthorityBounds
  <2> QED BY <1>3, <2>1, <2>2
<1> QED BY <1>5, <1>6, <1>7 DEF Covered

LEMMA ReportedIsPair ==
  ASSUME AuthorityInv, NEW f \in Fill, NEW ok, NEW o
  PROVE  Pair(Reported(f, ok, o))
<1>1. f \in 0..Fills /\ oldRow[f] \in 0..Fills /\ 0 \in 0..Fills
  BY AuthorityBounds DEF Fill, AuthorityInv, TypeOK
<1> DEFINE a == IF ok \/ neutral[f] = "row" THEN f ELSE 0
<1>2. a \in 0..Fills /\ Reported(f, ok, o) \subseteq {a, oldRow[f]}
  BY <1>1 DEF Reported
<1> HIDE DEF a
<1> QED BY <1>1, <1>2 DEF Pair

LEMMA AuthorityInit == Init => AuthorityInv
<1> SUFFICES ASSUME Init PROVE AuthorityInv
  OBVIOUS
<1>1. /\ row \in 0..Fills /\ marker \in 0..Fills /\ oldRow \in [Fill -> 0..Fills]
      /\ fails \in 0..StandAfter /\ changes \in 0..MaxChanges
      /\ tick \in [at : {"idle", "read", "buys"}, row : 0..Fills]
  BY AuthorityBounds DEF Init
<1>2. {canary, standDown} \subseteq BOOLEAN /\ owned = {} /\ polled = {}
  BY DEF Init
<1>3. /\ pc \in [Fill -> {"none", "stagger", "wait", "old", "plain", "decided",
                         "missed", "gaveup", "lost"}]
      /\ old \in [Fill -> {"none", "asked", "wrote", "ok", "no", "failed"}]
      /\ neutral \in [Fill -> {"none", "pair", "row", "bare"}]
  BY DEF Init
<1>4. Reading
  BY DEF Init, Reading
<1> QED BY <1>1, <1>2, <1>3, <1>4 DEF AuthorityInv, TypeOK, Covered

\* What a handler of one fill leaves alone.
Untouched == /\ row' = row /\ canary' = canary /\ changes' = changes /\ tick' = tick
             /\ polled' = polled

\* What the fills' handlers keep, fill by fill.
PerFillTyped ==
  /\ pc \in [Fill -> {"none", "stagger", "wait", "old", "plain", "decided", "missed", "gaveup", "lost"}]
  /\ old \in [Fill -> {"none", "asked", "wrote", "ok", "no", "failed"}]
  /\ oldRow \in [Fill -> 0..Fills]
  /\ neutral \in [Fill -> {"none", "pair", "row", "bare"}]

LEMMA EndsKeeps ==
  ASSUME AuthorityInv, NEW f \in Fill,
         NEW p \in {"none", "stagger", "wait", "old", "plain", "decided", "missed", "gaveup", "lost"},
         NEW o \in {"none", "asked", "wrote", "ok", "no", "failed"}, Ends(f, p, o)
  PROVE  PerFillTyped'
<1>1. 0 \in 0..Fills
  BY AuthorityBounds
<1> QED BY <1>1 DEF Ends, PerFillTyped, AuthorityInv, TypeOK

LEMMA OldResultKeeps ==
  ASSUME AuthorityInv, NEW f \in Fill, NEW a \in Answers, OldResult(f, a)
  PROVE  /\ PerFillTyped' /\ Untouched
         /\ marker' \in 0..Fills /\ owned' \subseteq Fill /\ Covered'
<1> DEFINE S == CASE pc[f] = "old"     -> Reported(f, a = "ok", a)
                  [] pc[f] = "decided" -> IF a = "ok" THEN {oldRow[f]} ELSE {}
                  [] OTHER             -> {}
<1>1. Pair(S)
  <2>1. oldRow[f] \in 0..Fills /\ 0 \in 0..Fills
    BY AuthorityBounds DEF AuthorityInv, TypeOK
  <2>2. Pair({oldRow[f]}) /\ Pair({})
    BY <2>1 DEF Pair
  <2>3. Pair(Reported(f, a = "ok", a))
    BY ReportedIsPair
  <2>4. S \in {Reported(f, a = "ok", a), {oldRow[f]}, {}}
    OBVIOUS
  <2> QED BY <2>2, <2>3, <2>4
<1>2. Mark(S)
  BY DEF OldResult
<1> HIDE DEF S
<1>3. marker' \in 0..Fills /\ owned' \subseteq Fill /\ Covered'
  BY <1>1, <1>2, MarkKeeps
<1>4. PerFillTyped'
  <2>1. CASE pc[f] = "wait"
    BY <2>1 DEF OldResult, PerFillTyped, AuthorityInv, TypeOK, Answers
  <2>2. CASE pc[f] # "wait"
    <3> DEFINE p == IF pc[f] \notin {"old", "plain"} THEN pc[f]
                    ELSE IF a = "failed" THEN "gaveup" ELSE "decided"
    <3>1. p \in {"none", "stagger", "wait", "old", "plain", "decided", "missed", "gaveup", "lost"}
      BY DEF AuthorityInv, TypeOK
    <3>2. Ends(f, p, a)
      BY <2>2 DEF OldResult
    <3> HIDE DEF p
    <3> QED BY <3>1, <3>2, EndsKeeps DEF Answers
  <2> QED BY <2>1, <2>2
<1> QED BY <1>3, <1>4 DEF OldResult, env, Untouched

LEMMA HandlesKeeps ==
  ASSUME AuthorityInv, NEW f \in Fill, Handles(f)
  PROVE  AuthorityInv' /\ tick' = tick
<1> USE DEF AuthorityInv, Reading
<1>1. CASE \E usable \in BOOLEAN : Stagger(f, usable)
  BY <1>1 DEF Stagger, TypeOK, Covered, env, brk
<1>2. CASE \E ok \in BOOLEAN : StageFour(f, ok)
  <2>1. PICK ok \in BOOLEAN : StageFour(f, ok)
    BY <1>2
  <2>2. marker' \in 0..Fills /\ owned' \subseteq Fill /\ Covered'
    BY <2>1, ReportedIsPair, MarkKeeps DEF StageFour
  <2>3. PerFillTyped'
    <3>1. old[f] \in {"none", "asked", "wrote", "ok", "no", "failed"}
      BY DEF TypeOK
    <3> QED BY <2>1, <3>1, EndsKeeps DEF StageFour
  <2> QED BY <2>1, <2>2, <2>3 DEF StageFour, TypeOK, PerFillTyped, env, brk
<1>3. CASE Timeout(f)
  <2>1. marker' \in 0..Fills /\ owned' \subseteq Fill /\ Covered'
    <3>1. CASE Old(f)
      BY <1>3, <3>1, ReportedIsPair, MarkKeeps DEF Timeout
    <3>2. CASE ~Old(f)
      BY <1>3, <3>2 DEF Timeout, TypeOK, Covered
    <3> QED BY <3>1, <3>2
  <2>2. PerFillTyped'
    <3>1. CASE Old(f)
      <4>1. old[f] \in {"none", "asked", "wrote", "ok", "no", "failed"}
        BY DEF TypeOK
      <4> QED BY <1>3, <3>1, <4>1, EndsKeeps DEF Timeout
    <3>2. CASE ~Old(f)
      BY <1>3, <3>2 DEF Timeout, TypeOK, PerFillTyped
    <3> QED BY <3>1, <3>2
  <2> QED BY <1>3, <2>1, <2>2 DEF Timeout, TypeOK, PerFillTyped, env, brk
<1>4. CASE OldWrites(f)
  <2>1. Later(row, f) \in 0..Fills
    BY AuthorityBounds DEF Later, Fill, TypeOK
  <2> QED BY <1>4, <2>1 DEF OldWrites, TypeOK, Covered, env, brk
<1>5. CASE \E a \in {"ok", "no"} : OldAnswers(f, a)
  BY <1>5, OldResultKeeps, AuthorityBounds DEF OldAnswers, TypeOK, PerFillTyped, Untouched, Answers
<1>6. CASE OldFails(f)
  <2>1. fails' \in 0..StandAfter /\ standDown' \in BOOLEAN
    BY <1>6, AuthorityBounds DEF OldFails, TypeOK
  <2> QED BY <1>6, <2>1, OldResultKeeps DEF OldFails, TypeOK, PerFillTyped, Untouched, Answers
<1> QED BY <1>1, <1>2, <1>3, <1>4, <1>5, <1>6 DEF Handles

\* The polled tick's step that matters: to the orders of its row.
Defers == tick.at = "read" /\ tick'.at = "buys" /\ canary => \A s \in owned : s < tick.row

LEMMA TickKeeps == ASSUME AuthorityInv, Tick PROVE AuthorityInv' /\ Defers
<1> USE DEF AuthorityInv, Reading
<1>1. CASE TickReads
  BY <1>1, AuthorityBounds DEF TickReads, TypeOK, Covered, fill, env, brk, Defers, Fill
<1>2. CASE TickVerdict
  <2>1. Defers
    <3> SUFFICES ASSUME tick'.at = "buys", canary, NEW s \in owned PROVE s < tick.row
      BY DEF Defers
    <3>1. ~Suppressed(tick.row)
      BY <1>2 DEF TickVerdict, TypeOK
    <3>2. s \in Nat /\ marker \in Nat /\ tick.row \in Nat
      BY AuthorityBounds DEF TypeOK, Fill
    <3> QED BY <3>1, <3>2 DEF Suppressed, Covered
  <2> QED BY <1>2, <2>1 DEF TickVerdict, TypeOK, Covered, fill, env, brk
<1>3. CASE TickBuys
  <2>1. tick.row \in Fill
    BY <1>3 DEF TickBuys
  <2> QED BY <1>3, <2>1 DEF TickBuys, TypeOK, Covered, fill, env, brk, Defers
<1> QED BY <1>1, <1>2, <1>3 DEF Tick

LEMMA AuthorityStep == ASSUME AuthorityInv, [Next]_vars PROVE AuthorityInv' /\ Defers
<1>1. CASE \E f \in Fill : Handles(f)
  BY <1>1, HandlesKeeps DEF Defers
<1>2. CASE \E f \in Fill, heard \in BOOLEAN : Lands(f, heard)
  BY <1>2 DEF Lands, AuthorityInv, TypeOK, Covered, Reading, env, brk, Defers
<1>3. CASE \E f \in Fill, n \in {"row", "bare"} : Neutral(f, n)
  BY <1>3 DEF Neutral, AuthorityInv, TypeOK, Covered, Reading, env, brk, Defers
<1>4. CASE StandUp
  BY <1>4 DEF StandUp, AuthorityInv, TypeOK, Covered, Reading, fill, env, Defers
<1>5. CASE Cron
  BY <1>5, AuthorityBounds DEF Cron, AuthorityInv, TypeOK, Covered, Reading, fill, env, brk, Fill, Defers
<1>6. CASE Tick
  BY <1>6, TickKeeps
<1>7. CASE CanaryList
  BY <1>7, AuthorityBounds DEF CanaryList, Change, AuthorityInv, TypeOK, Covered, Reading, fill, brk, Defers
<1>8. CASE AgesOut
  BY <1>8, AuthorityBounds DEF AgesOut, AuthorityInv, TypeOK, Covered, Reading, fill, env, brk, Defers
<1>9. CASE Restart
  <2>1. /\ marker' \in 0..Fills /\ owned' = {} /\ fails' \in 0..StandAfter
        /\ {canary', standDown'} \subseteq BOOLEAN
        /\ tick' \in [at : {"idle", "read", "buys"}, row : 0..Fills] /\ tick'.at = "idle"
    <3>1. 0 \in 0..Fills /\ 0 \in 0..StandAfter
      BY AuthorityBounds
    <3>2. tick' = [at |-> "idle", row |-> 0] /\ marker' = 0 /\ owned' = {} /\ fails' = 0
      BY <1>9 DEF Restart
    <3>3. {canary', standDown'} \subseteq BOOLEAN
      BY <1>9 DEF Restart, AuthorityInv, TypeOK
    <3> QED BY <3>1, <3>2, <3>3
  <2>2. changes' \in 0..MaxChanges
    BY <1>9, AuthorityBounds DEF Restart, Change, AuthorityInv, TypeOK
  <2>3. /\ pc' \in [Fill -> {"none", "stagger", "wait", "old", "plain", "decided",
                           "missed", "gaveup", "lost"}]
        /\ old' \in [Fill -> {"none", "asked", "wrote", "ok", "no", "failed"}]
        /\ neutral' \in [Fill -> {"none", "pair", "row", "bare"}]
    BY <1>9 DEF Restart, AuthorityInv, TypeOK
  <2>4. oldRow' \in [Fill -> 0..Fills] /\ row' = row /\ polled' = polled
    BY <1>9, AuthorityBounds DEF Restart
  <2> QED BY <2>1, <2>2, <2>3, <2>4 DEF AuthorityInv, TypeOK, Covered, Reading, Defers
<1>10. CASE UNCHANGED vars
  BY <1>10 DEF vars, AuthorityInv, TypeOK, Covered, Reading, fill, env, brk, Defers
<1> QED BY <1>1, <1>2, <1>3, <1>4, <1>5, <1>6, <1>7, <1>8, <1>9, <1>10 DEF Next

\* The polled tick goes on only with a row newer than every state the fast
\* path reported as decided (s4-authority.mjs), whatever the order in which
\* the answers of Stage 4 and of the copy-checks came.
THEOREM TickDefers == Spec => PolledDefers
<1>1. AuthorityInv => TypeOK
  BY DEF AuthorityInv
<1>2. AuthorityInv /\ [Next]_vars => AuthorityInv'
  BY AuthorityStep
<1>3. AuthorityInv /\ [Next]_vars
        => [tick.at = "read" /\ tick'.at = "buys" /\ canary
              => \A s \in owned : s < tick.row]_vars
  BY AuthorityStep DEF Defers
<1> QED BY <1>1, <1>2, <1>3, AuthorityInit, PTL DEF Spec, PolledDefers
=============================================================================
