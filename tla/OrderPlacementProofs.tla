------------------------ MODULE OrderPlacementProofs ------------------------
(***************************************************************************)
(* Theorems about OrderPlacement, for any set of decision loops and any    *)
(* bounds: type correctness, then the inductive invariant IInv and the     *)
(* safety properties it contains.                                          *)
(***************************************************************************)
EXTENDS OrderPlacement, FiniteSetTheorems, TLAPS

CloudTyped == cloud \in [Orders -> {"none", "open", "zero", "filled"}]
LedgerTyped == ledger \in [usd: Nat, buys: Nat]
ContextsTyped == ctx \in [Callers -> Context]
PostsTyped == post \in [Callers -> PostState]
StepsTyped == pc \in [Callers -> Steps]
VenueTyped == venue \in [Orders -> VenueState]

-----------------------------------------------------------------------------
(***************************************************************************)
(* Type correctness: one lemma per building block of the actions.          *)
(***************************************************************************)
\* Trades attributed to one order are at most its size.
LEMMA LegsBounded ==
  ASSUME NEW S \in SUBSET Trades
  PROVE  Cardinality(S) \in 0 .. Size
<1>1. IsFiniteSet(1 .. Size) /\ Cardinality(1 .. Size) = Size
  BY FS_Interval, BoundsAreNatural
<1>2. IsFiniteSet(S) /\ Cardinality(S) <= Cardinality(1 .. Size)
  BY <1>1, FS_Subset DEF Trades
<1>3. Cardinality(S) \in Nat
  BY <1>2, FS_CardinalityType
<1> QED BY <1>1, <1>2, <1>3

LEMMA NonEmptyPart ==
  ASSUME NEW n \in Nat, NEW S \in SUBSET (1 .. n), S # {}
  PROVE  Cardinality(S) \in 1 .. n
<1>1. IsFiniteSet(1 .. n) /\ Cardinality(1 .. n) = n
  BY FS_Interval
<1>2. IsFiniteSet(S) /\ Cardinality(S) <= n
  BY <1>1, FS_Subset
<1>3. Cardinality(S) \in Nat /\ Cardinality(S) # 0
  BY <1>2, FS_CardinalityType, FS_EmptySet
<1> QED BY <1>2, <1>3

LEMMA BlanksTyped ==
  /\ NoContext \in Context /\ NoPost \in PostState /\ NoLock \in LockState
  /\ [side |-> "none", size |-> 0, decision |-> None] \in OrderState
  /\ [stat |-> "none", filled |-> 0, visible |-> {}] \in VenueState
  /\ [verdict |-> "none", shares |-> 0] \in Verdict
  /\ None \in OrderOrNone /\ Orders \subseteq OrderOrNone
<1> USE BoundsAreNatural DEF None, OrderOrNone
<1>1. NoContext \in Context BY DEF NoContext, Context
<1>2. NoPost \in PostState BY DEF NoPost, PostState
<1>3. NoLock \in LockState BY DEF NoLock, LockState
<1>4. [side |-> "none", size |-> 0, decision |-> None] \in OrderState
  BY DEF OrderState
<1>5. [stat |-> "none", filled |-> 0, visible |-> {}] \in VenueState
  BY DEF VenueState
<1>6. [verdict |-> "none", shares |-> 0] \in Verdict
  BY DEF Verdict
<1> QED BY <1>1, <1>2, <1>3, <1>4, <1>5, <1>6 DEF Orders

LEMMA ClampedContext ==
  ASSUME ContextsTyped, NEW c \in Callers, NEW n \in 0 .. MaxReposts,
         NEW z \in 0 .. Size,
         ctx' = [ctx EXCEPT ![c].reposts = n, ![c].size = z]
  PROVE  ContextsTyped'
<1>1. ctx[c] \in Context
  BY DEF ContextsTyped
<1>2. [ctx[c] EXCEPT !.reposts = n, !.size = z] \in Context
  BY <1>1 DEF Context
<1>3. ctx' = [ctx EXCEPT ![c] = [ctx[c] EXCEPT !.reposts = n, !.size = z]]
  BY DEF ContextsTyped
<1> QED BY <1>2, <1>3 DEF ContextsTyped

LEMMA SignedContext ==
  ASSUME ContextsTyped, NEW c \in Callers, NEW o \in OrderOrNone,
         NEW d \in OrderOrNone,
         ctx' = [ctx EXCEPT ![c].row = o, ![c].decision = d]
  PROVE  ContextsTyped'
<1>1. ctx[c] \in Context
  BY DEF ContextsTyped
<1>2. [ctx[c] EXCEPT !.row = o, !.decision = d] \in Context
  BY <1>1 DEF Context
<1>3. ctx' = [ctx EXCEPT ![c] = [ctx[c] EXCEPT !.row = o, !.decision = d]]
  BY DEF ContextsTyped
<1> QED BY <1>2, <1>3 DEF ContextsTyped

LEMMA AnsweredVenue ==
  ASSUME VenueTyped, NEW o, NEW n \in 0 .. Size,
         NEW s \in {"rejected", "killed", "delayed", "matching", "closed"},
         venue' = [venue EXCEPT ![o].stat = s, ![o].filled = n]
  PROVE  VenueTyped'
BY DEF VenueTyped, VenueState

LEMMA ToTyped ==
  ASSUME StepsTyped, NEW c \in Callers, NEW s \in Steps, To(c, s)
  PROVE  StepsTyped'
BY DEF StepsTyped, To

LEMMA FinishTyped ==
  ASSUME LoopsTyped, NEW c \in Callers, Finish(c)
  PROVE  LoopsTyped'
BY BlanksTyped DEF LoopsTyped, Finish, To, Steps

LEMMA CloseOutTyped ==
  ASSUME CloudTyped, NEW c \in Callers, NEW x \in {"zero", "filled"}, CloseOut(c, x)
  PROVE  CloudTyped'
BY DEF CloudTyped, CloseOut

LEMMA AfterFailureTyped ==
  ASSUME LoopsTyped, CloudTyped, NEW c \in Callers, NEW b \in BOOLEAN,
         AfterFailure(c, b)
  PROVE  LoopsTyped' /\ CloudTyped'
<1>1. CASE ctx[c].side = "SELL" /\ ctx[c].attempt < MaxAttempts
  <2>1. ContextsTyped'
    BY <1>1, BoundsAreNatural DEF AfterFailure, ContextsTyped, LoopsTyped, Context
  <2>2. PostsTyped'
    BY <1>1, BlanksTyped DEF AfterFailure, PostsTyped, LoopsTyped
  <2>3. StepsTyped'
    BY <1>1, ToTyped DEF AfterFailure, LoopsTyped, StepsTyped, Steps
  <2> QED BY <1>1, <2>1, <2>2, <2>3
           DEF AfterFailure, LoopsTyped, CloudTyped, ContextsTyped, PostsTyped, StepsTyped
<1>2. CASE ~(ctx[c].side = "SELL" /\ ctx[c].attempt < MaxAttempts)
  BY <1>2, FinishTyped, CloseOutTyped DEF AfterFailure, CloudTyped
<1> QED BY <1>1, <1>2

LEMMA BookTyped ==
  ASSUME booked \in [Orders -> Verdict], NEW o, NEW n \in 0 .. Size,
         NEW v \in {"filled", "killed", "ambiguous", "unknown"}, Book(o, v, n)
  PROVE  booked' \in [Orders -> Verdict]
<1>1. [verdict |-> v, shares |-> n] \in Verdict
  BY DEF Verdict
<1> QED BY <1>1 DEF Book

LEMMA RecordBuyTyped ==
  ASSUME LedgerTyped, NEW c \in Callers, NEW n \in Nat, RecordBuy(c, n)
  PROVE  LedgerTyped'
BY DEF LedgerTyped, RecordBuy

LEMMA FilledTyped ==
  ASSUME LoopsTyped, RecordsTyped, NEW c \in Callers, NEW n \in 0 .. Size,
         Filled(c, n)
  PROVE  LoopsTyped' /\ CloudTyped' /\ booked' \in [Orders -> Verdict] /\ LedgerTyped'
<1>1. LedgerTyped /\ CloudTyped /\ booked \in [Orders -> Verdict]
  BY DEF RecordsTyped, LedgerTyped, CloudTyped
<1>2. n \in Nat
  BY BoundsAreNatural
<1>3. LedgerTyped'
  BY <1>1, <1>2, RecordBuyTyped DEF Filled
<1>4. booked' \in [Orders -> Verdict]
  BY <1>1, BookTyped DEF Filled
<1>5. LoopsTyped' /\ CloudTyped'
  BY <1>1, FinishTyped, CloseOutTyped DEF Filled
<1> QED BY <1>3, <1>4, <1>5

LEMMA UnlockTyped ==
  ASSUME locks \in [{"BUY", "SELL"} -> LockState], NEW c \in Callers, Unlock(c)
  PROVE  locks' \in [{"BUY", "SELL"} -> LockState]
BY BlanksTyped DEF Unlock

LEMMA PlaceTyped ==
  ASSUME TypeOK, NEW c \in Callers, Place(c)
  PROVE  TypeOK'
<1>0. LoopsTyped /\ CloudTyped /\ ContextsTyped /\ StepsTyped
  BY DEF TypeOK, LoopsTyped, RecordsTyped, CloudTyped, ContextsTyped, StepsTyped
<1>1. CASE PlaceLocked(c)
  BY <1>0, <1>1, FinishTyped, CloseOutTyped
     DEF PlaceLocked, TypeOK, RecordsTyped, CloudTyped
<1>2. CASE PlaceRefused(c)
  BY <1>0, <1>2, AfterFailureTyped
     DEF PlaceRefused, TypeOK, RecordsTyped, CloudTyped
<1>3. CASE PlaceAccepted(c)
  <2> DEFINE z == IF ctx[c].side = "BUY" /\ Room < Size THEN Room ELSE Size
  <2>1. Room \in Nat
    BY BoundsAreNatural DEF TypeOK, RecordsTyped, Room
  <2>2. z \in 0 .. Size
    BY <2>1, BoundsAreNatural
  <2>3. PICK n \in 0 .. MaxReposts :
           ctx' = [ctx EXCEPT ![c].reposts = n, ![c].size = z]
    BY <1>3 DEF PlaceAccepted
  <2>4. ContextsTyped'
    <3> HIDE DEF z
    <3> QED BY <1>0, <2>2, <2>3, ClampedContext
  <2>5. StepsTyped'
    BY <1>0, <1>3, ToTyped DEF PlaceAccepted, Steps
  <2> QED BY <1>3, <2>4, <2>5
           DEF PlaceAccepted, TypeOK, LoopsTyped, RecordsTyped, ContextsTyped, StepsTyped
<1>4. CASE SellHeld(c)
  BY <1>0, <1>4, FinishTyped DEF SellHeld, TypeOK, RecordsTyped
<1> QED BY <1>1, <1>2, <1>3, <1>4 DEF Place

LEMMA SignTyped ==
  ASSUME TypeOK, NEW c \in Callers, Sign(c)
  PROVE  TypeOK'
<1>0. LoopsTyped /\ CloudTyped /\ ContextsTyped /\ StepsTyped /\ PostsTyped
  BY DEF TypeOK, LoopsTyped, RecordsTyped, CloudTyped, ContextsTyped, StepsTyped,
         PostsTyped
<1>1. CASE SignGranted(c)
  <2>1. PICK o \in Orders :
          LET d == IF ctx[c].decision = None THEN o ELSE ctx[c].decision
          IN /\ Fresh(o)
             /\ To(c, "post")
             /\ ctx' = [ctx EXCEPT ![c].row = o, ![c].decision = d]
             /\ post' = [post EXCEPT ![c].cur = o]
             /\ order' = [order EXCEPT ![o] = [side |-> ctx[c].side,
                                      size |-> ctx[c].size, decision |-> d]]
             /\ cloud' = [cloud EXCEPT ![o] = "open"]
    BY <1>1 DEF SignGranted
  <2> DEFINE d == IF ctx[c].decision = None THEN o ELSE ctx[c].decision
  <2>2. d \in OrderOrNone /\ o \in OrderOrNone
    BY <1>0, BlanksTyped DEF ContextsTyped, Context
  <2>3. ContextsTyped'
    <3>1. ctx' = [ctx EXCEPT ![c].row = o, ![c].decision = d]
      BY <2>1
    <3> HIDE DEF d
    <3> QED BY <1>0, <2>2, <3>1, SignedContext
  <2>4. PostsTyped'
    BY <1>0, <2>1, <2>2 DEF PostsTyped, PostState
  <2>5. [side |-> ctx[c].side, size |-> ctx[c].size, decision |-> d] \in OrderState
    BY <1>0, <2>2 DEF ContextsTyped, Context, OrderState
  <2>6. order' \in [Orders -> OrderState] /\ CloudTyped'
    <3>1. order' = [order EXCEPT ![o] = [side |-> ctx[c].side,
                                      size |-> ctx[c].size, decision |-> d]]
      BY <2>1
    <3>2. order' \in [Orders -> OrderState]
      BY <2>5, <3>1 DEF TypeOK, RecordsTyped
    <3> QED BY <1>0, <2>1, <3>2 DEF CloudTyped
  <2>7. StepsTyped'
    BY <1>0, <2>1, ToTyped DEF Steps
  <2> QED BY <1>1, <2>3, <2>4, <2>6, <2>7
           DEF SignGranted, TypeOK, LoopsTyped, RecordsTyped, CloudTyped, ContextsTyped,
               PostsTyped, StepsTyped
<1>2. CASE SignRefused(c)
  BY <1>0, <1>2, FinishTyped, CloseOutTyped
     DEF SignRefused, TypeOK, RecordsTyped, CloudTyped
<1>3. CASE SignFailed(c)
  BY <1>0, <1>3, AfterFailureTyped
     DEF SignFailed, TypeOK, RecordsTyped, CloudTyped
<1> QED BY <1>1, <1>2, <1>3 DEF Sign

LEMMA AnswerTyped ==
  ASSUME TypeOK, NEW c \in Callers, NEW n \in 0 .. Size,
         NEW s \in {"rejected", "killed", "delayed", "closed"},
         NEW A \in SUBSET {"rejected", "zero", "fill", "unreadable", "delayed", "noid"},
         Answer(c, post[c].cur, s, n, A)
  PROVE  TypeOK'
<1>0. VenueTyped /\ StepsTyped /\ PostsTyped
  BY DEF TypeOK, LoopsTyped, VenueTyped, StepsTyped, PostsTyped
<1>1. VenueTyped'
  BY <1>0, AnsweredVenue DEF Answer
<1>2. PICK a \in A \cup {"lost"} : post' = [post EXCEPT ![c].reply = a]
  BY DEF Answer
<1>3. PostsTyped'
  BY <1>0, <1>2 DEF PostsTyped, PostState
<1>4. StepsTyped'
  BY <1>0, ToTyped DEF Answer, Steps
<1> QED BY <1>1, <1>3, <1>4
        DEF Answer, TypeOK, LoopsTyped, RecordsTyped, VenueTyped, StepsTyped, PostsTyped

LEMMA PostTyped ==
  ASSUME TypeOK, NEW c \in Callers, Post(c)
  PROVE  TypeOK'
<1>0. StepsTyped /\ PostsTyped /\ 0 \in 0 .. Size
  BY BoundsAreNatural DEF TypeOK, LoopsTyped, StepsTyped, PostsTyped
<1>1. CASE PostLost(c)
  <2>1. PostsTyped'
    BY <1>0, <1>1 DEF PostLost, PostsTyped, PostState
  <2>2. StepsTyped'
    BY <1>0, <1>1, ToTyped DEF PostLost, Steps
  <2> QED BY <1>1, <2>1, <2>2
          DEF PostLost, TypeOK, LoopsTyped, RecordsTyped, StepsTyped, PostsTyped
<1>2. CASE PostRejected(c)
  BY <1>0, <1>2, AnswerTyped DEF PostRejected
<1>3. CASE PostKilled(c)
  BY <1>0, <1>3, AnswerTyped DEF PostKilled
<1>4. CASE PostMatched(c)
  BY <1>4, AnswerTyped, BoundsAreNatural DEF PostMatched, Trades
<1>5. CASE PostDelayed(c)
  BY <1>0, <1>5, AnswerTyped DEF PostDelayed
<1> QED BY <1>1, <1>2, <1>3, <1>4, <1>5 DEF Post

\* A loop past its signature has an order in hand: what the type of the
\* venue's answers about it rests on.
InHand == \A c \in Callers : pc[c] \in InFlight => post[c].cur \in Orders

LEMMA InHandFilled ==
  ASSUME TypeOK, InHand, NEW c \in Callers, pc[c] \in InFlight
  PROVE  /\ post[c].cur \in Orders
         /\ venue[post[c].cur] \in VenueState
         /\ venue[post[c].cur].filled \in 0 .. Size
BY DEF TypeOK, InHand, VenueState

LEMMA ReplyTyped ==
  ASSUME TypeOK, InHand, NEW c \in Callers, Reply(c)
  PROVE  TypeOK'
<1>0. /\ LoopsTyped /\ RecordsTyped /\ CloudTyped /\ ContextsTyped /\ StepsTyped
      /\ PostsTyped /\ booked \in [Orders -> Verdict] /\ 0 \in 0 .. Size
      /\ locks \in [{"BUY", "SELL"} -> LockState]
  BY BoundsAreNatural
     DEF TypeOK, LoopsTyped, RecordsTyped, CloudTyped, ContextsTyped, StepsTyped, PostsTyped
<1>1. CASE ReplyLost(c)
  BY <1>0, <1>1, AfterFailureTyped DEF ReplyLost, TypeOK, RecordsTyped, CloudTyped
<1>2. CASE ReplyRejectedRepost(c)
  <2>1. ContextsTyped'
    BY <1>0, <1>2, BoundsAreNatural DEF ReplyRejectedRepost, ContextsTyped, Context
  <2>2. PostsTyped'
    BY <1>0, <1>2, BlanksTyped DEF ReplyRejectedRepost, PostsTyped
  <2>3. StepsTyped'
    BY <1>0, <1>2, ToTyped DEF ReplyRejectedRepost, Steps
  <2> QED BY <1>2, <2>1, <2>2, <2>3
          DEF ReplyRejectedRepost, TypeOK, LoopsTyped, RecordsTyped, StepsTyped,
              PostsTyped, ContextsTyped
<1>3. CASE ReplyRejected(c)
  BY <1>0, <1>3, AfterFailureTyped DEF ReplyRejected, TypeOK, RecordsTyped, CloudTyped
<1>4. CASE ReplyZero(c)
  BY <1>0, <1>4, AfterFailureTyped, BookTyped
     DEF ReplyZero, TypeOK, RecordsTyped, CloudTyped
<1>5. CASE ReplyFill(c)
  <2>1. venue[post[c].cur].filled \in 0 .. Size
    BY <1>5, InHandFilled DEF ReplyFill, InFlight
  <2> QED BY <1>0, <1>5, <2>1, FilledTyped
          DEF ReplyFill, TypeOK, RecordsTyped, CloudTyped, LedgerTyped
<1>6. CASE ReplyUnreadable(c)
  <2>1. ctx[c].size \in 0 .. Size
    BY <1>0 DEF ContextsTyped, Context
  <2>2. booked' \in [Orders -> Verdict]
    BY <1>0, <1>6, <2>1, BookTyped DEF ReplyUnreadable
  <2> QED BY <1>0, <1>6, <2>2, FinishTyped, CloseOutTyped
          DEF ReplyUnreadable, TypeOK, RecordsTyped, CloudTyped
<1>7. CASE ReplyDelayed(c)
  <2>1. PostsTyped'
    BY <1>0, <1>7 DEF ReplyDelayed, PostsTyped, PostState
  <2>2. StepsTyped'
    BY <1>0, <1>7, ToTyped DEF ReplyDelayed, Steps
  <2>3. [order |-> post[c].cur, held |-> FALSE] \in LockState
    BY <1>0 DEF PostsTyped, PostState, LockState
  <2> QED BY <1>0, <1>7, <2>1, <2>2, <2>3
          DEF ReplyDelayed, TypeOK, LoopsTyped, RecordsTyped, StepsTyped, PostsTyped
<1>8. CASE ReplyNoId(c)
  BY <1>0, <1>8, AfterFailureTyped, BookTyped
     DEF ReplyNoId, TypeOK, RecordsTyped, CloudTyped
<1> QED BY <1>1, <1>2, <1>3, <1>4, <1>5, <1>6, <1>7, <1>8 DEF Reply

LEMMA SettleTyped ==
  ASSUME TypeOK, InHand, NEW c \in Callers, Settle(c)
  PROVE  TypeOK'
<1>0. /\ LoopsTyped /\ RecordsTyped /\ CloudTyped /\ StepsTyped
      /\ PostsTyped /\ booked \in [Orders -> Verdict] /\ 0 \in 0 .. Size
      /\ locks \in [{"BUY", "SELL"} -> LockState]
  BY BoundsAreNatural
     DEF TypeOK, LoopsTyped, RecordsTyped, CloudTyped, StepsTyped, PostsTyped
<1>a. pc[c] \in InFlight
  BY DEF Settle, PollTrades, ConfirmTrades, PollRecordFilled, PollRecordKilled,
         PollRecordLive, DeadlinePartial, DeadlineAmbiguous, InFlight
<1>b. /\ venue[post[c].cur].filled \in 0 .. Size
      /\ venue[post[c].cur].visible \in SUBSET Trades
      /\ post[c] \in PostState
  BY <1>0, <1>a, InHandFilled DEF VenueState, PostsTyped
<1>1. CASE PollTrades(c)
  <2>1. PostsTyped'
    BY <1>0, <1>b, <1>1 DEF PollTrades, PostsTyped, PostState
  <2>2. StepsTyped'
    BY <1>0, <1>1, ToTyped DEF PollTrades, Steps
  <2> QED BY <1>1, <2>1, <2>2
          DEF PollTrades, TypeOK, LoopsTyped, RecordsTyped, StepsTyped, PostsTyped
<1>2. CASE ConfirmTrades(c)
  <2>1. PICK again \in {{}, venue[post[c].cur].visible} : Filled(c, MergedLegs(c, again))
    BY <1>2 DEF ConfirmTrades
  <2>2. post[c].legs \cup again \in SUBSET Trades
    BY <1>b, <2>1 DEF PostState
  <2>3. MergedLegs(c, again) \in 0 .. Size
    BY <2>2, LegsBounded DEF MergedLegs
  <2> QED BY <1>0, <1>2, <2>1, <2>3, FilledTyped, UnlockTyped
          DEF ConfirmTrades, TypeOK, RecordsTyped, CloudTyped, LedgerTyped
<1>3. CASE PollRecordFilled(c)
  BY <1>0, <1>b, <1>3, FilledTyped, UnlockTyped
     DEF PollRecordFilled, TypeOK, RecordsTyped, CloudTyped, LedgerTyped
<1>4. CASE PollRecordKilled(c)
  BY <1>0, <1>4, AfterFailureTyped, BookTyped, UnlockTyped
     DEF PollRecordKilled, TypeOK, RecordsTyped, CloudTyped
<1>5. CASE PollRecordLive(c)
  <2>1. PostsTyped'
    BY <1>0, <1>b, <1>5 DEF PollRecordLive, PostsTyped, PostState
  <2> QED BY <1>5, <2>1
          DEF PollRecordLive, TypeOK, LoopsTyped, RecordsTyped, PostsTyped
<1>6. CASE DeadlinePartial(c)
  <2>1. post[c].seen \in 0 .. Size
    BY <1>b DEF PostState
  <2> QED BY <1>0, <1>6, <2>1, FilledTyped, UnlockTyped
          DEF DeadlinePartial, TypeOK, RecordsTyped, CloudTyped, LedgerTyped
<1>7. CASE DeadlineAmbiguous(c)
  <2>1. [order |-> post[c].cur, held |-> TRUE] \in LockState
    BY <1>b DEF PostState, LockState
  <2>2. locks' \in [{"BUY", "SELL"} -> LockState]
    BY <1>0, <1>7, <2>1 DEF DeadlineAmbiguous
  <2> QED BY <1>0, <1>7, <2>2, AfterFailureTyped, BookTyped
          DEF DeadlineAmbiguous, TypeOK, RecordsTyped, CloudTyped
<1> QED BY <1>1, <1>2, <1>3, <1>4, <1>5, <1>6, <1>7 DEF Settle

LEMMA VenueStepTyped ==
  ASSUME TypeOK, NEW o \in Orders, Venue(o)
  PROVE  TypeOK'
<1>0. VenueTyped
  BY DEF TypeOK, VenueTyped
<1>1. CASE VenueMatches(o)
  <2>1. VenueTyped'
    <3>1. PICK k \in Trades :
             venue' = [venue EXCEPT ![o].stat = "matching", ![o].filled = k]
      BY <1>1 DEF VenueMatches
    <3>2. k \in 0 .. Size
      BY BoundsAreNatural DEF Trades
    <3> QED BY <1>0, <3>1, <3>2, AnsweredVenue
  <2> QED BY <1>1, <2>1 DEF VenueMatches, TypeOK, LoopsTyped, RecordsTyped, VenueTyped
<1>2. CASE VenueKills(o)
  <2>1. VenueTyped'
    BY <1>0, <1>2 DEF VenueKills, VenueTyped, VenueState
  <2> QED BY <1>2, <2>1 DEF VenueKills, TypeOK, LoopsTyped, RecordsTyped, VenueTyped
<1>3. CASE VenueCloses(o)
  <2>1. VenueTyped'
    BY <1>0, <1>3 DEF VenueCloses, VenueTyped, VenueState
  <2> QED BY <1>3, <2>1 DEF VenueCloses, TypeOK, LoopsTyped, RecordsTyped, VenueTyped
<1>4. CASE VenueShows(o)
  <2>1. PICK t \in (1 .. venue[o].filled) : venue' = [venue EXCEPT ![o].visible = @ \cup {t}]
    BY <1>4 DEF VenueShows
  <2>2. t \in Trades
    BY <1>0, BoundsAreNatural DEF VenueTyped, VenueState, Trades
  <2>3. VenueTyped'
    BY <1>0, <2>1, <2>2 DEF VenueTyped, VenueState
  <2> QED BY <1>4, <2>3 DEF VenueShows, TypeOK, LoopsTyped, RecordsTyped, VenueTyped
<1> QED BY <1>1, <1>2, <1>3, <1>4 DEF Venue

\* The order in hand: set by the signature, kept until the post is over.
LEMMA InHandStep ==
  ASSUME TypeOK, InHand, [Next]_vars
  PROVE  InHand'
<1> USE DEF InHand, InFlight, TypeOK, LoopsTyped
<1>1. ASSUME NEW c \in Callers, Finish(c)
      PROVE  InHand'
  BY <1>1 DEF Finish, To
<1>2. ASSUME NEW c \in Callers, NEW b \in BOOLEAN, AfterFailure(c, b)
      PROVE  InHand'
  BY <1>1, <1>2 DEF AfterFailure, To
<1>3. ASSUME NEW c \in Callers, NEW s \in Sides, Decide(c, s) 
      PROVE  InHand'
  BY <1>3 DEF Decide, To
<1>4. ASSUME NEW c \in Callers, Place(c)
      PROVE  InHand'
  BY <1>1, <1>2, <1>4 DEF Place, PlaceLocked, PlaceRefused, PlaceAccepted, SellHeld, To
<1>5. ASSUME NEW c \in Callers, Sign(c)
      PROVE  InHand'
  <2>1. CASE SignGranted(c)
    BY <2>1 DEF SignGranted, To
  <2> QED BY <1>1, <1>2, <1>5, <2>1 DEF Sign, SignRefused, SignFailed
<1>6. ASSUME NEW c \in Callers, Post(c)
      PROVE  InHand'
  <2>1. \E a : post' = [post EXCEPT ![c].reply = a]
    BY <1>6 DEF Post, PostLost, PostRejected, PostKilled, PostMatched, PostDelayed, Answer
  <2>2. To(c, "reply") /\ pc[c] = "post"
    BY <1>6 DEF Post, PostLost, PostRejected, PostKilled, PostMatched, PostDelayed, Answer
  <2> QED BY <2>1, <2>2 DEF To
<1>7. ASSUME NEW c \in Callers, Reply(c)
      PROVE  InHand'
  <2>1. CASE ReplyRejectedRepost(c)
    BY <2>1 DEF ReplyRejectedRepost, To
  <2>2. CASE ReplyDelayed(c)
    BY <2>2 DEF ReplyDelayed, To
  <2> QED BY <1>1, <1>2, <1>7, <2>1, <2>2
          DEF Reply, ReplyLost, ReplyRejected, ReplyZero, ReplyFill, ReplyUnreadable,
              ReplyNoId, Filled
<1>8. ASSUME NEW c \in Callers, Settle(c)
      PROVE  InHand'
  <2>1. CASE PollTrades(c)
    BY <2>1 DEF PollTrades, To
  <2>2. CASE PollRecordLive(c)
    BY <2>2 DEF PollRecordLive
  <2> QED BY <1>1, <1>2, <1>8, <2>1, <2>2
          DEF Settle, ConfirmTrades, PollRecordFilled, PollRecordKilled,
              DeadlinePartial, DeadlineAmbiguous, Filled
<1>9. CASE \/ \E s \in Sides : LockExpires(s)
           \/ \E o \in Orders : Venue(o)
           \/ UNCHANGED vars
  BY <1>9 DEF LockExpires, Venue, VenueMatches, VenueKills, VenueCloses, VenueShows, vars
<1>10. CASE Restart
  BY <1>10 DEF Restart
<1> QED BY <1>3, <1>4, <1>5, <1>6, <1>7, <1>8, <1>9, <1>10 DEF Next

TypeInv == TypeOK /\ InHand

LEMMA TypeStep ==
  ASSUME TypeOK, InHand, [Next]_vars
  PROVE  TypeOK'
<1>1. ASSUME NEW c \in Callers, NEW s \in Sides, Decide(c, s)
      PROVE  TypeOK'
  <2>1. ContextsTyped'
    BY <1>1, SidesKnown DEF Decide, TypeOK, LoopsTyped, ContextsTyped, Context
  <2>2. StepsTyped'
    BY <1>1, ToTyped DEF Decide, TypeOK, LoopsTyped, StepsTyped, Steps
  <2> QED BY <1>1, <2>1, <2>2
          DEF Decide, TypeOK, LoopsTyped, RecordsTyped, ContextsTyped, StepsTyped
<1>2. ASSUME NEW s \in Sides, LockExpires(s)
      PROVE  TypeOK'
  BY <1>2, BlanksTyped DEF LockExpires, TypeOK, LoopsTyped, RecordsTyped
<1>3. CASE Restart
  BY <1>3, BlanksTyped DEF Restart, TypeOK, LoopsTyped, RecordsTyped, Steps
<1>4. CASE UNCHANGED vars
  BY <1>4 DEF vars, TypeOK, LoopsTyped, RecordsTyped
<1> QED BY <1>1, <1>2, <1>3, <1>4, PlaceTyped, SignTyped, PostTyped, ReplyTyped,
           SettleTyped, VenueStepTyped DEF Next

\* The records of the money path are well formed for any set of decision
\* loops and any bounds.
THEOREM TypeCorrect == Spec => []TypeOK
<1>1. Init => TypeInv
  BY BlanksTyped DEF Init, TypeInv, TypeOK, LoopsTyped, RecordsTyped, InHand, InFlight, Steps
<1>2. TypeInv /\ [Next]_vars => TypeInv'
  BY TypeStep, InHandStep DEF TypeInv
<1> QED BY <1>1, <1>2, PTL DEF Spec, TypeInv

-----------------------------------------------------------------------------
(***************************************************************************)
(* The inductive invariant.  A loop that moves leaves the others alone.    *)
(***************************************************************************)
OthersStay(c) ==
  \A d \in Callers \ {c} :
     pc'[d] = pc[d] /\ ctx'[d] = ctx[d] /\ post'[d] = post[d]

\* A step that keeps its decision (or drops it) is judged on its own loop only.
LEMMA LocalStep ==
  ASSUME LoopsCoherent, NEW c \in Callers, OthersStay(c), UNCHANGED <<order, venue>>,
         ContextCoherent(c)', EarlierBuysRejected(c)', PostTrue(c)',
         ctx'[c].decision # None =>
           ctx'[c].decision = ctx[c].decision /\ ctx'[c].side = ctx[c].side
  PROVE  LoopsCoherent'
<1> SUFFICES ASSUME NEW d \in Callers
             PROVE  (/\ ContextCoherent(d) /\ DecisionIsPrivate(d)
                     /\ EarlierBuysRejected(d) /\ PostTrue(d))'
  BY DEF LoopsCoherent
<1>1. CASE d = c
  <2>1. DecisionIsPrivate(c)'
    BY DEF LoopsCoherent, DecisionIsPrivate, OthersStay
  <2> QED BY <1>1, <2>1
<1>2. CASE d # c
  <2>0. pc'[d] = pc[d] /\ ctx'[d] = ctx[d] /\ post'[d] = post[d]
    BY <1>2 DEF OthersStay
  <2>1. ContextCoherent(d)'
    BY <2>0 DEF LoopsCoherent, ContextCoherent
  <2>2. DecisionIsPrivate(d)'
    BY <1>2, <2>0 DEF LoopsCoherent, DecisionIsPrivate, OthersStay
  <2>3. EarlierBuysRejected(d)'
    BY <2>0 DEF LoopsCoherent, EarlierBuysRejected
  <2>4. PostTrue(d)'
    BY <2>0 DEF LoopsCoherent, PostTrue
  <2> QED BY <2>1, <2>2, <2>3, <2>4
<1> QED BY <1>1, <1>2

LEMMA FinishCoherent ==
  ASSUME LoopsTyped, LoopsCoherent, NEW c \in Callers, Finish(c),
         UNCHANGED <<order, venue>>
  PROVE  LoopsCoherent'
<1>1. OthersStay(c)
  BY DEF OthersStay, Finish, To, LoopsTyped
<1>2. pc'[c] = "idle" /\ ctx'[c] = NoContext /\ post'[c] = NoPost
  BY DEF Finish, To, LoopsTyped
<1>3. ContextCoherent(c)'
  BY <1>2 DEF ContextCoherent, NoContext, InFlight
<1>4. EarlierBuysRejected(c)'
  BY <1>2 DEF EarlierBuysRejected, NoContext
<1>5. PostTrue(c)'
  BY <1>2 DEF PostTrue
<1>6. ctx'[c].decision = None
  BY <1>2 DEF NoContext
<1> QED BY <1>1, <1>3, <1>4, <1>5, <1>6, LocalStep

LEMMA AfterFailureCoherent ==
  ASSUME LoopsTyped, LoopsCoherent, NEW c \in Callers, NEW b \in BOOLEAN,
         AfterFailure(c, b), UNCHANGED <<order, venue>>,
         pc[c] # "idle"
  PROVE  LoopsCoherent'
<1>1. CASE ctx[c].side = "SELL" /\ ctx[c].attempt < MaxAttempts
  <2>1. OthersStay(c)
    BY <1>1 DEF OthersStay, AfterFailure, To, LoopsTyped
  <2>2. /\ pc'[c] = "place" /\ post'[c] = NoPost
        /\ ctx'[c].decision = ctx[c].decision /\ ctx'[c].side = "SELL"
        /\ ctx'[c].row = ctx[c].row
    BY <1>1 DEF AfterFailure, To, LoopsTyped, Context
  <2>3. ContextCoherent(c)'
    BY <2>2 DEF LoopsCoherent, ContextCoherent, InFlight
  <2>4. EarlierBuysRejected(c)'
    BY <2>2 DEF EarlierBuysRejected
  <2>5. PostTrue(c)'
    BY <2>2 DEF PostTrue
  <2> QED BY <1>1, <2>1, <2>2, <2>3, <2>4, <2>5, LocalStep
<1>2. CASE ~(ctx[c].side = "SELL" /\ ctx[c].attempt < MaxAttempts)
  BY <1>2, FinishCoherent DEF AfterFailure
<1> QED BY <1>1, <1>2

\* What the loop in hand of an order knows of its row.
LEMMA RowInHand ==
  ASSUME LoopsTyped, LoopsCoherent, OrdersCoherent, NEW c \in Callers, pc[c] \in InFlight
  PROVE  /\ post[c].cur \in Orders /\ post[c].cur = ctx[c].row
         /\ ctx[c].decision # None
         /\ order[post[c].cur].decision = ctx[c].decision
         /\ order[post[c].cur].side = ctx[c].side
         /\ order[post[c].cur].side # "none"
<1>1. post[c].cur \in Orders /\ post[c].cur = ctx[c].row
  BY DEF LoopsCoherent, ContextCoherent, LoopsTyped, Context, OrderOrNone, Orders, None
<1>2. ctx[c].decision # None /\ order[post[c].cur].decision = ctx[c].decision
  BY <1>1 DEF LoopsCoherent, ContextCoherent
<1>3. order[post[c].cur].side = ctx[c].side
  BY <1>1, <1>2 DEF LoopsCoherent, DecisionIsPrivate
<1> QED BY <1>1, <1>2, <1>3 DEF OrdersCoherent

LEMMA IInvHasInHand == IInv => TypeOK /\ InHand
BY RowInHand DEF IInv, TypeOK, InHand

\* Distinct loops have distinct orders in hand.
LEMMA RowsDiffer ==
  ASSUME LoopsTyped, LoopsCoherent, OrdersCoherent, NEW c \in Callers, NEW d \in Callers,
         c # d, pc[c] \in InFlight, pc[d] \in InFlight
  PROVE  post[c].cur # post[d].cur
BY RowInHand DEF LoopsCoherent, DecisionIsPrivate

\* The platform signs: the new order joins the decision of its loop alone.
LEMMA SignGrantedCoherent ==
  ASSUME IInv, NEW c \in Callers, SignGranted(c)
  PROVE  LoopsCoherent'
<1> USE DEF IInv, TypeOK
<1>1. PICK o \in Orders :
        LET d == IF ctx[c].decision = None THEN o ELSE ctx[c].decision
        IN /\ Fresh(o)
           /\ To(c, "post")
           /\ ctx' = [ctx EXCEPT ![c].row = o, ![c].decision = d]
           /\ post' = [post EXCEPT ![c].cur = o]
           /\ order' = [order EXCEPT ![o] = [side |-> ctx[c].side,
                                    size |-> ctx[c].size, decision |-> d]]
  BY DEF SignGranted
<1> DEFINE e == IF ctx[c].decision = None THEN o ELSE ctx[c].decision
<1>2. /\ pc[c] = "sign" /\ venue' = venue /\ order[o].side = "none"
      /\ order[o].decision = None /\ venue[o].stat = "none"
      /\ post[c] = NoPost /\ e # None
  BY <1>1 DEF SignGranted, Fresh, OrdersCoherent, LoopsCoherent, ContextCoherent, InFlight,
              Orders, None
<1>3. /\ pc'[c] = "post" /\ ctx'[c].row = o /\ ctx'[c].decision = e
      /\ ctx'[c].side = ctx[c].side /\ post'[c].cur = o /\ post'[c].seen = 0
      /\ order'[o].side = ctx[c].side /\ order'[o].decision = e
  BY <1>1, <1>2 DEF To, LoopsTyped, RecordsTyped, Context, PostState, NoPost
<1>4. \A p \in Orders \ {o} : order'[p] = order[p]
  BY <1>1 DEF RecordsTyped
<1>5. OthersStay(c)
  BY <1>1 DEF OthersStay, To, LoopsTyped
\* a decision that is running belongs to a signed order, so o is not one yet
<1>6. \A d \in Callers : ctx[d].decision # None =>
         ctx[d].decision \in Orders /\ order[ctx[d].decision].side # "none"
  <2> SUFFICES ASSUME NEW d \in Callers, ctx[d].decision # None
               PROVE  ctx[d].decision \in Orders /\ order[ctx[d].decision].side # "none"
    OBVIOUS
  <2>1. ctx[d].row # None /\ order[ctx[d].row].decision = ctx[d].decision
    BY DEF LoopsCoherent, ContextCoherent
  <2>2. ctx[d].row \in Orders
    BY <2>1 DEF LoopsTyped, Context, OrderOrNone, Orders, None
  <2> QED BY <2>1, <2>2 DEF OrdersCoherent
<1>7. \A p \in Orders : order[p].decision # o
  BY <1>2 DEF OrdersCoherent, Orders, None
<1>8. \A d \in Callers \ {c} : ctx[d].decision # e
  BY <1>2, <1>6 DEF LoopsCoherent, DecisionIsPrivate, Orders, None
<1> HIDE DEF e
<1>9. ASSUME NEW d \in Callers
      PROVE  (/\ ContextCoherent(d) /\ DecisionIsPrivate(d)
              /\ EarlierBuysRejected(d) /\ PostTrue(d))'
  <2>1. CASE d = c
    <3>1. ContextCoherent(c)'
      BY <1>2, <1>3 DEF ContextCoherent, InFlight, Orders, None
    <3>2. \A p \in Orders \ {o} : order[p].decision = e =>
            /\ order[p].side = ctx[c].side
            /\ ctx[c].side = "BUY" => venue[p].stat = "rejected"
      <4>1. CASE ctx[c].decision = None
        BY <1>7, <4>1 DEF e
      <4>2. CASE ctx[c].decision # None
        BY <1>2, <4>2 DEF e, LoopsCoherent, DecisionIsPrivate, EarlierBuysRejected,
                          NoPost, None, Orders
      <4> QED BY <4>1, <4>2
    <3>3. DecisionIsPrivate(c)'
      BY <1>3, <1>4, <1>5, <1>8, <3>2 DEF DecisionIsPrivate, OthersStay
    <3>4. EarlierBuysRejected(c)'
      BY <1>2, <1>3, <1>4, <3>2 DEF EarlierBuysRejected
    <3>5. PostTrue(c)'
      BY <1>2, <1>3 DEF PostTrue
    <3> QED BY <2>1, <3>1, <3>3, <3>4, <3>5
  <2>2. CASE d # c
    <3>0. pc'[d] = pc[d] /\ ctx'[d] = ctx[d] /\ post'[d] = post[d]
      BY <1>5, <2>2 DEF OthersStay
    <3>1. ctx[d].row # o
      BY <1>2, <1>6 DEF LoopsCoherent, ContextCoherent, Orders, None
    <3>2. ctx[d].row # None => ctx[d].row \in Orders
      BY DEF LoopsTyped, Context, OrderOrNone, Orders, None
    <3>3. ContextCoherent(d)'
      BY <1>4, <3>0, <3>1, <3>2 DEF LoopsCoherent, ContextCoherent
    <3>4. DecisionIsPrivate(d)'
      BY <1>3, <1>4, <1>5, <1>8, <2>2, <3>0 DEF LoopsCoherent, DecisionIsPrivate, OthersStay
    <3>5. EarlierBuysRejected(d)'
      BY <1>2, <1>3, <1>4, <1>8, <2>2, <3>0 DEF LoopsCoherent, EarlierBuysRejected
    <3>6. PostTrue(d)'
      BY <1>2, <3>0 DEF LoopsCoherent, PostTrue
    <3> QED BY <3>3, <3>4, <3>5, <3>6
  <2> QED BY <2>1, <2>2
<1> QED BY <1>9 DEF LoopsCoherent

\* What each answer says of the order the venue took.
AnswerMeans(s, A) ==
  /\ s \in {"rejected", "killed", "delayed", "closed"}
  /\ "rejected" \in A => s = "rejected"
  /\ "zero" \in A => s = "killed"
  /\ "fill" \in A => s = "closed"
  /\ "delayed" \in A \/ "noid" \in A => s \in Working

LEMMA AnswerCoherent ==
  ASSUME IInv, NEW c \in Callers, pc[c] = "post", NEW s, NEW n \in 0 .. Size,
         NEW A, AnswerMeans(s, A), Answer(c, post[c].cur, s, n, A)
  PROVE  LoopsCoherent'
<1> USE DEF IInv, TypeOK
<1> DEFINE o == post[c].cur
<1>1. PICK a \in A \cup {"lost"} : post' = [post EXCEPT ![c].reply = a]
  BY DEF Answer
<1>2. /\ o \in Orders /\ venue[o].stat = "none"
      /\ venue'[o].stat = s /\ \A p \in Orders \ {o} : venue'[p] = venue[p]
  BY RowInHand DEF Answer, InFlight, LoopsCoherent, PostTrue, VenueState
<1>3. /\ pc'[c] = "reply" /\ ctx' = ctx /\ order' = order /\ post'[c].cur = o
      /\ post'[c].seen = post[c].seen /\ post'[c].reply = a
  BY <1>1 DEF Answer, To, LoopsTyped, PostState
<1>4. OthersStay(c)
  BY <1>1 DEF OthersStay, Answer, To, LoopsTyped
<1> HIDE DEF o
<1>5. ASSUME NEW d \in Callers
      PROVE  (/\ ContextCoherent(d) /\ DecisionIsPrivate(d)
              /\ EarlierBuysRejected(d) /\ PostTrue(d))'
  <2>1. DecisionIsPrivate(d)'
    BY <1>3 DEF LoopsCoherent, DecisionIsPrivate
  <2>2. CASE d = c
    <3>1. ContextCoherent(c)'
      BY <1>3 DEF o, LoopsCoherent, ContextCoherent, InFlight
    <3>2. EarlierBuysRejected(c)'
      BY <1>2, <1>3 DEF o, LoopsCoherent, EarlierBuysRejected
    <3>3. PostTrue(c)'
      BY <1>2, <1>3 DEF LoopsCoherent, PostTrue, AnswerMeans
    <3> QED BY <2>1, <2>2, <3>1, <3>2, <3>3
  <2>3. CASE d # c
    <3>0. pc'[d] = pc[d] /\ ctx'[d] = ctx[d] /\ post'[d] = post[d]
      BY <1>4, <2>3 DEF OthersStay
    <3>1. ContextCoherent(d)'
      BY <1>3, <3>0 DEF LoopsCoherent, ContextCoherent
    <3>2. EarlierBuysRejected(d)'
      BY <1>2, <1>3, <3>0 DEF LoopsCoherent, EarlierBuysRejected
    <3>3. pc[d] \in InFlight => post[d].cur \in Orders \ {o}
      BY <2>3, RowsDiffer, RowInHand DEF o, InFlight
    <3>4. PostTrue(d)'
      BY <1>2, <3>0, <3>3 DEF LoopsCoherent, PostTrue, InFlight
    <3> QED BY <2>1, <3>1, <3>2, <3>4
  <2> QED BY <2>2, <2>3
<1> QED BY <1>5 DEF LoopsCoherent

\* The venue never goes back on what it answered, and a fill never shrinks.
LEMMA VenueStepGrows ==
  ASSUME venue \in [Orders -> VenueState], VenueCoherent, NEW o \in Orders, Venue(o)
  PROVE  \A p \in Orders :
           /\ venue[p].filled <= venue'[p].filled
           /\ \/ venue'[p].stat = venue[p].stat
              \/ venue[p].stat \in {"delayed", "matching"} /\ venue'[p].stat \in Working
<1> USE BoundsAreNatural DEF VenueState
<1>0. \A p \in Orders : venue[p].filled \in Nat
  OBVIOUS
<1>1. CASE VenueMatches(o)
  BY <1>0, <1>1 DEF VenueMatches, VenueCoherent, Trades, Working
<1>2. CASE VenueKills(o)
  BY <1>0, <1>2 DEF VenueKills, Working
<1>3. CASE VenueCloses(o)
  BY <1>0, <1>3 DEF VenueCloses, Working
<1>4. CASE VenueShows(o)
  BY <1>0, <1>4 DEF VenueShows
<1> QED BY <1>1, <1>2, <1>3, <1>4 DEF Venue

LEMMA VenueStepCoherent ==
  ASSUME IInv, NEW o \in Orders, Venue(o)
  PROVE  LoopsCoherent'
<1> USE DEF IInv, TypeOK
<1>1. UNCHANGED <<pc, ctx, post, order>>
  BY DEF Venue, VenueMatches, VenueKills, VenueCloses, VenueShows
<1>2. \A p \in Orders :
        /\ venue[p].filled <= venue'[p].filled
        /\ \/ venue'[p].stat = venue[p].stat
           \/ venue[p].stat \in {"delayed", "matching"} /\ venue'[p].stat \in Working
  BY VenueStepGrows
<1>3. ASSUME NEW d \in Callers
      PROVE  (/\ ContextCoherent(d) /\ DecisionIsPrivate(d)
              /\ EarlierBuysRejected(d) /\ PostTrue(d))'
  <2>1. ContextCoherent(d)' /\ DecisionIsPrivate(d)'
    BY <1>1 DEF LoopsCoherent, ContextCoherent, DecisionIsPrivate
  <2>2. EarlierBuysRejected(d)'
    BY <1>1, <1>2 DEF LoopsCoherent, EarlierBuysRejected
  <2>3. CASE pc[d] \in InFlight
    <3>1. post[d].cur \in Orders
      BY <2>3, RowInHand
    <3>2. venue[post[d].cur] \in VenueState /\ venue'[post[d].cur].filled \in Nat
      BY <3>1, VenueStepTyped, BoundsAreNatural DEF VenueState
    <3>3. post[d].seen \in Nat
      BY BoundsAreNatural DEF LoopsTyped, PostState
    <3>4. PostTrue(d)
      BY DEF LoopsCoherent
    <3>5. pc'[d] = pc[d] /\ post'[d] = post[d]
      BY <1>1
    <3>6. venue[post[d].cur].filled \in Nat
      BY <3>2, BoundsAreNatural DEF VenueState
    <3>7. PostTrue(d)'
      BY <1>2, <3>1, <3>2, <3>3, <3>4, <3>5, <3>6 DEF PostTrue, Working
    <3> QED BY <2>1, <2>2, <3>7
  <2>4. CASE pc[d] \notin InFlight
    BY <1>1, <2>1, <2>2, <2>4 DEF PostTrue, InFlight
  <2> QED BY <2>3, <2>4
<1> QED BY <1>3 DEF LoopsCoherent

\* Every step keeps what ties the loops to their orders.
LEMMA LoopsStep ==
  ASSUME IInv, [Next]_vars
  PROVE  LoopsCoherent'
<1> USE DEF IInv, TypeOK
<1>1. ASSUME NEW c \in Callers, NEW s \in Sides, Decide(c, s)
      PROVE  LoopsCoherent'
  <2>1. OthersStay(c)
    BY <1>1 DEF OthersStay, Decide, To, LoopsTyped
  <2>2. /\ UNCHANGED <<order, venue>> /\ pc[c] = "idle" /\ pc'[c] = "place"
        /\ post'[c] = post[c]
        /\ ctx'[c].row = ctx[c].row /\ ctx'[c].decision = ctx[c].decision
    BY <1>1 DEF Decide, To, LoopsTyped, Context
  <2>3. ctx[c].row = None /\ ctx[c].decision = None /\ post[c] = NoPost
    BY <2>2 DEF LoopsCoherent, ContextCoherent, InFlight
  <2>4. ContextCoherent(c)'
    BY <2>2, <2>3 DEF ContextCoherent, InFlight
  <2>5. EarlierBuysRejected(c)' /\ PostTrue(c)'
    BY <2>2, <2>3 DEF EarlierBuysRejected, PostTrue
  <2> QED BY <1>1, <2>1, <2>2, <2>3, <2>4, <2>5, LocalStep
<1>2. ASSUME NEW c \in Callers, Place(c)
      PROVE  LoopsCoherent'
  <2>1. CASE PlaceAccepted(c)
    <3>1. OthersStay(c)
      BY <2>1 DEF OthersStay, PlaceAccepted, To, LoopsTyped
    <3>2. /\ UNCHANGED <<order, venue>> /\ pc[c] = "place" /\ pc'[c] = "sign" /\ post'[c] = post[c]
          /\ ctx'[c].row = ctx[c].row /\ ctx'[c].decision = ctx[c].decision
          /\ ctx'[c].side = ctx[c].side
      BY <2>1 DEF PlaceAccepted, To, LoopsTyped, Context
    <3>3. ContextCoherent(c)'
      BY <3>2 DEF LoopsCoherent, ContextCoherent, InFlight
    <3>4. EarlierBuysRejected(c)' /\ PostTrue(c)'
      BY <3>2 DEF LoopsCoherent, EarlierBuysRejected, PostTrue
    <3> QED BY <2>1, <3>1, <3>2, <3>3, <3>4, LocalStep
  <2> QED BY <1>2, <2>1, FinishCoherent, AfterFailureCoherent
          DEF Place, PlaceLocked, PlaceRefused, SellHeld
<1>3. ASSUME NEW c \in Callers, SignRefused(c) \/ SignFailed(c)
      PROVE  LoopsCoherent'
  BY <1>3, FinishCoherent, AfterFailureCoherent DEF SignRefused, SignFailed
<1>4. ASSUME NEW c \in Callers, PostLost(c)
      PROVE  LoopsCoherent'
  <2>1. OthersStay(c)
    BY <1>4 DEF OthersStay, PostLost, To, LoopsTyped
  <2>2. /\ UNCHANGED <<order, venue>> /\ pc[c] = "post" /\ pc'[c] = "reply" /\ ctx'[c] = ctx[c]
        /\ post'[c].cur = post[c].cur /\ post'[c].seen = post[c].seen
        /\ post'[c].reply = "lost"
    BY <1>4 DEF PostLost, To, LoopsTyped, PostState
  <2>3. ContextCoherent(c)'
    BY <2>2 DEF LoopsCoherent, ContextCoherent, InFlight
  <2>4. EarlierBuysRejected(c)'
    BY <2>2 DEF LoopsCoherent, EarlierBuysRejected
  <2>5. PostTrue(c)'
    BY <2>2 DEF LoopsCoherent, PostTrue
  <2> QED BY <1>4, <2>1, <2>2, <2>3, <2>4, <2>5, LocalStep
<1>5. ASSUME NEW c \in Callers, Reply(c)
      PROVE  LoopsCoherent'
  <2>1. CASE ReplyRejectedRepost(c)
    <3>1. OthersStay(c)
      BY <2>1 DEF OthersStay, ReplyRejectedRepost, To, LoopsTyped
    <3>2. /\ UNCHANGED <<order, venue>> /\ pc[c] = "reply" /\ pc'[c] = "sign" /\ post'[c] = NoPost
          /\ ctx'[c].row = ctx[c].row /\ ctx'[c].decision = ctx[c].decision
          /\ ctx'[c].side = ctx[c].side
      BY <2>1 DEF ReplyRejectedRepost, To, LoopsTyped, Context
    <3>3. ContextCoherent(c)'
      BY <3>2 DEF LoopsCoherent, ContextCoherent, InFlight
    <3>4. venue[post[c].cur].stat = "rejected"
      BY <2>1 DEF ReplyRejectedRepost, LoopsCoherent, PostTrue
    <3>5. EarlierBuysRejected(c)' /\ PostTrue(c)'
      BY <3>2, <3>4 DEF LoopsCoherent, EarlierBuysRejected, PostTrue
    <3> QED BY <2>1, <3>1, <3>2, <3>3, <3>5, LocalStep
  <2>2. CASE ReplyDelayed(c)
    <3>1. OthersStay(c)
      BY <2>2 DEF OthersStay, ReplyDelayed, To, LoopsTyped
    <3>2. /\ UNCHANGED <<order, venue>> /\ pc[c] = "reply" /\ post[c].reply = "delayed" /\ pc'[c] = "settle"
          /\ ctx'[c] = ctx[c]
          /\ post'[c].cur = post[c].cur /\ post'[c].seen = post[c].seen
      BY <2>2 DEF ReplyDelayed, To, LoopsTyped, PostState
    <3>3. ContextCoherent(c)'
      BY <3>2 DEF LoopsCoherent, ContextCoherent, InFlight
    <3>4. EarlierBuysRejected(c)'
      BY <3>2 DEF LoopsCoherent, EarlierBuysRejected
    <3>5. 0 <= venue[post[c].cur].filled
      BY <3>2, RowInHand DEF InFlight, VenueState
    <3>6. PostTrue(c)'
      BY <3>2, <3>5 DEF LoopsCoherent, PostTrue
    <3> QED BY <2>2, <3>1, <3>2, <3>3, <3>4, <3>6, LocalStep
  <2> QED BY <1>5, <2>1, <2>2, FinishCoherent, AfterFailureCoherent
          DEF Reply, ReplyLost, ReplyRejected, ReplyZero, ReplyFill, ReplyUnreadable,
              ReplyNoId, Filled
<1>6. ASSUME NEW c \in Callers, Settle(c)
      PROVE  LoopsCoherent'
  <2>1. CASE PollTrades(c)
    <3>1. OthersStay(c)
      BY <2>1 DEF OthersStay, PollTrades, To, LoopsTyped
    <3>2. /\ UNCHANGED <<order, venue>> /\ pc[c] = "settle" /\ pc'[c] = "confirm" /\ ctx'[c] = ctx[c]
          /\ post'[c].cur = post[c].cur /\ post'[c].seen = post[c].seen
          /\ post'[c].legs = venue[post[c].cur].visible
          /\ venue[post[c].cur].visible # {}
      BY <2>1 DEF PollTrades, To, LoopsTyped, PostState
    <3>3. ContextCoherent(c)'
      BY <3>2 DEF LoopsCoherent, ContextCoherent, InFlight
    <3>4. EarlierBuysRejected(c)'
      BY <3>2 DEF LoopsCoherent, EarlierBuysRejected
    <3>5. venue[post[c].cur].visible \subseteq 1 .. venue[post[c].cur].filled
      BY <3>2, RowInHand DEF InFlight, VenueCoherent
    <3>6. PostTrue(c)'
      BY <3>2, <3>5 DEF LoopsCoherent, PostTrue
    <3> QED BY <2>1, <3>1, <3>2, <3>3, <3>4, <3>6, LocalStep
  <2>2. CASE PollRecordLive(c)
    <3>1. OthersStay(c)
      BY <2>2 DEF OthersStay, PollRecordLive, LoopsTyped
    <3>2. /\ UNCHANGED <<order, venue>> /\ pc[c] = "settle" /\ pc'[c] = "settle" /\ ctx'[c] = ctx[c]
          /\ post'[c].cur = post[c].cur
          /\ post'[c].seen = venue[post[c].cur].filled
      BY <2>2 DEF PollRecordLive, LoopsTyped, PostState
    <3>3. ContextCoherent(c)'
      BY <3>2 DEF LoopsCoherent, ContextCoherent, InFlight
    <3>4. EarlierBuysRejected(c)'
      BY <3>2 DEF LoopsCoherent, EarlierBuysRejected
    <3>5. venue[post[c].cur].filled \in Nat
      BY <3>2, RowInHand, BoundsAreNatural DEF InFlight, VenueState
    <3>6. PostTrue(c)'
      BY <3>2, <3>5 DEF LoopsCoherent, PostTrue
    <3> QED BY <2>2, <3>1, <3>2, <3>3, <3>4, <3>6, LocalStep
  <2> QED BY <1>6, <2>1, <2>2, FinishCoherent, AfterFailureCoherent
          DEF Settle, ConfirmTrades, PollRecordFilled, PollRecordKilled,
              DeadlinePartial, DeadlineAmbiguous, Filled
<1>7. ASSUME UNCHANGED <<pc, ctx, post, order, venue>>
      PROVE  LoopsCoherent'
  BY <1>7 DEF LoopsCoherent, ContextCoherent, DecisionIsPrivate, EarlierBuysRejected, PostTrue
<1>8. CASE Restart
  BY <1>8 DEF Restart, LoopsCoherent, ContextCoherent, DecisionIsPrivate,
              EarlierBuysRejected, PostTrue, NoContext, InFlight
<1>9. ASSUME NEW c \in Callers, SignGranted(c)
      PROVE  LoopsCoherent'
  BY <1>9, SignGrantedCoherent
<1>10. ASSUME NEW c \in Callers,
              PostRejected(c) \/ PostKilled(c) \/ PostMatched(c) \/ PostDelayed(c)
       PROVE  LoopsCoherent'
  BY <1>10, AnswerCoherent, BoundsAreNatural
     DEF PostRejected, PostKilled, PostMatched, PostDelayed, AnswerMeans, Trades, Working
<1>11. ASSUME NEW o \in Orders, Venue(o)
       PROVE  LoopsCoherent'
  BY <1>11, VenueStepCoherent
<1>12. ASSUME NEW s \in Sides, LockExpires(s)
       PROVE  LoopsCoherent'
  BY <1>7, <1>12 DEF LockExpires
<1>13. CASE UNCHANGED vars
  BY <1>7, <1>13 DEF vars
<1> QED BY <1>1, <1>2, <1>3, <1>4, <1>5, <1>6, <1>8, <1>9, <1>10, <1>11, <1>12, <1>13
        DEF Next, Sign, Post

-----------------------------------------------------------------------------
(***************************************************************************)
(* The records: what a step books, reports and locks.                      *)
(***************************************************************************)
\* Only three kinds of steps touch the orders or the venue.
LEMMA WhoMovesTheVenue ==
  ASSUME [Next]_vars
  PROVE  \/ UNCHANGED <<order, venue>>
         \/ \E c \in Callers : SignGranted(c)
         \/ \E c \in Callers :
              PostRejected(c) \/ PostKilled(c) \/ PostMatched(c) \/ PostDelayed(c)
         \/ \E o \in Orders : Venue(o)
<1> USE DEF AfterFailure, Finish, To, Filled
<1>1. ASSUME NEW c \in Callers, Place(c) \/ SignRefused(c) \/ SignFailed(c) \/ PostLost(c)
      PROVE  UNCHANGED <<order, venue>>
  BY <1>1 DEF Place, PlaceLocked, PlaceRefused, PlaceAccepted, SellHeld, SignRefused,
              SignFailed, PostLost
<1>2. ASSUME NEW c \in Callers, Reply(c)
      PROVE  UNCHANGED <<order, venue>>
  BY <1>2 DEF Reply, ReplyLost, ReplyRejectedRepost, ReplyRejected, ReplyZero, ReplyFill,
              ReplyUnreadable, ReplyDelayed, ReplyNoId
<1>3. ASSUME NEW c \in Callers, Settle(c)
      PROVE  UNCHANGED <<order, venue>>
  BY <1>3 DEF Settle, PollTrades, ConfirmTrades, PollRecordFilled, PollRecordKilled,
              PollRecordLive, DeadlinePartial, DeadlineAmbiguous
<1>4. ASSUME \/ \E c \in Callers, s \in Sides : Decide(c, s)
             \/ \E s \in Sides : LockExpires(s)
             \/ Restart \/ UNCHANGED vars
      PROVE  UNCHANGED <<order, venue>>
  BY <1>4 DEF Decide, LockExpires, Restart, vars
<1> QED BY <1>1, <1>2, <1>3, <1>4 DEF Next, Sign, Post

\* The verdict a step books is about the order in hand, and true of it.
LEMMA BookedOnce ==
  ASSUME IInv, [Next]_vars
  PROVE  \/ booked' = booked
         \/ \E o \in Orders : \E v, n :
              /\ Book(o, v, n) /\ order[o].side # "none" /\ UNCHANGED venue
              /\ v = "filled" => n \in 1 .. venue[o].filled
              /\ v = "killed" => venue[o].stat = "killed"
<1> USE DEF IInv, TypeOK
<1> DEFINE True(c) ==
      \E v, n :
        /\ Book(post[c].cur, v, n) /\ UNCHANGED venue
        /\ v = "filled" => n \in 1 .. venue[post[c].cur].filled
        /\ v = "killed" => venue[post[c].cur].stat = "killed"
<1>1. ASSUME NEW c \in Callers, pc[c] \in InFlight
      PROVE  /\ post[c].cur \in Orders /\ order[post[c].cur].side # "none"
             /\ venue[post[c].cur].filled \in Nat
             /\ venue[post[c].cur].filled > 0 <=>
                  venue[post[c].cur].stat \in {"matching", "closed"}
             /\ PostTrue(c)
  BY <1>1, RowInHand, BoundsAreNatural DEF VenueState, VenueCoherent, LoopsCoherent
<1>2. ASSUME NEW c \in Callers, Reply(c)
      PROVE  booked' = booked \/ True(c)
  <2>1. CASE ReplyZero(c)
    BY <1>1, <2>1 DEF ReplyZero, PostTrue, InFlight
  <2>2. CASE ReplyFill(c)
    BY <1>1, <2>2 DEF ReplyFill, Filled, PostTrue, InFlight
  <2>3. CASE ReplyUnreadable(c)
    BY <2>3 DEF ReplyUnreadable
  <2>4. CASE ReplyNoId(c)
    BY <2>4 DEF ReplyNoId
  <2> QED BY <1>2, <2>1, <2>2, <2>3, <2>4
          DEF Reply, ReplyLost, ReplyRejectedRepost, ReplyRejected, ReplyDelayed
<1>3. ASSUME NEW c \in Callers, Settle(c)
      PROVE  booked' = booked \/ True(c)
  <2>0. pc[c] \in {"settle", "confirm"}
    BY <1>3 DEF Settle, PollTrades, ConfirmTrades, PollRecordFilled, PollRecordKilled,
                PollRecordLive, DeadlinePartial, DeadlineAmbiguous
  <2>1. CASE ConfirmTrades(c)
    <3>1. PICK again \in {{}, venue[post[c].cur].visible} : Filled(c, MergedLegs(c, again))
      BY <2>1 DEF ConfirmTrades
    <3> DEFINE L == post[c].legs \cup again
    <3>2. L # {} /\ L \subseteq 1 .. venue[post[c].cur].filled
      BY <1>1, <2>1, <3>1 DEF ConfirmTrades, PostTrue, InFlight, VenueCoherent
    <3>3. Cardinality(L) \in 1 .. venue[post[c].cur].filled
      BY <1>1, <2>0, <3>2, NonEmptyPart DEF InFlight
    <3> QED BY <2>1, <3>1, <3>3 DEF ConfirmTrades, MergedLegs, Filled
  <2>2. CASE PollRecordFilled(c)
    BY <1>1, <2>0, <2>2 DEF PollRecordFilled, Filled, InFlight
  <2>3. CASE PollRecordKilled(c)
    BY <1>1, <2>0, <2>3 DEF PollRecordKilled, RecordTerminal, InFlight
  <2>4. CASE DeadlinePartial(c)
    <3>1. post[c].seen \in 1 .. venue[post[c].cur].filled
      BY <1>1, <2>0, <2>4, BoundsAreNatural
         DEF DeadlinePartial, PostTrue, InFlight, LoopsTyped, PostState
    <3> QED BY <2>4, <3>1 DEF DeadlinePartial, Filled
  <2>5. CASE DeadlineAmbiguous(c)
    BY <2>5 DEF DeadlineAmbiguous
  <2> QED BY <1>3, <2>1, <2>2, <2>3, <2>4, <2>5 DEF Settle, PollTrades, PollRecordLive
<1>4. ASSUME NEW c \in Callers, Place(c) \/ Sign(c) \/ Post(c)
      PROVE  booked' = booked
  BY <1>4 DEF Place, PlaceLocked, PlaceRefused, PlaceAccepted, SellHeld,
              Sign, SignGranted, SignRefused, SignFailed,
              Post, PostLost, PostRejected, PostKilled, PostMatched, PostDelayed, Answer
<1>5. ASSUME \/ \E c \in Callers, s \in Sides : Decide(c, s)
             \/ \E s \in Sides : LockExpires(s)
             \/ \E o \in Orders : Venue(o)
             \/ Restart \/ UNCHANGED vars
      PROVE  booked' = booked
  BY <1>5 DEF Decide, LockExpires, Venue, VenueMatches, VenueKills, VenueCloses,
              VenueShows, Restart, vars
<1>6. ASSUME NEW c \in Callers, Reply(c) \/ Settle(c)
      PROVE  pc[c] \in InFlight
  BY <1>6 DEF Reply, ReplyLost, ReplyRejectedRepost, ReplyRejected, ReplyZero, ReplyFill,
              ReplyUnreadable, ReplyDelayed, ReplyNoId,
              Settle, PollTrades, ConfirmTrades, PollRecordFilled, PollRecordKilled,
              PollRecordLive, DeadlinePartial, DeadlineAmbiguous, InFlight
<1>7. ASSUME NEW c \in Callers, Reply(c) \/ Settle(c), True(c)
      PROVE  \E o \in Orders : \E v, n :
              /\ Book(o, v, n) /\ order[o].side # "none" /\ UNCHANGED venue
              /\ v = "filled" => n \in 1 .. venue[o].filled
              /\ v = "killed" => venue[o].stat = "killed"
  BY <1>1, <1>6, <1>7
<1> HIDE DEF True
<1> QED BY <1>2, <1>3, <1>4, <1>5, <1>7 DEF Next

\* A zero report is about the order in hand after a definite zero, or about no
\* BUY order at all.
ReportsTruth(c, outcome) ==
  \/ outcome = "filled"
  \/ ctx[c].row = None \/ ctx[c].side = "SELL"
  \/ venue[ctx[c].row].stat \in {"rejected", "killed"}

LEMMA ReportedOnce ==
  ASSUME IInv, [Next]_vars
  PROVE  \/ cloud' = cloud
         \/ \E o \in Orders :
              cloud' = [cloud EXCEPT ![o] = "open"] /\ order'[o].side # "none"
         \/ \E c \in Callers, x \in {"zero", "filled"} :
              CloseOut(c, x) /\ ReportsTruth(c, x)
<1> USE DEF IInv, TypeOK
<1>0. ASSUME NEW c \in Callers
      PROVE  ctx[c].side \in {"BUY", "SELL"} /\ PostTrue(c)
  BY DEF LoopsTyped, Context, LoopsCoherent
<1>a. ASSUME NEW c \in Callers, pc[c] \in InFlight
      PROVE  /\ post[c].cur = ctx[c].row
             /\ venue[ctx[c].row].filled > 0 <=>
                  venue[ctx[c].row].stat \in {"matching", "closed"}
             /\ venue[ctx[c].row].filled \in Nat
  BY <1>a, RowInHand, BoundsAreNatural DEF VenueCoherent, VenueState
<1>1. ASSUME NEW c \in Callers, PlaceLocked(c) \/ PlaceRefused(c)
      PROVE  cloud' = cloud \/ (CloseOut(c, "zero") /\ ReportsTruth(c, "zero"))
  <2>1. pc[c] = "place"
    BY <1>1 DEF PlaceLocked, PlaceRefused
  <2>2. ctx[c].side = "BUY" => ctx[c].decision = None
    BY <2>1 DEF LoopsCoherent, EarlierBuysRejected
  <2>3. ReportsTruth(c, "zero")
    BY <1>0, <2>2 DEF ReportsTruth, LoopsCoherent, ContextCoherent
  <2> QED BY <1>1, <2>3 DEF PlaceLocked, PlaceRefused, AfterFailure
<1>2. ASSUME NEW c \in Callers, SignRefused(c)
      PROVE  CloseOut(c, "zero") /\ ReportsTruth(c, "zero")
  <2>1. pc[c] = "sign" /\ CloseOut(c, "zero")
    BY <1>2 DEF SignRefused
  <2>2. CASE ctx[c].side = "BUY" /\ ctx[c].row # None
    <3>1. ctx[c].row \in Orders
      BY <2>2 DEF LoopsTyped, Context, OrderOrNone, Orders, None
    <3>2. /\ order[ctx[c].row].decision = ctx[c].decision
          /\ ctx[c].decision # None /\ post[c] = NoPost
      BY <2>1, <2>2 DEF LoopsCoherent, ContextCoherent, InFlight
    <3>3. ctx[c].row # post[c].cur
      BY <2>2, <3>2 DEF NoPost
    <3>4. venue[ctx[c].row].stat = "rejected"
      BY <2>2, <3>1, <3>2, <3>3 DEF LoopsCoherent, EarlierBuysRejected
    <3> QED BY <2>1, <3>4 DEF ReportsTruth
  <2> QED BY <1>0, <2>1, <2>2 DEF ReportsTruth
<1>3. ASSUME NEW c \in Callers, SignFailed(c) \/ SellHeld(c) \/ PlaceAccepted(c) \/ Post(c)
      PROVE  cloud' = cloud
  BY <1>3 DEF SignFailed, AfterFailure, SellHeld, PlaceAccepted, Post, PostLost,
              PostRejected, PostKilled, PostMatched, PostDelayed, Answer
<1>4. ASSUME NEW c \in Callers, SignGranted(c)
      PROVE  \E o \in Orders :
               cloud' = [cloud EXCEPT ![o] = "open"] /\ order'[o].side # "none"
  <2>1. PICK o \in Orders :
          /\ \E d : order' = [order EXCEPT ![o] = [side |-> ctx[c].side,
                                          size |-> ctx[c].size, decision |-> d]]
          /\ cloud' = [cloud EXCEPT ![o] = "open"]
    BY <1>4 DEF SignGranted
  <2>2. order'[o].side = ctx[c].side
    BY <2>1 DEF RecordsTyped
  <2> QED BY <1>0, <2>1, <2>2
<1>5. ASSUME NEW c \in Callers, Reply(c)
      PROVE  \/ cloud' = cloud
             \/ \E x \in {"zero", "filled"} : CloseOut(c, x) /\ ReportsTruth(c, x)
  <2>1. CASE ReplyRejected(c) \/ ReplyZero(c)
    <3>1. pc[c] = "reply" /\ post[c].reply \in {"rejected", "zero"}
      BY <2>1 DEF ReplyRejected, ReplyZero
    <3>2. venue[post[c].cur].stat \in {"rejected", "killed"}
      BY <1>0, <3>1 DEF PostTrue
    <3>3. ReportsTruth(c, "zero")
      BY <1>a, <3>1, <3>2 DEF ReportsTruth, InFlight
    <3> QED BY <2>1, <3>3 DEF ReplyRejected, ReplyZero, AfterFailure
  <2>2. CASE ReplyFill(c) \/ ReplyUnreadable(c)
    BY <2>2 DEF ReplyFill, ReplyUnreadable, Filled, ReportsTruth
  <2> QED BY <1>5, <2>1, <2>2
          DEF Reply, ReplyLost, ReplyRejectedRepost, ReplyDelayed, ReplyNoId, AfterFailure
<1>6. ASSUME NEW c \in Callers, Settle(c)
      PROVE  \/ cloud' = cloud
             \/ \E x \in {"zero", "filled"} : CloseOut(c, x) /\ ReportsTruth(c, x)
  <2>1. CASE PollRecordKilled(c)
    <3>1. pc[c] = "settle" /\ venue[post[c].cur].filled = 0
          /\ (venue[post[c].cur].stat \in {"killed", "closed"}
                \/ venue[post[c].cur].stat = "matching")
      BY <2>1 DEF PollRecordKilled, RecordTerminal
    <3>2. venue[ctx[c].row].stat = "killed"
      BY <1>a, <3>1 DEF InFlight
    <3> QED BY <2>1, <3>2 DEF PollRecordKilled, AfterFailure, ReportsTruth
  <2>2. CASE ConfirmTrades(c) \/ PollRecordFilled(c) \/ DeadlinePartial(c)
    BY <2>2 DEF ConfirmTrades, PollRecordFilled, DeadlinePartial, Filled, ReportsTruth
  <2> QED BY <1>6, <2>1, <2>2
          DEF Settle, PollTrades, PollRecordLive, DeadlineAmbiguous, AfterFailure
<1>7. ASSUME \/ \E c \in Callers, s \in Sides : Decide(c, s)
             \/ \E s \in Sides : LockExpires(s)
             \/ \E o \in Orders : Venue(o)
             \/ Restart \/ UNCHANGED vars
      PROVE  cloud' = cloud
  BY <1>7 DEF Decide, LockExpires, Venue, VenueMatches, VenueKills, VenueCloses,
              VenueShows, Restart, vars
<1> QED BY <1>1, <1>2, <1>3, <1>4, <1>5, <1>6, <1>7 DEF Next, Place, Sign

\* Settled facts about the orders: who signed what never changes, and a venue
\* verdict is for ever.
LEMMA OrdersGrow ==
  ASSUME IInv, [Next]_vars
  PROVE  \A o \in Orders :
           /\ order[o].side # "none" => order'[o] = order[o]
           /\ order[o].side = "none" => venue'[o] = venue[o]
           /\ venue[o].filled <= venue'[o].filled
           /\ venue[o].stat \in {"rejected", "killed"} => venue'[o].stat = venue[o].stat
<1> USE DEF IInv, TypeOK
<1>0. \A o \in Orders : venue[o].filled \in Nat
  BY BoundsAreNatural DEF VenueState
<1>1. CASE UNCHANGED <<order, venue>>
  BY <1>0, <1>1
<1>2. ASSUME NEW c \in Callers, SignGranted(c)
      PROVE  \A o \in Orders :
               /\ order[o].side # "none" => order'[o] = order[o]
               /\ venue'[o] = venue[o]
  BY <1>2 DEF SignGranted, Fresh, RecordsTyped
<1>3. ASSUME NEW c \in Callers,
             PostRejected(c) \/ PostKilled(c) \/ PostMatched(c) \/ PostDelayed(c)
      PROVE  /\ order' = order
             /\ \A o \in Orders \ {post[c].cur} : venue'[o] = venue[o]
             /\ post[c].cur \in Orders /\ order[post[c].cur].side # "none"
             /\ venue[post[c].cur].stat = "none" /\ venue[post[c].cur].filled = 0
             /\ venue'[post[c].cur].filled \in Nat
  <2>1. pc[c] = "post"
    BY <1>3 DEF PostRejected, PostKilled, PostMatched, PostDelayed
  <2>2. /\ post[c].cur \in Orders /\ order[post[c].cur].side # "none"
        /\ venue[post[c].cur].stat = "none"
    BY <2>1, RowInHand DEF InFlight, LoopsCoherent, PostTrue
  <2>3. venue[post[c].cur].filled = 0
    BY <1>0, <2>2 DEF VenueCoherent
  <2>4. order' = order
    BY <1>3 DEF PostRejected, PostKilled, PostMatched, PostDelayed, Answer
  <2>5. \E s : \E n \in Nat :
           venue' = [venue EXCEPT ![post[c].cur].stat = s, ![post[c].cur].filled = n]
    <3>1. CASE PostRejected(c) \/ PostKilled(c) \/ PostDelayed(c)
      BY <3>1 DEF PostRejected, PostKilled, PostDelayed, Answer
    <3>2. CASE PostMatched(c)
      <4>1. PICK k \in Trades : venue' = [venue EXCEPT ![post[c].cur].stat = "closed",
                                                       ![post[c].cur].filled = k]
        BY <3>2 DEF PostMatched, Answer
      <4>2. k \in Nat
        BY BoundsAreNatural DEF Trades
      <4> QED BY <4>1, <4>2
    <3> QED BY <1>3, <3>1, <3>2
  <2>6. \A o \in Orders \ {post[c].cur} : venue'[o] = venue[o]
    BY <2>5
  <2>7. venue'[post[c].cur].filled \in Nat
    BY <2>2, <2>5 DEF VenueState
  <2> QED BY <2>2, <2>3, <2>4, <2>6, <2>7
<1>4. ASSUME NEW p \in Orders, Venue(p)
      PROVE  \A o \in Orders :
               /\ order' = order
               /\ order[o].side = "none" => venue'[o] = venue[o]
               /\ venue[o].filled <= venue'[o].filled
               /\ venue[o].stat \in {"rejected", "killed"} => venue'[o].stat = venue[o].stat
  <2>1. order' = order
    BY <1>4 DEF Venue, VenueMatches, VenueKills, VenueCloses, VenueShows
  <2>2. \A o \in Orders : o # p => venue'[o] = venue[o]
    BY <1>4 DEF Venue, VenueMatches, VenueKills, VenueCloses, VenueShows
  <2>3. order[p].side # "none"
    <3>1. venue[p].stat # "none" \/ venue[p].filled > 0
      BY <1>0, <1>4 DEF Venue, VenueMatches, VenueKills, VenueCloses, VenueShows
    <3> QED BY <3>1 DEF OrdersCoherent, VenueCoherent
  <2> QED BY <1>4, <2>1, <2>2, <2>3, VenueStepGrows
<1> QED BY <1>0, <1>1, <1>2, <1>3, <1>4, WhoMovesTheVenue

\* The row of a running decision is a signed order of its side.
LEMMA RowIsSigned ==
  ASSUME IInv, NEW c \in Callers, ctx[c].row # None
  PROVE  /\ ctx[c].row \in Orders
         /\ order[ctx[c].row].side = ctx[c].side
         /\ order[ctx[c].row].side # "none"
<1> USE DEF IInv, TypeOK
<1>1. ctx[c].row \in Orders
  BY DEF LoopsTyped, Context, OrderOrNone, Orders, None
<1>2. ctx[c].decision # None /\ order[ctx[c].row].decision = ctx[c].decision
  BY DEF LoopsCoherent, ContextCoherent
<1> QED BY <1>1, <1>2 DEF OrdersCoherent, LoopsCoherent, DecisionIsPrivate

LEMMA BuyZeroStep ==
  ASSUME IInv, [Next]_vars
  PROVE  BuyZeroReportsAreTrue'
<1> SUFFICES ASSUME NEW o \in Orders, order'[o].side = "BUY", cloud'[o] = "zero"
             PROVE  venue'[o].stat \in {"rejected", "killed"}
  BY DEF BuyZeroReportsAreTrue, ZeroReportsAreTrue
<1> USE DEF IInv, TypeOK
<1>1. CASE cloud[o] = "zero"
  BY <1>1, OrdersGrow DEF OrdersCoherent, BuyZeroReportsAreTrue, ZeroReportsAreTrue
<1>2. CASE cloud[o] # "zero"
  <2>1. PICK c \in Callers, x \in {"zero", "filled"} : CloseOut(c, x) /\ ReportsTruth(c, x)
    BY <1>2, ReportedOnce DEF RecordsTyped
  <2>2. ctx[c].row = o /\ x = "zero" /\ o # None
    BY <1>2, <2>1 DEF CloseOut, RecordsTyped
  <2>3. order[o].side = ctx[c].side /\ order'[o] = order[o]
    BY <2>2, RowIsSigned, OrdersGrow
  <2> QED BY <2>1, <2>2, <2>3, OrdersGrow DEF ReportsTruth
<1> QED BY <1>1, <1>2

LEMMA VerdictsStep ==
  ASSUME IInv, [Next]_vars
  PROVE  VerdictsMatchVenue'
<1> USE DEF IInv, TypeOK
<1>0. \A o \in Orders : venue[o].filled \in Nat /\ booked[o].shares \in Nat
  BY BoundsAreNatural DEF VenueState, RecordsTyped, Verdict
<1>a. venue' \in [Orders -> VenueState]
  BY TypeStep, IInvHasInHand
<1>b. \A o \in Orders : venue'[o].filled \in Nat
  BY <1>a, BoundsAreNatural DEF VenueState
<1>1. CASE booked' = booked
  BY <1>0, <1>b, <1>1, OrdersGrow DEF VerdictsMatchVenue
<1>2. CASE booked' # booked
  <2>0. PICK o \in Orders : \E v, n :
          /\ Book(o, v, n) /\ order[o].side # "none" /\ UNCHANGED venue
          /\ v = "filled" => n \in 1 .. venue[o].filled
          /\ v = "killed" => venue[o].stat = "killed"
    BY <1>2, BookedOnce
  <2>1. PICK v, n :
          /\ Book(o, v, n) /\ order[o].side # "none" /\ UNCHANGED venue
          /\ v = "filled" => n \in 1 .. venue[o].filled
          /\ v = "killed" => venue[o].stat = "killed"
    BY <2>0
  <2>2. \A p \in Orders : p # o => booked'[p] = booked[p]
    BY <2>1 DEF Book, RecordsTyped
  <2>3. booked'[o].verdict = v /\ booked'[o].shares = n
    BY <2>1 DEF Book, RecordsTyped
  <2> QED BY <2>1, <2>2, <2>3 DEF VerdictsMatchVenue
<1> QED BY <1>1, <1>2

\* An order is signed into a new decision of its own or into a running one.
LEMMA SignedOnce ==
  ASSUME IInv, [Next]_vars
  PROVE  \/ order' = order
         \/ \E o \in Orders, e \in Orders :
              /\ order[o].side = "none"
              /\ \A p \in Orders \ {o} : order'[p] = order[p]
              /\ order'[o].side # "none" /\ order'[o].decision = e
              /\ e = o \/ order[e].side # "none"
<1> USE DEF IInv, TypeOK
<1>1. ASSUME NEW c \in Callers, SignGranted(c)
      PROVE  \E o \in Orders, e \in Orders :
              /\ order[o].side = "none"
              /\ \A p \in Orders \ {o} : order'[p] = order[p]
              /\ order'[o].side # "none" /\ order'[o].decision = e
              /\ e = o \/ order[e].side # "none"
  <2>1. PICK o \in Orders :
          LET d == IF ctx[c].decision = None THEN o ELSE ctx[c].decision
          IN /\ Fresh(o)
             /\ order' = [order EXCEPT ![o] = [side |-> ctx[c].side,
                                      size |-> ctx[c].size, decision |-> d]]
    BY <1>1 DEF SignGranted
  <2> DEFINE e == IF ctx[c].decision = None THEN o ELSE ctx[c].decision
  <2>2. order[o].side = "none" /\ ctx[c].side # "none"
    BY <2>1 DEF Fresh, LoopsTyped, Context
  <2>3. /\ \A p \in Orders \ {o} : order'[p] = order[p]
        /\ order'[o].side = ctx[c].side /\ order'[o].decision = e
    BY <2>1 DEF RecordsTyped
  <2>4. e \in Orders /\ (e = o \/ order[e].side # "none")
    <3>1. CASE ctx[c].decision = None
      BY <3>1
    <3>2. CASE ctx[c].decision # None
      <4>1. ctx[c].row # None /\ order[ctx[c].row].decision = ctx[c].decision
        BY <3>2 DEF LoopsCoherent, ContextCoherent
      <4> QED BY <3>2, <4>1, RowIsSigned DEF OrdersCoherent
    <3> QED BY <3>1, <3>2
  <2> HIDE DEF e
  <2> QED BY <2>2, <2>3, <2>4
<1>2. ASSUME NEW c \in Callers,
             PostRejected(c) \/ PostKilled(c) \/ PostMatched(c) \/ PostDelayed(c)
      PROVE  order' = order
  BY <1>2 DEF PostRejected, PostKilled, PostMatched, PostDelayed, Answer
<1>3. ASSUME NEW o \in Orders, Venue(o)
      PROVE  order' = order
  BY <1>3 DEF Venue, VenueMatches, VenueKills, VenueCloses, VenueShows
<1> QED BY <1>1, <1>2, <1>3, WhoMovesTheVenue

LEMMA OrdersStep ==
  ASSUME IInv, [Next]_vars
  PROVE  OrdersCoherent'
<1> USE DEF IInv, TypeOK
<1>1. \A o \in Orders : order'[o].side = "none" => order'[o] = order[o]
  BY SignedOnce
<1>2. ASSUME NEW o \in Orders, order'[o].side = "none"
      PROVE  /\ order'[o].decision = None /\ venue'[o].stat = "none"
             /\ booked'[o].verdict = "none" /\ cloud'[o] = "none"
  <2>0. order[o].side = "none" /\ order'[o].decision = None /\ cloud[o] = "none"
    BY <1>1, <1>2 DEF OrdersCoherent
  <2>1. venue'[o].stat = "none"
    BY <2>0, OrdersGrow DEF OrdersCoherent
  <2>2. booked'[o].verdict = "none"
    BY <2>0, BookedOnce DEF OrdersCoherent, Book, RecordsTyped
  <2>3. cloud'[o] = "none"
    <3>1. ASSUME NEW p \in Orders, cloud' = [cloud EXCEPT ![p] = "open"],
                 order'[p].side # "none"
          PROVE  cloud'[o] = "none"
      BY <1>2, <2>0, <3>1 DEF RecordsTyped
    <3>2. ASSUME NEW c \in Callers, NEW x \in {"zero", "filled"}, CloseOut(c, x)
          PROVE  cloud'[o] = "none"
      <4>1. ctx[c].row # o
        BY <2>0, RowIsSigned DEF Orders, None
      <4> QED BY <2>0, <3>2, <4>1 DEF CloseOut, RecordsTyped
    <3> QED BY <2>0, <3>1, <3>2, ReportedOnce
  <2> QED BY <2>0, <2>1, <2>2, <2>3
<1>3. ASSUME NEW o \in Orders, order'[o].side # "none"
      PROVE  order'[o].decision \in {d \in Orders : order'[d].side # "none"}
  <2>1. CASE order' = order
    BY <1>3, <2>1 DEF OrdersCoherent
  <2>2. CASE order' # order
    <3>1. PICK p \in Orders, e \in Orders :
              /\ order[p].side = "none"
              /\ \A q \in Orders \ {p} : order'[q] = order[q]
              /\ order'[p].side # "none" /\ order'[p].decision = e
              /\ e = p \/ order[e].side # "none"
      BY <2>2, SignedOnce
    <3>2. CASE o = p
      BY <3>1, <3>2
    <3>3. CASE o # p
      BY <1>3, <3>1, <3>3 DEF OrdersCoherent
    <3> QED BY <3>2, <3>3
  <2> QED BY <2>1, <2>2
<1> QED BY <1>2, <1>3 DEF OrdersCoherent

LEMMA VenueCoherentStep ==
  ASSUME IInv, [Next]_vars
  PROVE  VenueCoherent'
<1> USE BoundsAreNatural DEF IInv, TypeOK
<1>0. \A o \in Orders : venue[o].filled \in Nat
  BY DEF VenueState
<1>1. CASE venue' = venue
  BY <1>1 DEF VenueCoherent
<1>2. ASSUME NEW c \in Callers,
             PostRejected(c) \/ PostKilled(c) \/ PostMatched(c) \/ PostDelayed(c)
      PROVE  VenueCoherent'
  <2>1. pc[c] = "post"
    BY <1>2 DEF PostRejected, PostKilled, PostMatched, PostDelayed
  <2>2. post[c].cur \in Orders /\ venue[post[c].cur].stat = "none"
    BY <2>1, RowInHand DEF InFlight, LoopsCoherent, PostTrue
  <2>3. venue[post[c].cur].filled = 0 /\ venue[post[c].cur].visible = {}
    BY <1>0, <2>2 DEF VenueCoherent
  <2>4. \E s \in {"rejected", "killed", "delayed", "closed"} : \E n \in Nat :
           /\ venue' = [venue EXCEPT ![post[c].cur].stat = s, ![post[c].cur].filled = n]
           /\ n > 0 <=> s = "closed"
    <3>1. CASE PostRejected(c) \/ PostKilled(c) \/ PostDelayed(c)
      <4>1. PICK s \in {"rejected", "killed", "delayed"} :
              venue' = [venue EXCEPT ![post[c].cur].stat = s, ![post[c].cur].filled = 0]
        BY <3>1 DEF PostRejected, PostKilled, PostDelayed, Answer
      <4>2. 0 \in Nat /\ (0 > 0 <=> s = "closed")
        OBVIOUS
      <4> QED BY <4>1, <4>2, Zenon
    <3>2. CASE PostMatched(c)
      <4>1. PICK k \in Trades : venue' = [venue EXCEPT ![post[c].cur].stat = "closed",
                                                       ![post[c].cur].filled = k]
        BY <3>2 DEF PostMatched, Answer
      <4>2. k \in Nat /\ k > 0
        BY DEF Trades
      <4> QED BY <4>1, <4>2
    <3> QED BY <1>2, <3>1, <3>2
  <2>5. PICK s \in {"rejected", "killed", "delayed", "closed"}, n \in Nat :
           /\ venue' = [venue EXCEPT ![post[c].cur].stat = s, ![post[c].cur].filled = n]
           /\ n > 0 <=> s = "closed"
    BY <2>4
  <2>6. \A o \in Orders \ {post[c].cur} : venue'[o] = venue[o]
    BY <2>5
  <2>7. /\ venue'[post[c].cur].stat = s /\ venue'[post[c].cur].filled = n
        /\ venue'[post[c].cur].visible = {}
    BY <2>2, <2>3, <2>5 DEF VenueState
  <2> QED BY <2>5, <2>6, <2>7 DEF VenueCoherent
<1>3. ASSUME NEW p \in Orders, Venue(p)
      PROVE  VenueCoherent'
  <2>1. \A o \in Orders \ {p} : venue'[o] = venue[o]
    BY <1>3 DEF Venue, VenueMatches, VenueKills, VenueCloses, VenueShows
  <2>2. /\ venue'[p].filled > 0 <=> venue'[p].stat \in {"matching", "closed"}
        /\ venue'[p].visible \subseteq 1 .. venue'[p].filled
    <3>1. CASE VenueMatches(p)
      <4>1. PICK k \in Trades : venue' = [venue EXCEPT ![p].stat = "matching",
                                                       ![p].filled = k]
        BY <3>1 DEF VenueMatches
      <4>2. venue'[p].stat = "matching" /\ venue'[p].filled = k
            /\ venue'[p].visible = venue[p].visible
        BY <4>1 DEF VenueState
      <4>3. venue[p].visible = {}
        BY <1>0, <3>1 DEF VenueMatches, VenueCoherent
      <4> QED BY <4>2, <4>3 DEF Trades
    <3>2. CASE VenueKills(p)
      BY <1>0, <3>2 DEF VenueKills, VenueCoherent, VenueState
    <3>3. CASE VenueCloses(p)
      BY <1>0, <3>3 DEF VenueCloses, VenueCoherent, VenueState
    <3>4. CASE VenueShows(p)
      BY <1>0, <3>4 DEF VenueShows, VenueCoherent, VenueState
    <3> QED BY <1>3, <3>1, <3>2, <3>3, <3>4 DEF Venue
  <2> QED BY <2>1, <2>2 DEF VenueCoherent
<1>4. ASSUME NEW c \in Callers, SignGranted(c)
      PROVE  venue' = venue
  BY <1>4 DEF SignGranted
<1> QED BY <1>1, <1>2, <1>3, <1>4, WhoMovesTheVenue

LEMMA OneOrderStep ==
  ASSUME IInv, [Next]_vars
  PROVE  OneOrderPerBuyDecision'
<1> SUFFICES ASSUME NEW o \in Orders, NEW p \in Orders, o # p,
                    order'[o].side = "BUY", order'[o].decision = order'[p].decision
             PROVE  \/ venue'[o].stat \in {"none", "rejected"}
                    \/ venue'[p].stat \in {"none", "rejected"}
  BY DEF OneOrderPerBuyDecision
<1> USE DEF IInv, TypeOK
<1>0. OrdersCoherent' /\ LoopsCoherent'
  BY OrdersStep, LoopsStep
<1>1. order'[o].side # "none" /\ order'[p].side # "none"
  BY <1>0 DEF OrdersCoherent, Orders, None
<1>2. CASE order[o].side = "none"
  BY <1>2, OrdersGrow DEF OrdersCoherent
<1>3. CASE order[p].side = "none"
  BY <1>3, OrdersGrow DEF OrdersCoherent
<1>4. CASE order[o].side # "none" /\ order[p].side # "none"
  <2>0. order'[o] = order[o] /\ order'[p] = order[p]
    BY <1>4, OrdersGrow
  <2>1. \/ venue[o].stat \in {"none", "rejected"}
        \/ venue[p].stat \in {"none", "rejected"}
    BY <2>0 DEF OneOrderPerBuyDecision
  <2>2. ASSUME NEW q \in Orders, venue[q].stat = "rejected"
        PROVE  venue'[q].stat = "rejected"
    BY <2>2, OrdersGrow
  <2>3. CASE UNCHANGED <<order, venue>> \/ \E c \in Callers : SignGranted(c)
    BY <2>1, <2>3 DEF SignGranted
  <2>4. ASSUME NEW c \in Callers,
               PostRejected(c) \/ PostKilled(c) \/ PostMatched(c) \/ PostDelayed(c)
        PROVE  \/ venue'[o].stat \in {"none", "rejected"}
               \/ venue'[p].stat \in {"none", "rejected"}
    <3>1. pc[c] = "post" /\ \A q \in Orders \ {post[c].cur} : venue'[q] = venue[q]
      BY <2>4 DEF PostRejected, PostKilled, PostMatched, PostDelayed, Answer
    <3>2. CASE post[c].cur \notin {o, p}
      BY <2>1, <3>1, <3>2
    <3>3. CASE post[c].cur \in {o, p}
      <4>1. /\ ctx[c].decision # None /\ order[post[c].cur].decision = ctx[c].decision
            /\ order[post[c].cur].side = ctx[c].side
        BY <3>1, RowInHand DEF InFlight
      <4>2. order[o].side = "BUY" /\ order[o].decision = order[p].decision
        BY <2>0
      <4>3. order[o].decision = ctx[c].decision /\ order[p].decision = ctx[c].decision
        BY <3>3, <4>1, <4>2
      <4>4. ctx[c].side = "BUY"
        BY <4>1, <4>2, <4>3 DEF LoopsCoherent, DecisionIsPrivate
      <4>5. \A q \in {o, p} : q # post[c].cur => venue[q].stat = "rejected"
        BY <4>1, <4>3, <4>4 DEF LoopsCoherent, EarlierBuysRejected
      <4> QED BY <2>2, <3>3, <4>5
    <3> QED BY <3>2, <3>3
  <2>5. ASSUME NEW q \in Orders, Venue(q)
        PROVE  \/ venue'[o].stat \in {"none", "rejected"}
               \/ venue'[p].stat \in {"none", "rejected"}
    BY <2>1, <2>5, VenueStepGrows
  <2> QED BY <2>3, <2>4, <2>5, WhoMovesTheVenue
<1> QED BY <1>2, <1>3, <1>4

\* A loop leaves settle and confirm only over the lock of its side.
LEMMA PendingLockStep ==
  ASSUME IInv, [Next]_vars
  PROVE  PendingLockHasOwner'
<1> USE DEF IInv, TypeOK, RecordsTyped
<1>0. \A c \in Callers : ctx[c].side \in {"BUY", "SELL"}
  BY DEF LoopsTyped, Context
<1> DEFINE Owned(s) == Locked(s) /\ ~locks[s].held =>
             \E c \in Callers : Follows(c, s) /\ post[c].cur = locks[s].order
<1>1. SUFFICES ASSUME NEW s \in Sides
               PROVE  Owned(s)'
  BY DEF PendingLockHasOwner
<1>2. Owned(s) /\ s \in {"BUY", "SELL"}
  BY SidesKnown DEF PendingLockHasOwner
\* a loop that was not following cannot lose the lock
<1>3. ASSUME NEW c \in Callers, pc[c] \notin {"settle", "confirm"}, OthersStay(c),
             locks' = locks
      PROVE  Owned(s)'
  BY <1>2, <1>3 DEF OthersStay, Follows, Locked
<1>4. ASSUME NEW c \in Callers, NEW x \in LockState, OthersStay(c),
             locks' = [locks EXCEPT ![ctx[c].side] = x], x.order # None => x.held
      PROVE  Owned(s)'
  <2>1. CASE ctx[c].side = s
    BY <1>2, <1>4, <2>1 DEF Locked
  <2>2. CASE ctx[c].side # s
    BY <1>2, <1>4, <2>2 DEF Locked, OthersStay, Follows
  <2> QED BY <2>1, <2>2
<1>5. ASSUME NEW c \in Callers, Finish(c)
      PROVE  OthersStay(c)
  BY <1>5 DEF OthersStay, Finish, To, LoopsTyped
<1>6. ASSUME NEW c \in Callers, NEW b \in BOOLEAN, AfterFailure(c, b)
      PROVE  OthersStay(c)
  BY <1>5, <1>6 DEF AfterFailure, OthersStay, To, LoopsTyped
<1>7. NoLock \in LockState /\ NoLock.order = None
  BY BlanksTyped DEF NoLock
<1>8. ASSUME NEW c \in Callers, NEW t \in Sides, Decide(c, t)
      PROVE  Owned(s)'
  <2>1. OthersStay(c) /\ pc[c] = "idle" /\ locks' = locks
    BY <1>8 DEF Decide, OthersStay, To, LoopsTyped
  <2> QED BY <1>3, <2>1
<1>9. ASSUME NEW c \in Callers, Place(c)
      PROVE  Owned(s)'
  <2>1. pc[c] = "place" /\ locks' = locks
    BY <1>9 DEF Place, PlaceLocked, PlaceRefused, PlaceAccepted, SellHeld
  <2>2. OthersStay(c)
    BY <1>5, <1>6, <1>9 DEF Place, PlaceLocked, PlaceRefused, PlaceAccepted, SellHeld,
                            OthersStay, To, LoopsTyped
  <2> QED BY <1>3, <2>1, <2>2
<1>10. ASSUME NEW c \in Callers, Sign(c)
       PROVE  Owned(s)'
  <2>1. pc[c] = "sign" /\ locks' = locks
    BY <1>10 DEF Sign, SignGranted, SignRefused, SignFailed
  <2>2. OthersStay(c)
    BY <1>5, <1>6, <1>10 DEF Sign, SignGranted, SignRefused, SignFailed,
                             OthersStay, To, LoopsTyped
  <2> QED BY <1>3, <2>1, <2>2
<1>11. ASSUME NEW c \in Callers, Post(c)
       PROVE  Owned(s)'
  <2>1. pc[c] = "post" /\ locks' = locks
    BY <1>11 DEF Post, PostLost, PostRejected, PostKilled, PostMatched, PostDelayed, Answer
  <2>2. OthersStay(c)
    BY <1>11 DEF Post, PostLost, PostRejected, PostKilled, PostMatched, PostDelayed, Answer,
                 OthersStay, To, LoopsTyped
  <2> QED BY <1>3, <2>1, <2>2
<1>12. ASSUME NEW c \in Callers, Reply(c)
       PROVE  Owned(s)'
  <2>1. CASE ReplyDelayed(c)
    <3>1. /\ OthersStay(c) /\ pc[c] = "reply" /\ pc'[c] = "settle" /\ ctx'[c] = ctx[c]
          /\ post'[c].cur = post[c].cur
          /\ locks' = [locks EXCEPT ![ctx[c].side] =
                         [order |-> post[c].cur, held |-> FALSE]]
      BY <2>1 DEF ReplyDelayed, OthersStay, To, LoopsTyped, PostState
    <3>2. CASE ctx[c].side = s
      BY <1>2, <3>1, <3>2 DEF Follows, Locked
    <3>3. CASE ctx[c].side # s
      BY <1>2, <3>1, <3>3 DEF Follows, Locked, OthersStay
    <3> QED BY <3>2, <3>3
  <2>2. CASE ReplyRejectedRepost(c)
    <3>1. OthersStay(c) /\ pc[c] = "reply" /\ locks' = locks
      BY <2>2 DEF ReplyRejectedRepost, OthersStay, To, LoopsTyped
    <3> QED BY <1>3, <3>1
  <2>3. CASE ~ReplyDelayed(c) /\ ~ReplyRejectedRepost(c)
    <3>1. pc[c] = "reply" /\ locks' = locks /\ OthersStay(c)
      BY <1>5, <1>6, <1>12, <2>3
         DEF Reply, ReplyLost, ReplyRejected, ReplyZero, ReplyFill, ReplyUnreadable,
             ReplyNoId, Filled
    <3> QED BY <1>3, <3>1
  <2> QED BY <2>1, <2>2, <2>3
<1>13. ASSUME NEW c \in Callers, Settle(c)
       PROVE  Owned(s)'
  <2>1. CASE ConfirmTrades(c) \/ PollRecordFilled(c) \/ PollRecordKilled(c)
                \/ DeadlinePartial(c)
    <3>1. Unlock(c) /\ OthersStay(c)
      BY <1>5, <1>6, <2>1 DEF ConfirmTrades, PollRecordFilled, PollRecordKilled,
                              DeadlinePartial, Filled
    <3> QED BY <1>4, <1>7, <3>1 DEF Unlock
  <2>2. CASE DeadlineAmbiguous(c)
    <3>1. [order |-> post[c].cur, held |-> TRUE] \in LockState
      BY DEF LoopsTyped, PostState, LockState
    <3>2. OthersStay(c)
      BY <1>6, <2>2 DEF DeadlineAmbiguous
    <3> QED BY <1>4, <2>2, <3>1, <3>2 DEF DeadlineAmbiguous
  <2>3. CASE PollTrades(c) \/ PollRecordLive(c)
    <3>1. /\ OthersStay(c) /\ pc'[c] \in {"settle", "confirm"} /\ ctx' = ctx
          /\ locks' = locks /\ post'[c].cur = post[c].cur
      BY <2>3 DEF PollTrades, PollRecordLive, OthersStay, To, LoopsTyped, PostState
    <3> QED BY <1>2, <3>1 DEF Follows, Locked, OthersStay
  <2> QED BY <1>13, <2>1, <2>2, <2>3 DEF Settle
<1>14. ASSUME NEW t \in Sides, LockExpires(t)
       PROVE  Owned(s)'
  <2>1. CASE s = t
    BY <1>2, <1>7, <1>14, <2>1 DEF LockExpires, Locked
  <2>2. CASE s # t
    BY <1>2, <1>14, <2>2 DEF LockExpires, Locked, Follows
  <2> QED BY <2>1, <2>2
<1>15. CASE Restart
  BY <1>2, <1>7, <1>15 DEF Restart, Locked
<1>16. CASE (\E o \in Orders : Venue(o)) \/ UNCHANGED vars
  BY <1>2, <1>16 DEF Venue, VenueMatches, VenueKills, VenueCloses, VenueShows, vars,
                     Locked, Follows
<1> HIDE DEF Owned
<1> QED BY <1>8, <1>9, <1>10, <1>11, <1>12, <1>13, <1>14, <1>15, <1>16 DEF Next

-----------------------------------------------------------------------------
(***************************************************************************)
(* The governor.  Loops past the clamp of riskClampBuy share its room: the *)
(* one clamped last was left no more than there was, and each of the       *)
(* others adds at most one post.                                           *)
(***************************************************************************)
Past(c) == ctx[c].side = "BUY" /\ pc[c] \in {"sign"} \cup InFlight
Clamped == {c \in Callers : Past(c)}
Sizes == [c \in Callers |-> ctx[c].size]
Ceiling == HourCap + (Cardinality(Callers) - 1) * Size

\* With u shares in the window, what the loops D of sizes z may add stays
\* below the ceiling: one post each, or one of them no more than its size.
Fits(u, D, z) ==
  \/ u + Cardinality(D) * Size <= Ceiling
  \/ \E c \in D : u + z[c] + Cardinality(D \ {c}) * Size <= Ceiling

WithinCeiling == Fits(ledger.usd, Clamped, Sizes)

\* Nothing fills beyond what was signed, and what is in hand was signed for
\* the clamped size.
FillsFit ==
  /\ \A o \in Orders : venue[o].filled <= order[o].size
  /\ \A c \in Callers : pc[c] \in InFlight => order[post[c].cur].size = ctx[c].size

LEMMA PostsAddUp ==
  ASSUME NEW m \in Nat, NEW n \in Nat, m <= n
  PROVE  /\ m * Size \in Nat /\ m * Size <= n * Size
         /\ (n + 1) * Size = n * Size + Size
<1>1. Size \in Nat
  BY BoundsAreNatural
<1>2. PICK k \in Nat : n = m + k
  <2>1. n - m \in Nat /\ n = m + (n - m)
    OBVIOUS
  <2> QED BY <2>1
<1>3. k * Size \in Nat /\ m * Size \in Nat /\ (m + k) * Size = m * Size + k * Size
  BY <1>1
<1>4. (n + 1) * Size = n * Size + Size
  BY <1>1
<1> QED BY <1>2, <1>3, <1>4

LEMMA LoopsCounted ==
  ASSUME NEW D \in SUBSET Callers
  PROVE  /\ Cardinality(D) \in Nat /\ Cardinality(D) <= Cardinality(Callers)
         /\ Cardinality(Callers) \in Nat /\ Cardinality(Callers) > 0
         /\ \A c \in D : Cardinality(D) = Cardinality(D \ {c}) + 1
         /\ \A E \in SUBSET D : Cardinality(E) \in Nat /\ Cardinality(E) <= Cardinality(D)
<1>1. IsFiniteSet(D) /\ Cardinality(D) <= Cardinality(Callers)
  BY CallersFinite, FS_Subset
<1>2. Cardinality(D) \in Nat /\ Cardinality(Callers) \in Nat
  BY <1>1, CallersFinite, FS_CardinalityType
<1>3. Cardinality(Callers) # 0
  BY CallersFinite, FS_EmptySet
<1>4. ASSUME NEW E \in SUBSET D
      PROVE  IsFiniteSet(E) /\ Cardinality(E) \in Nat /\ Cardinality(E) <= Cardinality(D)
  BY <1>1, FS_Subset, FS_CardinalityType
<1>5. ASSUME NEW c \in D
      PROVE  Cardinality(D) = Cardinality(D \ {c}) + 1
  <2>1. Cardinality(D \ {c}) = Cardinality(D) - 1 /\ Cardinality(D \ {c}) \in Nat
    BY <1>1, <1>4, FS_RemoveElement
  <2> QED BY <1>2, <2>1
<1> QED BY <1>1, <1>2, <1>3, <1>4, <1>5

LEMMA CeilingNatural ==
  /\ Ceiling \in Nat /\ HourCap \in Nat
  /\ \A n \in Nat : n < Cardinality(Callers) => HourCap + n * Size <= Ceiling
<1>1. Cardinality(Callers) \in Nat /\ Cardinality(Callers) - 1 \in Nat
  BY LoopsCounted
<1>2. (Cardinality(Callers) - 1) * Size \in Nat /\ HourCap \in Nat
  BY <1>1, PostsAddUp, BoundsAreNatural
<1>3. ASSUME NEW n \in Nat, n < Cardinality(Callers)
      PROVE  n * Size \in Nat /\ n * Size <= (Cardinality(Callers) - 1) * Size
  <2>1. n <= Cardinality(Callers) - 1
    BY <1>1, <1>3
  <2> QED BY <1>1, <2>1, PostsAddUp
<1> QED BY <1>2, <1>3 DEF Ceiling

\* Some loops leave, and the others keep their sizes.
LEMMA FitsShrink ==
  ASSUME NEW u \in Nat, NEW D \in SUBSET Callers, NEW E \in SUBSET D,
         NEW z \in [Callers -> 0 .. Size], NEW y \in [Callers -> 0 .. Size],
         \A c \in E : y[c] = z[c], Fits(u, D, z)
  PROVE  Fits(u, E, y)
<1>0. Ceiling \in Nat /\ Size \in Nat
  BY CeilingNatural, BoundsAreNatural
<1>1. CASE u + Cardinality(D) * Size <= Ceiling
  <2>1. Cardinality(E) \in Nat /\ Cardinality(D) \in Nat /\ Cardinality(E) <= Cardinality(D)
    BY LoopsCounted
  <2>2. /\ Cardinality(E) * Size \in Nat /\ Cardinality(D) * Size \in Nat
        /\ Cardinality(E) * Size <= Cardinality(D) * Size
    BY <2>1, PostsAddUp
  <2> QED BY <1>0, <1>1, <2>2 DEF Fits
<1>2. ASSUME NEW c \in D, u + z[c] + Cardinality(D \ {c}) * Size <= Ceiling
      PROVE  Fits(u, E, y)
  <2>1. /\ Cardinality(E \ {c}) \in Nat /\ Cardinality(D \ {c}) \in Nat
        /\ Cardinality(E \ {c}) <= Cardinality(D \ {c})
    <3>1. D \ {c} \in SUBSET Callers /\ E \ {c} \in SUBSET (D \ {c})
      OBVIOUS
    <3> QED BY <3>1, LoopsCounted
  <2>2. /\ Cardinality(E \ {c}) * Size \in Nat /\ Cardinality(D \ {c}) * Size \in Nat
        /\ Cardinality(E \ {c}) * Size <= Cardinality(D \ {c}) * Size
    BY <2>1, PostsAddUp
  <2>3. z[c] \in Nat
    BY <1>0
  <2>4. u + z[c] + Cardinality(E \ {c}) * Size <= Ceiling
    BY <1>0, <1>2, <2>2, <2>3
  <2>5. CASE c \in E
    BY <2>4, <2>5 DEF Fits
  <2>6. CASE c \notin E
    <3>1. E \ {c} = E
      BY <2>6
    <3>2. u + Cardinality(E \ {c}) * Size <= Ceiling
      BY <1>0, <2>2, <2>3, <2>4
    <3> QED BY <3>1, <3>2 DEF Fits
  <2> QED BY <2>5, <2>6
<1> QED BY <1>1, <1>2 DEF Fits

\* A loop spends no more than its size, and leaves.
LEMMA FitsSpend ==
  ASSUME NEW u \in Nat, NEW D \in SUBSET Callers, NEW c \in D,
         NEW z \in [Callers -> 0 .. Size], NEW y \in [Callers -> 0 .. Size],
         NEW k \in 0 .. z[c], \A d \in D \ {c} : y[d] = z[d], Fits(u, D, z)
  PROVE  Fits(u + k, D \ {c}, y)
<1>0. Ceiling \in Nat /\ Size \in Nat /\ k \in Nat /\ z[c] \in Nat /\ k <= z[c] /\ k <= Size
  BY CeilingNatural, BoundsAreNatural
<1> DEFINE n == Cardinality(D \ {c})
<1>1. n \in Nat /\ Cardinality(D) = n + 1
  BY LoopsCounted
<1>2. n * Size \in Nat /\ Cardinality(D) * Size = n * Size + Size
  BY <1>1, PostsAddUp
<1>3. CASE u + Cardinality(D) * Size <= Ceiling
  <2>1. u + k + n * Size <= Ceiling
    BY <1>0, <1>2, <1>3
  <2> QED BY <2>1 DEF Fits
<1>4. CASE u + z[c] + n * Size <= Ceiling
  <2>1. u + k + n * Size <= Ceiling
    BY <1>0, <1>2, <1>4
  <2> QED BY <2>1 DEF Fits
<1>5. ASSUME NEW d \in D \ {c}, u + z[d] + Cardinality(D \ {d}) * Size <= Ceiling
      PROVE  Fits(u + k, D \ {c}, y)
  <2> DEFINE m == Cardinality((D \ {c}) \ {d})
  <2>1. m \in Nat /\ Cardinality(D \ {d}) = m + 1
    <3>1. /\ D \ {d} \in SUBSET Callers /\ c \in D \ {d}
          /\ (D \ {d}) \ {c} = (D \ {c}) \ {d} /\ (D \ {c}) \ {d} \in SUBSET Callers
      BY <1>5
    <3>2. Cardinality(D \ {d}) = Cardinality((D \ {d}) \ {c}) + 1
      BY <3>1, LoopsCounted
    <3>3. m \in Nat
      BY <3>1, LoopsCounted
    <3> QED BY <3>1, <3>2, <3>3
  <2>2. m * Size \in Nat /\ Cardinality(D \ {d}) * Size = m * Size + Size
    BY <2>1, PostsAddUp
  <2>3. z[d] \in Nat /\ y[d] = z[d]
    BY <1>0, <1>5
  <2> HIDE DEF m
  <2>4. u + k + y[d] + m * Size <= Ceiling
    BY <1>0, <1>5, <2>2, <2>3
  <2> QED BY <1>5, <2>4 DEF Fits, m
<1> QED BY <1>3, <1>4, <1>5 DEF Fits

\* The loop clamped last: the others add one post each.
LEMMA FitsClamp ==
  ASSUME NEW u \in Nat, NEW D \in SUBSET Callers, NEW c \in D,
         NEW z \in [Callers -> 0 .. Size], u + z[c] <= HourCap
  PROVE  Fits(u, D, z)
<1> DEFINE n == Cardinality(D \ {c})
<1>1. n \in Nat /\ n < Cardinality(Callers)
  BY LoopsCounted
<1>2. n * Size \in Nat /\ HourCap + n * Size <= Ceiling /\ Ceiling \in Nat /\ HourCap \in Nat
  BY <1>1, PostsAddUp, CeilingNatural
<1>3. z[c] \in Nat
  BY BoundsAreNatural
<1> HIDE DEF n
<1>4. u + z[c] + n * Size <= Ceiling
  BY <1>2, <1>3
<1> QED BY <1>4 DEF Fits, n

LEMMA FitsBound ==
  ASSUME NEW u \in Nat, NEW D \in SUBSET Callers, NEW z \in [Callers -> 0 .. Size],
         Fits(u, D, z)
  PROVE  u <= Ceiling
<1>0. Ceiling \in Nat /\ Size \in Nat
  BY CeilingNatural, BoundsAreNatural
<1>1. CASE u + Cardinality(D) * Size <= Ceiling
  <2>1. Cardinality(D) * Size \in Nat
    BY LoopsCounted, PostsAddUp
  <2> QED BY <1>0, <1>1, <2>1
<1>2. ASSUME NEW c \in D, u + z[c] + Cardinality(D \ {c}) * Size <= Ceiling
      PROVE  u <= Ceiling
  <2>1. Cardinality(D \ {c}) * Size \in Nat /\ z[c] \in Nat
    BY <1>0, LoopsCounted, PostsAddUp
  <2> QED BY <1>0, <1>2, <2>1
<1> QED BY <1>1, <1>2 DEF Fits

\* What a step makes of a loop past the clamp, or with an order in hand.
Moves(d) ==
  /\ pc'[d] \in InFlight =>
       \/ pc[d] \in InFlight /\ post'[d].cur = post[d].cur
       \/ SignGranted(d)
  /\ \/ PlaceAccepted(d)
     \/ pc'[d] \in {"sign"} \cup InFlight =>
          /\ pc[d] \in {"sign"} \cup InFlight
          /\ ctx'[d].side = ctx[d].side /\ ctx'[d].size = ctx[d].size

LEMMA LoopsMove ==
  ASSUME IInv, [Next]_vars, NEW d \in Callers
  PROVE  Moves(d)
<1> USE DEF IInv, TypeOK, LoopsTyped
<1>1. ASSUME NEW c \in Callers, OthersStay(c), c # d
      PROVE  Moves(d)
  BY <1>1 DEF OthersStay, Moves
<1>2. ASSUME pc'[d] \notin {"sign"} \cup InFlight
      PROVE  Moves(d)
  BY <1>2 DEF Moves
<1>3. ASSUME NEW c \in Callers, Finish(c)
      PROVE  OthersStay(c) /\ pc'[c] = "idle"
  BY <1>3 DEF OthersStay, Finish, To
<1>4. ASSUME NEW c \in Callers, NEW b \in BOOLEAN, AfterFailure(c, b)
      PROVE  OthersStay(c) /\ pc'[c] \in {"idle", "place"}
  BY <1>3, <1>4 DEF AfterFailure, OthersStay, To
<1>5. ASSUME NEW c \in Callers, OthersStay(c), pc'[c] \in {"idle", "place"}
      PROVE  Moves(d)
  BY <1>1, <1>2, <1>5 DEF InFlight
<1>6. ASSUME NEW c \in Callers, OthersStay(c), pc'[c] \in {"sign"} \cup InFlight,
             pc[c] \in {"sign"} \cup InFlight,
             pc'[c] \in InFlight => pc[c] \in InFlight /\ post'[c].cur = post[c].cur,
             ctx'[c].side = ctx[c].side /\ ctx'[c].size = ctx[c].size
      PROVE  Moves(d)
  BY <1>1, <1>6 DEF Moves
<1>7. ASSUME NEW c \in Callers, NEW s \in Sides, Decide(c, s)
      PROVE  Moves(d)
  <2>1. OthersStay(c) /\ pc'[c] = "place"
    BY <1>7 DEF Decide, OthersStay, To
  <2> QED BY <1>5, <2>1
<1>8. ASSUME NEW c \in Callers, Place(c)
      PROVE  Moves(d)
  <2>1. CASE PlaceAccepted(c)
    <3>1. OthersStay(c) /\ pc'[c] = "sign"
      BY <2>1 DEF PlaceAccepted, OthersStay, To
    <3> QED BY <1>1, <2>1, <3>1 DEF Moves, InFlight
  <2>2. CASE ~PlaceAccepted(c)
    BY <1>3, <1>4, <1>5, <1>8, <2>2 DEF Place, PlaceLocked, PlaceRefused, SellHeld
  <2> QED BY <2>1, <2>2
<1>9. ASSUME NEW c \in Callers, Sign(c)
      PROVE  Moves(d)
  <2>1. CASE SignGranted(c)
    <3>1. /\ OthersStay(c) /\ pc'[c] = "post" /\ pc[c] = "sign"
          /\ ctx'[c].side = ctx[c].side /\ ctx'[c].size = ctx[c].size
      BY <2>1 DEF SignGranted, OthersStay, To, Context
    <3> QED BY <1>1, <2>1, <3>1 DEF Moves, InFlight
  <2>2. CASE ~SignGranted(c)
    BY <1>3, <1>4, <1>5, <1>9, <2>2 DEF Sign, SignRefused, SignFailed
  <2> QED BY <2>1, <2>2
<1>10. ASSUME NEW c \in Callers, Post(c)
       PROVE  Moves(d)
  <2>1. /\ pc[c] = "post" /\ To(c, "reply") /\ ctx' = ctx
        /\ \E a : post' = [post EXCEPT ![c].reply = a]
    BY <1>10 DEF Post, PostLost, PostRejected, PostKilled, PostMatched, PostDelayed, Answer
  <2>2. OthersStay(c) /\ pc'[c] = "reply" /\ post'[c].cur = post[c].cur
    BY <2>1 DEF OthersStay, To, PostState
  <2> QED BY <1>6, <2>1, <2>2 DEF InFlight
<1>11. ASSUME NEW c \in Callers, Reply(c)
       PROVE  Moves(d)
  <2>1. CASE ReplyRejectedRepost(c)
    <3>1. /\ OthersStay(c) /\ pc'[c] = "sign" /\ pc[c] = "reply"
          /\ ctx'[c].side = ctx[c].side /\ ctx'[c].size = ctx[c].size
      BY <2>1 DEF ReplyRejectedRepost, OthersStay, To, Context
    <3> QED BY <1>6, <3>1 DEF InFlight
  <2>2. CASE ReplyDelayed(c)
    <3>1. /\ OthersStay(c) /\ pc'[c] = "settle" /\ pc[c] = "reply" /\ ctx' = ctx
          /\ post'[c].cur = post[c].cur
      BY <2>2 DEF ReplyDelayed, OthersStay, To, PostState
    <3> QED BY <1>6, <3>1 DEF InFlight
  <2>3. CASE ~ReplyRejectedRepost(c) /\ ~ReplyDelayed(c)
    BY <1>3, <1>4, <1>5, <1>11, <2>3
    DEF Reply, ReplyLost, ReplyRejected, ReplyZero, ReplyFill, ReplyUnreadable, ReplyNoId, Filled
  <2> QED BY <2>1, <2>2, <2>3
<1>12. ASSUME NEW c \in Callers, Settle(c)
       PROVE  Moves(d)
  <2>1. CASE PollTrades(c) \/ PollRecordLive(c)
    <3>1. /\ OthersStay(c) /\ pc'[c] \in {"settle", "confirm"} /\ pc[c] = "settle"
          /\ ctx' = ctx /\ post'[c].cur = post[c].cur
      BY <2>1 DEF PollTrades, PollRecordLive, OthersStay, To, PostState
    <3> QED BY <1>6, <3>1 DEF InFlight
  <2>2. CASE ~PollTrades(c) /\ ~PollRecordLive(c)
    BY <1>3, <1>4, <1>5, <1>12, <2>2
    DEF Settle, ConfirmTrades, PollRecordFilled, PollRecordKilled, DeadlinePartial,
        DeadlineAmbiguous, Filled
  <2> QED BY <2>1, <2>2
<1>13. CASE Restart
  BY <1>2, <1>13 DEF Restart, InFlight
<1>14. CASE (\E s \in Sides : LockExpires(s)) \/ (\E o \in Orders : Venue(o)) \/ UNCHANGED vars
  BY <1>14 DEF Moves, LockExpires, Venue, VenueMatches, VenueKills, VenueCloses, VenueShows, vars
<1> QED BY <1>7, <1>8, <1>9, <1>10, <1>11, <1>12, <1>13, <1>14 DEF Next

LEMMA FillsFitStep ==
  ASSUME IInv, FillsFit, [Next]_vars
  PROVE  FillsFit'
<1> USE DEF IInv, TypeOK
<1>0. \A o \in Orders : venue[o].filled \in Nat /\ order[o].size \in Nat
  BY BoundsAreNatural DEF VenueState, RecordsTyped, OrderState
<1>1. ASSUME NEW o \in Orders
      PROVE  venue'[o].filled <= order'[o].size
  <2>1. CASE UNCHANGED <<order, venue>>
    BY <2>1 DEF FillsFit
  <2>2. ASSUME NEW c \in Callers, SignGranted(c)
        PROVE  venue'[o].filled <= order'[o].size
    <3>1. venue' = venue
      BY <2>2 DEF SignGranted
    <3>2. CASE order[o].side # "none"
      BY <3>1, <3>2, OrdersGrow DEF FillsFit
    <3>3. CASE order[o].side = "none"
      <4>1. venue[o].filled = 0
        BY <1>0, <3>3 DEF OrdersCoherent, VenueCoherent
      <4>2. order'[o].size \in Nat
        <5>1. order' \in [Orders -> OrderState]
          BY TypeStep, IInvHasInHand DEF RecordsTyped
        <5> QED BY <5>1, BoundsAreNatural DEF OrderState
      <4> QED BY <3>1, <4>1, <4>2
    <3> QED BY <3>2, <3>3
  <2>3. ASSUME NEW c \in Callers,
               PostRejected(c) \/ PostKilled(c) \/ PostMatched(c) \/ PostDelayed(c)
        PROVE  venue'[o].filled <= order'[o].size
    <3>1. order' = order /\ (o # post[c].cur => venue'[o] = venue[o])
      BY <2>3 DEF PostRejected, PostKilled, PostMatched, PostDelayed, Answer
    <3>2. CASE PostMatched(c) /\ o = post[c].cur
      <4>1. PICK k \in Trades :
              /\ CanFill(o, k)
              /\ venue' = [venue EXCEPT ![o].stat = "closed", ![o].filled = k]
        BY <3>2 DEF PostMatched, Answer
      <4>2. venue'[o].filled = k /\ k <= order[o].size
        BY <4>1 DEF CanFill, VenueState
      <4> QED BY <3>1, <4>2
    <3>3. CASE ~PostMatched(c) /\ o = post[c].cur
      <4>1. venue'[o].filled = 0
        <5>1. venue \in [Orders -> VenueState]
          OBVIOUS
        <5>2. PostRejected(c) \/ PostKilled(c) => venue'[o].filled = 0
          BY <3>3, <5>1 DEF PostRejected, PostKilled, Answer, VenueState
        <5>3. PostDelayed(c) => venue'[o].filled = 0
          BY <3>3, <5>1 DEF PostDelayed, Answer, VenueState
        <5> QED BY <2>3, <3>3, <5>2, <5>3
      <4> QED BY <1>0, <3>1, <4>1
    <3> QED BY <3>1, <3>2, <3>3 DEF FillsFit
  <2>4. ASSUME NEW p \in Orders, Venue(p)
        PROVE  venue'[o].filled <= order'[o].size
    <3>1. order' = order
      BY <2>4 DEF Venue, VenueMatches, VenueKills, VenueCloses, VenueShows
    <3>2. CASE VenueMatches(p)
      <4>1. PICK k \in Trades : /\ CanFill(p, k)
                                /\ venue' = [venue EXCEPT ![p].stat = "matching", ![p].filled = k]
        BY <3>2 DEF VenueMatches
      <4>2. (o = p => venue'[o].filled = k /\ k <= order[o].size)
            /\ (o # p => venue'[o] = venue[o])
        BY <4>1 DEF CanFill, VenueState
      <4> QED BY <3>1, <4>2 DEF FillsFit
    <3>3. CASE ~VenueMatches(p)
      <4>1. venue'[o].filled = venue[o].filled
        BY <2>4, <3>3 DEF Venue, VenueKills, VenueCloses, VenueShows, VenueState
      <4> QED BY <3>1, <4>1 DEF FillsFit
    <3> QED BY <3>2, <3>3
  <2> QED BY <2>1, <2>2, <2>3, <2>4, WhoMovesTheVenue
<1>2. ASSUME NEW c \in Callers, pc'[c] \in InFlight
      PROVE  order'[post'[c].cur].size = ctx'[c].size
  <2>1. CASE SignGranted(c)
    <3>1. PICK o \in Orders :
            LET e == IF ctx[c].decision = None THEN o ELSE ctx[c].decision
            IN  /\ ctx' = [ctx EXCEPT ![c].row = o, ![c].decision = e]
                /\ post' = [post EXCEPT ![c].cur = o]
                /\ order' = [order EXCEPT ![o] = [side |-> ctx[c].side, size |-> ctx[c].size,
                                                 decision |-> e]]
      BY <2>1 DEF SignGranted
    <3>2. post'[c].cur = o /\ ctx'[c].size = ctx[c].size /\ order'[o].size = ctx[c].size
      BY <3>1 DEF LoopsTyped, PostState, Context, RecordsTyped
    <3> QED BY <3>2
  <2>2. CASE ~SignGranted(c)
    <3>1. pc[c] \in InFlight /\ post'[c].cur = post[c].cur
      BY <1>2, <2>2, LoopsMove DEF Moves
    <3>2. ~PlaceAccepted(c)
      BY <3>1 DEF PlaceAccepted, InFlight
    <3>3. ctx'[c].size = ctx[c].size
      BY <1>2, <3>2, LoopsMove DEF Moves
    <3>4. post[c].cur \in Orders /\ order'[post[c].cur] = order[post[c].cur]
      BY <3>1, RowInHand, OrdersGrow
    <3> QED BY <3>1, <3>3, <3>4 DEF FillsFit
  <2> QED BY <2>1, <2>2
<1> QED BY <1>1, <1>2 DEF FillsFit

\* The rolling window grows by what a loop with an order in hand was filled,
\* and the decision of that loop ends.
LEMMA LedgerGrows ==
  ASSUME IInv, FillsFit, [Next]_vars
  PROVE  \/ ledger' = ledger
         \/ \E c \in Clamped : \E n \in 0 .. ctx[c].size :
              ledger'.usd = ledger.usd + n /\ pc'[c] = "idle" /\ OthersStay(c)
<1> USE DEF IInv, TypeOK
<1>1. ASSUME NEW c \in Callers, NEW n \in Nat, pc[c] \in InFlight, Filled(c, n), venue' = venue
      PROVE  \/ ledger' = ledger
             \/ \E d \in Clamped : \E k \in 0 .. ctx[d].size :
                  ledger'.usd = ledger.usd + k /\ pc'[d] = "idle" /\ OthersStay(d)
  <2>1. post[c].cur \in Orders /\ order[post[c].cur].size = ctx[c].size
    BY <1>1, RowInHand DEF FillsFit
  <2>2. /\ booked'[post[c].cur].verdict = "filled" /\ booked'[post[c].cur].shares = n
    BY <1>1, <2>1 DEF Filled, Book, RecordsTyped
  <2>3. n \in 1 .. venue[post[c].cur].filled
    BY <1>1, <2>1, <2>2, VerdictsStep DEF VerdictsMatchVenue
  <2>4. venue[post[c].cur].filled \in Nat /\ venue[post[c].cur].filled <= ctx[c].size
        /\ ctx[c].size \in Nat
    BY <2>1, BoundsAreNatural DEF FillsFit, VenueState, LoopsTyped, Context
  <2>5. n \in 0 .. ctx[c].size
    BY <1>1, <2>3, <2>4
  <2>6. CASE ctx[c].side = "SELL"
    BY <1>1, <2>6 DEF Filled, RecordBuy
  <2>7. CASE ctx[c].side # "SELL"
    <3>1. ctx[c].side = "BUY"
      BY <2>7 DEF LoopsTyped, Context
    <3>2. c \in Clamped
      BY <1>1, <3>1 DEF Clamped, Past
    <3>3. ledger'.usd = ledger.usd + n
      BY <1>1, <2>7 DEF Filled, RecordBuy
    <3>4. pc'[c] = "idle" /\ OthersStay(c)
      BY <1>1 DEF Filled, Finish, To, OthersStay, LoopsTyped
    <3> QED BY <2>5, <3>2, <3>3, <3>4
  <2> QED BY <2>6, <2>7
<1>2. ASSUME NEW c \in Callers, Reply(c) \/ Settle(c)
      PROVE  pc[c] \in InFlight /\ venue' = venue
  BY <1>2 DEF Reply, ReplyLost, ReplyRejectedRepost, ReplyRejected, ReplyZero, ReplyFill,
              ReplyUnreadable, ReplyDelayed, ReplyNoId,
              Settle, PollTrades, ConfirmTrades, PollRecordFilled, PollRecordKilled,
              PollRecordLive, DeadlinePartial, DeadlineAmbiguous, InFlight
<1>3. ASSUME NEW c \in Callers, Reply(c) \/ Settle(c)
      PROVE  ledger' = ledger \/ \E n \in Nat : Filled(c, n)
  <2>0. /\ venue[post[c].cur].filled \in Nat /\ post[c].seen \in Nat
        /\ \A S : S \in SUBSET Trades => Cardinality(S) \in Nat
    BY <1>2, <1>3, RowInHand, LegsBounded, BoundsAreNatural DEF VenueState, LoopsTyped, PostState
  <2>1. CASE ReplyFill(c)
    BY <2>0, <2>1 DEF ReplyFill
  <2>2. CASE ConfirmTrades(c)
    <3>1. PICK again \in {{}, venue[post[c].cur].visible} : Filled(c, MergedLegs(c, again))
      BY <2>2 DEF ConfirmTrades
    <3>2. post[c].legs \cup again \in SUBSET Trades
      BY <1>2, <1>3, RowInHand DEF VenueState, LoopsTyped, PostState
    <3> QED BY <2>0, <3>1, <3>2 DEF MergedLegs
  <2>3. CASE PollRecordFilled(c)
    BY <2>0, <2>3 DEF PollRecordFilled
  <2>4. CASE DeadlinePartial(c)
    BY <2>0, <2>4 DEF DeadlinePartial
  <2> QED BY <1>3, <2>1, <2>2, <2>3, <2>4
          DEF Reply, ReplyLost, ReplyRejectedRepost, ReplyRejected, ReplyZero,
              ReplyUnreadable, ReplyDelayed, ReplyNoId,
              Settle, PollTrades, PollRecordKilled, PollRecordLive, DeadlineAmbiguous
<1>4. ASSUME NEW c \in Callers, Place(c) \/ Sign(c) \/ Post(c)
      PROVE  ledger' = ledger
  BY <1>4 DEF Place, PlaceLocked, PlaceRefused, PlaceAccepted, SellHeld,
              Sign, SignGranted, SignRefused, SignFailed,
              Post, PostLost, PostRejected, PostKilled, PostMatched, PostDelayed, Answer
<1>5. ASSUME \/ \E c \in Callers, s \in Sides : Decide(c, s)
             \/ \E s \in Sides : LockExpires(s)
             \/ \E o \in Orders : Venue(o)
             \/ Restart \/ UNCHANGED vars
      PROVE  ledger' = ledger
  BY <1>5 DEF Decide, LockExpires, Venue, VenueMatches, VenueKills, VenueCloses,
              VenueShows, Restart, vars
<1> QED BY <1>1, <1>2, <1>3, <1>4, <1>5 DEF Next

LEMMA CeilingStep ==
  ASSUME IInv, FillsFit, WithinCeiling, [Next]_vars
  PROVE  WithinCeiling'
<1> USE DEF IInv, TypeOK
<1>0. TypeOK'
  BY TypeStep, IInvHasInHand
<1>1. /\ Sizes \in [Callers -> 0 .. Size] /\ Sizes' \in [Callers -> 0 .. Size]
      /\ ledger.usd \in Nat /\ ledger'.usd \in Nat
      /\ Clamped \in SUBSET Callers /\ Clamped' \in SUBSET Callers
  BY <1>0 DEF Sizes, Clamped, LoopsTyped, Context, RecordsTyped
<1>2. ASSUME NEW d \in Callers, ~PlaceAccepted(d), d \in Clamped'
      PROVE  d \in Clamped /\ Sizes'[d] = Sizes[d]
  <2>1. Moves(d)
    BY LoopsMove
  <2>2. ctx'[d].side = "BUY" /\ pc'[d] \in {"sign"} \cup InFlight
    BY <1>2 DEF Clamped, Past
  <2> QED BY <1>2, <2>1, <2>2 DEF Moves, Clamped, Past, Sizes
<1>3. CASE \E c \in Callers : PlaceAccepted(c)
  <2>1. PICK c \in Callers : PlaceAccepted(c)
    BY <1>3
  <2>2. /\ ledger' = ledger /\ ctx[c].side \in {"BUY", "SELL"}
        /\ \A d \in Callers \ {c} : pc'[d] = pc[d] /\ ctx'[d] = ctx[d]
        /\ ctx'[c].side = ctx[c].side /\ pc'[c] = "sign"
        /\ ctx'[c].size = IF ctx[c].side = "BUY" /\ Room < Size THEN Room ELSE Size
    BY <2>1 DEF PlaceAccepted, To, LoopsTyped, Context
  <2>3. CASE ctx[c].side = "BUY"
    <3>1. c \in Clamped'
      BY <2>2, <2>3 DEF Clamped, Past
    <3>2. Room > 0
      BY <2>1, <2>3 DEF PlaceAccepted
    <3>3. ledger.usd + Room = HourCap /\ Room \in Nat
      BY <1>1, <3>2, BoundsAreNatural DEF Room
    <3>4. ctx'[c].size \in Nat /\ ctx'[c].size <= Room
      BY <2>2, <2>3, <3>3, BoundsAreNatural
    <3>5. ledger'.usd + Sizes'[c] <= HourCap
      BY <1>1, <2>2, <3>3, <3>4, BoundsAreNatural DEF Sizes
    <3> QED BY <1>1, <3>1, <3>5, FitsClamp DEF WithinCeiling
  <2>4. CASE ctx[c].side # "BUY"
    <3>1. Clamped' \in SUBSET Clamped /\ \A d \in Clamped' : Sizes'[d] = Sizes[d]
      BY <2>2, <2>4 DEF Clamped, Past, Sizes
    <3> QED BY <1>1, <2>2, <3>1, FitsShrink DEF WithinCeiling
  <2> QED BY <2>3, <2>4
<1>4. CASE ~ \E c \in Callers : PlaceAccepted(c)
  <2>1. Clamped' \in SUBSET Clamped /\ \A d \in Clamped' : Sizes'[d] = Sizes[d]
    BY <1>1, <1>2, <1>4
  <2>2. CASE ledger' = ledger
    BY <1>1, <2>1, <2>2, FitsShrink DEF WithinCeiling
  <2>3. ASSUME NEW c \in Clamped, NEW n \in 0 .. ctx[c].size,
               ledger'.usd = ledger.usd + n, pc'[c] = "idle", OthersStay(c)
        PROVE  WithinCeiling'
    <3>1. Clamped' = Clamped \ {c}
      BY <2>3 DEF Clamped, Past, OthersStay, InFlight
    <3>2. \A d \in Clamped \ {c} : Sizes'[d] = Sizes[d]
      BY <2>1, <3>1
    <3>3. n \in 0 .. Sizes[c]
      BY <1>1 DEF Sizes
    <3>4. Fits(ledger.usd + n, Clamped \ {c}, Sizes')
      BY <1>1, <3>2, <3>3, FitsSpend DEF WithinCeiling
    <3> QED BY <2>3, <3>1, <3>4 DEF WithinCeiling
  <2> QED BY <2>2, <2>3, LedgerGrows
<1> QED BY <1>3, <1>4

LEMMA GovernorInit == Init => FillsFit /\ WithinCeiling
<1> SUFFICES ASSUME Init PROVE FillsFit /\ WithinCeiling
  OBVIOUS
<1>1. FillsFit
  BY DEF Init, FillsFit, InFlight
<1>2. Clamped = {} /\ ledger.usd = 0
  BY DEF Init, Clamped, Past, InFlight, NoContext
<1>3. Cardinality({}) = 0 /\ 0 + 0 * Size <= Ceiling
  BY FS_EmptySet, CeilingNatural, BoundsAreNatural
<1> QED BY <1>1, <1>2, <1>3 DEF WithinCeiling, Fits

-----------------------------------------------------------------------------
(***************************************************************************)
(* The claim on the token.  Where every order is a BUY that claims its     *)
(* token before its first await, at most one loop is under way.            *)
(***************************************************************************)
ClaimsItsToken == PerToken /\ Sides = {"BUY"}

OneUnderWay ==
  /\ \A c \in Callers : pc[c] # "idle" => ctx[c].side = "BUY"
  /\ \A c, d \in Callers : pc[c] # "idle" /\ pc[d] # "idle" => c = d

LEMMA UnderWayStep ==
  ASSUME IInv, ClaimsItsToken, OneUnderWay, [Next]_vars
  PROVE  OneUnderWay'
<1> USE DEF IInv, TypeOK, LoopsTyped
<1>1. ASSUME NEW c \in Callers, OthersStay(c), pc[c] # "idle",
             pc'[c] # "idle" => ctx'[c].side = ctx[c].side
      PROVE  OneUnderWay'
  BY <1>1 DEF OneUnderWay, OthersStay
<1>2. ASSUME NEW c \in Callers, Finish(c)
      PROVE  OthersStay(c) /\ pc'[c] = "idle"
  BY <1>2 DEF OthersStay, Finish, To
<1>3. ASSUME NEW c \in Callers, NEW b \in BOOLEAN, AfterFailure(c, b)
      PROVE  OthersStay(c) /\ (pc'[c] # "idle" => ctx'[c].side = ctx[c].side)
  BY <1>2, <1>3 DEF AfterFailure, OthersStay, To, Context
<1>4. ASSUME NEW c \in Callers, NEW s \in Sides, Decide(c, s)
      PROVE  OneUnderWay'
  <2>1. s = "BUY" /\ TokenFree(c) /\ OthersStay(c) /\ ctx'[c].side = s
    BY <1>4 DEF Decide, ClaimsItsToken, OthersStay, To, Context
  <2>2. \A d \in Callers : pc[d] = "idle"
    BY <2>1 DEF TokenFree, OneUnderWay
  <2> QED BY <2>1, <2>2 DEF OneUnderWay, OthersStay
<1>5. ASSUME NEW c \in Callers, Place(c)
      PROVE  OneUnderWay'
  <2>1. CASE PlaceAccepted(c)
    <3>1. pc[c] = "place" /\ OthersStay(c)
      BY <2>1 DEF PlaceAccepted, OthersStay, To
    <3>2. ctx'[c].side = ctx[c].side
      BY <2>1 DEF PlaceAccepted, Context
    <3> QED BY <1>1, <3>1, <3>2
  <2>2. CASE ~PlaceAccepted(c)
    <3>1. pc[c] = "place"
          /\ (Finish(c) \/ \E b \in BOOLEAN : AfterFailure(c, b))
      BY <1>5, <2>2 DEF Place, PlaceLocked, PlaceRefused, SellHeld
    <3> QED BY <1>1, <1>2, <1>3, <3>1
  <2> QED BY <2>1, <2>2
<1>6. ASSUME NEW c \in Callers, Sign(c)
      PROVE  OneUnderWay'
  <2>1. CASE SignGranted(c)
    <3>1. pc[c] = "sign" /\ OthersStay(c) /\ ctx'[c].side = ctx[c].side
      BY <2>1 DEF SignGranted, OthersStay, To, Context
    <3> QED BY <1>1, <3>1
  <2>2. CASE ~SignGranted(c)
    <3>1. pc[c] = "sign"
          /\ (Finish(c) \/ \E b \in BOOLEAN : AfterFailure(c, b))
      BY <1>6, <2>2 DEF Sign, SignRefused, SignFailed
    <3> QED BY <1>1, <1>2, <1>3, <3>1
  <2> QED BY <2>1, <2>2
<1>7. ASSUME NEW c \in Callers, Post(c)
      PROVE  OneUnderWay'
  <2>1. pc[c] # "idle" /\ OthersStay(c) /\ ctx' = ctx
    BY <1>7 DEF Post, PostLost, PostRejected, PostKilled, PostMatched, PostDelayed, Answer,
                OthersStay, To
  <2> QED BY <1>1, <2>1
<1>8. ASSUME NEW c \in Callers, Reply(c)
      PROVE  OneUnderWay'
  <2>1. pc[c] # "idle" /\ OthersStay(c) /\ (pc'[c] # "idle" => ctx'[c].side = ctx[c].side)
    <3> DEFINE Goal == /\ pc[c] # "idle" /\ OthersStay(c)
                       /\ pc'[c] # "idle" => ctx'[c].side = ctx[c].side
    <3>1. ReplyLost(c) \/ ReplyRejectedRepost(c) \/ ReplyRejected(c) \/ ReplyZero(c) => Goal
      BY <1>2, <1>3
      DEF ReplyLost, ReplyRejectedRepost, ReplyRejected, ReplyZero, OthersStay, To, Context
    <3>2. ReplyFill(c) \/ ReplyUnreadable(c) => Goal
      BY <1>2, <1>3 DEF ReplyFill, ReplyUnreadable, Filled, OthersStay, To, Context
    <3>3. ReplyDelayed(c) \/ ReplyNoId(c) => Goal
      BY <1>2, <1>3 DEF ReplyDelayed, ReplyNoId, Filled, OthersStay, To, Context
    <3> HIDE DEF Goal
    <3>4. Goal
      BY <1>8, <3>1, <3>2, <3>3 DEF Reply
    <3> QED BY <3>4 DEF Goal
  <2> QED BY <1>1, <2>1
<1>9. ASSUME NEW c \in Callers, Settle(c)
      PROVE  OneUnderWay'
  <2>1. pc[c] # "idle" /\ OthersStay(c) /\ (pc'[c] # "idle" => ctx'[c].side = ctx[c].side)
    BY <1>2, <1>3, <1>9
    DEF Settle, PollTrades, ConfirmTrades, PollRecordFilled, PollRecordKilled, PollRecordLive,
        DeadlinePartial, DeadlineAmbiguous, Filled, OthersStay, To
  <2> QED BY <1>1, <2>1
<1>10. CASE Restart
  BY <1>10 DEF Restart, OneUnderWay
<1>11. CASE (\E s \in Sides : LockExpires(s)) \/ (\E o \in Orders : Venue(o)) \/ UNCHANGED vars
  BY <1>11 DEF OneUnderWay, LockExpires, Venue, VenueMatches, VenueKills, VenueCloses,
               VenueShows, vars
<1> QED BY <1>4, <1>5, <1>6, <1>7, <1>8, <1>9, <1>10, <1>11 DEF Next

-----------------------------------------------------------------------------
(***************************************************************************)
(* The theorems.                                                           *)
(***************************************************************************)
LEMMA IInvInit == Init => IInv
<1> SUFFICES ASSUME Init PROVE IInv
  OBVIOUS
<1>1. TypeOK
  BY BlanksTyped DEF Init, TypeOK, LoopsTyped, RecordsTyped, Steps
<1>2. OrdersCoherent /\ VenueCoherent
  BY DEF Init, OrdersCoherent, VenueCoherent
<1>3. LoopsCoherent
  BY DEF Init, LoopsCoherent, ContextCoherent, DecisionIsPrivate, EarlierBuysRejected,
         PostTrue, NoContext, InFlight
<1>4. BuyZeroReportsAreTrue /\ VerdictsMatchVenue
  BY DEF Init, BuyZeroReportsAreTrue, ZeroReportsAreTrue, VerdictsMatchVenue
<1>5. OneOrderPerBuyDecision /\ PendingLockHasOwner
  BY SidesKnown DEF Init, OneOrderPerBuyDecision, PendingLockHasOwner, Locked, NoLock
<1> QED BY <1>1, <1>2, <1>3, <1>4, <1>5 DEF IInv

LEMMA IInvStep == IInv /\ [Next]_vars => IInv'
BY TypeStep, IInvHasInHand, OrdersStep, VenueCoherentStep, LoopsStep, BuyZeroStep,
   VerdictsStep, OneOrderStep, PendingLockStep DEF IInv

\* What ties loops, orders and venue together holds in every reachable state.
THEOREM Invariance == Spec => []IInv
BY IInvInit, IInvStep, PTL DEF Spec

\* No BUY is reported to the platform as zero unless the venue refused or
\* killed it: exposure is never handed back for an order that may still fill.
THEOREM BuyZeroReports == Spec => []BuyZeroReportsAreTrue
<1>1. IInv => BuyZeroReportsAreTrue
  BY DEF IInv
<1> QED BY <1>1, Invariance, PTL

\* Every booked verdict is the venue's truth: awaitDelayedFill counts a trade
\* once however its reads overlap, and never books more than what matched.
THEOREM Verdicts == Spec => []VerdictsMatchVenue
<1>1. IInv => VerdictsMatchVenue
  BY DEF IInv
<1> QED BY <1>1, Invariance, PTL

\* One BUY decision never has two orders taken by the venue, over re-posts,
\* lost answers and other loops.
THEOREM OneOrder == Spec => []OneOrderPerBuyDecision
<1>1. IInv => OneOrderPerBuyDecision
  BY DEF IInv
<1> QED BY <1>1, Invariance, PTL

\* A pending lock always belongs to a loop that follows its order, although
\* verdicts delete locks by key and not by owner.
THEOREM PendingLock == Spec => []PendingLockHasOwner
<1>1. IInv => PendingLockHasOwner
  BY DEF IInv
<1> QED BY <1>1, Invariance, PTL

\* Concurrent BUY loops overshoot the rolling window by at most one post of
\* every other loop, for any number of loops, sizes and caps: they clamp
\* against the same room before the post, and record after the fill.
THEOREM Governor == Spec => []GovernorOvershootBounded
<1>1. IInv /\ FillsFit /\ WithinCeiling /\ [Next]_vars => FillsFit' /\ WithinCeiling'
  BY FillsFitStep, CeilingStep
<1>2. IInv /\ WithinCeiling => GovernorOvershootBounded
  <2> SUFFICES ASSUME IInv, WithinCeiling PROVE GovernorOvershootBounded
    OBVIOUS
  <2>1. /\ ledger.usd \in Nat /\ Clamped \in SUBSET Callers
        /\ Sizes \in [Callers -> 0 .. Size]
    BY DEF IInv, TypeOK, LoopsTyped, RecordsTyped, Context, Clamped, Sizes
  <2>2. ledger.usd <= Ceiling
    BY <2>1, FitsBound DEF WithinCeiling
  <2> QED BY <2>2 DEF Ceiling, GovernorOvershootBounded
<1> QED BY <1>1, <1>2, GovernorInit, Invariance, PTL DEF Spec

\* Where BUYs claim their token (copytrade's inFlightBuys), no order is issued
\* while a delayed one of its side is unresolved, however many loops decide.
THEOREM NoIssue == ClaimsItsToken /\ Spec => NoIssueWhileUnresolved
<1>1. ClaimsItsToken /\ Init => ClaimsItsToken /\ OneUnderWay
  BY DEF Init, OneUnderWay
<1>2. IInv /\ ClaimsItsToken /\ OneUnderWay /\ [Next]_vars => (ClaimsItsToken /\ OneUnderWay)'
  BY UnderWayStep DEF ClaimsItsToken
<1>3. OneUnderWay /\ [Next]_vars =>
        [\A c, d \in Callers :
           pc[c] = "place" /\ pc'[c] = "sign" => ~Follows(d, ctx[c].side)]_vars
  BY DEF OneUnderWay, Follows
<1>4. NoIssueWhileUnresolved <=>
        [][\A c, d \in Callers :
             pc[c] = "place" /\ pc'[c] = "sign" => ~Follows(d, ctx[c].side)]_vars
  BY DEF NoIssueWhileUnresolved
<1> QED BY <1>1, <1>2, <1>3, <1>4, Invariance, PTL DEF Spec
=============================================================================
