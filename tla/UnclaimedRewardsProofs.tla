----------------------- MODULE UnclaimedRewardsProofs -----------------------
(***************************************************************************)
(* Proofs about the alarm on unclaimed rewards: the types, and that it is   *)
(* raised over an amount priced in the wrong unit only if the metadata      *)
(* names no display unit.                                                   *)
(*                                                                          *)
(* Neither is inductive alone. What a goroutine holds between two steps is  *)
(* HoldingInv: a caller of GetValInfo about to store has an amount, watch   *)
(* about to sum up has rewards to sum, and watch about to price has a total *)
(* in the unit that its metadata says. It has to say so of places that are  *)
(* several steps apart, because the rewards may be stored anew, and the     *)
(* metadata replaced, in between.                                           *)
(***************************************************************************)
EXTENDS UnclaimedRewards, TLAPS

\* What GetValInfo read, the rewards watch saw and the total it made are there when used.
Priceable(coin, m) == coin \in Coins /\ (m \notin {Nil, "nodisplay"} => coin.denom = "display")
ReadInv == \A c \in Callers : at[c] \in {"metadata", "store"} => got[c] \in Owed
SeenInv == at["watch"] \in {"guess", "sum"} => rewards \in Coins
TotalInv == at["watch"] \in {"price", "fetch"} => Priceable(total, by)
HoldingInv == ReadInv /\ SeenInv /\ TotalInv

-----------------------------------------------------------------------------
(* Facts about the operators *)

\* An amount of base units, in either unit, is a coin.
LEMMA CoinType ==
    ASSUME NEW d \in {"base", "display"}, NEW n \in Owed
    PROVE  Coin(d, n) \in Coins
BY DEF Coins

\* What a coin consists of, and what being in the display unit says of its amount.
LEMMA CoinParts ==
    ASSUME NEW coin \in Coins
    PROVE  /\ coin.of \in Owed /\ coin.of \in Nat /\ coin.tenths \in Nat
           /\ coin.denom \in {"base", "display"}
           /\ coin.denom = "display" => coin.tenths = coin.of
<1>1. PICK d \in {"base", "display"}, n \in Owed : coin = Coin(d, n)
  BY DEF Coins
<1>2. coin.of = n /\ coin.denom = d /\ coin.tenths = IF d = "base" THEN 10 * n ELSE n
  BY <1>1 DEF Coin
<1>3. n \in Nat
  BY RewardsAssumption
<1>4. QED
  BY <1>2, <1>3

\* Converting a coin gives a coin, in the display unit if the metadata is right.
LEMMA ConvertedType ==
    ASSUME NEW coin \in Coins, NEW m
    PROVE  /\ Converted(coin, m) \in Coins
           /\ m = "right" => Converted(coin, m).denom = "display"
<1>1. coin.of \in Owed
  BY CoinParts
<1>2. Coin("display", coin.of) \in Coins /\ Coin("base", coin.of) \in Coins
  BY <1>1, CoinType
<1>3. Coin("display", coin.of).denom = "display"
  BY DEF Coin
<1>4. QED
  BY <1>2, <1>3 DEF Converted

\* A price just fetched, or the lack of one, makes an entry.
LEMMA EntryType ==
    ASSUME NEW p \in Prices \cup {Nil}
    PROVE  Entry(p) \in Entries
<1>1. 0 \in 0..(Expiry + 1)
  BY RewardsAssumption
<1>2. QED
  BY <1>1 DEF Entry, Entries

\* Where a goroutine goes, and that the others stay.
LEMMA GotoEffect ==
    ASSUME TypeOK, NEW g \in Goroutines, NEW where \in Places, Goto(g, where)
    PROVE  /\ at' \in [Goroutines -> Places] /\ at'[g] = where
           /\ \A h \in Goroutines \ {g} : at'[h] = at[h]
BY DEF Goto, TypeOK

\* The goroutines are three different ones.
LEMMA Names ==
    /\ "watch" \in Goroutines /\ "watch" \notin Callers
    /\ "ws" \in Callers /\ "monitor" \in Callers
    /\ \A c \in Callers : c \in Goroutines /\ c # "watch"
BY DEF Goroutines, Callers

-----------------------------------------------------------------------------
(* Types and what is held, action by action *)

\* An amount that is not changed by a step stays in its place.
LEMMA HoldingKept ==
    ASSUME HoldingInv, UNCHANGED <<got, rewards, total, by>>,
           \A c \in Callers : at'[c] \in {"metadata", "store"} => at[c] \in {"metadata", "store"},
           at'["watch"] \in {"guess", "sum"} => at["watch"] \in {"guess", "sum"},
           at'["watch"] \in {"price", "fetch"} => at["watch"] \in {"price", "fetch"}
    PROVE  HoldingInv'
BY DEF HoldingInv, ReadInv, SeenInv, TotalInv

\* A request, answered or not, leaves the cache an entry and the faults within their bound.
LEMMA FetchType ==
    ASSUME TypeOK, NEW g,
           (FetchSucceeds(g) /\ UNCHANGED faults) \/ FetchFails(g)
    PROVE  cache' \in Entries \cup {Nil} /\ faults' \in 0..MaxFaults
<1>1. Entry(Nil) \in Entries /\ Entry(market) \in Entries
  BY EntryType DEF TypeOK
<1>2. cache' \in Entries \cup {Nil}
  BY <1>1 DEF FetchSucceeds, FetchFails, TypeOK
<1>3. faults' \in 0..MaxFaults
  BY RewardsAssumption DEF FetchSucceeds, FetchFails, Fault, TypeOK
<1>4. QED
  BY <1>2, <1>3

\* The chain, the market and the clock.
LEMMA WorldStep ==
    ASSUME TypeOK, HoldingInv, Changes \/ Age
    PROVE  TypeOK' /\ HoldingInv'
<1>1. UNCHANGED <<got, rewards, total, by, at>>
  BY DEF Changes, Age
<1>2. HoldingInv'
  BY <1>1, HoldingKept
<1>3. CASE Changes
  <2>1. changes' \in 0..MaxChanges
    BY <1>3, RewardsAssumption DEF Changes, TypeOK
  <2>2. QED
    BY <1>2, <1>3, <2>1 DEF Changes, TypeOK, bounds
<1>4. CASE Age
  <2>1. cache \in Entries /\ cache.age \in Nat /\ cache.age <= Expiry
    BY <1>4, RewardsAssumption DEF Age, TypeOK, Entries
  <2>2. cache.age + 1 \in 0..(Expiry + 1)
    BY <2>1, RewardsAssumption
  <2>3. cache' \in Entries
    BY <1>4, <2>1, <2>2 DEF Age, Entries
  <2>4. QED
    BY <1>2, <1>4, <2>3 DEF Age, TypeOK, bounds, world
<1>5. QED
  BY <1>3, <1>4

\* GetValInfo.
LEMMA CallStep ==
    ASSUME TypeOK, HoldingInv, NEW c \in Callers, Call(c) \/ QueryRewardsFails(c)
    PROVE  TypeOK' /\ HoldingInv'
<1> USE Names
<1>1. CASE PriceOf(c)
  <2>1. PICK where \in {"fetch", "rewards"} : Goto(c, where)
    BY <1>1 DEF PriceOf
  <2>2. /\ at' \in [Goroutines -> Places] /\ at'[c] = where
        /\ \A h \in Goroutines \ {c} : at'[h] = at[h]
    BY <2>1, GotoEffect DEF Places
  <2>3. TypeOK'
    BY <1>1, <2>2 DEF PriceOf, TypeOK, bounds, world
  <2>4. QED
    BY <1>1, <2>2, <2>3, HoldingKept DEF PriceOf
<1>2. CASE Fetched(c)
  <2>1. /\ at' \in [Goroutines -> Places] /\ at'[c] = "rewards"
        /\ \A h \in Goroutines \ {c} : at'[h] = at[h]
    BY <1>2, GotoEffect DEF Fetched, Places
  <2>2. cache' \in Entries \cup {Nil} /\ faults' \in 0..MaxFaults
    BY <1>2, FetchType DEF Fetched
  <2>3. TypeOK'
    BY <1>2, <2>1, <2>2 DEF Fetched, TypeOK, world
  <2>4. QED
    BY <1>2, <2>1, <2>3, HoldingKept DEF Fetched
<1>3. CASE QueryRewards(c)
  <2>1. PICK where \in {"metadata", "store"} : Goto(c, where)
    BY <1>3 DEF QueryRewards
  <2>2. /\ at' \in [Goroutines -> Places] /\ at'[c] = where
        /\ \A h \in Goroutines \ {c} : at'[h] = at[h]
    BY <2>1, GotoEffect DEF Places
  <2>3. /\ got' \in [Callers -> Owed \cup {Nil}] /\ got'[c] \in Owed
        /\ \A d \in Callers \ {c} : got'[d] = got[d]
    BY <1>3 DEF QueryRewards, TypeOK
  <2>4. TypeOK'
    BY <1>3, <2>2, <2>3 DEF QueryRewards, TypeOK, bounds, world
  <2>5. ReadInv'
    BY <2>2, <2>3 DEF HoldingInv, ReadInv
  <2>6. SeenInv' /\ TotalInv'
    BY <1>3, <2>2 DEF HoldingInv, SeenInv, TotalInv, QueryRewards
  <2>7. QED
    BY <2>4, <2>5, <2>6 DEF HoldingInv
<1>4. CASE QueryRewardsFails(c)
  <2>1. /\ at' \in [Goroutines -> Places] /\ at'[c] = "idle"
        /\ \A h \in Goroutines \ {c} : at'[h] = at[h]
    BY <1>4, GotoEffect DEF QueryRewardsFails, Places
  <2>2. faults' \in 0..MaxFaults
    BY <1>4, RewardsAssumption DEF QueryRewardsFails, Fault, TypeOK
  <2>3. TypeOK'
    BY <1>4, <2>1, <2>2 DEF QueryRewardsFails, TypeOK, world
  <2>4. QED
    BY <1>4, <2>1, <2>3, HoldingKept DEF QueryRewardsFails
<1>5. CASE StoreRewards(c)
  <2>1. /\ at' \in [Goroutines -> Places] /\ at'[c] = "idle"
        /\ \A h \in Goroutines \ {c} : at'[h] = at[h]
    BY <1>5, GotoEffect DEF StoreRewards, Places
  <2>2. got[c] \in Owed
    BY <1>5 DEF StoreRewards, HoldingInv, ReadInv
  <2>3. rewards' \in Coins
    BY <1>5, <2>2, CoinType, ConvertedType DEF StoreRewards
  <2>4. /\ got' \in [Callers -> Owed \cup {Nil}]
        /\ \A d \in Callers \ {c} : got'[d] = got[d]
    BY <1>5 DEF StoreRewards, TypeOK
  <2>5. TypeOK'
    BY <1>5, <2>1, <2>3, <2>4 DEF StoreRewards, TypeOK, bounds, world
  <2>6. ReadInv'
    BY <2>1, <2>4 DEF HoldingInv, ReadInv
  <2>7. SeenInv' /\ TotalInv'
    BY <1>5, <2>1, <2>3 DEF HoldingInv, SeenInv, TotalInv, StoreRewards
  <2>8. QED
    BY <2>5, <2>6, <2>7 DEF HoldingInv
<1>6. QED
  BY <1>1, <1>2, <1>3, <1>4, <1>5 DEF Call

\* A session starts, monitorHealth calls, the metadata is found.
LEMMA SessionStep ==
    ASSUME TypeOK, HoldingInv, StartSession \/ Refresh \/ FindMetadata
    PROVE  TypeOK' /\ HoldingInv'
<1> USE Names
<1>1. CASE StartSession
  <2>1. /\ at' \in [Goroutines -> Places] /\ at'["ws"] = "price"
        /\ \A h \in Goroutines \ {"ws"} : at'[h] = at[h]
    BY <1>1, GotoEffect DEF StartSession, Places
  <2>2. sessions' \in 0..MaxSessions
    BY <1>1, RewardsAssumption DEF StartSession, TypeOK
  <2>3. directory' \in BOOLEAN
    BY <1>1, Zenon DEF StartSession, TypeOK
  <2>4. TypeOK'
    BY <1>1, <2>1, <2>2, <2>3 DEF StartSession, TypeOK, world
  <2>5. QED
    BY <1>1, <2>1, <2>4, HoldingKept DEF StartSession
<1>2. CASE Refresh
  <2>1. /\ at' \in [Goroutines -> Places] /\ at'["monitor"] = "price"
        /\ \A h \in Goroutines \ {"monitor"} : at'[h] = at[h]
    BY <1>2, GotoEffect DEF Refresh, Places
  <2>2. TypeOK'
    BY <1>2, <2>1 DEF Refresh, TypeOK, world, bounds
  <2>3. QED
    BY <1>2, <2>1, <2>2, HoldingKept DEF Refresh
<1>3. CASE FindMetadata
  <2>1. /\ at' \in [Goroutines -> Places] /\ at'["ws"] = "store" /\ at["ws"] = "metadata"
        /\ \A h \in Goroutines \ {"ws"} : at'[h] = at[h]
    BY <1>3, GotoEffect DEF FindMetadata, Places
  <2>2. faults' \in 0..MaxFaults
    BY <1>3, RewardsAssumption DEF FindMetadata, Fault, TypeOK
  <2>3. sources.abci \in Kinds \cup {Nil} /\ InDirectory(sources.asset) \in Kinds \cup {Nil}
    BY RewardsAssumption DEF TypeOK, SourceType, InDirectory
  <2>4. metadata' \in Kinds \cup {Nil}
    <3>1. "right" \in Kinds /\ metadata \in Kinds \cup {Nil}
      BY DEF TypeOK, Kinds
    <3>2. metadata' \in {sources.abci, InDirectory(sources.asset), metadata, "right"}
      BY <1>3 DEF FindMetadata
    <3>3. QED
      BY <2>3, <3>1, <3>2
  <2>5. TypeOK'
    BY <1>3, <2>1, <2>2, <2>4 DEF FindMetadata, TypeOK, world
  <2>6. QED
    BY <1>3, <2>1, <2>5, HoldingKept DEF FindMetadata
<1>4. QED
  BY <1>1, <1>2, <1>3

\* watch.
LEMMA EvaluateStep ==
    ASSUME TypeOK, HoldingInv, Evaluate
    PROVE  TypeOK' /\ HoldingInv'
<1> USE Names
<1>1. CASE LacksMetadata
  <2>1. /\ at' \in [Goroutines -> Places] /\ at'["watch"] = "guess"
        /\ \A h \in Goroutines \ {"watch"} : at'[h] = at[h]
    BY <1>1, GotoEffect DEF LacksMetadata, Places
  <2>2. rewards \in Coins
    BY <1>1 DEF LacksMetadata, Evaluating, TypeOK
  <2>3. TypeOK'
    BY <1>1, <2>1 DEF LacksMetadata, TypeOK, bounds, world
  <2>4. HoldingInv'
    BY <1>1, <2>1, <2>2 DEF LacksMetadata, HoldingInv, ReadInv, SeenInv, TotalInv
  <2>5. QED
    BY <2>3, <2>4
<1>2. CASE GuessMetadata
  <2>1. /\ at' \in [Goroutines -> Places] /\ at'["watch"] = "sum" /\ at["watch"] = "guess"
        /\ \A h \in Goroutines \ {"watch"} : at'[h] = at[h]
    BY <1>2, GotoEffect DEF GuessMetadata, Places
  <2>2. metadata' \in Kinds \cup {Nil}
    <3>1. sources.first \in Kinds \cup {Nil}
      BY RewardsAssumption DEF TypeOK, SourceType
    <3>2. QED
      BY <1>2, <3>1 DEF GuessMetadata, InDirectory, TypeOK
  <2>3. TypeOK'
    BY <1>2, <2>1, <2>2 DEF GuessMetadata, TypeOK, bounds, world
  <2>4. QED
    BY <1>2, <2>1, <2>3, HoldingKept DEF GuessMetadata
<1>3. CASE SumUp
  <2>1. rewards \in Coins
    BY <1>3 DEF SumUp, Evaluating, HoldingInv, SeenInv, TypeOK
  <2>2. \/ /\ total' = Converted(rewards, metadata) /\ by' = metadata
           /\ metadata # "other" /\ (metadata = Nil \/ Converts(metadata))
           /\ Goto("watch", "price")
        \/ UNCHANGED <<total, by>> /\ Goto("watch", "idle")
    BY <1>3 DEF SumUp, IsNative
  <2>3. /\ at' \in [Goroutines -> Places] /\ at'["watch"] \in {"price", "idle"}
        /\ \A h \in Goroutines \ {"watch"} : at'[h] = at[h]
    BY <2>2, GotoEffect DEF Places
  <2>4. /\ total' \in Coins \cup {Nil} /\ by' \in Kinds \cup {Nil}
        /\ at'["watch"] = "price" => Priceable(total', by')
    <3>1. /\ Converted(rewards, metadata) \in Coins
          /\ metadata = "right" => Converted(rewards, metadata).denom = "display"
      BY <2>1, ConvertedType
    <3>2. Goto("watch", "idle") => at'["watch"] = "idle"
      BY GotoEffect DEF Places
    <3>3. metadata # "other" /\ (metadata = Nil \/ Converts(metadata))
             => metadata \in {Nil, "right", "nodisplay"}
      BY DEF Converts
    <3>4. QED
      BY <2>2, <3>1, <3>2, <3>3 DEF TypeOK, Priceable
  <2>5. TypeOK'
    BY <1>3, <2>3, <2>4 DEF SumUp, TypeOK, bounds, world
  <2>6. HoldingInv'
    BY <1>3, <2>3, <2>4 DEF SumUp, HoldingInv, ReadInv, SeenInv, TotalInv
  <2>7. QED
    BY <2>5, <2>6
<1>4. CASE PriceMissing
  <2>1. /\ at' \in [Goroutines -> Places] /\ at'["watch"] = "fetch" /\ at["watch"] = "price"
        /\ \A h \in Goroutines \ {"watch"} : at'[h] = at[h]
    BY <1>4, GotoEffect DEF PriceMissing, Places
  <2>2. TypeOK'
    BY <1>4, <2>1 DEF PriceMissing, TypeOK, bounds, world
  <2>3. QED
    BY <1>4, <2>1, <2>2, HoldingKept DEF PriceMissing
<1>5. ASSUME NEW price \in Prices \cup {Nil}, Conclude(price), total \in Coins
      PROVE  /\ at' \in [Goroutines -> Places] /\ at'["watch"] = "idle"
             /\ \A h \in Goroutines \ {"watch"} : at'[h] = at[h]
             /\ total' = Nil /\ by' = Nil /\ alarm' \in BOOLEAN
  <2>1. alarm' \in BOOLEAN
    <3>1. price # Nil => AboveThreshold(price) \in BOOLEAN
      <4>1. total.tenths \in Nat /\ Threshold * 10 \in Nat
        BY <1>5, CoinParts, RewardsAssumption
      <4>2. price # Nil => price \in Nat
        BY <1>5, RewardsAssumption
      <4>3. QED
        BY <4>1, <4>2 DEF AboveThreshold
    <3>2. QED
      BY <1>5, <3>1, Zenon DEF Conclude, AlarmAfter, TypeOK
  <2>2. QED
    BY <1>5, <2>1, GotoEffect DEF Conclude, Places
<1>6. CASE PriceCached
  <2>1. /\ at' \in [Goroutines -> Places] /\ at'["watch"] = "idle"
        /\ \A h \in Goroutines \ {"watch"} : at'[h] = at[h]
        /\ total' = Nil /\ by' = Nil /\ alarm' \in BOOLEAN
    <3>1. cache.price \in Prices \cup {Nil}
      BY <1>6 DEF PriceCached, Fresh, TypeOK, Entries
    <3>2. total \in Coins
      BY <1>6 DEF PriceCached, HoldingInv, TotalInv, Priceable
    <3>3. QED
      BY <1>5, <1>6, <3>1, <3>2 DEF PriceCached
  <2>2. TypeOK'
    BY <1>6, <2>1 DEF PriceCached, TypeOK, bounds, world
  <2>3. HoldingInv'
    BY <1>6, <2>1 DEF PriceCached, HoldingInv, ReadInv, SeenInv, TotalInv
  <2>4. QED
    BY <2>2, <2>3
<1>7. CASE PriceFetched
  <2>1. /\ at' \in [Goroutines -> Places] /\ at'["watch"] = "idle"
        /\ \A h \in Goroutines \ {"watch"} : at'[h] = at[h]
        /\ total' = Nil /\ by' = Nil /\ alarm' \in BOOLEAN
    <3>1. market \in Prices
      BY DEF TypeOK
    <3>2. total \in Coins
      BY <1>7 DEF PriceFetched, FetchSucceeds, FetchFails, HoldingInv, TotalInv, Priceable
    <3>3. QED
      BY <1>5, <1>7, <3>1, <3>2 DEF PriceFetched
  <2>2. cache' \in Entries \cup {Nil} /\ faults' \in 0..MaxFaults
    BY <1>7, FetchType DEF PriceFetched
  <2>3. TypeOK'
    BY <1>7, <2>1, <2>2 DEF PriceFetched, TypeOK, world
  <2>4. HoldingInv'
    BY <1>7, <2>1 DEF PriceFetched, HoldingInv, ReadInv, SeenInv, TotalInv
  <2>5. QED
    BY <2>3, <2>4
<1>8. QED
  BY <1>1, <1>2, <1>3, <1>4, <1>6, <1>7 DEF Evaluate

\* In the initial states nothing is held.
LEMMA InitHolds == Init => TypeOK /\ HoldingInv
<1> SUFFICES ASSUME Init PROVE TypeOK /\ HoldingInv
  OBVIOUS
<1>1. cache \in Entries \cup {Nil}
  BY EntryType DEF Init
<1>2. changes \in 0..MaxChanges /\ faults \in 0..MaxFaults /\ sessions \in 0..MaxSessions
  BY RewardsAssumption DEF Init
<1>3. enabled \in BOOLEAN /\ directory \in BOOLEAN /\ alarm \in BOOLEAN
  BY Zenon DEF Init
<1>4. at \in [Goroutines -> Places] /\ \A g \in Goroutines : at[g] = "idle"
  BY DEF Init, Places
<1>5. TypeOK
  BY <1>1, <1>2, <1>3, <1>4 DEF Init, TypeOK
<1>6. HoldingInv
  BY <1>4, Names DEF HoldingInv, ReadInv, SeenInv, TotalInv
<1>7. QED
  BY <1>5, <1>6

\* Types and HoldingInv hold together.
LEMMA HoldingInvariant == Spec => [](TypeOK /\ HoldingInv)
<1>1. TypeOK /\ HoldingInv /\ [Next]_vars => (TypeOK /\ HoldingInv)'
  <2> SUFFICES ASSUME TypeOK, HoldingInv, [Next]_vars PROVE TypeOK' /\ HoldingInv'
    OBVIOUS
  <2>1. CASE UNCHANGED vars
    BY <2>1 DEF vars, TypeOK, HoldingInv, ReadInv, SeenInv, TotalInv, Priceable
  <2>2. QED
    BY <2>1, WorldStep, SessionStep, CallStep, EvaluateStep DEF Next
<1>2. QED
  BY <1>1, InitHolds, PTL DEF Spec

-----------------------------------------------------------------------------
(* The theorems *)

\* Every variable keeps its type; in particular StoreRewards always has an amount to
\* store and the cached entry of a price never ages past one tick after its expiry.
THEOREM RewardsTypeCorrect == Spec => []TypeOK
BY HoldingInvariant, PTL

\* However the rewards, the metadata of the chain, the guess at it and the prices are
\* interleaved, and whatever fails, watch raises the alarm only over an amount that is
\* worth more than the threshold at the price it used, or that was converted with metadata
\* that names no display unit.
THEOREM PricingTheorem == Spec => AlarmIsNotMispriced
<1> DEFINE Priced == (alarm' /\ ~alarm) =>
          \/ total.of * (IF at["watch"] = "fetch" THEN market ELSE cache.price) > Threshold * 10
          \/ by = "nodisplay"
<1>1. TypeOK /\ HoldingInv /\ [Next]_vars => [Priced]_vars
  <2> SUFFICES ASSUME TypeOK, HoldingInv, Next, alarm', ~alarm, by # "nodisplay"
               PROVE  total.of * (IF at["watch"] = "fetch" THEN market ELSE cache.price)
                          > Threshold * 10
    OBVIOUS
  <2>1. PriceCached \/ PriceFetched
    BY DEF Next, Changes, Age, StartSession, FindMetadata, Refresh, Call, PriceOf, Fetched,
           QueryRewards, QueryRewardsFails, StoreRewards, Evaluate, LacksMetadata,
           GuessMetadata, SumUp, PriceMissing
  <2>2. at["watch"] \in {"price", "fetch"} /\ Priceable(total, by)
    BY <2>1 DEF PriceCached, PriceFetched, FetchSucceeds, FetchFails, HoldingInv, TotalInv
  <2>3. ASSUME NEW price, Conclude(price)
        PROVE  price # Nil /\ total.of * price > Threshold * 10
    <3>1. AlarmAfter(price)
      BY <2>3 DEF Conclude
    <3>2. price # Nil /\ convertedToDisplay /\ AboveThreshold(price)
      BY <3>1 DEF AlarmAfter
    <3>3. total \in Coins /\ total.denom = "display"
      BY <2>2, <3>2 DEF convertedToDisplay, Priceable
    <3>4. total.tenths = total.of
      BY <3>3, CoinParts
    <3>5. QED
      BY <3>2, <3>4 DEF AboveThreshold
  <2>4. CASE PriceCached
    <3>1. at["watch"] = "price" /\ Conclude(cache.price)
      BY <2>4 DEF PriceCached
    <3>2. QED
      BY <2>3, <3>1
  <2>5. CASE PriceFetched
    <3>1. at["watch"] = "fetch" /\ Conclude(market)
      BY <2>3, <2>5 DEF PriceFetched, FetchSucceeds, FetchFails
    <3>2. QED
      BY <2>3, <3>1
  <2>6. QED
    BY <2>1, <2>4, <2>5
<1>2. QED
  BY <1>1, HoldingInvariant, PTL DEF Spec, AlarmIsNotMispriced
=============================================================================
