-------------------------- MODULE UnclaimedRewards --------------------------
(***************************************************************************)
(* The alarm about rewards a validator has not claimed, which needs three   *)
(* things that arrive apart from each other: the rewards, the metadata of   *)
(* their denomination, and the price of the token.                          *)
(*                                                                          *)
(* GetValInfo stores the rewards, converted to the display unit if it can;  *)
(* the call at the start of a websocket session ("ws") also looks for the   *)
(* metadata, the one monitorHealth makes every minute ("monitor") does not. *)
(* Prices are kept in a cache which every caller refills when its entry has *)
(* expired. watch multiplies the two and compares with the threshold.       *)
(*                                                                          *)
(* Of the coins, only the native one is modelled. Amounts are in tenths of  *)
(* a unit; a display unit is ten base units.                                *)
(***************************************************************************)
EXTENDS Naturals

CONSTANTS
    Owed,           \* rewards, in base units, that the validator may have
    Prices,         \* prices of a display unit, none is zero
    Threshold,      \* unclaimed_rewards_threshold_in_fiat_currency
    Sources,        \* what the sources of metadata may say, see below
    Expiry,         \* cache_expiration, in ticks
    Nil,            \* Go's nil, and no entry in a map
    MaxChanges,     \* bound: changes of the rewards or of the price
    MaxFaults,      \* bound: failed queries and requests
    MaxSessions     \* bound: websocket sessions

\* Metadata of the native token, metadata whose display unit is not among its units,
\* metadata that names no display unit, and metadata of another token.
Kinds == {"right", "broken", "nodisplay", "other"}

\* What the chain says of the bond denomination; the asset cosmos.directory has under that
\* denomination; and its first asset.
SourceType == [abci : Kinds \cup {Nil}, asset : Kinds \cup {Nil}, first : Kinds \cup {Nil}]

ASSUME RewardsAssumption ==
    /\ Owed \subseteq Nat /\ Prices \subseteq Nat \ {0} /\ Threshold \in Nat
    /\ Sources \subseteq SourceType
    /\ Expiry \in Nat \ {0} /\ Nil \notin Kinds \cup Nat
    /\ MaxChanges \in Nat /\ MaxFaults \in Nat /\ MaxSessions \in Nat

VARIABLES
    owed,       \* the rewards on chain
    market,     \* the price of a display unit
    converter,  \* the configured price provider
    enabled,    \* td.PriceConversion.Enabled
    sources,    \* what each source of metadata would say
    directory,  \* cc.cosmosDirectoryData is loaded
    metadata,   \* cc.denomMetadata
    rewards,    \* valInfo.SelfDelegationRewards and Commission
    cache,      \* the cached price map: our price in it, and its age
    at,         \* where each goroutine is
    got,        \* the rewards a caller of GetValInfo has received
    total,      \* the amount watch is about to price
    by,         \* the metadata with which it was converted
    alarm,      \* UnclaimedRewards is in AllAlarms
    changes, faults, sessions

vars == <<owed, market, converter, enabled, sources, directory, metadata, rewards,
          cache, at, got, total, by, alarm, changes, faults, sessions>>
world == <<owed, market, converter, enabled, sources, changes>>
bounds == <<faults, sessions>>

Callers == {"ws", "monitor"}
Goroutines == Callers \cup {"watch"}

\* An amount, its unit, and (history) the rewards on chain it was made from.
Coin(denom, n) == [denom |-> denom, tenths |-> IF denom = "base" THEN 10 * n ELSE n, of |-> n]
Coins == {Coin(d, n) : d \in {"base", "display"}, n \in Owed}

Fault == faults < MaxFaults /\ faults' = faults + 1
Goto(g, where) == at' = [at EXCEPT ![g] = where]

-----------------------------------------------------------------------------
(* The chain and the market *)

Changes ==
    /\ changes < MaxChanges
    /\ changes' = changes + 1
    /\ \/ owed' \in Owed \ {owed} /\ UNCHANGED market
       \/ market' \in Prices \ {market} /\ UNCHANGED owed
    /\ UNCHANGED <<converter, enabled, sources, directory, metadata, rewards, cache, at,
                   got, total, by, alarm, bounds>>

-----------------------------------------------------------------------------
(* The price cache *)

\* Mutated: an entry does not expire.
FreshMutant == cache # Nil

Fresh == cache # Nil /\ cache.age <= Expiry

Entry(price) == [price |-> price, age |-> 0]

\* A request is answered. The cache is replaced whatever others stored meanwhile.
FetchSucceeds(g) ==
    /\ at[g] = "fetch"
    /\ cache' = Entry(market)

\* A request fails. CoinMarketCap's are one per slug: a slug without an answer is left
\* out of the map that is cached. CoinGecko's is one for all: nothing is cached.
FetchFails(g) ==
    /\ at[g] = "fetch"
    /\ Fault
    /\ cache' = IF converter = "coinmarketcap" THEN Entry(Nil) ELSE cache

Age ==
    /\ cache # Nil /\ cache.age <= Expiry
    /\ cache' = [cache EXCEPT !.age = @ + 1]
    /\ UNCHANGED <<world, directory, metadata, rewards, at, got, total, by, alarm, bounds>>

-----------------------------------------------------------------------------
(* GetValInfo *)

\* newRpc loads the chain's entry of cosmos.directory, if there is one and unless it
\* has it already, then the websocket loop calls GetValInfo(true).
StartSession ==
    /\ at["ws"] = "idle" /\ sessions < MaxSessions
    /\ sessions' = sessions + 1
    /\ directory' \in {directory, TRUE}
    /\ Goto("ws", "price")
    /\ UNCHANGED <<world, metadata, rewards, cache, got, total, by, alarm, faults>>

Refresh ==
    /\ at["monitor"] = "idle"
    /\ Goto("monitor", "price")
    /\ UNCHANGED <<world, directory, metadata, rewards, cache, got, total, by, alarm, bounds>>

\* GetPrice: from the cache, or with a request.
PriceOf(c) ==
    /\ at[c] = "price"
    /\ Goto(c, IF enabled /\ ~Fresh THEN "fetch" ELSE "rewards")
    /\ UNCHANGED <<world, directory, metadata, rewards, cache, got, total, by, alarm, bounds>>

Fetched(c) ==
    /\ \/ FetchSucceeds(c) /\ UNCHANGED faults
       \/ FetchFails(c)
    /\ Goto(c, "rewards")
    /\ UNCHANGED <<world, directory, metadata, rewards, got, total, by, alarm, sessions>>

QueryRewards(c) ==
    /\ at[c] = "rewards"
    /\ got' = [got EXCEPT ![c] = owed]
    /\ Goto(c, IF c = "ws" THEN "metadata" ELSE "store")
    /\ UNCHANGED <<world, directory, metadata, rewards, cache, total, by, alarm, bounds>>

QueryRewardsFails(c) ==
    /\ at[c] = "rewards"
    /\ Fault
    /\ Goto(c, "idle")
    /\ UNCHANGED <<world, directory, metadata, rewards, cache, got, total, by, alarm, sessions>>

\* cosmos.directory's metadata for a denomination: the first asset's if none has it.
InDirectory(asset) == IF asset = Nil THEN sources.first ELSE asset

\* The metadata is the chain's, or cosmos.directory's, or that of tenderduty's file on
\* GitHub; if no source has it, it stays what it was, as it does when the bond
\* denomination cannot be found out.
FindMetadata ==
    /\ at["ws"] = "metadata"
    /\ \/ /\ sources.abci # Nil
          /\ metadata' = sources.abci
          /\ UNCHANGED faults
       \/ /\ IF sources.abci = Nil THEN UNCHANGED faults ELSE Fault
          /\ metadata' \in IF directory /\ InDirectory(sources.asset) # Nil
                           THEN {InDirectory(sources.asset), metadata}
                           ELSE {"right", metadata}
    /\ Goto("ws", "store")
    /\ UNCHANGED <<world, directory, rewards, cache, got, total, by, alarm, sessions>>

\* ConvertDecCoinToDisplayUnit: whether it returns no error, and what it returns. The base
\* unit is taken for the display unit if there is none; a coin that is not among the
\* units is kept.
Converts(m) == m \in {"right", "nodisplay", "other"}

\* Mutated: a coin already in the display unit is converted again.
ConvertedMutant(coin, m) ==
    IF m # "right" THEN coin
    ELSE [denom |-> "display", tenths |-> coin.tenths \div 10, of |-> coin.of]

Converted(coin, m) ==
    CASE m = "right"     -> Coin("display", coin.of)
      [] m = "nodisplay" -> Coin("base", coin.of)
      [] OTHER           -> coin

\* If the rewards cannot be converted, they are stored in base units.
StoreRewards(c) ==
    /\ at[c] = "store"
    /\ rewards' = Converted(Coin("base", got[c]), metadata)
    /\ got' = [got EXCEPT ![c] = Nil]
    /\ Goto(c, "idle")
    /\ UNCHANGED <<world, directory, metadata, cache, total, by, alarm, bounds>>

-----------------------------------------------------------------------------
(* watch: evaluateUnclaimedRewardsAlert *)

Evaluating == enabled /\ rewards # Nil /\ rewards.tenths > 0

\* There is no metadata, so that of cosmos.directory is taken, without a denomination
\* to look for. By the time it is stored, GetValInfo may have found another.
LacksMetadata ==
    /\ at["watch"] = "idle" /\ Evaluating /\ metadata = Nil /\ directory
    /\ Goto("watch", "guess")
    /\ UNCHANGED <<world, directory, metadata, rewards, cache, got, total, by, alarm, bounds>>

GuessMetadata ==
    /\ at["watch"] = "guess"
    /\ metadata' = IF InDirectory(Nil) = Nil THEN metadata ELSE InDirectory(Nil)
    /\ Goto("watch", "sum")
    /\ UNCHANGED <<world, directory, rewards, cache, got, total, by, alarm, bounds>>

\* The coins that count, given the metadata: those in a denomination that it names.
IsNative(coin) == metadata # "other" /\ (metadata = "nodisplay" => coin.denom = "base")

\* With no coins, a total of zero, or metadata that does not convert them, nothing is
\* evaluated; an alarm that is active then stays.
SumUp ==
    /\ \/ at["watch"] = "idle" /\ Evaluating /\ ~(metadata = Nil /\ directory)
       \/ at["watch"] = "sum"
    /\ IF rewards.tenths > 0 /\ IsNative(rewards) /\ (metadata = Nil \/ Converts(metadata))
       THEN total' = Converted(rewards, metadata) /\ by' = metadata /\ Goto("watch", "price")
       ELSE UNCHANGED <<total, by>> /\ Goto("watch", "idle")
    /\ UNCHANGED <<world, directory, metadata, rewards, cache, got, alarm, bounds>>

\* A conversion that returned no error, whatever the unit it left the total in.
convertedToDisplay == by # Nil
AboveThreshold(price) == total.tenths * price > Threshold * 10

\* Mutated: an amount that was not converted is priced all the same.
AlarmAfterMutant(price) == IF price = Nil THEN alarm ELSE AboveThreshold(price)

\* The alarm after pricing: nothing changes without a price or the metadata.
AlarmAfter(price) ==
    IF price = Nil \/ ~convertedToDisplay THEN alarm ELSE AboveThreshold(price)

Conclude(price) ==
    /\ alarm' = AlarmAfter(price)
    /\ total' = Nil /\ by' = Nil
    /\ Goto("watch", "idle")

PriceCached ==
    /\ at["watch"] = "price" /\ Fresh
    /\ Conclude(cache.price)
    /\ UNCHANGED <<world, directory, metadata, rewards, cache, got, bounds>>

PriceMissing ==
    /\ at["watch"] = "price" /\ ~Fresh
    /\ Goto("watch", "fetch")
    /\ UNCHANGED <<world, directory, metadata, rewards, cache, got, total, by, alarm, bounds>>

PriceFetched ==
    /\ \/ FetchSucceeds("watch") /\ Conclude(market) /\ UNCHANGED faults
       \/ FetchFails("watch") /\ Conclude(Nil)
    /\ UNCHANGED <<world, directory, metadata, rewards, got, sessions>>

-----------------------------------------------------------------------------
\* loadConfig has asked for the prices once; if CoinGecko failed, the feature is off.
Init ==
    /\ owed \in Owed /\ market \in Prices
    /\ converter \in {"coinmarketcap", "coingecko"}
    /\ cache \in {Nil, Entry(Nil), Entry(market)}
    /\ enabled = (cache # Nil)
    /\ cache = Nil => converter = "coingecko"
    /\ cache = Entry(Nil) => converter = "coinmarketcap"
    /\ sources \in Sources
    /\ directory = FALSE /\ metadata = Nil /\ rewards = Nil
    /\ at = [g \in Goroutines |-> "idle"]
    /\ got = [c \in Callers |-> Nil] /\ total = Nil /\ by = Nil
    /\ alarm = FALSE
    /\ changes = 0 /\ faults = 0 /\ sessions = 0

Call(c) == PriceOf(c) \/ Fetched(c) \/ QueryRewards(c) \/ StoreRewards(c)
Evaluate == LacksMetadata \/ GuessMetadata \/ SumUp \/ PriceCached \/ PriceMissing \/ PriceFetched

Next ==
    \/ Changes \/ Age
    \/ StartSession \/ FindMetadata \/ Refresh
    \/ \E c \in Callers : Call(c) \/ QueryRewardsFails(c)
    \/ Evaluate

Spec == Init /\ [][Next]_vars

\* Calls end, monitorHealth and watch go on, and time passes.
FairSpec ==
    /\ Spec
    /\ WF_vars(StartSession) /\ WF_vars(FindMetadata) /\ WF_vars(Refresh)
    /\ \A c \in Callers : WF_vars(Call(c))
    /\ WF_vars(Evaluate) /\ WF_vars(Age)

-----------------------------------------------------------------------------
(* Properties *)

Entries == [price : Prices \cup {Nil}, age : 0..(Expiry + 1)]
Places == {"idle", "price", "fetch", "rewards", "metadata", "store", "guess", "sum"}

\* Every variable keeps its type.
TypeOK ==
    /\ owed \in Owed /\ market \in Prices /\ enabled \in BOOLEAN /\ directory \in BOOLEAN
    /\ converter \in {"coinmarketcap", "coingecko"}
    /\ sources \in Sources /\ by \in Kinds \cup {Nil}
    /\ metadata \in Kinds \cup {Nil}
    /\ rewards \in Coins \cup {Nil} /\ total \in Coins \cup {Nil}
    /\ cache \in Entries \cup {Nil}
    /\ at \in [Goroutines -> Places]
    /\ got \in [Callers -> Owed \cup {Nil}]
    /\ alarm \in BOOLEAN
    /\ changes \in 0..MaxChanges /\ faults \in 0..MaxFaults /\ sessions \in 0..MaxSessions

\* The alarm is only raised if the rewards last read are really worth more than the
\* threshold at some known price: in whatever order rewards, metadata and a guess at the
\* metadata arrive, an amount in base units is not priced as one in display units. The
\* one exception is metadata without a display unit, which the amount was converted with:
\* the conversion leaves it in base units and reports no error.
AlarmIsNotMispriced ==
    [][(alarm' /\ ~alarm) =>
          \/ total.of * (IF at["watch"] = "fetch" THEN market ELSE cache.price)
                 > Threshold * 10
          \/ by = "nodisplay"]_vars

\* The rewards and prices at which the rewards are worth more than the threshold.
Excessive == {x \in Owed \X Prices : x[1] * x[2] > Threshold * 10}

\* Rewards that stay above the threshold, at a price that stays, are alerted once the
\* metadata is that of the native token, whatever failed before: a price that is missing
\* from the cache is asked for again when the entry expires.
RewardsAreAlerted ==
    <>[](enabled /\ metadata = "right" /\ <<owed, market>> \in Excessive) => <>[]alarm

\* Once they are worth no more than the threshold the alarm goes. (Nothing resolves it
\* while there are no rewards at all.)
RewardsAlarmEnds ==
    <>[](enabled /\ metadata = "right" /\ owed > 0 /\ <<owed, market>> \notin Excessive)
        => <>[]~alarm

\* The alarm ends up where the value of the rewards says, whatever answers failed,
\* came late or were taken from the cache.
AlarmFollowsRewards == RewardsAreAlerted /\ RewardsAlarmEnds
=============================================================================
