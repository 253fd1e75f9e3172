--------------------------- MODULE ReferenceFeed ---------------------------
(***************************************************************************)
(* The FX poller of market/fx.rs with its cache files, and the control     *)
(* plane it feeds: where the quotes come from that ControlPlane lets       *)
(* arrive at any time.  The runner takes the quotes of one poll one by     *)
(* one, in the order of the currencies, and reports each at the time it    *)
(* was observed.                                                           *)
(*                                                                         *)
(* A poll comes later after the one before than the cache counts as fresh, *)
(* by the time the requests take; hence Ttl < Refresh, which are equal in  *)
(* the code.  The prices themselves are left out.                          *)
(***************************************************************************)
EXTENDS ControlPlane, Sequences, FiniteSetsExt

CONSTANTS Currencies,  \* in the order they are asked for
          Ttl,         \* FX_CACHE_TTL_MS
          FallbackTtl, \* FX_CACHE_FALLBACK_TTL_MS
          Refresh,     \* refresh_interval_ms
          MaxBackoff   \* max_backoff_ms

ASSUME FeedAssumption ==
    /\ Currencies \in Seq(STRING) /\ Currencies # <<>>
    /\ {Ttl, FallbackTtl, Refresh, MaxBackoff} \subseteq Nat
    /\ Ttl < Refresh /\ Refresh <= MaxBackoff /\ Ttl <= FallbackTtl

VARIABLES cache,   \* the cache file of each currency: when its quote was observed, 0 for none
          poller,  \* where the loop is, the quotes of this poll, the delay and its end
          queue,   \* quotes on their way to the runner
          lagged   \* history: a quote was taken from the cache beside a newer one

feed == <<cache, poller, queue, lagged>>
feedVars == <<vars, feed>>

Names == {Currencies[i] : i \in 1..Len(Currencies)}

FeedInit ==
    /\ Init
    /\ cache \in [Names -> {0, 1}]
    /\ poller = [at |-> "poll", quotes |-> <<>>, delay |-> Refresh, wake |-> 0]
    /\ queue = <<>> /\ lagged = FALSE

------------------------------------------------------------------------------
(* BinanceC2cFxClient::midpoint(): what may be answered, and the cache file *)
(* after it.  Refused is an error.                                          *)

Refused == 0
Cached(c, maxAge) == cache[c] # 0 /\ now - cache[c] <= maxAge
Answers(at, kept) == [at |-> at, cache |-> kept]

\* The write to the cache may fail, before or after the old file is removed.
Fetched(c) == {Answers(now, now), Answers(now, cache[c]), Answers(now, 0)}

\* During a cooldown, and when the exchange does not answer or limits the rate.
Fallback(c) == IF Cached(c, FallbackTtl) THEN Answers(cache[c], cache[c]) ELSE Answers(Refused, cache[c])

Midpoint(c) ==
    IF Cached(c, Ttl) THEN {Answers(cache[c], cache[c])}
    ELSE Fetched(c) \cup {Fallback(c), Answers(Refused, cache[c])}

------------------------------------------------------------------------------
(* BinanceC2cFxPoller::run().                                              *)

Sleeps(delay, quotes) == [at |-> "sleep", quotes |-> quotes, delay |-> delay, wake |-> now + delay]

\* One currency after the other, by the lock; the first error is the answer of the poll.
Poll ==
    /\ running /\ Booted /\ poller.at = "poll"
    /\ LET i == Len(poller.quotes) + 1 c == Currencies[i] IN
       \E answer \in Midpoint(c) :
          /\ cache' = [cache EXCEPT ![c] = answer.cache]
          /\ lagged' = (lagged \/ answer.at \in 1..now - 1)
          /\ poller' = IF answer.at = Refused THEN Sleeps(Min({2 * poller.delay, MaxBackoff}), <<>>)
                       ELSE [poller EXCEPT !.quotes = Append(@, answer.at),
                                           !.at = IF i = Len(Currencies) THEN "send" ELSE "poll"]
    /\ UNCHANGED <<vars, queue>>

Send ==
    /\ running /\ poller.at = "send"
    /\ queue' = queue \o poller.quotes
    /\ poller' = Sleeps(Refresh, <<>>)
    /\ UNCHANGED <<vars, cache, lagged>>

WakeUp ==
    /\ running /\ poller.at = "sleep" /\ now >= poller.wake
    /\ poller' = [poller EXCEPT !.at = "poll"]
    /\ UNCHANGED <<vars, cache, queue, lagged>>

\* The runner takes a quote from its channel.
TakeQuote ==
    /\ Booted /\ queue # <<>>
    /\ Report("reference_data", Head(queue))
    /\ queue' = Tail(queue)
    /\ UNCHANGED <<cache, poller, lagged>>

\* Another process of the machine refreshes the cache they share.
OtherProcess ==
    /\ running
    /\ \E c \in Names : cache[c] # now /\ cache' = [cache EXCEPT ![c] = now]
    /\ UNCHANGED <<vars, poller, queue, lagged>>

\* The reports of user data reach nothing that execution rests on.
FeedNext ==
    \/ (BootstrapReady \/ ObserveMarket \/ Tick \/ TimePasses) /\ UNCHANGED feed
    \/ Poll \/ Send \/ WakeUp \/ TakeQuote \/ OtherProcess

FeedSpec == FeedInit /\ [][FeedNext]_feedVars

------------------------------------------------------------------------------
FeedTypeOK ==
    /\ TypeOK
    /\ cache \in [Names -> 0..now]
    /\ poller.at \in {"poll", "send", "sleep"} /\ poller.delay \in Refresh..MaxBackoff
    /\ \A i \in 1..Len(poller.quotes) : poller.quotes[i] \in 1..now
    /\ Len(poller.quotes) <= Len(Currencies)
    /\ \A i \in 1..Len(queue) : queue[i] \in 1..now

\* As long as every quote of the feed is fetched and none taken from the cache, the
\* feed does not end the run: the quotes of one poll and of the next arrive in the
\* order of their observation, over the lock, the channel and the currencies.
FetchedQuotesAccepted == ~lagged => running

\* What the runner may rely on: execution is ready only on fresh reports of all it
\* rests on, and a feed that fetches what it sends does not end the run.
FeedIsSound == FeedTypeOK /\ AdmissionNeedsEverySource /\ FetchedQuotesAccepted

\* The poller backs off and falls back on its cache without ending the runner.
FeedKeepsRunning == running
=============================================================================
