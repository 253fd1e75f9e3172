--------------------------- MODULE MarketMetadata ---------------------------
(***************************************************************************)
(* What the metadata client knows of the market (market/metadata.rs) and   *)
(* when it is enough to start with (market/capability.rs).                 *)
(*                                                                         *)
(* Several processes of a machine share one cache file for each endpoint.  *)
(* A call answers from a fresh file, else asks the exchange, and falls     *)
(* back on an older file when the exchange cannot be had; the premium      *)
(* index falls back on it during a cooldown without asking.  The file is   *)
(* replaced by renaming a temporary file over it, and after a failed       *)
(* rename by removing it first.                                            *)
(*                                                                         *)
(* How requests are paced is PublicRest; paths, JSON and the values of the *)
(* answers are left out: an answer is the time at which it was true.       *)
(***************************************************************************)
EXTENDS Integers, FiniteSets

CONSTANTS
    Readers,      \* the calls under way, of whatever process
    Ttl,          \* ..._CACHE_TTL_MS
    Fallback,     \* ..._CACHE_FALLBACK_TTL_MS
    Delay,        \* the longest a call takes from the response to the renamed file
    MaxRetries,   \* MAX_ATTEMPTS
    MaxRenames,   \* the five renames that are tried
    Universe,     \* MarketCapabilityGate::required_symbols
    MaxAge,       \* PUBLIC_SNAPSHOT_MAX_AGE_MS
    LastTime      \* bound: the clock stops there

ASSUME MetadataAssumption ==
    /\ Ttl \in Nat /\ Fallback \in Nat /\ Ttl <= Fallback
    /\ {Delay, MaxRetries, MaxRenames, MaxAge, LastTime} \subseteq Nat

\* "plain": exchange info, funding history and funding info.
Endpoints == {"plain", "premium"}

VARIABLES
    endpoint,  \* the one this behaviour is about: each has a file of its own
    time,      \* current_time_ms()
    cache,     \* the cache file
    cooling,   \* a persisted cooldown is active
    call,      \* by reader
    answer,    \* the last one that was returned
    admitted,  \* MarketCapabilityGate::ready_snapshots
    offered    \* history: the last snapshot offered for each symbol

metadataVars == <<endpoint, time, cache, cooling, call, answer, admitted, offered>>

NoFile   == [fetched |-> -1, seen |-> -1]
NoCall   == [at |-> "idle", attempt |-> 0, seen |-> 0, received |-> 0, fetched |-> 0]
NoAnswer == [why |-> "none", age |-> 0]
Missing  == [seen |-> -1]

MetadataInit ==
    /\ endpoint \in Endpoints /\ time = 1 /\ cooling = FALSE
    /\ cache = NoFile /\ answer = NoAnswer
    /\ call = [r \in Readers |-> NoCall]
    /\ admitted = [s \in Universe |-> Missing]
    /\ offered = [s \in Universe |-> Missing]

-----------------------------------------------------------------------------
(* The cache files.                                                        *)

\* read_*_cache(): the age is that of the file, not of what it holds.
Usable(age) == cache # NoFile /\ time - cache.fetched <= age

\* What a call returns: how old it is, and why it may be returned.
Serves(seen, why) == answer' = [why |-> why, age |-> time - seen]

Returns(r) == call' = [call EXCEPT ![r] = NoCall]

Begin(r) ==
    /\ call[r].at = "idle"
    /\ IF Usable(Ttl) THEN Serves(cache.seen, "fresh") /\ UNCHANGED call
       ELSE IF endpoint = "premium" /\ cooling /\ Usable(Fallback)
       THEN Serves(cache.seen, "cooldown") /\ UNCHANGED call
       ELSE call' = [call EXCEPT ![r].at = "request"] /\ UNCHANGED answer
    /\ UNCHANGED <<time, cache, cooling, admitted, offered>>

\* get_json(): a lost request or body is tried again, after a pause.
Retry(r) ==
    /\ call[r].at = "request" /\ call[r].attempt < MaxRetries
    /\ call' = [call EXCEPT ![r].attempt = @ + 1]
    /\ UNCHANGED <<time, cache, cooling, answer, admitted, offered>>

\* The older file, or the error.
FallsBack ==
    /\ IF Usable(Fallback) THEN Serves(cache.seen, "failure") ELSE answer' = NoAnswer
    /\ UNCHANGED cache

\* The transport fails for the last time, or the exchange answers 418 or 429, which
\* also starts a cooldown.
Unavailable(r) ==
    /\ call[r].at = "request"
    /\ \/ call[r].attempt = MaxRetries /\ UNCHANGED cooling
       \/ cooling' = TRUE
    /\ FallsBack /\ Returns(r)
    /\ UNCHANGED <<time, admitted, offered>>

\* Another status, a body that does not decode, another symbol or no time: an error.
Refused(r) ==
    /\ call[r].at = "request"
    /\ answer' = NoAnswer /\ Returns(r)
    /\ UNCHANGED <<time, cache, cooling, admitted, offered>>

\* A premium index says itself when it was observed; that may lie in the past.
Respond(r) ==
    /\ call[r].at = "request"
    /\ \E seen \in (IF endpoint = "premium" THEN {time, time - 1} \cap Nat ELSE {time}) :
          call' = [call EXCEPT ![r].at = "write", ![r].seen = seen, ![r].received = time,
                               ![r].attempt = 0]
    /\ UNCHANGED <<time, cache, cooling, answer, admitted, offered>>

\* The temporary file, one for each process and moment, says when it was written.
WriteTemporary(r) ==
    /\ call[r].at = "write"
    /\ call' = [call EXCEPT ![r].at = "rename", ![r].fetched = time]
    /\ UNCHANGED <<time, cache, cooling, answer, admitted, offered>>

GivesTheAnswer(r) == Serves(call[r].seen, "asked") /\ Returns(r)

\* Nothing can be written: the answer is returned all the same.
WriteFails(r) ==
    /\ call[r].at = "write"
    /\ GivesTheAnswer(r)
    /\ UNCHANGED <<time, cache, cooling, admitted, offered>>

Replace(r) ==
    /\ call[r].at = "rename"
    /\ cache' = [fetched |-> call[r].fetched, seen |-> call[r].seen]
    /\ GivesTheAnswer(r)
    /\ UNCHANGED <<time, cooling, admitted, offered>>

\* A failed rename removes the target, except the last one.
RenameFails(r) ==
    /\ call[r].at = "rename"
    /\ IF call[r].attempt < MaxRenames - 1
       THEN /\ cache' = NoFile
            /\ call' = [call EXCEPT ![r].attempt = @ + 1] /\ UNCHANGED answer
       ELSE GivesTheAnswer(r) /\ UNCHANGED cache
    /\ UNCHANGED <<time, cooling, admitted, offered>>

\* The process of a call dies; a temporary file may stay behind, which nothing reads.
Dies(r) ==
    /\ call[r].at # "idle"
    /\ Returns(r) /\ answer' = NoAnswer
    /\ UNCHANGED <<time, cache, cooling, admitted, offered>>

-----------------------------------------------------------------------------
(* Snapshots and the gate.                                                 *)

\* BinanceSymbolSnapshot::validate_for_runtime(): the first thing that is wrong.
Refusal(s, now) ==
    IF s.seen # 0 /\ (s.seen > now \/ now - s.seen > MaxAge) THEN "stale"
    ELSE IF ~s.trading THEN "not trading"
    ELSE IF ~s.filters THEN "filters"
    ELSE IF ~s.quote THEN "quote"
    ELSE IF ~s.rate THEN "rate"
    ELSE IF s.next # 0 /\ s.next <= now THEN "expired"
    ELSE "none"

\* The bug: a snapshot that is refused leaves the one before it in place.
BugAccepted(symbol, s) ==
    IF Refusal(s, time) = "none" THEN [admitted EXCEPT ![symbol] = s] ELSE admitted

\* What is known of the symbol goes before the new snapshot is looked at.
Accepted(symbol, s) ==
    [admitted EXCEPT ![symbol] = IF Refusal(s, time) = "none" THEN s ELSE Missing]

\* symbol_snapshot() and accept(): two reads, the time of the second, and the rest of
\* what can be wrong with either.
Offer(symbol) ==
    \E wrong \in {"nothing", "trading", "quote"}, next \in {0, 2, LastTime + 1} :
        LET s == [seen |-> time, trading |-> wrong # "trading", filters |-> TRUE,
                  quote |-> wrong # "quote", rate |-> TRUE, next |-> next]
        IN  /\ offered' = [offered EXCEPT ![symbol] = s]
            /\ admitted' = Accepted(symbol, s)
            /\ UNCHANGED <<time, cache, cooling, call, answer>>

\* MarketCapabilityGate::is_ready_at().
IsReadyAt(now) ==
    /\ \A s \in Universe : admitted[s] # Missing
    /\ \A s \in Universe : Refusal(admitted[s], now) = "none"

-----------------------------------------------------------------------------
Passes ==
    /\ time < LastTime
    /\ \A r \in Readers : call[r].at \in {"write", "rename"} => time - call[r].received < Delay
    /\ time' = time + 1
    /\ cooling' \in {cooling, FALSE}
    /\ UNCHANGED <<cache, call, answer, admitted, offered>>

Calls ==
    \E r \in Readers :
        \/ Begin(r) \/ Retry(r) \/ Unavailable(r) \/ Refused(r) \/ Respond(r) \/ WriteTemporary(r)
        \/ WriteFails(r) \/ Replace(r) \/ RenameFails(r) \/ Dies(r)

\* The calls and the gate share nothing but the time.
CacheNext == (Calls \/ Passes) /\ UNCHANGED endpoint
GateNext == ((\E s \in Universe : Offer(s)) \/ Passes) /\ UNCHANGED endpoint
MetadataNext == CacheNext \/ GateNext
MetadataSpec == MetadataInit /\ [][MetadataNext]_metadataVars

-----------------------------------------------------------------------------
\* The comment on premium_index_snapshot(): an exchange failure may use only a bounded
\* stale value.  However the writers of one file overtake each other, what a call
\* returns was true within the lifetime it was served under and the time a call takes,
\* and only a failed exchange or a cooldown is answered with more than the short one.
AnswersAreBounded ==
    /\ answer.why = "asked" => answer.age <= Delay + 1
    /\ answer.why = "fresh" => answer.age <= Ttl + Delay + 1
    /\ answer.age <= Fallback + Delay + 1

\* A gate that is ready knows of every symbol the last thing it was offered, and that it
\* is valid now: a snapshot that was refused takes its predecessor with it.
ReadyOnTheLatest ==
    IsReadyAt(time) =>
        \A s \in Universe :
            admitted[s] = offered[s] /\ offered[s].trading /\ offered[s].quote
            /\ time - offered[s].seen <= MaxAge

\* What holds of the caches and of the gate.
MetadataIsCurrent == AnswersAreBounded /\ ReadyOnTheLatest
=============================================================================
