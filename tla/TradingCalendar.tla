-------------------------- MODULE TradingCalendar ---------------------------
(***************************************************************************)
(* The calendars of the two regions (engine/src/strategy/calendar.rs), the *)
(* gates the engine makes of them (simulation/runtime_math.rs), and the    *)
(* clock of the live runner (bin/anchorbell_live.rs).                      *)
(*                                                                         *)
(* A moment is a local day and a minute of it. What the Gregorian          *)
(* arithmetic and the tables of holidays answer is a function from days to *)
(* records: weekday, holiday, half (an early close) and supported.         *)
(***************************************************************************)
EXTENDS Integers, FiniteSets

CONSTANTS Calendar,    \* [first day .. last day -> record]
          FlattenLead  \* 30 minutes

ASSUME CalendarAssumption ==
    \A d \in DOMAIN Calendar :
        /\ Calendar[d].weekday \in 1 .. 7
        /\ d + 1 \in DOMAIN Calendar =>
              Calendar[d + 1].weekday = (Calendar[d].weekday % 7) + 1

Regions == {"AShare", "HongKong"}
DayMinutes == 1440
At(day, minute) == day * DayMinutes + minute
Never == -1    \* None

Earliest(S) == CHOOSE x \in S : \A y \in S : x <= y
Latest(S) == CHOOSE x \in S : \A y \in S : x >= y

-----------------------------------------------------------------------------
(* The tables.                                                             *)

MorningOpen == 570
AfternoonOpen == 780
MorningClose(region) == IF region = "AShare" THEN 690 ELSE 720
FullClose(region) == IF region = "AShare" THEN 900 ELSE 960
AuctionStart(region) == IF region = "AShare" THEN 555 ELSE 540
ClosingAuction(region) == IF region = "AShare" THEN 897 .. 899 ELSE 960 .. 969

Supported(day) == day \in DOMAIN Calendar /\ Calendar[day].supported
IsHoliday(day) == Calendar[day].holiday
TradingDay(day) == Supported(day) /\ Calendar[day].weekday <= 5 /\ ~IsHoliday(day)

\* effective_final_close_minute: only Hong Kong closes early.
FinalClose(region, day) ==
    IF region = "HongKong" /\ Calendar[day].half THEN MorningClose(region)
    ELSE FullClose(region)

HasAfternoon(region, day) == FinalClose(region, day) > AfternoonOpen
ActiveFinalClose(region, day) ==
    IF region = "HongKong" /\ FinalClose(region, day) = FullClose(region)
    THEN FullClose(region) + 10 ELSE FinalClose(region, day)

AfterFinalClose(region, day, minute) ==
    TradingDay(day) /\ minute >= FinalClose(region, day)

-----------------------------------------------------------------------------
\* The next trading day, if the snapshot covers every day up to it.
NextExitDeadlineAfter(region, day) ==
    LET next == {d \in DOMAIN Calendar : d > day /\ TradingDay(d)}
    IN  IF next = {} THEN Never
        ELSE IF \E d \in day + 1 .. Earliest(next) : ~Supported(d) THEN Never
        ELSE At(Earliest(next), AuctionStart(region))

\* The boundary of a running session stays the deadline until the session ends.
ExitDeadline(region, day, minute) ==
    IF ~Supported(day) THEN Never
    ELSE IF ~TradingDay(day) THEN NextExitDeadlineAfter(region, day)
    ELSE IF minute < MorningClose(region) THEN At(day, AuctionStart(region))
    ELSE IF HasAfternoon(region, day) /\ minute < ActiveFinalClose(region, day)
    THEN At(day, AfternoonOpen)
    ELSE NextExitDeadlineAfter(region, day)

\* A close is complete a minute later, when its candle can be read.
LatestCompletedClose(region, day, minute) ==
    LET closes == {At(d, FinalClose(region, d)) : d \in {d \in DOMAIN Calendar : d <= day /\ TradingDay(d)}}
        complete == {c \in closes : c + 1 <= At(day, minute)}
    IN  IF complete = {} THEN Never ELSE Latest(complete)

\* detailed_state_at, with the closing auction and the lead of 30 minutes its
\* callers ask for; it knows no early close.
DetailedState(region, weekday, minute, holiday) ==
    LET open == AuctionStart(region)
    IN  IF weekday \notin 1 .. 7 \/ minute \notin 0 .. DayMinutes - 1 THEN "Unknown"
        ELSE IF weekday > 5 THEN "Weekend"
        ELSE IF holiday THEN "Holiday"
        ELSE IF minute >= open - FlattenLead /\ minute < open THEN "PreOpenFlatten"
        ELSE IF minute >= open /\ minute < MorningOpen THEN "PreOpenAuction"
        ELSE IF minute >= MorningClose(region) /\ minute < AfternoonOpen THEN "MiddayBreak"
        ELSE IF minute \in ClosingAuction(region) THEN "ClosingAuction"
        ELSE IF minute >= MorningOpen /\ minute < FullClose(region) THEN "Open"
        ELSE "Closed"

-----------------------------------------------------------------------------
(* The gates of the simulation.                                            *)

\* simulation_session_allows_entry: perpetuals trade on weekends and holidays.
SessionAllowsEntry(region, day, minute) ==
    /\ Supported(day)
    /\ \/ ~TradingDay(day)
       \/ DetailedState(region, Calendar[day].weekday, minute, FALSE)
            \in {"Closed", "MiddayBreak"}

\* anchor_refresh_allowed, for a candle that ends with its minute.
AnchorRefreshAllowed(region, day, minute) ==
    /\ Supported(day)
    /\ \/ ~TradingDay(day)
       \/ minute + 1 >= FinalClose(region, day)
       \/ /\ minute < 540
          /\ \E d \in day - 7 .. day - 1 : TradingDay(d)

AnchorReferenceAllowed(region, day, minute) ==
    \/ AnchorRefreshAllowed(region, day, minute)
    \/ /\ TradingDay(day)
       /\ DetailedState(region, Calendar[day].weekday, minute, FALSE) = "MiddayBreak"

\* simulation_anchor_usable: until a later close is final.
AnchorUsable(region, anchor, day, minute) ==
    LET from == anchor \div DayMinutes
    IN  /\ anchor # Never
        /\ AnchorReferenceAllowed(region, from, (anchor % DayMinutes) - 1)
        /\ from <= day
        /\ \A d \in from + 1 .. day :
              /\ Supported(d)
              /\ ~(TradingDay(d) /\ (d < day \/ minute >= FinalClose(region, d)))

\* next_equity_pre_open_at_ms, the deadline of the flatten plan.
NextPreOpen(region, day, minute) ==
    LET days == {d \in day .. day + 7 : TradingDay(d) /\ (d = day => minute < AuctionStart(region))}
    IN  IF days = {} THEN Never ELSE At(Earliest(days), AuctionStart(region))

-----------------------------------------------------------------------------
(* The live runner: equity_is_closed and local_clock. The minute is local, *)
(* the day is counted in UTC, eight hours behind, and from Friday.         *)

LiveWeekday(day, minute) ==
    LET utc == IF minute < 480 THEN day - 1 ELSE day
    IN  (Calendar[utc].weekday % 7) + 1

EquityIsClosed(region, day, minute) ==
    DetailedState(region, LiveWeekday(day, minute), minute, FALSE) \in {"Closed", "MiddayBreak"}

-----------------------------------------------------------------------------
(* What the venue does.                                                    *)

ReallyOpen(region, day, minute) ==
    /\ TradingDay(day)
    /\ \/ MorningOpen <= minute /\ minute < MorningClose(region)
       \/ HasAfternoon(region, day) /\ AfternoonOpen <= minute /\ minute < FullClose(region)

\* Does the venue trade at a moment from..to - 1? It is enough to look at the
\* moments at which it opens, and at the first.
TradesBetween(region, from, to) ==
    \/ /\ from < to /\ ReallyOpen(region, from \div DayMinutes, from % DayMinutes)
    \/ \E d \in from \div DayMinutes .. to \div DayMinutes, m \in {MorningOpen, AfternoonOpen} :
          /\ from <= At(d, m) /\ At(d, m) < to
          /\ d \in DOMAIN Calendar /\ ReallyOpen(region, d, m)

\* Entries are let through while the venue is closed and the deadline of the
\* session lies ahead, and stop half an hour before it opens for the day; a
\* venue that is closed does not open before the deadline; and outside the
\* midday break the venue has not traded since the close the anchor was read
\* from (simulation_session_allows_entry, exit_deadline_at,
\* latest_completed_close_before, simulation_anchor_usable).
SessionsAgree(region, day, minute) ==
    LET now == At(day, minute)
        deadline == ExitDeadline(region, day, minute)
        opens == NextPreOpen(region, day, minute)
        close == LatestCompletedClose(region, day, minute)
        allowed == SessionAllowsEntry(region, day, minute)
        midday == TradingDay(day) /\ minute \in MorningClose(region) .. AfternoonOpen - 1
    IN  /\ allowed => ~ReallyOpen(region, day, minute)
        /\ allowed /\ deadline # Never => now < deadline
        /\ allowed /\ opens # Never => now + FlattenLead <= opens
        /\ deadline > now => ~TradesBetween(region, now, deadline)
        /\ allowed /\ AnchorUsable(region, close, day, minute) /\ ~midday =>
              ~TradesBetween(region, close, now)

\* A position is to be reduced before the market reopens (README.md:43): the
\* plan of the exit knows no later deadline than the calendar.
ReopeningIsADeadline(region, day, minute) ==
    SessionAllowsEntry(region, day, minute) /\ ExitDeadline(region, day, minute) # Never =>
        NextPreOpen(region, day, minute) <= ExitDeadline(region, day, minute)

\* The weekday is the one of the local day (calendar.rs: a minute in China/Hong
\* Kong local time).
LiveClockIsLocal(day, minute) == LiveWeekday(day, minute) = Calendar[day].weekday
=============================================================================
