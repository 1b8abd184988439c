---------------------------- MODULE EarningsChart ----------------------------
(***************************************************************************)
(* The earnings chart of the payout settings: payouts.earnings and         *)
(* buildSeries of PayoutSettings.tsx, walked through the calendar day by   *)
(* day.                                                                    *)
(*                                                                         *)
(* The query answers for a span of days and the page sorts the days into   *)
(* thirty bars or twelve months.  Nothing but their agreement on the       *)
(* calendar makes the bars complete, and only up to a limit: the query     *)
(* stops at its 8000th entry, which is taken here to be of any day.  The   *)
(* query runs again when the ledger changes, not when a day passes, and    *)
(* the chart is drawn when its data or its range changes.                  *)
(*                                                                         *)
(* Days are numbered from 1 January 2021 and months from January 2021.     *)
(***************************************************************************)
EXTENDS Integers

CONSTANTS
    FirstMonth, LastMonth,  \* the months the walk goes through
    HoldDays,               \* CREATOR_EARNINGS_HOLD_HOURS in days
    Stops,                  \* bound: how many days before its own the query may stop
    MaxIdle                 \* bound: days without a change of the ledger

ASSUME EarningsChartAssumption ==
    /\ FirstMonth \in Nat /\ LastMonth \in Nat
    /\ 11 <= FirstMonth /\ FirstMonth <= LastMonth
    /\ HoldDays \in Nat /\ MaxIdle \in Nat /\ Stops \subseteq Int

VARIABLES
    today,    \* [day, month]
    changed,  \* the day of the ledger's last change
    chart     \* the range; the day its query ran, and the one the query read back to;
              \* and [day, month] when it was drawn

chartVars == <<today, changed, chart>>

-----------------------------------------------------------------------------
(* The calendar.                                                           *)

DaysBefore == <<0, 31, 59, 90, 120, 151, 181, 212, 243, 273, 304, 334>>
IsLeap(year) == year % 4 = 3      \* 2024 is year 3; none is left out until 2100

\* The number of the first day of a month.
FirstDay(month) ==
    LET year == month \div 12
        m == month % 12
    IN 365 * year + year \div 4 + DaysBefore[m + 1]
       + (IF IsLeap(year) /\ m >= 2 THEN 1 ELSE 0)

-----------------------------------------------------------------------------
(* payouts.earnings.                                                       *)

\* MAX_EARNINGS_DAYS.
Span(days) == IF days > 366 THEN 366 ELSE IF days < 1 THEN 1 ELSE days
Since(day, days) == day - (Span(days) - 1)

\* The entries that take effect since then are read, the latest first, and all of those
\* after the day the query reads back to are among them.  That is the day before the
\* span, or a later one, on which the scan reached EARNINGS_SCAN_LIMIT.
ReadsBackTo(day, since) ==
    {since - 1} \cup {stop \in {day - n : n \in Stops} : stop >= since}

\* An entry counts if it was read and was made in the span.  An earning takes effect when
\* its hold ends, a reversal or a dispute on its own day.
Counts(made, effective, back, since) == effective > back /\ made >= since

-----------------------------------------------------------------------------
(* buildSeries.                                                            *)

Asks(range) == IF range = "30d" THEN 30 ELSE 366

\* The first day of the series.
TwelveMonths(at) == FirstDay(at.month - 11)
FirstBar(range, at) == IF range = "30d" THEN at.day - 29 ELSE TwelveMonths(at)

\* A chart drawn today from a query that ran on a day.
Drawn(range, day) ==
    {[range |-> range, queried |-> day, back |-> back, drawn |-> today] :
        back \in ReadsBackTo(day, Since(day, Asks(range)))}

\* The page is opened on any day of these months.
ChartInit ==
    /\ \E month \in FirstMonth..LastMonth :
        \E day \in FirstDay(month)..FirstDay(month + 1) - 1 :
            today = [day |-> day, month |-> month]
    /\ changed = today.day
    /\ chart \in Drawn("30d", today.day)

-----------------------------------------------------------------------------
NextDay ==
    LET last == today.day + 1 = FirstDay(today.month + 1)
    IN /\ today.month < LastMonth \/ ~last
       /\ today.day - changed < MaxIdle
       /\ today' = [day |-> today.day + 1,
                    month |-> IF last THEN today.month + 1 ELSE today.month]
       /\ UNCHANGED <<changed, chart>>

\* The ledger changes: the query runs again and the chart is drawn.
LedgerChanges ==
    /\ changed' = today.day
    /\ chart' \in Drawn(chart.range, today.day)
    /\ UNCHANGED today

\* setRange: an answer that was kept since the last change will do.
SetRange ==
    /\ \E day \in changed..today.day :
        chart' \in Drawn(IF chart.range = "30d" THEN "12m" ELSE "30d", day)
    /\ UNCHANGED <<today, changed>>

ChartNext == NextDay \/ LedgerChanges \/ SetRange

ChartSpec == ChartInit /\ [][ChartNext]_chartVars

-----------------------------------------------------------------------------
(* Properties.                                                             *)

ChartTypeOK ==
    /\ today.month \in FirstMonth..LastMonth /\ today.day \in Nat
    /\ FirstDay(today.month) <= today.day /\ today.day < FirstDay(today.month + 1)
    /\ chart.range \in {"30d", "12m"}

\* "Last 30 days" and "Last 12 months": whatever was earned, refunded or disputed on a
\* day that has a bar is in the query's answer, in leap years and out of them, and also
\* when the answer is older than the chart.  Where the scan reached its limit this holds
\* of the days after the one it stopped on: "older days drop off first".  (Of the days
\* before, some that are within the hold show what was earned without its refunds.)
ChartIsComplete ==
    LET since == Since(chart.queried, Asks(chart.range))
        first == FirstBar(chart.range, chart.drawn)
        limited == chart.back >= since
        from == IF limited /\ chart.back >= first THEN chart.back + 1 ELSE first
    IN \A made \in from..chart.queried, wait \in {0, HoldDays} :
            Counts(made, made + wait, chart.back, since)
=============================================================================
