-------------------------------- MODULE Cron --------------------------------
(***************************************************************************)
(* Bosma::Cron (ext/ext/scheduler/Cron.h): the lines of trackalert's       *)
(* cronScheduleBackgroundFunc, and the search for the next time that       *)
(* matches one.                                                            *)
(*                                                                         *)
(* The calendar is smaller than the real one; months are of different      *)
(* length, and a year is no multiple of a week. Seconds and daylight       *)
(* saving are left out.                                                    *)
(***************************************************************************)
EXTENDS Integers, Sequences, FiniteSetsExt

CONSTANTS
    MonthDays,  \* the length of each month
    WeekDays, Hours, Minutes, \* days of a week, hours of a day, minutes of an hour
    CronLines,  \* the five fields of a line
    StartTimes, \* minutes at which the search may begin
    MaxTimes    \* bound: the first minute that is not looked at

Months == Len(MonthDays)

\* Days of the year before a month.
DaysBefore[m \in 0 .. Months] == IF m = 0 THEN 0 ELSE DaysBefore[m - 1] + MonthDays[m]
YearDays == DaysBefore[Months]

ASSUME CronAssumption ==
    /\ MonthDays \in Seq(Nat \ {0}) /\ {WeekDays, Hours, Minutes} \subseteq Nat \ {0}
    /\ MaxTimes \in Nat /\ StartTimes \subseteq 0 .. MaxTimes - 1

\* A field of a line is * or a number.
Star == [star |-> TRUE, n |-> 0]
Number(n) == [star |-> FALSE, n |-> n]

VARIABLES
    cronLine, \* the tokens of the line; never changes
    now_,     \* the minute at which cron_to_next is called; never changes
    cron,     \* minute, hour, day, month and day_of_week of the Cron
    next,     \* the tm of the search
    cronAt    \* "parse", "search", "found", "thrown" or "bound"

cronVars == <<cronLine, now_, cron, next, cronAt>>

-----------------------------------------------------------------------------
\* mktime looks at everything but the day of the week.
mktime(tm) == ((tm.tm_year * YearDays + DaysBefore[tm.tm_mon] + tm.tm_mday - 1) * Hours + tm.tm_hour) * Minutes + tm.tm_min

localtime(t) ==
    LET days == t \div (Minutes * Hours)
        inYear == days % YearDays
        mon == Max({m \in 0 .. Months - 1 : DaysBefore[m] <= inYear})
    IN  [tm_year |-> days \div YearDays, tm_mon |-> mon, tm_mday |-> inYear - DaysBefore[mon] + 1,
         tm_hour |-> (t \div Minutes) % Hours, tm_min |-> t % Minutes, tm_wday |-> days % WeekDays]

add(tm, minutes) == localtime(mktime(tm) + minutes)

CronTypeOK ==
    /\ cronLine \in CronLines /\ now_ \in StartTimes
    /\ cron.minute \in -1 .. Minutes - 1 /\ cron.hour \in -1 .. Hours - 1 /\ cron.day \in -1 .. Max({MonthDays[m] : m \in 1 .. Months})
    /\ cron.month \in -1 .. Months - 1 /\ cron.day_of_week \in -1 .. WeekDays - 1
    /\ cronAt \in {"parse", "search", "found", "thrown", "bound"}

NoFields == [minute |-> -1, hour |-> -1, day |-> -1, month |-> -1, day_of_week |-> -1]

CronInit ==
    /\ cronLine \in CronLines /\ now_ \in StartTimes
    /\ cron = NoFields /\ next = localtime(now_) /\ cronAt = "parse"

-----------------------------------------------------------------------------
InBounds(token, lower_bound, upper_bound) == token.star \/ token.n \in lower_bound .. upper_bound

\* verify_and_set for a token within its bounds.
verify_and_set(token, adjust) == IF token.star THEN -1 ELSE IF adjust THEN token.n - 1 ELSE token.n

LineIsGood ==
    /\ Len(cronLine) = 5
    /\ InBounds(cronLine[1], 0, Minutes - 1) /\ InBounds(cronLine[2], 0, Hours - 1)
    /\ InBounds(cronLine[3], 1, Max({MonthDays[m] : m \in 1 .. Months}))
    /\ InBounds(cronLine[4], 1, Months) /\ InBounds(cronLine[5], 0, WeekDays - 1)

\* The constructor, and then the first line of cron_to_next: it will always at
\* least run the next minute.
parseLine ==
    /\ cronAt = "parse" /\ LineIsGood
    /\ cron' = [minute |-> verify_and_set(cronLine[1], FALSE), hour |-> verify_and_set(cronLine[2], FALSE),
                day |-> verify_and_set(cronLine[3], FALSE), month |-> verify_and_set(cronLine[4], TRUE),
                day_of_week |-> verify_and_set(cronLine[5], FALSE)]
    /\ next' = add(next, 1)
    /\ cronAt' = "search"
    /\ UNCHANGED <<cronLine, now_>>

parseThrows ==
    /\ cronAt = "parse" /\ ~LineIsGood
    /\ cronAt' = "thrown"
    /\ UNCHANGED <<cronLine, now_, cron, next>>

-----------------------------------------------------------------------------
Wrong(field, value) == field # -1 /\ value # field

\* mutant: the hour and the minute are kept
startOfDayKept(tm) == tm

startOfDay(tm) == [tm EXCEPT !.tm_hour = 0, !.tm_min = 0]

\* The first of the next month. The day of the week stays as it was.
nextMonth(tm) ==
    startOfDay([tm EXCEPT !.tm_year = IF tm.tm_mon + 1 > Months - 1 THEN @ + 1 ELSE @,
                          !.tm_mon = IF @ + 1 > Months - 1 THEN 0 ELSE @ + 1,
                          !.tm_mday = 1])

\* One turn of the loop of cron_to_next.
cron_to_next ==
    /\ cronAt = "search" /\ mktime(next) < MaxTimes
    /\ next' = CASE Wrong(cron.month, next.tm_mon) -> nextMonth(next)
                 [] ~Wrong(cron.month, next.tm_mon)
                        /\ (Wrong(cron.day, next.tm_mday) \/ Wrong(cron.day_of_week, next.tm_wday))
                    -> startOfDay(add(next, Hours * Minutes))
                 [] OTHER ->
                    IF Wrong(cron.hour, next.tm_hour) THEN [add(next, Minutes) EXCEPT !.tm_min = 0]
                    ELSE IF Wrong(cron.minute, next.tm_min) THEN add(next, 1) ELSE next
    /\ cronAt' = IF next' = next THEN "found" ELSE "search"
    /\ UNCHANGED <<cronLine, now_, cron>>

\* The loop has no bound of its own.
searchEnds ==
    /\ cronAt = "search" /\ mktime(next) >= MaxTimes
    /\ cronAt' = "bound"
    /\ UNCHANGED <<cronLine, now_, cron, next>>

CronNext == parseLine \/ parseThrows \/ cron_to_next \/ searchEnds

CronSpec == CronInit /\ [][CronNext]_cronVars

-----------------------------------------------------------------------------
\* What a line means.
Matches(t) ==
    LET tm == localtime(t) IN
    /\ ~Wrong(cron.minute, tm.tm_min) /\ ~Wrong(cron.hour, tm.tm_hour) /\ ~Wrong(cron.day, tm.tm_mday)
    /\ ~Wrong(cron.month, tm.tm_mon) /\ ~Wrong(cron.day_of_week, tm.tm_wday)

Later == {t \in now_ + 1 .. MaxTimes - 1 : Matches(t)}

\* The day of the week is looked at on the first of a month that the search has
\* jumped to, when it is still that of the day before the jump.
WeekDayIsStale == cron.month # -1 /\ cron.day_of_week # -1 /\ cron.day \in {-1, 1}

\* A background function runs at the earliest minute after this one that its line
\* matches, and the search ends only there: never a wrong minute, never one too
\* late, at the ends of days, months and years too. (Not if the line has both a
\* month to jump to and a day of the week that counts on its first day.)
NextIsEarliest ==
    /\ CronTypeOK
    /\ cronAt = "found" /\ ~WeekDayIsStale => Later # {} /\ mktime(next) = Min(Later)
    /\ cronAt = "bound" /\ ~WeekDayIsStale => Later = {}
=============================================================================
