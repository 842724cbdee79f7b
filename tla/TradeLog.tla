------------------------------ MODULE TradeLog ------------------------------
(***************************************************************************)
(* The trade-result CSV and the PnL summary made from it.                  *)
(*                                                                         *)
(* TradingService stamps a row, the repository appends it to a file, and   *)
(* output_pnl_summary reads files back.  A repository writes and reads one *)
(* file per day or a single one, as setting.ini said when it was made: the *)
(* receiver has one repository as long as the server runs, each request    *)
(* for a summary and each backtest makes its own.                          *)
(*                                                                         *)
(* A row is its stamp, the date in executed_at: the server's strftime      *)
(* writes it with "-", MT4's TimeToString with "." for a filled pending    *)
(* order, and the summary compares the two as strings.  A backtest appends *)
(* rows with the days of its ticks, rewritten with "-".  All this runs in  *)
(* one piece on the event loop, but midnight may pass, the process may die *)
(* and the disk may refuse in the middle of an append.                     *)
(***************************************************************************)
EXTENDS Naturals, Sequences, FiniteSetsExt

CONSTANTS
    PeriodTypes,  \* what a caller may ask for: daily (the default) and others
    YearLength,   \* days in a year
    MaxDay,       \* bound: the last day
    MaxRows,      \* bound: rows appended
    MaxFaults     \* bound: appends that are interrupted

ASSUME PeriodTypesAssumption == "daily" \in PeriodTypes
ASSUME NumbersAssumption ==
    YearLength \in Nat \ {0} /\ MaxDay \in Nat /\ MaxRows \in Nat /\ MaxFaults \in Nat

Days   == 0 .. MaxDay
Stamps == [sep : {"-", "."}, day : Days]
Header == [sep |-> "header", day |-> 0]
None   == [sep |-> "none", day |-> 0]

\* A file is of one layout: <<TRUE, day>> of one day, <<FALSE, 0>> the single one.
Names == BOOLEAN \X Days

\* A row on its way to a file, with the layout of the repository that appends it.
InHand == [stamp : Stamps, perDay : BOOLEAN]
NoRow  == [stamp |-> None, perDay |-> FALSE]

VARIABLES
    file_per_day,   \* what the receiver's repository read when it was made
    today,     \* the server's date
    row,       \* the row on its way to its file, or NoRow
    files,     \* the files that exist: name -> lines
    summary,   \* the last PnlSummaryRow
    \* history
    written,   \* per layout: the rows whose append came to its end
    faults     \* the appends that did not

vars == <<file_per_day, today, row, files, summary, written, faults>>

TypeOK ==
    /\ file_per_day \in BOOLEAN
    /\ today \in Days
    /\ row \in InHand \cup {NoRow}
    /\ DOMAIN files \subseteq Names
    /\ \A name \in DOMAIN files : files[name] \in Seq(Stamps \cup {Header})
    /\ summary \in [period_type : PeriodTypes, trade_count : Nat,
                    period_start : Stamps \cup {None}, period_end : Stamps \cup {None}]
    /\ written \in [BOOLEAN -> Seq(Stamps)]
    /\ faults \in 0 .. MaxFaults

Init ==
    /\ file_per_day \in BOOLEAN
    /\ today = 0
    /\ row = NoRow
    /\ files = [name \in {} |-> <<>>]
    /\ summary = [period_type |-> "daily", trade_count |-> 0,
                  period_start |-> None, period_end |-> None]
    /\ written = [perDay \in BOOLEAN |-> <<>>]
    /\ faults = 0

\* The server starts again, and setting.ini may have been edited.
Restart ==
    /\ row = NoRow
    /\ file_per_day' \in BOOLEAN
    /\ UNCHANGED <<today, row, files, summary, written, faults>>

-----------------------------------------------------------------------------
(* Appending.                                                              *)

\* Midnight, between two handlers or between the stamp and the path of one row.
NextDay ==
    /\ today < MaxDay
    /\ today' = today + 1
    /\ UNCHANGED <<file_per_day, row, files, summary, written, faults>>

Rows(perDay) == Len(written[perDay])

Stamp(stamp, perDay) ==
    /\ row = NoRow
    /\ Rows(TRUE) + Rows(FALSE) < MaxRows
    /\ row' = [stamp |-> stamp, perDay |-> perDay]
    /\ UNCHANGED <<file_per_day, today, files, summary, written, faults>>

OnOrderResult == Stamp([sep |-> "-", day |-> today], file_per_day)

\* open_time is MT4's date, which may be a day off the server's.
OnPendingOpened ==
    \E day \in {today, today + 1} \cup {d \in Days : d + 1 = today} :
        day \in Days /\ Stamp([sep |-> ".", day |-> day], file_per_day)

\* signal_to_trade_result_row: the day of the tick, which may be long past, with "."
\* replaced by "-" when the time was not parsed.  The backtest has a repository of its
\* own, made under whatever setting.ini said then.
OnBacktestSignal ==
    \E day \in 0 .. today, perDay \in BOOLEAN : Stamp([sep |-> "-", day |-> day], perDay)

\* Mutant: the file is named by a clock that is ahead.
PathAhead(perDay) == IF perDay THEN <<TRUE, today + 1>> ELSE <<FALSE, 0>>
\* _trade_result_path, read off the clock once more.
Path(perDay) == IF perDay THEN <<TRUE, today>> ELSE <<FALSE, 0>>

Lines(name) == IF name \in DOMAIN files THEN files[name] ELSE <<>>
Write(name, lines) ==
    [n \in DOMAIN files \cup {name} |-> IF n = name THEN lines ELSE files[n]]

\* Mutant: the header is written whenever a file is opened.
AlwaysHeader(name) == <<Header>>
\* The header is written if the file did not exist, whatever is in it.
NewHeader(name) == IF name \in DOMAIN files THEN <<>> ELSE <<Header>>

AppendTradeResult ==
    LET path == Path(row.perDay) IN
    /\ row # NoRow
    /\ files' = Write(path, Lines(path) \o NewHeader(path) \o <<row.stamp>>)
    /\ written' = [written EXCEPT ![row.perDay] = Append(@, row.stamp)]
    /\ row' = NoRow
    /\ UNCHANGED <<file_per_day, today, summary, faults>>

\* The process dies or the disk refuses after open("a") and before the buffer is
\* written: the file exists, the row is lost.
AppendInterrupted ==
    LET path == Path(row.perDay) IN
    /\ row # NoRow
    /\ faults < MaxFaults
    /\ faults' = faults + 1
    /\ files' = Write(path, Lines(path))
    /\ row' = NoRow
    /\ UNCHANGED <<file_per_day, today, summary, written>>

-----------------------------------------------------------------------------
(* The summary.                                                            *)

\* csv.DictReader takes the first line for the header, whatever it is.
RowCount(lines) == IF lines = <<>> THEN 0 ELSE Len(lines) - 1

\* Under any other first line than the header no row has an executed_at.
Dates(lines) ==
    {lines[i] : i \in {j \in DOMAIN lines : j > 1 /\ lines[1] = Header}}

Year(stamp) == stamp.day \div YearLength

\* Mutant: the dates are compared as if the day were written before the year.
DayFirst(a, b) ==
    IF a.day % YearLength = b.day % YearLength THEN a.day <= b.day
    ELSE a.day % YearLength < b.day % YearLength
\* The order of the strings: by year, then "-" before ".", then by day.
AtMost(a, b) ==
    IF Year(a) # Year(b) THEN Year(a) < Year(b)
    ELSE IF a.sep = b.sep THEN a.day <= b.day
    ELSE a.sep = "-"

Least(S)    == IF S = {} THEN None ELSE CHOOSE a \in S : \A b \in S : AtMost(a, b)
Greatest(S) == IF S = {} THEN None ELSE CHOOSE a \in S : \A b \in S : AtMost(b, a)

\* The files of one layout.
Of(perDay) == {name \in DOMAIN files : name[1] = perDay}

\* Mutant: both layouts are read.
ReadsAll(perDay) == DOMAIN files
\* The single file, or all the files of days: period_type selects nothing.
FilesRead(perDay) == Of(perDay)

\* The repository is made for this one request.  With no rows nothing is written.  The
\* service asks for the summary twice, which gives the same row again.
OutputPnlSummary(period_type, perDay) ==
    LET read  == FilesRead(perDay)
        count == SumFunction([name \in read |-> RowCount(files[name])])
        dates == UNION {Dates(files[name]) : name \in read}
    IN
    /\ row = NoRow
    /\ count > 0
    /\ summary' = [period_type |-> period_type, trade_count |-> count,
                   period_start |-> Least(dates), period_end |-> Greatest(dates)]
    /\ UNCHANGED <<file_per_day, today, row, files, written, faults>>

Next ==
    \/ Restart
    \/ NextDay
    \/ OnOrderResult
    \/ OnPendingOpened
    \/ OnBacktestSignal
    \/ AppendTradeResult
    \/ AppendInterrupted
    \/ \E period_type \in PeriodTypes, perDay \in BOOLEAN : OutputPnlSummary(period_type, perDay)

Spec == Init /\ [][Next]_vars

-----------------------------------------------------------------------------
(* Safety.                                                                 *)

\* A file has its header once at most and only as its first line, over midnights,
\* interrupted appends, restarts and changes of the layout.
HeaderOnce ==
    \A name \in DOMAIN files :
        \A i \in DOMAIN files[name] : files[name][i] = Header => i = 1

\* No repository mistakes the rows of the other layout for its own, and none counts a
\* row twice: what a summary counts are the rows appended under its layout, of all
\* periods, but for one at most of each interrupted append (a file left without its
\* header loses its first row to csv.DictReader).
LossIsBounded ==
    [][\A period_type \in PeriodTypes, perDay \in BOOLEAN :
        OutputPnlSummary(period_type, perDay) =>
            /\ summary'.trade_count <= Rows(perDay)
            /\ Rows(perDay) <= summary'.trade_count + faults]_vars

\* When no append was interrupted and all rows of a layout have their dates from one
\* clock, the period of its summary is exactly from the first to the last day of them.
OneClock(rows) == \A i, j \in DOMAIN rows : rows[i].sep = rows[j].sep
PeriodIsExact ==
    [][\A period_type \in PeriodTypes, perDay \in BOOLEAN :
        (OutputPnlSummary(period_type, perDay) /\ faults = 0 /\ OneClock(written[perDay])) =>
            LET days == {written[perDay][i].day : i \in DOMAIN written[perDay]} IN
            /\ summary'.period_start.day = Min(days)
            /\ summary'.period_end.day = Max(days)]_vars

(* What the documents say and the code does not do.                        *)

\* period_start and period_end are the first and the last day of the period (docs,
\* 7.2); with dates of both forms the period may end before it starts.
PeriodIsOrdered == summary.period_start.day <= summary.period_end.day

\* Results are summed up per day, week or month (docs, 4.7 and 7.2): a daily summary is
\* of one day, in whichever form its dates are.
DailyIsOneDay ==
    (summary.period_type = "daily" /\ summary.period_start.sep = summary.period_end.sep) =>
        summary.period_start.day = summary.period_end.day
=============================================================================
