----------------------------- MODULE MetricChart -----------------------------
(***************************************************************************)
(* The measurements of one asset as its page shows them: cards with the    *)
(* newest value of a metric, and charts of a range of time, whose points   *)
(* are filed under the hour and minute they would be written with, without *)
(* the day.  A value is named by the time it was measured at; tags (which  *)
(* disk, which interface) are left out, as both answers leave them out.    *)
(***************************************************************************)
EXTENDS Integers, Sequences, SequencesExt, FiniteSets, FiniteSetsExt, Lists

CONSTANTS
    Names,          \* the metrics of one chart
    Day,            \* minutes of a day (1440)
    PerMinute,      \* collections in a minute
    Drawn,          \* points a chart has room for (60)
    Ranges,         \* minutes, up to a day (15, 60, 360, 1440)
    MaxTime         \* bound: collections that are followed

VARIABLES
    now,            \* collections so far
    metric,         \* the asset's rows of each name, as they were measured
    range           \* the range chosen

vars == <<now, metric, range>>

Time == 0 .. MaxTime

ChartTypeOK ==
    /\ now \in Time
    /\ metric \in [Names -> Seq(Time)]
    /\ range \in Ranges

Init == now = 0 /\ metric = [n \in Names |-> <<>>] /\ range \in Ranges

Since(n, time) == Kept(metric[n], {i \in DOMAIN metric[n] : metric[n][i] >= time})

\* A collection; a collector that fails has no point in it.  Rows too old for
\* any range are forgotten here.
Collect(succeeded) ==
    /\ now < MaxTime /\ now' = now + 1
    /\ metric' = [n \in Names |-> Since(n, now + 1 - Day * PerMinute)
                                    \o IF n \in succeeded THEN <<now + 1>> ELSE <<>>]
    /\ UNCHANGED range

setRange(minutes) ==
    /\ range' = minutes /\ range # minutes
    /\ UNCHANGED <<now, metric>>

Next ==
    \/ \E succeeded \in SUBSET Names : Collect(succeeded)
    \/ \E minutes \in Ranges : setRange(minutes)

-----------------------------------------------------------------------------
\* The card: the newest row of the name.
getLatest(n) == IF metric[n] = <<>> THEN -1 ELSE Last(metric[n])

\* A series: its rows in the range, oldest first.
getHistory(n) == Since(n, now - range * PerMinute)

\* Series come in the order of their first rows, those of one time in any.
Orders ==
    LET history == [n \in Names |-> getHistory(n)]
        Begun == {n \in Names : history[n] # <<>>}
    IN  {order \in SetToSeqs(Begun) :
           \A i, j \in DOMAIN order :
              i < j => history[order[i]][1] <= history[order[j]][1]}

Minute(t) == t \div PerMinute
Label(t) == Minute(t) % Day

NoPoint == [n \in Names |-> -1]

\* A later value of a minute replaces the earlier, where the minute stands.
File(timeMap, n, t) ==
    IF \E i \in DOMAIN timeMap : timeMap[i].label = Label(t)
    THEN [i \in DOMAIN timeMap |->
            IF timeMap[i].label = Label(t)
            THEN [timeMap[i] EXCEPT !.value[n] = t] ELSE timeMap[i]]
    ELSE Append(timeMap, [label |-> Label(t), value |-> [NoPoint EXCEPT ![n] = t]])

FileSeries(timeMap, n) ==
    LET history == getHistory(n)
        filed[k \in 0 .. Len(history)] ==
            IF k = 0 THEN timeMap ELSE File(filed[k - 1], n, history[k])
    IN  filed[Len(history)]

FileAll(order) ==
    LET filed[k \in 0 .. Len(order)] ==
            IF k = 0 THEN <<>> ELSE FileSeries(filed[k - 1], order[k])
    IN  filed[Len(order)]

buildChartData(order) ==
    LET timeMap == FileAll(order)
    IN  SubSeq(timeMap, Max({1, Len(timeMap) - Drawn + 1}), Len(timeMap))

-----------------------------------------------------------------------------
\* Two minutes of the range, a day apart, have one place on the chart.
Wraps(n) ==
    LET history == getHistory(n) IN
    \E i, j \in DOMAIN history : Minute(history[j]) = Minute(history[i]) + Day

\* A chart of one metric is drawn in the order of time and ends with the value
\* on its card, unless the range is a whole day and its two ends share a minute:
\* then the newest value is filed first, and may not be drawn at all.
OneInOrder(n) ==
    getHistory(n) # <<>> /\ ~Wraps(n) =>
        LET chart == buildChartData(<<n>>) IN
        /\ \A i \in 1 .. Len(chart) - 1 : chart[i].value[n] < chart[i + 1].value[n]
        /\ Last(chart).value[n] = getLatest(n)

\* A chart of several metrics is in order if no metric has a minute that those
\* before it lack: such a minute is drawn after all of theirs.
AllInOrder(order) ==
    LET chart == buildChartData(order)
        minutes == [n \in Names |-> {Minute(t) : t \in ToSet(getHistory(n))}]
        Newest(point) == Max({point.value[n] : n \in Names})
    IN  /\ order # <<>>
        /\ \A n \in ToSet(order) : minutes[n] \subseteq minutes[order[1]] /\ ~Wraps(n)
        => \A i \in 1 .. Len(chart) - 1 : Minute(Newest(chart[i])) < Minute(Newest(chart[i + 1]))

ChartTrue ==
    /\ \A n \in Names : OneInOrder(n)
    /\ \A order \in Orders : AllInOrder(order)
=============================================================================
