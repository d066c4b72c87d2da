----------------------------- MODULE UsageView -----------------------------
(* The dashboard's page of token usage (hooks/useUsage.ts, UsageOverview.tsx,
   UsageChart.tsx).  The hook loads the chosen period and again every 30
   seconds; choosing another period cancels what the loads of the one before
   would store, not the loads.  Numbers are left out: an answer is the period
   it is of, and a series has points or none.  *)
EXTENDS Naturals, Sequences, SequencesExt

CONSTANTS Periods, \* "today", "week", "month", "all"
          NoData,  \* nothing loaded
          MaxLoads \* BOUND: loads under way at once

ASSUME UsageAssumption == /\ "today" \in Periods /\ NoData \notin Periods
                          /\ MaxLoads \in Nat \ {0}

VARIABLES usage, \* the page's state, or NoUsage
          loads  \* the loads under way, cancelled ones among them

usageVars == <<usage, loads>>

NoUsage == [mounted |-> FALSE]

Series == [period : Periods, points : BOOLEAN]

Usages == [mounted : {TRUE}, period : Periods,
           usage : Periods \cup {NoData}, series : Series \cup {NoData},
           chart : Series \cup {NoData}, loading : BOOLEAN]

UsageTypeOK == /\ usage \in Usages \cup {NoUsage}
               /\ loads \in Seq([period : Periods, live : BOOLEAN])
               /\ ~usage.mounted => loads = <<>>

-----------------------------------------------------------------------------
\* the view: a skeleton, the cards of a summary with or without a chart, or
\* nothing
UsageShows(u) == CASE u.loading         -> {"skeleton"}
                   [] ~u.loading /\ u.usage # NoData ->
                        {"cards"} \cup (IF u.series # NoData /\ u.series.points
                                        THEN {"chart"} ELSE {})
                   [] OTHER -> {}

\* the chart: made when its canvas appears, destroyed with it, and given the
\* series of the render each time that changes
Charted(u) == [u EXCEPT !.chart = IF "chart" \in UsageShows(u)
                                  THEN u.series ELSE NoData]

\* the hook's effect for a period: the summary of the one before stays, hidden
\* by the skeleton
Begin(u) == Charted([u EXCEPT !.loading = TRUE, !.series = NoData])

\* one load: both requests of it, for the range the period has now
Begun(calls, p) == Append(calls, [period |-> p, live |-> TRUE])

\* mutant: the effect has no cleanup
NotCancelled(calls) == calls

\* the cleanup of the effect sets `cancelled` for every load of its period
Cancelled(calls) == [i \in DOMAIN calls |-> [calls[i] EXCEPT !.live = FALSE]]

UsageEnters ==
    /\ usage' = [mounted |-> TRUE, period |-> "today", usage |-> NoData,
                 series |-> NoData, chart |-> NoData, loading |-> TRUE]
    /\ loads' = Begun(<<>>, "today")

UsageLeaves == usage' = NoUsage /\ loads' = <<>>

\* mutant: the cancellation comes after the new load
SetPeriodThenCancel(p) == /\ p # usage.period
                          /\ Len(loads) < MaxLoads
                          /\ usage' = Begin([usage EXCEPT !.period = p])
                          /\ loads' = Cancelled(Begun(loads, p))

\* a press of another tab
SetPeriod(p) == /\ p # usage.period
                /\ Len(loads) < MaxLoads
                /\ usage' = Begin([usage EXCEPT !.period = p])
                /\ loads' = Begun(Cancelled(loads), p)

\* the interval of 30 seconds, whether or not the load before has ended
Poll == /\ Len(loads) < MaxLoads
        /\ loads' = Begun(loads, usage.period)
        /\ UNCHANGED usage

\* both answers are there; a series that failed is none
LoadEnds(i, series) ==
    /\ usage' = IF loads[i].live
                THEN Charted([usage EXCEPT !.usage = loads[i].period,
                                           !.series = series,
                                           !.loading = FALSE])
                ELSE usage
    /\ loads' = RemoveAt(loads, i)

\* the summary failed: what was shown stays
LoadFails(i) ==
    /\ usage' = IF loads[i].live
                THEN Charted([usage EXCEPT !.loading = FALSE])
                ELSE usage
    /\ loads' = RemoveAt(loads, i)

LoadAnswers ==
    \E i \in DOMAIN loads :
        \/ LoadEnds(i, NoData)
        \/ \E b \in BOOLEAN :
              LoadEnds(i, [period |-> loads[i].period, points |-> b])
        \/ LoadFails(i)

UsageStep == /\ usage.mounted
             /\ \/ \E p \in Periods : SetPeriod(p)
                \/ Poll
                \/ LoadAnswers

UsageInit == usage = NoUsage /\ loads = <<>>

-----------------------------------------------------------------------------
(* A chart that is drawn is of the period whose tab is active and of the same
   load as the cards above it, however slow the loads of the periods before
   are (useUsage.ts:60-89, UsageChart.tsx:167-174).  *)
ChartAgrees ==
    usage.mounted /\ usage.chart # NoData
    => /\ usage.chart = usage.series
       /\ usage.chart.period = usage.period
       /\ usage.usage = usage.period
=============================================================================
