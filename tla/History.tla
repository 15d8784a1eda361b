------------------------------ MODULE History -------------------------------
(***************************************************************************)
(* What EventsService.assetHistory reads from the stored results of an     *)
(* asset's monitors: the transitions between statuses.                     *)
(***************************************************************************)
EXTENDS Integers, Sequences, SequencesExt, FiniteSetsExt, Lists

CONSTANTS
    Monitors,       \* the monitors of the asset
    Since,          \* how far back it looks (hours in the code)
    Limit,          \* results assetHistory takes (500 in the code)
    MaxResults, MaxTime     \* bounds

ASSUME HistoryAssumption ==
    Since \in Nat /\ Limit \in Nat /\ MaxResults \in Nat /\ MaxTime \in Nat

VARIABLES
    results,        \* the table of results, oldest first
    time

historyVars == <<results, time>>

Status == {"up", "down", "degraded"}
Result == [monitor : Monitors, status : Status, at : 0 .. MaxTime]

HistoryInit == results = <<>> /\ time = 0

Store(m, status) ==
    /\ Len(results) < MaxResults
    /\ results' = Append(results, [monitor |-> m, status |-> status, at |-> time])
    /\ UNCHANGED time

Tick ==
    /\ time < MaxTime
    /\ time' = time + 1
    /\ UNCHANGED results

\* A monitor is removed, and its results with it.
RemoveMonitor(m) ==
    /\ results # <<>>
    /\ results' = Kept(results, {i \in DOMAIN results : results[i].monitor # m})
    /\ UNCHANGED time

HistoryNext ==
    \/ Tick
    \/ \E m \in Monitors : RemoveMonitor(m) \/ \E status \in Status : Store(m, status)

HistorySpec == HistoryInit /\ [][HistoryNext]_historyVars

-----------------------------------------------------------------------------
(***************************************************************************)
(* assetHistory: the newest results of the window, newest first; reversed, *)
(* they are run through with the status before, whichever monitor's it is. *)
(***************************************************************************)
InWindow == Kept(results, {i \in DOMAIN results : results[i].at >= time - Since})
Taken == SubSeq(Reverse(InWindow), 1, Min({Limit, Len(InWindow)}))

\* Variant: the list is read newest first.
ChronologicalNot == Taken

Chronological == Reverse(Taken)

PrevStatus(ts) == IF ts = <<>> THEN "none" ELSE Last(ts).to

Noticed(ts, r) ==
    IF r.status = PrevStatus(ts) THEN ts
    ELSE Append(ts, [from |-> PrevStatus(ts), to |-> r.status, at |-> r.at,
                     monitor |-> r.monitor])

Told(rs) ==
    LET told[k \in 0 .. Len(rs)] == IF k = 0 THEN <<>> ELSE Noticed(told[k - 1], rs[k])
    IN  told[Len(rs)]

Transitions == Told(Chronological)

DurationMs(ts, i) == ts[i + 1].at - ts[i].at

-----------------------------------------------------------------------------
\* Where the status is another than that of the result before.
ChangesIn(rs) == {i \in 2 .. Len(rs) : rs[i].status # rs[i - 1].status}

(***************************************************************************)
(* The transitions tell the history: read in their order, each begins      *)
(* where the one before ended, no duration is negative, the last leads to  *)
(* the newest status, and if all results shown are of one monitor, the     *)
(* transitions but the first are exactly its changes.  (The statuses of    *)
(* several monitors are run together: there a transition may be nothing    *)
(* but a result of another monitor.)                                       *)
(***************************************************************************)
TransitionsTell ==
    LET ts == Transitions IN
    /\ \A k \in 2 .. Len(ts) : ts[k].from = ts[k - 1].to /\ DurationMs(ts, k - 1) >= 0
    /\ Taken # <<>> => Last(ts).to = Last(InWindow).status
    /\ \A m \in Monitors :
          Taken # <<>> /\ (\A k \in DOMAIN Taken : Taken[k].monitor = m)
              => Len(ts) = 1 + Cardinality(ChangesIn(
                     SubSeq(InWindow, Len(InWindow) - Len(Taken) + 1, Len(InWindow))))
=============================================================================
