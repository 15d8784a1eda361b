------------------------------ MODULE Palette -------------------------------
(***************************************************************************)
(* The command palette: Ctrl-K opens it, what is typed filters pages,      *)
(* assets, monitors and incidents, arrows and the mouse move the mark,     *)
(* Enter or a click opens a row.  The rows are drawn group by group, the   *)
(* mark is an index into them, and Enter takes the filtered list's row of  *)
(* that index.  Lists are fetched as it opens and may arrive at any time.  *)
(*                                                                         *)
(* The index counts from 1 here; 0 is the -1 of an empty list.             *)
(***************************************************************************)
EXTENDS Naturals, Sequences, SequencesExt, FiniteSetsExt, Lists

CONSTANTS
    Pages,          \* the rows of PAGES
    Fetched,        \* Fetched[type]: what a fetch of that type may bring
    Matches(_, _)   \* Matches(row, query)

Types == <<"asset", "monitor", "incident">>
Queries == {"", "q"}        \* an empty query, and another

VARIABLES
    open, query, selectedIdx,
    lists,          \* the lists fetched
    went,           \* the row opened last
    marked,         \* history: the row marked as it was opened
    slipped         \* history: a list arrived since the mark was put on a row

vars == <<open, query, selectedIdx, lists, went, marked, slipped>>

NoRow == [type |-> "none", id |-> 0]
Rows(type, list) == [i \in DOMAIN list |-> [type |-> type, id |-> list[i]]]

\* Variant: monitors come before assets in the list that is filtered.
MonitorsFirst == <<"monitor", "asset", "incident">>
ListOrder == Types

Listed(i) == Rows(ListOrder[i], lists[ListOrder[i]])
allResults == Rows("page", Pages) \o Listed(1) \o Listed(2) \o Listed(3)

filtered ==
    LET all == allResults IN
    IF query = "" THEN Rows("page", Pages)
    ELSE Kept(all, {i \in DOMAIN all : Matches(all[i], query)})

\* As drawn, in groups of one type.
Grouped(rows, type) == Kept(rows, {i \in DOMAIN rows : rows[i].type = type})
Drawn ==
    LET rows == filtered
        Group(type) == Grouped(rows, type)
    IN  Group("page") \o Group(Types[1]) \o Group(Types[2]) \o Group(Types[3])

Marked == IF selectedIdx \in DOMAIN Drawn THEN Drawn[selectedIdx] ELSE NoRow

Init ==
    /\ open = FALSE /\ query = "" /\ selectedIdx = 1
    /\ lists = [t \in ToSet(Types) |-> <<>>]
    /\ went = NoRow /\ marked = NoRow /\ slipped = FALSE

\* Ctrl-K; what was typed and marked is forgotten as it opens.
Toggle ==
    /\ open' = ~open
    /\ IF open THEN UNCHANGED <<query, selectedIdx, slipped>>
       ELSE query' = "" /\ selectedIdx' = 1 /\ slipped' = FALSE
    /\ UNCHANGED <<lists, went, marked>>

Escape ==
    /\ open /\ open' = FALSE
    /\ UNCHANGED <<query, selectedIdx, lists, went, marked, slipped>>

\* Variant: the mark stays where it was as the query changes.
MarkStays == selectedIdx
MarkOfNewQuery == 1
Type(q) ==
    /\ open /\ q # query
    /\ query' = q /\ selectedIdx' = MarkOfNewQuery /\ slipped' = FALSE
    /\ UNCHANGED <<open, lists, went, marked>>

Move(i) ==
    /\ open /\ selectedIdx' = i
    /\ slipped' = (slipped /\ i \notin DOMAIN Drawn)
    /\ UNCHANGED <<open, query, lists, went, marked>>

ArrowDown == Move(Min({selectedIdx + 1, Len(filtered)}))
ArrowUp == Move(Max({selectedIdx, 2}) - 1)
Hover(i) == i \in DOMAIN Drawn /\ Move(i)

navigate(row) ==
    /\ open /\ open' = FALSE
    /\ went' = row /\ marked' = Marked
    /\ UNCHANGED <<query, selectedIdx, lists, slipped>>

Enter == selectedIdx \in DOMAIN filtered /\ navigate(filtered[selectedIdx])

\* The mouse is over the row it clicks.
Click(i) ==
    /\ i \in DOMAIN Drawn /\ selectedIdx = i
    /\ navigate(Drawn[i])

\* Asked for as it opens, if older than a minute; the answer finds it open
\* or closed.
Arrives(type, list) ==
    /\ lists' = [lists EXCEPT ![type] = list]
    /\ slipped' = TRUE
    /\ UNCHANGED <<open, query, selectedIdx, went, marked>>

Next ==
    \/ Toggle \/ Escape \/ ArrowDown \/ ArrowUp \/ Enter
    \/ \E q \in Queries : Type(q)
    \/ \E i \in DOMAIN Drawn : Hover(i) \/ Click(i)
    \/ \E t \in ToSet(Types) : \E list \in Fetched[t] : Arrives(t, list)

-----------------------------------------------------------------------------
\* What Enter opens is the row that is marked, although the one is found in
\* the filtered list and the other drawn group by group.
EnterOpensMarked == went = marked

\* While rows are drawn one of them is marked, unless a list arrived since the
\* mark was put on a row: it may lie beyond a shorter list, or before the first
\* row, where ArrowDown puts it while there are none.
MarkShown == (open /\ Drawn # <<>> /\ ~slipped) => Marked # NoRow
=============================================================================
