------------------------------- MODULE ScanTab -------------------------------
(***************************************************************************)
(* The scan tab of the discovery page: a range and ports are typed, the    *)
(* number of addresses previewed, the range scanned, hosts of the result   *)
(* selected and imported.  Answers arrive whatever was typed meanwhile.    *)
(*                                                                         *)
(* A range is the set of hosts a scan of it finds.                         *)
(***************************************************************************)
CONSTANTS Ranges, Ports

VARIABLES
    range, ports,
    preview,        \* the range a preview is awaited for
    previewCount,   \* the range whose count is shown
    scan,           \* the range a scan is awaited for
    result,         \* the hosts shown: found, and new when they were scanned
    selected,
    import,         \* the hosts an import was sent for
    retyped         \* history: the range was typed as the count shown was awaited

vars == <<range, ports, preview, previewCount, scan, result, selected, import, retyped>>

AnyHosts == UNION Ranges
None == {}
NoResult == [hosts |-> {}, new |-> {}]

Init ==
    /\ range \in Ranges /\ ports = Ports
    /\ preview = None /\ previewCount = None /\ scan = None
    /\ result = NoResult /\ selected = {} /\ import = {} /\ retyped = FALSE

\* Variant: the count stays when the range is typed.
CountStays == previewCount

CountOfNewRange == None
TypeRange(r) ==
    /\ range' = r /\ previewCount' = CountOfNewRange
    /\ retyped' = (preview # None)
    /\ UNCHANGED <<ports, preview, scan, result, selected, import>>

\* A button for each well-known port.  (It is lit if its digits stand anywhere
\* in the text: by 8080 also 80's is.)
TogglePort(p) ==
    /\ ports' = IF p \in ports THEN ports \ {p} ELSE ports \union {p}
    /\ UNCHANGED <<range, preview, previewCount, scan, result, selected, import, retyped>>

\* The buttons are off while their answer is awaited.
Preview ==
    /\ preview = None /\ preview' = range
    /\ retyped' = (retyped /\ previewCount # None)
    /\ UNCHANGED <<range, ports, previewCount, scan, result, selected, import>>

PreviewAnswered ==
    /\ preview # None /\ preview' = None
    /\ previewCount' \in {preview, previewCount}    \* or it failed
    /\ UNCHANGED <<range, ports, scan, result, selected, import, retyped>>

Scan ==
    /\ scan = None /\ scan' = range
    /\ UNCHANGED <<range, ports, preview, previewCount, result, selected, import, retyped>>

\* Variant: the selection stays when another result arrives.
SelectedStays == selected

SelectedOfNewResult == {}
ScanAnswered(new) ==
    /\ scan # None /\ scan' = None
    /\ result' = [hosts |-> scan, new |-> new]
    /\ selected' = SelectedOfNewResult
    /\ UNCHANGED <<range, ports, preview, previewCount, import, retyped>>

ScanFailed ==
    /\ scan # None /\ scan' = None
    /\ UNCHANGED <<range, ports, preview, previewCount, result, selected, import, retyped>>

toggleSelect(h) ==
    /\ h \in result.hosts
    /\ selected' = IF h \in selected THEN selected \ {h} ELSE selected \union {h}
    /\ UNCHANGED <<range, ports, preview, previewCount, scan, result, import, retyped>>

selectNew ==
    /\ result.hosts # {}
    /\ selected' = result.new
    /\ UNCHANGED <<range, ports, preview, previewCount, scan, result, import, retyped>>

\* Of the hosts shown, those selected; the button says how many are selected.
importSelected ==
    /\ selected # {} /\ import = {}
    /\ import' = result.hosts \intersect selected
    /\ UNCHANGED <<range, ports, preview, previewCount, scan, result, selected, retyped>>

\* The result keeps calling them new, and they stay selected.
Imported ==
    /\ import # {} /\ import' = {}
    /\ UNCHANGED <<range, ports, preview, previewCount, scan, result, selected, retyped>>

Next ==
    \/ \E r \in Ranges : TypeRange(r)
    \/ \E p \in Ports : TogglePort(p)
    \/ Preview \/ PreviewAnswered \/ Scan \/ ScanFailed
    \/ \E new \in SUBSET scan : ScanAnswered(new)
    \/ \E h \in AnyHosts : toggleSelect(h)
    \/ selectNew \/ importSelected \/ Imported

Spec == Init /\ [][Next]_vars

-----------------------------------------------------------------------------
\* The number beside the range is the range's own, unless the range was typed
\* while that number was awaited.
CountFits == previewCount # None => previewCount = range \/ retyped

\* As many hosts are imported as the button says: no host of an earlier
\* result stays selected behind the one shown.
SelectedShown == selected \subseteq result.hosts
=============================================================================
