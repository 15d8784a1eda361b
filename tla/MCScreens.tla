----------------------------- MODULE MCScreens -----------------------------
(***************************************************************************)
(* The pages of the frontend for TLC.  They share no state but the server  *)
(* behind them, so topic, chosen at the start, says which of them is open. *)
(***************************************************************************)
EXTENDS LiveView, Sequences, FiniteSets

CONSTANTS
    AssetRows, Typed, HostNames,                            \* AssetForm
    MonitorTypes, MonitorRows,                              \* MonitorForm
    Assets, Systems,                                        \* Deploy
    MaxRows, MaxImports,                                    \* CsvImport
    ScanRanges, Ports,                                      \* ScanTab
    SnmpHosts, Oids, MaxTests,                              \* SnmpTab
    PageRows, Listings, Hits,                               \* Palette
    Metrics, Day, PerMinute, Points, ChartRanges, MaxTime,  \* MetricChart
    Incidents, Texts, MaxSent,                              \* IncidentPanel
    Unparsable, MaxMade, MaxOpenings                        \* NewRow

\* What the lists of assets and monitors hold.  A listed monitor has a target
\* and a config of its own type, as the form wants them of a new one.
ListedAssets == {[ip |-> "ip1", host |-> ""], [ip |-> "ip2", host |-> "web"]}
ListedMonitors ==
    {[type |-> "snmp", target |-> "snmp", assetId |-> "", config |-> "snmp"],
     [type |-> "agent", target |-> "a1", assetId |-> "a1", config |-> ""]}

\* The palette: one page; lists of none or two rows, of which a query finds the
\* second.
OnePage == <<1>>
NoneOrTwo == {<<>>, <<1, 2>>}
SecondRows == {[type |-> type, id |-> 2] : type \in {"asset", "monitor", "incident"}}

ASSUME RowsAssumption ==
    /\ \A r \in AssetRows : r = [ip |-> r["ip"], host |-> r["host"]] /\ r["ip"] # "none"
    /\ {"https", "agent"} \subseteq MonitorTypes /\ "none" \notin MonitorTypes
    /\ \A r \in MonitorRows :
         /\ r = [type |-> r["type"], target |-> r["target"], assetId |-> r["assetId"],
                 config |-> r["config"]]
         /\ r["type"] \in MonitorTypes /\ r["assetId"] \in Assets \union {""}
         /\ r["config"] \in {"", r["type"]}
         /\ r["target"] \in {""} \union (IF r["type"] = "agent" THEN Assets ELSE {r["type"]})

ASSUME NamesAssumption == "none" \notin Assets /\ "none" \notin Systems
ASSUME CsvAssumption == {MaxRows, MaxImports} \subseteq Nat
ASSUME PaletteAssumption == PageRows \in Seq(Nat) /\ Listings \subseteq Seq(Nat)
ASSUME ChartAssumption ==
    /\ IsFiniteSet(Metrics) /\ MaxTime \in Nat /\ {Day, PerMinute, Points} \subseteq Nat \ {0}
    /\ ChartRanges # {} /\ ChartRanges \subseteq 1 .. Day
ASSUME IncidentsAssumption == "none" \notin Incidents
ASSUME MadeAssumption == {MaxMade, MaxOpenings} \subseteq Nat

VARIABLES
    topic,
    tab, editing, form, saving, check, connResult, touched, crossed,
    mTab, mEditing, mForm, mSaving, mTouched,
    step, selectedOS, selectedAsset, agentToken, tokenMut, asked, strayed,
    csvContent, csvPreview, validating, import, importResult, assets, imports, edited,
    range, ports, preview, previewCount, scan, result, selected, hostImport, retyped,
    snmpHost, snmpOid, timers, tests, snmpResult, device, snmpDevInfo, lastAsked, overlapped,
    open, typed, selectedIdx, lists, went, marked, slipped,
    now, metric, minutes,
    status, incident, detail, reading, updates, comment, posts, disturbed, uncommented,
    cLate,
    list, away, showForm, draft, creating, newKey, rows, opening, unsaved, late

assetVars == <<tab, editing, form, saving, check, connResult, touched, crossed>>
monitorVars == <<mTab, mEditing, mForm, mSaving, mTouched>>
deployVars == <<step, selectedOS, selectedAsset, agentToken, tokenMut, asked, strayed>>
csvVars == <<csvContent, csvPreview, validating, import, importResult, assets,
             imports, edited>>
formVars == <<assetVars, monitorVars, deployVars, csvVars>>
scanVars == <<range, ports, preview, previewCount, scan, result, selected, hostImport, retyped>>
snmpVars == <<snmpHost, snmpOid, timers, tests, snmpResult, device, snmpDevInfo,
              lastAsked, overlapped>>
discoveryVars == <<scanVars, snmpVars>>
paletteVars == <<open, typed, selectedIdx, lists, went, marked, slipped>>
chartVars == <<now, metric, minutes>>
panelVars == <<status, incident, detail, reading, updates, comment, posts, disturbed,
               uncommented, cLate>>
newRowVars == <<list, away, showForm, draft, creating, newKey, rows, opening, unsaved, late>>
otherVars == <<paletteVars, chartVars, panelVars, newRowVars>>
allVars == <<topic, vars, formVars, discoveryVars, otherVars>>

AssetPart == INSTANCE AssetForm WITH Rows <- AssetRows
MonitorPart == INSTANCE MonitorForm WITH
    tab <- mTab, editing <- mEditing, form <- mForm, saving <- mSaving,
    touched <- mTouched, Types <- MonitorTypes, Rows <- MonitorRows
DeployPart == INSTANCE Deploy
CsvPart == INSTANCE CsvImport
ScanPart == INSTANCE ScanTab WITH
    import <- hostImport, Ranges <- ScanRanges
SnmpPart == INSTANCE SnmpTab WITH Hosts <- SnmpHosts
Hit(row, q) == row \in Hits
PalettePart == INSTANCE Palette WITH
    query <- typed, Pages <- PageRows, Matches <- Hit,
    Fetched <- [type \in {"asset", "monitor", "incident"} |-> Listings]
ChartPart == INSTANCE MetricChart WITH
    range <- minutes, Names <- Metrics, Drawn <- Points, Ranges <- ChartRanges
PanelPart == INSTANCE IncidentPanel WITH
    selected <- incident, unsaved <- uncommented, late <- cLate
NewRowPart == INSTANCE NewRow

MCInit ==
    /\ Init /\ AssetPart!Init /\ MonitorPart!Init /\ DeployPart!Init /\ CsvPart!Init
    /\ ScanPart!Init /\ SnmpPart!Init /\ PalettePart!Init /\ ChartPart!Init
    /\ PanelPart!Init /\ NewRowPart!Init
    /\ topic \in {"asset form", "monitor form", "deploy", "csv", "live",
                  "scan", "snmp", "palette", "chart",
                  "panel", "shared panel", "comments", "new row"}
    /\ topic # "chart" => minutes = CHOOSE r \in ChartRanges : TRUE
    /\ topic # "scan" => range = CHOOSE r \in ScanRanges : TRUE
    /\ topic # "snmp" => snmpOid = CHOOSE o \in Oids : TRUE
    /\ status = [i \in Incidents |-> "open"]
    /\ topic # "new row" => list = NewRowPart!IncidentForm
    /\ topic # "live" => /\ page = AssetsPage /\ query = "assets" /\ op = "create"

\* Bounds: the panel with two updates under way, of one incident only if it is
\* First, and nobody else; with one update, and others who change First; and
\* with nothing but comments, when the panel is closed too.
First == CHOOSE i \in Incidents : TRUE
PanelBounded ==
    /\ topic = "panel" =>
         /\ \A i \in Incidents : status'[i] # status[i] => updates' # updates
         /\ \A u, v \in updates' : u.id = v.id => u = v \/ u.id = First
    /\ topic = "shared panel" =>
         /\ \A u, v \in updates' : u = v
         /\ \A i \in Incidents \ {First} : status'[i] # status[i] => updates' # updates
    /\ IF topic = "comments" THEN UNCHANGED <<status, updates, disturbed>>
       ELSE /\ UNCHANGED <<comment, posts, uncommented, cLate>>
            /\ incident' = PanelPart!None => incident = PanelPart!None

LiveAlone ==
    /\ topic = "live"
    /\ UNCHANGED <<topic, assetVars, monitorVars, deployVars, csvVars, discoveryVars, otherVars>>

MCNext ==
    \/ LiveAlone /\ Next
    \/ /\ topic = "asset form" /\ AssetPart!Next
       /\ UNCHANGED <<topic, vars, monitorVars, deployVars, csvVars, discoveryVars, otherVars>>
    \/ /\ topic = "monitor form" /\ MonitorPart!Next
       /\ UNCHANGED <<topic, vars, assetVars, deployVars, csvVars, discoveryVars, otherVars>>
    \/ /\ topic = "deploy" /\ DeployPart!Next
       /\ UNCHANGED <<topic, vars, assetVars, monitorVars, csvVars, discoveryVars, otherVars>>
    \/ /\ topic = "csv" /\ CsvPart!Next
       /\ UNCHANGED <<topic, vars, assetVars, monitorVars, deployVars, discoveryVars, otherVars>>
    \/ /\ topic = "scan" /\ ScanPart!Next
       /\ UNCHANGED <<topic, vars, formVars, snmpVars, otherVars>>
    \/ /\ topic = "snmp" /\ SnmpPart!Next
       /\ UNCHANGED <<topic, vars, formVars, scanVars, otherVars>>
    \/ /\ topic = "palette" /\ PalettePart!Next
       /\ UNCHANGED <<topic, vars, formVars, discoveryVars, chartVars, panelVars, newRowVars>>
    \/ /\ topic = "chart" /\ ChartPart!Next
       /\ UNCHANGED <<topic, vars, formVars, discoveryVars, paletteVars, panelVars, newRowVars>>
    \/ /\ topic \in {"panel", "shared panel", "comments"} /\ PanelPart!Next /\ PanelBounded
       /\ UNCHANGED <<topic, vars, formVars, discoveryVars, paletteVars, chartVars, newRowVars>>
    \/ /\ topic = "new row" /\ NewRowPart!Next
       /\ UNCHANGED <<topic, vars, formVars, discoveryVars, paletteVars, chartVars, panelVars>>

MCPoll == LiveAlone /\ Poll
MCServerReads == LiveAlone /\ ServerReads
MCShown == LiveAlone /\ Shown

MCSpec ==
    /\ MCInit /\ [][MCNext]_allVars
    /\ WF_allVars(MCPoll) /\ WF_allVars(MCServerReads) /\ WF_allVars(MCShown)

-----------------------------------------------------------------------------
(***************************************************************************)
(* The properties of the parts; each module says what they mean.           *)
(***************************************************************************)

\* Types: forms, wizards, imports and queries are what their modules declare.
MCTypeOK ==
    /\ LiveTypeOK /\ AssetPart!FormTypeOK /\ MonitorPart!MonitorFormTypeOK
    /\ DeployPart!DeployTypeOK /\ CsvPart!CsvTypeOK
    /\ topic \in {"panel", "shared panel", "comments"} => PanelPart!PanelTypeOK
    /\ topic = "new row" => NewRowPart!NewRowTypeOK

\* Forms: a form saves the row it names, but for what the user changed in it,
\* and a monitor's target and config are of its own type; hosts that are
\* imported are shown.  And a check's result, a preview, an import's numbers,
\* an enrollment key, a count of addresses and an SNMP value stand beside the
\* question they answer, unless it was changed meanwhile.  A button of the panel
\* never takes an incident back, what was typed stays until it is saved, and one
\* opening of a form makes one row.
FormsTrue ==
    /\ AssetPart!OwnRow /\ MonitorPart!OwnMonitor /\ MonitorPart!SentFits
    /\ ScanPart!SelectedShown
    /\ AssetPart!ResultFits /\ CsvPart!ImportShown /\ DeployPart!KeyFits
    /\ ScanPart!CountFits /\ SnmpPart!LastAnswerShown
    /\ PanelPart!MovesOn /\ PanelPart!CommentKept
    /\ NewRowPart!OneRowPerOpening /\ NewRowPart!DraftKept

\* Palette and charts: what is opened is what is marked, and a chart ends where
\* its card stands.
DrawnTrue ==
    /\ topic = "palette" => PalettePart!EnterOpensMarked /\ PalettePart!MarkShown
    /\ topic = "chart" => ChartPart!ChartTypeOK /\ ChartPart!ChartTrue

\* Lists: what the page changed, and what is polled, is shown in the end.
ListsShown == topic = "live" => ListsCatchUp
=============================================================================
