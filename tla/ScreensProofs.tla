--------------------------- MODULE ScreensProofs ----------------------------
(***************************************************************************)
(* What the forms, wizards and tabs of the frontend's pages keep, for any  *)
(* rows listed, texts typed and answers of the server, in any order.       *)
(***************************************************************************)
EXTENDS MCScreens, ListProofs

-----------------------------------------------------------------------------
(***************************************************************************)
(* The form of assets.                                                     *)
(***************************************************************************)
\* The form is of the row it names.  What is awaited or shown as still of this
\* form and its address is of its address.
Base == IF editing = AssetPart!NoRow THEN AssetPart!Empty ELSE editing
AssetInv ==
    /\ DOMAIN form = {"ip", "host"} /\ DOMAIN check = {"of", "here", "sameIp"}
    /\ editing = AssetPart!NoRow \/ editing \in AssetRows
    /\ tab \in {"create", "edit"} =>
         /\ tab = "create" => editing = AssetPart!NoRow
         /\ tab = "edit" => editing # AssetPart!NoRow
         /\ "ip" \in touched \/ form["ip"] = Base["ip"]
         /\ "host" \in touched \/ form["host"] = Base["host"] \/ crossed = TRUE
         /\ connResult.sameIp = TRUE => connResult.of["ip"] = form["ip"]
         /\ check.sameIp = TRUE => check.of["ip"] = form["ip"]

LEMMA AssetTrue == AssetInv => AssetPart!OwnRow /\ AssetPart!ResultFits
<1> SUFFICES ASSUME AssetInv, AssetPart!isFormMode
             PROVE  AssetPart!OwnRow /\ AssetPart!ResultFits
  BY DEF AssetPart!OwnRow, AssetPart!ResultFits
<1>1. AssetPart!ResultFits
  BY DEF AssetPart!ResultFits, AssetInv, AssetPart!isFormMode
<1>2. (editing = AssetPart!NoRow) = (tab = "create")
  BY DEF AssetInv, AssetPart!isFormMode
<1>3. ASSUME NEW f \in AssetPart!Fields \ touched
      PROVE  form[f] = Base[f] \/ (f = "host" /\ crossed)
  BY <1>3 DEF AssetInv, AssetPart!isFormMode, AssetPart!Fields
<1> QED
  BY <1>1, <1>2, <1>3 DEF AssetPart!OwnRow, Base

LEMMA AssetInit == AssetPart!Init => AssetInv
BY DEF AssetPart!Init, AssetInv, AssetPart!Empty, AssetPart!NoCheck

\* A form that opens is as it was filled, and what was asked was of another.
LEMMA FormOpens ==
    ASSUME AssetInv, AssetPart!Opened(Base'), DOMAIN Base' = {"ip", "host"},
           editing' = AssetPart!NoRow \/ editing' \in AssetRows,
           tab' = "create" => editing' = AssetPart!NoRow,
           tab' = "edit" => editing' # AssetPart!NoRow
    PROVE  AssetInv'
<1>1. form' = Base' /\ connResult' = AssetPart!NoCheck
  BY DEF AssetPart!Opened
<1>2. connResult'.sameIp = FALSE
  BY <1>1 DEF AssetPart!NoCheck
<1>3. check' = [check EXCEPT !.here = FALSE, !.sameIp = FALSE]
  BY DEF AssetPart!Opened, AssetPart!Elsewhere
<1>4. DOMAIN check' = {"of", "here", "sameIp"} /\ check'.sameIp = FALSE
  BY <1>3 DEF AssetInv
<1> QED
  BY <1>1, <1>2, <1>4 DEF AssetInv

\* A step that changes no field, no row and no answer.
LEMMA FormRests ==
    ASSUME AssetInv, UNCHANGED <<form, touched, crossed>>,
           DOMAIN check' = {"of", "here", "sameIp"},
           \/ tab' = tab /\ editing' = editing
           \/ tab' \notin {"create", "edit"} /\ editing' \in {editing, AssetPart!NoRow},
           connResult' = connResult \/ connResult'.sameIp = FALSE \/ connResult' = check,
           tab' \in {"create", "edit"} /\ check'.sameIp = TRUE =>
               check' = check \/ check'.of = form
    PROVE  AssetInv'
BY DEF AssetInv, Base

LEMMA AssetStep ==
    ASSUME AssetInv, [AssetPart!Next]_(AssetPart!vars)
    PROVE  AssetInv'
<1> DEFINE Shape == {"of", "here", "sameIp"}
<1>0. DOMAIN AssetPart!NoCheck = Shape /\ AssetPart!NoCheck.sameIp = FALSE
  BY DEF AssetPart!NoCheck
<1>1. DOMAIN check = Shape /\ DOMAIN form = {"ip", "host"}
  BY DEF AssetInv
<1>2. DOMAIN AssetPart!Elsewhere(check) = Shape
  BY <1>1 DEF AssetPart!Elsewhere
<1>3. CASE UNCHANGED AssetPart!vars
  BY <1>1, <1>3, FormRests DEF AssetPart!vars
<1>4. CASE AssetPart!openCreate
  <2>1. Base' = AssetPart!Empty /\ DOMAIN AssetPart!Empty = {"ip", "host"}
    BY <1>4 DEF AssetPart!openCreate, AssetPart!EditingWhenCreating, AssetPart!Empty, Base
  <2>2. tab' = "create" /\ editing' = AssetPart!NoRow /\ AssetPart!Opened(AssetPart!Empty)
    BY <1>4 DEF AssetPart!openCreate, AssetPart!EditingWhenCreating
  <2> QED
    BY <2>1, <2>2, FormOpens
<1>5. ASSUME NEW r \in AssetRows, AssetPart!openEdit(r) PROVE AssetInv'
  <2> AssetPart!NoRow["ip"] = "none"
    BY DEF AssetPart!NoRow
  <2>1. DOMAIN r = {"ip", "host"} /\ r # AssetPart!NoRow
    BY RowsAssumption
  <2>2. tab' = "edit" /\ editing' = r /\ AssetPart!Opened(r)
    BY <1>5 DEF AssetPart!openEdit
  <2>3. Base' = r
    BY <2>1, <2>2 DEF Base
  <2> QED
    BY <2>1, <2>2, <2>3, FormOpens
<1>6. CASE AssetPart!Cancel
  BY <1>0, <1>2, <1>6, FormRests DEF AssetPart!Cancel
<1>7. CASE AssetPart!OpenImport
  <2>1. tab' = "import" /\ UNCHANGED <<editing, form, touched, crossed>>
    BY <1>7 DEF AssetPart!OpenImport
  <2>2. check' = AssetPart!Elsewhere(check)
    BY <1>7 DEF AssetPart!OpenImport
  <2> QED
    BY <1>2, <2>1, <2>2 DEF AssetInv
<1>8. CASE AssetPart!CloseImport
  BY <1>1, <1>8, FormRests DEF AssetPart!CloseImport
<1>9. ASSUME NEW text, AssetPart!TypeIp(text) PROVE AssetInv'
  <2>1. form'["host"] = form["host"] /\ DOMAIN form' = {"ip", "host"}
    BY <1>1, <1>9 DEF AssetPart!TypeIp
  <2>2. DOMAIN check' = Shape /\ check'.sameIp = FALSE
    BY <1>1, <1>9 DEF AssetPart!TypeIp
  <2>3. connResult'.sameIp = FALSE
    BY <1>0, <1>9 DEF AssetPart!TypeIp, AssetPart!ClearedByIp
  <2>4. touched' = touched \union {"ip"} /\ UNCHANGED <<tab, editing, crossed>>
    BY <1>9 DEF AssetPart!TypeIp
  <2> QED
    BY <2>1, <2>2, <2>3, <2>4 DEF AssetInv, Base
<1>10. ASSUME NEW text, AssetPart!TypeHost(text) PROVE AssetInv'
  <2>1. form'["ip"] = form["ip"] /\ DOMAIN form' = {"ip", "host"}
    BY <1>1, <1>10 DEF AssetPart!TypeHost
  <2>2. /\ touched' = touched \union {"host"}
        /\ UNCHANGED <<tab, editing, check, connResult, crossed>>
    BY <1>10 DEF AssetPart!TypeHost
  <2> QED
    BY <2>1, <2>2 DEF AssetInv, Base
<1>11. CASE AssetPart!checkConnectivity
  <2>1. DOMAIN check' = Shape /\ check'.of = form
    BY <1>11 DEF AssetPart!checkConnectivity
  <2> QED
    BY <1>0, <1>11, <2>1, FormRests DEF AssetPart!checkConnectivity
<1>12. ASSUME NEW answer, AssetPart!CheckAnswered(answer) PROVE AssetInv'
  <2>1. /\ connResult' = check /\ check' = AssetPart!NoCheck
        /\ UNCHANGED <<tab, editing>>
    BY <1>12 DEF AssetPart!CheckAnswered
  <2>2. CASE UNCHANGED <<form, touched, crossed>>
    BY <1>0, <2>1, <2>2, FormRests
  <2>3. CASE AssetPart!Named(answer.hostname)
    <3>1. form'["ip"] = form["ip"] /\ DOMAIN form' = {"ip", "host"}
      BY <1>1, <2>3 DEF AssetPart!Named
    <3>2. touched \subseteq touched' /\ ("host" \in touched' \/ crossed' = TRUE)
      BY <2>3 DEF AssetPart!Named
    <3> QED
      BY <1>0, <2>1, <3>1, <3>2 DEF AssetInv, Base
  <2> QED
    BY <1>12, <2>2, <2>3 DEF AssetPart!CheckAnswered
<1>13. CASE AssetPart!CheckFailed
  BY <1>0, <1>13, FormRests DEF AssetPart!CheckFailed
<1>14. CASE AssetPart!handleSubmit \/ AssetPart!SaveFailed
  BY <1>1, <1>14, FormRests DEF AssetPart!handleSubmit, AssetPart!SaveFailed
<1>15. CASE AssetPart!Saved
  <2>1. /\ DOMAIN form' = {"ip", "host"} /\ tab' = "list"
        /\ check' = AssetPart!Elsewhere(check)
        /\ editing' \in {editing, AssetPart!NoRow}
    BY <1>15 DEF AssetPart!Saved, AssetPart!Opened, AssetPart!Empty
  <2> QED
    BY <1>2, <2>1 DEF AssetInv
<1> QED
  BY <1>3, <1>4, <1>5, <1>6, <1>7, <1>8, <1>9, <1>10, <1>11, <1>12, <1>13, <1>14, <1>15
     DEF AssetPart!Next

-----------------------------------------------------------------------------
(***************************************************************************)
(* The form of monitors.                                                   *)
(***************************************************************************)
\* The form is of the monitor it names, and holds a target and a config of its
\* own type; so does what it sent.
Keys == {"type", "target", "assetId", "config"}
MonitorBase == IF mEditing = MonitorPart!NoRow THEN MonitorPart!Empty ELSE mEditing
OfOwnType(values) ==
    /\ DOMAIN values = Keys
    /\ values["config"] \in {"", values["type"]}
    /\ values["type"] # "agent" => values["target"] \in {"", values["type"]}
MonitorInv ==
    /\ OfOwnType(mForm)
    /\ mEditing = MonitorPart!NoRow \/ mEditing \in MonitorRows
    /\ mTab = "form" => \A f \in Keys : f \in mTouched \/ mForm[f] = MonitorBase[f]
    /\ MonitorPart!SentFits

LEMMA EmptyMonitor ==
    /\ DOMAIN MonitorPart!Empty = Keys /\ MonitorPart!Empty["type"] = "https"
    /\ MonitorPart!Empty["config"] = "" /\ MonitorPart!Empty["target"] = ""
BY DEF MonitorPart!Empty, Keys

LEMMA MonitorTrue == MonitorInv => MonitorPart!OwnMonitor /\ MonitorPart!SentFits
BY EmptyMonitor DEF MonitorInv, MonitorBase, MonitorPart!OwnMonitor

LEMMA MonitorInit == MonitorPart!Init => MonitorInv
BY EmptyMonitor DEF MonitorPart!Init, MonitorInv, OfOwnType, MonitorPart!SentFits

LEMMA MonitorStep ==
    ASSUME MonitorInv, [MonitorPart!Next]_(MonitorPart!vars)
    PROVE  MonitorInv'
<1>1. CASE UNCHANGED <<mTab, mEditing, mForm, mTouched>> /\ MonitorPart!SentFits'
  BY <1>1 DEF MonitorInv, MonitorBase, OfOwnType
<1>2. ASSUME UNCHANGED mSaving PROVE MonitorPart!SentFits'
  BY <1>2 DEF MonitorInv, MonitorPart!SentFits
<1>3. ASSUME mSaving' = MonitorPart!Idle PROVE MonitorPart!SentFits'
  BY <1>3 DEF MonitorPart!SentFits
<1>4. CASE UNCHANGED MonitorPart!vars
  BY <1>1, <1>2, <1>4 DEF MonitorPart!vars
<1>5. CASE MonitorPart!openCreate \/ MonitorPart!Saved
  <2>1. mForm' = MonitorPart!Empty /\ mEditing' = MonitorPart!NoRow /\ MonitorPart!SentFits'
    BY <1>2, <1>3, <1>5 DEF MonitorPart!openCreate, MonitorPart!Saved
  <2> QED
    BY <2>1, EmptyMonitor DEF MonitorInv, OfOwnType, MonitorBase
<1>6. ASSUME NEW r \in MonitorRows, MonitorPart!openEdit(r) PROVE MonitorInv'
  <2> MonitorPart!NoRow["type"] = "none"
    BY DEF MonitorPart!NoRow
  <2>1. OfOwnType(r) /\ r # MonitorPart!NoRow
    BY RowsAssumption DEF OfOwnType, Keys
  <2>2. mForm' = r /\ mEditing' = r /\ UNCHANGED mSaving
    BY <1>6 DEF MonitorPart!openEdit
  <2>3. MonitorBase' = r
    BY <2>1, <2>2 DEF MonitorBase
  <2> QED
    BY <1>2, <2>1, <2>2, <2>3 DEF MonitorInv, OfOwnType
<1>7. CASE MonitorPart!Cancel
  BY <1>2, <1>7 DEF MonitorPart!Cancel, MonitorInv, OfOwnType
<1>8. ASSUME NEW fields, NEW values, MonitorPart!Enter(fields, values), OfOwnType(values),
             \A f \in Keys \ fields : values[f] = mForm[f]
      PROVE  MonitorInv'
  <2>1. /\ mTab = "form" /\ mForm' = values /\ mTouched' = mTouched \union fields
        /\ UNCHANGED <<mTab, mEditing, mSaving>>
    BY <1>8 DEF MonitorPart!Enter
  <2> QED
    BY <1>2, <1>8, <2>1 DEF MonitorInv, MonitorBase, OfOwnType
<1> USE DEF OfOwnType, Keys
<1>9. ASSUME NEW type, MonitorPart!ChooseType(type) PROVE MonitorInv'
  <2>1. /\ OfOwnType(MonitorPart!Retyped(type))
        /\ \A f \in Keys \ {"type", "config", "target"} :
              MonitorPart!Retyped(type)[f] = mForm[f]
    BY DEF MonitorInv, MonitorPart!Retyped
  <2> QED
    BY <1>8, <1>9, <2>1 DEF MonitorPart!ChooseType
<1>10. CASE MonitorPart!TypeTarget
  <2> DEFINE new == [mForm EXCEPT !.target = mForm.type]
  <2>1. OfOwnType(new) /\ \A f \in Keys \ {"target"} : new[f] = mForm[f]
    BY DEF MonitorInv
  <2> QED
    BY <1>8, <1>10, <2>1 DEF MonitorPart!TypeTarget
<1>11. CASE MonitorPart!ConfigFields
  <2> DEFINE new == [mForm EXCEPT !.config = mForm.type]
  <2>1. OfOwnType(new) /\ \A f \in Keys \ {"config"} : new[f] = mForm[f]
    BY DEF MonitorInv
  <2> QED
    BY <1>8, <1>11, <2>1 DEF MonitorPart!ConfigFields
<1>12. ASSUME NEW a, MonitorPart!ChooseAsset(a) PROVE MonitorInv'
  <2> DEFINE new == [mForm EXCEPT !.assetId = a]
  <2>1. OfOwnType(new) /\ \A f \in Keys \ {"assetId"} : new[f] = mForm[f]
    BY DEF MonitorInv
  <2> QED
    BY <1>8, <1>12, <2>1 DEF MonitorPart!ChooseAsset
<1>13. CASE MonitorPart!handleSubmit
  <2>1. mSaving'.data = MonitorPart!Payload /\ UNCHANGED <<mTab, mEditing, mForm, mTouched>>
    BY <1>13 DEF MonitorPart!handleSubmit
  <2>2. CASE mForm["type"] = "agent"
    <3>1. MonitorPart!Payload = [mForm EXCEPT !.target = mForm.assetId]
      BY <2>2 DEF MonitorPart!Payload
    <3>2. /\ MonitorPart!Payload["type"] = "agent"
          /\ MonitorPart!Payload["target"] = MonitorPart!Payload["assetId"]
          /\ MonitorPart!Payload["config"] \in {"", "agent"}
      BY <2>2, <3>1 DEF MonitorInv
    <3> QED
      BY <1>1, <2>1, <3>2 DEF MonitorPart!SentFits
  <2>3. CASE mForm["type"] # "agent"
    <3>1. MonitorPart!Payload = mForm /\ mForm["target"] # ""
      BY <1>13, <2>3 DEF MonitorPart!Payload, MonitorPart!handleSubmit, MonitorPart!Complete
    <3> QED
      BY <1>1, <2>1, <2>3, <3>1 DEF MonitorPart!SentFits, MonitorInv
  <2> QED
    BY <2>2, <2>3
<1>14. CASE MonitorPart!SaveFailed
  BY <1>1, <1>3, <1>14 DEF MonitorPart!SaveFailed
<1> QED
  BY <1>4, <1>5, <1>6, <1>7, <1>9, <1>10, <1>11, <1>12, <1>13, <1>14 DEF MonitorPart!Next

-----------------------------------------------------------------------------
(***************************************************************************)
(* The installer of agents.                                                *)
(***************************************************************************)
\* One key is awaited at most, of the asset asked for last.
DeployInv ==
    /\ step \in {1, 2, 3}
    /\ step # 1 => selectedAsset # "none"
    /\ step = 3 => /\ selectedOS # "none" /\ agentToken = asked /\ tokenMut = {}
                   /\ selectedAsset = asked \/ strayed = TRUE
    /\ tokenMut # {} => /\ tokenMut = {asked}
                        /\ selectedOS # "none" /\ selectedAsset # "none"
                        /\ selectedAsset = asked \/ strayed = TRUE

LEMMA DeployTrue == DeployInv => DeployPart!KeyFits
BY DEF DeployInv, DeployPart!KeyFits

LEMMA DeployInit == DeployPart!Init => DeployInv
BY DEF DeployPart!Init, DeployInv

LEMMA DeployStep ==
    ASSUME DeployInv, [DeployPart!Next]_(DeployPart!vars)
    PROVE  DeployInv'
<1> USE DEF DeployInv
<1>1. CASE UNCHANGED DeployPart!vars
  BY <1>1 DEF DeployPart!vars
<1>2. ASSUME NEW a \in Assets, DeployPart!SelectAsset(a) PROVE DeployInv'
  <2>1. strayed' = TRUE <=> tokenMut # {} /\ a # asked
    BY <1>2 DEF DeployPart!SelectAsset
  <2> QED
    BY <1>2, <2>1, NamesAssumption DEF DeployPart!SelectAsset
<1>3. ASSUME NEW os \in Systems, DeployPart!SelectOS(os) PROVE DeployInv'
  BY <1>3, NamesAssumption DEF DeployPart!SelectOS
<1>4. CASE DeployPart!Back
  BY <1>4 DEF DeployPart!Back
<1>5. CASE DeployPart!Generate
  BY <1>5 DEF DeployPart!Generate, DeployPart!MayGenerate
<1>6. ASSUME NEW a \in Assets, DeployPart!KeyArrives(a) PROVE DeployInv'
  BY <1>6 DEF DeployPart!KeyArrives
<1>7. ASSUME NEW a \in Assets, DeployPart!KeyRefused(a) PROVE DeployInv'
  BY <1>7 DEF DeployPart!KeyRefused
<1>8. CASE DeployPart!reset
  BY <1>8 DEF DeployPart!reset
<1> QED
  BY <1>1, <1>2, <1>3, <1>4, <1>5, <1>6, <1>7, <1>8 DEF DeployPart!Next

-----------------------------------------------------------------------------
(***************************************************************************)
(* The import of CSV text.                                                 *)
(***************************************************************************)
\* An import has counted the rows it has passed; what is validated is the text
\* there is unless it was edited.
CsvTexts == CsvPart!Csvs \union {CsvPart!Nothing}
Call(csv, row, success, failed) ==
    [csv |-> csv, row |-> row, success |-> success, failed |-> failed, made |-> success]
CallInv(call) ==
    \/ call = CsvPart!NoCall
    \/ \E csv \in CsvTexts, row, success, failed \in Nat :
         /\ call = Call(csv, row, success, failed)
         /\ row \in 1 .. Len(csv) + 1 /\ success + failed + 1 = row
CsvInv ==
    /\ CsvPart!ImportShown
    /\ DOMAIN csvPreview = {"of", "valid", "late"}
    /\ validating # CsvPart!Nothing /\ edited # TRUE => validating = csvContent
    /\ csvContent \in CsvTexts /\ CallInv(import)

LEMMA TextLen ==
    ASSUME NEW text \in CsvTexts
    PROVE  Len(text) \in Nat
<1>1. CASE text \in CsvPart!Csvs
  <2>1. PICK n \in 0 .. MaxRows : text \in [1 .. n -> CsvPart!Kinds]
    BY <1>1 DEF CsvPart!Csvs
  <2>2. n \in Nat
    BY CsvAssumption
  <2>3. text \in Seq(CsvPart!Kinds)
    BY <2>1, <2>2
  <2> QED
    BY <2>3
<1>2. CASE text = CsvPart!Nothing
  BY <1>2 DEF CsvPart!Nothing
<1> QED
  BY <1>1, <1>2 DEF CsvTexts

LEMMA CsvInit == CsvPart!Init => CsvInv
BY DEF CsvPart!Init, CsvInv, CallInv, CsvTexts, CsvPart!ImportShown,
       CsvPart!NoPreview, CsvPart!NoResult

LEMMA CsvStep ==
    ASSUME CsvInv, [CsvPart!Next]_(CsvPart!vars)
    PROVE  CsvInv'
<1>1. CASE UNCHANGED CsvPart!vars
  BY <1>1 DEF CsvPart!vars, CsvInv, CsvPart!ImportShown
<1>2. ASSUME NEW text \in CsvTexts, CsvPart!Write(text)
      PROVE  CsvInv'
  <2>1. csvContent' = text /\ UNCHANGED <<validating, import>>
    BY <1>2 DEF CsvPart!Write
  <2>2. edited' = TRUE <=> validating # CsvPart!Nothing
    BY <1>2 DEF CsvPart!Write
  <2>3. csvPreview' = CsvPart!NoPreview /\ DOMAIN csvPreview' = {"of", "valid", "late"}
    BY <1>2 DEF CsvPart!Write, CsvPart!PreviewOfNewText, CsvPart!NoPreview
  <2>4. importResult' \in {importResult, CsvPart!NoResult}
    BY <1>2 DEF CsvPart!Write
  <2>5. /\ importResult'.success = importResult'.made
        /\ importResult'.success + importResult'.failed = importResult'.rows
    BY <2>4 DEF CsvPart!NoResult, CsvInv, CsvPart!ImportShown
  <2> QED
    BY <2>1, <2>2, <2>3, <2>5 DEF CsvInv, CsvPart!ImportShown
<1>3. CASE CsvPart!Validate
  BY <1>3 DEF CsvPart!Validate, CsvInv, CsvPart!ImportShown
<1>4. CASE CsvPart!Validated
  BY <1>4 DEF CsvPart!Validated, CsvInv, CsvPart!ImportShown
<1>5. CASE CsvPart!Import
  <2>1. import' = Call(csvContent, 1, 0, 0)
    BY <1>5 DEF CsvPart!Import, CsvPart!NoCall, Call
  <2>2. csvContent \in CsvTexts /\ Len(csvContent) \in Nat
    BY TextLen DEF CsvInv
  <2>3. CallInv(import')
    BY <2>1, <2>2 DEF CallInv
  <2>4. UNCHANGED <<csvContent, csvPreview, validating, importResult, edited>>
    BY <1>5 DEF CsvPart!Import
  <2> QED
    BY <2>3, <2>4 DEF CsvInv, CsvPart!ImportShown
<1>6. CASE CsvPart!RowCreated \/ CsvPart!RowRefused
  <2>1. PICK n \in {0, 1} : CsvPart!Counted(n, n) /\ CsvPart!importing
    BY <1>6 DEF CsvPart!RowCreated, CsvPart!RowRefused
  <2>2. PICK csv \in CsvTexts, row, success, failed \in Nat :
          /\ import = Call(csv, row, success, failed)
          /\ row \in 1 .. Len(csv) + 1 /\ success + failed + 1 = row
    BY <2>1 DEF CsvPart!importing, CsvInv, CallInv
  <2>3. row \in 1 .. Len(csv) /\ Len(csv) \in Nat
    BY <2>1, <2>2, TextLen DEF CsvPart!importing, Call
  <2>4. import' = Call(csv, row + 1, success + n, failed + (1 - n))
    BY <2>1, <2>2 DEF CsvPart!Counted, Call
  <2>5. CallInv(import')
    BY <2>2, <2>3, <2>4 DEF CallInv
  <2>6. UNCHANGED <<csvContent, csvPreview, validating, importResult, edited>>
    BY <1>6 DEF CsvPart!RowCreated, CsvPart!RowRefused
  <2> QED
    BY <2>5, <2>6 DEF CsvInv, CsvPart!ImportShown
<1>7. CASE CsvPart!Imported
  <2>1. PICK csv \in CsvTexts, row, success, failed \in Nat :
          /\ import = Call(csv, row, success, failed)
          /\ row \in 1 .. Len(csv) + 1 /\ success + failed + 1 = row
    BY <1>7 DEF CsvPart!Imported, CsvInv, CallInv
  <2>2. Len(csv) \in Nat /\ row = Len(csv) + 1
    BY <1>7, <2>1, TextLen DEF CsvPart!Imported, CsvPart!importing, Call
  <2>3. importResult' = [success |-> success, failed |-> failed, made |-> success,
                         rows |-> Len(csv)]
    BY <1>7, <2>1 DEF CsvPart!Imported, Call
  <2>4. /\ importResult'.success = importResult'.made
        /\ importResult'.success + importResult'.failed = importResult'.rows
    BY <2>1, <2>2, <2>3
  <2>5. /\ CallInv(import')
        /\ UNCHANGED <<csvContent, csvPreview, validating, edited>>
    BY <1>7 DEF CsvPart!Imported, CallInv
  <2> QED
    BY <2>4, <2>5 DEF CsvInv, CsvPart!ImportShown
<1>8. CASE CsvPart!ImportLost
  BY <1>8 DEF CsvPart!ImportLost, CallInv, CsvInv, CsvPart!ImportShown
<1> QED
  BY <1>1, <1>2, <1>3, <1>4, <1>5, <1>6, <1>7, <1>8 DEF CsvPart!Next, CsvTexts

-----------------------------------------------------------------------------
(***************************************************************************)
(* The scan tab.                                                           *)
(***************************************************************************)
\* The count awaited is the range's, or it was typed anew; new hosts are found.
ScanTabInv ==
    /\ ScanPart!CountFits /\ ScanPart!SelectedShown
    /\ preview # ScanPart!None => preview = range \/ retyped
    /\ result.new \subseteq result.hosts

LEMMA ScanTabInit == ScanPart!Init => ScanTabInv
BY DEF ScanPart!Init, ScanTabInv, ScanPart!CountFits, ScanPart!SelectedShown, ScanPart!None,
       ScanPart!NoResult

LEMMA ScanTabStep ==
    ASSUME ScanTabInv, [ScanPart!Next]_(ScanPart!vars)
    PROVE  ScanTabInv'
<1> USE DEF ScanTabInv, ScanPart!CountFits, ScanPart!SelectedShown
<1>1. CASE UNCHANGED ScanPart!vars
  BY <1>1 DEF ScanPart!vars
<1>2. ASSUME NEW r, ScanPart!TypeRange(r) PROVE ScanTabInv'
  BY <1>2 DEF ScanPart!TypeRange, ScanPart!CountOfNewRange
<1>3. ASSUME NEW p, ScanPart!TogglePort(p) PROVE ScanTabInv'
  BY <1>3 DEF ScanPart!TogglePort
<1>4. CASE ScanPart!Preview
  BY <1>4 DEF ScanPart!Preview
<1>5. CASE ScanPart!PreviewAnswered
  BY <1>5 DEF ScanPart!PreviewAnswered
<1>6. CASE ScanPart!Scan \/ ScanPart!ScanFailed
  BY <1>6 DEF ScanPart!Scan, ScanPart!ScanFailed
<1>7. ASSUME NEW new \in SUBSET scan, ScanPart!ScanAnswered(new) PROVE ScanTabInv'
  BY <1>7 DEF ScanPart!ScanAnswered, ScanPart!SelectedOfNewResult
<1>8. ASSUME NEW h, ScanPart!toggleSelect(h) PROVE ScanTabInv'
  BY <1>8 DEF ScanPart!toggleSelect
<1>9. CASE ScanPart!selectNew \/ ScanPart!importSelected \/ ScanPart!Imported
  BY <1>9 DEF ScanPart!selectNew, ScanPart!importSelected, ScanPart!Imported
<1> QED
  BY <1>1, <1>2, <1>3, <1>4, <1>5, <1>6, <1>7, <1>8, <1>9 DEF ScanPart!Next

-----------------------------------------------------------------------------
(***************************************************************************)
(* The SNMP tab.                                                           *)
(***************************************************************************)
\* Unless a Test overlapped, what is awaited is the question asked last.
SnmpInv ==
    ~overlapped =>
      /\ tests \subseteq {SnmpPart!Awaited(lastAsked, TRUE)}
      /\ tests = {} /\ lastAsked # SnmpPart!NoQuestion => snmpResult = lastAsked

LEMMA SnmpInit == SnmpPart!Init => SnmpInv
BY DEF SnmpPart!Init, SnmpInv

LEMMA SnmpStep ==
    ASSUME SnmpInv, [SnmpPart!Next]_(SnmpPart!vars)
    PROVE  SnmpInv'
<1>1. CASE UNCHANGED <<tests, snmpResult, lastAsked, overlapped>>
  BY <1>1 DEF SnmpInv
<1>2. CASE SnmpPart!Send /\ (tests = {} \/ overlapped')
  BY <1>2 DEF SnmpPart!Send, SnmpInv
<1>3. CASE SnmpPart!Ask
  <2>1. ~overlapped => tests = {}
    BY <1>3 DEF SnmpPart!Ask, SnmpPart!Askable, SnmpPart!Awaited, SnmpInv
  <2> QED
    BY <1>2, <1>3, <2>1 DEF SnmpPart!Ask
<1>4. CASE SnmpPart!CatalogueAsks
  BY <1>2, <1>4 DEF SnmpPart!CatalogueAsks
<1>5. ASSUME NEW t \in tests, SnmpPart!Answered(t) \/ SnmpPart!Failed(t)
      PROVE  SnmpInv'
  <2> SUFFICES ASSUME ~overlapped PROVE SnmpInv'
    BY <1>5 DEF SnmpPart!Answered, SnmpPart!Failed, SnmpInv
  <2>1. t = SnmpPart!Awaited(lastAsked, TRUE) /\ tests \ {t} = {}
    BY <1>5 DEF SnmpInv
  <2>2. t.of = lastAsked /\ t.current
    BY <2>1 DEF SnmpPart!Awaited
  <2> QED
    BY <1>5, <2>1, <2>2 DEF SnmpPart!Answered, SnmpPart!Failed, SnmpInv
<1>6. CASE \/ \E h : SnmpPart!TypeHost(h)
           \/ \E o : SnmpPart!ChooseOid(o) \/ SnmpPart!CatalogueTest(o)
           \/ SnmpPart!AskDevice \/ SnmpPart!DeviceAnswered
  BY <1>1, <1>6 DEF SnmpPart!TypeHost, SnmpPart!ChooseOid, SnmpPart!CatalogueTest,
     SnmpPart!AskDevice, SnmpPart!DeviceAnswered
<1>7. CASE UNCHANGED SnmpPart!vars
  BY <1>1, <1>7 DEF SnmpPart!vars
<1> QED
  BY <1>3, <1>4, <1>5, <1>6, <1>7 DEF SnmpPart!Next

-----------------------------------------------------------------------------
(***************************************************************************)
(* The panel of incidents.                                                 *)
(***************************************************************************)
\* While nobody else changes incident i, the details shown of it are at most
\* one status behind, those under way are between, and one update is.
Near(d, s) == PanelPart!Rank(d) <= PanelPart!Rank(s) /\ PanelPart!Rank(s) <= PanelPart!Rank(d) + 1
Still(i, s, d, r, us) ==
    /\ d # PanelPart!None => Near(d, s)
    /\ r # PanelPart!None =>
         Near(r, s) /\ (d # PanelPart!None => PanelPart!Rank(d) <= PanelPart!Rank(r))
    /\ \A u \in us : u.id = i /\ ~u.done =>
         /\ d # PanelPart!None
         /\ PanelPart!Rank(s) <= PanelPart!Rank(u.to)
         /\ PanelPart!Rank(u.to) <= PanelPart!Rank(d) + 1
    /\ \A u, v \in us : u.id = i /\ v.id = i /\ ~u.done /\ ~v.done => u = v

\* A comment is typed as none is awaited: what is awaited next is that one.
CommentInv ==
    cLate = TRUE \/ uncommented = PanelPart!None \/
        (comment = uncommented /\ \A p \in posts : p.text = uncommented)

PanelInv ==
    /\ PanelPart!PanelTypeOK /\ CommentInv
    /\ \A i \in Incidents :
         disturbed[i] \/ Still(i, status[i], detail[i], reading[i], updates)

LEMMA Ranks ==
    /\ \A s \in PanelPart!Statuses : PanelPart!Rank(s) \in {0, 1, 2}
    /\ PanelPart!Rank("open") = 0 /\ PanelPart!Rank("resolved") = 2
    /\ PanelPart!Rank("acknowledged") = 1 /\ PanelPart!Rank("in_progress") = 1
BY DEF PanelPart!Rank, PanelPart!Statuses

LEMMA PanelTrue == PanelInv => PanelPart!MovesOn /\ PanelPart!CommentKept
<1> SUFFICES ASSUME PanelInv PROVE PanelPart!MovesOn /\ PanelPart!CommentKept
  OBVIOUS
<1>1. ASSUME NEW u \in updates
      PROVE  \/ PanelPart!Rank(status[u.id]) <= PanelPart!Rank(u.to)
             \/ u.done \/ disturbed[u.id]
  <2>1. u.id \in Incidents
    BY DEF PanelInv, PanelPart!PanelTypeOK
  <2>2. disturbed[u.id] \/ Still(u.id, status[u.id], detail[u.id], reading[u.id], updates)
    BY <2>1 DEF PanelInv
  <2> QED
    BY <2>2 DEF Still
<1>2. PanelPart!CommentKept
  BY DEF PanelInv, CommentInv, PanelPart!CommentKept
<1> QED
  BY <1>1, <1>2 DEF PanelPart!MovesOn

LEMMA PanelInit == PanelPart!Init => PanelInv
BY DEF PanelPart!Init, PanelInv, PanelPart!PanelTypeOK, CommentInv, Still

\* What was sent and is settled is of the same incident and status.
LEMMA SettledKeeps ==
    ASSUME PanelPart!PanelTypeOK, incident # PanelPart!None
    PROVE  /\ PanelPart!Settled(updates) \subseteq
                [n : 1 .. MaxSent, asks : Incidents \union {PanelPart!None},
                 id : Incidents, to : PanelPart!Statuses, done : BOOLEAN]
           /\ \A i \in Incidents : \A s, d, r :
                Still(i, s, d, r, updates) => Still(i, s, d, r, PanelPart!Settled(updates))
           /\ PanelPart!Settled(posts) \subseteq
                [n : 1 .. MaxSent, asks : Incidents \union {PanelPart!None}, text : Texts]
           /\ \A m \in PanelPart!Settled(posts) : \E p \in posts : m.text = p.text
<1>1. incident \in Incidents
  BY DEF PanelPart!PanelTypeOK
<1>2. ASSUME NEW u \in PanelPart!Settled(updates)
      PROVE  \E m \in updates :
                u = [m EXCEPT !.asks = IF @ = PanelPart!None THEN incident ELSE @]
  BY <1>2 DEF PanelPart!Settled
<1>3. ASSUME NEW u \in PanelPart!Settled(posts)
      PROVE  \E m \in posts :
                u = [m EXCEPT !.asks = IF @ = PanelPart!None THEN incident ELSE @]
  BY <1>3 DEF PanelPart!Settled
<1>4. PanelPart!Settled(updates) \subseteq
        [n : 1 .. MaxSent, asks : Incidents \union {PanelPart!None},
         id : Incidents, to : PanelPart!Statuses, done : BOOLEAN]
  BY <1>1, <1>2 DEF PanelPart!PanelTypeOK
<1>5. /\ PanelPart!Settled(posts) \subseteq
           [n : 1 .. MaxSent, asks : Incidents \union {PanelPart!None}, text : Texts]
      /\ \A m \in PanelPart!Settled(posts) : \E p \in posts : m.text = p.text
  BY <1>1, <1>3 DEF PanelPart!PanelTypeOK
<1>6. ASSUME NEW i \in Incidents, NEW s, NEW d, NEW r, Still(i, s, d, r, updates)
      PROVE  Still(i, s, d, r, PanelPart!Settled(updates))
  <2>1. ASSUME NEW u \in PanelPart!Settled(updates)
        PROVE  \E m \in updates :
                 /\ u = [m EXCEPT !.asks = IF @ = PanelPart!None THEN incident ELSE @]
                 /\ u.id = m.id /\ u.to = m.to /\ u.done = m.done
    BY <1>2 DEF PanelPart!PanelTypeOK
  <2> QED
    BY <1>6, <2>1 DEF Still
<1> QED
  BY <1>4, <1>5, <1>6

LEMMA PanelTypes ==
    ASSUME PanelPart!PanelTypeOK, [PanelPart!Next]_(PanelPart!vars)
    PROVE  PanelPart!PanelTypeOK'
<1> USE DEF PanelPart!PanelTypeOK
<1> DEFINE Shows == [Incidents -> PanelPart!Statuses \union {PanelPart!None}]
<1>0. /\ detail \in Shows /\ reading \in Shows
      /\ status \in [Incidents -> PanelPart!Statuses]
      /\ disturbed \in [Incidents -> BOOLEAN]
  OBVIOUS
<1>1. CASE \E i \in Incidents \union {PanelPart!None} : PanelPart!Select(i)
  BY <1>1 DEF PanelPart!Select
<1>2. ASSUME NEW i \in Incidents, PanelPart!Read(i) PROVE PanelPart!PanelTypeOK'
  <2>1. reading' = [reading EXCEPT ![i] = status[i]] /\ status[i] \in PanelPart!Statuses
    BY <1>2 DEF PanelPart!Read
  <2>2. reading' \in Shows
    BY <1>0, <2>1
  <2> QED
    BY <1>2, <2>2 DEF PanelPart!Read
<1>9. ASSUME NEW i \in Incidents, PanelPart!Shown(i) PROVE PanelPart!PanelTypeOK'
  <2>1. detail' = [detail EXCEPT ![i] = reading[i]]
        /\ reading' = [reading EXCEPT ![i] = PanelPart!None]
    BY <1>9 DEF PanelPart!Shown
  <2>2. detail' \in Shows /\ reading' \in Shows
    BY <1>0, <2>1
  <2>3. PICK b \in BOOLEAN : disturbed' = [disturbed EXCEPT ![i] = b]
    BY <1>9, Zenon DEF PanelPart!Shown
  <2>4. disturbed' \in [Incidents -> BOOLEAN]
    BY <1>0, <2>3
  <2> QED
    BY <1>9, <2>2, <2>4 DEF PanelPart!Shown
<1>10. ASSUME NEW i \in Incidents, NEW s \in PanelPart!Statuses,
              PanelPart!ChangedElsewhere(i, s)
       PROVE  PanelPart!PanelTypeOK'
  <2>1. status' \in [Incidents -> PanelPart!Statuses] /\ disturbed' \in [Incidents -> BOOLEAN]
    BY <1>0, <1>10 DEF PanelPart!ChangedElsewhere
  <2> QED
    BY <1>10, <2>1 DEF PanelPart!ChangedElsewhere
<1>3. CASE PanelPart!Acknowledge \/ PanelPart!Resolve
  <2>1. PICK from \in {{"open"}, {"acknowledged", "in_progress"}},
             to \in {"acknowledged", "resolved"} : PanelPart!MoveOn(from, to)
    BY <1>3 DEF PanelPart!Acknowledge, PanelPart!Resolve
  <2>2. incident # PanelPart!None /\ incident \in Incidents /\ to \in PanelPart!Statuses
    BY <2>1 DEF PanelPart!MoveOn, PanelPart!Statuses
  <2>3. updates' \subseteq
          [n : 1 .. MaxSent, asks : Incidents \union {PanelPart!None},
           id : Incidents, to : PanelPart!Statuses, done : BOOLEAN]
    <3>1. PICK n \in 1 .. MaxSent :
             updates' = PanelPart!Settled(updates) \union
               {[n |-> n, asks |-> PanelPart!None, id |-> incident, to |-> to, done |-> FALSE]}
      BY <2>1 DEF PanelPart!MoveOn, PanelPart!Free
    <3>2. PanelPart!Settled(updates) \subseteq
            [n : 1 .. MaxSent, asks : Incidents \union {PanelPart!None},
             id : Incidents, to : PanelPart!Statuses, done : BOOLEAN]
      <4> HIDE DEF PanelPart!PanelTypeOK
      <4> QED
        BY <2>2, SettledKeeps
    <3>3. [n |-> n, asks |-> PanelPart!None, id |-> incident, to |-> to, done |-> FALSE]
            \in [n : 1 .. MaxSent, asks : Incidents \union {PanelPart!None},
                 id : Incidents, to : PanelPart!Statuses, done : BOOLEAN]
      BY <2>2
    <3> HIDE DEF PanelPart!PanelTypeOK
    <3> QED
      BY <3>1, <3>2, <3>3
  <2>4. disturbed' \in [Incidents -> BOOLEAN]
    <3>1. disturbed' = [disturbed EXCEPT ![incident] = @ \/ PanelPart!Pending(incident) # {}]
      BY <2>1 DEF PanelPart!MoveOn
    <3>2. (disturbed[incident] \/ PanelPart!Pending(incident) # {}) \in BOOLEAN
      BY Zenon
    <3> QED
      BY <1>0, <3>1, <3>2
  <2> QED
    BY <2>1, <2>3, <2>4 DEF PanelPart!MoveOn
<1>4. ASSUME NEW u \in updates,
             PanelPart!Applied(u) \/ PanelPart!Updated(u) \/ PanelPart!UpdateFailed(u)
      PROVE  PanelPart!PanelTypeOK'
  <2>1. CASE PanelPart!Applied(u)
    <3>1. status' = [status EXCEPT ![u.id] = u.to]
          /\ updates' = (updates \ {u}) \union {[u EXCEPT !.done = TRUE]}
      BY <2>1 DEF PanelPart!Applied
    <3>2. status' \in [Incidents -> PanelPart!Statuses]
      BY <1>0, <3>1
    <3> QED
      BY <2>1, <3>1, <3>2 DEF PanelPart!Applied
  <2>2. CASE PanelPart!Updated(u)
    <3>1. reading' \in Shows
      BY <1>0, <2>2 DEF PanelPart!Updated, PanelPart!AskAnew
    <3> QED
      BY <2>2, <3>1 DEF PanelPart!Updated
  <2> QED
    BY <1>4, <2>1, <2>2 DEF PanelPart!UpdateFailed
<1>5. CASE \E text \in Texts \union {PanelPart!None} : PanelPart!TypeComment(text)
  BY <1>5 DEF PanelPart!TypeComment
<1>6. CASE PanelPart!SendComment
  <2>1. posts' \subseteq
          [n : 1 .. MaxSent, asks : Incidents \union {PanelPart!None}, text : Texts]
    BY <1>6, SettledKeeps DEF PanelPart!SendComment, PanelPart!Free
  <2> QED
    BY <1>6, <2>1 DEF PanelPart!SendComment, PanelPart!AsSent
<1>7. CASE \E p \in posts : PanelPart!Commented(p) \/ PanelPart!CommentFailed(p)
  BY <1>7 DEF PanelPart!Commented, PanelPart!CommentFailed, PanelPart!AskAnew
<1>8. CASE UNCHANGED PanelPart!vars
  BY <1>8 DEF PanelPart!vars
<1> QED
  BY <1>1, <1>2, <1>3, <1>4, <1>5, <1>6, <1>7, <1>8, <1>9, <1>10 DEF PanelPart!Next

LEMMA CommentStep ==
    ASSUME PanelPart!PanelTypeOK, CommentInv, [PanelPart!Next]_(PanelPart!vars)
    PROVE  CommentInv'
<1>1. CASE UNCHANGED <<comment, posts, uncommented, cLate>>
  BY <1>1 DEF CommentInv
<1>2. CASE \E text \in Texts \union {PanelPart!None} : PanelPart!TypeComment(text)
  BY <1>2 DEF PanelPart!TypeComment, CommentInv
<1>3. CASE PanelPart!SendComment
  <2>1. incident # PanelPart!None /\ UNCHANGED <<comment, uncommented, cLate>>
    BY <1>3 DEF PanelPart!SendComment, PanelPart!AsSent
  <2>2. \A m \in posts' : m.text = comment \/ \E p \in posts : m.text = p.text
    BY <1>3, <2>1, SettledKeeps DEF PanelPart!SendComment
  <2> QED
    BY <2>1, <2>2 DEF CommentInv
<1>4. CASE \E p \in posts : PanelPart!Commented(p) \/ PanelPart!CommentFailed(p)
  BY <1>4 DEF PanelPart!Commented, PanelPart!CommentFailed, CommentInv
<1> QED
  BY <1>1, <1>2, <1>3, <1>4 DEF PanelPart!Next, PanelPart!vars, PanelPart!Select,
     PanelPart!Read, PanelPart!Shown, PanelPart!ChangedElsewhere, PanelPart!Acknowledge,
     PanelPart!Resolve, PanelPart!MoveOn, PanelPart!Applied, PanelPart!Updated,
     PanelPart!UpdateFailed

\* What a button sends is one status after the one shown.
LEMMA StillMoves ==
    ASSUME PanelPart!PanelTypeOK, NEW i \in Incidents,
           disturbed[i] \/ Still(i, status[i], detail[i], reading[i], updates),
           PanelPart!Acknowledge \/ PanelPart!Resolve, ~disturbed'[i]
    PROVE  Still(i, status[i], detail[i], reading[i], updates')
<1>1. PICK from \in {{"open"}, {"acknowledged", "in_progress"}},
           to \in {"acknowledged", "resolved"} :
         /\ PanelPart!MoveOn(from, to)
         /\ \A s \in from : PanelPart!Rank(to) = PanelPart!Rank(s) + 1
  BY Ranks DEF PanelPart!Acknowledge, PanelPart!Resolve
<1>2. incident \in Incidents /\ incident # PanelPart!None
      /\ disturbed \in [Incidents -> BOOLEAN]
      /\ PanelPart!Rank(to) = PanelPart!Rank(detail[incident]) + 1
      /\ PanelPart!DetailOf(incident) \in from
  BY <1>1 DEF PanelPart!MoveOn, PanelPart!DetailOf, PanelPart!PanelTypeOK
<1>3. disturbed' = [disturbed EXCEPT ![incident] = @ \/ PanelPart!Pending(incident) # {}]
  BY <1>1 DEF PanelPart!MoveOn
<1>4. ~disturbed[i] /\ (i = incident => PanelPart!Pending(incident) = {})
  BY <1>2, <1>3
<1>5. Still(i, status[i], detail[i], reading[i], PanelPart!Settled(updates))
  BY <1>2, <1>4, SettledKeeps
<1>6. PICK n : updates' = PanelPart!Settled(updates) \union
         {[n |-> n, asks |-> PanelPart!None, id |-> incident, to |-> to, done |-> FALSE]}
  BY <1>1 DEF PanelPart!MoveOn
<1>7. CASE i # incident
  BY <1>5, <1>6, <1>7 DEF Still
<1>8. CASE i = incident
  <2>1. \A u \in PanelPart!Settled(updates) : u.id = i => u.done
    <3>1. \A m \in updates : m.id = i => m.done
      BY <1>4, <1>8 DEF PanelPart!Pending
    <3>2. ASSUME NEW u \in PanelPart!Settled(updates)
          PROVE  \E m \in updates : u.id = m.id /\ u.done = m.done
      BY <3>2 DEF PanelPart!Settled, PanelPart!PanelTypeOK
    <3> QED
      BY <3>1, <3>2
  <2>2. detail[i] # PanelPart!None
    BY <1>1, <1>2, <1>8 DEF PanelPart!DetailOf, PanelPart!None
  <2>3. PanelPart!Rank(status[i]) <= PanelPart!Rank(to)
    BY <1>2, <1>5, <1>8, <2>2 DEF Still, Near
  <2>4. PanelPart!Rank(to) <= PanelPart!Rank(detail[i]) + 1
    BY <1>1, <1>2, <1>8, Ranks DEF PanelPart!Statuses
  <2>5. \A u \in updates' : u.id = i /\ ~u.done =>
            u.to = to /\ u = [n |-> n, asks |-> PanelPart!None, id |-> incident, to |-> to,
                             done |-> FALSE]
    BY <1>6, <2>1
  <2> QED
    BY <1>5, <2>2, <2>3, <2>4, <2>5 DEF Still
<1> QED
  BY <1>7, <1>8

LEMMA PanelStep ==
    ASSUME PanelInv, [PanelPart!Next]_(PanelPart!vars)
    PROVE  PanelInv'
<1> DEFINE Shows == [Incidents -> PanelPart!Statuses \union {PanelPart!None}]
<1>0. /\ PanelPart!PanelTypeOK /\ CommentInv
      /\ status \in [Incidents -> PanelPart!Statuses]
      /\ detail \in Shows /\ reading \in Shows
      /\ disturbed \in [Incidents -> BOOLEAN]
      /\ updates \subseteq [n : 1 .. MaxSent, asks : Incidents \union {PanelPart!None},
                            id : Incidents, to : PanelPart!Statuses, done : BOOLEAN]
  BY DEF PanelInv, PanelPart!PanelTypeOK
<1>1. PanelPart!PanelTypeOK' /\ CommentInv'
  BY <1>0, PanelTypes, CommentStep
<1> SUFFICES ASSUME NEW i \in Incidents, ~disturbed'[i]
             PROVE  Still(i, status[i], detail[i], reading[i], updates)'
  BY <1>1 DEF PanelInv
<1>2. disturbed[i] \/ Still(i, status[i], detail[i], reading[i], updates)
  BY DEF PanelInv
<1>3. \A s \in PanelPart!Statuses : PanelPart!Rank(s) \in {0, 1, 2} /\ s # PanelPart!None
  BY Ranks DEF PanelPart!Statuses, PanelPart!None
<1>4. CASE UNCHANGED <<status, detail, reading, updates, disturbed>>
  BY <1>2, <1>4
<1>5. ASSUME NEW j \in Incidents, PanelPart!Read(j)
      PROVE  Still(i, status[i], detail[i], reading[i], updates)'
  <2>1. reading' = [reading EXCEPT ![j] = status[j]]
        /\ UNCHANGED <<status, detail, updates, disturbed>>
    BY <1>5 DEF PanelPart!Read
  <2>2. CASE j # i
    BY <1>0, <1>2, <2>1, <2>2
  <2>3. CASE j = i
    <3>1. reading'[i] = status[i]
      BY <1>0, <2>1, <2>3
    <3> QED
      BY <1>0, <1>2, <1>3, <2>1, <3>1 DEF Still, Near
  <2> QED
    BY <2>2, <2>3
<1>6. ASSUME NEW j \in Incidents, PanelPart!Shown(j)
      PROVE  Still(i, status[i], detail[i], reading[i], updates)'
  <2>1. /\ reading[j] # PanelPart!None
        /\ detail' = [detail EXCEPT ![j] = reading[j]]
        /\ reading' = [reading EXCEPT ![j] = PanelPart!None]
        /\ UNCHANGED <<status, updates>>
    BY <1>6 DEF PanelPart!Shown
  <2>2. disturbed' = [disturbed EXCEPT
           ![j] = @ /\ (reading[j] # status[j] \/ PanelPart!Pending(j) # {})]
    BY <1>6 DEF PanelPart!Shown
  <2>3. CASE j # i
    BY <1>0, <1>2, <2>1, <2>2, <2>3
  <2>4. CASE j = i
    <3>1. detail'[i] = reading[i] /\ reading'[i] = PanelPart!None
      BY <1>0, <2>1, <2>4
    <3>2. CASE Still(i, status[i], detail[i], reading[i], updates)
      BY <1>0, <1>3, <2>1, <2>4, <3>1, <3>2 DEF Still, Near
    <3>3. CASE disturbed[i]
      <4>1. reading[i] = status[i] /\ PanelPart!Pending(i) = {}
        BY <1>0, <2>2, <2>4, <3>3
      <4>2. \A u \in updates : u.id = i => u.done
        BY <4>1 DEF PanelPart!Pending
      <4> QED
        BY <1>0, <1>3, <2>1, <3>1, <4>1, <4>2 DEF Still, Near
    <3> QED
      BY <1>2, <3>2, <3>3
  <2> QED
    BY <2>3, <2>4
<1>7. ASSUME NEW j \in Incidents, NEW s \in PanelPart!Statuses,
             PanelPart!ChangedElsewhere(j, s)
      PROVE  Still(i, status[i], detail[i], reading[i], updates)'
  <2>1. /\ status' = [status EXCEPT ![j] = s]
        /\ disturbed' = [disturbed EXCEPT ![j] = TRUE]
        /\ UNCHANGED <<detail, reading, updates>>
    BY <1>7 DEF PanelPart!ChangedElsewhere
  <2> QED
    BY <1>0, <1>2, <2>1
<1>8. CASE PanelPart!Acknowledge \/ PanelPart!Resolve
  <2>1. UNCHANGED <<status, detail, reading>>
    BY <1>8 DEF PanelPart!Acknowledge, PanelPart!Resolve, PanelPart!MoveOn
  <2> QED
    BY <1>0, <1>2, <1>8, <2>1, StillMoves
<1>9. ASSUME NEW u \in updates, PanelPart!Applied(u)
      PROVE  Still(i, status[i], detail[i], reading[i], updates)'
  <2>1. /\ ~u.done /\ status' = [status EXCEPT ![u.id] = u.to]
        /\ updates' = (updates \ {u}) \union {[u EXCEPT !.done = TRUE]}
        /\ UNCHANGED <<detail, reading, disturbed>>
    BY <1>9 DEF PanelPart!Applied
  <2>2. Still(i, status[i], detail[i], reading[i], updates)
    BY <1>2, <2>1
  <2>3. [u EXCEPT !.done = TRUE].done /\ u.id \in Incidents /\ u.to \in PanelPart!Statuses
    BY <1>0
  <2>4. CASE u.id # i
    <3>1. status'[i] = status[i]
      BY <1>0, <2>1, <2>4
    <3> QED
      BY <2>1, <2>2, <2>3, <3>1 DEF Still
  <2>5. CASE u.id = i
    <3>1. status'[i] = u.to
      BY <1>0, <2>1, <2>3, <2>5
    <3>2. \A v \in updates' : v.id = i => v.done
      BY <2>1, <2>2, <2>3, <2>5 DEF Still
    <3>3. /\ detail[i] # PanelPart!None
          /\ PanelPart!Rank(status[i]) <= PanelPart!Rank(u.to)
          /\ PanelPart!Rank(u.to) <= PanelPart!Rank(detail[i]) + 1
      BY <2>1, <2>2, <2>5 DEF Still
    <3>4. detail[i] \in PanelPart!Statuses /\ status[i] \in PanelPart!Statuses
      BY <1>0, <3>3
    <3>5. Near(detail[i], u.to)
      BY <1>3, <2>2, <2>3, <3>3, <3>4 DEF Still, Near
    <3>6. reading[i] # PanelPart!None =>
            /\ Near(reading[i], u.to)
            /\ PanelPart!Rank(detail[i]) <= PanelPart!Rank(reading[i])
      <4> SUFFICES ASSUME reading[i] # PanelPart!None
                   PROVE  /\ Near(reading[i], u.to)
                          /\ PanelPart!Rank(detail[i]) <= PanelPart!Rank(reading[i])
        OBVIOUS
      <4>1. reading[i] \in PanelPart!Statuses
        BY <1>0
      <4> QED
        BY <1>3, <2>2, <2>3, <3>3, <3>4, <4>1 DEF Still, Near
    <3> QED
      BY <2>1, <3>1, <3>2, <3>5, <3>6 DEF Still
  <2> QED
    BY <2>4, <2>5
<1>10. ASSUME updates' \subseteq updates, UNCHANGED <<status, detail, disturbed>>,
              reading'[i] \in {reading[i], PanelPart!None}
       PROVE  Still(i, status[i], detail[i], reading[i], updates)'
  BY <1>2, <1>10 DEF Still
<1>11. ASSUME NEW u \in updates, PanelPart!Updated(u) \/ PanelPart!UpdateFailed(u)
       PROVE  Still(i, status[i], detail[i], reading[i], updates)'
  BY <1>10, <1>11 DEF PanelPart!Updated, PanelPart!UpdateFailed, PanelPart!AskAnew
<1>12. CASE \E p \in posts : PanelPart!Commented(p)
  BY <1>10, <1>12 DEF PanelPart!Commented, PanelPart!AskAnew
<1>13. CASE \/ \E j \in Incidents \union {PanelPart!None} : PanelPart!Select(j)
            \/ \E text \in Texts \union {PanelPart!None} : PanelPart!TypeComment(text)
            \/ PanelPart!SendComment
            \/ \E p \in posts : PanelPart!CommentFailed(p)
            \/ UNCHANGED PanelPart!vars
  BY <1>4, <1>13 DEF PanelPart!Select, PanelPart!TypeComment, PanelPart!SendComment,
     PanelPart!CommentFailed, PanelPart!vars
<1> QED
  BY <1>5, <1>6, <1>7, <1>8, <1>9, <1>11, <1>12, <1>13 DEF PanelPart!Next

-----------------------------------------------------------------------------
(***************************************************************************)
(* The forms that add a row.                                               *)
(***************************************************************************)
\* A row whose answer was shown is of an opening before the form's, and before
\* the one that awaits a row.
RowsInv ==
    /\ opening \in Nat /\ creating.row \in Nat /\ creating.opening \in Nat
    /\ creating = [row |-> creating.row, opening |-> creating.opening, text |-> creating.text]
    /\ creating.opening <= opening
    /\ \A r \in rows :
         /\ r = NewRowPart!Row(r.id, r.opening, r.ended)
         /\ r.id \in Nat \ {0} /\ r.opening \in Nat /\ r.opening <= opening
         /\ r.ended \in {"awaited", "told", "lost"}
         /\ (r.ended = "awaited") <=> (r.id = creating.row)
         /\ r.ended = "awaited" => r.opening = creating.opening
         /\ r.ended = "told" =>
              /\ showForm = TRUE => r.opening < opening
              /\ creating # NewRowPart!None => r.opening < creating.opening
    /\ \A r, s \in rows : r.id = s.id => r = s
    /\ NewRowPart!OneRowPerOpening

\* What is typed as no row is awaited is what is sent next.
DraftInv ==
    late = TRUE \/ unsaved = NewRowPart!Empty \/
        (draft = unsaved /\ (creating # NewRowPart!None => creating.text = unsaved))

NewRowInv == RowsInv /\ DraftInv

LEMMA NewRowTrue == NewRowInv => NewRowPart!OneRowPerOpening /\ NewRowPart!DraftKept
BY DEF NewRowInv, RowsInv, DraftInv, NewRowPart!DraftKept

LEMMA NewRowInit == NewRowPart!Init => NewRowInv
<1> SUFFICES ASSUME NewRowPart!Init PROVE NewRowInv
  OBVIOUS
<1>1. /\ creating.row = 0 /\ creating.opening = 0 /\ opening = 0 /\ rows = {}
      /\ creating = [row |-> creating.row, opening |-> creating.opening,
                     text |-> creating.text]
  BY DEF NewRowPart!Init, NewRowPart!None
<1>2. RowsInv
  BY <1>1 DEF RowsInv, NewRowPart!OneRowPerOpening
<1> QED
  BY <1>2 DEF NewRowPart!Init, NewRowInv, DraftInv

LEMMA DraftStep ==
    ASSUME DraftInv, [NewRowPart!Next]_(NewRowPart!vars)
    PROVE  DraftInv'
<1>1. CASE UNCHANGED <<draft, creating, unsaved, late>>
  BY <1>1 DEF DraftInv
<1>2. CASE \E text \in Texts \union {NewRowPart!Empty} : NewRowPart!Type(text)
  <2>1. late' = (creating # NewRowPart!None) /\ draft' = unsaved' /\ creating' = creating
    BY <1>2 DEF NewRowPart!Type
  <2> QED
    BY <2>1 DEF DraftInv
<1>3. CASE NewRowPart!Create
  <2>1. creating'.text = draft /\ draft' = draft /\ UNCHANGED <<unsaved, late>>
    BY <1>3 DEF NewRowPart!Create, NewRowPart!Sent
  <2> QED
    BY <2>1 DEF DraftInv
<1>4. CASE NewRowPart!Made
  <2>1. creating # NewRowPart!None /\ UNCHANGED <<draft, unsaved, late>>
        /\ \E id : creating' = [creating EXCEPT !.row = id]
    BY <1>4 DEF NewRowPart!Made
  <2>2. creating'.text = creating.text
    BY <2>1
  <2> QED
    BY <2>1, <2>2 DEF DraftInv
<1>5. CASE NewRowPart!Created
  BY <1>5 DEF NewRowPart!Created, DraftInv
<1>6. CASE NewRowPart!CreateFailed
  BY <1>6 DEF NewRowPart!CreateFailed, DraftInv
<1> QED
  BY <1>1, <1>2, <1>3, <1>4, <1>5, <1>6 DEF NewRowPart!Next, NewRowPart!vars,
     NewRowPart!OtherTab, NewRowPart!Open, NewRowPart!Close, NewRowPart!DismissKey

\* The answer awaited ends, and with it no other row's.
LEMMA RowEnds ==
    ASSUME RowsInv, NEW how \in {"told", "lost"},
           rows' = NewRowPart!Ended(how), creating' = NewRowPart!None, opening' = opening,
           how = "told" => creating # NewRowPart!None /\ showForm' = FALSE,
           showForm' \in {showForm, FALSE}
    PROVE  RowsInv'
<1>1. /\ creating'.row = 0 /\ creating'.opening = 0
      /\ creating' = [row |-> creating'.row, opening |-> creating'.opening,
                      text |-> creating'.text]
  BY DEF NewRowPart!None
<1>2. ASSUME NEW x \in rows'
      PROVE  \E r \in rows :
               /\ x = NewRowPart!Row(x.id, x.opening, x.ended)
               /\ x.id = r.id /\ x.opening = r.opening
               /\ x.ended = IF r.ended = "awaited" THEN how ELSE r.ended
  <2>1. PICK r \in rows : x = IF r.id = creating.row THEN [r EXCEPT !.ended = how] ELSE r
    BY <1>2 DEF NewRowPart!Ended
  <2>2. /\ r = NewRowPart!Row(r.id, r.opening, r.ended)
        /\ (r.ended = "awaited") <=> (r.id = creating.row)
    BY DEF RowsInv
  <2> QED
    BY <2>1, <2>2 DEF NewRowPart!Row
<1>3. ASSUME NEW x \in rows'
      PROVE  /\ x = NewRowPart!Row(x.id, x.opening, x.ended)
             /\ x.id \in Nat \ {0} /\ x.opening \in Nat /\ x.opening <= opening'
             /\ x.ended \in {"told", "lost"}
             /\ x.ended = "told" /\ showForm' = TRUE => x.opening < opening'
  BY <1>2 DEF RowsInv
<1>4. ASSUME NEW x \in rows', NEW y \in rows', x.id = y.id PROVE x = y
  <2>1. PICK r \in rows :
          /\ x = NewRowPart!Row(x.id, x.opening, x.ended)
          /\ x.id = r.id /\ x.opening = r.opening
          /\ x.ended = IF r.ended = "awaited" THEN how ELSE r.ended
    BY <1>2
  <2>2. PICK s \in rows :
          /\ y = NewRowPart!Row(y.id, y.opening, y.ended)
          /\ y.id = s.id /\ y.opening = s.opening
          /\ y.ended = IF s.ended = "awaited" THEN how ELSE s.ended
    BY <1>2
  <2>3. r = s
    BY <1>4, <2>1, <2>2 DEF RowsInv
  <2> QED
    BY <1>4, <2>1, <2>2, <2>3
<1>5. ASSUME NEW x \in rows', NEW y \in rows', x.opening = y.opening, x.id # y.id
      PROVE  "lost" \in {x.ended, y.ended}
  <2>1. PICK r \in rows :
          /\ x.id = r.id /\ x.opening = r.opening
          /\ x.ended = IF r.ended = "awaited" THEN how ELSE r.ended
    BY <1>2
  <2>2. PICK s \in rows :
          /\ y.id = s.id /\ y.opening = s.opening
          /\ y.ended = IF s.ended = "awaited" THEN how ELSE s.ended
    BY <1>2
  <2>3. "lost" \in {r.ended, s.ended}
    BY <1>5, <2>1, <2>2 DEF RowsInv, NewRowPart!OneRowPerOpening
  <2> QED
    BY <2>1, <2>2, <2>3
<1>6. opening \in Nat
  BY DEF RowsInv
<1>7. NewRowPart!OneRowPerOpening'
  BY <1>5 DEF NewRowPart!OneRowPerOpening
<1>8. \A x \in rows' : x.ended # "awaited" /\ x.id # creating'.row
  BY <1>1, <1>3
<1>9. \A x \in rows' :
        /\ x = NewRowPart!Row(x.id, x.opening, x.ended)
        /\ x.id \in Nat \ {0} /\ x.opening \in Nat /\ x.opening <= opening'
        /\ x.ended \in {"awaited", "told", "lost"}
        /\ (x.ended = "awaited") <=> (x.id = creating'.row)
        /\ x.ended = "awaited" => x.opening = creating'.opening
        /\ x.ended = "told" =>
             /\ showForm' = TRUE => x.opening < opening'
             /\ creating' # NewRowPart!None => x.opening < creating'.opening
  BY <1>3, <1>8
<1> QED
  BY <1>1, <1>4, <1>6, <1>7, <1>9 DEF RowsInv

LEMMA RowsStep ==
    ASSUME RowsInv, [NewRowPart!Next]_(NewRowPart!vars)
    PROVE  RowsInv'
<1>1. CASE UNCHANGED <<creating, rows, opening>> /\ showForm' \in {showForm, FALSE}
  BY <1>1 DEF RowsInv, NewRowPart!OneRowPerOpening
<1>2. CASE NewRowPart!Open
  <2>1. UNCHANGED <<creating, rows>> /\ opening' = IF showForm THEN opening ELSE opening + 1
    BY <1>2 DEF NewRowPart!Open
  <2>2. CASE showForm = TRUE
    BY <2>1, <2>2 DEF RowsInv, NewRowPart!OneRowPerOpening
  <2>3. CASE opening' = opening + 1
    BY <2>1, <2>3 DEF RowsInv, NewRowPart!OneRowPerOpening
  <2>4. CASE opening' = opening /\ showForm
    BY <2>1, <2>4, <1>1 DEF RowsInv, NewRowPart!OneRowPerOpening
  <2> QED
    BY <2>1, <2>2, <2>3, <2>4
<1>3. CASE NewRowPart!Create
  <2>1. /\ showForm /\ creating = NewRowPart!None /\ UNCHANGED <<rows, opening, showForm>>
        /\ creating' = [row |-> 0, opening |-> opening, text |-> draft]
    BY <1>3 DEF NewRowPart!Create, NewRowPart!Pressable
  <2>2. creating.row = 0 /\ creating'.row = 0 /\ creating'.opening = opening
        /\ creating' = [row |-> creating'.row, opening |-> creating'.opening,
                        text |-> creating'.text]
    BY <2>1 DEF NewRowPart!None
  <2> QED
    BY <2>1, <2>2 DEF RowsInv, NewRowPart!OneRowPerOpening
<1>4. CASE NewRowPart!Made
  <2>1. PICK id \in 1 .. MaxMade :
          /\ \A r \in rows : r.id < id
          /\ rows' = rows \union {NewRowPart!Row(id, creating.opening, "awaited")}
          /\ creating' = [creating EXCEPT !.row = id]
    BY <1>4 DEF NewRowPart!Made
  <2>2. creating # NewRowPart!None /\ creating.row = 0 /\ UNCHANGED <<opening, showForm>>
    BY <1>4 DEF NewRowPart!Made
  <2>3. /\ creating'.row = id /\ creating'.opening = creating.opening
        /\ creating' = [row |-> creating'.row, opening |-> creating'.opening,
                        text |-> creating'.text]
    BY <2>1 DEF RowsInv
  <2>4. id \in Nat \ {0}
    BY <2>1, MadeAssumption
  <2> DEFINE new == NewRowPart!Row(id, creating.opening, "awaited")
  <2>5. /\ new.id = id /\ new.opening = creating.opening /\ new.ended = "awaited"
        /\ new = NewRowPart!Row(new.id, new.opening, new.ended)
    BY DEF NewRowPart!Row
  <2> HIDE DEF new
  <2>6. \A r \in rows :
          /\ r.ended \in {"told", "lost"} /\ r.id # id
          /\ r.ended = "told" => r.opening < creating.opening
          /\ r.opening = creating.opening => r.ended = "lost"
    BY <2>1, <2>2, <2>4 DEF RowsInv
  <2>7. \A r \in rows' : r \in rows \/ r = new
    BY <2>1 DEF new
  <2>8. \A r \in rows' :
         /\ r = NewRowPart!Row(r.id, r.opening, r.ended)
         /\ r.id \in Nat \ {0} /\ r.opening \in Nat /\ r.opening <= opening'
         /\ r.ended \in {"awaited", "told", "lost"}
         /\ (r.ended = "awaited") <=> (r.id = creating'.row)
         /\ r.ended = "awaited" => r.opening = creating'.opening
         /\ r.ended = "told" =>
              /\ showForm' = TRUE => r.opening < opening'
              /\ creating' # NewRowPart!None => r.opening < creating'.opening
    BY <2>2, <2>3, <2>4, <2>5, <2>6, <2>7 DEF RowsInv
  <2>9. \A r, s \in rows' : r.id = s.id => r = s
    BY <2>5, <2>6, <2>7 DEF RowsInv
  <2>10. NewRowPart!OneRowPerOpening'
    BY <2>5, <2>6, <2>7 DEF RowsInv, NewRowPart!OneRowPerOpening
  <2> QED
    BY <2>2, <2>3, <2>4, <2>8, <2>9, <2>10 DEF RowsInv
<1>5. CASE NewRowPart!Created
  BY <1>5, RowEnds DEF NewRowPart!Created
<1>6. CASE NewRowPart!CreateFailed
  BY <1>6, RowEnds DEF NewRowPart!CreateFailed
<1> QED
  BY <1>1, <1>2, <1>3, <1>4, <1>5, <1>6 DEF NewRowPart!Next, NewRowPart!vars,
     NewRowPart!OtherTab, NewRowPart!Close, NewRowPart!Type, NewRowPart!DismissKey

LEMMA NewRowStep ==
    ASSUME NewRowInv, [NewRowPart!Next]_(NewRowPart!vars)
    PROVE  NewRowInv'
BY RowsStep, DraftStep DEF NewRowInv

-----------------------------------------------------------------------------
(***************************************************************************)
(* The pages.                                                              *)
(***************************************************************************)
\* One page is open; what it does leaves the others as they are.
LEMMA PagesApart ==
    ASSUME [MCNext]_allVars
    PROVE  /\ [Next]_vars
           /\ [AssetPart!Next]_(AssetPart!vars) /\ [MonitorPart!Next]_(MonitorPart!vars)
           /\ [DeployPart!Next]_(DeployPart!vars) /\ [CsvPart!Next]_(CsvPart!vars)
           /\ [ScanPart!Next]_(ScanPart!vars) /\ [SnmpPart!Next]_(SnmpPart!vars)
           /\ [PanelPart!Next]_(PanelPart!vars) /\ [NewRowPart!Next]_(NewRowPart!vars)
           /\ [PalettePart!Next]_(PalettePart!vars) /\ [ChartPart!Next]_(ChartPart!vars)
<1> USE DEF assetVars, monitorVars, deployVars, csvVars, scanVars, snmpVars, formVars,
            discoveryVars, panelVars, newRowVars, otherVars, paletteVars, chartVars,
            PalettePart!vars, ChartPart!vars, PanelPart!vars,
            NewRowPart!vars, AssetPart!vars, MonitorPart!vars, DeployPart!vars,
            CsvPart!vars, ScanPart!vars, SnmpPart!vars
<1>1. UNCHANGED formVars =>
        /\ UNCHANGED AssetPart!vars /\ UNCHANGED MonitorPart!vars
        /\ UNCHANGED DeployPart!vars /\ UNCHANGED CsvPart!vars
  OBVIOUS
<1>2. UNCHANGED discoveryVars => UNCHANGED ScanPart!vars /\ UNCHANGED SnmpPart!vars
  OBVIOUS
<1>7. /\ UNCHANGED panelVars => UNCHANGED PanelPart!vars
      /\ UNCHANGED newRowVars => UNCHANGED NewRowPart!vars
      /\ UNCHANGED paletteVars => UNCHANGED PalettePart!vars
      /\ UNCHANGED chartVars => UNCHANGED ChartPart!vars
  OBVIOUS
<1>3. CASE UNCHANGED allVars
  BY <1>1, <1>2, <1>3, <1>7 DEF allVars
<1>4. CASE LiveAlone /\ Next
  BY <1>4 DEF LiveAlone
<1>5. CASE MCNext /\ ~(LiveAlone /\ Next)
  BY <1>5 DEF MCNext
<1> QED
  BY <1>3, <1>4, <1>5

\* What every form, wizard and tab of the pages keeps of its own.
PagesInv ==
    /\ AssetInv /\ MonitorInv /\ DeployInv /\ CsvInv /\ ScanTabInv /\ SnmpInv
    /\ PanelInv /\ NewRowInv

\* The forms of the pages save the row they name but for what the user changed,
\* send what fits together, and show an answer beside the question it answers
\* unless that was changed meanwhile; the panel of incidents moves none back, what
\* is typed stays until it is saved, and one opening of a form makes one row - for
\* any rows, texts, hosts and answers, and any number of requests under way.
THEOREM FormsKeep == MCSpec => []FormsTrue
<1>1. MCInit => PagesInv
  BY AssetInit, MonitorInit, DeployInit, CsvInit, ScanTabInit, SnmpInit, PanelInit,
     NewRowInit DEF MCInit, PagesInv
<1>2. PagesInv /\ [MCNext]_allVars => PagesInv'
  BY PagesApart, AssetStep, MonitorStep, DeployStep, CsvStep, ScanTabStep, SnmpStep,
     PanelStep, NewRowStep DEF PagesInv
<1>3. PagesInv => FormsTrue
  BY AssetTrue, MonitorTrue, DeployTrue, PanelTrue, NewRowTrue
     DEF PagesInv, FormsTrue, CsvInv, ScanTabInv, SnmpInv, SnmpPart!LastAnswerShown
<1> QED
  BY <1>1, <1>2, <1>3, PTL DEF MCSpec

-----------------------------------------------------------------------------
(***************************************************************************)
(* Types of the lists.                                                     *)
(***************************************************************************)
\* Data that is about to change is not at its bound.
LiveTypes == /\ LiveTypeOK
             /\ fetch = [state |-> fetch.state, read |-> fetch.read, tries |-> fetch.tries]
             /\ mut = "sent" => server <= MaxVersion

LEMMA LiveTypesInit == Init => LiveTypes
<1>1. /\ NoFetch.state = "idle" /\ NoFetch.read = 0 /\ NoFetch.tries = 0
      /\ NoFetch = [state |-> NoFetch.state, read |-> NoFetch.read, tries |-> NoFetch.tries]
  BY DEF NoFetch
<1> QED BY <1>1, LiveAssumption DEF Init, LiveTypes, LiveTypeOK

\* A request that is of its type, whatever becomes of it.
Fetching(f) ==
    /\ f = [state |-> f.state, read |-> f.read, tries |-> f.tries]
    /\ f.state \in {"idle", "sent", "read"} /\ f.read \in 0 .. MaxVersion + 1
    /\ f.tries \in 0 .. 1

LEMMA Fetches ==
    /\ Fetching(NoFetch) /\ Fetching(Started)
    /\ \A f, v : Fetching(f) /\ v \in 0 .. MaxVersion + 1
          => Fetching([f EXCEPT !.state = "read", !.read = v])
    /\ \A n \in 0 .. 1 : Fetching([Started EXCEPT !.tries = n])
<1>1. Fetching(NoFetch) /\ Fetching(Started)
  BY LiveAssumption DEF Fetching, NoFetch, Started
<1>2. ASSUME NEW f, NEW v \in 0 .. MaxVersion + 1, Fetching(f)
      PROVE  Fetching([f EXCEPT !.state = "read", !.read = v])
  <2>1. PICK g : g = [f EXCEPT !.state = "read", !.read = v]
    OBVIOUS
  <2>2. DOMAIN f = {"state", "read", "tries"} /\ f.tries \in 0 .. 1
    BY <1>2 DEF Fetching
  <2>3. g = [state |-> "read", read |-> v, tries |-> f.tries]
    BY <2>1, <2>2, Zenon
  <2> QED BY <2>1, <2>2, <2>3 DEF Fetching
<1>3. ASSUME NEW n \in 0 .. 1 PROVE Fetching([Started EXCEPT !.tries = n])
  <2>1. [Started EXCEPT !.tries = n] = [state |-> "sent", read |-> 0, tries |-> n]
    BY DEF Started
  <2> QED BY <2>1, LiveAssumption DEF Fetching
<1> QED BY <1>1, <1>2, <1>3

LEMMA LiveTypesStep ==
    ASSUME LiveTypes, [Next]_vars
    PROVE  LiveTypes'
<1>0. /\ Fetching(fetch) /\ MaxVersion \in Nat /\ MaxFailures \in Nat \ {0}
      /\ {server, data, own} \subseteq 0 .. MaxVersion + 1
  BY LiveAssumption DEF LiveTypes, LiveTypeOK, Fetching
<1>1. Fetching(fetch') /\ data' \in 0 .. MaxVersion + 1
  <2>1. CASE UNCHANGED <<fetch, data>>
    BY <1>0, <2>1
  <2>2. CASE Poll
    BY <1>0, <2>2, Fetches DEF Poll
  <2>3. CASE ServerReads
    BY <1>0, <2>3, Fetches DEF ServerReads
  <2>4. CASE Shown
    BY <1>0, <2>4, Fetches DEF Shown, Fetching
  <2>5. CASE FetchFails
    <3>1. fetch.tries < 1 => fetch.tries + 1 \in 0 .. 1
      BY <1>0 DEF Fetching
    <3>2. data' = data
      BY <2>5 DEF FetchFails
    <3>3. \/ fetch.tries < 1 /\ fetch' = [Started EXCEPT !.tries = fetch.tries + 1]
          \/ fetch' = NoFetch
      BY <2>5 DEF FetchFails, Retries
    <3> QED BY <1>0, <3>1, <3>2, <3>3, Fetches
  <2>6. CASE Answered
    BY <1>0, <2>6, Fetches DEF Answered, Superseding
  <2> QED
    BY <2>1, <2>2, <2>3, <2>4, <2>5, <2>6 DEF Next, vars, Change, Mutate, Applied, NotAnswered
<1>2. /\ {server', own'} \subseteq 0 .. MaxVersion + 1 /\ mut' \in {"idle", "sent", "done"}
      /\ mut' = "sent" => server' <= MaxVersion
  <2>0. mut \in {"idle", "sent", "done"} /\ (mut = "sent" => server <= MaxVersion)
    BY DEF LiveTypes, LiveTypeOK
  <2>1. CASE UNCHANGED <<server, own, mut>>
    BY <1>0, <2>0, <2>1
  <2>2. CASE Change \/ Mutate
    BY <1>0, <2>0, <2>2 DEF Change, Mutate
  <2>3. CASE Applied
    <3>1. mut = "sent" /\ mut' = "done"
      BY <2>3 DEF Applied
    <3>2. own' = own /\ server' \in {server, server + 1}
      BY <2>3 DEF Applied
    <3> QED BY <1>0, <2>0, <3>1, <3>2
  <2>4. CASE Answered
    <3>1. server' = server /\ mut' = "idle" /\ own' \in {own, server}
      BY <2>4 DEF Answered
    <3> QED BY <1>0, <3>1
  <2>5. CASE NotAnswered
    BY <1>0, <2>5 DEF NotAnswered
  <2> QED
    BY <2>1, <2>2, <2>3, <2>4, <2>5 DEF Next, vars, Poll, ServerReads, Shown, FetchFails
<1>3. failures' \in 0 .. MaxFailures
  <2>1. failures \in 0 .. MaxFailures
    BY DEF LiveTypes, LiveTypeOK
  <2>2. ASSUME FetchFails PROVE failures' \in 0 .. MaxFailures
    <3>1. /\ failures' = failures + 1
          /\ failures < MaxFailures \/ failures < 1
      BY <2>2 DEF FetchFails, Retries
    <3> QED BY <1>0, <2>1, <3>1
  <2> QED
    BY <2>1, <2>2 DEF Next, vars, Change, Poll, ServerReads, Shown, Mutate, Applied, Answered,
                      NotAnswered
<1>4. UNCHANGED <<page, query, op>>
  BY DEF Next, vars, Change, Poll, ServerReads, Shown, FetchFails, Mutate, Applied,
         Answered, NotAnswered, Other
<1>5. page' \in Pages /\ query' \in DOMAIN page'.every /\ op' \in DOMAIN page'.names
  BY <1>4 DEF LiveTypes, LiveTypeOK
<1> QED
  BY <1>1, <1>2, <1>3, <1>5 DEF LiveTypes, LiveTypeOK, Fetching

-----------------------------------------------------------------------------
(***************************************************************************)
(* Types of the form of assets.  Fields are filled from rows, by typing    *)
(* and by names that were looked up.                                       *)
(***************************************************************************)
FormTexts == AssetPart!FieldTexts
IsForm(values) ==
    /\ values = [ip |-> values["ip"], host |-> values["host"]]
    /\ values["ip"] \in FormTexts /\ values["host"] \in FormTexts
AskedForm(values) == IsForm(values) \/ values = AssetPart!NoRow

AssetTypes ==
    /\ tab \in {"list", "create", "edit", "import"}
    /\ editing \in AssetRows \union {AssetPart!NoRow}
    /\ IsForm(form)
    /\ saving \in {"no", "create", "update"}
    /\ AskedForm(check.of) /\ AskedForm(connResult.of)
    /\ DOMAIN check = {"of", "here", "sameIp"} /\ DOMAIN connResult = {"of", "here", "sameIp"}
    /\ check.here \in BOOLEAN
    /\ touched \subseteq AssetPart!Fields
    /\ crossed \in BOOLEAN

LEMMA TextsAre ==
    /\ {""} \union Typed \union HostNames \subseteq FormTexts
    /\ \A r \in AssetRows : r["ip"] \in FormTexts /\ r["host"] \in FormTexts
<1> DEFINE Listed == {r[f] : r \in AssetRows, f \in AssetPart!Fields}
<1>1. FormTexts = {""} \union Typed \union HostNames \union Listed
  BY DEF FormTexts, AssetPart!FieldTexts
<1>2. ASSUME NEW r \in AssetRows, NEW f \in AssetPart!Fields PROVE r[f] \in Listed
  OBVIOUS
<1>3. "ip" \in AssetPart!Fields /\ "host" \in AssetPart!Fields
  BY DEF AssetPart!Fields
<1> HIDE DEF Listed
<1> QED BY <1>1, <1>2, <1>3

LEMMA FormsAre ==
    /\ \A values : IsForm(values) => values \in [AssetPart!Fields -> FormTexts]
    /\ IsForm(AssetPart!Empty)
    /\ \A r \in AssetRows : IsForm(r)
<1>1. ASSUME NEW values, IsForm(values) PROVE values \in [AssetPart!Fields -> FormTexts]
  BY <1>1 DEF IsForm, AssetPart!Fields
<1>2. IsForm(AssetPart!Empty)
  BY TextsAre DEF IsForm, AssetPart!Empty
<1>3. ASSUME NEW r \in AssetRows PROVE IsForm(r)
  <2>1. r = [ip |-> r["ip"], host |-> r["host"]]
    BY RowsAssumption
  <2>2. r["ip"] \in FormTexts /\ r["host"] \in FormTexts
    BY TextsAre
  <2> QED BY <2>1, <2>2 DEF IsForm
<1> QED BY <1>1, <1>2, <1>3

LEMMA AssetTypesAre == AssetTypes => AssetPart!FormTypeOK
<1> SUFFICES ASSUME AssetTypes PROVE AssetPart!FormTypeOK
  OBVIOUS
<1>1. \A f \in AssetPart!Fields : form[f] \in FormTexts
  BY DEF AssetTypes, IsForm, AssetPart!Fields
<1>2. /\ check.of \in [AssetPart!Fields -> FormTexts] \union {AssetPart!NoRow}
      /\ connResult.of \in [AssetPart!Fields -> FormTexts] \union {AssetPart!NoRow}
  BY FormsAre DEF AssetTypes, AskedForm
<1> QED BY <1>1, <1>2 DEF AssetTypes, AssetPart!FormTypeOK, FormTexts

LEMMA AssetTypesInit == AssetPart!Init => AssetTypes
<1> SUFFICES ASSUME AssetPart!Init PROVE AssetTypes
  OBVIOUS
<1>1. /\ check.of = AssetPart!NoRow /\ connResult.of = AssetPart!NoRow
      /\ DOMAIN check = {"of", "here", "sameIp"} /\ DOMAIN connResult = {"of", "here", "sameIp"}
      /\ check.here = FALSE
  BY DEF AssetPart!Init, AssetPart!NoCheck
<1> QED BY <1>1, FormsAre DEF AssetPart!Init, AssetTypes, AskedForm

\* What was asked or answered of a form that is open no more.
LEMMA ElsewhereKeeps ==
    ASSUME NEW answer, DOMAIN answer = {"of", "here", "sameIp"}
    PROVE  LET e == AssetPart!Elsewhere(answer)
           IN DOMAIN e = {"of", "here", "sameIp"} /\ e.of = answer.of /\ e.here = FALSE
BY DEF AssetPart!Elsewhere

AnswerTyped(answer) ==
    DOMAIN answer = {"of", "here", "sameIp"} /\ AskedForm(answer.of)

LEMMA AssetTypesStep ==
    ASSUME AssetTypes, [AssetPart!Next]_(AssetPart!vars)
    PROVE  AssetTypes'
<1>0. /\ AnswerTyped(AssetPart!NoCheck) /\ AssetPart!NoCheck.here = FALSE
      /\ AnswerTyped(check) /\ AnswerTyped(connResult) /\ check.here \in BOOLEAN
  BY DEF AssetPart!NoCheck, AnswerTyped, AskedForm, AssetTypes
<1>1. /\ AnswerTyped(AssetPart!Elsewhere(check)) /\ AssetPart!Elsewhere(check).here = FALSE
      /\ AnswerTyped(AssetPart!Elsewhere(connResult))
  BY <1>0, ElsewhereKeeps DEF AnswerTyped
<1>2. /\ tab' \in {"list", "create", "edit", "import"}
      /\ editing' \in AssetRows \union {AssetPart!NoRow}
      /\ saving' \in {"no", "create", "update"}
  <2> USE DEF AssetTypes
  <2>1. CASE UNCHANGED <<tab, editing, saving>>
    BY <2>1
  <2>2. CASE AssetPart!openCreate \/ \E r \in AssetRows : AssetPart!openEdit(r)
    BY <2>2 DEF AssetPart!openCreate, AssetPart!openEdit, AssetPart!EditingWhenCreating
  <2>3. CASE AssetPart!Cancel \/ AssetPart!OpenImport \/ AssetPart!CloseImport
    BY <2>3 DEF AssetPart!Cancel, AssetPart!OpenImport, AssetPart!CloseImport
  <2>4. CASE AssetPart!handleSubmit \/ AssetPart!Saved \/ AssetPart!SaveFailed
    BY <2>4 DEF AssetPart!handleSubmit, AssetPart!Saved, AssetPart!SaveFailed
  <2> QED
    BY <2>1, <2>2, <2>3, <2>4 DEF AssetPart!Next, AssetPart!vars, AssetPart!TypeIp,
       AssetPart!TypeHost, AssetPart!checkConnectivity, AssetPart!CheckAnswered,
       AssetPart!CheckFailed
<1>3. AnswerTyped(check') /\ AnswerTyped(connResult') /\ check'.here \in BOOLEAN
  <2>1. CASE /\ check' \in {check, AssetPart!Elsewhere(check), AssetPart!NoCheck}
             /\ connResult' \in {connResult, AssetPart!Elsewhere(connResult), AssetPart!NoCheck, check}
    BY <1>0, <1>1, <2>1
  <2>2. ASSUME NEW text, AssetPart!TypeIp(text)
        PROVE  AnswerTyped(check') /\ AnswerTyped(connResult') /\ check'.here \in BOOLEAN
    <3>1. check' = [check EXCEPT !.sameIp = FALSE] /\ connResult' = AssetPart!NoCheck
      BY <2>2 DEF AssetPart!TypeIp, AssetPart!ClearedByIp
    <3>2. DOMAIN check' = DOMAIN check /\ check'.of = check.of /\ check'.here = check.here
      BY <1>0, <3>1 DEF AnswerTyped
    <3> QED BY <1>0, <3>1, <3>2 DEF AnswerTyped
  <2>3. CASE AssetPart!checkConnectivity
    <3>1. /\ check' = [of |-> form, here |-> TRUE, sameIp |-> TRUE]
          /\ connResult' = AssetPart!NoCheck
      BY <2>3 DEF AssetPart!checkConnectivity
    <3>2. IsForm(form)
      BY DEF AssetTypes
    <3> QED BY <1>0, <3>1, <3>2 DEF AnswerTyped, AskedForm
  <2>4. ASSUME NEW text, AssetPart!TypeHost(text)
        PROVE  UNCHANGED <<check, connResult>>
    BY <2>4 DEF AssetPart!TypeHost
  <2>5. ASSUME NEW answer, AssetPart!CheckAnswered(answer)
        PROVE  connResult' = check /\ check' = AssetPart!NoCheck
    BY <2>5 DEF AssetPart!CheckAnswered
  <2>6. ASSUME NEW row, AssetPart!openEdit(row)
        PROVE  check' = AssetPart!Elsewhere(check) /\ connResult' = AssetPart!NoCheck
    BY <2>6 DEF AssetPart!openEdit, AssetPart!Opened
  <2> QED
    BY <2>1, <2>2, <2>3, <2>4, <2>5, <2>6 DEF AssetPart!Next, AssetPart!vars,
       AssetPart!openCreate, AssetPart!Opened, AssetPart!Cancel,
       AssetPart!OpenImport, AssetPart!CloseImport, AssetPart!CheckFailed,
       AssetPart!handleSubmit, AssetPart!Saved, AssetPart!SaveFailed
<1>4. IsForm(form') /\ touched' \subseteq AssetPart!Fields /\ crossed' \in BOOLEAN
  <2>0. IsForm(form) /\ touched \subseteq AssetPart!Fields /\ crossed \in BOOLEAN
    BY DEF AssetTypes
  <2>1. CASE UNCHANGED <<form, touched, crossed>>
    BY <2>0, <2>1
  <2>2. ASSUME NEW values, IsForm(values), AssetPart!Opened(values)
        PROVE  IsForm(form') /\ touched' \subseteq AssetPart!Fields /\ crossed' \in BOOLEAN
    BY <2>2 DEF AssetPart!Opened
  <2>3. ASSUME NEW f \in AssetPart!Fields, NEW text \in FormTexts,
               form' = [form EXCEPT ![f] = text]
        PROVE  IsForm(form')
    BY <2>0, <2>3 DEF IsForm, AssetPart!Fields
  <2>4. ASSUME NEW text \in Typed \union {""}, AssetPart!TypeIp(text) \/ AssetPart!TypeHost(text)
        PROVE  IsForm(form') /\ touched' \subseteq AssetPart!Fields /\ crossed' = crossed
    <3>1. text \in FormTexts
      BY TextsAre
    <3>2. \/ form' = [form EXCEPT !["ip"] = text]
          \/ form' = [form EXCEPT !["host"] = text]
      BY <2>4 DEF AssetPart!TypeIp, AssetPart!TypeHost
    <3>3. IsForm(form')
      BY <2>3, <3>1, <3>2 DEF AssetPart!Fields
    <3> QED BY <2>0, <2>4, <3>3 DEF AssetPart!TypeIp, AssetPart!TypeHost, AssetPart!Fields
  <2>5. ASSUME NEW ping, NEW port, NEW name \in HostNames \union {""},
               AssetPart!CheckAnswered(AssetPart!Connectivity(ping, port, name))
        PROVE  IsForm(form') /\ touched' \subseteq AssetPart!Fields /\ crossed' \in BOOLEAN
    <3>1. \/ UNCHANGED <<form, touched, crossed>>
          \/ AssetPart!Named(name)
      <4>1. AssetPart!Connectivity(ping, port, name).hostname = name
        BY DEF AssetPart!Connectivity
      <4> QED BY <2>5, <4>1 DEF AssetPart!CheckAnswered
    <3>2. name \in FormTexts
      BY TextsAre
    <3>3. ASSUME AssetPart!Named(name)
          PROVE  IsForm(form') /\ touched' \subseteq AssetPart!Fields /\ crossed' \in BOOLEAN
      <4>1. form' = [form EXCEPT !["host"] = name]
        BY <3>3 DEF AssetPart!Named
      <4>2. IsForm(form')
        BY <2>3, <3>2, <4>1 DEF AssetPart!Fields
      <4>3. touched' \subseteq AssetPart!Fields
        BY <2>0, <3>3 DEF AssetPart!Named, AssetPart!Fields
      <4>4. crossed' \in BOOLEAN
        BY <3>3, Zenon DEF AssetPart!Named
      <4> QED BY <4>2, <4>3, <4>4
    <3> QED BY <2>1, <3>1, <3>3
  <2>6. ASSUME NEW row \in AssetRows, AssetPart!openEdit(row)
        PROVE  IsForm(form') /\ touched' \subseteq AssetPart!Fields /\ crossed' \in BOOLEAN
    BY <2>2, <2>6, FormsAre DEF AssetPart!openEdit
  <2>7. CASE AssetPart!openCreate \/ AssetPart!Saved
    BY <2>2, <2>7, FormsAre DEF AssetPart!openCreate, AssetPart!Saved
  <2> QED
    BY <2>1, <2>4, <2>5, <2>6, <2>7, <2>0 DEF AssetPart!Next, AssetPart!vars,
       AssetPart!Cancel, AssetPart!OpenImport, AssetPart!CloseImport,
       AssetPart!checkConnectivity, AssetPart!CheckFailed, AssetPart!handleSubmit,
       AssetPart!SaveFailed
<1> QED
  BY <1>2, <1>3, <1>4 DEF AssetTypes, AnswerTyped

-----------------------------------------------------------------------------
(***************************************************************************)
(* Types of the form of monitors.                                          *)
(***************************************************************************)
MonitorFormTyped(values) ==
    /\ values = [type |-> values["type"], target |-> values["target"],
                 assetId |-> values["assetId"], config |-> values["config"]]
    /\ values["type"] \in MonitorTypes
    /\ values["target"] \in MonitorTypes \union Assets \union {""}
    /\ values["assetId"] \in Assets \union {""}
    /\ values["config"] \in MonitorTypes \union {""}

MonitorTypesInv ==
    /\ mTab \in {"list", "form"}
    /\ mEditing \in MonitorRows \union {MonitorPart!NoRow}
    /\ MonitorFormTyped(mForm)
    /\ mTouched \subseteq Keys

LEMMA MonitorTypesAre == MonitorTypesInv => MonitorPart!MonitorFormTypeOK
BY EmptyMonitor DEF MonitorTypesInv, MonitorFormTyped, MonitorPart!MonitorFormTypeOK

LEMMA MonitorForms ==
    /\ MonitorFormTyped(MonitorPart!Empty)
    /\ \A r \in MonitorRows : MonitorFormTyped(r)
<1>1. MonitorFormTyped(MonitorPart!Empty)
  <2>1. "https" \in MonitorTypes
    BY RowsAssumption
  <2> QED BY <2>1 DEF MonitorFormTyped, MonitorPart!Empty
<1>2. ASSUME NEW r \in MonitorRows PROVE MonitorFormTyped(r)
  BY RowsAssumption DEF MonitorFormTyped
<1> QED BY <1>1, <1>2

LEMMA MonitorTypesInit == MonitorPart!Init => MonitorTypesInv
BY MonitorForms DEF MonitorPart!Init, MonitorTypesInv

MonitorFields(m, t, g, a, c) == m = [type |-> t, target |-> g, assetId |-> a, config |-> c]

LEMMA MonitorWritten ==
    ASSUME NEW m, NEW t, NEW g, NEW a, NEW c, NEW v, MonitorFields(m, t, g, a, c)
    PROVE  /\ MonitorFields([m EXCEPT !.type = v], v, g, a, c)
           /\ MonitorFields([m EXCEPT !.assetId = v], t, g, v, c)
           /\ MonitorFields([m EXCEPT !.target = v], t, v, a, c)
           /\ MonitorFields([m EXCEPT !.config = v], t, g, a, v)
           /\ m.type = t
BY DEF MonitorFields

LEMMA MonitorFits ==
    ASSUME NEW t \in MonitorTypes, NEW g \in MonitorTypes \union Assets \union {""},
           NEW a \in Assets \union {""}, NEW c \in MonitorTypes \union {""},
           NEW m, MonitorFields(m, t, g, a, c)
    PROVE  MonitorFormTyped(m)
BY DEF MonitorFormTyped, MonitorFields

LEMMA MonitorEntered ==
    ASSUME MonitorFormTyped(mForm)
    PROVE  /\ \A type \in MonitorTypes : MonitorFormTyped(MonitorPart!Retyped(type))
           /\ \A a \in Assets \union {""} : MonitorFormTyped([mForm EXCEPT !.assetId = a])
           /\ MonitorFormTyped([mForm EXCEPT !.target = mForm.type])
           /\ MonitorFormTyped([mForm EXCEPT !.config = mForm.type])
<1>1. PICK t \in MonitorTypes, g \in MonitorTypes \union Assets \union {""},
           a \in Assets \union {""}, c \in MonitorTypes \union {""} :
        MonitorFields(mForm, t, g, a, c)
  BY DEF MonitorFormTyped, MonitorFields
<1>2. mForm.type = t
  BY <1>1, MonitorWritten
<1>3. ASSUME NEW v \in MonitorTypes PROVE MonitorFormTyped(MonitorPart!Retyped(v))
  <2> DEFINE x == [mForm EXCEPT !.type = v]
             y == [x EXCEPT !.config = ""]
             z == [y EXCEPT !.target = ""]
  <2>1. MonitorFields(x, v, g, a, c)
    BY <1>1, MonitorWritten
  <2>2. MonitorPart!Retyped(v) = z
    BY DEF MonitorPart!Retyped
  <2> HIDE DEF x
  <2>3. MonitorFields(y, v, g, a, "")
    BY <2>1, MonitorWritten
  <2> HIDE DEF y
  <2>4. MonitorFields(z, v, "", a, "")
    BY <2>3, MonitorWritten
  <2> HIDE DEF z
  <2> QED BY <2>2, <2>4, MonitorFits
<1>4. ASSUME NEW v \in Assets \union {""} PROVE MonitorFormTyped([mForm EXCEPT !.assetId = v])
  <2>1. MonitorFields([mForm EXCEPT !.assetId = v], t, g, v, c)
    BY <1>1, MonitorWritten
  <2> QED BY <2>1, MonitorFits
<1>5. MonitorFields([mForm EXCEPT !.target = mForm.type], t, t, a, c)
  BY <1>1, <1>2, MonitorWritten
<1>6. MonitorFields([mForm EXCEPT !.config = mForm.type], t, g, a, t)
  BY <1>1, <1>2, MonitorWritten
<1>7. /\ MonitorFormTyped([mForm EXCEPT !.target = mForm.type])
      /\ MonitorFormTyped([mForm EXCEPT !.config = mForm.type])
  BY <1>5, <1>6, MonitorFits
<1> QED BY <1>3, <1>4, <1>7

LEMMA MonitorTypesStep ==
    ASSUME MonitorTypesInv, [MonitorPart!Next]_(MonitorPart!vars)
    PROVE  MonitorTypesInv'
<1> USE DEF MonitorTypesInv
<1>1. ASSUME UNCHANGED <<mTab, mEditing, mForm, mTouched>> PROVE MonitorTypesInv'
  BY <1>1 DEF MonitorFormTyped
<1>2. CASE MonitorPart!openCreate \/ MonitorPart!Saved
  BY <1>2, MonitorForms DEF MonitorPart!openCreate, MonitorPart!Saved
<1>3. ASSUME NEW r \in MonitorRows, MonitorPart!openEdit(r) PROVE MonitorTypesInv'
  BY <1>3, MonitorForms DEF MonitorPart!openEdit
<1>4. CASE MonitorPart!Cancel
  BY <1>4 DEF MonitorPart!Cancel, MonitorFormTyped
<1>5. ASSUME NEW fields, NEW values, fields \subseteq Keys, MonitorFormTyped(values),
             MonitorPart!Enter(fields, values)
      PROVE  MonitorTypesInv'
  BY <1>5 DEF MonitorPart!Enter
<1>6. ASSUME NEW type \in MonitorTypes, MonitorPart!ChooseType(type) PROVE MonitorTypesInv'
  <2>1. {"type", "config", "target"} \subseteq Keys
    BY DEF Keys
  <2> QED BY <1>5, <1>6, <2>1, MonitorEntered DEF MonitorPart!ChooseType
<1>7. ASSUME NEW a \in Assets \union {""}, MonitorPart!ChooseAsset(a) PROVE MonitorTypesInv'
  <2>1. {"assetId"} \subseteq Keys
    BY DEF Keys
  <2> QED BY <1>5, <1>7, <2>1, MonitorEntered DEF MonitorPart!ChooseAsset
<1>8. CASE MonitorPart!TypeTarget
  <2>1. {"target"} \subseteq Keys
    BY DEF Keys
  <2> QED BY <1>5, <1>8, <2>1, MonitorEntered DEF MonitorPart!TypeTarget
<1>9. CASE MonitorPart!ConfigFields
  <2>1. {"config"} \subseteq Keys
    BY DEF Keys
  <2> QED BY <1>5, <1>9, <2>1, MonitorEntered DEF MonitorPart!ConfigFields
<1>10. CASE MonitorPart!handleSubmit \/ MonitorPart!SaveFailed
  BY <1>1, <1>10 DEF MonitorPart!handleSubmit, MonitorPart!SaveFailed
<1>11. CASE UNCHANGED MonitorPart!vars
  BY <1>1, <1>11 DEF MonitorPart!vars
<1> QED
  BY <1>2, <1>3, <1>4, <1>6, <1>7, <1>8, <1>9, <1>10, <1>11 DEF MonitorPart!Next

-----------------------------------------------------------------------------
(***************************************************************************)
(* Types of the installer.                                                 *)
(***************************************************************************)
LEMMA DeployTypesInit == DeployPart!Init => DeployPart!DeployTypeOK
BY DEF DeployPart!Init, DeployPart!DeployTypeOK

LEMMA DeployTypesStep ==
    ASSUME DeployInv, DeployPart!DeployTypeOK, [DeployPart!Next]_(DeployPart!vars)
    PROVE  DeployPart!DeployTypeOK'
<1> USE DEF DeployPart!DeployTypeOK
<1>1. CASE UNCHANGED DeployPart!vars
  BY <1>1 DEF DeployPart!vars
<1>2. ASSUME NEW a \in Assets, DeployPart!SelectAsset(a) PROVE DeployPart!DeployTypeOK'
  <2>1. strayed' \in BOOLEAN
    BY <1>2, Zenon DEF DeployPart!SelectAsset
  <2> QED BY <1>2, <2>1 DEF DeployPart!SelectAsset
<1>3. ASSUME NEW os \in Systems, DeployPart!SelectOS(os) PROVE DeployPart!DeployTypeOK'
  BY <1>3 DEF DeployPart!SelectOS
<1>4. CASE DeployPart!Back \/ DeployPart!reset
  BY <1>4 DEF DeployPart!Back, DeployPart!reset
<1>5. CASE DeployPart!Generate
  <2>1. /\ step = 2 /\ tokenMut' = tokenMut \union {selectedAsset}
        /\ asked' = selectedAsset /\ strayed' = FALSE
        /\ UNCHANGED <<step, selectedOS, selectedAsset, agentToken>>
    BY <1>5 DEF DeployPart!Generate
  <2>2. selectedAsset \in Assets
    BY <2>1 DEF DeployInv
  <2> QED BY <2>1, <2>2
<1>6. ASSUME NEW a \in Assets, DeployPart!KeyArrives(a) \/ DeployPart!KeyRefused(a)
      PROVE  DeployPart!DeployTypeOK'
  BY <1>6 DEF DeployPart!KeyArrives, DeployPart!KeyRefused
<1> QED
  BY <1>1, <1>2, <1>3, <1>4, <1>5, <1>6 DEF DeployPart!Next

-----------------------------------------------------------------------------
(***************************************************************************)
(* Types of the import of CSV text.  An import makes no more assets than   *)
(* its text has rows.                                                      *)
(***************************************************************************)
CallTyped(call) ==
    \/ call = CsvPart!NoCall
    \/ \E csv \in CsvPart!Csvs, row, success, failed \in Nat :
         /\ call = Call(csv, row, success, failed)
         /\ row \in 1 .. Len(csv) + 1 /\ success + failed + 1 = row

RowsLeft == IF import = CsvPart!NoCall THEN 0 ELSE Len(import.csv) + 1 - import.row

CsvTypes ==
    /\ csvContent \in CsvTexts /\ validating \in CsvTexts
    /\ csvPreview.of \in CsvTexts
    /\ {csvPreview.valid, csvPreview.late} \subseteq BOOLEAN
    /\ CallTyped(import)
    /\ importResult \in CsvPart!Results
    /\ imports \in 0 .. MaxImports
    /\ assets \in Nat /\ assets + RowsLeft <= MaxRows * imports
    /\ edited \in BOOLEAN

LEMMA CsvLen ==
    ASSUME NEW text \in CsvPart!Csvs
    PROVE  Len(text) \in 0 .. MaxRows
<1>1. PICK n \in 0 .. MaxRows : text \in [1 .. n -> CsvPart!Kinds]
  BY DEF CsvPart!Csvs
<1>2. n \in Nat
  BY CsvAssumption
<1> QED BY <1>1, <1>2

\* Calls by their parts.
LEMMA CallParts ==
    \A csv, row, success, failed :
        /\ Call(csv, row, success, failed).csv = csv
        /\ Call(csv, row, success, failed).row = row
        /\ Call(csv, row, success, failed).success = success
        /\ Call(csv, row, success, failed).failed = failed
        /\ Call(csv, row, success, failed).made = success
BY DEF Call

LEMMA CsvBound ==
    /\ MaxRows \in Nat /\ MaxImports \in Nat
    /\ MaxRows * MaxImports \in Nat /\ MaxRows * 0 = 0
    /\ \A n \in Nat : /\ MaxRows * n \in Nat
                      /\ MaxRows * (n + 1) = MaxRows * n + MaxRows
                      /\ n <= MaxImports => MaxRows * n <= MaxRows * MaxImports
<1>1. MaxRows \in Nat /\ MaxImports \in Nat
  BY CsvAssumption
<1>2. \A n \in Nat : MaxRows * n \in Nat /\ MaxRows * (n + 1) = MaxRows * n + MaxRows
  BY <1>1
<1>3. ASSUME NEW n \in Nat, n <= MaxImports PROVE MaxRows * n <= MaxRows * MaxImports
  <2>1. PICK k \in Nat : MaxImports = n + k
    <3>1. MaxImports - n \in Nat /\ MaxImports = n + (MaxImports - n)
      BY <1>1, <1>3
    <3> QED BY <3>1
  <2>2. MaxRows * (n + k) = MaxRows * n + MaxRows * k
    BY <1>1
  <2>3. MaxRows * k \in Nat /\ MaxRows * n \in Nat
    BY <1>1
  <2> QED BY <2>1, <2>2, <2>3
<1> QED BY <1>1, <1>2, <1>3

LEMMA CsvTypesAre == CsvTypes => CsvPart!CsvTypeOK
<1> SUFFICES ASSUME CsvTypes PROVE CsvPart!CsvTypeOK
  OBVIOUS
<1>1. import.csv \in CsvTexts /\ import.row \in 0 .. MaxRows + 1 /\ RowsLeft \in Nat
  <2>1. CASE import = CsvPart!NoCall
    BY <2>1, CsvBound DEF CsvPart!NoCall, CsvTexts, RowsLeft
  <2>2. CASE import # CsvPart!NoCall
    <3>1. PICK csv \in CsvPart!Csvs, row, success, failed \in Nat :
            /\ import = Call(csv, row, success, failed) /\ row \in 1 .. Len(csv) + 1
      BY <2>2 DEF CsvTypes, CallTyped
    <3>2. Len(csv) \in 0 .. MaxRows
      BY CsvLen
    <3> QED BY <2>2, <3>1, <3>2, CallParts, CsvBound DEF CsvTexts, RowsLeft
  <2> QED BY <2>1, <2>2
<1>2. assets \in 0 .. MaxRows * MaxImports
  <2>1. imports \in Nat /\ MaxRows * imports <= MaxRows * MaxImports
    BY CsvBound DEF CsvTypes
  <2>2. MaxRows * imports \in Nat /\ MaxRows * MaxImports \in Nat
    BY <2>1, CsvBound
  <2> QED BY <1>1, <2>1, <2>2 DEF CsvTypes
<1> QED BY <1>1, <1>2 DEF CsvTypes, CsvTexts, CsvPart!CsvTypeOK

LEMMA CsvNothing ==
    /\ CsvPart!NoResult \in CsvPart!Results
    /\ CsvPart!NoPreview.of \in CsvTexts
    /\ {CsvPart!NoPreview.valid, CsvPart!NoPreview.late} \subseteq BOOLEAN
BY CsvBound DEF CsvPart!NoResult, CsvPart!Results, CsvPart!NoPreview, CsvTexts

LEMMA CsvTypesInit == CsvPart!Init => CsvTypes
<1> SUFFICES ASSUME CsvPart!Init PROVE CsvTypes
  OBVIOUS
<1>1. RowsLeft = 0 /\ assets + RowsLeft <= MaxRows * imports
  BY CsvBound DEF CsvPart!Init, RowsLeft
<1>2. /\ csvPreview.of \in CsvTexts /\ importResult \in CsvPart!Results
      /\ {csvPreview.valid, csvPreview.late} \subseteq BOOLEAN
  BY CsvNothing DEF CsvPart!Init
<1>3. imports \in 0 .. MaxImports /\ assets \in Nat /\ edited \in BOOLEAN
  <2>1. imports = 0 /\ assets = 0 /\ edited = FALSE
    BY DEF CsvPart!Init
  <2>2. MaxImports \in Nat
    BY CsvAssumption
  <2>3. 0 \in 0 .. MaxImports
    BY <2>2
  <2>4. imports \in 0 .. MaxImports
    BY <2>1, <2>3
  <2>5. assets \in Nat /\ edited \in BOOLEAN
    BY <2>1
  <2> QED BY <2>4, <2>5
<1>4. csvContent \in CsvTexts /\ validating \in CsvTexts /\ CallTyped(import)
  BY DEF CsvPart!Init, CallTyped, CsvTexts
<1> QED BY <1>1, <1>2, <1>3, <1>4 DEF CsvTypes

LEMMA CsvTypesStep ==
    ASSUME CsvTypes, [CsvPart!Next]_(CsvPart!vars)
    PROVE  CsvTypes'
<1>0. /\ csvContent \in CsvTexts /\ validating \in CsvTexts /\ CallTyped(import)
      /\ csvPreview.of \in CsvTexts /\ {csvPreview.valid, csvPreview.late} \subseteq BOOLEAN
      /\ importResult \in CsvPart!Results /\ imports \in 0 .. MaxImports /\ imports \in Nat
      /\ assets \in Nat /\ assets + RowsLeft <= MaxRows * imports /\ edited \in BOOLEAN
  BY CsvBound DEF CsvTypes
<1>1. /\ csvContent' \in CsvTexts /\ validating' \in CsvTexts /\ csvPreview'.of \in CsvTexts
      /\ {csvPreview'.valid, csvPreview'.late} \subseteq BOOLEAN /\ edited' \in BOOLEAN
  <2>1. CASE UNCHANGED <<csvContent, validating, csvPreview, edited>>
    BY <1>0, <2>1
  <2>2. ASSUME NEW text \in CsvTexts, CsvPart!Write(text)
        PROVE  /\ csvContent' \in CsvTexts /\ validating' \in CsvTexts
               /\ csvPreview' = CsvPart!NoPreview /\ edited' \in BOOLEAN
    <3>1. edited' \in BOOLEAN
      BY <2>2, Zenon DEF CsvPart!Write
    <3> QED BY <1>0, <2>2, <3>1 DEF CsvPart!Write, CsvPart!PreviewOfNewText
  <2>3. CASE CsvPart!Validate
    BY <1>0, <2>3 DEF CsvPart!Validate
  <2>4. CASE CsvPart!Validated
    <3>1. csvPreview' = [of |-> validating, valid |-> CsvPart!Valid(validating), late |-> edited]
      BY <2>4 DEF CsvPart!Validated
    <3>2. CsvPart!Valid(validating) \in BOOLEAN
      BY Zenon DEF CsvPart!Valid
    <3>3. /\ csvPreview'.of = validating /\ csvPreview'.valid = CsvPart!Valid(validating)
          /\ csvPreview'.late = edited
      BY <3>1, Zenon
    <3>4. {csvPreview'.valid, csvPreview'.late} \subseteq BOOLEAN
      BY <1>0, <3>2, <3>3, Zenon
    <3>5. /\ validating' = CsvPart!Nothing /\ UNCHANGED <<csvContent, edited>>
      BY <2>4 DEF CsvPart!Validated
    <3> QED BY <1>0, <3>3, <3>4, <3>5 DEF CsvTexts
  <2> QED
    BY <2>1, <2>2, <2>3, <2>4, CsvNothing DEF CsvPart!Next, CsvPart!vars, CsvPart!Import,
       CsvPart!RowCreated, CsvPart!RowRefused, CsvPart!Imported, CsvPart!ImportLost, CsvTexts
<1>2. /\ CallTyped(import') /\ importResult' \in CsvPart!Results
      /\ imports' \in 0 .. MaxImports
      /\ assets' \in Nat /\ assets' + RowsLeft' <= MaxRows * imports'
  <2>1. CASE UNCHANGED <<import, imports, assets>> /\ importResult' \in {importResult, CsvPart!NoResult}
    BY <1>0, <2>1, CsvNothing DEF CallTyped, RowsLeft
  <2>2. CASE CsvPart!Import
    <3>1. csvContent \in CsvPart!Csvs
      BY <1>0, <2>2 DEF CsvPart!Import, CsvTexts
    <3>2. Len(csvContent) \in 0 .. MaxRows
      BY <3>1, CsvLen
    <3>3. import' = Call(csvContent, 1, 0, 0)
      BY <2>2 DEF CsvPart!Import, CsvPart!NoCall, Call
    <3>4. CallTyped(import')
      BY <3>1, <3>2, <3>3, CsvBound DEF CallTyped
    <3>5. RowsLeft' <= MaxRows /\ RowsLeft' \in Nat
      BY <3>2, <3>3, CallParts, CsvBound DEF RowsLeft
    <3>6. RowsLeft = 0 /\ imports' = imports + 1 /\ imports < MaxImports
          /\ UNCHANGED <<importResult, assets>>
      BY <2>2 DEF CsvPart!Import, RowsLeft
    <3>7. MaxRows * imports' = MaxRows * imports + MaxRows /\ MaxRows * imports \in Nat
      BY <1>0, <3>6, CsvBound
    <3>8. imports' \in 0 .. MaxImports
      BY <1>0, <3>6, CsvBound
    <3>9. PICK p \in Nat : p = MaxRows * imports
      BY <3>7
    <3>10. assets + RowsLeft' <= p + MaxRows
      <4>1. assets + RowsLeft <= p
        BY <1>0, <3>9
      <4>2. assets \in Nat /\ MaxRows \in Nat
        BY <1>0, CsvBound
      <4> QED BY <3>5, <3>6, <3>9, <4>1, <4>2
    <3> QED BY <1>0, <3>4, <3>6, <3>7, <3>8, <3>9, <3>10
  <2>3. CASE CsvPart!RowCreated \/ CsvPart!RowRefused
    <3>1. PICK n \in {0, 1} : CsvPart!Counted(n, n) /\ CsvPart!importing /\ assets' = assets + n
      BY <1>0, <2>3 DEF CsvPart!RowCreated, CsvPart!RowRefused
    <3>2. PICK csv \in CsvPart!Csvs, row, success, failed \in Nat :
            /\ import = Call(csv, row, success, failed)
            /\ row \in 1 .. Len(csv) + 1 /\ success + failed + 1 = row
      BY <1>0, <3>1 DEF CsvPart!importing, CallTyped
    <3>3. row \in 1 .. Len(csv) /\ Len(csv) \in 0 .. MaxRows /\ import # CsvPart!NoCall
      BY <3>1, <3>2, CsvLen, CallParts DEF CsvPart!importing
    <3>4. import' = Call(csv, row + 1, success + n, failed + (1 - n))
      BY <3>1, <3>2 DEF CsvPart!Counted, Call
    <3>5. /\ CallTyped(import') /\ success + n \in Nat /\ failed + (1 - n) \in Nat
      BY <3>2, <3>3, <3>4, CsvBound DEF CallTyped
    <3>6. RowsLeft = Len(csv) + 1 - row
      BY <3>2, <3>3, CallParts DEF RowsLeft
    <3>7. RowsLeft' = Len(csv) - row
      <4>1. import'.row = row + 1 /\ import'.csv = csv
        BY <3>4, CallParts
      <4>2. CsvPart!NoCall.row = 0
        BY DEF CsvPart!NoCall
      <4>3. import' # CsvPart!NoCall
        BY <4>1, <4>2, <3>2
      <4> QED BY <3>2, <3>3, <4>1, <4>3, CsvBound DEF RowsLeft
    <3>8. UNCHANGED <<imports, importResult>>
      BY <2>3 DEF CsvPart!RowCreated, CsvPart!RowRefused
    <3>9. assets' + RowsLeft' <= MaxRows * imports
      BY <1>0, <3>1, <3>2, <3>3, <3>6, <3>7, CsvBound
    <3> QED BY <1>0, <3>1, <3>5, <3>8, <3>9
  <2>4. CASE CsvPart!Imported \/ CsvPart!ImportLost
    <3>1. import' = CsvPart!NoCall /\ import # CsvPart!NoCall /\ UNCHANGED <<imports, assets>>
      BY <2>4 DEF CsvPart!Imported, CsvPart!ImportLost
    <3>2. PICK csv \in CsvPart!Csvs, row, success, failed \in Nat :
            /\ import = Call(csv, row, success, failed)
            /\ row \in 1 .. Len(csv) + 1 /\ success + failed + 1 = row
      BY <1>0, <3>1 DEF CallTyped
    <3>3. Len(csv) \in 0 .. MaxRows
      BY CsvLen
    <3>4. importResult' \in CsvPart!Results
      <4>1. CASE CsvPart!Imported
        <5>1. importResult' = [success |-> success, failed |-> failed, made |-> success,
                               rows |-> Len(csv)]
          BY <3>2, <4>1, CallParts DEF CsvPart!Imported
        <5>2. success \in 0 .. MaxRows /\ failed \in 0 .. MaxRows
          BY <3>2, <3>3, CsvBound
        <5> QED BY <3>3, <5>1, <5>2 DEF CsvPart!Results
      <4>2. CASE CsvPart!ImportLost
        BY <1>0, <4>2 DEF CsvPart!ImportLost
      <4> QED BY <2>4, <4>1, <4>2
    <3>5. RowsLeft' = 0
      BY <3>1 DEF RowsLeft
    <3>6. RowsLeft \in Nat
      BY <3>1, <3>2, <3>3, CallParts DEF RowsLeft
    <3>7. assets <= MaxRows * imports
      BY <1>0, <3>6, CsvBound
    <3> QED BY <1>0, <3>1, <3>4, <3>5, <3>7 DEF CallTyped
  <2>5. ASSUME NEW text, CsvPart!Write(text)
        PROVE  UNCHANGED <<import, imports, assets>>
               /\ importResult' \in {importResult, CsvPart!NoResult}
    BY <2>5 DEF CsvPart!Write
  <2> QED
    BY <2>1, <2>2, <2>3, <2>4, <2>5 DEF CsvPart!Next, CsvPart!vars, CsvPart!Validate,
       CsvPart!Validated
<1> QED BY <1>1, <1>2 DEF CsvTypes

-----------------------------------------------------------------------------
(***************************************************************************)
(* Types of the forms that add a row.  A form that is open, and a row that *)
(* is awaited, are of an opening.                                          *)
(***************************************************************************)
NewRowTypes ==
    /\ NewRowPart!NewRowTypeOK
    /\ showForm = TRUE => opening \in 1 .. MaxOpenings
    /\ creating # NewRowPart!None => creating.opening \in 1 .. MaxOpenings

LEMMA NewRowTypesInit == NewRowPart!Init => NewRowTypes
<1> SUFFICES ASSUME NewRowPart!Init PROVE NewRowTypes
  OBVIOUS
<1>1. creating.row = 0 /\ creating.opening = 0 /\ creating.text = NewRowPart!Empty
  BY DEF NewRowPart!Init, NewRowPart!None
<1>2. /\ creating = NewRowPart!None /\ newKey = 0 /\ opening = 0 /\ rows = {}
      /\ away = FALSE /\ showForm = FALSE /\ late = FALSE
      /\ draft = NewRowPart!Empty /\ unsaved = NewRowPart!Empty
      /\ list \in NewRowPart!Forms
  BY DEF NewRowPart!Init
<1>3. MaxMade \in Nat /\ MaxOpenings \in Nat
  BY MadeAssumption
<1>4. {away, showForm, late} \subseteq BOOLEAN
  BY <1>2
<1>5. NewRowPart!NewRowTypeOK
  <2>1. /\ {creating.row, newKey} \subseteq 0 .. MaxMade
        /\ {creating.opening, opening} \subseteq 0 .. MaxOpenings
    BY <1>1, <1>2, <1>3
  <2>2. {draft, unsaved, creating.text} \subseteq Texts \union {NewRowPart!Empty}
    BY <1>1, <1>2
  <2> QED BY <1>2, <1>4, <2>1, <2>2 DEF NewRowPart!NewRowTypeOK
<1> QED
  BY <1>2, <1>5 DEF NewRowTypes

RowTyped(r) ==
    \E id \in 1 .. MaxMade, o \in 1 .. MaxOpenings, e \in {"awaited", "told", "lost"} :
        r = NewRowPart!Row(id, o, e)

LEMMA RowsTyped ==
    rows \subseteq {NewRowPart!Row(id, o, e) : id \in 1 .. MaxMade, o \in 1 .. MaxOpenings,
                                              e \in {"awaited", "told", "lost"}}
      <=> \A r \in rows : RowTyped(r)
BY DEF RowTyped

LEMMA RowEnded ==
    ASSUME NEW r, NEW e \in {"told", "lost"}, RowTyped(r)
    PROVE  RowTyped([r EXCEPT !.ended = e])
<1>1. PICK id \in 1 .. MaxMade, o \in 1 .. MaxOpenings, e0 \in {"awaited", "told", "lost"} :
        r = NewRowPart!Row(id, o, e0)
  BY DEF RowTyped
<1>2. [r EXCEPT !.ended = e] = NewRowPart!Row(id, o, e)
  BY <1>1 DEF NewRowPart!Row
<1> QED BY <1>2 DEF RowTyped

LEMMA NewRowTypesStep ==
    ASSUME NewRowTypes, RowsInv, [NewRowPart!Next]_(NewRowPart!vars)
    PROVE  NewRowTypes'
<1>0. /\ list \in NewRowPart!Forms /\ {away, showForm, late} \subseteq BOOLEAN
      /\ {draft, unsaved, creating.text} \subseteq Texts \union {NewRowPart!Empty}
      /\ creating.row \in 0 .. MaxMade /\ newKey \in 0 .. MaxMade
      /\ creating.opening \in 0 .. MaxOpenings /\ opening \in 0 .. MaxOpenings
      /\ \A r \in rows : RowTyped(r)
      /\ showForm = TRUE => opening \in 1 .. MaxOpenings
      /\ creating # NewRowPart!None => creating.opening \in 1 .. MaxOpenings
      /\ MaxMade \in Nat /\ MaxOpenings \in Nat
  BY RowsTyped, MadeAssumption DEF NewRowTypes, NewRowPart!NewRowTypeOK
<1>n. /\ NewRowPart!None.row = 0 /\ NewRowPart!None.opening = 0
      /\ NewRowPart!None.text = NewRowPart!Empty
  BY DEF NewRowPart!None
<1>1. /\ list' \in NewRowPart!Forms /\ away' \in BOOLEAN /\ late' \in BOOLEAN
  <2>1. ASSUME NEW text, NewRowPart!Type(text) PROVE late' \in BOOLEAN
    BY <2>1, Zenon DEF NewRowPart!Type
  <2>2. ASSUME NewRowPart!OtherTab PROVE away' \in BOOLEAN
    BY <2>2, Zenon DEF NewRowPart!OtherTab
  <2>3. list' = list
    BY DEF NewRowPart!Next, NewRowPart!vars, NewRowPart!OtherTab, NewRowPart!Open,
       NewRowPart!Close, NewRowPart!Type, NewRowPart!Create, NewRowPart!Made,
       NewRowPart!Created, NewRowPart!CreateFailed, NewRowPart!DismissKey
  <2>4. NewRowPart!OtherTab \/ away' = away
    BY DEF NewRowPart!Next, NewRowPart!vars, NewRowPart!Open,
       NewRowPart!Close, NewRowPart!Type, NewRowPart!Create, NewRowPart!Made,
       NewRowPart!Created, NewRowPart!CreateFailed, NewRowPart!DismissKey
  <2>5. late' = late \/ \E text : NewRowPart!Type(text)
    BY DEF NewRowPart!Next, NewRowPart!vars, NewRowPart!OtherTab, NewRowPart!Open,
       NewRowPart!Close, NewRowPart!Create, NewRowPart!Made,
       NewRowPart!Created, NewRowPart!CreateFailed, NewRowPart!DismissKey
  <2> QED BY <1>0, <2>1, <2>2, <2>3, <2>4, <2>5
<1>2. /\ showForm' \in BOOLEAN /\ opening' \in 0 .. MaxOpenings
      /\ showForm' = TRUE => opening' \in 1 .. MaxOpenings
  <2>1. CASE UNCHANGED <<showForm, opening>>
    BY <1>0, <2>1
  <2>2. CASE NewRowPart!Open
    BY <1>0, <2>2 DEF NewRowPart!Open
  <2>3. CASE NewRowPart!Close \/ NewRowPart!Created
    BY <1>0, <2>3 DEF NewRowPart!Close, NewRowPart!Created
  <2> QED
    BY <2>1, <2>2, <2>3 DEF NewRowPart!Next, NewRowPart!vars, NewRowPart!OtherTab,
       NewRowPart!Type, NewRowPart!Create, NewRowPart!Made, NewRowPart!CreateFailed,
       NewRowPart!DismissKey
<1>3. /\ {draft', unsaved', creating'.text} \subseteq Texts \union {NewRowPart!Empty}
      /\ creating'.row \in 0 .. MaxMade /\ newKey' \in 0 .. MaxMade
      /\ creating'.opening \in 0 .. MaxOpenings
      /\ creating' # NewRowPart!None => creating'.opening \in 1 .. MaxOpenings
  <2>1. CASE UNCHANGED <<draft, unsaved, creating>> /\ newKey' \in {newKey, 0}
    BY <1>0, <2>1
  <2>2. ASSUME NEW text \in Texts \union {NewRowPart!Empty}, NewRowPart!Type(text)
        PROVE  /\ draft' = text /\ unsaved' = text /\ UNCHANGED <<creating, newKey>>
    BY <2>2 DEF NewRowPart!Type
  <2>3. CASE NewRowPart!Create
    <3>1. /\ creating' = [row |-> 0, opening |-> opening, text |-> draft]
          /\ draft' = draft /\ UNCHANGED <<newKey, unsaved>> /\ showForm = TRUE
      BY <1>0, <2>3 DEF NewRowPart!Create, NewRowPart!Sent
    <3>2. creating'.row = 0 /\ creating'.opening = opening /\ creating'.text = draft
      BY <3>1
    <3> QED BY <1>0, <3>1, <3>2
  <2>4. CASE NewRowPart!Made
    <3>1. PICK id \in 1 .. MaxMade : creating' = [creating EXCEPT !.row = id]
      BY <2>4 DEF NewRowPart!Made
    <3>2. DOMAIN creating = {"row", "opening", "text"}
      BY DEF RowsInv
    <3>3. /\ creating'.row = id /\ creating'.opening = creating.opening
          /\ creating'.text = creating.text
      BY <3>1, <3>2
    <3>4. creating # NewRowPart!None /\ UNCHANGED <<draft, unsaved, newKey>>
      BY <2>4 DEF NewRowPart!Made
    <3> QED BY <1>0, <3>3, <3>4
  <2>5. CASE NewRowPart!Created
    <3>1. /\ creating' = NewRowPart!None /\ newKey' \in {newKey, creating.row}
          /\ draft' \in {draft, NewRowPart!Empty} /\ unsaved' \in {unsaved, NewRowPart!Empty}
      BY <2>5 DEF NewRowPart!Created
    <3> QED BY <1>0, <1>n, <3>1
  <2>6. CASE NewRowPart!CreateFailed
    BY <1>0, <1>n, <2>6 DEF NewRowPart!CreateFailed
  <2> QED
    BY <1>0, <2>1, <2>2, <2>3, <2>4, <2>5, <2>6 DEF NewRowPart!Next, NewRowPart!vars,
       NewRowPart!OtherTab, NewRowPart!Open, NewRowPart!Close, NewRowPart!DismissKey
<1>4. \A r \in rows' : RowTyped(r)
  <2>1. CASE rows' = rows
    BY <1>0, <2>1
  <2>2. CASE NewRowPart!Made
    <3>1. PICK id \in 1 .. MaxMade :
            rows' = rows \union {NewRowPart!Row(id, creating.opening, "awaited")}
      BY <2>2 DEF NewRowPart!Made
    <3>2. creating.opening \in 1 .. MaxOpenings
      BY <1>0, <2>2 DEF NewRowPart!Made
    <3>3. RowTyped(NewRowPart!Row(id, creating.opening, "awaited"))
      BY <3>2 DEF RowTyped
    <3> QED BY <1>0, <3>1, <3>3
  <2>3. ASSUME NEW e \in {"told", "lost"}, rows' = NewRowPart!Ended(e)
        PROVE  \A r \in rows' : RowTyped(r)
    <3>1. ASSUME NEW s \in rows' PROVE RowTyped(s)
      <4>1. PICK r \in rows : s = IF r.id = creating.row THEN [r EXCEPT !.ended = e] ELSE r
        BY <2>3, <3>1 DEF NewRowPart!Ended
      <4> QED BY <1>0, <4>1, RowEnded
    <3> QED BY <3>1
  <2>4. CASE NewRowPart!Created \/ NewRowPart!CreateFailed
    BY <2>3, <2>4 DEF NewRowPart!Created, NewRowPart!CreateFailed
  <2> QED
    BY <2>1, <2>2, <2>4 DEF NewRowPart!Next, NewRowPart!vars, NewRowPart!OtherTab,
       NewRowPart!Open, NewRowPart!Close, NewRowPart!Type, NewRowPart!Create,
       NewRowPart!DismissKey
<1>5. rows' \subseteq {NewRowPart!Row(id, o, e) : id \in 1 .. MaxMade, o \in 1 .. MaxOpenings,
                                                 e \in {"awaited", "told", "lost"}}
  BY <1>4 DEF RowTyped
<1> QED
  BY <1>1, <1>2, <1>3, <1>5 DEF NewRowTypes, NewRowPart!NewRowTypeOK

-----------------------------------------------------------------------------
(***************************************************************************)
(* Types of the pages.                                                     *)
(***************************************************************************)
PagesTypes ==
    /\ LiveTypes /\ AssetTypes /\ MonitorTypesInv
    /\ DeployInv /\ DeployPart!DeployTypeOK
    /\ CsvTypes
    /\ PanelInv
    /\ NewRowTypes /\ RowsInv

\* Lists, forms, wizards, imports, the panel and the forms that add a row stay
\* of their declared types, for any rows, texts, hosts and answers, and any
\* bounds; in particular an import makes no more assets than its text has rows.
THEOREM ScreenTypes == MCSpec => []MCTypeOK
<1>1. MCInit => PagesTypes
  BY LiveTypesInit, AssetTypesInit, MonitorTypesInit, DeployInit, DeployTypesInit,
     CsvTypesInit, PanelInit, NewRowInit, NewRowTypesInit
     DEF MCInit, PagesTypes, NewRowInv
<1>2. PagesTypes /\ [MCNext]_allVars => PagesTypes'
  BY PagesApart, LiveTypesStep, AssetTypesStep, MonitorTypesStep, DeployStep,
     DeployTypesStep, CsvTypesStep, PanelStep, NewRowTypesStep, RowsStep
     DEF PagesTypes
<1>3. PagesTypes => MCTypeOK
  BY AssetTypesAre, MonitorTypesAre, CsvTypesAre
     DEF PagesTypes, LiveTypes, PanelInv, NewRowTypes, MCTypeOK
<1> QED
  BY <1>1, <1>2, <1>3, PTL DEF MCSpec

-----------------------------------------------------------------------------
(***************************************************************************)
(* The palette.                                                            *)
(***************************************************************************)
TypeNames == {"page", "asset", "monitor", "incident"}
Row == [type : TypeNames, id : Nat]
Rank(r) == CASE r.type = "page" -> 1
             [] r.type = "asset" -> 2
             [] r.type = "monitor" -> 3
             [] r.type = "incident" -> 4

\* A list whose groups stand one after another.
InGroups(entries) ==
    /\ entries \in Seq(Row)
    /\ \A i, j \in DOMAIN entries : i < j => Rank(entries[i]) <= Rank(entries[j])

LEMMA Ranked ==
  ASSUME NEW r \in Row
  PROVE  /\ Rank(r) \in 1 .. 4
         /\ Rank(r) = 1 <=> r.type = "page" 
         /\ Rank(r) = 2 <=> r.type = "asset"
         /\ Rank(r) = 3 <=> r.type = "monitor"
         /\ Rank(r) = 4 <=> r.type = "incident"
<1>1. r.type \in TypeNames
  BY DEF Row
<1>2. CASE r.type = "page"
  BY <1>2 DEF Rank
<1>3. CASE r.type = "asset"
  BY <1>3 DEF Rank
<1>4. CASE r.type = "monitor"
  BY <1>4 DEF Rank
<1>5. CASE r.type = "incident"
  BY <1>5 DEF Rank
<1> QED
  BY <1>1, <1>2, <1>3, <1>4, <1>5 DEF TypeNames

\* Drawn group by group, a list whose groups stand one after another is as it was.
LEMMA GroupsJoin ==
  ASSUME NEW entries, InGroups(entries)
  PROVE  PalettePart!Grouped(entries, "page") \o PalettePart!Grouped(entries, "asset")
           \o PalettePart!Grouped(entries, "monitor") \o PalettePart!Grouped(entries, "incident")
             = entries
<1> DEFINE n == Len(entries)
           U(g) == {i \in 1 .. n : Rank(entries[i]) <= g}
           G(type) == {i \in DOMAIN entries : entries[i].type = type}
<1>1. entries \in Seq(Row) /\ n \in Nat /\ DOMAIN entries = 1 .. n
  BY DEF InGroups
<1>2. \A i \in 1 .. n : entries[i] \in Row /\ Rank(entries[i]) \in Nat
  BY <1>1, Ranked
<1>3. \A g \in Nat : \E m \in 0 .. n : U(g) = 1 .. m
  <2> TAKE g \in Nat
  <2>1. U(g) \in SUBSET (1 .. n)
    OBVIOUS
  <2>2. ASSUME NEW i \in U(g), NEW j \in 1 .. n, j <= i PROVE j \in U(g)
    <3>1. Rank(entries[j]) <= Rank(entries[i])
      BY <1>1, <1>2, <2>2 DEF InGroups
    <3> QED
      BY <1>2, <3>1
  <2> HIDE DEF U
  <2> QED
    BY <1>1, <2>1, <2>2, FirstPlaces
<1> HIDE DEF n
<1>4. PICK m1 \in 0 .. n : U(1) = 1 .. m1
  BY <1>3
<1>5. PICK m2 \in 0 .. n : U(2) = 1 .. m2
  BY <1>3
<1>6. PICK m3 \in 0 .. n : U(3) = 1 .. m3
  BY <1>3
<1>7. \A i \in 1 .. n : /\ i <= m1 <=> Rank(entries[i]) <= 1
                        /\ i <= m2 <=> Rank(entries[i]) <= 2
                        /\ i <= m3 <=> Rank(entries[i]) <= 3
  BY <1>1, <1>4, <1>5, <1>6
<1>8. m1 <= m2 /\ m2 <= m3
  <2>1. ASSUME m1 > m2 PROVE FALSE
    <3>1. m1 \in 1 .. n /\ ~(m1 <= m2) /\ m1 <= m1
      BY <1>1, <2>1
    <3> QED
      BY <1>2, <1>7, <3>1
  <2>2. ASSUME m2 > m3 PROVE FALSE
    <3>1. m2 \in 1 .. n /\ ~(m2 <= m3) /\ m2 <= m2
      BY <1>1, <2>2
    <3> QED
      BY <1>2, <1>7, <3>1
  <2> QED
    BY <1>1, <2>1, <2>2
<1> HIDE DEF U
<1>9. \A i \in 1 .. n : /\ entries[i].type = "page" <=> i <= m1
                        /\ entries[i].type = "asset" <=> i <= m2 /\ ~(i <= m1)
                        /\ entries[i].type = "monitor" <=> i <= m3 /\ ~(i <= m2)
                        /\ entries[i].type = "incident" <=> ~(i <= m3)
  <2> TAKE i \in 1 .. n
  <2>1. entries[i] \in Row
    BY <1>2
  <2>2. Rank(entries[i]) \in 1 .. 4
    BY <2>1, Ranked
  <2> QED
    BY <1>7, <2>1, <2>2, Ranked
<1>10. /\ G("page") = 1 .. m1 /\ G("asset") = m1 + 1 .. m2
       /\ G("monitor") = m2 + 1 .. m3 /\ G("incident") = m3 + 1 .. n
  BY <1>1, <1>9, <1>4, <1>5, <1>6
<1>16. /\ n = Len(entries) /\ m2 \in 0 .. Len(entries) /\ m3 \in 0 .. Len(entries)
       /\ n \in 0 .. Len(entries) /\ m1 \in 0 .. m2 /\ m2 \in 0 .. m3 /\ m3 \in 0 .. n
  BY <1>1, <1>8 DEF n
<1>11. Kept(entries, 1 .. m1) \o Kept(entries, m1 + 1 .. m2) = Kept(entries, 1 .. m2)
  BY <1>1, <1>16, KeptJoins
<1>12. Kept(entries, 1 .. m2) \o Kept(entries, m2 + 1 .. m3) = Kept(entries, 1 .. m3)
  BY <1>1, <1>16, KeptJoins
<1>13. Kept(entries, 1 .. m3) \o Kept(entries, m3 + 1 .. n) = Kept(entries, 1 .. n)
  BY <1>1, <1>16, KeptJoins
<1>14. Kept(entries, 1 .. n) = entries
  <2>1. 1 \in Nat \ {0} /\ n \in 0 .. Len(entries) /\ 1 <= n + 1 /\ n - 1 + 1 = n
    BY <1>1 DEF n
  <2>2. /\ Kept(entries, 1 .. n) \in Seq(Row) /\ Len(Kept(entries, 1 .. n)) = n
        /\ \A k \in 1 .. n : Kept(entries, 1 .. n)[k] = entries[1 + k - 1]
    <3>1. /\ Kept(entries, 1 .. n) \in Seq(Row) /\ Len(Kept(entries, 1 .. n)) = n - 1 + 1
          /\ \A k \in 1 .. n - 1 + 1 : Kept(entries, 1 .. n)[k] = entries[1 + k - 1]
      BY <1>1, <2>1, KeptOfInterval
    <3> QED
      BY <2>1, <3>1
  <2>3. \A k \in 1 .. n : 1 + k - 1 = k
    OBVIOUS
  <2> QED
    BY <1>1, <2>2, <2>3, SeqEqual DEF n
<1> HIDE DEF G
<1>15. ASSUME NEW type PROVE PalettePart!Grouped(entries, type) = Kept(entries, G(type))
  BY DEF PalettePart!Grouped, G, PalettePart!Kept, Kept, PalettePart!Nth, Nth,
         PalettePart!Cardinality, Cardinality
<1> QED
  BY <1>10, <1>11, <1>12, <1>13, <1>14, <1>15

ListTypes == {"asset", "monitor", "incident"}
PaletteTypes == lists \in [ListTypes -> Seq(Nat)] /\ selectedIdx \in Nat

LEMMA RowsOf ==
  ASSUME NEW type \in TypeNames, NEW ids \in Seq(Nat)
  PROVE  /\ PalettePart!Rows(type, ids) \in Seq(Row)
         /\ \A i \in 1 .. Len(PalettePart!Rows(type, ids)) :
               PalettePart!Rows(type, ids)[i].type = type
<1> DEFINE entries == PalettePart!Rows(type, ids)
<1>1. entries = [i \in 1 .. Len(ids) |-> [type |-> type, id |-> ids[i]]] /\ Len(ids) \in Nat
  BY DEF PalettePart!Rows
<1>2. \A i \in 1 .. Len(ids) : [type |-> type, id |-> ids[i]] \in Row
  BY DEF Row
<1> HIDE DEF entries
<1>3. entries \in Seq(Row)
  BY <1>1, <1>2, IsASeq
<1>4. DOMAIN entries = 1 .. Len(ids) /\ Len(entries) = Len(ids)
  BY <1>1, <1>3
<1>5. \A i \in 1 .. Len(entries) : entries[i].type = type
  BY <1>1, <1>4
<1> QED
  BY <1>3, <1>5 DEF entries

\* A group put behind groups that come before it.
LEMMA GroupBehind ==
  ASSUME NEW entries, InGroups(entries), NEW type \in TypeNames, NEW ids \in Seq(Nat),
         NEW g \in 1 .. 4, \A r \in Row : r.type = type => Rank(r) = g,
         \A i \in DOMAIN entries : Rank(entries[i]) <= g
  PROVE  /\ InGroups(entries \o PalettePart!Rows(type, ids))
         /\ \A i \in DOMAIN (entries \o PalettePart!Rows(type, ids)) :
               Rank((entries \o PalettePart!Rows(type, ids))[i]) <= g
<1> DEFINE new == PalettePart!Rows(type, ids)
           all == entries \o new
<1>1. new \in Seq(Row) /\ \A i \in 1 .. Len(new) : new[i].type = type
  BY RowsOf
<1>2. entries \in Seq(Row) /\ Len(entries) \in Nat /\ Len(new) \in Nat
  BY <1>1 DEF InGroups
<1> HIDE DEF new
<1>3. /\ all \in Seq(Row) /\ Len(all) = Len(entries) + Len(new)
      /\ \A i \in 1 .. Len(entries) + Len(new) :
            all[i] = IF i <= Len(entries) THEN entries[i] ELSE new[i - Len(entries)]
  BY <1>1, <1>2, ConcatProperties
<1>4. DOMAIN all = 1 .. Len(entries) + Len(new) /\ DOMAIN entries = 1 .. Len(entries)
  BY <1>2, <1>3
<1> HIDE DEF all
<1>5. \A i \in 1 .. Len(new) : Rank(new[i]) = g
  BY <1>1, <1>2
<1>6. ASSUME NEW i \in DOMAIN all
      PROVE  \/ i \in DOMAIN entries /\ all[i] = entries[i]
             \/ ~(i <= Len(entries)) /\ Rank(all[i]) = g
  <2>1. i \in 1 .. Len(entries) + Len(new) /\ i \in Nat
    BY <1>4
  <2>2. CASE i <= Len(entries)
    BY <1>2, <1>3, <1>4, <2>1, <2>2
  <2>3. CASE ~(i <= Len(entries))
    <3>1. i - Len(entries) \in 1 .. Len(new)
      BY <1>2, <2>1, <2>3
    <3> QED
      BY <1>3, <1>5, <2>1, <2>3, <3>1
  <2> QED
    BY <2>2, <2>3
<1>7. \A i \in DOMAIN all : Rank(all[i]) <= g
  BY <1>6
<1>8. ASSUME NEW i \in DOMAIN all, NEW j \in DOMAIN all, i < j
      PROVE  Rank(all[i]) <= Rank(all[j])
  <2>1. i \in Nat /\ j \in Nat
    BY <1>4
  <2>2. CASE j \in DOMAIN entries /\ all[j] = entries[j]
    <3>1. i <= Len(entries)
      BY <1>2, <1>4, <1>8, <2>1, <2>2
    <3> QED
      BY <1>6, <1>8, <2>2, <3>1 DEF InGroups
  <2>3. CASE Rank(all[j]) = g
    BY <1>7, <2>3
  <2> QED
    BY <1>6, <2>2, <2>3
<1> QED
  BY <1>3, <1>7, <1>8 DEF InGroups, all, new

LEMMA FilteredInGroups ==
  ASSUME PaletteTypes
  PROVE  InGroups(PalettePart!filtered)
<1> DEFINE pages == PalettePart!Rows("page", PageRows)
           L(type) == PalettePart!Rows(type, lists[type])
           a == pages \o L("asset")
           b == a \o L("monitor")
           all == b \o L("incident")
<1>1. \A type \in ListTypes : lists[type] \in Seq(Nat)
  BY DEF PaletteTypes
<1>2. InGroups(pages) /\ \A i \in DOMAIN pages : Rank(pages[i]) <= 2
  <2>1. PageRows \in Seq(Nat) /\ "page" \in TypeNames
    BY PaletteAssumption DEF TypeNames
  <2>2. pages \in Seq(Row) /\ \A i \in 1 .. Len(pages) : pages[i].type = "page"
    BY <2>1, RowsOf
  <2> HIDE DEF pages
  <2>3. DOMAIN pages = 1 .. Len(pages) /\ \A i \in DOMAIN pages : Rank(pages[i]) = 1
    BY <2>2, Ranked
  <2> QED
    BY <2>2, <2>3 DEF InGroups
<1>3. \A type \in ListTypes : type \in TypeNames
  BY DEF ListTypes, TypeNames
<1> HIDE DEF pages
<1>4. InGroups(a) /\ \A i \in DOMAIN a : Rank(a[i]) <= 2
  <2>1. \A r \in Row : r.type = "asset" => Rank(r) = 2
    BY Ranked
  <2>2. "asset" \in TypeNames /\ lists["asset"] \in Seq(Nat)
    BY <1>1 DEF TypeNames, ListTypes
  <2> QED
    BY <1>2, <2>1, <2>2, GroupBehind
<1> HIDE DEF a
<1>5. InGroups(b) /\ \A i \in DOMAIN b : Rank(b[i]) <= 3
  <2>1. \A r \in Row : r.type = "monitor" => Rank(r) = 3
    BY Ranked
  <2>2. "monitor" \in TypeNames /\ lists["monitor"] \in Seq(Nat)
    BY <1>1 DEF TypeNames, ListTypes
  <2>3. \A i \in DOMAIN a : Rank(a[i]) <= 3
    <3>1. \A i \in DOMAIN a : Rank(a[i]) \in Nat
      BY <1>4, Ranked DEF InGroups
    <3> QED
      BY <1>4, <3>1
  <2> QED
    BY <1>4, <2>1, <2>2, <2>3, GroupBehind
<1> HIDE DEF b
<1>6. InGroups(all)
  <2>1. \A r \in Row : r.type = "incident" => Rank(r) = 4
    BY Ranked
  <2>2. "incident" \in TypeNames /\ lists["incident"] \in Seq(Nat)
    BY <1>1 DEF TypeNames, ListTypes
  <2>3. \A i \in DOMAIN b : Rank(b[i]) <= 4
    <3>1. \A i \in DOMAIN b : Rank(b[i]) \in Nat
      BY <1>5, Ranked DEF InGroups
    <3> QED
      BY <1>5, <3>1
  <2> QED
    BY <1>5, <2>1, <2>2, <2>3, GroupBehind
<1>7. PalettePart!allResults = all
  BY DEF PalettePart!allResults, PalettePart!Listed, PalettePart!ListOrder, PalettePart!Types,
         all, b, a, pages
<1> HIDE DEF all
<1> DEFINE I == {i \in DOMAIN all : Hit(all[i], typed)}
           kept == Kept(all, I)
<1>8. InGroups(kept)
  <2>1. all \in Seq(Row) /\ I \in SUBSET DOMAIN all
    BY <1>6 DEF InGroups
  <2> HIDE DEF I
  <2>2. /\ kept \in Seq(Row) /\ Len(kept) = Cardinality(I) /\ Cardinality(I) \in Nat
        /\ \A k \in 1 .. Cardinality(I) : Nth(I, k) \in I /\ kept[k] = all[Nth(I, k)]
        /\ \A k, l \in 1 .. Cardinality(I) : k < l => Nth(I, k) < Nth(I, l)
    BY <2>1, KeptInOrder
  <2> HIDE DEF kept
  <2>3. DOMAIN kept = 1 .. Cardinality(I)
    BY <2>2
  <2> QED
    BY <1>6, <2>1, <2>2, <2>3 DEF InGroups
<1>9. PalettePart!filtered = IF typed = "" THEN pages ELSE kept
  BY <1>7 DEF PalettePart!filtered, PalettePart!Kept, Kept, PalettePart!Nth, Nth,
              PalettePart!Cardinality, Cardinality, pages, Hit
<1> QED
  BY <1>2, <1>8, <1>9

\* The rows are drawn in the order of the filtered list.
LEMMA DrawnFiltered ==
  ASSUME PaletteTypes
  PROVE  PalettePart!Drawn = PalettePart!filtered /\ PalettePart!filtered \in Seq(Row)
<1>1. InGroups(PalettePart!filtered)
  BY FilteredInGroups
<1>2. PalettePart!Drawn =
        PalettePart!Grouped(PalettePart!filtered, "page")
          \o PalettePart!Grouped(PalettePart!filtered, "asset")
          \o PalettePart!Grouped(PalettePart!filtered, "monitor")
          \o PalettePart!Grouped(PalettePart!filtered, "incident")
  BY DEF PalettePart!Drawn, PalettePart!Types
<1> QED
  BY <1>1, <1>2, GroupsJoin DEF InGroups

\* Unless a list arrived since, the mark is on a row.
PaletteInv ==
    /\ PaletteTypes /\ {open, slipped} \subseteq BOOLEAN
    /\ went = marked
    /\ open /\ ~slipped /\ PalettePart!filtered # <<>>
         => selectedIdx \in DOMAIN PalettePart!filtered

LEMMA PaletteTrue == PaletteInv => PalettePart!EnterOpensMarked /\ PalettePart!MarkShown
<1> SUFFICES ASSUME PaletteInv PROVE PalettePart!EnterOpensMarked /\ PalettePart!MarkShown
  OBVIOUS
<1>1. PalettePart!Drawn = PalettePart!filtered /\ PalettePart!filtered \in Seq(Row)
  BY DrawnFiltered DEF PaletteInv
<1>2. \A i \in DOMAIN PalettePart!filtered : PalettePart!filtered[i] # PalettePart!NoRow
  <2>1. \A r \in Row : r # PalettePart!NoRow
    BY DEF Row, TypeNames, PalettePart!NoRow
  <2> QED
    BY <1>1, <2>1
<1> QED
  BY <1>1, <1>2 DEF PaletteInv, PalettePart!EnterOpensMarked, PalettePart!MarkShown,
                    PalettePart!Marked

LEMMA TypesOfLists == PalettePart!ToSet(PalettePart!Types) = ListTypes
<1>1. PalettePart!Types[1] = "asset" /\ PalettePart!Types[2] = "monitor"
      /\ PalettePart!Types[3] = "incident" /\ DOMAIN PalettePart!Types = 1 .. 3
  BY DEF PalettePart!Types
<1>2. 1 .. 3 = {1, 2, 3}
  OBVIOUS
<1> QED
  BY <1>1, <1>2 DEF PalettePart!ToSet, ListTypes

FilteredRows == PalettePart!filtered \in Seq(Row)

LEMMA RowsFiltered == PaletteTypes' => FilteredRows'
<1>1. PaletteTypes => FilteredRows
  BY DrawnFiltered DEF FilteredRows
<1> QED
  BY <1>1, PTL

LEMMA PaletteInit == PalettePart!Init => PaletteInv
<1> SUFFICES ASSUME PalettePart!Init PROVE PaletteInv
  OBVIOUS
<1>1. lists \in [ListTypes -> Seq(Nat)]
  <2>1. lists = [t \in ListTypes |-> <<>>]
    BY TypesOfLists DEF PalettePart!Init
  <2> QED
    BY <2>1
<1> QED
  BY <1>1 DEF PalettePart!Init, PaletteInv, PaletteTypes

LEMMA FilteredSame ==
  ASSUME UNCHANGED <<typed, lists>>
  PROVE  PalettePart!filtered' = PalettePart!filtered
BY DEF PalettePart!filtered, PalettePart!allResults, PalettePart!Listed, Hit

\* A filtered list that is not empty has a first and a last row.
LEMMA PaletteStep ==
  ASSUME PaletteInv, [PalettePart!Next]_(PalettePart!vars)
  PROVE  PaletteInv'
<1> DEFINE entries == PalettePart!filtered
<1>1. PalettePart!Drawn = entries /\ entries \in Seq(Row)
  BY DrawnFiltered DEF PaletteInv
<1>2. Len(entries) \in Nat /\ DOMAIN entries = 1 .. Len(entries) /\ (entries # <<>> => Len(entries) >= 1)
  <2> HIDE DEF entries
  <2> QED
    BY <1>1
<1>3. UNCHANGED <<typed, lists>> => entries' = entries
  BY FilteredSame
<1>4. PaletteTypes' => DOMAIN entries' = 1 .. Len(entries') /\ (entries' # <<>> => 1 \in DOMAIN entries')
  <2>1. PaletteTypes' => entries' \in Seq(Row)
    BY RowsFiltered DEF FilteredRows
  <2> HIDE DEF entries
  <2> QED
    BY <2>1
<1> HIDE DEF entries
<1>5. selectedIdx \in Nat /\ {open, slipped} \subseteq BOOLEAN /\ went = marked
      /\ lists \in [ListTypes -> Seq(Nat)]
      /\ (open /\ ~slipped /\ entries # <<>> => selectedIdx \in DOMAIN entries)
  BY DEF PaletteInv, PaletteTypes, entries
<1>6. ASSUME NEW i \in Nat, PalettePart!Move(i),
             open /\ ~slipped /\ entries # <<>> => i \in DOMAIN entries
      PROVE  PaletteInv'
  <2>1. /\ open /\ selectedIdx' = i /\ entries' = entries /\ UNCHANGED <<open, lists, went, marked>>
        /\ slipped' = (slipped /\ i \notin DOMAIN entries)
    BY <1>1, <1>3, <1>6 DEF PalettePart!Move
  <2> QED
    BY <1>5, <1>6, <2>1 DEF PaletteInv, PaletteTypes, entries
<1>7. CASE PalettePart!Toggle
  <2>1. UNCHANGED <<lists, went, marked>> /\ open' = ~open
    BY <1>7 DEF PalettePart!Toggle
  <2>2. CASE open
    <3>1. open' = FALSE /\ selectedIdx' = selectedIdx /\ slipped' = slipped
      BY <1>7, <2>2 DEF PalettePart!Toggle
    <3> QED
      BY <1>5, <2>1, <3>1 DEF PaletteInv, PaletteTypes
  <2>3. CASE ~open
    <3>1. selectedIdx' = 1 /\ slipped' = FALSE
      BY <1>7, <2>3 DEF PalettePart!Toggle
    <3>2. PaletteTypes'
      BY <1>5, <2>1, <3>1 DEF PaletteTypes
    <3> QED
      BY <1>4, <1>5, <2>1, <3>1, <3>2 DEF PaletteInv, entries
  <2> QED
    BY <2>2, <2>3
<1>8. CASE PalettePart!Escape
  BY <1>5, <1>8 DEF PalettePart!Escape, PaletteInv, PaletteTypes
<1>9. ASSUME NEW q, PalettePart!Type(q) PROVE PaletteInv'
  <2>1. selectedIdx' = 1 /\ slipped' = FALSE /\ UNCHANGED <<open, lists, went, marked>>
    BY <1>9 DEF PalettePart!Type, PalettePart!MarkOfNewQuery
  <2>2. PaletteTypes'
    BY <1>5, <2>1 DEF PaletteTypes
  <2> QED
    BY <1>4, <1>5, <2>1, <2>2 DEF PaletteInv, entries
<1>10. CASE PalettePart!ArrowDown
  <2> DEFINE i == PalettePart!Min({selectedIdx + 1, Len(entries)})
  <2>1. \E x \in {selectedIdx + 1, Len(entries)} : \A y \in {selectedIdx + 1, Len(entries)} : x <= y
    BY <1>2, <1>5
  <2>2. i \in {selectedIdx + 1, Len(entries)} /\ i <= selectedIdx + 1 /\ i <= Len(entries)
    BY <2>1 DEF PalettePart!Min
  <2>3. PalettePart!Move(i)
    BY <1>10 DEF PalettePart!ArrowDown, entries
  <2> HIDE DEF i
  <2>4. i \in Nat /\ (entries # <<>> => i \in DOMAIN entries)
    <3>1. selectedIdx + 1 \in Nat /\ selectedIdx + 1 >= 1 /\ Len(entries) \in Nat
      BY <1>2, <1>5
    <3>2. CASE i = selectedIdx + 1
      BY <1>2, <2>2, <3>1, <3>2
    <3>3. CASE i = Len(entries)
      BY <1>2, <2>2, <3>1, <3>3
    <3> QED
      BY <2>2, <3>2, <3>3
  <2> QED
    BY <1>6, <2>3, <2>4
<1>11. CASE PalettePart!ArrowUp
  <2> DEFINE m == PalettePart!Max({selectedIdx, 2})
  <2>1. \E x \in {selectedIdx, 2} : \A y \in {selectedIdx, 2} : x >= y
    BY <1>5
  <2>2. m \in {selectedIdx, 2} /\ m >= selectedIdx /\ m >= 2
    BY <2>1 DEF PalettePart!Max
  <2>3. PalettePart!Move(m - 1)
    BY <1>11 DEF PalettePart!ArrowUp
  <2> HIDE DEF m
  <2>4. m - 1 \in Nat /\ (selectedIdx \in DOMAIN entries => m - 1 \in DOMAIN entries)
    BY <1>2, <1>5, <2>2
  <2> QED
    BY <1>5, <1>6, <2>3, <2>4
<1>12. CASE PalettePart!Enter
  <2>1. selectedIdx \in DOMAIN entries /\ PalettePart!navigate(entries[selectedIdx])
    BY <1>12 DEF PalettePart!Enter, entries
  <2>2. PalettePart!Marked = entries[selectedIdx]
    BY <1>1, <2>1 DEF PalettePart!Marked
  <2>3. /\ open' = FALSE /\ went' = marked' /\ UNCHANGED <<selectedIdx, lists, slipped>>
    BY <2>1, <2>2 DEF PalettePart!navigate
  <2> QED
    BY <1>5, <2>3 DEF PaletteInv, PaletteTypes
<1>13. ASSUME NEW i \in DOMAIN PalettePart!Drawn, PalettePart!Hover(i) PROVE PaletteInv'
  <2>1. i \in DOMAIN entries /\ i \in Nat /\ PalettePart!Move(i)
    BY <1>1, <1>2, <1>13 DEF PalettePart!Hover
  <2> QED
    BY <1>6, <2>1
<1>14. ASSUME NEW i \in DOMAIN PalettePart!Drawn, PalettePart!Click(i) PROVE PaletteInv'
  <2>1. PalettePart!navigate(PalettePart!Drawn[i]) /\ selectedIdx = i
    BY <1>14 DEF PalettePart!Click
  <2>2. PalettePart!Marked = PalettePart!Drawn[i]
    BY <1>14, <2>1 DEF PalettePart!Marked
  <2>3. /\ open' = FALSE /\ went' = marked' /\ UNCHANGED <<selectedIdx, lists, slipped>>
    BY <2>1, <2>2 DEF PalettePart!navigate
  <2> QED
    BY <1>5, <2>3 DEF PaletteInv, PaletteTypes
<1>15. ASSUME NEW t \in ListTypes, NEW brought \in Listings, PalettePart!Arrives(t, brought)
       PROVE  PaletteInv'
  <2>1. brought \in Seq(Nat)
    BY PaletteAssumption
  <2>2. lists' = [lists EXCEPT ![t] = brought] /\ slipped' = TRUE
        /\ UNCHANGED <<open, selectedIdx, went, marked>>
    BY <1>15 DEF PalettePart!Arrives
  <2>3. lists' \in [ListTypes -> Seq(Nat)]
    BY <1>5, <2>1, <2>2
  <2> QED
    BY <1>5, <2>2, <2>3 DEF PaletteInv, PaletteTypes
<1>16. CASE UNCHANGED PalettePart!vars
  BY <1>3, <1>5, <1>16 DEF PalettePart!vars, PaletteInv, PaletteTypes, entries
<1>17. \A t \in ListTypes :
          [type \in {"asset", "monitor", "incident"} |-> Listings][t] = Listings
  BY DEF ListTypes
<1> QED
  BY <1>7, <1>8, <1>9, <1>10, <1>11, <1>12, <1>13, <1>14, <1>15, <1>16, <1>17, TypesOfLists
     DEF PalettePart!Next

-----------------------------------------------------------------------------
(***************************************************************************)
(* The charts.                                                             *)
(***************************************************************************)
LEMMA Quotient ==
  ASSUME NEW x \in Nat, NEW p \in Nat \ {0}
  PROVE  /\ x \div p \in Nat /\ x % p \in 0 .. p - 1 /\ x = ((x \div p) * p) + (x % p)
<1>1. x = ((x \div p) * p) + (x % p)
  OBVIOUS
<1>2. x % p \in 0 .. p - 1
  OBVIOUS
<1>3. x \div p \in Nat
  OBVIOUS
<1> QED
  BY <1>1, <1>2, <1>3

LEMMA TimesGrows ==
  ASSUME NEW a \in Int, NEW b \in Int, NEW p \in Nat \ {0}, a * p < b * p
  PROVE  a < b
<1> SUFFICES ASSUME a >= b PROVE FALSE
  OBVIOUS
<1>1. PICK d \in Nat : a = b + d
  <2>1. a - b \in Nat /\ a = b + (a - b)
    OBVIOUS
  <2> QED
    BY <2>1
<1>2. a * p = b * p + d * p
  BY <1>1
<1>3. d * p \in Nat
  OBVIOUS
<1> QED
  BY <1>2, <1>3

LEMMA MinuteGrows ==
  ASSUME NEW s \in Nat, NEW t \in Nat, NEW p \in Nat \ {0}, s <= t
  PROVE  s \div p <= t \div p
<1> DEFINE a == s \div p
           b == t \div p
<1>1. a \in Nat /\ b \in Nat /\ a * p <= s /\ t < b * p + p
  BY Quotient
<1> HIDE DEF a, b
<1>2. a * p < (b + 1) * p
  <2>1. (b + 1) * p = b * p + p
    BY <1>1
  <2> QED
    BY <1>1, <2>1
<1>3. a < b + 1
  BY <1>1, <1>2, TimesGrows
<1> QED
  BY <1>1, <1>3 DEF a, b

LEMMA MinutesOfRange ==
  ASSUME NEW t \in Nat, NEW last \in Nat, NEW p \in Nat \ {0}, NEW r \in Nat,
         t >= last - r * p
  PROVE  last \div p <= t \div p + r
<1> DEFINE a == last \div p
           b == t \div p
<1>1. a \in Nat /\ b \in Nat /\ a * p <= last /\ t < b * p + p
  BY Quotient
<1> HIDE DEF a, b
<1>2. a * p < (b + 1 + r) * p
  <2>1. (b + 1 + r) * p = b * p + p + r * p /\ r * p \in Nat /\ b * p \in Nat /\ a * p \in Nat
    BY <1>1
  <2> QED
    BY <1>1, <2>1
<1>3. a < b + 1 + r
  BY <1>1, <1>2, TimesGrows
<1> QED
  BY <1>1, <1>3 DEF a, b

LEMMA SameLabel ==
  ASSUME NEW x \in Nat, NEW y \in Nat, NEW d \in Nat \ {0}, x % d = y % d, x < y, y <= x + d
  PROVE  y = x + d
<1> DEFINE a == x \div d
           b == y \div d
           m == x % d
<1>1. a \in Nat /\ b \in Nat /\ m \in Nat /\ x = a * d + m /\ y = b * d + m
  <2>1. /\ x \div d \in Nat /\ x % d \in 0 .. d - 1
        /\ x = ((x \div d) * d) + (x % d)
    BY Quotient
  <2>2. y \div d \in Nat /\ y = ((y \div d) * d) + (y % d)
    BY Quotient
  <2> QED
    BY <2>1, <2>2
<1> HIDE DEF a, b, m
<1>2. a * d < b * d
  <2>1. a * d \in Nat /\ b * d \in Nat
    BY <1>1
  <2> QED
    BY <1>1, <2>1
<1>3. a < b
  BY <1>1, <1>2, TimesGrows
<1>4. PICK c \in Nat : b = a + 1 + c
  <2>1. b - a - 1 \in Nat /\ b = a + 1 + (b - a - 1)
    BY <1>1, <1>3
  <2> QED
    BY <2>1
<1>5. b * d = a * d + d + c * d /\ c * d \in Nat /\ a * d \in Nat
  BY <1>1, <1>4
<1> QED
  BY <1>1, <1>5

\* The rows of a metric are in the order they were measured in.
ChartInv ==
    /\ now \in 0 .. MaxTime /\ minutes \in ChartRanges
    /\ metric \in [Metrics -> Seq(0 .. MaxTime)]
    /\ \A n \in Metrics :
         /\ \A i, j \in DOMAIN metric[n] : i < j => metric[n][i] < metric[n][j]
         /\ \A i \in DOMAIN metric[n] : metric[n][i] <= now

SinceOf(n, time) == Kept(metric[n], {i \in DOMAIN metric[n] : metric[n][i] >= time})

LEMMA SinceIs == \A n, time : ChartPart!Since(n, time) = SinceOf(n, time)
BY DEF ChartPart!Since, SinceOf, ChartPart!Kept, Kept, ChartPart!Nth, Nth,
       ChartPart!Cardinality, Cardinality

\* Rows since a time are in order, of that time or later, and end with the newest.
LEMMA SinceInOrder ==
  ASSUME ChartInv, NEW n \in Metrics, NEW time \in Int
  PROVE  LET s == ChartPart!Since(n, time) IN
         /\ s \in Seq(0 .. MaxTime)
         /\ \A i, j \in DOMAIN s : i < j => s[i] < s[j]
         /\ \A i \in DOMAIN s : s[i] >= time /\ s[i] <= now
         /\ s # <<>> => metric[n] # <<>> /\ s[Len(s)] = metric[n][Len(metric[n])]
<1> DEFINE m == metric[n]
           I == {i \in DOMAIN m : m[i] >= time}
           s == Kept(m, I)
           c == Cardinality(I)
<1>1. /\ m \in Seq(0 .. MaxTime) /\ Len(m) \in Nat /\ DOMAIN m = 1 .. Len(m)
      /\ I \in SUBSET DOMAIN m /\ I \in SUBSET (1 .. Len(m))
  BY DEF ChartInv
<1>2. ChartPart!Since(n, time) = s
  BY SinceIs DEF SinceOf
<1>3. /\ \A i, j \in DOMAIN m : i < j => m[i] < m[j]
      /\ \A i \in DOMAIN m : m[i] <= now /\ m[i] \in Int
      /\ \A i \in I : m[i] >= time
      /\ \A i \in DOMAIN m : m[i] >= time => i \in I
  <2>1. /\ \A i, j \in DOMAIN m : i < j => m[i] < m[j]
        /\ \A i \in DOMAIN m : m[i] <= now
    BY DEF ChartInv
  <2>2. ASSUME NEW i \in DOMAIN m PROVE m[i] \in Int
    <3>1. m[i] \in 0 .. MaxTime
      <4> HIDE DEF m
      <4> QED
        BY <1>1, ElementOfSeq
    <3> QED
      BY <3>1
  <2> QED
    BY <2>1, <2>2
<1> HIDE DEF m, I
<1>4. /\ s \in Seq(0 .. MaxTime) /\ Len(s) = c /\ c \in 0 .. Len(m)
      /\ \A k \in 1 .. c : Nth(I, k) \in I /\ s[k] = m[Nth(I, k)]
      /\ \A k, l \in 1 .. c : k < l => Nth(I, k) < Nth(I, l)
  BY <1>1, KeptInOrder
<1> HIDE DEF s, c
<1>5. DOMAIN s = 1 .. c /\ c \in Nat
  BY <1>1, <1>4
<1>6. \A i, j \in DOMAIN s : i < j => s[i] < s[j]
  BY <1>1, <1>3, <1>4, <1>5
<1>7. \A i \in DOMAIN s : s[i] >= time /\ s[i] <= now
  BY <1>1, <1>3, <1>4, <1>5
<1>8. ASSUME s # <<>> PROVE m # <<>> /\ s[Len(s)] = m[Len(m)]
  <2>1. c \in 1 .. c /\ c >= 1
    BY <1>4, <1>5, <1>8
  <2>2. Nth(I, c) \in 1 .. Len(m)
    BY <1>1, <1>4, <2>1
  <2>3. m # <<>> /\ Len(m) \in DOMAIN m
    BY <1>1, <2>2
  <2>4. m[Nth(I, c)] <= m[Len(m)]
    <3>1. CASE Nth(I, c) = Len(m)
      BY <1>3, <2>3, <3>1
    <3>2. CASE Nth(I, c) # Len(m)
      <4>1. Nth(I, c) < Len(m)
        BY <1>1, <2>2, <3>2
      <4> QED
        BY <1>1, <1>3, <2>2, <2>3, <4>1
    <3> QED
      BY <3>1, <3>2
  <2>5. m[Nth(I, c)] >= time /\ m[Nth(I, c)] \in Int /\ m[Len(m)] \in Int
    BY <1>1, <1>3, <1>4, <2>1, <2>2, <2>3
  <2>6. Len(m) \in I
    BY <1>3, <2>3, <2>4, <2>5
  <2>7. PICK k \in 1 .. c : Nth(I, k) = Len(m)
    BY <1>1, <2>6, NthOnto DEF c
  <2>8. k = c
    <3>1. ASSUME k # c PROVE FALSE
      <4>1. k < c
        BY <1>5, <3>1
      <4>2. Len(m) < Nth(I, c)
        BY <1>4, <2>1, <2>7, <4>1
      <4> QED
        BY <1>1, <2>2, <4>2
    <3> QED
      BY <3>1
  <2> QED
    BY <1>4, <2>1, <2>3, <2>7, <2>8
<1> QED
  BY <1>2, <1>4, <1>6, <1>7, <1>8 DEF m

LEMMA ChartInit == ChartPart!Init => ChartInv
<1> SUFFICES ASSUME ChartPart!Init PROVE ChartInv
  OBVIOUS
<1>1. now = 0 /\ metric = [n \in Metrics |-> <<>>] /\ minutes \in ChartRanges
  BY DEF ChartPart!Init
<1>2. 0 \in 0 .. MaxTime /\ <<>> \in Seq(0 .. MaxTime) /\ DOMAIN <<>> = {}
  BY ChartAssumption
<1> QED
  BY <1>1, <1>2 DEF ChartInv

LEMMA ChartStep ==
  ASSUME ChartInv, [ChartPart!Next]_(ChartPart!vars)
  PROVE  ChartInv'
<1>1. ASSUME NEW succeeded \in SUBSET Metrics, ChartPart!Collect(succeeded) PROVE ChartInv'
  <2> DEFINE time == now + 1 - Day * PerMinute
             s(n) == ChartPart!Since(n, time)
             new(n) == IF n \in succeeded THEN <<now + 1>> ELSE <<>>
  <2>1. /\ now' = now + 1 /\ now \in Nat /\ now + 1 \in 0 .. MaxTime /\ minutes' = minutes
        /\ metric' = [n \in Metrics |-> s(n) \o new(n)]
    BY <1>1, ChartAssumption DEF ChartPart!Collect, ChartInv
  <2>2. time \in Int
    <3>1. Day * PerMinute \in Int
      BY ChartAssumption
    <3> QED
      BY <2>1, <3>1
  <2> HIDE DEF time
  <2>3. ASSUME NEW n \in Metrics
        PROVE  /\ metric'[n] \in Seq(0 .. MaxTime)
               /\ \A i, j \in DOMAIN metric'[n] : i < j => metric'[n][i] < metric'[n][j]
               /\ \A i \in DOMAIN metric'[n] : metric'[n][i] <= now + 1
    <3> DEFINE p == s(n)
               q == metric'[n]
    <3>1. /\ p \in Seq(0 .. MaxTime)
          /\ \A i, j \in DOMAIN p : i < j => p[i] < p[j]
          /\ \A i \in DOMAIN p : p[i] <= now
      BY <2>2, SinceInOrder
    <3>2. q = p \o new(n)
      BY <2>1
    <3> HIDE DEF p, q
    <3>3. ASSUME NEW i \in DOMAIN p
          PROVE  p[i] \in Nat /\ p[i] < now + 1 /\ p[i] <= now + 1
      <4>1. p[i] \in 0 .. MaxTime /\ p[i] <= now
        <5>1. DOMAIN p = 1 .. Len(p)
          BY <3>1
        <5> QED
          BY <3>1, <5>1, ElementOfSeq
      <4> QED
        BY <2>1, <4>1
    <3>4. CASE n \notin succeeded
      <4>1. q = p
        BY <3>1, <3>2, <3>4
      <4> QED
        BY <3>1, <3>3, <4>1 DEF q
    <3>5. CASE n \in succeeded
      <4>1. q = Append(p, now + 1)
        BY <2>1, <3>1, <3>2, <3>5, AppendIsConcat
      <4>2. /\ q \in Seq(0 .. MaxTime) /\ Len(q) = Len(p) + 1
            /\ \A i \in 1 .. Len(p) : q[i] = p[i]
            /\ q[Len(p) + 1] = now + 1
        BY <2>1, <3>1, <4>1, AppendProperties
      <4>3. /\ Len(p) \in Nat /\ DOMAIN p = 1 .. Len(p)
            /\ DOMAIN q = 1 .. Len(p) + 1
        BY <3>1, <4>2
      <4>4. ASSUME NEW i \in DOMAIN q
            PROVE  \/ i \in DOMAIN p /\ q[i] = p[i]
                   \/ i = Len(p) + 1 /\ q[i] = now + 1
        <5>1. i \in 1 .. Len(p) \/ i = Len(p) + 1
          BY <4>3
        <5>2. CASE i \in 1 .. Len(p)
          BY <4>2, <4>3, <5>2
        <5>3. CASE i = Len(p) + 1
          BY <4>2, <5>3
        <5> QED
          BY <5>1, <5>2, <5>3
      <4>5. \A i \in DOMAIN q : q[i] <= now + 1
        BY <2>1, <3>3, <4>4
      <4>6. ASSUME NEW i \in DOMAIN q, NEW j \in DOMAIN q, i < j PROVE q[i] < q[j]
        <5>1. i \in DOMAIN p /\ q[i] = p[i]
          BY <4>3, <4>4, <4>6
        <5>2. CASE j \in DOMAIN p /\ q[j] = p[j]
          BY <3>1, <4>6, <5>1, <5>2
        <5>3. CASE q[j] = now + 1
          BY <3>3, <5>1, <5>3
        <5> QED
          BY <4>4, <5>2, <5>3
      <4> QED
        BY <4>2, <4>5, <4>6 DEF q
    <3> QED
      BY <3>4, <3>5
  <2>4. metric' \in [Metrics -> Seq(0 .. MaxTime)]
    BY <2>1, <2>3
  <2> QED
    BY <2>1, <2>3, <2>4 DEF ChartInv
<1>2. ASSUME NEW r \in ChartRanges, ChartPart!setRange(r) PROVE ChartInv'
  BY <1>2 DEF ChartPart!setRange, ChartInv
<1>3. CASE UNCHANGED ChartPart!vars
  BY <1>3 DEF ChartPart!vars, ChartInv
<1> QED
  BY <1>1, <1>2, <1>3 DEF ChartPart!Next

\* What is filed: points of increasing minutes, of which each holds values of
\* its own minute, and one at least.
Point == [label : Nat, value : [Metrics -> Int]]
Filed(tm, mu) ==
    /\ tm \in Seq(Point) /\ mu \in Seq(Nat) /\ Len(tm) = Len(mu)
    /\ \A i, j \in 1 .. Len(mu) : i < j => mu[i] < mu[j]
    /\ \A i \in 1 .. Len(mu) :
         /\ tm[i].label = mu[i] % Day
         /\ \A n \in Metrics :
              \/ tm[i].value[n] = -1
              \/ tm[i].value[n] \in Nat /\ tm[i].value[n] \div PerMinute = mu[i]
         /\ \E n \in Metrics : tm[i].value[n] # -1

LEMMA PointsAre ==
  /\ \A x \in Nat : x \div PerMinute \in Nat /\ x % Day \in Nat
  /\ \A n \in Metrics, t \in Nat :
       /\ [label |-> ChartPart!Label(t), value |-> [ChartPart!NoPoint EXCEPT ![n] = t]] \in Point
       /\ [ChartPart!NoPoint EXCEPT ![n] = t][n] = t
       /\ \A m \in Metrics \ {n} : [ChartPart!NoPoint EXCEPT ![n] = t][m] = -1
  /\ \A p \in Point, n \in Metrics, t \in Nat :
       /\ [p EXCEPT !.value[n] = t] \in Point /\ [p EXCEPT !.value[n] = t].label = p.label
       /\ [p EXCEPT !.value[n] = t].value[n] = t
       /\ \A m \in Metrics \ {n} : [p EXCEPT !.value[n] = t].value[m] = p.value[m]
<1>1. PerMinute \in Nat \ {0} /\ Day \in Nat \ {0}
  BY ChartAssumption
<1>2. ASSUME NEW x \in Nat PROVE x \div PerMinute \in Nat /\ x % Day \in Nat
  <2>1. x \div PerMinute \in Nat
    BY <1>1, Quotient
  <2>2. x % Day \in 0 .. Day - 1
    BY <1>1, Quotient
  <2> QED
    BY <1>1, <2>1, <2>2
<1>3. ASSUME NEW n \in Metrics, NEW t \in Nat
      PROVE  /\ [label |-> ChartPart!Label(t), value |-> [ChartPart!NoPoint EXCEPT ![n] = t]] \in Point
             /\ [ChartPart!NoPoint EXCEPT ![n] = t][n] = t
             /\ \A m \in Metrics \ {n} : [ChartPart!NoPoint EXCEPT ![n] = t][m] = -1
  <2>1. ChartPart!Label(t) \in Nat
    BY <1>2 DEF ChartPart!Label, ChartPart!Minute
  <2>2. ChartPart!NoPoint = [m \in Metrics |-> -1]
    BY DEF ChartPart!NoPoint
  <2>3. [ChartPart!NoPoint EXCEPT ![n] = t] \in [Metrics -> Int]
    BY <2>2
  <2> QED
    BY <2>1, <2>2, <2>3 DEF Point
<1>4. ASSUME NEW p \in Point, NEW n \in Metrics, NEW t \in Nat
      PROVE  /\ [p EXCEPT !.value[n] = t] \in Point /\ [p EXCEPT !.value[n] = t].label = p.label
             /\ [p EXCEPT !.value[n] = t].value[n] = t
             /\ \A m \in Metrics \ {n} : [p EXCEPT !.value[n] = t].value[m] = p.value[m]
  <2>1. p.value \in [Metrics -> Int] /\ p.label \in Nat
        /\ p = [label |-> p.label, value |-> p.value]
    BY DEF Point
  <2>2. [p EXCEPT !.value[n] = t] = [label |-> p.label, value |-> [p.value EXCEPT ![n] = t]]
    BY <2>1
  <2>3. [p.value EXCEPT ![n] = t] \in [Metrics -> Int] /\ [p.value EXCEPT ![n] = t][n] = t
        /\ \A m \in Metrics \ {n} : [p.value EXCEPT ![n] = t][m] = p.value[m]
    BY <2>1
  <2> QED
    BY <2>1, <2>2, <2>3 DEF Point
<1> QED
  BY <1>2, <1>3, <1>4

\* A value is put into the point of its label.
LEMMA FileReplaces ==
  ASSUME NEW tm \in Seq(Point), NEW n \in Metrics, NEW t \in Nat, NEW i \in 1 .. Len(tm),
         tm[i].label = ChartPart!Label(t),
         \A j \in 1 .. Len(tm) : tm[j].label = ChartPart!Label(t) => j = i
  PROVE  LET new == ChartPart!File(tm, n, t) IN
         /\ new \in Seq(Point) /\ Len(new) = Len(tm)
         /\ \A j \in 1 .. Len(tm) : j # i => new[j] = tm[j]
         /\ new[i].label = tm[i].label /\ new[i].value[n] = t
         /\ \A m \in Metrics \ {n} : new[i].value[m] = tm[i].value[m]
<1> DEFINE new == ChartPart!File(tm, n, t)
           put(p) == [p EXCEPT !.value[n] = t]
<1>1. Len(tm) \in Nat /\ DOMAIN tm = 1 .. Len(tm) /\ tm[i] \in Point
  OBVIOUS
<1>2. new = [j \in 1 .. Len(tm) |-> IF tm[j].label = ChartPart!Label(t) THEN put(tm[j]) ELSE tm[j]]
  BY <1>1 DEF ChartPart!File
<1>3. \A j \in 1 .. Len(tm) : new[j] = IF j = i THEN put(tm[i]) ELSE tm[j]
  <2> HIDE DEF put
  <2> QED
    BY <1>2
<1>4. /\ put(tm[i]) \in Point /\ put(tm[i]).label = tm[i].label /\ put(tm[i]).value[n] = t
      /\ \A m \in Metrics \ {n} : put(tm[i]).value[m] = tm[i].value[m]
  BY <1>1, PointsAre
<1>5. new[i] = put(tm[i])
  BY <1>3
<1> HIDE DEF put
<1>6. \A j \in 1 .. Len(tm) : new[j] \in Point
  <2> TAKE j \in 1 .. Len(tm)
  <2>1. tm[j] \in Point
    BY <1>1
  <2> QED
    BY <1>3, <1>4, <2>1
<1>7. new \in Seq(Point) /\ Len(new) = Len(tm)
  <2>1. new = [j \in 1 .. Len(tm) |-> new[j]]
    BY <1>2
  <2> HIDE DEF new
  <2>2. new \in Seq(Point)
    BY <1>1, <1>6, <2>1, IsASeq
  <2> QED
    BY <1>1, <2>1, <2>2
<1> HIDE DEF new
<1> QED
  BY <1>3, <1>4, <1>5, <1>7 DEF new

\* A value of another minute than all before is put behind them.
LEMMA FileAppends ==
  ASSUME NEW tm \in Seq(Point), NEW n \in Metrics, NEW t \in Nat,
         \A j \in 1 .. Len(tm) : tm[j].label # ChartPart!Label(t)
  PROVE  LET new == ChartPart!File(tm, n, t)
             l == Len(tm) + 1
         IN  /\ new \in Seq(Point) /\ Len(new) = l
             /\ \A j \in 1 .. Len(tm) : new[j] = tm[j]
             /\ new[l].label = ChartPart!Label(t) /\ new[l].value[n] = t
             /\ \A m \in Metrics \ {n} : new[l].value[m] = -1
<1> DEFINE new == ChartPart!File(tm, n, t)
           v == [ChartPart!NoPoint EXCEPT ![n] = t]
           p == [label |-> ChartPart!Label(t), value |-> v]
<1>1. new = Append(tm, p)
  <2>1. ~ \E j \in DOMAIN tm : tm[j].label = ChartPart!Label(t)
    OBVIOUS
  <2> QED
    BY <2>1 DEF ChartPart!File
<1>2. /\ p \in Point /\ p.label = ChartPart!Label(t) /\ p.value[n] = t
      /\ \A m \in Metrics \ {n} : p.value[m] = -1
  <2>1. v[n] = t /\ \A m \in Metrics \ {n} : v[m] = -1
    BY DEF ChartPart!NoPoint
  <2>2. p \in Point
    <3>1. ChartPart!Label(t) \in Nat
      BY PointsAre DEF ChartPart!Label, ChartPart!Minute
    <3>2. v \in [Metrics -> Int]
      BY DEF ChartPart!NoPoint
    <3> HIDE DEF v
    <3> QED
      BY <3>1, <3>2 DEF Point
  <2> HIDE DEF v
  <2>3. p.label = ChartPart!Label(t) /\ p.value = v
    OBVIOUS
  <2> QED
    BY <2>1, <2>2, <2>3
<1> HIDE DEF p
<1>3. /\ new \in Seq(Point) /\ Len(new) = Len(tm) + 1
      /\ \A j \in 1 .. Len(tm) : new[j] = tm[j]
      /\ new[Len(tm) + 1] = p
  BY <1>1, <1>2, AppendProperties
<1> HIDE DEF new
<1> QED
  BY <1>2, <1>3 DEF new

LEMMA FiledReplaces ==
  ASSUME NEW tm, NEW mu, Filed(tm, mu), NEW n \in Metrics, NEW t \in Nat, NEW i \in 1 .. Len(mu),
         t \div PerMinute = mu[i],
         \A j \in 1 .. Len(mu) : mu[j] % Day = mu[i] % Day => j = i
  PROVE  LET new == ChartPart!File(tm, n, t) IN
         /\ Filed(new, mu) /\ new[i].value[n] = t
         /\ \A j \in 1 .. Len(mu) : j # i => new[j] = tm[j]
<1> DEFINE new == ChartPart!File(tm, n, t)
<1>1. /\ tm \in Seq(Point) /\ mu \in Seq(Nat) /\ Len(tm) = Len(mu)
      /\ \A j \in 1 .. Len(mu) : tm[j].label = mu[j] % Day
  BY DEF Filed
<1>2. ChartPart!Label(t) = mu[i] % Day
  BY DEF ChartPart!Label, ChartPart!Minute
<1>3. /\ new \in Seq(Point) /\ Len(new) = Len(tm)
      /\ \A j \in 1 .. Len(tm) : j # i => new[j] = tm[j]
      /\ new[i].label = tm[i].label /\ new[i].value[n] = t
      /\ \A m \in Metrics \ {n} : new[i].value[m] = tm[i].value[m]
  <2>1. i \in 1 .. Len(tm) /\ tm[i].label = ChartPart!Label(t)
    BY <1>1, <1>2
  <2>2. \A j \in 1 .. Len(tm) : tm[j].label = ChartPart!Label(t) => j = i
    BY <1>1, <1>2
  <2>3. tm \in Seq(Point)
    BY <1>1
  <2> QED
    BY <2>1, <2>2, <2>3, FileReplaces
<1> HIDE DEF new
<1>4. ASSUME NEW j \in 1 .. Len(mu)
      PROVE  /\ new[j].label = mu[j] % Day
             /\ \A m \in Metrics :
                  \/ new[j].value[m] = -1
                  \/ new[j].value[m] \in Nat /\ new[j].value[m] \div PerMinute = mu[j]
             /\ \E m \in Metrics : new[j].value[m] # -1
  <2>0. /\ tm[j].label = mu[j] % Day
        /\ \A m \in Metrics :
             \/ tm[j].value[m] = -1
             \/ tm[j].value[m] \in Nat /\ tm[j].value[m] \div PerMinute = mu[j]
        /\ \E m \in Metrics : tm[j].value[m] # -1
    BY DEF Filed
  <2>1. CASE j # i
    <3>1. new[j] = tm[j]
      BY <1>1, <1>3, <2>1
    <3> QED
      BY <2>0, <3>1
  <2>2. CASE j = i
    <3>1. t # -1 /\ t \in Nat
      OBVIOUS
    <3>2. ASSUME NEW m \in Metrics
          PROVE  \/ new[j].value[m] = -1
                 \/ new[j].value[m] \in Nat /\ new[j].value[m] \div PerMinute = mu[j]
      <4>1. CASE m = n
        BY <1>3, <2>2, <4>1
      <4>2. CASE m # n
        BY <1>3, <2>0, <2>2, <4>2
      <4> QED
        BY <4>1, <4>2
    <3>3. new[j].label = mu[j] % Day /\ new[j].value[n] # -1
      BY <1>3, <2>0, <2>2, <3>1
    <3> QED
      BY <3>2, <3>3
  <2> QED
    BY <2>1, <2>2
<1>5. Filed(new, mu)
  BY <1>1, <1>3, <1>4 DEF Filed
<1> QED
  BY <1>1, <1>3, <1>5 DEF new

LEMMA FiledAppends ==
  ASSUME NEW tm, NEW mu, Filed(tm, mu), NEW n \in Metrics, NEW t \in Nat,
         \A j \in 1 .. Len(mu) :
            mu[j] < t \div PerMinute /\ mu[j] % Day # (t \div PerMinute) % Day
  PROVE  LET new == ChartPart!File(tm, n, t)
             l == Len(mu) + 1
         IN  /\ Filed(new, Append(mu, t \div PerMinute)) /\ new[l].value[n] = t
             /\ \A j \in 1 .. Len(mu) : new[j] = tm[j]
<1> DEFINE new == ChartPart!File(tm, n, t)
           x == t \div PerMinute
           nu == Append(mu, x)
           l == Len(mu) + 1
<1>1. /\ tm \in Seq(Point) /\ mu \in Seq(Nat) /\ Len(tm) = Len(mu) /\ Len(mu) \in Nat
      /\ \A j \in 1 .. Len(mu) : tm[j].label = mu[j] % Day
  BY DEF Filed
<1>2. ChartPart!Label(t) = x % Day
  BY DEF ChartPart!Label, ChartPart!Minute
<1>3. /\ new \in Seq(Point) /\ Len(new) = l
      /\ \A j \in 1 .. Len(mu) : new[j] = tm[j]
      /\ new[l].label = x % Day /\ new[l].value[n] = t
      /\ \A m \in Metrics \ {n} : new[l].value[m] = -1
  <2>1. \A j \in 1 .. Len(tm) : tm[j].label # ChartPart!Label(t)
    BY <1>1, <1>2
  <2>2. LET k == Len(tm) + 1 IN
        /\ new \in Seq(Point) /\ Len(new) = k
        /\ \A j \in 1 .. Len(tm) : new[j] = tm[j]
        /\ new[k].label = ChartPart!Label(t) /\ new[k].value[n] = t
        /\ \A m \in Metrics \ {n} : new[k].value[m] = -1
    BY <1>1, <2>1, FileAppends
  <2> HIDE DEF new, x
  <2> QED
    BY <1>1, <1>2, <2>2
<1>4. x \in Nat
  BY PointsAre
<1> HIDE DEF new
<1>5. \A j \in 1 .. Len(mu) : mu[j] < x
  OBVIOUS
<1>6. /\ nu \in Seq(Nat) /\ Len(nu) = l /\ nu[l] = x
      /\ \A j \in 1 .. Len(mu) : nu[j] = mu[j]
  <2> HIDE DEF x
  <2> QED
    BY <1>1, <1>4, AppendProperties
<1>7. t \div PerMinute = x /\ t # -1
  OBVIOUS
<1> HIDE DEF x, nu
<1>8. \A j \in 1 .. l : j \in 1 .. Len(mu) \/ j = l
  BY <1>1
<1>9. \A i, j \in 1 .. l : i < j => nu[i] < nu[j]
  <2> TAKE i, j \in 1 .. l
  <2> HAVE i < j
  <2>1. i \in 1 .. Len(mu)
    BY <1>1
  <2>2. CASE j \in 1 .. Len(mu)
    BY <1>6, <2>1, <2>2 DEF Filed
  <2>3. CASE j = l
    BY <1>5, <1>6, <2>1, <2>3
  <2> QED
    BY <1>8, <2>2, <2>3
<1>10. ASSUME NEW j \in 1 .. l
       PROVE  /\ new[j].label = nu[j] % Day
              /\ \A m \in Metrics :
                   \/ new[j].value[m] = -1
                   \/ new[j].value[m] \in Nat /\ new[j].value[m] \div PerMinute = nu[j]
              /\ \E m \in Metrics : new[j].value[m] # -1
  <2>1. CASE j \in 1 .. Len(mu)
    <3>1. /\ tm[j].label = mu[j] % Day
          /\ \A m \in Metrics :
               \/ tm[j].value[m] = -1
               \/ tm[j].value[m] \in Nat /\ tm[j].value[m] \div PerMinute = mu[j]
          /\ \E m \in Metrics : tm[j].value[m] # -1
      BY <2>1 DEF Filed
    <3>2. new[j] = tm[j] /\ nu[j] = mu[j]
      BY <1>3, <1>6, <2>1
    <3> QED
      BY <3>1, <3>2
  <2>2. CASE j = l
    <3>1. new[j].label = nu[j] % Day
      BY <1>3, <1>6, <2>2
    <3>2. new[j].value[n] \in Nat /\ new[j].value[n] \div PerMinute = nu[j] /\ new[j].value[n] # -1
      BY <1>3, <1>6, <1>7, <2>2
    <3>3. \A m \in Metrics : m # n => new[j].value[m] = -1
      BY <1>3, <2>2
    <3> QED
      BY <3>1, <3>2, <3>3
  <2> QED
    BY <1>8, <2>1, <2>2
<1>11. Filed(new, nu)
  BY <1>3, <1>6, <1>9, <1>10 DEF Filed
<1> QED
  BY <1>3, <1>11 DEF new, nu, x

\* A list is filed row by row.
LEMMA FileTyped ==
  ASSUME NEW tm \in Seq(Point), NEW n \in Metrics, NEW t \in Nat
  PROVE  ChartPart!File(tm, n, t) \in Seq(Point)
<1> DEFINE put(p) == [p EXCEPT !.value[n] = t]
           new == ChartPart!File(tm, n, t)
<1>1. CASE \A j \in 1 .. Len(tm) : tm[j].label # ChartPart!Label(t)
  BY <1>1, FileAppends
<1>2. CASE ~ \A j \in 1 .. Len(tm) : tm[j].label # ChartPart!Label(t)
  <2>1. new = [j \in 1 .. Len(tm) |->
                 IF tm[j].label = ChartPart!Label(t) THEN put(tm[j]) ELSE tm[j]]
    <3>1. DOMAIN tm = 1 .. Len(tm)
      OBVIOUS
    <3>2. \E j \in DOMAIN tm : tm[j].label = ChartPart!Label(t)
      BY <1>2, <3>1
    <3>3. new = [j \in DOMAIN tm |->
                  IF tm[j].label = ChartPart!Label(t) THEN put(tm[j]) ELSE tm[j]]
      BY <3>2 DEF ChartPart!File
    <3> QED
      BY <3>1, <3>3
  <2>2. \A j \in 1 .. Len(tm) : tm[j] \in Point /\ put(tm[j]) \in Point
    BY PointsAre
  <2> HIDE DEF put, new
  <2>3. \A j \in 1 .. Len(tm) : new[j] \in Point
    BY <2>1, <2>2
  <2>4. new = [j \in 1 .. Len(tm) |-> new[j]] /\ Len(tm) \in Nat
    BY <2>1
  <2>5. new \in Seq(Point)
    BY <2>3, <2>4, IsASeq
  <2> QED
    BY <2>5 DEF new
<1> QED
  BY <1>1, <1>2

SeriesBy(tm, n, h, f) ==
    /\ f[0] = tm /\ \A k \in 0 .. Len(h) : f[k] \in Seq(Point)
    /\ \A k \in 1 .. Len(h) : f[k] = ChartPart!File(f[k - 1], n, h[k])
    /\ ChartPart!FileSeries(tm, n) = f[Len(h)]

LEMMA SeriesFiled ==
  ASSUME ChartInv, NEW tm \in Seq(Point), NEW n \in Metrics
  PROVE  \E f : SeriesBy(tm, n, ChartPart!getHistory(n), f)
<1> DEFINE h == ChartPart!getHistory(n)
           N == Len(h)
           A == Seq(Point)
           filing == [p \in A \X (1 .. N) |-> ChartPart!File(p[1], n, h[p[2]])]
<1>1. h \in Seq(Nat) /\ N \in Nat
  <2>1. now - minutes * PerMinute \in Int
    BY ChartAssumption DEF ChartInv
  <2>2. h \in Seq(0 .. MaxTime)
    BY <2>1, SinceInOrder DEF ChartPart!getHistory
  <2>3. \A k \in 1 .. Len(h) : h[k] \in Nat
    <3> HIDE DEF h
    <3>1. \A k \in 1 .. Len(h) : h[k] \in 0 .. MaxTime
      BY <2>2, ElementOfSeq
    <3> QED
      BY <3>1
  <2> HIDE DEF h
  <2>4. h = [k \in 1 .. Len(h) |-> h[k]] /\ Len(h) \in Nat
    BY <2>2
  <2>5. h \in Seq(Nat)
    BY <2>3, <2>4, IsASeq
  <2> QED
    BY <2>4, <2>5
<1>2. ASSUME NEW s \in A, NEW k \in 1 .. N PROVE ChartPart!File(s, n, h[k]) \in A
  <2>1. h[k] \in Nat
    <3> HIDE DEF h
    <3> QED
      BY <1>1
  <2> QED
    BY <2>1, FileTyped
<1>3. filing \in [A \X (1 .. N) -> A]
  <2> HIDE DEF A, h, N
  <2> QED
    BY <1>2
<1>4. PICK f : /\ f \in [0 .. N -> A] /\ f[0] = tm
               /\ \A k \in 1 .. N : f[k] = filing[<<f[k - 1], k>>]
  <2>1. \E f : BuiltBy(A, tm, N, filing, f)
    <3> HIDE DEF A, N, filing
    <3>1. tm \in A
      BY DEF A
    <3> QED
      BY <1>1, <1>3, <3>1, Recursion
  <2> QED
    BY <2>1 DEF BuiltBy
<1>5. ASSUME NEW k \in 1 .. N PROVE f[k] = ChartPart!File(f[k - 1], n, h[k])
  <2> HIDE DEF h, N, A
  <2>1. k - 1 \in 0 .. N
    BY <1>1
  <2>2. <<f[k - 1], k>> \in A \X (1 .. N)
    BY <1>4, <2>1
  <2>3. filing[<<f[k - 1], k>>] = ChartPart!File(f[k - 1], n, h[k])
    BY <2>2
  <2> QED
    BY <1>4, <2>3
<1> DEFINE Good(g) ==
      g = [k \in 0 .. N |-> IF k = 0 THEN tm ELSE ChartPart!File(g[k - 1], n, h[k])]
<1> HIDE DEF filing, A, N
<1>6. Good(f)
  <2>1. DOMAIN f = 0 .. N /\ f = [k \in 0 .. N |-> f[k]]
    BY <1>4
  <2>2. \A k \in 0 .. N :
           f[k] = IF k = 0 THEN tm ELSE ChartPart!File(f[k - 1], n, h[k])
    BY <1>1, <1>4, <1>5
  <2> HIDE DEF h
  <2> QED
    BY <2>1, <2>2
<1> DEFINE filed == CHOOSE g : Good(g)
<1>7. ChartPart!FileSeries(tm, n) = filed[N]
  BY DEF ChartPart!FileSeries, N
<1>8. Good(filed)
  <2> HIDE DEF Good
  <2> QED
    BY <1>6
<1> HIDE DEF filed, h
<1>9. filed[0] = tm /\ \A k \in 1 .. N : filed[k] = ChartPart!File(filed[k - 1], n, h[k])
  <2>1. 0 \in 0 .. N /\ \A k \in 1 .. N : k \in 0 .. N /\ k # 0
    BY <1>1
  <2> QED
    BY <1>8, <2>1
<1> DEFINE T == {k \in Nat : k <= N => filed[k] = f[k]}
<1>10. 0 \in T
  BY <1>4, <1>9
<1>11. ASSUME NEW k \in Nat, k \in T PROVE k + 1 \in T
  <2> SUFFICES ASSUME k + 1 <= N PROVE filed[k + 1] = f[k + 1]
    OBVIOUS
  <2>1. k + 1 \in 1 .. N /\ (k + 1) - 1 = k /\ k <= N
    BY <1>1
  <2>2. filed[k] = f[k]
    BY <1>11, <2>1
  <2> QED
    BY <1>5, <1>9, <2>1, <2>2
<1> HIDE DEF T
<1>12. N \in T
  BY <1>1, <1>10, <1>11, SetInduction
<1>13. filed[N] = f[N]
  BY <1>12 DEF T
<1> QED
  BY <1>4, <1>5, <1>7, <1>13 DEF SeriesBy, h, N, A

\* A series: in order of time, of minutes of one day at most, up to the card.
LEMMA SeriesInOrder ==
  ASSUME ChartInv, NEW n \in Metrics
  PROVE  LET h == ChartPart!getHistory(n) IN
         /\ h \in Seq(Nat) /\ Len(h) \in Nat /\ \A k \in 1 .. Len(h) : h[k] \in Nat
         /\ \A i, j \in 1 .. Len(h) : i <= j => h[i] \div PerMinute <= h[j] \div PerMinute
         /\ \A i, j \in 1 .. Len(h) : h[j] \div PerMinute <= h[i] \div PerMinute + Day
         /\ \A i \in 1 .. Len(h) : h[i] \div PerMinute \in Nat
         /\ h # <<>> => ChartPart!getLatest(n) = h[Len(h)]
<1> DEFINE time == now - minutes * PerMinute
           h == ChartPart!getHistory(n)
<1>1. PerMinute \in Nat \ {0} /\ now \in Nat /\ minutes \in Nat /\ minutes <= Day /\ Day \in Nat
  BY ChartAssumption DEF ChartInv
<1>2. time \in Int
  BY <1>1
<1>3. /\ h \in Seq(0 .. MaxTime)
      /\ \A i, j \in DOMAIN h : i < j => h[i] < h[j]
      /\ \A i \in DOMAIN h : h[i] >= time /\ h[i] <= now
      /\ h # <<>> => metric[n] # <<>> /\ h[Len(h)] = metric[n][Len(metric[n])]
  <2>1. h = ChartPart!Since(n, time)
    BY DEF ChartPart!getHistory
  <2> HIDE DEF h, time
  <2> QED
    BY <1>2, <2>1, SinceInOrder
<1>4. h # <<>> => ChartPart!getLatest(n) = h[Len(h)]
  BY <1>3 DEF ChartPart!getLatest, ChartPart!Last
<1>5. time = now - minutes * PerMinute
  OBVIOUS
<1> HIDE DEF h, time
<1>6. DOMAIN h = 1 .. Len(h) /\ Len(h) \in Nat
  BY <1>3
<1>7. \A k \in 1 .. Len(h) : h[k] \in Nat
  <2>1. \A k \in 1 .. Len(h) : h[k] \in 0 .. MaxTime
    BY <1>3, ElementOfSeq
  <2> QED
    BY <2>1
<1>8. h \in Seq(Nat)
  <2>1. h = [k \in 1 .. Len(h) |-> h[k]]
    BY <1>3
  <2> QED
    BY <1>6, <1>7, <2>1, IsASeq
<1>9. ASSUME NEW i \in 1 .. Len(h), NEW j \in 1 .. Len(h), i <= j
      PROVE  h[i] \div PerMinute <= h[j] \div PerMinute
  <2>1. h[i] <= h[j]
    <3>1. CASE i = j
      BY <1>7, <3>1
    <3>2. CASE i # j
      <4>1. i < j
        BY <1>6, <1>9, <3>2
      <4>2. h[i] < h[j]
        BY <1>3, <1>6, <4>1
      <4>3. h[i] \in Nat /\ h[j] \in Nat
        BY <1>7
      <4> QED
        BY <4>2, <4>3
    <3> QED
      BY <3>1, <3>2
  <2> QED
    BY <1>1, <1>7, <2>1, MinuteGrows
<1>10. \A i \in 1 .. Len(h) : h[i] \div PerMinute \in Nat
  BY <1>1, <1>7, Quotient
<1>11. ASSUME NEW i \in 1 .. Len(h), NEW j \in 1 .. Len(h)
       PROVE  h[j] \div PerMinute <= h[i] \div PerMinute + Day
  <2>1. h[j] <= now /\ h[i] >= now - minutes * PerMinute
    BY <1>3, <1>5, <1>6
  <2>2. h[j] \div PerMinute <= now \div PerMinute
    BY <1>1, <1>7, <2>1, MinuteGrows
  <2>3. now \div PerMinute <= h[i] \div PerMinute + minutes
    BY <1>1, <1>7, <2>1, MinutesOfRange
  <2>4. now \div PerMinute \in Nat
    BY <1>1, Quotient
  <2> QED
    BY <1>1, <1>10, <2>2, <2>3, <2>4
<1> QED
  BY <1>4, <1>6, <1>7, <1>8, <1>9, <1>10, <1>11 DEF h

\* Without a wrap, two minutes of a series have two labels.
LEMMA LabelsApart ==
  ASSUME ChartInv, NEW n \in Metrics, ~ ChartPart!Wraps(n),
         NEW i \in 1 .. Len(ChartPart!getHistory(n)), NEW j \in 1 .. Len(ChartPart!getHistory(n)),
         (ChartPart!getHistory(n)[i] \div PerMinute) % Day
           = (ChartPart!getHistory(n)[j] \div PerMinute) % Day
  PROVE  ChartPart!getHistory(n)[i] \div PerMinute = ChartPart!getHistory(n)[j] \div PerMinute
<1> DEFINE h == ChartPart!getHistory(n)
           x == h[i] \div PerMinute
           y == h[j] \div PerMinute
<1>1. DOMAIN h = 1 .. Len(h)
  BY SeriesInOrder
<1>2. Day \in Nat \ {0}
  BY ChartAssumption
<1>3. x \in Nat /\ y \in Nat /\ x <= y + Day /\ y <= x + Day
  BY SeriesInOrder
<1>4. y # x + Day /\ x # y + Day
  BY <1>1 DEF ChartPart!Wraps, ChartPart!Minute
<1>5. x % Day = y % Day
  OBVIOUS
<1> HIDE DEF x, y
<1>6. ASSUME x < y PROVE FALSE
  BY <1>2, <1>3, <1>4, <1>5, <1>6, SameLabel
<1>7. ASSUME y < x PROVE FALSE
  BY <1>2, <1>3, <1>4, <1>5, <1>7, SameLabel
<1>8. x = y
  BY <1>3, <1>6, <1>7
<1> QED
  BY <1>8 DEF x, y

\* What a prefix of the first series makes: its minutes, all of them and no
\* others, with a value each, the last of them the value that was filed last.
FirstGood(tm, mu, n, k) ==
    LET h == ChartPart!getHistory(n) IN
    /\ Filed(tm, mu)
    /\ \A i \in 1 .. Len(mu) : \E j \in 1 .. k : mu[i] = h[j] \div PerMinute
    /\ \A j \in 1 .. k : \E i \in 1 .. Len(mu) : mu[i] = h[j] \div PerMinute
    /\ \A i \in 1 .. Len(mu) : tm[i].value[n] # -1
    /\ k > 0 => /\ Len(mu) > 0 /\ mu[Len(mu)] = h[k] \div PerMinute
                /\ tm[Len(mu)].value[n] = h[k]

\* A value of the minute that was filed last.
LEMMA FirstSame ==
  ASSUME ChartInv, NEW n \in Metrics, ~ ChartPart!Wraps(n), NEW tm, NEW mu, NEW k \in Nat \ {0},
         k + 1 <= Len(ChartPart!getHistory(n)), FirstGood(tm, mu, n, k),
         ChartPart!getHistory(n)[k + 1] \div PerMinute = ChartPart!getHistory(n)[k] \div PerMinute
  PROVE  FirstGood(ChartPart!File(tm, n, ChartPart!getHistory(n)[k + 1]), mu, n, k + 1)
<1> DEFINE h == ChartPart!getHistory(n)
           t == h[k + 1]
           l == Len(mu)
           new == ChartPart!File(tm, n, t)
<1>1. /\ Filed(tm, mu)
      /\ \A i \in 1 .. l : \E j \in 1 .. k : mu[i] = h[j] \div PerMinute
      /\ \A j \in 1 .. k : \E i \in 1 .. l : mu[i] = h[j] \div PerMinute
      /\ \A i \in 1 .. l : tm[i].value[n] # -1
      /\ l > 0 /\ mu[l] = h[k] \div PerMinute
  BY DEF FirstGood
<1>2. Len(h) \in Nat /\ k \in 1 .. Len(h) /\ k + 1 \in 1 .. Len(h) /\ t \in Nat
      /\ t \div PerMinute = mu[l]
  BY <1>1, SeriesInOrder
<1>3. mu \in Seq(Nat) /\ l \in 1 .. l /\ \A i, j \in 1 .. l : i < j => mu[i] < mu[j]
  <2>1. mu \in Seq(Nat) /\ \A i, j \in 1 .. l : i < j => mu[i] < mu[j]
    BY <1>1 DEF Filed
  <2>2. l \in Nat
    BY <2>1
  <2> QED
    BY <1>1, <2>1, <2>2
<1>4. \A i, j \in 1 .. Len(h) : (h[i] \div PerMinute) % Day = (h[j] \div PerMinute) % Day
                                   => h[i] \div PerMinute = h[j] \div PerMinute
  BY LabelsApart
<1> HIDE DEF h, t
<1>5. ASSUME NEW j \in 1 .. l, mu[j] % Day = mu[l] % Day PROVE j = l
  <2>1. PICK a \in 1 .. k : mu[j] = h[a] \div PerMinute
    BY <1>1
  <2>2. a \in 1 .. Len(h)
    BY <1>2
  <2>3. mu[j] = mu[l]
    BY <1>1, <1>2, <1>4, <1>5, <2>1, <2>2
  <2> QED
    <3> SUFFICES ASSUME j # l PROVE FALSE
      OBVIOUS
    <3>1. j < l
      BY <1>3
    <3>2. mu[j] < mu[l] /\ mu[l] \in Nat
      BY <1>3, <3>1
    <3> QED
      BY <2>3, <3>2
<1>6. /\ Filed(new, mu) /\ new[l].value[n] = t
      /\ \A j \in 1 .. l : j # l => new[j] = tm[j]
  <2> HIDE DEF l
  <2>1. l \in 1 .. Len(mu) /\ \A j \in 1 .. Len(mu) : mu[j] % Day = mu[l] % Day => j = l
    BY <1>3, <1>5 DEF l
  <2>2. LET r == ChartPart!File(tm, n, t) IN
        /\ Filed(r, mu) /\ r[l].value[n] = t
        /\ \A j \in 1 .. Len(mu) : j # l => r[j] = tm[j]
    <3>1. Filed(tm, mu) /\ t \in Nat /\ t \div PerMinute = mu[l]
      BY <1>1, <1>2 DEF l
    <3> QED
      BY <2>1, <3>1, FiledReplaces
  <2>3. new = ChartPart!File(tm, n, t)
    OBVIOUS
  <2> HIDE DEF new
  <2>4. /\ Filed(new, mu) /\ new[l].value[n] = t
        /\ \A j \in 1 .. Len(mu) : j # l => new[j] = tm[j]
    BY <2>2, <2>3
  <2> QED
    BY <2>4 DEF l
<1> HIDE DEF new
<1>7. ASSUME NEW i \in 1 .. l PROVE new[i].value[n] # -1
  <2>1. CASE i = l
    BY <1>2, <1>6, <2>1
  <2>2. CASE i # l
    BY <1>1, <1>6, <2>2
  <2> QED
    BY <2>1, <2>2
<1>8. \A i \in 1 .. l : \E j \in 1 .. k + 1 : mu[i] = h[j] \div PerMinute
  <2>1. \A j \in 1 .. k : j \in 1 .. k + 1
    OBVIOUS
  <2> QED
    BY <1>1, <2>1
<1>9. ASSUME NEW j \in 1 .. k + 1 PROVE \E i \in 1 .. l : mu[i] = h[j] \div PerMinute
  <2>1. CASE j \in 1 .. k
    BY <1>1, <2>1
  <2>2. CASE j = k + 1
    BY <1>2, <1>3, <2>2 DEF t
  <2> QED
    BY <2>1, <2>2
<1>10. Len(mu) > 0 /\ mu[Len(mu)] = h[k + 1] \div PerMinute /\ new[Len(mu)].value[n] = h[k + 1]
  BY <1>1, <1>2, <1>6 DEF t
<1>11. FirstGood(new, mu, n, k + 1)
  BY <1>6, <1>7, <1>8, <1>9, <1>10 DEF FirstGood, h
<1> QED
  BY <1>11 DEF new, t, h

\* A value of a later minute.
LEMMA FirstLater ==
  ASSUME ChartInv, NEW n \in Metrics, ~ ChartPart!Wraps(n), NEW tm, NEW mu, NEW k \in Nat,
         k + 1 <= Len(ChartPart!getHistory(n)), FirstGood(tm, mu, n, k),
         k > 0 => ChartPart!getHistory(n)[k + 1] \div PerMinute
                    # ChartPart!getHistory(n)[k] \div PerMinute
  PROVE  \E nu : FirstGood(ChartPart!File(tm, n, ChartPart!getHistory(n)[k + 1]), nu, n, k + 1)
<1> DEFINE h == ChartPart!getHistory(n)
           t == h[k + 1]
           x == t \div PerMinute
           l == Len(mu)
           new == ChartPart!File(tm, n, t)
           nu == Append(mu, x)
<1>1. /\ Filed(tm, mu)
      /\ \A i \in 1 .. l : \E j \in 1 .. k : mu[i] = h[j] \div PerMinute
      /\ \A j \in 1 .. k : \E i \in 1 .. l : mu[i] = h[j] \div PerMinute
      /\ \A i \in 1 .. l : tm[i].value[n] # -1
  BY DEF FirstGood
<1>2. Len(h) \in Nat /\ k + 1 \in 1 .. Len(h) /\ t \in Nat /\ x \in Nat
      /\ \A j \in 1 .. k : j \in 1 .. Len(h)
  BY SeriesInOrder
<1>3. mu \in Seq(Nat) /\ l \in Nat
  BY <1>1 DEF Filed
<1>4. \A i, j \in 1 .. Len(h) : (h[i] \div PerMinute) % Day = (h[j] \div PerMinute) % Day
                                   => h[i] \div PerMinute = h[j] \div PerMinute
  BY LabelsApart
<1>5. /\ \A i, j \in 1 .. Len(h) : i <= j => h[i] \div PerMinute <= h[j] \div PerMinute
      /\ \A i \in 1 .. Len(h) : h[i] \div PerMinute \in Nat
  BY SeriesInOrder
<1>6. k > 0 => h[k] \div PerMinute # x
  OBVIOUS
<1>7. x = h[k + 1] \div PerMinute /\ x = t \div PerMinute
  OBVIOUS
<1> HIDE DEF h, t, x
<1>8. ASSUME NEW j \in 1 .. l PROVE mu[j] < x /\ mu[j] % Day # x % Day
  <2>1. PICK a \in 1 .. k : mu[j] = h[a] \div PerMinute
    BY <1>1
  <2>2. a \in 1 .. Len(h) /\ k \in 1 .. Len(h) /\ a <= k /\ k <= k + 1 /\ k > 0
    BY <1>2
  <2>3. h[a] \div PerMinute <= h[k] \div PerMinute /\ h[k] \div PerMinute <= x
    BY <1>2, <1>5, <1>7, <2>2
  <2>4. mu[j] < x
    BY <1>2, <1>5, <1>6, <2>1, <2>2, <2>3
  <2>5. mu[j] % Day # x % Day
    BY <1>2, <1>4, <1>7, <2>1, <2>2, <2>4
  <2> QED
    BY <2>4, <2>5
<1>9. /\ Filed(new, nu) /\ new[l + 1].value[n] = t
      /\ \A j \in 1 .. l : new[j] = tm[j]
  <2>1. \A j \in 1 .. Len(mu) :
           mu[j] < t \div PerMinute /\ mu[j] % Day # (t \div PerMinute) % Day
    BY <1>7, <1>8
  <2>2. LET r == ChartPart!File(tm, n, t)
            m == Len(mu) + 1
        IN  /\ Filed(r, Append(mu, t \div PerMinute)) /\ r[m].value[n] = t
            /\ \A j \in 1 .. Len(mu) : r[j] = tm[j]
    <3>1. Filed(tm, mu) /\ t \in Nat
      BY <1>1, <1>2
    <3> QED
      BY <2>1, <3>1, FiledAppends
  <2>3. new = ChartPart!File(tm, n, t) /\ nu = Append(mu, t \div PerMinute)
    BY <1>7
  <2> HIDE DEF new, nu
  <2> QED
    BY <2>2, <2>3
<1>10. /\ Len(nu) = l + 1 /\ nu[l + 1] = x
       /\ \A j \in 1 .. l : nu[j] = mu[j]
  BY <1>2, <1>3, AppendProperties
<1> HIDE DEF new, nu
<1>11. \A i \in 1 .. l + 1 : i \in 1 .. l \/ i = l + 1
  BY <1>3
<1>12. \A j \in 1 .. k + 1 : j \in 1 .. k \/ j = k + 1
  OBVIOUS
<1>13. ASSUME NEW i \in 1 .. l + 1
       PROVE  (\E j \in 1 .. k + 1 : nu[i] = h[j] \div PerMinute) /\ new[i].value[n] # -1
  <2>1. CASE i \in 1 .. l
    <3>1. PICK j \in 1 .. k : mu[i] = h[j] \div PerMinute
      BY <1>1, <2>1
    <3>2. j \in 1 .. k + 1
      OBVIOUS
    <3> QED
      BY <1>1, <1>9, <1>10, <2>1, <3>1, <3>2
  <2>2. CASE i = l + 1
    <3>1. k + 1 \in 1 .. k + 1 /\ t # -1
      BY <1>2
    <3> QED
      BY <1>7, <1>9, <1>10, <2>2, <3>1
  <2> QED
    BY <1>11, <2>1, <2>2
<1>14. ASSUME NEW j \in 1 .. k + 1 PROVE \E i \in 1 .. l + 1 : nu[i] = h[j] \div PerMinute
  <2>1. CASE j \in 1 .. k
    <3>1. PICK i \in 1 .. l : mu[i] = h[j] \div PerMinute
      BY <1>1, <2>1
    <3>2. i \in 1 .. l + 1 /\ nu[i] = mu[i]
      BY <1>3, <1>10
    <3> QED
      BY <3>1, <3>2
  <2>2. CASE j = k + 1
    <3>1. l + 1 \in 1 .. l + 1
      BY <1>3
    <3> QED
      BY <1>7, <1>10, <2>2, <3>1
  <2> QED
    BY <1>12, <2>1, <2>2
<1>15. Len(nu) > 0 /\ nu[Len(nu)] = h[k + 1] \div PerMinute /\ new[Len(nu)].value[n] = h[k + 1]
  <2>1. t = h[k + 1]
    BY DEF t
  <2> QED
    BY <1>3, <1>7, <1>9, <1>10, <2>1
<1>16. FirstGood(new, nu, n, k + 1)
  BY <1>9, <1>10, <1>13, <1>14, <1>15 DEF FirstGood, h
<1> QED
  BY <1>16 DEF new, t, h

\* The first series.
LEMMA FirstFiled ==
  ASSUME ChartInv, NEW n \in Metrics, ~ ChartPart!Wraps(n)
  PROVE  \E mu : FirstGood(ChartPart!FileSeries(<<>>, n), mu, n, Len(ChartPart!getHistory(n)))
<1> DEFINE h == ChartPart!getHistory(n)
           N == Len(h)
<1>1. PICK f : SeriesBy(<<>>, n, h, f)
  <2>1. <<>> \in Seq(Point)
    OBVIOUS
  <2> QED
    BY <2>1, SeriesFiled
<1>2. N \in Nat
  BY SeriesInOrder
<1> DEFINE T == {k \in Nat : k <= N => \E mu : FirstGood(f[k], mu, n, k)}
<1>3. 0 \in T
  <2>1. f[0] = <<>>
    BY <1>1 DEF SeriesBy
  <2>2. <<>> \in Seq(Point) /\ <<>> \in Seq(Nat) /\ Len(<<>>) = 0 /\ 1 .. 0 = {}
    OBVIOUS
  <2>3. Filed(<<>>, <<>>)
    BY <2>2 DEF Filed
  <2>4. FirstGood(<<>>, <<>>, n, 0)
    BY <2>2, <2>3 DEF FirstGood
  <2> QED
    BY <2>1, <2>4
<1>4. ASSUME NEW k \in Nat, k \in T PROVE k + 1 \in T
  <2> SUFFICES ASSUME k + 1 <= N PROVE \E mu : FirstGood(f[k + 1], mu, n, k + 1)
    OBVIOUS
  <2>1. PICK mu : FirstGood(f[k], mu, n, k)
    BY <1>2, <1>4
  <2>2. f[k + 1] = ChartPart!File(f[k], n, h[k + 1])
    <3>1. k + 1 \in 1 .. N /\ (k + 1) - 1 = k
      BY <1>2
    <3> QED
      BY <1>1, <3>1 DEF SeriesBy
  <2>3. CASE k > 0 /\ h[k + 1] \div PerMinute = h[k] \div PerMinute
    <3>1. k \in Nat \ {0}
      BY <2>3
    <3> QED
      BY <2>1, <2>2, <2>3, <3>1, FirstSame
  <2>4. CASE k > 0 => h[k + 1] \div PerMinute # h[k] \div PerMinute
    BY <2>1, <2>2, <2>4, FirstLater
  <2> QED
    BY <2>3, <2>4
<1> HIDE DEF T
<1>5. N \in T
  BY <1>2, <1>3, <1>4, SetInduction
<1>6. \E mu : FirstGood(f[N], mu, n, N)
  BY <1>2, <1>5 DEF T
<1> QED
  BY <1>1, <1>6 DEF SeriesBy

\* A further series, with no minute of its own, changes values only.
LEMMA OtherFiled ==
  ASSUME ChartInv, NEW n \in Metrics, NEW tm, NEW mu, Filed(tm, mu),
         \A i, j \in 1 .. Len(mu) : mu[i] % Day = mu[j] % Day => i = j,
         \A k \in 1 .. Len(ChartPart!getHistory(n)) : \E i \in 1 .. Len(mu) :
            mu[i] = ChartPart!getHistory(n)[k] \div PerMinute
  PROVE  Filed(ChartPart!FileSeries(tm, n), mu)
<1> DEFINE h == ChartPart!getHistory(n)
           N == Len(h)
<1>1. PICK f : SeriesBy(tm, n, h, f)
  <2>1. tm \in Seq(Point)
    BY DEF Filed
  <2> QED
    BY <2>1, SeriesFiled
<1>2. N \in Nat /\ \A k \in 1 .. N : h[k] \in Nat
  BY SeriesInOrder
<1>3. /\ f[0] = tm /\ \A k \in 1 .. N : f[k] = ChartPart!File(f[k - 1], n, h[k])
      /\ ChartPart!FileSeries(tm, n) = f[N]
  BY <1>1 DEF SeriesBy
<1>4. \A k \in 1 .. N : \E i \in 1 .. Len(mu) : mu[i] = h[k] \div PerMinute
  OBVIOUS
<1> HIDE DEF h, N
<1> DEFINE T == {k \in Nat : k <= N => Filed(f[k], mu)}
<1>5. 0 \in T
  BY <1>3
<1>6. ASSUME NEW k \in Nat, k \in T PROVE k + 1 \in T
  <2> SUFFICES ASSUME k + 1 <= N PROVE Filed(f[k + 1], mu)
    OBVIOUS
  <2>1. k + 1 \in 1 .. N /\ (k + 1) - 1 = k /\ k <= N
    BY <1>2
  <2>2. Filed(f[k], mu) /\ f[k + 1] = ChartPart!File(f[k], n, h[k + 1]) /\ h[k + 1] \in Nat
    BY <1>2, <1>3, <1>6, <2>1
  <2>3. PICK i \in 1 .. Len(mu) : mu[i] = h[k + 1] \div PerMinute
    BY <1>4, <2>1
  <2>4. \A j \in 1 .. Len(mu) : mu[j] % Day = mu[i] % Day => j = i
    OBVIOUS
  <2>5. Filed(f[k], mu) /\ h[k + 1] \in Nat /\ h[k + 1] \div PerMinute = mu[i]
    BY <2>2, <2>3
  <2> HIDE DEF T
  <2>6. Filed(ChartPart!File(f[k], n, h[k + 1]), mu)
    BY <2>4, <2>5, FiledReplaces
  <2> QED
    BY <2>2, <2>6
<1> HIDE DEF T
<1>7. N \in T
  BY <1>2, <1>5, <1>6, SetInduction
<1> QED
  BY <1>2, <1>3, <1>7 DEF T

\* Series are filed one by one.
AllBy(order, f) ==
    /\ f[0] = <<>>
    /\ \A k \in 1 .. Len(order) : f[k] = ChartPart!FileSeries(f[k - 1], order[k])
    /\ ChartPart!FileAll(order) = f[Len(order)]

LEMMA AllFiled ==
  ASSUME ChartInv, NEW order \in Seq(Metrics)
  PROVE  \E f : AllBy(order, f)
<1> DEFINE N == Len(order)
           A == Seq(Point)
           filing == [p \in A \X (1 .. N) |-> ChartPart!FileSeries(p[1], order[p[2]])]
<1>1. N \in Nat /\ \A k \in 1 .. N : order[k] \in Metrics
  BY ElementOfSeq
<1>2. ASSUME NEW s \in A, NEW k \in 1 .. N PROVE ChartPart!FileSeries(s, order[k]) \in A
  <2>1. order[k] \in Metrics
    BY <1>1
  <2>2. PICK f : SeriesBy(s, order[k], ChartPart!getHistory(order[k]), f)
    BY <2>1, SeriesFiled
  <2>3. Len(ChartPart!getHistory(order[k])) \in 0 .. Len(ChartPart!getHistory(order[k]))
    <3>1. Len(ChartPart!getHistory(order[k])) \in Nat
      BY <2>1, SeriesInOrder
    <3> QED
      BY <3>1
  <2> QED
    BY <2>2, <2>3 DEF SeriesBy
<1>3. filing \in [A \X (1 .. N) -> A]
  <2> HIDE DEF A, N
  <2> QED
    BY <1>2
<1>4. PICK f : /\ f \in [0 .. N -> A] /\ f[0] = <<>>
               /\ \A k \in 1 .. N : f[k] = filing[<<f[k - 1], k>>]
  <2>1. \E f : BuiltBy(A, <<>>, N, filing, f)
    <3>1. <<>> \in A
      OBVIOUS
    <3> HIDE DEF A, N, filing
    <3> QED
      BY <1>1, <1>3, <3>1, Recursion
  <2> QED
    BY <2>1 DEF BuiltBy
<1>5. ASSUME NEW k \in 1 .. N PROVE f[k] = ChartPart!FileSeries(f[k - 1], order[k])
  <2> HIDE DEF N, A
  <2>1. k - 1 \in 0 .. N
    BY <1>1
  <2>2. <<f[k - 1], k>> \in A \X (1 .. N)
    BY <1>4, <2>1
  <2>3. filing[<<f[k - 1], k>>] = ChartPart!FileSeries(f[k - 1], order[k])
    BY <2>2
  <2> QED
    BY <1>4, <2>3
<1> DEFINE Good(g) ==
      g = [k \in 0 .. N |-> IF k = 0 THEN <<>> ELSE ChartPart!FileSeries(g[k - 1], order[k])]
<1> HIDE DEF filing, A, N
<1>6. Good(f)
  <2>1. DOMAIN f = 0 .. N /\ f = [k \in 0 .. N |-> f[k]]
    BY <1>4
  <2>2. \A k \in 0 .. N :
           f[k] = IF k = 0 THEN <<>> ELSE ChartPart!FileSeries(f[k - 1], order[k])
    BY <1>1, <1>4, <1>5
  <2> QED
    BY <2>1, <2>2
<1> DEFINE filed == CHOOSE g : Good(g)
<1>7. ChartPart!FileAll(order) = filed[N]
  BY DEF ChartPart!FileAll, N
<1>8. Good(filed)
  <2> HIDE DEF Good
  <2> QED
    BY <1>6
<1> HIDE DEF filed
<1>9. filed[0] = <<>>
      /\ \A k \in 1 .. N : filed[k] = ChartPart!FileSeries(filed[k - 1], order[k])
  <2>1. 0 \in 0 .. N /\ \A k \in 1 .. N : k \in 0 .. N /\ k # 0
    BY <1>1
  <2> QED
    BY <1>8, <2>1
<1> QED
  BY <1>7, <1>9 DEF AllBy, N

\* One series alone.
LEMMA OneFiled ==
  ASSUME ChartInv, NEW n \in Metrics
  PROVE  ChartPart!FileAll(<<n>>) = ChartPart!FileSeries(<<>>, n)
<1>1. <<n>> \in Seq(Metrics) /\ Len(<<n>>) = 1 /\ <<n>>[1] = n
  OBVIOUS
<1>2. PICK f : AllBy(<<n>>, f)
  BY <1>1, AllFiled
<1>3. 1 \in 1 .. 1 /\ 1 - 1 = 0
  OBVIOUS
<1> QED
  BY <1>1, <1>2, <1>3 DEF AllBy

\* All series, when those behind the first have no minute of their own.
LEMMA AllFiledInOrder ==
  ASSUME ChartInv, NEW order \in Seq(Metrics), order # <<>>, ~ ChartPart!Wraps(order[1]),
         \A c \in 1 .. Len(order) : \A k \in 1 .. Len(ChartPart!getHistory(order[c])) :
            \E j \in 1 .. Len(ChartPart!getHistory(order[1])) :
               ChartPart!getHistory(order[c])[k] \div PerMinute
                 = ChartPart!getHistory(order[1])[j] \div PerMinute
  PROVE  \E mu : Filed(ChartPart!FileAll(order), mu)
<1> DEFINE n == order[1]
           h == ChartPart!getHistory(n)
           N == Len(order)
<1>1. N \in Nat /\ N >= 1 /\ \A c \in 1 .. N : order[c] \in Metrics
  <2>1. N \in Nat /\ N >= 1
    OBVIOUS
  <2>2. \A c \in 1 .. N : order[c] \in Metrics
    BY ElementOfSeq
  <2> QED
    BY <2>1, <2>2
<1>2. n \in Metrics
  BY <1>1
<1>3. PICK f : AllBy(order, f)
  BY AllFiled
<1>4. PICK mu : FirstGood(ChartPart!FileSeries(<<>>, n), mu, n, Len(h))
  BY <1>2, FirstFiled
<1>5. /\ Filed(ChartPart!FileSeries(<<>>, n), mu)
      /\ \A i \in 1 .. Len(mu) : \E j \in 1 .. Len(h) : mu[i] = h[j] \div PerMinute
      /\ \A j \in 1 .. Len(h) : \E i \in 1 .. Len(mu) : mu[i] = h[j] \div PerMinute
  BY <1>4 DEF FirstGood
<1>6. mu \in Seq(Nat) /\ \A i, j \in 1 .. Len(mu) : i < j => mu[i] < mu[j]
  BY <1>5 DEF Filed
<1>7. \A i, j \in 1 .. Len(h) : (h[i] \div PerMinute) % Day = (h[j] \div PerMinute) % Day
                                   => h[i] \div PerMinute = h[j] \div PerMinute
  BY <1>2, LabelsApart
<1>8. \A c \in 1 .. N : \A k \in 1 .. Len(ChartPart!getHistory(order[c])) :
         \E j \in 1 .. Len(h) :
            ChartPart!getHistory(order[c])[k] \div PerMinute = h[j] \div PerMinute
  OBVIOUS
<1>9. f[1] = ChartPart!FileSeries(<<>>, n)
  <2>1. 1 \in 1 .. N /\ 1 - 1 = 0
    BY <1>1
  <2> QED
    BY <1>3, <2>1 DEF AllBy
<1> HIDE DEF h, n, N
<1>10. ASSUME NEW i \in 1 .. Len(mu), NEW j \in 1 .. Len(mu), mu[i] % Day = mu[j] % Day
       PROVE  i = j
  <2>1. mu[i] = mu[j]
    <3>1. PICK a \in 1 .. Len(h) : mu[i] = h[a] \div PerMinute
      BY <1>5
    <3>2. PICK b \in 1 .. Len(h) : mu[j] = h[b] \div PerMinute
      BY <1>5
    <3> QED
      BY <1>7, <1>10, <3>1, <3>2
  <2>2. mu[i] \in Nat /\ mu[j] \in Nat /\ Len(mu) \in Nat
    BY <1>6, ElementOfSeq
  <2>3. ~ (i < j) /\ ~ (j < i)
    BY <1>6, <2>1, <2>2
  <2> QED
    BY <2>2, <2>3
<1> DEFINE T == {k \in Nat : k + 1 <= N => Filed(f[k + 1], mu)}
<1>11. 0 \in T
  BY <1>5, <1>9
<1>12. ASSUME NEW k \in Nat, k \in T PROVE k + 1 \in T
  <2> SUFFICES ASSUME k + 1 + 1 <= N PROVE Filed(f[k + 1 + 1], mu)
    OBVIOUS
  <2> DEFINE c == k + 1 + 1
             m == order[c]
  <2>1. c \in 1 .. N /\ c - 1 = k + 1 /\ k + 1 <= N
    BY <1>1
  <2>2. Filed(f[k + 1], mu) /\ m \in Metrics
    BY <1>1, <1>12, <2>1
  <2>3. f[c] = ChartPart!FileSeries(f[k + 1], m)
    BY <1>3, <2>1 DEF AllBy, N
  <2>4. ASSUME NEW a \in 1 .. Len(ChartPart!getHistory(m))
        PROVE  \E i \in 1 .. Len(mu) : mu[i] = ChartPart!getHistory(m)[a] \div PerMinute
    <3>1. PICK j \in 1 .. Len(h) :
             ChartPart!getHistory(m)[a] \div PerMinute = h[j] \div PerMinute
      BY <1>8, <2>1
    <3>2. PICK i \in 1 .. Len(mu) : mu[i] = h[j] \div PerMinute
      BY <1>5
    <3> QED
      BY <3>1, <3>2
  <2> HIDE DEF T, m, c
  <2>5. Filed(ChartPart!FileSeries(f[k + 1], m), mu)
    BY <1>10, <2>2, <2>4, OtherFiled
  <2> QED
    BY <2>3, <2>5 DEF c
<1> HIDE DEF T
<1>13. N - 1 \in Nat /\ (N - 1) + 1 = N
  BY <1>1
<1>14. N - 1 \in T
  BY <1>11, <1>12, <1>13, SetInduction
<1>15. Filed(f[N], mu)
  BY <1>13, <1>14 DEF T
<1> QED
  BY <1>3, <1>15 DEF AllBy, N

\* What is drawn: the last points that were filed.
LEMMA TailDrawn ==
  ASSUME NEW order, NEW mu, Filed(ChartPart!FileAll(order), mu)
  PROVE  \E a \in 1 .. Len(mu) + 1 :
           LET tm == ChartPart!FileAll(order)
               chart == ChartPart!buildChartData(order)
           IN  /\ Len(chart) = Len(mu) - a + 1
               /\ \A i \in 1 .. Len(chart) : chart[i] = tm[a + i - 1] /\ a + i - 1 \in 1 .. Len(mu)
               /\ mu # <<>> => a <= Len(mu)
<1> DEFINE tm == ChartPart!FileAll(order)
           L == Len(tm)
           S == {1, L - Points + 1}
           a == ChartPart!Max(S)
           chart == ChartPart!buildChartData(order)
<1>1. tm \in Seq(Point) /\ L = Len(mu) /\ L \in Nat /\ mu \in Seq(Nat)
  BY DEF Filed
<1>2. chart = SubSeq(tm, a, L)
  BY DEF ChartPart!buildChartData
<1>3. Points \in Nat \ {0}
  BY ChartAssumption
<1> HIDE DEF tm, L, chart
<1>4. a \in S /\ \A y \in S : a >= y
  <2> DEFINE G(x) == \A y \in S : x >= y
  <2>1. \E x \in S : G(x)
    BY <1>1, <1>3
  <2>2. a = CHOOSE x \in S : G(x)
    BY DEF ChartPart!Max
  <2> HIDE DEF G, a, S
  <2>3. a \in S /\ G(a)
    BY <2>1, <2>2
  <2> QED
    BY <2>3 DEF G
<1>5. a \in Int /\ a >= 1 /\ a <= L + 1 /\ (L > 0 => a <= L)
  <2> HIDE DEF a
  <2> QED
    BY <1>1, <1>3, <1>4
<1> HIDE DEF a, S
<1>6. a \in 1 .. Len(mu) + 1 /\ (mu # <<>> => a <= Len(mu))
  <2>1. mu # <<>> => Len(mu) > 0
    BY <1>1
  <2> QED
    BY <1>1, <1>5, <2>1
<1>7. Len(chart) = L - a + 1 /\ \A i \in 1 .. L - a + 1 : chart[i] = tm[a + i - 1]
  BY <1>1, <1>2, <1>5, SubSeqProperties
<1>8. \A i \in 1 .. L - a + 1 : a + i - 1 \in 1 .. L
  BY <1>1, <1>5
<1>9. /\ Len(chart) = Len(mu) - a + 1
      /\ \A i \in 1 .. Len(chart) : chart[i] = tm[a + i - 1] /\ a + i - 1 \in 1 .. Len(mu)
      /\ mu # <<>> => a <= Len(mu)
  BY <1>1, <1>6, <1>7, <1>8
<1> QED
  BY <1>6, <1>9 DEF tm, chart

\* The chart of one series.
LEMMA OneDrawnInOrder ==
  ASSUME ChartInv, NEW n \in Metrics
  PROVE  ChartPart!OneInOrder(n)
<1> DEFINE h == ChartPart!getHistory(n)
           tm == ChartPart!FileAll(<<n>>)
           chart == ChartPart!buildChartData(<<n>>)
<1> SUFFICES ASSUME h # <<>>, ~ ChartPart!Wraps(n)
             PROVE  /\ \A i \in 1 .. Len(chart) - 1 : chart[i].value[n] < chart[i + 1].value[n]
                    /\ ChartPart!Last(chart).value[n] = ChartPart!getLatest(n)
  BY DEF ChartPart!OneInOrder
<1>1. PICK mu : FirstGood(tm, mu, n, Len(h))
  BY FirstFiled, OneFiled
<1>2. h \in Seq(Nat) /\ Len(h) \in Nat /\ ChartPart!getLatest(n) = h[Len(h)]
  BY SeriesInOrder
<1>3. PerMinute \in Nat \ {0}
  BY ChartAssumption
<1> HIDE DEF h
<1>4. Len(h) > 0
  BY <1>2
<1>5. /\ Filed(tm, mu)
      /\ \A i \in 1 .. Len(mu) : tm[i].value[n] # -1
      /\ Len(mu) > 0 /\ tm[Len(mu)].value[n] = h[Len(h)]
  BY <1>1, <1>4 DEF FirstGood, h
<1>6. /\ mu \in Seq(Nat) /\ Len(mu) \in Nat
      /\ \A i, j \in 1 .. Len(mu) : i < j => mu[i] < mu[j]
      /\ \A i \in 1 .. Len(mu) :
            tm[i].value[n] \in Nat /\ tm[i].value[n] \div PerMinute = mu[i]
  <2>1. mu \in Seq(Nat) /\ \A i, j \in 1 .. Len(mu) : i < j => mu[i] < mu[j]
    BY <1>5 DEF Filed
  <2>2. ASSUME NEW i \in 1 .. Len(mu)
        PROVE  tm[i].value[n] \in Nat /\ tm[i].value[n] \div PerMinute = mu[i]
    BY <1>5 DEF Filed
  <2> QED
    BY <2>1, <2>2
<1>7. PICK a \in 1 .. Len(mu) + 1 :
         /\ Len(chart) = Len(mu) - a + 1
         /\ \A i \in 1 .. Len(chart) : chart[i] = tm[a + i - 1] /\ a + i - 1 \in 1 .. Len(mu)
         /\ mu # <<>> => a <= Len(mu)
  BY <1>5, TailDrawn
<1> HIDE DEF tm, chart
<1>8. Len(chart) \in Nat /\ Len(chart) >= 1 /\ a + Len(chart) - 1 = Len(mu)
  <2>1. mu # <<>>
    BY <1>5
  <2> QED
    BY <1>6, <1>7, <2>1
<1>9. ASSUME NEW i \in 1 .. Len(chart) - 1
      PROVE  chart[i].value[n] < chart[i + 1].value[n]
  <2> DEFINE b == a + i - 1
             x == tm[b].value[n]
             y == tm[b + 1].value[n]
  <2>1. i \in 1 .. Len(chart) /\ i + 1 \in 1 .. Len(chart) /\ b \in Int
        /\ a + (i + 1) - 1 = b + 1 /\ b < b + 1
    BY <1>6, <1>8
  <2>2. /\ chart[i] = tm[b] /\ b \in 1 .. Len(mu)
        /\ chart[i + 1] = tm[b + 1] /\ b + 1 \in 1 .. Len(mu)
    BY <1>7, <2>1
  <2> HIDE DEF b
  <2>3. x \in Nat /\ y \in Nat /\ x \div PerMinute < y \div PerMinute
    BY <1>6, <2>1, <2>2
  <2> HIDE DEF x, y
  <2>4. ~ (y <= x)
    <3> SUFFICES ASSUME y <= x PROVE FALSE
      OBVIOUS
    <3>1. y \div PerMinute <= x \div PerMinute
      BY <1>3, <2>3, MinuteGrows
    <3>2. x \div PerMinute \in Nat /\ y \div PerMinute \in Nat
      BY <1>3, <2>3, Quotient
    <3> QED
      BY <2>3, <3>1, <3>2
  <2>5. x < y
    BY <2>3, <2>4
  <2> QED
    BY <2>2, <2>5 DEF x, y
<1>10. ChartPart!Last(chart).value[n] = h[Len(h)]
  <2>1. Len(chart) \in 1 .. Len(chart)
    BY <1>8
  <2>2. chart[Len(chart)] = tm[Len(mu)]
    BY <1>7, <1>8, <2>1
  <2> QED
    BY <1>5, <2>2 DEF ChartPart!Last
<1> QED
  BY <1>2, <1>9, <1>10 DEF h

\* The newest value of a point that was filed is of the point's minute.
LEMMA NewestOfPoint ==
  ASSUME NEW tm, NEW mu, Filed(tm, mu), NEW i \in 1 .. Len(mu)
  PROVE  ChartPart!Max({tm[i].value[n] : n \in Metrics}) \div PerMinute = mu[i]
<1> DEFINE v == tm[i].value
           S == {v[n] : n \in Metrics}
           x == ChartPart!Max(S)
           bound == mu[i] * PerMinute + PerMinute
<1>1. PerMinute \in Nat \ {0}
  BY ChartAssumption
<1>2. /\ \A n \in Metrics : v[n] = -1 \/ (v[n] \in Nat /\ v[n] \div PerMinute = mu[i])
      /\ \E n \in Metrics : v[n] # -1
      /\ mu \in Seq(Nat)
  BY DEF Filed
<1>3. mu[i] \in Nat
  BY <1>2, ElementOfSeq
<1> HIDE DEF v
<1>4. bound \in Nat
  BY <1>1, <1>3
<1>5. ASSUME NEW s \in S PROVE s \in Int /\ s <= bound
  <2>1. PICK n \in Metrics : s = v[n]
    OBVIOUS
  <2>2. CASE v[n] = -1
    <3> HIDE DEF bound
    <3> QED
      BY <1>4, <2>1, <2>2
  <2>3. CASE v[n] \in Nat /\ v[n] \div PerMinute = mu[i]
    <3>1. v[n] % PerMinute \in 0 .. PerMinute - 1
          /\ v[n] = ((v[n] \div PerMinute) * PerMinute) + (v[n] % PerMinute)
      BY <1>1, <2>3, Quotient
    <3>2. v[n] = (mu[i] * PerMinute) + (v[n] % PerMinute)
      BY <2>3, <3>1
    <3> DEFINE w == mu[i] * PerMinute
               r == v[n] % PerMinute
    <3>3. w \in Nat /\ r \in 0 .. PerMinute - 1 /\ v[n] = w + r /\ bound = w + PerMinute
      <4>1. w \in Nat
        BY <1>1, <1>3
      <4>2. r \in 0 .. PerMinute - 1 /\ v[n] = w + r
        BY <3>1, <3>2
      <4>3. bound = w + PerMinute
        OBVIOUS
      <4> QED
        BY <4>1, <4>2, <4>3
    <3> HIDE DEF w, r, bound
    <3>4. v[n] \in Int /\ v[n] <= bound
      BY <1>1, <3>3
    <3> QED
      BY <2>1, <3>4
  <2> QED
    BY <1>2, <2>2, <2>3
<1>6. S # {}
  BY <1>2
<1> HIDE DEF bound
<1>7. x \in S /\ \A y \in S : x >= y
  <2> DEFINE G(z) == \A y \in S : z >= y
  <2> HIDE DEF S
  <2>1. \E z \in S : G(z)
    BY <1>4, <1>5, <1>6, Greatest
  <2>2. x = CHOOSE z \in S : G(z)
    BY DEF ChartPart!Max
  <2> HIDE DEF G, x
  <2>3. x \in S /\ G(x)
    BY <2>1, <2>2
  <2> QED
    BY <2>3 DEF G
<1> HIDE DEF x
<1>8. PICK n \in Metrics : x = v[n]
  BY <1>7
<1>9. v[n] # -1
  <2>1. PICK m \in Metrics : v[m] # -1
    BY <1>2
  <2>2. v[m] \in Nat /\ v[m] \in S
    BY <1>2, <2>1
  <2>3. x >= v[m]
    BY <1>7, <2>2
  <2>4. x # -1
    BY <2>2, <2>3
  <2> QED
    BY <1>8, <2>4
<1>10. x \div PerMinute = mu[i]
  BY <1>2, <1>8, <1>9
<1> QED
  BY <1>10 DEF x, v

\* The chart of several series.
LEMMA AllDrawnInOrder ==
  ASSUME ChartInv, NEW order \in ChartPart!Orders
  PROVE  ChartPart!AllInOrder(order)
<1> DEFINE H(n) == ChartPart!getHistory(n)
           chart == ChartPart!buildChartData(order)
           tm == ChartPart!FileAll(order)
           ms == [n \in Metrics |-> {ChartPart!Minute(t) : t \in ChartPart!ToSet(H(n))}]
           Newest(point) == ChartPart!Max({point.value[n] : n \in Metrics})
<1>1. order \in Seq(Metrics)
  <2> DEFINE Begun == {n \in Metrics : [m \in Metrics |-> H(m)][n] # <<>>}
  <2>1. order \in ChartPart!SetToSeqs(Begun)
    BY DEF ChartPart!Orders
  <2>2. order \in [1 .. ChartPart!Cardinality(Begun) -> Begun]
    BY <2>1 DEF ChartPart!SetToSeqs
  <2>3. Begun \subseteq Metrics
    OBVIOUS
  <2> HIDE DEF Begun
  <2>4. ChartPart!Cardinality(Begun) = Cardinality(Begun)
    BY DEF ChartPart!Cardinality, Cardinality
  <2>5. Cardinality(Begun) \in Nat
    BY <2>3, ChartAssumption, FS_Subset, FS_CardinalityType
  <2>6. \A i \in 1 .. Cardinality(Begun) : order[i] \in Metrics
    BY <2>2, <2>3, <2>4
  <2>7. order = [i \in 1 .. Cardinality(Begun) |-> order[i]]
    BY <2>2, <2>4
  <2> QED
    BY <2>5, <2>6, <2>7, IsASeq
<1> SUFFICES ASSUME order # <<>>,
                    \A n \in ChartPart!ToSet(order) :
                       ms[n] \subseteq ms[order[1]] /\ ~ ChartPart!Wraps(n),
                    NEW i \in 1 .. Len(chart) - 1
             PROVE  ChartPart!Minute(Newest(chart[i])) < ChartPart!Minute(Newest(chart[i + 1]))
  BY DEF ChartPart!AllInOrder
<1>2. /\ Len(order) \in Nat /\ DOMAIN order = 1 .. Len(order) /\ 1 \in 1 .. Len(order)
      /\ \A c \in 1 .. Len(order) : order[c] \in ChartPart!ToSet(order) /\ order[c] \in Metrics
  <2>1. /\ Len(order) \in Nat /\ DOMAIN order = 1 .. Len(order) /\ 1 \in 1 .. Len(order)
    BY <1>1
  <2>2. \A c \in 1 .. Len(order) : order[c] \in Metrics
    BY <1>1, ElementOfSeq
  <2> QED
    BY <2>1, <2>2 DEF ChartPart!ToSet
<1>3. ~ ChartPart!Wraps(order[1])
  BY <1>2
<1>4. ASSUME NEW c \in 1 .. Len(order), NEW k \in 1 .. Len(H(order[c]))
      PROVE  \E j \in 1 .. Len(H(order[1])) :
               H(order[c])[k] \div PerMinute = H(order[1])[j] \div PerMinute
  <2> DEFINE n == order[c]
             f == order[1]
  <2>1. n \in Metrics /\ f \in Metrics /\ ms[n] \subseteq ms[f]
    BY <1>2
  <2>2. DOMAIN H(n) = 1 .. Len(H(n)) /\ DOMAIN H(f) = 1 .. Len(H(f))
    BY <2>1, SeriesInOrder
  <2> HIDE DEF n, f, H
  <2>3. /\ ms[n] = {ChartPart!Minute(t) : t \in ChartPart!ToSet(H(n))}
        /\ ms[f] = {ChartPart!Minute(t) : t \in ChartPart!ToSet(H(f))}
    BY <2>1
  <2> HIDE DEF ms
  <2>4. k \in DOMAIN H(n)
    BY <2>2 DEF n
  <2>5. ChartPart!Minute(H(n)[k]) \in ms[n]
    BY <2>3, <2>4 DEF ChartPart!ToSet
  <2>6. PICK t \in ChartPart!ToSet(H(f)) : ChartPart!Minute(H(n)[k]) = ChartPart!Minute(t)
    BY <2>1, <2>3, <2>5
  <2>7. PICK j \in 1 .. Len(H(f)) : t = H(f)[j]
    BY <2>2 DEF ChartPart!ToSet
  <2>8. H(n)[k] \div PerMinute = H(f)[j] \div PerMinute
    BY <2>6, <2>7 DEF ChartPart!Minute
  <2> QED
    BY <2>8 DEF n, f
<1>5. PICK mu : Filed(tm, mu)
  BY <1>1, <1>3, <1>4, AllFiledInOrder
<1>6. PICK a \in 1 .. Len(mu) + 1 :
         /\ Len(chart) = Len(mu) - a + 1
         /\ \A j \in 1 .. Len(chart) : chart[j] = tm[a + j - 1] /\ a + j - 1 \in 1 .. Len(mu)
         /\ mu # <<>> => a <= Len(mu)
  BY <1>5, TailDrawn
<1>7. /\ mu \in Seq(Nat) /\ Len(mu) \in Nat
      /\ \A j, l \in 1 .. Len(mu) : j < l => mu[j] < mu[l]
  <2>1. mu \in Seq(Nat) /\ \A j, l \in 1 .. Len(mu) : j < l => mu[j] < mu[l]
    BY <1>5 DEF Filed
  <2> QED
    BY <2>1
<1> DEFINE b == a + i - 1
<1> HIDE DEF chart, tm, Newest, ms, H
<1>8. Len(chart) \in Int
  BY <1>6, <1>7
<1>9. i \in 1 .. Len(chart) /\ i + 1 \in 1 .. Len(chart) /\ b \in Int
      /\ a + (i + 1) - 1 = b + 1 /\ b < b + 1
  BY <1>7, <1>8
<1>10. /\ chart[i] = tm[b] /\ b \in 1 .. Len(mu)
       /\ chart[i + 1] = tm[b + 1] /\ b + 1 \in 1 .. Len(mu)
  BY <1>6, <1>9
<1> HIDE DEF b
<1>11. \A j \in 1 .. Len(mu) : ChartPart!Minute(Newest(tm[j])) = mu[j]
  BY <1>5, NewestOfPoint DEF ChartPart!Minute, Newest
<1> QED
  BY <1>7, <1>9, <1>10, <1>11

\* The charts are of their types and true.
LEMMA ChartIsTrue ==
  ASSUME ChartInv
  PROVE  ChartPart!ChartTypeOK /\ ChartPart!ChartTrue
<1>1. ChartPart!ChartTypeOK
  BY DEF ChartInv, ChartPart!ChartTypeOK, ChartPart!Time
<1>2. ChartPart!ChartTrue
  BY OneDrawnInOrder, AllDrawnInOrder DEF ChartPart!ChartTrue
<1> QED
  BY <1>1, <1>2

\* In the palette, what Enter opens is what is marked, and what is marked is
\* shown, for any pages, lists, queries and answers.  A chart of one metric ends
\* with the value of its card and is in order of time, and one of several is in
\* order too where no metric has a minute that those before it lack - for any
\* metrics, rate of collection, length of day, ranges, and room on the chart.
THEOREM DrawnKept == MCSpec => []DrawnTrue
<1> DEFINE I == PaletteInv /\ ChartInv
<1>1. MCInit => I
  BY PaletteInit, ChartInit DEF MCInit
<1>2. I /\ [MCNext]_allVars => I'
  BY PagesApart, PaletteStep, ChartStep
<1>3. I => DrawnTrue
  BY PaletteTrue, ChartIsTrue DEF DrawnTrue
<1> QED
  BY <1>1, <1>2, <1>3, PTL DEF MCSpec

=============================================================================
