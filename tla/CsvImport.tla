----------------------------- MODULE CsvImport -----------------------------
(***************************************************************************)
(* Assets from CSV: the import tab of the assets page and the service that *)
(* creates the assets one row at a time.  The text is validated before the *)
(* import button works, and changing it takes the preview away; a row      *)
(* without a name is refused, one the database refuses is counted too, and *)
(* the rows already created stay when the server stops half-way.           *)
(*                                                                         *)
(* A text is its rows below the header, with a name (or an address to name *)
(* them by) or without.  One with no row is refused.                       *)
(***************************************************************************)
EXTENDS Naturals, Sequences

CONSTANTS MaxRows, MaxImports     \* rows in a text, imports in a behaviour

Kinds == {"named", "unnamed"}
Csvs == UNION {[1 .. n -> Kinds] : n \in 0 .. MaxRows}
Nothing == <<"nothing">>     \* the empty text, and no text
NoCall == [csv |-> Nothing, row |-> 0, success |-> 0, failed |-> 0, made |-> 0]
NoPreview == [of |-> Nothing, valid |-> FALSE, late |-> FALSE]

VARIABLES
    csvContent,
    csvPreview,     \* and (history) whether its text was changed meanwhile
    validating,     \* the text being validated
    import,         \* the import being handled: its text, the next row, the
                    \* counts, and (history) the assets it made
    importResult,
    assets,         \* how many assets there are
    imports,        \* how many imports were sent
    edited          \* history: the text was changed while it was validated

vars == <<csvContent, csvPreview, validating, import, importResult, assets,
          imports, edited>>

Results == [success : 0 .. MaxRows, failed : 0 .. MaxRows, made : 0 .. MaxRows,
            rows : 0 .. MaxRows]
NoResult == [success |-> 0, failed |-> 0, made |-> 0, rows |-> 0]

CsvTypeOK ==
    /\ csvContent \in Csvs \union {Nothing}
    /\ csvPreview.of \in Csvs \union {Nothing} /\ {csvPreview.valid, csvPreview.late} \subseteq BOOLEAN
    /\ validating \in Csvs \union {Nothing}
    /\ import.csv \in Csvs \union {Nothing} /\ import.row \in 0 .. MaxRows + 1
    /\ importResult \in Results
    /\ assets \in 0 .. MaxRows * MaxImports
    /\ imports \in 0 .. MaxImports
    /\ edited \in BOOLEAN

Init ==
    /\ csvContent = Nothing /\ csvPreview = NoPreview
    /\ validating = Nothing /\ import = NoCall /\ importResult = NoResult
    /\ assets = 0 /\ imports = 0 /\ edited = FALSE

\* A preview that stays when the text changes.
PreviewStays == csvPreview
\* Typing, pasting, choosing a file, and opening the tab anew.
PreviewOfNewText == NoPreview
Write(text) ==
    /\ csvContent' = text /\ csvPreview' = PreviewOfNewText
    /\ edited' = (validating # Nothing)
    /\ importResult' \in {importResult, NoResult}
    /\ UNCHANGED <<validating, import, assets, imports>>

Valid(text) == text # <<>>
Validate ==
    /\ csvContent # Nothing /\ validating = Nothing
    /\ validating' = csvContent /\ edited' = FALSE
    /\ UNCHANGED <<csvContent, csvPreview, import, importResult, assets, imports>>

Validated ==
    /\ validating # Nothing
    /\ csvPreview' = [of |-> validating, valid |-> Valid(validating), late |-> edited]
    /\ validating' = Nothing
    /\ UNCHANGED <<csvContent, import, importResult, assets, imports, edited>>

\* The button needs a text, its valid preview, and no import under way.
Import ==
    /\ imports < MaxImports
    /\ csvContent # Nothing /\ csvPreview.valid /\ import = NoCall
    /\ import' = [NoCall EXCEPT !.csv = csvContent, !.row = 1]
    /\ imports' = imports + 1
    /\ UNCHANGED <<csvContent, csvPreview, validating, importResult, assets, edited>>

-----------------------------------------------------------------------------
importing == import # NoCall /\ import.row \in 1 .. Len(import.csv)
Counted(made, success) ==
    import' = [import EXCEPT !.row = @ + 1, !.made = @ + made,
                  !.success = @ + success, !.failed = @ + (1 - success)]

\* One row: the statement that creates it may fail for any reason.
RowCreated ==
    /\ importing /\ import.csv[import.row] = "named"
    /\ Counted(1, 1)
    /\ assets' = assets + 1
    /\ UNCHANGED <<csvContent, csvPreview, validating, importResult, imports, edited>>

RowRefused ==
    /\ importing
    /\ Counted(0, 0)
    /\ UNCHANGED <<csvContent, csvPreview, validating, importResult, assets, imports, edited>>

Imported ==
    /\ import # NoCall /\ ~importing /\ Valid(import.csv)
    /\ importResult' = [success |-> import.success, failed |-> import.failed,
                        made |-> import.made, rows |-> Len(import.csv)]
    /\ import' = NoCall
    /\ UNCHANGED <<csvContent, csvPreview, validating, assets, imports, edited>>

\* The text is refused, the server stops or its answer is lost: nothing is
\* shown, and the user may press the button again.
ImportLost ==
    /\ import # NoCall /\ import' = NoCall
    /\ UNCHANGED <<csvContent, csvPreview, validating, importResult, assets, imports, edited>>

Next ==
    \/ \E text \in Csvs \union {Nothing} : Write(text)
    \/ Validate \/ Validated \/ Import
    \/ RowCreated \/ RowRefused \/ Imported \/ ImportLost

Spec == Init /\ [][Next]_vars

-----------------------------------------------------------------------------
\* A preview stands beside the text it is about, unless the text was changed
\* while it was validated; and the numbers shown after an import are those of
\* the assets it made and of all its rows.
ImportShown ==
    /\ (csvPreview # NoPreview /\ ~csvPreview.late) => csvPreview.of = csvContent
    /\ importResult.success = importResult.made
    /\ importResult.success + importResult.failed = importResult.rows
=============================================================================
