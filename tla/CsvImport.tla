------------------------------ MODULE CsvImport ------------------------------
(***************************************************************************)
(* Tests a person declares in a CSV: each row is validated, keyed, merged  *)
(* into the versions of its case and rendered without a model; the file is *)
(* corrected and imported again, and cases are edited in between.  An      *)
(* import is one request and one transaction.                              *)
(***************************************************************************)
EXTENDS Naturals, Sequences, FiniteSets, FiniteSetsExt, SequencesExt

CONSTANTS
  Files,        \* what may be uploaded: [header, rows]
  MaxCsvRows,   \* MAX_CSV_ROWS, in small
  MaxVersions,  \* bound: rows of test_cases
  MaxImports    \* bound

VARIABLES
  table,     \* test_cases in insertion order, each with the test its script holds
  last,      \* the file of the last import, or NoFile
  result,    \* its answer
  imports

vars == <<table, last, result, imports>>

(***************************************************************************)
(* Reading a row: a cell that is empty is "", a status that is no number 1 *)
(***************************************************************************)
Methods == {"GET", "POST", "PUT", "PATCH", "DELETE"}
Statuses == 100 .. 599
EmptyStatus == 0
BlankRow == [layer |-> "", method |-> "", path |-> "", status |-> EmptyStatus, name |-> "",
             payload |-> "", authenticated |-> "", text |-> ""]

LayerOf(row) == IF row.layer = "" THEN "api" ELSE row.layer
Authenticated(row) == row.authenticated \notin {"false", "no", "0"}

\* _api_row.
ApiRowIsValid(row) ==
  /\ row.method \in Methods /\ row.path # ""
  /\ row.status \in Statuses
  /\ row.payload \notin {"not json", "a list"}
ApiSpec(row) ==
  [layer |-> "api", method |-> row.method, path |-> row.path, status |-> row.status,
   name |-> IF row.name = "" THEN "METHOD path" ELSE row.name, payload |-> row.payload,
   authenticated |-> Authenticated(row), text |-> ""]

\* _ui_row.
UiRowIsValid(row) == row.path # "" /\ row.status \in Statuses \cup {EmptyStatus}
UiSpec(row) ==
  [layer |-> "ui", method |-> "GET", path |-> row.path,
   status |-> IF row.status = EmptyStatus THEN 200 ELSE row.status,
   name |-> IF row.name = "" THEN "VISIT path" ELSE row.name, payload |-> "",
   authenticated |-> Authenticated(row), text |-> row.text]

\* _row_to_spec.
IsValid(row) ==
  \/ LayerOf(row) = "api" /\ ApiRowIsValid(row)
  \/ LayerOf(row) = "ui" /\ UiRowIsValid(row)
SpecOf(row) == IF LayerOf(row) = "ui" THEN UiSpec(row) ELSE ApiSpec(row)

(***************************************************************************)
(* Reading a file                                                          *)
(***************************************************************************)
HeaderIsValid(file) == file.header = "with path"
Considered(file) ==
  IF HeaderIsValid(file) THEN SubSeq(file.rows, 1, Min({Len(file.rows), MaxCsvRows}))
  ELSE << >>

\* parse_csv_tests: the rows that are reported, 0 for the header ...
Reported(file) ==
  IF ~HeaderIsValid(file) THEN {0}
  ELSE {i \in DOMAIN Considered(file) : file.rows[i] # BlankRow /\ ~IsValid(file.rows[i])}
         \cup {i \in {MaxCsvRows + 1} : i \in DOMAIN file.rows}

\* ... and the scenarios.
Specs(file) ==
  LET valid == SelectSeq(Considered(file), LAMBDA row : row # BlankRow /\ IsValid(row))
  IN [i \in DOMAIN valid |-> SpecOf(valid[i])]

(***************************************************************************)
(* A scenario as a test                                                    *)
(***************************************************************************)
\* csv_case_key.
CsvCaseKey(spec) == <<spec.layer, spec.method, spec.path, spec.name, spec.status>>

\* render_csv_test, render_csv_ui_test: what the test does and asserts.
RenderCsvTest(spec) ==
  IF spec.layer = "ui"
    THEN [visit |-> spec.path, body |-> "", actor |-> FALSE, text |-> spec.text,
          status |-> IF spec.status >= 400 THEN spec.status ELSE 0]
    ELSE [visit |-> spec.path, body |-> IF spec.method = "GET" THEN "" ELSE spec.payload,
          actor |-> spec.authenticated, text |-> "", status |-> spec.status]

NoScript == [visit |-> "", body |-> "", actor |-> FALSE, text |-> "", status |-> 0]

\* to_test_case.
NewVersion(spec, current) ==
  [key |-> CsvCaseKey(spec), spec |-> spec, current |-> current, human |-> FALSE,
   script |-> NoScript]

(***************************************************************************)
(* The import                                                              *)
(***************************************************************************)
CurrentOf(rows, key) == {i \in DOMAIN rows : rows[i].key = key /\ rows[i].current}
TheCurrent(rows, key) == CHOOSE i \in CurrentOf(rows, key) : TRUE

\* Mutant: a re-import replaces whatever is current.
MergeMutant(rows, spec) ==
  LET i == TheCurrent(rows, CsvCaseKey(spec)) IN
  IF CurrentOf(rows, CsvCaseKey(spec)) = {} THEN Append(rows, NewVersion(spec, TRUE))
  ELSE Append([rows EXCEPT ![i].current = FALSE], NewVersion(spec, TRUE))

\* CaseMergeService.merge.
Merge(rows, spec) ==
  LET key == CsvCaseKey(spec)
      i == TheCurrent(rows, key) IN
  CASE CurrentOf(rows, key) = {} -> Append(rows, NewVersion(spec, TRUE))
    [] CurrentOf(rows, key) # {} /\ rows[i].human -> Append(rows, NewVersion(spec, FALSE))
    [] OTHER -> Append([rows EXCEPT ![i].current = FALSE], NewVersion(spec, TRUE))

\* Every scenario adds one version, in order, and its script is attached to that one.
AttachScripts(rows, before, specs) ==
  [i \in DOMAIN rows |->
     IF i > before THEN [rows[i] EXCEPT !.script = RenderCsvTest(specs[i - before])]
                   ELSE rows[i]]

\* A scenario counts as created if nothing current had its key when it was merged.
Created(rows, specs) ==
  Cardinality({i \in DOMAIN specs :
    LET merged == FoldLeft(Merge, rows, SubSeq(specs, 1, i - 1))
    IN CurrentOf(merged, CsvCaseKey(specs[i])) = {}})

NoFile == [header |-> "none", rows |-> << >>]

Init ==
  /\ table = << >> /\ last = NoFile /\ imports = 0
  /\ result = [total |-> 0, created |-> 0, updated |-> 0, errors |-> {}]

\* import_tests_csv and import_csv: a file without scenarios changes nothing.
Import(file) ==
  LET specs == Specs(file)
      rows == FoldLeft(Merge, table, specs)
      created == Created(table, specs) IN
  /\ imports < MaxImports /\ imports' = imports + 1
  /\ table' = AttachScripts(rows, Len(table), specs)
  /\ Len(table') <= MaxVersions
  /\ last' = file
  /\ result' = [total |-> Len(specs), created |-> created, updated |-> Len(specs) - created,
                errors |-> Reported(file)]

\* TestCaseService.edit: the edit is the new current version, and a person's.
Edit(i) ==
  /\ table[i].current /\ ~table[i].human
  /\ table' = Append([table EXCEPT ![i].current = FALSE],
                      [table[i] EXCEPT !.human = TRUE, !.script = NoScript])
  /\ Len(table') <= MaxVersions
  /\ last' = NoFile
  /\ UNCHANGED <<result, imports>>

Next == (\E file \in Files : Import(file)) \/ (\E i \in DOMAIN table : Edit(i))
Spec == Init /\ [][Next]_vars

(***************************************************************************)
(* Properties                                                              *)
(***************************************************************************)
CsvTypeOK ==
  /\ last \in Files \cup {NoFile}
  /\ Len(table) <= MaxVersions
  /\ imports \in 0 .. MaxImports

\* list_project_tests: the current versions, each with its code.
Viewer == {table[i] : i \in {j \in DOMAIN table : table[j].current}}

\* No row is lost: of the rows that were read, each is blank, a scenario or reported, and
\* a file that was cut off says so.
NoRowIsLost ==
  last # NoFile =>
    /\ Len(Considered(last)) =
         Cardinality({i \in DOMAIN Considered(last) : last.rows[i] = BlankRow})
         + result.total + Cardinality(result.errors \cap DOMAIN Considered(last))
    /\ Considered(last) # last.rows => result.errors # {}

\* What was uploaded is what is there: for each row that is a scenario there is one current
\* case, a person's edit or the last row of that key, and its script tests what it says.
UploadIsThere ==
  last # NoFile =>
    LET specs == Specs(last) IN
    \A i \in DOMAIN specs :
      LET key == CsvCaseKey(specs[i])
          final == Max({j \in DOMAIN specs : CsvCaseKey(specs[j]) = key}) IN
      \E j \in DOMAIN table :
        /\ CurrentOf(table, key) = {j}
        /\ table[j].human \/ table[j].script = RenderCsvTest(specs[final])

\* Importing a file again changes nothing that is shown, and no import replaces an edit.
ImportsAgree ==
  /\ last' = last /\ last # NoFile => Viewer' = Viewer
  /\ \A v \in Viewer : v.human => v \in Viewer'

\* An import keeps what its rows say and what a person changed.
CsvIsFaithful == [](NoRowIsLost /\ UploadIsThere) /\ [][ImportsAgree]_vars
=============================================================================
