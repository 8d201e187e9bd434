----------------------------- MODULE CaseLineage -----------------------------
(***************************************************************************)
(* The versions of one logical test case (one case_key of one project), as *)
(* generation, CSV import, human edits, human authoring, the two review    *)
(* services and Mode B's reuse path read and write them                    *)
(* (services/case_*.py, test_case_service.py, proposal_resolution_service  *)
(* .py, repositories/test_case_repository.py, modes/proposals.py).         *)
(*                                                                         *)
(* Every service reads first, decides, and writes when its request or job  *)
(* commits; nothing locks the rows in between, so an operation is a Read   *)
(* step that remembers what it saw and a Write step that acts on it.  The  *)
(* one guard the database adds is the partial unique index on the current  *)
(* version of a lineage: a commit that would break it is rolled back.      *)
(***************************************************************************)
EXTENDS Naturals, Sequences, FiniteSets

CONSTANTS
  Sessions,      \* concurrent requests and jobs
  Services,      \* the human services in use: "edit", "author", "resolve", "review"
  Sources,       \* the generators in use: "modeB", "modeC", "csv"
  MaxRows        \* bound: versions of the case

ASSUME ServicesAssumption == Services \subseteq {"edit", "author", "resolve", "review"}
ASSUME SourcesAssumption == Sources \subseteq {"modeB", "modeC", "csv"}
ASSUME MaxRowsAssumption == MaxRows \in Nat \ {0}

VARIABLES
  page,  \* the case drives a page, so its target_node is set; or an endpoint
  rows,  \* test_cases with this case_key, in insertion order
  txn    \* what each session has read, or Idle

vars == <<page, rows, txn>>

Row == [
  lineage : 1 .. MaxRows,  \* lineage_id, named by its first row
  parent  : 0 .. MaxRows,  \* parent_version_id, 0 for a root
  version : 1 .. MaxRows,
  current : BOOLEAN,
  human   : BOOLEAN,       \* edited_by_human
  proposed : BOOLEAN,      \* origin is PROPOSED; no code asks for the other origins
  status  : {"none", "pending", "accepted", "rejected"}  \* proposal_status
]

NoRow == [lineage |-> 1, parent |-> 0, version |-> 1, current |-> FALSE,
          human |-> FALSE, proposed |-> FALSE, status |-> "none"]

Txn == [
  op     : {"idle", "merge", "reuse", "edit", "resolve", "review"},
  source : {"none"} \cup Sources,
  row    : 0 .. MaxRows,  \* the row it works on
  base   : 0 .. MaxRows,  \* the current row it will demote
  seen   : Row            \* the row as it was when it was loaded
]
Idle == [op |-> "idle", source |-> "none", row |-> 0, base |-> 0, seen |-> NoRow]

TypeOK ==
  /\ page \in BOOLEAN
  /\ rows \in Seq(Row)
  /\ Len(rows) <= MaxRows
  /\ txn \in [Sessions -> Txn]
  /\ \A i \in DOMAIN rows :
       rows[i].parent < i /\ rows[i].lineage <= i /\ rows[i].version <= i

Init ==
  /\ page \in BOOLEAN
  /\ rows = << >>
  /\ txn = [s \in Sessions |-> Idle]

----------------------------------------------------------------------------
(* The table *)

Currents == {i \in DOMAIN rows : rows[i].current}
CurrentOf(l) == {i \in Currents : rows[i].lineage = l}

\* Mutant: the index does not exist.
OneCurrentMutant(R) == TRUE

\* uq_test_cases_one_current.
OneCurrent(R) ==
  \A i, j \in DOMAIN R :
    R[i].current /\ R[j].current /\ R[i].lineage = R[j].lineage => i = j

\* A session ends: its writes commit as a whole, or the index rolls them back.
Commit(s, R) ==
  /\ txn' = [txn EXCEPT ![s] = Idle]
  /\ rows' = IF OneCurrent(R) THEN R ELSE rows
  /\ UNCHANGED page

Begin(s, t) == txn[s] = Idle /\ txn' = [txn EXCEPT ![s] = t] /\ UNCHANGED <<page, rows>>

\* The row a session loaded, as it was when it loaded it; 0 stands for none.
Load(op, source, i, base) ==
  [op |-> op, source |-> source, row |-> i, base |-> base,
   seen |-> IF i = 0 THEN NoRow ELSE rows[i]]

\* The first version of a new lineage.
Root(human) ==
  [lineage |-> Len(rows) + 1, parent |-> 0, version |-> 1, current |-> TRUE,
   human |-> human, proposed |-> FALSE, status |-> "none"]

\* TestCaseRepository.new_version over the loaded copy of row i: the lineage and
\* proposal_status are carried forward.
Fork(i, seen, current, human, proposed) ==
  [seen EXCEPT !.parent = i, !.version = @ + 1, !.current = current,
               !.human = human, !.proposed = proposed]

\* Mutant: every version of the lineage is retired.
RetireMutant(i) ==
  [j \in DOMAIN rows |-> [rows[j] EXCEPT
     !.current = @ /\ rows[j].lineage # rows[i].lineage]]

Retire(i) == [rows EXCEPT ![i].current = FALSE]

----------------------------------------------------------------------------
(* Generation: CaseMergeService.merge and the callers that re-tag its rows *)

\* Mode B generates only for a target without current cases of its own; the cases
\* of an endpoint carry no target_node, so it generates for those every time.
Generates(source) ==
  source \in Sources /\ (source = "modeB" /\ page => Currents = {})

\* merge's lookup; more than one current version of the key raises MergeError.
MergeRead(s, source) ==
  /\ Generates(source)
  /\ Len(rows) < MaxRows
  /\ Cardinality(Currents) <= 1
  /\ LET existing == IF Currents = {} THEN 0 ELSE CHOOSE i \in Currents : TRUE
     IN Begin(s, Load("merge", source, existing, 0))

\* Mode C re-stamps a created or updated version as a proposal; the CSV import
\* re-stamps every version, a proposal too, as an authored one.
Retag(source, row) ==
  CASE source = "modeC" -> [row EXCEPT !.proposed = TRUE, !.status = "pending"]
    [] source = "csv" -> [row EXCEPT !.proposed = FALSE]
    [] OTHER -> row

CreateFresh(t) == Append(rows, Retag(t.source, Root(FALSE)))

AppendGenerated(t) ==
  Append(Retire(t.row),
         Retag(t.source, [Fork(t.row, t.seen, TRUE, FALSE, FALSE) EXCEPT
                            !.status = "none"]))

\* The human-edited current is left alone: the candidate waits beside it.
Propose(t) ==
  LET row == [Fork(t.row, t.seen, FALSE, FALSE, TRUE) EXCEPT !.status = "pending"]
  IN Append(rows, IF t.source = "csv" THEN Retag("csv", row) ELSE row)

\* Mutant: whoever edited the current version, it is replaced.
MergeWriteMutant(s) ==
  LET t == txn[s] IN
  /\ t.op = "merge" /\ Len(rows) < MaxRows
  /\ Commit(s, IF t.row = 0 THEN CreateFresh(t) ELSE AppendGenerated(t))

MergeWrite(s) ==
  LET t == txn[s] IN
  /\ t.op = "merge" /\ Len(rows) < MaxRows
  /\ Commit(s, CASE t.row = 0 -> CreateFresh(t)
                 [] t.row # 0 /\ ~t.seen.human -> AppendGenerated(t)
                 [] OTHER -> Propose(t))

----------------------------------------------------------------------------
(* Humans *)

\* TestCaseService.edit.
EditRead(s, i) ==
  /\ "edit" \in Services
  /\ Len(rows) < MaxRows
  /\ i \in Currents
  /\ Begin(s, Load("edit", "none", i, 0))

EditWrite(s) ==
  LET t == txn[s] IN
  /\ t.op = "edit" /\ Len(rows) < MaxRows
  /\ Commit(s, Append(Retire(t.row), Fork(t.row, t.seen, TRUE, TRUE, FALSE)))

\* Mutant: the case is stored without a lineage of its own.
AuthorMutant(s) ==
  /\ "author" \in Services
  /\ Len(rows) < MaxRows
  /\ txn[s] = Idle
  /\ Commit(s, Append(rows, [Root(TRUE) EXCEPT !.lineage = @ + 1]))

\* CaseAuthoringService.create_case: it does not look the key up.
Author(s) ==
  /\ "author" \in Services
  /\ Len(rows) < MaxRows
  /\ txn[s] = Idle
  /\ Commit(s, Append(rows, Root(TRUE)))

\* ProposalResolutionService._load_pending, and accept's read of the current one.
ResolveRead(s, i) ==
  /\ "resolve" \in Services
  /\ rows[i].proposed
  /\ rows[i].status = "pending"
  /\ LET cur == CurrentOf(rows[i].lineage) IN
     Begin(s, Load("resolve", "none", i, IF cur = {} THEN 0 ELSE CHOOSE c \in cur : TRUE))

\* accept: demote, then promote.  An attribute set to the value it was loaded
\* with is not written.
ResolveAccept(s) ==
  LET t == txn[s]
      demoted == IF t.base \in {0, t.row} THEN rows ELSE Retire(t.base) IN
  /\ t.op = "resolve"
  /\ Commit(s, [demoted EXCEPT ![t.row].current = @ \/ ~t.seen.current,
                               ![t.row].status = "accepted"])

ResolveReject(s) ==
  LET t == txn[s] IN
  /\ t.op = "resolve"
  /\ Commit(s, [rows EXCEPT ![t.row].status = "rejected"])

\* CaseReviewService._pending_case.
ReviewRead(s, i) ==
  /\ "review" \in Services
  /\ rows[i].current
  /\ rows[i].status = "pending"
  /\ Begin(s, Load("review", "none", i, 0))

ReviewAccept(s) ==
  LET t == txn[s] IN
  /\ t.op = "review"
  /\ Commit(s, [rows EXCEPT ![t.row].status = "accepted"])

Discard(s) ==
  LET t == txn[s] IN
  /\ t.op = "review"
  /\ Commit(s, [rows EXCEPT ![t.row].status = "rejected", ![t.row].current = FALSE])

----------------------------------------------------------------------------
(* Execution *)

\* A Mode B run takes a current case of a page it selected and executes its
\* scripts instead of generating, whatever its proposal_status.
ReuseScripts(s, i) ==
  /\ "modeB" \in Sources
  /\ page
  /\ i \in Currents
  /\ Begin(s, Load("reuse", "modeB", i, 0))

\* The scripts have run; the case is not written.
RunScripts(s) == txn[s].op = "reuse" /\ Commit(s, rows)

Resolves(s) == ResolveAccept(s) \/ ResolveReject(s)
Reviews(s) == ReviewAccept(s) \/ Discard(s)

\* The steps in which a human changes a version that exists.
HumanWrites(s) == EditWrite(s) \/ Resolves(s) \/ Reviews(s)

Next ==
  \/ \E s \in Sessions :
       \/ \E source \in Sources : MergeRead(s, source)
       \/ MergeWrite(s)
       \/ Author(s)
       \/ HumanWrites(s)
       \/ \E i \in DOMAIN rows : EditRead(s, i) \/ ResolveRead(s, i) \/ ReviewRead(s, i)
       \/ \E i \in DOMAIN rows : ReuseScripts(s, i)
       \/ RunScripts(s)

Spec == Init /\ [][Next]_vars

----------------------------------------------------------------------------
(* Properties *)

\* Re-generation never overwrites a human edit (TRD section 3): only a human's own
\* edit, acceptance or discard ends the reign of a human-edited current version,
\* even when a generator read the lineage before the edit and writes after it.
NeverClobber ==
  [][\A i \in DOMAIN rows :
       rows[i].current /\ rows[i].human /\ ~rows'[i].current =>
         \E s \in Sessions : txn[s].op \in {"edit", "resolve", "review"} /\ txn'[s] = Idle]_vars

\* A lineage has exactly one current version, whatever reads went stale, unless a
\* review ended it: every service retires and appends in one commit.
CurrentUnlessReviewed ==
  \A l \in {rows[i].lineage : i \in DOMAIN rows} :
    \/ \E i \in DOMAIN rows : CurrentOf(l) = {i}
    \/ /\ CurrentOf(l) = {}
       /\ \E i \in DOMAIN rows :
            rows[i].lineage = l /\ rows[i].status \in {"accepted", "rejected"}

\* No update is lost: a version is only ever replaced as current by a session that
\* had read it, so an edit or a re-generation based on an older version never
\* displaces a newer one.
NoBlindReplace ==
  [][\A i \in Currents :
       ~rows'[i].current /\ (\E j \in DOMAIN rows' : rows'[j].lineage = rows[i].lineage
                                                    /\ rows'[j].current) =>
         \E s \in Sessions : txn'[s] # txn[s] /\ i \in {txn[s].row, txn[s].base}]_vars

----------------------------------------------------------------------------
(* The inductive invariant behind the properties above *)

Reviewed(row) == row.status \in {"accepted", "rejected"}

\* Every lineage in R has a current version or one that a review resolved.
Held(R) ==
  \A i \in DOMAIN R : \E j \in DOMAIN R :
    R[j].lineage = R[i].lineage /\ (R[j].current \/ Reviewed(R[j]))

\* What a session remembers of its rows that no later write changes.
Remembers(t) ==
  /\ t.row \in 0 .. Len(rows)
  /\ t.base \in 0 .. Len(rows)
  /\ t.op \notin {"idle", "merge"} => t.row # 0
  /\ t.row # 0 => /\ t.seen.human = rows[t.row].human
                  /\ t.seen.lineage = rows[t.row].lineage
                  /\ t.seen.version = rows[t.row].version
  /\ t.base # 0 => rows[t.base].lineage = t.seen.lineage

IInv ==
  /\ TypeOK
  /\ OneCurrent(rows)
  /\ Held(rows)
  /\ \A s \in Sessions : Remembers(txn[s])

----------------------------------------------------------------------------
(* What the documentation says and the code does not keep *)

\* get_current_by_case_key's docstring: "case_key is 1:1 with a lineage ... so this
\* returns at most one row".
KeyNamesOneCurrent == Cardinality(Currents) <= 1

\* CaseReviewService: authored cases are pending proposals "so a human confirms
\* before they run".
PendingNeverRuns ==
  \A s \in Sessions : txn[s].op = "reuse" => txn[s].seen.status # "pending"
=============================================================================
