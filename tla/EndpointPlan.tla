---------------------------- MODULE EndpointPlan ----------------------------
(***************************************************************************)
(* The tests of one endpoint, from its validation rules to their verdicts: *)
(* the rules are normalized, the plan derives a payload and an expected    *)
(* outcome for each of them, a model renders each case, and the tests run  *)
(* against the application, which may have changed since.                  *)
(*                                                                         *)
(* A rule is a token [head, arg]; a value is its kind and its length (of a *)
(* string), count (of an array) or amount (of an integer).  Each field has *)
(* a table of its own for its relational rule.                             *)
(***************************************************************************)
EXTENDS Integers, Sequences, FiniteSets

CONSTANTS
  Fields,     \* the names of the input
  Hidden,     \* those whose name says that the server hides or transforms them
  RuleSets    \* the rules a route may have: for each field, a set of tokens

VARIABLES
  route,      \* the endpoint: its rules, its class and what ingestion kept of them
  suite,      \* the generated tests by case key
  app,        \* what is wrong with the application
  report      \* the verdicts of the last run, by case key

vars == <<route, suite, app, report>>

(***************************************************************************)
(* Rules to typed fields                                                   *)
(***************************************************************************)
Heads(rules) == {r.head : r \in rules}
None == -1
Numeric == {"integer", "numeric"}
TypePriority ==
  <<"email", "uuid", "integer", "numeric", "boolean", "array", "date", "string">>
Types == {TypePriority[i] : i \in DOMAIN TypePriority}

Argument(rules, head) ==
  IF head \in Heads(rules) THEN (CHOOSE r \in rules : r.head = head).arg ELSE None

\* normalize_field: the most specific type wins.
NormalizeField(rules) ==
  LET types == {i \in DOMAIN TypePriority : TypePriority[i] \in Heads(rules)} IN
  [required |-> "required" \in Heads(rules),
   type |-> IF types = {} THEN "unknown"
            ELSE TypePriority[CHOOSE i \in types : \A j \in types : i <= j],
   min |-> Argument(rules, "min"),
   max |-> Argument(rules, "max"),
   size |-> Argument(rules, "size"),
   relational |-> IF "exists" \in Heads(rules) THEN "exists"
                  ELSE IF "unique" \in Heads(rules) THEN "unique" ELSE "none"]

\* _validation_fields_from: the rules, or the bare names if ingestion kept only those.
FieldOf(f) == NormalizeField(IF route.captured THEN route.rules[f] ELSE {})

(***************************************************************************)
(* The plan                                                                *)
(***************************************************************************)
Value(kind, n) == [kind |-> kind, n |-> n]
AtLeast(a, b) == IF a > b THEN a ELSE b
AtMost(a, b) == IF a < b THEN a ELSE b

Absent == Value("absent", 0)
Text(n) == Value("string", AtLeast(n, 0))
NonexistentId == Value("integer", 999999999)

\* The values of _INVALID_TYPE_VALUE are words.
WrongType == Text(12)

\* The lengths of an address, a short one, a date, a uuid, a boolean as PHP writes it.
Length == [email |-> 16, shortEmail |-> 6, date |-> 10, uuid |-> 36, boolean |-> 1]

TargetLength(f) ==
  AtLeast(1, IF f.size # None THEN f.size
             ELSE IF f.min # None THEN f.min
             ELSE IF f.max # None THEN AtMost(f.max, 8) ELSE 8)

\* _valid_value.
ValidValue(f) ==
  CASE f.relational # "none" /\ f.type = "unknown" -> Value("integer", 1)
    [] f.type \in Numeric ->
         Value("integer", IF f.min # None THEN f.min
                          ELSE IF f.max # None THEN AtMost(f.max, 1) ELSE 7)
    [] f.type = "email" ->
         Value("email", IF f.max # None /\ Length.email > f.max THEN Length.shortEmail
                        ELSE Length.email)
    [] f.type = "array" ->
         Value("array", AtLeast(1, IF f.min # None THEN f.min
                                   ELSE IF f.size # None THEN f.size ELSE 1))
    [] f.type \in {"boolean", "date", "uuid"} -> Value(f.type, Length[f.type])
    [] OTHER -> Text(TargetLength(f))

\* Mutant: a boundary is the last value that is allowed.
OffMutant(f, bound) ==
  LET inside == IF bound < f.min THEN f.min ELSE bound IN
  IF f.type \in Numeric THEN Value("integer", inside) ELSE Text(inside)

\* _below_min, _above_max, _sized.
Off(f, bound) == IF f.type \in Numeric THEN Value("integer", bound) ELSE Text(bound)

Base == [x \in Fields |-> ValidValue(FieldOf(x))]

\* _dependencies: the fields whose value must be in its table when the case runs.
Dependencies(payload, flip) ==
  {x \in Fields : /\ payload[x] # Absent
                  /\ \/ FieldOf(x).relational = "exists" /\ x # flip
                     \/ FieldOf(x).relational = "unique" /\ x = flip}

\* _echo_fields: what a success is expected to send back.
Echo == {x \in Fields \ Hidden : /\ FieldOf(x).required
                                 /\ FieldOf(x).type \in {"string", "integer", "numeric"}}

Happy ==
  [name |-> <<"happy">>, field |-> "none", payload |-> Base, authenticated |-> route.auth,
   assert |-> "reachable", rows |-> Dependencies(Base, "none")]

Unauthenticated ==
  [Happy EXCEPT !.name = <<"auth_unauthenticated">>, !.authenticated = FALSE,
                !.assert = IF route.api THEN "status" ELSE "redirect"]

Negative(x, rule, value, flip) ==
  LET payload == [Base EXCEPT ![x] = value] IN
  [name |-> <<x, rule>>, field |-> x, payload |-> payload, authenticated |-> route.auth,
   assert |-> IF route.api THEN "status" ELSE "redirect_with_errors",
   rows |-> Dependencies(payload, flip)]

\* One case for each rule of a field.
NegativesOf(x) ==
  LET f == FieldOf(x)
      If(condition, case) == IF condition THEN {case} ELSE {} IN
  If(f.required, Negative(x, "required_missing", Absent, "none"))
  \cup If(f.type \notin {"string", "unknown"},
          Negative(x, "type_violation", WrongType, "none"))
  \cup If(f.min # None, Negative(x, "min_boundary", Off(f, f.min - 1), "none"))
  \cup If(f.max # None, Negative(x, "max_boundary", Off(f, f.max + 1), "none"))
  \cup If(f.size # None, Negative(x, "size_below", Off(f, f.size - 1), "none"))
  \cup If(f.size # None, Negative(x, "size_above", Off(f, f.size + 1), "none"))
  \cup If(f.relational = "exists", Negative(x, "exists_missing", NonexistentId, x))
  \cup If(f.relational = "unique", Negative(x, "unique_duplicate", Base[x], x))

\* compute_case_key, within one endpoint.
CaseKey(case) == case.name

\* plan_cases.
PlanCases ==
  {Happy} \cup (IF route.auth THEN {Unauthenticated} ELSE {})
          \cup UNION {NegativesOf(x) : x \in Fields}

(***************************************************************************)
(* Rendering                                                               *)
(***************************************************************************)
\* The code an answer holds once it is out of its fences and prose: a test class, one that
\* needs factories, or nothing that is a test.
Answers == {"class", "factory", "prose"}

LooksLikeTestClass(code) == code # "prose"

\* A test that needs factories the target does not have skips itself.
SkipIfUsesFactory(code) == IF code = "factory" /\ ~route.factories THEN "skips" ELSE "runs"

\* render_script: one repair of what is not a class; the second answer stands.
RenderScript(first, second) ==
  LET code == IF LooksLikeTestClass(first) THEN first ELSE second IN
  IF LooksLikeTestClass(code) THEN SkipIfUsesFactory(code) ELSE "broken"

(***************************************************************************)
(* The application (Laravel's validator, external)                         *)
(***************************************************************************)
Blank(v) == v = Absent \/ (v.kind \in {"string", "array"} /\ v.n = 0)

HasType(v, head) ==
  CASE head \in Numeric -> v.kind = "integer"
    [] head = "string" -> v.kind \in {"string", "email", "date", "uuid"}
    [] OTHER -> v.kind = head

Digits(n) == IF n > 9 THEN 9 ELSE 1
Measure(v, rules) ==
  IF v.kind = "integer" /\ Heads(rules) \cap Numeric = {} THEN Digits(v.n) ELSE v.n

BreaksRule(r, v, rules, present) ==
  \/ r.head = "required" /\ Blank(v)
  \/ /\ ~Blank(v)
     /\ \/ r.head \in Types /\ ~HasType(v, r.head)
        \/ r.head = "min" /\ Measure(v, rules) < r.arg
        \/ r.head = "max" /\ Measure(v, rules) > r.arg
        \/ r.head = "size" /\ Measure(v, rules) # r.arg
        \/ r.head = "exists" /\ ~present
        \/ r.head = "unique" /\ present

\* The rules a request breaks, of those the application still has.
Enforced(x) == {r \in route.rules[x] : app # <<"drops", x, r.head>>}
Errors(case) ==
  {x \in Fields : \E r \in Enforced(x) :
     BreaksRule(r, case.payload[x], Enforced(x), x \in case.rows)}

\* What a request gets, when nothing is wrong with what it asks for: what the handler
\* does, which on a web route is a page or a redirect.
Respond(case) ==
  IF route.auth /\ ~case.authenticated /\ app # <<"open">> THEN "unauthenticated"
  ELSE IF Errors(case) # {} THEN "invalid"
  ELSE IF app = <<"crashes">> THEN "error"
  ELSE route.success

\* What a success sends back.
Returned == Fields \ Hidden

(***************************************************************************)
(* Verdicts                                                                *)
(***************************************************************************)
\* _INSTRUCTION: what the test asserts of the response.
Asserts(case, response) ==
  CASE case.assert = "reachable" ->
         IF response = "error" THEN "failed"
         ELSE IF response # "ok" THEN "skipped"
         ELSE IF route.api /\ ~(Echo \subseteq Returned) THEN "failed" ELSE "passed"
    [] case.assert = "redirect" ->
         IF response \in {"unauthenticated", "invalid", "redirect"}
         THEN "passed" ELSE "failed"
    [] case.assert = "status" /\ case.field = "none" ->
         IF response = "unauthenticated" THEN "passed" ELSE "failed"
    [] OTHER ->
         IF response = "invalid" /\ case.field \in Errors(case) THEN "passed" ELSE "failed"

Verdict(test) ==
  CASE test.script = "runs" -> Asserts(test.case, Respond(test.case))
    [] test.script = "skips" -> "skipped"
    [] test.script = "broken" -> "error"

(***************************************************************************)
(* Actions                                                                 *)
(***************************************************************************)
Empty == [k \in {} |-> "none"]
Faults ==
  {<<"none">>, <<"open">>, <<"crashes">>} \cup
  {<<"drops", x, h>> : x \in Fields, h \in UNION {Heads(route.rules[y]) : y \in Fields}}

Init ==
  /\ route \in [rules : RuleSets, api : BOOLEAN, auth : BOOLEAN,
                captured : BOOLEAN, factories : BOOLEAN,
                success : {"ok", "redirect", "refused"}]
  /\ route.success = "redirect" => ~route.api
  /\ suite = Empty /\ report = Empty
  /\ app = <<"none">>

\* generate_and_persist; at most one case gets odd answers.
Generate ==
  LET cases == PlanCases
      usual == RenderScript("class", "class") IN
  /\ suite = Empty
  /\ \E odd \in cases, script \in {RenderScript(a, b) : a, b \in Answers} :
       suite' = [k \in {CaseKey(c) : c \in cases} |->
         LET case == CHOOSE c \in cases : CaseKey(c) = k IN
         [case |-> case, script |-> IF case = odd THEN script ELSE usual]]
  /\ UNCHANGED <<route, app, report>>

\* The application changes.
Change ==
  /\ suite # Empty /\ app = <<"none">>
  /\ app' \in Faults \ {app}
  /\ report' = Empty
  /\ UNCHANGED <<route, suite>>

\* The run executes every test.
Run ==
  /\ suite # Empty /\ report = Empty
  /\ report' = [k \in DOMAIN suite |-> Verdict(suite[k])]
  /\ UNCHANGED <<route, suite, app>>

Next == Generate \/ Change \/ Run
Spec == Init /\ [][Next]_vars

(***************************************************************************)
(* Properties                                                              *)
(***************************************************************************)
PlanTypeOK ==
  /\ route.rules \in RuleSets
  /\ \A k \in DOMAIN suite : suite[k].script \in {"runs", "skips", "broken"}
  /\ DOMAIN report \in {{}, DOMAIN suite}
  /\ app \in Faults

\* A boundary below 1 of an optional text is the empty text, which Laravel does not look at.
EmptyProbe(case) ==
  /\ case.field # "none"
  /\ Blank(case.payload[case.field]) /\ ~FieldOf(case.field).required

\* Rules of one type and at most one relation, whose bounds agree with each other and, where
\* its length is given, with the value.
Expressible(x) ==
  LET rules == route.rules[x]
      f == NormalizeField(rules)
      n == ValidValue(f).n IN
  /\ \A r, s \in rules : r.head = s.head => r = s
  /\ Heads(rules) \cap Types \subseteq {f.type} /\ ~({"exists", "unique"} \subseteq Heads(rules))
  /\ f.max # None => f.min <= f.max
  /\ f.size # None => f.min = None /\ f.max = None
  /\ CASE f.type \in Numeric -> f.size = None
       [] f.type \in DOMAIN Length -> f.size \in {None, n} /\ f.min <= n /\ (f.max # None => n <= f.max)
       [] f.relational # "none" /\ f.type = "unknown" -> f.size \in {None, 1} /\ f.min <= 1 /\ f.max # 0
       [] OTHER -> f.max # 0 /\ f.size # 0

\* The faults that a test must tell: an open endpoint (on a web route, unless it redirects
\* whatever it is asked), a crash, and a rule whose test breaks it alone.
Telling ==
  LET valid == route.captured /\ \A x \in Fields : Expressible(x) IN
  \/ app = <<"open">> /\ route.auth /\ (route.api \/ (valid /\ route.success # "redirect"))
  \/ app = <<"crashes">> /\ valid
  \/ \E x \in Fields : \E h \in Heads(route.rules[x]) :
       LET f == NormalizeField(route.rules[x])
           arg == Argument(route.rules[x], h) IN
       /\ app = <<"drops", x, h>> /\ route.captured /\ Expressible(x)
       /\ \/ h = "required"
          \/ h = "unique"
          \/ h = "exists" /\ f.type \in {"integer", "numeric", "unknown"}
                          /\ f.max = None /\ f.size = None
                          /\ f.min <= NonexistentId.n
          \/ h = "max" /\ f.type \in {"integer", "numeric", "string"} /\ f.relational # "exists"
          \/ h = "min" /\ f.type \in {"integer", "numeric"}
          \/ h \in {"min", "size"} /\ f.type = "string" /\ arg >= 2

\* The tests of an endpoint are fair: while the application does what its rules say, none
\* of them fails (but for an empty probe), and each fault above fails one.
SuiteIsFair ==
  report # Empty =>
    /\ app = <<"none">> =>
         \A k \in DOMAIN report : report[k] = "failed" => EmptyProbe(suite[k].case)
    /\ Telling /\ (\A k \in DOMAIN suite : suite[k].script = "runs") =>
         \E k \in DOMAIN report : report[k] = "failed"
=============================================================================
