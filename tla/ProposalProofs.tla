--------------------------- MODULE ProposalProofs ---------------------------
(***************************************************************************)
(* Proofs about the tests that are written and the difference in which a   *)
(* new version of one is reviewed: the plan of an endpoint for every set   *)
(* of rules, the journey and the cases of a page for every graph and every *)
(* set of forms, and the difference of any two trees.                      *)
(*                                                                         *)
(* PlanSuite and PageSuite say that the tests at hand are those of the     *)
(* plan and a report theirs; what then has to be shown is about the plan:  *)
(* a valid value breaks no rule, and the value of a case breaks its own    *)
(* rule and no other.  WalkInv says what a walk has read between two of    *)
(* its queries.  DiffInv says that an answer is the difference of its two  *)
(* trees, of which every path was descended through by both or lies below  *)
(* one leaf.                                                               *)
(***************************************************************************)
EXTENDS PipelineProofs

-----------------------------------------------------------------------------
(* The plan of an endpoint. *)

Tokens == [head : STRING, arg : Nat]
Breaks(rules, value, present) == \E r \in rules : Plan!BreaksRule(r, value, rules, present)

LEMMA HeadFacts ==
  ASSUME NEW rules \in SUBSET Tokens, NEW head
  PROVE  /\ head \in Plan!Heads(rules) <=> \E r \in rules : r.head = head
         /\ head \in Plan!Heads(rules) =>
              /\ Plan!Argument(rules, head) \in Nat
              /\ \E r \in rules : r.head = head /\ r.arg = Plan!Argument(rules, head)
         /\ head \notin Plan!Heads(rules) => Plan!Argument(rules, head) = -1
<1>1. head \in Plan!Heads(rules) <=> \E r \in rules : r.head = head
  BY DEF Plan!Heads
<1>2. ASSUME head \in Plan!Heads(rules)
      PROVE  /\ Plan!Argument(rules, head) \in Nat
             /\ \E r \in rules : r.head = head /\ r.arg = Plan!Argument(rules, head)
  <2> DEFINE c == CHOOSE r \in rules : r.head = head
  <2>1. c \in rules /\ c.head = head
    BY <1>1, <1>2, Zenon
  <2>2. Plan!Argument(rules, head) = c.arg
    BY <1>2 DEF Plan!Argument
  <2> HIDE DEF c
  <2> QED
    BY <2>1, <2>2 DEF Tokens
<1>3. head \notin Plan!Heads(rules) => Plan!Argument(rules, head) = -1
  BY DEF Plan!Argument, Plan!None
<1> QED
  BY <1>1, <1>2, <1>3

LEMMA TypeNames ==
  /\ Plan!Types = {"email", "uuid", "integer", "numeric", "boolean", "array", "date", "string"}
  /\ DOMAIN Plan!TypePriority = 1 .. 8
<1>1. DOMAIN Plan!TypePriority = 1 .. 8
  BY DEF Plan!TypePriority
<1>2. /\ Plan!TypePriority[1] = "email" /\ Plan!TypePriority[2] = "uuid" /\ Plan!TypePriority[3] = "integer"
      /\ Plan!TypePriority[4] = "numeric" /\ Plan!TypePriority[5] = "boolean" /\ Plan!TypePriority[6] = "array"
      /\ Plan!TypePriority[7] = "date" /\ Plan!TypePriority[8] = "string"
  BY DEF Plan!TypePriority
<1>3. \A i : i \in 1 .. 8 <=> i \in {1, 2, 3, 4, 5, 6, 7, 8}
  OBVIOUS
<1> QED
  BY <1>1, <1>2, <1>3 DEF Plan!Types

\* The type of a field is one that its rules name, if they name any.
LEMMA TypeFacts ==
  ASSUME NEW rules
  PROVE  \/ Plan!NormalizeField(rules).type = "unknown" /\ Plan!Heads(rules) \cap Plan!Types = {}
         \/ Plan!NormalizeField(rules).type \in Plan!Heads(rules) \cap Plan!Types
<1> DEFINE types == {i \in DOMAIN Plan!TypePriority : Plan!TypePriority[i] \in Plan!Heads(rules)}
           first == CHOOSE i \in types : \A j \in types : i <= j
<1>1. Plan!NormalizeField(rules).type = IF types = {} THEN "unknown" ELSE Plan!TypePriority[first]
  BY DEF Plan!NormalizeField
<1>2. CASE types = {}
  BY <1>1, <1>2 DEF Plan!Types
<1>3. CASE types # {}
  <2>1. types \subseteq Nat
    BY TypeNames
  <2>2. \E i \in types : \A j \in types : i <= j
    BY <1>3, <2>1, NatLeast
  <2>3. first \in types
    BY <2>2, Zenon
  <2> HIDE DEF first
  <2> QED
    BY <1>1, <1>3, <2>3 DEF Plan!Types
<1> QED
  BY <1>2, <1>3

LEMMA FieldFacts ==
  ASSUME NEW rules \in SUBSET Tokens, NEW f, f = Plan!NormalizeField(rules)
  PROVE  /\ f.required <=> "required" \in Plan!Heads(rules)
         /\ f.min = Plan!Argument(rules, "min") /\ f.max = Plan!Argument(rules, "max")
         /\ f.size = Plan!Argument(rules, "size")
         /\ f.relational = IF "exists" \in Plan!Heads(rules) THEN "exists"
                           ELSE IF "unique" \in Plan!Heads(rules) THEN "unique" ELSE "none"
         /\ f.min \in Nat \cup {-1} /\ f.max \in Nat \cup {-1} /\ f.size \in Nat \cup {-1}
<1>1. /\ f.required <=> "required" \in Plan!Heads(rules)
      /\ f.min = Plan!Argument(rules, "min") /\ f.max = Plan!Argument(rules, "max")
      /\ f.size = Plan!Argument(rules, "size")
      /\ f.relational = IF "exists" \in Plan!Heads(rules) THEN "exists"
                        ELSE IF "unique" \in Plan!Heads(rules) THEN "unique" ELSE "none"
  BY DEF Plan!NormalizeField
<1>2. \A head : Plan!Argument(rules, head) \in Nat \cup {-1}
  BY HeadFacts
<1> QED
  BY <1>1, <1>2

\* A bound that a field has is that of a token of its rules.
LEMMA BoundFacts ==
  ASSUME NEW rules \in SUBSET Tokens, NEW head, Plan!Argument(rules, head) # -1
  PROVE  /\ head \in Plan!Heads(rules) /\ Plan!Argument(rules, head) \in Nat
         /\ \E r \in rules : r.head = head /\ r.arg = Plan!Argument(rules, head)
BY HeadFacts

LEMMA ValueFacts ==
  ASSUME NEW kind, NEW n
  PROVE  Plan!Value(kind, n).kind = kind /\ Plan!Value(kind, n).n = n
BY DEF Plan!Value

LEMMA BlankFacts ==
  ASSUME NEW kind, NEW n
  PROVE  /\ Plan!Blank(Plan!Absent)
         /\ kind # "absent" =>
              (Plan!Blank(Plan!Value(kind, n)) <=> kind \in {"string", "array"} /\ n = 0)
<1>1. kind # "absent" => Plan!Value(kind, n) # Plan!Absent
  BY ValueFacts DEF Plan!Absent
<1>2. Plan!Blank(Plan!Absent)
  BY DEF Plan!Blank
<1> QED
  BY <1>1, <1>2, ValueFacts DEF Plan!Blank

\* The value beyond a bound: an amount, or a text of that length.
LEMMA OffFacts ==
  ASSUME NEW f, NEW bound \in Int
  PROVE  /\ f.type \in {"integer", "numeric"} => Plan!Off(f, bound) = Plan!Value("integer", bound)
         /\ f.type \notin {"integer", "numeric"} =>
              Plan!Off(f, bound) = Plan!Value("string", IF bound > 0 THEN bound ELSE 0)
BY DEF Plan!Off, Plan!Numeric, Plan!Text, Plan!AtLeast

\* What breaks a bound.
LEMMA BoundBroken ==
  ASSUME NEW rules \in SUBSET Tokens, NEW r \in rules, NEW kind, NEW n \in Int, NEW present,
         kind \in {"integer", "string"}, kind = "string" => n > 0,
         kind = "integer" => Plan!Heads(rules) \cap {"integer", "numeric"} # {},
         \/ r.head = "min" /\ n < r.arg
         \/ r.head = "max" /\ n > r.arg
         \/ r.head = "size" /\ n # r.arg
  PROVE  Breaks(rules, Plan!Value(kind, n), present)
<1>1. ~Plan!Blank(Plan!Value(kind, n))
  BY BlankFacts
<1>2. Plan!Measure(Plan!Value(kind, n), rules) = n
  BY ValueFacts DEF Plan!Measure, Plan!Numeric
<1>3. Plan!BreaksRule(r, Plan!Value(kind, n), rules, present)
  BY <1>1, <1>2 DEF Plan!BreaksRule
<1> QED
  BY <1>3 DEF Breaks

LEMMA OffBreaks ==
  ASSUME NEW rules \in SUBSET Tokens, NEW f, f = Plan!NormalizeField(rules),
         NEW r \in rules, NEW bound \in Int, NEW present,
         \/ r.head = "min" /\ bound < r.arg
         \/ r.head = "max" /\ bound > r.arg
         \/ r.head = "size" /\ bound # r.arg
  PROVE  \/ Breaks(rules, Plan!Off(f, bound), present)
         \/ Plan!Blank(Plan!Off(f, bound)) /\ bound <= 0 /\ f.type \notin {"integer", "numeric"}
<1>1. CASE f.type \in {"integer", "numeric"}
  <2>1. f.type \in Plan!Heads(rules)
    BY <1>1, TypeFacts
  <2>2. Plan!Off(f, bound) = Plan!Value("integer", bound)
    BY <1>1, OffFacts
  <2>3. Plan!Heads(rules) \cap {"integer", "numeric"} # {}
    BY <1>1, <2>1
  <2> QED
    BY <2>2, <2>3, BoundBroken
<1>2. CASE f.type \notin {"integer", "numeric"} /\ bound > 0
  <2>1. Plan!Off(f, bound) = Plan!Value("string", bound)
    BY <1>2, OffFacts
  <2> QED
    BY <1>2, <2>1, BoundBroken
<1>3. CASE f.type \notin {"integer", "numeric"} /\ bound <= 0
  <2>1. Plan!Off(f, bound) = Plan!Value("string", 0)
    BY <1>3, OffFacts
  <2> QED
    BY <1>3, <2>1, BlankFacts
<1> QED
  BY <1>1, <1>2, <1>3

LEMMA BlankBreaksRequired ==
  ASSUME NEW rules \in SUBSET Tokens, "required" \in Plan!Heads(rules), NEW v, Plan!Blank(v), NEW present
  PROVE  Breaks(rules, v, present)
<1>1. PICK r \in rules : r.head = "required"
  BY HeadFacts
<1>2. Plan!BreaksRule(r, v, rules, present)
  BY <1>1 DEF Plan!BreaksRule
<1> QED
  BY <1>2 DEF Breaks

LEMMA WrongTypeBreaks ==
  ASSUME NEW rules \in SUBSET Tokens, NEW f, f = Plan!NormalizeField(rules), NEW present,
         f.type \notin {"string", "unknown"}
  PROVE  Breaks(rules, Plan!WrongType, present)
<1>1. f.type \in Plan!Heads(rules) /\ f.type \in Plan!Types
  BY TypeFacts
<1>2. PICK r \in rules : r.head = f.type
  BY <1>1, HeadFacts
<1>3. Plan!WrongType = Plan!Value("string", 12)
  BY DEF Plan!WrongType, Plan!Text, Plan!AtLeast
<1>4. ~Plan!Blank(Plan!WrongType) /\ Plan!WrongType.kind = "string"
  BY <1>3, BlankFacts, ValueFacts
<1>5. ~Plan!HasType(Plan!WrongType, f.type)
  <2>1. f.type \in {"email", "uuid", "integer", "numeric", "boolean", "array", "date"}
    BY <1>1, TypeNames
  <2> QED
    BY <1>4, <2>1 DEF Plan!HasType, Plan!Numeric
<1>6. Plan!BreaksRule(r, Plan!WrongType, rules, present)
  BY <1>1, <1>2, <1>4, <1>5 DEF Plan!BreaksRule
<1> QED
  BY <1>6 DEF Breaks

LEMMA ExistsBreaks ==
  ASSUME NEW rules \in SUBSET Tokens, "exists" \in Plan!Heads(rules)
  PROVE  Breaks(rules, Plan!NonexistentId, FALSE)
<1>1. PICK r \in rules : r.head = "exists"
  BY HeadFacts
<1>2. ~Plan!Blank(Plan!NonexistentId)
  BY BlankFacts DEF Plan!NonexistentId
<1>3. Plan!BreaksRule(r, Plan!NonexistentId, rules, FALSE)
  BY <1>1, <1>2 DEF Plan!BreaksRule
<1> QED
  BY <1>3 DEF Breaks

\* The kinds of a valid value, which is never blank.
LEMMA ValidValueIs ==
  ASSUME NEW rules \in SUBSET Tokens, NEW f, f = Plan!NormalizeField(rules)
  PROVE  \E kind, n : /\ Plan!ValidValue(f) = Plan!Value(kind, n) /\ n \in Int /\ kind # "absent"
                      /\ kind \in {"string", "array"} => n > 0
<1>1. f.min \in Nat \cup {-1} /\ f.max \in Nat \cup {-1} /\ f.size \in Nat \cup {-1}
  BY FieldFacts
<1>2. \A a, b \in Int : Plan!AtLeast(a, b) \in Int /\ Plan!AtLeast(a, b) >= a /\ Plan!AtMost(a, b) \in Int
  BY DEF Plan!AtLeast, Plan!AtMost
<1>3. Plan!TargetLength(f) \in Int /\ Plan!TargetLength(f) >= 1
  BY <1>1 DEF Plan!TargetLength, Plan!None, Plan!AtLeast, Plan!AtMost
<1>4. CASE f.relational # "none" /\ f.type = "unknown"
  <2>1. Plan!ValidValue(f) = Plan!Value("integer", 1)
    BY <1>4 DEF Plan!ValidValue, Plan!Numeric
  <2> QED
    BY <2>1
<1>5. CASE ~(f.relational # "none" /\ f.type = "unknown")
  <2>1. CASE f.type \in {"integer", "numeric"}
    <3>1. PICK n \in Int : Plan!ValidValue(f) = Plan!Value("integer", n)
      BY <1>1, <1>2, <1>5, <2>1 DEF Plan!ValidValue, Plan!Numeric, Plan!None
    <3> QED
      BY <3>1
  <2>2. CASE f.type = "email"
    <3>1. PICK n \in Int : Plan!ValidValue(f) = Plan!Value("email", n)
      BY <1>5, <2>2 DEF Plan!ValidValue, Plan!Numeric, Plan!Length
    <3> QED
      BY <3>1
  <2>3. CASE f.type = "array"
    <3>1. PICK n \in Int : n > 0 /\ Plan!ValidValue(f) = Plan!Value("array", n)
      <4> DEFINE m == IF f.min # -1 THEN f.min ELSE IF f.size # -1 THEN f.size ELSE 1
      <4>1. m \in Int
        BY <1>1
      <4>2. Plan!ValidValue(f) = Plan!Value("array", Plan!AtLeast(1, m))
        BY <1>5, <2>3 DEF Plan!ValidValue, Plan!Numeric, Plan!None
      <4>3. Plan!AtLeast(1, m) \in Int /\ Plan!AtLeast(1, m) > 0
        <5> HIDE DEF m
        <5> QED
          BY <1>2, <4>1
      <4> QED
        BY <4>2, <4>3
    <3> QED
      BY <3>1
  <2>4. CASE f.type \in {"boolean", "date", "uuid"}
    <3>1. Plan!Length["boolean"] \in Int /\ Plan!Length["date"] \in Int /\ Plan!Length["uuid"] \in Int
      BY DEF Plan!Length
    <3>2. Plan!ValidValue(f) = Plan!Value(f.type, Plan!Length[f.type])
      BY <1>5, <2>4 DEF Plan!ValidValue, Plan!Numeric
    <3> QED
      BY <2>4, <3>1, <3>2
  <2>5. CASE f.type \notin {"integer", "numeric", "email", "array", "boolean", "date", "uuid"}
    <3>1. Plan!ValidValue(f) = Plan!Text(Plan!TargetLength(f))
      BY <1>5, <2>5 DEF Plan!ValidValue, Plan!Numeric
    <3>2. Plan!ValidValue(f) = Plan!Value("string", Plan!TargetLength(f))
      BY <1>3, <3>1 DEF Plan!Text, Plan!AtLeast
    <3> QED
      BY <1>3, <3>2
  <2> QED
    BY <2>1, <2>2, <2>3, <2>4, <2>5
<1> QED
  BY <1>4, <1>5

LEMMA ValidIsThere ==
  ASSUME NEW rules \in SUBSET Tokens, NEW f, f = Plan!NormalizeField(rules)
  PROVE  ~Plan!Blank(Plan!ValidValue(f)) /\ Plan!ValidValue(f) # Plan!Absent
<1>1. PICK kind, n : /\ Plan!ValidValue(f) = Plan!Value(kind, n) /\ n \in Int /\ kind # "absent"
                     /\ kind \in {"string", "array"} => n > 0
  BY ValidValueIs
<1>2. ~Plan!Blank(Plan!ValidValue(f))
  BY <1>1, BlankFacts
<1> QED
  BY <1>2, BlankFacts

LEMMA UniqueBreaks ==
  ASSUME NEW rules \in SUBSET Tokens, NEW f, f = Plan!NormalizeField(rules), "unique" \in Plan!Heads(rules)
  PROVE  Breaks(rules, Plan!ValidValue(f), TRUE)
<1>1. PICK r \in rules : r.head = "unique"
  BY HeadFacts
<1>2. ~Plan!Blank(Plan!ValidValue(f))
  BY ValidIsThere
<1>3. Plan!BreaksRule(r, Plan!ValidValue(f), rules, TRUE)
  BY <1>1, <1>2 DEF Plan!BreaksRule
<1> QED
  BY <1>3 DEF Breaks

RouteType ==
  route \in [rules : RuleSets, api : BOOLEAN, auth : BOOLEAN, captured : BOOLEAN, factories : BOOLEAN,
             success : {"ok", "redirect", "refused"}]

\* The rules that ingestion kept of a field.
KeptRules(x) == IF route.captured THEN route.rules[x] ELSE {}

LEMMA RulesFacts ==
  ASSUME RouteType, NEW x \in PlanFields
  PROVE  /\ route.rules[x] \in SUBSET Tokens /\ KeptRules(x) \in SUBSET Tokens
         /\ Plan!FieldOf(x) = Plan!NormalizeField(KeptRules(x)) /\ x # "none"
<1>1. route.rules \in [PlanFields -> SUBSET Tokens]
  BY RuleSetsAssumption DEF RouteType, Tokens
<1>2. x # "none"
  BY RuleSetsAssumption
<1>3. route.rules[x] \in SUBSET Tokens
  BY <1>1
<1>4. KeptRules(x) \in SUBSET Tokens
  BY <1>3 DEF KeptRules
<1>5. Plan!FieldOf(x) = Plan!NormalizeField(KeptRules(x))
  BY DEF Plan!FieldOf, KeptRules
<1> QED
  BY <1>2, <1>3, <1>4, <1>5

\* One case for each rule of a field, and no other.
IsNegative(x, rule, value, flip) ==
  LET f == Plan!FieldOf(x) IN
  \/ f.required /\ rule = "required_missing" /\ value = Plan!Absent /\ flip = "none"
  \/ f.type \notin {"string", "unknown"} /\ rule = "type_violation" /\ value = Plan!WrongType /\ flip = "none"
  \/ f.min # -1 /\ rule = "min_boundary" /\ value = Plan!Off(f, f.min - 1) /\ flip = "none"
  \/ f.max # -1 /\ rule = "max_boundary" /\ value = Plan!Off(f, f.max + 1) /\ flip = "none"
  \/ f.size # -1 /\ rule = "size_below" /\ value = Plan!Off(f, f.size - 1) /\ flip = "none"
  \/ f.size # -1 /\ rule = "size_above" /\ value = Plan!Off(f, f.size + 1) /\ flip = "none"
  \/ f.relational = "exists" /\ rule = "exists_missing" /\ value = Plan!NonexistentId /\ flip = x
  \/ f.relational = "unique" /\ rule = "unique_duplicate" /\ value = Plan!Base[x] /\ flip = x

LEMMA NegativesAre ==
  ASSUME NEW x, NEW case
  PROVE  case \in Plan!NegativesOf(x) <=>
           \E rule, value, flip : IsNegative(x, rule, value, flip) /\ case = Plan!Negative(x, rule, value, flip)
<1> DEFINE f == Plan!FieldOf(x)
<1>1. case \in Plan!NegativesOf(x) <=>
        \/ f.required /\ case = Plan!Negative(x, "required_missing", Plan!Absent, "none")
        \/ f.type \notin {"string", "unknown"} /\ case = Plan!Negative(x, "type_violation", Plan!WrongType, "none")
        \/ f.min # -1 /\ case = Plan!Negative(x, "min_boundary", Plan!Off(f, f.min - 1), "none")
        \/ f.max # -1 /\ case = Plan!Negative(x, "max_boundary", Plan!Off(f, f.max + 1), "none")
        \/ f.size # -1 /\ case = Plan!Negative(x, "size_below", Plan!Off(f, f.size - 1), "none")
        \/ f.size # -1 /\ case = Plan!Negative(x, "size_above", Plan!Off(f, f.size + 1), "none")
        \/ f.relational = "exists" /\ case = Plan!Negative(x, "exists_missing", Plan!NonexistentId, x)
        \/ f.relational = "unique" /\ case = Plan!Negative(x, "unique_duplicate", Plan!Base[x], x)
  <2> DEFINE If(condition, c) == IF condition THEN {c} ELSE {}
  <2>1. Plan!NegativesOf(x) =
      If(f.required, Plan!Negative(x, "required_missing", Plan!Absent, "none"))
      \cup If(f.type \notin {"string", "unknown"}, Plan!Negative(x, "type_violation", Plan!WrongType, "none"))
      \cup If(f.min # -1, Plan!Negative(x, "min_boundary", Plan!Off(f, f.min - 1), "none"))
      \cup If(f.max # -1, Plan!Negative(x, "max_boundary", Plan!Off(f, f.max + 1), "none"))
      \cup If(f.size # -1, Plan!Negative(x, "size_below", Plan!Off(f, f.size - 1), "none"))
      \cup If(f.size # -1, Plan!Negative(x, "size_above", Plan!Off(f, f.size + 1), "none"))
      \cup If(f.relational = "exists", Plan!Negative(x, "exists_missing", Plan!NonexistentId, x))
      \cup If(f.relational = "unique", Plan!Negative(x, "unique_duplicate", Plan!Base[x], x))
    BY Zenon DEF Plan!NegativesOf, Plan!None
  <2>2. \A condition, c : case \in If(condition, c) <=> condition /\ case = c
    BY Zenon
  <2> HIDE DEF If, f
  <2>3. case \in Plan!NegativesOf(x) <=>
          \/ case \in If(f.required, Plan!Negative(x, "required_missing", Plan!Absent, "none"))
          \/ case \in If(f.type \notin {"string", "unknown"}, Plan!Negative(x, "type_violation", Plan!WrongType, "none"))
          \/ case \in If(f.min # -1, Plan!Negative(x, "min_boundary", Plan!Off(f, f.min - 1), "none"))
          \/ case \in If(f.max # -1, Plan!Negative(x, "max_boundary", Plan!Off(f, f.max + 1), "none"))
          \/ case \in If(f.size # -1, Plan!Negative(x, "size_below", Plan!Off(f, f.size - 1), "none"))
          \/ case \in If(f.size # -1, Plan!Negative(x, "size_above", Plan!Off(f, f.size + 1), "none"))
          \/ case \in If(f.relational = "exists", Plan!Negative(x, "exists_missing", Plan!NonexistentId, x))
          \/ case \in If(f.relational = "unique", Plan!Negative(x, "unique_duplicate", Plan!Base[x], x))
    BY <2>1
  <2>4. case \in If(f.required, Plan!Negative(x, "required_missing", Plan!Absent, "none")) <=>
          f.required /\ case = Plan!Negative(x, "required_missing", Plan!Absent, "none")
    BY <2>2, Zenon
  <2>5. case \in If(f.type \notin {"string", "unknown"}, Plan!Negative(x, "type_violation", Plan!WrongType, "none")) <=>
          f.type \notin {"string", "unknown"} /\ case = Plan!Negative(x, "type_violation", Plan!WrongType, "none")
    BY <2>2, Zenon
  <2>6. case \in If(f.min # -1, Plan!Negative(x, "min_boundary", Plan!Off(f, f.min - 1), "none")) <=>
          f.min # -1 /\ case = Plan!Negative(x, "min_boundary", Plan!Off(f, f.min - 1), "none")
    BY <2>2, Zenon
  <2>7. case \in If(f.max # -1, Plan!Negative(x, "max_boundary", Plan!Off(f, f.max + 1), "none")) <=>
          f.max # -1 /\ case = Plan!Negative(x, "max_boundary", Plan!Off(f, f.max + 1), "none")
    BY <2>2, Zenon
  <2>8. case \in If(f.size # -1, Plan!Negative(x, "size_below", Plan!Off(f, f.size - 1), "none")) <=>
          f.size # -1 /\ case = Plan!Negative(x, "size_below", Plan!Off(f, f.size - 1), "none")
    BY <2>2, Zenon
  <2>9. case \in If(f.size # -1, Plan!Negative(x, "size_above", Plan!Off(f, f.size + 1), "none")) <=>
          f.size # -1 /\ case = Plan!Negative(x, "size_above", Plan!Off(f, f.size + 1), "none")
    BY <2>2, Zenon
  <2>10. case \in If(f.relational = "exists", Plan!Negative(x, "exists_missing", Plan!NonexistentId, x)) <=>
          f.relational = "exists" /\ case = Plan!Negative(x, "exists_missing", Plan!NonexistentId, x)
    BY <2>2, Zenon
  <2>11. case \in If(f.relational = "unique", Plan!Negative(x, "unique_duplicate", Plan!Base[x], x)) <=>
          f.relational = "unique" /\ case = Plan!Negative(x, "unique_duplicate", Plan!Base[x], x)
    BY <2>2, Zenon
  <2> QED
    BY <2>3, <2>4, <2>5, <2>6, <2>7, <2>8, <2>9, <2>10, <2>11, Zenon
<1>2. \A rule, value, flip :
        IsNegative(x, rule, value, flip) /\ case = Plan!Negative(x, rule, value, flip) => case \in Plan!NegativesOf(x)
  <2> HIDE DEF f
  <2> QED
    BY <1>1 DEF IsNegative, f
<1>3. f.required => IsNegative(x, "required_missing", Plan!Absent, "none")
  BY DEF IsNegative
<1>4. f.type \notin {"string", "unknown"} => IsNegative(x, "type_violation", Plan!WrongType, "none")
  BY DEF IsNegative
<1>5. f.min # -1 => IsNegative(x, "min_boundary", Plan!Off(f, f.min - 1), "none")
  BY DEF IsNegative
<1>6. f.max # -1 => IsNegative(x, "max_boundary", Plan!Off(f, f.max + 1), "none")
  BY DEF IsNegative
<1>7. f.size # -1 => IsNegative(x, "size_below", Plan!Off(f, f.size - 1), "none")
  BY DEF IsNegative
<1>8. f.size # -1 => IsNegative(x, "size_above", Plan!Off(f, f.size + 1), "none")
  BY DEF IsNegative
<1>9. f.relational = "exists" => IsNegative(x, "exists_missing", Plan!NonexistentId, x)
  BY DEF IsNegative
<1>10. f.relational = "unique" => IsNegative(x, "unique_duplicate", Plan!Base[x], x)
  BY DEF IsNegative
<1> HIDE DEF f
<1> QED
  BY <1>1, <1>2, <1>3, <1>4, <1>5, <1>6, <1>7, <1>8, <1>9, <1>10, Zenon

LEMMA CaseFacts ==
  ASSUME NEW x \in PlanFields, NEW rule, NEW value, NEW flip
  PROVE  LET case == Plan!Negative(x, rule, value, flip) IN
         /\ case.name = <<x, rule>> /\ case.field = x /\ case.payload[x] = value
         /\ case.authenticated = route.auth
         /\ case.assert = IF route.api THEN "status" ELSE "redirect_with_errors"
         /\ value # Plan!Absent =>
              (x \in case.rows <=> (Plan!FieldOf(x).relational = "exists" /\ x # flip)
                                   \/ (Plan!FieldOf(x).relational = "unique" /\ x = flip))
<1> DEFINE payload == [Plan!Base EXCEPT ![x] = value]
           case == Plan!Negative(x, rule, value, flip)
<1>1. payload[x] = value
  BY DEF Plan!Base
<1> HIDE DEF payload
<1>2. /\ case.name = <<x, rule>> /\ case.field = x /\ case.payload = payload
      /\ case.authenticated = route.auth /\ case.rows = Plan!Dependencies(payload, flip)
      /\ case.assert = IF route.api THEN "status" ELSE "redirect_with_errors"
  BY DEF Plan!Negative, payload
<1>3. value # Plan!Absent =>
        (x \in Plan!Dependencies(payload, flip) <=>
           \/ Plan!FieldOf(x).relational = "exists" /\ x # flip
           \/ Plan!FieldOf(x).relational = "unique" /\ x = flip)
  BY <1>1 DEF Plan!Dependencies
<1> HIDE DEF case
<1> QED
  BY <1>1, <1>2, <1>3 DEF case

LEMMA BaseFacts ==
  \A x \in PlanFields : Plan!Base[x] = Plan!ValidValue(Plan!FieldOf(x))
BY DEF Plan!Base

\* What the application refuses of a case, while its rules are those of the route.
LEMMA ErrorsAre ==
  ASSUME NEW x \in PlanFields, NEW case, Plan!Enforced(x) = route.rules[x]
  PROVE  x \in Plan!Errors(case) <=> Breaks(route.rules[x], case.payload[x], x \in case.rows)
BY DEF Plan!Errors, Breaks

\* While the application does what its rules say, the field of a case is refused, but for
\* the empty text of a field that may be left out.
LEMMA NegativeIsRefused ==
  ASSUME RouteType, NEW x \in PlanFields, NEW case \in Plan!NegativesOf(x), app = <<"none">>
  PROVE  x \in Plan!Errors(case) \/ Plan!EmptyProbe(case)
<1>1. PICK rule, value, flip : IsNegative(x, rule, value, flip) /\ case = Plan!Negative(x, rule, value, flip)
  BY NegativesAre
<1> DEFINE f == Plan!FieldOf(x)
           rules == KeptRules(x)
           present == (x \in case.rows)
<1>2. rules \in SUBSET Tokens /\ f = Plan!NormalizeField(rules) /\ x # "none"
  BY RulesFacts
<1>3. /\ case.field = x /\ case.payload[x] = value
      /\ value # Plan!Absent => (present <=> (f.relational = "exists" /\ x # flip)
                                                \/ (f.relational = "unique" /\ x = flip))
  BY <1>1, CaseFacts
<1>4. route.captured
  <2> SUFFICES ASSUME ~route.captured PROVE FALSE
    OBVIOUS
  <2>1. rules = {}
    BY DEF KeptRules
  <2>2. \A head : head \notin Plan!Heads(rules)
    BY <2>1 DEF Plan!Heads
  <2>3. f.min = -1 /\ f.max = -1 /\ f.size = -1 /\ f.relational = "none" /\ ~f.required /\ f.type = "unknown"
    BY <1>2, <2>2, FieldFacts, HeadFacts, TypeFacts
  <2> QED
    BY <1>1, <2>3 DEF IsNegative
<1>5. rules = route.rules[x]
  BY <1>4 DEF KeptRules
<1>6. Plan!Enforced(x) = route.rules[x]
  <2>1. \A h : app # <<"drops", x, h>>
    OBVIOUS
  <2> QED
    BY <2>1, Zenon DEF Plan!Enforced
<1>7. Breaks(rules, value, present) => x \in Plan!Errors(case)
  BY <1>3, <1>5, <1>6, ErrorsAre
<1>8. Plan!Blank(value) /\ ~f.required => Plan!EmptyProbe(case)
  BY <1>2, <1>3 DEF Plan!EmptyProbe
<1>9. Plan!Blank(value) /\ f.required => Breaks(rules, value, present)
  BY <1>2, BlankBreaksRequired, FieldFacts
<1> HIDE DEF f, rules, present
<1>10. SUFFICES Breaks(rules, value, present) \/ Plan!Blank(value)
  BY <1>7, <1>8, <1>9
<1>11. /\ f.min = Plan!Argument(rules, "min") /\ f.max = Plan!Argument(rules, "max")
       /\ f.size = Plan!Argument(rules, "size") /\ (f.required <=> "required" \in Plan!Heads(rules))
       /\ f.relational = "exists" => "exists" \in Plan!Heads(rules)
       /\ f.relational = "unique" => "unique" \in Plan!Heads(rules)
  BY <1>2, FieldFacts
<1>12. CASE f.required /\ value = Plan!Absent
  BY <1>12, BlankFacts
<1>13. CASE f.type \notin {"string", "unknown"} /\ value = Plan!WrongType
  BY <1>2, <1>13, WrongTypeBreaks
<1>14. CASE f.min # -1 /\ value = Plan!Off(f, f.min - 1)
  <2>1. PICK r \in rules : r.head = "min" /\ r.arg = f.min /\ f.min \in Nat
    BY <1>2, <1>11, <1>14, BoundFacts
  <2> QED
    BY <1>2, <1>14, <2>1, OffBreaks
<1>15. CASE f.max # -1 /\ value = Plan!Off(f, f.max + 1)
  <2>1. PICK r \in rules : r.head = "max" /\ r.arg = f.max /\ f.max \in Nat
    BY <1>2, <1>11, <1>15, BoundFacts
  <2> QED
    BY <1>2, <1>15, <2>1, OffBreaks
<1>16. CASE f.size # -1 /\ (value = Plan!Off(f, f.size - 1) \/ value = Plan!Off(f, f.size + 1))
  <2>1. PICK r \in rules : r.head = "size" /\ r.arg = f.size /\ f.size \in Nat
    BY <1>2, <1>11, <1>16, BoundFacts
  <2> QED
    BY <1>2, <1>16, <2>1, OffBreaks
<1>17. CASE f.relational = "exists" /\ value = Plan!NonexistentId /\ flip = x
  <2>1. value # Plan!Absent
    BY <1>17, ValueFacts DEF Plan!NonexistentId, Plan!Absent
  <2>2. ~present
    BY <1>3, <1>17, <2>1 DEF f, present
  <2>3. present = FALSE
    BY <2>2 DEF present
  <2> QED
    BY <1>2, <1>11, <1>17, <2>3, ExistsBreaks
<1>18. CASE f.relational = "unique" /\ value = Plan!Base[x] /\ flip = x
  <2>1. value = Plan!ValidValue(f)
    BY <1>18, BaseFacts DEF f
  <2>2. value # Plan!Absent
    BY <1>2, <2>1, ValidIsThere
  <2>3. present
    BY <1>3, <1>18, <2>2 DEF f, present
  <2>4. present = TRUE
    BY <2>3 DEF present
  <2>5. Breaks(rules, Plan!ValidValue(f), TRUE)
    BY <1>2, <1>11, <1>18, UniqueBreaks
  <2> QED
    BY <2>1, <2>4, <2>5, Zenon
<1> QED
  BY <1>1, <1>12, <1>13, <1>14, <1>15, <1>16, <1>17, <1>18 DEF IsNegative, f

\* What Expressible says of a field.
Agreeing(rules, f) ==
  /\ \A r, s \in rules : r.head = s.head => r = s
  /\ Plan!Heads(rules) \cap Plan!Types \subseteq {f.type}
  /\ ~({"exists", "unique"} \subseteq Plan!Heads(rules))
  /\ f.max # -1 => f.min <= f.max
  /\ f.size # -1 => f.min = -1 /\ f.max = -1
  /\ f.type \in {"integer", "numeric"} => f.size = -1
  /\ f.type \in {"email", "uuid", "boolean", "date"} =>
       /\ f.size \in {-1, Plan!ValidValue(f).n} /\ f.min <= Plan!ValidValue(f).n
       /\ f.max # -1 => Plan!ValidValue(f).n <= f.max
  /\ f.type = "unknown" /\ f.relational # "none" => f.size \in {-1, 1} /\ f.min <= 1 /\ f.max # 0
  /\ f.type \in {"array", "string"} \/ (f.type = "unknown" /\ f.relational = "none") => f.max # 0 /\ f.size # 0

LEMMA ExpressibleIs ==
  ASSUME NEW x \in PlanFields, NEW rules, rules = route.rules[x], NEW f, f = Plan!NormalizeField(rules),
         Plan!Expressible(x)
  PROVE  Agreeing(rules, f)
<1> DEFINE n == Plan!ValidValue(f).n
<1>1. /\ \A r, s \in rules : r.head = s.head => r = s
      /\ Plan!Heads(rules) \cap Plan!Types \subseteq {f.type}
      /\ ~({"exists", "unique"} \subseteq Plan!Heads(rules))
      /\ f.max # -1 => f.min <= f.max
      /\ f.size # -1 => f.min = -1 /\ f.max = -1
  BY Zenon DEF Plan!Expressible, Plan!None
<1>2. (CASE f.type \in {"integer", "numeric"} -> f.size = -1
        [] f.type \in DOMAIN Plan!Length ->
             f.size \in {-1, n} /\ f.min <= n /\ (f.max # -1 => n <= f.max)
        [] f.relational # "none" /\ f.type = "unknown" -> f.size \in {-1, 1} /\ f.min <= 1 /\ f.max # 0
        [] OTHER -> f.max # 0 /\ f.size # 0)
  BY Zenon DEF Plan!Expressible, Plan!None, Plan!Numeric
<1>3. DOMAIN Plan!Length = {"email", "shortEmail", "date", "uuid", "boolean"}
  BY DEF Plan!Length
<1>4. f.type \in {"integer", "numeric"} => f.size = -1
  BY <1>2, <1>3
<1>5. f.type \in {"email", "uuid", "boolean", "date"} =>
        f.size \in {-1, n} /\ f.min <= n /\ (f.max # -1 => n <= f.max)
  BY <1>2, <1>3
<1>6. f.type = "unknown" /\ f.relational # "none" => f.size \in {-1, 1} /\ f.min <= 1 /\ f.max # 0
  BY <1>2, <1>3
<1>7. f.type \in {"array", "string"} \/ (f.type = "unknown" /\ f.relational = "none") =>
        f.max # 0 /\ f.size # 0
  BY <1>2, <1>3
<1> QED
  BY <1>1, <1>4, <1>5, <1>6, <1>7 DEF Agreeing

\* A part of the rules that does not lack one of type of a number.
PartOf(part, rules) ==
  /\ part \subseteq rules
  /\ Plan!Heads(part) \cap {"integer", "numeric"} = Plan!Heads(rules) \cap {"integer", "numeric"}

LEMMA TypeIsOneOf ==
  ASSUME NEW rules, NEW f, f = Plan!NormalizeField(rules)
  PROVE  f.type \in {"unknown", "email", "uuid", "integer", "numeric", "boolean", "array", "date", "string"}
BY TypeFacts, TypeNames

\* A valid value has the type of its field and lies within its bounds.
LEMMA ValidMeasure ==
  ASSUME NEW rules \in SUBSET Tokens, NEW f, f = Plan!NormalizeField(rules), Agreeing(rules, f),
         NEW part, PartOf(part, rules), NEW m, m = Plan!Measure(Plan!ValidValue(f), part)
  PROVE  /\ m \in Int /\ f.min <= m
         /\ f.max # -1 => m <= f.max
         /\ f.size # -1 => m = f.size
         /\ f.type # "unknown" => Plan!HasType(Plan!ValidValue(f), f.type)
<1>1. f.min \in Nat \cup {-1} /\ f.max \in Nat \cup {-1} /\ f.size \in Nat \cup {-1}
  BY FieldFacts
<1>2. f.type \in {"unknown", "email", "uuid", "integer", "numeric", "boolean", "array", "date", "string"}
  BY TypeIsOneOf
<1>3. /\ f.max # -1 => f.min <= f.max
      /\ f.size # -1 => f.min = -1 /\ f.max = -1
  BY DEF Agreeing
<1>4. f.relational \in {"none", "exists", "unique"}
  BY FieldFacts
<1>5. CASE f.type \in {"integer", "numeric"}
  <2> DEFINE n == IF f.min # -1 THEN f.min ELSE IF f.max # -1 THEN Plan!AtMost(f.max, 1) ELSE 7
  <2>1. Plan!ValidValue(f) = Plan!Value("integer", n)
    BY <1>5 DEF Plan!ValidValue, Plan!Numeric, Plan!None
  <2>2. n \in Int /\ f.min <= n /\ (f.max # -1 => n <= f.max)
    BY <1>1, <1>3 DEF Plan!AtMost
  <2> HIDE DEF n
  <2>3. f.type \in Plan!Heads(part) \cap {"integer", "numeric"}
    BY <1>5, TypeFacts DEF PartOf
  <2>4. m = n
    BY <2>1, <2>3, ValueFacts DEF Plan!Measure, Plan!Numeric
  <2>5. f.size = -1
    BY <1>5 DEF Agreeing
  <2>6. Plan!HasType(Plan!ValidValue(f), f.type)
    BY <1>5, <2>1, ValueFacts DEF Plan!HasType, Plan!Numeric
  <2> QED
    BY <2>2, <2>4, <2>5, <2>6
<1>6. CASE f.type = "unknown" /\ f.relational # "none"
  <2>1. Plan!ValidValue(f) = Plan!Value("integer", 1)
    BY <1>6 DEF Plan!ValidValue, Plan!Numeric
  <2>2. Plan!Heads(part) \cap {"integer", "numeric"} = {}
    BY <1>6, TypeFacts, TypeNames DEF PartOf
  <2>3. m = 1
    BY <2>1, <2>2, ValueFacts DEF Plan!Measure, Plan!Numeric, Plan!Digits
  <2>4. f.size \in {-1, 1} /\ f.min <= 1 /\ f.max # 0
    BY <1>6 DEF Agreeing
  <2> QED
    BY <1>1, <1>6, <2>3, <2>4
<1>7. CASE f.type \in {"email", "uuid", "boolean", "date"}
  <2> DEFINE n == Plan!ValidValue(f).n
  <2>1. f.size \in {-1, n} /\ f.min <= n /\ (f.max # -1 => n <= f.max)
    BY <1>7 DEF Agreeing
  <2>2. n \in Int /\ Plan!ValidValue(f).kind = f.type
    <3>1. CASE f.type = "email"
      <4>1. Plan!Length["email"] \in Int /\ Plan!Length["shortEmail"] \in Int
        BY DEF Plan!Length
      <4>2. PICK k \in Int : Plan!ValidValue(f) = Plan!Value("email", k)
        BY <3>1, <4>1 DEF Plan!ValidValue, Plan!Numeric
      <4> QED
        BY <3>1, <4>2, ValueFacts
    <3>2. CASE f.type # "email"
      <4>1. Plan!Length["boolean"] \in Int /\ Plan!Length["date"] \in Int /\ Plan!Length["uuid"] \in Int
        BY DEF Plan!Length
      <4>2. Plan!ValidValue(f) = Plan!Value(f.type, Plan!Length[f.type])
        BY <1>7, <3>2 DEF Plan!ValidValue, Plan!Numeric
      <4> QED
        BY <1>7, <3>2, <4>1, <4>2, ValueFacts
    <3> QED
      BY <3>1, <3>2
  <2> HIDE DEF n
  <2>3. m = n
    BY <1>7, <2>2 DEF Plan!Measure, n
  <2>4. Plan!HasType(Plan!ValidValue(f), f.type)
    BY <1>7, <2>2 DEF Plan!HasType, Plan!Numeric
  <2> QED
    BY <2>1, <2>2, <2>3, <2>4
<1>8. CASE f.type = "array"
  <2> DEFINE a == IF f.min # -1 THEN f.min ELSE IF f.size # -1 THEN f.size ELSE 1
             n == Plan!AtLeast(1, a)
  <2>1. Plan!ValidValue(f) = Plan!Value("array", n)
    BY <1>8 DEF Plan!ValidValue, Plan!Numeric, Plan!None
  <2>2. f.max # 0 /\ f.size # 0
    BY <1>8 DEF Agreeing
  <2>3. n \in Int /\ f.min <= n /\ (f.max # -1 => n <= f.max) /\ (f.size # -1 => n = f.size)
    BY <1>1, <1>3, <2>2 DEF Plan!AtLeast
  <2> HIDE DEF n
  <2>4. m = n
    BY <2>1, ValueFacts DEF Plan!Measure
  <2>5. Plan!HasType(Plan!ValidValue(f), f.type)
    BY <1>8, <2>1, ValueFacts DEF Plan!HasType, Plan!Numeric
  <2> QED
    BY <2>3, <2>4, <2>5
<1>9. CASE f.type = "string" \/ (f.type = "unknown" /\ f.relational = "none")
  <2> DEFINE n == Plan!TargetLength(f)
  <2>1. f.max # 0 /\ f.size # 0
    BY <1>9 DEF Agreeing
  <2>2. n \in Int /\ n > 0 /\ f.min <= n /\ (f.max # -1 => n <= f.max) /\ (f.size # -1 => n = f.size)
    BY <1>1, <1>3, <2>1 DEF Plan!TargetLength, Plan!None, Plan!AtLeast, Plan!AtMost
  <2> HIDE DEF n
  <2>3. Plan!ValidValue(f) = Plan!Text(n)
    BY <1>9 DEF Plan!ValidValue, Plan!Numeric, n
  <2>4. Plan!ValidValue(f) = Plan!Value("string", n)
    BY <2>2, <2>3 DEF Plan!Text, Plan!AtLeast
  <2>5. m = n
    BY <2>4, ValueFacts DEF Plan!Measure
  <2>6. f.type # "unknown" => Plan!HasType(Plan!ValidValue(f), f.type)
    BY <1>9, <2>4, ValueFacts DEF Plan!HasType, Plan!Numeric
  <2> QED
    BY <2>2, <2>5, <2>6
<1> QED
  BY <1>2, <1>4, <1>5, <1>6, <1>7, <1>8, <1>9

\* What breaks none of a part of the rules: a value of the type, within the bounds.
LEMMA HoldsRule ==
  ASSUME NEW rules \in SUBSET Tokens, NEW f, f = Plan!NormalizeField(rules), Agreeing(rules, f),
         NEW part, PartOf(part, rules), NEW r \in part, NEW v, ~Plan!Blank(v), NEW present,
         r.head = "exists" => present, r.head = "unique" => ~present,
         r.head \in Plan!Types => Plan!HasType(v, f.type),
         r.head = "min" => f.min <= Plan!Measure(v, part),
         r.head = "max" => f.max >= Plan!Measure(v, part),
         r.head = "size" => f.size = Plan!Measure(v, part),
         Plan!Measure(v, part) \in Int
  PROVE  ~Plan!BreaksRule(r, v, part, present)
<1>1. r \in rules /\ r \in Tokens
  BY DEF PartOf
<1>2. r.head \in Plan!Heads(rules)
  BY <1>1 DEF Plan!Heads
<1>3. r.arg = Plan!Argument(rules, r.head) /\ r.arg \in Nat
  <2>1. \E s \in rules : s.head = r.head /\ s.arg = Plan!Argument(rules, r.head)
    BY <1>2, HeadFacts
  <2>2. r.arg \in Nat
    BY <1>1 DEF Tokens
  <2> QED
    BY <1>1, <2>1, <2>2 DEF Agreeing
<1>4. /\ r.head = "min" => r.arg = f.min
      /\ r.head = "max" => r.arg = f.max
      /\ r.head = "size" => r.arg = f.size
  BY <1>3, FieldFacts
<1>5. r.head \in Plan!Types => r.head = f.type
  BY <1>2 DEF Agreeing
<1>6. ~(r.head = "required" /\ Plan!Blank(v))
  OBVIOUS
<1>7. /\ ~(r.head \in Plan!Types /\ ~Plan!HasType(v, r.head))
      /\ ~(r.head = "exists" /\ ~present) /\ ~(r.head = "unique" /\ present)
  BY <1>5
<1>8. /\ ~(r.head = "min" /\ Plan!Measure(v, part) < r.arg)
      /\ ~(r.head = "max" /\ Plan!Measure(v, part) > r.arg)
      /\ ~(r.head = "size" /\ Plan!Measure(v, part) # r.arg)
  BY <1>3, <1>4
<1> QED
  BY <1>6, <1>7, <1>8 DEF Plan!BreaksRule

LEMMA ValidHolds ==
  ASSUME NEW rules \in SUBSET Tokens, NEW f, f = Plan!NormalizeField(rules), Agreeing(rules, f),
         NEW part, PartOf(part, rules), NEW r \in part, NEW present,
         r.head = "exists" => present, r.head = "unique" => ~present
  PROVE  ~Plan!BreaksRule(r, Plan!ValidValue(f), part, present)
<1> DEFINE v == Plan!ValidValue(f)
           m == Plan!Measure(v, part)
<1>1. ~Plan!Blank(v)
  BY ValidIsThere
<1>2. /\ m \in Int /\ f.min <= m /\ (f.max # -1 => m <= f.max) /\ (f.size # -1 => m = f.size)
      /\ f.type # "unknown" => Plan!HasType(v, f.type)
  BY ValidMeasure
<1> HIDE DEF v, m
<1>3. /\ r \in rules /\ r.head \in Plan!Heads(rules)
  BY DEF PartOf, Plan!Heads
<1>4. /\ r.head = "max" => f.max # -1
      /\ r.head = "size" => f.size # -1
  <2>1. Plan!Argument(rules, r.head) \in Nat
    BY <1>3, HeadFacts
  <2> QED
    BY <2>1, FieldFacts
<1>5. r.head \in Plan!Types => f.type # "unknown"
  BY <1>3, TypeFacts, TypeNames
<1>6. f.max \in Int
  BY FieldFacts
<1>7. ~Plan!BreaksRule(r, v, part, present)
  BY <1>1, <1>2, <1>4, <1>5, <1>6, HoldsRule DEF m
<1> QED
  BY <1>7 DEF v

-----------------------------------------------------------------------------
(* The suite of an endpoint and its verdicts. *)

\* The suite holds the plan under its keys, and a report is of the suite on the application
\* as it is.
PlanSuite ==
  /\ RouteType /\ app \in Plan!Faults
  /\ suite = Plan!Empty => report = Plan!Empty
  /\ suite # Plan!Empty =>
       /\ DOMAIN suite = {Plan!CaseKey(c) : c \in Plan!PlanCases}
       /\ \A k \in DOMAIN suite : /\ suite[k].case \in Plan!PlanCases /\ Plan!CaseKey(suite[k].case) = k
                                  /\ suite[k].script \in {"runs", "skips", "broken"}
  /\ report # Plan!Empty => report = [k \in DOMAIN suite |-> Plan!Verdict(suite[k])]

LEMMA PlanCasesAre ==
  ASSUME NEW case
  PROVE  case \in Plan!PlanCases <=>
           \/ case = Plan!Happy
           \/ route.auth /\ case = Plan!Unauthenticated
           \/ \E x \in PlanFields : case \in Plan!NegativesOf(x)
BY DEF Plan!PlanCases

LEMMA HappyFacts ==
  /\ Plan!Happy.name = <<"happy">> /\ Plan!Happy.field = "none" /\ Plan!Happy.payload = Plan!Base
  /\ Plan!Happy.authenticated = route.auth /\ Plan!Happy.assert = "reachable"
  /\ Plan!Happy.rows = Plan!Dependencies(Plan!Base, "none")
BY DEF Plan!Happy

LEMMA UnauthenticatedFacts ==
  /\ Plan!Unauthenticated.name = <<"auth_unauthenticated">> /\ Plan!Unauthenticated.field = "none"
  /\ Plan!Unauthenticated.payload = Plan!Base /\ ~Plan!Unauthenticated.authenticated
  /\ Plan!Unauthenticated.assert = IF route.api THEN "status" ELSE "redirect"
  /\ Plan!Unauthenticated.rows = Plan!Dependencies(Plan!Base, "none")
BY DEF Plan!Unauthenticated, Plan!Happy

\* The cases of a plan by their keys.
LEMMA KeysTell ==
  ASSUME NEW case \in Plan!PlanCases
  PROVE  /\ Plan!CaseKey(case) = <<"auth_unauthenticated">> => case = Plan!Unauthenticated
         /\ Plan!CaseKey(case) = <<"happy">> => case = Plan!Happy
         /\ \A x \in PlanFields : \A rule : Plan!CaseKey(case) = <<x, rule>> =>
              \E value, flip : IsNegative(x, rule, value, flip) /\ case = Plan!Negative(x, rule, value, flip)
<1>1. CASE case = Plan!Happy
  <2>1. Plan!CaseKey(case) = <<"happy">>
    BY <1>1, HappyFacts DEF Plan!CaseKey
  <2>2. \A x, rule : <<"happy">> # <<x, rule>>
    OBVIOUS
  <2> QED
    BY <1>1, <2>1, <2>2
<1>2. CASE case = Plan!Unauthenticated
  <2>1. Plan!CaseKey(case) = <<"auth_unauthenticated">>
    BY <1>2, UnauthenticatedFacts DEF Plan!CaseKey
  <2>2. \A x, rule : <<"auth_unauthenticated">> # <<x, rule>>
    OBVIOUS
  <2> QED
    BY <1>2, <2>1, <2>2
<1>3. CASE \E x \in PlanFields : case \in Plan!NegativesOf(x)
  <2> PICK x \in PlanFields : case \in Plan!NegativesOf(x)
    BY <1>3
  <2>1. PICK rule, value, flip :
          IsNegative(x, rule, value, flip) /\ case = Plan!Negative(x, rule, value, flip)
    BY NegativesAre
  <2>2. Plan!CaseKey(case) = <<x, rule>>
    BY <2>1, CaseFacts DEF Plan!CaseKey
  <2>3. \A y, r : <<y, r>> # <<"happy">> /\ <<y, r>> # <<"auth_unauthenticated">>
    OBVIOUS
  <2>4. \A y, r : <<y, r>> = <<x, rule>> => y = x /\ r = rule
    OBVIOUS
  <2>5. ASSUME NEW y \in PlanFields, NEW r, Plan!CaseKey(case) = <<y, r>>
        PROVE  \E v, p : IsNegative(y, r, v, p) /\ case = Plan!Negative(y, r, v, p)
    <3>1. y = x /\ r = rule
      BY <2>2, <2>4, <2>5
    <3> QED
      BY <2>1, <3>1
  <2> QED
    BY <2>2, <2>3, <2>5
<1> QED
  BY <1>1, <1>2, <1>3, PlanCasesAre

\* While the application does what its rules say no case fails but an empty probe.
LEMMA NoneFailsUnchanged ==
  ASSUME RouteType, app = <<"none">>, NEW case \in Plan!PlanCases,
         Plan!Asserts(case, Plan!Respond(case)) = "failed"
  PROVE  Plan!EmptyProbe(case)
<1>1. app # <<"crashes">> /\ app # <<"open">>
  OBVIOUS
<1>2. route.success \in {"ok", "redirect", "refused"} /\ route.auth \in BOOLEAN
  BY DEF RouteType
<1>3. case # Plan!Happy
  <2> SUFFICES ASSUME case = Plan!Happy PROVE FALSE
    OBVIOUS
  <2>1. Plan!Respond(case) # "error"
    BY <1>1, <1>2, Zenon DEF Plan!Respond
  <2>2. Plan!Echo \subseteq Plan!Returned
    BY DEF Plan!Echo, Plan!Returned
  <2>3. case.assert = "reachable"
    BY HappyFacts
  <2> QED
    BY <2>1, <2>2, <2>3 DEF Plan!Asserts
<1>4. ~(route.auth /\ case = Plan!Unauthenticated)
  <2> SUFFICES ASSUME route.auth, case = Plan!Unauthenticated PROVE FALSE
    OBVIOUS
  <2>1. Plan!Respond(case) = "unauthenticated"
    BY <1>1, UnauthenticatedFacts DEF Plan!Respond
  <2> QED
    BY <2>1, UnauthenticatedFacts DEF Plan!Asserts
<1>5. PICK x \in PlanFields : case \in Plan!NegativesOf(x)
  BY <1>3, <1>4, PlanCasesAre
<1>6. PICK rule, value, flip : IsNegative(x, rule, value, flip) /\ case = Plan!Negative(x, rule, value, flip)
  BY <1>5, NegativesAre
<1>7. /\ case.field = x /\ case.authenticated = route.auth /\ x # "none"
      /\ case.assert \in {"status", "redirect_with_errors"}
  BY <1>6, CaseFacts, RulesFacts
<1>8. SUFFICES ASSUME x \in Plan!Errors(case) PROVE FALSE
  BY <1>5, NegativeIsRefused
<1>9. Plan!Respond(case) = "invalid"
  BY <1>7, <1>8 DEF Plan!Respond
<1> QED
  BY <1>7, <1>8, <1>9 DEF Plan!Asserts

\* Whether a row of the field's table is there when a case runs.
LEMMA PresentFacts ==
  ASSUME RouteType, route.captured, NEW x \in PlanFields,
         Agreeing(route.rules[x], Plan!NormalizeField(route.rules[x]))
  PROVE  LET f == Plan!FieldOf(x) IN
         /\ f = Plan!NormalizeField(route.rules[x]) /\ route.rules[x] \in SUBSET Tokens
         /\ Agreeing(route.rules[x], f) /\ x # "none"
         /\ "exists" \in Plan!Heads(route.rules[x]) <=> f.relational = "exists"
         /\ "unique" \in Plan!Heads(route.rules[x]) <=> f.relational = "unique"
         /\ ~("exists" \in Plan!Heads(route.rules[x]) /\ "unique" \in Plan!Heads(route.rules[x]))
<1> DEFINE f == Plan!FieldOf(x)
<1>1. KeptRules(x) = route.rules[x]
  BY DEF KeptRules
<1>2. f = Plan!NormalizeField(route.rules[x]) /\ route.rules[x] \in SUBSET Tokens /\ x # "none"
  BY <1>1, RulesFacts
<1>3. f.relational = IF "exists" \in Plan!Heads(route.rules[x]) THEN "exists"
                     ELSE IF "unique" \in Plan!Heads(route.rules[x]) THEN "unique" ELSE "none"
  BY <1>2, FieldFacts
<1>4. ~("exists" \in Plan!Heads(route.rules[x]) /\ "unique" \in Plan!Heads(route.rules[x]))
  BY DEF Agreeing
<1> HIDE DEF f
<1> QED
  BY <1>2, <1>3, <1>4 DEF f

\* A valid payload is accepted.
LEMMA BaseAccepted ==
  ASSUME RouteType, route.captured, \A x \in PlanFields : Plan!Expressible(x),
         app \in {<<"open">>, <<"crashes">>},
         NEW case, case.payload = Plan!Base, case.rows = Plan!Dependencies(Plan!Base, "none")
  PROVE  Plan!Errors(case) = {}
<1> SUFFICES ASSUME NEW x \in Plan!Errors(case) PROVE FALSE
  OBVIOUS
<1> DEFINE f == Plan!FieldOf(x)
           rules == route.rules[x]
<1>1. x \in PlanFields
  BY DEF Plan!Errors
<1>2. Agreeing(rules, Plan!NormalizeField(rules))
  BY <1>1, ExpressibleIs
<1>3. /\ f = Plan!NormalizeField(rules) /\ rules \in SUBSET Tokens /\ Agreeing(rules, f) /\ x # "none"
      /\ "exists" \in Plan!Heads(rules) <=> f.relational = "exists"
      /\ "unique" \in Plan!Heads(rules) <=> f.relational = "unique"
  BY <1>1, <1>2, PresentFacts
<1>4. Plan!Enforced(x) = rules
  <2>1. \A h : app # <<"drops", x, h>>
    OBVIOUS
  <2> QED
    BY <2>1, Zenon DEF Plan!Enforced
<1>5. Plan!Base[x] = Plan!ValidValue(f) /\ Plan!Base[x] # Plan!Absent
  BY <1>1, <1>3, BaseFacts, ValidIsThere
<1>6. x \in case.rows <=> f.relational = "exists"
  BY <1>1, <1>3, <1>5 DEF Plan!Dependencies
<1>7. Breaks(rules, case.payload[x], x \in case.rows)
  BY <1>1, <1>4, ErrorsAre
<1>8. PICK r \in rules : Plan!BreaksRule(r, Plan!ValidValue(f), rules, x \in case.rows)
  BY <1>5, <1>7 DEF Breaks
<1> HIDE DEF f, rules
<1>9. PartOf(rules, rules)
  BY DEF PartOf
<1>10. r.head \in Plan!Heads(rules)
  BY DEF Plan!Heads
<1>11. (r.head = "exists" => x \in case.rows) /\ (r.head = "unique" => ~(x \in case.rows))
  BY <1>3, <1>6, <1>10
<1> QED
  BY <1>3, <1>8, <1>9, <1>11, ValidHolds

\* An open endpoint fails the case that asks without a session.
LEMMA OpenIsTold ==
  ASSUME RouteType, app = <<"open">>, route.auth,
         \/ route.api
         \/ route.captured /\ (\A x \in PlanFields : Plan!Expressible(x)) /\ route.success # "redirect"
  PROVE  Plan!Asserts(Plan!Unauthenticated, Plan!Respond(Plan!Unauthenticated)) = "failed"
<1> DEFINE case == Plan!Unauthenticated
<1>1. app # <<"crashes">> /\ route.success \in {"ok", "redirect", "refused"}
  BY DEF RouteType
<1>2. Plan!Respond(case) = IF Plan!Errors(case) # {} THEN "invalid" ELSE route.success
  BY <1>1, Zenon DEF Plan!Respond
<1>3. /\ case.field = "none" /\ case.assert = IF route.api THEN "status" ELSE "redirect"
      /\ case.payload = Plan!Base /\ case.rows = Plan!Dependencies(Plan!Base, "none")
  BY UnauthenticatedFacts
<1>4. ~route.api => Plan!Errors(case) = {}
  BY <1>3, BaseAccepted
<1> HIDE DEF case
<1>5. route.api => Plan!Asserts(case, Plan!Respond(case)) = "failed"
  BY <1>1, <1>2, <1>3 DEF Plan!Asserts
<1>6. ~route.api => Plan!Asserts(case, Plan!Respond(case)) = "failed"
  <2> SUFFICES ASSUME ~route.api PROVE Plan!Asserts(case, Plan!Respond(case)) = "failed"
    OBVIOUS
  <2>1. Plan!Respond(case) \in {"ok", "refused"} /\ case.assert = "redirect"
    BY <1>1, <1>2, <1>3, <1>4
  <2> QED
    BY <2>1 DEF Plan!Asserts
<1> QED
  BY <1>5, <1>6 DEF case

\* A crash fails the valid case.
LEMMA CrashIsTold ==
  ASSUME RouteType, app = <<"crashes">>, route.captured, \A x \in PlanFields : Plan!Expressible(x)
  PROVE  Plan!Asserts(Plan!Happy, Plan!Respond(Plan!Happy)) = "failed"
<1> DEFINE case == Plan!Happy
<1>1. /\ case.assert = "reachable" /\ case.authenticated = route.auth
      /\ case.payload = Plan!Base /\ case.rows = Plan!Dependencies(Plan!Base, "none")
  BY HappyFacts
<1>2. Plan!Errors(case) = {}
  BY <1>1, BaseAccepted
<1>3. Plan!Respond(case) = "error"
  BY <1>1, <1>2, Zenon DEF Plan!Respond
<1> HIDE DEF case
<1> QED
  BY <1>1, <1>3 DEF Plan!Asserts, case

\* The rules of a field but for those with one head.
Without(rules, h) == {r \in rules : r.head # h}

LEMMA WithoutIsPart ==
  ASSUME NEW rules, NEW h, h \notin {"integer", "numeric"}
  PROVE  PartOf(Without(rules, h), rules)
BY DEF PartOf, Without, Plan!Heads

\* The measure of a value beyond a bound.
LEMMA OffMeasure ==
  ASSUME NEW rules \in SUBSET Tokens, NEW f, f = Plan!NormalizeField(rules), NEW part, PartOf(part, rules),
         NEW bound \in Int, f.type \in {"integer", "numeric"} \/ (f.type = "string" /\ bound > 0)
  PROVE  LET v == Plan!Off(f, bound) IN
         /\ ~Plan!Blank(v) /\ Plan!Measure(v, part) = bound /\ Plan!HasType(v, f.type) /\ v # Plan!Absent
<1>1. CASE f.type \in {"integer", "numeric"}
  <2>1. Plan!Off(f, bound) = Plan!Value("integer", bound)
    BY <1>1, OffFacts
  <2>2. f.type \in Plan!Heads(part) \cap {"integer", "numeric"}
    BY <1>1, TypeFacts DEF PartOf
  <2>3. Plan!Measure(Plan!Value("integer", bound), part) = bound
    BY <2>2, ValueFacts DEF Plan!Measure, Plan!Numeric
  <2>4. Plan!HasType(Plan!Value("integer", bound), f.type)
    BY <1>1, ValueFacts DEF Plan!HasType, Plan!Numeric
  <2>5. ~Plan!Blank(Plan!Value("integer", bound))
    BY BlankFacts
  <2> QED
    BY <2>1, <2>3, <2>4, <2>5, BlankFacts
<1>2. CASE f.type = "string" /\ bound > 0
  <2>1. Plan!Off(f, bound) = Plan!Value("string", bound)
    BY <1>2, OffFacts
  <2>2. Plan!Measure(Plan!Value("string", bound), part) = bound
    BY ValueFacts DEF Plan!Measure
  <2>3. Plan!HasType(Plan!Value("string", bound), f.type)
    BY <1>2, ValueFacts DEF Plan!HasType, Plan!Numeric
  <2>4. ~Plan!Blank(Plan!Value("string", bound))
    BY <1>2, BlankFacts
  <2> QED
    BY <2>1, <2>2, <2>3, <2>4, BlankFacts
<1> QED
  BY <1>1, <1>2

\* What is said of a field whose rule the application lost.
Lost(x, h) ==
  /\ RouteType /\ route.captured /\ x \in PlanFields /\ app = <<"drops", x, h>>
  /\ h \in Plan!Heads(route.rules[x])

LEMMA LostFacts ==
  ASSUME NEW x, NEW h, Lost(x, h)
  PROVE  LET f == Plan!FieldOf(x) rules == route.rules[x] IN
         /\ x \in PlanFields /\ x # "none" /\ rules \in SUBSET Tokens /\ f = Plan!NormalizeField(rules)
         /\ Plan!Enforced(x) = Without(rules, h)
         /\ \A case : x \in Plan!Errors(case) <=>
              Breaks(Without(rules, h), case.payload[x], x \in case.rows)
<1> DEFINE rules == route.rules[x]
<1>1. RouteType /\ route.captured /\ x \in PlanFields /\ app = <<"drops", x, h>>
  BY DEF Lost
<1>2. KeptRules(x) = rules
  BY <1>1 DEF KeptRules
<1>3. rules \in SUBSET Tokens /\ x # "none" /\ Plan!FieldOf(x) = Plan!NormalizeField(rules)
  BY <1>1, <1>2, RulesFacts
<1>4. Plan!Enforced(x) = Without(rules, h)
  <2>1. \A g : <<"drops", x, g>> # <<"drops", x, h>> <=> g # h
    OBVIOUS
  <2>2. Plan!Enforced(x) = {r \in rules : <<"drops", x, h>> # <<"drops", x, r.head>>}
    BY <1>1, Zenon DEF Plan!Enforced
  <2> HIDE DEF rules
  <2> QED
    BY <2>1, <2>2, Zenon DEF Without
<1>5. \A case : x \in Plan!Errors(case) <=> Breaks(Without(rules, h), case.payload[x], x \in case.rows)
  BY <1>1, <1>4 DEF Plan!Errors, Breaks
<1> QED
  BY <1>1, <1>3, <1>4, <1>5

\* A case tells the loss of a rule when it breaks none of the others.
Tells(x, rule) ==
  /\ \E value, flip : IsNegative(x, rule, value, flip)
  /\ \A value, flip : IsNegative(x, rule, value, flip) =>
       x \notin Plan!Errors(Plan!Negative(x, rule, value, flip))

LEMMA RequiredIsTold ==
  ASSUME NEW x, Lost(x, "required")
  PROVE  Tells(x, "required_missing")
<1> DEFINE f == Plan!FieldOf(x)
           rules == route.rules[x]
<1>1. x \in PlanFields /\ x # "none" /\ rules \in SUBSET Tokens /\ f = Plan!NormalizeField(rules)
  BY LostFacts
<1>2. f.required
  BY <1>1, FieldFacts DEF Lost
<1>3. IsNegative(x, "required_missing", Plan!Absent, "none")
  BY <1>2 DEF IsNegative
<1>4. ASSUME NEW value, NEW flip, IsNegative(x, "required_missing", value, flip)
      PROVE  x \notin Plan!Errors(Plan!Negative(x, "required_missing", value, flip))
  <2> DEFINE case == Plan!Negative(x, "required_missing", value, flip)
  <2>1. value = Plan!Absent
    BY <1>4 DEF IsNegative
  <2>2. case.payload[x] = value
    BY <1>1, CaseFacts
  <2>3. Plan!Blank(value)
    BY <2>1, BlankFacts
  <2>4. \A r \in Without(rules, "required") : \A present : ~Plan!BreaksRule(r, value, Without(rules, "required"), present)
    BY <2>3 DEF Without, Plan!BreaksRule
  <2>5. ~Breaks(Without(rules, "required"), value, x \in case.rows)
    BY <2>4, Zenon DEF Breaks
  <2>6. x \in Plan!Errors(case) <=> Breaks(Without(rules, "required"), case.payload[x], x \in case.rows)
    BY LostFacts
  <2> HIDE DEF case
  <2> QED
    BY <2>2, <2>5, <2>6 DEF case
<1> QED
  BY <1>3, <1>4 DEF Tells

\* The valid value of a unique field, sent twice.
LEMMA UniqueIsTold ==
  ASSUME NEW x, Lost(x, "unique"), Plan!Expressible(x)
  PROVE  Tells(x, "unique_duplicate")
<1> DEFINE f == Plan!FieldOf(x)
           rules == route.rules[x]
           part == Without(rules, "unique")
<1>1. x \in PlanFields /\ x # "none" /\ rules \in SUBSET Tokens /\ f = Plan!NormalizeField(rules)
  BY LostFacts
<1>2. Agreeing(rules, f)
  BY <1>1, ExpressibleIs
<1>3. "exists" \notin Plan!Heads(rules) /\ f.relational = "unique"
  BY <1>1, <1>2, PresentFacts DEF Lost
<1>4. IsNegative(x, "unique_duplicate", Plan!Base[x], x)
  BY <1>3 DEF IsNegative
<1>5. ASSUME NEW value, NEW flip, IsNegative(x, "unique_duplicate", value, flip)
      PROVE  x \notin Plan!Errors(Plan!Negative(x, "unique_duplicate", value, flip))
  <2> DEFINE case == Plan!Negative(x, "unique_duplicate", value, flip)
             present == (x \in case.rows)
  <2>1. value = Plan!ValidValue(f)
    BY <1>1, <1>5, BaseFacts DEF IsNegative
  <2>2. case.payload[x] = value
    BY <1>1, CaseFacts
  <2>3. x \in Plan!Errors(case) <=> Breaks(part, case.payload[x], present)
    BY LostFacts
  <2>4. PartOf(part, rules)
    BY WithoutIsPart
  <2>5. \A r \in part : r.head # "unique" /\ r.head # "exists"
    BY <1>3 DEF Without, Plan!Heads
  <2> HIDE DEF case, present, part, f, rules
  <2>6. \A r \in part : ~Plan!BreaksRule(r, Plan!ValidValue(f), part, present)
    BY <1>1, <1>2, <2>4, <2>5, ValidHolds
  <2> QED
    BY <2>1, <2>2, <2>3, <2>6 DEF Breaks, case
<1> QED
  BY <1>4, <1>5 DEF Tells

\* A reference to nothing.
LEMMA ExistsIsTold ==
  ASSUME NEW x, Lost(x, "exists"), Plan!Expressible(x),
         Plan!FieldOf(x).type \in {"integer", "numeric", "unknown"}, Plan!FieldOf(x).max = -1,
         Plan!FieldOf(x).size = -1, Plan!FieldOf(x).min <= 999999999
  PROVE  Tells(x, "exists_missing")
<1> DEFINE f == Plan!FieldOf(x)
           rules == route.rules[x]
           part == Without(rules, "exists")
           v == Plan!NonexistentId
<1>1. x \in PlanFields /\ x # "none" /\ rules \in SUBSET Tokens /\ f = Plan!NormalizeField(rules)
  BY LostFacts
<1>2. Agreeing(rules, f)
  BY <1>1, ExpressibleIs
<1>3. "unique" \notin Plan!Heads(rules) /\ f.relational = "exists"
  BY <1>1, <1>2, PresentFacts DEF Lost
<1>4. IsNegative(x, "exists_missing", v, x)
  BY <1>3 DEF IsNegative
<1>5. PartOf(part, rules)
  BY WithoutIsPart
<1>6. \A r \in part : r.head \in Plan!Heads(rules) /\ r.head # "exists" /\ r.head # "unique"
  BY <1>3 DEF Without, Plan!Heads
<1>7. v = Plan!Value("integer", 999999999)
  BY DEF Plan!NonexistentId
<1>8. ~Plan!Blank(v) /\ v.kind = "integer" /\ v.n = 999999999
  BY <1>7, BlankFacts, ValueFacts
<1>9. Plan!Measure(v, part) \in Int /\ f.min <= Plan!Measure(v, part)
  <2>1. CASE f.type = "unknown"
    <3>1. Plan!Heads(part) \cap {"integer", "numeric"} = {}
      BY <1>1, <1>5, <2>1, TypeFacts, TypeNames DEF PartOf
    <3>2. Plan!Measure(v, part) = 9
      BY <1>8, <3>1 DEF Plan!Measure, Plan!Numeric, Plan!Digits
    <3>3. f.min <= 1
      BY <1>2, <1>3, <2>1 DEF Agreeing
    <3>4. f.min \in Nat \cup {-1}
      BY <1>1, FieldFacts
    <3> QED
      BY <3>2, <3>3, <3>4
  <2>2. CASE f.type # "unknown"
    <3>1. f.type \in Plan!Heads(part) \cap {"integer", "numeric"}
      BY <1>1, <1>5, <2>2, TypeFacts DEF PartOf
    <3>2. Plan!Measure(v, part) = 999999999
      BY <1>8, <3>1 DEF Plan!Measure, Plan!Numeric
    <3> QED
      BY <3>2
  <2> QED
    BY <2>1, <2>2
<1>10. \A r \in part : (r.head \in Plan!Types => Plan!HasType(v, f.type)) /\ r.head # "max" /\ r.head # "size"
  <2> SUFFICES ASSUME NEW r \in part
               PROVE  (r.head \in Plan!Types => Plan!HasType(v, f.type)) /\ r.head # "max" /\ r.head # "size"
    OBVIOUS
  <2>1. r.head \in Plan!Heads(rules)
    BY <1>6
  <2>2. r.head \in Plan!Types => f.type \in {"integer", "numeric"}
    BY <1>1, <2>1, TypeFacts, TypeNames
  <2>3. r.head # "max" /\ r.head # "size"
    <3>1. Plan!Argument(rules, r.head) # -1
      BY <1>1, <2>1, HeadFacts
    <3> QED
      BY <1>1, <3>1, FieldFacts
  <2> QED
    BY <1>8, <2>2, <2>3 DEF Plan!HasType, Plan!Numeric
<1>11. ASSUME NEW value, NEW flip, IsNegative(x, "exists_missing", value, flip)
       PROVE  x \notin Plan!Errors(Plan!Negative(x, "exists_missing", value, flip))
  <2> DEFINE case == Plan!Negative(x, "exists_missing", value, flip)
             present == (x \in case.rows)
  <2>1. value = v
    BY <1>11 DEF IsNegative
  <2>2. case.payload[x] = value
    BY <1>1, CaseFacts
  <2>3. x \in Plan!Errors(case) <=> Breaks(part, case.payload[x], present)
    BY LostFacts
  <2> HIDE DEF case, present, part, f, rules, v
  <2>4. \A r \in part : ~Plan!BreaksRule(r, v, part, present)
    BY <1>1, <1>2, <1>5, <1>6, <1>8, <1>9, <1>10, HoldsRule
  <2> QED
    BY <2>1, <2>2, <2>3, <2>4 DEF Breaks, case
<1> QED
  BY <1>4, <1>11 DEF Tells

LEMMA RowIsThere ==
  ASSUME NEW x \in PlanFields, NEW rule, NEW value, NEW flip, value # Plan!Absent, x # flip
  PROVE  /\ Plan!FieldOf(x).relational = "exists" => x \in Plan!Negative(x, rule, value, flip).rows
         /\ Plan!FieldOf(x).relational = "unique" => ~(x \in Plan!Negative(x, rule, value, flip).rows)
<1> DEFINE payload == [Plan!Base EXCEPT ![x] = value]
<1>1. payload[x] = value
  BY DEF Plan!Base
<1> HIDE DEF payload
<1>2. Plan!Negative(x, rule, value, flip).rows = Plan!Dependencies(payload, flip)
  BY DEF Plan!Negative, payload
<1> QED
  BY <1>1, <1>2 DEF Plan!Dependencies

\* A value beyond a bound that the application lost, and within the others.
LEMMA OffIsAccepted ==
  ASSUME NEW x, NEW h, Lost(x, h), Plan!Expressible(x), h \in {"min", "max", "size"},
         NEW f, f = Plan!FieldOf(x), NEW bound \in Int,
         f.type \in {"integer", "numeric"} \/ (f.type = "string" /\ bound > 0),
         h # "min" => f.min <= bound,
         h # "max" /\ f.max # -1 => bound <= f.max,
         h # "size" => f.size = -1,
         NEW rule, NEW value, value = Plan!Off(f, bound)
  PROVE  x \notin Plan!Errors(Plan!Negative(x, rule, value, "none"))
<1> DEFINE rules == route.rules[x]
           part == Without(rules, h)
           case == Plan!Negative(x, rule, value, "none")
           present == (x \in case.rows)
<1>1. x \in PlanFields /\ x # "none" /\ rules \in SUBSET Tokens /\ f = Plan!NormalizeField(rules)
  BY LostFacts
<1>2. Agreeing(rules, f)
  BY <1>1, ExpressibleIs
<1>3. /\ "exists" \in Plan!Heads(rules) <=> f.relational = "exists"
      /\ "unique" \in Plan!Heads(rules) <=> f.relational = "unique"
  BY <1>1, <1>2, PresentFacts DEF Lost
<1>4. PartOf(part, rules)
  BY WithoutIsPart
<1>5. /\ ~Plan!Blank(value) /\ Plan!Measure(value, part) = bound
      /\ Plan!HasType(value, f.type) /\ value # Plan!Absent
  BY <1>1, <1>4, OffMeasure
<1>6. case.payload[x] = value
  BY <1>1, CaseFacts
<1>7. /\ f.relational = "exists" => present
      /\ f.relational = "unique" => ~present
  BY <1>1, <1>5, RowIsThere
<1>8. x \in Plan!Errors(case) <=> Breaks(part, case.payload[x], present)
  BY LostFacts
<1>9. \A r \in part : r.head \in Plan!Heads(rules) /\ r.head # h
  BY DEF Without, Plan!Heads
<1>10. /\ f.min \in Nat \cup {-1} /\ f.max \in Nat \cup {-1} /\ f.size \in Nat \cup {-1}
       /\ "max" \in Plan!Heads(rules) => f.max # -1
       /\ "size" \in Plan!Heads(rules) => f.size # -1
  BY <1>1, FieldFacts, HeadFacts
<1> HIDE DEF case, present, part, rules
<1>11. ASSUME NEW r \in part
       PROVE  ~Plan!BreaksRule(r, value, part, present)
  <2>1. (r.head = "exists" => present) /\ (r.head = "unique" => ~present)
    BY <1>3, <1>7, <1>9
  <2>2. r.head = "min" => f.min <= bound
    BY <1>9
  <2>3. r.head = "max" => f.max >= bound
    <3> SUFFICES ASSUME r.head = "max" PROVE f.max >= bound
      OBVIOUS
    <3>1. h # "max" /\ f.max # -1
      BY <1>9, <1>10
    <3> QED
      BY <1>10, <3>1
  <2>4. r.head # "size"
    BY <1>9, <1>10
  <2> QED
    BY <1>1, <1>2, <1>4, <1>5, <2>1, <2>2, <2>3, <2>4, HoldsRule
<1>12. ~Breaks(part, value, present)
  BY <1>11 DEF Breaks
<1> QED
  BY <1>6, <1>8, <1>12 DEF case

LEMMA BoundFound ==
  ASSUME NEW x, NEW h, Lost(x, h)
  PROVE  LET f == Plan!FieldOf(x) IN
         /\ h = "min" => f.min \in Nat /\ f.min = Plan!Argument(route.rules[x], h)
         /\ h = "max" => f.max \in Nat
         /\ h = "size" => f.size \in Nat /\ f.size = Plan!Argument(route.rules[x], h)
         /\ f.min \in Nat \cup {-1} /\ f.max \in Nat \cup {-1} /\ f.size \in Nat \cup {-1}
<1> DEFINE f == Plan!FieldOf(x)
           rules == route.rules[x]
<1>1. rules \in SUBSET Tokens /\ f = Plan!NormalizeField(rules)
  BY LostFacts
<1>2. Plan!Argument(rules, h) \in Nat
  BY <1>1, HeadFacts DEF Lost
<1> HIDE DEF f, rules
<1>3. /\ f.min = Plan!Argument(rules, "min") /\ f.max = Plan!Argument(rules, "max")
      /\ f.size = Plan!Argument(rules, "size")
      /\ f.min \in Nat \cup {-1} /\ f.max \in Nat \cup {-1} /\ f.size \in Nat \cup {-1}
  BY <1>1, FieldFacts
<1> QED
  BY <1>2, <1>3 DEF f, rules

LEMMA BoundAgrees ==
  ASSUME NEW x, NEW h, Lost(x, h), Plan!Expressible(x), NEW f, f = Plan!FieldOf(x)
  PROVE  Agreeing(route.rules[x], f)
<1>1. x \in PlanFields /\ f = Plan!NormalizeField(route.rules[x])
  BY LostFacts
<1> QED
  BY <1>1, ExpressibleIs

LEMMA MaxIsTold ==
  ASSUME NEW x, Lost(x, "max"), Plan!Expressible(x),
         Plan!FieldOf(x).type \in {"integer", "numeric", "string"}
  PROVE  Tells(x, "max_boundary")
<1> DEFINE f == Plan!FieldOf(x)
<1>1. /\ f.max \in Nat
      /\ f.min \in Nat \cup {-1} /\ f.max \in Nat \cup {-1} /\ f.size \in Nat \cup {-1}
  BY BoundFound
<1>2. Agreeing(route.rules[x], f)
  BY BoundAgrees
<1>3. f.min <= f.max /\ f.size = -1
  BY <1>1, <1>2 DEF Agreeing
<1>4. IsNegative(x, "max_boundary", Plan!Off(f, f.max + 1), "none")
  BY <1>1 DEF IsNegative
<1>5. ASSUME NEW value, NEW flip, IsNegative(x, "max_boundary", value, flip)
      PROVE  x \notin Plan!Errors(Plan!Negative(x, "max_boundary", value, flip))
  <2>1. value = Plan!Off(f, f.max + 1) /\ flip = "none"
    BY <1>5 DEF IsNegative
  <2>2. f.max + 1 \in Int /\ f.max + 1 > 0 /\ f.min <= f.max + 1
    BY <1>1, <1>3
  <2> HIDE DEF f
  <2>3. f.type \in {"integer", "numeric"} \/ f.type = "string"
    BY DEF f
  <2> QED
    BY <1>3, <2>1, <2>2, <2>3, OffIsAccepted DEF f
<1> QED
  BY <1>4, <1>5 DEF Tells

LEMMA MinIsTold ==
  ASSUME NEW x, Lost(x, "min"), Plan!Expressible(x),
         \/ Plan!FieldOf(x).type \in {"integer", "numeric"}
         \/ Plan!FieldOf(x).type = "string" /\ Plan!Argument(route.rules[x], "min") >= 2
  PROVE  Tells(x, "min_boundary")
<1> DEFINE f == Plan!FieldOf(x)
<1>1. /\ f.min \in Nat /\ f.min = Plan!Argument(route.rules[x], "min")
      /\ f.min \in Nat \cup {-1} /\ f.max \in Nat \cup {-1} /\ f.size \in Nat \cup {-1}
  BY BoundFound
<1>2. Agreeing(route.rules[x], f)
  BY BoundAgrees
<1>3. (f.max # -1 => f.min <= f.max) /\ f.size = -1
  BY <1>1, <1>2 DEF Agreeing
<1>4. IsNegative(x, "min_boundary", Plan!Off(f, f.min - 1), "none")
  BY <1>1 DEF IsNegative
<1>5. ASSUME NEW value, NEW flip, IsNegative(x, "min_boundary", value, flip)
      PROVE  x \notin Plan!Errors(Plan!Negative(x, "min_boundary", value, flip))
  <2>1. value = Plan!Off(f, f.min - 1) /\ flip = "none"
    BY <1>5 DEF IsNegative
  <2>2. f.min - 1 \in Int /\ (f.max # -1 => f.min - 1 <= f.max)
    BY <1>1, <1>3
  <2> HIDE DEF f
  <2>3. f.type \in {"integer", "numeric"} \/ (f.type = "string" /\ f.min - 1 > 0)
    BY <1>1 DEF f
  <2> QED
    BY <1>3, <2>1, <2>2, <2>3, OffIsAccepted DEF f
<1> QED
  BY <1>4, <1>5 DEF Tells

LEMMA SizeIsTold ==
  ASSUME NEW x, Lost(x, "size"), Plan!Expressible(x),
         Plan!FieldOf(x).type = "string", Plan!Argument(route.rules[x], "size") >= 2
  PROVE  Tells(x, "size_below")
<1> DEFINE f == Plan!FieldOf(x)
<1>1. /\ f.size \in Nat /\ f.size = Plan!Argument(route.rules[x], "size")
      /\ f.min \in Nat \cup {-1} /\ f.max \in Nat \cup {-1} /\ f.size \in Nat \cup {-1}
  BY BoundFound
<1>2. Agreeing(route.rules[x], f)
  BY BoundAgrees
<1>3. f.min = -1 /\ f.max = -1
  BY <1>1, <1>2 DEF Agreeing
<1>4. IsNegative(x, "size_below", Plan!Off(f, f.size - 1), "none")
  BY <1>1 DEF IsNegative
<1>5. ASSUME NEW value, NEW flip, IsNegative(x, "size_below", value, flip)
      PROVE  x \notin Plan!Errors(Plan!Negative(x, "size_below", value, flip))
  <2>1. value = Plan!Off(f, f.size - 1) /\ flip = "none"
    BY <1>5 DEF IsNegative
  <2>2. f.size - 1 \in Int /\ f.size - 1 > 0 /\ f.min <= f.size - 1
    BY <1>1, <1>3
  <2> HIDE DEF f
  <2>3. f.type = "string"
    BY DEF f
  <2> QED
    BY <1>3, <2>1, <2>2, <2>3, OffIsAccepted DEF f
<1> QED
  BY <1>4, <1>5 DEF Tells

\* Each loss that a test must tell is told by a case of the field.
LEMMA LossIsTold ==
  ASSUME RouteType, NEW x \in PlanFields, NEW h \in Plan!Heads(route.rules[x]),
         app = <<"drops", x, h>>, route.captured, Plan!Expressible(x),
         NEW f, f = Plan!NormalizeField(route.rules[x]),
         \/ h = "required"
         \/ h = "unique"
         \/ h = "exists" /\ f.type \in {"integer", "numeric", "unknown"}
                         /\ f.max = -1 /\ f.size = -1 /\ f.min <= 999999999
         \/ h = "max" /\ f.type \in {"integer", "numeric", "string"}
         \/ h = "min" /\ f.type \in {"integer", "numeric"}
         \/ h \in {"min", "size"} /\ f.type = "string" /\ Plan!Argument(route.rules[x], h) >= 2
  PROVE  \E rule : Tells(x, rule)
<1>1. Lost(x, h)
  BY DEF Lost
<1>2. Plan!FieldOf(x) = f
  BY <1>1, LostFacts
<1>3. CASE h = "required"
  BY <1>1, <1>3, RequiredIsTold
<1>4. CASE h = "unique"
  BY <1>1, <1>4, UniqueIsTold
<1>5. CASE h = "exists" /\ f.type \in {"integer", "numeric", "unknown"}
                        /\ f.max = -1 /\ f.size = -1 /\ f.min <= 999999999
  BY <1>1, <1>2, <1>5, ExistsIsTold
<1>6. CASE h = "max" /\ f.type \in {"integer", "numeric", "string"}
  BY <1>1, <1>2, <1>6, MaxIsTold
<1>7. CASE h = "min" /\ f.type \in {"integer", "numeric"}
  BY <1>1, <1>2, <1>7, MinIsTold
<1>8. CASE h = "min" /\ f.type = "string" /\ Plan!Argument(route.rules[x], h) >= 2
  BY <1>1, <1>2, <1>8, MinIsTold
<1>9. CASE h = "size" /\ f.type = "string" /\ Plan!Argument(route.rules[x], h) >= 2
  BY <1>1, <1>2, <1>9, SizeIsTold
<1> QED
  BY <1>3, <1>4, <1>5, <1>6, <1>7, <1>8, <1>9

\* A test of the suite that fails is one of the report that did.
LEMMA FailureIsReported ==
  ASSUME PlanSuite, report # Plan!Empty, NEW k \in DOMAIN suite, suite[k].script = "runs",
         Plan!Asserts(suite[k].case, Plan!Respond(suite[k].case)) = "failed"
  PROVE  k \in DOMAIN report /\ report[k] = "failed"
<1>1. report = [j \in DOMAIN suite |-> Plan!Verdict(suite[j])]
  BY DEF PlanSuite
<1>2. Plan!Verdict(suite[k]) = "failed"
  BY DEF Plan!Verdict
<1> QED
  BY <1>1, <1>2

\* What a test asserts of the case of a rule that the application lost.
LEMMA TellsFails ==
  ASSUME RouteType, NEW x \in PlanFields, NEW rule, Tells(x, rule), app # <<"open">>,
         NEW value, NEW flip, IsNegative(x, rule, value, flip),
         NEW case, case = Plan!Negative(x, rule, value, flip)
  PROVE  Plan!Asserts(case, Plan!Respond(case)) = "failed"
<1>1. case.field = x /\ case.assert \in {"status", "redirect_with_errors"} /\ x # "none"
  BY CaseFacts, RulesFacts
<1>2. x \notin Plan!Errors(case)
  BY DEF Tells
<1> QED
  BY <1>1, <1>2 DEF Plan!Asserts

\* The rules whose loss a test must tell.
Loses(x, h, f) ==
  /\ app = <<"drops", x, h>> /\ route.captured /\ Plan!Expressible(x)
  /\ \/ h = "required"
     \/ h = "unique"
     \/ h = "exists" /\ f.type \in {"integer", "numeric", "unknown"}
                     /\ f.max = -1 /\ f.size = -1 /\ f.min <= 999999999
     \/ h = "max" /\ f.type \in {"integer", "numeric", "string"}
     \/ h = "min" /\ f.type \in {"integer", "numeric"}
     \/ h \in {"min", "size"} /\ f.type = "string" /\ Plan!Argument(route.rules[x], h) >= 2

LEMMA TellingIs ==
  ASSUME Plan!Telling
  PROVE  \/ /\ app = <<"open">> /\ route.auth
            /\ \/ route.api
               \/ /\ route.captured /\ (\A x \in PlanFields : Plan!Expressible(x))
                  /\ route.success # "redirect"
         \/ app = <<"crashes">> /\ route.captured /\ \A x \in PlanFields : Plan!Expressible(x)
         \/ \E x \in PlanFields : \E h \in Plan!Heads(route.rules[x]) :
              Loses(x, h, Plan!NormalizeField(route.rules[x]))
<1>1. Plan!None = -1 /\ Plan!NonexistentId.n = 999999999
  BY ValueFacts DEF Plan!None, Plan!NonexistentId
<1> QED
  BY <1>1, SMT DEF Plan!Telling, Loses

LEMMA TellingFails ==
  ASSUME PlanSuite, report # Plan!Empty, Plan!Telling, \A k \in DOMAIN suite : suite[k].script = "runs"
  PROVE  \E k \in DOMAIN report : report[k] = "failed"
<1>1. /\ RouteType /\ suite # Plan!Empty
      /\ DOMAIN suite = {Plan!CaseKey(c) : c \in Plan!PlanCases}
      /\ \A k \in DOMAIN suite : suite[k].case \in Plan!PlanCases /\ Plan!CaseKey(suite[k].case) = k
  BY DEF PlanSuite
<1>2. SUFFICES \E k \in DOMAIN suite : Plan!Asserts(suite[k].case, Plan!Respond(suite[k].case)) = "failed"
  BY FailureIsReported
<1>3. CASE /\ app = <<"open">> /\ route.auth
           /\ \/ route.api
              \/ /\ route.captured /\ (\A x \in PlanFields : Plan!Expressible(x))
                 /\ route.success # "redirect"
  <2>1. Plan!Asserts(Plan!Unauthenticated, Plan!Respond(Plan!Unauthenticated)) = "failed"
    BY <1>1, <1>3, OpenIsTold
  <2>2. Plan!Unauthenticated \in Plan!PlanCases
    BY <1>3, PlanCasesAre
  <2>3. Plan!CaseKey(Plan!Unauthenticated) = <<"auth_unauthenticated">>
    BY UnauthenticatedFacts DEF Plan!CaseKey
  <2>4. <<"auth_unauthenticated">> \in DOMAIN suite
    BY <1>1, <2>2, <2>3
  <2>5. suite[<<"auth_unauthenticated">>].case = Plan!Unauthenticated
    BY <1>1, <2>4, KeysTell
  <2> QED
    BY <2>1, <2>4, <2>5
<1>4. CASE app = <<"crashes">> /\ route.captured /\ \A x \in PlanFields : Plan!Expressible(x)
  <2>1. Plan!Asserts(Plan!Happy, Plan!Respond(Plan!Happy)) = "failed"
    BY <1>1, <1>4, CrashIsTold
  <2>2. Plan!Happy \in Plan!PlanCases
    BY PlanCasesAre
  <2>3. Plan!CaseKey(Plan!Happy) = <<"happy">>
    BY HappyFacts DEF Plan!CaseKey
  <2>4. <<"happy">> \in DOMAIN suite
    BY <1>1, <2>2, <2>3
  <2>5. suite[<<"happy">>].case = Plan!Happy
    BY <1>1, <2>4, KeysTell
  <2> QED
    BY <2>1, <2>4, <2>5
<1>5. ASSUME NEW x \in PlanFields, NEW h \in Plan!Heads(route.rules[x]),
             Loses(x, h, Plan!NormalizeField(route.rules[x]))
      PROVE  \E k \in DOMAIN suite : Plan!Asserts(suite[k].case, Plan!Respond(suite[k].case)) = "failed"
  <2>1. PICK rule : Tells(x, rule)
    BY <1>1, <1>5, LossIsTold DEF Loses
  <2>2. PICK value, flip : IsNegative(x, rule, value, flip)
    BY <2>1 DEF Tells
  <2>3. Plan!Negative(x, rule, value, flip) \in Plan!PlanCases
    BY <2>2, NegativesAre, PlanCasesAre
  <2>4. Plan!CaseKey(Plan!Negative(x, rule, value, flip)) = <<x, rule>>
    BY CaseFacts DEF Plan!CaseKey
  <2>5. <<x, rule>> \in DOMAIN suite
    BY <1>1, <2>3, <2>4
  <2>6. PICK v, p : IsNegative(x, rule, v, p) /\ suite[<<x, rule>>].case = Plan!Negative(x, rule, v, p)
    BY <1>1, <2>5, KeysTell
  <2>7. app # <<"open">>
    BY <1>5 DEF Loses
  <2>8. Plan!Asserts(suite[<<x, rule>>].case, Plan!Respond(suite[<<x, rule>>].case)) = "failed"
    BY <1>1, <2>1, <2>6, <2>7, TellsFails
  <2> QED
    BY <2>5, <2>8
<1> QED
  BY <1>3, <1>4, <1>5, TellingIs

LEMMA SuiteIsFairFollows ==
  ASSUME PlanSuite
  PROVE  Plan!SuiteIsFair
<1>1. ASSUME report # Plan!Empty, app = <<"none">>, NEW k \in DOMAIN report, report[k] = "failed"
      PROVE  Plan!EmptyProbe(suite[k].case)
  <2>1. report = [j \in DOMAIN suite |-> Plan!Verdict(suite[j])] /\ suite # Plan!Empty
    BY <1>1 DEF PlanSuite
  <2>2. k \in DOMAIN suite /\ Plan!Verdict(suite[k]) = "failed"
    BY <1>1, <2>1
  <2>3. /\ RouteType /\ suite[k].case \in Plan!PlanCases
        /\ suite[k].script \in {"runs", "skips", "broken"}
    BY <2>1, <2>2 DEF PlanSuite
  <2>4. Plan!Asserts(suite[k].case, Plan!Respond(suite[k].case)) = "failed"
    BY <2>2, <2>3 DEF Plan!Verdict
  <2> QED
    BY <1>1, <2>3, <2>4, NoneFailsUnchanged
<1> QED
  BY <1>1, TellingFails DEF Plan!SuiteIsFair

LEMMA ScriptsAre ==
  ASSUME RouteType, NEW first \in Plan!Answers, NEW second \in Plan!Answers
  PROVE  Plan!RenderScript(first, second) \in {"runs", "skips", "broken"}
BY DEF Plan!RenderScript, Plan!SkipIfUsesFactory, Plan!LooksLikeTestClass

LEMMA NegativesSame ==
  \A x, case : case \in Plan!NegativesOf(x) <=>
    \E rule, value, flip : IsNegative(x, rule, value, flip) /\ case = Plan!Negative(x, rule, value, flip)
BY NegativesAre

\* A plan depends on its route only.
LEMMA PlanStays ==
  ASSUME UNCHANGED route
  PROVE  /\ Plan!PlanCases' = Plan!PlanCases /\ Plan!Faults' = Plan!Faults
         /\ RouteType' = RouteType
<1>1. \A x : Plan!FieldOf(x)' = Plan!FieldOf(x)
  BY DEF Plan!FieldOf
<1>2. Plan!Base' = Plan!Base
  BY <1>1 DEF Plan!Base
<1>3. \A payload, flip : Plan!Dependencies(payload, flip)' = Plan!Dependencies(payload, flip)
  BY <1>1 DEF Plan!Dependencies
<1>4. Plan!Happy' = Plan!Happy
  BY <1>2, <1>3 DEF Plan!Happy
<1>5. Plan!Unauthenticated' = Plan!Unauthenticated
  BY <1>4 DEF Plan!Unauthenticated
<1>6. \A x, rule, value, flip : Plan!Negative(x, rule, value, flip)' = Plan!Negative(x, rule, value, flip)
  BY <1>2, <1>3 DEF Plan!Negative
<1>7. \A x : Plan!NegativesOf(x)' = Plan!NegativesOf(x)
  <2>1. \A x, rule, value, flip : IsNegative(x, rule, value, flip)' <=> IsNegative(x, rule, value, flip)
    <3>1. \A f, bound : Plan!Off(f, bound)' = Plan!Off(f, bound)
      BY DEF Plan!Off
    <3> SUFFICES ASSUME NEW x, NEW rule, NEW value, NEW flip
                 PROVE  IsNegative(x, rule, value, flip)' <=> IsNegative(x, rule, value, flip)
      OBVIOUS
    <3> DEFINE f == Plan!FieldOf(x)
    <3>2. f' = f
      BY <1>1
    <3>3. /\ Plan!Off(f, f.min - 1)' = Plan!Off(f, f.min - 1)
          /\ Plan!Off(f, f.max + 1)' = Plan!Off(f, f.max + 1)
          /\ Plan!Off(f, f.size - 1)' = Plan!Off(f, f.size - 1)
          /\ Plan!Off(f, f.size + 1)' = Plan!Off(f, f.size + 1)
      BY <3>2 DEF Plan!Off
    <3>4. /\ Plan!Absent' = Plan!Absent /\ Plan!WrongType' = Plan!WrongType
          /\ Plan!NonexistentId' = Plan!NonexistentId /\ Plan!Base[x]' = Plan!Base[x]
      BY <1>2
    <3> QED
      BY <3>2, <3>3, <3>4 DEF IsNegative
  <2>2. (\A x, case : case \in Plan!NegativesOf(x) <=>
           \E rule, value, flip : IsNegative(x, rule, value, flip) /\ case = Plan!Negative(x, rule, value, flip))'
    BY NegativesSame, PTL
  <2> SUFFICES ASSUME NEW x, NEW case
               PROVE  case \in Plan!NegativesOf(x)' <=> case \in Plan!NegativesOf(x)
    OBVIOUS
  <2>3. case \in Plan!NegativesOf(x)' <=>
          \E rule, value, flip :
             IsNegative(x, rule, value, flip)' /\ case = Plan!Negative(x, rule, value, flip)'
    BY <2>2
  <2>4. case \in Plan!NegativesOf(x) <=>
          \E rule, value, flip :
             IsNegative(x, rule, value, flip) /\ case = Plan!Negative(x, rule, value, flip)
    BY NegativesAre
  <2>5. ASSUME NEW rule, NEW value, NEW flip
        PROVE  /\ IsNegative(x, rule, value, flip)' <=> IsNegative(x, rule, value, flip)
               /\ Plan!Negative(x, rule, value, flip)' = Plan!Negative(x, rule, value, flip)
    BY <1>6, <2>1
  <2> QED
    BY <2>3, <2>4, <2>5
<1>8. Plan!PlanCases' = Plan!PlanCases
  BY <1>4, <1>5, <1>7, Zenon DEF Plan!PlanCases
<1>9. Plan!Faults' = Plan!Faults
  <2>1. \A y : Plan!Heads(route.rules[y])' = Plan!Heads(route.rules[y])
    BY DEF Plan!Heads
  <2> QED
    BY <2>1 DEF Plan!Faults
<1>10. RouteType' = RouteType
  BY DEF RouteType
<1> QED
  BY <1>8, <1>9, <1>10

LEMMA PlanInitially ==
  ASSUME Plan!Init
  PROVE  PlanSuite
<1>1. RouteType
  BY DEF Plan!Init, RouteType
<1>2. suite = Plan!Empty /\ report = Plan!Empty /\ app = <<"none">>
  BY DEF Plan!Init
<1>3. app \in Plan!Faults
  BY <1>2 DEF Plan!Faults
<1> QED
  BY <1>1, <1>2, <1>3 DEF PlanSuite

LEMMA PlanGenerate ==
  ASSUME PlanSuite, Plan!Generate
  PROVE  PlanSuite'
<1> DEFINE keys == {Plan!CaseKey(c) : c \in Plan!PlanCases}
<1>1. suite = Plan!Empty /\ UNCHANGED <<route, app, report>> /\ DOMAIN suite' = keys
  BY DEF Plan!Generate
<1>2. RouteType /\ app \in Plan!Faults /\ report = Plan!Empty
  BY <1>1 DEF PlanSuite
<1>3. Plan!PlanCases' = Plan!PlanCases /\ Plan!Faults' = Plan!Faults /\ RouteType' = RouteType
  BY <1>1, PlanStays
<1>4. ASSUME NEW k \in keys
      PROVE  suite'[k].case \in Plan!PlanCases /\ Plan!CaseKey(suite'[k].case) = k
  <2>1. PICK c0 \in Plan!PlanCases : Plan!CaseKey(c0) = k
    BY <1>4
  <2>2. suite'[k].case = CHOOSE c \in Plan!PlanCases : Plan!CaseKey(c) = k
    BY <1>4, SMT DEF Plan!Generate
  <2> QED
    BY <2>1, <2>2, Zenon
<1>5. ASSUME NEW k \in keys
      PROVE  suite'[k].script \in {"runs", "skips", "broken"}
  <2>1. PICK script \in {Plan!RenderScript(a, b) : a, b \in Plan!Answers} :
          suite'[k].script = script \/ suite'[k].script = Plan!RenderScript("class", "class")
    BY <1>5, SMT DEF Plan!Generate
  <2>2. PICK a \in Plan!Answers, b \in Plan!Answers : script = Plan!RenderScript(a, b)
    OBVIOUS
  <2>3. "class" \in Plan!Answers
    BY DEF Plan!Answers
  <2> QED
    BY <1>2, <2>1, <2>2, <2>3, ScriptsAre
<1> QED
  BY <1>1, <1>2, <1>3, <1>4, <1>5 DEF PlanSuite, Plan!CaseKey, Plan!Empty

LEMMA PlanChange ==
  ASSUME PlanSuite, Plan!Change
  PROVE  PlanSuite'
<1>1. /\ suite # Plan!Empty /\ app' \in Plan!Faults /\ report' = Plan!Empty /\ UNCHANGED <<route, suite>>
  BY DEF Plan!Change
<1>2. Plan!PlanCases' = Plan!PlanCases /\ Plan!Faults' = Plan!Faults /\ RouteType' = RouteType
  BY <1>1, PlanStays
<1> QED
  BY <1>1, <1>2 DEF PlanSuite, Plan!CaseKey, Plan!Empty

\* A run's verdicts are those of the application that it leaves as it is.
LEMMA VerdictsStay ==
  ASSUME UNCHANGED <<route, app>>
  PROVE  \A test : Plan!Verdict(test)' = Plan!Verdict(test)
<1>1. \A x : Plan!FieldOf(x)' = Plan!FieldOf(x) /\ Plan!Enforced(x)' = Plan!Enforced(x)
  BY DEF Plan!FieldOf, Plan!Enforced
<1>2. \A case : Plan!Errors(case)' = Plan!Errors(case)
  BY <1>1 DEF Plan!Errors
<1>3. \A case : Plan!Respond(case)' = Plan!Respond(case)
  BY <1>2 DEF Plan!Respond
<1>4. Plan!Echo' = Plan!Echo
  BY <1>1 DEF Plan!Echo
<1>5. \A case, response : Plan!Asserts(case, response)' = Plan!Asserts(case, response)
  BY <1>2, <1>4, Zenon DEF Plan!Asserts, Plan!Returned
<1> QED
  BY <1>3, <1>5 DEF Plan!Verdict

LEMMA PlanUnchanged ==
  ASSUME PlanSuite, UNCHANGED <<route, suite, app, report>>
  PROVE  PlanSuite'
<1>1. Plan!PlanCases' = Plan!PlanCases /\ Plan!Faults' = Plan!Faults /\ RouteType' = RouteType
  BY PlanStays
<1>2. \A test : Plan!Verdict(test)' = Plan!Verdict(test)
  BY VerdictsStay
<1>3. [k \in DOMAIN suite |-> Plan!Verdict(suite[k])]' = [k \in DOMAIN suite |-> Plan!Verdict(suite[k])]
  BY <1>2
<1> QED
  BY <1>1, <1>3 DEF PlanSuite, Plan!CaseKey, Plan!Empty

LEMMA PlanRun ==
  ASSUME PlanSuite, Plan!Run
  PROVE  PlanSuite'
<1>1. /\ suite # Plan!Empty /\ report' = [k \in DOMAIN suite |-> Plan!Verdict(suite[k])]
      /\ UNCHANGED <<route, suite, app>>
  BY DEF Plan!Run
<1>2. Plan!PlanCases' = Plan!PlanCases /\ Plan!Faults' = Plan!Faults /\ RouteType' = RouteType
  BY <1>1, PlanStays
<1>3. \A test : Plan!Verdict(test)' = Plan!Verdict(test)
  BY <1>1, VerdictsStay
<1>4. [k \in DOMAIN suite |-> Plan!Verdict(suite[k])]' = report'
  BY <1>1, <1>3
<1> QED
  BY <1>1, <1>2, <1>4 DEF PlanSuite, Plan!CaseKey, Plan!Empty

\* The tests of an endpoint are the plan of its rules under their keys, and a report is of
\* them on the application as it is (generate_and_persist and the run that follows).
THEOREM PlanSuiteHolds == Spec => [](focus = "plan" => PlanSuite)
<1>1. Init => (focus = "plan" => PlanSuite)
  BY PlanInitially DEF Init
<1>2. (focus = "plan" => PlanSuite) /\ [Next]_vars => (focus = "plan" => PlanSuite)'
  <2> SUFFICES ASSUME focus = "plan" => PlanSuite, [Next]_vars, focus' = "plan"
               PROVE  PlanSuite'
    OBVIOUS
  <2>1. CASE UNCHANGED vars
    <3>1. focus = "plan" /\ UNCHANGED <<route, suite, app, report>>
      BY <2>1 DEF vars, planVars
    <3> QED
      BY <3>1, PlanUnchanged
  <2>2. CASE Next
    <3>1. focus = "plan" /\ Plan!Next
      BY <2>2 DEF Next
    <3> QED
      BY <3>1, PlanGenerate, PlanChange, PlanRun DEF Plan!Next
  <2> QED
    BY <2>1, <2>2
<1> QED
  BY <1>1, <1>2, PTL DEF Spec

\* While the application does what its rules say no test of an endpoint fails but an empty
\* probe, and each fault that a test must tell fails one: the part of ProposalsAreFair that
\* is about plan_cases and the verdicts of its tests, for every set of rules.
THEOREM SuiteIsFairHolds == Spec => [](focus = "plan" => Plan!SuiteIsFair)
<1>1. PlanSuite => Plan!SuiteIsFair
  BY SuiteIsFairFollows
<1> QED
  BY <1>1, PlanSuiteHolds, PTL

\* A suite, its report and the application's fault are of their types.
THEOREM PlanTypesHold == Spec => [](focus = "plan" => Plan!PlanTypeOK)
<1>1. PlanSuite => Plan!PlanTypeOK
  <2> SUFFICES ASSUME PlanSuite PROVE Plan!PlanTypeOK
    OBVIOUS
  <2>1. route.rules \in RuleSets /\ app \in Plan!Faults
    BY DEF PlanSuite, RouteType
  <2>2. \A k \in DOMAIN suite : suite[k].script \in {"runs", "skips", "broken"}
    <3>1. DOMAIN Plan!Empty = {}
      BY DEF Plan!Empty
    <3> QED
      BY <3>1 DEF PlanSuite
  <2>3. DOMAIN report \in {{}, DOMAIN suite}
    <3>1. DOMAIN Plan!Empty = {}
      BY DEF Plan!Empty
    <3>2. CASE report = Plan!Empty
      BY <3>1, <3>2
    <3>3. CASE report # Plan!Empty
      BY <3>3 DEF PlanSuite
    <3> QED
      BY <3>2, <3>3
  <2> QED
    BY <2>1, <2>2, <2>3 DEF Plan!PlanTypeOK
<1> QED
  BY <1>1, PlanSuiteHolds, PTL

-----------------------------------------------------------------------------
(* The journey of a page: the walk. *)

LEMMA JourneyCardinality == \A S : Journey!Cardinality(S) = Cardinality(S)
BY DEF Journey!Cardinality, Cardinality

\* What lies at the end of an edge out of some nodes, and what lies within a hop more.
EndsOf(g, sources) == {edge[2] : edge \in {edge \in g.edges : edge[1] \in sources}}
HopBody(g, root, f, n) ==
  IF n = 0 THEN {root} ELSE f[n - 1] \cup EndsOf(g, f[n - 1])

\* What lies within so many hops of a root in a graph.
HopsOf(g, root) ==
  LET Within[n \in 0 .. MaxDepth] ==
        IF n = 0 THEN {root}
        ELSE Within[n - 1] \cup {edge[2] : edge \in {edge \in g.edges : edge[1] \in Within[n - 1]}}
  IN Within

LEMMA HopsUpTo ==
  ASSUME NEW m \in Nat, NEW g, NEW root
  PROVE  \E f : f = [n \in 0 .. m |-> HopBody(g, root, f, n)]
<1> DEFINE Bad == {k \in Nat : ~ \E f : f = [n \in 0 .. k |-> HopBody(g, root, f, n)]}
<1> SUFFICES ASSUME Bad # {} PROVE FALSE
  OBVIOUS
<1>1. PICK k \in Bad : \A j \in Bad : k <= j
  BY NatLeast
<1>2. k # 0
  <2> SUFFICES ASSUME k = 0 PROVE FALSE
    OBVIOUS
  <2> DEFINE f == [n \in 0 .. 0 |-> {root}]
  <2>1. f = [n \in 0 .. 0 |-> HopBody(g, root, f, n)]
    BY DEF HopBody
  <2> QED
    BY <2>1, <1>1
<1>3. k - 1 \in Nat /\ k - 1 \notin Bad
  BY <1>1, <1>2
<1>4. PICK h : h = [n \in 0 .. k - 1 |-> HopBody(g, root, h, n)]
  BY <1>3
<1> DEFINE f == [n \in 0 .. k |-> IF n < k THEN h[n] ELSE HopBody(g, root, h, k)]
<1>5. \A n \in 0 .. k : HopBody(g, root, f, n) = HopBody(g, root, h, n)
  <2> SUFFICES ASSUME NEW n \in 0 .. k, n # 0 PROVE f[n - 1] = h[n - 1]
    BY DEF HopBody
  <2> QED
    OBVIOUS
<1>6. \A n \in 0 .. k : f[n] = HopBody(g, root, h, n)
  <2> SUFFICES ASSUME NEW n \in 0 .. k PROVE f[n] = HopBody(g, root, h, n)
    OBVIOUS
  <2>1. CASE n < k
    <3>1. n \in 0 .. k - 1
      BY <2>1
    <3> QED
      BY <2>1, <3>1, <1>4
  <2>2. CASE n = k
    BY <2>2
  <2> QED
    BY <2>1, <2>2
<1>7. f = [n \in 0 .. k |-> HopBody(g, root, f, n)]
  BY <1>5, <1>6
<1> QED
  BY <1>1, <1>7

LEMMA HopsAreDefined ==
  Journey!Within = [n \in 0 .. MaxDepth |-> HopBody(reach, walk.root, Journey!Within, n)]
<1>1. MaxDepth \in Nat
  BY BrainBoundsAssumption
<1>2. \E f : f = [n \in 0 .. MaxDepth |-> HopBody(reach, walk.root, f, n)]
  BY <1>1, HopsUpTo
<1>3. \E f : f = [n \in 0 .. MaxDepth |->
        IF n = 0 THEN {walk.root}
        ELSE f[n - 1] \cup {edge[2] : edge \in {edge \in reach.edges : edge[1] \in f[n - 1]}}]
  BY <1>2, Zenon DEF HopBody, EndsOf
<1>4. Journey!Within = [n \in 0 .. MaxDepth |->
        IF n = 0 THEN {walk.root}
        ELSE Journey!Within[n - 1] \cup
             {edge[2] : edge \in {edge \in reach.edges : edge[1] \in Journey!Within[n - 1]}}]
  BY <1>3, Zenon DEF Journey!Within, Journey!Targets, Journey!OutEdges
<1> QED
  BY <1>4, Zenon DEF HopBody, EndsOf

\* A hop more reaches the ends of the edges out of what was within.
LEMMA HopFacts ==
  /\ Journey!Within[0] = {walk.root}
  /\ \A n \in 0 .. MaxDepth : n < MaxDepth =>
       Journey!Within[n + 1] = Journey!Within[n] \cup Journey!Targets(Journey!OutEdges(Journey!Within[n]))
<1>1. MaxDepth \in Nat
  BY BrainBoundsAssumption
<1>2. Journey!Within[0] = {walk.root}
  <2>1. 0 \in 0 .. MaxDepth
    BY <1>1
  <2>2. Journey!Within[0] = HopBody(reach, walk.root, Journey!Within, 0)
    BY <2>1, HopsAreDefined
  <2> QED
    BY <2>2 DEF HopBody
<1>3. ASSUME NEW n \in 0 .. MaxDepth, n < MaxDepth
      PROVE  Journey!Within[n + 1] =
               Journey!Within[n] \cup Journey!Targets(Journey!OutEdges(Journey!Within[n]))
  <2>1. n + 1 \in 0 .. MaxDepth /\ n + 1 # 0 /\ (n + 1) - 1 = n
    BY <1>1, <1>3
  <2>2. Journey!Within[n + 1] = HopBody(reach, walk.root, Journey!Within, n + 1)
    BY <2>1, HopsAreDefined
  <2>3. Journey!Within[n + 1] = Journey!Within[n] \cup EndsOf(reach, Journey!Within[n])
    BY <2>1, <2>2 DEF HopBody
  <2> QED
    BY <2>3, Zenon DEF EndsOf, Journey!Targets, Journey!OutEdges
<1> QED
  BY <1>2, <1>3

\* Nothing more is within reach of what has no edge that leads out of it.
LEMMA HopsEnd ==
  ASSUME NEW d \in 0 .. MaxDepth,
         Journey!Targets(Journey!OutEdges(Journey!Within[d])) \subseteq Journey!Within[d]
  PROVE  \A e \in d .. MaxDepth : Journey!Within[e] = Journey!Within[d]
<1> DEFINE Bad == {k \in d .. MaxDepth : Journey!Within[k] # Journey!Within[d]}
<1> SUFFICES ASSUME Bad # {} PROVE FALSE
  OBVIOUS
<1>1. MaxDepth \in Nat /\ d \in Nat
  BY BrainBoundsAssumption
<1>2. PICK k \in Bad : \A j \in Bad : k <= j
  <2>1. Bad \subseteq Nat
    BY <1>1
  <2> QED
    BY <2>1, NatLeast
<1>3. k # d
  BY <1>2
<1>4. /\ k - 1 \in 0 .. MaxDepth /\ k - 1 \in d .. MaxDepth /\ k - 1 < MaxDepth
      /\ (k - 1) + 1 = k /\ k - 1 \notin Bad
  BY <1>1, <1>2, <1>3
<1>5. Journey!Within[k - 1] = Journey!Within[d]
  BY <1>4
<1>6. Journey!Within[k] =
        Journey!Within[k - 1] \cup Journey!Targets(Journey!OutEdges(Journey!Within[k - 1]))
  BY <1>4, HopFacts
<1> QED
  BY <1>2, <1>5, <1>6

\* What is within reach changes only with the graph and the root.
LEMMA HopsStay ==
  ASSUME UNCHANGED <<reach, walk.root>>
  PROVE  Journey!Within' = Journey!Within
<1>1. Journey!Within = HopsOf(reach, walk.root)
  BY Zenon DEF Journey!Within, Journey!Targets, Journey!OutEdges, HopsOf
<1>2. Journey!Within' = HopsOf(reach', walk'.root)
  BY Zenon DEF Journey!Within, Journey!Targets, Journey!OutEdges, HopsOf
<1>3. reach' = reach /\ walk'.root = walk.root
  OBVIOUS
<1> QED
  BY <1>1, <1>2, <1>3, Zenon

WalkType ==
  /\ reach \in Graphs
  /\ walk \in [pc : {"idle", "edges", "nodes", "done"}, root : BrainNodes \cup {"none"},
               depth : 0 .. MaxDepth, nodes : SUBSET BrainNodes, edges : SUBSET (BrainNodes \X BrainNodes),
               frontier : SUBSET BrainNodes, discovered : SUBSET BrainNodes, settled : BOOLEAN]

\* A walk is bounded and of one piece: an edge that was read leads to every node of it, and
\* to every one that was discovered.
WalkBound == Cardinality(walk.nodes) <= MaxNodes
WalkWhole ==
  \A node \in (walk.nodes \cup walk.discovered) \ {walk.root} :
    \E edge \in walk.edges : edge[1] \in walk.nodes /\ edge[2] = node
\* Between its two queries it has room.
WalkStage ==
  /\ walk.frontier \subseteq walk.nodes
  /\ walk.pc = "nodes" =>
       /\ walk.discovered \cap walk.nodes = {} /\ walk.depth < MaxDepth
       /\ Cardinality(walk.nodes) < MaxNodes
  /\ walk.pc # "nodes" => walk.discovered = {}

\* What was read: all that is within as many hops as were made, and the edges out of what
\* was within one less.
WalkRead ==
  /\ walk.nodes = Journey!Within[walk.depth]
  /\ walk.nodes \ walk.frontier = IF walk.depth = 0 THEN {} ELSE Journey!Within[walk.depth - 1]
  /\ walk.pc = "edges" => walk.edges = Journey!OutEdges(walk.nodes \ walk.frontier)
  /\ walk.pc = "nodes" =>
       /\ walk.edges = Journey!OutEdges(walk.nodes)
       /\ walk.discovered = Journey!Targets(Journey!OutEdges(walk.frontier)) \ walk.nodes
  /\ Journey!Targets(Journey!OutEdges(walk.nodes \ walk.frontier)) \subseteq walk.nodes
WalkExact ==
  walk.settled /\ Cardinality(walk.nodes) < MaxNodes =>
    /\ walk.pc \in {"edges", "nodes"} => WalkRead
    /\ walk.pc = "done" =>
         /\ walk.nodes = Journey!Within[MaxDepth]
         /\ walk.edges = IF MaxDepth = 0 THEN {} ELSE Journey!OutEdges(Journey!Within[MaxDepth - 1])

WalkInv ==
  /\ WalkType /\ WalkBound /\ WalkWhole /\ WalkStage /\ WalkExact

LEMMA WalkFinite ==
  ASSUME NEW ns \in SUBSET BrainNodes
  PROVE  IsFiniteSet(ns) /\ Cardinality(ns) \in Nat
BY GraphsAssumption, FS_Subset, FS_CardinalityType

LEMMA WalkGraph ==
  ASSUME WalkType
  PROVE  /\ reach.nodes \subseteq BrainNodes /\ reach.edges \subseteq reach.nodes \X reach.nodes
         /\ \A ns : Journey!OutEdges(ns) \in SUBSET (BrainNodes \X BrainNodes)
         /\ \A ns : Journey!Targets(Journey!OutEdges(ns)) \subseteq reach.nodes
<1>1. reach.nodes \subseteq BrainNodes /\ reach.edges \subseteq reach.nodes \X reach.nodes
  BY GraphsAssumption DEF WalkType
<1>2. \A ns : Journey!OutEdges(ns) \subseteq reach.edges
  BY DEF Journey!OutEdges
<1>3. \A es \in SUBSET (reach.nodes \X reach.nodes) : Journey!Targets(es) \subseteq reach.nodes
  BY DEF Journey!Targets
<1>4. reach.nodes \X reach.nodes \subseteq BrainNodes \X BrainNodes
  BY <1>1
<1>5. ASSUME NEW ns PROVE Journey!OutEdges(ns) \in SUBSET (reach.nodes \X reach.nodes)
  BY <1>1, <1>2
<1> QED
  BY <1>1, <1>3, <1>4, <1>5

\* The least of two numbers.
LEMMA LeastOfTwo ==
  ASSUME NEW a \in Nat, NEW b \in Nat
  PROVE  Journey!Min({a, b}) = IF a <= b THEN a ELSE b
<1>1. \E x \in {a, b} : \A y \in {a, b} : x =< y
  OBVIOUS
<1>2. Journey!Min({a, b}) \in {a, b} /\ \A y \in {a, b} : Journey!Min({a, b}) =< y
  BY <1>1, Zenon DEF Journey!Min
<1> QED
  BY <1>2

\* A walk that is thrown away, and one that begins.
LEMMA NoWalkHolds ==
  ASSUME reach \in Graphs, walk = Journey!NoWalk
  PROVE  WalkInv
<1>1. 0 \in 0 .. MaxDepth /\ Cardinality({}) = 0 /\ MaxNodes \in Nat
  BY BrainBoundsAssumption, JourneyBoundsAssumption, FS_EmptySet
<1>2. WalkType
  BY <1>1 DEF WalkType, Journey!NoWalk
<1>3. WalkBound /\ WalkWhole /\ WalkStage /\ WalkExact
  BY <1>1 DEF WalkBound, WalkWhole, WalkStage, WalkExact, Journey!NoWalk
<1> QED
  BY <1>2, <1>3 DEF WalkInv

LEMMA NewWalkHolds ==
  ASSUME reach \in Graphs, NEW root \in reach.nodes,
         walk = [Journey!NoWalk EXCEPT !.pc = "edges", !.root = root, !.nodes = {root}, !.frontier = {root}]
  PROVE  WalkInv
<1>1. /\ 0 \in 0 .. MaxDepth /\ MaxDepth \in Nat /\ Cardinality({root}) = 1 /\ MaxNodes \in Nat \ {0}
  BY BrainBoundsAssumption, JourneyBoundsAssumption, FS_Singleton
<1>2. root \in BrainNodes
  BY GraphsAssumption
<1>3. /\ walk.pc = "edges" /\ walk.root = root /\ walk.depth = 0 /\ walk.nodes = {root} /\ walk.edges = {}
      /\ walk.frontier = {root} /\ walk.discovered = {} /\ walk.settled
  BY DEF Journey!NoWalk
<1>4. WalkType
  BY <1>1, <1>2 DEF WalkType, Journey!NoWalk
<1>5. WalkBound /\ WalkWhole /\ WalkStage
  BY <1>1, <1>3 DEF WalkBound, WalkWhole, WalkStage
<1>6. WalkExact
  <2>1. Journey!OutEdges({}) = {} /\ Journey!Targets({}) = {}
    BY DEF Journey!OutEdges, Journey!Targets
  <2>2. Journey!Within[0] = {root}
    BY <1>3, HopFacts
  <2>3. {root} \ {root} = {}
    OBVIOUS
  <2> QED
    BY <1>3, <2>1, <2>2, <2>3 DEF WalkExact, WalkRead
<1> QED
  BY <1>4, <1>5, <1>6 DEF WalkInv

LEMMA WalkParts ==
  ASSUME WalkInv
  PROVE  WalkType /\ WalkBound /\ WalkWhole /\ WalkStage /\ WalkExact
BY DEF WalkInv

\* The edges are read: the walk ends, or looks for what they lead to.
LEMMA ReadEdgesHolds ==
  ASSUME WalkInv, Journey!ReadEdges
  PROVE  WalkInv'
<1> USE WalkParts
<1>1. walk.pc = "edges" /\ UNCHANGED <<reach, forms, suite, app, report>> /\ MaxDepth \in Nat
  BY BrainBoundsAssumption DEF Journey!ReadEdges
<1>2. walk.depth \in 0 .. MaxDepth /\ MaxNodes \in Nat /\ Cardinality(walk.nodes) \in Nat
  BY WalkFinite, JourneyBoundsAssumption DEF WalkType
<1>3. CASE walk.frontier = {} \/ Cardinality(walk.nodes) >= MaxNodes \/ walk.depth = MaxDepth
  <2>1. walk' = [walk EXCEPT !.pc = "done"]
    BY <1>3, JourneyCardinality DEF Journey!ReadEdges
  <2>3. /\ walk'.pc = "done" /\ walk'.root = walk.root /\ walk'.depth = walk.depth /\ walk'.nodes = walk.nodes
        /\ walk'.edges = walk.edges /\ walk'.frontier = walk.frontier
        /\ walk'.discovered = walk.discovered /\ walk'.settled = walk.settled
    BY <2>1 DEF WalkType
  <2>4. WalkType'
    BY <1>1, <2>1 DEF WalkType
  <2>5. WalkBound' /\ WalkWhole' /\ WalkStage'
    BY <1>1, <2>3 DEF WalkBound, WalkWhole, WalkStage
  <2>6. WalkExact'
    <3>1. Journey!Within' = Journey!Within
      BY <1>1, <2>3, HopsStay
    <3> SUFFICES ASSUME walk.settled, Cardinality(walk.nodes) < MaxNodes
                 PROVE  /\ walk.nodes = Journey!Within[MaxDepth]
                        /\ walk.edges = IF MaxDepth = 0 THEN {}
                                        ELSE Journey!OutEdges(Journey!Within[MaxDepth - 1])
      BY <1>1, <2>3, <3>1 DEF WalkExact, Journey!OutEdges
    <3>2. WalkRead
      BY <1>1 DEF WalkExact
    <3>3. walk.frontier = {} \/ walk.depth = MaxDepth
      BY <1>2, <1>3
    <3>4. CASE walk.depth = MaxDepth
      <4>1. CASE MaxDepth = 0
        <5>1. Journey!OutEdges({}) = {}
          BY DEF Journey!OutEdges
        <5> QED
          BY <1>1, <3>2, <3>4, <4>1, <5>1 DEF WalkRead
      <4>2. CASE MaxDepth # 0
        BY <1>1, <3>2, <3>4, <4>2 DEF WalkRead
      <4> QED
        BY <4>1, <4>2
    <3>5. CASE walk.frontier = {} /\ walk.depth # MaxDepth
      <4>1. walk.nodes \ walk.frontier = walk.nodes
        BY <3>5
      <4>2. walk.edges = Journey!OutEdges(walk.nodes)
            /\ Journey!Targets(Journey!OutEdges(walk.nodes)) \subseteq walk.nodes
            /\ walk.nodes = Journey!Within[walk.depth]
        BY <1>1, <3>2, <4>1 DEF WalkRead
      <4>3. \A e \in walk.depth .. MaxDepth : Journey!Within[e] = walk.nodes
        BY <1>2, <4>2, HopsEnd
      <4>4. MaxDepth \in walk.depth .. MaxDepth /\ MaxDepth - 1 \in walk.depth .. MaxDepth /\ MaxDepth # 0
        BY <1>1, <1>2, <3>5
      <4> QED
        BY <4>2, <4>3, <4>4
    <3> QED
      BY <3>3, <3>4, <3>5
  <2> QED
    BY <2>4, <2>5, <2>6 DEF WalkInv
<1>4. CASE ~(walk.frontier = {} \/ Cardinality(walk.nodes) >= MaxNodes \/ walk.depth = MaxDepth)
  <2> DEFINE out == Journey!OutEdges(walk.frontier)
             found == Journey!Targets(out) \ walk.nodes
  <2>1. walk' = [walk EXCEPT !.pc = "nodes", !.edges = @ \cup out, !.discovered = found]
    BY <1>4, JourneyCardinality DEF Journey!ReadEdges
  <2>2. out \in SUBSET (BrainNodes \X BrainNodes) /\ found \in SUBSET BrainNodes
    BY WalkGraph
  <2>3. \A node \in found : \E edge \in out : edge[1] \in walk.frontier /\ edge[2] = node
    BY DEF Journey!Targets, Journey!OutEdges
  <2>4. out \cup Journey!OutEdges(walk.nodes \ walk.frontier) = Journey!OutEdges(walk.nodes)
    <3>1. walk.frontier \subseteq walk.nodes
      BY DEF WalkStage
    <3>2. \A a, b : a \subseteq b => Journey!OutEdges(a) \cup Journey!OutEdges(b \ a) = Journey!OutEdges(b)
      BY DEF Journey!OutEdges
    <3> QED
      BY <3>1, <3>2, Zenon
  <2>5. found = Journey!Targets(Journey!OutEdges(walk.frontier)) \ walk.nodes
        /\ out = Journey!OutEdges(walk.frontier)
    OBVIOUS
  <2> HIDE DEF out, found
  <2>6. /\ walk'.pc = "nodes" /\ walk'.root = walk.root /\ walk'.depth = walk.depth
        /\ walk'.nodes = walk.nodes /\ walk'.edges = walk.edges \cup out
        /\ walk'.frontier = walk.frontier /\ walk'.discovered = found /\ walk'.settled = walk.settled
    BY <2>1 DEF WalkType
  <2>7. WalkType'
    BY <1>1, <2>1, <2>2 DEF WalkType
  <2>8. WalkBound'
    BY <2>6 DEF WalkBound
  <2>9. WalkStage'
    <3>1. found \cap walk.nodes = {}
      BY <2>5
    <3>2. walk.depth < MaxDepth /\ Cardinality(walk.nodes) < MaxNodes
      BY <1>1, <1>2, <1>4
    <3>3. walk.frontier \subseteq walk.nodes
      BY DEF WalkStage
    <3> QED
      BY <2>6, <3>1, <3>2, <3>3 DEF WalkStage
  <2>10. WalkWhole'
    BY <2>3, <2>6 DEF WalkWhole, WalkStage
  <2>11. WalkExact'
    <3>1. Journey!Within' = Journey!Within
      BY <1>1, <2>6, HopsStay
    <3> SUFFICES ASSUME walk.settled, Cardinality(walk.nodes) < MaxNodes PROVE WalkRead'
      BY <2>6 DEF WalkExact
    <3>2. WalkRead
      BY <1>1 DEF WalkExact
    <3>3. walk.edges \cup out = Journey!OutEdges(walk.nodes)
      BY <1>1, <3>2, <2>4 DEF WalkRead, WalkStage
    <3>4. reach'.edges = reach.edges
      BY <1>1
    <3>5. Journey!OutEdges(walk.nodes)' = Journey!OutEdges(walk.nodes)
      BY <2>6, <3>4 DEF Journey!OutEdges
    <3>6. Journey!OutEdges(walk.frontier)' = Journey!OutEdges(walk.frontier)
      BY <2>6, <3>4 DEF Journey!OutEdges
    <3>7. Journey!OutEdges(walk.nodes \ walk.frontier)' = Journey!OutEdges(walk.nodes \ walk.frontier)
      BY <2>6, <3>4 DEF Journey!OutEdges
    <3> QED
      BY <2>5, <2>6, <3>1, <3>2, <3>3, <3>5, <3>6, <3>7 DEF WalkRead, Journey!Targets
  <2> QED
    BY <2>7, <2>8, <2>9, <2>10, <2>11 DEF WalkInv
<1> QED
  BY <1>3, <1>4

\* The nodes are read: all that are still there, or as many as there is room for.
LEMMA ReadNodesHolds ==
  ASSUME WalkInv, Journey!ReadNodes
  PROVE  WalkInv'
<1> USE WalkParts
<1> DEFINE there == walk.discovered \cap reach.nodes
           room == Journey!Min({Journey!Cardinality(there), MaxNodes - Journey!Cardinality(walk.nodes)})
<1>1. walk.pc = "nodes" /\ UNCHANGED <<reach, forms, suite, app, report>> /\ MaxDepth \in Nat
  BY BrainBoundsAssumption DEF Journey!ReadNodes
<1>2. PICK taken \in Journey!kSubset(room, there) :
        walk' = [walk EXCEPT !.pc = "edges", !.depth = @ + 1, !.discovered = {},
                             !.nodes = @ \cup taken, !.frontier = taken]
  BY Zenon DEF Journey!ReadNodes
<1>3. /\ there \in SUBSET BrainNodes /\ walk.nodes \in SUBSET BrainNodes
      /\ walk.depth \in 0 .. MaxDepth /\ walk.depth < MaxDepth
      /\ walk.discovered \cap walk.nodes = {} /\ there \subseteq walk.discovered
  BY <1>1 DEF WalkType, WalkStage
<1>4. /\ Cardinality(there) \in Nat /\ Cardinality(walk.nodes) \in Nat /\ MaxNodes \in Nat
      /\ Cardinality(walk.nodes) < MaxNodes /\ IsFiniteSet(there) /\ IsFiniteSet(walk.nodes)
  BY <1>1, <1>3, WalkFinite, JourneyBoundsAssumption DEF WalkStage
<1>5. /\ taken \subseteq there /\ Cardinality(taken) = room
      /\ room = IF Cardinality(there) <= MaxNodes - Cardinality(walk.nodes)
                THEN Cardinality(there) ELSE MaxNodes - Cardinality(walk.nodes)
  <2>1. MaxNodes - Cardinality(walk.nodes) \in Nat
    BY <1>4
  <2>2. room = Journey!Min({Cardinality(there), MaxNodes - Cardinality(walk.nodes)})
    BY JourneyCardinality, Zenon
  <2>3. room = IF Cardinality(there) <= MaxNodes - Cardinality(walk.nodes)
               THEN Cardinality(there) ELSE MaxNodes - Cardinality(walk.nodes)
    BY <1>4, <2>1, <2>2, LeastOfTwo
  <2>4. taken \in SUBSET there /\ Journey!Cardinality(taken) = room
    BY Zenon DEF Journey!kSubset
  <2> QED
    BY <2>3, <2>4, JourneyCardinality
<1> HIDE DEF room
<1>6. Cardinality(walk.nodes \cup taken) = Cardinality(walk.nodes) + Cardinality(taken)
  <2>1. IsFiniteSet(taken) /\ taken \in SUBSET BrainNodes
    BY <1>3, <1>5, WalkFinite
  <2>2. walk.nodes \cap taken = {} /\ Cardinality({}) = 0 /\ Cardinality(taken) \in Nat
    BY <1>3, <1>5, <2>1, FS_EmptySet, WalkFinite
  <2>3. Cardinality(walk.nodes \cup taken) =
          Cardinality(walk.nodes) + Cardinality(taken) - Cardinality(walk.nodes \cap taken)
    BY <1>4, <2>1, FS_Union
  <2>4. Cardinality(walk.nodes \cap taken) = 0
    BY <2>2
  <2> QED
    BY <1>4, <2>2, <2>3, <2>4
<1>7. /\ walk'.pc = "edges" /\ walk'.root = walk.root /\ walk'.depth = walk.depth + 1
      /\ walk'.nodes = walk.nodes \cup taken /\ walk'.edges = walk.edges
      /\ walk'.frontier = taken /\ walk'.discovered = {} /\ walk'.settled = walk.settled
  BY <1>2 DEF WalkType
<1>8. WalkType'
  <2>1. walk.depth + 1 \in 0 .. MaxDepth
    BY <1>1, <1>3
  <2>2. taken \subseteq BrainNodes
    BY <1>3, <1>5
  <2> QED
    BY <1>1, <1>2, <2>1, <2>2 DEF WalkType
<1>9. WalkBound' /\ WalkStage'
  BY <1>4, <1>5, <1>6, <1>7 DEF WalkBound, WalkStage
<1>10. WalkWhole'
  <2>1. taken \subseteq walk.discovered
    BY <1>5
  <2> QED
    BY <1>7, <2>1 DEF WalkWhole
<1>11. WalkExact'
  <2> SUFFICES ASSUME walk.settled, Cardinality(walk.nodes \cup taken) < MaxNodes PROVE WalkRead'
    BY <1>7 DEF WalkExact
  <2>1. Journey!Within' = Journey!Within
    BY <1>1, <1>7, HopsStay
  <2>2. WalkRead
    BY <1>1, <1>4 DEF WalkExact
  <2>3. walk.discovered \subseteq reach.nodes
    <3>1. walk.discovered = Journey!Targets(Journey!OutEdges(walk.frontier)) \ walk.nodes
      BY <1>1, <2>2 DEF WalkRead
    <3> QED
      BY <3>1, WalkGraph
  <2>4. taken = walk.discovered
    <3>1. there = walk.discovered
      BY <2>3
    <3>2. Cardinality(taken) = Cardinality(there)
      BY <1>4, <1>5, <1>6
    <3>3. taken \in SUBSET there
      BY <1>5
    <3>4. taken = there
      BY <1>4, <3>2, <3>3, FS_Subset
    <3> QED
      BY <3>1, <3>4
  <2>5. /\ walk.nodes = Journey!Within[walk.depth] /\ walk.edges = Journey!OutEdges(walk.nodes)
        /\ Journey!Targets(Journey!OutEdges(walk.nodes \ walk.frontier)) \subseteq walk.nodes
        /\ taken = Journey!Targets(Journey!OutEdges(walk.frontier)) \ walk.nodes
        /\ walk.frontier \subseteq walk.nodes
    BY <1>1, <2>2, <2>4 DEF WalkRead, WalkStage
  <2>6. walk.nodes \cup taken = walk.nodes \cup Journey!Targets(Journey!OutEdges(walk.nodes))
    BY <2>5 DEF Journey!Targets, Journey!OutEdges
  <2>7. walk.nodes \cup taken = Journey!Within[walk.depth + 1]
    BY <1>3, <2>5, <2>6, HopFacts
  <2>8. (walk.nodes \cup taken) \ taken = walk.nodes
    BY <2>5
  <2>9. Journey!Targets(Journey!OutEdges(walk.nodes)) \subseteq walk.nodes \cup taken
    BY <2>6
  <2>10. walk.depth + 1 # 0 /\ (walk.depth + 1) - 1 = walk.depth /\ reach'.edges = reach.edges
    BY <1>1, <1>3
  <2>11. \A ns : ns = walk'.nodes \ walk'.frontier =>
           /\ Journey!OutEdges(walk.nodes \ walk.frontier)' = Journey!OutEdges(ns)
           /\ Journey!Targets(Journey!OutEdges(walk.nodes \ walk.frontier))' = Journey!Targets(Journey!OutEdges(ns))
    BY <2>10 DEF Journey!Targets, Journey!OutEdges
  <2>12. /\ Journey!OutEdges(walk.nodes \ walk.frontier)' = Journey!OutEdges(walk.nodes)
         /\ Journey!Targets(Journey!OutEdges(walk.nodes \ walk.frontier))' = Journey!Targets(Journey!OutEdges(walk.nodes))
    BY <1>7, <2>8, <2>11
  <2> QED
    BY <1>7, <2>1, <2>5, <2>7, <2>8, <2>9, <2>10, <2>12 DEF WalkRead
<1> QED
  BY <1>8, <1>9, <1>10, <1>11 DEF WalkInv

\* An ingestion or a crawl replaces what the walk reads.
LEMMA ReindexHolds ==
  ASSUME WalkInv, Journey!Reindex
  PROVE  WalkInv'
<1> USE WalkParts
<1>1. /\ reach' \in Graphs /\ walk' = [walk EXCEPT !.settled = FALSE]
      /\ UNCHANGED <<forms, suite, app, report>>
  BY DEF Journey!Reindex
<1>2. /\ walk'.pc = walk.pc /\ walk'.root = walk.root /\ walk'.depth = walk.depth
      /\ walk'.nodes = walk.nodes /\ walk'.edges = walk.edges /\ walk'.frontier = walk.frontier
      /\ walk'.discovered = walk.discovered /\ walk'.settled = FALSE
  BY <1>1 DEF WalkType
<1>3. WalkType'
  BY <1>1 DEF WalkType
<1>4. WalkBound' /\ WalkStage' /\ WalkWhole' /\ WalkExact'
  BY <1>2 DEF WalkBound, WalkStage, WalkWhole, WalkExact
<1> QED
  BY <1>3, <1>4 DEF WalkInv

LEMMA DropHolds ==
  ASSUME WalkInv, walk' = Journey!NoWalk, UNCHANGED reach
  PROVE  WalkInv'
<1>1. reach' \in Graphs
  BY DEF WalkInv, WalkType
<1>2. reach \in Graphs /\ walk = Journey!NoWalk => WalkInv
  BY NoWalkHolds
<1>3. (reach \in Graphs /\ walk = Journey!NoWalk => WalkInv)'
  BY NoWalkHolds, PTL
<1> QED
  BY <1>1, <1>3 DEF Journey!NoWalk

-----------------------------------------------------------------------------
(* The journey of a page: its tests. *)

\* The current cases are those of the plan, once its gate took it; a report is of the cases
\* on the application as it is.
PageSuite ==
  /\ forms \in FormSets
  /\ suite = <<>> => report = <<>>
  /\ suite # <<>> => suite = Journey!Merged(Journey!Plan) /\ Journey!GateAccepts(Journey!Plan)
  /\ app \in Journey!Regressions \cup {Journey!AsCrawled}
  /\ report # <<>> => report = [key \in DOMAIN suite |-> Journey!Passes(suite[key], app)]

\* The greatest of some numbers up to another.
LEMMA NatGreatest ==
  ASSUME NEW n \in Nat, NEW S \in SUBSET (1 .. n), S # {}
  PROVE  Journey!Max(S) \in S /\ \A x \in S : x <= Journey!Max(S)
<1> DEFINE T == {n - x : x \in S}
<1>1. T \subseteq Nat /\ T # {}
  <2>1. \A x \in S : n - x \in Nat
    OBVIOUS
  <2>2. PICK x \in S : TRUE
    OBVIOUS
  <2>3. n - x \in T
    BY <2>2
  <2> QED
    BY <2>1, <2>3
<1>2. PICK t \in T : \A u \in T : t <= u
  BY <1>1, NatLeast
<1>3. PICK m \in S : t = n - m
  BY <1>2
<1>4. \A y \in S : m >= y
  <2> SUFFICES ASSUME NEW y \in S PROVE m >= y
    OBVIOUS
  <2>1. n - y \in T
    OBVIOUS
  <2>2. n - m <= n - y
    BY <1>2, <1>3, <2>1
  <2> QED
    BY <2>2
<1>5. Journey!Max(S) \in S /\ \A y \in S : Journey!Max(S) >= y
  BY <1>4, Zenon DEF Journey!Max
<1> QED
  BY <1>5

\* The cases of the plan: of a page without a form, and of every form of a page.
LEMMA PlanWithoutForms ==
  ASSUME forms = <<>>
  PROVE  DOMAIN Journey!Plan = {1} /\ Journey!Plan[1] = {Journey!Happy(0)}
<1>1. Journey!Plan = <<{Journey!Happy(0)}>>
  BY DEF Journey!Plan
<1> QED
  BY <1>1

LEMMA PlanOfForms ==
  ASSUME forms # <<>>
  PROVE  /\ DOMAIN Journey!Plan = DOMAIN forms
         /\ \A i \in DOMAIN forms :
              Journey!Plan[i] = {Journey!Happy(i)} \cup
                {Journey!RequiredMissing(i, name) : name \in Journey!RequiredNames(forms[i])}
<1>1. Journey!Plan =
        [i \in DOMAIN forms |-> {Journey!Happy(i)} \cup
           {Journey!RequiredMissing(i, name) : name \in Journey!RequiredNames(forms[i])}]
  BY Zenon DEF Journey!Plan
<1> QED
  BY <1>1

LEMMA FormIndices ==
  ASSUME forms \in FormSets
  PROVE  Len(forms) \in Nat /\ DOMAIN forms = 1 .. Len(forms) /\ 0 \notin DOMAIN forms
<1>1. forms \in Seq(Seq([name : STRING, required : BOOLEAN]))
  BY FormSetsAssumption
<1> QED
  BY <1>1

\* What a case fills in, and which of its form it leaves out.
LEMMA RequiredAreNames ==
  ASSUME NEW form
  PROVE  Journey!RequiredNames(form) \subseteq Journey!NameSet(Journey!FieldsOf(form))
BY DEF Journey!RequiredNames, Journey!Required, Journey!NameSet

LEMMA HappyPasses ==
  ASSUME forms \in FormSets, NEW i, i = 0 \/ i \in DOMAIN forms
  PROVE  Journey!Passes(Journey!Happy(i), Journey!AsCrawled)
<1>1. /\ Journey!Happy(i).form = i /\ Journey!Happy(i).kind = "recorded_state"
      /\ i # 0 => Journey!Happy(i).fills = Journey!NameSet(Journey!FieldsOf(forms[i]))
  BY DEF Journey!Happy
<1>2. /\ Journey!AsCrawled.renders
      /\ \A j \in DOMAIN forms : Journey!AsCrawled.requires[j] = Journey!RequiredNames(forms[j])
  BY DEF Journey!AsCrawled
<1>3. Journey!Refused(Journey!Happy(i), Journey!AsCrawled) = {}
  BY <1>1, <1>2, RequiredAreNames DEF Journey!Refused
<1> QED
  BY <1>1, <1>2, <1>3 DEF Journey!Passes

LEMMA MissingFields ==
  ASSUME NEW i, NEW name
  PROVE  /\ Journey!RequiredMissing(i, name).name = <<name, "required_missing">>
         /\ Journey!RequiredMissing(i, name).form = i
         /\ Journey!RequiredMissing(i, name).kind = "validation_error"
         /\ Journey!RequiredMissing(i, name).target = name
         /\ Journey!RequiredMissing(i, name).fills = Journey!NameSet(Journey!FieldsOf(forms[i])) \ {name}
BY DEF Journey!RequiredMissing

LEMMA MissingPasses ==
  ASSUME forms \in FormSets, NEW i \in DOMAIN forms, NEW name \in Journey!RequiredNames(forms[i])
  PROVE  Journey!Passes(Journey!RequiredMissing(i, name), Journey!AsCrawled)
<1>1. /\ Journey!AsCrawled.renders
      /\ \A j \in DOMAIN forms : Journey!AsCrawled.requires[j] = Journey!RequiredNames(forms[j])
  BY DEF Journey!AsCrawled
<1>2. i # 0
  BY FormIndices
<1>3. name \in Journey!Refused(Journey!RequiredMissing(i, name), Journey!AsCrawled)
  BY <1>1, <1>2, MissingFields DEF Journey!Refused
<1> QED
  BY <1>1, <1>3, MissingFields DEF Journey!Passes

\* Every case of the plan passes on the application it was made from.
LEMMA PlanPasses ==
  ASSUME forms \in FormSets, NEW i \in DOMAIN Journey!Plan, NEW case \in Journey!Plan[i]
  PROVE  Journey!Passes(case, Journey!AsCrawled)
<1>1. CASE forms = <<>>
  <2>1. case = Journey!Happy(0)
    BY <1>1, PlanWithoutForms
  <2> QED
    BY <2>1, HappyPasses
<1>2. CASE forms # <<>>
  <2>1. i \in DOMAIN forms
    BY <1>2, PlanOfForms
  <2>2. case = Journey!Happy(i) \/
        \E name \in Journey!RequiredNames(forms[i]) : case = Journey!RequiredMissing(i, name)
    BY <1>2, <2>1, PlanOfForms
  <2> QED
    BY <2>1, <2>2, HappyPasses, MissingPasses
<1> QED
  BY <1>1, <1>2

\* A key of the suite is that of its case, of the last form that has one with it.
Holding(key) == {i \in DOMAIN Journey!Plan : \E case \in Journey!Plan[i] : Journey!Key(case) = key}

LEMMA SuiteKeys ==
  ASSUME PageSuite, suite # <<>>
  PROVE  /\ \A key \in DOMAIN suite : Holding(key) # {}
         /\ \A key : Holding(key) # {} => key \in DOMAIN suite
         /\ \A key \in DOMAIN suite :
              /\ Journey!Max(Holding(key)) \in Holding(key)
              /\ \A i \in Holding(key) : i <= Journey!Max(Holding(key))
              /\ suite[key] \in Journey!Plan[Journey!Max(Holding(key))]
              /\ Journey!Key(suite[key]) = key
<1> DEFINE cases_ == UNION {Journey!Plan[i] : i \in DOMAIN Journey!Plan}
<1>1. suite = [key \in {Journey!Key(case) : case \in cases_} |->
                 CHOOSE case \in Journey!Plan[Journey!Max(Holding(key))] : Journey!Key(case) = key]
  BY Zenon DEF PageSuite, Journey!Merged, Holding
<1>2. DOMAIN suite = {Journey!Key(case) : case \in cases_}
  BY <1>1
<1>3. \A key : Holding(key) # {} <=> \E case \in cases_ : Journey!Key(case) = key
  BY Zenon DEF Holding
<1>4. \A key : key \in DOMAIN suite <=> Holding(key) # {}
  <2> HIDE DEF cases_
  <2> QED
    BY <1>2, <1>3, Zenon
<1>5. \E n \in Nat : \A key : Holding(key) \subseteq 1 .. n
  <2>1. CASE forms = <<>>
    BY <2>1, PlanWithoutForms DEF Holding
  <2>2. CASE forms # <<>>
    BY <2>2, PlanOfForms, FormIndices DEF Holding, PageSuite
  <2> QED
    BY <2>1, <2>2
<1>6. ASSUME NEW key \in DOMAIN suite
      PROVE  /\ Journey!Max(Holding(key)) \in Holding(key)
             /\ \A i \in Holding(key) : i <= Journey!Max(Holding(key))
             /\ suite[key] \in Journey!Plan[Journey!Max(Holding(key))]
             /\ Journey!Key(suite[key]) = key
  <2>1. Journey!Max(Holding(key)) \in Holding(key) /\ \A i \in Holding(key) : i <= Journey!Max(Holding(key))
    BY <1>4, <1>5, <1>6, NatGreatest
  <2>2. suite[key] = CHOOSE case \in Journey!Plan[Journey!Max(Holding(key))] : Journey!Key(case) = key
    <3> HIDE DEF cases_
    <3> QED
      BY <1>1, <1>2, <1>6, Zenon
  <2>3. \E case \in Journey!Plan[Journey!Max(Holding(key))] : Journey!Key(case) = key
    BY <2>1, Zenon DEF Holding
  <2> QED
    BY <2>1, <2>2, <2>3, Zenon
<1> QED
  BY <1>4, <1>6

\* A key of a field that must not be left out is that of the last form that requires it.
LEMMA MissingKeys ==
  ASSUME PageSuite, suite # <<>>, NEW i \in DOMAIN forms,
         NEW name \in Journey!RequiredNames(forms[i]), ~Journey!IsMasked(i, name)
  PROVE  /\ <<name, "required_missing">> \in DOMAIN suite
         /\ suite[<<name, "required_missing">>] = Journey!RequiredMissing(i, name)
<1> DEFINE key == <<name, "required_missing">>
           m == Journey!Max(Holding(key))
<1>1. forms # <<>> /\ i \in Nat /\ forms \in FormSets
  BY FormIndices DEF PageSuite
<1>2. Journey!RequiredMissing(i, name) \in Journey!Plan[i] /\ i \in DOMAIN Journey!Plan
  BY <1>1, PlanOfForms
<1>3. Journey!Key(Journey!RequiredMissing(i, name)) = key
  BY MissingFields DEF Journey!Key
<1>4. i \in Holding(key)
  BY <1>2, <1>3, Zenon DEF Holding
<1>5. key \in DOMAIN suite
  BY <1>4, SuiteKeys
<1>6. m \in Holding(key) /\ i <= m /\ suite[key] \in Journey!Plan[m] /\ Journey!Key(suite[key]) = key
  BY <1>4, <1>5, SuiteKeys
<1>7. m \in DOMAIN forms
  BY <1>1, <1>6, PlanOfForms DEF Holding
<1> HIDE DEF m
<1>8. suite[key] = Journey!Happy(m) \/
      \E other \in Journey!RequiredNames(forms[m]) : suite[key] = Journey!RequiredMissing(m, other)
  BY <1>1, <1>6, <1>7, PlanOfForms
<1>9. suite[key] # Journey!Happy(m)
  <2>1. Journey!Key(Journey!Happy(m)) = <<"happy">>
    BY DEF Journey!Key, Journey!Happy
  <2>2. <<"happy">> # key
    OBVIOUS
  <2> QED
    BY <1>6, <2>1, <2>2
<1>10. PICK other \in Journey!RequiredNames(forms[m]) : suite[key] = Journey!RequiredMissing(m, other)
  BY <1>8, <1>9
<1>11. other = name
  <2>1. Journey!Key(suite[key]) = <<other, "required_missing">>
    BY <1>10, MissingFields DEF Journey!Key
  <2> QED
    BY <1>6, <2>1
<1>12. ~(m > i)
  BY <1>7, <1>10, <1>11 DEF Journey!IsMasked
<1>13. m = i
  <2>1. m \in Nat
    BY <1>1, <1>7, FormIndices
  <2> QED
    BY <1>1, <1>6, <1>12, <2>1
<1> QED
  BY <1>5, <1>10, <1>11, <1>13

\* On the application they were made from the cases pass, on a page that is broken none
\* does, and a requirement that is lost fails the case of it that is current.
LEMMA PageSuiteIsFairHolds ==
  ASSUME PageSuite
  PROVE  Journey!PageSuiteIsFair
<1> DEFINE broken == [Journey!AsCrawled EXCEPT !.renders = FALSE]
<1>1. broken \in Journey!Regressions
  BY DEF Journey!Regressions
<1>2. ~broken.renders
  BY DEF Journey!AsCrawled
<1>3. \A case : ~Journey!Passes(case, broken)
  BY <1>2 DEF Journey!Passes
<1>4. \A key \in DOMAIN suite : \E application \in Journey!Regressions : ~Journey!Passes(suite[key], application)
  BY <1>1, <1>3, Zenon
<1>5. ASSUME report # <<>>
      PROVE  /\ app = Journey!AsCrawled => \A key \in DOMAIN report : report[key]
             /\ ~app.renders => \A key \in DOMAIN report : ~report[key]
             /\ \A i \in DOMAIN forms : \A name \in Journey!RequiredNames(forms[i]) \ app.requires[i] :
                  ~Journey!IsMasked(i, name) => \E key \in DOMAIN report : ~report[key]
  <2>1. suite # <<>> /\ suite = Journey!Merged(Journey!Plan) /\ Journey!GateAccepts(Journey!Plan)
    BY <1>5 DEF PageSuite
  <2>2. report = [key \in DOMAIN suite |-> Journey!Passes(suite[key], app)]
    BY <1>5 DEF PageSuite
  <2>3. DOMAIN report = DOMAIN suite /\ \A key \in DOMAIN suite : report[key] <=> Journey!Passes(suite[key], app)
    BY <2>2
  <2>4. \A key \in DOMAIN suite : \E i \in DOMAIN Journey!Plan : suite[key] \in Journey!Plan[i]
    BY <2>1, SuiteKeys DEF Holding
  <2>5. app = Journey!AsCrawled => \A key \in DOMAIN report : report[key]
    <3>1. ASSUME NEW key \in DOMAIN suite PROVE Journey!Passes(suite[key], Journey!AsCrawled)
      BY <2>4, PlanPasses DEF PageSuite
    <3> QED
      BY <2>3, <3>1
  <2>6. ~app.renders => \A key \in DOMAIN report : ~report[key]
    BY <2>3 DEF Journey!Passes
  <2>7. ASSUME NEW i \in DOMAIN forms, NEW name \in Journey!RequiredNames(forms[i]) \ app.requires[i],
               ~Journey!IsMasked(i, name)
        PROVE  \E key \in DOMAIN report : ~report[key]
    <3> DEFINE key == <<name, "required_missing">>
    <3>1. key \in DOMAIN suite /\ suite[key] = Journey!RequiredMissing(i, name)
      BY <2>1, <2>7, MissingKeys
    <3>2. ~Journey!IsTautological(suite[key])
      <4>1. forms # <<>> /\ forms \in FormSets
        BY DEF PageSuite
      <4>2. suite[key] \in Journey!Plan[i] /\ i \in DOMAIN Journey!Plan
        BY <3>1, <4>1, PlanOfForms
      <4> QED
        BY <2>1, <4>2 DEF Journey!GateAccepts
    <3>3. suite[key].target \notin Journey!Refused(suite[key], app)
      <4>1. i # 0
        BY FormIndices DEF PageSuite
      <4> QED
        BY <3>1, <4>1, <2>7, MissingFields DEF Journey!Refused
    <3>4. suite[key].kind # "recorded_state"
      BY <3>1, MissingFields
    <3>5. ~Journey!Passes(suite[key], app)
      BY <3>2, <3>3, <3>4 DEF Journey!Passes
    <3> QED
      BY <2>3, <3>1, <3>5
  <2> QED
    BY <2>5, <2>6, <2>7
<1> QED
  BY <1>4, <1>5 DEF Journey!PageSuiteIsFair

JourneyInv == WalkInv /\ PageSuite

NewWalk ==
  \E root \in reach.nodes :
    walk = [Journey!NoWalk EXCEPT !.pc = "edges", !.root = root, !.nodes = {root}, !.frontier = {root}]

LEMMA WalkBegins == reach \in Graphs /\ NewWalk => WalkInv
BY NewWalkHolds DEF NewWalk

LEMMA StartHolds ==
  ASSUME WalkInv, NEW root, Journey!Start(root)
  PROVE  WalkInv'
<1>1. reach' \in Graphs
  BY DEF WalkInv, WalkType, Journey!Start
<1>2. NewWalk'
  BY DEF Journey!Start, Journey!NoWalk, NewWalk
<1>3. (reach \in Graphs /\ NewWalk => WalkInv)'
  BY WalkBegins, PTL
<1> QED
  BY <1>1, <1>2, <1>3, Zenon

\* The plan and what may become of the application depend on the forms alone.
LEMMA PageCasesStay ==
  ASSUME UNCHANGED forms
  PROVE  /\ Journey!Plan' = Journey!Plan
         /\ Journey!AsCrawled' = Journey!AsCrawled
         /\ Journey!Regressions' = Journey!Regressions
BY DEF Journey!Plan, Journey!Happy, Journey!RequiredMissing, Journey!AsCrawled, Journey!Regressions

\* A step of a walk leaves the tests alone.
LEMMA PageSuiteStays ==
  ASSUME PageSuite, UNCHANGED <<forms, suite, app, report>>
  PROVE  PageSuite'
<1>1. Journey!Merged(Journey!Plan)' = Journey!Merged(Journey!Plan')
  BY Zenon DEF Journey!Merged, Journey!Key
<1>2. Journey!GateAccepts(Journey!Plan)' <=> Journey!GateAccepts(Journey!Plan')
  BY Zenon DEF Journey!GateAccepts, Journey!IsTautological
<1>3. UNCHANGED Journey!Plan /\ UNCHANGED Journey!AsCrawled /\ UNCHANGED Journey!Regressions
  BY PageCasesStay
<1> QED
  BY <1>1, <1>2, <1>3 DEF PageSuite, Journey!Passes, Journey!Refused, Journey!IsTautological

LEMMA GenerateHolds ==
  ASSUME PageSuite, Journey!Generate
  PROVE  PageSuite'
<1>1. /\ suite = <<>> /\ UNCHANGED <<reach, forms, app, report>>
      /\ suite' = IF Journey!GateAccepts(Journey!Plan) THEN Journey!Merged(Journey!Plan) ELSE <<>>
  BY Zenon DEF Journey!Generate
<1>2. report = <<>>
  BY <1>1 DEF PageSuite
<1>3. suite' # <<>> => suite' = Journey!Merged(Journey!Plan) /\ Journey!GateAccepts(Journey!Plan)
  BY <1>1
<1> QED
  BY <1>1, <1>2, <1>3, PageCasesStay DEF PageSuite

LEMMA ChangeHolds ==
  ASSUME PageSuite, Journey!Change
  PROVE  PageSuite'
<1>1. /\ suite # <<>> /\ report' = <<>> /\ UNCHANGED <<reach, walk, forms, suite>>
      /\ app' \in Journey!Regressions \cup {Journey!AsCrawled}
  BY Zenon DEF Journey!Change
<1> QED
  BY <1>1, PageCasesStay DEF PageSuite

LEMMA RunHolds ==
  ASSUME PageSuite, Journey!Run
  PROVE  PageSuite'
<1>1. /\ suite # <<>> /\ UNCHANGED <<reach, walk, forms, suite, app>>
      /\ report' = [key \in DOMAIN suite |-> Journey!Passes(suite[key], app)]
  BY Zenon DEF Journey!Run
<1>2. report' = [key \in DOMAIN suite' |-> Journey!Passes(suite'[key], app')]
  BY <1>1
<1> QED
  BY <1>1, <1>2, PageCasesStay DEF PageSuite

LEMMA JourneyInitially ==
  ASSUME Journey!Init
  PROVE  JourneyInv
<1>1. /\ reach \in Graphs /\ walk = Journey!NoWalk /\ forms \in FormSets
      /\ suite = <<>> /\ report = <<>> /\ app = Journey!AsCrawled
  BY Zenon DEF Journey!Init
<1>2. WalkInv
  BY <1>1, NoWalkHolds
<1>3. PageSuite
  BY <1>1 DEF PageSuite
<1> QED
  BY <1>2, <1>3 DEF JourneyInv

LEMMA JourneyStep ==
  ASSUME JourneyInv, Journey!Next
  PROVE  JourneyInv'
<1>1. WalkInv /\ PageSuite
  BY DEF JourneyInv
<1>2. CASE Journey!Select \/ Journey!Propose
  <2>1. PICK root : Journey!Start(root)
    BY <1>2, Zenon DEF Journey!Select, Journey!Propose
  <2>2. WalkInv'
    BY <1>1, <2>1, StartHolds
  <2>3. PageSuite'
    BY <1>1, <2>1, PageSuiteStays DEF Journey!Start
  <2> QED
    BY <2>2, <2>3 DEF JourneyInv
<1>3. CASE Journey!ReadEdges
  <2>1. PageSuite'
    BY <1>1, <1>3, PageSuiteStays DEF Journey!ReadEdges
  <2> QED
    BY <1>1, <1>3, <2>1, ReadEdgesHolds DEF JourneyInv
<1>4. CASE Journey!ReadNodes
  <2>1. PageSuite'
    BY <1>1, <1>4, PageSuiteStays DEF Journey!ReadNodes
  <2> QED
    BY <1>1, <1>4, <2>1, ReadNodesHolds DEF JourneyInv
<1>5. CASE Journey!Reindex
  <2>1. PageSuite'
    BY <1>1, <1>5, PageSuiteStays DEF Journey!Reindex
  <2> QED
    BY <1>1, <1>5, <2>1, ReindexHolds DEF JourneyInv
<1>6. CASE Journey!Drop
  <2>1. PageSuite' /\ walk' = Journey!NoWalk /\ UNCHANGED reach
    BY <1>1, <1>6, PageSuiteStays DEF Journey!Drop
  <2> QED
    BY <1>1, <2>1, DropHolds DEF JourneyInv
<1>7. CASE Journey!Generate
  <2>1. PageSuite' /\ walk' = Journey!NoWalk /\ UNCHANGED reach
    BY <1>1, <1>7, GenerateHolds DEF Journey!Generate
  <2> QED
    BY <1>1, <2>1, DropHolds DEF JourneyInv
<1>8. CASE Journey!Change \/ Journey!Run
  <2>1. PageSuite'
    BY <1>1, <1>8, ChangeHolds, RunHolds
  <2>2. UNCHANGED <<reach, walk>>
    BY <1>8 DEF Journey!Change, Journey!Run
  <2>3. UNCHANGED <<reach, walk>> /\ WalkInv => WalkInv'
    <3> SUFFICES ASSUME UNCHANGED <<reach, walk>>, WalkInv PROVE WalkInv'
      OBVIOUS
    <3>1. Journey!Within' = Journey!Within
      BY HopsStay
    <3> QED
      BY <3>1 DEF WalkInv, WalkType, WalkBound, WalkWhole, WalkStage, WalkExact, WalkRead,
           Journey!Targets, Journey!OutEdges
  <2> QED
    BY <1>1, <2>1, <2>2, <2>3 DEF JourneyInv
<1> QED
  BY <1>2, <1>3, <1>4, <1>5, <1>6, <1>7, <1>8, Zenon DEF Journey!Next

\* What a walk has read, between its queries and whatever an ingestion does between them
\* (WalkInv), and that the cases in hand are the plan's and the report theirs.
THEOREM JourneyInvariantHolds == Spec => [](focus = "journey" => JourneyInv)
<1>1. Init => (focus = "journey" => JourneyInv)
  BY JourneyInitially DEF Init
<1>2. (focus = "journey" => JourneyInv) /\ [Next]_vars => (focus = "journey" => JourneyInv)'
  <2> SUFFICES ASSUME focus = "journey" => JourneyInv, [Next]_vars, focus' = "journey"
               PROVE  JourneyInv'
    OBVIOUS
  <2>1. CASE UNCHANGED vars
    <3>1. focus = "journey" /\ UNCHANGED <<reach, walk, forms, suite, app, report>>
      BY <2>1 DEF vars, journeyVars, planVars
    <3>2. JourneyInv /\ Journey!Within' = Journey!Within
      BY <3>1, HopsStay
    <3>3. PageSuite'
      BY <3>1, <3>2, PageSuiteStays DEF JourneyInv
    <3>4. WalkInv'
      BY <3>1, <3>2 DEF JourneyInv, WalkInv, WalkType, WalkBound, WalkWhole, WalkStage, WalkExact, WalkRead,
           Journey!Targets, Journey!OutEdges
    <3> QED
      BY <3>3, <3>4 DEF JourneyInv
  <2>2. CASE Next
    <3>1. focus = "journey" /\ Journey!Next
      BY <2>2 DEF Next
    <3> QED
      BY <3>1, JourneyStep
  <2> QED
    BY <2>1, <2>2
<1> QED
  BY <1>1, <1>2, PTL DEF Spec

\* A journey is bounded and of one piece whatever an ingestion does between its queries, and
\* is all that lies within its depth when none does and the cap is not met: the part of
\* ProposalsAreFair that is about the walk of BrainStore.journey.
THEOREM JourneyIsFaithfulHolds == Spec => [](focus = "journey" => Journey!JourneyIsFaithful)
<1>1. JourneyInv => Journey!JourneyIsFaithful
  <2> SUFFICES ASSUME JourneyInv, walk.pc = "done"
               PROVE  /\ Journey!Cardinality(walk.nodes) <= MaxNodes
                      /\ \A node \in walk.nodes \ {walk.root} :
                           \E edge \in walk.edges : edge[1] \in walk.nodes /\ edge[2] = node
                      /\ walk.settled /\ Journey!Cardinality(walk.nodes) < MaxNodes =>
                           /\ walk.nodes = Journey!Within[MaxDepth]
                           /\ walk.edges = IF MaxDepth = 0 THEN {}
                                           ELSE Journey!OutEdges(Journey!Within[MaxDepth - 1])
    BY DEF Journey!JourneyIsFaithful
  <2>1. WalkBound /\ WalkWhole /\ WalkExact
    BY DEF JourneyInv, WalkInv
  <2> QED
    BY <2>1, JourneyCardinality DEF WalkBound, WalkWhole, WalkExact
<1> QED
  BY <1>1, JourneyInvariantHolds, PTL

\* The page's cases pass on the application they were made from, every one of them fails on
\* some regression of it, and each requirement that is lost fails one unless it is masked:
\* the part of ProposalsAreFair that is about build_e2e_plan and its gate.
THEOREM PageSuiteHolds == Spec => [](focus = "journey" => Journey!PageSuiteIsFair)
<1>1. JourneyInv => Journey!PageSuiteIsFair
  BY PageSuiteIsFairHolds DEF JourneyInv
<1> QED
  BY <1>1, JourneyInvariantHolds, PTL

\* A walk keeps within the graph, and a page's report within its suite.
THEOREM JourneyTypesHold == Spec => [](focus = "journey" => Journey!JourneyTypeOK)
<1>1. JourneyInv => Journey!JourneyTypeOK
  <2> SUFFICES ASSUME JourneyInv PROVE Journey!JourneyTypeOK
    OBVIOUS
  <2>1. WalkType /\ PageSuite
    BY DEF JourneyInv, WalkInv
  <2>2. reach.nodes \subseteq BrainNodes /\ reach.edges \subseteq reach.nodes \X reach.nodes
    BY <2>1, WalkGraph
  <2>3. walk.pc \in {"idle", "edges", "nodes", "done"} /\ walk.nodes \subseteq BrainNodes /\ walk.depth \in 0 .. MaxDepth
    BY <2>1 DEF WalkType
  <2>4. DOMAIN report \subseteq DOMAIN suite
    <3>1. CASE report = <<>>
      BY <3>1
    <3>2. CASE report # <<>>
      BY <2>1, <3>2 DEF PageSuite
    <3> QED
      BY <3>1, <3>2
  <2> QED
    BY <2>2, <2>3, <2>4 DEF Journey!JourneyTypeOK
<1> QED
  BY <1>1, JourneyInvariantHolds, PTL

-----------------------------------------------------------------------------
(* The difference of two versions. *)

\* The prefixes of a path.
LEMMA PathCut ==
  ASSUME NEW S, NEW p \in Seq(S), NEW n \in 0 .. Len(p)
  PROVE  /\ SubSeq(p, 1, n) \in Seq(S) /\ Len(SubSeq(p, 1, n)) = n
         /\ \A i \in 1 .. n : SubSeq(p, 1, n)[i] = p[i]
<1>1. n \in Int /\ 1 \in Int /\ Len(p) \in Nat /\ \A i \in 1 .. n : p[i] \in S
  BY LenProperties, ElementOfSeq
<1>2. /\ SubSeq(p, 1, n) \in Seq(S)
      /\ Len(SubSeq(p, 1, n)) = IF 1 <= n THEN n - 1 + 1 ELSE 0
      /\ \A i \in 1 .. n - 1 + 1 : SubSeq(p, 1, n)[i] = p[1 + i - 1]
  BY <1>1, SubSeqProperties
<1> QED
  BY <1>1, <1>2

LEMMA PrefixIsCut ==
  ASSUME NEW S, NEW s \in Seq(S), NEW t \in Seq(S)
  PROVE  Diff!IsPrefix(s, t) <=> Len(s) <= Len(t) /\ s = SubSeq(t, 1, Len(s))
<1>1. SubSeq(s, 1, Len(s)) = s
  BY SubSeqFull
<1> QED
  BY <1>1 DEF Diff!IsPrefix

LEMMA CutOfCut ==
  ASSUME NEW S, NEW p \in Seq(S), NEW m \in 0 .. Len(p), NEW n \in 0 .. m
  PROVE  SubSeq(SubSeq(p, 1, m), 1, n) = SubSeq(p, 1, n)
<1> DEFINE q == SubSeq(p, 1, m)
<1>1. Len(p) \in Nat /\ m \in Nat /\ n \in 0 .. Len(p)
  BY LenProperties
<1>2. q \in Seq(S) /\ Len(q) = m /\ \A i \in 1 .. m : q[i] = p[i]
  BY PathCut
<1> HIDE DEF q
<1>3. SubSeq(q, 1, n) \in Seq(S) /\ Len(SubSeq(q, 1, n)) = n /\ \A i \in 1 .. n : SubSeq(q, 1, n)[i] = q[i]
  BY <1>2, PathCut
<1>4. SubSeq(p, 1, n) \in Seq(S) /\ Len(SubSeq(p, 1, n)) = n /\ \A i \in 1 .. n : SubSeq(p, 1, n)[i] = p[i]
  BY <1>1, PathCut
<1>5. \A i \in 1 .. n : SubSeq(q, 1, n)[i] = SubSeq(p, 1, n)[i]
  BY <1>1, <1>2, <1>3, <1>4
<1>6. SubSeq(q, 1, n) = SubSeq(p, 1, n)
  BY <1>3, <1>4, <1>5, SeqEqual
<1> QED
  BY <1>6 DEF q

\* A path is a prefix of it and the rest.
LEMMA PathSplit ==
  ASSUME NEW S, NEW s \in Seq(S), NEW t \in Seq(S), Diff!IsPrefix(s, t)
  PROVE  /\ SubSeq(t, Len(s) + 1, Len(t)) \in Seq(S)
         /\ s \o SubSeq(t, Len(s) + 1, Len(t)) = t
<1> DEFINE r == SubSeq(t, Len(s) + 1, Len(t))
<1>1. Len(s) \in Nat /\ Len(t) \in Nat /\ Len(s) <= Len(t) /\ s = SubSeq(t, 1, Len(s))
  BY PrefixIsCut, LenProperties
<1>2. \A i \in 1 .. Len(s) : s[i] = t[i]
  BY <1>1, PathCut
<1>3. Len(s) + 1 \in Int /\ Len(t) \in Int /\ \A i \in Len(s) + 1 .. Len(t) : t[i] \in S
  BY <1>1, ElementOfSeq
<1>4. /\ r \in Seq(S) /\ Len(r) = IF Len(s) + 1 <= Len(t) THEN Len(t) - (Len(s) + 1) + 1 ELSE 0
      /\ \A i \in 1 .. Len(t) - (Len(s) + 1) + 1 : r[i] = t[Len(s) + 1 + i - 1]
  BY <1>3, SubSeqProperties
<1> HIDE DEF r
<1>5. Len(r) = Len(t) - Len(s) /\ \A i \in 1 .. Len(t) - Len(s) : r[i] = t[Len(s) + i]
  BY <1>1, <1>4
<1>6. /\ s \o r \in Seq(S) /\ Len(s \o r) = Len(s) + Len(r)
      /\ \A i \in 1 .. Len(s) + Len(r) : (s \o r)[i] = IF i <= Len(s) THEN s[i] ELSE r[i - Len(s)]
  BY <1>4, ConcatProperties
<1>7. \A i \in 1 .. Len(s \o r) : (s \o r)[i] = t[i]
  BY <1>1, <1>2, <1>5, <1>6
<1>8. s \o r = t
  <2>1. Len(s \o r) = Len(t)
    BY <1>1, <1>5, <1>6
  <2> QED
    BY <1>6, <1>7, <2>1, SeqEqual
<1> QED
  BY <1>4, <1>8 DEF r

LEMMA PathJoin ==
  ASSUME NEW S, NEW s \in Seq(S), NEW r \in Seq(S)
  PROVE  /\ s \o r \in Seq(S) /\ Diff!IsPrefix(s, s \o r)
         /\ SubSeq(s \o r, Len(s) + 1, Len(s \o r)) = r
<1> DEFINE t == s \o r
           u == SubSeq(t, 1, Len(s))
<1>1. /\ t \in Seq(S) /\ Len(t) = Len(s) + Len(r) /\ Len(s) \in Nat /\ Len(r) \in Nat
      /\ \A i \in 1 .. Len(s) + Len(r) : t[i] = IF i <= Len(s) THEN s[i] ELSE r[i - Len(s)]
  BY ConcatProperties, LenProperties
<1> HIDE DEF t
<1>2. u \in Seq(S) /\ Len(u) = Len(s) /\ \A i \in 1 .. Len(s) : u[i] = t[i]
  BY <1>1, PathCut
<1> HIDE DEF u
<1>3. \A i \in 1 .. Len(s) : s[i] = u[i]
  BY <1>1, <1>2
<1>4. s = u
  BY <1>2, <1>3, SeqEqual
<1>5. Diff!IsPrefix(s, t)
  BY <1>1, <1>4, PrefixIsCut DEF u
<1>6. s \o SubSeq(t, Len(s) + 1, Len(t)) = s \o r /\ SubSeq(t, Len(s) + 1, Len(t)) \in Seq(S)
  BY <1>1, <1>5, PathSplit DEF t
<1>7. SubSeq(t, Len(s) + 1, Len(t)) = r
  BY <1>6, ConcatSimplifications
<1> QED
  BY <1>1, <1>5, <1>7 DEF t

\* Two prefixes of a path: the shorter is a prefix of the longer.
LEMMA PrefixesNest ==
  ASSUME NEW S, NEW p \in Seq(S), NEW s \in Seq(S), NEW t \in Seq(S),
         Diff!IsPrefix(s, p), Diff!IsPrefix(t, p), Len(s) <= Len(t)
  PROVE  Diff!IsPrefix(s, t)
<1>1. /\ Len(s) \in Nat /\ Len(t) \in Nat /\ Len(p) \in Nat /\ Len(t) <= Len(p)
      /\ s = SubSeq(p, 1, Len(s)) /\ t = SubSeq(p, 1, Len(t))
  BY PrefixIsCut, LenProperties
<1>2. SubSeq(SubSeq(p, 1, Len(t)), 1, Len(s)) = SubSeq(p, 1, Len(s))
  BY <1>1, CutOfCut
<1>3. s = SubSeq(t, 1, Len(s))
  BY <1>1, <1>2
<1> QED
  BY <1>3, PrefixIsCut

Path == Seq(STRING)
IsContent(t) == IsTree(t) /\ <<>> \in DOMAIN t /\ t[<<>>] = "fields"

\* Two versions differ at a path.
Differs(a, b, p) ==
  p \in DOMAIN a \union DOMAIN b /\ ~(p \in DOMAIN a \intersect DOMAIN b /\ Diff!Alike(a[p], b[p]))

ChangedAt(a, b) == {q \in Diff!Leaves(a, b) : Diff!LeafChange(a, b, q) # "unchanged"}

LEMMA UpToLast ==
  ASSUME NEW k \in Nat, NEW n \in 0 .. k
  PROVE  n \in 0 .. k - 1 \/ n = k
OBVIOUS

LEMMA TreeFacts ==
  ASSUME NEW t, IsTree(t), NEW p \in DOMAIN t
  PROVE  /\ p \in Path /\ Len(p) \in Nat
         /\ \A n \in 0 .. Len(p) - 1 : SubSeq(p, 1, n) \in DOMAIN t /\ t[SubSeq(p, 1, n)] \in Diff!Containers
         /\ \A n \in 0 .. Len(p) : SubSeq(p, 1, n) \in DOMAIN t
<1>1. p \in Seq(STRING) /\ SubSeq(p, 1, Len(p)) = p /\ Len(p) \in Nat
  BY SubSeqFull, LenProperties DEF IsTree
<1>2. \A n \in 0 .. Len(p) - 1 : SubSeq(p, 1, n) \in DOMAIN t /\ t[SubSeq(p, 1, n)] \in Diff!Containers
  BY DEF IsTree, Diff!Containers
<1>3. \A n \in 0 .. Len(p) : n \in 0 .. Len(p) - 1 \/ n = Len(p)
  BY <1>1, UpToLast
<1> QED
  BY <1>1, <1>2, <1>3 DEF Path

\* A prefix of a path of a tree is one, and a container if it is not all of it.
LEMMA PrefixInTree ==
  ASSUME NEW t, IsTree(t), NEW p \in DOMAIN t, NEW q \in Path, Diff!IsPrefix(q, p)
  PROVE  q \in DOMAIN t /\ (q # p => t[q] \in Diff!Containers)
<1>1. /\ p \in Path /\ Len(p) \in Nat /\ Len(q) \in Nat
      /\ \A n \in 0 .. Len(p) - 1 : SubSeq(p, 1, n) \in DOMAIN t /\ t[SubSeq(p, 1, n)] \in Diff!Containers
  BY TreeFacts, LenProperties DEF Path
<1>2. Len(q) <= Len(p) /\ q = SubSeq(p, 1, Len(q)) /\ SubSeq(p, 1, Len(p)) = p
  BY <1>1, PrefixIsCut, SubSeqFull DEF Path
<1>3. CASE Len(q) = Len(p)
  BY <1>2, <1>3
<1>4. CASE Len(q) # Len(p)
  <2>1. Len(q) \in 0 .. Len(p) - 1
    <3>1. Len(q) \in 0 .. Len(p)
      BY <1>1, <1>2
    <3> QED
      BY <1>1, <1>4, <3>1, UpToLast
  <2> QED
    BY <1>1, <1>2, <2>1
<1> QED
  BY <1>3, <1>4

LEMMA LeafFacts ==
  ASSUME NEW a, NEW b, IsTree(a), IsTree(b), NEW q \in Diff!Leaves(a, b)
  PROVE  /\ q \in Path /\ Len(q) \in Nat /\ q \in DOMAIN a \union DOMAIN b
         /\ \A n \in 0 .. Len(q) - 1 : Diff!Descends(a, b, SubSeq(q, 1, n))
         /\ ~Diff!Descends(a, b, q)
BY TreeFacts DEF Diff!Leaves, Diff!Reached

LEMMA ChangedFacts ==
  ASSUME NEW a, NEW b, NEW q
  PROVE  q \in ChangedAt(a, b) <=> q \in Diff!Leaves(a, b) /\ Differs(a, b, q)
BY DEF ChangedAt, Differs, Diff!LeafChange, Diff!Leaves, Diff!Reached

\* Either the difference goes through a path or it ends above it.
LEMMA LeafAbove ==
  ASSUME NEW a, NEW b, IsTree(a), IsTree(b), NEW p \in DOMAIN a \union DOMAIN b
  PROVE  \/ \A n \in 0 .. Len(p) : Diff!Descends(a, b, SubSeq(p, 1, n))
         \/ \E q \in Diff!Leaves(a, b) : Diff!IsPrefix(q, p)
<1> DEFINE Stops == {n \in 0 .. Len(p) : ~Diff!Descends(a, b, SubSeq(p, 1, n))}
<1>1. p \in Path /\ Len(p) \in Nat /\ \A n \in 0 .. Len(p) : SubSeq(p, 1, n) \in DOMAIN a \union DOMAIN b
  BY TreeFacts
<1> SUFFICES ASSUME Stops # {} PROVE \E q \in Diff!Leaves(a, b) : Diff!IsPrefix(q, p)
  OBVIOUS
<1>2. Stops \subseteq Nat
  BY <1>1
<1>3. PICK m \in Stops : \A n \in Stops : m <= n
  BY <1>2, NatLeast
<1> DEFINE q == SubSeq(p, 1, m)
<1>4. m \in 0 .. Len(p) /\ m \in Nat /\ ~Diff!Descends(a, b, q)
  BY <1>1
<1>5. q \in Path /\ Len(q) = m
  BY <1>1, <1>4, PathCut DEF Path
<1>6. \A n \in 0 .. m - 1 : Diff!Descends(a, b, SubSeq(p, 1, n))
  <2> SUFFICES ASSUME NEW n \in 0 .. m - 1 PROVE Diff!Descends(a, b, SubSeq(p, 1, n))
    OBVIOUS
  <2>1. n \in 0 .. Len(p) /\ ~(m <= n)
    BY <1>1, <1>4
  <2> QED
    BY <1>3, <2>1
<1>7. \A n \in 0 .. m - 1 : SubSeq(q, 1, n) = SubSeq(p, 1, n)
  <2> SUFFICES ASSUME NEW n \in 0 .. m - 1 PROVE SubSeq(q, 1, n) = SubSeq(p, 1, n)
    OBVIOUS
  <2>1. n \in 0 .. m
    BY <1>4
  <2> QED
    BY <1>1, <1>4, <2>1, CutOfCut DEF Path
<1>8. q \in DOMAIN a \union DOMAIN b
  BY <1>1, <1>4
<1> HIDE DEF q, Stops
<1>9. q \in Diff!Leaves(a, b)
  BY <1>4, <1>5, <1>6, <1>7, <1>8 DEF Diff!Leaves, Diff!Reached
<1>10. Diff!IsPrefix(q, p)
  <2>1. Len(q) <= Len(p) /\ q = SubSeq(p, 1, Len(q))
    BY <1>1, <1>4, <1>5 DEF q
  <2> QED
    BY <1>1, <1>5, <2>1, PrefixIsCut DEF Path
<1> QED
  BY <1>9, <1>10

\* No leaf lies below another, and a path with a leaf above it is not gone through.
LEMMA LeavesApart ==
  ASSUME NEW a, NEW b, IsTree(a), IsTree(b), NEW q \in Diff!Leaves(a, b), NEW p \in Path,
         Diff!IsPrefix(q, p), \A n \in 0 .. Len(p) - 1 : Diff!Descends(a, b, SubSeq(p, 1, n))
  PROVE  p = q
<1>1. q \in Path /\ Len(q) \in Nat /\ ~Diff!Descends(a, b, q) /\ Len(p) \in Nat
  BY LeafFacts, LenProperties DEF Path
<1>2. Len(q) <= Len(p) /\ q = SubSeq(p, 1, Len(q)) /\ SubSeq(p, 1, Len(p)) = p
  BY <1>1, PrefixIsCut, SubSeqFull DEF Path
<1>3. ~(Len(q) \in 0 .. Len(p) - 1)
  BY <1>1, <1>2
<1>4. Len(q) = Len(p)
  <2>1. Len(q) \in 0 .. Len(p)
    BY <1>1, <1>2
  <2> QED
    BY <1>1, <1>3, <2>1, UpToLast
<1> QED
  BY <1>2, <1>4

\* Nothing lies below a leaf that is the same in both.
LEMMA LeafIsWhole ==
  ASSUME NEW a, NEW b, IsTree(a), IsTree(b), NEW q \in Diff!Leaves(a, b), ~Differs(a, b, q),
         NEW p \in DOMAIN a \union DOMAIN b, Diff!IsPrefix(q, p)
  PROVE  p = q
<1> SUFFICES ASSUME p # q PROVE FALSE
  OBVIOUS
<1>1. q \in Path /\ q \in DOMAIN a \intersect DOMAIN b /\ Diff!Alike(a[q], b[q]) /\ ~Diff!Descends(a, b, q)
  BY LeafFacts DEF Differs
<1>2. a[q] \in Diff!Containers \/ b[q] \in Diff!Containers
  BY <1>1, PrefixInTree
<1>3. a[q] = b[q] /\ a[q] \in Diff!Containers
  BY <1>1, <1>2 DEF Diff!Alike
<1> QED
  BY <1>1, <1>3 DEF Diff!Descends

\* What differs is reported, at the path or above it.
LEMMA DifferenceIsFound ==
  ASSUME NEW a, NEW b, IsTree(a), IsTree(b), NEW p, Differs(a, b, p)
  PROVE  \E q \in ChangedAt(a, b) : Diff!IsPrefix(q, p)
<1>1. p \in DOMAIN a \union DOMAIN b /\ p \in Path /\ Len(p) \in Nat /\ SubSeq(p, 1, Len(p)) = p
  <2>1. p \in DOMAIN a \union DOMAIN b
    BY DEF Differs
  <2> QED
    BY <2>1, TreeFacts, SubSeqFull DEF Path
<1>2. ~Diff!Descends(a, b, p)
  BY DEF Differs, Diff!Descends, Diff!Alike
<1>3. PICK q \in Diff!Leaves(a, b) : Diff!IsPrefix(q, p)
  <2>1. Len(p) \in 0 .. Len(p)
    BY <1>1
  <2> QED
    BY <1>1, <1>2, <2>1, LeafAbove
<1>4. Differs(a, b, q)
  <2> SUFFICES ASSUME ~Differs(a, b, q) PROVE FALSE
    OBVIOUS
  <2>1. p = q
    BY <1>1, <1>3, LeafIsWhole
  <2> QED
    BY <2>1
<1> QED
  BY <1>3, <1>4, ChangedFacts

\* The value at a path.
LEMMA AtFacts ==
  ASSUME NEW t, IsTree(t), NEW q \in Path
  PROVE  /\ DOMAIN Diff!At(t, q) = {r \in Path : q \o r \in DOMAIN t}
         /\ \A r \in Path : q \o r \in DOMAIN t => Diff!At(t, q)[r] = t[q \o r]
<1> DEFINE below == {p \in DOMAIN t : Diff!IsPrefix(q, p)}
           Cut(p) == SubSeq(p, Len(q) + 1, Len(p))
           cuts == {Cut(p) : p \in below}
<1>1. Diff!At(t, q) = [r \in cuts |-> t[q \o r]]
  BY DEF Diff!At
<1>2. ASSUME NEW p \in below PROVE Cut(p) \in Path /\ q \o Cut(p) = p
  BY TreeFacts, PathSplit DEF Path
<1>3. ASSUME NEW r \in Path, q \o r \in DOMAIN t PROVE r \in cuts
  <2>1. Diff!IsPrefix(q, q \o r) /\ Cut(q \o r) = r
    BY PathJoin DEF Path
  <2>2. q \o r \in below
    BY <1>3, <2>1
  <2> QED
    BY <2>1, <2>2
<1>4. cuts = {r \in Path : q \o r \in DOMAIN t}
  <2>1. \A r \in cuts : r \in Path /\ q \o r \in DOMAIN t
    BY <1>2
  <2> HIDE DEF cuts
  <2> QED
    BY <1>3, <2>1
<1> HIDE DEF cuts
<1> QED
  BY <1>1, <1>3, <1>4

\* The root and the whole.
LEMMA EmptyPath ==
  ASSUME NEW q \in Path
  PROVE  << >> \in Path /\ q \o << >> = q /\ Diff!IsPrefix(<< >>, q)
<1>1. << >> \in Seq(STRING) /\ q \o << >> = q /\ << >> \o q = q
  BY EmptySeq, ConcatEmptySeq DEF Path
<1>2. Diff!IsPrefix(<< >>, << >> \o q)
  BY <1>1, PathJoin DEF Path
<1> QED
  BY <1>1, <1>2 DEF Path

LEMMA TreesDiffer ==
  ASSUME NEW a, NEW b
  PROVE  ~Diff!AlikeTrees(a, b) <=> \E p : Differs(a, b, p)
BY DEF Diff!AlikeTrees, Differs

LEMMA EntryFacts ==
  ASSUME NEW a, NEW b, NEW e
  PROVE  e \in Diff!Changes(a, b) <=> \E q \in ChangedAt(a, b) : e = Diff!Entry(a, b, q)
BY DEF Diff!Changes, ChangedAt

LEMMA EntryFields ==
  ASSUME NEW a, NEW b, NEW q
  PROVE  /\ Diff!Entry(a, b, q).path = q
         /\ Diff!Entry(a, b, q).old = IF q \in DOMAIN a THEN Diff!At(a, q) ELSE << >>
         /\ Diff!Entry(a, b, q).new = IF q \in DOMAIN b THEN Diff!At(b, q) ELSE << >>
BY DEF Diff!Entry, Diff!Missing

LEMMA NothingMissing == DOMAIN << >> = {}
OBVIOUS

\* What differs below a path differs in the whole.
LEMMA AtDiffers ==
  ASSUME NEW a, NEW b, IsTree(a), IsTree(b), NEW f \in Path, NEW r
  PROVE  Differs(Diff!At(a, f), Diff!At(b, f), r) <=> r \in Path /\ Differs(a, b, f \o r)
<1>1. r \in DOMAIN Diff!At(a, f) <=> r \in Path /\ f \o r \in DOMAIN a
  BY AtFacts
<1>2. r \in DOMAIN Diff!At(b, f) <=> r \in Path /\ f \o r \in DOMAIN b
  BY AtFacts
<1>3. r \in Path /\ f \o r \in DOMAIN a => Diff!At(a, f)[r] = a[f \o r]
  BY AtFacts
<1>4. r \in Path /\ f \o r \in DOMAIN b => Diff!At(b, f)[r] = b[f \o r]
  BY AtFacts
<1> QED
  BY <1>1, <1>2, <1>3, <1>4, Zenon DEF Differs

\* Each report names a difference.
LEMMA ReportsDiffer ==
  ASSUME NEW a, NEW b, IsTree(a), IsTree(b), NEW e \in Diff!Changes(a, b)
  PROVE  ~Diff!AlikeTrees(e.old, e.new)
<1>1. PICK q \in ChangedAt(a, b) : e = Diff!Entry(a, b, q)
  BY EntryFacts
<1>2. q \in Path /\ Differs(a, b, q) /\ << >> \in Path /\ q \o << >> = q
  BY ChangedFacts, LeafFacts, EmptyPath
<1>3. /\ e.old = IF q \in DOMAIN a THEN Diff!At(a, q) ELSE << >>
      /\ e.new = IF q \in DOMAIN b THEN Diff!At(b, q) ELSE << >>
  BY <1>1, EntryFields
<1>4. /\ << >> \in DOMAIN e.old <=> q \in DOMAIN a
      /\ << >> \in DOMAIN e.new <=> q \in DOMAIN b
      /\ q \in DOMAIN a => e.old[<< >>] = a[q]
      /\ q \in DOMAIN b => e.new[<< >>] = b[q]
  <2>1. /\ q \in DOMAIN a => << >> \in DOMAIN Diff!At(a, q) /\ Diff!At(a, q)[<< >>] = a[q]
        /\ q \in DOMAIN b => << >> \in DOMAIN Diff!At(b, q) /\ Diff!At(b, q)[<< >>] = b[q]
    BY <1>2, AtFacts
  <2> QED
    BY <1>3, <2>1, NothingMissing
<1>5. Differs(e.old, e.new, << >>)
  BY <1>2, <1>4 DEF Differs
<1> QED
  BY <1>5, TreesDiffer

\* No two reports overlap.
LEMMA ReportsApart ==
  ASSUME NEW a, NEW b, IsTree(a), IsTree(b), NEW e \in Diff!Changes(a, b),
         NEW f \in Diff!Changes(a, b), Diff!IsPrefix(e.path, f.path)
  PROVE  e = f
<1>1. PICK p \in ChangedAt(a, b) : e = Diff!Entry(a, b, p)
  BY EntryFacts
<1>2. PICK q \in ChangedAt(a, b) : f = Diff!Entry(a, b, q)
  BY EntryFacts
<1>3. p \in Diff!Leaves(a, b) /\ q \in Diff!Leaves(a, b) /\ e.path = p /\ f.path = q
  BY <1>1, <1>2, ChangedFacts, EntryFields
<1>4. q \in Path /\ \A n \in 0 .. Len(q) - 1 : Diff!Descends(a, b, SubSeq(q, 1, n))
  BY <1>3, LeafFacts
<1>5. p = q
  BY <1>3, <1>4, LeavesApart
<1> QED
  BY <1>1, <1>2, <1>5

\* The fields that are flagged are those that differ.
LEMMA FieldsAreThose ==
  ASSUME NEW a, NEW b, IsContent(a), IsContent(b),
         {p \in DOMAIN a : Len(p) = 1} = {p \in DOMAIN b : Len(p) = 1}
  PROVE  /\ Diff!ChangedFields(a, b) = {f \in DOMAIN a : Len(f) = 1
              /\ ~Diff!AlikeTrees(Diff!At(a, f), Diff!At(b, f))}
         /\ Diff!ChangedFields(a, b) # {} <=> ~Diff!AlikeTrees(a, b)
<1>1. IsTree(a) /\ IsTree(b) /\ Diff!Descends(a, b, << >>)
  BY DEF IsContent, Diff!Descends, Diff!Containers
<1>2. ASSUME NEW f \in DOMAIN a \union DOMAIN b, Len(f) = 1
      PROVE  /\ f \in Diff!FieldsOf(a, b) /\ f \in DOMAIN a /\ f \in DOMAIN b /\ f \in Path
             /\ Len(f) = 1 /\ \A n \in 0 .. Len(f) - 1 : Diff!Descends(a, b, SubSeq(f, 1, n))
  <2>1. f \in DOMAIN a \union DOMAIN b /\ Len(f) = 1
    BY <1>2
  <2>2. f \in DOMAIN a /\ f \in DOMAIN b /\ f \in Path
    BY <1>1, <2>1, TreeFacts
  <2>3. \A n \in 0 .. Len(f) - 1 : SubSeq(f, 1, n) = << >>
    <3>1. SubSeq(f, 1, 0) = << >>
      BY SubSeqEmpty
    <3> QED
      BY <2>1, <3>1
  <2>4. \A n \in 0 .. Len(f) - 1 : Diff!Descends(a, b, SubSeq(f, 1, n))
    BY <1>1, <2>3
  <2> QED
    BY <2>1, <2>2, <2>4 DEF Diff!FieldsOf, Diff!Reached
<1>9. \A f \in Diff!FieldsOf(a, b) : f \in Path /\ f \in DOMAIN a /\ Len(f) = 1
  <2>1. \A f \in Diff!FieldsOf(a, b) : f \in DOMAIN a \union DOMAIN b /\ Len(f) = 1
    BY DEF Diff!FieldsOf, Diff!Reached
  <2> QED
    BY <1>2, <2>1
<1>3. ASSUME NEW f \in Diff!FieldsOf(a, b), NEW q \in ChangedAt(a, b), Diff!IsPrefix(f, q)
      PROVE  ~Diff!AlikeTrees(Diff!At(a, f), Diff!At(b, f))
  <2>1. f \in Path /\ q \in Path /\ Differs(a, b, q)
    <3>1. q \in Diff!Leaves(a, b) /\ Differs(a, b, q)
      BY ChangedFacts
    <3>2. q \in Path
      BY <1>1, <3>1, LeafFacts
    <3> QED
      BY <1>9, <3>1, <3>2
  <2>2. PICK r \in Path : f \o r = q
    BY <1>3, <2>1, PathSplit DEF Path
  <2>3. Differs(Diff!At(a, f), Diff!At(b, f), r)
    BY <1>1, <2>1, <2>2, AtDiffers
  <2> QED
    BY <2>3, TreesDiffer
<1>4. ASSUME NEW f \in DOMAIN a, Len(f) = 1, NEW r, Differs(Diff!At(a, f), Diff!At(b, f), r)
      PROVE  \E q \in ChangedAt(a, b) : Diff!IsPrefix(f, q)
  <2>1. /\ f \in Path /\ f \in DOMAIN a /\ f \in DOMAIN b
        /\ \A n \in 0 .. Len(f) - 1 : Diff!Descends(a, b, SubSeq(f, 1, n))
    BY <1>2, <1>4
  <2>2. r \in Path /\ f \o r \in DOMAIN a \union DOMAIN b /\ Differs(a, b, f \o r)
    <3>1. r \in Path /\ Differs(a, b, f \o r)
      BY <1>1, <1>4, <2>1, AtDiffers
    <3> QED
      BY <3>1 DEF Differs
  <2>3. PICK q \in ChangedAt(a, b) : Diff!IsPrefix(q, f \o r)
    BY <1>1, <2>2, DifferenceIsFound
  <2>4. q \in Diff!Leaves(a, b) /\ q \in Path /\ Diff!IsPrefix(f, f \o r) /\ f \o r \in Path
    BY <1>1, <2>1, <2>2, ChangedFacts, LeafFacts, PathJoin DEF Path
  <2>5. Len(f) \in Nat /\ Len(q) \in Nat
    BY <2>1, <2>4, LenProperties DEF Path
  <2>6. CASE Len(f) <= Len(q)
    <3>1. Diff!IsPrefix(f, q)
      BY <2>1, <2>3, <2>4, <2>6, PrefixesNest DEF Path
    <3> QED
      BY <3>1
  <2>7. CASE Len(q) <= Len(f)
    <3>1. Diff!IsPrefix(q, f)
      BY <2>1, <2>3, <2>4, <2>7, PrefixesNest DEF Path
    <3>2. f = q
      BY <1>1, <2>1, <2>4, <3>1, LeavesApart
    <3> QED
      BY <2>4, <2>5, <3>1, <3>2
  <2> QED
    BY <2>5, <2>6, <2>7
<1>5. \A f : f \in Diff!ChangedFields(a, b) <=>
        f \in Diff!FieldsOf(a, b) /\ \E q \in ChangedAt(a, b) : Diff!IsPrefix(f, q)
  BY EntryFacts, EntryFields DEF Diff!ChangedFields
<1>6. \A f : f \in Diff!ChangedFields(a, b) <=>
        f \in DOMAIN a /\ Len(f) = 1 /\ ~Diff!AlikeTrees(Diff!At(a, f), Diff!At(b, f))
  <2> SUFFICES ASSUME NEW f
               PROVE f \in Diff!ChangedFields(a, b) <=>
                 f \in DOMAIN a /\ Len(f) = 1 /\ ~Diff!AlikeTrees(Diff!At(a, f), Diff!At(b, f))
    OBVIOUS
  <2>1. f \in Diff!ChangedFields(a, b) =>
          f \in DOMAIN a /\ Len(f) = 1 /\ ~Diff!AlikeTrees(Diff!At(a, f), Diff!At(b, f))
    <3> SUFFICES ASSUME f \in Diff!ChangedFields(a, b)
                 PROVE  f \in DOMAIN a /\ Len(f) = 1
                        /\ ~Diff!AlikeTrees(Diff!At(a, f), Diff!At(b, f))
      OBVIOUS
    <3>1. f \in Diff!FieldsOf(a, b)
      BY <1>5
    <3>2. PICK q \in ChangedAt(a, b) : Diff!IsPrefix(f, q)
      BY <1>5
    <3> QED
      BY <1>3, <1>9, <3>1, <3>2
  <2>2. f \in DOMAIN a /\ Len(f) = 1 /\ ~Diff!AlikeTrees(Diff!At(a, f), Diff!At(b, f)) =>
          f \in Diff!ChangedFields(a, b)
    <3> SUFFICES ASSUME f \in DOMAIN a, Len(f) = 1, ~Diff!AlikeTrees(Diff!At(a, f), Diff!At(b, f))
                 PROVE  f \in Diff!ChangedFields(a, b)
      OBVIOUS
    <3>1. PICK r : Differs(Diff!At(a, f), Diff!At(b, f), r)
      BY TreesDiffer
    <3>2. \E q \in ChangedAt(a, b) : Diff!IsPrefix(f, q)
      BY <1>4, <3>1
    <3> QED
      BY <1>2, <1>5, <3>2
  <2> QED
    BY <2>1, <2>2
<1>7. Diff!ChangedFields(a, b) # {} => ~Diff!AlikeTrees(a, b)
  BY <1>5, ChangedFacts, TreesDiffer
<1>8. ~Diff!AlikeTrees(a, b) => Diff!ChangedFields(a, b) # {}
  <2> SUFFICES ASSUME NEW p, Differs(a, b, p) PROVE Diff!ChangedFields(a, b) # {}
    BY TreesDiffer
  <2>1. PICK q \in ChangedAt(a, b) : Diff!IsPrefix(q, p)
    BY <1>1, DifferenceIsFound
  <2>2. /\ q \in Path /\ Len(q) \in Nat /\ q \in DOMAIN a \union DOMAIN b
        /\ ~Diff!Descends(a, b, q)
    BY <1>1, ChangedFacts, LeafFacts
  <2>3. Len(q) >= 1
    <3>1. Len(q) = 0 => q = << >>
      BY <2>2, EmptySeq DEF Path
    <3> QED
      BY <1>1, <2>2, <3>1
  <2> DEFINE f == SubSeq(q, 1, 1)
  <2>4. f \in Path /\ Len(f) = 1 /\ f \in DOMAIN a \union DOMAIN b
    <3>1. 1 \in 0 .. Len(q)
      BY <2>2, <2>3
    <3> QED
      BY <1>1, <2>2, <3>1, PathCut, TreeFacts DEF Path
  <2>5. Diff!IsPrefix(f, q)
    BY <2>2, <2>3, <2>4, PrefixIsCut DEF Path
  <2> HIDE DEF f
  <2>6. f \in DOMAIN a
    BY <2>4
  <2> QED
    BY <1>2, <1>5, <2>4, <2>5, <2>6
<1> QED
  BY <1>6, <1>7, <1>8

\* What lies below a prefix of a path.
LEMMA BelowPrefix ==
  ASSUME NEW t, IsTree(t), NEW p \in DOMAIN t, NEW q \in Path, Diff!IsPrefix(q, p)
  PROVE  /\ q \in DOMAIN t /\ SubSeq(p, Len(q) + 1, Len(p)) \in DOMAIN Diff!At(t, q)
         /\ Diff!At(t, q)[SubSeq(p, Len(q) + 1, Len(p))] = t[p]
         /\ q \o SubSeq(p, Len(q) + 1, Len(p)) = p
<1> DEFINE r == SubSeq(p, Len(q) + 1, Len(p))
<1>1. p \in Path /\ q \in DOMAIN t
  BY TreeFacts, PrefixInTree
<1>2. r \in Path /\ q \o r = p
  BY <1>1, PathSplit DEF Path
<1> HIDE DEF r
<1>3. r \in DOMAIN Diff!At(t, q) /\ Diff!At(t, q)[r] = t[p]
  BY <1>1, <1>2, AtFacts
<1> QED
  BY <1>1, <1>2, <1>3 DEF r

\* The older version with the reported changes is the newer one, as far as == can tell.
LEMMA PatchIsNewer ==
  ASSUME IsContent(older), IsContent(newer), answer.changes = Diff!Changes(older, newer)
  PROVE  Diff!AlikeTrees(Diff!Patched, newer)
<1> DEFINE at == {e.path : e \in answer.changes}
           Kept == {p \in DOMAIN older : \A q \in at : ~Diff!IsPrefix(q, p)}
           Put == UNION {{e.path \o q : q \in DOMAIN e.new} : e \in answer.changes}
           EntryOf(p) == CHOOSE e \in answer.changes : Diff!IsPrefix(e.path, p)
           Value(p) == IF p \in Kept THEN older[p]
                       ELSE EntryOf(p).new[SubSeq(p, Len(EntryOf(p).path) + 1, Len(p))]
<1>1. Diff!Patched = [p \in Kept \union Put |-> Value(p)]
  BY Zenon DEF Diff!Patched
<1>2. IsTree(older) /\ IsTree(newer)
  BY DEF IsContent
<1>3. at = ChangedAt(older, newer)
  BY EntryFacts, EntryFields
<1>4. ASSUME NEW e \in answer.changes
      PROVE  /\ e.path \in ChangedAt(older, newer) /\ e.path \in Path
             /\ e.new = IF e.path \in DOMAIN newer THEN Diff!At(newer, e.path) ELSE << >>
  BY <1>2, EntryFacts, EntryFields, ChangedFacts, LeafFacts
<1>5. ASSUME NEW q \in ChangedAt(older, newer)
      PROVE  \E e \in answer.changes : e.path = q
  BY <1>5, EntryFacts, EntryFields
<1> HIDE DEF at
<1>6. ASSUME NEW p \in DOMAIN older, p \in Kept
      PROVE  p \in DOMAIN newer /\ Diff!Alike(older[p], newer[p])
  <2>1. ~Differs(older, newer, p)
    BY <1>2, <1>3, <1>6, DifferenceIsFound
  <2> QED
    BY <2>1 DEF Differs
<1>7. ASSUME NEW p \in Put PROVE p \in DOMAIN newer
  <2>1. PICK e \in answer.changes : p \in {e.path \o r : r \in DOMAIN e.new}
    BY <1>7, Zenon
  <2>2. PICK r \in DOMAIN e.new : p = e.path \o r
    BY <2>1
  <2>3. e.path \in Path /\ e.path \in DOMAIN newer /\ e.new = Diff!At(newer, e.path)
    <3>1. CASE e.path \notin DOMAIN newer
      <4>1. e.new = << >>
        BY <1>4, <3>1
      <4> QED
        BY <2>2, <4>1, NothingMissing
    <3> QED
      BY <1>4, <3>1
  <2> DEFINE q == e.path
  <2>4. q \in Path /\ r \in DOMAIN Diff!At(newer, q) /\ p = q \o r
    BY <2>2, <2>3
  <2> HIDE DEF q
  <2> QED
    BY <1>2, <2>4, AtFacts
<1>8. ASSUME NEW p \in DOMAIN newer, NEW e \in answer.changes, Diff!IsPrefix(e.path, p)
      PROVE  /\ p \in Put
             /\ e.new[SubSeq(p, Len(e.path) + 1, Len(p))] = newer[p]
  <2>1. e.path \in Path
    BY <1>4
  <2> DEFINE q == e.path
             r == SubSeq(p, Len(q) + 1, Len(p))
  <2>2. q \in Path /\ Diff!IsPrefix(q, p)
    BY <1>8, <2>1
  <2> HIDE DEF q
  <2>3. q \in DOMAIN newer /\ r \in DOMAIN Diff!At(newer, q) /\ Diff!At(newer, q)[r] = newer[p] /\ q \o r = p
    BY <1>2, <2>2, BelowPrefix
  <2> HIDE DEF r
  <2>4. e.new = Diff!At(newer, q)
    BY <1>4, <2>3 DEF q
  <2>5. p \in {e.path \o x : x \in DOMAIN e.new}
    BY <2>3, <2>4 DEF q
  <2>6. p \in Put
    BY <2>5, Zenon
  <2> QED
    BY <2>3, <2>4, <2>6 DEF q, r
<1>9. ASSUME NEW p \in DOMAIN newer, p \notin Kept
      PROVE  p \in Put /\ \E e \in answer.changes : Diff!IsPrefix(e.path, p)
  <2>1. \E e \in answer.changes : Diff!IsPrefix(e.path, p)
    <3>1. CASE p \in DOMAIN older
      <4>1. PICK q \in ChangedAt(older, newer) : Diff!IsPrefix(q, p)
        BY <1>3, <1>9, <3>1
      <4> QED
        BY <1>5, <4>1
    <3>2. CASE p \notin DOMAIN older
      <4>1. Differs(older, newer, p)
        BY <3>2 DEF Differs
      <4>2. PICK q \in ChangedAt(older, newer) : Diff!IsPrefix(q, p)
        BY <1>2, <4>1, DifferenceIsFound
      <4> QED
        BY <1>5, <4>2
    <3> QED
      BY <3>1, <3>2
  <2> QED
    BY <1>8, <2>1
<1>10. ASSUME NEW p \in DOMAIN newer, p \notin Kept PROVE Value(p) = newer[p]
  <2>1. EntryOf(p) \in answer.changes /\ Diff!IsPrefix(EntryOf(p).path, p)
    BY <1>9, <1>10
  <2> HIDE DEF EntryOf
  <2>2. EntryOf(p).new[SubSeq(p, Len(EntryOf(p).path) + 1, Len(p))] = newer[p]
    BY <1>8, <2>1
  <2> QED
    BY <1>10, <2>2
<1>11. \A p : p \in Kept \union Put <=> p \in DOMAIN newer
  BY <1>6, <1>7, <1>9
<1>12. \A p \in DOMAIN newer : Diff!Alike(Value(p), newer[p])
  <2> SUFFICES ASSUME NEW p \in DOMAIN newer PROVE Diff!Alike(Value(p), newer[p])
    OBVIOUS
  <2>1. CASE p \in Kept
    BY <1>6, <2>1
  <2>2. CASE p \notin Kept
    BY <1>10, <2>2 DEF Diff!Alike
  <2> QED
    BY <2>1, <2>2
<1> HIDE DEF Kept, Put, Value
<1>13. Kept \union Put = DOMAIN newer
  BY <1>11
<1> QED
  BY <1>1, <1>12, <1>13 DEF Diff!AlikeTrees

\* What is known of the answer.
DiffInv ==
  focus = "diff" =>
    /\ older \in CaseContents \union {<< >>} /\ newer \in CaseContents \union {<< >>}
    /\ answer.error \in {"not asked", "none", "incomparable", "not found"}
    /\ answer.error # "none" => answer = Diff!Error(answer.error)
    /\ answer.error = "none" =>
         /\ older \in CaseContents /\ newer \in CaseContents
         /\ answer = Diff!CaseDiff(older, newer)

LEMMA ErrorFacts ==
  \A kind : Diff!Error(kind).error = kind
BY DEF Diff!Error

LEMMA AnswerFacts ==
  ASSUME NEW a, NEW b
  PROVE  /\ Diff!CaseDiff(a, b).error = "none"
         /\ Diff!CaseDiff(a, b).changes = Diff!Changes(a, b)
         /\ Diff!CaseDiff(a, b).fields = Diff!ChangedFields(a, b)
         /\ Diff!CaseDiff(a, b).changed = (Diff!ChangedFields(a, b) # {})
BY DEF Diff!CaseDiff

THEOREM DiffInvariantHolds == Spec => []DiffInv
<1>1. Init => DiffInv
  <2> SUFFICES ASSUME Init, focus = "diff" PROVE DiffInv
    BY DEF DiffInv
  <2>1. answer = Diff!Error("not asked") /\ Diff!Error("not asked").error = "not asked"
    BY ErrorFacts DEF Init, Diff!Init, Diff!NoAnswer
  <2>2. older \in CaseContents \union {<< >>} /\ newer \in CaseContents \union {<< >>}
    BY DEF Init, Diff!Init, Diff!Missing
  <2> QED
    BY <2>1, <2>2 DEF DiffInv
<1>2. DiffInv /\ [Next]_vars => DiffInv'
  <2> SUFFICES ASSUME DiffInv, [Next]_vars PROVE DiffInv'
    OBVIOUS
  <2>1. CASE UNCHANGED <<focus, diffVars>>
    BY <2>1 DEF DiffInv, diffVars
  <2>2. CASE focus = "diff" /\ focus' = focus /\ Diff!Next
    <3>1. /\ older' = older /\ newer' = newer
          /\ \/ answer' = Diff!Error("incomparable") \/ answer' = Diff!Error("not found")
             \/ older # << >> /\ newer # << >> /\ answer' = Diff!CaseDiff(older, newer)
      BY <2>2 DEF Diff!Next, Diff!Diff, Diff!DiffVersions, Diff!Missing
    <3>2. older \in CaseContents \union {<< >>} /\ newer \in CaseContents \union {<< >>}
      BY <2>2 DEF DiffInv
    <3>3. CASE answer' = Diff!Error("incomparable")
      <4>1. answer'.error = "incomparable" /\ answer' = Diff!Error(answer'.error)
        BY <3>3, ErrorFacts
      <4> QED
        BY <3>1, <3>2, <4>1 DEF DiffInv
    <3>4. CASE answer' = Diff!Error("not found")
      <4>1. answer'.error = "not found" /\ answer' = Diff!Error(answer'.error)
        BY <3>4, ErrorFacts
      <4> QED
        BY <3>1, <3>2, <4>1 DEF DiffInv
    <3>5. CASE older # << >> /\ newer # << >> /\ answer' = Diff!CaseDiff(older, newer)
      <4>1. answer'.error = "none"
        BY <3>5, AnswerFacts
      <4> QED
        BY <3>1, <3>2, <3>5, <4>1 DEF DiffInv
    <3> QED
      BY <3>1, <3>3, <3>4, <3>5
  <2> QED
    BY <2>1, <2>2 DEF Next, vars
<1> QED
  BY <1>1, <1>2, PTL DEF Spec

\* A reviewer who acts on the reported changes gets the other version, as far as == can tell;
\* no two reports overlap and each names a difference; the fields that are flagged are those
\* that differ (cases/diff.py): for any two trees (the part of ProposalsAreFair that is about
\* the difference of two versions).
THEOREM DiffIsFaithfulHolds == Spec => [](focus = "diff" => Diff!DiffIsFaithful)
<1>1. DiffInv => (focus = "diff" => Diff!DiffIsFaithful)
  <2> SUFFICES ASSUME DiffInv, focus = "diff", answer.error = "none" PROVE Diff!DiffIsFaithful
    BY DEF Diff!DiffIsFaithful
  <2>1. /\ IsContent(older) /\ IsContent(newer) /\ IsTree(older) /\ IsTree(newer)
        /\ {p \in DOMAIN older : Len(p) = 1} = {p \in DOMAIN newer : Len(p) = 1}
    BY CaseContentsAssumption DEF DiffInv, IsContent
  <2>2. answer = Diff!CaseDiff(older, newer)
    BY DEF DiffInv
  <2>3. /\ answer.changes = Diff!Changes(older, newer)
        /\ answer.fields = Diff!ChangedFields(older, newer)
        /\ answer.changed = (Diff!ChangedFields(older, newer) # {})
    BY <2>2, AnswerFacts, Zenon
  <2>4. Diff!AlikeTrees(Diff!Patched, newer)
    BY <2>1, <2>3, PatchIsNewer
  <2>5. \A e, f \in answer.changes : Diff!IsPrefix(e.path, f.path) => e = f
    BY <2>1, <2>3, ReportsApart
  <2>6. \A e \in answer.changes : ~Diff!AlikeTrees(e.old, e.new)
    BY <2>1, <2>3, ReportsDiffer
  <2>7. /\ answer.fields = {f \in DOMAIN older : Len(f) = 1
              /\ ~Diff!AlikeTrees(Diff!At(older, f), Diff!At(newer, f))}
        /\ answer.changed <=> ~Diff!AlikeTrees(older, newer)
    BY <2>1, <2>3, FieldsAreThose, Zenon
  <2> QED
    BY <2>4, <2>5, <2>6, <2>7, Zenon DEF Diff!DiffIsFaithful
<1> QED
  BY <1>1, DiffInvariantHolds, PTL

\* The tests that are proposed for an endpoint and for a page are fair, a journey is a whole
\* part of the graph, and a difference tells two versions apart: for every set of rules, graph,
\* set of forms and pair of trees.
THEOREM ProposalsAreFairHolds == Spec => []ProposalsAreFair
<1>1. /\ focus = "plan" => Plan!SuiteIsFair
      /\ focus = "journey" => Journey!JourneyIsFaithful
      /\ focus = "journey" => Journey!PageSuiteIsFair
      /\ focus = "diff" => Diff!DiffIsFaithful
      => ProposalsAreFair
  BY DEF ProposalsAreFair
<1> QED
  BY <1>1, SuiteIsFairHolds, JourneyIsFaithfulHolds, PageSuiteHolds, DiffIsFaithfulHolds, PTL

-----------------------------------------------------------------------------
\* The types of every stage of the pipeline, whichever is in focus.
THEOREM PipelineTypesHold == Spec => []TypesOK
<1>1. ModeTargets /\ ModeNodes /\ ModePlain => (focus = "mode" => Mode!ModeBTypeOK)
  BY ModeTypesAre
<1>2. Brain!BrainTypeOK => (focus = "brain" => Brain!BrainTypeOK)
  OBVIOUS
<1>3. ParserInv => (focus = "parser" => Parser!ParserTypeOK)
  BY ParserTypes
<1>4. ChainInv => (focus = "chain" => Chain!TypeOK)
  BY DEF ChainInv
<1>5. DiffInv => (focus = "diff" => Diff!DiffTypeOK)
  BY DEF DiffInv, Diff!DiffTypeOK
<1>6. /\ focus = "mode" => Mode!ModeBTypeOK
      /\ focus = "brain" => Brain!BrainTypeOK
      /\ focus = "parser" => Parser!ParserTypeOK
      /\ focus = "chain" => Chain!TypeOK
      /\ focus = "plan" => Plan!PlanTypeOK
      /\ focus = "journey" => Journey!JourneyTypeOK
      /\ focus = "diff" => Diff!DiffTypeOK
      => TypesOK
  BY DEF TypesOK
<1> QED
  BY <1>1, <1>2, <1>3, <1>4, <1>5, <1>6, ModeTypesHold, BrainTypesHold, ParserAlways, ChainInvariantHolds,
     PlanTypesHold, JourneyTypesHold, DiffInvariantHolds, PTL
=============================================================================
