--------------------------- MODULE RuleConditions ---------------------------
(***************************************************************************)
(* The rule language of packages/domain/src/rules/evaluator.ts, and the    *)
(* test cases the worker derives from a condition in                       *)
(* apps/worker/src/policy/policy-pipeline.ts.                              *)
(*                                                                         *)
(* A value is a pair of its kind and its datum, so that values of          *)
(* different kinds can be compared: amounts are in cents, dates are days,  *)
(* a text is the sequence of its words in the case-folded form the code    *)
(* compares.  The paths of a pack are not prefixes of each other, so the   *)
(* nested object a rule reads is a function from paths to values.  Lists   *)
(* are never compared with eq or neq: the code compares them by identity.  *)
(*                                                                         *)
(* A condition is the list of its nodes in the order in which the code     *)
(* leaves them, the condition itself last.  A predicate is                 *)
(* [op, path, value]; all, any and not are [op, of] where of holds the     *)
(* places of their parts, which have no other use.                         *)
(***************************************************************************)
EXTENDS Integers, Lists

Undefined == <<"undefined", 0>>
Null == <<"null", 0>>

Num(n) == <<"num", n>>
Bool(b) == <<"bool", b>>
Text(words) == <<"text", words>>
Date(day) == <<"date", day>>
List(items) == <<"list", items>>

(* The function f, but v at x. *)
Put(f, x, v) == [y \in DOMAIN f \cup {x} |-> IF y = x THEN v ELSE f[y]]

Combinators == {"all", "any", "not"}

Operators == {"exists", "eq", "neq", "in", "contains", "gte", "lte", "before", "after"}

IsScalar(v) ==
  /\ v = <<v[1], v[2]>>
  /\ \/ v = Null
     \/ v[1] \in {"num", "date"} /\ v[2] \in Int
     \/ v[1] = "bool" /\ v[2] \in BOOLEAN
     \/ v[1] = "text" /\ IsList(v[2])

IsPredicate(node) ==
  /\ DOMAIN node = {"op", "path", "value"} /\ node.op \in Operators
  /\ CASE node.op = "exists" -> node.value \in {Bool(TRUE), Bool(FALSE)}
       [] node.op = "in" -> /\ node.value = List(node.value[2])
                            /\ IsList(node.value[2]) /\ node.value[2] # <<>>
                            /\ \A i \in DOMAIN node.value[2] : IsScalar(node.value[2][i])
       [] OTHER -> IsScalar(node.value)

(* What ConditionSchema accepts. *)
IsCondition(c) ==
  /\ IsList(c) /\ c # <<>>
  /\ \A i \in DOMAIN c :
       \/ IsPredicate(c[i])
       \/ /\ DOMAIN c[i] = {"op", "of"} /\ c[i].op \in Combinators
          /\ c[i].of # {} /\ c[i].of \subseteq 1..(i - 1)
          /\ c[i].op = "not" => Cardinality(c[i].of) = 1
  /\ \A i, j \in DOMAIN c : i # j /\ c[i].op \in Combinators /\ c[j].op \in Combinators =>
       c[i].of \cap c[j].of = {}

Leaves(c) == {i \in DOMAIN c : c[i].op \notin Combinators}

Predicates(c) == {c[i] : i \in Leaves(c)}

-----------------------------------------------------------------------------
(* Evaluation. *)

ResolvePath(input, path) ==
  IF path \in DOMAIN input THEN input[path] ELSE Undefined

(* What numbers and dates compare by; other kinds are never ordered. *)
Ordered(v) == v[1] \in {"num", "date"}

Includes(words, part) ==
  \E i \in 0..(Len(words) - Len(part)) : SubSeq(words, i + 1, i + Len(part)) = part

(* A single predicate, of the value its path resolves to. *)
Satisfies(Actual, p) ==
  LET Both == Ordered(Actual) /\ Ordered(p.value)
      Present == Actual \notin {Undefined, Null, Text(<<>>)}
  IN CASE p.op = "exists" -> Present = p.value[2]
       [] p.op = "eq" -> Actual = p.value
       [] p.op = "neq" -> Actual # p.value
       [] p.op = "in" -> Contains(p.value[2], Actual)
       [] p.op = "contains" ->
            \/ Actual[1] = "text" /\ p.value[1] = "text" /\ Includes(Actual[2], p.value[2])
            \/ Actual[1] = "list" /\ Contains(Actual[2], p.value)
       [] p.op = "gte" -> Both /\ Actual[2] >= p.value[2]
       [] p.op = "lte" -> Both /\ Actual[2] <= p.value[2]
       [] p.op = "before" -> Both /\ Actual[2] < p.value[2]
       [] p.op = "after" -> Both /\ Actual[2] > p.value[2]

(* Which nodes of a condition hold. *)
Evaluation(c, input) ==
  LET holds[i \in DOMAIN c] ==
        CASE c[i].op = "all" -> \A k \in c[i].of : holds[k]
          [] c[i].op = "any" -> \E k \in c[i].of : holds[k]
          [] c[i].op = "not" -> \A k \in c[i].of : ~holds[k]
          [] OTHER -> Satisfies(ResolvePath(input, c[i].path), c[i])
  IN holds

EvaluateCondition(c, input) == Evaluation(c, input)[Len(c)]

-----------------------------------------------------------------------------
(* Values that make a predicate true, make it false, or sit on its edge.   *)

DifferentValue(v) ==
  CASE v[1] = "num" -> Num(v[2] + 100)
    [] v[1] = "bool" -> Bool(~v[2])
    [] v[1] = "text" -> Text(Append(v[2], "(different)"))
    [] OTHER -> Text(<<"__different__">>)

ValueOutsideSet(items) ==
  IF \A i \in DOMAIN items : items[i][1] = "num"
  THEN Num(100 + Max({items[i][2] : i \in DOMAIN items}))
  ELSE Text(<<"__not_allowed__">>)

WitnessValue(p) ==
  CASE p.op = "exists" -> IF p.value[2] THEN Bool(TRUE) ELSE Undefined
    [] p.op \in {"lte", "gte", "eq"} -> p.value
    [] p.op = "neq" -> DifferentValue(p.value)
    [] p.op = "in" -> p.value[2][1]
    [] p.op = "contains" -> IF p.value[1] = "text" THEN p.value ELSE List(<<p.value>>)
    [] p.op = "before" -> Date(p.value[2] - 1)
    [] p.op = "after" -> Date(p.value[2] + 1)

CounterexampleValue(p) ==
  CASE p.op = "exists" -> IF p.value[2] THEN Undefined ELSE Bool(TRUE)
    [] p.op = "lte" /\ p.value[1] = "num" -> Num(p.value[2] + 1)
    [] p.op = "gte" /\ p.value[1] = "num" -> Num(p.value[2] - 1)
    [] p.op = "eq" -> DifferentValue(p.value)
    [] p.op \in {"neq", "before", "after"} -> p.value
    [] p.op = "in" -> ValueOutsideSet(p.value[2])
    [] p.op = "contains" -> IF p.value[1] = "text" THEN Text(<<>>) ELSE List(<<>>)
    [] OTHER -> Undefined

(* Mutant: the edge of a comparison is taken to be a value that satisfies it. *)
EdgeInside(p) == WitnessValue(p)

BoundaryValue(p) == IF p.op = "exists" THEN WitnessValue(p) ELSE p.value

-----------------------------------------------------------------------------
(* Inputs for a condition: the set is empty where the code returns null.   *)

WithPath(input, path, v) == Put(input, path, v)

WithoutPath(input, path) == Restrict(input, DOMAIN input \ {path})

(* The inputs of several parts merged: the last part that has a path wins. *)
Merged(parts) ==
  LET Input(k) == CHOOSE x \in parts[k] : TRUE
      Having(p) == {k \in DOMAIN parts : p \in DOMAIN Input(k)}
  IN IF \E k \in DOMAIN parts : parts[k] = {} THEN {}
     ELSE {[p \in UNION {DOMAIN Input(k) : k \in DOMAIN parts} |-> Input(Max(Having(p)))[p]]}

(* The inputs of the first of the parts that have one that suits. *)
FirstOf(parts, suited) == IF suited = {} THEN {} ELSE parts[Min(suited)]

(* For every node the input that makes it true, and the one that makes it false. *)
BuildInputs(c) ==
  LET Meets(i, goal, x) == Evaluation(c, x)[i] = goal
      built[i \in DOMAIN c] == [goal \in BOOLEAN |->
        LET parts == [k \in c[i].of |-> built[k][goal]]
            value == IF goal THEN WitnessValue(c[i]) ELSE CounterexampleValue(c[i])
        IN CASE c[i].op = "not" -> built[Min(c[i].of)][~goal]
             [] c[i].op = "all" /\ goal -> Merged(parts)
             [] c[i].op = "any" /\ ~goal -> {x \in Merged(parts) : Meets(i, goal, x)}
             [] c[i].op = (IF goal THEN "any" ELSE "all") ->
                  FirstOf(parts, {k \in c[i].of : \E x \in parts[k] : Meets(k, goal, x)})
             [] OTHER -> {x \in {WithPath(<<>>, c[i].path, value)} : Meets(i, goal, x)}]
  IN built

BuildWitness(c) == BuildInputs(c)[Len(c)][TRUE]

BuildCounterexample(c) == BuildInputs(c)[Len(c)][FALSE]

(* The predicate the tests turn on: the first comparison, else the first. *)
SelectTestPredicate(c) ==
  LET comparisons == {i \in Leaves(c) : c[i].op # "exists"}
  IN c[Min(IF comparisons = {} THEN Leaves(c) ELSE comparisons)]

BuildCanonicalRuleTests(c) ==
  LET primary == SelectTestPredicate(c)
      Test(kind, input) == [kind |-> kind, input |-> input, expected |-> EvaluateCondition(c, input)]
      match == BuildWitness(c)
      targeted == {WithPath(m, primary.path, CounterexampleValue(primary)) : m \in match}
      noMatch == IF \E x \in targeted : ~EvaluateCondition(c, x)
                 THEN targeted
                 ELSE BuildCounterexample(c)
  IN IF \/ \A m \in match : ~EvaluateCondition(c, m)
        \/ \A x \in noMatch : EvaluateCondition(c, x)
     THEN <<>>
     ELSE LET m == CHOOSE x \in match : TRUE
              n == CHOOSE x \in noMatch : TRUE
          IN << Test("match", m), Test("no_match", n),
                Test("missing_value", WithoutPath(m, primary.path)),
                Test("boundary", WithPath(m, primary.path, BoundaryValue(primary))) >>

-----------------------------------------------------------------------------
(* Whether a test is one of its kind, as the governance rules judge it.    *)

HasBoundaryValue(input, ps) ==
  LET comparisons == {p \in ps : p.op # "exists"}
      OnEdge(p) ==
        LET Actual == ResolvePath(input, p.path)
        IN CASE p.op = "exists" -> p.value[2] = (Actual # Undefined)
             [] p.op # "exists" /\ Actual = Undefined -> FALSE
             [] p.op = "in" /\ Actual # Undefined -> Contains(p.value[2], Actual)
             [] p.op = "contains" /\ Actual # Undefined -> Satisfies(Actual, p)
             [] OTHER -> Actual = p.value
  IN \E p \in (IF comparisons = {} THEN ps ELSE comparisons) : OnEdge(p)

RequiredTests == {"match", "no_match", "missing_value", "boundary"}

(* Mutant: a rule needs only the tests it has. *)
NoRequiredTests(tests) == {}

MissingTests(tests) == RequiredTests \ {tests[i].kind : i \in DOMAIN tests}

ValidateTestKindSemantics(c, test) ==
  CASE test.kind = "match" -> test.expected
    [] test.kind = "no_match" -> ~test.expected
    [] test.kind = "missing_value" ->
         \E p \in Predicates(c) : ResolvePath(test.input, p.path) = Undefined
    [] test.kind = "boundary" -> HasBoundaryValue(test.input, Predicates(c))

TestsHold(c, tests) ==
  \A i \in DOMAIN tests : /\ ValidateTestKindSemantics(c, tests[i])
                          /\ EvaluateCondition(c, tests[i].input) = tests[i].expected
=============================================================================
