---------------------------- MODULE FilterValues ----------------------------
(***************************************************************************)
(* The values that target filters compare: the fields of a client, which   *)
(* client.go navigates, and the operators of filter.go.  A value is a      *)
(* record of its Go type and what is in it.  The verdict on a client is    *)
(* "yes", "no" or "error".                                                 *)
(***************************************************************************)
EXTENDS Integers, Sequences, FiniteSets

CONSTANTS NumberOf,    \* what strconv makes of a text it takes for a number
          NaN,         \* its result for "nan"
          Printed(_)   \* what %v prints of a value

ASSUME NumberAssumption == NaN \notin Int /\ \A s \in DOMAIN NumberOf : NumberOf[s] \in Int \cup {NaN}

Boolean(b) == [type |-> "bool", v |-> b]

String(val) == [type |-> "string", v |-> val]

NoValue == [type |-> "unknown field"]

(* What is found in a map when the keys of a path are followed.            *)
Navigate(map, path) ==
  LET Found[k \in 0..Len(path)] ==
        IF k = 0 THEN [type |-> "map", v |-> map]
        ELSE LET x == Found[k - 1] IN
             IF x.type = "map" /\ path[k] \in DOMAIN x.v THEN x.v[path[k]] ELSE NoValue
  IN  Found[Len(path)]

(* strings.Split at the dots.                                              *)
Split(s) ==
  LET cuts   == {0, Len(s) + 1} \cup {i \in DOMAIN s : s[i] = "."}
      cut(k) == CHOOSE i \in cuts : Cardinality({j \in cuts : j < i}) = k
  IN  [k \in 1..(Cardinality(cuts) - 1) |-> SubSeq(s, cut(k - 1) + 1, cut(k) - 1)]

GetField(client, field) ==
  LET path == Split(field)
      root == path[1] IN
  CASE root \in {<<"client_id">>, <<"id">>} -> String(client.id)
    [] root = <<"os">>     -> String(client.os)
    [] root = <<"active">> -> Boolean(client.active)
    [] root = <<"labels">> -> IF Len(path) = 1 THEN [type |-> "labels", v |-> client.labels]
                              ELSE IF path[2] \in DOMAIN client.labels
                                THEN String(client.labels[path[2]])
                              ELSE NoValue
    [] root \in {<<"state">>, <<"inner_state">>} -> Navigate(client.state, Tail(path))
    [] OTHER -> NoValue

IsFloat(x) == \/ x.type \in {"number", "bool"}
              \/ x.type = "string" /\ x.v \in DOMAIN NumberOf

ToFloat(x) == CASE x.type = "number" -> x.v
                [] x.type = "bool"   -> IF x.v THEN 1 ELSE 0
                [] OTHER             -> NumberOf[x.v]

Says(b) == IF b THEN "yes" ELSE "no"

Denies(verdict) == CASE verdict = "yes" -> "no" [] verdict = "no" -> "yes" [] OTHER -> "error"

(* Wrong: a text is never taken for a number.                              *)
EqualsAnyPrinted(a, b) ==
  IF a.type = "nil" \/ b.type = "nil" THEN a.type = b.type ELSE Printed(a) = Printed(b)

EqualsAny(a, b) ==
  IF a.type = "nil" \/ b.type = "nil" THEN a.type = b.type
  ELSE IF IsFloat(a) /\ IsFloat(b) THEN ToFloat(a) = ToFloat(b) /\ ToFloat(a) # NaN
  ELSE Printed(a) = Printed(b)

NumericCompare(a, op, b) ==
  IF ~IsFloat(a) \/ ~IsFloat(b) THEN "error"
  ELSE LET x == ToFloat(a)
           y == ToFloat(b) IN
       Says(/\ x # NaN /\ y # NaN
            /\ CASE op = <<"<">>      -> x < y
                 [] op = <<">">>      -> x > y
                 [] op = <<"<", "=">> -> x <= y
                 [] op = <<">", "=">> -> x >= y)

InAny(a, b) == IF b.type # "list" THEN "error"
               ELSE Says(\E i \in DOMAIN b.v : EqualsAny(a, b.v[i]))

IsInfix(s, t) == \E i \in 0..(Len(t) - Len(s)) : SubSeq(t, i + 1, i + Len(s)) = s

ContainsAny(a, b) == CASE a.type = "string" /\ b.type = "string" -> Says(IsInfix(b.v, a.v))
                       [] a.type = "list" -> Says(\E i \in DOMAIN a.v : EqualsAny(a.v[i], b))
                       [] OTHER           -> "error"

CompareValues(a, op, b) ==
  CASE op = <<"=", "=">>          -> Says(EqualsAny(a, b))
    [] op = <<"!", "=">>          -> Says(~EqualsAny(a, b))
    [] op = <<"IN">>              -> InAny(a, b)
    [] op = <<"NOT_IN">>          -> Denies(InAny(a, b))
    [] op = <<"CONTAINS">>        -> ContainsAny(a, b)
    [] op = <<"NOT_CONTAINS">>    -> Denies(ContainsAny(a, b))
    [] OTHER                      -> NumericCompare(a, op, b)

(* A field that the client does not have matches no condition.             *)
EvalCondition(c, client) ==
  LET x == GetField(client, c.field)
  IN  IF x = NoValue THEN "no" ELSE CompareValues(x, c.op, c.value)
=============================================================================
