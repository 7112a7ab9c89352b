---------------------------- MODULE FilterMeaning ----------------------------
(***************************************************************************)
(* The registry with the language of its filters: a symbol is a whole      *)
(* condition, whose truth for the client Sample is known, or a part of the *)
(* grammar, so that what a filter should mean can be told from its         *)
(* symbols and compared with what the parser makes of its characters.      *)
(***************************************************************************)
EXTENDS ClientRegistry

CONSTANTS Truth,   \* the verdict of a condition on Sample
          Sample   \* a client

(* What %v prints, up to strings that look like a printed list or map.     *)
RECURSIVE Format(_)
Format(x) == CASE x.type = "string" -> x.v
               [] x.type = "bool"   -> IF x.v THEN <<"true">> ELSE <<"false">>
               [] x.type = "list"   -> <<"[", [i \in DOMAIN x.v |-> Format(x.v[i])]>>
               [] x.type = "nil"    -> <<"<nil>">>
               [] OTHER             -> <<x.type, x.v>>

RECURSIVE Evaluate(_, _)
Evaluate(n, client) ==
  CASE n.kind = "nil"       -> "yes"
    [] n.kind = "condition" -> EvalCondition(n, client)
    [] n.kind = "not"       -> Denies(Evaluate(n.left, client))
    [] n.kind = "and"       -> LET l == Evaluate(n.left, client)
                               IN  IF l = "yes" THEN Evaluate(n.right, client) ELSE l
    [] n.kind = "or"        -> LET l == Evaluate(n.left, client)
                               IN  IF l = "no" THEN Evaluate(n.right, client) ELSE l

(* What ClientRegistry leaves open.                                        *)
Judge(text, client) == Evaluate(ParseFilter(text).node, client)
-----------------------------------------------------------------------------
(* A reference for the language, by what the words mean and not by how the *)
(* parser proceeds: OR binds weaker than AND, AND weaker than NOT, a pair  *)
(* of parentheses around an expression groups it.                          *)
Depth(t, i) == Cardinality({j \in 1..(i - 1) : t[j] \in {"(", "["}})
               - Cardinality({j \in 1..(i - 1) : t[j] \in {")", "]"}})

Top(t, symbol) == {i \in DOMAIN t : t[i] = symbol /\ Depth(t, i) = 0}

Before(t, i) == SubSeq(t, 1, i - 1)

After(t, i) == SubSeq(t, i + 1, Len(t))

Inside(t) == SubSeq(t, 2, Len(t) - 1)

Enclosed(t, open, close) == Len(t) > 1 /\ t[1] = open /\ t[Len(t)] = close

RECURSIVE IsItems(_)
IsValue(t) == t = <<"value">> \/ t = <<"field">> \/ t = <<"[", "]">>
IsItems(t) ==
  \/ IsValue(t)
  \/ Enclosed(t, "[", "]") /\ IsItems(Inside(t))
  \/ \E i \in Top(t, ",") : IsItems(Before(t, i)) /\ IsItems(After(t, i))

IsCondition(t) == /\ Len(t) > 2 /\ t[1] = "field" /\ t[2] = "op"
                  /\ Top(After(t, 2), ",") = {} /\ IsItems(After(t, 2))

Both(u, v) == IF "bad" \in {u, v} THEN "bad" ELSE IF u = "yes" THEN v ELSE u

Either(u, v) == IF "bad" \in {u, v} THEN "bad" ELSE IF u = "no" THEN v ELSE u

RECURSIVE Meaning(_)
Meaning(t) ==
  CASE Top(t, "OR") # {}  -> LET i == Min(Top(t, "OR"))
                             IN  Either(Meaning(Before(t, i)), Meaning(After(t, i)))
    [] Top(t, "OR") = {} /\ Top(t, "AND") # {} ->
                             LET i == Min(Top(t, "AND"))
                             IN  Both(Meaning(Before(t, i)), Meaning(After(t, i)))
    [] OTHER ->
       IF t = <<>> THEN "bad"
       ELSE IF Head(t) = "NOT" THEN LET v == Meaning(Tail(t))
                                    IN  IF v = "bad" THEN "bad" ELSE Denies(v)
       ELSE IF Enclosed(t, "(", ")") THEN Meaning(Inside(t))
       ELSE IF Len(t) = 1 /\ Head(t) \in DOMAIN Truth THEN Truth[Head(t)]
       ELSE IF IsCondition(t) THEN "no" ELSE "bad"

(* From the characters of a filter to the verdict on a client, the code    *)
(* has "standard boolean logic with parentheses for grouping"              *)
(* (README.md:388), and refuses just the texts that have no meaning;       *)
(* errors are kept from left to right (tokenize, ParseFilter and Evaluate  *)
(* in filter_parser.go and filter.go).                                     *)
ParsesStandardLogic ==
  LET parsed == ParseFilter(Text(filter))
      meant  == IF filter = <<>> THEN "yes" ELSE Meaning(Symbols(filter))
  IN  IF parsed.ok THEN Evaluate(parsed.node, Sample) = meant ELSE meant = "bad"
=============================================================================
