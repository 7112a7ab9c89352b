------------------------- MODULE MC_ClientRegistry -------------------------
EXTENDS FilterMeaning

MCLetter  == {"AND", "OR", "NOT", "IN", "CONTAINS", "NOT_CONTAINS", "true",
              "id", "os", "labels", "state", "env", "x", "y", "ubuntu", "c", "nan", "_"}
MCDigit   == {"0", "1", "2"}
MCKeyword == {"AND", "OR", "NOT", "IN", "NOT_IN", "CONTAINS", "NOT_CONTAINS"}

MCNumberOf == (<<"1">> :> 1) @@ (<<"0", "1">> :> 1) @@ (<<"2">> :> 2) @@ (<<"-", "1">> :> -1)
              @@ (<<"1", ".", "0">> :> 1) @@ (<<"nan">> :> NaN)

\* "_" is spelled apart so that no symbol runs into the next.
MCSpelling ==
  [s \in {"Y", "N", "E", "AND", "OR", "NOT", "(", ")", "field", "op", "value", "[", "]", ",", "bad"} |->
     CASE s = "Y" -> <<"os", " ", "CONTAINS", " ", "'", "ubuntu", "'", " ">>
       [] s = "N" -> <<"state", ".", "x", "<", "=", "-", "1", " ">>
       [] s = "E" -> <<"state", ".", "y", ">", "1", ".", "0", " ">>
       [] s = "field" -> <<"_", "x", " ">>
       [] s = "op" -> <<"=", "=">>
       [] s = "value" -> <<"\"", "c", " ", "\"">>
       [] s = "bad" -> <<"x", "=", "1", ".", "1", ".", "1", "'", "c", " ">>
       [] s \in {"(", ")", "[", "]", ","} -> <<s>>
       [] OTHER -> <<s, " ">>]

MCTruth == [s \in {"Y", "N", "E"} |-> CASE s = "Y" -> "yes" [] s = "N" -> "no" [] OTHER -> "error"]

Number(n) == [type |-> "number", v |-> n]

Empty == [key \in {} |-> Number(0)]
State1 == <<"x">> :> Number(1)
State2 == (<<"x">> :> String(<<"2">>)) @@ (<<"y">> :> String(<<"c">>))
State3 == (<<"x">> :> [type |-> "map", v |-> State1])
          @@ (<<"y">> :> [type |-> "list", v |-> <<Number(2), Boolean(TRUE), String(<<"c">>)>>])
State4 == (<<"x">> :> [type |-> "nil"]) @@ (<<"y">> :> String(<<"nan">>))

MCSample == [id |-> <<"c", "1">>, os |-> <<"x", "ubuntu", "c">>, active |-> TRUE,
             labels |-> NoLabels, state |-> State2]

MCClient == {<<"c", "1">>, <<"0", "1">>}

MCMetadata == {[os |-> <<"x">>, labels |-> <<"env">> :> <<"c">>, state |-> Empty],
               [os |-> <<"ubuntu">>, labels |-> <<"env">> :> <<"1">>, state |-> State1]}

MCInnerState == {Empty, State2, State3, State4}

MCAlphabet == {{<<"Y">>, <<"(", "Y">>, <<"E">>, <<"N", ")">>, <<"AND">>, <<"OR">>, <<"NOT">>},
               {<<"field", "op">>, <<"value">>, <<"[">>, <<"]">>, <<",">>, <<"OR", "(">>},
               {<<"N">>, <<"bad">>, <<"(">>, <<")">>, <<"field">>, <<"op", "value">>}}

MCLabelTest ==
  [field : {<<"labels", ".", "env">>, <<"labels", ".", "env", ".", "x">>},
   op : Known, value : {String(<<"c">>), Number(1), [type |-> "nil"], [type |-> "list", v |-> <<>>]}]

MCValue == {Number(1), Number(2), Boolean(TRUE), String(<<"c">>), String(<<"0", "1">>), String(<<"2">>),
            String(<<"nan">>), String(<<"true">>), [type |-> "list", v |-> <<>>],
            [type |-> "nil"]}
           \cup {State3[key] : key \in DOMAIN State3}

MCField == {<<"id">>, <<"os">>, <<"active">>, <<"labels">>, <<"labels", ".", "env">>,
            <<"state", ".", "x">>, <<"state", ".", "y">>, <<"state", ".", "x", ".", "x">>}
=============================================================================
