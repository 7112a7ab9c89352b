--------------------------- MODULE FilterLanguage ---------------------------
(***************************************************************************)
(* The language of target filters: tokenize and the recursive descent of   *)
(* filter_parser.go.                                                       *)
(*                                                                         *)
(* A text is a sequence of characters, where a whole word may stand as one *)
(* letter.  A parse is a record: whether it is ok, the node, and the       *)
(* position of the token that is next, or that the error is about.  Lexer  *)
(* and parser are recursive functions over the positions of a text, so     *)
(* that they can be proved about.                                          *)
(***************************************************************************)
EXTENDS FilterValues, SequencesExt

CONSTANTS Letter,    \* words and letters of identifiers, and "_"
          Digit,
          Keyword    \* the words that are operators

Space == {" "}
Quote == {"'", "\""}
Punctuation == {"(", ")", "[", "]", ","}
Comparison == {"=", "!", "<", ">"}

Known == {<<"=", "=">>, <<"!", "=">>, <<"<">>, <<">">>, <<"<", "=">>, <<">", "=">>,
          <<"IN">>, <<"NOT_IN">>, <<"CONTAINS">>, <<"NOT_CONTAINS">>}

Token(typ, val) == [typ |-> typ, val |-> val]

EOF == Token("eof", <<>>)

(* The first position from i on whose character is not in C.               *)
RunEnd(s, i, C) == Min({j \in i..(Len(s) + 1) : j > Len(s) \/ s[j] \notin C})

IsNumeric(s, i) == \/ s[i] \in Digit
                   \/ s[i] = "-" /\ i < Len(s) /\ s[i + 1] \in Digit

(* The token that begins at i, and where it ends.                          *)
Lexeme(s, i) ==
  LET Upto(j, typ) == [next |-> j, token |-> Token(typ, SubSeq(s, i, j - 1))]
      close == Min({j \in (i + 1)..(Len(s) + 1) : j > Len(s) \/ s[j] = s[i]})
      end   == RunEnd(s, i, Letter \cup Digit \cup {"."}) IN
  IF s[i] \in Punctuation THEN Upto(i + 1, s[i])
  ELSE IF s[i] \in Quote THEN
    [next |-> IF close > Len(s) THEN 0 ELSE close + 1,
     token |-> Token("string", SubSeq(s, i + 1, close - 1))]
  ELSE IF IsNumeric(s, i) THEN Upto(RunEnd(s, i + 1, Digit \cup {"."}), "number")
  ELSE IF s[i] \in Comparison THEN Upto(IF i < Len(s) /\ s[i + 1] = "=" THEN i + 2 ELSE i + 1, "op")
  ELSE IF s[i] \in Letter THEN Upto(end, IF end = i + 1 /\ s[i] \in Keyword THEN "op" ELSE "ident")
  ELSE [next |-> 0, token |-> EOF]

(* The tokens from i on, where From[j] are those from j on.                *)
TokensAt(s, i, From) ==
  LET lexeme == Lexeme(s, i)
      rest   == From[lexeme.next] IN
  IF i > Len(s) THEN [ok |-> TRUE, tokens |-> <<EOF>>]
  ELSE IF s[i] \in Space THEN From[i + 1]
  ELSE IF lexeme.next = 0 THEN [ok |-> FALSE, tokens |-> <<>>]
  ELSE [ok |-> rest.ok, tokens |-> <<lexeme.token>> \o rest.tokens]

TokensFrom(s) == LET From[i \in 1..(Len(s) + 1)] == TokensAt(s, i, From) IN From

(* Wrong: the end of the text is no token.                                 *)
TokenizeEndless(s) == LET lexed == TokensFrom(s)[1]
                      IN  [lexed EXCEPT !.tokens = IF lexed.ok THEN Front(@) ELSE @]

Tokenize(s) == TokensFrom(s)[1]
-----------------------------------------------------------------------------
Everything == [kind |-> "nil"]

Failure(at) == [ok |-> FALSE, at |-> at, node |-> Everything]

Parsed(node, at) == [ok |-> TRUE, at |-> at, node |-> node]

(* Beyond the last token there is a panic; here there is a type of its own.*)
Peek(t, i) == IF i \in DOMAIN t THEN t[i] ELSE Token("panic", <<>>)

IsOp(t, i, op) == Peek(t, i) = Token("op", <<op>>)

(* The value of a number, or an error of strconv.                          *)
ParseNumber(val, at) ==
  IF val \in DOMAIN NumberOf THEN Parsed([type |-> "number", v |-> NumberOf[val]], at + 1)
  ELSE Failure(at)

(* In what follows P[<<what, j>>] is what is parsed from j on.             *)
ParseValue(t, i, P) ==
  LET token == Peek(t, i) IN
  CASE token.typ = "string" -> Parsed(String(token.val), i + 1)
    [] token.typ = "number" -> ParseNumber(token.val, i)
    [] token.typ = "ident"  -> Parsed(IF token.val \in {<<"true">>, <<"false">>}
                                        THEN Boolean(token.val = <<"true">>)
                                        ELSE String(token.val), i + 1)
    [] token.typ = "["      -> IF Peek(t, i + 1).typ = "]"
                                 THEN Parsed([type |-> "list", v |-> <<>>], i + 2)
                                 ELSE P[<<"items", i + 1>>]
    [] OTHER                -> Failure(i)

(* What is left of a list from its item at i on.                           *)
ParseItems(t, i, P) ==
  LET item   == P[<<"value", i>>]
      others == P[<<"items", item.at + 1>>]
      List(tail) == [type |-> "list", v |-> <<item.node>> \o tail] IN
  IF ~item.ok THEN item
  ELSE IF Peek(t, item.at).typ = "," THEN
    IF others.ok THEN Parsed(List(others.node.v), others.at) ELSE others
  ELSE IF Peek(t, item.at).typ = "]" THEN Parsed(List(<<>>), item.at + 1)
  ELSE Failure(item.at)

ParseCondition(t, i, P) ==
  LET value == P[<<"value", i + 2>>] IN
  IF Peek(t, i).typ # "ident" THEN Failure(i)
  ELSE IF Peek(t, i + 1).typ # "op" \/ Peek(t, i + 1).val \notin Known THEN Failure(i + 1)
  ELSE IF ~value.ok THEN value
  ELSE Parsed([kind |-> "condition", field |-> t[i].val, op |-> t[i + 1].val,
               value |-> value.node], value.at)

Join(kind, left, right) ==
  IF ~right.ok THEN right
  ELSE Parsed([kind |-> kind, left |-> left.node, right |-> right.node], right.at)

(* One round of the loop of parseOr or parseAnd.                           *)
OneMore(t, left, P, op, kind, operand) ==
  IF left.ok /\ IsOp(t, left.at, op) THEN Join(kind, left, P[<<operand, left.at + 1>>])
  ELSE left

(* The whole loop: there are fewer operators than tokens.                  *)
Chain(t, i, P, op, kind, operand) ==
  LET Round[n \in 0..Len(t)] == IF n = 0 THEN P[<<operand, i>>]
                                ELSE OneMore(t, Round[n - 1], P, op, kind, operand)
  IN  Round[Len(t)]

ParsePrimary(t, i, P) ==
  LET inner == P[<<"or", i + 1>>] IN
  IF Peek(t, i).typ # "(" THEN ParseCondition(t, i, P)
  ELSE IF ~inner.ok THEN inner
  ELSE IF Peek(t, inner.at).typ = ")" THEN Parsed(inner.node, inner.at + 1)
  ELSE Failure(inner.at)

(* Wrong: NOT takes the whole conjunction that follows.                    *)
ParseNotWide(t, i, P) ==
  LET inner == P[<<"and", i + 1>>] IN
  IF ~IsOp(t, i, "NOT") THEN ParsePrimary(t, i, P)
  ELSE IF inner.ok THEN Parsed([kind |-> "not", left |-> inner.node], inner.at)
  ELSE inner

ParseNot(t, i, P) ==
  LET inner == P[<<"not", i + 1>>] IN
  IF ~IsOp(t, i, "NOT") THEN ParsePrimary(t, i, P)
  ELSE IF inner.ok THEN Parsed([kind |-> "not", left |-> inner.node], inner.at)
  ELSE inner

(* The functions of the parser as one, since they call each other.         *)
Level == {"value", "items", "not", "and", "or"}

ParseAt(t, x, P) ==
  CASE x[1] = "value" -> ParseValue(t, x[2], P)
    [] x[1] = "items" -> ParseItems(t, x[2], P)
    [] x[1] = "not"   -> ParseNot(t, x[2], P)
    [] x[1] = "and"   -> Chain(t, x[2], P, "AND", "and", "not")
    [] x[1] = "or"    -> Chain(t, x[2], P, "OR", "or", "and")

Parse(t) == LET P[x \in Level \X (1..(Len(t) + 1))] == ParseAt(t, x, P) IN P

ParseOr(t) == Parse(t)[<<"or", 1>>]

(* Wrong: what follows the expression is not looked at.                    *)
ParseFilterPrefix(s) ==
  LET lexed == Tokenize(s)
  IN  IF \A i \in DOMAIN s : s[i] \in Space THEN Parsed(Everything, 1)
      ELSE IF ~lexed.ok THEN Failure(1)
      ELSE ParseOr(lexed.tokens)

ParseFilter(s) ==
  LET lexed == Tokenize(s)
      expr  == ParseOr(lexed.tokens)
  IN  IF \A i \in DOMAIN s : s[i] \in Space THEN Parsed(Everything, 1)
      ELSE IF ~lexed.ok THEN Failure(1)
      ELSE IF expr.ok /\ Peek(lexed.tokens, expr.at) # EOF THEN Failure(expr.at)
      ELSE expr
=============================================================================
