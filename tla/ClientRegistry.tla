--------------------------- MODULE ClientRegistry ---------------------------
(***************************************************************************)
(* The table of clients and the target filters that are resolved against   *)
(* it.  The NATS callback of client.register and the result goroutine both *)
(* upsert whole rows; ResolveClients reads them all.  Nothing ever marks a *)
(* client inactive.                                                        *)
(*                                                                         *)
(* The administrator's filter is put together from pieces, so that every   *)
(* text the bounds allow is reached.  A piece is a sequence of symbols and *)
(* Spelling gives their characters.  FilterLanguage parses a text; its     *)
(* verdict on a client is left open here and defined in FilterMeaning.     *)
(***************************************************************************)
EXTENDS FilterLanguage

CONSTANTS Client,      \* the ids, as texts
          Metadata,    \* [os, labels, state]: what a client registers with
          InnerState,  \* what a result may bring
          Alphabet,    \* sets of pieces, mixed only within one of them
          Spelling,    \* the text of a symbol
          Verdict(_, _),  \* the verdict of a text on the row of a client
          Value,       \* the values in inner states, at any depth, and literals
          LabelTest,   \* conditions that compare a label with something
          Field,       \* fields that are compared with the values
          MaxPieces,   \* bound on a filter
          MaxServed    \* bound on a filter that meets clients

States == InnerState \cup {m.state : m \in Metadata}

ASSUME BoundAssumption == MaxPieces \in Nat /\ MaxServed \in Nat
ASSUME SpellingAssumption ==
  /\ \A A \in Alphabet : A \subseteq Seq(DOMAIN Spelling)
  /\ \A s \in DOMAIN Spelling : Spelling[s] \in Seq(STRING)
ASSUME ValueAssumption ==
  /\ \A s \in States : \A key \in DOMAIN s : s[key] \in Value
  /\ \A x \in Value :
       /\ (x.type = "number") => x.v \in Int \cup {NaN}
       /\ (x.type = "bool") => x.v \in BOOLEAN
       /\ (x.type = "map") => \A key \in DOMAIN x.v : x.v[key] \in Value
ASSUME FieldAssumption == Field \subseteq Seq(STRING)
ASSUME LabelAssumption ==
  \A test \in LabelTest : /\ test.field \in Seq(STRING)
                          /\ Len(Split(test.field)) > 1
                          /\ Split(test.field)[1] = <<"labels">>

VARIABLES filter,    \* the target filter of the workflow, as pieces
          row,       \* row[c]: the row of c in table clients, or Absent
          given,     \* history: given[c], the labels c last registered with
          answered,  \* history: who has answered since it last registered
          target     \* what ResolveClients has returned last

vars == <<filter, row, given, answered, target>>

Absent == [active |-> FALSE]

NoLabels == [key \in {} |-> <<>>]

NoTarget == [ok |-> TRUE, clients |-> {}]

Init == /\ filter = <<>>
        /\ row = [c \in Client |-> Absent]
        /\ given = [c \in Client |-> NoLabels]
        /\ answered = {}
        /\ target = NoTarget

Symbols(f) == FlattenSeq(f)

Text(f) == FlattenSeq([i \in DOMAIN Symbols(f) |-> Spelling[Symbols(f)[i]]])

Row(c, os, labels, state) ==
  [id |-> c, os |-> os, labels |-> labels, state |-> state, active |-> TRUE]
-----------------------------------------------------------------------------
(* The administrator writes the filter, before any client is there.        *)
EditFilter(p) ==
  /\ Len(filter) < MaxPieces
  /\ \E A \in Alphabet : {p} \cup ToSet(filter) \subseteq A
  /\ \A c \in Client : row[c] = Absent
  /\ target = NoTarget
  /\ filter' = Append(filter, p)
  /\ UNCHANGED <<row, given, answered, target>>

(* The callback of client.register.                                        *)
Register(c, m) ==
  /\ Len(filter) <= MaxServed
  /\ row' = [row EXCEPT ![c] = Row(c, m.os, m.labels, m.state)]
  /\ given' = [given EXCEPT ![c] = m.labels]
  /\ answered' = answered \ {c}
  /\ UNCHANGED <<filter, target>>

(* Wrong: the row of a client that is known keeps its labels.              *)
HandleResultKeeping(c, state) ==
  /\ Len(filter) <= MaxServed
  /\ row' = [row EXCEPT ![c] = Row(c, <<"ubuntu">>, IF @ = Absent THEN NoLabels ELSE @.labels, state)]
  /\ answered' = answered \cup {c}
  /\ UNCHANGED <<filter, given, target>>

(* ClientRegistrationService, of a result from c.                          *)
HandleResult(c, state) ==
  /\ Len(filter) <= MaxServed
  /\ row' = [row EXCEPT ![c] = Row(c, <<"ubuntu">>, NoLabels, state)]
  /\ answered' = answered \cup {c}
  /\ UNCHANGED <<filter, given, target>>

(* Wrong: the clients found before the error are kept.                     *)
ResolutionPartial(text) ==
  LET active == {c \in Client : row[c].active}
      failed == ~ParseFilter(text).ok \/ \E c \in active : Verdict(text, row[c]) = "error"
  IN  [ok |-> ~failed, clients |-> {c \in active : Verdict(text, row[c]) = "yes"}]

(* ResolveClients: one error ends it, and TriggerWorkflow with it.         *)
Resolution(text) ==
  LET active == {c \in Client : row[c].active} IN
  IF ~ParseFilter(text).ok \/ \E c \in active : Verdict(text, row[c]) = "error"
    THEN [ok |-> FALSE, clients |-> {}]
    ELSE [ok |-> TRUE, clients |-> {c \in active : Verdict(text, row[c]) = "yes"}]

ResolveClients ==
  /\ target' = Resolution(Text(filter))
  /\ UNCHANGED <<filter, row, given, answered>>
-----------------------------------------------------------------------------
Next == \/ \E A \in Alphabet : \E p \in A : EditFilter(p)
        \/ \E c \in Client : \/ \E m \in Metadata : Register(c, m)
                             \/ \E state \in InnerState : HandleResult(c, state)
        \/ ResolveClients

Spec == Init /\ [][Next]_vars
-----------------------------------------------------------------------------
(* Every variable has its type, and only a client with a row has answered  *)
(* or is a target.                                                         *)
TypeOK == /\ Len(filter) <= MaxPieces
          /\ \A c \in Client :
               row[c] = Absent \/ /\ row[c].id = c
                                  /\ row[c].active
                                  /\ row[c].state \in States
          /\ given \in [Client -> {m.labels : m \in Metadata} \cup {NoLabels}]
          /\ \A c \in answered \cup target.clients : row[c] # Absent
          /\ ~target.ok => target.clients = {}

(* A client that has answered since it registered has no labels: whatever  *)
(* a filter compares a label with, and whether for equality or for         *)
(* difference, the client is not found, until it registers again           *)
(* (client_registration.go, against evalCondition in filter.go).           *)
AnswerDropsLabels ==
  \A c \in answered, test \in LabelTest : EvalCondition(test, row[c]) = "no"

(* However a filter ends, the parser never looks beyond its last token,    *)
(* which would be a panic: in the trigger loop it would end the server     *)
(* (peek and advance in filter_parser.go).                                 *)
ParserStaysInside ==
  LET lexed == Tokenize(Text(filter))
  IN  lexed.ok => ParseOr(lexed.tokens).at \in 1..Len(lexed.tokens)

(* How deep token i is in parentheses and brackets.                        *)
Nesting(t, i) == Cardinality({j \in 1..(i - 1) : t[j].typ \in {"(", "["}})
                 - Cardinality({j \in 1..(i - 1) : t[j].typ \in {")", "]"}})

(* The operators op from token i to token j that are no deeper than i.     *)
Outer(t, i, j, op) == {k \in i..j : IsOp(t, k, op) /\ Nesting(t, k) = Nesting(t, i)}

(* Standard boolean logic on the tokens from x[1] to x[2], by where the    *)
(* operators stand and not by how a parser proceeds: OR binds weaker than  *)
(* AND, AND weaker than NOT, operators of a kind group from the left, and  *)
(* a pair of parentheses around an expression groups it.  G[<<i, j>>] is   *)
(* what the tokens from i to j say.                                        *)
GroupedAt(t, x, G) ==
  LET i    == x[1]
      j    == x[2]
      ors  == Outer(t, i, j, "OR")
      ands == Outer(t, i, j, "AND")
      leaf == ParseCondition(t, i, Parse(t))
      Halves(kind, k) == [kind |-> kind, left |-> G[<<i, k - 1>>], right |-> G[<<k + 1, j>>]]
  IN  IF i > j THEN Everything
      ELSE IF ors # {} THEN Halves("or", Max(ors))
      ELSE IF ands # {} THEN Halves("and", Max(ands))
      ELSE IF IsOp(t, i, "NOT") THEN [kind |-> "not", left |-> G[<<i + 1, j>>]]
      ELSE IF Peek(t, i).typ = "(" /\ Peek(t, j).typ = ")" THEN G[<<i + 1, j - 1>>]
      ELSE IF leaf.at = j + 1 THEN leaf.node ELSE Everything

Grouped(t) ==
  LET G[x \in (1..(Len(t) + 1)) \X (0..Len(t))] == GroupedAt(t, x, G) IN G

(* A filter that is accepted is grouped as it is written, to its last      *)
(* token, however deep its parentheses and lists go (README.md:388 and     *)
(* the descent from parseOr in filter_parser.go).                          *)
GroupsAsWritten ==
  LET text   == Text(filter)
      tokens == Tokenize(text).tokens
      parsed == ParseFilter(text)
  IN  parsed.ok /\ (\E i \in DOMAIN text : text[i] \notin Space)
        => parsed.node = Grouped(tokens)[<<1, Len(tokens) - 1>>]

(* <= is < or ==, IN a list of one is ==, and == does not depend on the    *)
(* order.                                                                  *)
Agree(a, b) ==
  /\ EqualsAny(a, b) <=> EqualsAny(b, a)
  /\ InAny(a, [type |-> "list", v |-> <<b>>]) = CompareValues(a, <<"=", "=">>, b)
  /\ LET below == NumericCompare(a, <<"<">>, b) IN
     IF below = "error" THEN NumericCompare(b, <<">", "=">>, a) = "error"
     ELSE NumericCompare(a, <<"<", "=">>, b) = Says(below = "yes" \/ EqualsAny(a, b))

(* The operators agree with each other on every pair of values, whatever   *)
(* is taken for a number (CompareValues in filter.go).                     *)
OperatorsAgree ==
  \A c \in Client, f \in Field, b \in Value :
    row[c] # Absent =>
      LET a == GetField(row[c], f)
      IN  a # NoValue => Agree(a, b)
=============================================================================
