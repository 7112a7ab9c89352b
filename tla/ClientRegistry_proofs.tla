------------------------ MODULE ClientRegistry_proofs ------------------------
(***************************************************************************)
(* Proofs about ClientRegistry, for any clients, labels, inner states,     *)
(* filters and values: an answer takes the labels of a client away, the    *)
(* operators agree, and the parser stays within its tokens and groups what *)
(* it accepts as standard boolean logic does.                              *)
(***************************************************************************)
EXTENDS ClientRegistry, NaturalLemmas, FiniteSetTheorems

(* The rows that a client may have.                                        *)
RowOf(c) == {Row(c, os, labels, state) :
               os \in {<<"ubuntu">>} \cup {m.os : m \in Metadata},
               labels \in {NoLabels} \cup {m.labels : m \in Metadata},
               state \in States}

(* What is inductive: the types, that nobody without a row has answered or *)
(* been found, and that whoever has answered is left without labels.       *)
Typed ==
  /\ filter \in Seq(UNION Alphabet)
  /\ Len(filter) <= MaxPieces
  /\ row \in [Client -> {Absent} \cup UNION {RowOf(c) : c \in Client}]
  /\ \A c \in Client : row[c] \in {Absent} \cup RowOf(c)
  /\ given \in [Client -> {m.labels : m \in Metadata} \cup {NoLabels}]
  /\ answered \subseteq Client
  /\ target \in [ok : BOOLEAN, clients : SUBSET Client]
  /\ \A c \in answered \cup target.clients : row[c] # Absent
  /\ ~target.ok => target.clients = {}

Unlabelled == \A c \in answered : row[c].labels = NoLabels

IInv == Typed /\ Unlabelled

(* A row is what it is made of.                                            *)
LEMMA RowFields ==
  ASSUME NEW c, NEW r \in RowOf(c)
  PROVE  /\ r.id = c /\ r.active /\ r.state \in States
         /\ r # Absent
BY DEF RowOf, Row, Absent

(* At first there is nobody.                                               *)
LEMMA InitIInv == Init => IInv
<1>. SUFFICES ASSUME Init PROVE IInv
  OBVIOUS
<1>1. filter \in Seq(UNION Alphabet) /\ Len(filter) <= MaxPieces
  BY BoundAssumption DEF Init
<1>2. given \in [Client -> {m.labels : m \in Metadata} \cup {NoLabels}]
  BY DEF Init
<1>. QED
  BY <1>1, <1>2 DEF Init, IInv, Typed, Unlabelled, NoTarget

(* Editing the filter.                                                     *)
LEMMA EditKeeps ==
  ASSUME IInv, NEW A \in Alphabet, NEW p \in A, EditFilter(p)
  PROVE  IInv'
<1>1. p \in UNION Alphabet
  OBVIOUS
<1>2. filter' \in Seq(UNION Alphabet) /\ Len(filter') = Len(filter) + 1
  BY <1>1 DEF IInv, Typed, EditFilter
<1>3. Len(filter) \in Nat /\ Len(filter) < MaxPieces
  BY DEF IInv, Typed, EditFilter
<1>4. Len(filter') <= MaxPieces
  BY <1>2, <1>3, BoundAssumption
<1>. QED
  BY <1>2, <1>4 DEF IInv, Typed, Unlabelled, EditFilter

(* A new row for one client, with labels or without.                       *)
LEMMA RowKeeps ==
  ASSUME IInv, NEW c \in Client, NEW r \in RowOf(c), row' = [row EXCEPT ![c] = r],
         answered' \subseteq answered \cup {c}, c \in answered' => r.labels = NoLabels,
         UNCHANGED <<filter, target>>,
         given' \in [Client -> {m.labels : m \in Metadata} \cup {NoLabels}]
  PROVE  IInv'
<1>1. row'[c] = r /\ \A d \in Client \ {c} : row'[d] = row[d]
  BY DEF IInv, Typed
<1>2. row' \in [Client -> {Absent} \cup UNION {RowOf(d) : d \in Client}]
  BY DEF IInv, Typed
<1>3. \A d \in Client : row'[d] \in {Absent} \cup RowOf(d)
  BY <1>1 DEF IInv, Typed
<1>4. \A d \in answered' \cup target'.clients : row'[d] # Absent
  BY <1>1, RowFields DEF IInv, Typed
<1>5. Typed'
  BY <1>2, <1>3, <1>4 DEF IInv, Typed
<1>6. Unlabelled'
  BY <1>1 DEF IInv, Typed, Unlabelled
<1>. QED
  BY <1>5, <1>6 DEF IInv

(* Registering.                                                            *)
LEMMA RegisterKeeps ==
  ASSUME IInv, NEW c \in Client, NEW m \in Metadata, Register(c, m)
  PROVE  IInv'
<1>. DEFINE r == Row(c, m.os, m.labels, m.state)
<1>1. r \in RowOf(c)
  BY DEF RowOf, States
<1>2. row' = [row EXCEPT ![c] = r] /\ answered' = answered \ {c} /\ UNCHANGED <<filter, target>>
  BY DEF Register
<1>3. given' \in [Client -> {n.labels : n \in Metadata} \cup {NoLabels}]
  BY DEF Register, IInv, Typed
<1>. HIDE DEF r
<1>. QED
  BY <1>1, <1>2, <1>3, RowKeeps

(* A result.                                                               *)
LEMMA ResultKeeps ==
  ASSUME IInv, NEW c \in Client, NEW state \in InnerState, HandleResult(c, state)
  PROVE  IInv'
<1>. DEFINE r == Row(c, <<"ubuntu">>, NoLabels, state)
<1>1. r \in RowOf(c) /\ r.labels = NoLabels
  <2>1. r \in RowOf(c)
    BY DEF RowOf, States
  <2>2. r.labels = NoLabels
    BY DEF Row
  <2>. QED
    BY <2>1, <2>2
<1>2. row' = [row EXCEPT ![c] = r] /\ answered' = answered \cup {c} /\ UNCHANGED <<filter, given, target>>
  BY DEF HandleResult
<1>3. given' \in [Client -> {n.labels : n \in Metadata} \cup {NoLabels}]
  BY <1>2 DEF IInv, Typed
<1>. HIDE DEF r
<1>. QED
  BY <1>1, <1>2, <1>3, RowKeeps

(* Whoever is found has a row.                                             *)
LEMMA ResolveKeeps ==
  ASSUME IInv, ResolveClients
  PROVE  IInv'
<1>1. target' \in [ok : BOOLEAN, clients : SUBSET Client]
  BY DEF ResolveClients, Resolution
<1>2. \A c \in target'.clients : c \in Client /\ row[c].active
  BY DEF ResolveClients, Resolution
<1>3. ~target'.ok => target'.clients = {}
  BY DEF ResolveClients, Resolution
<1>4. \A c \in target'.clients : row[c] # Absent
  BY <1>2 DEF Absent
<1>. QED
  BY <1>1, <1>3, <1>4 DEF IInv, Typed, Unlabelled, ResolveClients

(* The invariant.                                                          *)
LEMMA Invariance == Spec => []IInv
<1>1. Init => IInv
  BY InitIInv
<1>2. IInv /\ [Next]_vars => IInv'
  <2>. SUFFICES ASSUME IInv, [Next]_vars PROVE IInv'
    OBVIOUS
  <2>1. CASE \E A \in Alphabet : \E p \in A : EditFilter(p)
    BY <2>1, EditKeeps
  <2>2. CASE \E c \in Client : \E m \in Metadata : Register(c, m)
    BY <2>2, RegisterKeeps
  <2>3. CASE \E c \in Client : \E state \in InnerState : HandleResult(c, state)
    BY <2>3, ResultKeeps
  <2>4. CASE ResolveClients
    BY <2>4, ResolveKeeps
  <2>5. CASE UNCHANGED vars
    BY <2>5 DEF vars, IInv, Typed, Unlabelled
  <2>. QED
    BY <2>1, <2>2, <2>3, <2>4, <2>5 DEF Next
<1>. QED
  BY <1>1, <1>2, PTL DEF Spec

(* Every variable has its type in every behaviour, and only a client with  *)
(* a row has answered or is a target (client_registration.go and           *)
(* ResolveClients).                                                        *)
THEOREM Typing == Spec => []TypeOK
<1>1. IInv => TypeOK
  BY RowFields DEF IInv, Typed, TypeOK
<1>. QED
  BY <1>1, Invariance, PTL
-----------------------------------------------------------------------------
(* A path is a sequence and has at least one part.                         *)
LEMMA SplitIsPath ==
  ASSUME NEW s \in Seq(STRING)
  PROVE  \E S : Split(s) \in Seq(S) /\ Split(s) # <<>>
<1>. DEFINE cuts == {0, Len(s) + 1} \cup {i \in DOMAIN s : s[i] = "."}
            cut(k) == CHOOSE i \in cuts : Cardinality({j \in cuts : j < i}) = k
            part(k) == SubSeq(s, cut(k - 1) + 1, cut(k) - 1)
            n == Cardinality(cuts) - 1
            S == {part(k) : k \in 1..n}
<1>1. Len(s) \in Nat /\ DOMAIN s = 1..Len(s)
  OBVIOUS
<1>2. IsFiniteSet(cuts)
  <2>1. cuts \subseteq 0..(Len(s) + 1)
    BY <1>1
  <2>2. IsFiniteSet(0..(Len(s) + 1))
    BY <1>1, FS_Interval
  <2>. QED
    BY <2>1, <2>2, FS_Subset
<1>3. n \in Nat /\ n > 0
  <2>1. Cardinality({0}) = 1 /\ IsFiniteSet({0}) /\ {0, Len(s) + 1} = {0} \cup {Len(s) + 1}
    BY FS_Singleton
  <2>2. Cardinality({0, Len(s) + 1}) = 2
    <3>1. Len(s) + 1 \notin {0}
      BY <1>1
    <3>2. Cardinality({0} \cup {Len(s) + 1}) = Cardinality({0}) + 1
      BY <2>1, <3>1, FS_AddElement
    <3>. QED
      BY <2>1, <3>2
  <2>3. {0, Len(s) + 1} \in SUBSET cuts
    OBVIOUS
  <2>. HIDE DEF cuts
  <2>4. Cardinality(cuts) \in Nat /\ Cardinality({0, Len(s) + 1}) <= Cardinality(cuts)
    BY <1>2, <2>3, FS_CardinalityType, FS_Subset
  <2>. QED
    BY <2>2, <2>4
<1>4. Split(s) = [k \in 1..n |-> part(k)]
  BY DEF Split
<1>. HIDE DEF n, part
<1>5. [k \in 1..n |-> part(k)] \in [1..n -> S]
  OBVIOUS
<1>. HIDE DEF S
<1>6. Split(s) \in Seq(S) /\ Len(Split(s)) = n
  BY <1>3, <1>4, <1>5
<1>. QED
  BY <1>3, <1>6

(* There is no label in the row of a client that has answered: no field of *)
(* labels has a value.                                                     *)
LEMMA NoLabelHasAValue ==
  ASSUME NEW client, client.labels = NoLabels, NEW field \in Seq(STRING),
         Len(Split(field)) > 1, Split(field)[1] = <<"labels">>
  PROVE  GetField(client, field) = NoValue
<1>1. Len(Split(field)) # 1
  <2>1. PICK S : Split(field) \in Seq(S)
    BY SplitIsPath
  <2>2. Len(Split(field)) \in Nat
    BY <2>1
  <2>3. \A n \in Nat : n > 1 => n # 1
    OBVIOUS
  <2>. QED
    BY <2>2, <2>3, Zenon
<1>2. DOMAIN client.labels = {}
  BY DEF NoLabels
<1>3. /\ <<"labels">> \notin {<<"client_id">>, <<"id">>}
      /\ <<"labels">> # <<"os">> /\ <<"labels">> # <<"active">>
  OBVIOUS
<1>. QED
  BY <1>1, <1>2, <1>3 DEF GetField

(* A client that has answered since it registered has no labels in any     *)
(* behaviour: no condition on a label finds it, whatever its operator      *)
(* (client_registration.go, against evalCondition in filter.go).           *)
THEOREM LabelsDropped == Spec => []AnswerDropsLabels
<1>1. IInv => AnswerDropsLabels
  <2>. SUFFICES ASSUME IInv, NEW c \in answered, NEW test \in LabelTest
                PROVE  EvalCondition(test, row[c]) = "no"
    BY DEF AnswerDropsLabels
  <2>1. row[c].labels = NoLabels
    BY DEF IInv, Unlabelled
  <2>2. GetField(row[c], test.field) = NoValue
    BY <2>1, LabelAssumption, NoLabelHasAValue
  <2>. QED
    BY <2>2 DEF EvalCondition
<1>. QED
  BY <1>1, Invariance, PTL
-----------------------------------------------------------------------------
(* What a number and a truth value hold.                                   *)
Proper(x) == /\ (x.type = "number") => x.v \in Int \cup {NaN}
             /\ (x.type = "bool") => x.v \in BOOLEAN

(* A steps through map along path.                                         *)
IsSteps(f, map, path, N) ==
  /\ f[0] = [type |-> "map", v |-> map]
  /\ \A k \in 1..N : f[k] = LET x == f[k - 1] IN
       IF x.type = "map" /\ path[k] \in DOMAIN x.v THEN x.v[path[k]] ELSE NoValue

(* There are such steps, all the way.                                      *)
LEMMA StepsExist ==
  ASSUME NEW map, NEW path, NEW N \in Nat
  PROVE  \E f : f = [k \in 0..N |-> f[k]] /\ IsSteps(f, map, path, N)
<1>. DEFINE Step(x, key) == IF x.type = "map" /\ key \in DOMAIN x.v THEN x.v[key] ELSE NoValue
            S == {n \in 0..N : \E f : f = [k \in 0..n |-> f[k]] /\ IsSteps(f, map, path, n)}
<1>1. 0 \in S
  <2>. DEFINE f == [k \in 0..0 |-> [type |-> "map", v |-> map]]
  <2>1. f = [k \in 0..0 |-> f[k]] /\ f[0] = [type |-> "map", v |-> map]
    OBVIOUS
  <2>2. IsSteps(f, map, path, 0)
    BY <2>1 DEF IsSteps
  <2>. QED
    BY <2>1, <2>2
<1>2. ASSUME NEW n \in 1..N, n - 1 \in S PROVE n \in S
  <2>1. PICK f : IsSteps(f, map, path, n - 1)
    BY <1>2
  <2>. DEFINE last == Step(f[n - 1], path[n])
              g == [k \in 0..n |-> IF k = n THEN last ELSE f[k]]
  <2>. HIDE DEF last
  <2>2. g = [k \in 0..n |-> g[k]]
    OBVIOUS
  <2>3. g[n] = last /\ \A k \in 0..(n - 1) : g[k] = f[k]
    OBVIOUS
  <2>. HIDE DEF g
  <2>4. IsSteps(g, map, path, n)
    <3>1. g[0] = [type |-> "map", v |-> map]
      <4>1. 0 \in 0..(n - 1)
        OBVIOUS
      <4>. QED
        BY <2>1, <2>3, <4>1 DEF IsSteps
    <3>2. ASSUME NEW k \in 1..n PROVE g[k] = Step(g[k - 1], path[k])
      <4>1. CASE k = n
        <5>1. g[k - 1] = f[n - 1]
          BY <2>3, <4>1
        <5>. QED
          BY <2>3, <4>1, <5>1 DEF last
      <4>2. CASE k # n
        <5>1. k \in 1..(n - 1) /\ k \in 0..(n - 1) /\ k - 1 \in 0..(n - 1)
          BY <4>2
        <5>2. g[k] = f[k] /\ g[k - 1] = f[k - 1]
          BY <2>3, <5>1
        <5>3. f[k] = Step(f[k - 1], path[k])
          BY <2>1, <5>1 DEF IsSteps
        <5>. QED
          BY <5>2, <5>3
      <4>. QED
        BY <4>1, <4>2
    <3>. QED
      BY <3>1, <3>2 DEF IsSteps
  <2>. QED
    BY <2>2, <2>4
<1>. HIDE DEF S
<1>3. \A n \in 0..N : n \in S
  BY <1>1, <1>2, UpTo, Zenon
<1>. QED
  BY <1>3 DEF S

(* What is found in an inner state is a value, if it is anything: a value  *)
(* that is a map holds values only.                                        *)
LEMMA NavigateStays ==
  ASSUME NEW state \in States, NEW S, NEW path \in Seq(S)
  PROVE  Navigate(state, path) \in Value \cup {NoValue, [type |-> "map", v |-> state]}
<1>. DEFINE N == Len(path)
            Root == [type |-> "map", v |-> state]
            V == Value \cup {NoValue, Root}
            Eq(f) == f = [k \in 0..Len(path) |->
                            IF k = 0 THEN [type |-> "map", v |-> state]
                            ELSE LET x == f[k - 1] IN
                                 IF x.type = "map" /\ path[k] \in DOMAIN x.v THEN x.v[path[k]]
                                 ELSE NoValue]
            Found == CHOOSE f : Eq(f)
<1>1. N \in Nat
  OBVIOUS
<1>2. ASSUME NEW x \in V, x.type = "map", NEW key \in DOMAIN x.v
      PROVE  x.v[key] \in V
  <2>1. CASE x \in Value
    BY <1>2, <2>1, ValueAssumption
  <2>2. CASE x = NoValue
    BY <1>2, <2>2 DEF NoValue
  <2>3. CASE x = Root
    <3>1. x.v = state
      BY <2>3
    <3>. QED
      BY <1>2, <3>1, ValueAssumption
  <2>. QED
    BY <2>1, <2>2, <2>3
<1>3. \E f : Eq(f)
  <2>1. PICK f : f = [k \in 0..N |-> f[k]] /\ IsSteps(f, state, path, N)
    BY <1>1, StepsExist
  <2>. DEFINE F(k) == IF k = 0 THEN [type |-> "map", v |-> state]
                      ELSE LET x == f[k - 1] IN
                           IF x.type = "map" /\ path[k] \in DOMAIN x.v THEN x.v[path[k]]
                           ELSE NoValue
  <2>2. \A k \in 0..N : f[k] = F(k)
    BY <1>1, <2>1 DEF IsSteps
  <2>3. f = [k \in 0..N |-> f[k]]
    BY <2>1
  <2>4. [k \in 0..N |-> f[k]] = [k \in 0..N |-> F(k)]
    <3>. HIDE DEF F, N
    <3>. QED
      BY <2>2
  <2>5. f = [k \in 0..N |-> F(k)]
    BY <2>3, <2>4, Zenon
  <2>. QED
    BY <2>5
<1>4. Eq(Found)
  BY <1>3
<1>5. Navigate(state, path) = Found[N]
  BY DEF Navigate
<1>. DEFINE T == {k \in 0..N : Found[k] \in V}
<1>. HIDE DEF Found
<1>6. Found[0] = Root
  BY <1>1, <1>4
<1>7. ASSUME NEW k \in 1..N
      PROVE  Found[k] = LET x == Found[k - 1] IN
                        IF x.type = "map" /\ path[k] \in DOMAIN x.v THEN x.v[path[k]]
                        ELSE NoValue
  <2>1. k \in 0..N /\ k # 0
    BY <1>1
  <2>. QED
    BY <1>4, <2>1
<1>. HIDE DEF Eq, N
<1>8. 0 \in T
  BY <1>1, <1>6
<1>9. ASSUME NEW k \in 1..N, k - 1 \in T PROVE k \in T
  BY <1>1, <1>2, <1>7, <1>9
<1>. HIDE DEF T
<1>10. \A k \in 0..N : k \in T
  BY <1>1, <1>8, <1>9, UpTo, Zenon
<1>. QED
  BY <1>1, <1>5, <1>10 DEF T

(* The field of a row holds a proper value, if it holds any.               *)
LEMMA FieldsAreProper ==
  ASSUME NEW c, NEW r \in RowOf(c), NEW field \in Seq(STRING), GetField(r, field) # NoValue
  PROVE  Proper(GetField(r, field))
<1>. DEFINE path == Split(field)
            found == Navigate(r.state, Tail(path))
<1>1. PICK S : path \in Seq(S) /\ path # <<>>
  BY SplitIsPath
<1>. HIDE DEF path
<1>2. Tail(path) \in Seq(S)
  BY <1>1
<1>3. found \in Value \cup {NoValue, [type |-> "map", v |-> r.state]}
  BY <1>2, RowFields, NavigateStays
<1>4. Proper(found)
  <2>1. CASE found \in Value
    BY <2>1, ValueAssumption DEF Proper
  <2>2. CASE found = NoValue
    <3>1. NoValue.type = "unknown field"
      BY DEF NoValue
    <3>. HIDE DEF found
    <3>. QED
      BY <2>2, <3>1 DEF Proper
  <2>3. CASE found = [type |-> "map", v |-> r.state]
    <3>1. found.type = "map"
      BY <2>3
    <3>. HIDE DEF found
    <3>. QED
      BY <3>1 DEF Proper
  <2>. QED
    BY <1>3, <2>1, <2>2, <2>3
<1>. HIDE DEF found
<1>5. \A x : Proper(String(x)) /\ Proper([type |-> "labels", v |-> x])
  BY DEF Proper, String
<1>6. Proper(Boolean(r.active))
  BY RowFields DEF Proper, Boolean
<1>7. GetField(r, field) \in {String(r.id), String(r.os), Boolean(r.active),
                              [type |-> "labels", v |-> r.labels],
                              String(r.labels[path[2]]), found, NoValue}
  BY DEF GetField, path, found
<1>. QED
  BY <1>4, <1>5, <1>6, <1>7

(* What is taken for a number is one, and is not nil.                      *)
LEMMA FloatsAreNumbers ==
  ASSUME NEW x, Proper(x), IsFloat(x)
  PROVE  ToFloat(x) \in Int \cup {NaN} /\ x.type # "nil"
<1>1. CASE x.type = "number"
  BY <1>1 DEF Proper, ToFloat
<1>2. CASE x.type = "bool"
  BY <1>2 DEF Proper, ToFloat
<1>3. CASE x.type = "string" /\ x.v \in DOMAIN NumberOf
  BY <1>3, NumberAssumption DEF ToFloat
<1>. QED
  BY <1>1, <1>2, <1>3 DEF IsFloat

(* Of two numbers, or of none.                                             *)
LEMMA Trichotomy ==
  ASSUME NEW x \in Int \cup {NaN}, NEW y \in Int \cup {NaN}
  PROVE  /\ x # NaN /\ y # NaN /\ x <= y <=> (x # NaN /\ y # NaN /\ x < y) \/ (x = y /\ x # NaN)
<1>1. CASE x = NaN \/ y = NaN
  BY <1>1
<1>2. CASE x # NaN /\ y # NaN
  <2>1. x \in Int /\ y \in Int
    BY <1>2
  <2>. QED
    BY <1>2, <2>1
<1>. QED
  BY <1>1, <1>2

(* The operators agree on every two proper values.                         *)
LEMMA ProperValuesAgree ==
  ASSUME NEW a, NEW b, Proper(a), Proper(b)
  PROVE  Agree(a, b)
<1>1. EqualsAny(a, b) <=> EqualsAny(b, a)
  BY DEF EqualsAny
<1>2. InAny(a, [type |-> "list", v |-> <<b>>]) = CompareValues(a, <<"=", "=">>, b)
  <2>. DEFINE list == [type |-> "list", v |-> <<b>>]
  <2>1. list.type = "list" /\ DOMAIN list.v = {1} /\ list.v[1] = b
    OBVIOUS
  <2>2. CompareValues(a, <<"=", "=">>, b) = Says(EqualsAny(a, b))
    BY DEF CompareValues
  <2>. HIDE DEF list
  <2>3. InAny(a, list) = Says(EqualsAny(a, b))
    BY <2>1 DEF InAny, Says
  <2>. QED
    BY <2>2, <2>3 DEF list
<1>. DEFINE below == NumericCompare(a, <<"<">>, b)
<1>3. IF below = "error" THEN NumericCompare(b, <<">", "=">>, a) = "error"
      ELSE NumericCompare(a, <<"<", "=">>, b) = Says(below = "yes" \/ EqualsAny(a, b))
  <2>1. CASE ~IsFloat(a) \/ ~IsFloat(b)
    BY <2>1 DEF NumericCompare
  <2>2. CASE IsFloat(a) /\ IsFloat(b)
    <3>. DEFINE x == ToFloat(a)
                y == ToFloat(b)
    <3>1. x \in Int \cup {NaN} /\ y \in Int \cup {NaN} /\ a.type # "nil" /\ b.type # "nil"
      BY <2>2, FloatsAreNumbers
    <3>2. EqualsAny(a, b) <=> x = y /\ x # NaN
      BY <2>2, <3>1 DEF EqualsAny
    <3>3. below = Says(x # NaN /\ y # NaN /\ x < y)
      BY <2>2 DEF NumericCompare
    <3>4. NumericCompare(a, <<"<", "=">>, b) = Says(x # NaN /\ y # NaN /\ x <= y)
      <4>1. <<"<", "=">> # <<"<">> /\ <<"<", "=">> # <<">">>
        OBVIOUS
      <4>. QED
        BY <2>2, <4>1 DEF NumericCompare
    <3>5. x # NaN /\ y # NaN /\ x <= y <=> (x # NaN /\ y # NaN /\ x < y) \/ (x = y /\ x # NaN)
      BY <3>1, Trichotomy
    <3>. HIDE DEF x, y, below
    <3>6. below # "error" /\ (below = "yes" <=> x # NaN /\ y # NaN /\ x < y)
      BY <3>3 DEF Says
    <3>. QED
      BY <3>2, <3>4, <3>5, <3>6 DEF Says
  <2>. QED
    BY <2>1, <2>2
<1>. QED
  BY <1>1, <1>2, <1>3 DEF Agree

(* In any behaviour the operators agree on whatever a client holds and any *)
(* value (CompareValues in filter.go).                                     *)
THEOREM OperatorAgreement == Spec => []OperatorsAgree
<1>1. IInv => OperatorsAgree
  <2>. SUFFICES ASSUME IInv, NEW c \in Client, NEW f \in Field, NEW b \in Value,
                       row[c] # Absent, GetField(row[c], f) # NoValue
                PROVE  Agree(GetField(row[c], f), b)
    BY DEF OperatorsAgree
  <2>1. row[c] \in RowOf(c) /\ f \in Seq(STRING)
    BY FieldAssumption DEF IInv, Typed
  <2>2. Proper(GetField(row[c], f))
    BY <2>1, FieldsAreProper
  <2>3. Proper(b)
    BY ValueAssumption DEF Proper
  <2>. QED
    BY <2>2, <2>3, ProperValuesAgree
<1>. QED
  BY <1>1, Invariance, PTL
-----------------------------------------------------------------------------
(* The text of a filter.                                                   *)

(* What F should be up to n: the first of the sequences, joined.           *)
IsJoined(F, seqs, n) ==
  \A i \in 1..n : F[i] = IF i = 1 THEN seqs[i] ELSE F[i - 1] \o seqs[i]

(* It exists.                                                              *)
LEMMA JoinedExist ==
  ASSUME NEW seqs, NEW N \in Nat
  PROVE  \E F : F = [i \in 1..N |-> F[i]] /\ IsJoined(F, seqs, N)
<1>. DEFINE S == {n \in 0..N : \E F : F = [i \in 1..n |-> F[i]] /\ IsJoined(F, seqs, n)}
<1>1. 0 \in S
  <2>. DEFINE F == [i \in 1..0 |-> 0]
  <2>1. F = [i \in 1..0 |-> F[i]]
    OBVIOUS
  <2>. HIDE DEF F
  <2>2. IsJoined(F, seqs, 0)
    BY DEF IsJoined
  <2>3. \E f : f = [i \in 1..0 |-> f[i]] /\ IsJoined(f, seqs, 0)
    BY <2>1, <2>2, Zenon
  <2>4. 0 \in 0..N
    OBVIOUS
  <2>. QED
    BY <2>3, <2>4, Zenon
<1>2. ASSUME NEW n \in 1..N, n - 1 \in S PROVE n \in S
  <2>1. PICK F : IsJoined(F, seqs, n - 1)
    BY <1>2
  <2>. DEFINE last == IF n = 1 THEN seqs[n] ELSE F[n - 1] \o seqs[n]
              H == [i \in 1..n |-> IF i = n THEN last ELSE F[i]]
  <2>. HIDE DEF last
  <2>2. H = [i \in 1..n |-> H[i]]
    OBVIOUS
  <2>3. H[n] = last /\ \A i \in 1..(n - 1) : H[i] = F[i]
    OBVIOUS
  <2>. HIDE DEF H
  <2>4. ASSUME NEW i \in 1..n PROVE H[i] = IF i = 1 THEN seqs[i] ELSE H[i - 1] \o seqs[i]
    <3>1. CASE i = n
      <4>1. n # 1 => H[n - 1] = F[n - 1]
        BY <2>3
      <4>. QED
        BY <2>3, <3>1, <4>1 DEF last
    <3>2. CASE i # n
      <4>1. i \in 1..(n - 1) /\ (i # 1 => i - 1 \in 1..(n - 1))
        BY <3>2
      <4>2. H[i] = F[i] /\ (i # 1 => H[i - 1] = F[i - 1])
        BY <2>3, <4>1
      <4>. QED
        BY <2>1, <4>1, <4>2 DEF IsJoined
    <3>. QED
      BY <3>1, <3>2
  <2>5. IsJoined(H, seqs, n)
    BY <2>4 DEF IsJoined
  <2>. QED
    BY <2>2, <2>5
<1>. HIDE DEF S
<1>3. \A n \in 0..N : n \in S
  BY <1>1, <1>2, UpTo, Zenon
<1>. QED
  BY <1>3 DEF S

(* Sequences that are joined are a sequence.                               *)
LEMMA FlattenIsSeq ==
  ASSUME NEW S, NEW seqs \in Seq(Seq(S))
  PROVE  FlattenSeq(seqs) \in Seq(S)
<1>. DEFINE N == Len(seqs)
            Eq(f) == f = [i \in 1..Len(seqs) |->
                            IF i = 1 THEN seqs[i] ELSE f[i - 1] \o seqs[i]]
            F == CHOOSE f : Eq(f)
            T == {n \in 0..N : n # 0 => F[n] \in Seq(S)}
<1>1. N \in Nat
  OBVIOUS
<1>2. CASE N = 0
  <2>1. seqs = <<>>
    BY <1>2
  <2>. QED
    BY <1>2, <2>1 DEF FlattenSeq
<1>3. CASE N # 0
  <2>1. \E f : Eq(f)
    <3>1. PICK f : f = [i \in 1..N |-> f[i]] /\ IsJoined(f, seqs, N)
      BY <1>1, JoinedExist
    <3>2. \A i \in 1..N : f[i] = IF i = 1 THEN seqs[i] ELSE f[i - 1] \o seqs[i]
      BY <3>1 DEF IsJoined
    <3>3. [i \in 1..N |-> f[i]] = [i \in 1..N |-> IF i = 1 THEN seqs[i] ELSE f[i - 1] \o seqs[i]]
      <4>. HIDE DEF N
      <4>. QED
        BY <3>2
    <3>. QED
      BY <3>1, <3>3, Zenon
  <2>2. Eq(F)
    BY <2>1
  <2>3. FlattenSeq(seqs) = F[N]
    BY <1>3 DEF FlattenSeq
  <2>. HIDE DEF F
  <2>4. \A i \in 1..N : F[i] = IF i = 1 THEN seqs[i] ELSE F[i - 1] \o seqs[i]
    BY <2>2
  <2>. HIDE DEF Eq
  <2>5. 0 \in T
    BY <1>1
  <2>6. ASSUME NEW n \in 1..N, n - 1 \in T PROVE n \in T
    <3>1. seqs[n] \in Seq(S) /\ n \in 0..N
      OBVIOUS
    <3>2. n # 1 => F[n - 1] \in Seq(S)
      BY <2>6
    <3>3. F[n] = IF n = 1 THEN seqs[n] ELSE F[n - 1] \o seqs[n]
      BY <2>4
    <3>4. F[n] \in Seq(S)
      BY <3>1, <3>2, <3>3
    <3>. QED
      BY <3>1, <3>4
  <2>. HIDE DEF T
  <2>7. \A n \in 0..N : n \in T
    BY <1>1, <2>5, <2>6, UpTo, Zenon
  <2>8. N \in T
    BY <1>1, <2>7
  <2>. QED
    BY <1>3, <2>3, <2>8 DEF T
<1>. QED
  BY <1>2, <1>3

(* A filter is a text, however it has been put together.                   *)
LEMMA TextIsSeq ==
  ASSUME NEW f \in Seq(UNION Alphabet)
  PROVE  Text(f) \in Seq(STRING)
<1>1. UNION Alphabet \subseteq Seq(DOMAIN Spelling)
  BY SpellingAssumption
<1>2. f \in Seq(Seq(DOMAIN Spelling))
  <2>1. \A i \in 1..Len(f) : f[i] \in Seq(DOMAIN Spelling)
    BY <1>1
  <2>2. f \in [1..Len(f) -> Seq(DOMAIN Spelling)] /\ Len(f) \in Nat
    BY <2>1
  <2>. QED
    BY <2>2
<1>3. Symbols(f) \in Seq(DOMAIN Spelling)
  BY <1>2, FlattenIsSeq DEF Symbols
<1>. DEFINE s == [i \in DOMAIN Symbols(f) |-> Spelling[Symbols(f)[i]]]
<1>4. s \in Seq(Seq(STRING))
  <2>1. Len(Symbols(f)) \in Nat /\ DOMAIN Symbols(f) = 1..Len(Symbols(f))
    BY <1>3
  <2>2. \A i \in DOMAIN Symbols(f) : Spelling[Symbols(f)[i]] \in Seq(STRING)
    BY <1>3, <2>1, SpellingAssumption
  <2>. QED
    BY <2>1, <2>2
<1>. HIDE DEF s
<1>5. FlattenSeq(s) \in Seq(STRING)
  BY <1>4, FlattenIsSeq
<1>. QED
  BY <1>5 DEF Text, s
-----------------------------------------------------------------------------
(* The lexer.                                                              *)

(* The least element of a nonempty set of natural numbers.                 *)
LEMMA MinIsIn ==
  ASSUME NEW S \in SUBSET Nat, S # {}
  PROVE  Min(S) \in S
<1>1. PICK m \in S : \A n \in S : m <= n
  BY LeastOfNat
<1>. QED
  BY <1>1 DEF Min

(* A run ends where it says, and goes beyond a character that belongs to it*)
LEMMA RunEnds ==
  ASSUME NEW s \in Seq(STRING), NEW i \in 1..(Len(s) + 1), NEW C
  PROVE  /\ RunEnd(s, i, C) \in i..(Len(s) + 1)
         /\ i <= Len(s) /\ s[i] \in C => RunEnd(s, i, C) > i
<1>. DEFINE S == {j \in i..(Len(s) + 1) : j > Len(s) \/ s[j] \notin C}
<1>1. Len(s) \in Nat /\ Len(s) + 1 \in S /\ S \in SUBSET Nat
  OBVIOUS
<1>2. Min(S) \in S
  BY <1>1, MinIsIn
<1>3. RunEnd(s, i, C) = Min(S)
  BY DEF RunEnd
<1>. HIDE DEF S
<1>4. RunEnd(s, i, C) \in S
  BY <1>2, <1>3
<1>. QED
  BY <1>1, <1>4 DEF S

(* A token ends behind its beginning.                                      *)
LEMMA LexemeAdvances ==
  ASSUME NEW s \in Seq(STRING), NEW i \in 1..Len(s)
  PROVE  Lexeme(s, i).next \in {0} \cup (i + 1)..(Len(s) + 1)
<1>. DEFINE close == Min({j \in (i + 1)..(Len(s) + 1) : j > Len(s) \/ s[j] = s[i]})
            digits == RunEnd(s, i + 1, Digit \cup {"."})
            word == RunEnd(s, i, Letter \cup Digit \cup {"."})
            next == Lexeme(s, i).next
<1>1. Len(s) \in Nat
  OBVIOUS
<1>2. close \in (i + 1)..(Len(s) + 1)
  <2>. DEFINE S == {j \in (i + 1)..(Len(s) + 1) : j > Len(s) \/ s[j] = s[i]}
  <2>1. S \in SUBSET Nat /\ Len(s) + 1 \in S
    BY <1>1
  <2>2. Min(S) \in S
    BY <2>1, MinIsIn
  <2>. QED
    BY <2>2
<1>3. digits \in (i + 1)..(Len(s) + 1)
  BY <1>1, RunEnds
<1>4. s[i] \in Letter => word \in (i + 1)..(Len(s) + 1)
  <2>1. /\ word \in i..(Len(s) + 1)
        /\ s[i] \in Letter \cup Digit \cup {"."} => word > i
    BY <1>1, RunEnds
  <2>. HIDE DEF word
  <2>. QED
    BY <1>1, <2>1
<1>. HIDE DEF close, digits, word
<1>5. CASE s[i] \in Punctuation
  BY <1>1, <1>5 DEF Lexeme
<1>6. CASE s[i] \notin Punctuation /\ s[i] \in Quote
  <2>1. next = IF close > Len(s) THEN 0 ELSE close + 1
    BY <1>6 DEF Lexeme, close
  <2>. QED
    BY <1>1, <1>2, <2>1
<1>7. CASE s[i] \notin Punctuation \cup Quote /\ IsNumeric(s, i)
  <2>1. next = digits
    BY <1>7 DEF Lexeme, digits
  <2>. QED
    BY <1>3, <2>1
<1>8. CASE s[i] \notin Punctuation \cup Quote /\ ~IsNumeric(s, i) /\ s[i] \in Comparison
  BY <1>1, <1>8 DEF Lexeme
<1>9. CASE s[i] \notin Punctuation \cup Quote \cup Comparison /\ ~IsNumeric(s, i) /\ s[i] \in Letter
  <2>1. next = word
    BY <1>9 DEF Lexeme, word
  <2>. QED
    BY <1>4, <1>9, <2>1
<1>10. CASE s[i] \notin Punctuation \cup Quote \cup Comparison \cup Letter /\ ~IsNumeric(s, i)
  BY <1>10 DEF Lexeme
<1>. QED
  BY <1>5, <1>6, <1>7, <1>8, <1>9, <1>10

(* What From should be, from position k on.                                *)
IsTokens(From, s, k) == \A i \in k..(Len(s) + 1) : From[i] = TokensAt(s, i, From)

(* The tokens at a position depend on what comes behind it only.           *)
LEMMA TokensDepend ==
  ASSUME NEW s \in Seq(STRING), NEW i \in 1..(Len(s) + 1), NEW F, NEW H,
         \A j \in (i + 1)..(Len(s) + 1) : F[j] = H[j]
  PROVE  TokensAt(s, i, F) = TokensAt(s, i, H)
<1>1. Len(s) \in Nat
  OBVIOUS
<1>2. CASE i > Len(s)
  BY <1>2 DEF TokensAt
<1>3. CASE ~(i > Len(s))
  <2>1. i \in 1..Len(s) /\ i + 1 \in (i + 1)..(Len(s) + 1)
    BY <1>1, <1>3
  <2>2. Lexeme(s, i).next = 0 \/ Lexeme(s, i).next \in (i + 1)..(Len(s) + 1)
    BY <2>1, LexemeAdvances
  <2>3. F[i + 1] = H[i + 1]
    BY <2>1
  <2>4. Lexeme(s, i).next # 0 => F[Lexeme(s, i).next] = H[Lexeme(s, i).next]
    BY <2>2
  <2>. QED
    BY <2>3, <2>4 DEF TokensAt
<1>. QED
  BY <1>2, <1>3

(* There are such tokens, from every position on.                          *)
LEMMA TokensExist ==
  ASSUME NEW s \in Seq(STRING)
  PROVE  \E F : F = [i \in 1..(Len(s) + 1) |-> F[i]] /\ IsTokens(F, s, 1)
<1>. DEFINE N == Len(s)
            Upon(F, n) == F = [i \in (N + 1 - n)..(N + 1) |-> F[i]] /\ IsTokens(F, s, N + 1 - n)
            S == {n \in 0..N : \E F : Upon(F, n)}
<1>1. N \in Nat
  OBVIOUS
<1>2. 0 \in S
  <2>. DEFINE F == [i \in (N + 1)..(N + 1) |-> [ok |-> TRUE, tokens |-> <<EOF>>]]
  <2>1. F = [i \in (N + 1)..(N + 1) |-> F[i]]
    OBVIOUS
  <2>2. F[N + 1] = [ok |-> TRUE, tokens |-> <<EOF>>]
    BY <1>1
  <2>. HIDE DEF F
  <2>3. F[N + 1] = TokensAt(s, N + 1, F)
    BY <1>1, <2>2 DEF TokensAt
  <2>4. IsTokens(F, s, N + 1)
    BY <1>1, <2>3 DEF IsTokens
  <2>. QED
    BY <1>1, <2>1, <2>4
<1>3. ASSUME NEW n \in 1..N, n - 1 \in S PROVE n \in S
  <2>1. PICK F : IsTokens(F, s, N + 2 - n)
    <3>1. N + 1 - (n - 1) = N + 2 - n
      BY <1>1
    <3>. QED
      BY <1>3, <3>1
  <2>. DEFINE k == N + 1 - n
              H == [i \in k..(N + 1) |-> IF i = k THEN TokensAt(s, k, F) ELSE F[i]]
  <2>2. k \in 1..N /\ N + 2 - n = k + 1
    BY <1>1
  <2>3. H = [i \in k..(N + 1) |-> H[i]]
    OBVIOUS
  <2>4. H[k] = TokensAt(s, k, F) /\ \A i \in (k + 1)..(N + 1) : H[i] = F[i]
    BY <1>1, <2>2
  <2>. HIDE DEF H, k
  <2>5. ASSUME NEW i \in k..(N + 1) PROVE H[i] = TokensAt(s, i, H)
    <3>1. i \in 1..(N + 1) /\ \A j \in (i + 1)..(N + 1) : j \in (k + 1)..(N + 1)
      BY <1>1, <2>2
    <3>2. \A j \in (i + 1)..(N + 1) : F[j] = H[j]
      BY <2>4, <3>1
    <3>3. TokensAt(s, i, F) = TokensAt(s, i, H)
      BY <3>1, <3>2, TokensDepend
    <3>4. CASE i = k
      BY <2>4, <3>3, <3>4
    <3>5. CASE i # k
      <4>1. i \in (k + 1)..(N + 1)
        BY <1>1, <2>2, <3>5
      <4>. QED
        BY <2>1, <2>2, <2>4, <3>3, <4>1 DEF IsTokens
    <3>. QED
      BY <3>4, <3>5
  <2>6. IsTokens(H, s, k)
    BY <2>5 DEF IsTokens
  <2>. QED
    BY <2>3, <2>6 DEF k
<1>. HIDE DEF S
<1>4. \A n \in 0..N : n \in S
  BY <1>1, <1>2, <1>3, UpTo, Zenon
<1>5. N \in S
  BY <1>1, <1>4
<1>6. N + 1 - N = 1
  BY <1>1
<1>. QED
  BY <1>5, <1>6 DEF S

(* A sequence of tokens that the lexer has ended.                          *)
Ended(t) == Len(t) \in Nat \ {0} /\ DOMAIN t = 1..Len(t) /\ t[Len(t)] = EOF

(* No token before the last is the end.                                    *)
EndedOnce(t) == \A k \in 1..(Len(t) - 1) : t[k] # EOF

(* A lexeme that ends somewhere is not the end.                            *)
LEMMA LexemeIsNoEnd ==
  ASSUME NEW s, NEW i, Lexeme(s, i).next # 0
  PROVE  Lexeme(s, i).token # EOF
<1>1. \A typ : typ \in Punctuation \cup {"string", "number", "op", "ident"} => typ # EOF.typ
  BY DEF Punctuation, EOF, Token
<1>2. Lexeme(s, i).token.typ \in Punctuation \cup {"string", "number", "op", "ident"}
  BY DEF Lexeme, Token
<1>. QED
  BY <1>1, <1>2

(* The lexer ends what it makes, once.                                     *)
LEMMA TokenizeEnds ==
  ASSUME NEW s \in Seq(STRING), Tokenize(s).ok
  PROVE  Ended(Tokenize(s).tokens) /\ EndedOnce(Tokenize(s).tokens)
<1>. DEFINE N == Len(s)
            Eq(f) == f = [i \in 1..(Len(s) + 1) |-> TokensAt(s, i, f)]
            From == CHOOSE f : Eq(f)
            V == {Lexeme(s, i).token : i \in 1..N} \cup {EOF}
            Fine(i) == From[i].ok =>
                         /\ From[i].tokens \in Seq(V)
                         /\ Ended(From[i].tokens) /\ EndedOnce(From[i].tokens)
            S == {n \in 0..N : Fine(N + 1 - n)}
<1>1. N \in Nat
  OBVIOUS
<1>2. \E f : Eq(f)
  <2>1. PICK f : f = [i \in 1..(Len(s) + 1) |-> f[i]] /\ IsTokens(f, s, 1)
    BY TokensExist
  <2>2. \A i \in 1..(Len(s) + 1) : f[i] = TokensAt(s, i, f)
    BY <2>1 DEF IsTokens
  <2>3. [i \in 1..(Len(s) + 1) |-> f[i]] = [i \in 1..(Len(s) + 1) |-> TokensAt(s, i, f)]
    BY <2>2
  <2>. QED
    BY <2>1, <2>3, Zenon
<1>3. Eq(From)
  BY <1>2
<1>4. Tokenize(s) = From[1]
  BY DEF Tokenize, TokensFrom
<1>. HIDE DEF From
<1>5. \A i \in 1..(N + 1) : From[i] = TokensAt(s, i, From)
  BY <1>3
<1>. HIDE DEF Eq
<1>6. Fine(N + 1)
  <2>1. From[N + 1].tokens = <<EOF>>
    <3>1. N + 1 \in 1..(N + 1) /\ N + 1 > Len(s)
      BY <1>1
    <3>2. TokensAt(s, N + 1, From) = [ok |-> TRUE, tokens |-> <<EOF>>]
      BY <3>1 DEF TokensAt
    <3>3. From[N + 1] = TokensAt(s, N + 1, From)
      BY <1>5, <3>1
    <3>. QED
      BY <3>2, <3>3
  <2>. QED
    BY <2>1 DEF Ended, EndedOnce
<1>7. ASSUME NEW i \in 1..N, \A j \in (i + 1)..(N + 1) : Fine(j)
      PROVE  Fine(i)
  <2>. DEFINE lexeme == Lexeme(s, i)
  <2>1. i \in 1..(N + 1) /\ i + 1 \in (i + 1)..(N + 1) /\ ~(i > N)
    BY <1>1
  <2>2. From[i] = TokensAt(s, i, From)
    BY <1>5, <2>1
  <2>3. lexeme.next = 0 \/ lexeme.next \in (i + 1)..(N + 1)
    BY LexemeAdvances
  <2>4. lexeme.token \in V
    OBVIOUS
  <2>. HIDE DEF lexeme, Fine, V
  <2>5. CASE s[i] \in Space
    <3>1. From[i] = From[i + 1]
      BY <2>1, <2>2, <2>5 DEF TokensAt
    <3>. QED
      BY <1>7, <2>1, <3>1 DEF Fine
  <2>6. CASE s[i] \notin Space /\ lexeme.next = 0
    <3>1. ~From[i].ok
      BY <2>1, <2>2, <2>6 DEF TokensAt, lexeme
    <3>. QED
      BY <3>1 DEF Fine
  <2>7. CASE s[i] \notin Space /\ lexeme.next # 0
    <3>. DEFINE rest == From[lexeme.next]
    <3>1. From[i] = [ok |-> rest.ok, tokens |-> <<lexeme.token>> \o rest.tokens]
      BY <2>1, <2>2, <2>7 DEF TokensAt, lexeme
    <3>2. Fine(lexeme.next)
      BY <1>7, <2>3, <2>7
    <3>3. rest.ok => rest.tokens \in Seq(V) /\ Ended(rest.tokens) /\ EndedOnce(rest.tokens)
      BY <3>2 DEF Fine
    <3>. HIDE DEF rest
    <3>4. ASSUME NEW t \in Seq(V), Ended(t), EndedOnce(t), NEW u, u = <<lexeme.token>> \o t
          PROVE  u \in Seq(V) /\ Ended(u) /\ EndedOnce(u)
      <4>1. u \in Seq(V) /\ Len(u) = Len(t) + 1
        BY <2>4, <3>4
      <4>2. u[Len(t) + 1] = t[Len(t)]
        BY <2>4, <3>4 DEF Ended
      <4>3. Ended(u)
        BY <3>4, <4>1, <4>2 DEF Ended
      <4>4. ASSUME NEW k \in 1..(Len(u) - 1) PROVE u[k] # EOF
        <5>1. CASE k = 1
          <6>1. u[1] = lexeme.token
            BY <2>4, <3>4
          <6>. QED
            BY <2>7, <5>1, <6>1, LexemeIsNoEnd DEF lexeme
        <5>2. CASE k # 1
          <6>1. k - 1 \in 1..(Len(t) - 1) /\ Len(t) \in Nat
            BY <3>4, <4>1, <5>2 DEF Ended
          <6>2. u[k] = t[k - 1]
            BY <2>4, <3>4, <6>1
          <6>. QED
            BY <3>4, <6>1, <6>2 DEF EndedOnce
        <5>. QED
          BY <5>1, <5>2
      <4>. QED
        BY <4>1, <4>3, <4>4 DEF EndedOnce
    <3>5. From[i].ok => /\ From[i].tokens \in Seq(V)
                        /\ Ended(From[i].tokens) /\ EndedOnce(From[i].tokens)
      <4>1. From[i].ok => rest.ok /\ From[i].tokens = <<lexeme.token>> \o rest.tokens
        BY <3>1
      <4>. QED
        BY <3>3, <3>4, <4>1
    <3>. QED
      BY <3>5 DEF Fine
  <2>. QED
    BY <2>5, <2>6, <2>7
<1>. DEFINE T == {n \in 0..N : \A i \in (N + 1 - n)..(N + 1) : Fine(i)}
<1>. HIDE DEF Fine
<1>8. 0 \in T
  BY <1>1, <1>6
<1>9. ASSUME NEW n \in 1..N, n - 1 \in T PROVE n \in T
  <2>1. N + 1 - n \in 1..N /\ \A i \in (N + 1 - n)..(N + 1) :
          i = N + 1 - n \/ i \in (N + 1 - (n - 1))..(N + 1)
    BY <1>1
  <2>2. \A j \in (N + 1 - n + 1)..(N + 1) : Fine(j)
    BY <1>1, <1>9
  <2>3. Fine(N + 1 - n)
    BY <1>7, <2>1, <2>2
  <2>. QED
    BY <1>9, <2>1, <2>3
<1>. HIDE DEF T
<1>10. \A n \in 0..N : n \in T
  BY <1>1, <1>8, <1>9, UpTo, Zenon
<1>11. Fine(1)
  BY <1>1, <1>10 DEF T
<1>. QED
  BY <1>4, <1>11 DEF Fine
-----------------------------------------------------------------------------
(* The parser.                                                             *)

(* Where the parser may be, which has started at i.                        *)
Within(t, i, r) == r.at \in i..(Len(t) + 1) /\ (i <= Len(t) => r.at <= Len(t))

(* What the parser has to know before it can parse x.                      *)
Lower(what) == IF what = "items" THEN {"value"}
               ELSE IF what = "and" THEN {"not"}
               ELSE IF what = "or" THEN {"and"} ELSE {}

Spots(t) == Level \X (1..(Len(t) + 1))

Needed(t, x) == {y \in Spots(t) : y[2] > x[2] \/ (y[2] = x[2] /\ y[1] \in Lower(x[1]))}

Same(t, x, P, Q) == \A y \in Needed(t, x) : P[y] = Q[y] /\ Within(t, y[2], P[y])

(* Only the end is last.                                                   *)
LEMMA PeekedInside ==
  ASSUME NEW t, Ended(t), NEW i \in 1..(Len(t) + 1), Peek(t, i).typ \notin {"eof", "panic"}
  PROVE  i \in 1..(Len(t) - 1)
<1>1. CASE i = Len(t)
  <2>1. Peek(t, i) = EOF
    BY <1>1 DEF Ended, Peek
  <2>. QED
    BY <2>1 DEF EOF, Token
<1>2. CASE i = Len(t) + 1
  <2>1. i \notin DOMAIN t
    BY <1>2 DEF Ended
  <2>2. Peek(t, i) = Token("panic", <<>>)
    BY <2>1 DEF Peek
  <2>. QED
    BY <2>2 DEF Token
<1>3. Len(t) \in Nat
  BY DEF Ended
<1>. QED
  BY <1>1, <1>2, <1>3

(* Nor is the end an operator.                                             *)
LEMMA OpInside ==
  ASSUME NEW t, Ended(t), NEW i \in 1..(Len(t) + 1), NEW op, IsOp(t, i, op)
  PROVE  i \in 1..(Len(t) - 1)
<1>1. Peek(t, i).typ = "op"
  BY DEF IsOp, Token
<1>. QED
  BY <1>1, PeekedInside

(* What is known of the later ones.                                        *)
LEMMA LaterSame ==
  ASSUME NEW t, Ended(t), NEW i \in 1..(Len(t) + 1), NEW what, NEW P, NEW Q,
         Same(t, <<what, i>>, P, Q), NEW l \in Level, NEW j \in (i + 1)..Len(t)
  PROVE  P[<<l, j>>] = Q[<<l, j>>] /\ P[<<l, j>>].at \in j..Len(t)
<1>1. <<l, j>> \in Needed(t, <<what, i>>)
  BY DEF Needed, Spots, Ended
<1>2. P[<<l, j>>] = Q[<<l, j>>] /\ Within(t, j, P[<<l, j>>])
  BY <1>1 DEF Same
<1>. QED
  BY <1>2 DEF Within, Ended

(* What is known at the same place.                                        *)
LEMMA LowerSame ==
  ASSUME NEW t, Ended(t), NEW i \in 1..(Len(t) + 1), NEW what, NEW P, NEW Q,
         Same(t, <<what, i>>, P, Q), NEW l \in Level, l \in Lower(what)
  PROVE  P[<<l, i>>] = Q[<<l, i>>] /\ Within(t, i, P[<<l, i>>])
<1>1. <<l, i>> \in Needed(t, <<what, i>>)
  BY DEF Needed, Spots, Ended
<1>. QED
  BY <1>1 DEF Same

(* Each function of the parser stays inside if what it calls does, and     *)
(* needs no more of P than that.  First values.                            *)
LEMMA ValueSame ==
  ASSUME NEW t, Ended(t), NEW i \in 1..(Len(t) + 1), NEW P, NEW Q,
         Same(t, <<"value", i>>, P, Q)
  PROVE  ParseValue(t, i, P) = ParseValue(t, i, Q) /\ Within(t, i, ParseValue(t, i, P))
<1>. DEFINE typ == Peek(t, i).typ
<1>1. Failure(i).at = i /\ \A node, at : Parsed(node, at).at = at
  BY DEF Failure, Parsed
<1>2. Within(t, i, Failure(i))
  BY <1>1 DEF Within, Ended
<1>3. CASE typ \in {"string", "number", "ident"}
  <2>1. i \in 1..(Len(t) - 1)
    BY <1>3, PeekedInside
  <2>2. \A node : Within(t, i, Parsed(node, i + 1))
    BY <1>1, <2>1 DEF Within, Ended
  <2>3. Within(t, i, ParseNumber(Peek(t, i).val, i))
    BY <1>2, <2>2 DEF ParseNumber
  <2>. HIDE DEF Failure, Parsed
  <2>. QED
    BY <1>3, <2>2, <2>3 DEF ParseValue
<1>4. CASE typ = "["
  <2>1. i \in 1..(Len(t) - 1)
    BY <1>4, PeekedInside
  <2>2. i + 1 \in 1..(Len(t) + 1) /\ i + 1 \in (i + 1)..Len(t)
    BY <2>1 DEF Ended
  <2>3. Peek(t, i + 1).typ = "]" => i + 1 \in 1..(Len(t) - 1)
    BY <2>2, PeekedInside
  <2>4. Peek(t, i + 1).typ = "]" => \A node : Within(t, i, Parsed(node, i + 2))
    BY <1>1, <2>3 DEF Within, Ended
  <2>5. P[<<"items", i + 1>>] = Q[<<"items", i + 1>>] /\ P[<<"items", i + 1>>].at \in (i + 1)..Len(t)
    BY <2>2, LaterSame DEF Level
  <2>6. Within(t, i, P[<<"items", i + 1>>])
    BY <2>1, <2>5 DEF Within, Ended
  <2>. QED
    BY <1>4, <2>4, <2>5, <2>6 DEF ParseValue
<1>5. CASE typ \notin {"string", "number", "ident", "["}
  BY <1>2, <1>5 DEF ParseValue
<1>. QED
  BY <1>3, <1>4, <1>5

(* Lists.                                                                  *)
LEMMA ItemsSame ==
  ASSUME NEW t, Ended(t), NEW i \in 1..(Len(t) + 1), NEW P, NEW Q,
         Same(t, <<"items", i>>, P, Q)
  PROVE  ParseItems(t, i, P) = ParseItems(t, i, Q) /\ Within(t, i, ParseItems(t, i, P))
<1>. DEFINE item == P[<<"value", i>>]
            typ == Peek(t, item.at).typ
<1>1. \A at : Failure(at).at = at /\ \A node : Parsed(node, at).at = at
  BY DEF Failure, Parsed
<1>2. item = Q[<<"value", i>>] /\ Within(t, i, item)
  BY LowerSame DEF Lower, Level
<1>3. item.at \in 1..(Len(t) + 1) /\ item.at >= i
  BY <1>2 DEF Within, Ended
<1>. HIDE DEF item
<1>4. CASE ~item.ok
  BY <1>2, <1>4 DEF ParseItems, item
<1>5. CASE item.ok /\ typ = ","
  <2>. DEFINE others == P[<<"items", item.at + 1>>]
  <2>1. item.at \in 1..(Len(t) - 1)
    BY <1>3, <1>5, PeekedInside
  <2>2. item.at + 1 \in (i + 1)..Len(t) /\ i <= Len(t)
    BY <1>3, <2>1 DEF Ended
  <2>3. others = Q[<<"items", item.at + 1>>] /\ others.at \in (item.at + 1)..Len(t)
    BY <2>2, LaterSame DEF Level
  <2>. HIDE DEF others
  <2>4. Within(t, i, others) /\ \A node : Within(t, i, Parsed(node, others.at))
    BY <1>1, <2>2, <2>3 DEF Within, Ended
  <2>5. /\ ParseItems(t, i, P) = ParseItems(t, i, Q)
        /\ \/ ParseItems(t, i, P) = others
           \/ \E node : ParseItems(t, i, P) = Parsed(node, others.at)
    BY <1>2, <1>5, <2>3 DEF ParseItems, item, others
  <2>. QED
    BY <2>4, <2>5
<1>6. CASE item.ok /\ typ = "]"
  <2>1. item.at \in 1..(Len(t) - 1)
    BY <1>3, <1>6, PeekedInside
  <2>2. \A node : Within(t, i, Parsed(node, item.at + 1))
    BY <1>1, <1>3, <2>1 DEF Within, Ended
  <2>. QED
    BY <1>2, <1>6, <2>2 DEF ParseItems, item
<1>7. CASE item.ok /\ typ \notin {",", "]"}
  <2>1. Within(t, i, Failure(item.at))
    BY <1>1, <1>2 DEF Within
  <2>. QED
    BY <1>2, <1>7, <2>1 DEF ParseItems, item
<1>. QED
  BY <1>4, <1>5, <1>6, <1>7

(* Conditions.                                                             *)
LEMMA ConditionSame ==
  ASSUME NEW t, Ended(t), NEW i \in 1..(Len(t) + 1), NEW P, NEW Q,
         Same(t, <<"not", i>>, P, Q)
  PROVE  ParseCondition(t, i, P) = ParseCondition(t, i, Q) /\ Within(t, i, ParseCondition(t, i, P))
<1>. DEFINE value == P[<<"value", i + 2>>]
<1>1. \A at : Failure(at).at = at /\ \A node : Parsed(node, at).at = at
  BY DEF Failure, Parsed
<1>2. CASE Peek(t, i).typ # "ident"
  <2>1. Within(t, i, Failure(i))
    BY <1>1 DEF Within, Ended
  <2>. QED
    BY <1>2, <2>1 DEF ParseCondition
<1>3. CASE Peek(t, i).typ = "ident" /\ (Peek(t, i + 1).typ # "op" \/ Peek(t, i + 1).val \notin Known)
  <2>1. i \in 1..(Len(t) - 1)
    BY <1>3, PeekedInside
  <2>2. Within(t, i, Failure(i + 1))
    BY <1>1, <2>1 DEF Within, Ended
  <2>. QED
    BY <1>3, <2>2 DEF ParseCondition
<1>4. CASE Peek(t, i).typ = "ident" /\ Peek(t, i + 1).typ = "op" /\ Peek(t, i + 1).val \in Known
  <2>1. i \in 1..(Len(t) - 1)
    BY <1>4, PeekedInside
  <2>2. i + 1 \in 1..(Len(t) + 1)
    BY <2>1 DEF Ended
  <2>3. i + 1 \in 1..(Len(t) - 1)
    BY <1>4, <2>2, PeekedInside
  <2>4. i + 2 \in (i + 1)..Len(t)
    BY <2>3 DEF Ended
  <2>5. value = Q[<<"value", i + 2>>] /\ value.at \in (i + 2)..Len(t)
    BY <2>4, LaterSame DEF Level
  <2>. HIDE DEF value
  <2>6. Within(t, i, value) /\ \A node : Within(t, i, Parsed(node, value.at))
    BY <1>1, <2>4, <2>5 DEF Within, Ended
  <2>7. /\ ParseCondition(t, i, P) = ParseCondition(t, i, Q)
        /\ \/ ParseCondition(t, i, P) = value
           \/ \E node : ParseCondition(t, i, P) = Parsed(node, value.at)
    BY <1>4, <2>5 DEF ParseCondition, value
  <2>. QED
    BY <2>6, <2>7
<1>. QED
  BY <1>2, <1>3, <1>4

(* What may be in parentheses.                                             *)
LEMMA PrimarySame ==
  ASSUME NEW t, Ended(t), NEW i \in 1..(Len(t) + 1), NEW P, NEW Q,
         Same(t, <<"not", i>>, P, Q)
  PROVE  ParsePrimary(t, i, P) = ParsePrimary(t, i, Q) /\ Within(t, i, ParsePrimary(t, i, P))
<1>. DEFINE inner == P[<<"or", i + 1>>]
<1>1. \A at : Failure(at).at = at /\ \A node : Parsed(node, at).at = at
  BY DEF Failure, Parsed
<1>2. CASE Peek(t, i).typ # "("
  BY <1>2, ConditionSame DEF ParsePrimary
<1>3. CASE Peek(t, i).typ = "("
  <2>1. i \in 1..(Len(t) - 1) /\ i + 1 \in (i + 1)..Len(t)
    BY <1>3, PeekedInside DEF Ended
  <2>2. inner = Q[<<"or", i + 1>>] /\ inner.at \in (i + 1)..Len(t)
    BY <2>1, LaterSame DEF Level
  <2>. HIDE DEF inner
  <2>3. inner.at \in 1..(Len(t) + 1)
    BY <2>1, <2>2 DEF Ended
  <2>4. Peek(t, inner.at).typ = ")" => inner.at \in 1..(Len(t) - 1)
    BY <2>3, PeekedInside
  <2>5. Within(t, i, inner) /\ Within(t, i, Failure(inner.at))
    BY <1>1, <2>1, <2>2 DEF Within, Ended
  <2>6. Peek(t, inner.at).typ = ")" => Within(t, i, Parsed(inner.node, inner.at + 1))
    BY <1>1, <2>1, <2>2, <2>4 DEF Within, Ended
  <2>. QED
    BY <1>3, <2>2, <2>5, <2>6 DEF ParsePrimary, inner
<1>. QED
  BY <1>2, <1>3

(* What may be negated.                                                    *)
LEMMA NotSame ==
  ASSUME NEW t, Ended(t), NEW i \in 1..(Len(t) + 1), NEW P, NEW Q,
         Same(t, <<"not", i>>, P, Q)
  PROVE  ParseNot(t, i, P) = ParseNot(t, i, Q) /\ Within(t, i, ParseNot(t, i, P))
<1>. DEFINE inner == P[<<"not", i + 1>>]
<1>1. \A at, node : Parsed(node, at).at = at
  BY DEF Parsed
<1>2. CASE ~IsOp(t, i, "NOT")
  BY <1>2, PrimarySame DEF ParseNot
<1>3. CASE IsOp(t, i, "NOT")
  <2>1. i \in 1..(Len(t) - 1) /\ i + 1 \in (i + 1)..Len(t)
    BY <1>3, OpInside DEF Ended
  <2>2. inner = Q[<<"not", i + 1>>] /\ inner.at \in (i + 1)..Len(t)
    BY <2>1, LaterSame DEF Level
  <2>. HIDE DEF inner
  <2>3. Within(t, i, inner) /\ \A node : Within(t, i, Parsed(node, inner.at))
    BY <1>1, <2>1, <2>2 DEF Within, Ended
  <2>4. /\ ParseNot(t, i, P) = ParseNot(t, i, Q)
        /\ \/ ParseNot(t, i, P) = inner
           \/ \E node : ParseNot(t, i, P) = Parsed(node, inner.at)
    BY <1>3, <2>2 DEF ParseNot, inner
  <2>. QED
    BY <2>3, <2>4
<1>. QED
  BY <1>2, <1>3

(* The rounds of a loop.                                                   *)
IsRounds(R, t, i, P, op, kind, operand, N) ==
  /\ R[0] = P[<<operand, i>>]
  /\ \A n \in 1..N : R[n] = OneMore(t, R[n - 1], P, op, kind, operand)

(* There are such rounds.                                                  *)
LEMMA RoundsExist ==
  ASSUME NEW t, NEW i, NEW P, NEW op, NEW kind, NEW operand, NEW N \in Nat
  PROVE  \E R : R = [n \in 0..N |-> R[n]] /\ IsRounds(R, t, i, P, op, kind, operand, N)
<1>. DEFINE More(left) == OneMore(t, left, P, op, kind, operand)
            S == {n \in 0..N : \E R : /\ R = [k \in 0..n |-> R[k]]
                                      /\ IsRounds(R, t, i, P, op, kind, operand, n)}
<1>1. 0 \in S
  <2>. DEFINE R == [k \in 0..0 |-> P[<<operand, i>>]]
  <2>1. R = [k \in 0..0 |-> R[k]] /\ R[0] = P[<<operand, i>>]
    OBVIOUS
  <2>. HIDE DEF R
  <2>2. IsRounds(R, t, i, P, op, kind, operand, 0)
    BY <2>1 DEF IsRounds
  <2>. QED
    BY <2>1, <2>2
<1>2. ASSUME NEW n \in 1..N, n - 1 \in S PROVE n \in S
  <2>1. PICK R : IsRounds(R, t, i, P, op, kind, operand, n - 1)
    BY <1>2
  <2>. DEFINE last == More(R[n - 1])
              H == [k \in 0..n |-> IF k = n THEN last ELSE R[k]]
  <2>. HIDE DEF last
  <2>2. H = [k \in 0..n |-> H[k]]
    OBVIOUS
  <2>3. H[n] = last /\ \A k \in 0..(n - 1) : H[k] = R[k]
    OBVIOUS
  <2>. HIDE DEF H, More
  <2>4. H[0] = P[<<operand, i>>]
    <3>1. 0 \in 0..(n - 1)
      OBVIOUS
    <3>. QED
      BY <2>1, <2>3, <3>1 DEF IsRounds
  <2>5. ASSUME NEW k \in 1..n PROVE H[k] = More(H[k - 1])
    <3>1. CASE k = n
      <4>1. H[k - 1] = R[n - 1]
        BY <2>3, <3>1
      <4>. QED
        BY <2>3, <3>1, <4>1 DEF last
    <3>2. CASE k # n
      <4>1. k \in 1..(n - 1) /\ k \in 0..(n - 1) /\ k - 1 \in 0..(n - 1)
        BY <3>2
      <4>2. H[k] = R[k] /\ H[k - 1] = R[k - 1]
        BY <2>3, <4>1
      <4>3. R[k] = More(R[k - 1])
        BY <2>1, <4>1 DEF IsRounds, More
      <4>. QED
        BY <4>2, <4>3
    <3>. QED
      BY <3>1, <3>2
  <2>6. IsRounds(H, t, i, P, op, kind, operand, n)
    BY <2>4, <2>5 DEF IsRounds, More
  <2>. QED
    BY <2>2, <2>6
<1>. HIDE DEF S
<1>3. \A n \in 0..N : n \in S
  BY <1>1, <1>2, UpTo, Zenon
<1>. QED
  BY <1>3 DEF S

(* The loop is the last of its rounds.                                     *)
LEMMA ChainIsLast ==
  ASSUME NEW t, Ended(t), NEW i, NEW P, NEW op, NEW kind, NEW operand
  PROVE  \E R : /\ IsRounds(R, t, i, P, op, kind, operand, Len(t))
                /\ Chain(t, i, P, op, kind, operand) = R[Len(t)]
<1>. DEFINE Eq(f) == f = [n \in 0..Len(t) |-> IF n = 0 THEN P[<<operand, i>>]
                                              ELSE OneMore(t, f[n - 1], P, op, kind, operand)]
            R == CHOOSE f : Eq(f)
            N == Len(t)
<1>1. N \in Nat
  BY DEF Ended
<1>2. \E f : Eq(f)
  <2>1. PICK f : f = [n \in 0..N |-> f[n]] /\ IsRounds(f, t, i, P, op, kind, operand, N)
    BY <1>1, RoundsExist
  <2>. DEFINE F(n) == IF n = 0 THEN P[<<operand, i>>]
                      ELSE OneMore(t, f[n - 1], P, op, kind, operand)
  <2>2. \A n \in 0..N : f[n] = F(n)
    <3>1. IsRounds(f, t, i, P, op, kind, operand, N)
      BY <2>1
    <3>2. ASSUME NEW n \in 0..N PROVE f[n] = F(n)
      BY <1>1, <3>1 DEF IsRounds
    <3>. QED
      BY <3>2
  <2>3. [n \in 0..N |-> f[n]] = [n \in 0..N |-> F(n)]
    <3>. HIDE DEF F, N
    <3>. QED
      BY <2>2
  <2>. QED
    BY <2>1, <2>3, Zenon
<1>3. Eq(R)
  BY <1>2
<1>4. Chain(t, i, P, op, kind, operand) = R[N]
  BY DEF Chain
<1>. HIDE DEF R
<1>5. R[0] = P[<<operand, i>>]
  BY <1>1, <1>3
<1>6. ASSUME NEW n \in 1..N PROVE R[n] = OneMore(t, R[n - 1], P, op, kind, operand)
  <2>1. n \in 0..N /\ n # 0
    BY <1>1
  <2>. QED
    BY <1>3, <2>1
<1>. HIDE DEF Eq
<1>. QED
  BY <1>4, <1>5, <1>6 DEF IsRounds

(* A loop stays inside, and depends on what comes behind only.             *)
LEMMA ChainSame ==
  ASSUME NEW t, Ended(t), NEW i \in 1..(Len(t) + 1), NEW P, NEW Q, NEW what,
         Same(t, <<what, i>>, P, Q), NEW operand \in Level, operand \in Lower(what),
         NEW op, NEW kind
  PROVE  /\ Chain(t, i, P, op, kind, operand) = Chain(t, i, Q, op, kind, operand)
         /\ Within(t, i, Chain(t, i, P, op, kind, operand))
<1>1. PICK R : /\ IsRounds(R, t, i, P, op, kind, operand, Len(t))
               /\ Chain(t, i, P, op, kind, operand) = R[Len(t)]
  BY ChainIsLast
<1>2. PICK W : /\ IsRounds(W, t, i, Q, op, kind, operand, Len(t))
               /\ Chain(t, i, Q, op, kind, operand) = W[Len(t)]
  BY ChainIsLast
<1>. DEFINE S == {n \in 0..Len(t) : R[n] = W[n] /\ Within(t, i, R[n])}
<1>3. Len(t) \in Nat
  BY DEF Ended
<1>4. 0 \in S
  BY <1>1, <1>2, <1>3, LowerSame DEF IsRounds
<1>5. ASSUME NEW left, Within(t, i, left)
      PROVE  /\ OneMore(t, left, P, op, kind, operand) = OneMore(t, left, Q, op, kind, operand)
             /\ Within(t, i, OneMore(t, left, P, op, kind, operand))
  <2>1. CASE ~(left.ok /\ IsOp(t, left.at, op))
    BY <1>5, <2>1 DEF OneMore
  <2>2. CASE left.ok /\ IsOp(t, left.at, op)
    <3>. DEFINE right == P[<<operand, left.at + 1>>]
    <3>1. left.at \in 1..(Len(t) + 1) /\ left.at >= i
      BY <1>3, <1>5 DEF Within
    <3>2. left.at \in 1..(Len(t) - 1)
      BY <2>2, <3>1, OpInside
    <3>3. left.at + 1 \in (i + 1)..Len(t) /\ i <= Len(t)
      BY <1>3, <3>1, <3>2
    <3>4. right = Q[<<operand, left.at + 1>>] /\ right.at \in (left.at + 1)..Len(t)
      BY <3>3, LaterSame
    <3>. HIDE DEF right
    <3>5. \A at, node : Parsed(node, at).at = at
      BY DEF Parsed
    <3>6. Within(t, i, right) /\ \A node : Within(t, i, Parsed(node, right.at))
      BY <1>3, <3>3, <3>4, <3>5 DEF Within
    <3>7. /\ OneMore(t, left, P, op, kind, operand) = Join(kind, left, right)
          /\ OneMore(t, left, Q, op, kind, operand) = Join(kind, left, right)
      BY <2>2, <3>4 DEF OneMore, right
    <3>. QED
      BY <3>6, <3>7 DEF Join
  <2>. QED
    BY <2>1, <2>2
<1>6. ASSUME NEW n \in 1..Len(t), n - 1 \in S PROVE n \in S
  <2>1. R[n - 1] = W[n - 1] /\ Within(t, i, R[n - 1])
    BY <1>6
  <2>2. /\ R[n] = OneMore(t, R[n - 1], P, op, kind, operand)
        /\ W[n] = OneMore(t, W[n - 1], Q, op, kind, operand)
    BY <1>1, <1>2 DEF IsRounds
  <2>3. R[n] = W[n] /\ Within(t, i, R[n])
    BY <1>5, <2>1, <2>2
  <2>4. n \in 0..Len(t)
    BY <1>3
  <2>. QED
    BY <2>3, <2>4
<1>. HIDE DEF S
<1>7. \A n \in 0..Len(t) : n \in S
  BY <1>3, <1>4, <1>6, UpTo, Zenon
<1>8. Len(t) \in S
  BY <1>3, <1>7
<1>. QED
  BY <1>1, <1>2, <1>8 DEF S

(* All of them together.                                                   *)
LEMMA ParseSame ==
  ASSUME NEW t, Ended(t), NEW x \in Spots(t), NEW P, NEW Q, Same(t, x, P, Q)
  PROVE  ParseAt(t, x, P) = ParseAt(t, x, Q) /\ Within(t, x[2], ParseAt(t, x, P))
<1>1. PICK what \in Level, i \in 1..(Len(t) + 1) : x = <<what, i>>
  BY DEF Spots
<1>2. CASE what = "value"
  BY <1>1, <1>2, ValueSame DEF ParseAt
<1>3. CASE what = "items"
  BY <1>1, <1>3, ItemsSame DEF ParseAt
<1>4. CASE what = "not"
  BY <1>1, <1>4, NotSame DEF ParseAt
<1>5. CASE what = "and"
  <2>1. "not" \in Level /\ "not" \in Lower("and") /\ x[1] = "and" /\ x[2] = i
    BY <1>1, <1>5 DEF Level, Lower
  <2>2. \A R : ParseAt(t, x, R) = Chain(t, i, R, "AND", "and", "not")
    BY <2>1 DEF ParseAt
  <2>3. Same(t, <<"and", i>>, P, Q)
    BY <1>1, <1>5
  <2>. QED
    BY <2>1, <2>2, <2>3, ChainSame
<1>6. CASE what = "or"
  <2>1. "and" \in Level /\ "and" \in Lower("or") /\ x[1] = "or" /\ x[2] = i
    BY <1>1, <1>6 DEF Level, Lower
  <2>2. \A R : ParseAt(t, x, R) = Chain(t, i, R, "OR", "or", "and")
    BY <2>1 DEF ParseAt
  <2>3. Same(t, <<"or", i>>, P, Q)
    BY <1>1, <1>6
  <2>. QED
    BY <2>1, <2>2, <2>3, ChainSame
<1>. QED
  BY <1>2, <1>3, <1>4, <1>5, <1>6 DEF Level

(* The order in which the parser can be filled in.                         *)
Order(t, x) == 5 * (Len(t) + 1 - x[2]) + (CASE x[1] = "value" -> 0 [] x[1] = "items" -> 1
                                            [] x[1] = "not" -> 2 [] x[1] = "and" -> 3
                                            [] x[1] = "or" -> 4)

(* The order has an end.                                                   *)
LEMMA OrderBound ==
  ASSUME NEW t, Ended(t), NEW x \in Spots(t)
  PROVE  Order(t, x) \in 0..(5 * Len(t) + 4)
<1>1. PICK what \in Level, i \in 1..(Len(t) + 1) : x = <<what, i>>
  BY DEF Spots
<1>2. Len(t) \in Nat
  BY DEF Ended
<1>. QED
  BY <1>1, <1>2 DEF Order, Level

(* What has to be known comes before.                                      *)
LEMMA KnownBefore ==
  ASSUME NEW t, Ended(t), NEW x \in Spots(t), NEW y \in Needed(t, x)
  PROVE  /\ Order(t, x) \in 0..(5 * Len(t) + 4) /\ Order(t, y) \in 0..(5 * Len(t) + 4)
         /\ Order(t, y) < Order(t, x)
<1>1. Len(t) \in Nat
  BY DEF Ended
<1>2. PICK what \in Level, i \in 1..(Len(t) + 1) : x = <<what, i>>
  BY DEF Spots
<1>3. PICK l \in Level, j \in 1..(Len(t) + 1) : y = <<l, j>>
  BY DEF Needed, Spots
<1>4. j > i \/ (j = i /\ l \in Lower(what))
  BY <1>2, <1>3 DEF Needed
<1>. DEFINE Rank(w) == CASE w = "value" -> 0 [] w = "items" -> 1 [] w = "not" -> 2
                         [] w = "and" -> 3 [] w = "or" -> 4
<1>5. Order(t, x) = 5 * (Len(t) + 1 - i) + Rank(what) /\ Order(t, y) = 5 * (Len(t) + 1 - j) + Rank(l)
  BY <1>2, <1>3 DEF Order
<1>6. \A w \in Level : Rank(w) \in 0..4
  BY DEF Level
<1>7. l \in Lower(what) => Rank(l) < Rank(what)
  BY DEF Level, Lower
<1>. HIDE DEF Rank
<1>. QED
  BY <1>1, <1>4, <1>5, <1>6, <1>7

(* What P should be, up to n in the order.                                 *)
Done(t, n) == {x \in Spots(t) : Order(t, x) < n}

IsParse(P, t, n) == \A x \in Done(t, n) : P[x] = ParseAt(t, x, P) /\ Within(t, x[2], P[x])

(* There is such a parser.                                                 *)
LEMMA ParseExists ==
  ASSUME NEW t, Ended(t)
  PROVE  \E P : P = [x \in Spots(t) |-> P[x]] /\ IsParse(P, t, 5 * Len(t) + 5)
<1>. DEFINE M == 5 * Len(t) + 5
            S == {n \in 0..M : \E P : P = [x \in Done(t, n) |-> P[x]] /\ IsParse(P, t, n)}
<1>1. Len(t) \in Nat /\ M \in Nat
  BY DEF Ended
<1>2. \A x \in Spots(t) : Order(t, x) \in 0..(M - 1)
  BY <1>1, OrderBound
<1>. HIDE DEF M
<1>3. 0 \in S
  <2>. DEFINE P == [x \in Done(t, 0) |-> 0]
  <2>1. Done(t, 0) = {}
    BY <1>1, <1>2 DEF Done
  <2>2. P = [x \in Done(t, 0) |-> P[x]]
    OBVIOUS
  <2>3. IsParse(P, t, 0)
    BY <2>1 DEF IsParse
  <2>. HIDE DEF P
  <2>. QED
    BY <1>1, <2>2, <2>3
<1>4. ASSUME NEW n \in 1..M, n - 1 \in S PROVE n \in S
  <2>1. PICK P : IsParse(P, t, n - 1)
    BY <1>4
  <2>. DEFINE H == [x \in Done(t, n) |-> IF x \in Done(t, n - 1) THEN P[x] ELSE ParseAt(t, x, P)]
  <2>2. H = [x \in Done(t, n) |-> H[x]]
    OBVIOUS
  <2>3. \A x \in Done(t, n) : H[x] = IF x \in Done(t, n - 1) THEN P[x] ELSE ParseAt(t, x, P)
    OBVIOUS
  <2>. HIDE DEF H
  <2>4. ASSUME NEW x \in Done(t, n)
        PROVE  H[x] = ParseAt(t, x, H) /\ Within(t, x[2], H[x])
    <3>1. x \in Spots(t) /\ Order(t, x) \in Int /\ Order(t, x) < n
      BY <1>2, <2>4 DEF Done
    <3>2. ASSUME NEW y \in Needed(t, x)
          PROVE  P[y] = H[y] /\ Within(t, y[2], P[y])
      <4>1. y \in Spots(t) /\ Order(t, y) \in Int /\ Order(t, y) < Order(t, x)
        BY <3>1, KnownBefore DEF Needed
      <4>2. y \in Done(t, n - 1) /\ y \in Done(t, n)
        BY <1>1, <3>1, <4>1 DEF Done
      <4>. QED
        BY <2>1, <2>3, <4>2 DEF IsParse
    <3>3. Same(t, x, P, H)
      BY <3>2 DEF Same
    <3>4. ParseAt(t, x, P) = ParseAt(t, x, H) /\ Within(t, x[2], ParseAt(t, x, P))
      BY <3>1, <3>3, ParseSame
    <3>5. H[x] = ParseAt(t, x, P)
      BY <2>1, <2>3 DEF IsParse
    <3>. QED
      BY <3>4, <3>5
  <2>5. IsParse(H, t, n)
    BY <2>4 DEF IsParse
  <2>6. n \in 0..M
    BY <1>1
  <2>. QED
    BY <2>2, <2>5, <2>6
<1>. HIDE DEF S
<1>5. \A n \in 0..M : n \in S
  BY <1>1, <1>3, <1>4, UpTo, Zenon
<1>6. M \in S
  BY <1>1, <1>5
<1>7. PICK P : P = [x \in Done(t, M) |-> P[x]] /\ IsParse(P, t, M)
  BY <1>6 DEF S
<1>8. Done(t, M) = Spots(t)
  BY <1>1, <1>2 DEF Done
<1>. QED
  BY <1>7, <1>8 DEF M

(* The functions of the parser call each other as they should.             *)
LEMMA ParserMeets ==
  ASSUME NEW t, Ended(t)
  PROVE  \A x \in Spots(t) : Parse(t)[x] = ParseAt(t, x, Parse(t))
<1>. DEFINE Eq(f) == f = [x \in Level \X (1..(Len(t) + 1)) |-> ParseAt(t, x, f)]
            P == CHOOSE f : Eq(f)
            M == 5 * Len(t) + 5
<1>1. Len(t) \in Nat /\ 1 <= Len(t)
  BY DEF Ended
<1>2. \E f : Eq(f)
  <2>1. PICK f : f = [x \in Spots(t) |-> f[x]] /\ IsParse(f, t, M)
    BY ParseExists
  <2>2. ASSUME NEW x \in Spots(t) PROVE f[x] = ParseAt(t, x, f)
    <3>1. x \in Done(t, M)
      BY <1>1, OrderBound DEF Done
    <3>. QED
      BY <2>1, <3>1 DEF IsParse
  <2>3. [x \in Spots(t) |-> f[x]] = [x \in Spots(t) |-> ParseAt(t, x, f)]
    BY <2>2
  <2>4. f = [x \in Spots(t) |-> ParseAt(t, x, f)]
    BY <2>1, <2>3, Zenon
  <2>. QED
    BY <2>4 DEF Spots
<1>3. Eq(P)
  BY <1>2
<1>4. Parse(t) = P
  BY DEF Parse
<1>. HIDE DEF P
<1>5. \A x \in Spots(t) : P[x] = ParseAt(t, x, P)
  BY <1>3 DEF Spots
<1>. QED
  BY <1>4, <1>5

(* What holds of a function of the parser at a place, once it holds of all *)
(* that it needs, holds of the parser.                                     *)
LEMMA ParserInduction ==
  ASSUME NEW t, Ended(t), NEW T,
         \A x \in Spots(t) : Needed(t, x) \subseteq T => x \in T
  PROVE  Spots(t) \subseteq T
<1>. DEFINE M == 5 * Len(t) + 5
            S == {n \in 0..M : Done(t, n) \subseteq T}
<1>1. Len(t) \in Nat /\ M \in Nat
  BY DEF Ended
<1>. HIDE DEF M
<1>2. 0 \in S
  <2>1. Done(t, 0) = {}
    BY <1>1, OrderBound DEF Done
  <2>. QED
    BY <1>1, <2>1
<1>3. ASSUME NEW n \in 1..M, n - 1 \in S PROVE n \in S
  <2>1. ASSUME NEW x \in Done(t, n) PROVE x \in T
    <3>1. x \in Spots(t) /\ Order(t, x) \in Int /\ Order(t, x) < n
      BY <1>1, <2>1, OrderBound DEF Done
    <3>2. ASSUME NEW y \in Needed(t, x) PROVE y \in T
      <4>1. y \in Spots(t) /\ Order(t, y) \in Int /\ Order(t, y) < Order(t, x)
        BY <3>1, KnownBefore DEF Needed
      <4>2. y \in Done(t, n - 1)
        BY <1>1, <3>1, <4>1 DEF Done
      <4>. QED
        BY <1>3, <4>2
    <3>. QED
      BY <3>1, <3>2
  <2>2. n \in 0..M
    BY <1>1
  <2>. QED
    BY <2>1, <2>2
<1>. HIDE DEF S
<1>4. \A n \in 0..M : n \in S
  BY <1>1, <1>2, <1>3, UpTo, Zenon
<1>5. M \in S
  BY <1>1, <1>4
<1>6. Spots(t) \subseteq Done(t, M)
  BY <1>1, OrderBound DEF Done, M
<1>. QED
  BY <1>5, <1>6 DEF S

(* Wherever the parser begins, it ends inside.                             *)
LEMMA ParserWithin ==
  ASSUME NEW t, Ended(t)
  PROVE  \A x \in Spots(t) : Within(t, x[2], Parse(t)[x])
<1>. DEFINE P == Parse(t)
            T == {x \in Spots(t) : Within(t, x[2], P[x])}
<1>1. ASSUME NEW x \in Spots(t), Needed(t, x) \subseteq T PROVE x \in T
  <2>1. Same(t, x, P, P)
    BY <1>1 DEF Same
  <2>2. Within(t, x[2], ParseAt(t, x, P))
    BY <2>1, ParseSame
  <2>. QED
    BY <2>2, ParserMeets
<1>. HIDE DEF T, P
<1>2. Spots(t) \subseteq T
  BY <1>1, ParserInduction
<1>. QED
  BY <1>2 DEF T, P

(* Of a sequence that has ended the parser is somewhere inside.            *)
LEMMA ParseInside ==
  ASSUME NEW t, Ended(t)
  PROVE  ParseOr(t).at \in 1..Len(t)
<1>1. <<"or", 1>> \in Spots(t) /\ 1 <= Len(t)
  BY DEF Ended, Spots, Level
<1>2. Within(t, 1, Parse(t)[<<"or", 1>>])
  BY <1>1, ParserWithin
<1>. QED
  BY <1>1, <1>2 DEF Within, ParseOr

(* However the filter of a workflow is put together, and in any behaviour, *)
(* the parser does not look beyond its last token (peek and advance in     *)
(* filter_parser.go): there is no text on which it panics.                 *)
THEOREM NoPanic == Spec => []ParserStaysInside
<1>1. IInv => ParserStaysInside
  <2>. SUFFICES ASSUME IInv, Tokenize(Text(filter)).ok
                PROVE  LET t == Tokenize(Text(filter)).tokens IN ParseOr(t).at \in 1..Len(t)
    BY DEF ParserStaysInside
  <2>1. Text(filter) \in Seq(STRING)
    BY TextIsSeq DEF IInv, Typed
  <2>2. Ended(Tokenize(Text(filter)).tokens)
    BY <2>1, TokenizeEnds
  <2>. QED
    BY <2>2, ParseInside
<1>. QED
  BY <1>1, Invariance, PTL
-----------------------------------------------------------------------------
(* How tokens nest.                                                        *)

(* How much deeper a token leads.                                          *)
Turn(token) == IF token.typ \in {"(", "["} THEN 1 ELSE IF token.typ \in {")", "]"} THEN -1 ELSE 0

(* The nesting is counted token by token.                                  *)
LEMMA NestingStep ==
  ASSUME NEW t, NEW i \in Nat \ {0}
  PROVE  /\ Nesting(t, i) \in Int
         /\ Nesting(t, i + 1) = Nesting(t, i) + Turn(t[i])
<1>. DEFINE S(b, n) == {j \in 1..n : t[j].typ \in b}
            open == {"(", "["}
            close == {")", "]"}
<1>1. ASSUME NEW b, NEW n \in Nat PROVE IsFiniteSet(S(b, n))
  <2>1. IsFiniteSet(1..n)
    BY FS_Interval
  <2>. QED
    BY <2>1, FS_Subset
<1>2. ASSUME NEW b
      PROVE  /\ Cardinality(S(b, i - 1)) \in Nat
             /\ Cardinality(S(b, i)) = IF t[i].typ \in b THEN Cardinality(S(b, i - 1)) + 1
                                       ELSE Cardinality(S(b, i - 1))
  <2>1. i \notin S(b, i - 1) /\ i - 1 \in Nat
    OBVIOUS
  <2>2. S(b, i) = IF t[i].typ \in b THEN S(b, i - 1) \cup {i} ELSE S(b, i - 1)
    <3>1. \A j : j \in 1..i <=> j \in 1..(i - 1) \/ j = i
      OBVIOUS
    <3>2. \A j : j \in S(b, i) <=> j \in S(b, i - 1) \/ (j = i /\ t[i].typ \in b)
      BY <3>1
    <3>. HIDE DEF S
    <3>. QED
      BY <3>2
  <2>. HIDE DEF S
  <2>3. IsFiniteSet(S(b, i - 1))
    BY <1>1, <2>1
  <2>. QED
    BY <2>1, <2>2, <2>3, FS_AddElement, FS_CardinalityType
<1>3. /\ Nesting(t, i) = Cardinality(S(open, i - 1)) - Cardinality(S(close, i - 1))
      /\ Nesting(t, i + 1) = Cardinality(S(open, i)) - Cardinality(S(close, i))
  <2>1. (i + 1) - 1 = i
    OBVIOUS
  <2>. QED
    BY <2>1 DEF Nesting
<1>. HIDE DEF S
<1>. QED
  BY <1>2, <1>3 DEF Turn

(* The tokens from i to before j close what they open, and no more.        *)
Balanced(t, i, j) ==
  /\ i < j /\ Nesting(t, j) = Nesting(t, i)
  /\ \A k \in i..j : Nesting(t, k) >= Nesting(t, i)

(* They hold no operator.                                                  *)
Plain(t, i, j) == \A k \in i..(j - 1) : Peek(t, k).typ # "op"

(* They close a list in which they begin.                                  *)
Closing(t, i, j) ==
  /\ i < j /\ Nesting(t, j) = Nesting(t, i) - 1
  /\ \A k \in i..(j - 1) : Nesting(t, k) >= Nesting(t, i)

(* What the function x[1] of the parser has read when it ends well.        *)
Reads(t, x) ==
  LET i == x[2]
      r == Parse(t)[x] IN
  r.ok =>
    /\ x[1] = "value" => Balanced(t, i, r.at) /\ Plain(t, i, r.at)
    /\ x[1] = "items" => Closing(t, i, r.at) /\ Plain(t, i, r.at)
    /\ x[1] \in {"not", "and", "or"} =>
         Balanced(t, i, r.at) /\ r.node = Grouped(t)[<<i, r.at - 1>>]
    /\ x[1] = "not" => Outer(t, i, r.at - 1, "AND") = {}
    /\ x[1] \in {"not", "and"} => Outer(t, i, r.at - 1, "OR") = {}

Read(t, x) == \A y \in Needed(t, x) : Reads(t, y)

(* A token by itself, if it is neither a parenthesis nor a bracket.        *)
LEMMA AloneBalanced ==
  ASSUME NEW t, NEW i \in Nat \ {0}, Turn(t[i]) = 0
  PROVE  Balanced(t, i, i + 1)
<1>1. Nesting(t, i) \in Int /\ Nesting(t, i + 1) = Nesting(t, i)
  BY NestingStep
<1>2. \A k \in i..(i + 1) : k = i \/ k = i + 1
  OBVIOUS
<1>. QED
  BY <1>1, <1>2 DEF Balanced

(* One after the other.                                                    *)
LEMMA BothBalanced ==
  ASSUME NEW t, NEW i \in Nat \ {0}, NEW j \in Nat, NEW k \in Nat,
         Balanced(t, i, j), Balanced(t, j, k)
  PROVE  Balanced(t, i, k)
<1>1. \A l \in i..k : l \in i..j \/ l \in j..k
  OBVIOUS
<1>2. Nesting(t, i) \in Int /\ Nesting(t, j) \in Int /\ Nesting(t, k) \in Int
  BY NestingStep DEF Balanced
<1>. QED
  BY <1>1, <1>2 DEF Balanced

(* What is closed after it was opened.                                     *)
LEMMA EnclosedBalanced ==
  ASSUME NEW t, NEW i \in Nat \ {0}, NEW j \in Nat, t[i].typ \in {"(", "["},
         Closing(t, i + 1, j)
  PROVE  Balanced(t, i, j)
<1>1. /\ Nesting(t, i) \in Int /\ Nesting(t, i + 1) = Nesting(t, i) + 1
  BY NestingStep DEF Turn
<1>2. Nesting(t, j) = Nesting(t, i)
  BY <1>1 DEF Closing
<1>3. ASSUME NEW k \in i..j PROVE Nesting(t, k) >= Nesting(t, i)
  <2>1. k = i \/ k = j \/ k \in (i + 1)..(j - 1)
    OBVIOUS
  <2>2. CASE k \in (i + 1)..(j - 1)
    <3>1. Nesting(t, k) >= Nesting(t, i + 1) /\ Nesting(t, k) \in Int
      BY <2>2, NestingStep DEF Closing
    <3>. QED
      BY <1>1, <3>1
  <2>. QED
    BY <1>1, <1>2, <2>1, <2>2
<1>. QED
  BY <1>2, <1>3 DEF Balanced, Closing

(* What is balanced and then closed.                                       *)
LEMMA BalancedClosing ==
  ASSUME NEW t, NEW i \in Nat \ {0}, NEW j \in Nat, Balanced(t, i, j), t[j].typ \in {")", "]"}
  PROVE  Closing(t, i, j + 1)
<1>1. Nesting(t, i) \in Int /\ Nesting(t, j + 1) = Nesting(t, j) - 1
  BY NestingStep DEF Turn, Balanced
<1>2. (j + 1) - 1 = j
  OBVIOUS
<1>. QED
  BY <1>1, <1>2 DEF Closing, Balanced

(* What is balanced before it is closed.                                   *)
LEMMA ThenClosing ==
  ASSUME NEW t, NEW i \in Nat \ {0}, NEW j \in Nat, NEW k \in Nat,
         Balanced(t, i, j), Closing(t, j, k)
  PROVE  Closing(t, i, k)
<1>1. \A l \in i..(k - 1) : l \in i..j \/ l \in j..(k - 1)
  OBVIOUS
<1>2. Nesting(t, i) \in Int /\ Nesting(t, j) \in Int /\ Nesting(t, k) \in Int
  BY NestingStep DEF Balanced, Closing
<1>. QED
  BY <1>1, <1>2 DEF Balanced, Closing

(* Operators that are not there are not outside.                           *)
LEMMA PlainLacks ==
  ASSUME NEW t, NEW i, NEW j, NEW op, Plain(t, i, j)
  PROVE  Outer(t, i, j - 1, op) = {}
BY DEF Plain, Outer, IsOp, Token

(* What is known of the later ones.                                        *)
LEMMA LaterRead ==
  ASSUME NEW t, Ended(t), NEW i \in 1..(Len(t) + 1), NEW what,
         Read(t, <<what, i>>), NEW l \in Level, NEW j \in (i + 1)..Len(t)
  PROVE  Reads(t, <<l, j>>) /\ Parse(t)[<<l, j>>].at \in j..Len(t)
<1>1. <<l, j>> \in Needed(t, <<what, i>>) /\ <<l, j>> \in Spots(t) /\ j <= Len(t)
  BY DEF Needed, Spots, Ended
<1>2. Within(t, j, Parse(t)[<<l, j>>])
  BY <1>1, ParserWithin
<1>. QED
  BY <1>1, <1>2 DEF Within, Read

(* What is known at the same place.                                        *)
LEMMA LowerRead ==
  ASSUME NEW t, Ended(t), NEW i \in 1..(Len(t) + 1), NEW what,
         Read(t, <<what, i>>), NEW l \in Level, l \in Lower(what)
  PROVE  Reads(t, <<l, i>>) /\ Parse(t)[<<l, i>>].at \in i..(Len(t) + 1)
<1>1. <<l, i>> \in Needed(t, <<what, i>>) /\ <<l, i>> \in Spots(t)
  BY DEF Needed, Spots, Ended
<1>2. Within(t, i, Parse(t)[<<l, i>>])
  BY <1>1, ParserWithin
<1>. QED
  BY <1>1, <1>2 DEF Within, Read

(* A token that is not the last.                                           *)
LEMMA PeekedToken ==
  ASSUME NEW t, Ended(t), NEW i \in 1..(Len(t) + 1), Peek(t, i).typ \notin {"eof", "panic"}
  PROVE  /\ i \in Nat \ {0} /\ i + 1 \in 1..(Len(t) + 1) /\ i + 1 <= Len(t)
         /\ Peek(t, i) = t[i]
         /\ Peek(t, i).typ \notin {"(", "[", ")", "]"} => Balanced(t, i, i + 1)
<1>1. i \in 1..(Len(t) - 1)
  BY PeekedInside
<1>2. Len(t) \in Nat /\ DOMAIN t = 1..Len(t)
  BY DEF Ended
<1>3. Peek(t, i) = t[i]
  BY <1>1, <1>2 DEF Peek
<1>4. i \in Nat \ {0}
  BY <1>1, <1>2
<1>5. Peek(t, i).typ \notin {"(", "[", ")", "]"} => Turn(t[i]) = 0
  BY <1>3 DEF Turn
<1>. QED
  BY <1>1, <1>2, <1>3, <1>4, <1>5, AloneBalanced

(* Values.                                                                 *)
LEMMA ValueReads ==
  ASSUME NEW t, Ended(t), NEW i \in 1..(Len(t) + 1), Read(t, <<"value", i>>)
  PROVE  LET r == ParseValue(t, i, Parse(t)) IN
         r.ok => Balanced(t, i, r.at) /\ Plain(t, i, r.at)
<1>. DEFINE typ == Peek(t, i).typ
            r == ParseValue(t, i, Parse(t))
<1>. SUFFICES r.ok => Balanced(t, i, r.at) /\ Plain(t, i, r.at)
  OBVIOUS
<1>1. \A at : ~Failure(at).ok /\ \A node : Parsed(node, at).at = at
  BY DEF Failure, Parsed
<1>2. CASE typ \in {"string", "number", "ident"}
  <2>1. Balanced(t, i, i + 1) /\ i \in Nat \ {0}
    BY <1>2, PeekedToken
  <2>2. Plain(t, i, i + 1)
    BY <1>2, <2>1 DEF Plain
  <2>3. ParseNumber(Peek(t, i).val, i).ok => ParseNumber(Peek(t, i).val, i).at = i + 1
    BY <1>1 DEF ParseNumber
  <2>4. r.ok => r.at = i + 1
    <3>. HIDE DEF Parsed
    <3>. QED
      BY <1>1, <1>2, <2>3 DEF ParseValue
  <2>. HIDE DEF r
  <2>. QED
    BY <2>1, <2>2, <2>4
<1>3. CASE typ = "[" /\ Peek(t, i + 1).typ = "]"
  <2>1. r.at = i + 2
    BY <1>1, <1>3 DEF ParseValue
  <2>2. i \in Nat \ {0} /\ i + 1 \in 1..(Len(t) + 1) /\ t[i].typ = "["
    BY <1>3, PeekedToken
  <2>3. t[i + 1].typ = "]"
    BY <1>3, <2>2, PeekedToken
  <2>4. Closing(t, i + 1, i + 2)
    <3>1. Nesting(t, i + 1) \in Int /\ Nesting(t, (i + 1) + 1) = Nesting(t, i + 1) - 1
      <4>1. i + 1 \in Nat \ {0} /\ Turn(t[i + 1]) = -1
        BY <2>2, <2>3 DEF Turn
      <4>. QED
        BY <4>1, NestingStep
    <3>2. \A k \in (i + 1)..((i + 2) - 1) : k = i + 1
      BY <2>2
    <3>3. (i + 1) + 1 = i + 2 /\ i + 1 < i + 2
      BY <2>2
    <3>. QED
      BY <3>1, <3>2, <3>3 DEF Closing
  <2>5. Balanced(t, i, i + 2)
    BY <2>2, <2>4, EnclosedBalanced
  <2>6. \A k \in i..((i + 2) - 1) : k = i \/ k = i + 1
    BY <2>2
  <2>7. Plain(t, i, i + 2)
    BY <1>3, <2>6 DEF Plain
  <2>. HIDE DEF r
  <2>. QED
    BY <2>1, <2>5, <2>7
<1>4. CASE typ = "[" /\ Peek(t, i + 1).typ # "]"
  <2>. DEFINE items == Parse(t)[<<"items", i + 1>>]
  <2>1. r = items
    BY <1>4 DEF ParseValue
  <2>2. i \in Nat \ {0} /\ i + 1 \in (i + 1)..Len(t) /\ t[i].typ = "["
    BY <1>4, PeekedToken
  <2>3. Reads(t, <<"items", i + 1>>) /\ items.at \in (i + 1)..Len(t)
    BY <2>2, LaterRead DEF Level
  <2>4. items.ok => Closing(t, i + 1, items.at) /\ Plain(t, i + 1, items.at)
    BY <2>3 DEF Reads
  <2>. HIDE DEF items, r
  <2>5. items.at \in Nat /\ \A k \in i..(items.at - 1) : k = i \/ k \in (i + 1)..(items.at - 1)
    BY <2>2, <2>3
  <2>6. Plain(t, i + 1, items.at) => Plain(t, i, items.at)
    BY <1>4, <2>5 DEF Plain
  <2>7. Closing(t, i + 1, items.at) => Balanced(t, i, items.at)
    BY <2>2, <2>5, EnclosedBalanced
  <2>. QED
    BY <2>1, <2>4, <2>6, <2>7
<1>5. CASE typ \notin {"string", "number", "ident", "["}
  BY <1>1, <1>5 DEF ParseValue
<1>. HIDE DEF r
<1>. QED
  BY <1>2, <1>3, <1>4, <1>5

(* What is plain, and a comma, and plain again.                            *)
LEMMA PlainOn ==
  ASSUME NEW t, NEW i \in Nat, NEW j \in Nat, NEW k \in Nat,
         Plain(t, i, j), Peek(t, j).typ # "op", Plain(t, j + 1, k)
  PROVE  Plain(t, i, k)
<1>1. \A l \in i..(k - 1) : l \in i..(j - 1) \/ l = j \/ l \in (j + 1)..(k - 1)
  OBVIOUS
<1>. QED
  BY <1>1 DEF Plain

(* Lists.                                                                  *)
LEMMA ItemsReads ==
  ASSUME NEW t, Ended(t), NEW i \in 1..(Len(t) + 1), Read(t, <<"items", i>>)
  PROVE  LET r == ParseItems(t, i, Parse(t)) IN
         r.ok => Closing(t, i, r.at) /\ Plain(t, i, r.at)
<1>. DEFINE item == Parse(t)[<<"value", i>>]
            typ == Peek(t, item.at).typ
            r == ParseItems(t, i, Parse(t))
<1>. SUFFICES r.ok => Closing(t, i, r.at) /\ Plain(t, i, r.at)
  OBVIOUS
<1>1. \A at : ~Failure(at).ok /\ \A node : Parsed(node, at).at = at
  BY DEF Failure, Parsed
<1>2. Reads(t, <<"value", i>>) /\ item.at \in i..(Len(t) + 1)
  BY LowerRead DEF Lower, Level
<1>3. item.ok => Balanced(t, i, item.at) /\ Plain(t, i, item.at)
  BY <1>2 DEF Reads
<1>4. item.at \in 1..(Len(t) + 1) /\ Len(t) \in Nat /\ i \in Nat \ {0} /\ item.at \in Nat
  BY <1>2 DEF Ended
<1>5. CASE ~item.ok
  BY <1>5 DEF ParseItems
<1>6. CASE item.ok /\ typ = "]"
  <2>1. r.at = item.at + 1
    BY <1>1, <1>6 DEF ParseItems
  <2>. HIDE DEF item, r
  <2>2. t[item.at].typ = "]"
    BY <1>4, <1>6, PeekedToken
  <2>3. Closing(t, i, item.at + 1)
    BY <1>3, <1>4, <1>6, <2>2, BalancedClosing
  <2>4. \A k \in i..((item.at + 1) - 1) : k \in i..(item.at - 1) \/ k = item.at
    BY <1>4
  <2>5. Plain(t, i, item.at + 1)
    BY <1>3, <1>6, <2>4 DEF Plain
  <2>. QED
    BY <2>1, <2>3, <2>5
<1>7. CASE item.ok /\ typ = ","
  <2>. DEFINE others == Parse(t)[<<"items", item.at + 1>>]
  <2>1. r.ok => others.ok /\ r.at = others.at
    BY <1>1, <1>7 DEF ParseItems
  <2>2. item.at + 1 \in (i + 1)..Len(t) /\ Balanced(t, item.at, item.at + 1)
    <3>. HIDE DEF item
    <3>1. item.at + 1 <= Len(t) /\ Balanced(t, item.at, item.at + 1)
      BY <1>4, <1>7, PeekedToken
    <3>. QED
      BY <1>2, <1>4, <3>1
  <2>3. Reads(t, <<"items", item.at + 1>>) /\ others.at \in (item.at + 1)..Len(t)
    <3>. HIDE DEF item
    <3>. QED
      BY <2>2, LaterRead DEF Level
  <2>4. others.ok => Closing(t, item.at + 1, others.at) /\ Plain(t, item.at + 1, others.at)
    BY <2>3 DEF Reads
  <2>. HIDE DEF others, item, r
  <2>5. others.at \in Nat /\ item.at + 1 \in Nat
    BY <1>4, <2>3
  <2>6. others.ok => Closing(t, i, others.at)
    <3>1. Balanced(t, i, item.at + 1)
      BY <1>3, <1>4, <1>7, <2>2, <2>5, BothBalanced
    <3>. QED
      BY <1>4, <2>4, <2>5, <3>1, ThenClosing
  <2>7. others.ok => Plain(t, i, others.at)
    BY <1>3, <1>4, <1>7, <2>4, <2>5, PlainOn
  <2>. QED
    BY <2>1, <2>6, <2>7
<1>8. CASE item.ok /\ typ \notin {",", "]"}
  BY <1>1, <1>8 DEF ParseItems
<1>. HIDE DEF item, r
<1>. QED
  BY <1>5, <1>6, <1>7, <1>8
-----------------------------------------------------------------------------
(* The reference for the grouping.                                         *)

Spans(t) == (1..(Len(t) + 1)) \X (0..Len(t))

Extent(x) == IF x[1] > x[2] THEN 0 ELSE x[2] - x[1] + 1

(* The last operator outside is outside, and the last.                     *)
LEMMA LastOuter ==
  ASSUME NEW t, NEW i \in Nat, NEW j \in Nat, NEW op, Outer(t, i, j, op) # {}
  PROVE  /\ Max(Outer(t, i, j, op)) \in Outer(t, i, j, op)
         /\ Max(Outer(t, i, j, op)) \in i..j
         /\ \A k \in Outer(t, i, j, op) : Max(Outer(t, i, j, op)) >= k
<1>. DEFINE S == Outer(t, i, j, op)
<1>1. S \in SUBSET Nat /\ S \subseteq i..j /\ \A n \in S : n <= j
  BY DEF Outer
<1>. HIDE DEF S
<1>2. S # {}
  BY DEF S
<1>3. PICK m \in S : \A n \in S : n <= m
  BY <1>1, <1>2, GreatestOfNat, Zenon
<1>4. \A n \in S : m >= n
  BY <1>1, <1>3
<1>5. Max(S) \in S /\ \A n \in S : Max(S) >= n
  BY <1>4 DEF Max
<1>. QED
  BY <1>1, <1>5 DEF S

(* What tokens say depends on what fewer of them say.                      *)
LEMMA GroupedSame ==
  ASSUME NEW t, Len(t) \in Nat, NEW x \in Spans(t), NEW G, NEW H,
         \A y \in Spans(t) : Extent(y) < Extent(x) => G[y] = H[y]
  PROVE  GroupedAt(t, x, G) = GroupedAt(t, x, H)
<1>1. PICK i \in 1..(Len(t) + 1), j \in 0..Len(t) : x = <<i, j>>
  BY DEF Spans
<1>2. CASE i > j
  BY <1>1, <1>2 DEF GroupedAt
<1>3. CASE ~(i > j)
  <2>. DEFINE ors == Outer(t, i, j, "OR")
              ands == Outer(t, i, j, "AND")
              Halves(F, kind, k) == [kind |-> kind, left |-> F[<<i, k - 1>>], right |-> F[<<k + 1, j>>]]
  <2>1. ASSUME NEW a \in 1..(Len(t) + 1), NEW b \in 0..Len(t), b - a < j - i
        PROVE  G[<<a, b>>] = H[<<a, b>>]
    <3>1. <<a, b>> \in Spans(t) /\ Extent(<<a, b>>) < Extent(x)
      BY <1>1, <1>3, <2>1 DEF Spans, Extent
    <3>. QED
      BY <3>1
  <2>2. i \in Nat /\ j \in Nat
    BY <1>1
  <2>3. ASSUME NEW k \in i..j, NEW kind PROVE Halves(G, kind, k) = Halves(H, kind, k)
    <3>1. /\ k - 1 \in 0..Len(t) /\ k + 1 \in 1..(Len(t) + 1) /\ (k - 1) - i < j - i
          /\ j - (k + 1) < j - i
      BY <1>1
    <3>2. G[<<i, k - 1>>] = H[<<i, k - 1>>] /\ G[<<k + 1, j>>] = H[<<k + 1, j>>]
      BY <1>1, <2>1, <3>1
    <3>. QED
      BY <3>2
  <2>4. ors # {} => Halves(G, "or", Max(ors)) = Halves(H, "or", Max(ors))
    <3>1. ors # {} => Max(ors) \in i..j
      BY <2>2, LastOuter
    <3>. HIDE DEF ors, Halves
    <3>. QED
      BY <2>3, <3>1
  <2>5. ands # {} => Halves(G, "and", Max(ands)) = Halves(H, "and", Max(ands))
    <3>1. ands # {} => Max(ands) \in i..j
      BY <2>2, LastOuter
    <3>. HIDE DEF ands, Halves
    <3>. QED
      BY <2>3, <3>1
  <2>6. i + 1 \in 1..(Len(t) + 1) /\ j - (i + 1) < j - i /\ (j - 1) - (i + 1) < j - i /\ j - 1 \in 0..Len(t)
    BY <1>1, <1>3
  <2>7. G[<<i + 1, j>>] = H[<<i + 1, j>>] /\ G[<<i + 1, j - 1>>] = H[<<i + 1, j - 1>>]
    BY <1>1, <2>1, <2>6
  <2>8. x[1] = i /\ x[2] = j
    BY <1>1
  <2>9. CASE ors # {}
    BY <1>3, <2>4, <2>8, <2>9 DEF GroupedAt
  <2>10. CASE ors = {} /\ ands # {}
    BY <1>3, <2>5, <2>8, <2>10 DEF GroupedAt
  <2>11. CASE ors = {} /\ ands = {}
    BY <1>3, <2>7, <2>8, <2>11 DEF GroupedAt
  <2>. QED
    BY <2>9, <2>10, <2>11
<1>. QED
  BY <1>2, <1>3

(* What G should be, for fewer tokens than n.                              *)
Short(t, n) == {x \in Spans(t) : Extent(x) < n}

IsGrouped(G, t, n) == \A x \in Short(t, n) : G[x] = GroupedAt(t, x, G)

(* There is such a function.                                               *)
LEMMA GroupedExists ==
  ASSUME NEW t, Len(t) \in Nat
  PROVE  \E G : G = [x \in Spans(t) |-> G[x]] /\ IsGrouped(G, t, Len(t) + 1)
<1>. DEFINE M == Len(t) + 1
            S == {n \in 0..M : \E G : G = [x \in Short(t, n) |-> G[x]] /\ IsGrouped(G, t, n)}
<1>1. M \in Nat
  OBVIOUS
<1>2. \A x \in Spans(t) : Extent(x) \in 0..(M - 1)
  BY DEF Spans, Extent
<1>. HIDE DEF M
<1>3. 0 \in S
  <2>. DEFINE G == [x \in Short(t, 0) |-> 0]
  <2>1. Short(t, 0) = {}
    BY <1>1, <1>2 DEF Short
  <2>2. G = [x \in Short(t, 0) |-> G[x]]
    OBVIOUS
  <2>3. IsGrouped(G, t, 0)
    BY <2>1 DEF IsGrouped
  <2>. HIDE DEF G
  <2>. QED
    BY <1>1, <2>2, <2>3
<1>4. ASSUME NEW n \in 1..M, n - 1 \in S PROVE n \in S
  <2>1. PICK G : IsGrouped(G, t, n - 1)
    BY <1>4
  <2>. DEFINE H == [x \in Short(t, n) |-> IF x \in Short(t, n - 1) THEN G[x] ELSE GroupedAt(t, x, G)]
  <2>2. H = [x \in Short(t, n) |-> H[x]]
    OBVIOUS
  <2>3. \A x \in Short(t, n) : H[x] = IF x \in Short(t, n - 1) THEN G[x] ELSE GroupedAt(t, x, G)
    OBVIOUS
  <2>. HIDE DEF H
  <2>4. ASSUME NEW x \in Short(t, n) PROVE H[x] = GroupedAt(t, x, H)
    <3>1. x \in Spans(t) /\ Extent(x) \in Int /\ Extent(x) < n
      BY <1>2, <2>4 DEF Short
    <3>2. ASSUME NEW y \in Spans(t), Extent(y) < Extent(x) PROVE G[y] = H[y]
      <4>1. y \in Short(t, n - 1) /\ y \in Short(t, n)
        BY <1>1, <1>2, <3>1, <3>2 DEF Short
      <4>. QED
        BY <2>3, <4>1
    <3>3. GroupedAt(t, x, G) = GroupedAt(t, x, H)
      BY <3>1, <3>2, GroupedSame
    <3>4. H[x] = GroupedAt(t, x, G)
      BY <2>1, <2>3 DEF IsGrouped
    <3>. QED
      BY <3>3, <3>4
  <2>5. IsGrouped(H, t, n)
    BY <2>4 DEF IsGrouped
  <2>6. n \in 0..M
    BY <1>1
  <2>. QED
    BY <2>2, <2>5, <2>6
<1>. HIDE DEF S
<1>5. \A n \in 0..M : n \in S
  BY <1>1, <1>3, <1>4, UpTo, Zenon
<1>6. M \in S
  BY <1>1, <1>5
<1>7. PICK G : G = [x \in Short(t, M) |-> G[x]] /\ IsGrouped(G, t, M)
  BY <1>6 DEF S
<1>8. Short(t, M) = Spans(t)
  BY <1>1, <1>2 DEF Short
<1>. QED
  BY <1>7, <1>8 DEF M

(* What tokens say is made of what fewer of them say.                      *)
LEMMA GroupedMeets ==
  ASSUME NEW t, Len(t) \in Nat
  PROVE  \A x \in Spans(t) : Grouped(t)[x] = GroupedAt(t, x, Grouped(t))
<1>. DEFINE Eq(f) == f = [x \in (1..(Len(t) + 1)) \X (0..Len(t)) |-> GroupedAt(t, x, f)]
            G == CHOOSE f : Eq(f)
<1>1. \E f : Eq(f)
  <2>1. PICK f : f = [x \in Spans(t) |-> f[x]] /\ IsGrouped(f, t, Len(t) + 1)
    BY GroupedExists
  <2>2. ASSUME NEW x \in Spans(t) PROVE f[x] = GroupedAt(t, x, f)
    <3>1. x \in Short(t, Len(t) + 1)
      BY DEF Short, Spans, Extent
    <3>. QED
      BY <2>1, <3>1 DEF IsGrouped
  <2>3. [x \in Spans(t) |-> f[x]] = [x \in Spans(t) |-> GroupedAt(t, x, f)]
    BY <2>2
  <2>4. f = [x \in Spans(t) |-> GroupedAt(t, x, f)]
    BY <2>1, <2>3, Zenon
  <2>. QED
    BY <2>4 DEF Spans
<1>2. Eq(G)
  BY <1>1
<1>3. Grouped(t) = G
  BY DEF Grouped
<1>. HIDE DEF G
<1>4. \A x \in Spans(t) : G[x] = GroupedAt(t, x, G)
  BY <1>2 DEF Spans
<1>. QED
  BY <1>3, <1>4
-----------------------------------------------------------------------------
(* What is parsed against what is grouped.                                 *)

(* The operators outside, on both sides of a token that is.                *)
LEMMA OuterOn ==
  ASSUME NEW t, NEW i \in Nat, NEW k \in Nat, NEW j \in Nat, NEW op,
         Nesting(t, k + 1) = Nesting(t, i)
  PROVE  \A l \in Outer(t, i, j - 1, op) :
           \/ l \in Outer(t, i, k - 1, op)
           \/ l = k /\ IsOp(t, k, op)
           \/ l \in Outer(t, k + 1, j - 1, op)
<1>1. \A l \in i..(j - 1) : l \in i..(k - 1) \/ l = k \/ l \in (k + 1)..(j - 1)
  OBVIOUS
<1>. QED
  BY <1>1 DEF Outer

(* An operator is a token by itself.                                       *)
LEMMA OpAlone ==
  ASSUME NEW t, Ended(t), NEW k \in 1..(Len(t) + 1), NEW op, IsOp(t, k, op)
  PROVE  /\ k \in Nat \ {0} /\ k + 1 \in 1..(Len(t) + 1) /\ k + 1 <= Len(t)
         /\ Balanced(t, k, k + 1) /\ Nesting(t, k + 1) = Nesting(t, k)
         /\ Peek(t, k).typ = "op" /\ Peek(t, k).val = <<op>>
<1>1. Peek(t, k).typ = "op" /\ Peek(t, k).val = <<op>>
  BY DEF IsOp, Token
<1>. QED
  BY <1>1, PeekedToken DEF Balanced

(* Conditions are what is said where there is no operator outside.         *)
LEMMA ConditionReads ==
  ASSUME NEW t, Ended(t), NEW i \in 1..(Len(t) + 1), Read(t, <<"not", i>>),
         Peek(t, i).typ # "(", ~IsOp(t, i, "NOT")
  PROVE  LET r == ParseCondition(t, i, Parse(t)) IN
         r.ok => /\ Balanced(t, i, r.at) /\ r.node = Grouped(t)[<<i, r.at - 1>>]
                 /\ Outer(t, i, r.at - 1, "AND") = {} /\ Outer(t, i, r.at - 1, "OR") = {}
<1>. DEFINE r == ParseCondition(t, i, Parse(t))
            value == Parse(t)[<<"value", i + 2>>]
<1>. SUFFICES ASSUME r.ok
              PROVE  /\ Balanced(t, i, r.at) /\ r.node = Grouped(t)[<<i, r.at - 1>>]
                     /\ Outer(t, i, r.at - 1, "AND") = {} /\ Outer(t, i, r.at - 1, "OR") = {}
  OBVIOUS
<1>1. /\ Peek(t, i).typ = "ident" /\ Peek(t, i + 1).typ = "op" /\ Peek(t, i + 1).val \in Known
      /\ value.ok /\ r.at = value.at
  <2>1. \A at : ~Failure(at).ok /\ \A node : Parsed(node, at).at = at
    BY DEF Failure, Parsed
  <2>. HIDE DEF value
  <2>. QED
    BY <2>1 DEF ParseCondition, value
<1>2. /\ i \in Nat \ {0} /\ i + 1 \in 1..(Len(t) + 1) /\ Balanced(t, i, i + 1)
  BY <1>1, PeekedToken
<1>3. /\ (i + 1) + 1 <= Len(t) /\ Balanced(t, i + 1, (i + 1) + 1)
  BY <1>1, <1>2, PeekedToken
<1>4. i + 2 \in (i + 1)..Len(t) /\ (i + 1) + 1 = i + 2 /\ Len(t) \in Nat
  BY <1>2, <1>3 DEF Ended
<1>5. Reads(t, <<"value", i + 2>>) /\ value.at \in (i + 2)..Len(t)
  BY <1>4, LaterRead DEF Level
<1>6. Balanced(t, i + 2, value.at) /\ Plain(t, i + 2, value.at)
  BY <1>1, <1>5 DEF Reads
<1>. DEFINE j == value.at - 1
<1>. HIDE DEF value
<1>7. value.at \in Nat /\ i + 1 \in Nat /\ i + 2 \in Nat /\ j \in i..Len(t) /\ j \in Nat /\ j + 1 = value.at
  BY <1>2, <1>4, <1>5
<1>8. Balanced(t, i, value.at)
  <2>1. Balanced(t, i, i + 2)
    BY <1>2, <1>3, <1>4, <1>7, BothBalanced
  <2>. QED
    BY <1>2, <1>6, <1>7, <2>1, BothBalanced
<1>9. ASSUME NEW op \in {"AND", "OR"} PROVE Outer(t, i, j, op) = {}
  <2>. SUFFICES ASSUME NEW k \in i..j, Peek(t, k).typ = "op", Peek(t, k).val = <<op>> PROVE FALSE
    BY DEF Outer, IsOp, Token
  <2>1. k = i \/ k = i + 1 \/ k \in (i + 2)..(value.at - 1)
    BY <1>7
  <2>2. <<op>> \notin Known
    BY DEF Known
  <2>. QED
    BY <1>1, <1>6, <2>1, <2>2 DEF Plain
<1>10. r.node = Grouped(t)[<<i, j>>]
  <2>1. Grouped(t)[<<i, j>>] = GroupedAt(t, <<i, j>>, Grouped(t))
    <3>1. <<i, j>> \in Spans(t)
      BY <1>7 DEF Spans
    <3>. QED
      BY <1>4, <3>1, GroupedMeets
  <2>2. Outer(t, i, j, "OR") = {} /\ Outer(t, i, j, "AND") = {} /\ ~(i > j)
    BY <1>7, <1>9
  <2>3. r.at = j + 1
    BY <1>1, <1>7
  <2>. HIDE DEF j
  <2>. QED
    BY <2>1, <2>2, <2>3 DEF GroupedAt
<1>. HIDE DEF r
<1>. QED
  BY <1>1, <1>8, <1>9, <1>10

(* Parentheses hide the operators between them.                            *)
LEMMA PrimaryReads ==
  ASSUME NEW t, Ended(t), NEW i \in 1..(Len(t) + 1), Read(t, <<"not", i>>), ~IsOp(t, i, "NOT")
  PROVE  LET r == ParsePrimary(t, i, Parse(t)) IN
         r.ok => /\ Balanced(t, i, r.at) /\ r.node = Grouped(t)[<<i, r.at - 1>>]
                 /\ Outer(t, i, r.at - 1, "AND") = {} /\ Outer(t, i, r.at - 1, "OR") = {}
<1>1. CASE Peek(t, i).typ # "("
  <2>1. ParsePrimary(t, i, Parse(t)) = ParseCondition(t, i, Parse(t))
    BY <1>1 DEF ParsePrimary
  <2>. QED
    BY <1>1, <2>1, ConditionReads
<1>2. CASE Peek(t, i).typ = "("
  <2>. DEFINE r == ParsePrimary(t, i, Parse(t))
              inner == Parse(t)[<<"or", i + 1>>]
              j == inner.at
  <2>. SUFFICES ASSUME r.ok
                PROVE  /\ Balanced(t, i, r.at) /\ r.node = Grouped(t)[<<i, r.at - 1>>]
                       /\ Outer(t, i, r.at - 1, "AND") = {} /\ Outer(t, i, r.at - 1, "OR") = {}
    OBVIOUS
  <2>1. inner.ok /\ Peek(t, j).typ = ")" /\ r.node = inner.node /\ r.at = j + 1
    <3>1. \A at : ~Failure(at).ok /\ \A node : Parsed(node, at).at = at /\ Parsed(node, at).node = node
      BY DEF Failure, Parsed
    <3>. QED
      BY <1>2, <3>1 DEF ParsePrimary
  <2>2. i \in Nat \ {0} /\ i + 1 \in (i + 1)..Len(t) /\ t[i].typ = "("
    BY <1>2, PeekedToken
  <2>3. Reads(t, <<"or", i + 1>>) /\ j \in (i + 1)..Len(t)
    BY <2>2, LaterRead DEF Level
  <2>4. Balanced(t, i + 1, j) /\ inner.node = Grouped(t)[<<i + 1, j - 1>>]
    BY <2>1, <2>3 DEF Reads
  <2>. HIDE DEF inner, j
  <2>5. j \in 1..(Len(t) + 1) /\ j \in Nat /\ i + 1 \in Nat \ {0} /\ Len(t) \in Nat /\ j + 1 \in Nat
    BY <2>2, <2>3 DEF Ended
  <2>6. t[j].typ = ")"
    BY <2>1, <2>5, PeekedToken
  <2>7. Closing(t, i + 1, j + 1)
    BY <2>4, <2>5, <2>6, BalancedClosing
  <2>8. Balanced(t, i, j + 1)
    BY <2>2, <2>5, <2>7, EnclosedBalanced
  <2>9. ASSUME NEW op \in {"AND", "OR"} PROVE Outer(t, i, j, op) = {}
    <3>. SUFFICES ASSUME NEW k \in i..j, Peek(t, k).typ = "op", Nesting(t, k) = Nesting(t, i) PROVE FALSE
      BY DEF Outer, IsOp, Token
    <3>1. k \in (i + 1)..j
      BY <1>2, <2>2, <2>5
    <3>2. Nesting(t, k) >= Nesting(t, i + 1)
      BY <2>4, <3>1 DEF Balanced
    <3>3. Nesting(t, i + 1) = Nesting(t, i) + 1 /\ Nesting(t, i) \in Int
      BY <2>2, NestingStep DEF Turn
    <3>. QED
      BY <3>2, <3>3
  <2>10. Grouped(t)[<<i, j>>] = Grouped(t)[<<i + 1, j - 1>>]
    <3>1. <<i, j>> \in Spans(t)
      BY <2>3, <2>5 DEF Spans
    <3>2. Grouped(t)[<<i, j>>] = GroupedAt(t, <<i, j>>, Grouped(t))
      BY <2>5, <3>1, GroupedMeets
    <3>3. Outer(t, i, j, "OR") = {} /\ Outer(t, i, j, "AND") = {} /\ ~(i > j)
      BY <2>2, <2>3, <2>9
    <3>. QED
      BY <1>2, <2>1, <3>2, <3>3 DEF GroupedAt
  <2>11. r.at - 1 = j
    BY <2>1, <2>5
  <2>. HIDE DEF r
  <2>. QED
    BY <2>1, <2>4, <2>8, <2>9, <2>10, <2>11
<1>. QED
  BY <1>1, <1>2

(* NOT says the contrary of what follows, up to the next operator outside. *)
LEMMA NotReads ==
  ASSUME NEW t, Ended(t), NEW i \in 1..(Len(t) + 1), Read(t, <<"not", i>>)
  PROVE  LET r == ParseNot(t, i, Parse(t)) IN
         r.ok => /\ Balanced(t, i, r.at) /\ r.node = Grouped(t)[<<i, r.at - 1>>]
                 /\ Outer(t, i, r.at - 1, "AND") = {} /\ Outer(t, i, r.at - 1, "OR") = {}
<1>1. CASE ~IsOp(t, i, "NOT")
  <2>1. ParseNot(t, i, Parse(t)) = ParsePrimary(t, i, Parse(t))
    BY <1>1 DEF ParseNot
  <2>. QED
    BY <1>1, <2>1, PrimaryReads
<1>2. CASE IsOp(t, i, "NOT")
  <2>. DEFINE r == ParseNot(t, i, Parse(t))
              inner == Parse(t)[<<"not", i + 1>>]
              j == inner.at
  <2>. SUFFICES ASSUME r.ok
                PROVE  /\ Balanced(t, i, r.at) /\ r.node = Grouped(t)[<<i, r.at - 1>>]
                       /\ Outer(t, i, r.at - 1, "AND") = {} /\ Outer(t, i, r.at - 1, "OR") = {}
    OBVIOUS
  <2>1. inner.ok /\ r.node = [kind |-> "not", left |-> inner.node] /\ r.at = j
    <3>1. \A at, node : Parsed(node, at).at = at /\ Parsed(node, at).node = node
      BY DEF Parsed
    <3>. QED
      BY <1>2, <3>1 DEF ParseNot
  <2>2. /\ i \in Nat \ {0} /\ i + 1 \in (i + 1)..Len(t) /\ Nesting(t, i + 1) = Nesting(t, i)
        /\ Balanced(t, i, i + 1) /\ Peek(t, i).typ = "op" /\ Peek(t, i).val = <<"NOT">>
    BY <1>2, OpAlone
  <2>3. Reads(t, <<"not", i + 1>>) /\ j \in (i + 1)..Len(t)
    BY <2>2, LaterRead DEF Level
  <2>4. /\ Balanced(t, i + 1, j) /\ inner.node = Grouped(t)[<<i + 1, j - 1>>]
        /\ Outer(t, i + 1, j - 1, "AND") = {} /\ Outer(t, i + 1, j - 1, "OR") = {}
    BY <2>1, <2>3 DEF Reads
  <2>. HIDE DEF inner, j
  <2>5. j \in Nat /\ i + 1 \in Nat /\ Len(t) \in Nat /\ j - 1 \in i..Len(t)
    <3>1. i + 1 < j
      BY <2>4 DEF Balanced
    <3>. QED
      BY <2>2, <2>3, <3>1 DEF Ended
  <2>6. Balanced(t, i, j)
    BY <2>2, <2>4, <2>5, BothBalanced
  <2>7. ASSUME NEW op \in {"AND", "OR"} PROVE Outer(t, i, j - 1, op) = {}
    <3>1. ~IsOp(t, i, op)
      BY <2>2 DEF IsOp, Token
    <3>2. Outer(t, i, i - 1, op) = {}
      BY <2>2 DEF Outer
    <3>. QED
      BY <2>2, <2>4, <2>5, <3>1, <3>2, OuterOn
  <2>8. Grouped(t)[<<i, j - 1>>] = [kind |-> "not", left |-> Grouped(t)[<<i + 1, j - 1>>]]
    <3>1. <<i, j - 1>> \in Spans(t)
      BY <2>5 DEF Spans
    <3>2. Grouped(t)[<<i, j - 1>>] = GroupedAt(t, <<i, j - 1>>, Grouped(t))
      BY <2>5, <3>1, GroupedMeets
    <3>3. Outer(t, i, j - 1, "OR") = {} /\ Outer(t, i, j - 1, "AND") = {} /\ ~(i > j - 1)
      BY <2>2, <2>5, <2>7
    <3>. QED
      BY <1>2, <3>2, <3>3 DEF GroupedAt
  <2>. HIDE DEF r
  <2>. QED
    BY <2>1, <2>4, <2>6, <2>7, <2>8
<1>. QED
  BY <1>1, <1>2
(* After an operator outside comes nothing that binds as weakly: it is the *)
(* last of its kind.                                                       *)
LEMMA MaxOuter ==
  ASSUME NEW t, NEW i \in Nat, NEW k \in Nat, NEW j \in Nat, NEW op,
         i <= k, k < j, IsOp(t, k, op), Nesting(t, k) = Nesting(t, i),
         Nesting(t, k + 1) = Nesting(t, i), Outer(t, k + 1, j - 1, op) = {}
  PROVE  Outer(t, i, j - 1, op) # {} /\ Max(Outer(t, i, j - 1, op)) = k
<1>. DEFINE S == Outer(t, i, j - 1, op)
<1>1. k \in S /\ j - 1 \in Nat
  BY DEF Outer
<1>2. Max(S) \in S /\ Max(S) \in Nat /\ Max(S) >= k
  <2>1. Max(S) \in i..(j - 1)
    BY <1>1, LastOuter
  <2>. QED
    BY <1>1, <2>1, LastOuter
<1>3. \A l \in S : l <= k
  BY OuterOn DEF Outer
<1>. HIDE DEF S
<1>4. Max(S) = k
  BY <1>2, <1>3
<1>. QED
  BY <1>1, <1>4 DEF S

(* What the loop of parseOr or parseAnd has read after some of its rounds. *)
Chained(t, i, op, r) ==
  r.ok => /\ r.at \in i..(Len(t) + 1) /\ Balanced(t, i, r.at)
          /\ r.node = Grouped(t)[<<i, r.at - 1>>]
          /\ op = "AND" => Outer(t, i, r.at - 1, "OR") = {}

Chains == {<<"and", "AND", "not">>, <<"or", "OR", "and">>}

(* A round takes what was read as the left of what it reads.               *)
LEMMA RoundReads ==
  ASSUME NEW t, Ended(t), NEW i \in 1..(Len(t) + 1), NEW kind, NEW op, NEW operand,
         <<kind, op, operand>> \in Chains, Read(t, <<kind, i>>),
         NEW left, Chained(t, i, op, left)
  PROVE  Chained(t, i, op, OneMore(t, left, Parse(t), op, kind, operand))
<1>1. CASE ~(left.ok /\ IsOp(t, left.at, op))
  BY <1>1 DEF OneMore
<1>2. CASE left.ok /\ IsOp(t, left.at, op)
  <2>. DEFINE k == left.at
              right == Parse(t)[<<operand, k + 1>>]
              r == OneMore(t, left, Parse(t), op, kind, operand)
              j == right.at
  <2>. SUFFICES ASSUME r.ok
                PROVE  Chained(t, i, op, r)
    BY DEF Chained
  <2>1. right.ok /\ r.at = j /\ r.node = [kind |-> kind, left |-> left.node, right |-> right.node]
    <3>1. \A at, node : Parsed(node, at).at = at /\ Parsed(node, at).node = node
      BY DEF Parsed
    <3>. QED
      BY <1>2, <3>1 DEF OneMore, Join
  <2>2. /\ k \in i..(Len(t) + 1) /\ Balanced(t, i, k) /\ left.node = Grouped(t)[<<i, k - 1>>]
        /\ op = "AND" => Outer(t, i, k - 1, "OR") = {}
    BY <1>2 DEF Chained
  <2>. HIDE DEF k
  <2>3. k \in 1..(Len(t) + 1) /\ Len(t) \in Nat /\ IsOp(t, k, op) /\ i \in Nat \ {0}
    BY <1>2, <2>2 DEF Ended, k
  <2>4. /\ k \in Nat \ {0} /\ k + 1 <= Len(t) /\ Balanced(t, k, k + 1)
        /\ Nesting(t, k + 1) = Nesting(t, k) /\ Peek(t, k).val = <<op>>
    BY <2>3, OpAlone
  <2>5. operand \in {"not", "and"} /\ k + 1 \in (i + 1)..Len(t)
    BY <2>2, <2>3, <2>4 DEF Chains
  <2>6. Reads(t, <<operand, k + 1>>) /\ j \in (k + 1)..Len(t)
    <3>1. operand \in Level
      BY <2>5 DEF Level
    <3>. QED
      BY <2>5, <3>1, LaterRead
  <2>7. /\ Balanced(t, k + 1, j) /\ right.node = Grouped(t)[<<k + 1, j - 1>>]
        /\ operand = "not" => Outer(t, k + 1, j - 1, "AND") = {}
        /\ Outer(t, k + 1, j - 1, "OR") = {}
    BY <2>1, <2>5, <2>6 DEF Reads
  <2>. HIDE DEF right, j
  <2>8. j \in Nat /\ k + 1 \in Nat /\ i <= k /\ k < j /\ j \in i..(Len(t) + 1) /\ j - 1 \in i..Len(t)
    BY <2>2, <2>3, <2>5, <2>6
  <2>9. Balanced(t, i, j)
    <3>1. Balanced(t, i, k + 1)
      BY <2>2, <2>3, <2>4, <2>8, BothBalanced
    <3>. QED
      BY <2>3, <2>7, <2>8, <3>1, BothBalanced
  <2>10. Nesting(t, k) = Nesting(t, i) /\ Nesting(t, k + 1) = Nesting(t, i)
    BY <2>2, <2>4 DEF Balanced
  <2>11. Outer(t, i, j - 1, op) # {} /\ Max(Outer(t, i, j - 1, op)) = k
    <3>1. Outer(t, k + 1, j - 1, op) = {}
      BY <2>7 DEF Chains
    <3>. QED
      BY <2>3, <2>4, <2>8, <2>10, <3>1, MaxOuter
  <2>12. op = "AND" => Outer(t, i, j - 1, "OR") = {}
    <3>1. op = "AND" => ~IsOp(t, k, "OR")
      BY <2>4 DEF IsOp, Token
    <3>. QED
      BY <2>2, <2>3, <2>4, <2>7, <2>8, <2>10, <3>1, OuterOn
  <2>13. Grouped(t)[<<i, j - 1>>] =
           [kind |-> kind, left |-> Grouped(t)[<<i, k - 1>>], right |-> Grouped(t)[<<k + 1, j - 1>>]]
    <3>1. <<i, j - 1>> \in Spans(t)
      BY <2>8 DEF Spans
    <3>2. Grouped(t)[<<i, j - 1>>] = GroupedAt(t, <<i, j - 1>>, Grouped(t))
      BY <2>3, <3>1, GroupedMeets
    <3>3. ~(i > j - 1)
      BY <2>3, <2>8
    <3>4. CASE kind = "or" /\ op = "OR"
      BY <2>11, <3>2, <3>3, <3>4 DEF GroupedAt
    <3>5. CASE kind = "and" /\ op = "AND"
      BY <2>11, <2>12, <3>2, <3>3, <3>5 DEF GroupedAt
    <3>. QED
      BY <3>4, <3>5 DEF Chains
  <2>. HIDE DEF r
  <2>. QED
    BY <2>1, <2>2, <2>7, <2>8, <2>9, <2>12, <2>13 DEF Chained
<1>. QED
  BY <1>1, <1>2

(* And so does the whole loop.                                             *)
LEMMA ChainReads ==
  ASSUME NEW t, Ended(t), NEW i \in 1..(Len(t) + 1), NEW kind, NEW op, NEW operand,
         <<kind, op, operand>> \in Chains, Read(t, <<kind, i>>)
  PROVE  Chained(t, i, op, Chain(t, i, Parse(t), op, kind, operand))
<1>1. PICK R : /\ IsRounds(R, t, i, Parse(t), op, kind, operand, Len(t))
               /\ Chain(t, i, Parse(t), op, kind, operand) = R[Len(t)]
  BY ChainIsLast
<1>. DEFINE S == {n \in 0..Len(t) : Chained(t, i, op, R[n])}
<1>2. Len(t) \in Nat
  BY DEF Ended
<1>3. 0 \in S
  <2>1. operand \in Level /\ operand \in Lower(kind) /\ operand \in {"not", "and"}
    BY DEF Chains, Level, Lower
  <2>2. /\ Reads(t, <<operand, i>>)
        /\ Parse(t)[<<operand, i>>].at \in i..(Len(t) + 1)
    BY <2>1, LowerRead
  <2>3. Chained(t, i, op, Parse(t)[<<operand, i>>])
    BY <2>1, <2>2 DEF Reads, Chained
  <2>. QED
    BY <1>1, <1>2, <2>3 DEF IsRounds
<1>4. ASSUME NEW n \in 1..Len(t), n - 1 \in S PROVE n \in S
  <2>1. R[n] = OneMore(t, R[n - 1], Parse(t), op, kind, operand)
    BY <1>1 DEF IsRounds
  <2>2. Chained(t, i, op, R[n - 1]) /\ n \in 0..Len(t)
    BY <1>2, <1>4
  <2>. QED
    BY <2>1, <2>2, RoundReads
<1>. HIDE DEF S
<1>5. \A n \in 0..Len(t) : n \in S
  BY <1>2, <1>3, <1>4, UpTo, Zenon
<1>6. Len(t) \in S
  BY <1>2, <1>5
<1>. QED
  BY <1>1, <1>6 DEF S
(* Wherever the parser begins, it groups what it reads.                    *)
LEMMA AllRead ==
  ASSUME NEW t, Ended(t)
  PROVE  \A x \in Spots(t) : Reads(t, x)
<1>. DEFINE T == {x \in Spots(t) : Reads(t, x)}
<1>1. ASSUME NEW x \in Spots(t), Needed(t, x) \subseteq T PROVE Reads(t, x)
  <2>1. PICK what \in Level, i \in 1..(Len(t) + 1) : x = <<what, i>>
    BY DEF Spots
  <2>2. Read(t, <<what, i>>) /\ x[1] = what /\ x[2] = i
    BY <1>1, <2>1 DEF Read
  <2>3. Parse(t)[x] = ParseAt(t, x, Parse(t))
    BY ParserMeets
  <2>4. CASE what = "value"
    <3>1. Parse(t)[x] = ParseValue(t, i, Parse(t))
      BY <2>2, <2>3, <2>4 DEF ParseAt
    <3>. QED
      BY <2>2, <2>4, <3>1, ValueReads DEF Reads
  <2>5. CASE what = "items"
    <3>1. Parse(t)[x] = ParseItems(t, i, Parse(t))
      BY <2>2, <2>3, <2>5 DEF ParseAt
    <3>. QED
      BY <2>2, <2>5, <3>1, ItemsReads DEF Reads
  <2>6. CASE what = "not"
    <3>1. Parse(t)[x] = ParseNot(t, i, Parse(t))
      BY <2>2, <2>3, <2>6 DEF ParseAt
    <3>. QED
      BY <2>2, <2>6, <3>1, NotReads DEF Reads
  <2>7. CASE what = "and"
    <3>1. Parse(t)[x] = Chain(t, i, Parse(t), "AND", "and", "not")
      BY <2>2, <2>3, <2>7 DEF ParseAt
    <3>2. <<"and", "AND", "not">> \in Chains
      BY DEF Chains
    <3>3. Chained(t, i, "AND", Parse(t)[x])
      BY <2>2, <2>7, <3>1, <3>2, ChainReads
    <3>. QED
      BY <2>2, <2>7, <3>3 DEF Reads, Chained
  <2>8. CASE what = "or"
    <3>1. Parse(t)[x] = Chain(t, i, Parse(t), "OR", "or", "and")
      BY <2>2, <2>3, <2>8 DEF ParseAt
    <3>2. <<"or", "OR", "and">> \in Chains
      BY DEF Chains
    <3>3. Chained(t, i, "OR", Parse(t)[x])
      BY <2>2, <2>8, <3>1, <3>2, ChainReads
    <3>. QED
      BY <2>2, <2>8, <3>3 DEF Reads, Chained
  <2>. QED
    BY <2>4, <2>5, <2>6, <2>7, <2>8 DEF Level
<1>2. ASSUME NEW x \in Spots(t), Needed(t, x) \subseteq T PROVE x \in T
  BY <1>1, <1>2
<1>. HIDE DEF T
<1>3. Spots(t) \subseteq T
  BY <1>2, ParserInduction
<1>. QED
  BY <1>3 DEF T

(* However the filter of a workflow is put together, and in any behaviour, *)
(* what the parser accepts is grouped as standard boolean logic groups it, *)
(* and to the last token (parseOr, parseAnd, parseNot and parsePrimary in  *)
(* filter_parser.go).                                                      *)
THEOREM Grouping == Spec => []GroupsAsWritten
<1>1. IInv => GroupsAsWritten
  <2>. DEFINE text == Text(filter)
              t == Tokenize(text).tokens
              expr == ParseOr(t)
  <2>. SUFFICES ASSUME IInv, ParseFilter(text).ok, \E i \in DOMAIN text : text[i] \notin Space
                PROVE  ParseFilter(text).node = Grouped(t)[<<1, Len(t) - 1>>]
    BY DEF GroupsAsWritten
  <2>1. text \in Seq(STRING)
    BY TextIsSeq DEF IInv, Typed
  <2>2. /\ Tokenize(text).ok /\ expr.ok /\ Peek(t, expr.at) = EOF
        /\ ParseFilter(text) = expr
    <3>1. \A at : ~Failure(at).ok
      BY DEF Failure
    <3>. QED
      BY <3>1 DEF ParseFilter
  <2>. HIDE DEF text
  <2>3. Ended(t) /\ EndedOnce(t)
    BY <2>1, <2>2, TokenizeEnds
  <2>. HIDE DEF t
  <2>4. <<"or", 1>> \in Spots(t) /\ Len(t) \in Nat
    BY <2>3 DEF Ended, Spots, Level
  <2>5. Reads(t, <<"or", 1>>) /\ expr = Parse(t)[<<"or", 1>>]
    BY <2>3, <2>4, AllRead DEF ParseOr
  <2>6. expr.node = Grouped(t)[<<1, expr.at - 1>>]
    BY <2>2, <2>5 DEF Reads
  <2>7. expr.at \in 1..Len(t)
    BY <2>3, ParseInside
  <2>8. expr.at = Len(t)
    <3>. HIDE DEF expr
    <3>1. Peek(t, expr.at) = t[expr.at]
      BY <2>3, <2>7 DEF Peek, Ended
    <3>. QED
      BY <2>2, <2>3, <2>4, <2>7, <3>1 DEF EndedOnce
  <2>. QED
    BY <2>2, <2>6, <2>8
<1>. QED
  BY <1>1, Invariance, PTL
=============================================================================
