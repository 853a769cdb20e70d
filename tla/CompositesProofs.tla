-------------------------- MODULE CompositesProofs --------------------------
(***************************************************************************)
(* Proofs about the handles of amqp_definitions.c, for any number of       *)
(* handles, values and calls of setters.  That the functions of each type  *)
(* agree with each other (TableAssumption) is a fact about a finite table, *)
(* which TLC evaluates; what follows from it for every sequence of calls   *)
(* is proved here.                                                         *)
(*                                                                         *)
(* `Stored' says that the items of a value hold what was last stored, and  *)
(* `accepted' that amqpvalue_get_T accepts them.                           *)
(***************************************************************************)
EXTENDS Composites, FiniteSetTheorems, SequenceTheorems, WellFoundedInduction, TLAPS

-----------------------------------------------------------------------------
(* Items *)

\* An item that is absent is null.
ItemAt(items, n) == IF n <= Len(items) THEN items[n] ELSE NullItem

\* What amqpvalue_get_T asks of an item.
Passes(check, item) ==
    IF item.type = "null" THEN ~check.must ELSE is_one_or_many(item, check.type, check.many)

Accepted(t, items) == \A n \in DOMAIN t.checks : Passes(t.checks[n], ItemAt(items, n))

\* A getter may have made an array of an item.
Alikes(item, stored) == item.tag = stored.tag /\ (item.type = "null" <=> stored.type = "null")

Stored(t, items, contents) ==
    \A n \in DOMAIN t.fields : Alikes(ItemAt(items, n), contents[n])

LEMMA NullIs == NullItem \in Items /\ NullItem.type = "null"
<1>1. 0 \in Tags
    BY CompositesAssumption DEF CompositesAssumption, Tags
<1> QED BY <1>1 DEF NullItem, Item, Items, PrimitiveTypes

LEMMA ItemAtType ==
    ASSUME NEW items \in Seq(Items), NEW n \in Nat \ {0}
    PROVE  ItemAt(items, n) \in Items
<1>1. Len(items) \in Nat
    OBVIOUS
<1>2. n <= Len(items) => n \in 1 .. Len(items)
    BY <1>1
<1> QED BY <1>2, NullIs DEF ItemAt

\* The items that amqpvalue_get_T looks at.
LEMMA AcceptedIs ==
    ASSUME NEW items \in Seq(Items), T.checks \in Seq(CheckType)
    PROVE  accepted_as_T(items) <=> Accepted(T, items)
<1>1. ASSUME NEW n \in DOMAIN T.checks
      PROVE  item_accepted(T.checks[n], items, n) <=> Passes(T.checks[n], ItemAt(items, n))
    <2>1. n \in Nat /\ Len(items) \in Nat
        OBVIOUS
    <2>2. CASE n <= Len(items)
        <3>1. ItemAt(items, n) = items[n] /\ ~(n > Len(items))
            BY <2>1, <2>2 DEF ItemAt
        <3> QED BY <3>1 DEF item_accepted, Passes
    <2>3. CASE ~(n <= Len(items))
        <3>1. ItemAt(items, n).type = "null" /\ n > Len(items)
            BY <2>1, <2>3, NullIs DEF ItemAt
        <3> QED BY <3>1 DEF item_accepted, Passes
    <2> QED BY <2>2, <2>3
<1> QED BY <1>1 DEF accepted_as_T, Accepted

\* The facts about a field that the functions of its type agree on.
LEMMA FieldFacts ==
    ASSUME NEW t, Agrees(t), NEW n \in DOMAIN t.fields
    PROVE  /\ n \in Nat \ {0} /\ n \in DOMAIN t.checks
           /\ FieldAgrees(t.fields[n], t.checks[n], n)
           /\ t.fields[n] \in FieldType /\ t.checks[n] \in CheckType
           /\ t.fields[n].get.type \in TypeNames /\ t.fields[n].set.type \in TypeNames
           /\ t.checks[n].type \in TypeNames
<1>1. /\ t.fields \in Seq(FieldType) /\ t.checks \in Seq(CheckType) /\ Len(t.checks) = Len(t.fields)
      /\ FieldAgrees(t.fields[n], t.checks[n], n)
    BY DEF Agrees
<1>2. n \in Nat \ {0} /\ n \in DOMAIN t.checks
    BY <1>1
<1>3. t.fields[n] \in FieldType /\ t.checks[n] \in CheckType
    BY <1>1, <1>2
<1> QED BY <1>1, <1>2, <1>3 DEF FieldType, CheckType

\* What passes the check of a field is what its getter reads.
LEMMA Reads ==
    ASSUME NEW t, Agrees(t), NEW items \in Seq(Items), NEW n \in DOMAIN t.fields,
           Passes(t.checks[n], ItemAt(items, n))
    PROVE  T_get(items, t.fields[n]) =
             IF ItemAt(items, n).type = "null" THEN Default(t.fields[n].get.default)
             ELSE Read(ItemAt(items, n).tag)
<1> DEFINE f == t.fields[n]
           c == t.checks[n]
           item == ItemAt(items, n)
<1>1. /\ n \in Nat \ {0} /\ FieldAgrees(f, c, n) /\ Len(items) \in Nat
    BY FieldFacts
<1>2. /\ f.get.at = n - 1 /\ f.get.many = c.many
      /\ f.get.type = "any" \/ (c.type # "any" /\ primitive(c.type) = primitive(f.get.type))
    BY <1>1 DEF FieldAgrees
<1>3. (n - 1) + 1 = n /\ (Len(items) <= n - 1 <=> ~(n <= Len(items)))
    BY <1>1
<1>4. CASE n <= Len(items)
    <2>1. item = items[n]
        BY <1>4 DEF ItemAt
    <2>2. T_get(items, f) =
            IF item.type = "null" THEN Default(f.get.default)
            ELSE IF is_one_or_many(item, f.get.type, f.get.many) THEN Read(item.tag)
            ELSE Default(NoDefault)
        BY <1>2, <1>3, <1>4, <2>1 DEF T_get
    <2>3. item.type # "null" => is_one_or_many(item, f.get.type, f.get.many)
        <3>1. item.type # "null" => is_one_or_many(item, c.type, c.many)
            BY DEF Passes
        <3> QED BY <1>2, <3>1 DEF is_one_or_many, is_of
    <2> QED BY <2>2, <2>3
<1>5. CASE ~(n <= Len(items))
    <2>1. item.type = "null"
        BY <1>5, NullIs DEF ItemAt
    <2>2. T_get(items, f) = Default(f.get.default)
        BY <1>2, <1>3, <1>5 DEF T_get
    <2> QED BY <2>1, <2>2
<1> QED BY <1>4, <1>5

\* One item is set and the others are as they were.
OneSet(items, new, n, item) ==
    /\ ItemAt(new, n) = item
    /\ \A k \in Nat \ {0} : k # n => ItemAt(new, k) = ItemAt(items, k)

\* amqpvalue_set_composite_item changes one item.
LEMMA SetItem ==
    ASSUME NEW items \in Seq(Items), NEW n \in Nat \ {0}, NEW item \in Items, NEW new,
           NEW at, at = n - 1, new = amqpvalue_set_composite_item(items, at, item)
    PROVE  new \in Seq(Items) /\ OneSet(items, new, n, item)
<1> DEFINE L == IF Len(items) > n - 1 THEN Len(items) ELSE n
           g(i) == IF i = n THEN item ELSE IF i <= Len(items) THEN items[i] ELSE NullItem
<1>1. Len(items) \in Nat /\ (n - 1) + 1 = n /\ L \in Nat /\ n <= L /\ Len(items) <= L
    OBVIOUS
<1>2. new = [i \in 1 .. L |-> g(i)]
    BY <1>1 DEF amqpvalue_set_composite_item
<1>3. \A i \in 1 .. L : g(i) \in Items
    <2>1. TAKE i \in 1 .. L
    <2>2. i <= Len(items) => items[i] \in Items
        BY <1>1
    <2> QED BY <2>2, NullIs
<1> HIDE DEF L
<1>4. new \in Seq(Items) /\ Len(new) = L /\ \A i \in 1 .. L : new[i] = g(i)
    BY <1>1, <1>2, <1>3
<1>5. ItemAt(new, n) = item
    <2>1. n \in 1 .. L
        BY <1>1
    <2> QED BY <1>1, <1>4, <2>1 DEF ItemAt
<1>6. ASSUME NEW k \in Nat \ {0}, k # n PROVE ItemAt(new, k) = ItemAt(items, k)
    <2>1. CASE k <= L
        <3>1. k \in 1 .. L
            BY <1>1, <2>1
        <3> QED BY <1>4, <1>6, <2>1, <3>1 DEF ItemAt
    <2>2. CASE ~(k <= L)
        <3>1. ~(k <= Len(items))
            BY <1>1, <2>2
        <3> QED BY <1>4, <2>2, <3>1 DEF ItemAt
    <2> QED BY <2>1, <2>2
<1> QED BY <1>4, <1>5, <1>6 DEF OneSet

\* What suits a check passes it.
LEMMA SuitsPasses ==
    ASSUME NEW check, NEW item, Suits(item.type, check)
    PROVE  Passes(check, item)
BY DEF Passes, Suits, is_one_or_many, is_of

\* What is stored in the other fields.
SameBut(t, n, stored, contents) ==
    \A k \in DOMAIN t.fields : k # n => stored[k] = contents[k]

\* An item that suits a field is set.
LEMMA SetKeeps ==
    ASSUME NEW t, Agrees(t), NEW items \in Seq(Items), NEW contents, NEW stored,
           NEW n \in DOMAIN t.fields, NEW item \in Items,
           Suits(item.type, t.checks[n]), Alikes(item, stored[n]),
           SameBut(t, n, stored, contents), Stored(t, items, contents), Accepted(t, items),
           NEW at, at = n - 1, NEW new, new = amqpvalue_set_composite_item(items, at, item)
    PROVE  new \in Seq(Items) /\ Stored(t, new, stored) /\ Accepted(t, new)
<1>1. n \in Nat \ {0} /\ t.checks[n] \in CheckType
    BY FieldFacts
<1>2. new \in Seq(Items) /\ OneSet(items, new, n, item)
    BY <1>1, SetItem
<1>3. DOMAIN t.fields \subseteq Nat \ {0} /\ DOMAIN t.checks \subseteq Nat \ {0}
    <2>1. t.fields \in Seq(FieldType) /\ t.checks \in Seq(CheckType)
        BY DEF Agrees
    <2> QED BY <2>1
<1>4. Stored(t, new, stored)
    BY <1>2, <1>3 DEF Stored, OneSet, SameBut
<1>5. Passes(t.checks[n], item)
    BY SuitsPasses
<1>6. Accepted(t, new)
    BY <1>2, <1>3, <1>5 DEF Accepted, OneSet
<1> QED BY <1>2, <1>4, <1>6

\* The argument of a setter or of T_create is an item.
LEMMA ArgumentIs ==
    ASSUME NEW of \in TypeNames, NEW many \in BOOLEAN, NEW tag \in Tags
    PROVE  Argument(of, many, tag) \in Items /\ Argument(of, many, tag).tag = tag
           /\ Argument(of, many, tag).type = Argument(of, many, 0).type
<1>1. (IF many THEN "array" ELSE primitive(of)) \in PrimitiveTypes
    BY DEF TypeNames, PrimitiveTypes
<1> QED BY <1>1 DEF Argument, Item, Items


-----------------------------------------------------------------------------
(* T_create *)

LEMMA IsSeq ==
    ASSUME NEW S, NEW m \in Nat, NEW s \in [1 .. m -> S]
    PROVE  s \in Seq(S) /\ Len(s) = m
OBVIOUS

\* A set of natural numbers has a least element.
LEMMA LeastNat ==
    ASSUME NEW S \in SUBSET Nat, S # {}
    PROVE  \E x \in S : \A y \in S : x <= y
<1> DEFINE R == OpToRel(<, Nat)
<1>1. \A x, y \in Nat : <<y, x>> \in R <=> y < x
    BY DEF OpToRel
<1>2. IsWellFoundedOn(R, Nat)
    BY NatLessThanWellFounded
<1> HIDE DEF R
<1>3. PICK x \in S : \A y \in S : ~(<<y, x>> \in R)
    BY <1>2, WFMin
<1>4. ASSUME NEW y \in S PROVE x <= y
    <2>1. x \in Nat /\ y \in Nat
        OBVIOUS
    <2>2. ~(y < x)
        BY <1>1, <1>3, <2>1
    <2> QED BY <2>1, <2>2
<1> QED BY <1>4

\* A bounded set of natural numbers has a greatest element: its least bound.
LEMMA MaxIs ==
    ASSUME NEW S \in SUBSET Nat, S # {}, NEW N \in Nat, \A y \in S : y <= N
    PROVE  Max(S) \in S /\ \A y \in S : y <= Max(S)
<1> DEFINE B == {b \in Nat : \A y \in S : y <= b}
<1>1. PICK b \in B : \A c \in B : b <= c
    <2>1. B \in SUBSET Nat /\ N \in B
        OBVIOUS
    <2> QED BY <2>1, LeastNat
<1>2. b \in Nat /\ \A y \in S : y <= b
    BY <1>1
<1>3. b \in S
    <2> SUFFICES ASSUME b \notin S PROVE FALSE
        OBVIOUS
    <2>1. PICK z \in S : TRUE
        OBVIOUS
    <2>2. z \in Nat /\ z <= b /\ z # b
        BY <1>2
    <2>3. b - 1 \in Nat /\ ~(b <= b - 1)
        BY <1>2, <2>2
    <2>4. ASSUME NEW y \in S PROVE y <= b - 1
        <3>1. y \in Nat /\ y <= b /\ y # b
            BY <1>2
        <3> QED BY <1>2, <3>1
    <2>5. b - 1 \in B
        BY <2>3, <2>4
    <2> QED BY <1>1, <2>3, <2>5
<1>4. \E x \in S : \A y \in S : x >= y
    <2>1. \A y \in S : b >= y
        BY <1>2
    <2> QED BY <1>3, <2>1
<1>5. Max(S) \in S /\ \A y \in S : Max(S) >= y
    BY <1>4 DEF Max
<1>6. ASSUME NEW y \in S PROVE y <= Max(S)
    <2>1. y \in Nat /\ Max(S) \in Nat /\ Max(S) >= y
        BY <1>5
    <2> QED BY <2>1
<1> QED BY <1>5, <1>6

\* An argument of T_create belongs to one field, whose check it suits.
LEMMA ArgumentOf ==
    ASSUME Agrees(T), NEW arg \in arguments
    PROVE  \E n \in Fields :
             /\ arg.at = n - 1 /\ arg.at \in Nat
             /\ \A k \in Fields : arg.at = k - 1 <=> arg.name = T.fields[k].name
             /\ argument(arg) \in Items /\ Suits(argument(arg).type, T.checks[n])
<1>1. CreateAgrees(T) /\ T.create.args \in Seq(ArgumentType) /\ arg \in ToSet(T.create.args)
    BY DEF Agrees, arguments
<1>2. arg \in ArgumentType
    BY <1>1 DEF ToSet
<1> DEFINE n == field_named(arg.name)
<1>3. \E k \in Fields : T.fields[k].name = arg.name
    BY <1>1 DEF CreateAgrees, Fields
<1>4. n \in Fields /\ T.fields[n].name = arg.name
    BY <1>3 DEF field_named
<1> HIDE DEF n
<1>5. /\ \A k \in Fields : arg.at = k - 1 <=> arg.name = T.fields[k].name
      /\ \A k \in Fields : arg.at = k - 1 =>
            Suits(Argument(arg.type, T.fields[k].get.many, 0).type, T.checks[k])
    BY <1>1 DEF CreateAgrees, Fields
<1>6. arg.at = n - 1 /\ Suits(Argument(arg.type, T.fields[n].get.many, 0).type, T.checks[n])
    BY <1>4, <1>5
<1>7. arg.type \in TypeNames /\ arg.at \in Nat
    BY <1>2 DEF ArgumentType
<1>8. T.fields[n].get.many \in BOOLEAN
    <2>1. T.fields[n] \in FieldType
        BY <1>4, FieldFacts DEF Fields
    <2> QED BY <2>1 DEF FieldType
<1>9. CreateTag \in Tags
    BY CompositesAssumption DEF CompositesAssumption, CreateTag, Tags
<1>10. argument(arg) = Argument(arg.type, T.fields[n].get.many, CreateTag)
    BY DEF argument, n
<1>11. argument(arg) \in Items
       /\ argument(arg).type = Argument(arg.type, T.fields[n].get.many, 0).type
    BY <1>7, <1>8, <1>9, <1>10, ArgumentIs
<1> QED BY <1>4, <1>5, <1>6, <1>7, <1>11


\* The arguments that become item n - 1, and the item.
At(n) == {arg \in arguments : arg.at = n - 1}

LEMMA OnlyIs ==
    ASSUME Agrees(T), NEW A \in SUBSET arguments
    PROVE  /\ only(A) \in Items
           /\ A = {} => only(A) = NullItem
           /\ A # {} => \E arg \in A : only(A) = argument(arg)
<1>1. CASE A = {}
    BY <1>1, NullIs DEF only
<1>2. CASE A # {}
    <2> DEFINE arg == CHOOSE x \in A : TRUE
    <2>1. arg \in A
        BY <1>2
    <2>2. only(A) = argument(arg)
        BY <1>2 DEF only
    <2> HIDE DEF arg
    <2>3. argument(arg) \in Items
        BY <2>1, ArgumentOf
    <2> QED BY <1>2, <2>1, <2>2, <2>3
<1> QED BY <1>1, <1>2

\* Items and fields that T_create fills go together, and the mandatory ones are filled.
LEMMA Filled ==
    ASSUME Agrees(T), NEW n \in Fields
    PROVE  /\ At(n) = {arg \in arguments : arg.name = T.fields[n].name}
           /\ Passes(T.checks[n], only(At(n)))
<1>1. At(n) = {arg \in arguments : arg.name = T.fields[n].name}
    <2>1. ASSUME NEW arg \in arguments
          PROVE  arg.at = n - 1 <=> arg.name = T.fields[n].name
        BY ArgumentOf
    <2> QED BY <2>1 DEF At
<1>2. n \in Nat \ {0} /\ n \in DOMAIN T.checks
    BY FieldFacts DEF Fields
<1>3. CASE At(n) = {}
    <2>1. only(At(n)).type = "null"
        BY <1>3, NullIs DEF only
    <2>2. ~T.checks[n].must
        BY <1>2, <1>3 DEF At, Agrees, CreateAgrees, arguments
    <2> QED BY <1>1, <2>1, <2>2 DEF Passes
<1>4. CASE At(n) # {}
    <2>1. At(n) \in SUBSET arguments
        BY DEF At
    <2>2. PICK arg \in At(n) : only(At(n)) = argument(arg)
        BY <1>4, <2>1, OnlyIs
    <2>3. arg \in arguments /\ arg.at = n - 1
        BY DEF At
    <2>4. PICK k \in Fields : /\ arg.at = k - 1 /\ arg.at \in Nat
                              /\ Suits(argument(arg).type, T.checks[k])
        BY <2>3, ArgumentOf
    <2>5. k \in Nat \ {0}
        BY FieldFacts DEF Fields
    <2>6. k = n
        BY <1>2, <2>3, <2>4, <2>5
    <2>7. Suits(only(At(n)).type, T.checks[n])
        BY <2>2, <2>4, <2>6
    <2> QED BY <1>1, <2>7, SuitsPasses
<1> QED BY <1>1, <1>3, <1>4

\* What T_create stores.
LEMMA Created ==
    ASSUME Agrees(T), NEW items, NEW contents,
           items = [i \in 1 .. Max({0} \cup {arg.at + 1 : arg \in arguments}) |->
                      only({arg \in arguments : arg.at = i - 1})],
           contents = [f \in Fields |->
                         only({arg \in arguments : arg.name = T.fields[f].name})]
    PROVE  /\ items \in Seq(Items) /\ contents \in [Fields -> Items]
           /\ Stored(T, items, contents) /\ Accepted(T, items)
<1> DEFINE S == {0} \cup {arg.at + 1 : arg \in arguments}
           M == Max(S)
<1>1. M \in Nat /\ \A arg \in arguments : arg.at + 1 <= M
    <2>1. DOMAIN T.fields = 1 .. Len(T.fields) /\ Len(T.fields) \in Nat
        BY DEF Agrees
    <2>2. ASSUME NEW arg \in arguments
          PROVE  arg.at + 1 \in Nat /\ arg.at + 1 <= Len(T.fields)
        <3>1. PICK n \in Fields : arg.at = n - 1
            BY ArgumentOf
        <3>2. n \in 1 .. Len(T.fields)
            BY <2>1 DEF Fields
        <3>3. arg.at + 1 = n
            BY <2>1, <3>1, <3>2
        <3> QED BY <2>1, <3>2, <3>3
    <2>3. S \in SUBSET Nat /\ 0 \in S /\ \A y \in S : y <= Len(T.fields)
        BY <2>1, <2>2
    <2>4. M \in S /\ \A y \in S : y <= M
        BY <2>1, <2>3, MaxIs
    <2> QED BY <2>3, <2>4
<1>2. items = [i \in 1 .. M |-> only(At(i))]
    BY DEF At
<1> HIDE DEF M
<1>3. \A i : At(i) \in SUBSET arguments
    BY DEF At
<1>4. \A i : only(At(i)) \in Items
    BY <1>3, OnlyIs
<1>5. items \in Seq(Items) /\ Len(items) = M /\ \A i \in 1 .. M : items[i] = only(At(i))
    <2>1. \A i \in 1 .. M : items[i] = only(At(i))
        BY <1>2
    <2>2. items \in [1 .. M -> Items]
        BY <1>2, <1>4
    <2> QED BY <1>1, <2>1, <2>2, IsSeq
<1>6. ASSUME NEW n \in Fields
      PROVE  contents[n] = only(At(n)) /\ ItemAt(items, n) = only(At(n))
    <2>1. contents[n] = only(At(n))
        BY Filled
    <2>2. n \in Nat \ {0}
        BY FieldFacts DEF Fields
    <2>3. CASE n <= M
        <3>1. n \in 1 .. M
            BY <1>1, <2>2, <2>3
        <3> QED BY <1>5, <2>1, <2>3, <3>1 DEF ItemAt
    <2>4. CASE ~(n <= M)
        <3>1. ASSUME NEW arg \in At(n) PROVE FALSE
            <4>1. arg \in arguments /\ arg.at = n - 1
                BY DEF At
            <4>2. (n - 1) + 1 = n /\ arg.at + 1 <= M
                BY <1>1, <2>2, <4>1
            <4> QED BY <2>4, <4>1, <4>2
        <3>2. only(At(n)) = NullItem
            BY <3>1 DEF only
        <3> QED BY <1>5, <2>1, <2>4, <3>2 DEF ItemAt
    <2> QED BY <2>3, <2>4, <2>1
<1>7. contents \in [Fields -> Items]
    <2>1. ASSUME NEW f \in Fields
          PROVE  only({arg \in arguments : arg.name = T.fields[f].name}) \in Items
        BY <1>4, Filled
    <2> QED BY <2>1
<1>8. Stored(T, items, contents)
    BY <1>6 DEF Stored, Fields, Alikes
<1>9. Accepted(T, items)
    <2>1. DOMAIN T.checks = Fields
        BY DEF Agrees, Fields
    <2> QED BY <1>6, <2>1, Filled DEF Accepted
<1> QED BY <1>5, <1>7, <1>8, <1>9


-----------------------------------------------------------------------------
(* Received values *)

LEMMA ListsType ==
    ASSUME Agrees(T), NEW items \in Lists
    PROVE  items \in Seq(Items)
<1>1. T.checks \in Seq(CheckType) /\ DOMAIN T.checks = 1 .. Len(T.checks) /\ Len(T.checks) \in Nat
    BY DEF Agrees
<1>2. CreateTag \in Tags
    BY CompositesAssumption DEF CompositesAssumption, CreateTag, Tags
<1>3. \A of \in PrimitiveTypes : Item(of, CreateTag) \in Items
    BY <1>2 DEF Item, Items
<1>4. \A i \in DOMAIN T.checks : primitive(T.checks[i].type) \in PrimitiveTypes
    <2>1. TAKE i \in DOMAIN T.checks
    <2>2. T.checks[i] \in CheckType
        BY <1>1
    <2>3. T.checks[i].type \in TypeNames
        BY <2>2 DEF CheckType
    <2> QED BY <2>3 DEF TypeNames
<1>5. {"array", "map", "string", "symbol"} \subseteq PrimitiveTypes
    BY DEF PrimitiveTypes
<1>6. FullList \in [1 .. Len(T.checks) -> Items]
    BY <1>1, <1>3, <1>4, <1>5 DEF FullList
<1>7. FullList \in Seq(Items) /\ Len(FullList) = Len(T.checks)
    BY <1>1, <1>6, IsSeq
<1>8. ASSUME NEW i \in DOMAIN T.checks, items \in Altered(i) PROVE items \in Seq(Items)
    <2>1. Alike(T.checks[i].type) \in PrimitiveTypes
        BY <1>5 DEF Alike
    <2>2. PICK item \in {NullItem, Item(Alike(T.checks[i].type), CreateTag),
                         Item(primitive(T.checks[i].type), CreateTag)} :
            items = [FullList EXCEPT ![i] = item]
        BY <1>8 DEF Altered
    <2>3. item \in Items
        BY <1>3, <1>4, <2>1, NullIs
    <2>4. items \in [1 .. Len(T.checks) -> Items]
        BY <1>1, <1>6, <2>2, <2>3
    <2> QED BY <1>1, <2>4, IsSeq
<1>9. ASSUME NEW n \in 0 .. Len(FullList), items = SubSeq(FullList, 1, n)
      PROVE  items \in Seq(Items)
    BY <1>7, <1>9
<1>10. ASSUME items = Append(FullList, Item("map", CreateTag)) PROVE items \in Seq(Items)
    BY <1>3, <1>5, <1>7, <1>10
<1>11. \/ \E n \in 0 .. Len(FullList) : items = SubSeq(FullList, 1, n)
       \/ \E i \in DOMAIN T.checks : items \in Altered(i)
       \/ items = Append(FullList, Item("map", CreateTag))
    <2> DEFINE A == {SubSeq(FullList, 1, n) : n \in 0 .. Len(FullList)}
               B == {Altered(i) : i \in DOMAIN T.checks}
               last == Append(FullList, Item("map", CreateTag))
    <2>1. items \in A => \E n \in 0 .. Len(FullList) : items = SubSeq(FullList, 1, n)
        OBVIOUS
    <2>2. items \in UNION B => \E i \in DOMAIN T.checks : items \in Altered(i)
        OBVIOUS
    <2>3. items \in A \cup (UNION B) \cup {last}
        BY DEF Lists
    <2> HIDE DEF A, B, last
    <2>4. items \in A \/ items \in UNION B \/ items = last
        BY <2>3, Zenon
    <2> QED BY <2>1, <2>2, <2>4, Zenon DEF last
<1> QED BY <1>8, <1>9, <1>10, <1>11

-----------------------------------------------------------------------------
(* Values and their holders *)

Value == [items : Seq(Items), refs : Nat]

\* Nothing but the count of a value changes, or nothing but its items.
OnlyRefs(vs, new, v, r) ==
    /\ new \in Seq(Value) /\ Len(new) = Len(vs) /\ DOMAIN new = DOMAIN vs
    /\ new[v].refs = r
    /\ \A k \in DOMAIN vs : new[k].items = vs[k].items
    /\ \A k \in DOMAIN vs : k # v => new[k].refs = vs[k].refs

OnlyItems(vs, new, v, items) ==
    /\ new \in Seq(Value) /\ Len(new) = Len(vs) /\ DOMAIN new = DOMAIN vs
    /\ new[v].items = items
    /\ \A k \in DOMAIN vs : new[k].refs = vs[k].refs
    /\ \A k \in DOMAIN vs : k # v => new[k].items = vs[k].items

OnlyAt(W, s, new, v, e) ==
    /\ new \in Seq(W) /\ Len(new) = Len(s) /\ new[v] = e
    /\ \A k \in DOMAIN s : k # v => new[k] = s[k]

LEMMA EntrySet ==
    ASSUME NEW W, NEW s \in Seq(W), NEW v \in DOMAIN s, NEW e \in W,
           NEW new, new = [s EXCEPT ![v] = e]
    PROVE  OnlyAt(W, s, new, v, e)
BY DEF OnlyAt

LEMMA RefsSet ==
    ASSUME NEW vs \in Seq(Value), NEW v \in DOMAIN vs, NEW r \in Nat, NEW new,
           new = [vs EXCEPT ![v].refs = r]
    PROVE  OnlyRefs(vs, new, v, r)
<1>1. vs[v] \in Value
    OBVIOUS
<1> DEFINE e == [vs[v] EXCEPT !.refs = r]
<1>2. e \in Value /\ e.refs = r /\ e.items = vs[v].items
    BY <1>1 DEF Value
<1>3. new = [vs EXCEPT ![v] = e]
    OBVIOUS
<1> HIDE DEF e
<1>4. new \in Seq(Value) /\ Len(new) = Len(vs) /\ DOMAIN new = DOMAIN vs
    BY <1>2, <1>3
<1>5. new[v] = e /\ \A k \in DOMAIN vs : k # v => new[k] = vs[k]
    BY <1>3
<1> QED BY <1>2, <1>4, <1>5 DEF OnlyRefs

LEMMA ItemsSet ==
    ASSUME NEW vs \in Seq(Value), NEW v \in DOMAIN vs, NEW items \in Seq(Items), NEW new,
           new = [vs EXCEPT ![v].items = items]
    PROVE  OnlyItems(vs, new, v, items)
<1>1. vs[v] \in Value
    OBVIOUS
<1> DEFINE e == [vs[v] EXCEPT !.items = items]
<1>2. e \in Value /\ e.items = items /\ e.refs = vs[v].refs
    BY <1>1 DEF Value
<1>3. new = [vs EXCEPT ![v] = e]
    OBVIOUS
<1> HIDE DEF e
<1>4. new \in Seq(Value) /\ Len(new) = Len(vs) /\ DOMAIN new = DOMAIN vs
    BY <1>2, <1>3, SMTT(40)
<1>5. new[v] = e /\ \A k \in DOMAIN vs : k # v => new[k] = vs[k]
    BY <1>3
<1> QED BY <1>2, <1>4, <1>5 DEF OnlyItems

\* The handles of a value.
Holders(hd, v) == {h \in Handles : hd[h] = v}

LEMMA HoldersCount ==
    ASSUME NEW hd, NEW v
    PROVE  IsFiniteSet(Holders(hd, v)) /\ Cardinality(Holders(hd, v)) \in Nat
<1>1. Holders(hd, v) \in SUBSET Handles /\ IsFiniteSet(Handles)
    BY CompositesAssumption DEF CompositesAssumption, Holders
<1>2. IsFiniteSet(Holders(hd, v))
    BY <1>1, FS_Subset
<1> QED BY <1>2, FS_CardinalityType

\* One more holder of v, or one less, and the same holders of the others.
Joined(hd, new, v) ==
    /\ Cardinality(Holders(new, v)) = Cardinality(Holders(hd, v)) + 1
    /\ \A k \in Nat \ {0} : k # v => Holders(new, k) = Holders(hd, k)

Left(hd, new, v) ==
    /\ Cardinality(Holders(new, v)) = Cardinality(Holders(hd, v)) - 1
    /\ Cardinality(Holders(hd, v)) > 0
    /\ \A k \in Nat \ {0} : k # v => Holders(new, k) = Holders(hd, k)

\* A handle that was free gets a value.
LEMMA HoldersJoin ==
    ASSUME NEW hd \in [Handles -> Nat], NEW h \in Handles, NEW v \in Nat \ {0}, hd[h] = 0,
           NEW new, new = [hd EXCEPT ![h] = v]
    PROVE  Joined(hd, new, v)
<1>1. Holders(new, v) = Holders(hd, v) \cup {h} /\ h \notin Holders(hd, v)
    BY DEF Holders
<1>2. \A k \in Nat \ {0} : k # v => Holders(new, k) = Holders(hd, k)
    BY DEF Holders
<1> QED BY <1>1, <1>2, HoldersCount, FS_AddElement, ZenonT(60) DEF Joined

\* A handle is freed.
LEMMA HoldersLeave ==
    ASSUME NEW hd \in [Handles -> Nat], NEW h \in Handles, NEW v \in Nat \ {0}, hd[h] = v,
           NEW new, new = [hd EXCEPT ![h] = 0]
    PROVE  Left(hd, new, v)
<1>1. Holders(new, v) = Holders(hd, v) \ {h} /\ h \in Holders(hd, v)
    BY DEF Holders
<1>2. \A k \in Nat \ {0} : k # v => Holders(new, k) = Holders(hd, k)
    BY DEF Holders
<1>3. Cardinality(Holders(new, v)) = Cardinality(Holders(hd, v)) - 1
    BY <1>1, HoldersCount, FS_RemoveElement, ZenonT(60)
<1>4. Cardinality(Holders(hd, v)) # 0
    BY <1>1, HoldersCount, FS_EmptySet
<1>5. Cardinality(Holders(hd, v)) \in Nat
    BY HoldersCount
<1>6. Cardinality(Holders(hd, v)) > 0
    <2> DEFINE c == Cardinality(Holders(hd, v))
    <2>1. c \in Nat /\ c # 0
        BY <1>4, <1>5
    <2> HIDE DEF c
    <2>2. c > 0
        BY <2>1
    <2> QED BY <2>2 DEF c
<1> QED BY <1>2, <1>3, <1>6 DEF Left


-----------------------------------------------------------------------------
(* The inductive invariant *)

\* Every value holds what was last stored in it.
Kept == \A v \in DOMAIN values : Stored(T, values[v].items, written[v])

\* A value with a handle is one that amqpvalue_get_T accepts.
Good == \A h \in Handles : Held(h) => Accepted(T, values[handle[h]].items)

IInv == TypeOK /\ CountIsHolders /\ Kept /\ Good

\* The functions of the type agree.
LEMMA TypeAgrees ==
    ASSUME kind \in Types
    PROVE  Agrees(T)
BY TableAssumption DEF TableAssumption, T

LEMMA SameType ==
    ASSUME kind' = kind
    PROVE  T' = T /\ Fields' = Fields
BY DEF T, Fields

LEMMA Basics ==
    ASSUME IInv
    PROVE  /\ Agrees(T)
           /\ values \in Seq(Value) /\ Len(values) \in Nat /\ DOMAIN values = 1 .. Len(values)
           /\ handle \in [Handles -> Nat]
           /\ \A h \in Handles : Held(h) => handle[h] \in DOMAIN values
           /\ owned \in Seq(Nat) /\ DOMAIN owned = DOMAIN values
           /\ written \in Seq([Fields -> Items]) /\ DOMAIN written = DOMAIN values
           /\ \A v \in DOMAIN values :
                /\ owned[v] \in Nat /\ v \in Nat \ {0} /\ values[v].refs \in Nat
                /\ values[v].items \in Seq(Items)
                /\ values[v].refs = owned[v] + Cardinality(Holders(handle, v))
<1>1. TypeOK /\ CountIsHolders
    BY DEF IInv
<1>2. Agrees(T)
    BY <1>1, TypeAgrees DEF TypeOK
<1>3. values \in Seq(Value) /\ Len(values) \in Nat /\ DOMAIN values = 1 .. Len(values)
    BY <1>1 DEF TypeOK, Value
<1>4. handle \in [Handles -> 0 .. Len(values)]
    BY <1>1 DEF TypeOK
<1>5. handle \in [Handles -> Nat] /\ \A h \in Handles : Held(h) => handle[h] \in DOMAIN values
    <2>1. ASSUME NEW h \in Handles
          PROVE  handle[h] \in Nat /\ (handle[h] # 0 => handle[h] \in DOMAIN values)
        <3>1. handle[h] \in 0 .. Len(values)
            BY <1>4
        <3> QED BY <1>3, <3>1
    <2> QED BY <1>4, <2>1 DEF Held
<1>6. owned \in Seq(Nat) /\ DOMAIN owned = DOMAIN values
    BY <1>1, <1>3 DEF TypeOK
<1>7. written \in Seq([Fields -> Items]) /\ DOMAIN written = DOMAIN values
    BY <1>1, <1>3 DEF TypeOK
<1>8. ASSUME NEW v \in DOMAIN values
      PROVE  /\ owned[v] \in Nat /\ v \in Nat \ {0} /\ values[v].refs \in Nat
             /\ values[v].items \in Seq(Items)
             /\ values[v].refs = owned[v] + Cardinality(Holders(handle, v))
    <2>1. owned[v] \in Nat /\ v \in Nat \ {0}
        BY <1>3, <1>6
    <2>2. values[v] \in Value
        BY <1>3
    <2>3. values[v].refs = owned[v] + Cardinality(Holders(handle, v))
        BY <1>1 DEF CountIsHolders, Holders
    <2> QED BY <2>1, <2>2, <2>3 DEF Value
<1> QED BY <1>2, <1>3, <1>5, <1>6, <1>7, <1>8

\* A reference is taken or given up, and counted.
LEMMA CountStep ==
    ASSUME IInv, NEW v \in DOMAIN values, NEW r \in Nat,
           values' = [values EXCEPT ![v].refs = r], UNCHANGED <<kind, sets, written>>,
           handle' \in [Handles -> 0 .. Len(values)],
           owned' \in Seq(Nat), Len(owned') = Len(values),
           r = owned'[v] + Cardinality(Holders(handle', v)),
           \A k \in DOMAIN values : k # v =>
                owned'[k] = owned[k] /\ Holders(handle', k) = Holders(handle, k),
           \A h \in Handles : handle'[h] # 0 =>
                handle'[h] \in DOMAIN values /\ Accepted(T, values[handle'[h]].items)
    PROVE  IInv'
<1>1. /\ values' \in Seq(Value) /\ Len(values') = Len(values) /\ DOMAIN values' = DOMAIN values
      /\ values'[v].refs = r
      /\ \A k \in DOMAIN values : values'[k].items = values[k].items
      /\ \A k \in DOMAIN values : k # v => values'[k].refs = values[k].refs
    <2>1. OnlyRefs(values, values', v, r)
        BY Basics, RefsSet
    <2> QED BY <2>1 DEF OnlyRefs
<1>2. T' = T /\ Fields' = Fields
    BY SameType
<1>3. TypeOK'
    <2>1. kind \in Types /\ sets \in 0 .. MaxSets /\ written \in Seq([Fields -> Items])
          /\ Len(written) = Len(values)
        BY DEF IInv, TypeOK
    <2>2. values' \in Seq([items : Seq(Items), refs : Nat])
        BY <1>1 DEF Value
    <2>3. handle' \in [Handles -> 0 .. Len(values')]
        BY <1>1
    <2>4. Len(owned') = Len(values') /\ Len(written') = Len(values')
        BY <1>1, <2>1
    <2>5. written' \in Seq([Fields' -> Items])
        BY <1>2, <2>1
    <2> QED BY <2>1, <2>2, <2>3, <2>4, <2>5 DEF TypeOK
<1>4. CountIsHolders'
    <2>1. ASSUME NEW k \in DOMAIN values
          PROVE  values'[k].refs = owned'[k] + Cardinality(Holders(handle', k))
        <3>1. CASE k = v
            BY <1>1, <3>1
        <3>2. CASE k # v
            <4>1. values[k].refs = owned[k] + Cardinality(Holders(handle, k))
                BY Basics
            <4>2. owned'[k] = owned[k] /\ Holders(handle', k) = Holders(handle, k)
                  /\ values'[k].refs = values[k].refs
                BY <1>1, <3>2
            <4> QED BY <4>1, <4>2
        <3> QED BY <3>1, <3>2
    <2> QED BY <1>1, <2>1 DEF CountIsHolders, Holders
<1>5. Kept'
    <2>1. ASSUME NEW k \in DOMAIN values PROVE Stored(T, values'[k].items, written'[k])
        BY <1>1 DEF IInv, Kept
    <2> QED BY <1>1, <1>2, <2>1 DEF Kept
<1>6. Good'
    <2>1. ASSUME NEW h \in Handles, handle'[h] # 0
          PROVE  Accepted(T, values'[handle'[h]].items)
        BY <1>1, <2>1
    <2> QED BY <1>2, <2>1 DEF Good, Held
<1> QED BY <1>3, <1>4, <1>5, <1>6 DEF IInv


\* An item that suits its field is written through a handle.
LEMMA ItemStep ==
    ASSUME IInv, NEW h \in Handles, Held(h), NEW n \in Fields, NEW item \in Items,
           Suits(item.type, T.checks[n]),
           NEW stored \in [Fields -> Items], Alikes(item, stored[n]),
           \A k \in Fields : k # n => stored[k] = written[handle[h]][k],
           NEW items, NEW at, at = n - 1,
           items = amqpvalue_set_composite_item(values[handle[h]].items, at, item),
           values' = [values EXCEPT ![handle[h]].items = items],
           written' = [written EXCEPT ![handle[h]] = stored],
           sets' \in 0 .. MaxSets, UNCHANGED <<kind, handle, owned>>
    PROVE  IInv'
<1> DEFINE v == handle[h]
<1>1. v \in DOMAIN values /\ values[v].items \in Seq(Items) /\ Agrees(T)
    BY Basics
<1>2. items \in Seq(Items) /\ Stored(T, items, stored) /\ Accepted(T, items)
    <2> DEFINE old == values[v].items
               contents == written[v]
    <2>1. Stored(T, old, contents) /\ Accepted(T, old)
        BY <1>1 DEF IInv, Kept, Good
    <2>2. items = amqpvalue_set_composite_item(old, at, item) /\ old \in Seq(Items)
          /\ SameBut(T, n, stored, contents)
        BY <1>1 DEF Fields, SameBut
    <2>3. n \in DOMAIN T.fields
        BY DEF Fields
    <2> HIDE DEF old, contents
    <2> QED BY <1>1, <2>1, <2>2, <2>3, SetKeeps
<1>3. /\ values' \in Seq(Value) /\ Len(values') = Len(values) /\ DOMAIN values' = DOMAIN values
      /\ values'[v].items = items
      /\ \A k \in DOMAIN values : values'[k].refs = values[k].refs
      /\ \A k \in DOMAIN values : k # v => values'[k].items = values[k].items
    <2>1. OnlyItems(values, values', v, items)
        BY <1>1, <1>2, Basics, ItemsSet
    <2> QED BY <2>1 DEF OnlyItems
<1>4. T' = T /\ Fields' = Fields
    BY SameType
<1>5. /\ written' \in Seq([Fields -> Items]) /\ Len(written') = Len(written)
      /\ written'[v] = stored
      /\ \A k \in DOMAIN values : k # v => written'[k] = written[k]
    <2>1. written \in Seq([Fields -> Items]) /\ DOMAIN written = DOMAIN values
        BY Basics
    <2> DEFINE W == [Fields -> Items]
    <2>2. written \in Seq(W) /\ stored \in W /\ v \in DOMAIN written
        BY <1>1, <2>1
    <2> HIDE DEF W, v
    <2>3. written' = [written EXCEPT ![v] = stored]
        BY DEF v
    <2>4. OnlyAt(W, written, written', v, stored)
        BY <2>2, <2>3, EntrySet
    <2> QED BY <2>1, <2>4 DEF OnlyAt, W
<1> HIDE DEF v
<1>6. TypeOK'
    <2>1. kind \in Types /\ handle \in [Handles -> 0 .. Len(values)] /\ owned \in Seq(Nat)
          /\ Len(owned) = Len(values) /\ Len(written) = Len(values)
        BY DEF IInv, TypeOK
    <2>2. values' \in Seq([items : Seq(Items), refs : Nat])
        BY <1>3 DEF Value
    <2>3. handle' \in [Handles -> 0 .. Len(values')]
        BY <1>3, <2>1
    <2>4. Len(owned') = Len(values') /\ Len(written') = Len(values')
        BY <1>3, <1>5, <2>1
    <2>5. written' \in Seq([Fields' -> Items])
        BY <1>4, <1>5
    <2> QED BY <2>1, <2>2, <2>3, <2>4, <2>5 DEF TypeOK
<1>7. CountIsHolders'
    <2>1. ASSUME NEW k \in DOMAIN values
          PROVE  values'[k].refs = owned'[k] + Cardinality(Holders(handle', k))
        <3>1. values[k].refs = owned[k] + Cardinality(Holders(handle, k))
            BY Basics
        <3> QED BY <1>3, <3>1
    <2> QED BY <1>3, <2>1 DEF CountIsHolders, Holders
<1>8. Kept'
    <2>1. ASSUME NEW k \in DOMAIN values PROVE Stored(T, values'[k].items, written'[k])
        <3>1. CASE k = v
            BY <1>2, <1>3, <1>5, <3>1
        <3>2. CASE k # v
            BY <1>3, <1>5, <3>2 DEF IInv, Kept
        <3> QED BY <3>1, <3>2
    <2> QED BY <1>3, <1>4, <2>1 DEF Kept
<1>9. Good'
    <2>1. ASSUME NEW g \in Handles, handle[g] # 0 PROVE Accepted(T, values'[handle[g]].items)
        <3>1. handle[g] \in DOMAIN values /\ Accepted(T, values[handle[g]].items)
            BY <2>1, Basics DEF IInv, Good, Held
        <3>2. CASE handle[g] = v
            BY <1>2, <1>3, <3>2
        <3>3. CASE handle[g] # v
            BY <1>3, <3>1, <3>3
        <3> QED BY <3>2, <3>3
    <2> QED BY <1>4, <2>1 DEF Good, Held
<1> QED BY <1>6, <1>7, <1>8, <1>9 DEF IInv

\* A value is created or received.
LEMMA AppendStep ==
    ASSUME IInv, NEW items \in Seq(Items), NEW contents \in [Fields -> Items],
           Stored(T, items, contents), NEW own \in Nat,
           values' = Append(values, [items |-> items, refs |-> 1]),
           owned' = Append(owned, own), written' = Append(written, contents),
           UNCHANGED <<kind, sets>>,
           handle' \in [Handles -> 0 .. Len(values) + 1],
           own + Cardinality(Holders(handle', Len(values) + 1)) = 1,
           \A k \in DOMAIN values : Holders(handle', k) = Holders(handle, k),
           \A h \in Handles : handle'[h] # 0 =>
                \/ handle'[h] \in DOMAIN values /\ Accepted(T, values[handle'[h]].items)
                \/ handle'[h] = Len(values) + 1 /\ Accepted(T, items)
    PROVE  IInv'
<1> DEFINE v == Len(values) + 1
           e == [items |-> items, refs |-> 1]
<1>1. e \in Value /\ e.items = items /\ e.refs = 1
    BY DEF Value
<1>2. Len(values) \in Nat /\ values \in Seq(Value) /\ DOMAIN values = 1 .. Len(values)
    BY Basics
<1> HIDE DEF e
<1>3. /\ values' \in Seq(Value) /\ Len(values') = v /\ values'[v] = e
      /\ \A k \in DOMAIN values : values'[k] = values[k]
      /\ \A k \in DOMAIN values' : k \in DOMAIN values \/ k = v
    <2>1. values' = Append(values, e)
        BY DEF e
    <2> QED BY <1>1, <1>2, <2>1
<1>4. T' = T /\ Fields' = Fields
    BY SameType
<1>5. /\ written' \in Seq([Fields -> Items]) /\ Len(written') = v /\ written'[v] = contents
      /\ \A k \in DOMAIN values : written'[k] = written[k]
    <2> DEFINE W == [Fields -> Items]
    <2>1. written \in Seq(W) /\ Len(written) = Len(values) /\ contents \in W
        BY DEF IInv, TypeOK
    <2> HIDE DEF W
    <2>2. written' \in Seq(W) /\ Len(written') = v /\ written'[v] = contents
          /\ \A k \in DOMAIN values : written'[k] = written[k]
        BY <1>2, <2>1
    <2> QED BY <2>2 DEF W
<1>6. /\ owned' \in Seq(Nat) /\ Len(owned') = v /\ owned'[v] = own
      /\ \A k \in DOMAIN values : owned'[k] = owned[k]
    <2>1. owned \in Seq(Nat) /\ Len(owned) = Len(values)
        BY DEF IInv, TypeOK
    <2> QED BY <1>2, <2>1
<1>7. v # 0 /\ v \notin DOMAIN values
    BY <1>2
<1>8. TypeOK'
    <2>1. kind \in Types /\ sets \in 0 .. MaxSets
        BY DEF IInv, TypeOK
    <2>2. values' \in Seq([items : Seq(Items), refs : Nat])
        BY <1>3 DEF Value
    <2>3. handle' \in [Handles -> 0 .. Len(values')]
        BY <1>3
    <2>4. Len(owned') = Len(values') /\ Len(written') = Len(values')
        BY <1>3, <1>5, <1>6
    <2>5. written' \in Seq([Fields' -> Items])
        BY <1>4, <1>5
    <2> QED BY <1>6, <2>1, <2>2, <2>3, <2>4, <2>5 DEF TypeOK
<1> HIDE DEF v
<1>9. CountIsHolders'
    <2>1. ASSUME NEW k \in DOMAIN values
          PROVE  values'[k].refs = owned'[k] + Cardinality(Holders(handle', k))
        <3>1. values[k].refs = owned[k] + Cardinality(Holders(handle, k))
            BY Basics
        <3> QED BY <1>3, <1>6, <3>1
    <2>2. values'[v].refs = owned'[v] + Cardinality(Holders(handle', v))
        <3>1. own + Cardinality(Holders(handle', v)) = 1
            BY DEF v
        <3> QED BY <1>1, <1>3, <1>6, <3>1
    <2> QED BY <1>3, <2>1, <2>2 DEF CountIsHolders, Holders
<1>10. Kept'
    <2>1. ASSUME NEW k \in DOMAIN values PROVE Stored(T, values'[k].items, written'[k])
        BY <1>3, <1>5 DEF IInv, Kept
    <2>2. Stored(T, values'[v].items, written'[v])
        BY <1>1, <1>3, <1>5
    <2> QED BY <1>3, <1>4, <2>1, <2>2 DEF Kept
<1>11. Good'
    <2>1. ASSUME NEW h \in Handles, handle'[h] # 0 PROVE Accepted(T, values'[handle'[h]].items)
        <3>1. CASE handle'[h] \in DOMAIN values /\ Accepted(T, values[handle'[h]].items)
            BY <1>3, <3>1
        <3>2. CASE handle'[h] = v /\ Accepted(T, items)
            BY <1>1, <1>3, <3>2
        <3> QED BY <2>1, <3>1, <3>2 DEF v
    <2> QED BY <1>4, <2>1 DEF Good, Held
<1> QED BY <1>8, <1>9, <1>10, <1>11 DEF IInv


-----------------------------------------------------------------------------
(* The actions *)

\* A value that is new has no handle.
LEMMA NoHolders ==
    ASSUME IInv
    PROVE  Cardinality(Holders(handle, Len(values) + 1)) = 0
<1>1. Len(values) \in Nat /\ handle \in [Handles -> 0 .. Len(values)]
    BY Basics DEF IInv, TypeOK
<1>2. \A h \in Handles : handle[h] # Len(values) + 1
    BY <1>1
<1>3. Holders(handle, Len(values) + 1) = {}
    BY <1>2 DEF Holders
<1> QED BY <1>3, FS_EmptySet

LEMMA CreateStep ==
    ASSUME IInv, NEW h \in Handles, T_create(h)
    PROVE  IInv'
<1> DEFINE items == [i \in 1 .. Max({0} \cup {arg.at + 1 : arg \in arguments}) |->
                       only({arg \in arguments : arg.at = i - 1})]
           contents == [f \in Fields |->
                          only({arg \in arguments : arg.name = T.fields[f].name})]
<1>1. /\ handle[h] = 0
      /\ values' = Append(values, [items |-> items, refs |-> 1])
      /\ handle' = [handle EXCEPT ![h] = Len(values) + 1]
      /\ owned' = Append(owned, 0) /\ written' = Append(written, contents)
      /\ kind' = kind /\ sets' = sets
    BY DEF T_create, Free
<1>2. /\ items \in Seq(Items) /\ contents \in [Fields -> Items]
      /\ Stored(T, items, contents) /\ Accepted(T, items)
    BY Basics, Created
<1> HIDE DEF items, contents
<1>3. /\ Len(values) \in Nat /\ DOMAIN values = 1 .. Len(values)
      /\ handle \in [Handles -> Nat] /\ handle \in [Handles -> 0 .. Len(values)]
    BY Basics DEF IInv, TypeOK
<1> DEFINE v == Len(values) + 1
<1>4. v \in Nat \ {0} /\ \A k \in DOMAIN values : k \in Nat \ {0} /\ k # v
    BY <1>3
<1>5. handle' \in [Handles -> 0 .. Len(values) + 1]
    BY <1>1, <1>3
<1>6. Cardinality(Holders(handle, v)) = 0
    BY NoHolders
<1> HIDE DEF v
<1>7. /\ Cardinality(Holders(handle', v)) = Cardinality(Holders(handle, v)) + 1
      /\ \A k \in Nat \ {0} : k # v => Holders(handle', k) = Holders(handle, k)
    <2>1. handle' = [handle EXCEPT ![h] = v]
        BY <1>1 DEF v
    <2>2. Joined(handle, handle', v)
        BY <1>1, <1>3, <1>4, <2>1, HoldersJoin
    <2> QED BY <2>2 DEF Joined
<1>8. 0 + Cardinality(Holders(handle', v)) = 1
    BY <1>6, <1>7
<1>9. ASSUME NEW g \in Handles, handle'[g] # 0
      PROVE  \/ handle'[g] \in DOMAIN values /\ Accepted(T, values[handle'[g]].items)
             \/ handle'[g] = v /\ Accepted(T, items)
    <2>1. CASE g = h
        BY <1>1, <1>2, <1>3, <2>1 DEF v
    <2>2. CASE g # h
        <3>1. handle'[g] = handle[g]
            BY <1>1, <1>3, <2>2
        <3> QED BY <1>9, <3>1, Basics DEF IInv, Good, Held
    <2> QED BY <2>1, <2>2
<1>10. \A k \in DOMAIN values : Holders(handle', k) = Holders(handle, k)
    BY <1>4, <1>7
<1>11. 0 + Cardinality(Holders(handle', Len(values) + 1)) = 1
    BY <1>8 DEF v
<1>12. \A g \in Handles : handle'[g] # 0 =>
         \/ handle'[g] \in DOMAIN values /\ Accepted(T, values[handle'[g]].items)
         \/ handle'[g] = Len(values) + 1 /\ Accepted(T, items)
    BY <1>9 DEF v
<1>13. 0 \in Nat
    OBVIOUS
<1> QED BY <1>1, <1>2, <1>5, <1>10, <1>11, <1>12, <1>13, AppendStep

LEMMA ReceivedStep ==
    ASSUME IInv, value_received
    PROVE  IInv'
<1>1. PICK items \in Lists :
        /\ values' = Append(values, [items |-> items, refs |-> 1])
        /\ written' = Append(written,
                [f \in Fields |-> IF f <= Len(items) THEN items[f] ELSE NullItem])
    BY DEF value_received
<1>2. owned' = Append(owned, 1) /\ kind' = kind /\ handle' = handle /\ sets' = sets
    BY DEF value_received
<1> DEFINE contents == [f \in Fields |-> IF f <= Len(items) THEN items[f] ELSE NullItem]
<1>3. Agrees(T) /\ items \in Seq(Items)
    BY Basics, ListsType
<1>4. \A n \in Fields : n \in Nat \ {0}
    BY <1>3, FieldFacts DEF Fields
<1>5. contents \in [Fields -> Items] /\ \A n \in Fields : contents[n] = ItemAt(items, n)
    <2>1. \A n \in Fields : ItemAt(items, n) \in Items
        BY <1>3, <1>4, ItemAtType
    <2> QED BY <2>1 DEF ItemAt
<1>6. written' = Append(written, contents)
    BY <1>1
<1> HIDE DEF contents
<1>7. Stored(T, items, contents)
    BY <1>5 DEF Stored, Fields, Alikes
<1>8. /\ Len(values) \in Nat /\ handle \in [Handles -> 0 .. Len(values)]
    BY Basics DEF IInv, TypeOK
<1>9. handle' \in [Handles -> 0 .. Len(values) + 1]
    BY <1>2, <1>8
<1>10. 1 + Cardinality(Holders(handle', Len(values) + 1)) = 1
    BY <1>2, NoHolders
<1>11. \A h \in Handles : handle'[h] # 0 =>
         handle'[h] \in DOMAIN values /\ Accepted(T, values[handle'[h]].items)
    BY <1>2, Basics DEF IInv, Good, Held
<1> QED BY <1>1, <1>2, <1>3, <1>5, <1>6, <1>7, <1>9, <1>10, <1>11, AppendStep


LEMMA CloneStep ==
    ASSUME IInv, NEW h \in Handles, NEW copy \in Handles, T_clone(h, copy)
    PROVE  IInv'
<1> DEFINE v == handle[h]
           r == values[v].refs + 1
<1>1. /\ handle[h] # 0 /\ handle[copy] = 0 /\ handle' = [handle EXCEPT ![copy] = v]
      /\ values' = [values EXCEPT ![v].refs = r]
      /\ owned' = owned /\ kind' = kind /\ sets' = sets /\ written' = written
    BY DEF T_clone, Held, Free, referenced
<1>2. Held(h) /\ v \in DOMAIN values
    BY <1>1, Basics DEF Held
<1> HIDE DEF v
<1>3. /\ v \in Nat \ {0} /\ owned[v] \in Nat /\ values[v].refs \in Nat
      /\ values[v].refs = owned[v] + Cardinality(Holders(handle, v))
      /\ handle \in [Handles -> Nat] /\ \A k \in DOMAIN values : k \in Nat \ {0}
    BY <1>2, Basics
<1>4. Joined(handle, handle', v)
    BY <1>1, <1>3, HoldersJoin
<1>5. r \in Nat /\ r = owned'[v] + Cardinality(Holders(handle', v))
    <2>1. Cardinality(Holders(handle, v)) \in Nat
        BY HoldersCount
    <2> QED BY <1>1, <1>3, <1>4, <2>1 DEF Joined
<1> HIDE DEF r
<1>6. handle' \in [Handles -> 0 .. Len(values)]
    <2>1. handle \in [Handles -> 0 .. Len(values)] /\ v \in 0 .. Len(values)
        BY DEF IInv, TypeOK, v
    <2> QED BY <1>1, <2>1
<1>7. \A k \in DOMAIN values : k # v =>
        owned'[k] = owned[k] /\ Holders(handle', k) = Holders(handle, k)
    BY <1>1, <1>3, <1>4 DEF Joined
<1>8. \A g \in Handles : handle'[g] # 0 =>
        handle'[g] \in DOMAIN values /\ Accepted(T, values[handle'[g]].items)
    <2>1. Accepted(T, values[v].items)
        BY <1>2 DEF IInv, Good, v
    <2>2. ASSUME NEW g \in Handles, handle'[g] # 0
          PROVE  handle'[g] \in DOMAIN values /\ Accepted(T, values[handle'[g]].items)
        <3>1. CASE g = copy
            BY <1>1, <1>2, <1>3, <2>1, <3>1
        <3>2. CASE g # copy
            <4>1. handle'[g] = handle[g]
                BY <1>1, <1>3, <3>2
            <4> QED BY <2>2, <4>1, Basics DEF IInv, Good, Held
        <3> QED BY <3>1, <3>2
    <2> QED BY <2>2
<1>9. owned' \in Seq(Nat) /\ Len(owned') = Len(values)
    BY <1>1 DEF IInv, TypeOK
<1> QED BY <1>1, <1>2, <1>5, <1>6, <1>7, <1>8, <1>9, CountStep

LEMMA DestroyStep ==
    ASSUME IInv, NEW h \in Handles, T_destroy(h)
    PROVE  IInv'
<1> DEFINE v == handle[h]
           r == values[v].refs - 1
<1>1. /\ handle[h] # 0 /\ handle' = [handle EXCEPT ![h] = 0]
      /\ values' = [values EXCEPT ![v].refs = r]
      /\ owned' = owned /\ kind' = kind /\ sets' = sets /\ written' = written
    BY DEF T_destroy, Held, released
<1>2. Held(h) /\ v \in DOMAIN values /\ handle[h] = v
    BY <1>1, Basics DEF Held
<1> HIDE DEF v
<1>3. /\ v \in Nat \ {0} /\ owned[v] \in Nat /\ values[v].refs \in Nat
      /\ values[v].refs = owned[v] + Cardinality(Holders(handle, v))
      /\ handle \in [Handles -> Nat] /\ \A k \in DOMAIN values : k \in Nat \ {0}
    BY <1>2, Basics
<1>4. Left(handle, handle', v)
    BY <1>1, <1>2, <1>3, HoldersLeave
<1>5. r \in Nat /\ r = owned'[v] + Cardinality(Holders(handle', v))
    <2>1. Cardinality(Holders(handle, v)) \in Nat
        BY HoldersCount
    <2> QED BY <1>1, <1>3, <1>4, <2>1 DEF Left
<1> HIDE DEF r
<1>6. handle' \in [Handles -> 0 .. Len(values)]
    <2>1. handle \in [Handles -> 0 .. Len(values)] /\ Len(values) \in Nat
        BY Basics DEF IInv, TypeOK
    <2> QED BY <1>1, <2>1
<1>7. \A k \in DOMAIN values : k # v =>
        owned'[k] = owned[k] /\ Holders(handle', k) = Holders(handle, k)
    BY <1>1, <1>3, <1>4 DEF Left
<1>8. \A g \in Handles : handle'[g] # 0 =>
        handle'[g] \in DOMAIN values /\ Accepted(T, values[handle'[g]].items)
    <2>1. ASSUME NEW g \in Handles, handle'[g] # 0
          PROVE  handle'[g] \in DOMAIN values /\ Accepted(T, values[handle'[g]].items)
        <3>1. handle'[g] = handle[g]
            BY <1>1, <1>3, <2>1
        <3> QED BY <2>1, <3>1, Basics DEF IInv, Good, Held
    <2> QED BY <2>1
<1>9. owned' \in Seq(Nat) /\ Len(owned') = Len(values)
    BY <1>1 DEF IInv, TypeOK
<1> QED BY <1>1, <1>2, <1>5, <1>6, <1>7, <1>8, <1>9, CountStep

LEMMA GetStep ==
    ASSUME IInv, NEW v \in DOMAIN values, NEW h \in Handles, amqpvalue_get_T(v, h)
    PROVE  IInv'
<1> DEFINE r == values[v].refs + 1
<1>1. /\ handle[h] = 0 /\ handle' = [handle EXCEPT ![h] = v]
      /\ accepted_as_T(values[v].items)
      /\ values' = [values EXCEPT ![v].refs = r]
      /\ owned' = owned /\ kind' = kind /\ sets' = sets /\ written' = written
    BY DEF amqpvalue_get_T, Free, referenced
<1>2. /\ v \in Nat \ {0} /\ owned[v] \in Nat /\ values[v].refs \in Nat
      /\ values[v].items \in Seq(Items)
      /\ values[v].refs = owned[v] + Cardinality(Holders(handle, v))
      /\ handle \in [Handles -> Nat] /\ \A k \in DOMAIN values : k \in Nat \ {0}
    BY Basics
<1>3. Joined(handle, handle', v)
    BY <1>1, <1>2, HoldersJoin
<1>4. r \in Nat /\ r = owned'[v] + Cardinality(Holders(handle', v))
    <2>1. Cardinality(Holders(handle, v)) \in Nat
        BY HoldersCount
    <2> QED BY <1>1, <1>2, <1>3, <2>1 DEF Joined
<1> HIDE DEF r
<1>5. handle' \in [Handles -> 0 .. Len(values)]
    <2>1. handle \in [Handles -> 0 .. Len(values)] /\ v \in 0 .. Len(values)
        BY Basics DEF IInv, TypeOK
    <2> QED BY <1>1, <2>1
<1>6. \A k \in DOMAIN values : k # v =>
        owned'[k] = owned[k] /\ Holders(handle', k) = Holders(handle, k)
    BY <1>1, <1>2, <1>3 DEF Joined
<1>7. \A g \in Handles : handle'[g] # 0 =>
        handle'[g] \in DOMAIN values /\ Accepted(T, values[handle'[g]].items)
    <2>1. Accepted(T, values[v].items)
        <3>1. T.checks \in Seq(CheckType)
            BY Basics DEF Agrees
        <3> QED BY <1>1, <1>2, <3>1, AcceptedIs
    <2>2. ASSUME NEW g \in Handles, handle'[g] # 0
          PROVE  handle'[g] \in DOMAIN values /\ Accepted(T, values[handle'[g]].items)
        <3>1. CASE g = h
            BY <1>1, <1>2, <2>1, <3>1
        <3>2. CASE g # h
            <4>1. handle'[g] = handle[g]
                BY <1>1, <1>2, <3>2
            <4> QED BY <2>2, <4>1, Basics DEF IInv, Good, Held
        <3> QED BY <3>1, <3>2
    <2> QED BY <2>2
<1>8. owned' \in Seq(Nat) /\ Len(owned') = Len(values)
    BY <1>1 DEF IInv, TypeOK
<1> QED BY <1>1, <1>4, <1>5, <1>6, <1>7, <1>8, CountStep


\* The program takes a reference or gives one up.
LEMMA OwnedStep ==
    ASSUME IInv, NEW v \in DOMAIN values, NEW o \in Nat, NEW r \in Nat,
           r = o + Cardinality(Holders(handle, v)),
           values' = [values EXCEPT ![v].refs = r], owned' = [owned EXCEPT ![v] = o],
           UNCHANGED <<kind, handle, sets, written>>
    PROVE  IInv'
<1>1. owned \in Seq(Nat) /\ v \in DOMAIN owned /\ DOMAIN owned = DOMAIN values
    BY Basics
<1>2. OnlyAt(Nat, owned, owned', v, o)
    BY <1>1, EntrySet
<1>3. /\ owned' \in Seq(Nat) /\ Len(owned') = Len(values) /\ owned'[v] = o
      /\ \A k \in DOMAIN values : k # v => owned'[k] = owned[k]
    BY <1>1, <1>2 DEF OnlyAt, IInv, TypeOK
<1>4. handle' \in [Handles -> 0 .. Len(values)]
    BY DEF IInv, TypeOK
<1>5. \A k \in DOMAIN values : k # v =>
        owned'[k] = owned[k] /\ Holders(handle', k) = Holders(handle, k)
    BY <1>3
<1>6. \A g \in Handles : handle'[g] # 0 =>
        handle'[g] \in DOMAIN values /\ Accepted(T, values[handle'[g]].items)
    BY Basics DEF IInv, Good, Held
<1>7. r = owned'[v] + Cardinality(Holders(handle', v))
    BY <1>3
<1> QED BY <1>3, <1>4, <1>5, <1>6, <1>7, CountStep

LEMMA CreateValueStep ==
    ASSUME IInv, NEW h \in Handles, amqpvalue_create_T(h)
    PROVE  IInv'
<1> DEFINE v == handle[h]
           o == owned[v] + 1
           r == values[v].refs + 1
<1>1. /\ handle[h] # 0 /\ values' = [values EXCEPT ![v].refs = r]
      /\ owned' = [owned EXCEPT ![v] = o]
      /\ kind' = kind /\ handle' = handle /\ sets' = sets /\ written' = written
    BY DEF amqpvalue_create_T, Held, referenced
<1>2. v \in DOMAIN values
    BY <1>1, Basics DEF Held
<1> HIDE DEF v
<1>3. /\ owned[v] \in Nat /\ values[v].refs \in Nat
      /\ values[v].refs = owned[v] + Cardinality(Holders(handle, v))
      /\ Cardinality(Holders(handle, v)) \in Nat
    BY <1>2, Basics, HoldersCount
<1>4. o \in Nat /\ r \in Nat /\ r = o + Cardinality(Holders(handle, v))
    BY <1>3
<1> HIDE DEF o, r
<1> QED BY <1>1, <1>2, <1>4, OwnedStep

LEMMA DestroyValueStep ==
    ASSUME IInv, NEW v \in DOMAIN values, amqpvalue_destroy(v)
    PROVE  IInv'
<1> DEFINE o == owned[v] - 1
           r == values[v].refs - 1
<1>1. /\ owned[v] > 0 /\ values' = [values EXCEPT ![v].refs = r]
      /\ owned' = [owned EXCEPT ![v] = o]
      /\ kind' = kind /\ handle' = handle /\ sets' = sets /\ written' = written
    BY DEF amqpvalue_destroy, released
<1>2. /\ owned[v] \in Nat /\ values[v].refs \in Nat
      /\ values[v].refs = owned[v] + Cardinality(Holders(handle, v))
      /\ Cardinality(Holders(handle, v)) \in Nat
    BY Basics, HoldersCount
<1>3. o \in Nat /\ r \in Nat /\ r = o + Cardinality(Holders(handle, v))
    BY <1>1, <1>2
<1> HIDE DEF o, r
<1> QED BY <1>1, <1>3, OwnedStep

LEMMA SetStep ==
    ASSUME IInv, NEW h \in Handles, NEW n \in Fields, T_set(h, n)
    PROVE  IInv'
<1> DEFINE f == T.fields[n]
           of == IF f.set.type = "any" THEN f.get.type ELSE f.set.type
           tag == sets + 2
           item == Argument(of, f.get.many, tag)
           v == handle[h]
           at == f.set.at
           items == amqpvalue_set_composite_item(values[v].items, at, item)
           stored == [written[v] EXCEPT ![n] = item]
<1>1. /\ Held(h) /\ sets < MaxSets /\ sets' = sets + 1
      /\ values' = [values EXCEPT ![v].items = items]
      /\ written' = [written EXCEPT ![v] = stored]
      /\ kind' = kind /\ handle' = handle /\ owned' = owned
    BY DEF T_set
<1>2. Agrees(T) /\ v \in DOMAIN values /\ written[v] \in [Fields -> Items]
    <2>1. Agrees(T) /\ v \in DOMAIN values /\ written \in Seq([Fields -> Items])
          /\ DOMAIN written = DOMAIN values
        BY <1>1, Basics
    <2> QED BY <2>1
<1>3. FieldAgrees(f, T.checks[n], n) /\ f \in FieldType
      /\ f.get.type \in TypeNames /\ f.set.type \in TypeNames
    BY <1>2, FieldFacts DEF Fields
<1>4. of \in TypeNames /\ f.get.many \in BOOLEAN
    BY <1>3 DEF FieldType
<1>5. at = n - 1 /\ Suits(Argument(of, f.get.many, 0).type, T.checks[n])
    BY <1>3 DEF FieldAgrees
<1>6. sets \in 0 .. MaxSets /\ MaxSets \in Nat
    BY CompositesAssumption DEF CompositesAssumption, IInv, TypeOK
<1>7. tag \in Tags /\ sets' \in 0 .. MaxSets
    BY <1>1, <1>6 DEF Tags
<1> HIDE DEF of, tag
<1>8. item \in Items /\ item.type = Argument(of, f.get.many, 0).type
    BY <1>4, <1>7, ArgumentIs
<1>9. Suits(item.type, T.checks[n])
    BY <1>5, <1>8
<1> HIDE DEF item
<1>10. /\ stored \in [Fields -> Items] /\ stored[n] = item
       /\ \A k \in Fields : k # n => stored[k] = written[v][k]
    BY <1>2, <1>8
<1> HIDE DEF stored, items
<1>11. Alikes(item, stored[n])
    BY <1>10 DEF Alikes
<1>12. items = amqpvalue_set_composite_item(values[v].items, at, item)
    BY DEF items
<1> HIDE DEF at, f
<1> QED BY <1>1, <1>5, <1>7, <1>8, <1>9, <1>10, <1>11, <1>12, ItemStep

LEMMA MakesArrayStep ==
    ASSUME IInv, NEW h \in Handles, NEW n \in Fields, T_get_makes_array(h, T.fields[n])
    PROVE  IInv'
<1> DEFINE f == T.fields[n]
           v == handle[h]
           old == values[v].items
           single == old[f.get.at + 1]
           item == Item("array", single.tag)
           at == f.get.back
           items == amqpvalue_set_composite_item(old, at, item)
           stored == written[v]
<1>1. /\ Held(h) /\ f.get.many /\ Len(old) > f.get.at
      /\ is_of(single, f.get.type)
      /\ values' = [values EXCEPT ![v].items = items]
      /\ kind' = kind /\ handle' = handle /\ owned' = owned /\ sets' = sets /\ written' = written
    BY DEF T_get_makes_array
<1>2. Agrees(T) /\ v \in DOMAIN values /\ stored \in [Fields -> Items] /\ old \in Seq(Items)
      /\ written \in Seq([Fields -> Items]) /\ DOMAIN written = DOMAIN values
    <2>1. Agrees(T) /\ v \in DOMAIN values /\ written \in Seq([Fields -> Items])
          /\ DOMAIN written = DOMAIN values /\ values[v].items \in Seq(Items)
        BY <1>1, Basics
    <2> QED BY <2>1
<1>3. FieldAgrees(f, T.checks[n], n) /\ n \in Nat \ {0} /\ T.checks[n] \in CheckType
    BY <1>2, FieldFacts DEF Fields
<1>4. /\ f.get.at = n - 1 /\ at = n - 1 /\ f.get.many = T.checks[n].many
      /\ f.get.type # "any" /\ primitive(f.get.type) # "null"
    BY <1>1, <1>3 DEF FieldAgrees
<1>5. single.type # "null"
    BY <1>1, <1>4 DEF is_of
<1>6. f.get.at + 1 = n /\ n <= Len(old)
    BY <1>1, <1>2, <1>3, <1>4
<1>7. single = ItemAt(old, n)
    BY <1>6 DEF ItemAt
<1>8. single \in Items
    BY <1>2, <1>3, <1>7, ItemAtType
<1>9. Alikes(single, stored[n])
    BY <1>2, <1>7 DEF IInv, Kept, Stored, Fields
<1> HIDE DEF single
<1>10. item \in Items /\ item.type = "array" /\ item.tag = single.tag
    BY <1>8 DEF Item, Items, PrimitiveTypes
<1> HIDE DEF item
<1>11. Alikes(item, stored[n])
    <2>1. item.type # "null"
        BY <1>10
    <2> QED BY <1>5, <1>9, <1>10, <2>1 DEF Alikes
<1>12. Suits(item.type, T.checks[n])
    <2>1. T.checks[n].many
        BY <1>1, <1>4
    <2> QED BY <1>10, <2>1 DEF Suits
<1>13. sets' \in 0 .. MaxSets
    BY <1>1 DEF IInv, TypeOK
<1>14. written' = [written EXCEPT ![v] = stored]
    BY <1>1, <1>2
<1>15. \A k \in Fields : k # n => stored[k] = written[v][k]
    OBVIOUS
<1>16. items = amqpvalue_set_composite_item(values[v].items, at, item)
    OBVIOUS
<1>17. /\ Held(h) /\ values' = [values EXCEPT ![v].items = items]
       /\ kind' = kind /\ handle' = handle /\ owned' = owned
    BY <1>1
<1>18. stored \in [Fields -> Items] /\ at = n - 1 /\ item \in Items
    BY <1>2, <1>4, <1>10
<1> HIDE DEF items, stored, at, f, old
<1> QED BY <1>11, <1>12, <1>13, <1>14, <1>15, <1>16, <1>17, <1>18, ItemStep


-----------------------------------------------------------------------------
(* The theorems *)

LEMMA Initially ==
    ASSUME Init
    PROVE  IInv
<1>1. TypeOK
    <2>1. values \in Seq([items : Seq(Items), refs : Nat]) /\ Len(values) = 0
        BY DEF Init
    <2>2. handle \in [Handles -> 0 .. Len(values)]
        BY <2>1 DEF Init
    <2>3. owned \in Seq(Nat) /\ written \in Seq([Fields -> Items])
          /\ Len(owned) = 0 /\ Len(written) = 0
        BY DEF Init
    <2>4. sets \in 0 .. MaxSets /\ kind \in Types
        BY CompositesAssumption DEF CompositesAssumption, Init
    <2> QED BY <2>1, <2>2, <2>3, <2>4 DEF TypeOK
<1>2. DOMAIN values = {} /\ \A h \in Handles : ~Held(h)
    BY DEF Init, Held
<1> QED BY <1>1, <1>2 DEF IInv, CountIsHolders, Kept, Good

LEMMA Step ==
    ASSUME IInv, [Next]_vars
    PROVE  IInv'
<1>1. CASE UNCHANGED vars
    BY <1>1 DEF vars, IInv, TypeOK, CountIsHolders, Kept, Good, Held, T, Fields
<1>2. ASSUME NEW h \in Handles, T_create(h) PROVE IInv'
    BY <1>2, CreateStep
<1>3. ASSUME NEW h \in Handles, NEW copy \in Handles, T_clone(h, copy) PROVE IInv'
    BY <1>3, CloneStep
<1>4. ASSUME NEW h \in Handles, T_destroy(h) PROVE IInv'
    BY <1>4, DestroyStep
<1>5. ASSUME NEW h \in Handles, amqpvalue_create_T(h) PROVE IInv'
    BY <1>5, CreateValueStep
<1>6. ASSUME NEW h \in Handles, NEW v \in DOMAIN values, amqpvalue_get_T(v, h) PROVE IInv'
    BY <1>6, GetStep
<1>7. ASSUME NEW h \in Handles, NEW n \in Fields, T_get_makes_array(h, T.fields[n]) PROVE IInv'
    BY <1>7, MakesArrayStep
<1>8. ASSUME NEW h \in Handles, NEW n \in Fields, T_set(h, n) PROVE IInv'
    BY <1>8, SetStep
<1>9. ASSUME NEW v \in DOMAIN values, amqpvalue_destroy(v) PROVE IInv'
    BY <1>9, DestroyValueStep
<1>10. CASE value_received
    BY <1>10, ReceivedStep
<1> QED BY <1>1, <1>2, <1>3, <1>4, <1>5, <1>6, <1>7, <1>8, <1>9, <1>10, Zenon DEF Next

\* Through every sequence of calls on clones, received values and setters, each
\* value holds what was last stored in it, and each value with a handle is one that
\* amqpvalue_get_T accepts.
THEOREM Invariance == Spec => []IInv
<1>1. Init => IInv
    BY Initially
<1>2. IInv /\ [Next]_vars => IInv'
    BY Step
<1> QED BY <1>1, <1>2, PTL DEF Spec

\* The handles, values and counts of amqp_definitions.c have their types.
THEOREM TypeCorrect == Spec => []TypeOK
<1>1. IInv => TypeOK
    BY DEF IInv
<1> QED BY <1>1, Invariance, PTL

\* amqpvalue_clone and amqpvalue_destroy balance: the count of every value is the
\* number of its holders, so that it is freed with the last one and not before.
THEOREM Counted == Spec => []CountIsHolders
<1>1. IInv => CountIsHolders
    BY DEF IInv
<1> QED BY <1>1, Invariance, PTL

\* What amqpvalue_get_T accepted, or T_create and the setters made, the getters read.
LEMMA Readable ==
    ASSUME IInv, NEW h \in Handles, Held(h), NEW n \in Fields
    PROVE  LET items == values[handle[h]].items
           IN  /\ Agrees(T) /\ items \in Seq(Items) /\ Accepted(T, items)
               /\ Passes(T.checks[n], ItemAt(items, n))
               /\ Alikes(ItemAt(items, n), written[handle[h]][n])
               /\ T_get(items, T.fields[n]) = expected(T.fields[n], ItemAt(items, n))
<1> DEFINE v == handle[h]
           items == values[v].items
<1>1. Agrees(T) /\ v \in DOMAIN values /\ items \in Seq(Items)
    BY Basics
<1>2. Accepted(T, items) /\ Stored(T, items, written[v])
    BY <1>1 DEF IInv, Kept, Good
<1> HIDE DEF items
<1>3. n \in DOMAIN T.fields /\ n \in DOMAIN T.checks
    BY <1>1, FieldFacts DEF Fields
<1>4. Passes(T.checks[n], ItemAt(items, n)) /\ Alikes(ItemAt(items, n), written[v][n])
    BY <1>2, <1>3 DEF Accepted, Stored
<1>5. T_get(items, T.fields[n]) = expected(T.fields[n], ItemAt(items, n))
    BY <1>1, <1>3, <1>4, Reads DEF expected
<1> QED BY <1>1, <1>2, <1>4, <1>5 DEF items

\* Every getter of every handle gives what was last stored under its name, or the
\* default, for each of the composite types and whatever the order of the calls.
THEOREM ReadBack == Spec => []ReadsBack
<1>1. ASSUME IInv, NEW h \in Handles, Held(h), NEW n \in Fields
      PROVE  T_get(values[handle[h]].items, T.fields[n])
                = expected(T.fields[n], written[handle[h]][n])
    <2> DEFINE item == ItemAt(values[handle[h]].items, n)
               stored == written[handle[h]][n]
    <2>1. T_get(values[handle[h]].items, T.fields[n]) = expected(T.fields[n], item)
          /\ Alikes(item, stored)
        BY <1>1, Readable
    <2> HIDE DEF item, stored
    <2>2. expected(T.fields[n], item) = expected(T.fields[n], stored)
        BY <2>1 DEF Alikes, expected
    <2> QED BY <2>1, <2>2 DEF stored
<1>2. IInv => ReadsBack
    BY <1>1 DEF ReadsBack
<1> QED BY <1>2, Invariance, PTL

\* What T_create and the setters build is accepted by the amqpvalue_get_T of the
\* peer, with every mandatory field present.
THEOREM Acceptable == Spec => []AcceptedByPeer
<1>1. ASSUME IInv, NEW h \in Handles, Held(h)
      PROVE  /\ accepted_as_T(values[handle[h]].items)
             /\ \A i \in DOMAIN T.checks :
                  T.checks[i].must => T_get(values[handle[h]].items, T.fields[i])[1] = "read"
    <2> DEFINE items == values[handle[h]].items
    <2>1. Agrees(T) /\ handle[h] \in DOMAIN values
        BY <1>1, Basics
    <2>2. T.checks \in Seq(CheckType) /\ DOMAIN T.checks = Fields
        BY <2>1 DEF Agrees, Fields
    <2>3. items \in Seq(Items) /\ Accepted(T, items)
        BY <1>1, <2>1, Basics DEF IInv, Good
    <2>4. accepted_as_T(items)
        BY <2>2, <2>3, AcceptedIs
    <2>5. ASSUME NEW i \in DOMAIN T.checks, T.checks[i].must
          PROVE  T_get(items, T.fields[i])[1] = "read"
        <3> DEFINE item == ItemAt(items, i)
        <3>1. T_get(items, T.fields[i]) = expected(T.fields[i], item)
              /\ Passes(T.checks[i], item)
            BY <1>1, <2>2, Readable
        <3> HIDE DEF item
        <3>2. item.type # "null"
            BY <2>5, <3>1 DEF Passes
        <3>3. expected(T.fields[i], item) = Read(item.tag)
            BY <3>2 DEF expected
        <3>4. Read(item.tag)[1] = "read"
            BY DEF Read
        <3> QED BY <3>1, <3>3, <3>4
    <2> QED BY <2>4, <2>5
<1>2. IInv => AcceptedByPeer
    BY <1>1 DEF AcceptedByPeer
<1> QED BY <1>2, Invariance, PTL

=============================================================================
