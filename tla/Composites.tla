----------------------------- MODULE Composites -----------------------------
(***************************************************************************)
(* What the functions of src/src/amqp_definitions.c do: a handle of a      *)
(* composite type holds a reference to a counted AMQP value whose items    *)
(* the setters write and the getters read (Definitions.tla has the items   *)
(* of every type).  amqpvalue_clone counts a reference and copies nothing, *)
(* so that clones of a handle share their items.                           *)
(*                                                                         *)
(* A behaviour is about one type.  An item is its type and a tag that      *)
(* stands for its contents: every call of a setter brings a new one, what  *)
(* is created or received has the tag 1.  `written' goes by the position   *)
(* of a field in T.fields, the order of AMQP.  Calls that fail for lack of *)
(* memory change nothing and are left out, as are calls with NULL.         *)
(***************************************************************************)
EXTENDS Definitions, FiniteSets, SequencesExt

CONSTANTS
    Types,        \* the composite types looked at
    Handles,      \* handles that the program may hold at a time
    MaxValues,    \* bound: composite values created or received
    MaxSets       \* bound: calls of setters

ASSUME CompositesAssumption ==
    /\ Types \subseteq DOMAIN composites
    /\ IsFiniteSet(Handles)
    /\ MaxValues \in Nat /\ MaxSets \in Nat

VARIABLES
    kind,         \* the composite type
    values,       \* the values: their items and reference count
    handle,       \* the value of each handle, 0 if the handle is free
    owned,        \* references to each value that the program itself holds
    sets,         \* calls of setters
    written       \* for each value, what was last stored in each field

vars == <<kind, values, handle, owned, sets, written>>

-----------------------------------------------------------------------------

T == composites[kind]
Fields == DOMAIN T.fields

Item(of, tag) == [type |-> of, tag |-> tag]
NullItem == Item("null", 0)

PrimitiveTypes ==
    {"null", "boolean", "ubyte", "ushort", "uint", "ulong", "timestamp", "string",
     "symbol", "binary", "map", "array", "error", "any"}

Tags == 0 .. MaxSets + 1

Items == [type : PrimitiveTypes, tag : Tags]

\* The variables hold handles, values and what was stored.
TypeOK ==
    /\ kind \in Types
    /\ values \in Seq([items : Seq(Items), refs : Nat])
    /\ handle \in [Handles -> 0 .. Len(values)]
    /\ owned \in Seq(Nat) /\ Len(owned) = Len(values)
    /\ sets \in 0 .. MaxSets
    /\ written \in Seq([Fields -> Items]) /\ Len(written) = Len(values)

Init ==
    /\ kind \in Types
    /\ values = <<>>
    /\ handle = [h \in Handles |-> 0]
    /\ owned = <<>>
    /\ sets = 0
    /\ written = <<>>

Free(h) == handle[h] = 0
Held(h) == handle[h] # 0

\* Mutant: the list ends with the item that is set.
amqpvalue_set_composite_item_last(items, at, item) ==
    [i \in 1 .. at + 1 |->
        IF i = at + 1 THEN item
        ELSE IF i <= Len(items) THEN items[i] ELSE NullItem]

\* amqpvalue_set_composite_item and amqpvalue_set_list_item: a list that is too
\* short is filled with nulls.
amqpvalue_set_composite_item(items, at, item) ==
    [i \in 1 .. (IF Len(items) > at THEN Len(items) ELSE at + 1) |->
        IF i = at + 1 THEN item
        ELSE IF i <= Len(items) THEN items[i] ELSE NullItem]

\* amqpvalue_get_<type> accepts the item.
is_of(item, of) == of = "any" \/ item.type = primitive(of)

is_one_or_many(item, of, many) == is_of(item, of) \/ (many /\ item.type = "array")

\* What the program passes for an item of the type: many are passed as an array.
Argument(of, many, tag) ==
    Item(IF many THEN "array" ELSE primitive(of), tag)

field_named(name) == CHOOSE f \in Fields : T.fields[f].name = name

-----------------------------------------------------------------------------

CreateTag == 1

\* The arguments of T_create, which become items, and the one with the name.
arguments == ToSet(T.create.args)

argument(arg) == Argument(arg.type, T.fields[field_named(arg.name)].get.many, CreateTag)

only(args) == IF args = {} THEN NullItem ELSE argument(CHOOSE arg \in args : TRUE)

\* What is made of the type suits the check of amqpvalue_get_T.
Suits(of, check) ==
    of # "null" /\ (check.type = "any" \/ of = primitive(check.type) \/ (check.many /\ of = "array"))

\* Setter, getter and check of the n-th field agree: they are about item n - 1, of
\* one type, and what the check lets pass the getter reads.
FieldAgrees(f, check, n) ==
    /\ f.get.at = n - 1 /\ f.set.at = n - 1
    /\ f.get.many = check.many
    /\ f.get.type = "any" \/ (check.type # "any" /\ primitive(check.type) = primitive(f.get.type))
    /\ f.get.many => /\ f.get.back = n - 1 /\ f.get.type # "any"
                     /\ primitive(f.get.type) # "null"
    /\ Suits(Argument(IF f.set.type = "any" THEN f.get.type ELSE f.set.type, f.get.many, 0).type,
             check)

\* T_create sets every mandatory item, each of the field with the name.
CreateAgrees(t) ==
    /\ \A arg \in ToSet(t.create.args) :
         /\ \E n \in DOMAIN t.fields : t.fields[n].name = arg.name
         /\ \A n \in DOMAIN t.fields :
              /\ arg.at = n - 1 <=> arg.name = t.fields[n].name
              /\ arg.at = n - 1 =>
                   Suits(Argument(arg.type, t.fields[n].get.many, 0).type, t.checks[n])
    /\ \A n \in DOMAIN t.checks :
         t.checks[n].must => \E arg \in ToSet(t.create.args) : arg.at = n - 1

TypeNames == {of \in STRING : primitive(of) \in PrimitiveTypes}

CheckType == [must : BOOLEAN, many : BOOLEAN, type : TypeNames]
FieldType ==
    [name : STRING,
     get : [at : Nat, type : TypeNames, default : STRING, many : BOOLEAN, back : Nat],
     set : [at : Nat, type : TypeNames]]
ArgumentType == [name : STRING, at : Nat, type : TypeNames]

\* The functions of the type agree with each other.
Agrees(t) ==
    /\ t.fields \in Seq(FieldType) /\ t.checks \in Seq(CheckType)
    /\ t.create.args \in Seq(ArgumentType)
    /\ Len(t.checks) = Len(t.fields)
    /\ \A n \in DOMAIN t.fields : FieldAgrees(t.fields[n], t.checks[n], n)
    /\ CreateAgrees(t)

ASSUME TableAssumption == \A k \in Types : Agrees(composites[k])

\* T_create: the arguments are set one after the other, others filled with null.
T_create(h) ==
    LET items == [i \in 1 .. Max({0} \cup {arg.at + 1 : arg \in arguments}) |->
                    only({arg \in arguments : arg.at = i - 1})]
        contents == [f \in Fields |->
                        only({arg \in arguments : arg.name = T.fields[f].name})]
    IN  /\ Free(h)
        /\ Len(values) < MaxValues
        /\ values' = Append(values, [items |-> items, refs |-> 1])
        /\ handle' = [handle EXCEPT ![h] = Len(values) + 1]
        /\ owned' = Append(owned, 0)
        /\ written' = Append(written, contents)
        /\ UNCHANGED <<kind, sets>>

referenced(v) == [values EXCEPT ![v].refs = @ + 1]

\* amqpvalue_destroy: the last reference frees the value.
released(v) == [values EXCEPT ![v].refs = @ - 1]

\* T_clone
T_clone(h, copy) ==
    /\ Held(h) /\ Free(copy)
    /\ values' = referenced(handle[h])
    /\ handle' = [handle EXCEPT ![copy] = handle[h]]
    /\ UNCHANGED <<kind, owned, sets, written>>

\* T_destroy
T_destroy(h) ==
    /\ Held(h)
    /\ values' = released(handle[h])
    /\ handle' = [handle EXCEPT ![h] = 0]
    /\ UNCHANGED <<kind, owned, sets, written>>

\* amqpvalue_create_T: the program gets a reference to the value.
amqpvalue_create_T(h) ==
    /\ Held(h)
    /\ owned[handle[h]] < 2
    /\ values' = referenced(handle[h])
    /\ owned' = [owned EXCEPT ![handle[h]] = @ + 1]
    /\ UNCHANGED <<kind, handle, sets, written>>

\* The program gives up a reference.
amqpvalue_destroy(v) ==
    /\ owned[v] > 0
    /\ values' = released(v)
    /\ owned' = [owned EXCEPT ![v] = @ - 1]
    /\ UNCHANGED <<kind, handle, sets, written>>

-----------------------------------------------------------------------------

\* A received list: the items that AMQP defines, the last ones left out, one
\* item too many, or one item null, of another type, or single instead of many.
Alike(of) == IF primitive(of) = "string" THEN "symbol" ELSE "string"

FullList ==
    [i \in DOMAIN T.checks |->
        Item(IF T.checks[i].many THEN "array" ELSE primitive(T.checks[i].type), CreateTag)]

Altered(i) ==
    {[FullList EXCEPT ![i] = item] :
        item \in {NullItem, Item(Alike(T.checks[i].type), CreateTag),
                  Item(primitive(T.checks[i].type), CreateTag)}}

Lists ==
    {SubSeq(FullList, 1, n) : n \in 0 .. Len(FullList)}
    \cup (UNION {Altered(i) : i \in DOMAIN T.checks})
    \cup {Append(FullList, Item("map", CreateTag))}

\* The decoder gives the program a value.
value_received ==
    /\ Len(values) < MaxValues
    /\ \E items \in Lists :
         /\ values' = Append(values, [items |-> items, refs |-> 1])
         /\ written' = Append(written,
                [f \in Fields |-> IF f <= Len(items) THEN items[f] ELSE NullItem])
    /\ owned' = Append(owned, 1)
    /\ UNCHANGED <<kind, handle, sets>>

\* Mutant: an item that is null passes for a mandatory one.
item_accepted_null(check, items, i) ==
    IF i > Len(items) THEN ~check.must
    ELSE items[i].type = "null" \/ is_one_or_many(items[i], check.type, check.many)

\* amqpvalue_get_T looks at the item: absent and null are accepted unless the
\* item is mandatory.
item_accepted(check, items, i) ==
    IF i > Len(items) \/ items[i].type = "null" THEN ~check.must
    ELSE is_one_or_many(items[i], check.type, check.many)

accepted_as_T(items) == \A i \in DOMAIN T.checks : item_accepted(T.checks[i], items, i)

\* Mutant: the value is kept without counting the reference.
amqpvalue_get_T_borrows(v, h) ==
    /\ owned[v] > 0 /\ Free(h)
    /\ accepted_as_T(values[v].items)
    /\ UNCHANGED values
    /\ handle' = [handle EXCEPT ![h] = v]
    /\ UNCHANGED <<kind, owned, sets, written>>

\* amqpvalue_get_T; a value that is not accepted changes nothing.
amqpvalue_get_T(v, h) ==
    /\ owned[v] > 0 /\ Free(h)
    /\ accepted_as_T(values[v].items)
    /\ values' = referenced(v)
    /\ handle' = [handle EXCEPT ![h] = v]
    /\ UNCHANGED <<kind, owned, sets, written>>

-----------------------------------------------------------------------------

\* T_get_f: what was read, the default, or MU_FAILURE.
Read(tag) == <<"read", tag>>
Default(default) == <<"default", default>>

T_get(items, f) ==
    IF Len(items) <= f.get.at THEN Default(f.get.default)
    ELSE LET item == items[f.get.at + 1]
         IN  IF item.type = "null" THEN Default(f.get.default)
             ELSE IF is_one_or_many(item, f.get.type, f.get.many) THEN Read(item.tag)
             ELSE Default(NoDefault)

\* T_get_f of many makes an array of a single item and stores it in the value.
T_get_makes_array(h, f) ==
    LET items == values[handle[h]].items
        item == items[f.get.at + 1]
    IN  /\ Held(h)
        /\ f.get.many
        /\ Len(items) > f.get.at
        /\ item.type # "array" /\ is_of(item, f.get.type)
        /\ values' = [values EXCEPT ![handle[h]].items =
                        amqpvalue_set_composite_item(items, f.get.back, Item("array", item.tag))]
        /\ UNCHANGED <<kind, handle, owned, sets, written>>

\* T_set_f
T_set(h, n) ==
    LET f == T.fields[n]
        item == Argument(IF f.set.type = "any" THEN f.get.type ELSE f.set.type,
                         f.get.many, sets + 2)
    IN  /\ Held(h)
        /\ sets < MaxSets
        /\ sets' = sets + 1
        /\ values' = [values EXCEPT ![handle[h]].items =
                        amqpvalue_set_composite_item(@, f.set.at, item)]
        /\ written' = [written EXCEPT ![handle[h]][n] = item]
        /\ UNCHANGED <<kind, handle, owned>>

Next ==
    \/ \E h \in Handles :
         \/ T_create(h)
         \/ \E copy \in Handles : T_clone(h, copy)
         \/ T_destroy(h)
         \/ amqpvalue_create_T(h)
         \/ \E v \in DOMAIN values : amqpvalue_get_T(v, h)
         \/ \E n \in Fields : T_get_makes_array(h, T.fields[n]) \/ T_set(h, n)
    \/ \E v \in DOMAIN values : amqpvalue_destroy(v)
    \/ value_received

Spec == Init /\ [][Next]_vars

-----------------------------------------------------------------------------

expected(f, item) ==
    IF item.type = "null" THEN Default(f.get.default) ELSE Read(item.tag)

\* Whatever was created, received and set in whatever order, every getter of a
\* handle gives what was last stored under its name, or the default: setter,
\* getter, create and amqpvalue_get_T of a type agree on the item and the type
\* of every field, no field overwrites another one, and a value that
\* amqpvalue_get_T accepted never makes a getter fail.
ReadsBack ==
    \A h \in Handles : Held(h) =>
        \A n \in Fields :
            T_get(values[handle[h]].items, T.fields[n])
                = expected(T.fields[n], written[handle[h]][n])

\* A value with a handle has all its mandatory fields and would be accepted by
\* the amqpvalue_get_T of the peer: what create and the setters build can
\* always be received.
AcceptedByPeer ==
    \A h \in Handles : Held(h) =>
        /\ accepted_as_T(values[handle[h]].items)
        /\ \A i \in DOMAIN T.checks :
             T.checks[i].must => T_get(values[handle[h]].items, T.fields[i])[1] = "read"

\* A value lives as long as somebody holds it and no longer: its count is the
\* number of handles and of references of the program.
CountIsHolders ==
    \A v \in DOMAIN values :
        values[v].refs = owned[v] + Cardinality({h \in Handles : handle[h] = v})
=============================================================================
