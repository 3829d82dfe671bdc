------------------------------- MODULE MCReads -------------------------------
\* Descriptors like those of config/descriptor.json, cut down: a money field
\* with a fixed currency, a date, relationships of every kind, a table whose
\* unique id is its name, and one without an option name.  Shared has two
\* descriptors of one table, and Unsound one that the sanity checks refuse.
EXTENDS Reads

F(key, type, column) ==
  [key |-> key, type |-> type, keys |-> <<key>>, columns |-> <<column>>,
   kind |-> Null, withTable |-> Null, local |-> Null, foreign |-> Null]
Money(key, amount, other, currency) ==
  [F(key, "money", amount) EXCEPT !.keys = <<key, other>>, !.columns = <<amount, currency>>]
Rel(key, kind, table, local, foreign) ==
  [F(key, "default", "") EXCEPT !.kind = kind, !.withTable = table, !.local = local,
                                !.foreign = foreign]
TD(key, table, optionName, uniqueId, fields) ==
  [key |-> key, table |-> table, optionName |-> optionName, uniqueId |-> uniqueId,
   fields |-> fields]

IdAndName == <<F("id", "default", "id"), F("name", "default", "name")>>
UsedIn == Rel("recipes", "oneToMany", "recipes", "id", "equipment_id")
Stock == Rel("stock", "oneToOne", "inventory", "id", "ingredient_id")
Equipment == TD("equipment", "equipment", "name", "id",
  IdAndName \o <<F("cost", "money", "cost"), F("bought", "date", "bought"), UsedIn>>)
Stocked == TD("equipment", "equipment", "name", "id", IdAndName \o <<UsedIn, Stock>>)
Recipes == TD("recipe", "recipes", "name", "id",
  <<F("number", "default", "id"), F("name", "default", "name"),
    F("equipmentId", "default", "equipment_id"),
    Rel("equipment", "manyToOne", "equipment", "equipment_id", "id")>>)
Inventory == TD("inventory", "inventory", "ingredient_id", "ingredient_id",
  <<F("ingredientId", "default", "ingredient_id"), F("quantity", "default", "quantity")>>)
Spice == TD("spice", "equipment", "bought", "id", <<F("bought", "date", "bought"), Stock>>)
Priced == TD("priced", "equipment", "name", "id",
  IdAndName \o <<Money("price", "cost", "currency", "bought")>>)
Nameless == TD("equipment", "equipment", "", "id",
  <<F("id", "default", "id"), F("cost", "money", "cost")>>)
Titled == TD("equipment", "equipment", "bought", "id",
  IdAndName \o <<F("title", "default", "bought")>>)

MCTypeDescriptors == {
  <<Equipment, Inventory, Recipes>>,            \* as shipped
  <<Stocked, Recipes, Inventory>>,              \* two relationships
  <<Spice, Equipment, Inventory, Recipes>>,     \* Shared
  <<Spice, Inventory, Priced>>,                 \* Shared, the last without relationships
  <<Spice, Inventory>>, <<Priced>>, <<Nameless>>,
  <<Titled>> }                                  \* Unsound

Piece(id, name, cost, bought) ==
  [id |-> id, name |-> name, cost |-> cost, bought |-> bought]
MCDatabase == [t \in {"equipment", "recipes", "inventory"} |->
  CASE t = "equipment" -> <<Piece("1", "pump", "5", "d1"), Piece("2", Null, "5", "d2"),
                            Piece("3", "pot", "5", "d1"), Piece("4", "pan", Null, "d1")>>
    [] t = "recipes" -> <<[id |-> "1", name |-> "cold", equipment_id |-> "3"],
                          [id |-> "2", name |-> "cold", equipment_id |-> "3"],
                          [id |-> "3", name |-> "hot", equipment_id |-> Null]>>
    [] t = "inventory" -> <<[ingredient_id |-> "1", quantity |-> "7"]>>]

Req(method, path, params, authorized) ==
  [method |-> method, path |-> path, params |-> params, authorized |-> authorized]
Denormalized == "$denormalize" :> "true"
Params == {
  <<>>, [name |-> "pump"], [name |-> "cold", number |-> "2"],
  [cost |-> "5", bought |-> "d1"], [cost |-> "5", name |-> "pot", bought |-> "d1"],
  [bought |-> "no date"], [filter |-> "p"], [filter |-> "p", cost |-> "5"],
  [filter |-> "p", cost |-> "5", bought |-> "d1"],
  [recipes |-> "1"], [price |-> "5", currency |-> "d1"], Denormalized }
Keys1 == {"equipment", "recipe", "inventory", "spice", "priced", "unknown"}
MCRequestsMade ==
  {Req("GET", p, q, TRUE) : p \in
     {<<k>> : k \in Keys1} \cup {<<k, "options">> : k \in Keys1}, q \in Params} \cup
  {Req("GET", <<k, i>>, Denormalized, TRUE) : k \in Keys1, i \in {"1", "3"}} \cup
  {Req("GET", p, <<>>, a) : a \in BOOLEAN, p \in
     {<<>>} \cup {<<k, i>> : k \in Keys1, i \in {"1", "9"}} \cup
     {<<k, "options", i>> : k \in Keys1, i \in {"1", "9"}}} \cup
  {Req(m, p, q, TRUE) : m \in {"POST", "PATCH", "DELETE", "PUT"},
     p \in {<<>>, <<"equipment">>, <<"spice">>, <<"unknown">>, <<"equipment", "1">>},
     q \in {<<>>, [tx |-> "t1"], [begin |-> "true"], [commit |-> "t1"]}}

Values == {"1", "2", "3", "4", "5", "7", "9", "pump", "pot", "pan", "cold", "hot",
           "d1", "d2", "p"}
MCHasText == [vw \in Values \X Values |->
                vw \in {<<"pump", "p">>, <<"pot", "p">>, <<"pan", "p">>}]
=============================================================================
