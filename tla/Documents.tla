----------------------------- MODULE Documents ------------------------------
(***************************************************************************)
(* A YAML document: a tree of maps, lists, texts (any scalar) and null.    *)
(***************************************************************************)
Null == [kind |-> "null"]
Text(t) == [kind |-> "text", value |-> t]
MapOf(f) == [kind |-> "map", entries |-> f]
ListOf(s) == [kind |-> "list", items |-> s]

IsMap(v) == v.kind = "map"
IsList(v) == v.kind = "list"
=============================================================================
