----------------------------- MODULE ConfigMerge -----------------------------
(***************************************************************************)
(* How the configuration file and the credentials file become one document *)
(* (backend/yaml/yaml.go): maps are merged key by key, lists by the `name` *)
(* of their items, anything else is replaced by what the credentials say.  *)
(***************************************************************************)
EXTENDS Documents, SequencesExt

CONSTANT OtherKeys   \* keys that are not strings for YAML: numbers, booleans

\* Keys that are not strings are left out, in maps at any depth below the top.
RECURSIVE NormalizeValue(_)
NormalizeValue(v) ==
  CASE IsMap(v)  -> MapOf([k \in DOMAIN v.entries \ OtherKeys |-> NormalizeValue(v.entries[k])])
    [] IsList(v) -> ListOf([i \in DOMAIN v.items |-> NormalizeValue(v.items[i])])
    [] OTHER     -> v

Named(item) == IsMap(item) /\ "name" \in DOMAIN item.entries /\ item.entries["name"].kind = "text"
NameOf(item) == item.entries["name"].value
ItemsNamed(n, items) == SelectSeq(items, LAMBDA x : Named(x) /\ NameOf(x) = n)

\* The names in order of their first item.
NamesIn(items) ==
  FoldLeft(LAMBDA names, x : IF Contains(names, NameOf(x)) THEN names ELSE Append(names, NameOf(x)),
           <<>>, SelectSeq(items, Named))

RECURSIVE MergeMaps(_, _)
\* Mutant: an item of the credentials takes the place of the one of its name.
MergeListsReplacing(dst, src) ==
  LET names == NamesIn(dst \o src)
      merged(n) == LET new == ItemsNamed(n, src) IN
                   IF new = <<>> THEN Last(ItemsNamed(n, dst)) ELSE Last(new)
  IN  [i \in DOMAIN names |-> merged(names[i])]

\* Items without a name are in neither list any more.  Of several items of dst
\* with one name the last is kept; every one of src is merged into it.
MergeListsByName(dst, src) ==
  LET names == NamesIn(dst \o src)
      merged(n) ==
        LET old == ItemsNamed(n, dst)
            new == ItemsNamed(n, src)
        IN  FoldLeft(LAMBDA acc, x : MapOf(MergeMaps(acc.entries, x.entries)),
                     IF old = <<>> THEN Head(new) ELSE Last(old),
                     IF old = <<>> THEN Tail(new) ELSE new)
  IN  [i \in DOMAIN names |-> merged(names[i])]

MergeValue(dst, src) ==
  CASE IsMap(dst) /\ IsMap(src)   -> MapOf(MergeMaps(dst.entries, src.entries))
    [] IsList(dst) /\ IsList(src) -> ListOf(MergeListsByName(dst.items, src.items))
    [] OTHER                      -> src

MergeMaps(dst, src) ==
  [k \in (DOMAIN dst \cup DOMAIN src) \ OtherKeys |->
     NormalizeValue(CASE k \notin DOMAIN src -> dst[k]
                      [] k \notin DOMAIN dst -> src[k]
                      [] OTHER               -> MergeValue(dst[k], src[k]))]

\* The credentials file may be absent (Null).  An empty configuration file is a
\* nil map, which cannot be merged into: the program ends there.
MergePanics(base, overlay) == overlay # Null /\ DOMAIN base.entries = {} /\ DOMAIN overlay.entries # {}
MergeFiles(base, overlay) ==
  IF overlay = Null THEN NormalizeValue(base) ELSE MapOf(MergeMaps(base.entries, overlay.entries))

------------------------------------------------------------------------------
(***************************************************************************)
(* The reference: a document as the set of its settings, each a path of    *)
(* keys and item names with a value.  A list of items without names is one *)
(* value.                                                                  *)
(***************************************************************************)
NamedItems(v) == \A i \in DOMAIN v.items : Named(v.items[i])

RECURSIVE SettingsAt(_, _)
SettingsAt(path, v) ==
  CASE IsMap(v) -> UNION {SettingsAt(Append(path, k), v.entries[k]) : k \in DOMAIN v.entries}
    [] IsList(v) /\ NamedItems(v) ->
         UNION {SettingsAt(Append(path, NameOf(v.items[i])), v.items[i]) : i \in DOMAIN v.items}
    [] OTHER -> {[path |-> path, value |-> v]}
Settings(v) == SettingsAt(<<>>, v)

\* What both files say, the credentials first; a setting of one hides those of
\* the other above and below it.
Overlapping(p, q) == IsPrefix(p, q) \/ IsPrefix(q, p)
Expected(base, overlay) ==
  LET new == IF overlay = Null THEN {} ELSE Settings(overlay)
  IN  new \cup {x \in Settings(base) : \A y \in new : ~Overlapping(x.path, y.path)}

(***************************************************************************)
(* Documents for which the merge means what the reference says: keys are   *)
(* strings, names are not repeated, and no list without names is in both   *)
(* files (nothing would be left of it) or meets one with names.            *)
(***************************************************************************)
RECURSIVE Tidy(_)
Tidy(v) ==
  CASE IsMap(v)  -> DOMAIN v.entries \cap OtherKeys = {} /\ \A k \in DOMAIN v.entries : Tidy(v.entries[k])
    [] IsList(v) -> /\ \A i \in DOMAIN v.items : Tidy(v.items[i])
                    /\ NamedItems(v) => Len(NamesIn(v.items)) = Len(v.items)
    [] OTHER     -> TRUE

Unnamed(v) == {x.path : x \in {y \in Settings(v) : IsList(y.value)}}
Mergeable(base, overlay) ==
  /\ Tidy(base)
  /\ overlay # Null => /\ Tidy(overlay)
                       /\ \A p \in Unnamed(base), y \in Settings(overlay) : ~IsPrefix(p, y.path)
                       /\ \A p \in Unnamed(overlay), x \in Settings(base) : ~IsPrefix(p, x.path)
=============================================================================
