------------------------------ MODULE JsonManager ------------------------------
(* Utils::JSON::JsonManager (JSON/include/Utils/JSON.hpp): one manager   *)
(* that owns a document and the views into it that its operators [] return. A *)
(* node of the document is named by its path, the keys and indices that lead  *)
(* to it. A view is a pointer to a node: it is modelled while the node is     *)
(* where it was, and the program uses no other. The owner outlives its views. *)
(* get(), exists() and toString() change nothing, and are no actions.         *)
EXTENDS Naturals, FiniteSets, SequencesExt, Functions

CONSTANTS
    JsonKeys,
    Scalars,          \* values that are neither null, object nor array
    Texts,            \* the documents that are read, whole or up to an error
    MaxDepth,         \* bound: length of paths
    MaxIndex,         \* bound: indices asked for
    MaxViews          \* bound: views that are in use

Containers == {"object", "array"}

Root == <<>>

\* A document is a tree: what a node is below is an object with that key or an
\* array that holds every smaller index too.
IsDocument(doc) ==
    /\ DOMAIN doc \subseteq Seq(JsonKeys \cup Nat)
    /\ doc \in [DOMAIN doc -> Scalars \cup Containers \cup {"null"}]
    /\ Root \in DOMAIN doc
    /\ \A p \in DOMAIN doc \ {Root} :
           /\ Front(p) \in DOMAIN doc
           /\ \/ Last(p) \in JsonKeys /\ doc[Front(p)] = "object"
              \/ /\ Last(p) \in Nat /\ doc[Front(p)] = "array"
                 /\ \A i \in 0..Last(p) : Append(Front(p), i) \in DOMAIN doc

ASSUME TextsAssumption == \A doc \in Texts : IsDocument(doc)

ASSUME JsonAssumption == JsonKeys \cap Nat = {} /\ Scalars \cap (Containers \cup {"null"}) = {}

VARIABLES
    json_,            \* the document: what each path holds
    views,            \* the nodes that views point at
    file              \* what saveToFile() wrote: "nothing", "document" or "null"

jsonVars == <<json_, views, file>>

NullDocument == [path \in {Root} |-> "null"]

\* FromFile() keeps what was read before a parse error; without a file, and in
\* FromString() after an error, the document is null.
JsonInit == /\ json_ \in Texts \cup {NullDocument}
            /\ views = {}
            /\ file = "nothing"

-------------------------------------------------------------------------------
Below(doc, path) == {p \in DOMAIN doc : IsStrictPrefix(path, p)}
Children(doc, path) == {p \in Below(doc, path) : Len(p) = Len(path) + 1}

\* *ptr_ = value: nothing is left below the node.
Assigned(doc, path, value) ==
    [p \in DOMAIN doc \ Below(doc, path) |-> IF p = path THEN value ELSE doc[p]]

\* `if (!ptr_->is_object())`, and the same for arrays.
MadeAnyway(doc, path, kind) == Assigned(doc, path, kind)
Made(doc, path, kind) == IF doc[path] = kind THEN doc ELSE Assigned(doc, path, kind)

WithNulls(doc, paths) ==
    [p \in DOMAIN doc \cup paths |-> IF p \in DOMAIN doc THEN doc[p] ELSE "null"]

Receivers == views \cup {Root}

Returns(kept, path) == /\ views' = kept \cup {path}
                       /\ Cardinality(views') <= MaxViews

\* operator[](key)
AtKey(r, key) ==
    LET object == Made(json_, r, "object")
    IN /\ Len(r) < MaxDepth
       /\ json_' = WithNulls(object, {Append(r, key)})
       /\ Returns(views \cap DOMAIN object, Append(r, key))
       /\ UNCHANGED file

\* operator[](index): when the array grows its elements may move, and take what
\* is below them along.
AtIndex(r, index) ==
    LET array == Made(json_, r, "array")
        filled == {Append(r, i) : i \in 0..index}
        moved == IF filled \subseteq DOMAIN array THEN {} ELSE Children(array, r)
    IN /\ Len(r) < MaxDepth
       /\ json_' = WithNulls(array, filled)
       /\ \E stale \in {{}, moved} :
              Returns((views \cap DOMAIN array) \ stale, Append(r, index))
       /\ UNCHANGED file

\* The const operators leave the node to nlohmann::json, which throws for a node
\* of another kind and creates what is missing otherwise.
ConstAtKey(r, key) == json_[r] \in {"object", "null"} /\ AtKey(r, key)
ConstAtIndex(r, index) == json_[r] \in {"array", "null"} /\ AtIndex(r, index)

\* set(), operator=; a container is assigned as null and filled by accesses.
Set(r, value) ==
    /\ json_' = Assigned(json_, r, value)
    /\ views' = views \cap DOMAIN json_'
    /\ UNCHANGED file

Forget(view) == /\ view \in views
                /\ views' = views \ {view}
                /\ UNCHANGED <<json_, file>>

\* saveToFile() writes the manager's own json_, which a view leaves null.
SaveToFile(r) == /\ file' = IF r = Root THEN "document" ELSE "null"
                 /\ UNCHANGED <<json_, views>>

JsonNext ==
    \E r \in Receivers :
        \/ \E key \in JsonKeys : AtKey(r, key) \/ ConstAtKey(r, key)
        \/ \E index \in 0..MaxIndex : AtIndex(r, index) \/ ConstAtIndex(r, index)
        \/ \E value \in Scalars \cup {"null"} : Set(r, value)
        \/ Forget(r) \/ SaveToFile(r)

JsonSpec == JsonInit /\ [][JsonNext]_jsonVars

-------------------------------------------------------------------------------
\* The document stays a tree, and views point at nodes of it.
JsonTypeOK ==
    /\ IsDocument(json_)
    /\ views \subseteq DOMAIN json_
    /\ file \in {"nothing", "document", "null"}

\* An access keeps the data: whatever is not below the receiver, and if the
\* receiver is the container it is taken for, all that is below it as well. (If
\* it is not, the non-const operators drop what it held, even for a reader.)
Keeps(r, kind) ==
    \A p \in DOMAIN json_ : (p # r /\ p \notin Below(json_, r)) \/ json_[r] = kind
        => p \in DOMAIN json_' /\ json_'[p] = json_[p]

AccessKeepsData ==
    [][\A r \in Receivers :
          /\ (\E key \in JsonKeys : AtKey(r, key)) => Keeps(r, "object")
          /\ (\E index \in 0..MaxIndex : AtIndex(r, index)) => Keeps(r, "array")]_jsonVars
===============================================================================
