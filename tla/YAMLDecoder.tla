---------------------------- MODULE YAMLDecoder ----------------------------
(***************************************************************************)
(* yamlMap (yaml_native.go): libyaml hands over the nodes of a document,   *)
(* where aliases make one node the child of several and even of itself,    *)
(* and decode expands them into maps, lists and texts with a budget, a     *)
(* limit on depth, and merge keys.                                         *)
(*                                                                         *)
(* A document is a function from node numbers to nodes, 1 being the root.  *)
(* Parsing the text is libyaml's work; a document that it refuses, or that *)
(* is one of several, never gets here.                                     *)
(***************************************************************************)
EXTENDS Integers, Sequences, FiniteSets, SequencesExt

CONSTANTS
    Budget,   \* nodes that decode may visit, counting repetitions (100000)
    MaxDepth  \* the deepest node (64)

Scalar(text) == [kind |-> "scalar", text |-> text]
Sequence(items) == [kind |-> "sequence", items |-> items]
Mapping(pairs) == [kind |-> "mapping", pairs |-> pairs]
Foreign == [kind |-> "foreign"]  \* a tag outside of YAML's own

MergeKey == "<<"

-----------------------------------------------------------------------------
(***************************************************************************)
(* decode.  A result carries the budget that is left; a value is tagged    *)
(* with what it is.                                                        *)
(***************************************************************************)
Refused(left) == [ok |-> FALSE, value |-> [is |-> "none"], left |-> left]
Decoded(value, left) == [ok |-> TRUE, value |-> value, left |-> left]

Text(s) == [is |-> "text", text |-> s]
List(s) == [is |-> "list", items |-> s]
Map(f) == [is |-> "map", of |-> f]

\* The maps that a merge key brings in: one, or a list of them.
Merged(v) == IF v.is = "map" THEN <<v.of>>
             ELSE [i \in 1..Len(v.items) |-> v.items[i].of]

\* Mutant: a list of maps cannot be merged.
MergeableOne(v) == v.is = "map"

Mergeable(v) ==
    \/ v.is = "map"
    \/ v.is = "list" /\ \A i \in 1..Len(v.items) : v.items[i].is = "map"

\* Mutant: a later merge replaces what an earlier one brought in.
WithMergesLast(m, merges) ==
    m @@ FoldLeft(LAMBDA acc, mm : mm @@ acc, <<>>, merges)

\* Explicit keys stay, then the first merge that has a key decides.
WithMerges(m, merges) == FoldLeft(LAMBDA acc, mm : acc @@ mm, m, merges)

RECURSIVE Decode(_, _, _, _, _)

\* decode of the children of a sequence.
DecodeItems(doc, items, depth, visiting, left) ==
    LET item(acc, n) ==
            IF ~acc.ok THEN acc
            ELSE LET r == Decode(doc, n, depth, visiting, acc.left)
                 IN  IF r.ok THEN [acc EXCEPT !.left = r.left,
                                              !.items = Append(@, r.value)]
                     ELSE [acc EXCEPT !.ok = FALSE, !.left = r.left]
        all == FoldLeft(item, [ok |-> TRUE, items |-> <<>>, left |-> left],
                        items)
    IN  IF all.ok THEN Decoded(List(all.items), all.left) ELSE Refused(all.left)

\* decode of the pairs of a mapping: texts as keys, none twice.
DecodePairs(doc, pairs, depth, visiting, left) ==
    LET pair(acc, p) ==
            IF ~acc.ok THEN acc
            ELSE LET k == Decode(doc, p[1], depth, visiting, acc.left)
                     v == Decode(doc, p[2], depth, visiting, k.left)
                 IN  IF ~k.ok \/ k.value.is # "text"
                           \/ k.value.text \in acc.explicit
                     THEN [acc EXCEPT !.ok = FALSE, !.left = k.left]
                     ELSE IF ~v.ok
                     THEN [acc EXCEPT !.ok = FALSE, !.left = v.left]
                     ELSE IF k.value.text # MergeKey
                     THEN [acc EXCEPT !.left = v.left,
                             !.explicit = @ \cup {k.value.text},
                             !.m = @ @@ (k.value.text :> v.value)]
                     ELSE [acc EXCEPT !.left = v.left,
                             !.explicit = @ \cup {MergeKey},
                             !.ok = Mergeable(v.value),
                             !.merges = IF Mergeable(v.value)
                                        THEN @ \o Merged(v.value) ELSE @]
        all == FoldLeft(pair, [ok |-> TRUE, m |-> <<>>, explicit |-> {},
                               merges |-> <<>>, left |-> left], pairs)
    IN  IF all.ok THEN Decoded(Map(WithMerges(all.m, all.merges)), all.left)
        ELSE Refused(all.left)

Decode(doc, n, depth, visiting, left) ==
    LET node == doc[n]
        above == visiting \cup {n}
    IN  IF depth > MaxDepth \/ left - 1 < 0 \/ n \in visiting
        THEN Refused(left - 1)
        ELSE CASE node.kind = "scalar" -> Decoded(Text(node.text), left - 1)
               [] node.kind = "sequence" ->
                     DecodeItems(doc, node.items, depth + 1, above, left - 1)
               [] node.kind = "mapping" ->
                     DecodePairs(doc, node.pairs, depth + 1, above, left - 1)
               [] OTHER -> Refused(left - 1)

\* yamlMap: the root must be a mapping.
YamlMap(doc) ==
    LET r == Decode(doc, 1, 0, {}, Budget)
    IN  IF r.ok /\ r.value.is = "map" THEN r ELSE Refused(r.left)

-----------------------------------------------------------------------------
(***************************************************************************)
(* The reference: which documents are fine, and what a key means in one.   *)
(***************************************************************************)
Children(node) ==
    CASE node.kind = "sequence" -> node.items
      [] node.kind = "mapping" ->
            FoldLeft(LAMBDA acc, p : acc \o <<p[1], p[2]>>, <<>>, node.pairs)
      [] OTHER -> <<>>

\* The nodes below n, by at most k arcs.
RECURSIVE Below(_, _, _)
Below(doc, n, k) ==
    IF k = 0 THEN {}
    ELSE LET next == {Children(doc[n])[i] : i \in 1..Len(Children(doc[n]))}
         IN  next \cup UNION {Below(doc, m, k - 1) : m \in next}

Reachable(doc) == {1} \cup Below(doc, 1, Len(doc))
Acyclic(doc) == \A n \in Reachable(doc) : n \notin Below(doc, n, Len(doc))

\* The size and the height of the tree that an acyclic document stands for.
RECURSIVE Size(_, _)
Size(doc, n) ==
    FoldLeft(LAMBDA acc, m : acc + Size(doc, m), 1, Children(doc[n]))

RECURSIVE Height(_, _)
Height(doc, n) ==
    FoldLeft(LAMBDA acc, m : IF Height(doc, m) + 1 > acc
                             THEN Height(doc, m) + 1 ELSE acc,
             0, Children(doc[n]))

Sources(doc, n) == IF doc[n].kind = "sequence" THEN doc[n].items ELSE <<n>>

\* Keys are texts and distinct, merge keys lead to mappings.
Shaped(doc, n) ==
    /\ doc[n].kind # "foreign"
    /\ doc[n].kind = "mapping" =>
          LET ps == doc[n].pairs
          IN  \A i \in 1..Len(ps) :
                 /\ doc[ps[i][1]].kind = "scalar"
                 /\ \A j \in 1..(i - 1) :
                       doc[ps[j][1]].text # doc[ps[i][1]].text
                 /\ doc[ps[i][1]].text = MergeKey =>
                       \A s \in 1..Len(Sources(doc, ps[i][2])) :
                          doc[Sources(doc, ps[i][2])[s]].kind = "mapping"

Fine(doc) ==
    /\ doc[1].kind = "mapping"
    /\ Acyclic(doc) /\ \A n \in Reachable(doc) : Shaped(doc, n)
    /\ Size(doc, 1) <= Budget /\ Height(doc, 1) <= MaxDepth

\* The value nodes that key k may have in mapping n, best first: its own, then
\* those of the mappings it merges, in their order.
RECURSIVE Meanings(_, _, _)
Meanings(doc, n, k) ==
    LET ps == doc[n].pairs
        own == FoldLeft(LAMBDA acc, p : IF doc[p[1]].text = k
                                        THEN Append(acc, p[2]) ELSE acc,
                        <<>>, ps)
        merged == FoldLeft(LAMBDA acc, p :
                              IF doc[p[1]].text = MergeKey
                              THEN acc \o Sources(doc, p[2]) ELSE acc,
                           <<>>, ps)
    IN  own \o FoldLeft(LAMBDA acc, m : acc \o Meanings(doc, m, k), <<>>, merged)
=============================================================================
