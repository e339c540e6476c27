----------------------------- MODULE ConfigFile -----------------------------
(***************************************************************************)
(* The reader with its decoder: what readConfiguration may rely on when    *)
(* yamlMap has accepted the file.  An instance gives Parse the value       *)
(* YamlMap.                                                                *)
(***************************************************************************)
EXTENDS ConfigReader, YAMLDecoder

\* yamlMap accepts exactly the documents without cycles, with distinct text
\* keys and mergeable merges, whose expansion is within budget and depth,
\* however their nodes are shared; and it never visits more nodes than its
\* budget and one, also in a document that would expand without end.
DecodedIffFine ==
    at > 0 \/ result # "" => /\ decoded.ok <=> Fine(document)
                             /\ decoded.left >= -1

\* What decode finds under a key is what the mapping itself says, or else the
\* first of the mappings it merges that has the key, through any number of
\* merges.
MergesInOrder ==
    decoded.ok =>
        \A n \in 1..Len(document) :
           document[n].kind = "scalar" /\ document[n].text # MergeKey =>
              LET k == document[n].text
                  ms == Meanings(document, 1, k)
                  m == decoded.value.of
              IN  IF ms = <<>> THEN k \notin DOMAIN m
                  ELSE /\ k \in DOMAIN m
                       /\ m[k] = Decode(document, ms[1], 0, {}, Budget).value
=============================================================================
