--------------------------- MODULE MCConfigReader ---------------------------
(***************************************************************************)
(* Small instances of ConfigFile for TLC.                                  *)
(***************************************************************************)
EXTENDS ConfigFile

\* Two keys share a digest, and a third one that of an empty provider.
MCDigest(key, proxy) ==
    CASE key = "k3" -> "d0"
      [] proxy = "socks5://proxy" -> "d2"
      [] OTHER -> "d1"

Key(k, p) == [key |-> k, proxy |-> p, malformed |-> FALSE]

Entries == {Key("k1", ""), Key("k2", ""), Key("k2", "socks5://proxy"),
            Key("k3", ""), Key("", ""), Key("${key}", ""),
            Key("k1", "ftp://proxy"),
            [key |-> "k1", proxy |-> "", malformed |-> TRUE]}

EntryLists == UNION {[1..k -> Entries] : k \in 0..2}
              \cup {<<Key("k1", ""), Key("k2", ""), Key("k3", "")>>}

Named(name, base, off, es, bad) ==
    [name |-> name, base |-> base, off |-> off, entries |-> es,
     malformed |-> bad]

Others == {Named("zen", "zen", FALSE, <<Key("k3", "")>>, "no"),
           Named("other", "other", FALSE, <<Key("k1", ""), Key("k1", "")>>,
                    "managed"),
           Named("", "other", FALSE, <<>>, "no"),
           Named("", "other", TRUE, <<Key("", "")>>, "head")}

Tables ==
    LET zens == {Named("zen", base, off, es, bad) : base \in {"zen", "other"},
                    off \in BOOLEAN, es \in EntryLists,
                    bad \in {"no", "managed"}}
    IN  {<<>>} \cup {<<p>> : p \in zens}
        \cup {<<p, q>> : p \in zens, q \in Others}
        \cup {<<q, p>> : p \in zens, q \in Others}


\* Nodes 4 to 6 are texts, two keys and the merge key; 7 has a foreign tag, and
\* 8 is one more mapping.
Rest == <<Scalar("a"), Scalar("b"), Scalar(MergeKey), Foreign,
          Mapping(<<<<4, 5>>>>)>>
Pairs(ks, vs) == {<<k, v>> : k \in ks, v \in vs}
Lists(S, k) == UNION {[1..i -> S] : i \in 0..k}

Documents ==
    {<<n1, n2, n3>> \o Rest :
        n1 \in {Mapping(ps) : ps \in Lists(Pairs({3, 4, 5, 6}, {1, 2, 3, 5}), 2)},
        n2 \in {Mapping(ps) : ps \in Lists(Pairs({4, 5, 6}, {1, 3, 4}), 1)}
               \cup {Sequence(s) : s \in Lists({2, 3, 7, 8}, 2)},
        n3 \in {Mapping(ps) : ps \in Lists(Pairs({4, 6}, {2, 4, 5}), 1)}
               \cup {Sequence(s) : s \in Lists({2, 4}, 1)}}
    \cup {<<Scalar("a")>>, <<Sequence(<<>>)>>, <<Foreign>>}

\* Documents without providers, and providers under a document that is fine.
MCInputs ==
    {[documents |-> Documents, providers |-> {<<>>}, disabled |-> {{}}],
     [documents |-> {<<Mapping(<<>>)>>}, providers |-> Tables,
      disabled |-> {{}, {Fingerprint("k1")}}]}
=============================================================================
