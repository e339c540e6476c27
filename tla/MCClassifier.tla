---------------------------- MODULE MCClassifier ----------------------------
(***************************************************************************)
(* Small instances of Classifier for TLC: responses that differ in what    *)
(* names the failure, in the error object or at the root, and responses of *)
(* one quota and one rate limit that differ in their signals.              *)
(***************************************************************************)
EXTENDS Classifier

CONSTANTS Statuses, Names

Messages == {{}, {"other"}, {"quota", "exceeded"}, {"quota", "other"},
             {"usage limit", "reached"},
             {"quota", "exceeded", "rate limit"},
             {"usage limit", "exhausted", "per minute"}}

\* At every limit of relativeReset and absoluteReset, and beside it.
Numbers == {-1, 0, 1, 3, 4, 7, 8, 10, 11, 13, 14, 15, 16, 31, 32, 33, 42, 43,
            54, 55, 63, 64}

Values == {[form |-> "number", n |-> n] : n \in Numbers}
          \cup {[form |-> "duration", n |-> n] : n \in {-1, 0, 1, 3, 4}}
          \cup {[form |-> "date", n |-> n] : n \in {41, 42, 43, 54, 55}}
          \cup {[form |-> "junk", n |-> 0]}

\* The sum of a message's parts is a number that is not negative.
Found == {s \in [source : Sources, value : Values] :
             s.source = "body_message" =>
                s.value.form \in {"number", "junk"} /\ s.value.n >= 0}

\* withReset looks at the header first, then at the body scope by scope.
SignalLists ==
    {sg \in UNION {[1..k -> Found] : k \in 0..2} :
        \A i \in 2..Len(sg) : sg[i].source # "retry_after_header"}

Plain == [status |-> 429, errType |-> "", rootType |-> "", errCode |-> "",
          rootCode |-> "", errMessage |-> {}, rootMessage |-> {},
          signals |-> <<>>]

MCResponses ==
    {[Plain EXCEPT !.status = st, !.errType = et, !.errCode = ec,
                   !.rootType = root[1], !.rootCode = root[2],
                   !.errMessage = em, !.rootMessage = m] :
        st \in Statuses, et \in Names, ec \in Names, m \in Messages,
        root \in {<<"", "">>, <<GoName, "">>,
                  <<"creditserror", "rate_limit_error">>},
        em \in {{}, {"other"}}}
    \cup {[Plain EXCEPT !.errCode = ec, !.signals = sg] :
             ec \in {"quota_exceeded", "rate_limit_error"}, sg \in SignalLists}
=============================================================================
