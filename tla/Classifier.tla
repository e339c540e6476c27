----------------------------- MODULE Classifier -----------------------------
(***************************************************************************)
(* classify (classifier.go): what the status, the body and the headers of  *)
(* a response say about the account that paid for it, and until when.      *)
(*                                                                         *)
(* Texts are abstracted to what the code asks of them: an error type or    *)
(* code is one of the names it compares with, normalized; a message is the *)
(* set of phrases it contains; a reset value is a number, a Go duration, a *)
(* date or neither.  Times are in ticks of a millisecond, so that the      *)
(* seconds and the milliseconds that absoluteReset tells apart are both    *)
(* exact; the real limits are far beyond TLC's integers and are CONSTANTS. *)
(* The loops of withReset are steps, one per signal that it comes by.      *)
(***************************************************************************)
EXTENDS Integers, Sequences

CONSTANTS
    Milli,     \* ticks in a second (1000)
    Year,      \* the longest reset ahead, in seconds (366 days)
    EpochMin,  \* the least number of seconds that is a date (1e9)
    EpochMax,  \* the least that is not any more (1e11)
    Fallback,  \* fallback-cooldown, in seconds
    Now,       \* the observed time, in ticks
    Responses  \* the responses that are classified

ASSUME LimitsAssumption ==
    /\ {Milli, Year, EpochMin, EpochMax, Fallback, Now} \subseteq Nat \ {0}
    /\ Year < EpochMin /\ EpochMin < EpochMax /\ EpochMax < EpochMin * Milli
    /\ Fallback <= Year

\* The places that withReset looks at, and what it may find there.
Sources == {"retry_after_header", "body_duration", "body_timestamp",
            "body_message"}
Signal == [source : Sources,
           value : [form : {"number", "duration", "date", "junk"}, n : Int]]

ASSUME ResponsesAssumption ==
    \A r \in Responses : r.status \in Int /\ r.signals \in Seq(Signal)

-----------------------------------------------------------------------------
(***************************************************************************)
(* Reset signals.                                                          *)
(***************************************************************************)

\* relativeReset: a moment, or 0 for time.Time{} and false.  A number out of
\* range is not tried as a duration, and no duration is a number.
RelativeReset(v) ==
    IF v.form \in {"number", "duration"} /\ v.n > 0 /\ v.n <= Year
    THEN Now + v.n * Milli ELSE 0

\* The moment absoluteReset reads out of a value: a date, or a number of
\* milliseconds or seconds since the epoch.
Moment(v) ==
    CASE v.form = "date" -> v.n
      [] v.form = "number" /\ v.n > EpochMin * Milli ->
            IF v.n < EpochMax * Milli THEN v.n ELSE 0
      [] v.form = "number" /\ v.n <= EpochMin * Milli ->
            IF v.n \in EpochMin..(EpochMax - 1) THEN v.n * Milli ELSE 0
      [] OTHER -> 0

\* Mutant: a reset further ahead than a year is believed.
AbsoluteResetUnbounded(v) == IF Moment(v) > Now THEN Moment(v) ELSE 0

\* absoluteReset: after now and within the year.
AbsoluteReset(v) ==
    IF Moment(v) > Now /\ Moment(v) <= Now + Year * Milli THEN Moment(v) ELSE 0

\* What one signal says: Retry-After is tried both ways.
SignalReset(s) ==
    CASE s.source = "retry_after_header" ->
            IF RelativeReset(s.value) # 0 THEN RelativeReset(s.value)
            ELSE AbsoluteReset(s.value)
      [] s.source = "body_timestamp" -> AbsoluteReset(s.value)
      [] OTHER -> RelativeReset(s.value)

\* Mutant: the last valid signal wins.
AddLast(acc, t, source) ==
    IF t # 0 THEN [acc EXCEPT !.Until = t, !.ResetSource = source] ELSE acc

\* add, in withReset.
Add(acc, t, source) ==
    IF t > acc.Until THEN [acc EXCEPT !.Until = t, !.ResetSource = source]
    ELSE acc

Classification(kind) ==
    [Kind |-> kind, Until |-> 0, ResetSource |-> "", FallbackReason |-> ""]

-----------------------------------------------------------------------------
(***************************************************************************)
(* The decision.                                                           *)
(***************************************************************************)
ZenQuotaTypes == {"creditserror", "monthlylimiterror", "userlimiterror",
                  "freeusagelimiterror", "blackusagelimiterror"}
RateNames == {"ratelimiterror", "rate_limit_error", "rate_limit_exceeded",
              "requests_per_minute", "tokens_per_minute",
              "concurrency_limit_exceeded"}
QuotaNames == {"insufficient_quota", "quota_exceeded", "quota_exhausted",
               "usage_limit_exceeded", "usage_limit_reached"}
GoName == "gousagelimiterror"

Explicit(message) ==
    /\ message \cap {"quota", "usage limit"} # {}
    /\ message \cap {"exhausted", "exceeded", "depleted", "reached"} # {}
    /\ message \cap {"rate limit", "per minute", "per second", "concurren"} = {}

\* The error object comes before the root.  A name that is not there is "", a
\* message {}; rootMessage is root.message or else root.error as a text.
First(a, b) == IF a # "" THEN a ELSE b
FirstMessage(a, b) == IF a # {} THEN a ELSE b

\* Mutant: the generic quota names are looked at first.
Classify429QuotaFirst(typ, code, message) ==
    IF typ \in QuotaNames \/ code \in QuotaNames \/ Explicit(message)
    THEN "quota" ELSE "rate_limit"

\* A 429 without one of Zen's quota types: the name of a rate limit comes
\* before that of a quota.
Classify429(typ, code, message) ==
    IF typ \in RateNames \/ code \in RateNames THEN "rate_limit"
    ELSE IF typ \in QuotaNames \/ code \in QuotaNames \/ Explicit(message)
    THEN "quota" ELSE "rate_limit"

Classify(r) ==
    LET typ == First(r.errType, r.rootType)
        code == First(r.errCode, r.rootCode)
        message == FirstMessage(r.errMessage, r.rootMessage)
    IN  IF r.status \in 200..299 THEN "success"
        ELSE IF typ = GoName \/ code = GoName THEN "failure"
        ELSE IF r.status \in {401, 402, 429} /\ typ \in ZenQuotaTypes
        THEN "quota"
        ELSE IF r.status = 429 THEN Classify429(typ, code, message)
        ELSE IF r.status \in {401, 403} THEN "auth"
        ELSE IF r.status >= 500 \/ r.status = 0 THEN "transient"
        ELSE "failure"

-----------------------------------------------------------------------------
(***************************************************************************)
(* One response, from classify to the end of withReset.                    *)
(***************************************************************************)
VARIABLES
    about,    \* the response
    verdict,  \* c, the classification
    pos       \* 0 in classify, then the signal withReset comes to

vars == <<about, verdict, pos>>

Signals == about.signals
Judged == pos = Len(Signals) + 2  \* classify has returned

Init == about \in Responses /\ verdict = Classification("") /\ pos = 0

\* Only quotas and rate limits have a reset.
Judge ==
    /\ pos = 0
    /\ verdict' = Classification(Classify(about))
    /\ pos' = IF verdict'.Kind \in {"quota", "rate_limit"} THEN 1
              ELSE Len(Signals) + 2
    /\ UNCHANGED about

\* Messages are read for quotas only.
Heard(s) == s.source # "body_message" \/ verdict.Kind = "quota"

Hear ==
    /\ pos \in 1..Len(Signals)
    /\ LET s == Signals[pos]
       IN  verdict' = IF Heard(s) THEN Add(verdict, SignalReset(s), s.source)
                      ELSE verdict
    /\ pos' = pos + 1
    /\ UNCHANGED about

\* The end of withReset: rate limits have no fallback, and a message does not
\* count as an attempt.
FallBack ==
    /\ pos = Len(Signals) + 1
    /\ LET attempted == \E i \in 1..Len(Signals) :
                           Signals[i].source # "body_message"
       IN  verdict' = IF verdict.Until = 0 /\ verdict.Kind = "quota"
                      THEN [verdict EXCEPT
                              !.Until = Now + Fallback * Milli,
                              !.ResetSource = "fallback",
                              !.FallbackReason = IF attempted
                                                 THEN "invalid_or_expired_reset"
                                                 ELSE "no_reset_provided"]
                      ELSE verdict
    /\ pos' = pos + 1
    /\ UNCHANGED about

Next == Judge \/ Hear \/ FallBack

Spec == Init /\ [][Next]_vars

-----------------------------------------------------------------------------
(***************************************************************************)
(* Properties: against what the README says of quotas and resets.          *)
(***************************************************************************)
\* Every moment a signal may mean, whatever it is read as.
Readings(s) ==
    LET v == s.value
        relative == {Now + v.n * Milli}
        absolute == IF v.form = "date" THEN {v.n}
                    ELSE {x \in {v.n * Milli} : v.n \in EpochMin..(EpochMax - 1)}
                         \cup {x \in {v.n} : /\ v.n > EpochMin * Milli
                                             /\ v.n < EpochMax * Milli}
    IN  CASE v.form = "junk" -> {}
          [] v.form = "duration" ->
                IF s.source = "body_timestamp" THEN {} ELSE relative
          [] v.form = "date" ->
                IF s.source \in {"retry_after_header", "body_timestamp"}
                THEN absolute ELSE {}
          [] v.form = "number" ->
                CASE s.source = "retry_after_header" -> relative \cup absolute
                  [] s.source = "body_timestamp" -> absolute
                  [] OTHER -> relative

Ahead == {m \in UNION {Readings(Signals[i]) :
                          i \in {j \in 1..Len(Signals) : Heard(Signals[j])}} :
             m > Now /\ m <= Now + Year * Milli}

\* withReset takes the latest of the moments that the signals name and that
\* lie ahead and within a year, however many of the signals are zero,
\* negative, past, too far, in seconds or in milliseconds; a quota without one
\* gets the fallback, and says so, a rate limit without one gets none.
LatestResetWins ==
    Judged /\ verdict.Kind \in {"quota", "rate_limit"}
      => IF Ahead # {}
         THEN verdict.Until \in Ahead /\ \A m \in Ahead : m <= verdict.Until
              /\ verdict.ResetSource \in Sources
         ELSE IF verdict.Kind = "quota"
         THEN /\ verdict.Until = Now + Fallback * Milli
              /\ verdict.ResetSource = "fallback"
         ELSE verdict.Until = 0

\* What Observe builds on: a cooldown by quota never ends before the observed
\* time or more than a year after it, and only quotas and rate limits have one.
ResetWithinYear ==
    Judged => \/ verdict.Until \in Now..(Now + Year * Milli)
              \/ verdict.Until = 0 /\ verdict.Kind # "quota"

Named(ns) == \/ First(about.errType, about.rootType) \in ns
             \/ First(about.errCode, about.rootCode) \in ns

\* Only a confirmed quota moves the pool for long: never a generic 401 or 403,
\* never Go's own limit, never a 429 that names a rate limit or says nothing,
\* and conversely each of Zen's quota types does, as long as the status is one
\* that Zen uses for it.
QuotaIsConfirmed ==
    Judged =>
      (verdict.Kind = "quota" <=>
        /\ ~Named({GoName})
        /\ \/ /\ about.status \in {401, 402, 429}
              /\ First(about.errType, about.rootType) \in ZenQuotaTypes
           \/ /\ about.status = 429 /\ ~Named(RateNames)
              /\ \/ Named(QuotaNames)
                 \/ Explicit(FirstMessage(about.errMessage,
                                          about.rootMessage)))
=============================================================================
