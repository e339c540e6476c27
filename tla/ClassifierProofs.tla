-------------------------- MODULE ClassifierProofs --------------------------
(***************************************************************************)
(* Theorems about Classifier, for every response, any number of signals    *)
(* and all limits in the order of the code's.                              *)
(***************************************************************************)
EXTENDS Classifier, TLAPS

\* A product with a positive factor keeps the order.
LEMMA ProductOrder ==
    ASSUME NEW a \in Int, NEW b \in Int, NEW c \in Int, c > 0
    PROVE  /\ a * c \in Int
           /\ a > 0 <=> a * c > 0
           /\ a <= b <=> a * c <= b * c
<1>1. a * c \in Int
  OBVIOUS
<1>2. a > 0 <=> a * c > 0
  BY Z3
<1>3. a <= b <=> a * c <= b * c
  BY Z3
<1> QED
  BY <1>1, <1>2, <1>3

\* The limits are positive numbers.
LEMMA Limits ==
    /\ Milli \in Int /\ Year \in Int /\ EpochMin \in Int /\ EpochMax \in Int
    /\ Fallback \in Int /\ Now \in Int
    /\ Milli > 0 /\ Year > 0 /\ EpochMin > 0 /\ Fallback > 0 /\ Now > 0
    /\ Year < EpochMin /\ EpochMin < EpochMax /\ EpochMax < EpochMin * Milli
    /\ Fallback <= Year
  BY LimitsAssumption

\* Between the observed time and a year after it.
Within(m) == m > Now /\ m <= Now + Year * Milli

-----------------------------------------------------------------------------
(***************************************************************************)
(* One signal.  The readings of a value exclude each other within the      *)
(* year: no number is both a duration within it and a date, nor a date in  *)
(* seconds and in milliseconds.                                            *)
(***************************************************************************)

\* relativeReset finds the one reading of a number or duration that is within
\* the year.
LEMMA RelativeReads ==
    ASSUME NEW v, v.n \in Int, v.form \in {"number", "duration"}
    PROVE  /\ Now + v.n * Milli \in Int
           /\ v.n > 0 /\ v.n <= Year <=> Within(Now + v.n * Milli)
           /\ RelativeReset(v) = IF Within(Now + v.n * Milli)
                                 THEN Now + v.n * Milli ELSE 0
<1>1. v.n * Milli \in Int /\ Year * Milli \in Int
  BY Limits, ProductOrder
<1>2. v.n > 0 /\ v.n <= Year <=> v.n * Milli > 0 /\ v.n * Milli <= Year * Milli
  BY Limits, ProductOrder
<1>3. v.n > 0 /\ v.n <= Year <=> Within(Now + v.n * Milli)
  BY <1>1, <1>2, Limits DEF Within
<1> QED
  BY <1>1, <1>3, Limits DEF RelativeReset

\* Every moment that absoluteReset may mean.
Dates(v) == IF v.form = "date" THEN {v.n}
            ELSE {x \in {v.n * Milli} : v.n \in EpochMin..(EpochMax - 1)}
                 \cup {x \in {v.n} : /\ v.n > EpochMin * Milli
                                     /\ v.n < EpochMax * Milli}

\* absoluteReset finds the one date within the year.
LEMMA AbsoluteReads ==
    ASSUME NEW v, v.n \in Int, v.form \in {"number", "date"}
    PROVE  /\ AbsoluteReset(v) = 0 \/ Within(AbsoluteReset(v))
           /\ AbsoluteReset(v) \in Int
           /\ \A m : m \in Dates(v) /\ Within(m)
                       <=> m = AbsoluteReset(v) /\ AbsoluteReset(v) # 0
<1>1. /\ v.n * Milli \in Int /\ Year * Milli \in Int
      /\ EpochMin * Milli \in Int /\ EpochMax * Milli \in Int
  BY Limits, ProductOrder
<1>2. CASE v.form = "date"
  <2>1. Moment(v) = v.n
    BY <1>2 DEF Moment
  <2> QED
    BY <1>1, <1>2, <2>1, Limits DEF AbsoluteReset, Dates, Within
<1>3. CASE v.form = "number" /\ v.n > EpochMin * Milli
  <2>1. Moment(v) = IF v.n < EpochMax * Milli THEN v.n ELSE 0
    BY <1>1, <1>3 DEF Moment
  <2>2. v.n \notin EpochMin..(EpochMax - 1)
    BY <1>1, <1>3, Limits
  <2> QED
    BY <1>1, <1>3, <2>1, <2>2, Limits DEF AbsoluteReset, Dates, Within
<1>4. CASE v.form = "number" /\ v.n <= EpochMin * Milli
  <2>1. Moment(v) = IF v.n \in EpochMin..(EpochMax - 1) THEN v.n * Milli ELSE 0
    BY <1>1, <1>4 DEF Moment
  <2> QED
    BY <1>1, <1>4, <2>1, Limits DEF AbsoluteReset, Dates, Within
<1> QED
  BY <1>1, <1>2, <1>3, <1>4

\* What a signal says is the one of its readings that is within the year, or
\* nothing.
LEMMA SignalReads ==
    ASSUME NEW s \in Signal
    PROVE  /\ SignalReset(s) \in Int
           /\ SignalReset(s) = 0 \/ Within(SignalReset(s))
           /\ \A m : m \in Readings(s) /\ Within(m)
                       <=> m = SignalReset(s) /\ SignalReset(s) # 0
<1> DEFINE v == s.value
<1>1. /\ v.n \in Int /\ v.form \in {"number", "duration", "date", "junk"}
      /\ s.source \in Sources
  BY DEF Signal
<1>2. Year * Milli \in Int /\ EpochMin <= EpochMin * Milli
  BY Limits, ProductOrder
<1>3. ~Within(0)
  BY Limits DEF Within
<1>4. CASE v.form = "junk"
  <2>1. RelativeReset(v) = 0 /\ AbsoluteReset(v) = 0 /\ Readings(s) = {}
    BY <1>1, <1>2, <1>4, Limits DEF RelativeReset, AbsoluteReset, Moment, Readings
  <2> QED
    BY <1>1, <2>1 DEF SignalReset, Sources
<1>5. CASE v.form = "duration"
  <2>1. AbsoluteReset(v) = 0
    BY <1>2, <1>5, Limits DEF AbsoluteReset, Moment
  <2>2. Readings(s) = IF s.source = "body_timestamp" THEN {}
                      ELSE {Now + v.n * Milli}
    BY <1>5 DEF Readings
  <2>3. SignalReset(s) = IF s.source = "body_timestamp" THEN 0
                         ELSE RelativeReset(v)
    BY <1>1, <2>1 DEF SignalReset, Sources
  <2> QED
    BY <1>1, <1>3, <1>5, <2>2, <2>3, RelativeReads, Limits
<1>6. CASE v.form = "date"
  <2>1. RelativeReset(v) = 0
    BY <1>6 DEF RelativeReset
  <2>2. Readings(s) = IF s.source \in {"retry_after_header", "body_timestamp"}
                      THEN Dates(v) ELSE {}
    BY <1>6 DEF Readings, Dates
  <2>3. SignalReset(s) = IF s.source \in {"retry_after_header", "body_timestamp"}
                         THEN AbsoluteReset(v) ELSE 0
    BY <1>1, <2>1 DEF SignalReset, Sources
  <2> QED
    BY <1>1, <1>3, <1>6, <2>2, <2>3, AbsoluteReads
<1>7. CASE v.form = "number"
  <2>1. CASE s.source = "retry_after_header"
    <3>1. Readings(s) = {Now + v.n * Milli} \cup Dates(v)
      BY <1>7, <2>1 DEF Readings, Dates
    <3>2. SignalReset(s) = IF RelativeReset(v) # 0 THEN RelativeReset(v)
                           ELSE AbsoluteReset(v)
      BY <2>1 DEF SignalReset
    <3>3. CASE v.n > 0 /\ v.n <= Year
      <4>1. Dates(v) = {}
        BY <1>1, <1>2, <1>7, <3>3, Limits DEF Dates
      <4>2. RelativeReset(v) = Now + v.n * Milli /\ RelativeReset(v) # 0
        BY <1>1, <1>3, <1>7, <3>3, RelativeReads
      <4> QED
        BY <1>1, <1>7, <3>1, <3>2, <3>3, <4>1, <4>2, RelativeReads
    <3>4. CASE ~(v.n > 0 /\ v.n <= Year)
      <4>1. RelativeReset(v) = 0 /\ ~Within(Now + v.n * Milli)
        BY <1>1, <1>7, <3>4, RelativeReads
      <4> QED
        BY <1>1, <1>7, <3>1, <3>2, <4>1, AbsoluteReads
    <3> QED
      BY <3>3, <3>4
  <2>2. CASE s.source = "body_timestamp"
    <3>1. Readings(s) = Dates(v)
      BY <1>7, <2>2 DEF Readings, Dates
    <3>2. SignalReset(s) = AbsoluteReset(v)
      BY <2>2 DEF SignalReset
    <3> QED
      BY <1>1, <1>7, <3>1, <3>2, AbsoluteReads
  <2>3. CASE s.source \in {"body_duration", "body_message"}
    <3>1. Readings(s) = {Now + v.n * Milli}
      BY <1>7, <2>3 DEF Readings
    <3>2. SignalReset(s) = RelativeReset(v)
      BY <2>3 DEF SignalReset
    <3> QED
      BY <1>1, <1>3, <1>7, <3>1, <3>2, RelativeReads, Limits
  <2> QED
    BY <1>1, <2>1, <2>2, <2>3 DEF Sources
<1> QED
  BY <1>1, <1>4, <1>5, <1>6, <1>7
-----------------------------------------------------------------------------
(***************************************************************************)
(* The loop.                                                               *)
(***************************************************************************)

\* The verdict's reset is the latest of those of the first k signals.
LatestOf(k) ==
    \/ /\ verdict.Until = 0
       /\ \A i \in 1..k : Heard(Signals[i]) => SignalReset(Signals[i]) = 0
    \/ /\ \E i \in 1..k : /\ Heard(Signals[i])
                          /\ verdict.Until = SignalReset(Signals[i])
                          /\ SignalReset(Signals[i]) # 0
       /\ verdict.ResetSource \in Sources
       /\ \A i \in 1..k : Heard(Signals[i])
                            => SignalReset(Signals[i]) <= verdict.Until

Kinds == {"", "success", "failure", "quota", "rate_limit", "auth", "transient"}
ResetSources == Sources \cup {"", "fallback"}
Reasons == {"", "invalid_or_expired_reset", "no_reset_provided"}
Verdict == [Kind : Kinds, Until : Int, ResetSource : ResetSources,
            FallbackReason : Reasons]

Typed == about \in Responses /\ verdict \in Verdict /\ pos \in 0..(Len(Signals) + 2)

\* The kind stays what classify decided on, and is one with a reset wherever
\* withReset looks for one.
Decided ==
    /\ pos > 0 => verdict.Kind = Classify(about)
    /\ pos \in 1..(Len(Signals) + 1) =>
          verdict.Kind \in {"quota", "rate_limit"} /\ LatestOf(pos - 1)

\* What withReset returns: the latest, or else the fallback of a quota.
Settled ==
    Judged =>
      IF verdict.Kind \in {"quota", "rate_limit"}
      THEN \/ verdict.Until # 0 /\ LatestOf(Len(Signals))
           \/ /\ \A i \in 1..Len(Signals) :
                    Heard(Signals[i]) => SignalReset(Signals[i]) = 0
              /\ IF verdict.Kind = "quota"
                 THEN /\ verdict.Until = Now + Fallback * Milli
                      /\ verdict.ResetSource = "fallback"
                 ELSE verdict.Until = 0
      ELSE verdict.Until = 0

Inv == Typed /\ Decided /\ Settled

LEMMA KindType == \A r : Classify(r) \in Kinds
  BY DEF Classify, Classify429, Kinds

LEMMA ClassificationType ==
    ASSUME NEW k \in Kinds
    PROVE  Classification(k) \in Verdict
<1>1. PICK e : e = ""
  OBVIOUS
<1>2. e \in ResetSources /\ e \in Reasons
  BY <1>1 DEF ResetSources, Reasons
<1>3. [Kind |-> k, Until |-> 0, ResetSource |-> e, FallbackReason |-> e] \in Verdict
  BY <1>2 DEF Verdict
<1> QED
  BY <1>1, <1>3 DEF Classification

LEMMA SignalsTyped ==
    ASSUME Typed
    PROVE  /\ Signals \in Seq(Signal) /\ Len(Signals) \in Nat
           /\ \A i \in 1..Len(Signals) : Signals[i] \in Signal
  BY ResponsesAssumption DEF Typed, Signals

LEMMA InitInv == Init => Inv
<1> SUFFICES ASSUME Init PROVE Inv
  OBVIOUS
<1>1. about.signals \in Seq(Signal)
  BY ResponsesAssumption DEF Init
<1>2. Len(Signals) \in Nat
  BY <1>1 DEF Signals
<1>3. PICK e : e = ""
  OBVIOUS
<1>4. e \in Kinds
  BY <1>3 DEF Kinds
<1>5. about \in Responses /\ verdict = Classification(e) /\ pos = 0
  BY <1>3 DEF Init
<1>6. Typed
  BY <1>2, <1>4, <1>5, ClassificationType DEF Typed
<1>7. Decided /\ Settled
  BY <1>2, <1>5 DEF Decided, Settled, Judged
<1> QED
  BY <1>6, <1>7 DEF Inv

LEMMA JudgeInv == ASSUME Inv, Judge PROVE Inv'
<1>1. Len(Signals) \in Nat
  BY SignalsTyped DEF Inv
<1>2. /\ Signals' = Signals /\ about' = about /\ about \in Responses
      /\ verdict' = Classification(Classify(about))
      /\ verdict'.Kind = Classify(about) /\ verdict'.Until = 0
      /\ pos' = IF verdict'.Kind \in {"quota", "rate_limit"} THEN 1
                ELSE Len(Signals) + 2
  BY DEF Judge, Signals, Inv, Typed, Classification
<1>3. Typed'
  BY <1>1, <1>2, KindType, ClassificationType DEF Typed
<1>4. Decided'
  BY <1>1, <1>2 DEF Decided, LatestOf
<1>5. Settled'
  BY <1>1, <1>2 DEF Settled, Judged
<1> QED
  BY <1>3, <1>4, <1>5 DEF Inv

LEMMA HearInv == ASSUME Inv, Hear PROVE Inv'
<1>1. /\ Len(Signals) \in Nat /\ Signals[pos] \in Signal
      /\ \A i \in 1..Len(Signals) : SignalReset(Signals[i]) \in Int
  BY SignalsTyped, SignalReads DEF Inv, Hear
<1> DEFINE s == Signals[pos]
<1>2. /\ Signals' = Signals /\ about' = about /\ about \in Responses
      /\ pos' = pos + 1 /\ pos \in 1..Len(Signals)
      /\ verdict' = IF Heard(s) THEN Add(verdict, SignalReset(s), s.source)
                    ELSE verdict
      /\ verdict \in Verdict
  BY DEF Hear, Signals, Inv, Typed
<1>3. s.source \in Sources /\ s.source \in ResetSources
  BY <1>1 DEF Signal, ResetSources
<1>4. verdict'.Kind = verdict.Kind /\ verdict' \in Verdict
  BY <1>1, <1>2, <1>3 DEF Add, Verdict
<1>5. Typed'
  BY <1>1, <1>2, <1>4 DEF Typed
<1>6. verdict.Kind = Classify(about) /\ verdict.Kind \in {"quota", "rate_limit"}
      /\ LatestOf(pos - 1)
  BY <1>1, <1>2 DEF Inv, Decided
<1>7. \A i : Heard(Signals[i])' <=> Heard(Signals[i])
  BY <1>2, <1>4 DEF Heard
<1>8. ASSUME NEW k, k = pos PROVE LatestOf(k)'
  <2>1. SignalReset(s) = 0 \/ SignalReset(s) > 0
    BY <1>1, SignalReads, Limits DEF Within
  <2>2. \A i \in 1..pos : i \in 1..(pos - 1) \/ i = pos
    BY <1>2
  <2>3. verdict.Until \in Int /\ (verdict.Until = 0 \/ verdict.Until > 0)
    <3>1. \A i \in 1..(pos - 1) :
             SignalReset(Signals[i]) = 0 \/ SignalReset(Signals[i]) > Now
      BY <1>1, <1>2, SignalsTyped, SignalReads DEF Within, Inv
    <3>2. verdict.Until = 0 \/ verdict.Until > Now
      BY <1>6, <3>1 DEF LatestOf
    <3> QED
      BY <1>2, <3>2, Limits DEF Verdict
  <2>4. CASE Heard(s) /\ SignalReset(s) > verdict.Until
    <3>1. verdict'.Until = SignalReset(s) /\ verdict'.ResetSource = s.source
      BY <1>2, <2>4 DEF Add, Verdict
    <3>2. \A i \in 1..(pos - 1) : Heard(Signals[i])
                                    => SignalReset(Signals[i]) <= verdict.Until
      BY <1>1, <1>2, <1>6, <2>3 DEF LatestOf
    <3>3. SignalReset(s) # 0
      BY <2>3, <2>4
    <3>4. \A i \in 1..pos : Heard(Signals[i])
                              => SignalReset(Signals[i]) <= SignalReset(s)
      BY <1>1, <1>2, <2>2, <2>3, <2>4, <3>2
    <3>5. pos \in 1..k /\ Heard(Signals[pos]) /\ SignalReset(Signals[pos]) # 0
          /\ verdict'.Until = SignalReset(Signals[pos])
      BY <1>2, <1>8, <2>4, <3>1, <3>3
    <3> QED
      BY <1>2, <1>3, <1>7, <1>8, <3>1, <3>4, <3>5 DEF LatestOf
  <2>5. CASE ~(Heard(s) /\ SignalReset(s) > verdict.Until)
    <3>1. verdict' = verdict
      BY <1>2, <2>5 DEF Add
    <3>2. Heard(s) => SignalReset(s) <= verdict.Until
      BY <1>1, <1>2, <2>3, <2>5
    <3>3. Heard(s) /\ verdict.Until = 0 => SignalReset(s) = 0
      BY <1>1, <1>2, <2>1, <3>2
    <3> QED
      BY <1>2, <1>6, <1>7, <1>8, <2>2, <3>1, <3>2, <3>3 DEF LatestOf
  <2> QED
    BY <2>4, <2>5
<1>9. Decided'
  <2>1. PICK k : k = pos
    OBVIOUS
  <2>2. LatestOf(k)' /\ k = pos' - 1
    BY <1>2, <1>8, <2>1
  <2>3. LatestOf(pos - 1)'
    BY <2>2 DEF LatestOf
  <2> QED
    BY <1>2, <1>4, <1>6, <2>3 DEF Decided
<1>10. ~Judged'
  BY <1>1, <1>2 DEF Judged
<1> QED
  BY <1>5, <1>9, <1>10 DEF Inv, Settled

LEMMA FallBackInv == ASSUME Inv, FallBack PROVE Inv'
<1>1. Len(Signals) \in Nat
  BY SignalsTyped DEF Inv
<1>2. /\ Signals' = Signals /\ about' = about /\ about \in Responses
      /\ pos = Len(Signals) + 1 /\ pos' = Len(Signals) + 2 /\ verdict \in Verdict
  BY <1>1 DEF FallBack, Signals, Inv, Typed
<1>3. verdict.Kind = Classify(about) /\ verdict.Kind \in {"quota", "rate_limit"}
      /\ LatestOf(Len(Signals))
  BY <1>1, <1>2 DEF Inv, Decided
<1>4. Now + Fallback * Milli \in Int
  BY Limits, ProductOrder
<1>5. CASE verdict.Until = 0 /\ verdict.Kind = "quota"
  <2>1. /\ verdict'.Kind = verdict.Kind /\ verdict' \in Verdict
        /\ verdict'.Until = Now + Fallback * Milli
        /\ verdict'.ResetSource = "fallback"
    <3>1. /\ "fallback" \in ResetSources /\ "no_reset_provided" \in Reasons
          /\ "invalid_or_expired_reset" \in Reasons
      BY DEF ResetSources, Reasons
    <3> QED
      BY <1>2, <1>4, <1>5, <3>1 DEF FallBack, Verdict
  <2>2. \A i \in 1..Len(Signals) :
           Heard(Signals[i]) => SignalReset(Signals[i]) = 0
    BY <1>3, <1>5 DEF LatestOf
  <2> QED
    BY <1>1, <1>2, <1>3, <1>5, <2>1, <2>2
       DEF Inv, Typed, Decided, Settled, Judged, Heard
<1>6. CASE ~(verdict.Until = 0 /\ verdict.Kind = "quota")
  <2>1. verdict' = verdict
    BY <1>6 DEF FallBack
  <2>2. Typed' /\ Decided'
    BY <1>1, <1>2, <1>3, <2>1 DEF Typed, Decided
  <2>3. verdict.Until = 0 => \A i \in 1..Len(Signals) :
           Heard(Signals[i]) => SignalReset(Signals[i]) = 0
    BY <1>3 DEF LatestOf
  <2>4. \A i : Heard(Signals[i])' <=> Heard(Signals[i])
    BY <1>2, <2>1 DEF Heard
  <2>5. LatestOf(Len(Signals))'
    BY <1>2, <1>3, <2>1, <2>4 DEF LatestOf
  <2>6. Settled'
    BY <1>2, <1>3, <1>6, <2>1, <2>3, <2>4, <2>5 DEF Settled
  <2> QED
    BY <2>2, <2>6 DEF Inv
<1> QED
  BY <1>5, <1>6

\* Typed, Decided and Settled together are inductive.
LEMMA InvHolds == Spec => []Inv
<1>1. Inv /\ [Next]_vars => Inv'
  <2>1. ASSUME Inv, UNCHANGED vars PROVE Inv'
    BY <2>1 DEF vars, Inv, Typed, Decided, Settled, Judged, LatestOf, Signals, Heard
  <2> QED
    BY <2>1, JudgeInv, HearInv, FallBackInv DEF Next
<1> QED
  BY <1>1, InitInv, PTL DEF Spec

-----------------------------------------------------------------------------
(***************************************************************************)
(* The properties.                                                         *)
(***************************************************************************)

\* Ahead has exactly the resets that are heard.
LEMMA AheadIsHeard ==
    ASSUME Typed
    PROVE  \A m : m \in Ahead <=>
                    \E i \in 1..Len(Signals) :
                       /\ Heard(Signals[i])
                       /\ m = SignalReset(Signals[i]) /\ SignalReset(Signals[i]) # 0
<1>1. \A m : m \in Ahead <=>
               \E i \in 1..Len(Signals) :
                  Heard(Signals[i]) /\ m \in Readings(Signals[i]) /\ Within(m)
  BY DEF Ahead, Within
<1>2. \A i \in 1..Len(Signals) : \A m :
         m \in Readings(Signals[i]) /\ Within(m)
           <=> m = SignalReset(Signals[i]) /\ SignalReset(Signals[i]) # 0
  BY SignalsTyped, SignalReads
<1> QED
  BY <1>1, <1>2

\* For any number of signals in any order, the reset of a quota or a rate
\* limit is the latest moment that withReset may take from them, or else the
\* fallback of a quota.
THEOREM LatestWins == Spec => []LatestResetWins
<1>1. Inv => LatestResetWins
  <2> SUFFICES ASSUME Inv, Judged, verdict.Kind \in {"quota", "rate_limit"}
               PROVE  IF Ahead # {}
                      THEN verdict.Until \in Ahead
                           /\ \A m \in Ahead : m <= verdict.Until
                           /\ verdict.ResetSource \in Sources
                      ELSE IF verdict.Kind = "quota"
                      THEN /\ verdict.Until = Now + Fallback * Milli
                           /\ verdict.ResetSource = "fallback"
                      ELSE verdict.Until = 0
    BY DEF LatestResetWins
  <2>1. CASE verdict.Until # 0 /\ LatestOf(Len(Signals))
    <3>1. verdict.Until \in Ahead
      BY <2>1, AheadIsHeard DEF Inv, LatestOf
    <3>2. \A m \in Ahead : m <= verdict.Until
      BY <2>1, AheadIsHeard DEF Inv, LatestOf
    <3> QED
      BY <2>1, <3>1, <3>2 DEF LatestOf
  <2>2. CASE /\ \A i \in 1..Len(Signals) :
                   Heard(Signals[i]) => SignalReset(Signals[i]) = 0
             /\ IF verdict.Kind = "quota"
                THEN /\ verdict.Until = Now + Fallback * Milli
                     /\ verdict.ResetSource = "fallback"
                ELSE verdict.Until = 0
    <3>1. Ahead = {}
      BY <2>2, AheadIsHeard DEF Inv
    <3> QED
      BY <2>2, <3>1
  <2> QED
    BY <2>1, <2>2 DEF Inv, Settled
<1> QED
  BY <1>1, InvHolds, PTL

\* A cooldown by quota ends within the year after the observed time, and only
\* quotas and rate limits have one, whatever the response says.
THEOREM ResetsBounded == Spec => []ResetWithinYear
<1>1. Inv => ResetWithinYear
  <2> SUFFICES ASSUME Inv, Judged
               PROVE  \/ verdict.Until \in Now..(Now + Year * Milli)
                      \/ verdict.Until = 0 /\ verdict.Kind # "quota"
    BY DEF ResetWithinYear
  <2>1. /\ Year * Milli \in Int /\ Fallback * Milli \in Int
        /\ Fallback * Milli > 0 /\ Fallback * Milli <= Year * Milli
    BY Limits, ProductOrder
  <2>2. \A i \in 1..Len(Signals) :
           /\ SignalReset(Signals[i]) \in Int
           /\ SignalReset(Signals[i]) = 0 \/ Within(SignalReset(Signals[i]))
    BY SignalsTyped, SignalReads DEF Inv
  <2>3. CASE verdict.Until # 0 /\ LatestOf(Len(Signals))
    BY <2>1, <2>2, <2>3, Limits DEF LatestOf, Within
  <2>4. CASE verdict.Kind = "quota" /\ verdict.Until = Now + Fallback * Milli
    BY <2>1, <2>4, Limits
  <2>5. CASE verdict.Kind # "quota" /\ verdict.Until = 0
    BY <2>5
  <2> QED
    BY <2>3, <2>4, <2>5 DEF Inv, Settled
<1> QED
  BY <1>1, InvHolds, PTL

\* Whatever names and texts a response has, it is taken for an exhausted quota
\* exactly if Zen's type, or a 429 that names no rate limit, says so.
THEOREM QuotasConfirmed == Spec => []QuotaIsConfirmed
<1>1. Inv => QuotaIsConfirmed
  <2> SUFFICES ASSUME Inv, Judged PROVE QuotaIsConfirmed
    BY DEF QuotaIsConfirmed
  <2>1. verdict.Kind = Classify(about) /\ about.status \in Int
    BY SignalsTyped, ResponsesAssumption DEF Inv, Typed, Decided, Judged
  <2>2. {GoName} \cap ZenQuotaTypes = {}
    BY DEF GoName, ZenQuotaTypes
  <2> QED
    BY <2>1, <2>2 DEF QuotaIsConfirmed, Named, Classify, Classify429
<1> QED
  BY <1>1, InvHolds, PTL
=============================================================================
