---------------------------- MODULE PerpReference ----------------------------
(***************************************************************************)
(* Hourly perp candles and weekend sessions (perp-reference/).  The venue  *)
(* publishes candles late and may revise one; a backfill fetches a window  *)
(* of closed hours, assesses the weekends in it and stores candles and     *)
(* assessment in one transaction, which fails as a whole when a stored     *)
(* candle differs.                                                         *)
(*                                                                         *)
(* A week has five hours: one external, three internal, the reopening one. *)
(* Prices are the revision of a candle; 0 is no candle.                    *)
(***************************************************************************)
EXTENDS Integers, FiniteSetsExt

CONSTANTS
    Clerks,          \* concurrent backfills
    Windows,         \* lookbacks, in hours
    MaxHour, MaxRevisions, MaxReports   \* bounds

VARIABLES
    hour,        \* clock: hours below it are closed
    venue,       \* price of each hour's candle at the venue
    revisions,
    candles,     \* perp_reference_candles
    studies,     \* perp_weekend_assessment_runs
    desk         \* a backfill's fetched window

perpVars == <<hour, venue, revisions, candles, studies, desk>>

NoAnswer == [from |-> 0, to |-> 0, got |-> <<>>]

PerpInit ==
    /\ hour = 4 /\ revisions = 0
    /\ venue = [h \in 1..MaxHour |-> IF h < 3 THEN 1 ELSE 0]
    /\ candles = [h \in 1..MaxHour |-> 0]
    /\ studies = {} /\ desk = [c \in Clerks |-> NoAnswer]

-----------------------------------------------------------------------------
PassHour ==
    /\ hour <= MaxHour /\ hour' = hour + 1
    /\ UNCHANGED <<venue, revisions, candles, studies, desk>>

Publish == \E h \in 1..hour - 1 :
    /\ venue[h] = 0 /\ venue' = [venue EXCEPT ![h] = 1]
    /\ UNCHANGED <<hour, revisions, candles, studies, desk>>

Revise == \E h \in 1..hour - 1 :
    /\ venue[h] # 0 /\ revisions < MaxRevisions
    /\ revisions' = revisions + 1 /\ venue' = [venue EXCEPT ![h] = @ + 1]
    /\ UNCHANGED <<hour, candles, studies, desk>>

-----------------------------------------------------------------------------
(* Weekend sessions                                                        *)

\* expectedPricingMode
Internal(h) == h % 5 \in 2..4

\* weekendWindow: the internal hours of h's week.
weekendWindow(h) == {i \in 1..MaxHour : Internal(i) /\ i \div 5 = h \div 5}

\* The response has this hour's candle.
Known(answer, h) == answer.from <= h /\ h <= answer.to /\ answer.got[h] # 0

\* The reasons of sessionAssessment leave a session only when the preceding,
\* the reopening and every internal candle are there.
complete(answer, window) == (Min(window) - 1)..(Max(window) + 1) \subseteq {h \in 1..MaxHour : Known(answer, h)}

sessionAssessment(answer, window) ==
    LET entries == {h \in window : Known(answer, h)} IN
    [session |-> window, external |-> answer.got[Min(window) - 1],
     high |-> Max({answer.got[h] : h \in entries}), close |-> answer.got[Max(entries)],
     reopen |-> answer.got[Max(window) + 1]]

\* assessPerpWeekends: the complete sessions of an answer.
assessPerpWeekends(answer) ==
    {sessionAssessment(answer, w) :
        w \in {v \in {weekendWindow(h) : h \in {i \in answer.from..answer.to : Internal(i)}} : complete(answer, v)}}

-----------------------------------------------------------------------------
(* A backfill                                                              *)

\* The clock is read and the closed hours of the window are fetched.
fetchPerpCandles(c) == \E days \in Windows :
    LET to == hour - 1
        from == IF to >= days THEN to + 1 - days ELSE 1
    IN
    /\ desk[c] = NoAnswer
    /\ desk' = [desk EXCEPT ![c] = [from |-> from, to |-> to, got |-> [h \in from..to |-> venue[h]]]]
    /\ UNCHANGED <<hour, venue, revisions, candles, studies>>

\* saveCandleBatch: a stored candle equals the fetched one.
\* mutant: the conflict is ignored.
StoredFirst(answer) == TRUE
unchanged(answer) == \A h \in answer.from..answer.to :
    answer.got[h] = 0 \/ candles[h] \in {0, answer.got[h]}

\* saveAssessment: one transaction for candles and sessions.
saveAssessment(c) ==
    LET a == desk[c] IN
    /\ a # NoAnswer /\ Cardinality(studies) < MaxReports
    /\ desk' = [desk EXCEPT ![c] = NoAnswer]
    /\ IF unchanged(a)
       THEN /\ candles' = [h \in 1..MaxHour |->
                    IF Known(a, h) /\ candles[h] = 0 THEN a.got[h] ELSE candles[h]]
            /\ studies' = studies \cup {assessPerpWeekends(a)}
       ELSE UNCHANGED <<candles, studies>>
    /\ UNCHANGED <<hour, venue, revisions>>

PerpNext ==
    \/ PassHour \/ Publish \/ Revise
    \/ \E c \in Clerks : fetchPerpCandles(c) \/ saveAssessment(c)

PerpSpec == PerpInit /\ [][PerpNext]_perpVars

-----------------------------------------------------------------------------
\* Two stored assessments that both count a weekend as complete agree on its
\* prices, whatever windows they asked for, in whichever order they were
\* stored and although candles came late or were revised (saveCandleBatch,
\* sessionAssessment).
AssessmentsAgree ==
    \A r, q \in studies : \A a \in r, b \in q : a.session = b.session => a = b
=============================================================================
