---------------------------- MODULE MetricCache ----------------------------
(***************************************************************************)
(* The table analytics_cache: how analytics-service answers a report from  *)
(* its row, or computes it from what another service answers and saves it. *)
(* The look-up, the request, the second look-up and the save are separate. *)
(* A figure is the number of the change of the data it was computed from.  *)
(***************************************************************************)
EXTENDS Naturals, FiniteSets

CONSTANTS MetricSlots,    \* calls at a time
          MaxFacts,       \* a bound on the changes of the data
          NoMetric, NoFigure   \* no row; a figure of a service that is silent

ASSUME MetricAssumption == MaxFacts \in Nat /\ NoFigure \notin Nat

VARIABLES
  fact,       \* the changes of the data so far
  metric,     \* the row: its figure, whether it expired, what happened to it
  mCall,      \* the calls
  shown,      \* the newest figure that was answered
  answered    \* the last answer, and what could be expected of it

metricVars == <<fact, metric, mCall, shown, answered>>

IdleMetric == [pc |-> "idle", figure |-> NoFigure, found |-> NoMetric,
               atLeast |-> 0, marks |-> {}]

MetricInit ==
  /\ fact = 0 /\ metric = NoMetric
  /\ mCall = [s \in MetricSlots |-> IdleMetric]
  /\ shown = 0
  /\ answered = [figure |-> NoFigure, atLeast |-> 0, marks |-> {"silent"}]

DataChanges ==
  /\ fact < MaxFacts
  /\ fact' = fact + 1
  /\ UNCHANGED <<metric, mCall, shown, answered>>

Tell(figure, atLeast, marks) ==
  /\ answered' = [figure |-> figure, atLeast |-> atLeast, marks |-> marks]
  /\ shown' = IF figure # NoFigure /\ figure > shown THEN figure ELSE shown

MetricHit == metric # NoMetric /\ ~metric.expired

(* A report is asked for: the row answers, or it is computed.               *)
AskHit ==
  /\ MetricHit
  /\ \E s \in MetricSlots : mCall[s].pc = "idle"
  /\ Tell(metric.figure, shown, metric.marks)
  /\ UNCHANGED <<fact, metric, mCall>>

Computing == {s \in MetricSlots : mCall[s].pc # "idle"}

Late == IF Computing # {} THEN {"overlap"} ELSE {}
NewMetric == [pc |-> "fetch", figure |-> NoFigure, found |-> NoMetric,
              atLeast |-> shown, marks |-> Late]

(* No row is valid, or the look-up fails, which counts as none.             *)
AskMiss(s) ==
  /\ mCall[s].pc = "idle"
  /\ mCall' = [c \in MetricSlots |->
       IF c = s THEN NewMetric
       ELSE IF c \in Computing THEN [mCall[c] EXCEPT !.marks = @ \cup {"overlap"}]
       ELSE mCall[c]]
  /\ UNCHANGED <<fact, metric, shown, answered>>

FetchData(s) ==
  /\ mCall[s].pc = "fetch"
  /\ mCall' = [mCall EXCEPT ![s].pc = "find", ![s].figure = fact]
  /\ UNCHANGED <<fact, metric, shown, answered>>

(* No answer: the report is computed as if there were no data.              *)
FetchFails(s) ==
  /\ mCall[s].pc = "fetch"
  /\ mCall' = [mCall EXCEPT ![s].pc = "find", ![s].figure = NoFigure,
                 ![s].marks = @ \cup {"silent"}]
  /\ UNCHANGED <<fact, metric, shown, answered>>

FindRow(s) ==
  /\ mCall[s].pc = "find"
  /\ mCall' = [mCall EXCEPT ![s].pc = "save", ![s].found = metric]
  /\ UNCHANGED <<fact, metric, shown, answered>>

(* The row found is written, whatever it is by now; a second insert of the  *)
(* key is refused by its unique index, and logged.                          *)
(* Mutant: the expiry of the row found is kept.                             *)
SavedStale(s) ==
  IF mCall[s].found = NoMetric /\ metric # NoMetric THEN metric
  ELSE [figure |-> IF metric = NoMetric THEN mCall[s].figure ELSE metric.figure,
        expired |-> FALSE, marks |-> mCall[s].marks]
SavedMetric(s) ==
  IF mCall[s].found = NoMetric /\ metric # NoMetric THEN metric
  ELSE [figure |-> mCall[s].figure, expired |-> FALSE, marks |-> mCall[s].marks]

SaveMetric(s) ==
  /\ mCall[s].pc = "save"
  /\ metric' = SavedMetric(s)
  /\ Tell(mCall[s].figure, mCall[s].atLeast, mCall[s].marks)
  /\ mCall' = [mCall EXCEPT ![s] = IdleMetric]
  /\ UNCHANGED fact

(* The database refuses the look-up or the save: the answer is given all    *)
(* the same, and a valid row, if there is one, answers the next caller.     *)
SaveFails(s) ==
  /\ mCall[s].pc \in {"find", "save"}
  /\ Tell(mCall[s].figure, mCall[s].atLeast, mCall[s].marks)
  /\ mCall' = [mCall EXCEPT ![s] = IdleMetric]
  /\ metric' = IF MetricHit THEN [metric EXCEPT !.marks = @ \cup {"failed"}] ELSE metric
  /\ UNCHANGED fact

MetricDies(s) ==
  /\ mCall[s].pc # "idle"
  /\ mCall' = [mCall EXCEPT ![s] = IdleMetric]
  /\ UNCHANGED <<fact, metric, shown, answered>>

MetricExpires ==
  /\ MetricHit
  /\ metric' = [metric EXCEPT !.expired = TRUE]
  /\ UNCHANGED <<fact, mCall, shown, answered>>

MetricNext ==
  \/ DataChanges \/ AskHit \/ MetricExpires
  \/ \E s \in MetricSlots :
       \/ AskMiss(s) \/ FetchData(s) \/ FetchFails(s) \/ FindRow(s)
       \/ SaveMetric(s) \/ SaveFails(s) \/ MetricDies(s)

MetricSpec == MetricInit /\ [][MetricNext]_metricVars
----------------------------------------------------------------------------
Figures == 0..MaxFacts \cup {NoFigure}
Marks == SUBSET {"overlap", "silent", "failed"}

(* The row and the calls have their types.                                  *)
MetricTypeOK ==
  /\ fact \in 0..MaxFacts /\ shown \in 0..fact
  /\ metric \in [figure : Figures, expired : BOOLEAN, marks : Marks] \cup {NoMetric}
  /\ \A s \in MetricSlots :
       /\ mCall[s].pc \in {"idle", "fetch", "find", "save"}
       /\ mCall[s].figure \in Figures /\ mCall[s].marks \in Marks
       /\ mCall[s].atLeast \in 0..fact
  /\ answered \in [figure : Figures, atLeast : 0..MaxFacts, marks : Marks]

(* Who asks after a figure was answered is not answered an older one, or    *)
(* none, unless a service was silent, two calls computed it at a time (the  *)
(* slower one may save the older figure last, for as long as a row lives),  *)
(* or a newer figure was computed beside the row and could not be saved.    *)
NeverOlder ==
  \/ answered.figure # NoFigure /\ answered.figure >= answered.atLeast
  \/ answered.figure = NoFigure /\ "silent" \in answered.marks
  \/ answered.marks \cap {"overlap", "failed"} # {}
=============================================================================
