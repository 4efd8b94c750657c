------------------------------ MODULE LatencyReport ------------------------------
(*******************************************************************************)
(* The report of the latencies of one benchmark, as genLatencyReport of the    *)
(* Java handle, GenThreadLantencyReportsBody and GenWsReport in Go, and        *)
(* GenWsReport and GenThreadTransReport in C++ all write it: a head with one   *)
(* label per column, then one row of the latencies in the order of the         *)
(* messages and one of the sorted latencies.  Each loop takes its columns      *)
(* 0, step, 2 * step, .. below 100, and adds the column 100 at its end.        *)
(*                                                                             *)
(* (i / 100.0) * cnt is computed in floating point.  Where the exact product   *)
(* is an integer the computed one may lie just below it (29 / 100.0 * 100 is   *)
(* 28.999..), so the index may then be one less; elsewhere it is the quotient. *)
(*                                                                             *)
(* Java marks a message that was not read by Integer.MAX_VALUE and writes "-"  *)
(* for it, and no comma.  Go and C++ have no such mark.                        *)
(*******************************************************************************)
EXTENDS Integers, Sequences, FiniteSets, Functions

CONSTANTS
  MaxCnt,      \* bound on the number of latencies
  Steps,       \* the report steps
  MaxLabels,   \* bound on the labels that are written without end
  Latencies,   \* the latencies that are measured
  Unread       \* Integer.MAX_VALUE

\* No program checks its report step, which may be 0.  With a negative one the loop
\* variable wraps around after billions of labels, which is not modelled.
ASSUME ReportAssumption ==
  /\ MaxCnt \in Nat
  /\ Steps \subseteq Nat
  /\ MaxLabels \in Nat
  /\ \A s \in Steps : s > 0 => MaxLabels * s >= 100
  /\ Latencies \subseteq Int
  /\ Unread \in Int
  /\ \A v \in Latencies : v < Unread

VARIABLES
  cnt, step,   \* number of latencies, report step
  messages,    \* history: the latency of each message
  elapseds,    \* the array that the rows are read from
  pc,          \* "head", "byIdx", "byElapsed", "done" or "failed"
  i,           \* the loop variable
  head,        \* the labels
  rows         \* the cells of the two rows

reportVars == <<cnt, step, messages, elapseds, pc, i, head, rows>>

Values == Latencies \cup {Unread}
Rows   == {"byIdx", "byElapsed"}

ReportType ==
  /\ cnt \in 0 .. MaxCnt
  /\ step \in Steps
  /\ messages \in [0 .. cnt - 1 -> Values]
  /\ elapseds \in [0 .. cnt - 1 -> Values]
  /\ pc \in Rows \cup {"head", "done", "failed"}
  /\ i \in Int
  /\ head \in Seq(Int)
  /\ rows \in [Rows -> Seq(Values)]

ReportInit ==
  /\ cnt \in 0 .. MaxCnt
  /\ step \in Steps
  /\ messages \in [0 .. cnt - 1 -> Values]
  /\ elapseds = messages
  /\ pc = "head"
  /\ i = 0
  /\ head = <<>>
  /\ rows = [r \in Rows |-> <<>>]

--------------------------------------------------------------------------------

\* The values that (int)((i / 100.0) * cnt) can have.
Indices(k) ==
  LET q == (k * cnt) \div 100
  IN  IF k > 0 /\ (k * cnt) % 100 = 0 /\ q > 0 THEN {q - 1, q} ELSE {q}

Count(e, v) == Cardinality({m \in DOMAIN e : e[m] = v})

\* Fault: nothing is sorted.
LeftAsIs(e) == e

\* The sort of the language's library.
Sorted(e) ==
  CHOOSE s \in [DOMAIN e -> Range(e)] :
    /\ \A m \in DOMAIN s : m > 0 => s[m - 1] <= s[m]
    /\ \A v \in Range(e) : Count(s, v) = Count(e, v)

HeadLabel ==
  /\ pc = "head"
  /\ i < 100
  /\ Len(head) < MaxLabels
  /\ head' = Append(head, i)
  /\ i' = i + step
  /\ UNCHANGED <<cnt, step, messages, elapseds, pc, rows>>

\* Fault: the latencies are sorted before the first row.
HeadEndSorts ==
  /\ pc = "head"
  /\ i >= 100
  /\ head' = Append(head, 100)
  /\ i' = 0
  /\ pc' = "byIdx"
  /\ elapseds' = Sorted(elapseds)
  /\ UNCHANGED <<cnt, step, messages, rows>>

\* Fault: the label 100 comes only after it.
HeadEndPast100 ==
  /\ pc = "head"
  /\ i > 100
  /\ head' = Append(head, 100)
  /\ i' = 0
  /\ pc' = "byIdx"
  /\ UNCHANGED <<cnt, step, messages, elapseds, rows>>

HeadEnd ==
  /\ pc = "head"
  /\ i >= 100
  /\ head' = Append(head, 100)
  /\ i' = 0
  /\ pc' = "byIdx"
  /\ UNCHANGED <<cnt, step, messages, elapseds, rows>>

\* An index outside the array ends the program, or reads what is not there.
Cell(r, pos) ==
  IF pos \in 0 .. cnt - 1
  THEN rows' = [rows EXCEPT ![r] = Append(@, elapseds[pos])] /\ UNCHANGED pc
  ELSE pc' = "failed" /\ UNCHANGED rows

RowCell(r) ==
  /\ pc = r
  /\ i < 100
  /\ \E pos \in Indices(i) : Cell(r, pos)
  /\ i' = i + step
  /\ UNCHANGED <<cnt, step, messages, elapseds, head>>

\* Column 100 of the first row; then the latencies are sorted for the second.
ByIdxEnd ==
  /\ pc = "byIdx"
  /\ i >= 100
  /\ rows' = [rows EXCEPT !["byIdx"] = Append(@, elapseds[cnt - 1])]
  /\ elapseds' = Sorted(elapseds)
  /\ i' = 0
  /\ pc' = "byElapsed"
  /\ UNCHANGED <<cnt, step, messages, head>>

ByElapsedEnd ==
  /\ pc = "byElapsed"
  /\ i >= 100
  /\ rows' = [rows EXCEPT !["byElapsed"] = Append(@, elapseds[cnt - 1])]
  /\ pc' = "done"
  /\ UNCHANGED <<cnt, step, messages, elapseds, i, head>>

Over == pc \in {"done", "failed"}

\* The bound is reached by a loop that does not end.
RunsAway == pc = "head" /\ i < 100 /\ Len(head) = MaxLabels

Stopped == (Over \/ RunsAway) /\ UNCHANGED reportVars

Write ==
  \/ HeadLabel \/ HeadEnd
  \/ \E r \in Rows : RowCell(r)
  \/ ByIdxEnd \/ ByElapsedEnd

ReportNext == Write \/ Stopped

ReportSpec == ReportInit /\ [][ReportNext]_reportVars

\* The program goes on.
FairReportSpec == ReportSpec /\ WF_reportVars(Write)

--------------------------------------------------------------------------------
(* Properties.                                                                 *)

Below(v)  == Cardinality({m \in DOMAIN messages : messages[m] < v})
UpTo(v)   == Cardinality({m \in DOMAIN messages : messages[m] <= v})

\* A cell of the sorted row is the quantile of the label it stands under, taken
\* over the latencies of all messages: at most that share of them is below the
\* cell, and at least that share is not above it.  So column 100 is the largest.
QuantileUnderLabel ==
  \A k \in 1 .. Len(rows["byElapsed"]) :
    LET v == rows["byElapsed"][k]
    IN  Below(v) * 100 <= head[k] * cnt /\ head[k] * cnt <= UpTo(v) * 100

\* A cell of the first row is the latency of a message at that share of the way,
\* although the sort for the second row may work on the same array.
ByIdxIsOriginal ==
  \A k \in 1 .. Len(rows["byIdx"]) :
    \E m \in DOMAIN messages :
      /\ rows["byIdx"][k] = messages[m]
      /\ m * 100 <= head[k] * cnt
      /\ head[k] * cnt <= (m + 1) * 100

\* "-" is not followed by a comma, so it and the cell after it are one.
Cells(row) == Len(row) - Cardinality({k \in 1 .. Len(row) - 1 : row[k] = Unread})

\* The rows of a report in which nothing was unread, and no latency was as long
\* as the mark, have a cell for every label.
RowsAlignUnlessUnread ==
  pc = "done" /\ (\A m \in DOMAIN messages : messages[m] # Unread)
    => \A r \in Rows : Cells(rows[r]) = Len(head)

\* No loop reads outside the array, whatever the rounding of the index, unless
\* there is nothing to report.
FailsOnlyWhenEmpty == pc = "failed" => cnt = 0

\* The loops, what they index and what they write.
IndexInv ==
  /\ ReportType
  /\ FailsOnlyWhenEmpty
  /\ ByIdxIsOriginal
  /\ RowsAlignUnlessUnread

--------------------------------------------------------------------------------
(* The inductive invariant, from which these follow.                           *)

\* The labels are the multiples of the step that are below 100, and 100.
LabelInv ==
  LET n == Len(head)
  IN  IF pc = "head"
      THEN /\ i = n * step
           /\ \A k \in 1 .. n : head[k] = (k - 1) * step /\ head[k] < 100
      ELSE /\ step > 0
           /\ n > 0
           /\ \A k \in 1 .. n - 1 : head[k] = (k - 1) * step /\ head[k] < 100
           /\ head[n] = 100
           /\ (n - 1) * step >= 100

\* How long the rows are.
LengthInv ==
  /\ pc \in Rows => i = Len(rows[pc]) * step /\ Len(rows[pc]) < Len(head)
  /\ pc \in {"byElapsed", "done"} => Len(rows["byIdx"]) = Len(head)
  /\ pc = "done" => Len(rows["byElapsed"]) = Len(head)
  /\ pc \in {"head", "byIdx"} => Len(rows["byElapsed"]) = 0
  /\ pc = "head" \/ cnt = 0 => Len(rows["byIdx"]) = 0
  /\ cnt = 0 => pc \in {"head", "byIdx", "failed"} /\ Len(rows["byElapsed"]) = 0

\* What the rows are read from.
SourceInv ==
  /\ pc \in {"head", "byIdx"} => elapseds = messages
  /\ pc \in {"byElapsed", "done"} => elapseds = Sorted(messages)
  /\ \A k \in 1 .. Len(rows["byElapsed"]) : \E m \in DOMAIN messages : rows["byElapsed"][k] = messages[m]

ReportInd ==
  /\ ReportType /\ FailsOnlyWhenEmpty /\ ByIdxIsOriginal /\ QuantileUnderLabel
  /\ LabelInv /\ LengthInv /\ SourceInv

--------------------------------------------------------------------------------

\* A report with a step is finished, or fails; one with a step of 0, which no program
\* refuses, writes labels for ever.
ReportEnds ==
  /\ step > 0 => <>Over
  /\ step = 0 => []~Over

================================================================================
