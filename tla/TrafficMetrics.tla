---------------------------- MODULE TrafficMetrics ----------------------------
(***************************************************************************)
(* The table of traffic counters: what the window's Traffic panel appends  *)
(* at each refresh (traffic_collector.py), and what the command line       *)
(* concludes from it (traffic-history, and anomaly_detection.py).          *)
(*                                                                         *)
(* A history is a sequence of the times between two refreshes; a row of    *)
(* the table is the counter Windows had at the end of one.  Bytes sent,    *)
(* bytes received and packets are treated alike and are one counter.       *)
(***************************************************************************)
EXTENDS Integers, Sequences

\* Between two refreshes so many bytes went over the network, the last of them
\* after Windows was started again, or not; the counters could be read, or not.
Periods == [bytes : Nat, reboot : BOOLEAN, readable : BOOLEAN]

\* The counters of Windows, which begin at zero with each start.
Counters(history) ==
    LET counter[k \in 0..Len(history)] ==
            IF k = 0 THEN 0
            ELSE (IF history[k].reboot THEN 0 ELSE counter[k - 1]) + history[k].bytes
    IN  counter

\* system_totals and append_metrics: counters that cannot be read are zeros.
Rows(history) ==
    LET counter == Counters(history)
    IN  [k \in DOMAIN history |-> IF history[k].readable THEN counter[k] ELSE 0]

\* recent_metrics, in the order of time, in which both readers take them.
FirstOf(rows, limit) ==
    LET least == IF limit < 1 THEN 1 ELSE limit
    IN  IF least < Len(rows) THEN Len(rows) - least + 1 ELSE 1

Recent(rows, limit) == SubSeq(rows, FirstOf(rows, limit), Len(rows))

\* summarize_metric_deltas.
Delta(rows) ==
    IF Len(rows) >= 2 /\ rows[Len(rows)] > rows[1] THEN rows[Len(rows)] - rows[1] ELSE 0

\* The total of the first n numbers, and of all.
TotalTo(numbers, n) ==
    LET total[k \in 0..n] == IF k = 0 THEN 0 ELSE total[k - 1] + numbers[k]
    IN  total[n]

Total(numbers) == TotalTo(numbers, Len(numbers))

Squares(numbers) == [k \in DOMAIN numbers |-> numbers[k] * numbers[k]]

\* The last number is three standard deviations above the mean of the n
\* others, multiplied out: (n x - sum)^2 >= 9 (n sum2 - sum^2).
FarAbove(numbers, least) ==
    LET n == Len(numbers) - 1
        others == TotalTo(numbers, n)
        spread == n * TotalTo(Squares(numbers), n) - others * others
        above == n * numbers[n + 1] - others
    IN  n >= least /\ spread # 0 /\ above >= 0 /\ above * above >= 9 * spread

\* Mutant of Spike: two samples make a baseline.
SpikeOverTwo(rows) == FarAbove(rows, 2)

\* detect_spike: the baseline is at least three samples that are not all equal.
Spike(rows) == FarAbove(rows, 3)
=============================================================================
