------------------------------ MODULE Exporter ------------------------------
(***************************************************************************)
(* The telemetry exporters: internal/otlp/exporter.go (driver "otlp") and  *)
(* internal/proxy/splunkhec.go (driver "splunk").  Both batch the receipts *)
(* the main goroutine hands to Export and flush the batch on size, on a    *)
(* timer, or at Shutdown.  They differ in who sends and in when the timer  *)
(* is armed again:                                                         *)
(*                                                                         *)
(*   - otlp sends a full batch in Export itself, so the caller waits for   *)
(*     two posts; its timer goroutine arms the timer after it has sent;    *)
(*   - splunk sends every batch in a goroutine of its own; its timer       *)
(*     goroutine arms the timer before.                                    *)
(*                                                                         *)
(* A receipt is the number under which it was exported.                    *)
(***************************************************************************)
EXTENDS Naturals, Sequences

CONSTANTS
  Drivers,    \* drivers to look at
  BatchSize,  \* batchSize
  MaxRec      \* bound: receipts exported

ASSUME ExporterAssumption == /\ Drivers \subseteq {"otlp", "splunk"}
                             /\ BatchSize \in Nat \ {0}
                             /\ MaxRec \in Nat

VARIABLES
  driver,    \* the driver at work
  main,      \* the goroutine that calls Export and Shutdown
  exported,  \* number of receipts handed to Export
  buf,       \* the buffer
  stopped,   \* Shutdown was called
  armed,     \* the timer is running
  fired,     \* number of timerFlush goroutines that wait for the mutex
  sends,     \* batches being sent: who sends, what, and which post is next
  arrived,   \* <<signal, receipt>> the collector has accepted
  failed     \* <<signal, receipt>> whose post failed, which is logged

vars == <<driver, main, exported, buf, stopped, armed, fired, sends, arrived, failed>>

Receipts == 1 .. MaxRec

\* The posts of one batch, in order.
Signals == IF driver = "otlp" THEN <<"logs", "traces">> ELSE <<"events">>

SendOf(by) == [by |-> by, batch |-> buf, post |-> 1]

Init ==
  /\ driver \in Drivers
  /\ main = "ready"
  /\ exported = 0
  /\ buf = << >>
  /\ stopped = FALSE
  /\ armed = TRUE
  /\ fired = 0
  /\ sends = {}
  /\ arrived = {}
  /\ failed = {}

Running == main # "exited"

----------------------------------------------------------------------------
(* The main goroutine.                                                     *)

\* Export: below the batch size the receipt waits in the buffer.
ExportBuffers ==
  /\ main = "ready"
  /\ exported < MaxRec
  /\ Len(buf) + 1 < BatchSize
  /\ exported' = exported + 1
  /\ buf' = Append(buf, exported + 1)
  /\ UNCHANGED <<driver, main, stopped, armed, fired, sends, arrived, failed>>

\* Variant: the buffer is not emptied.
ExportFlushesKeeping ==
  /\ main = "ready"
  /\ exported < MaxRec
  /\ Len(buf) + 1 >= BatchSize
  /\ exported' = exported + 1
  /\ LET by == IF driver = "otlp" THEN "main" ELSE "async" IN
       /\ sends' = sends \cup {[SendOf(by) EXCEPT !.batch = Append(buf, exported + 1)]}
       /\ main' = IF by = "main" THEN "sending" ELSE main
  /\ armed' = TRUE
  /\ UNCHANGED <<driver, buf, stopped, fired, arrived, failed>>

\* Export: the batch is full.
ExportFlushes ==
  /\ main = "ready"
  /\ exported < MaxRec
  /\ Len(buf) + 1 >= BatchSize
  /\ exported' = exported + 1
  /\ LET by == IF driver = "otlp" THEN "main" ELSE "async" IN
       /\ sends' = sends \cup {[SendOf(by) EXCEPT !.batch = Append(buf, exported + 1)]}
       /\ main' = IF by = "main" THEN "sending" ELSE main
  /\ buf' = << >>
  /\ armed' = TRUE
  /\ UNCHANGED <<driver, stopped, fired, arrived, failed>>

\* Variants: Shutdown does not wait for the send; it drops what is buffered.
ShutdownWaitsNot ==
  /\ main = "ready"
  /\ stopped' = TRUE
  /\ armed' = FALSE
  /\ buf' = << >>
  /\ main' = "closing"
  /\ sends' = IF buf = << >> THEN sends ELSE sends \cup {SendOf("main")}
  /\ UNCHANGED <<driver, exported, fired, arrived, failed>>

ShutdownDrops ==
  /\ main = "ready"
  /\ stopped' = TRUE
  /\ armed' = FALSE
  /\ buf' = << >>
  /\ main' = "closing"
  /\ UNCHANGED <<driver, exported, fired, sends, arrived, failed>>

\* Shutdown, when Run ends: the rest of the buffer is sent before it returns.
Shutdown ==
  /\ main = "ready"
  /\ stopped' = TRUE
  /\ armed' = FALSE
  /\ buf' = << >>
  /\ IF buf = << >>
     THEN main' = "closing" /\ UNCHANGED sends
     ELSE main' = "stopping" /\ sends' = sends \cup {SendOf("main")}
  /\ UNCHANGED <<driver, exported, fired, arrived, failed>>

\* The upstream is closed and the process ends, or it is killed at any other
\* moment: the goroutines that still send end with it.
Exit ==
  /\ Running
  /\ main' = "exited"
  /\ buf' = << >>
  /\ armed' = FALSE
  /\ fired' = 0
  /\ sends' = {}
  /\ UNCHANGED <<driver, exported, stopped, arrived, failed>>

----------------------------------------------------------------------------
(* The timer.  time.AfterFunc calls timerFlush in a goroutine of its own.  *)

TimerFires ==
  /\ Running
  /\ armed
  /\ armed' = FALSE
  /\ fired' = fired + 1
  /\ UNCHANGED <<driver, main, exported, buf, stopped, sends, arrived, failed>>

\* Nothing to flush: timerFlush returns, and does not arm the timer again.
TimerFindsNothing ==
  /\ Running
  /\ fired > 0
  /\ stopped \/ buf = << >>
  /\ fired' = fired - 1
  /\ UNCHANGED <<driver, main, exported, buf, stopped, armed, sends, arrived, failed>>

\* The batch is taken under the mutex; splunk arms the timer there and then.
TimerFlushes ==
  /\ Running
  /\ fired > 0
  /\ ~stopped
  /\ buf # << >>
  /\ fired' = fired - 1
  /\ sends' = sends \cup {SendOf(IF driver = "otlp" THEN "timer" ELSE "async")}
  /\ buf' = << >>
  /\ armed' = (armed \/ driver = "splunk")
  /\ UNCHANGED <<driver, main, exported, stopped, arrived, failed>>

----------------------------------------------------------------------------
(* Sending.  Every post ends within its timeout of five seconds.           *)

\* Variant: a failed post ends the send.
PostStopsAtFailure(s) ==
  /\ Running
  /\ LET signal == Signals[s.post]
         these  == {<<signal, s.batch[i]>> : i \in DOMAIN s.batch}
     IN \/ arrived' = arrived \cup these /\ UNCHANGED failed
        \/ failed' = failed \cup these /\ UNCHANGED arrived
  /\ sends' = (sends \ {s}) \cup
                 (IF s.post < Len(Signals) /\ failed' = failed THEN {[s EXCEPT !.post = @ + 1]} ELSE {})
  /\ main' = IF s.by = "main" /\ sends' = sends \ {s}
             THEN (IF main = "stopping" THEN "closing" ELSE "ready") ELSE main
  /\ armed' = (armed \/ (s.by = "timer" /\ sends' = sends \ {s} /\ ~stopped))
  /\ UNCHANGED <<driver, exported, buf, stopped, fired>>

\* Variant: nobody arms the timer again.
PostForgetsTimer(s) ==
  /\ Running
  /\ LET these == {<<Signals[s.post], s.batch[i]>> : i \in DOMAIN s.batch}
     IN \/ arrived' = arrived \cup these /\ UNCHANGED failed
        \/ failed' = failed \cup these /\ UNCHANGED arrived
  /\ IF s.post < Len(Signals)
     THEN /\ sends' = (sends \ {s}) \cup {[s EXCEPT !.post = @ + 1]}
          /\ UNCHANGED main
     ELSE /\ sends' = sends \ {s}
          /\ main' = IF s.by # "main" THEN main
                     ELSE IF main = "stopping" THEN "closing" ELSE "ready"
  /\ UNCHANGED <<driver, exported, buf, stopped, armed, fired>>

\* One post; its outcome does not matter to the next.  After the last the
\* main goroutine goes on, and the timer goroutine of otlp arms the timer.
Post(s) ==
  /\ Running
  /\ LET signal == Signals[s.post]
         these  == {<<signal, s.batch[i]>> : i \in DOMAIN s.batch}
     IN \/ arrived' = arrived \cup these /\ UNCHANGED failed
        \/ failed' = failed \cup these /\ UNCHANGED arrived
  /\ IF s.post < Len(Signals)
     THEN /\ sends' = (sends \ {s}) \cup {[s EXCEPT !.post = @ + 1]}
          /\ UNCHANGED <<main, armed>>
     ELSE /\ sends' = sends \ {s}
          /\ main' = IF s.by # "main" THEN main
                     ELSE IF main = "stopping" THEN "closing" ELSE "ready"
          /\ armed' = (armed \/ (s.by = "timer" /\ ~stopped))
  /\ UNCHANGED <<driver, exported, buf, stopped, fired>>

----------------------------------------------------------------------------
Exited == ~Running /\ UNCHANGED vars

TimerSteps == TimerFires \/ TimerFindsNothing \/ TimerFlushes
PostSteps  == \E s \in sends : Post(s)

Next == ExportBuffers \/ ExportFlushes \/ Shutdown \/ Exit
        \/ TimerSteps \/ PostSteps \/ Exited

Spec == Init /\ [][Next]_vars

\* The runtime fires the timer and runs the goroutines, and a post ends.  The
\* main goroutine need not call Export, nor the process end.
LiveSpec == Spec /\ WF_vars(TimerSteps) /\ WF_vars(PostSteps)

----------------------------------------------------------------------------
(* Properties.                                                             *)

TypeOK ==
  /\ driver \in Drivers
  /\ main \in {"ready", "sending", "stopping", "closing", "exited"}
  /\ exported \in 0 .. MaxRec
  /\ buf \in Seq(Receipts)
  /\ stopped \in BOOLEAN /\ armed \in BOOLEAN
  /\ fired \in Nat
  /\ sends \subseteq [by : {"main", "timer", "async"}, batch : Seq(Receipts), post : DOMAIN Signals]
  /\ arrived \cup failed \subseteq {"logs", "traces", "events"} \X Receipts
  /\ main \in {"sending", "stopping"} <=> \E s \in sends : s.by = "main"

In(n, ls) == \E i \in DOMAIN ls : ls[i] = n

\* Where receipt n is for signal g: in the buffer, in a batch whose post of g
\* is still to come, or done.
Buffered(n)   == In(n, buf)
Posting(n, g) == {s \in sends : In(n, s.batch) /\ \E i \in DOMAIN Signals :
                                   Signals[i] = g /\ i >= s.post}

\* While the process runs no receipt is lost or sent twice, however Export,
\* the timer goroutines and Shutdown race for the buffer: each is in one
\* place only, and a post that fails takes no other signal with it.
EachInOnePlace ==
  Running => \A n \in 1 .. exported : \A i \in DOMAIN Signals :
     LET g == Signals[i]
         places == {b \in {"buf"} : Buffered(n)} \cup {b \in {"arrived"} : <<g, n>> \in arrived}
                   \cup {b \in {"failed"} : <<g, n>> \in failed}
     IN \/ Posting(n, g) = {} /\ \E b \in places : places = {b}
        \/ places = {} /\ \E s \in sends : Posting(n, g) = {s}

\* A batch is a run of consecutive receipts, no longer than batchSize, and a
\* slow collector does not make the buffer grow.
BatchesInOrder ==
  /\ Len(buf) < BatchSize
  /\ \A s \in sends : /\ Len(s.batch) \in 1 .. BatchSize
                      /\ \A i \in 2 .. Len(s.batch) : s.batch[i] = s.batch[i - 1] + 1

\* "Shutdown flushes remaining records": when the main goroutine is past it,
\* every receipt was posted or is in the hands of another goroutine.
NothingLeftBehind ==
  main = "closing" =>
     \A n \in 1 .. exported : \A i \in DOMAIN Signals :
        \/ <<Signals[i], n>> \in arrived \cup failed
        \/ \E s \in Posting(n, Signals[i]) : s.by # "main"

\* Something will flush the buffer: the timer, or a goroutine that will arm it.
TimerAlive == armed \/ fired > 0 \/ \E s \in sends : s.by = "timer"

\* A receipt exported while the timer is alive leaves the buffer, even if
\* nothing else is ever exported.  "Flush after N ms (even if batch not full)"
\* (otlp-setup.md) is not kept once the timer has found an empty buffer.
FlushedByTimer == \A n \in Receipts : (Buffered(n) /\ TimerAlive) ~> ~Buffered(n)
=============================================================================
