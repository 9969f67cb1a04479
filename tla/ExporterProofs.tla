--------------------------- MODULE ExporterProofs ---------------------------
(***************************************************************************)
(* Theorems about module Exporter, for either driver, every batch size and *)
(* any number of receipts.                                                 *)
(***************************************************************************)
EXTENDS Exporter, SequenceTheorems, TLAPS

----------------------------------------------------------------------------
(* The inductive invariant.  What EachInOnePlace says of receipts that     *)
(* were exported follows from where the receipts of the buffer and of the  *)
(* batches come from.                                                      *)

\* The buffer is the tail of what was exported, and no receipt twice.
BufferIsTail ==
  Running => /\ Len(buf) <= exported
             /\ \A i \in DOMAIN buf : buf[i] = exported - Len(buf) + i

\* Shutdown empties the buffer for good; nothing survives the process.
Stages ==
  /\ main \in {"ready", "sending"} => ~stopped
  /\ main \in {"stopping", "closing", "exited"} => buf = << >>
  /\ ~Running => sends = {}

\* Only one batch is in the hands of the main goroutine.
OneMain == \A s, t \in sends : s.by = "main" /\ t.by = "main" => s = t

\* No receipt is in two batches, nor in a batch and in the buffer.
Disjoint ==
  /\ \A s, t \in sends : \A n \in Receipts : In(n, s.batch) /\ In(n, t.batch) => s = t
  /\ \A s \in sends : \A n \in Receipts : In(n, s.batch) => n <= exported /\ ~In(n, buf)

\* A post is done exactly for the receipts that are past it.
Done ==
  Running => \A n \in Receipts : \A i \in DOMAIN Signals :
     /\ ~(<<Signals[i], n>> \in arrived /\ <<Signals[i], n>> \in failed)
     /\ <<Signals[i], n>> \in arrived \cup failed <=>
          /\ n <= exported /\ ~In(n, buf)
          /\ \A s \in sends : In(n, s.batch) => i < s.post

IInv == TypeOK /\ BatchesInOrder /\ BufferIsTail /\ Stages /\ OneMain /\ Disjoint /\ Done

----------------------------------------------------------------------------
(* Facts about the operators.                                              *)

LEMMA Numbers == /\ Receipts \subseteq Nat \ {0}
                 /\ \A n \in Nat : n < MaxRec => n + 1 \in Receipts
                 /\ \A n \in 1 .. MaxRec : n \in Receipts
                 /\ MaxRec \in Nat /\ BatchSize \in Nat \ {0}
BY ExporterAssumption DEF Receipts

LEMMA SignalNames ==
  /\ DOMAIN Signals = 1 .. Len(Signals)
  /\ Len(Signals) \in 1 .. 2
  /\ \A i \in DOMAIN Signals : Signals[i] \in {"logs", "traces", "events"}
  /\ \A i, j \in DOMAIN Signals : Signals[i] = Signals[j] => i = j
<1>1. CASE driver = "otlp"
  <2>1. /\ Signals = <<"logs", "traces">> /\ Len(Signals) = 2 /\ DOMAIN Signals = 1 .. 2
        /\ Signals[1] = "logs" /\ Signals[2] = "traces"
    BY <1>1 DEF Signals
  <2> QED
    BY <2>1
<1>2. CASE driver # "otlp"
  <2>1. Signals = <<"events">> /\ Len(Signals) = 1 /\ DOMAIN Signals = 1 .. 1 /\ Signals[1] = "events"
    BY <1>2 DEF Signals
  <2> QED
    BY <2>1
<1> QED
  BY <1>1, <1>2

LEMMA InEmpty == \A n : ~In(n, << >>)
BY DEF In

LEMMA InAppend ==
  ASSUME NEW ls \in Seq(Receipts), NEW r \in Receipts, NEW n
  PROVE  In(n, Append(ls, r)) <=> In(n, ls) \/ n = r
<1>1. /\ DOMAIN ls = 1 .. Len(ls) /\ Len(ls) \in Nat
      /\ DOMAIN Append(ls, r) = 1 .. Len(ls) + 1
  BY AppendProperties, LenProperties
<1>2. /\ \A i \in 1 .. Len(ls) : Append(ls, r)[i] = ls[i]
      /\ Append(ls, r)[Len(ls) + 1] = r
  BY AppendProperties
<1> QED
  BY <1>1, <1>2 DEF In

----------------------------------------------------------------------------
(* Receipts that arrive in the buffer, and batches that are taken from it: *)
(* "fresh" receipts are those that Export has just been handed.            *)

Fresh(n) == exported < n /\ n <= exported'

LEMMA BufferGrows ==
  ASSUME IInv, UNCHANGED <<driver, main, sends, arrived, failed>>, exported' \in exported .. MaxRec,
         \A n \in Receipts : In(n, buf') <=> In(n, buf) \/ Fresh(n)
  PROVE  Disjoint' /\ Done'
<1>1. exported \in Nat /\ exported <= exported' /\ exported' \in Nat
  BY Numbers DEF IInv, TypeOK
<1>2. Disjoint'
  BY <1>1, Numbers DEF IInv, Disjoint, Fresh
<1>3. Signals' = Signals /\ Running' = Running
  BY DEF Signals, Running
<1>4. ASSUME NEW n \in Receipts
      PROVE  n <= exported' /\ ~In(n, buf') <=> n <= exported /\ ~In(n, buf)
  BY <1>1, Numbers DEF Fresh
<1>5. Done'
  BY <1>3, <1>4 DEF IInv, Done
<1> QED
  BY <1>2, <1>5

LEMMA BatchTaken ==
  ASSUME IInv, UNCHANGED <<driver, arrived, failed>>, Running, exported' \in exported .. MaxRec,
         NEW by \in {"main", "timer", "async"}, NEW batch \in Seq(Receipts),
         sends' = sends \cup {[by |-> by, batch |-> batch, post |-> 1]},
         \A n \in Receipts : In(n, batch) <=> In(n, buf) \/ Fresh(n),
         buf' = << >>
  PROVE  Disjoint' /\ Done'
<1> DEFINE s0 == [by |-> by, batch |-> batch, post |-> 1]
<1>1. exported \in Nat /\ exported <= exported' /\ exported' \in Nat
  BY Numbers DEF IInv, TypeOK
<1>2. \A n \in Receipts : ~In(n, buf')
  BY InEmpty
<1>3. \A n \in Receipts : In(n, buf) => n <= exported
  <2>1. \A i \in DOMAIN buf : buf[i] <= exported
    BY <1>1, LenProperties DEF IInv, BufferIsTail, TypeOK
  <2> QED
    BY <2>1 DEF In
<1>4. \A s \in sends : \A n \in Receipts : In(n, s.batch) => n <= exported /\ ~In(n, batch)
  BY <1>1, Numbers DEF IInv, Disjoint, Fresh
<1>5. Disjoint'
  <2>1. s0.batch = batch
    OBVIOUS
  <2>2. ASSUME NEW s \in sends', NEW n \in Receipts, In(n, s.batch)
        PROVE  n <= exported'
    BY <1>1, <1>3, <1>4, <2>1, <2>2, Numbers DEF Fresh
  <2>3. ASSUME NEW s \in sends', NEW t \in sends', NEW n \in Receipts,
               In(n, s.batch), In(n, t.batch)
        PROVE  s = t
    BY <1>4, <2>1, <2>3 DEF IInv, Disjoint
  <2> QED
    BY <1>2, <2>2, <2>3 DEF Disjoint
<1>6. Signals' = Signals
  BY DEF Signals
<1>7. ASSUME NEW n \in Receipts, NEW i \in DOMAIN Signals
      PROVE  <<Signals[i], n>> \in arrived \cup failed <=>
               /\ n <= exported' /\ ~In(n, buf')
               /\ \A s \in sends' : In(n, s.batch) => i < s.post
  <2>1. ~(i < s0.post) /\ s0.batch = batch
    BY SignalNames
  <2>2. <<Signals[i], n>> \in arrived \cup failed <=>
          /\ n <= exported /\ ~In(n, buf)
          /\ \A s \in sends : In(n, s.batch) => i < s.post
    BY DEF IInv, Done
  <2>3. CASE In(n, batch)
    <3>1. s0 \in sends' /\ In(n, s0.batch) /\ ~(i < s0.post)
      BY <2>1, <2>3
    <3>2. ~(n <= exported /\ ~In(n, buf))
      BY <2>3, <1>1, Numbers DEF Fresh
    <3> QED
      BY <2>2, <3>1, <3>2
  <2>4. CASE ~In(n, batch)
    BY <2>1, <2>2, <2>4, <1>1, <1>2, Numbers DEF Fresh
  <2> QED
    BY <2>3, <2>4
<1>8. Done'
  BY <1>6, <1>7 DEF IInv, Done
<1> QED
  BY <1>5, <1>8

----------------------------------------------------------------------------
(* Every action keeps the invariant.                                       *)

LEMMA Initially == Init => IInv
<1> SUFFICES ASSUME Init PROVE IInv
  OBVIOUS
<1>1. \A n : ~In(n, buf)
  BY InEmpty DEF Init
<1>2. /\ buf \in Seq(Receipts) /\ Len(buf) = 0 /\ DOMAIN buf = {}
      /\ exported \in 0 .. MaxRec
  BY Numbers DEF Init
<1>3. TypeOK
  BY <1>2, Numbers DEF Init, TypeOK
<1>4. BatchesInOrder
  <2>1. sends = {} /\ 0 < BatchSize
    BY Numbers DEF Init
  <2> QED
    BY <1>2, <2>1 DEF BatchesInOrder
<1>5. BufferIsTail
  <2>1. exported = 0
    BY DEF Init
  <2> QED
    BY <1>2, <2>1 DEF BufferIsTail
<1>6. Stages /\ OneMain /\ Disjoint
  BY DEF Init, Stages, OneMain, Disjoint
<1>7. Done
  BY Numbers DEF Init, Done
<1> QED
  BY <1>3, <1>4, <1>5, <1>6, <1>7 DEF IInv

\* What Export finds: the receipt is the next of a run that ends with it.
LEMMA ExportAppends ==
  ASSUME IInv, main = "ready", exported < MaxRec, exported' = exported + 1
  PROVE  LET b == Append(buf, exported + 1) IN
           /\ b \in Seq(Receipts) /\ Len(b) = Len(buf) + 1
           /\ DOMAIN b = 1 .. Len(b) /\ Len(buf) \in Nat
           /\ Len(b) <= exported'
           /\ exported' \in exported .. MaxRec /\ exported' \in 0 .. MaxRec
           /\ \A i \in DOMAIN b : b[i] = exported' - Len(b) + i
           /\ \A n \in Receipts : In(n, b) <=> In(n, buf) \/ Fresh(n)
<1> DEFINE b == Append(buf, exported + 1)
<1>1. /\ exported \in Nat /\ exported + 1 \in Receipts /\ exported' \in exported .. MaxRec
      /\ exported' \in 0 .. MaxRec
  BY Numbers DEF IInv, TypeOK
<1>2. buf \in Seq(Receipts) /\ Running
  BY DEF IInv, TypeOK, Running
<1>3. /\ b \in Seq(Receipts) /\ Len(b) = Len(buf) + 1
      /\ DOMAIN b = 1 .. Len(b) /\ Len(buf) \in Nat
      /\ DOMAIN buf = 1 .. Len(buf)
      /\ \A i \in 1 .. Len(buf) : b[i] = buf[i]
      /\ b[Len(buf) + 1] = exported + 1
  BY <1>1, <1>2, AppendProperties, LenProperties
<1>4. Len(buf) <= exported /\ \A i \in DOMAIN buf : buf[i] = exported - Len(buf) + i
  BY <1>2 DEF IInv, BufferIsTail
<1>5. \A i \in DOMAIN b : b[i] = exported' - Len(b) + i
  BY <1>1, <1>3, <1>4
<1>6. \A n \in Receipts : In(n, b) <=> In(n, buf) \/ Fresh(n)
  BY <1>1, <1>2, InAppend, Numbers DEF Fresh
<1> HIDE DEF b
<1>7. Len(b) <= exported'
  BY <1>1, <1>3, <1>4
<1> QED
  BY <1>1, <1>3, <1>5, <1>6, <1>7 DEF b

\* A run of receipts is in order.
LEMMA RunInOrder ==
  ASSUME NEW b, NEW e \in Nat, Len(b) \in Nat, DOMAIN b = 1 .. Len(b),
         \A i \in DOMAIN b : b[i] = e - Len(b) + i
  PROVE  \A i \in 2 .. Len(b) : b[i] = b[i - 1] + 1
<1> SUFFICES ASSUME NEW i \in 2 .. Len(b) PROVE b[i] = b[i - 1] + 1
  OBVIOUS
<1>1. i \in DOMAIN b /\ i - 1 \in DOMAIN b
  OBVIOUS
<1> QED
  BY <1>1

LEMMA BuffersKeep == ASSUME IInv, ExportBuffers PROVE IInv'
<1> USE DEF ExportBuffers
<1> DEFINE b == Append(buf, exported + 1)
<1>1. /\ b \in Seq(Receipts) /\ Len(b) = Len(buf) + 1
      /\ Len(b) <= exported' /\ Len(buf) \in Nat
      /\ exported' \in exported .. MaxRec /\ exported' \in 0 .. MaxRec
      /\ \A i \in DOMAIN b : b[i] = exported' - Len(b) + i
      /\ \A n \in Receipts : In(n, b) <=> In(n, buf) \/ Fresh(n)
  BY ExportAppends
<1>2. buf' = b
  OBVIOUS
<1> HIDE DEF b
<1>3. TypeOK'
  BY <1>1, <1>2 DEF IInv, TypeOK, Signals
<1>4. BatchesInOrder'
  BY <1>1, <1>2, Numbers DEF IInv, BatchesInOrder, b
<1>5. BufferIsTail' /\ Stages' /\ OneMain'
  <2>1. BufferIsTail'
    BY <1>1, <1>2 DEF IInv, BufferIsTail
  <2>2. Stages'
    BY <1>1, <1>2 DEF IInv, Stages, Running
  <2>3. OneMain'
    BY <1>1, <1>2 DEF IInv, OneMain
  <2> QED
    BY <2>1, <2>2, <2>3
<1>6. Disjoint' /\ Done'
  BY <1>1, <1>2, BufferGrows
<1> QED
  BY <1>3, <1>4, <1>5, <1>6 DEF IInv

LEMMA FlushesKeep == ASSUME IInv, ExportFlushes PROVE IInv'
<1> USE DEF ExportFlushes, SendOf
<1> DEFINE b  == Append(buf, exported + 1)
           by == IF driver = "otlp" THEN "main" ELSE "async"
           s0 == [by |-> by, batch |-> b, post |-> 1]
<1>1. /\ b \in Seq(Receipts) /\ Len(b) = Len(buf) + 1 /\ Len(buf) \in Nat
      /\ DOMAIN b = 1 .. Len(b)
      /\ exported' \in exported .. MaxRec /\ exported' \in 0 .. MaxRec /\ exported' \in Nat
      /\ \A i \in DOMAIN b : b[i] = exported' - Len(b) + i
      /\ \A n \in Receipts : In(n, b) <=> In(n, buf) \/ Fresh(n)
  BY ExportAppends, Numbers
<1>2. /\ sends' = sends \cup {s0} /\ by \in {"main", "timer", "async"}
      /\ s0.by = by /\ s0.batch = b /\ s0.post = 1
      /\ main' = IF by = "main" THEN "sending" ELSE main
  OBVIOUS
<1>3. \A s \in sends : s.by # "main"
  BY DEF IInv, TypeOK
<1>4. /\ Signals' = Signals /\ 1 \in DOMAIN Signals
      /\ buf' \in Seq(Receipts) /\ Len(buf') = 0 /\ DOMAIN buf' = {}
  BY SignalNames DEF Signals
<1>5. s0 \in [by : {"main", "timer", "async"}, batch : Seq(Receipts), post : DOMAIN Signals]
  BY <1>1, <1>2, <1>4
<1>6. Disjoint' /\ Done'
  BY <1>1, <1>2, BatchTaken DEF Running
<1>7. Len(b) \in 1 .. BatchSize /\ \A i \in 2 .. Len(b) : b[i] = b[i - 1] + 1
  <2>1. Len(buf) < BatchSize
    BY DEF IInv, BatchesInOrder
  <2> HIDE DEF b
  <2>2. Len(b) \in Nat
    BY <1>1
  <2>3. Len(b) \in 1 .. BatchSize
    BY <1>1, <2>1, Numbers
  <2>4. \A i \in 2 .. Len(b) : b[i] = b[i - 1] + 1
    BY <1>1, <2>2, RunInOrder
  <2> QED
    BY <2>3, <2>4
<1> HIDE DEF b, by, s0
<1>8. TypeOK'
  <2>1. sends' \subseteq [by : {"main", "timer", "async"}, batch : Seq(Receipts), post : DOMAIN Signals']
    BY <1>2, <1>4, <1>5 DEF IInv, TypeOK
  <2>2. main' \in {"sending", "stopping"} <=> \E s \in sends' : s.by = "main"
    BY <1>2, <1>3
  <2> QED
    BY <1>1, <1>2, <1>4, <2>1, <2>2 DEF IInv, TypeOK
<1>9. BatchesInOrder'
  <2>1. Len(buf') < BatchSize
    BY <1>4, Numbers
  <2>2. \A s \in sends : /\ Len(s.batch) \in 1 .. BatchSize
                         /\ \A i \in 2 .. Len(s.batch) : s.batch[i] = s.batch[i - 1] + 1
    BY DEF IInv, BatchesInOrder
  <2> QED
    BY <1>2, <1>7, <2>1, <2>2 DEF BatchesInOrder
<1>10. BufferIsTail' /\ Stages' /\ OneMain'
  <2>1. BufferIsTail'
    BY <1>1, <1>2, <1>3, <1>4 DEF IInv, BufferIsTail
  <2>2. Stages'
    BY <1>1, <1>2, <1>3, <1>4 DEF IInv, Stages, Running
  <2>3. OneMain'
    BY <1>1, <1>2, <1>3, <1>4 DEF IInv, OneMain
  <2> QED
    BY <2>1, <2>2, <2>3
<1> QED
  BY <1>6, <1>8, <1>9, <1>10 DEF IInv

\* What Shutdown and the timer take: the whole buffer.
LEMMA BufferTaken ==
  ASSUME IInv, Running
  PROVE  /\ buf \in Seq(Receipts) /\ Len(buf) \in Nat
         /\ exported \in 0 .. MaxRec /\ exported \in Nat
         /\ Len(buf) < BatchSize
         /\ buf # << >> => Len(buf) \in 1 .. BatchSize
         /\ \A i \in 2 .. Len(buf) : buf[i] = buf[i - 1] + 1
         /\ exported' = exported => \A n \in Receipts : ~Fresh(n)
<1>1. /\ buf \in Seq(Receipts) /\ exported \in 0 .. MaxRec /\ exported \in Nat
      /\ Len(buf) < BatchSize
  BY Numbers DEF IInv, TypeOK, BatchesInOrder
<1>2. Len(buf) \in Nat /\ DOMAIN buf = 1 .. Len(buf) /\ (buf # << >> => Len(buf) # 0)
  BY <1>1, LenProperties, EmptySeq
<1>3. \A i \in DOMAIN buf : buf[i] = exported - Len(buf) + i
  BY DEF IInv, BufferIsTail
<1>4. \A i \in 2 .. Len(buf) : buf[i] = buf[i - 1] + 1
  BY <1>1, <1>2, <1>3, RunInOrder
<1>5. exported' = exported => \A n \in Receipts : ~Fresh(n)
  BY <1>1, Numbers DEF Fresh
<1> QED
  BY <1>1, <1>2, <1>4, <1>5, Numbers

LEMMA ShutdownKeeps == ASSUME IInv, Shutdown PROVE IInv'
<1> USE DEF Shutdown, SendOf
<1> DEFINE s0 == [by |-> "main", batch |-> buf, post |-> 1]
<1>1. /\ Running /\ Running' /\ Signals' = Signals /\ 1 \in DOMAIN Signals
      /\ buf' \in Seq(Receipts) /\ Len(buf') = 0 /\ DOMAIN buf' = {}
  BY SignalNames DEF Running, Signals
<1>2. /\ buf \in Seq(Receipts) /\ exported \in 0 .. MaxRec /\ exported \in Nat
      /\ buf # << >> => Len(buf) \in 1 .. BatchSize
      /\ \A i \in 2 .. Len(buf) : buf[i] = buf[i - 1] + 1
      /\ \A n \in Receipts : ~Fresh(n)
  BY <1>1, BufferTaken
<1>3. \A s \in sends : s.by # "main"
  BY DEF IInv, TypeOK
<1>4. /\ s0.by = "main" /\ s0.batch = buf /\ s0.post = 1
      /\ s0 \in [by : {"main", "timer", "async"}, batch : Seq(Receipts), post : DOMAIN Signals]
  BY <1>1, <1>2
<1>5. Len(buf') < BatchSize
  BY <1>1, Numbers
<1>6. CASE buf = << >>
  <2>1. TypeOK'
    BY <1>1, <1>3, <1>6 DEF IInv, TypeOK
  <2>2. BatchesInOrder'
    BY <1>5, <1>6 DEF IInv, BatchesInOrder
  <2>3. BufferIsTail' /\ Stages' /\ OneMain'
    BY <1>1, <1>2, <1>6 DEF IInv, BufferIsTail, Stages, OneMain
  <2>4. Disjoint' /\ Done'
    BY <1>1, <1>6 DEF IInv, Disjoint, Done
  <2> QED
    BY <2>1, <2>2, <2>3, <2>4 DEF IInv
<1>7. CASE buf # << >>
  <2>1. sends' = sends \cup {s0} /\ main' = "stopping"
    BY <1>7
  <2>2. Disjoint' /\ Done'
    <3>1. exported' \in exported .. MaxRec
      BY <1>2
    <3> QED
      BY <1>1, <1>2, <2>1, <3>1, BatchTaken
  <2> HIDE DEF s0
  <2>3. TypeOK'
    <3>1. sends' \subseteq [by : {"main", "timer", "async"}, batch : Seq(Receipts), post : DOMAIN Signals']
      BY <1>1, <1>4, <2>1 DEF IInv, TypeOK
    <3> QED
      BY <1>1, <1>4, <2>1, <3>1 DEF IInv, TypeOK
  <2>4. BatchesInOrder'
    <3>1. \A s \in sends : /\ Len(s.batch) \in 1 .. BatchSize
                           /\ \A i \in 2 .. Len(s.batch) : s.batch[i] = s.batch[i - 1] + 1
      BY DEF IInv, BatchesInOrder
    <3> QED
      BY <1>2, <1>4, <1>5, <1>7, <2>1, <3>1 DEF BatchesInOrder
  <2>5. BufferIsTail' /\ Stages' /\ OneMain'
    BY <1>1, <1>2, <1>3, <1>4, <2>1 DEF IInv, BufferIsTail, Stages, OneMain
  <2> QED
    BY <2>2, <2>3, <2>4, <2>5 DEF IInv
<1> QED
  BY <1>6, <1>7

LEMMA TimerFlushesKeeps == ASSUME IInv, TimerFlushes PROVE IInv'
<1> USE DEF TimerFlushes, SendOf
<1> DEFINE by == IF driver = "otlp" THEN "timer" ELSE "async"
           s0 == [by |-> by, batch |-> buf, post |-> 1]
<1>1. /\ Running /\ Running' /\ Signals' = Signals /\ 1 \in DOMAIN Signals
      /\ buf' \in Seq(Receipts) /\ Len(buf') = 0 /\ DOMAIN buf' = {}
  BY SignalNames DEF Running, Signals
<1>2. /\ buf \in Seq(Receipts) /\ exported \in 0 .. MaxRec /\ exported \in Nat
      /\ Len(buf) \in 1 .. BatchSize
      /\ \A i \in 2 .. Len(buf) : buf[i] = buf[i - 1] + 1
      /\ \A n \in Receipts : ~Fresh(n)
  BY <1>1, BufferTaken
<1>3. /\ s0.by # "main" /\ s0.batch = buf /\ s0.post = 1 /\ by \in {"main", "timer", "async"}
      /\ s0 \in [by : {"main", "timer", "async"}, batch : Seq(Receipts), post : DOMAIN Signals]
  BY <1>1, <1>2
<1>4. Len(buf') < BatchSize
  BY <1>1, Numbers
<1>5. sends' = sends \cup {s0}
  OBVIOUS
<1>6. Disjoint' /\ Done'
  <2>1. exported' \in exported .. MaxRec
    BY <1>2
  <2> QED
    BY <1>1, <1>2, <1>3, <2>1, BatchTaken
<1> HIDE DEF s0, by
<1>7. TypeOK'
  <2>1. sends' \subseteq [by : {"main", "timer", "async"}, batch : Seq(Receipts), post : DOMAIN Signals']
    BY <1>1, <1>3, <1>5 DEF IInv, TypeOK
  <2>2. main' \in {"sending", "stopping"} <=> \E s \in sends' : s.by = "main"
    BY <1>3, <1>5 DEF IInv, TypeOK
  <2>3. fired' \in Nat
    BY DEF IInv, TypeOK
  <2> QED
    BY <1>1, <2>1, <2>2, <2>3 DEF IInv, TypeOK
<1>8. BatchesInOrder'
  <2>1. \A s \in sends : /\ Len(s.batch) \in 1 .. BatchSize
                         /\ \A i \in 2 .. Len(s.batch) : s.batch[i] = s.batch[i - 1] + 1
    BY DEF IInv, BatchesInOrder
  <2> QED
    BY <1>2, <1>3, <1>4, <1>5, <2>1 DEF BatchesInOrder
<1>9. BufferIsTail' /\ Stages' /\ OneMain'
  BY <1>1, <1>2, <1>3, <1>5 DEF IInv, BufferIsTail, Stages, OneMain, Running
<1> QED
  BY <1>6, <1>7, <1>8, <1>9 DEF IInv

LEMMA TimerKeeps == ASSUME IInv, TimerFires \/ TimerFindsNothing PROVE IInv'
<1>1. /\ UNCHANGED <<driver, main, exported, buf, stopped, sends, arrived, failed>>
      /\ armed' \in BOOLEAN /\ fired' \in Nat
  <2>1. fired \in Nat /\ armed \in BOOLEAN
    BY DEF IInv, TypeOK
  <2>2. CASE TimerFires
    <3>1. armed' \in BOOLEAN
      BY <2>2, Zenon DEF TimerFires
    <3> QED
      BY <2>1, <2>2, <3>1 DEF TimerFires
  <2>3. CASE TimerFindsNothing
    BY <2>1, <2>3 DEF TimerFindsNothing
  <2> QED
    BY <2>2, <2>3
<1> QED
  BY <1>1 DEF IInv, TypeOK, BatchesInOrder, BufferIsTail, Stages, OneMain, Disjoint, Done, Running, Signals

LEMMA ExitKeeps == ASSUME IInv, Exit PROVE IInv'
<1>1. /\ buf' = << >> /\ sends' = {} /\ main' = "exited" /\ ~Running' /\ Len(buf') = 0
      /\ buf' \in Seq(Receipts) /\ 0 < BatchSize
  BY Numbers DEF Exit, Running
<1>2. TypeOK'
  BY <1>1 DEF IInv, TypeOK, Exit
<1> QED
  BY <1>1, <1>2 DEF IInv, BatchesInOrder, BufferIsTail, Stages, OneMain, Disjoint, Done, Exit

\* What a post does to the outcomes: those of its signal and its batch, and
\* only those, are settled, one way or the other.
LEMMA PostSettles ==
  ASSUME IInv, NEW s \in sends, Post(s)
  PROVE  /\ arrived' \cup failed' \subseteq {"logs", "traces", "events"} \X Receipts
         /\ \A n \in Receipts, i \in DOMAIN Signals :
              /\ <<Signals[i], n>> \in arrived' \cup failed' <=>
                   \/ <<Signals[i], n>> \in arrived \cup failed
                   \/ i = s.post /\ In(n, s.batch)
              /\ ~(<<Signals[i], n>> \in arrived' /\ <<Signals[i], n>> \in failed')
<1> DEFINE these == {<<Signals[s.post], s.batch[i]>> : i \in DOMAIN s.batch}
<1>1. /\ s.post \in DOMAIN Signals /\ s.batch \in Seq(Receipts)
      /\ Signals[s.post] \in {"logs", "traces", "events"}
  BY SignalNames DEF IInv, TypeOK
<1>2. \/ arrived' = arrived \cup these /\ failed' = failed
      \/ failed' = failed \cup these /\ arrived' = arrived
  BY DEF Post
<1>3. \A i \in DOMAIN s.batch : s.batch[i] \in Receipts
  BY <1>1, LenProperties, ElementOfSeq
<1>4. ASSUME NEW n \in Receipts, NEW i \in DOMAIN Signals
      PROVE  <<Signals[i], n>> \in these <=> i = s.post /\ In(n, s.batch)
  BY <1>1, SignalNames DEF In
<1>5. these \subseteq {"logs", "traces", "events"} \X Receipts
  BY <1>1, <1>3
<1>6. ASSUME NEW n \in Receipts, In(n, s.batch)
      PROVE  <<Signals[s.post], n>> \notin arrived \cup failed
  <2>1. ~(s.post < s.post)
    BY <1>1, SignalNames
  <2> QED
    BY <1>1, <1>6, <2>1 DEF IInv, Done, Post
<1>7. \A n \in Receipts, i \in DOMAIN Signals :
        ~(<<Signals[i], n>> \in arrived /\ <<Signals[i], n>> \in failed)
  BY DEF IInv, Done, Post
<1> HIDE DEF these
<1> QED
  BY <1>2, <1>4, <1>5, <1>6, <1>7 DEF IInv, TypeOK

LEMMA PostGoesOn ==
  ASSUME IInv, NEW s \in sends, Post(s), s.post < Len(Signals)
  PROVE  IInv'
<1> DEFINE s1 == [s EXCEPT !.post = @ + 1]
<1>1. /\ sends' = (sends \ {s}) \cup {s1}
      /\ UNCHANGED <<driver, main, exported, buf, stopped, armed, fired>>
      /\ Running /\ Running' /\ Signals' = Signals
  BY DEF Post, Running, Signals
<1>2. /\ s \in [by : {"main", "timer", "async"}, batch : Seq(Receipts), post : DOMAIN Signals]
      /\ s.post + 1 \in DOMAIN Signals
  BY SignalNames DEF IInv, TypeOK
<1>3. /\ s1 \in [by : {"main", "timer", "async"}, batch : Seq(Receipts), post : DOMAIN Signals]
      /\ s1.by = s.by /\ s1.batch = s.batch /\ s1.post = s.post + 1
  BY <1>2
<1> HIDE DEF s1
<1>4. TypeOK'
  <2>1. sends' \subseteq [by : {"main", "timer", "async"}, batch : Seq(Receipts), post : DOMAIN Signals']
    BY <1>1, <1>3 DEF IInv, TypeOK
  <2>2. main' \in {"sending", "stopping"} <=> \E t \in sends' : t.by = "main"
    BY <1>1, <1>3 DEF IInv, TypeOK
  <2> QED
    BY <1>1, <2>1, <2>2, PostSettles DEF IInv, TypeOK
<1>5. BatchesInOrder'
  BY <1>1, <1>3 DEF IInv, BatchesInOrder
<1>6. BufferIsTail' /\ Stages' /\ OneMain'
  BY <1>1, <1>3 DEF IInv, BufferIsTail, Stages, OneMain
<1>7. Disjoint'
  BY <1>1, <1>3 DEF IInv, Disjoint
<1>8. ASSUME NEW n \in Receipts, NEW i \in DOMAIN Signals
      PROVE  <<Signals[i], n>> \in arrived' \cup failed' <=>
               /\ n <= exported /\ ~In(n, buf)
               /\ \A t \in sends' : In(n, t.batch) => i < t.post
  <2>1. <<Signals[i], n>> \in arrived' \cup failed' <=>
          \/ <<Signals[i], n>> \in arrived \cup failed
          \/ i = s.post /\ In(n, s.batch)
    BY PostSettles
  <2>2. <<Signals[i], n>> \in arrived \cup failed <=>
          /\ n <= exported /\ ~In(n, buf)
          /\ \A t \in sends : In(n, t.batch) => i < t.post
    BY <1>1 DEF IInv, Done
  <2>3. CASE In(n, s.batch)
    <3>1. /\ n <= exported /\ ~In(n, buf)
          /\ \A t \in sends : In(n, t.batch) => t = s
      BY <2>3 DEF IInv, Disjoint
    <3>2. \A t \in sends' : In(n, t.batch) => t = s1
      BY <1>1, <3>1
    <3>3. s1 \in sends' /\ In(n, s1.batch)
      BY <1>1, <1>3, <2>3
    <3>4. i < s1.post <=> i < s.post \/ i = s.post
      BY <1>2, <1>3, SignalNames
    <3> QED
      BY <2>1, <2>2, <2>3, <3>1, <3>2, <3>3, <3>4
  <2>4. CASE ~In(n, s.batch)
    <3>1. \A t : t \in sends' /\ In(n, t.batch) <=> t \in sends /\ In(n, t.batch)
      BY <1>1, <1>3, <2>4
    <3> QED
      BY <2>1, <2>2, <2>4, <3>1
  <2> QED
    BY <2>3, <2>4
<1>9. Done'
  BY <1>1, <1>8, PostSettles DEF Done
<1> QED
  BY <1>4, <1>5, <1>6, <1>7, <1>9 DEF IInv

LEMMA PostEnds ==
  ASSUME IInv, NEW s \in sends, Post(s), ~(s.post < Len(Signals))
  PROVE  IInv'
<1>1. /\ sends' = sends \ {s}
      /\ UNCHANGED <<driver, exported, buf, stopped, fired>>
      /\ main' = IF s.by # "main" THEN main
                 ELSE IF main = "stopping" THEN "closing" ELSE "ready"
      /\ Running /\ Running' /\ Signals' = Signals
      /\ armed' \in BOOLEAN
  <2>1. armed' = (armed \/ (s.by = "timer" /\ ~stopped))
    BY DEF Post
  <2>2. armed' \in BOOLEAN
    BY <2>1 DEF IInv, TypeOK
  <2> QED
    BY <2>2 DEF Post, Running, Signals
<1>2. /\ s.by \in {"main", "timer", "async"} /\ s.post \in DOMAIN Signals
      /\ \A i \in DOMAIN Signals : i <= s.post
  BY SignalNames DEF IInv, TypeOK
<1>3. TypeOK'
  <2>1. sends' \subseteq [by : {"main", "timer", "async"}, batch : Seq(Receipts), post : DOMAIN Signals']
    BY <1>1 DEF IInv, TypeOK
  <2>2. main' \in {"sending", "stopping"} <=> \E t \in sends' : t.by = "main"
    BY <1>1 DEF IInv, TypeOK, OneMain
  <2> QED
    BY <1>1, <2>1, <2>2, PostSettles DEF IInv, TypeOK
<1>4. BatchesInOrder'
  BY <1>1 DEF IInv, BatchesInOrder
<1>5. BufferIsTail' /\ OneMain' /\ Disjoint'
  BY <1>1 DEF IInv, BufferIsTail, OneMain, Disjoint
<1>6. Stages'
  BY <1>1 DEF IInv, TypeOK, Stages, Running
<1>7. ASSUME NEW n \in Receipts, NEW i \in DOMAIN Signals
      PROVE  <<Signals[i], n>> \in arrived' \cup failed' <=>
               /\ n <= exported /\ ~In(n, buf)
               /\ \A t \in sends' : In(n, t.batch) => i < t.post
  <2>1. <<Signals[i], n>> \in arrived' \cup failed' <=>
          \/ <<Signals[i], n>> \in arrived \cup failed
          \/ i = s.post /\ In(n, s.batch)
    BY PostSettles
  <2>2. <<Signals[i], n>> \in arrived \cup failed <=>
          /\ n <= exported /\ ~In(n, buf)
          /\ \A t \in sends : In(n, t.batch) => i < t.post
    BY <1>1 DEF IInv, Done
  <2>3. CASE In(n, s.batch)
    <3>1. /\ n <= exported /\ ~In(n, buf)
          /\ \A t \in sends : In(n, t.batch) => t = s
      BY <2>3 DEF IInv, Disjoint
    <3>2. i < s.post \/ i = s.post
      BY <1>2, SignalNames
    <3> QED
      BY <1>1, <2>1, <2>2, <2>3, <3>1, <3>2
  <2>4. CASE ~In(n, s.batch)
    BY <1>1, <2>1, <2>2, <2>4
  <2> QED
    BY <2>3, <2>4
<1>8. Done'
  BY <1>1, <1>7, PostSettles DEF Done
<1> QED
  BY <1>3, <1>4, <1>5, <1>6, <1>8 DEF IInv

\* The invariant is inductive.
THEOREM Invariant == Spec => []IInv
<1>1. IInv /\ [Next]_vars => IInv'
  <2> SUFFICES ASSUME IInv, [Next]_vars PROVE IInv'
    OBVIOUS
  <2>1. CASE TimerSteps
    BY <2>1, TimerKeeps, TimerFlushesKeeps DEF TimerSteps
  <2>2. CASE PostSteps
    BY <2>2, PostGoesOn, PostEnds DEF PostSteps
  <2>3. CASE UNCHANGED vars
    BY <2>3 DEF vars, IInv, TypeOK, BatchesInOrder, BufferIsTail, Stages, OneMain, Disjoint, Done,
                Running, Signals
  <2> QED
    BY <2>1, <2>2, <2>3, BuffersKeep, FlushesKeep, ShutdownKeeps, ExitKeeps DEF Next, Exited
<1> QED
  BY <1>1, Initially, PTL DEF Spec

----------------------------------------------------------------------------
(* What it says of the exporters.                                          *)

\* Every variable keeps its type, and the main goroutine waits for a send
\* exactly while one of its own is under way.
THEOREM TypeCorrect == Spec => []TypeOK
BY Invariant, PTL DEF IInv

\* Batches are runs of consecutive receipts no longer than batchSize, and the
\* buffer stays below it: a slow collector does not make it grow.
THEOREM Ordered == Spec => []BatchesInOrder
<1>1. IInv => BatchesInOrder
  BY DEF IInv
<1> QED
  BY <1>1, Invariant, PTL

\* The receipts whose post of signal i is still to come.
LEMMA PostingOf ==
  ASSUME IInv, NEW n, NEW i \in DOMAIN Signals
  PROVE  Posting(n, Signals[i]) = {s \in sends : In(n, s.batch) /\ i >= s.post}
BY SignalNames DEF Posting, IInv, TypeOK

\* However Export, the timer goroutines and Shutdown race for the buffer, a
\* receipt is in one place only while the process runs: none is lost or sent
\* twice, and a post that fails takes no other signal with it.
THEOREM OnePlace == Spec => []EachInOnePlace
<1>1. IInv => EachInOnePlace
  <2> SUFFICES ASSUME IInv, Running, NEW n \in 1 .. exported, NEW i \in DOMAIN Signals
               PROVE  LET g == Signals[i]
                          places == {b \in {"buf"} : Buffered(n)}
                                    \cup {b \in {"arrived"} : <<g, n>> \in arrived}
                                    \cup {b \in {"failed"} : <<g, n>> \in failed}
                      IN \/ Posting(n, g) = {} /\ \E b \in places : places = {b}
                         \/ places = {} /\ \E s \in sends : Posting(n, g) = {s}
    BY DEF EachInOnePlace
  <2> DEFINE places == {b \in {"buf"} : Buffered(n)}
                       \cup {b \in {"arrived"} : <<Signals[i], n>> \in arrived}
                       \cup {b \in {"failed"} : <<Signals[i], n>> \in failed}
             batches == {s \in sends : In(n, s.batch) /\ i >= s.post}
  <2>1. n \in Receipts /\ n <= exported /\ i \in Nat
    BY Numbers, SignalNames DEF IInv, TypeOK
  <2>2. Posting(n, Signals[i]) = batches
    BY PostingOf
  <2>3. /\ \A s \in sends : s.post \in Nat
        /\ \A s, t \in sends : In(n, s.batch) /\ In(n, t.batch) => s = t
        /\ \A s \in sends : In(n, s.batch) => ~Buffered(n)
        /\ ~(<<Signals[i], n>> \in arrived /\ <<Signals[i], n>> \in failed)
        /\ <<Signals[i], n>> \in arrived \cup failed <=>
             ~Buffered(n) /\ \A s \in sends : In(n, s.batch) => i < s.post
    BY <2>1, SignalNames DEF IInv, TypeOK, Disjoint, Done, Buffered
  <2>4. CASE Buffered(n)
    <3>1. batches = {}
      BY <2>3, <2>4
    <3>2. places = {"buf"}
      BY <2>3, <2>4
    <3> QED
      BY <2>2, <3>1, <3>2
  <2>5. CASE ~Buffered(n) /\ \E s \in batches : TRUE
    <3>1. PICK s \in batches : TRUE
      BY <2>5
    <3>2. batches = {s}
      BY <2>3, <3>1
    <3>3. places = {}
      BY <2>1, <2>3, <2>5, <3>1
    <3> QED
      BY <2>2, <3>2, <3>3
  <2>6. CASE ~Buffered(n) /\ ~(\E s \in batches : TRUE)
    <3>1. batches = {}
      BY <2>6
    <3>2. \A s \in sends : In(n, s.batch) => i < s.post
      BY <2>1, <2>3, <3>1
    <3>3. <<Signals[i], n>> \in arrived \cup failed
      BY <2>3, <2>6, <3>2
    <3>4. places = {"arrived"} \/ places = {"failed"}
      BY <2>3, <2>6, <3>3
    <3> QED
      BY <2>2, <3>1, <3>4
  <2> QED
    BY <2>4, <2>5, <2>6
<1> QED
  BY <1>1, Invariant, PTL

\* When the main goroutine is past Shutdown every receipt was posted, or is in
\* the hands of another goroutine.
THEOREM ShutdownFlushes == Spec => []NothingLeftBehind
<1>1. IInv => NothingLeftBehind
  <2> SUFFICES ASSUME IInv, main = "closing", NEW n \in 1 .. exported, NEW i \in DOMAIN Signals
               PROVE  \/ <<Signals[i], n>> \in arrived \cup failed
                      \/ \E s \in Posting(n, Signals[i]) : s.by # "main"
    BY DEF NothingLeftBehind
  <2>1. n \in Receipts /\ n <= exported /\ i \in Nat /\ Running /\ ~In(n, buf)
    BY Numbers, SignalNames, InEmpty DEF IInv, TypeOK, Stages, Running
  <2>2. \A s \in sends : s.by # "main" /\ s.post \in Nat
    BY SignalNames DEF IInv, TypeOK
  <2>3. CASE \A s \in sends : In(n, s.batch) => i < s.post
    BY <2>1, <2>3 DEF IInv, Done
  <2>4. CASE \E s \in sends : In(n, s.batch) /\ ~(i < s.post)
    BY <2>1, <2>2, <2>4, PostingOf
  <2> QED
    BY <2>3, <2>4
<1> QED
  BY <1>1, Invariant, PTL
=============================================================================
