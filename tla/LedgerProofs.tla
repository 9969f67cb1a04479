---------------------------- MODULE LedgerProofs ----------------------------
(***************************************************************************)
(* Theorems about module Ledger, for any processes, ages and bounds.       *)
(***************************************************************************)
EXTENDS Ledger, SequenceTheorems, WellFoundedInduction, TLAPS

----------------------------------------------------------------------------
(* The inductive invariant.  It says nothing of a file that was disturbed. *)

Holding == {"loaded", "writing", "renaming"}

\* A process purges only when it starts.
Purging ==
  \A p \in Proc : /\ pc[p] \notin Holding \cup {"purge"} => todo[p] = {}
                  /\ pc[p] \in Holding => todo[p] # {}

\* The clock does not go back, so that no purge removes more than the latest could.
Cutoffs == \A p \in Proc : cut[p] <= 0 \/ cut[p] <= now - MaxAge

Expired(c) == \E q \in Proc : c.t < cut[q]

Has(ls, c) ==
  \E i \in DOMAIN ls : ls[i].st \in Recorded /\ ls[i].call = c.call /\ ls[i].t = c.t

\* A file that can be read is a chain, if its process has always recovered it.
Intact(f) ==
  /\ f \notin files => lines[f] = << >>
  /\ Readable(lines[f]) => Chained(lines[f]) \/ f \in afresh

\* What is accepted is in the file until it is too old.
AcceptedIn(f) == \A c \in committed[f] : Expired(c) \/ (f \in files /\ Has(lines[f], c))

EndsInRecord(f) == HasLast(f) => LastLine(f).st \in Recorded

\* The memory of a process is at the end of its file, or will be, as purgeFile
\* leaves a last record it can recover; the next record follows on the memory,
\* and one that is written is the last of the file.
Follows(p) ==
  /\ pc[p] \in {"ready", "opened"} /\ EndsInRecord(p) =>
       mem[p] = LastRecord(p) \/ (p \in afresh /\ LastFails(p))
  /\ pc[p] \in Holding \cup {"purge"} => ~TooLong(p) \/ p \in afresh
  /\ pc[p] \in {"opened", "written"} => p \in files /\ rec[p].st \in Recorded
  /\ pc[p] = "opened" =>
       /\ fd[p] = "path"
       /\ rec[p].prev = mem[p].last /\ rec[p].hash = ComputeHash(rec[p], mem[p].last)
  /\ pc[p] = "written" => lines[p] # << >> /\ lines[p][Len(lines[p])] = rec[p]

\* Who rewrites a file is alone with it, and what it keeps is a chain that
\* begins with no old record, ends in the last one and has all that was accepted.
EndsAs(new, old) == old # << >> /\ new[Len(new)].st = old[Len(old)].st

Rewrites(q, f) ==
  /\ f = q \/ ~Alive(f)
  /\ \A r \in Proc : Holds(r, f) => r = q
  /\ Readable(kept[q]) /\ Chained(kept[q])
  /\ kept[q] # << >> => kept[q][1].t >= cut[q] /\ EndsAs(kept[q], lines[f])
  /\ \A c \in committed[f] : Expired(c) \/ Has(kept[q], c)
  /\ pc[q] = "writing" => fd[q] = "tmp" /\ tmp[f] = << >>
  /\ pc[q] = "renaming" => tmp[f] = kept[q]

Whole(f) ==
  /\ Intact(f) /\ AcceptedIn(f) /\ Follows(f)
  /\ \A q \in Proc : Holds(q, f) => Rewrites(q, f)

IInv ==
  /\ TypeOK /\ Purging /\ Cutoffs
  /\ \A f \in Proc \ disturbed : Whole(f)

----------------------------------------------------------------------------
(* Numbers, and the two CHOOSEs over them.                                 *)

LEMMA Numbers == Proc \subseteq Nat /\ MaxAge \in Nat /\ MaxTime \in Nat /\ MaxStarts \in Nat
                 /\ MaxCalls \in Nat /\ MaxFaults \in Nat
BY LedgerAssumption DEF LedgerAssumption

\* Every set of numbers that is not empty has a least one.
LEMMA Least ==
  ASSUME NEW S \in SUBSET Nat, S # {}
  PROVE  \E n \in S : \A m \in S : n <= m
<1>1. \E n \in S : \A m \in S : ~ (<<m, n>> \in OpToRel(<, Nat))
  BY NatLessThanWellFounded, WFMin, Zenon
<1>2. PICK n \in S : \A m \in S : ~ (<<m, n>> \in OpToRel(<, Nat))
  BY <1>1
<1>3. ASSUME NEW m \in S PROVE ~ (m < n)
  <2>1. <<m, n>> \in Nat \X Nat
    BY <1>2
  <2>2. <<m, n>>[1] = m /\ <<m, n>>[2] = n
    OBVIOUS
  <2> QED
    BY <1>2, <2>1, <2>2, Zenon DEF OpToRel
<1>4. \A m \in S : n \in Nat /\ m \in Nat /\ ~ (m < n)
  BY <1>3
<1>5. \A m \in S : n <= m
  BY <1>4
<1> QED
  BY <1>5

\* The file a process purges next is one of those it has to.
LEMMA TargetOf ==
  ASSUME NEW p, todo[p] \subseteq Proc, todo[p] # {}
  PROVE  Target(p) \in todo[p]
<1>1. \E f \in todo[p] : \A g \in todo[p] : f <= g
  BY Least, Numbers
<1> QED
  BY <1>1, Zenon DEF Target

----------------------------------------------------------------------------
(* Lines.                                                                  *)

Payloads == [call : Nat, seq : Nat, t : Nat]

LEMMA LineTypes ==
  /\ \A r \in LineType :
        /\ r.st \in Recorded \cup {"part", "bad"} /\ r.call \in 0 .. MaxCalls
        /\ r.seq \in Nat /\ r.t \in Nat /\ r.prev \in Seq(Payloads) /\ r.hash \in Seq(Payloads)
        /\ Payload(r) \in Payloads
  /\ \A st \in {"part", "bad"} : Garbage(st) \in LineType /\ Garbage(st).st = st
<1>1. 0 \in 0 .. MaxCalls /\ \A n \in 0 .. MaxCalls : n \in Nat
  BY Numbers
<1>2. Genesis \in Seq(Payloads)
  BY DEF Genesis
<1> QED
  BY <1>1, <1>2 DEF LineType, Payload, Payloads, Garbage, Recorded

\* The records from the first that is as young as the cutoff are kept.
LEMMA KeepFromFirst ==
  ASSUME NEW ls \in Seq(LineType), NEW c \in Int
  PROVE  /\ KeepFrom(ls, c) \in 0 .. Len(ls)
         /\ \A i \in 1 .. KeepFrom(ls, c) : ls[i].t < c
         /\ KeepFrom(ls, c) < Len(ls) => ls[KeepFrom(ls, c) + 1].t >= c
<1> DEFINE P(k) == (\A i \in 1 .. k : ls[i].t < c) /\ (k < Len(ls) => ls[k + 1].t >= c)
           Young == {k \in 0 .. Len(ls) : k < Len(ls) => ls[k + 1].t >= c}
<1>0. Len(ls) \in Nat /\ \A i \in 1 .. Len(ls) : ls[i].t \in Nat
  BY ElementOfSeq, LineTypes
<1>1. Len(ls) \in Young /\ Young \in SUBSET Nat
  BY <1>0
<1>2. PICK k \in Young : \A m \in Young : k <= m
  BY <1>1, Least
<1>3. ASSUME NEW i \in 1 .. k PROVE ls[i].t < c
  <2>1. i - 1 \in 0 .. Len(ls) /\ i - 1 < k /\ i \in 1 .. Len(ls) /\ i - 1 < Len(ls) /\ (i - 1) + 1 = i
    BY <1>0, <1>2
  <2>2. i - 1 \notin Young
    BY <1>1, <1>2, <2>1
  <2> QED
    BY <1>0, <2>1, <2>2
<1>4. k \in 0 .. Len(ls) /\ P(k)
  BY <1>2, <1>3
<1>5. \E m \in 0 .. Len(ls) : P(m)
  BY <1>4
<1>6. KeepFrom(ls, c) = CHOOSE m \in 0 .. Len(ls) : P(m)
  BY DEF KeepFrom
<1> HIDE DEF P
<1>7. KeepFrom(ls, c) \in 0 .. Len(ls) /\ P(KeepFrom(ls, c))
  BY <1>5, <1>6, Zenon
<1> QED
  BY <1>7 DEF P

\* What is re-chained is a chain of the same records.
LEMMA Rechained ==
  ASSUME NEW ls \in Seq(LineType)
  PROVE  /\ Rechain(ls) \in Seq(LineType)
         /\ Len(Rechain(ls)) = Len(ls) /\ DOMAIN Rechain(ls) = DOMAIN ls
         /\ \A i \in DOMAIN ls : /\ Rechain(ls)[i].st = ls[i].st
                                 /\ Rechain(ls)[i].call = ls[i].call
                                 /\ Rechain(ls)[i].t = ls[i].t
         /\ Chained(Rechain(ls))
<1> DEFINE Hash(i) == [j \in 1 .. i |-> Payload(ls[j])]
           New(i) == [ls[i] EXCEPT !.prev = Hash(i - 1), !.hash = Hash(i)]
<1>0. Len(ls) \in Nat /\ DOMAIN ls = 1 .. Len(ls) /\ \A i \in 1 .. Len(ls) : ls[i] \in LineType
  BY ElementOfSeq
<1>1. Rechain(ls) = [i \in 1 .. Len(ls) |-> New(i)]
  BY <1>0, Zenon DEF Rechain
<1>2. ASSUME NEW i \in 0 .. Len(ls) PROVE Hash(i) \in Seq(Payloads) /\ Len(Hash(i)) = i
  <2>1. i \in Nat /\ \A j \in 1 .. i : Payload(ls[j]) \in Payloads
    BY <1>0, LineTypes
  <2>2. Hash(i) \in [1 .. i -> Payloads]
    BY <2>1
  <2> HIDE DEF Hash
  <2> QED
    BY <2>1, <2>2
<1>3. ASSUME NEW i \in 1 .. Len(ls)
      PROVE  /\ New(i) \in LineType
             /\ New(i).st = ls[i].st /\ New(i).call = ls[i].call /\ New(i).t = ls[i].t
             /\ New(i).prev = Hash(i - 1) /\ New(i).hash = Hash(i)
             /\ Payload(New(i)) = Payload(ls[i])
  <2>1. Hash(i) \in Seq(Payloads) /\ Hash(i - 1) \in Seq(Payloads)
    BY <1>0, <1>2
  <2> HIDE DEF Hash
  <2> QED
    BY <1>0, <2>1 DEF LineType, Payload, Payloads
<1>4. Rechain(ls) \in [1 .. Len(ls) -> LineType] /\ Len(Rechain(ls)) = Len(ls)
      /\ \A i \in 1 .. Len(ls) : Rechain(ls)[i] = New(i)
  <2> HIDE DEF New
  <2>1. [i \in 1 .. Len(ls) |-> New(i)] \in [1 .. Len(ls) -> LineType]
    BY <1>3
  <2>2. \A i \in 1 .. Len(ls) : Rechain(ls)[i] = New(i)
    BY <1>1
  <2>3. Rechain(ls) \in Seq(LineType) /\ DOMAIN Rechain(ls) = 1 .. Len(ls)
    BY <1>0, <1>1, <2>1
  <2> QED
    BY <1>0, <1>1, <2>1, <2>2, <2>3
<1>5. ASSUME NEW i \in 1 .. Len(ls)
      PROVE  Hash(i) = Append(Hash(i - 1), Payload(ls[i]))
  <2>1. i - 1 \in 0 .. Len(ls) /\ i \in 0 .. Len(ls) /\ Payload(ls[i]) \in Payloads
    BY <1>0, LineTypes
  <2>2. Hash(i - 1) \in Seq(Payloads) /\ Len(Hash(i - 1)) = i - 1 /\ Hash(i) \in Seq(Payloads) /\ Len(Hash(i)) = i
    BY <1>2, <2>1
  <2>3. /\ Append(Hash(i - 1), Payload(ls[i])) \in Seq(Payloads)
        /\ Len(Append(Hash(i - 1), Payload(ls[i]))) = i
        /\ \A j \in 1 .. i - 1 : Append(Hash(i - 1), Payload(ls[i]))[j] = Hash(i - 1)[j]
        /\ Append(Hash(i - 1), Payload(ls[i]))[i] = Payload(ls[i])
    <3> HIDE DEF Hash
    <3> QED  BY <2>1, <2>2, AppendProperties
  <2>4. \A j \in 1 .. i : Hash(i)[j] = Append(Hash(i - 1), Payload(ls[i]))[j]
    BY <2>1, <2>3
  <2> HIDE DEF Hash
  <2> QED
    BY <2>2, <2>3, <2>4, SeqEqual
<1>6. Hash(0) = Genesis
  <2>1. Hash(0) \in Seq(Payloads) /\ Len(Hash(0)) = 0
    BY <1>0, <1>2
  <2> HIDE DEF Hash
  <2> QED
    BY <2>1, EmptySeq DEF Genesis
<1> HIDE DEF Hash, New
<1>7. ASSUME NEW i \in 1 .. Len(ls)
      PROVE  LET prev == IF i = 1 THEN Genesis ELSE Rechain(ls)[i - 1].hash
             IN  Rechain(ls)[i].prev = prev /\ Rechain(ls)[i].hash = ComputeHash(Rechain(ls)[i], prev)
  <2> DEFINE prev == IF i = 1 THEN Genesis ELSE Rechain(ls)[i - 1].hash
  <2>1. prev = Hash(i - 1)
    <3>1. CASE i = 1
      BY <3>1, <1>6
    <3>2. CASE i # 1
      <4>1. i - 1 \in 1 .. Len(ls)
        BY <3>2, <1>0
      <4> QED
        BY <3>2, <4>1, <1>3, <1>4
    <3> QED
      BY <3>1, <3>2
  <2>2. ComputeHash(Rechain(ls)[i], Hash(i - 1)) = Hash(i)
    BY <1>3, <1>4, <1>5 DEF ComputeHash
  <2> QED
    BY <1>3, <1>4, <2>1, <2>2
<1>8. DOMAIN Rechain(ls) = 1 .. Len(ls) /\ Rechain(ls) \in Seq(LineType)
  BY <1>0, <1>4
<1>9. Chained(Rechain(ls))
  BY <1>7, <1>8, Zenon DEF Chained
<1> QED
  BY <1>0, <1>3, <1>4, <1>8, <1>9

\* A record that follows on the last one continues the chain.
LEMMA Appended ==
  ASSUME NEW ls \in Seq(LineType), NEW r \in LineType
  PROVE  /\ Append(ls, r) \in Seq(LineType)
         /\ Append(ls, r) # << >> /\ Append(ls, r)[Len(Append(ls, r))] = r
         /\ Readable(Append(ls, r)) => Readable(ls)
         /\ \A c : Has(ls, c) => Has(Append(ls, r), c)
         /\ Chained(ls) /\ r.prev = (IF ls = << >> THEN Genesis ELSE ls[Len(ls)].hash)
                        /\ r.hash = ComputeHash(r, r.prev) => Chained(Append(ls, r))
<1> DEFINE new == Append(ls, r)
<1>1. /\ new \in Seq(LineType) /\ new # << >> /\ Len(new) = Len(ls) + 1
      /\ \A i \in 1 .. Len(ls) : new[i] = ls[i]
      /\ new[Len(ls) + 1] = r
  BY AppendProperties
<1>2. Len(ls) \in Nat /\ DOMAIN ls = 1 .. Len(ls) /\ DOMAIN new = 1 .. Len(ls) + 1
  BY <1>1, LenProperties
<1> HIDE DEF new
<1>3. Readable(new) => Readable(ls)
  BY <1>1, <1>2 DEF Readable
<1>4. ASSUME NEW c, Has(ls, c) PROVE Has(new, c)
  BY <1>1, <1>2, <1>4 DEF Has
<1>5. ASSUME Chained(ls), r.prev = (IF ls = << >> THEN Genesis ELSE ls[Len(ls)].hash),
             r.hash = ComputeHash(r, r.prev)
      PROVE  Chained(new)
  <2>1. ls = << >> <=> Len(ls) = 0
    BY EmptySeq
  <2> SUFFICES ASSUME NEW i \in 1 .. Len(ls) + 1
               PROVE  LET prev == IF i = 1 THEN Genesis ELSE new[i - 1].hash
                      IN  new[i].prev = prev /\ new[i].hash = ComputeHash(new[i], prev)
    BY <1>2, Zenon DEF Chained
  <2>2. CASE i = Len(ls) + 1
    <3>1. (IF i = 1 THEN Genesis ELSE new[i - 1].hash) = r.prev
      <4>1. CASE i = 1
        BY <4>1, <2>1, <2>2, <1>2, <1>5
      <4>2. CASE i # 1
        <5>1. i - 1 = Len(ls) /\ i - 1 \in 1 .. Len(ls) /\ ls # << >>
          BY <4>2, <2>1, <2>2, <1>2
        <5>2. new[i - 1] = ls[Len(ls)]
          BY <5>1, <1>1
        <5> QED
          BY <4>2, <5>1, <5>2, <1>5
      <4> QED
        BY <4>1, <4>2
    <3>2. new[i] = r
      BY <2>2, <1>1
    <3> QED
      BY <3>1, <3>2, <1>5
  <2>3. CASE i \in 1 .. Len(ls)
    <3>1. /\ ls[i].prev = (IF i = 1 THEN Genesis ELSE ls[i - 1].hash)
          /\ ls[i].hash = ComputeHash(ls[i], IF i = 1 THEN Genesis ELSE ls[i - 1].hash)
      BY <2>3, <1>2, <1>5, Zenon DEF Chained
    <3>2. i # 1 => i - 1 \in 1 .. Len(ls)
      BY <2>3, <1>2
    <3>3. new[i] = ls[i] /\ (i # 1 => new[i - 1] = ls[i - 1])
      BY <2>3, <3>2, <1>1
    <3> QED
      BY <3>1, <3>3
  <2> QED
    BY <2>2, <2>3, <1>2
<1>6. new[Len(new)] = r
  BY <1>1
<1> QED
  BY <1>1, <1>3, <1>4, <1>5, <1>6 DEF new

\* AddLine appends, unless the last line is the beginning of one.
LEMMA AddedLine ==
  ASSUME NEW ls \in Seq(LineType), NEW r \in LineType
  PROVE  /\ AddLine(ls, r) \in Seq(LineType)
         /\ AddLine(ls, r) # << >>
         /\ AddLine(ls, r)[Len(AddLine(ls, r))].st \in {r.st, "part", "bad"}
         /\ r.st = "part" => AddLine(ls, r)[Len(AddLine(ls, r))].st = "part"
         /\ \A c : Has(ls, c) => Has(AddLine(ls, r), c)
         /\ ~Torn(ls) => AddLine(ls, r) = Append(ls, r)
<1> DEFINE g == Garbage(IF r.st = "part" THEN "part" ELSE "bad")
           new == [ls EXCEPT ![Len(ls)] = g]
<1>1. CASE ~Torn(ls)
  BY <1>1, Appended DEF AddLine
<1>2. CASE Torn(ls)
  <2>1. AddLine(ls, r) = new
    BY <1>2 DEF AddLine
  <2>2. ls # << >> /\ ls[Len(ls)].st = "part" /\ Len(ls) \in 1 .. Len(ls) /\ DOMAIN ls = 1 .. Len(ls)
    BY <1>2, EmptySeq, LenProperties DEF Torn
  <2>3. g \in LineType /\ g.st \in {"part", "bad"} /\ (r.st = "part" => g.st = "part")
    BY LineTypes, Zenon
  <2> HIDE DEF g
  <2>4. /\ new \in Seq(LineType) /\ Len(new) = Len(ls)
        /\ \A j \in 1 .. Len(ls) : new[j] = IF j = Len(ls) THEN g ELSE ls[j]
    BY <2>2, <2>3, ExceptSeq
  <2>5. DOMAIN new = 1 .. Len(ls) /\ new # << >> /\ new[Len(new)] = g
    BY <2>2, <2>4
  <2> HIDE DEF new
  <2>6. ASSUME NEW c, Has(ls, c) PROVE Has(new, c)
    <3>1. PICK i \in 1 .. Len(ls) : ls[i].st \in Recorded /\ ls[i].call = c.call /\ ls[i].t = c.t
      BY <2>2, <2>6 DEF Has
    <3>2. i # Len(ls)
      BY <2>2, <3>1 DEF Recorded
    <3> QED
      BY <2>4, <2>5, <3>1, <3>2 DEF Has
  <2> QED
    BY <1>2, <2>1, <2>3, <2>4, <2>5, <2>6
<1> QED
  BY <1>1, <1>2

LEMMA Overwritten ==
  ASSUME NEW new \in Seq(LineType), NEW old \in Seq(LineType)
  PROVE  /\ Overwrite(new, old) \in Seq(LineType)
         /\ old = << >> => Overwrite(new, old) = new
<1>1. Garbage("bad") \in LineType
  BY LineTypes
<1>2. Len(new) \in Nat /\ (old = << >> => Len(old) = 0)
  OBVIOUS
<1> QED
  BY <1>1, <1>2, AppendProperties DEF Overwrite

\* A line at the end that is no record keeps a file from being read.
LEMMA EndsBadly ==
  ASSUME NEW ls \in Seq(LineType), ls # << >>, ls[Len(ls)].st \notin {"ok", "long"}
  PROVE  ~Readable(ls)
BY EmptySeq, LenProperties DEF Readable

\* What purgeFile keeps of a file it can read: a chain that begins with no old
\* record and misses none that is younger than the cutoff.
LEMMA KeptRecords ==
  ASSUME NEW ls \in Seq(LineType), NEW c \in Int, Readable(ls)
  PROVE  LET k == KeepFrom(ls, c)
             new == Rechain(SubSeq(ls, k + 1, Len(ls)))
         IN  /\ new \in Seq(LineType) /\ Readable(new) /\ Chained(new)
             /\ new # << >> => new[1].t >= c /\ EndsAs(new, ls)
             /\ \A r : Has(ls, r) => r.t < c \/ Has(new, r)
<1> DEFINE k == KeepFrom(ls, c)
           n == Len(ls)
           sub == SubSeq(ls, k + 1, n)
           new == Rechain(sub)
<1>1. k \in 0 .. n /\ (\A i \in 1 .. k : ls[i].t < c) /\ (k < n => ls[k + 1].t >= c)
  BY KeepFromFirst
<1> HIDE DEF k
<1>2. n \in Nat /\ DOMAIN ls = 1 .. n /\ \A i \in 1 .. n : ls[i] \in LineType
  BY ElementOfSeq
<1>3. sub \in Seq(LineType) /\ Len(sub) = n - k /\ \A i \in 1 .. n - k : sub[i] = ls[k + i]
  <2>1. k + 1 \in Int /\ n \in Int /\ \A i \in k + 1 .. n : ls[i] \in LineType
    BY <1>1, <1>2
  <2>2. /\ sub \in Seq(LineType)
        /\ Len(sub) = IF k + 1 <= n THEN n - (k + 1) + 1 ELSE 0
        /\ \A i \in 1 .. n - (k + 1) + 1 : sub[i] = ls[(k + 1) + i - 1]
    BY <2>1, SubSeqProperties
  <2> HIDE DEF sub
  <2> HIDE DEF n
  <2>3. k \in Int /\ n \in Int /\ k <= n
    BY <1>1, <1>2
  <2>4. /\ n - (k + 1) + 1 = n - k
        /\ (IF k + 1 <= n THEN n - (k + 1) + 1 ELSE 0) = n - k
        /\ \A i \in 1 .. n - k : (k + 1) + i - 1 = k + i
    BY <2>3
  <2> QED
    BY <2>2, <2>4
<1> HIDE DEF sub
<1>4. /\ new \in Seq(LineType) /\ Len(new) = n - k /\ DOMAIN new = 1 .. n - k /\ DOMAIN sub = 1 .. n - k
      /\ \A i \in 1 .. n - k : new[i].st = sub[i].st /\ new[i].call = sub[i].call /\ new[i].t = sub[i].t
      /\ Chained(new)
  BY <1>3, Rechained, LenProperties
<1> HIDE DEF new
<1>5. ASSUME NEW i \in 1 .. n - k PROVE k + i \in 1 .. n
  BY <1>1, <1>2
<1>6. Readable(new)
  BY <1>2, <1>3, <1>4, <1>5 DEF Readable
<1>7. ASSUME new # << >> PROVE new[1].t >= c /\ EndsAs(new, ls)
  <2>1. k < n /\ 1 \in 1 .. n - k /\ n - k \in 1 .. n - k /\ k + (n - k) = n
    BY <1>1, <1>2, <1>4, <1>7, EmptySeq
  <2>2. new[1].t >= c
    BY <1>1, <1>3, <1>4, <2>1
  <2>3. new[n - k].st = ls[n].st
    BY <1>3, <1>4, <2>1
  <2>4. ls # << >>
    BY <1>1, <1>2, <2>1, EmptySeq
  <2> QED
    BY <1>4, <2>2, <2>3, <2>4 DEF EndsAs
<1>8. ASSUME NEW r, Has(ls, r) PROVE r.t < c \/ Has(new, r)
  <2>1. PICK i \in 1 .. n : ls[i].st \in Recorded /\ ls[i].call = r.call /\ ls[i].t = r.t
    BY <1>2, <1>8 DEF Has
  <2>2. CASE i <= k
    <3>1. i \in 1 .. k
      BY <2>2, <1>1, <1>2
    <3> QED
      BY <1>1, <2>1, <3>1
  <2>3. CASE i > k
    <3>1. i - k \in 1 .. n - k /\ k + (i - k) = i
      BY <2>3, <1>1, <1>2
    <3> QED
      BY <1>3, <1>4, <2>1, <3>1 DEF Has
  <2> QED
    BY <2>2, <2>3, <1>1, <1>2
<1> QED
  BY <1>4, <1>6, <1>7, <1>8 DEF new, sub, k, n

----------------------------------------------------------------------------
(* What a step leaves alone.                                               *)

LEMMA SameHolder ==
  ASSUME NEW q, NEW f, pc'[q] = pc[q], todo'[q] = todo[q]
  PROVE  Holds(q, f)' <=> Holds(q, f)
BY DEF Holds, Target

LEMMA SameLast ==
  ASSUME NEW f, lines'[f] = lines[f], f \in files' <=> f \in files
  PROVE  /\ (LastFails(f)' <=> LastFails(f)) /\ LastState(f)' = LastState(f)
         /\ LastRecord(f)' = LastRecord(f)
         /\ (TooLong(f)' <=> TooLong(f)) /\ (EndsInRecord(f)' <=> EndsInRecord(f))
BY DEF LastFails, LastState, LastRecord, TooLong, EndsInRecord, HasLast, LastLine

\* A record is recovered unless it is too long.
LEMMA Recovered ==
  ASSUME NEW f, EndsInRecord(f)
  PROVE  /\ TooLong(f) <=> LastFails(f)
         /\ ~LastFails(f) => LastState(f) = LastRecord(f)
BY DEF TooLong, EndsInRecord, LastFails, LastState, Recorded

LEMMA SameFollows ==
  ASSUME NEW f, Follows(f),
         pc'[f] = pc[f], mem'[f] = mem[f], rec'[f] = rec[f], lines'[f] = lines[f],
         f \in files' <=> f \in files, pc[f] = "opened" => fd'[f] = fd[f],
         afresh \subseteq afresh'
  PROVE  Follows(f)'
<1>1. /\ LastRecord(f)' = LastRecord(f) /\ (LastFails(f)' <=> LastFails(f))
      /\ (TooLong(f)' <=> TooLong(f)) /\ (EndsInRecord(f)' <=> EndsInRecord(f))
  BY SameLast
<1> QED
  BY <1>1 DEF Follows

LEMMA SameRewrites ==
  ASSUME NEW q, NEW f, Rewrites(q, f),
         pc'[q] = pc[q], kept'[q] = kept[q], cut'[q] = cut[q], tmp'[f] = tmp[f],
         lines'[f] = lines[f],
         committed'[f] = committed[f], \A c \in committed[f] : Expired(c) => Expired(c)',
         pc[q] = "writing" => fd'[q] = fd[q],
         f = q \/ (Alive(f)' => Alive(f)),
         \A r \in Proc : Holds(r, f)' => Holds(r, f)
  PROVE  Rewrites(q, f)'
<1>1. \A c \in committed'[f] : Expired(c)' \/ Has(kept'[q], c)
  BY DEF Rewrites
<1>2. (\A c \in committed[f] : Expired(c) \/ Has(kept[q], c))' <=> \A c \in committed'[f] : Expired(c)' \/ Has(kept'[q], c)
  BY DEF Has
<1> QED
  BY <1>1, <1>2 DEF Rewrites

\* A file whose lines a step leaves alone stays whole if those do who hold it.
LEMMA Untouched ==
  ASSUME NEW f, Whole(f),
         lines'[f] = lines[f], f \in files' <=> f \in files, tmp'[f] = tmp[f],
         committed'[f] = committed[f], \A c \in committed[f] : Expired(c) => Expired(c)',
         Follows(f)', Alive(f)' => Alive(f), afresh \subseteq afresh',
         \A q \in Proc : Holds(q, f)' =>
            /\ Holds(q, f)
            /\ pc'[q] = pc[q] /\ kept'[q] = kept[q] /\ cut'[q] = cut[q]
            /\ pc[q] = "writing" => fd'[q] = fd[q]
  PROVE  Whole(f)'
<1>1. Intact(f)'
  BY DEF Whole, Intact, Readable, Chained
<1>2. AcceptedIn(f)'
  <2>1. \A c \in committed[f] : Expired(c) \/ (f \in files /\ Has(lines[f], c))
    BY DEF Whole, AcceptedIn
  <2>2. \A c \in committed'[f] : Expired(c)' \/ (f \in files' /\ Has(lines'[f], c))
    BY <2>1
  <2> QED
    BY <2>2 DEF AcceptedIn, Has
<1>3. ASSUME NEW q \in Proc, Holds(q, f)' PROVE Rewrites(q, f)'
  <2>1. Holds(q, f) /\ Rewrites(q, f)
    BY <1>3 DEF Whole
  <2> QED
    BY <1>3, <2>1, SameRewrites
<1> QED
  BY <1>1, <1>2, <1>3 DEF Whole

----------------------------------------------------------------------------
(* Types.                                                                  *)

LEMMA TargetHeld ==
  ASSUME TypeOK, Purging, NEW p \in Proc, pc[p] \in Holding
  PROVE  /\ Target(p) \in Proc /\ Target(p) \in todo[p]
         /\ \A f : Holds(p, f) <=> f = Target(p)
<1>1. todo[p] \subseteq Proc /\ todo[p] # {}
  BY DEF TypeOK, Purging
<1> QED
  BY <1>1, TargetOf DEF Holds, Holding

LEMMA LastOfType ==
  ASSUME TypeOK, NEW p \in Proc
  PROVE  LastState(p) \in [seq : Nat, last : Seq(Payloads)]
<1>1. lines[p] \in Seq(LineType) /\ Fresh \in [seq : Nat, last : Seq(Payloads)]
  BY DEF TypeOK, Fresh, Genesis
<1>2. ASSUME HasLast(p) PROVE lines[p][Len(lines[p])].seq \in Nat /\ lines[p][Len(lines[p])].hash \in Seq(Payloads)
  <2>1. Len(lines[p]) \in 1 .. Len(lines[p])
    BY <1>1, <1>2, EmptySeq DEF HasLast
  <2> QED
    BY <1>1, <2>1, ElementOfSeq, LineTypes
<1> QED
  BY <1>1, <1>2 DEF LastState, LastRecord, LastLine

LEMMA NoRecType == NoRec \in LineType
BY LineTypes DEF NoRec

LEMMA StartType == ASSUME TypeOK, NEW p \in Proc, NEW purge \in BOOLEAN, Start(p, purge) PROVE TypeOK'
<1>1. LastState(p) \in [seq : Nat, last : Seq(Payloads)]
  BY LastOfType
<1>2. now - MaxAge \in Int
  BY Numbers DEF TypeOK
<1>7. starts' \in 0 .. MaxStarts
  BY Numbers DEF TypeOK, Start
<1>8. disturbed' = disturbed \cup {f \in {p} : \E q \in Proc : Holds(q, f)}
  BY DEF Start
<1>9. afresh' = afresh \cup {f \in {p} : TooLong(f)}
  BY DEF Start
<1>3. starts' \in 0 .. MaxStarts /\ disturbed' \subseteq Proc /\ afresh' \subseteq Proc
  BY <1>7, <1>8, <1>9 DEF TypeOK
<1>4. mem' \in [Proc -> [seq : Nat, last : Seq(Payloads)]]
  BY <1>1 DEF TypeOK, Start, Payloads
<1>5. todo' \in [Proc -> SUBSET Proc] /\ cut' \in [Proc -> Int]
  <2>1. CASE purge
    <3>1. todo' = [todo EXCEPT ![p] = files] /\ cut' = [cut EXCEPT ![p] = now - MaxAge]
      BY <2>1 DEF Start
    <3> QED
      BY <1>2, <3>1 DEF TypeOK
  <2>2. CASE ~purge
    BY <2>2 DEF TypeOK, Start
  <2> QED
    BY <2>1, <2>2
<1>6. pc' \in [Proc -> {"off", "purge", "loaded", "writing", "renaming", "ready", "opened", "written"}]
      /\ \A q \in Proc : fd[q] # "none" => pc'[q] = pc[q]
  BY DEF TypeOK, Start
<1> QED
  BY <1>3, <1>4, <1>5, <1>6 DEF TypeOK, Start, disk, Payloads

LEMMA PurgeLoadType == ASSUME TypeOK, Purging, NEW p \in Proc, PurgeLoad(p) PROVE TypeOK'
<1> DEFINE f == Target(p)
           new == Rechain(SubSeq(lines[f], KeepFrom(lines[f], cut[p]) + 1, Len(lines[f])))
<1>1. f \in Proc
  BY TargetOf DEF TypeOK, PurgeLoad
<1>2. ASSUME f \in files PROVE new \in Seq(LineType)
  BY <1>1, <1>2, KeptRecords DEF TypeOK, PurgeLoad
<1> HIDE DEF f
<1> HIDE DEF new
<1>3. CASE f \notin files \/ KeepFrom(lines[f], cut[p]) = 0
  <2>1. /\ todo' = [todo EXCEPT ![p] = @ \ {f}]
        /\ UNCHANGED <<pc, kept, disturbed, world, disk, mem, calls, rec, fd, cut, committed, afresh>>
    BY <1>3 DEF PurgeLoad, f
  <2>2. todo' \in [Proc -> SUBSET Proc]
    BY <2>1 DEF TypeOK
  <2> QED
    BY <2>1, <2>2 DEF TypeOK, world, disk
<1>4. CASE f \in files /\ KeepFrom(lines[f], cut[p]) # 0
  <2>1. /\ kept' = [kept EXCEPT ![p] = new] /\ pc' = [pc EXCEPT ![p] = "loaded"]
        /\ disturbed' = disturbed \cup
             {g \in {f} : (Alive(f) /\ f # p) \/ \E q \in Proc \ {p} : Holds(q, f)}
        /\ UNCHANGED <<todo, world, disk, mem, calls, rec, fd, cut, committed, afresh>>
    BY <1>4 DEF PurgeLoad, f, new
  <2>2. kept' \in [Proc -> Seq(LineType)] /\ disturbed' \subseteq Proc
    BY <1>1, <1>2, <1>4, <2>1 DEF TypeOK
  <2>3. /\ pc' \in [Proc -> {"off", "purge", "loaded", "writing", "renaming", "ready", "opened", "written"}]
        /\ \A q \in Proc : fd[q] # "none" => pc'[q] = pc[q]
    BY <2>1 DEF TypeOK, PurgeLoad
  <2> QED
    BY <2>1, <2>2, <2>3 DEF TypeOK, world, disk
<1> QED
  BY <1>3, <1>4

LEMMA PurgeAbortsType ==
  ASSUME TypeOK, NEW p \in Proc, PurgeAborts(p), UNCHANGED <<now, starts, files, lines>>,
         faults' \in 0 .. MaxFaults, tmps' \subseteq Proc, tmp' \in [Proc -> Seq(LineType)],
         fd' \in [Proc -> {"none", "path", "tmp", "gone"}],
         \A q \in Proc : fd'[q] # "none" => fd[q] # "none" /\ pc'[q] = pc[q]
  PROVE  TypeOK'
<1>1. /\ pc' \in [Proc -> {"off", "purge", "loaded", "writing", "renaming", "ready", "opened", "written"}]
      /\ todo' \in [Proc -> SUBSET Proc] /\ disturbed' \subseteq Proc
  BY DEF TypeOK, PurgeAborts
<1>2. kept' \in [Proc -> Seq(LineType)]
  BY DEF TypeOK, PurgeAborts
<1>3. \A q \in Proc : fd'[q] # "none" => pc'[q] \in {"writing", "opened", "written"}
  BY DEF TypeOK
<1> QED
  BY <1>1, <1>2, <1>3 DEF TypeOK, PurgeAborts

LEMMA PurgeLoadFailsType == ASSUME TypeOK, NEW p \in Proc, PurgeLoadFails(p) PROVE TypeOK'
<1>1. \A q \in Proc : fd[q] # "none" => q # p
  BY DEF TypeOK, PurgeLoadFails
<1> QED
  BY <1>1, PurgeAbortsType DEF TypeOK, PurgeLoadFails, PurgeAborts, world, disk

LEMMA PurgeRenameFailsType == ASSUME TypeOK, NEW p \in Proc, PurgeRenameFails(p) PROVE TypeOK'
<1>1. \A q \in Proc : fd[q] # "none" => q # p
  BY DEF TypeOK, PurgeRenameFails
<1> QED
  BY <1>1, PurgeAbortsType DEF TypeOK, PurgeRenameFails, PurgeAborts, world, disk

LEMMA PurgeWriteFailsType == ASSUME TypeOK, Purging, NEW p \in Proc, PurgeWriteFails(p) PROVE TypeOK'
<1> DEFINE f == Target(p)
<1>1. f \in Proc
  BY TargetHeld DEF PurgeWriteFails, Holding
<1>2. \A q \in Proc : fd'[q] # "none" => fd[q] # "none" /\ q # p
  BY DEF TypeOK, PurgeWriteFails
<1>3. fd' \in [Proc -> {"none", "path", "tmp", "gone"}]
  BY DEF TypeOK, PurgeWriteFails
<1>7. tmps' \subseteq Proc /\ tmp' \in [Proc -> Seq(LineType)]
  BY <1>1 DEF TypeOK, PurgeWriteFails
<1>8. faults' \in 0 .. MaxFaults
  BY Numbers DEF TypeOK, PurgeWriteFails
<1>4. tmps' \subseteq Proc /\ tmp' \in [Proc -> Seq(LineType)] /\ faults' \in 0 .. MaxFaults
  BY <1>7, <1>8
<1>5. PurgeAborts(p) /\ UNCHANGED <<now, starts, files, lines>>
  BY DEF PurgeWriteFails
<1>6. \A q \in Proc : fd'[q] # "none" => fd[q] # "none" /\ pc'[q] = pc[q]
  BY <1>2, <1>5 DEF TypeOK, PurgeAborts
<1> QED
  BY <1>3, <1>4, <1>5, <1>6, PurgeAbortsType

\* What a rename or a removal does to the descriptors.
LEMMA Redirected ==
  ASSUME TypeOK, NEW f, NEW to \in {"path", "tmp"}
  PROVE  /\ Redirect(f, to) \in [Proc -> {"none", "path", "tmp", "gone"}]
         /\ \A q \in Proc : Redirect(f, to)[q] # "none" <=> fd[q] # "none"
         /\ \A q \in Proc : pc[q] \in {"writing", "renaming"} /\ Target(q) # f => Redirect(f, to)[q] = fd[q]
         /\ \A q \in Proc : pc[q] \notin {"writing", "renaming"} /\ q # f => Redirect(f, to)[q] = fd[q]
BY DEF TypeOK, Redirect

LEMMA PurgeRemoveType == ASSUME TypeOK, Purging, NEW p \in Proc, PurgeRemove(p) PROVE TypeOK'
<1>1. Target(p) \in Proc
  BY TargetHeld DEF PurgeRemove, Holding
<1>2. /\ fd' \in [Proc -> {"none", "path", "tmp", "gone"}]
      /\ \A q \in Proc : fd'[q] # "none" => fd[q] # "none"
  BY Redirected DEF PurgeRemove
<1>3. \A q \in Proc : fd[q] # "none" => q # p
  BY DEF TypeOK, PurgeRemove
<1> QED
  BY <1>1, <1>2, <1>3 DEF TypeOK, PurgeRemove, PurgeNext, Takes, world

LEMMA PurgeRemoveFailsType == ASSUME TypeOK, Purging, NEW p \in Proc, PurgeRemoveFails(p) PROVE TypeOK'
<1>1. faults' \in 0 .. MaxFaults
  BY Numbers DEF TypeOK, PurgeRemoveFails
<1>2. \A q \in Proc : fd[q] # "none" => q # p
  BY DEF TypeOK, PurgeRemoveFails
<1>3. PurgeNext(p, Target(p)) /\ UNCHANGED <<now, starts, disk, fd, disturbed>>
  BY DEF PurgeRemoveFails
<1>4. /\ pc' \in [Proc -> {"off", "purge", "loaded", "writing", "renaming", "ready", "opened", "written"}]
      /\ \A q \in Proc : fd'[q] # "none" => pc'[q] \in {"writing", "opened", "written"}
  BY <1>2, <1>3 DEF TypeOK, PurgeNext
<1>5. todo' \in [Proc -> SUBSET Proc] /\ kept' \in [Proc -> Seq(LineType)]
  BY <1>3 DEF TypeOK, PurgeNext
<1> QED
  BY <1>1, <1>3, <1>4, <1>5 DEF TypeOK, PurgeNext, disk

LEMMA PurgeRenameType == ASSUME TypeOK, Purging, NEW p \in Proc, PurgeRename(p) PROVE TypeOK'
<1>1. Target(p) \in Proc
  BY TargetHeld DEF PurgeRename, Holding
<1>2. /\ fd' \in [Proc -> {"none", "path", "tmp", "gone"}]
      /\ \A q \in Proc : fd'[q] # "none" => fd[q] # "none"
  BY Redirected DEF PurgeRename
<1>3. \A q \in Proc : fd[q] # "none" => q # p
  BY DEF TypeOK, PurgeRename
<1>4. /\ files' \subseteq Proc /\ tmps' \subseteq Proc /\ disturbed' \subseteq Proc
      /\ todo' \in [Proc -> SUBSET Proc]
      /\ pc' \in [Proc -> {"off", "purge", "loaded", "writing", "renaming", "ready", "opened", "written"}]
      /\ \A q \in Proc : q # p => pc'[q] = pc[q]
  BY <1>1 DEF TypeOK, PurgeRename, PurgeNext, Takes
<1>5. lines' \in [Proc -> Seq(LineType)] /\ tmp' \in [Proc -> Seq(LineType)] /\ kept' \in [Proc -> Seq(LineType)]
  BY <1>1 DEF TypeOK, PurgeRename, PurgeNext
<1>6. \A q \in Proc : fd'[q] # "none" => pc'[q] \in {"writing", "opened", "written"}
  BY <1>2, <1>3, <1>4 DEF TypeOK
<1> QED
  BY <1>2, <1>4, <1>5, <1>6 DEF TypeOK, PurgeRename, PurgeNext, world

LEMMA PurgeCreateType == ASSUME TypeOK, Purging, NEW p \in Proc, PurgeCreate(p) PROVE TypeOK'
<1>1. Target(p) \in Proc
  BY TargetHeld DEF PurgeCreate, Holding
<1>2. tmps' \subseteq Proc /\ tmp' \in [Proc -> Seq(LineType)]
  BY <1>1 DEF TypeOK, PurgeCreate
<1>3. /\ pc' \in [Proc -> {"off", "purge", "loaded", "writing", "renaming", "ready", "opened", "written"}]
      /\ fd' \in [Proc -> {"none", "path", "tmp", "gone"}]
      /\ \A q \in Proc : fd'[q] # "none" => pc'[q] \in {"writing", "opened", "written"}
  BY DEF TypeOK, PurgeCreate
<1> QED
  BY <1>2, <1>3 DEF TypeOK, PurgeCreate, world, purging

LEMMA PurgeWriteType == ASSUME TypeOK, Purging, NEW p \in Proc, PurgeWrite(p) PROVE TypeOK'
<1>1. Target(p) \in Proc
  BY TargetHeld DEF PurgeWrite, Holding
<1>2. /\ Overwrite(kept[p], tmp[Target(p)]) \in Seq(LineType)
      /\ Overwrite(kept[p], lines[Target(p)]) \in Seq(LineType)
  BY <1>1, Overwritten DEF TypeOK
<1>3. tmp' \in [Proc -> Seq(LineType)] /\ lines' \in [Proc -> Seq(LineType)]
  BY <1>1, <1>2 DEF TypeOK, PurgeWrite
<1> QED
  BY <1>3 DEF TypeOK, PurgeWrite, world, purging

LEMMA PurgeEndsType == ASSUME TypeOK, NEW p \in Proc, PurgeEnds(p) PROVE TypeOK'
<1>1. LastState(p) \in [seq : Nat, last : Seq(Payloads)]
  BY LastOfType
<1> QED
  BY <1>1 DEF TypeOK, PurgeEnds, world, disk, purging, Payloads

\* The record Open makes.
NewRecord(p, st) ==
  LET r == [st |-> st, call |-> calls[p] + 1, seq |-> mem[p].seq + 1, t |-> now,
            prev |-> mem[p].last, hash |-> Genesis]
  IN  [r EXCEPT !.hash = ComputeHash(r, mem[p].last)]

LEMMA NextRecord ==
  ASSUME TypeOK, NEW p \in Proc, calls[p] < MaxCalls, NEW st \in Recorded
  PROVE  /\ NewRecord(p, st) \in LineType /\ NewRecord(p, st).st \in Recorded
         /\ NewRecord(p, st).prev = mem[p].last
         /\ NewRecord(p, st).hash = ComputeHash(NewRecord(p, st), mem[p].last)
<1> DEFINE r == [st |-> st, call |-> calls[p] + 1, seq |-> mem[p].seq + 1, t |-> now,
                 prev |-> mem[p].last, hash |-> Genesis]
           h == ComputeHash(r, mem[p].last)
<1>1. /\ calls[p] + 1 \in 0 .. MaxCalls /\ calls[p] + 1 \in Nat /\ mem[p].seq + 1 \in Nat
      /\ now \in Nat /\ mem[p].last \in Seq(Payloads)
  BY Numbers DEF TypeOK, Payloads
<1>2. Payload(r) \in Payloads
  BY <1>1 DEF Payload, Payloads
<1>3. h \in Seq(Payloads)
  BY <1>1, <1>2, AppendProperties DEF ComputeHash
<1>4. NewRecord(p, st) = [r EXCEPT !.hash = h]
  BY DEF NewRecord
<1>5. Payload([r EXCEPT !.hash = h]) = Payload(r)
  BY DEF Payload
<1>6. ComputeHash(NewRecord(p, st), mem[p].last) = h
  BY <1>4, <1>5 DEF ComputeHash
<1> HIDE DEF h
<1> QED
  BY <1>1, <1>3, <1>4, <1>6 DEF LineType, Payloads, Recorded

LEMMA OpenType == ASSUME TypeOK, NEW p \in Proc, Open(p) PROVE TypeOK'
<1>1. PICK st \in Recorded : /\ faults' = faults + (IF st = "huge" THEN 1 ELSE 0) /\ faults' <= MaxFaults
                          /\ rec' = [rec EXCEPT ![p] = NewRecord(p, st)]
  BY DEF Open, NewRecord
<1>2. NewRecord(p, st) \in LineType
  BY NextRecord DEF Open
<1>6. calls[p] + 1 \in 0 .. MaxCalls /\ calls' = [calls EXCEPT ![p] = calls[p] + 1]
  <2>1. calls' = [calls EXCEPT ![p] = @ + 1] /\ calls[p] < MaxCalls
    BY DEF Open
  <2>2. calls[p] \in 0 .. MaxCalls
    BY DEF TypeOK
  <2> QED
    BY <2>1, <2>2, Numbers
<1>3. calls' \in [Proc -> 0 .. MaxCalls]
  BY <1>6 DEF TypeOK
<1>4. faults' \in 0 .. MaxFaults
  BY <1>1, Numbers DEF TypeOK
<1>5. rec' \in [Proc -> LineType]
  BY <1>1, <1>2 DEF TypeOK
<1> QED
  BY <1>3, <1>4, <1>5 DEF TypeOK, Open, purging

LEMMA WriteType == ASSUME TypeOK, NEW p \in Proc, Write(p) PROVE TypeOK'
<1>1. AddLine(lines[p], rec[p]) \in Seq(LineType)
  BY AddedLine DEF TypeOK
<1>2. lines' \in [Proc -> Seq(LineType)]
  BY <1>1 DEF TypeOK, Write
<1> QED
  BY <1>2 DEF TypeOK, Write, world, purging

LEMMA WriteFailsType == ASSUME TypeOK, NEW p \in Proc, WriteFails(p) PROVE TypeOK'
<1>1. AddLine(lines[p], Garbage("part")) \in Seq(LineType)
  BY AddedLine, LineTypes DEF TypeOK
<1>2. lines' \in [Proc -> Seq(LineType)]
  BY <1>1 DEF TypeOK, WriteFails
<1>3. faults' \in 0 .. MaxFaults
  BY Numbers DEF TypeOK, WriteFails
<1> QED
  BY <1>2, <1>3, NoRecType DEF TypeOK, WriteFails, purging

LEMMA SyncType == ASSUME TypeOK, NEW p \in Proc, Sync(p) PROVE TypeOK'
<1>1. rec[p] \in LineType
  BY DEF TypeOK
<1>2. /\ rec[p].call \in 0 .. MaxCalls /\ rec[p].t \in Nat
      /\ [seq |-> rec[p].seq, last |-> rec[p].hash] \in [seq : Nat, last : Seq(Payloads)]
  BY <1>1, LineTypes
<1> DEFINE C == [call : 0 .. MaxCalls, t : Nat]
           c == [call |-> rec[p].call, t |-> rec[p].t]
<1>4. c \in C
  BY <1>2
<1>5. committed \in [Proc -> SUBSET C] /\ committed' = [committed EXCEPT ![p] = @ \cup {c}]
  BY DEF TypeOK, Sync
<1>3. committed' \in [Proc -> SUBSET C]
  <2> HIDE DEF C, c
  <2> QED  BY <1>4, <1>5
<1> QED
  BY <1>2, <1>3, NoRecType DEF TypeOK, Sync, world, disk, purging, Payloads

LEMMA SyncFailsType == ASSUME TypeOK, NEW p \in Proc, SyncFails(p) PROVE TypeOK'
<1>1. faults' \in 0 .. MaxFaults
  BY Numbers DEF TypeOK, SyncFails
<1> QED
  BY <1>1, NoRecType DEF TypeOK, SyncFails, disk, purging

LEMMA StopType == ASSUME TypeOK, NEW p \in Proc, Stop(p) PROVE TypeOK'
<1>1. Fresh \in [seq : Nat, last : Seq(Payloads)]
  BY DEF Fresh, Genesis
<1> QED
  BY <1>1, NoRecType DEF TypeOK, Stop, world, disk, Payloads

----------------------------------------------------------------------------
(* A step of one process.                                                  *)

\* What p does leaves the memory of the others alone.
Apart(p) ==
  /\ afresh \subseteq afresh'
  /\ \A q \in Proc \ {p} :
        /\ pc'[q] = pc[q] /\ mem'[q] = mem[q] /\ rec'[q] = rec[q]
        /\ todo'[q] = todo[q] /\ cut'[q] = cut[q] /\ kept'[q] = kept[q]
        /\ committed'[q] = committed[q]

LEMMA StepsApart ==
  ASSUME TypeOK, NEW p \in Proc
  PROVE  /\ \A purge \in BOOLEAN : Start(p, purge) => Apart(p)
         /\ PurgeSteps(p) => Apart(p)
         /\ AppendSteps(p) => Apart(p)
         /\ Stop(p) => Apart(p)
<1>1. ASSUME NEW purge \in BOOLEAN, Start(p, purge) PROVE Apart(p)
  BY <1>1 DEF TypeOK, Start, Apart
<1>2. ASSUME PurgeLoad(p) PROVE Apart(p)
  <2>1. /\ pc' = pc \/ pc' = [pc EXCEPT ![p] = "loaded"]
        /\ todo' = todo \/ todo' = [todo EXCEPT ![p] = @ \ {Target(p)}]
        /\ kept' = kept \/ \E new : kept' = [kept EXCEPT ![p] = new]
        /\ UNCHANGED <<mem, rec, cut, committed, afresh>>
    BY <1>2 DEF PurgeLoad
  <2> QED
    BY <2>1 DEF TypeOK, Apart
<1>3. ASSUME PurgeLoadFails(p) \/ PurgeWriteFails(p) \/ PurgeRenameFails(p) PROVE Apart(p)
  BY <1>3 DEF TypeOK, PurgeLoadFails, PurgeWriteFails, PurgeRenameFails, PurgeAborts, Apart
<1>4. ASSUME PurgeRemove(p) \/ PurgeRemoveFails(p) \/ PurgeRename(p) PROVE Apart(p)
  BY <1>4 DEF TypeOK, PurgeRemove, PurgeRemoveFails, PurgeRename, PurgeNext, Apart
<1>5. ASSUME PurgeCreate(p) \/ PurgeWrite(p) \/ PurgeEnds(p) PROVE Apart(p)
  BY <1>5 DEF TypeOK, PurgeCreate, PurgeWrite, PurgeEnds, purging, Apart
<1>6. ASSUME AppendSteps(p) PROVE Apart(p)
  <2>1. CASE Open(p)
    BY <2>1 DEF TypeOK, Open, purging, Apart
  <2>2. CASE Write(p) \/ WriteFails(p)
    BY <2>2 DEF TypeOK, Write, WriteFails, purging, Apart
  <2>3. CASE Sync(p) \/ SyncFails(p)
    BY <2>3 DEF TypeOK, Sync, SyncFails, purging, Apart
  <2> QED
    BY <1>6, <2>1, <2>2, <2>3 DEF AppendSteps
<1>7. ASSUME Stop(p) PROVE Apart(p)
  BY <1>7 DEF TypeOK, Stop, Apart
<1> QED
  BY <1>1, <1>2, <1>3, <1>4, <1>5, <1>6, <1>7 DEF PurgeSteps

LEMMA OtherHolders ==
  ASSUME NEW p, Apart(p), NEW q \in Proc \ {p}, NEW f
  PROVE  Holds(q, f)' <=> Holds(q, f)
BY SameHolder DEF Apart

\* Nobody else holds the file of a process that runs, or a file somebody holds.
LEMMA HeldAlone ==
  ASSUME IInv, NEW f \in Proc \ disturbed, NEW p \in Proc, Holds(p, f) \/ (p = f /\ Alive(f))
  PROVE  \A q \in Proc \ {p} : ~Holds(q, f)
BY DEF IInv, Whole, Rewrites

LEMMA OthersFollow ==
  ASSUME IInv, NEW p \in Proc, Apart(p), NEW f \in Proc \ {p}, f \notin disturbed,
         lines'[f] = lines[f], f \in files' <=> f \in files, pc[f] = "opened" => fd'[f] = fd[f]
  PROVE  Follows(f)'
BY SameFollows DEF IInv, Whole, Apart

\* A file p is not at stays whole.
LEMMA Aside ==
  ASSUME IInv, NEW p \in Proc, Apart(p), NEW f \in Proc, f \notin disturbed,
         lines'[f] = lines[f], f \in files' <=> f \in files, tmp'[f] = tmp[f],
         committed'[f] = committed[f], \A c \in committed[f] : Expired(c) => Expired(c)',
         Follows(f)', Alive(f)' => Alive(f), ~Holds(p, f)',
         \A q \in Proc \ {p} : pc[q] = "writing" /\ Target(q) = f => fd'[q] = fd[q]
  PROVE  Whole(f)'
<1>1. ASSUME NEW q \in Proc, Holds(q, f)'
      PROVE  /\ Holds(q, f)
             /\ pc'[q] = pc[q] /\ kept'[q] = kept[q] /\ cut'[q] = cut[q]
             /\ pc[q] = "writing" => fd'[q] = fd[q]
  <2>1. q \in Proc \ {p}
    BY <1>1
  <2>2. Holds(q, f)
    BY <1>1, <2>1, OtherHolders
  <2> QED
    BY <2>1, <2>2 DEF Apart, Holds
<1>2. Whole(f)
  BY DEF IInv
<1>3. afresh \subseteq afresh'
  BY DEF Apart
<1> QED
  BY <1>1, <1>2, <1>3, Untouched

\* So does the one it is at, if nobody else is.
LEMMA Touched ==
  ASSUME NEW p \in Proc, Apart(p), NEW f \in Proc,
         \A q \in Proc \ {p} : ~Holds(q, f),
         Intact(f)', AcceptedIn(f)', Follows(f)', Holds(p, f)' => Rewrites(p, f)'
  PROVE  Whole(f)'
<1>1. ASSUME NEW q \in Proc, Holds(q, f)' PROVE q = p
  BY <1>1, OtherHolders
<1> QED
  BY <1>1 DEF Whole

LEMMA NotHolding ==
  ASSUME NEW p, pc'[p] \notin Holding
  PROVE  \A f : ~Holds(p, f)'
BY DEF Holds, Holding

LEMMA SameIntact ==
  ASSUME NEW f, Whole(f), lines'[f] = lines[f], f \in files => f \in files',
         afresh \subseteq afresh'
  PROVE  Intact(f)'
BY DEF Whole, Intact, Readable, Chained

\* Where nothing is removed and nothing expires sooner, what is accepted stays.
LEMMA SameAccepted ==
  ASSUME NEW f, Whole(f), committed'[f] = committed[f],
         \A c \in committed[f] : Expired(c) => Expired(c)',
         f \in files => f \in files', \A c \in committed[f] : Has(lines[f], c) => Has(lines'[f], c)
  PROVE  AcceptedIn(f)'
<1>1. \A c \in committed'[f] : Expired(c)' \/ (f \in files' /\ Has(lines'[f], c))
  BY DEF Whole, AcceptedIn
<1> QED
  BY <1>1 DEF AcceptedIn, Has

LEMMA SameExpired ==
  ASSUME cut' = cut PROVE \A c : Expired(c)' <=> Expired(c)
BY DEF Expired

----------------------------------------------------------------------------
(* Append, and the end of a process.                                       *)

LEMMA OpenInv == ASSUME IInv, NEW p \in Proc, Open(p) PROVE IInv'
<1>1. TypeOK /\ TypeOK' /\ Apart(p)
  BY OpenType, StepsApart DEF IInv, AppendSteps
<1>2. /\ pc[p] = "ready" /\ pc'[p] = "opened" /\ fd'[p] = "path" /\ files' = files \cup {p}
      /\ \A q \in Proc \ {p} : pc'[q] = pc[q] /\ fd'[q] = fd[q]
      /\ UNCHANGED <<now, lines, tmp, mem, todo, cut, kept, committed, disturbed, afresh>>
  BY <1>1 DEF Open, TypeOK, purging
<1>3. Purging' /\ Cutoffs'
  BY <1>1, <1>2 DEF IInv, Purging, Cutoffs, Holding
<1>4. /\ \A f : ~Holds(p, f)'
      /\ \A c : Expired(c)' <=> Expired(c)
  BY <1>2, NotHolding, SameExpired DEF Holding
<1>5. ASSUME NEW f \in Proc \ disturbed', f # p PROVE Whole(f)'
  <2>1. Follows(f)'
    BY <1>1, <1>2, <1>5, OthersFollow
  <2> QED
    BY <1>1, <1>2, <1>4, <1>5, <2>1, Aside DEF Alive
<1>6. ASSUME p \notin disturbed PROVE Whole(p)'
  <2>1. Whole(p) /\ \A q \in Proc \ {p} : ~Holds(q, p)
    BY <1>2, <1>6, HeldAlone DEF IInv, Alive
  <2>2. Intact(p)' /\ AcceptedIn(p)'
    BY <1>2, <1>4, <2>1, SameIntact, SameAccepted
  <2>3. /\ (EndsInRecord(p)' <=> EndsInRecord(p)) /\ LastRecord(p)' = LastRecord(p)
        /\ LastFails(p)' <=> LastFails(p)
    BY <1>2, <2>1 DEF Whole, Intact, LastFails, EndsInRecord, LastRecord, LastLine, HasLast
  <2>4. PICK st \in Recorded : rec' = [rec EXCEPT ![p] = NewRecord(p, st)]
    BY DEF Open, NewRecord
  <2>5. rec'[p].st \in Recorded /\ rec'[p].prev = mem[p].last /\ rec'[p].hash = ComputeHash(rec'[p], mem[p].last)
    <3>1. rec'[p] = NewRecord(p, st)
      BY <1>1, <2>4 DEF TypeOK
    <3>2. calls[p] < MaxCalls
      BY DEF Open
    <3> QED
      BY <1>1, <3>1, <3>2, NextRecord
  <2>6. Follows(p)'
    BY <1>2, <2>1, <2>3, <2>5 DEF Whole, Follows, ComputeHash, Payload, Holding
  <2> QED
    BY <1>1, <1>4, <2>1, <2>2, <2>6, Touched
<1> QED
  BY <1>1, <1>2, <1>3, <1>5, <1>6 DEF IInv

LEMMA WriteInv == ASSUME IInv, NEW p \in Proc, Write(p) PROVE IInv'
<1>1. TypeOK /\ TypeOK' /\ Apart(p)
  BY WriteType, StepsApart DEF IInv, AppendSteps
<1>2. /\ pc[p] = "opened" /\ pc'[p] = "written"
      /\ disturbed' = disturbed \cup {f \in {p} : Torn(lines[p])}
      /\ \A q \in Proc \ {p} : lines'[q] = lines[q]
      /\ UNCHANGED <<now, files, tmp, mem, rec, fd, todo, cut, kept, committed, afresh>>
  BY <1>1 DEF Write, TypeOK, world, purging
<1>3. Purging' /\ Cutoffs'
  BY <1>1, <1>2 DEF IInv, Purging, Cutoffs, Holding, Apart
<1>4. /\ \A f : ~Holds(p, f)'
      /\ \A c : Expired(c)' <=> Expired(c)
  BY <1>2, NotHolding, SameExpired DEF Holding
<1>5. ASSUME NEW f \in Proc \ disturbed', f # p PROVE Whole(f)'
  <2>1. Follows(f)' /\ f \notin disturbed
    BY <1>1, <1>2, <1>5, OthersFollow
  <2> QED
    BY <1>1, <1>2, <1>4, <1>5, <2>1, Aside DEF Alive, Apart
<1>6. ASSUME p \notin disturbed' PROVE Whole(p)'
  <2>1. p \notin disturbed /\ Whole(p) /\ ~Torn(lines[p]) /\ \A q \in Proc \ {p} : ~Holds(q, p)
    BY <1>2, <1>6, HeldAlone DEF IInv, Alive
  <2>2. /\ EndsInRecord(p) => mem[p] = LastRecord(p) \/ (p \in afresh /\ LastFails(p))
        /\ p \in files /\ rec[p].st \in Recorded /\ fd[p] = "path"
        /\ rec[p].prev = mem[p].last /\ rec[p].hash = ComputeHash(rec[p], mem[p].last)
    BY <1>2, <2>1 DEF Whole, Follows
  <2>3. lines[p] \in Seq(LineType) /\ rec[p] \in LineType
    BY <1>1 DEF TypeOK
  <2>4. lines'[p] = Append(lines[p], rec[p])
    <3>1. AddLine(lines[p], rec[p]) = Append(lines[p], rec[p])
      BY <2>1, <2>3, AddedLine
    <3>2. lines' = [lines EXCEPT ![p] = AddLine(lines[p], rec[p])]
      BY <2>2 DEF Write
    <3> QED
      BY <1>1, <3>1, <3>2 DEF TypeOK
  <2>5. /\ lines'[p] # << >> /\ lines'[p][Len(lines'[p])] = rec[p]
        /\ Readable(lines'[p]) => Readable(lines[p])
        /\ \A c : Has(lines[p], c) => Has(lines'[p], c)
    BY <2>3, <2>4, Appended
  <2>6. ASSUME Readable(lines[p]), p \notin afresh PROVE Chained(lines'[p])
    <3>1. Chained(lines[p])
      BY <2>1, <2>6 DEF Whole, Intact
    <3>2. EndsInRecord(p)
      BY <2>3, <2>6, EndsBadly DEF EndsInRecord, HasLast, LastLine, Recorded
    <3>3. rec[p].prev = IF lines[p] = << >> THEN Genesis ELSE lines[p][Len(lines[p])].hash
      BY <2>2, <2>6, <3>2 DEF LastRecord, HasLast, LastLine, Fresh
    <3> QED
      BY <2>2, <2>3, <2>4, <3>1, <3>3, Appended
  <2>7. (Readable(lines[p])' <=> Readable(lines'[p])) /\ (Chained(lines[p])' <=> Chained(lines'[p]))
    BY DEF Readable, Chained
  <2>8. Intact(p)'
    BY <1>2, <2>2, <2>5, <2>6, <2>7 DEF Intact
  <2>9. AcceptedIn(p)'
    BY <1>2, <1>4, <2>1, <2>5, SameAccepted
  <2>10. Follows(p)'
    BY <1>2, <2>2, <2>5 DEF Follows, Holding
  <2> QED
    BY <1>1, <1>4, <2>1, <2>8, <2>9, <2>10, Touched
<1> QED
  BY <1>1, <1>2, <1>3, <1>5, <1>6 DEF IInv

LEMMA WriteFailsInv == ASSUME IInv, NEW p \in Proc, WriteFails(p) PROVE IInv'
<1>1. TypeOK /\ TypeOK' /\ Apart(p)
  BY WriteFailsType, StepsApart DEF IInv, AppendSteps
<1>2. /\ pc[p] = "opened" /\ pc'[p] = "ready" /\ fd'[p] = "none"
      /\ \A q \in Proc \ {p} : lines'[q] = lines[q] /\ fd'[q] = fd[q]
      /\ UNCHANGED <<now, files, tmp, mem, todo, cut, kept, committed, disturbed, afresh>>
  BY <1>1 DEF WriteFails, TypeOK, purging
<1>3. Purging' /\ Cutoffs'
  BY <1>1, <1>2 DEF IInv, Purging, Cutoffs, Holding, Apart
<1>4. /\ \A f : ~Holds(p, f)'
      /\ \A c : Expired(c)' <=> Expired(c)
  BY <1>2, NotHolding, SameExpired DEF Holding
<1>5. ASSUME NEW f \in Proc \ disturbed', f # p PROVE Whole(f)'
  <2>1. Follows(f)'
    BY <1>1, <1>2, <1>5, OthersFollow
  <2> QED
    BY <1>1, <1>2, <1>4, <1>5, <2>1, Aside DEF Alive, Apart
<1>6. ASSUME p \notin disturbed PROVE Whole(p)'
  <2>1. Whole(p) /\ \A q \in Proc \ {p} : ~Holds(q, p)
    BY <1>2, <1>6, HeldAlone DEF IInv, Alive
  <2>2. CASE UNCHANGED lines
    <3>1. Intact(p)' /\ AcceptedIn(p)'
      BY <1>2, <1>4, <2>1, <2>2, SameIntact, SameAccepted
    <3>2. /\ (EndsInRecord(p)' <=> EndsInRecord(p)) /\ LastRecord(p)' = LastRecord(p)
          /\ LastFails(p)' <=> LastFails(p)
      BY <1>2, <2>2, SameLast
    <3>3. Follows(p)'
      BY <1>2, <2>1, <3>2 DEF Whole, Follows, Holding
    <3> QED
      BY <1>1, <1>4, <2>1, <3>1, <3>3, Touched
  <2>3. CASE lines' = [lines EXCEPT ![p] = AddLine(@, Garbage("part"))]
    <3>1. /\ lines[p] \in Seq(LineType) /\ Garbage("part") \in LineType /\ Garbage("part").st = "part"
          /\ lines'[p] = AddLine(lines[p], Garbage("part"))
      BY <1>1, <2>3, LineTypes DEF TypeOK
    <3>2. /\ lines'[p] \in Seq(LineType) /\ lines'[p] # << >> /\ lines'[p][Len(lines'[p])].st = "part"
          /\ \A c : Has(lines[p], c) => Has(lines'[p], c)
      BY <3>1, AddedLine
    <3>3. p \in files
      BY <1>2, <2>1 DEF Whole, Follows
    <3>4. ~Readable(lines'[p]) /\ ~EndsInRecord(p)'
      BY <1>2, <3>2, <3>3, EndsBadly DEF EndsInRecord, HasLast, LastLine, Recorded
    <3>5. Intact(p)'
      BY <1>2, <3>3, <3>4 DEF Intact, Readable
    <3>6. AcceptedIn(p)'
      BY <1>2, <1>4, <2>1, <3>2, SameAccepted
    <3>7. Follows(p)'
      BY <1>2, <3>4 DEF Follows, Holding
    <3> QED
      BY <1>1, <1>4, <2>1, <3>5, <3>6, <3>7, Touched
  <2> QED
    BY <2>2, <2>3 DEF WriteFails
<1> QED
  BY <1>1, <1>2, <1>3, <1>5, <1>6 DEF IInv

LEMMA SyncInv == ASSUME IInv, NEW p \in Proc, Sync(p) PROVE IInv'
<1>1. TypeOK /\ TypeOK' /\ Apart(p)
  BY SyncType, StepsApart DEF IInv, AppendSteps
<1>2. /\ pc[p] = "written" /\ pc'[p] = "ready" /\ fd'[p] = "none"
      /\ mem'[p] = [seq |-> rec[p].seq, last |-> rec[p].hash]
      /\ committed'[p] = committed[p] \cup {[call |-> rec[p].call, t |-> rec[p].t]}
      /\ \A q \in Proc \ {p} : fd'[q] = fd[q]
      /\ UNCHANGED <<now, files, lines, tmp, todo, cut, kept, disturbed, afresh>>
  BY <1>1 DEF Sync, TypeOK, world, disk, purging
<1>3. Purging' /\ Cutoffs'
  BY <1>1, <1>2 DEF IInv, Purging, Cutoffs, Holding, Apart
<1>4. /\ \A f : ~Holds(p, f)'
      /\ \A c : Expired(c)' <=> Expired(c)
  BY <1>2, NotHolding, SameExpired DEF Holding
<1>5. ASSUME NEW f \in Proc \ disturbed', f # p PROVE Whole(f)'
  <2>1. Follows(f)'
    BY <1>1, <1>2, <1>5, OthersFollow
  <2> QED
    BY <1>1, <1>2, <1>4, <1>5, <2>1, Aside DEF Alive, Apart
<1>6. ASSUME p \notin disturbed PROVE Whole(p)'
  <2>1. Whole(p) /\ \A q \in Proc \ {p} : ~Holds(q, p)
    BY <1>2, <1>6, HeldAlone DEF IInv, Alive
  <2>2. /\ p \in files /\ rec[p].st \in Recorded
        /\ lines[p] # << >> /\ lines[p][Len(lines[p])] = rec[p]
    BY <1>2, <2>1 DEF Whole, Follows
  <2>3. Intact(p)'
    BY <1>2, <2>1, SameIntact
  <2>4. Len(lines[p]) \in DOMAIN lines[p]
    <3>1. lines[p] \in Seq(LineType)
      BY <1>1 DEF TypeOK
    <3>2. Len(lines[p]) \in Nat \ {0} /\ DOMAIN lines[p] = 1 .. Len(lines[p])
      BY <2>2, <3>1, EmptySeq, LenProperties
    <3> QED
      BY <3>2
  <2>5. Has(lines[p], [call |-> rec[p].call, t |-> rec[p].t])
    BY <2>2, <2>4 DEF Has
  <2>6. \A c \in committed'[p] : Expired(c)' \/ (p \in files' /\ Has(lines'[p], c))
    <3>1. \A c \in committed[p] : Expired(c) \/ Has(lines[p], c)
      BY <2>1 DEF Whole, AcceptedIn
    <3>2. \A c \in committed'[p] : c \in committed[p] \/ c = [call |-> rec[p].call, t |-> rec[p].t]
      BY <1>2
    <3> QED
      BY <1>2, <1>4, <2>2, <2>5, <3>1, <3>2
  <2>7. AcceptedIn(p)'
    BY <2>6 DEF AcceptedIn, Has
  <2>8. LastRecord(p)' = LastRecord(p)
    BY <1>2, SameLast
  <2>9. LastRecord(p) = [seq |-> rec[p].seq, last |-> rec[p].hash]
    BY <2>2 DEF LastRecord, HasLast, LastLine
  <2>10. Follows(p)'
    BY <1>2, <2>8, <2>9 DEF Follows, Holding
  <2> QED
    BY <1>1, <1>4, <2>1, <2>3, <2>7, <2>10, Touched
<1> QED
  BY <1>1, <1>2, <1>3, <1>5, <1>6 DEF IInv

LEMMA SyncFailsInv == ASSUME IInv, NEW p \in Proc, SyncFails(p) PROVE IInv'
<1>1. TypeOK /\ TypeOK' /\ Apart(p)
  BY SyncFailsType, StepsApart DEF IInv, AppendSteps
<1>2. /\ pc[p] = "written" /\ pc'[p] = "ready" /\ disturbed' = disturbed \cup {p}
      /\ \A q \in Proc \ {p} : fd'[q] = fd[q]
      /\ UNCHANGED <<now, files, lines, tmp, todo, cut, kept, committed, afresh>>
  BY <1>1 DEF SyncFails, TypeOK, disk, purging
<1>3. Purging' /\ Cutoffs'
  BY <1>1, <1>2 DEF IInv, Purging, Cutoffs, Holding, Apart
<1>4. /\ \A f : ~Holds(p, f)'
      /\ \A c : Expired(c)' <=> Expired(c)
  BY <1>2, NotHolding, SameExpired DEF Holding
<1>5. ASSUME NEW f \in Proc \ disturbed' PROVE Whole(f)'
  <2>1. f # p /\ f \notin disturbed /\ Follows(f)'
    BY <1>1, <1>2, <1>5, OthersFollow
  <2> QED
    BY <1>1, <1>2, <1>4, <1>5, <2>1, Aside DEF Alive, Apart
<1> QED
  BY <1>1, <1>3, <1>5 DEF IInv

LEMMA StopInv == ASSUME IInv, NEW p \in Proc, Stop(p) PROVE IInv'
<1>1. TypeOK /\ TypeOK' /\ Apart(p)
  BY StopType, StepsApart DEF IInv
<1>2. /\ pc[p] # "off" /\ pc'[p] = "off" /\ todo'[p] = {}
      /\ \A q \in Proc \ {p} : fd'[q] = fd[q]
      /\ UNCHANGED <<now, files, lines, tmp, cut, committed, disturbed, afresh>>
  BY <1>1 DEF Stop, Alive, TypeOK, world, disk
<1>3. Purging' /\ Cutoffs'
  BY <1>1, <1>2 DEF IInv, Purging, Cutoffs, Holding, Apart
<1>4. /\ \A f : ~Holds(p, f)'
      /\ \A c : Expired(c)' <=> Expired(c)
  BY <1>2, NotHolding, SameExpired DEF Holding
<1>5. ASSUME NEW f \in Proc \ disturbed', f # p PROVE Whole(f)'
  <2>1. Follows(f)'
    BY <1>1, <1>2, <1>5, OthersFollow
  <2> QED
    BY <1>1, <1>2, <1>4, <1>5, <2>1, Aside DEF Alive, Apart
<1>6. ASSUME p \notin disturbed PROVE Whole(p)'
  <2>1. Follows(p)'
    BY <1>2 DEF Follows, Holding
  <2> QED
    BY <1>1, <1>2, <1>4, <1>6, <2>1, Aside DEF Alive
<1> QED
  BY <1>1, <1>2, <1>3, <1>5, <1>6 DEF IInv

----------------------------------------------------------------------------
(* The clock, and the start.                                               *)

LEMMA TickInv == ASSUME IInv, Tick PROVE IInv'
<1>0. now' \in 0 .. MaxTime
  BY Numbers DEF IInv, TypeOK, Tick
<1>1. TypeOK'
  BY <1>0 DEF IInv, TypeOK, Tick, disk, purging
<1>2. UNCHANGED <<disk, pc, mem, calls, rec, fd, purging, committed, disturbed, afresh>> /\ now' = now + 1
  BY DEF Tick
<1>3. Purging'
  BY <1>2 DEF IInv, Purging, purging
<1>4. Cutoffs'
  BY <1>1, <1>2, Numbers DEF IInv, Cutoffs, purging, TypeOK
<1>5. ASSUME NEW f \in Proc \ disturbed' PROVE Whole(f)'
  <2>1. f \notin disturbed /\ Whole(f)
    BY <1>2, <1>5 DEF IInv
  <2>2. Follows(f)'
    BY <1>2, <2>1, SameFollows DEF Whole, disk
  <2>3. \A q \in Proc : Holds(q, f)' <=> Holds(q, f)
    BY <1>2, SameHolder DEF purging
  <2> QED
    BY <1>2, <2>1, <2>2, <2>3, SameExpired, Untouched DEF disk, purging, Alive
<1> QED
  BY <1>1, <1>3, <1>4, <1>5 DEF IInv

LEMMA StartInv == ASSUME IInv, NEW p \in Proc, NEW purge \in BOOLEAN, Start(p, purge) PROVE IInv'
<1>1. TypeOK /\ TypeOK' /\ Apart(p)
  BY StartType, StepsApart DEF IInv
<1>2. /\ pc[p] = "off" /\ pc'[p] \in {"purge", "ready"} /\ mem'[p] = LastState(p)
      /\ pc'[p] = "ready" => todo'[p] = todo[p]
      /\ cut'[p] \in {cut[p], now - MaxAge}
      /\ disturbed' = disturbed \cup {f \in {p} : \E q \in Proc : Holds(q, f)}
      /\ afresh' = afresh \cup {f \in {p} : TooLong(f)}
      /\ UNCHANGED <<now, files, lines, tmp, rec, fd, kept, committed>>
  BY <1>1 DEF Start, TypeOK, disk
<1>3. Purging'
  BY <1>1, <1>2 DEF IInv, Purging, Holding, Apart
<1>4. Cutoffs'
  <2>1. now - MaxAge \in Int
    BY <1>1, Numbers DEF TypeOK
  <2>2. cut'[p] <= 0 \/ cut'[p] <= now - MaxAge
    BY <1>2, <2>1 DEF IInv, Cutoffs
  <2> QED
    BY <1>1, <1>2, <2>2 DEF IInv, Cutoffs, Apart
<1>5. \A f : ~Holds(p, f)'
  BY <1>2, NotHolding DEF Holding
<1>6. ASSUME NEW f \in Proc, NEW c \in committed[f], Expired(c) PROVE Expired(c)'
  <2>1. c.t \in Nat
    BY <1>1 DEF TypeOK
  <2>2. PICK q \in Proc : c.t < cut[q]
    BY <1>6 DEF Expired
  <2>3. CASE q # p
    BY <1>1, <2>2, <2>3 DEF Expired, Apart
  <2>4. CASE q = p
    <3>1. cut[p] \in Int /\ now \in Int /\ MaxAge \in Int /\ (cut[p] <= 0 \/ cut[p] <= now - MaxAge)
      BY <1>1, Numbers DEF IInv, TypeOK, Cutoffs
    <3>2. c.t < cut'[p]
      BY <1>2, <2>1, <2>2, <2>4, <3>1
    <3> QED
      BY <3>2 DEF Expired
  <2> QED
    BY <2>3, <2>4
<1>7. ASSUME NEW f \in Proc \ disturbed', f # p PROVE Whole(f)'
  <2>1. Follows(f)' /\ f \notin disturbed
    BY <1>1, <1>2, <1>7, OthersFollow
  <2> QED
    BY <1>1, <1>2, <1>5, <1>6, <1>7, <2>1, Aside DEF Alive, Apart
<1>8. ASSUME p \notin disturbed' PROVE Whole(p)'
  <2>1. p \notin disturbed /\ Whole(p) /\ \A q \in Proc \ {p} : ~Holds(q, p)
    BY <1>2, <1>8 DEF IInv
  <2>2. Intact(p)' /\ AcceptedIn(p)'
    BY <1>2, <1>6, <2>1, SameIntact, SameAccepted
  <2>3. /\ LastRecord(p)' = LastRecord(p) /\ (LastFails(p)' <=> LastFails(p))
        /\ (TooLong(p)' <=> TooLong(p)) /\ (EndsInRecord(p)' <=> EndsInRecord(p))
    BY <1>2, SameLast
  <2>5. EndsInRecord(p) => (mem'[p] = LastRecord(p) /\ ~TooLong(p)) \/ (TooLong(p) /\ LastFails(p))
    BY <1>2, Recovered
  <2>6. TooLong(p) => p \in afresh'
    BY <1>2
  <2>4. Follows(p)'
    BY <1>2, <2>3, <2>5, <2>6 DEF Follows, Holding
  <2> QED
    BY <1>1, <1>5, <2>1, <2>2, <2>4, Touched
<1> QED
  BY <1>1, <1>3, <1>4, <1>7, <1>8 DEF IInv

----------------------------------------------------------------------------
(* Purge.                                                                  *)

LEMMA PurgeLoadInv == ASSUME IInv, NEW p \in Proc, PurgeLoad(p) PROVE IInv'
<1>1. TypeOK /\ TypeOK' /\ Apart(p)
  BY PurgeLoadType, StepsApart DEF IInv, PurgeSteps
<1>0. PICK g \in Proc : g = Target(p)
  BY <1>1, TargetOf DEF PurgeLoad, TypeOK
<1> DEFINE k == KeepFrom(lines[g], cut[p])
           new == Rechain(SubSeq(lines[g], k + 1, Len(lines[g])))
<1>2. /\ pc[p] = "purge" /\ todo[p] # {} /\ (g \in files => Readable(lines[g]))
      /\ UNCHANGED <<now, files, lines, tmp, mem, rec, fd, cut, committed, afresh>>
  BY <1>0 DEF PurgeLoad, world, disk
<1>3. Cutoffs'
  BY <1>2 DEF IInv, Cutoffs
<1>4. /\ \A c : Expired(c)' <=> Expired(c)
      /\ \A f : ~Holds(p, f)
  BY <1>2, SameExpired DEF Holds
<1>5. ASSUME NEW f \in Proc, f \notin disturbed, pc'[p] \in {"purge", "loaded"} PROVE Follows(f)'
  <2>1. CASE f # p
    BY <1>1, <1>2, <1>5, <2>1, OthersFollow
  <2>2. CASE f = p
    <3>1. ~TooLong(p)' \/ p \in afresh'
      BY <1>2, <1>5, <2>2, SameLast DEF IInv, Whole, Follows
    <3> QED
      BY <1>5, <2>2, <3>1 DEF Follows
  <2> QED
    BY <2>1, <2>2
<1>6. CASE g \notin files \/ k = 0
  <2>1. pc' = pc /\ disturbed' = disturbed
    BY <1>0, <1>6 DEF PurgeLoad
  <2>2. Purging'
    BY <1>1, <1>2, <2>1 DEF IInv, Purging, Holding, Apart
  <2>3. ASSUME NEW f \in Proc \ disturbed' PROVE Whole(f)'
    <3>1. ~Holds(p, f)' /\ Follows(f)' /\ f \notin disturbed
      BY <1>2, <1>5, <2>1, <2>3, NotHolding DEF Holding
    <3> QED
      BY <1>1, <1>2, <1>4, <2>1, <3>1, Aside DEF Alive, Apart
  <2> QED
    BY <1>1, <1>3, <2>1, <2>2, <2>3 DEF IInv
<1>7. CASE g \in files /\ k # 0
  <2>1. /\ kept' = [kept EXCEPT ![p] = new]
        /\ pc' = [pc EXCEPT ![p] = "loaded"] /\ todo' = todo
        /\ disturbed' = disturbed \cup
             {f \in {g} : (Alive(g) /\ g # p) \/ \E q \in Proc \ {p} : Holds(q, g)}
    BY <1>0, <1>7 DEF PurgeLoad
  <2>2. pc'[p] = "loaded" /\ kept'[p] = new
    BY <1>1, <2>1 DEF TypeOK
  <2>3. Purging'
    BY <1>1, <1>2, <2>1, <2>2 DEF IInv, Purging, Holding, Apart
  <2>4. \A f : Holds(p, f)' <=> f = g
    BY <1>0, <2>1, <2>2 DEF Holds, Target
  <2>5. ASSUME NEW f \in Proc \ disturbed', f # g PROVE Whole(f)'
    <3>1. Follows(f)' /\ f \notin disturbed
      BY <1>5, <2>1, <2>2, <2>5
    <3>2. Alive(f)' => Alive(f)
      BY <1>1, <1>2 DEF Alive, Apart
    <3> QED
      BY <1>1, <1>2, <1>4, <2>4, <2>5, <3>1, <3>2, Aside DEF Apart
  <2>6. ASSUME g \notin disturbed' PROVE Whole(g)'
    <3>1. /\ g \notin disturbed /\ Whole(g) /\ Follows(g)' /\ (g = p \/ ~Alive(g))
          /\ \A q \in Proc \ {p} : ~Holds(q, g)
      BY <1>2, <1>5, <2>1, <2>2, <2>6 DEF IInv
    <3>2. Intact(g)' /\ AcceptedIn(g)'
      BY <1>2, <1>4, <3>1, SameIntact, SameAccepted
    <3>3. lines[g] \in Seq(LineType) /\ cut[p] \in Int
      BY <1>1, <1>2 DEF TypeOK
    <3>4. /\ Readable(new) /\ Chained(new)
          /\ new # << >> => new[1].t >= cut[p] /\ EndsAs(new, lines[g])
          /\ \A c : Has(lines[g], c) => c.t < cut[p] \/ Has(new, c)
      BY <1>2, <1>7, <3>3, KeptRecords
    <3>5. \A c \in committed[g] : Expired(c) \/ Has(new, c)
      BY <3>1, <3>4 DEF Whole, AcceptedIn, Expired
    <3>6. \A r \in Proc : Holds(r, g)' => r = p
      BY <1>1, <3>1, OtherHolders
    <3>7. g = p \/ ~(pc'[g] # "off")
      BY <1>1, <1>2, <3>1 DEF Apart, Alive
    <3> HIDE DEF new
    <3>8. Rewrites(p, g)'
      <4>1. (\A c \in committed[g] : Expired(c) \/ Has(kept[p], c))' <=> \A c \in committed'[g] : Expired(c)' \/ Has(kept'[p], c)
        BY DEF Has
      <4>2. Readable(kept[p])' /\ Chained(kept[p])' /\ (kept'[p] # << >> => EndsAs(kept[p], lines[g])')
        BY <1>2, <2>2, <3>4 DEF Readable, Chained, EndsAs
      <4> QED
        BY <1>2, <1>4, <2>2, <3>4, <3>5, <3>6, <3>7, <4>1, <4>2 DEF Rewrites, Alive
    <3> QED
      BY <1>1, <1>2, <3>1, <3>2, <3>8, Touched
  <2> QED
    BY <1>1, <1>3, <2>3, <2>5, <2>6 DEF IInv
<1> QED
  BY <1>6, <1>7

\* A purge that gives up: if the memory of the process is not at the end of its
\* file, the file counts as disturbed.
LEMMA AbortKeeps ==
  ASSUME IInv, TypeOK', NEW p \in Proc, PurgeAborts(p), pc[p] \in Holding \cup {"purge"},
         UNCHANGED <<now, files, lines>>,
         \A f \in Proc \ disturbed : ~Holds(p, f) => tmp'[f] = tmp[f],
         \A q \in Proc \ {p} : /\ pc[q] = "opened" => fd'[q] = fd[q]
                               /\ pc[q] = "writing" /\ ~Holds(p, Target(q)) => fd'[q] = fd[q]
  PROVE  IInv'
<1>1. TypeOK
  BY DEF IInv
<1>2. /\ pc'[p] = "ready" /\ todo'[p] = {} /\ mem'[p] = mem[p]
      /\ disturbed' = disturbed \cup {f \in {p} : mem[p] # LastState(p)}
      /\ UNCHANGED <<mem, rec, cut, committed, afresh>>
  BY <1>1 DEF PurgeAborts, TypeOK
<1>3. Apart(p)
  BY <1>1 DEF PurgeAborts, TypeOK, Apart
<1>4. Purging' /\ Cutoffs'
  BY <1>2, <1>3 DEF IInv, Purging, Cutoffs, Holding, Apart
<1>5. /\ \A f : ~Holds(p, f)'
      /\ \A c : Expired(c)' <=> Expired(c)
  BY <1>2, NotHolding, SameExpired DEF Holding
<1>6. ASSUME NEW f \in Proc \ disturbed' PROVE f \notin disturbed /\ Whole(f) /\ Follows(f)'
  <2>1. f \notin disturbed /\ Whole(f)
    BY <1>2, <1>6 DEF IInv
  <2>2. CASE f # p
    BY <1>3, <2>1, <2>2, OthersFollow
  <2>3. CASE f = p
    <3>1. mem[p] = LastState(p) /\ (~TooLong(p) \/ p \in afresh)
      BY <1>2, <1>6, <2>1, <2>3 DEF Whole, Follows
    <3>2. LastRecord(p)' = LastRecord(p) /\ (EndsInRecord(p)' <=> EndsInRecord(p)) /\ (LastFails(p)' <=> LastFails(p))
      BY SameLast
    <3>3. EndsInRecord(p) => mem[p] = LastRecord(p) \/ (TooLong(p) /\ LastFails(p))
      BY <3>1, Recovered
    <3> QED
      BY <1>2, <2>1, <2>3, <3>1, <3>2, <3>3 DEF Follows, Holding
  <2> QED
    BY <2>1, <2>2, <2>3
<1>7. ASSUME NEW f \in Proc \ disturbed' PROVE Whole(f)'
  <2>1. f \notin disturbed /\ Whole(f) /\ Follows(f)'
    BY <1>6, <1>7
  <2>2. CASE ~Holds(p, f)
    BY <1>2, <1>3, <1>5, <1>7, <2>1, <2>2, Aside DEF Alive, Apart, Holding
  <2>3. CASE Holds(p, f)
    <3>1. \A q \in Proc \ {p} : ~Holds(q, f)
      BY <1>7, <2>1, <2>3, HeldAlone
    <3>2. Intact(f)' /\ AcceptedIn(f)'
      BY <1>2, <1>5, <2>1, SameIntact, SameAccepted
    <3> QED
      BY <1>3, <1>5, <1>7, <2>1, <3>1, <3>2, Touched
  <2> QED
    BY <2>2, <2>3
<1> QED
  BY <1>4, <1>7 DEF IInv

LEMMA PurgeLoadFailsInv == ASSUME IInv, NEW p \in Proc, PurgeLoadFails(p) PROVE IInv'
BY PurgeLoadFailsType, AbortKeeps DEF IInv, PurgeLoadFails, world, disk

LEMMA PurgeRenameFailsInv == ASSUME IInv, NEW p \in Proc, PurgeRenameFails(p) PROVE IInv'
BY PurgeRenameFailsType, AbortKeeps DEF IInv, PurgeRenameFails, world, disk, Holding

LEMMA PurgeWriteFailsInv == ASSUME IInv, NEW p \in Proc, PurgeWriteFails(p) PROVE IInv'
<1>1. TypeOK /\ Purging /\ TypeOK'
  BY PurgeWriteFailsType DEF IInv
<1>2. pc[p] = "writing" /\ pc[p] \in Holding /\ PurgeAborts(p) /\ UNCHANGED <<now, files, lines>>
  BY DEF PurgeWriteFails, Holding
<1>3. \A f : Holds(p, f) <=> f = Target(p)
  BY <1>2 DEF Holds
<1>4. \A f \in Proc \ disturbed : ~Holds(p, f) => tmp'[f] = tmp[f]
  BY <1>1, <1>3 DEF PurgeWriteFails, TypeOK
<1>5. \A q \in Proc \ {p} : /\ pc[q] = "opened" => fd'[q] = fd[q]
                            /\ pc[q] = "writing" /\ ~Holds(p, Target(q)) => fd'[q] = fd[q]
  BY <1>1, <1>3 DEF PurgeWriteFails, TypeOK
<1> QED
  BY <1>1, <1>2, <1>4, <1>5, AbortKeeps

LEMMA PurgeEndsInv == ASSUME IInv, NEW p \in Proc, PurgeEnds(p) PROVE IInv'
<1>1. TypeOK /\ TypeOK' /\ Apart(p)
  BY PurgeEndsType, StepsApart DEF IInv, PurgeSteps
<1>2. /\ pc[p] = "purge" /\ todo[p] = {} /\ pc'[p] = "ready"
      /\ ~LastFails(p) => mem'[p] = LastState(p)
      /\ UNCHANGED <<now, files, lines, tmp, rec, fd, todo, cut, kept, committed, disturbed, afresh>>
  BY <1>1 DEF PurgeEnds, TypeOK, world, disk, purging
<1>3. Purging' /\ Cutoffs'
  BY <1>1, <1>2 DEF IInv, Purging, Cutoffs, Holding, Apart
<1>4. /\ \A f : ~Holds(p, f)'
      /\ \A c : Expired(c)' <=> Expired(c)
  BY <1>2, NotHolding, SameExpired DEF Holding
<1>5. ASSUME NEW f \in Proc \ disturbed' PROVE Whole(f)'
  <2>1. CASE f # p
    BY <1>1, <1>2, <1>4, <1>5, <2>1, OthersFollow, Aside DEF Alive, Apart
  <2>2. CASE f = p
    <3>1. LastRecord(p)' = LastRecord(p) /\ (EndsInRecord(p)' <=> EndsInRecord(p)) /\ (LastFails(p)' <=> LastFails(p))
      BY <1>2, SameLast
    <3>3. ~TooLong(p) \/ p \in afresh
      BY <1>2, <1>5, <2>2 DEF IInv, Whole, Follows
    <3>4. EndsInRecord(p) => mem'[p] = LastRecord(p) \/ (TooLong(p) /\ LastFails(p))
      BY <1>2, Recovered
    <3>2. Follows(p)'
      BY <1>2, <3>1, <3>3, <3>4 DEF Follows, Holding
    <3> QED
      BY <1>1, <1>2, <1>4, <1>5, <2>2, <3>2, Aside DEF Alive
  <2> QED
    BY <2>1, <2>2
<1> QED
  BY <1>1, <1>3, <1>5 DEF IInv

LEMMA PurgeCreateInv == ASSUME IInv, NEW p \in Proc, PurgeCreate(p) PROVE IInv'
<1>1. TypeOK /\ TypeOK' /\ Apart(p) /\ Purging
  BY PurgeCreateType, StepsApart DEF IInv, PurgeSteps
<1>0. PICK g \in Proc : g = Target(p)
  BY <1>1, TargetHeld DEF PurgeCreate, Holding
<1>2. /\ pc[p] = "loaded" /\ pc'[p] = "writing" /\ fd'[p] = "tmp" /\ tmp'[g] = << >>
      /\ \A q \in Proc \ {p} : fd'[q] = fd[q]
      /\ \A f \in Proc \ {g} : tmp'[f] = tmp[f]
      /\ UNCHANGED <<now, files, lines, mem, rec, todo, cut, kept, committed, disturbed, afresh>>
  BY <1>0, <1>1 DEF PurgeCreate, TypeOK, world, purging
<1>3. Purging' /\ Cutoffs'
  BY <1>1, <1>2 DEF IInv, Purging, Cutoffs, Holding, Apart
<1>4. /\ \A f : (Holds(p, f)' <=> f = g) /\ (Holds(p, f) <=> f = g)
      /\ \A c : Expired(c)' <=> Expired(c)
  BY <1>0, <1>2, SameExpired DEF Holds, Target
<1>5. ASSUME NEW f \in Proc \ disturbed' PROVE f \notin disturbed /\ Follows(f)'
  <2>1. CASE f # p
    BY <1>1, <1>2, <1>5, <2>1, OthersFollow
  <2>2. CASE f = p
    <3>1. ~TooLong(p)' \/ p \in afresh'
      BY <1>2, <1>5, <2>2, SameLast DEF IInv, Whole, Follows, Holding
    <3> QED
      BY <1>2, <1>5, <2>2, <3>1 DEF Follows
  <2> QED
    BY <2>1, <2>2
<1>6. ASSUME NEW f \in Proc \ disturbed', f # g PROVE Whole(f)'
  <2>1. Alive(f)' => Alive(f)
    BY <1>1, <1>2 DEF Apart, Alive
  <2> QED
    BY <1>1, <1>2, <1>4, <1>5, <1>6, <2>1, Aside
<1>7. ASSUME g \notin disturbed' PROVE Whole(g)'
  <2>1. g \notin disturbed /\ Whole(g) /\ Follows(g)' /\ Rewrites(p, g)
    BY <1>2, <1>4, <1>5, <1>7 DEF IInv, Whole
  <2>2. \A q \in Proc \ {p} : ~Holds(q, g)
    BY <1>4, <2>1, HeldAlone
  <2>3. Intact(g)' /\ AcceptedIn(g)'
    BY <1>2, <1>4, <2>1, SameIntact, SameAccepted
  <2>4. Rewrites(p, g)'
    <3>1. g = p \/ ~Alive(g)'
      BY <1>1, <2>1 DEF Rewrites, Alive, Apart
    <3>2. \A r \in Proc : Holds(r, g)' => r = p
      BY <1>1, <2>2, OtherHolders
    <3>3. /\ (Readable(kept[p]) /\ Chained(kept[p]))'
          /\ (kept[p] # << >> => kept[p][1].t >= cut[p] /\ EndsAs(kept[p], lines[g]))'
      BY <1>2, <2>1 DEF Rewrites, Readable, Chained, EndsAs
    <3>4. (\A c \in committed[g] : Expired(c) \/ Has(kept[p], c))'
      BY <1>2, <1>4, <2>1 DEF Rewrites, Has
    <3> QED
      BY <1>2, <3>1, <3>2, <3>3, <3>4 DEF Rewrites
  <2> QED
    BY <1>1, <2>1, <2>2, <2>3, <2>4, Touched
<1> QED
  BY <1>1, <1>2, <1>3, <1>6, <1>7 DEF IInv

LEMMA PurgeWriteInv == ASSUME IInv, NEW p \in Proc, PurgeWrite(p) PROVE IInv'
<1>1. TypeOK /\ TypeOK' /\ Apart(p) /\ Purging
  BY PurgeWriteType, StepsApart DEF IInv, PurgeSteps
<1>0. PICK g \in Proc : g = Target(p)
  BY <1>1, TargetHeld DEF PurgeWrite, Holding
<1>2. /\ pc[p] = "writing" /\ pc'[p] = "renaming"
      /\ \A q \in Proc \ {p} : fd'[q] = fd[q]
      /\ \A f \in Proc \ {g} : tmp'[f] = tmp[f] /\ lines'[f] = lines[f]
      /\ fd[p] = "tmp" => lines' = lines /\ tmp'[g] = Overwrite(kept[p], tmp[g])
      /\ UNCHANGED <<now, files, mem, rec, todo, cut, kept, committed, disturbed, afresh>>
  BY <1>0, <1>1 DEF PurgeWrite, TypeOK, world, purging
<1>3. Purging' /\ Cutoffs'
  BY <1>1, <1>2 DEF IInv, Purging, Cutoffs, Holding, Apart
<1>4. /\ \A f : (Holds(p, f)' <=> f = g) /\ (Holds(p, f) <=> f = g)
      /\ \A c : Expired(c)' <=> Expired(c)
  BY <1>0, <1>2, SameExpired DEF Holds, Target
<1>5. ASSUME NEW f \in Proc \ disturbed', lines'[f] = lines[f] PROVE f \notin disturbed /\ Follows(f)'
  <2>1. CASE f # p
    BY <1>1, <1>2, <1>5, <2>1, OthersFollow
  <2>2. CASE f = p
    <3>1. ~TooLong(p)' \/ p \in afresh'
      BY <1>2, <1>5, <2>2, SameLast DEF IInv, Whole, Follows, Holding
    <3> QED
      BY <1>2, <1>5, <2>2, <3>1 DEF Follows
  <2> QED
    BY <2>1, <2>2
<1>6. ASSUME NEW f \in Proc \ disturbed', f # g PROVE Whole(f)'
  <2>1. Alive(f)' => Alive(f)
    BY <1>1, <1>2 DEF Apart, Alive
  <2> QED
    BY <1>1, <1>2, <1>4, <1>5, <1>6, <2>1, Aside
<1>7. ASSUME g \notin disturbed' PROVE Whole(g)'
  <2>1. g \notin disturbed /\ Whole(g) /\ Rewrites(p, g)
    BY <1>2, <1>4, <1>7 DEF IInv, Whole
  <2>2. kept[p] \in Seq(LineType) /\ tmp[g] \in Seq(LineType)
    BY <1>1 DEF TypeOK
  <2>3. lines' = lines /\ tmp'[g] = kept[p]
    BY <1>2, <2>1, <2>2, Overwritten DEF Rewrites
  <2>4. \A q \in Proc \ {p} : ~Holds(q, g)
    BY <1>4, <2>1, HeldAlone
  <2>5. Intact(g)' /\ AcceptedIn(g)'
    BY <1>2, <1>4, <2>1, <2>3, SameIntact, SameAccepted
  <2>6. Rewrites(p, g)'
    <3>1. g = p \/ ~Alive(g)'
      BY <1>1, <2>1 DEF Rewrites, Alive, Apart
    <3>2. \A r \in Proc : Holds(r, g)' => r = p
      BY <1>1, <2>4, OtherHolders
    <3>3. /\ (Readable(kept[p]) /\ Chained(kept[p]))'
          /\ (kept[p] # << >> => kept[p][1].t >= cut[p] /\ EndsAs(kept[p], lines[g]))'
      BY <1>2, <2>1, <2>3 DEF Rewrites, Readable, Chained, EndsAs
    <3>4. (\A c \in committed[g] : Expired(c) \/ Has(kept[p], c))'
      BY <1>2, <1>4, <2>1 DEF Rewrites, Has
    <3> QED
      BY <1>2, <2>3, <3>1, <3>2, <3>3, <3>4 DEF Rewrites
  <2> QED
    BY <1>1, <1>5, <1>7, <2>1, <2>3, <2>4, <2>5, <2>6, Touched
<1> QED
  BY <1>1, <1>2, <1>3, <1>6, <1>7 DEF IInv

\* The purge goes on: the file it was at is whole again.
LEMMA NextKeeps ==
  ASSUME IInv, TypeOK', NEW p \in Proc, NEW g \in Proc, g = Target(p), pc[p] \in Holding,
         PurgeNext(p, g), now' = now, disturbed \subseteq disturbed',
         \A q \in Proc : pc[q] \in {"writing", "renaming"} /\ Target(q) # g => fd'[q] = fd[q],
         \A q \in Proc : pc[q] \notin {"writing", "renaming"} /\ q # g => fd'[q] = fd[q],
         \A f \in Proc \ {g} : lines'[f] = lines[f] /\ tmp'[f] = tmp[f] /\ (f \in files' <=> f \in files),
         g \notin disturbed' => Intact(g)' /\ AcceptedIn(g)' /\ (~TooLong(g)' \/ g # p \/ g \in afresh)
  PROVE  IInv'
<1>1. TypeOK /\ Purging
  BY DEF IInv
<1>2. /\ pc'[p] = "purge"
      /\ UNCHANGED <<mem, rec, cut, committed, afresh>>
  BY <1>1 DEF PurgeNext, TypeOK
<1>3. Apart(p)
  BY <1>1 DEF PurgeNext, TypeOK, Apart
<1>4. Purging' /\ Cutoffs'
  BY <1>2, <1>3 DEF IInv, Purging, Cutoffs, Holding, Apart
<1>5. /\ \A f : ~Holds(p, f)' /\ (Holds(p, f) <=> f = g)
      /\ \A c : Expired(c)' <=> Expired(c)
  BY <1>2, NotHolding, SameExpired DEF Holding, Holds
<1>7. ASSUME NEW f \in Proc \ disturbed', f # g PROVE Whole(f)'
  <2>1. f \notin disturbed /\ (Alive(f)' => Alive(f))
    BY <1>2, <1>3, <1>7 DEF Alive, Apart, Holding
  <2>2. Follows(f)'
    <3>1. CASE f # p
      BY <1>3, <1>7, <2>1, <3>1, OthersFollow
    <3>2. CASE f = p
      <4>1. ~TooLong(p) \/ p \in afresh
        BY <2>1, <3>2 DEF IInv, Whole, Follows
      <4>2. TooLong(p)' <=> TooLong(p)
        BY <1>7, <3>2, SameLast
      <4> QED
        BY <1>2, <3>2, <4>1, <4>2 DEF Follows
    <3> QED
      BY <3>1, <3>2
  <2>3. \A q \in Proc \ {p} : pc[q] = "writing" /\ Target(q) = f => fd'[q] = fd[q]
    BY <1>7
  <2> QED
    BY <1>2, <1>3, <1>5, <1>7, <2>1, <2>2, <2>3, Aside
<1>8. ASSUME g \notin disturbed' PROVE Whole(g)'
  <2>1. g \notin disturbed /\ (g = p \/ ~Alive(g))
    BY <1>5, <1>8 DEF IInv, Whole, Rewrites
  <2>2. \A q \in Proc \ {p} : ~Holds(q, g)
    BY <1>5, <2>1, HeldAlone
  <2>3. pc'[g] = "off" \/ (g = p /\ pc'[g] = "purge")
    BY <1>2, <1>3, <2>1 DEF Apart, Alive
  <2>4. Follows(g)'
    BY <1>2, <1>8, <2>3 DEF Follows, Holding
  <2> QED
    BY <1>3, <1>5, <1>8, <2>2, <2>4, Touched
<1> QED
  BY <1>4, <1>7, <1>8 DEF IInv

\* Nothing is kept, and so nothing that was accepted was young enough.
LEMMA PurgeRemoveInv == ASSUME IInv, NEW p \in Proc, PurgeRemove(p) PROVE IInv'
<1>1. TypeOK /\ TypeOK' /\ Purging
  BY PurgeRemoveType DEF IInv
<1>2. pc[p] = "loaded" /\ pc[p] \in Holding /\ kept[p] = << >>
  BY DEF PurgeRemove, Holding
<1>3. PICK g \in Proc : g = Target(p)
  BY <1>1, <1>2, TargetHeld
<1>4. /\ files' = files \ {g} /\ lines'[g] = << >> /\ fd' = Redirect(g, "tmp") /\ PurgeNext(p, g)
      /\ disturbed \subseteq disturbed'
      /\ \A f \in Proc \ {g} : lines'[f] = lines[f]
      /\ UNCHANGED <<now, tmp, cut, committed, afresh>>
  BY <1>1, <1>3 DEF PurgeRemove, PurgeNext, Takes, TypeOK, world
<1>6. /\ \A q \in Proc : pc[q] \in {"writing", "renaming"} /\ Target(q) # g => fd'[q] = fd[q]
      /\ \A q \in Proc : pc[q] \notin {"writing", "renaming"} /\ q # g => fd'[q] = fd[q]
  BY <1>1, <1>4, Redirected
<1>5. ASSUME g \notin disturbed' PROVE Intact(g)' /\ AcceptedIn(g)' /\ (~TooLong(g)' \/ g # p \/ g \in afresh)
  <2>1. g \notin disturbed /\ Holds(p, g)
    BY <1>2, <1>3, <1>4, <1>5 DEF Holds
  <2>2. Rewrites(p, g)
    BY <2>1 DEF IInv, Whole
  <2>3. Intact(g)'
    BY <1>4 DEF Intact, Chained
  <2>4. \A c \in committed[g] : Expired(c)
    BY <1>2, <2>2 DEF Rewrites, Has
  <2>5. \A c \in committed'[g] : Expired(c)'
    BY <1>4, <2>4, SameExpired
  <2>6. ~TooLong(g)'
    BY <1>4 DEF TooLong, HasLast
  <2> QED
    BY <2>3, <2>5, <2>6 DEF AcceptedIn
<1> QED
  BY <1>1, <1>2, <1>3, <1>4, <1>5, <1>6, NextKeeps

\* The file stays as it was.
LEMMA PurgeRemoveFailsInv == ASSUME IInv, NEW p \in Proc, PurgeRemoveFails(p) PROVE IInv'
<1>1. TypeOK /\ TypeOK' /\ Purging
  BY PurgeRemoveFailsType DEF IInv
<1>2. pc[p] = "loaded" /\ pc[p] \in Holding
  BY DEF PurgeRemoveFails, Holding
<1>3. PICK g \in Proc : g = Target(p)
  BY <1>1, <1>2, TargetHeld
<1>4. /\ PurgeNext(p, g)
      /\ UNCHANGED <<now, files, lines, tmp, fd, cut, committed, disturbed, afresh>>
  BY <1>3 DEF PurgeRemoveFails, PurgeNext, disk
<1>5. ASSUME g \notin disturbed' PROVE Intact(g)' /\ AcceptedIn(g)' /\ (~TooLong(g)' \/ g # p \/ g \in afresh)
  <2>1. Whole(g)
    BY <1>4, <1>5 DEF IInv
  <2>2. \A c : Expired(c)' <=> Expired(c)
    BY <1>4, SameExpired
  <2>3. Intact(g)' /\ AcceptedIn(g)'
    BY <1>4, <2>1, <2>2, SameIntact, SameAccepted
  <2>4. TooLong(g)' <=> TooLong(g)
    BY <1>4, SameLast
  <2> QED
    BY <1>2, <2>1, <2>3, <2>4 DEF Whole, Follows
<1> QED
  BY <1>1, <1>2, <1>3, <1>4, <1>5, NextKeeps

LEMMA PurgeRenameInv == ASSUME IInv, NEW p \in Proc, PurgeRename(p) PROVE IInv'
<1>1. TypeOK /\ TypeOK' /\ Purging
  BY PurgeRenameType DEF IInv
<1>2. pc[p] = "renaming" /\ pc[p] \in Holding
  BY DEF PurgeRename, Holding
<1>3. PICK g \in Proc : g = Target(p)
  BY <1>1, <1>2, TargetHeld
<1>4. /\ files' = files \cup {g} /\ lines'[g] = tmp[g] /\ fd' = Redirect(g, "path") /\ PurgeNext(p, g)
      /\ disturbed \subseteq disturbed'
      /\ \A f \in Proc \ {g} : lines'[f] = lines[f] /\ tmp'[f] = tmp[f]
      /\ UNCHANGED <<now, cut, committed, afresh>>
  BY <1>1, <1>3 DEF PurgeRename, PurgeNext, Takes, TypeOK, world
<1>6. /\ \A q \in Proc : pc[q] \in {"writing", "renaming"} /\ Target(q) # g => fd'[q] = fd[q]
      /\ \A q \in Proc : pc[q] \notin {"writing", "renaming"} /\ q # g => fd'[q] = fd[q]
  BY <1>1, <1>4, Redirected
<1>5. ASSUME g \notin disturbed' PROVE Intact(g)' /\ AcceptedIn(g)' /\ (~TooLong(g)' \/ g # p \/ g \in afresh)
  <2>1. g \notin disturbed /\ Holds(p, g)
    BY <1>2, <1>3, <1>4, <1>5 DEF Holds
  <2>2. Rewrites(p, g)
    BY <2>1 DEF IInv, Whole
  <2>3. lines'[g] = kept[p] /\ Chained(kept[p])
    BY <1>2, <1>4, <2>2 DEF Rewrites
  <2>4. Intact(g)'
    BY <1>4, <2>3 DEF Intact, Chained
  <2>5. \A c \in committed'[g] : Expired(c)' \/ (g \in files' /\ Has(lines'[g], c))
    BY <1>4, <2>2, <2>3, SameExpired DEF Rewrites
  <2>6. TooLong(g)' => TooLong(g)
    <3>1. lines'[g] # << >> => EndsAs(kept[p], lines[g])
      BY <2>2, <2>3 DEF Rewrites
    <3>2. g \notin files => lines[g] = << >>
      BY <2>1 DEF IInv, Whole, Intact
    <3>3. TooLong(g)' => lines'[g] # << >> /\ kept[p][Len(kept[p])].st \in {"long", "huge"}
      BY <2>3 DEF TooLong, HasLast, LastLine
    <3> QED
      BY <3>1, <3>2, <3>3 DEF EndsAs, TooLong, HasLast, LastLine
  <2>7. g = p => ~TooLong(g) \/ g \in afresh
    BY <1>2, <2>1 DEF IInv, Whole, Follows
  <2> QED
    BY <2>4, <2>5, <2>6, <2>7 DEF AcceptedIn, Has
<1> QED
  BY <1>1, <1>2, <1>3, <1>4, <1>5, <1>6, NextKeeps

----------------------------------------------------------------------------
(* The invariant is inductive.                                             *)

LEMMA Initially == Init => IInv
<1> SUFFICES ASSUME Init PROVE IInv
  OBVIOUS
<1>1. TypeOK
  <2>1. 0 \in 0 .. MaxTime /\ 0 \in 0 .. MaxStarts /\ 0 \in 0 .. MaxFaults /\ 0 \in 0 .. MaxCalls
    BY Numbers
  <2>2. << >> \in Seq(LineType) /\ Fresh \in [seq : Nat, last : Seq(Payloads)]
    BY DEF Fresh, Genesis
  <2> QED
    BY <2>1, <2>2, NoRecType DEF TypeOK, Init, Payloads
<1>2. Purging /\ Cutoffs
  BY DEF Init, Purging, Cutoffs, Holding
<1>3. ASSUME NEW f \in Proc PROVE Whole(f)
  <2>1. Intact(f) /\ AcceptedIn(f) /\ Follows(f)
    BY DEF Init, Intact, Chained, AcceptedIn, Follows, Holding
  <2> QED
    BY <2>1 DEF Init, Whole, Holds
<1> QED
  BY <1>1, <1>2, <1>3 DEF IInv

LEMMA Step == IInv /\ [Next]_vars => IInv'
<1> SUFFICES ASSUME IInv, [Next]_vars PROVE IInv'
  OBVIOUS
<1>1. CASE Tick
  BY <1>1, TickInv
<1>2. ASSUME NEW p \in Proc, NEW purge \in BOOLEAN, Start(p, purge) PROVE IInv'
  BY <1>2, StartInv
<1>3. ASSUME NEW p \in Proc, PurgeSteps(p) PROVE IInv'
  BY <1>3, PurgeLoadInv, PurgeLoadFailsInv, PurgeRemoveInv, PurgeRemoveFailsInv, PurgeCreateInv, PurgeWriteInv,
     PurgeWriteFailsInv, PurgeRenameInv, PurgeRenameFailsInv, PurgeEndsInv DEF PurgeSteps
<1>4. ASSUME NEW p \in Proc, AppendSteps(p) PROVE IInv'
  BY <1>4, OpenInv, WriteInv, WriteFailsInv, SyncInv, SyncFailsInv DEF AppendSteps
<1>5. ASSUME NEW p \in Proc, Stop(p) PROVE IInv'
  BY <1>5, StopInv
<1>6. CASE UNCHANGED vars
  <2>1. UNCHANGED <<now, starts, faults, files, lines, tmps, tmp, pc, mem, calls, rec, fd,
                    todo, cut, kept, committed, disturbed, afresh>>
    BY <1>6 DEF vars, world, disk, purging
  <2>2. TypeOK' /\ Purging' /\ Cutoffs'
    BY <2>1 DEF IInv, TypeOK, Purging, Cutoffs
  <2>3. ASSUME NEW f \in Proc \ disturbed' PROVE Whole(f)'
    <3>1. Whole(f)
      BY <2>1, <2>3 DEF IInv
    <3>2. Follows(f)'
      BY <2>1, <3>1, SameFollows DEF Whole
    <3>3. \A q \in Proc : Holds(q, f)' <=> Holds(q, f)
      BY <2>1, SameHolder
    <3> QED
      BY <2>1, <3>1, <3>2, <3>3, SameExpired, Untouched DEF Alive
  <2> QED
    BY <2>2, <2>3 DEF IInv
<1> QED
  BY <1>1, <1>2, <1>3, <1>4, <1>5, <1>6 DEF Next

\* The invariant holds in every reachable state.
THEOREM Invariant == Spec => []IInv
BY Initially, Step, PTL DEF Spec

----------------------------------------------------------------------------
(* What it says of the ledger.                                             *)

\* Every variable keeps its type, and a descriptor is open only in a write.
THEOREM TypeCorrect == Spec => []TypeOK
<1>1. IInv => TypeOK
  BY DEF IInv
<1> QED
  BY <1>1, Invariant, PTL

\* --verify raises no false alarm: whatever processes start, append, purge and
\* are killed, a file that can be read and breaks was disturbed, or its process
\* was started on it behind a record of more than 64 KB.
THEOREM NoFalseAlarm == Spec => []BrokenOnlyIfDisturbed
<1>1. IInv => BrokenOnlyIfDisturbed
  BY DEF IInv, Whole, Intact, BrokenOnlyIfDisturbed, Broken
<1> QED
  BY <1>1, Invariant, PTL

\* What governance_status reports is the last record of the file, short or
\* long, except where a start could not recover it.
THEOREM StatusHonest == Spec => []StatusMatchesFile
<1>1. IInv => StatusMatchesFile
  BY Recovered DEF IInv, Whole, Follows, EndsInRecord, StatusMatchesFile
<1> QED
  BY <1>1, Invariant, PTL

\* A receipt that was accepted is in the file until a purge may remove it.
THEOREM ReceiptsKept == Spec => []AcceptedStays
<1>1. IInv => AcceptedStays
  BY DEF IInv, Whole, AcceptedIn, Expired, Has, AcceptedStays
<1> QED
  BY <1>1, Invariant, PTL

RemovesOld ==
  \A p, f \in Proc :
     f \in todo[p] \ todo'[p] /\ pc'[p] = "purge" /\ f \notin disturbed' /\ faults' = faults =>
        lines'[f] = << >> \/ lines'[f][1].t >= cut[p]

\* Only the process itself crosses a file off its list.
LEMMA StepRemovesOld == IInv /\ [Next]_vars => RemovesOld
<1> SUFFICES ASSUME IInv, [Next]_vars,
                    NEW p \in Proc, NEW f \in Proc,
                    f \in todo[p], f \notin todo'[p], pc'[p] = "purge", f \notin disturbed', faults' = faults
             PROVE  lines'[f] = << >> \/ lines'[f][1].t >= cut[p]
  BY DEF RemovesOld
<1>1. TypeOK /\ Purging
  BY DEF IInv
<1>2. CASE Tick \/ UNCHANGED vars
  BY <1>2 DEF Tick, vars, purging
<1>3. ASSUME NEW r \in Proc, NEW purge \in BOOLEAN, Start(r, purge) PROVE FALSE
  <2>1. r = p
    BY <1>1, <1>3, StepsApart DEF Apart
  <2>2. pc[p] = "off"
    BY <1>3, <2>1 DEF Start
  <2> QED
    BY <1>1, <2>2 DEF Purging, Holding
<1>4. ASSUME NEW r \in Proc, AppendSteps(r) \/ Stop(r) PROVE FALSE
  <2>1. r = p
    BY <1>1, <1>4, StepsApart DEF Apart
  <2>2. pc'[p] # "purge"
    BY <1>1, <1>4, <2>1 DEF AppendSteps, Open, Write, WriteFails, Sync, SyncFails, Stop, TypeOK
  <2> QED
    BY <2>2
<1>5. ASSUME NEW r \in Proc, PurgeSteps(r) PROVE lines'[f] = << >> \/ lines'[f][1].t >= cut[p]
  <2>1. r = p
    BY <1>1, <1>5, StepsApart DEF Apart
  <2>2. CASE PurgeLoad(p)
    <3>1. todo[p] # {} /\ Target(p) \in Proc
      BY <1>1, TargetOf DEF TypeOK
    <3>2. /\ todo' = [todo EXCEPT ![p] = @ \ {Target(p)}] /\ disturbed' = disturbed
          /\ Target(p) \notin files \/ KeepFrom(lines[Target(p)], cut[p]) = 0
      BY <2>2 DEF PurgeLoad
    <3>3. f = Target(p) /\ lines'[f] = lines[f] /\ Whole(f)
      BY <1>1, <2>2, <3>2 DEF PurgeLoad, TypeOK, IInv, disk
    <3>4. CASE f \notin files
      BY <3>3, <3>4 DEF Whole, Intact
    <3>5. CASE KeepFrom(lines[f], cut[p]) = 0 /\ lines[f] # << >>
      <4>1. lines[f] \in Seq(LineType) /\ cut[p] \in Int /\ Len(lines[f]) \in Nat \ {0}
        BY <1>1, <3>5, EmptySeq DEF TypeOK
      <4>2. KeepFrom(lines[f], cut[p]) < Len(lines[f]) => lines[f][KeepFrom(lines[f], cut[p]) + 1].t >= cut[p]
        BY <4>1, KeepFromFirst
      <4>3. lines[f][1].t >= cut[p]
        BY <3>5, <4>1, <4>2
      <4> QED
        BY <3>3, <4>3
    <3> QED
      BY <3>2, <3>3, <3>4, <3>5
  <2>3. CASE PurgeRemove(p)
    <3>1. f = Target(p)
      BY <1>1, <2>3 DEF PurgeRemove, PurgeNext, TypeOK
    <3> QED
      BY <1>1, <2>3, <3>1 DEF PurgeRemove, TypeOK
  <2>8. CASE PurgeRemoveFails(p)
    BY <1>1, <2>8 DEF PurgeRemoveFails, TypeOK
  <2>4. CASE PurgeRename(p)
    <3>1. f = Target(p) /\ lines'[f] = tmp[f] /\ f \notin disturbed /\ pc[p] = "renaming"
      BY <1>1, <2>4 DEF PurgeRename, PurgeNext, Takes, TypeOK
    <3>2. Rewrites(p, f)
      BY <3>1 DEF IInv, Whole, Holds
    <3> QED
      BY <3>1, <3>2 DEF Rewrites
  <2>5. CASE PurgeCreate(p) \/ PurgeWrite(p)
    BY <1>1, <2>5 DEF PurgeCreate, PurgeWrite, TypeOK
  <2>6. CASE PurgeEnds(p)
    BY <1>1, <2>6 DEF PurgeEnds, TypeOK
  <2>7. CASE PurgeLoadFails(p) \/ PurgeWriteFails(p) \/ PurgeRenameFails(p)
    BY <1>1, <2>7 DEF PurgeLoadFails, PurgeWriteFails, PurgeRenameFails, PurgeAborts, TypeOK
  <2> QED
    BY <1>5, <2>1, <2>2, <2>3, <2>4, <2>5, <2>6, <2>7, <2>8 DEF PurgeSteps
<1> QED
  BY <1>2, <1>3, <1>4, <1>5 DEF Next

\* A purge that goes on has left no old record at the head of the file, unless
\* somebody interfered with it or the removal of the file failed.
THEOREM OldRemoved == Spec => PurgeRemovesOld
<1>1. IInv /\ [Next]_vars => [RemovesOld]_vars
  BY StepRemovesOld
<1>2. Spec => [][RemovesOld]_vars
  BY <1>1, Invariant, PTL DEF Spec
<1> QED
  BY <1>2 DEF PurgeRemovesOld, RemovesOld

=============================================================================
