------------------------------- MODULE Ledger -------------------------------
(***************************************************************************)
(* The receipt ledger of mcp-guardian, internal/receipt/receipt.go: one    *)
(* hash-chained file for each proxy process, all in one state directory    *)
(* without a lock, and the purge that every process runs over all of them  *)
(* when it starts.                                                         *)
(*                                                                         *)
(* A file is named after its process (start time and PID), so file p is    *)
(* the file of process p; the same name twice is the "rapid restart with   *)
(* PID reuse" NewLedger provides for.                                      *)
(***************************************************************************)
EXTENDS Integers, Sequences

CONSTANTS
  Proc,       \* processes, numbered in the order of their file names
  MaxAge,     \* cfg.MaxReceiptAgeDays, in ticks of the clock
  MaxTime,    \* bound: ticks
  MaxStarts,  \* bound: process starts
  MaxCalls,   \* bound: receipts a process writes, over all its starts
  MaxFaults,  \* bound: failed writes and removals, and records nobody can read
  Long        \* bound: processes that may write records longer than 64 KB

ASSUME LedgerAssumption ==
  /\ Proc \subseteq Nat
  /\ Long \subseteq Proc
  /\ {MaxAge, MaxTime, MaxStarts, MaxCalls, MaxFaults} \subseteq Nat

----------------------------------------------------------------------------
(* Lines.  The hash of a record stands for all it covers: it is the        *)
(* sequence of the payloads from "genesis" to the record.  Arguments,      *)
(* outcome and the rest of the payload are the number of the call.         *)
(*                                                                         *)
(* st: "ok" a record; "long" one longer than the 64 KB readLastRecord goes *)
(* back; "huge" one longer than the 1 MB LoadReceipts reads as well;       *)
(* "part" the beginning of a record, with no newline; "bad" a line that is *)
(* no JSON.                                                                *)

Recorded == {"ok", "long", "huge"}

Genesis == << >>

Payload(r) == [call |-> r.call, seq |-> r.seq, t |-> r.t]

ComputeHash(r, previousHash) == Append(previousHash, Payload(r))

Garbage(st) ==
  [st |-> st, call |-> 0, seq |-> 0, t |-> 0, prev |-> Genesis, hash |-> Genesis]

\* LoadReceipts succeeds.
Readable(ls) == \A i \in DOMAIN ls : ls[i].st \in {"ok", "long"}

\* verifyFile's walk along the chain.
Chained(ls) ==
  \A i \in DOMAIN ls :
     LET prev == IF i = 1 THEN Genesis ELSE ls[i - 1].hash IN
       ls[i].prev = prev /\ ls[i].hash = ComputeHash(ls[i], prev)

\* Variant: the kept records stay as they are.
RechainKeepsHashes(ls) == ls

\* purgeFile's re-chaining of the records it keeps: the hash of the i-th is
\* over the payloads of the first i.
Rechain(ls) ==
  LET Hash(i) == [j \in 1 .. i |-> Payload(ls[j])]
  IN  [i \in DOMAIN ls |-> [ls[i] EXCEPT !.prev = Hash(i - 1), !.hash = Hash(i)]]

\* Variants: a record of the cutoff's own age goes as well; a file in which all
\* records are old is left alone.
KeepFromInclusive(ls, cutoff) ==
  CHOOSE k \in 0 .. Len(ls) : /\ \A i \in 1 .. k : ls[i].t <= cutoff
                              /\ k < Len(ls) => ls[k + 1].t > cutoff

KeepFromSomeYoung(ls, cutoff) ==
  IF \A i \in DOMAIN ls : ls[i].t < cutoff THEN 0
  ELSE CHOOSE k \in 0 .. Len(ls) : (\A i \in 1 .. k : ls[i].t < cutoff) /\ ls[k + 1].t >= cutoff

\* The number of old records before the first that purgeFile keeps.
KeepFrom(ls, cutoff) ==
  CHOOSE k \in 0 .. Len(ls) : /\ \A i \in 1 .. k : ls[i].t < cutoff
                              /\ k < Len(ls) => ls[k + 1].t >= cutoff

\* A line written after the beginning of another becomes part of it.
Torn(ls) == ls # << >> /\ ls[Len(ls)].st = "part"

AddLine(ls, l) ==
  IF Torn(ls) THEN [ls EXCEPT ![Len(ls)] = Garbage(IF l.st = "part" THEN "part" ELSE "bad")]
              ELSE Append(ls, l)

\* What a file holds after `new` was written from its start over `old`.
Overwrite(new, old) == IF Len(old) <= Len(new) THEN new ELSE Append(new, Garbage("bad"))

----------------------------------------------------------------------------
VARIABLES
  now,        \* the wall clock
  starts,     \* number of process starts
  faults,     \* number of faults
  files,      \* receipt files in the state directory
  lines,      \* lines[f]: what file f holds
  tmps,       \* files f for which f.tmp exists
  tmp,        \* tmp[f]: what f.tmp holds
  pc,         \* pc[p]: where process p is
  mem,        \* mem[p]: Ledger.seq and Ledger.lastHash of process p
  calls,      \* calls[p]: receipts p tried to write
  rec,        \* rec[p]: the record p is appending
  fd,         \* fd[p]: what the descriptor p writes to leads to
  todo,       \* todo[p]: files p has yet to purge
  cut,        \* cut[p]: the cutoff of p's purge
  kept,       \* kept[p]: the records purgeFile keeps of the first file of todo[p]
  committed,  \* history: what Append returned nil for, by process
  disturbed,  \* history: files a fault or another process has interfered with
  afresh      \* history: processes that did not recover the record their file ends in

world   == <<now, starts, faults>>
disk    == <<files, lines, tmps, tmp>>
purging == <<todo, cut, kept>>
vars == <<world, disk, pc, mem, calls, rec, fd, purging, committed, disturbed, afresh>>

Fresh == [seq |-> 0, last |-> Genesis]
NoRec == Garbage("bad")   \* rec[p] outside Append

Init ==
  /\ now = 0 /\ starts = 0 /\ faults = 0
  /\ files = {} /\ tmps = {}
  /\ lines = [p \in Proc |-> << >>]
  /\ tmp = [p \in Proc |-> << >>]
  /\ pc = [p \in Proc |-> "off"]
  /\ mem = [p \in Proc |-> Fresh]
  /\ calls = [p \in Proc |-> 0]
  /\ rec = [p \in Proc |-> NoRec]
  /\ fd = [p \in Proc |-> "none"]
  /\ todo = [p \in Proc |-> {}]
  /\ cut = [p \in Proc |-> 0]
  /\ kept = [p \in Proc |-> << >>]
  /\ committed = [p \in Proc |-> {}]
  /\ disturbed = {} /\ afresh = {}

Alive(p) == pc[p] # "off"

\* The file p is purging: listReceiptFiles sorts the names.
Target(p) == CHOOSE f \in todo[p] : \A g \in todo[p] : f <= g

\* p has read file f to rewrite it and has not replaced it yet.
Holds(p, f) == pc[p] \in {"loaded", "writing", "renaming"} /\ f = Target(p)

HasLast(f)  == f \in files /\ lines[f] # << >>
LastLine(f) == lines[f][Len(lines[f])]

\* The record a file ends in, whoever can read it.
LastRecord(f) == IF HasLast(f) THEN [seq |-> LastLine(f).seq, last |-> LastLine(f).hash] ELSE Fresh
TooLong(f)    == HasLast(f) /\ LastLine(f).st \in {"long", "huge"}

\* readLastRecord: an empty file has none; garbage is an error, and so is a
\* record of which 64 KB are only the end.
LastFails(f) == HasLast(f) /\ LastLine(f).st # "ok"
LastState(f) == IF LastFails(f) THEN Fresh ELSE LastRecord(f)

\* Descriptors that led to f.jsonl lead nowhere once the name does; those
\* that led to f.tmp lead wherever f.tmp went.
Redirect(f, tmpTo) ==
  [p \in Proc |-> IF Alive(p) /\ f = (IF pc[p] \in {"writing", "renaming"} THEN Target(p) ELSE p)
                  THEN CASE fd[p] = "path" -> "gone"
                         [] fd[p] = "tmp"  -> tmpTo
                         [] OTHER -> fd[p]
                  ELSE fd[p]]

----------------------------------------------------------------------------
(* Starting: NewLedger, and Purge unless maxReceiptAgeDays turns it off.   *)

Start(p, purge) ==
  /\ pc[p] = "off"
  /\ starts < MaxStarts
  /\ starts' = starts + 1
  /\ mem' = [mem EXCEPT ![p] = LastState(p)]
  /\ IF purge
     THEN /\ pc' = [pc EXCEPT ![p] = "purge"]
          /\ todo' = [todo EXCEPT ![p] = files]
          /\ cut' = [cut EXCEPT ![p] = now - MaxAge]
     ELSE /\ pc' = [pc EXCEPT ![p] = "ready"]
          /\ UNCHANGED <<todo, cut>>
  /\ disturbed' = disturbed \cup {f \in {p} : \E q \in Proc : Holds(q, f)}
  /\ afresh' = afresh \cup {f \in {p} : TooLong(f)}
  /\ UNCHANGED <<now, faults, disk, calls, rec, fd, kept, committed>>

\* The next file: gone, without an old record at its head, or read.
PurgeLoad(p) ==
  /\ pc[p] = "purge"
  /\ todo[p] # {}
  /\ LET f == Target(p)
         k == KeepFrom(lines[f], cut[p])
     IN  /\ f \in files => Readable(lines[f])
         /\ IF f \notin files \/ k = 0
            THEN /\ todo' = [todo EXCEPT ![p] = @ \ {f}]
                 /\ UNCHANGED <<pc, kept, disturbed>>
            ELSE /\ kept' = [kept EXCEPT ![p] = Rechain(SubSeq(lines[f], k + 1, Len(lines[f])))]
                 /\ pc' = [pc EXCEPT ![p] = "loaded"]
                 /\ disturbed' = disturbed \cup
                      {g \in {f} : (Alive(f) /\ f # p) \/ \E q \in Proc \ {p} : Holds(q, f)}
                 /\ UNCHANGED todo
  /\ UNCHANGED <<world, disk, mem, calls, rec, fd, cut, committed, afresh>>

\* An error ends Purge at once: the files after this one are not purged, and
\* the memory is not refreshed even when the process's own file was.
PurgeAborts(p) ==
  /\ pc' = [pc EXCEPT ![p] = "ready"]
  /\ todo' = [todo EXCEPT ![p] = {}]
  /\ kept' = [kept EXCEPT ![p] = << >>]
  /\ disturbed' = disturbed \cup {f \in {p} : mem[p] # LastState(p)}
  /\ UNCHANGED <<mem, calls, rec, cut, committed, afresh>>

PurgeLoadFails(p) ==
  /\ pc[p] = "purge"
  /\ todo[p] # {}
  /\ LET f == Target(p) IN f \in files /\ ~Readable(lines[f])
  /\ PurgeAborts(p)
  /\ UNCHANGED <<world, disk, fd>>

\* The purge goes on to the next file.
PurgeNext(p, f) ==
  /\ pc' = [pc EXCEPT ![p] = "purge"]
  /\ todo' = [todo EXCEPT ![p] = @ \ {f}]
  /\ kept' = [kept EXCEPT ![p] = << >>]
  /\ UNCHANGED <<mem, calls, rec, cut, committed, afresh>>

\* The name f leads to another file, or nowhere, under a process that runs on it.
Takes(p, f) == disturbed' = disturbed \cup {g \in {f} : Alive(f) /\ f # p}

\* Nothing to keep: the file is deleted.
PurgeRemove(p) ==
  /\ pc[p] = "loaded"
  /\ kept[p] = << >>
  /\ LET f == Target(p) IN
       /\ files' = files \ {f}
       /\ lines' = [lines EXCEPT ![f] = << >>]
       /\ fd' = Redirect(f, "tmp")
       /\ PurgeNext(p, f) /\ Takes(p, f)
  /\ UNCHANGED <<world, tmps, tmp>>

\* The error of the removal is ignored: the old records stay and the purge goes on.
PurgeRemoveFails(p) ==
  /\ pc[p] = "loaded"
  /\ kept[p] = << >>
  /\ faults < MaxFaults
  /\ faults' = faults + 1
  /\ PurgeNext(p, Target(p))
  /\ UNCHANGED <<now, starts, disk, fd, disturbed>>

\* f.tmp is created, or truncated when another process has created it.
PurgeCreate(p) ==
  /\ pc[p] = "loaded"
  /\ kept[p] # << >>
  /\ LET f == Target(p) IN
       /\ tmps' = tmps \cup {f}
       /\ tmp' = [tmp EXCEPT ![f] = << >>]
  /\ fd' = [fd EXCEPT ![p] = "tmp"]
  /\ pc' = [pc EXCEPT ![p] = "writing"]
  /\ UNCHANGED <<world, files, lines, mem, calls, rec, purging, committed, disturbed, afresh>>

PurgeWrite(p) ==
  /\ pc[p] = "writing"
  /\ LET f == Target(p) IN
       /\ tmp' = IF fd[p] = "tmp" THEN [tmp EXCEPT ![f] = Overwrite(kept[p], @)] ELSE tmp
       /\ lines' = IF fd[p] = "path" THEN [lines EXCEPT ![f] = Overwrite(kept[p], @)] ELSE lines
  /\ fd' = [fd EXCEPT ![p] = "none"]
  /\ pc' = [pc EXCEPT ![p] = "renaming"]
  /\ UNCHANGED <<world, files, tmps, mem, calls, rec, purging, committed, disturbed, afresh>>

\* A write or the sync fails: f.tmp is removed, the file stays as it was.
PurgeWriteFails(p) ==
  /\ pc[p] = "writing"
  /\ faults < MaxFaults
  /\ faults' = faults + 1
  /\ LET f == Target(p) IN
       /\ tmps' = tmps \ {f}
       /\ tmp' = [tmp EXCEPT ![f] = << >>]
       /\ fd' = [q \in Proc |->
                   IF q = p THEN "none"
                   ELSE IF pc[q] = "writing" /\ Target(q) = f /\ fd[q] = "tmp" THEN "gone"
                   ELSE fd[q]]
  /\ PurgeAborts(p)
  /\ UNCHANGED <<now, starts, files, lines>>

PurgeRename(p) ==
  /\ pc[p] = "renaming"
  /\ LET f == Target(p) IN
       /\ f \in tmps
       /\ files' = files \cup {f}
       /\ lines' = [lines EXCEPT ![f] = tmp[f]]
       /\ tmps' = tmps \ {f}
       /\ tmp' = [tmp EXCEPT ![f] = << >>]
       /\ fd' = Redirect(f, "path")
       /\ PurgeNext(p, f) /\ Takes(p, f)
  /\ UNCHANGED world

\* Another process has renamed or removed f.tmp.
PurgeRenameFails(p) ==
  /\ pc[p] = "renaming"
  /\ Target(p) \notin tmps
  /\ PurgeAborts(p)
  /\ UNCHANGED <<world, disk, fd>>

\* After the last file the memory is refreshed from the process's own.
PurgeEnds(p) ==
  /\ pc[p] = "purge"
  /\ todo[p] = {}
  /\ mem' = IF LastFails(p) THEN mem ELSE [mem EXCEPT ![p] = LastState(p)]
  /\ pc' = [pc EXCEPT ![p] = "ready"]
  /\ UNCHANGED <<world, disk, calls, rec, fd, purging, committed, disturbed, afresh>>

----------------------------------------------------------------------------
(* Append: open, write, sync, and only then the memory.                    *)

\* Variant: the memory moves on before the write.
OpenCommits(p) ==
  /\ pc[p] = "ready"
  /\ calls[p] < MaxCalls
  /\ calls' = [calls EXCEPT ![p] = @ + 1]
  /\ files' = files \cup {p}
  /\ LET r == [st |-> "ok", call |-> calls[p] + 1, seq |-> mem[p].seq + 1, t |-> now,
               prev |-> mem[p].last, hash |-> Genesis]
         h == ComputeHash(r, mem[p].last)
     IN  /\ rec' = [rec EXCEPT ![p] = [r EXCEPT !.hash = h]]
         /\ mem' = [mem EXCEPT ![p] = [seq |-> r.seq, last |-> h]]
  /\ fd' = [fd EXCEPT ![p] = "path"]
  /\ pc' = [pc EXCEPT ![p] = "opened"]
  /\ UNCHANGED <<world, lines, tmps, tmp, purging, committed, disturbed, afresh>>

Open(p) ==
  /\ pc[p] = "ready"
  /\ calls[p] < MaxCalls
  /\ calls' = [calls EXCEPT ![p] = @ + 1]
  /\ files' = files \cup {p}
  /\ \E st \in Recorded :
       /\ st = "ok" \/ p \in Long
       /\ faults' = faults + IF st = "huge" THEN 1 ELSE 0
       /\ faults' <= MaxFaults
       /\ LET r == [st |-> st, call |-> calls[p] + 1, seq |-> mem[p].seq + 1, t |-> now,
                    prev |-> mem[p].last, hash |-> Genesis]
          IN  rec' = [rec EXCEPT ![p] = [r EXCEPT !.hash = ComputeHash(r, mem[p].last)]]
  /\ fd' = [fd EXCEPT ![p] = "path"]
  /\ pc' = [pc EXCEPT ![p] = "opened"]
  /\ UNCHANGED <<now, starts, lines, tmps, tmp, mem, purging, committed, disturbed, afresh>>

Write(p) ==
  /\ pc[p] = "opened"
  /\ lines' = IF fd[p] = "path" THEN [lines EXCEPT ![p] = AddLine(@, rec[p])] ELSE lines
  /\ disturbed' = disturbed \cup {f \in {p} : Torn(lines[p])}
  /\ pc' = [pc EXCEPT ![p] = "written"]
  /\ UNCHANGED <<world, files, tmps, tmp, mem, calls, rec, fd, purging, committed, afresh>>

\* The disk is full: nothing is written, or the beginning of the line.
WriteFails(p) ==
  /\ pc[p] = "opened"
  /\ faults < MaxFaults
  /\ faults' = faults + 1
  /\ \/ UNCHANGED lines
     \/ fd[p] = "path" /\ lines' = [lines EXCEPT ![p] = AddLine(@, Garbage("part"))]
  /\ rec' = [rec EXCEPT ![p] = NoRec]
  /\ fd' = [fd EXCEPT ![p] = "none"]
  /\ pc' = [pc EXCEPT ![p] = "ready"]
  /\ UNCHANGED <<now, starts, files, tmps, tmp, mem, calls, purging, committed, disturbed, afresh>>

\* Variant: the file is not closed.
SyncKeepsOpen(p) ==
  /\ pc[p] = "written"
  /\ mem' = [mem EXCEPT ![p] = [seq |-> rec[p].seq, last |-> rec[p].hash]]
  /\ committed' = [committed EXCEPT ![p] = @ \cup {[call |-> rec[p].call, t |-> rec[p].t]}]
  /\ rec' = [rec EXCEPT ![p] = NoRec]
  /\ pc' = [pc EXCEPT ![p] = "ready"]
  /\ UNCHANGED <<world, disk, calls, fd, purging, disturbed, afresh>>

Sync(p) ==
  /\ pc[p] = "written"
  /\ mem' = [mem EXCEPT ![p] = [seq |-> rec[p].seq, last |-> rec[p].hash]]
  /\ committed' = [committed EXCEPT ![p] = @ \cup {[call |-> rec[p].call, t |-> rec[p].t]}]
  /\ rec' = [rec EXCEPT ![p] = NoRec]
  /\ fd' = [fd EXCEPT ![p] = "none"]
  /\ pc' = [pc EXCEPT ![p] = "ready"]
  /\ UNCHANGED <<world, disk, calls, purging, disturbed, afresh>>

\* The line is in the file and not in the memory.
SyncFails(p) ==
  /\ pc[p] = "written"
  /\ faults < MaxFaults
  /\ faults' = faults + 1
  /\ rec' = [rec EXCEPT ![p] = NoRec]
  /\ fd' = [fd EXCEPT ![p] = "none"]
  /\ pc' = [pc EXCEPT ![p] = "ready"]
  /\ disturbed' = disturbed \cup {p}
  /\ UNCHANGED <<now, starts, disk, mem, calls, purging, committed, afresh>>

----------------------------------------------------------------------------
\* The process ends or is killed, wherever it is; f.tmp stays behind.
Stop(p) ==
  /\ Alive(p)
  /\ pc' = [pc EXCEPT ![p] = "off"]
  /\ mem' = [mem EXCEPT ![p] = Fresh]
  /\ rec' = [rec EXCEPT ![p] = NoRec]
  /\ fd' = [fd EXCEPT ![p] = "none"]
  /\ todo' = [todo EXCEPT ![p] = {}]
  /\ kept' = [kept EXCEPT ![p] = << >>]
  /\ UNCHANGED <<world, disk, calls, cut, committed, disturbed, afresh>>

Tick ==
  /\ now < MaxTime
  /\ now' = now + 1
  /\ UNCHANGED <<starts, faults, disk, pc, mem, calls, rec, fd, purging, committed, disturbed, afresh>>

PurgeSteps(p) ==
  \/ PurgeLoad(p) \/ PurgeLoadFails(p) \/ PurgeRemove(p) \/ PurgeRemoveFails(p)
  \/ PurgeCreate(p) \/ PurgeWrite(p) \/ PurgeWriteFails(p) \/ PurgeRename(p) \/ PurgeRenameFails(p)
  \/ PurgeEnds(p)

AppendSteps(p) == Open(p) \/ Write(p) \/ WriteFails(p) \/ Sync(p) \/ SyncFails(p)

Next ==
  \/ Tick
  \/ \E p \in Proc : \/ \E purge \in BOOLEAN : Start(p, purge)
                     \/ PurgeSteps(p)
                     \/ AppendSteps(p)
                     \/ Stop(p)

Spec == Init /\ [][Next]_vars

----------------------------------------------------------------------------
(* Properties.                                                             *)

LineType == [st : Recorded \cup {"part", "bad"}, call : 0 .. MaxCalls, seq : Nat, t : Nat,
             prev : Seq([call : Nat, seq : Nat, t : Nat]),
             hash : Seq([call : Nat, seq : Nat, t : Nat])]

TypeOK ==
  /\ now \in 0 .. MaxTime /\ starts \in 0 .. MaxStarts /\ faults \in 0 .. MaxFaults
  /\ files \subseteq Proc /\ tmps \subseteq Proc
  /\ disturbed \subseteq Proc /\ afresh \subseteq Proc
  /\ lines \in [Proc -> Seq(LineType)] /\ tmp \in [Proc -> Seq(LineType)]
  /\ pc \in [Proc -> {"off", "purge", "loaded", "writing", "renaming",
                      "ready", "opened", "written"}]
  /\ mem \in [Proc -> [seq : Nat, last : Seq([call : Nat, seq : Nat, t : Nat])]]
  /\ calls \in [Proc -> 0 .. MaxCalls] /\ rec \in [Proc -> LineType]
  /\ fd \in [Proc -> {"none", "path", "tmp", "gone"}]
  /\ todo \in [Proc -> SUBSET Proc]
  /\ cut \in [Proc -> Int]
  /\ kept \in [Proc -> Seq(LineType)]
  /\ committed \in [Proc -> SUBSET [call : 0 .. MaxCalls, t : Nat]]
  /\ \A p \in Proc : fd[p] # "none" => pc[p] \in {"writing", "opened", "written"}

\* verifyFile reports file f as broken; one it cannot read it reports intact.
Broken(f) == f \in files /\ Readable(lines[f]) /\ ~Chained(lines[f])

\* --verify raises no false alarm: wherever processes stop and start, purge
\* and append, a chain breaks only in a file that was disturbed (a failed
\* sync, a purge while its owner was running, two purges at once, a purge that
\* failed after it had rewritten the process's own file), or whose process was
\* started on it again when it ended in a record of more than 64 KB, which
\* readLastRecord gives up on.
BrokenOnlyIfDisturbed == \A f \in Proc : Broken(f) => f \in disturbed \cup afresh

\* "governance_status never reports receipts that were not actually
\* persisted" (Append): what a running process reports is the record its file
\* ends in, whatever its length. Left aside are files that end in a damaged line
\* or were disturbed, and a process that was started on its file again when that
\* ended in a record of more than 64 KB, as long as it ends in one.
StatusMatchesFile ==
  \A p \in Proc \ disturbed :
     /\ pc[p] = "ready"
     /\ HasLast(p) => LastLine(p).st \in Recorded
     /\ ~(p \in afresh /\ TooLong(p))
     => mem[p] = LastRecord(p)

\* A receipt that Append accepted stays in the file until it is older than
\* the cutoff of some purge, though the file is rewritten by other processes.
AcceptedStays ==
  \A p \in Proc : \A c \in committed[p] :
     \/ p \in disturbed
     \/ \E q \in Proc : c.t < cut[q]
     \/ p \in files /\ \E i \in DOMAIN lines[p] :
           lines[p][i].st \in Recorded /\ lines[p][i].call = c.call

\* A file the purge is done with begins with no record older than the cutoff,
\* unless somebody interfered, or this very step was a removal that failed,
\* which nobody is told; a purge that gives up is not done with it.
PurgeRemovesOld ==
  [][\A p, f \in Proc :
        f \in todo[p] \ todo'[p] /\ pc'[p] = "purge" /\ f \notin disturbed' /\ faults' = faults =>
           lines'[f] = << >> \/ lines'[f][1].t >= cut[p]]_vars

\* "Each process instance writes to its own file, ensuring parallel safety
\* without locks" (receipt.go): the claim as the code's comment makes it, no
\* chain is broken by processes that run in parallel.
ParallelSafety == \A f \in Proc : ~Broken(f)
=============================================================================
