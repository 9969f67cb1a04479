---------------------------- MODULE StartupProofs ----------------------------
(***************************************************************************)
(* Theorems about module Startup: what holds of the ledger holds with Run  *)
(* around it, and why a start may be refused.                              *)
(***************************************************************************)
EXTENDS Startup, LedgerProofs

----------------------------------------------------------------------------
(* The inductive invariant.                                                *)

\* Where a process is in Run and where it is in the ledger.
Position(p) ==
  /\ run[p] \in {"off", "creating", "authority"} => pc[p] = "off"
  /\ run[p] = "ledger" => pc[p] \in Holding \cup {"purge", "ready"}
  /\ run[p] = "up" => pc[p] \in {"ready", "opened", "written"}
  /\ run[p] = "noting" => pc[p] = "ready"

Positions ==
  /\ authority \in {"absent", "unset", "set"}
  /\ knows \in [Proc -> BOOLEAN]
  /\ run \in [Proc -> {"off", "creating", "authority", "ledger", "up", "noting"}]
  /\ refused \subseteq Proc /\ later \subseteq Proc
  /\ \A p \in Proc : Position(p)

\* As long as no fault has come in nobody has damaged a line alone.
Undamaged ==
  faults = 0 =>
     \A f \in Proc \ disturbed :
        /\ Readable(lines[f])
        /\ pc[f] \in {"opened", "written"} => rec[f].st \in {"ok", "long"}

\* A process knows the genesis hash once it has written, or found, a receipt.
Knows(p) ==
  /\ pc[p] \in {"opened", "written"} => rec[p].seq = mem[p].seq + 1
  /\ p \notin disturbed /\ run[p] = "up" /\ mem[p].seq # 0 => knows[p]

\* Unless it was lost, what one process knows is in authority.json, and what
\* was there when a process started it knows.
Saved ==
  ~lost =>
     /\ \A p \in Proc : knows[p] => authority = "set"
     /\ \A p \in Proc \ disturbed : committed[p] # {} /\ run[p] # "noting" => authority = "set"
     /\ \A p \in later : run[p] # "off" => knows[p]

Noted == Positions /\ (\A p \in Proc : Knows(p)) /\ Saved

StartupIInv == IInv /\ Undamaged /\ Noted

----------------------------------------------------------------------------
(* The ledger under Run.                                                   *)

\* A save of authority.json that fails counts as a fault.
OnlyFault ==
  /\ faults < MaxFaults /\ faults' = faults + 1
  /\ UNCHANGED <<now, starts, disk, pc, mem, calls, rec, fd, purging, committed, disturbed, afresh>>

LEMMA LedgerSteps == [StartupNext]_startupVars => [Next]_vars \/ OnlyFault
<1> SUFFICES ASSUME [StartupNext]_startupVars PROVE [Next]_vars \/ OnlyFault
  OBVIOUS
<1>1. CASE Tick \/ UNCHANGED startupVars
  BY <1>1 DEF Next, startupVars
<1>2. ASSUME NEW p \in Proc, StartSteps(p) PROVE [Next]_vars \/ OnlyFault
  <2>1. CASE LoadAuthority(p) \/ CreateAuthority(p) \/ SkipGenesis(p)
    BY <2>1 DEF LoadAuthority, CreateAuthority, SkipGenesis
  <2>2. CASE OpenLedger(p)
    BY <2>2 DEF OpenLedger, Next
  <2>3. CASE Purges(p)
    BY <2>3 DEF Purges, Next
  <2>4. CASE FindGenesis(p)
    BY <2>4 DEF FindGenesis, SaveFails, OnlyFault, vars, world
  <2>5. CASE RefuseStart(p)
    BY <2>5 DEF RefuseStart, Next
  <2> QED
    BY <1>2, <2>1, <2>2, <2>3, <2>4, <2>5 DEF StartSteps
<1>3. ASSUME NEW p \in Proc, ServeSteps(p) PROVE [Next]_vars \/ OnlyFault
  <2>1. CASE SaveSession(p)
    BY <2>1 DEF SaveSession
  <2>2. CASE AppendBegins(p)
    BY <2>2 DEF AppendBegins, Next, AppendSteps
  <2>3. CASE AppendEnds(p)
    BY <2>3 DEF AppendEnds, Next, AppendSteps
  <2>4. CASE NoteGenesis(p)
    BY <2>4 DEF NoteGenesis, SaveFails, OnlyFault, vars, world
  <2> QED
    BY <1>3, <2>1, <2>2, <2>3, <2>4 DEF ServeSteps
<1>4. ASSUME NEW p \in Proc, StopProcess(p) PROVE [Next]_vars \/ OnlyFault
  BY <1>4 DEF StopProcess, Next
<1> QED
  BY <1>1, <1>2, <1>3, <1>4 DEF StartupNext

LEMMA OnlyFaultInv == ASSUME IInv, OnlyFault PROVE IInv'
<1>1. UNCHANGED <<now, starts, files, lines, tmps, tmp, pc, mem, calls, rec, fd,
                  todo, cut, kept, committed, disturbed, afresh>>
  BY DEF OnlyFault, disk, purging
<1>2. faults' \in 0 .. MaxFaults
  BY Numbers DEF OnlyFault, IInv, TypeOK
<1>3. TypeOK' /\ Purging' /\ Cutoffs'
  BY <1>1, <1>2 DEF IInv, TypeOK, Purging, Cutoffs
<1>4. ASSUME NEW f \in Proc \ disturbed' PROVE Whole(f)'
  <2>1. Whole(f)
    BY <1>1, <1>4 DEF IInv
  <2>2. Follows(f)'
    BY <1>1, <2>1, SameFollows DEF Whole
  <2>3. \A q \in Proc : Holds(q, f)' <=> Holds(q, f)
    BY <1>1, SameHolder
  <2> QED
    BY <1>1, <2>1, <2>2, <2>3, SameExpired, Untouched DEF Alive
<1> QED
  BY <1>3, <1>4 DEF IInv

LEMMA LedgerKept == IInv /\ [StartupNext]_startupVars => IInv'
BY LedgerSteps, Step, OnlyFaultInv

\* The ledger keeps its promises with all of Run around it: the refusals, the
\* saves of authority.json and the ends of Run are steps it allows.
THEOREM LedgerInRun == StartupSpec => []IInv
<1>1. StartupInit => IInv
  BY Initially DEF StartupInit
<1> QED
  BY <1>1, LedgerKept, PTL DEF StartupSpec

----------------------------------------------------------------------------
(* Lines are damaged by faults, or by processes that meet in a file.       *)

LEMMA ReadableAppend ==
  ASSUME NEW ls \in Seq(LineType), NEW r \in LineType, Readable(ls), r.st \in {"ok", "long"}
  PROVE  Readable(Append(ls, r))
<1>1. DOMAIN ls = 1 .. Len(ls) /\ Append(ls, r) \in Seq(LineType) /\ Len(Append(ls, r)) = Len(ls) + 1
      /\ \A i \in 1 .. Len(ls) : Append(ls, r)[i] = ls[i]
      /\ Append(ls, r)[Len(ls) + 1] = r /\ Len(ls) \in Nat
  BY AppendProperties, LenProperties
<1>2. DOMAIN Append(ls, r) = 1 .. Len(ls) + 1
  BY <1>1, LenProperties
<1> QED
  BY <1>1, <1>2 DEF Readable

\* A step after which the lines of a file are the same, and so is the record
\* its process writes.
LEMMA SameUndamaged ==
  ASSUME Undamaged, disturbed \subseteq disturbed', faults' = 0 => faults = 0,
         \A f \in Proc \ disturbed' :
            /\ Readable(lines[f]) => Readable(lines'[f])
            /\ pc'[f] \in {"opened", "written"} =>
                 (pc[f] \in {"opened", "written"} /\ rec'[f] = rec[f]) \/ rec'[f].st \in {"ok", "long"}
  PROVE  Undamaged'
<1>1. ASSUME faults' = 0, NEW f \in Proc \ disturbed'
      PROVE  /\ Readable(lines'[f])
             /\ pc'[f] \in {"opened", "written"} => rec'[f].st \in {"ok", "long"}
  BY <1>1 DEF Undamaged
<1> SUFFICES ASSUME faults' = 0, NEW f \in Proc \ disturbed'
             PROVE  /\ Readable(lines'[f])
                    /\ pc'[f] \in {"opened", "written"} => rec'[f].st \in {"ok", "long"}
  BY DEF Undamaged, Readable
<1> QED
  BY <1>1

LEMMA UndamagedKept == IInv /\ Undamaged /\ ([Next]_vars \/ OnlyFault) => Undamaged'
<1> SUFFICES ASSUME IInv, Undamaged, [Next]_vars \/ OnlyFault PROVE Undamaged'
  OBVIOUS
<1>1. TypeOK /\ Purging /\ faults \in Nat
  <2>1. TypeOK /\ Purging
    BY DEF IInv
  <2>2. faults \in 0 .. MaxFaults
    BY <2>1 DEF TypeOK
  <2> QED
    BY <2>1, <2>2, Numbers
<1>2. CASE Tick \/ UNCHANGED vars \/ OnlyFault
  <2>1. UNCHANGED <<lines, pc, rec, disturbed>> /\ (faults' = 0 => faults = 0)
    BY <1>1, <1>2 DEF Tick, OnlyFault, vars, world, disk
  <2> QED
    BY <2>1, SameUndamaged
<1>3. ASSUME NEW p \in Proc, NEW purge \in BOOLEAN, Start(p, purge) PROVE Undamaged'
  <2>1. UNCHANGED <<lines, rec, faults>> /\ disturbed \subseteq disturbed' /\ pc'[p] \notin {"opened", "written"}
        /\ \A q \in Proc \ {p} : pc'[q] = pc[q]
    BY <1>1, <1>3 DEF Start, TypeOK, disk
  <2> QED
    BY <2>1, SameUndamaged
<1>4. ASSUME NEW p \in Proc, Stop(p) PROVE Undamaged'
  <2>1. UNCHANGED <<lines, disturbed, faults>> /\ pc'[p] \notin {"opened", "written"}
        /\ \A q \in Proc \ {p} : pc'[q] = pc[q] /\ rec'[q] = rec[q]
    BY <1>1, <1>4 DEF Stop, TypeOK, world, disk
  <2> QED
    BY <2>1, SameUndamaged
<1>5. ASSUME NEW p \in Proc, PurgeSteps(p) PROVE Undamaged'
  <2>1. Apart(p)
    BY <1>1, <1>5, StepsApart
  <2>2. /\ UNCHANGED rec /\ pc'[p] \notin {"opened", "written"} /\ disturbed \subseteq disturbed'
        /\ faults' = faults \/ faults' = faults + 1
    <3>1. CASE PurgeLoad(p)
      BY <1>1, <3>1 DEF PurgeLoad, TypeOK, world
    <3>2. CASE PurgeLoadFails(p) \/ PurgeWriteFails(p) \/ PurgeRenameFails(p)
      BY <1>1, <3>2 DEF PurgeLoadFails, PurgeWriteFails, PurgeRenameFails, PurgeAborts, TypeOK, world
    <3>3. CASE PurgeRemove(p) \/ PurgeRename(p)
      BY <1>1, <3>3 DEF PurgeRemove, PurgeRename, PurgeNext, Takes, TypeOK, world
    <3>5. CASE PurgeRemoveFails(p)
      BY <1>1, <3>5 DEF PurgeRemoveFails, PurgeNext, TypeOK
    <3>4. CASE PurgeCreate(p) \/ PurgeWrite(p) \/ PurgeEnds(p)
      BY <1>1, <3>4 DEF PurgeCreate, PurgeWrite, PurgeEnds, TypeOK, world
    <3> QED
      BY <1>5, <3>1, <3>2, <3>3, <3>4, <3>5 DEF PurgeSteps
  <2>3. ASSUME NEW f \in Proc \ disturbed', Readable(lines[f]) PROVE Readable(lines'[f])
    <3>1. f \notin disturbed /\ Whole(f)
      BY <2>2, <2>3 DEF IInv
    <3>2. CASE PurgeRemove(p)
      BY <1>1, <2>3, <3>2 DEF PurgeRemove, TypeOK, Readable
    <3>3. CASE PurgeRename(p)
      <4>1. CASE f = Target(p)
        <5>1. Rewrites(p, f) /\ pc[p] = "renaming"
          BY <3>1, <3>3, <4>1 DEF PurgeRename, Whole, Holds
        <5> QED
          BY <1>1, <3>3, <4>1, <5>1 DEF PurgeRename, TypeOK, Rewrites
      <4>2. CASE f # Target(p)
        BY <1>1, <2>3, <3>3, <4>2 DEF PurgeRename, TypeOK
      <4> QED
        BY <4>1, <4>2
    <3>4. CASE PurgeWrite(p)
      <4>1. CASE f = Target(p)
        <5>1. Rewrites(p, f) /\ pc[p] = "writing"
          BY <3>1, <3>4, <4>1 DEF PurgeWrite, Whole, Holds
        <5> QED
          BY <2>3, <3>4, <5>1 DEF PurgeWrite, Rewrites
      <4>2. CASE f # Target(p)
        BY <1>1, <2>3, <3>4, <4>2 DEF PurgeWrite, TypeOK
      <4> QED
        BY <4>1, <4>2
    <3>5. CASE PurgeLoad(p) \/ PurgeLoadFails(p) \/ PurgeWriteFails(p) \/ PurgeRenameFails(p)
               \/ PurgeCreate(p) \/ PurgeEnds(p) \/ PurgeRemoveFails(p)
      BY <2>3, <3>5 DEF PurgeRemoveFails, PurgeLoad, PurgeLoadFails, PurgeWriteFails, PurgeRenameFails, PurgeCreate, PurgeEnds, disk
    <3> QED
      BY <1>5, <3>2, <3>3, <3>4, <3>5 DEF PurgeSteps
  <2>4. faults' = 0 => faults = 0
    BY <1>1, <2>2
  <2> QED
    BY <2>1, <2>2, <2>3, <2>4, SameUndamaged DEF Apart
<1>6. ASSUME NEW p \in Proc, AppendSteps(p) PROVE Undamaged'
  <2>1. CASE Open(p)
    <3>1. PICK st \in Recorded : /\ faults' = faults + (IF st = "huge" THEN 1 ELSE 0)
                              /\ rec' = [rec EXCEPT ![p] = NewRecord(p, st)]
      BY <2>1 DEF Open, NewRecord
    <3>2. CASE st = "huge"
      BY <1>1, <3>1, <3>2 DEF Undamaged
    <3>3. CASE st \in {"ok", "long"}
      <4>1. rec'[p].st \in {"ok", "long"} /\ faults' = faults
        BY <1>1, <3>1, <3>3 DEF TypeOK, NewRecord
      <4>2. UNCHANGED <<lines, disturbed>> /\ \A q \in Proc \ {p} : pc'[q] = pc[q] /\ rec'[q] = rec[q]
        BY <1>1, <2>1, <3>1 DEF Open, TypeOK
      <4> QED
        BY <4>1, <4>2, SameUndamaged
    <3> QED
      BY <3>2, <3>3 DEF Recorded
  <2>2. CASE Write(p)
    <3>1. /\ pc[p] = "opened" /\ UNCHANGED <<faults, rec>>
          /\ disturbed' = disturbed \cup {f \in {p} : Torn(lines[p])}
          /\ \A q \in Proc \ {p} : pc'[q] = pc[q] /\ lines'[q] = lines[q]
          /\ lines'[p] \in {lines[p], AddLine(lines[p], rec[p])}
      BY <1>1, <2>2 DEF Write, TypeOK, world
    <3>2. ASSUME faults = 0, p \notin disturbed', Readable(lines[p]) PROVE Readable(lines'[p])
      <4>1. rec[p].st \in {"ok", "long"} /\ ~Torn(lines[p])
        BY <3>1, <3>2 DEF Undamaged
      <4>2. lines[p] \in Seq(LineType) /\ rec[p] \in LineType
        BY <1>1 DEF TypeOK
      <4>3. AddLine(lines[p], rec[p]) = Append(lines[p], rec[p])
        BY <4>1, <4>2, AddedLine
      <4> QED
        BY <3>1, <3>2, <4>1, <4>2, <4>3, ReadableAppend
    <3>3. CASE faults = 0
      BY <3>1, <3>2, <3>3, SameUndamaged
    <3> QED
      BY <3>1, <3>3 DEF Undamaged
  <2>3. CASE WriteFails(p) \/ SyncFails(p)
    BY <1>1, <2>3 DEF WriteFails, SyncFails, Undamaged
  <2>4. CASE Sync(p)
    <3>1. UNCHANGED <<lines, disturbed, faults>> /\ pc'[p] = "ready"
          /\ \A q \in Proc \ {p} : pc'[q] = pc[q] /\ rec'[q] = rec[q]
      BY <1>1, <2>4 DEF Sync, TypeOK, world, disk
    <3> QED
      BY <3>1, SameUndamaged
  <2> QED
    BY <1>6, <2>1, <2>2, <2>3, <2>4 DEF AppendSteps
<1> QED
  BY <1>2, <1>3, <1>4, <1>5, <1>6 DEF Next

----------------------------------------------------------------------------
(* Where processes are, and what they know of the genesis hash.            *)

\* What one process does in Run leaves the others where they are.
RunApart(p) ==
  /\ Apart(p) /\ disturbed \subseteq disturbed'
  /\ knows' \in [Proc -> BOOLEAN]
  /\ run' \in [Proc -> {"off", "creating", "authority", "ledger", "up", "noting"}]
  /\ authority' \in {"absent", "unset", "set"}
  /\ refused' \subseteq Proc /\ later' \subseteq Proc
  /\ \A q \in Proc \ {p} : run'[q] = run[q] /\ knows'[q] = knows[q]

LEMMA OthersKnow ==
  ASSUME Noted, NEW p \in Proc, RunApart(p), Position(p)', Knows(p)'
  PROVE  Positions' /\ \A q \in Proc : Knows(q)'
<1>1. \A q \in Proc \ {p} : Position(q)' /\ Knows(q)'
  BY DEF Noted, Positions, Position, Knows, RunApart, Apart
<1> QED
  BY <1>1 DEF Positions, RunApart

\* A step that changes none of it but what a process knows and where it is.
LEMMA SavedSame ==
  ASSUME Noted, NEW p \in Proc, RunApart(p), lost => lost',
         UNCHANGED <<authority, later>>,
         committed'[p] = committed[p],
         lost' \/ (run[p] = "noting" => run'[p] = "noting"),
         knows'[p] => knows[p],
         run'[p] # "off" => run[p] # "off" /\ knows'[p] = knows[p]
  PROVE  Saved'
BY DEF Noted, Saved, RunApart, Apart

\* A save: what is in the file is what the process knows.
LEMMA SavedBySave ==
  ASSUME Noted, NEW p \in Proc, RunApart(p), SaveAuthority(p) \/ lost',
         UNCHANGED later, committed'[p] = committed[p],
         knows'[p] \/ (knows'[p] = knows[p] /\ run[p] # "noting"),
         run'[p] # "off" => run[p] # "off" 
  PROVE  Saved'
<1>1. CASE lost'
  BY <1>1 DEF Saved
<1>2. CASE ~lost' /\ SaveAuthority(p)
  <2>1. ~lost /\ (authority = "set" => knows'[p])
    BY <1>2 DEF SaveAuthority
  <2>2. CASE knows'[p]
    <3>1. authority' = "set"
      BY <1>2, <2>2 DEF SaveAuthority
    <3> QED
      BY <2>1, <2>2, <3>1 DEF Noted, Saved, RunApart, Apart
  <2>3. CASE ~knows'[p]
    BY <2>1, <2>3 DEF Noted, Saved, RunApart, Apart
  <2> QED
    BY <2>2, <2>3
<1> QED
  BY <1>1, <1>2

LEMMA NotedTypes ==
  ASSUME IInv, Noted
  PROVE  /\ TypeOK /\ Purging
         /\ authority \in {"absent", "unset", "set"} /\ knows \in [Proc -> BOOLEAN]
         /\ run \in [Proc -> {"off", "creating", "authority", "ledger", "up", "noting"}]
         /\ refused \subseteq Proc /\ later \subseteq Proc
         /\ \A p \in Proc : Position(p) /\ Knows(p)
BY DEF IInv, Noted, Positions

LEMMA LoadNoted == ASSUME IInv, Noted, NEW p \in Proc, LoadAuthority(p) PROVE Noted'
<1>1. RunApart(p) /\ run[p] = "off" /\ run'[p] \in {"creating", "authority"}
      /\ (knows'[p] <=> authority = "set") /\ UNCHANGED <<vars, authority, lost>>
  BY NotedTypes DEF LoadAuthority, Goes, RunApart, Apart, vars, purging
<1>2. Position(p)' /\ Knows(p)'
  BY <1>1, NotedTypes DEF Position, Knows, vars
<1>3. ASSUME ~lost, p \in later' PROVE authority = "set"
  <2>1. Accepted
    BY <1>3 DEF LoadAuthority
  <2> QED
    BY <1>3, <2>1 DEF Accepted, Noted, Saved
<1>4. Saved'
  <2>1. later' \subseteq later \cup {p}
    BY DEF LoadAuthority
  <2> QED
    BY <1>1, <1>3, <2>1 DEF Noted, Saved, RunApart, vars
<1> QED
  BY <1>1, <1>2, <1>4, OthersKnow DEF Noted

LEMMA CreateNoted == ASSUME IInv, Noted, NEW p \in Proc, CreateAuthority(p) PROVE Noted'
<1>1. RunApart(p) /\ run[p] = "creating" /\ run'[p] = "authority" /\ SaveAuthority(p)
      /\ UNCHANGED <<vars, knows, later>>
  BY NotedTypes DEF CreateAuthority, SaveAuthority, Goes, RunApart, Apart, vars, purging
<1>2. Position(p)' /\ Knows(p)'
  BY <1>1, NotedTypes DEF Position, Knows, vars
<1>3. Saved'
  BY <1>1, SavedBySave DEF vars
<1> QED
  BY <1>1, <1>2, <1>3, OthersKnow DEF Noted

LEMMA OpenLedgerNoted == ASSUME IInv, Noted, NEW p \in Proc, OpenLedger(p) PROVE Noted'
<1>1. PICK purge \in BOOLEAN : Start(p, purge)
  BY DEF OpenLedger
<1>2. RunApart(p) /\ run[p] = "authority" /\ run'[p] = "ledger"
      /\ UNCHANGED <<knows, authority, later, lost, committed>>
  BY <1>1, NotedTypes, StepsApart DEF OpenLedger, Goes, RunApart, Start
<1>3. pc'[p] \in {"purge", "ready"}
  BY <1>1, NotedTypes DEF Start, TypeOK
<1>4. Position(p)' /\ Knows(p)'
  BY <1>2, <1>3 DEF Position, Knows
<1>5. Saved'
  BY <1>2, SavedSame
<1> QED
  BY <1>2, <1>4, <1>5, OthersKnow DEF Noted

LEMMA PurgesNoted == ASSUME IInv, Noted, NEW p \in Proc, Purges(p) PROVE Noted'
<1>1. TypeOK /\ Purging /\ Position(p)
  BY NotedTypes
<1>2. /\ pc[p] \in Holding \cup {"purge"} /\ pc'[p] \in Holding \cup {"purge", "ready"}
      /\ UNCHANGED committed /\ disturbed \subseteq disturbed'
  <2>1. CASE PurgeLoad(p)
    BY <1>1, <2>1 DEF PurgeLoad, TypeOK, Holding
  <2>2. CASE PurgeLoadFails(p) \/ PurgeWriteFails(p) \/ PurgeRenameFails(p)
    BY <1>1, <2>2 DEF PurgeLoadFails, PurgeWriteFails, PurgeRenameFails, PurgeAborts, TypeOK, Holding
  <2>3. CASE PurgeRemove(p) \/ PurgeRename(p)
    BY <1>1, <2>3 DEF PurgeRemove, PurgeRename, PurgeNext, Takes, TypeOK, Holding
  <2>5. CASE PurgeRemoveFails(p)
    BY <1>1, <2>5 DEF PurgeRemoveFails, PurgeNext, TypeOK, Holding
  <2>4. CASE PurgeCreate(p) \/ PurgeWrite(p) \/ PurgeEnds(p)
    BY <1>1, <2>4 DEF PurgeCreate, PurgeWrite, PurgeEnds, TypeOK, Holding
  <2> QED
    BY <2>1, <2>2, <2>3, <2>4, <2>5 DEF Purges, PurgeSteps
<1>3. RunApart(p) /\ UNCHANGED <<run, knows, authority, later, lost, committed>>
  BY <1>2, NotedTypes, StepsApart DEF Purges, RunApart
<1>4. run[p] = "ledger"
  BY <1>1, <1>2, NotedTypes DEF Position, Holding
<1>5. Position(p)' /\ Knows(p)'
  BY <1>2, <1>3, <1>4 DEF Position, Knows, Holding
<1>6. Saved'
  BY <1>3, SavedSame
<1> QED
  BY <1>3, <1>5, <1>6, OthersKnow DEF Noted

\* Without a record in any file the memory of a process is empty.
LEMMA SkipNoted == ASSUME IInv, Noted, NEW p \in Proc, SkipGenesis(p) PROVE Noted'
<1>1. RunApart(p) /\ run[p] = "ledger" /\ run'[p] = "up" /\ pc[p] = "ready"
      /\ UNCHANGED <<vars, knows, authority, later, lost>>
  BY NotedTypes DEF SkipGenesis, Goes, RunApart, Apart, vars, purging
<1>2. ASSUME p \notin disturbed, mem[p].seq # 0 PROVE knows[p]
  <2>1. Follows(p)
    BY <1>2 DEF IInv, Whole
  <2>2. CASE ~Records
    <3>1. ~HasLast(p)
      BY <2>2 DEF HasLast, Records
    <3>2. mem[p] = Fresh
      BY <1>1, <2>1, <3>1 DEF Follows, EndsInRecord, LastFails, LastRecord
    <3> QED
      BY <1>2, <3>2 DEF Fresh
  <2> QED
    BY <2>2 DEF SkipGenesis
<1>3. Position(p)' /\ Knows(p)'
  BY <1>1, <1>2 DEF Position, Knows, vars
<1>4. Saved'
  BY <1>1, SavedSame DEF vars
<1> QED
  BY <1>1, <1>3, <1>4, OthersKnow DEF Noted

LEMMA FindNoted ==
  ASSUME IInv, Noted, NEW p \in Proc, FindGenesis(p) \/ NoteGenesis(p)
  PROVE  Noted'
<1>1. /\ run[p] \in {"ledger", "noting"} /\ run' = [run EXCEPT ![p] = "up"] /\ pc[p] = "ready"
      /\ knows' = [knows EXCEPT ![p] = TRUE]
      /\ UNCHANGED <<pc, mem, rec, todo, cut, kept, committed, disturbed, afresh, refused, later>>
      /\ SaveAuthority(p) \/ (UNCHANGED authority /\ lost')
  BY NotedTypes DEF FindGenesis, NoteGenesis, Goes, SaveFails, purging, Position
<1>2. RunApart(p) /\ run'[p] = "up" /\ knows'[p]
  BY <1>1, NotedTypes DEF RunApart, Apart, SaveAuthority
<1>3. Position(p)' /\ Knows(p)'
  BY <1>1, <1>2 DEF Position, Knows
<1>4. Saved'
  BY <1>1, <1>2, SavedBySave
<1> QED
  BY <1>2, <1>3, <1>4, OthersKnow DEF Noted

LEMMA StopNoted ==
  ASSUME IInv, Noted, NEW p \in Proc, RefuseStart(p) \/ StopProcess(p)
  PROVE  Noted'
<1>1. Apart(p) /\ pc'[p] = "off" /\ UNCHANGED <<committed, disturbed>>
  <2>1. CASE Stop(p)
    BY <2>1, NotedTypes, StepsApart DEF Stop, TypeOK
  <2>2. CASE ~Alive(p) /\ UNCHANGED vars
    BY <2>2 DEF Alive, vars, purging, Apart
  <2> QED
    BY <2>1, <2>2 DEF RefuseStart, StopProcess
<1>2. /\ run' = [run EXCEPT ![p] = "off"] /\ knows' = [knows EXCEPT ![p] = FALSE]
      /\ UNCHANGED <<authority, later>> /\ refused' \subseteq refused \cup {p}
      /\ lost => lost'
      /\ run[p] = "noting" => lost'
  <2>1. CASE RefuseStart(p)
    <3>1. run[p] = "ledger" /\ UNCHANGED <<authority, later, lost>>
      BY <2>1 DEF RefuseStart, Goes
    <3> QED
      BY <2>1, <3>1 DEF RefuseStart, Goes
  <2>2. CASE StopProcess(p)
    BY <2>2 DEF StopProcess
  <2> QED
    BY <2>1, <2>2
<1>3. RunApart(p) /\ run'[p] = "off" /\ ~knows'[p]
  BY <1>1, <1>2, NotedTypes DEF RunApart
<1>4. Position(p)' /\ Knows(p)'
  BY <1>1, <1>3 DEF Position, Knows
<1>5. Saved'
  BY <1>1, <1>2, <1>3, SavedSame
<1> QED
  BY <1>3, <1>4, <1>5, OthersKnow DEF Noted

LEMMA SaveNoted == ASSUME IInv, Noted, NEW p \in Proc, SaveSession(p) PROVE Noted'
<1>1. RunApart(p) /\ run[p] = "up" /\ SaveAuthority(p) /\ UNCHANGED <<vars, run, knows, later>>
  BY NotedTypes DEF SaveSession, SaveAuthority, RunApart, Apart, vars, purging
<1>2. Position(p)' /\ Knows(p)'
  BY <1>1, NotedTypes DEF Position, Knows, vars
<1>3. Saved'
  BY <1>1, SavedBySave DEF vars
<1> QED
  BY <1>1, <1>2, <1>3, OthersKnow DEF Noted

LEMMA BeginsNoted == ASSUME IInv, Noted, NEW p \in Proc, AppendBegins(p) PROVE Noted'
<1>1. /\ pc'[p] \in {"opened", "written"} /\ rec'[p].seq = mem[p].seq + 1 /\ UNCHANGED <<mem, committed>>
      /\ disturbed \subseteq disturbed' /\ Apart(p)
  <2>1. TypeOK /\ Knows(p)
    BY NotedTypes
  <2>2. CASE Open(p)
    <3>1. PICK st \in Recorded : rec' = [rec EXCEPT ![p] = NewRecord(p, st)]
      BY <2>2 DEF Open, NewRecord
    <3>2. rec'[p].seq = mem[p].seq + 1
      BY <2>1, <3>1 DEF NewRecord, TypeOK
    <3> QED
      BY <2>1, <2>2, <3>2, StepsApart DEF Open, TypeOK, AppendSteps
  <2>3. CASE Write(p)
    BY <2>1, <2>3, StepsApart DEF Write, TypeOK, AppendSteps, Knows
  <2> QED
    BY <2>2, <2>3 DEF AppendBegins
<1>2. RunApart(p) /\ run[p] = "up" /\ UNCHANGED <<run, knows, authority, later, lost>>
  BY <1>1, NotedTypes DEF AppendBegins, RunApart
<1>3. Position(p)' /\ Knows(p)'
  BY <1>1, <1>2, NotedTypes DEF Position, Knows
<1>4. Saved'
  BY <1>1, <1>2, SavedSame
<1> QED
  BY <1>2, <1>3, <1>4, OthersKnow DEF Noted

\* The first record of a process, and no later one, finds it without the hash.
LEMMA EndsNoted == ASSUME IInv, Noted, NEW p \in Proc, AppendEnds(p) PROVE Noted'
<1>1. TypeOK /\ Knows(p) /\ Position(p)
  BY NotedTypes
<1>2. pc[p] \in {"opened", "written"} /\ pc'[p] = "ready" /\ Apart(p) /\ disturbed \subseteq disturbed'
  BY <1>1, StepsApart DEF AppendEnds, Sync, SyncFails, WriteFails, TypeOK, AppendSteps
<1>3. run[p] = "up"
  BY <1>1, <1>2, NotedTypes DEF Position, Holding
<1>4. RunApart(p) /\ UNCHANGED <<knows, authority, later, lost>>
      /\ run'[p] = IF mem'[p].seq = 1 /\ ~knows[p] THEN "noting" ELSE "up"
  BY <1>2, <1>3, NotedTypes DEF AppendEnds, RunApart
<1>5. ASSUME run'[p] = "up", p \notin disturbed, mem'[p].seq # 0 PROVE knows[p]
  <2>1. mem[p].seq \in Nat
    BY <1>1 DEF TypeOK
  <2>2. CASE Sync(p)
    <3>1. mem'[p].seq = mem[p].seq + 1
      BY <1>1, <1>2, <2>2 DEF Sync, TypeOK, Knows
    <3>2. CASE mem[p].seq = 0
      BY <1>4, <1>5, <3>1, <3>2
    <3>3. CASE mem[p].seq # 0
      BY <1>1, <1>3, <1>5, <3>3 DEF Knows
    <3> QED
      BY <3>2, <3>3
  <2>3. CASE SyncFails(p) \/ WriteFails(p)
    BY <1>1, <1>3, <1>5, <2>3 DEF SyncFails, WriteFails, Knows
  <2> QED
    BY <2>2, <2>3 DEF AppendEnds
<1>6. Position(p)' /\ Knows(p)'
  BY <1>2, <1>4, <1>5 DEF Position, Knows, RunApart
<1>7. Saved'
  <2>1. ASSUME ~lost, p \notin disturbed', committed'[p] # {}, run'[p] # "noting"
        PROVE  authority = "set"
    <3>1. run'[p] = "up" /\ p \notin disturbed
      BY <1>2, <1>4, <2>1
    <3>2. CASE Sync(p)
      <4>1. mem'[p].seq = mem[p].seq + 1 /\ mem[p].seq \in Nat
        BY <1>1, <1>2, <3>2 DEF Sync, TypeOK, Knows
      <4>2. knows[p]
        BY <1>5, <3>1, <4>1
      <4> QED
        BY <2>1, <4>2 DEF Noted, Saved
    <3>3. CASE SyncFails(p) \/ WriteFails(p)
      <4>1. committed'[p] = committed[p]
        BY <3>3 DEF SyncFails, WriteFails
      <4> QED
        BY <1>3, <2>1, <3>1, <4>1 DEF Noted, Saved
    <3> QED
      BY <3>2, <3>3 DEF AppendEnds
  <2>2. ASSUME ~lost
        PROVE  /\ \A q \in Proc : knows'[q] => authority' = "set"
               /\ \A q \in later' : run'[q] # "off" => knows'[q]
    <3>1. \A q \in later' : run'[q] # "off" => run[q] # "off"
      BY <1>3, <1>4, NotedTypes DEF RunApart
    <3> QED
      BY <1>4, <2>2, <3>1 DEF Noted, Saved
  <2>3. ASSUME ~lost, NEW q \in Proc \ disturbed', committed'[q] # {}, run'[q] # "noting"
        PROVE  authority' = "set"
    <3>1. CASE q = p
      BY <1>4, <2>1, <2>3, <3>1
    <3>2. CASE q # p
      BY <1>4, <2>3, <3>2 DEF Noted, Saved, RunApart, Apart
    <3> QED
      BY <3>1, <3>2
  <2> QED
    BY <1>4, <2>2, <2>3 DEF Saved
<1> QED
  BY <1>4, <1>6, <1>7, OthersKnow DEF Noted

LEMMA NotedKept == IInv /\ Noted /\ [StartupNext]_startupVars => Noted'
<1> SUFFICES ASSUME IInv, Noted, [StartupNext]_startupVars PROVE Noted'
  OBVIOUS
<1>1. CASE (Tick /\ UNCHANGED <<authority, knows, run, refused, later, lost>>) \/ UNCHANGED startupVars
  <2>1. UNCHANGED <<pc, mem, rec, committed, disturbed, authority, knows, run, refused, later, lost>>
    BY <1>1 DEF Tick, startupVars, vars
  <2> QED
    BY <2>1 DEF Noted, Positions, Position, Knows, Saved
<1>2. ASSUME NEW p \in Proc, StartSteps(p) PROVE Noted'
  BY <1>2, LoadNoted, CreateNoted, OpenLedgerNoted, PurgesNoted, SkipNoted, FindNoted, StopNoted
     DEF StartSteps
<1>3. ASSUME NEW p \in Proc, ServeSteps(p) PROVE Noted'
  BY <1>3, SaveNoted, BeginsNoted, EndsNoted, FindNoted DEF ServeSteps
<1>4. ASSUME NEW p \in Proc, StopProcess(p) PROVE Noted'
  BY <1>4, StopNoted
<1> QED
  BY <1>1, <1>2, <1>3, <1>4 DEF StartupNext

----------------------------------------------------------------------------
(* Theorems.                                                               *)

\* With Run around it the ledger keeps its invariant, and with it goes who
\* knows the genesis hash, and what of it is in authority.json.
THEOREM StartupInvariant == StartupSpec => []StartupIInv
<1>1. StartupInit => StartupIInv
  <2> SUFFICES ASSUME StartupInit PROVE StartupIInv
    OBVIOUS
  <2>1. IInv
    BY Initially DEF StartupInit
  <2>2. Undamaged
    BY DEF StartupInit, Init, Undamaged, Readable
  <2>3. Noted
    BY DEF StartupInit, Init, Noted, Positions, Position, Knows, Saved
  <2> QED
    BY <2>1, <2>2, <2>3 DEF StartupIInv
<1>2. StartupIInv /\ [StartupNext]_startupVars => StartupIInv'
  BY LedgerKept, LedgerSteps, UndamagedKept, NotedKept DEF StartupIInv
<1> QED
  BY <1>1, <1>2, PTL DEF StartupSpec

\* A start is refused only over a damaged line, and one that comes after an
\* accepted receipt only when its genesis hash was lost: the step that refuses
\* finds a line it cannot read in some file, which no process writes alone,
\* and a process that has started late has the hash and does not look.
LEMMA StepRefuses ==
  StartupIInv /\ [StartupNext]_startupVars =>
    [refused' \subseteq refused \/
       /\ faults > 0 \/ disturbed # {}
       /\ refused' \cap later \subseteq refused \/ lost]_startupVars
<1> SUFFICES ASSUME StartupIInv, [StartupNext]_startupVars, ~(refused' \subseteq refused)
             PROVE  /\ faults > 0 \/ disturbed # {}
                    /\ refused' \cap later \subseteq refused \/ lost
  OBVIOUS
<1>1. PICK p \in Proc : RefuseStart(p)
  BY DEF StartupNext, StartSteps, ServeSteps, startupVars, LoadAuthority, CreateAuthority, OpenLedger,
         Purges, SkipGenesis, FindGenesis, SaveSession, AppendBegins, AppendEnds, NoteGenesis, StopProcess
<1>2. PICK f \in files : ~Readable(lines[f])
  BY <1>1 DEF RefuseStart, Unreadable
<1>3. faults > 0 \/ disturbed # {}
  <2>1. f \in Proc /\ faults \in Nat
    BY <1>2, Numbers DEF StartupIInv, IInv, TypeOK
  <2>2. faults # 0 \/ f \in disturbed
    BY <1>2, <2>1 DEF StartupIInv, Undamaged
  <2> QED
    BY <2>1, <2>2
<1>4. refused' \cap later \subseteq refused \/ lost
  <2>1. run[p] # "off" /\ ~knows[p] /\ refused' = refused \cup {p}
    BY <1>1 DEF RefuseStart, Goes
  <2>2. p \in later => lost
    BY <2>1 DEF StartupIInv, Noted, Saved
  <2> QED
    BY <2>1, <2>2
<1> QED
  BY <1>3, <1>4

\* Once a receipt was accepted no start is refused any more, unless its
\* genesis hash was lost; before, only over a line that was damaged.
THEOREM RefusedForDamage == StartupSpec => RefusedOnlyIfDamaged
<1>1. StartupIInv /\ [StartupNext]_startupVars =>
        [refused' \subseteq refused \/
           /\ faults > 0 \/ disturbed # {}
           /\ refused' \cap later \subseteq refused \/ lost]_startupVars
  BY StepRefuses
<1> QED
  BY <1>1, StartupInvariant, PTL DEF StartupSpec, RefusedOnlyIfDamaged

=============================================================================
