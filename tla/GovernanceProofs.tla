------------------------- MODULE GovernanceProofs -------------------------
(***************************************************************************)
(* Theorems about modules Governance and Calls, for any number of          *)
(* processes, keys and calls, any budget, window and lifetime, and any     *)
(* number of steps and faults.                                             *)
(***************************************************************************)
EXTENDS Calls, FiniteSetTheorems, TLAPS

USE DEF Authority

----------------------------------------------------------------------------
(* The inductive invariant: one part for each property.                    *)

\* The count is of the calls that were forwarded, and was below the budget.
Budget == \A p \in Proc : /\ count[p] = forwarded[p]
                          /\ MaxCalls > 0 => count[p] <= MaxCalls

\* The gate of a process that owes an initialize is closed; and so will be that
\* of whoever starts from a file that owes one.
InStep ==
  /\ \A p \in Proc : /\ auth[p].active <= auth[p].epoch
                     /\ CheckAuthority(p) => stale[p] # "bumped"
  /\ file.a.active <= file.a.epoch
  /\ ~regressed => /\ \A p \in Proc : CheckAuthority(p) => stale[p] = "no"
                   /\ owed => file.a.active < file.a.epoch

\* Who has not loaded the authority before somebody's bump knows its epoch.
Epochs ==
  /\ ~file.there => granted = 1
  /\ ~regressed => /\ file.a.epoch >= granted
                   /\ \A p \in Proc : pc[p] # "off" /\ p \notin behind => auth[p].epoch >= granted

\* What AddConstraint is about to save has all that is in the file and alive,
\* but for what it is known to miss.
Knowledge ==
  /\ LearnedStays
  /\ \A p \in Proc : pc[p] = "saving" =>
        \A c \in constraints : now <= c.at + Ttl => c \in held[p] \cup missed[p]

InOrder(ts, t) == /\ \A i, j \in DOMAIN ts : i <= j => ts[i] <= ts[j]
                  /\ \A i \in DOMAIN ts : ts[i] <= t

\* `short` is `long` without its first d stamps, which are too old at t.
Suffix(short, long, d, t) ==
  /\ Len(short) = Len(long) - d
  /\ \A i \in 1 .. Len(short) : short[i] = long[d + i]
  /\ \A i \in 1 .. d : long[i] + Window < t

Fits(short, long, t) == /\ InOrder(long, t)
                        /\ \E d \in 0 .. Len(long) : Suffix(short, long, d, t)

Stamps == \A p \in Proc, k \in Keys : Fits(times[p][k], recent[p][k], now)

----------------------------------------------------------------------------
(* What pruneWindow does.                                                  *)

Old(ts) == {i \in DOMAIN ts : ts[i] + Window < now}

LEMMA UpTo ==
  ASSUME NEW n \in Nat
  PROVE  IsFiniteSet(1 .. n) /\ Cardinality(1 .. n) = n
<1>1. 1 \in Int /\ n \in Int
  OBVIOUS
<1>2. IsFiniteSet(1 .. n) /\ Cardinality(1 .. n) = IF 1 > n THEN 0 ELSE n - 1 + 1
  BY <1>1, FS_Interval
<1> QED
  BY <1>2

LEMMA OldFinite ==
  ASSUME NEW ts \in Seq(Nat)
  PROVE  /\ Old(ts) \in SUBSET (1 .. Len(ts))
         /\ Cardinality(Old(ts)) \in 0 .. Len(ts)
<1>1. Old(ts) \in SUBSET (1 .. Len(ts))
  BY DEF Old
<1>2. Len(ts) \in Nat
  OBVIOUS
<1>3. IsFiniteSet(1 .. Len(ts)) /\ Cardinality(1 .. Len(ts)) = Len(ts)
  BY <1>2, UpTo
<1>4. IsFiniteSet(Old(ts)) /\ Cardinality(Old(ts)) <= Len(ts)
  BY <1>1, <1>3, FS_Subset
<1>5. Cardinality(Old(ts)) \in Nat
  BY <1>4, FS_CardinalityType
<1> QED
  BY <1>1, <1>2, <1>4, <1>5

LEMMA PruneType == ASSUME NEW ts \in Seq(Nat) PROVE PruneWindow(ts) \in Seq(Nat)
<1>1. PruneWindow(ts) = SubSeq(ts, Cardinality(Old(ts)) + 1, Len(ts))
  BY DEF PruneWindow, Old
<1>2. Cardinality(Old(ts)) \in 0 .. Len(ts)
  BY OldFinite
<1> QED
  BY <1>1, <1>2

\* A set that holds, with a number, all smaller ones is an interval.
LEMMA Downward ==
  ASSUME NEW n \in Nat, NEW S \in SUBSET (1 .. n),
         \A i \in S : \A j \in 1 .. i : j \in S
  PROVE  S = 1 .. Cardinality(S)
<1>1. IsFiniteSet(S) /\ Cardinality(S) \in Nat
  BY UpTo, FS_Subset, FS_CardinalityType
<1>2. ASSUME NEW i \in S PROVE i <= Cardinality(S)
  <2>1. i \in Nat /\ 1 .. i \in SUBSET S
    OBVIOUS
  <2>2. Cardinality(1 .. i) <= Cardinality(S)
    BY <1>1, <2>1, FS_Subset
  <2>3. Cardinality(1 .. i) = i
    BY <2>1, UpTo
  <2> QED
    BY <2>2, <2>3
<1>3. S \in SUBSET (1 .. Cardinality(S))
  BY <1>1, <1>2
<1>4. IsFiniteSet(1 .. Cardinality(S)) /\ Cardinality(1 .. Cardinality(S)) = Cardinality(S)
  BY <1>1, UpTo
<1> QED
  BY <1>3, <1>4, FS_Subset

\* Of stamps in order it drops those that are too old, and only those.
LEMMA PruneDropsOld ==
  ASSUME NEW ts \in Seq(Nat), InOrder(ts, now), now \in Nat, Window \in Nat
  PROVE  \E s \in 0 .. Len(ts) :
            /\ Suffix(PruneWindow(ts), ts, s, now)
            /\ \A i \in s + 1 .. Len(ts) : ts[i] + Window >= now
<1> DEFINE s == Cardinality(Old(ts))
<1>1. s \in 0 .. Len(ts) /\ Old(ts) \in SUBSET (1 .. Len(ts))
  BY OldFinite
<1>2. Old(ts) = 1 .. s
  <2>1. \A i \in Old(ts) : \A j \in 1 .. i : j \in Old(ts)
    BY DEF Old, InOrder
  <2>2. Len(ts) \in Nat
    OBVIOUS
  <2> QED
    BY <1>1, <2>1, <2>2, Downward
<1>3. PruneWindow(ts) = SubSeq(ts, s + 1, Len(ts))
  BY DEF PruneWindow, Old
<1>4. /\ Len(PruneWindow(ts)) = Len(ts) - s
      /\ \A i \in 1 .. Len(PruneWindow(ts)) : PruneWindow(ts)[i] = ts[s + i]
  BY <1>1, <1>3
<1>5. \A i \in 1 .. s : ts[i] + Window < now
  BY <1>2 DEF Old
<1>6. \A i \in s + 1 .. Len(ts) : ts[i] + Window >= now
  <2> SUFFICES ASSUME NEW i \in s + 1 .. Len(ts) PROVE ts[i] + Window >= now
    OBVIOUS
  <2>1. i \in DOMAIN ts /\ i \notin Old(ts) /\ ts[i] \in Nat
    BY <1>1, <1>2
  <2> QED
    BY <2>1 DEF Old
<1> QED
  BY <1>1, <1>4, <1>5, <1>6 DEF Suffix

----------------------------------------------------------------------------
(* Type correctness.                                                       *)

LEMMA BoundsTypes ==
  /\ MaxCalls \in Nat /\ MaxRepeat \in Nat /\ Window \in Nat /\ Ttl \in Nat
  /\ MaxTime \in Nat /\ MaxStarts \in Nat /\ MaxBumps \in Nat
  /\ MaxForwards \in Nat /\ MaxFaults \in Nat
BY GovernanceAssumption

LEMMA FreshValues == /\ NoCalls \in [Keys -> Seq(Nat)]
                     /\ NewAuthority \in Authority
                     /\ \A ts \in [Proc -> [Keys -> Seq(Nat)]], p \in Proc :
                           [ts EXCEPT ![p] = NoCalls] \in [Proc -> [Keys -> Seq(Nat)]]
<1>1. NoCalls \in [Keys -> Seq(Nat)]
  BY DEF NoCalls
<1>2. NewAuthority \in Authority
  BY DEF NewAuthority
<1> QED
  BY <1>1, <1>2

LEMMA InitTypes == Init => TypeOK
<1> SUFFICES ASSUME Init PROVE TypeOK
  OBVIOUS
<1>1. /\ file \in [there : BOOLEAN, a : Authority]
      /\ auth \in [Proc -> Authority]
      /\ times \in [Proc -> [Keys -> Seq(Nat)]]
      /\ recent \in [Proc -> [Keys -> Seq(Nat)]]
  BY FreshValues DEF Init
<1>2. /\ enforcement \in Modes /\ now \in 0 .. MaxTime /\ starts \in 0 .. MaxStarts
      /\ bumps \in 0 .. MaxBumps /\ total \in 0 .. MaxForwards /\ faults \in 0 .. MaxFaults
  BY BoundsTypes DEF Init
<1>3. /\ held \in [Proc -> SUBSET Constraint]
      /\ missed \in [Proc -> SUBSET Constraint]
      /\ constraints \subseteq Constraint /\ learned \subseteq Constraint
      /\ excused \subseteq Constraint
  BY DEF Init
<1>4. /\ pc \in [Proc -> {"off", "creating", "loaded", "ready", "forwarded", "saving", "recording"}]
      /\ count \in [Proc -> Nat] /\ forwarded \in [Proc -> Nat]
      /\ cur \in [Proc -> SUBSET Keys]
      /\ \A p \in Proc : pc[p] \in {"forwarded", "saving"} <=> cur[p] # {}
      /\ stale \in [Proc -> {"no", "bumped", "owing"}] /\ owed \in BOOLEAN
      /\ granted \in Nat /\ behind \subseteq Proc /\ regressed \in BOOLEAN
  BY DEF Init
<1> QED
  BY <1>1, <1>2, <1>3, <1>4 DEF TypeOK

\* A load may spend a fault, and yields constraints.
LEMMA LoadsTypes ==
  ASSUME TypeOK, NEW cs, Loads(cs)
  PROVE  faults' \in 0 .. MaxFaults /\ cs \in SUBSET Constraint
BY BoundsTypes DEF TypeOK, Loads

\* A session's copy of the authority, and the file.
LEMMA SavesTypes ==
  ASSUME TypeOK, NEW p \in Proc, NEW a \in Authority, Saves(p, a)
  PROVE  /\ file' \in [there : BOOLEAN, a : Authority]
         /\ regressed' \in BOOLEAN
BY DEF TypeOK, Saves

LEMMA SavesSessionTypes ==
  ASSUME TypeOK, NEW p \in Proc, NEW a \in Authority, NEW initialized,
         SavesSession(p, a, initialized)
  PROVE  /\ file' \in [there : BOOLEAN, a : Authority]
         /\ owed' \in BOOLEAN
         /\ regressed' \in BOOLEAN
<1>1. owed' \in BOOLEAN
  BY DEF SavesSession
<1> QED
  BY <1>1, SavesTypes DEF SavesSession

LEMMA SaveFailsTypes ==
  ASSUME TypeOK, SaveFails
  PROVE  /\ faults' \in 0 .. MaxFaults
         /\ file' \in [there : BOOLEAN, a : Authority]
         /\ owed' \in BOOLEAN
         /\ regressed' \in BOOLEAN
BY BoundsTypes DEF TypeOK, SaveFails

\* The genesis hash is set in the memory, and saved or not.
LEMMA GenesisTypes ==
  ASSUME TypeOK, NEW p \in Proc, SetsGenesis(p) \/ KeepsGenesis
  PROVE  /\ auth' \in [Proc -> Authority]
         /\ faults' \in 0 .. MaxFaults
         /\ file' \in [there : BOOLEAN, a : Authority]
         /\ owed' \in BOOLEAN
         /\ regressed' \in BOOLEAN
<1>1. CASE KeepsGenesis
  BY <1>1 DEF TypeOK, KeepsGenesis
<1>2. CASE SetsGenesis(p)
  <2> auth \in [Proc -> Authority]
    BY DEF TypeOK
  <2> auth' = [auth EXCEPT ![p].genesis = TRUE]
    BY <1>2 DEF SetsGenesis
  <2>1. auth'[p] \in Authority /\ auth' \in [Proc -> Authority]
    OBVIOUS
  <2>2. /\ faults' \in 0 .. MaxFaults
        /\ file' \in [there : BOOLEAN, a : Authority]
        /\ owed' \in BOOLEAN
        /\ regressed' \in BOOLEAN
    <3>1. faults \in 0 .. MaxFaults
      BY DEF TypeOK
    <3>2. CASE SavesSession(p, auth'[p], stale[p] = "no") /\ UNCHANGED faults
      BY <2>1, <3>1, <3>2, SavesSessionTypes
    <3>3. CASE SaveFails
      BY <3>3, SaveFailsTypes
    <3> QED
      BY <1>2, <3>2, <3>3 DEF SetsGenesis
  <2> QED
    BY <2>1, <2>2
<1> QED
  BY <1>1, <1>2

LEMMA FreshTypes ==
  ASSUME TypeOK, NEW p \in Proc, FreshProcess(p)
  PROVE  /\ starts' \in 0 .. MaxStarts
         /\ count' \in [Proc -> Nat]
         /\ times' \in [Proc -> [Keys -> Seq(Nat)]]
         /\ forwarded' \in [Proc -> Nat]
         /\ recent' \in [Proc -> [Keys -> Seq(Nat)]]
         /\ behind' \subseteq Proc
BY BoundsTypes DEF TypeOK, FreshProcess, NoCalls

LEMMA StartTypes == ASSUME TypeOK, NEW p \in Proc, Start(p) PROVE TypeOK'
<1>1. \A q \in Proc : pc'[q] \in {"forwarded", "saving"} <=> cur'[q] # {}
  BY DEF TypeOK, Start, FreshProcess, calling
<1> QED
  BY <1>1, FreshTypes DEF TypeOK, Start, clock, calling, Constraint

LEMMA StartFirstTypes == ASSUME TypeOK, NEW p \in Proc, StartFirst(p) PROVE TypeOK'
<1>1. \A q \in Proc : pc'[q] \in {"forwarded", "saving"} <=> cur'[q] # {}
  BY DEF TypeOK, StartFirst, FreshProcess, calling
<1> QED
  BY <1>1, FreshTypes DEF TypeOK, StartFirst, clock, calling, NewAuthority, Constraint

LEMMA CreateTypes == ASSUME TypeOK, NEW p \in Proc, CreateAuthority(p) PROVE TypeOK'
<1>1. auth[p] \in Authority
  BY DEF TypeOK
<1>2. /\ file' \in [there : BOOLEAN, a : Authority]
      /\ owed' \in BOOLEAN
      /\ regressed' \in BOOLEAN
  BY <1>1, SavesSessionTypes DEF CreateAuthority
<1> QED
  BY <1>2 DEF TypeOK, CreateAuthority, clock, bounds, session, calling, Constraint

LEMMA FindTypes == ASSUME TypeOK, NEW p \in Proc, FindGenesis(p) PROVE TypeOK'
<1>1. \A q \in Proc : pc'[q] \in {"forwarded", "saving"} <=> cur'[q] # {}
  BY DEF TypeOK, FindGenesis, calling
<1>2. /\ auth' \in [Proc -> Authority]
      /\ faults' \in 0 .. MaxFaults
      /\ file' \in [there : BOOLEAN, a : Authority]
      /\ owed' \in BOOLEAN
      /\ regressed' \in BOOLEAN
  BY GenesisTypes DEF FindGenesis
<1> QED
  BY <1>1, <1>2 DEF TypeOK, FindGenesis, clock, calling, Constraint

LEMMA StopTypes == ASSUME TypeOK, NEW p \in Proc, Stop(p) PROVE TypeOK'
<1>1. /\ times' \in [Proc -> [Keys -> Seq(Nat)]]
      /\ recent' \in [Proc -> [Keys -> Seq(Nat)]]
      /\ auth' \in [Proc -> Authority]
  BY FreshValues DEF TypeOK, Stop
<1>2. \A q \in Proc : pc'[q] \in {"forwarded", "saving"} <=> cur'[q] # {}
  BY DEF TypeOK, Stop
<1>3. /\ cur' \in [Proc -> SUBSET Keys]
      /\ held' \in [Proc -> SUBSET Constraint]
      /\ missed' \in [Proc -> SUBSET Constraint]
      /\ count' \in [Proc -> Nat] /\ forwarded' \in [Proc -> Nat]
      /\ stale' \in [Proc -> {"no", "bumped", "owing"}]
      /\ pc' \in [Proc -> {"off", "creating", "loaded", "ready", "forwarded", "saving", "recording"}]
  BY DEF TypeOK, Stop
<1> QED
  BY <1>1, <1>2, <1>3 DEF TypeOK, Stop, clock, bounds, Constraint

LEMMA InitializeTypes == ASSUME TypeOK, NEW p \in Proc, Initialize(p) PROVE TypeOK'
<1>1. auth'[p] \in Authority /\ auth' \in [Proc -> Authority]
  BY DEF TypeOK, Initialize
<1>2. /\ faults' \in 0 .. MaxFaults
      /\ file' \in [there : BOOLEAN, a : Authority]
      /\ owed' \in BOOLEAN
      /\ regressed' \in BOOLEAN
  BY <1>1, SavesSessionTypes, SaveFailsTypes DEF Initialize, TypeOK
<1>3. times' \in [Proc -> [Keys -> Seq(Nat)]] /\ recent' \in [Proc -> [Keys -> Seq(Nat)]]
  BY FreshValues DEF TypeOK, Initialize
<1> QED
  BY <1>1, <1>2, <1>3 DEF TypeOK, Initialize, clock, calling, Constraint

LEMMA BumpTypes == ASSUME TypeOK, NEW p \in Proc, BumpAuthority(p) PROVE TypeOK'
<1> auth \in [Proc -> Authority]
  BY DEF TypeOK
<1> auth' = [auth EXCEPT ![p].epoch = @ + 1]
  BY DEF BumpAuthority
<1>1. auth'[p] \in Authority /\ auth' \in [Proc -> Authority]
  OBVIOUS
<1>2. /\ faults' \in 0 .. MaxFaults
      /\ file' \in [there : BOOLEAN, a : Authority]
      /\ owed' \in BOOLEAN
      /\ regressed' \in BOOLEAN
  BY <1>1, SavesTypes, SaveFailsTypes DEF BumpAuthority, TypeOK
<1>3. granted' \in Nat /\ behind' \subseteq Proc
  BY <1>1 DEF TypeOK, BumpAuthority
<1>4. bumps' \in 0 .. MaxBumps
  <2>1. bumps \in 0 .. MaxBumps /\ bumps < MaxBumps /\ bumps' = bumps + 1
    BY DEF TypeOK, BumpAuthority
  <2> QED
    BY <2>1, BoundsTypes
<1> QED
  BY <1>1, <1>2, <1>3, <1>4 DEF TypeOK, BumpAuthority, clock, calling, Constraint

LEMMA BlockedTypes ==
  ASSUME TypeOK, NEW p \in Proc, NEW k \in Keys, CallBlocked(p, k) PROVE TypeOK'
<1>1. faults' \in 0 .. MaxFaults
  BY LoadsTypes DEF CallBlocked
<1>2. times[p][k] \in Seq(Nat)
  BY DEF TypeOK
<1>3. times' \in [Proc -> [Keys -> Seq(Nat)]]
  BY <1>2, PruneType DEF TypeOK, CallBlocked
<1>4. \A q \in Proc : pc'[q] \in {"forwarded", "saving"} <=> cur'[q] # {}
  BY DEF TypeOK, CallBlocked, calling
<1> QED
  BY <1>1, <1>3, <1>4 DEF TypeOK, CallBlocked, clock, calling, history, Constraint

LEMMA CallTypes == ASSUME TypeOK, NEW p \in Proc, NEW k \in Keys, Call(p, k) PROVE TypeOK'
<1>1. faults' \in 0 .. MaxFaults
  BY LoadsTypes DEF Call
<1>2. Append(times[p][k], now) \in Seq(Nat) /\ Append(recent[p][k], now) \in Seq(Nat)
  BY DEF TypeOK
<1>3. times' \in [Proc -> [Keys -> Seq(Nat)]]
  BY <1>2, PruneType DEF TypeOK, Call
<1>4. recent' \in [Proc -> [Keys -> Seq(Nat)]]
  BY <1>2 DEF TypeOK, Call
<1>5. total' \in 0 .. MaxForwards
  BY BoundsTypes DEF TypeOK, Call
<1>6. count' \in [Proc -> Nat] /\ forwarded' \in [Proc -> Nat] /\ cur' \in [Proc -> SUBSET Keys]
  <2>1. /\ count \in [Proc -> Nat] /\ forwarded \in [Proc -> Nat] /\ cur \in [Proc -> SUBSET Keys]
        /\ count' = [count EXCEPT ![p] = @ + 1]
        /\ forwarded' = [forwarded EXCEPT ![p] = @ + 1]
        /\ cur' = [cur EXCEPT ![p] = {k}]
    BY DEF TypeOK, Call
  <2> QED
    BY <2>1
<1>7. \A q \in Proc : pc'[q] \in {"forwarded", "saving"} <=> cur'[q] # {}
  BY DEF TypeOK, Call
<1> QED
  BY <1>1, <1>3, <1>4, <1>5, <1>6, <1>7 DEF TypeOK, Call, clock, Constraint

LEMMA CallRefusedTypes == ASSUME TypeOK, NEW p \in Proc, CallRefused(p) PROVE TypeOK'
BY DEF TypeOK, CallRefused, clock, bounds, session, history, Constraint

LEMMA CallEndsTypes == ASSUME TypeOK, NEW p \in Proc, CallEnds(p) PROVE TypeOK'
BY DEF TypeOK, CallEnds, clock, bounds, session, history, Constraint

LEMMA AddTypes == ASSUME TypeOK, NEW p \in Proc, AddConstraint(p) PROVE TypeOK'
<1>1. faults' \in 0 .. MaxFaults
  BY LoadsTypes DEF AddConstraint
<1>2. {[key |-> k, at |-> now] : k \in cur[p]} \subseteq Constraint
  BY DEF TypeOK, Constraint
<1>3. held' \in [Proc -> SUBSET Constraint] /\ missed' \in [Proc -> SUBSET Constraint]
  <2>1. PICK cs \in {constraints, {}} :
          /\ held' = [held EXCEPT ![p] = {c \in cs : ~IsExpired(c)}
                                         \cup {[key |-> k, at |-> now] : k \in cur[p]}]
          /\ missed' = [missed EXCEPT ![p] = constraints \ cs]
    BY DEF AddConstraint
  <2>2. {c \in cs : ~IsExpired(c)} \subseteq Constraint /\ constraints \ cs \subseteq Constraint
    BY <2>1 DEF TypeOK
  <2> QED
    BY <1>2, <2>1, <2>2 DEF TypeOK
<1>4. \A q \in Proc : pc'[q] \in {"forwarded", "saving"} <=> cur'[q] # {}
  BY DEF TypeOK, AddConstraint
<1> QED
  BY <1>1, <1>3, <1>4 DEF TypeOK, AddConstraint, clock, session, history

LEMMA FailureSignalTypes ==
  ASSUME TypeOK, NEW p \in Proc, FailureSignal(p)
  PROVE  times' \in [Proc -> [Keys -> Seq(Nat)]]
<1>1. \A k \in Keys : times[p][k] \in Seq(Nat) /\ PruneWindow(times[p][k]) \in Seq(Nat)
  BY PruneType DEF TypeOK
<1>2. [k \in Keys |-> IF k \in cur[p] THEN PruneWindow(times[p][k]) ELSE times[p][k]]
        \in [Keys -> Seq(Nat)]
  BY <1>1
<1> QED
  BY <1>2 DEF TypeOK, FailureSignal

LEMMA SaveTypes == ASSUME TypeOK, NEW p \in Proc, SaveConstraints(p) PROVE TypeOK'
<1>1. missed' \in [Proc -> SUBSET Constraint] /\ held' \in [Proc -> SUBSET Constraint]
  BY DEF TypeOK, SaveConstraints
<1>2. times' \in [Proc -> [Keys -> Seq(Nat)]]
  BY FailureSignalTypes DEF SaveConstraints
<1>3. \A q \in Proc : pc'[q] \in {"forwarded", "saving"} <=> cur'[q] # {}
  BY DEF TypeOK, SaveConstraints
<1> QED
  BY <1>1, <1>2, <1>3 DEF TypeOK, SaveConstraints, clock, bounds

LEMMA SaveConstraintsFailsTypes ==
  ASSUME TypeOK, NEW p \in Proc, SaveConstraintsFails(p) PROVE TypeOK'
<1>1. times' \in [Proc -> [Keys -> Seq(Nat)]]
  BY FailureSignalTypes DEF SaveConstraintsFails
<1>2. \A q \in Proc : pc'[q] \in {"forwarded", "saving"} <=> cur'[q] # {}
  BY DEF TypeOK, SaveConstraintsFails
<1>3. faults' \in 0 .. MaxFaults
  BY BoundsTypes DEF TypeOK, SaveConstraintsFails
<1>4. held' \in [Proc -> SUBSET Constraint] /\ missed' \in [Proc -> SUBSET Constraint]
  BY DEF TypeOK, SaveConstraintsFails
<1> QED
  BY <1>1, <1>2, <1>3, <1>4 DEF TypeOK, SaveConstraintsFails, clock, history, Constraint

LEMMA RecordTypes == ASSUME TypeOK, NEW p \in Proc, RecordReceipt(p) PROVE TypeOK'
<1>1. \A q \in Proc : pc'[q] \in {"forwarded", "saving"} <=> cur'[q] # {}
  BY DEF TypeOK, RecordReceipt, calling
<1>2. /\ auth' \in [Proc -> Authority]
      /\ faults' \in 0 .. MaxFaults
      /\ file' \in [there : BOOLEAN, a : Authority]
      /\ owed' \in BOOLEAN
      /\ regressed' \in BOOLEAN
  <2>1. CASE SetsGenesis(p) \/ KeepsGenesis
    BY <2>1, GenesisTypes
  <2>2. CASE faults < MaxFaults /\ faults' = faults + 1 /\ UNCHANGED <<auth, file, owed, regressed>>
    BY <2>2, BoundsTypes DEF TypeOK
  <2> QED
    BY <2>1, <2>2 DEF RecordReceipt
<1> QED
  BY <1>1, <1>2 DEF TypeOK, RecordReceipt, clock, calling, Constraint

LEMMA TickTypes == ASSUME TypeOK, Tick PROVE TypeOK'
BY BoundsTypes DEF TypeOK, Tick, bounds, session, calling, history

LEMMA TypeStep == TypeOK /\ [Next]_vars => TypeOK'
<1> SUFFICES ASSUME TypeOK, [Next]_vars PROVE TypeOK'
  OBVIOUS
<1>1. CASE Tick
  BY <1>1, TickTypes
<1>2. ASSUME NEW p \in Proc, SessionSteps(p) PROVE TypeOK'
  BY <1>2, StartTypes, StartFirstTypes, CreateTypes, FindTypes, InitializeTypes, BumpTypes,
     StopTypes
  DEF SessionSteps
<1>3. ASSUME NEW p \in Proc, CallSteps(p) PROVE TypeOK'
  BY <1>3, BlockedTypes, CallTypes, CallRefusedTypes, CallEndsTypes, AddTypes, SaveTypes,
     SaveConstraintsFailsTypes, RecordTypes
  DEF CallSteps
<1>4. CASE UNCHANGED vars
  BY <1>4 DEF vars, clock, bounds, session, calling, history, TypeOK, Constraint
<1> QED
  BY <1>1, <1>2, <1>3, <1>4 DEF Next

\* Every variable keeps its type.
THEOREM TypeCorrect == Spec => []TypeOK
BY InitTypes, TypeStep, PTL DEF Spec

----------------------------------------------------------------------------
(* The budget.                                                             *)

Quiet(p) == \/ CreateAuthority(p) \/ FindGenesis(p) \/ Initialize(p) \/ BumpAuthority(p)
            \/ (\E k \in Keys : CallBlocked(p, k))
            \/ CallRefused(p) \/ CallEnds(p)
            \/ AddConstraint(p) \/ SaveConstraints(p) \/ SaveConstraintsFails(p)
            \/ RecordReceipt(p)

LEMMA Cases ==
  ASSUME [Next]_vars
  PROVE  \/ Tick
         \/ \E p \in Proc : \/ Start(p) \/ StartFirst(p) \/ Stop(p)
                            \/ \E k \in Keys : Call(p, k)
                            \/ Quiet(p)
         \/ UNCHANGED vars
BY DEF Next, SessionSteps, CallSteps, Quiet

LEMMA BudgetStep == TypeOK /\ Budget /\ [Next]_vars => Budget'
<1> SUFFICES ASSUME TypeOK, Budget, [Next]_vars PROVE Budget'
  OBVIOUS
<1> /\ count \in [Proc -> Nat] /\ forwarded \in [Proc -> Nat]
    /\ \A q \in Proc : count[q] = forwarded[q] /\ (MaxCalls > 0 => count[q] <= MaxCalls)
  BY DEF TypeOK, Budget
<1>1. ASSUME NEW p \in Proc, Start(p) \/ StartFirst(p) \/ Stop(p) PROVE Budget'
  <2>1. count' = [count EXCEPT ![p] = 0] /\ forwarded' = [forwarded EXCEPT ![p] = 0]
    BY <1>1 DEF Start, StartFirst, Stop, FreshProcess
  <2> QED
    BY <2>1, BoundsTypes DEF Budget
<1>2. ASSUME NEW p \in Proc, NEW k \in Keys, Call(p, k) PROVE Budget'
  <2>1. count' = [count EXCEPT ![p] = @ + 1] /\ forwarded' = [forwarded EXCEPT ![p] = @ + 1]
    BY <1>2 DEF Call
  <2>2. MaxCalls = 0 \/ count[p] < MaxCalls
    BY <1>2 DEF Call, RunGates, BudgetCheck
  <2> QED
    BY <2>1, <2>2, BoundsTypes DEF Budget
<1>3. ASSUME NEW p \in Proc, Quiet(p) PROVE Budget'
  <2>1. UNCHANGED <<count, forwarded>>
    BY <1>3 DEF Quiet, CreateAuthority, FindGenesis, Initialize, BumpAuthority, CallBlocked,
                CallRefused, CallEnds, AddConstraint, SaveConstraints, SaveConstraintsFails,
                RecordReceipt, session, history
  <2> QED
    BY <2>1 DEF Budget
<1>4. CASE Tick \/ UNCHANGED vars
  BY <1>4 DEF Tick, vars, session, history, Budget
<1> QED
  BY <1>1, <1>2, <1>3, <1>4, Cases

\* No process forwards more calls than its budget.
THEOREM BudgetKept == Spec => []BudgetHolds
<1>1. Init => Budget
  BY BoundsTypes DEF Init, Budget
<1>2. TypeOK /\ Budget => BudgetHolds
  BY DEF TypeOK, Budget, BudgetHolds
<1> QED
  BY <1>1, <1>2, InitTypes, TypeStep, BudgetStep, PTL DEF Spec

----------------------------------------------------------------------------
(* Sessions and epochs.                                                    *)

\* A save of a session keeps InStep: of a process that has fallen behind it is
\* named, and one that is not knows what it owes.
LEMMA SaveInStep ==
  ASSUME TypeOK, NEW p \in Proc, NEW a \in Authority, NEW initialized \in BOOLEAN,
         SavesSession(p, a, initialized),
         a.active <= a.epoch,
         ~initialized /\ ~regressed => a.active < a.epoch
  PROVE  /\ file'.a.active <= file'.a.epoch
         /\ ~regressed' => ~regressed
         /\ ~regressed' /\ owed' => file'.a.active < file'.a.epoch
<1>1. file'.a = a /\ regressed' = (regressed \/ p \in behind)
  BY DEF SavesSession, Saves
<1>2. owed' = (owed /\ (p \in behind \/ ~initialized))
  BY DEF SavesSession
<1>3. ~regressed' => ~regressed /\ p \notin behind
  BY <1>1
<1>4. ~regressed' /\ owed' => ~initialized
  BY <1>2, <1>3
<1> QED
  BY <1>1, <1>3, <1>4

\* A session that owes an initialize has a closed gate, as long as nobody has
\* written an older copy.
LEMMA OwesCloses ==
  ASSUME TypeOK, InStep, ~regressed, NEW p \in Proc, stale[p] # "no"
  PROVE  auth[p].active < auth[p].epoch
BY DEF InStep, CheckAuthority

LEMMA InStepStep == TypeOK /\ InStep /\ [Next]_vars => InStep'
<1> SUFFICES ASSUME TypeOK, InStep, [Next]_vars PROVE InStep'
  OBVIOUS
<1> USE DEF CheckAuthority
<1> /\ auth \in [Proc -> Authority]
    /\ file \in [there : BOOLEAN, a : Authority]
    /\ stale \in [Proc -> {"no", "bumped", "owing"}]
  BY DEF TypeOK
<1>1. ASSUME NEW p \in Proc, Start(p) \/ StartFirst(p) \/ Stop(p) PROVE InStep'
  <2>1. \/ /\ auth' = [auth EXCEPT ![p] = file.a]
           /\ stale' = [stale EXCEPT ![p] = IF owed THEN "owing" ELSE "no"]
        \/ /\ auth' = [auth EXCEPT ![p] = NewAuthority]
           /\ stale' = [stale EXCEPT ![p] = "no"]
    BY <1>1 DEF Start, StartFirst, Stop
  <2>2. UNCHANGED <<file, owed, regressed>>
    BY <1>1 DEF Start, StartFirst, Stop
  <2> QED
    BY <2>1, <2>2 DEF InStep, NewAuthority
<1>2. ASSUME NEW p \in Proc, CreateAuthority(p) PROVE InStep'
  <2>1. SavesSession(p, auth[p], stale[p] = "no") /\ UNCHANGED <<auth, stale>>
    BY <1>2 DEF CreateAuthority, session
  <2>2. /\ file'.a.active <= file'.a.epoch
        /\ ~regressed' => ~regressed
        /\ ~regressed' /\ owed' => file'.a.active < file'.a.epoch
    BY <2>1, SaveInStep, OwesCloses DEF InStep
  <2> QED
    BY <2>1, <2>2 DEF InStep
<1>3. ASSUME NEW p \in Proc, Initialize(p) PROVE InStep'
  <2>1. /\ auth' = [auth EXCEPT ![p].active = auth[p].epoch]
        /\ stale' = [stale EXCEPT ![p] = "no"]
        /\ \/ SavesSession(p, auth'[p], TRUE)
           \/ UNCHANGED <<file, owed, regressed>>
    BY <1>3 DEF Initialize, SaveFails
  <2>2. auth'[p] = [auth[p] EXCEPT !.active = auth[p].epoch] /\ auth'[p] \in Authority
    BY <2>1
  <2>3. /\ file'.a.active <= file'.a.epoch
        /\ ~regressed' => ~regressed
        /\ ~regressed' /\ owed' => file'.a.active < file'.a.epoch
    <3>1. CASE SavesSession(p, auth'[p], TRUE)
      <4>1. auth'[p].active <= auth'[p].epoch
        BY <2>2
      <4> QED
        BY <2>2, <3>1, <4>1, SaveInStep
    <3>2. CASE UNCHANGED <<file, owed, regressed>>
      BY <3>2 DEF InStep
    <3> QED
      BY <2>1, <3>1, <3>2
  <2> QED
    BY <2>1, <2>2, <2>3 DEF InStep
<1>4. ASSUME NEW p \in Proc, BumpAuthority(p) PROVE InStep'
  <2>1. /\ auth' = [auth EXCEPT ![p].epoch = @ + 1]
        /\ stale' = [stale EXCEPT ![p] = "bumped"]
        /\ \/ Saves(p, auth'[p])
           \/ UNCHANGED <<file, owed, regressed>>
    BY <1>4 DEF BumpAuthority, SaveFails
  <2>2. auth'[p] = [auth[p] EXCEPT !.epoch = auth[p].epoch + 1]
    BY <2>1
  <2>3. auth'[p].active < auth'[p].epoch
    BY <2>2 DEF InStep
  <2>4. /\ file'.a.active <= file'.a.epoch
        /\ ~regressed' => ~regressed
        /\ ~regressed' /\ owed' => file'.a.active < file'.a.epoch
    <3>1. CASE Saves(p, auth'[p])
      <4>1. file'.a = auth'[p] /\ (~regressed' => ~regressed)
        BY <3>1 DEF Saves
      <4>2. auth'[p].active <= auth'[p].epoch
        BY <2>2 DEF InStep
      <4> QED
        BY <2>3, <4>1, <4>2
    <3>2. CASE UNCHANGED <<file, owed, regressed>>
      BY <3>2 DEF InStep
    <3> QED
      BY <2>1, <3>1, <3>2
  <2> QED
    BY <2>1, <2>2, <2>3, <2>4 DEF InStep
<1>5. ASSUME NEW p \in Proc,
             \/ \E k \in Keys : CallBlocked(p, k) \/ Call(p, k)
             \/ CallRefused(p) \/ CallEnds(p)
             \/ AddConstraint(p) \/ SaveConstraints(p) \/ SaveConstraintsFails(p)
      PROVE  InStep'
  <2>1. UNCHANGED <<auth, stale, file, owed, regressed>>
    BY <1>5 DEF CallBlocked, Call, CallRefused, CallEnds, AddConstraint, SaveConstraints,
                SaveConstraintsFails, session, history
  <2> QED
    BY <2>1 DEF InStep
<1>6. CASE Tick \/ UNCHANGED vars
  BY <1>6 DEF Tick, vars, session, history, InStep
<1>7. ASSUME NEW p \in Proc, FindGenesis(p) \/ RecordReceipt(p) PROVE InStep'
  <2>1. /\ auth' = auth \/ auth' = [auth EXCEPT ![p].genesis = TRUE]
        /\ stale' = stale
        /\ \/ SavesSession(p, auth'[p], stale[p] = "no")
           \/ UNCHANGED <<file, owed, regressed>>
    BY <1>7 DEF FindGenesis, RecordReceipt, SetsGenesis, KeepsGenesis, SaveFails
  <2>2. \A q \in Proc : auth'[q].epoch = auth[q].epoch /\ auth'[q].active = auth[q].active
    BY <2>1
  <2>4. auth'[p] \in Authority
    <3>1. auth[p] \in Authority /\ [auth[p] EXCEPT !.genesis = TRUE] \in Authority
      OBVIOUS
    <3>2. auth'[p] = auth[p] \/ auth'[p] = [auth[p] EXCEPT !.genesis = TRUE]
      BY <2>1
    <3> QED
      BY <3>1, <3>2
  <2>3. /\ file'.a.active <= file'.a.epoch
        /\ ~regressed' => ~regressed
        /\ ~regressed' /\ owed' => file'.a.active < file'.a.epoch
    <3>1. CASE SavesSession(p, auth'[p], stale[p] = "no")
      BY <2>2, <2>4, <3>1, SaveInStep, OwesCloses DEF InStep
    <3>2. CASE UNCHANGED <<file, owed, regressed>>
      BY <3>2 DEF InStep
    <3> QED
      BY <2>1, <3>1, <3>2
  <2> QED
    BY <2>1, <2>2, <2>3 DEF InStep
<1> QED
  BY <1>1, <1>2, <1>3, <1>4, <1>5, <1>6, <1>7, Cases DEF Quiet

\* Whoever forwards a call has passed the gates.
LEMMA ForwardsPassed ==
  ASSUME TypeOK, [Next]_vars, NEW p \in Proc, NEW k \in Keys, Forwards(p, k)
  PROVE  \E cs : RunGates(p, k, TRUE, cs)
<1> /\ recent \in [Proc -> [Keys -> Seq(Nat)]] /\ now \in Nat
    /\ recent[p][k] \in Seq(Nat)
  BY BoundsTypes DEF TypeOK
<1>1. recent'[p][k] # recent[p][k] /\ recent'[p][k] # << >>
  <2>1. recent'[p][k] = Append(recent[p][k], now)
    BY DEF Forwards
  <2>2. Len(Append(recent[p][k], now)) = Len(recent[p][k]) + 1 /\ Len(recent[p][k]) \in Nat
    OBVIOUS
  <2>3. Len(<< >>) = 0
    OBVIOUS
  <2>4. Len(recent'[p][k]) = Len(recent[p][k]) + 1
    BY <2>1, <2>2
  <2> HIDE DEF Forwards
  <2> QED
    BY <2>2, <2>3, <2>4
<1>2. ASSUME NEW q \in Proc, Start(q) \/ StartFirst(q) \/ Stop(q) \/ Initialize(q) PROVE FALSE
  <2>1. recent' = [recent EXCEPT ![q] = NoCalls]
    BY <1>2 DEF Start, StartFirst, Stop, Initialize, FreshProcess
  <2> QED
    BY <1>1, <2>1 DEF NoCalls
<1>3. ASSUME NEW q \in Proc,
             \/ CreateAuthority(q) \/ FindGenesis(q) \/ BumpAuthority(q)
             \/ (\E j \in Keys : CallBlocked(q, j)) \/ CallRefused(q) \/ CallEnds(q)
             \/ AddConstraint(q) \/ SaveConstraints(q) \/ SaveConstraintsFails(q)
             \/ RecordReceipt(q)
      PROVE  FALSE
  <2>1. recent' = recent
    BY <1>3 DEF CreateAuthority, FindGenesis, BumpAuthority, CallBlocked, CallRefused, CallEnds,
                AddConstraint, SaveConstraints, SaveConstraintsFails, RecordReceipt, history
  <2> QED
    BY <1>1, <2>1
<1>4. CASE Tick \/ UNCHANGED vars
  BY <1>1, <1>4 DEF Tick, vars, history
<1>5. ASSUME NEW q \in Proc, NEW j \in Keys, Call(q, j) PROVE \E cs : RunGates(p, k, TRUE, cs)
  <2>1. recent' = [recent EXCEPT ![q][j] = Append(@, now)]
    BY <1>5 DEF Call
  <2>2. q = p /\ j = k
    BY <1>1, <2>1
  <2> QED
    BY <1>5, <2>2 DEF Call
<1> QED
  BY <1>2, <1>3, <1>4, <1>5, Cases DEF Quiet

\* In strict mode a process that bumped forwards nothing until its own next
\* initialize; and one that started from a file that owes an initialize forwards
\* nothing before one either, unless an older copy was written over the bump.
THEOREM SyncBeforeForward == Spec => NothingForwardedOutOfSync
<1>1. Init => InStep
  BY DEF Init, InStep, NewAuthority
<1>2. TypeOK /\ InStep /\ [Next]_vars =>
        [\A p \in Proc, k \in Keys : Strict /\ Forwards(p, k) =>
           /\ stale[p] # "bumped"
           /\ stale[p] = "owing" => regressed]_vars
  <2> SUFFICES ASSUME TypeOK, InStep, [Next]_vars, NEW p \in Proc, NEW k \in Keys,
                      Strict, Forwards(p, k)
               PROVE  /\ stale[p] # "bumped"
                      /\ stale[p] = "owing" => regressed
    OBVIOUS
  <2>1. CheckAuthority(p)
    BY ForwardsPassed DEF RunGates
  <2> QED
    BY <2>1 DEF InStep
<1> QED
  BY <1>1, <1>2, InitTypes, TypeStep, InStepStep, PTL DEF Spec, NothingForwardedOutOfSync

\* Who has not loaded the authority before a bump knows the epoch it gave.
LEMMA EpochsStep == TypeOK /\ Epochs /\ [Next]_vars => Epochs'
<1> SUFFICES ASSUME TypeOK, Epochs, [Next]_vars PROVE Epochs'
  OBVIOUS
<1> /\ auth \in [Proc -> Authority]
    /\ file \in [there : BOOLEAN, a : Authority]
    /\ granted \in Nat /\ regressed \in BOOLEAN /\ behind \subseteq Proc
    /\ pc \in [Proc -> {"off", "creating", "loaded", "ready", "forwarded", "saving", "recording"}]
  BY DEF TypeOK
<1>1. ASSUME NEW p \in Proc, Start(p) PROVE Epochs'
  <2>1. /\ auth' = [auth EXCEPT ![p] = file.a]
        /\ pc' = [pc EXCEPT ![p] = "loaded"]
        /\ behind' = behind \ {p}
        /\ UNCHANGED <<file, granted, regressed>>
    BY <1>1 DEF Start, FreshProcess
  <2> QED
    BY <2>1 DEF Epochs
<1>2. ASSUME NEW p \in Proc, StartFirst(p) PROVE Epochs'
  <2>1. /\ auth' = [auth EXCEPT ![p] = NewAuthority]
        /\ pc' = [pc EXCEPT ![p] = "creating"]
        /\ behind' = behind \ {p}
        /\ ~file.there
        /\ UNCHANGED <<file, granted, regressed>>
    BY <1>2 DEF StartFirst, FreshProcess
  <2> QED
    BY <2>1 DEF Epochs, NewAuthority
<1>3. ASSUME NEW p \in Proc, CreateAuthority(p) PROVE Epochs'
  <2>1. /\ file' = [there |-> TRUE, a |-> auth[p]]
        /\ regressed' = (regressed \/ p \in behind)
        /\ pc[p] = "creating" /\ pc' = [pc EXCEPT ![p] = "loaded"]
        /\ UNCHANGED <<auth, granted, behind>>
    BY <1>3 DEF CreateAuthority, SavesSession, Saves, session
  <2> QED
    BY <2>1 DEF Epochs
<1>4. ASSUME NEW p \in Proc, Stop(p) PROVE Epochs'
  <2>1. /\ auth' = [auth EXCEPT ![p] = NewAuthority]
        /\ pc' = [pc EXCEPT ![p] = "off"]
        /\ behind' = behind \ {p}
        /\ UNCHANGED <<file, granted, regressed>>
    BY <1>4 DEF Stop
  <2> QED
    BY <2>1 DEF Epochs
<1>5. ASSUME NEW p \in Proc, Initialize(p) PROVE Epochs'
  <2>1. /\ auth' = [auth EXCEPT ![p].active = auth[p].epoch]
        /\ \/ file' = [there |-> TRUE, a |-> auth'[p]] /\ regressed' = (regressed \/ p \in behind)
           \/ UNCHANGED <<file, regressed>>
        /\ pc[p] = "ready"
        /\ UNCHANGED <<pc, granted, behind>>
    BY <1>5 DEF Initialize, SavesSession, Saves, SaveFails
  <2>2. \A q \in Proc : auth'[q].epoch = auth[q].epoch
    BY <2>1
  <2>3. CASE UNCHANGED <<file, regressed>>
    BY <2>1, <2>2, <2>3 DEF Epochs
  <2>4. CASE file' = [there |-> TRUE, a |-> auth'[p]] /\ regressed' = (regressed \/ p \in behind)
    BY <2>1, <2>2, <2>4 DEF Epochs
  <2> QED
    BY <2>1, <2>3, <2>4
<1>6. ASSUME NEW p \in Proc, BumpAuthority(p) PROVE Epochs'
  <2>1. /\ auth' = [auth EXCEPT ![p].epoch = @ + 1]
        /\ pc[p] = "ready"
        /\ UNCHANGED pc
    BY <1>6 DEF BumpAuthority
  <2>2. /\ auth'[p].epoch = auth[p].epoch + 1
        /\ \A q \in Proc : q # p => auth'[q].epoch = auth[q].epoch
    BY <2>1
  <2>3. CASE UNCHANGED <<file, regressed, granted, behind>>
    BY <2>1, <2>2, <2>3 DEF Epochs
  <2>4. CASE /\ file' = [there |-> TRUE, a |-> auth'[p]]
             /\ regressed' = (regressed \/ p \in behind)
             /\ granted' = IF auth'[p].epoch > granted THEN auth'[p].epoch ELSE granted
             /\ behind' = behind \cup {q \in Proc \ {p} : pc[q] # "off"}
    BY <2>1, <2>2, <2>4 DEF Epochs
  <2> QED
    BY <1>6, <2>3, <2>4 DEF BumpAuthority, Saves, SaveFails
<1>7. ASSUME NEW p \in Proc,
             \/ \E k \in Keys : CallBlocked(p, k) \/ Call(p, k)
             \/ CallRefused(p) \/ CallEnds(p)
             \/ AddConstraint(p) \/ SaveConstraints(p) \/ SaveConstraintsFails(p)
      PROVE  Epochs'
  <2>1. /\ UNCHANGED <<auth, file, granted, regressed, behind>>
        /\ pc[p] # "off" /\ \A q \in Proc : q # p => pc'[q] = pc[q]
    BY <1>7 DEF CallBlocked, Call, CallRefused, CallEnds, AddConstraint, SaveConstraints,
                SaveConstraintsFails, session, history
  <2> QED
    BY <2>1 DEF Epochs
<1>8. CASE Tick \/ UNCHANGED vars
  BY <1>8 DEF Tick, vars, session, history, Epochs
<1>9. ASSUME NEW p \in Proc, FindGenesis(p) \/ RecordReceipt(p) PROVE Epochs'
  <2>1. /\ auth' = auth \/ auth' = [auth EXCEPT ![p].genesis = TRUE]
        /\ \/ file' = [there |-> TRUE, a |-> auth'[p]] /\ regressed' = (regressed \/ p \in behind)
           \/ UNCHANGED <<file, regressed>>
        /\ pc[p] # "off" /\ pc' = [pc EXCEPT ![p] = "ready"]
        /\ UNCHANGED <<granted, behind>>
    BY <1>9 DEF FindGenesis, RecordReceipt, SetsGenesis, KeepsGenesis, SavesSession, Saves,
           SaveFails
  <2>2. \A q \in Proc : /\ auth'[q].epoch = auth[q].epoch
                        /\ pc'[q] # "off" => pc[q] # "off"
    BY <2>1
  <2>3. CASE UNCHANGED <<file, regressed>>
    BY <2>1, <2>2, <2>3 DEF Epochs
  <2>4. CASE file' = [there |-> TRUE, a |-> auth'[p]] /\ regressed' = (regressed \/ p \in behind)
    BY <2>1, <2>2, <2>4 DEF Epochs
  <2> QED
    BY <2>1, <2>3, <2>4
<1> QED
  BY <1>1, <1>2, <1>3, <1>4, <1>5, <1>6, <1>7, <1>8, <1>9, Cases DEF Quiet

\* A bump that was answered stays in the file, unless a process that had
\* loaded an older authority saved it again.
THEOREM BumpPersists == Spec => []EpochKept
<1>1. Init => Epochs
  BY DEF Init, Epochs, NewAuthority
<1>2. Epochs => EpochKept
  BY DEF Epochs, EpochKept
<1> QED
  BY <1>1, <1>2, InitTypes, TypeStep, EpochsStep, PTL DEF Spec

----------------------------------------------------------------------------
(* What was learned.                                                       *)

LEMMA KnowledgeStep == TypeOK /\ Knowledge /\ [Next]_vars => Knowledge'
<1> SUFFICES ASSUME TypeOK, Knowledge, [Next]_vars PROVE Knowledge'
  OBVIOUS
<1> USE DEF LearnedStays
<1> /\ pc \in [Proc -> {"off", "creating", "loaded", "ready", "forwarded", "saving", "recording"}]
    /\ held \in [Proc -> SUBSET Constraint] /\ missed \in [Proc -> SUBSET Constraint]
    /\ constraints \subseteq Constraint /\ learned \subseteq Constraint
    /\ now \in Nat /\ Ttl \in Nat
    /\ \A c \in Constraint : c.at \in Nat
  BY BoundsTypes DEF TypeOK, Constraint
<1>1. ASSUME NEW p \in Proc,
             \/ Start(p) \/ StartFirst(p) \/ CreateAuthority(p) \/ Initialize(p)
             \/ BumpAuthority(p) \/ (\E k \in Keys : CallBlocked(p, k) \/ Call(p, k))
             \/ CallRefused(p) \/ CallEnds(p) \/ FindGenesis(p) \/ RecordReceipt(p)
      PROVE  Knowledge'
  <2>1. /\ UNCHANGED <<now, constraints, learned, excused, held, missed>>
        /\ pc'[p] # "saving" /\ \A q \in Proc : q # p => pc'[q] = pc[q]
    BY <1>1 DEF Start, StartFirst, CreateAuthority, Initialize, BumpAuthority, CallBlocked, Call,
                CallRefused, CallEnds, FindGenesis, RecordReceipt, FreshProcess, clock, calling,
                history
  <2> QED
    BY <2>1 DEF Knowledge
<1>2. ASSUME NEW p \in Proc, Stop(p) \/ SaveConstraintsFails(p) PROVE Knowledge'
  <2>1. /\ UNCHANGED <<now, constraints, learned, excused>>
        /\ pc'[p] # "saving"
        /\ \A q \in Proc : q # p => pc'[q] = pc[q] /\ held'[q] = held[q] /\ missed'[q] = missed[q]
    BY <1>2 DEF Stop, SaveConstraintsFails, clock, history
  <2> QED
    BY <2>1 DEF Knowledge
<1>3. ASSUME NEW p \in Proc, AddConstraint(p) PROVE Knowledge'
  <2>1. PICK cs \in {constraints, {}} :
          /\ held' = [held EXCEPT ![p] = {c \in cs : ~IsExpired(c)}
                                         \cup {[key |-> k, at |-> now] : k \in cur[p]}]
          /\ missed' = [missed EXCEPT ![p] = constraints \ cs]
    BY <1>3 DEF AddConstraint
  <2>2. /\ UNCHANGED <<now, constraints, learned, excused>>
        /\ pc' = [pc EXCEPT ![p] = "saving"]
    BY <1>3 DEF AddConstraint, clock, history
  <2>3. ASSUME NEW c \in constraints, now <= c.at + Ttl PROVE c \in held'[p] \cup missed'[p]
    <3>1. CASE c \in cs
      <4>1. ~IsExpired(c)
        BY <2>3 DEF IsExpired
      <4> QED
        BY <2>1, <3>1, <4>1
    <3>2. CASE c \notin cs
      BY <2>1, <3>2
    <3> QED
      BY <3>1, <3>2
  <2>4. \A q \in Proc : q # p => held'[q] = held[q] /\ missed'[q] = missed[q]
    BY <2>1
  <2> QED
    BY <2>2, <2>3, <2>4 DEF Knowledge
<1>4. ASSUME NEW p \in Proc, SaveConstraints(p) PROVE Knowledge'
  <2>1. /\ pc[p] = "saving" /\ pc' = [pc EXCEPT ![p] = "recording"]
        /\ constraints' = held[p]
        /\ learned' = learned \cup held[p]
        /\ excused' = excused \cup missed[p]
        /\ UNCHANGED now
    BY <1>4 DEF SaveConstraints, clock
  <2>2. \A q \in Proc : q # p /\ pc[q] = "saving" =>
           held'[q] = held[q] /\ missed'[q] = missed[q] \cup (held[p] \ held[q])
    BY <1>4 DEF SaveConstraints
  <2>3. LearnedStays'
    BY <2>1 DEF Knowledge
  <2>4. ASSUME NEW q \in Proc, pc'[q] = "saving", NEW c \in constraints'
        PROVE  c \in held'[q] \cup missed'[q]
    BY <2>1, <2>2, <2>4
  <2> QED
    BY <2>3, <2>4 DEF Knowledge
<1>5. CASE Tick
  <2>1. /\ now' = now + 1
        /\ UNCHANGED <<constraints, learned, excused, held, missed, pc>>
    BY <1>5 DEF Tick, calling, history
  <2>2. \A c \in Constraint : now' <= c.at + Ttl => now <= c.at + Ttl
    BY <2>1
  <2> QED
    BY <2>1, <2>2 DEF Knowledge
<1>6. CASE UNCHANGED vars
  BY <1>6 DEF vars, clock, calling, history, Knowledge
<1> QED
  BY <1>1, <1>2, <1>3, <1>4, <1>5, <1>6, Cases DEF Quiet

\* A constraint that was saved outlives every later save that knew of it.
THEOREM LearnedKept == Spec => []LearnedStays
<1>1. Init => Knowledge
  BY DEF Init, Knowledge, LearnedStays
<1>2. Knowledge => LearnedStays
  BY DEF Knowledge
<1> QED
  BY <1>1, <1>2, InitTypes, TypeStep, KnowledgeStep, PTL DEF Spec

----------------------------------------------------------------------------
(* The window of convergence.                                              *)

\* Of a tail of the stamps, pruneWindow leaves those of the window.
LEMMA PruneCounts ==
  ASSUME now \in Nat, Window \in Nat,
         NEW long \in Seq(Nat), InOrder(long, now),
         NEW short \in Seq(Nat), NEW d \in 0 .. Len(long), Suffix(short, long, d, now)
  PROVE  /\ \E e \in 0 .. Len(long) : Suffix(PruneWindow(short), long, e, now)
         /\ Len(PruneWindow(short)) =
              Cardinality({i \in DOMAIN long : long[i] + Window >= now})
<1>1. InOrder(short, now)
  <2>1. Len(short) = Len(long) - d /\ \A i \in 1 .. Len(short) : short[i] = long[d + i]
    BY DEF Suffix
  <2>2. \A i \in 1 .. Len(short) : d + i \in 1 .. Len(long)
    BY <2>1
  <2>3. \A i, j \in 1 .. Len(short) : i <= j => d + i <= d + j
    OBVIOUS
  <2>4. \A i, j \in 1 .. Len(long) : i <= j => long[i] <= long[j]
    BY DEF InOrder
  <2>5. \A i \in 1 .. Len(long) : long[i] <= now
    BY DEF InOrder
  <2>6. \A i, j \in 1 .. Len(short) : i <= j => short[i] <= short[j]
    BY <2>1, <2>2, <2>3, <2>4
  <2>7. \A i \in 1 .. Len(short) : short[i] <= now
    BY <2>1, <2>2, <2>5
  <2>8. DOMAIN short = 1 .. Len(short)
    OBVIOUS
  <2> QED
    BY <2>6, <2>7, <2>8, Zenon DEF InOrder
<1>2. PICK s \in 0 .. Len(short) :
        /\ Suffix(PruneWindow(short), short, s, now)
        /\ \A i \in s + 1 .. Len(short) : short[i] + Window >= now
  BY <1>1, PruneDropsOld
<1>3. d + s \in 0 .. Len(long) /\ Len(short) = Len(long) - d
  BY DEF Suffix
<1>4. Len(PruneWindow(short)) = Len(long) - (d + s)
  BY <1>2, <1>3 DEF Suffix
<1>5. \A i \in 1 .. Len(PruneWindow(short)) : PruneWindow(short)[i] = long[(d + s) + i]
  <2> SUFFICES ASSUME NEW i \in 1 .. Len(PruneWindow(short))
               PROVE  PruneWindow(short)[i] = long[(d + s) + i]
    OBVIOUS
  <2>1. PruneWindow(short)[i] = short[s + i]
    BY <1>2 DEF Suffix
  <2>2. s + i \in 1 .. Len(short) /\ d + (s + i) = (d + s) + i
    BY <1>3, <1>4
  <2>3. short[s + i] = long[d + (s + i)]
    BY <2>2 DEF Suffix
  <2> QED
    BY <2>1, <2>2, <2>3
<1>6. \A i \in 1 .. d + s : long[i] + Window < now
  <2> SUFFICES ASSUME NEW i \in 1 .. d + s PROVE long[i] + Window < now
    OBVIOUS
  <2>1. CASE i <= d
    BY <2>1 DEF Suffix
  <2>2. CASE i > d
    <3>1. i - d \in 1 .. s /\ i - d \in 1 .. Len(short) /\ d + (i - d) = i
      BY <2>2
    <3>2. short[i - d] + Window < now
      BY <1>2, <3>1 DEF Suffix
    <3>3. short[i - d] = long[d + (i - d)]
      BY <3>1 DEF Suffix
    <3> QED
      BY <3>1, <3>2, <3>3
  <2> QED
    BY <2>1, <2>2
<1>7. \A i \in (d + s) + 1 .. Len(long) : long[i] + Window >= now
  <2> SUFFICES ASSUME NEW i \in (d + s) + 1 .. Len(long) PROVE long[i] + Window >= now
    OBVIOUS
  <2>1. i - d \in s + 1 .. Len(short) /\ i - d \in 1 .. Len(short) /\ d + (i - d) = i
    BY <1>3
  <2>2. short[i - d] = long[d + (i - d)]
    BY <2>1 DEF Suffix
  <2> QED
    BY <1>2, <2>1, <2>2
<1>8. {i \in DOMAIN long : long[i] + Window >= now} = (d + s) + 1 .. Len(long)
  <2>1. \A i \in DOMAIN long : i \in Nat /\ long[i] \in Nat /\ (i <= d + s => i \in 1 .. d + s)
    BY <1>3
  <2>2. \A i \in DOMAIN long : i <= d + s => ~(long[i] + Window >= now)
    BY <1>6, <2>1
  <2>3. d + s \in Nat /\ Len(long) \in Nat /\ DOMAIN long = 1 .. Len(long)
    BY <1>3
  <2>4. ASSUME NEW i \in DOMAIN long, long[i] + Window >= now PROVE i \in (d + s) + 1 .. Len(long)
    BY <2>1, <2>2, <2>3, <2>4
  <2>5. ASSUME NEW i \in (d + s) + 1 .. Len(long) PROVE i \in DOMAIN long /\ long[i] + Window >= now
    BY <1>7, <2>3, <2>5
  <2> QED
    BY <2>4, <2>5
<1>9. Cardinality((d + s) + 1 .. Len(long)) = Len(long) - (d + s)
  <2>1. (d + s) + 1 \in Int /\ Len(long) \in Int
    OBVIOUS
  <2>2. Cardinality((d + s) + 1 .. Len(long)) =
          IF (d + s) + 1 > Len(long) THEN 0 ELSE Len(long) - ((d + s) + 1) + 1
    BY <2>1, FS_Interval
  <2> QED
    BY <1>3, <2>2
<1>10. Suffix(PruneWindow(short), long, d + s, now)
  BY <1>4, <1>5, <1>6 DEF Suffix
<1> QED
  BY <1>3, <1>4, <1>8, <1>9, <1>10

\* One more stamp, of this moment.
LEMMA AppendStamp ==
  ASSUME now \in Nat, Window \in Nat,
         NEW long \in Seq(Nat), InOrder(long, now),
         NEW short \in Seq(Nat), NEW d \in 0 .. Len(long), Suffix(short, long, d, now)
  PROVE  /\ InOrder(Append(long, now), now)
         /\ d \in 0 .. Len(Append(long, now))
         /\ Suffix(Append(short, now), Append(long, now), d, now)
<1>1. /\ Len(Append(long, now)) = Len(long) + 1 /\ Len(Append(short, now)) = Len(short) + 1
      /\ \A i \in 1 .. Len(long) : Append(long, now)[i] = long[i]
      /\ \A i \in 1 .. Len(short) : Append(short, now)[i] = short[i]
      /\ Append(long, now)[Len(long) + 1] = now
      /\ Append(short, now)[Len(short) + 1] = now
      /\ DOMAIN Append(long, now) = 1 .. Len(long) + 1
  OBVIOUS
<1>2. Len(short) = Len(long) - d
  BY DEF Suffix
<1>3. InOrder(Append(long, now), now)
  <2>1. \A i \in 1 .. Len(long) : long[i] <= now /\ long[i] \in Nat
    BY DEF InOrder
  <2>2. \A i, j \in 1 .. Len(long) : i <= j => long[i] <= long[j]
    BY DEF InOrder
  <2>3. \A i \in 1 .. Len(long) + 1 : i \in 1 .. Len(long) \/ i = Len(long) + 1
    OBVIOUS
  <2>4. \A i \in 1 .. Len(long) + 1 : Append(long, now)[i] <= now
    BY <1>1, <2>1, <2>3
  <2>5. \A i, j \in 1 .. Len(long) + 1 : i <= j => Append(long, now)[i] <= Append(long, now)[j]
    <3> SUFFICES ASSUME NEW i \in 1 .. Len(long) + 1, NEW j \in 1 .. Len(long) + 1, i <= j
                 PROVE  Append(long, now)[i] <= Append(long, now)[j]
      OBVIOUS
    <3>1. CASE j = Len(long) + 1
      BY <1>1, <2>4, <3>1
    <3>2. CASE j \in 1 .. Len(long)
      <4>1. i \in 1 .. Len(long)
        BY <3>2
      <4> QED
        BY <1>1, <2>2, <3>2, <4>1
    <3> QED
      BY <3>1, <3>2
  <2> QED
    BY <1>1, <2>4, <2>5 DEF InOrder
<1>4. \A i \in 1 .. Len(short) + 1 : Append(short, now)[i] = Append(long, now)[d + i]
  <2> SUFFICES ASSUME NEW i \in 1 .. Len(short) + 1
               PROVE  Append(short, now)[i] = Append(long, now)[d + i]
    OBVIOUS
  <2>1. CASE i = Len(short) + 1
    <3>1. d + i = Len(long) + 1
      BY <1>2, <2>1
    <3> QED
      BY <1>1, <2>1, <3>1
  <2>2. CASE i \in 1 .. Len(short)
    <3>1. d + i \in 1 .. Len(long) /\ short[i] = long[d + i]
      BY <1>2, <2>2 DEF Suffix
    <3> QED
      BY <1>1, <2>2, <3>1
  <2>3. i = Len(short) + 1 \/ i \in 1 .. Len(short)
    OBVIOUS
  <2> QED
    BY <2>1, <2>2, <2>3
<1>5. \A i \in 1 .. d : Append(long, now)[i] + Window < now
  <2>1. \A i \in 1 .. d : i \in 1 .. Len(long) /\ long[i] + Window < now
    BY DEF Suffix
  <2> SUFFICES ASSUME NEW i \in 1 .. d PROVE Append(long, now)[i] + Window < now
    OBVIOUS
  <2>2. Append(long, now)[i] = long[i]
    BY <1>1, <2>1
  <2>3. long[i] + Window < now
    BY <2>1
  <2> QED
    BY <2>2, <2>3
<1>6. Len(Append(short, now)) = Len(Append(long, now)) - d /\ d \in 0 .. Len(Append(long, now))
  BY <1>1, <1>2
<1>7. Suffix(Append(short, now), Append(long, now), d, now)
  BY <1>1, <1>4, <1>5, <1>6, Zenon DEF Suffix
<1> QED
  BY <1>3, <1>6, <1>7

LEMMA StampTypes ==
  ASSUME TypeOK, NEW p \in Proc, NEW k \in Keys
  PROVE  times[p][k] \in Seq(Nat) /\ recent[p][k] \in Seq(Nat) /\ now \in Nat /\ Window \in Nat
BY BoundsTypes DEF TypeOK

\* What the gate counts is what was forwarded in the window.
LEMMA GateCounts ==
  ASSUME TypeOK, Stamps, NEW p \in Proc, NEW k \in Keys
  PROVE  Len(PruneWindow(times[p][k])) = Cardinality(InWindow(p, k))
<1>1. PICK d \in 0 .. Len(recent[p][k]) :
        InOrder(recent[p][k], now) /\ Suffix(times[p][k], recent[p][k], d, now)
  BY DEF Stamps, Fits
<1>2. Len(PruneWindow(times[p][k])) =
        Cardinality({i \in DOMAIN recent[p][k] : recent[p][k][i] + Window >= now})
  BY <1>1, StampTypes, PruneCounts
<1> QED
  BY <1>2 DEF InWindow

LEMMA NoStamps == ASSUME NEW t PROVE Fits(<< >>, << >>, t)
<1>1. Len(<< >>) = 0 /\ DOMAIN << >> = {} /\ 0 \in 0 .. Len(<< >>) /\ 1 .. 0 = {}
  OBVIOUS
<1>2. InOrder(<< >>, t)
  BY <1>1 DEF InOrder
<1>3. Suffix(<< >>, << >>, 0, t)
  BY <1>1 DEF Suffix
<1> QED
  BY <1>1, <1>2, <1>3 DEF Fits

LEMMA StampsStep == TypeOK /\ Stamps /\ [Next]_vars => Stamps'
<1> SUFFICES ASSUME TypeOK, Stamps, [Next]_vars,
                    NEW p \in Proc, NEW k \in Keys
             PROVE  Fits(times'[p][k], recent'[p][k], now')
  BY DEF Stamps
<1> /\ times \in [Proc -> [Keys -> Seq(Nat)]] /\ recent \in [Proc -> [Keys -> Seq(Nat)]]
  BY DEF TypeOK
<1>1. Fits(times[p][k], recent[p][k], now)
  BY DEF Stamps
<1>2. PICK d \in 0 .. Len(recent[p][k]) :
        InOrder(recent[p][k], now) /\ Suffix(times[p][k], recent[p][k], d, now)
  BY <1>1 DEF Fits
<1>3. ASSUME now' = now,
             \/ times'[p][k] = times[p][k] /\ recent'[p][k] = recent[p][k]
             \/ times'[p][k] = << >> /\ recent'[p][k] = << >>
      PROVE  Fits(times'[p][k], recent'[p][k], now')
  <2>1. Fits(<< >>, << >>, now)
    BY NoStamps
  <2> QED
    BY <1>1, <1>3, <2>1
<1>4. ASSUME NEW q \in Proc, Start(q) \/ StartFirst(q) \/ Stop(q) \/ Initialize(q)
      PROVE  Fits(times'[p][k], recent'[p][k], now')
  <2>1. /\ times' = [times EXCEPT ![q] = NoCalls]
        /\ recent' = [recent EXCEPT ![q] = NoCalls]
        /\ now' = now
    BY <1>4 DEF Start, StartFirst, Stop, Initialize, FreshProcess, clock
  <2>2. NoCalls[k] = << >>
    BY DEF NoCalls
  <2> QED
    BY <1>3, <2>1, <2>2
<1>5. ASSUME NEW q \in Proc,
             \/ CreateAuthority(q) \/ FindGenesis(q) \/ BumpAuthority(q)
             \/ CallRefused(q) \/ CallEnds(q) \/ AddConstraint(q) \/ RecordReceipt(q)
      PROVE  Fits(times'[p][k], recent'[p][k], now')
  <2>1. UNCHANGED <<now, times, recent>>
    BY <1>5 DEF CreateAuthority, FindGenesis, BumpAuthority, CallRefused, CallEnds, AddConstraint,
                RecordReceipt, clock, session, history
  <2> QED
    BY <1>3, <2>1
<1>6. ASSUME NEW q \in Proc,
             (\E j \in Keys : CallBlocked(q, j)) \/ SaveConstraints(q) \/ SaveConstraintsFails(q)
      PROVE  Fits(times'[p][k], recent'[p][k], now')
  <2>1. UNCHANGED <<now, recent>>
    BY <1>6 DEF CallBlocked, SaveConstraints, SaveConstraintsFails, clock, history
  <2>2. times'[p][k] = times[p][k] \/ times'[p][k] = PruneWindow(times[p][k])
    <3>1. CASE \E j \in Keys : CallBlocked(q, j)
      <4>1. PICK j \in Keys : times' = times \/ times' = [times EXCEPT ![q][j] = PruneWindow(@)]
        BY <3>1 DEF CallBlocked
      <4> QED
        BY <4>1
    <3>2. CASE FailureSignal(q)
      <4>1. CASE times' = times
        BY <4>1
      <4>2. CASE times' = [times EXCEPT ![q] =
                             [j \in Keys |-> IF j \in cur[q] THEN PruneWindow(@[j]) ELSE @[j]]]
        <5>1. CASE q = p
          <6>1. times'[p] = [j \in Keys |-> IF j \in cur[p] THEN PruneWindow(times[p][j])
                                                            ELSE times[p][j]]
            BY <4>2, <5>1
          <6> QED
            BY <6>1
        <5>2. CASE q # p
          BY <4>2, <5>2
        <5> QED
          BY <5>1, <5>2
      <4> QED
        BY <3>2, <4>1, <4>2 DEF FailureSignal
    <3> QED
      BY <1>6, <3>1, <3>2 DEF SaveConstraints, SaveConstraintsFails
  <2>3. Fits(PruneWindow(times[p][k]), recent[p][k], now)
    <3>1. \E e \in 0 .. Len(recent[p][k]) : Suffix(PruneWindow(times[p][k]), recent[p][k], e, now)
      BY <1>2, StampTypes, PruneCounts
    <3> QED
      BY <1>2, <3>1 DEF Fits
  <2> QED
    BY <1>1, <2>1, <2>2, <2>3
<1>7. ASSUME NEW q \in Proc, NEW j \in Keys, Call(q, j)
      PROVE  Fits(times'[p][k], recent'[p][k], now')
  <2>1. /\ now' = now
        /\ times' = [times EXCEPT ![q][j] = PruneWindow(Append(@, now))]
        /\ recent' = [recent EXCEPT ![q][j] = Append(@, now)]
    BY <1>7 DEF Call, clock
  <2>2. CASE q # p \/ j # k
    BY <1>3, <2>1, <2>2
  <2>3. CASE q = p /\ j = k
    <3> DEFINE long == Append(recent[p][k], now)
               short == Append(times[p][k], now)
    <3>1. times'[p][k] = PruneWindow(short) /\ recent'[p][k] = long
      BY <2>1, <2>3
    <3>2. long \in Seq(Nat) /\ short \in Seq(Nat)
      BY StampTypes
    <3>3. InOrder(long, now) /\ d \in 0 .. Len(long) /\ Suffix(short, long, d, now)
      BY <1>2, StampTypes, AppendStamp
    <3> HIDE DEF long, short
    <3>4. \E e \in 0 .. Len(long) : Suffix(PruneWindow(short), long, e, now)
      BY <3>2, <3>3, StampTypes, PruneCounts
    <3>5. Fits(PruneWindow(short), long, now)
      BY <3>3, <3>4 DEF Fits
    <3> QED
      BY <2>1, <3>1, <3>5
  <2> QED
    BY <2>2, <2>3
<1>8. CASE Tick
  <2>1. now' = now + 1 /\ times' = times /\ recent' = recent
    BY <1>8 DEF Tick, session, history
  <2> DEFINE long == recent[p][k]
             short == times[p][k]
  <2>2. long \in Seq(Nat) /\ now \in Nat /\ Window \in Nat
    BY StampTypes
  <2>3. InOrder(long, now) /\ d \in 0 .. Len(long) /\ Suffix(short, long, d, now)
    BY <1>2
  <2> HIDE DEF long, short
  <2>4. InOrder(long, now + 1)
    BY <2>2, <2>3 DEF InOrder
  <2>5. Suffix(short, long, d, now + 1)
    <3>1. \A i \in 1 .. d : i \in 1 .. Len(long) /\ long[i] \in Nat /\ long[i] + Window < now
      BY <2>2, <2>3 DEF Suffix
    <3>2. \A i \in 1 .. d : long[i] + Window < now + 1
      BY <2>2, <3>1
    <3> QED
      BY <2>3, <3>2 DEF Suffix
  <2>6. Fits(short, long, now + 1)
    BY <2>3, <2>4, <2>5 DEF Fits
  <2> QED
    BY <2>1, <2>6 DEF long, short
<1>9. CASE UNCHANGED vars
  BY <1>3, <1>9 DEF vars, clock, session, history
<1> QED
  BY <1>4, <1>5, <1>6, <1>7, <1>8, <1>9, Cases DEF Quiet

LEMMA InitStamps == Init => Stamps
BY NoStamps DEF Init, Stamps, NoCalls

\* In strict mode no tool and target is forwarded more than maxToolTargetCalls
\* times in any window of a session.
THEOREM RepeatBounded == Spec => RepeatBound
<1>1. TypeOK /\ Stamps /\ [Next]_vars =>
        [\A p \in Proc, k \in Keys :
            Strict /\ Forwards(p, k) => Cardinality(InWindow(p, k)) < MaxRepeat]_vars
  <2> SUFFICES ASSUME TypeOK, Stamps, [Next]_vars, NEW p \in Proc, NEW k \in Keys,
                      Strict, Forwards(p, k)
               PROVE  Cardinality(InWindow(p, k)) < MaxRepeat
    OBVIOUS
  <2>1. ~Exhausted(p, k)
    BY ForwardsPassed DEF RunGates
  <2>2. PruneWindow(times[p][k]) \in Seq(Nat)
    BY StampTypes, PruneType
  <2> QED
    BY <2>1, <2>2, GateCounts, BoundsTypes DEF Exhausted
<1> QED
  BY <1>1, InitTypes, InitStamps, TypeStep, StampsStep, PTL DEF Spec, RepeatBound

\* The gate is closed only by as many forwarded calls in the window.
THEOREM ExhaustedByForwards == Spec => []ExhaustedOnlyByForwards
<1>1. TypeOK /\ Stamps => ExhaustedOnlyByForwards
  BY GateCounts DEF ExhaustedOnlyByForwards, Exhausted
<1> QED
  BY <1>1, InitTypes, InitStamps, TypeStep, StampsStep, PTL DEF Spec
----------------------------------------------------------------------------
(* Calls with arguments.                                                   *)

\* Calls is Governance with some more to remember.
LEMMA CallsSteps == [CallsNext]_callsVars => [Next]_vars
<1> SUFFICES ASSUME [CallsNext]_callsVars PROVE [Next]_vars
  OBVIOUS
<1> USE DEF Next, SessionSteps, CallSteps
<1>1. CASE Elsewhere
  BY <1>1 DEF Elsewhere
<1>2. ASSUME NEW p \in Proc, NEW c \in CallSet, AgentCalls(p, c) \/ AgentBlocked(p, c) PROVE Next
  <2>1. KeysOf(c) \subseteq Keys
    BY CallsAssumption DEF KeysOf
  <2> QED
    BY <1>2, <2>1 DEF AgentCalls, AgentBlocked
<1>3. ASSUME NEW p \in Proc, CallFails(p) \/ FailureSaved(p) \/ CallForgotten(p) PROVE Next
  BY <1>3 DEF CallFails, FailureSaved, CallForgotten
<1>4. CASE UNCHANGED callsVars
  BY <1>4 DEF callsVars
<1> QED
  BY <1>1, <1>2, <1>3, <1>4 DEF CallsNext

\* Whatever holds of the gates holds of them when calls have arguments.
THEOREM CallsImplement == CallsSpec => Spec
<1>1. CallsInit => Init
  BY DEF CallsInit
<1> QED
  BY <1>1, CallsSteps, PTL DEF CallsSpec, Spec

\* Budget and window hold for calls with arguments, whatever their targets.
THEOREM CallsBounded == CallsSpec => []BudgetHolds /\ []ExhaustedOnlyByForwards /\ RepeatBound
BY CallsImplement, BudgetKept, ExhaustedByForwards, RepeatBounded, PTL

\* Where arguments leave no choice there is one target, whatever the order of
\* the map.
LEMMA OneTarget ==
  ASSUME NEW args, IsFiniteSet(DOMAIN args), Definite(args)
  PROVE  \E t : ExtractTarget(args) = {t}
<1>1. CASE Known(args) # {}
  BY <1>1 DEF ExtractTarget
<1>2. CASE Known(args) = {}
  <2>1. IsFiniteSet(Texts(args)) /\ Cardinality(Texts(args)) <= 1
    BY <1>2, FS_Subset DEF Definite, Texts
  <2>2. Cardinality(Texts(args)) \in Nat
    BY <2>1, FS_CardinalityType
  <2>3. CASE Cardinality(Texts(args)) = 0
    <3>1. Texts(args) = {}
      BY <2>1, <2>3, FS_EmptySet
    <3> QED
      BY <1>2, <3>1 DEF ExtractTarget
  <2>4. CASE Cardinality(Texts(args)) = 1
    <3>1. PICK n : Texts(args) = {n}
      BY <2>1, <2>4, FS_Singleton
    <3>2. {args[m] : m \in {n}} = {args[n]}
      OBVIOUS
    <3> QED
      BY <1>2, <3>1, <3>2 DEF ExtractTarget
  <2>5. Cardinality(Texts(args)) = 0 \/ Cardinality(Texts(args)) = 1
    BY <2>1, <2>2
  <2> QED
    BY <2>3, <2>4, <2>5
<1> QED
  BY <1>1, <1>2

\* What a process has forwarded and what failed of it: the constraint it is
\* about to save is there, under a key of that call.
Asking ==
  \A p \in Proc :
     /\ pc[p] \notin {"forwarded", "saving"} => asked[p] = {}
     /\ \A a \in asked[p] : cur[p] \subseteq KeysOf(a.call)
     /\ pc[p] = "saving" =>
           \A a \in asked[p], k \in cur[p] : [key |-> k, at |-> a.at] \in held[p]

\* A failure that was saved was learned under a key of its call.
Failed ==
  \A f \in failures : f.key \in KeysOf(f.call) /\ [key |-> f.key, at |-> f.at] \in learned

CallsTypeOK == /\ asked \in [Proc -> SUBSET [call : CallSet, at : Nat]]
               /\ failures \subseteq [call : CallSet, key : Keys, at : Nat]

Failures == CallsTypeOK /\ Asking /\ Failed

\* Every action keeps what is known of failures.
LEMMA FailuresStep == TypeOK /\ Failures /\ [CallsNext]_callsVars => Failures'
<1> SUFFICES ASSUME TypeOK, Failures, [CallsNext]_callsVars PROVE Failures'
  OBVIOUS
<1> USE DEF Failures
<1>0. /\ now \in Nat /\ cur \in [Proc -> SUBSET Keys] /\ held \in [Proc -> SUBSET Constraint]
      /\ asked \in [Proc -> SUBSET [call : CallSet, at : Nat]]
      /\ failures \subseteq [call : CallSet, key : Keys, at : Nat]
      /\ pc \in [Proc -> {"off", "creating", "loaded", "ready", "forwarded", "saving", "recording"}]
  BY BoundsTypes DEF TypeOK, CallsTypeOK
<1>1. CASE Elsewhere
  <2>1. UNCHANGED <<asked, failures, cur, held, learned>>
    BY <1>1 DEF Elsewhere, Tick, Start, StartFirst, CreateAuthority, FindGenesis, Initialize,
                BumpAuthority, RecordReceipt, FreshProcess, calling, history
  <2>2. \A q \in Proc : pc'[q] = pc[q] \/ (pc[q] \notin {"forwarded", "saving"}
                                             /\ pc'[q] \notin {"forwarded", "saving"})
    BY <1>0, <1>1 DEF Elsewhere, Tick, Start, StartFirst, CreateAuthority, FindGenesis, Initialize,
                      BumpAuthority, RecordReceipt, FreshProcess
  <2> QED
    BY <2>1, <2>2 DEF CallsTypeOK, Asking, Failed, KeysOf
<1>2. ASSUME NEW p \in Proc, NEW c \in CallSet, AgentCalls(p, c) PROVE Failures'
  <2>1. PICK k \in KeysOf(c) : Call(p, k)
    BY <1>2 DEF AgentCalls
  <2>2. /\ asked' = [asked EXCEPT ![p] = {[call |-> c, at |-> now]}]
        /\ cur' = [cur EXCEPT ![p] = {k}] /\ pc' = [pc EXCEPT ![p] = "forwarded"]
        /\ UNCHANGED <<failures, held, learned>>
    BY <1>2, <2>1 DEF AgentCalls, Call
  <2>3. CallsTypeOK'
    BY <1>0, <1>2, <2>2 DEF CallsTypeOK
  <2>4. ASSUME NEW q \in Proc
        PROVE  /\ pc'[q] \notin {"forwarded", "saving"} => asked'[q] = {}
               /\ \A a \in asked'[q] : cur'[q] \subseteq KeysOf(a.call)
               /\ pc'[q] = "saving" =>
                     \A a \in asked'[q], l \in cur'[q] : [key |-> l, at |-> a.at] \in held'[q]
    BY <1>0, <2>1, <2>2, <2>4 DEF Asking
  <2> QED
    BY <2>2, <2>3, <2>4 DEF Asking, Failed, KeysOf
<1>3. ASSUME NEW p \in Proc, NEW c \in CallSet, AgentBlocked(p, c) PROVE Failures'
  <2>1. UNCHANGED <<asked, failures, cur, held, learned>>
    BY <1>3 DEF AgentBlocked, CallBlocked, calling, history
  <2>2. \A q \in Proc : pc'[q] = pc[q] \/ (pc[q] \notin {"forwarded", "saving"}
                                             /\ pc'[q] \notin {"forwarded", "saving"})
    BY <1>0, <1>3 DEF AgentBlocked, CallBlocked
  <2> QED
    BY <2>1, <2>2 DEF CallsTypeOK, Asking, Failed, KeysOf
<1>4. ASSUME NEW p \in Proc, CallFails(p) PROVE Failures'
  <2>1. /\ asked' = [asked EXCEPT ![p] = {[call |-> a.call, at |-> now] : a \in @}]
        /\ pc' = [pc EXCEPT ![p] = "saving"] /\ UNCHANGED <<failures, cur, learned>>
    BY <1>4 DEF CallFails, AddConstraint, history
  <2>2. PICK old \in SUBSET Constraint :
           held' = [held EXCEPT ![p] = old \cup {[key |-> k, at |-> now] : k \in cur[p]}]
    <3>1. constraints \subseteq Constraint
      BY DEF TypeOK
    <3>2. PICK cs \in {constraints, {}} :
            held' = [held EXCEPT ![p] = {c \in cs : ~IsExpired(c)}
                                        \cup {[key |-> k, at |-> now] : k \in cur[p]}]
      BY <1>4 DEF CallFails, AddConstraint
    <3>3. {c \in cs : ~IsExpired(c)} \in SUBSET Constraint
      BY <3>1
    <3> QED
      BY <3>2, <3>3
  <2>3. CallsTypeOK'
    BY <1>0, <2>1 DEF CallsTypeOK
  <2>4. \A a \in asked'[p] : a.at = now /\ cur[p] \subseteq KeysOf(a.call)
    BY <1>0, <2>1 DEF Asking
  <2>5. ASSUME NEW q \in Proc
        PROVE  /\ pc'[q] \notin {"forwarded", "saving"} => asked'[q] = {}
               /\ \A a \in asked'[q] : cur'[q] \subseteq KeysOf(a.call)
               /\ pc'[q] = "saving" =>
                     \A a \in asked'[q], k \in cur'[q] : [key |-> k, at |-> a.at] \in held'[q]
    BY <1>0, <2>1, <2>2, <2>4, <2>5 DEF Asking
  <2> QED
    BY <2>1, <2>3, <2>5 DEF Asking, Failed, KeysOf
<1>5. ASSUME NEW p \in Proc, FailureSaved(p) PROVE Failures'
  <2>1. /\ asked' = [asked EXCEPT ![p] = {}] /\ pc[p] = "saving"
        /\ failures' = failures \cup {[call |-> a.call, key |-> k, at |-> a.at] :
                                        a \in asked[p], k \in cur[p]}
        /\ pc' = [pc EXCEPT ![p] = "recording"] /\ cur' = [cur EXCEPT ![p] = {}]
        /\ held' = [held EXCEPT ![p] = {}] /\ learned' = learned \cup held[p]
    BY <1>5 DEF FailureSaved, SaveConstraints
  <2>2. CallsTypeOK'
    BY <1>0, <2>1 DEF CallsTypeOK
  <2>3. Asking'
    BY <1>0, <2>1 DEF Asking, KeysOf
  <2>4. ASSUME NEW f \in failures' \ failures
        PROVE  f.key \in KeysOf(f.call) /\ [key |-> f.key, at |-> f.at] \in held[p]
    <3>1. PICK a \in asked[p], k \in cur[p] : f = [call |-> a.call, key |-> k, at |-> a.at]
      BY <2>1, <2>4
    <3> QED
      BY <2>1, <3>1 DEF Asking
  <2>5. Failed'
    BY <2>1, <2>4 DEF Failed, KeysOf
  <2> QED
    BY <2>2, <2>3, <2>5
<1>6. ASSUME NEW p \in Proc, CallForgotten(p) PROVE Failures'
  <2>1. /\ asked' = [asked EXCEPT ![p] = {}] /\ UNCHANGED <<failures, learned>>
        /\ cur' = [cur EXCEPT ![p] = {}]
        /\ \A q \in Proc \ {p} : pc'[q] = pc[q] /\ held'[q] = held[q]
    BY <1>0, <1>6 DEF CallForgotten, CallRefused, CallEnds, SaveConstraintsFails, Stop, history
  <2> QED
    BY <1>0, <2>1 DEF CallsTypeOK, Asking, Failed, KeysOf
<1>7. CASE UNCHANGED callsVars
  BY <1>7 DEF callsVars, vars, calling, history, CallsTypeOK, Asking, Failed, KeysOf
<1> QED
  BY <1>1, <1>2, <1>3, <1>4, <1>5, <1>6, <1>7 DEF CallsNext

\* A call that failed, and that leaves no choice of a target, is not forwarded
\* again while the constraint it left is there and can be read.
LEMMA NoRetry ==
  ASSUME TypeOK, Knowledge, Failures, [CallsNext]_callsVars,
         NEW p \in Proc, NEW c \in CallSet,
         Strict, ForwardsCall(p, c), Definite(c.args), faults' = faults
  PROVE  ~Remembered(c)
<1>0. /\ now \in Nat /\ Ttl \in Nat /\ faults \in Nat
      /\ asked \in [Proc -> SUBSET [call : CallSet, at : Nat]]
      /\ failures \subseteq [call : CallSet, key : Keys, at : Nat]
  BY BoundsTypes DEF TypeOK, Failures, CallsTypeOK
<1>1. AgentCalls(p, c)
  <2>1. asked[p] = {} /\ \E a \in asked'[p] : a.call = c
    BY DEF ForwardsCall
  <2>2. asked'[p] # asked[p] /\ asked'[p] # {}
    BY <2>1
  <2>3. ~UNCHANGED asked
    BY <2>2
  <2>4. PICK q \in Proc : (\E d \in CallSet : AgentCalls(q, d)) \/ CallFails(q)
                            \/ FailureSaved(q) \/ CallForgotten(q)
    BY <2>3 DEF CallsNext, Elsewhere, AgentBlocked, callsVars
  <2>5. CASE CallFails(q)
    BY <1>0, <2>1, <2>2, <2>5 DEF CallFails
  <2>6. CASE FailureSaved(q) \/ CallForgotten(q)
    BY <1>0, <2>2, <2>6 DEF FailureSaved, CallForgotten
  <2>7. ASSUME NEW d \in CallSet, AgentCalls(q, d) PROVE AgentCalls(p, c)
    <3>1. asked' = [asked EXCEPT ![q] = {[call |-> d, at |-> now]}]
      BY <2>7 DEF AgentCalls
    <3>2. q = p
      BY <1>0, <2>2, <3>1
    <3>3. d = c
      BY <1>0, <2>1, <3>1, <3>2
    <3> QED
      BY <2>7, <3>2, <3>3
  <2> QED
    BY <2>4, <2>5, <2>6, <2>7
<1>2. PICK k \in KeysOf(c) : Call(p, k)
  BY <1>1 DEF AgentCalls
<1>3. CheckConstraints(k, constraints)
  BY <1>0, <1>2 DEF Call, Loads, RunGates
<1>4. SUFFICES ASSUME NEW f \in failures, f.call = c, now <= f.at + Ttl,
                      [key |-> f.key, at |-> f.at] \notin excused
               PROVE  FALSE
  BY DEF Remembered
<1>5. f.key = k
  <2>1. PICK t : ExtractTarget(c.args) = {t}
    BY OneTarget, CallsAssumption
  <2> QED
    BY <1>2, <1>4, <2>1 DEF Failures, Failed, KeysOf
<1>6. [key |-> f.key, at |-> f.at] \in constraints
  BY <1>0, <1>4 DEF Failures, Failed, Knowledge, LearnedStays
<1> QED
  BY <1>0, <1>3, <1>4, <1>5, <1>6 DEF CheckConstraints, IsExpired

\* With arguments that name their target, a retry of a failed call is blocked
\* in strict mode, through restarts and in whichever process.
THEOREM RetriesBlocked == CallsSpec => RetryBlocked
<1>1. CallsInit => TypeOK /\ Knowledge /\ Failures
  <2> SUFFICES ASSUME CallsInit PROVE TypeOK /\ Knowledge /\ Failures
    OBVIOUS
  <2>1. TypeOK /\ Knowledge
    BY InitTypes DEF CallsInit, Init, Knowledge, LearnedStays
  <2>2. Failures
    BY DEF CallsInit, Failures, CallsTypeOK, Asking, Failed
  <2> QED
    BY <2>1, <2>2
<1>2. TypeOK /\ Knowledge /\ Failures /\ [CallsNext]_callsVars => (TypeOK /\ Knowledge /\ Failures)'
  BY CallsSteps, TypeStep, KnowledgeStep, FailuresStep
<1>3. TypeOK /\ Knowledge /\ Failures /\ [CallsNext]_callsVars
        => [\A p \in Proc, c \in CallSet :
              Strict /\ ForwardsCall(p, c) /\ Definite(c.args) /\ faults' = faults
                => ~Remembered(c)]_callsVars
  BY NoRetry
<1> QED
  BY <1>1, <1>2, <1>3, PTL DEF CallsSpec, RetryBlocked

=============================================================================
