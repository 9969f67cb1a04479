----------------------------- MODULE Governance -----------------------------
(***************************************************************************)
(* What decides whether a tools/call goes through: the five gates          *)
(* (internal/governance), what handleInitialize and handleToolsCall of     *)
(* internal/proxy/proxy.go do to the state the gates read, and the two     *)
(* files of the state directory, authority.json and constraints.json, that *)
(* parallel processes read and replace without a lock (internal/state).    *)
(*                                                                         *)
(* A process handles one message at a time.  Where it touches a file, or   *)
(* waits for the upstream, another process may come in between.            *)
(***************************************************************************)
EXTENDS Naturals, Sequences, FiniteSets

CONSTANTS
  Proc,         \* proxy processes that share the state directory
  Keys,         \* tool and target of a call
  Modes,        \* cfg.Enforcement values to look at
  MaxCalls,     \* cfg.MaxCalls, 0 for unlimited
  MaxRepeat,    \* maxToolTargetCalls
  Window,       \* convergenceWindow, in ticks
  Ttl,          \* lifetime of a learned constraint, in ticks
  MaxTime,      \* bound: ticks
  MaxStarts,    \* bound: process starts
  MaxBumps,     \* bound: calls of governance_bump_authority
  MaxForwards,  \* bound: calls forwarded, over all processes
  MaxFaults     \* bound: reads and writes of the two files that fail

ASSUME GovernanceAssumption ==
  /\ Modes \subseteq {"strict", "advisory"}
  /\ {MaxCalls, MaxRepeat, Window, Ttl, MaxTime, MaxStarts, MaxBumps, MaxForwards, MaxFaults}
        \subseteq Nat

----------------------------------------------------------------------------
VARIABLES
  enforcement,  \* cfg.Enforcement
  now,          \* the wall clock
  starts,       \* number of process starts
  bumps,        \* number of bumps
  total,        \* number of calls forwarded
  faults,       \* number of faults
  file,         \* authority.json: what it holds, and whether it is there
  constraints,  \* constraints.json
  pc,           \* pc[p]: where process p is
  auth,         \* auth[p]: Proxy.authority
  count,        \* count[p]: Proxy.callCount
  times,        \* times[p][k]: ConvergenceTracker.toolCallCounts
  cur,          \* cur[p]: the call p has forwarded
  held,         \* held[p]: what AddConstraint is about to save
  forwarded,    \* history: calls p has forwarded since it started
  recent,       \* history: recent[p][k]: when p forwarded k, since it was initialized
  stale,        \* history: stale[p]: the bump that p owes an initialize for, if any
  owed,         \* history: a bump was granted and nobody who knows of it has
                \* saved an initialize since
  granted,      \* history: the highest epoch a bump was answered with
  behind,       \* history: processes that loaded the authority before another's bump
  regressed,    \* history: one of those has replaced authority.json
  learned,      \* history: constraints that were saved
  missed,       \* history: missed[p]: constraints held[p] does not know of
  excused       \* history: constraints lost to a save that did not know of them

clock    == <<enforcement, now>>
bounds   == <<starts, bumps, total, faults>>
session  == <<auth, count, times>>
calling  == <<cur, held, missed>>
history  == <<forwarded, recent, stale, owed, granted, behind, regressed, learned, excused>>
vars == <<clock, bounds, file, constraints, pc, session, calling, history>>

Strict == enforcement = "strict"

NewAuthority == [epoch |-> 1, active |-> 1, genesis |-> FALSE]
NoCalls      == [k \in Keys |-> << >>]

Init ==
  /\ enforcement \in Modes
  /\ now = 0 /\ starts = 0 /\ bumps = 0 /\ total = 0 /\ faults = 0
  /\ file = [there |-> FALSE, a |-> NewAuthority]
  /\ constraints = {}
  /\ pc = [p \in Proc |-> "off"]
  /\ auth = [p \in Proc |-> NewAuthority]
  /\ count = [p \in Proc |-> 0]
  /\ times = [p \in Proc |-> NoCalls]
  /\ cur = [p \in Proc |-> {}]
  /\ held = [p \in Proc |-> {}]
  /\ forwarded = [p \in Proc |-> 0]
  /\ recent = [p \in Proc |-> NoCalls]
  /\ stale = [p \in Proc |-> "no"]
  /\ owed = FALSE
  /\ granted = 1
  /\ behind = {}
  /\ regressed = FALSE
  /\ learned = {}
  /\ missed = [p \in Proc |-> {}]
  /\ excused = {}

----------------------------------------------------------------------------
(* The gates.                                                              *)

\* Variant: a constraint ends with its last tick, not after it.
IsExpiredAtTtl(c) == now >= c.at + Ttl

IsExpired(c) == now > c.at + Ttl

BudgetCheck(p) == MaxCalls = 0 \/ count[p] < MaxCalls

CheckConstraints(k, cs) == \A c \in cs : c.key = k => IsExpired(c)

CheckAuthority(p) == ~(auth[p].active < auth[p].epoch)

\* Variant: a call as old as the window is out of it.
PruneWindowInclusive(ts) ==
  LET start == Cardinality({i \in DOMAIN ts : ts[i] + Window <= now})
  IN  SubSeq(ts, start + 1, Len(ts))

\* The stamps are in order, so those that are too old are the first.
PruneWindow(ts) ==
  LET start == Cardinality({i \in DOMAIN ts : ts[i] + Window < now})
  IN  SubSeq(ts, start + 1, Len(ts))

\* Signal returns "exhausted".  "loop" it never returns to a gate, which asks
\* for no failure signature.
Exhausted(p, k) == Len(PruneWindow(times[p][k])) >= MaxRepeat

\* RunGates, for what LoadConstraints returned.  The schema gate stops a call
\* in whatever mode of enforcement (schemaOk); so does the budget.
RunGates(p, k, schemaOk, cs) ==
  /\ BudgetCheck(p)
  /\ schemaOk
  /\ Strict => /\ CheckConstraints(k, cs)
               /\ CheckAuthority(p)
               /\ ~Exhausted(p, k)

\* What LoadConstraints yields: an error is ignored, and is as good as no
\* constraints at all.
Loads(cs) == \/ cs = constraints /\ UNCHANGED faults
             \/ cs = {} /\ faults < MaxFaults /\ faults' = faults + 1

----------------------------------------------------------------------------
(* Starting and ending.                                                    *)

\* SaveAuthority of p's copy a.
Saves(p, a) ==
  /\ file' = [there |-> TRUE, a |-> a]
  /\ regressed' = (regressed \/ p \in behind)

\* The same of a process that may have initialized: with that in the file no
\* later start owes an initialize, unless p does not know of the bump.
SavesSession(p, a, initialized) ==
  /\ Saves(p, a)
  /\ owed' = (owed /\ (p \in behind \/ ~initialized))

SaveFails == /\ faults < MaxFaults
             /\ faults' = faults + 1
             /\ UNCHANGED <<file, owed, regressed>>

\* The hash of the first receipt is not known yet; p takes it and saves its
\* copy, an error being ignored.
SetsGenesis(p) ==
  /\ ~auth[p].genesis
  /\ auth' = [auth EXCEPT ![p].genesis = TRUE]
  /\ \/ SavesSession(p, auth'[p], stale[p] = "no") /\ UNCHANGED faults
     \/ SaveFails

KeepsGenesis == UNCHANGED <<auth, faults, file, owed, regressed>>

\* A start with a fresh memory; in Run the gates' state is all in it.
FreshProcess(p) ==
  /\ pc[p] = "off"
  /\ starts < MaxStarts
  /\ starts' = starts + 1
  /\ count' = [count EXCEPT ![p] = 0]
  /\ times' = [times EXCEPT ![p] = NoCalls]
  /\ forwarded' = [forwarded EXCEPT ![p] = 0]
  /\ recent' = [recent EXCEPT ![p] = NoCalls]
  /\ behind' = behind \ {p}

\* Variant: a start counts as a new session.
StartSyncs(p) ==
  /\ FreshProcess(p)
  /\ file.there
  /\ auth' = [auth EXCEPT ![p] = [file.a EXCEPT !.active = file.a.epoch]]
  /\ stale' = [stale EXCEPT ![p] = IF owed THEN "owing" ELSE "no"]
  /\ pc' = [pc EXCEPT ![p] = "loaded"]
  /\ UNCHANGED <<clock, bumps, total, faults, file, constraints, calling, owed, granted,
                 regressed, learned, excused>>

\* LoadOrCreateAuthority finds the file ...
Start(p) ==
  /\ FreshProcess(p)
  /\ file.there
  /\ auth' = [auth EXCEPT ![p] = file.a]
  /\ stale' = [stale EXCEPT ![p] = IF owed THEN "owing" ELSE "no"]
  /\ pc' = [pc EXCEPT ![p] = "loaded"]
  /\ UNCHANGED <<clock, bumps, total, faults, file, constraints, calling, owed, granted,
                 regressed, learned, excused>>

\* ... or does not, and saves a new one.
StartFirst(p) ==
  /\ FreshProcess(p)
  /\ ~file.there
  /\ auth' = [auth EXCEPT ![p] = NewAuthority]
  /\ stale' = [stale EXCEPT ![p] = "no"]
  /\ pc' = [pc EXCEPT ![p] = "creating"]
  /\ UNCHANGED <<clock, bumps, total, faults, file, constraints, calling, owed, granted,
                 regressed, learned, excused>>

CreateAuthority(p) ==
  /\ pc[p] = "creating"
  /\ SavesSession(p, auth[p], stale[p] = "no")
  /\ pc' = [pc EXCEPT ![p] = "loaded"]
  /\ UNCHANGED <<clock, bounds, constraints, session, calling, forwarded, recent, stale,
                 granted, behind, learned, excused>>

\* Run looks for a first receipt, if authority.json names none: there may be
\* some of other processes, or none.
FindGenesis(p) ==
  /\ pc[p] = "loaded"
  /\ SetsGenesis(p) \/ KeepsGenesis
  /\ pc' = [pc EXCEPT ![p] = "ready"]
  /\ UNCHANGED <<clock, starts, bumps, total, constraints, count, times, calling, forwarded, recent,
                 stale, granted, behind, learned, excused>>

\* The process ends or is killed, wherever it is.
Stop(p) ==
  /\ pc[p] # "off"
  /\ pc' = [pc EXCEPT ![p] = "off"]
  /\ auth' = [auth EXCEPT ![p] = NewAuthority]
  /\ stale' = [stale EXCEPT ![p] = "no"]
  /\ count' = [count EXCEPT ![p] = 0]
  /\ times' = [times EXCEPT ![p] = NoCalls]
  /\ cur' = [cur EXCEPT ![p] = {}]
  /\ held' = [held EXCEPT ![p] = {}]
  /\ missed' = [missed EXCEPT ![p] = {}]
  /\ forwarded' = [forwarded EXCEPT ![p] = 0]
  /\ recent' = [recent EXCEPT ![p] = NoCalls]
  /\ behind' = behind \ {p}
  /\ UNCHANGED <<clock, bounds, file, constraints, owed, granted, regressed, learned, excused>>

----------------------------------------------------------------------------
(* Sessions and epochs.                                                    *)

\* handleInitialize, when the response carries no error: SyncSession, save
\* (an error is ignored), Reset.  With an error, the timeout's included, and
\* when Send fails, nothing changes.
Initialize(p) ==
  /\ pc[p] = "ready"
  /\ auth' = [auth EXCEPT ![p].active = auth[p].epoch]
  /\ stale' = [stale EXCEPT ![p] = "no"]
  /\ \/ SavesSession(p, auth'[p], TRUE) /\ UNCHANGED faults
     \/ SaveFails
  /\ times' = [times EXCEPT ![p] = NoCalls]
  /\ recent' = [recent EXCEPT ![p] = NoCalls]
  /\ UNCHANGED <<clock, starts, bumps, total, constraints, pc, count, calling, forwarded,
                 granted, behind, learned, excused>>

\* Variant: the file is saved before the epoch moves on.
BumpAuthoritySavesFirst(p) ==
  /\ pc[p] = "ready"
  /\ bumps < MaxBumps
  /\ bumps' = bumps + 1
  /\ auth' = [auth EXCEPT ![p].epoch = @ + 1]
  /\ stale' = [stale EXCEPT ![p] = "bumped"]
  /\ \/ /\ Saves(p, auth[p])
        /\ owed' = TRUE
        /\ granted' = IF auth'[p].epoch > granted THEN auth'[p].epoch ELSE granted
        /\ behind' = behind \cup {q \in Proc \ {p} : pc[q] # "off"}
        /\ UNCHANGED faults
     \/ SaveFails /\ UNCHANGED <<granted, behind>>
  /\ UNCHANGED <<clock, starts, total, constraints, pc, count, times, calling, forwarded, recent,
                 learned, excused>>

\* governance_bump_authority.  The other processes keep the copy they have,
\* and when the save fails p keeps the new epoch all the same.
BumpAuthority(p) ==
  /\ pc[p] = "ready"
  /\ bumps < MaxBumps
  /\ bumps' = bumps + 1
  /\ auth' = [auth EXCEPT ![p].epoch = @ + 1]
  /\ stale' = [stale EXCEPT ![p] = "bumped"]
  /\ \/ /\ Saves(p, auth'[p])
        /\ owed' = TRUE
        /\ granted' = IF auth'[p].epoch > granted THEN auth'[p].epoch ELSE granted
        /\ behind' = behind \cup {q \in Proc \ {p} : pc[q] # "off"}
        /\ UNCHANGED faults
     \/ SaveFails /\ UNCHANGED <<granted, behind>>
  /\ UNCHANGED <<clock, starts, total, constraints, pc, count, times, calling, forwarded, recent,
                 learned, excused>>

----------------------------------------------------------------------------
(* handleToolsCall.                                                        *)

\* Variant: every call is recorded, the blocked ones too.
CallBlockedRecords(p, k) ==
  /\ pc[p] = "ready"
  /\ \E schemaOk \in BOOLEAN, cs \in {constraints, {}} :
       /\ Loads(cs)
       /\ ~RunGates(p, k, schemaOk, cs)
  /\ times' = [times EXCEPT ![p][k] = PruneWindow(Append(@, now))]
  /\ pc' = [pc EXCEPT ![p] = "recording"]
  /\ UNCHANGED <<clock, starts, bumps, total, file, constraints, auth, count, calling, history>>

\* A gate stops the call, or a mask before them, which leaves as little behind
\* as the schema gate.  Signal has pruned the stamps of k if it was asked.
CallBlocked(p, k) ==
  /\ pc[p] = "ready"
  /\ \E schemaOk \in BOOLEAN, cs \in {constraints, {}} :
       /\ Loads(cs)
       /\ ~RunGates(p, k, schemaOk, cs)
       /\ times' = IF BudgetCheck(p) /\ schemaOk /\ CheckConstraints(k, cs) /\ CheckAuthority(p)
                   THEN [times EXCEPT ![p][k] = PruneWindow(@)] ELSE times
  /\ pc' = [pc EXCEPT ![p] = "recording"]
  /\ UNCHANGED <<clock, starts, bumps, total, file, constraints, auth, count, calling, history>>

\* The call is counted and recorded before Send, and whatever becomes of it.
Call(p, k) ==
  /\ pc[p] = "ready"
  /\ total < MaxForwards
  /\ total' = total + 1
  /\ \E cs \in {constraints, {}} : Loads(cs) /\ RunGates(p, k, TRUE, cs)
  /\ count' = [count EXCEPT ![p] = @ + 1]
  /\ times' = [times EXCEPT ![p][k] = PruneWindow(Append(@, now))]
  /\ cur' = [cur EXCEPT ![p] = {k}]
  /\ pc' = [pc EXCEPT ![p] = "forwarded"]
  /\ forwarded' = [forwarded EXCEPT ![p] = @ + 1]
  /\ recent' = [recent EXCEPT ![p][k] = Append(@, now)]
  /\ UNCHANGED <<clock, starts, bumps, file, constraints, auth, held, missed, stale, owed,
                 granted, behind, regressed, learned, excused>>

\* Variant: a call whose Send failed is not charged.
CallRefusedRefunded(p) ==
  /\ pc[p] = "forwarded"
  /\ cur' = [cur EXCEPT ![p] = {}]
  /\ pc' = [pc EXCEPT ![p] = "ready"]
  /\ count' = [count EXCEPT ![p] = @ - 1]
  /\ UNCHANGED <<clock, bounds, file, constraints, auth, times, held, missed, history>>

\* Send failed: the handler returns there, without a receipt.
CallRefused(p) ==
  /\ pc[p] = "forwarded"
  /\ cur' = [cur EXCEPT ![p] = {}]
  /\ pc' = [pc EXCEPT ![p] = "ready"]
  /\ UNCHANGED <<clock, bounds, file, constraints, session, held, missed, history>>

\* Variant: the call stays open while it is recorded.
CallEndsKeepingIt(p) ==
  /\ pc[p] = "forwarded"
  /\ pc' = [pc EXCEPT ![p] = "recording"]
  /\ UNCHANGED <<clock, bounds, file, constraints, session, cur, held, missed, history>>

\* A success, or an error without a text: nothing is learned.
CallEnds(p) ==
  /\ pc[p] = "forwarded"
  /\ cur' = [cur EXCEPT ![p] = {}]
  /\ pc' = [pc EXCEPT ![p] = "recording"]
  /\ UNCHANGED <<clock, bounds, file, constraints, session, held, missed, history>>

\* An error, the proxy's "upstream timeout" included: AddConstraint loads the
\* file, drops what has expired and adds the failure ...
AddConstraint(p) ==
  /\ pc[p] = "forwarded"
  /\ \E cs \in {constraints, {}} :
       /\ Loads(cs)
       /\ held' = [held EXCEPT ![p] = {c \in cs : ~IsExpired(c)}
                                      \cup {[key |-> k, at |-> now] : k \in cur[p]}]
       /\ missed' = [missed EXCEPT ![p] = constraints \ cs]
  /\ pc' = [pc EXCEPT ![p] = "saving"]
  /\ UNCHANGED <<clock, starts, bumps, total, file, constraints, session, cur, history>>

\* Signal is asked again after a failure; for a loop it does not come to the
\* stamps of the call.
FailureSignal(p) ==
  \/ UNCHANGED times
  \/ times' = [times EXCEPT ![p] = [k \in Keys |-> IF k \in cur[p] THEN PruneWindow(@[k]) ELSE @[k]]]

\* ... and replaces the file.
SaveConstraints(p) ==
  /\ pc[p] = "saving"
  /\ constraints' = held[p]
  /\ learned' = learned \cup held[p]
  /\ excused' = excused \cup missed[p]
  /\ missed' = [q \in Proc |-> IF q = p THEN {}
                               ELSE IF pc[q] = "saving" THEN missed[q] \cup (held[p] \ held[q])
                               ELSE missed[q]]
  /\ held' = [held EXCEPT ![p] = {}]
  /\ FailureSignal(p)
  /\ cur' = [cur EXCEPT ![p] = {}]
  /\ pc' = [pc EXCEPT ![p] = "recording"]
  /\ UNCHANGED <<clock, bounds, file, auth, count, forwarded, recent, stale, owed,
                 granted, behind, regressed>>

\* The failure is not learned, and nobody is told.
SaveConstraintsFails(p) ==
  /\ pc[p] = "saving"
  /\ faults < MaxFaults
  /\ faults' = faults + 1
  /\ held' = [held EXCEPT ![p] = {}]
  /\ missed' = [missed EXCEPT ![p] = {}]
  /\ FailureSignal(p)
  /\ cur' = [cur EXCEPT ![p] = {}]
  /\ pc' = [pc EXCEPT ![p] = "recording"]
  /\ UNCHANGED <<clock, starts, bumps, total, file, constraints, auth, count, history>>

\* recordReceipt, for a blocked call as for one that was answered: the first
\* receipt of the process sets the genesis hash, unless Append fails.
RecordReceipt(p) ==
  /\ pc[p] = "recording"
  /\ \/ SetsGenesis(p)
     \/ auth[p].genesis /\ KeepsGenesis
     \/ /\ faults < MaxFaults
        /\ faults' = faults + 1
        /\ UNCHANGED <<auth, file, owed, regressed>>
  /\ pc' = [pc EXCEPT ![p] = "ready"]
  /\ UNCHANGED <<clock, starts, bumps, total, constraints, count, times, calling, forwarded, recent,
                 stale, granted, behind, learned, excused>>

Tick ==
  /\ now < MaxTime
  /\ now' = now + 1
  /\ UNCHANGED <<enforcement, bounds, file, constraints, pc, session, calling, history>>

----------------------------------------------------------------------------
SessionSteps(p) == Start(p) \/ StartFirst(p) \/ CreateAuthority(p) \/ FindGenesis(p)
                   \/ Initialize(p) \/ BumpAuthority(p) \/ Stop(p)

CallSteps(p) == \/ \E k \in Keys : Call(p, k) \/ CallBlocked(p, k)
                \/ CallRefused(p) \/ CallEnds(p)
                \/ AddConstraint(p) \/ SaveConstraints(p) \/ SaveConstraintsFails(p)
                \/ RecordReceipt(p)

Next == Tick \/ \E p \in Proc : SessionSteps(p) \/ CallSteps(p)

Spec == Init /\ [][Next]_vars

----------------------------------------------------------------------------
(* Properties.                                                             *)

Constraint == [key : Keys, at : Nat]
Authority  == [epoch : Nat, active : Nat, genesis : BOOLEAN]

TypeOK ==
  /\ enforcement \in Modes
  /\ now \in 0 .. MaxTime /\ starts \in 0 .. MaxStarts /\ bumps \in 0 .. MaxBumps
  /\ total \in 0 .. MaxForwards /\ faults \in 0 .. MaxFaults
  /\ file \in [there : BOOLEAN, a : Authority]
  /\ pc \in [Proc -> {"off", "creating", "loaded", "ready", "forwarded", "saving", "recording"}]
  /\ auth \in [Proc -> Authority]
  /\ count \in [Proc -> Nat]
  /\ times \in [Proc -> [Keys -> Seq(Nat)]]
  /\ cur \in [Proc -> SUBSET Keys]
  /\ held \in [Proc -> SUBSET Constraint]
  /\ constraints \subseteq Constraint
  /\ \A p \in Proc : pc[p] \in {"forwarded", "saving"} <=> cur[p] # {}
  /\ forwarded \in [Proc -> Nat]
  /\ recent \in [Proc -> [Keys -> Seq(Nat)]]
  /\ stale \in [Proc -> {"no", "bumped", "owing"}]
  /\ owed \in BOOLEAN
  /\ granted \in Nat
  /\ behind \subseteq Proc
  /\ regressed \in BOOLEAN
  /\ learned \subseteq Constraint
  /\ missed \in [Proc -> SUBSET Constraint]
  /\ excused \subseteq Constraint

Forwards(p, k) == recent'[p][k] = Append(recent[p][k], now)

\* A process forwards no more calls than its budget, though the count moves
\* before Send and some of the calls fail there.
BudgetHolds == \A p \in Proc : MaxCalls > 0 => forwarded[p] <= MaxCalls

\* In strict mode a process that has bumped the epoch forwards nothing until an
\* initialize of its own succeeds, whether its saves fail or not, and whatever
\* other processes do.  A bump that was granted (its save succeeded) goes on to
\* block every process started later, until one that knows of it has
\* initialized and saved.  What the code does not promise: the other processes
\* that run at that moment go on, a bump whose save failed ends with its
\* process, and one that a process with an older copy has written over is
\* forgotten.
NothingForwardedOutOfSync ==
  [][\A p \in Proc, k \in Keys :
        Strict /\ Forwards(p, k) =>
           /\ stale[p] # "bumped"
           /\ stale[p] = "owing" => regressed]_vars

\* A bump that was answered with an epoch is in the file, so that a crash does
\* not undo it, unless a process that had loaded an older one saved it again.
EpochKept == ~regressed => file.a.epoch >= granted

\* Forwards of k since initialize, in the window that ends now.
InWindow(p, k) == {i \in DOMAIN recent[p][k] : recent[p][k][i] + Window >= now}

\* In strict mode a process forwards a tool and target at most
\* maxToolTargetCalls times in any window of a session.
RepeatBound ==
  [][\A p \in Proc, k \in Keys :
        Strict /\ Forwards(p, k) => Cardinality(InWindow(p, k)) < MaxRepeat]_vars

\* The gate is closed only by calls that were forwarded: an agent that tries
\* again and again while it is blocked does not keep itself blocked.
ExhaustedOnlyByForwards ==
  \A p \in Proc, k \in Keys : Exhausted(p, k) => Cardinality(InWindow(p, k)) >= MaxRepeat

\* A constraint that was saved stays in the file to the end of its lifetime,
\* whatever the processes do, but for a save that could not know of it: its
\* load failed, or came before.
LearnedStays ==
  \A c \in learned : now <= c.at + Ttl => c \in constraints \cup excused

\* "Authority tracking with epochs -- a monotonic counter" (README.md): the
\* claim as the documentation makes it, the epoch of authority.json never falls.
EpochMonotone == [][file'.a.epoch >= file.a.epoch]_vars
=============================================================================
