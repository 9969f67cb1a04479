-------------------------------- MODULE Startup --------------------------------
(***************************************************************************)
(* Run of internal/proxy/proxy.go around the ledger: a process loads       *)
(* authority.json, opens and purges the ledger, and looks for the genesis  *)
(* hash before it serves anybody.  While authority.json names none, one    *)
(* line in any receipt file that cannot be read ends the start, and every  *)
(* later one: whether a session is to be had at all depends on what other  *)
(* sessions have written to the two.                                       *)
(*                                                                         *)
(* Of authority.json there is whether it names a genesis hash; the rest of *)
(* it is in Governance.                                                    *)
(***************************************************************************)
EXTENDS Ledger

VARIABLES
  authority, \* authority.json
  knows,     \* knows[p]: the copy of process p names a genesis hash
  run,       \* run[p]: where p is in Run
  refused,   \* history: processes whose last start has ended for want of it
  later,     \* history: processes that started after an accepted receipt
  lost       \* history: the genesis hash of an accepted receipt was not saved,
             \* or was replaced by a copy without it

startupVars == <<vars, authority, knows, run, refused, later, lost>>

StartupInit ==
  /\ Init
  /\ authority = "absent"
  /\ knows = [p \in Proc |-> FALSE]
  /\ run = [p \in Proc |-> "off"]
  /\ refused = {} /\ later = {}
  /\ lost = FALSE

Goes(p, from, to) == run[p] = from /\ run' = [run EXCEPT ![p] = to]

\* p replaces authority.json by its copy.
SaveAuthority(p) ==
  /\ authority' = IF knows'[p] THEN "set" ELSE "unset"
  /\ lost' = (lost \/ (authority = "set" /\ ~knows'[p]))

\* A save that fails is not noticed by anybody.
SaveFails == faults < MaxFaults /\ faults' = faults + 1 /\ UNCHANGED authority /\ lost' = TRUE

\* Somebody serves who has had a receipt accepted, in a file that was left alone.
Accepted == \E q \in Proc \ disturbed : committed[q] # {} /\ run[q] # "noting"

----------------------------------------------------------------------------
(* Starting.                                                               *)

LoadAuthority(p) ==
  /\ Goes(p, "off", IF authority = "absent" THEN "creating" ELSE "authority")
  /\ starts < MaxStarts
  /\ knows' = [knows EXCEPT ![p] = (authority = "set")]
  /\ refused' = refused \ {p}
  /\ later' = IF Accepted THEN later \cup {p} ELSE later \ {p}
  /\ UNCHANGED <<vars, authority, lost>>

\* Another process may have created it meanwhile.
CreateAuthority(p) ==
  /\ Goes(p, "creating", "authority")
  /\ UNCHANGED knows
  /\ SaveAuthority(p)
  /\ UNCHANGED <<vars, refused, later>>

OpenLedger(p) ==
  /\ Goes(p, "authority", "ledger")
  /\ \E purge \in BOOLEAN : Start(p, purge)
  /\ UNCHANGED <<authority, knows, refused, later, lost>>

Purges(p) ==
  /\ PurgeSteps(p)
  /\ UNCHANGED <<authority, knows, run, refused, later, lost>>

Unreadable == \E f \in files : ~Readable(lines[f])
Records    == \E f \in files : lines[f] # << >>

\* Nothing to look for, or nothing there.
SkipGenesis(p) ==
  /\ Goes(p, "ledger", "up")
  /\ pc[p] = "ready"
  /\ knows[p] \/ ~(Unreadable \/ Records)
  /\ UNCHANGED <<vars, authority, knows, refused, later, lost>>

FindGenesis(p) ==
  /\ Goes(p, "ledger", "up")
  /\ pc[p] = "ready"
  /\ ~knows[p] /\ ~Unreadable /\ Records
  /\ knows' = [knows EXCEPT ![p] = TRUE]
  /\ \/ SaveAuthority(p) /\ UNCHANGED faults
     \/ SaveFails
  /\ UNCHANGED <<now, starts, disk, pc, mem, calls, rec, fd, purging, committed, disturbed,
                 afresh, refused, later>>

\* Run returns an error.
RefuseStart(p) ==
  /\ Goes(p, "ledger", "off")
  /\ pc[p] = "ready"
  /\ ~knows[p] /\ Unreadable
  /\ Stop(p)
  /\ knows' = [knows EXCEPT ![p] = FALSE]
  /\ refused' = refused \cup {p}
  /\ UNCHANGED <<authority, later, lost>>

----------------------------------------------------------------------------
(* Serving.                                                                *)

\* An initialize or a bump.
SaveSession(p) ==
  /\ run[p] = "up"
  /\ pc[p] = "ready"
  /\ UNCHANGED knows
  /\ SaveAuthority(p)
  /\ UNCHANGED <<vars, run, refused, later>>

AppendBegins(p) ==
  /\ run[p] = "up"
  /\ Open(p) \/ Write(p)
  /\ UNCHANGED <<authority, knows, run, refused, later, lost>>

\* Variant: it asks for the number before the receipt.
AppendEndsBefore(p) ==
  /\ Sync(p) \/ SyncFails(p) \/ WriteFails(p)
  /\ run' = [run EXCEPT ![p] = IF mem[p].seq = 1 /\ ~knows[p] THEN "noting" ELSE @]
  /\ UNCHANGED <<authority, knows, refused, later, lost>>

\* Whether it was accepted or not, recordReceipt asks for the sequence number.
AppendEnds(p) ==
  /\ Sync(p) \/ SyncFails(p) \/ WriteFails(p)
  /\ run' = [run EXCEPT ![p] = IF mem'[p].seq = 1 /\ ~knows[p] THEN "noting" ELSE @]
  /\ UNCHANGED <<authority, knows, refused, later, lost>>

NoteGenesis(p) ==
  /\ Goes(p, "noting", "up")
  /\ knows' = [knows EXCEPT ![p] = TRUE]
  /\ \/ SaveAuthority(p) /\ UNCHANGED faults
     \/ SaveFails
  /\ UNCHANGED <<now, starts, disk, pc, mem, calls, rec, fd, purging, committed, disturbed,
                 afresh, refused, later>>

\* The process ends or is killed.
StopProcess(p) ==
  /\ run[p] # "off"
  /\ run' = [run EXCEPT ![p] = "off"]
  /\ knows' = [knows EXCEPT ![p] = FALSE]
  /\ lost' = (lost \/ run[p] = "noting")
  /\ IF Alive(p) THEN Stop(p) ELSE UNCHANGED vars
  /\ UNCHANGED <<authority, refused, later>>

----------------------------------------------------------------------------
StartSteps(p) == \/ LoadAuthority(p) \/ CreateAuthority(p) \/ OpenLedger(p) \/ Purges(p)
                 \/ SkipGenesis(p) \/ FindGenesis(p) \/ RefuseStart(p)

ServeSteps(p) == SaveSession(p) \/ AppendBegins(p) \/ AppendEnds(p) \/ NoteGenesis(p)

StartupNext ==
  \/ Tick /\ UNCHANGED <<authority, knows, run, refused, later, lost>>
  \/ \E p \in Proc : StartSteps(p) \/ ServeSteps(p) \/ StopProcess(p)

StartupSpec == StartupInit /\ [][StartupNext]_startupVars

----------------------------------------------------------------------------
(* Properties.                                                             *)

\* A start is refused only when a line was damaged, by a fault or by
\* processes that met in one file, never for anything processes do alone.
\* Once a receipt was accepted in an undisturbed file, a process that starts
\* later is not refused at all: unless the process that wrote it was killed or
\* its save failed before it had noted the genesis hash, or another one that
\* had started earlier replaced authority.json by its own copy.
RefusedOnlyIfDamaged ==
  [][refused' \subseteq refused \/
       /\ faults > 0 \/ disturbed # {}
       /\ refused' \cap later \subseteq refused \/ lost]_startupVars
================================================================================
