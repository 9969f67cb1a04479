--------------------------------- MODULE Calls ---------------------------------
(***************************************************************************)
(* The calls of an agent, as module Governance meets them: a call is a     *)
(* tool with arguments, the gates judge it by tool and target, and so does *)
(* what was learned when it failed (handleToolsCall of                     *)
(* internal/proxy/proxy.go over internal/classify/target.go).  An agent    *)
(* retries a call by sending it again, byte for byte.                      *)
(***************************************************************************)
EXTENDS Governance, Classification

CONSTANT CallSet   \* the calls agents make: records with a tool and arguments

ASSUME CallsAssumption ==
  \A c \in CallSet : /\ IsFiniteSet(DOMAIN c.args)
                    /\ \A t \in ExtractTarget(c.args) : <<c.tool, t>> \in Keys

VARIABLES
  asked,     \* asked[p]: the call p has forwarded, and when its failure was noted
  failures   \* history: calls whose failure is in a file that was saved

callsVars == <<vars, asked, failures>>

CallsInit == Init /\ asked = [p \in Proc |-> {}] /\ failures = {}

----------------------------------------------------------------------------
KeysOf(c) == {<<c.tool, t>> : t \in ExtractTarget(c.args)}

\* The target is extracted once, for the gates, the stamps and the constraint
\* alike.
AgentCalls(p, c) ==
  /\ \E k \in KeysOf(c) : Call(p, k)
  /\ asked' = [asked EXCEPT ![p] = {[call |-> c, at |-> now]}]
  /\ UNCHANGED failures

AgentBlocked(p, c) ==
  /\ \E k \in KeysOf(c) : CallBlocked(p, k)
  /\ UNCHANGED <<asked, failures>>

CallFails(p) ==
  /\ AddConstraint(p)
  /\ asked' = [asked EXCEPT ![p] = {[call |-> a.call, at |-> now] : a \in @}]
  /\ UNCHANGED failures

FailureSaved(p) ==
  /\ SaveConstraints(p)
  /\ failures' = failures \cup {[call |-> a.call, key |-> k, at |-> a.at] : a \in asked[p], k \in cur[p]}
  /\ asked' = [asked EXCEPT ![p] = {}]

\* Nothing is learned, and the process forgets the call.
CallForgotten(p) ==
  /\ CallRefused(p) \/ CallEnds(p) \/ SaveConstraintsFails(p) \/ Stop(p)
  /\ asked' = [asked EXCEPT ![p] = {}]
  /\ UNCHANGED failures

\* Everything else Governance does.
Elsewhere ==
  /\ \/ Tick
     \/ \E p \in Proc : \/ Start(p) \/ StartFirst(p) \/ CreateAuthority(p) \/ FindGenesis(p)
                        \/ Initialize(p) \/ BumpAuthority(p) \/ RecordReceipt(p)
  /\ UNCHANGED <<asked, failures>>

CallsNext ==
  \/ Elsewhere
  \/ \E p \in Proc : \/ \E c \in CallSet : AgentCalls(p, c) \/ AgentBlocked(p, c)
                     \/ CallFails(p) \/ FailureSaved(p) \/ CallForgotten(p)

CallsSpec == CallsInit /\ [][CallsNext]_callsVars

----------------------------------------------------------------------------
(* Properties.                                                             *)

\* p forwards c now.
ForwardsCall(p, c) == asked[p] = {} /\ \E a \in asked'[p] : a.call = c

\* What was learned of a failure of c is still to be kept: it has not expired
\* and no save that did not know of it has replaced the file.
Remembered(c) ==
  \E f \in failures : f.call = c /\ now <= f.at + Ttl /\ [key |-> f.key, at |-> f.at] \notin excused

\* In strict mode a call that failed is not forwarded again while its failure
\* is remembered, through restarts and by whichever process, if its arguments
\* leave no choice of a target and the file could be loaded.
RetryBlocked ==
  [][\A p \in Proc, c \in CallSet :
        Strict /\ ForwardsCall(p, c) /\ Definite(c.args) /\ faults' = faults => ~Remembered(c)]_callsVars

\* "fingerprinting failed calls and automatically blocking identical retries
\* within a TTL window" (README.md): the claim as the documentation makes it.
IdenticalRetryBlocked ==
  [][\A p \in Proc, c \in CallSet : Strict /\ ForwardsCall(p, c) => ~Remembered(c)]_callsVars
================================================================================
