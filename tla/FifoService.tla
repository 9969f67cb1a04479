---------------------------- MODULE FifoService ----------------------------
(***************************************************************************)
(* What the proxy promises to the agent, with every mechanism left out: a  *)
(* message taken from the agent is finished exactly once, in the order of  *)
(* arrival, with an outcome its kind allows.  A request ends with an       *)
(* answer, a notification or a reply to the upstream never does.           *)
(***************************************************************************)
EXTENDS Naturals, Sequences

CONSTANTS Msg,        \* messages an agent may send
          Outcome(_)  \* Outcome(m): the ways in which message m may be finished

VARIABLES backlog,    \* messages accepted and not finished, oldest first
          done        \* messages finished, with their outcomes, oldest first

fifoVars == <<backlog, done>>

FifoInit == /\ backlog = << >>
            /\ done = << >>

\* The agent hands over one more message.
Accept == /\ \E m \in Msg : backlog' = Append(backlog, m)
          /\ UNCHANGED done

\* The oldest message is finished.
Finish == /\ backlog # << >>
          /\ \E o \in Outcome(Head(backlog)) :
                done' = Append(done, [msg |-> Head(backlog), out |-> o])
          /\ backlog' = Tail(backlog)

FifoNext == Accept \/ Finish

FifoSpec == FifoInit /\ [][FifoNext]_fifoVars

\* No message stays in the backlog for ever.
FifoLiveSpec == FifoSpec /\ WF_fifoVars(Finish)
=============================================================================
