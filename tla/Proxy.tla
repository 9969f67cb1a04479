------------------------------- MODULE Proxy -------------------------------
(***************************************************************************)
(* The message core of mcp-guardian: internal/proxy/proxy.go with the two  *)
(* goroutines that share Proxy.pending.                                    *)
(*                                                                         *)
(*   - the main goroutine (readAgent) takes one line of the agent at a     *)
(*     time and runs its whole handler before it reads the next one;       *)
(*   - the reader goroutine (readUpstream) matches what the upstream sends *)
(*     against the pending map.                                            *)
(*                                                                         *)
(* The agent, the upstream server and the transport between them are the   *)
(* environment.  What the gates decide is a choice here: their state is    *)
(* the subject of module Governance.                                       *)
(***************************************************************************)
EXTENDS Naturals, Sequences

CONSTANTS
  MaxReq,      \* bound: numbers of the requests of a session
  MaxMessages, \* bound: messages the agent sends in one session
  MaxAsks,     \* bound (0 or 1): requests the server itself sends
  MaxAnswers,  \* bound: responses the upstream sends to one request
  Ids,         \* JSON-RPC ids
  Id,          \* Id[n]: the id of the request with the number n
  MaxCalls     \* cfg.MaxCalls, 0 for unlimited

Req == 1 .. MaxReq

ASSUME BoundsAssumption == /\ MaxReq \in Nat \ {0}
                           /\ MaxMessages \in Nat
                           /\ MaxAsks \in {0, 1}
                           /\ MaxAnswers \in Nat
                           /\ MaxCalls \in Nat
ASSUME IdAssumption == Id \in [Req -> Ids]

----------------------------------------------------------------------------
(* Messages of the agent.  "call" is a tools/call, "opaque" a tools/call   *)
(* whose params do not parse, "meta" a call of a governance_* tool, and    *)
(* "relay" any other request (initialize, tools/list, ...).  A             *)
(* notification and the reply to a request of the server have no number.   *)

RequestKinds == {"call", "opaque", "meta", "relay"}
RawKinds     == {"opaque", "notify", "reply"}   \* handed to Send as they are
Kinds        == RequestKinds \cup {"notify", "reply"}

Msg == [kind : RequestKinds, n : Req] \cup [kind : {"notify", "reply"}, n : {0}]

IsRequest(m) == m.kind \in RequestKinds

(* What the handler holds for the agent: the response to request `of`      *)
(* received from the upstream, or a response the proxy makes itself.       *)

OwnResponses == {"timeout", "refused", "blocked", "local"}
Response == [how : {"upstream"}, of : Req] \cup [how : OwnResponses, of : {0}]
Own(h) == [how |-> h, of |-> 0]

(* The ways a message may end: a request gets a response of the upstream   *)
(* with its id (with ids of their own: the response to that very request), *)
(* or a response of the proxy; what is passed through, or lost on the way, *)
(* gets none from the proxy.                                               *)

Final == Response \cup {Own("passed"), Own("lost")}

Answers(m) == {[how |-> "upstream", of |-> k] : k \in {j \in Req : Id[j] = Id[m.n]}}

OwnOutcomes ==
  [meta   |-> {"local"},
   relay  |-> {"timeout", "refused"},
   call   |-> {"timeout", "refused", "blocked"},
   opaque |-> {"passed", "refused"},
   notify |-> {"passed", "lost"},
   reply  |-> {"passed", "lost"}]

Outcome(m) == {Own(h) : h \in OwnOutcomes[m.kind]}
              \cup (IF m.kind \in {"call", "relay"} THEN Answers(m) ELSE {})

----------------------------------------------------------------------------
VARIABLES
  stdin,      \* lines of the agent that the proxy has not read but will get to
  oversized,  \* behind them stands a line longer than the scanner's buffer
  sent,       \* the number of the agent's last request
  messages,   \* how many messages the agent has sent
  open,       \* the agent still holds the proxy's stdin open
  pc,         \* where the main goroutine is
  cur,        \* the message it is handling
  resp,       \* the response it holds for cur
  callCount,  \* Proxy.callCount
  reached,    \* the message being sent has reached the upstream
  pending,    \* Proxy.pending: id -> the request whose channel is registered
  chan,       \* chan[n]: the response in the channel of request n (capacity 1)
  rd,         \* the reader: where it is, what it carries, and for which channel
  up,         \* the upstream server is alive
  owed,       \* owed[n]: responses the upstream may still send to request n
  wire,       \* messages of the upstream on their way to the reader
  ask,        \* the server's own request: where it is
  settled,    \* history: messages the main goroutine is done with
  unsol,      \* history: requests whose response was forwarded unsolicited
  audited,    \* history: calls whose receipt was appended to the ledger
  unrecorded  \* history: calls whose receipt the ledger failed to append

agentVars == <<oversized, sent, messages, open>>
mainVars  == <<pc, cur, resp, callCount, reached>>
upVars    == <<up, owed>>
history   == <<settled, unsol, audited, unrecorded>>
vars == <<stdin, agentVars, mainVars, pending, chan, rd, upVars, wire, ask,
          history>>

Idle == [at |-> "read", m |-> 0, ch |-> 0]

Init ==
  /\ stdin = << >>
  /\ oversized = FALSE
  /\ sent = 0
  /\ messages = 0
  /\ open = TRUE
  /\ pc = "read"
  /\ cur = [kind |-> "notify", n |-> 0]
  /\ resp = Own("local")
  /\ callCount = 0
  /\ reached = FALSE
  /\ pending = [i \in Ids |-> 0]
  /\ chan = [n \in Req |-> 0]
  /\ rd = Idle
  /\ up = TRUE
  /\ owed = [n \in Req |-> 0]
  /\ wire = << >>
  /\ ask = "none"
  /\ settled = << >>
  /\ unsol = {}
  /\ audited = {}
  /\ unrecorded = {}

Running == pc # "exited"

----------------------------------------------------------------------------
(* The agent.  It may send a request before the earlier ones are answered, *)
(* and need not use every number, hence every id.  The scanner of readAgent *)
(* has a buffer of 1 MB: it stops for good at a longer line, so that what  *)
(* the agent sends behind one is never read.                               *)

Writes ==
  /\ Running
  /\ open
  /\ messages < MaxMessages
  /\ messages' = messages + 1
  /\ UNCHANGED <<open, mainVars, pending, chan, rd, upVars, wire, history>>

Sends(m) ==
  /\ Writes
  /\ ~oversized
  /\ stdin' = Append(stdin, m)
  /\ UNCHANGED oversized

\* A line too long for the scanner, or any line behind one: it may be the reply
\* the server waits for.
AgentUnread ==
  /\ Writes
  /\ oversized' = TRUE
  /\ ask' \in IF ask = "asked" THEN {"asked", "cut"} ELSE {ask}
  /\ UNCHANGED <<stdin, sent>>

AgentRequest(k, n) ==
  /\ n > sent
  /\ sent' = n
  /\ Sends([kind |-> k, n |-> n])
  /\ UNCHANGED ask

AgentNotify ==
  /\ Sends([kind |-> "notify", n |-> 0])
  /\ UNCHANGED <<sent, ask>>

\* The agent answers a request of the server (sampling, roots, ping).
AgentReply ==
  /\ ask = "asked"
  /\ ask' = "replied"
  /\ Sends([kind |-> "reply", n |-> 0])
  /\ UNCHANGED sent

AgentClose ==
  /\ open
  /\ open' = FALSE
  /\ UNCHANGED <<stdin, oversized, sent, messages, mainVars, pending, chan, rd, upVars, wire, ask, history>>

----------------------------------------------------------------------------
(* The main goroutine: readAgent, routeAgentMessage and the handlers.      *)

Take ==
  /\ pc = "read"
  /\ stdin # << >>
  /\ cur' = Head(stdin)
  /\ stdin' = Tail(stdin)

Settle(o) == settled' = Append(settled, [msg |-> cur, out |-> o])

\* Notifications, replies to the server, and tools/call with params that do
\* not parse go to Send as they are: no gate, no pending entry, no receipt.
RouteRaw ==
  /\ Take
  /\ cur'.kind \in RawKinds
  /\ pc' = "rawsend"
  /\ reached' = FALSE
  /\ UNCHANGED <<agentVars, resp, callCount, pending, chan, rd, upVars, wire, ask, history>>

\* A governance_* tool is answered by the proxy itself.
RouteMeta ==
  /\ Take
  /\ cur'.kind = "meta"
  /\ resp' = Own("local")
  /\ pc' = "answer"
  /\ UNCHANGED <<agentVars, callCount, reached, pending, chan, rd, upVars, wire, ask, history>>

\* Variant: the blocked call is answered without a receipt.
RouteBlockedSilently ==
  /\ Take
  /\ cur'.kind = "call"
  /\ resp' = Own("blocked")
  /\ pc' = "answer"
  /\ UNCHANGED <<agentVars, callCount, reached, pending, chan, rd, upVars, wire, ask, history>>

\* A masked tool, a spent budget, or any other gate stops the call.
RouteBlocked ==
  /\ Take
  /\ cur'.kind = "call"
  /\ resp' = Own("blocked")
  /\ pc' = "record"
  /\ UNCHANGED <<agentVars, callCount, reached, pending, chan, rd, upVars, wire, ask, history>>

\* Variant: only tools/call is registered.
RouteForwardUnregistered ==
  /\ Take
  /\ cur'.kind \in {"call", "relay"}
  /\ cur'.kind = "call" => (MaxCalls = 0 \/ callCount < MaxCalls)
  /\ callCount' = IF cur'.kind = "call" THEN callCount + 1 ELSE callCount
  /\ pending' = IF cur'.kind = "call" THEN [pending EXCEPT ![Id[cur'.n]] = cur'.n] ELSE pending
  /\ pc' = "send"
  /\ reached' = FALSE
  /\ UNCHANGED <<agentVars, resp, chan, rd, upVars, wire, ask, history>>

\* The call passed the gates and is counted, or the request has none; its
\* channel is registered before Send is called.
RouteForward ==
  /\ Take
  /\ cur'.kind \in {"call", "relay"}
  /\ cur'.kind = "call" => (MaxCalls = 0 \/ callCount < MaxCalls)
  /\ callCount' = IF cur'.kind = "call" THEN callCount + 1 ELSE callCount
  /\ pending' = [pending EXCEPT ![Id[cur'.n]] = cur'.n]
  /\ pc' = "send"
  /\ reached' = FALSE
  /\ UNCHANGED <<agentVars, resp, chan, rd, upVars, wire, ask, history>>

\* Inside Send the bytes reach the upstream at some moment ...
SendReaches ==
  /\ pc \in {"send", "rawsend"}
  /\ ~reached
  /\ up
  /\ reached' = TRUE
  /\ owed' = IF IsRequest(cur) THEN [owed EXCEPT ![cur.n] = MaxAnswers] ELSE owed
  /\ ask' = IF cur.kind = "reply" THEN "delivered" ELSE ask
  /\ UNCHANGED <<stdin, agentVars, pc, cur, resp, callCount, pending, chan, rd, up, wire, history>>

\* ... after which Send returns nil and forwardRequest starts its timer ...
SendReturns ==
  /\ pc = "send"
  /\ reached
  /\ pc' = "wait"
  /\ UNCHANGED <<stdin, agentVars, cur, resp, callCount, reached, pending, chan, rd, upVars, wire, ask, history>>

\* ... or, for a message sent as it is, the handler is done.
RawSendReturns ==
  /\ pc = "rawsend"
  /\ reached
  /\ Settle(Own("passed"))
  /\ pc' = "read"
  /\ UNCHANGED <<stdin, agentVars, cur, resp, callCount, reached, pending, chan, rd, upVars, wire, ask, unsol, audited, unrecorded>>

\* Send returns an error.  The message may have reached the upstream all the
\* same: the HTTP transport also fails while it reads the answer.  readAgent
\* turns the error into a -32603 response; handleToolsCall has returned
\* before it recorded a receipt.
SendFails ==
  /\ pc = "send"
  /\ pending' = [pending EXCEPT ![Id[cur.n]] = 0]
  /\ resp' = Own("refused")
  /\ pc' = "answer"
  /\ UNCHANGED <<stdin, agentVars, cur, callCount, reached, chan, rd, upVars, wire, ask, history>>

\* The same for a message sent as it is: only a request is answered.
RawSendFails ==
  /\ pc = "rawsend"
  /\ IF IsRequest(cur)
     THEN /\ resp' = Own("refused")
          /\ pc' = "answer"
          /\ UNCHANGED <<ask, settled>>
     ELSE /\ Settle(Own("lost"))
          /\ pc' = "read"
          /\ ask' = IF cur.kind = "reply" /\ ~reached THEN "lost" ELSE ask
          /\ UNCHANGED resp
  /\ UNCHANGED <<stdin, agentVars, cur, callCount, reached, pending, chan, rd, upVars, wire, unsol, audited, unrecorded>>

AfterWait == IF cur.kind = "call" THEN "record" ELSE "answer"

\* Variant: the select also takes from a channel that holds nothing.
ReceiveNothing ==
  /\ pc = "wait"
  /\ resp' = [how |-> "upstream", of |-> chan[cur.n]]
  /\ chan' = [chan EXCEPT ![cur.n] = 0]
  /\ pc' = AfterWait
  /\ UNCHANGED <<stdin, agentVars, cur, callCount, reached, pending, rd, upVars, wire, ask, history>>

\* The select of forwardRequest takes the response ...
Receive ==
  /\ pc = "wait"
  /\ chan[cur.n] # 0
  /\ resp' = [how |-> "upstream", of |-> chan[cur.n]]
  /\ chan' = [chan EXCEPT ![cur.n] = 0]
  /\ pc' = AfterWait
  /\ UNCHANGED <<stdin, agentVars, cur, callCount, reached, pending, rd, upVars, wire, ask, history>>

\* Variant: the timer leaves the entry in the map.
TimeoutLeavesEntry ==
  /\ pc = "wait"
  /\ resp' = Own("timeout")
  /\ pc' = AfterWait
  /\ UNCHANGED <<stdin, agentVars, cur, callCount, reached, pending, chan, rd, upVars, wire, ask, history>>

\* ... or the timer; with both ready it takes either.
Timeout ==
  /\ pc = "wait"
  /\ pending' = [pending EXCEPT ![Id[cur.n]] = 0]
  /\ resp' = Own("timeout")
  /\ pc' = AfterWait
  /\ UNCHANGED <<stdin, agentVars, cur, callCount, reached, chan, rd, upVars, wire, ask, history>>

\* recordReceipt appends the receipt of the call ...
RecordReceipt ==
  /\ pc = "record"
  /\ audited' = audited \cup {cur.n}
  /\ pc' = "answer"
  /\ UNCHANGED <<stdin, agentVars, cur, resp, callCount, reached, pending, chan, rd, upVars, wire, ask, settled, unsol, unrecorded>>

\* ... or Append fails, which is only logged: the answer leaves all the same.
RecordReceiptFails ==
  /\ pc = "record"
  /\ unrecorded' = unrecorded \cup {cur.n}
  /\ pc' = "answer"
  /\ UNCHANGED <<stdin, agentVars, cur, resp, callCount, reached, pending, chan, rd, upVars, wire, ask, settled, unsol, audited>>

WriteAnswer ==
  /\ pc = "answer"
  /\ Settle(resp)
  /\ pc' = "read"
  /\ UNCHANGED <<stdin, agentVars, cur, resp, callCount, reached, pending, chan, rd, upVars, wire, ask, unsol, audited, unrecorded>>

\* Variant: the proxy first waits until the upstream's output is drained.
ReadEOFDrained ==
  /\ pc = "read"
  /\ stdin = << >>
  /\ ~open \/ oversized
  /\ wire = << >>
  /\ pc' = "closing"
  /\ UNCHANGED <<stdin, agentVars, cur, resp, callCount, reached, pending, chan, rd, upVars, wire, ask, history>>

\* Variant: a line too long for the scanner is waited for like any other.
ReadEOFOnClose ==
  /\ pc = "read"
  /\ stdin = << >>
  /\ ~open
  /\ pc' = "closing"
  /\ UNCHANGED <<stdin, agentVars, cur, resp, callCount, reached, pending, chan, rd, upVars, wire, ask, history>>

\* Every line was read and the agent has closed stdin, or the next line is too
\* long for the scanner: Run returns (in the second case with the scanner's
\* error, and with whatever stands behind that line unread), and Close shuts
\* the upstream's stdin and waits for it.
ReadEOF ==
  /\ pc = "read"
  /\ stdin = << >>
  /\ ~open \/ oversized
  /\ pc' = "closing"
  /\ UNCHANGED <<stdin, agentVars, cur, resp, callCount, reached, pending, chan, rd, upVars, wire, ask, history>>

CloseReturns ==
  /\ pc = "closing"
  /\ ~up
  /\ pc' = "exited"
  /\ UNCHANGED <<stdin, agentVars, cur, resp, callCount, reached, pending, chan, rd, upVars, wire, ask, history>>

----------------------------------------------------------------------------
(* The reader goroutine: readUpstream.                                     *)

NextLine ==
  /\ Running
  /\ rd.at = "read"
  /\ wire # << >>
  /\ wire' = Tail(wire)

\* Variant: the entry stays until the handler removes it.
MatchResponseKept ==
  /\ NextLine
  /\ Head(wire) # 0
  /\ pending[Id[Head(wire)]] # 0
  /\ rd' = [at |-> "deliver", m |-> Head(wire), ch |-> pending[Id[Head(wire)]]]
  /\ UNCHANGED <<stdin, agentVars, mainVars, pending, chan, upVars, ask, history>>

\* Variant: whatever arrives is taken for the answer to the request in flight.
MatchResponseAnyId ==
  /\ NextLine
  /\ Head(wire) # 0
  /\ \E i \in Ids : /\ pending[i] # 0
                   /\ pending' = [pending EXCEPT ![i] = 0]
                   /\ rd' = [at |-> "deliver", m |-> Head(wire), ch |-> pending[i]]
  /\ UNCHANGED <<stdin, agentVars, mainVars, chan, upVars, ask, history>>

\* A response whose id is pending: the entry is removed under the mutex, the
\* response goes into the channel after the mutex is released.
MatchResponse ==
  /\ NextLine
  /\ Head(wire) # 0
  /\ LET i == Id[Head(wire)] IN
       /\ pending[i] # 0
       /\ pending' = [pending EXCEPT ![i] = 0]
       /\ rd' = [at |-> "deliver", m |-> Head(wire), ch |-> pending[i]]
  /\ UNCHANGED <<stdin, agentVars, mainVars, chan, upVars, ask, history>>

\* A response nobody waits for, a notification or a request of the server
\* goes to the agent as it is.
MatchNothing ==
  /\ NextLine
  /\ Head(wire) # 0 => pending[Id[Head(wire)]] = 0
  /\ rd' = [at |-> "forward", m |-> Head(wire), ch |-> 0]
  /\ UNCHANGED <<stdin, agentVars, mainVars, pending, chan, upVars, ask, history>>

\* The channel has room for one response: with one inside, the send blocks.
Deliver ==
  /\ Running
  /\ rd.at = "deliver"
  /\ chan[rd.ch] = 0
  /\ chan' = [chan EXCEPT ![rd.ch] = rd.m]
  /\ rd' = Idle
  /\ UNCHANGED <<stdin, agentVars, mainVars, pending, upVars, wire, ask, history>>

Forward ==
  /\ Running
  /\ rd.at = "forward"
  /\ unsol' = IF rd.m = 0 THEN unsol ELSE unsol \cup {rd.m}
  /\ ask' = IF rd.m = 0 THEN "asked" ELSE ask
  /\ rd' = Idle
  /\ UNCHANGED <<stdin, agentVars, mainVars, pending, chan, upVars, wire, settled, audited, unrecorded>>

\* End of the upstream's output, or a line longer than the scanner's buffer:
\* the goroutine ends and nobody starts it again.
ReaderStops ==
  /\ Running
  /\ rd.at = "read"
  /\ (~up /\ wire = << >>) \/ wire # << >>
  /\ rd' = [Idle EXCEPT !.at = "done"]
  /\ UNCHANGED <<stdin, agentVars, mainVars, pending, chan, upVars, wire, ask, history>>

----------------------------------------------------------------------------
(* The upstream server.  It may answer in any order, late, or never.       *)

UpstreamAnswers(n) ==
  /\ Running
  /\ up
  /\ owed[n] > 0
  /\ owed' = [owed EXCEPT ![n] = @ - 1]
  /\ wire' = Append(wire, n)
  /\ UNCHANGED <<stdin, agentVars, mainVars, pending, chan, rd, up, ask, history>>

\* The server sends a request of its own (0 on the wire).
UpstreamAsks ==
  /\ Running
  /\ up
  /\ ask = "none"
  /\ MaxAsks = 1
  /\ ask' = "sent"
  /\ wire' = Append(wire, 0)
  /\ UNCHANGED <<stdin, agentVars, mainVars, pending, chan, rd, upVars, history>>

UpstreamExits ==
  /\ Running
  /\ up
  /\ up' = FALSE
  /\ UNCHANGED <<stdin, agentVars, mainVars, pending, chan, rd, owed, wire, ask, history>>

----------------------------------------------------------------------------
SendEnds == SendReaches \/ SendReturns \/ RawSendReturns \/ SendFails \/ RawSendFails

\* Steps of the main goroutine that depend on nobody else.
MainSteps == RouteRaw \/ RouteMeta \/ RouteBlocked \/ RouteForward \/ Receive
             \/ Timeout \/ RecordReceipt \/ RecordReceiptFails \/ WriteAnswer
             \/ ReadEOF \/ CloseReturns

ReaderSteps == MatchResponse \/ MatchNothing \/ Deliver \/ Forward \/ ReaderStops

AgentSteps == (\E k \in RequestKinds, n \in Req : AgentRequest(k, n))
              \/ AgentNotify \/ AgentReply \/ AgentUnread \/ AgentClose

UpstreamSteps == (\E n \in Req : UpstreamAnswers(n)) \/ UpstreamAsks \/ UpstreamExits

\* The process is gone.
Exited == ~Running /\ UNCHANGED vars

Next == MainSteps \/ SendEnds \/ ReaderSteps \/ AgentSteps \/ UpstreamSteps \/ Exited

Spec == Init /\ [][Next]_vars

----------------------------------------------------------------------------
(* Fairness.  The goroutines are scheduled, the timer of forwardRequest     *)
(* fires, and Send comes back; the agent and the upstream owe nothing, but *)
(* for one thing: a server whose stdin was closed ends.                    *)

ProxyFairness == WF_vars(MainSteps) /\ WF_vars(ReaderSteps)

LiveSpec == Spec /\ ProxyFairness /\ WF_vars(SendEnds)
                 /\ WF_vars(pc = "closing" /\ UpstreamExits)

----------------------------------------------------------------------------
(* Properties.                                                             *)

TypeOK ==
  /\ stdin \in Seq(Msg)
  /\ oversized \in BOOLEAN
  /\ sent \in 0 .. MaxReq
  /\ messages \in 0 .. MaxMessages
  /\ open \in BOOLEAN
  /\ pc \in {"read", "send", "rawsend", "wait", "record", "answer", "closing", "exited"}
  /\ cur \in Msg
  /\ resp \in Response
  /\ callCount \in Nat
  /\ reached \in BOOLEAN
  /\ pending \in [Ids -> 0 .. MaxReq]
  /\ chan \in [Req -> 0 .. MaxReq]
  /\ rd \in [at : {"read", "forward", "done"}, m : 0 .. MaxReq, ch : {0}]
            \cup [at : {"deliver"}, m : Req, ch : Req]
  /\ up \in BOOLEAN
  /\ owed \in [Req -> 0 .. MaxAnswers]
  /\ wire \in Seq(0 .. MaxReq)
  /\ ask \in {"none", "sent", "asked", "replied", "cut", "delivered", "lost"}
  /\ settled \in Seq([msg : Msg, out : Final])
  /\ unsol \subseteq Req
  /\ audited \subseteq Req
  /\ unrecorded \subseteq Req

InFlight == pc \in {"send", "wait"}

\* An entry of the pending map belongs to the request that is being forwarded
\* at this moment: however Send, the response and the timer interleave, the
\* map is empty again when the handler goes on ("Channel removed from pending
\* on receive or timeout", architecture.md).
NoStalePending ==
  \A i \in Ids : pending[i] # 0 => InFlight /\ pending[i] = cur.n /\ i = Id[cur.n]

\* The reader, which serves every request, never blocks on the channel of
\* one: no channel is given two responses, even by a server that answers a
\* request twice.
ReaderNeverBlocks == rd.at = "deliver" => chan[rd.ch] = 0

\* The handler has given the request up, or never registered it.
GaveUp(n) ==
  \/ /\ pc \in {"rawsend", "record", "answer"}
     /\ cur.n = n
     /\ cur.kind = "opaque" \/ resp \in {Own("timeout"), Own("refused")}
  \/ \E i \in DOMAIN settled :
        /\ settled[i].msg.n = n
        /\ settled[i].out \in {Own("timeout"), Own("refused"), Own("passed")}

\* The waiter of request n has a response, or had one.
Served(n) ==
  \/ chan[n] # 0
  \/ rd.at = "deliver" /\ rd.ch = n
  \/ pc \in {"record", "answer"} /\ cur.n = n /\ resp.how = "upstream"
  \/ \E i \in DOMAIN settled : settled[i].msg.n = n /\ settled[i].out.how = "upstream"

\* A response of the upstream passes the handler by (no receipt outcome, no
\* learned constraint, no meta-tools in a tools/list) only when the handler has
\* given up on the request, or has a response to it already.
BypassOnlyAfterGiveUp == \A n \in unsol : GaveUp(n) \/ Served(n)

\* A tools/call is in the ledger before its answer leaves, with three
\* exceptions, all of them the code's own: Send returned an error (the handler
\* returns before recordReceipt, even if the upstream got the call), Append
\* failed (the error is logged and the answer leaves), and params that do not
\* parse (the call is passed through as it is).
ReceiptBeforeAnswer ==
  \A i \in DOMAIN settled :
     LET s == settled[i] IN
       /\ s.msg.kind = "call"
       /\ s.out # Own("refused")
       /\ s.msg.n \notin unrecorded
       => s.msg.n \in audited

\* The agent sees what FifoService promises: one outcome for each message, in
\* the order of the messages, and never the answer to another request.  The
\* promise is for the messages the scanner gets to: one that is too long for
\* it, and what is sent behind that one, is not accepted at all.
Fifo == INSTANCE FifoService WITH
  backlog <- (IF pc \in {"read", "closing", "exited"} THEN << >> ELSE <<cur>>) \o stdin,
  done    <- settled

RefinesFifo     == Fifo!FifoSpec
RefinesFifoLive == Fifo!FifoLiveSpec

\* A reply the agent owes to the server gets through, though the proxy reads
\* nothing while a call is in flight: at the latest the call's timeout frees
\* the main goroutine.  A server that waits for the reply before it answers
\* the call would otherwise wait for ever.  A reply that is too long for the
\* scanner, or stands behind a line that is, is never read; then the proxy
\* ends, and the server is not left waiting either.
ReplyGetsThrough ==
  /\ ask = "replied" ~> ask \in {"delivered", "lost"}
  /\ ask = "cut" ~> ~Running

\* When the agent closes its end, or sends a line the scanner cannot hold, the
\* process ends, whatever is still in flight.
EndsAfterClose == ~open \/ oversized ~> ~Running
=============================================================================
