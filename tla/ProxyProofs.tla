---------------------------- MODULE ProxyProofs ----------------------------
(***************************************************************************)
(* Theorems about module Proxy, for any number of requests, notifications  *)
(* and duplicate responses, and any choice of ids: its invariants, and     *)
(* that it implements FifoService.                                         *)
(***************************************************************************)
EXTENDS Proxy, SequenceTheorems, TLAPS

----------------------------------------------------------------------------
(* The inductive invariant.  NoStalePending and ReaderNeverBlocks are not  *)
(* inductive: that a channel is empty when its entry is matched holds      *)
(* because a request still in stdin has not used its channel yet.          *)

\* What the message in hand and the response in hand have to do with pc.
Stage ==
  /\ InFlight => cur.kind \in {"call", "relay"}
  /\ pc = "rawsend" => cur.kind \in RawKinds
  /\ pc = "record" => cur.kind = "call"
  /\ pc = "answer" => IsRequest(cur)

\* Request n has not been taken yet.
Untouched(n) ==
  /\ chan[n] = 0
  /\ rd.at = "deliver" => rd.ch # n
  /\ InFlight => cur.n # n

Queue ==
  /\ \A i \in DOMAIN stdin :
        IsRequest(stdin[i]) => stdin[i].n <= sent /\ Untouched(stdin[i].n)
  /\ \A i, j \in DOMAIN stdin :
        IsRequest(stdin[i]) /\ IsRequest(stdin[j]) /\ stdin[i].n = stdin[j].n => i = j
  /\ \A n \in Req : n > sent => Untouched(n)

\* A registered channel is empty, and the reader is not about to fill it.
Channels ==
  \A i \in Ids : pending[i] # 0 =>
     /\ chan[pending[i]] = 0
     /\ rd.at = "deliver" => rd.ch # pending[i]

IInv == TypeOK /\ NoStalePending /\ Stage /\ Queue /\ Channels /\ ReaderNeverBlocks

----------------------------------------------------------------------------
(* Facts about the constants.                                              *)

LEMMA Numbers == /\ 0 \in 0 .. MaxReq
                 /\ \A n \in Req : n \in 0 .. MaxReq /\ n # 0
                 /\ \A n \in 0 .. MaxReq : n # 0 => n \in Req
BY BoundsAssumption DEF Req

LEMMA RequestNumber == ASSUME NEW m \in Msg, IsRequest(m) PROVE m.n \in Req
BY DEF Msg, IsRequest, RequestKinds

LEMMA OwnTypes ==
  /\ Own("timeout") \in Response /\ Own("refused") \in Response
  /\ Own("blocked") \in Response /\ Own("local") \in Response
  /\ Own("passed") \in Final /\ Own("lost") \in Final
  /\ Response \subseteq Final
BY DEF Own, Response, OwnResponses, Final

LEMMA IdleType == /\ Idle \in [at : {"read", "forward", "done"}, m : 0 .. MaxReq, ch : {0}]
                  /\ Idle.at = "read"
BY Numbers DEF Idle

----------------------------------------------------------------------------
(* Type correctness, one lemma for the actions that need an argument.      *)

LEMMA InitTypes == Init => TypeOK
<1> SUFFICES ASSUME Init PROVE TypeOK
  OBVIOUS
<1>1. cur \in Msg
  BY DEF Init, Msg
<1>2. /\ resp \in Response
      /\ rd \in [at : {"read", "forward", "done"}, m : 0 .. MaxReq, ch : {0}]
  BY OwnTypes, IdleType DEF Init
<1>3. /\ pending \in [Ids -> 0 .. MaxReq]
      /\ chan \in [Req -> 0 .. MaxReq]
      /\ owed \in [Req -> 0 .. MaxAnswers]
  BY Numbers, BoundsAssumption DEF Init
<1>4. /\ stdin \in Seq(Msg) /\ wire \in Seq(0 .. MaxReq)
      /\ settled \in Seq([msg : Msg, out : Final])
      /\ sent \in 0 .. MaxReq /\ messages \in 0 .. MaxMessages
  BY BoundsAssumption DEF Init
<1> QED
  BY <1>1, <1>2, <1>3, <1>4 DEF Init, TypeOK

LEMMA TakeTypes ==
  ASSUME TypeOK, Take
  PROVE  /\ cur' \in Msg
         /\ stdin' \in Seq(Msg)
         /\ Len(stdin') = Len(stdin) - 1
         /\ \A i \in DOMAIN stdin' : i + 1 \in DOMAIN stdin /\ stdin'[i] = stdin[i + 1]
         /\ 1 \in DOMAIN stdin /\ cur' = stdin[1]
<1>1. stdin \in Seq(Msg) /\ stdin # << >>
  BY DEF TypeOK, Take
<1>2. /\ Head(stdin) \in Msg /\ Tail(stdin) \in Seq(Msg)
      /\ Len(Tail(stdin)) = Len(stdin) - 1
      /\ \A i \in 1 .. Len(Tail(stdin)) : Tail(stdin)[i] = stdin[i + 1]
  BY <1>1, HeadTailProperties
<1>3. Len(stdin) \in Nat /\ Len(stdin) # 0 /\ DOMAIN stdin = 1 .. Len(stdin)
  BY <1>1
<1>4. DOMAIN stdin' = 1 .. Len(stdin')
  BY <1>2 DEF Take
<1> QED
  BY <1>1, <1>2, <1>3, <1>4 DEF Take

LEMMA SettleTypes ==
  ASSUME TypeOK, NEW o \in Final, Settle(o)
  PROVE  settled' \in Seq([msg : Msg, out : Final])
BY AppendProperties DEF TypeOK, Settle

LEMMA WireTypes ==
  ASSUME TypeOK, NextLine
  PROVE  Head(wire) \in 0 .. MaxReq /\ wire' \in Seq(0 .. MaxReq)
<1>1. wire \in Seq(0 .. MaxReq) /\ wire # << >>
  BY DEF TypeOK, NextLine
<1> QED
  BY <1>1, HeadTailProperties DEF NextLine

LEMMA CurNumber ==
  ASSUME TypeOK, Stage, pc \in {"send", "wait", "record", "answer"}
  PROVE  cur.n \in Req
BY RequestNumber DEF TypeOK, Stage, InFlight, IsRequest, RequestKinds

LEMMA RouteTypes ==
  ASSUME TypeOK, RouteRaw \/ RouteMeta \/ RouteBlocked
  PROVE  TypeOK'
<1>1. cur' \in Msg /\ stdin' \in Seq(Msg)
  BY TakeTypes DEF RouteRaw, RouteMeta, RouteBlocked
<1>2. resp' \in Response
  BY OwnTypes DEF TypeOK, RouteRaw, RouteMeta, RouteBlocked
<1>3. CASE RouteRaw
  BY <1>1, <1>2, <1>3 DEF TypeOK, RouteRaw, agentVars, mainVars, upVars, history
<1>4. CASE RouteMeta
  BY <1>1, <1>2, <1>4 DEF TypeOK, RouteMeta, agentVars, mainVars, upVars, history
<1>5. CASE RouteBlocked
  BY <1>1, <1>2, <1>5 DEF TypeOK, RouteBlocked, agentVars, mainVars, upVars, history
<1> QED
  BY <1>3, <1>4, <1>5

LEMMA RouteForwardTypes == ASSUME TypeOK, RouteForward PROVE TypeOK'
<1>1. cur' \in Msg /\ stdin' \in Seq(Msg)
  BY TakeTypes DEF RouteForward
<1>2. cur'.n \in Req
  BY <1>1, RequestNumber DEF RouteForward, IsRequest, RequestKinds
<1>3. pending' \in [Ids -> 0 .. MaxReq]
  BY <1>2, Numbers DEF TypeOK, RouteForward
<1>4. callCount' \in Nat
  BY DEF TypeOK, RouteForward
<1> QED
  BY <1>1, <1>3, <1>4 DEF TypeOK, RouteForward, agentVars, mainVars, upVars, history

LEMMA SendTypes ==
  ASSUME TypeOK, Stage, SendReaches \/ SendReturns \/ RawSendReturns \/ SendFails
  PROVE  TypeOK'
<1>1. CASE SendReaches
  <2>1. owed' \in [Req -> 0 .. MaxAnswers]
    <3>1. MaxAnswers \in 0 .. MaxAnswers
      BY BoundsAssumption
    <3>2. owed \in [Req -> 0 .. MaxAnswers]
      BY DEF TypeOK
    <3> QED
      BY <1>1, <3>1, <3>2 DEF SendReaches
  <2> QED
    BY <1>1, <2>1 DEF TypeOK, SendReaches, agentVars, mainVars, upVars, history
<1>2. CASE SendReturns
  BY <1>2 DEF TypeOK, SendReturns, agentVars, mainVars, upVars, history
<1>3. CASE RawSendReturns
  <2>1. settled' \in Seq([msg : Msg, out : Final])
    BY <1>3, OwnTypes, SettleTypes DEF RawSendReturns
  <2> QED
    BY <1>3, <2>1 DEF TypeOK, RawSendReturns, agentVars, mainVars, upVars, history
<1>4. CASE SendFails
  <2>1. pending' \in [Ids -> 0 .. MaxReq]
    BY <1>4, Numbers DEF TypeOK, SendFails
  <2> QED
    BY <1>4, <2>1, OwnTypes DEF TypeOK, SendFails, agentVars, mainVars, upVars, history
<1> QED
  BY <1>1, <1>2, <1>3, <1>4

LEMMA RawSendFailsTypes == ASSUME TypeOK, RawSendFails PROVE TypeOK'
<1>1. resp' \in Response
  BY OwnTypes DEF TypeOK, RawSendFails
<1>2. settled' \in Seq([msg : Msg, out : Final])
  BY OwnTypes, SettleTypes DEF TypeOK, RawSendFails
<1> QED
  BY <1>1, <1>2 DEF TypeOK, RawSendFails, agentVars, mainVars, upVars, history

LEMMA WaitTypes ==
  ASSUME TypeOK, Stage, Receive \/ Timeout
  PROVE  TypeOK'
<1>1. CASE Receive
  <2>1. cur.n \in Req
    BY <1>1, CurNumber DEF Receive
  <2>2. resp' \in Response
    BY <1>1, <2>1, Numbers DEF TypeOK, Receive, Response
  <2>3. chan' \in [Req -> 0 .. MaxReq]
    BY <1>1, Numbers DEF TypeOK, Receive
  <2> QED
    BY <1>1, <2>2, <2>3 DEF TypeOK, Receive, AfterWait, agentVars, mainVars, upVars, history
<1>2. CASE Timeout
  <2>1. pending' \in [Ids -> 0 .. MaxReq]
    BY <1>2, Numbers DEF TypeOK, Timeout
  <2> QED
    BY <1>2, <2>1, OwnTypes DEF TypeOK, Timeout, AfterWait, agentVars, mainVars, upVars, history
<1> QED
  BY <1>1, <1>2

LEMMA FinishTypes ==
  ASSUME TypeOK, Stage, RecordReceipt \/ RecordReceiptFails \/ WriteAnswer \/ ReadEOF \/ CloseReturns
  PROVE  TypeOK'
<1>1. CASE RecordReceipt
  <2>1. cur.n \in Req
    BY <1>1, CurNumber DEF RecordReceipt
  <2> QED
    BY <1>1, <2>1 DEF TypeOK, RecordReceipt, agentVars, mainVars, upVars, history
<1>5. CASE RecordReceiptFails
  <2>1. cur.n \in Req
    BY <1>5, CurNumber DEF RecordReceiptFails
  <2> QED
    BY <1>5, <2>1 DEF TypeOK, RecordReceiptFails, agentVars, mainVars, upVars, history
<1>2. CASE WriteAnswer
  <2>1. resp \in Final
    BY OwnTypes DEF TypeOK
  <2>2. settled' \in Seq([msg : Msg, out : Final])
    BY <1>2, <2>1, SettleTypes DEF WriteAnswer
  <2> QED
    BY <1>2, <2>2 DEF TypeOK, WriteAnswer, agentVars, mainVars, upVars, history
<1>3. CASE ReadEOF
  BY <1>3 DEF TypeOK, ReadEOF, agentVars, mainVars, upVars, history
<1>4. CASE CloseReturns
  BY <1>4 DEF TypeOK, CloseReturns, agentVars, mainVars, upVars, history
<1> QED
  BY <1>1, <1>2, <1>3, <1>4, <1>5

LEMMA MatchTypes ==
  ASSUME TypeOK, MatchResponse \/ MatchNothing
  PROVE  TypeOK'
<1>1. Head(wire) \in 0 .. MaxReq /\ wire' \in Seq(0 .. MaxReq)
  BY WireTypes DEF MatchResponse, MatchNothing
<1>2. CASE MatchResponse
  <2>1. Head(wire) \in Req
    BY <1>1, <1>2, Numbers DEF MatchResponse
  <2>2. Id[Head(wire)] \in Ids
    BY <2>1, IdAssumption
  <2>3. pending[Id[Head(wire)]] \in Req
    BY <1>2, <2>2, Numbers DEF TypeOK, MatchResponse
  <2>4. rd' \in [at : {"deliver"}, m : Req, ch : Req]
    BY <1>2, <2>1, <2>3 DEF MatchResponse
  <2>5. pending' \in [Ids -> 0 .. MaxReq]
    BY <1>2, Numbers DEF TypeOK, MatchResponse
  <2> QED
    BY <1>1, <1>2, <2>4, <2>5 DEF TypeOK, MatchResponse, agentVars, mainVars, upVars, history
<1>3. CASE MatchNothing
  <2>1. rd' \in [at : {"read", "forward", "done"}, m : 0 .. MaxReq, ch : {0}]
    BY <1>1, <1>3 DEF MatchNothing
  <2> QED
    BY <1>1, <1>3, <2>1 DEF TypeOK, MatchNothing, agentVars, mainVars, upVars, history
<1> QED
  BY <1>2, <1>3

LEMMA ReaderTypes ==
  ASSUME TypeOK, Deliver \/ Forward \/ ReaderStops
  PROVE  TypeOK'
<1>1. CASE Deliver
  <2>1. rd.m \in Req /\ rd.ch \in Req
    BY <1>1 DEF TypeOK, Deliver
  <2>2. chan' \in [Req -> 0 .. MaxReq]
    BY <1>1, <2>1, Numbers DEF TypeOK, Deliver
  <2> QED
    BY <1>1, <2>2, IdleType DEF TypeOK, Deliver, agentVars, mainVars, upVars, history
<1>2. CASE Forward
  <2>1. rd.m \in 0 .. MaxReq
    BY <1>2, Numbers DEF TypeOK, Forward
  <2>2. unsol' \subseteq Req
    BY <1>2, <2>1, Numbers DEF TypeOK, Forward
  <2> QED
    BY <1>2, <2>2, IdleType DEF TypeOK, Forward, agentVars, mainVars, upVars, history
<1>3. CASE ReaderStops
  <2>1. rd' \in [at : {"read", "forward", "done"}, m : 0 .. MaxReq, ch : {0}]
    BY <1>3, IdleType DEF ReaderStops
  <2> QED
    BY <1>3, <2>1 DEF TypeOK, ReaderStops, agentVars, mainVars, upVars, history
<1> QED
  BY <1>1, <1>2, <1>3

LEMMA AgentTypes == ASSUME TypeOK, AgentSteps PROVE TypeOK'
<1>0. ASSUME NEW m \in Msg, Sends(m)
      PROVE  stdin' \in Seq(Msg) /\ messages' \in 0 .. MaxMessages
  BY <1>0, AppendProperties, BoundsAssumption DEF TypeOK, Sends, Writes
<1>1. ASSUME NEW k \in RequestKinds, NEW n \in Req, AgentRequest(k, n) PROVE TypeOK'
  <2>1. [kind |-> k, n |-> n] \in Msg
    BY DEF Msg
  <2>2. sent' \in 0 .. MaxReq
    BY <1>1, Numbers DEF AgentRequest
  <2> QED
    BY <1>0, <1>1, <2>1, <2>2 DEF TypeOK, AgentRequest, Sends, Writes, mainVars, upVars, history
<1>2. [kind |-> "notify", n |-> 0] \in Msg /\ [kind |-> "reply", n |-> 0] \in Msg
  BY DEF Msg
<1>3. CASE AgentNotify
  BY <1>0, <1>2, <1>3 DEF TypeOK, AgentNotify, Sends, Writes, mainVars, upVars, history
<1>4. CASE AgentReply
  BY <1>0, <1>2, <1>4 DEF TypeOK, AgentReply, Sends, Writes, Writes, mainVars, upVars, history
<1>5. CASE AgentUnread
  <2>1. messages' \in 0 .. MaxMessages
    BY <1>5, BoundsAssumption DEF TypeOK, AgentUnread, Writes
  <2>2. ask' \in {"none", "sent", "asked", "replied", "cut", "delivered", "lost"}
    BY <1>5 DEF TypeOK, AgentUnread
  <2> QED
    BY <1>5, <2>1, <2>2 DEF TypeOK, AgentUnread, Writes, mainVars, upVars, history
<1>6. CASE AgentClose
  <2>1. open' \in BOOLEAN
    BY <1>6 DEF AgentClose
  <2> QED
    BY <1>6, <2>1 DEF TypeOK, AgentClose, agentVars, mainVars, upVars, history
<1> QED
  BY <1>1, <1>3, <1>4, <1>5, <1>6 DEF AgentSteps

LEMMA UpstreamTypes == ASSUME TypeOK, UpstreamSteps PROVE TypeOK'
<1>1. ASSUME NEW r \in Req, UpstreamAnswers(r) PROVE TypeOK'
  <2>1. owed' \in [Req -> 0 .. MaxAnswers]
    BY <1>1, BoundsAssumption DEF TypeOK, UpstreamAnswers
  <2>2. wire' \in Seq(0 .. MaxReq)
    BY <1>1, Numbers, AppendProperties DEF TypeOK, UpstreamAnswers
  <2> QED
    BY <1>1, <2>1, <2>2 DEF TypeOK, UpstreamAnswers, agentVars, mainVars, upVars, history
<1>2. CASE UpstreamAsks
  <2>1. wire' \in Seq(0 .. MaxReq)
    BY <1>2, Numbers, AppendProperties DEF TypeOK, UpstreamAsks
  <2> QED
    BY <1>2, <2>1 DEF TypeOK, UpstreamAsks, agentVars, mainVars, upVars, history
<1>3. CASE UpstreamExits
  <2>1. up' \in BOOLEAN
    BY <1>3 DEF UpstreamExits
  <2> QED
    BY <1>3, <2>1 DEF TypeOK, UpstreamExits, agentVars, mainVars, upVars, history
<1> QED
  BY <1>1, <1>2, <1>3 DEF UpstreamSteps

LEMMA TypeStep == ASSUME TypeOK, Stage, [Next]_vars PROVE TypeOK'
<1>1. CASE UNCHANGED vars
  BY <1>1 DEF TypeOK, vars, agentVars, mainVars, upVars, history
<1>2. CASE MainSteps
  BY <1>2, RouteTypes, RouteForwardTypes, WaitTypes, FinishTypes DEF MainSteps
<1>3. CASE SendEnds
  BY <1>3, SendTypes, RawSendFailsTypes DEF SendEnds
<1>4. CASE ReaderSteps
  BY <1>4, MatchTypes, ReaderTypes DEF ReaderSteps
<1> QED
  BY <1>1, <1>2, <1>3, <1>4, AgentTypes, UpstreamTypes DEF Next, Exited

----------------------------------------------------------------------------
(* Who touches what.  Most actions leave the queue, the map, the channels  *)
(* and the request in flight alone; the lemmas below take them by kind.    *)

Shared == NoStalePending /\ Queue /\ Channels /\ ReaderNeverBlocks

\* An action that changes none of them keeps the invariant.
LEMMA Frame ==
  ASSUME Shared, UNCHANGED <<stdin, sent, pending, chan>>,
         rd'.at = "deliver" => rd' = rd,
         InFlight' <=> InFlight,
         InFlight => cur' = cur
  PROVE  Shared'
<1>1. NoStalePending'
  BY DEF Shared, NoStalePending
<1>2. ASSUME NEW n, Untouched(n) PROVE Untouched(n)'
  BY <1>2 DEF Untouched
<1>3. Queue'
  BY <1>2 DEF Shared, Queue
<1>4. Channels'
  BY DEF Shared, Channels
<1>5. ReaderNeverBlocks'
  BY DEF Shared, ReaderNeverBlocks
<1> QED
  BY <1>1, <1>3, <1>4, <1>5 DEF Shared

\* With nothing in flight the map is empty.
LEMMA EmptyMap == ASSUME Shared, ~InFlight, NEW i \in Ids PROVE pending[i] = 0
BY DEF Shared, NoStalePending

\* A message that is not forwarded leaves the queue.
LEMMA RouteFrame ==
  ASSUME TypeOK, Shared, RouteRaw \/ RouteMeta \/ RouteBlocked
  PROVE  Shared'
<1>1. /\ Take /\ ~InFlight /\ ~InFlight'
      /\ UNCHANGED <<sent, pending, chan, rd>>
  BY DEF RouteRaw, RouteMeta, RouteBlocked, Take, InFlight, agentVars
<1>2. ASSUME NEW n, Untouched(n) PROVE Untouched(n)'
  BY <1>1, <1>2 DEF Untouched
<1>3. Queue'
  <2>1. \A i \in DOMAIN stdin' :
           IsRequest(stdin'[i]) => stdin'[i].n <= sent /\ Untouched(stdin'[i].n)
    BY <1>1, TakeTypes DEF Shared, Queue
  <2>2. ASSUME NEW i \in DOMAIN stdin', NEW j \in DOMAIN stdin',
               IsRequest(stdin'[i]), IsRequest(stdin'[j]), stdin'[i].n = stdin'[j].n
        PROVE  i = j
    <3>1. i + 1 = j + 1
      BY <1>1, <2>2, TakeTypes DEF Shared, Queue
    <3>2. i \in Int /\ j \in Int
      BY <1>1, <2>2, TakeTypes
    <3> QED
      BY <3>1, <3>2
  <2> QED
    BY <1>1, <1>2, <2>1, <2>2 DEF Shared, Queue, IsRequest
<1>4. NoStalePending' /\ Channels' /\ ReaderNeverBlocks'
  BY <1>1 DEF Shared, NoStalePending, Channels, ReaderNeverBlocks
<1> QED
  BY <1>3, <1>4 DEF Shared

\* A request that is forwarded leaves the queue and registers its channel,
\* which nobody has used.
LEMMA ForwardFrame ==
  ASSUME TypeOK, Shared, RouteForward
  PROVE  Shared'
<1>1. /\ Take /\ ~InFlight
      /\ UNCHANGED <<sent, chan, rd>>
      /\ pending' = [pending EXCEPT ![Id[cur'.n]] = cur'.n]
  BY DEF RouteForward, Take, InFlight, agentVars
<1>2. IsRequest(cur') /\ cur' \in Msg /\ InFlight'
  BY <1>1, TakeTypes DEF RouteForward, InFlight, IsRequest, RequestKinds
<1>3. cur'.n \in Req /\ Id[cur'.n] \in Ids
  BY <1>2, RequestNumber, IdAssumption
<1>4. cur'.n <= sent /\ Untouched(cur'.n)
  BY <1>1, <1>2, TakeTypes DEF Shared, Queue
<1>5. ASSUME NEW n, Untouched(n), n # cur'.n PROVE Untouched(n)'
  BY <1>1, <1>5 DEF Untouched
<1>6. Queue'
  <2>1. ASSUME NEW i \in DOMAIN stdin', IsRequest(stdin'[i])
        PROVE  /\ stdin'[i].n <= sent /\ Untouched(stdin'[i].n)
               /\ stdin'[i].n # cur'.n
    <3>1. /\ i + 1 \in DOMAIN stdin /\ stdin'[i] = stdin[i + 1]
          /\ 1 \in DOMAIN stdin /\ cur' = stdin[1]
      BY <1>1, <2>1, TakeTypes
    <3>2. i \in DOMAIN stdin' /\ DOMAIN stdin' = 1 .. Len(stdin') /\ Len(stdin') \in Nat
      BY <1>1, <2>1, TakeTypes
    <3>3. i + 1 # 1
      BY <3>2
    <3> QED
      BY <1>2, <2>1, <3>1, <3>3 DEF Shared, Queue
  <2>2. ASSUME NEW i \in DOMAIN stdin', NEW j \in DOMAIN stdin',
               IsRequest(stdin'[i]), IsRequest(stdin'[j]), stdin'[i].n = stdin'[j].n
        PROVE  i = j
    <3>1. i + 1 = j + 1
      BY <1>1, <2>2, TakeTypes DEF Shared, Queue
    <3>2. i \in Int /\ j \in Int
      BY <1>1, <2>2, TakeTypes
    <3> QED
      BY <3>1, <3>2
  <2>3. \A n \in Req : n > sent => n # cur'.n /\ Untouched(n)
    <3>1. sent \in Nat /\ cur'.n \in Nat
      BY <1>3, BoundsAssumption DEF TypeOK, Req
    <3> QED
      BY <1>4, <3>1 DEF Shared, Queue, Req
  <2> QED
    BY <1>1, <1>5, <2>1, <2>2, <2>3 DEF Queue, IsRequest
<1>7. \A i \in Ids : pending'[i] # 0 => i = Id[cur'.n] /\ pending'[i] = cur'.n
  BY <1>1, <1>3, EmptyMap DEF TypeOK
<1>8. NoStalePending'
  BY <1>2, <1>7 DEF NoStalePending
<1>9. Channels'
  BY <1>1, <1>4, <1>7 DEF Channels, Untouched
<1>10. ReaderNeverBlocks'
  BY <1>1 DEF Shared, ReaderNeverBlocks
<1> QED
  BY <1>6, <1>8, <1>9, <1>10 DEF Shared

\* Send failed or the timer fired: the entry is removed, nothing is in flight.
LEMMA GiveUpFrame ==
  ASSUME TypeOK, Stage, Shared, SendFails \/ Timeout
  PROVE  Shared'
<1>1. /\ InFlight /\ ~InFlight'
      /\ UNCHANGED <<stdin, sent, chan, rd>>
      /\ pending' = [pending EXCEPT ![Id[cur.n]] = 0]
  BY DEF SendFails, Timeout, InFlight, agentVars, AfterWait
<1>2. \A i \in Ids : pending'[i] = 0
  BY <1>1 DEF TypeOK, Shared, NoStalePending
<1>3. ASSUME NEW n, Untouched(n) PROVE Untouched(n)'
  BY <1>1, <1>3 DEF Untouched
<1>4. Queue'
  BY <1>1, <1>3 DEF Shared, Queue
<1>5. NoStalePending' /\ Channels' /\ ReaderNeverBlocks'
  BY <1>1, <1>2 DEF Shared, NoStalePending, Channels, ReaderNeverBlocks
<1> QED
  BY <1>4, <1>5 DEF Shared

\* The handler takes a response: the reader had removed the entry.
LEMMA ReceiveFrame ==
  ASSUME TypeOK, Stage, Shared, Receive
  PROVE  Shared'
<1>1. /\ InFlight /\ ~InFlight' /\ chan[cur.n] # 0
      /\ UNCHANGED <<stdin, sent, pending, rd>>
      /\ chan' = [chan EXCEPT ![cur.n] = 0]
  BY DEF Receive, InFlight, agentVars, AfterWait
<1>2. \A i \in Ids : pending[i] = 0
  BY <1>1 DEF Shared, NoStalePending, Channels
<1>3. cur.n \in Req /\ chan \in [Req -> 0 .. MaxReq]
  BY CurNumber DEF TypeOK, Receive
<1>4. ASSUME NEW n \in Req, Untouched(n) PROVE Untouched(n)'
  BY <1>1, <1>3, <1>4 DEF Untouched
<1>5. \A i \in DOMAIN stdin : IsRequest(stdin[i]) => stdin[i].n \in Req
  BY RequestNumber DEF TypeOK
<1>6. Queue'
  BY <1>1, <1>4, <1>5 DEF Shared, Queue
<1>7. NoStalePending' /\ Channels'
  BY <1>1, <1>2 DEF NoStalePending, Channels
<1>8. ReaderNeverBlocks'
  <2> SUFFICES ASSUME rd.at = "deliver" PROVE chan'[rd.ch] = 0
    BY <1>1 DEF ReaderNeverBlocks
  <2>1. chan[rd.ch] = 0 /\ rd.ch \in Req
    BY DEF Shared, ReaderNeverBlocks, TypeOK
  <2> QED
    BY <1>1, <1>3, <2>1
<1> QED
  BY <1>6, <1>7, <1>8 DEF Shared

\* The reader matches a response: the entry it removes is that of the request
\* in flight, whose channel is empty.
LEMMA MatchFrame ==
  ASSUME TypeOK, Stage, Shared, MatchResponse
  PROVE  Shared'
<1> DEFINE i == Id[Head(wire)]
           c == pending[i]
<1>1. Head(wire) \in Req
  BY WireTypes, Numbers DEF MatchResponse
<1>2. i \in Ids
  BY <1>1, IdAssumption
<1>3. /\ UNCHANGED <<stdin, sent, chan, cur, pc>>
      /\ c # 0 /\ pending' = [pending EXCEPT ![i] = 0]
      /\ rd' = [at |-> "deliver", m |-> Head(wire), ch |-> c]
      /\ rd.at = "read"
  BY DEF MatchResponse, NextLine, agentVars, mainVars
<1>4. /\ InFlight /\ c = cur.n /\ chan[c] = 0
      /\ \A j \in Ids : pending[j] # 0 => j = i
  BY <1>2, <1>3 DEF Shared, NoStalePending, Channels
<1>5. \A j \in Ids : pending'[j] = 0
  BY <1>2, <1>3, <1>4 DEF TypeOK
<1>6. ASSUME NEW n, Untouched(n) PROVE Untouched(n)'
  BY <1>3, <1>4, <1>6 DEF Untouched, InFlight
<1>7. Queue'
  BY <1>3, <1>6 DEF Shared, Queue
<1>8. NoStalePending' /\ Channels'
  BY <1>5 DEF NoStalePending, Channels
<1>9. ReaderNeverBlocks'
  BY <1>3, <1>4 DEF ReaderNeverBlocks
<1> QED
  BY <1>7, <1>8, <1>9 DEF Shared

\* The reader puts a response into a channel that no entry leads to any more.
LEMMA DeliverFrame ==
  ASSUME TypeOK, Shared, Deliver
  PROVE  Shared'
<1>1. /\ UNCHANGED <<stdin, sent, pending, cur, pc>>
      /\ chan' = [chan EXCEPT ![rd.ch] = rd.m]
      /\ rd.at = "deliver" /\ rd'.at = "read"
  BY IdleType DEF Deliver, agentVars, mainVars
<1>2. chan \in [Req -> 0 .. MaxReq]
  BY DEF TypeOK
<1>3. ASSUME NEW n \in Req, Untouched(n) PROVE Untouched(n)'
  BY <1>1, <1>2, <1>3 DEF Untouched, InFlight
<1>4. \A i \in DOMAIN stdin : IsRequest(stdin[i]) => stdin[i].n \in Req
  BY RequestNumber DEF TypeOK
<1>5. Queue'
  BY <1>1, <1>3, <1>4 DEF Shared, Queue
<1>6. NoStalePending'
  BY <1>1 DEF Shared, NoStalePending, InFlight
<1>7. Channels'
  <2> SUFFICES ASSUME NEW i \in Ids, pending[i] # 0
               PROVE  chan'[pending[i]] = 0
    BY <1>1 DEF Channels
  <2>1. chan[pending[i]] = 0 /\ rd.ch # pending[i] /\ pending[i] \in Req
    BY <1>1, Numbers DEF Shared, Channels, TypeOK
  <2> QED
    BY <1>1, <1>2, <2>1
<1>8. ReaderNeverBlocks'
  BY <1>1 DEF ReaderNeverBlocks
<1> QED
  BY <1>5, <1>6, <1>7, <1>8 DEF Shared

\* The agent queues a message; a request has a number nobody has used.
LEMMA AgentFrame ==
  ASSUME TypeOK, Shared, AgentSteps
  PROVE  Shared'
<1>1. UNCHANGED <<pending, chan, rd, cur, pc>>
  BY DEF AgentSteps, AgentRequest, Sends, Writes, AgentNotify, AgentReply, AgentUnread, AgentClose, mainVars
<1>2. NoStalePending' /\ Channels' /\ ReaderNeverBlocks'
  BY <1>1 DEF Shared, NoStalePending, Channels, ReaderNeverBlocks, InFlight
<1>3. ASSUME NEW n, Untouched(n) PROVE Untouched(n)'
  BY <1>1, <1>3 DEF Untouched, InFlight
<1>4. sent \in Nat /\ MaxReq \in Nat /\ sent <= MaxReq
  BY BoundsAssumption DEF TypeOK
<1>5. stdin \in Seq(Msg) /\ DOMAIN stdin = 1 .. Len(stdin) /\ Len(stdin) \in Nat
  BY DEF TypeOK
<1>6. ASSUME NEW m \in Msg, stdin' = Append(stdin, m)
      PROVE  /\ DOMAIN stdin' = 1 .. Len(stdin) + 1
             /\ stdin'[Len(stdin) + 1] = m
             /\ \A i \in DOMAIN stdin : stdin'[i] = stdin[i]
  <2>1. stdin' \in Seq(Msg) /\ Len(stdin') = Len(stdin) + 1
    BY <1>5, <1>6, AppendProperties
  <2> QED
    BY <1>5, <1>6, <2>1, AppendProperties
<1>7. ASSUME NEW k \in RequestKinds, NEW r \in Req, AgentRequest(k, r) PROVE Queue'
  <2> DEFINE m == [kind |-> k, n |-> r]
  <2>1. r \in Nat /\ r > sent /\ sent' = r /\ stdin' = Append(stdin, m)
    BY <1>7, BoundsAssumption DEF AgentRequest, Sends, Writes, Req
  <2>2. m \in Msg /\ m.n = r
    BY <2>1 DEF Msg
  <2>3. Untouched(m.n)
    BY <1>4, <2>1, <2>2 DEF Shared, Queue
  <2>4. ASSUME NEW i \in DOMAIN stdin, IsRequest(stdin[i])
        PROVE  stdin[i].n \in Nat /\ stdin[i].n <= sent /\ Untouched(stdin[i].n)
    <3>1. stdin[i] \in Msg
      BY <1>5
    <3> QED
      BY <2>4, <3>1, RequestNumber DEF Shared, Queue, Req
  <2>5. ASSUME NEW i \in DOMAIN stdin', IsRequest(stdin'[i])
        PROVE  stdin'[i].n <= sent' /\ Untouched(stdin'[i].n)
    <3>1. CASE i = Len(stdin) + 1
      BY <1>4, <1>6, <2>1, <2>2, <2>3, <3>1
    <3>2. CASE i \in DOMAIN stdin
      BY <1>4, <1>6, <2>1, <2>2, <2>4, <2>5, <3>2
    <3> QED
      BY <1>5, <1>6, <2>1, <2>2, <3>1, <3>2
  <2>6. ASSUME NEW i \in DOMAIN stdin', NEW j \in DOMAIN stdin',
               IsRequest(stdin'[i]), IsRequest(stdin'[j]), stdin'[i].n = stdin'[j].n
        PROVE  i = j
    <3>1. CASE i \in DOMAIN stdin /\ j \in DOMAIN stdin
      BY <1>6, <2>1, <2>2, <2>6, <3>1 DEF Shared, Queue
    <3>2. CASE i = Len(stdin) + 1 /\ j = Len(stdin) + 1
      BY <3>2
    <3>3. CASE i = Len(stdin) + 1 /\ j \in DOMAIN stdin
      BY <1>4, <1>6, <2>1, <2>2, <2>4, <2>6, <3>3
    <3>4. CASE i \in DOMAIN stdin /\ j = Len(stdin) + 1
      BY <1>4, <1>6, <2>1, <2>2, <2>4, <2>6, <3>4
    <3> QED
      BY <1>5, <1>6, <2>1, <2>2, <3>1, <3>2, <3>3, <3>4
  <2>7. \A n \in Req : n > sent' => Untouched(n)
    BY <1>4, <2>1 DEF Shared, Queue, Req
  <2> QED
    BY <1>3, <2>5, <2>6, <2>7 DEF Queue, IsRequest
<1>8. CASE AgentNotify \/ AgentReply
  <2>1. PICK m \in Msg : ~IsRequest(m) /\ stdin' = Append(stdin, m)
    BY <1>8 DEF AgentNotify, AgentReply, Sends, Writes, Writes, Msg, IsRequest, RequestKinds
  <2>2. sent' = sent
    BY <1>8 DEF AgentNotify, AgentReply
  <2>3. \A i \in DOMAIN stdin' : IsRequest(stdin'[i]) => i \in DOMAIN stdin
    BY <1>5, <1>6, <2>1
  <2>4. \A i \in DOMAIN stdin' :
           IsRequest(stdin'[i]) => stdin'[i].n <= sent /\ Untouched(stdin'[i].n)
    BY <1>6, <2>1, <2>3 DEF Shared, Queue
  <2>5. ASSUME NEW i \in DOMAIN stdin', NEW j \in DOMAIN stdin',
               IsRequest(stdin'[i]), IsRequest(stdin'[j]), stdin'[i].n = stdin'[j].n
        PROVE  i = j
    BY <1>6, <2>1, <2>3, <2>5 DEF Shared, Queue
  <2>6. \A n \in Req : n > sent => Untouched(n)
    BY DEF Shared, Queue
  <2> QED
    BY <1>2, <1>3, <2>2, <2>4, <2>5, <2>6 DEF Shared, Queue, IsRequest
<1>9. CASE AgentUnread \/ AgentClose
  BY <1>2, <1>3, <1>9 DEF AgentUnread, AgentClose, Shared, Queue, IsRequest
<1> QED
  BY <1>2, <1>7, <1>8, <1>9 DEF Shared, AgentSteps

----------------------------------------------------------------------------
(* The invariant.                                                          *)

LEMMA StageStep ==
  ASSUME TypeOK, Stage, [Next]_vars
  PROVE  Stage'
<1> USE DEF Stage, InFlight, IsRequest, RequestKinds
<1>1. CASE UNCHANGED vars
  BY <1>1 DEF vars, mainVars
<1>2. CASE MainSteps
  <2>1. CASE RouteRaw
    BY <2>1 DEF RouteRaw
  <2>2. CASE RouteMeta \/ RouteBlocked
    BY <2>2 DEF RouteMeta, RouteBlocked
  <2>3. CASE RouteForward
    BY <2>3 DEF RouteForward
  <2>4. CASE Receive \/ Timeout
    BY <2>4 DEF Receive, Timeout, AfterWait
  <2>5. CASE RecordReceipt \/ RecordReceiptFails \/ WriteAnswer \/ ReadEOF \/ CloseReturns
    BY <2>5 DEF RecordReceipt, RecordReceiptFails, WriteAnswer, ReadEOF, CloseReturns
  <2> QED
    BY <1>2, <2>1, <2>2, <2>3, <2>4, <2>5 DEF MainSteps
<1>3. CASE SendEnds
  BY <1>3 DEF SendEnds, SendReaches, SendReturns, RawSendReturns, SendFails, RawSendFails
<1>4. CASE ReaderSteps
  BY <1>4 DEF ReaderSteps, MatchResponse, MatchNothing, Deliver, Forward, ReaderStops, mainVars
<1>5. CASE AgentSteps \/ UpstreamSteps
  BY <1>5 DEF AgentSteps, AgentRequest, Sends, Writes, AgentNotify, AgentReply, AgentUnread, AgentClose,
     UpstreamSteps, UpstreamAnswers, UpstreamAsks, UpstreamExits, mainVars
<1> QED
  BY <1>1, <1>2, <1>3, <1>4, <1>5 DEF Next, Exited

LEMMA SharedStep ==
  ASSUME TypeOK, Stage, Shared, [Next]_vars
  PROVE  Shared'
<1>1. CASE UNCHANGED vars
  BY <1>1, Frame DEF vars, agentVars, mainVars, InFlight
<1>2. CASE RecordReceipt \/ RecordReceiptFails \/ WriteAnswer \/ ReadEOF \/ CloseReturns
  BY <1>2, Frame DEF RecordReceipt, RecordReceiptFails, WriteAnswer, ReadEOF, CloseReturns, agentVars, InFlight
<1>3. CASE SendReaches \/ SendReturns \/ RawSendReturns \/ RawSendFails
  BY <1>3, Frame DEF SendReaches, SendReturns, RawSendReturns, RawSendFails, agentVars, InFlight
<1>4. CASE MatchNothing \/ Forward \/ ReaderStops
  BY <1>4, Frame, IdleType DEF MatchNothing, Forward, ReaderStops, NextLine,
     agentVars, mainVars, InFlight, Idle
<1>5. CASE UpstreamSteps
  BY <1>5, Frame DEF UpstreamSteps, UpstreamAnswers, UpstreamAsks, UpstreamExits,
     agentVars, mainVars, InFlight
<1> QED
  BY <1>1, <1>2, <1>3, <1>4, <1>5, RouteFrame, ForwardFrame, GiveUpFrame, ReceiveFrame,
     MatchFrame, DeliverFrame, AgentFrame
     DEF Next, MainSteps, SendEnds, ReaderSteps, Exited

LEMMA InitInv == Init => IInv
<1> SUFFICES ASSUME Init PROVE IInv
  OBVIOUS
<1>1. stdin = << >> /\ DOMAIN stdin = {}
  BY DEF Init
<1>2. \A n \in Req : Untouched(n)
  BY DEF Init, Untouched, InFlight, Idle
<1>3. Queue
  BY <1>1, <1>2 DEF Queue
<1>4. NoStalePending /\ Stage /\ Channels /\ ReaderNeverBlocks
  BY DEF Init, NoStalePending, Stage, Channels, ReaderNeverBlocks, InFlight, Idle, Own
<1> QED
  BY <1>3, <1>4, InitTypes DEF IInv

LEMMA InvStep == IInv /\ [Next]_vars => IInv'
BY TypeStep, StageStep, SharedStep DEF IInv, Shared

LEMMA Invariant == Spec => []IInv
BY InitInv, InvStep, PTL DEF Spec

\* The variables keep their types.
THEOREM TypeCorrect == Spec => []TypeOK
BY Invariant, PTL DEF IInv

\* The pending map holds at most the entry of the request in flight, whatever
\* the order of Send, the response, the timer and the upstream's end.
THEOREM PendingClean == Spec => []NoStalePending
BY Invariant, PTL DEF IInv

\* readUpstream never blocks on the channel of one request, even when the
\* agent uses an id twice and the upstream answers a request many times.
THEOREM ReaderFree == Spec => []ReaderNeverBlocks
BY Invariant, PTL DEF IInv

----------------------------------------------------------------------------
(* Receipts.  A call whose answer is about to leave was recorded, or Send  *)
(* refused it, or the ledger did.                                          *)

Audited == pc = "answer" /\ cur.kind = "call" /\ resp # Own("refused")
           => cur.n \in audited \cup unrecorded

AuditInv == ReceiptBeforeAnswer /\ Audited

LEMMA SettleAudit ==
  ASSUME TypeOK, ReceiptBeforeAnswer, NEW o \in Final, Settle(o), UNCHANGED <<audited, unrecorded>>,
         cur.kind = "call" /\ o # Own("refused") => cur.n \in audited \cup unrecorded
  PROVE  ReceiptBeforeAnswer'
<1>1. /\ settled \in Seq([msg : Msg, out : Final])
      /\ [msg |-> cur, out |-> o] \in [msg : Msg, out : Final]
  BY DEF TypeOK
<1>2. /\ DOMAIN settled = 1 .. Len(settled) /\ Len(settled) \in Nat
      /\ DOMAIN settled' = 1 .. Len(settled) + 1
      /\ \A i \in DOMAIN settled : settled'[i] = settled[i]
      /\ settled'[Len(settled) + 1] = [msg |-> cur, out |-> o]
  <2>1. settled' \in Seq([msg : Msg, out : Final]) /\ Len(settled') = Len(settled) + 1
    BY <1>1, AppendProperties DEF Settle
  <2> QED
    BY <1>1, <2>1, AppendProperties DEF Settle
<1>3. ASSUME NEW i \in DOMAIN settled',
             settled'[i].msg.kind = "call", settled'[i].out # Own("refused"),
             settled'[i].msg.n \notin unrecorded
      PROVE  settled'[i].msg.n \in audited
  <2>1. CASE i \in DOMAIN settled
    BY <1>2, <1>3, <2>1 DEF ReceiptBeforeAnswer
  <2>2. CASE i = Len(settled) + 1
    BY <1>2, <1>3, <2>2
  <2> QED
    BY <1>2, <1>3, <2>1, <2>2
<1> QED
  BY <1>3 DEF ReceiptBeforeAnswer, Own

LEMMA AuditStep ==
  ASSUME TypeOK, Stage, AuditInv, [Next]_vars
  PROVE  AuditInv'
<1>1. CASE UNCHANGED <<settled, audited, unrecorded, pc, cur, resp>>
  BY <1>1 DEF AuditInv, ReceiptBeforeAnswer, Audited, Own
<1>2. CASE UNCHANGED <<settled, audited, unrecorded>> /\ pc' # "answer"
  BY <1>2 DEF AuditInv, ReceiptBeforeAnswer, Audited, Own
<1>3. CASE RouteMeta
  BY <1>3 DEF RouteMeta, AuditInv, ReceiptBeforeAnswer, Audited, Own, history
<1>4. CASE SendFails
  BY <1>4 DEF SendFails, AuditInv, ReceiptBeforeAnswer, Audited, Own, history
<1>5. CASE Receive \/ Timeout
  BY <1>5 DEF Receive, Timeout, AfterWait, AuditInv, ReceiptBeforeAnswer, Audited, Own, history
<1>6. CASE RecordReceipt \/ RecordReceiptFails
  BY <1>6 DEF RecordReceipt, RecordReceiptFails, AuditInv, ReceiptBeforeAnswer, Audited, Own
<1>7. CASE WriteAnswer
  <2>1. resp \in Final
    BY OwnTypes DEF TypeOK
  <2>2. ReceiptBeforeAnswer'
    BY <1>7, <2>1, SettleAudit DEF WriteAnswer, AuditInv, Audited
  <2> QED
    BY <1>7, <2>2 DEF WriteAnswer, AuditInv, Audited
<1>8. CASE RawSendReturns
  <2>1. cur.kind # "call"
    BY <1>8 DEF RawSendReturns, Stage, RawKinds
  <2>2. ReceiptBeforeAnswer'
    BY <1>8, <2>1, OwnTypes, SettleAudit DEF RawSendReturns, AuditInv
  <2> QED
    BY <1>8, <2>2 DEF RawSendReturns, AuditInv, Audited
<1>9. CASE RawSendFails
  <2>1. cur.kind # "call"
    BY <1>9 DEF RawSendFails, Stage, RawKinds
  <2>2. CASE IsRequest(cur)
    BY <1>9, <2>1, <2>2 DEF RawSendFails, AuditInv, ReceiptBeforeAnswer, Audited, Own
  <2>3. CASE ~IsRequest(cur)
    <3>1. ReceiptBeforeAnswer'
      BY <1>9, <2>1, <2>3, OwnTypes, SettleAudit DEF RawSendFails, AuditInv
    <3> QED
      BY <1>9, <2>3, <3>1 DEF RawSendFails, AuditInv, Audited
  <2> QED
    BY <2>2, <2>3
<1>10. RouteRaw \/ RouteBlocked \/ RouteForward \/ ReadEOF \/ CloseReturns \/ SendReturns
       => UNCHANGED <<settled, audited, unrecorded>> /\ pc' # "answer"
  BY DEF RouteRaw, RouteBlocked, RouteForward, ReadEOF, CloseReturns, SendReturns, history
<1>11. SendReaches \/ ReaderSteps \/ AgentSteps \/ UpstreamSteps \/ Exited \/ UNCHANGED vars
       => UNCHANGED <<settled, audited, unrecorded, pc, cur, resp>>
  BY DEF SendReaches, ReaderSteps, MatchResponse, MatchNothing, Deliver, Forward, ReaderStops,
     AgentSteps, AgentRequest, Sends, Writes, AgentNotify, AgentReply, AgentUnread, AgentClose,
     UpstreamSteps, UpstreamAnswers, UpstreamAsks, UpstreamExits, Exited, vars, mainVars, history
<1> QED
  BY <1>1, <1>2, <1>3, <1>4, <1>5, <1>6, <1>7, <1>8, <1>9, <1>10, <1>11
     DEF Next, MainSteps, SendEnds

\* No tools/call that was handed to Send without an error, or blocked, is
\* answered before its receipt was appended, or its Append failed.
THEOREM ReceiptsFirst == Spec => []ReceiptBeforeAnswer
<1>1. Init => AuditInv
  BY DEF Init, AuditInv, ReceiptBeforeAnswer, Audited
<1>2. IInv /\ AuditInv /\ [Next]_vars => AuditInv'
  BY AuditStep DEF IInv
<1>3. AuditInv => ReceiptBeforeAnswer
  BY DEF AuditInv
<1> QED
  BY <1>1, <1>2, <1>3, Invariant, PTL DEF Spec

----------------------------------------------------------------------------
(* Responses that pass the handler by.  BypassOnlyAfterGiveUp is not       *)
(* inductive: a response may be forwarded long after it was sent, and what *)
(* was true when the upstream got the request has to stay true until then. *)

\* Settled so that a response may pass it by: no later step takes that back.
Ended(n) ==
  \E i \in DOMAIN settled :
     /\ settled[i].msg.n = n
     /\ settled[i].out \in {Own("timeout"), Own("refused"), Own("passed")}
        \/ settled[i].out.how = "upstream"

\* GaveUp or Served.
Done(n) ==
  \/ Ended(n)
  \/ chan[n] # 0
  \/ rd.at = "deliver" /\ rd.ch = n
  \/ pc \in {"record", "answer"} /\ cur.n = n /\ resp.how = "upstream"
  \/ /\ pc \in {"rawsend", "record", "answer"} /\ cur.n = n
     /\ cur.kind = "opaque" \/ resp \in {Own("timeout"), Own("refused")}

\* The upstream may answer request n: its handler waits, or is done with it.
Begun(n) == (InFlight /\ cur.n = n) \/ Done(n)

\* A handler that waits is registered, or its response is on its way.
Registered ==
  InFlight => \/ pending[Id[cur.n]] = cur.n \/ chan[cur.n] # 0
              \/ rd.at = "deliver" /\ rd.ch = cur.n

Refused == pc = "answer" /\ cur.kind = "opaque" => resp = Own("refused")

Sent ==
  /\ \A n \in Req : owed[n] > 0 => Begun(n)
  /\ \A i \in DOMAIN wire : wire[i] # 0 => Begun(wire[i])
  /\ rd.at = "forward" /\ rd.m # 0 => Done(rd.m)

BypassInv == Registered /\ Refused /\ Sent /\ \A n \in unsol : Done(n)

\* What has been settled stays, and what is settled now is with it.
LEMMA Settled ==
  ASSUME TypeOK, NEW o \in Final, Settle(o)
  PROVE  /\ \A i \in DOMAIN settled : i \in DOMAIN settled' /\ settled'[i] = settled[i]
         /\ \E i \in DOMAIN settled' : settled'[i] = [msg |-> cur, out |-> o]
<1>1. /\ settled \in Seq([msg : Msg, out : Final])
      /\ [msg |-> cur, out |-> o] \in [msg : Msg, out : Final]
  BY DEF TypeOK
<1>2. /\ settled' \in Seq([msg : Msg, out : Final]) /\ Len(settled') = Len(settled) + 1
      /\ \A i \in 1 .. Len(settled) : settled'[i] = settled[i]
      /\ settled'[Len(settled) + 1] = [msg |-> cur, out |-> o]
  BY <1>1, AppendProperties DEF Settle
<1>3. /\ DOMAIN settled = 1 .. Len(settled) /\ Len(settled) \in Nat
      /\ DOMAIN settled' = 1 .. Len(settled) + 1
  BY <1>1, <1>2
<1>4. Len(settled) + 1 \in DOMAIN settled'
  BY <1>3
<1> QED
  BY <1>2, <1>3, <1>4

LEMMA EndedKept ==
  ASSUME NEW n, Ended(n), UNCHANGED settled \/ (TypeOK /\ \E o \in Final : Settle(o))
  PROVE  Ended(n)'
<1>1. CASE UNCHANGED settled
  BY <1>1 DEF Ended
<1>2. CASE TypeOK /\ \E o \in Final : Settle(o)
  <2>1. \A i \in DOMAIN settled : i \in DOMAIN settled' /\ settled'[i] = settled[i]
    BY <1>2, Settled
  <2> QED
    BY <2>1 DEF Ended
<1> QED
  BY <1>1, <1>2

\* The main goroutine settles with an outcome or not at all.
LEMMA SettlesFinal ==
  ASSUME TypeOK, Stage, [Next]_vars
  PROVE  UNCHANGED settled \/ \E o \in Final : Settle(o)
<1>1. resp \in Final
  BY OwnTypes DEF TypeOK
<1>2. CASE WriteAnswer \/ RawSendReturns \/ RawSendFails
  BY <1>1, <1>2, OwnTypes DEF WriteAnswer, RawSendReturns, RawSendFails
<1>3. CASE RouteRaw \/ RouteMeta \/ RouteBlocked \/ RouteForward \/ Receive \/ Timeout \/ RecordReceipt \/ RecordReceiptFails
           \/ ReadEOF \/ CloseReturns \/ SendReaches \/ SendReturns \/ SendFails
  BY <1>3 DEF RouteRaw, RouteMeta, RouteBlocked, RouteForward, Receive, Timeout, RecordReceipt, RecordReceiptFails,
     ReadEOF, CloseReturns, SendReaches, SendReturns, SendFails, history
<1>4. CASE ReaderSteps \/ AgentSteps \/ UpstreamSteps \/ Exited \/ UNCHANGED vars
  BY <1>4 DEF ReaderSteps, MatchResponse, MatchNothing, Deliver, Forward, ReaderStops,
     AgentSteps, AgentRequest, Sends, Writes, AgentNotify, AgentReply, AgentUnread, AgentClose,
     UpstreamSteps, UpstreamAnswers, UpstreamAsks, UpstreamExits, Exited, vars, history
<1> QED
  BY <1>2, <1>3, <1>4 DEF Next, MainSteps, SendEnds

\* Who is done with a request stays done with it.
LEMMA DoneKept ==
  ASSUME TypeOK, Stage, Refused, [Next]_vars, NEW n \in Req, Begun(n)
  PROVE  Begun(n)' /\ (Done(n) => Done(n)')
<1>1. Ended(n) => Ended(n)'
  BY EndedKept, SettlesFinal
<1>2. CASE RouteRaw \/ RouteMeta \/ RouteBlocked \/ RouteForward \/ ReadEOF \/ CloseReturns
  <2>1. pc \notin {"rawsend", "record", "answer"} /\ ~InFlight /\ UNCHANGED <<chan, rd>>
    BY <1>2 DEF RouteRaw, RouteMeta, RouteBlocked, RouteForward, ReadEOF, CloseReturns, Take, InFlight
  <2> QED
    BY <1>1, <2>1 DEF Done, Begun, InFlight
<1>3. CASE SendReaches \/ SendReturns
  <2>1. UNCHANGED <<cur, resp, chan, rd>> /\ (InFlight => InFlight')
        /\ (pc \in {"rawsend", "record", "answer"} => pc' = pc)
    BY <1>3 DEF SendReaches, SendReturns, InFlight
  <2> QED
    BY <1>1, <2>1 DEF Done, Begun, InFlight
<1>4. CASE SendFails
  <2>1. UNCHANGED <<cur, chan, rd>> /\ resp' = Own("refused") /\ pc' = "answer" /\ pc = "send"
    BY <1>4 DEF SendFails
  <2> QED
    BY <1>1, <2>1 DEF Done, Begun, InFlight
<1>5. CASE Timeout
  <2>1. UNCHANGED <<cur, chan, rd>> /\ resp' = Own("timeout") /\ pc' \in {"record", "answer"} /\ pc = "wait"
    BY <1>5 DEF Timeout, AfterWait
  <2> QED
    BY <1>1, <2>1 DEF Done, Begun, InFlight
<1>6. CASE Receive
  <2>1. UNCHANGED <<cur, rd>> /\ resp'.how = "upstream" /\ pc' \in {"record", "answer"} /\ pc = "wait"
        /\ (n # cur.n => chan'[n] = chan[n])
    BY <1>6 DEF Receive, AfterWait, TypeOK
  <2> QED
    BY <1>1, <2>1 DEF Done, Begun, InFlight
<1>7. CASE RecordReceipt \/ RecordReceiptFails
  <2>1. UNCHANGED <<cur, rd, chan, resp>> /\ pc' = "answer" /\ pc = "record"
    BY <1>7 DEF RecordReceipt, RecordReceiptFails
  <2> QED
    BY <1>1, <2>1 DEF Done, Begun, InFlight
<1>8. CASE WriteAnswer
  <2>1. UNCHANGED <<rd, chan>> /\ pc = "answer" /\ Settle(resp) /\ resp \in Final
    BY <1>8, OwnTypes DEF WriteAnswer, TypeOK
  <2>2. PICK i \in DOMAIN settled' : settled'[i] = [msg |-> cur, out |-> resp]
    BY <2>1, Settled
  <2>3. cur.n = n /\ (resp.how = "upstream" \/ resp \in {Own("timeout"), Own("refused")}) => Ended(n)'
    BY <2>2 DEF Ended
  <2>4. cur.kind = "opaque" => resp = Own("refused")
    BY <2>1 DEF Refused
  <2> QED
    BY <1>1, <2>1, <2>3, <2>4 DEF Done, Begun, InFlight
<1>9. CASE RawSendReturns
  <2>1. UNCHANGED <<rd, chan>> /\ pc = "rawsend" /\ Settle(Own("passed")) /\ Own("passed") \in Final
    BY <1>9, OwnTypes DEF RawSendReturns
  <2>2. PICK i \in DOMAIN settled' : settled'[i] = [msg |-> cur, out |-> Own("passed")]
    BY <2>1, Settled
  <2>3. cur.n = n => Ended(n)'
    BY <2>2 DEF Ended
  <2> QED
    BY <1>1, <2>1, <2>3 DEF Done, Begun, InFlight
<1>10. CASE RawSendFails
  <2>1. UNCHANGED <<rd, chan, cur>> /\ pc = "rawsend"
        /\ (IsRequest(cur) => resp' = Own("refused") /\ pc' = "answer")
    BY <1>10 DEF RawSendFails
  <2>2. cur.n = n => IsRequest(cur)
    BY Numbers DEF TypeOK, Msg, IsRequest, RequestKinds
  <2> QED
    BY <1>1, <2>1, <2>2 DEF Done, Begun, InFlight
<1>11. CASE MatchResponse \/ MatchNothing \/ Forward \/ ReaderStops
  <2>1. UNCHANGED <<chan, pc, cur, resp>> /\ rd.at # "deliver"
    BY <1>11 DEF MatchResponse, MatchNothing, Forward, ReaderStops, NextLine, mainVars
  <2> QED
    BY <1>1, <2>1 DEF Done, Begun, InFlight
<1>12. CASE Deliver
  <2>1. UNCHANGED <<pc, cur, resp>> /\ rd.at = "deliver" /\ chan' = [chan EXCEPT ![rd.ch] = rd.m]
    BY <1>12 DEF Deliver, mainVars
  <2>2. rd.m # 0
    BY <2>1, Numbers DEF TypeOK
  <2>3. chan[n] # 0 \/ rd.ch = n => chan'[n] # 0
    BY <2>1, <2>2 DEF TypeOK
  <2> QED
    BY <1>1, <2>1, <2>3 DEF Done, Begun, InFlight
<1>13. CASE AgentSteps \/ UpstreamSteps \/ Exited \/ UNCHANGED vars
  <2>1. UNCHANGED <<chan, rd, pc, cur, resp>>
    BY <1>13 DEF AgentSteps, AgentRequest, Sends, Writes, AgentNotify, AgentReply, AgentUnread, AgentClose,
       UpstreamSteps, UpstreamAnswers, UpstreamAsks, UpstreamExits, Exited, vars, mainVars
  <2> QED
    BY <1>1, <2>1 DEF Done, Begun, InFlight
<1> QED
  BY <1>2, <1>3, <1>4, <1>5, <1>6, <1>7, <1>8, <1>9, <1>10, <1>11, <1>12, <1>13
     DEF Next, MainSteps, SendEnds, ReaderSteps

LEMMA RegisteredKept ==
  ASSUME IInv, Registered, [Next]_vars
  PROVE  Registered'
<1> USE DEF Registered, InFlight
<1>1. CASE RouteForward
  <2>1. cur' \in Msg /\ cur'.n \in Req /\ Id[cur'.n] \in Ids
    BY <1>1, TakeTypes, IdAssumption DEF IInv, RouteForward, Msg, RequestKinds
  <2>2. pending'[Id[cur'.n]] = cur'.n
    BY <1>1, <2>1 DEF RouteForward, IInv, TypeOK
  <2> QED
    BY <2>2
<1>2. CASE RouteRaw \/ RouteMeta \/ RouteBlocked \/ ReadEOF \/ CloseReturns \/ SendFails \/ Timeout
           \/ Receive \/ RecordReceipt \/ RecordReceiptFails \/ WriteAnswer \/ RawSendReturns \/ RawSendFails
  BY <1>2 DEF RouteRaw, RouteMeta, RouteBlocked, ReadEOF, CloseReturns, SendFails, Timeout, Receive,
     AfterWait, RecordReceipt, RecordReceiptFails, WriteAnswer, RawSendReturns, RawSendFails
<1>3. CASE SendReaches \/ SendReturns
  BY <1>3 DEF SendReaches, SendReturns
<1>4. CASE MatchNothing \/ Forward \/ ReaderStops
  <2>1. UNCHANGED <<pc, cur, pending, chan>> /\ rd.at # "deliver"
    BY <1>4 DEF MatchNothing, Forward, ReaderStops, NextLine, mainVars
  <2> QED
    BY <2>1
<1>5. CASE MatchResponse
  <2>1. PICK i \in Ids : pending[i] # 0 /\ rd'.at = "deliver" /\ rd'.ch = pending[i]
    <3>1. Head(wire) \in Req
      BY <1>5, WireTypes, Numbers DEF MatchResponse, IInv
    <3> QED
      BY <1>5, <3>1, IdAssumption DEF MatchResponse
  <2>2. pending[i] = cur.n
    BY <2>1 DEF IInv, NoStalePending
  <2>3. UNCHANGED <<pc, cur>>
    BY <1>5 DEF MatchResponse, mainVars
  <2> QED
    BY <2>1, <2>2, <2>3
<1>6. CASE Deliver
  <2>1. UNCHANGED <<pc, cur, pending>> /\ rd.at = "deliver" /\ chan' = [chan EXCEPT ![rd.ch] = rd.m]
    BY <1>6 DEF Deliver, mainVars
  <2>2. rd.m # 0 /\ chan \in [Req -> 0 .. MaxReq] /\ rd.ch \in Req
    BY <2>1, Numbers DEF IInv, TypeOK
  <2>3. InFlight => cur.n \in Req
    BY CurNumber DEF IInv
  <2> QED
    BY <2>1, <2>2, <2>3
<1>7. CASE AgentSteps \/ UpstreamSteps \/ Exited \/ UNCHANGED vars
  BY <1>7 DEF AgentSteps, AgentRequest, Sends, Writes, AgentNotify, AgentReply, AgentUnread, AgentClose,
     UpstreamSteps, UpstreamAnswers, UpstreamAsks, UpstreamExits, Exited, vars, mainVars
<1> QED
  BY <1>1, <1>2, <1>3, <1>4, <1>5, <1>6, <1>7 DEF Next, MainSteps, SendEnds, ReaderSteps

LEMMA RefusedKept ==
  ASSUME Stage, Refused, [Next]_vars
  PROVE  Refused'
<1> USE DEF Refused
<1>1. CASE RouteMeta
  BY <1>1 DEF RouteMeta
<1>2. CASE RouteRaw \/ RouteBlocked \/ RouteForward \/ ReadEOF \/ CloseReturns \/ SendReturns
           \/ WriteAnswer \/ RawSendReturns
  BY <1>2 DEF RouteRaw, RouteBlocked, RouteForward, ReadEOF, CloseReturns, SendReturns, WriteAnswer,
     RawSendReturns
<1>3. CASE SendFails \/ Timeout \/ Receive
  BY <1>3 DEF SendFails, Timeout, Receive, AfterWait, Stage, InFlight
<1>4. CASE RecordReceipt \/ RecordReceiptFails
  BY <1>4 DEF RecordReceipt, RecordReceiptFails, Stage
<1>5. CASE RawSendFails
  BY <1>5 DEF RawSendFails
<1>6. CASE SendReaches \/ ReaderSteps \/ AgentSteps \/ UpstreamSteps \/ Exited \/ UNCHANGED vars
  BY <1>6 DEF SendReaches, ReaderSteps, MatchResponse, MatchNothing, Deliver, Forward, ReaderStops,
     AgentSteps, AgentRequest, Sends, Writes, AgentNotify, AgentReply, AgentUnread, AgentClose,
     UpstreamSteps, UpstreamAnswers, UpstreamAsks, UpstreamExits, Exited, vars, mainVars
<1> QED
  BY <1>1, <1>2, <1>3, <1>4, <1>5, <1>6 DEF Next, MainSteps, SendEnds

LEMMA SentKept ==
  ASSUME IInv, BypassInv, [Next]_vars
  PROVE  Sent' /\ \A n \in unsol' : Done(n)'
<1>0. /\ TypeOK /\ Stage /\ Refused /\ wire \in Seq(0 .. MaxReq)
      /\ \A n \in Req : Begun(n) => Begun(n)' /\ (Done(n) => Done(n)')
  BY DoneKept DEF IInv, BypassInv, TypeOK
<1>1. unsol \subseteq Req /\ \A n \in Req : Done(n) => Begun(n)
  BY DEF IInv, TypeOK, Begun
<1>2. \A i \in DOMAIN wire : wire[i] # 0 => wire[i] \in Req
  <2>1. ASSUME NEW i \in DOMAIN wire PROVE wire[i] \in 0 .. MaxReq
    <3>1. i \in 1 .. Len(wire)
      BY <1>0, <2>1
    <3> QED
      BY <1>0, <3>1, ElementOfSeq
  <2> QED
    BY <2>1, Numbers
<1>3. ASSUME UNCHANGED <<owed, wire, unsol>>, rd' = rd \/ rd'.at # "forward"
      PROVE  Sent' /\ \A n \in unsol' : Done(n)'
  <2>1. rd.at = "forward" /\ rd.m # 0 => rd.m \in Req
    BY Numbers DEF IInv, TypeOK
  <2> QED
    BY <1>0, <1>1, <1>2, <1>3, <2>1 DEF BypassInv, Sent
<1>4. CASE MainSteps \/ SendReturns \/ RawSendReturns \/ SendFails \/ RawSendFails \/ AgentSteps
           \/ UpstreamExits \/ Exited \/ UNCHANGED vars
  <2>1. UNCHANGED <<owed, wire, unsol, rd>>
    <3>1. CASE MainSteps
      BY <3>1 DEF MainSteps, RouteRaw, RouteMeta, RouteBlocked, RouteForward, Receive, Timeout,
         RecordReceipt, RecordReceiptFails, WriteAnswer, ReadEOF, CloseReturns, upVars, history
    <3>2. CASE SendReturns \/ RawSendReturns \/ SendFails \/ RawSendFails
      BY <3>2 DEF SendReturns, RawSendReturns, SendFails, RawSendFails, upVars, history
    <3>3. CASE AgentSteps \/ UpstreamExits \/ Exited \/ UNCHANGED vars
      BY <3>3 DEF AgentSteps, AgentRequest, Sends, Writes, AgentNotify, AgentReply, AgentUnread, AgentClose, UpstreamExits,
         Exited, vars, upVars, history
    <3> QED
      BY <1>4, <3>1, <3>2, <3>3
  <2> QED
    BY <1>3, <2>1
<1>5. CASE SendReaches
  <2>1. UNCHANGED <<wire, unsol, rd>> /\ \A n \in Req : owed'[n] > 0 => owed[n] > 0 \/ (n = cur.n /\ IsRequest(cur))
    BY <1>5 DEF SendReaches, history, IInv, TypeOK
  <2>2. IsRequest(cur) => Begun(cur.n)
    BY <1>0, <1>5 DEF SendReaches, Begun, InFlight, Done, Stage, RawKinds, IsRequest, RequestKinds
  <2>3. \A n \in Req : owed'[n] > 0 => Begun(n)
    BY <2>1, <2>2 DEF BypassInv, Sent
  <2>4. rd.at = "forward" /\ rd.m # 0 => rd.m \in Req
    BY Numbers DEF IInv, TypeOK
  <2> QED
    BY <1>0, <1>1, <1>2, <2>1, <2>3, <2>4 DEF BypassInv, Sent
<1>6. CASE \E n \in Req : UpstreamAnswers(n)
  <2>1. PICK n \in Req : UpstreamAnswers(n)
    BY <1>6
  <2>2. UNCHANGED <<unsol, rd>> /\ \A k \in Req : owed'[k] > 0 => owed[k] > 0
    BY <2>1 DEF UpstreamAnswers, history, IInv, TypeOK
  <2>3. owed[n] > 0 /\ wire' = Append(wire, n) /\ n \in 0 .. MaxReq
    BY <2>1, Numbers DEF UpstreamAnswers
  <2>4. /\ DOMAIN wire = 1 .. Len(wire) /\ DOMAIN wire' = 1 .. Len(wire) + 1 /\ Len(wire) \in Nat
        /\ \A i \in DOMAIN wire : wire'[i] = wire[i]
        /\ wire'[Len(wire) + 1] = n
    BY <1>0, <2>3, AppendProperties, LenProperties
  <2>5. Begun(n)
    BY <2>3 DEF BypassInv, Sent
  <2>6. \A i \in DOMAIN wire' : wire'[i] # 0 => wire'[i] \in Req /\ Begun(wire'[i])
    BY <1>2, <2>4, <2>5 DEF BypassInv, Sent
  <2>7. rd.at = "forward" /\ rd.m # 0 => rd.m \in Req
    BY Numbers DEF IInv, TypeOK
  <2> QED
    BY <1>0, <1>1, <2>2, <2>6, <2>7 DEF BypassInv, Sent
<1>7. CASE UpstreamAsks
  <2>1. UNCHANGED <<unsol, rd, owed>> /\ wire' = Append(wire, 0) /\ 0 \in 0 .. MaxReq
    BY <1>7, Numbers DEF UpstreamAsks, history, upVars
  <2>2. /\ DOMAIN wire = 1 .. Len(wire) /\ DOMAIN wire' = 1 .. Len(wire) + 1 /\ Len(wire) \in Nat
        /\ \A i \in DOMAIN wire : wire'[i] = wire[i]
        /\ wire'[Len(wire) + 1] = 0
    BY <1>0, <2>1, AppendProperties, LenProperties
  <2>3. \A i \in DOMAIN wire' : wire'[i] # 0 => wire'[i] \in Req /\ Begun(wire'[i])
    BY <1>2, <2>2 DEF BypassInv, Sent
  <2>4. rd.at = "forward" /\ rd.m # 0 => rd.m \in Req
    BY Numbers DEF IInv, TypeOK
  <2> QED
    BY <1>0, <1>1, <2>1, <2>3, <2>4 DEF BypassInv, Sent
<1>8. CASE Deliver \/ ReaderStops
  <2>1. UNCHANGED <<owed, wire, unsol>> /\ rd'.at # "forward"
    BY <1>8, IdleType DEF Deliver, ReaderStops, upVars, history, Idle
  <2> QED
    BY <1>3, <2>1
<1>9. CASE MatchResponse \/ MatchNothing
  <2>1. /\ UNCHANGED <<owed, unsol, pc, cur, resp, pending, chan>> \/ MatchResponse
        /\ UNCHANGED <<owed, unsol>> /\ wire # << >> /\ wire' = Tail(wire) /\ rd'.m = Head(wire)
        /\ rd.at # "deliver"
    BY <1>9 DEF MatchResponse, MatchNothing, NextLine, upVars, history, mainVars
  <2>2. /\ DOMAIN wire' = 1 .. Len(wire) - 1 /\ DOMAIN wire = 1 .. Len(wire) /\ Len(wire) \in Nat
        /\ Len(wire) >= 1 /\ Head(wire) = wire[1]
        /\ \A i \in 1 .. Len(wire) - 1 : wire'[i] = wire[i + 1]
    <3>1. /\ Tail(wire) \in Seq(0 .. MaxReq) /\ Len(Tail(wire)) = Len(wire) - 1
          /\ \A i \in 1 .. Len(Tail(wire)) : Tail(wire)[i] = wire[i + 1]
      BY <1>0, <2>1, HeadTailProperties
    <3>2. Len(wire) \in Nat /\ Len(wire) # 0 /\ DOMAIN wire = 1 .. Len(wire) /\ Head(wire) = wire[1]
      BY <1>0, <2>1
    <3> QED
      BY <2>1, <3>1, <3>2
  <2>3. \A i \in DOMAIN wire' : wire'[i] # 0 => wire'[i] \in Req /\ Begun(wire'[i])
    <3>1. \A i \in DOMAIN wire' : i + 1 \in DOMAIN wire /\ wire'[i] = wire[i + 1]
      BY <2>2
    <3> QED
      BY <1>2, <3>1 DEF BypassInv, Sent
  <2>4. ASSUME rd'.at = "forward", Head(wire) # 0 PROVE Head(wire) \in Req /\ Done(Head(wire))
    <3>1. Head(wire) \in Req /\ Begun(Head(wire))
      <4>1. 1 \in DOMAIN wire /\ Head(wire) = wire[1]
        BY <2>2
      <4> QED
        BY <1>2, <2>4, <4>1 DEF BypassInv, Sent
    <3>2. pending[Id[Head(wire)]] = 0
      BY <1>9, <2>4 DEF MatchNothing, MatchResponse
    <3>3. CASE InFlight /\ cur.n = Head(wire)
      BY <2>1, <3>1, <3>2, <3>3, Numbers DEF BypassInv, Registered, Done
    <3> QED
      BY <3>1, <3>3 DEF Begun
  <2>5. (rd.at = "forward" /\ rd.m # 0 => Done(rd.m))'
    <3>1. PICK n \in 0 .. MaxReq : n = Head(wire)
      BY <1>9, WireTypes DEF IInv, MatchResponse, MatchNothing
    <3>2. rd'.m = n
      BY <2>1, <3>1
    <3>3. ASSUME rd'.at = "forward", n # 0 PROVE Done(n)'
      <4>1. n \in Req /\ Done(n)
        BY <2>4, <3>1, <3>3 DEF Done, Ended
      <4> QED
        BY <1>0, <1>1, <4>1
    <3> QED
      BY <3>2, <3>3 DEF Done, Ended
  <2> QED
    BY <1>0, <1>1, <2>1, <2>3, <2>5 DEF BypassInv, Sent
<1>10. CASE Forward
  <2>1. UNCHANGED <<owed, wire>> /\ rd'.at # "forward" /\ rd.at = "forward"
        /\ unsol' = IF rd.m = 0 THEN unsol ELSE unsol \cup {rd.m}
    BY <1>10, IdleType DEF Forward, upVars, Idle
  <2>2. rd.m # 0 => rd.m \in Req /\ Done(rd.m)
    BY <2>1, Numbers DEF IInv, TypeOK, BypassInv, Sent
  <2> QED
    BY <1>0, <1>1, <1>2, <2>1, <2>2 DEF BypassInv, Sent
<1> QED
  BY <1>4, <1>5, <1>6, <1>7, <1>8, <1>9, <1>10 DEF Next, SendEnds, ReaderSteps, UpstreamSteps

\* A response passes the handler by only when it has given the request up, or
\* has a response to it: the map gives up an entry only to a response or to
\* the end of the wait.
THEOREM BypassLate == Spec => []BypassOnlyAfterGiveUp
<1>1. Init => BypassInv
  BY BoundsAssumption DEF Init, BypassInv, Registered, Refused, Sent, InFlight, Idle
<1>2. IInv /\ BypassInv /\ [Next]_vars => BypassInv'
  BY RegisteredKept, RefusedKept, SentKept DEF IInv, BypassInv
<1>3. BypassInv => BypassOnlyAfterGiveUp
  BY DEF BypassInv, BypassOnlyAfterGiveUp, Done, Ended, GaveUp, Served
<1> QED
  BY <1>1, <1>2, <1>3, Invariant, PTL DEF Spec

----------------------------------------------------------------------------
(* Where a response may be: only where its id belongs.                     *)

SameId(j, k) == Id[j] = Id[k]

ChanIds    == \A n \in Req : chan[n] # 0 => SameId(chan[n], n)
CarriedIds == rd.at = "deliver" => SameId(rd.m, rd.ch)

\* What the handler is about to write is an outcome its message allows.
Promise == pc \in {"record", "answer"} => resp \in Outcome(cur)

Corr == ChanIds /\ CarriedIds /\ Promise

\* The outcomes of Outcome, one kind at a time.
LEMMA Outcomes ==
  ASSUME NEW m
  PROVE  /\ m.kind = "meta" => Own("local") \in Outcome(m)
         /\ m.kind \in {"call", "relay"} =>
               /\ Own("timeout") \in Outcome(m) /\ Own("refused") \in Outcome(m)
               /\ \A k \in Req : SameId(k, m.n) =>
                     [how |-> "upstream", of |-> k] \in Outcome(m)
         /\ m.kind = "call" => Own("blocked") \in Outcome(m)
         /\ m.kind = "opaque" => Own("passed") \in Outcome(m) /\ Own("refused") \in Outcome(m)
         /\ m.kind \in {"notify", "reply"} =>
               Own("passed") \in Outcome(m) /\ Own("lost") \in Outcome(m)
<1>1. \A h \in OwnOutcomes[m.kind] : Own(h) \in Outcome(m)
  BY DEF Outcome
<1>2. m.kind \in {"call", "relay"} => \A k \in Req : SameId(k, m.n) =>
         [how |-> "upstream", of |-> k] \in Outcome(m)
  BY DEF Outcome, Answers, SameId
<1> QED
  BY <1>1, <1>2 DEF OwnOutcomes

----------------------------------------------------------------------------
(* Corr is preserved.                                                      *)

LEMMA CorrFrame ==
  ASSUME Corr, UNCHANGED chan, rd'.at = "deliver" => rd' = rd,
         UNCHANGED <<pc, cur, resp>> \/ pc' \notin {"record", "answer"}
  PROVE  Corr'
<1>1. ChanIds'
  BY DEF Corr, ChanIds
<1>2. CarriedIds'
  BY DEF Corr, CarriedIds
<1>3. Promise'
  BY DEF Corr, Promise
<1> QED
  BY <1>1, <1>2, <1>3 DEF Corr

\* The main goroutine comes to a response of its own, or to nothing at all.
LEMMA CorrOwn ==
  ASSUME Corr, IInv, RouteMeta \/ RouteBlocked \/ SendFails \/ RawSendFails \/ Timeout
  PROVE  Corr'
<1>1. UNCHANGED <<chan, rd>>
  BY DEF RouteMeta, RouteBlocked, SendFails, RawSendFails, Timeout
<1>2. ChanIds' /\ CarriedIds'
  BY <1>1 DEF Corr, ChanIds, CarriedIds
<1>3. Promise'
  <2>1. CASE RouteMeta
    <3>1. cur'.kind = "meta" /\ resp' = Own("local")
      BY <2>1 DEF RouteMeta
    <3> QED
      BY <3>1, Outcomes DEF Promise
  <2>2. CASE RouteBlocked
    <3>1. cur'.kind = "call" /\ resp' = Own("blocked")
      BY <2>2 DEF RouteBlocked
    <3> QED
      BY <3>1, Outcomes DEF Promise
  <2>3. CASE SendFails
    <3>1. cur'.kind \in {"call", "relay"} /\ resp' = Own("refused")
      BY <2>3 DEF SendFails, IInv, Stage, InFlight
    <3> QED
      BY <3>1, Outcomes DEF Promise
  <2>4. CASE Timeout
    <3>1. cur'.kind \in {"call", "relay"} /\ resp' = Own("timeout")
      BY <2>4 DEF Timeout, IInv, Stage, InFlight
    <3> QED
      BY <3>1, Outcomes DEF Promise
  <2>5. CASE RawSendFails /\ IsRequest(cur)
    <3>1. cur'.kind = "opaque" /\ resp' = Own("refused")
      BY <2>5 DEF RawSendFails, IInv, Stage, RawKinds, IsRequest, RequestKinds
    <3> QED
      BY <3>1, Outcomes DEF Promise
  <2>6. CASE RawSendFails /\ ~IsRequest(cur)
    BY <2>6 DEF RawSendFails, Promise
  <2> QED
    BY <2>1, <2>2, <2>3, <2>4, <2>5, <2>6
<1> QED
  BY <1>2, <1>3 DEF Corr

\* A response taken from the channel of a request carries its id.
LEMMA CorrReceive ==
  ASSUME Corr, IInv, Receive
  PROVE  Corr'
<1>1. cur.kind \in {"call", "relay"} /\ cur.n \in Req
  BY CurNumber DEF Receive, IInv, Stage, InFlight
<1>2. chan \in [Req -> 0 .. MaxReq]
  BY DEF IInv, TypeOK
<1>3. chan[cur.n] \in Req /\ SameId(chan[cur.n], cur.n)
  BY <1>1, <1>2, Numbers DEF Receive, Corr, ChanIds
<1>4. Promise'
  <2>1. resp' = [how |-> "upstream", of |-> chan[cur.n]] /\ cur' = cur
    BY DEF Receive
  <2>2. resp' \in Outcome(cur)
    BY <1>1, <1>3, <2>1, Outcomes
  <2>3. Outcome(cur)' = Outcome(cur')
    OBVIOUS
  <2> QED
    BY <2>1, <2>2 DEF Promise
<1>5. ChanIds'
  BY <1>1, <1>2 DEF Receive, Corr, ChanIds, SameId
<1>6. CarriedIds'
  BY DEF Receive, Corr, CarriedIds
<1> QED
  BY <1>4, <1>5, <1>6 DEF Corr

\* The reader takes an entry by the id of the response ...
LEMMA CorrMatch ==
  ASSUME Corr, IInv, MatchResponse
  PROVE  Corr'
<1>1. Head(wire) \in Req
  BY WireTypes, Numbers DEF MatchResponse, IInv
<1>2. Id[Head(wire)] \in Ids
  BY <1>1, IdAssumption
<1>3. /\ rd'.m = Head(wire)
      /\ rd'.ch = pending[Id[Head(wire)]]
      /\ pending[Id[Head(wire)]] # 0
  BY DEF MatchResponse
<1>4. CarriedIds'
  BY <1>2, <1>3 DEF IInv, NoStalePending, CarriedIds, SameId
<1>5. ChanIds' /\ Promise'
  BY DEF MatchResponse, Corr, ChanIds, Promise, mainVars
<1> QED
  BY <1>4, <1>5 DEF Corr

\* ... and puts the response into its channel.
LEMMA CorrDeliver ==
  ASSUME Corr, IInv, Deliver
  PROVE  Corr'
<1>1. rd.ch \in Req /\ SameId(rd.m, rd.ch)
  BY DEF Deliver, IInv, TypeOK, Corr, CarriedIds
<1>2. ChanIds'
  BY <1>1 DEF Deliver, IInv, TypeOK, Corr, ChanIds, SameId
<1>3. CarriedIds'
  BY IdleType DEF Deliver, CarriedIds
<1>4. Promise'
  BY DEF Deliver, Corr, Promise, mainVars
<1> QED
  BY <1>2, <1>3, <1>4 DEF Corr

LEMMA CorrRecord ==
  ASSUME Corr, RecordReceipt \/ RecordReceiptFails
  PROVE  Corr'
BY DEF RecordReceipt, RecordReceiptFails, Corr, ChanIds, CarriedIds, Promise

LEMMA CorrStep ==
  ASSUME Corr, IInv, [Next]_vars
  PROVE  Corr'
<1>1. CASE RouteRaw \/ RouteForward \/ WriteAnswer \/ ReadEOF \/ CloseReturns
  BY <1>1, CorrFrame DEF RouteRaw, RouteForward, WriteAnswer, ReadEOF, CloseReturns
<1>2. CASE SendReaches \/ SendReturns \/ RawSendReturns
  BY <1>2, CorrFrame DEF SendReaches, SendReturns, RawSendReturns
<1>3. CASE MatchNothing \/ Forward \/ ReaderStops
  <2>1. rd'.at # "deliver"
    BY <1>3 DEF MatchNothing, Forward, ReaderStops, Idle
  <2> QED
    BY <1>3, <2>1, CorrFrame DEF MatchNothing, Forward, ReaderStops, mainVars
<1>4. CASE AgentSteps \/ UpstreamSteps \/ Exited \/ UNCHANGED vars
  BY <1>4, CorrFrame DEF AgentSteps, AgentRequest, Sends, Writes, AgentNotify, AgentReply, AgentUnread, AgentClose,
     UpstreamSteps, UpstreamAnswers, UpstreamAsks, UpstreamExits, Exited, vars, mainVars
<1> QED
  BY <1>1, <1>2, <1>3, <1>4, CorrOwn, CorrReceive, CorrMatch, CorrDeliver, CorrRecord
     DEF Next, MainSteps, SendEnds, ReaderSteps

LEMMA CorrInit == Init => Corr
BY DEF Init, Corr, ChanIds, CarriedIds, Promise, Idle

LEMMA Correlation == Spec => []Corr
<1>1. IInv /\ Corr /\ [Next]_vars => Corr'
  BY CorrStep
<1> QED
  BY <1>1, CorrInit, Invariant, PTL DEF Spec

\* With ids of their own, as JSON-RPC asks of the agent, the answer written
\* for a request is the upstream's answer to that very request, or one of the
\* proxy: never the late answer to another.
THEOREM OwnAnswer ==
  ASSUME \A j, k \in Req : Id[j] = Id[k] => j = k
  PROVE  Spec => [](pc \in {"record", "answer"} /\ cur.kind \in {"call", "relay"}
                    /\ resp.how = "upstream" => resp.of = cur.n)
<1>1. ASSUME IInv, Corr, pc \in {"record", "answer"}, cur.kind \in {"call", "relay"},
             resp.how = "upstream"
      PROVE  resp.of = cur.n
  <2>1. cur.n \in Req
    BY <1>1, CurNumber DEF IInv
  <2>2. resp \in Outcome(cur)
    BY <1>1 DEF Corr, Promise
  <2>3. \A h \in OwnOutcomes[cur.kind] : Own(h).how # "upstream"
    BY <1>1 DEF OwnOutcomes, Own
  <2>4. resp \in Answers(cur)
    BY <1>1, <2>2, <2>3 DEF Outcome
  <2> QED
    BY <2>1, <2>4 DEF Answers
<1>2. IInv /\ Corr => (pc \in {"record", "answer"} /\ cur.kind \in {"call", "relay"}
                       /\ resp.how = "upstream" => resp.of = cur.n)
  BY <1>1
<1> QED
  BY <1>2, Invariant, Correlation, PTL

----------------------------------------------------------------------------
(* The refinement.  Busy is the message in hand: with stdin it makes the   *)
(* backlog of FifoService.                                                 *)

Busy == IF pc \in {"read", "closing", "exited"} THEN << >> ELSE <<cur>>

LEMMA SeqFacts ==
  ASSUME TypeOK
  PROVE  /\ Busy \in Seq(Msg) /\ stdin \in Seq(Msg)
         /\ << >> \o stdin = stdin
         /\ \A m \in Msg : Busy \o Append(stdin, m) = Append(Busy \o stdin, m)
<1>1. /\ cur \in Msg /\ stdin \in Seq(Msg)
      /\ <<cur>> \in Seq(Msg) /\ << >> \in Seq(Msg)
  BY DEF TypeOK
<1>2. Busy \in Seq(Msg)
  BY <1>1 DEF Busy
<1>3. << >> \o stdin = stdin
  BY <1>1, ConcatEmptySeq
<1>4. ASSUME NEW m \in Msg
      PROVE  Busy \o Append(stdin, m) = Append(Busy \o stdin, m)
  <2>1. <<m>> \in Seq(Msg) /\ Busy \o stdin \in Seq(Msg)
    BY <1>1, <1>2, <1>4, ConcatProperties
  <2>2. Append(stdin, m) = stdin \o <<m>>
    BY <1>1, <1>4, AppendIsConcat
  <2>3. Append(Busy \o stdin, m) = (Busy \o stdin) \o <<m>>
    BY <1>4, <2>1, AppendIsConcat
  <2>4. (Busy \o stdin) \o <<m>> = Busy \o (stdin \o <<m>>)
    BY <1>1, <1>2, <2>1, ConcatAssociative
  <2> QED
    BY <2>2, <2>3, <2>4
<1> QED
  BY <1>1, <1>2, <1>3, <1>4

LEMMA ConsFacts ==
  ASSUME NEW m \in Msg, NEW s \in Seq(Msg)
  PROVE  <<m>> \o s # << >> /\ Head(<<m>> \o s) = m /\ Tail(<<m>> \o s) = s
<1>1. <<m>> \in Seq(Msg) /\ Len(<<m>>) = 1 /\ <<m>>[1] = m /\ Len(s) \in Nat
  OBVIOUS
<1>2. /\ <<m>> \o s \in Seq(Msg)
      /\ Len(<<m>> \o s) = 1 + Len(s)
      /\ (<<m>> \o s)[1] = m
      /\ \A i \in 1 .. Len(s) : (<<m>> \o s)[i + 1] = s[i]
  BY <1>1, ConcatProperties
<1>3. <<m>> \o s # << >>
  BY <1>1, <1>2
<1>4. /\ Tail(<<m>> \o s) \in Seq(Msg)
      /\ Len(Tail(<<m>> \o s)) = Len(s)
      /\ \A i \in 1 .. Len(s) : Tail(<<m>> \o s)[i] = s[i]
  BY <1>1, <1>2, <1>3, HeadTailProperties
<1>5. Tail(<<m>> \o s) = s
  BY <1>4, SeqEqual
<1> QED
  BY <1>2, <1>3, <1>5

LEMMA UnconsFacts ==
  ASSUME NEW s \in Seq(Msg), s # << >>
  PROVE  <<Head(s)>> \o Tail(s) = s
<1>1. /\ Head(s) \in Msg /\ Tail(s) \in Seq(Msg)
      /\ Len(Tail(s)) = Len(s) - 1
      /\ \A i \in 1 .. Len(Tail(s)) : Tail(s)[i] = s[i + 1]
      /\ Head(s) = s[1] /\ Len(s) \in Nat /\ Len(s) # 0
  BY HeadTailProperties
<1>2. <<Head(s)>> \in Seq(Msg) /\ Len(<<Head(s)>>) = 1 /\ <<Head(s)>>[1] = Head(s)
  BY <1>1
<1> DEFINE t == <<Head(s)>> \o Tail(s)
<1>3. /\ t \in Seq(Msg) /\ Len(t) = 1 + Len(Tail(s))
      /\ \A i \in 1 .. 1 + Len(Tail(s)) :
            t[i] = IF i <= 1 THEN <<Head(s)>>[i] ELSE Tail(s)[i - 1]
  BY <1>1, <1>2, ConcatProperties
<1>4. Len(t) = Len(s) /\ \A i \in 1 .. Len(t) : t[i] = s[i]
  BY <1>1, <1>2, <1>3
<1> HIDE DEF t
<1>5. t = s
  BY <1>3, <1>4, SeqEqual
<1> QED
  BY <1>5 DEF t

\* Taking a line does not change the backlog.
LEMMA RefineTake ==
  ASSUME TypeOK, Take, pc' \notin {"read", "closing", "exited"}, UNCHANGED settled
  PROVE  UNCHANGED <<Busy \o stdin, settled>>
<1>1. /\ Busy = << >> /\ Busy' = <<cur'>>
      /\ stdin \in Seq(Msg) /\ stdin # << >>
      /\ cur' = Head(stdin) /\ stdin' = Tail(stdin)
  BY DEF Take, Busy, TypeOK
<1>2. Busy' \o stdin' = stdin
  BY <1>1, UnconsFacts
<1> QED
  BY <1>1, <1>2, SeqFacts

\* Whoever settles the message in hand finishes the head of the backlog.
LEMMA RefineSettle ==
  ASSUME TypeOK, NEW o \in Outcome(cur), Settle(o), UNCHANGED stdin,
         pc \notin {"read", "closing", "exited"}, pc' = "read"
  PROVE  Fifo!Finish
<1>1. Busy = <<cur>> /\ Busy' = << >> /\ cur \in Msg /\ stdin \in Seq(Msg)
  BY DEF Busy, TypeOK
<1>2. /\ Busy \o stdin # << >>
      /\ Head(Busy \o stdin) = cur
      /\ Tail(Busy \o stdin) = stdin
  BY <1>1, ConsFacts
<1>3. Busy' \o stdin' = stdin
  BY <1>1, SeqFacts
<1> QED
  BY <1>2, <1>3 DEF Fifo!Finish, Busy, Settle

LEMMA RefineAgent ==
  ASSUME TypeOK, NEW m \in Msg, stdin' = Append(stdin, m), UNCHANGED <<pc, cur, settled>>
  PROVE  Fifo!Accept
<1>1. Busy' = Busy
  BY DEF Busy
<1>2. Busy' \o stdin' = Append(Busy \o stdin, m)
  BY <1>1, SeqFacts
<1> QED
  BY <1>2 DEF Fifo!Accept, Busy

LEMMA RefineMain ==
  ASSUME IInv, Corr, MainSteps
  PROVE  [Fifo!FifoNext]_<<Busy \o stdin, settled>>
<1>1. TypeOK /\ Promise
  BY DEF IInv, Corr
<1>2. CASE RouteRaw \/ RouteMeta \/ RouteBlocked \/ RouteForward
  <2>1. Take /\ pc' \notin {"read", "closing", "exited"} /\ UNCHANGED settled
    BY <1>2 DEF RouteRaw, RouteMeta, RouteBlocked, RouteForward, history
  <2> QED
    BY <1>1, <2>1, RefineTake
<1>3. CASE Receive \/ Timeout \/ RecordReceipt \/ RecordReceiptFails
  BY <1>3 DEF Receive, Timeout, RecordReceipt, RecordReceiptFails, AfterWait, Busy, history
<1>4. CASE WriteAnswer
  <2>1. resp \in Outcome(cur)
    BY <1>1, <1>4 DEF WriteAnswer, Promise
  <2> QED
    BY <1>1, <1>4, <2>1, RefineSettle DEF WriteAnswer, Fifo!FifoNext
<1>5. CASE ReadEOF \/ CloseReturns
  BY <1>5 DEF ReadEOF, CloseReturns, Busy, history
<1> QED
  BY <1>2, <1>3, <1>4, <1>5 DEF MainSteps

LEMMA RefineSend ==
  ASSUME IInv, SendEnds
  PROVE  [Fifo!FifoNext]_<<Busy \o stdin, settled>>
<1>1. TypeOK /\ (pc = "rawsend" => cur.kind \in RawKinds)
  BY DEF IInv, Stage
<1>2. CASE SendReaches \/ SendReturns \/ SendFails
  BY <1>2 DEF SendReaches, SendReturns, SendFails, Busy, history
<1>3. CASE RawSendReturns
  <2>1. Own("passed") \in Outcome(cur)
    BY <1>1, <1>3, Outcomes DEF RawSendReturns, RawKinds
  <2> QED
    BY <1>1, <1>3, <2>1, RefineSettle DEF RawSendReturns, Fifo!FifoNext
<1>4. CASE RawSendFails /\ IsRequest(cur)
  BY <1>4 DEF RawSendFails, Busy
<1>5. CASE RawSendFails /\ ~IsRequest(cur)
  <2>1. Own("lost") \in Outcome(cur)
    BY <1>1, <1>5, Outcomes DEF RawSendFails, RawKinds, IsRequest, RequestKinds
  <2> QED
    BY <1>1, <1>5, <2>1, RefineSettle DEF RawSendFails, Fifo!FifoNext
<1> QED
  BY <1>2, <1>3, <1>4, <1>5 DEF SendEnds

LEMMA RefineAgentSteps ==
  ASSUME IInv, AgentSteps
  PROVE  [Fifo!FifoNext]_<<Busy \o stdin, settled>>
<1>1. TypeOK
  BY DEF IInv
<1>2. UNCHANGED <<pc, cur, settled>>
  BY DEF AgentSteps, AgentRequest, Sends, Writes, AgentNotify, AgentReply, AgentUnread, AgentClose, mainVars, history
<1>3. ASSUME NEW m \in Msg, stdin' = Append(stdin, m) PROVE Fifo!FifoNext
  BY <1>1, <1>2, <1>3, RefineAgent DEF Fifo!FifoNext
<1>4. ASSUME NEW k \in RequestKinds, NEW n \in Req, AgentRequest(k, n) PROVE Fifo!FifoNext
  <2>1. [kind |-> k, n |-> n] \in Msg
    BY DEF Msg
  <2> QED
    BY <1>3, <1>4, <2>1 DEF AgentRequest, Sends
<1>5. CASE AgentNotify \/ AgentReply
  <2>1. [kind |-> "notify", n |-> 0] \in Msg /\ [kind |-> "reply", n |-> 0] \in Msg
    BY DEF Msg
  <2>2. Fifo!FifoNext
    BY <1>3, <1>5, <2>1 DEF AgentNotify, AgentReply, Sends, Writes
  <2> QED
    BY <2>2
<1>6. CASE AgentUnread \/ AgentClose
  BY <1>2, <1>6 DEF AgentUnread, AgentClose, Busy
<1> QED
  BY <1>4, <1>5, <1>6 DEF AgentSteps

LEMMA RefineStep ==
  ASSUME IInv, Corr, [Next]_vars
  PROVE  [Fifo!FifoNext]_<<Busy \o stdin, settled>>
<1>1. CASE ReaderSteps
  BY <1>1 DEF ReaderSteps, MatchResponse, MatchNothing, Deliver, Forward, ReaderStops,
     Busy, mainVars, history
<1>2. CASE UpstreamSteps \/ Exited \/ UNCHANGED vars
  BY <1>2 DEF UpstreamSteps, UpstreamAnswers, UpstreamAsks, UpstreamExits, Exited,
     Busy, vars, mainVars, history
<1> QED
  BY <1>1, <1>2, RefineMain, RefineSend, RefineAgentSteps DEF Next

\* The agent sees one outcome of an allowed kind for each of its messages, in
\* the order of the messages, however the handlers, the timer, the reader and
\* the upstream interleave.
THEOREM Refinement == Spec => RefinesFifo
<1>1. Init => Fifo!FifoInit
  BY ConcatEmptySeq DEF Init, Fifo!FifoInit
<1>2. IInv /\ Corr /\ [Next]_vars => [Fifo!FifoNext]_Fifo!fifoVars
  BY RefineStep DEF Fifo!fifoVars, Busy
<1> QED
  BY <1>1, <1>2, Invariant, Correlation, PTL DEF Spec, RefinesFifo, Fifo!FifoSpec
=============================================================================
