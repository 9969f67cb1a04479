--------------------------- MODULE HttpTransport ---------------------------
(***************************************************************************)
(* The HTTP transport (internal/transport/sse.go) of process Self over its *)
(* token provider (module Tokens).  Send and Close are called by the main  *)
(* goroutine of the proxy, ReadLine by its reader; each answer that is a   *)
(* stream has a goroutine that parses it.  All of them meet at the queue   *)
(* `incoming` and at the channel `closed`.                                 *)
(*                                                                         *)
(* A line is a pair: the number of the Send whose answer brought it, and   *)
(* its number in that answer.                                              *)
(***************************************************************************)
EXTENDS Tokens, Sequences

CONSTANTS
  Self,       \* the process
  QueueSize,  \* 64 in the code
  MaxSends,   \* bound: calls of Send
  MaxLines    \* bound: lines of a stream

ASSUME HttpAssumption ==
  /\ Self \in Proc
  /\ QueueSize \in Nat \ {0} /\ MaxSends \in Nat /\ MaxLines \in Nat

VARIABLES
  main,       \* where the main goroutine is
  attempt,    \* 1, and 2 after a 401
  carried,    \* the token of the request under way, 0 without one
  session,    \* there is a session id
  closed,     \* the channel closed is closed
  rd,         \* the reader
  queue,      \* the channel incoming
  stream,     \* stream[n]: the goroutine of the n-th answer
  sends,      \* calls of Send
  read,       \* history: read[n]: lines of answer n read so far
  delivered,  \* history: delivered[n]: those that ReadLine has returned
  refusals    \* history: refusals[t]: how often token t was refused

httpVars == <<main, attempt, carried, session, closed, rd, queue, stream, sends,
              read, delivered, refusals>>

Send == 1 .. MaxSends

HttpInit ==
  /\ TokensInit
  /\ main = "off" /\ attempt = 1 /\ carried = 0
  /\ session = FALSE /\ closed = FALSE
  /\ rd = "off" /\ queue = <<>>
  /\ stream = [n \in Send |-> "none"]
  /\ sends = 0
  /\ read = [n \in Send |-> 0]
  /\ delivered = [n \in Send |-> <<>>]
  /\ refusals = [t \in 0 .. MaxTokens |-> 0]

MainGoes(from, to) == main = from /\ main' = to
Room == Len(queue) < QueueSize

\* CreateUpstreamTransport.
Start ==
  /\ MainGoes("off", "ready")
  /\ StartProvider(Self)
  /\ rd' = "reading"
  /\ UNCHANGED <<attempt, carried, session, closed, queue, stream, sends, read, delivered, refusals>>

----------------------------------------------------------------------------
(* Send.                                                                   *)

\* doPost gets as far as Token, or without a provider to the post.
Posts(from) ==
  IF provider = "none"
  THEN MainGoes(from, "post") /\ UNCHANGED tokenVars
  ELSE MainGoes(from, "token") /\ Ask(Self)

SendBegins ==
  /\ sends < MaxSends
  /\ Posts("ready")
  /\ attempt' = 1
  /\ sends' = sends + 1
  /\ UNCHANGED <<carried, session, closed, rd, queue, stream, read, delivered, refusals>>

\* Token has returned; "obtain auth token" is the end of Send.
TokenReturns ==
  /\ main = "token"
  /\ tpc[Self] = "idle"
  /\ IF got[Self] = 0
     THEN main' = "ready" /\ UNCHANGED carried
     ELSE main' = "post" /\ carried' = got[Self]
  /\ UNCHANGED <<tokenVars, attempt, session, closed, rd, queue, stream, sends, read, delivered, refusals>>

PostFails ==
  /\ MainGoes("post", "ready")
  /\ carried' = 0
  /\ UNCHANGED <<tokenVars, attempt, session, closed, rd, queue, stream, sends, read, delivered, refusals>>

\* Variant: there is always another attempt.
UnauthorizedAlwaysRetried ==
  /\ MainGoes("post", "again")
  /\ provider # "none"
  /\ Invalidate(Self)
  /\ refusals' = [refusals EXCEPT ![carried] = @ + 1]
  /\ carried' = 0
  /\ UNCHANGED <<attempt, session, closed, rd, queue, stream, sends, read, delivered>>

\* The server answers 401, for a reason of its own: the token is invalidated
\* and the request sent again, but only once.
Unauthorized ==
  /\ main = "post"
  /\ provider # "none"
  /\ IF attempt = 1
     THEN main' = "again" /\ Invalidate(Self)
     ELSE main' = "ready" /\ UNCHANGED tokenVars
  /\ refusals' = [refusals EXCEPT ![carried] = @ + 1]
  /\ carried' = 0
  /\ UNCHANGED <<attempt, session, closed, rd, queue, stream, sends, read, delivered>>

Retry ==
  /\ Posts("again")
  /\ attempt' = 2
  /\ UNCHANGED <<carried, session, closed, rd, queue, stream, sends, read, delivered, refusals>>

\* handleResponse: the answer may bring a session id, and is a body to put
\* into the queue, a stream, or nothing (an error included).
PostAnswered ==
  /\ main = "post"
  /\ carried' = 0
  /\ session' \in {session, TRUE}
  /\ \/ main' = "push" /\ read' = [read EXCEPT ![sends] = 1] /\ UNCHANGED stream
     \/ main' = "ready" /\ stream' = [stream EXCEPT ![sends] = "open"] /\ UNCHANGED read
     \/ main' = "ready" /\ UNCHANGED <<stream, read>>
  /\ UNCHANGED <<tokenVars, attempt, closed, rd, queue, sends, delivered, refusals>>

PushBody ==
  /\ MainGoes("push", "ready")
  /\ Room
  /\ queue' = Append(queue, <<sends, 1>>)
  /\ UNCHANGED <<tokenVars, attempt, carried, session, closed, rd, stream, sends, read, delivered, refusals>>

----------------------------------------------------------------------------
(* consumeSSEStream and dispatchSSEData.                                   *)

\* The next message, of an event or of the batch in one.
StreamReads(n) ==
  /\ stream[n] = "open"
  /\ read[n] < MaxLines
  /\ stream' = [stream EXCEPT ![n] = "push"]
  /\ read' = [read EXCEPT ![n] = @ + 1]
  /\ UNCHANGED <<tokenVars, main, attempt, carried, session, closed, rd, queue, sends, delivered, refusals>>

StreamPushes(n) ==
  /\ stream[n] = "push"
  /\ Room
  /\ stream' = [stream EXCEPT ![n] = "open"]
  /\ queue' = Append(queue, <<n, read[n]>>)
  /\ UNCHANGED <<tokenVars, main, attempt, carried, session, closed, rd, sends, read, delivered, refusals>>

\* Variant: nobody tells the goroutine that the transport is closed.
StreamDropsNothing(n) == stream[n] = "off" /\ UNCHANGED <<tokenVars, httpVars>>

\* Variant: a line that finds the queue full is dropped.
StreamDropsIfFull(n) ==
  /\ stream[n] = "push"
  /\ closed \/ ~Room
  /\ stream' = [stream EXCEPT ![n] = "open"]
  /\ UNCHANGED <<tokenVars, main, attempt, carried, session, closed, rd, queue, sends, read, delivered, refusals>>

\* The transport is closed: the line is gone, and the goroutine reads on.
StreamDrops(n) ==
  /\ stream[n] = "push"
  /\ closed
  /\ stream' = [stream EXCEPT ![n] = "open"]
  /\ UNCHANGED <<tokenVars, main, attempt, carried, session, closed, rd, queue, sends, read, delivered, refusals>>

\* The server ends the stream, or it breaks.
StreamEnds(n) ==
  /\ stream[n] = "open"
  /\ stream' = [stream EXCEPT ![n] = "ended"]
  /\ UNCHANGED <<tokenVars, main, attempt, carried, session, closed, rd, queue, sends, read, delivered, refusals>>

----------------------------------------------------------------------------
(* ReadLine: the select takes either branch when both are ready.           *)

ReadLine ==
  /\ rd = "reading"
  /\ queue # <<>>
  /\ queue' = Tail(queue)
  /\ LET line == Head(queue) IN
       delivered' = [delivered EXCEPT ![line[1]] = Append(@, line[2])]
  /\ UNCHANGED <<tokenVars, main, attempt, carried, session, closed, rd, stream, sends, read, refusals>>

ReadEnds ==
  /\ rd = "reading"
  /\ closed
  /\ rd' = "ended"
  /\ UNCHANGED <<tokenVars, main, attempt, carried, session, closed, queue, stream, sends, read, delivered, refusals>>

----------------------------------------------------------------------------
(* Close, whose DELETE has a token if there is one.                        *)

\* Variant: the session ends, and the channel stays open.
CloseBeginsSilently ==
  /\ IF session /\ provider # "none"
     THEN MainGoes("ready", "closing") /\ Ask(Self)
     ELSE MainGoes("ready", IF session THEN "delete" ELSE "closed") /\ UNCHANGED tokenVars
  /\ UNCHANGED <<attempt, carried, session, closed, rd, queue, stream, sends, read, delivered, refusals>>

CloseBegins ==
  /\ IF session /\ provider # "none"
     THEN MainGoes("ready", "closing") /\ Ask(Self)
     ELSE MainGoes("ready", IF session THEN "delete" ELSE "closed") /\ UNCHANGED tokenVars
  /\ closed' = TRUE
  /\ UNCHANGED <<attempt, carried, session, rd, queue, stream, sends, read, delivered, refusals>>

CloseHasToken ==
  /\ MainGoes("closing", "delete")
  /\ tpc[Self] = "idle"
  /\ UNCHANGED <<tokenVars, attempt, carried, session, closed, rd, queue, stream, sends, read, delivered, refusals>>

Delete ==
  /\ MainGoes("delete", "closed")
  /\ UNCHANGED <<tokenVars, attempt, carried, session, closed, rd, queue, stream, sends, read, delivered, refusals>>

----------------------------------------------------------------------------
\* The answer to a post, whatever it is.
PostEnds == PostFails \/ Unauthorized \/ PostAnswered

\* What the main goroutine does once Send or Close is called.
MainSteps == TokenReturns \/ PostEnds \/ Retry \/ PushBody \/ CloseHasToken \/ Delete

Reader == ReadLine \/ ReadEnds

StreamSteps(n) == StreamPushes(n) \/ StreamDrops(n)

HttpNext ==
  \/ Start \/ SendBegins \/ CloseBegins \/ MainSteps \/ Reader
  \/ \E n \in Send : StreamReads(n) \/ StreamSteps(n) \/ StreamEnds(n)
  \/ TokenSteps(Self) /\ UNCHANGED httpVars

vars == <<tokenVars, httpVars>>

HttpSpec == HttpInit /\ [][HttpNext]_vars

\* Goroutines run, and servers answer: the clients of the transport and of
\* the providers have no timeout, so the last is an assumption.
HttpLiveSpec ==
  /\ HttpSpec
  /\ WF_vars(MainSteps)
  /\ WF_vars(TokenSteps(Self) /\ UNCHANGED httpVars)
  /\ WF_vars(Reader)
  /\ \A n \in Send : WF_vars(StreamSteps(n))

----------------------------------------------------------------------------
(* Properties.                                                             *)

\* Type correctness, with what the goroutines may rely on: only Close closes
\* the channel, and only the request under way has a token.
HttpTypeOK ==
  /\ main \in {"off", "ready", "token", "post", "again", "push", "closing", "delete", "closed"}
  /\ attempt \in {1, 2}
  /\ carried \in 0 .. MaxTokens
  /\ session \in BOOLEAN /\ closed \in BOOLEAN
  /\ rd \in {"off", "reading", "ended"}
  /\ queue \in Seq(Send \X Nat) /\ Len(queue) <= QueueSize
  /\ stream \in [Send -> {"none", "open", "push", "ended"}]
  /\ sends \in 0 .. MaxSends
  /\ read \in [Send -> Nat]
  /\ delivered \in [Send -> Seq(Nat)]
  /\ refusals \in [0 .. MaxTokens -> Nat]
  /\ closed <=> main \in {"closing", "delete", "closed"}
  /\ carried # 0 => main = "post"

Increasing(s) == \A i, j \in DOMAIN s : i < j => s[i] < s[j]

\* A line of answer n is on its way into the queue; the lines before it; and
\* where those are that are in the queue.
InHand(n) == stream[n] = "push" \/ (main = "push" /\ sends = n)
Pushed(n) == 1 .. (IF InHand(n) THEN read[n] - 1 ELSE read[n])
Places(n) == {i \in DOMAIN queue : queue[i][1] = n}

\* Until Close no line of an answer is lost, doubled or out of order on its
\* way through the queue, however many streams share it; and after Close,
\* when both branches of a select are ready and a line in the middle may be
\* dropped, none comes twice or too late.
InOrder(n) ==
  /\ Increasing(delivered[n])
  /\ \A i, j \in Places(n) : i < j => queue[i][2] < queue[j][2]
  /\ \A k \in DOMAIN delivered[n], i \in Places(n) : delivered[n][k] < queue[i][2]

NoneLost(n) ==
  \A line \in Pushed(n) : \/ \E k \in DOMAIN delivered[n] : delivered[n][k] = line
                          \/ \E i \in Places(n) : queue[i][2] = line

LinesInOrder ==
  \A n \in Send :
     /\ \A k \in DOMAIN delivered[n] : delivered[n][k] \in Pushed(n)
     /\ \A i \in Places(n) : queue[i][2] \in Pushed(n)
     /\ InOrder(n)
     /\ closed \/ NoneLost(n)

\* The second attempt is not made with a token that was refused before, and a
\* token is refused at most twice: the second attempt leaves it in memory, and
\* the next Send tries it again before it asks for another.
RetryIsFresh ==
  provider # "command" =>
     /\ main = "post" /\ attempt = 2 => refusals[carried] = 0
     /\ \A t \in 1 .. MaxTokens : refusals[t] <= 2

\* A call of Send or Close comes back: with the reader at work no queue that
\* is full and no refused token holds it up.
CallsReturn == main \notin {"off", "ready", "closed"} ~> main \in {"ready", "closed"}

\* A goroutine does not hang on a full queue, not even when the transport is
\* closed and nobody reads any more.
StreamsGoOn == \A n \in Send : stream[n] = "push" ~> stream[n] # "push"
=============================================================================
