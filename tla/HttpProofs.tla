----------------------------- MODULE HttpProofs -----------------------------
(***************************************************************************)
(* Theorems about module HttpTransport, for any process, size of the queue *)
(* and length of the streams.                                              *)
(***************************************************************************)
EXTENDS HttpTransport, TokensProofs, SequenceTheorems

----------------------------------------------------------------------------
(* The inductive invariant, beyond that of the tokens.                     *)

\* The provider works only while Send or Close waits for it; and an answer
\* that is a body has no stream.
Calls ==
  /\ main = "off" <=> tpc[Self] = "off"
  /\ tpc[Self] \notin {"off", "idle"} => main \in {"token", "closing"}
  /\ main \in {"token", "post", "again", "push"} => sends # 0
  /\ \A n \in Send :
        n > sends \/ (n = sends /\ main \in {"token", "post", "again"}) =>
           read[n] = 0 /\ stream[n] = "none"
  /\ main = "push" => read[sends] = 1 /\ stream[sends] = "none"
  /\ \A n \in Send : stream[n] = "push" => read[n] # 0

\* Every token was issued.
Ids ==
  /\ issued \in 1 .. MaxTokens
  /\ main = "off" => file.tk.id <= issued
  /\ mem[Self].id <= issued /\ answer[Self].id <= issued
  /\ carried <= issued

\* The token in memory was refused once at most, and not at all when the
\* second attempt asks for it, is about to, or is under way.
Refusals ==
  /\ refusals[0] = 0
  /\ \A t \in 1 .. MaxTokens : refusals[t] <= 2 /\ (t > issued \/ main = "off" => refusals[t] = 0)
  /\ refusals[mem[Self].id] <= 1
  /\ refusals[answer[Self].id] = 0
  /\ main = "token" => provider # "none"
  /\ main = "token" /\ tpc[Self] = "idle" /\ got[Self] # 0 => got[Self] = mem[Self].id
  /\ main = "post" => carried = IF provider = "none" THEN 0 ELSE mem[Self].id
  /\ main = "post" /\ provider # "none" => carried # 0
  /\ main = "again" => mem[Self].id = 0
  /\ attempt = 2 /\ main \in {"token", "post"} => refusals[mem[Self].id] = 0

HttpIInv == HttpTypeOK /\ Calls /\ Ids /\ Refusals /\ LinesInOrder

----------------------------------------------------------------------------
(* The providers under the transport.                                      *)

\* Whatever the transport does, to its provider it is a call or nothing.
LEMMA ProviderSteps == [HttpNext]_vars => [TokensNext]_tokenVars
<1> SUFFICES ASSUME [HttpNext]_vars PROVE [TokensNext]_tokenVars
  OBVIOUS
<1>1. Self \in Proc
  BY HttpAssumption
<1>2. CASE Start
  BY <1>1, <1>2 DEF Start, TokensNext
<1>3. CASE SendBegins \/ Retry \/ CloseBegins
  <2>1. Ask(Self) \/ UNCHANGED tokenVars
    BY <1>3 DEF SendBegins, Retry, CloseBegins, Posts
  <2> QED
    BY <1>1, <2>1 DEF TokensNext
<1>4. CASE Unauthorized
  <2>1. Invalidate(Self) \/ UNCHANGED tokenVars
    BY <1>4 DEF Unauthorized
  <2> QED
    BY <1>1, <2>1 DEF TokensNext
<1>5. CASE TokenSteps(Self)
  BY <1>1, <1>5 DEF TokensNext
<1>6. CASE TokenReturns \/ PostFails \/ PostAnswered \/ PushBody \/ CloseHasToken \/ Delete \/ Reader
           \/ (\E n \in Send : StreamReads(n) \/ StreamSteps(n) \/ StreamEnds(n)) \/ UNCHANGED vars
  BY <1>6 DEF TokenReturns, PostFails, PostAnswered, PushBody, CloseHasToken, Delete, Reader, ReadLine,
     ReadEnds, StreamReads, StreamSteps, StreamPushes, StreamDrops, StreamEnds, vars
<1> QED
  BY <1>2, <1>3, <1>4, <1>5, <1>6 DEF HttpNext, MainSteps, PostEnds

\* The transport uses its provider as module Tokens lets a process use one:
\* what is proved of the tokens holds of them under the transport.
THEOREM ImplementsTokens == HttpSpec => TokensSpec
<1>1. HttpInit => TokensInit
  BY DEF HttpInit
<1> QED
  BY <1>1, ProviderSteps, PTL DEF HttpSpec, TokensSpec

\* The types of what the process has of its provider.
LEMMA SelfTypes ==
  ASSUME TokensIInv
  PROVE  /\ Self \in Proc
         /\ mem[Self].id \in Nat /\ answer[Self].id \in Nat /\ got[Self] \in Nat
         /\ file.tk.id \in Nat /\ issued \in Nat /\ MaxTokens \in Nat \ {0}
         /\ answer[Self].id # 0 <=> tpc[Self] = "answered"
BY HttpAssumption, TokensAssumption DEF TokensIInv, TokensTypeOK, Token, Content

\* What Token does in the process: a token that comes into memory, or into an
\* answer, is a new one, and Token returns what is in memory.
LEMMA TokenEffects ==
  ASSUME TokensIInv, Ids, TokenSteps(Self)
  PROVE  /\ tpc[Self] \notin {"off", "idle"} /\ tpc'[Self] # "off"
         /\ issued' \in issued .. MaxTokens /\ provider' = provider
         /\ mem'[Self].id \in {mem[Self].id, answer[Self].id}
         /\ \/ answer'[Self].id \in {0, answer[Self].id}
            \/ answer'[Self].id = issued' /\ issued' = issued + 1
         /\ tpc'[Self] = "idle" /\ got'[Self] # 0 => got'[Self] = mem'[Self].id
<1>1. /\ TokensTypeOK /\ Self \in Proc /\ issued \in 1 .. MaxTokens /\ MaxTokens \in Nat
      /\ mem \in [Proc -> Token] /\ answer \in [Proc -> Token] /\ got \in [Proc -> Nat]
      /\ tpc \in [Proc -> {"off", "idle", "asked", "answered"} \cup Saving]
  BY SelfTypes DEF TokensIInv, TokensTypeOK, Ids
<1> USE DEF Goes, Returns, server
<1>2. CASE ReturnCached(Self)
  BY <1>1, <1>2 DEF ReturnCached
<1>3. CASE ReturnNothing(Self) \/ EndpointRejects(Self)
  BY <1>1, <1>3 DEF ReturnNothing, EndpointRejects
<1>4. CASE EndpointAnswers(Self)
  <2>1. issued' = issued + 1 /\ issued < MaxTokens /\ UNCHANGED <<mem, got, provider>>
        /\ tpc[Self] = "asked" /\ tpc' = [tpc EXCEPT ![Self] = "answered"]
    BY <1>4 DEF EndpointAnswers
  <2>2. answer'[Self].id = issued'
    BY <1>1, <1>4 DEF EndpointAnswers, NoToken
  <2> QED
    BY <1>1, <2>1, <2>2
<1>5. CASE FetchFails(Self)
  BY <1>1, <1>5 DEF FetchFails, NoToken
<1>6. CASE ReceiveAnswer(Self)
  <2>1. tpc[Self] = "answered" /\ UNCHANGED <<issued, provider>>
        /\ tpc' = [tpc EXCEPT ![Self] = IF provider = "stored" THEN "create" ELSE "idle"]
        /\ answer' = [answer EXCEPT ![Self] = NoToken]
    BY <1>6 DEF ReceiveAnswer
  <2>2. mem'[Self].id = answer[Self].id
    BY <1>1, <1>6 DEF ReceiveAnswer, Token
  <2>3. provider # "stored" => got'[Self] = mem'[Self].id
    BY <1>1, <1>6 DEF ReceiveAnswer
  <2> QED
    BY <1>1, <2>1, <2>2, <2>3 DEF NoToken
<1>7. CASE SaveCreate(Self) \/ SaveWrite(Self)
  BY <1>1, <1>7 DEF SaveCreate, SaveWrite
<1>8. CASE SaveRename(Self) \/ SaveFails(Self)
  BY <1>1, <1>8 DEF SaveRename, SaveFails, Saving
<1> QED
  BY <1>2, <1>3, <1>4, <1>5, <1>6, <1>7, <1>8 DEF TokenSteps

----------------------------------------------------------------------------
(* Lines.                                                                  *)

\* A step that leaves lines and hands alone.
LEMMA LinesSame ==
  ASSUME HttpTypeOK, LinesInOrder, UNCHANGED <<queue, read, delivered>>, closed => closed',
         \A n \in Send : InHand(n)' <=> InHand(n)
  PROVE  LinesInOrder'
<1>1. ASSUME NEW n \in Send
      PROVE  Places(n)' = Places(n) /\ Pushed(n)' = Pushed(n) /\ delivered'[n] = delivered[n]
  BY <1>1 DEF Places, Pushed
<1> QED
  BY <1>1 DEF LinesInOrder, InOrder, NoneLost

\* A line that a goroutine has in hand is the next of its answer: it comes into
\* the hand when the others were pushed ...
LEMMA LineTaken ==
  ASSUME HttpTypeOK, LinesInOrder, NEW m \in Send, ~InHand(m), InHand(m)',
         UNCHANGED <<queue, delivered, closed>>, read' = [read EXCEPT ![m] = @ + 1],
         \A n \in Send \ {m} : InHand(n)' <=> InHand(n)
  PROVE  LinesInOrder'
<1>1. ASSUME NEW n \in Send
      PROVE  Places(n)' = Places(n) /\ Pushed(n)' = Pushed(n) /\ delivered'[n] = delivered[n]
  <2>1. read \in [Send -> Nat]
    BY DEF HttpTypeOK
  <2> QED
    BY <1>1, <2>1 DEF Places, Pushed
<1> QED
  BY <1>1 DEF LinesInOrder, InOrder, NoneLost

\* ... and behind the others into the queue.
LEMMA LinePushed ==
  ASSUME HttpTypeOK, LinesInOrder, NEW m \in Send, InHand(m), ~InHand(m)', read[m] # 0,
         queue' = Append(queue, <<m, read[m]>>), UNCHANGED <<read, delivered, closed>>,
         \A n \in Send \ {m} : InHand(n)' <=> InHand(n)
  PROVE  LinesInOrder'
<1>1. /\ queue \in Seq(Send \X Nat) /\ read \in [Send -> Nat] /\ read[m] \in Nat
      /\ <<m, read[m]>> \in Send \X Nat
  BY DEF HttpTypeOK
<1>2. /\ Len(queue) \in Nat /\ DOMAIN queue = 1 .. Len(queue)
      /\ DOMAIN queue' = 1 .. Len(queue) + 1
      /\ \A i \in 1 .. Len(queue) : queue'[i] = queue[i]
      /\ queue'[Len(queue) + 1] = <<m, read[m]>>
  <2>1. queue' \in Seq(Send \X Nat) /\ Len(queue') = Len(queue) + 1
    BY <1>1, AppendProperties
  <2> QED
    BY <1>1, <2>1, AppendProperties, LenProperties
<1>3. /\ \A n \in Send \ {m} : Places(n)' = Places(n) /\ Pushed(n)' = Pushed(n)
      /\ Places(m)' = Places(m) \cup {Len(queue) + 1}
      /\ Pushed(m)' = 1 .. read[m] /\ Pushed(m) = 1 .. read[m] - 1
      /\ \A n \in Send : \A i \in Places(n) : i \in 1 .. Len(queue) /\ queue'[i] = queue[i]
      /\ queue'[Len(queue) + 1][2] = read[m] /\ read[m] \in Pushed(m)'
  <2>1. \A n \in Send \ {m} : Places(n)' = Places(n) /\ Pushed(n)' = Pushed(n)
    BY <1>2 DEF Places, Pushed
  <2>2. Places(m)' = Places(m) \cup {Len(queue) + 1}
    BY <1>2 DEF Places
  <2>3. Pushed(m)' = 1 .. read[m] /\ Pushed(m) = 1 .. read[m] - 1
    BY DEF Pushed
  <2>4. \A n \in Send : \A i \in Places(n) : i \in 1 .. Len(queue) /\ queue'[i] = queue[i]
    BY <1>2 DEF Places
  <2> QED
    BY <1>1, <1>2, <2>1, <2>2, <2>3, <2>4
<1>4. ASSUME NEW n \in Send
      PROVE  /\ \A k \in DOMAIN delivered'[n] : delivered'[n][k] \in Pushed(n)'
             /\ \A i \in Places(n)' : queue'[i][2] \in Pushed(n)'
             /\ InOrder(n)'
             /\ closed' \/ NoneLost(n)'
  <2>0. /\ \A k \in DOMAIN delivered[n] : delivered[n][k] \in Pushed(n)
        /\ \A i \in Places(n) : queue[i][2] \in Pushed(n)
        /\ InOrder(n) /\ (closed \/ NoneLost(n))
    BY <1>4 DEF LinesInOrder
  <2>1. CASE n # m
    BY <1>3, <1>4, <2>0, <2>1 DEF InOrder, NoneLost
  <2>2. CASE n = m
    <3>1. /\ \A k \in DOMAIN delivered[n] : delivered[n][k] \in 1 .. read[m] - 1
          /\ \A i \in Places(n) : queue[i][2] \in 1 .. read[m] - 1
      BY <1>3, <2>0, <2>2
    <3>2. InOrder(n)'
      <4>1. Increasing(delivered[n])'
        BY <2>0 DEF InOrder, Increasing
      <4>2. ASSUME NEW i \in Places(n)', NEW j \in Places(n)', i < j PROVE queue'[i][2] < queue'[j][2]
        <5>1. i \in Places(n)
          BY <1>2, <1>3, <2>2, <4>2
        <5>2. CASE j = Len(queue) + 1
          <6>1. queue'[i] = queue[i] /\ queue[i][2] \in 1 .. read[m] - 1
            BY <1>3, <1>4, <3>1, <5>1
          <6>2. queue'[j][2] = read[m]
            BY <1>3, <5>2
          <6>3. queue[i][2] < read[m]
            BY <1>1, <6>1
          <6> QED
            BY <6>1, <6>2, <6>3
        <5>3. CASE j # Len(queue) + 1
          BY <1>3, <2>0, <2>2, <4>2, <5>1, <5>3 DEF InOrder
        <5> QED
          BY <5>2, <5>3
      <4>3. ASSUME NEW k \in DOMAIN delivered[n], NEW i \in Places(n)' PROVE delivered[n][k] < queue'[i][2]
        <5>1. CASE i = Len(queue) + 1
          BY <1>1, <1>3, <3>1, <5>1
        <5>2. CASE i # Len(queue) + 1
          BY <1>3, <2>0, <2>2, <4>3, <5>2 DEF InOrder
        <5> QED
          BY <5>1, <5>2
      <4> QED
        BY <4>1, <4>2, <4>3 DEF InOrder
    <3>3. NoneLost(n) => NoneLost(n)'
      <4> SUFFICES ASSUME NoneLost(n), NEW line \in Pushed(n)'
                   PROVE  \/ \E k \in DOMAIN delivered'[n] : delivered'[n][k] = line
                          \/ \E i \in Places(n)' : queue'[i][2] = line
        BY DEF NoneLost
      <4>1. CASE line = read[m]
        BY <1>3, <2>2, <4>1
      <4>2. CASE line # read[m]
        <5>1. line \in Pushed(n)
          BY <1>1, <1>3, <2>2, <4>2
        <5> QED
          BY <1>3, <2>2, <5>1 DEF NoneLost
      <4> QED
        BY <4>1, <4>2
    <3> QED
      BY <1>1, <1>3, <2>0, <2>2, <3>1, <3>2, <3>3
  <2> QED
    BY <2>1, <2>2
<1> QED
  BY <1>4 DEF LinesInOrder

\* ReadLine takes the oldest line of its answer.
LEMMA LineRead ==
  ASSUME HttpTypeOK, LinesInOrder, ReadLine
  PROVE  LinesInOrder'
<1>1. /\ queue \in Seq(Send \X Nat) /\ queue # << >> /\ queue' = Tail(queue)
      /\ delivered \in [Send -> Seq(Nat)]
  BY DEF HttpTypeOK, ReadLine
<1>2. /\ Len(queue) \in Nat \ {0} /\ DOMAIN queue = 1 .. Len(queue) /\ Head(queue) = queue[1]
      /\ Head(queue) \in Send \X Nat
  BY <1>1
<1>3. /\ DOMAIN queue' = 1 .. Len(queue) - 1
      /\ \A i \in 1 .. Len(queue) - 1 : queue'[i] = queue[i + 1]
  <2>1. /\ Tail(queue) \in Seq(Send \X Nat) /\ Len(Tail(queue)) = Len(queue) - 1
        /\ \A i \in 1 .. Len(Tail(queue)) : Tail(queue)[i] = queue[i + 1]
    BY <1>1, HeadTailProperties
  <2> QED
    BY <1>1, <2>1, LenProperties
<1>4. PICK m \in Send, l \in Nat : queue[1] = <<m, l>> /\ queue[1][1] = m /\ queue[1][2] = l
  BY <1>2
<1>5. delivered' = [delivered EXCEPT ![m] = Append(@, l)]
  BY <1>2, <1>4 DEF ReadLine
<1>6. /\ DOMAIN delivered[m] = 1 .. Len(delivered[m]) /\ Len(delivered[m]) \in Nat
      /\ DOMAIN delivered'[m] = 1 .. Len(delivered[m]) + 1
      /\ \A k \in 1 .. Len(delivered[m]) : delivered'[m][k] = delivered[m][k]
      /\ delivered'[m][Len(delivered[m]) + 1] = l
      /\ \A n \in Send \ {m} : delivered'[n] = delivered[n]
  <2>1. delivered[m] \in Seq(Nat) /\ delivered'[m] = Append(delivered[m], l)
    BY <1>1, <1>5
  <2>2. delivered'[m] \in Seq(Nat) /\ Len(delivered'[m]) = Len(delivered[m]) + 1
    BY <2>1, AppendProperties
  <2> QED
    BY <1>1, <1>5, <2>1, <2>2, AppendProperties, LenProperties
<1>7. ASSUME NEW n \in Send
      PROVE  /\ Pushed(n)' = Pushed(n)
             /\ \A i \in Places(n)' : i + 1 \in Places(n) /\ queue'[i][2] = queue[i + 1][2]
             /\ \A i \in Places(n) : i = 1 \/ (i - 1 \in Places(n)' /\ queue'[i - 1][2] = queue[i][2])
             /\ 1 \in Places(n) <=> n = m
             /\ \A i \in Places(n) \cup Places(n)' : i \in Nat \ {0}
  <2>1. Pushed(n)' = Pushed(n)
    BY DEF ReadLine, Pushed, InHand
  <2> QED
    BY <1>2, <1>3, <1>4, <2>1 DEF Places
<1>8. ASSUME NEW n \in Send
      PROVE  /\ \A k \in DOMAIN delivered'[n] : delivered'[n][k] \in Pushed(n)'
             /\ \A i \in Places(n)' : queue'[i][2] \in Pushed(n)'
             /\ InOrder(n)'
             /\ closed' \/ NoneLost(n)'
  <2>0. /\ \A k \in DOMAIN delivered[n] : delivered[n][k] \in Pushed(n)
        /\ \A i \in Places(n) : queue[i][2] \in Pushed(n)
        /\ InOrder(n) /\ (closed \/ NoneLost(n)) /\ closed' = closed
    BY <1>8 DEF LinesInOrder, ReadLine
  <2>1. \A i \in Places(n)' : queue'[i][2] \in Pushed(n)'
    BY <1>7, <1>8, <2>0
  <2>2. \A i, j \in Places(n)' : i < j => queue'[i][2] < queue'[j][2]
    <3>1. ASSUME NEW i \in Places(n)', NEW j \in Places(n)', i < j PROVE queue'[i][2] < queue'[j][2]
      <4>1. i + 1 \in Places(n) /\ j + 1 \in Places(n) /\ i + 1 < j + 1
        BY <1>7, <1>8, <3>1
      <4> QED
        BY <1>7, <1>8, <2>0, <3>1, <4>1 DEF InOrder
    <3> QED
      BY <3>1
  <2>3. CASE n # m
    <3>1. /\ delivered'[n] = delivered[n] /\ 1 \notin Places(n)
      BY <1>6, <1>7, <1>8, <2>3
    <3>2. InOrder(n)'
      BY <1>7, <1>8, <2>0, <2>2, <3>1 DEF InOrder, Increasing
    <3>3. NoneLost(n) => NoneLost(n)'
      <4> SUFFICES ASSUME NoneLost(n), NEW line \in Pushed(n)
                   PROVE  \/ \E k \in DOMAIN delivered'[n] : delivered'[n][k] = line
                          \/ \E i \in Places(n)' : queue'[i][2] = line
        BY <1>7, <1>8 DEF NoneLost
      <4>1. CASE \E i \in Places(n) : queue[i][2] = line
        BY <1>7, <1>8, <3>1, <4>1
      <4> QED
        BY <3>1, <4>1 DEF NoneLost
    <3> QED
      BY <1>7, <1>8, <2>0, <2>1, <3>1, <3>2, <3>3
  <2>4. CASE n = m
    <3>1. 1 \in Places(n) /\ l \in Pushed(n) /\ \A k \in DOMAIN delivered[n] : delivered[n][k] < l
      BY <1>4, <1>7, <1>8, <2>0, <2>4 DEF InOrder
    <3>2. ASSUME NEW k \in DOMAIN delivered'[n]
          PROVE  \/ k \in DOMAIN delivered[n] /\ delivered'[n][k] = delivered[n][k]
                 \/ k = Len(delivered[n]) + 1 /\ delivered'[n][k] = l
      BY <1>6, <2>4, <3>2
    <3>3. \A k \in DOMAIN delivered'[n] : delivered'[n][k] \in Pushed(n)'
      BY <1>7, <1>8, <2>0, <3>1, <3>2
    <3>4. Increasing(delivered[n])'
      <4>1. ASSUME NEW i \in DOMAIN delivered'[n], NEW j \in DOMAIN delivered'[n], i < j
            PROVE  delivered'[n][i] < delivered'[n][j]
        <5>1. i \in DOMAIN delivered[n] /\ delivered'[n][i] = delivered[n][i]
          BY <1>6, <2>4, <3>2, <4>1
        <5> QED
          BY <2>0, <3>1, <3>2, <4>1, <5>1 DEF InOrder, Increasing
      <4> QED
        BY <4>1 DEF Increasing
    <3>5. ASSUME NEW k \in DOMAIN delivered'[n], NEW i \in Places(n)'
          PROVE  delivered'[n][k] < queue'[i][2]
      <4>1. i + 1 \in Places(n) /\ 1 < i + 1 /\ queue'[i][2] = queue[i + 1][2]
        BY <1>7, <1>8, <3>5
      <4>2. l < queue[i + 1][2]
        BY <1>4, <2>0, <3>1, <4>1 DEF InOrder
      <4> QED
        BY <2>0, <3>2, <4>1, <4>2 DEF InOrder
    <3>6. NoneLost(n) => NoneLost(n)'
      <4> SUFFICES ASSUME NoneLost(n), NEW line \in Pushed(n)
                   PROVE  \/ \E k \in DOMAIN delivered'[n] : delivered'[n][k] = line
                          \/ \E i \in Places(n)' : queue'[i][2] = line
        BY <1>7, <1>8 DEF NoneLost
      <4>1. CASE \E k \in DOMAIN delivered[n] : delivered[n][k] = line
        BY <1>6, <2>4, <4>1
      <4>2. CASE \E i \in Places(n) : queue[i][2] = line
        <5>1. PICK i \in Places(n) : queue[i][2] = line
          BY <4>2
        <5>2. CASE i = 1
          <6>1. line = l /\ Len(delivered[n]) + 1 \in DOMAIN delivered'[n]
            BY <1>4, <1>6, <2>4, <5>1, <5>2
          <6> QED
            BY <1>6, <2>4, <6>1
        <5>3. CASE i # 1
          BY <1>7, <1>8, <5>1, <5>3
        <5> QED
          BY <5>2, <5>3
      <4> QED
        BY <4>1, <4>2 DEF NoneLost
    <3> QED
      BY <2>0, <2>1, <2>2, <3>3, <3>4, <3>5, <3>6 DEF InOrder
  <2> QED
    BY <2>3, <2>4
<1> QED
  BY <1>8 DEF LinesInOrder

\* Once the transport is closed a line may go out of the hand to nowhere.
LEMMA LineDropped ==
  ASSUME HttpTypeOK, LinesInOrder, closed, closed', UNCHANGED <<queue, read, delivered>>,
         \A n \in Send : InHand(n)' => InHand(n)
  PROVE  LinesInOrder'
<1>1. ASSUME NEW n \in Send
      PROVE  /\ Places(n)' = Places(n) /\ Pushed(n) \subseteq Pushed(n)' /\ delivered'[n] = delivered[n]
  <2>1. read \in [Send -> Nat]
    BY DEF HttpTypeOK
  <2> QED
    BY <1>1, <2>1 DEF Places, Pushed
<1> QED
  BY <1>1 DEF LinesInOrder, InOrder

----------------------------------------------------------------------------
(* The other parts of the invariant.                                       *)

\* What is behind a call of Token is not the transport's.
LEMMA Asked ==
  ASSUME TokensIInv, Ask(Self)
  PROVE  /\ tpc[Self] = "idle" /\ tpc'[Self] = "asked"
         /\ UNCHANGED <<provider, issued, file, mem, answer, got>>
BY SelfTypes DEF Ask, Goes, TokensIInv, TokensTypeOK, server, disk

\* The queue never grows beyond its size, and nothing else leaves its type.
LEMMA HttpTypes ==
  ASSUME TokensIInv, HttpTypeOK, Calls, Ids, Refusals, [HttpNext]_vars
  PROVE  HttpTypeOK'
<1> USE DEF HttpTypeOK, MainGoes
<1>0. sends # 0 => sends \in Send
  BY DEF Send
<1>1. CASE Start \/ CloseHasToken \/ Delete \/ PostFails \/ ReadEnds
  BY <1>1, SelfTypes DEF Start, CloseHasToken, Delete, PostFails, ReadEnds
<1>2. CASE SendBegins \/ Retry
  BY <1>2, HttpAssumption DEF SendBegins, Retry, Posts
<1>3. CASE TokenReturns
  <2>1. TokenReturns
    BY <1>3
  <2>2. got[Self] \in 0 .. MaxTokens
    BY <2>1, SelfTypes DEF TokenReturns, Ids, Refusals
  <2> QED
    BY <1>3, <2>2 DEF TokenReturns
<1>4. CASE Unauthorized
  <2>1. refusals' \in [0 .. MaxTokens -> Nat]
    <3>1. refusals' = [refusals EXCEPT ![carried] = @ + 1] /\ refusals[carried] \in Nat
      BY <1>4 DEF Unauthorized
    <3> QED
      BY <3>1
  <2> QED
    BY <1>4, <2>1, SelfTypes DEF Unauthorized
<1>5. CASE PostAnswered
  <2>1. read' = [read EXCEPT ![sends] = 1] \/ read' = read
    BY <1>5 DEF PostAnswered
  <2>2. read' \in [Send -> Nat]
    <3>1. read \in [Send -> Nat] /\ sends \in Send
      BY <1>0, <1>5 DEF PostAnswered, Calls
    <3> QED
      BY <2>1, <3>1
  <2>3. stream' = [stream EXCEPT ![sends] = "open"] \/ stream' = stream
    BY <1>5 DEF PostAnswered
  <2>4. stream' \in [Send -> {"none", "open", "push", "ended"}]
    BY <2>3
  <2>5. session' \in BOOLEAN
    <3>1. session' \in {session, TRUE}
      BY <1>5 DEF PostAnswered
    <3> QED
      BY <3>1, Zenon
  <2> QED
    BY <1>5, <2>2, <2>4, <2>5, SelfTypes DEF PostAnswered
<1>6. CASE PushBody
  <2>1. <<sends, 1>> \in Send \X Nat /\ Len(queue) < QueueSize /\ main = "push"
    BY <1>0, <1>6 DEF PushBody, Calls, Room
  <2>2. queue' \in Seq(Send \X Nat) /\ Len(queue') = Len(queue) + 1
    BY <1>6, <2>1, AppendProperties DEF PushBody
  <2>3. Len(queue') <= QueueSize
    BY <2>1, <2>2, HttpAssumption, LenProperties
  <2> QED
    BY <1>6, <2>2, <2>3 DEF PushBody
<1>7. CASE ReadLine
  <2>1. queue' \in Seq(Send \X Nat) /\ Len(queue') = Len(queue) - 1 /\ Len(queue) \in Nat
    BY <1>7, HeadTailProperties, LenProperties DEF ReadLine
  <2>2. delivered' \in [Send -> Seq(Nat)]
    <3>1. Head(queue) \in Send \X Nat
      BY <1>7 DEF ReadLine
    <3>2. PICK m \in Send, l \in Nat : delivered' = [delivered EXCEPT ![m] = Append(@, l)]
      BY <1>7, <3>1 DEF ReadLine
    <3>3. Append(delivered[m], l) \in Seq(Nat)
      BY AppendProperties
    <3> QED
      BY <3>2, <3>3
  <2>3. Len(queue') <= QueueSize
    BY <2>1, HttpAssumption
  <2> QED
    BY <1>7, <2>1, <2>2, <2>3 DEF ReadLine
<1>8. CASE \E n \in Send : StreamReads(n) \/ StreamSteps(n) \/ StreamEnds(n)
  <2>1. PICK n \in Send : StreamReads(n) \/ StreamPushes(n) \/ StreamDrops(n) \/ StreamEnds(n)
    BY <1>8 DEF StreamSteps
  <2>2. CASE StreamPushes(n)
    <3>1. <<n, read[n]>> \in Send \X Nat /\ Len(queue) < QueueSize
      BY <2>2 DEF StreamPushes, Room
    <3>2. queue' \in Seq(Send \X Nat) /\ Len(queue') = Len(queue) + 1
      BY <2>2, <3>1, AppendProperties DEF StreamPushes
    <3>3. Len(queue') <= QueueSize
      BY <3>1, <3>2, HttpAssumption, LenProperties
    <3> QED
      BY <2>2, <3>2, <3>3 DEF StreamPushes
  <2>3. CASE StreamReads(n) \/ StreamDrops(n) \/ StreamEnds(n)
    <3>1. read' = [read EXCEPT ![n] = @ + 1] \/ read' = read
      BY <2>3 DEF StreamReads, StreamDrops, StreamEnds
    <3>2. read' \in [Send -> Nat]
      <4>1. read \in [Send -> Nat] /\ read[n] + 1 \in Nat
        OBVIOUS
      <4> QED
        BY <3>1, <4>1
    <3>3. PICK s \in {"open", "push", "ended"} : stream' = [stream EXCEPT ![n] = s]
      BY <2>3 DEF StreamReads, StreamDrops, StreamEnds
    <3>4. stream' \in [Send -> {"none", "open", "push", "ended"}]
      BY <3>3
    <3>5. UNCHANGED <<main, attempt, carried, session, closed, rd, queue, sends, delivered, refusals>>
      BY <2>3 DEF StreamReads, StreamDrops, StreamEnds
    <3> QED
      BY <3>2, <3>4, <3>5
  <2> QED
    BY <2>1, <2>2, <2>3
<1>9. CASE CloseBegins
  BY <1>9, SelfTypes DEF CloseBegins
<1>10. CASE (TokenSteps(Self) /\ UNCHANGED httpVars) \/ UNCHANGED vars
  BY <1>10 DEF httpVars, vars
<1> QED
  BY <1>1, <1>2, <1>3, <1>4, <1>5, <1>6, <1>7, <1>8, <1>9, <1>10
     DEF HttpNext, MainSteps, PostEnds, Reader

\* The main goroutine, its provider and the answers keep in step.
LEMMA CallsKept ==
  ASSUME TokensIInv, HttpTypeOK, Calls, Ids, [HttpNext]_vars
  PROVE  Calls'
<1> USE DEF Calls, MainGoes
<1>0. sends \in Nat /\ read \in [Send -> Nat] /\ stream \in [Send -> {"none", "open", "push", "ended"}]
      /\ (sends # 0 => sends \in Send) /\ Send \subseteq Nat
  BY HttpAssumption DEF HttpTypeOK, Send
<1>1. CASE Start
  <2>1. tpc'[Self] = "idle"
    BY <1>1, SelfTypes DEF Start, StartProvider, Goes, TokensIInv, TokensTypeOK
  <2> QED
    BY <1>1, <2>1 DEF Start
<1>2. CASE SendBegins
  <2>1. main = "ready" /\ main' \in {"token", "post"} /\ sends' = sends + 1 /\ UNCHANGED <<read, stream>>
        /\ (tpc'[Self] \in {"off", "idle"} \/ main' = "token") /\ tpc'[Self] # "off"
    BY <1>2, Asked DEF SendBegins, Posts, tokenVars, process
  <2>2. ASSUME NEW n \in Send
        PROVE  /\ n > sends' \/ n = sends' => read'[n] = 0 /\ stream'[n] = "none"
               /\ stream'[n] = "push" => read'[n] # 0
    <3>1. n > sends' \/ n = sends' => n > sends
      BY <1>0, <2>1, <2>2
    <3> QED
      BY <2>1, <2>2, <3>1
  <2>3. sends' # 0
    BY <1>0, <2>1
  <2> QED
    BY <2>1, <2>2, <2>3
<1>3. CASE Retry \/ CloseBegins
  <2>1. /\ main \in {"again", "ready"} /\ UNCHANGED <<sends, read, stream>>
        /\ main = "again" => main' \in {"token", "post"}
        /\ main = "ready" => main' \in {"closing", "delete", "closed"}
        /\ tpc'[Self] \in {"off", "idle"} \/ main' \in {"token", "closing"}
        /\ tpc'[Self] # "off"
    BY <1>3, Asked DEF Retry, CloseBegins, Posts, tokenVars, process
  <2> QED
    BY <1>0, <2>1
<1>4. CASE TokenReturns \/ PostFails \/ CloseHasToken \/ Delete
  <2>1. /\ main \in {"token", "post", "closing", "delete"} /\ UNCHANGED <<sends, read, stream, tpc>>
        /\ main' \in {"ready", "post", "delete", "closed"} /\ (main' = "post" => main = "token")
        /\ tpc[Self] = "idle"
    BY <1>4 DEF TokenReturns, PostFails, CloseHasToken, Delete, tokenVars, process
  <2> QED
    BY <1>0, <2>1
<1>5. CASE Unauthorized
  <2>1. /\ main = "post" /\ UNCHANGED <<sends, read, stream, tpc>> /\ main' \in {"again", "ready"}
    BY <1>5 DEF Unauthorized, Invalidate, tokenVars, process
  <2> QED
    BY <1>0, <2>1
<1>6. CASE PostAnswered
  <2>1. /\ main = "post" /\ UNCHANGED <<sends, tpc>> /\ sends \in Send /\ main' \in {"push", "ready"}
        /\ read[sends] = 0 /\ stream[sends] = "none"
        /\ \/ main' = "push" /\ read' = [read EXCEPT ![sends] = 1] /\ UNCHANGED stream
           \/ main' = "ready" /\ stream' = [stream EXCEPT ![sends] = "open"] /\ UNCHANGED read
           \/ main' = "ready" /\ UNCHANGED <<stream, read>>
    BY <1>0, <1>6 DEF PostAnswered, tokenVars, process
  <2>2. \A n \in Send : n > sends => read'[n] = 0 /\ stream'[n] = "none"
    BY <1>0, <2>1
  <2>3. main' = "push" => read'[sends] = 1 /\ stream'[sends] = "none"
    BY <1>0, <2>1
  <2>4. \A n \in Send : stream'[n] = "push" => read'[n] # 0
    BY <1>0, <2>1
  <2> QED
    BY <1>0, <2>1, <2>2, <2>3, <2>4
<1>7. CASE PushBody
  BY <1>7 DEF PushBody, tokenVars, process
<1>8. CASE Reader
  BY <1>8 DEF Reader, ReadLine, ReadEnds, tokenVars, process
<1>9. CASE \E n \in Send : StreamReads(n) \/ StreamSteps(n) \/ StreamEnds(n)
  <2>1. PICK n \in Send : StreamReads(n) \/ StreamPushes(n) \/ StreamDrops(n) \/ StreamEnds(n)
    BY <1>9 DEF StreamSteps
  <2>2. /\ UNCHANGED <<main, sends, tpc>> /\ stream[n] # "none"
        /\ \A k \in Send \ {n} : read'[k] = read[k] /\ stream'[k] = stream[k]
        /\ stream'[n] # "none"
        /\ stream'[n] = "push" => read'[n] # 0
    BY <1>0, <2>1 DEF StreamReads, StreamPushes, StreamDrops, StreamEnds, tokenVars, process
  <2> QED
    BY <1>0, <2>2
<1>10. CASE TokenSteps(Self) /\ UNCHANGED httpVars
  BY <1>10, TokenEffects DEF httpVars
<1>11. CASE UNCHANGED vars
  BY <1>11 DEF vars, httpVars, tokenVars, process
<1> QED
  BY <1>1, <1>2, <1>3, <1>4, <1>5, <1>6, <1>7, <1>8, <1>9, <1>10, <1>11
     DEF HttpNext, MainSteps, PostEnds

\* Tokens come from the provider, and to it from the server or the file.
LEMMA IdsKept ==
  ASSUME TokensIInv, HttpTypeOK, Calls, Ids, Refusals, [HttpNext]_vars
  PROVE  Ids'
<1> USE DEF Ids, MainGoes
<1>0. /\ Self \in Proc /\ mem[Self].id \in Nat /\ answer[Self].id \in Nat /\ got[Self] \in Nat
      /\ MaxTokens \in Nat \ {0} /\ issued \in 1 .. MaxTokens /\ carried \in Nat
  BY SelfTypes DEF HttpTypeOK
<1>1. CASE Start
  <2>1. main = "off" /\ main' = "ready" /\ UNCHANGED <<issued, answer, carried>>
    BY <1>1 DEF Start, StartProvider, server
  <2>2. mem'[Self].id = file.tk.id
    BY <1>0, <1>1 DEF Start, StartProvider, TokensIInv, TokensTypeOK
  <2> QED
    BY <2>1, <2>2
<1>2. CASE SendBegins \/ Retry \/ CloseBegins
  <2>1. main' # "off" /\ UNCHANGED <<issued, mem, answer, carried>>
    BY <1>2, Asked DEF SendBegins, Retry, CloseBegins, Posts, tokenVars, server, process
  <2> QED
    BY <2>1
<1>3. CASE TokenReturns
  <2>1. main' # "off" /\ UNCHANGED <<issued, mem, answer>>
        /\ (carried' = carried \/ (carried' = got[Self] /\ got[Self] = mem[Self].id))
    BY <1>3 DEF TokenReturns, Refusals, tokenVars, server, process
  <2> QED
    BY <2>1
<1>4. CASE Unauthorized
  <2>1. main' # "off" /\ carried' = 0 /\ UNCHANGED <<issued, answer>>
    BY <1>4 DEF Unauthorized, Invalidate, tokenVars, server, process
  <2>2. mem'[Self].id \in {0, mem[Self].id}
    <3>1. mem' = mem \/ mem' = [mem EXCEPT ![Self].id = 0, ![Self].exp = 0]
      BY <1>4 DEF Unauthorized, Invalidate, tokenVars, process
    <3>2. mem \in [Proc -> Token]
      BY DEF TokensIInv, TokensTypeOK
    <3> QED
      BY <1>0, <3>1, <3>2 DEF Token
  <2> QED
    BY <1>0, <2>1, <2>2
<1>5. CASE PostFails \/ PostAnswered \/ PushBody \/ CloseHasToken \/ Delete \/ Reader
           \/ (\E n \in Send : StreamReads(n) \/ StreamSteps(n) \/ StreamEnds(n)) \/ UNCHANGED vars
  <2>1. /\ UNCHANGED <<issued, mem, answer, file>> /\ carried' \in {0, carried}
        /\ main' = "off" => main = "off"
    BY <1>5 DEF PostFails, PostAnswered, PushBody, CloseHasToken, Delete, Reader, ReadLine, ReadEnds,
       StreamReads, StreamSteps, StreamPushes, StreamDrops, StreamEnds, vars, httpVars, tokenVars,
       server, process, disk
  <2> QED
    BY <1>0, <2>1
<1>6. CASE TokenSteps(Self) /\ UNCHANGED httpVars
  <2>1. main' # "off" /\ carried' = carried /\ tpc[Self] # "off"
    BY <1>6, TokenEffects DEF httpVars, Calls
  <2>2. /\ issued' \in issued .. MaxTokens /\ mem'[Self].id \in {mem[Self].id, answer[Self].id}
        /\ answer'[Self].id \in {0, answer[Self].id, issued'}
    BY <1>6, TokenEffects
  <2> QED
    BY <1>0, <2>1, <2>2
<1> QED
  BY <1>1, <1>2, <1>3, <1>4, <1>5, <1>6 DEF HttpNext, MainSteps, PostEnds

\* Each step takes a line one place further, or none.
LEMMA LinesKept ==
  ASSUME TokensIInv, HttpTypeOK, Calls, LinesInOrder, [HttpNext]_vars
  PROVE  LinesInOrder'
<1> USE DEF MainGoes
<1>0. sends \in Nat /\ read \in [Send -> Nat] /\ stream \in [Send -> {"none", "open", "push", "ended"}]
      /\ (sends # 0 => sends \in Send)
  BY HttpAssumption DEF HttpTypeOK, Send
<1>1. CASE Start \/ SendBegins \/ CloseBegins \/ TokenReturns \/ PostFails \/ Unauthorized \/ Retry
           \/ CloseHasToken \/ Delete
  <2>1. /\ UNCHANGED <<queue, read, delivered, stream>> /\ (closed => closed')
        /\ main # "push" /\ main' # "push"
    BY <1>1 DEF Start, SendBegins, CloseBegins, TokenReturns, PostFails, Unauthorized, Retry,
       CloseHasToken, Delete, Posts
  <2> QED
    BY <2>1, LinesSame DEF InHand
<1>2. CASE PostAnswered
  <2>1. main = "post" /\ sends' = sends /\ UNCHANGED <<queue, delivered, closed>> /\ sends \in Send
        /\ read[sends] = 0 /\ stream[sends] = "none"
    BY <1>0, <1>2 DEF PostAnswered, Calls
  <2>2. CASE main' = "push" /\ read' = [read EXCEPT ![sends] = 1] /\ UNCHANGED stream
    <3>1. read' = [read EXCEPT ![sends] = @ + 1]
      BY <1>0, <2>1, <2>2
    <3>2. PICK m \in Send : m = sends
      BY <2>1
    <3>3. ~InHand(m) /\ InHand(m)' /\ \A n \in Send \ {m} : InHand(n)' <=> InHand(n)
      BY <2>1, <2>2, <3>2 DEF InHand
    <3> QED
      BY <2>1, <3>1, <3>2, <3>3, LineTaken
  <2>3. CASE main' = "ready" /\ stream' = [stream EXCEPT ![sends] = "open"] /\ UNCHANGED read
    <3>1. \A n \in Send : InHand(n)' <=> InHand(n)
      BY <1>0, <2>1, <2>3 DEF InHand
    <3> QED
      BY <2>1, <2>3, <3>1, LinesSame
  <2>4. CASE main' = "ready" /\ UNCHANGED <<stream, read>>
    <3>1. \A n \in Send : InHand(n)' <=> InHand(n)
      BY <2>1, <2>4 DEF InHand
    <3> QED
      BY <2>1, <2>4, <3>1, LinesSame
  <2> QED
    BY <1>2, <2>2, <2>3, <2>4 DEF PostAnswered
<1>3. CASE PushBody
  <2>1. PICK m \in Send : m = sends
    BY <1>0, <1>3 DEF PushBody, Calls
  <2>2. /\ main = "push" /\ main' = "ready" /\ read[m] = 1 /\ stream[m] = "none"
        /\ queue' = Append(queue, <<m, read[m]>>) /\ UNCHANGED <<read, delivered, closed, stream, sends>>
    BY <1>3, <2>1 DEF PushBody, Calls
  <2>3. InHand(m) /\ ~InHand(m)' /\ \A n \in Send \ {m} : InHand(n)' <=> InHand(n)
    BY <2>1, <2>2 DEF InHand
  <2> QED
    BY <2>2, <2>3, LinePushed
<1>4. CASE ReadLine
  BY <1>4, LineRead
<1>5. CASE ReadEnds
  <2>1. UNCHANGED <<queue, read, delivered, closed, main, stream, sends>>
    BY <1>5 DEF ReadEnds
  <2> QED
    BY <2>1, LinesSame DEF InHand
<1>6. CASE \E n \in Send : StreamReads(n) \/ StreamSteps(n) \/ StreamEnds(n)
  <2>1. PICK m \in Send : StreamReads(m) \/ StreamPushes(m) \/ StreamDrops(m) \/ StreamEnds(m)
    BY <1>6 DEF StreamSteps
  <2>2. /\ UNCHANGED <<main, sends, closed, delivered>>
        /\ stream[m] # "none" /\ \A n \in Send \ {m} : stream'[n] = stream[n]
        /\ ~(main = "push" /\ sends = m)
    BY <1>0, <2>1 DEF StreamReads, StreamPushes, StreamDrops, StreamEnds, Calls
  <2>3. \A n \in Send \ {m} : InHand(n)' <=> InHand(n)
    BY <2>2 DEF InHand
  <2>4. CASE StreamReads(m)
    <3>1. ~InHand(m) /\ InHand(m)'
      BY <1>0, <2>2, <2>4 DEF InHand, StreamReads
    <3>2. UNCHANGED <<queue, delivered, closed>> /\ read' = [read EXCEPT ![m] = @ + 1]
      BY <2>4 DEF StreamReads
    <3> QED
      BY <2>3, <3>1, <3>2, LineTaken
  <2>5. CASE StreamPushes(m)
    <3>1. InHand(m) /\ ~InHand(m)'
      BY <1>0, <2>2, <2>5 DEF InHand, StreamPushes
    <3>2. UNCHANGED <<read, delivered, closed>> /\ queue' = Append(queue, <<m, read[m]>>) /\ read[m] # 0
      BY <2>5 DEF StreamPushes, Calls
    <3> QED
      BY <2>3, <3>1, <3>2, LinePushed
  <2>6. CASE StreamDrops(m)
    <3>1. InHand(m) /\ closed /\ closed' /\ UNCHANGED <<queue, read, delivered>>
      BY <2>2, <2>6 DEF InHand, StreamDrops
    <3> QED
      BY <2>3, <3>1, LineDropped
  <2>7. CASE StreamEnds(m)
    <3>1. ~InHand(m) /\ ~InHand(m)' /\ UNCHANGED <<queue, read, delivered, closed>>
      BY <1>0, <2>2, <2>7 DEF InHand, StreamEnds
    <3> QED
      BY <2>3, <3>1, LinesSame
  <2> QED
    BY <2>1, <2>4, <2>5, <2>6, <2>7
<1>7. CASE (TokenSteps(Self) /\ UNCHANGED httpVars) \/ UNCHANGED vars
  <2>1. UNCHANGED <<queue, read, delivered, closed, main, stream, sends>>
    BY <1>7 DEF vars, httpVars
  <2> QED
    BY <2>1, LinesSame DEF InHand
<1> QED
  BY <1>1, <1>2, <1>3, <1>4, <1>5, <1>6, <1>7 DEF HttpNext, MainSteps, PostEnds, Reader

\* The first refusal empties the memory, the second leaves a token there that
\* was not refused before.
LEMMA RefusalsKept ==
  ASSUME TokensIInv, HttpTypeOK, Calls, Ids, Refusals, [HttpNext]_vars
  PROVE  Refusals'
<1> USE DEF MainGoes
<1>0. /\ Self \in Proc /\ mem[Self].id \in 0 .. MaxTokens /\ answer[Self].id \in 0 .. MaxTokens
      /\ got[Self] \in Nat /\ MaxTokens \in Nat \ {0} /\ issued \in 1 .. MaxTokens
      /\ carried \in 0 .. issued /\ refusals \in [0 .. MaxTokens -> Nat] /\ attempt \in {1, 2}
      /\ (answer[Self].id # 0 <=> tpc[Self] = "answered")
  BY SelfTypes DEF HttpTypeOK, Ids
<1>1. CASE Start
  <2>1. main = "off" /\ main' = "ready" /\ UNCHANGED <<issued, answer, carried, refusals>>
    BY <1>1 DEF Start, StartProvider, server
  <2>2. mem'[Self].id = file.tk.id /\ file.tk.id \in 0 .. issued
    <3>1. mem'[Self].id = file.tk.id
      BY <1>0, <1>1 DEF Start, StartProvider, TokensIInv, TokensTypeOK
    <3> QED
      BY <1>0, <2>1, <3>1, SelfTypes DEF Ids
  <2>3. \A t \in 0 .. MaxTokens : refusals[t] = 0
    BY <1>0, <2>1 DEF Refusals
  <2> QED
    BY <1>0, <2>1, <2>2, <2>3 DEF Refusals
<1>2. CASE SendBegins \/ Retry
  <2>1. /\ UNCHANGED <<provider, issued, mem, answer, got, carried, refusals>> /\ carried = 0
        /\ \/ main' = "post" /\ provider = "none"
           \/ main' = "token" /\ provider # "none" /\ tpc'[Self] = "asked"
        /\ main = "again" \/ attempt' = 1
    BY <1>2, Asked DEF SendBegins, Retry, Posts, tokenVars, server, process, HttpTypeOK
  <2> QED
    BY <1>0, <2>1 DEF Refusals
<1>3. CASE CloseBegins
  <2>1. UNCHANGED <<provider, issued, mem, answer, refusals>> /\ main' \in {"closing", "delete", "closed"}
    BY <1>3, Asked DEF CloseBegins, tokenVars, server, process
  <2> QED
    BY <1>0, <2>1 DEF Refusals
<1>4. CASE TokenReturns
  <2>1. /\ UNCHANGED <<provider, issued, mem, answer, refusals, attempt>> /\ main = "token"
        /\ \/ main' = "ready"
           \/ main' = "post" /\ carried' = got[Self] /\ got[Self] # 0 /\ tpc[Self] = "idle"
    BY <1>4 DEF TokenReturns, tokenVars, server, process
  <2> QED
    BY <1>0, <2>1 DEF Refusals
<1>5. CASE Unauthorized
  <2>1. /\ main = "post" /\ UNCHANGED <<provider, issued, answer, attempt>>
        /\ refusals' = [refusals EXCEPT ![carried] = @ + 1]
        /\ main' = IF attempt = 1 THEN "again" ELSE "ready"
        /\ provider # "none"
    BY <1>5 DEF Unauthorized, Invalidate, tokenVars, server, process
  <2>2. mem'[Self].id = IF attempt = 1 THEN 0 ELSE mem[Self].id
    <3>1. mem' = IF attempt = 1 THEN [mem EXCEPT ![Self].id = 0, ![Self].exp = 0] ELSE mem
      BY <1>5 DEF Unauthorized, Invalidate, tokenVars, process
    <3>2. mem \in [Proc -> Token]
      BY DEF TokensIInv, TokensTypeOK
    <3> QED
      BY <1>0, <3>1, <3>2 DEF Token
  <2>3. carried = mem[Self].id /\ carried # 0 /\ refusals[carried] <= 1 /\ answer[Self].id = 0
    BY <1>0, <2>1 DEF Refusals, Calls
  <2>4. refusals'[carried] = refusals[carried] + 1
        /\ \A t \in 0 .. MaxTokens : t # carried => refusals'[t] = refusals[t]
    BY <1>0, <2>1
  <2>5. refusals'[mem'[Self].id] <= 1
    BY <1>0, <2>1, <2>2, <2>3, <2>4 DEF Refusals
  <2>6. ASSUME NEW t \in 1 .. MaxTokens
        PROVE  refusals'[t] <= 2 /\ (t > issued => refusals'[t] = 0)
    BY <1>0, <2>3, <2>4, <2>6 DEF Refusals
  <2> QED
    BY <1>0, <2>1, <2>2, <2>3, <2>4, <2>5, <2>6 DEF Refusals
<1>6. CASE PostFails \/ PostAnswered \/ PushBody \/ CloseHasToken \/ Delete
  <2>1. UNCHANGED <<provider, issued, mem, answer, refusals>> /\ main' \in {"ready", "push", "delete", "closed"}
    BY <1>6 DEF PostFails, PostAnswered, PushBody, CloseHasToken, Delete, tokenVars, server, process
  <2> QED
    BY <1>0, <2>1 DEF Refusals
<1>7. CASE Reader \/ (\E n \in Send : StreamReads(n) \/ StreamSteps(n) \/ StreamEnds(n)) \/ UNCHANGED vars
  <2>1. UNCHANGED <<tokenVars, main, attempt, carried, refusals>>
    BY <1>7 DEF Reader, ReadLine, ReadEnds, StreamReads, StreamSteps, StreamPushes, StreamDrops,
       StreamEnds, vars, httpVars
  <2> QED
    BY <2>1 DEF Refusals, tokenVars, server, process
<1>8. CASE TokenSteps(Self) /\ UNCHANGED httpVars
  <2>1. UNCHANGED <<main, attempt, carried, refusals, provider>> /\ main \in {"token", "closing"}
    BY <1>8, TokenEffects DEF httpVars, Calls
  <2>2. /\ issued' \in issued .. MaxTokens /\ mem'[Self].id \in {mem[Self].id, answer[Self].id}
        /\ \/ answer'[Self].id \in {0, answer[Self].id}
           \/ answer'[Self].id = issued' /\ issued' = issued + 1
        /\ tpc'[Self] = "idle" /\ got'[Self] # 0 => got'[Self] = mem'[Self].id
    BY <1>8, TokenEffects
  <2>3. refusals[answer'[Self].id] = 0 /\ refusals[mem'[Self].id] <= 1
        /\ (refusals[mem[Self].id] = 0 => refusals[mem'[Self].id] = 0)
    <3>1. \A t \in 1 .. MaxTokens : t > issued => refusals[t] = 0
      BY DEF Refusals
    <3>2. refusals[0] = 0 /\ refusals[mem[Self].id] <= 1 /\ refusals[answer[Self].id] = 0
      BY DEF Refusals
    <3>3. issued' = issued + 1 => refusals[issued'] = 0
      BY <1>0, <2>2, <3>1
    <3> QED
      BY <2>2, <3>2, <3>3
  <2>4. \A t \in 1 .. MaxTokens : t > issued' => t > issued
    BY <1>0, <2>2
  <2> QED
    BY <1>0, <2>1, <2>2, <2>3, <2>4 DEF Refusals
<1> QED
  BY <1>1, <1>2, <1>3, <1>4, <1>5, <1>6, <1>7, <1>8 DEF HttpNext, MainSteps, PostEnds

----------------------------------------------------------------------------
(* Theorems.                                                               *)

\* The invariant holds before anything is started.
LEMMA HttpInitially == HttpInit => HttpIInv
<1> SUFFICES ASSUME HttpInit PROVE HttpIInv
  OBVIOUS
<1>0. TokensTypeOK /\ Self \in Proc /\ MaxTokens \in Nat \ {0}
  BY TokensInitially, SelfTypes DEF HttpInit, TokensIInv
<1>1. /\ main = "off" /\ carried = 0 /\ attempt = 1 /\ session = FALSE /\ closed = FALSE /\ rd = "off"
      /\ queue = << >> /\ sends = 0 /\ stream = [n \in Send |-> "none"] /\ read = [n \in Send |-> 0]
      /\ delivered = [n \in Send |-> << >>] /\ refusals = [t \in 0 .. MaxTokens |-> 0]
  BY DEF HttpInit
<1>2. issued = 1 /\ mem[Self].id = 0 /\ answer[Self].id = 0 /\ tpc[Self] = "off" /\ file.tk.id <= 1
  BY <1>0 DEF HttpInit, TokensInit, NoToken, LoggedIn
<1>3. HttpTypeOK
  <2>1. queue \in Seq(Send \X Nat) /\ Len(queue) <= QueueSize /\ sends \in 0 .. MaxSends
    BY <1>1, HttpAssumption
  <2>2. /\ stream \in [Send -> {"none", "open", "push", "ended"}] /\ read \in [Send -> Nat]
        /\ delivered \in [Send -> Seq(Nat)] /\ refusals \in [0 .. MaxTokens -> Nat]
    BY <1>1
  <2> QED
    BY <1>0, <1>1, <2>1, <2>2 DEF HttpTypeOK
<1>4. Calls
  BY <1>0, <1>1, <1>2, HttpAssumption DEF Calls, Send
<1>5. Ids /\ Refusals
  BY <1>0, <1>1, <1>2 DEF Ids, Refusals
<1>6. LinesInOrder
  BY <1>1 DEF LinesInOrder, InOrder, NoneLost, Increasing, Places, Pushed, InHand
<1> QED
  BY <1>3, <1>4, <1>5, <1>6 DEF HttpIInv

\* Whatever the server answers and the goroutines do, the transport and the
\* tokens of its provider keep the invariant.
THEOREM HttpInvariant == HttpSpec => [](TokensIInv /\ HttpIInv)
<1>1. HttpInit => TokensIInv /\ HttpIInv
  BY TokensInitially, HttpInitially DEF HttpInit
<1>2. TokensIInv /\ HttpIInv /\ [HttpNext]_vars => (TokensIInv /\ HttpIInv)'
  <2> SUFFICES ASSUME TokensIInv, HttpIInv, [HttpNext]_vars PROVE (TokensIInv /\ HttpIInv)'
    OBVIOUS
  <2>1. TokensIInv'
    BY ProviderSteps, TokensStep
  <2>2. HttpTypeOK' /\ Calls' /\ Ids'
    BY HttpTypes, CallsKept, IdsKept DEF HttpIInv
  <2>3. Refusals' /\ LinesInOrder'
    BY RefusalsKept, LinesKept DEF HttpIInv
  <2> QED
    BY <2>1, <2>2, <2>3 DEF HttpIInv
<1> QED
  BY <1>1, <1>2, PTL DEF HttpSpec

\* Only Close closes the channel, only a request under way has a token, and
\* the queue never holds more than its size.
THEOREM HttpTypeCorrect == HttpSpec => []HttpTypeOK
<1>1. TokensIInv /\ HttpIInv => HttpTypeOK
  BY DEF HttpIInv
<1> QED
  BY <1>1, HttpInvariant, PTL

\* ReadLine returns the lines of every answer once and in their order, and
\* until Close all of them, with any number of streams at one queue.
THEOREM NoLineLost == HttpSpec => []LinesInOrder
<1>1. TokensIInv /\ HttpIInv => LinesInOrder
  BY DEF HttpIInv
<1> QED
  BY <1>1, HttpInvariant, PTL

\* A request is not repeated with a token that was refused, and no token is
\* refused more than twice.
THEOREM FreshRetry == HttpSpec => []RetryIsFresh
<1>1. TokensIInv /\ HttpIInv => RetryIsFresh
  BY SelfTypes DEF HttpIInv, Refusals, RetryIsFresh
<1> QED
  BY <1>1, HttpInvariant, PTL

=============================================================================
