---------------------------- MODULE TokensProofs ----------------------------
(***************************************************************************)
(* Theorems about module Tokens, for any processes, margin and lifetimes.  *)
(***************************************************************************)
EXTENDS Tokens, TLAPS

----------------------------------------------------------------------------
(* The inductive invariant.                                                *)

\* The refresh token p will have in memory once its answer has arrived.
Carried(p) == IF tpc[p] = "answered" /\ answer[p].ref # 0 THEN answer[p].ref ELSE mem[p].ref

\* Only a server that says how long tokens live can be asked, and nobody
\* but "stored" saves.
Kinds ==
  /\ tells => provider \in {"stored", "oauth2"}
  /\ rotates => provider = "stored"
  /\ \A p \in Proc : tpc[p] \in Saving => provider = "stored"
  /\ \A p \in Proc : tpc[p] = "off" => mem[p].ref = 0

\* There is one good refresh token, and none that the server has yet to issue.
OneGood ==
  provider = "stored" =>
     /\ \E g \in 1 .. issued : good = {g}
     /\ file.tk.ref <= issued /\ tmp.tk.ref <= issued
     /\ \A p \in Proc : mem[p].ref <= issued /\ answer[p].ref <= issued

\* A server that does not rotate knows one refresh token, and so does everybody.
SameToken ==
  provider = "stored" /\ ~rotates =>
     /\ 1 \in good
     /\ file.st = "ok" => file.tk.ref = 1
     /\ tmp.st = "ok" => tmp.tk.ref = 1
     /\ \A p \in Proc : (tpc[p] # "off" => mem[p].ref = 1) /\ answer[p].ref = 0

\* With one that does, only one process at a time is renewing, and nobody else
\* has the good refresh token until it is in place.
Exclusive ==
  rotates =>
     \A p \in Proc :
        /\ fd[p] \in {"none", "tmp"}
        /\ Renewing(p) =>
             /\ tpc[p] = "answered" => answer[p].ref # 0
             /\ Carried(p) \in good
             /\ file.tk.ref \notin good
             /\ tpc[p] # "rename" => tmp.tk.ref \notin good
             /\ \A q \in Proc \ {p} : ~Renewing(q) /\ mem[q].ref \notin good

\* As long as nobody has saved at the same time tokens.json.tmp is what the
\* one process that saves has made of it.
OneWriter ==
  provider = "stored" /\ ~overlap =>
     \A p \in Proc :
        /\ tpc[p] = "write" => fd[p] = "tmp" /\ tmp.st = "torn"
        /\ tpc[p] = "rename" => tmp = [st |-> "ok", tk |-> mem[p]]
        /\ tpc[p] \in {"write", "rename"} =>
             \A q \in Proc : tpc[q] \in {"write", "rename"} => q = p

\* A token that was returned, or will be, was new or good for the margin when
\* the decision was made.
Decided ==
  \A p \in Proc :
     tells /\ (tpc[p] \in Saving \/ (got[p] # 0 /\ got[p] = mem[p].id)) =>
        decided[p] + Margin < mem[p].exp \/ mem[p].exp = decided[p] + Life

TokensIInv == /\ TokensTypeOK /\ Kinds /\ OneGood /\ SameToken /\ Exclusive /\ OneWriter
              /\ LoginKept /\ RefusedOnlyIfOutdated /\ Decided

----------------------------------------------------------------------------
(* Every action keeps the invariant.                                       *)

LEMMA StartProviderInv == ASSUME TokensIInv, NEW p \in Proc, StartProvider(p) PROVE TokensIInv'
<1> USE DEF StartProvider, Goes, Returns, server, disk, process, tokenHist
<1>1. TokensTypeOK'
  <2>1. /\ mem' \in [Proc -> Token] /\ answer' \in [Proc -> Token]
        /\ tpc' \in [Proc -> {"off", "idle", "asked", "answered"} \cup Saving]
        /\ fd' \in [Proc -> {"none", "tmp", "file", "gone"}]
        /\ got' \in [Proc -> Nat] /\ decided' \in [Proc -> Nat]
    BY DEF TokensIInv, TokensTypeOK, Content, Token, NoToken, Saving
  <2>2. \A q \in Proc : /\ fd'[q] # "none" <=> tpc'[q] = "write"
                        /\ answer'[q].id # 0 <=> tpc'[q] = "answered"
    BY DEF TokensIInv, TokensTypeOK, NoToken, Token
  <2> QED
    BY <2>1, <2>2, TokensAssumption DEF TokensIInv, TokensTypeOK, Content, Token, NoToken
<1>2. Kinds'
  BY DEF TokensIInv, TokensTypeOK, Kinds, NoToken, Saving
<1>3. OneGood'
  BY DEF TokensIInv, TokensTypeOK, OneGood, NoToken
<1>4. SameToken'
  BY DEF TokensIInv, TokensTypeOK, SameToken, NoToken, Stored
<1>5. Exclusive'
  BY DEF TokensIInv, TokensTypeOK, Exclusive, Carried, Renewing, Saving, NoToken
<1>6. OneWriter'
  BY DEF TokensIInv, TokensTypeOK, OneWriter
<1>7. LoginKept'
  BY DEF TokensIInv, TokensTypeOK, LoginKept, Renewing, Saving, Stored
<1>8. RefusedOnlyIfOutdated'
  <2> SUFFICES ASSUME NEW q \in Proc, provider = "stored", tpc'[q] # "off", ~Renewing(q)',
                      mem'[q].ref \notin good
               PROVE  q \in outdated'
    BY DEF RefusedOnlyIfOutdated
  <2>1. CASE q = p
    BY <2>1 DEF TokensIInv, TokensTypeOK, LoginKept, Renewing, Saving, Stored
  <2>2. CASE q # p
    BY <2>2 DEF TokensIInv, TokensTypeOK, RefusedOnlyIfOutdated, Renewing, Saving
  <2> QED
    BY <2>1, <2>2
<1>9. Decided'
  BY DEF TokensIInv, TokensTypeOK, Decided, Kinds, Saving, Usable
<1> QED
  BY <1>1, <1>2, <1>3, <1>4, <1>5, <1>6, <1>7, <1>8, <1>9 DEF TokensIInv

LEMMA StopProviderInv == ASSUME TokensIInv, NEW p \in Proc, StopProvider(p) PROVE TokensIInv'
<1> USE DEF StopProvider, Goes, Returns, server, disk, process, tokenHist
<1>1. TokensTypeOK'
  <2>1. /\ mem' \in [Proc -> Token] /\ answer' \in [Proc -> Token]
        /\ tpc' \in [Proc -> {"off", "idle", "asked", "answered"} \cup Saving]
        /\ fd' \in [Proc -> {"none", "tmp", "file", "gone"}]
        /\ got' \in [Proc -> Nat] /\ decided' \in [Proc -> Nat]
    BY DEF TokensIInv, TokensTypeOK, Content, Token, NoToken, Saving
  <2>2. \A q \in Proc : /\ fd'[q] # "none" <=> tpc'[q] = "write"
                        /\ answer'[q].id # 0 <=> tpc'[q] = "answered"
    BY DEF TokensIInv, TokensTypeOK, NoToken, Token
  <2> QED
    BY <2>1, <2>2, TokensAssumption DEF TokensIInv, TokensTypeOK, Content, Token, NoToken
<1>2. Kinds'
  BY DEF TokensIInv, TokensTypeOK, Kinds, NoToken, Saving
<1>3. OneGood'
  BY DEF TokensIInv, TokensTypeOK, OneGood, NoToken
<1>4. SameToken'
  BY DEF TokensIInv, TokensTypeOK, SameToken, NoToken, Stored
<1>5. Exclusive'
  <2>1. rotates => 0 \notin good
    BY DEF TokensIInv, TokensTypeOK, OneGood, Kinds
  <2>2. \A q \in Proc : ~Renewing(q)' \/ (q # p /\ Renewing(q) /\ Carried(q)' = Carried(q))
    BY DEF TokensIInv, TokensTypeOK, Renewing, Saving, Carried
  <2>3. ~Renewing(p)' /\ mem'[p].ref = 0 /\ \A q \in Proc \ {p} : mem'[q] = mem[q] /\ Renewing(q)' = Renewing(q)
    BY DEF TokensIInv, TokensTypeOK, NoToken, Renewing, Saving
  <2> QED
    BY <2>1, <2>2, <2>3 DEF TokensIInv, TokensTypeOK, Exclusive, NoToken
<1>6. OneWriter'
  BY DEF TokensIInv, TokensTypeOK, OneWriter
<1>7. LoginKept'
  BY DEF TokensIInv, TokensTypeOK, LoginKept, Renewing, Saving, Stored
<1>8. RefusedOnlyIfOutdated'
  BY DEF TokensIInv, TokensTypeOK, RefusedOnlyIfOutdated, Renewing, Saving, Stored
<1>9. Decided'
  BY DEF TokensIInv, TokensTypeOK, Decided, Kinds, Saving, Usable
<1> QED
  BY <1>1, <1>2, <1>3, <1>4, <1>5, <1>6, <1>7, <1>8, <1>9 DEF TokensIInv

LEMMA AskInv == ASSUME TokensIInv, NEW p \in Proc, Ask(p) PROVE TokensIInv'
<1> USE DEF Ask, Goes, Returns, server, disk, process, tokenHist
<1>1. TokensTypeOK'
  <2>1. /\ mem' \in [Proc -> Token] /\ answer' \in [Proc -> Token]
        /\ tpc' \in [Proc -> {"off", "idle", "asked", "answered"} \cup Saving]
        /\ fd' \in [Proc -> {"none", "tmp", "file", "gone"}]
        /\ got' \in [Proc -> Nat] /\ decided' \in [Proc -> Nat]
    BY DEF TokensIInv, TokensTypeOK, Content, Token, NoToken, Saving
  <2>2. \A q \in Proc : /\ fd'[q] # "none" <=> tpc'[q] = "write"
                        /\ answer'[q].id # 0 <=> tpc'[q] = "answered"
    BY DEF TokensIInv, TokensTypeOK, NoToken, Token
  <2> QED
    BY <2>1, <2>2, TokensAssumption DEF TokensIInv, TokensTypeOK, Content, Token, NoToken
<1>2. Kinds'
  BY DEF TokensIInv, TokensTypeOK, Kinds, NoToken, Saving
<1>3. OneGood'
  BY DEF TokensIInv, TokensTypeOK, OneGood, NoToken
<1>4. SameToken'
  BY DEF TokensIInv, TokensTypeOK, SameToken, NoToken, Stored
<1>5. Exclusive'
  BY DEF TokensIInv, TokensTypeOK, Exclusive, Carried, Renewing, Saving, NoToken
<1>6. OneWriter'
  BY DEF TokensIInv, TokensTypeOK, OneWriter
<1>7. LoginKept'
  BY DEF TokensIInv, TokensTypeOK, LoginKept, Renewing, Saving, Stored
<1>8. RefusedOnlyIfOutdated'
  BY DEF TokensIInv, TokensTypeOK, RefusedOnlyIfOutdated, Renewing, Saving, Stored
<1>9. Decided'
  BY DEF TokensIInv, TokensTypeOK, Decided, Kinds, Saving, Usable
<1> QED
  BY <1>1, <1>2, <1>3, <1>4, <1>5, <1>6, <1>7, <1>8, <1>9 DEF TokensIInv

LEMMA InvalidateInv == ASSUME TokensIInv, NEW p \in Proc, Invalidate(p) PROVE TokensIInv'
<1> USE DEF Invalidate, Goes, Returns, server, disk, process, tokenHist
<1>0. /\ mem[p] \in Token
      /\ mem' = [mem EXCEPT ![p] = [mem[p] EXCEPT !.id = 0, !.exp = 0]]
      /\ [mem[p] EXCEPT !.id = 0, !.exp = 0] \in Token
  BY DEF TokensIInv, TokensTypeOK, Token
<1>1. TokensTypeOK'
  BY <1>0 DEF TokensIInv, TokensTypeOK
<1>2. Kinds'
  BY DEF TokensIInv, TokensTypeOK, Kinds, NoToken, Saving
<1>3. OneGood'
  BY DEF TokensIInv, TokensTypeOK, OneGood, NoToken
<1>4. SameToken'
  BY DEF TokensIInv, TokensTypeOK, SameToken, NoToken, Stored
<1>5. Exclusive'
  BY DEF TokensIInv, TokensTypeOK, Exclusive, Carried, Renewing, Saving, NoToken
<1>6. OneWriter'
  BY DEF TokensIInv, TokensTypeOK, OneWriter
<1>7. LoginKept'
  BY DEF TokensIInv, TokensTypeOK, LoginKept, Renewing, Saving, Stored
<1>8. RefusedOnlyIfOutdated'
  BY DEF TokensIInv, TokensTypeOK, RefusedOnlyIfOutdated, Renewing, Saving, Stored
<1>9. Decided'
  BY DEF TokensIInv, TokensTypeOK, Decided, Kinds, Saving, Usable
<1> QED
  BY <1>1, <1>2, <1>3, <1>4, <1>5, <1>6, <1>7, <1>8, <1>9 DEF TokensIInv

LEMMA ReturnCachedInv == ASSUME TokensIInv, NEW p \in Proc, ReturnCached(p) PROVE TokensIInv'
<1> USE DEF ReturnCached, Goes, Returns, server, disk, process, tokenHist
<1>1. TokensTypeOK'
  <2>1. /\ mem' \in [Proc -> Token] /\ answer' \in [Proc -> Token]
        /\ tpc' \in [Proc -> {"off", "idle", "asked", "answered"} \cup Saving]
        /\ fd' \in [Proc -> {"none", "tmp", "file", "gone"}]
        /\ got' \in [Proc -> Nat] /\ decided' \in [Proc -> Nat]
    BY DEF TokensIInv, TokensTypeOK, Content, Token, NoToken, Saving
  <2>2. \A q \in Proc : /\ fd'[q] # "none" <=> tpc'[q] = "write"
                        /\ answer'[q].id # 0 <=> tpc'[q] = "answered"
    BY DEF TokensIInv, TokensTypeOK, NoToken, Token
  <2> QED
    BY <2>1, <2>2, TokensAssumption DEF TokensIInv, TokensTypeOK, Content, Token, NoToken
<1>2. Kinds'
  BY DEF TokensIInv, TokensTypeOK, Kinds, NoToken, Saving
<1>3. OneGood'
  BY DEF TokensIInv, TokensTypeOK, OneGood, NoToken
<1>4. SameToken'
  BY DEF TokensIInv, TokensTypeOK, SameToken, NoToken, Stored
<1>5. Exclusive'
  BY DEF TokensIInv, TokensTypeOK, Exclusive, Carried, Renewing, Saving, NoToken
<1>6. OneWriter'
  BY DEF TokensIInv, TokensTypeOK, OneWriter
<1>7. LoginKept'
  BY DEF TokensIInv, TokensTypeOK, LoginKept, Renewing, Saving, Stored
<1>8. RefusedOnlyIfOutdated'
  BY DEF TokensIInv, TokensTypeOK, RefusedOnlyIfOutdated, Renewing, Saving, Stored
<1>9. Decided'
  BY DEF TokensIInv, TokensTypeOK, Decided, Kinds, Saving, Usable
<1> QED
  BY <1>1, <1>2, <1>3, <1>4, <1>5, <1>6, <1>7, <1>8, <1>9 DEF TokensIInv

LEMMA ReturnNothingInv == ASSUME TokensIInv, NEW p \in Proc, ReturnNothing(p) PROVE TokensIInv'
<1> USE DEF ReturnNothing, Goes, Returns, server, disk, process, tokenHist
<1>1. TokensTypeOK'
  <2>1. /\ mem' \in [Proc -> Token] /\ answer' \in [Proc -> Token]
        /\ tpc' \in [Proc -> {"off", "idle", "asked", "answered"} \cup Saving]
        /\ fd' \in [Proc -> {"none", "tmp", "file", "gone"}]
        /\ got' \in [Proc -> Nat] /\ decided' \in [Proc -> Nat]
    BY DEF TokensIInv, TokensTypeOK, Content, Token, NoToken, Saving
  <2>2. \A q \in Proc : /\ fd'[q] # "none" <=> tpc'[q] = "write"
                        /\ answer'[q].id # 0 <=> tpc'[q] = "answered"
    BY DEF TokensIInv, TokensTypeOK, NoToken, Token
  <2> QED
    BY <2>1, <2>2, TokensAssumption DEF TokensIInv, TokensTypeOK, Content, Token, NoToken
<1>2. Kinds'
  BY DEF TokensIInv, TokensTypeOK, Kinds, NoToken, Saving
<1>3. OneGood'
  BY DEF TokensIInv, TokensTypeOK, OneGood, NoToken
<1>4. SameToken'
  BY DEF TokensIInv, TokensTypeOK, SameToken, NoToken, Stored
<1>5. Exclusive'
  BY DEF TokensIInv, TokensTypeOK, Exclusive, Carried, Renewing, Saving, NoToken
<1>6. OneWriter'
  BY DEF TokensIInv, TokensTypeOK, OneWriter
<1>7. LoginKept'
  BY DEF TokensIInv, TokensTypeOK, LoginKept, Renewing, Saving, Stored
<1>8. RefusedOnlyIfOutdated'
  BY DEF TokensIInv, TokensTypeOK, RefusedOnlyIfOutdated, Renewing, Saving, Stored
<1>9. Decided'
  BY DEF TokensIInv, TokensTypeOK, Decided, Kinds, Saving, Usable
<1> QED
  BY <1>1, <1>2, <1>3, <1>4, <1>5, <1>6, <1>7, <1>8, <1>9 DEF TokensIInv

LEMMA EndpointAnswersInv == ASSUME TokensIInv, NEW p \in Proc, EndpointAnswers(p) PROVE TokensIInv'
<1> USE DEF EndpointAnswers, Goes, Returns, server, disk, process, tokenHist
<1> DEFINE a == IF provider = "stored" /\ rotates
                THEN [NoToken EXCEPT !.id = issued', !.ref = issued', !.born = now]
                ELSE [NoToken EXCEPT !.id = issued', !.born = now]
<1>0. /\ answer' = [answer EXCEPT ![p] = a] /\ a \in Token /\ a.id = issued'
      /\ a.ref = IF provider = "stored" /\ rotates THEN issued' ELSE 0
      /\ issued' = issued + 1 /\ issued \in Nat /\ issued' \in Nat \ {0}
  <2>1. issued' = issued + 1 /\ issued \in Nat /\ now \in Nat /\ issued' \in Nat \ {0}
    BY TokensAssumption DEF TokensIInv, TokensTypeOK
  <2>2. answer' = [answer EXCEPT ![p] = a]
    OBVIOUS
  <2>3. CASE provider = "stored" /\ rotates
    BY <2>1, <2>2, <2>3 DEF NoToken, Token
  <2>4. CASE ~(provider = "stored" /\ rotates)
    BY <2>1, <2>2, <2>4 DEF NoToken, Token
  <2> QED
    BY <2>3, <2>4
<1> HIDE DEF a
<1>1. TokensTypeOK'
  <2>1. good' \subseteq Nat /\ outdated' \subseteq Proc
    BY <1>0 DEF TokensIInv, TokensTypeOK
  <2>2. \A q \in Proc : /\ fd'[q] # "none" <=> tpc'[q] = "write"
                        /\ answer'[q].id # 0 <=> tpc'[q] = "answered"
    BY <1>0 DEF TokensIInv, TokensTypeOK
  <2> QED
    BY <1>0, <2>1, <2>2 DEF TokensIInv, TokensTypeOK
<1>2. Kinds'
  BY DEF TokensIInv, TokensTypeOK, Kinds, NoToken, Saving
<1>3. OneGood'
  <2> SUFFICES ASSUME provider = "stored"
               PROVE  /\ \E g \in 1 .. issued' : good' = {g}
                      /\ file.tk.ref <= issued' /\ tmp.tk.ref <= issued'
                      /\ \A q \in Proc : mem[q].ref <= issued' /\ answer'[q].ref <= issued'
    BY DEF OneGood
  <2>1. PICK g \in 1 .. issued : good = {g}
    BY DEF TokensIInv, OneGood
  <2>2. \E h \in 1 .. issued' : good' = {h}
    <3>1. CASE rotates
      BY <1>0, <2>1, <3>1
    <3>2. CASE ~rotates
      BY <1>0, <2>1, <3>2
    <3> QED
      BY <3>1, <3>2
  <2>3. /\ file.tk.ref \in Nat /\ tmp.tk.ref \in Nat
        /\ \A q \in Proc : mem[q].ref \in Nat /\ answer[q].ref \in Nat
    BY DEF TokensIInv, TokensTypeOK, Content, Token
  <2>4. \A q \in Proc : answer'[q].ref = answer[q].ref \/ answer'[q].ref = issued' \/ answer'[q].ref = 0
    BY <1>0 DEF TokensIInv, TokensTypeOK
  <2> QED
    BY <1>0, <2>2, <2>3, <2>4 DEF TokensIInv, OneGood
<1>4. SameToken'
  BY <1>0 DEF TokensIInv, TokensTypeOK, SameToken
<1>5. Exclusive'
  <2> SUFFICES ASSUME rotates, NEW q \in Proc, Renewing(q)'
               PROVE  /\ tpc'[q] = "answered" => answer'[q].ref # 0
                      /\ Carried(q)' \in good'
                      /\ file.tk.ref \notin good'
                      /\ tpc'[q] # "rename" => tmp.tk.ref \notin good'
                      /\ \A r \in Proc \ {q} : ~Renewing(r)' /\ mem[r].ref \notin good'
    BY DEF TokensIInv, Exclusive
  <2>1. provider = "stored" /\ good = {mem[p].ref} /\ good' = {issued'}
    BY DEF TokensIInv, Kinds, OneGood
  <2>2. /\ file.tk.ref # issued' /\ tmp.tk.ref # issued'
        /\ \A r \in Proc : mem[r].ref # issued'
    BY <1>0, <2>1 DEF TokensIInv, TokensTypeOK, Content, Token, OneGood
  <2>3. \A r \in Proc \ {p} : ~Renewing(r) /\ ~Renewing(r)'
    BY <2>1 DEF TokensIInv, TokensTypeOK, Exclusive, Renewing, Saving
  <2>4. q = p
    BY <2>3
  <2>5. Carried(p)' = issued' /\ answer'[p].ref # 0
    BY <1>0, <2>1 DEF TokensIInv, TokensTypeOK, Carried
  <2> QED
    BY <2>1, <2>2, <2>3, <2>4, <2>5
<1>6. OneWriter'
  BY DEF TokensIInv, TokensTypeOK, OneWriter
<1>7. LoginKept'
  BY DEF TokensIInv, TokensTypeOK, LoginKept, Renewing, Saving, Stored
<1>8. RefusedOnlyIfOutdated'
  BY DEF TokensIInv, TokensTypeOK, RefusedOnlyIfOutdated, Renewing, Saving, Stored
<1>9. Decided'
  BY DEF TokensIInv, TokensTypeOK, Decided, Kinds, Saving, Usable
<1> QED
  BY <1>1, <1>2, <1>3, <1>4, <1>5, <1>6, <1>7, <1>8, <1>9 DEF TokensIInv

LEMMA EndpointRejectsInv == ASSUME TokensIInv, NEW p \in Proc, EndpointRejects(p) PROVE TokensIInv'
<1> USE DEF EndpointRejects, Goes, Returns, server, disk, process, tokenHist
<1>1. TokensTypeOK'
  <2>1. /\ mem' \in [Proc -> Token] /\ answer' \in [Proc -> Token]
        /\ tpc' \in [Proc -> {"off", "idle", "asked", "answered"} \cup Saving]
        /\ fd' \in [Proc -> {"none", "tmp", "file", "gone"}]
        /\ got' \in [Proc -> Nat] /\ decided' \in [Proc -> Nat]
    BY DEF TokensIInv, TokensTypeOK, Content, Token, NoToken, Saving
  <2>2. \A q \in Proc : /\ fd'[q] # "none" <=> tpc'[q] = "write"
                        /\ answer'[q].id # 0 <=> tpc'[q] = "answered"
    BY DEF TokensIInv, TokensTypeOK, NoToken, Token
  <2> QED
    BY <2>1, <2>2, TokensAssumption DEF TokensIInv, TokensTypeOK, Content, Token, NoToken
<1>2. Kinds'
  BY DEF TokensIInv, TokensTypeOK, Kinds, NoToken, Saving
<1>3. OneGood'
  BY DEF TokensIInv, TokensTypeOK, OneGood, NoToken
<1>4. SameToken'
  BY DEF TokensIInv, TokensTypeOK, SameToken, NoToken, Stored
<1>5. Exclusive'
  BY DEF TokensIInv, TokensTypeOK, Exclusive, Carried, Renewing, Saving, NoToken
<1>6. OneWriter'
  BY DEF TokensIInv, TokensTypeOK, OneWriter
<1>7. LoginKept'
  BY DEF TokensIInv, TokensTypeOK, LoginKept, Renewing, Saving, Stored
<1>8. RefusedOnlyIfOutdated'
  BY DEF TokensIInv, TokensTypeOK, RefusedOnlyIfOutdated, Renewing, Saving, Stored
<1>9. Decided'
  BY DEF TokensIInv, TokensTypeOK, Decided, Kinds, Saving, Usable
<1> QED
  BY <1>1, <1>2, <1>3, <1>4, <1>5, <1>6, <1>7, <1>8, <1>9 DEF TokensIInv

LEMMA FetchFailsInv == ASSUME TokensIInv, NEW p \in Proc, FetchFails(p) PROVE TokensIInv'
<1> USE DEF FetchFails, Goes, Returns, server, disk, process, tokenHist
<1>1. TokensTypeOK'
  <2>1. answer' \in [Proc -> Token] /\ tpc' \in [Proc -> {"off", "idle", "asked", "answered"} \cup Saving]
    BY DEF TokensIInv, TokensTypeOK, NoToken, Token
  <2>2. \A q \in Proc : /\ fd'[q] # "none" <=> tpc'[q] = "write"
                        /\ answer'[q].id # 0 <=> tpc'[q] = "answered"
    BY DEF TokensIInv, TokensTypeOK, NoToken
  <2>3. outdated' \subseteq Proc /\ interrupted' \in BOOLEAN
    BY Zenon DEF TokensIInv, TokensTypeOK
  <2>4. faults' \in 0 .. MaxFaults /\ got' \in [Proc -> Nat]
    BY TokensAssumption DEF TokensIInv, TokensTypeOK
  <2> QED
    BY <2>1, <2>2, <2>3, <2>4 DEF TokensIInv, TokensTypeOK
<1>2. Kinds'
  BY DEF TokensIInv, TokensTypeOK, Kinds, NoToken, Saving
<1>3. OneGood'
  BY DEF TokensIInv, TokensTypeOK, OneGood, NoToken
<1>4. SameToken'
  BY DEF TokensIInv, TokensTypeOK, SameToken, NoToken, Stored
<1>5. Exclusive'
  BY DEF TokensIInv, TokensTypeOK, Exclusive, Carried, Renewing, Saving, NoToken
<1>6. OneWriter'
  BY DEF TokensIInv, TokensTypeOK, OneWriter
<1>7. LoginKept'
  BY DEF TokensIInv, TokensTypeOK, LoginKept, Renewing, Saving, Stored
<1>8. RefusedOnlyIfOutdated'
  BY DEF TokensIInv, TokensTypeOK, RefusedOnlyIfOutdated, Renewing, Saving, Stored
<1>9. Decided'
  BY DEF TokensIInv, TokensTypeOK, Decided, Kinds, Saving, Usable
<1> QED
  BY <1>1, <1>2, <1>3, <1>4, <1>5, <1>6, <1>7, <1>8, <1>9 DEF TokensIInv

LEMMA ReceiveAnswerInv == ASSUME TokensIInv, NEW p \in Proc, ReceiveAnswer(p) PROVE TokensIInv'
<1> USE DEF ReceiveAnswer, Goes, Returns, server, disk, process, tokenHist
<1> DEFINE a == [answer[p] EXCEPT !.exp = Expiry, !.ref = IF @ = 0 THEN mem[p].ref ELSE @]
<1>0. /\ mem' = [mem EXCEPT ![p] = a] /\ a \in Token /\ mem'[p] = a
      /\ a.id = answer[p].id /\ a.exp = Expiry /\ a.born = answer[p].born
      /\ a.ref = IF answer[p].ref = 0 THEN mem[p].ref ELSE answer[p].ref
      /\ Expiry \in Nat /\ (tells => Expiry = now + Life)
  <2>1. mem[p] \in Token /\ answer[p] \in Token
    BY DEF TokensIInv, TokensTypeOK
  <2>2. Expiry \in Nat /\ (tells => Expiry = now + Life)
    BY TokensAssumption DEF TokensIInv, TokensTypeOK, Expiry
  <2>3. a \in Token /\ mem' = [mem EXCEPT ![p] = a]
    BY <2>1, <2>2 DEF Token
  <2> QED
    BY <2>1, <2>2, <2>3 DEF TokensIInv, TokensTypeOK, Token
<1> HIDE DEF a
<1>1. TokensTypeOK'
  <2>1. answer' \in [Proc -> Token] /\ tpc' \in [Proc -> {"off", "idle", "asked", "answered"} \cup Saving]
    BY DEF TokensIInv, TokensTypeOK, NoToken, Token, Saving
  <2>2. \A q \in Proc : /\ fd'[q] # "none" <=> tpc'[q] = "write"
                        /\ answer'[q].id # 0 <=> tpc'[q] = "answered"
    BY DEF TokensIInv, TokensTypeOK, NoToken
  <2>3. got' \in [Proc -> Nat]
    BY <1>0 DEF TokensIInv, TokensTypeOK, Token
  <2>4. decided' \in [Proc -> Nat]
    BY DEF TokensIInv, TokensTypeOK
  <2> QED
    BY <1>0, <2>1, <2>2, <2>3, <2>4 DEF TokensIInv, TokensTypeOK
<1>2. Kinds'
  BY DEF TokensIInv, TokensTypeOK, Kinds, NoToken, Saving
<1>3. OneGood'
  BY DEF TokensIInv, TokensTypeOK, OneGood, NoToken
<1>4. SameToken'
  BY DEF TokensIInv, TokensTypeOK, SameToken, NoToken, Stored
<1>5. Exclusive'
  BY DEF TokensIInv, TokensTypeOK, Exclusive, Carried, Renewing, Saving, NoToken
<1>6. OneWriter'
  BY DEF TokensIInv, TokensTypeOK, OneWriter
<1>7. LoginKept'
  BY DEF TokensIInv, TokensTypeOK, LoginKept, Renewing, Saving, Stored
<1>8. RefusedOnlyIfOutdated'
  BY DEF TokensIInv, TokensTypeOK, RefusedOnlyIfOutdated, Renewing, Saving, Stored
<1>9. Decided'
  BY <1>0 DEF TokensIInv, TokensTypeOK, Decided, Saving
<1> QED
  BY <1>1, <1>2, <1>3, <1>4, <1>5, <1>6, <1>7, <1>8, <1>9 DEF TokensIInv

LEMMA SaveCreateInv == ASSUME TokensIInv, NEW p \in Proc, SaveCreate(p) PROVE TokensIInv'
<1> USE DEF SaveCreate, Goes, Returns, server, disk, process, tokenHist
<1>1. TokensTypeOK'
  <2>1. /\ mem' \in [Proc -> Token] /\ answer' \in [Proc -> Token]
        /\ tpc' \in [Proc -> {"off", "idle", "asked", "answered"} \cup Saving]
        /\ fd' \in [Proc -> {"none", "tmp", "file", "gone"}]
        /\ got' \in [Proc -> Nat] /\ decided' \in [Proc -> Nat]
    BY DEF TokensIInv, TokensTypeOK, Content, Token, NoToken, Saving
  <2>2. \A q \in Proc : /\ fd'[q] # "none" <=> tpc'[q] = "write"
                        /\ answer'[q].id # 0 <=> tpc'[q] = "answered"
    BY DEF TokensIInv, TokensTypeOK, NoToken, Token
  <2> QED
    BY <2>1, <2>2, TokensAssumption DEF TokensIInv, TokensTypeOK, Content, Token, NoToken
<1>2. Kinds'
  BY DEF TokensIInv, TokensTypeOK, Kinds, NoToken, Saving
<1>3. OneGood'
  BY DEF TokensIInv, TokensTypeOK, OneGood, NoToken
<1>4. SameToken'
  BY DEF TokensIInv, TokensTypeOK, SameToken, NoToken, Stored
<1>5. Exclusive'
  <2>1. tmp'.tk.ref = 0 /\ (rotates => 0 \notin good)
    BY DEF TokensIInv, Kinds, OneGood, NoToken
  <2>2. \A q \in Proc : Renewing(q)' = Renewing(q) /\ Carried(q)' = Carried(q)
    BY DEF TokensIInv, TokensTypeOK, Renewing, Saving, Carried
  <2>3. \A q \in Proc : tpc'[q] = "answered" <=> tpc[q] = "answered"
    BY DEF TokensIInv, TokensTypeOK
  <2>4. \A q \in Proc : fd'[q] \in {"none", "tmp"} \/ fd'[q] = fd[q]
    BY DEF TokensIInv, TokensTypeOK
  <2> QED
    BY <2>1, <2>2, <2>3, <2>4 DEF TokensIInv, Exclusive
<1>6. OneWriter'
  <2>1. /\ tpc'[p] = "write" /\ fd'[p] = "tmp" /\ tmp'.st = "torn"
        /\ \A q \in Proc \ {p} : tpc'[q] = tpc[q]
    BY DEF TokensIInv, TokensTypeOK
  <2>2. ~overlap' => \A q \in Proc \ {p} : tpc[q] \notin {"write", "rename"}
    BY DEF Saving
  <2> QED
    BY <2>1, <2>2 DEF OneWriter
<1>7. LoginKept'
  BY DEF TokensIInv, TokensTypeOK, LoginKept, Renewing, Saving, Stored
<1>8. RefusedOnlyIfOutdated'
  BY DEF TokensIInv, TokensTypeOK, RefusedOnlyIfOutdated, Renewing, Saving, Stored
<1>9. Decided'
  BY DEF TokensIInv, TokensTypeOK, Decided, Kinds, Saving, Usable
<1> QED
  BY <1>1, <1>2, <1>3, <1>4, <1>5, <1>6, <1>7, <1>8, <1>9 DEF TokensIInv

LEMMA SaveWriteInv == ASSUME TokensIInv, NEW p \in Proc, SaveWrite(p) PROVE TokensIInv'
<1> USE DEF SaveWrite, Goes, Returns, server, disk, process, tokenHist
<1>0. /\ tmp' = tmp \/ tmp' = [st |-> "ok", tk |-> mem[p]] \/ tmp' = [st |-> "torn", tk |-> NoToken]
      /\ file' = file \/ file' = [st |-> "ok", tk |-> mem[p]] \/ file' = [st |-> "torn", tk |-> NoToken]
      /\ fd[p] # "tmp" => tmp' = tmp
      /\ fd[p] = "tmp" => file' = file
      /\ fd[p] = "tmp" /\ tmp.st = "torn" => tmp' = [st |-> "ok", tk |-> mem[p]]
      /\ mem[p] \in Token /\ NoToken \in Token
  BY DEF Contents, TokensIInv, TokensTypeOK, NoToken, Token
<1>1. TokensTypeOK'
  <2>1. file' \in Content /\ tmp' \in Content
    BY <1>0 DEF TokensIInv, TokensTypeOK, Content
  <2>2. /\ tpc' \in [Proc -> {"off", "idle", "asked", "answered"} \cup Saving]
        /\ fd' \in [Proc -> {"none", "tmp", "file", "gone"}]
        /\ \A q \in Proc : /\ fd'[q] # "none" <=> tpc'[q] = "write"
                           /\ answer[q].id # 0 <=> tpc'[q] = "answered"
    BY DEF TokensIInv, TokensTypeOK, Saving
  <2> QED
    BY <2>1, <2>2 DEF TokensIInv, TokensTypeOK
<1>2. Kinds'
  BY DEF TokensIInv, TokensTypeOK, Kinds, NoToken, Saving
<1>3. OneGood'
  <2>1. \A q \in Proc : mem[q].ref \in Nat
    BY DEF TokensIInv, TokensTypeOK, Token
  <2> QED
    BY <1>0, <2>1 DEF TokensIInv, TokensTypeOK, OneGood, NoToken
<1>4. SameToken'
  BY <1>0 DEF TokensIInv, TokensTypeOK, SameToken, NoToken, Saving
<1>5. Exclusive'
  <2>1. rotates => 0 \notin good
    BY DEF TokensIInv, Kinds, OneGood
  <2>2. \A q \in Proc : Renewing(q)' = Renewing(q) /\ Carried(q)' = Carried(q)
    BY DEF TokensIInv, TokensTypeOK, Renewing, Saving, Carried
  <2>3. /\ Renewing(p) /\ fd[p] # "none"
        /\ \A q \in Proc : /\ tpc'[q] = "answered" <=> tpc[q] = "answered"
                           /\ q # p => (tpc'[q] = "rename" <=> tpc[q] = "rename")
    BY DEF TokensIInv, TokensTypeOK, Renewing, Saving
  <2>4. rotates => fd[p] = "tmp" /\ file' = file /\ \A q \in Proc : Renewing(q) => q = p
    BY <1>0, <2>3 DEF TokensIInv, Exclusive
  <2>5. tpc'[p] = "rename" /\ \A q \in Proc : fd'[q] \in {"none", fd[q]}
    BY DEF TokensIInv, TokensTypeOK
  <2> QED
    BY <2>1, <2>2, <2>3, <2>4, <2>5 DEF TokensIInv, Exclusive
<1>6. OneWriter'
  <2>1. /\ tpc'[p] = "rename"
        /\ \A q \in Proc : /\ tpc'[q] \in {"write", "rename"} <=> tpc[q] \in {"write", "rename"}
                           /\ q # p => tpc'[q] = tpc[q] /\ fd'[q] = fd[q]
    BY DEF TokensIInv, TokensTypeOK
  <2> QED
    BY <1>0, <2>1 DEF TokensIInv, OneWriter, Kinds, Saving
<1>7. LoginKept'
  <2>1. \A q \in Proc : Renewing(q)' = Renewing(q)
    BY DEF TokensIInv, TokensTypeOK, Renewing, Saving
  <2>2. provider = "stored" /\ ~overlap => file' = file
    BY <1>0 DEF TokensIInv, OneWriter
  <2> QED
    BY <2>1, <2>2 DEF TokensIInv, LoginKept
<1>8. RefusedOnlyIfOutdated'
  BY DEF TokensIInv, TokensTypeOK, RefusedOnlyIfOutdated, Renewing, Saving, Stored
<1>9. Decided'
  BY DEF TokensIInv, TokensTypeOK, Decided, Kinds, Saving, Usable
<1> QED
  BY <1>1, <1>2, <1>3, <1>4, <1>5, <1>6, <1>7, <1>8, <1>9 DEF TokensIInv

LEMMA SaveRenameInv == ASSUME TokensIInv, NEW p \in Proc, SaveRename(p) PROVE TokensIInv'
<1> USE DEF SaveRename, Goes, Returns, server, disk, process, tokenHist
<1>1. TokensTypeOK'
  <2>1. /\ mem' \in [Proc -> Token] /\ answer' \in [Proc -> Token]
        /\ tpc' \in [Proc -> {"off", "idle", "asked", "answered"} \cup Saving]
        /\ fd' \in [Proc -> {"none", "tmp", "file", "gone"}]
        /\ got' \in [Proc -> Nat] /\ decided' \in [Proc -> Nat]
    BY DEF TokensIInv, TokensTypeOK, Content, Token, NoToken, Saving
  <2>2. \A q \in Proc : /\ fd'[q] # "none" <=> tpc'[q] = "write"
                        /\ answer'[q].id # 0 <=> tpc'[q] = "answered"
    BY DEF TokensIInv, TokensTypeOK, NoToken, Token
  <2> QED
    BY <2>1, <2>2, TokensAssumption DEF TokensIInv, TokensTypeOK, Content, Token, NoToken
<1>2. Kinds'
  BY DEF TokensIInv, TokensTypeOK, Kinds, NoToken, Saving
<1>3. OneGood'
  BY DEF TokensIInv, TokensTypeOK, OneGood, NoToken
<1>4. SameToken'
  BY DEF TokensIInv, TokensTypeOK, SameToken, NoToken, Stored
<1>5. Exclusive'
  BY DEF TokensIInv, TokensTypeOK, Exclusive, Carried, Renewing, Saving, NoToken
<1>6. OneWriter'
  BY DEF TokensIInv, TokensTypeOK, OneWriter
<1>7. LoginKept'
  <2>1. provider = "stored" /\ Renewing(p) /\ tpc[p] # "off"
    BY DEF TokensIInv, Kinds, Saving, Renewing
  <2>2. ~overlap => tmp = [st |-> "ok", tk |-> mem[p]]
    BY <2>1 DEF TokensIInv, OneWriter
  <2>3. mem[p].ref \in good
    BY <2>1 DEF TokensIInv, Exclusive, SameToken, Carried
  <2> QED
    BY <2>1, <2>2, <2>3 DEF LoginKept
<1>8. RefusedOnlyIfOutdated'
  <2>1. provider = "stored" /\ Renewing(p) /\ tpc[p] # "off" /\ tpc[p] # "answered"
    BY DEF TokensIInv, Kinds, Saving, Renewing
  <2>2. mem[p].ref \in good
    BY <2>1 DEF TokensIInv, Exclusive, SameToken, Carried
  <2>3. \A q \in Proc \ {p} : tpc'[q] = tpc[q] /\ Renewing(q)' = Renewing(q)
    BY DEF TokensIInv, TokensTypeOK, Renewing, Saving
  <2> QED
    BY <2>2, <2>3 DEF TokensIInv, RefusedOnlyIfOutdated
<1>9. Decided'
  BY DEF TokensIInv, TokensTypeOK, Decided, Kinds, Saving, Usable
<1> QED
  BY <1>1, <1>2, <1>3, <1>4, <1>5, <1>6, <1>7, <1>8, <1>9 DEF TokensIInv

LEMMA SaveFailsInv == ASSUME TokensIInv, NEW p \in Proc, SaveFails(p) PROVE TokensIInv'
<1> USE DEF SaveFails, Goes, Returns, server, disk, process, tokenHist
<1>1. TokensTypeOK'
  <2>1. /\ tpc' \in [Proc -> {"off", "idle", "asked", "answered"} \cup Saving]
        /\ fd' \in [Proc -> {"none", "tmp", "file", "gone"}]
        /\ \A q \in Proc : /\ fd'[q] # "none" <=> tpc'[q] = "write"
                           /\ answer[q].id # 0 <=> tpc'[q] = "answered"
    BY DEF TokensIInv, TokensTypeOK, Saving
  <2>2. faults' \in 0 .. MaxFaults /\ got' \in [Proc -> Nat]
    BY TokensAssumption DEF TokensIInv, TokensTypeOK, Token
  <2>3. interrupted' \in BOOLEAN
    BY Zenon
  <2> QED
    BY <2>1, <2>2, <2>3 DEF TokensIInv, TokensTypeOK
<1>2. Kinds'
  BY DEF TokensIInv, TokensTypeOK, Kinds, NoToken, Saving
<1>3. OneGood'
  BY DEF TokensIInv, TokensTypeOK, OneGood, NoToken
<1>4. SameToken'
  BY DEF TokensIInv, TokensTypeOK, SameToken, Saving
<1>5. Exclusive'
  BY DEF TokensIInv, TokensTypeOK, Exclusive, Carried, Renewing, Saving, NoToken
<1>6. OneWriter'
  BY DEF TokensIInv, TokensTypeOK, OneWriter
<1>7. LoginKept'
  BY DEF TokensIInv, TokensTypeOK, LoginKept, Renewing, Saving, Stored
<1>8. RefusedOnlyIfOutdated'
  <2>1. provider = "stored" /\ Renewing(p) /\ tpc[p] # "off" /\ tpc[p] # "answered"
    BY DEF TokensIInv, Kinds, Saving, Renewing
  <2>2. mem[p].ref \in good
    BY <2>1 DEF TokensIInv, Exclusive, SameToken, Carried
  <2>3. \A q \in Proc \ {p} : tpc'[q] = tpc[q] /\ Renewing(q)' = Renewing(q)
    BY DEF TokensIInv, TokensTypeOK, Renewing, Saving
  <2> QED
    BY <2>2, <2>3 DEF TokensIInv, RefusedOnlyIfOutdated
<1>9. Decided'
  BY DEF TokensIInv, TokensTypeOK, Decided, Kinds, Saving, Usable
<1> QED
  BY <1>1, <1>2, <1>3, <1>4, <1>5, <1>6, <1>7, <1>8, <1>9 DEF TokensIInv

LEMMA TickInv == ASSUME TokensIInv, Tick PROVE TokensIInv'
<1> USE DEF Tick, disk, process, tokenHist
<1>1. TokensTypeOK'
  BY TokensAssumption DEF TokensIInv, TokensTypeOK
<1>2. (Kinds /\ OneGood /\ SameToken /\ OneWriter /\ LoginKept)'
  BY DEF TokensIInv, Kinds, OneGood, SameToken, OneWriter, LoginKept, Renewing
<1>3. (Exclusive /\ RefusedOnlyIfOutdated /\ Decided)'
  BY DEF TokensIInv, Exclusive, Carried, Renewing, RefusedOnlyIfOutdated, Decided
<1> QED
  BY <1>1, <1>2, <1>3 DEF TokensIInv

LEMMA TokensInitially == TokensInit => TokensIInv
<1> SUFFICES ASSUME TokensInit PROVE TokensIInv
  OBVIOUS
<1> USE DEF TokensInit
<1>1. LoggedIn \in Token /\ NoToken \in Token /\ (provider = "stored" => LoggedIn.ref = 1)
  BY TokensAssumption DEF LoggedIn, NoToken, Token
<1>2. /\ file \in Content /\ tmp \in Content
      /\ provider = "stored" => file.st = "ok" /\ file.tk.ref = 1
      /\ tmp.st = "none" /\ tmp.tk.ref = 0
  BY <1>1 DEF Content, Stored, NoToken
<1>3. TokensTypeOK
  <2>1. rotates \in BOOLEAN /\ tells \in BOOLEAN
    BY Zenon
  <2>2. /\ now \in 0 .. MaxTime /\ starts \in 0 .. MaxStarts /\ faults \in 0 .. MaxFaults
        /\ issued \in Nat /\ good \subseteq Nat
    BY TokensAssumption
  <2>3. /\ tpc \in [Proc -> {"off", "idle", "asked", "answered"} \cup Saving]
        /\ mem \in [Proc -> Token] /\ answer \in [Proc -> Token]
        /\ fd \in [Proc -> {"none", "tmp", "file", "gone"}]
        /\ got \in [Proc -> Nat] /\ decided \in [Proc -> Nat]
        /\ \A p \in Proc : /\ fd[p] # "none" <=> tpc[p] = "write"
                           /\ answer[p].id # 0 <=> tpc[p] = "answered"
    BY <1>1 DEF NoToken
  <2> QED
    BY <1>2, <2>1, <2>2, <2>3 DEF TokensTypeOK
<1>4. Kinds
  BY DEF Kinds, Saving, NoToken
<1>5. OneGood /\ SameToken
  BY <1>2 DEF OneGood, SameToken, NoToken
<1>6. Exclusive /\ OneWriter /\ Decided
  BY DEF Exclusive, OneWriter, Decided, Renewing, Saving
<1>7. LoginKept /\ RefusedOnlyIfOutdated
  BY <1>2 DEF LoginKept, RefusedOnlyIfOutdated
<1> QED
  BY <1>3, <1>4, <1>5, <1>6, <1>7 DEF TokensIInv

LEMMA TokensStep == TokensIInv /\ [TokensNext]_tokenVars => TokensIInv'
<1> SUFFICES ASSUME TokensIInv, [TokensNext]_tokenVars PROVE TokensIInv'
  OBVIOUS
<1>1. ASSUME NEW p \in Proc, TokenSteps(p) PROVE TokensIInv'
  BY <1>1, ReturnCachedInv, ReturnNothingInv, EndpointAnswersInv, EndpointRejectsInv, FetchFailsInv,
     ReceiveAnswerInv, SaveCreateInv, SaveWriteInv, SaveRenameInv, SaveFailsInv DEF TokenSteps
<1>2. CASE UNCHANGED tokenVars
  <2> USE <1>2 DEF tokenVars, server, disk, process, tokenHist
  <2>1. (TokensTypeOK /\ Kinds /\ OneGood /\ SameToken /\ OneWriter /\ LoginKept)'
    BY DEF TokensIInv, TokensTypeOK, Kinds, OneGood, SameToken, OneWriter, LoginKept, Renewing
  <2>2. (Exclusive /\ RefusedOnlyIfOutdated /\ Decided)'
    BY DEF TokensIInv, Exclusive, Carried, Renewing, RefusedOnlyIfOutdated, Decided
  <2> QED
    BY <2>1, <2>2 DEF TokensIInv
<1> QED
  BY <1>1, <1>2, TickInv, StartProviderInv, StopProviderInv, AskInv, InvalidateInv DEF TokensNext

----------------------------------------------------------------------------
(* What it says of the providers.                                          *)

\* The invariant is inductive.
THEOREM TokensInvariant == TokensSpec => []TokensIInv
BY TokensInitially, TokensStep, PTL DEF TokensSpec

\* Every variable keeps its type; a descriptor is open only in a write, and an
\* answer is in hand only until it is received.
THEOREM TokensTypeCorrect == TokensSpec => []TokensTypeOK
<1>1. TokensIInv => TokensTypeOK
  BY DEF TokensIInv
<1> QED
  BY <1>1, TokensInvariant, PTL

\* tokens.json stays readable, and its refresh token accepted, through kills
\* and failed saves, unless two processes saved at the same time or a refresh
\* was cut off.
THEOREM LoginSurvives == TokensSpec => []LoginKept
<1>1. TokensIInv => LoginKept
  BY DEF TokensIInv
<1> QED
  BY <1>1, TokensInvariant, PTL

\* A process whose refresh token is refused has been overtaken by another one.
THEOREM Overtaken == TokensSpec => []RefusedOnlyIfOutdated
<1>1. TokensIInv => RefusedOnlyIfOutdated
  BY DEF TokensIInv
<1> QED
  BY <1>1, TokensInvariant, PTL

\* A token that has expired since Token returned it was returned longer ago
\* than the margin, the time its answer took counted in; provided that tokens
\* live longer than the margin at all.
THEOREM ReturnedInTime == ASSUME Life > Margin PROVE TokensSpec => []MarginCovers
<1>1. TokensIInv => MarginCovers
  <2> SUFFICES ASSUME TokensIInv, NEW p \in Proc, tells,
                      got[p] # 0, got[p] = mem[p].id, now >= mem[p].born + Life
               PROVE  (now - decided[p]) + (mem[p].exp - Life - mem[p].born) > Margin
    BY DEF MarginCovers
  <2>1. /\ now \in Nat /\ decided[p] \in Nat /\ mem[p].exp \in Nat /\ mem[p].born \in Nat
        /\ Life \in Nat /\ Margin \in Nat
    BY TokensAssumption DEF TokensIInv, TokensTypeOK, Token
  <2>2. decided[p] + Margin < mem[p].exp \/ mem[p].exp = decided[p] + Life
    BY DEF TokensIInv, Decided
  <2> QED
    BY <2>1, <2>2
<1> QED
  BY <1>1, TokensInvariant, PTL
=============================================================================
