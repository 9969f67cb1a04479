------------------------------- MODULE Tokens -------------------------------
(***************************************************************************)
(* The token providers of internal/transport (auth.go, authcode.go) and    *)
(* tokens.json, which the processes of one state directory share without a *)
(* lock.                                                                   *)
(*                                                                         *)
(*   - "stored": tokens of a --login with a refresh token;                 *)
(*   - "refreshless": tokens of a --login without one;                     *)
(*   - "oauth2": client credentials;                                       *)
(*   - "command": the output of a command, which is never cached;          *)
(*   - "none": no authentication, Token is not called.                     *)
(*                                                                         *)
(* The authorization server is the environment.  A token is the number     *)
(* under which it was issued, and so is the refresh token that came along. *)
(***************************************************************************)
EXTENDS Naturals, FiniteSets

CONSTANTS
  Proc,       \* processes that share the state directory
  Providers,  \* providers to look at
  Margin,     \* the 30 seconds before the expiry, in ticks
  Life,       \* how long an access token lives
  Hour,       \* how long it is taken to live when the server does not say
  MaxTime,    \* bound: ticks
  MaxTokens,  \* bound: tokens issued
  MaxStarts,  \* bound: process starts
  MaxFaults   \* bound: answers lost and saves failed

AllProviders == {"stored", "refreshless", "oauth2", "command", "none"}

ASSUME TokensAssumption ==
  /\ Providers \subseteq AllProviders
  /\ {Margin, Life, Hour, MaxTime, MaxTokens, MaxStarts, MaxFaults} \subseteq Nat
  /\ MaxTokens # 0   \* the token of the --login

\* StoredTokens, and what the other providers keep of it.  born: when the
\* server issued it; exp: when the client takes it to expire.
Token   == [id : Nat, ref : Nat, exp : Nat, born : Nat]
NoToken == [id |-> 0, ref |-> 0, exp |-> 0, born |-> 0]

VARIABLES
  provider,     \* the provider at work
  rotates,      \* the server replaces a refresh token that was used
  tells,        \* the server says how long a token lives
  now,          \* the clock
  starts,       \* number of process starts
  faults,       \* number of faults
  issued,       \* number of tokens issued
  good,         \* refresh tokens the server accepts
  file,         \* tokens.json
  tmp,          \* tokens.json.tmp
  tpc,          \* tpc[p]: where Token is in process p
  mem,          \* mem[p]: the tokens it has in memory
  answer,       \* answer[p]: what the token endpoint has answered
  fd,           \* fd[p]: what the descriptor p writes to leads to
  got,          \* got[p]: what Token returned, 0 for an error
  decided,      \* history: decided[p]: when p last found its token good or new
  outdated,     \* history: processes whose refresh token is not the newest
  overlap,      \* history: two processes have saved at the same time
  interrupted   \* history: a refresh or its save was interrupted

server    == <<provider, rotates, tells, now, issued, good>>
disk      == <<file, tmp>>
process   == <<tpc, mem, answer, fd, got>>
tokenHist == <<decided, outdated, overlap, interrupted>>
tokenVars == <<server, starts, faults, disk, process, tokenHist>>

Stored == provider \in {"stored", "refreshless"}

\* What --login has left behind.
LoggedIn == [id |-> 1, ref |-> IF provider = "stored" THEN 1 ELSE 0,
             exp |-> IF provider = "refreshless" THEN 0 ELSE IF tells THEN Life ELSE Hour,
             born |-> 0]

TokensInit ==
  /\ provider \in Providers
  /\ rotates \in IF provider = "stored" THEN BOOLEAN ELSE {FALSE}
  /\ tells \in IF provider \in {"stored", "oauth2"} THEN BOOLEAN ELSE {FALSE}
  /\ now = 0 /\ starts = 0 /\ faults = 0
  /\ issued = 1
  /\ good = IF provider = "stored" THEN {1} ELSE {}
  /\ file = IF Stored THEN [st |-> "ok", tk |-> LoggedIn] ELSE [st |-> "none", tk |-> NoToken]
  /\ tmp = [st |-> "none", tk |-> NoToken]
  /\ tpc = [p \in Proc |-> "off"]
  /\ mem = [p \in Proc |-> NoToken]
  /\ answer = [p \in Proc |-> NoToken]
  /\ fd = [p \in Proc |-> "none"]
  /\ got = [p \in Proc |-> 0]
  /\ decided = [p \in Proc |-> 0]
  /\ outdated = {}
  /\ overlap = FALSE
  /\ interrupted = FALSE

Goes(p, from, to) == tpc[p] = from /\ tpc' = [tpc EXCEPT ![p] = to]
Returns(p, id)    == got' = [got EXCEPT ![p] = id]

\* p is between the server's answer and the new tokens.json.
Saving == {"create", "write", "rename"}
Renewing(p) == tpc[p] \in {"answered"} \cup Saving

----------------------------------------------------------------------------
(* Starting, ending, and the calls of the transport.                       *)

\* NewStoredTokenProvider reads the file, and the start fails without one.
StartProvider(p) ==
  /\ Goes(p, "off", "idle")
  /\ starts < MaxStarts
  /\ starts' = starts + 1
  /\ Stored => file.st = "ok"
  /\ mem' = [mem EXCEPT ![p] = file.tk]
  /\ Returns(p, 0)
  /\ outdated' = IF overlap \/ interrupted \/ \E q \in Proc : Renewing(q)
                 THEN outdated \cup {p} ELSE outdated \ {p}
  /\ UNCHANGED <<server, faults, disk, answer, fd, decided, overlap, interrupted>>

\* The process ends or is killed, wherever it is.
StopProvider(p) ==
  /\ tpc[p] # "off"
  /\ tpc' = [tpc EXCEPT ![p] = "off"]
  /\ mem' = [mem EXCEPT ![p] = NoToken]
  /\ answer' = [answer EXCEPT ![p] = NoToken]
  /\ fd' = [fd EXCEPT ![p] = "none"]
  /\ Returns(p, 0)
  /\ interrupted' = (interrupted \/ (Stored /\ Renewing(p)))
  /\ UNCHANGED <<server, starts, faults, disk, decided, outdated, overlap>>

Ask(p) ==
  /\ Goes(p, "idle", "asked")
  /\ UNCHANGED <<server, starts, faults, disk, mem, answer, fd, got, tokenHist>>

\* Variant: all of it is forgotten.
InvalidateAll(p) ==
  /\ tpc[p] = "idle"
  /\ mem' = [mem EXCEPT ![p] = NoToken]
  /\ UNCHANGED <<server, starts, faults, disk, tpc, answer, fd, got, tokenHist>>

\* Variant: the token is kept.
InvalidateKeeps(p) == tpc[p] = "idle" /\ UNCHANGED tokenVars

Invalidate(p) ==
  /\ tpc[p] = "idle"
  /\ mem' = [mem EXCEPT ![p].id = 0, ![p].exp = 0]
  /\ UNCHANGED <<server, starts, faults, disk, tpc, answer, fd, got, tokenHist>>

----------------------------------------------------------------------------
(* Token.                                                                  *)

\* Variant: the token is used up to its expiry.
UsableToTheEnd(p) ==
  /\ mem[p].id # 0
  /\ provider = "refreshless" \/ (provider # "command" /\ now < mem[p].exp)

\* There is a token in memory, good for another while: without a refresh
\* token for as long as nobody invalidates it.
Usable(p) ==
  /\ mem[p].id # 0
  /\ provider = "refreshless" \/ (provider # "command" /\ now + Margin < mem[p].exp)

ReturnCached(p) ==
  /\ Goes(p, "asked", "idle")
  /\ Usable(p)
  /\ Returns(p, mem[p].id)
  /\ decided' = [decided EXCEPT ![p] = now]
  /\ UNCHANGED <<server, starts, faults, disk, mem, answer, fd, outdated, overlap, interrupted>>

\* "no access token available (run --login)".
ReturnNothing(p) ==
  /\ Goes(p, "asked", "idle")
  /\ provider = "refreshless"
  /\ ~Usable(p)
  /\ Returns(p, 0)
  /\ UNCHANGED <<server, starts, faults, disk, mem, answer, fd, tokenHist>>

\* The endpoint issues a token, for "stored" if it accepts the refresh token.
EndpointAnswers(p) ==
  /\ Goes(p, "asked", "answered")
  /\ provider # "refreshless"
  /\ ~Usable(p)
  /\ provider = "stored" => mem[p].ref \in good
  /\ issued < MaxTokens
  /\ issued' = issued + 1
  /\ IF provider = "stored" /\ rotates
     THEN /\ good' = (good \ {mem[p].ref}) \cup {issued'}
          /\ answer' = [answer EXCEPT ![p] = [NoToken EXCEPT !.id = issued', !.ref = issued', !.born = now]]
          /\ outdated' = outdated \cup {q \in Proc \ {p} : mem[q].ref = mem[p].ref}
     ELSE /\ answer' = [answer EXCEPT ![p] = [NoToken EXCEPT !.id = issued', !.born = now]]
          /\ UNCHANGED <<good, outdated>>
  /\ UNCHANGED <<provider, rotates, tells, now, starts, faults, disk, mem, fd, got,
                 decided, overlap, interrupted>>

\* It refuses one that is no longer good.
EndpointRejects(p) ==
  /\ Goes(p, "asked", "idle")
  /\ provider = "stored"
  /\ ~Usable(p)
  /\ mem[p].ref \notin good
  /\ Returns(p, 0)
  /\ UNCHANGED <<server, starts, faults, disk, mem, answer, fd, tokenHist>>

\* The request, or the answer, is lost; or the command fails.
FetchFails(p) ==
  /\ tpc[p] \in {"asked", "answered"}
  /\ provider # "refreshless"
  /\ ~Usable(p)
  /\ faults < MaxFaults
  /\ faults' = faults + 1
  /\ tpc' = [tpc EXCEPT ![p] = "idle"]
  /\ answer' = [answer EXCEPT ![p] = NoToken]
  /\ Returns(p, 0)
  /\ IF tpc[p] = "answered" /\ provider = "stored"
     THEN interrupted' = TRUE /\ outdated' = outdated \cup {p}
     ELSE UNCHANGED <<interrupted, outdated>>
  /\ UNCHANGED <<server, starts, disk, mem, fd, decided, overlap>>

Expiry == now + IF tells THEN Life ELSE Hour

\* Variant: what the answer does not contain is gone.
ReceiveAnswerAsItIs(p) ==
  /\ Goes(p, "answered", IF provider = "stored" THEN "create" ELSE "idle")
  /\ mem' = [mem EXCEPT ![p] = [answer[p] EXCEPT !.exp = Expiry]]
  /\ answer' = [answer EXCEPT ![p] = NoToken]
  /\ IF provider = "stored" THEN UNCHANGED got ELSE Returns(p, mem'[p].id)
  /\ decided' = [decided EXCEPT ![p] = now]
  /\ UNCHANGED <<server, starts, faults, disk, fd, outdated, overlap, interrupted>>

\* The answer replaces what is in memory, but for the refresh token if it
\* brings none; only "stored" goes on to save it.
ReceiveAnswer(p) ==
  /\ Goes(p, "answered", IF provider = "stored" THEN "create" ELSE "idle")
  /\ mem' = [mem EXCEPT ![p] = [answer[p] EXCEPT !.exp = Expiry,
                                                 !.ref = IF @ = 0 THEN mem[p].ref ELSE @]]
  /\ answer' = [answer EXCEPT ![p] = NoToken]
  /\ IF provider = "stored" THEN UNCHANGED got ELSE Returns(p, mem'[p].id)
  /\ decided' = [decided EXCEPT ![p] = now]
  /\ UNCHANGED <<server, starts, faults, disk, fd, outdated, overlap, interrupted>>

----------------------------------------------------------------------------
(* saveTokens: os.WriteFile, which truncates the file and then writes, and *)
(* os.Rename.                                                              *)

SaveCreate(p) ==
  /\ Goes(p, "create", "write")
  /\ tmp' = [st |-> "torn", tk |-> NoToken]
  /\ fd' = [fd EXCEPT ![p] = "tmp"]
  /\ overlap' = (overlap \/ \E q \in Proc \ {p} : tpc[q] \in Saving)
  /\ UNCHANGED <<server, starts, faults, file, mem, answer, got, decided, outdated, interrupted>>

\* Over what another process wrote into the same file in the meantime, p's
\* tokens are readable only if they are as long.
Contents(p, before) ==
  {[st |-> "ok", tk |-> mem[p]]}
  \cup (IF before.st = "ok" THEN {[st |-> "torn", tk |-> NoToken]} ELSE {})

\* Variant: the descriptor stays open.
SaveWriteLeaks(p) ==
  /\ Goes(p, "write", "rename")
  /\ IF fd[p] = "tmp" THEN tmp' \in Contents(p, tmp) ELSE UNCHANGED tmp
  /\ IF fd[p] = "file" THEN file' \in Contents(p, file) ELSE UNCHANGED file
  /\ UNCHANGED <<server, starts, faults, mem, answer, fd, got, tokenHist>>

SaveWrite(p) ==
  /\ Goes(p, "write", "rename")
  /\ IF fd[p] = "tmp" THEN tmp' \in Contents(p, tmp) ELSE UNCHANGED tmp
  /\ IF fd[p] = "file" THEN file' \in Contents(p, file) ELSE UNCHANGED file
  /\ fd' = [fd EXCEPT ![p] = "none"]
  /\ UNCHANGED <<server, starts, faults, mem, answer, got, tokenHist>>

\* The descriptor of a process that was about to write goes with its file.
SaveRename(p) ==
  /\ Goes(p, "rename", "idle")
  /\ tmp.st # "none"
  /\ file' = tmp
  /\ tmp' = [st |-> "none", tk |-> NoToken]
  /\ fd' = [q \in Proc |-> CASE fd[q] = "file" -> "gone"
                             [] fd[q] = "tmp"  -> "file"
                             [] OTHER          -> fd[q]]
  /\ Returns(p, mem[p].id)
  /\ UNCHANGED <<server, starts, faults, mem, answer, tokenHist>>

\* A save that fails is a warning: the token is good for this process.
SaveFails(p) ==
  /\ tpc[p] \in Saving
  /\ \/ tpc[p] = "rename" /\ tmp.st = "none" /\ UNCHANGED faults
     \/ faults < MaxFaults /\ faults' = faults + 1
  /\ tpc' = [tpc EXCEPT ![p] = "idle"]
  /\ fd' = [fd EXCEPT ![p] = "none"]
  /\ Returns(p, mem[p].id)
  /\ interrupted' = TRUE
  /\ UNCHANGED <<server, starts, disk, mem, answer, decided, outdated, overlap>>

----------------------------------------------------------------------------
\* Time passes.
Tick ==
  /\ now < MaxTime
  /\ now' = now + 1
  /\ UNCHANGED <<provider, rotates, tells, issued, good, starts, faults, disk, process, tokenHist>>

----------------------------------------------------------------------------
\* What Token does on its own, once it is called.
TokenSteps(p) == ReturnCached(p) \/ ReturnNothing(p) \/ EndpointAnswers(p) \/ EndpointRejects(p)
                 \/ FetchFails(p) \/ ReceiveAnswer(p)
                 \/ SaveCreate(p) \/ SaveWrite(p) \/ SaveRename(p) \/ SaveFails(p)

TokensNext == \/ Tick
              \/ \E p \in Proc : StartProvider(p) \/ StopProvider(p)
                               \/ Ask(p) \/ Invalidate(p) \/ TokenSteps(p)

TokensSpec == TokensInit /\ [][TokensNext]_tokenVars

----------------------------------------------------------------------------
(* Properties.                                                             *)

Content == [st : {"none", "torn", "ok"}, tk : Token]

TokensTypeOK ==
  /\ provider \in Providers /\ rotates \in BOOLEAN /\ tells \in BOOLEAN
  /\ now \in 0 .. MaxTime /\ starts \in 0 .. MaxStarts /\ faults \in 0 .. MaxFaults
  /\ issued \in Nat
  /\ good \subseteq Nat
  /\ file \in Content /\ tmp \in Content
  /\ tpc \in [Proc -> {"off", "idle", "asked", "answered"} \cup Saving]
  /\ mem \in [Proc -> Token] /\ answer \in [Proc -> Token]
  /\ fd \in [Proc -> {"none", "tmp", "file", "gone"}]
  /\ got \in [Proc -> Nat] /\ decided \in [Proc -> Nat]
  /\ outdated \subseteq Proc /\ overlap \in BOOLEAN /\ interrupted \in BOOLEAN
  /\ \A p \in Proc : /\ fd[p] # "none" <=> tpc[p] = "write"
                     /\ answer[p].id # 0 <=> tpc[p] = "answered"

\* tokens.json stays readable through kills and failed saves, and with a
\* refresh token the server accepts, so that no --login is needed: unless two
\* processes saved at the same time, or a refresh was cut off after the server
\* had rotated.
LoginKept ==
  provider = "stored" =>
     /\ ~overlap => file.st = "ok"
     /\ ~overlap /\ ~interrupted /\ (\A p \in Proc : ~Renewing(p)) => file.tk.ref \in good

\* A process is refused a refresh only when another one has refreshed since
\* it read the file, or a refresh was cut off; its own earlier refreshes, and
\* the saves of others, leave it with a refresh token that works.
RefusedOnlyIfOutdated ==
  \A p \in Proc :
     provider = "stored" /\ tpc[p] # "off" /\ ~Renewing(p) /\ mem[p].ref \notin good => p \in outdated

\* A token that Token has returned, and that a server which says how long it
\* lives has let expire since, was returned longer ago than the margin, or its
\* answer took so long to arrive that both together are longer than that.
MarginCovers ==
  \A p \in Proc :
     /\ tells
     /\ tpc[p] = "idle" /\ got[p] # 0 /\ got[p] = mem[p].id
     /\ now >= mem[p].born + Life
     => (now - decided[p]) + (mem[p].exp - Life - mem[p].born) > Margin
=============================================================================
