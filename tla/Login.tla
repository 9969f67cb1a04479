-------------------------------- MODULE Login --------------------------------
(***************************************************************************)
(* --login (internal/cli/login.go, discover.go) and the processes that     *)
(* live on what it leaves in the state directory: tokens.json and, when    *)
(* the profile names no client, oauth2-discovery.json with the client that *)
(* was registered (internal/transport/authcode.go).                        *)
(*                                                                         *)
(* A login registers a client and writes it down, waits for the browser,   *)
(* exchanges the code and writes the tokens down; a process reads the      *)
(* tokens, then the client.  Nothing but this order ties the two files to  *)
(* each other.  How two writers of one file meet, and which refresh tokens *)
(* are still good, is in Tokens: here a file is replaced in one step.      *)
(*                                                                         *)
(* Browser and authorization server are the environment.  A client is the  *)
(* number of its registration, 0 the one a profile names.  Of tokens there *)
(* is the client they were issued to, which the server knows and the file  *)
(* does not say.                                                           *)
(***************************************************************************)
EXTENDS Config, FiniteSets

CONSTANTS
  Logins,     \* runs of --login, all for one profile
  Proxies,    \* proxy processes, and runs of --inspect
  Profiles,   \* profiles to look at
  Globals,    \* global files to look at
  MaxStarts,  \* bound: starts of processes
  MaxFaults   \* bound: saves failed, logins cut off

ASSUME LoginAssumption ==
  /\ Profiles \subseteq ProfileType
  /\ Globals \subseteq GlobalType
  /\ MaxStarts \in Nat /\ MaxFaults \in Nat

VARIABLES
  profile, global, \* the configuration files
  fixedPort,    \* callbackPort or --callback-port is given
  lpc,          \* lpc[l]: where login l is
  client,       \* client[l]: the client it works with
  tab,          \* tab[l]: the browser tab it has opened
  codeCh,       \* codeCh[l]: whose code is in the channel
  errCh,        \* errCh[l]: there is an error in the channel
  registered,   \* number of clients registered
  discovery,    \* oauth2-discovery.json: the client, 0 for no file
  tokens,       \* tokens.json: whether it is there, and whose tokens it holds
  spc,          \* spc[p]: where process p is
  mem,          \* mem[p]: the tokens.json it has read
  via,          \* via[p]: where its tokens come from
  sends,        \* sends[p]: the client it presents to refresh them
  starts, faults, \* number of starts and of faults
  finished,     \* history: logins that have saved their tokens
  lost,         \* history: logins that could not save their client
  unsaved,      \* history: the last finished login is one of them
  crossed,      \* history: two logins that register clients were under way at once
  overwritten,  \* history: older tokens were saved over those of the last login
  seen,         \* history: seen[p]: the logins finished when p read the tokens
  torn          \* history: processes that may have read files of different logins

settings  == <<profile, global, fixedPort>>
waiting   == <<tab, codeCh, errCh>>
process   == <<spc, mem, via, sends, starts>>
loginHist == <<finished, lost, unsaved, crossed>>
procHist  == <<seen, torn>>
loginVars == <<settings, lpc, client, waiting, registered, discovery, tokens, process, faults,
               loginHist, overwritten, procHist>>

LoginInit ==
  /\ profile \in Profiles /\ global \in Globals /\ fixedPort \in BOOLEAN
  /\ lpc = [l \in Logins |-> "off"]
  /\ client = [l \in Logins |-> 0]
  /\ tab = [l \in Logins |-> "none"]
  /\ codeCh = [l \in Logins |-> {}]
  /\ errCh = [l \in Logins |-> FALSE]
  /\ registered = 0
  /\ discovery = 0
  /\ tokens = [there |-> FALSE, of |-> 0]
  /\ spc = [p \in Proxies |-> "off"]
  /\ mem = [p \in Proxies |-> tokens]
  /\ via = [p \in Proxies |-> "none"]
  /\ sends = [p \in Proxies |-> 0]
  /\ starts = 0 /\ faults = 0
  /\ finished = {} /\ lost = {} /\ unsaved = FALSE /\ crossed = FALSE /\ overwritten = FALSE
  /\ seen = [p \in Proxies |-> {}]
  /\ torn = {}

Fault == faults < MaxFaults /\ faults' = faults + 1

Goes(l, from, to) == lpc[l] = from /\ lpc' = [lpc EXCEPT ![l] = to]

Ended   == {"done", "failed"}
Busy(l) == lpc[l] \notin {"off"} \cup Ended

----------------------------------------------------------------------------
(* Login up to the browser.                                                *)

\* The callback server.  Without an oauth2 block the client has to be found
\* out first; a flow other than authorization_code is refused, but for the
\* unset one.
Listen(l) ==
  /\ lpc[l] = "off"
  /\ lpc' = [lpc EXCEPT ![l] =
       IF fixedPort /\ \E m \in Logins : Busy(m) THEN "failed"
       ELSE IF ~profile.oauth2 THEN IF profile.url THEN "discovering" ELSE "failed"
       ELSE IF profile.flow = "client_credentials" THEN "failed" ELSE "opening"]
  /\ UNCHANGED <<settings, client, waiting, registered, discovery, tokens, process, faults,
                 loginHist, overwritten, procHist>>

\* The metadata of the authorization server are not to be had, by way of the
\* resource metadata nor at the well-known place, or it registers no client.
DiscoveryFails(l) ==
  /\ Goes(l, "discovering", "failed")
  /\ UNCHANGED <<settings, client, waiting, registered, discovery, tokens, process, faults,
                 loginHist, overwritten, procHist>>

\* Every login registers a client of its own, as the port is a new one.
RegisterClient(l) ==
  /\ Goes(l, "discovering", "registered")
  /\ registered' = registered + 1
  /\ client' = [client EXCEPT ![l] = registered']
  /\ crossed' = (crossed \/ \E m \in Logins \ {l} : Busy(m))
  /\ UNCHANGED <<settings, waiting, discovery, tokens, process, faults, finished, lost, unsaved,
                 overwritten, procHist>>

\* A save that fails is a warning.
SaveDiscovery(l) ==
  /\ Goes(l, "registered", "opening")
  /\ \/ discovery' = client[l] /\ UNCHANGED <<faults, lost>>
     \/ Fault /\ lost' = lost \cup {l} /\ UNCHANGED discovery
  /\ UNCHANGED <<settings, client, waiting, registered, tokens, process, finished, unsaved, crossed,
                 overwritten, procHist>>

OpenBrowser(l) ==
  /\ Goes(l, "opening", "waiting")
  /\ tab' = [tab EXCEPT ![l] = "open"]
  /\ UNCHANGED <<settings, client, codeCh, errCh, registered, discovery, tokens, process, faults,
                 loginHist, overwritten, procHist>>

----------------------------------------------------------------------------
(* The callback.                                                           *)

\* The user may answer at any time, or never: also when l is long over.
Answer(l) ==
  /\ tab[l] = "open"
  /\ \E a \in {"approved", "denied"} : tab' = [tab EXCEPT ![l] = a]
  /\ UNCHANGED <<settings, lpc, client, codeCh, errCh, registered, discovery, tokens, process,
                 faults, loginHist, overwritten, procHist>>

\* Variant: the state parameter is not looked at.
CallbackAnyState(l, m) ==
  /\ lpc[l] = "waiting"
  /\ tab[m] \in {"approved", "denied"}
  /\ m = l \/ fixedPort
  /\ IF tab[m] = "denied"
     THEN ~errCh[l] /\ errCh' = [errCh EXCEPT ![l] = TRUE] /\ UNCHANGED codeCh
     ELSE codeCh[l] = {} /\ codeCh' = [codeCh EXCEPT ![l] = {m}] /\ UNCHANGED errCh
  /\ UNCHANGED <<settings, lpc, client, tab, registered, discovery, tokens, process, faults,
                 loginHist, overwritten, procHist>>

\* The tab of m comes back to the port of l, which is that of m only if it is
\* a fixed one, once or again: another login's state is an error, as is a
\* refusal.  A handler that finds its channel full waits.
Callback(l, m) ==
  /\ lpc[l] = "waiting"
  /\ tab[m] \in {"approved", "denied"}
  /\ m = l \/ fixedPort
  /\ IF m # l \/ tab[m] = "denied"
     THEN ~errCh[l] /\ errCh' = [errCh EXCEPT ![l] = TRUE] /\ UNCHANGED codeCh
     ELSE codeCh[l] = {} /\ codeCh' = [codeCh EXCEPT ![l] = {m}] /\ UNCHANGED errCh
  /\ UNCHANGED <<settings, lpc, client, tab, registered, discovery, tokens, process, faults,
                 loginHist, overwritten, procHist>>

\* The three arms of the select; of those that are ready, any.
TakeCode(l) ==
  /\ Goes(l, "waiting", "exchanging")
  /\ codeCh[l] # {}
  /\ UNCHANGED <<settings, client, waiting, registered, discovery, tokens, process, faults,
                 loginHist, overwritten, procHist>>

TakeError(l) ==
  /\ Goes(l, "waiting", "failed")
  /\ errCh[l]
  /\ UNCHANGED <<settings, client, waiting, registered, discovery, tokens, process, faults,
                 loginHist, overwritten, procHist>>

\* Variant: the five minutes start with the first callback.
TimeOutAfterCallback(l) ==
  /\ Goes(l, "waiting", "failed")
  /\ errCh[l] \/ codeCh[l] # {}
  /\ UNCHANGED <<settings, client, waiting, registered, discovery, tokens, process, faults,
                 loginHist, overwritten, procHist>>

TimeOut(l) ==
  /\ Goes(l, "waiting", "failed")
  /\ UNCHANGED <<settings, client, waiting, registered, discovery, tokens, process, faults,
                 loginHist, overwritten, procHist>>

----------------------------------------------------------------------------
(* The exchange.                                                           *)

\* The server issues tokens, for the code that goes with the verifier ...
Exchange(l) ==
  /\ Goes(l, "exchanging", "saving")
  /\ codeCh[l] = {l}
  /\ UNCHANGED <<settings, client, waiting, registered, discovery, tokens, process, faults,
                 loginHist, overwritten, procHist>>

\* ... or does not.
ExchangeFails(l) ==
  /\ Goes(l, "exchanging", "failed")
  /\ UNCHANGED <<settings, client, waiting, registered, discovery, tokens, process, faults,
                 loginHist, overwritten, procHist>>

\* "Login successful."
SaveTokens(l) ==
  /\ Goes(l, "saving", "done")
  /\ tokens' = [there |-> TRUE, of |-> client[l]]
  /\ finished' = finished \cup {l}
  /\ unsaved' = (l \in lost)
  /\ overwritten' = FALSE
  /\ UNCHANGED <<settings, client, waiting, registered, discovery, process, faults, lost,
                 crossed, procHist>>

\* The user interrupts the login, or the last save fails.
CutOff(l) ==
  /\ Busy(l)
  /\ Fault
  /\ lpc' = [lpc EXCEPT ![l] = "failed"]
  /\ UNCHANGED <<settings, client, waiting, registered, discovery, tokens, process, loginHist,
                 overwritten, procHist>>

----------------------------------------------------------------------------
(* The processes.                                                          *)

Cfg == Configuration(profile, global)

\* The client that is on disk is that of a login that has saved no tokens.
Dangling == \E l \in Logins : client[l] = discovery /\ discovery # 0 /\ l \notin finished

\* main or Inspect, which does without the last validation, up to loadTokens.
\* named: the global file is the one of --config.
ReadTokens(p) ==
  /\ spc[p] = "off"
  /\ starts < MaxStarts
  /\ ProfileValidate(profile)
  /\ \E named, inspect \in BOOLEAN : LoadGlobal(global, named) /\ (inspect \/ ConfigValidate(Cfg))
  /\ starts' = starts + 1
  /\ spc' = [spc EXCEPT ![p] = "reading"]
  /\ mem' = [mem EXCEPT ![p] = tokens]
  /\ via' = [via EXCEPT ![p] = "none"]
  /\ seen' = [seen EXCEPT ![p] = finished]
  /\ torn' = IF Dangling \/ unsaved \/ crossed \/ overwritten THEN torn \cup {p} ELSE torn \ {p}
  /\ UNCHANGED <<settings, lpc, client, waiting, registered, discovery, tokens, sends, faults,
                 loginHist, overwritten>>

\* Variant: the client that was registered is not looked for.
ReadDiscoveryNot(p) ==
  /\ spc[p] = "reading"
  /\ via' = [via EXCEPT ![p] = Provider(Cfg, StoredOk(Cfg, mem[p].there, discovery # 0))]
  /\ sends' = [sends EXCEPT ![p] = 0]
  /\ spc' = [spc EXCEPT ![p] = IF via'[p] = "refused" THEN "off" ELSE "running"]
  /\ torn' = IF Dangling \/ crossed \/ finished # seen[p] THEN torn \cup {p} ELSE torn
  /\ UNCHANGED <<settings, lpc, client, waiting, registered, discovery, tokens, mem, starts, faults,
                 loginHist, overwritten, seen>>

\* loadDiscoveryCache, if the profile names no client, and the choice of the
\* provider; without the tokens it needs the process ends.
ReadDiscovery(p) ==
  /\ spc[p] = "reading"
  /\ via' = [via EXCEPT ![p] = Provider(Cfg, StoredOk(Cfg, mem[p].there, discovery # 0))]
  /\ sends' = [sends EXCEPT ![p] = IF profile.oauth2 THEN 0 ELSE discovery]
  /\ spc' = [spc EXCEPT ![p] = IF via'[p] = "refused" THEN "off" ELSE "running"]
  /\ torn' = IF Dangling \/ crossed \/ finished # seen[p] THEN torn \cup {p} ELSE torn
  /\ UNCHANGED <<settings, lpc, client, waiting, registered, discovery, tokens, mem, starts, faults,
                 loginHist, overwritten, seen>>

\* The server refreshes only what it has issued to the client that asks, and
\* the new tokens are for the same client; what it refuses changes nothing.
Refresh(p) ==
  /\ spc[p] = "running"
  /\ via[p] = "stored"
  /\ sends[p] = mem[p].of
  /\ spc' = [spc EXCEPT ![p] = "saving"]
  /\ UNCHANGED <<settings, lpc, client, waiting, registered, discovery, tokens, mem, via, sends,
                 starts, faults, loginHist, overwritten, procHist>>

SaveRefreshed(p) ==
  /\ spc[p] = "saving"
  /\ spc' = [spc EXCEPT ![p] = "running"]
  /\ \/ /\ tokens' = mem[p]
        /\ overwritten' = (overwritten \/ finished # seen[p])
        /\ UNCHANGED faults
     \/ Fault /\ UNCHANGED <<tokens, overwritten>>
  /\ UNCHANGED <<settings, lpc, client, waiting, registered, discovery, mem, via, sends, starts,
                 loginHist, procHist>>

End(p) ==
  /\ spc[p] # "off"
  /\ spc' = [spc EXCEPT ![p] = "off"]
  /\ UNCHANGED <<settings, lpc, client, waiting, registered, discovery, tokens, mem, via, sends,
                 starts, faults, loginHist, overwritten, procHist>>

----------------------------------------------------------------------------
LoginSteps(l) == \/ Listen(l) \/ DiscoveryFails(l) \/ RegisterClient(l) \/ SaveDiscovery(l)
                 \/ OpenBrowser(l) \/ TakeCode(l) \/ TakeError(l) \/ TimeOut(l)
                 \/ Exchange(l) \/ ExchangeFails(l) \/ SaveTokens(l)

ProcessSteps(p) == ReadTokens(p) \/ ReadDiscovery(p) \/ Refresh(p) \/ SaveRefreshed(p) \/ End(p)

LoginNext == \/ \E l \in Logins : LoginSteps(l) \/ Answer(l) \/ CutOff(l)
             \/ \E l, m \in Logins : Callback(l, m)
             \/ \E p \in Proxies : ProcessSteps(p)

LoginSpec == LoginInit /\ [][LoginNext]_loginVars

\* A login that is under way goes on: discovery has a timeout of 30 seconds
\* per request, the wait one of five minutes; that the exchange, which has
\* none, ends is assumed of the server.  Nobody has to start one, nor to answer.
LoginLiveSpec ==
  LoginSpec /\ \A l \in Logins : WF_loginVars(lpc[l] # "off" /\ LoginSteps(l))

----------------------------------------------------------------------------
(* Properties.                                                             *)

LoginTypeOK ==
  /\ profile \in Profiles /\ global \in Globals /\ fixedPort \in BOOLEAN
  /\ lpc \in [Logins -> {"off", "discovering", "registered", "opening", "waiting",
                         "exchanging", "saving"} \cup Ended]
  /\ client \in [Logins -> 0 .. registered] /\ registered \in Nat
  /\ tab \in [Logins -> {"none", "open", "approved", "denied"}]
  /\ codeCh \in [Logins -> SUBSET Logins] /\ \A l \in Logins : codeCh[l] \subseteq {l}
  /\ errCh \in [Logins -> BOOLEAN]
  /\ discovery \in 0 .. registered
  /\ tokens \in [there : BOOLEAN, of : 0 .. registered]
  /\ spc \in [Proxies -> {"off", "reading", "running", "saving"}]
  /\ mem \in [Proxies -> [there : BOOLEAN, of : 0 .. registered]]
  /\ via \in [Proxies -> {"none", "pipe", "stored", "client_credentials", "command", "refused"}]
  /\ sends \in [Proxies -> 0 .. registered]
  /\ starts \in 0 .. MaxStarts /\ faults \in 0 .. MaxFaults
  /\ finished = {l \in Logins : lpc[l] = "done"}
  /\ lost \subseteq Logins
  /\ unsaved \in BOOLEAN /\ crossed \in BOOLEAN /\ overwritten \in BOOLEAN
  /\ seen \in [Proxies -> SUBSET Logins] /\ torn \subseteq Proxies

\* A process presents the client its tokens were issued to, so that they are
\* renewed: unless, when it started, a login had registered a client and saved
\* no tokens (it waits, or has failed), could not save its client, ran next to
\* another one or ended meanwhile, or an older process had saved its tokens
\* over those of a login.
ClientFits ==
  \A p \in Proxies :
     spc[p] \in {"running", "saving"} /\ via[p] = "stored" /\ p \notin torn => sends[p] = mem[p].of

\* Once a login has reported success every start over the same profile uses
\* stored tokens, also when a later login is under way or has failed, two
\* logins have crossed, or one finishes while the process reads the two files.
\* Not when none of the logins that finished before could save its client, nor
\* when the profile has no flow, a token command, or a child process for its
\* server: --login accepts those all the same.
LoginIsUsed ==
  \A p \in Proxies :
     /\ spc[p] \in {"running", "saving"} \/ via[p] = "refused"
     /\ seen[p] \ lost # {}
     => \/ via[p] = "stored"
        \/ profile.oauth2 /\ profile.flow = ""
        \/ profile.tokenCommand
        \/ profile.transport # "sse"

\* A login that has begun ends, whatever the browser does.
LoginEnds == \A l \in Logins : lpc[l] # "off" ~> lpc[l] \in Ended
=============================================================================
