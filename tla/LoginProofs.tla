----------------------------- MODULE LoginProofs -----------------------------
(***************************************************************************)
(* Theorems about module Login, for any number of logins and processes and *)
(* any profile.                                                            *)
(***************************************************************************)
EXTENDS Login, TLAPS

----------------------------------------------------------------------------
(* The inductive invariant.                                                *)

\* Logins that have a client and whose end is still open.
Past == {"registered", "opening", "waiting", "exchanging", "saving"}

\* A profile that names its client registers none; one that does not has every
\* login use the client it has registered, and leaves one on disk if it can.
Clients ==
  /\ profile.oauth2 => registered = 0 /\ \A l \in Logins : lpc[l] \notin {"discovering", "registered"}
  /\ profile.oauth2 /\ profile.flow = "client_credentials" =>
       \A l \in Logins : lpc[l] \in {"off", "failed"}
  /\ \A l \in Logins : lpc[l] \in {"off", "discovering"} => client[l] = 0
  /\ ~profile.oauth2 => \A l \in Logins :
       /\ lpc[l] \in Past => client[l] # 0
       /\ lpc[l] \in {"opening", "waiting", "exchanging", "saving", "done"}
          /\ l \notin lost => discovery # 0

\* Tokens are there once a login has saved some, and are never those of nobody.
TokensThere ==
  /\ finished # {} => tokens.there
  /\ ~profile.oauth2 /\ tokens.there => tokens.of # 0
  /\ \A p \in Proxies :
       /\ spc[p] # "off" /\ seen[p] # {} => mem[p].there
       /\ ~profile.oauth2 /\ mem[p].there => mem[p].of # 0
       /\ spc[p] \in {"running", "saving"} /\ via[p] = "stored" => mem[p].there
       /\ spc[p] = "saving" => via[p] = "stored"

\* While no two logins have registered at once, a login past its registration
\* is the only one, and its client is on disk unless it could not be saved.
Alone ==
  ~crossed /\ ~profile.oauth2 =>
     \A l \in Logins :
        /\ lpc[l] \in Past => \A m \in Logins \ {l} : Busy(m) => lpc[m] = "discovering"
        /\ lpc[l] \in Past \ {"registered"} /\ l \notin lost => discovery = client[l]

\* Then the two files fit, unless one was replaced without the other.
FilesFit ==
  /\ ~profile.oauth2 /\ tokens.there /\ ~crossed /\ ~unsaved /\ ~overwritten
     => tokens.of = discovery \/ Dangling

\* What a process has read is what was there, as long as no login has finished.
Current ==
  \A p \in Proxies :
     /\ seen[p] \subseteq finished
     /\ spc[p] # "off" /\ seen[p] = finished /\ ~overwritten => mem[p] = tokens
     /\ spc[p] = "reading" /\ p \notin torn /\ ~profile.oauth2 /\ mem[p].there /\ seen[p] = finished
        => mem[p].of = discovery \/ Dangling

IInv == /\ LoginTypeOK /\ Clients /\ TokensThere /\ Alone /\ FilesFit /\ Current
        /\ ClientFits /\ LoginIsUsed

----------------------------------------------------------------------------
(* What the layers of the configuration leave of a profile.                *)

LEMMA Settings ==
  ASSUME IInv
  PROVE  /\ Cfg.transport = profile.transport /\ Cfg.oauth2 = profile.oauth2
         /\ Cfg.flow = (IF profile.oauth2 THEN profile.flow ELSE "")
         /\ Cfg.tokenCommand = profile.tokenCommand
         /\ profile.flow \in Flows
<1>1. profile \in ProfileType
  BY LoginAssumption DEF IInv, LoginTypeOK
<1>2. ASSUME NEW below \in {Defaults, GlobalApplyTo(global, Defaults)}
      PROVE  LET cfg == ProfileApplyTo(profile, below) IN
               /\ cfg.transport = profile.transport /\ cfg.oauth2 = profile.oauth2
               /\ cfg.flow = (IF profile.oauth2 THEN profile.flow ELSE "")
               /\ cfg.tokenCommand = profile.tokenCommand
  <2>1. /\ below.transport = "" /\ below.oauth2 = FALSE /\ below.flow = "" /\ below.tokenCommand = FALSE
        /\ {"transport", "oauth2", "flow", "tokenCommand"} \subseteq DOMAIN below
    <3>1. CASE below = Defaults
      BY <3>1 DEF Defaults
    <3>2. CASE below = GlobalApplyTo(global, Defaults)
      BY <3>2 DEF Defaults, GlobalApplyTo, Over
    <3> QED
      BY <3>1, <3>2
  <2>2. /\ profile.transport \in {"", "stdio", "sse"}
        /\ profile.oauth2 \in BOOLEAN /\ profile.tokenCommand \in BOOLEAN
    BY <1>1 DEF ProfileType
  <2> QED
    BY <2>1, <2>2 DEF ProfileApplyTo, Over
<1>3. Cfg = ProfileApplyTo(profile, GlobalApplyTo(global, Defaults)) \/ Cfg = ProfileApplyTo(profile, Defaults)
  BY DEF Cfg, Configuration
<1> QED
  BY <1>1, <1>2, <1>3 DEF ProfileType

----------------------------------------------------------------------------
(* Every action keeps the invariant.                                       *)

LEMMA ListenInv == ASSUME IInv, NEW l \in Logins, Listen(l) PROVE IInv'
<1> USE DEF Listen, Goes, Fault, settings, waiting, process, loginHist, procHist
<1>1. LoginTypeOK'
  BY DEF IInv, LoginTypeOK, Ended
<1>2. Clients'
  BY DEF IInv, LoginTypeOK, Clients, Past, Ended
<1>3. TokensThere'
  BY DEF IInv, LoginTypeOK, TokensThere
<1>4. Alone'
  BY DEF IInv, LoginTypeOK, Alone, Past, Busy, Ended
<1>5. FilesFit'
  BY DEF IInv, LoginTypeOK, FilesFit, Dangling
<1>6. Current'
  BY DEF IInv, LoginTypeOK, Current, Dangling
<1>7. ClientFits'
  BY DEF IInv, LoginTypeOK, ClientFits
<1>8. LoginIsUsed'
  BY DEF IInv, LoginTypeOK, LoginIsUsed
<1> QED
  BY <1>1, <1>2, <1>3, <1>4, <1>5, <1>6, <1>7, <1>8 DEF IInv

LEMMA RegisterClientInv == ASSUME IInv, NEW l \in Logins, RegisterClient(l) PROVE IInv'
<1> USE DEF RegisterClient, Goes, Fault, settings, waiting, process, loginHist, procHist
<1>0. Dangling => Dangling'
  <2> SUFFICES ASSUME NEW m \in Logins, client[m] = discovery, discovery # 0, m \notin finished
               PROVE  Dangling'
    BY DEF Dangling
  <2>1. client[l] = 0
    BY DEF IInv, Clients
  <2>2. client'[m] = client[m]
    BY <2>1 DEF IInv, LoginTypeOK
  <2> QED
    BY <2>2 DEF Dangling
<1>1. LoginTypeOK'
  BY DEF IInv, LoginTypeOK, Ended
<1>2. Clients'
  BY DEF IInv, LoginTypeOK, Clients, Past, Ended
<1>3. TokensThere'
  BY DEF IInv, LoginTypeOK, TokensThere
<1>4. Alone'
  <2>1. /\ lpc'[l] = "registered" /\ ~crossed' => ~crossed /\ \A m \in Logins \ {l} : ~Busy(m)
        /\ \A m \in Logins \ {l} : lpc'[m] = lpc[m] /\ Busy(m)' = Busy(m)
    BY DEF IInv, LoginTypeOK, Busy
  <2> SUFFICES ASSUME ~crossed', ~profile.oauth2, NEW k \in Logins
               PROVE  /\ lpc'[k] \in Past => \A m \in Logins \ {k} : Busy(m)' => lpc'[m] = "discovering"
                      /\ lpc'[k] \in Past \ {"registered"} /\ k \notin lost => discovery = client'[k]
    BY DEF Alone
  <2>2. CASE k = l
    BY <2>1, <2>2 DEF Past
  <2>3. CASE k # l
    <3>1. lpc'[k] \notin Past
      BY <2>1, <2>3 DEF Past, Busy, Ended
    <3> QED
      BY <3>1
  <2> QED
    BY <2>2, <2>3
<1>5. FilesFit'
  BY <1>0 DEF IInv, FilesFit
<1>6. Current'
  BY <1>0 DEF IInv, Current
<1>7. ClientFits'
  BY DEF IInv, LoginTypeOK, ClientFits
<1>8. LoginIsUsed'
  BY DEF IInv, LoginTypeOK, LoginIsUsed
<1> QED
  BY <1>1, <1>2, <1>3, <1>4, <1>5, <1>6, <1>7, <1>8 DEF IInv

LEMMA SaveDiscoveryInv == ASSUME IInv, NEW l \in Logins, SaveDiscovery(l) PROVE IInv'
<1> USE DEF SaveDiscovery, Goes, Fault, settings, waiting, process, loginHist, procHist
<1>0. \/ discovery' = client[l] /\ Dangling'
      \/ discovery' = discovery /\ Dangling' = Dangling
  <2>1. l \notin finished /\ ~profile.oauth2 /\ client[l] # 0
    BY DEF IInv, LoginTypeOK, Clients, Past
  <2> QED
    BY <2>1 DEF Dangling
<1>1. LoginTypeOK'
  <2>1. discovery' \in 0 .. registered
    BY DEF IInv, LoginTypeOK
  <2>2. faults' \in 0 .. MaxFaults /\ lost' \subseteq Logins
    BY LoginAssumption DEF IInv, LoginTypeOK
  <2>3. lpc' = [lpc EXCEPT ![l] = "opening"] /\ lpc[l] = "registered"
    OBVIOUS
  <2> QED
    BY <2>1, <2>2, <2>3 DEF IInv, LoginTypeOK, Ended
<1>2. Clients'
  BY DEF IInv, LoginTypeOK, Clients, Past, Ended
<1>3. TokensThere'
  BY DEF IInv, LoginTypeOK, TokensThere
<1>4. Alone'
  BY DEF IInv, LoginTypeOK, Alone, Past, Busy, Ended
<1>5. FilesFit'
  BY <1>0 DEF IInv, FilesFit
<1>6. Current'
  BY <1>0 DEF IInv, Current
<1>7. ClientFits'
  BY DEF IInv, LoginTypeOK, ClientFits
<1>8. LoginIsUsed'
  BY DEF IInv, LoginTypeOK, LoginIsUsed
<1> QED
  BY <1>1, <1>2, <1>3, <1>4, <1>5, <1>6, <1>7, <1>8 DEF IInv

LEMMA SaveTokensInv == ASSUME IInv, NEW l \in Logins, SaveTokens(l) PROVE IInv'
<1> USE DEF SaveTokens, Goes, Fault, settings, waiting, process, loginHist, procHist
<1>1. LoginTypeOK'
  <2>1. unsaved' \in BOOLEAN
    OBVIOUS
  <2>2. overwritten' \in BOOLEAN
    OBVIOUS
  <2>3. tokens' \in [there : BOOLEAN, of : 0 .. registered]
    BY DEF IInv, LoginTypeOK
  <2>4. finished' = {k \in Logins : lpc'[k] = "done"}
    BY DEF IInv, LoginTypeOK
  <2> QED
    BY <2>1, <2>2, <2>3, <2>4 DEF IInv, LoginTypeOK, Ended
<1>2. Clients'
  BY DEF IInv, LoginTypeOK, Clients, Past, Ended
<1>3. TokensThere'
  <2>1. tokens'.there /\ (~profile.oauth2 => tokens'.of # 0)
    BY DEF IInv, Clients, Past
  <2> QED
    BY <2>1 DEF IInv, TokensThere
<1>4. Alone'
  BY DEF IInv, LoginTypeOK, Alone, Past, Busy, Ended
<1>5. FilesFit'
  <2>1. ~profile.oauth2 /\ ~crossed /\ ~unsaved' => discovery = client[l]
    BY DEF IInv, Alone, Past
  <2> QED
    BY <2>1 DEF FilesFit
<1>6. Current'
  BY DEF IInv, LoginTypeOK, Current, Dangling
<1>7. ClientFits'
  BY DEF IInv, LoginTypeOK, ClientFits
<1>8. LoginIsUsed'
  BY DEF IInv, LoginTypeOK, LoginIsUsed
<1> QED
  BY <1>1, <1>2, <1>3, <1>4, <1>5, <1>6, <1>7, <1>8 DEF IInv

LEMMA ReadTokensInv == ASSUME IInv, NEW p \in Proxies, ReadTokens(p) PROVE IInv'
<1> USE DEF ReadTokens, Goes, Fault, settings, waiting, process, loginHist, procHist
<1>1. LoginTypeOK'
  <2>1. starts' \in 0 .. MaxStarts
    BY LoginAssumption DEF IInv, LoginTypeOK
  <2>2. torn' \subseteq Proxies
    BY DEF IInv, LoginTypeOK
  <2>3. finished \subseteq Logins
    BY DEF IInv, LoginTypeOK
  <2> QED
    BY <2>1, <2>2, <2>3 DEF IInv, LoginTypeOK
<1>2. Clients'
  BY DEF IInv, LoginTypeOK, Clients, Past, Ended
<1>3. TokensThere'
  BY DEF IInv, LoginTypeOK, TokensThere
<1>4. Alone'
  BY DEF IInv, LoginTypeOK, Alone, Past, Busy, Ended
<1>5. FilesFit'
  BY DEF IInv, LoginTypeOK, FilesFit, Dangling
<1>6. Current'
  <2>1. /\ mem'[p] = tokens /\ seen'[p] = finished /\ Dangling' = Dangling
        /\ \A q \in Proxies \ {p} : /\ mem'[q] = mem[q] /\ seen'[q] = seen[q] /\ spc'[q] = spc[q]
                                   /\ q \in torn' <=> q \in torn
    BY DEF IInv, LoginTypeOK, Dangling
  <2>2. p \notin torn' => ~Dangling /\ ~unsaved /\ ~crossed /\ ~overwritten
    OBVIOUS
  <2> SUFFICES ASSUME NEW q \in Proxies
               PROVE  /\ seen'[q] \subseteq finished
                      /\ spc'[q] # "off" /\ seen'[q] = finished /\ ~overwritten => mem'[q] = tokens
                      /\ spc'[q] = "reading" /\ q \notin torn' /\ ~profile.oauth2 /\ mem'[q].there
                         /\ seen'[q] = finished => mem'[q].of = discovery \/ Dangling
    BY <2>1 DEF Current
  <2>3. CASE q = p
    BY <2>1, <2>2, <2>3 DEF IInv, FilesFit
  <2>4. CASE q # p
    BY <2>1, <2>4 DEF IInv, Current
  <2> QED
    BY <2>3, <2>4
<1>7. ClientFits'
  BY DEF IInv, LoginTypeOK, ClientFits
<1>8. LoginIsUsed'
  BY DEF IInv, LoginTypeOK, LoginIsUsed
<1> QED
  BY <1>1, <1>2, <1>3, <1>4, <1>5, <1>6, <1>7, <1>8 DEF IInv

LEMMA ReadDiscoveryInv == ASSUME IInv, NEW p \in Proxies, ReadDiscovery(p) PROVE IInv'
<1> USE DEF ReadDiscovery, Goes, Fault, settings, waiting, process, loginHist, procHist
<1>0. /\ via'[p] = Provider(Cfg, StoredOk(Cfg, mem[p].there, discovery # 0))
      /\ via' = [via EXCEPT ![p] = via'[p]]
      /\ via'[p] \in {"pipe", "stored", "client_credentials", "command", "none", "refused"}
      /\ sends'[p] = IF profile.oauth2 THEN 0 ELSE discovery
      /\ spc'[p] = IF via'[p] = "refused" THEN "off" ELSE "running"
      /\ p \notin torn' => p \notin torn /\ ~Dangling /\ ~crossed /\ finished = seen[p]
      /\ \A q \in Proxies \ {p} : /\ via'[q] = via[q] /\ sends'[q] = sends[q] /\ spc'[q] = spc[q]
                                 /\ q \in torn' <=> q \in torn
  BY DEF IInv, LoginTypeOK, Provider
<1>00. via'[p] = "stored" => StoredOk(Cfg, mem[p].there, discovery # 0)
  BY <1>0 DEF Provider
<1>1. LoginTypeOK'
  <2>1. via' \in [Proxies -> {"none", "pipe", "stored", "client_credentials", "command", "refused"}]
    BY <1>0 DEF IInv, LoginTypeOK
  <2>2. sends' \in [Proxies -> 0 .. registered] /\ torn' \subseteq Proxies
    BY DEF IInv, LoginTypeOK
  <2>3. spc' \in [Proxies -> {"off", "reading", "running", "saving"}]
    BY DEF IInv, LoginTypeOK
  <2> QED
    BY <2>1, <2>2, <2>3 DEF IInv, LoginTypeOK
<1>2. Clients'
  BY DEF IInv, LoginTypeOK, Clients, Past, Ended
<1>3. TokensThere'
  <2>1. via'[p] = "stored" => mem[p].there
    BY <1>00 DEF StoredOk
  <2> QED
    BY <1>0, <2>1 DEF IInv, TokensThere
<1>4. Alone'
  BY DEF IInv, LoginTypeOK, Alone, Past, Busy, Ended
<1>5. FilesFit'
  BY DEF IInv, LoginTypeOK, FilesFit, Dangling
<1>6. Current'
  BY DEF IInv, LoginTypeOK, Current, Dangling
<1>7. ClientFits'
  <2> SUFFICES ASSUME NEW q \in Proxies, spc'[q] \in {"running", "saving"}, via'[q] = "stored", q \notin torn'
               PROVE  sends'[q] = mem[q].of
    BY DEF ClientFits
  <2>1. CASE q # p
    BY <1>0, <2>1 DEF IInv, ClientFits
  <2>2. CASE q = p /\ profile.oauth2
    BY <1>0, <2>2 DEF IInv, LoginTypeOK, Clients
  <2>3. CASE q = p /\ ~profile.oauth2
    <3>1. mem[p].there
      BY <1>00, <2>3 DEF StoredOk
    <3> QED
      BY <1>0, <2>3, <3>1 DEF IInv, Current
  <2> QED
    BY <2>1, <2>2, <2>3
<1>8. LoginIsUsed'
  <2> SUFFICES ASSUME NEW q \in Proxies, spc'[q] \in {"running", "saving"} \/ via'[q] = "refused",
                      seen[q] \ lost # {}
               PROVE  \/ via'[q] = "stored"
                      \/ profile.oauth2 /\ profile.flow = ""
                      \/ profile.tokenCommand
                      \/ profile.transport # "sse"
    BY DEF LoginIsUsed
  <2>1. CASE q # p
    <3>1. (spc[q] \in {"running", "saving"} \/ via[q] = "refused") /\ via'[q] = via[q]
      BY <1>0, <2>1
    <3> QED
      BY <3>1 DEF IInv, LoginIsUsed
  <2>2. CASE q = p
    <3> PICK l \in seen[p] : l \notin lost
      BY <2>2
    <3>1. mem[p].there /\ l \in Logins /\ lpc[l] = "done"
      BY <1>0, <2>2 DEF IInv, LoginTypeOK, TokensThere, Current
    <3>2. ~profile.oauth2 => discovery # 0
      BY <3>1 DEF IInv, Clients
    <3>3. profile.oauth2 => profile.flow # "client_credentials"
      BY <3>1 DEF IInv, LoginTypeOK, Clients
    <3>4. /\ Cfg.transport = profile.transport /\ Cfg.oauth2 = profile.oauth2
          /\ Cfg.flow = (IF profile.oauth2 THEN profile.flow ELSE "")
          /\ Cfg.tokenCommand = profile.tokenCommand
          /\ profile.flow \in Flows
      BY Settings
    <3>5. StoredOk(Cfg, mem[p].there, discovery # 0)
      BY <3>1, <3>2, <3>4 DEF StoredOk
    <3> QED
      BY <1>0, <2>2, <3>3, <3>4, <3>5 DEF Provider, Flows
  <2> QED
    BY <2>1, <2>2
<1> QED
  BY <1>1, <1>2, <1>3, <1>4, <1>5, <1>6, <1>7, <1>8 DEF IInv

LEMMA RefreshInv == ASSUME IInv, NEW p \in Proxies, Refresh(p) PROVE IInv'
<1> USE DEF Refresh, Goes, Fault, settings, waiting, process, loginHist, procHist
<1>1. LoginTypeOK'
  BY DEF IInv, LoginTypeOK, Ended
<1>2. Clients'
  BY DEF IInv, LoginTypeOK, Clients, Past, Ended
<1>3. TokensThere'
  BY DEF IInv, LoginTypeOK, TokensThere
<1>4. Alone'
  BY DEF IInv, LoginTypeOK, Alone, Past, Busy, Ended
<1>5. FilesFit'
  BY DEF IInv, LoginTypeOK, FilesFit, Dangling
<1>6. Current'
  BY DEF IInv, LoginTypeOK, Current, Dangling
<1>7. ClientFits'
  BY DEF IInv, LoginTypeOK, ClientFits
<1>8. LoginIsUsed'
  BY DEF IInv, LoginTypeOK, LoginIsUsed
<1> QED
  BY <1>1, <1>2, <1>3, <1>4, <1>5, <1>6, <1>7, <1>8 DEF IInv

LEMMA SaveRefreshedInv == ASSUME IInv, NEW p \in Proxies, SaveRefreshed(p) PROVE IInv'
<1> USE DEF SaveRefreshed, Goes, Fault, settings, waiting, process, loginHist, procHist
<1>1. LoginTypeOK'
  <2>1. overwritten' \in BOOLEAN
    <3>1. overwritten \in BOOLEAN
      BY DEF IInv, LoginTypeOK
    <3> QED
      BY <3>1, Zenon
  <2>2. faults' \in 0 .. MaxFaults
    BY LoginAssumption DEF IInv, LoginTypeOK
  <2>3. tokens' \in [there : BOOLEAN, of : 0 .. registered]
    BY DEF IInv, LoginTypeOK
  <2>4. spc' \in [Proxies -> {"off", "reading", "running", "saving"}]
    BY DEF IInv, LoginTypeOK
  <2> QED
    BY <2>1, <2>2, <2>3, <2>4 DEF IInv, LoginTypeOK
<1>2. Clients'
  BY DEF IInv, LoginTypeOK, Clients, Past, Ended
<1>3. TokensThere'
  BY DEF IInv, LoginTypeOK, TokensThere
<1>4. Alone'
  BY DEF IInv, LoginTypeOK, Alone, Past, Busy, Ended
<1>5. FilesFit'
  <2>1. ~overwritten' => tokens' = tokens /\ ~overwritten
    BY DEF IInv, Current
  <2> QED
    BY <2>1 DEF IInv, FilesFit, Dangling
<1>6. Current'
  BY DEF IInv, LoginTypeOK, Current, Dangling
<1>7. ClientFits'
  BY DEF IInv, LoginTypeOK, ClientFits
<1>8. LoginIsUsed'
  BY DEF IInv, LoginTypeOK, LoginIsUsed
<1> QED
  BY <1>1, <1>2, <1>3, <1>4, <1>5, <1>6, <1>7, <1>8 DEF IInv

LEMMA EndInv == ASSUME IInv, NEW p \in Proxies, End(p) PROVE IInv'
<1> USE DEF End, Goes, Fault, settings, waiting, process, loginHist, procHist
<1>1. LoginTypeOK'
  BY DEF IInv, LoginTypeOK, Ended
<1>2. Clients'
  BY DEF IInv, LoginTypeOK, Clients, Past, Ended
<1>3. TokensThere'
  BY DEF IInv, LoginTypeOK, TokensThere
<1>4. Alone'
  BY DEF IInv, LoginTypeOK, Alone, Past, Busy, Ended
<1>5. FilesFit'
  BY DEF IInv, LoginTypeOK, FilesFit, Dangling
<1>6. Current'
  BY DEF IInv, LoginTypeOK, Current, Dangling
<1>7. ClientFits'
  BY DEF IInv, LoginTypeOK, ClientFits
<1>8. LoginIsUsed'
  BY DEF IInv, LoginTypeOK, LoginIsUsed
<1> QED
  BY <1>1, <1>2, <1>3, <1>4, <1>5, <1>6, <1>7, <1>8 DEF IInv

LEMMA DiscoveryFailsInv == ASSUME IInv, NEW l \in Logins, DiscoveryFails(l) PROVE IInv'
<1> USE DEF DiscoveryFails, Goes, Fault, settings, waiting, process, loginHist, procHist
<1>1. LoginTypeOK'
  BY DEF IInv, LoginTypeOK, Ended
<1>2. Clients'
  BY DEF IInv, LoginTypeOK, Clients, Past, Ended
<1>3. TokensThere'
  BY DEF IInv, LoginTypeOK, TokensThere
<1>4. Alone'
  BY DEF IInv, LoginTypeOK, Alone, Past, Busy, Ended
<1>5. FilesFit'
  BY DEF IInv, LoginTypeOK, FilesFit, Dangling
<1>6. Current'
  BY DEF IInv, LoginTypeOK, Current, Dangling
<1>7. ClientFits'
  BY DEF IInv, LoginTypeOK, ClientFits
<1>8. LoginIsUsed'
  BY DEF IInv, LoginTypeOK, LoginIsUsed
<1> QED
  BY <1>1, <1>2, <1>3, <1>4, <1>5, <1>6, <1>7, <1>8 DEF IInv

LEMMA OpenBrowserInv == ASSUME IInv, NEW l \in Logins, OpenBrowser(l) PROVE IInv'
<1> USE DEF OpenBrowser, Goes, Fault, settings, waiting, process, loginHist, procHist
<1>1. LoginTypeOK'
  BY DEF IInv, LoginTypeOK, Ended
<1>2. Clients'
  BY DEF IInv, LoginTypeOK, Clients, Past, Ended
<1>3. TokensThere'
  BY DEF IInv, LoginTypeOK, TokensThere
<1>4. Alone'
  BY DEF IInv, LoginTypeOK, Alone, Past, Busy, Ended
<1>5. FilesFit'
  BY DEF IInv, LoginTypeOK, FilesFit, Dangling
<1>6. Current'
  BY DEF IInv, LoginTypeOK, Current, Dangling
<1>7. ClientFits'
  BY DEF IInv, LoginTypeOK, ClientFits
<1>8. LoginIsUsed'
  BY DEF IInv, LoginTypeOK, LoginIsUsed
<1> QED
  BY <1>1, <1>2, <1>3, <1>4, <1>5, <1>6, <1>7, <1>8 DEF IInv

LEMMA AnswerInv == ASSUME IInv, NEW l \in Logins, Answer(l) PROVE IInv'
<1> USE DEF Answer, Goes, Fault, settings, waiting, process, loginHist, procHist
<1>1. LoginTypeOK'
  BY DEF IInv, LoginTypeOK, Ended
<1>2. Clients'
  BY DEF IInv, LoginTypeOK, Clients, Past, Ended
<1>3. TokensThere'
  BY DEF IInv, LoginTypeOK, TokensThere
<1>4. Alone'
  BY DEF IInv, LoginTypeOK, Alone, Past, Busy, Ended
<1>5. FilesFit'
  BY DEF IInv, LoginTypeOK, FilesFit, Dangling
<1>6. Current'
  BY DEF IInv, LoginTypeOK, Current, Dangling
<1>7. ClientFits'
  BY DEF IInv, LoginTypeOK, ClientFits
<1>8. LoginIsUsed'
  BY DEF IInv, LoginTypeOK, LoginIsUsed
<1> QED
  BY <1>1, <1>2, <1>3, <1>4, <1>5, <1>6, <1>7, <1>8 DEF IInv

LEMMA TakeCodeInv == ASSUME IInv, NEW l \in Logins, TakeCode(l) PROVE IInv'
<1> USE DEF TakeCode, Goes, Fault, settings, waiting, process, loginHist, procHist
<1>1. LoginTypeOK'
  BY DEF IInv, LoginTypeOK, Ended
<1>2. Clients'
  BY DEF IInv, LoginTypeOK, Clients, Past, Ended
<1>3. TokensThere'
  BY DEF IInv, LoginTypeOK, TokensThere
<1>4. Alone'
  BY DEF IInv, LoginTypeOK, Alone, Past, Busy, Ended
<1>5. FilesFit'
  BY DEF IInv, LoginTypeOK, FilesFit, Dangling
<1>6. Current'
  BY DEF IInv, LoginTypeOK, Current, Dangling
<1>7. ClientFits'
  BY DEF IInv, LoginTypeOK, ClientFits
<1>8. LoginIsUsed'
  BY DEF IInv, LoginTypeOK, LoginIsUsed
<1> QED
  BY <1>1, <1>2, <1>3, <1>4, <1>5, <1>6, <1>7, <1>8 DEF IInv

LEMMA TakeErrorInv == ASSUME IInv, NEW l \in Logins, TakeError(l) PROVE IInv'
<1> USE DEF TakeError, Goes, Fault, settings, waiting, process, loginHist, procHist
<1>1. LoginTypeOK'
  BY DEF IInv, LoginTypeOK, Ended
<1>2. Clients'
  BY DEF IInv, LoginTypeOK, Clients, Past, Ended
<1>3. TokensThere'
  BY DEF IInv, LoginTypeOK, TokensThere
<1>4. Alone'
  BY DEF IInv, LoginTypeOK, Alone, Past, Busy, Ended
<1>5. FilesFit'
  BY DEF IInv, LoginTypeOK, FilesFit, Dangling
<1>6. Current'
  BY DEF IInv, LoginTypeOK, Current, Dangling
<1>7. ClientFits'
  BY DEF IInv, LoginTypeOK, ClientFits
<1>8. LoginIsUsed'
  BY DEF IInv, LoginTypeOK, LoginIsUsed
<1> QED
  BY <1>1, <1>2, <1>3, <1>4, <1>5, <1>6, <1>7, <1>8 DEF IInv

LEMMA TimeOutInv == ASSUME IInv, NEW l \in Logins, TimeOut(l) PROVE IInv'
<1> USE DEF TimeOut, Goes, Fault, settings, waiting, process, loginHist, procHist
<1>1. LoginTypeOK'
  BY DEF IInv, LoginTypeOK, Ended
<1>2. Clients'
  BY DEF IInv, LoginTypeOK, Clients, Past, Ended
<1>3. TokensThere'
  BY DEF IInv, LoginTypeOK, TokensThere
<1>4. Alone'
  BY DEF IInv, LoginTypeOK, Alone, Past, Busy, Ended
<1>5. FilesFit'
  BY DEF IInv, LoginTypeOK, FilesFit, Dangling
<1>6. Current'
  BY DEF IInv, LoginTypeOK, Current, Dangling
<1>7. ClientFits'
  BY DEF IInv, LoginTypeOK, ClientFits
<1>8. LoginIsUsed'
  BY DEF IInv, LoginTypeOK, LoginIsUsed
<1> QED
  BY <1>1, <1>2, <1>3, <1>4, <1>5, <1>6, <1>7, <1>8 DEF IInv

LEMMA ExchangeInv == ASSUME IInv, NEW l \in Logins, Exchange(l) PROVE IInv'
<1> USE DEF Exchange, Goes, Fault, settings, waiting, process, loginHist, procHist
<1>1. LoginTypeOK'
  BY DEF IInv, LoginTypeOK, Ended
<1>2. Clients'
  BY DEF IInv, LoginTypeOK, Clients, Past, Ended
<1>3. TokensThere'
  BY DEF IInv, LoginTypeOK, TokensThere
<1>4. Alone'
  BY DEF IInv, LoginTypeOK, Alone, Past, Busy, Ended
<1>5. FilesFit'
  BY DEF IInv, LoginTypeOK, FilesFit, Dangling
<1>6. Current'
  BY DEF IInv, LoginTypeOK, Current, Dangling
<1>7. ClientFits'
  BY DEF IInv, LoginTypeOK, ClientFits
<1>8. LoginIsUsed'
  BY DEF IInv, LoginTypeOK, LoginIsUsed
<1> QED
  BY <1>1, <1>2, <1>3, <1>4, <1>5, <1>6, <1>7, <1>8 DEF IInv

LEMMA ExchangeFailsInv == ASSUME IInv, NEW l \in Logins, ExchangeFails(l) PROVE IInv'
<1> USE DEF ExchangeFails, Goes, Fault, settings, waiting, process, loginHist, procHist
<1>1. LoginTypeOK'
  BY DEF IInv, LoginTypeOK, Ended
<1>2. Clients'
  BY DEF IInv, LoginTypeOK, Clients, Past, Ended
<1>3. TokensThere'
  BY DEF IInv, LoginTypeOK, TokensThere
<1>4. Alone'
  BY DEF IInv, LoginTypeOK, Alone, Past, Busy, Ended
<1>5. FilesFit'
  BY DEF IInv, LoginTypeOK, FilesFit, Dangling
<1>6. Current'
  BY DEF IInv, LoginTypeOK, Current, Dangling
<1>7. ClientFits'
  BY DEF IInv, LoginTypeOK, ClientFits
<1>8. LoginIsUsed'
  BY DEF IInv, LoginTypeOK, LoginIsUsed
<1> QED
  BY <1>1, <1>2, <1>3, <1>4, <1>5, <1>6, <1>7, <1>8 DEF IInv

LEMMA CutOffInv == ASSUME IInv, NEW l \in Logins, CutOff(l) PROVE IInv'
<1> USE DEF CutOff, Goes, Fault, settings, waiting, process, loginHist, procHist
<1>1. LoginTypeOK'
  <2>1. faults' \in 0 .. MaxFaults
    BY LoginAssumption DEF IInv, LoginTypeOK
  <2>2. finished = {k \in Logins : lpc'[k] = "done"}
    BY DEF IInv, LoginTypeOK, Busy, Ended
  <2> QED
    BY <2>1, <2>2 DEF IInv, LoginTypeOK, Ended
<1>2. Clients'
  BY DEF IInv, LoginTypeOK, Clients, Past, Ended
<1>3. TokensThere'
  BY DEF IInv, LoginTypeOK, TokensThere
<1>4. Alone'
  BY DEF IInv, LoginTypeOK, Alone, Past, Busy, Ended
<1>5. FilesFit'
  BY DEF IInv, LoginTypeOK, FilesFit, Dangling
<1>6. Current'
  BY DEF IInv, LoginTypeOK, Current, Dangling
<1>7. ClientFits'
  BY DEF IInv, LoginTypeOK, ClientFits
<1>8. LoginIsUsed'
  BY DEF IInv, LoginTypeOK, LoginIsUsed
<1> QED
  BY <1>1, <1>2, <1>3, <1>4, <1>5, <1>6, <1>7, <1>8 DEF IInv

LEMMA CallbackInv == ASSUME IInv, NEW l \in Logins, NEW m \in Logins, Callback(l, m) PROVE IInv'
<1> USE DEF Callback, Goes, Fault, settings, waiting, process, loginHist, procHist
<1>1. LoginTypeOK'
  <2>1. /\ codeCh' \in [Logins -> SUBSET Logins] /\ \A k \in Logins : codeCh'[k] \subseteq {k}
        /\ errCh' \in [Logins -> BOOLEAN]
    <3>1. CASE m # l \/ tab[m] = "denied"
      BY <3>1 DEF IInv, LoginTypeOK
    <3>2. CASE ~(m # l \/ tab[m] = "denied")
      <4>1. m = l /\ codeCh' = [codeCh EXCEPT ![l] = {l}] /\ errCh' = errCh
        BY <3>2
      <4> QED
        BY <4>1 DEF IInv, LoginTypeOK
    <3> QED
      BY <3>1, <3>2
  <2> QED
    BY <2>1 DEF IInv, LoginTypeOK
<1>2. Clients'
  BY DEF IInv, LoginTypeOK, Clients, Past, Ended
<1>3. TokensThere'
  BY DEF IInv, LoginTypeOK, TokensThere
<1>4. Alone'
  BY DEF IInv, LoginTypeOK, Alone, Past, Busy, Ended
<1>5. FilesFit'
  BY DEF IInv, LoginTypeOK, FilesFit, Dangling
<1>6. Current'
  BY DEF IInv, LoginTypeOK, Current, Dangling
<1>7. ClientFits'
  BY DEF IInv, LoginTypeOK, ClientFits
<1>8. LoginIsUsed'
  BY DEF IInv, LoginTypeOK, LoginIsUsed
<1> QED
  BY <1>1, <1>2, <1>3, <1>4, <1>5, <1>6, <1>7, <1>8 DEF IInv

LEMMA Initially == LoginInit => IInv
<1> SUFFICES ASSUME LoginInit PROVE IInv
  OBVIOUS
<1> USE DEF LoginInit
<1>1. LoginTypeOK
  <2>1. unsaved \in BOOLEAN /\ crossed \in BOOLEAN /\ overwritten \in BOOLEAN
    BY Zenon
  <2>2. /\ tokens \in [there : BOOLEAN, of : 0 .. registered]
        /\ mem \in [Proxies -> [there : BOOLEAN, of : 0 .. registered]]
    OBVIOUS
  <2> QED
    BY <2>1, <2>2, LoginAssumption DEF LoginTypeOK, Ended
<1>2. Clients /\ Alone
  BY DEF Clients, Alone, Past
<1>3. TokensThere /\ FilesFit /\ Current
  BY DEF TokensThere, FilesFit, Current
<1>4. ClientFits /\ LoginIsUsed
  BY DEF ClientFits, LoginIsUsed
<1> QED
  BY <1>1, <1>2, <1>3, <1>4 DEF IInv

\* The invariant is inductive.
THEOREM LoginInvariant == LoginSpec => []IInv
<1>1. IInv /\ [LoginNext]_loginVars => IInv'
  <2> SUFFICES ASSUME IInv, [LoginNext]_loginVars PROVE IInv'
    OBVIOUS
  <2>1. ASSUME NEW l \in Logins, LoginSteps(l) PROVE IInv'
    BY <2>1, ListenInv, DiscoveryFailsInv, RegisterClientInv, SaveDiscoveryInv, OpenBrowserInv,
       TakeCodeInv, TakeErrorInv, TimeOutInv, ExchangeInv, ExchangeFailsInv, SaveTokensInv DEF LoginSteps
  <2>2. ASSUME NEW p \in Proxies, ProcessSteps(p) PROVE IInv'
    BY <2>2, ReadTokensInv, ReadDiscoveryInv, RefreshInv, SaveRefreshedInv, EndInv DEF ProcessSteps
  <2>3. CASE UNCHANGED loginVars
    <3> USE <2>3 DEF loginVars, settings, waiting, process, loginHist, procHist
    <3>1. (LoginTypeOK /\ Clients /\ TokensThere /\ ClientFits /\ LoginIsUsed)'
      BY DEF IInv, LoginTypeOK, Clients, TokensThere, ClientFits, LoginIsUsed
    <3>2. (Alone /\ FilesFit /\ Current)'
      BY DEF IInv, Alone, FilesFit, Current, Busy, Dangling
    <3> QED
      BY <3>1, <3>2 DEF IInv
  <2> QED
    BY <2>1, <2>2, <2>3, AnswerInv, CutOffInv, CallbackInv DEF LoginNext
<1> QED
  BY <1>1, Initially, PTL DEF LoginSpec

----------------------------------------------------------------------------
(* What it says of logins.                                                 *)

\* Every variable keeps its type; what is finished is what reported success.
THEOREM LoginTypeCorrect == LoginSpec => []LoginTypeOK
<1>1. IInv => LoginTypeOK
  BY DEF IInv
<1> QED
  BY <1>1, LoginInvariant, PTL

\* A process presents the client its tokens were issued to, unless a login
\* was half done, could not save its client, ran next to another one or had
\* its tokens overwritten by an older process when this one started.
THEOREM RenewedByTheirClient == LoginSpec => []ClientFits
<1>1. IInv => ClientFits
  BY DEF IInv
<1> QED
  BY <1>1, LoginInvariant, PTL

\* A start after logins that reported success, one of which could save its
\* client, uses stored tokens, but for the profiles that say otherwise.
THEOREM UsedAfterLogin == LoginSpec => []LoginIsUsed
<1>1. IInv => LoginIsUsed
  BY DEF IInv
<1> QED
  BY <1>1, LoginInvariant, PTL
=============================================================================
