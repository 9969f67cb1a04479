-------------------------------- MODULE Config --------------------------------
(***************************************************************************)
(* What a start makes of its two configuration files (internal/config,     *)
(* main.go, internal/cli/inspect.go): defaults, then the global file, then *)
(* the profile, each replacing what it sets, then the validation, and the  *)
(* choice of the transport and of the token provider that follows from it. *)
(*                                                                         *)
(* Settings that are layered and validated alike (schema, maxCalls,        *)
(* timeout) are represented by one of them, enforcement; "other" is a      *)
(* value that no validation accepts, and for a setting "" is unset.        *)
(***************************************************************************)
EXTENDS Naturals

Flows == {"", "client_credentials", "authorization_code"}

\* A profile.  oauth2: it has the block auth.oauth2, whose flow and client
\* secret the next two are; complete: the block has its URLs and its client id.
ProfileType ==
  [transport : {"", "stdio", "sse"}, command : BOOLEAN, url : BOOLEAN,
   oauth2 : BOOLEAN, flow : Flows, secret : BOOLEAN, complete : BOOLEAN,
   method : {"", "post", "basic", "none"}, tokenCommand : BOOLEAN,
   enforcement : {"", "strict", "advisory", "other"}]

\* The global file: not there, not readable, or what it sets.
GlobalType == [st : {"absent", "broken", "ok"}, enforcement : {"", "strict", "advisory", "other"}]

Defaults == [transport |-> "", command |-> FALSE, url |-> FALSE, oauth2 |-> FALSE,
             flow |-> "", secret |-> FALSE, tokenCommand |-> FALSE, enforcement |-> "strict"]

----------------------------------------------------------------------------
(* The layers.                                                             *)

Over(value, below) == IF value = "" THEN below ELSE value

GlobalApplyTo(g, cfg) == [cfg EXCEPT !.enforcement = Over(g.enforcement, @)]

\* The flow goes with the block, and is replaced with it even when unset.
ProfileApplyTo(prof, cfg) ==
  [cfg EXCEPT !.transport    = Over(prof.transport, @),
              !.command      = prof.command \/ @,
              !.url          = prof.url \/ @,
              !.oauth2       = prof.oauth2 \/ @,
              !.flow         = IF prof.oauth2 THEN prof.flow ELSE @,
              !.secret       = IF prof.oauth2 THEN prof.secret ELSE @,
              !.tokenCommand = prof.tokenCommand \/ @,
              !.enforcement  = Over(prof.enforcement, @)]

\* A file named with --config has to be readable.
LoadGlobal(g, named) == named => g.st = "ok"

\* One that is found in its default place is passed over when it is not.
Configuration(prof, g) ==
  ProfileApplyTo(prof, IF g.st = "ok" THEN GlobalApplyTo(g, Defaults) ELSE Defaults)

----------------------------------------------------------------------------
(* The validations.                                                        *)

ProfileValidate(prof) ==
  /\ prof.transport = "sse" => prof.url
  /\ ~(prof.oauth2 /\ prof.tokenCommand)
  /\ prof.oauth2 => /\ prof.complete
                    /\ prof.flow # "authorization_code" => prof.secret
                    /\ prof.method = "basic" => prof.secret
                    /\ prof.method = "none" => ~prof.secret
  /\ prof.enforcement # "other"

ConfigValidate(cfg) ==
  /\ IF cfg.transport = "sse"
     THEN /\ cfg.url
          /\ cfg.oauth2 => /\ cfg.flow # "authorization_code" => cfg.secret
                           /\ ~cfg.tokenCommand
     ELSE cfg.command
  /\ cfg.enforcement \in {"strict", "advisory"}

----------------------------------------------------------------------------
(* The transport and its tokens.                                           *)

\* NewStoredTokenProvider finds tokens, and where to refresh them.
StoredOk(cfg, tokensThere, discoveryThere) ==
  tokensThere /\ (cfg.oauth2 \/ discoveryThere)

\* Variant: a login is for the flow that names it only.
ProviderByFlow(cfg, stored) ==
  IF cfg.transport # "sse" THEN "pipe"
  ELSE IF cfg.flow = "authorization_code" THEN IF stored THEN "stored" ELSE "refused"
  ELSE IF cfg.oauth2 THEN "client_credentials"
  ELSE IF cfg.tokenCommand THEN "command" ELSE "none"

\* CreateUpstreamTransport.  Stored tokens are used in the flow that asks for
\* them, and when nothing is said of authentication.
Provider(cfg, stored) ==
  IF cfg.transport # "sse" THEN "pipe"
  ELSE IF cfg.flow = "authorization_code" THEN IF stored THEN "stored" ELSE "refused"
  ELSE IF cfg.oauth2 THEN "client_credentials"
  ELSE IF cfg.tokenCommand THEN "command"
  ELSE IF stored THEN "stored" ELSE "none"
=============================================================================
