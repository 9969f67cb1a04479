------------------------------- MODULE MCLogin -------------------------------
(* Instances of module Login for TLC: the profiles the documentation shows, *)
(* and some a user may write instead.                                       *)
EXTENDS Login

Plain    == [transport |-> "sse", command |-> FALSE, url |-> TRUE, oauth2 |-> FALSE,
             flow |-> "", secret |-> FALSE, complete |-> FALSE, method |-> "",
             tokenCommand |-> FALSE, enforcement |-> ""]
Explicit == [Plain EXCEPT !.oauth2 = TRUE, !.complete = TRUE, !.flow = "authorization_code"]
NoFlow   == [Explicit EXCEPT !.flow = "", !.secret = TRUE]
Command  == [Plain EXCEPT !.tokenCommand = TRUE]
Child    == [Plain EXCEPT !.transport = "", !.command = TRUE, !.enforcement = "advisory"]

MCProfiles == {Plain, Explicit, NoFlow, [NoFlow EXCEPT !.flow = "client_credentials"], Command, Child}
MCGlobals  == {[st |-> "absent", enforcement |-> ""], [st |-> "ok", enforcement |-> "other"]}
=============================================================================
