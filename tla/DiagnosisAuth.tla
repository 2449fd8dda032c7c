---------------------------- MODULE DiagnosisAuth ----------------------------
(***************************************************************************)
(* The tokens of the diagnosis server: who obtains them (authenticate and  *)
(* complete_authentication, auth_reconnect, nff auth login, nff init), who *)
(* uses and refreshes them (the repair tool, nff repair, nff agent) and    *)
(* who removes them (auth_logout, auth_clear, nff auth logout).  The pair  *)
(* is a section of the config file; each operation reads it long before it *)
(* writes it, and the server may spend a refresh token when it is used.    *)
(*                                                                         *)
(* Each operation is used once.  An access token and the refresh token     *)
(* issued with it are both the number of their issue.                      *)
(***************************************************************************)
EXTENDS Naturals

CONSTANTS Ops,     \* the tool calls and commands
          CliOps,  \* those that are commands: a process of their own
          None

ASSUME OpsAssumption == CliOps \subseteq Ops /\ None \notin Ops

VARIABLES
  stored,   \* config.diagnosis: the stored pair, 0 if none
  pc,       \* where each operation is
  seen,     \* the pair an operation has read from the config
  pair,     \* the pair the server has given it, or the browser it waits for
  pending,  \* NffServer.pending_auth: the login whose listener it holds
  refresh,  \* the server: the pairs whose refresh token it takes
  issued,   \* the server: how many pairs it has issued
  ended,    \* ghost: the pairs it has ended on its own, or at a logout
  urls,     \* the browser: the pairs in the callback URLs of the OAuth proxy
  crossed,  \* ghost: an operation wrote over a pair it had not read
  stale,    \* ghost: the stored pair was no good any more in the URL it came with
  lost      \* ghost: a refresh got no answer, or its pair was not saved

server == <<refresh, issued, ended, urls>>
vars   == <<stored, pc, seen, pair, pending, server, crossed, stale, lost>>

Init ==
  /\ stored = 0
  /\ pc = [r \in Ops |-> "new"]
  /\ seen = [r \in Ops |-> 0]
  /\ pair = [r \in Ops |-> 0]
  /\ pending = None
  /\ refresh = {} /\ issued = 0 /\ ended = {} /\ urls = {}
  /\ crossed = FALSE /\ stale = FALSE /\ lost = FALSE

Goto(r, l) == pc' = [pc EXCEPT ![r] = l]

\* set_diagnosis_tokens or clear_diagnosis_tokens, which may fail.
Write(n, cross) ==
  \/ /\ stored' = n
     /\ crossed' = (crossed \/ cross)
     /\ stale' = (n \in urls /\ n \notin refresh \cup ended)
  \/ UNCHANGED <<stored, crossed, stale>>

-----------------------------------------------------------------------------
(* The server.                                                             *)

Issue(r) ==
  /\ issued' = issued + 1
  /\ pair' = [pair EXCEPT ![r] = issued']

EndSession(n) ==
  /\ n \in refresh
  /\ refresh' = refresh \ {n}
  /\ ended' = ended \cup {n}
  /\ UNCHANGED <<stored, pc, seen, pair, pending, issued, urls, crossed, stale, lost>>

-----------------------------------------------------------------------------
(* Logins.                                                                 *)

\* The listener this login replaces in the slot is closed.
AuthenticateKeepsOld(r) ==
  /\ pc[r] = "new" /\ r \notin CliOps
  /\ pending' = r
  /\ Goto(r, "listen")
  /\ UNCHANGED <<stored, seen, pair, server, crossed, stale, lost>>

Authenticate(r) ==
  /\ pc[r] = "new" /\ r \notin CliOps
  /\ pending' = r
  /\ pc' = [q \in Ops |-> IF q = r THEN "listen" ELSE IF q = pending THEN "done" ELSE pc[q]]
  /\ UNCHANGED <<stored, seen, pair, server, crossed, stale, lost>>

\* complete_authentication takes the listener out of the slot and waits.
CompleteAuthentication(r) ==
  /\ pending = r
  /\ pending' = None
  /\ Goto(r, "accept")
  /\ UNCHANGED <<stored, seen, pair, server, crossed, stale, lost>>

\* A login that waits in the same call: auth_reconnect, nff auth login, nff init.
WaitForLogin(r) ==
  /\ pc[r] = "new"
  /\ Goto(r, "accept")
  /\ UNCHANGED <<stored, seen, pair, pending, server, crossed, stale, lost>>

\* The user signs in; the browser calls back, and waits if nobody accepts yet.
SignIn(r) ==
  /\ pc[r] \in {"listen", "accept", "late"} /\ pair[r] = 0
  /\ Issue(r)
  /\ refresh' = refresh \cup {issued'}
  /\ UNCHANGED <<stored, pc, seen, pending, ended, urls, crossed, stale, lost>>

\* accept_one(): the page says "Authenticated!"; the tokens go to whoever waits.
Accept(r) ==
  /\ pair[r] # 0
  /\ \/ pc[r] = "accept" /\ Goto(r, "store")
     \/ pc[r] = "late" /\ Goto(r, "done")
  /\ UNCHANGED <<stored, seen, pair, pending, server, crossed, stale, lost>>

\* Another connection came first, and cannot be parsed.
AcceptFails(r) ==
  /\ pc[r] \in {"accept", "late"}
  /\ Goto(r, "done")
  /\ UNCHANGED <<stored, seen, pair, pending, server, crossed, stale, lost>>

\* recv_timeout: the call returns, the thread that accepts stays.
WaitTimesOut(r) ==
  /\ pc[r] = "accept"
  /\ Goto(r, "late")
  /\ UNCHANGED <<stored, seen, pair, pending, server, crossed, stale, lost>>

\* Email and password.
DirectLogin(r) ==
  /\ pc[r] = "new"
  /\ Issue(r)
  /\ refresh' = refresh \cup {issued'}
  /\ Goto(r, "store")
  /\ UNCHANGED <<stored, seen, pending, ended, urls, crossed, stale, lost>>

\* The OAuth proxy stores what the callback URL carries before it looks at the session: a
\* fresh pair, one without its refresh token, or that of a URL which is opened again.
OAuthCallback(r) ==
  /\ pc[r] = "new" /\ r \notin CliOps
  /\ \/ Issue(r) /\ urls' = urls \cup {issued'} /\ refresh' \in {refresh, refresh \cup {issued'}}
     \/ /\ \E n \in urls : pair' = [pair EXCEPT ![r] = n]
        /\ UNCHANGED <<refresh, issued, urls>>
  /\ Goto(r, "store")
  /\ UNCHANGED <<stored, seen, pending, ended, crossed, stale, lost>>

\* Not stored: the file cannot be written, or the wait was over after all.
StoreLogin(r) ==
  /\ pc[r] = "store"
  /\ Write(pair[r], FALSE)
  /\ Goto(r, "done")
  /\ UNCHANGED <<seen, pair, pending, server, lost>>

-----------------------------------------------------------------------------
(* repair and agent.                                                       *)

\* The tokens are read; CLI repair then captures serial output for some seconds.
StartCall(r) ==
  /\ pc[r] = "new" /\ stored # 0
  /\ seen' = [seen EXCEPT ![r] = stored]
  /\ Goto(r, "call")
  /\ UNCHANGED <<stored, pair, pending, server, crossed, stale, lost>>

\* Giving up at the first 401.
ClearAtOnce(r) ==
  /\ pc[r] = "call"
  /\ \E l \in {"done", "clear"} : Goto(r, l)
  /\ UNCHANGED <<stored, seen, pair, pending, server, crossed, stale, lost>>

\* An answer or an error ends the call.  An error that mentions 401, be it the
\* status or a number in the body of another one, leads to the refresh.
Call(r) ==
  /\ pc[r] = "call"
  /\ \E l \in {"done", "refresh"} : Goto(r, l)
  /\ UNCHANGED <<stored, seen, pair, pending, server, crossed, stale, lost>>

\* refresh_tokens(): a new pair, and the old one perhaps spent.  If the answer does
\* not arrive, the operation takes it for a refusal.
RefreshGranted(r) ==
  /\ pc[r] = "refresh" /\ seen[r] \in refresh
  /\ Issue(r)
  /\ \E spent \in SUBSET {seen[r]} : refresh' = (refresh \ spent) \cup {issued'}
  /\ \/ Goto(r, "keep") /\ UNCHANGED lost
     \/ Goto(r, "clear") /\ lost' = TRUE
  /\ UNCHANGED <<stored, seen, pending, ended, urls, crossed, stale>>

\* HTTP 4xx, or no answer from a server that did not get the question.
RefreshFails(r) ==
  /\ pc[r] = "refresh"
  /\ \/ seen[r] \notin refresh /\ UNCHANGED lost
     \/ lost' = TRUE
  /\ Goto(r, "clear")
  /\ UNCHANGED <<stored, seen, pair, pending, server, crossed, stale>>

\* A retry with the new access token that forgets to save the pair.
KeepSkipped(r) ==
  /\ pc[r] = "keep"
  /\ Goto(r, "done")
  /\ UNCHANGED <<stored, seen, pair, pending, server, crossed, stale, lost>>

\* The new pair is saved and the call repeated, whose outcome changes nothing here.
KeepRefreshed(r) ==
  /\ pc[r] = "keep"
  /\ Write(pair[r], stored # seen[r])
  /\ lost' = (lost \/ stored' # pair[r])
  /\ Goto(r, "done")
  /\ UNCHANGED <<seen, pair, pending, server>>

ClearRefused(r) ==
  /\ pc[r] = "clear"
  /\ Write(0, stored # seen[r])
  /\ Goto(r, "done")
  /\ UNCHANGED <<seen, pair, pending, server, lost>>

-----------------------------------------------------------------------------
(* Logout.                                                                 *)

StartLogout(r) ==
  /\ pc[r] = "new"
  /\ seen' = [seen EXCEPT ![r] = stored]
  /\ Goto(r, "logout")
  /\ UNCHANGED <<stored, pair, pending, server, crossed, stale, lost>>

\* The server is told, if it can be reached.
TellServer(r) ==
  /\ pc[r] = "logout"
  /\ \/ seen[r] \in refresh /\ refresh' = refresh \ {seen[r]} /\ ended' = ended \cup {seen[r]}
     \/ UNCHANGED <<refresh, ended>>
  /\ Goto(r, "forget")
  /\ UNCHANGED <<stored, seen, pair, pending, issued, urls, crossed, stale, lost>>

Forget(r) ==
  /\ pc[r] = "forget"
  /\ Write(0, stored # seen[r])
  /\ Goto(r, "done")
  /\ UNCHANGED <<seen, pair, pending, server, lost>>

\* auth_clear asks nobody.
AuthClear(r) ==
  /\ pc[r] = "new" /\ r \notin CliOps
  /\ Write(0, FALSE)
  /\ Goto(r, "done")
  /\ UNCHANGED <<seen, pair, pending, server, lost>>

-----------------------------------------------------------------------------
Underway(r) == pc[r] \notin {"new", "done"}

\* A set of operations ends where they are.
End(R) ==
  /\ pc' = [r \in Ops |-> IF r \in R /\ Underway(r) THEN "done" ELSE pc[r]]
  /\ lost' = (lost \/ \E r \in R : pc[r] = "keep")
  /\ UNCHANGED <<stored, seen, pair, server, crossed, stale>>

Crash(r) ==
  /\ r \in CliOps /\ Underway(r)
  /\ End({r})
  /\ UNCHANGED pending

\* The MCP server is restarted.
Restart ==
  /\ End(Ops \ CliOps)
  /\ pending' = None

Login(r) ==
  \/ Authenticate(r) \/ CompleteAuthentication(r) \/ WaitForLogin(r) \/ SignIn(r)
  \/ Accept(r) \/ AcceptFails(r) \/ WaitTimesOut(r) \/ DirectLogin(r) \/ OAuthCallback(r)
  \/ StoreLogin(r)

Repair(r) ==
  \/ StartCall(r) \/ Call(r) \/ RefreshGranted(r) \/ RefreshFails(r)
  \/ KeepRefreshed(r) \/ ClearRefused(r)

Logout(r) == StartLogout(r) \/ TellServer(r) \/ Forget(r) \/ AuthClear(r)

Next ==
  \/ \E r \in Ops : Login(r) \/ Repair(r) \/ Logout(r) \/ Crash(r)
  \/ \E n \in refresh : EndSession(n)
  \/ Restart

Spec == Init /\ [][Next]_vars

-----------------------------------------------------------------------------
\* The variables have their types; the slot holds the one listener of an MCP login
\* that nobody waits for yet (pending_auth).
TypeOK ==
  /\ stored \in Nat /\ issued \in Nat
  /\ pc \in [Ops -> {"new", "listen", "accept", "late", "store", "call", "refresh", "keep",
                     "clear", "logout", "forget", "done"}]
  /\ seen \in [Ops -> Nat] /\ pair \in [Ops -> Nat]
  /\ pending \in (Ops \ CliOps) \cup {None}
  /\ refresh \in SUBSET Nat /\ ended \in SUBSET Nat /\ urls \in SUBSET Nat
  /\ crossed \in BOOLEAN /\ stale \in BOOLEAN /\ lost \in BOOLEAN
  /\ \A r \in Ops : pc[r] = "listen" <=> pending = r

\* "Automatically refreshes the token": unless an operation wrote over a pair it had not
\* read, or something was lost, the stored refresh token is one the server takes, has ended,
\* or has just exchanged for a pair that is about to be stored; or else it was no good
\* already in the callback URL that has put it there.
StoredIsGood ==
  ~crossed /\ ~lost /\ ~stale /\ stored # 0 =>
    \/ stored \in refresh \cup ended
    \/ \E r \in Ops : pc[r] = "keep" /\ seen[r] = stored

\* "If the refresh also fails, tokens are cleared": a repair, under the same
\* conditions, clears no pair the server would still refresh.
OnlyRefusedCleared ==
  [][\A r \in Ops : ClearRefused(r) /\ stored # stored' /\ ~crossed' /\ ~lost' =>
                      stored \notin refresh]_vars
=============================================================================
