----------------------------- MODULE OAuthProxy -----------------------------
(***************************************************************************)
(* The OAuth proxy of mcp_server.rs: /oauth/authorize, /oauth/callback and *)
(* /oauth/token, run by the threads of the tokio runtime.  Sessions and    *)
(* codes live in memory behind one mutex each; the token pair lives in the *)
(* config file, whose setters load the whole file and save it back.        *)
(* A request is used once; an access token and the refresh token minted    *)
(* with it are both the number of their mint.                              *)
(***************************************************************************)
EXTENDS Naturals

CONSTANTS Reqs,   \* the HTTP requests, and the other writers of the config
          None

ASSUME ReqsAssumption == None \notin Reqs

VARIABLES
  config,      \* the file: the stored pair (0 if none), diagnosis tokens present
  sessions,    \* OAuthState.sessions: the authorize requests waiting for a browser
  codes,       \* OAuthState.auth_codes: the requests whose code is unspent
  lock,        \* holder of the auth_codes mutex across a mint
  pc,          \* where each request is
  login,       \* the authorize request a request completes
  pair,        \* the pair a request has minted, or took with a code
  snap,        \* what a setter loaded
  minted,      \* number of pairs minted
  issued,      \* ghost: the requests that redirected with a code
  replies,     \* ghost: the tokens /oauth/token has answered with
  stale,       \* ghost: the setters whose load another save has made old
  newest,      \* ghost: the latest pair ever stored
  overlapped,  \* ghost: a setter saved over a change made since its load
  cleared,     \* ghost: auth_clear has removed the stored pair
  failed       \* ghost: the config could not be read or written

state  == <<sessions, codes, lock, issued, replies>>
ghosts == <<newest, overlapped, failed>>
vars   == <<config, sessions, codes, lock, pc, login, pair, snap, minted, issued,
            replies, stale, cleared, ghosts>>

Configs == [mcp : Nat, diag : BOOLEAN]
Unread  == [mcp |-> 0, diag |-> FALSE]   \* a setter has loaded nothing, or is done with it
Replies == [by : Reqs, login : Reqs \cup {None}, access : Nat, refresh : Nat]

Init ==
  /\ config \in [mcp : {0}, diag : BOOLEAN]
  /\ sessions = {} /\ codes = {}
  /\ lock = None
  /\ pc = [r \in Reqs |-> "new"]
  /\ login = [r \in Reqs |-> None]
  /\ pair = [r \in Reqs |-> 0]
  /\ snap = [r \in Reqs |-> Unread]
  /\ minted = 0
  /\ issued = {} /\ replies = {}
  /\ stale = {} /\ newest = 0
  /\ overlapped = FALSE /\ cleared = FALSE /\ failed = FALSE

Goto(r, l) == pc' = [pc EXCEPT ![r] = l]

\* The request is a setter between its load and its save.
Loaded(r) == pc[r] \in {"diag", "save", "other", "clear"}

\* A setter's save(): it publishes the file it loaded with its own change, or fails.
Save(r, new) ==
  /\ snap' = [snap EXCEPT ![r] = Unread]
  /\ \/ /\ config' = new
        /\ stale' = IF new = config THEN stale \ {r} ELSE {q \in Reqs \ {r} : Loaded(q)}
        /\ newest' = IF new.mcp > newest THEN new.mcp ELSE newest
        /\ overlapped' = (overlapped \/ r \in stale)
        /\ UNCHANGED failed
     \/ /\ failed' = TRUE
        /\ stale' = stale \ {r}
        /\ UNCHANGED <<config, newest, overlapped>>

-----------------------------------------------------------------------------
\* Diagnosis tokens present: a code at once.  Otherwise a browser login.
Authorize(r) ==
  /\ pc[r] = "new"
  /\ login' = [login EXCEPT ![r] = r]
  /\ \/ config.diag /\ Goto(r, "lock") /\ UNCHANGED sessions
     \/ ~config.diag /\ Goto(r, "login") /\ sessions' = sessions \cup {r}
  /\ UNCHANGED <<config, codes, lock, pair, snap, minted, issued, replies, stale, cleared, ghosts>>

\* The browser comes back from login k, perhaps again: set_diagnosis_tokens loads.
Callback(r, k) ==
  /\ pc[r] = "new" /\ pc[k] = "login"
  /\ login' = [login EXCEPT ![r] = k]
  /\ snap' = [snap EXCEPT ![r] = config]
  /\ Goto(r, "diag")
  /\ UNCHANGED <<config, pair, minted, stale, cleared, ghosts, state>>

SaveDiag(r) ==
  /\ pc[r] = "diag"
  /\ Save(r, [snap[r] EXCEPT !.diag = TRUE])
  /\ Goto(r, "session")
  /\ UNCHANGED <<login, pair, minted, cleared, state>>

\* A session is good for one code; a lost one gets the "reconnect" page.
LookUpSession(r) ==
  /\ pc[r] = "session"
  /\ Goto(r, IF login[r] \in sessions THEN "lock" ELSE "done")
  /\ UNCHANGED <<config, login, pair, snap, minted, stale, cleared, ghosts, state>>

TakeSession(r) ==
  /\ pc[r] = "session"
  /\ sessions' = sessions \ {login[r]}
  /\ Goto(r, IF login[r] \in sessions THEN "lock" ELSE "done")
  /\ UNCHANGED <<config, codes, lock, login, pair, snap, minted, issued, replies, stale, cleared, ghosts>>

\* auth_codes.lock().insert(code, mint_mcp_session()): the mint runs under the lock.
LockCodes(r) ==
  /\ pc[r] = "lock" /\ lock = None
  /\ lock' = r
  /\ Goto(r, "mint")
  /\ UNCHANGED <<config, sessions, codes, login, pair, snap, minted, issued, replies, stale, cleared,
                 ghosts>>

\* A mint that makes its pair once and for all.
MintOnce(r) ==
  /\ pc[r] = "mint"
  /\ minted' = 1
  /\ pair' = [pair EXCEPT ![r] = 1]
  /\ snap' = [snap EXCEPT ![r] = config]
  /\ Goto(r, "save")
  /\ UNCHANGED <<config, login, stale, cleared, ghosts, state>>

\* mint_mcp_session(): new tokens; set_mcp_tokens loads.
Mint(r) ==
  /\ pc[r] = "mint"
  /\ minted' = minted + 1
  /\ pair' = [pair EXCEPT ![r] = minted']
  /\ snap' = [snap EXCEPT ![r] = config]
  /\ Goto(r, "save")
  /\ UNCHANGED <<config, login, stale, cleared, ghosts, state>>

\* Its save; a failure is ignored.  Then the code is stored and sent, or the refresh answered.
SaveMintSkipped(r) ==
  /\ pc[r] = "save"
  /\ snap' = [snap EXCEPT ![r] = Unread]
  /\ stale' = stale \ {r}
  /\ UNCHANGED <<config, ghosts>>
  /\ \/ /\ lock = r
        /\ codes' = codes \cup {r} /\ issued' = issued \cup {r}
        /\ lock' = None
        /\ Goto(r, "done")
     \/ lock # r /\ Goto(r, "reply") /\ UNCHANGED <<codes, issued, lock>>
  /\ UNCHANGED <<sessions, login, pair, minted, replies, cleared>>

\* A guard that outlives the handler that minted under it.
SaveMintKeepsLock(r) ==
  /\ pc[r] = "save"
  /\ Save(r, [snap[r] EXCEPT !.mcp = pair[r]])
  /\ \/ lock = r /\ codes' = codes \cup {r} /\ issued' = issued \cup {r} /\ Goto(r, "done")
     \/ lock # r /\ Goto(r, "reply") /\ UNCHANGED <<codes, issued>>
  /\ UNCHANGED <<sessions, lock, login, pair, minted, replies, cleared>>

SaveMint(r) ==
  /\ pc[r] = "save"
  /\ Save(r, [snap[r] EXCEPT !.mcp = pair[r]])
  /\ \/ /\ lock = r
        /\ codes' = codes \cup {r} /\ issued' = issued \cup {r}
        /\ lock' = None
        /\ Goto(r, "done")
     \/ lock # r /\ Goto(r, "reply") /\ UNCHANGED <<codes, issued, lock>>
  /\ UNCHANGED <<sessions, login, pair, minted, replies, cleared>>

\* /oauth/token with a code, perhaps again: the access token minted when it was issued.
TokenCode(r, c) ==
  /\ pc[r] = "new" /\ c \in issued /\ lock = None
  /\ codes' = codes \ {c}
  /\ \/ c \in codes /\ login' = [login EXCEPT ![r] = login[c]]
                    /\ pair' = [pair EXCEPT ![r] = pair[c]] /\ Goto(r, "reply")
     \/ c \notin codes /\ Goto(r, "done") /\ UNCHANGED <<login, pair>>
  /\ UNCHANGED <<config, sessions, lock, snap, minted, issued, replies, stale, cleared, ghosts>>

\* A refresh that is answered with the stored pair again.
TokenRefreshReuses(r, n) ==
  /\ pc[r] = "new"
  /\ Goto(r, IF n # 0 /\ n = config.mcp THEN "reply" ELSE "done")
  /\ pair' = IF n # 0 /\ n = config.mcp THEN [pair EXCEPT ![r] = n] ELSE pair
  /\ UNCHANGED <<config, login, snap, minted, stale, cleared, ghosts, state>>

\* /oauth/token with a refresh token: only the one the config holds now is good, if it can be read.
TokenRefresh(r, n) ==
  /\ pc[r] = "new"
  /\ \/ n # 0 /\ n = config.mcp /\ Goto(r, "mint")
     \/ Goto(r, "done")
  /\ UNCHANGED <<config, login, pair, snap, minted, stale, cleared, ghosts, state>>

\* The answer: the access token at hand and the refresh token the config holds now.
Reply(r) ==
  /\ pc[r] = "reply"
  /\ \E n \in {config.mcp, 0} :
       /\ failed' = (failed \/ n # config.mcp)
       /\ replies' = replies \cup {[by |-> r, login |-> login[r], access |-> pair[r], refresh |-> n]}
  /\ Goto(r, "done")
  /\ UNCHANGED <<config, sessions, codes, lock, login, pair, snap, minted, issued, stale, newest,
                 overlapped, cleared>>

\* Other setters of the same file: repair, agent, auth login and logout, auth_clear.
LoadOther(r) ==
  /\ pc[r] = "new"
  /\ snap' = [snap EXCEPT ![r] = config]
  /\ Goto(r, "other")
  /\ UNCHANGED <<config, login, pair, minted, stale, cleared, ghosts, state>>

SaveOther(r) ==
  /\ pc[r] = "other"
  /\ \E d \in BOOLEAN : Save(r, [snap[r] EXCEPT !.diag = d])
  /\ Goto(r, "done")
  /\ UNCHANGED <<login, pair, minted, cleared, state>>

\* auth_clear(): clear_diagnosis_tokens, whose failure it ignores, and then clear_mcp_tokens.
ClearDiag(r) ==
  /\ pc[r] = "other"
  /\ Save(r, [snap[r] EXCEPT !.diag = FALSE])
  /\ Goto(r, "reload")
  /\ UNCHANGED <<login, pair, minted, cleared, state>>

LoadMcp(r) ==
  /\ pc[r] = "reload"
  /\ snap' = [snap EXCEPT ![r] = config]
  /\ Goto(r, "clear")
  /\ UNCHANGED <<config, login, pair, minted, stale, cleared, ghosts, state>>

ClearMcp(r) ==
  /\ pc[r] = "clear"
  /\ Save(r, [snap[r] EXCEPT !.mcp = 0])
  /\ cleared' = TRUE
  /\ Goto(r, "done")
  /\ UNCHANGED <<login, pair, minted, state>>

\* The server is restarted: its memory and what it was doing are gone; setters of other
\* processes go on.
Restart ==
  /\ sessions' = {} /\ codes' = {}
  /\ lock' = None
  /\ pc' = [r \in Reqs |-> IF pc[r] \in {"new", "login", "other"} THEN pc[r] ELSE "done"]
  /\ snap' = [r \in Reqs |-> IF pc[r] = "other" THEN snap[r] ELSE Unread]
  /\ stale' = {r \in stale : pc[r] = "other"}
  /\ UNCHANGED <<config, login, pair, minted, issued, replies, cleared, ghosts>>

Step(r) ==
  \/ Authorize(r)
  \/ \E k \in Reqs : Callback(r, k)
  \/ SaveDiag(r)
  \/ TakeSession(r)
  \/ LockCodes(r)
  \/ Mint(r)
  \/ SaveMint(r)
  \/ \E c \in issued : TokenCode(r, c)
  \/ \E p \in replies : TokenRefresh(r, p.refresh)
  \/ Reply(r)
  \/ LoadOther(r)
  \/ SaveOther(r)
  \/ ClearDiag(r)
  \/ LoadMcp(r)
  \/ ClearMcp(r)

Next == Restart \/ \E r \in Reqs : Step(r)

Spec == Init /\ [][Next]_vars

-----------------------------------------------------------------------------
\* The variables have their types; the code table is locked only by a mint, and
\* everything a request can name has happened (auth_codes, mint_mcp_session).
TypeOK ==
  /\ config \in Configs
  /\ sessions \in SUBSET Reqs /\ codes \in SUBSET Reqs /\ issued \in SUBSET Reqs
  /\ lock \in Reqs \cup {None}
  /\ pc \in [Reqs -> {"new", "lock", "login", "diag", "session", "mint", "save", "reply", "other",
                     "reload", "clear", "done"}]
  /\ login \in [Reqs -> Reqs \cup {None}]
  /\ pair \in [Reqs -> Nat]
  /\ snap \in [Reqs -> Configs]
  /\ minted \in Nat
  /\ replies \in SUBSET Replies
  /\ stale \in SUBSET Reqs /\ newest \in Nat
  /\ overlapped \in BOOLEAN /\ cleared \in BOOLEAN /\ failed \in BOOLEAN
  /\ lock # None => pc[lock] \in {"mint", "save"}

\* However often the browser calls back and the client retries, and whatever is lost
\* in a restart, one login is answered with tokens at most once.
OneReplyPerLogin ==
  \A p, q \in replies : p.login = q.login /\ p.login # None => p = q

\* Unless a setter saves over a change it has not loaded, the stored pair is only ever removed
\* or replaced by one newer than all that were stored: a rotated refresh token does not come
\* back, however mints, logins, refreshes, auth_clear and restarts are mixed.
PairsOnlyGetNewer ==
  [][~overlapped' => config'.mcp \in {config.mcp, 0} \/ config'.mcp > newest]_vars

\* Unless setters overlap or fail, an answer never joins an access token with a refresh token
\* older than it, nor with none while no auth_clear has removed the pair.
RefreshNotOlder ==
  ~overlapped /\ ~failed =>
    \A p \in replies : p.access <= p.refresh \/ (p.refresh = 0 /\ cleared)

Given(p) == [login |-> p.login, access |-> p.access, refresh |-> p.refresh]

Tokens == INSTANCE TokenService WITH stored <- config.mcp, answers <- {Given(p) : p \in replies},
                                     disordered <- overlapped \/ failed

\* The load and the save of a setter, the locks, repeated callbacks and redemptions and what
\* a restart loses do not show: a mint is one step, no access token is given twice, each is
\* stored when it is given or was and has been cleared since, and an answer without a refresh
\* token is given only then.
ImplementsTokens == Tokens!Spec
=============================================================================
