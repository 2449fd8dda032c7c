---------------------------- MODULE ServerProofs ----------------------------
(***************************************************************************)
(* The MCP server: the tokens its OAuth proxy hands out (OAuthProxy), for any *)
(* number of requests, in any interleaving and with restarts at any point; *)
(* and, in the second part, how the server comes to run (InitDaemon), for any *)
(* number of inits and manual starts.                                      *)
(***************************************************************************)
EXTENDS OAuthProxy, InitDaemon, TLAPS

\* Request r holds the right to the tokens of its login, or has spent it.
Carries(r) ==
  /\ login[r] # None
  /\ \/ pc[r] \in {"lock", "mint", "save", "reply"}
     \/ r \in sessions \/ r \in codes
     \/ \E p \in replies : p.by = r

OneCarrier ==
  \A r, s \in Reqs : Carries(r) /\ Carries(s) /\ login[r] = login[s] => r = s

\* What sessions, codes and answers say of the requests they stand for.
Bookkeeping ==
  /\ \A r \in Reqs : login[r] # None => pc[login[r]] # "new" /\ pc[r] # "new"
  /\ \A k \in sessions : pc[k] = "login" /\ login[k] = k
  /\ codes \subseteq issued
  /\ \A c \in issued : pc[c] = "done" /\ \A p \in replies : p.by # c
  /\ \A p \in replies : pc[p.by] = "done" /\ p.login = login[p.by]
  /\ \A p, q \in replies : p.by = q.by => p = q

\* A setter that is not stale has loaded what the config holds now, and a mint among them
\* brings the newest pair.
FreshPairs ==
  /\ config.mcp <= newest /\ newest <= minted
  /\ \A r \in Reqs : snap[r].mcp <= newest /\ pair[r] <= minted
  /\ \A r \in Reqs \ stale : Loaded(r) => snap[r] = config
  /\ \A r \in Reqs \ stale : pc[r] = "save" => newest < pair[r]

\* Tokens on their way to a client are not newer than the newest stored pair, and that is
\* the one in the config unless auth_clear has removed it.
StoredFirst ==
  ~overlapped /\ ~failed =>
    /\ config.mcp = newest \/ (config.mcp = 0 /\ cleared)
    /\ \A c \in codes : pair[c] <= newest
    /\ \A r \in Reqs : pc[r] = "reply" => pair[r] <= newest
    /\ \A p \in replies : p.access <= p.refresh \/ (p.refresh = 0 /\ cleared)

\* The pairs that may still be given away, by a request under way or an unspent code, are
\* different from one another and from those that have been.
Holds(r) == pc[r] \in {"save", "reply"} \/ r \in codes

OnePair ==
  /\ \A r, s \in Reqs : Holds(r) /\ Holds(s) /\ pair[r] = pair[s] => r = s
  /\ \A p \in replies : p.access <= minted /\ \A r \in Reqs : Holds(r) => p.access # pair[r]

IInv == TypeOK /\ OneCarrier /\ Bookkeeping /\ FreshPairs /\ StoredFirst /\ OnePair

-----------------------------------------------------------------------------
LEMMA InitInv == Init => IInv
  <1> SUFFICES ASSUME Init PROVE IInv
    OBVIOUS
  <1>1. config \in Configs /\ config.mcp = 0 /\ Unread \in Configs
    BY DEF Init, Configs, Unread
  <1>2. TypeOK
    BY <1>1 DEF Init, TypeOK
  <1>3. OneCarrier /\ Bookkeeping
    BY DEF Init, OneCarrier, Carries, Bookkeeping
  <1>4. FreshPairs /\ StoredFirst
    BY <1>1 DEF Init, FreshPairs, StoredFirst, Loaded, Unread
  <1>5. OnePair
    BY DEF Init, OnePair, Holds
  <1>6. QED
    BY <1>2, <1>3, <1>4, <1>5 DEF IInv

\* What the setters save is a config; only a mint and auth_clear change its pair.
LEMMA SavedConfigs ==
  ASSUME TypeOK, NEW r \in Reqs
  PROVE  /\ config \in Configs /\ config.mcp \in Nat /\ snap[r].mcp \in Nat /\ pair[r] \in Nat
         /\ Unread \in Configs /\ Unread.mcp = 0
         /\ \A d \in BOOLEAN : /\ [snap[r] EXCEPT !.diag = d] \in Configs
                               /\ [snap[r] EXCEPT !.diag = d].mcp = snap[r].mcp
         /\ \A n \in Nat : /\ [snap[r] EXCEPT !.mcp = n] \in Configs
                           /\ [snap[r] EXCEPT !.mcp = n].mcp = n
  BY DEF TypeOK, Configs, Unread

\* A save publishes or fails; what it writes over without notice is an overlap.
LEMMA SaveEffect ==
  ASSUME TypeOK, NEW r \in Reqs, NEW new \in Configs, Save(r, new)
  PROVE  /\ snap' = [snap EXCEPT ![r] = Unread] /\ snap' \in [Reqs -> Configs]
         /\ config' \in Configs /\ stale' \in SUBSET Reqs /\ newest' \in Nat
         /\ overlapped' \in BOOLEAN /\ failed' \in BOOLEAN
         /\ (overlapped => overlapped') /\ (failed => failed')
         /\ newest <= newest'
         /\ \/ /\ config' = new /\ new.mcp <= newest'
               /\ newest' = IF new.mcp > newest THEN new.mcp ELSE newest
               /\ stale' = IF new = config THEN stale \ {r} ELSE {q \in Reqs \ {r} : Loaded(q)}
               /\ overlapped' \/ r \notin stale
            \/ config' = config /\ newest' = newest /\ stale' = stale \ {r} /\ failed'
  <1>1. snap' = [snap EXCEPT ![r] = Unread] /\ snap' \in [Reqs -> Configs]
    BY SavedConfigs DEF Save, TypeOK
  <1>2. /\ new.mcp \in Nat /\ newest \in Nat /\ config \in Configs /\ stale \in SUBSET Reqs
        /\ overlapped \in BOOLEAN /\ failed \in BOOLEAN
    BY DEF TypeOK, Configs
  <1>3. CASE /\ config' = new
             /\ stale' = IF new = config THEN stale \ {r} ELSE {q \in Reqs \ {r} : Loaded(q)}
             /\ newest' = IF new.mcp > newest THEN new.mcp ELSE newest
             /\ overlapped' = (overlapped \/ r \in stale)
             /\ failed' = failed
    <2>1. config' \in Configs /\ overlapped' \in BOOLEAN /\ failed' \in BOOLEAN
      BY <1>2, <1>3
    <2>2. stale' \in SUBSET Reqs /\ newest' \in Nat /\ newest <= newest' /\ new.mcp <= newest'
      BY <1>2, <1>3
    <2>3. /\ (overlapped => overlapped') /\ (failed => failed')
          /\ overlapped' \/ r \notin stale
      BY <1>2, <1>3
    <2>4. QED
      BY <1>1, <1>3, <2>1, <2>2, <2>3
  <1>4. CASE failed' = TRUE /\ stale' = stale \ {r} /\ UNCHANGED <<config, newest, overlapped>>
    BY <1>1, <1>2, <1>4
  <1>5. QED
    BY <1>3, <1>4 DEF Save

\* The saves of the handlers, in one form.
Saves(r) == SaveDiag(r) \/ SaveMint(r) \/ SaveOther(r) \/ ClearDiag(r) \/ ClearMcp(r)

LEMMA SaveForms ==
  ASSUME TypeOK, NEW r \in Reqs, Saves(r)
  PROVE  \E new \in Configs, l \in {"session", "done", "reply", "reload"} :
            /\ Save(r, new) /\ Loaded(r)
            /\ pc' = [pc EXCEPT ![r] = l]
            /\ UNCHANGED <<sessions, login, pair, minted, replies>>
            /\ cleared => cleared'
            /\ cleared' \in BOOLEAN
            /\ \/ /\ pc[r] # "save" /\ new.mcp = snap[r].mcp /\ cleared' = cleared
                  /\ l # "reply" /\ UNCHANGED <<codes, issued, lock>>
               \/ /\ pc[r] = "save" /\ new.mcp = pair[r] /\ cleared' = cleared
                  /\ codes' \in {codes, codes \cup {r}} /\ issued' \in SUBSET Reqs
                  /\ lock' \in {lock, None} /\ (lock' # None => lock' # r)
               \/ /\ pc[r] = "clear" /\ new.mcp = 0 /\ cleared'
                  /\ l # "reply" /\ UNCHANGED <<codes, issued, lock>>
  <1>0. cleared \in BOOLEAN /\ pair[r] \in Nat /\ issued \subseteq Reqs
    BY DEF TypeOK
  <1>1. CASE SaveDiag(r)
    <2>1. [snap[r] EXCEPT !.diag = TRUE] \in Configs /\ [snap[r] EXCEPT !.diag = TRUE].mcp = snap[r].mcp
      BY SavedConfigs
    <2>2. QED
      BY <1>0, <1>1, <2>1 DEF SaveDiag, Goto, Loaded, state
  <1>2. CASE SaveOther(r)
    <2>1. PICK d \in BOOLEAN : Save(r, [snap[r] EXCEPT !.diag = d])
      BY <1>2 DEF SaveOther
    <2>2. [snap[r] EXCEPT !.diag = d] \in Configs /\ [snap[r] EXCEPT !.diag = d].mcp = snap[r].mcp
      BY SavedConfigs
    <2>3. QED
      BY <1>0, <1>2, <2>1, <2>2 DEF SaveOther, Goto, Loaded, state
  <1>3. CASE ClearDiag(r)
    <2>1. [snap[r] EXCEPT !.diag = FALSE] \in Configs /\ [snap[r] EXCEPT !.diag = FALSE].mcp = snap[r].mcp
      BY SavedConfigs
    <2>2. QED
      BY <1>0, <1>3, <2>1 DEF ClearDiag, Goto, Loaded, state
  <1>4. CASE ClearMcp(r)
    <2>1. [snap[r] EXCEPT !.mcp = 0] \in Configs /\ [snap[r] EXCEPT !.mcp = 0].mcp = 0
      BY SavedConfigs
    <2>2. QED
      BY <1>0, <1>4, <2>1 DEF ClearMcp, Goto, Loaded, state
  <1>5. CASE SaveMint(r)
    <2>1. [snap[r] EXCEPT !.mcp = pair[r]] \in Configs /\ [snap[r] EXCEPT !.mcp = pair[r]].mcp = pair[r]
      BY <1>0, SavedConfigs
    <2>2. CASE lock = r
      <3>1. /\ codes' = codes \cup {r} /\ issued' = issued \cup {r} /\ lock' = None
            /\ pc' = [pc EXCEPT ![r] = "done"]
        BY <1>5, <2>2 DEF SaveMint, Goto
      <3>2. QED
        BY <1>0, <1>5, <2>1, <3>1 DEF SaveMint, Loaded
    <2>3. CASE lock # r
      <3>1. UNCHANGED <<codes, issued, lock>> /\ pc' = [pc EXCEPT ![r] = "reply"]
        BY <1>5, <2>3 DEF SaveMint, Goto
      <3>2. QED
        BY <1>0, <1>5, <2>1, <2>3, <3>1 DEF SaveMint, Loaded
    <2>4. QED
      BY <2>2, <2>3
  <1>6. QED
    BY <1>1, <1>2, <1>3, <1>4, <1>5 DEF Saves

LEMMA TypeStep == TypeOK /\ [Next]_vars => TypeOK'
  <1> SUFFICES ASSUME TypeOK, [Next]_vars PROVE TypeOK'
    OBVIOUS
  <1>1. ASSUME NEW r \in Reqs, Authorize(r) PROVE TypeOK'
    BY <1>1 DEF Authorize, TypeOK, Goto, state, ghosts, Configs, Replies
  <1>2. ASSUME NEW r \in Reqs, NEW k \in Reqs, Callback(r, k) PROVE TypeOK'
    BY <1>2 DEF Callback, TypeOK, Goto, state, ghosts, Configs, Replies
  <1>3. ASSUME NEW r \in Reqs, TakeSession(r) PROVE TypeOK'
    BY <1>3 DEF TakeSession, TypeOK, Goto, state, ghosts, Configs, Replies
  <1>4. ASSUME NEW r \in Reqs, LockCodes(r) PROVE TypeOK'
    BY <1>4 DEF LockCodes, TypeOK, Goto, state, ghosts, Configs, Replies
  <1>5. ASSUME NEW r \in Reqs, Mint(r) PROVE TypeOK'
    BY <1>5 DEF Mint, TypeOK, Goto, state, ghosts, Configs, Replies
  <1>6. ASSUME NEW r \in Reqs, NEW c \in issued, TokenCode(r, c) PROVE TypeOK'
    BY <1>6 DEF TokenCode, TypeOK, Goto, state, ghosts, Configs, Replies
  <1>7. ASSUME NEW r \in Reqs, NEW p \in replies, TokenRefresh(r, p.refresh) PROVE TypeOK'
    BY <1>7 DEF TokenRefresh, TypeOK, Goto, state, ghosts, Configs, Replies
  <1>8. ASSUME NEW r \in Reqs, Reply(r) PROVE TypeOK'
    BY <1>8 DEF Reply, TypeOK, Goto, state, ghosts, Configs, Replies
  <1>9. ASSUME NEW r \in Reqs, LoadOther(r) PROVE TypeOK'
    BY <1>9 DEF LoadOther, TypeOK, Goto, state, ghosts, Configs, Replies
  <1>10. ASSUME NEW r \in Reqs, LoadMcp(r) PROVE TypeOK'
    BY <1>10 DEF LoadMcp, TypeOK, Goto, state, ghosts, Configs, Replies
  <1>11. ASSUME NEW r \in Reqs, Saves(r) PROVE TypeOK'
    <2>1. PICK new \in Configs, l \in {"session", "done", "reply", "reload"} :
            /\ Save(r, new)
            /\ pc' = [pc EXCEPT ![r] = l]
            /\ UNCHANGED <<sessions, login, pair, minted, replies>>
            /\ cleared' \in BOOLEAN
            /\ codes' \in {codes, codes \cup {r}} /\ issued' \in SUBSET Reqs
            /\ lock' \in {lock, None}
            /\ lock' # None => lock' # r \/ pc[r] \notin {"mint", "save"}
      <3>1. issued \in SUBSET Reqs /\ (lock # None => pc[lock] \in {"mint", "save"})
        BY DEF TypeOK
      <3>2. PICK new \in Configs, l \in {"session", "done", "reply", "reload"} :
              /\ Save(r, new) /\ Loaded(r)
              /\ pc' = [pc EXCEPT ![r] = l]
              /\ UNCHANGED <<sessions, login, pair, minted, replies>>
              /\ cleared' \in BOOLEAN
              /\ \/ pc[r] # "save" /\ UNCHANGED <<codes, issued, lock>>
                 \/ /\ pc[r] = "save" /\ codes' \in {codes, codes \cup {r}} /\ issued' \in SUBSET Reqs
                    /\ lock' \in {lock, None} /\ (lock' # None => lock' # r)
        BY <1>11, <3>1, SaveForms
      <3>3. QED
        BY <3>1, <3>2 DEF Loaded
    <2>2. pc' \in [Reqs -> {"new", "lock", "login", "diag", "session", "mint", "save", "reply", "other",
                           "reload", "clear", "done"}]
      BY <2>1 DEF TypeOK
    <2>3. lock' # None => pc'[lock'] \in {"mint", "save"}
      BY <2>1 DEF TypeOK
    <2>4. QED
      BY <2>1, <2>2, <2>3, SaveEffect DEF TypeOK
  <1>12. CASE Restart
    BY <1>12 DEF Restart, TypeOK, ghosts, Unread, Configs
  <1>13. CASE UNCHANGED vars
    BY <1>13 DEF vars, ghosts, TypeOK
  <1>14. QED
    BY <1>1, <1>2, <1>3, <1>4, <1>5, <1>6, <1>7, <1>8, <1>9, <1>10, <1>11, <1>12, <1>13
    DEF Next, Step, Saves

LEMMA FreshStep == TypeOK /\ FreshPairs /\ [Next]_vars => FreshPairs'
  <1> SUFFICES ASSUME TypeOK, FreshPairs, [Next]_vars PROVE FreshPairs'
    OBVIOUS
  <1>1. ASSUME NEW r \in Reqs, Authorize(r) PROVE FreshPairs'
    BY <1>1 DEF Authorize, TypeOK, FreshPairs, Loaded, Goto, state, ghosts, Configs
  <1>2. ASSUME NEW r \in Reqs, NEW k \in Reqs, Callback(r, k) PROVE FreshPairs'
    BY <1>2 DEF Callback, TypeOK, FreshPairs, Loaded, Goto, state, ghosts, Configs
  <1>3. ASSUME NEW r \in Reqs, TakeSession(r) PROVE FreshPairs'
    BY <1>3 DEF TakeSession, TypeOK, FreshPairs, Loaded, Goto, state, ghosts, Configs
  <1>4. ASSUME NEW r \in Reqs, LockCodes(r) PROVE FreshPairs'
    BY <1>4 DEF LockCodes, TypeOK, FreshPairs, Loaded, Goto, state, ghosts, Configs
  <1>5. ASSUME NEW r \in Reqs, Mint(r) PROVE FreshPairs'
    BY <1>5 DEF Mint, TypeOK, FreshPairs, Loaded, Goto, state, ghosts, Configs
  <1>6. ASSUME NEW r \in Reqs, NEW c \in issued, TokenCode(r, c) PROVE FreshPairs'
    BY <1>6 DEF TokenCode, TypeOK, FreshPairs, Loaded, Goto, state, ghosts, Configs
  <1>7. ASSUME NEW r \in Reqs, NEW p \in replies, TokenRefresh(r, p.refresh) PROVE FreshPairs'
    BY <1>7 DEF TokenRefresh, TypeOK, FreshPairs, Loaded, Goto, state, ghosts, Configs
  <1>8. ASSUME NEW r \in Reqs, Reply(r) PROVE FreshPairs'
    BY <1>8 DEF Reply, TypeOK, FreshPairs, Loaded, Goto, state, ghosts, Configs
  <1>9. ASSUME NEW r \in Reqs, LoadOther(r) PROVE FreshPairs'
    BY <1>9 DEF LoadOther, TypeOK, FreshPairs, Loaded, Goto, state, ghosts, Configs
  <1>10. ASSUME NEW r \in Reqs, LoadMcp(r) PROVE FreshPairs'
    BY <1>10 DEF LoadMcp, TypeOK, FreshPairs, Loaded, Goto, state, ghosts, Configs
  <1>11. ASSUME NEW r \in Reqs, Saves(r) PROVE FreshPairs'
    <2>1. PICK new \in Configs, l \in {"session", "done", "reply", "reload"} :
            /\ Save(r, new) /\ pc' = [pc EXCEPT ![r] = l] /\ UNCHANGED <<pair, minted>>
            /\ \/ new.mcp = snap[r].mcp \/ new.mcp = 0
               \/ new.mcp = pair[r]
      BY <1>11, SaveForms
    <2>2. new.mcp <= minted /\ new.mcp \in Nat /\ newest <= minted /\ newest \in Nat /\ minted \in Nat
      BY <2>1, SavedConfigs DEF FreshPairs, TypeOK
    <2>3. config'.mcp <= newest' /\ newest' <= minted'
      BY <2>1, <2>2, SaveEffect DEF FreshPairs
    <2>4. \A q \in Reqs : snap'[q].mcp <= newest' /\ pair'[q] <= minted'
      <3>1. \A q \in Reqs : snap'[q] = (IF q = r THEN Unread ELSE snap[q])
        BY <2>1, SaveEffect DEF TypeOK
      <3>2. newest \in Nat /\ newest' \in Nat /\ newest <= newest' /\ Unread.mcp = 0
        BY <2>1, <2>2, SaveEffect, SavedConfigs
      <3>3. \A q \in Reqs : snap[q].mcp \in Nat /\ snap[q].mcp <= newest
        BY SavedConfigs DEF FreshPairs
      <3>4. QED
        BY <2>1, <3>1, <3>2, <3>3 DEF FreshPairs
    <2>5. ASSUME NEW q \in Reqs, q \notin stale', Loaded(q)' PROVE q # r /\ q \notin stale /\ config' = config
                                                          /\ newest' = newest /\ Loaded(q)
      <3>1. q # r
        BY <2>1, <2>5 DEF Loaded, TypeOK
      <3>2. Loaded(q)
        BY <2>1, <2>5, <3>1 DEF Loaded, TypeOK
      <3>3. CASE config' = new /\ new # config
        BY <2>1, <2>5, <3>1, <3>2, <3>3, SaveEffect
      <3>4. CASE config' = config
        <4>1. stale' = stale \ {r} \/ q \in stale'
          BY <2>1, <3>1, <3>2, <3>4, SaveEffect
        <4>2. newest' = newest
          BY <2>1, <2>2, <3>4, SaveEffect DEF FreshPairs
        <4>3. QED
          BY <2>5, <3>1, <3>2, <3>4, <4>1, <4>2
      <3>5. QED
        BY <2>1, <3>3, <3>4, SaveEffect
    <2>6. \A q \in Reqs \ stale' : Loaded(q)' => snap'[q] = config'
      BY <2>1, <2>5, SaveEffect DEF FreshPairs, TypeOK
    <2>7. \A q \in Reqs \ stale' : pc'[q] = "save" => newest' < pair'[q]
      BY <2>1, <2>5 DEF FreshPairs, TypeOK, Loaded
    <2>8. QED
      BY <2>3, <2>4, <2>6, <2>7 DEF FreshPairs
  <1>12. CASE Restart
    BY <1>12, SavedConfigs DEF Restart, TypeOK, FreshPairs, ghosts, Loaded
  <1>13. CASE UNCHANGED vars
    BY <1>13 DEF vars, ghosts, FreshPairs, Loaded
  <1>14. QED
    BY <1>1, <1>2, <1>3, <1>4, <1>5, <1>6, <1>7, <1>8, <1>9, <1>10, <1>11, <1>12, <1>13
    DEF Next, Step, Saves

LEMMA BookStep == TypeOK /\ Bookkeeping /\ [Next]_vars => Bookkeeping'
  <1> SUFFICES ASSUME TypeOK, Bookkeeping, [Next]_vars PROVE Bookkeeping'
    OBVIOUS
  <1>1. ASSUME NEW r \in Reqs, Authorize(r) PROVE Bookkeeping'
    BY <1>1, ReqsAssumption DEF Authorize, TypeOK, Bookkeeping, Goto, state, Replies
  <1>2. ASSUME NEW r \in Reqs, NEW k \in Reqs, Callback(r, k) PROVE Bookkeeping'
    BY <1>2, ReqsAssumption DEF Callback, TypeOK, Bookkeeping, Goto, state, Replies
  <1>3. ASSUME NEW r \in Reqs, TakeSession(r) PROVE Bookkeeping'
    BY <1>3, ReqsAssumption DEF TakeSession, TypeOK, Bookkeeping, Goto, state, Replies
  <1>4. ASSUME NEW r \in Reqs, LockCodes(r) PROVE Bookkeeping'
    BY <1>4, ReqsAssumption DEF LockCodes, TypeOK, Bookkeeping, Goto, state, Replies
  <1>5. ASSUME NEW r \in Reqs, Mint(r) PROVE Bookkeeping'
    BY <1>5, ReqsAssumption DEF Mint, TypeOK, Bookkeeping, Goto, state, Replies
  <1>6. ASSUME NEW r \in Reqs, NEW c \in issued, TokenCode(r, c) PROVE Bookkeeping'
    BY <1>6, ReqsAssumption DEF TokenCode, TypeOK, Bookkeeping, Goto, state, Replies
  <1>7. ASSUME NEW r \in Reqs, NEW p \in replies, TokenRefresh(r, p.refresh) PROVE Bookkeeping'
    BY <1>7, ReqsAssumption DEF TokenRefresh, TypeOK, Bookkeeping, Goto, state, Replies
  <1>8. ASSUME NEW r \in Reqs, Reply(r) PROVE Bookkeeping'
    BY <1>8, ReqsAssumption DEF Reply, TypeOK, Bookkeeping, Goto, state, Replies
  <1>9. ASSUME NEW r \in Reqs, LoadOther(r) PROVE Bookkeeping'
    BY <1>9, ReqsAssumption DEF LoadOther, TypeOK, Bookkeeping, Goto, state, Replies
  <1>10. ASSUME NEW r \in Reqs, LoadMcp(r) PROVE Bookkeeping'
    BY <1>10, ReqsAssumption DEF LoadMcp, TypeOK, Bookkeeping, Goto, state, Replies
  <1>11. ASSUME NEW r \in Reqs, SaveDiag(r) PROVE Bookkeeping'
    BY <1>11, ReqsAssumption DEF SaveDiag, TypeOK, Bookkeeping, Goto, state, Replies
  <1>12. ASSUME NEW r \in Reqs, SaveMint(r) PROVE Bookkeeping'
    BY <1>12, ReqsAssumption DEF SaveMint, TypeOK, Bookkeeping, Goto, state, Replies
  <1>13. ASSUME NEW r \in Reqs, SaveOther(r) \/ ClearDiag(r) \/ ClearMcp(r) PROVE Bookkeeping'
    BY <1>13, ReqsAssumption DEF SaveOther, ClearDiag, ClearMcp, TypeOK, Bookkeeping, Goto, state, Replies
  <1>14. CASE Restart
    BY <1>14, ReqsAssumption DEF Restart, TypeOK, Bookkeeping, Replies
  <1>15. CASE UNCHANGED vars
    BY <1>15 DEF vars, Bookkeeping
  <1>16. QED
    BY <1>1, <1>2, <1>3, <1>4, <1>5, <1>6, <1>7, <1>8, <1>9, <1>10, <1>11, <1>12, <1>13, <1>14, <1>15
    DEF Next, Step

LEMMA CarrierStep == TypeOK /\ Bookkeeping /\ OneCarrier /\ [Next]_vars => OneCarrier'
  <1> SUFFICES ASSUME TypeOK, Bookkeeping, OneCarrier, [Next]_vars PROVE OneCarrier'
    OBVIOUS
  <1>1. ASSUME NEW r \in Reqs, Authorize(r) PROVE OneCarrier'
    BY <1>1, ReqsAssumption DEF Authorize, TypeOK, Bookkeeping, OneCarrier, Carries, Goto, state, Replies
  <1>2. ASSUME NEW r \in Reqs, NEW k \in Reqs, Callback(r, k) PROVE OneCarrier'
    BY <1>2, ReqsAssumption DEF Callback, TypeOK, Bookkeeping, OneCarrier, Carries, Goto, state, Replies
  <1>3. ASSUME NEW r \in Reqs, TakeSession(r) PROVE OneCarrier'
    BY <1>3, ReqsAssumption DEF TakeSession, TypeOK, Bookkeeping, OneCarrier, Carries, Goto, state, Replies
  <1>4. ASSUME NEW r \in Reqs, LockCodes(r) PROVE OneCarrier'
    BY <1>4, ReqsAssumption DEF LockCodes, TypeOK, Bookkeeping, OneCarrier, Carries, Goto, state, Replies
  <1>5. ASSUME NEW r \in Reqs, Mint(r) PROVE OneCarrier'
    BY <1>5, ReqsAssumption DEF Mint, TypeOK, Bookkeeping, OneCarrier, Carries, Goto, state, Replies
  <1>6. ASSUME NEW r \in Reqs, NEW c \in issued, TokenCode(r, c) PROVE OneCarrier'
    BY <1>6, ReqsAssumption DEF TokenCode, TypeOK, Bookkeeping, OneCarrier, Carries, Goto, state, Replies
  <1>7. ASSUME NEW r \in Reqs, NEW p \in replies, TokenRefresh(r, p.refresh) PROVE OneCarrier'
    BY <1>7, ReqsAssumption DEF TokenRefresh, TypeOK, Bookkeeping, OneCarrier, Carries, Goto, state, Replies
  <1>8. ASSUME NEW r \in Reqs, Reply(r) PROVE OneCarrier'
    BY <1>8, ReqsAssumption DEF Reply, TypeOK, Bookkeeping, OneCarrier, Carries, Goto, state, Replies
  <1>9. ASSUME NEW r \in Reqs, LoadOther(r) PROVE OneCarrier'
    BY <1>9, ReqsAssumption DEF LoadOther, TypeOK, Bookkeeping, OneCarrier, Carries, Goto, state, Replies
  <1>10. ASSUME NEW r \in Reqs, LoadMcp(r) PROVE OneCarrier'
    BY <1>10, ReqsAssumption DEF LoadMcp, TypeOK, Bookkeeping, OneCarrier, Carries, Goto, state, Replies
  <1>11. ASSUME NEW r \in Reqs, SaveDiag(r) PROVE OneCarrier'
    BY <1>11, ReqsAssumption DEF SaveDiag, TypeOK, Bookkeeping, OneCarrier, Carries, Goto, state, Replies
  <1>12. ASSUME NEW r \in Reqs, SaveMint(r) PROVE OneCarrier'
    BY <1>12, ReqsAssumption DEF SaveMint, TypeOK, Bookkeeping, OneCarrier, Carries, Goto, state, Replies
  <1>13. ASSUME NEW r \in Reqs, SaveOther(r) \/ ClearDiag(r) \/ ClearMcp(r) PROVE OneCarrier'
    BY <1>13, ReqsAssumption DEF SaveOther, ClearDiag, ClearMcp, TypeOK, Bookkeeping, OneCarrier, Carries, Goto, state, Replies
  <1>14. CASE Restart
    BY <1>14, ReqsAssumption DEF Restart, TypeOK, OneCarrier, Carries
  <1>15. CASE UNCHANGED vars
    BY <1>15 DEF vars, OneCarrier, Carries
  <1>16. QED
    BY <1>1, <1>2, <1>3, <1>4, <1>5, <1>6, <1>7, <1>8, <1>9, <1>10, <1>11, <1>12, <1>13, <1>14, <1>15
    DEF Next, Step

\* A save that is no overlap keeps the newest pair in the config, or clears it.
LEMMA StoredSave ==
  ASSUME TypeOK, FreshPairs, StoredFirst, NEW r \in Reqs, Saves(r)
  PROVE  StoredFirst'
  <1>1. PICK new \in Configs, l \in {"session", "done", "reply", "reload"} :
          /\ Save(r, new) /\ Loaded(r)
          /\ pc' = [pc EXCEPT ![r] = l]
          /\ UNCHANGED <<pair, replies>>
          /\ cleared => cleared'
          /\ \/ new.mcp = snap[r].mcp /\ cleared' = cleared /\ l # "reply" /\ codes' = codes
             \/ /\ pc[r] = "save" /\ new.mcp = pair[r] /\ cleared' = cleared
                /\ codes' \in {codes, codes \cup {r}}
             \/ new.mcp = 0 /\ cleared' /\ l # "reply" /\ codes' = codes
    BY SaveForms
  <1>2. SUFFICES ASSUME ~overlapped', ~failed' PROVE StoredFirst'
    BY DEF StoredFirst
  <1>3. /\ ~overlapped /\ ~failed /\ r \notin stale
        /\ config' = new /\ newest' = (IF new.mcp > newest THEN new.mcp ELSE newest)
    BY <1>1, <1>2, SaveEffect
  <1>4. /\ config.mcp = newest \/ (config.mcp = 0 /\ cleared)
        /\ \A c \in codes : pair[c] <= newest
        /\ \A q \in Reqs : pc[q] = "reply" => pair[q] <= newest
        /\ \A p \in replies : p.access <= p.refresh \/ (p.refresh = 0 /\ cleared)
    BY <1>3 DEF StoredFirst
  <1>5. /\ snap[r] = config /\ (pc[r] = "save" => newest < pair[r])
        /\ newest \in Nat /\ newest' \in Nat /\ newest <= newest' /\ config.mcp <= newest
        /\ \A q \in Reqs : pair[q] \in Nat
    BY <1>1, <1>3, SaveEffect DEF FreshPairs, TypeOK
  <1>6. config'.mcp = newest' \/ (config'.mcp = 0 /\ cleared')
    <2>1. CASE new.mcp = snap[r].mcp /\ cleared' = cleared
      BY <1>3, <1>4, <1>5, <2>1, SavedConfigs
    <2>2. CASE pc[r] = "save" /\ new.mcp = pair[r]
      BY <1>3, <1>5, <2>2
    <2>3. CASE new.mcp = 0 /\ cleared'
      BY <1>3, <2>3
    <2>4. QED
      BY <1>1, <2>1, <2>2, <2>3
  <1>7. \A q \in Reqs : pair[q] <= newest => pair[q] <= newest'
    BY <1>5
  <1>8. pc[r] = "save" /\ new.mcp = pair[r] => pair[r] <= newest'
    BY <1>3, <1>5
  <1>9. \A c \in codes' : pair'[c] <= newest'
    BY <1>1, <1>4, <1>7, <1>8 DEF TypeOK
  <1>10. \A q \in Reqs : pc'[q] = "reply" => pair'[q] <= newest'
    BY <1>1, <1>4, <1>7, <1>8 DEF TypeOK
  <1>11. \A p \in replies' : p.access <= p.refresh \/ (p.refresh = 0 /\ cleared')
    BY <1>1, <1>4
  <1>12. QED
    BY <1>6, <1>9, <1>10, <1>11 DEF StoredFirst

LEMMA StoredStep == TypeOK /\ Bookkeeping /\ FreshPairs /\ StoredFirst /\ [Next]_vars => StoredFirst'
  <1> SUFFICES ASSUME TypeOK, Bookkeeping, FreshPairs, StoredFirst, [Next]_vars PROVE StoredFirst'
    OBVIOUS
  <1>1. ASSUME NEW r \in Reqs, Authorize(r) PROVE StoredFirst'
    BY <1>1 DEF Authorize, TypeOK, Bookkeeping, FreshPairs, StoredFirst, Goto, ghosts, state, Configs, Replies
  <1>2. ASSUME NEW r \in Reqs, NEW k \in Reqs, Callback(r, k) PROVE StoredFirst'
    BY <1>2 DEF Callback, TypeOK, Bookkeeping, FreshPairs, StoredFirst, Goto, ghosts, state, Configs, Replies
  <1>3. ASSUME NEW r \in Reqs, TakeSession(r) PROVE StoredFirst'
    BY <1>3 DEF TakeSession, TypeOK, Bookkeeping, FreshPairs, StoredFirst, Goto, ghosts, state, Configs, Replies
  <1>4. ASSUME NEW r \in Reqs, LockCodes(r) PROVE StoredFirst'
    BY <1>4 DEF LockCodes, TypeOK, Bookkeeping, FreshPairs, StoredFirst, Goto, ghosts, state, Configs, Replies
  <1>5. ASSUME NEW r \in Reqs, Mint(r) PROVE StoredFirst'
    BY <1>5 DEF Mint, TypeOK, Bookkeeping, FreshPairs, StoredFirst, Goto, ghosts, state, Configs, Replies
  <1>6. ASSUME NEW r \in Reqs, NEW c \in issued, TokenCode(r, c) PROVE StoredFirst'
    BY <1>6 DEF TokenCode, TypeOK, Bookkeeping, FreshPairs, StoredFirst, Goto, ghosts, state, Configs, Replies
  <1>7. ASSUME NEW r \in Reqs, NEW p \in replies, TokenRefresh(r, p.refresh) PROVE StoredFirst'
    BY <1>7 DEF TokenRefresh, TypeOK, Bookkeeping, FreshPairs, StoredFirst, Goto, ghosts, state, Configs, Replies
  <1>8. ASSUME NEW r \in Reqs, LoadOther(r) \/ LoadMcp(r) PROVE StoredFirst'
    BY <1>8 DEF LoadOther, LoadMcp, TypeOK, Bookkeeping, FreshPairs, StoredFirst, Goto, ghosts, state, Configs, Replies
  <1>9. ASSUME NEW r \in Reqs, Reply(r) PROVE StoredFirst'
    <2>1. PICK n \in {config.mcp, 0} :
            /\ failed' = (failed \/ n # config.mcp)
            /\ replies' = replies \cup
                 {[by |-> r, login |-> login[r], access |-> pair[r], refresh |-> n]}
      BY <1>9 DEF Reply
    <2>2. SUFFICES ASSUME ~overlapped', ~failed' PROVE StoredFirst'
      BY DEF StoredFirst
    <2>3. ~overlapped /\ ~failed /\ n = config.mcp
      BY <1>9, <2>1, <2>2 DEF Reply
    <2>4. /\ pc[r] = "reply" /\ config' = config /\ codes' = codes /\ pair' = pair
          /\ newest' = newest /\ cleared' = cleared
      BY <1>9 DEF Reply
    <2>5. \A q \in Reqs : pc'[q] = "reply" => pc[q] = "reply"
      BY <1>9 DEF Reply, Goto, TypeOK
    <2>6. pair[r] <= config.mcp \/ (config.mcp = 0 /\ cleared)
      BY <2>3, <2>4 DEF StoredFirst
    <2>7. ASSUME NEW p \in replies'
          PROVE  p.access <= p.refresh \/ (p.refresh = 0 /\ cleared)
      <3>1. CASE p \in replies
        BY <2>3, <3>1 DEF StoredFirst
      <3>2. CASE p = [by |-> r, login |-> login[r], access |-> pair[r], refresh |-> n]
        <4>1. p.access = pair[r] /\ p.refresh = n
          BY <3>2
        <4>2. QED
          BY <2>3, <2>6, <4>1
      <3>3. QED
        BY <2>1, <3>1, <3>2
    <2>8. QED
      BY <2>3, <2>4, <2>5, <2>7 DEF StoredFirst
  <1>10. ASSUME NEW r \in Reqs, Saves(r) PROVE StoredFirst'
    BY <1>10, StoredSave
  <1>11. CASE Restart
    BY <1>11 DEF Restart, ghosts, TypeOK, StoredFirst
  <1>12. CASE UNCHANGED vars
    BY <1>12 DEF vars, ghosts, StoredFirst
  <1>13. QED
    BY <1>1, <1>2, <1>3, <1>4, <1>5, <1>6, <1>7, <1>8, <1>9, <1>10, <1>11, <1>12
    DEF Next, Step, Saves

\* A mint makes a pair that nobody has, a redemption moves it, an answer spends it.
LEMMA PairStep == TypeOK /\ Bookkeeping /\ FreshPairs /\ OnePair /\ [Next]_vars => OnePair'
  <1> SUFFICES ASSUME TypeOK, Bookkeeping, FreshPairs, OnePair, [Next]_vars PROVE OnePair'
    OBVIOUS
  <1>1. ASSUME UNCHANGED <<pair, minted, replies>>, \A r \in Reqs : Holds(r)' => Holds(r) PROVE OnePair'
    BY <1>1 DEF OnePair
  <1>2. ASSUME NEW r \in Reqs,
               \/ Authorize(r) \/ (\E k \in Reqs : Callback(r, k)) \/ TakeSession(r)
               \/ LockCodes(r) \/ (\E p \in replies : TokenRefresh(r, p.refresh)) \/ LoadOther(r)
               \/ LoadMcp(r)
        PROVE  OnePair'
    <2>1. UNCHANGED <<pair, minted, replies, codes>>
      BY <1>2 DEF Authorize, Callback, TakeSession, LockCodes, TokenRefresh, LoadOther, LoadMcp, state
    <2>2. \E l \in {"lock", "login", "diag", "session", "done", "mint", "other", "clear"} :
             pc' = [pc EXCEPT ![r] = l]
      BY <1>2 DEF Authorize, Callback, TakeSession, LockCodes, TokenRefresh, LoadOther, LoadMcp, Goto
    <2>3. QED
      BY <1>1, <2>1, <2>2 DEF Holds, TypeOK
  <1>3. ASSUME NEW r \in Reqs, Mint(r) PROVE OnePair'
    <2>1. /\ minted' = minted + 1 /\ pair' = [pair EXCEPT ![r] = minted + 1]
          /\ pc' = [pc EXCEPT ![r] = "save"] /\ codes' = codes /\ replies' = replies
      BY <1>3 DEF Mint, Goto, state
    <2>2. \A s \in Reqs : s # r => pair'[s] = pair[s] /\ (Holds(s)' => Holds(s)) /\ pair[s] <= minted
      BY <2>1 DEF TypeOK, Holds, FreshPairs
    <2>3. pair'[r] = minted + 1 /\ minted \in Nat /\ \A s \in Reqs : pair[s] \in Nat
      BY <2>1 DEF TypeOK
    <2>4. \A s \in Reqs : s # r => pair'[s] # pair'[r]
      BY <2>2, <2>3
    <2>5. \A p \in replies : p.access \in Nat /\ p.access <= minted
      BY DEF OnePair, TypeOK, Replies
    <2>6. \A p \in replies : p.access <= minted' /\ p.access # pair'[r]
      BY <2>1, <2>3, <2>5
    <2>7. QED
      BY <2>1, <2>2, <2>4, <2>6 DEF OnePair
  <1>4. ASSUME NEW r \in Reqs, Saves(r) PROVE OnePair'
    <2>1. /\ UNCHANGED <<pair, minted, replies>>
          /\ codes' = codes \/ (codes' \subseteq codes \cup {r} /\ pc[r] = "save")
          /\ \E l \in {"session", "done", "reply", "reload"} :
               pc' = [pc EXCEPT ![r] = l] /\ (l = "reply" => pc[r] = "save")
      BY <1>4, SaveForms
    <2>2. QED
      BY <1>1, <2>1 DEF Holds, TypeOK
  <1>5. ASSUME NEW r \in Reqs, NEW c \in issued, TokenCode(r, c) PROVE OnePair'
    <2>1. /\ pc[r] = "new" /\ codes' = codes \ {c} /\ UNCHANGED <<minted, replies>>
          /\ c \in Reqs /\ pc[c] = "done" /\ r \notin codes
      BY <1>5 DEF TokenCode, TypeOK, Bookkeeping
    <2>2. CASE c \in codes
      <3>1. pair' = [pair EXCEPT ![r] = pair[c]] /\ pc' = [pc EXCEPT ![r] = "reply"]
        BY <1>5, <2>2 DEF TokenCode, Goto
      <3>2. /\ pair'[r] = pair[c] /\ Holds(c) /\ ~Holds(c)' /\ r # c
            /\ \A s \in Reqs : s # r => pair'[s] = pair[s] /\ (Holds(s)' => Holds(s))
        BY <2>1, <2>2, <3>1 DEF Holds, TypeOK
      <3>3. QED
        BY <2>1, <3>2 DEF OnePair
    <2>3. CASE c \notin codes
      BY <1>1, <1>5, <2>1, <2>3 DEF TokenCode, Goto, Holds, TypeOK
    <2>4. QED
      BY <2>2, <2>3
  <1>6. ASSUME NEW r \in Reqs, Reply(r) PROVE OnePair'
    <2>1. /\ pc[r] = "reply" /\ pc' = [pc EXCEPT ![r] = "done"] /\ UNCHANGED <<pair, minted, codes>>
          /\ r \notin codes
      BY <1>6 DEF Reply, Goto, Bookkeeping
    <2>2. Holds(r) /\ ~Holds(r)' /\ \A s \in Reqs : Holds(s)' => Holds(s) /\ s # r
      BY <2>1 DEF Holds, TypeOK
    <2>3. \A p \in replies' : p \in replies \/ p.access = pair[r]
      BY <1>6 DEF Reply
    <2>4. QED
      BY <2>1, <2>2, <2>3 DEF OnePair, FreshPairs
  <1>7. CASE Restart
    BY <1>1, <1>7 DEF Restart, Holds, TypeOK
  <1>8. CASE UNCHANGED vars
    BY <1>1, <1>8 DEF vars, Holds
  <1>9. QED
    BY <1>2, <1>3, <1>4, <1>5, <1>6, <1>7, <1>8 DEF Next, Step, Saves

LEMMA Invariance == Spec => []IInv
  <1>1. IInv /\ [Next]_vars => IInv'
    BY TypeStep, FreshStep, BookStep, CarrierStep, StoredStep, PairStep DEF IInv
  <1>2. QED
    BY InitInv, <1>1, PTL DEF Spec

-----------------------------------------------------------------------------
\* The proxy's variables are well typed; only a mint holds the code table.
THEOREM TypeCorrect == Spec => []TypeOK
  <1>1. IInv => TypeOK
    BY DEF IInv
  <1>2. QED
    BY Invariance, <1>1, PTL

\* Sessions are taken and codes are spent atomically: one login, one answer.
THEOREM LoginAnsweredOnce == Spec => []OneReplyPerLogin
  <1>1. IInv => OneReplyPerLogin
    BY DEF IInv, TypeOK, OneCarrier, Carries, Bookkeeping, OneReplyPerLogin, Replies
  <1>2. QED
    BY Invariance, <1>1, PTL

\* An access token is stored before it is handed out, and the refresh token is read
\* after it: it is the same pair's or a later one's, or auth_clear has removed the pair.
THEOREM RefreshIsNotOlder == Spec => []RefreshNotOlder
  <1>1. IInv => RefreshNotOlder
    BY DEF IInv, StoredFirst, RefreshNotOlder
  <1>2. QED
    BY Invariance, <1>1, PTL

\* A setter that is not stale leaves the stored pair alone, removes it, or replaces it by one
\* minted after all that were ever stored.
LEMMA SavesRotate ==
  ASSUME IInv, NEW r \in Reqs, Saves(r), ~overlapped'
  PROVE  /\ ~overlapped
         /\ \/ config'.mcp = config.mcp /\ newest' = newest
            \/ config'.mcp > newest /\ newest' = config'.mcp
            \/ config'.mcp = 0 /\ newest' = newest
  <1>1. PICK new \in Configs :
          /\ Save(r, new) /\ Loaded(r)
          /\ \/ new.mcp = snap[r].mcp
             \/ pc[r] = "save" /\ new.mcp = pair[r]
             \/ new.mcp = 0
    BY SaveForms DEF IInv
  <1>2. /\ config.mcp \in Nat /\ newest \in Nat /\ pair[r] \in Nat
        /\ config.mcp <= newest
        /\ r \notin stale => snap[r] = config /\ (pc[r] = "save" => newest < pair[r])
    BY <1>1, SavedConfigs DEF IInv, TypeOK, FreshPairs
  <1>3. CASE config' = config /\ newest' = newest
    BY <1>1, <1>3, SaveEffect DEF IInv
  <1>4. CASE /\ config' = new /\ r \notin stale
             /\ newest' = (IF new.mcp > newest THEN new.mcp ELSE newest)
    <2>1. CASE new.mcp = snap[r].mcp \/ new.mcp = 0
      BY <1>1, <1>2, <1>4, <2>1, SaveEffect DEF IInv
    <2>2. CASE pc[r] = "save" /\ new.mcp = pair[r]
      BY <1>1, <1>2, <1>4, <2>2, SaveEffect DEF IInv
    <2>3. QED
      BY <1>1, <2>1, <2>2
  <1>5. QED
    BY <1>1, <1>3, <1>4, SaveEffect DEF IInv

\* Only the setters touch the stored pair.
LEMMA OthersKeepPair ==
  ASSUME [Next]_vars
  PROVE  (config' = config /\ newest' = newest) \/ \E r \in Reqs : Saves(r)
  BY DEF Next, Step, Saves, vars, ghosts, Authorize, Callback, TakeSession, LockCodes, Mint, TokenCode,
         TokenRefresh, Reply, LoadOther, LoadMcp, Restart

\* A rotated pair does not come back unless a setter saves over a change it has not loaded.
THEOREM RotationIsFinal == Spec => PairsOnlyGetNewer
  <1>1. IInv /\ [Next]_vars
          => [~overlapped' => config'.mcp \in {config.mcp, 0} \/ config'.mcp > newest]_vars
    BY SavesRotate, OthersKeepPair
  <1>2. QED
    BY Invariance, <1>1, PTL DEF PairsOnlyGetNewer, Spec

-----------------------------------------------------------------------------
(* The refinement of TokenService.                                         *)

Answers == {Given(p) : p \in replies}

\* What is answered is new: the pair was held until now, and so was the login.
LEMMA ReplyGives ==
  ASSUME IInv, NEW r \in Reqs, Reply(r)
  PROVE  \E n \in {config.mcp, 0} :
           LET p == [by |-> r, login |-> login[r], access |-> pair[r], refresh |-> n]
           IN  /\ replies' = replies \cup {p} /\ Answers' = Answers \cup {Given(p)}
               /\ \A b \in Answers : /\ b.access # pair[r]
                                     /\ login[r] # None => b.login # login[r]
               /\ failed' = (failed \/ n # config.mcp)
  <1>1. PICK n \in {config.mcp, 0} :
          /\ failed' = (failed \/ n # config.mcp)
          /\ replies' = replies \cup {[by |-> r, login |-> login[r], access |-> pair[r], refresh |-> n]}
    BY DEF Reply
  <1>2. pc[r] = "reply" /\ Holds(r)
    BY DEF Reply, Holds
  <1>3. \A p \in replies : p.access # pair[r]
    BY <1>2 DEF IInv, OnePair
  <1>4. ASSUME NEW p \in replies, login[r] # None PROVE p.login # login[r]
    <2>1. p.by \in Reqs /\ p.login = login[p.by] /\ pc[p.by] = "done"
      BY DEF IInv, TypeOK, Replies, Bookkeeping
    <2>2. SUFFICES ASSUME p.login = login[r] PROVE FALSE
      OBVIOUS
    <2>3. Carries(p.by) /\ Carries(r)
      BY <1>2, <1>4, <2>1, <2>2 DEF Carries
    <2>4. QED
      BY <1>2, <2>1, <2>2, <2>3 DEF IInv, OneCarrier
  <1>5. \A b \in Answers : b.access # pair[r] /\ (login[r] # None => b.login # login[r])
    BY <1>3, <1>4 DEF Answers, Given
  <1>6. QED
    BY <1>1, <1>5 DEF Answers

\* What has overlapped or failed is not undone.
LEMMA FlagsStay == TypeOK /\ [Next]_vars => (overlapped => overlapped') /\ (failed => failed')
  <1> SUFFICES ASSUME TypeOK, [Next]_vars PROVE (overlapped => overlapped') /\ (failed => failed')
    OBVIOUS
  <1>1. CASE UNCHANGED <<overlapped, failed>>
    BY <1>1
  <1>2. ASSUME NEW r \in Reqs, Saves(r)
        PROVE  (overlapped => overlapped') /\ (failed => failed')
    BY <1>2, SaveForms, SaveEffect
  <1>3. ASSUME NEW r \in Reqs, Reply(r)
        PROVE  (overlapped => overlapped') /\ (failed => failed')
    BY <1>3 DEF Reply
  <1>4. QED
    BY <1>1, <1>2, <1>3
    DEF Next, Step, Saves, vars, ghosts, Authorize, Callback, TakeSession, LockCodes, Mint, TokenCode,
        TokenRefresh, LoadOther, LoadMcp, Restart

LEMMA TokenStep ==
  IInv /\ [Next]_vars
    => [Tokens!Next]_<<config.mcp, newest, {Given(p) : p \in replies}, overlapped \/ failed>>
  <1> DEFINE Goal == Tokens!Next \/ UNCHANGED <<config.mcp, newest, Answers, overlapped \/ failed>>
  <1> SUFFICES ASSUME IInv, [Next]_vars PROVE Goal
    BY DEF Answers
  <1>1. ASSUME NEW r \in Reqs, Reply(r) PROVE Tokens!Next
    <2>1. PICK n \in {config.mcp, 0} :
            LET p == [by |-> r, login |-> login[r], access |-> pair[r], refresh |-> n]
            IN  /\ replies' = replies \cup {p} /\ Answers' = Answers \cup {Given(p)}
                /\ \A b \in Answers : /\ b.access # pair[r]
                                      /\ login[r] # None => b.login # login[r]
                /\ failed' = (failed \/ n # config.mcp)
      BY <1>1, ReplyGives
    <2> DEFINE a == [login |-> login[r], access |-> pair[r], refresh |-> n]
    <2>2. Answers' = Answers \cup {a}
      BY <2>1 DEF Given
    <2>3. a \in Answers' /\ Tokens!Give(a)
      BY <2>1, <2>2 DEF Tokens!Give, Tokens!New, Answers
    <2>4. config' = config /\ newest' = newest /\ overlapped' = overlapped
      BY <1>1 DEF Reply
    <2>5. CASE overlapped' \/ failed'
      BY <2>3, <2>5 DEF Tokens!Next, Tokens!Disorder, Answers
    <2>6. CASE ~overlapped' /\ ~failed'
      <3>1. ~overlapped /\ ~failed /\ n = config.mcp
        BY <2>1, <2>4, <2>6
      <3>2. a.access <= newest /\ a.refresh = config.mcp
        BY <1>1, <3>1 DEF Reply, IInv, StoredFirst
      <3>3. Tokens!Answer
        BY <2>3, <2>4, <2>6, <3>1, <3>2 DEF Tokens!Answer, Answers
      <3>4. QED
        BY <3>1, <3>3 DEF Tokens!Next
    <2>7. QED
      BY <2>5, <2>6
  <1>2. CASE UNCHANGED replies
    <2>1. Answers' = Answers
      BY <1>2 DEF Answers
    <2>2. CASE overlapped' \/ failed'
      BY <2>1, <2>2 DEF Tokens!Next, Tokens!Disorder, Answers
    <2>3. CASE ~overlapped' /\ ~failed'
      <3>1. ~overlapped /\ ~failed
        BY <2>3, FlagsStay DEF IInv
      <3>2. \/ config'.mcp = config.mcp /\ newest' = newest
            \/ config'.mcp > newest /\ newest' = config'.mcp
            \/ config'.mcp = 0 /\ newest' = newest
        BY <2>3, SavesRotate, OthersKeepPair
      <3>3. QED
        BY <2>1, <2>3, <3>1, <3>2 DEF Tokens!Next, Tokens!Rotate, Tokens!Clear, Answers
    <2>4. QED
      BY <2>2, <2>3
  <1>3. QED
    BY <1>1, <1>2, SaveForms
    DEF IInv, Next, Step, Saves, Authorize, Callback, TakeSession, LockCodes, Mint, TokenCode,
        TokenRefresh, LoadOther, LoadMcp, Restart, vars, state

\* The handlers, their locks and the config file implement a token service that rotates and
\* answers in single steps, until two setters overlap or a read or a save fails.
THEOREM TokensInOrder == Spec => ImplementsTokens
  <1>1. Init => Tokens!Init
    BY DEF Init, Tokens!Init
  <1>2. QED
    BY Invariance, <1>1, TokenStep, PTL DEF Spec, ImplementsTokens, Tokens!Spec

-----------------------------------------------------------------------------
(* How the server comes to run: InitDaemon.                                *)

\* RunningIsKept needs to know whose the port can be, and OneServes that a process which
\* ends lets go of the port: the three are inductive together.
DaemonIInv == DaemonTypeOK /\ RunningIsKept /\ OneServes

LEMMA DaemonInitInv == DaemonInit => DaemonIInv
  BY InitsAssumption DEF DaemonInit, DaemonIInv, DaemonTypeOK, RunningIsKept, OneServes

LEMMA DaemonOnePollMore == \A n \in 0..Polls : n < Polls => n + 1 \in 0..Polls
  BY InitsAssumption

LEMMA DaemonTypeStep == DaemonTypeOK /\ [DaemonNext]_daemonVars => DaemonTypeOK'
  <1> SUFFICES ASSUME DaemonTypeOK, [DaemonNext]_daemonVars PROVE DaemonTypeOK'
    OBVIOUS
  <1> USE DEF DaemonTypeOK
  <1>1. ASSUME NEW i \in Inits, Setup(i) \/ LoginFails(i) \/ Interrupt(i)
        PROVE  DaemonTypeOK'
    BY <1>1 DEF Setup, Login, KeepConfig, WriteDevice, NoDevice, Register, LoginFails, Interrupt, Tell,
                Move
  <1>2. ASSUME NEW i \in Inits, Spawn(i) PROVE DaemonTypeOK'
    BY <1>2 DEF Spawn, Move, Servers
  <1>3. ASSUME NEW i \in Inits, AlreadyUp(i) \/ SpawnFails(i) PROVE DaemonTypeOK'
    BY <1>3 DEF AlreadyUp, SpawnFails, TellUp, Tell, Move
  <1>4. ASSUME NEW i \in Inits, Poll(i) PROVE DaemonTypeOK'
    <2>1. polls[i] \in 0..Polls
      BY <1>4
    <2>2. polls[i] < Polls => polls[i] + 1 \in 0..Polls
      BY <2>1, DaemonOnePollMore
    <2>3. polls' \in [Inits -> 0..Polls]
      BY <1>4, <2>2 DEF Poll
    <2>4. told' \in [Inits -> {"nothing", "no login", "exists", "failed", "running", "run nff mcp"}]
          /\ at' \in [Inits -> {"new", "guard", "register", "probe", "poll", "done"}] /\ kept' \in SUBSET Inits
      BY <1>4 DEF Poll, TellUp, Tell, Move
    <2>5. QED
      BY <1>4, <2>3, <2>4 DEF Poll
  <1>5. ASSUME NEW m \in Manuals, Launch(m) PROVE DaemonTypeOK'
    BY <1>5 DEF Launch
  <1>6. ASSUME NEW s \in Servers, Serve(s) PROVE DaemonTypeOK'
    BY <1>6 DEF Serve, Look, Bind
  <1>7. CASE Ends
    BY <1>7 DEF Ends, Reboot, End
  <1>8. CASE Logout \/ OtherPort
    BY <1>8 DEF Logout, OtherPort
  <1>9. CASE UNCHANGED daemonVars
    BY <1>9 DEF daemonVars
  <1>10. QED
    BY <1>1, <1>2, <1>3, <1>4, <1>5, <1>6, <1>7, <1>8, <1>9 DEF DaemonNext, Start

\* Each of these steps leaves the port and its user alone, or hands both over together.
LEMMA DaemonPortStep == DaemonIInv /\ [DaemonNext]_daemonVars => OneServes'
  <1> SUFFICES ASSUME DaemonIInv, [DaemonNext]_daemonVars PROVE OneServes'
    OBVIOUS
  <1> USE InitsAssumption DEF DaemonIInv, DaemonTypeOK, OneServes
  <1>1. ASSUME NEW i \in Inits, \/ Setup(i) \/ LoginFails(i) \/ Interrupt(i)
                               \/ AlreadyUp(i) \/ SpawnFails(i) \/ Poll(i)
        PROVE  OneServes'
    <2>1. UNCHANGED <<port, server>>
      BY <1>1 DEF Setup, Login, KeepConfig, WriteDevice, NoDevice, Register, LoginFails, Interrupt,
                  AlreadyUp, SpawnFails, Poll
    <2>2. QED
      BY <2>1
  <1>2. ASSUME NEW i \in Inits, Spawn(i) PROVE OneServes'
    BY <1>2 DEF Spawn, IsRunning, Servers
  <1>3. ASSUME NEW m \in Manuals, Launch(m) PROVE OneServes'
    BY <1>3 DEF Launch, Servers
  <1>4. ASSUME NEW s \in Servers, Look(s) PROVE OneServes'
    BY <1>4 DEF Look
  <1>5. ASSUME NEW s \in Servers, Bind(s) PROVE OneServes'
    BY <1>5 DEF Bind
  <1>6. ASSUME NEW s \in Servers, End(s) PROVE OneServes'
    BY <1>6 DEF End
  <1>7. CASE Reboot
    BY <1>7 DEF Reboot
  <1>8. CASE OtherPort
    BY <1>8 DEF OtherPort
  <1>9. CASE Logout \/ UNCHANGED daemonVars
    BY <1>9 DEF Logout, daemonVars
  <1>10. QED
    BY <1>1, <1>2, <1>3, <1>4, <1>5, <1>6, <1>7, <1>8, <1>9 DEF DaemonNext, Start, Serve, Ends

\* Who leaves the port takes the promises with it, and no other program gets in before.
LEMMA DaemonKeptStep == DaemonIInv /\ [DaemonNext]_daemonVars => RunningIsKept'
  <1> SUFFICES ASSUME DaemonIInv, [DaemonNext]_daemonVars PROVE RunningIsKept'
    OBVIOUS
  <1> USE InitsAssumption DEF DaemonIInv, DaemonTypeOK, RunningIsKept
  <1>1. ASSUME NEW i \in Inits, \/ Setup(i) \/ LoginFails(i) \/ Interrupt(i)
                               \/ Spawn(i) \/ SpawnFails(i)
        PROVE  RunningIsKept'
    <2>1. UNCHANGED <<port, kept>>
      BY <1>1 DEF Setup, Login, KeepConfig, WriteDevice, NoDevice, Register, LoginFails, Interrupt, Spawn,
                  SpawnFails
    <2>2. QED
      BY <2>1
  <1>2. ASSUME NEW i \in Inits, AlreadyUp(i) \/ Poll(i) PROVE RunningIsKept'
    BY <1>2 DEF AlreadyUp, Poll, TellUp, IsRunning
  <1>3. ASSUME NEW s \in Servers, Serve(s) PROVE RunningIsKept'
    BY <1>3 DEF Serve, Look, Bind
  <1>4. ASSUME NEW s \in Servers, End(s) PROVE RunningIsKept'
    BY <1>4 DEF End
  <1>5. CASE Reboot
    BY <1>5 DEF Reboot
  <1>6. CASE OtherPort
    BY <1>6 DEF OtherPort
  <1>7. CASE Logout \/ (\E m \in Manuals : Launch(m)) \/ UNCHANGED daemonVars
    BY <1>7 DEF Logout, Launch, daemonVars
  <1>8. QED
    BY <1>1, <1>2, <1>3, <1>4, <1>5, <1>6, <1>7 DEF DaemonNext, Start, Ends

LEMMA DaemonInvariance == DaemonSpec => []DaemonIInv
  <1>1. DaemonIInv /\ [DaemonNext]_daemonVars => DaemonIInv'
    BY DaemonTypeStep, DaemonPortStep, DaemonKeptStep DEF DaemonIInv
  <1>2. QED
    BY DaemonInitInv, <1>1, PTL DEF DaemonSpec

\* Every variable keeps its type, for any constants.
THEOREM DaemonTypeCorrect == DaemonSpec => []DaemonTypeOK
  BY DaemonInvariance, PTL DEF DaemonIInv

\* However many inits and servers race, the one that serves is the one on the port.
THEOREM DaemonOneOnThePort == DaemonSpec => []OneServes
  BY DaemonInvariance, PTL DEF DaemonIInv

\* "Server running" stays true until that server is ended.
THEOREM DaemonPromiseKept == DaemonSpec => []RunningIsKept
  BY DaemonInvariance, PTL DEF DaemonIInv

-----------------------------------------------------------------------------
(* The refinement of OneServer.                                            *)

Serving == {s \in Servers : server[s] = "serving"}

\* A process serves exactly while an nff server has the port.
LEMMA ServingIsOnPort ==
  ASSUME DaemonIInv
  PROVE  Serving = IF port \in Servers THEN {port} ELSE {}
  BY DEF Serving, DaemonIInv, OneServes

\* The user is promised a server only while one serves; a stranger on the port is none.
LEMMA TellingPromises ==
  ASSUME DaemonIInv, NEW i \in Inits,
         IsRunning, TellUp(i), server' = server
  PROVE  Single!Promise(i) \/ UNCHANGED <<Serving, kept>>
  <1>1. Serving' = Serving
    BY DEF Serving
  <1>2. CASE port = Other
    BY <1>1, <1>2 DEF TellUp
  <1>3. CASE port # Other
    <2>1. Serving = {port} /\ kept' = kept \cup {i}
      BY <1>3, ServingIsOnPort DEF TellUp, IsRunning, DaemonIInv, DaemonTypeOK
    <2>2. QED
      BY <1>1, <2>1 DEF Single!Promise, Serving
  <1>4. QED
    BY <1>2, <1>3

LEMMA BindBegins ==
  ASSUME DaemonIInv, NEW s \in Servers, Bind(s)
  PROVE  Single!Begin(s) \/ UNCHANGED <<Serving, kept>>
  <1>1. server[s] = "binding" /\ kept' = kept
    BY DEF Bind
  <1>2. CASE port = Nobody
    <2>1. server' = [server EXCEPT ![s] = "serving"]
      BY <1>2 DEF Bind
    <2>2. Serving = {}
      BY <1>2, ServingIsOnPort, InitsAssumption
    <2>3. Serving' = {s}
      BY <2>1, <2>2 DEF Serving, DaemonIInv, DaemonTypeOK
    <2>4. QED
      BY <1>1, <2>2, <2>3 DEF Single!Begin, Serving
  <1>3. CASE port # Nobody
    <2>1. server' = [server EXCEPT ![s] = "ended"]
      BY <1>3 DEF Bind
    <2>2. Serving' = Serving
      BY <1>1, <2>1 DEF Serving, DaemonIInv, DaemonTypeOK
    <2>3. QED
      BY <1>1, <2>2
  <1>4. QED
    BY <1>2, <1>3

\* Whatever ends the process on the port ends the promises with it; the end of any other
\* process does not show.
LEMMA EndsFinish ==
  ASSUME DaemonIInv, Ends
  PROVE  Single!Finish \/ UNCHANGED <<Serving, kept>>
  <1>1. CASE Reboot
    <2>1. Serving' = {} /\ kept' = {}
      BY <1>1 DEF Reboot, Serving
    <2>2. CASE port \in Servers
      BY <2>1, <2>2, ServingIsOnPort DEF Single!Finish, Serving
    <2>3. CASE port \notin Servers
      BY <2>1, <2>3, ServingIsOnPort DEF DaemonIInv, RunningIsKept
    <2>4. QED
      BY <2>2, <2>3
  <1>2. ASSUME NEW s \in Servers, End(s)
        PROVE  Single!Finish \/ UNCHANGED <<Serving, kept>>
    <2>1. server' = [server EXCEPT ![s] = "ended"]
      BY <1>2 DEF End
    <2>2. Serving' = Serving \ {s}
      BY <2>1 DEF Serving, DaemonIInv, DaemonTypeOK
    <2>3. CASE port = s
      <3>1. Serving = {s} /\ Serving' = {} /\ kept' = {}
        BY <1>2, <2>2, <2>3, ServingIsOnPort DEF End
      <3>2. QED
        BY <3>1 DEF Single!Finish, Serving
    <2>4. CASE port # s
      <3>1. s \notin Serving /\ kept' = kept
        BY <1>2, <2>4, ServingIsOnPort DEF End
      <3>2. QED
        BY <2>2, <3>1
    <2>5. QED
      BY <2>3, <2>4
  <1>3. QED
    BY <1>1, <1>2 DEF Ends

LEMMA OneServerStep == DaemonIInv /\ [DaemonNext]_daemonVars
           => [Single!Next]_<<{s \in Servers : server[s] = "serving"}, kept>>
  <1> DEFINE Goal == Single!Next \/ UNCHANGED <<Serving, kept>>
  <1> SUFFICES ASSUME DaemonIInv, [DaemonNext]_daemonVars PROVE Goal
    BY DEF Serving
  <1>1. ASSUME NEW i \in Inits, AlreadyUp(i) \/ Poll(i) PROVE Goal
    <2>1. CASE IsRunning /\ TellUp(i)
      BY <1>1, <2>1, TellingPromises DEF AlreadyUp, Poll, Single!Next
    <2>2. CASE ~(IsRunning /\ TellUp(i))
      BY <1>1, <2>2 DEF AlreadyUp, Poll, Serving
    <2>3. QED
      BY <2>1, <2>2
  <1>2. ASSUME NEW s \in Servers, Bind(s) PROVE Goal
    BY <1>2, BindBegins DEF Single!Next
  <1>3. CASE Ends
    BY <1>3, EndsFinish DEF Single!Next
  <1>4. ASSUME NEW s \in Servers, NEW l \in {"starting", "binding", "ended"},
               server[s] # "serving", server' = [server EXCEPT ![s] = l], kept' = kept
        PROVE  Goal
    BY <1>4 DEF Serving, DaemonIInv, DaemonTypeOK
  <1>5. ASSUME NEW s \in Servers, Look(s) PROVE Goal
    <2>1. PICK l \in {"binding", "ended"} : server' = [server EXCEPT ![s] = l]
      BY <1>5 DEF Look
    <2>2. QED
      BY <1>4, <1>5, <2>1 DEF Look
  <1>6. ASSUME NEW m \in Manuals, Launch(m) PROVE Goal
    BY <1>4, <1>6 DEF Launch, Servers
  <1>7. ASSUME NEW i \in Inits, Spawn(i) PROVE Goal
    <2>1. server[i] # "serving"
      <3>1. port \notin Servers
        BY <1>7, InitsAssumption DEF Spawn, IsRunning
      <3>2. QED
        BY <3>1 DEF DaemonIInv, OneServes, Servers
    <2>2. QED
      BY <1>4, <1>7, <2>1 DEF Spawn, Servers
  <1>8. CASE \/ \E i \in Inits : \/ Setup(i) \/ LoginFails(i) \/ SpawnFails(i)
                                 \/ Interrupt(i)
             \/ Logout \/ OtherPort \/ UNCHANGED daemonVars
    <2>1. UNCHANGED <<server, kept>>
      BY <1>8 DEF Setup, Login, KeepConfig, WriteDevice, NoDevice, Register, LoginFails, SpawnFails,
                  Interrupt, Logout, OtherPort, daemonVars
    <2>2. QED
      BY <2>1 DEF Serving
  <1>9. QED
    BY <1>1, <1>2, <1>3, <1>5, <1>6, <1>7, <1>8 DEF DaemonNext, Start, Serve

\* Looks, binds, polls and spawned processes, of any number of commands, implement one
\* server after the other, and promises that last as long as the server they are about.
THEOREM DaemonOneAtATime == DaemonSpec => ImplementsOneServer
  <1>1. DaemonInit => Single!Init
    BY DEF DaemonInit, Single!Init
  <1>2. QED
    BY DaemonInvariance, <1>1, OneServerStep, PTL
       DEF DaemonSpec, ImplementsOneServer, Single!Spec
=============================================================================
