------------------------- MODULE DiagnosisAuthProofs -------------------------
(***************************************************************************)
(* For any number of operations: what is stored is good or about to be     *)
(* replaced, and a repair clears only what the server has refused.         *)
(***************************************************************************)
EXTENDS DiagnosisAuth, TLAPS

\* Operation r has a pair that nobody has stored.
Holds(r) == pair[r] # 0 /\ pc[r] \in {"listen", "accept", "late", "store", "keep"}

\* No pair is newer than the last one issued.
Numbered ==
  /\ stored <= issued
  /\ \A n \in refresh \cup urls : n <= issued
  /\ \A r \in Ops : seen[r] <= issued /\ pair[r] <= issued
  /\ \A r \in Ops : pc[r] \in {"new", "call", "refresh"} => pair[r] = 0
  /\ \A r \in Ops : pc[r] = "keep" => pair[r] # 0 /\ pair[r] \notin urls

\* A pair that one operation holds is known to it alone, unless it is in a URL.
Unshared ==
  \A r \in Ops : Holds(r) /\ pair[r] \notin urls =>
    /\ pair[r] # stored
    /\ pair[r] \in refresh \cup ended
    /\ \A q \in Ops : pair[r] # seen[q]
    /\ \A q \in Ops : pair[q] = pair[r] => q = r

\* A repair about to clear has been refused.
Refused == ~lost => \A r \in Ops : pc[r] = "clear" => seen[r] \notin refresh

IInv == TypeOK /\ Numbered /\ Unshared /\ Refused /\ StoredIsGood

-----------------------------------------------------------------------------
LEMMA InitInv == Init => IInv
  <1> SUFFICES ASSUME Init PROVE IInv
    OBVIOUS
  <1>1. TypeOK
    BY OpsAssumption DEF Init, TypeOK
  <1>2. Numbered /\ Unshared
    BY DEF Init, Numbered, Unshared, Holds
  <1>3. Refused /\ StoredIsGood
    BY DEF Init, Refused, StoredIsGood
  <1>4. QED
    BY <1>1, <1>2, <1>3 DEF IInv

\* What a write of the config leaves has the types of its variables.
LEMMA WriteTypes ==
  ASSUME TypeOK, NEW n \in Nat, NEW cross \in BOOLEAN, Write(n, cross)
  PROVE  stored' \in Nat /\ crossed' \in BOOLEAN /\ stale' \in BOOLEAN
  <1>1. crossed \in BOOLEAN /\ stale \in BOOLEAN /\ stored \in Nat
    BY DEF TypeOK
  <1>2. CASE /\ stored' = n /\ crossed' = (crossed \/ cross)
             /\ stale' = (n \in urls /\ n \notin refresh \cup ended)
    BY <1>1, <1>2
  <1>3. CASE UNCHANGED <<stored, crossed, stale>>
    BY <1>1, <1>3
  <1>4. QED
    BY <1>2, <1>3 DEF Write

LEMMA TypeStep == TypeOK /\ [Next]_vars => TypeOK'
  <1> SUFFICES ASSUME TypeOK, [Next]_vars PROVE TypeOK'
    OBVIOUS
  <1>1. ASSUME NEW r \in Ops, Authenticate(r) PROVE TypeOK'
    BY <1>1, OpsAssumption DEF Authenticate, server, TypeOK
  <1>2. ASSUME NEW r \in Ops, CompleteAuthentication(r) PROVE TypeOK'
    BY <1>2, OpsAssumption DEF CompleteAuthentication, Goto, server, TypeOK
  <1>3. ASSUME NEW r \in Ops, WaitForLogin(r) PROVE TypeOK'
    BY <1>3, OpsAssumption DEF WaitForLogin, Goto, server, TypeOK
  <1>4. ASSUME NEW r \in Ops, SignIn(r) PROVE TypeOK'
    BY <1>4, OpsAssumption DEF SignIn, Goto, Issue, server, TypeOK
  <1>5. ASSUME NEW r \in Ops, Accept(r) PROVE TypeOK'
    BY <1>5, OpsAssumption DEF Accept, Goto, server, TypeOK
  <1>6. ASSUME NEW r \in Ops, AcceptFails(r) PROVE TypeOK'
    BY <1>6, OpsAssumption DEF AcceptFails, Goto, server, TypeOK
  <1>7. ASSUME NEW r \in Ops, WaitTimesOut(r) PROVE TypeOK'
    BY <1>7, OpsAssumption DEF WaitTimesOut, Goto, server, TypeOK
  <1>8. ASSUME NEW r \in Ops, DirectLogin(r) PROVE TypeOK'
    BY <1>8, OpsAssumption DEF DirectLogin, Goto, Issue, server, TypeOK
  <1>9. ASSUME NEW r \in Ops, StoreLogin(r) PROVE TypeOK'
    <2>1. stored' \in Nat /\ crossed' \in BOOLEAN /\ stale' \in BOOLEAN
      <3>1. pair[r] \in Nat /\ (FALSE) \in BOOLEAN /\ Write(pair[r], FALSE)
        BY <1>9 DEF StoreLogin, TypeOK
      <3>2. QED
        BY <3>1, WriteTypes
    <2>2. QED
      BY <1>9, <2>1, OpsAssumption DEF StoreLogin, Goto, server, TypeOK
  <1>10. ASSUME NEW r \in Ops, StartCall(r) PROVE TypeOK'
    BY <1>10, OpsAssumption DEF StartCall, Goto, server, TypeOK
  <1>11. ASSUME NEW r \in Ops, Call(r) PROVE TypeOK'
    BY <1>11, OpsAssumption DEF Call, Goto, server, TypeOK
  <1>12. ASSUME NEW r \in Ops, RefreshGranted(r) PROVE TypeOK'
    <2>1. issued' \in Nat /\ pair' \in [Ops -> Nat] /\ refresh' \in SUBSET Nat
      BY <1>12 DEF RefreshGranted, Issue, TypeOK
    <2>2. QED
      BY <1>12, <2>1, OpsAssumption DEF RefreshGranted, Goto, TypeOK
  <1>13. ASSUME NEW r \in Ops, RefreshFails(r) PROVE TypeOK'
    BY <1>13, OpsAssumption DEF RefreshFails, Goto, server, TypeOK
  <1>14. ASSUME NEW r \in Ops, KeepRefreshed(r) PROVE TypeOK'
    <2>1. stored' \in Nat /\ crossed' \in BOOLEAN /\ stale' \in BOOLEAN
      <3>1. pair[r] \in Nat /\ (stored # seen[r]) \in BOOLEAN /\ Write(pair[r], stored # seen[r])
        BY <1>14 DEF KeepRefreshed, TypeOK
      <3>2. QED
        BY <3>1, WriteTypes
    <2>2. lost' \in BOOLEAN
      BY <1>14 DEF KeepRefreshed, TypeOK
    <2>3. QED
      BY <1>14, <2>1, <2>2, OpsAssumption DEF KeepRefreshed, Goto, server, TypeOK
  <1>15. ASSUME NEW r \in Ops, ClearRefused(r) PROVE TypeOK'
    <2>1. stored' \in Nat /\ crossed' \in BOOLEAN /\ stale' \in BOOLEAN
      <3>1. 0 \in Nat /\ (stored # seen[r]) \in BOOLEAN /\ Write(0, stored # seen[r])
        BY <1>15 DEF ClearRefused, TypeOK
      <3>2. QED
        BY <3>1, WriteTypes
    <2>2. QED
      BY <1>15, <2>1, OpsAssumption DEF ClearRefused, Goto, server, TypeOK
  <1>16. ASSUME NEW r \in Ops, StartLogout(r) PROVE TypeOK'
    BY <1>16, OpsAssumption DEF StartLogout, Goto, server, TypeOK
  <1>17. ASSUME NEW r \in Ops, TellServer(r) PROVE TypeOK'
    BY <1>17, OpsAssumption DEF TellServer, Goto, server, TypeOK
  <1>18. ASSUME NEW r \in Ops, Forget(r) PROVE TypeOK'
    <2>1. stored' \in Nat /\ crossed' \in BOOLEAN /\ stale' \in BOOLEAN
      <3>1. 0 \in Nat /\ (stored # seen[r]) \in BOOLEAN /\ Write(0, stored # seen[r])
        BY <1>18 DEF Forget, TypeOK
      <3>2. QED
        BY <3>1, WriteTypes
    <2>2. QED
      BY <1>18, <2>1, OpsAssumption DEF Forget, Goto, server, TypeOK
  <1>19. ASSUME NEW r \in Ops, AuthClear(r) PROVE TypeOK'
    <2>1. stored' \in Nat /\ crossed' \in BOOLEAN /\ stale' \in BOOLEAN
      <3>1. 0 \in Nat /\ (FALSE) \in BOOLEAN /\ Write(0, FALSE)
        BY <1>19 DEF AuthClear, TypeOK
      <3>2. QED
        BY <3>1, WriteTypes
    <2>2. QED
      BY <1>19, <2>1, OpsAssumption DEF AuthClear, Goto, server, TypeOK
  <1>20. ASSUME NEW r \in Ops, Crash(r) PROVE TypeOK'
    <2>1. lost' \in BOOLEAN
      BY <1>20 DEF Crash, End
    <2>2. pc' = [q \in Ops |-> IF q = r /\ Underway(q) THEN "done" ELSE pc[q]]
      BY <1>20 DEF Crash, End
    <2>3. pc[r] # "listen"
      BY <1>20, OpsAssumption DEF Crash, TypeOK
    <2>4. QED
      BY <1>20, <2>1, <2>2, <2>3 DEF Crash, End, server, TypeOK
  <1>21. CASE Restart
    <2>1. lost' \in BOOLEAN
      BY <1>21 DEF Restart, End
    <2>2. pc' = [q \in Ops |-> IF q \in Ops \ CliOps /\ Underway(q) THEN "done" ELSE pc[q]]
      BY <1>21 DEF Restart, End
    <2>3. \A q \in Ops : pc'[q] # "listen"
      BY <2>2, OpsAssumption DEF Underway, TypeOK
    <2>4. QED
      BY <1>21, <2>1, <2>2, <2>3, OpsAssumption DEF Restart, End, server, TypeOK
  <1>22. ASSUME NEW n \in refresh, EndSession(n) PROVE TypeOK'
    BY <1>22 DEF EndSession, TypeOK
  <1>23. CASE UNCHANGED vars
    BY <1>23 DEF vars, server, TypeOK
  <1>24. ASSUME NEW r \in Ops, OAuthCallback(r) PROVE TypeOK'
    <2>1. CASE /\ Issue(r) /\ urls' = urls \cup {issued'}
               /\ refresh' \in {refresh, refresh \cup {issued'}}
      BY <1>24, <2>1, OpsAssumption DEF OAuthCallback, Goto, Issue, TypeOK
    <2>2. CASE /\ \E n \in urls : pair' = [pair EXCEPT ![r] = n]
               /\ UNCHANGED <<refresh, issued, urls>>
      BY <1>24, <2>2, OpsAssumption DEF OAuthCallback, Goto, TypeOK
    <2>3. QED
      BY <1>24, <2>1, <2>2 DEF OAuthCallback
  <1>25. QED
    BY <1>1, <1>2, <1>3, <1>4, <1>5, <1>6, <1>7, <1>8, <1>9, <1>10, <1>11, <1>12,
       <1>13, <1>14, <1>15, <1>16, <1>17, <1>18, <1>19, <1>20, <1>21, <1>22, <1>23, <1>24
    DEF Next, Login, Repair, Logout

LEMMA NumberedStep == TypeOK /\ Numbered /\ [Next]_vars => Numbered'
  <1> SUFFICES ASSUME TypeOK, Numbered, [Next]_vars PROVE Numbered'
    OBVIOUS
  <1>1. ASSUME NEW r \in Ops, Authenticate(r) PROVE Numbered'
    BY <1>1, OpsAssumption DEF Authenticate, server, TypeOK, Numbered
  <1>2. ASSUME NEW r \in Ops, CompleteAuthentication(r) PROVE Numbered'
    BY <1>2, OpsAssumption DEF CompleteAuthentication, Goto, server, TypeOK, Numbered
  <1>3. ASSUME NEW r \in Ops, WaitForLogin(r) PROVE Numbered'
    BY <1>3, OpsAssumption DEF WaitForLogin, Goto, server, TypeOK, Numbered
  <1>4. ASSUME NEW r \in Ops, SignIn(r) PROVE Numbered'
    BY <1>4, OpsAssumption DEF SignIn, Goto, Issue, server, TypeOK, Numbered
  <1>5. ASSUME NEW r \in Ops, Accept(r) PROVE Numbered'
    BY <1>5, OpsAssumption DEF Accept, Goto, server, TypeOK, Numbered
  <1>6. ASSUME NEW r \in Ops, AcceptFails(r) PROVE Numbered'
    BY <1>6, OpsAssumption DEF AcceptFails, Goto, server, TypeOK, Numbered
  <1>7. ASSUME NEW r \in Ops, WaitTimesOut(r) PROVE Numbered'
    BY <1>7, OpsAssumption DEF WaitTimesOut, Goto, server, TypeOK, Numbered
  <1>8. ASSUME NEW r \in Ops, DirectLogin(r) PROVE Numbered'
    BY <1>8, OpsAssumption DEF DirectLogin, Goto, Issue, server, TypeOK, Numbered
  <1>9. ASSUME NEW r \in Ops, StoreLogin(r) PROVE Numbered'
    BY <1>9, OpsAssumption DEF StoreLogin, Goto, Write, server, TypeOK, Numbered
  <1>10. ASSUME NEW r \in Ops, StartCall(r) PROVE Numbered'
    BY <1>10, OpsAssumption DEF StartCall, Goto, server, TypeOK, Numbered
  <1>11. ASSUME NEW r \in Ops, Call(r) PROVE Numbered'
    BY <1>11, OpsAssumption DEF Call, Goto, server, TypeOK, Numbered
  <1>12. ASSUME NEW r \in Ops, RefreshGranted(r) PROVE Numbered'
    BY <1>12, OpsAssumption DEF RefreshGranted, Goto, Issue, server, TypeOK, Numbered
  <1>13. ASSUME NEW r \in Ops, RefreshFails(r) PROVE Numbered'
    BY <1>13, OpsAssumption DEF RefreshFails, Goto, server, TypeOK, Numbered
  <1>14. ASSUME NEW r \in Ops, KeepRefreshed(r) PROVE Numbered'
    BY <1>14, OpsAssumption DEF KeepRefreshed, Goto, Write, server, TypeOK, Numbered
  <1>15. ASSUME NEW r \in Ops, ClearRefused(r) PROVE Numbered'
    BY <1>15, OpsAssumption DEF ClearRefused, Goto, Write, server, TypeOK, Numbered
  <1>16. ASSUME NEW r \in Ops, StartLogout(r) PROVE Numbered'
    BY <1>16, OpsAssumption DEF StartLogout, Goto, server, TypeOK, Numbered
  <1>17. ASSUME NEW r \in Ops, TellServer(r) PROVE Numbered'
    BY <1>17, OpsAssumption DEF TellServer, Goto, server, TypeOK, Numbered
  <1>18. ASSUME NEW r \in Ops, Forget(r) PROVE Numbered'
    BY <1>18, OpsAssumption DEF Forget, Goto, Write, server, TypeOK, Numbered
  <1>19. ASSUME NEW r \in Ops, AuthClear(r) PROVE Numbered'
    BY <1>19, OpsAssumption DEF AuthClear, Goto, Write, server, TypeOK, Numbered
  <1>20. ASSUME NEW r \in Ops, Crash(r) PROVE Numbered'
    BY <1>20, OpsAssumption DEF Crash, End, Underway, server, TypeOK, Numbered
  <1>21. CASE Restart
    BY <1>21, OpsAssumption DEF Restart, End, Underway, server, TypeOK, Numbered
  <1>22. ASSUME NEW n \in refresh, EndSession(n) PROVE Numbered'
    BY <1>22 DEF EndSession, TypeOK, Numbered
  <1>23. CASE UNCHANGED vars
    BY <1>23 DEF vars, server, TypeOK, Numbered
  <1>24. ASSUME NEW r \in Ops, OAuthCallback(r) PROVE Numbered'
    <2>1. CASE /\ Issue(r) /\ urls' = urls \cup {issued'}
               /\ refresh' \in {refresh, refresh \cup {issued'}}
      <3>1. issued' = issued + 1 /\ issued \in Nat /\ pair' = [pair EXCEPT ![r] = issued + 1]
            /\ pc' = [pc EXCEPT ![r] = "store"] /\ UNCHANGED <<stored, seen>>
        BY <1>24, <2>1 DEF OAuthCallback, Goto, Issue, TypeOK
      <3>2. \A n \in refresh' \cup urls' : n <= issued'
        BY <2>1, <3>1 DEF Numbered, TypeOK
      <3>3. \A q \in Ops : pair[q] \in Nat /\ pair[q] <= issued /\ seen[q] \in Nat /\ seen[q] <= issued
        BY DEF Numbered, TypeOK
      <3>4. /\ stored' <= issued'
            /\ \A q \in Ops : seen'[q] <= issued' /\ pair'[q] <= issued'
        BY <3>1, <3>3 DEF Numbered, TypeOK
      <3>5. ASSUME NEW q \in Ops
            PROVE  /\ pc'[q] \in {"new", "call", "refresh"} => pair'[q] = 0
                   /\ pc'[q] = "keep" => pair'[q] # 0 /\ pair'[q] \notin urls'
        <4>1. CASE q = r
          BY <3>1, <4>1 DEF TypeOK
        <4>2. CASE q # r
          <5>1. pc'[q] = pc[q] /\ pair'[q] = pair[q] /\ pair[q] # issued'
            BY <3>1, <3>3, <4>2 DEF TypeOK
          <5>2. QED
            BY <2>1, <5>1 DEF Numbered
        <4>3. QED
          BY <4>1, <4>2
      <3>6. QED
        BY <3>2, <3>4, <3>5 DEF Numbered
    <2>2. CASE /\ \E n \in urls : pair' = [pair EXCEPT ![r] = n]
               /\ UNCHANGED <<refresh, issued, urls>>
      BY <1>24, <2>2, OpsAssumption DEF OAuthCallback, Goto, TypeOK, Numbered
    <2>3. QED
      BY <1>24, <2>1, <2>2 DEF OAuthCallback
  <1>25. QED
    BY <1>1, <1>2, <1>3, <1>4, <1>5, <1>6, <1>7, <1>8, <1>9, <1>10, <1>11, <1>12,
       <1>13, <1>14, <1>15, <1>16, <1>17, <1>18, <1>19, <1>20, <1>21, <1>22, <1>23, <1>24
    DEF Next, Login, Repair, Logout

LEMMA UnsharedStep == TypeOK /\ Numbered /\ Unshared /\ [Next]_vars => Unshared'
  <1> SUFFICES ASSUME TypeOK, Numbered, Unshared, [Next]_vars PROVE Unshared'
    OBVIOUS
  <1>1. ASSUME NEW r \in Ops, Authenticate(r) PROVE Unshared'
    BY <1>1, OpsAssumption DEF Authenticate, server, TypeOK, Numbered, Unshared, Holds
  <1>2. ASSUME NEW r \in Ops, CompleteAuthentication(r) PROVE Unshared'
    BY <1>2, OpsAssumption DEF CompleteAuthentication, Goto, server, TypeOK, Numbered, Unshared, Holds
  <1>3. ASSUME NEW r \in Ops, WaitForLogin(r) PROVE Unshared'
    BY <1>3, OpsAssumption DEF WaitForLogin, Goto, server, TypeOK, Numbered, Unshared, Holds
  <1>4. ASSUME NEW r \in Ops, SignIn(r) PROVE Unshared'
    BY <1>4, OpsAssumption DEF SignIn, Goto, Issue, server, TypeOK, Numbered, Unshared, Holds
  <1>5. ASSUME NEW r \in Ops, Accept(r) PROVE Unshared'
    BY <1>5, OpsAssumption DEF Accept, Goto, server, TypeOK, Numbered, Unshared, Holds
  <1>6. ASSUME NEW r \in Ops, AcceptFails(r) PROVE Unshared'
    BY <1>6, OpsAssumption DEF AcceptFails, Goto, server, TypeOK, Numbered, Unshared, Holds
  <1>7. ASSUME NEW r \in Ops, WaitTimesOut(r) PROVE Unshared'
    BY <1>7, OpsAssumption DEF WaitTimesOut, Goto, server, TypeOK, Numbered, Unshared, Holds
  <1>8. ASSUME NEW r \in Ops, DirectLogin(r) PROVE Unshared'
    BY <1>8, OpsAssumption DEF DirectLogin, Goto, Issue, server, TypeOK, Numbered, Unshared, Holds
  <1>9. ASSUME NEW r \in Ops, StoreLogin(r) PROVE Unshared'
    BY <1>9, OpsAssumption DEF StoreLogin, Goto, Write, server, TypeOK, Numbered, Unshared, Holds
  <1>10. ASSUME NEW r \in Ops, StartCall(r) PROVE Unshared'
    BY <1>10, OpsAssumption DEF StartCall, Goto, server, TypeOK, Numbered, Unshared, Holds
  <1>11. ASSUME NEW r \in Ops, Call(r) PROVE Unshared'
    BY <1>11, OpsAssumption DEF Call, Goto, server, TypeOK, Numbered, Unshared, Holds
  <1>12. ASSUME NEW r \in Ops, RefreshGranted(r) PROVE Unshared'
    BY <1>12, OpsAssumption DEF RefreshGranted, Goto, Issue, server, TypeOK, Numbered, Unshared, Holds
  <1>13. ASSUME NEW r \in Ops, RefreshFails(r) PROVE Unshared'
    BY <1>13, OpsAssumption DEF RefreshFails, Goto, server, TypeOK, Numbered, Unshared, Holds
  <1>14. ASSUME NEW r \in Ops, KeepRefreshed(r) PROVE Unshared'
    BY <1>14, OpsAssumption DEF KeepRefreshed, Goto, Write, server, TypeOK, Numbered, Unshared, Holds
  <1>15. ASSUME NEW r \in Ops, ClearRefused(r) PROVE Unshared'
    BY <1>15, OpsAssumption DEF ClearRefused, Goto, Write, server, TypeOK, Numbered, Unshared, Holds
  <1>16. ASSUME NEW r \in Ops, StartLogout(r) PROVE Unshared'
    BY <1>16, OpsAssumption DEF StartLogout, Goto, server, TypeOK, Numbered, Unshared, Holds
  <1>17. ASSUME NEW r \in Ops, TellServer(r) PROVE Unshared'
    BY <1>17, OpsAssumption DEF TellServer, Goto, server, TypeOK, Numbered, Unshared, Holds
  <1>18. ASSUME NEW r \in Ops, Forget(r) PROVE Unshared'
    BY <1>18, OpsAssumption DEF Forget, Goto, Write, server, TypeOK, Numbered, Unshared, Holds
  <1>19. ASSUME NEW r \in Ops, AuthClear(r) PROVE Unshared'
    BY <1>19, OpsAssumption DEF AuthClear, Goto, Write, server, TypeOK, Numbered, Unshared, Holds
  <1>20. ASSUME NEW r \in Ops, Crash(r) PROVE Unshared'
    BY <1>20, OpsAssumption DEF Crash, End, Underway, server, TypeOK, Numbered, Unshared, Holds
  <1>21. CASE Restart
    BY <1>21, OpsAssumption DEF Restart, End, Underway, server, TypeOK, Numbered, Unshared, Holds
  <1>22. ASSUME NEW n \in refresh, EndSession(n) PROVE Unshared'
    BY <1>22 DEF EndSession, TypeOK, Numbered, Unshared, Holds
  <1>23. CASE UNCHANGED vars
    BY <1>23 DEF vars, server, TypeOK, Numbered, Unshared, Holds
  <1>24. ASSUME NEW r \in Ops, OAuthCallback(r) PROVE Unshared'
    BY <1>24, OpsAssumption DEF OAuthCallback, Goto, Issue, server, TypeOK, Numbered, Unshared, Holds
  <1>25. QED
    BY <1>1, <1>2, <1>3, <1>4, <1>5, <1>6, <1>7, <1>8, <1>9, <1>10, <1>11, <1>12,
       <1>13, <1>14, <1>15, <1>16, <1>17, <1>18, <1>19, <1>20, <1>21, <1>22, <1>23, <1>24
    DEF Next, Login, Repair, Logout

LEMMA RefusedStep == TypeOK /\ Numbered /\ Refused /\ [Next]_vars => Refused'
  <1> SUFFICES ASSUME TypeOK, Numbered, Refused, [Next]_vars PROVE Refused'
    OBVIOUS
  <1>1. ASSUME NEW r \in Ops, Authenticate(r) PROVE Refused'
    BY <1>1, OpsAssumption DEF Authenticate, server, TypeOK, Numbered, Refused
  <1>2. ASSUME NEW r \in Ops, CompleteAuthentication(r) PROVE Refused'
    BY <1>2, OpsAssumption DEF CompleteAuthentication, Goto, server, TypeOK, Numbered, Refused
  <1>3. ASSUME NEW r \in Ops, WaitForLogin(r) PROVE Refused'
    BY <1>3, OpsAssumption DEF WaitForLogin, Goto, server, TypeOK, Numbered, Refused
  <1>4. ASSUME NEW r \in Ops, SignIn(r) PROVE Refused'
    BY <1>4, OpsAssumption DEF SignIn, Goto, Issue, server, TypeOK, Numbered, Refused
  <1>5. ASSUME NEW r \in Ops, Accept(r) PROVE Refused'
    BY <1>5, OpsAssumption DEF Accept, Goto, server, TypeOK, Numbered, Refused
  <1>6. ASSUME NEW r \in Ops, AcceptFails(r) PROVE Refused'
    BY <1>6, OpsAssumption DEF AcceptFails, Goto, server, TypeOK, Numbered, Refused
  <1>7. ASSUME NEW r \in Ops, WaitTimesOut(r) PROVE Refused'
    BY <1>7, OpsAssumption DEF WaitTimesOut, Goto, server, TypeOK, Numbered, Refused
  <1>8. ASSUME NEW r \in Ops, DirectLogin(r) PROVE Refused'
    BY <1>8, OpsAssumption DEF DirectLogin, Goto, Issue, server, TypeOK, Numbered, Refused
  <1>9. ASSUME NEW r \in Ops, StoreLogin(r) PROVE Refused'
    BY <1>9, OpsAssumption DEF StoreLogin, Goto, Write, server, TypeOK, Numbered, Refused
  <1>10. ASSUME NEW r \in Ops, StartCall(r) PROVE Refused'
    BY <1>10, OpsAssumption DEF StartCall, Goto, server, TypeOK, Numbered, Refused
  <1>11. ASSUME NEW r \in Ops, Call(r) PROVE Refused'
    BY <1>11, OpsAssumption DEF Call, Goto, server, TypeOK, Numbered, Refused
  <1>12. ASSUME NEW r \in Ops, RefreshGranted(r) PROVE Refused'
    BY <1>12, OpsAssumption DEF RefreshGranted, Goto, Issue, server, TypeOK, Numbered, Refused
  <1>13. ASSUME NEW r \in Ops, RefreshFails(r) PROVE Refused'
    BY <1>13, OpsAssumption DEF RefreshFails, Goto, server, TypeOK, Numbered, Refused
  <1>14. ASSUME NEW r \in Ops, KeepRefreshed(r) PROVE Refused'
    BY <1>14, OpsAssumption DEF KeepRefreshed, Goto, Write, server, TypeOK, Numbered, Refused
  <1>15. ASSUME NEW r \in Ops, ClearRefused(r) PROVE Refused'
    BY <1>15, OpsAssumption DEF ClearRefused, Goto, Write, server, TypeOK, Numbered, Refused
  <1>16. ASSUME NEW r \in Ops, StartLogout(r) PROVE Refused'
    BY <1>16, OpsAssumption DEF StartLogout, Goto, server, TypeOK, Numbered, Refused
  <1>17. ASSUME NEW r \in Ops, TellServer(r) PROVE Refused'
    BY <1>17, OpsAssumption DEF TellServer, Goto, server, TypeOK, Numbered, Refused
  <1>18. ASSUME NEW r \in Ops, Forget(r) PROVE Refused'
    BY <1>18, OpsAssumption DEF Forget, Goto, Write, server, TypeOK, Numbered, Refused
  <1>19. ASSUME NEW r \in Ops, AuthClear(r) PROVE Refused'
    BY <1>19, OpsAssumption DEF AuthClear, Goto, Write, server, TypeOK, Numbered, Refused
  <1>20. ASSUME NEW r \in Ops, Crash(r) PROVE Refused'
    BY <1>20, OpsAssumption DEF Crash, End, Underway, server, TypeOK, Numbered, Refused
  <1>21. CASE Restart
    BY <1>21, OpsAssumption DEF Restart, End, Underway, server, TypeOK, Numbered, Refused
  <1>22. ASSUME NEW n \in refresh, EndSession(n) PROVE Refused'
    BY <1>22 DEF EndSession, TypeOK, Numbered, Refused
  <1>23. CASE UNCHANGED vars
    BY <1>23 DEF vars, server, TypeOK, Numbered, Refused
  <1>24. ASSUME NEW r \in Ops, OAuthCallback(r) PROVE Refused'
    BY <1>24, OpsAssumption DEF OAuthCallback, Goto, Issue, server, TypeOK, Numbered, Refused
  <1>25. QED
    BY <1>1, <1>2, <1>3, <1>4, <1>5, <1>6, <1>7, <1>8, <1>9, <1>10, <1>11, <1>12,
       <1>13, <1>14, <1>15, <1>16, <1>17, <1>18, <1>19, <1>20, <1>21, <1>22, <1>23, <1>24
    DEF Next, Login, Repair, Logout

LEMMA GoodStep == TypeOK /\ Numbered /\ Unshared /\ StoredIsGood /\ [Next]_vars => StoredIsGood'
  <1> SUFFICES ASSUME TypeOK, Numbered, Unshared, StoredIsGood, [Next]_vars PROVE StoredIsGood'
    OBVIOUS
  <1>1. ASSUME NEW r \in Ops, Authenticate(r) PROVE StoredIsGood'
    BY <1>1, OpsAssumption DEF Authenticate, server, TypeOK, Numbered, Unshared, Holds, StoredIsGood
  <1>2. ASSUME NEW r \in Ops, CompleteAuthentication(r) PROVE StoredIsGood'
    BY <1>2, OpsAssumption DEF CompleteAuthentication, Goto, server, TypeOK, Numbered, Unshared, Holds, StoredIsGood
  <1>3. ASSUME NEW r \in Ops, WaitForLogin(r) PROVE StoredIsGood'
    BY <1>3, OpsAssumption DEF WaitForLogin, Goto, server, TypeOK, Numbered, Unshared, Holds, StoredIsGood
  <1>4. ASSUME NEW r \in Ops, SignIn(r) PROVE StoredIsGood'
    BY <1>4, OpsAssumption DEF SignIn, Goto, Issue, server, TypeOK, Numbered, Unshared, Holds, StoredIsGood
  <1>5. ASSUME NEW r \in Ops, Accept(r) PROVE StoredIsGood'
    BY <1>5, OpsAssumption DEF Accept, Goto, server, TypeOK, Numbered, Unshared, Holds, StoredIsGood
  <1>6. ASSUME NEW r \in Ops, AcceptFails(r) PROVE StoredIsGood'
    BY <1>6, OpsAssumption DEF AcceptFails, Goto, server, TypeOK, Numbered, Unshared, Holds, StoredIsGood
  <1>7. ASSUME NEW r \in Ops, WaitTimesOut(r) PROVE StoredIsGood'
    BY <1>7, OpsAssumption DEF WaitTimesOut, Goto, server, TypeOK, Numbered, Unshared, Holds, StoredIsGood
  <1>8. ASSUME NEW r \in Ops, DirectLogin(r) PROVE StoredIsGood'
    BY <1>8, OpsAssumption DEF DirectLogin, Goto, Issue, server, TypeOK, Numbered, Unshared, Holds, StoredIsGood
  <1>9. ASSUME NEW r \in Ops, StoreLogin(r) PROVE StoredIsGood'
    BY <1>9, OpsAssumption DEF StoreLogin, Goto, Write, server, TypeOK, Numbered, Unshared, Holds, StoredIsGood
  <1>10. ASSUME NEW r \in Ops, StartCall(r) PROVE StoredIsGood'
    BY <1>10, OpsAssumption DEF StartCall, Goto, server, TypeOK, Numbered, Unshared, Holds, StoredIsGood
  <1>11. ASSUME NEW r \in Ops, Call(r) PROVE StoredIsGood'
    BY <1>11, OpsAssumption DEF Call, Goto, server, TypeOK, Numbered, Unshared, Holds, StoredIsGood
  <1>12. ASSUME NEW r \in Ops, RefreshGranted(r) PROVE StoredIsGood'
    BY <1>12, OpsAssumption DEF RefreshGranted, Goto, Issue, server, TypeOK, Numbered, Unshared, Holds, StoredIsGood
  <1>13. ASSUME NEW r \in Ops, RefreshFails(r) PROVE StoredIsGood'
    BY <1>13, OpsAssumption DEF RefreshFails, Goto, server, TypeOK, Numbered, Unshared, Holds, StoredIsGood
  <1>14. ASSUME NEW r \in Ops, KeepRefreshed(r) PROVE StoredIsGood'
    BY <1>14, OpsAssumption DEF KeepRefreshed, Goto, Write, server, TypeOK, Numbered, Unshared, Holds, StoredIsGood
  <1>15. ASSUME NEW r \in Ops, ClearRefused(r) PROVE StoredIsGood'
    BY <1>15, OpsAssumption DEF ClearRefused, Goto, Write, server, TypeOK, Numbered, Unshared, Holds, StoredIsGood
  <1>16. ASSUME NEW r \in Ops, StartLogout(r) PROVE StoredIsGood'
    BY <1>16, OpsAssumption DEF StartLogout, Goto, server, TypeOK, Numbered, Unshared, Holds, StoredIsGood
  <1>17. ASSUME NEW r \in Ops, TellServer(r) PROVE StoredIsGood'
    BY <1>17, OpsAssumption DEF TellServer, Goto, server, TypeOK, Numbered, Unshared, Holds, StoredIsGood
  <1>18. ASSUME NEW r \in Ops, Forget(r) PROVE StoredIsGood'
    BY <1>18, OpsAssumption DEF Forget, Goto, Write, server, TypeOK, Numbered, Unshared, Holds, StoredIsGood
  <1>19. ASSUME NEW r \in Ops, AuthClear(r) PROVE StoredIsGood'
    BY <1>19, OpsAssumption DEF AuthClear, Goto, Write, server, TypeOK, Numbered, Unshared, Holds, StoredIsGood
  <1>20. ASSUME NEW r \in Ops, Crash(r) PROVE StoredIsGood'
    BY <1>20, OpsAssumption DEF Crash, End, Underway, server, TypeOK, Numbered, Unshared, Holds, StoredIsGood
  <1>21. CASE Restart
    BY <1>21, OpsAssumption DEF Restart, End, Underway, server, TypeOK, Numbered, Unshared, Holds, StoredIsGood
  <1>22. ASSUME NEW n \in refresh, EndSession(n) PROVE StoredIsGood'
    BY <1>22 DEF EndSession, TypeOK, Numbered, Unshared, Holds, StoredIsGood
  <1>23. CASE UNCHANGED vars
    BY <1>23 DEF vars, server, TypeOK, Numbered, Unshared, Holds, StoredIsGood
  <1>24. ASSUME NEW r \in Ops, OAuthCallback(r) PROVE StoredIsGood'
    BY <1>24, OpsAssumption DEF OAuthCallback, Goto, Issue, server, TypeOK, Numbered, Unshared, Holds, StoredIsGood
  <1>25. QED
    BY <1>1, <1>2, <1>3, <1>4, <1>5, <1>6, <1>7, <1>8, <1>9, <1>10, <1>11, <1>12,
       <1>13, <1>14, <1>15, <1>16, <1>17, <1>18, <1>19, <1>20, <1>21, <1>22, <1>23, <1>24
    DEF Next, Login, Repair, Logout

LEMMA Invariance == Spec => []IInv
  <1>1. IInv /\ [Next]_vars => IInv'
    BY TypeStep, NumberedStep, UnsharedStep, RefusedStep, GoodStep DEF IInv
  <1>2. QED
    BY InitInv, <1>1, PTL DEF Spec

-----------------------------------------------------------------------------
\* The slot and the operations' states are well typed.
THEOREM TypeCorrect == Spec => []TypeOK
  <1>1. IInv => TypeOK
    BY DEF IInv
  <1>2. QED
    BY Invariance, <1>1, PTL

\* A refresh token is spent only for a pair that the operation is about to save.
THEOREM GoodIsStored == Spec => []StoredIsGood
  <1>1. IInv => StoredIsGood
    BY DEF IInv
  <1>2. QED
    BY Invariance, <1>1, PTL

\* A repair comes to clearing only through a refusal, which is final.
THEOREM RefusedIsCleared == Spec => OnlyRefusedCleared
  <1>1. IInv /\ [Next]_vars =>
          [\A r \in Ops : ClearRefused(r) /\ stored # stored' /\ ~crossed' /\ ~lost' =>
                          stored \notin refresh]_vars
    <2> SUFFICES ASSUME IInv, NEW r \in Ops, ClearRefused(r), stored # stored',
                        ~crossed', ~lost'
                 PROVE  stored \notin refresh
      OBVIOUS
    <2>1. stored = seen[r]
      BY DEF ClearRefused, Write
    <2>2. seen[r] \notin refresh
      BY DEF ClearRefused, IInv, Refused
    <2>3. QED
      BY <2>1, <2>2
  <1>2. QED
    BY Invariance, <1>1, PTL DEF OnlyRefusedCleared, Spec
=============================================================================
