---------------------------- MODULE TokenService ----------------------------
(***************************************************************************)
(* What the OAuth proxy promises its clients, without sessions, codes,     *)
(* requests and restarts: the token pair is removed, or replaced by one    *)
(* newer than all before it, in one step; an answer is an access token     *)
(* nobody was given before, with the refresh token that is stored, if one  *)
(* is; a login is answered once.  After setters of the config have         *)
(* overlapped or failed only the last, and that no access token is given   *)
(* twice, is promised.                                                     *)
(***************************************************************************)
EXTENDS Naturals

CONSTANT None         \* the login of an answer to a refresh

VARIABLES stored,     \* the stored pair, by age; 0 if there is none
          newest,     \* the latest pair there has been
          answers,    \* the answers given: the login, the access and the refresh token
          disordered

Init == stored = 0 /\ newest = 0 /\ answers = {} /\ disordered = FALSE

Rotate == newest' > newest /\ stored' = newest' /\ UNCHANGED <<answers, disordered>>

Clear == stored' = 0 /\ UNCHANGED <<newest, answers, disordered>>

New(a) == \A b \in answers : b.access # a.access /\ (a.login # None => b.login # a.login)

Give(a) == New(a) /\ answers' = answers \cup {a}

Answer ==
  /\ \E a \in answers' : Give(a) /\ a.access <= newest /\ a.refresh = stored
  /\ UNCHANGED <<stored, newest, disordered>>

Disorder ==
  /\ disordered'
  /\ UNCHANGED answers \/ \E a \in answers' : Give(a)

Next == (~disordered /\ (Rotate \/ Clear \/ Answer)) \/ Disorder

Spec == Init /\ [][Next]_<<stored, newest, answers, disordered>>
=============================================================================
