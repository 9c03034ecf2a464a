--------------------------- MODULE ServerAuthProofs ---------------------------
(***************************************************************************)
(* What holds of ServerAuth for any sessions, users and remotes: however   *)
(* the users change, a session is held to the addresses of the User whose  *)
(* password was checked for it, and the handler finds that User.           *)
(***************************************************************************)
EXTENDS ServerAuth, TLAPS

-----------------------------------------------------------------------------
(* The inductive invariant.                                                *)

\* What is passed on for a session, in the map and then in the handler, is the
\* User that was accepted for it.
PassedOn ==
    \A s \in Sessions :
        /\ sessions[s] \in {None, login[s]}
        /\ user[s] \in {None, login[s]}
        /\ pc[s] \in {"new", "auth", "handshake", "entry"} => user[s] = None

\* A configuration was accepted only within the addresses of the handler's user.
GrantedByUser ==
    \A s \in Sessions :
        pc[s] = "serve" => user[s] = None \/ granted[s] \subseteq user[s].addrs

\* As long as there always were users: there are some, and no session comes
\* as far as the handler without its User.
Guarded ==
    ~wasOpen =>
        /\ ~Empty(users)
        /\ \A s \in Sessions :
             /\ pc[s] \in {"handshake", "entry"} => sessions[s] # None
             /\ pc[s] \in {"config", "serve"} => user[s] # None
             /\ pc[s] # "authBug"

IInv == TypeOK /\ PassedOn /\ GrantedByUser /\ Guarded

-----------------------------------------------------------------------------
(* The map of users.                                                       *)

\* Every name leads to a User of that name or to nothing.
UsersOK(map) ==
    /\ map \in [Names -> Users \union {None}]
    /\ \A n \in Names : map[n] # None => map[n].name = n

\* Users.Reset yields such a map.
LEMMA MapOfOK == ASSUME NEW us \in Lists PROVE UsersOK(MapOf(us))
<1>1. us \subseteq Users
  BY DEF Lists
<1>2. ASSUME NEW n \in Names
      PROVE  /\ MapOf(us)[n] \in Users \union {None}
             /\ MapOf(us)[n] # None => MapOf(us)[n].name = n
  <2>1. CASE \E u \in us : u.name = n
    <3>1. MapOf(us)[n] = CHOOSE u \in us : u.name = n
      BY <2>1, <1>2 DEF MapOf
    <3> QED
      BY <1>1, <2>1, <3>1
  <2>2. CASE ~ \E u \in us : u.name = n
    BY <1>2, <2>2 DEF MapOf
  <2> QED
    BY <2>1, <2>2
<1>3. MapOf(us) = [n \in Names |-> MapOf(us)[n]]
  BY DEF MapOf
<1> QED
  BY <1>2, <1>3 DEF UsersOK

\* What authUser accepts is a User or nothing.
LEMMA MatchOK == ASSUME TypeOK, NEW s \in Sessions PROVE Match(s) \in Users \union {None}
BY DEF TypeOK, Match

LEMMA SwapStep ==
    ASSUME IInv, NEW map, UsersOK(map), Swap(map)
    PROVE  IInv'
<1>1. TypeOK'
  <2>1. wasOpen' \in BOOLEAN
    BY Zenon DEF Swap, TypeOK, IInv, Empty
  <2> QED
    BY <2>1 DEF Swap, TypeOK, IInv, UsersOK
<1>2. PassedOn' /\ GrantedByUser'
  BY DEF Swap, IInv, PassedOn, GrantedByUser
<1>3. Guarded'
  BY DEF Swap, IInv, Guarded, Empty
<1> QED
  BY <1>1, <1>2, <1>3 DEF IInv

-----------------------------------------------------------------------------
LEMMA AuthInit == Init => IInv
<1> SUFFICES ASSUME Init PROVE IInv
  OBVIOUS
<1>1. UsersOK(users)
  <2>1. PICK us \in Lists :
          \/ users = MapOf(us)
          \/ \E u \in Users : users = [MapOf(us) EXCEPT ![u.name] = u]
    BY DEF Init
  <2> QED
    BY <2>1, MapOfOK, ServerAuthAssumption DEF UsersOK, Names
<1>2. wasOpen \in BOOLEAN
  BY Zenon DEF Init, Empty
<1>3. TypeOK
  BY <1>1, <1>2 DEF Init, TypeOK, UsersOK
<1> QED
  BY <1>3 DEF Init, IInv, PassedOn, GrantedByUser, Guarded

LEMMA AuthStep == IInv /\ [Next]_vars => IInv'
<1> SUFFICES ASSUME IInv, [Next]_vars PROVE IInv'
  OBVIOUS
<1> USE ServerAuthAssumption
<1>1. ASSUME NEW s \in Sessions, AuthLen(s) PROVE IInv'
  BY <1>1 DEF AuthLen, Goto, userVars, IInv, TypeOK, PassedOn, GrantedByUser, Guarded, Empty
<1>2. ASSUME NEW s \in Sessions, AuthGet(s) PROVE IInv'
  <2>1. Match(s) \in Users \union {None}
    BY MatchOK DEF IInv
  <2>2. TypeOK'
    BY <1>2, <2>1 DEF AuthGet, userVars, IInv, TypeOK, PassedOn
  <2>3. PassedOn'
    BY <1>2, <2>1 DEF AuthGet, userVars, IInv, TypeOK, PassedOn
  <2>4. GrantedByUser' /\ Guarded'
    BY <1>2, <2>1 DEF AuthGet, userVars, IInv, TypeOK, GrantedByUser, Guarded, Empty
  <2> QED
    BY <2>2, <2>3, <2>4 DEF IInv
<1>3. ASSUME NEW s \in Sessions, HandshakeFails(s) PROVE IInv'
  BY <1>3 DEF HandshakeFails, Goto, userVars, IInv, TypeOK, PassedOn, GrantedByUser, Guarded, Empty
<1>4. ASSUME NEW s \in Sessions, HandlerLen(s) PROVE IInv'
  BY <1>4 DEF HandlerLen, Goto, userVars, IInv, TypeOK, PassedOn, GrantedByUser, Guarded, Empty
<1>5. ASSUME NEW s \in Sessions, TakeEntry(s) PROVE IInv'
  <2>1. TypeOK'
    BY <1>5 DEF TakeEntry, userVars, IInv, TypeOK
  <2>2. PassedOn' /\ GrantedByUser'
    BY <1>5 DEF TakeEntry, userVars, IInv, TypeOK, PassedOn, GrantedByUser
  <2>3. Guarded'
    BY <1>5 DEF TakeEntry, userVars, IInv, TypeOK, Guarded, Empty
  <2> QED
    BY <2>1, <2>2, <2>3 DEF IInv
<1>6. ASSUME NEW s \in Sessions, NEW rs \in SUBSET Remotes, Config(s, rs) PROVE IInv'
  <2>1. TypeOK'
    <3>1. pc[s] = "config" /\ UNCHANGED <<users, wasOpen, sessions, cred, login, user>>
      BY <1>6 DEF Config, userVars
    <3>2. PICK to \in {"ended", "serve"} : pc' = [pc EXCEPT ![s] = to]
      BY <1>6 DEF Config
    <3>3. granted' \in [Sessions -> SUBSET Remotes]
      BY <1>6 DEF Config, IInv, TypeOK
    <3> QED
      BY <3>1, <3>2, <3>3 DEF IInv, TypeOK
  <2>2. PassedOn' /\ Guarded'
    BY <1>6 DEF Config, userVars, IInv, TypeOK, PassedOn, Guarded, Empty
  <2>3. GrantedByUser'
    BY <1>6 DEF Config, userVars, IInv, TypeOK, GrantedByUser
  <2> QED
    BY <2>1, <2>2, <2>3 DEF IInv
<1>7. ASSUME NEW s \in Sessions, NoConfig(s) \/ Leave(s) PROVE IInv'
  BY <1>7 DEF NoConfig, Leave, Goto, userVars, IInv, TypeOK, PassedOn, GrantedByUser, Guarded, Empty
<1>8. ASSUME NEW us \in Lists, Reload(us) \/ ResetUsers(us) PROVE IInv'
  BY <1>8, MapOfOK, SwapStep DEF Reload, ResetUsers
<1>9. ASSUME NEW n \in Names, DeleteUser(n) PROVE IInv'
  <2>1. UsersOK([users EXCEPT ![n] = None])
    BY DEF UsersOK, IInv, TypeOK
  <2> QED
    BY <1>9, <2>1, SwapStep DEF DeleteUser
<1>10. CASE UNCHANGED vars
  BY <1>10 DEF vars, IInv, TypeOK, PassedOn, GrantedByUser, Guarded, Empty
<1> QED
  BY <1>1, <1>2, <1>3, <1>4, <1>5, <1>6, <1>7, <1>8, <1>9, <1>10 DEF Next

LEMMA Invariant == Spec => []IInv
BY AuthInit, AuthStep, PTL DEF Spec

-----------------------------------------------------------------------------
\* Types, and a handler that has its user has taken it out of Server.sessions,
\* so that no entry is used twice.
THEOREM TypeCorrect == Spec => []TypeOK
<1>1. IInv => TypeOK
  BY DEF IInv
<1> QED
  BY <1>1, Invariant, PTL

\* As long as there always were users, handleWebsocket grants only addresses of
\* the User that authUser accepted, whatever reloads, resets and deletions come
\* between the password check and the access check.
THEOREM Access == Spec => []AccessChecked
<1>1. IInv => AccessChecked
  BY DEF IInv, PassedOn, GrantedByUser, Guarded, AccessChecked
<1> QED
  BY <1>1, Invariant, PTL

\* As long as there always were users, the "bug in ssh auth handler" panic is
\* unreachable.
THEOREM Found == Spec => []EntryFound
<1>1. IInv => EntryFound
  BY DEF IInv, Guarded, EntryFound
<1> QED
  BY <1>1, Invariant, PTL
=============================================================================
