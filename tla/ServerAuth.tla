------------------------------ MODULE ServerAuth ------------------------------
(***************************************************************************)
(* Who may do what on a server: server.go (authUser, DeleteUser,           *)
(* ResetUsers), settings/users.go and the first half of handleWebsocket.   *)
(* The SSH handshake calls authUser, which leaves the user it accepted in  *)
(* Server.sessions; the handler, once the handshake is over, picks it up   *)
(* there and checks the requested remotes against the user's addresses.    *)
(* Meanwhile the auth file is reloaded and the API removes users: every    *)
(* look at the shared maps is a critical section of its own.               *)
(***************************************************************************)
EXTENDS Integers, FiniteSets

CONSTANTS
    Sessions,   \* websocket connections, each with its SSH session ID
    Users,      \* User objects: records [name, pass, addrs]
    Remotes,    \* remotes a client can ask for
    None        \* Go's nil

ASSUME ServerAuthAssumption ==
    /\ None \notin Users
    /\ \A u \in Users : u.addrs \subseteq Remotes

VARIABLES
    users,     \* Server.users: the User of each name, or None
    sessions,  \* Server.sessions: by session ID
    pc,        \* control of each connection's handler
    cred,      \* the name and password each client logs in with
    login,     \* history: the User that authUser accepted for a session
    user,      \* handleWebsocket's user
    granted,   \* the remotes of the accepted configuration
    wasOpen    \* history: there was a moment without any user

vars == <<users, sessions, pc, cred, login, user, granted, wasOpen>>
userVars == <<users, wasOpen>>

Names == {u.name : u \in Users}

Passwords == {u.pass : u \in Users}

\* The map of Users.Reset, which builds it before it swaps it in.
MapOf(us) ==
    [n \in Names |-> IF \E u \in us : u.name = n THEN CHOOSE u \in us : u.name = n ELSE None]

\* The contents of an auth file, or of a call of ResetUsers: one User a name.
Lists == {us \in SUBSET Users : \A u, v \in us : u.name = v.name => u = v}

Empty(map) == \A n \in Names : map[n] = None

\* NewServer: the auth file, if any, and then the user of Config.Auth.
Init ==
    /\ \E us \in Lists :
         \/ users = MapOf(us)
         \/ \E u \in Users : users = [MapOf(us) EXCEPT ![u.name] = u]
    /\ sessions = [s \in Sessions |-> None]
    /\ pc = [s \in Sessions |-> "new"]
    /\ cred \in [Sessions -> Names \X Passwords]
    /\ login = [s \in Sessions |-> None]
    /\ user = [s \in Sessions |-> None]
    /\ granted = [s \in Sessions |-> {}]
    /\ wasOpen = Empty(users)

Goto(s, from, to) ==
    /\ pc[s] = from
    /\ pc' = [pc EXCEPT ![s] = to]

-----------------------------------------------------------------------------
(* The handshake.                                                          *)

\* authUser: without users, no check.
AuthLen(s) ==
    /\ Goto(s, "new", IF Empty(users) THEN "handshake" ELSE "auth")
    /\ UNCHANGED <<userVars, sessions, cred, login, user, granted>>

\* The user that is there and has this password.
Match(s) ==
    LET u == users[cred[s][1]] IN IF u # None /\ u.pass = cred[s][2] THEN u ELSE None

\* Get the user, compare, and insert it in the session map.
AuthGet(s) ==
    /\ pc[s] = "auth"
    /\ pc' = [pc EXCEPT ![s] = IF Match(s) = None THEN "ended" ELSE "handshake"]
    /\ login' = [login EXCEPT ![s] = Match(s)]
    /\ sessions' = [sessions EXCEPT ![s] = Match(s)]
    /\ UNCHANGED <<userVars, cred, user, granted>>

\* The client leaves before the handshake is over; its entry stays behind.
HandshakeFails(s) ==
    /\ Goto(s, "handshake", "ended")
    /\ UNCHANGED <<userVars, sessions, cred, login, user, granted>>

-----------------------------------------------------------------------------
(* handleWebsocket.                                                        *)

\* if s.users.Len() > 0
HandlerLen(s) ==
    /\ Goto(s, "handshake", IF Empty(users) THEN "config" ELSE "entry")
    /\ UNCHANGED <<userVars, sessions, cred, login, user, granted>>

\* Slip: the user is looked up again by name and not in the session map.
TakeEntry_ByName(s) ==
    /\ pc[s] = "entry"
    /\ pc' = [pc EXCEPT ![s] = IF sessions[s] = None THEN "authBug" ELSE "config"]
    /\ user' = [user EXCEPT ![s] = users[cred[s][1]]]
    /\ sessions' = [sessions EXCEPT ![s] = None]
    /\ UNCHANGED <<userVars, cred, login, granted>>

\* Slip: entries are keyed by the user's name, so that two sessions of one user
\* share theirs.
TakeEntry_Shared(s) ==
    /\ pc[s] = "entry"
    /\ pc' = [pc EXCEPT ![s] = IF sessions[s] = None THEN "authBug" ELSE "config"]
    /\ user' = [user EXCEPT ![s] = sessions[s]]
    /\ sessions' = [t \in Sessions |-> IF cred[t][1] = cred[s][1] THEN None ELSE sessions[t]]
    /\ UNCHANGED <<userVars, cred, login, granted>>

\* Take the user from the session map, or panic("bug in ssh auth handler").
TakeEntry(s) ==
    /\ pc[s] = "entry"
    /\ pc' = [pc EXCEPT ![s] = IF sessions[s] = None THEN "authBug" ELSE "config"]
    /\ user' = [user EXCEPT ![s] = sessions[s]]
    /\ sessions' = [sessions EXCEPT ![s] = None]
    /\ UNCHANGED <<userVars, cred, login, granted>>

\* A config request for the remotes rs: refused at the first remote that the
\* user has no access to.
Config(s, rs) ==
    /\ pc[s] = "config"
    /\ IF user[s] # None /\ \E r \in rs : r \notin user[s].addrs
         THEN pc' = [pc EXCEPT ![s] = "ended"] /\ UNCHANGED granted
         ELSE /\ pc' = [pc EXCEPT ![s] = "serve"]
              /\ granted' = [granted EXCEPT ![s] = rs]
    /\ UNCHANGED <<userVars, sessions, cred, login, user>>

\* Nothing for 10s; or something that is not a configuration; or the client
\* is gone, when the receive yields nil, whose Type panics (and net/http
\* recovers it).
NoConfig(s) ==
    /\ Goto(s, "config", "ended")
    /\ UNCHANGED <<userVars, sessions, cred, login, user, granted>>

Leave(s) ==
    /\ Goto(s, "serve", "ended")
    /\ UNCHANGED <<userVars, sessions, cred, login, user, granted>>

-----------------------------------------------------------------------------
(* The user index.                                                         *)

Swap(map) ==
    /\ users' = map
    /\ wasOpen' = (wasOpen \/ Empty(map))
    /\ UNCHANGED <<sessions, pc, cred, login, user, granted>>

\* The auth file was written: loadUserIndex.  (A file that cannot be read or
\* parsed leaves the users as they are.)
Reload(us) == Swap(MapOf(us))

ResetUsers(us) == Swap(MapOf(us))

DeleteUser(n) == Swap([users EXCEPT ![n] = None])

Next ==
    \/ \E s \in Sessions :
         \/ AuthLen(s) \/ AuthGet(s) \/ HandshakeFails(s)
         \/ HandlerLen(s) \/ TakeEntry(s)
         \/ \E rs \in SUBSET Remotes : Config(s, rs)
         \/ NoConfig(s) \/ Leave(s)
    \/ \E us \in Lists : Reload(us) \/ ResetUsers(us)
    \/ \E n \in Names : DeleteUser(n)

Spec == Init /\ [][Next]_vars

-----------------------------------------------------------------------------
(* Properties.                                                             *)

\* Types; and a handler that has taken its user has taken it out of the map.
TypeOK ==
    /\ users \in [Names -> Users \union {None}]
    /\ \A n \in Names : users[n] # None => users[n].name = n
    /\ sessions \in [Sessions -> Users \union {None}]
    /\ pc \in [Sessions -> {"new", "auth", "handshake", "entry", "config", "serve",
                            "authBug", "ended"}]
    /\ cred \in [Sessions -> Names \X Passwords]
    /\ login \in [Sessions -> Users \union {None}]
    /\ user \in [Sessions -> Users \union {None}]
    /\ granted \in [Sessions -> SUBSET Remotes]
    /\ wasOpen \in BOOLEAN
    /\ \A s \in Sessions : user[s] # None => sessions[s] = None

\* Each session is held to the addresses of the very User whose password was
\* checked for it, across reloads, resets and the sessions of other clients,
\* as long as there always were users.
AccessChecked ==
    ~wasOpen => \A s \in Sessions :
        pc[s] = "serve" => login[s] # None /\ granted[s] \subseteq login[s].addrs

\* Between the handshake and the handler the users may change in any way
\* short of disappearing altogether: the entry is there.
EntryFound == ~wasOpen => \A s \in Sessions : pc[s] # "authBug"
=============================================================================
