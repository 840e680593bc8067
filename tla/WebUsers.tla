------------------------------ MODULE WebUsers ------------------------------
(***************************************************************************)
(* app::UserManager and the routes over it: people log in, change their    *)
(* passwords and use their sessions while administrators add, lock, change *)
(* and delete users.  Every call to the database is a step of its own, and *)
(* may fail; requests run on the workers, at once.                         *)
(*                                                                         *)
(* Of a row only the password, the rights and the lock are kept, of a      *)
(* session whose it is and what it was opened with.  A password that is    *)
(* too weak and a name that is not allowed are refused before any step.    *)
(***************************************************************************)
EXTENDS Integers, FiniteSets

CONSTANTS
    Ids,         \* of users, never used again
    Tables,      \* administrators that earlier runs have left, each with a session; none
                 \* in a new database
    FirstAdmin,  \* the user that ensureAdminExists() makes
    Passwords,
    Tokens,      \* of sessions
    Threads,     \* workers
    NoUser,
    MaxCalls,    \* BOUND: requests served
    MaxFailed    \* BOUND: calls to the database that fail

ASSUME UsersAssumption ==
    /\ FirstAdmin \in Ids /\ NoUser \notin Ids /\ Tables \subseteq SUBSET Ids /\ Passwords # {}
    /\ MaxCalls \in Nat /\ MaxFailed \in Nat

VARIABLES
    users,     \* ttd_users: [on, used, password, admin, enabled]
    sessions,  \* ttd_sessions: [user, password, expired]
    call,      \* the request each thread serves
    told,      \* what requests last made of each user: [password, enabled]
    races,     \* steps taken on what another request had changed (see AccessChangesHold)
    calls, failed

usersVars == <<users, sessions, call, told, races, calls, failed>>

-----------------------------------------------------------------------------
NoRow(used)  == [on |-> FALSE, used |-> used, password |-> "", admin |-> FALSE, enabled |-> FALSE]
NoSession    == [user |-> NoUser, password |-> "", expired |-> FALSE]
Idle         == [op |-> "idle", pc |-> "", user |-> NoUser, row |-> NoRow(FALSE), read |-> NoRow(FALSE),
                 token |-> NoUser, admins |-> {}, value |-> ""]

Existing == {u \in Ids : users[u].on}
Admins   == {u \in Existing : users[u].admin}

UsersTypeOK ==
    /\ \A u \in Ids : users[u].on => users[u].used /\ users[u].password \in Passwords
    /\ \A t \in Tokens : sessions[t].user \in Ids \cup {NoUser}
    /\ calls \in 0..MaxCalls /\ failed \in 0..MaxFailed

\* ensureAdminExists() makes a user in an empty table only; rows and sessions outlive
\* the program.
UsersInit ==
    /\ \E table \in Tables :
       LET p   == CHOOSE x \in Passwords : TRUE
           has == CHOOSE f \in [table -> Tokens] : \A u, v \in table : f[u] = f[v] => u = v
           of(t) == {u \in table : has[u] = t}
       IN /\ users = [u \in Ids |-> IF u \in table \/ (table = {} /\ u = FirstAdmin)
                                    THEN [on |-> TRUE, used |-> TRUE, password |-> p, admin |-> TRUE,
                                          enabled |-> TRUE]
                                    ELSE NoRow(FALSE)]
          /\ told = [u \in Ids |-> [password |-> p, enabled |-> TRUE]]
          /\ sessions = [t \in Tokens |-> IF of(t) = {} THEN NoSession
                                          ELSE [user |-> CHOOSE u \in of(t) : TRUE, password |-> p,
                                                expired |-> FALSE]]
    /\ call = [h \in Threads |-> Idle] /\ races = {} /\ calls = 0 /\ failed = 0

-----------------------------------------------------------------------------
(* Steps of requests *)

At(h, op, pc) == call[h].op = op /\ call[h].pc = pc
Go(h, c)      == call' = [call EXCEPT ![h] = c]
To(h, pc)     == Go(h, [call[h] EXCEPT !.pc = pc])
End(h)        == Go(h, Idle)

\* Threads are alike, and so are tokens: the first that is free will do.
Begin(h, c) ==
    /\ call[h] = Idle /\ h = CHOOSE k \in Threads : call[k] = Idle
    /\ calls < MaxCalls /\ calls' = calls + 1
    /\ Go(h, c)
    /\ UNCHANGED <<users, sessions, told, races, failed>>

\* authenticate(): getSession(), an expired one is deleted; getUser(), who must not be
\* locked.
MayUse(t) == sessions[t].user \in Existing /\ ~sessions[t].expired /\ users[sessions[t].user].enabled

\* updateUser() writes the row as it was read, but for what is changed: what another
\* request has changed since then is undone.
Written(h, row) ==
    /\ users' = [u \in Ids |-> IF u = call[h].user /\ users[u].on THEN row ELSE users[u]]
    /\ races' = races \cup (IF users[call[h].user].on /\ users[call[h].user] # call[h].read
                            THEN {"row"} ELSE {})
                      \cup (IF call[h].op = "demote" THEN {"demoted"} ELSE {})

DropExpiredOnly(u) == [t \in Tokens |-> IF sessions[t].user = u /\ sessions[t].expired THEN NoSession ELSE sessions[t]]
DropSessions(u) == [t \in Tokens |-> IF sessions[t].user = u THEN NoSession ELSE sessions[t]]

-----------------------------------------------------------------------------
(* login() *)

Login(h) ==
    \E u \in Existing, p \in Passwords :
        /\ users[u].enabled /\ users[u].password = p
        /\ Begin(h, [Idle EXCEPT !.op = "login", !.pc = "session", !.user = u,
                        !.row = users[u], !.read = users[u]])
CreateSession(h) ==
    /\ At(h, "login", "session")
    /\ \E t \in Tokens :
          /\ sessions[t] = NoSession /\ t = CHOOSE k \in Tokens : sessions[k] = NoSession
          /\ sessions' = [sessions EXCEPT ![t] = [user |-> call[h].user, password |-> call[h].read.password,
                                               expired |-> FALSE]]
    /\ races' = IF users[call[h].user] # call[h].read THEN races \cup {"login"} ELSE races
    /\ To(h, "row") /\ UNCHANGED <<users, told, calls, failed>>
\* last_login_at, whose failure nobody looks at.
TouchUser(h) ==
    /\ At(h, "login", "row")
    /\ \/ Written(h, call[h].row) /\ UNCHANGED failed
       \/ failed < MaxFailed /\ failed' = failed + 1 /\ UNCHANGED <<users, races>>
    /\ End(h) /\ UNCHANGED <<sessions, told, calls>>

Logout ==
    /\ \E t \in Tokens : sessions[t] # NoSession /\ sessions' = [sessions EXCEPT ![t] = NoSession]
    /\ UNCHANGED <<users, call, told, races, calls, failed>>

\* A session that is used once it has expired is deleted; so are all that have by the
\* background thread.
SessionExpires ==
    /\ \E t \in Tokens : /\ sessions[t] # NoSession /\ ~sessions[t].expired
                         /\ sessions' = [sessions EXCEPT ![t].expired = TRUE]
    /\ UNCHANGED <<users, call, told, races, calls, failed>>
UseExpired ==
    /\ \E t \in Tokens : sessions[t].expired /\ sessions' = [sessions EXCEPT ![t] = NoSession]
    /\ UNCHANGED <<users, call, told, races, calls, failed>>
CleanupExpiredSessions ==
    /\ \E t \in Tokens : sessions[t].expired
    /\ sessions' = [t \in Tokens |-> IF sessions[t].expired THEN NoSession ELSE sessions[t]]
    /\ UNCHANGED <<users, call, told, races, calls, failed>>

-----------------------------------------------------------------------------
(* Changes of a user: whoever asks has been let in by requireAuth() or, for others'   *)
(* rows, by requireAdmin()                                                            *)

Asker(u) == {t \in Tokens : MayUse(t) /\ (sessions[t].user = u \/ users[sessions[t].user].admin)}
AdminAsks == \E t \in Tokens : MayUse(t) /\ users[sessions[t].user].admin

\* changePassword(), setEnabled() and the rest of /api/users/update: the row is read...
AskChange(h) ==
    \E u \in Existing :
        \/ \E p \in Passwords : /\ Asker(u) # {}
                                /\ Begin(h, [Idle EXCEPT !.op = "password", !.pc = "read", !.user = u, !.value = p])
        \/ \E on \in BOOLEAN : /\ AdminAsks
                               /\ Begin(h, [Idle EXCEPT !.op = IF on THEN "unlock" ELSE "lock", !.pc = "read", !.user = u])
        \/ \E on \in BOOLEAN : /\ AdminAsks
                               /\ Begin(h, [Idle EXCEPT !.op = IF on THEN "promote" ELSE "demote", !.pc = "read", !.user = u])

Changed(c, row) == CASE c.op = "password" -> [row EXCEPT !.password = c.value]
                     [] c.op \in {"lock", "unlock"} -> [row EXCEPT !.enabled = (c.op = "unlock")]
                     [] OTHER -> [row EXCEPT !.admin = (c.op = "promote")]

ReadUser(h) ==
    LET u == call[h].user
    IN /\ call[h].pc = "read"
       /\ IF users[u].on
          THEN Go(h, [call[h] EXCEPT !.pc = "write", !.read = users[u], !.row = Changed(call[h], users[u])])
          ELSE End(h)
       /\ UNCHANGED <<users, sessions, told, races, calls, failed>>

\* ... and written back; a new password or a lock ends the user's sessions, unless that
\* fails, which nobody looks at.
WriteUser(h) ==
    LET c == call[h]
    IN /\ c.pc = "write"
       /\ \/ /\ Written(h, c.row) /\ UNCHANGED failed
             /\ IF c.op \in {"password", "lock"} THEN To(h, "sessions") ELSE End(h)
             /\ told' = [told EXCEPT ![c.user] = CASE c.op = "password" -> [@ EXCEPT !.password = c.value]
                                                   [] c.op \in {"lock", "unlock"} -> [@ EXCEPT !.enabled = c.row.enabled]
                                                   [] OTHER -> @]
          \/ /\ failed < MaxFailed /\ failed' = failed + 1 /\ End(h) /\ UNCHANGED <<users, races, told>>
       /\ UNCHANGED <<sessions, calls>>
EndSessions(h) ==
    LET c == call[h]
    IN /\ c.pc = "sessions"
       /\ \/ sessions' = DropSessions(c.user) /\ UNCHANGED <<failed, races>>
          \/ /\ failed < MaxFailed /\ failed' = failed + 1
             /\ races' = races \cup {"sessions kept"} /\ UNCHANGED sessions
       /\ IF c.op = "delete" THEN To(h, "delete") ELSE End(h)
       /\ UNCHANGED <<users, told, calls>>

\* createUser(): the name is looked for, and is unique in the table besides.
CreateUser ==
    /\ AdminAsks /\ calls < MaxCalls /\ calls' = calls + 1
    /\ \E u \in Ids, p \in Passwords, admin \in BOOLEAN :
          /\ ~users[u].used
          /\ users' = [users EXCEPT ![u] = [on |-> TRUE, used |-> TRUE, password |-> p, admin |-> admin,
                                            enabled |-> TRUE]]
          /\ told' = [told EXCEPT ![u] = [password |-> p, enabled |-> TRUE]]
    /\ UNCHANGED <<sessions, call, races, failed>>

\* deleteUser(), of somebody else: the last administrator stays, by a count made
\* before the sessions and the row go.
AskDelete(h) ==
    \E u \in Existing, t \in Tokens :
        /\ MayUse(t) /\ users[sessions[t].user].admin /\ sessions[t].user # u
        /\ Begin(h, [Idle EXCEPT !.op = "delete", !.pc = "count", !.user = u])
CountAdmins(h) ==
    LET u == call[h].user
    IN /\ At(h, "delete", "count")
       /\ IF u \in Existing /\ (users[u].admin => Cardinality(Admins) > 1)
          THEN Go(h, [call[h] EXCEPT !.pc = "sessions", !.admins = Admins, !.read = users[u]])
          ELSE End(h)
       /\ UNCHANGED <<users, sessions, told, races, calls, failed>>
DeleteUser(h) ==
    LET c == call[h]
    IN /\ At(h, "delete", "delete")
       /\ \/ /\ users' = [users EXCEPT ![c.user] = NoRow(TRUE)] /\ UNCHANGED failed
             /\ races' = IF c.admins # Admins THEN races \cup {"admins"} ELSE races
          \/ failed < MaxFailed /\ failed' = failed + 1 /\ UNCHANGED <<users, races>>
       /\ End(h) /\ UNCHANGED <<sessions, told, calls>>

-----------------------------------------------------------------------------
UsersNext ==
    \/ \E h \in Threads : \/ Login(h) \/ CreateSession(h) \/ TouchUser(h) \/ AskChange(h) \/ ReadUser(h)
                          \/ WriteUser(h) \/ EndSessions(h) \/ AskDelete(h) \/ CountAdmins(h) \/ DeleteUser(h)
    \/ Logout \/ SessionExpires \/ UseExpired \/ CleanupExpiredSessions \/ CreateUser

UsersSpec == UsersInit /\ [][UsersNext]_usersVars

-----------------------------------------------------------------------------
(* Properties *)

Changing(u) == \E h \in Threads : call[h].op # "idle" /\ call[h].user = u

\* A change of a user holds until the next one: the password and the lock are those
\* last set, and no session opened with an older password or before the lock lives on.
\* This is true of any interleaving but three: a row
\* written back over another's change, a session opened after the user it was asked for
\* has changed, and a failure to end the sessions.  There is an administrator, unless
\* one was deprived of the rights, or two were deleted at once.
AccessChangesHold ==
    /\ races \cap {"row", "login", "sessions kept"} = {} =>
          \A u \in Existing : ~Changing(u) =>
             /\ users[u].password = told[u].password /\ users[u].enabled = told[u].enabled
             /\ \A t \in Tokens : sessions[t].user = u =>
                   sessions[t].password = users[u].password /\ users[u].enabled
    /\ races \cap {"row", "demoted", "admins"} = {} => Admins # {}
=============================================================================
