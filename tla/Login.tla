------------------------------- MODULE Login -------------------------------
(***************************************************************************)
(* The administrator's way in: the first administrator, made when a        *)
(* process starts; the login, limited per address and per account in each  *)
(* process; and the sessions, kept in the database, that requests with the *)
(* session cookie are let in by.                                           *)
(*                                                                         *)
(* Processes come and go and may overlap, as in a rolling deployment.  The *)
(* limiters live in a process, users and sessions in the database, the     *)
(* session cookie in the browser, shared by its tabs.  A request is a      *)
(* sequence of steps that interleave with those of others.                 *)
(* The requests modelled are those served by one of the processes: another *)
(* one has limiters of its own, which these never touch.                   *)
(***************************************************************************)
EXTENDS Integers, Sequences, FiniteSets, RateLimiter

CONSTANTS
    Processes,
    Serving,        \* the process that serves the browser
    Tabs,           \* of the browser; each has one request under way at a time
    Emails, Addresses, Passwords, SessionIds,
    AdminEmail,     \* ADMIN_EMAIL
    AccountLimit,   \* of LoginLimiter
    AddressLimit,   \* of IPLimiter
    TTL,            \* SessionTTL
    MaxTime,        \* bound: the clock
    MaxAttempts,    \* bound: attempts at one limiter of a process
    None

ASSUME ConstantsAssumption ==
    /\ AdminEmail \in Emails
    /\ Serving \in Processes
    /\ Emails \cap Addresses = {}
    /\ {Window, AccountLimit, AddressLimit, TTL, MaxTime, MaxAttempts} \subseteq Nat \ {0}
    /\ None \notin Emails \cup Addresses \cup Passwords \cup SessionIds

VARIABLES
    now,        \* the clock of the processes and of the database
    users,      \* admin_users: the password of each email
    sessions,   \* admin_sessions rows
    starting,   \* how far the start of each process is
    windows,    \* RateLimiter.events of both limiters of Serving
    tried,      \* history: the attempts they have seen since Serving started
    requests,   \* the request each tab has under way
    jar,        \* the session cookie of the browser
    entry       \* history: the login the browser was told of last, unless it
                \* was told of a logout since

limiterVars == <<windows, tried>>

browserVars == <<jar, entry>>

vars == <<now, users, sessions, limiterVars, starting, requests, browserVars>>

-----------------------------------------------------------------------------

Limited == Emails \cup Addresses

Limit(k) == IF k \in Emails THEN AccountLimit ELSE AddressLimit

Times == 0 .. MaxTime

SessionRows == [user : Emails, expires : 0 .. MaxTime + TTL, deleted : BOOLEAN]

Cookies == [sid : SessionIds, expires : 0 .. MaxTime + TTL]

Entries == [user : Emails, at : Times]

\* told is history: what entry was when the request was sent.
Requests == [step : {"idle", "address", "account", "verify", "create", "auth", "logout"},
             email : Emails \cup {None}, address : Addresses \cup {None},
             password : Passwords \cup {None}, sid : SessionIds \cup {None},
             told : Entries \cup {None}]

\* NULL, no cookie and no login are different from every row, cookie and login.
ASSUME NullAssumption == None \notin SessionRows \cup Cookies \cup Entries

Idle == [step |-> "idle", email |-> None, address |-> None, password |-> None, sid |-> None,
         told |-> None]

NoWindows == [k \in Limited |-> <<>>]

(***************************************************************************)
(* The type invariant; a limiter keeps its times in order and never more   *)
(* of them than there were attempts.                                       *)
(***************************************************************************)
TypeOK ==
    /\ now \in Times
    /\ users \in [Emails -> Passwords \cup {None}]
    /\ sessions \in [SessionIds -> SessionRows \cup {None}]
    /\ starting \in [Processes -> [step : {"down", "missing", "up"}, password : Passwords \cup {None}]]
    /\ windows \in [Limited -> Seq(Times)]
    /\ tried \in [Limited -> Seq([at : Times, admitted : BOOLEAN])]
    /\ \A k \in Limited :
          /\ Len(windows[k]) <= Len(tried[k])
          /\ \A i, j \in 1 .. Len(windows[k]) : i <= j => windows[k][i] <= windows[k][j]
    /\ requests \in [Tabs -> Requests]
    /\ jar \in Cookies \cup {None}
    /\ entry \in Entries \cup {None}

Init ==
    /\ now = 0
    /\ users = [e \in Emails |-> None]
    /\ sessions = [s \in SessionIds |-> None]
    /\ starting = [p \in Processes |-> [step |-> "down", password |-> None]]
    /\ windows = NoWindows
    /\ tried = NoWindows
    /\ requests = [t \in Tabs |-> Idle]
    /\ jar = None
    /\ entry = None

Tick ==
    /\ now < MaxTime
    /\ now' = now + 1
    /\ UNCHANGED <<users, sessions, starting, limiterVars, requests, browserVars>>

-----------------------------------------------------------------------------
(* The start of a process: EnsureInitialAdmin, then ListenAndServe.        *)

IsUp == starting[Serving].step = "up"

GoesUp(p) == starting' = [starting EXCEPT ![p] = [step |-> "up", password |-> None]]

\* The administrator exists, or the environment names none, or a statement fails.
StartWithout(p) ==
    /\ starting[p].step = "down"
    /\ GoesUp(p)
    /\ UNCHANGED <<now, users, sessions, limiterVars, requests, browserVars>>

\* GetAdminUserByEmail finds no row; another process may make one before this one does.
StartMissing(p, password) ==
    /\ starting[p].step = "down"
    /\ users[AdminEmail] = None
    /\ starting' = [starting EXCEPT ![p] = [step |-> "missing", password |-> password]]
    /\ UNCHANGED <<now, users, sessions, limiterVars, requests, browserVars>>

\* Mutant: ON CONFLICT (email) DO UPDATE.
InsertedOver(email, password) == [users EXCEPT ![email] = password]

\* CreateAdminUser with ON CONFLICT (email) DO NOTHING.
Inserted(email, password) == [users EXCEPT ![email] = IF @ = None THEN password ELSE @]

\* A conflict is an error that is logged: the process serves all the same.
StartCreate(p) ==
    /\ starting[p].step = "missing"
    /\ users' = Inserted(AdminEmail, starting[p].password)
    /\ GoesUp(p)
    /\ UNCHANGED <<now, sessions, limiterVars, requests, browserVars>>

\* Serving ends, with its limiters and the requests under way.
Stop ==
    /\ IsUp
    /\ starting' = [starting EXCEPT ![Serving] = [step |-> "down", password |-> None]]
    /\ windows' = NoWindows
    /\ tried' = NoWindows
    /\ requests' = [t \in Tabs |-> Idle]
    /\ UNCHANGED <<now, users, sessions, browserVars>>

\* Another process ends, or one before it is up.
StopOther(p) ==
    /\ starting[p].step # "down"
    /\ p = Serving => ~IsUp
    /\ starting' = [starting EXCEPT ![p] = [step |-> "down", password |-> None]]
    /\ UNCHANGED <<now, users, sessions, limiterVars, requests, browserVars>>

-----------------------------------------------------------------------------
(* Requests and answers.                                                   *)

CanSend(t) == requests[t].step = "idle" /\ IsUp

Sent(t, request) == requests' = [requests EXCEPT ![t] = request]

\* The request is over, and the answer brings the browser a cookie; it may get lost.
Answered(t, cookie, told) ==
    /\ requests' = [requests EXCEPT ![t] = Idle]
    /\ \/ jar' = cookie /\ entry' = told
       \/ UNCHANGED browserVars

Finished(t) == requests' = [requests EXCEPT ![t] = Idle] /\ UNCHANGED browserVars

-----------------------------------------------------------------------------
(* Login.                                                                  *)

GoesTo(t, step) == requests' = [requests EXCEPT ![t].step = step] /\ UNCHANGED browserVars

Submit(t, email, address, password) ==
    /\ CanSend(t)
    /\ \A k \in {email, address} : Len(tried[k]) < MaxAttempts
    /\ Sent(t, [step |-> "address", email |-> email, address |-> address, password |-> password,
                sid |-> None, told |-> entry])
    /\ UNCHANGED <<now, users, sessions, limiterVars, starting, browserVars>>

Allow(k, admitted) ==
    LET times == Counted(windows[k], now)
    IN  /\ admitted = Within(times, Limit(k))
        /\ windows' = [windows EXCEPT ![k] = times]
        /\ tried' = [tried EXCEPT ![k] = Append(@, [at |-> now, admitted |-> admitted])]

\* IPLimiter is asked first; an attempt it refuses is not counted for the account.
AskAddress(t) ==
    LET r == requests[t]
    IN  /\ r.step = "address"
        /\ \/ Allow(r.address, TRUE) /\ GoesTo(t, "account")
           \/ Allow(r.address, FALSE) /\ Finished(t)
        /\ UNCHANGED <<now, users, sessions, starting>>

AskAccount(t) ==
    LET r == requests[t]
    IN  /\ r.step = "account"
        /\ \/ Allow(r.email, TRUE) /\ GoesTo(t, "verify")
           \/ Allow(r.email, FALSE) /\ Finished(t)
        /\ UNCHANGED <<now, users, sessions, starting>>

\* lookupAdminUser.
Verify(t) ==
    LET r == requests[t]
    IN  /\ r.step = "verify"
        /\ IF users[r.email] # None /\ users[r.email] = r.password
           THEN GoesTo(t, "create")
           ELSE Finished(t)
        /\ UNCHANGED <<now, users, sessions, limiterVars, starting>>

\* CreateSession with a new id, and the answer that sets the cookie.  The session a
\* cookie named before stays open.
CreateSession(t) ==
    LET r == requests[t]
    IN  /\ r.step = "create"
        /\ \E sid \in SessionIds :
              /\ sessions[sid] = None
              /\ sessions' = [sessions EXCEPT ![sid] =
                    [user |-> r.email, expires |-> now + TTL, deleted |-> FALSE]]
              /\ Answered(t, [sid |-> sid, expires |-> now + TTL], [user |-> r.email, at |-> now])
        /\ UNCHANGED <<now, users, limiterVars, starting>>

\* A statement fails or the client is gone: nothing more happens.
GiveUp(t) ==
    /\ requests[t].step # "idle"
    /\ Finished(t)
    /\ UNCHANGED <<now, users, sessions, limiterVars, starting>>

-----------------------------------------------------------------------------
(* Requests with a session cookie.                                         *)

\* The session the browser names, until its cookie expires.
Named == IF jar # None /\ now < jar.expires THEN jar.sid ELSE None

\* GET of a page of the administrator.
GetAdmin(t) ==
    /\ CanSend(t)
    /\ Named # None
    /\ Sent(t, [Idle EXCEPT !.step = "auth", !.sid = Named, !.told = entry])
    /\ UNCHANGED <<now, users, sessions, limiterVars, starting, browserVars>>

\* GetAdminSession finds the row.
Open(sid) == sessions[sid] # None /\ ~sessions[sid].deleted /\ sessions[sid].expires > now

\* RequireAuth lets the request in, as the user of the session.
Enter(t) ==
    /\ requests[t].step = "auth"
    /\ Open(requests[t].sid)
    /\ Finished(t)
    /\ UNCHANGED <<now, users, sessions, limiterVars, starting>>

\* Any error of LookupSession.
RedirectToLogin(t) ==
    /\ requests[t].step = "auth"
    /\ Finished(t)
    /\ UNCHANGED <<now, users, sessions, limiterVars, starting>>

SubmitLogout(t) ==
    /\ CanSend(t)
    /\ Sent(t, [Idle EXCEPT !.step = "logout", !.sid = Named, !.told = entry])
    /\ UNCHANGED <<now, users, sessions, limiterVars, starting, browserVars>>

\* DestroySession; its error is ignored.
Destroyed(sid) ==
    \/ UNCHANGED sessions
    \/ sid # None /\ sessions' = [sessions EXCEPT ![sid].deleted = TRUE]

\* Mutant: the cookie stays where it is.
LogoutKeepsCookie(t) ==
    /\ requests[t].step = "logout"
    /\ Destroyed(requests[t].sid)
    /\ Answered(t, jar, None)
    /\ UNCHANGED <<now, users, limiterVars, starting>>

\* The cookie goes, the row may stay.
Logout(t) ==
    /\ requests[t].step = "logout"
    /\ Destroyed(requests[t].sid)
    /\ Answered(t, None, None)
    /\ UNCHANGED <<now, users, limiterVars, starting>>

-----------------------------------------------------------------------------

Next ==
    \/ Tick
    \/ \E p \in Processes :
          \/ StartWithout(p)
          \/ \E password \in Passwords : StartMissing(p, password)
          \/ StartCreate(p)
          \/ StopOther(p)
    \/ Stop
    \/ \E t \in Tabs :
          \/ \E email \in Emails, address \in Addresses, password \in Passwords :
                Submit(t, email, address, password)
          \/ AskAddress(t) \/ AskAccount(t) \/ Verify(t) \/ CreateSession(t)
          \/ GiveUp(t)
          \/ GetAdmin(t) \/ Enter(t) \/ RedirectToLogin(t)
          \/ SubmitLogout(t) \/ Logout(t)

Spec == Init /\ [][Next]_vars

-----------------------------------------------------------------------------
(* Properties.                                                             *)

\* Those of the first n attempts that fall into the window that ends at t.
InWindow(attempts, n, t) == { i \in 1 .. n : t - Window < attempts[i].at /\ attempts[i].at <= t }

(***************************************************************************)
(* No burst: in no span of Window, wherever it begins, a limiter admits    *)
(* more than its limit (section 6 of docs/03-basic-design.md).  The times  *)
(* are those of Allow: the password is compared later.                     *)
(***************************************************************************)
NoBurst ==
    \A k \in Limited, t \in Times :
        Cardinality({ i \in InWindow(tried[k], Len(tried[k]), t) : tried[k][i].admitted }) <= Limit(k)

(***************************************************************************)
(* Nobody is refused who was quiet: a refused attempt has a full limit of  *)
(* attempts before it in its window, of the same account or address in the *)
(* same process.                                                           *)
(***************************************************************************)
RefusedWhenBusy ==
    \A k \in Limited :
        \A i \in 1 .. Len(tried[k]) :
            ~tried[k][i].admitted =>
                Cardinality(InWindow(tried[k], i - 1, tried[k][i].at)) >= Limit(k)

(***************************************************************************)
(* The first administrator is made once: however many processes start at   *)
(* once and whatever password each was given, the account that was made is *)
(* never given another one.                                                *)
(***************************************************************************)
PasswordIsKept ==
    [][\A e \in Emails : users[e] # None => users'[e] = users[e]]_vars

(***************************************************************************)
(* A request is let in only if it was sent while the browser believed to   *)
(* be logged in, by a login less than SessionTTL ago and as the user who   *)
(* logged in then: neither another tab's logout, whose DestroySession may  *)
(* fail unseen, nor an answer that was lost leaves a way in.               *)
(***************************************************************************)
EntersAfterLogin ==
    [][\A t \in Tabs :
          Enter(t) => LET told == requests[t].told
                      IN  /\ told # None
                          /\ told.user = sessions[requests[t].sid].user
                          /\ now < told.at + TTL]_vars

=============================================================================
