---------------------------- MODULE LoginProofs ----------------------------
(***************************************************************************)
(* Theorems about Login, for any number of processes, tabs, accounts and   *)
(* sessions: who is let in, and that the first administrator stays.        *)
(***************************************************************************)
EXTENDS Login, SequenceTheorems, FiniteSetTheorems, TLAPS

\* How far the start of a process is.
Starts == [step : {"down", "missing", "up"}, password : Passwords \cup {None}]

\* The types without those of the limiters.
TypeInv ==
    /\ now \in Times
    /\ users \in [Emails -> Passwords \cup {None}]
    /\ sessions \in [SessionIds -> SessionRows \cup {None}]
    /\ requests \in [Tabs -> Requests]
    /\ jar \in Cookies \cup {None}
    /\ entry \in Entries \cup {None}
    /\ starting \in [Processes -> Starts]

\* The session sid came from the login that is told.
CameFrom(sid, told) ==
    /\ told # None
    /\ sid \in SessionIds
    /\ sessions[sid] # None
    /\ sessions[sid].user = told.user
    /\ sessions[sid].expires = told.at + TTL

(***************************************************************************)
(* The cookie in the jar came with the answer of the login the browser was *)
(* told of last, and a request names the session of the login it was sent  *)
(* under.  Rows are never given another user or another end, so this       *)
(* outlives what other tabs do to the jar in the meantime.                 *)
(***************************************************************************)
CookiesInv ==
    /\ jar # None => CameFrom(jar.sid, entry)
    /\ \A t \in Tabs : requests[t].sid # None => CameFrom(requests[t].sid, requests[t].told)

\* What a request brings along.
Complete(r) ==
    /\ r.step = "auth" => r.sid # None
    /\ r.step \in {"address", "account", "verify", "create"} => r.email \in Emails

RequestsInv == \A t \in Tabs : Complete(requests[t])

Inv == TypeInv /\ CookiesInv /\ RequestsInv

LEMMA IdleType == Idle \in Requests /\ Idle.sid = None /\ Complete(Idle)
BY DEF Idle, Requests, Complete

LEMMA InitInv == Init => Inv
<1>. SUFFICES ASSUME Init PROVE Inv
    OBVIOUS
<1>1. now \in Times
    BY ConstantsAssumption DEF Init, Times
<1>2. TypeInv
    BY <1>1, IdleType DEF Init, TypeInv, Starts
<1>3. CookiesInv /\ RequestsInv
    BY IdleType DEF Init, CookiesInv, RequestsInv
<1>. QED
    BY <1>2, <1>3 DEF Inv

\* Sessions are made and deleted, never changed.
LEMMA CameFromKept ==
    ASSUME NEW sid, NEW told, CameFrom(sid, told),
           \A s \in SessionIds : sessions[s] # None =>
               /\ sessions'[s] # None
               /\ sessions'[s].user = sessions[s].user
               /\ sessions'[s].expires = sessions[s].expires
    PROVE  CameFrom(sid, told)'
BY DEF CameFrom

SessionsKept ==
    \A s \in SessionIds : sessions[s] # None =>
        /\ sessions'[s] # None
        /\ sessions'[s].user = sessions[s].user
        /\ sessions'[s].expires = sessions[s].expires

\* One request changes; the jar stays or gets the cookie of a login.
LEMMA CookiesKept ==
    ASSUME Inv, SessionsKept, NEW t, NEW new,
           requests' = [requests EXCEPT ![t] = new],
           new.sid # None => CameFrom(new.sid, new.told),
           Complete(new),
           jar' # None => (jar' = jar /\ entry' = entry) \/ CameFrom(jar.sid, entry)'
    PROVE  CookiesInv' /\ RequestsInv'
<1>1. jar' # None => CameFrom(jar.sid, entry)'
    BY CameFromKept DEF Inv, CookiesInv, SessionsKept
<1>2. ASSUME NEW u \in Tabs
      PROVE  /\ requests'[u].sid # None => CameFrom(requests[u].sid, requests[u].told)'
             /\ Complete(requests[u])'
    <2>1. requests'[u] = IF u = t THEN new ELSE requests[u]
        BY DEF Inv, TypeInv
    <2>2. CASE u = t
        BY <2>1, <2>2, CameFromKept DEF SessionsKept, Complete
    <2>3. CASE u # t
        BY <2>1, <2>3, CameFromKept DEF Inv, CookiesInv, RequestsInv, SessionsKept, Complete
    <2>. QED
        BY <2>2, <2>3
<1>. QED
    BY <1>1, <1>2 DEF CookiesInv, RequestsInv

-----------------------------------------------------------------------------
(* The steps.                                                              *)

LEMMA ElsewhereInv ==
    ASSUME Inv, UNCHANGED <<sessions, requests, jar, entry>>,
           now' \in Times,
           users' \in [Emails -> Passwords \cup {None}],
           starting' \in [Processes -> Starts]
    PROVE  Inv'
BY DEF Inv, TypeInv, CookiesInv, CameFrom, RequestsInv, Complete

\* Starting processes change users at most.
LEMMA StartingInv ==
    ASSUME Inv, NEW p \in Processes,
           \/ StartWithout(p)
           \/ \E password \in Passwords : StartMissing(p, password)
           \/ StartCreate(p)
           \/ StopOther(p)
    PROVE  Inv'
<1>1. UNCHANGED <<now, sessions, requests, jar, entry>>
    BY DEF StartWithout, StartMissing, StartCreate, StopOther, browserVars
<1>2. users' \in [Emails -> Passwords \cup {None}]
    BY DEF Inv, TypeInv, Starts, Inserted, StartWithout, StartMissing, StartCreate, StopOther
<1>3. starting' \in [Processes -> Starts]
    <2>1. PICK start \in Starts : starting' = [starting EXCEPT ![p] = start]
        BY DEF Starts, GoesUp, StartWithout, StartMissing, StartCreate, StopOther
    <2>. QED
        BY <2>1 DEF Inv, TypeInv
<1>. QED
    BY <1>1, <1>2, <1>3, ElsewhereInv DEF Inv, TypeInv

LEMMA TickInv ==
    ASSUME Inv, Tick
    PROVE  Inv'
<1>1. now' \in Times
    BY ConstantsAssumption DEF Inv, TypeInv, Times, Tick
<1>. QED
    BY <1>1, ElsewhereInv DEF Inv, TypeInv, Tick, browserVars

LEMMA StopInv ==
    ASSUME Inv, Stop
    PROVE  Inv'
<1>1. /\ UNCHANGED <<now, users, sessions, jar, entry>>
      /\ requests' = [t \in Tabs |-> Idle]
    BY DEF Stop, browserVars
<1>2. starting' \in [Processes -> Starts]
    BY DEF Stop, Inv, TypeInv, Starts
<1>3. TypeInv'
    BY <1>1, <1>2, IdleType DEF Inv, TypeInv
<1>4. CookiesInv'
    BY <1>1, IdleType DEF Inv, CookiesInv, CameFrom
<1>5. RequestsInv'
    BY <1>1, IdleType DEF RequestsInv, Complete
<1>. QED
    BY <1>3, <1>4, <1>5 DEF Inv

\* A request moves on or is over, and nothing but the tab's request changes.
LEMMA MovedInv ==
    ASSUME Inv, NEW t \in Tabs, NEW new \in Requests,
           requests' = [requests EXCEPT ![t] = new],
           new.sid # None => CameFrom(new.sid, new.told),
           Complete(new),
           UNCHANGED <<now, users, sessions, starting, jar, entry>>
    PROVE  Inv'
<1>1. TypeInv'
    BY DEF Inv, TypeInv
<1>2. SessionsKept
    BY DEF SessionsKept
<1>3. CookiesInv' /\ RequestsInv'
    BY <1>2, CookiesKept
<1>. QED
    BY <1>1, <1>3 DEF Inv

LEMMA FinishedInv ==
    ASSUME Inv, NEW t \in Tabs, Finished(t), UNCHANGED <<now, users, sessions, starting>>
    PROVE  Inv'
<1>1. requests' = [requests EXCEPT ![t] = Idle] /\ UNCHANGED <<jar, entry>>
    BY DEF Finished, browserVars
<1>. QED
    BY <1>1, IdleType, MovedInv

LEMMA GoesToInv ==
    ASSUME Inv, NEW t \in Tabs, NEW step \in {"account", "verify", "create"}, GoesTo(t, step),
           requests[t].step \in {"address", "account", "verify"},
           UNCHANGED <<now, users, sessions, starting>>
    PROVE  Inv'
<1>. DEFINE new == [requests[t] EXCEPT !.step = step]
<1>1. /\ new \in Requests
      /\ new.step = step
      /\ new.sid = requests[t].sid
      /\ new.told = requests[t].told
      /\ new.email = requests[t].email
    BY DEF Inv, TypeInv, Requests
<1>2. requests' = [requests EXCEPT ![t] = new] /\ UNCHANGED <<jar, entry>>
    BY DEF GoesTo, browserVars
<1>. HIDE DEF new
<1>3. Complete(new)
    BY <1>1 DEF Inv, RequestsInv, Complete
<1>4. new.sid # None => CameFrom(new.sid, new.told)
    BY <1>1 DEF Inv, CookiesInv
<1>. QED
    BY <1>1, <1>2, <1>3, <1>4, MovedInv

\* The steps that ask the limiters, the users and the sessions.
LEMMA ServedInv ==
    ASSUME Inv, NEW t \in Tabs,
           \/ AskAddress(t) \/ AskAccount(t) \/ Verify(t)
           \/ GiveUp(t) \/ Enter(t) \/ RedirectToLogin(t)
    PROVE  Inv'
<1>1. \/ Finished(t)
      \/ /\ requests[t].step \in {"address", "account", "verify"}
         /\ \E step \in {"account", "verify", "create"} : GoesTo(t, step)
    BY DEF AskAddress, AskAccount, Verify, GiveUp, Enter, RedirectToLogin
<1>2. UNCHANGED <<now, users, sessions, starting>>
    BY DEF AskAddress, AskAccount, Verify, GiveUp, Enter, RedirectToLogin
<1>. QED
    BY <1>1, <1>2, FinishedInv, GoesToInv

LEMMA SubmitInv ==
    ASSUME Inv, NEW t \in Tabs, NEW email \in Emails, NEW address \in Addresses,
           NEW password \in Passwords, Submit(t, email, address, password)
    PROVE  Inv'
<1>. DEFINE new == [step |-> "address", email |-> email, address |-> address,
                    password |-> password, sid |-> None, told |-> entry]
<1>1. new \in Requests /\ new.sid = None /\ Complete(new)
    BY DEF Inv, TypeInv, Requests, Complete
<1>2. requests' = [requests EXCEPT ![t] = new]
    BY DEF Submit, Sent
<1>3. UNCHANGED <<now, users, sessions, starting, jar, entry>>
    BY DEF Submit, browserVars
<1>. HIDE DEF new
<1>. QED
    BY <1>1, <1>2, <1>3, MovedInv

\* The session a browser names is that of its entry.
LEMMA NamedSession ==
    ASSUME Inv
    PROVE  /\ Named \in SessionIds \cup {None}
           /\ Named # None => CameFrom(Named, entry)
BY DEF Inv, TypeInv, CookiesInv, Named, Cookies

LEMMA SentInv ==
    ASSUME Inv, NEW t \in Tabs, GetAdmin(t) \/ SubmitLogout(t)
    PROVE  Inv'
<1>1. PICK step \in {"auth", "logout"} :
          /\ requests' = [requests EXCEPT ![t] =
                [step |-> step, email |-> None, address |-> None, password |-> None,
                 sid |-> Named, told |-> entry]]
          /\ step = "auth" => Named # None
    BY DEF GetAdmin, SubmitLogout, Sent, Idle
<1>. DEFINE new == [step |-> step, email |-> None, address |-> None, password |-> None,
                    sid |-> Named, told |-> entry]
<1>2. new \in Requests
    BY NamedSession DEF Inv, TypeInv, Requests
<1>3. (new.sid # None => CameFrom(new.sid, new.told)) /\ Complete(new)
    BY <1>1, NamedSession DEF Complete
<1>4. UNCHANGED <<now, users, sessions, starting, jar, entry>>
    BY DEF GetAdmin, SubmitLogout, browserVars
<1>. HIDE DEF new
<1>5. requests' = [requests EXCEPT ![t] = new]
    BY <1>1 DEF new
<1>. QED
    BY <1>2, <1>3, <1>4, <1>5, MovedInv

LEMMA CreateSessionInv ==
    ASSUME Inv, NEW t \in Tabs, CreateSession(t)
    PROVE  Inv'
<1>. DEFINE email == requests[t].email
            row == [user |-> email, expires |-> now + TTL, deleted |-> FALSE]
            cookie(sid) == [sid |-> sid, expires |-> now + TTL]
            told == [user |-> email, at |-> now]
<1>1. PICK sid \in SessionIds :
          /\ sessions[sid] = None
          /\ sessions' = [sessions EXCEPT ![sid] = row]
          /\ Answered(t, cookie(sid), told)
    BY DEF CreateSession
<1>2. email \in Emails
    BY DEF CreateSession, Inv, RequestsInv, Complete
<1>3. row \in SessionRows /\ cookie(sid) \in Cookies /\ told \in Entries
    <2>1. now \in Times /\ now + TTL \in 0 .. MaxTime + TTL
        BY ConstantsAssumption DEF Inv, TypeInv, Times
    <2>. QED
        BY <1>2, <2>1 DEF SessionRows, Cookies, Entries
<1>4. row # None /\ told # None
    BY <1>3, NullAssumption
<1>5. /\ requests' = [requests EXCEPT ![t] = Idle]
      /\ \/ jar' = cookie(sid) /\ entry' = told
         \/ UNCHANGED <<jar, entry>>
      /\ UNCHANGED <<now, users, starting>>
    BY <1>1 DEF CreateSession, Answered, browserVars
<1>6. TypeInv'
    BY <1>1, <1>3, <1>5, IdleType DEF Inv, TypeInv
<1>7. SessionsKept
    BY <1>1, <1>4 DEF SessionsKept, Inv, TypeInv
<1>8. jar' = cookie(sid) /\ entry' = told => CameFrom(jar.sid, entry)'
    BY <1>1, <1>4 DEF CameFrom, Inv, TypeInv
<1>9. CookiesInv' /\ RequestsInv'
    BY <1>5, <1>7, <1>8, IdleType, CookiesKept
<1>. QED
    BY <1>6, <1>9 DEF Inv

LEMMA LogoutInv ==
    ASSUME Inv, NEW t \in Tabs, Logout(t)
    PROVE  Inv'
<1>1. /\ requests' = [requests EXCEPT ![t] = Idle]
      /\ \/ jar' = None /\ entry' = None
         \/ UNCHANGED <<jar, entry>>
      /\ UNCHANGED <<now, users, starting>>
    BY DEF Logout, Answered, browserVars
<1>2. sessions' \in [SessionIds -> SessionRows \cup {None}] /\ SessionsKept
    <2>. DEFINE sid == requests[t].sid
    <2>1. CASE UNCHANGED sessions
        BY <2>1 DEF Inv, TypeInv, SessionsKept
    <2>2. CASE sid # None /\ sessions' = [sessions EXCEPT ![sid].deleted = TRUE]
        <3>. DEFINE row == [sessions[sid] EXCEPT !.deleted = TRUE]
        <3>1. sid \in SessionIds /\ sessions[sid] \in SessionRows
            BY <2>2 DEF Inv, TypeInv, CookiesInv, CameFrom
        <3>2. /\ row \in SessionRows
              /\ row.user = sessions[sid].user
              /\ row.expires = sessions[sid].expires
            BY <3>1 DEF SessionRows
        <3>3. row # None /\ sessions' = [sessions EXCEPT ![sid] = row]
            BY <2>2, <3>2, NullAssumption
        <3>. HIDE DEF sid, row
        <3>. QED
            BY <3>1, <3>2, <3>3 DEF Inv, TypeInv, SessionsKept
    <2>. QED
        BY <2>1, <2>2 DEF Logout, Destroyed
<1>3. TypeInv'
    BY <1>1, <1>2, IdleType, NullAssumption DEF Inv, TypeInv
<1>4. CookiesInv' /\ RequestsInv'
    BY <1>1, <1>2, IdleType, CookiesKept
<1>. QED
    BY <1>3, <1>4 DEF Inv

LEMMA StepInv == Inv /\ [Next]_vars => Inv'
<1>. SUFFICES ASSUME Inv, [Next]_vars PROVE Inv'
    OBVIOUS
<1>1. CASE UNCHANGED vars
    BY <1>1, ElsewhereInv DEF vars, browserVars, Inv, TypeInv
<1>2. CASE Tick \/ Stop
    BY <1>2, TickInv, StopInv
<1>3. ASSUME NEW p \in Processes,
             \/ StartWithout(p)
             \/ \E password \in Passwords : StartMissing(p, password)
             \/ StartCreate(p)
             \/ StopOther(p)
      PROVE  Inv'
    BY <1>3, StartingInv
<1>4. ASSUME NEW t \in Tabs,
             \E email \in Emails, address \in Addresses, password \in Passwords :
                Submit(t, email, address, password)
      PROVE  Inv'
    BY <1>4, SubmitInv
<1>5. ASSUME NEW t \in Tabs,
             \/ AskAddress(t) \/ AskAccount(t) \/ Verify(t) \/ CreateSession(t)
             \/ GiveUp(t)
             \/ GetAdmin(t) \/ Enter(t) \/ RedirectToLogin(t)
             \/ SubmitLogout(t) \/ Logout(t)
      PROVE  Inv'
    BY <1>5, ServedInv, SentInv, CreateSessionInv, LogoutInv
<1>. QED
    BY <1>1, <1>2, <1>3, <1>4, <1>5 DEF Next

LEMMA SpecInv == Spec => []Inv
<1>. QED
    BY InitInv, StepInv, PTL DEF Spec

-----------------------------------------------------------------------------
(* The theorems.                                                           *)

(***************************************************************************)
(* RequireAuth lets a request in only if it was sent under a login that    *)
(* the browser had not been told the end of, of that user and less than    *)
(* SessionTTL ago: for any number of tabs, lost answers, unseen failures   *)
(* of DestroySession and restarts.                                         *)
(***************************************************************************)
THEOREM EntersCorrect == Spec => EntersAfterLogin
<1>. DEFINE Entered == \A t \in Tabs :
                Enter(t) => LET told == requests[t].told
                            IN  /\ told # None
                                /\ told.user = sessions[requests[t].sid].user
                                /\ now < told.at + TTL
<1>1. Inv /\ [Next]_vars => [Entered]_vars
    <2>. SUFFICES ASSUME Inv, NEW t \in Tabs, Enter(t)
                  PROVE  /\ requests[t].told # None
                         /\ requests[t].told.user = sessions[requests[t].sid].user
                         /\ now < requests[t].told.at + TTL
        OBVIOUS
    <2>1. CameFrom(requests[t].sid, requests[t].told)
        BY DEF Enter, Inv, CookiesInv, RequestsInv, Complete
    <2>2. sessions[requests[t].sid].expires > now
        BY DEF Enter, Open
    <2>3. now \in Nat /\ sessions[requests[t].sid].expires \in Nat
        BY <2>1, ConstantsAssumption DEF CameFrom, Inv, TypeInv, Times, SessionRows
    <2>. QED
        BY <2>1, <2>2, <2>3 DEF CameFrom
<1>. QED
    BY <1>1, SpecInv, PTL DEF Spec, EntersAfterLogin

(***************************************************************************)
(* The password of the first administrator is never replaced, however many *)
(* processes start at once.                                                *)
(***************************************************************************)
THEOREM PasswordCorrect == Spec => PasswordIsKept
<1>. DEFINE Unchanged == \A e \in Emails : users[e] # None => users'[e] = users[e]
<1>1. Inv /\ [Next]_vars => [Unchanged]_vars
    <2>. SUFFICES ASSUME Inv, Next, NEW e \in Emails, users[e] # None
                  PROVE  users'[e] = users[e]
        OBVIOUS
    <2>1. CASE \E p \in Processes : StartCreate(p)
        BY <2>1 DEF StartCreate, Inserted, Inv, TypeInv
    <2>2. UNCHANGED users \/ \E p \in Processes : StartCreate(p)
        BY DEF Next, Tick, StartWithout, StartMissing, StopOther, Stop, Submit, AskAddress,
               AskAccount, Verify, CreateSession, GiveUp, GetAdmin, Enter, RedirectToLogin,
               SubmitLogout, Logout
    <2>. QED
        BY <2>1, <2>2
<1>. QED
    BY <1>1, SpecInv, PTL DEF Spec, PasswordIsKept

-----------------------------------------------------------------------------
(* What RateLimiter.Allow keeps.                                           *)

LEMMA LeastNat ==
    ASSUME NEW S \in SUBSET Nat, S # {}
    PROVE  \E m \in S : \A n \in S : m <= n
<1>1. PICK m \in S : \A n \in S : <<n, m>> \notin OpToRel(<, Nat)
    BY NatLessThanWellFounded, WFMin
<1>2. \A n \in S : ~ (n < m)
    BY <1>1 DEF OpToRel
<1>. QED
    BY <1>2

\* The recursive function inside Kept.
IsKept(f, times, t) ==
    f = [i \in 0 .. Len(times) |->
            IF i = 0 THEN <<>>
            ELSE IF Recent(times[i], t) THEN Append(f[i-1], times[i])
            ELSE f[i-1]]

LEMMA KeptUnique ==
    ASSUME NEW times, Len(times) \in Nat, NEW t,
           NEW f, IsKept(f, times, t), NEW g, IsKept(g, times, t)
    PROVE  \A i \in 0 .. Len(times) : f[i] = g[i]
<1>. DEFINE Bad == { i \in 0 .. Len(times) : f[i] # g[i] }
<1>. SUFFICES ASSUME Bad # {} PROVE FALSE
    OBVIOUS
<1>0. Bad \in SUBSET Nat /\ Bad # {}
    OBVIOUS
<1>1. PICK m \in Bad : \A n \in Bad : m <= n
  <2>. HIDE DEF Bad
  <2>. QED
    BY <1>0, LeastNat
<1>2. m \in 0 .. Len(times) /\ f[m] # g[m]
    OBVIOUS
<1>3. CASE m = 0
    BY <1>2, <1>3 DEF IsKept
<1>4. CASE m # 0
  <2>1. m - 1 \in 0 .. Len(times) /\ m - 1 < m
    BY <1>2, <1>4
  <2>2. f[m-1] = g[m-1]
    BY <1>1, <2>1
  <2>3. /\ f[m] = IF Recent(times[m], t) THEN Append(f[m-1], times[m]) ELSE f[m-1]
        /\ g[m] = IF Recent(times[m], t) THEN Append(g[m-1], times[m]) ELSE g[m-1]
    BY <1>2, <1>4 DEF IsKept
  <2>. QED
    BY <1>2, <2>2, <2>3
<1>. QED
    BY <1>3, <1>4

LEMMA KeptResult ==
    ASSUME NEW times, Len(times) \in Nat, NEW t, NEW g, IsKept(g, times, t)
    PROVE  Kept(times, t) = g[Len(times)]
<1>. DEFINE it == CHOOSE f : IsKept(f, times, t)
<1>1. IsKept(it, times, t)
    OBVIOUS
<1>2. Kept(times, t) = it[Len(times)]
    BY DEF Kept, IsKept
<1>. HIDE DEF it
<1>. QED
    BY <1>1, <1>2, KeptUnique

InOrder(times) == \A i, j \in 1 .. Len(times) : i <= j => times[i] <= times[j]

\* The times that have left the window are the first ones.
LEMMA Cutoff ==
    ASSUME Window \in Nat, NEW times \in Seq(Nat), InOrder(times), NEW t \in Nat
    PROVE  \E c \in 0 .. Len(times) :
               /\ \A i \in 1 .. c : ~ Recent(times[i], t)
               /\ \A i \in c + 1 .. Len(times) : Recent(times[i], t)
<1>. DEFINE Ends == { c \in 0 .. Len(times) : \A i \in c + 1 .. Len(times) : Recent(times[i], t) }
<1>0. Len(times) \in Nat /\ \A i \in 1 .. Len(times) : times[i] \in Nat
    OBVIOUS
<1>1. Ends \in SUBSET Nat /\ Len(times) \in Ends
    BY <1>0
<1>2. PICK c \in Ends : \A n \in Ends : c <= n
  <2>. HIDE DEF Ends
  <2>. QED
    BY <1>1, LeastNat
<1>3. c \in 0 .. Len(times) /\ \A i \in c + 1 .. Len(times) : Recent(times[i], t)
    OBVIOUS
<1>4. ASSUME c # 0
      PROVE  ~ Recent(times[c], t)
  <2>. SUFFICES ASSUME Recent(times[c], t) PROVE FALSE
    OBVIOUS
  <2>1. c - 1 \in 0 .. Len(times) /\ ~ (c <= c - 1)
    BY <1>0, <1>3, <1>4
  <2>2. \A i \in (c - 1) + 1 .. Len(times) : i = c \/ i \in c + 1 .. Len(times)
    BY <1>0, <1>3
  <2>3. c - 1 \in Ends
    BY <1>3, <2>1, <2>2
  <2>. QED
    BY <1>2, <2>1, <2>3
<1>5. ASSUME NEW i \in 1 .. c
      PROVE  ~ Recent(times[i], t)
  <2>1. c # 0 /\ i \in 1 .. Len(times) /\ c \in 1 .. Len(times) /\ i <= c
    BY <1>0, <1>3
  <2>2. times[i] <= times[c] /\ times[i] \in Nat /\ times[c] \in Nat
    BY <1>0, <2>1 DEF InOrder
  <2>3. ~ (times[c] > t - Window)
    BY <1>4, <2>1 DEF Recent
  <2>. QED
    BY <2>2, <2>3 DEF Recent
<1>. QED
    BY <1>3, <1>5

(***************************************************************************)
(* The loop of Allow drops the times outside the window and keeps the      *)
(* others in order: since the times are in order, it cuts off a beginning. *)
(***************************************************************************)
LEMMA KeptIsSuffix ==
    ASSUME Window \in Nat, NEW times \in Seq(Nat), InOrder(times), NEW t \in Nat
    PROVE  \E c \in 0 .. Len(times) :
               /\ \A i \in 1 .. c : times[i] <= t - Window
               /\ \A i \in c + 1 .. Len(times) : times[i] > t - Window
               /\ Len(Kept(times, t)) = Len(times) - c
               /\ \A i \in 1 .. Len(times) - c : Kept(times, t)[i] = times[c + i]
               /\ Kept(times, t) \in Seq(Nat)
<1>0. Len(times) \in Nat /\ \A i \in 1 .. Len(times) : times[i] \in Nat
    OBVIOUS
<1>1. PICK c \in 0 .. Len(times) :
          /\ \A i \in 1 .. c : ~ Recent(times[i], t)
          /\ \A i \in c + 1 .. Len(times) : Recent(times[i], t)
    BY Cutoff
<1>. DEFINE g == [i \in 0 .. Len(times) |-> SubSeq(times, c + 1, i)]
<1>2. IsKept(g, times, t)
  <2>. SUFFICES ASSUME NEW i \in 0 .. Len(times)
                PROVE  SubSeq(times, c + 1, i) =
                           IF i = 0 THEN <<>>
                           ELSE IF Recent(times[i], t)
                                THEN Append(SubSeq(times, c + 1, i - 1), times[i])
                                ELSE SubSeq(times, c + 1, i - 1)
    <3>1. \A i \in 0 .. Len(times) : i # 0 => i - 1 \in 0 .. Len(times)
        BY <1>0
    <3>2. \A i \in 0 .. Len(times) : i # 0 => g[i-1] = SubSeq(times, c + 1, i - 1)
        BY <3>1
    <3>. QED
        BY <3>2 DEF IsKept
  <2>1. CASE i <= c
    <3>1. SubSeq(times, c + 1, i) = <<>> /\ SubSeq(times, c + 1, i - 1) = <<>>
        BY <1>0, <2>1, SubSeqEmpty
    <3>2. i # 0 => ~ Recent(times[i], t)
        BY <1>0, <1>1, <2>1
    <3>. QED
        BY <3>1, <3>2
  <2>2. CASE ~ (i <= c)
    <3>1. i # 0 /\ c + 1 \in 1 .. Len(times) /\ i \in c + 1 .. Len(times)
        BY <1>0, <2>2
    <3>2. SubSeq(times, c + 1, i) = SubSeq(times, c + 1, i - 1) \o <<times[i]>>
        BY <3>1, SubSeqRecursiveSecond
    <3>3. SubSeq(times, c + 1, i - 1) \in Seq(Nat) /\ times[i] \in Nat
        BY <1>0, <3>1, SubSeqProperties
    <3>4. Append(SubSeq(times, c + 1, i - 1), times[i]) = SubSeq(times, c + 1, i - 1) \o <<times[i]>>
        BY <3>3
    <3>. QED
        BY <1>1, <3>1, <3>2, <3>4
  <2>. QED
    BY <2>1, <2>2
<1>3. Kept(times, t) = SubSeq(times, c + 1, Len(times))
  <2>1. g[Len(times)] = SubSeq(times, c + 1, Len(times))
    BY <1>0
  <2>. HIDE DEF g
  <2>. QED
    BY <1>0, <1>2, <2>1, KeptResult
<1>. DEFINE kept == SubSeq(times, c + 1, Len(times))
<1>4. /\ kept \in Seq(Nat)
      /\ Len(kept) = IF c + 1 <= Len(times) THEN Len(times) - (c + 1) + 1 ELSE 0
      /\ \A i \in 1 .. Len(times) - (c + 1) + 1 : kept[i] = times[(c + 1) + i - 1]
    BY <1>0, SubSeqProperties
<1>5. Len(kept) = Len(times) - c /\ \A i \in 1 .. Len(times) - c : kept[i] = times[c + i]
  <2>. HIDE DEF kept, g
  <2>1. c \in Nat /\ Len(times) \in Nat /\ c <= Len(times) /\ Len(times) - (c + 1) + 1 = Len(times) - c
    BY <1>0, <1>1
  <2>2. Len(kept) = Len(times) - c
    <3>1. CASE c + 1 <= Len(times)
        BY <1>4, <2>1, <3>1
    <3>2. CASE ~ (c + 1 <= Len(times))
      <4>1. Len(kept) = 0
        BY <1>4, <3>2
      <4>2. Len(times) = c
        <5>1. \A x, y \in Nat : x <= y /\ ~ (x + 1 <= y) => y = x
            OBVIOUS
        <5>. QED
            BY <2>1, <3>2, <5>1
      <4>. QED
        BY <2>1, <4>1, <4>2
    <3>. QED
        BY <3>1, <3>2
  <2>3. ASSUME NEW i \in 1 .. Len(times) - c
        PROVE  kept[i] = times[c + i]
    <3>1. kept[i] = times[(c + 1) + i - 1]
        BY <1>4, <2>1
    <3>2. (c + 1) + i - 1 = c + i
        BY <2>1
    <3>. QED
        BY <3>1, <3>2
  <2>. QED
    BY <2>2, <2>3
<1>6. /\ \A i \in 1 .. c : times[i] <= t - Window
      /\ \A i \in c + 1 .. Len(times) : times[i] > t - Window
    BY <1>0, <1>1 DEF Recent
<1>. QED
    BY <1>3, <1>4, <1>5, <1>6

-----------------------------------------------------------------------------
(* The limiters.                                                           *)

Attempts == [at : Times, admitted : BOOLEAN]

(***************************************************************************)
(* What a limiter keeps are the times of its latest attempts; the attempts *)
(* before those are out of the window of the latest one; and an attempt    *)
(* was admitted when the attempts in its window, itself included, were not *)
(* more than the limit.                                                    *)
(***************************************************************************)
LimiterOK(times, attempts, limit, t) ==
    /\ times \in Seq(Times) /\ attempts \in Seq(Attempts)
    /\ Len(times) <= Len(attempts)
    /\ \A i \in 1 .. Len(times) : times[i] = attempts[Len(attempts) - Len(times) + i].at
    /\ \A i, j \in 1 .. Len(attempts) : i <= j => attempts[i].at <= attempts[j].at
    /\ \A i \in 1 .. Len(attempts) : attempts[i].at <= t
    /\ \A i \in 1 .. Len(attempts) - Len(times) :
           attempts[i].at <= attempts[Len(attempts)].at - Window
    /\ \A i \in 1 .. Len(attempts) :
           attempts[i].admitted <=> Cardinality(InWindow(attempts, i, attempts[i].at)) <= limit

LimitersInv ==
    /\ windows \in [Limited -> Seq(Times)]
    /\ tried \in [Limited -> Seq(Attempts)]
    /\ \A k \in Limited : LimiterOK(windows[k], tried[k], Limit(k), now)

LEMMA AttemptsType ==
    ASSUME NEW times, NEW attempts, NEW limit, NEW t, LimiterOK(times, attempts, limit, t)
    PROVE  /\ Len(times) \in Nat /\ Len(attempts) \in Nat
           /\ \A i \in 1 .. Len(attempts) : /\ attempts[i].at \in Times
                                            /\ attempts[i].at \in Nat
                                            /\ attempts[i].admitted \in BOOLEAN
           /\ times \in Seq(Nat) /\ InOrder(times)
<1>1. times \in Seq(Times) /\ attempts \in Seq(Attempts) /\ Len(times) <= Len(attempts)
      /\ Len(times) \in Nat /\ Len(attempts) \in Nat /\ Times \subseteq Nat
    BY ConstantsAssumption DEF LimiterOK, Times
<1>2. \A i \in 1 .. Len(attempts) : attempts[i] \in Attempts
    BY <1>1
<1>3. \A i \in 1 .. Len(attempts) : /\ attempts[i].at \in Times
                                    /\ attempts[i].at \in Nat
                                    /\ attempts[i].admitted \in BOOLEAN
    BY <1>1, <1>2 DEF Attempts
<1>4. times \in Seq(Nat)
    BY <1>1, SeqMonotonic
<1>5. ASSUME NEW i \in 1 .. Len(times), NEW j \in 1 .. Len(times), i <= j
      PROVE  times[i] <= times[j]
  <2>. DEFINE d == Len(attempts) - Len(times)
  <2>1. d + i \in 1 .. Len(attempts) /\ d + j \in 1 .. Len(attempts) /\ d + i <= d + j
    BY <1>1, <1>5
  <2>2. times[i] = attempts[d + i].at /\ times[j] = attempts[d + j].at
    BY DEF LimiterOK
  <2>3. attempts[d + i].at <= attempts[d + j].at
    BY <2>1 DEF LimiterOK
  <2>. QED
    BY <2>2, <2>3
<1>. QED
    BY <1>1, <1>3, <1>4, <1>5 DEF InOrder

LEMMA WindowFinite ==
    ASSUME NEW attempts, NEW n \in Nat, NEW t
    PROVE  /\ IsFiniteSet(InWindow(attempts, n, t))
           /\ Cardinality(InWindow(attempts, n, t)) \in Nat
<1>1. IsFiniteSet(1 .. n)
    BY FS_Interval
<1>2. InWindow(attempts, n, t) \in SUBSET (1 .. n)
    BY DEF InWindow
<1>. QED
    BY <1>1, <1>2, FS_Subset, FS_CardinalityType

\* The attempts in the window of the n-th are those after the d-th.
LEMMA WindowIsInterval ==
    ASSUME NEW attempts, NEW n \in Nat, NEW d \in Nat, d < n,
           \A i \in 1 .. n : attempts[i].at \in Nat /\ attempts[i].at <= attempts[n].at,
           \A i \in 1 .. d : attempts[i].at <= attempts[n].at - Window,
           \A i \in d + 1 .. n : attempts[i].at > attempts[n].at - Window
    PROVE  Cardinality(InWindow(attempts, n, attempts[n].at)) = n - d
<1>0. Window \in Nat
    BY ConstantsAssumption
<1>1. InWindow(attempts, n, attempts[n].at) = d + 1 .. n
  <2>. SUFFICES ASSUME NEW i \in 1 .. n
                PROVE  (attempts[n].at - Window < attempts[i].at) <=> i \in d + 1 .. n
    BY DEF InWindow
  <2>1. attempts[i].at \in Nat /\ attempts[n].at \in Nat
    BY <1>0
  <2>2. i \in 1 .. d \/ i \in d + 1 .. n
    OBVIOUS
  <2>. QED
    BY <1>0, <2>1, <2>2
<1>2. Cardinality(d + 1 .. n) = n - (d + 1) + 1
    BY FS_Interval
<1>. QED
    BY <1>1, <1>2

\* A call of Allow.
LEMMA AllowOK ==
    ASSUME NEW times, NEW attempts, NEW limit \in Nat, NEW t \in Times,
           LimiterOK(times, attempts, limit, t), NEW admitted \in BOOLEAN,
           admitted <=> Within(Counted(times, t), limit)
    PROVE  LimiterOK(Counted(times, t), Append(attempts, [at |-> t, admitted |-> admitted]), limit, t)
<1>. DEFINE new == [at |-> t, admitted |-> admitted]
            after == Append(attempts, new)
            n == Len(attempts) + 1
            counted == Counted(times, t)
<1>0. /\ Len(times) \in Nat /\ Len(attempts) \in Nat /\ Len(times) <= Len(attempts)
      /\ \A i \in 1 .. Len(attempts) : attempts[i].at \in Times /\ attempts[i].at \in Nat
      /\ times \in Seq(Nat) /\ InOrder(times)
      /\ Window \in Nat /\ t \in Nat
      /\ times \in Seq(Times) /\ attempts \in Seq(Attempts)
  <2>1. Window \in Nat /\ t \in Nat
    BY ConstantsAssumption DEF Times
  <2>2. times \in Seq(Times) /\ attempts \in Seq(Attempts) /\ Len(times) <= Len(attempts)
    BY DEF LimiterOK
  <2>. QED
    BY <2>1, <2>2, AttemptsType
<1>1. PICK c \in 0 .. Len(times) :
          /\ \A i \in 1 .. c : times[i] <= t - Window
          /\ \A i \in c + 1 .. Len(times) : times[i] > t - Window
          /\ Len(Kept(times, t)) = Len(times) - c
          /\ \A i \in 1 .. Len(times) - c : Kept(times, t)[i] = times[c + i]
          /\ Kept(times, t) \in Seq(Nat)
    BY <1>0, KeptIsSuffix
<1>2. PICK d : d = Len(attempts) - Len(times) + c
    OBVIOUS
<1>3. /\ c \in Nat /\ c <= Len(times) /\ d \in Nat /\ n \in Nat /\ d < n
      /\ n - d = Len(times) - c + 1
    BY <1>0, <1>1, <1>2
<1>4. /\ new \in Attempts /\ new.at = t /\ new.admitted = admitted
      /\ after \in Seq(Attempts) /\ Len(after) = n /\ after[n] = new
      /\ \A i \in 1 .. Len(attempts) : after[i] = attempts[i]
    BY <1>0 DEF Attempts
<1>5. /\ counted \in Seq(Nat)
      /\ Len(counted) = n - d
      /\ counted[n - d] = t
      /\ \A i \in 1 .. Len(times) - c : counted[i] = times[c + i]
  <2>. DEFINE kept == Kept(times, t)
  <2>1. /\ kept \in Seq(Nat) /\ Len(kept) = Len(times) - c /\ t \in Nat
        /\ \A i \in 1 .. Len(times) - c : kept[i] = times[c + i]
    BY <1>0, <1>1
  <2>2. counted = Append(kept, t)
    BY DEF Counted
  <2>. HIDE DEF kept, counted
  <2>3. /\ counted \in Seq(Nat) /\ Len(counted) = Len(kept) + 1
        /\ \A i \in 1 .. Len(kept) : counted[i] = kept[i]
        /\ counted[Len(kept) + 1] = t
    BY <2>1, <2>2, AppendProperties
  <2>. QED
    BY <1>3, <2>1, <2>3
<1>. HIDE DEF new, after, counted
<1>6. ASSUME NEW i \in 1 .. n - d
       PROVE  counted[i] = after[d + i].at
  <2>1. CASE i = n - d
    <3>1. d + i = n
        BY <1>3, <2>1
    <3>. QED
        BY <1>4, <1>5, <2>1, <3>1
  <2>2. CASE i # n - d
    <3>1. i \in 1 .. Len(times) - c
        BY <1>3, <2>2
    <3>2. c + i \in 1 .. Len(times)
        BY <1>0, <1>3, <3>1
    <3>3. d + i \in 1 .. Len(attempts) /\ Len(attempts) - Len(times) + (c + i) = d + i
        BY <1>0, <1>2, <1>3, <3>1
    <3>4. times[c + i] = attempts[d + i].at
        BY <3>2, <3>3 DEF LimiterOK
    <3>. QED
        BY <1>4, <1>5, <3>1, <3>3, <3>4
  <2>. QED
    BY <2>1, <2>2
<1>7. counted \in Seq(Times)
  <2>1. ASSUME NEW i \in 1 .. Len(counted)
        PROVE  counted[i] \in Times
    <3>1. d + i \in 1 .. n /\ i \in 1 .. n - d
        BY <1>3, <1>5
    <3>2. after[d + i] \in Attempts
        BY <1>4, <3>1
    <3>. QED
        BY <1>6, <3>1, <3>2 DEF Attempts
  <2>2. counted \in Seq(Nat)
    BY <1>0, <1>1, <1>5
  <2>3. counted = [i \in 1 .. Len(counted) |-> counted[i]] /\ Len(counted) \in Nat
    BY <2>2
  <2>. QED
    BY <2>1, <2>3, IsASeq
<1>8. ASSUME NEW i \in 1 .. n
      PROVE  /\ after[i].at \in Nat /\ after[i].at <= t
             /\ \A j \in 1 .. n : i <= j => after[i].at <= after[j].at
  <2>1. i \in 1 .. Len(attempts) \/ i = n
    BY <1>3
  <2>2. \A j \in 1 .. n : j \in 1 .. Len(attempts) \/ j = n
    BY <1>3
  <2>3. after[i].at \in Nat /\ after[i].at <= t
    <3>1. CASE i \in 1 .. Len(attempts)
        BY <1>0, <1>4, <3>1 DEF LimiterOK
    <3>2. CASE i = n
        BY <1>0, <1>4, <3>2
    <3>. QED
        BY <2>1, <3>1, <3>2
  <2>4. ASSUME NEW j \in 1 .. n, i <= j
        PROVE  after[i].at <= after[j].at
    <3>1. CASE j = n
        BY <1>4, <2>3, <3>1
    <3>2. CASE j \in 1 .. Len(attempts)
      <4>1. i \in 1 .. Len(attempts)
        BY <1>0, <2>1, <2>4, <3>2
      <4>. QED
        BY <1>4, <2>4, <3>2, <4>1 DEF LimiterOK
    <3>. QED
        BY <2>2, <3>1, <3>2
  <2>. QED
    BY <2>3, <2>4
<1>9. ASSUME NEW i \in 1 .. d
      PROVE  after[i].at <= t - Window
  <2>1. i \in 1 .. Len(attempts) /\ after[i] = attempts[i]
    BY <1>0, <1>3, <1>4
  <2>2. CASE i <= Len(attempts) - Len(times)
    <3>1. attempts[i].at <= attempts[Len(attempts)].at - Window
        BY <1>0, <2>1, <2>2 DEF LimiterOK
    <3>2. Len(attempts) \in 1 .. Len(attempts)
        BY <1>0, <2>1
    <3>3. attempts[Len(attempts)].at <= t /\ attempts[Len(attempts)].at \in Nat
        BY <1>0, <3>2 DEF LimiterOK
    <3>. QED
        BY <1>0, <2>1, <3>1, <3>3
  <2>3. CASE ~ (i <= Len(attempts) - Len(times))
    <3>1. PICK k \in 1 .. c : i = Len(attempts) - Len(times) + k
      <4>1. i - (Len(attempts) - Len(times)) \in 1 .. c
        BY <1>0, <1>3, <2>3
      <4>2. i = Len(attempts) - Len(times) + (i - (Len(attempts) - Len(times)))
        BY <1>0
      <4>. QED
        BY <4>1, <4>2
    <3>2. k \in 1 .. Len(times)
        BY <1>3
    <3>3. times[k] = attempts[i].at
        BY <3>1, <3>2 DEF LimiterOK
    <3>. QED
        BY <1>1, <2>1, <3>3
  <2>. QED
    BY <2>2, <2>3
<1>10. ASSUME NEW i \in d + 1 .. n
      PROVE  after[i].at > t - Window
  <2>0. Window > 0
    BY ConstantsAssumption
  <2>1. CASE i = n
    BY <1>0, <1>4, <2>0, <2>1
  <2>2. CASE i # n
    <3>1. i - d \in 1 .. Len(times) - c /\ d + (i - d) = i /\ i - d \in 1 .. n - d
          /\ c + (i - d) \in c + 1 .. Len(times)
        BY <1>3, <2>2
    <3>2. after[i].at = counted[i - d]
        BY <1>6, <3>1
    <3>3. counted[i - d] = times[c + (i - d)]
        BY <1>1, <1>5, <3>1
    <3>. QED
        BY <1>1, <3>1, <3>2, <3>3
  <2>. QED
    BY <2>1, <2>2
<1>11. Cardinality(InWindow(after, n, after[n].at)) = n - d
    BY <1>3, <1>4, <1>8, <1>9, <1>10, WindowIsInterval
<1>12. ASSUME NEW i \in 1 .. n
       PROVE  after[i].admitted <=> Cardinality(InWindow(after, i, after[i].at)) <= limit
  <2>1. CASE i = n
    BY <1>4, <1>5, <1>11, <2>1 DEF Within, counted
  <2>2. CASE i # n
    <3>1. i \in 1 .. Len(attempts) /\ \A j \in 1 .. i : j \in 1 .. Len(attempts)
        BY <1>3, <2>2
    <3>2. InWindow(after, i, after[i].at) = InWindow(attempts, i, attempts[i].at)
        BY <1>4, <3>1 DEF InWindow
    <3>. QED
        BY <1>4, <3>1, <3>2 DEF LimiterOK
  <2>. QED
    BY <2>1, <2>2
<1>13. Len(counted) <= Len(after) /\ Len(after) - Len(counted) = d
    BY <1>3, <1>4, <1>5
<1>. QED
  <2>1. \A i \in 1 .. Len(counted) : counted[i] = after[Len(after) - Len(counted) + i].at
    BY <1>5, <1>6, <1>13
  <2>2. \A i \in 1 .. Len(after) - Len(counted) : after[i].at <= after[Len(after)].at - Window
    BY <1>4, <1>9, <1>13
  <2>3. LimiterOK(counted, after, limit, t)
    BY <1>4, <1>7, <1>8, <1>12, <1>13, <2>1, <2>2 DEF LimiterOK
  <2>. QED
    BY <2>3 DEF counted, after, new

\* A limiter that has not been asked.
LEMMA NewLimiterOK == ASSUME NEW limit, NEW t PROVE LimiterOK(<<>>, <<>>, limit, t)
<1>1. Len(<<>>) = 0 /\ <<>> \in Seq(Times) /\ <<>> \in Seq(Attempts)
    OBVIOUS
<1>2. \A i \in 1 .. 0 : FALSE
    OBVIOUS
<1>3. 0 - 0 = 0 /\ 0 <= 0
    OBVIOUS
<1>. QED
    BY <1>1, <1>2, <1>3, Zenon DEF LimiterOK

LEMMA NoWindowsInv ==
    /\ NoWindows \in [Limited -> Seq(Times)]
    /\ NoWindows \in [Limited -> Seq(Attempts)]
    /\ \A k \in Limited, t \in Times : LimiterOK(NoWindows[k], NoWindows[k], Limit(k), t)
<1>1. <<>> \in Seq(Times) /\ <<>> \in Seq(Attempts)
    OBVIOUS
<1>. QED
    BY <1>1, NewLimiterOK, Zenon DEF NoWindows

\* Time passes for a limiter.
LEMMA LaterOK ==
    ASSUME NEW times, NEW attempts, NEW limit, NEW t \in Nat, NEW u \in Nat, t <= u,
           LimiterOK(times, attempts, limit, t)
    PROVE  LimiterOK(times, attempts, limit, u)
<1>1. \A i \in 1 .. Len(attempts) : attempts[i].at <= u
    <2>1. \A x \in Nat : x <= t => x <= u
        OBVIOUS
    <2>. QED
        BY <2>1, AttemptsType DEF LimiterOK
<1>. QED
    BY <1>1 DEF LimiterOK

LEMMA LimitType == \A k \in Limited : Limit(k) \in Nat
BY ConstantsAssumption DEF Limit

\* One limiter is asked.
LEMMA AllowStep ==
    ASSUME LimitersInv, now \in Times, now' = now, NEW j, NEW admitted \in BOOLEAN,
           Allow(j, admitted)
    PROVE  LimitersInv'
<1>. DEFINE times == Counted(windows[j], now)
            attempts == Append(tried[j], [at |-> now, admitted |-> admitted])
<1>1. /\ admitted = Within(times, Limit(j))
      /\ windows' = [windows EXCEPT ![j] = times]
      /\ tried' = [tried EXCEPT ![j] = attempts]
    BY DEF Allow
<1>2. j \in Limited => LimiterOK(times, attempts, Limit(j), now)
    BY <1>1, AllowOK, LimitType DEF LimitersInv
<1>3. j \in Limited => times \in Seq(Times) /\ attempts \in Seq(Attempts)
    BY <1>2 DEF LimiterOK
<1>. HIDE DEF times, attempts
<1>4. /\ windows' \in [Limited -> Seq(Times)]
      /\ tried' \in [Limited -> Seq(Attempts)]
    BY <1>1, <1>3, Zenon DEF LimitersInv
<1>5. ASSUME NEW k \in Limited
      PROVE  LimiterOK(windows'[k], tried'[k], Limit(k), now)
  <2>1. CASE k = j
    <3>1. windows'[k] = times /\ tried'[k] = attempts
        BY <1>1, <2>1 DEF LimitersInv
    <3>. QED
        BY <1>2, <2>1, <3>1
  <2>2. CASE k # j
    <3>1. windows'[k] = windows[k] /\ tried'[k] = tried[k]
        BY <1>1, <2>2 DEF LimitersInv
    <3>. QED
        BY <3>1 DEF LimitersInv
  <2>. QED
    BY <2>1, <2>2
<1>. QED
    BY <1>4, <1>5 DEF LimitersInv, LimiterOK, InWindow

LEMMA LimitersUnchanged ==
    ASSUME LimitersInv, UNCHANGED limiterVars, now \in Nat, now' \in Nat, now <= now'
    PROVE  LimitersInv'
<1>1. windows' = windows /\ tried' = tried
    BY DEF limiterVars
<1>2. \A k \in Limited : LimiterOK(windows'[k], tried'[k], Limit(k), now')
    BY <1>1, LaterOK DEF LimitersInv
<1>. QED
    BY <1>1, <1>2 DEF LimitersInv, LimiterOK, InWindow

LEMMA LimitersStep ==
    ASSUME LimitersInv, now \in Times, now' \in Times, [Next]_vars
    PROVE  LimitersInv'
<1>0. now \in Nat /\ now' \in Nat
    BY DEF Times
<1>1. CASE UNCHANGED limiterVars /\ (now' = now \/ now' = now + 1)
  <2>1. now <= now'
    BY <1>0, <1>1
  <2>. QED
    BY <1>0, <1>1, <2>1, LimitersUnchanged
<1>2. ASSUME NEW j, NEW admitted \in BOOLEAN, Allow(j, admitted), now' = now
      PROVE  LimitersInv'
    BY <1>2, AllowStep
<1>3. CASE Stop
  <2>1. windows' = NoWindows /\ tried' = NoWindows
    BY <1>3 DEF Stop
  <2>2. \A k \in Limited : LimiterOK(windows'[k], tried'[k], Limit(k), now')
    BY <2>1, NoWindowsInv
  <2>. QED
    BY <2>1, <2>2, NoWindowsInv DEF LimitersInv, LimiterOK, InWindow
<1>4. ASSUME NEW t \in Tabs, AskAddress(t) \/ AskAccount(t)
      PROVE  LimitersInv'
    BY <1>2, <1>4 DEF AskAddress, AskAccount
<1>5. CASE UNCHANGED vars \/ Tick
    BY <1>1, <1>5 DEF vars, Tick
<1>6. ASSUME NEW p \in Processes,
             \/ StartWithout(p) \/ StartCreate(p) \/ StopOther(p)
             \/ \E password \in Passwords : StartMissing(p, password)
      PROVE  LimitersInv'
    BY <1>1, <1>6 DEF StartWithout, StartMissing, StartCreate, StopOther
<1>7. ASSUME NEW t \in Tabs,
             \/ Verify(t) \/ CreateSession(t) \/ GiveUp(t) \/ GetAdmin(t)
             \/ Enter(t) \/ RedirectToLogin(t) \/ SubmitLogout(t) \/ Logout(t)
             \/ \E email \in Emails, address \in Addresses, password \in Passwords :
                   Submit(t, email, address, password)
      PROVE  LimitersInv'
    BY <1>1, <1>7 DEF Verify, CreateSession, GiveUp, GetAdmin, Enter, RedirectToLogin,
                      SubmitLogout, Logout, Submit
<1>. QED
    BY <1>3, <1>4, <1>5, <1>6, <1>7 DEF Next

LEMMA SpecLimiters == Spec => [](Inv /\ LimitersInv)
<1>1. Init => LimitersInv
  <2>. SUFFICES ASSUME Init PROVE LimitersInv
    OBVIOUS
  <2>1. windows = NoWindows /\ tried = NoWindows /\ now \in Times
    BY InitInv DEF Init, Inv, TypeInv
  <2>. QED
    BY <2>1, NoWindowsInv DEF LimitersInv
<1>2. Inv /\ Inv' /\ LimitersInv /\ [Next]_vars => LimitersInv'
    BY LimitersStep DEF Inv, TypeInv
<1>. QED
    BY <1>1, <1>2, SpecInv, PTL DEF Spec

(***************************************************************************)
(* Every value has its type, and a limiter (ratelimit.go) keeps its times  *)
(* in order, never more of them than there were attempts.                  *)
(***************************************************************************)
THEOREM LoginTypes == Spec => []TypeOK
<1>1. Inv /\ LimitersInv => TypeOK
  <2>. SUFFICES ASSUME Inv, LimitersInv PROVE TypeOK
    OBVIOUS
  <2>1. ASSUME NEW k \in Limited
        PROVE  /\ Len(windows[k]) <= Len(tried[k])
               /\ \A i, j \in 1 .. Len(windows[k]) : i <= j => windows[k][i] <= windows[k][j]
    <3>1. LimiterOK(windows[k], tried[k], Limit(k), now)
        BY DEF LimitersInv
    <3>2. InOrder(windows[k])
        BY <3>1, AttemptsType
    <3>. QED
        BY <3>1, <3>2 DEF LimiterOK, InOrder
  <2>. QED
    BY <2>1 DEF Inv, TypeInv, LimitersInv, TypeOK, Starts, Attempts
<1>. QED
    BY <1>1, SpecLimiters, PTL

(***************************************************************************)
(* However the attempts of all tabs interleave, no span of Window holds    *)
(* more admitted attempts of one account or address than its limit: the    *)
(* last of those in the span counted all the others (Allow, ratelimit.go). *)
(***************************************************************************)
THEOREM BurstsAreLimited == Spec => []NoBurst
<1>1. LimitersInv => NoBurst
  <2>. SUFFICES ASSUME LimitersInv, NEW k \in Limited, NEW t \in Times
                PROVE  Cardinality({ i \in InWindow(tried[k], Len(tried[k]), t) : tried[k][i].admitted })
                           <= Limit(k)
    BY DEF NoBurst
  <2>1. PICK T, n : T = tried[k] /\ n = Len(T)
    OBVIOUS
  <2>2. LimiterOK(windows[k], T, Limit(k), now)
    BY <2>1 DEF LimitersInv
  <2>3. /\ n \in Nat /\ t \in Nat /\ Window \in Nat /\ Limit(k) \in Nat
        /\ \A i \in 1 .. n : T[i].at \in Nat
    BY <2>1, <2>2, AttemptsType, LimitType, ConstantsAssumption DEF Times
  <2>. DEFINE A == { i \in InWindow(T, n, t) : T[i].admitted }
  <2>4. CASE A = {}
    <3>1. Cardinality(A) = 0
        BY <2>4, FS_EmptySet, Zenon
    <3>2. Cardinality(A) <= Limit(k)
        BY <2>3, <3>1
    <3>. QED
        BY <2>1, <3>2
  <2>5. CASE A # {}
    <3>1. \A i \in A : /\ i \in 1 .. n /\ T[i].admitted
                       /\ t - Window < T[i].at /\ T[i].at <= t
        BY DEF InWindow
    <3>2. PICK m \in A : \A i \in A : i <= m
      <4>. DEFINE Bounds == { b \in Nat : \A i \in A : i <= b }
      <4>1. Bounds \in SUBSET Nat /\ n \in Bounds
        BY <2>3, <3>1
      <4>2. PICK b \in Bounds : \A x \in Bounds : b <= x
        <5>. HIDE DEF Bounds
        <5>. QED
            BY <4>1, LeastNat
      <4>3. b \in Nat /\ \A i \in A : i \in Nat /\ i <= b
        BY <2>3, <3>1, <4>2
      <4>4. b \in A
        <5>. SUFFICES ASSUME b \notin A PROVE FALSE
            OBVIOUS
        <5>. HIDE DEF A
        <5>1. PICK i \in A : TRUE
            BY <2>5
        <5>2. b # 0
            BY <3>1, <4>3, <5>1
        <5>3. \A j \in A : j <= b - 1
            BY <4>3
        <5>4. b - 1 \in Nat /\ ~ (b <= b - 1)
            BY <4>3, <5>2
        <5>. QED
            BY <4>2, <5>3, <5>4
      <4>. QED
        BY <4>3, <4>4
    <3>3. m \in 1 .. n /\ T[m].admitted /\ T[m].at <= t
        BY <3>1
    <3>4. Cardinality(InWindow(T, m, T[m].at)) <= Limit(k)
        BY <2>1, <2>2, <3>3 DEF LimiterOK
    <3>5. A \subseteq InWindow(T, m, T[m].at)
      <4>. SUFFICES ASSUME NEW i \in A PROVE i \in InWindow(T, m, T[m].at)
        OBVIOUS
      <4>1. i \in 1 .. n /\ i <= m /\ t - Window < T[i].at
        BY <3>1, <3>2
      <4>2. T[i].at <= T[m].at
        BY <2>1, <2>2, <3>3, <4>1 DEF LimiterOK
      <4>3. T[m].at - Window < T[i].at
        BY <2>3, <3>3, <4>1
      <4>4. i \in 1 .. m
        BY <2>3, <3>3, <4>1
      <4>. QED
        BY <4>2, <4>3, <4>4 DEF InWindow
    <3>6. m \in Nat
        BY <3>3
    <3>. HIDE DEF A
    <3>7. Cardinality(A) <= Cardinality(InWindow(T, m, T[m].at)) /\ Cardinality(A) \in Nat
        BY <3>5, <3>6, WindowFinite, FS_Subset, FS_CardinalityType
    <3>8. Cardinality(A) <= Limit(k)
        BY <2>3, <3>4, <3>6, <3>7, WindowFinite
    <3>. QED
        BY <2>1, <3>8 DEF A
  <2>. QED
    BY <2>4, <2>5
<1>. QED
    BY <1>1, SpecLimiters, PTL

(***************************************************************************)
(* A refused attempt has a full limit of attempts before it in its window: *)
(* what Allow has dropped of them was out of the window of a later one.    *)
(***************************************************************************)
THEOREM RefusalsAreEarned == Spec => []RefusedWhenBusy
<1>1. LimitersInv => RefusedWhenBusy
  <2>. SUFFICES ASSUME LimitersInv, NEW k \in Limited, NEW i \in 1 .. Len(tried[k]),
                       ~tried[k][i].admitted
                PROVE  Cardinality(InWindow(tried[k], i - 1, tried[k][i].at)) >= Limit(k)
    BY DEF RefusedWhenBusy
  <2>1. PICK T : T = tried[k]
    OBVIOUS
  <2>2. LimiterOK(windows[k], T, Limit(k), now)
    BY <2>1 DEF LimitersInv
  <2>3. Len(T) \in Nat /\ T[i].at \in Nat /\ Limit(k) \in Nat /\ i \in Nat /\ i - 1 \in Nat
    BY <2>1, <2>2, AttemptsType, LimitType
  <2>. DEFINE before == InWindow(T, i - 1, T[i].at)
  <2>4. InWindow(T, i, T[i].at) = before \cup {i}
    <3>1. Window \in Nat /\ Window > 0
        BY ConstantsAssumption
    <3>2. i \in 1 .. i /\ T[i].at - Window < T[i].at /\ T[i].at <= T[i].at
        BY <2>3, <3>1
    <3>3. 1 .. i = (1 .. i - 1) \cup {i}
        BY <2>3
    <3>. QED
        BY <3>2, <3>3, Zenon DEF InWindow
  <2>5. i \notin before
    BY <2>3 DEF InWindow
  <2>6. IsFiniteSet(before) /\ Cardinality(before) \in Nat
    BY <2>3, WindowFinite
  <2>. HIDE DEF before
  <2>7. Cardinality(InWindow(T, i, T[i].at)) = Cardinality(before) + 1
    BY <2>4, <2>5, <2>6, FS_AddElement
  <2>8. ~ (Cardinality(InWindow(T, i, T[i].at)) <= Limit(k))
    BY <2>1, <2>2 DEF LimiterOK
  <2>9. Cardinality(before) >= Limit(k)
    BY <2>3, <2>6, <2>7, <2>8
  <2>. QED
    BY <2>1, <2>9 DEF before
<1>. QED
    BY <1>1, SpecLimiters, PTL

=============================================================================
