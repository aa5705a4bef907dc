------------------------------ MODULE Session ------------------------------
(***************************************************************************)
(* Logging in and being known: the tabs of the browsers, whose pages send  *)
(* the token that sessionStorage held when they were loaded (common.js;    *)
(* whatever changes it goes on to another page); UserServiceImpl's         *)
(* sendCode, login and logout; and the two interceptors, which turn a      *)
(* token into the user of the thread that serves the request (UserHolder). *)
(* The threads belong to a pool: what a request leaves in its thread is    *)
(* there for the next one.                                                 *)
(*                                                                         *)
(* Redis holds a code per phone and a hash per token; the table of users   *)
(* has a unique index on the phone.  Time is a choice: a session with a    *)
(* time to live may end at any step.                                       *)
(***************************************************************************)
EXTENDS Naturals, FiniteSets

CONSTANTS
    Phones, Tabs, Threads,
    Tokens,     \* UUIDs, each drawn once: a bound on the logins
    None,
    MaxFaults   \* calls of Redis or MySQL that fail, and crashes, a bound

ASSUME NoneIsNothing == None \notin Phones \cup Tabs \cup Threads \cup Tokens
ASSUME FaultsType == MaxFaults \in Nat

VARIABLES
    codes,     \* phones a code was stored for in Redis
    users,     \* tb_user: rows [phone, id]
    session,   \* [Tokens -> the hash in Redis]: the id of its user, and if it has a TTL
    holder,    \* [Threads -> the thread-local user]
    req,       \* [Threads -> the request it serves]
    tab,       \* [Tabs -> the token it stores]
    faults,
    who,       \* history: the phone the tab last logged in with, until it logs out
    leaky,     \* history: threads whose last request failed after saveUser
    leaks,     \* history: how often that happened
    strangers, \* history: how many requests went on as a user that is not theirs
    ended,     \* history: tokens whose session is over
    endless    \* history: tokens whose login did not get to set a TTL

redis == <<codes, session>>
histories == <<who, leaky, leaks, strangers, ended, endless>>
vars == <<redis, users, holder, req, tab, faults, histories>>

Nobody == 0
Ids == Nat \ {Nobody}
NoSession == [user |-> Nobody, ttl |-> FALSE]
Kinds == {"code", "login", "public", "private", "logout"}

\* The paths MvcConfig excludes from the LoginInterceptor.
Excluded == {"code", "login", "public"}

Free == [kind |-> "none", pc |-> "free", tab |-> None, token |-> None, phone |-> None,
         user |-> Nobody, who |-> None]
PCs == {"free", "entries", "refresh", "refused", "handle", "select", "insert", "store",
        "expire", "done"}
Requests == [kind : Kinds \cup {"none"}, pc : PCs, tab : Tabs \cup {None},
             token : Tokens \cup {None}, phone : Phones \cup {None},
             user : Nat, who : Phones \cup {None}]

TypeOK ==
    /\ codes \subseteq Phones
    /\ users \subseteq [phone : Phones, id : Ids]
    /\ session \in [Tokens -> [user : Nat, ttl : BOOLEAN]]
    /\ holder \in [Threads -> Nat]
    /\ req \in [Threads -> Requests]
    /\ tab \in [Tabs -> Tokens \cup {None}]
    /\ faults \in 0..MaxFaults
    /\ who \in [Tabs -> Phones \cup {None}]
    /\ leaky \subseteq Threads
    /\ leaks \in Nat /\ strangers \in Nat
    /\ ended \subseteq Tokens /\ endless \subseteq Tokens

Init ==
    /\ codes = {} /\ users = {}
    /\ session = [k \in Tokens |-> NoSession]
    /\ holder = [t \in Threads |-> Nobody]
    /\ req = [t \in Threads |-> Free]
    /\ tab = [b \in Tabs |-> None]
    /\ faults = 0
    /\ who = [b \in Tabs |-> None]
    /\ leaky = {} /\ leaks = 0 /\ strangers = 0
    /\ ended = {} /\ endless = {}

-----------------------------------------------------------------------------
(* The tabs.                                                                *)

\* The answers to a page that was left are lost.
Left(requests, b) ==
    [t \in Threads |-> IF requests[t].tab = b THEN [requests[t] EXCEPT !.tab = None] ELSE requests[t]]

\* The user goes to another page.
Leave(b) ==
    /\ \E t \in Threads : req[t].tab = b
    /\ req' = Left(req, b)
    /\ UNCHANGED <<redis, users, holder, tab, faults, histories>>

\* A request, on a thread of the pool.
Send(b, t) ==
    /\ req[t] = Free
    /\ \E kind \in Kinds :
       \E phone \in IF kind \in {"code", "login"} THEN Phones ELSE {None} :
          req' = [req EXCEPT ![t] = [Free EXCEPT !.kind = kind, !.tab = b, !.phone = phone,
                                                 !.token = tab[b], !.pc = "entries",
                                                 !.who = IF phone = None THEN who[b] ELSE None]]
    /\ UNCHANGED <<redis, users, holder, tab, faults, histories>>

-----------------------------------------------------------------------------
(* The interceptors.                                                        *)

At(t, pc) == req[t].pc = pc
Goto(t, pc) == req' = [req EXCEPT ![t].pc = pc]

\* What a handler still knows: logout looks at the token again.
Handled(r) ==
    [r EXCEPT !.pc = "handle", !.token = IF r.kind = "logout" THEN r.token ELSE None,
              !.user = IF r.kind \in {"code", "login"} THEN Nobody ELSE r.user]

\* LoginInterceptor, on the paths that are not excluded: is there a user in the thread?
Guard(t, r) ==
    /\ req' = [req EXCEPT ![t] = IF r.kind \in Excluded \/ holder'[t] # Nobody
                                THEN Handled(r) ELSE [r EXCEPT !.pc = "refused"]]
    /\ strangers' = strangers + (IF holder'[t] = r.user THEN 0 ELSE 1)

\* Mutant: a user that is there already is not replaced.
SaveUserOnce(t) ==
    /\ At(t, "entries")
    /\ LET user == IF req[t].token = None THEN Nobody ELSE session[req[t].token].user
       IN  IF user = Nobody
           THEN UNCHANGED holder /\ Guard(t, req[t])
           ELSE /\ holder' = IF holder[t] = Nobody THEN [holder EXCEPT ![t] = user] ELSE holder
                /\ req' = [req EXCEPT ![t].pc = "refresh", ![t].user = user]
                /\ UNCHANGED strangers
    /\ UNCHANGED <<redis, users, tab, faults, who, leaky, leaks, ended, endless>>

\* RefreshTokenInterceptor: HGETALL, then saveUser.
ReadSession(t) ==
    /\ At(t, "entries")
    /\ LET user == IF req[t].token = None THEN Nobody ELSE session[req[t].token].user
       IN  IF user = Nobody
           THEN UNCHANGED holder /\ Guard(t, req[t])
           ELSE /\ holder' = [holder EXCEPT ![t] = user]
                /\ req' = [req EXCEPT ![t].pc = "refresh", ![t].user = user]
                /\ UNCHANGED strangers
    /\ UNCHANGED <<redis, users, tab, faults, who, leaky, leaks, ended, endless>>

\* Mutant: the hash that was read is written back.
RefreshByWriting(t) ==
    /\ At(t, "refresh")
    /\ session' = [session EXCEPT ![req[t].token] = [user |-> req[t].user, ttl |-> TRUE]]
    /\ UNCHANGED <<codes, users, holder, tab, faults, who, leaky, leaks, ended, endless>>
    /\ Guard(t, req[t])

\* EXPIRE, which does nothing to a key that is gone.
Refresh(t) ==
    /\ At(t, "refresh")
    /\ session' = [session EXCEPT ![req[t].token].ttl = (session[req[t].token] # NoSession)]
    /\ UNCHANGED <<codes, users, holder, tab, faults, who, leaky, leaks, ended, endless>>
    /\ Guard(t, req[t])

\* Mutant: only the LoginInterceptor cleans up, and it does not see every path.
ClearPrivate(t) == IF req[t].kind \in Excluded THEN holder ELSE [holder EXCEPT ![t] = Nobody]

\* afterCompletion.
Clear(t) == [holder EXCEPT ![t] = Nobody]

\* afterCompletion, and the answer leaves the server.
Finish(t, requests) ==
    /\ holder' = Clear(t)
    /\ leaky' = leaky \ {t}
    /\ req' = [requests EXCEPT ![t] = Free]
    /\ UNCHANGED <<leaks, strangers, ended>>

\* Most answers, exceptions and Result.fail included, lead nowhere.
Answer(t) == Finish(t, req) /\ UNCHANGED <<tab, who>>

\* The others lead to another page, if theirs is still there, with a token of the phone.
LeadOn(t, token, phone) ==
    LET b == req[t].tab IN
    /\ IF b = None THEN Answer(t)
       ELSE /\ Finish(t, Left(req, b))
            /\ tab' = [tab EXCEPT ![b] = token]
            /\ who' = [who EXCEPT ![b] = phone]
    /\ UNCHANGED <<redis, users, faults, endless>>

\* common.js: a 401 leads to the login page.
AnswerUnauthorized(t) ==
    /\ At(t, "refused")
    /\ LeadOn(t, tab[req[t].tab], who[req[t].tab])

\* login.html stores the token.
AnswerLogin(t) ==
    /\ At(t, "done") /\ req[t].kind = "login"
    /\ LeadOn(t, req[t].token, req[t].phone)

\* info.html removes it.
AnswerLogout(t) ==
    /\ At(t, "done") /\ req[t].kind = "logout"
    /\ LeadOn(t, None, None)

-----------------------------------------------------------------------------
(* The handlers.                                                            *)

\* Whatever needs no more than the user.
Serve(t) ==
    /\ At(t, "handle") /\ req[t].kind \in {"public", "private"}
    /\ Answer(t)
    /\ UNCHANGED <<redis, users, faults, endless>>

SendCode(t) ==
    /\ At(t, "handle") /\ req[t].kind = "code"
    /\ codes' = codes \cup {req[t].phone}
    /\ Answer(t)
    /\ UNCHANGED <<session, users, faults, endless>>

\* login: the code is read; it may have expired, or the one typed may be another.  A code
\* stays in Redis after its login.
CheckCode(t) ==
    /\ At(t, "handle") /\ req[t].kind = "login"
    /\ \/ req[t].phone \in codes /\ Goto(t, "select") /\ UNCHANGED <<holder, tab, histories>>
       \/ Answer(t) /\ UNCHANGED endless
    /\ UNCHANGED <<redis, users, faults>>

RowsOf(phone) == {u \in users : u.phone = phone}

SelectByPhone(t) ==
    /\ At(t, "select")
    /\ \/ RowsOf(req[t].phone) = {} /\ Goto(t, "insert")
       \/ \E u \in RowsOf(req[t].phone) :
             req' = [req EXCEPT ![t].pc = "store", ![t].user = u.id]
    /\ UNCHANGED <<redis, users, holder, tab, faults, histories>>

NewUser(t) ==
    LET id == Cardinality(users) + 1 IN
    /\ users' = users \cup {[phone |-> req[t].phone, id |-> id]}
    /\ req' = [req EXCEPT ![t].pc = "store", ![t].user = id]

\* createUserWithPhone: another login may have been faster, then the index refuses.
CreateUserWithPhone(t) ==
    /\ At(t, "insert")
    /\ \/ RowsOf(req[t].phone) = {} /\ NewUser(t) /\ UNCHANGED <<holder, tab, histories>>
       \/ RowsOf(req[t].phone) # {} /\ Answer(t) /\ UNCHANGED <<users, endless>>
    /\ UNCHANGED <<redis, faults>>

\* Mutant: the token is returned without the EXPIRE.
StoreForever(t) ==
    /\ At(t, "store")
    /\ \E k \in {j \in Tokens \ ended : session[j] = NoSession} :
          /\ session' = [session EXCEPT ![k] = [user |-> req[t].user, ttl |-> FALSE]]
          /\ req' = [req EXCEPT ![t].pc = "done", ![t].token = k]
    /\ UNCHANGED <<codes, users, holder, tab, faults, who, leaky, leaks, strangers, ended, endless>>

\* HSET under a token of its own.
StoreSession(t) ==
    /\ At(t, "store")
    /\ \E k \in {j \in Tokens \ ended : session[j] = NoSession} :
          /\ session' = [session EXCEPT ![k] = [user |-> req[t].user, ttl |-> FALSE]]
          /\ req' = [req EXCEPT ![t].pc = "expire", ![t].token = k]
    /\ UNCHANGED <<codes, users, holder, tab, faults, who, leaky, leaks, strangers, ended, endless>>

\* EXPIRE, then the token is returned.
ExpireSession(t) ==
    /\ At(t, "expire")
    /\ session' = [session EXCEPT ![req[t].token].ttl = (session[req[t].token] # NoSession)]
    /\ Goto(t, "done")
    /\ UNCHANGED <<codes, users, holder, tab, faults, histories>>

\* logout: DEL.
Logout(t) ==
    /\ At(t, "handle") /\ req[t].kind = "logout"
    /\ IF req[t].token = None THEN UNCHANGED <<session, ended>>
       ELSE /\ session' = [session EXCEPT ![req[t].token] = NoSession]
            /\ ended' = ended \cup {req[t].token}
    /\ Goto(t, "done")
    /\ UNCHANGED <<codes, users, holder, tab, faults, who, leaky, leaks, strangers, endless>>

-----------------------------------------------------------------------------
(* Time and failures.                                                       *)

SessionExpires(k) ==
    /\ session[k].ttl
    /\ session' = [session EXCEPT ![k] = NoSession]
    /\ ended' = ended \cup {k}
    /\ UNCHANGED <<codes, users, holder, req, tab, faults, who, leaky, leaks, strangers, endless>>

Fault == faults < MaxFaults /\ faults' = faults + 1

\* HGETALL fails in preHandle: no interceptor's afterCompletion is called.
ReadSessionFails(t) ==
    /\ Fault
    /\ At(t, "entries") /\ req[t].token # None
    /\ req' = [req EXCEPT ![t] = Free]
    /\ UNCHANGED <<redis, users, holder, tab, histories>>

\* EXPIRE fails in preHandle: the user stays in the thread.
RefreshFails(t) ==
    /\ Fault
    /\ At(t, "refresh")
    /\ req' = [req EXCEPT ![t] = Free]
    /\ leaky' = leaky \cup {t}
    /\ leaks' = leaks + 1
    /\ UNCHANGED <<redis, users, holder, tab, who, strangers, ended, endless>>

\* A call of Redis or MySQL fails in a handler, before or after what it does.
HandlerFails(t) ==
    /\ Fault
    /\ req[t].pc \in {"handle", "select", "insert", "store", "expire", "done"}
    /\ Answer(t)
    /\ endless' = IF At(t, "expire") THEN endless \cup {req[t].token} ELSE endless
    /\ UNCHANGED <<redis, users>>

\* The process dies and is started again, with new threads.
Crash ==
    /\ Fault
    /\ holder' = [t \in Threads |-> Nobody]
    /\ req' = [t \in Threads |-> Free]
    /\ leaky' = {}
    /\ endless' = endless \cup {req[t].token : t \in {u \in Threads : At(u, "expire")}}
    /\ UNCHANGED <<redis, users, tab, who, leaks, strangers, ended>>

-----------------------------------------------------------------------------
Handle(t) ==
    \/ Serve(t) \/ SendCode(t) \/ CheckCode(t) \/ SelectByPhone(t)
    \/ CreateUserWithPhone(t) \/ StoreSession(t) \/ ExpireSession(t) \/ Logout(t)
Intercept(t) ==
    \/ ReadSession(t) \/ Refresh(t)
    \/ AnswerUnauthorized(t) \/ AnswerLogin(t) \/ AnswerLogout(t)
Fails(t) == ReadSessionFails(t) \/ RefreshFails(t) \/ HandlerFails(t)

Next ==
    \/ \E b \in Tabs : Leave(b)
    \/ \E b \in Tabs, t \in Threads : Send(b, t)
    \/ \E t \in Threads : Intercept(t) \/ Handle(t) \/ Fails(t)
    \/ \E k \in Tokens : SessionExpires(k)
    \/ Crash

Spec == Init /\ [][Next]_vars

-----------------------------------------------------------------------------
(* Properties.                                                              *)

InHandler(t) == req[t].pc \in {"handle", "done"} /\ req[t].kind \notin {"code", "login"}

\* What a tab asks for is done as the one user of the phone it had last logged in with
\* when it asked, or as nobody, whatever logins, logouts and page loads overlap.  Only a
\* thread whose last request failed between saveUser and afterCompletion may lend its
\* user, and only to a request without a session of its own.
RunsAsTheTabsUser ==
    \A t \in Threads :
       InHandler(t) /\ holder[t] # Nobody =>
          \/ RowsOf(req[t].who) = {[phone |-> req[t].who, id |-> holder[t]]}
          \/ t \in leaky /\ req[t].user = Nobody

\* A user left behind serves one request at most.
OneLeakOneRequest == strangers <= leaks

\* A session that was ended, by logout or by time, does not come back, although requests
\* that have read it go on to refresh it.
EndedStaysEnded == [][\A k \in ended : session[k]' = NoSession]_vars

\* A session without an end is one whose login has yet to give it one, or was kept from it
\* by a failure; no tab has its token.
EndlessIsUnknown ==
    \A k \in Tokens :
       session[k] # NoSession /\ ~session[k].ttl =>
          /\ k \in endless \/ \E t \in Threads : At(t, "expire") /\ req[t].token = k
          /\ \A b \in Tabs : tab[b] # k
=============================================================================
