--------------------------- MODULE SessionProofs ---------------------------
(***************************************************************************)
(* That a tab's requests run as the user of its phone, that a user left in *)
(* a thread serves one request at most, that sessions which ended stay so  *)
(* and that those without an end are nobody's, for any numbers of phones,  *)
(* tabs, threads and tokens.                                               *)
(***************************************************************************)
EXTENDS Session, FiniteSetTheorems, TLAPS

IsOf(id, phone) == [phone |-> phone, id |-> id] \in users

\* A token that was given out: its session lives or is over for good.
Known(k) == k \in ended \/ session[k] # NoSession

\* One row per phone, as the unique index has it.
UsersInv ==
    /\ IsFiniteSet(users)
    /\ \A u, v \in users : u.phone = v.phone => u = v

SessionInv ==
    \A k \in Tokens :
       /\ k \in ended => session[k] = NoSession
       /\ session[k] # NoSession => session[k].user # Nobody

\* A tab has the token of a session with an end, of the user of its phone.
TabInv ==
    \A b \in Tabs : tab[b] # None =>
       /\ Known(tab[b])
       /\ session[tab[b]] # NoSession => session[tab[b]].ttl /\ IsOf(session[tab[b]].user, who[b])

\* What a request may rely on at each of its steps.
RequestInv(r) ==
    /\ r.pc = "free" => r.kind = "none" /\ r.user = Nobody
    /\ r.pc # "free" => r.kind # "none"
    /\ r.pc = "entries" => r.user = Nobody
    /\ r.pc = "refused" => r.user = Nobody /\ r.kind \notin Excluded
    /\ r.pc = "refresh" => r.user # Nobody /\ r.token # None
    /\ r.pc \in {"select", "insert", "store", "expire"} => r.kind = "login"
    /\ r.pc = "done" => r.kind \in {"login", "logout"}
    /\ r.kind \in {"code", "login"} => r.phone # None
    /\ r.token # None => Known(r.token)
    /\ r.kind \notin {"code", "login"} /\ r.user # Nobody => IsOf(r.user, r.who)
    /\ r.kind \notin {"code", "login"} /\ r.pc = "entries" /\ r.token # None
          => (session[r.token] # NoSession => IsOf(session[r.token].user, r.who))
    /\ r.kind = "login" /\ r.pc \in {"store", "expire", "done"}
          => r.user # Nobody /\ IsOf(r.user, r.phone)
    /\ r.kind = "login" /\ r.pc \in {"expire", "done"}
          => /\ r.token # None
             /\ session[r.token] # NoSession => session[r.token].user = r.user
    /\ r.kind = "login" /\ r.pc = "done" /\ session[r.token] # NoSession => session[r.token].ttl

\* The user in a thread is its request's, or was left behind.
HolderInv(t) ==
    /\ req[t].pc \in {"free", "entries"} => holder[t] = Nobody \/ t \in leaky
    /\ req[t].pc = "refresh" => holder[t] = req[t].user
    /\ req[t].pc \notin {"free", "entries"} /\ req[t].kind \notin {"code", "login"}
          => holder[t] = req[t].user \/ (t \in leaky /\ req[t].user = Nobody)

\* The threads whose leaked user has yet to meet a request.
Pending == {t \in leaky : req[t].pc \in {"free", "entries", "refresh"}}

LeakInv == IsFiniteSet(leaky) /\ strangers + Cardinality(Pending) <= leaks

EndlessInv ==
    \A k \in Tokens :
       session[k] # NoSession /\ ~session[k].ttl =>
          k \in endless \/ \E t \in Threads : At(t, "expire") /\ req[t].token = k

-----------------------------------------------------------------------------
(* Requests, field by field.                                                *)

Fields(r, kind, pc, b, token, phone, user, p) ==
    /\ r.kind = kind /\ r.pc = pc /\ r.tab = b /\ r.token = token
    /\ r.phone = phone /\ r.user = user /\ r.who = p

LEMMA RequestFields ==
    ASSUME NEW r \in Requests
    PROVE  /\ r.kind \in Kinds \cup {"none"} /\ r.pc \in PCs
           /\ r.tab \in Tabs \cup {None} /\ r.token \in Tokens \cup {None}
           /\ r.phone \in Phones \cup {None} /\ r.user \in Nat
           /\ r.who \in Phones \cup {None}
BY DEF Requests

LEMMA FreeIsARequest == Free \in Requests /\ Fields(Free, "none", "free", None, None, None, Nobody, None)
BY DEF Free, Requests, PCs, Nobody, Fields

LEMMA WithoutTab ==
    ASSUME NEW r \in Requests
    PROVE  LET s == [r EXCEPT !.tab = None]
           IN s \in Requests /\ Fields(s, r.kind, r.pc, None, r.token, r.phone, r.user, r.who)
BY DEF Requests, Fields

LEMMA WithPc ==
    ASSUME NEW r \in Requests, NEW pc \in PCs
    PROVE  \E s \in Requests : /\ s = [r EXCEPT !.pc = pc]
                              /\ Fields(s, r.kind, pc, r.tab, r.token, r.phone, r.user, r.who)
<1> DEFINE s == [r EXCEPT !.pc = pc]
<1>1. s \in Requests /\ Fields(s, r.kind, pc, r.tab, r.token, r.phone, r.user, r.who)
  BY DEF Requests, Fields
<1> QED
  BY <1>1

LEMMA WithPcUser ==
    ASSUME NEW r \in Requests, NEW pc \in PCs, NEW user \in Nat
    PROVE  \E s \in Requests : /\ s = [r EXCEPT !.pc = pc, !.user = user]
                              /\ Fields(s, r.kind, pc, r.tab, r.token, r.phone, user, r.who)
<1> DEFINE s == [r EXCEPT !.pc = pc, !.user = user]
<1>1. s \in Requests /\ Fields(s, r.kind, pc, r.tab, r.token, r.phone, user, r.who)
  BY DEF Requests, Fields
<1> QED
  BY <1>1

LEMMA WithPcToken ==
    ASSUME NEW r \in Requests, NEW pc \in PCs, NEW k \in Tokens
    PROVE  \E s \in Requests : /\ s = [r EXCEPT !.pc = pc, !.token = k]
                              /\ Fields(s, r.kind, pc, r.tab, k, r.phone, r.user, r.who)
<1> DEFINE s == [r EXCEPT !.pc = pc, !.token = k]
<1>1. s \in Requests /\ Fields(s, r.kind, pc, r.tab, k, r.phone, r.user, r.who)
  BY DEF Requests, Fields
<1> QED
  BY <1>1

LEMMA HandledFields ==
    ASSUME NEW r \in Requests
    PROVE  LET s == Handled(r)
           IN /\ s \in Requests
              /\ Fields(s, r.kind, "handle", r.tab,
                        IF r.kind = "logout" THEN r.token ELSE None, r.phone,
                        IF r.kind \in {"code", "login"} THEN Nobody ELSE r.user, r.who)
BY DEF Requests, Fields, Handled, PCs, Nobody

LEMMA Sent ==
    ASSUME NEW b \in Tabs, NEW kind \in Kinds, NEW phone \in Phones \cup {None}, TypeOK
    PROVE  LET s == [Free EXCEPT !.kind = kind, !.tab = b, !.phone = phone, !.token = tab[b],
                                 !.pc = "entries", !.who = IF phone = None THEN who[b] ELSE None]
           IN /\ s \in Requests
              /\ Fields(s, kind, "entries", b, tab[b], phone, Nobody,
                        IF phone = None THEN who[b] ELSE None)
BY DEF Requests, Fields, Free, PCs, Nobody, TypeOK

LEMMA NothingIsNeither ==
    /\ Nobody = 0 /\ NoSession.user = Nobody /\ NoSession.ttl = FALSE
    /\ None \notin Tokens /\ None \notin Tabs /\ None \notin Phones
BY NoneIsNothing DEF Nobody, NoSession

\* A thread's request is what it was, but for the tab that may have left.
Same(r, s) ==
    /\ s.kind = r.kind /\ s.pc = r.pc /\ s.token = r.token
    /\ s.phone = r.phone /\ s.user = r.user /\ s.who = r.who

LEMMA LeftIsSame ==
    ASSUME TypeOK, NEW b
    PROVE  /\ Left(req, b) \in [Threads -> Requests]
           /\ \A t \in Threads : Same(req[t], Left(req, b)[t])
<1>1. req \in [Threads -> Requests]
  BY DEF TypeOK
<1> QED
  BY <1>1, WithoutTab DEF Left, Same, Fields

-----------------------------------------------------------------------------
(* What every step leaves of users and sessions.                            *)

TokensAge ==
    /\ users \subseteq users'
    /\ \A k \in Tokens : Known(k) =>
          /\ Known(k)'
          /\ session'[k] # NoSession =>
                /\ session[k] # NoSession /\ session'[k].user = session[k].user
                /\ session[k].ttl => session'[k].ttl

LEMMA Unchanged == ASSUME UNCHANGED <<users, session, ended>> PROVE TokensAge
BY DEF TokensAge, Known

\* A request keeps what it may rely on while others work.
LEMMA RequestKeeps ==
    ASSUME TokensAge, NEW r \in Requests, RequestInv(r), NEW s, Same(r, s)
    PROVE  RequestInv(s)'
<1>1. r.token \in Tokens \cup {None}
  BY RequestFields
<1> QED
  BY <1>1 DEF RequestInv, TokensAge, Same, IsOf

LEMMA TabKeeps ==
    ASSUME TypeOK, TabInv, TokensAge, UNCHANGED <<tab, who>>
    PROVE  TabInv'
BY DEF TypeOK, TabInv, TokensAge, IsOf

LEMMA SessionType ==
    ASSUME TypeOK, NEW k \in Tokens, NEW user \in Nat, NEW ttl \in BOOLEAN
    PROVE  /\ session[k].user \in Nat /\ session[k].ttl \in BOOLEAN
           /\ [user |-> user, ttl |-> ttl].user = user /\ [user |-> user, ttl |-> ttl].ttl = ttl
           /\ [session EXCEPT ![k] = [user |-> user, ttl |-> ttl]] \in [Tokens -> [user : Nat, ttl : BOOLEAN]]
BY DEF TypeOK

\* EXPIRE, on whatever the key holds.
LEMMA Expire ==
    ASSUME TypeOK, SessionInv, NEW k \in Tokens,
           session' = [session EXCEPT ![k].ttl = (session[k] # NoSession)],
           UNCHANGED <<users, ended>>
    PROVE  /\ session' \in [Tokens -> [user : Nat, ttl : BOOLEAN]]
           /\ SessionInv' /\ TokensAge
           /\ \A j \in Tokens : session'[j] # NoSession => session[j] # NoSession
           /\ \A j \in Tokens \ {k} : session'[j] = session[j]
           /\ session'[k] # NoSession => session'[k].ttl
<1>1. session[k] \in [user : Nat, ttl : BOOLEAN]
  BY DEF TypeOK
<1>2. session' = [session EXCEPT ![k] = [session[k] EXCEPT !.ttl = (session[k] # NoSession)]]
  OBVIOUS
<1>3. session' \in [Tokens -> [user : Nat, ttl : BOOLEAN]]
  BY <1>1, <1>2 DEF TypeOK
<1>4. CASE session[k] = NoSession
  <2>0. \A r \in [user : Nat, ttl : BOOLEAN] : r = [user |-> r.user, ttl |-> r.ttl]
    OBVIOUS
  <2>1. session'[k].user = Nobody /\ session'[k].ttl = FALSE
    BY <1>1, <1>2, <1>4 DEF TypeOK, NoSession
  <2>2. session' = session
    BY <1>2, <1>3, <1>4, <2>0, <2>1 DEF TypeOK, NoSession
  <2> QED
    BY <1>3, <1>4, <2>2, Unchanged DEF SessionInv, Known
<1>5. CASE session[k] # NoSession
  <2>1. session'[k].user = session[k].user /\ session'[k].ttl
    BY <1>1, <1>2, <1>5 DEF TypeOK
  <2>2. \A j \in Tokens \ {k} : session'[j] = session[j]
    BY <1>2 DEF TypeOK
  <2>3. session'[k] # NoSession
    BY <2>1 DEF NoSession
  <2> QED
    BY <1>3, <1>5, <2>1, <2>2, <2>3 DEF SessionInv, TokensAge, Known
<1> QED
  BY <1>4, <1>5

-----------------------------------------------------------------------------
(* The conjuncts of the invariant that no type is about, and the effect on  *)
(* them of a thread that goes on, meets the LoginInterceptor or answers.    *)

ServerInv ==
    /\ SessionInv
    /\ \A t \in Threads : RequestInv(req[t]) /\ HolderInv(t)
    /\ LeakInv
    /\ EndlessInv

OthersSame(t) == \A s \in Threads \ {t} : Same(req[s], req'[s])

LEMMA PendingIsFinite ==
    ASSUME LeakInv, NEW S \in SUBSET leaky
    PROVE  IsFiniteSet(S) /\ Cardinality(S) \in Nat
BY FS_Subset, FS_CardinalityType DEF LeakInv

LEMMA FewerPending ==
    ASSUME TypeOK, LeakInv, leaky' \subseteq leaky, Pending' \subseteq Pending,
           UNCHANGED <<leaks, strangers>>
    PROVE  LeakInv'
<1>1. IsFiniteSet(leaky')
  BY FS_Subset DEF LeakInv
<1>2. Cardinality(Pending') <= Cardinality(Pending)
  BY PendingIsFinite, FS_Subset DEF Pending
<1>3. Cardinality(Pending) \in Nat /\ Cardinality(Pending') \in Nat
  BY PendingIsFinite DEF Pending
<1> QED
  BY <1>1, <1>2, <1>3 DEF LeakInv, TypeOK

LEMMA OthersKeep ==
    ASSUME TypeOK, ServerInv, TokensAge, NEW t \in Threads, OthersSame(t),
           leaky \ {t} \subseteq leaky', \A s \in Threads \ {t} : holder'[s] = holder[s]
    PROVE  \A s \in Threads \ {t} : RequestInv(req[s])' /\ HolderInv(s)'
<1> SUFFICES ASSUME NEW s \in Threads \ {t} PROVE RequestInv(req[s])' /\ HolderInv(s)'
  OBVIOUS
<1>1. req[s] \in Requests /\ Same(req[s], req'[s])
  BY DEF TypeOK, OthersSame
<1>2. RequestInv(req[s])'
  BY <1>1, RequestKeeps DEF ServerInv, RequestInv, Known, IsOf
<1>3. HolderInv(s)'
  BY <1>1 DEF ServerInv, HolderInv, Same
<1> QED
  BY <1>2, <1>3

\* The sessions without an end, when one thread's part in them changes.
LEMMA EndlessKeeps ==
    ASSUME TypeOK, ServerInv, NEW t \in Threads, OthersSame(t), endless \subseteq endless',
           \A k \in Tokens : session'[k] # NoSession /\ ~session'[k].ttl =>
              \/ At(t, "expire")' /\ req'[t].token = k
              \/ /\ session[k] # NoSession /\ ~session[k].ttl
                 /\ At(t, "expire") /\ req[t].token = k => k \in endless'
    PROVE  EndlessInv'
<1> SUFFICES ASSUME NEW k \in Tokens, session'[k] # NoSession, ~session'[k].ttl
             PROVE  \/ k \in endless'
                    \/ \E s \in Threads : At(s, "expire")' /\ req'[s].token = k
  BY DEF EndlessInv
<1>1. CASE At(t, "expire")' /\ req'[t].token = k
  BY <1>1
<1>2. CASE /\ session[k] # NoSession /\ ~session[k].ttl
           /\ At(t, "expire") /\ req[t].token = k => k \in endless'
  <2>1. CASE k \in endless
    BY <2>1
  <2>2. CASE \E s \in Threads : At(s, "expire") /\ req[s].token = k
    <3>1. PICK s \in Threads : At(s, "expire") /\ req[s].token = k
      BY <2>2
    <3>2. CASE s = t
      BY <1>2, <3>1, <3>2
    <3>3. CASE s # t
      <4>1. Same(req[s], req'[s])
        BY <3>3 DEF OthersSame
      <4>2. At(s, "expire")' /\ req'[s].token = k
        BY <3>1, <4>1 DEF Same, At
      <4> QED
        BY <4>2
    <3> QED
      BY <3>2, <3>3
  <2> QED
    BY <1>2, <2>1, <2>2 DEF ServerInv, EndlessInv
<1> QED
  BY <1>1, <1>2

\* A thread goes on in its handler.
LEMMA GoesOn ==
    ASSUME TypeOK, ServerInv, TokensAge, SessionInv', NEW t \in Threads, OthersSame(t),
           RequestInv(req[t])',
           req[t].pc \notin {"free", "entries", "refresh"},
           req'[t].pc \notin {"free", "entries", "refresh"},
           req'[t].kind = req[t].kind,
           req[t].kind \in {"code", "login"} \/ req'[t].user = req[t].user,
           UNCHANGED <<holder, leaky, leaks, strangers, endless>>,
           \A k \in Tokens : session'[k] # NoSession /\ ~session'[k].ttl =>
              \/ At(t, "expire")' /\ req'[t].token = k
              \/ /\ session[k] # NoSession /\ ~session[k].ttl
                 /\ ~(At(t, "expire") /\ req[t].token = k)
    PROVE  ServerInv'
<1>1. \A s \in Threads \ {t} : RequestInv(req[s])' /\ HolderInv(s)'
  BY OthersKeep
<1>2. HolderInv(t)'
  BY DEF ServerInv, HolderInv
<1>3. Pending' \subseteq Pending
  BY DEF Pending, OthersSame, Same, TypeOK
<1>4. LeakInv'
  BY <1>3, FewerPending DEF ServerInv
<1>5. EndlessInv'
  BY EndlessKeeps
<1> QED
  BY <1>1, <1>2, <1>4, <1>5 DEF ServerInv

\* A thread answers and is cleaned.
LEMMA Finishes ==
    ASSUME TypeOK, ServerInv, NEW t \in Threads, NEW requests \in [Threads -> Requests],
           \A s \in Threads : Same(req[s], requests[s]),
           Finish(t, requests), UNCHANGED <<session, users>>, endless \subseteq endless',
           At(t, "expire") => req[t].token \in endless'
    PROVE  ServerInv' /\ req' \in [Threads -> Requests] /\ holder' \in [Threads -> Nat]
<1>1. /\ OthersSame(t) /\ req' \in [Threads -> Requests]
      /\ req'[t].pc = "free" /\ req'[t].kind = "none" /\ req'[t].user = Nobody
      /\ req'[t].token = None
  BY FreeIsARequest DEF Finish, OthersSame, Fields
<1>2. /\ holder' \in [Threads -> Nat] /\ holder'[t] = Nobody
      /\ \A s \in Threads \ {t} : holder'[s] = holder[s]
      /\ leaky' = leaky \ {t}
  BY DEF Finish, Clear, TypeOK, Nobody
<1>3. TokensAge
  BY Unchanged DEF Finish
<1>4. RequestInv(req[t])'
  BY <1>1, NothingIsNeither DEF RequestInv, Excluded
<1>5. \A s \in Threads \ {t} : RequestInv(req[s])' /\ HolderInv(s)'
  BY <1>1, <1>2, <1>3, OthersKeep
<1>6. HolderInv(t)'
  BY <1>1, <1>2 DEF HolderInv
<1>7. Pending' \subseteq Pending
  BY <1>1, <1>2 DEF Pending, OthersSame, Same, TypeOK
<1>8. LeakInv'
  BY <1>2, <1>7, FewerPending DEF ServerInv, Finish
<1>9. EndlessInv'
  BY <1>1, EndlessKeeps DEF At
<1>10. SessionInv'
  BY DEF ServerInv, SessionInv, Finish
<1> QED
  BY <1>1, <1>2, <1>4, <1>5, <1>6, <1>8, <1>9, <1>10 DEF ServerInv

-----------------------------------------------------------------------------
(* The inductive invariant, and the answers that end a request.             *)

IInv == TypeOK /\ UsersInv /\ TabInv /\ ServerInv

\* An answer that leads nowhere.
LEMMA AnswerKeeps ==
    ASSUME IInv, NEW t \in Threads, Answer(t), UNCHANGED <<session, users>>,
           codes' \subseteq Phones, faults' \in 0..MaxFaults,
           endless \subseteq endless', endless' \subseteq Tokens,
           At(t, "expire") => req[t].token \in endless'
    PROVE  IInv'
<1>1. req \in [Threads -> Requests] /\ \A s \in Threads : Same(req[s], req[s])
  BY DEF IInv, TypeOK, Same
<1>2. ServerInv' /\ req' \in [Threads -> Requests] /\ holder' \in [Threads -> Nat]
  BY <1>1, Finishes DEF IInv, Answer
<1>3. UNCHANGED <<users, session, tab, who, ended, leaks, strangers>> /\ leaky' \subseteq leaky
  BY DEF Answer, Finish
<1>4. TypeOK'
  BY <1>2, <1>3 DEF IInv, TypeOK
<1>5. TabInv'
  BY <1>3, Unchanged, TabKeeps DEF IInv
<1> QED
  BY <1>2, <1>3, <1>4, <1>5 DEF IInv, UsersInv

\* An answer that leads to a page with this token, of this phone.
LEMMA LeadOnKeeps ==
    ASSUME IInv, NEW t \in Threads, NEW token, NEW phone, LeadOn(t, token, phone),
           ~At(t, "expire"),
           req[t].tab # None =>
              /\ token \in Tokens \cup {None} /\ phone \in Phones \cup {None}
              /\ token # None =>
                    /\ Known(token)
                    /\ session[token] # NoSession =>
                          session[token].ttl /\ IsOf(session[token].user, phone)
    PROVE  IInv'
<1>1. CASE req[t].tab = None
  BY <1>1, AnswerKeeps DEF IInv, TypeOK, LeadOn, redis
<1>2. CASE req[t].tab # None
  <2> DEFINE b == req[t].tab
  <2>1. b \in Tabs
    BY <1>2, RequestFields DEF IInv, TypeOK
  <2>2. /\ Finish(t, Left(req, b)) /\ UNCHANGED <<codes, session, users, faults, endless>>
        /\ tab' = [tab EXCEPT ![b] = token] /\ who' = [who EXCEPT ![b] = phone]
    BY <1>2 DEF LeadOn, redis
  <2>3. /\ Left(req, b) \in [Threads -> Requests]
        /\ \A s \in Threads : Same(req[s], Left(req, b)[s])
    BY LeftIsSame DEF IInv
  <2>4. ServerInv' /\ req' \in [Threads -> Requests] /\ holder' \in [Threads -> Nat]
    BY <2>2, <2>3, Finishes DEF IInv
  <2>5. UNCHANGED <<ended, leaks, strangers>> /\ leaky' \subseteq leaky
    BY <2>2 DEF Finish
  <2>6. TypeOK'
    BY <1>2, <2>1, <2>2, <2>4, <2>5 DEF IInv, TypeOK
  <2>7. TabInv'
    BY <1>2, <2>1, <2>2, <2>5 DEF IInv, TypeOK, TabInv, Known, IsOf
  <2> QED
    BY <2>2, <2>4, <2>6, <2>7 DEF IInv, UsersInv
<1> QED
  BY <1>1, <1>2

LEMMA AnswersKeep ==
    ASSUME IInv, NEW t \in Threads,
           AnswerUnauthorized(t) \/ AnswerLogin(t) \/ AnswerLogout(t)
    PROVE  IInv'
<1>1. /\ req[t] \in Requests /\ RequestInv(req[t])
      /\ req[t].tab \in Tabs \cup {None} /\ req[t].token \in Tokens \cup {None}
      /\ req[t].phone \in Phones \cup {None}
  BY RequestFields DEF IInv, TypeOK, ServerInv
<1>2. CASE AnswerUnauthorized(t)
  BY <1>1, <1>2, LeadOnKeeps DEF IInv, TypeOK, TabInv, AnswerUnauthorized, At
<1>3. CASE AnswerLogin(t)
  BY <1>1, <1>3, LeadOnKeeps DEF RequestInv, AnswerLogin, At
<1>4. CASE AnswerLogout(t)
  BY <1>1, <1>4, LeadOnKeeps DEF AnswerLogout, At
<1> QED
  BY <1>2, <1>3, <1>4

LEMMA ServeKeeps ==
    ASSUME IInv, NEW t \in Threads, Serve(t) \/ SendCode(t) \/ HandlerFails(t)
    PROVE  IInv'
<1>1. /\ codes \subseteq Phones /\ faults \in 0..MaxFaults /\ endless \subseteq Tokens
      /\ req[t] \in Requests /\ RequestInv(req[t])
      /\ req[t].phone \in Phones \cup {None} /\ req[t].token \in Tokens \cup {None}
  BY RequestFields DEF IInv, TypeOK, ServerInv
<1>2. CASE Serve(t)
  BY <1>1, <1>2, AnswerKeeps DEF Serve, redis, At
<1>3. CASE SendCode(t)
  BY <1>1, <1>3, AnswerKeeps DEF SendCode, At, RequestInv
<1>4. CASE HandlerFails(t)
  <2>1. faults' \in 0..MaxFaults
    BY <1>1, <1>4, FaultsType DEF HandlerFails, Fault
  <2>2. endless \subseteq endless' /\ endless' \subseteq Tokens
    BY <1>1, <1>4 DEF HandlerFails, At, RequestInv
  <2> QED
    BY <1>1, <1>4, <2>1, <2>2, AnswerKeeps DEF HandlerFails, redis, At
<1> QED
  BY <1>2, <1>3, <1>4

-----------------------------------------------------------------------------
(* The handlers' steps.                                                     *)

\* What the steps of a handler have in common.
LEMMA GoesOnKeeps ==
    ASSUME IInv, NEW t \in Threads, NEW r \in Requests, req' = [req EXCEPT ![t] = r],
           TokensAge, SessionInv', session' \in [Tokens -> [user : Nat, ttl : BOOLEAN]],
           users' \subseteq [phone : Phones, id : Ids], UsersInv',
           ended' \subseteq Tokens, RequestInv(r)',
           req[t].pc \notin {"free", "entries", "refresh"},
           r.pc \notin {"free", "entries", "refresh"}, r.kind = req[t].kind,
           req[t].kind \in {"code", "login"} \/ r.user = req[t].user,
           UNCHANGED <<codes, holder, tab, faults, who, leaky, leaks, strangers, endless>>,
           \A k \in Tokens : session'[k] # NoSession /\ ~session'[k].ttl =>
              \/ r.pc = "expire" /\ r.token = k
              \/ /\ session[k] # NoSession /\ ~session[k].ttl
                 /\ ~(req[t].pc = "expire" /\ req[t].token = k)
    PROVE  IInv'
<1>1. req'[t] = r /\ req' \in [Threads -> Requests] /\ OthersSame(t)
  BY DEF IInv, TypeOK, OthersSame, Same
<1>2. RequestInv(req[t])'
  BY <1>1 DEF RequestInv, Known, IsOf
<1>3. \A k \in Tokens : session'[k] # NoSession /\ ~session'[k].ttl =>
         \/ At(t, "expire")' /\ req'[t].token = k
         \/ /\ session[k] # NoSession /\ ~session[k].ttl
            /\ ~(At(t, "expire") /\ req[t].token = k)
  BY <1>1 DEF At
<1>4. ServerInv'
  BY <1>1, <1>2, <1>3, GoesOn DEF IInv
<1>5. TypeOK'
  BY <1>1 DEF IInv, TypeOK
<1>6. TabInv'
  BY TabKeeps DEF IInv
<1> QED
  BY <1>4, <1>5, <1>6 DEF IInv

LEMMA Facts ==
    ASSUME IInv, NEW t \in Threads
    PROVE  /\ req[t] \in Requests /\ RequestInv(req[t])
           /\ req[t].phone \in Phones \cup {None} /\ req[t].token \in Tokens \cup {None}
           /\ req[t].user \in Nat /\ req[t].pc \in PCs
           /\ users \subseteq [phone : Phones, id : Ids] /\ UsersInv
           /\ session \in [Tokens -> [user : Nat, ttl : BOOLEAN]]
           /\ codes \subseteq Phones /\ faults \in 0..MaxFaults
           /\ ended \subseteq Tokens /\ endless \subseteq Tokens /\ SessionInv
BY RequestFields DEF IInv, TypeOK, ServerInv

LEMMA CheckCodeKeeps == ASSUME IInv, NEW t \in Threads, CheckCode(t) PROVE IInv'
<1>0. /\ req[t] \in Requests /\ RequestInv(req[t])
      /\ {"select", "insert", "store"} \subseteq PCs
      /\ users \subseteq [phone : Phones, id : Ids] /\ UsersInv /\ SessionInv
      /\ session \in [Tokens -> [user : Nat, ttl : BOOLEAN]] /\ ended \subseteq Tokens
  BY Facts DEF PCs
<1>1. CASE Answer(t) /\ UNCHANGED endless
  BY <1>1, Facts, AnswerKeeps DEF CheckCode, redis, At
<1>2. CASE Goto(t, "select") /\ UNCHANGED <<holder, tab, histories>>
  <2>1. PICK r \in Requests :
               /\ r = [req[t] EXCEPT !.pc = "select"]
               /\ Fields(r, req[t].kind, "select", req[t].tab, req[t].token, req[t].phone,
                         req[t].user, req[t].who)
    BY <1>0, WithPc
  <2>2. req' = [req EXCEPT ![t] = r]
    BY <1>2, <2>1 DEF Goto
  <2>3. /\ req[t].kind = "login" /\ req[t].pc = "handle"
        /\ UNCHANGED <<codes, session, users, ended, faults, holder, tab, who, leaky, leaks,
                       strangers, endless>>
    BY <1>2 DEF CheckCode, redis, histories, At
  <2>4. RequestInv(r)'
    BY <1>0, <2>1, <2>3 DEF RequestInv, Fields, Known, IsOf
  <2>5. TokensAge /\ SessionInv' /\ UsersInv'
    BY <2>3, Unchanged, Facts DEF SessionInv, UsersInv
  <2> QED
    BY <2>1, <2>2, <2>3, <2>4, <2>5, <1>0, GoesOnKeeps DEF Fields
<1> QED
  BY <1>1, <1>2 DEF CheckCode

LEMMA SelectByPhoneKeeps == ASSUME IInv, NEW t \in Threads, SelectByPhone(t) PROVE IInv'
<1>0. /\ req[t] \in Requests /\ RequestInv(req[t])
      /\ {"select", "insert", "store"} \subseteq PCs
      /\ users \subseteq [phone : Phones, id : Ids] /\ UsersInv /\ SessionInv
      /\ session \in [Tokens -> [user : Nat, ttl : BOOLEAN]] /\ ended \subseteq Tokens
  BY Facts DEF PCs
<1>1. /\ req[t].kind = "login" /\ req[t].pc = "select"
      /\ UNCHANGED <<codes, session, users, ended, faults, holder, tab, who, leaky, leaks,
                     strangers, endless>>
  BY Facts DEF SelectByPhone, redis, histories, At, RequestInv
<1>2. TokensAge /\ SessionInv' /\ UsersInv'
  BY <1>1, Unchanged, Facts DEF SessionInv, UsersInv
<1>3. CASE Goto(t, "insert")
  <2>1. PICK r \in Requests :
               /\ r = [req[t] EXCEPT !.pc = "insert"]
               /\ Fields(r, req[t].kind, "insert", req[t].tab, req[t].token, req[t].phone,
                         req[t].user, req[t].who)
    BY <1>0, WithPc
  <2>2. req' = [req EXCEPT ![t] = r]
    BY <1>3, <2>1 DEF Goto
  <2>3. RequestInv(r)'
    BY <1>0, <1>1, <2>1 DEF RequestInv, Fields, Known, IsOf
  <2> QED
    BY <1>1, <1>2, <2>1, <2>2, <2>3, <1>0, GoesOnKeeps DEF Fields
<1>4. CASE \E u \in RowsOf(req[t].phone) :
              req' = [req EXCEPT ![t].pc = "store", ![t].user = u.id]
  <2>1. PICK u \in RowsOf(req[t].phone) :
               req' = [req EXCEPT ![t].pc = "store", ![t].user = u.id]
    BY <1>4
  <2>2. u.id \in Nat /\ u.id # Nobody /\ IsOf(u.id, req[t].phone)
    BY Facts DEF RowsOf, Ids, Nobody, IsOf
  <2>3. PICK r \in Requests :
               /\ r = [req[t] EXCEPT !.pc = "store", !.user = u.id]
               /\ Fields(r, req[t].kind, "store", req[t].tab, req[t].token, req[t].phone,
                         u.id, req[t].who)
    BY <1>0, <2>2, WithPcUser
  <2>4. req' = [req EXCEPT ![t] = r]
    BY <2>1, <2>3
  <2>5. RequestInv(r)'
    BY <1>0, <1>1, <2>2, <2>3 DEF RequestInv, Fields, Known, IsOf
  <2> QED
    BY <1>1, <1>2, <2>3, <2>4, <2>5, <1>0, GoesOnKeeps DEF Fields
<1> QED
  BY <1>3, <1>4 DEF SelectByPhone

LEMMA CreateUserKeeps == ASSUME IInv, NEW t \in Threads, CreateUserWithPhone(t) PROVE IInv'
<1>0. /\ req[t] \in Requests /\ RequestInv(req[t])
      /\ {"select", "insert", "store"} \subseteq PCs
      /\ users \subseteq [phone : Phones, id : Ids] /\ UsersInv /\ SessionInv
      /\ session \in [Tokens -> [user : Nat, ttl : BOOLEAN]] /\ ended \subseteq Tokens
  BY Facts DEF PCs
<1>1. CASE Answer(t) /\ UNCHANGED <<users, endless>>
  BY <1>1, Facts, AnswerKeeps DEF CreateUserWithPhone, redis, At
<1>2. CASE RowsOf(req[t].phone) = {} /\ NewUser(t) /\ UNCHANGED <<holder, tab, histories>>
  <2> DEFINE id == Cardinality(users) + 1
             row == [phone |-> req[t].phone, id |-> id]
  <2>1. /\ req[t].kind = "login" /\ req[t].pc = "insert" /\ req[t].phone \in Phones
        /\ UNCHANGED <<codes, session, ended, faults, holder, tab, who, leaky, leaks,
                       strangers, endless>>
    BY <1>2, Facts DEF CreateUserWithPhone, redis, histories, At, RequestInv
  <2>2. id \in Nat /\ id # Nobody
    BY Facts, FS_CardinalityType DEF UsersInv, Nobody
  <2>3. /\ users' = users \cup {row}
        /\ req' = [req EXCEPT ![t].pc = "store", ![t].user = id]
    BY <1>2 DEF NewUser
  <2> HIDE DEF id
  <2>4. PICK r \in Requests :
               /\ r = [req[t] EXCEPT !.pc = "store", !.user = id]
               /\ Fields(r, req[t].kind, "store", req[t].tab, req[t].token, req[t].phone,
                         id, req[t].who)
    BY <1>0, <2>2, WithPcUser
  <2>8. req' = [req EXCEPT ![t] = r]
    BY <2>3, <2>4
  <2>5. UsersInv' /\ users' \subseteq [phone : Phones, id : Ids]
    <3>1. row.phone = req[t].phone /\ row \in [phone : Phones, id : Ids]
      BY <2>1, <2>2 DEF Ids
    <3>2. IsFiniteSet(users')
      BY <2>3, Facts, FS_AddElement DEF UsersInv
    <3>3. \A u \in users : u.phone # req[t].phone
      BY <1>2 DEF RowsOf
    <3> HIDE DEF row
    <3> QED
      BY <2>3, <3>1, <3>2, <3>3, Facts DEF UsersInv
  <2>6. TokensAge /\ SessionInv'
    BY <2>1, <2>3, Facts DEF TokensAge, Known, SessionInv
  <2>7. RequestInv(r)'
    BY <1>0, <2>1, <2>2, <2>3, <2>4 DEF RequestInv, Fields, Known, IsOf
  <2> HIDE DEF row
  <2> QED
    BY <2>1, <2>3, <2>4, <2>5, <2>6, <2>7, <2>8, <1>0, GoesOnKeeps DEF Fields
<1> QED
  BY <1>1, <1>2 DEF CreateUserWithPhone

LEMMA StoreSessionKeeps == ASSUME IInv, NEW t \in Threads, StoreSession(t) PROVE IInv'
<1>0. /\ req[t] \in Requests /\ RequestInv(req[t]) /\ req[t].user \in Nat
      /\ "expire" \in PCs
      /\ users \subseteq [phone : Phones, id : Ids] /\ UsersInv /\ SessionInv
      /\ session \in [Tokens -> [user : Nat, ttl : BOOLEAN]] /\ ended \subseteq Tokens
  BY Facts DEF PCs
<1>1. PICK k \in Tokens :
             /\ k \notin ended /\ session[k] = NoSession
             /\ session' = [session EXCEPT ![k] = [user |-> req[t].user, ttl |-> FALSE]]
             /\ req' = [req EXCEPT ![t].pc = "expire", ![t].token = k]
  BY DEF StoreSession
<1>2. /\ req[t].pc = "store" /\ req[t].kind = "login" /\ req[t].user # Nobody
      /\ UNCHANGED <<codes, users, holder, tab, faults, who, leaky, leaks, strangers, ended,
                     endless>>
  BY <1>0 DEF StoreSession, At, RequestInv
<1>3. PICK r \in Requests :
             /\ r = [req[t] EXCEPT !.pc = "expire", !.token = k]
             /\ Fields(r, req[t].kind, "expire", req[t].tab, k, req[t].phone,
                       req[t].user, req[t].who)
  BY <1>0, WithPcToken
<1>4. req' = [req EXCEPT ![t] = r]
  BY <1>1, <1>3
<1>5. /\ session' \in [Tokens -> [user : Nat, ttl : BOOLEAN]]
      /\ session'[k].user = req[t].user /\ ~session'[k].ttl
      /\ \A j \in Tokens \ {k} : session'[j] = session[j]
  BY <1>0, <1>1
<1>6. session'[k] # NoSession
  BY <1>2, <1>5, NothingIsNeither
<1>7. TokensAge /\ SessionInv' /\ UsersInv'
  BY <1>0, <1>1, <1>2, <1>5, <1>6 DEF TokensAge, Known, SessionInv, UsersInv
<1>8. RequestInv(r)'
  BY <1>0, <1>1, <1>2, <1>3, <1>5, <1>6, NothingIsNeither DEF RequestInv, Fields, Known, IsOf
<1> QED
  BY <1>0, <1>2, <1>3, <1>4, <1>5, <1>7, <1>8, GoesOnKeeps DEF Fields

LEMMA ExpireSessionKeeps == ASSUME IInv, NEW t \in Threads, ExpireSession(t) PROVE IInv'
<1>0. /\ req[t] \in Requests /\ RequestInv(req[t]) /\ "done" \in PCs /\ TypeOK
      /\ req[t].token \in Tokens \cup {None} /\ ended \subseteq Tokens
      /\ users \subseteq [phone : Phones, id : Ids] /\ UsersInv /\ SessionInv
  BY Facts DEF PCs, IInv
<1>1. /\ req[t].pc = "expire" /\ req[t].kind = "login" /\ req[t].token \in Tokens
      /\ session' = [session EXCEPT ![req[t].token].ttl = (session[req[t].token] # NoSession)]
      /\ UNCHANGED <<codes, users, holder, tab, faults, who, leaky, leaks, strangers, ended,
                     endless>>
  BY <1>0 DEF ExpireSession, At, RequestInv, histories
<1>2. PICK r \in Requests :
             /\ r = [req[t] EXCEPT !.pc = "done"]
             /\ Fields(r, req[t].kind, "done", req[t].tab, req[t].token, req[t].phone,
                       req[t].user, req[t].who)
  BY <1>0, WithPc
<1>3. req' = [req EXCEPT ![t] = r]
  BY <1>2 DEF ExpireSession, Goto
<1>4. /\ session' \in [Tokens -> [user : Nat, ttl : BOOLEAN]]
      /\ SessionInv' /\ TokensAge
      /\ \A j \in Tokens \ {req[t].token} : session'[j] = session[j]
      /\ session'[req[t].token] # NoSession => session'[req[t].token].ttl
  BY <1>0, <1>1, Expire
<1>5. RequestInv(r)'
  BY <1>0, <1>1, <1>2, <1>4 DEF RequestInv, Fields, TokensAge, IsOf
<1>6. UsersInv'
  BY <1>0, <1>1 DEF UsersInv
<1> QED
  BY <1>0, <1>1, <1>2, <1>3, <1>4, <1>5, <1>6, GoesOnKeeps DEF Fields

LEMMA LogoutKeeps == ASSUME IInv, NEW t \in Threads, Logout(t) PROVE IInv'
<1>0. /\ req[t] \in Requests /\ RequestInv(req[t]) /\ "done" \in PCs /\ TypeOK
      /\ req[t].token \in Tokens \cup {None} /\ ended \subseteq Tokens
      /\ session \in [Tokens -> [user : Nat, ttl : BOOLEAN]]
      /\ users \subseteq [phone : Phones, id : Ids] /\ UsersInv /\ SessionInv
  BY Facts DEF PCs, IInv
<1>1. /\ req[t].pc = "handle" /\ req[t].kind = "logout"
      /\ UNCHANGED <<codes, users, holder, tab, faults, who, leaky, leaks, strangers, endless>>
      /\ \/ req[t].token = None /\ UNCHANGED <<session, ended>>
         \/ /\ req[t].token \in Tokens
            /\ session' = [session EXCEPT ![req[t].token] = NoSession]
            /\ ended' = ended \cup {req[t].token}
  BY <1>0 DEF Logout, At
<1>2. PICK r \in Requests :
             /\ r = [req[t] EXCEPT !.pc = "done"]
             /\ Fields(r, req[t].kind, "done", req[t].tab, req[t].token, req[t].phone,
                       req[t].user, req[t].who)
  BY <1>0, WithPc
<1>3. req' = [req EXCEPT ![t] = r]
  BY <1>2 DEF Logout, Goto
<1>4. NoSession \in [user : Nat, ttl : BOOLEAN]
  BY DEF NoSession, Nobody
<1>5. /\ session' \in [Tokens -> [user : Nat, ttl : BOOLEAN]] /\ ended' \subseteq Tokens
      /\ \A k \in Tokens : \/ k \in ended' /\ session'[k] = NoSession
                           \/ session'[k] = session[k] /\ (k \in ended' <=> k \in ended)
  <2>1. CASE UNCHANGED <<session, ended>>
    BY <1>0, <2>1
  <2>2. CASE /\ req[t].token \in Tokens
             /\ session' = [session EXCEPT ![req[t].token] = NoSession]
             /\ ended' = ended \cup {req[t].token}
    <3>1. session'[req[t].token] = NoSession
      BY <1>0, <2>2
    <3>2. session' \in [Tokens -> [user : Nat, ttl : BOOLEAN]] /\ ended' \subseteq Tokens
      BY <1>0, <1>4, <2>2
    <3>3. \A k \in Tokens \ {req[t].token} :
             session'[k] = session[k] /\ (k \in ended' <=> k \in ended)
      BY <1>0, <2>2
    <3>4. ASSUME NEW k \in Tokens
          PROVE  \/ k \in ended' /\ session'[k] = NoSession
                 \/ session'[k] = session[k] /\ (k \in ended' <=> k \in ended)
      <4>1. CASE k = req[t].token
        BY <2>2, <3>1, <4>1
      <4>2. CASE k # req[t].token
        BY <3>3, <4>2
      <4> QED
        BY <4>1, <4>2
    <3> QED
      BY <3>2, <3>4
  <2> QED
    BY <1>1, <2>1, <2>2
<1>6. SessionInv' /\ TokensAge /\ UsersInv'
  BY <1>0, <1>1, <1>5 DEF SessionInv, TokensAge, Known, UsersInv
<1>7. RequestInv(r)'
  BY <1>0, <1>1, <1>2, <1>5 DEF RequestInv, Fields, Known, IsOf
<1> QED
  BY <1>0, <1>1, <1>2, <1>3, <1>5, <1>6, <1>7, GoesOnKeeps DEF Fields

-----------------------------------------------------------------------------
(* The interceptors' steps.                                                 *)

\* The LoginInterceptor lets a request pass or refuses it.
LEMMA GuardKeeps ==
    ASSUME IInv, NEW t \in Threads, Guard(t, req[t]),
           req[t].pc \in {"entries", "refresh"},
           TokensAge, SessionInv', session' \in [Tokens -> [user : Nat, ttl : BOOLEAN]],
           \A k \in Tokens : session'[k] # NoSession /\ ~session'[k].ttl =>
              session[k] # NoSession /\ ~session[k].ttl,
           UNCHANGED <<codes, users, holder, tab, faults, who, leaky, leaks, ended, endless>>
    PROVE  IInv'
<1>0. /\ TypeOK /\ req[t] \in Requests /\ RequestInv(req[t]) /\ HolderInv(t)
      /\ req[t].token \in Tokens \cup {None} /\ "refused" \in PCs
      /\ holder[t] \in Nat /\ req[t].user \in Nat /\ leaks \in Nat /\ strangers \in Nat
  BY Facts, FaultsType DEF PCs, IInv, TypeOK, ServerInv
<1>1. PICK r \in Requests :
             /\ req' = [req EXCEPT ![t] = r]
             /\ \/ /\ req[t].kind \in Excluded \/ holder[t] # Nobody
                   /\ Fields(r, req[t].kind, "handle", req[t].tab,
                             IF req[t].kind = "logout" THEN req[t].token ELSE None, req[t].phone,
                             IF req[t].kind \in {"code", "login"} THEN Nobody ELSE req[t].user,
                             req[t].who)
                \/ /\ req[t].kind \notin Excluded /\ holder[t] = Nobody
                   /\ Fields(r, req[t].kind, "refused", req[t].tab, req[t].token, req[t].phone,
                             req[t].user, req[t].who)
  <2>1. CASE req[t].kind \in Excluded \/ holder[t] # Nobody
    BY <1>0, <2>1, HandledFields DEF Guard
  <2>2. CASE ~(req[t].kind \in Excluded \/ holder[t] # Nobody)
    <3>1. PICK r \in Requests :
                 /\ r = [req[t] EXCEPT !.pc = "refused"]
                 /\ Fields(r, req[t].kind, "refused", req[t].tab, req[t].token, req[t].phone,
                           req[t].user, req[t].who)
      BY <1>0, WithPc
    <3>2. req' = [req EXCEPT ![t] = r]
      BY <2>2, <3>1 DEF Guard
    <3> QED
      BY <2>2, <3>1, <3>2
  <2> QED
    BY <2>1, <2>2
<1>2. req'[t] = r /\ req' \in [Threads -> Requests] /\ OthersSame(t)
  BY <1>0, <1>1 DEF TypeOK, OthersSame, Same
<1>3. RequestInv(r)'
  BY <1>0, <1>1, NothingIsNeither DEF RequestInv, HolderInv, Fields, TokensAge, IsOf, Excluded
<1>4. RequestInv(req[t])'
  BY <1>2, <1>3 DEF RequestInv, Known, IsOf
<1>5. HolderInv(t)'
  BY <1>0, <1>1, <1>2 DEF HolderInv, Fields, RequestInv
<1>6. \A s \in Threads \ {t} : RequestInv(req[s])' /\ HolderInv(s)'
  BY <1>0, <1>2, OthersKeep DEF IInv
<1>7. LeakInv'
  <2>1. Pending' = Pending \ {t}
    BY <1>0, <1>1, <1>2 DEF Pending, OthersSame, Same, Fields
  <2>2. CASE holder[t] = req[t].user
    <3>1. UNCHANGED strangers
      BY <1>0, <2>2 DEF Guard
    <3> QED
      BY <1>0, <2>1, <3>1, FewerPending DEF IInv, ServerInv
  <2>3. CASE holder[t] # req[t].user
    <3>1. t \in Pending
      BY <1>0, <2>3 DEF Pending, HolderInv, RequestInv
    <3>2. IsFiniteSet(Pending) /\ Cardinality(Pending) \in Nat
      BY PendingIsFinite DEF Pending, IInv, ServerInv
    <3>3. Cardinality(Pending') = Cardinality(Pending) - 1
      BY <2>1, <3>1, <3>2, FS_RemoveElement
    <3>4. strangers' = strangers + 1
      BY <2>3 DEF Guard
    <3> QED
      BY <1>0, <3>2, <3>3, <3>4 DEF LeakInv, IInv, ServerInv
  <2> QED
    BY <2>2, <2>3
<1>8. EndlessInv'
  BY <1>0, EndlessKeeps, <1>2 DEF At, IInv
<1>9. ServerInv'
  BY <1>4, <1>5, <1>6, <1>7, <1>8 DEF ServerInv
<1>10. TypeOK'
  BY <1>0, <1>2 DEF TypeOK, Guard
<1>11. TabInv'
  BY <1>0, TabKeeps DEF IInv
<1> QED
  BY <1>9, <1>10, <1>11 DEF IInv, UsersInv

LEMMA RefreshKeeps == ASSUME IInv, NEW t \in Threads, Refresh(t) PROVE IInv'
<1>1. /\ TypeOK /\ SessionInv /\ req[t].pc = "refresh" /\ req[t].token \in Tokens
      /\ session' = [session EXCEPT ![req[t].token].ttl = (session[req[t].token] # NoSession)]
      /\ Guard(t, req[t])
      /\ UNCHANGED <<codes, users, holder, tab, faults, who, leaky, leaks, ended, endless>>
  BY Facts DEF Refresh, At, IInv, RequestInv
<1>2. /\ session' \in [Tokens -> [user : Nat, ttl : BOOLEAN]]
      /\ SessionInv' /\ TokensAge
      /\ \A j \in Tokens : session'[j] # NoSession => session[j] # NoSession
      /\ \A j \in Tokens \ {req[t].token} : session'[j] = session[j]
      /\ session'[req[t].token] # NoSession => session'[req[t].token].ttl
  BY <1>1, Expire
<1>3. \A k \in Tokens : session'[k] # NoSession /\ ~session'[k].ttl =>
         session[k] # NoSession /\ ~session[k].ttl
  BY <1>2
<1> QED
  BY <1>1, <1>2, <1>3, GuardKeeps

LEMMA ReadSessionKeeps == ASSUME IInv, NEW t \in Threads, ReadSession(t) PROVE IInv'
<1> DEFINE user == IF req[t].token = None THEN Nobody ELSE session[req[t].token].user
<1>0. /\ TypeOK /\ SessionInv /\ req[t].pc = "entries" /\ req[t] \in Requests
      /\ RequestInv(req[t]) /\ req[t].token \in Tokens \cup {None} /\ "refresh" \in PCs
      /\ UNCHANGED <<codes, session, users, tab, faults, who, leaky, leaks, ended, endless>>
  BY Facts DEF ReadSession, At, IInv, redis, PCs
<1>1. TokensAge /\ SessionInv' /\ UsersInv'
  BY <1>0, Unchanged DEF SessionInv, UsersInv, IInv
<1>2. CASE user = Nobody
  BY <1>0, <1>1, <1>2, GuardKeeps DEF ReadSession, TypeOK
<1>3. CASE user # Nobody
  <2>1. /\ req[t].token \in Tokens /\ user = session[req[t].token].user /\ user \in Nat
        /\ session[req[t].token] # NoSession
        /\ holder' = [holder EXCEPT ![t] = user]
        /\ req' = [req EXCEPT ![t].pc = "refresh", ![t].user = user]
        /\ UNCHANGED strangers
    BY <1>0, <1>3, NothingIsNeither DEF ReadSession, TypeOK
  <2> HIDE DEF user
  <2>2. PICK r \in Requests :
               /\ r = [req[t] EXCEPT !.pc = "refresh", !.user = user]
               /\ Fields(r, req[t].kind, "refresh", req[t].tab, req[t].token, req[t].phone,
                         user, req[t].who)
    BY <1>0, <2>1, WithPcUser
  <2>3. req' = [req EXCEPT ![t] = r]
    BY <2>1, <2>2
  <2>4. /\ req'[t] = r /\ req' \in [Threads -> Requests] /\ OthersSame(t)
        /\ holder'[t] = user /\ holder' \in [Threads -> Nat]
        /\ \A s \in Threads \ {t} : holder'[s] = holder[s]
    BY <1>0, <2>1, <2>3 DEF TypeOK, OthersSame, Same
  <2>5. RequestInv(r)'
    BY <1>0, <1>3, <2>1, <2>2, NothingIsNeither DEF RequestInv, Fields, Known, IsOf
  <2>6. RequestInv(req[t])'
    BY <2>4, <2>5 DEF RequestInv, Known, IsOf
  <2>7. HolderInv(t)'
    BY <2>2, <2>4 DEF HolderInv, Fields
  <2>8. \A s \in Threads \ {t} : RequestInv(req[s])' /\ HolderInv(s)'
    BY <1>0, <1>1, <2>4, OthersKeep DEF IInv
  <2>9. Pending' \subseteq Pending
    BY <1>0, <2>2, <2>4 DEF Pending, OthersSame, Same, Fields, TypeOK
  <2>10. LeakInv'
    BY <1>0, <2>1, <2>9, FewerPending DEF IInv, ServerInv
  <2>11. EndlessInv'
    BY <1>0, EndlessKeeps, <2>4 DEF At, IInv
  <2>12. TypeOK' /\ TabInv'
    BY <1>0, <1>1, <2>1, <2>4, TabKeeps DEF TypeOK, IInv
  <2> QED
    BY <1>1, <2>6, <2>7, <2>8, <2>10, <2>11, <2>12 DEF IInv, ServerInv
<1> QED
  BY <1>2, <1>3

-----------------------------------------------------------------------------
(* The tabs, time and failures.                                             *)

\* Whatever changes no more than requests, in a way no thread but one notices.
LEMMA RequestsKeep ==
    ASSUME IInv, req' \in [Threads -> Requests], faults' \in 0..MaxFaults,
           UNCHANGED <<redis, users, holder, tab, histories>>,
           NEW t \in Threads, OthersSame(t), RequestInv(req[t])', HolderInv(t)',
           req[t].pc \in {"free", "entries", "refresh"} \/ req'[t].pc = req[t].pc,
           At(t, "expire") => At(t, "expire")' /\ req'[t].token = req[t].token
    PROVE  IInv'
<1>0. UNCHANGED <<codes, session, users, holder, tab, who, leaky, leaks, strangers, ended, endless>>
  BY DEF redis, histories
<1>1. TokensAge /\ TypeOK /\ TypeOK' /\ SessionInv' /\ UsersInv'
  BY <1>0, Unchanged DEF IInv, TypeOK, ServerInv, SessionInv, UsersInv
<1>2. TabInv'
  BY <1>0, <1>1, TabKeeps DEF IInv
<1>3. \A s \in Threads \ {t} : RequestInv(req[s])' /\ HolderInv(s)'
  BY <1>0, <1>1, OthersKeep DEF IInv
<1>4. Pending' \subseteq Pending
  BY <1>0, <1>1 DEF Pending, OthersSame, Same, TypeOK
<1>5. LeakInv'
  BY <1>0, <1>1, <1>4, FewerPending DEF IInv, ServerInv
<1>6. EndlessInv'
  BY <1>0, <1>1, EndlessKeeps DEF IInv, At
<1> QED
  BY <1>1, <1>2, <1>3, <1>5, <1>6 DEF IInv, ServerInv

LEMMA LeaveKeeps == ASSUME IInv, NEW b \in Tabs, Leave(b) PROVE IInv'
<1>1. PICK t \in Threads : req[t].tab = b
  BY DEF Leave
<1>2. req' \in [Threads -> Requests] /\ \A s \in Threads : Same(req[s], req'[s])
  BY LeftIsSame DEF Leave, IInv
<1>3. UNCHANGED <<redis, users, holder, tab, faults, histories>>
  BY DEF Leave
<1>4. TokensAge
  BY <1>3, Unchanged DEF redis, histories
<1>5. RequestInv(req[t])'
  BY <1>2, <1>4, Facts, RequestKeeps DEF RequestInv, Known, IsOf
<1>6. HolderInv(t)'
  BY <1>2, <1>3 DEF HolderInv, Same, histories, IInv, ServerInv
<1>7. faults' \in 0..MaxFaults
  BY <1>3 DEF IInv, TypeOK
<1> QED
  BY <1>2, <1>3, <1>5, <1>6, <1>7, RequestsKeep DEF OthersSame, Same, At

LEMMA SendKeeps == ASSUME IInv, NEW b \in Tabs, NEW t \in Threads, Send(b, t) PROVE IInv'
<1>0. /\ TypeOK /\ TabInv /\ req[t] = Free /\ HolderInv(t)
      /\ UNCHANGED <<redis, users, holder, tab, faults, histories>>
      /\ UNCHANGED <<session, ended, leaky, users>>
  BY DEF Send, IInv, ServerInv, redis, histories
<1>1. PICK kind \in Kinds, phone \in Phones \cup {None} :
             /\ kind \in {"code", "login"} <=> phone # None
             /\ req' = [req EXCEPT ![t] =
                          [Free EXCEPT !.kind = kind, !.tab = b, !.phone = phone,
                                       !.token = tab[b], !.pc = "entries",
                                       !.who = IF phone = None THEN who[b] ELSE None]]
  <2>1. PICK kind \in Kinds : \E phone \in IF kind \in {"code", "login"} THEN Phones ELSE {None} :
               req' = [req EXCEPT ![t] =
                          [Free EXCEPT !.kind = kind, !.tab = b, !.phone = phone,
                                       !.token = tab[b], !.pc = "entries",
                                       !.who = IF phone = None THEN who[b] ELSE None]]
    BY DEF Send
  <2>2. CASE kind \in {"code", "login"}
    BY <2>1, <2>2, NothingIsNeither
  <2>3. CASE kind \notin {"code", "login"}
    BY <2>1, <2>3
  <2> QED
    BY <2>2, <2>3
<1>2. PICK r \in Requests :
             /\ req' = [req EXCEPT ![t] = r]
             /\ Fields(r, kind, "entries", b, tab[b], phone, Nobody,
                       IF phone = None THEN who[b] ELSE None)
  BY <1>0, <1>1, Sent
<1>3. req'[t] = r /\ req' \in [Threads -> Requests] /\ OthersSame(t)
  BY <1>0, <1>2 DEF TypeOK, OthersSame, Same
<1>4. RequestInv(r)'
  BY <1>0, <1>1, <1>2, NothingIsNeither DEF RequestInv, Fields, TabInv, TypeOK, Known, IsOf, Kinds
<1>5. RequestInv(req[t])'
  BY <1>3, <1>4 DEF RequestInv, Known, IsOf
<1>6. HolderInv(t)' /\ req[t].pc = "free"
  BY <1>0, <1>2, <1>3, FreeIsARequest DEF HolderInv, Fields
<1>7. faults' \in 0..MaxFaults
  BY <1>0 DEF TypeOK
<1> QED
  BY <1>0, <1>3, <1>5, <1>6, <1>7, RequestsKeep DEF At

\* A thread that is free, whatever user it may still hold.
LEMMA FreeAgain ==
    ASSUME IInv, NEW t \in Threads, req' = [req EXCEPT ![t] = Free]
    PROVE  /\ req' \in [Threads -> Requests] /\ OthersSame(t) /\ req'[t].pc = "free"
           /\ RequestInv(req[t])'
<1>1. /\ req' \in [Threads -> Requests] /\ OthersSame(t)
      /\ Fields(req'[t], "none", "free", None, None, None, Nobody, None)
  BY FreeIsARequest DEF IInv, TypeOK, OthersSame, Same
<1> QED
  BY <1>1, NothingIsNeither DEF RequestInv, Fields, Excluded

LEMMA ReadSessionFailsKeeps == ASSUME IInv, NEW t \in Threads, ReadSessionFails(t) PROVE IInv'
<1>1. /\ req[t].pc = "entries" /\ req' = [req EXCEPT ![t] = Free] /\ HolderInv(t)
      /\ UNCHANGED <<redis, users, holder, tab, histories>> /\ UNCHANGED leaky
      /\ faults' \in 0..MaxFaults
  BY FaultsType DEF ReadSessionFails, Fault, At, IInv, TypeOK, ServerInv, histories
<1>2. HolderInv(t)'
  BY <1>1, FreeAgain DEF HolderInv
<1> QED
  BY <1>1, <1>2, FreeAgain, RequestsKeep DEF At

LEMMA RefreshFailsKeeps == ASSUME IInv, NEW t \in Threads, RefreshFails(t) PROVE IInv'
<1>1. /\ TypeOK /\ req[t].pc = "refresh" /\ req' = [req EXCEPT ![t] = Free]
      /\ UNCHANGED <<codes, session, users, holder, tab, who, strangers, ended, endless>>
      /\ leaky' = leaky \cup {t} /\ leaks' = leaks + 1
      /\ faults' \in 0..MaxFaults
  BY FaultsType DEF RefreshFails, Fault, At, IInv, TypeOK, redis
<1>2. /\ req' \in [Threads -> Requests] /\ OthersSame(t) /\ req'[t].pc = "free"
      /\ RequestInv(req[t])'
  BY <1>1, FreeAgain
<1>3. TokensAge /\ SessionInv' /\ UsersInv'
  BY <1>1, Unchanged DEF SessionInv, UsersInv, IInv, ServerInv
<1>4. HolderInv(t)'
  BY <1>1, <1>2 DEF HolderInv
<1>5. \A s \in Threads \ {t} : RequestInv(req[s])' /\ HolderInv(s)'
  BY <1>1, <1>2, <1>3, OthersKeep DEF IInv
<1>6. LeakInv'
  <2>1. Pending' = Pending \cup {t}
    BY <1>1, <1>2 DEF Pending, OthersSame, Same, TypeOK
  <2>2. IsFiniteSet(leaky') /\ IsFiniteSet(Pending) /\ Cardinality(Pending) \in Nat
    BY <1>1, PendingIsFinite, FS_AddElement DEF Pending, IInv, ServerInv, LeakInv
  <2>3. Cardinality(Pending') \in {Cardinality(Pending), Cardinality(Pending) + 1}
    BY <2>1, <2>2, FS_AddElement
  <2> QED
    BY <1>1, <2>2, <2>3 DEF LeakInv, IInv, ServerInv, TypeOK
<1>7. EndlessInv'
  BY <1>1, <1>2, EndlessKeeps DEF IInv, At
<1>8. TabInv'
  BY <1>1, <1>3, TabKeeps DEF IInv
<1>9. TypeOK'
  BY <1>1, <1>2 DEF TypeOK
<1> QED
  BY <1>2, <1>3, <1>4, <1>5, <1>6, <1>7, <1>8, <1>9 DEF IInv, ServerInv

LEMMA SessionExpiresKeeps == ASSUME IInv, NEW k \in Tokens, SessionExpires(k) PROVE IInv'
<1>1. /\ TypeOK /\ session' = [session EXCEPT ![k] = NoSession] /\ ended' = ended \cup {k}
      /\ UNCHANGED <<codes, users, holder, req, tab, faults, who, leaky, leaks, strangers, endless>>
  BY DEF SessionExpires, IInv
<1>2. /\ session' \in [Tokens -> [user : Nat, ttl : BOOLEAN]] /\ session'[k] = NoSession
      /\ \A j \in Tokens \ {k} : session'[j] = session[j]
  BY <1>1 DEF TypeOK, NoSession, Nobody
<1>3. TokensAge /\ SessionInv' /\ UsersInv'
  BY <1>1, <1>2 DEF TokensAge, Known, SessionInv, UsersInv, IInv, ServerInv
<1>4. \A t \in Threads : RequestInv(req[t])'
  BY <1>1, <1>3, RequestKeeps DEF IInv, ServerInv, TypeOK, Same, RequestInv, Known, IsOf
<1>5. \A t \in Threads : HolderInv(t)'
  BY <1>1 DEF HolderInv, IInv, ServerInv
<1>6. LeakInv'
  BY <1>1 DEF LeakInv, Pending, IInv, ServerInv
<1>7. EndlessInv'
  BY <1>1, <1>2 DEF EndlessInv, At, IInv, ServerInv
<1>8. TypeOK' /\ TabInv'
  BY <1>1, <1>2, <1>3, TabKeeps DEF TypeOK, IInv
<1> QED
  BY <1>3, <1>4, <1>5, <1>6, <1>7, <1>8 DEF IInv, ServerInv

LEMMA CrashKeeps == ASSUME IInv, Crash PROVE IInv'
<1>1. /\ TypeOK /\ holder' = [t \in Threads |-> Nobody] /\ req' = [t \in Threads |-> Free]
      /\ leaky' = {} /\ faults' \in 0..MaxFaults
      /\ endless' = endless \cup {req[t].token : t \in {u \in Threads : At(u, "expire")}}
      /\ UNCHANGED <<codes, session, users, tab, who, leaks, strangers, ended>>
  BY FaultsType DEF Crash, Fault, IInv, TypeOK, redis
<1>2. TokensAge /\ SessionInv' /\ UsersInv'
  BY <1>1, Unchanged DEF SessionInv, UsersInv, IInv, ServerInv
<1>3. \A t \in Threads : Fields(req'[t], "none", "free", None, None, None, Nobody, None)
  BY <1>1, FreeIsARequest
<1>4. \A t \in Threads : RequestInv(req[t])' /\ HolderInv(t)'
  BY <1>1, <1>3, NothingIsNeither DEF RequestInv, HolderInv, Fields, Excluded
<1>5. LeakInv'
  <2>1. Pending' = {}
    BY <1>1 DEF Pending
  <2>2. Cardinality(Pending) \in Nat
    BY PendingIsFinite DEF Pending, IInv, ServerInv
  <2> QED
    BY <1>1, <2>1, <2>2, FS_EmptySet DEF LeakInv, IInv, ServerInv, TypeOK
<1>6. EndlessInv'
  BY <1>1 DEF EndlessInv, IInv, ServerInv
<1>7. endless' \subseteq Tokens
  <2>1. \A t \in Threads : At(t, "expire") => req[t].token \in Tokens
    BY Facts DEF RequestInv, At
  <2> QED
    BY <1>1, <2>1 DEF TypeOK
<1>8. TypeOK' /\ TabInv'
  BY <1>1, <1>2, <1>7, FreeIsARequest, TabKeeps DEF TypeOK, IInv, Nobody
<1> QED
  BY <1>2, <1>4, <1>5, <1>6, <1>8 DEF IInv, ServerInv

-----------------------------------------------------------------------------
(* The theorems.                                                            *)

LEMMA InitHolds == Init => IInv
<1> SUFFICES ASSUME Init PROVE IInv
  OBVIOUS
<1>1. TypeOK
  BY FreeIsARequest, FaultsType DEF Init, TypeOK, NoSession, Nobody
<1>2. \A t \in Threads : Fields(req[t], "none", "free", None, None, None, Nobody, None)
  BY FreeIsARequest DEF Init
<1>3. \A t \in Threads : RequestInv(req[t]) /\ HolderInv(t)
  BY <1>2, NothingIsNeither DEF Init, RequestInv, HolderInv, Fields, Excluded
<1>4. UsersInv /\ TabInv /\ SessionInv /\ EndlessInv
  BY FS_EmptySet DEF Init, UsersInv, TabInv, SessionInv, EndlessInv
<1>5. LeakInv
  BY FS_EmptySet DEF Init, LeakInv, Pending
<1> QED
  BY <1>1, <1>3, <1>4, <1>5 DEF IInv, ServerInv

LEMMA StepKeeps == IInv /\ [Next]_vars => IInv'
<1> SUFFICES ASSUME IInv, [Next]_vars PROVE IInv'
  OBVIOUS
<1>1. ASSUME NEW b \in Tabs, Leave(b) PROVE IInv'
  BY <1>1, LeaveKeeps
<1>2. ASSUME NEW b \in Tabs, NEW t \in Threads, Send(b, t) PROVE IInv'
  BY <1>2, SendKeeps
<1>3. ASSUME NEW t \in Threads, Intercept(t) PROVE IInv'
  BY <1>3, ReadSessionKeeps, RefreshKeeps, AnswersKeep DEF Intercept
<1>4. ASSUME NEW t \in Threads, Handle(t) PROVE IInv'
  BY <1>4, ServeKeeps, CheckCodeKeeps, SelectByPhoneKeeps, CreateUserKeeps, StoreSessionKeeps,
     ExpireSessionKeeps, LogoutKeeps DEF Handle
<1>5. ASSUME NEW t \in Threads, Fails(t) PROVE IInv'
  BY <1>5, ReadSessionFailsKeeps, RefreshFailsKeeps, ServeKeeps DEF Fails
<1>6. ASSUME NEW k \in Tokens, SessionExpires(k) PROVE IInv'
  BY <1>6, SessionExpiresKeeps
<1>7. CASE Crash
  BY <1>7, CrashKeeps
<1>8. CASE UNCHANGED vars
  <2>1. UNCHANGED <<codes, session, users, holder, req, tab, faults, who, leaky, leaks, strangers,
                    ended, endless>>
    BY <1>8 DEF vars, redis, histories
  <2>2. TypeOK' /\ UsersInv' /\ TabInv'
    BY <2>1 DEF IInv, TypeOK, UsersInv, TabInv, Known, IsOf
  <2>3. SessionInv' /\ LeakInv' /\ EndlessInv'
    BY <2>1 DEF IInv, ServerInv, SessionInv, LeakInv, Pending, EndlessInv, At
  <2>4. \A t \in Threads : RequestInv(req[t])' /\ HolderInv(t)'
    BY <2>1 DEF IInv, ServerInv, RequestInv, HolderInv, Known, IsOf
  <2> QED
    BY <2>2, <2>3, <2>4 DEF IInv, ServerInv
<1> QED
  BY <1>1, <1>2, <1>3, <1>4, <1>5, <1>6, <1>7, <1>8 DEF Next

LEMMA InvCorrect == Spec => []IInv
BY InitHolds, StepKeeps, PTL DEF Spec

\* The types of Session's variables.
THEOREM SessionTypes == Spec => []TypeOK
BY InvCorrect, PTL DEF IInv

\* A request is served as the one user of the phone its tab had logged in with, as nobody, or
\* as one that a failure left in a thread, for any number of tabs, threads and logins.
THEOREM UsersAreTheTabs == Spec => []RunsAsTheTabsUser
<1>1. IInv => RunsAsTheTabsUser
  <2> SUFFICES ASSUME IInv, NEW t \in Threads, InHandler(t), holder[t] # Nobody,
                      ~(t \in leaky /\ req[t].user = Nobody)
               PROVE  RowsOf(req[t].who) = {[phone |-> req[t].who, id |-> holder[t]]}
    BY DEF RunsAsTheTabsUser
  <2>1. holder[t] = req[t].user /\ req[t].kind \notin {"code", "login"}
    BY DEF IInv, ServerInv, HolderInv, InHandler
  <2>2. IsOf(holder[t], req[t].who)
    BY <2>1 DEF IInv, ServerInv, RequestInv
  <2> DEFINE row == [phone |-> req[t].who, id |-> holder[t]]
  <2>3. row \in RowsOf(req[t].who)
    BY <2>2 DEF IsOf, RowsOf
  <2>4. \A u, v \in RowsOf(req[t].who) : u = v
    BY DEF RowsOf, IInv, UsersInv
  <2> HIDE DEF row
  <2>5. RowsOf(req[t].who) = {row}
    BY <2>3, <2>4
  <2> QED
    BY <2>5 DEF row
<1> QED
  BY <1>1, InvCorrect, PTL

\* Requests that ran as a user left in their thread are no more than the failures that left one.
THEOREM LeaksAreBounded == Spec => []OneLeakOneRequest
<1>1. IInv => OneLeakOneRequest
  <2> SUFFICES ASSUME IInv PROVE strangers <= leaks
    BY DEF OneLeakOneRequest
  <2>1. Cardinality(Pending) \in Nat
    BY PendingIsFinite DEF Pending, IInv, ServerInv
  <2> QED
    BY <2>1 DEF IInv, ServerInv, LeakInv, TypeOK
<1> QED
  BY <1>1, InvCorrect, PTL

\* No tab has the token of a session without an end.
THEOREM EndlessSessionsAreUnknown == Spec => []EndlessIsUnknown
<1>1. IInv => EndlessIsUnknown
  BY NoneIsNothing DEF IInv, ServerInv, EndlessInv, EndlessIsUnknown, TabInv, TypeOK
<1> QED
  BY <1>1, InvCorrect, PTL

\* No step brings a session back that was logged out or ran out.
THEOREM SessionsEnd == Spec => EndedStaysEnded
<1> DEFINE Step == \A k \in ended : session[k]' = NoSession
<1>1. IInv /\ IInv' /\ [Next]_vars => [Step]_vars
  <2> SUFFICES ASSUME IInv, IInv', Next, NEW k \in ended PROVE session[k]' = NoSession
    OBVIOUS
  <2>1. ended \subseteq ended'
    BY DEF Next, Leave, Send, Intercept, ReadSession, Refresh, AnswerUnauthorized, AnswerLogin,
       AnswerLogout, LeadOn, Answer, Finish, Handle, Serve, SendCode, CheckCode, SelectByPhone,
       CreateUserWithPhone, StoreSession, ExpireSession, Logout, Fails, ReadSessionFails,
       RefreshFails, HandlerFails, SessionExpires, Crash, histories
  <2> QED
    BY <2>1 DEF IInv, TypeOK, ServerInv, SessionInv
<1> QED
  BY <1>1, InvCorrect, PTL DEF Spec, EndedStaysEnded
=============================================================================
