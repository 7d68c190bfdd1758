-------------------------- MODULE AccountSessions ---------------------------
(***************************************************************************)
(* The session of an account of the panel, from both ends: the account     *)
(* with its password and session version, and a browser whose tabs share   *)
(* one jar of cookies, renew a refused session once per tab and repeat     *)
(* each refused request once.                                              *)
(*                                                                         *)
(* A session (the claims of a token) is the version it carries; beside it  *)
(* stands the password it was opened with, which no code reads.  A cookie  *)
(* travels with a request as the jar holds it when the request is sent,    *)
(* and an answer changes the jar when it arrives, not when it is given.    *)
(***************************************************************************)
EXTENDS Naturals

CONSTANTS
    Tab,         \* open tabs of the browser
    Call,        \* requests of the tabs: each one in progress or none
    TabOf,       \* the tab of each call
    Form,        \* the calls of the forms: login, change of password, logout
    Password,
    None,        \* no cookie, no password
    MaxVersion,  \* bound: changes of the password
    AnswersLost  \* whether answers may be lost on their way

Session == [version: 0..MaxVersion, password: Password]

ASSUME SessionsAssumption ==
    /\ TabOf \in [Call -> Tab] /\ Form \subseteq Call
    /\ MaxVersion \in Nat /\ AnswersLost \in BOOLEAN
    /\ None \notin Session /\ None \notin Password

VARIABLES
    account,     \* password and session_version of the row in Users
    jar,         \* the cookies of the browser
    signedIn,    \* signedIn[t]: the tab shows the panel, not the login page
    renewal,     \* renewal[t]: pendingRefresh of the tab
    call         \* call[c]: the request of c

vars == <<account, jar, signedIn, renewal, call>>

MaybeSession == Session \cup {None}

Result == [says: {"none", "ok", "unauthorized", "badRequest", "cookies", "clear"},
           session: MaybeSession]
Reply(says) == [says |-> says, session |-> None]
Cookies(session) == [says |-> "cookies", session |-> session]

\* since, here and below: the version of the account when the oldest request
\* this one depends on was sent, for the properties only.
Renewing == [pc: {"none", "sent", "answered"}, claims: MaybeSession, since: 0..MaxVersion,
             result: Result]
NoRenewal == [pc |-> "none", claims |-> None, since |-> 0, result |-> Reply("none")]

Fields == [kind: {"none", "query", "load", "change", "login", "logout"},
           pc: {"idle", "sent", "read", "compare", "answered", "waiting"},
           claims: MaybeSession, retry: BOOLEAN, since: 0..MaxVersion,
           typed: Password \cup {None}, chosen: Password \cup {None},
           found: MaybeSession, result: Result]

\* A change carries the new password until it is answered for good.
Requests == {r \in Fields :
                r.kind = "change" /\ (r.pc # "answered" \/ r.result.says = "unauthorized")
                => r.chosen \in Password}
NoCall == [kind |-> "none", pc |-> "idle", claims |-> None, retry |-> FALSE, since |-> 0,
           typed |-> None, chosen |-> None, found |-> None, result |-> Reply("none")]

TypeOK ==
    /\ account \in Session
    /\ jar \in [access: MaybeSession, refresh: MaybeSession]
    /\ signedIn \in [Tab -> BOOLEAN]
    /\ renewal \in [Tab -> Renewing]
    /\ call \in [Call -> Requests]

\* A browser with a session, or without one, and every tab in the same state.
Init ==
    /\ account \in [version: {0}, password: Password]
    /\ \E s \in {None, account} :
        /\ jar = [access |-> s, refresh |-> s]
        /\ signedIn = [t \in Tab |-> s # None]
    /\ renewal = [t \in Tab |-> NoRenewal]
    /\ call = [c \in Call |-> NoCall]

-----------------------------------------------------------------------------
(* The service. *)

\* requireAuth and refresh: the version of the token is the one of the account.
Accepts(claims) == claims # None /\ claims.version = account.version

\* Variant: the version as it is when the session is issued.
IssuedByLogin_VersionNow(found, now) == [found EXCEPT !.version = now.version]
\* The session a login issues: the version read together with the hash.
IssuedByLogin(found, now) == found

\* UPDATE Users SET password_hash, session_version = session_version + 1.
UpdatePassword(p) ==
    /\ account.version < MaxVersion
    /\ account' = [password |-> p, version |-> account.version + 1]

Answer(c, result) ==
    call' = [call EXCEPT ![c] = [NoCall EXCEPT !.kind = call[c].kind, !.pc = "answered",
                                               !.result = result]]

\* The browser still holds the request that was refused, to repeat it.
Refuse(c) ==
    call' = [call EXCEPT ![c].pc = "answered", ![c].result = Reply("unauthorized"),
                         ![c].claims = None]

\* requireAuth, before a query or the change of the password.
Authorize(c) ==
    /\ call[c].kind \in {"query", "load", "change"} /\ call[c].pc = "sent"
    /\ IF ~Accepts(call[c].claims) THEN Refuse(c)
       ELSE IF call[c].kind = "change" THEN call' = [call EXCEPT ![c].pc = "read"]
       ELSE Answer(c, Reply("ok"))
    /\ UNCHANGED <<account, jar, signedIn, renewal>>

\* findByEmail and findActiveWithPassword: hash and version in one read.
FindAccount(c) ==
    /\ \/ call[c].kind = "login" /\ call[c].pc = "sent"
       \/ call[c].kind = "change" /\ call[c].pc = "read"
    /\ call' = [call EXCEPT ![c].pc = "compare", ![c].found = account]
    /\ UNCHANGED <<account, jar, signedIn, renewal>>

\* The rest of login, after the comparison with the hash that was read.
Login(c) ==
    /\ call[c].kind = "login" /\ call[c].pc = "compare"
    /\ Answer(c, IF call[c].typed = call[c].found.password
                 THEN Cookies(IssuedByLogin(call[c].found, account))
                 ELSE Reply("unauthorized"))
    /\ UNCHANGED <<account, jar, signedIn, renewal>>

\* The rest of changePassword: the password is replaced, whatever it is by now,
\* and the session issued with the version the UPDATE returned.
ChangePassword(c) ==
    /\ call[c].kind = "change" /\ call[c].pc = "compare"
    /\ IF call[c].typed = call[c].found.password
       THEN UpdatePassword(call[c].chosen) /\ Answer(c, Cookies(account'))
       ELSE UNCHANGED account /\ Answer(c, Reply("badRequest"))
    /\ UNCHANGED <<jar, signedIn, renewal>>

Logout(c) ==
    /\ call[c].kind = "logout" /\ call[c].pc = "sent"
    /\ Answer(c, Reply("clear"))
    /\ UNCHANGED <<account, jar, signedIn, renewal>>

Refresh(t) ==
    /\ renewal[t].pc = "sent"
    /\ renewal' = [renewal EXCEPT ![t].pc = "answered",
                     ![t].result = IF Accepts(renewal[t].claims)
                                   THEN Cookies(renewal[t].claims)
                                   ELSE Reply("unauthorized")]
    /\ UNCHANGED <<account, jar, signedIn, call>>

\* The script that sets the password of the administrator.
ResetAdminPassword ==
    /\ \E p \in Password : UpdatePassword(p)
    /\ UNCHANGED <<jar, signedIn, renewal, call>>

-----------------------------------------------------------------------------
(* The browser. *)

NewRequest(kind, claims, since, typed, chosen) ==
    [kind |-> kind, pc |-> "sent", claims |-> claims, retry |-> FALSE, since |-> since,
     typed |-> typed, chosen |-> chosen, found |-> None, result |-> Reply("none")]

\* A request that needs a session, and one that does not.
Send(c, kind, typed, chosen) ==
    call' = [call EXCEPT ![c] =
                NewRequest(kind, jar.access, account.version, typed, chosen)]
SendOpen(c, kind, typed) ==
    call' = [call EXCEPT ![c] = NewRequest(kind, None, 0, typed, None)]

Query(c) ==
    /\ c \notin Form /\ call[c].pc = "idle" /\ signedIn[TabOf[c]]
    /\ Send(c, "query", None, None)
    /\ UNCHANGED <<account, jar, signedIn, renewal>>

\* The page is opened anew and asks for the account (status unknown).
OpenPage(c) ==
    LET t == TabOf[c] IN
    /\ c \notin Form /\ ~signedIn[t] /\ renewal[t].pc = "none"
    /\ \A d \in Call : TabOf[d] = t => call[d].pc = "idle"
    /\ Send(c, "load", None, None)
    /\ UNCHANGED <<account, jar, signedIn, renewal>>

SubmitLogin(c) ==
    /\ c \in Form /\ call[c].pc = "idle" /\ ~signedIn[TabOf[c]]
    /\ \E p \in Password : SendOpen(c, "login", p)
    /\ UNCHANGED <<account, jar, signedIn, renewal>>

SubmitChange(c) ==
    /\ c \in Form /\ call[c].pc = "idle" /\ signedIn[TabOf[c]]
    /\ \E p, q \in Password : Send(c, "change", p, q)
    /\ UNCHANGED <<account, jar, signedIn, renewal>>

SubmitLogout(c) ==
    /\ c \in Form /\ call[c].pc = "idle" /\ signedIn[TabOf[c]]
    /\ SendOpen(c, "logout", None)
    /\ UNCHANGED <<account, jar, signedIn, renewal>>

Says(c, says) == call[c].pc = "answered" /\ call[c].result.says = says

Earlier(v, w) == IF v < w THEN v ELSE w

Settle(c) == call' = [call EXCEPT ![c] = NoCall]

\* The answers that renew nothing.  The cookies of an answer replace the jar's.
ReceiveOk(c) ==
    /\ Says(c, "ok") /\ Settle(c)
    /\ signedIn' = [signedIn EXCEPT ![TabOf[c]] = @ \/ call[c].kind = "load"]
    /\ UNCHANGED <<account, jar, renewal>>

ReceiveCookies(c) ==
    /\ Says(c, "cookies") /\ Settle(c)
    /\ jar' = [access |-> call[c].result.session, refresh |-> call[c].result.session]
    /\ signedIn' = [signedIn EXCEPT ![TabOf[c]] = @ \/ call[c].kind = "login"]
    /\ UNCHANGED <<account, renewal>>

ReceiveCleared(c) ==
    /\ Says(c, "clear") /\ Settle(c)
    /\ jar' = [access |-> None, refresh |-> None]
    /\ signedIn' = [signedIn EXCEPT ![TabOf[c]] = FALSE]
    /\ UNCHANGED <<account, renewal>>

ReceiveRejected(c) ==
    /\ Says(c, "badRequest") \/ (Says(c, "unauthorized") /\ call[c].kind = "login")
    /\ Settle(c)
    /\ UNCHANGED <<account, jar, signedIn, renewal>>

\* 401: the first time the request waits for the renewal of its tab, which it
\* starts or joins; the second time the tab is sent to the login page.
ReceiveUnauthorized(c) ==
    LET t == TabOf[c] IN
    /\ Says(c, "unauthorized") /\ call[c].kind # "login"
    /\ IF call[c].retry
       THEN /\ Settle(c)
            /\ signedIn' = [signedIn EXCEPT ![t] = FALSE]
            /\ UNCHANGED renewal
       ELSE /\ renewal' = IF renewal[t].pc # "none" THEN renewal
                          ELSE [renewal EXCEPT ![t] = [NoRenewal EXCEPT
                                    !.pc = "sent", !.claims = jar.refresh,
                                    !.since = account.version]]
            /\ call' = [call EXCEPT ![c].pc = "waiting", ![c].result = Reply("none"),
                                    ![c].since = Earlier(@, renewal'[t].since)]
            /\ UNCHANGED signedIn
    /\ UNCHANGED <<account, jar>>

\* The network fails: the caller sees an error that is not a 401.
LoseAnswer(c) ==
    /\ AnswersLost /\ call[c].pc = "answered" /\ Settle(c)
    /\ UNCHANGED <<account, jar, signedIn, renewal>>

Waiting(t) == {c \in Call : TabOf[c] = t /\ call[c].pc = "waiting"}

\* Variant: the repeated request carries the cookie of the first one.
Repeat_OldCookie(t, access) ==
    /\ call' = [c \in Call |-> IF c \in Waiting(t)
                               THEN [call[c] EXCEPT !.pc = "sent", !.retry = TRUE]
                               ELSE call[c]]
    /\ renewal' = [renewal EXCEPT ![t] = NoRenewal]
    /\ UNCHANGED <<account, signedIn>>

\* The renewal settles and every request that waited goes on: again with the
\* new cookie, or to the login page.
Repeat(t, access) ==
    /\ call' = [c \in Call |-> IF c \in Waiting(t)
                               THEN [call[c] EXCEPT !.pc = "sent", !.claims = access,
                                                    !.retry = TRUE]
                               ELSE call[c]]
    /\ renewal' = [renewal EXCEPT ![t] = NoRenewal]
    /\ UNCHANGED <<account, signedIn>>

GiveUp(t) ==
    /\ call' = [c \in Call |-> IF c \in Waiting(t) THEN NoCall ELSE call[c]]
    /\ renewal' = [renewal EXCEPT ![t] = NoRenewal]
    /\ signedIn' = [signedIn EXCEPT ![t] = FALSE]
    /\ UNCHANGED account

ReceiveRenewed(t) ==
    /\ renewal[t].pc = "answered" /\ renewal[t].result.says = "cookies"
    /\ jar' = [jar EXCEPT !.access = renewal[t].result.session]
    /\ Repeat(t, renewal[t].result.session)

ReceiveNotRenewed(t) ==
    /\ renewal[t].pc = "answered" /\ renewal[t].result.says = "unauthorized"
    /\ jar' = [access |-> None, refresh |-> None]
    /\ GiveUp(t)

LoseRenewal(t) ==
    /\ AnswersLost /\ renewal[t].pc = "answered"
    /\ GiveUp(t)
    /\ UNCHANGED jar

\* The cookies expire one hour and ninety days after they were issued.
ExpireAccess ==
    /\ jar.access # None /\ jar' = [jar EXCEPT !.access = None]
    /\ UNCHANGED <<account, signedIn, renewal, call>>
ExpireRefresh ==
    /\ jar.refresh # None /\ jar' = [jar EXCEPT !.refresh = None]
    /\ UNCHANGED <<account, signedIn, renewal, call>>

-----------------------------------------------------------------------------
Serve(c) == Authorize(c) \/ FindAccount(c) \/ Login(c) \/ ChangePassword(c) \/ Logout(c)
Start(c) ==
    Query(c) \/ OpenPage(c) \/ SubmitLogin(c) \/ SubmitChange(c) \/ SubmitLogout(c)
Receive(c) ==
    \/ ReceiveOk(c) \/ ReceiveCookies(c) \/ ReceiveCleared(c)
    \/ ReceiveRejected(c) \/ ReceiveUnauthorized(c) \/ LoseAnswer(c)
ReceiveRenewal(t) == ReceiveRenewed(t) \/ ReceiveNotRenewed(t) \/ LoseRenewal(t)

Next ==
    \/ \E c \in Call : Start(c) \/ Serve(c) \/ Receive(c)
    \/ \E t \in Tab : Refresh(t) \/ ReceiveRenewal(t)
    \/ ResetAdminPassword
    \/ ExpireAccess
    \/ ExpireRefresh

Spec == Init /\ [][Next]_vars

-----------------------------------------------------------------------------
Sessions ==
    {jar.access, jar.refresh}
    \cup {renewal[t].claims : t \in Tab} \cup {renewal[t].result.session : t \in Tab}
    \cup {call[c].claims : c \in Call} \cup {call[c].found : c \in Call}
    \cup {call[c].result.session : c \in Call}

\* A session that passes for current was opened with the current password: one
\* issued to a login that compared an older password is already void, and of two
\* changes at once only the last one's session is not.
CurrentSessionsKnowThePassword ==
    \A s \in Sessions \ {None} :
        s.version <= account.version /\ (s.version = account.version => s = account)

\* A tab is not sent to the login page by a 401 while the refresh cookie of the
\* browser is good, unless the password changed while its request was under way,
\* the renewal it had joined carried another cookie, or the answer was lost.
SteadySessionIsKept ==
    [][\A c \in Call :
        LET t == TabOf[c]  sent == call[c].kind \in {"query", "load", "change"} IN
        /\ sent /\ call[c].pc \in {"answered", "waiting"} /\ call'[c].pc = "idle"
        /\ signedIn[t] /\ ~signedIn'[t]
        => \/ ~Accepts(jar.refresh)
           \/ call[c].since # account.version
           \/ call[c].pc = "waiting" /\ renewal[t].claims # jar.refresh
           \/ call[c].pc = "waiting" /\ jar' = jar]_vars

=============================================================================
