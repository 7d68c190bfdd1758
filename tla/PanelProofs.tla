---------------------------- MODULE PanelProofs -----------------------------
(***************************************************************************)
(* Proofs about the panel, for any number of tabs, requests, passwords,    *)
(* appointments, filters and terms: its sessions (AccountSessions) and its *)
(* list of appointments (AppointmentList).                                 *)
(*                                                                         *)
(* Sessions. No step makes a session out of nothing: the sessions after a  *)
(* step were there before it, or are the account as the step leaves it. A  *)
(* change of the account raises its version above every session there is;  *)
(* hence a session of the current version is the account itself. Then a    *)
(* request is followed through its refusal, the renewal it waits for and   *)
(* its repetition.                                                         *)
(*                                                                         *)
(* List. Every list, cached, under way or on screen, holds only rows that  *)
(* its own arguments select. A list that does not show a claim is waiting  *)
(* for one of: the answer of the claim, the invalidation, a request for    *)
(* it; or its last request failed.                                         *)
(***************************************************************************)
EXTENDS AccountSessions, AppointmentList, FiniteSetTheorems, TLAPS

-----------------------------------------------------------------------------
(* The sessions of the panel                                               *)

\* The account, its version capped by the bound, changes by a new version only.
AccountStep ==
    \/ account' = account
    \/ account' \in Session /\ account'.version = account.version + 1

\* The initial state is well typed.
LEMMA InitTypeOK == Init => TypeOK
  BY SessionsAssumption DEF Init, TypeOK, Session, MaybeSession, Renewing, NoRenewal,
     Requests, Fields, NoCall, Result, Reply

\* Cookies and plain answers are results.
LEMMA ResultTypes ==
  /\ \A s \in MaybeSession : Cookies(s) \in Result
  /\ \A w \in {"none", "ok", "unauthorized", "badRequest", "clear"} : Reply(w) \in Result
  BY DEF Cookies, Reply, Result, MaybeSession

\* The records of the model are typed.
LEMMA RestTypes == NoCall \in Requests /\ NoRenewal \in Renewing
  BY SessionsAssumption, ResultTypes DEF NoCall, NoRenewal, Requests, Fields, Renewing, MaybeSession

\* Sessions, member by member.
LEMMA Members ==
  ASSUME NEW s
  PROVE  s \in Sessions <=> \/ s = jar.access \/ s = jar.refresh
                            \/ \E t \in Tab : s = renewal[t].claims \/ s = renewal[t].result.session
                            \/ \E c \in Call : \/ s = call[c].claims \/ s = call[c].found
                                               \/ s = call[c].result.session
  BY DEF Sessions

\* What a step may add to the sessions there are.
NoNewSession == Sessions' \subseteq Sessions \cup {None, account'}

\* An answered request is typed, and carries no session but that of the answer.
LEMMA AnswerShape ==
  ASSUME TypeOK, NEW c \in Call, NEW r \in Result, Answer(c, r),
         call[c].kind # "change" \/ r.says # "unauthorized"
  PROVE  /\ call' \in [Call -> Requests]
         /\ \A d \in Call : \/ call'[d] = call[d]
                            \/ /\ call'[d].claims = None /\ call'[d].found = None
                               /\ call'[d].result = r
  <1> DEFINE a == [NoCall EXCEPT !.kind = call[c].kind, !.pc = "answered", !.result = r]
  <1>1. call[c].kind \in {"none", "query", "load", "change", "login", "logout"}
    BY DEF TypeOK, Requests, Fields
  <1>2. a \in Requests
    <2>1. NoCall \in Fields
      BY RestTypes DEF Requests
    <2>2. a \in Fields
      BY <1>1, <2>1 DEF Fields
    <2>3. a.kind = call[c].kind /\ a.pc = "answered" /\ a.result = r
      BY DEF NoCall
    <2> HIDE DEF a
    <2> QED BY <2>2, <2>3 DEF Requests
  <1>3. a.claims = None /\ a.found = None /\ a.result = r
    BY DEF NoCall
  <1>4. call' = [call EXCEPT ![c] = a]
    BY DEF Answer
  <1> HIDE DEF a
  <1>5. call \in [Call -> Requests]
    BY DEF TypeOK
  <1> QED BY <1>2, <1>3, <1>4, <1>5

\* A step keeps the types, the version of the account where its password is
\* kept, and every session is an old one or the account's.
Step == TypeOK' /\ AccountStep /\ NoNewSession

\* What an action that only gives an answer must show.
LEMMA AnswerStep ==
  ASSUME TypeOK, NEW c \in Call, NEW r \in Result, Answer(c, r),
         call[c].kind # "change" \/ r.says # "unauthorized",
         UNCHANGED <<jar, signedIn, renewal>>, AccountStep, account' \in Session,
         r.session \in Sessions \cup {None, account'}
  PROVE  Step
  <1>1. TypeOK'
    BY AnswerShape DEF TypeOK
  <1>2. NoNewSession
    <2> SUFFICES ASSUME NEW s \in Sessions', s # None, s # account'
                 PROVE  s \in Sessions
      BY DEF NoNewSession
    <2>1. CASE \E d \in Call : \/ s = call'[d].claims \/ s = call'[d].found
                               \/ s = call'[d].result.session
      BY <2>1, AnswerShape, Members
    <2>2. CASE \/ s = jar.access \/ s = jar.refresh
               \/ \E t \in Tab : s = renewal[t].claims \/ s = renewal[t].result.session
      BY <2>2, Members
    <2> QED BY <2>1, <2>2 DEF Sessions
  <1> QED BY <1>1, <1>2 DEF Step

\* An action that leaves all but the requests alone, and changes one of them.
LEMMA CallStep ==
  ASSUME TypeOK, NEW c \in Call, NEW r \in Requests, call' = [call EXCEPT ![c] = r],
         UNCHANGED <<account, jar, renewal>>, signedIn' \in [Tab -> BOOLEAN],
         {r.claims, r.found, r.result.session} \subseteq Sessions \cup {None, account}
  PROVE  Step
  <1>1. TypeOK'
    BY DEF TypeOK
  <1>2. NoNewSession
    <2> SUFFICES ASSUME NEW s \in Sessions', s # None, s # account
                 PROVE  s \in Sessions
      BY DEF NoNewSession
    <2>1. CASE \E d \in Call : \/ s = call'[d].claims \/ s = call'[d].found
                               \/ s = call'[d].result.session
      <3>1. call \in [Call -> Requests]
        BY DEF TypeOK
      <3> QED BY <2>1, <3>1, Members
    <2>2. CASE \/ s = jar.access \/ s = jar.refresh
               \/ \E t \in Tab : s = renewal[t].claims \/ s = renewal[t].result.session
      BY <2>2, Members
    <2> QED BY <2>1, <2>2 DEF Sessions
  <1> QED BY <1>1, <1>2 DEF Step, AccountStep

\* A request served keeps the state well typed.
LEMMA ServeStep ==
  ASSUME TypeOK, NEW c \in Call, Serve(c)
  PROVE  Step
  <1> USE DEF TypeOK
  <1>0. /\ call[c] \in Requests /\ call[c] \in Fields
        /\ {call[c].claims, call[c].found, call[c].result.session} \subseteq Sessions
    BY Members DEF Requests
  <1>1. CASE Authorize(c)
    <2>1. CASE Refuse(c)
      <3> DEFINE r == [call[c] EXCEPT !.pc = "answered", !.result = Reply("unauthorized"),
                                      !.claims = None]
      <3>1. r \in Requests
        <4>1. r \in Fields
          BY <1>0, ResultTypes DEF Fields, MaybeSession
        <4>2. r.kind = call[c].kind /\ r.chosen = call[c].chosen
          BY <1>0 DEF Fields
        <4> HIDE DEF r
        <4> QED BY <1>0, <1>1, <4>1, <4>2 DEF Requests, Authorize
      <3>2. {r.claims, r.found, r.result.session} \subseteq Sessions \cup {None, account}
        BY <1>0 DEF Requests, Fields, Reply
      <3>3. call' = [call EXCEPT ![c] = r]
        BY <2>1 DEF Refuse
      <3> HIDE DEF r
      <3> QED BY <1>1, <3>1, <3>2, <3>3, CallStep DEF Authorize
    <2>2. CASE call' = [call EXCEPT ![c].pc = "read"]
      <3> DEFINE r == [call[c] EXCEPT !.pc = "read"]
      <3>1. r \in Requests
        <4>1. r \in Fields
          BY <1>0 DEF Fields
        <4>2. r.kind = call[c].kind /\ r.chosen = call[c].chosen
          BY <1>0 DEF Fields
        <4> HIDE DEF r
        <4> QED BY <1>0, <1>1, <4>1, <4>2 DEF Requests, Authorize
      <3>2. {r.claims, r.found, r.result.session} \subseteq Sessions \cup {None, account}
        BY <1>0 DEF Requests, Fields
      <3>3. call' = [call EXCEPT ![c] = r]
        BY <2>2
      <3> HIDE DEF r
      <3> QED BY <1>1, <3>1, <3>2, <3>3, CallStep DEF Authorize
    <2>3. CASE Answer(c, Reply("ok"))
      BY <1>1, <2>3, ResultTypes, AnswerStep DEF Authorize, Reply, AccountStep
    <2> QED BY <1>1, <2>1, <2>2, <2>3 DEF Authorize
  <1>2. CASE FindAccount(c)
    <2> DEFINE r == [call[c] EXCEPT !.pc = "compare", !.found = account]
    <2>1. r \in Requests
      <3>1. r \in Fields
        BY <1>0 DEF Fields, MaybeSession
      <3>2. r.kind = call[c].kind /\ r.chosen = call[c].chosen
        BY <1>0 DEF Fields
      <3> HIDE DEF r
      <3> QED BY <1>0, <1>2, <3>1, <3>2 DEF Requests, FindAccount
    <2>2. {r.claims, r.found, r.result.session} \subseteq Sessions \cup {None, account}
      BY <1>0 DEF Requests, Fields
    <2>3. call' = [call EXCEPT ![c] = r]
      BY <1>2 DEF FindAccount
    <2> HIDE DEF r
    <2> QED BY <1>2, <2>1, <2>2, <2>3, CallStep DEF FindAccount
  <1>3. CASE Login(c)
    <2>1. call[c].found \in MaybeSession
      BY <1>0 DEF Requests, Fields
    <2>2. CASE Answer(c, Cookies(call[c].found))
      BY <1>0, <1>3, <2>1, <2>2, ResultTypes, AnswerStep DEF Login, Cookies, AccountStep
    <2>3. CASE Answer(c, Reply("unauthorized"))
      BY <1>3, <2>3, ResultTypes, AnswerStep DEF Login, Reply, AccountStep
    <2> QED BY <1>3, <2>2, <2>3 DEF Login, IssuedByLogin
  <1>4. CASE ChangePassword(c)
    <2>1. CASE /\ call[c].typed = call[c].found.password
               /\ UpdatePassword(call[c].chosen) /\ Answer(c, Cookies(account'))
      <3>1. call[c].chosen \in Password
        BY <1>0, <1>4 DEF ChangePassword, Requests
      <3>2. account' \in Session /\ account'.version = account.version + 1
        BY <2>1, <3>1, SessionsAssumption DEF UpdatePassword, Session
      <3> QED BY <1>4, <2>1, <3>2, ResultTypes, AnswerStep
                 DEF ChangePassword, Cookies, AccountStep, MaybeSession
    <2>2. CASE UNCHANGED account /\ Answer(c, Reply("badRequest"))
      BY <1>4, <2>2, ResultTypes, AnswerStep DEF ChangePassword, Reply, AccountStep
    <2> QED BY <1>4, <2>1, <2>2 DEF ChangePassword
  <1>5. CASE Logout(c)
    BY <1>5, ResultTypes, AnswerStep DEF Logout, Reply, AccountStep
  <1> QED BY <1>1, <1>2, <1>3, <1>4, <1>5 DEF Serve

\* A new request is typed and carries a cookie of the jar, or none.
LEMMA RequestStep ==
  ASSUME TypeOK, NEW c \in Call,
         NEW k \in {"query", "load", "change", "login", "logout"},
         NEW s \in {None, jar.access}, NEW v \in 0..MaxVersion,
         NEW p \in Password \cup {None}, NEW q \in Password \cup {None},
         k = "change" => q \in Password,
         call' = [call EXCEPT ![c] = NewRequest(k, s, v, p, q)],
         UNCHANGED <<account, jar, signedIn, renewal>>
  PROVE  Step
  <1> DEFINE r == NewRequest(k, s, v, p, q)
  <1>1. s \in MaybeSession /\ s \in Sessions \cup {None}
    BY Members DEF TypeOK, MaybeSession
  <1>2. r \in Requests
    BY <1>1, ResultTypes DEF Requests, Fields, NewRequest, MaybeSession
  <1>3. r.claims = s /\ r.found = None /\ r.result.session = None
    BY DEF NewRequest, Reply
  <1>4. call' = [call EXCEPT ![c] = r]
    OBVIOUS
  <1> HIDE DEF r
  <1>5. {r.claims, r.found, r.result.session} \subseteq Sessions \cup {None, account}
    BY <1>1, <1>3
  <1>6. signedIn' \in [Tab -> BOOLEAN]
    BY DEF TypeOK
  <1> QED BY <1>2, <1>4, <1>5, <1>6, CallStep

\* A request sent keeps the state well typed.
LEMMA StartStep ==
  ASSUME TypeOK, NEW c \in Call, Start(c)
  PROVE  Step
  <1>0. account.version \in 0..MaxVersion /\ 0 \in 0..MaxVersion
    BY SessionsAssumption DEF TypeOK, Session
  <1>1. CASE Query(c)
    BY <1>0, <1>1, RequestStep DEF Query, Send
  <1>2. CASE OpenPage(c)
    <2>1. Send(c, "load", None, None) /\ UNCHANGED <<account, jar, signedIn, renewal>>
      BY <1>2 DEF OpenPage
    <2> QED BY <1>0, <2>1, RequestStep DEF Send
  <1>3. CASE SubmitLogin(c)
    BY <1>0, <1>3, RequestStep DEF SubmitLogin, SendOpen
  <1>4. CASE SubmitChange(c)
    <2>1. PICK p, q \in Password :
              call' = [call EXCEPT ![c] =
                          NewRequest("change", jar.access, account.version, p, q)]
      BY <1>4 DEF SubmitChange, Send
    <2> QED BY <1>0, <1>4, <2>1, RequestStep DEF SubmitChange
  <1>5. CASE SubmitLogout(c)
    BY <1>0, <1>5, RequestStep DEF SubmitLogout, SendOpen
  <1> QED BY <1>1, <1>2, <1>3, <1>4, <1>5 DEF Start

\* A call that ends leaves nothing behind; the rest of the step is told apart by
\* what becomes of the jar, the tabs and the renewals.
LEMMA BrowserStep ==
  ASSUME TypeOK, call' \in [Call -> Requests], account' = account,
         jar' \in [access : MaybeSession, refresh : MaybeSession],
         {jar'.access, jar'.refresh} \subseteq Sessions \cup {None},
         signedIn' \in [Tab -> BOOLEAN], renewal' \in [Tab -> Renewing],
         \A t \in Tab : {renewal'[t].claims, renewal'[t].result.session}
                            \subseteq Sessions \cup {None},
         \A d \in Call : {call'[d].claims, call'[d].found, call'[d].result.session}
                            \subseteq Sessions \cup {None}
  PROVE  Step
  <1>1. TypeOK'
    BY DEF TypeOK
  <1>2. NoNewSession
    <2> SUFFICES ASSUME NEW s \in Sessions'
                 PROVE  s \in Sessions \cup {None}
      BY DEF NoNewSession
    <2>1. \/ s = jar'.access \/ s = jar'.refresh
          \/ \E t \in Tab : s = renewal'[t].claims \/ s = renewal'[t].result.session
          \/ \E c \in Call : \/ s = call'[c].claims \/ s = call'[c].found
                             \/ s = call'[c].result.session
      BY DEF Sessions
    <2> QED BY <2>1
  <1> QED BY <1>1, <1>2 DEF Step, AccountStep

\* The sessions the browser holds are sessions of the model.
LEMMA Held ==
  /\ \A s \in {jar.access, jar.refresh} : s \in Sessions
  /\ \A t \in Tab : {renewal[t].claims, renewal[t].result.session} \subseteq Sessions
  /\ \A d \in Call : {call[d].claims, call[d].found, call[d].result.session} \subseteq Sessions
  BY Members

\* Records that hold no session.
LEMMA Empty ==
  /\ NoCall.claims = None /\ NoCall.found = None /\ NoCall.result.session = None
  /\ NoRenewal.claims = None /\ NoRenewal.result.session = None
  BY DEF NoCall, NoRenewal, Reply

\* An answer received keeps the state well typed.
LEMMA ReceiveStep ==
  ASSUME TypeOK, NEW c \in Call, Receive(c)
  PROVE  Step
  <1>1. ASSUME Settle(c), account' = account, renewal' = renewal,
               signedIn' \in [Tab -> BOOLEAN],
               jar' = jar \/ \E s \in MaybeSession \cap (Sessions \cup {None}) :
                                jar' = [access |-> s, refresh |-> s]
        PROVE  Step
    <2>1. call' \in [Call -> Requests]
      BY <1>1, RestTypes DEF Settle, TypeOK
    <2>2. \A d \in Call : {call'[d].claims, call'[d].found, call'[d].result.session}
                              \subseteq Sessions \cup {None}
      BY <1>1, Empty, Held DEF Settle, TypeOK
    <2>3. /\ jar' \in [access : MaybeSession, refresh : MaybeSession]
          /\ {jar'.access, jar'.refresh} \subseteq Sessions \cup {None}
      BY <1>1, Held DEF TypeOK
    <2> QED BY <1>1, <2>1, <2>2, <2>3, BrowserStep, Held DEF TypeOK
  <1>2. CASE ReceiveOk(c)
    BY <1>1, <1>2 DEF ReceiveOk, TypeOK
  <1>3. CASE ReceiveCookies(c)
    <2>1. call[c].result.session \in MaybeSession
      BY DEF TypeOK, Requests, Fields, Result
    <2> QED BY <1>1, <1>3, <2>1, Held DEF ReceiveCookies, TypeOK
  <1>4. CASE ReceiveCleared(c)
    BY <1>1, <1>4 DEF ReceiveCleared, TypeOK, MaybeSession
  <1>5. CASE ReceiveRejected(c)
    BY <1>1, <1>5 DEF ReceiveRejected, TypeOK
  <1>6. CASE LoseAnswer(c)
    BY <1>1, <1>6 DEF LoseAnswer, TypeOK
  <1>7. CASE ReceiveUnauthorized(c)
    <2> DEFINE t == TabOf[c]
    <2>1. t \in Tab
      BY SessionsAssumption
    <2>2. CASE call[c].retry
      BY <1>1, <1>7, <2>2 DEF ReceiveUnauthorized, TypeOK
    <2>3. CASE ~call[c].retry
      <3> DEFINE n == [NoRenewal EXCEPT !.pc = "sent", !.claims = jar.refresh,
                                        !.since = account.version]
      <3>1. /\ n \in Renewing /\ n.claims = jar.refresh /\ n.result.session = None
        BY RestTypes DEF Renewing, NoRenewal, TypeOK, Session, Reply
      <3>2. \/ renewal' = renewal
            \/ renewal' = [renewal EXCEPT ![t] = n]
        BY <1>7, <2>3 DEF ReceiveUnauthorized
      <3> HIDE DEF n
      <3>3. renewal' \in [Tab -> Renewing]
        BY <2>1, <3>1, <3>2 DEF TypeOK
      <3>4. \A u \in Tab : {renewal'[u].claims, renewal'[u].result.session}
                               \subseteq Sessions \cup {None}
        BY <2>1, <3>1, <3>2, Held DEF TypeOK
      <3>5. renewal'[t].since \in 0..MaxVersion
        BY <2>1, <3>3 DEF Renewing
      <3> DEFINE r == [call[c] EXCEPT !.pc = "waiting", !.result = Reply("none"),
                                      !.since = Earlier(@, renewal'[t].since)]
      <3>6. call' = [call EXCEPT ![c] = r]
        BY <1>7, <2>3 DEF ReceiveUnauthorized
      <3>7. call[c] \in Fields /\ call[c] \in Requests
        BY DEF TypeOK, Requests
      <3>8. r \in Fields
        BY <3>5, <3>7, ResultTypes DEF Fields, Earlier
      <3>9. /\ r.kind = call[c].kind /\ r.chosen = call[c].chosen
            /\ r.claims = call[c].claims /\ r.found = call[c].found
            /\ r.result.session = None
        BY <3>7 DEF Fields, Reply
      <3> HIDE DEF r
      <3>10. r \in Requests
        BY <1>7, <3>7, <3>8, <3>9 DEF Requests, ReceiveUnauthorized, Says
      <3>11. call' \in [Call -> Requests]
        BY <3>6, <3>10 DEF TypeOK
      <3>12. \A d \in Call : {call'[d].claims, call'[d].found, call'[d].result.session}
                                 \subseteq Sessions \cup {None}
        BY <3>6, <3>9, Held DEF TypeOK
      <3>13. account' = account /\ jar' = jar /\ signedIn' = signedIn
        BY <1>7, <2>3 DEF ReceiveUnauthorized
      <3> QED BY <3>3, <3>4, <3>11, <3>12, <3>13, BrowserStep, Held DEF TypeOK
    <2> QED BY <2>2, <2>3
  <1> QED BY <1>2, <1>3, <1>4, <1>5, <1>6, <1>7 DEF Receive

\* A renewal of the session keeps the state well typed.
LEMMA RenewalStep ==
  ASSUME TypeOK, NEW t \in Tab, Refresh(t) \/ ReceiveRenewal(t)
  PROVE  Step
  <1>1. CASE Refresh(t)
    <2> DEFINE a == IF Accepts(renewal[t].claims) THEN Cookies(renewal[t].claims)
                    ELSE Reply("unauthorized")
               n == [renewal[t] EXCEPT !.pc = "answered", !.result = a]
    <2>1. renewal[t] \in Renewing /\ renewal[t].claims \in MaybeSession
      BY DEF TypeOK, Renewing
    <2>2. a \in Result /\ a.session \in {None, renewal[t].claims}
      BY <2>1, ResultTypes DEF Cookies, Reply
    <2> HIDE DEF a
    <2>3. n \in Renewing /\ n.claims = renewal[t].claims /\ n.result = a
      BY <2>1, <2>2 DEF Renewing
    <2>4. renewal' = [renewal EXCEPT ![t] = n]
      BY <1>1 DEF Refresh, a
    <2> HIDE DEF n
    <2>5. renewal' \in [Tab -> Renewing]
      BY <2>3, <2>4 DEF TypeOK
    <2>6. \A u \in Tab : {renewal'[u].claims, renewal'[u].result.session}
                             \subseteq Sessions \cup {None}
      BY <2>2, <2>3, <2>4, Held DEF TypeOK
    <2>7. UNCHANGED <<account, jar, signedIn, call>>
      BY <1>1 DEF Refresh
    <2> QED BY <2>5, <2>6, <2>7, BrowserStep, Held DEF TypeOK
  <1>2. ASSUME account' = account, renewal' = [renewal EXCEPT ![t] = NoRenewal],
               signedIn' \in [Tab -> BOOLEAN],
               jar' \in [access : MaybeSession, refresh : MaybeSession],
               {jar'.access, jar'.refresh} \subseteq Sessions \cup {None},
               call' \in [Call -> Requests],
               \A d \in Call : {call'[d].claims, call'[d].found, call'[d].result.session}
                                   \subseteq Sessions \cup {None}
        PROVE  Step
    <2>1. renewal' \in [Tab -> Renewing]
      BY <1>2, RestTypes DEF TypeOK
    <2>2. \A u \in Tab : {renewal'[u].claims, renewal'[u].result.session}
                             \subseteq Sessions \cup {None}
      BY <1>2, Empty, Held DEF TypeOK
    <2> QED BY <1>2, <2>1, <2>2, BrowserStep
  <1>3. ASSUME GiveUp(t)
        PROVE  /\ call' \in [Call -> Requests] /\ signedIn' \in [Tab -> BOOLEAN]
               /\ \A d \in Call : {call'[d].claims, call'[d].found, call'[d].result.session}
                                      \subseteq Sessions \cup {None}
    BY <1>3, RestTypes, Empty, Held DEF GiveUp, TypeOK
  <1>4. CASE ReceiveRenewed(t)
    <2> DEFINE s == renewal[t].result.session
    <2>1. s \in MaybeSession /\ s \in Sessions
      BY Held DEF TypeOK, Renewing, Result
    <2> HIDE DEF s
    <2>2. /\ call' = [c \in Call |-> IF c \in Waiting(t)
                                     THEN [call[c] EXCEPT !.pc = "sent", !.claims = s,
                                                          !.retry = TRUE]
                                     ELSE call[c]]
          /\ renewal' = [renewal EXCEPT ![t] = NoRenewal]
          /\ jar' = [jar EXCEPT !.access = s]
          /\ account' = account /\ signedIn' = signedIn
      BY <1>4 DEF ReceiveRenewed, Repeat, s
    <2>3. \A c \in Call : /\ call'[c] \in Requests
                          /\ {call'[c].claims, call'[c].found, call'[c].result.session}
                                 \subseteq Sessions \cup {None}
      <3> SUFFICES ASSUME NEW c \in Call
                   PROVE  /\ call'[c] \in Requests
                          /\ {call'[c].claims, call'[c].found, call'[c].result.session}
                                 \subseteq Sessions \cup {None}
        OBVIOUS
      <3>1. CASE c \in Waiting(t)
        <4>1. call[c] \in Fields /\ call[c] \in Requests /\ call[c].pc = "waiting"
          BY <3>1 DEF TypeOK, Requests, Waiting
        <4> DEFINE r == [call[c] EXCEPT !.pc = "sent", !.claims = s, !.retry = TRUE]
        <4>2. r \in Fields
          BY <2>1, <4>1 DEF Fields
        <4>3. /\ r.kind = call[c].kind /\ r.chosen = call[c].chosen
              /\ r.claims = s /\ r.found = call[c].found /\ r.result = call[c].result
          BY <4>1 DEF Fields
        <4>4. call'[c] = r
          BY <2>2, <3>1
        <4> HIDE DEF r
        <4> QED BY <2>1, <4>1, <4>2, <4>3, <4>4, Held DEF Requests
      <3>2. CASE c \notin Waiting(t)
        BY <2>2, <3>2, Held DEF TypeOK
      <3> QED BY <3>1, <3>2
    <2>4. call' \in [Call -> Requests]
      BY <2>2, <2>3
    <2>5. /\ jar' \in [access : MaybeSession, refresh : MaybeSession]
          /\ {jar'.access, jar'.refresh} \subseteq Sessions \cup {None}
      BY <2>1, <2>2, Held DEF TypeOK
    <2> QED BY <1>2, <2>2, <2>3, <2>4, <2>5 DEF TypeOK
  <1>5. CASE ReceiveNotRenewed(t)
    BY <1>2, <1>3, <1>5 DEF ReceiveNotRenewed, GiveUp, MaybeSession
  <1>6. CASE LoseRenewal(t)
    BY <1>2, <1>3, <1>6, Held DEF LoseRenewal, GiveUp, TypeOK
  <1> QED BY <1>1, <1>4, <1>5, <1>6 DEF ReceiveRenewal

\* A password reset keeps the state well typed.
LEMMA ResetStep ==
  ASSUME TypeOK, ResetAdminPassword
  PROVE  Step
  <1>1. account' \in Session /\ account'.version = account.version + 1
    BY SessionsAssumption DEF ResetAdminPassword, UpdatePassword, TypeOK, Session
  <1>2. Sessions' = Sessions
    BY DEF ResetAdminPassword, Sessions
  <1> QED BY <1>1, <1>2 DEF ResetAdminPassword, Step, TypeOK, AccountStep, NoNewSession

\* An access token that expires keeps the state well typed.
LEMMA ExpireStep ==
  ASSUME TypeOK, ExpireAccess \/ ExpireRefresh
  PROVE  Step
  <1>1. /\ jar' \in [access : MaybeSession, refresh : MaybeSession]
        /\ {jar'.access, jar'.refresh} \subseteq Sessions \cup {None}
    BY Held DEF ExpireAccess, ExpireRefresh, TypeOK, MaybeSession
  <1>2. UNCHANGED <<account, signedIn, renewal, call>>
    BY DEF ExpireAccess, ExpireRefresh
  <1> QED BY <1>1, <1>2, BrowserStep, Held DEF TypeOK

\* Every step keeps the state well typed.
LEMMA NextStep ==
  ASSUME TypeOK, [Next]_vars
  PROVE  Step
  <1>1. CASE UNCHANGED vars
    <2>1. Sessions' = Sessions
      BY <1>1 DEF vars, Sessions
    <2> QED BY <1>1, <2>1 DEF vars, Step, TypeOK, AccountStep, NoNewSession
  <1>2. CASE Next
    BY <1>2, StartStep, ServeStep, ReceiveStep, RenewalStep, ResetStep, ExpireStep DEF Next
  <1> QED BY <1>1, <1>2

-----------------------------------------------------------------------------
\* Every reachable state is well typed.
THEOREM TypeCorrect == Spec => []TypeOK
  <1>1. TypeOK /\ [Next]_vars => TypeOK'
    BY NextStep DEF Step
  <1> QED BY InitTypeOK, <1>1, PTL DEF Spec

\* The invariant is kept by every step of a typed state.
LEMMA SessionsKept ==
  ASSUME TypeOK, CurrentSessionsKnowThePassword, [Next]_vars
  PROVE  CurrentSessionsKnowThePassword'
  <1> SUFFICES ASSUME NEW s \in Sessions' \ {None}
               PROVE  /\ s.version <= account'.version
                      /\ s.version = account'.version => s = account'
    BY DEF CurrentSessionsKnowThePassword
  <1>1. Step
    BY NextStep
  <1>2. s = account' \/ s \in Sessions \ {None}
    BY <1>1 DEF Step, NoNewSession
  <1>3. account' \in Session /\ account \in Session
    BY <1>1 DEF Step, TypeOK
  <1>4. CASE s = account'
    BY <1>3, <1>4, SessionsAssumption DEF Session
  <1>5. CASE s \in Sessions \ {None}
    <2>1. s.version <= account.version /\ (s.version = account.version => s = account)
      BY <1>5 DEF CurrentSessionsKnowThePassword
    <2>2. s \in Session
      BY <1>5, Members DEF TypeOK, MaybeSession, Renewing, Requests, Fields, Result
    <2> QED BY <1>1, <1>3, <2>1, <2>2, SessionsAssumption DEF Step, AccountStep, Session
  <1> QED BY <1>2, <1>4, <1>5

\* No session of the current version was opened with an older password, for
\* any number of tabs, requests and changes of the password.
THEOREM SessionsKnowThePassword == Spec => []CurrentSessionsKnowThePassword
  <1>1. Init => CurrentSessionsKnowThePassword
    <2> SUFFICES ASSUME Init, NEW s \in Sessions \ {None}
                 PROVE  s = account
      BY SessionsAssumption DEF CurrentSessionsKnowThePassword, Init, Session
    <2> QED BY Members, Empty DEF Init
  <1>2. TypeOK /\ CurrentSessionsKnowThePassword /\ [Next]_vars
            => CurrentSessionsKnowThePassword'
    BY SessionsKept
  <1> QED BY <1>1, <1>2, TypeCorrect, PTL DEF Spec

-----------------------------------------------------------------------------
(* Why a steady session is kept                                            *)

\* A renewal of an account that is at version v now. One that was granted gave
\* a session no older than the renewal; a cookie that was refused and passes
\* now means that the account has changed since.
GoodRenewal(n, v) ==
    n.pc # "none" =>
        /\ n.since <= v
        /\ n.pc = "answered" =>
              \/ /\ n.result.says = "cookies" /\ n.result.session \in Session
                 /\ n.since <= n.result.session.version
              \/ /\ n.result.says = "unauthorized"
                 /\ n.claims # None /\ n.claims.version = v => n.since < v

\* A request, with the renewal of its tab. Repeated, it carries a session no
\* older than itself, and it is refused again only if the account has changed.
GoodCall(x, n, v) ==
    /\ x.since <= v
    /\ x.pc = "waiting" => n.pc # "none" /\ x.since <= n.since
    /\ x.pc = "sent" /\ x.retry => x.claims \in Session /\ x.since <= x.claims.version
    /\ x.pc = "answered" =>
          /\ x.result.says = "clear" => x.kind = "logout"
          /\ x.retry /\ x.kind # "login" /\ x.result.says = "unauthorized" => x.since < v

KeptInv ==
    /\ \A t \in Tab : GoodRenewal(renewal[t], account.version)
    /\ \A c \in Call : GoodCall(call[c], renewal[TabOf[c]], account.version)

\* Both stay good when the account gets a later version.
LEMMA RenewalAges ==
  ASSUME NEW n \in Renewing, NEW v \in Nat, NEW w \in Nat, v <= w, GoodRenewal(n, v)
  PROVE  GoodRenewal(n, w)
  <1>1. n.since \in Nat
    BY SessionsAssumption DEF Renewing
  <1>2. n.pc # "none" => n.since <= v
    BY DEF GoodRenewal
  <1> QED BY <1>1, <1>2 DEF GoodRenewal

\* A good call stays good when the password is changed later.
LEMMA CallAges ==
  ASSUME NEW x \in Requests, NEW n, NEW v \in Nat, NEW w \in Nat, v <= w, GoodCall(x, n, v)
  PROVE  GoodCall(x, n, w)
  <1>1. x.since \in Nat
    BY SessionsAssumption DEF Requests, Fields
  <1> QED BY <1>1 DEF GoodCall

\* The facts about types that the steps need.
LEMMA KeptTypes ==
  ASSUME TypeOK
  PROVE  /\ account \in Session /\ account.version \in Nat /\ MaxVersion \in Nat
         /\ \A t \in Tab : renewal[t] \in Renewing /\ renewal[t].since \in Nat
         /\ \A c \in Call : /\ call[c] \in Requests /\ call[c] \in Fields
                            /\ call[c].since \in Nat /\ TabOf[c] \in Tab
         /\ \A s \in Session : s.version \in Nat /\ s # None
  BY SessionsAssumption DEF TypeOK, Session, Renewing, Requests, Fields

\* A step that leaves the renewals alone and changes one request.
LEMMA OneCall ==
  ASSUME TypeOK, TypeOK', AccountStep, KeptInv, NEW c \in Call, NEW x,
         call' = [call EXCEPT ![c] = x], renewal' = renewal,
         GoodCall(x, renewal[TabOf[c]], account'.version)
  PROVE  KeptInv'
  <1>1. account.version \in Nat /\ account'.version \in Nat /\ account.version <= account'.version
    BY SessionsAssumption DEF AccountStep, TypeOK, Session
  <1>2. \A t \in Tab : GoodRenewal(renewal'[t], account'.version)
    BY <1>1, KeptTypes, RenewalAges DEF KeptInv
  <1>3. ASSUME NEW d \in Call
        PROVE  GoodCall(call'[d], renewal'[TabOf[d]], account'.version)
    <2>1. CASE d = c
      BY <2>1 DEF TypeOK
    <2>2. CASE d # c
      <3>1. call'[d] = call[d] /\ GoodCall(call[d], renewal[TabOf[d]], account.version)
        BY <2>2 DEF TypeOK, KeptInv
      <3> QED BY <1>1, <3>1, KeptTypes, CallAges
    <2> QED BY <2>1, <2>2
  <1> QED BY <1>2, <1>3 DEF KeptInv

\* An answer that is given for good is good, unless it clears the jar of a
\* request that is no logout.
LEMMA GoodAnswer ==
  ASSUME TypeOK, TypeOK', AccountStep, KeptInv, NEW c \in Call, NEW r \in Result,
         Answer(c, r), renewal' = renewal,
         r.says = "clear" => call[c].kind = "logout"
  PROVE  KeptInv'
  <1> DEFINE x == [NoCall EXCEPT !.kind = call[c].kind, !.pc = "answered", !.result = r]
  <1>1. x.since = 0 /\ x.pc = "answered" /\ ~x.retry /\ x.kind = call[c].kind /\ x.result = r
    BY DEF NoCall
  <1>2. call' = [call EXCEPT ![c] = x]
    BY DEF Answer
  <1> HIDE DEF x
  <1>3. 0 <= account'.version
    BY SessionsAssumption DEF TypeOK, Session
  <1>4. GoodCall(x, renewal[TabOf[c]], account'.version)
    BY <1>1, <1>3 DEF GoodCall
  <1> QED BY <1>2, <1>4, OneCall

\* A tab without a call has a good call.
LEMMA GoodNoCall ==
  ASSUME NEW n, NEW v \in Nat PROVE GoodCall(NoCall, n, v)
  BY DEF GoodCall, NoCall

\* A request served keeps the invariant of the steady sessions.
LEMMA KeptByServe ==
  ASSUME TypeOK, TypeOK', AccountStep, KeptInv, CurrentSessionsKnowThePassword,
         NEW c \in Call, Serve(c)
  PROVE  KeptInv'
  <1>0. /\ call[c] \in Fields /\ call[c].since \in Nat /\ account.version \in Nat
        /\ GoodCall(call[c], renewal[TabOf[c]], account.version)
        /\ call[c].found \in MaybeSession
    BY KeptTypes DEF KeptInv, Fields
  <1>1. CASE Authorize(c)
    <2>0. account' = account /\ renewal' = renewal /\ call[c].pc = "sent"
      BY <1>1 DEF Authorize
    <2>1. CASE Refuse(c) /\ ~Accepts(call[c].claims)
      <3> DEFINE x == [call[c] EXCEPT !.pc = "answered", !.result = Reply("unauthorized"),
                                      !.claims = None]
      <3>1. /\ x.pc = "answered" /\ x.since = call[c].since /\ x.retry = call[c].retry
            /\ x.result.says = "unauthorized"
        BY <1>0 DEF Fields, Reply
      <3>2. call' = [call EXCEPT ![c] = x]
        BY <2>1 DEF Refuse
      <3> HIDE DEF x
      <3>3. ASSUME call[c].retry PROVE call[c].since < account.version
        <4>1. call[c].claims \in Session /\ call[c].since <= call[c].claims.version
          BY <1>0, <2>0, <3>3 DEF GoodCall
        <4>2. call[c].claims # None /\ call[c].claims.version \in Nat
          BY <4>1, KeptTypes
        <4>3. call[c].claims.version <= account.version
          BY <4>2, Held DEF CurrentSessionsKnowThePassword
        <4> QED BY <1>0, <2>1, <4>1, <4>2, <4>3 DEF Accepts
      <3>4. GoodCall(x, renewal[TabOf[c]], account.version)
        BY <1>0, <3>1, <3>3 DEF GoodCall
      <3> QED BY <2>0, <3>2, <3>4, OneCall
    <2>2. CASE call' = [call EXCEPT ![c].pc = "read"]
      <3> DEFINE x == [call[c] EXCEPT !.pc = "read"]
      <3>1. x.pc = "read" /\ x.since = call[c].since
        BY <1>0 DEF Fields
      <3>2. call' = [call EXCEPT ![c] = x]
        BY <2>2
      <3> HIDE DEF x
      <3>3. GoodCall(x, renewal[TabOf[c]], account.version)
        BY <1>0, <3>1 DEF GoodCall
      <3> QED BY <2>0, <3>2, <3>3, OneCall
    <2>3. CASE Answer(c, Reply("ok"))
      BY <2>0, <2>3, ResultTypes, GoodAnswer DEF Reply
    <2> QED BY <1>1, <2>1, <2>2, <2>3 DEF Authorize
  <1>2. CASE FindAccount(c)
    <2> DEFINE x == [call[c] EXCEPT !.pc = "compare", !.found = account]
    <2>1. x.pc = "compare" /\ x.since = call[c].since
      BY <1>0 DEF Fields
    <2>2. call' = [call EXCEPT ![c] = x] /\ account' = account /\ renewal' = renewal
      BY <1>2 DEF FindAccount
    <2> HIDE DEF x
    <2>3. GoodCall(x, renewal[TabOf[c]], account.version)
      BY <1>0, <2>1 DEF GoodCall
    <2> QED BY <2>2, <2>3, OneCall
  <1>3. CASE Login(c)
    <2>1. Answer(c, Cookies(call[c].found)) \/ Answer(c, Reply("unauthorized"))
      BY <1>3 DEF Login, IssuedByLogin
    <2>2. /\ Cookies(call[c].found) \in Result /\ Cookies(call[c].found).says = "cookies"
          /\ Reply("unauthorized") \in Result /\ Reply("unauthorized").says = "unauthorized"
      BY <1>0, ResultTypes DEF Cookies, Reply
    <2> QED BY <1>3, <2>1, <2>2, GoodAnswer DEF Login
  <1>4. CASE ChangePassword(c)
    <2>1. Answer(c, Cookies(account')) \/ Answer(c, Reply("badRequest"))
      BY <1>4 DEF ChangePassword
    <2>2. account' \in MaybeSession
      BY DEF TypeOK, MaybeSession
    <2>3. /\ Cookies(account') \in Result /\ Cookies(account').says = "cookies"
          /\ Reply("badRequest") \in Result /\ Reply("badRequest").says = "badRequest"
      BY <2>2, ResultTypes DEF Cookies, Reply
    <2> QED BY <1>4, <2>1, <2>3, GoodAnswer DEF ChangePassword
  <1>5. CASE Logout(c)
    BY <1>5, ResultTypes, GoodAnswer DEF Logout, Reply
  <1> QED BY <1>1, <1>2, <1>3, <1>4, <1>5 DEF Serve

\* A request is not older than the account.
LEMMA KeptByStart ==
  ASSUME TypeOK, TypeOK', AccountStep, KeptInv, NEW c \in Call, Start(c)
  PROVE  KeptInv'
  <1>1. ASSUME NEW k, NEW s, NEW v \in {0, account.version}, NEW p, NEW q,
               call' = [call EXCEPT ![c] = NewRequest(k, s, v, p, q)],
               account' = account, renewal' = renewal
        PROVE  KeptInv'
    <2> DEFINE x == NewRequest(k, s, v, p, q)
    <2>1. x.pc = "sent" /\ ~x.retry /\ x.since = v
      BY DEF NewRequest
    <2>2. call' = [call EXCEPT ![c] = x]
      BY <1>1
    <2> HIDE DEF x
    <2>3. v <= account.version
      BY KeptTypes
    <2>4. GoodCall(x, renewal[TabOf[c]], account.version)
      BY <2>1, <2>3 DEF GoodCall
    <2> QED BY <1>1, <2>2, <2>4, OneCall
  <1>2. account' = account /\ renewal' = renewal
    BY DEF Start, Query, OpenPage, SubmitLogin, SubmitChange, SubmitLogout
  <1>3. \/ \E k \in {"query", "load"} : Send(c, k, None, None)
        \/ \E p, q \in Password : Send(c, "change", p, q)
        \/ \E p \in Password : SendOpen(c, "login", p)
        \/ SendOpen(c, "logout", None)
    BY DEF Start, Query, OpenPage, SubmitLogin, SubmitChange, SubmitLogout
  <1> QED BY <1>1, <1>2, <1>3 DEF Send, SendOpen

\* A request that waits is no younger than the renewal it waits for.
LEMMA KeptByReceive ==
  ASSUME TypeOK, TypeOK', AccountStep, KeptInv, NEW c \in Call, Receive(c)
  PROVE  KeptInv'
  <1>1. CASE Settle(c) /\ account' = account /\ renewal' = renewal
    <2>1. GoodCall(NoCall, renewal[TabOf[c]], account.version)
      BY KeptTypes, GoodNoCall
    <2> QED BY <1>1, <2>1, OneCall DEF Settle
  <1>2. CASE ReceiveUnauthorized(c) /\ ~call[c].retry
    <2> DEFINE t == TabOf[c]
               n == [NoRenewal EXCEPT !.pc = "sent", !.claims = jar.refresh,
                                      !.since = account.version]
               x == [call[c] EXCEPT !.pc = "waiting", !.result = Reply("none"),
                                    !.since = Earlier(@, renewal'[t].since)]
    <2>1. /\ renewal' = IF renewal[t].pc # "none" THEN renewal ELSE [renewal EXCEPT ![t] = n]
          /\ call' = [call EXCEPT ![c] = x]
          /\ account' = account
      BY <1>2 DEF ReceiveUnauthorized
    <2>2. n.pc = "sent" /\ n.since = account.version
      BY DEF NoRenewal
    <2>3. /\ x.pc = "waiting" /\ x.since = Earlier(call[c].since, renewal'[t].since)
      BY KeptTypes DEF Fields
    <2> HIDE DEF n, x
    <2>4. /\ call[c].since \in Nat /\ account.version \in Nat /\ t \in Tab
          /\ call[c].since <= account.version /\ renewal'[t].since \in Nat
      BY KeptTypes, SessionsAssumption DEF KeptInv, GoodCall, TypeOK, Renewing
    <2>5. GoodRenewal(n, account.version)
      BY <2>2, <2>4 DEF GoodRenewal
    <2>6. renewal'[t].pc # "none" /\ GoodRenewal(renewal'[t], account.version)
      BY <2>1, <2>2, <2>4, <2>5 DEF KeptInv, TypeOK
    <2>7. \A u \in Tab \ {t} : renewal'[u] = renewal[u]
      BY <2>1 DEF TypeOK
    <2>8. GoodCall(x, renewal'[t], account.version)
      BY <2>3, <2>4, <2>6 DEF GoodCall, Earlier
    <2>9. ASSUME NEW d \in Call PROVE GoodCall(call'[d], renewal'[TabOf[d]], account.version)
      <3>1. CASE d = c
        BY <2>1, <2>8, <3>1 DEF TypeOK
      <3>2. CASE d # c
        <4>1. call'[d] = call[d] /\ GoodCall(call[d], renewal[TabOf[d]], account.version)
          BY <2>1, <3>2 DEF TypeOK, KeptInv
        <4>2. \/ renewal'[TabOf[d]] = renewal[TabOf[d]]
              \/ TabOf[d] = t /\ renewal[t].pc = "none"
          BY <2>1, <2>7, KeptTypes
        <4> QED BY <4>1, <4>2 DEF GoodCall
      <3> QED BY <3>1, <3>2
    <2> QED BY <2>1, <2>6, <2>7, <2>9 DEF KeptInv
  <1>3. \/ Settle(c) /\ account' = account /\ renewal' = renewal
        \/ ReceiveUnauthorized(c) /\ ~call[c].retry
    BY DEF Receive, ReceiveOk, ReceiveCookies, ReceiveCleared, ReceiveRejected,
           ReceiveUnauthorized, LoseAnswer
  <1> QED BY <1>1, <1>2, <1>3

\* A renewal keeps the invariant of the steady sessions.
LEMMA KeptByRenewal ==
  ASSUME TypeOK, TypeOK', KeptInv, NEW t \in Tab, Refresh(t) \/ ReceiveRenewal(t)
  PROVE  KeptInv'
  <1>0. account' = account /\ account.version \in Nat
    BY KeptTypes DEF Refresh, ReceiveRenewal, ReceiveRenewed, ReceiveNotRenewed, LoseRenewal,
                     Repeat, GiveUp
  <1>1. CASE Refresh(t)
    <2> DEFINE a == IF Accepts(renewal[t].claims) THEN Cookies(renewal[t].claims)
                    ELSE Reply("unauthorized")
               n == [renewal[t] EXCEPT !.pc = "answered", !.result = a]
    <2>1. /\ renewal[t].claims \in MaybeSession /\ renewal[t].pc = "sent"
          /\ renewal[t].since <= account.version /\ renewal[t].since \in Nat
      BY <1>1, KeptTypes DEF KeptInv, GoodRenewal, Refresh, Renewing
    <2>2. /\ n.pc = "answered" /\ n.result = a
          /\ n.claims = renewal[t].claims /\ n.since = renewal[t].since
      BY KeptTypes DEF Renewing
    <2>3. renewal' = [renewal EXCEPT ![t] = n] /\ call' = call
      BY <1>1 DEF Refresh
    <2> HIDE DEF n
    <2>4. GoodRenewal(n, account.version)
      <3>1. CASE Accepts(renewal[t].claims)
        <4>1. a.says = "cookies" /\ a.session = renewal[t].claims
          BY <3>1 DEF Cookies
        <4>2. renewal[t].claims \in Session /\ renewal[t].claims.version = account.version
          BY <2>1, <3>1 DEF Accepts, MaybeSession
        <4> HIDE DEF a
        <4> QED BY <2>1, <2>2, <4>1, <4>2 DEF GoodRenewal
      <3>2. CASE ~Accepts(renewal[t].claims)
        <4>1. a.says = "unauthorized"
          BY <3>2 DEF Reply
        <4> HIDE DEF a
        <4> QED BY <2>1, <2>2, <3>2, <4>1 DEF GoodRenewal, Accepts
      <3> QED BY <3>1, <3>2
    <2> HIDE DEF a
    <2>5. \A u \in Tab : GoodRenewal(renewal'[u], account.version)
      BY <2>3, <2>4 DEF KeptInv, TypeOK
    <2>6. \A u \in Tab : renewal'[u].since = renewal[u].since
                         /\ (renewal[u].pc # "none" => renewal'[u].pc # "none")
      BY <2>2, <2>3 DEF TypeOK
    <2>7. \A c \in Call : GoodCall(call'[c], renewal'[TabOf[c]], account.version)
      BY <2>3, <2>6, KeptTypes DEF KeptInv, GoodCall
    <2> QED BY <1>0, <2>5, <2>7 DEF KeptInv
  <1>2. ASSUME renewal' = [renewal EXCEPT ![t] = NoRenewal],
               \A c \in Call : \/ c \notin Waiting(t) /\ call'[c] = call[c]
                               \/ /\ c \in Waiting(t)
                                  /\ GoodCall(call'[c], NoRenewal, account.version)
        PROVE  KeptInv'
    <2>1. GoodRenewal(NoRenewal, account.version)
      BY DEF GoodRenewal, NoRenewal
    <2>2. \A u \in Tab : GoodRenewal(renewal'[u], account.version)
      BY <1>2, <2>1 DEF KeptInv, TypeOK
    <2>3. ASSUME NEW c \in Call PROVE GoodCall(call'[c], renewal'[TabOf[c]], account.version)
      <3>1. CASE c \in Waiting(t)
        <4>1. renewal'[TabOf[c]] = NoRenewal /\ GoodCall(call'[c], NoRenewal, account.version)
          BY <1>2, <3>1 DEF Waiting, TypeOK
        <4> QED BY <4>1
      <3>2. CASE c \notin Waiting(t)
        <4>1. call'[c] = call[c] /\ GoodCall(call[c], renewal[TabOf[c]], account.version)
          BY <1>2, <3>2 DEF KeptInv
        <4>2. call[c].pc = "waiting" => renewal'[TabOf[c]] = renewal[TabOf[c]]
          BY <1>2, <3>2, KeptTypes DEF Waiting, TypeOK
        <4> QED BY <4>1, <4>2 DEF GoodCall
      <3> QED BY <3>1, <3>2
    <2> QED BY <1>0, <2>2, <2>3 DEF KeptInv
  <1>3. CASE ReceiveRenewed(t)
    <2> DEFINE s == renewal[t].result.session
    <2>1. /\ renewal[t].since \in Nat /\ s \in Session /\ renewal[t].since <= s.version
          /\ s.version \in Nat
      BY <1>3, KeptTypes DEF ReceiveRenewed, KeptInv, GoodRenewal
    <2>2. /\ renewal' = [renewal EXCEPT ![t] = NoRenewal]
          /\ call' = [c \in Call |-> IF c \in Waiting(t)
                                     THEN [call[c] EXCEPT !.pc = "sent", !.claims = s,
                                                          !.retry = TRUE]
                                     ELSE call[c]]
      BY <1>3 DEF ReceiveRenewed, Repeat
    <2> HIDE DEF s
    <2>3. ASSUME NEW c \in Waiting(t) PROVE GoodCall(call'[c], NoRenewal, account.version)
      <3>1. /\ c \in Call /\ call[c] \in Fields /\ call[c].since \in Nat
            /\ call[c].since <= renewal[t].since /\ call[c].since <= account.version
        BY KeptTypes DEF Waiting, KeptInv, GoodCall
      <3> DEFINE x == [call[c] EXCEPT !.pc = "sent", !.claims = s, !.retry = TRUE]
      <3>2. x.pc = "sent" /\ x.claims = s /\ x.since = call[c].since
        BY <3>1 DEF Fields
      <3>3. call'[c] = x
        BY <2>2, <3>1
      <3> HIDE DEF x
      <3>4. x.since <= s.version
        BY <2>1, <3>1, <3>2
      <3> QED BY <2>1, <3>1, <3>2, <3>3, <3>4 DEF GoodCall
    <2> QED BY <1>2, <2>2, <2>3
  <1>4. CASE GiveUp(t)
    <2>1. \A n : GoodCall(NoCall, n, account.version)
      BY <1>0, GoodNoCall
    <2> QED BY <1>2, <1>4, <2>1 DEF GiveUp, Waiting
  <1> QED BY <1>1, <1>3, <1>4 DEF ReceiveRenewal, ReceiveNotRenewed, LoseRenewal

\* Every step keeps the invariant of the steady sessions.
LEMMA KeptByNext ==
  ASSUME TypeOK, CurrentSessionsKnowThePassword, KeptInv, [Next]_vars
  PROVE  KeptInv'
  <1>1. TypeOK' /\ AccountStep
    BY NextStep DEF Step
  <1>2. CASE call' = call /\ renewal' = renewal
    <2>1. account.version \in Nat /\ account'.version \in Nat /\ account.version <= account'.version
      BY <1>1, SessionsAssumption DEF AccountStep, TypeOK, Session
    <2>2. \A t \in Tab : GoodRenewal(renewal[t], account'.version)
      BY <2>1, KeptTypes, RenewalAges DEF KeptInv
    <2>3. \A c \in Call : GoodCall(call[c], renewal[TabOf[c]], account'.version)
      BY <2>1, KeptTypes, CallAges DEF KeptInv
    <2> QED BY <1>2, <2>2, <2>3 DEF KeptInv
  <1>3. \/ call' = call /\ renewal' = renewal
        \/ \E c \in Call : Start(c) \/ Serve(c) \/ Receive(c)
        \/ \E t \in Tab : Refresh(t) \/ ReceiveRenewal(t)
    BY DEF Next, ResetAdminPassword, ExpireAccess, ExpireRefresh, vars
  <1> QED BY <1>1, <1>2, <1>3, KeptByStart, KeptByServe, KeptByReceive, KeptByRenewal

\* A tab is not sent to the login page while the refresh cookie of the browser
\* is good, but for the exceptions the property names.
THEOREM SteadySessionTheorem == Spec => SteadySessionIsKept
  <1> DEFINE Steady ==
        \A c \in Call :
            LET t == TabOf[c]  sent == call[c].kind \in {"query", "load", "change"} IN
            /\ sent /\ call[c].pc \in {"answered", "waiting"} /\ call'[c].pc = "idle"
            /\ signedIn[t] /\ ~signedIn'[t]
            => \/ ~Accepts(jar.refresh)
               \/ call[c].since # account.version
               \/ call[c].pc = "waiting" /\ renewal[t].claims # jar.refresh
               \/ call[c].pc = "waiting" /\ jar' = jar
  <1>1. ASSUME Init PROVE KeptInv
    <2>1. \A t \in Tab : GoodRenewal(renewal[t], account.version)
      BY <1>1 DEF Init, GoodRenewal, NoRenewal
    <2>2. \A c \in Call : call[c] = NoCall
      BY <1>1 DEF Init
    <2>3. account.version \in Nat
      BY <1>1 DEF Init
    <2> QED BY <2>1, <2>2, <2>3, GoodNoCall DEF KeptInv
  <1>2. TypeOK /\ CurrentSessionsKnowThePassword /\ KeptInv /\ [Next]_vars => KeptInv'
    BY KeptByNext
  <1>3. ASSUME TypeOK, KeptInv, Next PROVE Steady
    <2> SUFFICES ASSUME NEW c \in Call,
                        call[c].kind \in {"query", "load", "change"},
                        call[c].pc \in {"answered", "waiting"}, call'[c].pc = "idle",
                        signedIn[TabOf[c]], ~signedIn'[TabOf[c]],
                        Accepts(jar.refresh), call[c].since = account.version,
                        call[c].pc = "waiting" => renewal[TabOf[c]].claims = jar.refresh,
                        call[c].pc = "waiting" => jar' # jar
                 PROVE  FALSE
      OBVIOUS
    <2>0. /\ TabOf[c] \in Tab /\ call[c].since \in Nat /\ account.version \in Nat
          /\ renewal[TabOf[c]].since \in Nat
          /\ GoodCall(call[c], renewal[TabOf[c]], account.version)
          /\ GoodRenewal(renewal[TabOf[c]], account.version)
      BY <1>3, KeptTypes DEF KeptInv
    <2>1. CASE \E d \in Call : Receive(d)
      <3>1. PICK d \in Call : Receive(d)
        BY <2>1
      <3>2. /\ signedIn' = [signedIn EXCEPT ![TabOf[d]] = FALSE]
            /\ \/ Says(d, "clear") /\ Settle(d)
               \/ Says(d, "unauthorized") /\ call[d].kind # "login" /\ call[d].retry /\ Settle(d)
        BY <1>3, <2>0, <3>1
           DEF Receive, ReceiveOk, ReceiveCookies, ReceiveCleared, ReceiveRejected,
               ReceiveUnauthorized, LoseAnswer, TypeOK
      <3>3. d = c
        BY <1>3, <3>2 DEF Settle, TypeOK
      <3> QED BY <2>0, <3>2, <3>3 DEF GoodCall, Says
    <2>2. CASE \E t \in Tab : ReceiveRenewal(t)
      <3>1. PICK t \in Tab : ReceiveRenewal(t)
        BY <2>2
      <3>2. GiveUp(t) /\ TabOf[c] = t
        BY <1>3, <2>0, <3>1
           DEF ReceiveRenewal, ReceiveRenewed, ReceiveNotRenewed, LoseRenewal, Repeat, GiveUp, TypeOK
      <3>3. call[c].pc = "waiting"
        BY <3>2 DEF GiveUp, Waiting
      <3>4. ReceiveNotRenewed(t)
        BY <3>1, <3>2, <3>3 DEF ReceiveRenewal, ReceiveRenewed, Repeat, LoseRenewal, Waiting
      <3>5. /\ renewal[t].pc = "answered" /\ renewal[t].result.says = "unauthorized"
            /\ renewal[t].claims # None /\ renewal[t].claims.version = account.version
        BY <3>2, <3>3, <3>4 DEF ReceiveNotRenewed, Accepts
      <3>6. renewal[t].since < account.version
        BY <2>0, <3>2, <3>5 DEF GoodRenewal
      <3> QED BY <2>0, <3>2, <3>3, <3>6 DEF GoodCall
    <2>3. signedIn' # signedIn
      OBVIOUS
    <2> QED
      BY <1>3, <2>1, <2>2, <2>3
         DEF Next, Start, Query, OpenPage, SubmitLogin, SubmitChange, SubmitLogout,
             Serve, Authorize, FindAccount, Login, ChangePassword, Logout, Refresh,
             ResetAdminPassword, ExpireAccess, ExpireRefresh
  <1>4. TypeOK /\ KeptInv /\ [Next]_vars => [Steady]_vars
    BY <1>3
  <1> QED BY <1>1, <1>2, <1>4, TypeCorrect, SessionsKnowThePassword, PTL
          DEF Spec, SteadySessionIsKept

-----------------------------------------------------------------------------
(* The list of appointments                                                *)

\* Every row of the list is one that the arguments select.
RowsSelected(list, k) ==
    \A a \in Appointment : list.items[a] # "absent" => Selected(a, list.items[a], k)

Truthful(c, f) ==
    \A k \in Args : /\ c[k] # Undefined => RowsSelected(c[k], k)
                    /\ f[k] # Undefined => RowsSelected(f[k].list, k)

ShownTruthful == shown # Undefined => RowsSelected(shown.list, shown.args)

\* A claim is answered but not received, or its invalidation waits.
Due(cl, inv) == inv \/ \E a \in Appointment : cl[a] = "answered"

OutdatedIsDue(c, f, cl, fl, inv) ==
    \A k \in Args :
        /\ f[k] # Undefined /\ ~f[k].list.current => Due(cl, inv)
        /\ c[k] # Undefined /\ ~c[k].current => Due(cl, inv) \/ f[k] # Undefined \/ k \in fl

\* The list of the page is there, under way, or failed.
Asked(c, f, fl, k) == c[k] # Undefined \/ f[k] # Undefined \/ k \in fl

ListInv ==
    /\ ListTypeOK
    /\ Truthful(cache, fetch) /\ ShownTruthful
    /\ OutdatedIsDue(cache, fetch, claim, failed, invalid)
    /\ Asked(cache, fetch, failed, args)
    /\ invalid => ~Quiet

\* A request just sent is a fetch of what was asked.
LEMMA SentType ==
  /\ Sent \in Fetch /\ Sent # Undefined /\ Sent.list.current
  /\ \A k \in Args : RowsSelected(Sent.list, k)
  <1>1. IsFiniteSet(Appointment)
    BY ListAssumption
  <1>2. Cardinality(Appointment) \in Nat
    BY <1>1, FS_CardinalityType
  <1>3. Sent \in Fetch
    BY <1>2 DEF Sent, Fetch, List, NoItems, Status
  <1> QED BY <1>3, UndefinedAssumption DEF Sent, RowsSelected, NoItems

\* The arguments of a typed URL and search.
LEMMA ArgsType ==
  ASSUME NEW u \in Url, NEW s \in Term \cup {Undefined}
  PROVE  ArgsOf(u, s) \in Args
  BY DEF ArgsOf, Url, Args

\* An answered list is not Undefined.
LEMMA ListIsSome == /\ \A l \in List : l # Undefined
                    /\ \A r \in Fetch : r # Undefined
                    /\ \A r \in [args: Args, list: List] : r # Undefined
  BY UndefinedAssumption

\* The page opens in the invariant of the list.
LEMMA InitListInv == ListInit => ListInv
  <1> SUFFICES ASSUME ListInit PROVE ListInv
    OBVIOUS
  <1>0. \A f \in Filter : First(f) \in Url
    BY ListAssumption DEF First, Url, Page
  <1>1. url \in Url /\ term \in Term \cup {Undefined} /\ settled \in Term \cup {Undefined}
    BY <1>0 DEF ListInit
  <1>2. args \in Args /\ fetch[args] = Sent
    BY <1>1, ArgsType DEF ListInit, args
  <1>3. ListTypeOK
    <2>1. status \in [Appointment -> Status] /\ moves \in 0..MaxMoves
      BY ListAssumption DEF ListInit, Status
    <2>2. cache \in [Args -> List \cup {Undefined}] /\ fetch \in [Args -> Fetch \cup {Undefined}]
      BY SentType DEF ListInit
    <2>3. /\ claim \in [Appointment -> {"none", "sent", "answered"}]
          /\ failed \subseteq Args /\ invalid \in BOOLEAN /\ shown = Undefined
          /\ late \subseteq Appointment
      BY DEF ListInit
    <2> QED BY <1>1, <2>1, <2>2, <2>3 DEF ListTypeOK
  <1>4. Truthful(cache, fetch) /\ OutdatedIsDue(cache, fetch, claim, failed, invalid)
    BY SentType DEF ListInit, Truthful, OutdatedIsDue
  <1>5. Asked(cache, fetch, failed, args)
    BY <1>2, SentType DEF Asked
  <1> QED BY <1>3, <1>4, <1>5 DEF ListInit, ListInv, ShownTruthful

-----------------------------------------------------------------------------
(* The two ways in which the page changes. *)

\* Remembering the list of the arguments keeps what is on screen typed and true.
LEMMA RenderStep ==
  ASSUME ListInv, NEW c \in [Args -> List \cup {Undefined}], NEW f, NEW k \in Args,
         Truthful(c, f), Render(c, k)
  PROVE  shown' \in [args: Args, list: List] \cup {Undefined} /\ ShownTruthful'
  <1>1. CASE c[k] = Undefined
    BY <1>1 DEF Render, CurrentData, ListInv, ListTypeOK, ShownTruthful, RowsSelected, Selected
  <1>2. CASE c[k] # Undefined
    BY <1>2 DEF Render, CurrentData, Truthful, ShownTruthful, RowsSelected, Selected
  <1> QED BY <1>1, <1>2

\* A change of the arguments.
LEMMA GoStep ==
  ASSUME ListInv, NEW u \in Url, NEW s \in Term \cup {Undefined}, Go(u, s),
         term' \in Term \cup {Undefined}, moves' \in 0..MaxMoves
  PROVE  ListInv'
  <1> DEFINE k == ArgsOf(u, s)
  <1>1. k \in Args /\ args' = k /\ args \in Args
    BY ArgsType DEF Go, args, ListInv, ListTypeOK
  <1>2. UNCHANGED <<status, cache, claim, invalid>>
    BY DEF Go
  <1>3. CASE k = args
    <2>1. UNCHANGED <<fetch, failed, shown>>
      BY <1>3 DEF Go
    <2> QED BY <1>1, <1>2, <1>3, <2>1
        DEF ListInv, ListTypeOK, Go, Truthful, ShownTruthful, OutdatedIsDue, Due, Asked, Quiet,
            QuietWith, RowsSelected, Selected
  <1>4. CASE k # args
    <2>1. fetch' = Request(fetch, k) /\ failed' = failed \ {k} /\ Render(cache, k)
      BY <1>4 DEF Go
    <2>2. /\ fetch' \in [Args -> Fetch \cup {Undefined}]
          /\ fetch'[k] # Undefined
          /\ \A j \in Args : fetch'[j] = fetch[j] \/ (fetch[j] = Undefined /\ fetch'[j] = Sent)
      BY <1>1, <2>1, SentType DEF Request, ListInv, ListTypeOK
    <2> HIDE DEF k
    <2>3. ListTypeOK'
      <3>1. shown' \in [args: Args, list: List] \cup {Undefined}
        BY <1>1, <2>1, RenderStep DEF ListInv, ListTypeOK
      <3> QED BY <1>2, <2>1, <2>2, <3>1 DEF ListInv, ListTypeOK, Go
    <2>4. Truthful(cache', fetch')
      BY <1>2, <2>2, SentType DEF ListInv, Truthful
    <2>5. Truthful(cache, fetch)' /\ ShownTruthful'
      BY <1>1, <2>1, <2>4, RenderStep DEF ListInv, ListTypeOK, Truthful, RowsSelected, Selected
    <2>6. OutdatedIsDue(cache, fetch, claim, failed, invalid)'
      BY <1>2, <2>1, <2>2, SentType DEF ListInv, OutdatedIsDue, Due
    <2>7. Asked(cache, fetch, failed, args)'
      BY <1>1, <2>2 DEF Asked
    <2>8. (invalid => ~Quiet)'
      BY <1>2, <2>2, SentType DEF ListInv, Quiet, QuietWith
    <2> QED BY <2>3, <2>5, <2>6, <2>7, <2>8 DEF ListInv
  <1> QED BY <1>3, <1>4

\* What settles: the cache c, the requests f and cl, what failed and whether an
\* invalidation waits, before After looks at them.
LEMMA AfterStep ==
  ASSUME ListInv,
         NEW c \in [Args -> List \cup {Undefined}], NEW f \in [Args -> Fetch \cup {Undefined}],
         NEW cl \in [Appointment -> {"none", "sent", "answered"}],
         NEW fl \in SUBSET Args, NEW inv \in BOOLEAN,
         Truthful(c, f), OutdatedIsDue(c, f, cl, fl, inv), Asked(c, f, fl, args),
         After(c, f, cl, fl, inv), late' \in SUBSET Appointment,
         UNCHANGED <<status, url, term, settled, moves>>
  PROVE  ListInv'
  <1>1. args \in Args /\ args' = args
    BY ArgsType DEF args, ListInv, ListTypeOK
  <1>2. shown' \in [args: Args, list: List] \cup {Undefined} /\ ShownTruthful'
    BY <1>1, RenderStep DEF After
  <1>3. CASE inv /\ QuietWith(f, cl)
    <2>1. /\ cache' = [k \in Args |-> IF k = args THEN c[k] ELSE Undefined]
          /\ fetch' = [f EXCEPT ![args] = Sent]
          /\ failed' = {} /\ invalid' = FALSE /\ claim' = cl
      BY <1>3 DEF After
    <2>2. /\ cache' \in [Args -> List \cup {Undefined}] /\ fetch' \in [Args -> Fetch \cup {Undefined}]
          /\ fetch'[args] = Sent
          /\ \A k \in Args : /\ cache'[k] # Undefined => k = args /\ cache'[k] = c[k]
                             /\ fetch'[k] # Undefined => k = args
      BY <1>1, <1>3, <2>1, SentType DEF QuietWith
    <2>3. ListTypeOK'
      BY <1>2, <2>1, <2>2 DEF ListInv, ListTypeOK
    <2>4. Truthful(cache, fetch)'
      BY <2>2, SentType DEF Truthful, RowsSelected, Selected
    <2>5. OutdatedIsDue(cache, fetch, claim, failed, invalid)'
      BY <2>2, SentType DEF OutdatedIsDue
    <2>6. Asked(cache, fetch, failed, args)'
      BY <1>1, <2>2, SentType DEF Asked
    <2> QED BY <1>2, <2>1, <2>3, <2>4, <2>5, <2>6 DEF ListInv
  <1>4. CASE ~(inv /\ QuietWith(f, cl))
    <2>1. cache' = c /\ fetch' = f /\ failed' = fl /\ invalid' = inv /\ claim' = cl
      BY <1>4 DEF After
    <2>2. ListTypeOK'
      BY <1>2, <2>1 DEF ListInv, ListTypeOK
    <2>3. Truthful(cache, fetch)'
      BY <2>1 DEF Truthful, RowsSelected, Selected
    <2>4. OutdatedIsDue(cache, fetch, claim, failed, invalid)'
      BY <2>1 DEF OutdatedIsDue, Due
    <2>5. Asked(cache, fetch, failed, args)'
      BY <1>1, <2>1 DEF Asked
    <2> QED BY <1>2, <1>4, <2>1, <2>2, <2>3, <2>4, <2>5 DEF ListInv, Quiet, QuietWith
  <1> QED BY <1>3, <1>4

-----------------------------------------------------------------------------
(* The service. *)

\* The appointments that match can be counted.
LEMMA MatchingIsCounted ==
  ASSUME NEW k \in Args
  PROVE  Cardinality(Matching(k)) \in 0..Cardinality(Appointment)
  <1>1. Matching(k) \subseteq Appointment /\ IsFiniteSet(Appointment)
    BY ListAssumption DEF Matching
  <1>2. /\ Cardinality(Matching(k)) \in Nat /\ Cardinality(Appointment) \in Nat
        /\ Cardinality(Matching(k)) <= Cardinality(Appointment)
    BY <1>1, FS_Subset, FS_CardinalityType
  <1> QED BY <1>2

\* A page holds only what matches.
LEMMA PageItemsType ==
  ASSUME NEW k \in Args, ListTypeOK
  PROVE  /\ PageItems(k) \in [Appointment -> Status]
         /\ \A a \in Appointment : PageItems(k)[a] # "absent" => Selected(a, PageItems(k)[a], k)
  BY DEF PageItems, ListTypeOK, Status, Matching

\* One request goes on; its list stays true and as current as it was.
LEMMA FetchStep ==
  ASSUME ListInv, NEW k \in Args, NEW r \in Fetch, fetch[k] # Undefined,
         fetch' = [fetch EXCEPT ![k] = r], RowsSelected(r.list, k),
         r.list.current = fetch[k].list.current,
         UNCHANGED <<status, url, term, settled, cache, failed, shown, claim, late, invalid, moves>>
  PROVE  ListInv'
  <1>1. r # Undefined
    BY ListIsSome
  <1>2. /\ fetch' \in [Args -> Fetch \cup {Undefined}]
        /\ \A j \in Args : IF j = k THEN fetch'[j] = r ELSE fetch'[j] = fetch[j]
    BY DEF ListInv, ListTypeOK
  <1>3. ListTypeOK'
    BY <1>2 DEF ListInv, ListTypeOK
  <1>4. args' = args /\ args \in Args
    BY ArgsType DEF args, ListInv, ListTypeOK
  <1>5. Truthful(cache, fetch)' /\ ShownTruthful'
    BY <1>2 DEF ListInv, Truthful, ShownTruthful, RowsSelected, Selected
  <1>6. OutdatedIsDue(cache, fetch, claim, failed, invalid)'
    BY <1>1, <1>2 DEF ListInv, OutdatedIsDue, Due
  <1>7. Asked(cache, fetch, failed, args)' /\ (invalid => ~Quiet)'
    BY <1>1, <1>2, <1>4 DEF ListInv, Asked, Quiet, QuietWith
  <1> QED BY <1>3, <1>5, <1>6, <1>7 DEF ListInv

\* The count read keeps the invariant of the list.
LEMMA CountStep ==
  ASSUME ListInv, NEW k \in Args, Count(k)
  PROVE  ListInv'
  <1> DEFINE n == Cardinality(Matching(k))
  <1> DEFINE r == [fetch[k] EXCEPT !.pc = "counted", !.list.total = n]
  <1>1. fetch[k] \in Fetch /\ fetch[k] # Undefined /\ RowsSelected(fetch[k].list, k)
    BY DEF Count, ListInv, ListTypeOK, Truthful
  <1>2. n \in 0..Cardinality(Appointment)
    BY MatchingIsCounted
  <1>3. fetch' = [fetch EXCEPT ![k] = r]
    BY DEF Count
  <1> HIDE DEF n
  <1>4. r \in Fetch /\ r.list.items = fetch[k].list.items /\ r.list.current = fetch[k].list.current
    BY <1>1, <1>2 DEF Fetch, List
  <1>5. RowsSelected(r.list, k)
    BY <1>1, <1>4 DEF RowsSelected
  <1> HIDE DEF r
  <1> QED BY <1>1, <1>3, <1>4, <1>5, FetchStep DEF Count

\* The rows read keep the invariant of the list.
LEMMA ReadItemsStep ==
  ASSUME ListInv, NEW k \in Args, ReadItems(k)
  PROVE  ListInv'
  <1> DEFINE rows == PageItems(k)
  <1> DEFINE r == [fetch[k] EXCEPT !.pc = "answered", !.list.items = rows]
  <1>1. fetch[k] \in Fetch /\ fetch[k] # Undefined
    BY DEF ReadItems, ListInv, ListTypeOK
  <1>2. /\ rows \in [Appointment -> Status]
        /\ \A a \in Appointment : rows[a] # "absent" => Selected(a, rows[a], k)
    BY PageItemsType DEF ListInv
  <1>3. fetch' = [fetch EXCEPT ![k] = r]
    BY DEF ReadItems
  <1> HIDE DEF rows
  <1>4. r \in Fetch /\ r.list.items = rows /\ r.list.current = fetch[k].list.current
    BY <1>1, <1>2 DEF Fetch, List
  <1>5. RowsSelected(r.list, k)
    BY <1>2, <1>4 DEF RowsSelected
  <1> HIDE DEF r
  <1> QED BY <1>1, <1>3, <1>4, <1>5, FetchStep DEF ReadItems

\* A list marked as outdated has the same rows.
LEMMA OutdatedList ==
  ASSUME NEW list \in List
  PROVE  Outdated(list) \in List /\ Outdated(list).items = list.items
  BY DEF Outdated, List

\* A claim served keeps the invariant of the list.
LEMMA ServeClaimStep ==
  ASSUME ListInv, NEW a \in Appointment, ServeClaim(a)
  PROVE  ListInv'
  <1>1. /\ claim' = [claim EXCEPT ![a] = "answered"]
        /\ UNCHANGED <<url, term, settled, failed, late, invalid, moves>>
    BY DEF ServeClaim
  <1>2. /\ claim' \in [Appointment -> {"none", "sent", "answered"}] /\ claim'[a] = "answered"
    BY <1>1 DEF ListInv, ListTypeOK
  <1>3. args' = args /\ args \in Args
    BY <1>1, ArgsType DEF args, ListInv, ListTypeOK
  <1>4. /\ status' \in [Appointment -> Status]
        /\ cache' \in [Args -> List \cup {Undefined}] /\ fetch' \in [Args -> Fetch \cup {Undefined}]
        /\ \A k \in Args :
              /\ cache'[k] = Undefined <=> cache[k] = Undefined
              /\ cache[k] # Undefined => cache'[k].items = cache[k].items
              /\ fetch'[k] = Undefined <=> fetch[k] = Undefined
              /\ fetch[k] # Undefined => fetch'[k].list.items = fetch[k].list.items
    <2>1. CASE status[a] = "PENDING"
      <3>1. /\ status' = [status EXCEPT ![a] = "CONFIRMED"]
            /\ cache' = [k \in Args |-> IF cache[k] = Undefined THEN Undefined ELSE Outdated(cache[k])]
            /\ fetch' = [k \in Args |->
                            IF fetch[k] = Undefined \/ Sent = fetch[k] THEN fetch[k]
                            ELSE [fetch[k] EXCEPT !.list = Outdated(@)]]
        BY <2>1 DEF ServeClaim
      <3>2. \A k \in Args : /\ cache[k] # Undefined => cache[k] \in List
                            /\ fetch[k] # Undefined => fetch[k] \in Fetch /\ fetch[k].list \in List
        BY DEF ListInv, ListTypeOK, Fetch
      <3>3. \A k \in Args : fetch[k] # Undefined =>
                /\ [fetch[k] EXCEPT !.list = Outdated(@)] \in Fetch
                /\ [fetch[k] EXCEPT !.list = Outdated(@)].list.items = fetch[k].list.items
        BY <3>2, OutdatedList DEF Fetch
      <3>4. status' \in [Appointment -> Status]
        BY <3>1 DEF ListInv, ListTypeOK, Status
      <3>5. /\ cache' \in [Args -> List \cup {Undefined}]
            /\ \A k \in Args : /\ cache'[k] = Undefined <=> cache[k] = Undefined
                               /\ cache[k] # Undefined => cache'[k].items = cache[k].items
        BY <3>1, <3>2, OutdatedList, ListIsSome
      <3>6. /\ fetch' \in [Args -> Fetch \cup {Undefined}]
            /\ \A k \in Args :
                  /\ fetch'[k] = Undefined <=> fetch[k] = Undefined
                  /\ fetch[k] # Undefined => fetch'[k].list.items = fetch[k].list.items
        BY <3>1, <3>2, <3>3, ListIsSome
      <3> QED BY <3>4, <3>5, <3>6
    <2>2. CASE status[a] # "PENDING"
      BY <2>2 DEF ServeClaim, ListInv, ListTypeOK
    <2> QED BY <2>1, <2>2
  <1>5. shown' \in [args: Args, list: List] \cup {Undefined} /\ ShownTruthful'
    <2>1. CASE status[a] = "PENDING" /\ shown # Undefined
      <3>1. shown' = [shown EXCEPT !.list = Outdated(@)]
        BY <2>1 DEF ServeClaim
      <3>2. shown \in [args: Args, list: List]
        BY <2>1 DEF ListInv, ListTypeOK
      <3>3. /\ shown' \in [args: Args, list: List] /\ shown'.args = shown.args
            /\ shown'.list.items = shown.list.items
        BY <3>1, <3>2, OutdatedList
      <3> QED BY <2>1, <3>3 DEF ListInv, ShownTruthful, RowsSelected
    <2>2. CASE ~(status[a] = "PENDING" /\ shown # Undefined)
      <3>1. shown' = shown
        BY <2>2 DEF ServeClaim
      <3> QED BY <3>1 DEF ListInv, ListTypeOK, ShownTruthful, RowsSelected
    <2> QED BY <2>1, <2>2
  <1>6. ListTypeOK'
    BY <1>1, <1>2, <1>4, <1>5 DEF ListInv, ListTypeOK
  <1>7. Truthful(cache, fetch)'
    BY <1>4 DEF ListInv, Truthful, RowsSelected
  <1>8. OutdatedIsDue(cache, fetch, claim, failed, invalid)'
    BY <1>2 DEF OutdatedIsDue, Due
  <1>9. Asked(cache, fetch, failed, args)' /\ (invalid => ~Quiet)'
    BY <1>1, <1>2, <1>3, <1>4 DEF ListInv, Asked, Quiet, QuietWith
  <1> QED BY <1>5, <1>6, <1>7, <1>8, <1>9 DEF ListInv

-----------------------------------------------------------------------------
(* What people do, and the answers. *)

\* Steps that leave the lists and the requests for them alone.
LEMMA AsideStep ==
  ASSUME ListInv, ListTypeOK', UNCHANGED <<url, settled, cache, fetch, failed, shown, invalid>>,
         \A a \in Appointment : \/ claim'[a] = claim[a]
                                \/ claim[a] = "none" /\ claim'[a] = "sent"
  PROVE  ListInv'
  <1>1. args' = args
    BY DEF args
  <1>2. Due(claim, invalid) => Due(claim', invalid')
    BY DEF Due
  <1>3. OutdatedIsDue(cache, fetch, claim, failed, invalid)'
    BY <1>2 DEF ListInv, OutdatedIsDue
  <1>4. (invalid => ~Quiet)'
    BY DEF ListInv, Quiet, QuietWith
  <1> QED BY <1>1, <1>3, <1>4 DEF ListInv, Truthful, ShownTruthful, RowsSelected, Asked

\* A list asked for again keeps the invariant.
LEMMA RetryStep ==
  ASSUME ListInv, Retry
  PROVE  ListInv'
  <1>1. args' = args /\ args \in Args
    BY ArgsType DEF Retry, args, ListInv, ListTypeOK
  <1>2. fetch' = [fetch EXCEPT ![args] = Sent] /\ failed' = failed \ {args} /\ fetch[args] = Undefined
    BY DEF Retry, Request, Error
  <1>3. UNCHANGED <<status, url, term, settled, cache, shown, claim, late, invalid>> /\ moves' \in 0..MaxMoves
    BY ListAssumption DEF Retry, Move, ListInv, ListTypeOK
  <1>4. /\ fetch' \in [Args -> Fetch \cup {Undefined}]
        /\ \A k \in Args : IF k = args THEN fetch'[k] = Sent ELSE fetch'[k] = fetch[k]
    BY <1>1, <1>2, SentType DEF ListInv, ListTypeOK
  <1>5. ListTypeOK'
    BY <1>2, <1>3, <1>4 DEF ListInv, ListTypeOK
  <1>6. Truthful(cache, fetch)' /\ ShownTruthful'
    BY <1>3, <1>4, SentType DEF ListInv, Truthful, ShownTruthful, RowsSelected
  <1>7. OutdatedIsDue(cache, fetch, claim, failed, invalid)'
    BY <1>2, <1>3, <1>4, SentType DEF ListInv, OutdatedIsDue, Due
  <1>8. Asked(cache, fetch, failed, args)' /\ (invalid => ~Quiet)'
    BY <1>1, <1>3, <1>4, SentType DEF ListInv, Asked, Quiet, QuietWith
  <1> QED BY <1>5, <1>6, <1>7, <1>8 DEF ListInv

\* The bound on the moves of the user.
LEMMA MoveType == ListInv /\ Move => moves' \in 0..MaxMoves
  BY ListAssumption DEF Move, ListInv, ListTypeOK

\* The total of a list is at least one page.
LEMMA TotalPagesType ==
  ASSUME NEW list \in List, list.total > 0
  PROVE  TotalPages(list) \in Nat \ {0}
  <1>1. list.total \in Nat /\ PageSize \in Nat \ {0}
    BY ListAssumption, FS_CardinalityType DEF List
  <1> DEFINE n == list.total + PageSize - 1
  <1>2. n \in Nat /\ n >= PageSize
    BY <1>1
  <1>3. n \div PageSize >= 1 /\ n \div PageSize \in Nat
    BY <1>1, <1>2
  <1> QED BY <1>1, <1>3 DEF TotalPages

\* Every change of the arguments.
LEMMA ArgumentSteps ==
  ASSUME ListInv,
         \/ \E f \in Filter : SelectFilter(f)
         \/ \E o \in Order : SortBy(o)
         \/ \E p \in Page : GoToPage(p)
         \/ \E u \in Url : Navigate(u)
         \/ SettleTerm \/ ClearSearch \/ ClearFilters \/ CorrectPage
  PROVE  ListInv'
  <1>1. /\ url \in Url /\ term \in Term \cup {Undefined} /\ settled \in Term \cup {Undefined}
        /\ moves \in 0..MaxMoves
    BY DEF ListInv, ListTypeOK
  <1>2. \A f \in Filter : First(f) \in Url
    BY ListAssumption DEF First, Url, Page
  <1>a. url.filter \in Filter /\ AllFilter \in Filter /\ 1 \in Page
    BY <1>1, ListAssumption DEF Url, Page
  <1>b. \A o \in Order : [url EXCEPT !.order = o, !.page = 1] \in Url
    BY <1>1, <1>a DEF Url
  <1>c. \A p \in Page : [url EXCEPT !.page = p] \in Url
    BY <1>1 DEF Url
  <1>3. /\ \A o \in Order : [url EXCEPT !.order = o, !.page = 1] \in Url
        /\ \A p \in Page : [url EXCEPT !.page = p] \in Url
        /\ First(url.filter) \in Url /\ First(AllFilter) \in Url
    BY <1>2, <1>a, <1>b, <1>c
  <1>4. CASE \E f \in Filter : SelectFilter(f)
    BY <1>1, <1>2, <1>4, MoveType, GoStep DEF SelectFilter
  <1>5. CASE \E o \in Order : SortBy(o)
    BY <1>1, <1>3, <1>5, MoveType, GoStep DEF SortBy
  <1>6. CASE \E p \in Page : GoToPage(p)
    BY <1>1, <1>3, <1>6, MoveType, GoStep DEF GoToPage
  <1>7. CASE \E u \in Url : Navigate(u)
    BY <1>1, <1>7, MoveType, GoStep DEF Navigate
  <1>8. CASE SettleTerm
    BY <1>1, <1>3, <1>8, GoStep DEF SettleTerm
  <1>9. CASE ClearSearch
    BY <1>1, <1>3, <1>9, MoveType, GoStep DEF ClearSearch
  <1>10. CASE ClearFilters
    BY <1>1, <1>3, <1>10, MoveType, GoStep DEF ClearFilters
  <1>11. CASE CorrectPage
    <2>1. args \in Args
      BY <1>1, ArgsType DEF args
    <2>2. cache[args] \in List /\ cache[args].total > 0 /\ url.page > TotalPages(cache[args])
      BY <1>11, <2>1 DEF CorrectPage, CurrentData, ListInv, ListTypeOK
    <2>3. TotalPages(cache[args]) \in Page
      BY <1>1, <2>2, TotalPagesType, ListAssumption DEF Page, Url
    <2> QED BY <1>1, <1>3, <1>11, <2>3, GoStep DEF CorrectPage, CurrentData
  <1> QED BY <1>4, <1>5, <1>6, <1>7, <1>8, <1>9, <1>10, <1>11

\* A list received keeps the invariant.
LEMMA ReceiveListStep ==
  ASSUME ListInv, NEW k \in Args, ReceiveList(k)
  PROVE  ListInv'
  <1> DEFINE c == [cache EXCEPT ![k] = fetch[k].list]
  <1> DEFINE f == [fetch EXCEPT ![k] = Undefined]
  <1>1. /\ fetch[k] \in Fetch /\ fetch[k].list \in List /\ fetch[k].list # Undefined
        /\ RowsSelected(fetch[k].list, k)
    BY ListIsSome DEF ReceiveList, ListInv, ListTypeOK, Fetch, Truthful
  <1>2. /\ c \in [Args -> List \cup {Undefined}] /\ f \in [Args -> Fetch \cup {Undefined}]
        /\ c[k] = fetch[k].list /\ f[k] = Undefined
        /\ \A j \in Args \ {k} : c[j] = cache[j] /\ f[j] = fetch[j]
    BY <1>1 DEF ListInv, ListTypeOK
  <1>3. /\ After(c, f, claim, failed \ {k}, invalid)
        /\ UNCHANGED <<status, url, term, settled, moves>> /\ late' \in SUBSET Appointment
    BY DEF ReceiveList, ListInv, ListTypeOK
  <1> HIDE DEF c, f
  <1>4. Truthful(c, f)
    BY <1>1, <1>2 DEF ListInv, Truthful
  <1>5. OutdatedIsDue(c, f, claim, failed \ {k}, invalid)
    <2>1. OutdatedIsDue(cache, fetch, claim, failed, invalid) /\ fetch[k] # Undefined
      BY DEF ListInv, ReceiveList
    <2>2. ~fetch[k].list.current => Due(claim, invalid)
      BY <2>1 DEF OutdatedIsDue
    <2> SUFFICES ASSUME NEW j \in Args
                 PROVE  /\ f[j] # Undefined /\ ~f[j].list.current => Due(claim, invalid)
                        /\ c[j] # Undefined /\ ~c[j].current =>
                             Due(claim, invalid) \/ f[j] # Undefined \/ j \in failed \ {k}
      BY DEF OutdatedIsDue
    <2>3. CASE j = k
      BY <1>2, <2>2, <2>3
    <2>4. CASE j # k
      BY <1>2, <2>1, <2>4 DEF OutdatedIsDue
    <2> QED BY <2>3, <2>4
  <1>6. Asked(c, f, failed \ {k}, args)
    BY <1>1, <1>2, ArgsType DEF ListInv, Asked, args, ListTypeOK
  <1>7. /\ claim \in [Appointment -> {"none", "sent", "answered"}]
        /\ failed \ {k} \in SUBSET Args /\ invalid \in BOOLEAN
    BY DEF ListInv, ListTypeOK
  <1> QED BY <1>2, <1>3, <1>4, <1>5, <1>6, <1>7, AfterStep

\* A request that fails keeps the invariant of the list.
LEMMA FailFetchStep ==
  ASSUME ListInv, NEW k \in Args, FailFetch(k)
  PROVE  ListInv'
  <1> DEFINE f == [fetch EXCEPT ![k] = Undefined]
  <1>1. /\ f \in [Args -> Fetch \cup {Undefined}] /\ f[k] = Undefined
        /\ \A j \in Args \ {k} : f[j] = fetch[j]
    BY DEF ListInv, ListTypeOK
  <1>2. /\ After(cache, f, claim, failed \cup {k}, invalid)
        /\ UNCHANGED <<status, url, term, settled, moves>> /\ late' \in SUBSET Appointment
    BY DEF FailFetch, ListInv, ListTypeOK
  <1> HIDE DEF f
  <1>3. Truthful(cache, f)
    BY <1>1 DEF ListInv, Truthful
  <1>4. OutdatedIsDue(cache, f, claim, failed \cup {k}, invalid)
    BY <1>1 DEF ListInv, OutdatedIsDue
  <1>5. Asked(cache, f, failed \cup {k}, args)
    BY <1>1, ArgsType DEF ListInv, Asked, args, ListTypeOK
  <1>6. /\ claim \in [Appointment -> {"none", "sent", "answered"}]
        /\ failed \cup {k} \in SUBSET Args /\ invalid \in BOOLEAN
        /\ cache \in [Args -> List \cup {Undefined}]
    BY DEF ListInv, ListTypeOK
  <1> QED BY <1>1, <1>2, <1>3, <1>4, <1>5, <1>6, AfterStep

\* The answer of a claim arrives, or does not.
LEMMA ClaimEndStep ==
  ASSUME ListInv, NEW a \in Appointment, ReceiveClaim(a) \/ LoseClaim(a)
  PROVE  ListInv'
  <1> DEFINE cl == [claim EXCEPT ![a] = "none"]
  <1>1. cl \in [Appointment -> {"none", "sent", "answered"}]
    BY DEF ListInv, ListTypeOK
  <1>2. /\ After(cache, fetch, cl, failed, TRUE)
        /\ UNCHANGED <<status, url, term, settled, moves>> /\ late' \in SUBSET Appointment
    BY DEF ReceiveClaim, LoseClaim, Abandon, ListInv, ListTypeOK
  <1> HIDE DEF cl
  <1>3. OutdatedIsDue(cache, fetch, cl, failed, TRUE)
    BY DEF OutdatedIsDue, Due
  <1>4. /\ cache \in [Args -> List \cup {Undefined}] /\ fetch \in [Args -> Fetch \cup {Undefined}]
        /\ failed \in SUBSET Args /\ Truthful(cache, fetch) /\ Asked(cache, fetch, failed, args)
    BY DEF ListInv, ListTypeOK
  <1> QED BY <1>1, <1>2, <1>3, <1>4, AfterStep

\* Every step keeps the invariant of the list.
LEMMA StepListInv == ListInv /\ [ListNext]_listVars => ListInv'
  <1> SUFFICES ASSUME ListInv, [ListNext]_listVars PROVE ListInv'
    OBVIOUS
  <1>1. CASE \/ \E f \in Filter : SelectFilter(f)
             \/ \E o \in Order : SortBy(o)
             \/ \E p \in Page : GoToPage(p)
             \/ \E u \in Url : Navigate(u)
             \/ SettleTerm \/ ClearSearch \/ ClearFilters \/ CorrectPage
    BY <1>1, ArgumentSteps
  <1>2. CASE \E t \in Term \cup {Undefined} : Type(t)
    <2>1. ListTypeOK'
      BY <1>2, MoveType DEF Type, ListInv, ListTypeOK
    <2> QED BY <1>2, <2>1, AsideStep DEF Type
  <1>3. CASE Retry
    BY <1>3, RetryStep
  <1>4. CASE \E a \in Appointment : Claim(a)
    <2>1. PICK a \in Appointment : Claim(a)
      BY <1>4
    <2>2. /\ claim' \in [Appointment -> {"none", "sent", "answered"}]
          /\ \A b \in Appointment : claim'[b] = claim[b] \/ (claim[b] = "none" /\ claim'[b] = "sent")
      BY <2>1 DEF Claim, ListInv, ListTypeOK
    <2>3. ListTypeOK'
      BY <2>1, <2>2, MoveType DEF Claim, ListInv, ListTypeOK
    <2> QED BY <2>1, <2>2, <2>3, AsideStep DEF Claim
  <1>5. CASE Service
    <2>1. ASSUME NEW a \in Appointment, ServeLate(a) PROVE ListInv'
      <3>1. status' \in [Appointment -> Status] /\ late' \in SUBSET Appointment
        BY <2>1 DEF ServeLate, ListInv, ListTypeOK, Status
      <3>2. ListTypeOK'
        BY <2>1, <3>1 DEF ServeLate, ListInv, ListTypeOK
      <3> QED BY <2>1, <3>2, AsideStep DEF ServeLate
    <2> QED BY <1>5, <2>1, CountStep, ReadItemsStep, ServeClaimStep DEF Service
  <1>6. CASE Answers
    BY <1>6, ReceiveListStep, FailFetchStep, ClaimEndStep DEF Answers
  <1>7. CASE OthersAct
    <2>1. status' \in [Appointment -> Status]
      BY <1>7 DEF OthersAct, ListInv, ListTypeOK, Status
    <2>2. ListTypeOK'
      BY <1>7, <2>1, MoveType DEF OthersAct, ListInv, ListTypeOK
    <2> QED BY <1>7, <2>2, AsideStep DEF OthersAct
  <1>8. CASE UNCHANGED listVars
    <2>1. ListTypeOK'
      BY <1>8 DEF listVars, ListInv, ListTypeOK
    <2> QED BY <1>8, <2>1, AsideStep DEF listVars
  <1> QED BY <1>1, <1>2, <1>3, <1>4, <1>5, <1>6, <1>7, <1>8 DEF ListNext

\* The invariant of the page: whatever is answered late, lost or claimed.
THEOREM ListInvariance == ListSpec => []ListInv
  BY InitListInv, StepListInv, PTL DEF ListSpec

\* Every variable keeps its type.
THEOREM ListTypeCorrect == ListSpec => []ListTypeOK
  <1>1. ListInv => ListTypeOK
    BY DEF ListInv
  <1> QED BY <1>1, ListInvariance, PTL

\* No row is ever on screen that the filter or the search on screen would not
\* select (useAppointments.ts:131), for any filters, terms and appointments.
THEOREM RowsBelong == ListSpec => []RowsMatchFilters
  <1>1. ListInv => RowsMatchFilters
    <2> SUFFICES ASSUME ListInv, ~Error, Data # Undefined, NEW a \in Appointment,
                        Data.items[a] # "absent"
                 PROVE  Selected(a, Data.items[a], args)
      BY DEF RowsMatchFilters
    <2>1. args \in Args
      BY ArgsType DEF args, ListInv, ListTypeOK
    <2>2. CASE cache[args] # Undefined
      BY <2>1, <2>2 DEF Data, CurrentData, ListInv, Truthful, RowsSelected
    <2>3. CASE cache[args] = Undefined
      <3>1. Data = shown.list /\ shown # Undefined /\ SameResultSet(shown.args, args)
        BY <2>3 DEF Data, CurrentData
      <3>2. Selected(a, Data.items[a], shown.args)
        BY <3>1 DEF ListInv, ShownTruthful, RowsSelected
      <3> QED BY <3>1, <3>2 DEF SameResultSet, Selected
    <2> QED BY <2>2, <2>3
  <1> QED BY <1>1, ListInvariance, PTL

\* Once nothing is under way, the list shown was read after every claim that the
\* service did while the page waited for it (appointments.api.ts:66), for any
\* number of claims and lost answers.
THEOREM FreshAfter == ListSpec => []FreshAfterClaim
  <1>1. ListInv => FreshAfterClaim
    <2> SUFFICES ASSUME ListInv, Quiet, ~Error, Data # Undefined
                 PROVE  Data.current
      BY DEF FreshAfterClaim
    <2>1. args \in Args
      BY ArgsType DEF args, ListInv, ListTypeOK
    <2>2. fetch[args] = Undefined /\ args \notin failed /\ ~Due(claim, invalid)
      BY <2>1 DEF Error, Quiet, QuietWith, ListInv, Due
    <2>3. cache[args] # Undefined /\ Data = cache[args]
      BY <2>2 DEF ListInv, Asked, Data, CurrentData
    <2> QED BY <2>1, <2>2, <2>3 DEF ListInv, OutdatedIsDue
  <1> QED BY <1>1, ListInvariance, PTL

=============================================================================
