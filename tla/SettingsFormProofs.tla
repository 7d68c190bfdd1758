------------------------- MODULE SettingsFormProofs -------------------------
(***************************************************************************)
(* Proofs about SettingsForm and the service below it, for any number of   *)
(* pages, requests in progress and values, whatever Meta accepts.          *)
(*                                                                         *)
(* SettingsInv is the inductive invariant of the service: the row still    *)
(* holds what a request read, or values Meta has accepted since; what a    *)
(* request writes, it has had accepted.  FormInv is the one of the page:   *)
(* the counter of edits of a secret never returns to a value, so equal     *)
(* signatures stand for equal values.                                      *)
(***************************************************************************)
EXTENDS SettingsForm, TLAPS

-----------------------------------------------------------------------------
(* The service. *)

\* What holds of a request r while the row is w.
CallOK(r, w) ==
    /\ r.pc # "idle" => r.kind # "none"
    /\ r.snap # Absent =>
           w # Absent /\ (Values(w) = r.snap \/ Values(w) \in Accepted)
    /\ r.pc = "read" /\ r.kind \in {"test", "save"} => r.input \in Input
    /\ r.pc \in {"check", "inspect", "write"} =>
           r.kind \in {"test", "save"} /\ r.input \in Input /\ r.snap \in MaybeTriple
    /\ r.pc = "inspect" => Effective(r.input, r.snap) \in Accepted
    /\ r.pc = "write" /\ r.kind = "save" => Effective(r.input, r.snap) \in Accepted
    /\ r.pc = "write" /\ r.kind = "test" =>
           /\ MatchesSaved(r.input, r.snap)
           /\ r.verdict = "ok" => Effective(r.input, r.snap) \in Accepted
    /\ /\ r.pc \in {"notify", "answered"}
       /\ r.kind \in {"get", "pause", "resume"} \/ (r.kind = "save" /\ r.answer.status = "ok")
       => r.answer.view \in Views

SettingsInv ==
    /\ SettingsTypeOK
    /\ SavedWasAccepted
    /\ \A c \in Slot : CallOK(call[c], row)

\* What every step does to the row: its values stay, or are accepted ones.
RowStep ==
    /\ row' \in Row \cup {Absent}
    /\ row # Absent =>
           row' # Absent /\ (Values(row') = Values(row) \/ Values(row') \in Accepted)
    /\ row' # Absent /\ row'.valid = "TRUE" => Values(row') \in Accepted

\* What a call knows stays true when the row changes.
LEMMA CallOKKept ==
  ASSUME SettingsTypeOK, RowStep, NEW r, CallOK(r, row)
  PROVE  CallOK(r, row')
  BY DEF CallOK, RowStep

\* A request changes, and the row with it.
LEMMA CallStep ==
  ASSUME SettingsInv, RowStep, NEW c \in Slot, NEW r \in Call, CallOK(r, row'),
         call' = [call EXCEPT ![c] = r]
  PROVE  SettingsInv'
  <1>1. SettingsTypeOK'
    BY DEF SettingsInv, SettingsTypeOK, RowStep
  <1>2. SavedWasAccepted'
    BY DEF SavedWasAccepted, RowStep
  <1>3. \A d \in Slot : CallOK(call'[d], row')
    <2> SUFFICES ASSUME NEW d \in Slot
                 PROVE  CallOK(call'[d], row')
      OBVIOUS
    <2>1. CASE d = c
      BY <2>1 DEF SettingsInv, SettingsTypeOK
    <2>2. CASE d # c
      BY <2>2, CallOKKept DEF SettingsInv, SettingsTypeOK
    <2> QED BY <2>1, <2>2
  <1> QED BY <1>1, <1>2, <1>3 DEF SettingsInv

\* The row stays, is created, or changes what CallOK does not look at.
LEMMA RowStays ==
  ASSUME SettingsInv, row' = row
  PROVE  RowStep
  BY DEF SettingsInv, SettingsTypeOK, SavedWasAccepted, RowStep

\* The row read, or made when there is none.
LEMMA RowEnsured ==
  ASSUME SettingsInv
  PROVE  /\ EnsuredRow \in Row /\ View(EnsuredRow) \in Views
         /\ Values(EnsuredRow) \in MaybeTriple
         /\ row # Absent => EnsuredRow = row
         /\ EnsuredRow.valid = "TRUE" => Values(EnsuredRow) \in Accepted
  BY SettingsAssumption DEF SettingsInv, SettingsTypeOK, SavedWasAccepted, EnsuredRow, Row,
     FreshRow, NoValues, View, Views, Values, MaybeTriple

\* A row paused or resumed keeps its credentials.
LEMMA RowPaused ==
  ASSUME SettingsInv, NEW b \in BOOLEAN,
         row' \in {EnsuredRow, [EnsuredRow EXCEPT !.paused = b]}
  PROVE  /\ RowStep /\ row' \in Row /\ View(row') \in Views
         /\ Values(row') = Values(EnsuredRow)
  <1>1. row' \in Row /\ Values(row') = Values(EnsuredRow) /\ row'.valid = EnsuredRow.valid
    BY RowEnsured DEF Row, Values
  <1>2. View(row') \in Views
    BY <1>1 DEF Row, View, Views
  <1> QED BY <1>1, <1>2, RowEnsured, SettingsAssumption DEF RowStep

\* The answers there are.
LEMMA Answers ==
  /\ \A s \in {"ok", "refused", "badRequest", "none"} :
         Says(s) \in Answer /\ Says(s).status = s
  /\ NoAnswer \in Answer /\ NoAnswer.status = "none"
  /\ \A r : View(r) \in Views => /\ Shows(r) \in Answer /\ Shows(r).view = View(r)
  BY DEF Says, Shows, Answer, NoAnswer

\* What is left of a request when its answer is ready, or sent.
Ended(c, pc, answer) ==
    [NoCall EXCEPT !.kind = call[c].kind, !.pc = pc, !.answer = answer]

\* A call that ends has an answer of its kind.
LEMMA EndedOK ==
  ASSUME SettingsTypeOK, NEW c \in Slot, NEW pc \in {"notify", "answered"},
         NEW answer \in Answer, NEW w, call[c].kind # "none",
         \/ answer.view \in Views
         \/ call[c].kind = "test"
         \/ call[c].kind = "save" /\ answer.status # "ok"
  PROVE  Ended(c, pc, answer) \in Call /\ CallOK(Ended(c, pc, answer), w)
  <1>1. call[c].kind \in Kinds
    BY DEF SettingsTypeOK, Call
  <1>2. NoCall \in Call
    BY Answers DEF NoCall, Call, Kinds, Steps
  <1>3. Ended(c, pc, answer) \in Call
    BY <1>1, <1>2 DEF Ended, Call, Steps
  <1>4. /\ Ended(c, pc, answer).kind = call[c].kind /\ Ended(c, pc, answer).pc = pc
        /\ Ended(c, pc, answer).snap = Absent /\ Ended(c, pc, answer).answer = answer
    BY DEF Ended, NoCall
  <1> HIDE DEF Ended
  <1> QED BY <1>3, <1>4 DEF CallOK

\* A call that ends keeps the invariant of the settings.
LEMMA FinishStep ==
  ASSUME SettingsInv, RowStep, NEW c \in Slot, NEW answer \in Answer, Finish(c, answer),
         call[c].kind # "none",
         \/ answer.view \in Views
         \/ call[c].kind = "test"
         \/ call[c].kind = "save" /\ answer.status # "ok"
  PROVE  SettingsInv'
  <1>1. call' = [call EXCEPT ![c] = Ended(c, "answered", answer)]
    BY DEF Finish, Ended
  <1> QED BY <1>1, CallStep, EndedOK DEF SettingsInv

\* A request arrives with an input of the right kind.
LEMMA BeginStep ==
  ASSUME SettingsInv, NEW c \in Slot, NEW kind \in Kinds \ {"none"}, NEW input,
         kind \in {"test", "save"} => input \in Input,
         kind \notin {"test", "save"} => input = Absent,
         Begin(c, kind, input)
  PROVE  SettingsInv'
  <1> DEFINE r == [NoCall EXCEPT !.kind = kind, !.pc = "read", !.input = input]
  <1>1. NoCall \in Call
    BY Answers DEF NoCall, Call, Kinds, Steps
  <1>2. r \in Call
    BY <1>1 DEF Call, Steps
  <1>3. r.kind = kind /\ r.pc = "read" /\ r.input = input /\ r.snap = Absent
    BY DEF NoCall
  <1>4. call' = [call EXCEPT ![c] = r] /\ row' = row
    BY DEF Begin
  <1> HIDE DEF r
  <1>5. CallOK(r, row')
    BY <1>3 DEF CallOK
  <1> QED BY <1>2, <1>4, <1>5, CallStep, RowStays

\* A call let go keeps the invariant of the settings.
LEMMA ReleaseStep ==
  ASSUME SettingsInv, NEW c \in Slot, Release(c)
  PROVE  SettingsInv'
  <1>1. NoCall \in Call /\ NoCall.pc = "idle" /\ NoCall.snap = Absent
    BY Answers DEF NoCall, Call, Kinds, Steps
  <1>2. CallOK(NoCall, row')
    BY <1>1 DEF CallOK
  <1> QED BY <1>1, <1>2, CallStep, RowStays DEF Release

\* Each step of the service.
LEMMA GetStep ==
  ASSUME SettingsInv, NEW c \in Slot, Get(c)
  PROVE  SettingsInv'
  <1>1. row' = EnsuredRow /\ Finish(c, Shows(EnsuredRow)) /\ call[c].kind = "get"
    BY DEF Get
  <1>2. RowStep /\ View(EnsuredRow) \in Views
    BY <1>1, RowPaused, RowEnsured
  <1> QED BY <1>1, <1>2, Answers, FinishStep

\* Pause and resume keep the invariant of the settings.
LEMMA SetAutoReplyPausedStep ==
  ASSUME SettingsInv, NEW c \in Slot, SetAutoReplyPaused(c)
  PROVE  SettingsInv'
  <1>1. row' = [EnsuredRow EXCEPT !.paused = (call[c].kind = "pause")]
    BY DEF SetAutoReplyPaused
  <1>2. RowStep /\ View(row') \in Views
    BY <1>1, RowPaused
  <1>3. Finish(c, Shows(row'))
    BY <1>1 DEF SetAutoReplyPaused
  <1>4. call[c].kind # "none"
    BY DEF SetAutoReplyPaused
  <1> QED BY <1>2, <1>3, <1>4, Answers, FinishStep

\* The values read for a test keep the invariant of the settings.
LEMMA PrepareCheckStep ==
  ASSUME SettingsInv, NEW c \in Slot, PrepareCheck(c)
  PROVE  SettingsInv'
  <1>1. /\ call[c] \in Call /\ CallOK(call[c], row)
        /\ call[c].pc = "read" /\ call[c].kind \in {"test", "save"} /\ row' = EnsuredRow
    BY DEF SettingsInv, SettingsTypeOK, PrepareCheck
  <1>2. RowStep /\ row' \in Row /\ Values(row') \in MaybeTriple
    BY <1>1, RowPaused, RowEnsured
  <1>3. CASE Finish(c, Says("badRequest"))
    <2>1. Says("badRequest") \in Answer /\ Says("badRequest").status = "badRequest"
      BY Answers
    <2> QED BY <1>1, <1>2, <1>3, <2>1, FinishStep
  <1>4. CASE call' = [call EXCEPT ![c].pc = "check", ![c].snap = Values(EnsuredRow)]
    <2> DEFINE r == [call[c] EXCEPT !.pc = "check", !.snap = Values(EnsuredRow)]
    <2>1. r \in Call
      BY <1>1, <1>2 DEF Call, Steps
    <2>2. /\ r.pc = "check" /\ r.kind = call[c].kind /\ r.input = call[c].input
          /\ r.snap = Values(row')
      BY <1>1 DEF Call
    <2>3. call' = [call EXCEPT ![c] = r]
      BY <1>4
    <2> HIDE DEF r
    <2>4. CallOK(r, row')
      BY <1>1, <1>2, <2>2, SettingsAssumption DEF CallOK
    <2> QED BY <1>2, <2>1, <2>3, <2>4, CallStep
  <1> QED BY <1>3, <1>4 DEF PrepareCheck

\* The test of a connection keeps the invariant of the settings.
LEMMA CheckConnectionStep ==
  ASSUME SettingsInv, NEW c \in Slot, CheckConnection(c)
  PROVE  SettingsInv'
  <1>1. /\ call[c] \in Call /\ CallOK(call[c], row) /\ row' = row /\ RowStep
        /\ call[c].pc = "check" /\ call[c].kind \in {"test", "save"}
    BY RowStays DEF SettingsInv, SettingsTypeOK, CheckConnection, CallOK
  <1>2. CASE Finish(c, Says("refused"))
    <2>1. Says("refused") \in Answer /\ Says("refused").status = "refused"
      BY Answers
    <2> QED BY <1>1, <1>2, <2>1, FinishStep
  <1>3. CASE /\ Effective(call[c].input, call[c].snap) \in Accepted
             /\ call' = [call EXCEPT ![c].pc = "inspect", ![c].verdict = "ok"]
    <2> DEFINE r == [call[c] EXCEPT !.pc = "inspect", !.verdict = "ok"]
    <2>1. r \in Call
      BY <1>1 DEF Call, Steps
    <2>2. /\ r.pc = "inspect" /\ r.kind = call[c].kind /\ r.input = call[c].input
          /\ r.snap = call[c].snap
      BY <1>1 DEF Call
    <2>3. call' = [call EXCEPT ![c] = r]
      BY <1>3
    <2> HIDE DEF r
    <2>4. CallOK(r, row')
      BY <1>1, <1>3, <2>2 DEF CallOK
    <2> QED BY <1>1, <2>1, <2>3, <2>4, CallStep
  <1>4. CASE /\ call[c].kind = "test" /\ MatchesSaved(call[c].input, call[c].snap)
             /\ call' = [call EXCEPT ![c].pc = "write", ![c].verdict = "definitive"]
    <2> DEFINE r == [call[c] EXCEPT !.pc = "write", !.verdict = "definitive"]
    <2>1. r \in Call
      BY <1>1 DEF Call, Steps
    <2>2. /\ r.pc = "write" /\ r.kind = "test" /\ r.input = call[c].input
          /\ r.snap = call[c].snap /\ r.verdict = "definitive"
      BY <1>1, <1>4 DEF Call
    <2>3. call' = [call EXCEPT ![c] = r]
      BY <1>4
    <2> HIDE DEF r
    <2>4. CallOK(r, row')
      BY <1>1, <1>4, <2>2 DEF CallOK
    <2> QED BY <1>1, <2>1, <2>3, <2>4, CallStep
  <1> QED BY <1>2, <1>3, <1>4 DEF CheckConnection

\* The answer of Meta keeps the invariant of the settings.
LEMMA InspectStep ==
  ASSUME SettingsInv, NEW c \in Slot, InspectAccessToken(c)
  PROVE  SettingsInv'
  <1> DEFINE tested == Effective(call[c].input, call[c].snap).token
  <1>1. /\ call[c] \in Call /\ CallOK(call[c], row) /\ row' = row /\ RowStep
        /\ call[c].pc = "inspect" /\ call[c].kind \in {"test", "save"}
        /\ tested \in Tokens
    BY RowStays, SettingsAssumption
       DEF SettingsInv, SettingsTypeOK, InspectAccessToken, CallOK, Triple
  <1>2. CASE Finish(c, Says("ok")) /\ call[c].kind = "test"
    <2>1. Says("ok") \in Answer
      BY Answers
    <2> QED BY <1>1, <1>2, <2>1, FinishStep
  <1>3. CASE /\ call[c].kind = "save" \/ MatchesSaved(call[c].input, call[c].snap)
             /\ \E lifetime \in {tested, Absent} :
                    call' = [call EXCEPT ![c].pc = "write", ![c].lifetime = lifetime]
    <2>1. PICK lifetime \in {tested, Absent} :
              call' = [call EXCEPT ![c].pc = "write", ![c].lifetime = lifetime]
      BY <1>3
    <2> DEFINE r == [call[c] EXCEPT !.pc = "write", !.lifetime = lifetime]
    <2>2. r \in Call
      BY <1>1 DEF Call, Steps
    <2>3. /\ r.pc = "write" /\ r.kind = call[c].kind /\ r.input = call[c].input
          /\ r.snap = call[c].snap
      BY <1>1 DEF Call
    <2>4. call' = [call EXCEPT ![c] = r]
      BY <2>1
    <2> HIDE DEF r, tested
    <2>5. CallOK(r, row')
      BY <1>1, <1>3, <2>3 DEF CallOK
    <2> QED BY <1>1, <2>2, <2>4, <2>5, CallStep
  <1> QED BY <1>1, <1>2, <1>3 DEF InspectAccessToken

\* A result recorded keeps the invariant of the settings.
LEMMA RecordStep ==
  ASSUME SettingsInv, NEW c \in Slot, RecordCredentialsCheck(c)
  PROVE  SettingsInv'
  <1>1. /\ call[c] \in Call /\ CallOK(call[c], row) /\ row \in Row
        /\ call[c].pc = "write" /\ call[c].kind = "test"
        /\ row' = CheckedRow(row, call[c].verdict, call[c].lifetime)
    BY SettingsAssumption DEF SettingsInv, SettingsTypeOK, RecordCredentialsCheck, CallOK
  <1>2. /\ row' \in Row /\ Values(row') = Values(row)
        /\ row'.valid = "TRUE" => call[c].verdict = "ok"
    BY <1>1 DEF CheckedRow, Row, Values, Call
  <1>3. call[c].verdict = "ok" => Values(row) \in Accepted
    <2>1. /\ MatchesSaved(call[c].input, call[c].snap) /\ call[c].snap \in MaybeTriple
          /\ Values(row) = call[c].snap \/ Values(row) \in Accepted
      BY <1>1, SettingsAssumption DEF CallOK
    <2>2. Effective(call[c].input, call[c].snap) = call[c].snap
      BY <2>1 DEF MatchesSaved, Effective, MaybeTriple
    <2> QED BY <1>1, <2>1, <2>2 DEF CallOK
  <1>4. RowStep
    BY <1>1, <1>2, <1>3, SettingsAssumption DEF RowStep
  <1>5. \E status \in {"ok", "refused"} : Finish(c, Says(status))
    BY DEF RecordCredentialsCheck
  <1> QED BY <1>1, <1>4, <1>5, Answers, FinishStep

\* A saved row holds what was tested.
LEMMA SavedRowHolds ==
  ASSUME NEW r \in Row, NEW v \in Triple, NEW input,
         NEW lifetime \in Tokens \cup {Absent}
  PROVE  /\ SavedRow(r, v, input, lifetime) \in Row
         /\ Values(SavedRow(r, v, input, lifetime)) = v
  BY DEF SavedRow, Row, Values, Triple

\* What the panel sees of a row is a view.
LEMMA ViewOfRow ==
  ASSUME NEW r \in Row
  PROVE  View(r) \in Views
  BY DEF View, Views, Row

\* Values saved keep the invariant of the settings.
LEMMA SaveStep ==
  ASSUME SettingsInv, NEW c \in Slot, SaveCredentials(c)
  PROVE  SettingsInv'
  <1>1. /\ call[c] \in Call /\ CallOK(call[c], row) /\ row \in Row
        /\ call[c].pc = "write" /\ call[c].kind = "save"
        /\ Effective(call[c].input, call[c].snap) \in Accepted
    BY SettingsAssumption DEF SettingsInv, SettingsTypeOK, SaveCredentials, CallOK
  <1>2. Effective(call[c].input, call[c].snap) \in Triple
        /\ call[c].lifetime \in Tokens \cup {Absent}
    BY <1>1, SettingsAssumption DEF Call
  <1>3. row' = SavedRow(row, Effective(call[c].input, call[c].snap), call[c].input,
                        call[c].lifetime)
    BY DEF SaveCredentials
  <1>4. row' \in Row /\ Values(row') \in Accepted
    BY <1>1, <1>2, <1>3, SavedRowHolds
  <1>5. RowStep
    BY <1>4, SettingsAssumption DEF RowStep
  <1>6. Shows(row') \in Answer /\ Shows(row').view \in Views
    BY <1>4, ViewOfRow, Answers
  <1>7. call' = [call EXCEPT ![c] = Ended(c, "notify", Shows(row'))]
    BY <1>1, <1>3 DEF SaveCredentials, Ended
  <1> QED BY <1>1, <1>5, <1>6, <1>7, CallStep, EndedOK DEF SettingsInv

\* The notice to the gateway keeps the invariant of the settings.
LEMMA NotifyStep ==
  ASSUME SettingsInv, NEW c \in Slot, NotifyGateway(c)
  PROVE  SettingsInv'
  <1> DEFINE r == [call[c] EXCEPT !.pc = "answered"]
  <1>1. /\ call[c] \in Call /\ CallOK(call[c], row) /\ row' = row /\ RowStep
        /\ call[c].pc = "notify"
    BY RowStays DEF SettingsInv, SettingsTypeOK, NotifyGateway
  <1>2. r \in Call
    BY <1>1 DEF Call, Steps
  <1>3. /\ r.pc = "answered" /\ r.kind = call[c].kind /\ r.snap = call[c].snap
        /\ r.answer = call[c].answer
    BY <1>1 DEF Call
  <1>4. call' = [call EXCEPT ![c] = r]
    BY DEF NotifyGateway
  <1> HIDE DEF r
  <1>5. CallOK(r, row')
    BY <1>1, <1>3 DEF CallOK
  <1> QED BY <1>1, <1>2, <1>4, <1>5, CallStep

\* Every step of a request keeps the invariant of the settings.
LEMMA ServeStep ==
  ASSUME SettingsInv, NEW c \in Slot, Serve(c)
  PROVE  SettingsInv'
  BY GetStep, SetAutoReplyPausedStep, PrepareCheckStep, CheckConnectionStep, InspectStep,
     RecordStep, SaveStep, NotifyStep DEF Serve

\* Other windows keep the invariant of the settings.
LEMMA OthersStep ==
  ASSUME SettingsInv, OtherWindowSaves
  PROVE  SettingsInv'
  <1>1. PICK v \in OthersSave \cap Accepted, known \in BOOLEAN :
            row' = SavedRow(EnsuredRow, v, v, IF known THEN v.token ELSE Absent)
    BY DEF OtherWindowSaves
  <1>2. v \in Triple /\ (IF known THEN v.token ELSE Absent) \in Tokens \cup {Absent}
    BY <1>1, SettingsAssumption DEF Triple
  <1>3. row' \in Row /\ Values(row') \in Accepted
    BY <1>1, <1>2, SavedRowHolds, RowEnsured
  <1>4. RowStep /\ call' = call
    BY <1>3, SettingsAssumption DEF RowStep, OtherWindowSaves
  <1>5. SettingsTypeOK' /\ SavedWasAccepted'
    BY <1>4 DEF SettingsInv, SettingsTypeOK, SavedWasAccepted, RowStep
  <1>6. \A c \in Slot : CallOK(call'[c], row')
    BY <1>4, CallOKKept DEF SettingsInv
  <1> QED BY <1>5, <1>6 DEF SettingsInv

-----------------------------------------------------------------------------
(* The page. *)

\* What a kept signature o.sig says of the values o.values beside it, given the
\* draft d and the edits rev made so far.
Fits(o, d, rev) ==
    /\ o.sig.ids = o.values.ids
    /\ o.sig.token = 0 <=> o.values.token = Absent
    /\ o.sig.secret = 0 <=> o.values.secret = Absent
    /\ o.sig.token <= rev.token /\ o.sig.secret <= rev.secret
    /\ o.sig.token = rev.token /\ o.sig.token # 0 /\ d.token # Absent
           => o.values.token = d.token
    /\ o.sig.secret = rev.secret /\ o.sig.secret # 0 /\ d.secret # Absent
           => o.values.secret = d.secret

\* What holds of a page, with the kinds of its two requests.
PageOK(form, switch, v, d, rev, st, se, ask) ==
    /\ form \in {"none", "get", "test", "save"} /\ switch \in {"none", "pause", "resume"}
    /\ form \in {"test", "save"} \/ switch # "none" \/ ask => v # Absent
    /\ form \in {"test", "save"} => se # Absent
    /\ se # Absent => Fits(se, d, rev) /\ se.values \in Input
    /\ st # Absent => Fits(st, d, rev) /\ (st.ok => st.values \in Input)
    /\ d.token # Absent => rev.token > 0
    /\ d.secret # Absent => rev.secret > 0

FormOK(p) ==
    PageOK(call[FormOf[p]].kind, call[SwitchOf[p]].kind, view[p], draft[p], revision[p],
           stored[p], sent[p], asking[p])

FormInv ==
    /\ SettingsInv
    /\ TypeOK
    /\ \A p \in Page : FormOK(p)

\* Nothing of page q changes that FormOK looks at.
Same(q) ==
    /\ call'[FormOf[q]].kind = call[FormOf[q]].kind
    /\ call'[SwitchOf[q]].kind = call[SwitchOf[q]].kind
    /\ view'[q] = view[q] /\ draft'[q] = draft[q] /\ revision'[q] = revision[q]
    /\ stored'[q] = stored[q] /\ sent'[q] = sent[q] /\ asking'[q] = asking[q]

\* A page that nothing touched keeps its part of the invariant.
LEMMA SameKept ==
  ASSUME NEW q \in Page, FormOK(q), Same(q)
  PROVE  FormOK(q)'
  BY DEF FormOK, Same

\* One page changes.
LEMMA PageStep ==
  ASSUME FormInv, NEW p \in Page, SettingsInv', TypeOK', FormOK(p)',
         \A q \in Page \ {p} : Same(q)
  PROVE  FormInv'
  BY SameKept DEF FormInv

\* The slots are told apart.
LEMMA Slots ==
  ASSUME NEW p \in Page
  PROVE  /\ FormOf[p] \in Slot /\ SwitchOf[p] \in Slot
         /\ \A q \in Page : FormOf[p] # SwitchOf[q]
         /\ \A q \in Page \ {p} : FormOf[p] # FormOf[q] /\ SwitchOf[p] # SwitchOf[q]
  BY FormAssumption

\* What a step of the requests does to their kinds.
LEMMA BeginKinds ==
  ASSUME SettingsTypeOK, NEW c \in Slot, NEW kind, NEW input, Begin(c, kind, input)
  PROVE  call'[c].kind = kind /\ \A d \in Slot \ {c} : call'[d] = call[d]
  BY DEF Begin, NoCall, SettingsTypeOK

\* A call let go is free, and the others are as they were.
LEMMA ReleaseKinds ==
  ASSUME SettingsTypeOK, NEW c \in Slot, Release(c)
  PROVE  call'[c].kind = "none" /\ \A d \in Slot \ {c} : call'[d] = call[d]
  BY DEF Release, NoCall, SettingsTypeOK

\* A request served stays of its kind.
LEMMA ServeKinds ==
  ASSUME SettingsTypeOK, NEW c \in Slot, Serve(c)
  PROVE  \A d \in Slot : call'[d].kind = call[d].kind
  <1>1. ASSUME NEW answer, Finish(c, answer)
        PROVE  \A d \in Slot : call'[d].kind = call[d].kind
    BY <1>1 DEF Finish, NoCall, SettingsTypeOK
  <1>2. CASE Get(c) \/ SetAutoReplyPaused(c)
    BY <1>1, <1>2 DEF Get, SetAutoReplyPaused
  <1>3. CASE PrepareCheck(c)
    BY <1>1, <1>3 DEF PrepareCheck, SettingsTypeOK, Call
  <1>4. CASE CheckConnection(c)
    BY <1>1, <1>4 DEF CheckConnection, SettingsTypeOK, Call
  <1>5. CASE InspectAccessToken(c)
    BY <1>1, <1>5 DEF InspectAccessToken, SettingsTypeOK, Call
  <1>6. CASE RecordCredentialsCheck(c)
    BY <1>1, <1>6 DEF RecordCredentialsCheck
  <1>7. CASE SaveCredentials(c)
    BY <1>7 DEF SaveCredentials, NoCall, SettingsTypeOK, Call
  <1>8. CASE NotifyGateway(c)
    BY <1>8 DEF NotifyGateway, SettingsTypeOK, Call
  <1> QED BY <1>2, <1>3, <1>4, <1>5, <1>6, <1>7, <1>8 DEF Serve

\* Without a step of the service its invariant stays.
LEMMA SettingsStay ==
  ASSUME SettingsInv, UNCHANGED <<row, call>>
  PROVE  SettingsInv'
  BY DEF SettingsInv, SettingsTypeOK, SavedWasAccepted

\* The types of what a page keeps.
LEMMA PageTypes ==
  ASSUME FormInv, NEW p \in Page
  PROVE  /\ view[p] \in Views \cup {Absent} /\ draft[p] \in Typed
         /\ revision[p] \in [token: 0..MaxRevision, secret: 0..MaxRevision]
         /\ stored[p] \in Outcome \cup {Absent} /\ sent[p] \in Request \cup {Absent}
         /\ FormOK(p) /\ SettingsInv /\ SettingsTypeOK
  BY DEF FormInv, TypeOK, SettingsInv

\* The values of the form fit their signature.
LEMMA CurrentFits ==
  ASSUME FormInv, NEW p \in Page, view[p] # Absent
  PROVE  /\ CurrentRequest(p) \in Request
         /\ Fits(CurrentRequest(p), draft[p], revision[p])
         /\ CurrentRequest(p).values = InputOf(p) /\ CurrentRequest(p).sig = SignatureOf(p)
  <1>1. /\ draft[p] \in Typed /\ view[p] \in Views /\ MaxRevision \in Nat
        /\ revision[p] \in [token: 0..MaxRevision, secret: 0..MaxRevision]
        /\ draft[p].token # Absent => revision[p].token > 0
        /\ draft[p].secret # Absent => revision[p].secret > 0
    BY PageTypes, FormAssumption DEF FormOK, PageOK
  <1>2. IdsShown(p) \in Ids \cup {Absent}
    BY <1>1 DEF IdsShown, Typed, Views
  <1>3. SignatureOf(p) \in Signature /\ InputOf(p) \in Typed
    BY <1>1, <1>2 DEF SignatureOf, Signature, InputOf, Typed
  <1>4. /\ CurrentRequest(p) \in Request
        /\ CurrentRequest(p).values = InputOf(p) /\ CurrentRequest(p).sig = SignatureOf(p)
    BY <1>3 DEF CurrentRequest, Request
  <1>5. /\ SignatureOf(p).ids = InputOf(p).ids
        /\ InputOf(p).token = draft[p].token /\ InputOf(p).secret = draft[p].secret
        /\ SignatureOf(p).token = IF draft[p].token = Absent THEN 0 ELSE revision[p].token
        /\ SignatureOf(p).secret = IF draft[p].secret = Absent THEN 0 ELSE revision[p].secret
    BY DEF SignatureOf, InputOf
  <1> QED BY <1>1, <1>4, <1>5 DEF Fits

\* Equal signatures stand for equal values.
LEMMA SignatureTells ==
  ASSUME FormInv, NEW p \in Page, stored[p] # Absent, stored[p].sig = SignatureOf(p),
         view[p] # Absent
  PROVE  stored[p].values = InputOf(p)
  <1>1. /\ stored[p] \in Outcome /\ draft[p] \in Typed
        /\ Fits(stored[p], draft[p], revision[p])
        /\ revision[p] \in [token: 0..MaxRevision, secret: 0..MaxRevision]
        /\ MaxRevision \in Nat
        /\ draft[p].token # Absent => revision[p].token > 0
        /\ draft[p].secret # Absent => revision[p].secret > 0
    BY PageTypes, FormAssumption DEF FormOK, PageOK
  <1>2. InputOf(p) \in Typed
    BY CurrentFits DEF Request, CurrentRequest
  <1>3. stored[p].values \in Typed
    BY <1>1 DEF Outcome
  <1>4. stored[p].values.ids = InputOf(p).ids
    BY <1>1 DEF Fits, SignatureOf, InputOf
  <1>5. stored[p].values.token = InputOf(p).token
    BY <1>1 DEF Fits, SignatureOf, InputOf
  <1>6. stored[p].values.secret = InputOf(p).secret
    BY <1>1 DEF Fits, SignatureOf, InputOf
  <1> QED BY <1>2, <1>3, <1>4, <1>5, <1>6 DEF Typed

\* Only the draft, its edits and the kept result change.
LEMMA EditStep ==
  ASSUME FormInv, NEW p \in Page, Edit(p)
  PROVE  FormInv'
  <1>1. SettingsInv' /\ UNCHANGED <<row, call, view, sent, asking>>
    BY SettingsStay DEF Edit, EditIds, EditToken, EditSecret, Discard, FormInv
  <1>2. /\ draft[p] \in Typed /\ FormOK(p) /\ MaxRevision \in Nat
        /\ revision[p] \in [token: 0..MaxRevision, secret: 0..MaxRevision]
        /\ sent[p] # Absent => sent[p] \in Request
        /\ stored[p] # Absent => stored[p] \in Outcome
    BY PageTypes, FormAssumption
  <1>3. TypeOK'
    <2>1. SettingsTypeOK'
      BY <1>1 DEF SettingsInv
    <2>2. EmptyDraft \in Typed
      BY DEF EmptyDraft, Typed
    <2>3. draft' \in [Page -> Typed]
      <3>1. draft \in [Page -> Typed]
        BY DEF FormInv, TypeOK
      <3>2. CASE EditIds(p)
        <4>1. PICK ids \in Ids : draft' = [draft EXCEPT ![p].ids = ids]
          BY <3>2 DEF EditIds
        <4>2. [draft[p] EXCEPT !.ids = ids] \in Typed
          BY <1>2 DEF Typed
        <4> QED BY <3>1, <4>1, <4>2
      <3>3. CASE EditToken(p)
        <4>1. PICK value \in Tokens \cup {Absent, Blank} :
                  draft' = [draft EXCEPT ![p].token = value]
          BY <3>3 DEF EditToken
        <4>2. [draft[p] EXCEPT !.token = value] \in Typed
          BY <1>2 DEF Typed
        <4> QED BY <3>1, <4>1, <4>2
      <3>4. CASE EditSecret(p)
        <4>1. PICK value \in Secrets \cup {Absent, Blank} :
                  draft' = [draft EXCEPT ![p].secret = value]
          BY <3>4 DEF EditSecret
        <4>2. [draft[p] EXCEPT !.secret = value] \in Typed
          BY <1>2 DEF Typed
        <4> QED BY <3>1, <4>1, <4>2
      <3>5. CASE Discard(p)
        BY <2>2, <3>1, <3>5 DEF Discard
      <3> QED BY <3>2, <3>3, <3>4, <3>5 DEF Edit
    <2>4. revision' \in [Page -> [token: 0..MaxRevision, secret: 0..MaxRevision]]
      BY <1>2 DEF Edit, EditIds, EditToken, EditSecret, Discard, FormInv, TypeOK
    <2>5. stored' \in [Page -> Outcome \cup {Absent}]
      BY DEF Edit, EditIds, EditToken, EditSecret, Discard, FormInv, TypeOK
    <2> QED BY <1>1, <2>1, <2>3, <2>4, <2>5 DEF FormInv, TypeOK
  <1>4. \A q \in Page \ {p} : Same(q)
    BY <1>1 DEF Same, Edit, EditIds, EditToken, EditSecret, Discard, FormInv, TypeOK
  <1>5. FormOK(p)'
    <2>1. CASE EditIds(p)
      <3>1. /\ draft'[p].token = draft[p].token /\ draft'[p].secret = draft[p].secret
            /\ revision'[p] = revision[p] /\ stored'[p] = stored[p]
        BY <1>2, <2>1 DEF EditIds, FormInv, TypeOK, Typed
      <3> QED BY <1>1, <1>2, <3>1 DEF FormOK, PageOK, Fits
    <2>2. CASE EditToken(p)
      <3>1. /\ draft'[p].secret = draft[p].secret
            /\ revision'[p].token = revision[p].token + 1
            /\ revision'[p].secret = revision[p].secret /\ stored'[p] = stored[p]
        BY <1>2, <2>2 DEF EditToken, FormInv, TypeOK, Typed
      <3> QED BY <1>1, <1>2, <3>1 DEF FormOK, PageOK, Fits, Request, Outcome, Signature
    <2>3. CASE EditSecret(p)
      <3>1. /\ draft'[p].token = draft[p].token
            /\ revision'[p].secret = revision[p].secret + 1
            /\ revision'[p].token = revision[p].token /\ stored'[p] = stored[p]
        BY <1>2, <2>3 DEF EditSecret, FormInv, TypeOK, Typed
      <3> QED BY <1>1, <1>2, <3>1 DEF FormOK, PageOK, Fits, Request, Outcome, Signature
    <2>4. CASE Discard(p)
      <3>1. /\ draft'[p].token = Absent /\ draft'[p].secret = Absent
            /\ revision'[p] = revision[p] /\ stored'[p] = Absent
        BY <2>4 DEF Discard, EmptyDraft, FormInv, TypeOK
      <3> QED BY <1>1, <1>2, <3>1 DEF FormOK, PageOK, Fits
    <2> QED BY <2>1, <2>2, <2>3, <2>4 DEF Edit
  <1> QED BY <1>1, <1>3, <1>4, <1>5, PageStep

\* A page asks for something: one request begins, and may be remembered.
LEMMA ClickStep ==
  ASSUME FormInv, NEW p \in Page, Click(p)
  PROVE  FormInv'
  <1>0. /\ FormOK(p) /\ SettingsInv /\ SettingsTypeOK
        /\ sent[p] # Absent => sent[p] \in Request
        /\ stored[p] # Absent => stored[p] \in Outcome
    BY PageTypes
  \* What must be shown when a request begins in slot c.
  <1>1. ASSUME NEW c \in {FormOf[p], SwitchOf[p]}, NEW kind \in Kinds \ {"none"}, NEW input,
               Begin(c, kind, input),
               kind \in {"test", "save"} => input \in Input,
               kind \notin {"test", "save"} => input = Absent,
               c = FormOf[p] => kind \in {"get", "test", "save"},
               c = SwitchOf[p] => kind \in {"pause", "resume"},
               kind # "get" => view[p] # Absent,
               UNCHANGED <<view, draft, revision, asking>>,
               \/ UNCHANGED <<stored, sent>> /\ kind \notin {"test", "save"}
               \/ /\ CurrentRequest(p).values \in Input /\ view[p] # Absent
                  /\ sent' = [sent EXCEPT ![p] = CurrentRequest(p)]
                  /\ stored' = stored \/ stored' = [stored EXCEPT ![p] = Absent]
        PROVE  FormInv'
    <2>1. SettingsInv'
      BY <1>0, <1>1, Slots, BeginStep
    <2>2. TypeOK'
      BY <1>1, <2>1, CurrentFits DEF FormInv, TypeOK, SettingsInv
    <2>3. /\ call'[c].kind = kind /\ \A d \in Slot \ {c} : call'[d] = call[d]
      BY <1>0, <1>1, Slots, BeginKinds
    <2>4. \A q \in Page \ {p} : Same(q)
      BY <1>1, <2>3, Slots DEF Same, FormInv, TypeOK
    <2>5. /\ call'[FormOf[p]].kind = IF c = FormOf[p] THEN kind ELSE call[FormOf[p]].kind
          /\ call'[SwitchOf[p]].kind = IF c = SwitchOf[p] THEN kind
                                       ELSE call[SwitchOf[p]].kind
      BY <2>3, Slots
    <2>6. /\ \/ sent' = sent /\ kind \notin {"test", "save"}
             \/ /\ sent'[p] = CurrentRequest(p) /\ sent'[p] # Absent
                /\ Fits(sent'[p], draft[p], revision[p]) /\ sent'[p].values \in Input
          /\ stored'[p] \in {stored[p], Absent}
      <3>1. view[p] # Absent => CurrentRequest(p) \in Request
        BY CurrentFits
      <3>2. view[p] # Absent => CurrentRequest(p) # Absent
        BY <3>1, FormAssumption
      <3> QED BY <1>1, <3>2, CurrentFits DEF FormInv, TypeOK
    <2>7. FormOK(p)'
      BY <1>0, <1>1, <2>5, <2>6 DEF FormOK, PageOK
    <2> QED BY <2>1, <2>2, <2>4, <2>7, PageStep
  <1>2. FormOf[p] # SwitchOf[p]
    BY Slots
  <1>3. CASE LoadSettings(p)
    BY <1>1, <1>2, <1>3 DEF LoadSettings, formVars, Kinds
  <1>4. CASE RunTest(p)
    <2>1. CASE LocalProblem(p)
      <3>1. /\ Remember(p, CurrentRequest(p), FALSE) /\ view[p] # Absent
            /\ UNCHANGED <<row, call, sent, view, draft, revision, asking>>
        BY <1>4, <2>1 DEF RunTest
      <3> DEFINE o == [sig |-> CurrentRequest(p).sig, values |-> CurrentRequest(p).values,
                       ok |-> FALSE]
      <3>2. o \in Outcome /\ Fits(o, draft[p], revision[p]) /\ ~o.ok
        BY <3>1, CurrentFits DEF Outcome, Request, Fits
      <3>3. stored' = [stored EXCEPT ![p] = o]
        BY <3>1 DEF Remember
      <3> HIDE DEF o
      <3>4. SettingsInv' /\ TypeOK'
        BY <1>0, <3>1, <3>2, <3>3, SettingsStay DEF FormInv, TypeOK, SettingsInv
      <3>5. \A q \in Page \ {p} : Same(q)
        BY <3>1, <3>3 DEF Same, FormInv, TypeOK
      <3>6. FormOK(p)'
        BY <1>0, <3>1, <3>2, <3>3 DEF FormOK, PageOK, FormInv, TypeOK
      <3> QED BY <3>4, <3>5, <3>6, PageStep
    <2>2. CASE ~LocalProblem(p)
      <3>1. /\ view[p] # Absent /\ Begin(FormOf[p], "test", InputOf(p))
            /\ sent' = [sent EXCEPT ![p] = CurrentRequest(p)]
            /\ stored' = [stored EXCEPT ![p] = Absent]
            /\ UNCHANGED <<view, draft, revision, asking>>
        BY <1>4, <2>2 DEF RunTest
      <3>2. InputOf(p) \in Input /\ CurrentRequest(p).values = InputOf(p)
        <4>1. view[p] \in Views /\ draft[p] \in Typed
          BY <3>1, PageTypes
        <4> QED BY <2>2, <3>1, <4>1, CurrentFits
                DEF LocalProblem, InputOf, Input, Typed, IdsShown, Views
      <3> QED BY <1>1, <1>2, <3>1, <3>2 DEF Kinds
    <2> QED BY <2>1, <2>2
  <1>5. CASE Save(p)
    <2>1. /\ view[p] # Absent /\ TestOk(p) /\ Begin(FormOf[p], "save", InputOf(p))
          /\ sent' = [sent EXCEPT ![p] = CurrentRequest(p)]
          /\ UNCHANGED <<view, draft, revision, stored, asking>>
      BY <1>5 DEF Save, SaveOffered
    <2>2. InputOf(p) \in Input /\ CurrentRequest(p).values = InputOf(p)
      BY <1>0, <2>1, SignatureTells, CurrentFits DEF TestOk, FormOK, PageOK
    <2> QED BY <1>1, <1>2, <2>1, <2>2 DEF Kinds
  <1>6. ASSUME UNCHANGED <<row, call, view, draft, revision, stored, sent>>,
               view[p] # Absent,
               \E b \in BOOLEAN : asking' = [asking EXCEPT ![p] = b]
        PROVE  FormInv'
    <2>1. SettingsInv' /\ TypeOK'
      BY <1>0, <1>6, SettingsStay DEF FormInv, TypeOK, SettingsInv
    <2>2. FormOK(p)' /\ \A q \in Page \ {p} : Same(q)
      BY <1>0, <1>6 DEF FormOK, PageOK, Same, FormInv, TypeOK
    <2> QED BY <2>1, <2>2, PageStep
  <1>7. CASE TogglePause(p)
    <2>1. CASE view[p].paused
      BY <1>1, <1>2, <1>7, <2>1 DEF TogglePause, Kinds
    <2>2. CASE ~view[p].paused
      BY <1>6, <1>7, <2>2 DEF TogglePause
    <2> QED BY <2>1, <2>2
  <1>8. CASE ConfirmPause(p)
    <2>1. view[p] # Absent
      BY <1>0, <1>8 DEF ConfirmPause, FormOK, PageOK
    <2> QED BY <1>1, <1>2, <1>8, <2>1 DEF ConfirmPause, formVars, Kinds
  <1>9. CASE ClosePauseDialog(p)
    BY <1>0, <1>6, <1>9 DEF ClosePauseDialog, FormOK, PageOK
  <1> QED BY <1>3, <1>4, <1>5, <1>7, <1>8, <1>9 DEF Click

\* An answer settles: the request of slot c is over, and what the page keeps is
\* an outcome that fits, or nothing.
LEMMA ReceiveStep ==
  ASSUME FormInv, NEW p \in Page, Receive(p)
  PROVE  FormInv'
  <1>0. /\ FormOK(p) /\ SettingsInv /\ SettingsTypeOK
        /\ FormOf[p] \in Slot /\ SwitchOf[p] \in Slot /\ FormOf[p] # SwitchOf[p]
        /\ view[p] \in Views \cup {Absent} /\ sent[p] \in Request \cup {Absent}
        /\ stored[p] \in Outcome \cup {Absent}
    BY PageTypes, Slots
  <1>1. ASSUME NEW c \in {FormOf[p], SwitchOf[p]}, Release(c),
               NEW v, v \in Views \/ v = view[p], view' = [view EXCEPT ![p] = v],
               NEW d \in {draft[p], EmptyDraft}, draft' = [draft EXCEPT ![p] = d],
               NEW st \in Outcome \cup {Absent}, stored' = [stored EXCEPT ![p] = st],
               st # Absent => /\ Fits(st, draft[p], revision[p])
                              /\ st.ok => st.values \in Input,
               NEW se \in {sent[p], Absent}, sent' = [sent EXCEPT ![p] = se],
               c # FormOf[p] => se = sent[p],
               NEW b \in {asking[p], FALSE}, asking' = [asking EXCEPT ![p] = b],
               UNCHANGED revision
        PROVE  FormInv'
    <2>1. SettingsInv'
      BY <1>0, <1>1, ReleaseStep
    <2>2. TypeOK'
      <3>1. EmptyDraft \in Typed
        BY DEF EmptyDraft, Typed
      <3> QED BY <1>0, <1>1, <2>1, <3>1 DEF FormInv, TypeOK, SettingsInv
    <2>3. call'[c].kind = "none" /\ \A s \in Slot \ {c} : call'[s] = call[s]
      BY <1>0, <1>1, ReleaseKinds
    <2>4. \A q \in Page \ {p} : Same(q)
      BY <1>1, <2>3, Slots DEF Same, FormInv, TypeOK
    <2>5. /\ view'[p] = v /\ draft'[p] = d /\ stored'[p] = st /\ sent'[p] = se
          /\ asking'[p] = b /\ revision'[p] = revision[p]
      BY <1>1 DEF FormInv, TypeOK
    <2>6. v = Absent => view[p] = Absent
      BY <1>1, SettingsAssumption
    <2>7. \A o : Fits(o, draft[p], revision[p]) => Fits(o, d, revision[p])
      BY <1>1 DEF Fits, EmptyDraft
    <2>8. /\ d.token # Absent => revision[p].token > 0
          /\ d.secret # Absent => revision[p].secret > 0
      BY <1>0, <1>1 DEF FormOK, PageOK, EmptyDraft
    <2>9. /\ call'[FormOf[p]].kind \in {call[FormOf[p]].kind, "none"}
          /\ call'[SwitchOf[p]].kind \in {call[SwitchOf[p]].kind, "none"}
          /\ c = FormOf[p] => call'[FormOf[p]].kind = "none"
      BY <1>0, <1>1, <2>3
    <2>10. FormOK(p)'
      BY <1>0, <1>1, <2>5, <2>6, <2>7, <2>8, <2>9 DEF FormOK, PageOK
    <2> QED BY <2>1, <2>2, <2>4, <2>10, PageStep
  <1>2. /\ draft = [draft EXCEPT ![p] = draft[p]] /\ stored = [stored EXCEPT ![p] = stored[p]]
        /\ view = [view EXCEPT ![p] = view[p]] /\ asking = [asking EXCEPT ![p] = asking[p]]
        /\ sent = [sent EXCEPT ![p] = sent[p]]
    BY DEF FormInv, TypeOK
  <1>3. stored[p] # Absent => /\ Fits(stored[p], draft[p], revision[p])
                              /\ stored[p].ok => stored[p].values \in Input
    BY <1>0 DEF FormOK, PageOK
  \* The answers that carry a view.
  <1>4. ASSUME NEW c \in Slot, call[c].pc = "answered",
               call[c].kind \in {"get", "pause", "resume"}
               \/ (call[c].kind = "save" /\ call[c].answer.status = "ok")
        PROVE  call[c].answer.view \in Views
    BY <1>0, <1>4 DEF SettingsInv, CallOK
  <1>5. CASE ReceiveSettings(p)
    <2>1. /\ Release(FormOf[p]) /\ call[FormOf[p]].pc = "answered"
          /\ UNCHANGED <<draft, revision, stored, sent, asking>>
          /\ \E v : (v \in Views \/ v = view[p]) /\ view' = [view EXCEPT ![p] = v]
      BY <1>0, <1>2, <1>4, <1>5 DEF ReceiveSettings, Release, TakeView, Arrives
    <2> QED BY <1>0, <1>1, <1>2, <1>3, <2>1
  <1>6. CASE ReceiveTest(p)
    <2>1. /\ Release(FormOf[p]) /\ call[FormOf[p]].kind = "test"
          /\ UNCHANGED <<view, draft, revision, asking>>
          /\ sent' = [sent EXCEPT ![p] = Absent]
          /\ \/ stored' = stored
             \/ \E ok \in BOOLEAN : Remember(p, sent[p], ok)
      BY <1>6 DEF ReceiveTest, Arrives
    <2>2. sent[p] \in Request /\ Fits(sent[p], draft[p], revision[p]) /\ sent[p].values \in Input
      BY <1>0, <2>1 DEF FormOK, PageOK
    <2>3. CASE stored' = stored
      BY <1>0, <1>1, <1>2, <1>3, <2>1, <2>3
    <2>4. ASSUME NEW ok \in BOOLEAN, Remember(p, sent[p], ok)
          PROVE  FormInv'
      <3> DEFINE o == [sig |-> sent[p].sig, values |-> sent[p].values, ok |-> ok]
      <3>1. o \in Outcome /\ Fits(o, draft[p], revision[p]) /\ o.values \in Input
        BY <2>2 DEF Outcome, Request, Fits
      <3>2. stored' = [stored EXCEPT ![p] = o]
        BY <2>4 DEF Remember
      <3> HIDE DEF o
      <3> QED BY <1>0, <1>1, <1>2, <2>1, <3>1, <3>2
    <2> QED BY <2>1, <2>3, <2>4
  <1>7. CASE ReceiveSave(p)
    <2>1. /\ Release(FormOf[p]) /\ call[FormOf[p]].kind = "save"
          /\ call[FormOf[p]].pc = "answered"
          /\ UNCHANGED <<revision, asking>> /\ sent' = [sent EXCEPT ![p] = Absent]
      BY <1>7 DEF ReceiveSave, Release
    <2>2. CASE /\ call[FormOf[p]].answer.status = "ok"
               /\ TakeView(p, call[FormOf[p]].answer)
               /\ draft' = [draft EXCEPT ![p] = EmptyDraft]
               /\ stored' = [stored EXCEPT ![p] = Absent]
      BY <1>0, <1>1, <1>2, <1>4, <2>1, <2>2 DEF TakeView
    <2>3. CASE Remember(p, sent[p], FALSE) /\ UNCHANGED <<view, draft>>
      <3> DEFINE o == [sig |-> sent[p].sig, values |-> sent[p].values, ok |-> FALSE]
      <3>1. sent[p] \in Request /\ Fits(sent[p], draft[p], revision[p])
        BY <1>0, <2>1 DEF FormOK, PageOK
      <3>2. o \in Outcome /\ Fits(o, draft[p], revision[p]) /\ ~o.ok
        BY <3>1 DEF Outcome, Request, Fits
      <3>3. stored' = [stored EXCEPT ![p] = o]
        BY <2>3 DEF Remember
      <3> HIDE DEF o
      <3> QED BY <1>0, <1>1, <1>2, <2>1, <2>3, <3>2, <3>3
    <2>4. CASE UNCHANGED <<view, draft, stored>>
      BY <1>0, <1>1, <1>2, <1>3, <2>1, <2>4
    <2> QED BY <1>7, <2>2, <2>3, <2>4 DEF ReceiveSave
  <1>8. CASE ReceiveSwitch(p)
    <2>1. /\ Release(SwitchOf[p]) /\ call[SwitchOf[p]].pc = "answered"
          /\ UNCHANGED <<draft, revision, stored, sent>>
          /\ asking' = [asking EXCEPT ![p] = FALSE]
      BY <1>8 DEF ReceiveSwitch, Release
    <2>2. call[SwitchOf[p]].kind \in {"pause", "resume"}
      <3>1. call[SwitchOf[p]].kind # "none"
        BY <1>0, <2>1 DEF SettingsInv, CallOK
      <3> QED BY <1>0, <3>1 DEF FormOK, PageOK
    <2>3. \E v : (v \in Views \/ v = view[p]) /\ view' = [view EXCEPT ![p] = v]
      BY <1>0, <1>2, <1>4, <1>8, <2>1, <2>2 DEF ReceiveSwitch, TakeView, Arrives
    <2> QED BY <1>0, <1>1, <1>2, <1>3, <2>1, <2>3
  <1> QED BY <1>5, <1>6, <1>7, <1>8 DEF Receive

\* The service and the other windows leave the pages alone.
LEMMA ServiceStep ==
  ASSUME FormInv, ServeAny \/ OtherWindowSaves
  PROVE  FormInv'
  <1>1. /\ SettingsInv' /\ UNCHANGED formVars
        /\ \A c \in Slot : call'[c].kind = call[c].kind
    BY ServeStep, OthersStep, ServeKinds
       DEF ServeAny, OtherWindowSaves, formVars, FormInv, SettingsInv
  <1>2. TypeOK'
    BY <1>1 DEF FormInv, TypeOK, SettingsInv, formVars
  <1>3. \A p \in Page : FormOK(p)'
    BY <1>1, Slots DEF FormInv, FormOK, formVars
  <1> QED BY <1>1, <1>2, <1>3 DEF FormInv

\* The page opens in the invariant.
LEMMA InitInv == Init => FormInv
  <1> SUFFICES ASSUME Init
               PROVE  FormInv
    OBVIOUS
  <1>1. NoCall \in Call /\ NoCall.pc = "idle" /\ NoCall.snap = Absent /\ NoCall.kind = "none"
    BY Answers DEF NoCall, Call, Kinds, Steps
  <1>2. row \in Row \cup {Absent} /\ (row # Absent => row.valid = "NULL")
    <2>1. \A v \in MaybeTriple : FreshRow(v) \in Row /\ FreshRow(v).valid = "NULL"
      BY DEF FreshRow, Row, MaybeTriple
    <2> QED BY <2>1, SettingsAssumption DEF Init, SettingsInit
  <1>3. SettingsInv
    BY <1>1, <1>2 DEF SettingsInv, SettingsTypeOK, SavedWasAccepted, CallOK, Init, SettingsInit
  <1>4. EmptyDraft \in Typed
    BY DEF EmptyDraft, Typed
  <1>5. TypeOK
    BY <1>3, <1>4, FormAssumption DEF Init, TypeOK, SettingsInv
  <1>6. \A p \in Page : FormOK(p)
    BY <1>1, Slots DEF Init, SettingsInit, FormOK, PageOK, EmptyDraft
  <1> QED BY <1>3, <1>5, <1>6 DEF FormInv

\* The invariant of the page and the service below it is inductive.
THEOREM FormInvariance == Spec => []FormInv
  <1>1. FormInv /\ [Next]_vars => FormInv'
    <2> SUFFICES ASSUME FormInv, [Next]_vars
                 PROVE  FormInv'
      OBVIOUS
    <2>1. CASE UNCHANGED vars
      BY <2>1, SettingsStay DEF vars, FormInv, TypeOK, SettingsInv, FormOK
    <2>2. CASE Next
      BY <2>2, EditStep, ClickStep, ReceiveStep, ServiceStep DEF Next
    <2> QED BY <2>1, <2>2
  <1> QED BY InitInv, <1>1, PTL DEF Spec

\* Every reachable state is well typed.
THEOREM TypeCorrect == Spec => []TypeOK
  <1>1. FormInv => TypeOK
    BY DEF FormInv
  <1> QED BY <1>1, FormInvariance, PTL

\* The row never marks as valid a combination Meta has not accepted, however
\* many tests and saves overlap.
THEOREM AcceptedOnly == Spec => []SavedWasAccepted
  <1>1. FormInv => SavedWasAccepted
    BY DEF FormInv, SettingsInv
  <1> QED BY <1>1, FormInvariance, PTL

\* No page offers to save values other than the ones that passed the test.
THEOREM TestedBeforeSaved == Spec => []SaveOfferedForTestedValues
  <1>1. FormInv => SaveOfferedForTestedValues
    BY SignatureTells DEF SaveOfferedForTestedValues, TestOk
  <1> QED BY <1>1, FormInvariance, PTL
=============================================================================
