-------------------------- MODULE WhatsAppSettings --------------------------
(***************************************************************************)
(* The WhatsApp settings of the panel: the single row of WhatsAppSettings, *)
(* the service that tests credentials with Meta and saves them, and the    *)
(* requests that run through it at the same time.                          *)
(*                                                                         *)
(* A request reads the row, asks Meta (two slow calls) and only then       *)
(* writes; nothing is locked in between, so each request keeps the row it  *)
(* read in its own record.  The phone number id and the account id travel  *)
(* together and are one value here.  Meta is external: it accepts the      *)
(* triples of Accepted, refuses the others for a definitive reason, and    *)
(* may be out of reach at any time.  A lifetime is named by the token Meta *)
(* reported it for; the number and name Meta shows are written with it and *)
(* left out, as are author and dates.                                      *)
(***************************************************************************)
EXTENDS Naturals

CONSTANTS
    Slot,         \* requests that may be in progress at the same time
    Ids,          \* phone number id with its business account id
    Tokens,       \* access tokens
    Secrets,      \* app secrets
    Absent,       \* null
    Accepted,     \* the triples Meta accepts
    SeedValues    \* what the .env may have held when the seed ran

Triple == [ids: Ids, token: Tokens, secret: Secrets]
MaybeTriple ==
    [ids: Ids \cup {Absent}, token: Tokens \cup {Absent}, secret: Secrets \cup {Absent}]

VARIABLES
    row,          \* the row of WhatsAppSettings, Absent until it is created
    call          \* the request in each slot

settingsVars == <<row, call>>

Row == [ids: Ids \cup {Absent}, token: Tokens \cup {Absent}, secret: Secrets \cup {Absent},
        paused: BOOLEAN, valid: {"NULL", "TRUE", "FALSE"},
        lifetime: Tokens \cup {Absent}]

\* A row without credentials checked yet: what the seed or ensureRow inserts.
FreshRow(v) ==
    [ids |-> v.ids, token |-> v.token, secret |-> v.secret, paused |-> FALSE,
     valid |-> "NULL", lifetime |-> Absent]

NoValues == [ids |-> Absent, token |-> Absent, secret |-> Absent]
Values(r) == [ids |-> r.ids, token |-> r.token, secret |-> r.secret]

\* What the panel is shown of a row: never a secret, only whether there is one.
View(r) ==
    [ids |-> r.ids, token |-> r.token # Absent, secret |-> r.secret # Absent,
     paused |-> r.paused]

Input == [ids: Ids, token: Tokens \cup {Absent}, secret: Secrets \cup {Absent}]

Views == [ids: Ids \cup {Absent}, token: BOOLEAN, secret: BOOLEAN, paused: BOOLEAN]

Answer == [status: {"ok", "refused", "badRequest", "none"}, view: Views \cup {Absent}]
NoAnswer == [status |-> "none", view |-> Absent]
Says(status) == [status |-> status, view |-> Absent]
Shows(r) == [status |-> "ok", view |-> View(r)]

Kinds == {"none", "get", "test", "save", "pause", "resume"}
Steps == {"idle", "read", "check", "inspect", "write", "notify", "answered"}

Call == [kind: Kinds, pc: Steps, input: Input \cup {Absent}, snap: MaybeTriple \cup {Absent},
         verdict: {"none", "ok", "definitive"}, lifetime: Tokens \cup {Absent},
         answer: Answer]

NoCall == [kind |-> "none", pc |-> "idle", input |-> Absent, snap |-> Absent,
           verdict |-> "none", lifetime |-> Absent, answer |-> NoAnswer]

ASSUME SettingsAssumption ==
    /\ Absent \notin Ids \cup Tokens \cup Secrets
    /\ Absent \notin MaybeTriple \cup Row \cup Input \cup Views
    /\ Accepted \subseteq Triple
    /\ SeedValues \subseteq MaybeTriple

SettingsTypeOK ==
    /\ row \in Row \cup {Absent}
    /\ call \in [Slot -> Call]

SettingsInit ==
    /\ row \in {Absent} \cup {FreshRow(v) : v \in SeedValues}
    /\ call = [c \in Slot |-> NoCall]

-----------------------------------------------------------------------------
\* INSERT ... ON CONFLICT DO NOTHING, then SELECT.
EnsuredRow == IF row = Absent THEN FreshRow(NoValues) ELSE row

\* The value to test and, on a save, to write: the one sent or the one read.
Effective(input, snap) ==
    [ids |-> input.ids,
     token |-> IF input.token # Absent THEN input.token ELSE snap.token,
     secret |-> IF input.secret # Absent THEN input.secret ELSE snap.secret]

MatchesSaved(input, snap) ==
    input.ids = snap.ids /\ input.token = Absent /\ input.secret = Absent

\* Variant: a secret left empty keeps the one the row has by then.
SavedRow_KeepsCurrent(r, v, input, lifetime) ==
    [r EXCEPT !.ids = v.ids, !.valid = "TRUE",
              !.token = IF input.token = Absent THEN @ ELSE v.token,
              !.secret = IF input.secret = Absent THEN @ ELSE v.secret,
              !.lifetime = lifetime]

SavedRow(r, v, input, lifetime) ==
    [r EXCEPT !.ids = v.ids, !.token = v.token, !.secret = v.secret,
              !.valid = "TRUE",
              !.lifetime = IF input.token = Absent /\ lifetime = Absent THEN @ ELSE lifetime]

CheckedRow(r, verdict, lifetime) ==
    IF verdict = "ok"
    THEN [r EXCEPT !.valid = "TRUE",
                   !.lifetime = IF lifetime = Absent THEN @ ELSE lifetime]
    ELSE [r EXCEPT !.valid = "FALSE"]

Finish(c, answer) ==
    call' = [call EXCEPT ![c] = [NoCall EXCEPT !.kind = call[c].kind, !.pc = "answered",
                                               !.answer = answer]]

\* A request arrives; input is Absent for the ones without a body.
Begin(c, kind, input) ==
    /\ call[c].pc = "idle"
    /\ call' = [call EXCEPT ![c] = [NoCall EXCEPT !.kind = kind, !.pc = "read",
                                                  !.input = input]]
    /\ UNCHANGED row

\* getView.
Get(c) ==
    /\ call[c].kind = "get" /\ call[c].pc = "read"
    /\ row' = EnsuredRow
    /\ Finish(c, Shows(EnsuredRow))

\* pause and resume: ensureRow, then one UPDATE that returns the row.
SetAutoReplyPaused(c) ==
    LET new == [EnsuredRow EXCEPT !.paused = (call[c].kind = "pause")] IN
    /\ call[c].kind \in {"pause", "resume"} /\ call[c].pc = "read"
    /\ row' = new
    /\ Finish(c, Shows(new))

\* prepareCheck: read the row.  A secret that was not sent is the saved one; the
\* request is bad when there is none or when it can no longer be decrypted.
PrepareCheck(c) ==
    LET input == call[c].input
        v == Effective(input, EnsuredRow) IN
    /\ call[c].kind \in {"test", "save"} /\ call[c].pc = "read"
    /\ row' = EnsuredRow
    /\ \/ /\ input.token = Absent \/ input.secret = Absent
          /\ Finish(c, Says("badRequest"))
       \/ /\ v.token # Absent /\ v.secret # Absent
          /\ call' = [call EXCEPT ![c].pc = "check", ![c].snap = Values(EnsuredRow)]

\* checkConnection.  A test whose failure is not to be recorded is answered,
\* a save that is refused throws.
CheckConnection(c) ==
    LET v == Effective(call[c].input, call[c].snap) IN
    /\ call[c].pc = "check"
    /\ \/ /\ v \in Accepted
          /\ call' = [call EXCEPT ![c].pc = "inspect", ![c].verdict = "ok"]
       \/ /\ v \notin Accepted
          /\ IF call[c].kind = "test" /\ MatchesSaved(call[c].input, call[c].snap)
             THEN call' = [call EXCEPT ![c].pc = "write", ![c].verdict = "definitive"]
             ELSE Finish(c, Says("refused"))
       \/ Finish(c, Says("refused"))
    /\ UNCHANGED row

\* inspectAccessToken: the lifetime of the token tested, or unknown; it never
\* fails.  A test of other values than the saved ones ends here.
InspectAccessToken(c) ==
    LET tested == Effective(call[c].input, call[c].snap).token IN
    /\ call[c].pc = "inspect"
    /\ IF call[c].kind = "save" \/ MatchesSaved(call[c].input, call[c].snap)
       THEN \E lifetime \in {tested, Absent} :
                call' = [call EXCEPT ![c].pc = "write", ![c].lifetime = lifetime]
       ELSE Finish(c, Says("ok"))
    /\ UNCHANGED row

\* recordCredentialsCheck: an UPDATE of whatever the row is by now.
RecordCredentialsCheck(c) ==
    /\ call[c].kind = "test" /\ call[c].pc = "write"
    /\ row' = CheckedRow(row, call[c].verdict, call[c].lifetime)
    /\ Finish(c, Says(IF call[c].verdict = "ok" THEN "ok" ELSE "refused"))

\* saveCredentials: a secret that was not sent is written as it was read.
SaveCredentials(c) ==
    LET new == SavedRow(row, Effective(call[c].input, call[c].snap),
                        call[c].input, call[c].lifetime) IN
    /\ call[c].kind = "save" /\ call[c].pc = "write"
    /\ row' = new
    /\ call' = [call EXCEPT ![c] = [NoCall EXCEPT !.kind = "save", !.pc = "notify",
                                                  !.answer = Shows(new)]]

\* The call to the gateway ends, well or not: the answer to the save waited for it.
NotifyGateway(c) ==
    /\ call[c].pc = "notify"
    /\ call' = [call EXCEPT ![c].pc = "answered"]
    /\ UNCHANGED row

Serve(c) ==
    \/ Get(c)
    \/ SetAutoReplyPaused(c)
    \/ PrepareCheck(c)
    \/ CheckConnection(c)
    \/ InspectAccessToken(c)
    \/ RecordCredentialsCheck(c)
    \/ SaveCredentials(c)
    \/ NotifyGateway(c)

\* The answer leaves the service.
Release(c) ==
    /\ call[c].pc = "answered"
    /\ call' = [call EXCEPT ![c] = NoCall]
    /\ UNCHANGED row

-----------------------------------------------------------------------------
\* The credentials the row marks as valid were accepted by Meta together: two
\* saves that overlap never leave a mixture of their ids and secrets that no
\* test has seen, and a late result of a test never marks one (save writes back
\* the secret it tested, not the one the row has by then).
SavedWasAccepted ==
    row # Absent /\ row.valid = "TRUE" => Values(row) \in Accepted
=============================================================================
