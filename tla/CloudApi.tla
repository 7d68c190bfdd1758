------------------------------ MODULE CloudApi ------------------------------
(***************************************************************************)
(* What the gateway makes of Meta's bodies (gateways/cloudApi.gateway.ts): *)
(* which posts it takes for Meta's, which messages it finds in them, and   *)
(* what it sends for a reply of the backend. The signature, an HMAC of the *)
(* whole body, is known here only by the app secret it was made with.      *)
(***************************************************************************)
EXTENDS Sequences, SequencesExt

CONSTANT Nothing     \* a field that is absent, empty or blank

\* The settings in use are no secret or number, or those of an app.
VerifySignature(post, settings) ==
    settings.appSecret # Nothing /\ post.signedWith = settings.appSecret

ReadText(raw) == IF raw.type = "text" THEN raw.body ELSE Nothing

ReadOptionId(raw) ==
    IF raw.type \in {"list_reply", "button_reply"} THEN raw.body ELSE Nothing

\* toIncoming finds a message, not a reason to ignore it.
IsMessage(raw) ==
    /\ raw.id # Nothing
    /\ raw.from # Nothing
    /\ ReadText(raw) # Nothing \/ ReadOptionId(raw) # Nothing

\* What is for the number in the settings; statuses are ignored in any case.
IsForUs(change, settings) ==
    change.field = "messages" /\ change.number = settings.phoneNumberId

\* The ids of the messages of a post, in order, over all its entries.
ParseIncoming(post, settings) ==
    IF post.object # "whatsapp_business_account" THEN <<>>
    ELSE LET ours  == SelectSeq(post.changes, LAMBDA c : IsForUs(c, settings))
             found == FlattenSeq([i \in DOMAIN ours |-> SelectSeq(ours[i].messages, IsMessage)])
         IN  [i \in DOMAIN found |-> found[i].id]

\* The messages of the backend's answer, or its text if there are none; blank
\* texts are not sent.
ToOutgoing(reply) ==
    IF reply.messages # <<>> THEN reply.messages
    ELSE IF reply.text # Nothing THEN <<reply.text>>
    ELSE <<>>
=============================================================================
