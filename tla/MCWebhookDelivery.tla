-------------------------- MODULE MCWebhookDelivery --------------------------
EXTENDS WebhookDelivery

CONSTANTS ana, bia,          \* phones
          one, two, other    \* messages: two of ana, one of bia

Phones   == {ana, bia}
Messages == {one, two, other}
Undated  == {other}   \* Meta gives it no timestamp
WithDate == Messages \ Undated
Senders  == [m \in Messages |-> IF m = other THEN bia ELSE ana]

App         == [appSecret |-> "secret", phoneNumberId |-> "number"]
OtherNumber == [App EXCEPT !.phoneNumberId = "number 2"]
AnySettings == {App, OtherNumber, [App EXCEPT !.appSecret = "old secret"]}

Raw(m, type) == [id |-> m, from |-> Senders[m], type |-> type, body |-> "text or option"]
Blank(m)     == [Raw(m, "text") EXCEPT !.body = Nothing]

Change(messages) == [field |-> "messages", number |-> "number", messages |-> messages]
Body(changes) == [object |-> "whatsapp_business_account", signedWith |-> "secret",
                  changes |-> changes]

\* The first batch has messages of both phones, a blank one and an image, and a
\* change of another kind; the second batch has one of ana.
Batches == {1, 2}
Bodies  == <<Body(<<Change(<<Raw(other, "text"), Blank(two)>>),
                    [Change(<<Raw(two, "text")>>) EXCEPT !.field = "account_update"],
                    Change(<<Raw(two, "image"), Raw(one, "list_reply")>>)>>),
             Body(<<Change(<<Raw(two, "button_reply")>>)>>)>>

\* To one a reply of two messages, to two a single text, to the third nothing
\* that can be sent.
Replies == [m \in Messages |-> [messages |-> IF m = one THEN <<"text", "list">> ELSE <<>>,
                                text |-> IF m = other THEN Nothing ELSE "text"]]

==============================================================================
