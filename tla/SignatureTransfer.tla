-------------------------- MODULE SignatureTransfer --------------------------
(***************************************************************************)
(* One transfer of a signature drawn on a phone: the desktop               *)
(* (phone_signature.rs and the workspace's signature panel), the relay's   *)
(* storage for the session (services/signature-relay/src/index.ts) and the *)
(* page on the phone (public/app.js).                                      *)
(*                                                                         *)
(* The desktop creates a session, shows its link as a QR code, polls for   *)
(* an encrypted picture, acknowledges it and deletes the session.  Every   *)
(* phone that scans the code may send.  A request may be lost, or be       *)
(* handled long after its sender gave it up.  The relay handles one in a   *)
(* storage transaction, which is atomic, followed by a second step outside *)
(* it for some.  A session expires, and its alarm then empties it.         *)
(*                                                                         *)
(* An envelope is the encryption of one picture under a fresh message id;  *)
(* tokens and keys are right, so 400, 401, 413 and decryption errors do    *)
(* not occur.  The phone page is the drawing one.                          *)
(***************************************************************************)
EXTENDS Integers, FiniteSets, Sequences

CONSTANTS
  Phones,        \* who scanned the code
  MaxPolls,      \* MAX_RETRIEVAL_POLLS of the relay
  MaxUploads,    \* MAX_UPLOAD_ATTEMPTS of the relay
  MaxAcks,       \* MAX_ACK_ATTEMPTS of the relay
  DesktopPolls,  \* how often the desktop polls
  DesktopAcks,   \* how often the desktop tries to acknowledge
  MaxDrawn,      \* bound: strokes drawn on each phone
  MaxSends,      \* bound: presses of Send on each phone
  Desktop, None

ASSUME LimitsAssumption ==
  /\ {MaxPolls, MaxUploads, MaxAcks, DesktopPolls, DesktopAcks} \subseteq Nat \ {0}
  /\ DesktopPolls <= MaxPolls /\ DesktopAcks <= MaxAcks
ASSUME BoundsAssumption == {MaxDrawn, MaxSends} \subseteq Nat
\* What the relay stores of a session, and the ends of receive_with_code.
Session == [uploads : 0..MaxUploads, polls : 0..MaxPolls, acks : 0..MaxAcks]
Results == {"none", "error", "picture"}
ASSUME NamesAssumption ==
  /\ Desktop \notin Phones /\ None \notin Phones \cup {Desktop}
  /\ None \notin Session \cup Results

VARIABLES
  relay,      \* the Durable Object's storage: session, payload, alarm
  expired,    \* session.expiresAt <= Date.now() at the relay
  net,        \* requests sent and not yet handled
  tails,      \* requests whose transaction is done, with the status to answer
  answers,    \* the answer each client has to look at
  desk,       \* receive_with_code: where it is, polls, acks, picture, result
  cancelled,  \* SignatureOperation's flag
  panel,      \* the signature panel, see NewPanel
  phones      \* app.js on each phone

vars == <<relay, expired, net, tails, answers, desk, cancelled, panel, phones>>

Clients == Phones \cup {Desktop}
Pictures == 0..MaxDrawn
\* The message id is random: the phone and its count of encryptions name it.
Envelope == [phone: Phones, id: 1..MaxSends, picture: Pictures]
\* n tells a client's requests apart; late: the client no longer waits for it.
Request == [from: Clients, op: {"create", "put", "get", "ack", "delete"},
            n: Nat, envelope: Envelope \cup {None}, late: BOOLEAN]
Statuses == {"200", "201", "204", "409", "410", "429", "refused", "5xx", "lost"}
Answer == [status: Statuses, envelope: Envelope \cup {None}]
NewSession == [uploads |-> 0, polls |-> 0, acks |-> 0]
Empty == [session |-> None, payload |-> None, alarm |-> FALSE]
NewPhone == [step |-> "away", shown |-> 0, pending |-> None, sent |-> None, blob |-> 0,
             sends |-> 0, ids |-> 0, mixed |-> FALSE, told |-> None]

\* state: signature_prepare_state.  authority: what signature_authority_is_current
\* reads.  "shown": the panel is open and the transfer's document the active one;
\* "away": it is closed, or open over another document; "stale": the document's
\* image_prepare_generation went on, for good.  events: those to come.  stopped,
\* for a property: the user cancelled, or chose anything else, with the
\* transfer's document in front.
NewPanel == [state |-> "loading", authority |-> "shown", events |-> <<>>, stopped |-> FALSE]

Init ==
  /\ relay = Empty /\ expired = FALSE
  /\ net = {} /\ tails = {}
  /\ answers = [c \in Clients |-> None]
  /\ desk = [step |-> "start", polls |-> 0, acks |-> 0, received |-> None, result |-> None]
  /\ cancelled = FALSE
  /\ panel = NewPanel
  /\ phones = [p \in Phones |-> NewPhone]
-----------------------------------------------------------------------------
(* Requests and answers *)

Ask(c, op, n, e) ==
  net' = net \cup {[from |-> c, op |-> op, n |-> n, envelope |-> e, late |-> FALSE]}
Answered(r, status, e) ==
  answers' = IF r.late THEN answers
             ELSE [answers EXCEPT ![r.from] = [status |-> status, envelope |-> e]]

\* Connection error or timeout.  The request may still be handled, or never:
\* it is lost if it stays in net.
ConnectionFails(r) ==
  /\ ~r.late
  /\ answers' = [answers EXCEPT ![r.from] = [status |-> "lost", envelope |-> None]]
  /\ UNCHANGED <<relay, expired, desk, cancelled, panel, phones>>
  /\ LET late == [r EXCEPT !.late = TRUE] IN
     \/ /\ r \in net
        /\ net' = (net \ {r}) \cup {late}
        /\ UNCHANGED tails
     \/ \E t \in tails :
          /\ t.request = r
          /\ tails' = (tails \ {t}) \cup {[t EXCEPT !.request = late]}
          /\ UNCHANGED net
-----------------------------------------------------------------------------
(* The relay *)

Untouched == UNCHANGED <<expired, desk, cancelled, panel, phones>>
\* The transaction's result is answered at once, or after a deleteAll (or
\* setAlarm) of its own.
Respond(r, status, e) ==
  /\ net' = net \ {r} /\ UNCHANGED tails
  /\ Answered(r, status, e)
Follow(r, status) ==
  /\ net' = net \ {r}
  /\ tails' = tails \cup {[request |-> r, status |-> status]}
  /\ UNCHANGED answers

\* handleApiRequest: the kill switch and the rate limiters at the edge.  (What
\* is late might as well have been lost.)
Refuse(r) == ~r.late /\ Respond(r, "refused", None) /\ UNCHANGED relay /\ Untouched

\* create: the transaction; SetAlarm is the rest of it.
Create(r) ==
  /\ r.op = "create"
  /\ IF relay.session # None
     THEN Respond(r, "409", None) /\ UNCHANGED relay
     ELSE /\ relay' = [relay EXCEPT !.session = NewSession]
          /\ Follow(r, "201")
  /\ Untouched

\* No session, or one that has expired: deleteTransactionState, then 410.
Gone(r) ==
  /\ r.op # "create"
  /\ relay.session = None \/ expired
  /\ relay' = IF relay.session = None THEN relay ELSE Empty
  /\ Follow(r, "410")
  /\ Untouched

Live(r, op) == r.op = op /\ relay.session # None /\ ~expired

\* Bug: a later envelope replaces the stored one.
PutPayloadReplacing(r) ==
  /\ Live(r, "put")
  /\ relay' = [relay EXCEPT !.session.uploads = @ + 1, !.payload = r.envelope]
  /\ Respond(r, "201", None)
  /\ Untouched

PutPayload(r) ==
  /\ Live(r, "put")
  /\ LET limited == relay.session.uploads >= MaxUploads IN
     /\ relay' = IF limited THEN relay
                 ELSE [relay EXCEPT !.session.uploads = @ + 1,
                                    !.payload = IF @ = None THEN r.envelope ELSE @]
     /\ \/ limited /\ Respond(r, "429", None)
        \/ ~limited /\ relay.payload = None /\ Respond(r, "201", None)
        \/ ~limited /\ relay.payload # None /\ relay.payload = r.envelope /\ Respond(r, "200", None)
        \/ ~limited /\ relay.payload \notin {None, r.envelope} /\ Respond(r, "409", None)
  /\ Untouched

\* Bug: a payload is handed out once.
GetPayloadOnce(r) ==
  /\ Live(r, "get")
  /\ relay' = [relay EXCEPT !.session.polls = @ + 1, !.payload = None]
  /\ Respond(r, IF relay.payload = None THEN "204" ELSE "200", relay.payload)
  /\ Untouched
\* Bug: the limit counts the poll being answered.
GetPayloadCounting(r) ==
  /\ Live(r, "get")
  /\ relay' = [relay EXCEPT !.session.polls = @ + 1]
  /\ IF relay.session.polls + 1 >= MaxPolls
     THEN Respond(r, "429", None)
     ELSE Respond(r, IF relay.payload = None THEN "204" ELSE "200", relay.payload)
  /\ Untouched

GetPayload(r) ==
  /\ Live(r, "get")
  /\ LET limited == relay.session.polls >= MaxPolls IN
     /\ relay' = IF limited THEN relay ELSE [relay EXCEPT !.session.polls = @ + 1]
     /\ \/ limited /\ Respond(r, "429", None)
        \/ ~limited /\ relay.payload = None /\ Respond(r, "204", None)
        \/ ~limited /\ relay.payload # None /\ Respond(r, "200", relay.payload)
  /\ Untouched

Acknowledge(r) ==
  /\ Live(r, "ack")
  /\ LET limited == relay.session.acks >= MaxAcks IN
     IF ~limited /\ relay.payload = r.envelope
     THEN relay' = Empty /\ Follow(r, "204")
     ELSE /\ relay' = IF limited THEN relay ELSE [relay EXCEPT !.session.acks = @ + 1]
          /\ Respond(r, IF limited THEN "429" ELSE "409", None)
  /\ Untouched

DeleteSession(r) ==
  /\ Live(r, "delete")
  /\ relay' = Empty
  /\ Follow(r, "204")
  /\ Untouched

Finish(t) ==
  /\ tails' = tails \ {t}
  /\ UNCHANGED net
\* Bug: a session whose alarm could not be set stays.
SetAlarmLeaking(t) ==
  /\ t.status = "201"
  /\ Finish(t)
  /\ \/ relay' = [relay EXCEPT !.alarm = TRUE] /\ Answered(t.request, "201", None)
     \/ UNCHANGED relay /\ Answered(t.request, "5xx", None)
  /\ Untouched

\* create, after its transaction.
SetAlarm(t) ==
  /\ t.status = "201"
  /\ Finish(t)
  /\ \/ relay' = [relay EXCEPT !.alarm = TRUE] /\ Answered(t.request, "201", None)
     \/ relay' = [relay EXCEPT !.session = None, !.payload = None]
        /\ Answered(t.request, "5xx", None)
  /\ Untouched

\* ctx.storage.deleteAll(), outside the transaction that ended the session.
DeleteAll(t) ==
  /\ t.status # "201"
  /\ Finish(t)
  /\ relay' = [relay EXCEPT !.session = None, !.payload = None]
  /\ Answered(t.request, t.status, None)
  /\ Untouched

\* SESSION_TTL_MS have passed since create.
Expire ==
  /\ relay.session # None /\ ~expired
  /\ expired' = TRUE
  /\ UNCHANGED <<relay, net, tails, answers, desk, cancelled, panel, phones>>

Alarm ==
  /\ relay.alarm /\ expired
  /\ relay' = Empty
  /\ UNCHANGED <<expired, net, tails, answers, desk, cancelled, panel, phones>>
-----------------------------------------------------------------------------
(* The desktop: receive_with_code on the background executor *)

\* The desktop takes its answer and goes on.
DesktopTakes(step, status) ==
  /\ desk.step = step
  /\ answers[Desktop] # None /\ answers[Desktop].status \in status
  /\ answers' = [answers EXCEPT ![Desktop] = None]
DeskUnchanged == UNCHANGED <<relay, expired, tails, cancelled, phones>>
\* Every way out of the closure leads to Session::delete.
Ends(result) ==
  /\ desk' = [desk EXCEPT !.step = "deleting", !.result = result]
  /\ Ask(Desktop, "delete", 0, None)

BeginSession ==
  /\ desk.step = "start"
  /\ IF cancelled
     THEN /\ desk' = [desk EXCEPT !.step = "done", !.result = "none"]
          /\ panel' = [panel EXCEPT !.events = Append(@, "done")]
          /\ UNCHANGED net
     ELSE /\ desk' = [desk EXCEPT !.step = "creating"]
          /\ Ask(Desktop, "create", 0, None)
          /\ UNCHANGED panel
  /\ UNCHANGED answers /\ DeskUnchanged

\* Without a 201 there is nothing the desktop would delete.
SessionRefused ==
  /\ DesktopTakes("creating", Statuses \ {"201"})
  /\ desk' = [desk EXCEPT !.step = "done", !.result = "error"]
  /\ panel' = [panel EXCEPT !.events = Append(@, "done")]
  /\ UNCHANGED net /\ DeskUnchanged

\* An unreadable answer or a clock too far from the relay's is an error.
SessionCreated ==
  /\ DesktopTakes("creating", {"201"})
  /\ \/ Ends("error") /\ UNCHANGED panel
     \/ cancelled /\ Ends("none") /\ UNCHANGED panel
     \/ /\ ~cancelled
        /\ desk' = [desk EXCEPT !.step = "poll"]
        /\ panel' = [panel EXCEPT !.events = Append(@, "qr")]
        /\ UNCHANGED net
  /\ DeskUnchanged

\* The loop's head: cancelled, the deadline of the desktop's own clocks (which
\* may pass at any time), the polls used up, or another poll.
Poll ==
  /\ desk.step = "poll"
  /\ \/ cancelled /\ Ends("none")
     \/ ~cancelled /\ Ends("error")
     \/ /\ ~cancelled /\ desk.polls < DesktopPolls
        /\ desk' = [desk EXCEPT !.step = "polling", !.polls = @ + 1]
        /\ Ask(Desktop, "get", desk.polls, None)
  /\ UNCHANGED <<answers, panel>> /\ DeskUnchanged

\* Nothing yet, or the connection failed: wait, and poll again.
NothingYet ==
  /\ DesktopTakes("polling", {"204", "lost"})
  /\ desk' = [desk EXCEPT !.step = "poll"]
  /\ UNCHANGED <<net, panel>> /\ DeskUnchanged

PollRefused ==
  /\ DesktopTakes("polling", Statuses \ {"200", "204", "lost"})
  /\ Ends("error")
  /\ UNCHANGED panel /\ DeskUnchanged

SendAck(received) ==
  /\ desk' = [desk EXCEPT !.step = "acking", !.acks = @ + 1, !.received = received]
  /\ Ask(Desktop, "ack", desk.acks, received)

\* The body may be cut off; a picture that was read is decrypted, and then
\* acknowledged.
PictureArrives ==
  /\ DesktopTakes("polling", {"200"})
  /\ \/ Ends("error")
     \/ cancelled /\ Ends("none")
     \/ ~cancelled /\ SendAck(answers[Desktop].envelope)
  /\ UNCHANGED panel /\ DeskUnchanged

\* The picture is used acknowledged or not, unless the user cancels between
\* two tries.
AckAnswered ==
  /\ DesktopTakes("acking", Statuses)
  /\ IF answers[Desktop].status \in {"204", "410"} \/ desk.acks >= DesktopAcks
     THEN Ends("picture")
     ELSE \/ cancelled /\ Ends("none")
          \/ ~cancelled /\ SendAck(desk.received)
  /\ UNCHANGED panel /\ DeskUnchanged

TransferEnds ==
  /\ DesktopTakes("deleting", Statuses)
  /\ desk' = [desk EXCEPT !.step = "done"]
  /\ panel' = [panel EXCEPT !.events = Append(@, "done")]
  /\ UNCHANGED net /\ DeskUnchanged
-----------------------------------------------------------------------------
(* The desktop: the signature panel, on the UI thread *)

PanelUnchanged == UNCHANGED <<relay, expired, net, tails, answers, desk, phones>>

Shows(event) ==
  IF event = "qr" THEN "qr"
  ELSE IF desk.result = "picture" THEN "preview"
  ELSE IF desk.result = "none" THEN "idle" ELSE "error"

\* begin_platform_signature's events.  One is dropped when
\* signature_authority_is_current does not hold, which it may not at any time:
\* the document is being saved or was replaced.  With the last one the task ends,
\* and its authority is gone.
PanelEvent ==
  /\ panel.events # <<>>
  /\ LET last == Head(panel.events) = "done"
         next == [panel EXCEPT !.events = Tail(@), !.authority = IF last THEN "stale" ELSE @]
     IN \/ panel' = next /\ UNCHANGED cancelled
        \/ /\ panel.authority = "shown"
           /\ panel' = [next EXCEPT !.state = Shows(Head(panel.events))]
           /\ cancelled' = (cancelled \/ last)
  /\ PanelUnchanged

Withdraw(state, authority) ==
  panel' = [panel EXCEPT !.state = state, !.authority = authority,
                         !.stopped = @ \/ panel.authority = "shown" \/ authority = "stale"]

\* Bug: the flag is set, the authority stays current.
CancelByFlagOnly ==
  /\ cancelled' = TRUE
  /\ Withdraw("idle", panel.authority)
  /\ PanelUnchanged

\* cancel_signature_operation takes the operation and prepares a new generation
\* of the active document.  Draw, Type, Image, "Draw here instead" and Clear leave
\* the panel idle; "Use phone" and "Use camera" show the next transfer's, or, when
\* the document cannot take a signature now, leave what is shown.
CancelTransfer ==
  /\ cancelled' = TRUE
  /\ \E state \in {"idle", panel.state} \ {"loading", "qr"} :
        Withdraw(state, IF panel.authority = "shown" THEN "stale" ELSE panel.authority)
  /\ PanelUnchanged

\* dismiss_signature_popover, for the active document or, by a frame drawn
\* before another one came to the front, for the one that was active then.
Dismiss ==
  /\ cancelled' = TRUE
  /\ \/ Withdraw("idle", "stale")
     \/ panel.authority = "away" /\ Withdraw("idle", "away")
  /\ PanelUnchanged

\* The open of another document ends and makes it the active one; the panel stays.
OtherOpened ==
  /\ panel.authority = "shown"
  /\ panel' = [panel EXCEPT !.authority = "away"]
  /\ UNCHANGED cancelled /\ PanelUnchanged

\* The transfer's document is made the active one again, which closes the panel
\* over the other (leave_active_document), and the Signature tool opens it; with
\* phone_signature_by_default it begins the next transfer at once.
Reopen ==
  /\ panel.authority = "away"
  /\ cancelled' = TRUE
  /\ \E authority \in {"shown", "stale"} : Withdraw("idle", authority)
  /\ PanelUnchanged

-----------------------------------------------------------------------------
(* The phone: app.js *)

PhoneUnchanged == UNCHANGED <<relay, expired, tails, desk, cancelled, panel>>
PhoneHas(p, s) == phones[p].step = s
\* pairing is set by the page's start and cleared once it is told "sent".
Paired(p) == ~PhoneHas(p, "away") /\ phones[p].told = None

\* initialize, of the page whose link the code holds.
Scan(p) ==
  /\ PhoneHas(p, "away") /\ panel.state = "qr"
  /\ phones' = [phones EXCEPT ![p].step = "idle"]
  /\ UNCHANGED <<net, answers>> /\ PhoneUnchanged

\* Bug: the envelope of the last try is kept.
DrawKeepingUpload(p) ==
  /\ Paired(p) /\ phones[p].shown < MaxDrawn
  /\ phones' = [phones EXCEPT ![p].shown = @ + 1,
                              ![p].mixed = @ \/ phones[p].step \in {"reading", "encrypting"}]
  /\ UNCHANGED <<net, answers>> /\ PhoneUnchanged

\* startDrawing (and clearDrawing), at any moment until the page is told
\* "sent".  mixed records that it fell between Send and the envelope.
Draw(p) ==
  /\ Paired(p) /\ phones[p].shown < MaxDrawn
  /\ phones' = [phones EXCEPT ![p].shown = @ + 1, ![p].pending = None,
                              ![p].mixed = @ \/ phones[p].step \in {"reading", "encrypting"}]
  /\ UNCHANGED <<net, answers>> /\ PhoneUnchanged

\* sendDrawing: the canvas as it is now is read; the button is disabled.
SendDrawing(p) ==
  /\ Paired(p) /\ PhoneHas(p, "idle")
  /\ phones[p].shown > 0 /\ phones[p].sends < MaxSends
  /\ phones' = [phones EXCEPT ![p].step = "reading", ![p].blob = phones[p].shown,
                              ![p].sends = @ + 1]
  /\ UNCHANGED <<net, answers>> /\ PhoneUnchanged

\* sendBlob: without a pending upload the blob is encrypted first; a pending
\* one is sent again as it is.
SendBlob(p) ==
  /\ PhoneHas(p, "reading")
  /\ IF phones[p].pending = None
     THEN phones' = [phones EXCEPT ![p].step = "encrypting"] /\ UNCHANGED net
     ELSE /\ phones' = [phones EXCEPT ![p].step = "sending", ![p].sent = phones[p].pending]
          /\ Ask(p, "put", phones[p].sends, phones[p].pending)
  /\ UNCHANGED answers /\ PhoneUnchanged

\* The await of encryptPayload returns, and the envelope becomes the pending
\* upload whatever was drawn meanwhile.
Encrypted(p) ==
  /\ PhoneHas(p, "encrypting")
  /\ LET e == [phone |-> p, id |-> phones[p].ids + 1, picture |-> phones[p].blob]
     IN /\ phones' = [phones EXCEPT ![p].step = "sending", ![p].pending = e,
                                     ![p].sent = e, ![p].ids = @ + 1]
        /\ Ask(p, "put", phones[p].sends, e)
  /\ UNCHANGED answers /\ PhoneUnchanged

\* The answer of the PUT: "Signature sent", or an error and the button again.
PutAnswered(p) ==
  /\ PhoneHas(p, "sending") /\ answers[p] # None
  /\ answers' = [answers EXCEPT ![p] = None]
  /\ phones' = IF answers[p].status \in {"200", "201"}
               THEN [phones EXCEPT ![p].step = "idle", ![p].pending = None,
                                   ![p].told = phones[p].sent]
               ELSE [phones EXCEPT ![p].step = "idle"]
  /\ UNCHANGED net /\ PhoneUnchanged
-----------------------------------------------------------------------------
RelayStep ==
  \/ \E r \in net : \/ Refuse(r) \/ Create(r) \/ Gone(r) \/ PutPayload(r) \/ GetPayload(r)
                     \/ Acknowledge(r) \/ DeleteSession(r)
  \/ \E t \in tails : SetAlarm(t) \/ DeleteAll(t)
  \/ Expire
  \/ Alarm
NetStep == \E r \in net \cup {t.request : t \in tails} : ConnectionFails(r)
DesktopStep ==
  \/ BeginSession \/ SessionRefused \/ SessionCreated \/ Poll \/ NothingYet \/ PollRefused
  \/ PictureArrives \/ AckAnswered \/ TransferEnds
PanelStep ==
  PanelEvent \/ CancelTransfer \/ Dismiss \/ OtherOpened \/ Reopen
PhoneStep == \E p \in Phones :
  \/ Scan(p) \/ Draw(p) \/ SendDrawing(p) \/ SendBlob(p) \/ Encrypted(p) \/ PutAnswered(p)

Next == RelayStep \/ NetStep \/ DesktopStep \/ PanelStep \/ PhoneStep

Spec == Init /\ [][Next]_vars

\* Time passes, an alarm that is set goes off (the platform repeats one that
\* fails), and what follows a transaction is done.  Nothing is asked of the
\* network, the desktop, the phones or the users.
Fairness ==
  /\ WF_vars(Expire)
  /\ WF_vars(Alarm)
  /\ WF_vars(\E t \in tails : SetAlarm(t) \/ DeleteAll(t))
FairSpec == Spec /\ Fairness
-----------------------------------------------------------------------------
TypeOK ==
  /\ relay \in [session : Session \cup {None}, payload : Envelope \cup {None},
               alarm : BOOLEAN]
  /\ expired \in BOOLEAN
  /\ net \subseteq Request
  /\ \A t \in tails : t.request \in Request /\ t.status \in {"201", "204", "410"}
  /\ answers \in [Clients -> Answer \cup {None}]
  /\ desk.step \in {"start", "creating", "poll", "polling", "acking", "deleting", "done"}
  /\ desk.polls \in 0..DesktopPolls /\ desk.acks \in 0..DesktopAcks
  /\ desk.received \in Envelope \cup {None}
  /\ desk.result \in Results \cup {None}
  /\ cancelled \in BOOLEAN
  /\ panel.state \in {"loading", "qr", "idle", "error", "preview"}
  /\ panel.authority \in {"shown", "away", "stale"} /\ panel.stopped \in BOOLEAN
  /\ panel.events \in {<<>>, <<"qr">>, <<"done">>, <<"qr", "done">>}
  /\ \A p \in Phones :
       /\ phones[p].step \in {"away", "idle", "reading", "encrypting", "sending"}
       /\ {phones[p].shown, phones[p].blob} \subseteq Pictures
       /\ {phones[p].pending, phones[p].sent, phones[p].told} \subseteq Envelope \cup {None}
       /\ phones[p].sends \in 0..MaxSends /\ phones[p].ids \in 0..phones[p].sends
       /\ phones[p].mixed \in BOOLEAN

\* Of all who scanned the code at most one is told "Signature sent", and if
\* the desktop ever has a picture it is that one: putPayload keeps the first
\* envelope and answers 200 only for the same bytes, whatever was lost,
\* repeated or came late.
PhoneAndDesktopAgree == \A p \in Phones : phones[p].told # None =>
  /\ \A q \in Phones \ {p} : phones[q].told = None
  /\ desk.received \in {None, phones[p].told}
  /\ relay.payload \in {None, phones[p].told}

\* A stored picture leaves the relay before it expires only once the desktop
\* has read it or has given the transfer up: a poll whose answer is lost
\* must not lose the signature.
KeptUntilReceived ==
  [][(relay.payload # None /\ relay'.payload = None) =>
       expired \/ desk.received = relay.payload \/ desk.result # None]_vars

\* After Cancel (or another choice in the panel) with its document in front the
\* transfer never shows its picture, not even one that had arrived and was being
\* acknowledged, whatever document is brought to the front and however often the
\* panel is opened again.
CancelledShowsNothing ==
  [][panel.stopped /\ panel.state # "preview" => panel'.state # "preview"]_vars

\* The desktop may use all its polls and acknowledgements, 180 of 180 and 3 of 12
\* in the code: the relay's limits for a session never end a transfer.  (What the
\* limiters at its edge refuse, with 429 as well, is "refused" here.)
OwnLimitsNeverBite == answers[Desktop] # None => answers[Desktop].status # "429"

\* The state has its shape, and no limit of the relay ends a transfer.
TransferInv == TypeOK /\ OwnLimitsNeverBite

\* What a page reports as sent is the drawing at its last press of Send, also
\* after tries that failed, unless it was drawn on while being encrypted.
SentIsLastDrawing == \A p \in Phones : phones[p].told # None /\ ~phones[p].mixed =>
  phones[p].told.picture = phones[p].blob

\* The relay forgets: whatever is lost, refused or late, and whoever goes
\* away, nothing stays in storage.
RelayForgets == <>[](relay = Empty)
=============================================================================
