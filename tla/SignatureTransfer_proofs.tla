----------------------- MODULE SignatureTransfer_proofs -----------------------
(***************************************************************************)
(* One picture per transfer, kept until the desktop has it or gives up,    *)
(* for any number of phones and any limits: the run has one phone.         *)
(*                                                                         *)
(* Who knows a picture knows it from the relay, which holds one for the    *)
(* session's whole life (OnePicture).  For that a page must attach each    *)
(* answer to the envelope it sent (Turns), and the session must be created *)
(* once, before anybody has its link (Opening): a put, a failed alarm or a *)
(* late deletion can then not meet a second session.                       *)
(*                                                                         *)
(* The relay's limits are reached by requests, late ones included, and     *)
(* those that wait plus those counted are at most those made (Within).     *)
(***************************************************************************)
EXTENDS SignatureTransfer, FiniteSetTheorems, SequenceTheorems, TLAPS

Envelopes == [phone : Phones, id : Int, picture : Int]
Requests == [from : Clients, op : {"create", "put", "get", "ack", "delete"}, n : Int,
             envelope : Envelopes \cup {None}, late : BOOLEAN]
Answers == [status : Statuses, envelope : Envelopes \cup {None}]
Tails == [request : Requests, status : {"201", "204", "410"}]
Pages == [step : {"away", "idle", "reading", "encrypting", "sending"}, shown : Int,
          pending : Envelopes \cup {None}, sent : Envelopes \cup {None}, blob : Int,
          sends : Int, ids : Int, mixed : BOOLEAN, told : Envelopes \cup {None}]
Desks == [step : {"start", "creating", "poll", "polling", "acking", "deleting", "done"},
          polls : Int, acks : Int, received : Envelopes \cup {None},
          result : Results \cup {None}]
States == {"loading", "qr", "idle", "error", "preview"}
Authorities == {"shown", "away", "stale"}
Panels == [state : States, authority : Authorities, events : Seq({"qr", "done"}),
           stopped : BOOLEAN]

RelayTypes == relay \in [session : Session \cup {None}, payload : Envelopes \cup {None},
                         alarm : BOOLEAN]
NetTypes ==
    /\ net \subseteq Requests /\ tails \subseteq Tails
    /\ answers \in [Clients -> Answers \cup {None}]
DeskTypes == desk \in Desks /\ panel \in Panels
PageTypes == phones \in [Phones -> Pages]
Types == RelayTypes /\ NetTypes /\ DeskTypes /\ PageTypes

\* Phones upload, the desktop asks everything else.
Senders ==
    /\ \A r \in net : r.from \in Phones <=> r.op = "put"
    /\ \A t \in tails : t.status = "201" => t.request.from = Desktop

\* A page waits for one answer at a time, that of the envelope it sent last.
Current(r, p) == r.from = p /\ ~r.late
Turns(p) ==
    /\ \A r, s \in net : Current(r, p) /\ Current(s, p) => r = s
    /\ \A t, u \in tails : Current(t.request, p) /\ Current(u.request, p) => t = u
    /\ \A r \in net, t \in tails : ~ (Current(r, p) /\ Current(t.request, p))
    /\ \A r \in net : Current(r, p) => /\ phones[p].step = "sending" /\ answers[p] = None
                                       /\ r.envelope = phones[p].sent
    /\ \A t \in tails : Current(t.request, p) =>
           phones[p].step = "sending" /\ answers[p] = None
    /\ answers[p] # None => phones[p].step = "sending"

\* The one session has been created; nothing will create another.
Created == desk.step # "start" /\ \A r \in net : r.op # "create"
\* ... and its alarm is set: what is stored from now on, no failed alarm takes.
Ready == Created /\ \A t \in tails : t.status # "201"

\* Its link leads to the relay: somebody has it, or something came of it.
Led ==
    \/ relay.payload # None
    \/ answers[Desktop] # None /\ answers[Desktop].status = "201"
    \/ desk.step \notin {"start", "creating", "done"}
    \/ panel.state = "qr"
    \/ \E i \in 1..Len(panel.events) : panel.events[i] = "qr"
    \/ \E p \in Phones : phones[p].step # "away"
    \/ \E r \in net : r.op # "create"

\* The session is created once, and only then its link leads anyone to the relay.
OneCreate ==
    /\ \A r, s \in net : r.op = "create" /\ s.op = "create" => r = s
    /\ desk.step = "start" => \A r \in net : r.op # "create"
OneAlarm == \A t, u \in tails : t.status = "201" /\ u.status = "201" => t = u
OneSession ==
    /\ relay.session # None \/ tails # {} => Created
    /\ relay.session = None => relay.payload = None
    /\ \A t \in tails : t.status # "201" => Ready /\ relay.session = None
Opening == OneCreate /\ OneAlarm /\ OneSession /\ (Led => Ready)

\* What the desktop has asked.
Asking ==
    /\ \A r \in net : r.op = "ack" =>
           r.envelope = desk.received /\ desk.step \in {"acking", "deleting", "done"}
    /\ \A r \in net : r.op = "delete" => desk.result # None

\* An envelope that the relay holds, or held when it said so to somebody.
Known(e) ==
    /\ e # None
    /\ \/ e = relay.payload
       \/ e = desk.received
       \/ answers[Desktop] # None /\ e = answers[Desktop].envelope
       \/ \E p \in Phones :
            \/ e = phones[p].told
            \/ /\ answers[p] # None /\ answers[p].status \in {"200", "201"}
               /\ e = phones[p].sent

OnePicture ==
    /\ \A e, f \in Envelopes : Known(e) /\ Known(f) => e = f
    /\ \A e \in Envelopes : Known(e) => Ready
    /\ relay.payload = None /\ relay.session # None => \A e \in Envelopes : ~ Known(e)

\* What a page has encrypted is its own, and what it showed unless it was drawn on.
Page(p) ==
    LET page == phones[p] IN
    /\ \A e \in {page.pending, page.sent, page.told} : e # None => e.phone = p
    /\ ~ page.mixed =>
         /\ page.pending # None => page.pending.picture = page.shown
         /\ page.step \in {"reading", "encrypting"} => page.blob = page.shown
         /\ page.step = "sending" => page.sent.picture = page.blob
         /\ page.told # None => page.told.picture = page.blob
    /\ page.told # None => page.step = "idle"

TransfersInv ==
    /\ Types /\ Senders /\ Opening /\ Asking /\ OnePicture
    /\ \A p \in Phones : Turns(p) /\ Page(p)

\* A cancellation in front of the transfer's document ends its authority for good.
CancelInv == panel.stopped => panel.authority = "stale"

\* A step belongs to one actor, and leaves alone what is not its own.
LEMMA StepsAreLocal ==
    /\ RelayStep => UNCHANGED <<desk, cancelled, panel, phones>>
    /\ NetStep => UNCHANGED <<relay, expired, desk, cancelled, panel, phones>>
    /\ DesktopStep => UNCHANGED <<relay, expired, tails, cancelled, phones>>
    /\ PanelStep => UNCHANGED <<relay, expired, net, tails, answers, desk, phones>>
    /\ PhoneStep => UNCHANGED <<relay, expired, tails, desk, cancelled, panel>>
  <1>1. RelayStep => UNCHANGED <<desk, cancelled, panel, phones>>
    BY DEF RelayStep, Refuse, Create, Gone, PutPayload, GetPayload, Acknowledge, DeleteSession,
           SetAlarm, DeleteAll, Expire, Alarm, Untouched
  <1>2. NetStep => UNCHANGED <<relay, expired, desk, cancelled, panel, phones>>
    BY DEF NetStep, ConnectionFails
  <1>3. DesktopStep => UNCHANGED <<relay, expired, tails, cancelled, phones>>
    BY DEF DesktopStep, BeginSession, SessionRefused, SessionCreated, Poll, NothingYet,
           PollRefused, PictureArrives, AckAnswered, TransferEnds, DeskUnchanged
  <1>4. PanelStep => UNCHANGED <<relay, expired, net, tails, answers, desk, phones>>
    BY DEF PanelStep, PanelEvent, CancelTransfer, Dismiss, OtherOpened, Reopen, PanelUnchanged
  <1>5. PhoneStep => UNCHANGED <<relay, expired, tails, desk, cancelled, panel>>
    BY DEF PhoneStep, Scan, Draw, SendDrawing, SendBlob, Encrypted, PutAnswered, PhoneUnchanged
  <1>6. QED
    BY <1>1, <1>2, <1>3, <1>4, <1>5

LEMMA Asked ==
    ASSUME Types, NEW c \in Clients, NEW op \in {"create", "put", "get", "ack", "delete"},
           NEW n \in Int, NEW e \in Envelopes \cup {None}, Ask(c, op, n, e)
    PROVE  net' \subseteq Requests
  <1>1. [from |-> c, op |-> op, n |-> n, envelope |-> e, late |-> FALSE] \in Requests
    BY DEF Requests
  <1>2. QED
    BY <1>1 DEF Ask, Types, NetTypes

LEMMA NumbersAsked ==
    ASSUME Types
    PROVE  desk.polls \in Int /\ desk.acks \in Int /\ 0 \in Int
           /\ \A p \in Phones : phones[p].sends \in Int
  BY DEF Types, DeskTypes, PageTypes, Desks, Pages

LEMMA EndsTypes ==
    ASSUME Types, NEW result \in Results, Ends(result)
    PROVE  desk' \in Desks /\ net' \subseteq Requests
  <1>1. desk' \in Desks
    BY DEF Types, DeskTypes, Desks, Ends
  <1>2. Ask(Desktop, "delete", 0, None)
    BY DEF Ends
  <1>3. QED
    BY <1>1, <1>2, Asked DEF Clients

LEMMA SendAckTypes ==
    ASSUME Types, NEW e \in Envelopes \cup {None}, SendAck(e)
    PROVE  desk' \in Desks /\ net' \subseteq Requests
  <1>1. desk' = [step |-> "acking", polls |-> desk.polls, acks |-> desk.acks + 1,
                 received |-> e, result |-> desk.result]
    BY DEF Types, DeskTypes, Desks, SendAck
  <1>2. desk' \in Desks
    BY <1>1 DEF Types, DeskTypes, Desks
  <1>3. net' \subseteq Requests
    BY Asked, NumbersAsked DEF SendAck, Clients
  <1>4. QED
    BY <1>2, <1>3

LEMMA EventsTypes ==
    ASSUME Types, NEW event \in {"qr", "done"},
           panel' = [panel EXCEPT !.events = Append(@, event)]
    PROVE  panel' \in Panels
  <1>1. Append(panel.events, event) \in Seq({"qr", "done"})
    BY DEF Types, DeskTypes, Panels
  <1>2. QED
    BY <1>1 DEF Types, DeskTypes, Panels

LEMMA RelayStepTypes ==
    ASSUME Types, RelayStep
    PROVE  RelayTypes' /\ NetTypes'
  <1>1. ASSUME NEW r \in net, NEW status \in Statuses, NEW e \in Envelopes \cup {None},
               Respond(r, status, e)
        PROVE  NetTypes'
    <2>1. [status |-> status, envelope |-> e] \in Answers
      BY DEF Answers
    <2>2. r.from \in Clients
      BY DEF Types, NetTypes, Requests
    <2>3. QED
      BY <1>1, <2>1, <2>2 DEF Respond, Answered, Types, NetTypes
  <1>2. ASSUME NEW r \in net, NEW status \in {"201", "204", "410"}, Follow(r, status)
        PROVE  NetTypes'
    <2>1. [request |-> r, status |-> status] \in Tails
      BY DEF Types, NetTypes, Tails
    <2>2. QED
      BY <1>2, <2>1 DEF Follow, Types, NetTypes
  <1>3. ASSUME NEW t \in tails, NEW status \in Statuses, Finish(t),
               Answered(t.request, status, None)
        PROVE  NetTypes'
    <2>1. [status |-> status, envelope |-> None] \in Answers
      BY DEF Answers
    <2>2. t.request.from \in Clients
      BY DEF Types, NetTypes, Tails, Requests
    <2>3. QED
      BY <1>3, <2>1, <2>2 DEF Finish, Answered, Types, NetTypes
  <1>4. relay.payload \in Envelopes \cup {None} /\ \A r \in net : r.envelope \in Envelopes \cup {None}
    BY DEF Types, RelayTypes, NetTypes, Requests
  <1>5. Empty \in [session : Session \cup {None}, payload : Envelopes \cup {None},
                   alarm : BOOLEAN]
    BY DEF Empty
  <1>6. {"200", "201", "204", "409", "410", "429", "refused", "5xx"} \subseteq Statuses
    BY DEF Statuses
  <1>7. ASSUME NEW r \in net, Refuse(r)
        PROVE  RelayTypes' /\ NetTypes'
    BY <1>7, <1>1, <1>6 DEF Refuse, Types, RelayTypes
  <1>8. ASSUME NEW r \in net, Create(r)
        PROVE  RelayTypes' /\ NetTypes'
    <2>1. NewSession \in Session
      BY LimitsAssumption DEF NewSession, Session
    <2>2. RelayTypes'
      BY <1>8, <2>1 DEF Create, Types, RelayTypes
    <2>3. NetTypes'
      BY <1>8, <1>1, <1>2, <1>6 DEF Create
    <2>4. QED
      BY <2>2, <2>3
  <1>9. ASSUME NEW r \in net, Gone(r)
        PROVE  RelayTypes' /\ NetTypes'
    BY <1>9, <1>2, <1>5 DEF Gone, Types, RelayTypes
  <1>10. ASSUME NEW r \in net, PutPayload(r)
         PROVE  RelayTypes' /\ NetTypes'
    <2>1. CASE relay.session.uploads >= MaxUploads
      BY <1>10, <2>1, <1>1, <1>6 DEF PutPayload, Types, RelayTypes
    <2>2. CASE ~ relay.session.uploads >= MaxUploads
      <3>1. NetTypes'
        BY <1>10, <1>1, <1>6 DEF PutPayload
      <3>2. PICK session \in Session : session = relay.session
        BY <1>10 DEF PutPayload, Live, Types, RelayTypes
      <3>3. [session EXCEPT !.uploads = @ + 1] \in Session
        BY <2>2, <3>2, LimitsAssumption DEF Session
      <3>4. relay' = [session |-> [session EXCEPT !.uploads = @ + 1],
                      payload |-> IF relay.payload = None THEN r.envelope ELSE relay.payload,
                      alarm |-> relay.alarm]
        BY <1>10, <2>2, <3>2 DEF PutPayload, Types, RelayTypes
      <3>5. QED
        BY <3>1, <3>3, <3>4, <1>4 DEF Types, RelayTypes
    <2>3. QED
      BY <2>1, <2>2
  <1>11. ASSUME NEW r \in net, GetPayload(r)
         PROVE  RelayTypes' /\ NetTypes'
    <2>1. NetTypes'
      BY <1>11, <1>1, <1>4, <1>6 DEF GetPayload
    <2>2. RelayTypes'
      BY <1>11, LimitsAssumption DEF GetPayload, Live, Types, RelayTypes, Session
    <2>3. QED
      BY <2>1, <2>2
  <1>12. ASSUME NEW r \in net, Acknowledge(r)
         PROVE  RelayTypes' /\ NetTypes'
    <2>1. NetTypes'
      BY <1>12, <1>1, <1>2, <1>6 DEF Acknowledge
    <2>2. relay' \in {Empty, relay, [relay EXCEPT !.session.acks = @ + 1]}
      BY <1>12 DEF Acknowledge
    <2>3. ASSUME relay' = [relay EXCEPT !.session.acks = @ + 1], relay.session.acks < MaxAcks
          PROVE  RelayTypes'
      BY <1>12, <2>3, LimitsAssumption DEF Acknowledge, Live, Types, RelayTypes, Session
    <2>4. relay' \in {Empty, relay} \/ (relay' = [relay EXCEPT !.session.acks = @ + 1]
                                        /\ ~ relay.session.acks >= MaxAcks)
      BY <1>12 DEF Acknowledge
    <2>5. relay.session.acks \in Int
      BY <1>12, LimitsAssumption DEF Acknowledge, Live, Types, RelayTypes, Session
    <2>6. QED
      BY <2>1, <2>3, <2>4, <2>5, <1>5, LimitsAssumption DEF Types, RelayTypes
  <1>13. ASSUME NEW r \in net, DeleteSession(r)
         PROVE  RelayTypes' /\ NetTypes'
    BY <1>13, <1>2, <1>5 DEF DeleteSession, RelayTypes
  <1>14. ASSUME NEW t \in tails, SetAlarm(t) \/ DeleteAll(t)
         PROVE  RelayTypes' /\ NetTypes'
    <2>1. t.status \in Statuses
      BY DEF Types, NetTypes, Tails, Statuses
    <2>2. NetTypes'
      BY <1>14, <2>1, <1>3, <1>6 DEF SetAlarm, DeleteAll
    <2>3. RelayTypes'
      BY <1>14 DEF SetAlarm, DeleteAll, Types, RelayTypes
    <2>4. QED
      BY <2>2, <2>3
  <1>15. CASE Expire \/ Alarm
    BY <1>15, <1>5 DEF Expire, Alarm, Types, RelayTypes, NetTypes
  <1>16. QED
    BY <1>7, <1>8, <1>9, <1>10, <1>11, <1>12, <1>13, <1>14, <1>15 DEF RelayStep

LEMMA NetStepTypes ==
    ASSUME Types, NetStep
    PROVE  NetTypes'
  <1>1. PICK r \in net \cup {t.request : t \in tails} : ConnectionFails(r)
    BY DEF NetStep
  <1>2. r \in Requests
    BY DEF Types, NetTypes, Tails
  <1>3. [r EXCEPT !.late = TRUE] \in Requests /\ r.from \in Clients
    BY <1>2 DEF Requests
  <1>4. answers' \in [Clients -> Answers \cup {None}]
    BY <1>1, <1>3 DEF ConnectionFails, Types, NetTypes, Answers, Statuses
  <1>5. CASE r \in net /\ net' = (net \ {r}) \cup {[r EXCEPT !.late = TRUE]} /\ tails' = tails
    BY <1>3, <1>4, <1>5 DEF Types, NetTypes
  <1>6. ASSUME NEW t \in tails, t.request = r, net' = net,
               tails' = (tails \ {t}) \cup {[t EXCEPT !.request = [r EXCEPT !.late = TRUE]]}
        PROVE  NetTypes'
    <2>1. [t EXCEPT !.request = [r EXCEPT !.late = TRUE]] \in Tails
      BY <1>3 DEF Types, NetTypes, Tails
    <2>2. QED
      BY <2>1, <1>4, <1>6 DEF Types, NetTypes
  <1>7. QED
    BY <1>1, <1>5, <1>6 DEF ConnectionFails

LEMMA DesktopStepTypes ==
    ASSUME Types, DesktopStep
    PROVE  NetTypes' /\ DeskTypes'
  <1>1. ASSUME answers' \in {answers, [answers EXCEPT ![Desktop] = None]}, net' \subseteq Requests
        PROVE  NetTypes'
    BY <1>1, StepsAreLocal DEF Types, NetTypes
  <1>2. net \subseteq Requests /\ desk \in Desks /\ panel \in Panels
    BY DEF Types, NetTypes, DeskTypes
  <1>3. Desktop \in Clients /\ None \in Envelopes \cup {None}
    BY DEF Clients
  <1>4. CASE BeginSession
    <2>1. CASE cancelled
      <3>1. desk' \in Desks
        BY <1>4, <2>1, <1>2 DEF BeginSession, Desks, Results
      <3>2. panel' \in Panels
        BY <1>4, <2>1, EventsTypes DEF BeginSession
      <3>3. QED
        BY <1>4, <2>1, <3>1, <3>2, <1>1, <1>2 DEF BeginSession, DeskTypes
    <2>2. CASE ~ cancelled
      <3>1. desk' \in Desks
        BY <1>4, <2>2, <1>2 DEF BeginSession, Desks
      <3>2. Ask(Desktop, "create", 0, None)
        BY <1>4, <2>2 DEF BeginSession
      <3>3. net' \subseteq Requests
        BY <3>2, <1>3, Asked
      <3>4. QED
        BY <1>4, <2>2, <3>1, <3>3, <1>1, <1>2 DEF BeginSession, DeskTypes
    <2>3. QED
      BY <2>1, <2>2
  <1>5. CASE SessionRefused \/ TransferEnds
    <2>1. desk' \in Desks
      BY <1>5, <1>2 DEF SessionRefused, TransferEnds, Desks, Results
    <2>2. panel' \in Panels
      BY <1>5, EventsTypes DEF SessionRefused, TransferEnds
    <2>3. QED
      BY <1>5, <2>1, <2>2, <1>1, <1>2 DEF SessionRefused, TransferEnds, DesktopTakes, DeskTypes
  <1>6. ASSUME NEW result \in Results, Ends(result), UNCHANGED panel,
               answers' \in {answers, [answers EXCEPT ![Desktop] = None]}
        PROVE  NetTypes' /\ DeskTypes'
    BY <1>6, <1>1, <1>2, EndsTypes DEF DeskTypes
  <1>7. CASE SessionCreated
    <2>1. CASE Ends("error") /\ UNCHANGED panel
      BY <1>7, <2>1, <1>6 DEF SessionCreated, DesktopTakes, Results
    <2>2. CASE Ends("none") /\ UNCHANGED panel
      BY <1>7, <2>2, <1>6 DEF SessionCreated, DesktopTakes, Results
    <2>3. CASE /\ desk' = [desk EXCEPT !.step = "poll"] /\ UNCHANGED net
               /\ panel' = [panel EXCEPT !.events = Append(@, "qr")]
      <3>1. desk' \in Desks /\ panel' \in Panels
        BY <2>3, <1>2, EventsTypes DEF Desks
      <3>2. QED
        BY <1>7, <2>3, <3>1, <1>1, <1>2 DEF SessionCreated, DesktopTakes, DeskTypes
    <2>4. QED
      BY <1>7, <2>1, <2>2, <2>3 DEF SessionCreated
  <1>8. CASE Poll
    <2>1. CASE Ends("error") \/ Ends("none")
      BY <1>8, <2>1, <1>6 DEF Poll, Results
    <2>2. CASE /\ desk' = [desk EXCEPT !.step = "polling", !.polls = @ + 1]
               /\ Ask(Desktop, "get", desk.polls, None)
      <3>1. desk' = [step |-> "polling", polls |-> desk.polls + 1, acks |-> desk.acks,
                     received |-> desk.received, result |-> desk.result]
        BY <2>2, <1>2 DEF Desks
      <3>2. desk' \in Desks
        BY <3>1, <1>2 DEF Desks
      <3>3. net' \subseteq Requests
        BY <2>2, <1>3, Asked, NumbersAsked
      <3>4. QED
        BY <1>8, <3>2, <3>3, <1>1, <1>2 DEF Poll, DeskTypes
    <2>3. QED
      BY <1>8, <2>1, <2>2 DEF Poll
  <1>9. CASE NothingYet
    <2>1. desk' \in Desks
      BY <1>9, <1>2 DEF NothingYet, Desks
    <2>2. QED
      BY <1>9, <2>1, <1>1, <1>2 DEF NothingYet, DesktopTakes, DeskTypes
  <1>10. CASE PollRefused
    BY <1>10, <1>6 DEF PollRefused, DesktopTakes, Results
  <1>11. ASSUME NEW e \in Envelopes \cup {None}, SendAck(e), UNCHANGED panel,
                answers' = [answers EXCEPT ![Desktop] = None]
         PROVE  NetTypes' /\ DeskTypes'
    BY <1>11, <1>1, <1>2, SendAckTypes DEF DeskTypes
  <1>12. CASE PictureArrives
    <2>1. answers[Desktop].envelope \in Envelopes \cup {None}
      BY <1>12, <1>3 DEF PictureArrives, DesktopTakes, Types, NetTypes, Answers
    <2>2. CASE Ends("error") \/ Ends("none")
      BY <1>12, <2>2, <1>6 DEF PictureArrives, DesktopTakes, Results
    <2>3. CASE SendAck(answers[Desktop].envelope)
      BY <1>12, <2>1, <2>3, <1>11 DEF PictureArrives, DesktopTakes
    <2>4. QED
      BY <1>12, <2>2, <2>3 DEF PictureArrives
  <1>13. CASE AckAnswered
    <2>1. desk.received \in Envelopes \cup {None}
      BY <1>2 DEF Desks
    <2>2. CASE Ends("picture") \/ Ends("none")
      BY <1>13, <2>2, <1>6 DEF AckAnswered, DesktopTakes, Results
    <2>3. CASE SendAck(desk.received)
      BY <1>13, <2>1, <2>3, <1>11 DEF AckAnswered, DesktopTakes
    <2>4. QED
      BY <1>13, <2>2, <2>3 DEF AckAnswered
  <1>14. QED
    BY <1>4, <1>5, <1>7, <1>8, <1>9, <1>10, <1>12, <1>13 DEF DesktopStep

LEMMA WithdrawTypes ==
    ASSUME Types, NEW state \in States, NEW authority \in Authorities, Withdraw(state, authority)
    PROVE  /\ panel' \in Panels /\ panel'.state = state /\ panel'.authority = authority
           /\ panel'.events = panel.events
           /\ panel'.stopped = (panel.stopped \/ panel.authority = "shown" \/ authority = "stale")
  <1>1. PICK old \in Panels : old = panel
    BY DEF Types, DeskTypes
  <1>2. PICK stopped \in BOOLEAN :
           stopped = (old.stopped \/ old.authority = "shown" \/ authority = "stale")
    OBVIOUS
  <1>3. panel' = [old EXCEPT !.state = state, !.authority = authority, !.stopped = stopped]
    BY <1>1, <1>2, Zenon DEF Withdraw
  <1>4. panel' = [state |-> state, authority |-> authority, events |-> old.events,
                  stopped |-> stopped]
    BY <1>1, <1>3 DEF Panels
  <1>5. QED
    BY <1>1, <1>2, <1>4 DEF Panels

\* The user's choices withdraw the transfer; it comes from the "shown" to the
\* "stale", unless another document is in front.
LEMMA Choices ==
    ASSUME Types, CancelTransfer \/ Dismiss \/ Reopen
    PROVE  \E state \in {"idle", panel.state} \cap States, authority \in Authorities :
             /\ Withdraw(state, authority)
             /\ panel.authority # "away" => authority = "stale"
             /\ state = "qr" => panel.state = "qr"
  <1>1. panel.authority \in Authorities /\ panel.state \in States
    BY DEF Types, DeskTypes, Panels
  <1>2. CASE CancelTransfer
    <2>1. PICK state \in {"idle", panel.state} \ {"loading", "qr"} :
             Withdraw(state, IF panel.authority = "shown" THEN "stale" ELSE panel.authority)
      BY <1>2 DEF CancelTransfer
    <2>2. PICK authority \in Authorities :
             authority = IF panel.authority = "shown" THEN "stale" ELSE panel.authority
      BY <1>1 DEF Authorities
    <2>3. Withdraw(state, authority)
      BY <2>1, <2>2
    <2>4. /\ state \in {"idle", panel.state} \cap States /\ state # "qr"
          /\ panel.authority # "away" => authority = "stale"
      BY <1>1, <2>1, <2>2 DEF Authorities, States
    <2>5. QED
      BY <2>3, <2>4
  <1>3. CASE Dismiss \/ Reopen
    <2>1. PICK authority \in Authorities :
             Withdraw("idle", authority) /\ (panel.authority # "away" => authority = "stale")
      BY <1>3 DEF Dismiss, Reopen, Authorities
    <2>2. "idle" \in {"idle", panel.state} \cap States
      BY DEF States
    <2>3. QED
      BY <2>1, <2>2
  <1>4. QED
    BY <1>2, <1>3

LEMMA EventsFall ==
    ASSUME Types, PanelEvent
    PROVE  \E state \in {panel.state, Shows(Head(panel.events))},
              authority \in {panel.authority, "stale"} :
             /\ panel' = [state |-> state, authority |-> authority, events |-> Tail(panel.events),
                          stopped |-> panel.stopped]
             /\ state # panel.state => panel.authority = "shown"
  <1>1. PICK old \in Panels : old = panel
    BY DEF Types, DeskTypes
  <1>2. PICK authority \in {old.authority, "stale"} :
           LET next == [old EXCEPT !.events = Tail(@), !.authority = authority]
           IN \/ panel' = next
              \/ old.authority = "shown" /\ panel' = [next EXCEPT !.state = Shows(Head(old.events))]
    BY <1>1, Zenon DEF PanelEvent
  <1>3. QED
    BY <1>1, <1>2 DEF Panels

LEMMA PanelStepTypes ==
    ASSUME Types, PanelStep
    PROVE  DeskTypes'
  <1>1. desk' = desk /\ panel \in Panels /\ desk \in Desks
    BY StepsAreLocal DEF Types, DeskTypes
  <1>2. CASE PanelEvent
    <2>1. Tail(panel.events) \in Seq({"qr", "done"})
      BY <1>1, <1>2 DEF PanelEvent, Panels
    <2>2. Shows(Head(panel.events)) \in States
      BY DEF Shows, States
    <2>3. PICK state \in States, authority \in Authorities :
             panel' = [state |-> state, authority |-> authority, events |-> Tail(panel.events),
                       stopped |-> panel.stopped]
      <3>1. panel.state \in States /\ panel.authority \in Authorities /\ "stale" \in Authorities
        BY <1>1 DEF Panels, Authorities
      <3>2. QED
        BY <1>2, <2>2, <3>1, EventsFall
    <2>4. panel.stopped \in BOOLEAN
      BY <1>1 DEF Panels
    <2>5. panel' \in Panels
      BY <2>1, <2>3, <2>4 DEF Panels
    <2>6. QED
      BY <1>1, <2>5 DEF DeskTypes
  <1>3. CASE CancelTransfer \/ Dismiss \/ Reopen
    BY <1>1, <1>3, Choices, WithdrawTypes DEF DeskTypes
  <1>4. CASE OtherOpened
    BY <1>1, <1>4 DEF OtherOpened, DeskTypes, Panels, Authorities
  <1>5. QED
    BY <1>2, <1>3, <1>4 DEF PanelStep

\* A field of a page may be given any value of its type.
LEMMA PageFields ==
    \A page \in Pages :
       /\ \A n \in Int : /\ [page EXCEPT !.shown = n] \in Pages /\ [page EXCEPT !.ids = n] \in Pages
                         /\ [page EXCEPT !.blob = n] \in Pages /\ [page EXCEPT !.sends = n] \in Pages
       /\ \A e \in Envelopes \cup {None} : /\ [page EXCEPT !.pending = e] \in Pages
                                           /\ [page EXCEPT !.sent = e] \in Pages
                                           /\ [page EXCEPT !.told = e] \in Pages
       /\ \A mixed \in BOOLEAN : [page EXCEPT !.mixed = mixed] \in Pages
       /\ \A step \in {"idle", "reading", "encrypting", "sending"} :
             [page EXCEPT !.step = step] \in Pages
  <1>1. \A page \in Pages : \A n \in Int :
           [page EXCEPT !.shown = n] \in Pages /\ [page EXCEPT !.ids = n] \in Pages
    BY DEF Pages
  <1>2. \A page \in Pages : \A n \in Int :
           [page EXCEPT !.blob = n] \in Pages /\ [page EXCEPT !.sends = n] \in Pages
    BY DEF Pages
  <1>3. \A page \in Pages : \A e \in Envelopes \cup {None} : /\ [page EXCEPT !.pending = e] \in Pages
                                                            /\ [page EXCEPT !.sent = e] \in Pages
    BY DEF Pages
  <1>4. \A page \in Pages : \A e \in Envelopes \cup {None} : [page EXCEPT !.told = e] \in Pages
    BY DEF Pages
  <1>5. \A page \in Pages : \A mixed \in BOOLEAN : [page EXCEPT !.mixed = mixed] \in Pages
    BY DEF Pages
  <1>6. \A page \in Pages : \A step \in {"idle", "reading", "encrypting", "sending"} :
           [page EXCEPT !.step = step] \in Pages
    BY DEF Pages
  <1>7. QED
    BY <1>1, <1>2, <1>3, <1>4, <1>5, <1>6, Zenon

LEMMA PageChanges ==
    ASSUME Types, NEW p \in Phones, NEW page \in Pages, phones' = [phones EXCEPT ![p] = page]
    PROVE  PageTypes' /\ phones'[p] = page /\ \A q \in Phones \ {p} : phones'[q] = phones[q]
  BY DEF Types, PageTypes

\* The envelope an upload would have.
Sealed(p) == [phone |-> p, id |-> phones[p].ids + 1, picture |-> phones[p].blob]

\* What each step of a phone makes of its page, and what it asks.
PageSteps(p, page) ==
    \/ /\ Scan(p) /\ net' = net /\ answers' = answers
       /\ page = [phones[p] EXCEPT !.step = "idle"]
    \/ /\ Draw(p) /\ net' = net /\ answers' = answers
       /\ \E mixed \in BOOLEAN :
            /\ mixed = (phones[p].mixed \/ phones[p].step \in {"reading", "encrypting"})
            /\ page = [phones[p] EXCEPT !.shown = @ + 1, !.pending = None, !.mixed = mixed]
    \/ /\ SendDrawing(p) /\ net' = net /\ answers' = answers
       /\ page = [phones[p] EXCEPT !.step = "reading", !.blob = phones[p].shown, !.sends = @ + 1]
    \/ /\ SendBlob(p) /\ net' = net /\ answers' = answers /\ phones[p].pending = None
       /\ page = [phones[p] EXCEPT !.step = "encrypting"]
    \/ /\ SendBlob(p) /\ answers' = answers /\ phones[p].pending # None
       /\ Ask(p, "put", phones[p].sends, phones[p].pending)
       /\ page = [phones[p] EXCEPT !.step = "sending", !.sent = phones[p].pending]
    \/ /\ Encrypted(p) /\ answers' = answers
       /\ Ask(p, "put", phones[p].sends, Sealed(p))
       /\ page = [phones[p] EXCEPT !.step = "sending", !.pending = Sealed(p),
                                   !.sent = Sealed(p), !.ids = @ + 1]
    \/ /\ PutAnswered(p) /\ net' = net /\ answers' = [answers EXCEPT ![p] = None]
       /\ answers[p].status \in {"200", "201"}
       /\ page = [phones[p] EXCEPT !.step = "idle", !.pending = None, !.told = phones[p].sent]
    \/ /\ PutAnswered(p) /\ net' = net /\ answers' = [answers EXCEPT ![p] = None]
       /\ answers[p].status \notin {"200", "201"}
       /\ page = [phones[p] EXCEPT !.step = "idle"]

LEMMA PhoneStepChangesPage ==
    ASSUME Types, PhoneStep
    PROVE  \E p \in Phones : \E page \in Pages :
              phones' = [phones EXCEPT ![p] = page] /\ PageSteps(p, page)
  <1>1. PICK p \in Phones : \/ Scan(p) \/ Draw(p) \/ SendDrawing(p) \/ SendBlob(p)
                            \/ Encrypted(p) \/ PutAnswered(p)
    BY DEF PhoneStep
  <1>2. phones[p] \in Pages /\ Sealed(p) \in Envelopes
    BY DEF Types, PageTypes, Pages, Sealed, Envelopes
  <1>3. /\ phones[p].shown \in Int /\ phones[p].shown + 1 \in Int /\ phones[p].sends + 1 \in Int
        /\ phones[p].ids + 1 \in Int
        /\ phones[p].pending \in Envelopes \cup {None} /\ phones[p].sent \in Envelopes \cup {None}
        /\ Sealed(p) \in Envelopes \cup {None} /\ None \in Envelopes \cup {None}
    BY <1>2 DEF Pages
  <1>4. CASE Scan(p)
    <2>1. [phones[p] EXCEPT !.step = "idle"] \in Pages
      BY <1>2, PageFields, Zenon
    <2>2. phones' = [phones EXCEPT ![p] = [phones[p] EXCEPT !.step = "idle"]]
      BY <1>4 DEF Scan
    <2>3. QED
      BY <1>4, <2>1, <2>2 DEF PageSteps, Scan
  <1>5. CASE Draw(p)
    <2>1. PICK mixed \in BOOLEAN :
             mixed = (phones[p].mixed \/ phones[p].step \in {"reading", "encrypting"})
      BY <1>2 DEF Pages
    <2> DEFINE page == [phones[p] EXCEPT !.shown = @ + 1, !.pending = None, !.mixed = mixed]
    <2>2. page \in Pages
      BY <1>2, <1>3, PageFields, Zenon
    <2>3. phones' = [phones EXCEPT ![p] = page]
      BY <1>5, <2>1, Zenon DEF Draw
    <2>4. QED
      BY <1>5, <2>1, <2>2, <2>3, Zenon DEF PageSteps, Draw
  <1>6. CASE SendDrawing(p)
    <2> DEFINE page == [phones[p] EXCEPT !.step = "reading", !.blob = phones[p].shown,
                                         !.sends = @ + 1]
    <2>1. page \in Pages
      BY <1>2, <1>3, PageFields, Zenon
    <2>2. phones' = [phones EXCEPT ![p] = page]
      BY <1>6 DEF SendDrawing
    <2>3. QED
      BY <1>6, <2>1, <2>2, Zenon DEF PageSteps, SendDrawing
  <1>7. CASE SendBlob(p) /\ phones[p].pending = None
    <2>1. [phones[p] EXCEPT !.step = "encrypting"] \in Pages
      BY <1>2, PageFields, Zenon
    <2>2. phones' = [phones EXCEPT ![p] = [phones[p] EXCEPT !.step = "encrypting"]]
      BY <1>7 DEF SendBlob
    <2>3. QED
      BY <1>7, <2>1, <2>2 DEF PageSteps, SendBlob
  <1>8. CASE SendBlob(p) /\ phones[p].pending # None
    <2> DEFINE page == [phones[p] EXCEPT !.step = "sending", !.sent = phones[p].pending]
    <2>1. page \in Pages
      BY <1>2, <1>3, PageFields, Zenon
    <2>2. phones' = [phones EXCEPT ![p] = page]
      BY <1>8 DEF SendBlob
    <2>3. QED
      BY <1>8, <2>1, <2>2, Zenon DEF PageSteps, SendBlob
  <1>9. CASE Encrypted(p)
    <2> DEFINE page == [phones[p] EXCEPT !.step = "sending", !.pending = Sealed(p),
                                         !.sent = Sealed(p), !.ids = @ + 1]
    <2>1. page \in Pages
      BY <1>2, <1>3, PageFields, Zenon
    <2>2. phones' = [phones EXCEPT ![p] = page]
      BY <1>9 DEF Encrypted, Sealed
    <2>3. QED
      BY <1>9, <2>1, <2>2, Zenon DEF PageSteps, Encrypted, Sealed
  <1>10. CASE PutAnswered(p) /\ answers[p].status \in {"200", "201"}
    <2> DEFINE page == [phones[p] EXCEPT !.step = "idle", !.pending = None,
                                         !.told = phones[p].sent]
    <2>1. page \in Pages
      BY <1>2, <1>3, PageFields, Zenon
    <2>2. phones' = [phones EXCEPT ![p] = page]
      BY <1>10 DEF PutAnswered
    <2>3. QED
      BY <1>10, <2>1, <2>2, Zenon DEF PageSteps, PutAnswered
  <1>11. CASE PutAnswered(p) /\ answers[p].status \notin {"200", "201"}
    <2>1. [phones[p] EXCEPT !.step = "idle"] \in Pages
      BY <1>2, PageFields, Zenon
    <2>2. phones' = [phones EXCEPT ![p] = [phones[p] EXCEPT !.step = "idle"]]
      BY <1>11 DEF PutAnswered
    <2>3. QED
      BY <1>11, <2>1, <2>2, Zenon DEF PageSteps, PutAnswered
  <1>12. QED
    BY <1>1, <1>4, <1>5, <1>6, <1>7, <1>8, <1>9, <1>10, <1>11

LEMMA PhoneStepTypes ==
    ASSUME Types, PhoneStep
    PROVE  NetTypes' /\ PageTypes'
  <1>1. PICK p \in Phones, page \in Pages :
           phones' = [phones EXCEPT ![p] = page] /\ PageSteps(p, page)
    BY PhoneStepChangesPage
  <1>2. PageTypes'
    BY <1>1, PageChanges
  <1>3. net' \subseteq Requests
    <2>1. p \in Clients /\ phones[p].sends \in Int
      BY NumbersAsked DEF Clients
    <2>2. phones[p].pending \in Envelopes \cup {None} /\ Sealed(p) \in Envelopes \cup {None}
      BY DEF Types, PageTypes, Pages, Sealed, Envelopes
    <2>3. net' = net \/ Ask(p, "put", phones[p].sends, phones[p].pending)
                     \/ Ask(p, "put", phones[p].sends, Sealed(p))
      BY <1>1 DEF PageSteps
    <2>4. CASE net' = net
      BY <2>4 DEF Types, NetTypes
    <2>5. CASE Ask(p, "put", phones[p].sends, phones[p].pending)
      BY <2>1, <2>2, <2>5, Asked
    <2>6. CASE Ask(p, "put", phones[p].sends, Sealed(p))
      BY <2>1, <2>2, <2>6, Asked
    <2>7. QED
      BY <2>3, <2>4, <2>5, <2>6
  <1>4. answers' = answers \/ answers' = [answers EXCEPT ![p] = None]
    BY <1>1 DEF PageSteps
  <1>5. QED
    BY <1>2, <1>3, <1>4, StepsAreLocal DEF Types, NetTypes

LEMMA TypesKept ==
    ASSUME Types, [Next]_vars
    PROVE  Types'
  <1>1. CASE RelayStep
    BY <1>1, RelayStepTypes, StepsAreLocal DEF Types, DeskTypes, PageTypes
  <1>2. CASE NetStep
    BY <1>2, NetStepTypes, StepsAreLocal DEF Types, RelayTypes, DeskTypes, PageTypes
  <1>3. CASE DesktopStep
    BY <1>3, DesktopStepTypes, StepsAreLocal DEF Types, RelayTypes, PageTypes
  <1>4. CASE PanelStep
    BY <1>4, PanelStepTypes, StepsAreLocal DEF Types, RelayTypes, NetTypes, PageTypes
  <1>5. CASE PhoneStep
    BY <1>5, PhoneStepTypes, StepsAreLocal DEF Types, RelayTypes, DeskTypes
  <1>6. CASE UNCHANGED vars
    BY <1>6 DEF vars, Types, RelayTypes, NetTypes, DeskTypes, PageTypes
  <1>7. QED
    BY <1>1, <1>2, <1>3, <1>4, <1>5, <1>6 DEF Next

-----------------------------------------------------------------------------
(* Who asks what                                                           *)

LEMMA SendersKept ==
    ASSUME Types, Senders, [Next]_vars
    PROVE  Senders'
  <1>1. ASSUME NEW r \in net, Refuse(r) \/ PutPayload(r) \/ GetPayload(r)
        PROVE  Senders'
    BY <1>1 DEF Senders, Refuse, PutPayload, GetPayload, Respond
  <1>2. ASSUME NEW r \in net, Create(r)
        PROVE  Senders'
    <2>1. r.from = Desktop
      BY <1>2 DEF Create, Senders, Types, NetTypes, Requests, Clients
    <2>2. QED
      BY <1>2, <2>1 DEF Senders, Create, Respond, Follow
  <1>3. ASSUME NEW r \in net, Gone(r) \/ Acknowledge(r) \/ DeleteSession(r)
        PROVE  Senders'
    BY <1>3 DEF Senders, Gone, Acknowledge, DeleteSession, Respond, Follow
  <1>4. ASSUME NEW t \in tails, SetAlarm(t) \/ DeleteAll(t)
        PROVE  Senders'
    BY <1>4 DEF Senders, SetAlarm, DeleteAll, Finish
  <1>5. CASE Expire \/ Alarm
    BY <1>5 DEF Senders, Expire, Alarm
  <1>6. CASE NetStep
    <2>1. PICK r \in net \cup {t.request : t \in tails} : ConnectionFails(r)
      BY <1>6 DEF NetStep
    <2>2. CASE r \in net /\ net' = (net \ {r}) \cup {[r EXCEPT !.late = TRUE]} /\ tails' = tails
      BY <2>2 DEF Senders, Types, NetTypes, Requests
    <2>3. ASSUME NEW t \in tails, t.request = r, net' = net,
                 tails' = (tails \ {t}) \cup {[t EXCEPT !.request = [r EXCEPT !.late = TRUE]]}
          PROVE  Senders'
      <3>1. PICK failed : failed = [t EXCEPT !.request = [r EXCEPT !.late = TRUE]]
        OBVIOUS
      <3>2. failed.status = t.status /\ failed.request.from = t.request.from
        BY <2>3, <3>1 DEF Types, NetTypes, Tails, Requests
      <3>3. tails' = (tails \ {t}) \cup {failed}
        BY <2>3, <3>1
      <3>4. QED
        BY <2>3, <3>2, <3>3 DEF Senders
    <2>4. QED
      BY <2>1, <2>2, <2>3 DEF ConnectionFails
  <1>7. CASE DesktopStep
    <2>1. \A op \in {"create", "get", "ack", "delete"} : \A n, e :
             Ask(Desktop, op, n, e) /\ UNCHANGED tails => Senders'
      BY NamesAssumption DEF Ask, Senders
    <2>2. UNCHANGED tails
      BY <1>7, StepsAreLocal
    <2>3. net' = net \/ \E op \in {"create", "get", "ack", "delete"} : \E n, e : Ask(Desktop, op, n, e)
      BY <1>7 DEF DesktopStep, BeginSession, SessionRefused, SessionCreated, Poll, NothingYet,
                  PollRefused, PictureArrives, AckAnswered, TransferEnds, Ends, SendAck
    <2>4. QED
      BY <2>1, <2>2, <2>3 DEF Senders
  <1>8. CASE PanelStep
    BY <1>8, StepsAreLocal DEF Senders
  <1>9. CASE PhoneStep
    <2>1. PICK p \in Phones, page \in Pages : PageSteps(p, page)
      BY <1>9, PhoneStepChangesPage
    <2>2. net' = net \/ \E n, e : Ask(p, "put", n, e)
      BY <2>1 DEF PageSteps
    <2>3. QED
      BY <1>9, <2>2, StepsAreLocal DEF Senders, Ask
  <1>10. CASE UNCHANGED vars
    BY <1>10 DEF vars, Senders
  <1>11. QED
    BY <1>1, <1>2, <1>3, <1>4, <1>5, <1>6, <1>7, <1>8, <1>9, <1>10 DEF Next, RelayStep

-----------------------------------------------------------------------------
(* Each page on its own                                                    *)

LEMMA PageKept ==
    ASSUME Types, NEW q \in Phones, Page(q), [Next]_vars
    PROVE  Page(q)'
  <1>1. CASE PhoneStep
    <2>1. PICK p \in Phones, page \in Pages :
             phones' = [phones EXCEPT ![p] = page] /\ PageSteps(p, page)
      BY <1>1, PhoneStepChangesPage
    <2>2. phones'[p] = page /\ \A other \in Phones \ {p} : phones'[other] = phones[other]
      BY <2>1, PageChanges
    <2>3. CASE q # p
      BY <2>2, <2>3 DEF Page
    <2>4. CASE q = p
      <3>1. PICK old \in Pages : old = phones[p]
        BY DEF Types, PageTypes
      <3>2. CASE Scan(p) /\ page = [old EXCEPT !.step = "idle"]
        BY <2>2, <2>4, <3>1, <3>2 DEF Page, Pages, Scan, PhoneHas
      <3>3. ASSUME NEW mixed \in BOOLEAN, Draw(p),
                   mixed = (old.mixed \/ old.step \in {"reading", "encrypting"}),
                   page = [old EXCEPT !.shown = @ + 1, !.pending = None, !.mixed = mixed]
            PROVE  Page(q)'
        <4>1. /\ page.step = old.step /\ page.pending = None /\ page.sent = old.sent
              /\ page.told = old.told /\ page.blob = old.blob /\ page.mixed = mixed
          BY <3>3 DEF Pages
        <4>2. old.told = None
          BY <3>1, <3>3 DEF Draw, Paired
        <4>3. ~ mixed => ~ old.mixed /\ old.step \notin {"reading", "encrypting"}
          BY <3>3
        <4>4. QED
          BY <2>2, <2>4, <3>1, <4>1, <4>2, <4>3 DEF Page
      <3>4. CASE SendDrawing(p) /\ page = [old EXCEPT !.step = "reading", !.blob = old.shown,
                                                      !.sends = @ + 1]
        <4>1. /\ page.step = "reading" /\ page.pending = old.pending /\ page.sent = old.sent
              /\ page.told = old.told /\ page.blob = old.shown /\ page.mixed = old.mixed
              /\ page.shown = old.shown
          BY <3>4 DEF Pages
        <4>2. old.told = None
          BY <3>1, <3>4 DEF SendDrawing, Paired
        <4>3. QED
          BY <2>2, <2>4, <3>1, <4>1, <4>2 DEF Page
      <3>5. CASE SendBlob(p) /\ page = [old EXCEPT !.step = "encrypting"]
        <4>1. /\ page.step = "encrypting" /\ page.pending = old.pending /\ page.sent = old.sent
              /\ page.told = old.told /\ page.blob = old.blob /\ page.mixed = old.mixed
              /\ page.shown = old.shown
          BY <3>5 DEF Pages
        <4>2. old.step = "reading"
          BY <3>1, <3>5 DEF SendBlob, PhoneHas
        <4>3. QED
          BY <2>2, <2>4, <3>1, <4>1, <4>2 DEF Page
      <3>6. CASE SendBlob(p) /\ old.pending # None
                 /\ page = [old EXCEPT !.step = "sending", !.sent = old.pending]
        <4>1. /\ page.step = "sending" /\ page.pending = old.pending /\ page.sent = old.pending
              /\ page.told = old.told /\ page.blob = old.blob /\ page.mixed = old.mixed
              /\ page.shown = old.shown
          BY <3>6 DEF Pages
        <4>2. old.step = "reading"
          BY <3>1, <3>6 DEF SendBlob, PhoneHas
        <4>3. /\ old.pending.phone = p /\ old.told = None
              /\ ~ old.mixed => old.pending.picture = old.blob /\ old.blob = old.shown
          BY <2>4, <3>1, <3>6, <4>2 DEF Page
        <4>4. QED
          BY <2>2, <2>4, <4>1, <4>3 DEF Page
      <3>7. CASE Encrypted(p) /\ page = [old EXCEPT !.step = "sending", !.pending = Sealed(p),
                                                    !.sent = Sealed(p), !.ids = @ + 1]
        <4>1. /\ page.step = "sending" /\ page.pending = Sealed(p) /\ page.sent = Sealed(p)
              /\ page.told = old.told /\ page.blob = old.blob /\ page.mixed = old.mixed
              /\ page.shown = old.shown
          BY <3>7 DEF Pages
        <4>2. old.step = "encrypting"
          BY <3>1, <3>7 DEF Encrypted, PhoneHas
        <4>3. Sealed(p).phone = p /\ Sealed(p).picture = old.blob
          BY <3>1 DEF Sealed
        <4>4. QED
          BY <2>2, <2>4, <3>1, <4>1, <4>2, <4>3 DEF Page
      <3>8. CASE PutAnswered(p) /\ page = [old EXCEPT !.step = "idle", !.pending = None,
                                                      !.told = old.sent]
        <4>1. /\ page.step = "idle" /\ page.pending = None /\ page.sent = old.sent
              /\ page.told = old.sent /\ page.blob = old.blob /\ page.mixed = old.mixed
          BY <3>8 DEF Pages
        <4>2. old.step = "sending"
          BY <3>1, <3>8 DEF PutAnswered, PhoneHas
        <4>3. QED
          BY <2>2, <2>4, <3>1, <4>1, <4>2 DEF Page
      <3>9. CASE PutAnswered(p) /\ page = [old EXCEPT !.step = "idle"]
        <4>1. /\ page.step = "idle" /\ page.pending = old.pending /\ page.sent = old.sent
              /\ page.told = old.told /\ page.blob = old.blob /\ page.mixed = old.mixed
              /\ page.shown = old.shown
          BY <3>9 DEF Pages
        <4>2. QED
          BY <2>2, <2>4, <3>1, <4>1 DEF Page
      <3>10. QED
        BY <2>1, <3>1, <3>2, <3>3, <3>4, <3>5, <3>6, <3>7, <3>8, <3>9 DEF PageSteps
    <2>5. QED
      BY <2>3, <2>4
  <1>2. CASE RelayStep \/ NetStep \/ DesktopStep \/ PanelStep \/ UNCHANGED vars
    BY <1>2, StepsAreLocal DEF vars, Page
  <1>3. QED
    BY <1>1, <1>2 DEF Next

-----------------------------------------------------------------------------
(* One answer at a time                                                    *)

LEMMA TurnAnswered ==
    ASSUME Types, NEW q \in Phones, Turns(q), NEW r \in net, NEW status, NEW e,
           Respond(r, status, e), UNCHANGED phones
    PROVE  Turns(q)'
  <1>1. r.from \in Clients
    BY DEF Types, NetTypes, Requests
  <1>2. CASE Current(r, q)
    <2>1. \A s \in net' : ~ Current(s, q)
      BY <1>2 DEF Turns, Respond
    <2>2. \A t \in tails' : ~ Current(t.request, q)
      BY <1>2 DEF Turns, Respond
    <2>3. phones[q].step = "sending"
      BY <1>2 DEF Turns
    <2>4. QED
      BY <2>1, <2>2, <2>3 DEF Turns, Current
  <1>3. CASE ~ Current(r, q)
    <2>1. answers'[q] = answers[q]
      BY <1>1, <1>3 DEF Respond, Answered, Current, Types, NetTypes
    <2>2. QED
      BY <2>1 DEF Turns, Respond, Current
  <1>4. QED
    BY <1>2, <1>3

LEMMA TurnFollowed ==
    ASSUME Types, NEW q \in Phones, Turns(q), NEW r \in net, NEW status,
           Follow(r, status), UNCHANGED phones
    PROVE  Turns(q)'
  BY DEF Turns, Follow, Current

LEMMA TurnFinished ==
    ASSUME Types, NEW q \in Phones, Turns(q), NEW t \in tails, NEW status, NEW e,
           Finish(t), Answered(t.request, status, e), UNCHANGED phones
    PROVE  Turns(q)'
  <1>1. t.request.from \in Clients
    BY DEF Types, NetTypes, Tails, Requests
  <1>2. CASE Current(t.request, q)
    <2>1. \A s \in net' : ~ Current(s, q)
      BY <1>2 DEF Turns, Finish
    <2>2. \A u \in tails' : ~ Current(u.request, q)
      BY <1>2 DEF Turns, Finish
    <2>3. phones[q].step = "sending"
      BY <1>2 DEF Turns
    <2>4. QED
      BY <2>1, <2>2, <2>3 DEF Turns, Current
  <1>3. CASE ~ Current(t.request, q)
    <2>1. answers'[q] = answers[q]
      BY <1>1, <1>3 DEF Answered, Current, Types, NetTypes
    <2>2. QED
      BY <2>1 DEF Turns, Finish, Current
  <1>4. QED
    BY <1>2, <1>3

LEMMA TurnFailed ==
    ASSUME Types, NEW q \in Phones, Turns(q), NetStep
    PROVE  Turns(q)'
  <1>1. PICK r \in net \cup {t.request : t \in tails} : ConnectionFails(r)
    BY DEF NetStep
  <1>2. PICK late : late = [r EXCEPT !.late = TRUE]
    OBVIOUS
  <1>3. r \in Requests
    BY DEF Types, NetTypes, Tails
  <1>4. ~ Current(late, q) /\ r.from \in Clients
    BY <1>2, <1>3 DEF Current, Requests
  <1>5. ~ r.late /\ phones' = phones
        /\ answers' = [answers EXCEPT ![r.from] = [status |-> "lost", envelope |-> None]]
    BY <1>1 DEF ConnectionFails
  <1>6. r.from # q => answers'[q] = answers[q]
    BY <1>4, <1>5 DEF Types, NetTypes
  <1>7. CASE r \in net /\ net' = (net \ {r}) \cup {late} /\ tails' = tails
    <2>1. CASE r.from = q
      <3>1. Current(r, q)
        BY <1>5, <2>1 DEF Current
      <3>2. \A s \in net' : ~ Current(s, q)
        BY <1>4, <1>7, <3>1 DEF Turns
      <3>3. \A t \in tails' : ~ Current(t.request, q)
        BY <1>7, <3>1 DEF Turns
      <3>4. phones[q].step = "sending"
        BY <1>7, <3>1 DEF Turns
      <3>5. QED
        BY <1>5, <3>2, <3>3, <3>4 DEF Turns, Current
    <2>2. CASE r.from # q
      BY <1>4, <1>5, <1>6, <1>7, <2>2 DEF Turns, Current
    <2>3. QED
      BY <2>1, <2>2
  <1>8. ASSUME NEW t \in tails, t.request = r, net' = net,
               tails' = (tails \ {t}) \cup {[t EXCEPT !.request = late]}
        PROVE  Turns(q)'
    <2>1. PICK failed : failed = [t EXCEPT !.request = late]
      OBVIOUS
    <2>2. failed.request = late
      BY <2>1 DEF Types, NetTypes, Tails
    <2>3. tails' = (tails \ {t}) \cup {failed}
      BY <1>8, <2>1
    <2>4. CASE r.from = q
      <3>1. Current(t.request, q)
        BY <1>5, <1>8, <2>4 DEF Current
      <3>2. \A s \in net' : ~ Current(s, q)
        BY <1>8, <3>1 DEF Turns
      <3>3. \A u \in tails' : ~ Current(u.request, q)
        BY <1>4, <2>2, <2>3, <3>1 DEF Turns
      <3>4. phones[q].step = "sending"
        BY <3>1 DEF Turns
      <3>5. QED
        BY <1>5, <3>2, <3>3, <3>4 DEF Turns, Current
    <2>5. CASE r.from # q
      BY <1>4, <1>5, <1>6, <1>8, <2>2, <2>3, <2>5 DEF Turns, Current
    <2>6. QED
      BY <2>4, <2>5
  <1>9. QED
    BY <1>1, <1>2, <1>7, <1>8 DEF ConnectionFails

\* The desktop's requests and answers are no phone's.
LEMMA DesktopMoves ==
    ASSUME Types, DesktopStep
    PROVE  /\ net' = net \/ \E op \in {"create", "get", "ack", "delete"} : \E n, e : Ask(Desktop, op, n, e)
           /\ \A q \in Phones : answers'[q] = answers[q]
           /\ UNCHANGED <<relay, tails, phones>>
  <1>1. net' = net \/ \E op \in {"create", "get", "ack", "delete"} : \E n, e : Ask(Desktop, op, n, e)
    BY DEF DesktopStep, BeginSession, SessionRefused, SessionCreated, Poll, NothingYet,
           PollRefused, PictureArrives, AckAnswered, TransferEnds, Ends, SendAck
  <1>2. answers' \in {answers, [answers EXCEPT ![Desktop] = None]}
    BY DEF DesktopStep, BeginSession, SessionRefused, SessionCreated, Poll, NothingYet,
           PollRefused, PictureArrives, AckAnswered, TransferEnds, DesktopTakes
  <1>3. QED
    BY <1>1, <1>2, NamesAssumption, StepsAreLocal DEF Types, NetTypes, Clients

LEMMA TurnsKept ==
    ASSUME Types, NEW q \in Phones, Turns(q), [Next]_vars
    PROVE  Turns(q)'
  <1>1. ASSUME NEW r \in net, \/ Refuse(r) \/ Create(r) \/ Gone(r) \/ PutPayload(r)
                              \/ GetPayload(r) \/ Acknowledge(r) \/ DeleteSession(r)
        PROVE  Turns(q)'
    <2>1. /\ UNCHANGED phones
          /\ (\E status, e : Respond(r, status, e)) \/ \E status : Follow(r, status)
      BY <1>1 DEF Refuse, Create, Gone, PutPayload, GetPayload, Acknowledge, DeleteSession, Untouched
    <2>2. QED
      BY <2>1, TurnAnswered, TurnFollowed
  <1>2. ASSUME NEW t \in tails, SetAlarm(t) \/ DeleteAll(t)
        PROVE  Turns(q)'
    <2>1. UNCHANGED phones /\ Finish(t) /\ \E status, e : Answered(t.request, status, e)
      BY <1>2 DEF SetAlarm, DeleteAll, Untouched
    <2>2. QED
      BY <2>1, TurnFinished
  <1>3. CASE Expire \/ Alarm \/ PanelStep \/ UNCHANGED vars
    BY <1>3, StepsAreLocal DEF Expire, Alarm, vars, Turns
  <1>4. CASE NetStep
    BY <1>4, TurnFailed
  <1>5. CASE DesktopStep
    <2>1. q # Desktop
      BY NamesAssumption
    <2>2. QED
      BY <1>5, <2>1, DesktopMoves DEF Turns, Current, Ask
  <1>6. CASE PhoneStep
    <2>1. PICK p \in Phones, page \in Pages :
             phones' = [phones EXCEPT ![p] = page] /\ PageSteps(p, page)
      BY <1>6, PhoneStepChangesPage
    <2>2. phones'[p] = page /\ \A other \in Phones \ {p} : phones'[other] = phones[other]
      BY <2>1, PageChanges
    <2>3. tails' = tails
      BY <1>6, StepsAreLocal
    <2>4. answers' \in {answers, [answers EXCEPT ![p] = None]}
      BY <2>1 DEF PageSteps
    <2>5. net' = net \/ \E n, e : Ask(p, "put", n, e)
      BY <2>1 DEF PageSteps
    <2>6. CASE q # p
      <3>1. answers'[q] = answers[q]
        BY <2>4, <2>6 DEF Types, NetTypes, Clients
      <3>2. QED
        BY <2>2, <2>3, <2>5, <2>6, <3>1 DEF Turns, Current, Ask
    <2>7. CASE q = p
      <3>1. PICK old \in Pages : old = phones[p]
        BY DEF Types, PageTypes
      <3>2. CASE \/ Scan(p) /\ page = [old EXCEPT !.step = "idle"]
                 \/ SendBlob(p) /\ net' = net /\ page = [old EXCEPT !.step = "encrypting"]
                 \/ SendDrawing(p) /\ page = [old EXCEPT !.step = "reading", !.blob = old.shown,
                                                         !.sends = @ + 1]
        <4>1. old.step # "sending"
          BY <3>1, <3>2 DEF Scan, SendBlob, SendDrawing, PhoneHas
        <4>2. net' = net /\ answers' = answers
          BY <3>2 DEF Scan, SendBlob, SendDrawing
        <4>3. QED
          BY <2>3, <2>7, <3>1, <4>1, <4>2 DEF Turns, Current
      <3>3. ASSUME NEW mixed, Draw(p),
                   page = [old EXCEPT !.shown = @ + 1, !.pending = None, !.mixed = mixed]
            PROVE  Turns(q)'
        <4>1. page.step = old.step /\ page.sent = old.sent
          BY <3>3 DEF Pages
        <4>2. net' = net /\ answers' = answers
          BY <3>3 DEF Draw
        <4>3. QED
          BY <2>2, <2>3, <2>7, <3>1, <4>1, <4>2 DEF Turns, Current
      <3>4. ASSUME NEW n, NEW e, Ask(p, "put", n, e), SendBlob(p) \/ Encrypted(p),
                   page.step = "sending", page.sent = e, answers' = answers
            PROVE  Turns(q)'
        <4>1. old.step # "sending"
          BY <3>1, <3>4 DEF SendBlob, Encrypted, PhoneHas
        <4>2. answers[p] = None /\ (\A r \in net : ~ Current(r, p))
              /\ \A t \in tails : ~ Current(t.request, p)
          BY <2>7, <3>1, <4>1 DEF Turns
        <4>3. PICK new : new = [from |-> p, op |-> "put", n |-> n, envelope |-> e, late |-> FALSE]
          OBVIOUS
        <4>4. net' = net \cup {new} /\ new.envelope = e
          BY <3>4, <4>3 DEF Ask
        <4>5. QED
          BY <2>2, <2>3, <2>7, <3>4, <4>2, <4>4 DEF Turns, Current
      <3>5. CASE SendBlob(p) /\ Ask(p, "put", old.sends, old.pending) /\ answers' = answers
                 /\ page = [old EXCEPT !.step = "sending", !.sent = old.pending]
        <4>1. page.step = "sending" /\ page.sent = old.pending
          BY <3>5 DEF Pages
        <4>2. QED
          BY <3>4, <3>5, <4>1
      <3>6. CASE Encrypted(p) /\ Ask(p, "put", old.sends, Sealed(p)) /\ answers' = answers
                 /\ page = [old EXCEPT !.step = "sending", !.pending = Sealed(p),
                                       !.sent = Sealed(p), !.ids = @ + 1]
        <4>1. page.step = "sending" /\ page.sent = Sealed(p)
          BY <3>6 DEF Pages
        <4>2. QED
          BY <3>4, <3>6, <4>1
      <3>7. CASE PutAnswered(p)
        <4>1. answers[p] # None /\ answers' = [answers EXCEPT ![p] = None] /\ net' = net
          BY <3>7 DEF PutAnswered
        <4>2. answers'[p] = None
          BY <4>1 DEF Types, NetTypes, Clients
        <4>3. QED
          BY <2>3, <2>7, <4>1, <4>2 DEF Turns, Current
      <3>8. QED
        BY <2>1, <3>1, <3>2, <3>3, <3>5, <3>6, <3>7 DEF PageSteps
    <2>8. QED
      BY <2>6, <2>7
  <1>7. QED
    BY <1>1, <1>2, <1>3, <1>4, <1>5, <1>6 DEF Next, RelayStep

-----------------------------------------------------------------------------
(* The session is created once                                             *)

LEMMA SessionIsNotNone ==
    /\ None \notin Session
    /\ None \notin Results
    /\ "none" \in Results /\ "error" \in Results /\ "picture" \in Results
  BY NamesAssumption DEF Results

\* Nothing is undone: no step creates a session again, or fails its alarm.
LEMMA ReadyStays ==
    ASSUME Types, Senders, Opening, [Next]_vars
    PROVE  (Created => Created') /\ (Ready => Ready')
  <1>1. CASE DesktopStep
    <2>1. desk.step = "start" \/ net' = net
          \/ \E op \in {"get", "ack", "delete"} : \E n, e : Ask(Desktop, op, n, e)
      BY <1>1 DEF DesktopStep, BeginSession, SessionRefused, SessionCreated, Poll, NothingYet,
             PollRefused, PictureArrives, AckAnswered, TransferEnds, Ends, SendAck
    <2>2. desk.step # "start" => desk'.step # "start"
      BY <1>1 DEF DesktopStep, BeginSession, SessionRefused, SessionCreated, Poll, NothingYet,
             PollRefused, PictureArrives, AckAnswered, TransferEnds, Ends, SendAck, Types,
             DeskTypes, Desks
    <2>3. QED
      BY <1>1, <2>1, <2>2, StepsAreLocal DEF Ready, Created, Ask
  <1>2. CASE PhoneStep
    <2>1. PICK p \in Phones, page \in Pages : PageSteps(p, page)
      BY <1>2, PhoneStepChangesPage
    <2>2. net' = net \/ \E n, e : Ask(p, "put", n, e)
      BY <2>1 DEF PageSteps
    <2>3. QED
      BY <1>2, <2>2, StepsAreLocal DEF Ready, Created, Ask
  <1>3. ASSUME NEW r \in net, \/ Refuse(r) \/ Create(r) \/ Gone(r) \/ PutPayload(r)
                              \/ GetPayload(r) \/ Acknowledge(r) \/ DeleteSession(r)
        PROVE  (Created => Created') /\ (Ready => Ready')
    <2>1. net' = net \ {r} /\ UNCHANGED desk
      BY <1>3 DEF Refuse, Create, Gone, PutPayload, GetPayload, Acknowledge, DeleteSession,
                  Respond, Follow, Untouched
    <2>2. tails' = tails \/ \E status : tails' = tails \cup {[request |-> r, status |-> status]}
                                        /\ (status = "201" => r.op = "create")
      BY <1>3 DEF Refuse, Create, Gone, PutPayload, GetPayload, Acknowledge, DeleteSession,
                  Respond, Follow
    <2>3. QED
      BY <2>1, <2>2 DEF Ready, Created
  <1>4. ASSUME NEW t \in tails, SetAlarm(t) \/ DeleteAll(t)
        PROVE  (Created => Created') /\ (Ready => Ready')
    BY <1>4 DEF SetAlarm, DeleteAll, Finish, Untouched, Ready, Created
  <1>5. CASE NetStep
    <2>1. PICK r \in net \cup {t.request : t \in tails} : ConnectionFails(r)
      BY <1>5 DEF NetStep
    <2>2. UNCHANGED desk
      BY <1>5, StepsAreLocal
    <2>3. CASE r \in net /\ net' = (net \ {r}) \cup {[r EXCEPT !.late = TRUE]} /\ tails' = tails
      <3>1. [r EXCEPT !.late = TRUE].op = r.op
        BY <2>3 DEF Types, NetTypes, Requests
      <3>2. QED
        BY <2>2, <2>3, <3>1 DEF Ready, Created
    <2>4. ASSUME NEW t \in tails, t.request = r, net' = net,
                 tails' = (tails \ {t}) \cup {[t EXCEPT !.request = [r EXCEPT !.late = TRUE]]}
          PROVE  (Created => Created') /\ (Ready => Ready')
      <3>1. PICK failed : failed = [t EXCEPT !.request = [r EXCEPT !.late = TRUE]]
        OBVIOUS
      <3>2. failed.status = t.status
        BY <3>1 DEF Types, NetTypes, Tails
      <3>3. tails' = (tails \ {t}) \cup {failed}
        BY <2>4, <3>1
      <3>4. QED
        BY <2>2, <2>4, <3>2, <3>3 DEF Ready, Created
    <2>5. QED
      BY <2>1, <2>3, <2>4 DEF ConnectionFails
  <1>6. CASE Expire \/ Alarm \/ PanelStep \/ UNCHANGED vars
    BY <1>6, StepsAreLocal DEF Expire, Alarm, vars, Ready, Created
  <1>7. QED
    BY <1>1, <1>2, <1>3, <1>4, <1>5, <1>6 DEF Next, RelayStep

\* Only an alarm that is set hands the link out.
LEMMA LedBefore ==
    ASSUME Types, Senders, Opening, [Next]_vars, Led', \A t \in tails : ~ SetAlarm(t)
    PROVE  Led
  <1>1. ASSUME NEW r \in net, \/ Refuse(r) \/ Create(r) \/ Gone(r) \/ PutPayload(r)
                              \/ GetPayload(r) \/ Acknowledge(r) \/ DeleteSession(r)
        PROVE  Led
    <2>1. net' = net \ {r} /\ UNCHANGED <<desk, panel, phones>>
      BY <1>1 DEF Refuse, Create, Gone, PutPayload, GetPayload, Acknowledge, DeleteSession,
                  Respond, Follow, Untouched
    <2>2. CASE r.op = "create"
      <3>1. UNCHANGED answers \/ \E status : status # "201" /\ Answered(r, status, None)
        BY <1>1, <2>2 DEF Refuse, Create, Gone, PutPayload, GetPayload, Acknowledge,
               DeleteSession, Live, Respond, Follow
      <3>2. answers'[Desktop] # None /\ answers'[Desktop].status = "201"
              => answers[Desktop] # None /\ answers[Desktop].status = "201"
        <4>1. CASE UNCHANGED answers
          BY <4>1
        <4>2. ASSUME NEW status, status # "201",
                     answers' = [answers EXCEPT ![r.from] = [status |-> status, envelope |-> None]]
              PROVE  answers'[Desktop] # None /\ answers'[Desktop].status = "201"
                       => answers[Desktop] # None /\ answers[Desktop].status = "201"
          BY <4>2 DEF Types, NetTypes, Clients
        <4>3. QED
          BY <3>1, <4>1, <4>2 DEF Answered
      <3>3. relay'.payload = relay.payload
        BY <1>1, <2>2 DEF Refuse, Create, Gone, PutPayload, GetPayload, Acknowledge,
               DeleteSession, Live, Types, RelayTypes
      <3>4. QED
        BY <2>1, <3>2, <3>3 DEF Led
    <2>3. CASE r.op # "create"
      BY <2>3 DEF Led
    <2>4. QED
      BY <2>2, <2>3
  <1>2. ASSUME NEW t \in tails, DeleteAll(t)
        PROVE  Led
    <2>1. relay'.payload = None
      BY <1>2 DEF DeleteAll, Types, RelayTypes
    <2>2. answers'[Desktop] # None /\ answers'[Desktop].status = "201"
            => answers[Desktop] # None /\ answers[Desktop].status = "201"
      BY <1>2 DEF DeleteAll, Answered, Types, NetTypes, Clients
    <2>3. UNCHANGED <<net, desk, panel, phones>>
      BY <1>2 DEF DeleteAll, Finish, Untouched
    <2>4. QED
      BY <2>1, <2>2, <2>3 DEF Led
  <1>3. CASE Expire \/ Alarm \/ UNCHANGED vars
    BY <1>3 DEF Expire, Alarm, Empty, vars, Led
  <1>4. CASE NetStep
    <2>1. PICK r \in net \cup {t.request : t \in tails} : ConnectionFails(r)
      BY <1>4 DEF NetStep
    <2>2. answers'[Desktop] # None /\ answers'[Desktop].status = "201"
            => answers[Desktop] # None /\ answers[Desktop].status = "201"
      BY <2>1 DEF ConnectionFails, Types, NetTypes, Clients
    <2>3. UNCHANGED <<relay, desk, panel, phones>>
      BY <1>4, StepsAreLocal
    <2>4. net' = net \/ (r \in net /\ net' = (net \ {r}) \cup {[r EXCEPT !.late = TRUE]})
      BY <2>1 DEF ConnectionFails
    <2>5. r \in net => [r EXCEPT !.late = TRUE].op = r.op
      BY DEF Types, NetTypes, Requests
    <2>6. (\E s \in net' : s.op # "create") => \E s \in net : s.op # "create"
      BY <2>4, <2>5
    <2>7. QED
      BY <2>2, <2>3, <2>6 DEF Led
  <1>5. CASE DesktopStep
    <2>1. CASE desk.step \notin {"start", "creating", "done"}
      BY <2>1 DEF Led
    <2>2. CASE SessionCreated
      BY <2>2 DEF SessionCreated, DesktopTakes, Led
    <2>3. CASE BeginSession \/ SessionRefused
      <3>1. desk' = [desk EXCEPT !.step = "creating"]
            \/ \E result : desk' = [desk EXCEPT !.step = "done", !.result = result]
        BY <2>3 DEF BeginSession, SessionRefused
      <3>2. desk'.step \in {"creating", "done"}
        BY <3>1 DEF Types, DeskTypes, Desks
      <3>3. panel' = panel \/ panel' = [panel EXCEPT !.events = Append(@, "done")]
        BY <2>3 DEF BeginSession, SessionRefused
      <3>4. panel'.state = panel.state
            /\ ((\E i \in 1..Len(panel'.events) : panel'.events[i] = "qr")
                  => \E i \in 1..Len(panel.events) : panel.events[i] = "qr")
        BY <3>3 DEF Types, DeskTypes, Panels
      <3>5. net' = net \/ \E n, e : Ask(Desktop, "create", n, e)
        BY <2>3 DEF BeginSession, SessionRefused
      <3>6. (\E s \in net' : s.op # "create") => \E s \in net : s.op # "create"
        BY <3>5 DEF Ask
      <3>7. answers' = answers \/ answers' = [answers EXCEPT ![Desktop] = None]
        BY <2>3 DEF BeginSession, SessionRefused, DesktopTakes
      <3>8. answers'[Desktop] # None /\ answers'[Desktop].status = "201"
              => answers[Desktop] # None /\ answers[Desktop].status = "201"
        BY <3>7 DEF Types, NetTypes, Clients
      <3>9. QED
        BY <1>5, <3>2, <3>4, <3>6, <3>8, StepsAreLocal DEF Led
    <2>4. QED
      BY <1>5, <2>1, <2>2, <2>3 DEF DesktopStep, Poll, NothingYet, PollRefused, PictureArrives,
             AckAnswered, TransferEnds, DesktopTakes
  <1>6. CASE PanelStep
    <2>1. UNCHANGED <<relay, net, answers, desk, phones>>
      BY <1>6, StepsAreLocal
    <2>2. CASE CancelTransfer \/ Dismiss \/ Reopen \/ OtherOpened
      <3>1. panel'.events = panel.events /\ (panel'.state = "qr" => panel.state = "qr")
        <4>1. CASE OtherOpened
          BY <4>1 DEF OtherOpened, Types, DeskTypes, Panels
        <4>2. QED
          BY <2>2, <4>1, Choices, WithdrawTypes
      <3>2. QED
        BY <2>1, <3>1 DEF Led
    <2>3. CASE PanelEvent
      <3>1. panel.events # <<>> /\ panel.events \in Seq({"qr", "done"})
        BY <2>3 DEF PanelEvent, Types, DeskTypes, Panels
      <3>2. PICK events : events = Tail(panel.events)
        OBVIOUS
      <3>3. (\E i \in 1..Len(events) : events[i] = "qr")
              => \E i \in 1..Len(panel.events) : panel.events[i] = "qr"
        <4>1. Len(events) = Len(panel.events) - 1
              /\ \A i \in 1..Len(events) : events[i] = panel.events[i + 1]
          BY <3>1, <3>2
        <4>2. Len(panel.events) \in Nat
          BY <3>1
        <4>3. \A i \in 1..Len(events) : i + 1 \in 1..Len(panel.events)
          BY <4>1, <4>2
        <4>4. QED
          BY <4>1, <4>3
      <3>4. Shows(Head(panel.events)) = "qr" => panel.events[1] = "qr" /\ 1 \in 1..Len(panel.events)
        BY <3>1 DEF Shows
      <3>5. panel'.events = events /\ panel'.state \in {panel.state, Shows(Head(panel.events))}
        <4>1. PICK state \in {panel.state, Shows(Head(panel.events))},
                   authority \in {panel.authority, "stale"} :
                 panel' = [state |-> state, authority |-> authority,
                           events |-> Tail(panel.events), stopped |-> panel.stopped]
          BY <2>3, EventsFall
        <4>2. QED
          BY <3>2, <4>1
      <3>7. QED
        BY <2>1, <3>3, <3>4, <3>5 DEF Led
    <2>4. QED
      BY <1>6, <2>2, <2>3 DEF PanelStep
  <1>7. CASE PhoneStep
    <2>1. PICK p \in Phones : \/ Scan(p) \/ Draw(p) \/ SendDrawing(p) \/ SendBlob(p)
                              \/ Encrypted(p) \/ PutAnswered(p)
      BY <1>7 DEF PhoneStep
    <2>2. QED
      BY <2>1 DEF Scan, Draw, SendDrawing, SendBlob, Encrypted, PutAnswered, Paired, PhoneHas, Led
  <1>8. QED
    BY <1>1, <1>2, <1>3, <1>4, <1>5, <1>6, <1>7 DEF Next, RelayStep

\* A session that counts a request is still one.
LEMMA SessionGoesOn ==
    ASSUME Types, NEW r \in net, PutPayload(r) \/ GetPayload(r) \/ Acknowledge(r)
    PROVE  relay'.session # None \/ relay' = Empty
  <1>1. PICK session \in Session : session = relay.session
    BY DEF PutPayload, GetPayload, Acknowledge, Live, Types, RelayTypes
  <1>2. session.uploads < MaxUploads => [session EXCEPT !.uploads = @ + 1] \in Session
    BY <1>1, LimitsAssumption DEF Session
  <1>3. session.polls < MaxPolls => [session EXCEPT !.polls = @ + 1] \in Session
    BY <1>1, LimitsAssumption DEF Session
  <1>4. session.acks < MaxAcks => [session EXCEPT !.acks = @ + 1] \in Session
    BY <1>1, LimitsAssumption DEF Session
  <1>5. /\ session.uploads < MaxUploads <=> ~ session.uploads >= MaxUploads
        /\ session.polls < MaxPolls <=> ~ session.polls >= MaxPolls
        /\ session.acks < MaxAcks <=> ~ session.acks >= MaxAcks
    BY <1>1, LimitsAssumption DEF Session
  <1>6. CASE PutPayload(r)
    <2>1. relay' = relay \/ (session.uploads < MaxUploads
                             /\ relay'.session = [session EXCEPT !.uploads = @ + 1])
      BY <1>1, <1>5, <1>6 DEF PutPayload, Types, RelayTypes
    <2>2. QED
      BY <1>1, <1>2, <2>1, SessionIsNotNone
  <1>7. CASE GetPayload(r)
    <2>1. relay' = relay \/ (session.polls < MaxPolls
                             /\ relay'.session = [session EXCEPT !.polls = @ + 1])
      BY <1>1, <1>5, <1>7 DEF GetPayload, Types, RelayTypes
    <2>2. QED
      BY <1>1, <1>3, <2>1, SessionIsNotNone
  <1>8. CASE Acknowledge(r)
    <2>1. relay' = relay \/ relay' = Empty
          \/ (session.acks < MaxAcks /\ relay'.session = [session EXCEPT !.acks = @ + 1])
      BY <1>1, <1>5, <1>8 DEF Acknowledge, Types, RelayTypes
    <2>2. QED
      BY <1>1, <1>4, <2>1, SessionIsNotNone
  <1>9. QED
    BY <1>6, <1>7, <1>8

LEMMA OpeningKept ==
    ASSUME Types, Senders, Opening, [Next]_vars
    PROVE  Opening'
  <1>1. (Created => Created') /\ (Ready => Ready')
    BY ReadyStays
  <1>2. Led' => Ready'
    <2>1. ASSUME NEW t \in tails, SetAlarm(t)
          PROVE  Ready'
      BY <2>1 DEF SetAlarm, Finish, Untouched, Opening, OneAlarm, OneSession, Ready, Created
    <2>2. QED
      BY <2>1, <1>1, LedBefore DEF Opening, OneCreate, OneAlarm, OneSession
  <1>3. UNCHANGED <<relay, tails>> => OneAlarm' /\ OneSession'
    BY <1>1 DEF Opening, OneAlarm, OneSession
  <1>4. ASSUME NEW r \in net, \/ Refuse(r) \/ Create(r) \/ Gone(r) \/ PutPayload(r)
                              \/ GetPayload(r) \/ Acknowledge(r) \/ DeleteSession(r)
        PROVE  OneCreate' /\ OneAlarm' /\ OneSession'
    <2>1. net' = net \ {r} /\ UNCHANGED <<desk, panel, phones>>
      BY <1>4 DEF Refuse, Create, Gone, PutPayload, GetPayload, Acknowledge, DeleteSession,
                  Respond, Follow, Untouched
    <2>2. OneCreate'
      BY <2>1 DEF Opening, OneCreate, OneAlarm, OneSession
    <2>3. CASE r.op = "create" /\ ~ Refuse(r)
      <3>1. Create(r)
        BY <1>4, <2>3 DEF Gone, PutPayload, GetPayload, Acknowledge, DeleteSession, Live
      <3>2. ~ Ready /\ Created'
        BY <2>1, <2>3 DEF Opening, OneCreate, OneAlarm, OneSession, Ready, Created
      <3>3. tails = {} /\ relay.session = None /\ relay.payload = None
        BY <2>3 DEF Opening, OneCreate, OneAlarm, OneSession, Created
      <3>4. Follow(r, "201") /\ relay' = [relay EXCEPT !.session = NewSession]
        BY <3>1, <3>3 DEF Create
      <3>5. tails' = {[request |-> r, status |-> "201"]}
        BY <3>3, <3>4 DEF Follow
      <3>6. relay'.payload = None
        BY <3>3, <3>4 DEF Types, RelayTypes
      <3>7. QED
        BY <2>2, <3>2, <3>5, <3>6 DEF OneAlarm, OneSession
    <2>4. CASE r.op # "create" \/ Refuse(r)
      <3>1. r.op # "create" => Ready
        BY DEF Opening, OneCreate, OneAlarm, OneSession, Led
      <3>2. CASE UNCHANGED <<relay, tails>>
        BY <2>2, <3>2, <1>1 DEF Opening, OneCreate, OneAlarm, OneSession
      <3>3. CASE Gone(r) \/ (\E status : Follow(r, status) /\ status # "201" /\ relay' = Empty
                                        /\ r.op # "create")
        <4>1. relay'.session = None /\ relay'.payload = None /\ r.op # "create"
          BY <3>3 DEF Gone, Empty, Opening, OneSession
        <4>2. PICK status : Follow(r, status) /\ status # "201"
          BY <3>3 DEF Gone
        <4>3. tails' = tails \cup {[request |-> r, status |-> status]}
          BY <4>2 DEF Follow
        <4>4. QED
          BY <1>1, <2>2, <3>1, <4>1, <4>2, <4>3 DEF Opening, OneCreate, OneAlarm, OneSession, Ready
      <3>4. CASE relay.session # None /\ UNCHANGED tails /\ r.op # "create"
        <4>1. OneAlarm'
          BY <3>4 DEF Opening, OneCreate, OneAlarm, OneSession
        <4>2. relay'.session # None \/ relay' = relay \/ relay' = Empty
          BY <1>4, <3>4, SessionGoesOn DEF Refuse, Create, Gone, DeleteSession, Follow
        <4>3. QED
          BY <1>1, <2>2, <3>1, <3>4, <4>1, <4>2 DEF Opening, OneSession, Ready, Empty
      <3>5. QED
        BY <1>4, <2>4, <3>2, <3>3, <3>4 DEF Refuse, Create, PutPayload, GetPayload, Acknowledge,
               DeleteSession, Live, Respond
    <2>5. QED
      BY <2>3, <2>4
  <1>5. ASSUME NEW t \in tails, SetAlarm(t) \/ DeleteAll(t)
        PROVE  OneCreate' /\ OneAlarm' /\ OneSession'
    <2>1. tails' = tails \ {t} /\ UNCHANGED <<net, desk, panel, phones>>
      BY <1>5 DEF SetAlarm, DeleteAll, Finish, Untouched
    <2>2. Created /\ Created'
      BY <1>1 DEF Opening, OneCreate, OneAlarm, OneSession
    <2>3. relay'.session \in {relay.session, None} /\ (relay'.session = None => relay'.payload = None)
      BY <1>5 DEF SetAlarm, DeleteAll, Opening, OneSession, Types, RelayTypes
    <2>4. QED
      BY <1>1, <2>1, <2>2, <2>3 DEF Opening, OneCreate, OneAlarm, OneSession
  <1>6. CASE NetStep
    <2>1. PICK r \in net \cup {t.request : t \in tails} : ConnectionFails(r)
      BY <1>6 DEF NetStep
    <2>2. UNCHANGED <<relay, desk>>
      BY <1>6, StepsAreLocal
    <2>3. CASE r \in net /\ net' = (net \ {r}) \cup {[r EXCEPT !.late = TRUE]} /\ tails' = tails
      <3>1. PICK late : late = [r EXCEPT !.late = TRUE]
        OBVIOUS
      <3>2. late.op = r.op
        BY <2>3, <3>1 DEF Types, NetTypes, Requests
      <3>3. r \in net /\ net' = (net \ {r}) \cup {late}
        BY <2>3, <3>1
      <3>4. QED
        <4>1. OneCreate'
          BY <2>2, <3>2, <3>3 DEF Opening, OneCreate
        <4>2. QED
          BY <1>2, <1>3, <2>2, <2>3, <4>1 DEF Opening
    <2>4. ASSUME NEW t \in tails, t.request = r, net' = net,
                 tails' = (tails \ {t}) \cup {[t EXCEPT !.request = [r EXCEPT !.late = TRUE]]}
          PROVE  Opening'
      <3>1. PICK failed : failed = [t EXCEPT !.request = [r EXCEPT !.late = TRUE]]
        OBVIOUS
      <3>2. failed.status = t.status
        BY <3>1 DEF Types, NetTypes, Tails
      <3>3. tails' = (tails \ {t}) \cup {failed}
        BY <2>4, <3>1
      <3>4. QED
        BY <1>1, <1>2, <2>2, <2>4, <3>2, <3>3 DEF Opening, OneCreate, OneAlarm, OneSession
    <2>5. QED
      BY <2>1, <2>3, <2>4 DEF ConnectionFails
  <1>7. CASE DesktopStep
    <2>1. UNCHANGED <<relay, tails>>
      BY <1>7, StepsAreLocal
    <2>2. CASE desk.step = "start"
      <3>1. BeginSession
        BY <1>7, <2>2 DEF DesktopStep, SessionRefused, SessionCreated, Poll, NothingYet,
               PollRefused, PictureArrives, AckAnswered, TransferEnds, DesktopTakes
      <3>2. desk'.step # "start" /\ (net' = net \/ Ask(Desktop, "create", 0, None))
        BY <3>1 DEF BeginSession, Types, DeskTypes, Desks
      <3>3. OneCreate'
        BY <2>2, <3>2 DEF Opening, OneCreate, OneAlarm, OneSession, Ask
      <3>4. QED
        BY <1>2, <1>3, <2>1, <3>3 DEF Opening
    <2>3. CASE desk.step # "start"
      <3>1. ~ BeginSession
        BY <2>3 DEF BeginSession
      <3>2. net' = net \/ \E op \in {"get", "ack", "delete"} : \E n, e : Ask(Desktop, op, n, e)
        BY <1>7, <3>1 DEF DesktopStep, SessionRefused, SessionCreated, Poll, NothingYet,
               PollRefused, PictureArrives, AckAnswered, TransferEnds, Ends, SendAck
      <3>3. desk'.step # "start"
        BY <1>7, <3>1 DEF DesktopStep, SessionRefused, SessionCreated, Poll, NothingYet,
               PollRefused, PictureArrives, AckAnswered, TransferEnds, Ends, SendAck,
               Types, DeskTypes, Desks
      <3>4. OneCreate'
        BY <3>2, <3>3 DEF Opening, OneCreate, OneAlarm, OneSession, Ask
      <3>5. QED
        BY <1>2, <1>3, <2>1, <3>4 DEF Opening
    <2>4. QED
      BY <2>2, <2>3
  <1>8. CASE PhoneStep
    <2>1. PICK p \in Phones, page \in Pages : PageSteps(p, page)
      BY <1>8, PhoneStepChangesPage
    <2>2. net' = net \/ \E n, e : Ask(p, "put", n, e)
      BY <2>1 DEF PageSteps
    <2>3. QED
      <3>1. OneCreate'
        BY <1>8, <2>2, StepsAreLocal DEF Opening, OneCreate, Ask
      <3>2. QED
        BY <1>2, <1>3, <1>8, <3>1, StepsAreLocal DEF Opening
  <1>9. CASE Expire \/ Alarm \/ PanelStep \/ UNCHANGED vars
    BY <1>1, <1>2, <1>9, StepsAreLocal DEF Expire, Alarm, Empty, vars, Opening, OneCreate, OneAlarm, OneSession
  <1>10. QED
    BY <1>2, <1>4, <1>5, <1>6, <1>7, <1>8, <1>9 DEF Next, RelayStep, Opening

-----------------------------------------------------------------------------
(* What the desktop asks                                                   *)

LEMMA AskingKept ==
    ASSUME Types, Senders, Opening, Asking, [Next]_vars
    PROVE  Asking'
  <1> USE SessionIsNotNone
  <1>1. CASE desk' = desk /\ \A r \in net' : r.op \in {"ack", "delete"} =>
                                \E s \in net : s.op = r.op /\ s.envelope = r.envelope
    BY <1>1 DEF Asking
  <1>2. CASE RelayStep
    <2>1. desk' = desk
      BY <1>2, StepsAreLocal
    <2>2. net' \subseteq net
      BY <1>2 DEF RelayStep, Refuse, Create, Gone, PutPayload, GetPayload, Acknowledge,
             DeleteSession, SetAlarm, DeleteAll, Expire, Alarm, Respond, Follow, Finish
    <2>3. QED
      BY <1>1, <2>1, <2>2
  <1>3. CASE NetStep
    <2>1. PICK r \in net \cup {t.request : t \in tails} : ConnectionFails(r)
      BY <1>3 DEF NetStep
    <2>2. desk' = desk
      BY <1>3, StepsAreLocal
    <2>3. PICK late : late = [r EXCEPT !.late = TRUE]
      OBVIOUS
    <2>4. r \in net => late.op = r.op /\ late.envelope = r.envelope
      BY <2>3 DEF Types, NetTypes, Requests
    <2>5. net' = net \/ (r \in net /\ net' = (net \ {r}) \cup {late})
      BY <2>1, <2>3 DEF ConnectionFails
    <2>6. QED
      BY <1>1, <2>2, <2>4, <2>5
  <1>4. CASE PhoneStep
    <2>1. PICK p \in Phones, page \in Pages : PageSteps(p, page)
      BY <1>4, PhoneStepChangesPage
    <2>2. net' = net \/ \E n, e : Ask(p, "put", n, e)
      BY <2>1 DEF PageSteps
    <2>3. QED
      BY <1>1, <1>4, <2>2, StepsAreLocal DEF Ask
  <1>5. CASE PanelStep \/ UNCHANGED vars
    BY <1>1, <1>5, StepsAreLocal DEF vars
  <1>6. PICK old \in Desks : old = desk
    BY DEF Types, DeskTypes
  <1>7. ASSUME NEW result \in Results, Ends(result),
               old.step \in {"poll", "polling", "acking", "creating"}
        PROVE  Asking'
    <2>1. desk'.step = "deleting" /\ desk'.result = result /\ desk'.received = old.received
      BY <1>6, <1>7 DEF Ends, Desks
    <2>2. \A r \in net' : r.op = "ack" => r \in net
      BY <1>7 DEF Ends, Ask
    <2>3. QED
      BY <1>6, <2>1, <2>2 DEF Asking
  <1>8. ASSUME NEW op \in {"create", "get"}, NEW n, NEW e,
               old.step # "deleting", \/ Ask(Desktop, op, n, e) \/ net' = net,
               desk'.received = old.received, desk'.result = old.result \/ desk'.result # None,
               old.step \in {"acking", "deleting", "done"} =>
                 desk'.step \in {"acking", "deleting", "done"}
        PROVE  Asking'
    BY <1>6, <1>8 DEF Asking, Ask
  <1>9. CASE BeginSession
    <2>1. desk'.received = old.received /\ (desk'.result = old.result \/ desk'.result # None)
          /\ old.step = "start"
      BY <1>6, <1>9 DEF BeginSession, Desks
    <2>2. net' = net \/ Ask(Desktop, "create", 0, None)
      BY <1>9 DEF BeginSession
    <2>3. QED
      BY <1>8, <2>1, <2>2
  <1>10. CASE SessionRefused \/ TransferEnds \/ NothingYet
    <2>1. net' = net
      BY <1>10 DEF SessionRefused, TransferEnds, NothingYet
    <2>2. /\ desk'.received = old.received /\ (desk'.result = old.result \/ desk'.result # None)
          /\ old.step \in {"creating", "deleting", "polling"}
          /\ old.step = "deleting" => desk'.step = "done"
      BY <1>6, <1>10 DEF SessionRefused, TransferEnds, NothingYet, DesktopTakes, Desks
    <2>3. QED
      BY <1>6, <2>1, <2>2 DEF Asking
  <1>11. CASE SessionCreated
    <2>1. old.step = "creating"
      BY <1>6, <1>11 DEF SessionCreated, DesktopTakes
    <2>2. CASE Ends("error") \/ Ends("none")
      BY <1>7, <2>1, <2>2
    <2>3. CASE desk' = [desk EXCEPT !.step = "poll"] /\ net' = net
      <3>1. desk'.received = old.received /\ desk'.result = old.result
        BY <1>6, <2>3 DEF Desks
      <3>2. QED
        BY <1>6, <2>1, <2>3, <3>1 DEF Asking
    <2>4. QED
      BY <1>11, <2>2, <2>3 DEF SessionCreated
  <1>12. CASE Poll
    <2>1. old.step = "poll"
      BY <1>6, <1>12 DEF Poll
    <2>2. CASE Ends("error") \/ Ends("none")
      BY <1>7, <2>1, <2>2
    <2>3. CASE /\ desk' = [desk EXCEPT !.step = "polling", !.polls = @ + 1]
               /\ Ask(Desktop, "get", desk.polls, None)
      <3>1. desk'.received = old.received /\ desk'.result = old.result
        BY <1>6, <2>3 DEF Desks
      <3>2. QED
        BY <1>8, <2>1, <2>3, <3>1
    <2>4. QED
      BY <1>12, <2>2, <2>3 DEF Poll
  <1>13. ASSUME NEW e, SendAck(e), old.step = "polling" \/ (old.step = "acking" /\ e = old.received)
         PROVE  Asking'
    <2>1. desk'.step = "acking" /\ desk'.received = e /\ desk'.result = old.result
      BY <1>6, <1>13 DEF SendAck, Desks
    <2>2. PICK new : new = [from |-> Desktop, op |-> "ack", n |-> desk.acks, envelope |-> e,
                            late |-> FALSE]
      OBVIOUS
    <2>3. net' = net \cup {new} /\ new.op = "ack" /\ new.envelope = e
      BY <1>13, <2>2 DEF SendAck, Ask
    <2>4. QED
      BY <1>6, <1>13, <2>1, <2>3 DEF Asking
  <1>14. CASE PictureArrives \/ PollRefused
    <2>1. old.step = "polling"
      BY <1>6, <1>14 DEF PictureArrives, PollRefused, DesktopTakes
    <2>2. (\E result \in {"error", "none"} : Ends(result)) \/ \E e : SendAck(e)
      BY <1>14 DEF PictureArrives, PollRefused
    <2>3. QED
      BY <1>7, <1>13, <2>1, <2>2
  <1>15. CASE AckAnswered
    <2>1. old.step = "acking"
      BY <1>6, <1>15 DEF AckAnswered, DesktopTakes
    <2>2. (\E result \in {"picture", "none"} : Ends(result)) \/ SendAck(old.received)
      BY <1>6, <1>15 DEF AckAnswered
    <2>3. QED
      BY <1>7, <1>13, <2>1, <2>2
  <1>16. QED
    BY <1>2, <1>3, <1>4, <1>5, <1>9, <1>10, <1>11, <1>12, <1>14, <1>15 DEF Next, DesktopStep

-----------------------------------------------------------------------------
(* One picture                                                             *)

LEMMA NothingNewIsKnown ==
    ASSUME Types, Opening, OnePicture, [Next]_vars, Senders,
           \A e \in Envelopes : Known(e)' => Known(e),
           relay'.payload = None /\ relay'.session # None =>
              (relay.payload = None /\ relay.session # None) \/ \A e \in Envelopes : ~ Known(e)
    PROVE  OnePicture'
  <1>1. Ready => Ready'
    BY ReadyStays
  <1>2. QED
    BY <1>1 DEF OnePicture

\* An answer without an envelope says nothing new.
LEMMA AnswerSaysNothing ==
    ASSUME Types, NEW c \in Clients, NEW status, status \notin {"200", "201"} \/ c = Desktop,
           answers' \in {answers, [answers EXCEPT ![c] = [status |-> status, envelope |-> None]]},
           relay'.payload \in {relay.payload, None}, UNCHANGED <<desk, phones>>,
           NEW e \in Envelopes, Known(e)'
    PROVE  Known(e)
  <1>1. \A p \in Phones : answers'[p] # None /\ answers'[p].status \in {"200", "201"}
                            => answers'[p] = answers[p]
    BY NamesAssumption DEF Types, NetTypes, Clients
  <1>2. answers'[Desktop] # None /\ answers'[Desktop].envelope = e /\ e # None
          => answers'[Desktop] = answers[Desktop]
    BY DEF Types, NetTypes, Clients
  <1>3. QED
    BY <1>1, <1>2 DEF Known

LEMMA OnePictureAtTheRelay ==
    ASSUME Types, Senders, Opening, OnePicture, \A p \in Phones : Turns(p), [Next]_vars,
           NEW r \in net, \/ Refuse(r) \/ Create(r) \/ Gone(r) \/ PutPayload(r)
                          \/ GetPayload(r) \/ Acknowledge(r) \/ DeleteSession(r)
    PROVE  OnePicture'
  <1>1. r.from \in Clients /\ UNCHANGED <<desk, phones>>
    BY DEF Refuse, Create, Gone, PutPayload, GetPayload, Acknowledge, DeleteSession, Untouched,
           Types, NetTypes, Requests
  <1>2. ASSUME NEW status, status \notin {"200", "201"},
               Respond(r, status, None) \/ Follow(r, status) \/ UNCHANGED answers,
               relay'.payload \in {relay.payload, None},
               relay'.payload = None /\ relay'.session # None =>
                 (relay.payload = None /\ relay.session # None) \/ \A e \in Envelopes : ~ Known(e)
        PROVE  OnePicture'
    <2>1. answers' \in {answers, [answers EXCEPT ![r.from] = [status |-> status, envelope |-> None]]}
      BY <1>2 DEF Respond, Follow, Answered
    <2>2. QED
      BY <1>1, <1>2, <2>1, AnswerSaysNothing, NothingNewIsKnown
  <1>3. CASE Refuse(r)
    BY <1>2, <1>3 DEF Refuse
  <1>4. CASE Create(r)
    <2>1. ~ Ready
      BY <1>4 DEF Create, Ready, Created
    <2>2. \A e \in Envelopes : ~ Known(e)
      BY <2>1 DEF OnePicture
    <2>3. relay'.payload = relay.payload
      BY <1>4 DEF Create, Types, RelayTypes
    <2>4. Respond(r, "409", None) \/ UNCHANGED answers
      BY <1>4 DEF Create, Follow
    <2>5. QED
      BY <1>2, <2>2, <2>3, <2>4
  <1>5. CASE Gone(r) \/ DeleteSession(r)
    <2>1. relay'.session = None /\ relay'.payload = None
      BY <1>5 DEF Gone, DeleteSession, Empty, Opening, OneSession
    <2>2. UNCHANGED answers
      BY <1>5 DEF Gone, DeleteSession, Follow
    <2>3. QED
      BY <1>2, <2>1, <2>2
  <1>6. CASE Acknowledge(r)
    <2>1. relay'.session = None \/ (relay'.payload = relay.payload /\ relay.session # None)
      BY <1>6 DEF Acknowledge, Live, Empty, Types, RelayTypes
    <2>2. relay'.payload \in {relay.payload, None}
      BY <1>6 DEF Acknowledge, Empty, Types, RelayTypes
    <2>3. UNCHANGED answers \/ Respond(r, "429", None) \/ Respond(r, "409", None)
      BY <1>6 DEF Acknowledge, Follow
    <2>4. QED
      BY <1>2, <2>1, <2>2, <2>3
  <1>7. CASE GetPayload(r)
    <2>1. relay'.payload = relay.payload /\ relay.session # None
      BY <1>7 DEF GetPayload, Live, Types, RelayTypes
    <2>2. CASE Respond(r, "429", None) \/ Respond(r, "204", None)
      BY <1>2, <2>1, <2>2
    <2>3. CASE Respond(r, "200", relay.payload)
      <3>1. r.from = Desktop
        BY <1>1, <1>7 DEF GetPayload, Live, Senders, Clients
      <3>2. answers' \in {answers, [answers EXCEPT ![Desktop] =
                                       [status |-> "200", envelope |-> relay.payload]]}
        BY <2>3, <3>1 DEF Respond, Answered
      <3>3. answers'[Desktop] # None =>
              answers'[Desktop] = answers[Desktop] \/ answers'[Desktop].envelope = relay.payload
        BY <3>2 DEF Types, NetTypes, Clients
      <3>4. \A p \in Phones : answers'[p] = answers[p]
        BY <3>2, NamesAssumption DEF Types, NetTypes, Clients
      <3>5. \A e \in Envelopes : Known(e)' => Known(e)
        BY <1>1, <2>1, <3>3, <3>4 DEF Known
      <3>6. QED
        BY <2>1, <3>5, NothingNewIsKnown
    <2>4. QED
      BY <1>7, <2>2, <2>3 DEF GetPayload
  <1>8. CASE PutPayload(r)
    <2>1. r.from \in Phones /\ relay.session # None
      BY <1>8 DEF PutPayload, Live, Senders
    <2>2. relay'.payload = relay.payload
          \/ (relay.payload = None /\ relay'.payload = r.envelope)
      BY <1>8 DEF PutPayload, Types, RelayTypes
    <2>3. \A p \in Phones : \/ answers'[p] = answers[p]
                            \/ p = r.from /\ phones[p].sent = r.envelope
      <3>1. \A p \in Phones : p # r.from \/ r.late => answers'[p] = answers[p]
        BY <1>8, <1>1 DEF PutPayload, Respond, Answered, Types, NetTypes, Clients
      <3>2. ~ r.late => phones[r.from].sent = r.envelope
        BY <2>1 DEF Turns, Current
      <3>3. QED
        BY <3>1, <3>2
    <2>4. answers'[Desktop] = answers[Desktop]
      BY <1>8, <2>1, NamesAssumption DEF PutPayload, Respond, Answered, Types, NetTypes, Clients
    <2>5. CASE relay'.payload = None \/ relay.payload # None
      <3>1. CASE relay.payload # None /\ r.envelope = relay.payload
        <4>1. \A e \in Envelopes : Known(e)' => Known(e)
          BY <1>1, <2>2, <2>3, <2>4, <3>1 DEF Known
        <4>2. QED
          BY <2>1, <2>2, <3>1, <4>1, NothingNewIsKnown
      <3>2. CASE relay.payload # None /\ r.envelope # relay.payload
        <4>1. Respond(r, "429", None) \/ Respond(r, "409", None)
          BY <1>8, <3>2 DEF PutPayload
        <4>2. QED
          BY <1>2, <2>1, <2>2, <3>2, <4>1
      <3>3. CASE relay.payload = None /\ relay'.payload = None
        <4>1. \A e \in Envelopes : ~ Known(e)
          BY <2>1, <3>3 DEF OnePicture
        <4>2. r.envelope = None \/ Respond(r, "429", None)
          BY <1>8, <3>3 DEF PutPayload, Types, RelayTypes
        <4>3. CASE Respond(r, "429", None)
          BY <1>2, <2>1, <3>3, <4>3
        <4>4. CASE r.envelope = None
          <5>1. \A e \in Envelopes : Known(e)' => Known(e)
            BY <1>1, <2>3, <2>4, <3>3, <4>4 DEF Known
          <5>2. QED
            BY <2>1, <3>3, <5>1, NothingNewIsKnown
        <4>5. QED
          BY <4>2, <4>3, <4>4
      <3>4. QED
        BY <2>2, <2>5, <3>1, <3>2, <3>3
    <2>6. CASE relay'.payload # None /\ relay.payload = None
      <3>1. \A e \in Envelopes : ~ Known(e)
        BY <2>1, <2>6 DEF OnePicture
      <3>2. \A e \in Envelopes : Known(e)' => e = r.envelope
        BY <1>1, <2>2, <2>3, <2>4, <2>6, <3>1 DEF Known
      <3>3. Ready'
        <4>1. Ready
          BY <1>8 DEF PutPayload, Live, Opening, Led
        <4>2. QED
          BY <4>1, ReadyStays
      <3>4. QED
        BY <2>6, <3>2, <3>3 DEF OnePicture
    <2>7. QED
      BY <2>5, <2>6
  <1>9. QED
    BY <1>3, <1>4, <1>5, <1>6, <1>7, <1>8

LEMMA OnePictureKept ==
    ASSUME Types, Senders, Opening, OnePicture, \A p \in Phones : Turns(p), [Next]_vars
    PROVE  OnePicture'
  <1>1. ASSUME NEW r \in net, \/ Refuse(r) \/ Create(r) \/ Gone(r) \/ PutPayload(r)
                              \/ GetPayload(r) \/ Acknowledge(r) \/ DeleteSession(r)
        PROVE  OnePicture'
    BY <1>1, OnePictureAtTheRelay
  <1>2. ASSUME NEW t \in tails, SetAlarm(t) \/ DeleteAll(t)
        PROVE  OnePicture'
    <2>1. t.request.from \in Clients /\ UNCHANGED <<desk, phones>>
      BY <1>2 DEF SetAlarm, DeleteAll, Untouched, Types, NetTypes, Tails, Requests
    <2>2. \E status : /\ status \notin {"200", "201"} \/ t.request.from = Desktop
                      /\ answers' \in {answers, [answers EXCEPT ![t.request.from] =
                                                   [status |-> status, envelope |-> None]]}
      BY <1>2 DEF SetAlarm, DeleteAll, Answered, Senders, Types, NetTypes, Tails
    <2>3. /\ relay'.payload \in {relay.payload, None}
          /\ relay'.payload = None /\ relay'.session # None =>
                relay.payload = None /\ relay.session # None
      BY <1>2 DEF SetAlarm, DeleteAll, Types, RelayTypes
    <2>4. \A e \in Envelopes : Known(e)' => Known(e)
      BY <2>1, <2>2, <2>3, AnswerSaysNothing
    <2>5. QED
      BY <2>3, <2>4, NothingNewIsKnown
  <1>3. CASE Expire \/ Alarm \/ PanelStep \/ UNCHANGED vars
    <2>1. UNCHANGED <<answers, desk, phones>> /\ (relay' = relay \/ relay' = Empty)
      BY <1>3, StepsAreLocal DEF Expire, Alarm, vars
    <2>2. relay' = Empty => relay'.payload = None /\ relay'.session = None
      BY DEF Empty
    <2>3. \A e \in Envelopes : Known(e)' => Known(e)
      BY <2>1, <2>2 DEF Known
    <2>4. QED
      BY <2>1, <2>2, <2>3, NothingNewIsKnown
  <1>4. CASE NetStep
    <2>1. PICK r \in net \cup {t.request : t \in tails} : ConnectionFails(r)
      BY <1>4 DEF NetStep
    <2>2. r.from \in Clients
      BY DEF Types, NetTypes, Tails, Requests
    <2>3. answers' = [answers EXCEPT ![r.from] = [status |-> "lost", envelope |-> None]]
          /\ UNCHANGED <<relay, desk, phones>>
      BY <2>1 DEF ConnectionFails
    <2>4. \A e \in Envelopes : Known(e)' => Known(e)
      <3>1. "lost" \notin {"200", "201"}
        OBVIOUS
      <3>2. /\ answers' \in {answers, [answers EXCEPT ![r.from] = [status |-> "lost", envelope |-> None]]}
            /\ relay'.payload \in {relay.payload, None}
        BY <2>3
      <3>3. QED
        BY <2>2, <2>3, <3>1, <3>2, AnswerSaysNothing
    <2>5. QED
      BY <2>3, <2>4, NothingNewIsKnown
  <1>5. CASE DesktopStep
    <2>1. UNCHANGED <<relay, phones>> /\ \A q \in Phones : answers'[q] = answers[q]
      BY <1>5, DesktopMoves
    <2>2. answers' \in {answers, [answers EXCEPT ![Desktop] = None]}
      BY <1>5 DEF DesktopStep, BeginSession, SessionRefused, SessionCreated, Poll, NothingYet,
             PollRefused, PictureArrives, AckAnswered, TransferEnds, DesktopTakes
    <2>3. answers'[Desktop] # None => answers'[Desktop] = answers[Desktop]
      BY <2>2 DEF Types, NetTypes, Clients
    <2>4. desk'.received = desk.received
          \/ (answers[Desktop] # None /\ desk'.received = answers[Desktop].envelope)
      <3>1. CASE PictureArrives
        <4>1. answers[Desktop] # None
          BY <3>1 DEF PictureArrives, DesktopTakes
        <4>2. CASE SendAck(answers[Desktop].envelope)
          BY <4>1, <4>2 DEF SendAck, Types, DeskTypes, Desks
        <4>3. CASE Ends("error") \/ Ends("none")
          BY <4>3 DEF Ends, Types, DeskTypes, Desks
        <4>4. QED
          BY <3>1, <4>2, <4>3 DEF PictureArrives
      <3>2. CASE AckAnswered
        <4>1. CASE SendAck(desk.received)
          BY <4>1 DEF SendAck, Types, DeskTypes, Desks
        <4>2. CASE Ends("picture") \/ Ends("none")
          BY <4>2 DEF Ends, Types, DeskTypes, Desks
        <4>3. QED
          BY <3>2, <4>1, <4>2 DEF AckAnswered
      <3>3. CASE SessionCreated \/ PollRefused \/ Poll
        BY <3>3 DEF SessionCreated, PollRefused, Poll, Ends, Types, DeskTypes, Desks
      <3>4. CASE BeginSession \/ SessionRefused \/ NothingYet \/ TransferEnds
        BY <3>4 DEF BeginSession, SessionRefused, NothingYet, TransferEnds, Types, DeskTypes, Desks
      <3>5. QED
        BY <1>5, <3>1, <3>2, <3>3, <3>4 DEF DesktopStep
    <2>5. \A e \in Envelopes : Known(e)' => Known(e)
      BY <2>1, <2>3, <2>4 DEF Known
    <2>6. QED
      BY <2>1, <2>5, NothingNewIsKnown
  <1>6. CASE PhoneStep
    <2>1. PICK p \in Phones, page \in Pages :
             phones' = [phones EXCEPT ![p] = page] /\ PageSteps(p, page)
      BY <1>6, PhoneStepChangesPage
    <2>2. phones'[p] = page /\ \A other \in Phones \ {p} : phones'[other] = phones[other]
      BY <2>1, PageChanges
    <2>3. UNCHANGED <<relay, desk>>
      BY <1>6, StepsAreLocal
    <2>4. answers' \in {answers, [answers EXCEPT ![p] = None]}
      BY <2>1 DEF PageSteps
    <2>5. /\ answers'[p] \in {answers[p], None} /\ answers'[Desktop] = answers[Desktop]
          /\ \A q \in Phones \ {p} : answers'[q] = answers[q]
      BY <2>4, NamesAssumption DEF Types, NetTypes, Clients
    <2>6. PICK old \in Pages : old = phones[p]
      BY DEF Types, PageTypes
    <2>7. \/ page.told = old.told
          \/ answers[p] # None /\ answers[p].status \in {"200", "201"} /\ page.told = old.sent
      <3> DEFINE Told == /\ PutAnswered(p) /\ answers[p].status \in {"200", "201"}
                         /\ page = [old EXCEPT !.step = "idle", !.pending = None, !.told = old.sent]
      <3>1. CASE Told
        <4>1. answers[p] # None
          BY <3>1 DEF PutAnswered
        <4>2. page.told = old.sent
          BY <3>1 DEF Pages
        <4>3. QED
          BY <3>1, <4>1, <4>2
      <3>2. CASE ~ Told
        BY <2>1, <2>6, <3>2 DEF PageSteps, Pages
      <3>3. QED
        BY <3>1, <3>2
    <2>8. page.sent = old.sent \/ answers[p] = None
      <3>1. CASE SendBlob(p) \/ Encrypted(p)
        BY <3>1 DEF SendBlob, Encrypted, PhoneHas, Turns
      <3>2. CASE ~ SendBlob(p) /\ ~ Encrypted(p)
        BY <2>1, <2>6, <3>2 DEF PageSteps, Pages
      <3>3. QED
        BY <3>1, <3>2
    <2>9. \A e \in Envelopes : Known(e)' => Known(e)
      BY <2>2, <2>3, <2>5, <2>6, <2>7, <2>8 DEF Known
    <2>10. QED
      BY <2>3, <2>9, NothingNewIsKnown
  <1>7. QED
    BY <1>1, <1>2, <1>3, <1>4, <1>5, <1>6 DEF Next, RelayStep

-----------------------------------------------------------------------------
(* Theorems                                                                *)

LEMMA TransfersInvInit == Init => TransfersInv
  <1> SUFFICES ASSUME Init
               PROVE  TransfersInv
    OBVIOUS
  <1>1. Types
    <2>1. RelayTypes /\ NetTypes
      BY DEF Init, Empty, RelayTypes, NetTypes
    <2>2. <<>> \in Seq({"qr", "done"})
      OBVIOUS
    <2>3. DeskTypes
      BY <2>2 DEF Init, NewPanel, DeskTypes, Desks, Panels, States, Authorities
    <2>4. NewPhone \in Pages
      BY DEF NewPhone, Pages
    <2>5. PageTypes
      BY <2>4 DEF Init, PageTypes
    <2>6. QED
      BY <2>1, <2>3, <2>5 DEF Types
  <1>2. Senders /\ Asking
    BY DEF Init, Senders, Asking
  <1>3. \A p \in Phones : phones[p] = NewPhone
    BY DEF Init
  <1>4. \A c \in Clients : answers[c] = None
    BY DEF Init
  <1>5. \A p \in Phones : Turns(p)
    BY <1>4 DEF Init, Turns, Current, Clients
  <1>6. \A p \in Phones : Page(p)
    BY <1>3 DEF NewPhone, Page
  <1>7. Opening
    BY <1>3, <1>4 DEF Init, NewPanel, Opening, OneCreate, OneAlarm, OneSession, Led, NewPhone,
                      Clients, Empty
  <1>8. \A e \in Envelopes : ~ Known(e)
    BY <1>3, <1>4 DEF Init, Known, NewPhone, Clients, Empty
  <1>9. OnePicture
    BY <1>8 DEF OnePicture
  <1>10. QED
    BY <1>1, <1>2, <1>5, <1>6, <1>7, <1>9 DEF TransfersInv

LEMMA TransfersInvHolds == Spec => []TransfersInv
  <1>1. TransfersInv /\ [Next]_vars => TransfersInv'
    <2> SUFFICES ASSUME TransfersInv, [Next]_vars
                 PROVE  TransfersInv'
      OBVIOUS
    <2>1. Types' /\ Senders' /\ Opening' /\ Asking' /\ OnePicture'
      BY TypesKept, SendersKept, OpeningKept, AskingKept, OnePictureKept DEF TransfersInv
    <2>2. \A p \in Phones : Turns(p)' /\ Page(p)'
      BY TurnsKept, PageKept DEF TransfersInv
    <2>3. QED
      BY <2>1, <2>2 DEF TransfersInv
  <1>2. QED
    BY TransfersInvInit, <1>1, PTL DEF Spec

\* Whatever is lost, repeated or late, at most one page is told that its picture
\* was sent, and it is the one the desktop gets, if it gets any (putPayload keeps
\* the first envelope and answers 200 only for the same one).
THEOREM PicturesAgree == Spec => []PhoneAndDesktopAgree
  <1>1. TransfersInv => PhoneAndDesktopAgree
    <2> SUFFICES ASSUME TransfersInv, NEW p \in Phones, phones[p].told # None
                 PROVE  /\ \A q \in Phones \ {p} : phones[q].told = None
                        /\ desk.received \in {None, phones[p].told}
                        /\ relay.payload \in {None, phones[p].told}
      BY DEF PhoneAndDesktopAgree
    <2>1. /\ \A q \in Phones : phones[q].told \in Envelopes \cup {None}
          /\ desk.received \in Envelopes \cup {None} /\ relay.payload \in Envelopes \cup {None}
      BY DEF TransfersInv, Types, PageTypes, Pages, DeskTypes, Desks, RelayTypes
    <2>2. \A e, f \in Envelopes : Known(e) /\ Known(f) => e = f
      BY DEF TransfersInv, OnePicture
    <2>3. \A q \in Phones : phones[q].told # None => Known(phones[q].told)
      BY DEF Known
    <2>4. /\ desk.received # None => Known(desk.received)
          /\ relay.payload # None => Known(relay.payload)
      BY DEF Known
    <2>5. \A q \in Phones : phones[q].told # None => phones[q].told.phone = q
      BY DEF TransfersInv, Page
    <2>6. QED
      BY <2>1, <2>2, <2>3, <2>4, <2>5
  <1>2. QED
    BY TransfersInvHolds, <1>1, PTL

\* What a page reports as sent is the drawing at its last press of Send, unless it
\* was drawn on while it was being encrypted (sendBlob, startDrawing).
THEOREM PagesReportTheirDrawing == Spec => []SentIsLastDrawing
  <1>1. TransfersInv => SentIsLastDrawing
    BY DEF TransfersInv, Page, SentIsLastDrawing
  <1>2. QED
    BY TransfersInvHolds, <1>1, PTL

\* The relay gives up a picture before the session expires only when the desktop
\* has it or has given up: a lost answer or a failed alarm loses none
\* (acknowledge, deleteSession, create).
THEOREM PicturesAreKept == Spec => KeptUntilReceived
  <1>1. ASSUME TransfersInv, [Next]_vars, relay.payload # None, relay'.payload = None, ~ expired
        PROVE  desk.received = relay.payload \/ desk.result # None
    <2>1. Types /\ Opening /\ Asking
      BY <1>1 DEF TransfersInv
    <2>2. relay' # relay
      BY <1>1
    <2>3. RelayStep
      BY <1>1, <2>2, StepsAreLocal DEF Next, vars
    <2>4. ASSUME NEW r \in net, Create(r) \/ GetPayload(r) \/ PutPayload(r) \/ Refuse(r)
          PROVE  FALSE
      BY <1>1, <2>1, <2>4 DEF Create, GetPayload, PutPayload, Refuse, Types, RelayTypes
    <2>5. ASSUME NEW r \in net, Acknowledge(r)
          PROVE  desk.received = relay.payload
      <3>1. r.op = "ack"
        BY <2>5 DEF Acknowledge, Live
      <3>2. relay.payload = r.envelope
        BY <1>1, <2>1, <2>5 DEF Acknowledge, Types, RelayTypes
      <3>3. QED
        BY <2>1, <3>1, <3>2 DEF Asking
    <2>6. ASSUME NEW r \in net, DeleteSession(r)
          PROVE  desk.result # None
      BY <2>1, <2>6 DEF DeleteSession, Live, Asking
    <2>7. ASSUME NEW r \in net, Gone(r)
          PROVE  FALSE
      BY <1>1, <2>1, <2>7 DEF Gone, Opening, OneSession
    <2>8. ASSUME NEW t \in tails, SetAlarm(t)
          PROVE  FALSE
      BY <1>1, <2>1, <2>8 DEF SetAlarm, Opening, Led, Ready
    <2>9. ASSUME NEW t \in tails, DeleteAll(t)
          PROVE  FALSE
      BY <1>1, <2>1, <2>9 DEF DeleteAll, Opening, OneSession
    <2>10. ~ Expire /\ ~ Alarm
      BY <1>1, <2>2 DEF Expire, Alarm
    <2>11. QED
      BY <2>3, <2>4, <2>5, <2>6, <2>7, <2>8, <2>9, <2>10 DEF RelayStep
  <1>2. TransfersInv /\ [Next]_vars =>
          [(relay.payload # None /\ relay'.payload = None) =>
              expired \/ desk.received = relay.payload \/ desk.result # None]_vars
    BY <1>1
  <1>3. QED
    BY TransfersInvHolds, <1>2, PTL DEF Spec, KeptUntilReceived

\* A transfer the user has cancelled in front of its document never shows its
\* picture after that, whatever still arrives for it and whichever documents come to
\* the front (cancel_signature_operation, signature_authority_is_current).
THEOREM CancelHolds == Spec => CancelledShowsNothing
  <1> DEFINE Inv == Types /\ CancelInv
  <1>1. Init => Inv
    <2>1. Init => Types
      BY TransfersInvInit DEF TransfersInv
    <2>2. QED
      BY <2>1 DEF Init, NewPanel, CancelInv
  <1>2. Inv /\ [Next]_vars =>
          CancelInv' /\ (panel.stopped /\ panel.state # "preview" => panel'.state # "preview")
    <2> SUFFICES ASSUME Inv, [Next]_vars
                 PROVE  CancelInv' /\ (panel.stopped /\ panel.state # "preview"
                                         => panel'.state # "preview")
      OBVIOUS
    <2>1. panel.authority \in Authorities
      BY DEF Types, DeskTypes, Panels
    <2>2. CASE CancelTransfer \/ Dismiss \/ Reopen
      BY <2>1, <2>2, Choices, WithdrawTypes DEF CancelInv, Authorities
    <2>3. CASE OtherOpened
      BY <2>3 DEF OtherOpened, CancelInv, Types, DeskTypes, Panels
    <2>4. CASE PanelEvent
      BY <2>4, EventsFall DEF CancelInv
    <2>5. CASE DesktopStep
      <3>1. panel' = panel \/ \E event : panel' = [panel EXCEPT !.events = Append(@, event)]
        BY <2>5 DEF DesktopStep, BeginSession, SessionRefused, SessionCreated, Poll, NothingYet,
               PollRefused, PictureArrives, AckAnswered, TransferEnds
      <3>2. panel'.state = panel.state /\ panel'.authority = panel.authority
            /\ panel'.stopped = panel.stopped
        BY <3>1 DEF Types, DeskTypes, Panels
      <3>3. QED
        BY <3>2 DEF CancelInv
    <2>6. CASE RelayStep \/ NetStep \/ PhoneStep \/ UNCHANGED vars
      BY <2>6, StepsAreLocal DEF vars, CancelInv
    <2>7. QED
      BY <2>2, <2>3, <2>4, <2>5, <2>6 DEF Next, PanelStep
  <1>3. Inv /\ [Next]_vars => Inv'
    BY <1>2, TypesKept
  <1>4. Inv /\ [Next]_vars
          => [panel.stopped /\ panel.state # "preview" => panel'.state # "preview"]_vars
    BY <1>2
  <1>5. QED
    BY <1>1, <1>3, <1>4, PTL DEF Spec, CancelledShowsNothing

-----------------------------------------------------------------------------
(* Limits                                                                  *)

\* Requests of one kind that wait in the net, those handled, and those made: each
\* has a number of its own, below the number made.
Within(waiting, handled, made) ==
    /\ IsFiniteSet(waiting)
    /\ handled + Cardinality(waiting) <= made
    /\ \A r \in waiting : r.n < made
    /\ \A r, s \in waiting : r.n = s.n => r = s

Waiting(op) == {r \in net : r.op = op}
Polled == IF relay.session = None THEN 0 ELSE relay.session.polls
Acked == IF relay.session = None THEN 0 ELSE relay.session.acks

\* The desktop polls and acknowledges no more than it may, late requests included,
\* so the relay's counters stay below what the desktop has asked.
Budgets ==
    /\ desk.polls \in 0..DesktopPolls /\ desk.acks \in 0..DesktopAcks
    /\ desk.step \in {"start", "creating", "poll", "polling"} => desk.acks = 0
    /\ Within(Waiting("get"), Polled, desk.polls)
    /\ Within(Waiting("ack"), Acked, desk.acks)

\* An envelope somebody holds was made by a page, within the bounds.
Sound(e) == e \in Envelope \cup {None}
EnvelopesSound ==
    /\ Sound(relay.payload) /\ Sound(desk.received)
    /\ \A r \in net : Sound(r.envelope) /\ r.n \in Nat
    /\ \A t \in tails : Sound(t.request.envelope) /\ t.request.n \in Nat
    /\ \A c \in Clients : answers[c] # None => Sound(answers[c].envelope)

PageBounds(p) ==
    LET page == phones[p] IN
    /\ Sound(page.pending) /\ Sound(page.sent) /\ Sound(page.told)
    /\ page.shown \in Pictures /\ page.blob \in Pictures
    /\ page.sends \in 0..MaxSends /\ page.ids \in 0..page.sends
    /\ page.step \in {"reading", "encrypting"} => page.ids < page.sends

\* The panel hears of the code before it hears of the end.
EventsInOrder ==
    LET events == panel.events IN
    /\ desk.step \in {"start", "creating"} => events = <<>>
    /\ desk.step # "done" => events \in {<<>>, <<"qr">>}
    /\ events \in {<<>>, <<"qr">>, <<"done">>, <<"qr", "done">>}

LimitsInv ==
    /\ expired \in BOOLEAN /\ cancelled \in BOOLEAN
    /\ Budgets /\ EnvelopesSound /\ EventsInOrder
    /\ \A p \in Phones : PageBounds(p)
    /\ OwnLimitsNeverBite

\* Fewer wait, or fewer have been handled.
LEMMA WithinLess ==
    ASSUME NEW W, NEW V, V \subseteq W, NEW h \in Nat, NEW g \in Nat, g <= h, NEW m \in Nat,
           Within(W, h, m)
    PROVE  Within(V, g, m)
  <1>1. IsFiniteSet(V) /\ Cardinality(V) <= Cardinality(W)
    BY FS_Subset DEF Within
  <1>2. Cardinality(V) \in Nat /\ Cardinality(W) \in Nat
    BY <1>1, FS_CardinalityType DEF Within
  <1>3. h + Cardinality(W) <= m
    BY DEF Within
  <1>4. g + Cardinality(V) <= m
    BY <1>1, <1>2, <1>3
  <1>5. QED
    BY <1>1, <1>4 DEF Within

\* One that waited has been handled.
LEMMA WithinHandled ==
    ASSUME NEW W, NEW V, NEW r \in W, V \subseteq W \ {r}, NEW h \in Nat, NEW m \in Nat,
           Within(W, h, m)
    PROVE  Within(V, h + 1, m) /\ h < m
  <1>1. IsFiniteSet(W \ {r}) /\ Cardinality(W \ {r}) = Cardinality(W) - 1
    BY FS_RemoveElement DEF Within
  <1>2. Cardinality(W) \in Nat /\ Cardinality(W \ {r}) \in Nat
    BY <1>1, FS_CardinalityType DEF Within
  <1>3. h + Cardinality(W) <= m
    BY DEF Within
  <1>4. h + 1 + Cardinality(W \ {r}) <= m /\ h < m
    BY <1>1, <1>2, <1>3
  <1>5. Within(W \ {r}, h + 1, m)
    BY <1>1, <1>4 DEF Within
  <1>6. QED
    BY <1>4, <1>5, WithinLess

\* Another one is made, with the next number.
LEMMA WithinMade ==
    ASSUME NEW W, NEW new, NEW h \in Nat, NEW m \in Nat, new.n = m,
           \A r \in W : r.n \in Int, Within(W, h, m)
    PROVE  Within(W \cup {new}, h, m + 1)
  <1>1. new \notin W
    BY DEF Within
  <1>2. IsFiniteSet(W \cup {new}) /\ Cardinality(W \cup {new}) = Cardinality(W) + 1
    BY <1>1, FS_AddElement DEF Within
  <1>3. Cardinality(W) \in Nat
    BY FS_CardinalityType DEF Within
  <1>4. h + Cardinality(W \cup {new}) <= m + 1
    BY <1>2, <1>3 DEF Within
  <1>5. \A r \in W \cup {new} : r.n < m + 1
    BY DEF Within
  <1>6. \A r, s \in W \cup {new} : r.n = s.n => r = s
    BY DEF Within
  <1>7. QED
    BY <1>2, <1>4, <1>5, <1>6 DEF Within

\* One that waits is given up by its client.
LEMMA WithinSwapped ==
    ASSUME NEW W, NEW r \in W, NEW s, s.n = r.n, NEW h \in Nat, NEW m \in Nat, Within(W, h, m)
    PROVE  Within((W \ {r}) \cup {s}, h, m)
  <1>1. IsFiniteSet(W \ {r}) /\ Cardinality(W \ {r}) = Cardinality(W) - 1
    BY FS_RemoveElement DEF Within
  <1>2. IsFiniteSet((W \ {r}) \cup {s}) /\ Cardinality((W \ {r}) \cup {s}) <= Cardinality(W)
    <2>1. Cardinality(W) \in Nat
      BY FS_CardinalityType DEF Within
    <2>2. CASE s \in W \ {r}
      <3>1. (W \ {r}) \cup {s} = W \ {r}
        BY <2>2
      <3>2. QED
        BY <1>1, <2>1, <3>1
    <2>3. CASE s \notin W \ {r}
      <3>1. Cardinality((W \ {r}) \cup {s}) = Cardinality(W \ {r}) + 1
            /\ IsFiniteSet((W \ {r}) \cup {s})
        BY <1>1, <2>3, FS_AddElement
      <3>2. QED
        BY <1>1, <2>1, <3>1
    <2>4. QED
      BY <2>2, <2>3
  <1>3. Cardinality(W) \in Nat /\ Cardinality((W \ {r}) \cup {s}) \in Nat
    BY <1>2, FS_CardinalityType DEF Within
  <1>4. h + Cardinality((W \ {r}) \cup {s}) <= m
    BY <1>2, <1>3 DEF Within
  <1>5. \A t \in (W \ {r}) \cup {s} : t.n < m
    BY DEF Within
  <1>6. \A t, u \in (W \ {r}) \cup {s} : t.n = u.n => t = u
    BY DEF Within
  <1>7. QED
    BY <1>2, <1>4, <1>5, <1>6 DEF Within

LEMMA CountsAreNat ==
    ASSUME Types
    PROVE  Polled \in Nat /\ Acked \in Nat
  BY LimitsAssumption, SessionIsNotNone DEF Types, RelayTypes, Session, Polled, Acked

\* What the relay counts, it counts for a request that waits no more.
Counts(op, counted) ==
    \/ counted' <= counted
    \/ /\ counted' = counted + 1
       /\ \E r \in net \ net' : r.op = op

LEMMA RelayCounts ==
    ASSUME Types, RelayStep
    PROVE  net' \subseteq net /\ Counts("get", Polled) /\ Counts("ack", Acked)
  <1>1. /\ net' \subseteq net
        /\ \A r \in net : GetPayload(r) \/ Acknowledge(r) => r \notin net'
    BY DEF RelayStep, Refuse, Create, Gone, PutPayload, GetPayload, Acknowledge,
           DeleteSession, SetAlarm, DeleteAll, Expire, Alarm, Respond, Follow, Finish
  <1>2. Polled \in Nat /\ Acked \in Nat
    BY CountsAreNat
  <1>3. ASSUME relay'.session \in {relay.session, None, NewSession}
        PROVE  Counts("get", Polled) /\ Counts("ack", Acked)
    <2>1. (relay'.session = relay.session => Polled' = Polled /\ Acked' = Acked)
          /\ (relay'.session = None => Polled' = 0 /\ Acked' = 0)
      BY DEF Polled, Acked
    <2>2. relay'.session = NewSession /\ NewSession # None => Polled' = 0 /\ Acked' = 0
      BY DEF Polled, Acked, NewSession
    <2>3. QED
      BY <1>2, <1>3, <2>1, <2>2 DEF Counts
  <1>4. PICK rel \in [session : Session \cup {None}, payload : Envelopes \cup {None},
                      alarm : BOOLEAN] : rel = relay
    BY DEF Types, RelayTypes
  <1>5. Empty.session = None
    BY DEF Empty
  <1>6. ASSUME NEW r \in net, \/ Refuse(r) \/ Create(r) \/ Gone(r) \/ DeleteSession(r)
        PROVE  relay'.session \in {relay.session, None, NewSession}
    BY <1>4, <1>5, <1>6 DEF Refuse, Create, Gone, DeleteSession
  <1>7. ASSUME NEW t \in tails, SetAlarm(t) \/ DeleteAll(t)
        PROVE  relay'.session \in {relay.session, None, NewSession}
    BY <1>4, <1>7 DEF SetAlarm, DeleteAll
  <1>8. ASSUME Expire \/ Alarm
        PROVE  relay'.session \in {relay.session, None, NewSession}
    BY <1>4, <1>5, <1>8 DEF Expire, Alarm
  <1>9. ASSUME NEW r \in net, \/ PutPayload(r) \/ GetPayload(r)
                              \/ Acknowledge(r) /\ relay'.session # None
        PROVE  Counts("get", Polled) /\ Counts("ack", Acked)
    <2>1. PICK session \in Session : session = relay.session
      BY <1>9, <1>4 DEF PutPayload, GetPayload, Acknowledge, Live
    <2>2. /\ session.uploads \in Nat /\ session.polls \in Nat /\ session.acks \in Nat
          /\ session.uploads + 1 <= MaxUploads =>
               [session EXCEPT !.uploads = @ + 1] \in Session
          /\ session.polls + 1 <= MaxPolls => [session EXCEPT !.polls = @ + 1] \in Session
          /\ session.acks + 1 <= MaxAcks => [session EXCEPT !.acks = @ + 1] \in Session
      BY LimitsAssumption DEF Session
    <2>3. \/ relay'.session = session
          \/ /\ relay'.session = [session EXCEPT !.uploads = @ + 1]
             /\ session.uploads + 1 <= MaxUploads
          \/ /\ GetPayload(r) /\ relay'.session = [session EXCEPT !.polls = @ + 1]
             /\ session.polls + 1 <= MaxPolls
          \/ /\ Acknowledge(r) /\ relay'.session = [session EXCEPT !.acks = @ + 1]
             /\ session.acks + 1 <= MaxAcks
      <3>1. MaxUploads \in Nat /\ MaxPolls \in Nat /\ MaxAcks \in Nat
        BY LimitsAssumption
      <3>2. CASE PutPayload(r)
        BY <1>4, <2>1, <2>2, <3>1, <3>2 DEF PutPayload
      <3>3. CASE GetPayload(r)
        BY <1>4, <2>1, <2>2, <3>1, <3>3 DEF GetPayload
      <3>4. CASE Acknowledge(r) /\ relay'.session # None
        BY <1>4, <1>5, <2>1, <2>2, <3>1, <3>4 DEF Acknowledge
      <3>5. QED
        BY <1>9, <3>2, <3>3, <3>4
    <2>4. relay.session # None /\ relay'.session # None
      BY <2>1, <2>2, <2>3, SessionIsNotNone
    <2>5. Polled = session.polls /\ Acked = session.acks
          /\ Polled' = relay'.session.polls /\ Acked' = relay'.session.acks
      BY <2>1, <2>4 DEF Polled, Acked
    <2>6. \/ Polled' = Polled /\ Acked' = Acked
          \/ GetPayload(r) /\ Polled' = Polled + 1 /\ Acked' = Acked
          \/ Acknowledge(r) /\ Polled' = Polled /\ Acked' = Acked + 1
      BY <2>1, <2>2, <2>3, <2>5 DEF Session
    <2>7. (GetPayload(r) => r.op = "get") /\ (Acknowledge(r) => r.op = "ack")
      BY DEF GetPayload, Acknowledge, Live
    <2>8. QED
      BY <1>1, <1>2, <2>6, <2>7 DEF Counts
  <1>10. ASSUME NEW r \in net, Acknowledge(r), relay'.session = None
         PROVE  Counts("get", Polled) /\ Counts("ack", Acked)
    BY <1>3, <1>10
  <1>11. QED
    BY <1>1, <1>3, <1>6, <1>7, <1>8, <1>9, <1>10 DEF RelayStep

LEMMA Limits ==
    /\ {MaxPolls, MaxAcks, DesktopPolls, DesktopAcks} \subseteq Nat \ {0}
    /\ DesktopPolls <= MaxPolls /\ DesktopAcks <= MaxAcks
  BY LimitsAssumption

\* A poll or an acknowledgement that waits is one the relay has still room for.
LEMMA RoomAtTheRelay ==
    ASSUME Types, Budgets, NEW r \in net
    PROVE  /\ r.op = "get" => Polled < MaxPolls
           /\ r.op = "ack" => Acked < MaxAcks
  <1>1. Polled \in Nat /\ Acked \in Nat /\ desk.polls \in Nat /\ desk.acks \in Nat
    BY CountsAreNat, Limits DEF Budgets
  <1>2. r.op = "get" => Polled < desk.polls
    <2> SUFFICES ASSUME r.op = "get" PROVE Polled < desk.polls
      OBVIOUS
    <2>1. r \in Waiting("get")
      BY DEF Waiting
    <2>2. Waiting("get") \ {r} \subseteq Waiting("get") \ {r} /\ Within(Waiting("get"), Polled, desk.polls)
      BY DEF Budgets
    <2>3. QED
      BY <1>1, <2>1, <2>2, WithinHandled
  <1>3. r.op = "ack" => Acked < desk.acks
    <2> SUFFICES ASSUME r.op = "ack" PROVE Acked < desk.acks
      OBVIOUS
    <2>1. r \in Waiting("ack")
      BY DEF Waiting
    <2>2. Waiting("ack") \ {r} \subseteq Waiting("ack") \ {r} /\ Within(Waiting("ack"), Acked, desk.acks)
      BY DEF Budgets
    <2>3. QED
      BY <1>1, <2>1, <2>2, WithinHandled
  <1>4. desk.polls <= DesktopPolls /\ desk.acks <= DesktopAcks
    BY <1>1, Limits DEF Budgets
  <1>5. QED
    BY <1>1, <1>2, <1>3, <1>4, Limits

\* What a step of the desktop counts and asks.
DeskCounts ==
    \/ /\ desk'.polls = desk.polls /\ desk'.acks = desk.acks /\ desk'.received = desk.received
       /\ net' = net \/ \E op \in {"create", "delete"} : Ask(Desktop, op, 0, None)
       /\ desk'.step \in {"creating", "poll"} =>
            desk.step \in {"start", "creating", "poll", "polling"}
       /\ desk'.step \notin {"start", "polling"}
    \/ /\ desk.step = "poll" /\ desk'.step = "polling" /\ desk.polls < DesktopPolls
       /\ desk'.polls = desk.polls + 1
       /\ desk'.acks = desk.acks /\ desk'.received = desk.received
       /\ Ask(Desktop, "get", desk.polls, None)
    \/ /\ desk'.step = "acking" /\ desk.acks < DesktopAcks /\ desk'.acks = desk.acks + 1
       /\ desk'.polls = desk.polls
       /\ \/ desk'.received = desk.received
          \/ answers[Desktop] # None /\ desk'.received = answers[Desktop].envelope
       /\ Ask(Desktop, "ack", desk.acks, desk'.received)

LEMMA DesktopCounts ==
    ASSUME Types, Budgets, DesktopStep
    PROVE  DeskCounts
  <1>1. PICK old \in Desks : old = desk
    BY DEF Types, DeskTypes
  <1>2. /\ old.acks \in Nat /\ DesktopAcks \in Nat /\ 0 < DesktopAcks
        /\ old.step = "polling" => old.acks = 0
    BY <1>1, Limits DEF Budgets
  <1>3. ASSUME NEW result, Ends(result)
        PROVE  DeskCounts
    <2>1. desk'.step = "deleting" /\ desk'.polls = old.polls /\ desk'.acks = old.acks
          /\ desk'.received = old.received
      BY <1>1, <1>3 DEF Ends, Desks
    <2>2. QED
      BY <1>1, <1>3, <2>1 DEF Ends, DeskCounts
  <1>4. ASSUME NEW e, SendAck(e), old.acks < DesktopAcks,
               e = old.received \/ (answers[Desktop] # None /\ e = answers[Desktop].envelope)
        PROVE  DeskCounts
    <2>1. desk'.step = "acking" /\ desk'.polls = old.polls /\ desk'.acks = old.acks + 1
          /\ desk'.received = e
      BY <1>1, <1>4 DEF SendAck, Desks
    <2>2. QED
      BY <1>1, <1>4, <2>1 DEF SendAck, DeskCounts
  <1>5. CASE BeginSession
    <2>1. desk'.polls = old.polls /\ desk'.acks = old.acks /\ desk'.received = old.received
          /\ old.step = "start" /\ desk'.step \in {"done", "creating"}
      BY <1>1, <1>5 DEF BeginSession, Desks
    <2>2. net' = net \/ Ask(Desktop, "create", 0, None)
      BY <1>5 DEF BeginSession
    <2>3. QED
      BY <1>1, <2>1, <2>2 DEF DeskCounts
  <1>6. CASE SessionRefused \/ TransferEnds \/ NothingYet
    <2>1. desk'.polls = old.polls /\ desk'.acks = old.acks /\ desk'.received = old.received
          /\ (desk'.step = "done" \/ (desk'.step = "poll" /\ old.step = "polling"))
      BY <1>1, <1>6 DEF SessionRefused, TransferEnds, NothingYet, DesktopTakes, Desks
    <2>2. net' = net
      BY <1>6 DEF SessionRefused, TransferEnds, NothingYet
    <2>3. QED
      BY <1>1, <2>1, <2>2 DEF DeskCounts
  <1>7. CASE SessionCreated
    <2>1. CASE desk' = [desk EXCEPT !.step = "poll"] /\ net' = net
      <3>1. desk'.polls = old.polls /\ desk'.acks = old.acks /\ desk'.received = old.received
            /\ desk'.step = "poll" /\ old.step = "creating"
        BY <1>1, <1>7, <2>1 DEF SessionCreated, DesktopTakes, Desks
      <3>2. QED
        BY <1>1, <2>1, <3>1 DEF DeskCounts
    <2>2. QED
      BY <1>3, <1>7, <2>1 DEF SessionCreated
  <1>8. CASE Poll
    <2>1. CASE /\ desk.polls < DesktopPolls
               /\ desk' = [desk EXCEPT !.step = "polling", !.polls = @ + 1]
               /\ Ask(Desktop, "get", desk.polls, None)
      <3>1. desk'.polls = old.polls + 1 /\ desk'.acks = old.acks /\ desk'.step = "polling"
            /\ desk'.received = old.received /\ old.step = "poll"
        BY <1>1, <1>8, <2>1 DEF Poll, Desks
      <3>2. QED
        BY <1>1, <2>1, <3>1 DEF DeskCounts
    <2>2. QED
      BY <1>3, <1>8, <2>1 DEF Poll
  <1>9. CASE PollRefused \/ PictureArrives
    <2>1. old.step = "polling" /\ answers[Desktop] # None
      BY <1>1, <1>9 DEF PollRefused, PictureArrives, DesktopTakes
    <2>2. (\E result \in {"error", "none"} : Ends(result)) \/ SendAck(answers[Desktop].envelope)
      BY <1>9 DEF PollRefused, PictureArrives
    <2>3. QED
      BY <1>2, <1>3, <1>4, <2>1, <2>2
  <1>10. CASE AckAnswered
    <2>1. \/ \E result \in {"picture", "none"} : Ends(result)
          \/ SendAck(old.received) /\ ~ old.acks >= DesktopAcks
      BY <1>1, <1>10 DEF AckAnswered
    <2>2. ~ old.acks >= DesktopAcks => old.acks < DesktopAcks
      BY <1>2
    <2>3. QED
      BY <1>3, <1>4, <2>1, <2>2
  <1>11. QED
    BY <1>5, <1>6, <1>7, <1>8, <1>9, <1>10 DEF DesktopStep

LEMMA RelayWithin ==
    ASSUME NEW op, NEW W, NEW V, NEW h \in Nat, NEW g \in Nat, NEW m \in Nat,
           V \subseteq W, Within(W, h, m), g <= h \/ (g = h + 1 /\ \E r \in W : r \notin V)
    PROVE  Within(V, g, m)
  <1>1. CASE g <= h
    BY <1>1, WithinLess
  <1>2. CASE g = h + 1 /\ \E r \in W : r \notin V
    <2>1. PICK r \in W : r \notin V
      BY <1>2
    <2>2. V \subseteq W \ {r}
      BY <2>1
    <2>3. QED
      BY <1>2, <2>1, <2>2, WithinHandled
  <1>3. QED
    BY <1>1, <1>2

LEMMA BudgetsKept ==
    ASSUME Types, Budgets, [Next]_vars
    PROVE  Budgets'
  <1>1. /\ Polled \in Nat /\ Acked \in Nat /\ desk.polls \in Nat /\ desk.acks \in Nat
        /\ desk.polls <= DesktopPolls /\ desk.acks <= DesktopAcks
        /\ DesktopPolls \in Nat /\ DesktopAcks \in Nat
    BY CountsAreNat, Limits DEF Budgets
  <1>2. Polled' \in Nat /\ Acked' \in Nat
    <2>1. Types'
      BY TypesKept
    <2>2. QED
      BY <2>1, LimitsAssumption, SessionIsNotNone DEF Types, RelayTypes, Session, Polled, Acked
  <1>3. Within(Waiting("get"), Polled, desk.polls) /\ Within(Waiting("ack"), Acked, desk.acks)
    BY DEF Budgets
  <1>4. UNCHANGED relay => Polled' = Polled /\ Acked' = Acked
    BY DEF Polled, Acked
  <1>5. CASE RelayStep
    <2>1. net' \subseteq net /\ Counts("get", Polled) /\ Counts("ack", Acked) /\ desk' = desk
      BY <1>5, RelayCounts, StepsAreLocal
    <2>2. Waiting("get")' \subseteq Waiting("get") /\ Waiting("ack")' \subseteq Waiting("ack")
      BY <2>1 DEF Waiting
    <2>3. /\ Polled' <= Polled \/ (Polled' = Polled + 1
                                   /\ \E r \in Waiting("get") : r \notin Waiting("get")')
          /\ Acked' <= Acked \/ (Acked' = Acked + 1
                                   /\ \E r \in Waiting("ack") : r \notin Waiting("ack")')
      BY <2>1 DEF Counts, Waiting
    <2>4. Within(Waiting("get")', Polled', desk.polls)
      BY <1>1, <1>2, <1>3, <2>2, <2>3, RelayWithin
    <2>5. Within(Waiting("ack")', Acked', desk.acks)
      BY <1>1, <1>2, <1>3, <2>2, <2>3, RelayWithin
    <2>6. QED
      BY <2>1, <2>4, <2>5 DEF Budgets, Within
  <1>6. CASE NetStep
    <2>1. PICK r \in net \cup {t.request : t \in tails} : ConnectionFails(r)
      BY <1>6 DEF NetStep
    <2>2. PICK late : late = [r EXCEPT !.late = TRUE]
      OBVIOUS
    <2>3. r \in net => late.op = r.op /\ late.n = r.n
      BY <2>2 DEF Types, NetTypes, Requests
    <2>4. net' = net \/ (r \in net /\ net' = (net \ {r}) \cup {late})
      BY <2>1, <2>2 DEF ConnectionFails
    <2>5. desk' = desk /\ Polled' = Polled /\ Acked' = Acked
      BY <1>4, <1>6, StepsAreLocal
    <2>6. ASSUME NEW op \in {"get", "ack"}, NEW h \in Nat, NEW m \in Nat, Within(Waiting(op), h, m)
          PROVE  Within(Waiting(op)', h, m)
      <3>1. CASE net' = net \/ r.op # op
        <4>1. Waiting(op)' = Waiting(op)
          BY <2>3, <2>4, <3>1 DEF Waiting
        <4>2. QED
          BY <2>6, <4>1
      <3>2. CASE r \in net /\ net' = (net \ {r}) \cup {late} /\ r.op = op
        <4>1. Waiting(op)' = (Waiting(op) \ {r}) \cup {late} /\ r \in Waiting(op)
          BY <2>3, <3>2 DEF Waiting
        <4>2. QED
          BY <2>3, <2>6, <3>2, <4>1, WithinSwapped
      <3>3. QED
        BY <2>4, <3>1, <3>2
    <2>7. Within(Waiting("get")', Polled, desk.polls) /\ Within(Waiting("ack")', Acked, desk.acks)
      BY <1>1, <1>3, <2>6
    <2>8. QED
      BY <2>5, <2>7 DEF Budgets
  <1>7. ASSUME NEW c, NEW op, NEW n, NEW e, Ask(c, op, n, e)
        PROVE  \A o : Waiting(o)' = Waiting(o) \/ (o = op /\ \E new : new.n = n
                                                  /\ Waiting(o)' = Waiting(o) \cup {new})
    <2>1. PICK new : new = [from |-> c, op |-> op, n |-> n, envelope |-> e, late |-> FALSE]
      OBVIOUS
    <2>2. net' = net \cup {new} /\ new.op = op /\ new.n = n
      BY <1>7, <2>1 DEF Ask
    <2>3. QED
      BY <2>2 DEF Waiting
  <1>8. CASE DesktopStep
    <2>1. Polled' = Polled /\ Acked' = Acked
      BY <1>4, <1>8, StepsAreLocal
    <2>2. DeskCounts
      BY <1>8, DesktopCounts
    <2>3. CASE /\ desk'.polls = desk.polls /\ desk'.acks = desk.acks
               /\ net' = net \/ \E op \in {"create", "delete"} : Ask(Desktop, op, 0, None)
               /\ desk'.step \in {"creating", "poll"} =>
                    desk.step \in {"start", "creating", "poll", "polling"}
               /\ desk'.step \notin {"start", "polling"}
      <3>1. Waiting("get")' = Waiting("get") /\ Waiting("ack")' = Waiting("ack")
        <4>1. CASE net' = net
          BY <4>1 DEF Waiting
        <4>2. QED
          BY <1>7, <2>3, <4>1
      <3>2. QED
        BY <2>1, <2>3, <3>1 DEF Budgets
    <2>4. CASE /\ desk.step = "poll" /\ desk'.step = "polling" /\ desk.polls < DesktopPolls
               /\ desk'.polls = desk.polls + 1 /\ desk'.acks = desk.acks
               /\ Ask(Desktop, "get", desk.polls, None)
      <3>1. Waiting("ack")' = Waiting("ack")
        BY <1>7, <2>4
      <3>2. \A r \in Waiting("get") : r.n \in Int
        BY DEF Waiting, Types, NetTypes, Requests
      <3>3. Within(Waiting("get")', Polled, desk.polls + 1)
        <4>1. CASE Waiting("get")' = Waiting("get")
          <5>1. Within(Waiting("get"), Polled, desk.polls + 1)
            <6>1. Cardinality(Waiting("get")) \in Nat
              BY <1>3, FS_CardinalityType DEF Within
            <6>2. QED
              BY <1>1, <1>3, <3>2, <6>1 DEF Within
          <5>2. QED
            BY <4>1, <5>1
        <4>2. QED
          BY <1>1, <1>3, <1>7, <2>4, <3>2, <4>1, WithinMade
      <3>4. QED
        BY <1>1, <2>1, <2>4, <3>1, <3>3 DEF Budgets
    <2>5. CASE /\ desk'.step = "acking" /\ desk.acks < DesktopAcks /\ desk'.acks = desk.acks + 1
               /\ desk'.polls = desk.polls
               /\ Ask(Desktop, "ack", desk.acks, desk'.received)
      <3>1. Waiting("get")' = Waiting("get")
        BY <1>7, <2>5
      <3>2. \A r \in Waiting("ack") : r.n \in Int
        BY DEF Waiting, Types, NetTypes, Requests
      <3>3. Within(Waiting("ack")', Acked, desk.acks + 1)
        <4>1. CASE Waiting("ack")' = Waiting("ack")
          <5>1. Within(Waiting("ack"), Acked, desk.acks + 1)
            <6>1. Cardinality(Waiting("ack")) \in Nat
              BY <1>3, FS_CardinalityType DEF Within
            <6>2. QED
              BY <1>1, <1>3, <3>2, <6>1 DEF Within
          <5>2. QED
            BY <4>1, <5>1
        <4>2. QED
          BY <1>1, <1>3, <1>7, <2>5, <3>2, <4>1, WithinMade
      <3>4. QED
        BY <1>1, <2>1, <2>5, <3>1, <3>3 DEF Budgets
    <2>6. QED
      BY <2>2, <2>3, <2>4, <2>5 DEF DeskCounts
  <1>9. CASE PhoneStep
    <2>1. desk' = desk /\ Polled' = Polled /\ Acked' = Acked
      BY <1>4, <1>9, StepsAreLocal
    <2>2. PICK p \in Phones, page \in Pages : PageSteps(p, page)
      BY <1>9, PhoneStepChangesPage
    <2>3. net' = net \/ \E n, e : Ask(p, "put", n, e)
      BY <2>2 DEF PageSteps
    <2>4. Waiting("get")' = Waiting("get") /\ Waiting("ack")' = Waiting("ack")
      <3>1. CASE net' = net
        BY <3>1 DEF Waiting
      <3>2. CASE \E n, e : Ask(p, "put", n, e)
        BY <1>7, <3>2
      <3>3. QED
        BY <2>3, <3>1, <3>2
    <2>5. QED
      BY <2>1, <2>4 DEF Budgets
  <1>10. CASE PanelStep \/ UNCHANGED vars
    <2>1. UNCHANGED <<relay, net, desk>>
      BY <1>10, StepsAreLocal DEF vars
    <2>2. Waiting("get")' = Waiting("get") /\ Waiting("ack")' = Waiting("ack")
      BY <2>1 DEF Waiting
    <2>3. QED
      BY <1>4, <2>1, <2>2 DEF Budgets
  <1>11. QED
    BY <1>5, <1>6, <1>8, <1>9, <1>10 DEF Next

LEMMA LimitsNeverBite ==
    ASSUME Types, Senders, Budgets, OwnLimitsNeverBite, [Next]_vars
    PROVE  OwnLimitsNeverBite'
  <1>1. CASE UNCHANGED answers
    BY <1>1 DEF OwnLimitsNeverBite
  <1>2. Desktop \in Clients /\ answers \in [Clients -> Answers \cup {None}]
    BY DEF Clients, Types, NetTypes
  <1>3. ASSUME NEW c, answers' = [answers EXCEPT ![c] = None]
        PROVE  OwnLimitsNeverBite'
    BY <1>2, <1>3 DEF OwnLimitsNeverBite
  <1>4. ASSUME NEW r, NEW status, NEW e, Answered(r, status, e),
               r.from # Desktop \/ status # "429"
        PROVE  OwnLimitsNeverBite'
    BY <1>2, <1>4 DEF OwnLimitsNeverBite, Answered
  <1>5. CASE DesktopStep \/ PhoneStep
    <2>1. UNCHANGED answers \/ \E c : answers' = [answers EXCEPT ![c] = None]
      BY <1>5 DEF DesktopStep, BeginSession, SessionRefused, SessionCreated, Poll, NothingYet,
             PollRefused, PictureArrives, AckAnswered, TransferEnds, DesktopTakes, PhoneStep,
             Scan, Draw, SendDrawing, SendBlob, Encrypted, PutAnswered
    <2>2. QED
      BY <1>1, <1>3, <2>1
  <1>6. CASE NetStep
    BY <1>2, <1>6 DEF NetStep, ConnectionFails, OwnLimitsNeverBite
  <1>7. ASSUME NEW r \in net, PutPayload(r)
        PROVE  OwnLimitsNeverBite'
    <2>1. r.from # Desktop
      BY <1>7, NamesAssumption DEF PutPayload, Live, Senders
    <2>2. QED
      BY <1>4, <1>7, <2>1 DEF PutPayload, Respond
  <1>8. ASSUME NEW r \in net, GetPayload(r)
        PROVE  OwnLimitsNeverBite'
    <2>1. ~ relay.session.polls >= MaxPolls
      <3>1. r.op = "get" /\ relay.session # None
        BY <1>8 DEF GetPayload, Live
      <3>2. Polled < MaxPolls /\ Polled = relay.session.polls
        BY <3>1, RoomAtTheRelay DEF Polled
      <3>3. QED
        BY <3>2, CountsAreNat, Limits
    <2>2. QED
      BY <1>4, <1>8, <2>1 DEF GetPayload, Respond
  <1>9. ASSUME NEW r \in net, Acknowledge(r)
        PROVE  OwnLimitsNeverBite'
    <2>1. ~ relay.session.acks >= MaxAcks
      <3>1. r.op = "ack" /\ relay.session # None
        BY <1>9 DEF Acknowledge, Live
      <3>2. Acked < MaxAcks /\ Acked = relay.session.acks
        BY <3>1, RoomAtTheRelay DEF Acked
      <3>3. QED
        BY <3>2, CountsAreNat, Limits
    <2>2. QED
      BY <1>1, <1>4, <1>9, <2>1 DEF Acknowledge, Respond, Follow
  <1>10. ASSUME NEW r \in net, Refuse(r) \/ Create(r) \/ Gone(r) \/ DeleteSession(r)
         PROVE  OwnLimitsNeverBite'
    BY <1>1, <1>4, <1>10 DEF Refuse, Create, Gone, DeleteSession, Respond, Follow
  <1>11. ASSUME NEW t \in tails, SetAlarm(t) \/ DeleteAll(t)
         PROVE  OwnLimitsNeverBite'
    <2>1. t.status # "429"
      BY DEF Types, NetTypes, Tails
    <2>2. QED
      BY <1>4, <1>11, <2>1 DEF SetAlarm, DeleteAll
  <1>12. CASE Expire \/ Alarm \/ PanelStep \/ UNCHANGED vars
    BY <1>1, <1>12, StepsAreLocal DEF Expire, Alarm, vars
  <1>13. QED
    BY <1>5, <1>6, <1>7, <1>8, <1>9, <1>10, <1>11, <1>12 DEF Next, RelayStep

LEMMA EnvelopesSoundKept ==
    ASSUME Types, Budgets, EnvelopesSound, \A p \in Phones : PageBounds(p), [Next]_vars
    PROVE  EnvelopesSound'
  <1>1. Sound(None)
    BY DEF Sound
  <1>2. /\ Sound(relay.payload) /\ Sound(desk.received)
        /\ \A r \in net : Sound(r.envelope) /\ r.n \in Nat
        /\ \A t \in tails : Sound(t.request.envelope) /\ t.request.n \in Nat
        /\ \A c \in Clients : answers[c] # None => Sound(answers[c].envelope)
    BY DEF EnvelopesSound
  <1>3. answers \in [Clients -> Answers \cup {None}] /\ Desktop \in Clients
    BY DEF Types, NetTypes, Clients
  <1>4. ASSUME NEW c, NEW status, NEW e, Sound(e),
               \/ answers' = [answers EXCEPT ![c] = [status |-> status, envelope |-> e]]
               \/ answers' = [answers EXCEPT ![c] = None]
               \/ answers' = answers
        PROVE  \A d \in Clients : answers'[d] # None => Sound(answers'[d].envelope)
    BY <1>2, <1>3, <1>4
  <1>5. ASSUME NEW r, NEW status, NEW e, Sound(e), Answered(r, status, e)
        PROVE  \A d \in Clients : answers'[d] # None => Sound(answers'[d].envelope)
    BY <1>4, <1>5 DEF Answered
  <1>6. CASE RelayStep
    <2>1. UNCHANGED desk /\ net' \subseteq net
      BY <1>6, RelayCounts, StepsAreLocal
    <2>2. ASSUME NEW r \in net, NEW status, Follow(r, status)
          PROVE  /\ \A t \in tails' : Sound(t.request.envelope) /\ t.request.n \in Nat
                 /\ \A d \in Clients : answers'[d] # None => Sound(answers'[d].envelope)
      <3>1. \A t \in tails' : t \in tails \/ t.request = r
        BY <2>2 DEF Follow
      <3>2. QED
        BY <1>2, <2>2, <3>1 DEF Follow
    <2>3. ASSUME NEW r \in net, NEW status, NEW e, Sound(e), Respond(r, status, e)
          PROVE  /\ \A t \in tails' : Sound(t.request.envelope) /\ t.request.n \in Nat
                 /\ \A d \in Clients : answers'[d] # None => Sound(answers'[d].envelope)
      BY <1>2, <1>5, <2>3 DEF Respond
    <2>4. ASSUME NEW r \in net, \/ Refuse(r) \/ Create(r) \/ Gone(r) \/ PutPayload(r)
                                \/ GetPayload(r) \/ Acknowledge(r) \/ DeleteSession(r)
          PROVE  /\ \A t \in tails' : Sound(t.request.envelope) /\ t.request.n \in Nat
                 /\ \A d \in Clients : answers'[d] # None => Sound(answers'[d].envelope)
      BY <1>1, <1>2, <2>2, <2>3, <2>4 DEF Refuse, Create, Gone, PutPayload, GetPayload,
             Acknowledge, DeleteSession
    <2>5. ASSUME NEW t \in tails, SetAlarm(t) \/ DeleteAll(t)
          PROVE  /\ \A u \in tails' : Sound(u.request.envelope) /\ u.request.n \in Nat
                 /\ \A d \in Clients : answers'[d] # None => Sound(answers'[d].envelope)
      BY <1>1, <1>2, <1>5, <2>5 DEF SetAlarm, DeleteAll, Finish
    <2>6. Expire \/ Alarm => UNCHANGED <<tails, answers>>
      BY DEF Expire, Alarm
    <2>7. /\ \A t \in tails' : Sound(t.request.envelope) /\ t.request.n \in Nat
          /\ \A d \in Clients : answers'[d] # None => Sound(answers'[d].envelope)
      BY <1>2, <1>6, <2>4, <2>5, <2>6 DEF RelayStep
    <2>8. Sound(relay'.payload)
      <3>1. PICK rel \in [session : Session \cup {None}, payload : Envelopes \cup {None},
                          alarm : BOOLEAN] : rel = relay
        BY DEF Types, RelayTypes
      <3>2. ASSUME NEW r \in net, \/ Refuse(r) \/ Create(r) \/ Gone(r) \/ GetPayload(r)
                                  \/ Acknowledge(r) \/ DeleteSession(r)
            PROVE  relay'.payload \in {rel.payload, None}
        BY <3>1, <3>2 DEF Refuse, Create, Gone, GetPayload, Acknowledge, DeleteSession, Empty
      <3>3. ASSUME NEW r \in net, PutPayload(r)
            PROVE  relay'.payload \in {rel.payload, None, r.envelope}
        BY <3>1, <3>3 DEF PutPayload
      <3>4. ASSUME NEW t \in tails, SetAlarm(t) \/ DeleteAll(t)
            PROVE  relay'.payload \in {rel.payload, None}
        BY <3>1, <3>4 DEF SetAlarm, DeleteAll
      <3>5. Expire \/ Alarm => relay'.payload \in {rel.payload, None}
        BY <3>1 DEF Expire, Alarm, Empty
      <3>6. QED
        BY <1>1, <1>2, <1>6, <3>1, <3>2, <3>3, <3>4, <3>5 DEF RelayStep
    <2>9. QED
      BY <1>2, <2>1, <2>7, <2>8 DEF EnvelopesSound
  <1>7. CASE NetStep
    <2>1. PICK r \in net \cup {t.request : t \in tails} : ConnectionFails(r)
      BY <1>7 DEF NetStep
    <2>2. r \in Requests /\ Sound(r.envelope) /\ r.n \in Nat
      BY <1>2 DEF Types, NetTypes, Tails
    <2>3. PICK late : late = [r EXCEPT !.late = TRUE]
      OBVIOUS
    <2>4. Sound(late.envelope) /\ late.n \in Nat
      BY <2>2, <2>3 DEF Requests
    <2>5. \A q \in net' : q \in net \/ q = late
      BY <2>1, <2>3 DEF ConnectionFails
    <2>6. \A t \in tails' : t \in tails \/ t.request = late
      BY <2>1, <2>3 DEF ConnectionFails, Types, NetTypes, Tails
    <2>7. \A d \in Clients : answers'[d] # None => Sound(answers'[d].envelope)
      BY <1>1, <1>4, <2>1 DEF ConnectionFails
    <2>8. UNCHANGED <<relay, desk>>
      BY <1>7, StepsAreLocal
    <2>9. QED
      BY <1>2, <2>4, <2>5, <2>6, <2>7, <2>8 DEF EnvelopesSound
  <1>8. ASSUME NEW c, NEW op, NEW n \in Nat, NEW e, Sound(e), Ask(c, op, n, e)
        PROVE  \A r \in net' : Sound(r.envelope) /\ r.n \in Nat
    <2>1. PICK new : new = [from |-> c, op |-> op, n |-> n, envelope |-> e, late |-> FALSE]
      OBVIOUS
    <2>2. net' = net \cup {new} /\ new.n = n /\ new.envelope = e
      BY <1>8, <2>1 DEF Ask
    <2>3. QED
      BY <1>2, <1>8, <2>2
  <1>9. CASE DesktopStep
    <2>1. UNCHANGED <<relay, tails>> /\ DeskCounts
      BY <1>9, DesktopCounts, StepsAreLocal
    <2>2. \A d \in Clients : answers'[d] # None => Sound(answers'[d].envelope)
      <3>1. UNCHANGED answers \/ answers' = [answers EXCEPT ![Desktop] = None]
        BY <1>9 DEF DesktopStep, BeginSession, SessionRefused, SessionCreated, Poll, NothingYet,
               PollRefused, PictureArrives, AckAnswered, TransferEnds, DesktopTakes
      <3>2. QED
        BY <1>1, <1>4, <3>1
    <2>3. desk.polls \in Nat /\ desk.acks \in Nat /\ 0 \in Nat
      BY Limits DEF Budgets
    <2>4. Sound(desk'.received)
      BY <1>2, <1>3, <2>1 DEF DeskCounts
    <2>5. \A r \in net' : Sound(r.envelope) /\ r.n \in Nat
      <3>1. net' = net \/ \E op : \/ Ask(Desktop, op, 0, None)
                                  \/ Ask(Desktop, op, desk.polls, None)
                                  \/ Ask(Desktop, op, desk.acks, desk'.received)
        BY <2>1 DEF DeskCounts
      <3>2. QED
        BY <1>1, <1>2, <1>8, <2>3, <2>4, <3>1
    <2>6. QED
      BY <1>2, <2>1, <2>2, <2>4, <2>5 DEF EnvelopesSound
  <1>10. CASE PhoneStep
    <2>1. PICK p \in Phones, page \in Pages : PageSteps(p, page)
      BY <1>10, PhoneStepChangesPage
    <2>2. UNCHANGED <<relay, tails, desk>>
      BY <1>10, StepsAreLocal
    <2>3. phones[p].sends \in Nat /\ Sound(phones[p].pending)
      BY BoundsAssumption DEF PageBounds
    <2>4. Encrypted(p) => Sound(Sealed(p))
      BY BoundsAssumption DEF Encrypted, PhoneHas, PageBounds, Pictures, Sealed, Sound, Envelope
    <2>5. net' = net \/ Ask(p, "put", phones[p].sends, phones[p].pending)
          \/ (Encrypted(p) /\ Ask(p, "put", phones[p].sends, Sealed(p)))
      BY <2>1 DEF PageSteps
    <2>6. \A r \in net' : Sound(r.envelope) /\ r.n \in Nat
      BY <1>2, <1>8, <2>3, <2>4, <2>5
    <2>7. answers' = answers \/ answers' = [answers EXCEPT ![p] = None]
      BY <2>1 DEF PageSteps
    <2>8. \A d \in Clients : answers'[d] # None => Sound(answers'[d].envelope)
      BY <1>1, <1>4, <2>7
    <2>9. QED
      BY <1>2, <2>2, <2>6, <2>8 DEF EnvelopesSound
  <1>11. CASE PanelStep \/ UNCHANGED vars
    BY <1>2, <1>11, StepsAreLocal DEF vars, EnvelopesSound
  <1>12. QED
    BY <1>6, <1>7, <1>9, <1>10, <1>11 DEF Next

LEMMA PageBoundsKept ==
    ASSUME Types, \A p \in Phones : PageBounds(p), [Next]_vars
    PROVE  \A p \in Phones : PageBounds(p)'
  <1>1. CASE UNCHANGED phones
    BY <1>1 DEF PageBounds
  <1>2. CASE PhoneStep
    <2>1. PICK p \in Phones, page \in Pages :
             phones' = [phones EXCEPT ![p] = page] /\ PageSteps(p, page)
      BY <1>2, PhoneStepChangesPage
    <2>2. \A q \in Phones \ {p} : PageBounds(q)'
      BY <2>1, PageChanges DEF PageBounds
    <2>3. PICK old \in Pages : old = phones[p]
      BY DEF Types, PageTypes
    <2>4. /\ Sound(old.pending) /\ Sound(old.sent) /\ Sound(old.told) /\ Sound(None)
          /\ old.shown \in Pictures /\ old.blob \in Pictures
          /\ old.sends \in 0..MaxSends /\ old.ids \in 0..old.sends
          /\ old.step \in {"reading", "encrypting"} => old.ids < old.sends
          /\ MaxSends \in Nat /\ MaxDrawn \in Nat
      BY <2>3, BoundsAssumption DEF PageBounds, Sound
    <2> DEFINE Fine == /\ Sound(page.pending) /\ Sound(page.sent) /\ Sound(page.told)
                       /\ page.shown \in Pictures /\ page.blob \in Pictures
                       /\ page.sends \in 0..MaxSends /\ page.ids \in 0..page.sends
                       /\ page.step \in {"reading", "encrypting"} => page.ids < page.sends
    <2>5. ASSUME Scan(p) /\ page = [old EXCEPT !.step = "idle"]
          PROVE  Fine
      BY <2>4, <2>5 DEF Pages
    <2>6. ASSUME /\ Draw(p)
                 /\ \E mixed \in BOOLEAN :
                      page = [old EXCEPT !.shown = @ + 1, !.pending = None, !.mixed = mixed]
          PROVE  Fine
      <3>1. old.shown + 1 \in Pictures
        BY <2>3, <2>4, <2>6 DEF Draw, Pictures
      <3>2. /\ page.shown = old.shown + 1 /\ page.pending = None /\ page.sent = old.sent
            /\ page.told = old.told /\ page.blob = old.blob /\ page.sends = old.sends
            /\ page.ids = old.ids /\ page.step = old.step
        BY <2>6 DEF Pages
      <3>3. QED
        BY <2>4, <3>1, <3>2
    <2>7. ASSUME SendDrawing(p)
                 /\ page = [old EXCEPT !.step = "reading", !.blob = old.shown, !.sends = @ + 1]
          PROVE  Fine
      <3>1. old.sends < MaxSends
        BY <2>3, <2>7 DEF SendDrawing
      <3>2. /\ page.shown = old.shown /\ page.pending = old.pending /\ page.sent = old.sent
            /\ page.told = old.told /\ page.blob = old.shown /\ page.sends = old.sends + 1
            /\ page.ids = old.ids
        BY <2>7 DEF Pages
      <3>3. QED
        BY <2>4, <3>1, <3>2
    <2>8. ASSUME SendBlob(p) /\ page = [old EXCEPT !.step = "encrypting"]
          PROVE  Fine
      <3>1. old.step = "reading"
        BY <2>3, <2>8 DEF SendBlob, PhoneHas
      <3>2. QED
        BY <2>4, <2>8, <3>1 DEF Pages
    <2>9. ASSUME page = [old EXCEPT !.step = "sending", !.sent = old.pending]
          PROVE  Fine
      BY <2>4, <2>9 DEF Pages
    <2>10. ASSUME Encrypted(p) /\ page = [old EXCEPT !.step = "sending", !.pending = Sealed(p),
                                                     !.sent = Sealed(p), !.ids = @ + 1]
          PROVE  Fine
      <3>1. old.step = "encrypting"
        BY <2>3, <2>10 DEF Encrypted, PhoneHas
      <3>2. old.ids + 1 \in 0..old.sends
        BY <2>4, <3>1
      <3>3. Sound(Sealed(p))
        BY <2>3, <2>4, <3>2 DEF Sound, Sealed, Envelope, Pictures
      <3>4. /\ page.shown = old.shown /\ page.pending = Sealed(p) /\ page.sent = Sealed(p)
            /\ page.told = old.told /\ page.blob = old.blob /\ page.sends = old.sends
            /\ page.ids = old.ids + 1 /\ page.step = "sending"
        BY <2>10 DEF Pages
      <3>5. QED
        BY <2>4, <3>2, <3>3, <3>4
    <2>11. ASSUME page = [old EXCEPT !.step = "idle", !.pending = None, !.told = old.sent]
          PROVE  Fine
      BY <2>4, <2>11 DEF Pages
    <2>12. ASSUME page = [old EXCEPT !.step = "idle"]
          PROVE  Fine
      BY <2>4, <2>12 DEF Pages
    <2>13. Fine
      BY <2>1, <2>3, <2>5, <2>6, <2>7, <2>8, <2>9, <2>10, <2>11, <2>12 DEF PageSteps
    <2>14. PageBounds(p)'
      BY <2>1, <2>13, PageChanges DEF PageBounds, Sound, Pictures
    <2>15. QED
      BY <2>2, <2>14
  <1>3. QED
    BY <1>1, <1>2, StepsAreLocal DEF Next, vars

LEMMA DoneAfterCode == Append(<<"qr">>, "done") = <<"qr", "done">>
  <1> DEFINE s == Append(<<"qr">>, "done")
             t == <<"qr", "done">>
  <1>1. <<"qr">> \in Seq({"qr", "done"}) /\ t \in Seq({"qr", "done"})
    OBVIOUS
  <1>2. s \in Seq({"qr", "done"}) /\ Len(s) = 2 /\ s[1] = "qr" /\ s[2] = "done"
    BY <1>1
  <1>3. Len(t) = 2 /\ t[1] = "qr" /\ t[2] = "done"
    OBVIOUS
  <1>4. \A i \in 1..Len(s) : s[i] = t[i]
    BY <1>2, <1>3
  <1> HIDE DEF s, t
  <1>5. s = t
    BY <1>1, <1>2, <1>3, <1>4, SeqEqual
  <1>6. QED
    BY <1>5 DEF s, t

LEMMA EventsInOrderKept ==
    ASSUME Types, EventsInOrder, [Next]_vars
    PROVE  EventsInOrder'
  <1>1. CASE UNCHANGED <<desk, panel>>
    BY <1>1 DEF EventsInOrder
  <1>2. PICK events \in Seq({"qr", "done"}) : events = panel.events
    BY DEF Types, DeskTypes, Panels
  <1>3. panel' = [panel EXCEPT !.events = Append(@, "done")] => panel'.events = Append(events, "done")
    BY <1>2 DEF Types, DeskTypes, Panels
  <1>4. panel' = [panel EXCEPT !.events = Append(@, "qr")] => panel'.events = Append(events, "qr")
    BY <1>2 DEF Types, DeskTypes, Panels
  <1>5. /\ desk.step \in {"start", "creating"} => events = <<>>
        /\ desk.step # "done" => events \in {<<>>, <<"qr">>}
        /\ events \in {<<>>, <<"qr">>, <<"done">>, <<"qr", "done">>}
    BY <1>2 DEF EventsInOrder
  <1>6. /\ Append(<<>>, "qr") = <<"qr">> /\ Append(<<>>, "done") = <<"done">>
        /\ Append(<<"qr">>, "done") = <<"qr", "done">>
    <2>1. Append(<<>>, "qr") = <<"qr">>
      OBVIOUS
    <2>2. Append(<<>>, "done") = <<"done">>
      OBVIOUS
    <2>3. Append(<<"qr">>, "done") = <<"qr", "done">>
      BY DoneAfterCode
    <2>4. QED
      BY <2>1, <2>2, <2>3
  <1>7. PICK old \in Desks : old = desk
    BY DEF Types, DeskTypes
  <1>8. CASE BeginSession \/ SessionRefused \/ TransferEnds
    <2>1. old.step # "done" /\ (old.step # "deleting" => events = <<>>)
      BY <1>5, <1>7, <1>8 DEF BeginSession, SessionRefused, TransferEnds, DesktopTakes
    <2>2. \/ panel' = panel /\ desk'.step = "creating" /\ old.step = "start"
          \/ desk'.step = "done" /\ panel' = [panel EXCEPT !.events = Append(@, "done")]
      BY <1>7, <1>8 DEF BeginSession, SessionRefused, TransferEnds, DesktopTakes, Desks
    <2>3. CASE panel' = panel /\ desk'.step = "creating" /\ old.step = "start"
      BY <1>2, <1>5, <1>7, <2>3 DEF EventsInOrder
    <2>4. CASE desk'.step = "done" /\ panel' = [panel EXCEPT !.events = Append(@, "done")]
      BY <1>3, <1>5, <1>6, <1>7, <2>1, <2>4 DEF EventsInOrder
    <2>5. QED
      BY <2>2, <2>3, <2>4
  <1>9. CASE SessionCreated \/ Poll \/ NothingYet \/ PollRefused \/ PictureArrives \/ AckAnswered
    <2>1. old.step \in {"creating", "poll", "polling", "acking"}
      BY <1>7, <1>9 DEF SessionCreated, Poll, NothingYet, PollRefused, PictureArrives, AckAnswered,
             DesktopTakes
    <2>2. desk'.step \in {"deleting", "poll", "polling", "acking"}
      BY <1>7, <1>9 DEF SessionCreated, Poll, NothingYet, PollRefused, PictureArrives, AckAnswered,
             DesktopTakes, Ends, SendAck, Desks
    <2>3. panel' = panel \/ (old.step = "creating"
                             /\ panel' = [panel EXCEPT !.events = Append(@, "qr")])
      BY <1>7, <1>9 DEF SessionCreated, Poll, NothingYet, PollRefused, PictureArrives, AckAnswered,
             DesktopTakes
    <2>4. CASE panel' = panel
      BY <1>2, <1>5, <1>7, <2>1, <2>2, <2>4 DEF EventsInOrder
    <2>5. CASE old.step = "creating" /\ panel' = [panel EXCEPT !.events = Append(@, "qr")]
      BY <1>4, <1>5, <1>6, <1>7, <2>2, <2>5 DEF EventsInOrder
    <2>6. QED
      BY <2>3, <2>4, <2>5
  <1>10. CASE PanelStep
    <2>1. UNCHANGED desk
      BY <1>10, StepsAreLocal
    <2>2. panel'.events = events \/ (events # <<>> /\ panel'.events = Tail(events))
      <3>1. CASE CancelTransfer \/ Dismiss \/ Reopen
        BY <1>2, <3>1, Choices, WithdrawTypes
      <3>2. CASE OtherOpened
        BY <1>2, <3>2 DEF OtherOpened, Types, DeskTypes, Panels
      <3>3. CASE PanelEvent
        <4>1. panel.events # <<>>
          BY <3>3 DEF PanelEvent
        <4>2. PICK state, authority :
                 panel' = [state |-> state, authority |-> authority,
                           events |-> Tail(panel.events), stopped |-> panel.stopped]
          BY <3>3, EventsFall
        <4>3. QED
          BY <1>2, <4>1, <4>2
      <3>4. QED
        BY <1>10, <3>1, <3>2, <3>3 DEF PanelStep
    <2>3. Tail(<<"qr">>) = <<>> /\ Tail(<<"done">>) = <<>> /\ Tail(<<"qr", "done">>) = <<"done">>
      OBVIOUS
    <2>4. QED
      BY <1>5, <2>1, <2>2, <2>3 DEF EventsInOrder
  <1>11. QED
    BY <1>1, <1>8, <1>9, <1>10, StepsAreLocal DEF Next, DesktopStep, vars

LEMMA LimitsInvHolds == Spec => []LimitsInv
  <1>1. Init => LimitsInv
    <2> SUFFICES ASSUME Init PROVE LimitsInv
      OBVIOUS
    <2>1. Waiting("get") = {} /\ Waiting("ack") = {} /\ Polled = 0 /\ Acked = 0
      BY DEF Init, Waiting, Empty, Polled, Acked
    <2>2. Within({}, 0, 0)
      BY FS_EmptySet DEF Within
    <2>3. Budgets
      <3>1. desk.polls = 0 /\ desk.acks = 0
        BY DEF Init
      <3>2. Within(Waiting("get"), Polled, desk.polls) /\ Within(Waiting("ack"), Acked, desk.acks)
        BY <2>1, <2>2, <3>1
      <3>3. QED
        BY <3>1, <3>2, Limits DEF Budgets
    <2>4. Sound(None)
      BY DEF Sound
    <2>5. EnvelopesSound
      BY <2>4 DEF Init, Empty, EnvelopesSound
    <2>6. EventsInOrder
      BY DEF Init, NewPanel, EventsInOrder
    <2>7. \A p \in Phones : phones[p] = NewPhone
      BY DEF Init
    <2>8. \A p \in Phones : PageBounds(p)
      BY <2>4, <2>7, BoundsAssumption DEF PageBounds, NewPhone, Pictures
    <2>9. OwnLimitsNeverBite
      BY DEF Init, OwnLimitsNeverBite, Clients
    <2>10. QED
      BY <2>3, <2>5, <2>6, <2>8, <2>9 DEF Init, LimitsInv
  <1>2. TransfersInv /\ LimitsInv /\ [Next]_vars => LimitsInv'
    <2> SUFFICES ASSUME TransfersInv, LimitsInv, [Next]_vars PROVE LimitsInv'
      OBVIOUS
    <2>1. Types /\ Senders /\ Budgets /\ EnvelopesSound /\ EventsInOrder /\ OwnLimitsNeverBite
          /\ \A p \in Phones : PageBounds(p)
      BY DEF TransfersInv, LimitsInv
    <2>2. Budgets' /\ EnvelopesSound' /\ EventsInOrder' /\ OwnLimitsNeverBite'
      BY <2>1, BudgetsKept, EnvelopesSoundKept, EventsInOrderKept, LimitsNeverBite
    <2>3. \A p \in Phones : PageBounds(p)'
      BY <2>1, PageBoundsKept
    <2>4. expired' \in BOOLEAN /\ cancelled' \in BOOLEAN
      BY StepsAreLocal DEF LimitsInv, Next, RelayStep, Refuse, Create, Gone, PutPayload, GetPayload,
             Acknowledge, DeleteSession, SetAlarm, DeleteAll, Expire, Alarm, Untouched, PanelStep,
             PanelEvent, CancelTransfer, Dismiss, OtherOpened, Reopen, vars
    <2>5. QED
      BY <2>2, <2>3, <2>4 DEF LimitsInv
  <1>3. QED
    BY TransfersInvHolds, <1>1, <1>2, PTL DEF Spec

\* The state has its shape, with every counter within its bound, and no limit of the
\* relay ends a transfer: polls and acknowledgements that come late count against it
\* too, but the desktop has never made more than the relay takes (receive_with_code,
\* getPayload and acknowledge of the relay).
THEOREM LimitsNeverEndATransfer == Spec => []TransferInv
  <1>1. TransfersInv /\ LimitsInv => TypeOK
    <2> SUFFICES ASSUME TransfersInv, LimitsInv PROVE TypeOK
      OBVIOUS
    <2>1. Types /\ Budgets /\ EnvelopesSound /\ EventsInOrder /\ \A p \in Phones : PageBounds(p)
      BY DEF TransfersInv, LimitsInv
    <2>2. relay \in [session : Session \cup {None}, payload : Envelope \cup {None},
                     alarm : BOOLEAN]
      BY <2>1 DEF Types, RelayTypes, EnvelopesSound, Sound
    <2>3. \A r \in Requests : Sound(r.envelope) /\ r.n \in Nat => r \in Request
      BY DEF Requests, Request, Sound
    <2>4. net \subseteq Request
      BY <2>1, <2>3 DEF Types, NetTypes, EnvelopesSound
    <2>5. \A t \in tails : t.request \in Request /\ t.status \in {"201", "204", "410"}
      BY <2>1, <2>3 DEF Types, NetTypes, Tails, EnvelopesSound
    <2>6. answers \in [Clients -> Answer \cup {None}]
      <3>1. \A a \in Answers : Sound(a.envelope) => a \in Answer
        BY DEF Answers, Answer, Sound
      <3>2. QED
        BY <2>1, <3>1 DEF Types, NetTypes, EnvelopesSound
    <2>7. /\ desk.step \in {"start", "creating", "poll", "polling", "acking", "deleting", "done"}
          /\ desk.polls \in 0..DesktopPolls /\ desk.acks \in 0..DesktopAcks
          /\ desk.received \in Envelope \cup {None} /\ desk.result \in Results \cup {None}
      BY <2>1 DEF Types, DeskTypes, Desks, Budgets, EnvelopesSound, Sound
    <2>8. /\ panel.state \in {"loading", "qr", "idle", "error", "preview"}
          /\ panel.authority \in {"shown", "away", "stale"} /\ panel.stopped \in BOOLEAN
          /\ panel.events \in {<<>>, <<"qr">>, <<"done">>, <<"qr", "done">>}
      BY <2>1 DEF Types, DeskTypes, Panels, States, Authorities, EventsInOrder
    <2>9. ASSUME NEW p \in Phones
          PROVE  /\ phones[p].step \in {"away", "idle", "reading", "encrypting", "sending"}
                 /\ {phones[p].shown, phones[p].blob} \subseteq Pictures
                 /\ {phones[p].pending, phones[p].sent, phones[p].told} \subseteq Envelope \cup {None}
                 /\ phones[p].sends \in 0..MaxSends /\ phones[p].ids \in 0..phones[p].sends
                 /\ phones[p].mixed \in BOOLEAN
      <3>1. phones[p] \in Pages
        BY <2>1 DEF Types, PageTypes
      <3>2. phones[p].step \in {"away", "idle", "reading", "encrypting", "sending"}
            /\ phones[p].mixed \in BOOLEAN
        BY <3>1 DEF Pages
      <3>3. QED
        BY <2>1, <3>2 DEF PageBounds, Sound
    <2>10. QED
      BY <2>2, <2>4, <2>5, <2>6, <2>7, <2>8, <2>9 DEF TypeOK, LimitsInv
  <1>2. TransfersInv /\ LimitsInv => TransferInv
    BY <1>1 DEF TransferInv, LimitsInv
  <1>3. QED
    BY TransfersInvHolds, LimitsInvHolds, <1>2, PTL
=============================================================================
