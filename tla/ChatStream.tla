----------------------------- MODULE ChatStream ------------------------------
(***************************************************************************)
(* The Copilot page and the stream it watches a session through: messages  *)
(* are numbered by the highest number read before, events go to whoever    *)
(* listens at that moment and are kept for nobody, and the page learns     *)
(* what it shows by reading the session again.                             *)
(***************************************************************************)
EXTENDS Faults, Sequences, FiniteSets

CONSTANTS
    Messages    \* what the user sends

Part == {"question", "confirm", "denial", "answer"}
RunPc == {"new", "post", "append", "work", "settle", "emit", "parked", "report", "over"}
Event == [kind : {"confirm", "done", "error"}, of : Messages]
Shown == {{}} \cup {{m} : m \in Messages}

\* The page reads the session after an answer, and after a confirmation; after
\* the former it may read the approvals.
Reading == {"done", "confirm", "approvals"}

VARIABLES
    run, part,          \* where each message is, and what is appended for it
    rows, last,         \* the messages of the session, and their highest number
    first, next,        \* the number of each question, and the one taken for a part
    asks,               \* the approvals
    status,             \* session.status; one that failed takes messages as well
    stream, channel,    \* the page's stream and the events on their way to it
    timers,             \* reconnections the page has put off
    confirm,            \* the confirmation the page shows, if any
    submitting,         \* the confirmations whose reply it awaits
    fetch, found,       \* its readings under way, and approvals they found pending
    seen,               \* history: the messages whose answer it has ever shown,
    missed              \* the messages of which it lost an event or a confirmation

logVars == <<part, rows, last, first, next>>
serverVars == <<run, logVars, asks, status>>
streamVars == <<stream, channel, timers>>
pageVars == <<confirm, submitting, fetch, found, seen>>
vars == <<serverVars, streamVars, pageVars, missed, faults>>

TypeOK ==
    /\ run \in [Messages -> RunPc] /\ part \in [Messages -> Part]
    /\ rows \subseteq Messages \X Part
    /\ last \in Nat /\ first \in [Messages -> Nat] /\ next \in [Messages -> Nat]
    /\ asks \in [Messages -> {"none", "pending", "decided"}]
    /\ stream \in {"closed", "connecting", "open"}
    /\ channel \in Seq(Event) /\ timers \in Nat
    /\ seen \subseteq Messages
    /\ status \in {"active", "pending_confirm"}
    /\ confirm \in Shown /\ submitting \subseteq Messages
    /\ fetch \in [Reading -> Nat] /\ found \in [Messages -> Nat]
    /\ missed \subseteq Messages
    /\ faults \in [FaultKind -> Nat]

Init ==
    /\ run = [m \in Messages |-> "new"] /\ part = [m \in Messages |-> "question"]
    /\ rows = {} /\ last = 0
    /\ first = [m \in Messages |-> 0] /\ next = [m \in Messages |-> 0]
    /\ asks = [m \in Messages |-> "none"] /\ status = "active"
    /\ stream = "closed" /\ channel = <<>> /\ timers = 0
    /\ confirm = {} /\ submitting = {}
    /\ fetch = [k \in Reading |-> 0] /\ found = [m \in Messages |-> 0]
    /\ seen = {} /\ missed = {}
    /\ faults = NoFaultYet

RunGoes(m, from, to) ==
    /\ run[m] = from
    /\ run' = [run EXCEPT ![m] = to]

\* Whatever is still on its way on a stream that is closed is lost.
Undelivered == {channel[i].of : i \in DOMAIN channel}

StreamBecomes(stage) ==
    /\ stream' = stage
    /\ channel' = <<>>
    /\ missed' = missed \cup Undelivered

-----------------------------------------------------------------------------
\* The server: sendMessage, executeOrchestration and resumeFromApproval.

ServerOnly == UNCHANGED <<streamVars, pageVars, missed>>

\* appendMessage reads the highest number, and takes the next one ...
TakesNumber(m, kind) ==
    /\ part' = [part EXCEPT ![m] = kind]
    /\ next' = [next EXCEPT ![m] = last + 1]

Accept(m) ==
    /\ status # "pending_confirm"
    /\ RunGoes(m, "post", "append")
    /\ TakesNumber(m, "question")
    /\ ServerOnly /\ UNCHANGED <<rows, last, first, asks, status, faults>>

\* What comes of a message: a resumed one does not go through the policy again.
Outcomes(m) == IF asks[m] = "none" THEN {"confirm", "denial", "answer"} ELSE {"answer"}

\* Mutant of Orchestrate: the answer takes the number read for the question.
OrchestrateOnce(m) ==
    /\ RunGoes(m, "work", "append")
    /\ \E kind \in Outcomes(m) :
         part' = [part EXCEPT ![m] = kind]
    /\ next' = [next EXCEPT ![m] = first[m]]
    /\ ServerOnly /\ UNCHANGED <<rows, last, first, asks, status, faults>>

Orchestrate(m) ==
    /\ RunGoes(m, "work", "append")
    /\ \E kind \in Outcomes(m) :
         TakesNumber(m, kind)
    /\ ServerOnly /\ UNCHANGED <<rows, last, first, asks, status, faults>>

\* ... whoever else has taken it meanwhile.
AppendMessage(m) ==
    /\ RunGoes(m, "append", IF part[m] = "question" THEN "work"
                            ELSE IF part[m] = "confirm" \/ asks[m] = "decided" THEN "settle"
                            ELSE "emit")
    /\ rows' = rows \cup {<<m, part[m]>>}
    /\ last' = IF next[m] > last THEN next[m] ELSE last
    /\ first' = [first EXCEPT ![m] = IF part[m] = "question" THEN next[m]
                                     ELSE IF part[m] = "confirm" THEN @ ELSE 0]
    /\ next' = [next EXCEPT ![m] = 0]
    /\ ServerOnly /\ UNCHANGED <<part, asks, status, faults>>

\* A request that needs a confirmation parks the session, one that was resumed
\* sets it free, whatever else it is parked for.
SettleSession(m) ==
    /\ RunGoes(m, "settle", "emit")
    /\ status' = IF part[m] = "confirm" THEN "pending_confirm" ELSE "active"
    /\ ServerOnly /\ UNCHANGED <<logVars, asks, faults>>

\* Events go to the stream that listens now.
Emits(m, events) ==
    IF stream = "open" THEN channel' = channel \o events /\ UNCHANGED missed
    ELSE missed' = missed \cup {m} /\ UNCHANGED channel

Told(m, kind) == [kind |-> kind, of |-> m]

\* Before it tells of a confirmation the server creates the approval.
Asks(m) == asks' = IF part[m] = "confirm" THEN [asks EXCEPT ![m] = "pending"] ELSE asks

\* Mutant of Emit: the end of a request is announced, its confirmation is not.
EmitDone(m) ==
    /\ RunGoes(m, "emit", IF part[m] = "confirm" THEN "parked" ELSE "over")
    /\ Emits(m, <<Told(m, "done")>>)
    /\ Asks(m)
    /\ UNCHANGED <<logVars, status, stream, timers, pageVars, faults>>

Emit(m) ==
    /\ RunGoes(m, "emit", IF part[m] = "confirm" THEN "parked" ELSE "over")
    /\ \/ part[m] = "confirm" /\ Emits(m, <<Told(m, "confirm"), Told(m, "done")>>)
       \/ part[m] = "denial" /\ Emits(m, <<Told(m, "error"), Told(m, "done")>>)
       \/ part[m] = "answer" /\ Emits(m, <<Told(m, "done")>>)
    /\ Asks(m)
    /\ UNCHANGED <<logVars, status, stream, timers, pageVars, faults>>

\* The orchestration, or the resumption, fails ...
Fail(m) ==
    /\ RunGoes(m, "work", "report")
    /\ Emits(m, <<Told(m, "error")>>)
    /\ UNCHANGED <<logVars, asks, status, stream, timers, pageVars, faults>>

\* ... and so does the session; of the former sendMessage tells once more.
Report(m) ==
    /\ RunGoes(m, "report", "over")
    /\ status' = "active"
    /\ \/ asks[m] = "none" /\ Emits(m, <<Told(m, "error")>>)
       \/ asks[m] # "none" /\ UNCHANGED <<channel, missed>>
    /\ UNCHANGED <<logVars, asks, stream, timers, pageVars, faults>>

\* The approval is decided, in the page or elsewhere, which sets the session
\* free even if another is pending, and resumes the request or gives it up.
Decide(m) ==
    /\ asks[m] = "pending" /\ asks' = [asks EXCEPT ![m] = "decided"]
    /\ \E there \in {"work", "over"} : RunGoes(m, "parked", there)
    /\ status' = "active"
    /\ UNCHANGED logVars

DecideElsewhere(m) == Decide(m) /\ ServerOnly /\ UNCHANGED faults

-----------------------------------------------------------------------------
\* The stream: streamSession reads the session and its messages, which the page
\* passes over, and only then subscribes.

Subscribe ==
    /\ stream = "connecting" /\ stream' = "open"
    /\ UNCHANGED <<serverVars, channel, timers, missed, pageVars, faults>>

\* The connection breaks: the page will try again in three seconds.
Break ==
    /\ stream # "closed" /\ StreamBecomes("closed")
    /\ Strikes("net")
    /\ timers' = timers + 1
    /\ UNCHANGED <<serverVars, pageVars>>

\* It does so even if it has connected anew in the meantime.
Reconnect ==
    /\ timers > 0 /\ timers' = timers - 1
    /\ StreamBecomes("connecting")
    /\ UNCHANGED <<serverVars, pageVars, faults>>

-----------------------------------------------------------------------------
\* The page.

Sending == \E m \in Messages : run[m] = "post" \/ (run[m] = "append" /\ part[m] = "question")

\* handleSend: connects, and posts without waiting for the stream to open.
Send(m) ==
    /\ ~Sending /\ confirm = {}
    /\ RunGoes(m, "new", "post")
    /\ StreamBecomes("connecting")
    /\ UNCHANGED <<logVars, asks, status, timers, pageVars, faults>>

\* The message is refused, as the session is parked, or the reply is lost: the
\* page closes the stream.
Refuse(m) ==
    /\ \/ /\ status = "pending_confirm"
          /\ RunGoes(m, "post", "over") /\ UNCHANGED faults
       \/ run[m] \in {"append", "work"} /\ Strikes("net") /\ UNCHANGED run
    /\ StreamBecomes("closed")
    /\ UNCHANGED <<logVars, asks, status, timers, pageVars>>

Receives(kind) ==
    /\ channel # <<>> /\ Head(channel).kind = kind
    /\ channel' = Tail(channel)

ReceiveConfirm ==
    /\ Receives("confirm")
    /\ confirm' = {Head(channel).of}
    /\ missed' = missed \cup (confirm \ confirm')
    /\ UNCHANGED <<serverVars, stream, timers, submitting, fetch, found, seen, faults>>

\* Mutant of ReceiveDone: the session is not read again.
ReceiveDoneOnly ==
    /\ Receives("done")
    /\ UNCHANGED <<serverVars, stream, timers, missed, pageVars, faults>>

ReceiveDone ==
    /\ Receives("done")
    /\ fetch' = [fetch EXCEPT !["done"] = @ + 1]
    /\ UNCHANGED <<serverVars, stream, timers, missed, confirm, submitting, found, seen,
                   faults>>

\* An event named error also counts as an error of the connection.
ReceiveError ==
    /\ channel # <<>> /\ Head(channel).kind = "error"
    /\ stream' = "closed" /\ channel' = <<>>
    /\ missed' = missed \cup {channel[i].of : i \in 2..Len(channel)}
    /\ timers' = timers + 1
    /\ UNCHANGED <<serverVars, pageVars, faults>>

FetchEnds(kind) ==
    /\ fetch[kind] > 0
    /\ fetch' = [fetch EXCEPT ![kind] = @ - 1]

\* copilotGetSession: what the session has now is shown; when an answer made it
\* look and the session is parked it reads the pending approvals as well.
FetchSession(kind) ==
    /\ fetch[kind] > 0
    /\ fetch' = [fetch EXCEPT ![kind] = @ - 1,
                   !["approvals"] = IF kind = "done" /\ status = "pending_confirm"
                                    THEN @ + 1 ELSE @]
    /\ seen' = seen \cup {m \in Messages : <<m, "answer">> \in rows}
    /\ UNCHANGED <<serverVars, streamVars, confirm, submitting, found, missed, faults>>

FetchFails(kind) ==
    /\ FetchEnds(kind)
    /\ Strikes("net")
    /\ UNCHANGED <<serverVars, streamVars, confirm, submitting, found, seen, missed>>

\* hydrateInlineConfirm: one that was pending when read, if any, ...
HydrateReads ==
    /\ FetchEnds("approvals")
    /\ LET pending == {m \in Messages : asks[m] = "pending"} IN
         IF pending = {} THEN UNCHANGED found
         ELSE \E m \in pending : found' = [found EXCEPT ![m] = @ + 1]
    /\ UNCHANGED <<serverVars, streamVars, confirm, submitting, seen, missed, faults>>

\* ... is shown, unless another is by now.
HydrateReturns(m) ==
    /\ found[m] > 0 /\ found' = [found EXCEPT ![m] = @ - 1]
    /\ confirm' = IF confirm = {} THEN {m} ELSE confirm
    /\ UNCHANGED <<serverVars, streamVars, submitting, fetch, seen, missed, faults>>

\* handleConfirm, of the confirmation that is shown or one in the list; when it
\* is decided by now the server refuses and the page stays as it is.
Confirm(m) ==
    /\ Decide(m)
    /\ submitting' = submitting \cup {m}
    /\ UNCHANGED <<streamVars, confirm, fetch, found, seen, missed, faults>>

\* The reply takes away whatever confirmation is shown by then, and the session
\* is read again, the approvals are not.
ConfirmReturns(m) ==
    /\ m \in submitting /\ submitting' = submitting \ {m}
    /\ confirm' = {} /\ missed' = missed \cup (confirm \ {m})
    /\ fetch' = [fetch EXCEPT !["confirm"] = @ + 1]
    /\ UNCHANGED <<serverVars, streamVars, found, seen, faults>>

\* The reply is lost: the confirmation stays on the page.
ConfirmFails(m) ==
    /\ m \in submitting /\ submitting' = submitting \ {m}
    /\ Strikes("net")
    /\ UNCHANGED <<serverVars, streamVars, confirm, fetch, found, seen, missed>>

-----------------------------------------------------------------------------
OfServer(m) ==
    \/ Accept(m) \/ Orchestrate(m) \/ AppendMessage(m) \/ SettleSession(m)
    \/ Emit(m) \/ Fail(m) \/ Report(m)
OfStream == Subscribe \/ Break \/ Reconnect
OfUser(m) ==
    Send(m) \/ Refuse(m) \/ Confirm(m) \/ ConfirmReturns(m) \/ ConfirmFails(m)
OfPage ==
    \/ ReceiveConfirm \/ ReceiveDone \/ ReceiveError
    \/ \E kind \in {"done", "confirm"} : FetchSession(kind)
    \/ \E kind \in Reading : FetchFails(kind)
    \/ HydrateReads \/ \E m \in Messages : HydrateReturns(m)

Next ==
    \/ \E m \in Messages : OfServer(m) \/ DecideElsewhere(m) \/ OfUser(m)
    \/ OfStream \/ OfPage

Spec == Init /\ [][Next]_vars

-----------------------------------------------------------------------------
\* Though two messages may get one number, in the order of the numbers what is
\* answered to a question comes after it.
AnswersFollow ==
    \A m \in Messages : run[m] = "append" /\ part[m] # "question" => first[m] < next[m]

\* When nothing is on its way any more the page has shown every answer, but
\* of messages it was told of while it was not listening.
AnswersAreSeen ==
    channel = <<>> /\ fetch["done"] = 0 /\ faults = NoFaultYet =>
      \A m \in Messages :
        run[m] = "over" /\ <<m, "answer">> \in rows => m \in seen \/ m \in missed

\* Once the events have come, whatever breaks, what waits for a confirmation has
\* it on the page, but for one whose event was lost, whose place another has
\* taken or that went with the reply to another.
ConfirmationsAreSeen ==
    channel = <<>> =>
      \A m \in Messages : run[m] = "parked" => confirm = {m} \/ m \in missed
=============================================================================
