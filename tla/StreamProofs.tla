----------------------------- MODULE StreamProofs ----------------------------
(***************************************************************************)
(* Theorems of ChatStream, for any number of messages, reconnections and   *)
(* broken connections.                                                     *)
(***************************************************************************)
EXTENDS ChatStream, TLAPS

Holds(events, e) == \E i \in DOMAIN events : events[i] = e

\* No question has a number above the highest.
Numbered == (\A m \in Messages : first[m] <= last) /\ AnswersFollow

\* A message is answered once and at its end.
AnsweredLast ==
    \A m \in Messages :
      <<m, "answer">> \in rows => run[m] \in {"settle", "emit", "over"} /\ part[m] = "answer"

\* What the page has yet to show is on its way, or is known to be missed.
AnswersArrive ==
    faults = NoFaultYet =>
      \A m \in Messages :
        run[m] = "over" /\ <<m, "answer">> \in rows
          => \/ m \in seen \/ m \in missed
             \/ fetch["done"] > 0 \/ Holds(channel, Told(m, "done"))

ConfirmationsArrive ==
    \A m \in Messages :
      run[m] = "parked"
        => confirm = {m} \/ m \in missed \/ Holds(channel, Told(m, "confirm"))

\* What is decided is never parked again, and so is what the page submitted.
SubmittedIsDecided ==
    \A m \in Messages :
      /\ m \in submitting => asks[m] = "decided"
      /\ asks[m] = "decided"
           => \/ run[m] \in {"work", "report", "over"}
              \/ run[m] \in {"append", "settle", "emit"} /\ part[m] = "answer"

IInv == SubmittedIsDecided /\ TypeOK /\ Numbered /\ AnsweredLast /\ AnswersArrive /\ ConfirmationsArrive

(***************************************************************************)
(* Events on their way.                                                    *)
(***************************************************************************)
LEMMA ToldIsEvent ==
  ASSUME NEW m \in Messages, NEW kind \in {"confirm", "done", "error"}
  PROVE  Told(m, kind) \in Event
BY DEF Told, Event

\* An event on its way stays there when others are sent after it, ...
LEMMA SentAfter ==
  ASSUME NEW c \in Seq(Event), NEW d \in Seq(Event), NEW e, Holds(c, e) \/ Holds(d, e)
  PROVE  Holds(c \o d, e)
<1>1. CASE Holds(c, e)
  <2>1. PICK i \in DOMAIN c : c[i] = e
    BY <1>1 DEF Holds
  <2>2. i \in DOMAIN (c \o d) /\ (c \o d)[i] = e
    BY <2>1
  <2> QED
    BY <2>2 DEF Holds
<1>2. CASE Holds(d, e)
  <2>1. PICK i \in DOMAIN d : d[i] = e
    BY <1>2 DEF Holds
  <2>2. Len(c) + i \in DOMAIN (c \o d) /\ (c \o d)[Len(c) + i] = e
    BY <2>1
  <2> QED
    BY <2>2 DEF Holds
<1> QED
  BY <1>1, <1>2

\* ... and when another is received.
LEMMA ReceivedBefore ==
  ASSUME NEW c \in Seq(Event), c # <<>>, NEW e, Holds(c, e), Head(c) # e
  PROVE  Holds(Tail(c), e)
<1>1. PICK i \in DOMAIN c : c[i] = e
  BY DEF Holds
<1>2. i # 1
  BY <1>1
<1>3. i - 1 \in DOMAIN Tail(c) /\ Tail(c)[i - 1] = e
  BY <1>1, <1>2
<1> QED
  BY <1>3 DEF Holds

\* The events that are lost with a stream are known to be missed.
LEMMA LostIsMissed ==
  ASSUME channel \in Seq(Event), NEW stage, StreamBecomes(stage),
         NEW m \in Messages, NEW kind, Holds(channel, Told(m, kind))
  PROVE  m \in missed'
<1>1. PICK i \in DOMAIN channel : channel[i] = Told(m, kind)
  BY DEF Holds
<1>2. channel[i].of = m
  BY <1>1 DEF Told
<1> QED
  BY <1>1, <1>2 DEF StreamBecomes, Undelivered

(***************************************************************************)
(* Type correctness.                                                       *)
(***************************************************************************)
LEMMA InitType == Init => TypeOK
<1> SUFFICES ASSUME Init PROVE TypeOK
  OBVIOUS
<1>1. /\ run \in [Messages -> RunPc] /\ part \in [Messages -> Part]
      /\ asks \in [Messages -> {"none", "pending", "decided"}]
  BY DEF Init, RunPc, Part
<1>2. /\ rows \subseteq Messages \X Part /\ seen \subseteq Messages
      /\ missed \subseteq Messages /\ channel \in Seq(Event)
      /\ confirm \in Shown /\ submitting \subseteq Messages
  BY DEF Init, Shown
<1>3. /\ last \in Nat /\ first \in [Messages -> Nat] /\ next \in [Messages -> Nat]
      /\ timers \in Nat /\ fetch \in [Reading -> Nat] /\ found \in [Messages -> Nat]
      /\ faults \in [FaultKind -> Nat]
  BY DEF Init, NoFaultYet
<1> QED
  BY <1>1, <1>2, <1>3 DEF Init, TypeOK

LEMMA ShownType == \A shown \in Shown : shown \subseteq Messages
BY DEF Shown

LEMMA StrikesType ==
  ASSUME faults \in [FaultKind -> Nat], NEW f \in FaultKind, Strikes(f)
  PROVE  faults' \in [FaultKind -> Nat] /\ faults' # NoFaultYet
BY DEF Strikes, NoFaultYet

LEMMA EmitsType ==
  ASSUME TypeOK, NEW m \in Messages, NEW events \in Seq(Event), Emits(m, events)
  PROVE  channel' \in Seq(Event) /\ missed' \subseteq Messages
<1>1. CASE stream = "open"
  <2>1. channel' = channel \o events /\ missed' = missed
    BY <1>1 DEF Emits
  <2>2. channel \in Seq(Event) /\ missed \subseteq Messages
    BY DEF TypeOK
  <2>3. channel \o events \in Seq(Event)
    BY <2>2
  <2> QED
    BY <2>1, <2>2, <2>3
<1>2. CASE stream # "open"
  BY <1>2 DEF TypeOK, Emits
<1> QED
  BY <1>1, <1>2

\* What a step of the server sends, if anything.
LEMMA SendsEvents ==
  ASSUME NEW m \in Messages, Emit(m) \/ Fail(m) \/ Report(m)
  PROVE  (\E events \in Seq(Event) : Emits(m, events)) \/ UNCHANGED <<channel, missed>>
<1>1. /\ Told(m, "confirm") \in Event /\ Told(m, "done") \in Event
      /\ Told(m, "error") \in Event
  BY ToldIsEvent
<1>2. /\ <<Told(m, "confirm"), Told(m, "done")>> \in Seq(Event)
      /\ <<Told(m, "error"), Told(m, "done")>> \in Seq(Event)
      /\ <<Told(m, "done")>> \in Seq(Event) /\ <<Told(m, "error")>> \in Seq(Event)
  BY <1>1
<1>3. CASE Emit(m)
  BY <1>2, <1>3 DEF Emit
<1>4. CASE Fail(m) \/ Report(m)
  BY <1>2, <1>4 DEF Fail, Report
<1> QED
  BY <1>3, <1>4

LEMMA ServerType ==
  ASSUME TypeOK, NEW m \in Messages, OfServer(m)
  PROVE  TypeOK'
<1> USE DEF TypeOK, RunPc, Part, RunGoes, ServerOnly, logVars, streamVars, pageVars
<1>1. CASE Accept(m)
  BY <1>1 DEF Accept, TakesNumber
<1>2. CASE Orchestrate(m)
  BY <1>2 DEF Orchestrate, TakesNumber, Outcomes
<1>3. CASE AppendMessage(m)
  <2>1. rows' \subseteq Messages \X Part
    BY <1>3 DEF AppendMessage
  <2>2. first' \in [Messages -> Nat] /\ next' \in [Messages -> Nat] /\ last' \in Nat
    BY <1>3 DEF AppendMessage
  <2> QED
    BY <1>3, <2>1, <2>2 DEF AppendMessage
<1>4. CASE Emit(m) \/ Fail(m) \/ Report(m)
  <2>1. channel' \in Seq(Event) /\ missed' \subseteq Messages
    BY <1>4, SendsEvents, EmitsType
  <2>2. run' \in [Messages -> RunPc]
    BY <1>4 DEF Emit, Fail, Report
  <2>3. asks' \in [Messages -> {"none", "pending", "decided"}]
    BY <1>4 DEF Emit, Fail, Report, Asks
  <2>4. UNCHANGED <<logVars, stream, timers, pageVars, faults>>
    BY <1>4 DEF Emit, Fail, Report
  <2>5. status' \in {"active", "pending_confirm"}
    BY <1>4 DEF Emit, Fail, Report
  <2> QED
    BY <2>1, <2>2, <2>3, <2>4, <2>5
<1>5. CASE SettleSession(m)
  BY <1>5 DEF SettleSession
<1> QED
  BY <1>1, <1>2, <1>3, <1>4, <1>5 DEF OfServer

LEMMA DecideType ==
  ASSUME TypeOK, NEW m \in Messages, Decide(m)
  PROVE  /\ run' \in [Messages -> RunPc] /\ asks' \in [Messages -> {"none", "pending", "decided"}]
         /\ status' = "active" /\ UNCHANGED logVars
BY DEF TypeOK, Decide, RunGoes, RunPc

LEMMA BecomesType ==
  ASSUME TypeOK, NEW stage \in {"closed", "connecting"}, StreamBecomes(stage)
  PROVE  /\ stream' \in {"closed", "connecting", "open"}
         /\ channel' \in Seq(Event) /\ missed' \subseteq Messages
<1>1. \A i \in DOMAIN channel : channel[i] \in Event
  BY DEF TypeOK
<1>2. Undelivered \subseteq Messages
  BY <1>1 DEF Undelivered, Event
<1> QED
  BY <1>2 DEF TypeOK, StreamBecomes

LEMMA UserType ==
  ASSUME TypeOK, NEW m \in Messages, DecideElsewhere(m) \/ OfUser(m)
  PROVE  TypeOK'
<1> USE DEF logVars, pageVars
<1>1. CASE DecideElsewhere(m)
  <2>1. /\ run' \in [Messages -> RunPc] /\ asks' \in [Messages -> {"none", "pending", "decided"}]
        /\ status' = "active" /\ UNCHANGED logVars
    BY <1>1, DecideType DEF DecideElsewhere
  <2> QED
    BY <1>1, <2>1 DEF DecideElsewhere, ServerOnly, streamVars, TypeOK
<1>2. CASE Send(m)
  <2>1. run' \in [Messages -> RunPc]
    BY <1>2 DEF Send, RunGoes, RunPc, TypeOK
  <2>2. /\ stream' \in {"closed", "connecting", "open"}
        /\ channel' \in Seq(Event) /\ missed' \subseteq Messages
    BY <1>2, BecomesType DEF Send
  <2> QED
    BY <1>2, <2>1, <2>2 DEF Send, TypeOK
<1>3. CASE Refuse(m)
  <2>1. run' \in [Messages -> RunPc]
    BY <1>3 DEF Refuse, RunGoes, RunPc, TypeOK
  <2>2. /\ stream' \in {"closed", "connecting", "open"}
        /\ channel' \in Seq(Event) /\ missed' \subseteq Messages
    BY <1>3, BecomesType DEF Refuse
  <2>3. faults' \in [FaultKind -> Nat]
    BY <1>3, StrikesType DEF Refuse, FaultKind, TypeOK
  <2> QED
    BY <1>3, <2>1, <2>2, <2>3 DEF Refuse, TypeOK
<1>4. CASE Confirm(m)
  <2>1. /\ run' \in [Messages -> RunPc] /\ asks' \in [Messages -> {"none", "pending", "decided"}]
        /\ status' = "active" /\ UNCHANGED logVars
    BY <1>4, DecideType DEF Confirm
  <2> QED
    BY <1>4, <2>1 DEF Confirm, streamVars, TypeOK
<1>5. CASE ConfirmReturns(m)
  <2>1. missed' \subseteq Messages
    BY <1>5, ShownType DEF ConfirmReturns, TypeOK
  <2>2. confirm' \in Shown
    BY <1>5 DEF ConfirmReturns, Shown
  <2>3. fetch' \in [Reading -> Nat]
    BY <1>5 DEF ConfirmReturns, TypeOK, Reading
  <2> QED
    BY <1>5, <2>1, <2>2, <2>3 DEF ConfirmReturns, serverVars, streamVars, TypeOK
<1>6. CASE ConfirmFails(m)
  <2>1. faults' \in [FaultKind -> Nat]
    BY <1>6, StrikesType DEF ConfirmFails, FaultKind, TypeOK
  <2> QED
    BY <1>6, <2>1 DEF ConfirmFails, serverVars, streamVars, TypeOK
<1> QED
  BY <1>1, <1>2, <1>3, <1>4, <1>5, <1>6 DEF OfUser

LEMMA StreamType ==
  ASSUME TypeOK, OfStream
  PROVE  TypeOK'
<1> USE DEF TypeOK, serverVars, logVars, pageVars
<1>1. CASE Subscribe
  BY <1>1 DEF Subscribe
<1>2. CASE Break
  <2>1. faults' \in [FaultKind -> Nat]
    BY <1>2, StrikesType DEF Break, FaultKind
  <2>2. stream' = "closed" /\ channel' \in Seq(Event) /\ missed' \subseteq Messages
    BY <1>2, BecomesType DEF Break, StreamBecomes
  <2> QED
    BY <1>2, <2>1, <2>2 DEF Break
<1>3. CASE Reconnect
  BY <1>3, BecomesType DEF Reconnect
<1> QED
  BY <1>1, <1>2, <1>3 DEF OfStream

LEMMA PageType ==
  ASSUME TypeOK, OfPage
  PROVE  TypeOK'
<1> USE DEF TypeOK, serverVars, logVars, streamVars
<1>0. channel # <<>> => Head(channel) \in Event /\ Tail(channel) \in Seq(Event)
  OBVIOUS
<1>1. CASE ReceiveConfirm
  <2>1. Head(channel).of \in Messages
    BY <1>0, <1>1 DEF ReceiveConfirm, Receives, Event
  <2>2. confirm' \in Shown
    BY <1>1, <2>1 DEF ReceiveConfirm, Shown
  <2>3. missed' \subseteq Messages
    BY <1>1, ShownType DEF ReceiveConfirm
  <2> QED
    BY <1>0, <1>1, <2>2, <2>3 DEF ReceiveConfirm, Receives
<1>2. CASE ReceiveDone
  BY <1>0, <1>2 DEF ReceiveDone, Receives, Reading
<1>3. CASE ReceiveError
  <2>1. \A i \in 2..Len(channel) : channel[i] \in Event
    OBVIOUS
  <2>2. {channel[i].of : i \in 2..Len(channel)} \subseteq Messages
    BY <2>1 DEF Event
  <2>3. missed' \subseteq Messages
    BY <1>3, <2>2 DEF ReceiveError
  <2> QED
    BY <1>3, <2>3 DEF ReceiveError, pageVars
<1>4. ASSUME NEW kind \in {"done", "confirm"}, FetchSession(kind)
      PROVE  TypeOK'
  <2>1. fetch' \in [Reading -> Nat]
    BY <1>4 DEF FetchSession, Reading
  <2> QED
    BY <1>4, <2>1 DEF FetchSession
<1>5. ASSUME NEW kind \in Reading, FetchFails(kind)
      PROVE  TypeOK'
  <2>1. fetch' \in [Reading -> Nat]
    BY <1>5 DEF FetchFails, FetchEnds
  <2> QED
    BY <1>5, <2>1, StrikesType DEF FetchFails, FaultKind
<1>6. CASE HydrateReads
  <2>1. fetch' \in [Reading -> Nat]
    BY <1>6 DEF HydrateReads, FetchEnds, Reading
  <2>2. found' \in [Messages -> Nat]
    BY <1>6 DEF HydrateReads
  <2> QED
    BY <1>6, <2>1, <2>2 DEF HydrateReads
<1>7. ASSUME NEW m \in Messages, HydrateReturns(m)
      PROVE  TypeOK'
  <2>1. found' \in [Messages -> Nat]
    BY <1>7 DEF HydrateReturns
  <2> QED
    BY <1>7, <2>1 DEF HydrateReturns, Shown
<1> QED
  BY <1>1, <1>2, <1>3, <1>4, <1>5, <1>6, <1>7 DEF OfPage

LEMMA NextType ==
  ASSUME TypeOK, [Next]_vars
  PROVE  TypeOK'
<1>1. CASE UNCHANGED vars
  BY <1>1 DEF vars, TypeOK, serverVars, logVars, streamVars, pageVars
<1> QED
  BY <1>1, ServerType, UserType, StreamType, PageType DEF Next

(***************************************************************************)
(* The numbers, and the end of a message.                                  *)
(***************************************************************************)
LEMMA InitInvariant == Init => IInv
<1> SUFFICES ASSUME Init PROVE IInv
  OBVIOUS
<1>1. TypeOK
  BY InitType
<1>2. \A m \in Messages : run[m] = "new" /\ first[m] = 0
  BY DEF Init
<1>3. rows = {} /\ last = 0
  BY DEF Init
<1> QED
  BY <1>1, <1>2, <1>3
     DEF IInv, SubmittedIsDecided, Init, Numbered, AnswersFollow, AnsweredLast, AnswersArrive, ConfirmationsArrive

\* Nothing but the server's steps puts a message to be appended, and nothing
\* but appending changes the messages.
LEMMA OthersKeepRows ==
  ASSUME TypeOK, NEW m \in Messages,
         \/ SettleSession(m) \/ Emit(m) \/ Fail(m) \/ Report(m)
         \/ DecideElsewhere(m) \/ OfUser(m) \/ OfStream \/ OfPage \/ UNCHANGED vars
  PROVE  /\ UNCHANGED logVars
         /\ \A k \in Messages : run'[k] = "append" => run[k] = "append"
<1> USE DEF RunGoes, serverVars, TypeOK
<1>1. CASE SettleSession(m) \/ Emit(m) \/ Fail(m) \/ Report(m)
  BY <1>1 DEF SettleSession, Emit, Fail, Report
<1>2. CASE DecideElsewhere(m) \/ OfUser(m)
  BY <1>2 DEF DecideElsewhere, Decide, OfUser, Send, Refuse, Confirm, ConfirmReturns, ConfirmFails
<1>3. CASE OfStream \/ UNCHANGED vars
  BY <1>3 DEF OfStream, Subscribe, Break, Reconnect, vars
<1>4. CASE OfPage
  BY <1>4 DEF OfPage, ReceiveConfirm, ReceiveDone, ReceiveError, FetchSession, FetchFails,
              HydrateReads, HydrateReturns
<1> QED
  BY <1>1, <1>2, <1>3, <1>4

LEMMA NumberedStep ==
  ASSUME TypeOK, Numbered, [Next]_vars
  PROVE  Numbered'
<1> USE DEF Numbered, AnswersFollow, TypeOK
<1>1. ASSUME NEW m \in Messages, Accept(m)
      PROVE  Numbered'
  BY <1>1 DEF Accept, RunGoes, TakesNumber
<1>2. ASSUME NEW m \in Messages, Orchestrate(m)
      PROVE  Numbered'
  BY <1>2 DEF Orchestrate, RunGoes, TakesNumber
<1>3. ASSUME NEW m \in Messages, AppendMessage(m)
      PROVE  Numbered'
  <2>1. last <= last' /\ next[m] <= last'
    BY <1>3 DEF AppendMessage
  <2>2. first'[m] = next[m] \/ first'[m] = first[m] \/ first'[m] = 0
    BY <1>3 DEF AppendMessage
  <2>3. \A k \in Messages \ {m} : first'[k] = first[k] /\ next'[k] = next[k]
                                  /\ run'[k] = run[k] /\ part'[k] = part[k]
    BY <1>3 DEF AppendMessage, RunGoes
  <2>4. run'[m] # "append" /\ last' \in Nat
    <3>1. run'[m] \in {"work", "settle", "emit"}
      BY <1>3 DEF AppendMessage, RunGoes
    <3>2. last' = next[m] \/ last' = last
      BY <1>3 DEF AppendMessage
    <3> QED
      BY <3>1, <3>2
  <2>5. ASSUME NEW k \in Messages PROVE first'[k] <= last'
    <3>1. first[k] \in Nat /\ first[k] <= last /\ last \in Nat /\ next[k] \in Nat
      OBVIOUS
    <3>2. CASE k = m
      BY <2>1, <2>2, <2>4, <3>1, <3>2
    <3>3. CASE k # m
      BY <2>1, <2>3, <2>4, <3>1, <3>3
    <3> QED
      BY <3>2, <3>3
  <2>6. \A k \in Messages :
          run'[k] = "append" /\ part'[k] # "question" => first'[k] < next'[k]
    BY <2>3, <2>4
  <2> QED
    BY <2>5, <2>6
<1>4. ASSUME NEW m \in Messages,
             \/ SettleSession(m) \/ Emit(m) \/ Fail(m) \/ Report(m)
             \/ DecideElsewhere(m) \/ OfUser(m) \/ OfStream \/ OfPage \/ UNCHANGED vars
      PROVE  Numbered'
  BY <1>4, OthersKeepRows DEF logVars
<1>5. CASE Messages = {}  \* then there is no m to name
  BY <1>5
<1> QED
  BY <1>1, <1>2, <1>3, <1>4, <1>5 DEF Next, OfServer

LEMMA AnsweredLastStep ==
  ASSUME TypeOK, AnsweredLast, [Next]_vars
  PROVE  AnsweredLast'
<1> USE DEF AnsweredLast, TypeOK, RunGoes
<1>1. ASSUME NEW m \in Messages, Accept(m) \/ Orchestrate(m)
      PROVE  AnsweredLast'
  <2>1. rows' = rows /\ <<m, "answer">> \notin rows
    BY <1>1 DEF Accept, Orchestrate
  <2>2. \A k \in Messages \ {m} : run'[k] = run[k] /\ part'[k] = part[k]
    BY <1>1 DEF Accept, Orchestrate, TakesNumber
  <2> QED
    BY <2>1, <2>2
<1>2. ASSUME NEW m \in Messages, AppendMessage(m)
      PROVE  AnsweredLast'
  <2>1. rows' = rows \cup {<<m, part[m]>>} /\ <<m, "answer">> \notin rows /\ part' = part
    BY <1>2 DEF AppendMessage
  <2>2. part[m] = "answer" => run'[m] \in {"settle", "emit"}
    BY <1>2 DEF AppendMessage
  <2>3. \A k \in Messages \ {m} : run'[k] = run[k]
    BY <1>2 DEF AppendMessage
  <2> QED
    BY <2>1, <2>2, <2>3
<1>3. ASSUME NEW m \in Messages, SettleSession(m) \/ Emit(m) \/ Fail(m) \/ Report(m)
      PROVE  AnsweredLast'
  <2>1. rows' = rows /\ part' = part
    BY <1>3, OthersKeepRows DEF logVars
  <2>2. <<m, "answer">> \in rows => run'[m] \in {"emit", "over"}
    BY <1>3 DEF SettleSession, Emit, Fail, Report
  <2>3. \A k \in Messages \ {m} : run'[k] = run[k]
    BY <1>3 DEF SettleSession, Emit, Fail, Report
  <2> QED
    BY <2>1, <2>2, <2>3
<1>4. ASSUME NEW m \in Messages, DecideElsewhere(m) \/ OfUser(m)
      PROVE  AnsweredLast'
  <2>1. rows' = rows /\ part' = part
    BY <1>4, OthersKeepRows DEF logVars
  <2>2. \A k \in Messages : run'[k] = run[k] \/ run[k] \in {"new", "post", "parked"}
    BY <1>4 DEF DecideElsewhere, Decide, OfUser, Send, Refuse, Confirm, ConfirmReturns,
                ConfirmFails, serverVars
  <2> QED
    BY <2>1, <2>2
<1>5. CASE OfStream \/ OfPage \/ UNCHANGED vars
  <2>1. UNCHANGED serverVars
    BY <1>5 DEF vars, OfStream, Subscribe, Break, Reconnect,
                OfPage, ReceiveConfirm, ReceiveDone, ReceiveError, FetchSession, FetchFails,
                HydrateReads, HydrateReturns
  <2> QED
    BY <2>1 DEF serverVars, logVars
<1> QED
  BY <1>1, <1>2, <1>3, <1>4, <1>5 DEF Next, OfServer

(***************************************************************************)
(* Answers and confirmations arrive: a step leaves what is on its way of a *)
(* message there, or receives it, or loses it and it is missed.            *)
(***************************************************************************)
Underway(m, kind) == m \in missed \/ Holds(channel, Told(m, kind))

LEMMA EmitsKeeps ==
  ASSUME TypeOK, NEW m \in Messages, Emit(m) \/ Fail(m) \/ Report(m),
         NEW k \in Messages, NEW kind \in {"confirm", "done"}, Underway(k, kind)
  PROVE  Underway(k, kind)'
<1>1. CASE UNCHANGED <<channel, missed>>
  BY <1>1 DEF Underway, Holds, Told
<1>2. ASSUME NEW events \in Seq(Event), Emits(m, events), stream = "open"
      PROVE  Underway(k, kind)'
  <2>1. channel' = channel \o events /\ missed' = missed
    BY <1>2 DEF Emits
  <2>2. channel \in Seq(Event)
    BY DEF TypeOK
  <2> QED
    BY <2>1, <2>2, SentAfter DEF Underway, Told
<1>3. ASSUME NEW events \in Seq(Event), Emits(m, events), stream # "open"
      PROVE  Underway(k, kind)'
  BY <1>3 DEF Emits, Underway, Told
<1> QED
  BY <1>1, <1>2, <1>3, SendsEvents

LEMMA BecomesKeeps ==
  ASSUME TypeOK, NEW stage, StreamBecomes(stage),
         NEW k \in Messages, NEW kind \in {"confirm", "done"}, Underway(k, kind)
  PROVE  Underway(k, kind)'
<1>1. channel \in Seq(Event) /\ missed \subseteq missed'
  BY DEF TypeOK, StreamBecomes
<1> QED
  BY <1>1, LostIsMissed DEF Underway

LEMMA ReceivesKeeps ==
  ASSUME TypeOK, NEW got, Receives(got), missed \subseteq missed',
         NEW k \in Messages, NEW kind \in {"confirm", "done"}, got # kind, Underway(k, kind)
  PROVE  Underway(k, kind)'
<1>1. channel \in Seq(Event) /\ channel # <<>> /\ channel' = Tail(channel)
  BY DEF TypeOK, Receives
<1>2. Head(channel) # Told(k, kind)
  BY DEF Receives, Told
<1>3. CASE Holds(channel, Told(k, kind))
  BY <1>1, <1>2, <1>3, ReceivedBefore DEF Underway, Told
<1> QED
  BY <1>3 DEF Underway

LEMMA ErrorKeeps ==
  ASSUME TypeOK, ReceiveError,
         NEW k \in Messages, NEW kind \in {"confirm", "done"}, Underway(k, kind)
  PROVE  Underway(k, kind)'
<1>1. CASE k \in missed
  BY <1>1 DEF ReceiveError, Underway
<1>2. CASE Holds(channel, Told(k, kind))
  <2>1. PICK i \in DOMAIN channel : channel[i] = Told(k, kind)
    BY <1>2 DEF Holds
  <2>2. channel[1].kind = "error" /\ channel[i].kind = kind /\ channel[i].of = k
    BY <2>1 DEF ReceiveError, Told, TypeOK
  <2>3. i \in 2..Len(channel)
    BY <2>2 DEF TypeOK
  <2>4. k \in missed'
    BY <2>2, <2>3 DEF ReceiveError
  <2> QED
    BY <2>4 DEF Underway
<1> QED
  BY <1>1, <1>2 DEF Underway

LEMMA OthersKeep ==
  ASSUME TypeOK, UNCHANGED <<channel, missed>>,
         NEW k \in Messages, NEW kind, Underway(k, kind)
  PROVE  Underway(k, kind)'
BY DEF Underway, Holds, Told

LEMMA MissedKeeps ==
  ASSUME UNCHANGED channel, missed \subseteq missed',
         NEW k \in Messages, NEW kind, Underway(k, kind)
  PROVE  Underway(k, kind)'
BY DEF Underway, Holds, Told

LEMMA AnswersArriveStep ==
  ASSUME TypeOK, AnsweredLast, AnswersArrive, [Next]_vars
  PROVE  AnswersArrive'
<1> SUFFICES ASSUME faults' = NoFaultYet, NEW k \in Messages,
                    run'[k] = "over", <<k, "answer">> \in rows'
             PROVE  k \in seen' \/ fetch'["done"] > 0 \/ Underway(k, "done")'
  BY DEF AnswersArrive, Underway
<1> DEFINE Shows == k \in seen
           Owed == run[k] = "over" /\ <<k, "answer">> \in rows
<1>0. faults = NoFaultYet /\ Owed => Shows \/ fetch["done"] > 0 \/ Underway(k, "done")
  BY DEF AnswersArrive, Underway
<1>u. (UNCHANGED faults) => faults = NoFaultYet
  OBVIOUS
<1>s. ASSUME Strikes("net") PROVE FALSE
  BY <1>s, StrikesType DEF TypeOK, FaultKind
<1>1. ASSUME NEW m \in Messages,
             Accept(m) \/ Orchestrate(m) \/ AppendMessage(m) \/ SettleSession(m)
      PROVE  Shows' \/ fetch'["done"] > 0 \/ Underway(k, "done")'
  <2>1. UNCHANGED <<channel, missed, seen, fetch, faults>>
    BY <1>1 DEF Accept, Orchestrate, AppendMessage, SettleSession, ServerOnly, streamVars, pageVars
  <2>2. k # m /\ run[k] = "over"
    BY <1>1 DEF Accept, Orchestrate, AppendMessage, SettleSession, RunGoes, TypeOK
  <2>3. <<k, "answer">> \in rows
    BY <1>1, <2>2 DEF Accept, Orchestrate, AppendMessage, SettleSession, logVars
  <2> QED
    BY <1>0, <2>1, <2>2, <2>3, OthersKeep
<1>2. ASSUME NEW m \in Messages, Emit(m) \/ Fail(m) \/ Report(m)
      PROVE  Shows' \/ fetch'["done"] > 0 \/ Underway(k, "done")'
  <2>1. UNCHANGED <<rows, seen, fetch, faults>> /\ part' = part
    BY <1>2 DEF Emit, Fail, Report, logVars, pageVars
  <2>2. CASE k = m
    <3>1. run[m] = "emit" /\ part[m] = "answer"
      BY <1>2, <2>1, <2>2 DEF AnsweredLast, Fail, Report, Emit, RunGoes
    <3>2. Emits(m, <<Told(m, "done")>>)
      BY <1>2, <3>1 DEF Emit, Fail, Report, RunGoes
    <3>3. Told(m, "done") \in Event
      BY ToldIsEvent
    <3>4. <<Told(m, "done")>> \in Seq(Event) /\ Holds(<<Told(m, "done")>>, Told(m, "done"))
      BY <3>3 DEF Holds
    <3>5. CASE stream = "open"
      <4>1. Holds(channel', Told(m, "done"))
        BY <3>2, <3>4, <3>5, SentAfter DEF Emits, TypeOK
      <4> QED
        BY <2>2, <4>1 DEF Underway, Told
    <3>6. CASE stream # "open"
      BY <2>2, <3>2, <3>6 DEF Emits, Underway
    <3> QED
      BY <3>5, <3>6
  <2>3. CASE k # m
    <3>1. run[k] = "over"
      BY <1>2, <2>3 DEF Emit, Fail, Report, RunGoes, TypeOK
    <3> QED
      BY <1>0, <1>2, <2>1, <3>1, EmitsKeeps
  <2> QED
    BY <2>2, <2>3
<1>3. ASSUME NEW m \in Messages, DecideElsewhere(m) \/ OfUser(m)
      PROVE  Shows' \/ fetch'["done"] > 0 \/ Underway(k, "done")'
  <2>1. UNCHANGED <<rows, seen, faults>> /\ fetch'["done"] = fetch["done"]
    BY <1>3, <1>s DEF DecideElsewhere, Decide, OfUser, Send, Refuse, Confirm, ConfirmReturns,
                      ConfirmFails, ServerOnly, serverVars, logVars, pageVars, TypeOK, Reading
  <2>2. Owed
    BY <1>3, <2>1 DEF DecideElsewhere, Decide, OfUser, Send, Refuse, Confirm, ConfirmReturns,
                      ConfirmFails, RunGoes, serverVars, AnsweredLast, TypeOK
  <2>3. CASE DecideElsewhere(m) \/ Confirm(m)
    BY <1>0, <2>1, <2>2, <2>3, OthersKeep DEF DecideElsewhere, Confirm, ServerOnly, streamVars
  <2>4. CASE Send(m) \/ Refuse(m)
    BY <1>0, <2>1, <2>2, <2>4, BecomesKeeps DEF Send, Refuse
  <2>5. CASE ConfirmReturns(m)
    <3>1. UNCHANGED channel /\ missed \subseteq missed'
      BY <2>5 DEF ConfirmReturns, streamVars
    <3> QED
      BY <1>0, <2>1, <2>2, <3>1, MissedKeeps
  <2> QED
    BY <1>3, <1>s, <2>3, <2>4, <2>5 DEF OfUser, ConfirmFails
<1>4. CASE OfStream
  <2>1. UNCHANGED <<rows, run, seen, fetch, faults>>
    BY <1>4, <1>s DEF OfStream, Subscribe, Break, Reconnect, serverVars, logVars, pageVars
  <2>2. CASE Subscribe
    BY <1>0, <2>1, <2>2, OthersKeep DEF Subscribe
  <2>3. CASE Reconnect
    BY <1>0, <2>1, <2>3, BecomesKeeps DEF Reconnect
  <2> QED
    BY <1>4, <1>s, <2>2, <2>3 DEF OfStream, Break
<1>5. CASE ReceiveConfirm
  <2>1. UNCHANGED <<rows, run, seen, fetch, faults>> /\ missed \subseteq missed'
    BY <1>5 DEF ReceiveConfirm, serverVars, logVars
  <2> QED
    BY <1>0, <1>5, <2>1, ReceivesKeeps DEF ReceiveConfirm
<1>6. CASE ReceiveDone
  BY <1>6 DEF ReceiveDone, TypeOK, Reading
<1>7. CASE ReceiveError
  <2>1. UNCHANGED <<rows, run, seen, fetch, faults>>
    BY <1>7 DEF ReceiveError, serverVars, logVars, pageVars
  <2> QED
    BY <1>0, <1>7, <2>1, ErrorKeeps
<1>8. ASSUME NEW kind \in {"done", "confirm"}, FetchSession(kind)
      PROVE  Shows'
  BY <1>8 DEF FetchSession, serverVars, logVars
<1>9. ASSUME NEW kind \in Reading, FetchFails(kind)
      PROVE  FALSE
  BY <1>9, <1>s DEF FetchFails
<1>10. CASE HydrateReads \/ (\E m \in Messages : HydrateReturns(m)) \/ UNCHANGED vars
  <2>1. UNCHANGED <<rows, run, seen, faults, channel, missed>> /\ fetch'["done"] = fetch["done"]
    BY <1>10 DEF HydrateReads, HydrateReturns, FetchEnds, vars, serverVars, logVars, streamVars,
                 pageVars, TypeOK, Reading
  <2> QED
    BY <1>0, <2>1, OthersKeep
<1> QED
  BY <1>1, <1>2, <1>3, <1>4, <1>5, <1>6, <1>7, <1>8, <1>9, <1>10 DEF Next, OfServer, OfPage

LEMMA SubmittedStep ==
  ASSUME TypeOK, SubmittedIsDecided, [Next]_vars
  PROVE  SubmittedIsDecided'
<1> USE DEF SubmittedIsDecided, TypeOK, RunGoes
<1>1. ASSUME NEW m \in Messages, OfServer(m)
      PROVE  SubmittedIsDecided'
  <2>1. UNCHANGED submitting
    BY <1>1 DEF OfServer, Accept, Orchestrate, AppendMessage, SettleSession, Emit, Fail, Report,
                ServerOnly, pageVars
  <2>2. \A k \in Messages \ {m} : run'[k] = run[k] /\ asks'[k] = asks[k] /\ part'[k] = part[k]
    BY <1>1 DEF OfServer, Accept, Orchestrate, TakesNumber, AppendMessage, SettleSession,
                Emit, Asks, Fail, Report, logVars
  <2>3. CASE Accept(m) \/ Fail(m) \/ Report(m)
    BY <2>1, <2>2, <2>3 DEF Accept, Fail, Report
  <2>4. CASE Orchestrate(m)
    <3>1. asks[m] = "decided" => part'[m] = "answer"
      BY <2>4 DEF Orchestrate, Outcomes, TakesNumber
    <3> QED
      BY <2>1, <2>2, <2>4, <3>1 DEF Orchestrate
  <2>5. CASE AppendMessage(m) \/ SettleSession(m)
    BY <2>1, <2>2, <2>5 DEF AppendMessage, SettleSession, logVars
  <2>6. CASE Emit(m)
    <3>1. asks[m] = "decided" => part[m] = "answer"
      BY <2>6 DEF Emit
    <3>2. asks'[m] = "decided" => asks[m] = "decided" /\ part[m] = "answer"
      BY <2>6, <3>1 DEF Emit, Asks
    <3>3. asks[m] = "decided" => asks'[m] = "decided"
      BY <2>6, <3>1 DEF Emit, Asks
    <3>4. part[m] = "answer" => run'[m] = "over"
      BY <2>6 DEF Emit
    <3> QED
      BY <2>1, <2>2, <3>2, <3>3, <3>4
  <2> QED
    BY <1>1, <2>3, <2>4, <2>5, <2>6 DEF OfServer
<1>2. ASSUME NEW m \in Messages, DecideElsewhere(m) \/ Confirm(m)
      PROVE  SubmittedIsDecided'
  <2>1. UNCHANGED part /\ submitting' \subseteq submitting \cup {m}
    BY <1>2 DEF DecideElsewhere, Confirm, Decide, ServerOnly, logVars, pageVars
  <2>2. run'[m] \in {"work", "over"} /\ asks'[m] = "decided"
    BY <1>2 DEF DecideElsewhere, Confirm, Decide
  <2>3. \A k \in Messages \ {m} : run'[k] = run[k] /\ asks'[k] = asks[k]
    BY <1>2 DEF DecideElsewhere, Confirm, Decide
  <2> QED
    BY <2>1, <2>2, <2>3
<1>3. ASSUME NEW m \in Messages, Send(m) \/ Refuse(m)
      PROVE  SubmittedIsDecided'
  BY <1>3 DEF Send, Refuse, logVars, pageVars
<1>4. ASSUME NEW m \in Messages, ConfirmReturns(m) \/ ConfirmFails(m)
      PROVE  SubmittedIsDecided'
  BY <1>4 DEF ConfirmReturns, ConfirmFails, serverVars, logVars
<1>5. CASE OfStream \/ OfPage \/ UNCHANGED vars
  <2>1. UNCHANGED <<serverVars, submitting>>
    BY <1>5 DEF vars, OfStream, Subscribe, Break, Reconnect, OfPage, ReceiveConfirm, ReceiveDone,
                ReceiveError, FetchSession, FetchFails, HydrateReads, HydrateReturns, pageVars
  <2> QED
    BY <2>1 DEF serverVars, logVars
<1> QED
  BY <1>1, <1>2, <1>3, <1>4, <1>5 DEF Next, OfUser

LEMMA ConfirmationsArriveStep ==
  ASSUME TypeOK, ConfirmationsArrive, SubmittedIsDecided, [Next]_vars
  PROVE  ConfirmationsArrive'
<1> SUFFICES ASSUME NEW k \in Messages, run'[k] = "parked"
             PROVE  confirm' = {k} \/ Underway(k, "confirm")'
  BY DEF ConfirmationsArrive, Underway
<1>0. run[k] = "parked" => confirm = {k} \/ Underway(k, "confirm")
  BY DEF ConfirmationsArrive, Underway
<1>1. ASSUME NEW m \in Messages,
             Accept(m) \/ Orchestrate(m) \/ AppendMessage(m) \/ SettleSession(m)
      PROVE  confirm' = {k} \/ Underway(k, "confirm")'
  <2>1. UNCHANGED <<channel, missed, confirm>>
    BY <1>1 DEF Accept, Orchestrate, AppendMessage, SettleSession, ServerOnly, streamVars, pageVars
  <2>2. run[k] = "parked"
    BY <1>1 DEF Accept, Orchestrate, AppendMessage, SettleSession, RunGoes, TypeOK
  <2> QED
    BY <1>0, <2>1, <2>2, OthersKeep
<1>2. ASSUME NEW m \in Messages, Emit(m) \/ Fail(m) \/ Report(m)
      PROVE  confirm' = {k} \/ Underway(k, "confirm")'
  <2>1. UNCHANGED confirm
    BY <1>2 DEF Emit, Fail, Report, pageVars
  <2>2. CASE run[k] = "parked"
    BY <1>0, <1>2, <2>1, <2>2, EmitsKeeps
  <2>3. CASE run[k] # "parked"
    <3>1. k = m /\ Emit(m) /\ part[m] = "confirm"
      BY <1>2, <2>3 DEF Emit, Fail, Report, RunGoes, TypeOK
    <3>2. Emits(m, <<Told(m, "confirm"), Told(m, "done")>>)
      BY <3>1 DEF Emit
    <3>3. Told(m, "confirm") \in Event /\ Told(m, "done") \in Event
      BY ToldIsEvent
    <3>4. /\ <<Told(m, "confirm"), Told(m, "done")>> \in Seq(Event)
          /\ Holds(<<Told(m, "confirm"), Told(m, "done")>>, Told(m, "confirm"))
      BY <3>3 DEF Holds
    <3>5. CASE stream = "open"
      <4>1. Holds(channel', Told(m, "confirm"))
        BY <3>2, <3>4, <3>5, SentAfter DEF Emits, TypeOK
      <4> QED
        BY <3>1, <4>1 DEF Underway, Told
    <3>6. CASE stream # "open"
      BY <3>1, <3>2, <3>6 DEF Emits, Underway
    <3> QED
      BY <3>5, <3>6
  <2> QED
    BY <2>2, <2>3
<1>3. ASSUME NEW m \in Messages, DecideElsewhere(m) \/ OfUser(m)
      PROVE  confirm' = {k} \/ Underway(k, "confirm")'
  <2>1. run[k] = "parked"
    BY <1>3 DEF DecideElsewhere, Decide, OfUser, Send, Refuse, Confirm, ConfirmReturns,
                ConfirmFails, RunGoes, serverVars, TypeOK
  <2>2. CASE DecideElsewhere(m) \/ Confirm(m) \/ ConfirmFails(m)
    <3>1. UNCHANGED <<channel, missed, confirm>>
      BY <2>2 DEF DecideElsewhere, Confirm, ConfirmFails, ServerOnly, streamVars, pageVars
    <3> QED
      BY <1>0, <2>1, <3>1, OthersKeep
  <2>3. CASE ConfirmReturns(m)
    <3>1. UNCHANGED channel /\ missed' = missed \cup (confirm \ {m})
      BY <2>3 DEF ConfirmReturns, streamVars
    <3>2. CASE Underway(k, "confirm")
      BY <3>1, <3>2, MissedKeeps
    <3>3. CASE confirm = {k} /\ k # m
      BY <3>1, <3>3 DEF Underway
    <3>4. CASE k = m
      BY <2>1, <2>3, <3>4 DEF ConfirmReturns, SubmittedIsDecided
    <3> QED
      BY <1>0, <2>1, <3>2, <3>3, <3>4
  <2>4. CASE Send(m) \/ Refuse(m)
    <3>1. UNCHANGED confirm
      BY <2>4 DEF Send, Refuse, pageVars
    <3> QED
      BY <1>0, <2>1, <2>4, <3>1, BecomesKeeps DEF Send, Refuse
  <2> QED
    BY <1>3, <2>2, <2>3, <2>4 DEF OfUser
<1>4. CASE OfStream
  <2>1. UNCHANGED <<run, confirm>>
    BY <1>4 DEF OfStream, Subscribe, Break, Reconnect, serverVars, pageVars
  <2>2. CASE Subscribe
    BY <1>0, <2>1, <2>2, OthersKeep DEF Subscribe
  <2>3. CASE Break \/ Reconnect
    BY <1>0, <2>1, <2>3, BecomesKeeps DEF Break, Reconnect
  <2> QED
    BY <1>4, <2>2, <2>3 DEF OfStream
<1>5. CASE ReceiveConfirm
  <2>1. UNCHANGED run /\ confirm' = {Head(channel).of}
    BY <1>5 DEF ReceiveConfirm, serverVars
  <2>2. channel \in Seq(Event) /\ channel # <<>> /\ channel' = Tail(channel)
    BY <1>5 DEF TypeOK, ReceiveConfirm, Receives
  <2>3. CASE confirm = {k}
    BY <1>5, <2>3 DEF ReceiveConfirm, Underway
  <2>4. CASE k \in missed
    BY <1>5, <2>4 DEF ReceiveConfirm, Underway
  <2>5. CASE Holds(channel, Told(k, "confirm")) /\ Head(channel) # Told(k, "confirm")
    <3>1. Holds(channel', Told(k, "confirm"))
      BY <2>2, <2>5, ReceivedBefore
    <3> QED
      BY <3>1 DEF Underway, Told
  <2>6. CASE Head(channel) = Told(k, "confirm")
    BY <2>1, <2>6 DEF Told
  <2> QED
    BY <1>0, <2>1, <2>3, <2>4, <2>5, <2>6 DEF Underway
<1>6. CASE ReceiveDone
  <2>1. UNCHANGED <<run, confirm, missed>>
    BY <1>6 DEF ReceiveDone, serverVars
  <2> QED
    BY <1>0, <1>6, <2>1, ReceivesKeeps DEF ReceiveDone
<1>7. CASE ReceiveError
  <2>1. UNCHANGED <<run, confirm>>
    BY <1>7 DEF ReceiveError, serverVars, pageVars
  <2> QED
    BY <1>0, <1>7, <2>1, ErrorKeeps
<1>8. CASE \/ \E kind \in {"done", "confirm"} : FetchSession(kind)
           \/ \E kind \in Reading : FetchFails(kind)
           \/ HydrateReads \/ UNCHANGED vars
  <2>1. UNCHANGED <<run, confirm, channel, missed>>
    BY <1>8 DEF FetchSession, FetchFails, HydrateReads, vars, serverVars, streamVars, pageVars
  <2> QED
    BY <1>0, <2>1, OthersKeep
<1>9. ASSUME NEW m \in Messages, HydrateReturns(m)
      PROVE  confirm' = {k} \/ Underway(k, "confirm")'
  <2>1. UNCHANGED <<run, channel, missed>> /\ (confirm = {k} => confirm' = {k})
    BY <1>9 DEF HydrateReturns, serverVars, streamVars
  <2> QED
    BY <1>0, <2>1, OthersKeep
<1> QED
  BY <1>1, <1>2, <1>3, <1>4, <1>5, <1>6, <1>7, <1>8, <1>9 DEF Next, OfServer, OfPage

(***************************************************************************)
(* The theorems.                                                           *)
(***************************************************************************)
LEMMA Inductive == Spec => []IInv
<1>1. IInv /\ [Next]_vars => IInv'
  BY NextType, NumberedStep, AnsweredLastStep, AnswersArriveStep, ConfirmationsArriveStep,
     SubmittedStep DEF IInv
<1> QED
  BY <1>1, InitInvariant, PTL DEF Spec

\* Every variable keeps its type: the highest number and the readings under way
\* never fall below zero, and only parts of known messages are stored and shown.
THEOREM StreamTypeCorrect == Spec => []TypeOK
<1>1. IInv => TypeOK
  BY DEF IInv
<1> QED
  BY <1>1, Inductive, PTL

\* However many messages are handled at once, an answer is numbered after its
\* question, though appendMessage reads the highest number before it writes.
THEOREM AnswersFollowQuestions == Spec => []AnswersFollow
<1>1. IInv => AnswersFollow
  BY DEF IInv, Numbered
<1> QED
  BY <1>1, Inductive, PTL

\* However the page reconnects, an answer is shown once the events and the
\* readings under way are done with, or its message is known to have ended
\* while the page was not listening.
THEOREM AnswersArriveAtPage == Spec => []AnswersAreSeen
<1>1. ASSUME IInv, channel = <<>>, fetch["done"] = 0, faults = NoFaultYet,
             NEW m \in Messages, run[m] = "over", <<m, "answer">> \in rows
      PROVE  m \in seen \/ m \in missed
  <2>1. ~Holds(channel, Told(m, "done"))
    BY <1>1 DEF Holds
  <2> QED
    BY <1>1, <2>1 DEF IInv, AnswersArrive
<1>2. IInv => AnswersAreSeen
  BY <1>1 DEF AnswersAreSeen
<1> QED
  BY <1>2, Inductive, PTL

\* Whatever breaks, what waits for a confirmation has it on the page, unless its
\* event was lost, another confirmation took its place, or the reply to another
\* took it away.
THEOREM ConfirmationsArriveAtPage == Spec => []ConfirmationsAreSeen
<1>1. ASSUME IInv, channel = <<>>, NEW m \in Messages, run[m] = "parked"
      PROVE  confirm = {m} \/ m \in missed
  <2>1. ~Holds(channel, Told(m, "confirm"))
    BY <1>1 DEF Holds
  <2> QED
    BY <1>1, <2>1 DEF IInv, ConfirmationsArrive
<1>2. IInv => ConfirmationsAreSeen
  BY <1>1 DEF ConfirmationsAreSeen
<1> QED
  BY <1>2, Inductive, PTL
=============================================================================
