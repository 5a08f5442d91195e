---------------------------- MODULE LiveCardProofs ----------------------------
(****************************************************************************)
(* Theorems about the page of an issue: whatever order the events and the   *)
(* answers come in, a card has each message of its task once, and the tasks *)
(* that are underway are those that have a card, for any number of tasks    *)
(* and messages.                                                            *)
(****************************************************************************)
EXTENDS TaskPages, TLAPS

EndTypes == {"task:completed", "task:failed", "task:cancelled"}
Row      == [status : {"absent", "queued", "underway", "ended"}, about : {Issue, None}, said : Nat]
Message  == [type : EndTypes \cup {"task:dispatch", "task:message"},
             task : Task, about : {Issue, None}, seq : Nat]
Card     == [shown : BOOLEAN, loaded : BOOLEAN, items : [Seq1 -> {0, 1}]]
Request  == [kind : {"tasks"}, for : Task \cup {None}, read : BOOLEAN, tasks : SUBSET Task, said : Nat]
            \cup [kind : {"messages"}, for : Task, read : BOOLEAN, tasks : {{}}, said : Nat]

\* The events on their way, and what they tell.
Flight          == {wire[i] : i \in 1 .. Len(wire)}
Told(t, n)      == \E m \in Flight : m.type = "task:message" /\ m.task = t /\ m.seq = n
EndTold(t)      == \E m \in Flight : m.type \in EndTypes /\ m.task = t
DispatchTold(t) == \E m \in Flight : m.type = "task:dispatch" /\ m.task = t

\* A message is on the card, or its event is on its way and will be heeded.
Complete(t, n) == cards[t].items[n] = 1 \/ (<<t, n>> \notin seenSeqs /\ Told(t, n))

\* An answer that is on its way, or will be, may show the card of the task.
Asked(t) == \E r \in requests : t \in r.tasks \/ (r.kind = "messages" /\ r.for = t)

TasksTyped ==
    /\ tasks \in [Task -> Row]
    /\ \A t \in Task : /\ tasks[t].status = "absent" => tasks[t].said = 0
                       /\ tasks[t].status # "absent" => tasks[t].about = Issue

WireTyped == wire \in Seq(Message)

CardsTyped ==
    /\ cards \in [Task -> Card]
    /\ \A t \in Task : cards[t].loaded => cards[t].shown
    /\ seenSeqs \subseteq Task \X Nat
    /\ requests \subseteq Request

\* Nothing is told, seen or read that the task has not said.
Sayings ==
    /\ \A m \in Flight : m.type = "task:message" => m.seq >= 1 /\ m.seq <= tasks[m.task].said
    /\ \A t \in Task, n \in Nat : <<t, n>> \in seenSeqs => n <= tasks[t].said
    /\ \A r \in requests : r.kind = "messages" => r.said <= tasks[r.for].said

Once == \A t \in Task, n \in Seq1 : cards[t].items[n] = 1 => <<t, n>> \in seenSeqs

\* What the answer on its way lacks, the events bring.
Loading ==
    \A r \in requests : r.kind = "messages" /\ r.for \notin raced =>
        /\ cards[r.for].shown
        /\ r.read => \A n \in Seq1 : n <= tasks[r.for].said => n <= r.said \/ Complete(r.for, n)

Loaded ==
    \A t \in Task : cards[t].loaded /\ t \notin raced =>
        \A n \in Seq1 : n <= tasks[t].said => Complete(t, n)

Unmounted == ~mounted => requests = {} /\ cards = [t \in Task |-> NoCard]

Ends == \A m \in Flight : m.type \in EndTypes => tasks[m.task].status = "ended"

Dispatched ==
    mounted /\ ~missed =>
        \A t \in Task : tasks[t].status = "underway" =>
            \/ cards[t].shown \/ DispatchTold(t)
            \/ \E r \in requests : r.kind = "tasks" /\ (~r.read \/ t \in r.tasks)

Gone ==
    \A t \in Task : tasks[t].status = "ended" /\ (cards[t].shown \/ Asked(t)) =>
        t \in raced \/ EndTold(t)

Typed   == TasksTyped /\ WireTyped /\ CardsTyped
CardInv == Typed /\ Sayings /\ Once /\ Loading /\ Loaded /\ Unmounted /\ Ends /\ Dispatched /\ Gone

\* The inductive invariant.
IndInv == /\ page \in {"issue", "chat"}
          /\ page = "issue" => CardInv
          /\ page = "chat" => ~mounted /\ cards = [t \in Task |-> NoCard]

-----------------------------------------------------------------------------
(* The wire *)

LEMMA PublishFlight ==
    ASSUME WireTyped, NEW m \in Message, Publish(<<m>>)
    PROVE  WireTyped' /\ Flight' = Flight \cup {m}
<1>1. wire' = Append(wire, m)
  BY DEF Publish, WireTyped
<1>2. WireTyped' /\ Len(wire') = Len(wire) + 1 /\ Len(wire) \in Nat
  BY <1>1 DEF WireTyped
<1>3. wire'[Len(wire) + 1] = m /\ \A i \in 1 .. Len(wire) : wire'[i] = wire[i]
  BY <1>1 DEF WireTyped
<1> QED
  BY <1>2, <1>3 DEF Flight

LEMMA ReceiveFlight ==
    ASSUME WireTyped, wire # <<>>, wire' = Tail(wire)
    PROVE  /\ WireTyped' /\ Head(wire) \in Message /\ Head(wire) \in Flight
           /\ Flight' \subseteq Flight /\ Flight \subseteq Flight' \cup {Head(wire)}
<1>1. /\ WireTyped' /\ Len(wire) \in Nat \ {0} /\ Len(wire') = Len(wire) - 1
      /\ Head(wire) = wire[1] /\ Head(wire) \in Message
  BY DEF WireTyped
<1>2. \A i \in 1 .. Len(wire') : wire'[i] = wire[i + 1]
  BY <1>1 DEF WireTyped
<1>3. Flight' \subseteq Flight
  BY <1>1, <1>2 DEF Flight
<1>4. ASSUME NEW i \in 1 .. Len(wire) PROVE wire[i] \in Flight' \cup {Head(wire)}
  <2>1. CASE i = 1
    BY <1>1, <2>1
  <2>2. CASE i # 1
    <3>1. i - 1 \in 1 .. Len(wire') /\ wire'[i - 1] = wire[i]
      BY <1>1, <1>2, <2>2
    <3> QED
      BY <3>1 DEF Flight
  <2> QED
    BY <2>1, <2>2
<1> QED
  BY <1>1, <1>3, <1>4 DEF Flight

LEMMA SameFlight == ASSUME UNCHANGED wire PROVE Flight' = Flight
BY DEF Flight

-----------------------------------------------------------------------------
(* The server *)

\* The event tells what the new row of its task has more than the old one.
Announces(m, t, row) ==
    /\ m.task = t
    /\ row.status # "absent" /\ row.about = Issue /\ row.said >= tasks[t].said
    /\ m.type = "task:message" => m.seq >= 1 /\ m.seq <= row.said
    /\ \A n \in Nat : n > tasks[t].said /\ n <= row.said => m.type = "task:message" /\ m.seq = n
    /\ m.type \in EndTypes \/ tasks[t].status = "ended" => row.status = "ended"
    /\ row.status = "ended" => tasks[t].status = "ended" \/ m.type \in EndTypes
    /\ row.status = "underway" => tasks[t].status = "underway" \/ m.type = "task:dispatch"

\* A step that writes the row of one task and publishes one event about it.
LEMMA PublishKept ==
    ASSUME CardInv, UNCHANGED <<issueVars, missed, raced>>,
           NEW t \in Task, NEW row \in Row, tasks' = [tasks EXCEPT ![t] = row],
           NEW m \in Message, Publish(<<m>>), Announces(m, t, row)
    PROVE  CardInv'
<1>1. UNCHANGED <<mounted, cards, seenSeqs, requests, missed, raced>>
  BY DEF issueVars
<1>2. WireTyped' /\ Flight' = Flight \cup {m}
  BY PublishFlight DEF CardInv, Typed
<1>3. /\ tasks \in [Task -> Row] /\ tasks' \in [Task -> Row] /\ tasks'[t] = row
      /\ \A u \in Task \ {t} : tasks'[u] = tasks[u]
  BY DEF CardInv, Typed, TasksTyped
<1>4. \A u \in Task : tasks[u].said \in Nat /\ tasks'[u].said \in Nat /\ tasks'[u].said >= tasks[u].said
  BY <1>3 DEF Row, Announces
<1>5. Typed'
  BY <1>1, <1>2, <1>3 DEF CardInv, Typed, TasksTyped, CardsTyped, Announces
<1>6. \A x \in Flight : x \in Message
  BY DEF CardInv, Typed, WireTyped, Flight
<1>7. Sayings'
  <2>1. \A x \in Flight' : x.type = "task:message" => x.seq >= 1 /\ x.seq <= tasks'[x.task].said
    <3>1. m.type = "task:message" => m.seq >= 1 /\ m.seq <= tasks'[t].said
      BY <1>3 DEF Announces
    <3>2. ASSUME NEW x \in Flight, x.type = "task:message"
          PROVE  x.seq >= 1 /\ x.seq <= tasks'[x.task].said
      <4>1. x.task \in Task /\ x.seq \in Nat
        BY <1>6 DEF Message
      <4>2. x.seq >= 1 /\ x.seq <= tasks[x.task].said
        BY <3>2 DEF CardInv, Sayings
      <4> QED
        BY <1>4, <4>1, <4>2
    <3> QED
      BY <1>2, <3>1, <3>2 DEF Announces
  <2>2. \A u \in Task, n \in Nat : <<u, n>> \in seenSeqs' => n <= tasks'[u].said
    BY <1>1, <1>4 DEF CardInv, Sayings
  <2>3. \A r \in requests' : r.kind = "messages" => r.said <= tasks'[r.for].said
    <3>1. ASSUME NEW r \in requests, r.kind = "messages" PROVE r.said <= tasks'[r.for].said
      <4>1. r.for \in Task /\ r.said \in Nat
        BY <3>1 DEF CardInv, Typed, CardsTyped, Request
      <4>2. r.said <= tasks[r.for].said
        BY <3>1 DEF CardInv, Sayings
      <4> QED
        BY <1>4, <4>1, <4>2
    <3> QED
      BY <1>1, <3>1
  <2> QED
    BY <2>1, <2>2, <2>3 DEF Sayings
<1>8. Once'
  BY <1>1 DEF CardInv, Once
<1>9. \A u \in Task, n \in Seq1 : Complete(u, n) => Complete(u, n)'
  BY <1>1, <1>2 DEF Complete, Told
<1>10. ASSUME NEW n \in Seq1, n > tasks[t].said, n <= row.said PROVE Complete(t, n)'
  <2>1. n \in Nat
    BY DEF Seq1
  <2>2. <<t, n>> \notin seenSeqs
    BY <1>4, <1>10, <2>1 DEF CardInv, Sayings
  <2>3. m.type = "task:message" /\ m.seq = n
    BY <1>10, <2>1 DEF Announces
  <2> QED
    BY <1>1, <1>2, <2>2, <2>3 DEF Announces, Complete, Told
<1>11. \A u \in Task, n \in Seq1 : n <= tasks'[u].said => n <= tasks[u].said \/ Complete(u, n)'
  BY <1>3, <1>4, <1>10 DEF Seq1
<1>12. Loading'
  BY <1>1, <1>9, <1>11 DEF CardInv, Loading, Typed, CardsTyped, Request
<1>13. Loaded'
  BY <1>1, <1>9, <1>11 DEF CardInv, Loaded
<1>14. Unmounted'
  BY <1>1 DEF CardInv, Unmounted
<1>15. Ends'
  BY <1>2, <1>3, <1>6 DEF CardInv, Ends, Message, Announces
<1>16. Dispatched'
  BY <1>1, <1>2, <1>3 DEF CardInv, Dispatched, DispatchTold, Announces
<1>17. Gone'
  BY <1>1, <1>2, <1>3 DEF CardInv, Gone, EndTold, Asked, Announces
<1> QED
  BY <1>5, <1>7, <1>8, <1>12, <1>13, <1>14, <1>15, <1>16, <1>17 DEF CardInv

LEMMA DispatchKept ==
    ASSUME CardInv, UNCHANGED issueVars, NEW t \in Task, broadcastTaskDispatch(t)
    PROVE  CardInv'
<1> DEFINE m   == Event("task:dispatch", t, Issue, 0)
           row == [status |-> "underway", about |-> Issue, said |-> 0]
<1>1. m \in Message /\ m.type = "task:dispatch" /\ m.task = t
  BY DEF Event, Message
<1>2. row \in Row /\ row.status = "underway" /\ row.about = Issue /\ row.said = 0
  BY DEF Row
<1>3. tasks[t].status = "absent" /\ tasks[t].said = 0
  BY DEF CardInv, Typed, TasksTyped, broadcastTaskDispatch, NextId
<1>4. tasks' = [tasks EXCEPT ![t] = row] /\ Publish(<<m>>) /\ UNCHANGED <<issueVars, missed, raced>>
  BY DEF broadcastTaskDispatch
<1> HIDE DEF m, row
<1>5. Announces(m, t, row)
  BY <1>1, <1>2, <1>3 DEF Announces, EndTypes
<1> QED
  BY <1>1, <1>2, <1>4, <1>5, PublishKept

LEMMA ReportKept ==
    ASSUME CardInv, UNCHANGED issueVars, NEW t \in Task, ReportTaskMessages(t)
    PROVE  CardInv'
<1> DEFINE m   == Event("task:message", t, tasks[t].about, tasks[t].said + 1)
           row == [tasks[t] EXCEPT !.said = @ + 1]
<1>1. tasks[t] \in Row /\ tasks[t].status \in {"underway", "ended"} /\ tasks[t].about = Issue
  BY DEF CardInv, Typed, TasksTyped, ReportTaskMessages
<1>2. m \in Message /\ m.type = "task:message" /\ m.task = t /\ m.seq = tasks[t].said + 1
  BY <1>1 DEF Event, Message, Row
<1>3. row \in Row /\ row.status = tasks[t].status /\ row.about = Issue /\ row.said = tasks[t].said + 1
  BY <1>1 DEF Row
<1>4. tasks' = [tasks EXCEPT ![t] = row] /\ Publish(<<m>>) /\ UNCHANGED <<issueVars, missed, raced>>
  BY DEF ReportTaskMessages
<1>5. tasks[t].said \in Nat
  BY <1>1 DEF Row
<1> HIDE DEF m, row
<1>6. Announces(m, t, row)
  BY <1>1, <1>2, <1>3, <1>5 DEF Announces, EndTypes
<1> QED
  BY <1>2, <1>3, <1>4, <1>6, PublishKept

LEMMA EndKept ==
    ASSUME CardInv, UNCHANGED issueVars,
           NEW t \in Task, NEW outcome \in {"completed", "failed", "cancelled"}, EndTask(t, outcome)
    PROVE  CardInv'
<1>1. tasks[t] \in Row /\ tasks[t].status # "absent" /\ tasks[t].about = Issue /\ Issue \notin Session
  BY TaskEventsAssumption DEF CardInv, Typed, TasksTyped, EndTask, Live
<1>2. PICK m \in Message : Ended(t, outcome) = <<m>> /\ m.type \in EndTypes /\ m.task = t
  <2> DEFINE end(type) == Event(type, t, Issue, 0)
  <2>1. \A type \in EndTypes :
            end(type) \in Message /\ end(type).type \in EndTypes /\ end(type).task = t
    BY DEF Event, Message
  <2>2. \E type \in EndTypes : Ended(t, outcome) = <<end(type)>>
    BY <1>1 DEF Ended, EndTypes
  <2> QED
    BY <2>1, <2>2
<1> DEFINE row == [tasks[t] EXCEPT !.status = "ended"]
<1>3. row \in Row /\ row.status = "ended" /\ row.about = Issue /\ row.said = tasks[t].said
  BY <1>1 DEF Row
<1>4. tasks' = [tasks EXCEPT ![t] = row] /\ Publish(<<m>>) /\ UNCHANGED <<issueVars, missed, raced>>
  BY <1>2 DEF EndTask
<1>5. tasks[t].said \in Nat
  BY <1>1 DEF Row
<1> HIDE DEF row
<1>6. Announces(m, t, row)
  BY <1>1, <1>2, <1>3, <1>5 DEF Announces, EndTypes
<1> QED
  BY <1>2, <1>3, <1>4, <1>6, PublishKept

-----------------------------------------------------------------------------
(* Events that the page receives *)

Received(m) ==
    /\ m \in Message /\ m \in Flight
    /\ WireTyped' /\ Flight' \subseteq Flight /\ Flight \subseteq Flight' \cup {m}
    /\ UNCHANGED <<tasks, missed, mounted>>

LEMMA FlightKept ==
    ASSUME CardInv, NEW m, Received(m)
    PROVE  /\ TasksTyped' /\ Ends'
           /\ \A x \in Flight' : x.type = "task:message" => x.seq >= 1 /\ x.seq <= tasks'[x.task].said
<1>1. TasksTyped'
  BY DEF CardInv, Typed, TasksTyped, Received
<1>2. Ends'
  BY DEF CardInv, Ends, Received
<1>3. \A x \in Flight' : x.type = "task:message" => x.seq >= 1 /\ x.seq <= tasks'[x.task].said
  BY DEF CardInv, Sayings, Received
<1> QED
  BY <1>1, <1>2, <1>3

\* A page that is not there hears nothing and shows nothing.
LEMMA UnheardKept ==
    ASSUME CardInv, NEW m, Received(m), ~mounted, UNCHANGED <<issueVars, raced>>
    PROVE  CardInv'
<1>1. UNCHANGED <<mounted, cards, seenSeqs, requests, raced, tasks, missed>>
  BY DEF issueVars, Received
<1>2. requests = {} /\ cards = [t \in Task |-> NoCard]
  BY DEF CardInv, Unmounted
<1>3. Typed'
  BY <1>1, FlightKept DEF CardInv, Typed, CardsTyped, Received
<1>4. Sayings'
  BY <1>1, <1>2, FlightKept DEF CardInv, Sayings
<1>5. Once' /\ Unmounted' /\ Dispatched'
  BY <1>1 DEF CardInv, Once, Unmounted, Dispatched
<1>6. \A t \in Task : ~cards[t].shown /\ ~cards[t].loaded
  BY <1>2 DEF NoCard
<1>7. Loading' /\ Loaded' /\ Gone'
  BY <1>1, <1>2, <1>6 DEF Loading, Loaded, Gone, Asked
<1> QED
  BY <1>3, <1>4, <1>5, <1>7, FlightKept DEF CardInv

LEMMA MessageKept ==
    ASSUME CardInv, NEW m, Received(m), mounted, onTaskMessage(m)
    PROVE  CardInv'
<1> DEFINE t == m.task
           k == m.seq
           new == <<t, k>> \notin seenSeqs /\ cards[t].shown
<1>1. t \in Task /\ k \in Nat /\ m.type = "task:message" /\ k >= 1 /\ k <= tasks[t].said
  BY DEF CardInv, Sayings, Received, Message, onTaskMessage
<1>2. UNCHANGED <<tasks, missed, mounted, requests, raced>> /\ seenSeqs' = seenSeqs \cup {<<t, k>>}
  BY DEF Received, onTaskMessage
<1>3. cards \in [Task -> Card] /\ tasks \in [Task -> Row]
  BY DEF CardInv, Typed, CardsTyped, TasksTyped
<1>4. /\ cards' \in [Task -> Card]
      /\ \A u \in Task : cards'[u].shown = cards[u].shown /\ cards'[u].loaded = cards[u].loaded
      /\ \A u \in Task, n \in Seq1 :
             cards'[u].items[n] = IF u = t /\ n = k /\ new THEN 1 ELSE cards[u].items[n]
  <2>1. CASE ~new
    <3>1. cards' = cards
      BY <2>1 DEF onTaskMessage
    <3> QED
      BY <1>3, <2>1, <3>1
  <2>2. CASE new
    <3> DEFINE items == [cards[t].items EXCEPT ![k] = @ + 1]
    <3>1. cards[t] \in Card /\ cards[t].items \in [Seq1 -> {0, 1}]
      BY <1>1, <1>3 DEF Card
    <3>2. k \in Seq1 => cards[t].items[k] = 0
      BY <1>1, <2>2, <3>1 DEF CardInv, Once
    <3>3. items \in [Seq1 -> {0, 1}] /\ \A n \in Seq1 : items[n] = IF n = k THEN 1 ELSE cards[t].items[n]
      <4>1. CASE k \in Seq1
        BY <3>1, <3>2, <4>1
      <4>2. CASE k \notin Seq1
        BY <3>1, <4>2
      <4> QED
        BY <4>1, <4>2
    <3>4. cards' = [cards EXCEPT ![t] = [cards[t] EXCEPT !.items = items]]
      BY <2>2 DEF onTaskMessage
    <3> HIDE DEF items
    <3>5. [cards[t] EXCEPT !.items = items] \in Card
      BY <3>1, <3>3 DEF Card
    <3> QED
      BY <1>1, <1>3, <2>2, <3>1, <3>3, <3>4, <3>5 DEF Card
  <2> QED
    BY <2>1, <2>2
<1>5. ASSUME NEW u \in Task, NEW n \in Seq1, cards[u].shown, Complete(u, n) PROVE Complete(u, n)'
  <2>1. CASE cards[u].items[n] = 1
    BY <1>4, <2>1 DEF Complete
  <2>2. CASE <<u, n>> \notin seenSeqs /\ Told(u, n) /\ u = t /\ n = k
    BY <1>4, <1>5, <2>2 DEF Complete
  <2>3. CASE <<u, n>> \notin seenSeqs /\ Told(u, n) /\ ~(u = t /\ n = k)
    <3>1. Told(u, n)'
      BY <2>3 DEF Told, Received
    <3>2. <<u, n>> \notin seenSeqs'
      BY <1>2, <2>3
    <3> QED
      BY <3>1, <3>2 DEF Complete
  <2> QED
    BY <1>5, <2>1, <2>2, <2>3 DEF Complete
<1> HIDE DEF t, k, new
<1>6. Typed'
  BY <1>1, <1>2, <1>4, FlightKept DEF CardInv, Typed, CardsTyped, Received
<1>7. Sayings'
  BY <1>1, <1>2, FlightKept DEF CardInv, Sayings
<1>8. Once'
  BY <1>2, <1>4 DEF CardInv, Once
<1>9. Loading'
  BY <1>2, <1>4, <1>5 DEF CardInv, Loading, Typed, CardsTyped, Request
<1>10. Loaded'
  BY <1>2, <1>4, <1>5 DEF CardInv, Loaded, Typed, CardsTyped
<1>11. Unmounted'
  BY <1>2 DEF Unmounted
<1>12. Dispatched'
  BY <1>1, <1>2, <1>4 DEF CardInv, Dispatched, DispatchTold, Received, onTaskMessage
<1>13. Gone'
  BY <1>2, <1>4 DEF CardInv, Gone, EndTold, Asked, Received, onTaskMessage, EndTypes
<1> QED
  BY <1>6, <1>7, <1>8, <1>9, <1>10, <1>11, <1>12, <1>13, FlightKept DEF CardInv

LEMMA EndHeardKept ==
    ASSUME CardInv, NEW m, Received(m), mounted, handleTaskEnd(m)
    PROVE  CardInv'
<1> DEFINE t == m.task
<1>1. t \in Task /\ m.type \in EndTypes /\ tasks[t].status = "ended"
  BY DEF CardInv, Ends, Received, Message, handleTaskEnd, EndTypes
<1>2. UNCHANGED <<tasks, missed, mounted, requests, seenSeqs>> /\ cards' = [cards EXCEPT ![t] = NoCard]
  BY DEF Received, handleTaskEnd
<1>3. raced \subseteq raced' /\ (Asked(t) => t \in raced')
  BY DEF handleTaskEnd, Asked
<1>4. /\ cards \in [Task -> Card] /\ NoCard \in Card /\ ~NoCard.shown /\ ~NoCard.loaded
      /\ \A n \in Seq1 : NoCard.items[n] = 0
  BY DEF CardInv, Typed, CardsTyped, NoCard, Card
<1>5. cards' \in [Task -> Card] /\ cards'[t] = NoCard /\ \A u \in Task \ {t} : cards'[u] = cards[u]
  BY <1>1, <1>2, <1>4
<1>6. ASSUME NEW u \in Task \ {t}, NEW n \in Seq1, Complete(u, n) PROVE Complete(u, n)'
  BY <1>2, <1>5, <1>6 DEF Complete, Told, Received
<1> HIDE DEF t
<1>7. Typed'
  BY <1>2, <1>4, <1>5, FlightKept DEF CardInv, Typed, CardsTyped, Received
<1>8. Sayings'
  BY <1>2, FlightKept DEF CardInv, Sayings
<1>9. Once'
  BY <1>2, <1>4, <1>5 DEF CardInv, Once
<1>10. Loading'
  BY <1>2, <1>3, <1>5, <1>6 DEF CardInv, Loading, Typed, CardsTyped, Request, Asked
<1>11. Loaded'
  BY <1>2, <1>3, <1>4, <1>5, <1>6 DEF CardInv, Loaded
<1>12. Unmounted'
  BY <1>2 DEF Unmounted
<1>13. Dispatched'
  BY <1>1, <1>2, <1>5 DEF CardInv, Dispatched, DispatchTold, Received, EndTypes
<1>14. Gone'
  <2>1. ASSUME NEW u \in Task, (tasks[u].status = "ended" /\ (cards[u].shown \/ Asked(u)))'
        PROVE  u \in raced' \/ EndTold(u)'
    <3>1. CASE u = t
      BY <1>2, <1>3, <1>4, <1>5, <2>1, <3>1 DEF Asked
    <3>2. CASE u # t
      BY <1>2, <1>3, <1>5, <2>1, <3>2 DEF CardInv, Gone, EndTold, Asked, Received, t
    <3> QED
      BY <3>1, <3>2
  <2> QED
    BY <2>1 DEF Gone
<1> QED
  BY <1>7, <1>8, <1>9, <1>10, <1>11, <1>12, <1>13, <1>14, FlightKept DEF CardInv

LEMMA DispatchHeardKept ==
    ASSUME CardInv, NEW m, Received(m), mounted, onTaskDispatch(m)
    PROVE  CardInv'
<1> DEFINE r == ActiveTasks(m.task)
<1>1. /\ m.task \in Task /\ r \in Request
      /\ r.kind = "tasks" /\ ~r.read /\ r.tasks = {}
  BY DEF Received, Message, ActiveTasks, Request
<1>2. /\ UNCHANGED <<tasks, missed, mounted, cards, seenSeqs, raced>> /\ requests' = requests \cup {r}
      /\ m.type = "task:dispatch"
  BY DEF Received, onTaskDispatch
<1>3. \A u \in Task, n \in Seq1 : Complete(u, n) => Complete(u, n)'
  BY <1>2 DEF Complete, Told, Received
<1> HIDE DEF r
<1>4. Typed'
  BY <1>1, <1>2, FlightKept DEF CardInv, Typed, CardsTyped, Received
<1>5. Sayings'
  BY <1>1, <1>2, FlightKept DEF CardInv, Sayings
<1>6. Once' /\ Unmounted'
  BY <1>2 DEF CardInv, Once, Unmounted
<1>7. Loading'
  BY <1>1, <1>2, <1>3 DEF CardInv, Loading, Typed, CardsTyped, Request
<1>8. Loaded'
  BY <1>2, <1>3 DEF CardInv, Loaded
<1>9. Dispatched'
  BY <1>1, <1>2 DEF CardInv, Dispatched, DispatchTold, Received
<1>10. Gone'
  BY <1>1, <1>2 DEF CardInv, Gone, EndTold, Asked, Received, EndTypes
<1> QED
  BY <1>4, <1>5, <1>6, <1>7, <1>8, <1>9, <1>10, FlightKept DEF CardInv

LEMMA ReceiveKept == ASSUME CardInv, ReceiveOnIssue PROVE CardInv'
<1> DEFINE m == Head(wire)
<1>1. Received(m) /\ (~mounted => UNCHANGED <<issueVars, raced>>)
  BY ReceiveFlight DEF CardInv, Typed, ReceiveOnIssue, Received, issueVars
<1>2. mounted => onTaskMessage(m) \/ handleTaskEnd(m) \/ onTaskDispatch(m)
  BY DEF ReceiveOnIssue
<1> HIDE DEF m
<1> QED
  BY <1>1, <1>2, UnheardKept, MessageKept, EndHeardKept, DispatchHeardKept

-----------------------------------------------------------------------------
(* Requests *)

\* The steps on requests leave the server, the wire and the raced tasks alone.
Requesting == UNCHANGED <<tasks, wire, raced>> /\ (missed' = missed \/ missed')

LEMMA ServerKept ==
    ASSUME CardInv, Requesting
    PROVE  /\ TasksTyped' /\ WireTyped' /\ Ends' /\ Flight' = Flight
           /\ \A x \in Flight' : x.type = "task:message" => x.seq >= 1 /\ x.seq <= tasks'[x.task].said
<1>1. Flight' = Flight /\ UNCHANGED <<tasks, wire>>
  BY SameFlight DEF Requesting
<1>2. TasksTyped' /\ WireTyped' /\ Ends'
  BY <1>1 DEF CardInv, Typed, TasksTyped, WireTyped, Ends
<1> QED
  BY <1>1, <1>2 DEF CardInv, Sayings

LEMMA MountKept == ASSUME CardInv, MountLiveCard PROVE CardInv'
<1> DEFINE r == ActiveTasks(None)
<1>1. Requesting /\ UNCHANGED <<tasks, cards, seenSeqs, raced>> /\ requests' = {r} /\ requests = {} /\ mounted'
  BY DEF MountLiveCard, events, Requesting, CardInv, Unmounted
<1>2. r \in Request /\ r.kind = "tasks" /\ ~r.read /\ r.tasks = {}
  BY DEF ActiveTasks, Request
<1> HIDE DEF r
<1>3. \A u \in Task, n \in Seq1 : Complete(u, n) => Complete(u, n)'
  BY <1>1, ServerKept DEF Complete, Told
<1>4. Typed'
  BY <1>1, <1>2, ServerKept DEF CardInv, Typed, CardsTyped
<1>5. Sayings'
  BY <1>1, <1>2, ServerKept DEF CardInv, Sayings
<1>6. Once' /\ Unmounted' /\ Loading' /\ Dispatched'
  BY <1>1, <1>2 DEF CardInv, Once, Unmounted, Loading, Dispatched
<1>7. Loaded'
  BY <1>1, <1>3 DEF CardInv, Loaded
<1>8. Gone'
  BY <1>1, <1>2, ServerKept DEF CardInv, Gone, Asked, EndTold
<1> QED
  BY <1>1, <1>4, <1>5, <1>6, <1>7, <1>8, ServerKept DEF CardInv

\* An answer of messages has all that the task has said so far, and an answer
\* of tasks has all that are underway.
LEMMA ReadKept == ASSUME CardInv, NEW r \in requests, ReadRequest(r) PROVE CardInv'
<1> DEFINE underway == {t \in Task : tasks[t].status = "underway"}
           a == [r EXCEPT !.read = TRUE,
                          !.tasks = IF r.kind = "tasks" THEN underway ELSE {},
                          !.said = IF r.kind = "messages" THEN tasks[r.for].said ELSE 0]
<1>1. /\ Requesting /\ UNCHANGED <<tasks, mounted, missed, cards, seenSeqs, raced>>
      /\ requests' = (requests \ {r}) \cup {a}
  BY DEF ReadRequest, events, Requesting
<1>2. r \in Request /\ ~r.read /\ tasks \in [Task -> Row] /\ mounted
  BY DEF CardInv, Typed, CardsTyped, TasksTyped, ReadRequest, Unmounted
<1>3. /\ a \in Request /\ a.kind = r.kind /\ a.for = r.for /\ a.read
      /\ a.kind = "messages" => a.said = tasks[a.for].said /\ a.tasks = {}
      /\ a.kind = "tasks" => a.tasks = underway
      /\ a.kind \in {"tasks", "messages"}
  BY <1>2 DEF Request, Row
<1>4. a.kind = "messages" => a.for \in Task /\ tasks[a.for].said \in Nat
  BY <1>2, <1>3 DEF Request, Row
<1> HIDE DEF a
<1>5. \A u \in Task, n \in Seq1 : Complete(u, n) => Complete(u, n)'
  BY <1>1, ServerKept DEF Complete, Told
<1>6. Typed'
  BY <1>1, <1>3, ServerKept DEF CardInv, Typed, CardsTyped
<1>7. Sayings'
  BY <1>1, <1>3, <1>4, ServerKept DEF CardInv, Sayings
<1>8. Once' /\ Unmounted'
  BY <1>1, <1>2 DEF CardInv, Once, Unmounted
<1>9. Loading'
  <2>1. a.kind = "messages" /\ a.for \notin raced => cards[a.for].shown
    BY <1>3 DEF CardInv, Loading
  <2>2. ASSUME NEW n \in Seq1, a.kind = "messages", n <= tasks[a.for].said PROVE n <= a.said
    BY <1>3, <2>2
  <2>3. ASSUME NEW q \in requests, q.kind = "messages", q.for \notin raced
        PROVE  /\ cards[q.for].shown
               /\ q.read => \A n \in Seq1 : n <= tasks[q.for].said => n <= q.said \/ Complete(q.for, n)'
    <3>1. q.for \in Task
      BY <2>3 DEF CardInv, Typed, CardsTyped, Request
    <3> QED
      BY <1>5, <2>3, <3>1 DEF CardInv, Loading
  <2> QED
    BY <1>1, <2>1, <2>2, <2>3 DEF Loading
<1>10. Loaded'
  BY <1>1, <1>5 DEF CardInv, Loaded
<1>11. Dispatched'
  BY <1>1, <1>3, ServerKept DEF CardInv, Dispatched, DispatchTold
<1>12. Gone'
  <2>1. ASSUME NEW t \in Task, tasks[t].status = "ended", Asked(t)' PROVE Asked(t)
    BY <1>1, <1>3, <2>1 DEF Asked
  <2> QED
    BY <1>1, <2>1, ServerKept DEF CardInv, Gone, EndTold
<1> QED
  BY <1>1, <1>6, <1>7, <1>8, <1>9, <1>10, <1>11, <1>12, ServerKept DEF CardInv

LEMMA TasksAnsweredKept == ASSUME CardInv, NEW r \in requests, TasksAnswered(r) PROVE CardInv'
<1> DEFINE loads == IF r.for = None THEN {Messages(t) : t \in r.tasks} ELSE {}
<1>1. /\ Requesting /\ UNCHANGED <<tasks, mounted, missed, seenSeqs, raced>>
      /\ requests' = (requests \ {r}) \cup loads /\ r.kind = "tasks" /\ r.read
      /\ cards' = [t \in Task |-> IF t \in r.tasks /\ ~cards[t].shown THEN EmptyCard ELSE cards[t]]
  BY DEF TasksAnswered, ShowCards, events, Requesting
<1>2. r \in Request /\ r.tasks \subseteq Task /\ mounted /\ cards \in [Task -> Card]
  BY DEF CardInv, Typed, CardsTyped, Request, Unmounted
<1>3. \A q \in loads : /\ q \in Request /\ q.kind = "messages" /\ ~q.read /\ q.tasks = {}
                       /\ q.for \in r.tasks /\ q.said = 0
  <2>1. ASSUME NEW t \in r.tasks
        PROVE  LET q == Messages(t)
               IN  /\ q \in Request /\ q.kind = "messages" /\ ~q.read /\ q.tasks = {}
                   /\ q.for \in r.tasks /\ q.said = 0
    BY <1>2 DEF Messages, Request
  <2> QED
    BY <2>1
<1>4. EmptyCard \in Card /\ EmptyCard.shown /\ ~EmptyCard.loaded /\ \A n \in Seq1 : EmptyCard.items[n] = 0
  BY DEF EmptyCard, NoCard, Card
<1> HIDE DEF loads
<1>5. \A t \in Task : \/ cards'[t] = cards[t] /\ (t \in r.tasks => cards[t].shown)
                      \/ cards'[t] = EmptyCard /\ t \in r.tasks /\ ~cards[t].shown
  BY <1>1
<1>6. \A u \in Task, n \in Seq1 : cards[u].shown /\ Complete(u, n) => Complete(u, n)'
  BY <1>1, <1>5, ServerKept DEF Complete, Told
<1>7. Typed'
  <2>1. cards' \in [Task -> Card]
    BY <1>1, <1>2, <1>4
  <2>2. \A t \in Task : cards'[t].loaded => cards'[t].shown
    BY <1>4, <1>5 DEF CardInv, Typed, CardsTyped
  <2> QED
    BY <1>1, <1>3, <2>1, <2>2, ServerKept DEF CardInv, Typed, CardsTyped
<1>8. Sayings'
  <2>1. \A q \in loads : q.said <= tasks[q.for].said
    BY <1>2, <1>3 DEF CardInv, Typed, TasksTyped, Row
  <2> QED
    BY <1>1, <2>1, ServerKept DEF CardInv, Sayings
<1>9. Once' /\ Unmounted'
  BY <1>1, <1>2, <1>4, <1>5 DEF CardInv, Once, Unmounted
<1>10. Loading'
  <2>1. \A q \in loads : cards'[q.for].shown /\ ~q.read
    BY <1>2, <1>3, <1>4, <1>5
  <2>2. ASSUME NEW q \in requests, q.kind = "messages", q.for \notin raced
        PROVE  /\ cards'[q.for].shown
               /\ q.read => \A n \in Seq1 : n <= tasks[q.for].said => n <= q.said \/ Complete(q.for, n)'
    <3>1. q.for \in Task
      BY <2>2 DEF CardInv, Typed, CardsTyped, Request
    <3> QED
      BY <1>4, <1>5, <1>6, <2>2, <3>1 DEF CardInv, Loading
  <2> QED
    BY <1>1, <2>1, <2>2 DEF Loading
<1>11. Loaded'
  BY <1>1, <1>4, <1>5, <1>6 DEF CardInv, Loaded, Typed, CardsTyped
<1>12. Dispatched'
  BY <1>1, <1>4, <1>5, ServerKept DEF CardInv, Dispatched, DispatchTold
<1>13. Gone'
  <2>1. ASSUME NEW t \in Task, (cards[t].shown \/ Asked(t))' PROVE cards[t].shown \/ Asked(t)
    BY <1>1, <1>3, <1>5, <2>1 DEF Asked
  <2> QED
    BY <1>1, <2>1, ServerKept DEF CardInv, Gone, EndTold
<1> QED
  BY <1>1, <1>7, <1>8, <1>9, <1>10, <1>11, <1>12, <1>13, ServerKept DEF CardInv

\* What was loaded is on the card and counts as seen, what an event has put
\* there stays, and the rest is still on its way.
LEMMA MessagesAnsweredKept == ASSUME CardInv, NEW r \in requests, MessagesAnswered(r) PROVE CardInv'
<1> DEFINE t == r.for
           items == [n \in Seq1 |-> IF n <= r.said THEN 1 ELSE cards[t].items[n]]
           card == [shown |-> TRUE, loaded |-> TRUE, items |-> items]
<1>1. /\ Requesting /\ UNCHANGED <<tasks, mounted, missed, raced>>
      /\ requests' = requests \ {r} /\ r.kind = "messages" /\ r.read
      /\ seenSeqs' = seenSeqs \cup {<<t, n>> : n \in 1 .. r.said}
      /\ cards' = [cards EXCEPT ![t] = card]
  BY DEF MessagesAnswered, events, Requesting
<1>2. t \in Task /\ r.said \in Nat /\ r.tasks = {} /\ mounted /\ cards \in [Task -> Card]
      /\ r.said <= tasks[t].said /\ tasks[t].said \in Nat
  BY <1>1 DEF CardInv, Typed, CardsTyped, TasksTyped, Row, Request, Unmounted, Sayings
<1>3. card \in Card /\ card.shown /\ card.loaded /\ card.items = items
      /\ \A n \in Seq1 : items[n] = IF n <= r.said THEN 1 ELSE cards[t].items[n]
  BY <1>2 DEF Card
<1>4. Seq1 \subseteq Nat /\ \A n \in Seq1 : n >= 1
  BY DEF Seq1
<1> HIDE DEF t, items, card
<1>5. cards' \in [Task -> Card] /\ cards'[t] = card /\ \A u \in Task \ {t} : cards'[u] = cards[u]
  BY <1>1, <1>2, <1>3
<1>6. \A u \in Task, n \in Seq1 : (<<u, n>> \in seenSeqs' <=> <<u, n>> \in seenSeqs \/ (u = t /\ n <= r.said))
  BY <1>1, <1>2, <1>4
<1>7. ASSUME NEW u \in Task, NEW n \in Seq1, Complete(u, n) \/ (u = t /\ n <= r.said) PROVE Complete(u, n)'
  <2>1. CASE u = t /\ n <= r.said
    BY <1>3, <1>5, <2>1 DEF Complete
  <2>2. CASE ~(u = t /\ n <= r.said) /\ cards[u].items[n] = 1
    BY <1>3, <1>5, <2>2 DEF Complete
  <2>3. CASE ~(u = t /\ n <= r.said) /\ <<u, n>> \notin seenSeqs /\ Told(u, n)
    BY <1>1, <1>6, <2>3, ServerKept DEF Complete, Told
  <2> QED
    BY <1>7, <2>1, <2>2, <2>3 DEF Complete
<1>8. Typed'
  <2>1. \A u \in Task : cards'[u].loaded => cards'[u].shown
    BY <1>3, <1>5 DEF CardInv, Typed, CardsTyped
  <2>2. seenSeqs' \subseteq Task \X Nat
    BY <1>1, <1>2 DEF CardInv, Typed, CardsTyped
  <2> QED
    BY <1>1, <1>5, <2>1, <2>2, ServerKept DEF CardInv, Typed, CardsTyped
<1>9. Sayings'
  <2>1. ASSUME NEW u \in Task, NEW n \in Nat, <<u, n>> \in seenSeqs' PROVE n <= tasks[u].said
    <3>1. CASE <<u, n>> \in seenSeqs
      BY <3>1 DEF CardInv, Sayings
    <3>2. CASE u = t /\ n <= r.said
      BY <1>2, <3>2
    <3> QED
      BY <1>1, <1>2, <2>1, <3>1, <3>2
  <2> QED
    BY <1>1, <2>1, ServerKept DEF CardInv, Sayings
<1>10. Once'
  BY <1>3, <1>5, <1>6 DEF CardInv, Once
<1>11. Unmounted'
  BY <1>1, <1>2 DEF Unmounted
<1>12. Loading'
  <2>1. ASSUME NEW q \in requests, q.kind = "messages", q.for \notin raced
        PROVE  /\ cards'[q.for].shown
               /\ q.read => \A n \in Seq1 : n <= tasks[q.for].said => n <= q.said \/ Complete(q.for, n)'
    <3>1. q.for \in Task
      BY <2>1 DEF CardInv, Typed, CardsTyped, Request
    <3> QED
      BY <1>3, <1>5, <1>7, <2>1, <3>1 DEF CardInv, Loading
  <2> QED
    BY <1>1, <2>1 DEF Loading
<1>13. Loaded'
  <2>1. ASSUME NEW u \in Task, (cards[u].loaded)', u \notin raced, NEW n \in Seq1, n <= tasks[u].said
        PROVE  Complete(u, n) \/ (u = t /\ n <= r.said)
    BY <1>1, <1>5, <2>1 DEF CardInv, Loading, Loaded, t
  <2> QED
    BY <1>1, <1>7, <2>1 DEF Loaded
<1>14. Dispatched'
  BY <1>1, <1>3, <1>5, ServerKept DEF CardInv, Dispatched, DispatchTold
<1>15. Gone'
  <2>1. ASSUME NEW u \in Task, (cards[u].shown \/ Asked(u))' PROVE cards[u].shown \/ Asked(u)
    BY <1>1, <1>5, <2>1 DEF Asked, t
  <2> QED
    BY <1>1, <2>1, ServerKept DEF CardInv, Gone, EndTold
<1> QED
  BY <1>1, <1>8, <1>9, <1>10, <1>11, <1>12, <1>13, <1>14, <1>15, ServerKept DEF CardInv

LEMMA FailsKept == ASSUME CardInv, NEW r \in requests, RequestFails(r) PROVE CardInv'
<1>1. /\ Requesting /\ UNCHANGED <<tasks, mounted, cards, seenSeqs, raced>> /\ missed'
      /\ requests' = requests \ {r}
  BY DEF RequestFails, FailOnce, Requesting
<1>2. \A u \in Task, n \in Seq1 : Complete(u, n) => Complete(u, n)'
  BY <1>1, ServerKept DEF Complete, Told
<1>3. Typed' /\ Sayings'
  BY <1>1, ServerKept DEF CardInv, Typed, CardsTyped, Sayings
<1>4. Once' /\ Unmounted' /\ Dispatched'
  BY <1>1 DEF CardInv, Once, Unmounted, Dispatched
<1>5. Loading'
  BY <1>1, <1>2 DEF CardInv, Loading, Typed, CardsTyped, Request
<1>6. Loaded'
  BY <1>1, <1>2 DEF CardInv, Loaded
<1>7. Gone'
  BY <1>1, ServerKept DEF CardInv, Gone, EndTold, Asked
<1> QED
  BY <1>1, <1>3, <1>4, <1>5, <1>6, <1>7, ServerKept DEF CardInv

LEMMA StutterKept == ASSUME CardInv, UNCHANGED <<events, issueVars>> PROVE CardInv'
<1>1. UNCHANGED <<tasks, wire, missed, raced, mounted, cards, seenSeqs, requests>>
  BY DEF events, issueVars
<1>2. Flight' = Flight
  BY <1>1, SameFlight
<1> QED
  BY <1>1, <1>2 DEF CardInv, Typed, TasksTyped, WireTyped, CardsTyped, Sayings, Once, Loading, Loaded,
     Unmounted, Ends, Dispatched, Gone, Complete, Told, EndTold, DispatchTold, Asked

-----------------------------------------------------------------------------
(* The page *)

LEMMA InitInd == Init => IndInv
<1> SUFFICES ASSUME Init PROVE IndInv
  OBVIOUS
<1>1. /\ tasks = [t \in Task |-> Absent] /\ wire = <<>> /\ missed = FALSE /\ raced = {}
      /\ mounted = FALSE /\ cards = [t \in Task |-> NoCard] /\ seenSeqs = {} /\ requests = {}
      /\ page \in {"issue", "chat"}
  BY DEF Init, EventsInit, IssueInit
<1>2. Absent \in Row /\ Absent.status = "absent" /\ Absent.said = 0
  BY DEF Absent, Row
<1>3. /\ NoCard \in Card /\ ~NoCard.shown /\ ~NoCard.loaded
      /\ \A n \in Seq1 : NoCard.items[n] = 0
  BY DEF NoCard, Card
<1>4. Flight = {} /\ WireTyped
  BY <1>1 DEF Flight, WireTyped
<1>5. Typed
  BY <1>1, <1>2, <1>3, <1>4 DEF Typed, TasksTyped, CardsTyped
<1>6. Sayings /\ Once /\ Loading /\ Loaded
  BY <1>1, <1>3, <1>4 DEF Sayings, Once, Loading, Loaded
<1>7. Unmounted /\ Ends /\ Dispatched /\ Gone
  BY <1>1, <1>3, <1>4 DEF Unmounted, Ends, Dispatched, Gone, Asked
<1> QED
  BY <1>1, <1>5, <1>6, <1>7 DEF CardInv, IndInv

LEMMA NextInd == IndInv /\ [Next]_vars => IndInv'
<1> SUFFICES ASSUME IndInv, [Next]_vars PROVE IndInv'
  OBVIOUS
<1>1. page' = page
  BY DEF Next, vars
<1>2. CASE page = "chat"
  <2>1. UNCHANGED issueVars
    BY <1>2 DEF Next, vars
  <2> QED
    BY <1>1, <1>2, <2>1 DEF IndInv, issueVars
<1>3. CASE page = "issue"
  <2>1. CardInv
    BY <1>3 DEF IndInv
  <2>2. ASSUME EventStep, UNCHANGED issueVars PROVE CardInv'
    BY <1>3, <2>1, <2>2, DispatchKept, ReportKept, EndKept DEF EventStep
  <2>3. ASSUME IssueStep PROVE CardInv'
    BY <2>1, <2>3, MountKept, ReceiveKept, ReadKept, TasksAnsweredKept, MessagesAnsweredKept, FailsKept
       DEF IssueStep
  <2>4. ASSUME UNCHANGED vars PROVE CardInv'
    BY <2>1, <2>4, StutterKept DEF vars
  <2>5. CardInv'
    BY <1>3, <2>2, <2>3, <2>4 DEF Next
  <2> QED
    BY <1>1, <1>3, <2>5 DEF IndInv
<1> QED
  BY <1>2, <1>3 DEF IndInv

LEMMA Quiet == ASSUME wire = <<>> PROVE Flight = {}
BY DEF Flight

LEMMA IndItems == IndInv => ItemsAreMessages
<1> SUFFICES ASSUME IndInv, NEW t \in Task, cards[t].shown, NEW n \in Seq1
             PROVE  /\ cards[t].items[n] <= 1
                    /\ IssueQuiet /\ ~missed /\ cards[t].loaded /\ t \notin raced =>
                           (cards[t].items[n] = 1 <=> n <= tasks[t].said)
  BY DEF ItemsAreMessages
<1>1. CardInv
  <2>1. ~NoCard.shown
    BY DEF NoCard
  <2>2. page # "chat"
    BY <2>1 DEF IndInv
  <2> QED
    BY <2>2 DEF IndInv
<1>2. cards[t].items \in [Seq1 -> {0, 1}]
  BY <1>1 DEF CardInv, Typed, CardsTyped, Card
<1>3. cards[t].items[n] \in {0, 1}
  BY <1>2
<1>4. n \in Nat
  BY DEF Seq1
<1>5. cards[t].items[n] = 1 => n <= tasks[t].said
  BY <1>1, <1>4 DEF CardInv, Once, Sayings
<1>6. wire = <<>> /\ cards[t].loaded /\ t \notin raced /\ n <= tasks[t].said => cards[t].items[n] = 1
  BY <1>1, Quiet DEF CardInv, Loaded, Complete, Told
<1> QED
  BY <1>3, <1>5, <1>6 DEF IssueQuiet

LEMMA IndCards == IndInv => CardsFollowTasks
<1> SUFFICES ASSUME IndInv, mounted, wire = <<>>, requests = {}, ~missed, NEW t \in Task
             PROVE  /\ tasks[t].status = "underway" => cards[t].shown
                    /\ tasks[t].status = "ended" /\ cards[t].shown => t \in raced
  BY DEF CardsFollowTasks, IssueQuiet
<1>1. CardInv
  BY DEF IndInv
<1>2. tasks[t].status = "underway" => cards[t].shown
  BY <1>1, Quiet DEF CardInv, Dispatched, DispatchTold
<1>3. tasks[t].status = "ended" /\ cards[t].shown => t \in raced
  BY <1>1, Quiet DEF CardInv, Gone, EndTold
<1> QED
  BY <1>2, <1>3

\* However the events and the answers come in, a message is once on its
\* task's card, and a card that was loaded gets them all: what
\* agent-live-card.tsx keeps seenSeqs and loadedSeqs for.
THEOREM MessagesOnce == Spec => []ItemsAreMessages
<1>1. Init => IndInv
  BY InitInd
<1>2. IndInv /\ [Next]_vars => IndInv'
  BY NextInd
<1>3. IndInv => ItemsAreMessages
  BY IndItems
<1> QED
  BY <1>1, <1>2, <1>3, PTL DEF Spec

\* Once everything is delivered and answered, the cards are those of the tasks
\* that are underway, but for a task that ended while an answer about it was
\* on its way.
THEOREM CardsRight == Spec => []CardsFollowTasks
<1>1. Init => IndInv
  BY InitInd
<1>2. IndInv /\ [Next]_vars => IndInv'
  BY NextInd
<1>3. IndInv => CardsFollowTasks
  BY IndCards
<1> QED
  BY <1>1, <1>2, <1>3, PTL DEF Spec

=============================================================================
