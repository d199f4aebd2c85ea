--------------------------- MODULE McpStreamProofs ---------------------------
(***************************************************************************)
(* What the streams guarantee for every number of workers and requests,    *)
(* whatever ids clients use.  The key is that a request is always at       *)
(* exactly one place, and that the sequence numbers given at dispatch      *)
(* follow the order in which the requests were read.                       *)
(***************************************************************************)
EXTENDS McpStream, FunctionTheorems, FiniteSetTheorems, SequenceTheorems, TLAPS

Records == [id : Ids, kind : Kinds]
Events == [type : {"Request"}, req : Requests]
          \cup [type : {"Cancel"}, id : Ids]
          \cup [type : {"Parse", "Eof", "Fatal"}]
Jobs == [seq : Nat, req : Requests]

\* The types, with bounds that do not change.
Typed ==
    /\ sent \in Seq(Records) /\ Len(sent) <= MaxRequests
    /\ notes \in 0 .. MaxNotes
    /\ reading \in BOOLEAN
    /\ events \in Seq(Events)
    /\ loaded \in BOOLEAN
    /\ current \in Nat
    /\ registry \in [Ids -> Nat]
    /\ cancelled \subseteq Nat
    /\ jobs \in Seq(Jobs) /\ Len(jobs) <= MaxInFlight
    /\ wpc \in [Workers -> {"idle", "check", "run", "drop", "respond",
                            "ended"}]
    /\ job \in [Workers -> Jobs \cup {NoJob}]
    /\ results \subseteq Jobs
    /\ completed \subseteq Jobs
    /\ order \in Seq(Nat)
    /\ pending \in Nat
    /\ nextSeq \in Nat
    /\ eof \in BOOLEAN
    /\ mpc \in {"collect", "deliver", "recv", "send", "left", "returned"}
    /\ out \in Seq(Nat)

\* Who holds what: the main thread a request to send, a worker a job.
Control ==
    /\ current # 0 <=> mpc = "send"
    /\ \A w \in Workers : wpc[w] \in {"idle", "ended"} <=> job[w] = NoJob
    /\ \A w \in Workers : wpc[w] = "run" => sent[job[w].req].kind = "call"
    /\ pending = Len(order)

\* No response is collected twice.
Apart ==
    /\ IsFiniteSet(results) /\ IsFiniteSet(completed)
    /\ results \cap completed = {}

\* The jobs that were sent and whose responses are not written.
Items == {jobs[i] : i \in DOMAIN jobs}
         \cup ({job[w] : w \in Workers} \ {NoJob})
         \cup results \cup completed

\* Only requests that were read are anywhere.
WereRead ==
    /\ \A i \in DOMAIN events :
         events[i].type = "Request" => events[i].req <= Len(sent)
    /\ current <= Len(sent)
    /\ \A id \in Ids : registry[id] <= Len(sent)
    /\ \A t \in cancelled : t \in 1 .. Len(sent)
    /\ \A a \in Items : a.req <= Len(sent)
    /\ \A i \in DOMAIN out : out[i] <= Len(sent)

\* The places of a request.
EventsOf(r) == {i \in DOMAIN events : events[i].type = "Request"
                                      /\ events[i].req = r}
JobsOf(r) == {i \in DOMAIN jobs : jobs[i].req = r}
WorkersOf(r) == {w \in Workers : job[w].req = r}
ResponsesOf(r) == {c \in results \cup completed : c.req = r}
AnswersOf(r) == {i \in DOMAIN out : out[i] = r}

One(b) == IF b THEN 1 ELSE 0
Places(r) ==
    Cardinality(EventsOf(r)) + One(current = r) + Cardinality(JobsOf(r))
    + Cardinality(WorkersOf(r)) + Cardinality(ResponsesOf(r))
    + Cardinality(AnswersOf(r))

\* Requests wait in the order they were read, all read after those that were
\* taken out of the channel; each will need at most one sequence number.
RequestEvents == {i \in DOMAIN events : events[i].type = "Request"}
Waiting ==
    /\ \A i, j \in RequestEvents : i < j => events[i].req < events[j].req
    /\ \A i \in RequestEvents : current < events[i].req
    /\ \A i \in RequestEvents, a \in Items : a.req < events[i].req
    /\ nextSeq + (IF current = 0 THEN 0 ELSE 1) + Cardinality(RequestEvents)
         <= Len(sent)

\* Sequence numbers follow requests, and each is due.
Numbered ==
    /\ \A a, b \in Items : /\ a.seq < b.seq => a.req < b.req
                           /\ a.seq = b.seq => a.req = b.req
    /\ \A a \in Items : /\ a.seq < nextSeq
                        /\ current # 0 => a.req < current
                        /\ \E i \in DOMAIN order : order[i] = a.seq
    /\ \A i, j \in DOMAIN order : i < j => order[i] < order[j]
    /\ \A i \in DOMAIN order : order[i] < nextSeq

\* What is in the registry belongs to a tools/call that is still to pass its
\* guard.
HasGuard(id) ==
    \/ current # 0 /\ IdOf(current) = id /\ IsToolCall(current)
    \/ \E i \in DOMAIN jobs : IdOf(jobs[i].req) = id /\ IsToolCall(jobs[i].req)
    \/ \E w \in Workers : /\ wpc[w] \in {"check", "run", "drop"}
                          /\ IdOf(job[w].req) = id
Guarded == \A id \in Ids : registry[id] # 0 => HasGuard(id)

IInv ==
    /\ Typed
    /\ Control
    /\ WereRead
    /\ Apart
    /\ OneResponseEach
    /\ Waiting
    /\ Numbered
    /\ Guarded

\* Of two requests with the same id the earlier is answered.
OpenIdsDiffer ==
    \A q, r \in DOMAIN sent : q < r /\ IdOf(q) = IdOf(r) => Answered(q)

\* A call can be reached while it is sent, queued, or its tool not ended.
Reachable(r) == Running(r) \/ (current = r /\ sent[r].kind = "call")
AllReached == \A r \in DOMAIN sent : Reachable(r) => registry[IdOf(r)] = r

ReachInv == OpenIdsDiffer /\ AllReached

-----------------------------------------------------------------------------
LEMMA EventsTyped == ASSUME Typed, events # <<>>
                     PROVE  Head(events) \in Events /\ Tail(events) \in Seq(Events)
BY DEF Typed

LEMMA QuietEvent ==
    ASSUME (\E id \in Ids : ReadCancel(id)) \/ ReadMalformed
           \/ \E type \in {"Eof", "Fatal"} : ReadEnd(type)
    PROVE  \E e \in Events : e.type # "Request" /\ events' = Append(events, e)
<1>1. ASSUME NEW id \in Ids, ReadCancel(id)
      PROVE  \E e \in Events : e.type # "Request" /\ events' = Append(events, e)
  <2>1. [type |-> "Cancel", id |-> id] \in Events
    BY DEF Events
  <2> QED
    BY <1>1, <2>1 DEF ReadCancel
<1>2. ASSUME NEW type \in {"Parse", "Eof", "Fatal"},
             events' = Append(events, [type |-> type])
      PROVE  \E e \in Events : e.type # "Request" /\ events' = Append(events, e)
  <2>1. [type |-> type] \in Events
    BY DEF Events
  <2> QED
    BY <1>2, <2>1
<1> QED
  BY <1>1, <1>2 DEF ReadMalformed, ReadEnd

\* The channel gains a request, gains another event, loses its first, or is
\* left alone.
LEMMA EventsStep ==
    ASSUME [Next]_vars
    PROVE  \/ \E id \in Ids, kind \in Kinds : ReadRequest(id, kind)
           \/ \E e \in Events : e.type # "Request" /\ events' = Append(events, e)
           \/ events # <<>> /\ events' = Tail(events)
           \/ events' = events
BY QuietEvent
DEF Next, Reader, Main, Collect, Deliver, Delivered, Dispatch,
    GraphUnavailable, Send, TurnDown, Cancel, Malformed, InputEnds, NoEvent,
    Return, DeliverFails, Worker, Take, Check, RunTool, DropGuard, Respond,
    EndWorker, vars, Event

LEMMA StepTyped == ASSUME Typed, Control, WereRead, [Next]_vars PROVE Typed'
<1> USE ParametersOK DEF Typed, readerVars, poolVars, orderVars
<1>1. ASSUME NEW id \in Ids, NEW kind \in Kinds, ReadRequest(id, kind)
      PROVE  Typed'
  BY <1>1 DEF ReadRequest, Records, Events, Requests
<1>2. ASSUME NEW id \in Ids, ReadCancel(id)
      PROVE  Typed'
  BY <1>2 DEF ReadCancel, Events
<1>3. CASE ReadMalformed
  BY <1>3 DEF ReadMalformed, Events
<1>4. ASSUME NEW type \in {"Eof", "Fatal"}, ReadEnd(type)
      PROVE  Typed'
  <2>1. [type |-> type] \in Events
    BY DEF Events
  <2>2. events' \in Seq(Events)
    BY <1>4, <2>1 DEF ReadEnd
  <2> QED
    BY <1>4, <2>2 DEF ReadEnd
<1>5. CASE Collect
  BY <1>5 DEF Collect
<1>6. CASE Deliver
  <2>1. Tail(order) \in Seq(Nat) /\ Len(order) \in Nat \ {0}
    BY <1>6, EmptySeq, HeadTailProperties DEF Deliver
  <2>2. pending - 1 \in Nat
    BY <2>1 DEF Control
  <2>3. PICK c \in completed : out' = Append(out, c.req) /\ completed' \subseteq completed
    BY <1>6 DEF Deliver
  <2>4. Append(out, c.req) \in Seq(Nat)
    BY <2>3 DEF Jobs, Requests
  <2> QED
    BY <1>6, <2>1, <2>2, <2>3, <2>4 DEF Deliver
<1>7. CASE Delivered \/ DeliverFails \/ NoEvent \/ Return
  BY <1>7 DEF Delivered, DeliverFails, NoEvent, Return
<1>8. CASE Dispatch
  <2> DEFINE r == Head(events).req
  <2>1. r \in Nat /\ Tail(events) \in Seq(Events)
    BY <1>8, EventsTyped DEF Dispatch, Event, Events, Requests
  <2>2. [registry EXCEPT ![IdOf(r)] = r] \in [Ids -> Nat]
    BY <2>1
  <2> QED
    BY <1>8, <2>1, <2>2 DEF Dispatch
<1>9. CASE GraphUnavailable \/ Malformed \/ InputEnds
  <2>1. events # <<>> /\ events' = Tail(events)
    BY <1>9 DEF GraphUnavailable, Malformed, InputEnds, Event
  <2>2. events' \in Seq(Events)
    BY <2>1, EventsTyped
  <2>3. \/ UNCHANGED out
        \/ out' = Append(out, 0)
        \/ Head(events).type = "Request" /\ out' = Append(out, Head(events).req)
    BY <1>9 DEF GraphUnavailable, Malformed, InputEnds, Event, WriteNow
  <2>4. Head(events).type = "Request" => Head(events).req \in Nat
    BY <2>1, EventsTyped DEF Events, Requests
  <2>5. out' \in Seq(Nat)
    <3>1. \A r \in Nat : Append(out, r) \in Seq(Nat)
      OBVIOUS
    <3> QED
      BY <2>3, <2>4, <3>1
  <2>6. UNCHANGED <<readerVars, loaded, current, registry, cancelled, jobs,
                    poolVars, results, completed, orderVars>>
    BY <1>9 DEF GraphUnavailable, Malformed, InputEnds
  <2>7. eof' \in BOOLEAN /\ mpc' = "collect"
    BY <1>9 DEF GraphUnavailable, Malformed, InputEnds
  <2> QED
    BY <2>2, <2>5, <2>6, <2>7
<1>10. CASE Send
  <2>1. [seq |-> nextSeq, req |-> current] \in Jobs
    BY <1>10 DEF Send, Jobs, Requests, Control, WereRead
  <2>2. jobs' \in Seq(Jobs) /\ Len(jobs') <= MaxInFlight
    BY <1>10, <2>1, FS_CardinalityType DEF Send, HasRoom, MaxInFlight
  <2> QED
    BY <1>10, <2>2 DEF Send
<1>11. CASE TurnDown
  <2>1. out' \in Seq(Nat) /\ registry' \in [Ids -> Nat]
    <3>1. out' = Append(out, current)
      BY <1>11 DEF TurnDown, WriteNow
    <3>2. registry' = [registry EXCEPT ![IdOf(current)] = 0]
      BY <1>11 DEF TurnDown, Unregister
    <3> HIDE DEF TurnDown
    <3>3. out' \in Seq(Nat)
      BY <3>1
    <3>4. registry' \in [Ids -> Nat]
      BY <3>2
    <3> QED
      BY <3>3, <3>4
  <2>2. current' = 0 /\ mpc' = "collect"
    BY <1>11 DEF TurnDown
  <2>3. UNCHANGED <<readerVars, events, loaded, cancelled, jobs, poolVars,
                    results, completed, orderVars, eof>>
    BY <1>11 DEF TurnDown
  <2> QED
    BY <2>1, <2>2, <2>3
<1>12. CASE Cancel
  <2>1. events' \in Seq(Events) /\ Head(events) \in Events
    BY <1>12, EventsTyped DEF Cancel, Event
  <2>2. Head(events).id \in Ids
    BY <1>12, <2>1 DEF Cancel, Event, Events
  <2>3. cancelled' \subseteq Nat
    <3>1. registry[Head(events).id] \in Nat
      BY <2>2
    <3> QED
      BY <1>12, <3>1 DEF Cancel
  <2> QED
    BY <1>12, <2>1, <2>3 DEF Cancel
<1>13. ASSUME NEW w \in Workers, Take(w)
       PROVE  Typed'
  <2>1. Head(jobs) \in Jobs /\ Tail(jobs) \in Seq(Jobs) /\ Len(Tail(jobs)) <= Len(jobs)
    BY <1>13 DEF Take
  <2>2. job' \in [Workers -> Jobs \cup {NoJob}]
    BY <1>13, <2>1 DEF Take
  <2>3. Len(jobs') <= MaxInFlight
    BY <1>13, <2>1, FS_CardinalityType DEF Take, MaxInFlight
  <2>4. wpc' \in [Workers -> {"idle", "check", "run", "drop", "respond", "ended"}]
    BY <1>13 DEF Take
  <2> QED
    BY <1>13, <2>1, <2>2, <2>3, <2>4 DEF Take
<1>14. ASSUME NEW w \in Workers, Check(w)
       PROVE  Typed'
  <2>1. job[w].req \in Nat
    BY DEF Jobs, NoJob, Requests
  <2>2. registry' \in [Ids -> Nat]
    BY <1>14, <2>1 DEF Check
  <2>3. wpc' \in [Workers -> {"idle", "check", "run", "drop", "respond", "ended"}]
    BY <1>14 DEF Check
  <2> QED
    BY <1>14, <2>2, <2>3 DEF Check
<1>15. ASSUME NEW w \in Workers, RunTool(w) \/ DropGuard(w) \/ EndWorker(w)
       PROVE  Typed'
  <2>1. registry' \in [Ids -> Nat]
    <3>1. [registry EXCEPT ![IdOf(job[w].req)] = 0] \in [Ids -> Nat]
      OBVIOUS
    <3> QED
      BY <1>15, <3>1 DEF RunTool, DropGuard, EndWorker, Unregister
  <2>2. wpc' \in [Workers -> {"idle", "check", "run", "drop", "respond", "ended"}]
    BY <1>15 DEF RunTool, DropGuard, EndWorker
  <2>3. UNCHANGED <<readerVars, events, loaded, current, cancelled, jobs, job,
                    results, completed, orderVars, eof, mpc, out>>
    BY <1>15 DEF RunTool, DropGuard, EndWorker
  <2> QED
    BY <2>1, <2>2, <2>3
<1>16. ASSUME NEW w \in Workers, Respond(w)
       PROVE  Typed'
  BY <1>16 DEF Respond, Control
<1>17. CASE UNCHANGED vars
  BY <1>17 DEF vars
<1> QED
  BY <1>1, <1>2, <1>3, <1>4, <1>5, <1>6, <1>7, <1>8, <1>9, <1>10, <1>11,
     <1>12, <1>13, <1>14, <1>15, <1>16, <1>17 DEF Next, Reader, Main, Worker

-----------------------------------------------------------------------------
(* Counting the positions of a sequence that gains an element at its end or *)
(* loses its first.                                                         *)

LEMMA PositionsFinite ==
    ASSUME NEW n \in Nat, NEW P \in SUBSET (1 .. n)
    PROVE  IsFiniteSet(P) /\ Cardinality(P) \in Nat
<1>1. IsFiniteSet(1 .. n)
  BY FS_Interval
<1>2. IsFiniteSet(P)
  BY <1>1, FS_Subset
<1> QED
  BY <1>2, FS_CardinalityType

LEMMA CountAppended ==
    ASSUME NEW n \in Nat, NEW P \in SUBSET (1 .. n),
           NEW Q \in SUBSET (1 .. n + 1),
           \A i \in 1 .. n : i \in P <=> i \in Q
    PROVE  Cardinality(Q) = Cardinality(P) + IF n + 1 \in Q THEN 1 ELSE 0
<1>1. IsFiniteSet(P) /\ Cardinality(P) \in Nat
  BY PositionsFinite
<1>2. CASE n + 1 \in Q
  <2>1. Q = P \cup {n + 1}
    <3>1. \A i \in 1 .. n + 1 : i \in 1 .. n \/ i = n + 1
      OBVIOUS
    <3>2. \A i \in Q : i \in P \cup {n + 1}
      BY <3>1
    <3>3. \A i \in P : i \in Q
      OBVIOUS
    <3> QED
      BY <1>2, <3>2, <3>3
  <2>2. n + 1 \notin P
    OBVIOUS
  <2> QED
    BY <1>1, <1>2, <2>1, <2>2, FS_AddElement
<1>3. CASE n + 1 \notin Q
  <2>1. \A i \in Q : i \in 1 .. n
    BY <1>3
  <2>2. Q = P
    BY <2>1
  <2> QED
    BY <1>1, <1>3, <2>2
<1> QED
  BY <1>2, <1>3

LEMMA CountTaken ==
    ASSUME NEW n \in Nat \ {0}, NEW P \in SUBSET (1 .. n),
           NEW Q \in SUBSET (1 .. n - 1),
           \A i \in 1 .. n - 1 : i \in Q <=> i + 1 \in P
    PROVE  Cardinality(P) = Cardinality(Q) + IF 1 \in P THEN 1 ELSE 0
<1>1. IsFiniteSet(P) /\ Cardinality(P) \in Nat
  BY PositionsFinite
<1>2. IsFiniteSet(Q) /\ Cardinality(Q) \in Nat
  BY PositionsFinite, n - 1 \in Nat
<1> DEFINE Shift == [i \in Q |-> i + 1]
           Rest == P \ {1}
<1>3. IsFiniteSet(Rest)
      /\ Cardinality(Rest) = IF 1 \in P THEN Cardinality(P) - 1 ELSE Cardinality(P)
  BY <1>1, FS_RemoveElement
<1>4. Shift \in Bijection(Q, Rest)
  <2>1. Shift \in [Q -> Rest]
    OBVIOUS
  <2>2. \A i, j \in Q : Shift[i] = Shift[j] => i = j
    OBVIOUS
  <2>3. \A k \in Rest : \E i \in Q : Shift[i] = k
    <3> SUFFICES ASSUME NEW k \in Rest
                 PROVE  \E i \in Q : Shift[i] = k
      OBVIOUS
    <3>1. k - 1 \in 1 .. n - 1 /\ (k - 1) + 1 = k
      OBVIOUS
    <3>2. k - 1 \in Q
      BY <3>1
    <3> QED
      BY <3>1, <3>2
  <2> QED
    BY <2>1, <2>2, <2>3, Fun_IsBij
<1>5. Cardinality(Rest) = Cardinality(Q)
  BY <1>2, <1>4, FS_Bijection DEF ExistsBijection
<1> QED
  BY <1>1, <1>2, <1>3, <1>5

-----------------------------------------------------------------------------
(* How a step changes the number of places of each kind.                    *)

LEMMA PlacesDef == OneResponseEach <=> \A r \in DOMAIN sent : Places(r) = 1
BY DEF OneResponseEach, Places, One, EventsOf, JobsOf, WorkersOf, ResponsesOf,
       AnswersOf

LEMMA PlacesDefNext ==
    OneResponseEach' <=> \A r \in DOMAIN sent' : Places(r)' = 1
BY DEF OneResponseEach, Places, One, EventsOf, JobsOf, WorkersOf, ResponsesOf,
       AnswersOf

LEMMA PlacesFinite ==
    ASSUME Typed, Apart, NEW r
    PROVE  /\ IsFiniteSet(EventsOf(r)) /\ Cardinality(EventsOf(r)) \in Nat
           /\ IsFiniteSet(JobsOf(r)) /\ Cardinality(JobsOf(r)) \in Nat
           /\ IsFiniteSet(WorkersOf(r)) /\ Cardinality(WorkersOf(r)) \in Nat
           /\ IsFiniteSet(ResponsesOf(r)) /\ Cardinality(ResponsesOf(r)) \in Nat
           /\ IsFiniteSet(AnswersOf(r)) /\ Cardinality(AnswersOf(r)) \in Nat
           /\ IsFiniteSet(RequestEvents) /\ Cardinality(RequestEvents) \in Nat
<1>1. Len(events) \in Nat /\ EventsOf(r) \in SUBSET (1 .. Len(events))
      /\ RequestEvents \in SUBSET (1 .. Len(events))
  BY DEF Typed, EventsOf, RequestEvents
<1>2. Len(jobs) \in Nat /\ JobsOf(r) \in SUBSET (1 .. Len(jobs))
  BY DEF Typed, JobsOf
<1>3. Len(out) \in Nat /\ AnswersOf(r) \in SUBSET (1 .. Len(out))
  BY DEF Typed, AnswersOf
<1>4. IsFiniteSet(WorkersOf(r))
  BY ParametersOK, FS_Subset DEF WorkersOf
<1>5. IsFiniteSet(ResponsesOf(r))
  <2>1. IsFiniteSet(results \cup completed)
    BY FS_Union DEF Apart
  <2> QED
    BY <2>1, FS_Subset DEF ResponsesOf
<1>6. Cardinality(WorkersOf(r)) \in Nat /\ Cardinality(ResponsesOf(r)) \in Nat
  BY <1>4, <1>5, FS_CardinalityType
<1> QED
  BY <1>1, <1>2, <1>3, <1>4, <1>5, <1>6, PositionsFinite

PlacesCounted ==
    \A r : /\ Cardinality(EventsOf(r)) \in Nat
           /\ Cardinality(JobsOf(r)) \in Nat
           /\ Cardinality(WorkersOf(r)) \in Nat
           /\ Cardinality(ResponsesOf(r)) \in Nat
           /\ Cardinality(AnswersOf(r)) \in Nat
           /\ Cardinality(RequestEvents) \in Nat

LEMMA PlacesAreCounted == Typed /\ Apart => PlacesCounted
BY PlacesFinite DEF PlacesCounted

LEMMA PlacesAreCountedNext == Typed' /\ Apart' => PlacesCounted'
BY PlacesAreCounted, PTL

LEMMA CountedPlaces ==
    ASSUME PlacesCounted, PlacesCounted', NEW r
    PROVE  /\ Cardinality(EventsOf(r)) \in Nat /\ Cardinality(EventsOf(r)') \in Nat
           /\ Cardinality(JobsOf(r)) \in Nat /\ Cardinality(JobsOf(r)') \in Nat
           /\ Cardinality(WorkersOf(r)) \in Nat
           /\ Cardinality(WorkersOf(r)') \in Nat
           /\ Cardinality(ResponsesOf(r)) \in Nat
           /\ Cardinality(ResponsesOf(r)') \in Nat
           /\ Cardinality(AnswersOf(r)) \in Nat /\ Cardinality(AnswersOf(r)') \in Nat
BY DEF PlacesCounted

LEMMA EventAppended ==
    ASSUME Typed, NEW e \in Events, events' = Append(events, e), NEW r
    PROVE  /\ Cardinality(EventsOf(r)') = Cardinality(EventsOf(r))
                  + One(e.type = "Request" /\ e.req = r)
           /\ Cardinality(RequestEvents') = Cardinality(RequestEvents)
                  + One(e.type = "Request")
<1> DEFINE n == Len(events)
<1>1. /\ n \in Nat /\ DOMAIN events = 1 .. n /\ DOMAIN events' = 1 .. n + 1
      /\ events'[n + 1] = e
      /\ \A i \in 1 .. n : events'[i] = events[i]
  BY DEF Typed
<1>2. /\ EventsOf(r) \in SUBSET (1 .. n)
      /\ EventsOf(r)' \in SUBSET (1 .. n + 1)
      /\ \A i \in 1 .. n : i \in EventsOf(r) <=> i \in EventsOf(r)'
      /\ n + 1 \in EventsOf(r)' <=> e.type = "Request" /\ e.req = r
  BY <1>1 DEF EventsOf
<1>3. /\ RequestEvents \in SUBSET (1 .. n)
      /\ RequestEvents' \in SUBSET (1 .. n + 1)
      /\ \A i \in 1 .. n : i \in RequestEvents <=> i \in RequestEvents'
      /\ n + 1 \in RequestEvents' <=> e.type = "Request"
  BY <1>1 DEF RequestEvents
<1>4. Cardinality(EventsOf(r)') = Cardinality(EventsOf(r))
          + IF n + 1 \in EventsOf(r)' THEN 1 ELSE 0
  BY <1>1, <1>2, CountAppended
<1>5. Cardinality(RequestEvents') = Cardinality(RequestEvents)
          + IF n + 1 \in RequestEvents' THEN 1 ELSE 0
  BY <1>1, <1>3, CountAppended
<1> QED
  BY <1>2, <1>3, <1>4, <1>5 DEF One

LEMMA EventTaken ==
    ASSUME Typed, events # <<>>, events' = Tail(events), NEW r
    PROVE  /\ Cardinality(EventsOf(r)) = Cardinality(EventsOf(r)')
                  + One(Head(events).type = "Request" /\ Head(events).req = r)
           /\ Cardinality(RequestEvents) = Cardinality(RequestEvents')
                  + One(Head(events).type = "Request")
<1> DEFINE n == Len(events)
<1>1. /\ n \in Nat \ {0} /\ DOMAIN events = 1 .. n
      /\ DOMAIN events' = 1 .. n - 1
      /\ Head(events) = events[1]
      /\ \A i \in 1 .. n - 1 : events'[i] = events[i + 1]
  BY DEF Typed
<1>2. /\ EventsOf(r) \in SUBSET (1 .. n)
      /\ EventsOf(r)' \in SUBSET (1 .. n - 1)
      /\ \A i \in 1 .. n - 1 : i \in EventsOf(r)' <=> i + 1 \in EventsOf(r)
      /\ 1 \in EventsOf(r) <=> Head(events).type = "Request"
                               /\ Head(events).req = r
  BY <1>1 DEF EventsOf
<1>3. /\ RequestEvents \in SUBSET (1 .. n)
      /\ RequestEvents' \in SUBSET (1 .. n - 1)
      /\ \A i \in 1 .. n - 1 : i \in RequestEvents' <=> i + 1 \in RequestEvents
      /\ 1 \in RequestEvents <=> Head(events).type = "Request"
  BY <1>1 DEF RequestEvents
<1>4. Cardinality(EventsOf(r)) = Cardinality(EventsOf(r)')
          + IF 1 \in EventsOf(r) THEN 1 ELSE 0
  BY <1>1, <1>2, CountTaken
<1>5. Cardinality(RequestEvents) = Cardinality(RequestEvents')
          + IF 1 \in RequestEvents THEN 1 ELSE 0
  BY <1>1, <1>3, CountTaken
<1> QED
  BY <1>2, <1>3, <1>4, <1>5 DEF One

LEMMA JobAppended ==
    ASSUME Typed, NEW j \in Jobs, jobs' = Append(jobs, j), NEW r
    PROVE  Cardinality(JobsOf(r)') = Cardinality(JobsOf(r)) + One(j.req = r)
<1> DEFINE n == Len(jobs)
<1>1. /\ n \in Nat /\ DOMAIN jobs = 1 .. n /\ DOMAIN jobs' = 1 .. n + 1
      /\ jobs'[n + 1] = j
      /\ \A i \in 1 .. n : jobs'[i] = jobs[i]
  BY DEF Typed
<1>2. /\ JobsOf(r) \in SUBSET (1 .. n)
      /\ JobsOf(r)' \in SUBSET (1 .. n + 1)
      /\ \A i \in 1 .. n : i \in JobsOf(r) <=> i \in JobsOf(r)'
      /\ n + 1 \in JobsOf(r)' <=> j.req = r
  BY <1>1 DEF JobsOf
<1>3. Cardinality(JobsOf(r)') = Cardinality(JobsOf(r))
          + IF n + 1 \in JobsOf(r)' THEN 1 ELSE 0
  BY <1>1, <1>2, CountAppended
<1> QED
  BY <1>2, <1>3 DEF One

LEMMA JobTaken ==
    ASSUME Typed, jobs # <<>>, jobs' = Tail(jobs), NEW r
    PROVE  Cardinality(JobsOf(r)) = Cardinality(JobsOf(r)')
               + One(Head(jobs).req = r)
<1> DEFINE n == Len(jobs)
<1>1. /\ n \in Nat \ {0} /\ DOMAIN jobs = 1 .. n /\ DOMAIN jobs' = 1 .. n - 1
      /\ Head(jobs) = jobs[1]
      /\ \A i \in 1 .. n - 1 : jobs'[i] = jobs[i + 1]
  BY DEF Typed
<1>2. /\ JobsOf(r) \in SUBSET (1 .. n)
      /\ JobsOf(r)' \in SUBSET (1 .. n - 1)
      /\ \A i \in 1 .. n - 1 : i \in JobsOf(r)' <=> i + 1 \in JobsOf(r)
      /\ 1 \in JobsOf(r) <=> Head(jobs).req = r
  BY <1>1 DEF JobsOf
<1>3. Cardinality(JobsOf(r)) = Cardinality(JobsOf(r)')
          + IF 1 \in JobsOf(r) THEN 1 ELSE 0
  BY <1>1, <1>2, CountTaken
<1> QED
  BY <1>2, <1>3 DEF One

LEMMA AnswerAppended ==
    ASSUME Typed, NEW a \in Nat, out' = Append(out, a), NEW r
    PROVE  Cardinality(AnswersOf(r)') = Cardinality(AnswersOf(r)) + One(a = r)
<1> DEFINE n == Len(out)
<1>1. /\ n \in Nat /\ DOMAIN out = 1 .. n /\ DOMAIN out' = 1 .. n + 1
      /\ out'[n + 1] = a
      /\ \A i \in 1 .. n : out'[i] = out[i]
  BY DEF Typed
<1>2. /\ AnswersOf(r) \in SUBSET (1 .. n)
      /\ AnswersOf(r)' \in SUBSET (1 .. n + 1)
      /\ \A i \in 1 .. n : i \in AnswersOf(r) <=> i \in AnswersOf(r)'
      /\ n + 1 \in AnswersOf(r)' <=> a = r
  BY <1>1 DEF AnswersOf
<1>3. Cardinality(AnswersOf(r)') = Cardinality(AnswersOf(r))
          + IF n + 1 \in AnswersOf(r)' THEN 1 ELSE 0
  BY <1>1, <1>2, CountAppended
<1> QED
  BY <1>2, <1>3 DEF One

LEMMA WorkerGiven ==
    ASSUME Typed, Apart, NEW w \in Workers,
           \A v \in Workers : v # w => job'[v] = job[v], NEW r
    PROVE  Cardinality(WorkersOf(r)') + One(job[w].req = r)
               = Cardinality(WorkersOf(r)) + One(job'[w].req = r)
<1> DEFINE Others == WorkersOf(r) \ {w}
<1>1. IsFiniteSet(WorkersOf(r)) /\ Cardinality(WorkersOf(r)) \in Nat
  BY PlacesFinite
<1>2. IsFiniteSet(Others)
      /\ Cardinality(Others) = IF w \in WorkersOf(r)
                               THEN Cardinality(WorkersOf(r)) - 1
                               ELSE Cardinality(WorkersOf(r))
  BY <1>1, FS_RemoveElement
<1>4. WorkersOf(r)' = IF job'[w].req = r THEN Others \cup {w} ELSE Others
  BY DEF WorkersOf
<1>5. Cardinality(Others \cup {w}) = Cardinality(Others) + 1
  BY <1>2, FS_AddElement
<1>6. w \in WorkersOf(r) <=> job[w].req = r
  BY DEF WorkersOf
<1>7. Cardinality(Others) \in Nat
  BY <1>2, FS_CardinalityType
<1> QED
  BY <1>1, <1>2, <1>4, <1>5, <1>6, <1>7 DEF One

LEMMA ResponseAdded ==
    ASSUME Typed, Apart, NEW j, j \notin results \cup completed,
           results' = results \cup {j}, completed' = completed, NEW r
    PROVE  Cardinality(ResponsesOf(r)')
               = Cardinality(ResponsesOf(r)) + One(j.req = r)
<1>1. IsFiniteSet(ResponsesOf(r)) /\ Cardinality(ResponsesOf(r)) \in Nat
  BY PlacesFinite
<1>2. ResponsesOf(r)' = IF j.req = r THEN ResponsesOf(r) \cup {j}
                        ELSE ResponsesOf(r)
  <2>1. (results \cup completed)' = results \cup completed \cup {j}
    OBVIOUS
  <2> QED
    BY <2>1 DEF ResponsesOf
<1>3. j \notin ResponsesOf(r)
  BY DEF ResponsesOf
<1>4. Cardinality(ResponsesOf(r) \cup {j}) = Cardinality(ResponsesOf(r)) + 1
  BY <1>1, <1>3, FS_AddElement
<1> QED
  BY <1>1, <1>2, <1>4 DEF One

LEMMA ResponseTaken ==
    ASSUME Typed, Apart, NEW c \in completed,
           results' = results, completed' = completed \ {c}, NEW r
    PROVE  Cardinality(ResponsesOf(r))
               = Cardinality(ResponsesOf(r)') + One(c.req = r)
<1>1. IsFiniteSet(ResponsesOf(r)) /\ Cardinality(ResponsesOf(r)) \in Nat
  BY PlacesFinite
<1>2. ResponsesOf(r)' = ResponsesOf(r) \ {c}
  <2>1. (results \cup completed)' = (results \cup completed) \ {c}
    BY DEF Apart
  <2> QED
    BY <2>1 DEF ResponsesOf
<1>3. c \in ResponsesOf(r) <=> c.req = r
  BY DEF ResponsesOf
<1>4. Cardinality(ResponsesOf(r) \ {c})
          = IF c \in ResponsesOf(r) THEN Cardinality(ResponsesOf(r)) - 1
            ELSE Cardinality(ResponsesOf(r))
  BY <1>1, FS_RemoveElement
<1> QED
  BY <1>1, <1>2, <1>3, <1>4 DEF One

-----------------------------------------------------------------------------
(* A request is at one place only.                                          *)

LEMMA OnePlaceOnly ==
    ASSUME Typed, Apart, OneResponseEach, NEW r \in DOMAIN sent
    PROVE  LET E == EventsOf(r)
               J == JobsOf(r)
               W == WorkersOf(r)
               R == ResponsesOf(r)
               A == AnswersOf(r)
           IN  /\ E # {} => current # r /\ J = {} /\ W = {} /\ R = {} /\ A = {}
               /\ current = r => E = {} /\ J = {} /\ W = {} /\ R = {} /\ A = {}
               /\ J # {} => E = {} /\ current # r /\ W = {} /\ R = {} /\ A = {}
               /\ W # {} => E = {} /\ current # r /\ J = {} /\ R = {} /\ A = {}
               /\ R # {} => E = {} /\ current # r /\ J = {} /\ W = {} /\ A = {}
               /\ \A v, w \in W : v = w
               /\ \A b, c \in R : b = c
               /\ \A i, j \in J : i = j
<1> DEFINE e == Cardinality(EventsOf(r))
           j == Cardinality(JobsOf(r))
           w == Cardinality(WorkersOf(r))
           c == Cardinality(ResponsesOf(r))
           a == Cardinality(AnswersOf(r))
<1>1. /\ {e, j, w, c, a} \subseteq Nat
      /\ e + One(current = r) + j + w + c + a = 1
  BY PlacesFinite, PlacesDef DEF Places
<1>2. /\ e = 0 <=> EventsOf(r) = {}
      /\ j = 0 <=> JobsOf(r) = {}
      /\ w = 0 <=> WorkersOf(r) = {}
      /\ c = 0 <=> ResponsesOf(r) = {}
      /\ a = 0 <=> AnswersOf(r) = {}
  BY PlacesFinite, FS_EmptySet
<1>3. /\ w = 1 => \A x, y \in WorkersOf(r) : x = y
      /\ c = 1 => \A x, y \in ResponsesOf(r) : x = y
      /\ j = 1 => \A x, y \in JobsOf(r) : x = y
  <2>1. \A S : IsFiniteSet(S) /\ Cardinality(S) = 1 => \A x, y \in S : x = y
    BY FS_Singleton
  <2> QED
    BY <2>1, PlacesFinite
<1> HIDE DEF e, j, w, c, a
<1>4. /\ e # 0 => e = 1 /\ current # r /\ j = 0 /\ w = 0 /\ c = 0 /\ a = 0
      /\ current = r => e = 0 /\ j = 0 /\ w = 0 /\ c = 0 /\ a = 0
      /\ j # 0 => j = 1 /\ e = 0 /\ current # r /\ w = 0 /\ c = 0 /\ a = 0
      /\ w # 0 => w = 1 /\ e = 0 /\ current # r /\ j = 0 /\ c = 0 /\ a = 0
      /\ c # 0 => c = 1 /\ e = 0 /\ current # r /\ j = 0 /\ w = 0 /\ a = 0
  BY <1>1 DEF One
<1> QED
  BY <1>2, <1>3, <1>4

\* A response to be collected is not collected yet.
LEMMA ResponseIsNew ==
    ASSUME IInv, NEW w \in Workers, Respond(w)
    PROVE  /\ job[w] \in Jobs /\ job[w].req \in DOMAIN sent
           /\ job[w] \notin results \cup completed
<1>1. job[w] \in Jobs /\ job[w] # NoJob
  BY DEF IInv, Typed, Control, Respond
<1>2. job[w] \in Items
  BY <1>1 DEF Items
<1>3. job[w].req \in DOMAIN sent
  BY <1>1, <1>2 DEF IInv, WereRead, Jobs, Requests, Typed
<1>4. ResponsesOf(job[w].req) = {}
  <2>1. w \in WorkersOf(job[w].req)
    BY DEF WorkersOf
  <2> QED
    BY <1>3, <2>1, OnePlaceOnly DEF IInv
<1> QED
  BY <1>1, <1>3, <1>4 DEF ResponsesOf

LEMMA StepApart == ASSUME IInv, [Next]_vars PROVE Apart'
<1> USE DEF Apart
<1>1. Apart
  BY DEF IInv
<1>2. CASE Collect
  BY <1>1, <1>2, FS_Union, FS_EmptySet DEF Collect
<1>3. CASE Deliver
  BY <1>1, <1>3, FS_RemoveElement DEF Deliver
<1>4. ASSUME NEW w \in Workers, Respond(w)
      PROVE  Apart'
  BY <1>1, <1>4, ResponseIsNew, FS_AddElement DEF Respond
<1>5. CASE UNCHANGED <<results, completed>>
  BY <1>1, <1>5
<1>6. Collect \/ Deliver \/ (\E w \in Workers : Respond(w))
      \/ UNCHANGED <<results, completed>>
  BY DEF Next, Reader, ReadRequest, ReadCancel, ReadMalformed, ReadEnd, Main,
         Delivered, Dispatch, GraphUnavailable, Send, TurnDown, Cancel,
         Malformed, InputEnds, NoEvent, Return, DeliverFails, Worker, Take,
         Check, RunTool, DropGuard, EndWorker, vars
<1> QED
  BY <1>2, <1>3, <1>4, <1>5, <1>6

LEMMA PlacesFrame ==
    ASSUME NEW r
    PROVE  /\ events' = events => EventsOf(r)' = EventsOf(r)
           /\ jobs' = jobs => JobsOf(r)' = JobsOf(r)
           /\ job' = job => WorkersOf(r)' = WorkersOf(r)
           /\ (results \cup completed)' = results \cup completed
                => ResponsesOf(r)' = ResponsesOf(r)
           /\ out' = out => AnswersOf(r)' = AnswersOf(r)
BY DEF EventsOf, JobsOf, WorkersOf, ResponsesOf, AnswersOf

\* A step that reads no request leaves every request at as many places.
LEMMA PlacesKept ==
    ASSUME OneResponseEach, sent' = sent,
           \A r \in DOMAIN sent : Places(r)' = Places(r)
    PROVE  OneResponseEach'
<1>1. \A r \in DOMAIN sent : Places(r) = 1
  BY PlacesDef
<1> QED
  BY <1>1, PlacesDefNext

\* A request that was not read is nowhere.
LEMMA UnreadIsNowhere ==
    ASSUME IInv, NEW r \in Nat, r > Len(sent)
    PROVE  Places(r) = 0
<1> USE DEF IInv
<1>1. Len(sent) \in Nat
  BY DEF Typed
<1>2. \A a \in Items : a.req # r
  BY <1>1 DEF WereRead
<1>3. EventsOf(r) = {}
  BY <1>1 DEF WereRead, EventsOf, Typed, Events, Requests
<1>4. JobsOf(r) = {} /\ ResponsesOf(r) = {}
  BY <1>2 DEF JobsOf, ResponsesOf, Items
<1>5. WorkersOf(r) = {}
  BY <1>1, <1>2 DEF WorkersOf, Items, NoJob
<1>6. AnswersOf(r) = {}
  BY <1>1 DEF WereRead, AnswersOf, Typed
<1>7. current # r
  BY <1>1 DEF WereRead, Typed
<1> QED
  BY <1>3, <1>4, <1>5, <1>6, <1>7, FS_EmptySet DEF Places, One

LEMMA StepOneResponse == ASSUME IInv, [Next]_vars PROVE OneResponseEach'
<1> USE DEF readerVars, poolVars, orderVars
<1>1. Typed /\ Apart /\ OneResponseEach
  BY DEF IInv
<1>2. Typed' /\ Apart'
  BY StepTyped, StepApart DEF IInv
<1>c. PlacesCounted /\ PlacesCounted'
  BY <1>1, <1>2, PlacesAreCounted, PlacesAreCountedNext
<1>3. ASSUME NEW id \in Ids, NEW kind \in Kinds, ReadRequest(id, kind)
      PROVE  OneResponseEach'
  <2> DEFINE n == Len(sent) + 1
             e == [type |-> "Request", req |-> n]
  <2>1. /\ n \in Requests /\ DOMAIN sent = 1 .. n - 1 /\ n \in Nat
        /\ sent' = Append(sent, [id |-> id, kind |-> kind])
        /\ Len(sent') = n /\ DOMAIN sent' = 1 .. n
    BY <1>1, <1>3, ParametersOK DEF ReadRequest, Typed, Records, Requests
  <2>2. e \in Events /\ events' = Append(events, e)
    BY <1>3, <2>1 DEF ReadRequest, Events
  <2>3. UNCHANGED <<current, jobs, job, results, completed, out>>
    BY <1>3 DEF ReadRequest
  <2>f. n > Len(sent) /\ e.type = "Request" /\ e.req = n
    BY <2>1
  <2> HIDE DEF n, e
  <2>4. ASSUME NEW r \in 1 .. n
        PROVE  Places(r)' = Places(r) + One(n = r)
    <3>1. Cardinality(EventsOf(r)') = Cardinality(EventsOf(r)) + One(n = r)
      BY <1>1, <2>2, <2>f, EventAppended DEF One
    <3>2. /\ JobsOf(r)' = JobsOf(r) /\ WorkersOf(r)' = WorkersOf(r)
          /\ ResponsesOf(r)' = ResponsesOf(r) /\ AnswersOf(r)' = AnswersOf(r)
      BY <2>3, PlacesFrame
    <3>3. One(current = r)' = One(current = r) /\ One(n = r) \in Nat
      BY <2>3 DEF One
    <3> QED
      BY <1>c, CountedPlaces, <3>1, <3>2, <3>3 DEF Places, One
  <2>5. Places(n) = 0
    BY <2>1, <2>f, UnreadIsNowhere
  <2>6. \A r \in 1 .. n - 1 : Places(r) = 1
    BY <1>1, <2>1, PlacesDef
  <2>7. \A r \in DOMAIN sent' : Places(r)' = 1
    BY <2>1, <2>4, <2>5, <2>6 DEF One
  <2> QED
    BY <2>7, PlacesDefNext
<1>4. ASSUME NEW e \in Events, e.type # "Request", events' = Append(events, e),
             UNCHANGED <<sent, current, jobs, job, results, completed, out>>
      PROVE  OneResponseEach'
  <2>1. ASSUME NEW r \in DOMAIN sent
        PROVE  Places(r)' = Places(r)
    <3>1. Cardinality(EventsOf(r)') = Cardinality(EventsOf(r))
      BY <1>1, <1>2, <1>4, EventAppended, PlacesFinite DEF One
    <3> QED
      BY <1>4, <3>1, PlacesFrame DEF Places
  <2> QED
    BY <1>1, <1>4, <2>1, PlacesKept
<1>5. CASE Collect
  <2>1. (results \cup completed)' = results \cup completed
    BY <1>5 DEF Collect
  <2>2. ASSUME NEW r \in DOMAIN sent
        PROVE  Places(r)' = Places(r)
    BY <1>5, <2>1, PlacesFrame DEF Collect, Places
  <2> QED
    BY <1>1, <1>5, <2>2, PlacesKept DEF Collect
<1>6. CASE Deliver
  <2>1. PICK c \in completed : /\ completed' = completed \ {c}
                               /\ out' = Append(out, c.req)
    BY <1>6 DEF Deliver
  <2>2. c.req \in Nat
    BY <1>1 DEF Typed, Jobs, Requests
  <2>3. UNCHANGED <<sent, events, current, jobs, job, results>>
    BY <1>6 DEF Deliver
  <2>4. ASSUME NEW r \in DOMAIN sent
        PROVE  Places(r)' = Places(r)
    <3>1. Cardinality(ResponsesOf(r)) = Cardinality(ResponsesOf(r)') + One(c.req = r)
      BY <1>1, <2>1, <2>3, ResponseTaken
    <3>2. Cardinality(AnswersOf(r)') = Cardinality(AnswersOf(r)) + One(c.req = r)
      BY <1>1, <2>1, <2>2, AnswerAppended
    <3>3. /\ EventsOf(r)' = EventsOf(r) /\ JobsOf(r)' = JobsOf(r)
          /\ WorkersOf(r)' = WorkersOf(r) /\ current' = current
      BY <2>3, PlacesFrame
    <3> QED
      BY <1>c, CountedPlaces, <3>1, <3>2, <3>3 DEF Places, One
  <2> QED
    BY <1>1, <2>3, <2>4, PlacesKept
<1>7. CASE UNCHANGED <<sent, events, current, jobs, job, results, completed, out>>
  <2>1. ASSUME NEW r \in DOMAIN sent
        PROVE  Places(r)' = Places(r)
    BY <1>7, PlacesFrame DEF Places
  <2> QED
    BY <1>1, <1>7, <2>1, PlacesKept
<1>8. CASE Dispatch
  <2> DEFINE q == Head(events).req
  <2>1. /\ events # <<>> /\ events' = Tail(events)
        /\ Head(events).type = "Request" /\ current = 0 /\ current' = q
    BY <1>8 DEF Dispatch, Event, IInv, Control
  <2>2. UNCHANGED <<sent, jobs, job, results, completed, out>>
    BY <1>8 DEF Dispatch
  <2>3. ASSUME NEW r \in DOMAIN sent
        PROVE  Places(r)' = Places(r)
    <3>1. Cardinality(EventsOf(r)) = Cardinality(EventsOf(r)') + One(q = r)
      BY <1>1, <2>1, EventTaken DEF One
    <3>2. r # 0
      BY <1>1 DEF Typed
    <3>3. /\ JobsOf(r)' = JobsOf(r) /\ WorkersOf(r)' = WorkersOf(r)
          /\ ResponsesOf(r)' = ResponsesOf(r) /\ AnswersOf(r)' = AnswersOf(r)
      BY <2>2, PlacesFrame
    <3> QED
      BY <1>c, CountedPlaces, <2>1, <3>1, <3>2, <3>3 DEF Places, One
  <2> QED
    BY <1>1, <2>2, <2>3, PlacesKept
<1>9. CASE GraphUnavailable
  <2> DEFINE q == Head(events).req
  <2>1. /\ events # <<>> /\ events' = Tail(events)
        /\ Head(events).type = "Request" /\ out' = Append(out, q)
    BY <1>9 DEF GraphUnavailable, Event, WriteNow
  <2>2. q \in Nat
    BY <1>1, <2>1, EventsTyped DEF Events, Requests
  <2>3. UNCHANGED <<sent, current, jobs, job, results, completed>>
    BY <1>9 DEF GraphUnavailable
  <2>4. ASSUME NEW r \in DOMAIN sent
        PROVE  Places(r)' = Places(r)
    <3>1. Cardinality(EventsOf(r)) = Cardinality(EventsOf(r)') + One(q = r)
      BY <1>1, <2>1, EventTaken DEF One
    <3>2. Cardinality(AnswersOf(r)') = Cardinality(AnswersOf(r)) + One(q = r)
      BY <1>1, <2>1, <2>2, AnswerAppended
    <3>3. /\ JobsOf(r)' = JobsOf(r) /\ WorkersOf(r)' = WorkersOf(r)
          /\ ResponsesOf(r)' = ResponsesOf(r)
      BY <2>3, PlacesFrame
    <3> QED
      BY <1>c, CountedPlaces, <2>3, <3>1, <3>2, <3>3 DEF Places, One
  <2> QED
    BY <1>1, <2>3, <2>4, PlacesKept
<1>10. CASE Cancel \/ Malformed \/ InputEnds
  <2>1. /\ events # <<>> /\ events' = Tail(events)
        /\ Head(events).type # "Request"
        /\ out' \in {out, Append(out, 0)}
    BY <1>10 DEF Cancel, Malformed, InputEnds, Event, WriteNow
  <2>2. UNCHANGED <<sent, current, jobs, job, results, completed>>
    BY <1>10 DEF Cancel, Malformed, InputEnds
  <2>3. ASSUME NEW r \in DOMAIN sent
        PROVE  Places(r)' = Places(r)
    <3>1. Cardinality(EventsOf(r)) = Cardinality(EventsOf(r)') + 0
      BY <1>1, <2>1, EventTaken DEF One
    <3>2. r # 0
      BY <1>1 DEF Typed
    <3>3. Cardinality(AnswersOf(r)') = Cardinality(AnswersOf(r))
      <4>1. CASE out' = out
        BY <4>1, PlacesFrame
      <4>2. CASE out' = Append(out, 0)
        <5>1. Cardinality(AnswersOf(r)') = Cardinality(AnswersOf(r)) + One(0 = r)
          BY <1>1, <4>2, AnswerAppended, 0 \in Nat
        <5> QED
          BY <1>c, CountedPlaces, <3>2, <5>1 DEF One
      <4> QED
        BY <2>1, <4>1, <4>2
    <3>4. /\ JobsOf(r)' = JobsOf(r) /\ WorkersOf(r)' = WorkersOf(r)
          /\ ResponsesOf(r)' = ResponsesOf(r)
      BY <2>2, PlacesFrame
    <3> QED
      BY <1>c, CountedPlaces, <2>2, <3>1, <3>3, <3>4 DEF Places
  <2> QED
    BY <1>1, <2>2, <2>3, PlacesKept
<1>11. CASE Send
  <2> DEFINE j == [seq |-> nextSeq, req |-> current]
  <2>1. j \in Jobs /\ jobs' = Append(jobs, j) /\ current' = 0 /\ j.req = current
    <3>1. current \in Requests
      BY <1>11, ParametersOK DEF Send, IInv, Control, WereRead, Typed, Requests
    <3> QED
      BY <1>1, <1>11, <3>1 DEF Send, Jobs, Typed
  <2>2. UNCHANGED <<sent, events, job, results, completed, out>>
    BY <1>11 DEF Send
  <2>3. ASSUME NEW r \in DOMAIN sent
        PROVE  Places(r)' = Places(r)
    <3>1. Cardinality(JobsOf(r)') = Cardinality(JobsOf(r)) + One(current = r)
      BY <1>1, <2>1, JobAppended
    <3>2. r # 0
      BY <1>1 DEF Typed
    <3>3. /\ EventsOf(r)' = EventsOf(r) /\ WorkersOf(r)' = WorkersOf(r)
          /\ ResponsesOf(r)' = ResponsesOf(r) /\ AnswersOf(r)' = AnswersOf(r)
      BY <2>2, PlacesFrame
    <3> QED
      BY <1>c, CountedPlaces, <2>1, <3>1, <3>2, <3>3 DEF Places, One
  <2> QED
    BY <1>1, <2>2, <2>3, PlacesKept
<1>12. CASE TurnDown
  <2>1. current \in Nat /\ out' = Append(out, current) /\ current' = 0
    BY <1>1, <1>12 DEF TurnDown, WriteNow, Typed
  <2>2. UNCHANGED <<sent, events, jobs, job, results, completed>>
    BY <1>12 DEF TurnDown
  <2>3. ASSUME NEW r \in DOMAIN sent
        PROVE  Places(r)' = Places(r)
    <3>1. Cardinality(AnswersOf(r)') = Cardinality(AnswersOf(r)) + One(current = r)
      BY <1>1, <2>1, AnswerAppended
    <3>2. r # 0
      BY <1>1 DEF Typed
    <3>3. /\ EventsOf(r)' = EventsOf(r) /\ WorkersOf(r)' = WorkersOf(r)
          /\ ResponsesOf(r)' = ResponsesOf(r) /\ JobsOf(r)' = JobsOf(r)
      BY <2>2, PlacesFrame
    <3> QED
      BY <1>c, CountedPlaces, <2>1, <3>1, <3>2, <3>3 DEF Places, One
  <2> QED
    BY <1>1, <2>2, <2>3, PlacesKept
<1>13. ASSUME NEW w \in Workers, Take(w)
       PROVE  OneResponseEach'
  <2> DEFINE j == Head(jobs)
  <2>1. /\ jobs # <<>> /\ jobs' = Tail(jobs)
        /\ job'[w] = j /\ \A v \in Workers : v # w => job'[v] = job[v]
        /\ job[w] = NoJob
    BY <1>1, <1>13 DEF Take, IInv, Control, Typed
  <2>2. UNCHANGED <<sent, events, current, results, completed, out>>
    BY <1>13 DEF Take
  <2> HIDE DEF j
  <2>3. ASSUME NEW r \in DOMAIN sent
        PROVE  Places(r)' = Places(r)
    <3>1. Cardinality(JobsOf(r)) = Cardinality(JobsOf(r)') + One(j.req = r)
      BY <1>1, <2>1, JobTaken DEF j
    <3>2. Cardinality(WorkersOf(r)') + One(job[w].req = r)
              = Cardinality(WorkersOf(r)) + One(j.req = r)
      BY <1>1, <2>1, WorkerGiven
    <3>3. job[w].req # r
      BY <1>1, <2>1 DEF Typed, NoJob
    <3>4. /\ EventsOf(r)' = EventsOf(r) /\ AnswersOf(r)' = AnswersOf(r)
          /\ ResponsesOf(r)' = ResponsesOf(r)
      BY <2>2, PlacesFrame
    <3> QED
      BY <1>c, CountedPlaces, <2>2, <3>1, <3>2, <3>3, <3>4 DEF Places, One
  <2> QED
    BY <1>1, <2>2, <2>3, PlacesKept
<1>14. ASSUME NEW w \in Workers, Respond(w)
       PROVE  OneResponseEach'
  <2> DEFINE j == job[w]
  <2>1. /\ j \notin results \cup completed
        /\ results' = results \cup {j} /\ completed' = completed
        /\ job'[w] = NoJob /\ \A v \in Workers : v # w => job'[v] = job[v]
    BY <1>1, <1>14, ResponseIsNew DEF Respond, Typed
  <2>2. UNCHANGED <<sent, events, current, jobs, out>>
    BY <1>14 DEF Respond
  <2>3. ASSUME NEW r \in DOMAIN sent
        PROVE  Places(r)' = Places(r)
    <3>1. Cardinality(ResponsesOf(r)')
              = Cardinality(ResponsesOf(r)) + One(j.req = r)
      BY <1>1, <2>1, ResponseAdded
    <3>2. Cardinality(WorkersOf(r)') + One(job[w].req = r)
              = Cardinality(WorkersOf(r)) + One(NoJob.req = r)
      BY <1>1, <2>1, WorkerGiven
    <3>3. NoJob.req # r
      BY <1>1 DEF Typed, NoJob
    <3>4. /\ EventsOf(r)' = EventsOf(r) /\ AnswersOf(r)' = AnswersOf(r)
          /\ JobsOf(r)' = JobsOf(r)
      BY <2>2, PlacesFrame
    <3> QED
      BY <1>c, CountedPlaces, <2>2, <3>1, <3>2, <3>3, <3>4 DEF Places, One
  <2> QED
    BY <1>1, <2>2, <2>3, PlacesKept
<1>15. ASSUME NEW w \in Workers,
              Check(w) \/ RunTool(w) \/ DropGuard(w) \/ EndWorker(w)
       PROVE  OneResponseEach'
  BY <1>7, <1>15 DEF Check, RunTool, DropGuard, EndWorker
<1>16. CASE Delivered \/ DeliverFails \/ NoEvent \/ Return \/ UNCHANGED vars
  BY <1>7, <1>16 DEF Delivered, DeliverFails, NoEvent, Return, vars
<1>17. CASE (\E id \in Ids : ReadCancel(id)) \/ ReadMalformed
            \/ \E type \in {"Eof", "Fatal"} : ReadEnd(type)
  <2>1. PICK e \in Events : e.type # "Request" /\ events' = Append(events, e)
    BY <1>1, <1>17, QuietEvent
  <2> QED
    BY <1>4, <1>17, <2>1 DEF ReadCancel, ReadMalformed, ReadEnd
<1> QED
  BY <1>3, <1>5, <1>6, <1>8, <1>9, <1>10, <1>11, <1>12, <1>13, <1>14, <1>15,
     <1>16, <1>17 DEF Next, Reader, Main, Worker

-----------------------------------------------------------------------------
(* How a step changes the jobs on their way.                                *)

JobItems == {jobs[i] : i \in DOMAIN jobs}
WorkerItems == {job[w] : w \in Workers} \ {NoJob}

LEMMA ItemsAre == Items = JobItems \cup WorkerItems \cup (results \cup completed)
BY DEF Items, JobItems, WorkerItems

LEMMA ItemsAreNext ==
    Items' = JobItems' \cup WorkerItems' \cup (results \cup completed)'
BY DEF Items, JobItems, WorkerItems

LEMMA ItemsTyped ==
    ASSUME IInv
    PROVE  \A a \in Items : a \in Jobs /\ a.req \in DOMAIN sent
<1> USE DEF IInv
<1>1. \A a \in Items : a \in Jobs
  BY DEF Items, Typed
<1> QED
  BY <1>1 DEF Typed, WereRead, Jobs, Requests

LEMMA ItemsKept ==
    ASSUME UNCHANGED <<jobs, job>>, (results \cup completed)' = results \cup completed
    PROVE  Items' = Items
BY ItemsAre, ItemsAreNext DEF JobItems, WorkerItems

LEMMA ItemsSent ==
    ASSUME IInv, Send
    PROVE  Items' = Items \cup {[seq |-> nextSeq, req |-> current]}
<1> DEFINE j == [seq |-> nextSeq, req |-> current]
<1>1. j \in Jobs
  BY ParametersOK DEF Send, IInv, Control, WereRead, Typed, Requests, Jobs
<1>2. jobs \in Seq(Jobs) /\ jobs' = Append(jobs, j)
  BY DEF IInv, Typed, Send
<1>3. /\ DOMAIN jobs = 1 .. Len(jobs) /\ DOMAIN jobs' = 1 .. Len(jobs) + 1
      /\ Len(jobs) \in Nat
      /\ \A i \in 1 .. Len(jobs) : jobs'[i] = jobs[i]
      /\ jobs'[Len(jobs) + 1] = j
  BY <1>1, <1>2
<1>4. JobItems' = JobItems \cup {j}
  BY <1>3 DEF JobItems
<1>5. WorkerItems' = WorkerItems /\ (results \cup completed)' = results \cup completed
  BY DEF WorkerItems, Send, poolVars
<1> QED
  BY <1>4, <1>5, ItemsAre, ItemsAreNext

LEMMA ItemsDelivered ==
    ASSUME IInv, Deliver
    PROVE  \E c \in completed : c.seq = Head(order) /\ Items' = Items \ {c}
<1>1. PICK c \in completed : c.seq = Head(order) /\ completed' = completed \ {c}
  BY DEF Deliver
<1>2. c.req \in DOMAIN sent
  BY ItemsTyped DEF Items
<1>3. JobsOf(c.req) = {} /\ WorkersOf(c.req) = {}
  <2>1. c \in ResponsesOf(c.req)
    BY DEF ResponsesOf
  <2> QED
    BY <1>2, <2>1, OnePlaceOnly DEF IInv
<1>4. c \notin JobItems /\ c \notin WorkerItems
  BY <1>3 DEF JobsOf, WorkersOf, JobItems, WorkerItems
<1>5. (results \cup completed)' = (results \cup completed) \ {c}
  BY <1>1 DEF Deliver, IInv, Apart
<1>6. JobItems' = JobItems /\ WorkerItems' = WorkerItems
  BY DEF JobItems, WorkerItems, Deliver, poolVars
<1>7. Items' = Items \ {c}
  BY <1>4, <1>5, <1>6, ItemsAre, ItemsAreNext
<1> QED
  BY <1>1, <1>7

LEMMA ItemsTaken ==
    ASSUME IInv, NEW w \in Workers, Take(w)
    PROVE  Items' = Items
<1> DEFINE j == Head(jobs)
<1>1. jobs \in Seq(Jobs) /\ jobs # <<>> /\ jobs' = Tail(jobs)
  BY DEF IInv, Typed, Take
<1>2. /\ Len(jobs) \in Nat \ {0}
      /\ DOMAIN jobs = 1 .. Len(jobs) /\ DOMAIN jobs' = 1 .. Len(jobs) - 1
      /\ \A i \in 1 .. Len(jobs) - 1 : jobs'[i] = jobs[i + 1]
      /\ jobs[1] = j /\ j \in Jobs
  BY <1>1
<1>3. JobItems = JobItems' \cup {j}
  <2>1. \A i \in 1 .. Len(jobs) : i = 1 \/ i - 1 \in 1 .. Len(jobs) - 1
    BY <1>2
  <2>2. \A i \in 1 .. Len(jobs) : jobs[i] = j \/ jobs[i] = jobs'[i - 1]
    BY <1>2, <2>1
  <2>3. \A i \in 1 .. Len(jobs) : jobs[i] \in JobItems' \cup {j}
    BY <1>2, <2>1, <2>2 DEF JobItems
  <2>4. \A i \in 1 .. Len(jobs) - 1 : jobs'[i] \in JobItems
    <3>1. \A i \in 1 .. Len(jobs) - 1 : i + 1 \in 1 .. Len(jobs)
      BY <1>2
    <3> QED
      BY <1>2, <3>1 DEF JobItems
  <2>5. j \in JobItems
    BY <1>2 DEF JobItems
  <2>6. \A a \in JobItems : \E i \in 1 .. Len(jobs) : a = jobs[i]
    BY <1>2 DEF JobItems
  <2>7. \A a \in JobItems' : \E i \in 1 .. Len(jobs) - 1 : a = jobs'[i]
    BY <1>2 DEF JobItems
  <2> QED
    BY <2>3, <2>4, <2>5, <2>6, <2>7
<1>4. /\ job[w] = NoJob /\ job'[w] = j
      /\ \A v \in Workers : v # w => job'[v] = job[v]
      /\ j # NoJob
  <2>1. j.req # 0
    BY <1>2 DEF Jobs, Requests
  <2> QED
    BY <2>1 DEF IInv, Typed, Control, Take, NoJob
<1>5. WorkerItems' = WorkerItems \cup {j}
  BY <1>4 DEF WorkerItems
<1>6. (results \cup completed)' = results \cup completed
  BY DEF Take
<1> QED
  BY <1>3, <1>5, <1>6, ItemsAre, ItemsAreNext

LEMMA ItemsAnswered ==
    ASSUME IInv, NEW w \in Workers, Respond(w)
    PROVE  Items' = Items
<1> DEFINE j == job[w]
<1>1. j \in Jobs /\ j.req \in DOMAIN sent /\ j # NoJob
  BY ResponseIsNew DEF IInv, Control, Respond
<1>2. /\ job'[w] = NoJob
      /\ \A v \in Workers : v # w => job'[v] = job[v]
  BY DEF Respond, IInv, Typed
<1>3. \A v \in Workers : v # w => job[v] # j
  <2>1. \A u, v \in WorkersOf(j.req) : u = v
    BY <1>1, OnePlaceOnly DEF IInv
  <2> QED
    BY <2>1 DEF WorkersOf
<1>4. WorkerItems = WorkerItems' \cup {j}
  BY <1>1, <1>2 DEF WorkerItems
<1>5. (results \cup completed)' = (results \cup completed) \cup {j}
  BY DEF Respond
<1>6. JobItems' = JobItems
  BY DEF Respond, JobItems
<1> QED
  BY <1>4, <1>5, <1>6, ItemsAre, ItemsAreNext

\* A job comes with Send and goes with Deliver.
LEMMA ItemsStep ==
    ASSUME IInv, [Next]_vars
    PROVE  \/ Send
           \/ Deliver
           \/ Items' = Items /\ UNCHANGED <<order, pending, nextSeq>>
<1> USE DEF readerVars, poolVars, orderVars
<1>1. ASSUME NEW w \in Workers, Take(w) \/ Respond(w)
      PROVE  Items' = Items /\ UNCHANGED <<order, pending, nextSeq>>
  BY <1>1, ItemsTaken, ItemsAnswered DEF Take, Respond
<1>2. CASE Collect
  <2>1. (results \cup completed)' = results \cup completed
    BY <1>2 DEF Collect
  <2> QED
    BY <1>2, <2>1, ItemsKept DEF Collect
<1>3. CASE UNCHANGED <<jobs, job, results, completed, order, pending, nextSeq>>
  BY <1>3, ItemsKept
<1>4. \/ Send \/ Deliver \/ Collect \/ (\E w \in Workers : Take(w) \/ Respond(w))
      \/ UNCHANGED <<jobs, job, results, completed, order, pending, nextSeq>>
  BY DEF Next, Reader, ReadRequest, ReadCancel, ReadMalformed, ReadEnd, Main,
         Delivered, Dispatch, GraphUnavailable, TurnDown, Cancel,
         Malformed, InputEnds, NoEvent, Return, DeliverFails, Worker,
         Check, RunTool, DropGuard, EndWorker, vars
<1> QED
  BY <1>1, <1>2, <1>3, <1>4

-----------------------------------------------------------------------------
\* A request once read keeps its id and kind.
LEMMA SentGrows ==
    ASSUME Typed, [Next]_vars
    PROVE  /\ Len(sent) \in Nat /\ Len(sent') \in Nat /\ Len(sent) <= Len(sent')
           /\ DOMAIN sent = 1 .. Len(sent) /\ DOMAIN sent' = 1 .. Len(sent')
           /\ \A r \in DOMAIN sent : sent'[r] = sent[r] /\ IdOf(r)' = IdOf(r)
                                     /\ IsToolCall(r)' = IsToolCall(r)
           /\ \A r \in DOMAIN sent : sent[r] \in Records /\ IdOf(r) \in Ids
<1>1. sent \in Seq(Records)
  BY DEF Typed
<1>2. sent' = sent \/ \E e \in Records : sent' = Append(sent, e)
  <2>1. ASSUME NEW id \in Ids, NEW kind \in Kinds, ReadRequest(id, kind)
        PROVE  \E e \in Records : sent' = Append(sent, e)
    <3>1. [id |-> id, kind |-> kind] \in Records
      BY DEF Records
    <3> QED
      BY <2>1, <3>1 DEF ReadRequest
  <2>2. (\E id \in Ids, kind \in Kinds : ReadRequest(id, kind)) \/ sent' = sent
    BY DEF Next, Reader, ReadCancel, ReadMalformed, ReadEnd, Main, Collect,
           Deliver, Delivered, Dispatch, GraphUnavailable, Send, TurnDown,
           Cancel, Malformed, InputEnds, NoEvent, Return, DeliverFails, Worker,
           Take, Check, RunTool, DropGuard, Respond, EndWorker, vars,
           readerVars
  <2> QED
    BY <2>1, <2>2
<1>3. /\ Len(sent) \in Nat /\ Len(sent') \in Nat /\ Len(sent) <= Len(sent')
      /\ DOMAIN sent = 1 .. Len(sent) /\ DOMAIN sent' = 1 .. Len(sent')
      /\ \A r \in DOMAIN sent : sent'[r] = sent[r]
      /\ \A r \in DOMAIN sent : sent[r] \in Records
  <2>1. CASE sent' = sent
    BY <1>1, <2>1
  <2>2. ASSUME NEW e \in Records, sent' = Append(sent, e)
        PROVE  <1>3!:
    BY <1>1, <2>2
  <2> QED
    BY <1>2, <2>1, <2>2
<1> QED
  BY <1>3 DEF IdOf, IsToolCall, Records

LEMMA StepControl == ASSUME IInv, [Next]_vars PROVE Control'
<1> USE DEF readerVars, poolVars, orderVars
<1>1. Typed /\ Control
  BY DEF IInv
<1>2. (current # 0 <=> mpc = "send")'
  <2>1. CASE Dispatch
    <3>1. Head(events).req # 0
      BY <1>1, <2>1, EventsTyped DEF Dispatch, Event, Events, Requests
    <3> QED
      BY <2>1, <3>1 DEF Dispatch
  <2>2. CASE Send \/ TurnDown
    BY <2>2 DEF Send, TurnDown
  <2>3. CASE UNCHANGED current /\ mpc # "send" /\ mpc' # "send"
    BY <1>1, <2>3 DEF Control
  <2>4. CASE UNCHANGED <<current, mpc>>
    BY <1>1, <2>4 DEF Control
  <2> QED
    BY <2>1, <2>2, <2>3, <2>4
    DEF Next, Reader, ReadRequest, ReadCancel, ReadMalformed, ReadEnd, Main,
        Collect, Deliver, Delivered, GraphUnavailable, Cancel, Malformed,
        InputEnds, NoEvent, Return, DeliverFails, Worker, Take, Check, RunTool,
        DropGuard, Respond, EndWorker, vars, Event
<1>3. (\A w \in Workers : wpc[w] \in {"idle", "ended"} <=> job[w] = NoJob)'
      /\ (\A w \in Workers : wpc[w] = "run" => sent[job[w].req].kind = "call")'
  <2>1. ASSUME NEW w \in Workers, Take(w)
        PROVE  <1>3!:
    <3>1. Head(jobs) # NoJob
      BY <1>1, <2>1 DEF Take, Typed, Jobs, NoJob, Requests
    <3>2. /\ wpc'[w] \in {"check", "respond"} /\ job'[w] = Head(jobs)
          /\ \A v \in Workers : v # w => wpc'[v] = wpc[v] /\ job'[v] = job[v]
          /\ UNCHANGED sent
      BY <1>1, <2>1 DEF Take, Typed
    <3> QED
      BY <1>1, <3>1, <3>2 DEF Control
  <2>2. ASSUME NEW w \in Workers, Check(w)
        PROVE  <1>3!:
    <3>1. /\ wpc[w] = "check"
          /\ wpc'[w] = IF sent[job[w].req].kind = "call" THEN "run" ELSE "drop"
          /\ \A v \in Workers : v # w => wpc'[v] = wpc[v]
          /\ UNCHANGED <<sent, job>>
      BY <1>1, <2>2 DEF Check, Typed
    <3> QED
      BY <1>1, <3>1 DEF Control
  <2>3. ASSUME NEW w \in Workers, RunTool(w) \/ DropGuard(w)
        PROVE  <1>3!:
    <3>1. /\ wpc[w] \in {"run", "drop"} /\ wpc'[w] \in {"drop", "respond"}
          /\ \A v \in Workers : v # w => wpc'[v] = wpc[v]
          /\ UNCHANGED <<sent, job>>
      BY <1>1, <2>3 DEF RunTool, DropGuard, Typed
    <3> QED
      BY <1>1, <3>1 DEF Control
  <2>4. ASSUME NEW w \in Workers, Respond(w)
        PROVE  <1>3!:
    <3>1. /\ wpc'[w] = "idle" /\ job'[w] = NoJob
          /\ \A v \in Workers : v # w => wpc'[v] = wpc[v] /\ job'[v] = job[v]
          /\ UNCHANGED sent
      BY <1>1, <2>4 DEF Respond, Typed
    <3> QED
      BY <1>1, <3>1 DEF Control
  <2>5. ASSUME NEW w \in Workers, EndWorker(w)
        PROVE  <1>3!:
    <3>1. /\ wpc[w] = "idle" /\ wpc'[w] = "ended"
          /\ \A v \in Workers : v # w => wpc'[v] = wpc[v]
          /\ UNCHANGED <<sent, job>>
      BY <1>1, <2>5 DEF EndWorker, Typed
    <3> QED
      BY <1>1, <3>1 DEF Control
  <2>6. CASE UNCHANGED <<wpc, job>>
    <3>1. \A w \in Workers : wpc[w] = "run" => job[w].req \in DOMAIN sent
      <4>1. \A w \in Workers : job[w] # NoJob => job[w] \in Items
        BY DEF Items
      <4> QED
        BY <1>1, <4>1, ItemsTyped DEF Control
    <3> QED
      BY <1>1, <2>6, <3>1, SentGrows DEF Control
  <2> QED
    BY <2>1, <2>2, <2>3, <2>4, <2>5, <2>6
    DEF Next, Reader, ReadRequest, ReadCancel, ReadMalformed, ReadEnd, Main,
        Collect, Deliver, Delivered, Dispatch, GraphUnavailable, Send,
        TurnDown, Cancel, Malformed, InputEnds, NoEvent, Return, DeliverFails,
        Worker, vars
<1>4. (pending = Len(order))'
  <2>1. CASE Send
    BY <1>1, <2>1 DEF Send, Control, Typed
  <2>2. CASE Deliver
    BY <1>1, <2>2 DEF Deliver, Control, Typed
  <2> QED
    BY <1>1, <2>1, <2>2, ItemsStep DEF Control
<1> QED
  BY <1>2, <1>3, <1>4 DEF Control

-----------------------------------------------------------------------------
(* Only requests that were read are anywhere.                               *)

\* What the main thread takes out of the channel was read.
LEMMA TakenWasRead ==
    ASSUME IInv, events # <<>>, Head(events).type = "Request"
    PROVE  Head(events).req \in DOMAIN sent
<1> USE DEF IInv
<1>1. events[1] = Head(events) /\ 1 \in DOMAIN events
  BY DEF Typed
<1>2. Head(events) \in Events
  BY EventsTyped
<1>3. Head(events).req <= Len(sent)
  BY <1>1 DEF WereRead
<1> QED
  BY <1>2, <1>3 DEF Typed, Events, Requests

LEMMA StepWereRead == ASSUME IInv, [Next]_vars PROVE WereRead'
<1> USE DEF readerVars, poolVars, orderVars
<1>1. Typed /\ WereRead /\ Control
  BY DEF IInv
<1> DEFINE n == Len(sent)
           m == Len(sent')
<1>2. n \in Nat /\ m \in Nat /\ n <= m /\ DOMAIN sent = 1 .. n
  BY <1>1, SentGrows
<1>r. /\ \A j \in DOMAIN events :
            events[j].type = "Request" => events[j].req <= m
      /\ events \in Seq(Events)
  <2>1. events \in Seq(Events) /\ \A j \in DOMAIN events : events[j] \in Events
    BY <1>1 DEF Typed
  <2>2. \A j \in DOMAIN events :
            events[j].type = "Request" => events[j].req \in Nat
    BY <2>1 DEF Events, Requests
  <2>3. \A j \in DOMAIN events :
            events[j].type = "Request" => events[j].req <= n
    BY <1>1 DEF WereRead
  <2> QED
    BY <1>2, <2>1, <2>2, <2>3
<1>3. \A i \in DOMAIN events' :
          events'[i].type = "Request" => events'[i].req <= m
  <2>1. ASSUME NEW e \in Events, events' = Append(events, e),
               e.type = "Request" => e.req <= m
        PROVE  <1>3!:
    BY <1>r, <2>1
  <2>2. CASE \E id \in Ids, kind \in Kinds : ReadRequest(id, kind)
    <3>1. events' = Append(events, [type |-> "Request", req |-> m])
          /\ [type |-> "Request", req |-> m] \in Events
      <4>1. m \in Requests
        BY <1>1, <1>2, <2>2, ParametersOK, StepTyped DEF ReadRequest, Typed, Requests, IInv
      <4> QED
        BY <2>2, <4>1 DEF ReadRequest, Events
    <3> QED
      BY <1>2, <2>1, <3>1
  <2>3. CASE events # <<>> /\ events' = Tail(events)
    BY <1>r, <2>3
  <2>4. CASE events' = events
    BY <1>r, <2>4
  <2> QED
    BY <2>1, <2>2, <2>3, <2>4, EventsStep
<1>4. current' <= m
  <2>1. CASE Dispatch
    BY <1>2, <2>1, TakenWasRead DEF Dispatch, Event
  <2>2. CASE current' \in {0, current}
    BY <1>1, <1>2, <2>2 DEF WereRead, Typed
  <2>3. Dispatch \/ current' \in {0, current}
    BY DEF Next, Reader, ReadRequest, ReadCancel, ReadMalformed, ReadEnd, Main,
           Collect, Deliver, Delivered, GraphUnavailable, Send, TurnDown,
           Cancel, Malformed, InputEnds, NoEvent, Return, DeliverFails, Worker,
           Take, Check, RunTool, DropGuard, Respond, EndWorker, vars
  <2> QED
    BY <2>1, <2>2, <2>3
<1>5. \A id \in Ids : registry'[id] <= m
  <2>1. ASSUME NEW id \in Ids, NEW r \in 0 .. n,
               registry' = [registry EXCEPT ![id] = r]
        PROVE  \A x \in Ids : registry'[x] <= m
    BY <1>1, <1>2, <2>1 DEF WereRead, Typed
  <2>2. CASE registry' = registry
    BY <1>1, <1>2, <2>2 DEF WereRead, Typed
  <2>3. CASE Dispatch
    <3>1. IdOf(Head(events).req) \in Ids /\ Head(events).req \in 0 .. n
      BY <1>1, <1>2, <2>3, TakenWasRead, SentGrows DEF Dispatch, Event
    <3> QED
      BY <2>1, <2>2, <2>3, <3>1 DEF Dispatch
  <2>4. CASE TurnDown
    <3>1. current \in DOMAIN sent
      BY <1>1, <1>2, <2>4 DEF TurnDown, Control, WereRead, Typed
    <3>2. IdOf(current) \in Ids
      BY <1>1, <3>1, SentGrows
    <3> QED
      BY <2>1, <2>4, <3>2, 0 \in 0 .. n DEF TurnDown, Unregister
  <2>5. ASSUME NEW w \in Workers, Check(w) \/ DropGuard(w)
        PROVE  \A x \in Ids : registry'[x] <= m
    <3>1. job[w].req \in DOMAIN sent
      <4>1. job[w] \in Items
        BY <1>1, <2>5 DEF Check, DropGuard, Control, Items
      <4> QED
        BY <4>1, ItemsTyped
    <3>2. IdOf(job[w].req) \in Ids /\ job[w].req \in 0 .. n /\ 0 \in 0 .. n
      BY <1>1, <1>2, <3>1, SentGrows
    <3> QED
      BY <2>1, <2>2, <2>5, <3>2 DEF Check, DropGuard, Unregister
  <2> QED
    BY <2>2, <2>3, <2>4, <2>5
    DEF Next, Reader, ReadRequest, ReadCancel, ReadMalformed, ReadEnd, Main,
        Collect, Deliver, Delivered, GraphUnavailable, Send, Cancel, Malformed,
        InputEnds, NoEvent, Return, DeliverFails, Worker, Take, RunTool,
        Respond, EndWorker, vars
<1>6. \A t \in cancelled' : t \in 1 .. m
  <2>1. CASE Cancel
    <3>1. registry[Head(events).id] \in 0 .. n
      <4>1. Head(events).id \in Ids
        BY <1>1, <2>1, EventsTyped DEF Cancel, Event, Events
      <4> QED
        BY <1>1, <1>2, <4>1 DEF WereRead, Typed
    <3> QED
      BY <1>1, <1>2, <2>1, <3>1 DEF WereRead, Cancel
  <2>2. CASE cancelled' = cancelled
    BY <1>1, <1>2, <2>2 DEF WereRead
  <2> QED
    BY <2>1, <2>2
    DEF Next, Reader, ReadRequest, ReadCancel, ReadMalformed, ReadEnd, Main,
        Collect, Deliver, Delivered, Dispatch, GraphUnavailable, Send,
        TurnDown, Malformed, InputEnds, NoEvent, Return, DeliverFails, Worker,
        Take, Check, RunTool, DropGuard, Respond, EndWorker, vars
<1>7. \A a \in Items' : a.req <= m
  <2>1. \A a \in Items : a.req \in Nat /\ a.req <= n
    BY <1>2, ItemsTyped
  <2>2. \A a \in Items' : a \in Items \/ a.req = current
    BY ItemsStep, ItemsSent, ItemsDelivered
  <2> QED
    BY <1>1, <1>2, <2>1, <2>2 DEF WereRead, Typed
<1>8. \A i \in DOMAIN out' : out'[i] <= m
  <2>1. ASSUME NEW a \in 0 .. n, out' = Append(out, a)
        PROVE  \A i \in DOMAIN out' : out'[i] <= m
    <3>1. out \in Seq(Nat) /\ a \in Nat /\ a <= m
      BY <1>1, <1>2 DEF Typed
    <3>2. \A i \in DOMAIN out : out[i] \in Nat /\ out[i] <= n
      BY <1>1, <3>1 DEF WereRead
    <3>3. \A i \in DOMAIN out : out[i] <= m
      BY <1>2, <3>2
    <3> QED
      BY <2>1, <3>1, <3>3
  <2>2. CASE out' = out
    BY <1>1, <1>2, <2>2 DEF WereRead, Typed
  <2>3. CASE GraphUnavailable \/ Malformed \/ InputEnds
    BY <1>2, <2>1, <2>2, <2>3, TakenWasRead
    DEF GraphUnavailable, Malformed, InputEnds, Event, WriteNow
  <2>4. CASE TurnDown
    <3>1. current \in 0 .. n
      BY <1>1, <1>2 DEF WereRead, Typed
    <3> QED
      BY <2>1, <2>4, <3>1 DEF TurnDown, WriteNow
  <2>5. CASE Deliver
    <3>1. PICK c \in completed : out' = Append(out, c.req)
      BY <2>5 DEF Deliver
    <3>2. c.req \in 0 .. n
      BY <1>2, ItemsTyped DEF Items
    <3> QED
      BY <2>1, <3>1, <3>2
  <2> QED
    BY <2>2, <2>3, <2>4, <2>5
    DEF Next, Reader, ReadRequest, ReadCancel, ReadMalformed, ReadEnd, Main,
        Collect, Delivered, Dispatch, Send, Cancel, NoEvent, Return,
        DeliverFails, Worker, Take, Check, RunTool, DropGuard, Respond,
        EndWorker, vars
<1> QED
  BY <1>3, <1>4, <1>5, <1>6, <1>7, <1>8 DEF WereRead

-----------------------------------------------------------------------------
(* Requests wait in the order they were read.                               *)

\* A request that waits is of the channel as it was, or has just been read.
LEMMA WaitingStep ==
    ASSUME IInv, [Next]_vars
    PROVE  /\ \A i \in RequestEvents' :
                events'[i].req = Len(sent) + 1
                \/ \E k \in RequestEvents : events'[i] = events[k]
           /\ \A i, j \in RequestEvents' :
                i < j => events'[i].req < events'[j].req
<1>1. Typed
  BY DEF IInv
<1> DEFINE n == Len(sent)
<1>2. /\ n \in Nat
      /\ events \in Seq(Events) /\ Len(events) \in Nat
      /\ DOMAIN events = 1 .. Len(events)
  BY <1>1 DEF Typed
<1>3. \A k \in RequestEvents : /\ events[k].req \in Nat /\ events[k].req <= n
                               /\ k \in 1 .. Len(events)
  <2>1. \A k \in RequestEvents : events[k] \in Events
    BY <1>2 DEF RequestEvents
  <2> QED
    BY <1>2, <2>1 DEF RequestEvents, Events, Requests, IInv, WereRead
<1>4. \A i, j \in RequestEvents : i < j => events[i].req < events[j].req
  BY DEF IInv, Waiting
<1>5. ASSUME NEW e \in Events, events' = Append(events, e),
             e.type = "Request" => e.req = n + 1
      PROVE  /\ \A i \in RequestEvents' :
                  events'[i].req = n + 1
                  \/ \E k \in RequestEvents : events'[i] = events[k]
             /\ \A i, j \in RequestEvents' :
                  i < j => events'[i].req < events'[j].req
  <2>1. \A i \in RequestEvents' :
            \/ i = Len(events) + 1 /\ events'[i] = e /\ e.type = "Request"
            \/ i \in RequestEvents /\ events'[i] = events[i]
    BY <1>2, <1>5 DEF RequestEvents
  <2> QED
    BY <1>2, <1>3, <1>4, <1>5, <2>1
<1>6. CASE events # <<>> /\ events' = Tail(events)
  <2>1. \A i \in RequestEvents' : /\ i \in Nat /\ i + 1 \in RequestEvents
                                  /\ events'[i] = events[i + 1]
    BY <1>2, <1>6 DEF RequestEvents
  <2>2. \A i, j \in RequestEvents' : i < j => events'[i].req < events'[j].req
    BY <1>4, <2>1
  <2> QED
    BY <2>1, <2>2
<1>7. CASE events' = events
  BY <1>4, <1>7 DEF RequestEvents
<1>8. CASE \E id \in Ids, kind \in Kinds : ReadRequest(id, kind)
  <2>1. Len(sent') = n + 1 /\ n + 1 <= MaxRequests
    BY <1>1, <1>8, ParametersOK DEF ReadRequest, Typed
  <2>2. events' = Append(events, [type |-> "Request", req |-> n + 1])
    BY <1>8, <2>1 DEF ReadRequest
  <2>3. [type |-> "Request", req |-> n + 1] \in Events
    BY <1>2, <2>1, ParametersOK DEF Events, Requests
  <2> QED
    BY <1>5, <2>2, <2>3
<1> QED
  BY <1>5, <1>6, <1>7, <1>8, EventsStep

LEMMA StepWaiting == ASSUME IInv, [Next]_vars PROVE Waiting'
<1> USE DEF readerVars, poolVars, orderVars
<1>1. Typed /\ WereRead /\ Control /\ Waiting /\ Apart
  BY DEF IInv
<1> DEFINE n == Len(sent)
<1>2. n \in Nat
  BY <1>1 DEF Typed
<1>3. \A k \in RequestEvents : events[k].req \in Nat
  <2>1. \A k \in RequestEvents : events[k] \in Events /\ events[k].type = "Request"
    BY <1>1 DEF RequestEvents, Typed
  <2> QED
    BY <2>1 DEF Events, Requests
<1>4. \A i \in RequestEvents' : current' < events'[i].req
  <2>1. CASE Dispatch
    <3>1. /\ events \in Seq(Events) /\ events # <<>> /\ events' = Tail(events)
          /\ Head(events).type = "Request" /\ current' = Head(events).req
      BY <1>1, <2>1 DEF Dispatch, Event, Typed
    <3>2. /\ 1 \in RequestEvents /\ events[1] = Head(events)
          /\ \A i \in RequestEvents' : /\ i \in Nat \ {0} /\ i + 1 \in RequestEvents
                                       /\ events'[i] = events[i + 1]
      BY <3>1 DEF RequestEvents
    <3>3. \A i, j \in RequestEvents : i < j => events[i].req < events[j].req
      BY <1>1 DEF Waiting
    <3>4. \A i \in RequestEvents' : events[1].req < events[i + 1].req
      BY <3>2, <3>3
    <3> QED
      BY <3>1, <3>2, <3>4
  <2>2. CASE current' \in {0, current}
    <3>1. current \in Nat /\ current <= n
      BY <1>1 DEF Typed, WereRead
    <3>2. \A k \in RequestEvents : current < events[k].req
      BY <1>1 DEF Waiting
    <3> QED
      BY <1>2, <1>3, <2>2, <3>1, <3>2, WaitingStep
  <2>3. Dispatch \/ current' \in {0, current}
    BY DEF Next, Reader, ReadRequest, ReadCancel, ReadMalformed, ReadEnd, Main,
           Collect, Deliver, Delivered, GraphUnavailable, Send, TurnDown,
           Cancel, Malformed, InputEnds, NoEvent, Return, DeliverFails, Worker,
           Take, Check, RunTool, DropGuard, Respond, EndWorker, vars
  <2> QED
    BY <2>1, <2>2, <2>3
<1>5. \A i \in RequestEvents', a \in Items' : a.req < events'[i].req
  <2>1. \A a \in Items' : a \in Items \/ a.req = current
    BY ItemsStep, ItemsSent, ItemsDelivered
  <2>2. \A a \in Items' : a.req \in Nat /\ a.req <= n
    BY <1>1, <1>2, <2>1, ItemsTyped DEF WereRead, Typed
  <2>3. \A k \in RequestEvents, a \in Items' : a.req < events[k].req
    BY <1>1, <2>1 DEF Waiting
  <2> QED
    BY <1>2, <2>2, <2>3, WaitingStep
<1> DEFINE sum == nextSeq + (IF current = 0 THEN 0 ELSE 1) + Cardinality(RequestEvents)
<1>6. (sum <= Len(sent))'
  <2>1. /\ Cardinality(RequestEvents) \in Nat /\ Cardinality(RequestEvents') \in Nat
        /\ nextSeq \in Nat /\ current \in Nat /\ sum <= n
    <3>1. PlacesCounted /\ PlacesCounted'
      BY <1>1, StepTyped, StepApart, PlacesAreCounted, PlacesAreCountedNext DEF IInv
    <3> QED
      BY <1>1, <3>1 DEF PlacesCounted, Waiting, Typed
  <2>2. CASE \E id \in Ids, kind \in Kinds : ReadRequest(id, kind)
    <3>1. Len(sent') = n + 1 /\ n + 1 <= MaxRequests
      BY <1>1, <2>2, ParametersOK DEF ReadRequest, Typed
    <3>2. [type |-> "Request", req |-> n + 1] \in Events
      BY <1>2, <3>1, ParametersOK DEF Events, Requests
    <3>3. events' = Append(events, [type |-> "Request", req |-> n + 1])
      BY <2>2, <3>1 DEF ReadRequest
    <3>4. Cardinality(RequestEvents') = Cardinality(RequestEvents) + 1
      BY <1>1, <3>2, <3>3, EventAppended DEF One
    <3> QED
      BY <2>1, <2>2, <3>1, <3>4 DEF ReadRequest
  <2>3. CASE \E e \in Events : e.type # "Request" /\ events' = Append(events, e)
                               /\ UNCHANGED <<sent, nextSeq, current>>
    <3>1. Cardinality(RequestEvents') = Cardinality(RequestEvents) + 0
      BY <1>1, <2>3, EventAppended DEF One
    <3> QED
      BY <2>1, <2>3, <3>1
  <2>4. CASE Dispatch
    <3>1. Cardinality(RequestEvents) = Cardinality(RequestEvents') + 1
      BY <1>1, <2>4, EventTaken DEF One, Dispatch, Event
    <3>2. current = 0
      BY <1>1, <2>4 DEF Dispatch, Event, Control
    <3>3. UNCHANGED <<sent, nextSeq>>
      BY <2>4 DEF Dispatch
    <3> QED
      BY <2>1, <3>1, <3>2, <3>3
  <2>5. CASE GraphUnavailable \/ Cancel \/ Malformed \/ InputEnds
    <3>1. events # <<>> /\ events' = Tail(events) /\ UNCHANGED <<sent, nextSeq, current>>
      BY <2>5 DEF GraphUnavailable, Cancel, Malformed, InputEnds, Event
    <3>2. Cardinality(RequestEvents') <= Cardinality(RequestEvents)
      BY <1>1, <2>1, <3>1, EventTaken DEF One
    <3> QED
      BY <2>1, <3>1, <3>2
  <2>6. CASE Send \/ TurnDown
    <3>1. /\ current # 0 /\ current' = 0 /\ nextSeq' \in {nextSeq, nextSeq + 1}
          /\ UNCHANGED <<sent, events>>
      BY <1>1, <2>6 DEF Send, TurnDown, Control
    <3> QED
      BY <2>1, <3>1 DEF RequestEvents
  <2>7. CASE UNCHANGED <<sent, events, nextSeq, current>>
    BY <2>1, <2>7 DEF RequestEvents
  <2>8. (\E id \in Ids : ReadCancel(id)) \/ ReadMalformed
        \/ (\E type \in {"Eof", "Fatal"} : ReadEnd(type)) => <2>3!1
    BY QuietEvent DEF ReadCancel, ReadMalformed, ReadEnd
  <2> QED
    BY <2>2, <2>3, <2>4, <2>5, <2>6, <2>7, <2>8
    DEF Next, Reader, Main, Collect, Deliver, Delivered, NoEvent, Return,
        DeliverFails, Worker, Take, Check, RunTool, DropGuard, Respond,
        EndWorker, vars
<1>7. \A i, j \in RequestEvents' : i < j => events'[i].req < events'[j].req
  BY WaitingStep
<1> QED
  BY <1>4, <1>5, <1>6, <1>7 DEF Waiting

-----------------------------------------------------------------------------
(* Sequence numbers follow requests.                                        *)

LEMMA StepNumbered == ASSUME IInv, [Next]_vars PROVE Numbered'
<1> USE DEF readerVars, poolVars, orderVars
<1>1. Typed /\ Typed' /\ Control /\ Numbered /\ Waiting
  BY StepTyped DEF IInv
<1>2. \A a \in Items : a.seq \in Nat /\ a.req \in Nat
  BY ItemsTyped DEF Jobs, Requests
<1>3. CASE Send
  <2> DEFINE j == [seq |-> nextSeq, req |-> current]
             n == Len(order)
  <2>1. /\ Items' = Items \cup {j} /\ current # 0 /\ current' = 0
        /\ nextSeq' = nextSeq + 1 /\ order' = Append(order, nextSeq)
        /\ nextSeq \in Nat /\ current \in Nat
    BY <1>1, <1>3, ItemsSent DEF Send, Control, Typed
  <2>2. \A a \in Items : a.seq < nextSeq /\ a.req < current
    BY <1>1, <2>1 DEF Numbered
  <2>3. /\ n \in Nat /\ DOMAIN order = 1 .. n /\ DOMAIN order' = 1 .. n + 1
        /\ \A i \in 1 .. n : order'[i] = order[i] /\ order[i] \in Nat
        /\ order'[n + 1] = nextSeq
    <3>1. order \in Seq(Nat)
      BY <1>1 DEF Typed
    <3>2. /\ n \in Nat /\ DOMAIN order = 1 .. n
          /\ \A i \in 1 .. n : order[i] \in Nat
      BY <3>1
    <3>3. /\ DOMAIN order' = 1 .. n + 1 /\ order'[n + 1] = nextSeq
          /\ \A i \in 1 .. n : order'[i] = order[i]
      BY <2>1, <3>1
    <3> QED
      BY <3>2, <3>3
  <2>4. \A a, b \in Items' : /\ a.seq < b.seq => a.req < b.req
                             /\ a.seq = b.seq => a.req = b.req
    BY <1>1, <1>2, <2>1, <2>2 DEF Numbered
  <2>5. \A a \in Items' : /\ a.seq < nextSeq'
                          /\ \E i \in DOMAIN order' : order'[i] = a.seq
    <3>1. \A a \in Items : \E i \in DOMAIN order' : order'[i] = a.seq
      BY <1>1, <2>3 DEF Numbered
    <3>2. \E i \in DOMAIN order' : order'[i] = j.seq
      BY <2>3
    <3> QED
      BY <1>2, <2>1, <2>2, <3>1, <3>2
  <2>6. \A i \in 1 .. n : order[i] < nextSeq
    BY <1>1, <2>3 DEF Numbered
  <2>7. (\A i, k \in DOMAIN order : i < k => order[i] < order[k])'
        /\ (\A i \in DOMAIN order : order[i] < nextSeq)'
    BY <1>1, <2>1, <2>3, <2>6 DEF Numbered
  <2> QED
    BY <2>1, <2>4, <2>5, <2>7 DEF Numbered
<1>4. CASE Deliver
  <2>1. PICK c \in completed : c.seq = Head(order) /\ Items' = Items \ {c}
    BY <1>4, ItemsDelivered
  <2>2. /\ order # <<>> /\ order' = Tail(order)
        /\ UNCHANGED <<nextSeq, current>>
    BY <1>4 DEF Deliver
  <2>3. /\ Len(order) \in Nat \ {0} /\ DOMAIN order = 1 .. Len(order)
        /\ DOMAIN order' = 1 .. Len(order) - 1
        /\ Head(order) = order[1]
        /\ \A i \in 1 .. Len(order) - 1 : order'[i] = order[i + 1]
    BY <1>1, <2>2 DEF Typed
  <2>4. \A a \in Items' : a.seq # order[1]
    <3>1. \A a \in Items : a.seq = c.seq => a.req = c.req
      BY <1>1 DEF Numbered, Items
    <3>2. \A a \in Items : a.req = c.req => a = c
      <4>1. c.req \in DOMAIN sent /\ c \in ResponsesOf(c.req)
        BY ItemsTyped DEF Items, ResponsesOf
      <4>2. /\ JobsOf(c.req) = {} /\ WorkersOf(c.req) = {}
            /\ \A a, b \in ResponsesOf(c.req) : a = b
        BY <4>1, OnePlaceOnly DEF IInv
      <4> QED
        BY <4>1, <4>2 DEF Items, JobsOf, WorkersOf, ResponsesOf
    <3> QED
      BY <2>1, <2>3, <3>1, <3>2
  <2>5. \A a \in Items' : \E i \in DOMAIN order' : order'[i] = a.seq
    <3> SUFFICES ASSUME NEW a \in Items'
                 PROVE  \E i \in DOMAIN order' : order'[i] = a.seq
      OBVIOUS
    <3>1. PICK i \in DOMAIN order : order[i] = a.seq
      BY <1>1, <2>1 DEF Numbered
    <3>2. i # 1
      BY <2>4, <3>1
    <3>3. i - 1 \in DOMAIN order' /\ order'[i - 1] = order[i]
      BY <2>3, <3>1, <3>2
    <3> QED
      BY <3>1, <3>3
  <2>6. \A a \in Items' : a \in Items
    BY <2>1
  <2>7. (\A i, k \in DOMAIN order : i < k => order[i] < order[k])'
    <3>1. \A i, k \in DOMAIN order : i < k => order[i] < order[k]
      BY <1>1 DEF Numbered
    <3>2. \A i \in DOMAIN order' : i \in Nat /\ i + 1 \in DOMAIN order
      BY <2>3
    <3> QED
      BY <2>3, <3>1, <3>2
  <2>8. (\A i \in DOMAIN order : order[i] < nextSeq)'
    BY <1>1, <2>2, <2>3 DEF Numbered
  <2> QED
    BY <1>1, <2>2, <2>5, <2>6, <2>7, <2>8 DEF Numbered
<1>5. CASE Items' = Items /\ UNCHANGED <<order, pending, nextSeq>>
  <2>1. \A a \in Items : current' # 0 => a.req < current'
    <3>1. CASE Dispatch
      <4>1. 1 \in RequestEvents /\ events[1] = Head(events) /\ current' = Head(events).req
        BY <1>1, <3>1 DEF Dispatch, Event, RequestEvents, Typed
      <4> QED
        BY <1>1, <4>1 DEF Waiting
    <3>2. CASE current' \in {0, current}
      BY <1>1, <3>2 DEF Numbered
    <3>3. Dispatch \/ current' \in {0, current}
      BY DEF Next, Reader, ReadRequest, ReadCancel, ReadMalformed, ReadEnd,
             Main, Collect, Deliver, Delivered, GraphUnavailable, Send,
             TurnDown, Cancel, Malformed, InputEnds, NoEvent, Return,
             DeliverFails, Worker, Take, Check, RunTool, DropGuard, Respond,
             EndWorker, vars
    <3> QED
      BY <3>1, <3>2, <3>3
  <2> QED
    BY <1>1, <1>5, <2>1 DEF Numbered
<1> QED
  BY <1>3, <1>4, <1>5, ItemsStep

-----------------------------------------------------------------------------
(* The registry.                                                            *)

\* The requests that are dispatched or on their way were read.
LEMMA HeldWereRead ==
    ASSUME IInv
    PROVE  /\ current # 0 => current \in DOMAIN sent
           /\ \A i \in DOMAIN jobs : jobs[i].req \in DOMAIN sent
           /\ \A w \in Workers : job[w] # NoJob => job[w].req \in DOMAIN sent
           /\ \A w \in Workers : wpc[w] \in {"check", "run", "drop", "respond"}
                => job[w] # NoJob
<1>1. current # 0 => current \in DOMAIN sent
  BY DEF IInv, Typed, WereRead
<1>2. \A i \in DOMAIN jobs : jobs[i] \in Items
  BY DEF Items
<1>3. \A w \in Workers : job[w] # NoJob => job[w] \in Items
  BY DEF Items
<1> QED
  BY <1>1, <1>2, <1>3, ItemsTyped DEF IInv, Control

LEMMA StepGuarded == ASSUME IInv, [Next]_vars PROVE Guarded'
<1> USE DEF readerVars, poolVars, orderVars
<1>1. Typed /\ Control /\ Guarded
  BY DEF IInv
<1>2. \A r \in DOMAIN sent : /\ IdOf(r)' = IdOf(r) /\ IsToolCall(r)' = IsToolCall(r)
                             /\ IdOf(r) \in Ids
  BY <1>1, SentGrows
<1> SUFFICES ASSUME NEW id \in Ids, registry'[id] # 0
             PROVE  HasGuard(id)'
  BY DEF Guarded
<1>3. CASE Dispatch
  <2> DEFINE r == Head(events).req
  <2>1. /\ r \in DOMAIN sent /\ r # 0 /\ current' = r /\ current = 0
        /\ UNCHANGED <<sent, jobs, wpc, job>>
    BY <1>1, <1>3, TakenWasRead DEF Dispatch, Event, Control, Typed
  <2>2. CASE IsToolCall(r) /\ IdOf(r) = id
    BY <1>2, <2>1, <2>2 DEF HasGuard
  <2>3. CASE ~(IsToolCall(r) /\ IdOf(r) = id)
    <3>1. registry'[id] = registry[id]
      BY <1>1, <1>3, <2>3 DEF Dispatch, Typed
    <3>2. HasGuard(id)
      BY <1>1, <3>1 DEF Guarded
    <3> QED
      BY <2>1, <3>2 DEF HasGuard, IdOf, IsToolCall
  <2> QED
    BY <2>2, <2>3
<1>4. CASE Send
  <2> DEFINE n == Len(jobs)
             j == [seq |-> nextSeq, req |-> current]
  <2>1. HasGuard(id) /\ current \in DOMAIN sent /\ UNCHANGED <<sent, wpc, job>>
    BY <1>1, <1>4, HeldWereRead DEF Send, Guarded, Control
  <2>2. /\ n \in Nat /\ DOMAIN jobs = 1 .. n /\ DOMAIN jobs' = 1 .. n + 1
        /\ \A i \in 1 .. n : jobs'[i] = jobs[i]
        /\ jobs'[n + 1].req = current
    <3>1. j \in Jobs
      BY <1>1, <2>1, ParametersOK DEF Typed, Jobs, Requests
    <3> QED
      BY <1>1, <1>4, <3>1 DEF Send, Typed
  <2> QED
    BY <2>1, <2>2 DEF HasGuard, IdOf, IsToolCall
<1>5. CASE TurnDown
  <2>1. /\ registry'[id] = IF IdOf(current) = id THEN 0 ELSE registry[id]
        /\ UNCHANGED <<sent, jobs, wpc, job>>
    BY <1>1, <1>5 DEF TurnDown, Unregister, Typed
  <2>2. HasGuard(id) /\ IdOf(current) # id
    BY <1>1, <2>1 DEF Guarded
  <2> QED
    BY <2>1, <2>2 DEF HasGuard, IdOf, IsToolCall
<1>6. ASSUME NEW w \in Workers, Take(w)
      PROVE  HasGuard(id)'
  <2> DEFINE n == Len(jobs)
  <2>1. HasGuard(id) /\ wpc[w] = "idle" /\ UNCHANGED <<sent, current>>
    BY <1>1, <1>6 DEF Take, Guarded
  <2>2. /\ wpc'[w] = IF IsToolCall(jobs[1].req) THEN "check" ELSE "respond"
        /\ job'[w] = jobs[1]
        /\ \A v \in Workers : v # w => wpc'[v] = wpc[v] /\ job'[v] = job[v]
    BY <1>1, <1>6 DEF Take, Typed
  <2>3. /\ n \in Nat \ {0} /\ DOMAIN jobs = 1 .. n /\ DOMAIN jobs' = 1 .. n - 1
        /\ \A i \in 1 .. n - 1 : jobs'[i] = jobs[i + 1]
    BY <1>1, <1>6 DEF Take, Typed
  <2>4. CASE \E i \in DOMAIN jobs : IdOf(jobs[i].req) = id /\ IsToolCall(jobs[i].req)
    <3>1. PICK i \in DOMAIN jobs : IdOf(jobs[i].req) = id /\ IsToolCall(jobs[i].req)
      BY <2>4
    <3>2. CASE i = 1
      BY <2>1, <2>2, <3>1, <3>2 DEF HasGuard, IdOf, IsToolCall
    <3>3. CASE i # 1
      <4>1. i - 1 \in DOMAIN jobs' /\ jobs'[i - 1] = jobs[i]
        BY <2>3, <3>1, <3>3
      <4> QED
        BY <2>1, <3>1, <4>1 DEF HasGuard, IdOf, IsToolCall
    <3> QED
      BY <3>2, <3>3
  <2>5. CASE current # 0 /\ IdOf(current) = id /\ IsToolCall(current)
    BY <2>1, <2>5 DEF HasGuard, IdOf, IsToolCall
  <2>6. CASE \E v \in Workers : /\ wpc[v] \in {"check", "run", "drop"}
                                /\ IdOf(job[v].req) = id
    BY <2>1, <2>2, <2>6 DEF HasGuard, IdOf
  <2> QED
    BY <2>1, <2>4, <2>5, <2>6 DEF HasGuard
<1>7. ASSUME NEW w \in Workers, Check(w)
      PROVE  HasGuard(id)'
  <2>1. /\ wpc[w] = "check" /\ wpc'[w] \in {"run", "drop"}
        /\ \A v \in Workers : v # w => wpc'[v] = wpc[v]
        /\ UNCHANGED <<sent, current, jobs, job>>
        /\ registry'[id] = registry[id] \/ IdOf(job[w].req) = id
    BY <1>1, <1>7 DEF Check, Typed
  <2>2. HasGuard(id) \/ IdOf(job[w].req) = id
    BY <1>1, <2>1 DEF Guarded
  <2> QED
    BY <2>1, <2>2 DEF HasGuard, IdOf, IsToolCall
<1>8. ASSUME NEW w \in Workers, RunTool(w) \/ EndWorker(w)
      PROVE  HasGuard(id)'
  <2>1. /\ (wpc[w] = "run" /\ wpc'[w] = "drop") \/ wpc[w] = "idle"
        /\ \A v \in Workers : v # w => wpc'[v] = wpc[v]
        /\ UNCHANGED <<sent, current, jobs, job, registry>>
    BY <1>1, <1>8 DEF RunTool, EndWorker, Typed
  <2>2. HasGuard(id)
    BY <1>1, <2>1 DEF Guarded
  <2> QED
    BY <2>1, <2>2 DEF HasGuard, IdOf, IsToolCall
<1>9. ASSUME NEW w \in Workers, DropGuard(w)
      PROVE  HasGuard(id)'
  <2>1. /\ \A v \in Workers : v # w => wpc'[v] = wpc[v]
        /\ UNCHANGED <<sent, current, jobs, job>>
        /\ registry'[id] = IF IdOf(job[w].req) = id THEN 0 ELSE registry[id]
    BY <1>1, <1>9 DEF DropGuard, Unregister, Typed
  <2>2. HasGuard(id) /\ IdOf(job[w].req) # id
    BY <1>1, <2>1 DEF Guarded
  <2> QED
    BY <2>1, <2>2 DEF HasGuard, IdOf, IsToolCall
<1>10. ASSUME NEW w \in Workers, Respond(w)
       PROVE  HasGuard(id)'
  <2>1. /\ wpc[w] = "respond"
        /\ \A v \in Workers : v # w => wpc'[v] = wpc[v] /\ job'[v] = job[v]
        /\ UNCHANGED <<sent, current, jobs, registry>>
    BY <1>1, <1>10 DEF Respond, Typed
  <2>2. HasGuard(id)
    BY <1>1, <2>1 DEF Guarded
  <2> QED
    BY <2>1, <2>2 DEF HasGuard, IdOf, IsToolCall
<1>11. CASE UNCHANGED <<registry, current, jobs, wpc, job>>
  <2>1. HasGuard(id)
    BY <1>1, <1>11 DEF Guarded
  <2> QED
    BY <1>2, <1>11, <2>1, HeldWereRead DEF HasGuard
<1> QED
  BY <1>3, <1>4, <1>5, <1>6, <1>7, <1>8, <1>9, <1>10, <1>11
  DEF Next, Reader, ReadRequest, ReadCancel, ReadMalformed, ReadEnd, Main,
      Collect, Deliver, Delivered, GraphUnavailable, Cancel, Malformed,
      InputEnds, NoEvent, Return, DeliverFails, Worker, vars

-----------------------------------------------------------------------------
(* What holds of every behaviour.                                           *)

LEMMA InitIInv == Init => IInv
<1> SUFFICES ASSUME Init
             PROVE  IInv
  OBVIOUS
<1> USE DEF Init, NoJob
<1>1. Typed
  <2>1. 0 <= MaxInFlight
    BY ParametersOK, FS_CardinalityType DEF MaxInFlight
  <2>2. /\ sent \in Seq(Records) /\ events \in Seq(Events) /\ jobs \in Seq(Jobs)
        /\ order \in Seq(Nat) /\ out \in Seq(Nat)
        /\ Len(sent) = 0 /\ Len(jobs) = 0
    OBVIOUS
  <2>3. /\ wpc \in [Workers -> {"idle", "check", "run", "drop", "respond", "ended"}]
        /\ job \in [Workers -> Jobs \cup {NoJob}]
        /\ registry \in [Ids -> Nat]
    OBVIOUS
  <2>4. /\ notes = 0 /\ reading = TRUE /\ loaded = FALSE /\ current = 0
        /\ cancelled = {} /\ results = {} /\ completed = {} /\ pending = 0
        /\ nextSeq = 0 /\ eof = FALSE /\ mpc = "collect"
    OBVIOUS
  <2> HIDE DEF Init, NoJob
  <2>5. /\ Len(sent) <= MaxRequests /\ notes \in 0 .. MaxNotes
        /\ Len(jobs) <= MaxInFlight
    BY <2>1, <2>2, <2>4, ParametersOK
  <2> QED
    BY <2>2, <2>3, <2>4, <2>5 DEF Typed
<1>2. Control
  BY DEF Control
<1>3. Items = {}
  BY DEF Items
<1>4. WereRead
  BY <1>3 DEF WereRead
<1>5. Apart
  BY FS_EmptySet DEF Apart
<1>6. OneResponseEach
  BY DEF OneResponseEach
<1>7. RequestEvents = {}
  BY DEF RequestEvents
<1>8. Waiting
  <2>1. Cardinality(RequestEvents) = 0
    BY <1>7, FS_EmptySet
  <2> QED
    BY <1>7, <2>1 DEF Waiting
<1>9. Numbered
  BY <1>3 DEF Numbered
<1>10. Guarded
  BY DEF Guarded
<1> QED
  BY <1>1, <1>2, <1>4, <1>5, <1>6, <1>8, <1>9, <1>10 DEF IInv

LEMMA StepIInv == IInv /\ [Next]_vars => IInv'
<1> SUFFICES ASSUME IInv, [Next]_vars
             PROVE  IInv'
  OBVIOUS
<1>1. Typed' /\ Control' /\ WereRead' /\ Apart'
  BY StepTyped, StepControl, StepWereRead, StepApart DEF IInv
<1>2. OneResponseEach' /\ Waiting' /\ Numbered' /\ Guarded'
  BY StepOneResponse, StepWaiting, StepNumbered, StepGuarded
<1> QED
  BY <1>1, <1>2 DEF IInv

\* In every state each request is at one place, sequence numbers follow the
\* order of the requests, and what is registered is still guarded.
THEOREM InvariantHolds == Spec => []IInv
BY InitIInv, StepIInv, PTL DEF Spec

LEMMA SeqNarrowed ==
    ASSUME NEW S, NEW T, NEW s \in Seq(S), \A i \in DOMAIN s : s[i] \in T
    PROVE  s \in Seq(T)
<1>1. Len(s) \in Nat /\ s \in [1 .. Len(s) -> T]
  OBVIOUS
<1> QED
  BY <1>1

LEMMA IInvTypes == IInv => TypeOK
<1> SUFFICES ASSUME IInv
             PROVE  TypeOK
  OBVIOUS
<1> USE DEF Typed
<1>1. Typed /\ WereRead
  BY DEF IInv
<1>2. \A i \in DOMAIN events :
          events[i].type \in {"Request", "Cancel", "Parse", "Eof", "Fatal"}
  BY <1>1 DEF Events
<1>3. /\ current \in 0 .. Len(sent)
      /\ registry \in [Ids -> 0 .. Len(sent)]
      /\ cancelled \subseteq DOMAIN sent
  BY <1>1 DEF WereRead
<1>4. \A i \in DOMAIN jobs : jobs[i].req \in DOMAIN sent
  BY HeldWereRead
<1>5. \A w \in Workers : job[w].req \in 0 .. Len(sent)
  BY <1>1, HeldWereRead DEF NoJob
<1>6. nextSeq \in 0 .. Len(sent)
  <2>1. Cardinality(RequestEvents) \in Nat
    BY PlacesAreCounted DEF IInv, PlacesCounted
  <2> QED
    BY <1>1, <2>1 DEF IInv, Waiting
<1>7. \A a \in Items : a \in [seq : 0 .. MaxRequests, req : DOMAIN sent]
  BY <1>1, <1>6, ItemsTyped, ParametersOK DEF IInv, Numbered, Jobs
<1>8. results \cup completed \subseteq [seq : 0 .. MaxRequests, req : DOMAIN sent]
  BY <1>7 DEF Items
<1>9. order \in Seq(0 .. MaxRequests)
  <2>1. \A i \in DOMAIN order : order[i] \in 0 .. MaxRequests
    BY <1>1, <1>6, ParametersOK DEF IInv, Numbered
  <2> QED
    BY <1>1, <2>1, SeqNarrowed
<1>10. out \in Seq(0 .. Len(sent))
  <2>1. \A i \in DOMAIN out : out[i] \in 0 .. Len(sent)
    BY <1>1 DEF WereRead
  <2> QED
    BY <1>1, <2>1, SeqNarrowed
<1> QED
  BY <1>1, <1>2, <1>3, <1>4, <1>5, <1>6, <1>8, <1>9, <1>10 DEF TypeOK, Records

\* Every variable keeps its type; in particular no more sequence numbers are
\* given than requests read, and the queue never exceeds its places.
THEOREM TypesHold == Spec => []TypeOK
BY InvariantHolds, IInvTypes, PTL

\* Every request that was read is at exactly one place: waiting, being
\* dispatched, queued, with a worker, among the responses, or answered; and it
\* is answered at most once.
THEOREM EachIsAnsweredOnce == Spec => []OneResponseEach
<1>1. IInv => OneResponseEach
  BY DEF IInv
<1> QED
  BY <1>1, InvariantHolds, PTL

\* Nothing stays in the registry of a request that has passed its guard,
\* whatever ids clients use.
THEOREM NothingIsLeftRegistered == Spec => []RegistryIsClean
<1>1. IInv => RegistryIsClean
  BY DEF IInv, Guarded, HasGuard, RegistryIsClean
<1> QED
  BY <1>1, InvariantHolds, PTL

-----------------------------------------------------------------------------
(* The order of the answers.                                                *)

ItemsAreInFlight == InFlight = {a.req : a \in Items}

LEMMA InFlightIs == IInv => ItemsAreInFlight
<1> SUFFICES ASSUME IInv
             PROVE  ItemsAreInFlight
  OBVIOUS
<1>1. \A w \in Workers : job[w].req # 0 <=> job[w] # NoJob
  BY DEF IInv, Typed, Jobs, Requests, NoJob
<1> QED
  BY <1>1 DEF InFlight, Items, ItemsAreInFlight

LEMMA InFlightIsNext == IInv' => ItemsAreInFlight'
BY InFlightIs, PTL

\* A response is written only when every request that is still on its way was
\* read later, whichever worker is done first.
THEOREM AnswersComeInOrder == Spec => AnswersInOrder
<1> DEFINE Ordered == \A r \in InFlight : r \notin InFlight' =>
                          \A q \in InFlight' : r < q
<1>1. IInv /\ IInv' /\ [Next]_vars => Ordered
  <2> SUFFICES ASSUME IInv, IInv', [Next]_vars,
                      NEW r \in InFlight, r \notin InFlight',
                      NEW q \in InFlight'
               PROVE  r < q
    OBVIOUS
  <2>1. PICK a \in Items : a.req = r
    BY InFlightIs DEF ItemsAreInFlight
  <2>2. PICK b \in Items' : b.req = q
    BY InFlightIsNext DEF ItemsAreInFlight
  <2>3. a \notin Items'
    BY <2>1, InFlightIsNext DEF ItemsAreInFlight
  <2>4. Deliver
    BY <2>1, <2>3, ItemsStep, ItemsSent
  <2>5. PICK c \in completed : c.seq = Head(order) /\ Items' = Items \ {c}
    BY <2>4, ItemsDelivered
  <2>6. a = c /\ b \in Items
    BY <2>1, <2>2, <2>3, <2>5
  <2>7. \A d \in Items : d.seq >= Head(order)
    <3>1. /\ order \in Seq(Nat) /\ order # <<>>
          /\ Head(order) = order[1] /\ 1 \in DOMAIN order
          /\ \A i \in DOMAIN order : order[i] \in Nat /\ i \in Nat \ {0}
      <4>1. order \in Seq(Nat) /\ order # <<>>
        BY <2>4 DEF IInv, Typed, Deliver
      <4> QED
        BY <4>1
    <3>2. \A i \in DOMAIN order : order[1] <= order[i]
      BY <3>1 DEF IInv, Numbered
    <3>3. \A d \in Items : \E i \in DOMAIN order : order[i] = d.seq
      BY DEF IInv, Numbered
    <3> QED
      BY <3>1, <3>2, <3>3
  <2>8. a.seq < b.seq \/ a.seq = b.seq
    BY <2>5, <2>6, <2>7, ItemsTyped DEF Jobs
  <2>9. a.seq < b.seq => a.req < b.req
    BY <2>6 DEF IInv, Numbered
  <2>10. a.seq = b.seq => a.req = b.req
    BY <2>6 DEF IInv, Numbered
  <2>11. r # q
    OBVIOUS
  <2> QED
    BY <2>1, <2>2, <2>8, <2>9, <2>10, <2>11
<1>2. IInv /\ IInv' /\ [Next]_vars => [Ordered]_vars
  BY <1>1
<1> QED
  BY <1>2, InvariantHolds, PTL DEF AnswersInOrder, Spec

-----------------------------------------------------------------------------
(* Cancellation, when a client does not reuse the id of an open request.    *)

Open(r) == EventsOf(r) # {} \/ current = r \/ JobsOf(r) # {} \/ WorkersOf(r) # {}

LEMMA OpenIsUnanswered ==
    ASSUME IInv, NEW r \in DOMAIN sent, Open(r)
    PROVE  ~Answered(r)
<1>1. AnswersOf(r) = {}
  BY OnePlaceOnly DEF IInv, Open
<1> QED
  BY <1>1 DEF Answered, AnswersOf

LEMMA OpenIdsAreDistinct ==
    ASSUME IInv, OpenIdsDiffer, NEW q \in DOMAIN sent, NEW r \in DOMAIN sent,
           Open(q), Open(r), q # r
    PROVE  IdOf(q) # IdOf(r)
<1>1. ~Answered(q) /\ ~Answered(r)
  BY OpenIsUnanswered
<1>2. q \in Nat /\ r \in Nat
  BY DEF IInv, Typed
<1> QED
  BY <1>1, <1>2 DEF OpenIdsDiffer

LEMMA AnsweredStays ==
    ASSUME IInv, [Next]_vars, NEW r, Answered(r)
    PROVE  Answered(r)'
<1>1. out \in Seq(Nat)
  BY DEF IInv, Typed
<1>2. out' = out \/ \E a \in Nat : out' = Append(out, a)
  <2>1. CASE Deliver
    BY <2>1 DEF Deliver, IInv, Typed, Jobs, Requests
  <2>2. CASE GraphUnavailable
    <3>1. Head(events).req \in Nat
      BY <2>2, TakenWasRead DEF GraphUnavailable, Event, IInv, Typed
    <3> QED
      BY <2>2, <3>1 DEF GraphUnavailable, WriteNow
  <2>3. CASE TurnDown
    BY <2>3 DEF TurnDown, WriteNow, IInv, Typed
  <2>4. CASE Malformed \/ InputEnds
    BY <2>4 DEF Malformed, InputEnds, WriteNow
  <2> QED
    BY <2>1, <2>2, <2>3, <2>4
    DEF Next, Reader, ReadRequest, ReadCancel, ReadMalformed, ReadEnd, Main,
        Collect, Delivered, Dispatch, Send, Cancel, NoEvent, Return,
        DeliverFails, Worker, Take, Check, RunTool, DropGuard, Respond,
        EndWorker, vars
<1>3. \A i \in DOMAIN out : i \in DOMAIN out' /\ out'[i] = out[i]
  BY <1>1, <1>2
<1> QED
  BY <1>3 DEF Answered

LEMMA StepOpenIds ==
    ASSUME UniqueIds, IInv, [Next]_vars, OpenIdsDiffer
    PROVE  OpenIdsDiffer'
<1> SUFFICES ASSUME NEW q \in DOMAIN sent', NEW r \in DOMAIN sent', q < r,
                    IdOf(q)' = IdOf(r)'
             PROVE  Answered(q)'
  BY DEF OpenIdsDiffer
<1>1. Typed
  BY DEF IInv
<1>2. CASE r \in DOMAIN sent
  <2>1. q \in DOMAIN sent
    BY <1>1, <1>2, SentGrows
  <2>2. Answered(q)
    BY <1>1, <1>2, <2>1, SentGrows DEF OpenIdsDiffer
  <2> QED
    BY <2>2, AnsweredStays
<1>3. CASE r \notin DOMAIN sent
  <2>1. PICK id \in Ids, kind \in Kinds : ReadRequest(id, kind)
    <3>1. sent' # sent
      BY <1>3
    <3> QED
      BY <3>1 DEF Next, Reader, ReadCancel, ReadMalformed, ReadEnd, Main,
         Collect, Deliver, Delivered, Dispatch, GraphUnavailable, Send,
         TurnDown, Cancel, Malformed, InputEnds, NoEvent, Return, DeliverFails,
         Worker, Take, Check, RunTool, DropGuard, Respond, EndWorker, vars,
         readerVars
  <2>2. /\ DOMAIN sent = 1 .. Len(sent) /\ DOMAIN sent' = 1 .. Len(sent) + 1
        /\ Len(sent) \in Nat
        /\ sent'[Len(sent) + 1] = [id |-> id, kind |-> kind]
    <3>1. [id |-> id, kind |-> kind] \in Records
      BY DEF Records
    <3> QED
      BY <1>1, <2>1, <3>1 DEF ReadRequest, Typed
  <2>3. r = Len(sent) + 1 /\ q \in DOMAIN sent
    BY <1>3, <2>2
  <2>4. IdOf(q) = id
    BY <1>1, <2>2, <2>3, SentGrows DEF IdOf
  <2>5. Answered(q)
    BY <2>1, <2>3, <2>4 DEF ReadRequest
  <2> QED
    BY <2>5, AnsweredStays
<1> QED
  BY <1>2, <1>3

LEMMA ReachableIsOpen ==
    ASSUME NEW r, Reachable(r)
    PROVE  Open(r)
BY DEF Reachable, Running, Open, JobsOf, WorkersOf

\* Only a dispatch makes a call reachable.
LEMMA ReachableStep ==
    ASSUME IInv, [Next]_vars, ~Dispatch, NEW r \in DOMAIN sent', Reachable(r)'
    PROVE  r \in DOMAIN sent /\ Reachable(r)
<1> USE DEF readerVars, poolVars, orderVars
<1>1. Typed /\ Control
  BY DEF IInv
<1>2. /\ DOMAIN sent = 1 .. Len(sent) /\ DOMAIN sent' = 1 .. Len(sent')
      /\ \A q \in DOMAIN sent : sent'[q] = sent[q]
  BY <1>1, SentGrows
<1>3. ASSUME r \in DOMAIN sent,
             current' = r => current = r,
             (\E i \in DOMAIN jobs' : jobs'[i].req = r)
               => current = r \/ \E i \in DOMAIN jobs : jobs[i].req = r,
             (\E w \in Workers : job'[w].req = r /\ wpc'[w] \in {"check", "run"})
               => \/ \E i \in DOMAIN jobs : jobs[i].req = r
                  \/ \E w \in Workers : job[w].req = r
                                        /\ wpc[w] \in {"check", "run"}
      PROVE  r \in DOMAIN sent /\ Reachable(r)
  <2>1. sent'[r].kind = "call" /\ sent[r].kind = "call"
    BY <1>2, <1>3 DEF Reachable, Running
  <2> QED
    BY <1>3, <2>1 DEF Reachable, Running
<1>4. CASE Send
  <2> DEFINE j == [seq |-> nextSeq, req |-> current]
  <2>1. j \in Jobs
    BY <1>1, <1>4, HeldWereRead, ParametersOK
    DEF Send, Control, Typed, Jobs, Requests
  <2>2. /\ DOMAIN jobs = 1 .. Len(jobs) /\ DOMAIN jobs' = 1 .. Len(jobs) + 1
        /\ \A i \in 1 .. Len(jobs) : jobs'[i] = jobs[i]
        /\ jobs'[Len(jobs) + 1].req = current
        /\ Len(jobs) \in Nat
    BY <1>1, <1>4, <2>1 DEF Send, Typed
  <2>3. UNCHANGED <<sent, wpc, job>> /\ current' = 0 /\ r # 0
    BY <1>1, <1>2, <1>4 DEF Send, Typed
  <2> QED
    BY <1>3, <2>2, <2>3
<1>5. CASE TurnDown
  <2>1. UNCHANGED <<sent, jobs, wpc, job>> /\ current' = 0 /\ r # 0
    BY <1>1, <1>2, <1>5 DEF TurnDown, Typed
  <2> QED
    BY <1>3, <2>1
<1>6. ASSUME NEW w \in Workers, Take(w)
      PROVE  r \in DOMAIN sent /\ Reachable(r)
  <2>1. /\ UNCHANGED <<sent, current>> /\ job'[w] = jobs[1] /\ 1 \in DOMAIN jobs
        /\ \A v \in Workers : v # w => job'[v] = job[v] /\ wpc'[v] = wpc[v]
        /\ \A i \in DOMAIN jobs' : i + 1 \in DOMAIN jobs /\ jobs'[i] = jobs[i + 1]
    BY <1>1, <1>6 DEF Take, Typed
  <2> QED
    BY <1>3, <2>1
<1>7. ASSUME NEW w \in Workers, Check(w)
      PROVE  r \in DOMAIN sent /\ Reachable(r)
  <2>1. /\ UNCHANGED <<sent, current, jobs, job>> /\ wpc[w] = "check"
        /\ \A v \in Workers : v # w => wpc'[v] = wpc[v]
    BY <1>1, <1>7 DEF Check, Typed
  <2> QED
    BY <1>3, <2>1
<1>8. ASSUME NEW w \in Workers,
             RunTool(w) \/ DropGuard(w) \/ Respond(w) \/ EndWorker(w)
      PROVE  r \in DOMAIN sent /\ Reachable(r)
  <2>1. /\ UNCHANGED <<sent, current, jobs>> /\ wpc'[w] \notin {"check", "run"}
        /\ \A v \in Workers : v # w => wpc'[v] = wpc[v] /\ job'[v] = job[v]
    BY <1>1, <1>8 DEF RunTool, DropGuard, Respond, EndWorker, Typed
  <2> QED
    BY <1>3, <2>1
<1>9. CASE UNCHANGED <<current, jobs, wpc, job>>
  <2>1. r \in DOMAIN sent
    BY <1>2, <1>9, HeldWereRead DEF Reachable, Running
  <2> QED
    BY <1>3, <1>9, <2>1
<1> QED
  BY <1>4, <1>5, <1>6, <1>7, <1>8, <1>9
  DEF Next, Reader, ReadRequest, ReadCancel, ReadMalformed, ReadEnd, Main,
      Collect, Deliver, Delivered, GraphUnavailable, Cancel, Malformed,
      InputEnds, NoEvent, Return, DeliverFails, Worker, vars

\* The entry of an id is written for, or taken out by, an open request that
\* has this id.
LEMMA RegistryStep ==
    ASSUME IInv, [Next]_vars, NEW id \in Ids, registry'[id] # registry[id]
    PROVE  \E q \in DOMAIN sent :
             /\ IdOf(q) = id /\ Open(q)
             /\ registry'[id] = q \/ ~Reachable(q)'
<1> USE DEF readerVars, poolVars, orderVars
<1>1. Typed /\ Control
  BY DEF IInv
<1>2. CASE Dispatch
  <2> DEFINE q == Head(events).req
  <2>1. q \in DOMAIN sent /\ IdOf(q) = id /\ registry'[id] = q
    BY <1>1, <1>2, TakenWasRead DEF Dispatch, Event, Typed
  <2>2. 1 \in EventsOf(q)
    BY <1>1, <1>2 DEF EventsOf, Dispatch, Event, Typed
  <2> QED
    BY <2>1, <2>2 DEF Open
<1>3. CASE TurnDown
  <2> PICK q \in DOMAIN sent : q = current
    BY <1>1, <1>3, HeldWereRead DEF TurnDown, Control
  <2>1. IdOf(q) = id /\ Open(q)
    BY <1>1, <1>3 DEF TurnDown, Unregister, Typed, Open
  <2>2. ~Reachable(q)'
    <3>1. JobsOf(q) = {} /\ WorkersOf(q) = {}
      BY <2>1, OnePlaceOnly DEF IInv
    <3>2. current' = 0 /\ UNCHANGED <<jobs, wpc, job>> /\ q # 0
      BY <1>1, <1>3, <2>1 DEF TurnDown, Typed
    <3> QED
      BY <3>1, <3>2 DEF Reachable, Running, JobsOf, WorkersOf
  <2> QED
    BY <2>1, <2>2
<1>4. ASSUME NEW w \in Workers, Check(w)
      PROVE  \E q \in DOMAIN sent : IdOf(q) = id /\ Open(q) /\ registry'[id] = q
  <2> DEFINE q == job[w].req
  <2>1. q \in DOMAIN sent /\ w \in WorkersOf(q)
    BY <1>4, HeldWereRead DEF Check, WorkersOf
  <2>2. IdOf(q) = id /\ registry'[id] = q
    BY <1>1, <1>4 DEF Check, Typed
  <2> QED
    BY <2>1, <2>2 DEF Open
<1>5. ASSUME NEW w \in Workers, DropGuard(w)
      PROVE  \E q \in DOMAIN sent : IdOf(q) = id /\ Open(q) /\ ~Reachable(q)'
  <2> PICK q \in DOMAIN sent : q = job[w].req
    BY <1>5, HeldWereRead DEF DropGuard
  <2>1. w \in WorkersOf(q)
    BY DEF WorkersOf
  <2>2. IdOf(q) = id
    BY <1>1, <1>5 DEF DropGuard, Unregister, Typed
  <2>3. ~Reachable(q)'
    <3>1. /\ current # q /\ JobsOf(q) = {}
          /\ \A u, v \in WorkersOf(q) : u = v
      BY <2>1, OnePlaceOnly DEF IInv
    <3>2. /\ UNCHANGED <<current, jobs, job>> /\ wpc'[w] = "respond"
      BY <1>1, <1>5 DEF DropGuard, Typed
    <3>3. \A v \in Workers : job'[v].req = q => v = w
      BY <2>1, <3>1, <3>2 DEF WorkersOf
    <3> QED
      BY <3>1, <3>2, <3>3 DEF Reachable, Running, JobsOf
  <2> QED
    BY <2>1, <2>2, <2>3 DEF Open
<1>6. CASE registry' = registry
  BY <1>6
<1> QED
  BY <1>2, <1>3, <1>4, <1>5, <1>6
  DEF Next, Reader, ReadRequest, ReadCancel, ReadMalformed, ReadEnd, Main,
      Collect, Deliver, Delivered, GraphUnavailable, Send, Cancel, Malformed,
      InputEnds, NoEvent, Return, DeliverFails, Worker, Take, RunTool, Respond,
      EndWorker, vars

LEMMA StepAllReached ==
    ASSUME IInv, [Next]_vars, ReachInv
    PROVE  AllReached'
<1>1. Typed /\ OpenIdsDiffer /\ AllReached
  BY DEF IInv, ReachInv
<1> SUFFICES ASSUME NEW r \in DOMAIN sent', Reachable(r)'
             PROVE  registry'[IdOf(r)'] = r
  BY DEF AllReached
<1>2. CASE r \in DOMAIN sent /\ Reachable(r)
  <2>1. /\ IdOf(r)' = IdOf(r) /\ IdOf(r) \in Ids
        /\ registry[IdOf(r)] = r /\ Open(r)
    BY <1>1, <1>2, SentGrows, ReachableIsOpen DEF AllReached
  <2>2. CASE registry'[IdOf(r)] # registry[IdOf(r)]
    <3>1. PICK q \in DOMAIN sent : /\ IdOf(q) = IdOf(r) /\ Open(q)
                                   /\ registry'[IdOf(r)] = q \/ ~Reachable(q)'
      BY <2>1, <2>2, RegistryStep
    <3>2. q = r
      BY <1>1, <1>2, <2>1, <3>1, OpenIdsAreDistinct
    <3> QED
      BY <2>1, <3>1, <3>2
  <2> QED
    BY <2>1, <2>2
<1>3. CASE ~(r \in DOMAIN sent /\ Reachable(r))
  <2>1. Dispatch
    BY <1>3, ReachableStep
  <2> DEFINE q == Head(events).req
  <2>2. /\ current' = q /\ q \in DOMAIN sent
        /\ UNCHANGED <<sent, jobs, wpc, job>>
    BY <2>1, TakenWasRead DEF Dispatch, Event, readerVars, poolVars
  <2>3. r = q /\ sent[q].kind = "call"
    BY <1>3, <2>2 DEF Reachable, Running
  <2>4. registry' = [registry EXCEPT ![IdOf(q)] = q] /\ IdOf(q) \in Ids
    BY <1>1, <2>1, <2>2, <2>3, SentGrows DEF Dispatch, IsToolCall
  <2>5. IdOf(r)' = IdOf(q)
    BY <2>2, <2>3 DEF IdOf
  <2> QED
    BY <1>1, <2>3, <2>4, <2>5 DEF Typed
<1> QED
  BY <1>2, <1>3

\* When a client uses no id twice among its open requests, the id of a call
\* that is queued or whose tool has not ended leads to its own token, so a
\* cancellation reaches it.
THEOREM CancellationsReach ==
    ASSUME UniqueIds
    PROVE  Spec => []CancellationReaches
<1>1. Init => ReachInv
  BY DEF Init, ReachInv, OpenIdsDiffer, AllReached
<1>2. IInv /\ ReachInv /\ [Next]_vars => ReachInv'
  BY StepOpenIds, StepAllReached DEF ReachInv
<1>3. ReachInv => CancellationReaches
  BY DEF ReachInv, AllReached, Reachable, CancellationReaches
<1> QED
  BY <1>1, <1>2, <1>3, InvariantHolds, PTL DEF Spec
=============================================================================
