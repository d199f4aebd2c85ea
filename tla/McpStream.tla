------------------------------ MODULE McpStream ------------------------------
(***************************************************************************)
(* The MCP server on its streams: a reader thread that turns lines into    *)
(* events, the main thread that dispatches requests and writes every       *)
(* response, a pool of workers behind a bounded queue, and the registry    *)
(* that leads a cancellation from a request id to the token of the running *)
(* request.                                                                *)
(*                                                                         *)
(* Requests are numbered in the order they are read; the token of a        *)
(* request is its number, and 0 stands for none.  A response is            *)
(* represented by the request it answers, 0 if by none.                    *)
(***************************************************************************)
EXTENDS Naturals, Sequences, FiniteSets, SequencesExt

CONSTANTS
    Workers,     \* the pool; the queue has as many places
    Ids,         \* request ids clients use
    Kinds,       \* the kinds of requests they send
    UniqueIds,   \* a client uses no id twice among its open requests
    GraphFails,  \* the graph may not be loadable
    OutputFails, \* the output may be closed
    MaxRequests, \* bound: requests
    MaxNotes     \* bound: cancellations and malformed lines

\* A tools/call that runs its tool, one that is turned down for its
\* parameters, and any other request.
ASSUME ParametersOK ==
    /\ IsFiniteSet(Workers)
    /\ Kinds \subseteq {"call", "invalid", "other"}
    /\ {UniqueIds, GraphFails, OutputFails} \subseteq BOOLEAN
    /\ {MaxRequests, MaxNotes} \subseteq Nat

MaxInFlight == Cardinality(Workers)  \* MAX_IN_FLIGHT_REQUESTS
Requests == 1 .. MaxRequests

VARIABLES
    sent,      \* requests read so far: [id, kind]
    notes,     \* cancellations and malformed lines so far (bound only)
    reading,   \* the reader thread runs
    events,    \* channel from the reader to the main thread
    loaded,    \* the main thread has the graph
    current,   \* request being dispatched
    registry,  \* cancellations: the token registered for each id
    cancelled, \* tokens that were cancelled
    jobs,      \* the bounded queue: [seq, req]
    wpc,       \* control of each worker
    job,       \* the job of each worker
    results,   \* channel of responses: [seq, req]
    completed, \* responses that wait for their turn
    order,     \* response_order: sequence numbers
    pending,   \* count of dispatched requests without a response
    nextSeq,   \* next_sequence
    eof,       \* no event will follow
    mpc,       \* control of the main thread
    out        \* the requests whose responses were written, in order

readerVars == <<sent, notes, reading>>
poolVars == <<wpc, job>>
orderVars == <<order, pending, nextSeq>>
vars == <<sent, notes, reading, events, loaded, current, registry, cancelled,
          jobs, wpc, job, results, completed, order, pending, nextSeq, eof,
          mpc, out>>

NoJob == [seq |-> 0, req |-> 0]

Init ==
    /\ sent = <<>>
    /\ notes = 0
    /\ reading = TRUE
    /\ events = <<>>
    /\ loaded = FALSE
    /\ current = 0
    /\ registry = [id \in Ids |-> 0]
    /\ cancelled = {}
    /\ jobs = <<>>
    /\ wpc = [w \in Workers |-> "idle"]
    /\ job = [w \in Workers |-> NoJob]
    /\ results = {}
    /\ completed = {}
    /\ order = <<>>
    /\ pending = 0
    /\ nextSeq = 0
    /\ eof = FALSE
    /\ mpc = "collect"
    /\ out = <<>>

IdOf(r) == sent[r].id
IsToolCall(r) == sent[r].kind \in {"call", "invalid"}
Answered(r) == \E i \in DOMAIN out : out[i] = r
\* No collected response may be written now.
NothingDue == \A c \in completed : order = <<>> \/ c.seq # Head(order)

Unregister(id) == registry' = [registry EXCEPT ![id] = 0]

-----------------------------------------------------------------------------
(* Slips a change to this code could make, each with the parameters of the  *)
(* definition it would replace; never part of Next.                         *)

\* The queue takes one job more than it has places.
HasRoomForOneMore == Len(jobs) <= MaxInFlight

HasRoom == Len(jobs) < MaxInFlight

\* Whatever is complete is written.
DeliverAny ==
    /\ mpc = "deliver"
    /\ \E c \in completed :
         /\ completed' = completed \ {c}
         /\ order' = SelectSeq(order, LAMBDA s : s # c.seq)
         /\ out' = Append(out, c.req)
    /\ pending' = pending - 1
    /\ UNCHANGED <<readerVars, events, loaded, current, registry, cancelled,
                   jobs, poolVars, results, nextSeq, eof, mpc>>

\* A response is written but still counted as pending.
DeliverUncounted ==
    /\ mpc = "deliver"
    /\ order # <<>>
    /\ \E c \in completed :
         /\ c.seq = Head(order)
         /\ completed' = completed \ {c}
         /\ out' = Append(out, c.req)
    /\ order' = Tail(order)
    /\ UNCHANGED <<readerVars, events, loaded, current, registry, cancelled,
                   jobs, poolVars, results, pending, nextSeq, eof, mpc>>

\* The token is left to the worker to register.
DispatchUnregistered ==
    /\ mpc = "recv" /\ events # <<>> /\ Head(events).type = "Request"
    /\ current' = Head(events).req
    /\ loaded' = (loaded \/ IsToolCall(Head(events).req))
    /\ events' = Tail(events)
    /\ mpc' = "send"
    /\ UNCHANGED <<readerVars, registry, cancelled, jobs, poolVars, results,
                   completed, orderVars, eof, out>>

\* The error response is written and the request dispatched all the same.
GraphUnavailableGoesOn ==
    /\ mpc = "recv" /\ events # <<>> /\ Head(events).type = "Request"
    /\ IsToolCall(Head(events).req)
    /\ GraphFails /\ ~loaded
    /\ out' = Append(out, Head(events).req)
    /\ current' = Head(events).req
    /\ events' = Tail(events)
    /\ mpc' = "send"
    /\ UNCHANGED <<readerVars, loaded, registry, cancelled, jobs, poolVars,
                   results, completed, orderVars, eof>>

\* The loop ends with the input, whatever is still with the workers.
DeliveredLeavesEarly ==
    /\ mpc = "deliver"
    /\ NothingDue
    /\ mpc' = IF eof THEN "left" ELSE "recv"
    /\ UNCHANGED <<readerVars, events, loaded, current, registry, cancelled,
                   jobs, poolVars, results, completed, orderVars, eof, out>>

\* The guard is only made once the parameters are found good.
CheckUnguarded(w) ==
    /\ wpc[w] = "check"
    /\ LET r == job[w].req
       IN  IF sent[r].kind = "call"
           THEN /\ registry' = [registry EXCEPT ![IdOf(r)] = r]
                /\ wpc' = [wpc EXCEPT ![w] = "run"]
           ELSE /\ wpc' = [wpc EXCEPT ![w] = "respond"]
                /\ UNCHANGED registry
    /\ UNCHANGED <<readerVars, events, loaded, current, cancelled, jobs, job,
                   results, completed, orderVars, eof, mpc, out>>

-----------------------------------------------------------------------------
(* The reader thread.                                                      *)

ReadRequest(id, kind) ==
    /\ reading
    /\ Len(sent) < MaxRequests
    /\ UniqueIds => \A r \in DOMAIN sent : IdOf(r) = id => Answered(r)
    /\ sent' = Append(sent, [id |-> id, kind |-> kind])
    /\ events' = Append(events, [type |-> "Request", req |-> Len(sent')])
    /\ UNCHANGED <<notes, reading, loaded, current, registry, cancelled, jobs,
                   poolVars, results, completed, orderVars, eof, mpc, out>>

\* Notifications other than a cancellation send no event.
ReadCancel(id) ==
    /\ reading
    /\ notes < MaxNotes
    /\ notes' = notes + 1
    /\ events' = Append(events, [type |-> "Cancel", id |-> id])
    /\ UNCHANGED <<sent, reading, loaded, current, registry, cancelled, jobs,
                   poolVars, results, completed, orderVars, eof, mpc, out>>

ReadMalformed ==
    /\ reading
    /\ notes < MaxNotes
    /\ notes' = notes + 1
    /\ events' = Append(events, [type |-> "Parse"])
    /\ UNCHANGED <<sent, reading, loaded, current, registry, cancelled, jobs,
                   poolVars, results, completed, orderVars, eof, mpc, out>>

\* The input ends, or reading it fails.
ReadEnd(type) ==
    /\ reading
    /\ reading' = FALSE
    /\ events' = Append(events, [type |-> type])
    /\ UNCHANGED <<sent, notes, loaded, current, registry, cancelled, jobs,
                   poolVars, results, completed, orderVars, eof, mpc, out>>

Reader ==
    \/ \E id \in Ids, kind \in Kinds : ReadRequest(id, kind)
    \/ \E id \in Ids : ReadCancel(id)
    \/ ReadMalformed
    \/ \E type \in {"Eof", "Fatal"} : ReadEnd(type)

-----------------------------------------------------------------------------
(* The main thread: responses.                                             *)

\* Everything the workers have sent is collected ...
Collect ==
    /\ mpc = "collect"
    /\ completed' = completed \cup results
    /\ results' = {}
    /\ mpc' = "deliver"
    /\ UNCHANGED <<readerVars, events, loaded, current, registry, cancelled,
                   jobs, poolVars, orderVars, eof, out>>

\* ... and written as long as it is its turn.
Deliver ==
    /\ mpc = "deliver"
    /\ order # <<>>
    /\ \E c \in completed :
         /\ c.seq = Head(order)
         /\ completed' = completed \ {c}
         /\ out' = Append(out, c.req)
    /\ order' = Tail(order)
    /\ pending' = pending - 1
    /\ UNCHANGED <<readerVars, events, loaded, current, registry, cancelled,
                   jobs, poolVars, results, nextSeq, eof, mpc>>

DeliverFails ==
    /\ mpc = "deliver"
    /\ ~NothingDue
    /\ OutputFails
    /\ mpc' = "left"
    /\ UNCHANGED <<readerVars, events, loaded, current, registry, cancelled,
                   jobs, poolVars, results, completed, orderVars, eof, out>>

\* The loop ends after the input when nothing is pending.
Delivered ==
    /\ mpc = "deliver"
    /\ NothingDue
    /\ mpc' = IF eof /\ pending = 0 THEN "left" ELSE "recv"
    /\ UNCHANGED <<readerVars, events, loaded, current, registry, cancelled,
                   jobs, poolVars, results, completed, orderVars, eof, out>>

-----------------------------------------------------------------------------
(* The main thread: events.                                                *)

Event(type) == mpc = "recv" /\ events # <<>> /\ Head(events).type = type

\* A response that does not wait for its turn; its failure is ignored.
WriteNow(r) == out' = Append(out, r)

\* A tools/call needs the graph; its token is registered before dispatch.
Dispatch ==
    /\ Event("Request")
    /\ LET r == Head(events).req
       IN  /\ current' = r
           /\ IF IsToolCall(r)
              THEN loaded' = TRUE /\ registry' = [registry EXCEPT ![IdOf(r)] = r]
              ELSE UNCHANGED <<loaded, registry>>
    /\ events' = Tail(events)
    /\ mpc' = "send"
    /\ UNCHANGED <<readerVars, cancelled, jobs, poolVars, results, completed,
                   orderVars, eof, out>>

\* ensure_graph_loaded fails; a graph once loaded is kept.
GraphUnavailable ==
    /\ Event("Request")
    /\ IsToolCall(Head(events).req)
    /\ GraphFails /\ ~loaded
    /\ WriteNow(Head(events).req)
    /\ events' = Tail(events)
    /\ mpc' = "collect"
    /\ UNCHANGED <<readerVars, loaded, current, registry, cancelled, jobs,
                   poolVars, results, completed, orderVars, eof>>

\* try_send
Send ==
    /\ mpc = "send"
    /\ HasRoom
    /\ jobs' = Append(jobs, [seq |-> nextSeq, req |-> current])
    /\ order' = Append(order, nextSeq)
    /\ nextSeq' = nextSeq + 1
    /\ pending' = pending + 1
    /\ current' = 0
    /\ mpc' = "collect"
    /\ UNCHANGED <<readerVars, events, loaded, registry, cancelled, poolVars,
                   results, completed, eof, out>>

\* The queue is full: the request is turned down.
TurnDown ==
    /\ mpc = "send"
    /\ ~HasRoom
    /\ Unregister(IdOf(current))
    /\ WriteNow(current)
    /\ current' = 0
    /\ mpc' = "collect"
    /\ UNCHANGED <<readerVars, events, loaded, cancelled, jobs, poolVars,
                   results, completed, orderVars, eof>>

\* cancel_request
Cancel ==
    /\ Event("Cancel")
    /\ cancelled' = cancelled \cup ({registry[Head(events).id]} \ {0})
    /\ events' = Tail(events)
    /\ mpc' = "collect"
    /\ UNCHANGED <<readerVars, loaded, current, registry, jobs, poolVars,
                   results, completed, orderVars, eof, out>>

Malformed ==
    /\ Event("Parse")
    /\ WriteNow(0)
    /\ events' = Tail(events)
    /\ mpc' = "collect"
    /\ UNCHANGED <<readerVars, loaded, current, registry, cancelled, jobs,
                   poolVars, results, completed, orderVars, eof>>

\* The end of the input; after a failed read a response says so.
InputEnds ==
    /\ \/ Event("Eof") /\ UNCHANGED out
       \/ Event("Fatal") /\ WriteNow(0)
    /\ events' = Tail(events)
    /\ eof' = TRUE
    /\ mpc' = "collect"
    /\ UNCHANGED <<readerVars, loaded, current, registry, cancelled, jobs,
                   poolVars, results, completed, orderVars>>

\* No event within 10 ms, or none ever any more.
NoEvent ==
    /\ mpc = "recv"
    /\ events = <<>>
    /\ mpc' = "collect"
    /\ eof' = (eof \/ ~reading)
    /\ UNCHANGED <<readerVars, events, loaded, current, registry, cancelled,
                   jobs, poolVars, results, completed, orderVars, out>>

\* The scope ends when every thread has ended; the workers end when the
\* queue is closed and empty, the reader only with its input.
Return ==
    /\ mpc = "left"
    /\ ~reading
    /\ \A w \in Workers : wpc[w] = "ended"
    /\ mpc' = "returned"
    /\ UNCHANGED <<readerVars, events, loaded, current, registry, cancelled,
                   jobs, poolVars, results, completed, orderVars, eof, out>>

Main ==
    \/ Collect \/ Deliver \/ Delivered \/ Dispatch \/ GraphUnavailable
    \/ Send \/ TurnDown \/ Cancel \/ Malformed \/ InputEnds \/ NoEvent
    \/ Return

-----------------------------------------------------------------------------
(* A worker.                                                               *)

\* Only a tools/call concerns the registry.
Take(w) ==
    /\ wpc[w] = "idle"
    /\ jobs # <<>>
    /\ job' = [job EXCEPT ![w] = Head(jobs)]
    /\ jobs' = Tail(jobs)
    /\ wpc' = [wpc EXCEPT ![w] = IF IsToolCall(Head(jobs).req) THEN "check"
                                 ELSE "respond"]
    /\ UNCHANGED <<readerVars, events, loaded, current, registry, cancelled,
                   results, completed, orderVars, eof, mpc, out>>

\* handle_tools_call registers the token once more when the parameters are
\* good; whatever happens, the guard takes it out.
Check(w) ==
    /\ wpc[w] = "check"
    /\ LET r == job[w].req
       IN  IF sent[r].kind = "call"
           THEN /\ registry' = [registry EXCEPT ![IdOf(r)] = r]
                /\ wpc' = [wpc EXCEPT ![w] = "run"]
           ELSE /\ wpc' = [wpc EXCEPT ![w] = "drop"]
                /\ UNCHANGED registry
    /\ UNCHANGED <<readerVars, events, loaded, current, cancelled, jobs, job,
                   results, completed, orderVars, eof, mpc, out>>

\* The tool ends, of its own or because it saw its token cancelled.
RunTool(w) ==
    /\ wpc[w] = "run"
    /\ wpc' = [wpc EXCEPT ![w] = "drop"]
    /\ UNCHANGED <<readerVars, events, loaded, current, registry, cancelled,
                   jobs, job, results, completed, orderVars, eof, mpc, out>>

DropGuard(w) ==
    /\ wpc[w] = "drop"
    /\ Unregister(IdOf(job[w].req))
    /\ wpc' = [wpc EXCEPT ![w] = "respond"]
    /\ UNCHANGED <<readerVars, events, loaded, current, cancelled, jobs, job,
                   results, completed, orderVars, eof, mpc, out>>

Respond(w) ==
    /\ wpc[w] = "respond"
    /\ results' = results \cup {job[w]}
    /\ job' = [job EXCEPT ![w] = NoJob]
    /\ wpc' = [wpc EXCEPT ![w] = "idle"]
    /\ UNCHANGED <<readerVars, events, loaded, current, registry, cancelled,
                   jobs, completed, orderVars, eof, mpc, out>>

\* recv fails once the main thread has dropped its end and nothing is queued.
EndWorker(w) ==
    /\ wpc[w] = "idle"
    /\ mpc = "left"
    /\ jobs = <<>>
    /\ wpc' = [wpc EXCEPT ![w] = "ended"]
    /\ UNCHANGED <<readerVars, events, loaded, current, registry, cancelled,
                   jobs, job, results, completed, orderVars, eof, mpc, out>>

Worker(w) ==
    Take(w) \/ Check(w) \/ RunTool(w) \/ DropGuard(w) \/ Respond(w)
    \/ EndWorker(w)

Next == Reader \/ Main \/ DeliverFails \/ \E w \in Workers : Worker(w)

Spec == Init /\ [][Next]_vars

\* Every thread is scheduled and every tool ends; nothing is promised of the
\* client.
Fairness ==
    /\ WF_vars(Main)
    /\ \A w \in Workers : WF_vars(Worker(w))

FairSpec == Spec /\ Fairness

-----------------------------------------------------------------------------
(* Properties.                                                             *)

TypeOK ==
    /\ sent \in Seq([id : Ids, kind : Kinds]) /\ Len(sent) <= MaxRequests
    /\ notes \in 0 .. MaxNotes
    /\ reading \in BOOLEAN
    /\ \A i \in DOMAIN events :
         events[i].type \in {"Request", "Cancel", "Parse", "Eof", "Fatal"}
    /\ loaded \in BOOLEAN
    /\ current \in 0 .. Len(sent)
    /\ registry \in [Ids -> 0 .. Len(sent)]
    /\ cancelled \subseteq DOMAIN sent
    /\ Len(jobs) <= MaxInFlight
    /\ \A i \in DOMAIN jobs : jobs[i].req \in DOMAIN sent
    /\ wpc \in [Workers -> {"idle", "check", "run", "drop", "respond",
                            "ended"}]
    /\ \A w \in Workers : job[w].req \in 0 .. Len(sent)
    /\ results \cup completed
         \subseteq [seq : 0 .. MaxRequests, req : DOMAIN sent]
    /\ order \in Seq(0 .. MaxRequests)
    /\ pending \in Nat
    /\ nextSeq \in 0 .. Len(sent)
    /\ eof \in BOOLEAN
    /\ mpc \in {"collect", "deliver", "recv", "send", "left", "returned"}
    /\ out \in Seq(0 .. Len(sent))

\* CHANGELOG.md: concurrent responses are preserved, with duplicate request
\* ids too.  No request is answered twice, and a request is accounted for at
\* exactly one place until it is.
OneResponseEach ==
    \A r \in DOMAIN sent :
        Cardinality({i \in DOMAIN events :
                        events[i].type = "Request" /\ events[i].req = r})
        + (IF current = r THEN 1 ELSE 0)
        + Cardinality({i \in DOMAIN jobs : jobs[i].req = r})
        + Cardinality({w \in Workers : job[w].req = r})
        + Cardinality({c \in results \cup completed : c.req = r})
        + Cardinality({i \in DOMAIN out : out[i] = r})
            = 1

\* Requests that were dispatched are answered in the order they were read,
\* whichever worker is done first: nothing written for a dispatched request
\* is overtaken by an earlier one that is still on its way.
InFlight == {jobs[i].req : i \in DOMAIN jobs}
            \cup ({job[w].req : w \in Workers} \ {0})
            \cup {c.req : c \in results \cup completed}

AnswersInOrder ==
    [][\A r \in InFlight : r \notin InFlight' =>
            \A q \in InFlight' : r < q]_vars

\* m4.1.3-final-blocker-closure-design.md: a cancellation can reach the token
\* while its request is running.  As long as the tool of a dispatched request
\* has not ended, its id leads to its own token.
Running(r) ==
    /\ sent[r].kind = "call"
    /\ \/ \E i \in DOMAIN jobs : jobs[i].req = r
       \/ \E w \in Workers : job[w].req = r /\ wpc[w] \in {"check", "run"}

CancellationReaches == \A r \in DOMAIN sent : Running(r) => registry[IdOf(r)] = r

\* m4.1.3-final-blocker-closure-design.md: tokens are removed on every terminal
\* request outcome.  An id in the registry is the id of a request that is
\* still to pass its guard, so nothing is left behind.
RegistryIsClean ==
    \A id \in Ids :
        registry[id] # 0 =>
            \/ current # 0 /\ IdOf(current) = id
            \/ \E i \in DOMAIN jobs : IdOf(jobs[i].req) = id
            \/ \E w \in Workers :
                 /\ wpc[w] \in {"check", "run", "drop"}
                 /\ IdOf(job[w].req) = id

\* Every request is answered while the output is open.
EveryRequestAnswered ==
    \A r \in Requests : r \in DOMAIN sent ~> Answered(r)

\* CHANGELOG.md: no hanging during ordered shutdown.  When the input has
\* ended, run_stream returns, with every request it read answered.
ReturnsAfterInput ==
    ~reading ~> (mpc = "returned" /\ \A r \in DOMAIN sent : Answered(r))
=============================================================================
