------------------------------- MODULE Requests -------------------------------
(***************************************************************************)
(* A web application behind ASGIMiddleware (utils/middleware/http/server.py)*)
(* that calls other services through the wrapped clients: Client of         *)
(* http/client.py, stubs of grpc/client.py, CursorMiddleware of             *)
(* sql/middleware.py, ProducerMiddleware of kafka/producer.py and Client of *)
(* ws/client.py.                                                            *)
(*                                                                          *)
(* The server runs each request in a task with a context of its own.  The   *)
(* application answers or not, in any order ASGI allows; it may hand its    *)
(* work to a worker thread, which runs in a copy of the context; it raises, *)
(* returns, or is cancelled.  Its calls block, one at a time in a request;  *)
(* those of different requests interleave.                                  *)
(***************************************************************************)
EXTENDS Integers, SequencesExt

CONSTANTS
  Tasks,          \* one for each request
  Incoming,       \* session ids that callers send
  Anonymous,      \* the requests whose callers send none
  Tracing,        \* is OpenTelemetry installed?
  SpansFail,      \* the spans that may fail to start
  InjectFails,    \* the requests in whose calls propagate.inject() may raise
  Codes,          \* the status codes the application answers with
  SendsFail,      \* those whose client may be gone: the server's send() raises
  Kinds,          \* the kinds of calls the application makes
  MaxCalls        \* bound

Statuses == Codes \cup {500}
Contexts == Tasks \X {"task", "worker"}
\* A request has one span, one for the call it is in, and one for what its calls
\* left behind; an id that was made up is named for the context that did.
Spans == Tasks \X {"request", "call", "left"}
Ids == Incoming \cup Contexts
Left(t) == <<t, "left">>
None == <<>>      \* no span
Empty == <<>>     \* no session id
NoStatus == 0

ASSUME RequestBounds ==
  /\ MaxCalls \in Nat /\ Codes \subseteq Nat \ {0}
  /\ Tracing \in BOOLEAN /\ SpansFail \subseteq {"request", "call"}
  /\ Anonymous \subseteq Tasks /\ InjectFails \subseteq Tasks /\ SendsFail \subseteq Tasks
  /\ Kinds \subseteq {"http", "stub", "sql", "produce", "ws"}
ASSUME NamesAssumption == Incoming \cap Contexts = {} /\ Empty \notin Incoming

VARIABLES
  \* each request: where it is, the X-Session-ID it came with, its span
  phase, header, span,
  sid, current,   \* _session_id_var and the current span of each context
  away,           \* the application runs in a worker thread
  \* what capture_send saw, and the message of the exception the
  \* application raised, if any
  asked, error,
  wire,           \* what the server sent to the client
  call,           \* the call a request is in
  common,         \* the session id in a dict of headers that requests share
  open,           \* the spans that have not ended
  \* history: requests whose send() raised; the calls begun, their entries,
  \* those that were lost as their log call raised, the messages the producer
  \* did not take
  unsent, calls, told, unlogged, refused

contexts == <<sid, current, away>>
responses == <<asked, wire, unsent>>
entries == <<told, unlogged, refused>>
clients == <<call, common, calls, entries>>
vars == <<phase, header, span, contexts, error, responses, clients, open>>

Here(t) == <<t, IF away[t] THEN "worker" ELSE "task">>

NoCall == [kind |-> "none"]
CallRecord ==
  [kind : Kinds, stage : {"begun", "sent", "again", "broken"},
   span : Spans \cup {None},   \* the one its end leaves and ends
   beneath : Spans \cup {None},
   id : Ids \cup {Empty},   \* what was put into its headers or metadata
   shared : BOOLEAN,        \* in the dict that requests share?
   own : BOOLEAN]           \* did the caller pass metadata of its own?

TypeOK ==
  /\ phase \in [Tasks -> {"idle", "app", "ending", "done", "gone"}]
  /\ header \in [Tasks -> Incoming \cup {Empty}] /\ span \in [Tasks -> Spans \cup {None}]
  /\ away \in [Tasks -> BOOLEAN]
  /\ sid \in [Contexts -> Ids \cup {Empty}] /\ current \in [Contexts -> Spans \cup {None}]
  /\ asked \in [Tasks -> Statuses \cup {NoStatus}]
  /\ error \in [Tasks -> {"none", "silent", "told"}]
  /\ wire \in [Tasks -> Seq(Statuses)]
  /\ call \in [Tasks -> CallRecord \cup {NoCall}]
  /\ common \in Ids \cup {Empty}
  /\ open \subseteq Spans
  /\ calls \in 0..MaxCalls /\ told \in Nat /\ unlogged \in Nat /\ refused \in Nat
  /\ unsent \subseteq Tasks

Init ==
  /\ phase = [t \in Tasks |-> "idle"] /\ header = [t \in Tasks |-> Empty]
  /\ span = [t \in Tasks |-> None]
  /\ sid = [c \in Contexts |-> Empty] /\ current = [c \in Contexts |-> None]
  /\ away = [t \in Tasks |-> FALSE]
  /\ asked = [t \in Tasks |-> NoStatus] /\ error = [t \in Tasks |-> "none"]
  /\ wire = [t \in Tasks |-> <<>>] /\ unsent = {}
  /\ call = [t \in Tasks |-> NoCall] /\ common = Empty /\ calls = 0
  /\ told = 0 /\ unlogged = 0 /\ refused = 0
  /\ open = {}

-----------------------------------------------------------------------------
(* Ids, spans and entries.                                                  *)

\* get_session_id(): an id is made up where there is none, and stays.
SessionOf(c) == IF sid[c] = Empty THEN c ELSE sid[c]
GetSession(c) == sid' = [sid EXCEPT ![c] = SessionOf(c)]

\* A new span, or None where it does not start.
Started(s) == {x \in {s} : Tracing} \cup {x \in {None} : ~Tracing \/ s[2] \in SpansFail}

At(t, where) == phase' = [phase EXCEPT ![t] = where]

-----------------------------------------------------------------------------
(* ASGIMiddleware.                                                          *)

\* A request comes: its id goes into the context, an empty one if it has none, and
\* its span is the current one.  Then the body is read until no more is to come;
\* a client that goes away in the middle ends it too, and the application takes
\* the part for the whole.  receive() may raise, or the task be cancelled in it:
\* that is before the try, and the end of it.
Arrive(t, s, bodyRead) ==
  /\ phase[t] = "idle" /\ (s = Empty <=> t \in Anonymous)
  /\ At(t, IF bodyRead THEN "app" ELSE "gone")
  /\ header' = [header EXCEPT ![t] = s]
  /\ sid' = [sid EXCEPT ![<<t, "task">>] = s]
  /\ \E new \in Started(<<t, "request">>) :
       /\ open' = open \cup ({new} \ {None})
       /\ span' = [span EXCEPT ![t] = new]
       /\ current' = [current EXCEPT ![<<t, "task">>] = new]
  /\ UNCHANGED <<away, error, responses, clients>>

\* Its header, or the query string, is no text: decode() raises.  The first is
\* before the id is put into the context, and all there is of the request; the
\* second is like a body that is not read.
NoText(t) ==
  /\ phase[t] = "idle"
  /\ At(t, "gone")
  /\ UNCHANGED <<header, span, contexts, error, responses, clients, open>>

\* send() passes a response on (the messages with its body, which no property is
\* about, are left out), or raises.
Passes(t, message) == wire' = [wire EXCEPT ![t] = Append(@, message)] /\ UNCHANGED unsent
SendRaises(t) == t \in SendsFail /\ unsent' = unsent \cup {t} /\ UNCHANGED wire

\* What runs of the application: its task, or the worker thread it waits for.
InTask(t) == phase[t] = "app" /\ ~away[t] /\ call[t] = NoCall
Works(t) == (phase[t] = "app" \/ away[t]) /\ call[t] = NoCall

\* capture_send(): the status is kept before the message is sent.
AppStarts(t, code) ==
  /\ InTask(t) /\ asked[t] = NoStatus
  /\ asked' = [asked EXCEPT ![t] = code]
  /\ Passes(t, code) \/ SendRaises(t)
  /\ UNCHANGED <<phase, header, span, contexts, error, clients, open>>

\* It returns, or is cancelled: CancelledError is no Exception, only the finally
\* clause sees it.  A worker thread goes on when the task that waits for it is
\* cancelled.
\* Mutant: whatever has ended is answered with 500.
AnswersToo(t) == Append(wire[t], 500)
AfterStop(t) == wire[t]
AppStops(t) ==
  /\ InTask(t) \/ (phase[t] = "app" /\ away[t])
  /\ At(t, "ending")
  /\ wire' = [wire EXCEPT ![t] = AfterStop(t)]
  /\ UNCHANGED <<header, span, contexts, error, asked, unsent, clients, open>>

\* An exception, with a message or without: a FATAL entry, then a response of the
\* middleware's own, start and body, whether or not the application started one.
\* It may have given up waiting for its worker thread, which goes on.
AppRaises(t, message) ==
  /\ InTask(t) \/ (phase[t] = "app" /\ away[t])
  /\ At(t, "ending")
  /\ error' = [error EXCEPT ![t] = message]
  /\ GetSession(<<t, "task">>)
  /\ Passes(t, 500) \/ SendRaises(t)
  /\ UNCHANGED <<header, span, current, away, asked, clients, open>>

\* The finally clause: the access entry with its status, and the span of before,
\* where there is one of the request to leave; that is not ended
\* (end_on_exit=False).  What is known of the responses is gone with it.
\* Mutant: the status is that of the exception first.
ErrorFirst(t) == IF error[t] = "told" THEN 500 ELSE asked[t]
StatusOf(t) == IF asked[t] # NoStatus THEN asked[t] ELSE IF error[t] = "told" THEN 500 ELSE NoStatus
RequestEnds(t) ==
  LET c == <<t, "task">> IN
  /\ phase[t] = "ending"
  /\ At(t, "done")
  /\ GetSession(c)
  /\ current' = IF span[t] = None THEN current ELSE [current EXCEPT ![c] = None]
  /\ asked' = [asked EXCEPT ![t] = NoStatus] /\ error' = [error EXCEPT ![t] = "none"]
  /\ wire' = [wire EXCEPT ![t] = <<>>] /\ unsent' = unsent \ {t}
  /\ UNCHANGED <<header, span, away, clients, open>>

-----------------------------------------------------------------------------
(* The application: worker threads and entries.                             *)

\* asyncio.to_thread() and the like: the thread has a copy of the context,
\* and what it changes there is lost.
\* Mutant: the thread has a context of its own.
FreshContext(t, now, none) == none
CopiedContext(t, now, none) == now
GoesAway(t) ==
  /\ InTask(t)
  /\ away' = [away EXCEPT ![t] = TRUE]
  /\ sid' = [sid EXCEPT ![<<t, "worker">>] = CopiedContext(t, sid[<<t, "task">>], Empty)]
  /\ current' = [current EXCEPT ![<<t, "worker">>] = CopiedContext(t, current[<<t, "task">>], None)]
  /\ UNCHANGED <<phase, header, span, error, responses, clients, open>>

\* The thread is done, and its context gone.
ComesBack(t) ==
  /\ away[t] /\ call[t] = NoCall
  /\ away' = [away EXCEPT ![t] = FALSE]
  /\ sid' = [sid EXCEPT ![<<t, "worker">>] = Empty]
  /\ current' = [current EXCEPT ![<<t, "worker">>] = None]
  /\ UNCHANGED <<phase, header, span, error, responses, clients, open>>

AppLogs(t) ==
  /\ Works(t)
  /\ GetSession(Here(t))
  /\ UNCHANGED <<phase, header, span, current, away, error, responses, clients, open>>

-----------------------------------------------------------------------------
(* Calls through the wrapped clients.  A statement that only reads, and what *)
(* a wrapper hands on (__getattr__), leave no trace and are left out.       *)

\* The headers of an HTTP request and the metadata of an RPC have the session
\* id; a WebSocket has no span.
Carries(kind) == kind \in {"http", "stub"}
Traced(kind) == kind # "ws"

\* A span that does not start is done without, but an HTTP request fails of it.
Stage(kind, s) == IF kind = "http" /\ Tracing /\ s = None THEN "broken" ELSE "begun"

\* What becomes the current span.  A stub or a producer enters the span and then
\* calls inject(); if that raises, the span's manager is dropped, and nobody
\* leaves it later.  CPython closes it there and then, as if the span had not
\* started; what does not stays current, and open.
Injects(kind) == kind \in {"stub", "produce"}
Entered(t, kind) ==
  IF ~Traced(kind) THEN {None}
  ELSE Started(<<t, "call">>) \cup {s \in {None, Left(t)} : Tracing /\ t \in InjectFails /\ Injects(kind)}
Managed(t, s) == IF s = Left(t) THEN None ELSE s

\* The dict of headers is the caller's own object: the id is written into it.
CallBegins(t, kind, shared, own) ==
  LET c == Here(t) IN
  /\ Works(t) /\ calls < MaxCalls
  /\ shared => kind = "http"
  /\ own => kind = "stub"
  /\ calls' = calls + 1
  /\ \E s \in Entered(t, kind) :
       LET id == IF Carries(kind) THEN SessionOf(c) ELSE Empty IN
       /\ IF Carries(kind) THEN GetSession(c) ELSE UNCHANGED sid
       /\ open' = open \cup ({s} \ {None})
       /\ common' = IF shared THEN id ELSE common
       /\ current' = IF s = None THEN current ELSE [current EXCEPT ![c] = s]
       /\ call' = [call EXCEPT ![t] = [kind |-> kind, stage |-> Stage(kind, s),
                                       span |-> Managed(t, s), beneath |-> current[c], id |-> id,
                                       shared |-> shared, own |-> own]]
  /\ UNCHANGED <<phase, header, span, away, error, responses, entries>>

InCall(t, stage) == call[t] # NoCall /\ call[t].stage = stage
Goes(t, stage, id) == call' = [call EXCEPT ![t].stage = stage, ![t].id = id]

\* The wrapped method runs; an HTTP request takes its headers as they are now.
\* Mutant: one dict of headers for the whole client.
OneDict(t) == common
HeaderOf(t) == IF call[t].shared THEN common ELSE call[t].id
CallGoes(t) ==
  /\ InCall(t, "begun")
  /\ Goes(t, "sent", HeaderOf(t))
  /\ UNCHANGED <<phase, header, span, contexts, error, responses, common, calls, entries, open>>

\* A stub's method raised TypeError: if the metadata are all the wrapper's,
\* it may be one that takes none, and runs again without.
\* Mutant: again, whoever passed metadata.
AlwaysAgain(t) == call[t].kind = "stub"
RunsAgain(t) == call[t].kind = "stub" /\ ~call[t].own
CallGoesAgain(t) ==
  /\ InCall(t, "sent") /\ RunsAgain(t)
  /\ Goes(t, "again", Empty)
  /\ UNCHANGED <<phase, header, span, contexts, error, responses, common, calls, entries, open>>

\* The method is back: one log call, but for a message that was not sent, and the
\* span that was there before.  What the log call raises, or what comes before it
\* in its try (the body or the parameters cannot be put into an entry), is
\* swallowed: there is no entry then.
\* Mutants: an entry for calls that succeed; one of the call and one of its
\* error; the span is left as it was, or the current one.
SuccessOnly(kind, how) == IF how = "returns" THEN 1 ELSE 0
OneMoreOnError(kind, how) == IF how = "raises" THEN 2 ELSE 1
EntriesFor(kind, how) == IF kind = "produce" /\ how = "raises" THEN 0 ELSE 1
EndedOnReturn(how, s) == IF how = "returns" THEN s ELSE None
SpanToEnd(how, s) == s
LeftCurrent(t, how) == IF how = "returns" THEN call[t].beneath ELSE current[Here(t)]
Beneath(t, how) == call[t].beneath
CallEnds(t, how, logs) ==
  LET c == Here(t)  k == call[t].kind  n == EntriesFor(k, how) IN
  /\ InCall(t, "sent") \/ InCall(t, "again") \/ (InCall(t, "broken") /\ how = "raises")
  /\ call' = [call EXCEPT ![t] = NoCall]
  /\ told' = told + (IF logs THEN n ELSE 0)
  /\ unlogged' = unlogged + (IF logs THEN 0 ELSE n)
  /\ refused' = refused + (IF k = "produce" /\ how = "raises" THEN 1 ELSE 0)
  /\ \/ n # 0 /\ GetSession(c)
     \/ (n = 0 \/ ~logs) /\ UNCHANGED sid
  /\ open' = open \ {SpanToEnd(how, call[t].span)}
  /\ current' = IF call[t].span = None THEN current ELSE [current EXCEPT ![c] = Beneath(t, how)]
  /\ UNCHANGED <<phase, header, span, away, error, responses, common, calls>>

Next ==
  \E t \in Tasks :
    \/ \E s \in Incoming \cup {Empty}, bodyRead \in BOOLEAN : Arrive(t, s, bodyRead)
    \/ NoText(t)
    \/ \E code \in Codes : AppStarts(t, code)
    \/ AppStops(t)
    \/ \E message \in {"silent", "told"} : AppRaises(t, message)
    \/ RequestEnds(t) \/ GoesAway(t) \/ ComesBack(t) \/ AppLogs(t)
    \/ \E kind \in Kinds, shared, own \in BOOLEAN : CallBegins(t, kind, shared, own)
    \/ CallGoes(t) \/ CallGoesAgain(t)
    \/ \E how \in {"returns", "raises"}, logs \in BOOLEAN : CallEnds(t, how, logs)

Spec == Init /\ [][Next]_vars

-----------------------------------------------------------------------------
(* Properties.                                                              *)

\* The entry of a request gives the status its client saw, also when the
\* application raised after it had started its response: unless that start
\* never left the server, or the exception had no message (then the entry says
\* 0 where the client saw 500).
StatusIsSent ==
  \A t \in Tasks :
    phase[t] = "ending" /\ wire[t] # <<>> /\ t \notin unsent /\ error[t] # "silent"
      => StatusOf(t) = wire[t][1]

\* server.py:7, "Catch handler exceptions: log FATAL and return 500": a client
\* gets an answer and none after it, but for the 500 that follows the answer an
\* application had begun before it raised.
OneAnswer ==
  \A t \in Tasks :
    /\ Len(wire[t]) > 1 => error[t] # "none" /\ asked[t] # NoStatus /\ wire[t] = <<asked[t], 500>>
    /\ phase[t] = "ending" /\ error[t] # "none" /\ t \notin unsent => Last(wire[t]) = 500

\* A request that came with a session id has it in its task and in its worker
\* thread as long as either runs: its entries carry that id and no other, and so
\* do its calls that have one.  The exception are HTTP calls whose dict of headers
\* requests share: they send the id that was last written into it.
CarryTheirRequest ==
  \A t \in Tasks : header[t] # Empty =>
    /\ sid[<<t, "task">>] = header[t]
    /\ away[t] => sid[<<t, "worker">>] = header[t]
    /\ call[t] # NoCall =>
         call[t].shared \/ call[t].id = Empty \/ call[t].id = header[t]

\* Each call makes one log call when it is over, however it ended and however
\* often it ran, and has one entry by it or, the wrappers swallowing what their
\* log call raises, none; but for a message the producer did not take, which has
\* no log call.  A stub's method the caller passed metadata to runs once.
CalledOnce ==
  /\ calls = told + unlogged + refused + Cardinality({t \in Tasks : call[t] # NoCall})
  /\ \A t \in Tasks : InCall(t, "again") => ~call[t].own

OwnSpan(t) == IF call[t] # NoCall /\ call[t].span # None THEN call[t].span ELSE span[t]
Nests(t) ==
  /\ current[<<t, "task">>] =
       (CASE phase[t] \in {"idle", "done"} -> None
          [] phase[t] = "app" /\ ~away[t] -> OwnSpan(t)
          [] OTHER -> span[t])
  /\ away[t] => current[<<t, "worker">>] = OwnSpan(t)
CallSpanEnds(t) == <<t, "call">> \in open => call[t] # NoCall /\ call[t].span # None

\* Spans nest: outside its calls a context has the span of its request, in a
\* call that of the call, whatever the call raised; and none when the request is
\* over.  The exception are requests one of whose calls lost the manager of its
\* span, inject() having raised, to an interpreter that does not close it
\* there.  The span of every other call ends with the call.
SpansNest == \A t \in Tasks : (Left(t) \notin open => Nests(t)) /\ CallSpanEnds(t)

\* server.py:151, "End the server span.": when the request is over, its span
\* has ended.  It has not: use_span() was told end_on_exit=False.
ServerSpansEnd ==
  \A t \in Tasks : phase[t] = "done" => span[t] \notin open

-----------------------------------------------------------------------------
(* The inductive invariant the proofs use.                                  *)

InACall == {t \in Tasks : call[t] # NoCall}

\* Before a request is let in nothing of it runs; a call is made by the worker
\* thread, or by the task while the application runs, and will leave the span of
\* the request behind.
PlacesInv ==
  \A t \in Tasks :
    /\ phase[t] \in {"idle", "gone"} => ~away[t] /\ call[t] = NoCall
    /\ call[t] # NoCall => away[t] \/ phase[t] = "app"
    /\ span[t] \in {None, <<t, "request">>}
    /\ phase[t] = "idle" => span[t] = None /\ header[t] = Empty
    /\ call[t] # NoCall => call[t].span \in {None, <<t, "call">>}
    /\ call[t] # NoCall /\ Left(t) \notin open => call[t].beneath = span[t]

Silence == <<>>
Answer(code) == <<code>>
AnswerAnd500(code) == <<code, 500>>
AtMostOne(s) == Len(s) <= 1

\* What the client has got: the answer of the application, unless a send()
\* failed, and after an exception the 500.
AnswersInv ==
  \A t \in Tasks :
    /\ phase[t] \in {"idle", "done", "gone"} => asked[t] = NoStatus /\ wire[t] = Silence
    /\ error[t] # "none" => phase[t] = "ending"
    /\ error[t] = "none" /\ t \in unsent => asked[t] # NoStatus
    /\ error[t] = "none" =>
         wire[t] = IF asked[t] = NoStatus \/ t \in unsent THEN Silence ELSE Answer(asked[t])
    /\ error[t] # "none" /\ t \notin unsent =>
         wire[t] = IF asked[t] = NoStatus THEN Answer(500) ELSE AnswerAnd500(asked[t])
    /\ error[t] # "none" /\ t \in unsent => AtMostOne(wire[t])

IInv ==
  /\ TypeOK /\ PlacesInv /\ AnswersInv /\ IsFiniteSet(InACall)
  /\ CarryTheirRequest /\ CalledOnce /\ SpansNest
=============================================================================
