------------------------------ MODULE Sessions ------------------------------
(***************************************************************************)
(* The context a thread of the program carries: the session id of           *)
(* utils/log/context.py and the current span, and what sets, uses and       *)
(* restores them: session() of logger.py, ServerAccessInterceptor and       *)
(* ClientExtInterceptor of grpc_interceptors.py, and every log entry.       *)
(*                                                                          *)
(* A thread of a server's pool handles one RPC after the other in the same  *)
(* context.  A handler opens sessions, logs and makes calls; it waits for a *)
(* call, or gets a future, and then the channel's thread, the Spinner, runs *)
(* the done callback.  A call that is over before its callback is added is  *)
(* like one the caller waits for: the callback runs in the caller's thread. *)
(* Where the caller asked for a future the continuation may raise: then no   *)
(* callback is added, and nothing more is done for the call.                *)
(* A streaming RPC that a thread makes has metadata, but neither span nor   *)
(* entry; one that it handles is none of the interceptor's, and the thread  *)
(* is outside of sessions in it.                                            *)
(***************************************************************************)
EXTENDS Integers, SequencesExt

CONSTANTS
  Threads, Spinner,
  Incoming,      \* session ids that callers send
  TracingFails,  \* may a span fail to start (or OpenTelemetry be absent)?
  MaxRpcs, MaxCalls, MaxMade, MaxSpans,  \* bounds
  MaxDepth       \* bound: RPCs and sessions a thread is inside of

Actors == Threads \cup {Spinner}
Empty == 0
None == 0
Made == 1..MaxMade
Ids == Incoming \cup Made
Spans == 1..MaxSpans
Rpcs == 1..MaxRpcs
Calls == 1..MaxCalls

ASSUME ContextBounds ==
  /\ MaxRpcs \in Nat /\ MaxCalls \in Nat /\ MaxMade \in Nat /\ MaxSpans \in Nat /\ MaxDepth \in Nat
  /\ TracingFails \in BOOLEAN
ASSUME NamesAssumption == Spinner \notin Threads /\ Incoming \cap Nat = {}

VARIABLES
  sid,      \* _session_id_var in each thread's context
  current,  \* the current span in each thread's context
  frames,   \* what each thread is inside of, the innermost last
  out,      \* calls whose future is not done, or that have none
  made,     \* uuids made so far
  spans,    \* of each span started: its parent, and how often it was ended
  rpcs, calls,             \* begun so far
  accessed, told,          \* history: log calls made for each RPC and call
  bare,     \* history: the id get_session_id() left in a thread outside of sessions
  last      \* history: the entry or metadata the last step wrote

context == <<sid, current, frames>>
vars == <<context, out, made, spans, rpcs, calls, accessed, told, bare, last>>

\* A frame keeps what its exit restores: the id of before, and the span.
Frame ==
  [kind : {"rpc", "session"}, id : Ids, old : Ids \cup {Empty},
   span : Spans \cup {None}, beneath : Spans \cup {None}, number : 0..MaxRpcs]
  \cup
  [kind : {"call"}, id : {Empty}, old : {Empty},
   span : Spans \cup {None}, beneath : {None}, number : Calls]
SpanRecord == [parent : Spans \cup {None}, ends : Nat]
Written == [what : {"nothing", "app", "access", "ext", "metadata", "stream"},
            id : Ids \cup {Empty}, span : Spans \cup {None},
            \* what the frames say they should be
            session : Ids \cup {Empty}, within : Spans \cup {None}]
Nothing == [what |-> "nothing", id |-> Empty, span |-> None, session |-> Empty, within |-> None]

TypeOK ==
  /\ sid \in [Actors -> Ids \cup {Empty}] /\ current \in [Actors -> Spans \cup {None}]
  /\ frames \in [Actors -> Seq(Frame)]
  /\ out \subseteq [number : Calls, span : Spans \cup {None}, future : BOOLEAN]
  /\ made \in 0..MaxMade
  /\ spans \in Seq(SpanRecord) /\ Len(spans) <= MaxSpans
  /\ rpcs \in 0..MaxRpcs /\ calls \in 0..MaxCalls
  /\ accessed \in [Rpcs -> Nat] /\ told \in [Calls -> Nat]
  /\ bare \in [Actors -> Ids \cup {Empty}]
  /\ last \in Written

Init ==
  /\ sid = [a \in Actors |-> Empty] /\ current = [a \in Actors |-> None]
  /\ frames = [a \in Actors |-> <<>>] /\ out = {}
  /\ made = 0 /\ spans = <<>> /\ rpcs = 0 /\ calls = 0
  /\ accessed = [r \in Rpcs |-> 0] /\ told = [c \in Calls |-> 0]
  /\ bare = [a \in Actors |-> Empty]
  /\ last = Nothing

-----------------------------------------------------------------------------
(* The innermost session and span a thread is inside of.                    *)

\* A call is the innermost frame, an RPC the outermost.
InFrame(a, kind) == frames[a] # <<>> /\ frames[a][Len(frames[a])].kind = kind
Depth(a) == IF InFrame(a, "call") THEN Len(frames[a]) - 1 ELSE Len(frames[a])
SessionOr(a, loose) == IF Depth(a) = 0 THEN loose[a] ELSE frames[a][Depth(a)].id
Session(a) == SessionOr(a, bare)
Handles(a) == frames[a] # <<>> /\ frames[a][1].kind = "rpc"
Within(a) == IF Handles(a) THEN frames[a][1].span ELSE None

Top(a) == Last(frames[a])
\* A thread that waits for a call takes no step of its own.
Runs(t) == ~InFrame(t, "call")
Pushed(a, f) == frames' = [frames EXCEPT ![a] = Append(@, f)]
Popped(a) == frames' = [frames EXCEPT ![a] = Front(@)]

-----------------------------------------------------------------------------
(* Ids, spans and entries.                                                  *)

\* get_session_id(): an id is made up where there is none, and stays.
GetSession(a, id) ==
  \/ sid[a] # Empty /\ id = sid[a] /\ UNCHANGED <<sid, made, bare>>
  \/ /\ sid[a] = Empty /\ made < MaxMade /\ id = made + 1
     /\ made' = id
     /\ sid' = [sid EXCEPT ![a] = id]
     /\ bare' = [bare EXCEPT ![a] = id]

\* The id of a new session: the one given, or one that is made up.
\* Mutant: an empty id in the metadata is taken as the id.
AsGiven(s) == s
SessionId(s) == IF s = Empty THEN made + 1 ELSE s
NewSession(a, s) ==
  /\ s = Empty => made < MaxMade
  /\ made' = IF s = Empty THEN made + 1 ELSE made
  /\ sid' = [sid EXCEPT ![a] = SessionId(s)]
  /\ UNCHANGED bare

\* start_span() gives span s, or raises.
StartSpan(s, parent) ==
  \/ s = None /\ TracingFails /\ UNCHANGED spans
  \/ /\ Len(spans) < MaxSpans /\ s = Len(spans) + 1
     /\ spans' = Append(spans, [parent |-> parent, ends |-> 0])
EndSpan(s) == spans' = IF s = None THEN spans ELSE [spans EXCEPT ![s].ends = @ + 1]

Writes(what, a, id, span, within) ==
  last' = [what |-> what, id |-> id, span |-> span,
           session |-> SessionOr(a, bare'), within |-> within]

-----------------------------------------------------------------------------
(* session(), entries of the program, and the server's interceptor.         *)

Outcomes == {"returns", "raises"}
\* Mutant: restored without a finally clause.
RestoredOnReturn(how, old, now) == IF how = "returns" THEN old ELSE now
Restored(how, old, now) == old

OpenSession(t, s) ==
  /\ Runs(t) /\ Len(frames[t]) < MaxDepth
  /\ NewSession(t, s)
  /\ Pushed(t, [kind |-> "session", id |-> SessionId(s), old |-> sid[t],
                span |-> None, beneath |-> None, number |-> 0])
  /\ last' = Nothing
  /\ UNCHANGED <<current, out, spans, rpcs, calls, accessed, told>>

CloseSession(t, how) ==
  /\ InFrame(t, "session")
  /\ sid' = [sid EXCEPT ![t] = Restored(how, Top(t).old, @)]
  /\ Popped(t)
  /\ last' = Nothing
  /\ UNCHANGED <<current, out, made, spans, rpcs, calls, accessed, told, bare>>

\* info(), ..., kafka_recv_log(): an entry has the id and the span of the thread.
Log(t) ==
  /\ Runs(t)
  /\ \E id \in Ids : GetSession(t, id) /\ Writes("app", t, id, current[t], Within(t))
  /\ UNCHANGED <<current, frames, out, spans, rpcs, calls, accessed, told>>

\* An RPC comes to an idle thread of the pool.  Its span's parent is the
\* caller's: none of this process.
Activated(s, now) == IF s = None THEN now ELSE s
Serve(t, s) ==
  /\ frames[t] = <<>> /\ rpcs < MaxRpcs
  /\ rpcs' = rpcs + 1
  /\ NewSession(t, s)
  /\ \E span \in Spans \cup {None} :
       /\ StartSpan(span, None)
       /\ current' = [current EXCEPT ![t] = Activated(span, @)]
       /\ Pushed(t, [kind |-> "rpc", id |-> SessionId(s), old |-> sid[t],
                     span |-> span, beneath |-> current[t], number |-> rpcs'])
  /\ last' = Nothing
  /\ UNCHANGED <<out, calls, accessed, told>>

\* Mutants: an entry for calls that succeed; the entry written outside of the
\* session.
SuccessOnly(how) == IF how = "returns" THEN 1 ELSE 0
EntriesFor(how) == 1
AfterRestore(t) == IF Top(t).old = Empty THEN made ELSE Top(t).old
AccessId(t) == sid[t]
HandlerEnds(t, how) ==
  LET f == Top(t) IN
  /\ InFrame(t, "rpc")
  /\ accessed' = [accessed EXCEPT ![f.number] = @ + EntriesFor(how)]
  /\ last' = [what |-> "access", id |-> AccessId(t), span |-> current[t],
              session |-> Session(t), within |-> Within(t)]
  /\ EndSpan(f.span)
  /\ current' = [current EXCEPT ![t] = f.beneath]
  /\ sid' = [sid EXCEPT ![t] = Restored(how, f.old, @)]
  /\ Popped(t)
  /\ UNCHANGED <<out, made, rpcs, calls, told, bare>>

-----------------------------------------------------------------------------
(* The client's interceptor.                                                *)

\* Mutant: the span of a call is the first of a trace.
Detached(t) == None
CallersSpan(t) == current[t]
\* _augment(): the caller's own session id is kept, else the thread's is added.
\* Mutant: the thread's id in any case.
ThreadsId(own, id) == id
SentId(own, id) == IF own = Empty THEN id ELSE own
Sends(what, t, own, id, span) ==
  last' = [what |-> what, id |-> SentId(own, id), span |-> span,
           session |-> IF own = Empty THEN SessionOr(t, bare') ELSE own, within |-> Within(t)]

\* The trace context that is injected: the call's span's, and none where it
\* did not start.  Mutant: the span is not made current for it.
NotActivated(t, span) == current[t]
Injected(t, span) == span

\* A call is waited for, or gives a future, or the continuation raises: then
\* _log_done() is not registered.
Ways == {"waits", "future", "raises"}
CallOut(t, own, way) ==
  /\ Runs(t) /\ calls < MaxCalls
  /\ calls' = calls + 1
  /\ \E span \in Spans \cup {None}, id \in Ids :
       /\ StartSpan(span, CallersSpan(t))
       /\ GetSession(t, id)
       /\ Sends("metadata", t, own, id, Injected(t, span))
       /\ IF way = "waits"
          THEN /\ Pushed(t, [kind |-> "call", id |-> Empty, old |-> Empty,
                             span |-> span, beneath |-> None, number |-> calls'])
               /\ UNCHANGED out
          ELSE /\ out' = out \cup {[number |-> calls', span |-> span, future |-> way = "future"]}
               /\ UNCHANGED frames
  /\ UNCHANGED <<current, rpcs, accessed, told>>

\* The streaming variants: metadata as above, with the caller's span.
StreamOut(t, own) ==
  /\ Runs(t)
  /\ \E id \in Ids : GetSession(t, id) /\ Sends("stream", t, own, id, CallersSpan(t))
  /\ UNCHANGED <<current, frames, out, spans, rpcs, calls, accessed, told>>

\* _log_done() in thread a: the call's span is current while the entry is made.
\* Mutant: the entry has the span of the thread.
ThreadSpan(a, span) == current[a]
EntrySpan(a, span) == IF span = None THEN current[a] ELSE span
\* Mutant: the span of a call that fails is left open.
EndedOnReturn(how, span) == IF how = "returns" THEN span ELSE None
SpanToEnd(how, span) == span
LogDone(a, how, call, span) ==
  /\ \E id \in Ids : GetSession(a, id) /\ Writes("ext", a, id, EntrySpan(a, span), span)
  /\ told' = [told EXCEPT ![call] = @ + 1]
  /\ EndSpan(SpanToEnd(how, span))
  /\ UNCHANGED <<current, rpcs, calls, accessed>>

CallDone(t, how) ==
  /\ InFrame(t, "call")
  /\ LogDone(t, how, Top(t).number, Top(t).span)
  /\ Popped(t)
  /\ UNCHANGED out

FutureDone(c, how) ==
  /\ c \in out /\ c.future
  /\ LogDone(Spinner, how, c.number, c.span)
  /\ out' = out \ {c}
  /\ UNCHANGED frames

Next ==
  \/ \E t \in Threads :
       \/ \E s \in Incoming \cup {Empty} : OpenSession(t, s) \/ Serve(t, s)
       \/ \E how \in Outcomes : CloseSession(t, how) \/ HandlerEnds(t, how) \/ CallDone(t, how)
       \/ \E own \in Incoming \cup {Empty}, way \in Ways : CallOut(t, own, way) \/ StreamOut(t, own)
       \/ Log(t)
  \/ \E c \in out, how \in Outcomes : FutureDone(c, how)

Spec == Init /\ [][Next]_vars

-----------------------------------------------------------------------------
(* Properties.                                                              *)

\* What a frame's exit restores is what the thread has beneath the frame.
Stacked(a) ==
  \A i \in DOMAIN frames[a] :
    LET f == frames[a][i] IN
    /\ f.kind = "rpc" => i = 1 /\ f.beneath = None
    /\ f.kind = "call" => i = Len(frames[a])
    /\ f.kind # "call" => f.old = (IF i = 1 THEN bare[a] ELSE frames[a][i - 1].id)
StackInv == \A a \in Actors : Stacked(a)

\* grpc_interceptors.py:140, "so downstream logs share the session id":
\* whatever came before in a thread of the pool, its id is that of the session
\* it is inside of and its span that of the RPC; outside of both it has no
\* span, and no id but one it made up for itself.
InContext(a) == sid[a] = Session(a) /\ current[a] = Within(a)
ContextIsInnermost == \A a \in Actors : InContext(a)

\* Entries and metadata carry the id of the session they are written in, and
\* metadata that have an id of the caller's keep it; entries of the program and
\* of an RPC have the RPC's span: the access entry is written before its session
\* ends.  (The entry of a future has the id of the thread it is made in, which
\* is outside of sessions.)
EntriesCarrySession ==
  /\ last.id = last.session
  /\ last.what \in {"app", "access"} => last.span = last.within

\* grpc_interceptors.py:142, "so downstream outbound client calls inherit the
\* trace": a call made while an RPC with a span is handled belongs to its trace,
\* by a span of its own or, streaming, by the RPC's.  A call whose span does not
\* start sends no trace context at all (grpc_interceptors.py:377).
CallsJoinTrace ==
  /\ last.what = "metadata" /\ last.span # None => spans[last.span].parent = last.within
  /\ last.what = "stream" => last.span = last.within

HasSpan(c, span) ==
  \/ \E t \in Threads : \E i \in DOMAIN frames[t] :
       frames[t][i].kind = "call" /\ frames[t][i].number = c /\ frames[t][i].span = span
  \/ \E o \in out : o.number = c /\ o.span = span

\* What is sent for a call and what is logged for it name one span: the
\* metadata that of the call they begin, and the entry that of the call that
\* ended, in whatever thread it is written.
CallNamesItsSpan ==
  /\ last.what = "metadata" => HasSpan(calls, last.span)
  /\ last.what = "ext" /\ last.within # None => last.span = last.within

HandledNow(r) ==
  \E t \in Threads : \E i \in DOMAIN frames[t] : frames[t][i].kind = "rpc" /\ frames[t][i].number = r
MadeNow(c) ==
  \/ \E t \in Threads : \E i \in DOMAIN frames[t] : frames[t][i].kind = "call" /\ frames[t][i].number = c
  \/ \E o \in out : o.number = c /\ o.future
GivenUp(c) == \E o \in out : o.number = c /\ ~o.future

\* grpc_interceptors.py:136 and :299, "Writes one grpc_access entry per
\* unary-unary RPC" and "one grpc_ext entry per outbound unary-unary RPC": one
\* log call when it is over, whether it returned or raised, and none before; and
\* one end of its span.  The exception are the calls whose continuation raised
\* (grpc_interceptors.py:382): they have no log call, and their span does not
\* end.  (A log call that raises is not repeated: grpc_interceptors.py:258, 469.)
OneEntryEach ==
  /\ \A r \in 1..rpcs : accessed[r] = (IF HandledNow(r) THEN 0 ELSE 1)
  /\ \A c \in 1..calls : told[c] = (IF MadeNow(c) \/ GivenUp(c) THEN 0 ELSE 1)
  /\ \A s \in 1..Len(spans) :
       spans[s].ends = IF \/ \E t \in Threads : \E i \in DOMAIN frames[t] : frames[t][i].span = s
                          \/ \E o \in out : o.span = s
                       THEN 0 ELSE 1
=============================================================================
