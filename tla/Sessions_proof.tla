--------------------------- MODULE Sessions_proof ---------------------------
(***************************************************************************)
(* Theorems about Sessions, for any threads, ids and bounds.                *)
(***************************************************************************)
EXTENDS Sessions, TLAPS

\* What a push does to a stack.
LEMMA Push ==
  ASSUME NEW S, NEW s \in Seq(S), NEW x \in S
  PROVE  /\ Append(s, x) \in Seq(S) /\ Len(Append(s, x)) = Len(s) + 1
         /\ \A i \in 1..Len(s) : Append(s, x)[i] = s[i]
         /\ Append(s, x)[Len(s) + 1] = x
  OBVIOUS

\* What a pop does to a stack.
LEMMA Pop ==
  ASSUME NEW S, NEW s \in Seq(S), s # <<>>
  PROVE  /\ Len(s) \in Nat \ {0}
         /\ Front(s) \in Seq(S) /\ Len(Front(s)) = Len(s) - 1
         /\ \A i \in 1..(Len(s) - 1) : Front(s)[i] = s[i]
         /\ Last(s) = s[Len(s)] /\ s[Len(s)] \in S
<1>1. Len(s) \in Nat \ {0}
  OBVIOUS
<1>2. Len(s) - 1 \in Nat /\ 1..(Len(s) - 1) \subseteq 1..Len(s)
  BY <1>1
<1>3. Front(s) = [i \in 1..(Len(s) - 1) |-> s[i]]
  BY <1>1 DEF Front
<1>4. \A i \in 1..Len(s) : s[i] \in S
  OBVIOUS
<1>5. Front(s) \in Seq(S) /\ Len(Front(s)) = Len(s) - 1
  BY <1>2, <1>3, <1>4
<1>6. Last(s) = s[Len(s)]
  BY DEF Last
<1>7. QED
  BY <1>1, <1>2, <1>3, <1>4, <1>5, <1>6

\* An entry of a sequence replaced.
LEMMA Replace ==
  ASSUME NEW S, NEW s \in Seq(S), NEW i, NEW x, i \in 1..Len(s) => x \in S
  PROVE  [s EXCEPT ![i] = x] \in Seq(S) /\ Len([s EXCEPT ![i] = x]) = Len(s)
<1> DEFINE t == [s EXCEPT ![i] = x]
<1>1. s \in [1..Len(s) -> S] /\ Len(s) \in Nat
  OBVIOUS
<1>2. t \in [1..Len(s) -> S]
  BY <1>1
<1> HIDE DEF t
<1>3. t \in Seq(S) /\ Len(t) = Len(s)
  BY <1>1, <1>2
<1>4. QED
  BY <1>3 DEF t

\* A counter counted up.
LEMMA CountUp ==
  ASSUME NEW S, NEW f \in [S -> Nat], NEW x
  PROVE  [f EXCEPT ![x] = @ + 1] \in [S -> Nat]
<1>1. CASE x \in S
  <2>1. f[x] + 1 \in Nat
    BY <1>1
  <2>2. QED
    BY <2>1
<1>2. CASE x \notin S
  BY <1>2
<1>3. QED
  BY <1>1, <1>2

\* One more end of a span leaves a sequence of spans.
LEMMA EndSpanTyped ==
  ASSUME TypeOK, NEW s, EndSpan(s)
  PROVE  spans' \in Seq(SpanRecord) /\ Len(spans') = Len(spans) /\ Len(spans') <= MaxSpans
<1>1. spans \in Seq(SpanRecord) /\ Len(spans) <= MaxSpans
  BY DEF TypeOK
<1>2. CASE s = None
  BY <1>1, <1>2 DEF EndSpan
<1>3. CASE s # None
  <2> DEFINE x == [spans[s] EXCEPT !.ends = @ + 1]
  <2>1. ASSUME s \in 1..Len(spans) PROVE x \in SpanRecord
    <3>1. spans[s] \in SpanRecord
      BY <1>1, <2>1
    <3>2. QED
      BY <3>1 DEF SpanRecord
  <2>2. spans' = [spans EXCEPT ![s] = x]
    BY <1>3 DEF EndSpan
  <2> HIDE DEF x
  <2>3. QED
    BY <1>1, <2>1, <2>2, Replace
<1>4. QED
  BY <1>2, <1>3

\* A span that starts is the next one.
LEMMA StartSpanTyped ==
  ASSUME TypeOK, NEW s, NEW p \in Spans \cup {None}, StartSpan(s, p)
  PROVE  /\ spans' \in Seq(SpanRecord) /\ Len(spans') <= MaxSpans
         /\ s \in Spans \cup {None}
         /\ s # None => s = Len(spans) + 1 /\ Len(spans') = s /\ spans'[s].parent = p
<1>1. spans \in Seq(SpanRecord) /\ Len(spans) <= MaxSpans
  BY DEF TypeOK
<1>2. CASE s = None /\ UNCHANGED spans
  BY <1>1, <1>2
<1>3. CASE /\ Len(spans) < MaxSpans /\ s = Len(spans) + 1
           /\ spans' = Append(spans, [parent |-> p, ends |-> 0])
  <2> DEFINE x == [parent |-> p, ends |-> 0]
  <2>1. x \in SpanRecord /\ x.parent = p
    BY DEF SpanRecord
  <2>2. spans' = Append(spans, x)
    BY <1>3
  <2> HIDE DEF x
  <2>3. spans' \in Seq(SpanRecord) /\ Len(spans') = Len(spans) + 1 /\ spans'[Len(spans) + 1] = x
    BY <1>1, <2>1, <2>2, Push
  <2>4. s \in Spans
    BY <1>1, <1>3, ContextBounds DEF Spans
  <2>5. QED
    BY <1>1, <1>3, <2>1, <2>3, <2>4, ContextBounds
<1>4. QED
  BY <1>2, <1>3 DEF StartSpan

\* The ids and spans of a thread's frames are ids and spans.
LEMMA FramesTyped ==
  ASSUME TypeOK, NEW a \in Actors, NEW loose \in [Actors -> Ids \cup {Empty}]
  PROVE  SessionOr(a, loose) \in Ids \cup {Empty} /\ Within(a) \in Spans \cup {None}
<1>1. frames[a] \in Seq(Frame) /\ Len(frames[a]) \in Nat
  BY DEF TypeOK
<1>2. \A i \in 1..Len(frames[a]) :
        frames[a][i].id \in Ids \cup {Empty} /\ frames[a][i].span \in Spans \cup {None}
  <2>1. \A i \in 1..Len(frames[a]) : frames[a][i] \in Frame
    BY <1>1
  <2>2. QED
    BY <2>1 DEF Frame
<1> frames[a] # <<>> => Len(frames[a]) \in Nat \ {0}
  BY <1>1, Pop
<1>3. Depth(a) = 0 \/ Depth(a) \in 1..Len(frames[a])
  <2>1. CASE InFrame(a, "call")
    <3>1. Depth(a) = Len(frames[a]) - 1 /\ Len(frames[a]) \in Nat \ {0}
      BY <2>1 DEF Depth, InFrame
    <3>2. ASSUME NEW n \in Nat \ {0}, NEW d, d = n - 1 PROVE d = 0 \/ d \in 1..n
      BY <3>2
    <3>3. QED
      BY <3>1, <3>2, Zenon
  <2>2. CASE ~InFrame(a, "call")
    BY <1>1, <2>2 DEF Depth
  <2>3. QED
    BY <2>1, <2>2
<1>4. Handles(a) => 1 \in 1..Len(frames[a])
  BY <1>1 DEF Handles
<1>5. QED
  BY <1>2, <1>3, <1>4 DEF SessionOr, Within

\* get_session_id() keeps the types.
LEMMA GetSessionTyped ==
  ASSUME TypeOK, NEW a \in Actors, NEW id \in Ids, GetSession(a, id)
  PROVE  /\ sid' \in [Actors -> Ids \cup {Empty}] /\ bare' \in [Actors -> Ids \cup {Empty}]
         /\ made' \in 0..MaxMade
<1>1. /\ sid \in [Actors -> Ids \cup {Empty}] /\ bare \in [Actors -> Ids \cup {Empty}]
      /\ made \in 0..MaxMade
  BY DEF TypeOK
<1>2. CASE UNCHANGED <<sid, made, bare>>
  BY <1>1, <1>2
<1>3. CASE /\ made < MaxMade /\ made' = id /\ id = made + 1
           /\ sid' = [sid EXCEPT ![a] = id] /\ bare' = [bare EXCEPT ![a] = id]
  <2>1. made' \in 0..MaxMade
    BY <1>1, <1>3, ContextBounds
  <2>2. sid' \in [Actors -> Ids \cup {Empty}] /\ bare' \in [Actors -> Ids \cup {Empty}]
    BY <1>1, <1>3
  <2>3. QED
    BY <2>1, <2>2
<1>4. QED
  BY <1>2, <1>3 DEF GetSession

\* A new session has an id, and keeps the types.
LEMMA NewSessionTyped ==
  ASSUME TypeOK, NEW a \in Actors, NEW s \in Incoming \cup {Empty}, NewSession(a, s)
  PROVE  /\ SessionId(s) \in Ids
         /\ sid' \in [Actors -> Ids \cup {Empty}] /\ bare' = bare
         /\ made' \in 0..MaxMade
<1>1. made \in 0..MaxMade /\ sid \in [Actors -> Ids \cup {Empty}]
  BY DEF TypeOK
<1>2. CASE s = Empty
  <2>1. made + 1 \in Made
    BY <1>1, <1>2, ContextBounds DEF NewSession, Made
  <2>2. QED
    BY <1>1, <1>2, <2>1 DEF NewSession, SessionId, Ids, Made
<1>3. CASE s # Empty
  BY <1>1, <1>3 DEF NewSession, SessionId, Ids
<1>4. QED
  BY <1>2, <1>3

\* A push and a pop keep the frames' type.
LEMMA PushedTyped ==
  ASSUME TypeOK, NEW a \in Actors, NEW f \in Frame, Pushed(a, f)
  PROVE  frames' \in [Actors -> Seq(Frame)]
<1>1. frames \in [Actors -> Seq(Frame)]
  BY DEF TypeOK
<1>2. Append(frames[a], f) \in Seq(Frame)
  BY <1>1, Push
<1>3. QED
  BY <1>1, <1>2 DEF Pushed

LEMMA PoppedTyped ==
  ASSUME TypeOK, NEW a \in Actors, frames[a] # <<>>, Popped(a)
  PROVE  frames' \in [Actors -> Seq(Frame)] /\ Top(a) \in Frame
<1>1. frames \in [Actors -> Seq(Frame)]
  BY DEF TypeOK
<1>2. Front(frames[a]) \in Seq(Frame) /\ Top(a) \in Frame
  BY <1>1, Pop DEF Top
<1>3. QED
  BY <1>1, <1>2 DEF Popped

\* A written record is typed.
LEMMA WrittenTyped ==
  ASSUME TypeOK, NEW a \in Actors, bare' \in [Actors -> Ids \cup {Empty}],
         NEW what \in {"app", "ext"}, NEW id \in Ids \cup {Empty},
         NEW span \in Spans \cup {None}, NEW within \in Spans \cup {None},
         Writes(what, a, id, span, within)
  PROVE  last' \in Written
<1>1. SessionOr(a, bare') \in Ids \cup {Empty}
  BY FramesTyped
<1>2. QED
  BY <1>1 DEF Writes, Written

\* So is one for the metadata of a call.
LEMMA SentTyped ==
  ASSUME TypeOK, NEW t \in Actors, bare' \in [Actors -> Ids \cup {Empty}],
         NEW what \in {"metadata", "stream"}, NEW own \in Incoming \cup {Empty}, NEW id \in Ids,
         NEW span \in Spans \cup {None}, Sends(what, t, own, id, span)
  PROVE  last' \in Written
<1>1. SessionOr(t, bare') \in Ids \cup {Empty} /\ Within(t) \in Spans \cup {None}
  BY FramesTyped
<1>2. SentId(own, id) \in Ids \cup {Empty} /\ own \in Ids \cup {Empty}
  BY DEF SentId, Ids
<1>3. QED
  BY <1>1, <1>2 DEF Sends, Written

\* Every step keeps every variable in its type.
LEMMA TypeNext == TypeOK /\ [Next]_vars => TypeOK'
<1> SUFFICES ASSUME TypeOK, [Next]_vars PROVE TypeOK'
  OBVIOUS
<1> Nothing \in Written
  BY DEF Nothing, Written
<1> \A t \in Threads : t \in Actors
  BY DEF Actors
<1>1. ASSUME NEW t \in Threads, NEW s \in Incoming \cup {Empty}, OpenSession(t, s) PROVE TypeOK'
  <2>1. NewSession(t, s)
    BY <1>1 DEF OpenSession
  <2>2. [kind |-> "session", id |-> SessionId(s), old |-> sid[t],
         span |-> None, beneath |-> None, number |-> 0] \in Frame
    BY <2>1, NewSessionTyped, ContextBounds DEF TypeOK, Frame
  <2>3. frames' \in [Actors -> Seq(Frame)]
    BY <1>1, <2>2, PushedTyped DEF OpenSession
  <2>4. QED
    BY <1>1, <2>1, <2>3, NewSessionTyped DEF OpenSession, TypeOK
<1>2. ASSUME NEW t \in Threads, NEW s \in Incoming \cup {Empty}, Serve(t, s) PROVE TypeOK'
  <2>1. NewSession(t, s) /\ rpcs' \in 0..MaxRpcs
    BY <1>2, ContextBounds DEF Serve, TypeOK
  <2>2. PICK span \in Spans \cup {None} :
          /\ StartSpan(span, None)
          /\ current' = [current EXCEPT ![t] = Activated(span, @)]
          /\ Pushed(t, [kind |-> "rpc", id |-> SessionId(s), old |-> sid[t],
                        span |-> span, beneath |-> current[t], number |-> rpcs'])
    BY <1>2 DEF Serve
  <2>3. [kind |-> "rpc", id |-> SessionId(s), old |-> sid[t],
         span |-> span, beneath |-> current[t], number |-> rpcs'] \in Frame
    BY <2>1, NewSessionTyped DEF TypeOK, Frame
  <2>4. frames' \in [Actors -> Seq(Frame)]
    BY <2>2, <2>3, PushedTyped
  <2>5. current' \in [Actors -> Spans \cup {None}]
    BY <2>2 DEF TypeOK, Activated
  <2>6. spans' \in Seq(SpanRecord) /\ Len(spans') <= MaxSpans
    BY <2>2, StartSpanTyped
  <2>7. QED
    BY <1>2, <2>1, <2>4, <2>5, <2>6, NewSessionTyped DEF Serve, TypeOK
<1>3. ASSUME NEW t \in Threads, NEW how \in Outcomes, CloseSession(t, how) PROVE TypeOK'
  <2>1. frames' \in [Actors -> Seq(Frame)] /\ Top(t) \in Frame
    BY <1>3, PoppedTyped DEF CloseSession, InFrame
  <2>2. sid' \in [Actors -> Ids \cup {Empty}]
    BY <1>3, <2>1 DEF CloseSession, Restored, Frame, TypeOK
  <2>3. QED
    BY <1>3, <2>1, <2>2 DEF CloseSession, TypeOK
<1>4. ASSUME NEW t \in Threads, NEW how \in Outcomes, HandlerEnds(t, how) PROVE TypeOK'
  <2>1. frames' \in [Actors -> Seq(Frame)] /\ Top(t) \in Frame
    BY <1>4, PoppedTyped DEF HandlerEnds, InFrame
  <2>2. sid' \in [Actors -> Ids \cup {Empty}] /\ current' \in [Actors -> Spans \cup {None}]
    BY <1>4, <2>1 DEF HandlerEnds, Restored, Frame, TypeOK
  <2>3. accessed' \in [Rpcs -> Nat]
    BY <1>4, CountUp DEF HandlerEnds, EntriesFor, TypeOK
  <2>4. spans' \in Seq(SpanRecord) /\ Len(spans') <= MaxSpans
    BY <1>4, EndSpanTyped DEF HandlerEnds
  <2>5. SessionOr(t, bare) \in Ids \cup {Empty} /\ Within(t) \in Spans \cup {None}
    BY FramesTyped DEF TypeOK
  <2>6. last' \in Written
    BY <1>4, <2>5 DEF HandlerEnds, AccessId, Session, Written, TypeOK
  <2>7. QED
    BY <1>4, <2>1, <2>2, <2>3, <2>4, <2>6 DEF HandlerEnds, TypeOK
<1>5. ASSUME NEW t \in Threads, Log(t) PROVE TypeOK'
  <2>1. PICK id \in Ids : GetSession(t, id) /\ Writes("app", t, id, current[t], Within(t))
    BY <1>5 DEF Log
  <2>2. current[t] \in Spans \cup {None} /\ Within(t) \in Spans \cup {None}
    BY FramesTyped DEF TypeOK
  <2>3. last' \in Written
    BY <2>1, <2>2, GetSessionTyped, WrittenTyped
  <2>4. QED
    BY <1>5, <2>1, <2>3, GetSessionTyped DEF Log, TypeOK
<1>12. ASSUME NEW t \in Threads, NEW own \in Incoming \cup {Empty}, StreamOut(t, own) PROVE TypeOK'
  <2>1. PICK id \in Ids : GetSession(t, id) /\ Sends("stream", t, own, id, CallersSpan(t))
    BY <1>12 DEF StreamOut
  <2>2. CallersSpan(t) \in Spans \cup {None}
    BY FramesTyped DEF CallersSpan, TypeOK
  <2>4. last' \in Written
    BY <2>1, <2>2, GetSessionTyped, SentTyped
  <2>5. QED
    BY <1>12, <2>1, <2>4, GetSessionTyped DEF StreamOut, TypeOK
<1>6. ASSUME NEW t \in Threads, NEW own \in Incoming \cup {Empty}, NEW way \in Ways,
             CallOut(t, own, way)
      PROVE  TypeOK'
  <2>1. calls' \in Calls
    BY <1>6, ContextBounds DEF CallOut, TypeOK, Calls
  <2>2. PICK span \in Spans \cup {None}, id \in Ids :
          /\ StartSpan(span, CallersSpan(t))
          /\ GetSession(t, id)
          /\ Sends("metadata", t, own, id, Injected(t, span))
          /\ IF way = "waits"
             THEN /\ Pushed(t, [kind |-> "call", id |-> Empty, old |-> Empty,
                                span |-> span, beneath |-> None, number |-> calls'])
                  /\ UNCHANGED out
             ELSE /\ out' = out \cup {[number |-> calls', span |-> span, future |-> way = "future"]}
                  /\ UNCHANGED frames
    BY <1>6 DEF CallOut
  <2>3. [kind |-> "call", id |-> Empty, old |-> Empty,
         span |-> span, beneath |-> None, number |-> calls'] \in Frame
    BY <2>1 DEF Frame
  <2>4. frames' \in [Actors -> Seq(Frame)] /\ out' \subseteq [number : Calls, span : Spans \cup {None}, future : BOOLEAN]
    <3>1. CASE way = "waits"
      BY <2>2, <2>3, <3>1, PushedTyped DEF TypeOK
    <3>2. CASE way # "waits"
      <4>1. PICK c : c = [number |-> calls', span |-> span, future |-> way = "future"]
        OBVIOUS
      <4>2. (way = "future") \in BOOLEAN
        OBVIOUS
      <4>3. c \in [number : Calls, span : Spans \cup {None}, future : BOOLEAN]
        BY <2>1, <4>1, <4>2
      <4>4. out' = out \cup {c} /\ frames' = frames
        BY <2>2, <3>2, <4>1
      <4>5. QED
        BY <4>3, <4>4 DEF TypeOK
    <3>3. QED
      BY <3>1, <3>2
  <2>5. CallersSpan(t) \in Spans \cup {None} /\ Injected(t, span) \in Spans \cup {None}
    BY FramesTyped DEF TypeOK, CallersSpan, Injected
  <2>6. spans' \in Seq(SpanRecord) /\ Len(spans') <= MaxSpans
    BY <2>2, <2>5, StartSpanTyped
  <2>8. last' \in Written
    BY <2>2, <2>5, GetSessionTyped, SentTyped
  <2>9. calls' \in 0..MaxCalls
    BY <2>1, ContextBounds DEF Calls
  <2>10. QED
    BY <1>6, <2>2, <2>4, <2>6, <2>8, <2>9, GetSessionTyped DEF CallOut, TypeOK
<1>7. ASSUME NEW a \in Actors, NEW how, NEW call, NEW span \in Spans \cup {None},
             LogDone(a, how, call, span),
             frames' \in [Actors -> Seq(Frame)], out' \subseteq out
      PROVE  TypeOK'
  <2>1. PICK id \in Ids : GetSession(a, id) /\ Writes("ext", a, id, EntrySpan(a, span), span)
    BY <1>7 DEF LogDone
  <2>2. EntrySpan(a, span) \in Spans \cup {None}
    BY DEF EntrySpan, TypeOK
  <2>3. last' \in Written
    BY <2>1, <2>2, GetSessionTyped, WrittenTyped
  <2>4. told' \in [Calls -> Nat]
    BY <1>7, CountUp DEF LogDone, TypeOK
  <2>5. spans' \in Seq(SpanRecord) /\ Len(spans') <= MaxSpans
    BY <1>7, EndSpanTyped DEF LogDone
  <2>6. QED
    BY <1>7, <2>1, <2>3, <2>4, <2>5, GetSessionTyped DEF LogDone, TypeOK
<1>8. ASSUME NEW t \in Threads, NEW how \in Outcomes, CallDone(t, how) PROVE TypeOK'
  <2>1. frames' \in [Actors -> Seq(Frame)] /\ Top(t) \in Frame
    BY <1>8, PoppedTyped DEF CallDone, InFrame
  <2>2. Top(t).span \in Spans \cup {None}
    BY <2>1 DEF Frame
  <2>3. QED
    BY <1>7, <1>8, <2>1, <2>2 DEF CallDone
<1>9. ASSUME NEW c \in out, NEW how \in Outcomes, FutureDone(c, how) PROVE TypeOK'
  <2>1. c.span \in Spans \cup {None} /\ frames' \in [Actors -> Seq(Frame)] /\ Spinner \in Actors
    BY <1>9 DEF FutureDone, TypeOK, Actors
  <2>2. QED
    BY <1>7, <1>9, <2>1 DEF FutureDone
<1>10. CASE UNCHANGED vars
  BY <1>10 DEF vars, context, TypeOK
<1>11. QED
  BY <1>1, <1>2, <1>3, <1>4, <1>5, <1>6, <1>8, <1>9, <1>10, <1>12 DEF Next

\* Type correctness of the session context.
THEOREM TypeCorrect == Spec => []TypeOK
<1>1. Init => TypeOK
  BY ContextBounds DEF Init, TypeOK, Nothing, Written, Calls, Rpcs
<1>2. QED
  BY <1>1, TypeNext, PTL DEF Spec

-----------------------------------------------------------------------------
IInv == TypeOK /\ StackInv /\ ContextIsInnermost

\* The contexts of other threads are their own.
LEMMA OneThread ==
  ASSUME StackInv, ContextIsInnermost, NEW a \in Actors, Stacked(a)', InContext(a)',
         \A b \in Actors \ {a} : /\ frames'[b] = frames[b] /\ bare'[b] = bare[b]
                                /\ sid'[b] = sid[b] /\ current'[b] = current[b]
  PROVE  StackInv' /\ ContextIsInnermost'
<1>1. ASSUME NEW b \in Actors, b # a PROVE Stacked(b)' /\ InContext(b)'
  <2>1. Stacked(b) /\ InContext(b)
    BY DEF StackInv, ContextIsInnermost
  <2>2. /\ frames'[b] = frames[b] /\ bare'[b] = bare[b]
        /\ sid'[b] = sid[b] /\ current'[b] = current[b]
    BY <1>1
  <2>3. QED
    BY <2>1, <2>2 DEF Stacked, InContext, Session, SessionOr, Depth, InFrame, Within, Handles
<1>2. QED
  BY <1>1 DEF StackInv, ContextIsInnermost

\* The length and the frames of a stack.
LEMMA StackFacts ==
  ASSUME TypeOK, NEW a \in Actors
  PROVE  /\ frames[a] \in Seq(Frame) /\ Len(frames[a]) \in Nat
         /\ DOMAIN frames[a] = 1..Len(frames[a])
         /\ frames[a] # <<>> => Len(frames[a]) \in Nat \ {0} /\ Top(a) = frames[a][Len(frames[a])]
         /\ frames[a] = <<>> => Len(frames[a]) = 0
         /\ \A i \in 1..Len(frames[a]) :
              /\ frames[a][i] \in Frame
              /\ frames[a][i].kind # "call" => frames[a][i].id \in Ids
<1>1. frames[a] \in Seq(Frame) /\ Len(frames[a]) \in Nat /\ DOMAIN frames[a] = 1..Len(frames[a])
  BY DEF TypeOK
<1>2. frames[a] # <<>> => Len(frames[a]) \in Nat \ {0} /\ Top(a) = frames[a][Len(frames[a])]
  BY <1>1, Pop DEF Top
<1>3. \A i \in 1..Len(frames[a]) : frames[a][i] \in Frame
  BY <1>1
<1>4. QED
  BY <1>1, <1>2, <1>3 DEF Frame

\* No session is without an id.
LEMMA IdsAreNotEmpty == Empty \notin Ids
  BY NamesAssumption DEF Ids, Made, Empty

\* The frame of the innermost session is one of a session or an RPC.
LEMMA InnermostFrame ==
  ASSUME TypeOK, NEW a \in Actors, Stacked(a)
  PROVE  \/ Depth(a) = 0
         \/ Depth(a) \in 1..Len(frames[a]) /\ frames[a][Depth(a)].kind # "call"
<1> DEFINE n == Len(frames[a])
<1>1. n \in Nat /\ DOMAIN frames[a] = 1..n /\ (frames[a] # <<>> => n # 0) /\ (frames[a] = <<>> => n = 0)
  BY StackFacts
<1>2. \A i \in 1..n : frames[a][i].kind = "call" => i = n
  BY <1>1 DEF Stacked
<1> HIDE DEF n
<1>3. CASE InFrame(a, "call")
  <2>1. n # 0 /\ Depth(a) = n - 1
    BY <1>1, <1>3 DEF InFrame, Depth, n
  <2>2. Depth(a) = 0 \/ (Depth(a) \in 1..n /\ Depth(a) # n)
    BY <1>1, <2>1
  <2>3. QED
    BY <1>2, <2>2 DEF n
<1>4. CASE ~InFrame(a, "call")
  <2>1. Depth(a) = n
    BY <1>4 DEF Depth, n
  <2>2. n = 0 \/ (n \in 1..n /\ frames[a][n].kind # "call")
    BY <1>1, <1>4 DEF InFrame, n
  <2>3. QED
    BY <2>1, <2>2 DEF n
<1>5. QED
  BY <1>3, <1>4

\* get_session_id() gives the id of the innermost session, and makes one up
\* only where there is none.
LEMMA GetSessionKeeps ==
  ASSUME IInv, NEW a \in Actors, NEW id \in Ids, GetSession(a, id)
  PROVE  /\ id = sid'[a] /\ sid'[a] = SessionOr(a, bare')
         /\ bare'[a] # bare[a] => Depth(a) = 0
         /\ \A b \in Actors \ {a} : sid'[b] = sid[b] /\ bare'[b] = bare[b]
<1>1. TypeOK /\ sid[a] = SessionOr(a, bare)
  BY DEF IInv, ContextIsInnermost, InContext, Session
<1>2. CASE sid[a] # Empty /\ id = sid[a] /\ UNCHANGED <<sid, made, bare>>
  BY <1>1, <1>2
<1>3. CASE /\ sid[a] = Empty
           /\ sid' = [sid EXCEPT ![a] = id] /\ bare' = [bare EXCEPT ![a] = id]
  <2>1. Depth(a) = 0
    <3>1. SUFFICES ASSUME Depth(a) # 0 PROVE FALSE
      OBVIOUS
    <3>2. Depth(a) \in 1..Len(frames[a]) /\ frames[a][Depth(a)].kind # "call"
      BY <1>1, <3>1, InnermostFrame DEF IInv, StackInv
    <3>3. QED
      BY <1>1, <1>3, <3>1, <3>2, StackFacts, IdsAreNotEmpty DEF SessionOr
  <2>2. sid'[a] = id /\ bare'[a] = id
    BY <1>1, <1>3 DEF TypeOK
  <2>3. QED
    BY <1>1, <1>3, <2>1, <2>2 DEF SessionOr, TypeOK
<1>4. QED
  BY <1>2, <1>3 DEF GetSession

\* A frame pushed on a stack that does not wait for a call.
LEMMA Pushes ==
  ASSUME TypeOK, NEW a \in Actors, Runs(a), NEW f \in Frame, Pushed(a, f)
  PROVE  /\ Len(frames[a]) \in Nat /\ DOMAIN frames[a] = 1..Len(frames[a])
         /\ Depth(a) = Len(frames[a])
         /\ frames'[a] \in Seq(Frame) /\ Len(frames'[a]) = Len(frames[a]) + 1
         /\ DOMAIN frames'[a] = 1..(Len(frames[a]) + 1)
         /\ frames'[a] # <<>>
         /\ \A i \in 1..Len(frames[a]) : frames'[a][i] = frames[a][i]
         /\ frames'[a][Len(frames[a]) + 1] = f
         /\ \A b \in Actors \ {a} : frames'[b] = frames[b]
<1>1. frames \in [Actors -> Seq(Frame)]
  BY DEF TypeOK
<1>2. frames'[a] = Append(frames[a], f) /\ \A b \in Actors \ {a} : frames'[b] = frames[b]
  BY <1>1 DEF Pushed
<1>3. /\ frames'[a] \in Seq(Frame) /\ Len(frames'[a]) = Len(frames[a]) + 1
      /\ \A i \in 1..Len(frames[a]) : frames'[a][i] = frames[a][i]
      /\ frames'[a][Len(frames[a]) + 1] = f
  BY <1>1, <1>2, Push
<1>4. Len(frames[a]) \in Nat /\ DOMAIN frames[a] = 1..Len(frames[a])
  BY StackFacts
<1>5. DOMAIN frames'[a] = 1..(Len(frames[a]) + 1) /\ frames'[a] # <<>>
  BY <1>3, <1>4
<1>6. QED
  BY <1>2, <1>3, <1>4, <1>5 DEF Runs, Depth

\* The stack after a push of an RPC or a session.
LEMMA EnterSession ==
  ASSUME IInv, NEW a \in Actors, Runs(a), NEW f \in Frame, Pushed(a, f),
         f.kind = "session" \/ (f.kind = "rpc" /\ frames[a] = <<>> /\ f.beneath = None),
         f.old = sid[a], bare' = bare
  PROVE  Stacked(a)' /\ Session(a)' = f.id
         /\ Within(a)' = IF f.kind = "rpc" THEN f.span ELSE Within(a)
<1> DEFINE n == Len(frames[a])
<1>1. /\ n \in Nat /\ DOMAIN frames[a] = 1..n /\ Depth(a) = n
      /\ Len(frames'[a]) = n + 1 /\ DOMAIN frames'[a] = 1..(n + 1) /\ frames'[a] # <<>>
      /\ \A i \in 1..n : frames'[a][i] = frames[a][i]
      /\ frames'[a][n + 1] = f
  BY Pushes DEF IInv
<1>2. /\ frames[a] = <<>> <=> n = 0
      /\ \A i \in 1..n : frames[a][i].kind = "call" => i = n
      /\ sid[a] = IF n = 0 THEN bare[a] ELSE frames[a][n].id
  BY <1>1, StackFacts DEF IInv, StackInv, Stacked, ContextIsInnermost, InContext, Session, SessionOr
<1>3. \A i \in 1..n : frames[a][i].kind # "call"
  BY <1>1, <1>2 DEF Runs, InFrame
<1>4. \A i \in 1..n : /\ frames[a][i].kind = "rpc" => i = 1 /\ frames[a][i].beneath = None
                      /\ frames[a][i].old = (IF i = 1 THEN bare[a] ELSE frames[a][i - 1].id)
  BY <1>1, <1>3 DEF IInv, StackInv, Stacked
<1> HIDE DEF n
<1>5. Stacked(a)'
  <2> SUFFICES ASSUME NEW i \in 1..(n + 1)
      PROVE  /\ frames'[a][i].kind = "rpc" => i = 1 /\ frames'[a][i].beneath = None
             /\ frames'[a][i].kind # "call"
             /\ frames'[a][i].old = (IF i = 1 THEN bare[a] ELSE frames'[a][i - 1].id)
    BY <1>1 DEF Stacked
  <2>1. CASE i \in 1..n
    <3>1. i = 1 \/ (i # 1 /\ i - 1 \in 1..n)
      BY <1>1, <2>1
    <3>2. QED
      BY <1>1, <1>3, <1>4, <2>1, <3>1
  <2>2. CASE i = n + 1
    <3>1. (n = 0 /\ i = 1) \/ (n # 0 /\ i # 1 /\ i - 1 = n /\ n \in 1..n)
      BY <1>1, <2>2
    <3>2. QED
      BY <1>1, <1>2, <2>2, <3>1
  <2>3. QED
    BY <1>1, <2>1, <2>2
<1>6. Session(a)' = f.id
  <2>1. Depth(a)' = n + 1 /\ n + 1 # 0
    BY <1>1 DEF Depth, InFrame
  <2>2. QED
    BY <1>1, <2>1 DEF Session, SessionOr
<1>7. Within(a)' = IF f.kind = "rpc" THEN f.span ELSE Within(a)
  <2>1. CASE n = 0
    BY <1>1, <1>2, <2>1 DEF Within, Handles
  <2>2. CASE n # 0
    <3>1. frames'[a][1] = frames[a][1] /\ frames[a] # <<>> /\ f.kind # "rpc"
      BY <1>1, <1>2, <2>2
    <3>2. QED
      BY <1>1, <3>1 DEF Within, Handles
  <2>3. QED
    BY <2>1, <2>2
<1>8. QED
  BY <1>5, <1>6, <1>7

\* A frame popped.
LEMMA Pops ==
  ASSUME TypeOK, NEW a \in Actors, frames[a] # <<>>, Popped(a)
  PROVE  /\ Len(frames[a]) \in Nat \ {0} /\ DOMAIN frames[a] = 1..Len(frames[a])
         /\ Top(a) = frames[a][Len(frames[a])]
         /\ Len(frames'[a]) = Len(frames[a]) - 1
         /\ DOMAIN frames'[a] = 1..(Len(frames[a]) - 1)
         /\ frames'[a] = <<>> <=> Len(frames[a]) = 1
         /\ \A i \in 1..(Len(frames[a]) - 1) : frames'[a][i] = frames[a][i]
         /\ \A b \in Actors \ {a} : frames'[b] = frames[b]
<1>1. frames \in [Actors -> Seq(Frame)]
  BY DEF TypeOK
<1>2. frames'[a] = Front(frames[a]) /\ \A b \in Actors \ {a} : frames'[b] = frames[b]
  BY <1>1 DEF Popped
<1>3. /\ Len(frames[a]) \in Nat \ {0} /\ DOMAIN frames[a] = 1..Len(frames[a])
      /\ Top(a) = frames[a][Len(frames[a])]
  BY StackFacts
<1>4. /\ frames'[a] \in Seq(Frame) /\ Len(frames'[a]) = Len(frames[a]) - 1
      /\ \A i \in 1..(Len(frames[a]) - 1) : frames'[a][i] = frames[a][i]
  BY <1>1, <1>2, Pop
<1>5. ASSUME NEW s \in Seq(Frame) PROVE (s = <<>> <=> Len(s) = 0) /\ DOMAIN s = 1..Len(s)
  OBVIOUS
<1>6. /\ DOMAIN frames'[a] = 1..(Len(frames[a]) - 1)
      /\ frames'[a] = <<>> <=> Len(frames[a]) - 1 = 0
  BY <1>4, <1>5
<1>7. Len(frames[a]) - 1 = 0 <=> Len(frames[a]) = 1
  BY <1>3
<1>8. QED
  BY <1>2, <1>3, <1>4, <1>6, <1>7

\* The frames of a stack that does not wait for a call are of sessions and RPCs,
\* and each has the id of before.
LEMMA Frames ==
  ASSUME IInv, NEW a \in Actors, Runs(a)
  PROVE  /\ \A i \in 1..Len(frames[a]) : frames[a][i].kind # "call"
         /\ \A i \in 1..Len(frames[a]) : frames[a][i].kind = "rpc" => i = 1 /\ frames[a][i].beneath = None
         /\ \A i \in 1..Len(frames[a]) :
              frames[a][i].old = (IF i = 1 THEN bare[a] ELSE frames[a][i - 1].id)
<1> DEFINE n == Len(frames[a])
<1>1. n \in Nat /\ DOMAIN frames[a] = 1..n /\ (n # 0 => frames[a] # <<>>)
  BY StackFacts DEF IInv
<1>2. Stacked(a)
  BY DEF IInv, StackInv
<1> HIDE DEF n
<1>3. \A i \in 1..n : frames[a][i].kind = "call" => i = n
  BY <1>1, <1>2 DEF Stacked, n
<1>4. n # 0 => frames[a][n].kind # "call"
  BY <1>1 DEF Runs, InFrame, n
<1>5. \A i \in 1..n : frames[a][i].kind # "call"
  BY <1>1, <1>3, <1>4
<1>6. \A i \in 1..n : frames[a][i].kind = "rpc" => i = 1 /\ frames[a][i].beneath = None
  BY <1>1, <1>2 DEF Stacked
<1>7. \A i \in 1..n : frames[a][i].old = (IF i = 1 THEN bare[a] ELSE frames[a][i - 1].id)
  BY <1>1, <1>2, <1>5 DEF Stacked
<1>8. QED
  BY <1>5, <1>6, <1>7 DEF n

\* The stack beneath an RPC or a session.
LEMMA LeaveSession ==
  ASSUME IInv, NEW a \in Actors, InFrame(a, "session") \/ InFrame(a, "rpc"), Popped(a), bare' = bare
  PROVE  /\ Stacked(a)'
         /\ Session(a)' = Top(a).old
         /\ Within(a)' = (IF Top(a).kind = "rpc" THEN None ELSE Within(a))
         /\ Top(a).kind = "rpc" => Top(a).beneath = None
<1> DEFINE n == Len(frames[a])
<1>1. /\ n \in Nat \ {0} /\ DOMAIN frames[a] = 1..n /\ Top(a) = frames[a][n] /\ frames[a] # <<>>
      /\ Len(frames'[a]) = n - 1 /\ DOMAIN frames'[a] = 1..(n - 1)
      /\ frames'[a] = <<>> <=> n = 1
      /\ \A i \in 1..(n - 1) : frames'[a][i] = frames[a][i]
  BY Pops DEF IInv, InFrame
<1>2. Top(a).kind \in {"session", "rpc"}
  BY <1>1 DEF InFrame
<1>3. Runs(a)
  BY <1>1, <1>2 DEF Runs, InFrame
<1>4. /\ \A i \in 1..n : frames[a][i].kind # "call"
      /\ \A i \in 1..n : frames[a][i].kind = "rpc" => i = 1 /\ frames[a][i].beneath = None
      /\ \A i \in 1..n : frames[a][i].old = (IF i = 1 THEN bare[a] ELSE frames[a][i - 1].id)
  BY <1>3, Frames
<1> HIDE DEF n
<1>5. n \in 1..n /\ \A i \in 1..(n - 1) : i \in 1..n
  BY <1>1
<1>6. ASSUME NEW i \in 1..(n - 1) PROVE frames'[a][i].kind # "call"
  <2>1. frames'[a][i] = frames[a][i] /\ i \in 1..n
    BY <1>1, <1>5
  <2>2. QED
    BY <1>4, <2>1
<1>7. Stacked(a)'
  <2> SUFFICES ASSUME NEW i \in 1..(n - 1)
      PROVE  /\ frames'[a][i].kind = "rpc" => i = 1 /\ frames'[a][i].beneath = None
             /\ frames'[a][i].old = (IF i = 1 THEN bare[a] ELSE frames'[a][i - 1].id)
    BY <1>1, <1>6 DEF Stacked
  <2>1. i = 1 \/ (i # 1 /\ i - 1 \in 1..(n - 1))
    BY <1>1
  <2>2. frames'[a][i] = frames[a][i] /\ i \in 1..n
    BY <1>1, <1>5
  <2>3. i # 1 => frames'[a][i - 1] = frames[a][i - 1]
    BY <1>1, <2>1
  <2>4. QED
    BY <1>4, <2>2, <2>3
<1>8. Depth(a)' = n - 1
  <2>1. CASE n = 1
    BY <1>1, <2>1 DEF Depth, InFrame
  <2>2. CASE n # 1
    <3>1. n - 1 \in 1..(n - 1)
      BY <1>1, <2>2
    <3>2. QED
      BY <1>1, <1>6, <3>1 DEF Depth, InFrame
  <2>3. QED
    BY <2>1, <2>2
<1>9. Session(a)' = Top(a).old
  <2>1. CASE n = 1
    BY <1>1, <1>4, <1>5, <1>8, <2>1 DEF Session, SessionOr
  <2>2. CASE n # 1
    <3>1. n - 1 \in 1..(n - 1) /\ n - 1 # 0
      BY <1>1, <2>2
    <3>2. frames'[a][n - 1] = frames[a][n - 1] /\ Top(a).old = frames[a][n - 1].id
      BY <1>1, <1>4, <1>5, <2>2, <3>1
    <3>3. QED
      BY <1>8, <3>1, <3>2 DEF Session, SessionOr
  <2>3. QED
    BY <2>1, <2>2
<1>10. Within(a)' = (IF Top(a).kind = "rpc" THEN None ELSE Within(a))
  <2>1. CASE n = 1
    BY <1>1, <2>1 DEF Within, Handles
  <2>2. CASE n # 1
    <3>1. 1 \in 1..(n - 1) /\ frames'[a] # <<>>
      BY <1>1, <2>2
    <3>2. Top(a).kind # "rpc"
      BY <1>1, <1>4, <1>5, <2>2
    <3>3. frames'[a][1] = frames[a][1]
      BY <1>1, <3>1
    <3>4. QED
      BY <1>1, <3>1, <3>2, <3>3 DEF Within, Handles
  <2>3. QED
    BY <2>1, <2>2
<1>11. Top(a).kind = "rpc" => Top(a).beneath = None
  BY <1>1, <1>4, <1>5
<1>12. QED
  BY <1>7, <1>9, <1>10, <1>11

\* The stack while a thread waits for a call, begun with bare', is the one beneath.
LEMMA EnterCall ==
  ASSUME IInv, NEW a \in Actors, Runs(a), NEW f \in Frame, Pushed(a, f), f.kind = "call",
         bare'[a] # bare[a] => Depth(a) = 0
  PROVE  /\ Stacked(a)'
         /\ Session(a)' = SessionOr(a, bare')
         /\ Within(a)' = Within(a)
<1> DEFINE n == Len(frames[a])
<1>1. /\ n \in Nat /\ DOMAIN frames[a] = 1..n /\ Depth(a) = n
      /\ Len(frames'[a]) = n + 1 /\ DOMAIN frames'[a] = 1..(n + 1) /\ frames'[a] # <<>>
      /\ \A i \in 1..n : frames'[a][i] = frames[a][i]
      /\ frames'[a][n + 1] = f
  BY Pushes DEF IInv
<1>2. (frames[a] = <<>> <=> n = 0)
  BY <1>1, StackFacts DEF IInv
<1>3. /\ \A i \in 1..n : frames[a][i].kind # "call"
      /\ \A i \in 1..n : frames[a][i].kind = "rpc" => i = 1 /\ frames[a][i].beneath = None
      /\ \A i \in 1..n : frames[a][i].old = (IF i = 1 THEN bare[a] ELSE frames[a][i - 1].id)
  BY Frames
<1> HIDE DEF n
<1>4. Stacked(a)'
  <2> SUFFICES ASSUME NEW i \in 1..(n + 1)
      PROVE  /\ frames'[a][i].kind = "rpc" => i = 1 /\ frames'[a][i].beneath = None
             /\ frames'[a][i].kind = "call" => i = n + 1
             /\ frames'[a][i].kind # "call" =>
                  frames'[a][i].old = (IF i = 1 THEN bare'[a] ELSE frames'[a][i - 1].id)
    BY <1>1 DEF Stacked
  <2>1. CASE i = n + 1
    BY <1>1, <2>1
  <2>2. CASE i \in 1..n
    <3>1. n # 0 /\ (i = 1 \/ (i # 1 /\ i - 1 \in 1..n))
      BY <1>1, <2>2
    <3>2. bare'[a] = bare[a]
      BY <1>1, <3>1
    <3>3. frames'[a][i] = frames[a][i] /\ (i # 1 => frames'[a][i - 1] = frames[a][i - 1])
      BY <1>1, <2>2, <3>1
    <3>4. QED
      BY <1>3, <2>2, <3>2, <3>3
  <2>3. QED
    BY <1>1, <2>1, <2>2
<1>5. Session(a)' = SessionOr(a, bare')
  <2>1. Depth(a)' = n /\ n + 1 - 1 = n
    BY <1>1 DEF Depth, InFrame
  <2>2. n = 0 \/ (n # 0 /\ n \in 1..n)
    BY <1>1
  <2>3. QED
    BY <1>1, <2>1, <2>2 DEF Session, SessionOr
<1>6. Within(a)' = Within(a)
  <2>1. CASE n = 0
    BY <1>1, <1>2, <2>1 DEF Within, Handles
  <2>2. CASE n # 0
    <3>1. frames'[a][1] = frames[a][1] /\ frames[a] # <<>>
      BY <1>1, <1>2, <2>2
    <3>2. QED
      BY <1>1, <3>1 DEF Within, Handles
  <2>3. QED
    BY <2>1, <2>2
<1>7. QED
  BY <1>4, <1>5, <1>6

\* The stack when a call is over, at the end of which bare' holds.
LEMMA LeaveCall ==
  ASSUME IInv, NEW a \in Actors, InFrame(a, "call"), Popped(a),
         bare'[a] # bare[a] => Depth(a) = 0
  PROVE  /\ Stacked(a)'
         /\ Session(a)' = SessionOr(a, bare')
         /\ Within(a)' = Within(a)
<1> DEFINE n == Len(frames[a])
<1>1. /\ n \in Nat \ {0} /\ DOMAIN frames[a] = 1..n /\ Top(a) = frames[a][n] /\ frames[a] # <<>>
      /\ Len(frames'[a]) = n - 1 /\ DOMAIN frames'[a] = 1..(n - 1)
      /\ frames'[a] = <<>> <=> n = 1
      /\ \A i \in 1..(n - 1) : frames'[a][i] = frames[a][i]
  BY Pops DEF IInv, InFrame
<1>2. Depth(a) = n - 1
  BY DEF Depth
<1>3. frames[a][n].kind = "call"
  BY DEF InFrame
<1>4. Stacked(a)
  BY DEF IInv, StackInv
<1>5. /\ \A i \in 1..n : frames[a][i].kind = "rpc" => i = 1 /\ frames[a][i].beneath = None
      /\ \A i \in 1..n : frames[a][i].kind = "call" => i = n
  BY <1>1, <1>4 DEF Stacked
<1> HIDE DEF n
<1>6. ASSUME NEW i \in 1..(n - 1)
      PROVE  /\ i \in 1..n /\ frames'[a][i] = frames[a][i]
             /\ frames[a][i].kind # "call"
             /\ i # 1 => frames'[a][i - 1] = frames[a][i - 1]
             /\ frames[a][i].old = (IF i = 1 THEN bare[a] ELSE frames[a][i - 1].id)
             /\ n # 1
  <2>1. i \in 1..n /\ i # n /\ n # 1 /\ (i # 1 => i - 1 \in 1..(n - 1))
    BY <1>1
  <2>2. frames'[a][i] = frames[a][i] /\ (i # 1 => frames'[a][i - 1] = frames[a][i - 1])
    BY <1>1, <2>1
  <2>3. frames[a][i].kind # "call"
    BY <1>5, <2>1
  <2>4. frames[a][i].old = (IF i = 1 THEN bare[a] ELSE frames[a][i - 1].id)
    BY <1>1, <1>4, <2>1, <2>3 DEF Stacked
  <2>5. QED
    BY <2>1, <2>2, <2>3, <2>4
<1>7. Stacked(a)'
  <2> SUFFICES ASSUME NEW i \in 1..(n - 1)
      PROVE  /\ frames'[a][i].kind = "rpc" => i = 1 /\ frames'[a][i].beneath = None
             /\ frames'[a][i].kind # "call"
             /\ frames'[a][i].old = (IF i = 1 THEN bare'[a] ELSE frames'[a][i - 1].id)
    BY <1>1 DEF Stacked
  <2>1. bare'[a] = bare[a]
    BY <1>1, <1>2, <1>6
  <2>2. QED
    BY <1>5, <1>6, <2>1
<1>8. Depth(a)' = n - 1
  <2>1. CASE n = 1
    BY <1>1, <2>1 DEF Depth, InFrame
  <2>2. CASE n # 1
    <3>1. n - 1 \in 1..(n - 1)
      BY <1>1, <2>2
    <3>2. frames'[a][n - 1].kind # "call"
      BY <1>6, <3>1
    <3>3. QED
      BY <1>1, <3>2 DEF Depth, InFrame
  <2>3. QED
    BY <2>1, <2>2
<1>9. Session(a)' = SessionOr(a, bare')
  <2>1. CASE n = 1
    BY <1>2, <1>8, <2>1 DEF Session, SessionOr
  <2>2. CASE n # 1
    <3>1. n - 1 \in 1..(n - 1) /\ n - 1 # 0
      BY <1>1, <2>2
    <3>2. frames'[a][n - 1] = frames[a][n - 1]
      BY <1>1, <3>1
    <3>3. QED
      BY <1>2, <1>8, <3>1, <3>2 DEF Session, SessionOr
  <2>3. QED
    BY <2>1, <2>2
<1>10. Within(a)' = Within(a)
  <2>1. CASE n = 1
    BY <1>1, <1>3, <2>1 DEF Within, Handles
  <2>2. CASE n # 1
    <3>1. 1 \in 1..(n - 1) /\ frames'[a] # <<>>
      BY <1>1, <2>2
    <3>2. frames'[a][1] = frames[a][1]
      BY <1>1, <3>1
    <3>3. QED
      BY <1>1, <3>1, <3>2 DEF Within, Handles
  <2>3. QED
    BY <2>1, <2>2
<1>11. QED
  BY <1>7, <1>9, <1>10

\* The stack of a thread that neither enters nor leaves a frame.
LEMMA StayInFrame ==
  ASSUME IInv, NEW a \in Actors, frames'[a] = frames[a],
         bare'[a] # bare[a] => Depth(a) = 0
  PROVE  /\ Stacked(a)'
         /\ Session(a)' = SessionOr(a, bare')
         /\ Within(a)' = Within(a)
<1>1. Depth(a)' = Depth(a) /\ Within(a)' = Within(a)
  BY DEF Depth, InFrame, Within, Handles
<1>2. Session(a)' = SessionOr(a, bare')
  BY <1>1 DEF Session, SessionOr
<1>3. Stacked(a)
  BY DEF IInv, StackInv
<1>4. CASE bare'[a] = bare[a]
  BY <1>1, <1>2, <1>3, <1>4 DEF Stacked
<1>5. CASE Depth(a) = 0
  <2> DEFINE n == Len(frames[a])
  <2>1. n \in Nat /\ DOMAIN frames[a] = 1..n
    BY StackFacts DEF IInv
  <2>2. (InFrame(a, "call") /\ n - 1 = 0 /\ frames[a][n].kind = "call") \/ n = 0
    BY <1>5 DEF Depth, InFrame
  <2> HIDE DEF n
  <2>3. (n = 1 /\ frames[a][1].kind = "call") \/ n = 0
    BY <2>1, <2>2
  <2>4. ASSUME NEW i \in 1..n PROVE n = 1 /\ i = 1 /\ frames[a][i].kind = "call"
    BY <2>1, <2>3
  <2>5. QED
    BY <1>1, <1>2, <2>1, <2>4 DEF Stacked, n
<1>6. QED
  BY <1>4, <1>5

\* Every step keeps what the frames restore and what the threads carry.
LEMMA ContextNext == IInv /\ [Next]_vars => StackInv' /\ ContextIsInnermost'
<1> SUFFICES ASSUME IInv, [Next]_vars PROVE StackInv' /\ ContextIsInnermost'
  OBVIOUS
<1> TypeOK /\ StackInv /\ ContextIsInnermost
  BY DEF IInv
<1> \A t \in Threads : t \in Actors
  BY DEF Actors
<1> \A a \in Actors : Stacked(a) /\ sid[a] = Session(a) /\ current[a] = Within(a)
  BY DEF StackInv, ContextIsInnermost, InContext
<1> USE DEF InContext
<1>1. ASSUME NEW t \in Threads, NEW s \in Incoming \cup {Empty}, OpenSession(t, s)
      PROVE  StackInv' /\ ContextIsInnermost'
  <2> DEFINE f == [kind |-> "session", id |-> SessionId(s), old |-> sid[t],
                   span |-> None, beneath |-> None, number |-> 0]
  <2>1. NewSession(t, s) /\ Runs(t) /\ Pushed(t, f) /\ current' = current
    BY <1>1 DEF OpenSession
  <2>2. SessionId(s) \in Ids /\ bare' = bare
    BY <2>1, NewSessionTyped
  <2>3. f \in Frame
    BY <2>2, ContextBounds DEF TypeOK, Frame
  <2>4. f.kind = "session" /\ f.old = sid[t] /\ f.id = SessionId(s)
    OBVIOUS
  <2> HIDE DEF f
  <2>5. Stacked(t)' /\ Session(t)' = f.id /\ Within(t)' = Within(t)
    BY <2>1, <2>2, <2>3, <2>4, EnterSession
  <2>6. \A b \in Actors \ {t} : frames'[b] = frames[b]
    BY <2>1, <2>3, Pushes
  <2>7. sid'[t] = SessionId(s) /\ \A b \in Actors \ {t} : sid'[b] = sid[b]
    BY <2>1 DEF NewSession, TypeOK
  <2>8. QED
    BY <2>1, <2>2, <2>4, <2>5, <2>6, <2>7, OneThread
<1>2. ASSUME NEW t \in Threads, NEW s \in Incoming \cup {Empty}, Serve(t, s)
      PROVE  StackInv' /\ ContextIsInnermost'
  <2>1. PICK span \in Spans \cup {None} :
          /\ current' = [current EXCEPT ![t] = Activated(span, @)]
          /\ Pushed(t, [kind |-> "rpc", id |-> SessionId(s), old |-> sid[t],
                        span |-> span, beneath |-> current[t], number |-> rpcs'])
    BY <1>2 DEF Serve
  <2> DEFINE f == [kind |-> "rpc", id |-> SessionId(s), old |-> sid[t],
                   span |-> span, beneath |-> current[t], number |-> rpcs']
  <2>2. NewSession(t, s) /\ frames[t] = <<>> /\ rpcs' \in 0..MaxRpcs
    BY <1>2, ContextBounds DEF Serve, TypeOK
  <2>3. SessionId(s) \in Ids /\ bare' = bare
    BY <2>2, NewSessionTyped
  <2>4. Within(t) = None /\ current[t] = None /\ Runs(t)
    BY <2>2 DEF Within, Handles, Runs, InFrame
  <2>5. f \in Frame
    BY <2>2, <2>3 DEF TypeOK, Frame
  <2>6. /\ f.kind = "rpc" /\ f.old = sid[t] /\ f.id = SessionId(s)
        /\ f.span = span /\ f.beneath = None
    BY <2>4
  <2>7. Pushed(t, f)
    BY <2>1
  <2> HIDE DEF f
  <2>8. Stacked(t)' /\ Session(t)' = f.id /\ Within(t)' = f.span
    BY <2>2, <2>3, <2>4, <2>5, <2>6, <2>7, EnterSession
  <2>9. \A b \in Actors \ {t} : frames'[b] = frames[b]
    BY <2>4, <2>5, <2>7, Pushes
  <2>10. sid'[t] = SessionId(s) /\ \A b \in Actors \ {t} : sid'[b] = sid[b]
    BY <2>2 DEF NewSession, TypeOK
  <2>11. current'[t] = span /\ \A b \in Actors \ {t} : current'[b] = current[b]
    BY <2>1, <2>4 DEF TypeOK, Activated
  <2>12. QED
    BY <2>3, <2>6, <2>8, <2>9, <2>10, <2>11, OneThread
<1>3. ASSUME NEW t \in Threads, NEW how \in Outcomes, CloseSession(t, how)
      PROVE  StackInv' /\ ContextIsInnermost'
  <2>1. /\ InFrame(t, "session") /\ Popped(t) /\ bare' = bare /\ current' = current
        /\ sid' = [sid EXCEPT ![t] = Top(t).old]
    BY <1>3 DEF CloseSession, Restored
  <2>2. Top(t).kind = "session" /\ frames[t] # <<>>
    BY <2>1, StackFacts DEF InFrame
  <2>3. Stacked(t)' /\ Session(t)' = Top(t).old /\ Within(t)' = Within(t)
    BY <2>1, <2>2, LeaveSession
  <2>4. \A b \in Actors \ {t} : frames'[b] = frames[b]
    BY <2>1, <2>2, Pops
  <2>5. sid'[t] = Top(t).old /\ \A b \in Actors \ {t} : sid'[b] = sid[b]
    BY <2>1 DEF TypeOK
  <2>6. QED
    BY <2>1, <2>3, <2>4, <2>5, OneThread
<1>4. ASSUME NEW t \in Threads, NEW how \in Outcomes, HandlerEnds(t, how)
      PROVE  StackInv' /\ ContextIsInnermost'
  <2>1. /\ InFrame(t, "rpc") /\ Popped(t) /\ bare' = bare
        /\ current' = [current EXCEPT ![t] = Top(t).beneath]
        /\ sid' = [sid EXCEPT ![t] = Top(t).old]
    BY <1>4 DEF HandlerEnds, Restored
  <2>2. Top(t).kind = "rpc" /\ frames[t] # <<>>
    BY <2>1, StackFacts DEF InFrame
  <2>3. Stacked(t)' /\ Session(t)' = Top(t).old /\ Within(t)' = None /\ Top(t).beneath = None
    BY <2>1, <2>2, LeaveSession
  <2>4. \A b \in Actors \ {t} : frames'[b] = frames[b]
    BY <2>1, <2>2, Pops
  <2>5. /\ sid'[t] = Top(t).old /\ current'[t] = Top(t).beneath
        /\ \A b \in Actors \ {t} : sid'[b] = sid[b] /\ current'[b] = current[b]
    BY <2>1 DEF TypeOK
  <2>6. QED
    BY <2>1, <2>3, <2>4, <2>5, OneThread
\* Steps that write an entry, or metadata.
<1>5. ASSUME NEW a \in Actors, NEW id \in Ids, GetSession(a, id), current' = current,
             Stacked(a)', Session(a)' = SessionOr(a, bare'), Within(a)' = Within(a),
             \A b \in Actors \ {a} : frames'[b] = frames[b]
      PROVE  StackInv' /\ ContextIsInnermost'
  <2>1. /\ sid'[a] = SessionOr(a, bare')
        /\ \A b \in Actors \ {a} : sid'[b] = sid[b] /\ bare'[b] = bare[b]
    BY <1>5, GetSessionKeeps
  <2>2. QED
    BY <1>5, <2>1, OneThread
<1>6. ASSUME NEW a \in Actors, NEW id \in Ids, GetSession(a, id), current' = current,
             frames' = frames
      PROVE  StackInv' /\ ContextIsInnermost'
  <2>1. bare'[a] # bare[a] => Depth(a) = 0
    BY <1>6, GetSessionKeeps
  <2>2. QED
    BY <1>5, <1>6, <2>1, StayInFrame
<1>7. ASSUME NEW t \in Threads, Log(t) PROVE StackInv' /\ ContextIsInnermost'
  BY <1>6, <1>7 DEF Log
<1>13. ASSUME NEW t \in Threads, NEW own \in Incoming \cup {Empty}, StreamOut(t, own)
       PROVE  StackInv' /\ ContextIsInnermost'
  BY <1>6, <1>13 DEF StreamOut
<1>8. ASSUME NEW t \in Threads, NEW own \in Incoming \cup {Empty}, NEW way \in Ways,
             CallOut(t, own, way)
      PROVE  StackInv' /\ ContextIsInnermost'
  <2>1. Runs(t) /\ calls' \in Calls /\ current' = current
    BY <1>8, ContextBounds DEF CallOut, TypeOK, Calls
  <2>2. PICK span \in Spans \cup {None}, id \in Ids :
          /\ GetSession(t, id)
          /\ way = "waits" => Pushed(t, [kind |-> "call", id |-> Empty, old |-> Empty,
                                 span |-> span, beneath |-> None, number |-> calls'])
          /\ way # "waits" => frames' = frames
    BY <1>8 DEF CallOut
  <2> DEFINE f == [kind |-> "call", id |-> Empty, old |-> Empty,
                   span |-> span, beneath |-> None, number |-> calls']
  <2>3. f \in Frame /\ f.kind = "call"
    BY <2>1 DEF Frame
  <2> HIDE DEF f
  <2>4. CASE way = "waits"
    <3>1. Pushed(t, f)
      BY <2>2, <2>4 DEF f
    <3>2. bare'[t] # bare[t] => Depth(t) = 0
      BY <2>2, GetSessionKeeps
    <3>3. Stacked(t)' /\ Session(t)' = SessionOr(t, bare') /\ Within(t)' = Within(t)
      BY <2>1, <2>3, <3>1, <3>2, EnterCall
    <3>4. \A b \in Actors \ {t} : frames'[b] = frames[b]
      BY <2>1, <2>3, <3>1, Pushes
    <3>5. QED
      BY <1>5, <2>1, <2>2, <3>3, <3>4
  <2>5. CASE way # "waits"
    BY <1>6, <2>1, <2>2, <2>5
  <2>6. QED
    BY <2>4, <2>5
<1>9. ASSUME NEW t \in Threads, NEW how \in Outcomes, CallDone(t, how)
      PROVE  StackInv' /\ ContextIsInnermost'
  <2>1. InFrame(t, "call") /\ Popped(t) /\ current' = current
    BY <1>9 DEF CallDone, LogDone
  <2>2. PICK id \in Ids : GetSession(t, id)
    BY <1>9 DEF CallDone, LogDone
  <2>3. bare'[t] # bare[t] => Depth(t) = 0
    BY <2>2, GetSessionKeeps
  <2>4. Stacked(t)' /\ Session(t)' = SessionOr(t, bare') /\ Within(t)' = Within(t)
    BY <2>1, <2>3, LeaveCall
  <2>5. \A b \in Actors \ {t} : frames'[b] = frames[b]
    BY <2>1, Pops DEF InFrame
  <2>6. QED
    BY <1>5, <2>1, <2>2, <2>4, <2>5
<1>10. ASSUME NEW c \in out, NEW how \in Outcomes, FutureDone(c, how)
       PROVE  StackInv' /\ ContextIsInnermost'
  <2>1. Spinner \in Actors /\ frames' = frames /\ current' = current
    BY <1>10 DEF FutureDone, LogDone, Actors
  <2>2. PICK id \in Ids : GetSession(Spinner, id)
    BY <1>10 DEF FutureDone, LogDone
  <2>3. QED
    BY <1>6, <2>1, <2>2
<1>11. CASE UNCHANGED vars
  BY <1>11 DEF vars, context, StackInv, Stacked, ContextIsInnermost, Session, SessionOr,
               Depth, InFrame, Within, Handles
<1>12. QED
  BY <1>1, <1>2, <1>3, <1>4, <1>7, <1>8, <1>9, <1>10, <1>11, <1>13 DEF Next

LEMMA InvNext == IInv /\ [Next]_vars => IInv'
  BY TypeNext, ContextNext DEF IInv

LEMMA InvInit == Init => IInv
<1> SUFFICES ASSUME Init PROVE IInv
  OBVIOUS
<1>1. TypeOK
  BY ContextBounds DEF Init, TypeOK, Nothing, Written, Calls, Rpcs
<1>2. ASSUME NEW a \in Actors PROVE Stacked(a) /\ InContext(a)
  <2>1. frames[a] = <<>> /\ sid[a] = Empty /\ current[a] = None /\ bare[a] = Empty
    BY DEF Init
  <2>2. Len(frames[a]) = 0 /\ DOMAIN frames[a] = {}
    BY <2>1
  <2>3. QED
    BY <2>1, <2>2 DEF Stacked, InContext, Session, SessionOr, Depth, InFrame, Within, Handles
<1>3. QED
  BY <1>1, <1>2 DEF IInv, StackInv, ContextIsInnermost

\* In every thread, the id and the span are those of the innermost session and
\* RPC: session(), the server's interceptor and the client's leave the context
\* as they found it, in whatever order they are nested and however they end.
THEOREM ContextKept == Spec => []ContextIsInnermost
<1>1. IInv => ContextIsInnermost
  BY DEF IInv
<1>2. QED
  BY <1>1, InvInit, InvNext, PTL DEF Spec

-----------------------------------------------------------------------------
Right == EntriesCarrySession /\ CallsJoinTrace /\ CallNamesItsSpan

\* What a step writes has the id and the span of where it is written.
LEMMA RightNext == IInv /\ Right /\ [Next]_vars => Right'
<1> SUFFICES ASSUME IInv, Right, [Next]_vars PROVE Right'
  OBVIOUS
<1> USE DEF Right, EntriesCarrySession, CallsJoinTrace, CallNamesItsSpan
<1> TypeOK /\ \A a \in Actors : sid[a] = Session(a) /\ current[a] = Within(a)
  BY DEF IInv, ContextIsInnermost, InContext
<1> \A t \in Threads : t \in Actors
  BY DEF Actors
<1>1. CASE last' = Nothing
  BY <1>1 DEF Nothing
<1>2. ASSUME NEW t \in Threads, NEW how \in Outcomes, HandlerEnds(t, how) PROVE Right'
  BY <1>2 DEF HandlerEnds, AccessId
<1>3. ASSUME NEW t \in Threads, Log(t) PROVE Right'
  <2>1. PICK id \in Ids : GetSession(t, id) /\ Writes("app", t, id, current[t], Within(t))
    BY <1>3 DEF Log
  <2>2. id = SessionOr(t, bare') /\ current[t] = Within(t)
    BY <2>1, GetSessionKeeps
  <2>3. QED
    BY <2>1, <2>2 DEF Writes
<1>9. ASSUME NEW t \in Threads, NEW id \in Ids, GetSession(t, id), NEW what, NEW own, NEW span,
             Sends(what, t, own, id, span)
      PROVE  /\ last'.id = last'.session /\ last'.what = what
             /\ last'.span = span /\ last'.within = Within(t)
  <2>1. id = SessionOr(t, bare')
    BY <1>9, GetSessionKeeps
  <2>2. QED
    BY <1>9, <2>1 DEF Sends, SentId
<1>4. ASSUME NEW t \in Threads, NEW own \in Incoming \cup {Empty}, NEW way \in Ways,
             CallOut(t, own, way)
      PROVE  Right'
  <2>1. PICK span \in Spans \cup {None}, id \in Ids :
          /\ StartSpan(span, CallersSpan(t))
          /\ GetSession(t, id)
          /\ Sends("metadata", t, own, id, Injected(t, span))
          /\ IF way = "waits"
             THEN Pushed(t, [kind |-> "call", id |-> Empty, old |-> Empty,
                             span |-> span, beneath |-> None, number |-> calls'])
             ELSE out' = out \cup {[number |-> calls', span |-> span, future |-> way = "future"]}
    BY <1>4 DEF CallOut
  <2>2. CallersSpan(t) = Within(t) /\ CallersSpan(t) \in Spans \cup {None}
    BY DEF CallersSpan, TypeOK
  <2>3. span # None => spans'[span].parent = Within(t)
    BY <2>1, <2>2, StartSpanTyped
  <2>4. /\ last'.id = last'.session /\ last'.what = "metadata"
        /\ last'.span = span /\ last'.within = Within(t)
    BY <1>9, <2>1 DEF Injected
  <2>5. HasSpan(calls, span)'
    <3>1. CASE way = "waits"
      <4> DEFINE f == [kind |-> "call", id |-> Empty, old |-> Empty,
                       span |-> span, beneath |-> None, number |-> calls']
      <4>1. calls' \in Calls
        BY <1>4, ContextBounds DEF CallOut, TypeOK, Calls
      <4>2. f \in Frame /\ Pushed(t, f) /\ Runs(t)
        BY <1>4, <2>1, <3>1, <4>1 DEF Frame, CallOut
      <4>3. f.kind = "call" /\ f.number = calls' /\ f.span = span
        OBVIOUS
      <4> HIDE DEF f
      <4>4. Len(frames[t]) + 1 \in DOMAIN frames'[t] /\ frames'[t][Len(frames[t]) + 1] = f
        BY <4>2, Pushes
      <4>5. QED
        BY <4>3, <4>4 DEF HasSpan
    <3>2. CASE way # "waits"
      <4>1. PICK c : c = [number |-> calls', span |-> span, future |-> way = "future"]
        OBVIOUS
      <4>2. c \in out' /\ c.number = calls' /\ c.span = span
        BY <2>1, <3>2, <4>1
      <4>3. QED
        BY <4>2 DEF HasSpan
    <3>3. QED
      BY <3>1, <3>2
  <2>6. QED
    BY <2>3, <2>4, <2>5
<1>8. ASSUME NEW t \in Threads, NEW own \in Incoming \cup {Empty}, StreamOut(t, own) PROVE Right'
  <2>1. PICK id \in Ids : GetSession(t, id) /\ Sends("stream", t, own, id, CallersSpan(t))
    BY <1>8 DEF StreamOut
  <2>2. /\ last'.id = last'.session /\ last'.what = "stream"
        /\ last'.span = CallersSpan(t) /\ last'.within = Within(t)
    BY <1>9, <2>1
  <2>3. QED
    BY <2>2 DEF CallersSpan
<1>5. ASSUME NEW a \in Actors, NEW how, NEW call, NEW span, LogDone(a, how, call, span) PROVE Right'
  <2>1. PICK id \in Ids : GetSession(a, id) /\ Writes("ext", a, id, EntrySpan(a, span), span)
    BY <1>5 DEF LogDone
  <2>2. id = SessionOr(a, bare')
    BY <2>1, GetSessionKeeps
  <2>3. QED
    BY <2>1, <2>2 DEF Writes, EntrySpan
<1>10. Spinner \in Actors
  BY DEF Actors
<1>6. CASE UNCHANGED vars
  BY <1>6 DEF vars, context, HasSpan
<1>7. QED
  BY <1>1, <1>2, <1>3, <1>4, <1>5, <1>6, <1>8, <1>10
     DEF Next, OpenSession, Serve, CloseSession, CallDone, FutureDone

LEMMA RightHolds == Spec => []Right
<1>1. Init => Right
  BY DEF Init, Nothing, Right, EntriesCarrySession, CallsJoinTrace, CallNamesItsSpan
<1>2. QED
  BY <1>1, InvInit, InvNext, RightNext, PTL DEF Spec

\* Every entry and the metadata of every call have the id of the session their
\* thread is inside of, unless the caller gave the metadata one, which they keep;
\* entries of the program and of the server's interceptor have the RPC's span.
THEOREM EntriesInSession == Spec => []EntriesCarrySession
<1>1. Right => EntriesCarrySession
  BY DEF Right
<1>2. QED
  BY <1>1, RightHolds, PTL

\* The span of an outbound call is a child of that of the RPC being handled, and a
\* streaming call names that one.
THEOREM CallsInTrace == Spec => []CallsJoinTrace
<1>1. Right => CallsJoinTrace
  BY DEF Right
<1>2. QED
  BY <1>1, RightHolds, PTL

\* The metadata of an outbound call and its entry both name the call's own span,
\* whichever thread the entry is written in.
THEOREM CallSpans == Spec => []CallNamesItsSpan
<1>1. Right => CallNamesItsSpan
  BY DEF Right
<1>2. QED
  BY <1>1, RightHolds, PTL
-----------------------------------------------------------------------------
(* One entry and one end of the span for each RPC and call.                 *)

\* The RPCs that are handled and the calls that are waited for.
Busy == {f \in UNION {ToSet(frames[t]) : t \in Threads} : f.kind # "session"}

\* Each is in one thread, and the Spinner is in none.
PlaceInv ==
  /\ frames[Spinner] = <<>>
  /\ \A t, u \in Threads : \A i \in DOMAIN frames[t], j \in DOMAIN frames[u] :
       frames[t][i] = frames[u][j] /\ frames[t][i].kind # "session" => t = u /\ i = j
  /\ \A t \in Threads : \A i \in DOMAIN frames[t] :
       frames[t][i].kind = "session" => frames[t][i].span = None

\* Their numbers were given, each to one; so were their spans.
NumberInv ==
  /\ \A f \in Busy : f.number \in 1..(IF f.kind = "rpc" THEN rpcs ELSE calls)
  /\ \A f, g \in Busy : f.kind = g.kind /\ f.number = g.number => f = g
  /\ \A o \in out : o.number \in 1..calls
  /\ \A o, p \in out : o.number = p.number => o = p
  /\ \A f \in Busy, o \in out : f.kind = "call" => f.number # o.number
SpanInv ==
  /\ \A f \in Busy \cup out : f.span \in 0..Len(spans)
  /\ \A f, g \in Busy \cup out : f.span = g.span /\ f.span # None => f = g

\* What is written and ended: once for what was begun and is not in hand.
Once(begun, held) == IF begun /\ ~held THEN 1 ELSE 0
RpcsCounted == \A r \in Rpcs :
  accessed[r] = Once(r <= rpcs, \E f \in Busy : f.kind = "rpc" /\ f.number = r)
CallsCounted == \A c \in Calls :
  told[c] = Once(c <= calls, \/ \E f \in Busy : f.kind = "call" /\ f.number = c
                             \/ \E o \in out : o.number = c)
SpansCounted == \A s \in 1..Len(spans) :
  spans[s].ends = Once(TRUE, \E f \in Busy \cup out : f.span = s)
CountInv == RpcsCounted /\ CallsCounted /\ SpansCounted
EntryInv == PlaceInv /\ NumberInv /\ SpanInv /\ CountInv
\* What is in hand are frames; the calls in out are not.
LEMMA BusyTyped ==
  ASSUME TypeOK
  PROVE  /\ Busy \subseteq Frame
         /\ \A f \in Busy : f.kind \in {"rpc", "call"} /\ f.span \in Spans \cup {None}
         /\ out \subseteq [number : Calls, span : Spans \cup {None}, future : BOOLEAN]
         /\ Busy \cap out = {}
<1>1. ASSUME NEW f \in Busy PROVE f \in Frame /\ f.kind # "session"
  <2>1. PICK t \in Threads : f \in ToSet(frames[t])
    BY DEF Busy
  <2>2. PICK i \in DOMAIN frames[t] : f = frames[t][i]
    BY <2>1 DEF ToSet
  <2>3. t \in Actors
    BY DEF Actors
  <2>4. QED
    BY <2>2, <2>3, StackFacts DEF Busy
<1>2. ASSUME NEW f \in Frame PROVE "kind" \in DOMAIN f
  BY DEF Frame
<1>3. ASSUME NEW f \in [number : Calls, span : Spans \cup {None}, future : BOOLEAN] PROVE "kind" \notin DOMAIN f
  OBVIOUS
<1>4. out \subseteq [number : Calls, span : Spans \cup {None}, future : BOOLEAN]
  BY DEF TypeOK
<1>5. QED
  BY <1>1, <1>2, <1>3, <1>4 DEF Frame

\* A frame entered.
LEMMA PushBusy ==
  ASSUME TypeOK, PlaceInv, NEW a \in Threads, Runs(a), NEW f \in Frame, Pushed(a, f),
         f.kind = "session" => f.span = None,
         f.kind # "session" => f \notin Busy
  PROVE  PlaceInv' /\ Busy' = (IF f.kind = "session" THEN Busy ELSE Busy \cup {f})
<1> a \in Actors /\ \A t \in Threads : t \in Actors
  BY DEF Actors
<1> DEFINE n == Len(frames[a])
<1>1. /\ n \in Nat /\ DOMAIN frames[a] = 1..n /\ DOMAIN frames'[a] = 1..(n + 1)
      /\ \A i \in 1..n : frames'[a][i] = frames[a][i]
      /\ frames'[a][n + 1] = f
      /\ \A b \in Actors \ {a} : frames'[b] = frames[b]
  BY Pushes
<1> HIDE DEF n
<1>2. 1..(n + 1) = (1..n) \cup {n + 1} /\ n + 1 \notin 1..n
  BY <1>1
<1>3. \A t \in Threads : \A i \in DOMAIN frames[t] : i \in DOMAIN frames'[t] /\ frames'[t][i] = frames[t][i]
  BY <1>1, <1>2
<1>4. \A t \in Threads : \A i \in DOMAIN frames'[t] :
        \/ i \in DOMAIN frames[t] /\ frames'[t][i] = frames[t][i]
        \/ t = a /\ i = n + 1 /\ frames'[t][i] = f
  BY <1>1, <1>2
<1>5. \A t \in Threads : \A i \in DOMAIN frames[t] :
        frames[t][i].kind # "session" => frames[t][i] \in Busy
  BY DEF Busy, ToSet
<1>6. frames'[Spinner] = <<>>
  <2>1. Spinner \in Actors \ {a}
    BY NamesAssumption DEF Actors
  <2>2. QED
    BY <1>1, <2>1 DEF PlaceInv
<1>7. ASSUME NEW t \in Threads, NEW u \in Threads, NEW i \in DOMAIN frames'[t], NEW j \in DOMAIN frames'[u],
             frames'[t][i] = frames'[u][j], frames'[t][i].kind # "session"
      PROVE  t = u /\ i = j
  BY <1>4, <1>5, <1>7 DEF PlaceInv
<1>8. \A t \in Threads : \A i \in DOMAIN frames'[t] :
        frames'[t][i].kind = "session" => frames'[t][i].span = None
  BY <1>4 DEF PlaceInv
<1>9. PlaceInv'
  BY <1>6, <1>7, <1>8 DEF PlaceInv
<1>10. n + 1 \in DOMAIN frames'[a] /\ frames'[a][n + 1] = f
  BY <1>1, <1>2
<1>11. \A g : (\E t \in Threads : \E i \in DOMAIN frames'[t] : frames'[t][i] = g) <=>
             (g = f \/ \E t \in Threads : \E i \in DOMAIN frames[t] : frames[t][i] = g)
  BY <1>3, <1>4, <1>10
<1>12. QED
  BY <1>9, <1>11 DEF Busy, ToSet

\* A frame left.
LEMMA PopBusy ==
  ASSUME TypeOK, PlaceInv, NEW a \in Threads, frames[a] # <<>>, Popped(a)
  PROVE  /\ PlaceInv' /\ Busy' = Busy \ {Top(a)}
         /\ Top(a).kind # "session" => Top(a) \in Busy
<1> a \in Actors /\ \A t \in Threads : t \in Actors
  BY DEF Actors
<1> DEFINE n == Len(frames[a])
<1>1. /\ n \in Nat \ {0} /\ DOMAIN frames[a] = 1..n /\ DOMAIN frames'[a] = 1..(n - 1)
      /\ Top(a) = frames[a][n]
      /\ \A i \in 1..(n - 1) : frames'[a][i] = frames[a][i]
      /\ \A b \in Actors \ {a} : frames'[b] = frames[b]
  BY Pops
<1> HIDE DEF n
<1>2. 1..n = (1..(n - 1)) \cup {n} /\ n \notin 1..(n - 1)
  BY <1>1
<1>3. \A t \in Threads : \A i \in DOMAIN frames'[t] :
        i \in DOMAIN frames[t] /\ frames'[t][i] = frames[t][i] /\ ~(t = a /\ i = n)
  BY <1>1, <1>2
<1>4. \A t \in Threads : \A i \in DOMAIN frames[t] :
        \/ i \in DOMAIN frames'[t] /\ frames'[t][i] = frames[t][i]
        \/ t = a /\ i = n
  BY <1>1, <1>2
<1>5. frames'[Spinner] = <<>>
  <2>1. Spinner \in Actors \ {a}
    BY NamesAssumption DEF Actors
  <2>2. QED
    BY <1>1, <2>1 DEF PlaceInv
<1>6. ASSUME NEW t \in Threads, NEW u \in Threads, NEW i \in DOMAIN frames'[t], NEW j \in DOMAIN frames'[u],
             frames'[t][i] = frames'[u][j], frames'[t][i].kind # "session"
      PROVE  t = u /\ i = j
  BY <1>3, <1>6 DEF PlaceInv
<1>7. \A t \in Threads : \A i \in DOMAIN frames'[t] :
        frames'[t][i].kind = "session" => frames'[t][i].span = None
  BY <1>3 DEF PlaceInv
<1>8. PlaceInv'
  BY <1>5, <1>6, <1>7 DEF PlaceInv
<1>9. n \in DOMAIN frames[a] /\ frames[a][n] = Top(a)
  BY <1>1, <1>2
<1>10. ASSUME NEW g, g.kind # "session"
       PROVE  (\E t \in Threads : \E i \in DOMAIN frames'[t] : frames'[t][i] = g) <=>
              (g # Top(a) /\ \E t \in Threads : \E i \in DOMAIN frames[t] : frames[t][i] = g)
  <2>1. ASSUME NEW t \in Threads, NEW i \in DOMAIN frames'[t], frames'[t][i] = g
        PROVE  g # Top(a) /\ i \in DOMAIN frames[t] /\ frames[t][i] = g
    BY <1>3, <1>9, <1>10, <2>1 DEF PlaceInv
  <2>2. ASSUME NEW t \in Threads, NEW i \in DOMAIN frames[t], frames[t][i] = g, g # Top(a)
        PROVE  i \in DOMAIN frames'[t] /\ frames'[t][i] = g
    BY <1>4, <1>9, <2>2
  <2>3. QED
    BY <2>1, <2>2
<1>11. Top(a).kind # "session" => Top(a) \in Busy
  BY <1>9 DEF Busy, ToSet
<1>12. QED
  BY <1>8, <1>10, <1>11 DEF Busy, ToSet

\* Nothing in hand is begun, ended or told.
LEMMA EntryFrame ==
  ASSUME EntryInv, PlaceInv', Busy' = Busy, UNCHANGED <<out, spans, rpcs, calls, accessed, told>>
  PROVE  EntryInv'
<1>1. NumberInv'
  BY DEF EntryInv, NumberInv
<1>2. SpanInv'
  BY DEF EntryInv, SpanInv
<1>3. CountInv'
  BY DEF EntryInv, CountInv, RpcsCounted, CallsCounted, SpansCounted
<1>4. QED
  BY <1>1, <1>2, <1>3 DEF EntryInv
\* A span that starts with what it is of.
LEMMA SpanStarts ==
  ASSUME TypeOK, SpanInv, SpansCounted, NEW x, NEW p \in Spans \cup {None}, StartSpan(x.span, p),
         Busy' \cup out' = Busy \cup out \cup {x}
  PROVE  SpanInv' /\ SpansCounted'
<1> DEFINE n == Len(spans)
           work == Busy \cup out
           next == Busy' \cup out'
<1>1. spans \in Seq(SpanRecord) /\ n \in Nat
  BY DEF TypeOK
<1>2. next = work \cup {x}
  OBVIOUS
<1>3. /\ \A f \in work : f.span \in 0..n
      /\ \A f, g \in work : f.span = g.span /\ f.span # None => f = g
      /\ \A s \in 1..n : spans[s].ends = Once(TRUE, \E f \in work : f.span = s)
  BY DEF SpanInv, SpansCounted
<1> SUFFICES /\ \A f \in next : f.span \in 0..Len(spans')
             /\ \A f, g \in next : f.span = g.span /\ f.span # None => f = g
             /\ \A s \in 1..Len(spans') : spans'[s].ends = Once(TRUE, \E f \in next : f.span = s)
  BY DEF SpanInv, SpansCounted
<1> HIDE DEF work, next
<1>4. CASE x.span = None /\ UNCHANGED spans
  BY <1>1, <1>2, <1>3, <1>4 DEF Once, None
<1>5. CASE x.span = n + 1 /\ spans' = Append(spans, [parent |-> p, ends |-> 0])
  <2> DEFINE r == [parent |-> p, ends |-> 0]
  <2>1. r \in SpanRecord /\ r.ends = 0
    BY DEF SpanRecord
  <2>2. spans' = Append(spans, r)
    BY <1>5
  <2> HIDE DEF r
  <2>3. Len(spans') = n + 1 /\ (\A i \in 1..n : spans'[i] = spans[i]) /\ spans'[n + 1] = r
    BY <1>1, <2>1, <2>2, Push
  <2> HIDE DEF n
  <2>4. 1..(n + 1) = (1..n) \cup {n + 1} /\ n + 1 \notin 0..n /\ n + 1 \notin 1..n /\ 0..n \subseteq 0..(n + 1)
        /\ n + 1 \in 0..(n + 1)
    BY <1>1
  <2>5. \A f \in next : f.span \in 0..Len(spans')
    BY <1>2, <1>3, <1>5, <2>3, <2>4
  <2>6. \A f, g \in next : f.span = g.span /\ f.span # None => f = g
    BY <1>2, <1>3, <1>5, <2>4
  <2>7. ASSUME NEW s \in 1..(n + 1) PROVE spans'[s].ends = Once(TRUE, \E f \in next : f.span = s)
    <3>1. CASE s = n + 1
      BY <1>2, <1>5, <2>1, <2>3, <3>1 DEF Once
    <3>2. CASE s \in 1..n
      <4>1. spans'[s] = spans[s] /\ x.span # s
        BY <1>5, <2>3, <2>4, <3>2
      <4>2. (\E f \in next : f.span = s) <=> (\E f \in work : f.span = s)
        BY <1>2, <4>1
      <4>3. QED
        BY <1>3, <3>2, <4>1, <4>2 DEF Once
    <3>3. QED
      BY <2>4, <3>1, <3>2
  <2>8. QED
    BY <2>3, <2>5, <2>6, <2>7
<1>6. QED
  BY <1>4, <1>5 DEF StartSpan

\* A span that ends with what it is of.
LEMMA SpanEnds ==
  ASSUME TypeOK, SpanInv, SpansCounted, NEW x \in Busy \cup out, EndSpan(x.span),
         Busy' \cup out' = (Busy \cup out) \ {x}
  PROVE  SpanInv' /\ SpansCounted'
<1> DEFINE n == Len(spans)
           work == Busy \cup out
           next == Busy' \cup out'
<1>1. spans \in Seq(SpanRecord) /\ n \in Nat /\ DOMAIN spans = 1..n
  BY DEF TypeOK
<1>2. next = work \ {x} /\ x \in work
  OBVIOUS
<1>3. /\ \A f \in work : f.span \in 0..n
      /\ \A f, g \in work : f.span = g.span /\ f.span # None => f = g
      /\ \A s \in 1..n : spans[s].ends = Once(TRUE, \E f \in work : f.span = s)
  BY DEF SpanInv, SpansCounted
<1>4. Len(spans') = n
  BY EndSpanTyped
<1> SUFFICES /\ \A f \in next : f.span \in 0..n
             /\ \A f, g \in next : f.span = g.span /\ f.span # None => f = g
             /\ \A s \in 1..n : spans'[s].ends = Once(TRUE, \E f \in next : f.span = s)
  BY <1>4 DEF SpanInv, SpansCounted
<1> HIDE DEF work, next, n
<1>5. \A f \in next : f.span \in 0..n
  BY <1>2, <1>3
<1>6. \A f, g \in next : f.span = g.span /\ f.span # None => f = g
  BY <1>2, <1>3
<1>7. ASSUME NEW s \in 1..n PROVE spans'[s].ends = Once(TRUE, \E f \in next : f.span = s)
  <2>1. spans[s].ends = Once(TRUE, \E f \in work : f.span = s) /\ s # None
    BY <1>1, <1>3 DEF None, Once
  <2>2. CASE x.span = s
    <3>1. spans' = [spans EXCEPT ![s].ends = @ + 1]
      BY <2>1, <2>2 DEF EndSpan
    <3>2. spans[s] \in SpanRecord
      BY <1>1
    <3>3. spans'[s].ends = spans[s].ends + 1
      BY <1>1, <3>1, <3>2 DEF SpanRecord
    <3>4. spans[s].ends = 0
      BY <1>2, <2>1, <2>2 DEF Once
    <3>5. ~\E f \in next : f.span = s
      BY <1>2, <1>3, <2>1, <2>2
    <3>6. QED
      BY <3>3, <3>4, <3>5 DEF Once
  <2>3. CASE x.span # s
    <3>1. spans'[s] = spans[s]
      BY <1>1, <2>3 DEF EndSpan
    <3>2. (\E f \in next : f.span = s) <=> (\E f \in work : f.span = s)
      BY <1>2, <2>3
    <3>3. QED
      BY <2>1, <3>1, <3>2 DEF Once
  <2>4. QED
    BY <2>2, <2>3
<1>8. QED
  BY <1>5, <1>6, <1>7

\* An RPC is begun, and over.
LEMMA RpcBegins ==
  ASSUME TypeOK, EntryInv, NEW f \in Frame, f.kind = "rpc", f.number = rpcs + 1, rpcs < MaxRpcs,
         rpcs' = rpcs + 1, Busy' = Busy \cup {f}, UNCHANGED <<out, calls, accessed, told>>
  PROVE  NumberInv' /\ RpcsCounted' /\ CallsCounted'
<1>1. rpcs \in Nat /\ calls \in Nat /\ NumberInv /\ RpcsCounted /\ CallsCounted
  BY ContextBounds DEF TypeOK, EntryInv, CountInv
<1>2. 1..rpcs \subseteq 1..(rpcs + 1) /\ rpcs + 1 \in 1..(rpcs + 1) /\ rpcs + 1 \notin 1..rpcs
  BY <1>1
<1>3. NumberInv'
  BY <1>1, <1>2 DEF NumberInv
<1>4. ASSUME NEW r \in Rpcs
      PROVE  accessed'[r] = Once(r <= rpcs + 1, \E g \in Busy' : g.kind = "rpc" /\ g.number = r)
  <2>1. accessed'[r] = Once(r <= rpcs, \E g \in Busy : g.kind = "rpc" /\ g.number = r)
    BY <1>1 DEF RpcsCounted
  <2>2. CASE r = rpcs + 1
    BY <1>1, <2>1, <2>2 DEF Once
  <2>3. CASE r # rpcs + 1
    <3>1. r <= rpcs + 1 <=> r <= rpcs
      BY <1>1, <2>3, ContextBounds DEF Rpcs
    <3>2. (\E g \in Busy' : g.kind = "rpc" /\ g.number = r) <=>
          (\E g \in Busy : g.kind = "rpc" /\ g.number = r)
      BY <2>3
    <3>3. QED
      BY <2>1, <3>1, <3>2 DEF Once
  <2>4. QED
    BY <2>2, <2>3
<1>5. CallsCounted'
  <2>1. \A c : (\E g \in Busy' : g.kind = "call" /\ g.number = c) <=>
               (\E g \in Busy : g.kind = "call" /\ g.number = c)
    OBVIOUS
  <2>2. QED
    BY <1>1, <2>1 DEF CallsCounted, Once
<1>6. QED
  BY <1>3, <1>4, <1>5 DEF RpcsCounted

LEMMA RpcEnds ==
  ASSUME TypeOK, EntryInv, NEW f \in Busy, f.kind = "rpc", Busy' = Busy \ {f},
         accessed' = [accessed EXCEPT ![f.number] = @ + 1], UNCHANGED <<out, rpcs, calls, told>>
  PROVE  NumberInv' /\ RpcsCounted' /\ CallsCounted'
<1>1. NumberInv /\ RpcsCounted /\ CallsCounted /\ accessed \in [Rpcs -> Nat]
  BY DEF TypeOK, EntryInv, CountInv
<1>2. f.number \in 1..rpcs
  BY <1>1 DEF NumberInv
<1>3. NumberInv'
  BY <1>1 DEF NumberInv
<1>4. ASSUME NEW r \in Rpcs
      PROVE  accessed'[r] = Once(r <= rpcs, \E g \in Busy' : g.kind = "rpc" /\ g.number = r)
  <2>1. accessed[r] = Once(r <= rpcs, \E g \in Busy : g.kind = "rpc" /\ g.number = r)
    BY <1>1 DEF RpcsCounted
  <2>2. CASE r = f.number
    <3>1. accessed'[r] = accessed[r] + 1 /\ accessed[r] = 0
      BY <1>1, <2>1, <2>2 DEF Once
    <3>2. ~\E g \in Busy' : g.kind = "rpc" /\ g.number = r
      BY <1>1, <2>2 DEF NumberInv
    <3>3. r <= rpcs
      BY <1>2, <2>2 DEF TypeOK
    <3>4. QED
      BY <3>1, <3>2, <3>3 DEF Once
  <2>3. CASE r # f.number
    <3>1. accessed'[r] = accessed[r]
      BY <1>1, <2>3
    <3>2. (\E g \in Busy' : g.kind = "rpc" /\ g.number = r) <=>
          (\E g \in Busy : g.kind = "rpc" /\ g.number = r)
      BY <2>3
    <3>3. QED
      BY <2>1, <3>1, <3>2 DEF Once
  <2>4. QED
    BY <2>2, <2>3
<1>5. CallsCounted'
  <2>1. \A c : (\E g \in Busy' : g.kind = "call" /\ g.number = c) <=>
               (\E g \in Busy : g.kind = "call" /\ g.number = c)
    OBVIOUS
  <2>2. QED
    BY <1>1, <2>1 DEF CallsCounted, Once
<1>6. QED
  BY <1>3, <1>4, <1>5 DEF RpcsCounted

\* A call is made, and over, in the caller's thread or as a future.
CallOf(x) == x \in out \/ (x \in Busy /\ x.kind = "call")
LEMMA CallBegins ==
  ASSUME TypeOK, EntryInv, NEW x, x.number = calls + 1, calls < MaxCalls, calls' = calls + 1,
         \/ x \in Frame /\ x.kind = "call" /\ Busy' = Busy \cup {x} /\ out' = out
         \/ Busy' = Busy /\ out' = out \cup {x},
         UNCHANGED <<rpcs, accessed, told>>
  PROVE  NumberInv' /\ RpcsCounted' /\ CallsCounted'
<1>1. rpcs \in Nat /\ calls \in Nat /\ NumberInv /\ RpcsCounted /\ CallsCounted
  BY ContextBounds DEF TypeOK, EntryInv, CountInv
<1>2. 1..calls \subseteq 1..(calls + 1) /\ calls + 1 \in 1..(calls + 1) /\ calls + 1 \notin 1..calls
  BY <1>1
<1>3. NumberInv'
  <2>1. \A g \in Busy : g.kind = "call" => g.number \in 1..calls
    BY <1>1, BusyTyped DEF NumberInv
  <2>2. CASE x \in Frame /\ x.kind = "call" /\ Busy' = Busy \cup {x} /\ out' = out
    BY <1>1, <1>2, <2>1, <2>2 DEF NumberInv
  <2>3. CASE Busy' = Busy /\ out' = out \cup {x}
    BY <1>1, <1>2, <2>1, <2>3 DEF NumberInv
  <2>4. QED
    BY <2>2, <2>3
<1>4. ASSUME NEW c \in Calls
      PROVE  told'[c] = Once(c <= calls + 1, \/ \E g \in Busy' : g.kind = "call" /\ g.number = c
                                             \/ \E o \in out' : o.number = c)
  <2>1. told'[c] = Once(c <= calls, \/ \E g \in Busy : g.kind = "call" /\ g.number = c
                                    \/ \E o \in out : o.number = c)
    BY <1>1 DEF CallsCounted
  <2>2. CASE c = calls + 1
    BY <1>1, <2>1, <2>2 DEF Once
  <2>3. CASE c # calls + 1
    <3>1. c <= calls + 1 <=> c <= calls
      BY <1>1, <2>3, ContextBounds DEF Calls
    <3>2. /\ (\E g \in Busy' : g.kind = "call" /\ g.number = c) <=>
             (\E g \in Busy : g.kind = "call" /\ g.number = c)
          /\ (\E o \in out' : o.number = c) <=> (\E o \in out : o.number = c)
      BY <2>3
    <3>3. QED
      BY <2>1, <3>1, <3>2 DEF Once
  <2>4. QED
    BY <2>2, <2>3
<1>5. RpcsCounted'
  <2>1. \A r : (\E g \in Busy' : g.kind = "rpc" /\ g.number = r) <=>
               (\E g \in Busy : g.kind = "rpc" /\ g.number = r)
    OBVIOUS
  <2>2. QED
    BY <1>1, <2>1 DEF RpcsCounted, Once
<1>6. QED
  BY <1>3, <1>4, <1>5 DEF CallsCounted

LEMMA CallEnds ==
  ASSUME TypeOK, EntryInv, NEW x, CallOf(x), Busy' = Busy \ {x}, out' = out \ {x},
         told' = [told EXCEPT ![x.number] = @ + 1], UNCHANGED <<rpcs, calls, accessed>>
  PROVE  NumberInv' /\ RpcsCounted' /\ CallsCounted'
<1>1. NumberInv /\ RpcsCounted /\ CallsCounted /\ told \in [Calls -> Nat]
  BY DEF TypeOK, EntryInv, CountInv
<1>2. x.number \in 1..calls
  BY <1>1 DEF NumberInv, CallOf
<1>3. NumberInv'
  BY <1>1 DEF NumberInv
<1>4. ASSUME NEW c \in Calls
      PROVE  told'[c] = Once(c <= calls, \/ \E g \in Busy' : g.kind = "call" /\ g.number = c
                                         \/ \E o \in out' : o.number = c)
  <2>1. told[c] = Once(c <= calls, \/ \E g \in Busy : g.kind = "call" /\ g.number = c
                                   \/ \E o \in out : o.number = c)
    BY <1>1 DEF CallsCounted
  <2>2. CASE c = x.number
    <3>1. told'[c] = told[c] + 1 /\ told[c] = 0
      BY <1>1, <2>1, <2>2 DEF Once, CallOf
    <3>2. /\ ~\E g \in Busy' : g.kind = "call" /\ g.number = c
          /\ ~\E o \in out' : o.number = c
      BY <1>1, <2>2 DEF NumberInv, CallOf
    <3>3. c <= calls
      BY <1>2, <2>2 DEF TypeOK
    <3>4. QED
      BY <3>1, <3>2, <3>3 DEF Once
  <2>3. CASE c # x.number
    <3>1. told'[c] = told[c]
      BY <1>1, <2>3
    <3>2. /\ (\E g \in Busy' : g.kind = "call" /\ g.number = c) <=>
             (\E g \in Busy : g.kind = "call" /\ g.number = c)
          /\ (\E o \in out' : o.number = c) <=> (\E o \in out : o.number = c)
      BY <2>3
    <3>3. QED
      BY <2>1, <3>1, <3>2 DEF Once
  <2>4. QED
    BY <2>2, <2>3
<1>5. RpcsCounted'
  <2>1. x \in Busy => x.kind = "call"
    BY BusyTyped DEF CallOf
  <2>2. \A r : (\E g \in Busy' : g.kind = "rpc" /\ g.number = r) <=>
               (\E g \in Busy : g.kind = "rpc" /\ g.number = r)
    BY <2>1
  <2>3. QED
    BY <1>1, <2>2 DEF RpcsCounted, Once
<1>6. QED
  BY <1>3, <1>4, <1>5 DEF CallsCounted
\* Every step keeps the entries and the ends in step with what is in hand.
LEMMA EntryNext == TypeOK /\ EntryInv /\ [Next]_vars => EntryInv'
<1> SUFFICES ASSUME TypeOK, EntryInv, [Next]_vars PROVE EntryInv'
  OBVIOUS
<1> PlaceInv /\ SpanInv /\ SpansCounted
  BY DEF EntryInv, CountInv
<1> \A t \in Threads : t \in Actors
  BY DEF Actors
<1> rpcs \in Nat /\ calls \in Nat
  BY ContextBounds DEF TypeOK
<1>1. ASSUME NEW t \in Threads, NEW s \in Incoming \cup {Empty}, OpenSession(t, s) PROVE EntryInv'
  <2> DEFINE f == [kind |-> "session", id |-> SessionId(s), old |-> sid[t],
                   span |-> None, beneath |-> None, number |-> 0]
  <2>1. Runs(t) /\ Pushed(t, f) /\ NewSession(t, s)
    BY <1>1 DEF OpenSession
  <2>2. f \in Frame
    BY <2>1, NewSessionTyped, ContextBounds DEF TypeOK, Frame
  <2>3. f.kind = "session" /\ f.span = None
    OBVIOUS
  <2> HIDE DEF f
  <2>4. PlaceInv' /\ Busy' = Busy
    BY <2>1, <2>2, <2>3, PushBusy
  <2>5. QED
    BY <1>1, <2>4, EntryFrame DEF OpenSession
<1>2. ASSUME NEW t \in Threads, NEW s \in Incoming \cup {Empty}, Serve(t, s) PROVE EntryInv'
  <2>1. PICK span \in Spans \cup {None} :
          /\ StartSpan(span, None)
          /\ Pushed(t, [kind |-> "rpc", id |-> SessionId(s), old |-> sid[t],
                        span |-> span, beneath |-> current[t], number |-> rpcs'])
    BY <1>2 DEF Serve
  <2> DEFINE f == [kind |-> "rpc", id |-> SessionId(s), old |-> sid[t],
                   span |-> span, beneath |-> current[t], number |-> rpcs']
  <2>2. /\ NewSession(t, s) /\ frames[t] = <<>> /\ rpcs < MaxRpcs /\ rpcs' = rpcs + 1
        /\ UNCHANGED <<out, calls, accessed, told>>
    BY <1>2 DEF Serve
  <2>3. rpcs' \in 0..MaxRpcs
    BY <2>2, ContextBounds
  <2>4. f \in Frame
    BY <2>2, <2>3, NewSessionTyped DEF TypeOK, Frame
  <2>5. /\ f.kind = "rpc" /\ f.number = rpcs + 1 /\ f.span = span
        /\ Pushed(t, f)
    BY <2>1, <2>2
  <2> HIDE DEF f
  <2>6. f \notin Busy
    <3>1. rpcs + 1 \notin 1..rpcs
      OBVIOUS
    <3>2. QED
      BY <2>5, <3>1 DEF EntryInv, NumberInv
  <2>7. PlaceInv' /\ Busy' = Busy \cup {f}
    BY <2>2, <2>4, <2>5, <2>6, PushBusy DEF Runs, InFrame
  <2>8. NumberInv' /\ RpcsCounted' /\ CallsCounted'
    BY <2>2, <2>4, <2>5, <2>7, RpcBegins
  <2>9. Busy' \cup out' = Busy \cup out \cup {f} /\ StartSpan(f.span, None)
    BY <2>1, <2>2, <2>5, <2>7
  <2>10. SpanInv' /\ SpansCounted'
    BY <2>9, SpanStarts
  <2>11. QED
    BY <2>7, <2>8, <2>10 DEF EntryInv, CountInv
<1>3. ASSUME NEW t \in Threads, NEW how \in Outcomes, CloseSession(t, how) PROVE EntryInv'
  <2>1. InFrame(t, "session") /\ Popped(t) /\ frames[t] # <<>>
    BY <1>3 DEF CloseSession, InFrame
  <2>2. Top(t).kind = "session"
    BY <2>1, StackFacts DEF InFrame
  <2>3. PlaceInv' /\ Busy' = Busy
    BY <2>1, <2>2, PopBusy DEF Busy
  <2>4. QED
    BY <1>3, <2>3, EntryFrame DEF CloseSession
<1>4. ASSUME NEW t \in Threads, NEW how \in Outcomes, HandlerEnds(t, how) PROVE EntryInv'
  <2> DEFINE f == Top(t)
  <2>1. /\ InFrame(t, "rpc") /\ Popped(t) /\ frames[t] # <<>> /\ EndSpan(f.span)
        /\ accessed' = [accessed EXCEPT ![f.number] = @ + 1]
        /\ UNCHANGED <<out, rpcs, calls, told>>
    BY <1>4 DEF HandlerEnds, InFrame, EntriesFor
  <2>2. f.kind = "rpc"
    BY <2>1, StackFacts DEF InFrame
  <2>3. PlaceInv' /\ Busy' = Busy \ {f} /\ f \in Busy
    BY <2>1, <2>2, PopBusy
  <2> HIDE DEF f
  <2>4. NumberInv' /\ RpcsCounted' /\ CallsCounted'
    BY <2>1, <2>2, <2>3, RpcEnds
  <2>5. Busy' \cup out' = (Busy \cup out) \ {f}
    BY <2>1, <2>3, BusyTyped
  <2>6. SpanInv' /\ SpansCounted'
    BY <2>1, <2>3, <2>5, SpanEnds
  <2>7. QED
    BY <2>3, <2>4, <2>6 DEF EntryInv, CountInv
<1>5. CASE UNCHANGED <<frames, out, spans, rpcs, calls, accessed, told>>
  <2>1. PlaceInv' /\ Busy' = Busy
    BY <1>5 DEF PlaceInv, Busy
  <2>2. QED
    BY <1>5, <2>1, EntryFrame
<1>6. ASSUME NEW t \in Threads, Log(t) PROVE EntryInv'
  BY <1>5, <1>6 DEF Log
<1>7. ASSUME NEW t \in Threads, NEW own \in Incoming \cup {Empty}, StreamOut(t, own) PROVE EntryInv'
  BY <1>5, <1>7 DEF StreamOut
<1>8. ASSUME NEW t \in Threads, NEW own \in Incoming \cup {Empty}, NEW way \in Ways,
             CallOut(t, own, way)
      PROVE  EntryInv'
  <2>1. /\ Runs(t) /\ calls < MaxCalls /\ calls' = calls + 1
        /\ UNCHANGED <<rpcs, accessed, told>>
    BY <1>8 DEF CallOut
  <2>2. PICK span \in Spans \cup {None} :
          /\ StartSpan(span, CallersSpan(t))
          /\ IF way = "waits"
             THEN /\ Pushed(t, [kind |-> "call", id |-> Empty, old |-> Empty,
                                span |-> span, beneath |-> None, number |-> calls'])
                  /\ UNCHANGED out
             ELSE /\ out' = out \cup {[number |-> calls', span |-> span, future |-> way = "future"]}
                  /\ UNCHANGED frames
    BY <1>8 DEF CallOut
  <2>3. CallersSpan(t) \in Spans \cup {None}
    BY DEF TypeOK, CallersSpan
  <2>4. calls' \in Calls /\ calls + 1 \notin 1..calls
    BY <2>1, ContextBounds DEF Calls
  <2>5. CASE way = "waits"
    <3> DEFINE f == [kind |-> "call", id |-> Empty, old |-> Empty,
                     span |-> span, beneath |-> None, number |-> calls']
    <3>1. f \in Frame
      BY <2>4 DEF Frame
    <3>2. f.kind = "call" /\ f.number = calls + 1 /\ f.span = span /\ Pushed(t, f) /\ out' = out
      BY <2>1, <2>2, <2>5
    <3> HIDE DEF f
    <3>3. f \notin Busy
      BY <2>4, <3>2 DEF EntryInv, NumberInv
    <3>4. PlaceInv' /\ Busy' = Busy \cup {f}
      BY <2>1, <3>1, <3>2, <3>3, PushBusy
    <3>5. NumberInv' /\ RpcsCounted' /\ CallsCounted'
      BY <2>1, <3>1, <3>2, <3>4, CallBegins
    <3>6. Busy' \cup out' = Busy \cup out \cup {f} /\ StartSpan(f.span, CallersSpan(t))
      BY <2>2, <3>2, <3>4
    <3>7. SpanInv' /\ SpansCounted'
      BY <2>3, <3>6, SpanStarts
    <3>8. QED
      BY <3>4, <3>5, <3>7 DEF EntryInv, CountInv
  <2>6. CASE way # "waits"
    <3> DEFINE c == [number |-> calls', span |-> span, future |-> way = "future"]
    <3>1. c.number = calls + 1 /\ c.span = span /\ out' = out \cup {c} /\ frames' = frames
      BY <2>1, <2>2, <2>6
    <3> HIDE DEF c
    <3>2. PlaceInv' /\ Busy' = Busy
      BY <3>1 DEF PlaceInv, Busy
    <3>3. NumberInv' /\ RpcsCounted' /\ CallsCounted'
      BY <2>1, <3>1, <3>2, CallBegins
    <3>4. Busy' \cup out' = Busy \cup out \cup {c} /\ StartSpan(c.span, CallersSpan(t))
      BY <2>2, <3>1, <3>2
    <3>5. SpanInv' /\ SpansCounted'
      BY <2>3, <3>4, SpanStarts
    <3>6. QED
      BY <3>2, <3>3, <3>5 DEF EntryInv, CountInv
  <2>7. QED
    BY <2>5, <2>6
<1>9. ASSUME NEW x, CallOf(x), NEW a, NEW how, LogDone(a, how, x.number, x.span),
             PlaceInv', Busy' = Busy \ {x}, out' = out \ {x}
      PROVE  EntryInv'
  <2>1. /\ told' = [told EXCEPT ![x.number] = @ + 1] /\ EndSpan(x.span)
        /\ UNCHANGED <<rpcs, calls, accessed>>
    BY <1>9 DEF LogDone, SpanToEnd
  <2>2. NumberInv' /\ RpcsCounted' /\ CallsCounted'
    BY <1>9, <2>1, CallEnds
  <2>3. x \in Busy \cup out /\ Busy' \cup out' = (Busy \cup out) \ {x}
    BY <1>9 DEF CallOf
  <2>4. SpanInv' /\ SpansCounted'
    BY <2>1, <2>3, SpanEnds
  <2>5. QED
    BY <1>9, <2>2, <2>4 DEF EntryInv, CountInv
<1>10. ASSUME NEW t \in Threads, NEW how \in Outcomes, CallDone(t, how) PROVE EntryInv'
  <2>1. /\ InFrame(t, "call") /\ Popped(t) /\ frames[t] # <<>> /\ out' = out
        /\ LogDone(t, how, Top(t).number, Top(t).span)
    BY <1>10 DEF CallDone, InFrame
  <2>2. Top(t).kind = "call"
    BY <2>1, StackFacts DEF InFrame
  <2>3. PlaceInv' /\ Busy' = Busy \ {Top(t)} /\ Top(t) \in Busy
    BY <2>1, <2>2, PopBusy
  <2>4. out' = out \ {Top(t)}
    BY <2>1, <2>3, BusyTyped
  <2>5. QED
    BY <1>9, <2>1, <2>2, <2>3, <2>4 DEF CallOf
<1>11. ASSUME NEW c \in out, NEW how \in Outcomes, FutureDone(c, how) PROVE EntryInv'
  <2>1. LogDone(Spinner, how, c.number, c.span) /\ out' = out \ {c} /\ frames' = frames
    BY <1>11 DEF FutureDone
  <2>2. PlaceInv' /\ Busy' = Busy /\ c \notin Busy
    BY <2>1, BusyTyped DEF PlaceInv, Busy
  <2>3. QED
    BY <1>9, <2>1, <2>2 DEF CallOf
<1>12. CASE UNCHANGED vars
  BY <1>5, <1>12 DEF vars, context
<1>13. QED
  BY <1>1, <1>2, <1>3, <1>4, <1>6, <1>7, <1>8, <1>10, <1>11, <1>12 DEF Next

\* What is in hand are the frames and the futures OneEntryEach speaks of.
LEMMA BusyIsInHand ==
  ASSUME TypeOK, PlaceInv
  PROVE  /\ \A r : HandledNow(r) <=> \E f \in Busy : f.kind = "rpc" /\ f.number = r
         /\ \A c : (MadeNow(c) \/ GivenUp(c)) <=>
              (\/ \E f \in Busy : f.kind = "call" /\ f.number = c
               \/ \E o \in out : o.number = c)
         /\ \A s : s # None =>
              ((\/ \E t \in Threads : \E i \in DOMAIN frames[t] : frames[t][i].span = s
                \/ \E o \in out : o.span = s)
               <=> \E f \in Busy \cup out : f.span = s)
<1>1. \A f : f \in Busy <=>
        f.kind # "session" /\ \E t \in Threads : \E i \in DOMAIN frames[t] : frames[t][i] = f
  BY DEF Busy, ToSet
<1>2. QED
  BY <1>1 DEF HandledNow, MadeNow, GivenUp, PlaceInv

\* One log call for every RPC that is over and one for every outbound call that
\* ended, in whatever thread it ends, and none while they last; and each of their
\* spans is ended once.  Calls whose continuation raised are the exception: they
\* have no log call and an open span, and no other does.
THEOREM EntriesWrittenOnce == Spec => []OneEntryEach
<1>1. Init => TypeOK /\ EntryInv
  <2> SUFFICES ASSUME Init PROVE EntryInv
    BY InvInit DEF IInv
  <2>1. \A a \in Actors : frames[a] = <<>>
    BY DEF Init
  <2>2. \A t \in Threads : t \in Actors /\ DOMAIN frames[t] = {}
    BY <2>1 DEF Actors
  <2>3. Spinner \in Actors
    BY DEF Actors
  <2>4. PlaceInv /\ Busy = {}
    BY <2>1, <2>2, <2>3 DEF PlaceInv, Busy, ToSet
  <2>5. Busy \cup out = {} /\ out = {}
    BY <2>4 DEF Init
  <2>6. NumberInv /\ SpanInv
    BY <2>4, <2>5 DEF NumberInv, SpanInv
  <2>7. RpcsCounted /\ CallsCounted
    BY <2>4, <2>5, ContextBounds DEF RpcsCounted, CallsCounted, Once, Init, Rpcs, Calls
  <2>8. SpansCounted
    BY DEF SpansCounted, Init
  <2>9. QED
    BY <2>4, <2>6, <2>7, <2>8 DEF EntryInv, CountInv
<1>2. TypeOK /\ EntryInv => OneEntryEach
  <2> SUFFICES ASSUME TypeOK, EntryInv PROVE OneEntryEach
    OBVIOUS
  <2>1. PlaceInv /\ RpcsCounted /\ CallsCounted /\ SpansCounted
    BY DEF EntryInv, CountInv
  <2>2. \A r \in 1..rpcs : accessed[r] = (IF HandledNow(r) THEN 0 ELSE 1)
    <3>1. ASSUME NEW r \in 1..rpcs PROVE r \in Rpcs /\ r <= rpcs
      BY ContextBounds DEF TypeOK, Rpcs
    <3>2. QED
      BY <2>1, <3>1, BusyIsInHand DEF RpcsCounted, Once
  <2>3. \A c \in 1..calls : told[c] = (IF MadeNow(c) \/ GivenUp(c) THEN 0 ELSE 1)
    <3>1. ASSUME NEW c \in 1..calls PROVE c \in Calls /\ c <= calls
      BY ContextBounds DEF TypeOK, Calls
    <3>2. QED
      BY <2>1, <3>1, BusyIsInHand DEF CallsCounted, Once
  <2>4. ASSUME NEW s \in 1..Len(spans)
        PROVE  spans[s].ends =
                 IF \/ \E t \in Threads : \E i \in DOMAIN frames[t] : frames[t][i].span = s
                    \/ \E o \in out : o.span = s
                 THEN 0 ELSE 1
    <3>1. s # None
      BY DEF TypeOK, None
    <3>2. QED
      BY <2>1, <3>1, BusyIsInHand DEF SpansCounted, Once
  <2>5. QED
    BY <2>2, <2>3, <2>4 DEF OneEntryEach
<1>3. QED
  BY <1>1, <1>2, TypeNext, EntryNext, PTL DEF Spec
=============================================================================
