---------------------------- MODULE Requests_proof ----------------------------
(***************************************************************************)
(* Theorems about Requests, for any tasks, ids, codes and bounds.           *)
(***************************************************************************)
EXTENDS Requests, FiniteSetTheorems, SequenceTheorems, TLAPS

-----------------------------------------------------------------------------
(* Types.                                                                   *)

LEMMA InitTyped == Init => TypeOK
<1>1. <<>> \in Seq(Statuses)
  OBVIOUS
<1>2. 0 \in 0..MaxCalls /\ 0 \in Nat
  BY RequestBounds
<1>3. QED
  BY <1>1, <1>2 DEF Init, TypeOK

\* What there is no span and no id for is told apart from spans and ids.
LEMMA Names == None \notin Spans /\ Empty \notin Ids /\ NoCall \notin CallRecord
<1>1. None \notin Spans
  BY DEF None, Spans
<1>2. Empty \notin Contexts
  BY DEF Empty, Contexts
<1>3. NoCall \notin CallRecord
  BY RequestBounds DEF NoCall, CallRecord
<1>4. QED
  BY <1>1, <1>2, <1>3, NamesAssumption DEF Ids

\* The context something of a request runs in, and the id it has.
LEMMA ContextTyped ==
  ASSUME TypeOK, NEW t \in Tasks
  PROVE  Here(t) \in Contexts /\ <<t, "task">> \in Contexts /\ <<t, "worker">> \in Contexts
         /\ <<t, "request">> \in Spans /\ <<t, "call">> \in Spans /\ Left(t) \in Spans
  BY DEF Here, Contexts, Spans, Left

\* What may become the current span as a call begins, and what of it the call has.
LEMMA EnteredTyped ==
  ASSUME NEW t \in Tasks, NEW kind, NEW s \in Entered(t, kind)
  PROVE  s \in {None, <<t, "call">>, Left(t)} /\ Managed(t, s) \in {None, <<t, "call">>}
         /\ (s # Left(t) => Managed(t, s) = s)
<1>1. s \in {None, <<t, "call">>, Left(t)}
  BY DEF Entered, Started
<1>2. QED
  BY <1>1 DEF Managed

LEMMA SessionTyped ==
  ASSUME TypeOK, NEW c \in Contexts, GetSession(c)
  PROVE  SessionOf(c) \in Ids /\ sid' \in [Contexts -> Ids \cup {Empty}]
  BY DEF SessionOf, GetSession, TypeOK, Ids

LEMMA StartedTyped ==
  ASSUME NEW s \in Spans, NEW new \in Started(s)
  PROVE  new \in {None, s}
  BY DEF Started

LEMMA ArriveTyped ==
  ASSUME TypeOK, NEW t \in Tasks, NEW s \in Incoming \cup {Empty}, NEW bodyRead \in BOOLEAN,
         Arrive(t, s, bodyRead)
  PROVE  TypeOK'
<1>1. PICK new \in Started(<<t, "request">>) :
        /\ open' = open \cup ({new} \ {None})
        /\ span' = [span EXCEPT ![t] = new]
        /\ current' = [current EXCEPT ![<<t, "task">>] = new]
  BY DEF Arrive
<1>2. new \in {None, <<t, "request">>}
  BY StartedTyped, ContextTyped
<1>3. span' \in [Tasks -> Spans \cup {None}] /\ open' \subseteq Spans
      /\ current' \in [Contexts -> Spans \cup {None}]
  BY <1>1, <1>2, ContextTyped DEF TypeOK
<1>4. phase' = [phase EXCEPT ![t] = IF bodyRead THEN "app" ELSE "gone"]
      /\ header' = [header EXCEPT ![t] = s] /\ sid' = [sid EXCEPT ![<<t, "task">>] = s]
      /\ UNCHANGED <<away, error, responses, clients>>
  BY DEF Arrive, At
<1>5. QED
  BY <1>3, <1>4, ContextTyped DEF TypeOK, Ids, responses, clients, entries

LEMMA CallBeginsTyped ==
  ASSUME TypeOK, NEW t \in Tasks, NEW kind \in Kinds, NEW shared \in BOOLEAN, NEW own \in BOOLEAN,
         CallBegins(t, kind, shared, own)
  PROVE  TypeOK'
<1> DEFINE c == Here(t)
           id == IF Carries(kind) THEN SessionOf(c) ELSE Empty
<1>1. PICK s \in Entered(t, kind) :
        /\ IF Carries(kind) THEN GetSession(c) ELSE UNCHANGED sid
        /\ open' = open \cup ({s} \ {None})
        /\ common' = IF shared THEN id ELSE common
        /\ current' = IF s = None THEN current ELSE [current EXCEPT ![c] = s]
        /\ call' = [call EXCEPT ![t] = [kind |-> kind, stage |-> Stage(kind, s),
                                        span |-> Managed(t, s), beneath |-> current[c], id |-> id,
                                        shared |-> shared, own |-> own]]
  BY DEF CallBegins
<1>2. s \in {None, <<t, "call">>, Left(t)} /\ Managed(t, s) \in {None, <<t, "call">>}
  BY EnteredTyped
<1>3. id \in Ids \cup {Empty} /\ sid' \in [Contexts -> Ids \cup {Empty}]
  BY <1>1, SessionTyped, ContextTyped DEF TypeOK
<1>4. current[c] \in Spans \cup {None} /\ Stage(kind, s) \in {"begun", "broken"}
  BY ContextTyped DEF TypeOK, Stage
<1>5. [kind |-> kind, stage |-> Stage(kind, s), span |-> Managed(t, s),
       beneath |-> current[c], id |-> id, shared |-> shared, own |-> own] \in CallRecord
  BY <1>2, <1>3, <1>4, ContextTyped DEF CallRecord
<1>6. call' \in [Tasks -> CallRecord \cup {NoCall}] /\ common' \in Ids \cup {Empty}
  BY <1>1, <1>3, <1>5 DEF TypeOK
<1>7. current' \in [Contexts -> Spans \cup {None}] /\ open' \subseteq Spans
  <2>1. s \in Spans \cup {None}
    BY <1>2, ContextTyped
  <2>2. current \in [Contexts -> Spans \cup {None}] /\ open \subseteq Spans
    BY DEF TypeOK
  <2>3. [current EXCEPT ![c] = s] \in [Contexts -> Spans \cup {None}]
    BY <2>1, <2>2
  <2>4. QED
    BY <1>1, <2>1, <2>2, <2>3
<1>8. calls' \in 0..MaxCalls
  <2>1. calls < MaxCalls /\ calls' = calls + 1
    BY DEF CallBegins
  <2>2. calls \in 0..MaxCalls
    BY DEF TypeOK
  <2>3. QED
    BY <2>1, <2>2, RequestBounds
<1>9. QED
  BY <1>3, <1>6, <1>7, <1>8 DEF CallBegins, TypeOK, responses, entries

LEMMA CallEndsTyped ==
  ASSUME TypeOK, NEW t \in Tasks, NEW how \in {"returns", "raises"}, NEW logs \in BOOLEAN,
         CallEnds(t, how, logs)
  PROVE  TypeOK'
<1>1. call[t] \in CallRecord
  BY Names DEF CallEnds, InCall, TypeOK
<1>2. call[t].beneath \in Spans \cup {None} /\ call[t].kind \in Kinds
  BY <1>1 DEF CallRecord
<1>3. sid' \in [Contexts -> Ids \cup {Empty}]
  BY SessionTyped, ContextTyped DEF CallEnds, TypeOK
<1>4. told' \in Nat /\ unlogged' \in Nat /\ refused' \in Nat
  <2>1. PICK n : /\ n = EntriesFor(call[t].kind, how)
                 /\ told' = told + (IF logs THEN n ELSE 0)
                 /\ unlogged' = unlogged + (IF logs THEN 0 ELSE n)
    BY DEF CallEnds
  <2>2. refused' = refused + (IF call[t].kind = "produce" /\ how = "raises" THEN 1 ELSE 0)
    BY DEF CallEnds
  <2>3. told \in Nat /\ unlogged \in Nat /\ refused \in Nat
    BY DEF TypeOK
  <2>4. n \in Nat
    BY <2>1 DEF EntriesFor
  <2>5. QED
    BY <2>1, <2>2, <2>3, <2>4
<1>5. current' \in [Contexts -> Spans \cup {None}] /\ open' \subseteq Spans
  BY <1>2, ContextTyped DEF CallEnds, TypeOK, Beneath
<1>6. call' \in [Tasks -> CallRecord \cup {NoCall}]
  BY DEF CallEnds, TypeOK
<1>7. QED
  BY <1>3, <1>4, <1>5, <1>6 DEF CallEnds, TypeOK, responses

\* What the server sends.
LEMMA SendTyped ==
  ASSUME TypeOK, NEW t \in Tasks, NEW status \in Statuses, Passes(t, status) \/ SendRaises(t)
  PROVE  wire' \in [Tasks -> Seq(Statuses)] /\ unsent' \subseteq Tasks
<1>1. wire[t] \in Seq(Statuses)
  BY DEF TypeOK
<1>2. Append(wire[t], status) \in Seq(Statuses)
  BY <1>1
<1>3. wire \in [Tasks -> Seq(Statuses)] /\ unsent \subseteq Tasks
  BY DEF TypeOK
<1>4. QED
  BY <1>2, <1>3 DEF Passes, SendRaises

\* The method of a call runs, the first time or again.
LEMMA GoesTyped ==
  ASSUME TypeOK, NEW t \in Tasks, NEW stage \in {"sent", "again"}, NEW id \in Ids \cup {Empty},
         call[t] # NoCall, Goes(t, stage, id)
  PROVE  call' \in [Tasks -> CallRecord \cup {NoCall}]
<1>1. call[t] \in CallRecord
  BY DEF TypeOK
<1>2. [call[t] EXCEPT !.stage = stage, !.id = id] \in CallRecord
  BY <1>1 DEF CallRecord
<1>3. QED
  BY <1>2 DEF Goes, TypeOK

LEMMA TypeNext == TypeOK /\ [Next]_vars => TypeOK'
<1> SUFFICES ASSUME TypeOK, [Next]_vars PROVE TypeOK'
  OBVIOUS
<1>1. ASSUME NEW t \in Tasks, NEW code \in Codes, AppStarts(t, code) PROVE TypeOK'
  <2>1. code \in Statuses
    BY DEF Statuses
  <2>2. wire' \in [Tasks -> Seq(Statuses)] /\ unsent' \subseteq Tasks
    BY <1>1, <2>1, SendTyped DEF AppStarts
  <2>3. QED
    BY <1>1, <2>1, <2>2 DEF AppStarts, TypeOK, contexts, clients, entries
<1>2. ASSUME NEW t \in Tasks, AppStops(t) PROVE TypeOK'
  BY <1>2 DEF AppStops, AfterStop, At, TypeOK, contexts, clients, entries
<1>3. ASSUME NEW t \in Tasks, NEW message \in {"silent", "told"}, AppRaises(t, message)
      PROVE  TypeOK'
  <2>1. wire' \in [Tasks -> Seq(Statuses)] /\ unsent' \subseteq Tasks
    BY <1>3, SendTyped DEF AppRaises, Statuses
  <2>2. sid' \in [Contexts -> Ids \cup {Empty}]
    BY <1>3, SessionTyped, ContextTyped DEF AppRaises
  <2>3. QED
    BY <1>3, <2>1, <2>2 DEF AppRaises, At, TypeOK, clients, entries
<1>4. ASSUME NEW t \in Tasks, RequestEnds(t) PROVE TypeOK'
  <2>1. sid' \in [Contexts -> Ids \cup {Empty}]
    BY <1>4, SessionTyped, ContextTyped DEF RequestEnds
  <2>2. wire' \in [Tasks -> Seq(Statuses)]
    <3>1. wire \in [Tasks -> Seq(Statuses)] /\ <<>> \in Seq(Statuses)
      BY DEF TypeOK
    <3>2. QED
      BY <1>4, <3>1 DEF RequestEnds
  <2>3. current' \in [Contexts -> Spans \cup {None}]
    BY <1>4, ContextTyped DEF RequestEnds, TypeOK
  <2>4. QED
    BY <1>4, <2>1, <2>2, <2>3 DEF RequestEnds, At, TypeOK, clients, entries
<1>5. ASSUME NEW t \in Tasks, GoesAway(t) \/ ComesBack(t) PROVE TypeOK'
  BY <1>5, ContextTyped
     DEF GoesAway, ComesBack, CopiedContext, TypeOK, responses, clients, entries
<1>6. ASSUME NEW t \in Tasks, AppLogs(t) PROVE TypeOK'
  BY <1>6, SessionTyped, ContextTyped DEF AppLogs, TypeOK, responses, clients, entries
<1>7. ASSUME NEW t \in Tasks, CallGoes(t) PROVE TypeOK'
  <2>1. call[t] \in CallRecord /\ HeaderOf(t) \in Ids \cup {Empty}
    BY <1>7 DEF CallGoes, InCall, HeaderOf, TypeOK, CallRecord
  <2>2. QED
    BY <1>7, <2>1, GoesTyped DEF CallGoes, InCall, TypeOK, contexts, responses, entries
<1>8. ASSUME NEW t \in Tasks, CallGoesAgain(t) PROVE TypeOK'
  BY <1>8, GoesTyped DEF CallGoesAgain, InCall, TypeOK, contexts, responses, entries
<1>9. CASE UNCHANGED vars
  BY <1>9 DEF vars, TypeOK, contexts, responses, clients, entries
<1>10. ASSUME NEW t \in Tasks, NoText(t) PROVE TypeOK'
  BY <1>10 DEF NoText, At, TypeOK, contexts, responses, clients, entries
<1>11. ASSUME NEW t \in Tasks, NEW s \in Incoming \cup {Empty}, NEW bodyRead \in BOOLEAN,
              Arrive(t, s, bodyRead)
       PROVE  TypeOK'
  BY <1>11, ArriveTyped
<1>12. ASSUME NEW t \in Tasks, NEW kind \in Kinds, NEW shared \in BOOLEAN, NEW own \in BOOLEAN,
              CallBegins(t, kind, shared, own)
       PROVE  TypeOK'
  BY <1>12, CallBeginsTyped
<1>13. ASSUME NEW t \in Tasks, NEW how \in {"returns", "raises"}, NEW logs \in BOOLEAN,
              CallEnds(t, how, logs)
       PROVE  TypeOK'
  BY <1>13, CallEndsTyped
<1>14. QED
  BY <1>1, <1>2, <1>3, <1>4, <1>5, <1>6, <1>7, <1>8, <1>9, <1>10, <1>11, <1>12, <1>13 DEF Next

\* What a request, its contexts, its calls and its answers are made of.
THEOREM TypeCorrect == Spec => []TypeOK
  BY InitTyped, TypeNext, PTL DEF Spec

-----------------------------------------------------------------------------
(* Where requests and their calls are.                                      *)

\* The part of TypeOK that says which functions change where.
Maps ==
  /\ phase \in [Tasks -> {"idle", "app", "ending", "done", "gone"}]
  /\ header \in [Tasks -> Incoming \cup {Empty}] /\ span \in [Tasks -> Spans \cup {None}]
  /\ away \in [Tasks -> BOOLEAN]
  /\ sid \in [Contexts -> Ids \cup {Empty}] /\ current \in [Contexts -> Spans \cup {None}]
  /\ call \in [Tasks -> CallRecord \cup {NoCall}]

LEMMA TypedMaps == TypeOK => Maps
  BY DEF TypeOK, Maps

\* What a step of a call makes of its record.
LEMMA CallSteps ==
  ASSUME Maps, PlacesInv, NEW t \in Tasks, CallGoes(t) \/ CallGoesAgain(t)
  PROVE  /\ call[t] # NoCall /\ call'[t] # NoCall
         /\ call'[t].span = call[t].span /\ call'[t].beneath = call[t].beneath
         /\ call'[t].shared = call[t].shared /\ call'[t].own = call[t].own
         /\ \A u \in Tasks : u # t => call'[u] = call[u]
<1>1. PICK stage, id : call[t] # NoCall /\ Goes(t, stage, id)
  BY DEF CallGoes, CallGoesAgain, InCall
<1>2. call[t] \in CallRecord /\ call[t] # NoCall
  BY <1>1 DEF Maps
<1>3. call' = [call EXCEPT ![t].stage = stage, ![t].id = id]
  BY <1>1 DEF Goes
<1>4. call'[t] = [[call[t] EXCEPT !.stage = stage] EXCEPT !.id = id]
      /\ \A u \in Tasks : u # t => call'[u] = call[u]
  BY <1>3 DEF Maps
<1>5. call'[t].kind = call[t].kind /\ call'[t].span = call[t].span
      /\ call'[t].beneath = call[t].beneath /\ call'[t].shared = call[t].shared
      /\ call'[t].own = call[t].own
  BY <1>2, <1>4 DEF CallRecord
<1>6. call'[t].kind # "none"
  BY <1>2, <1>5, RequestBounds DEF CallRecord
<1>7. call'[t] # NoCall
  BY <1>6 DEF NoCall
<1>8. QED
  BY <1>2, <1>4, <1>5, <1>7

\* A new call, and the span that may be its own.
LEMMA NewCall ==
  ASSUME Maps, NEW t \in Tasks, NEW kind \in Kinds, NEW shared, NEW own,
         CallBegins(t, kind, shared, own)
  PROVE  \E s \in {None, <<t, "call">>, Left(t)} :
           /\ call'[t] # NoCall /\ call'[t].span = Managed(t, s)
           /\ Managed(t, s) \in {None, <<t, "call">>} /\ (s # Left(t) => Managed(t, s) = s)
           /\ call'[t].beneath = current[Here(t)]
           /\ call'[t].shared = shared /\ call'[t].own = own /\ call'[t].stage # "again"
           /\ call'[t].id = IF Carries(kind) THEN SessionOf(Here(t)) ELSE Empty
           /\ \A u \in Tasks : u # t => call'[u] = call[u]
           /\ open' = open \cup ({s} \ {None})
           /\ current' = IF s = None THEN current ELSE [current EXCEPT ![Here(t)] = s]
           /\ GetSession(Here(t)) \/ UNCHANGED sid
<1> DEFINE id == IF Carries(kind) THEN SessionOf(Here(t)) ELSE Empty
           record(s) == [kind |-> kind, stage |-> Stage(kind, s), span |-> Managed(t, s),
                         beneath |-> current[Here(t)], id |-> id, shared |-> shared, own |-> own]
<1>1. PICK s \in Entered(t, kind) :
        /\ IF Carries(kind) THEN GetSession(Here(t)) ELSE UNCHANGED sid
        /\ open' = open \cup ({s} \ {None})
        /\ current' = IF s = None THEN current ELSE [current EXCEPT ![Here(t)] = s]
        /\ call' = [call EXCEPT ![t] = record(s)]
  BY DEF CallBegins
<1>2. /\ s \in {None, <<t, "call">>, Left(t)} /\ Managed(t, s) \in {None, <<t, "call">>}
      /\ s # Left(t) => Managed(t, s) = s
  BY <1>1, EnteredTyped
<1>3. call'[t] = record(s) /\ \A u \in Tasks : u # t => call'[u] = call[u]
  BY <1>1 DEF Maps
<1>4. call'[t] # NoCall
  <2>1. call'[t].kind # "none"
    BY <1>3, RequestBounds
  <2>2. QED
    BY <2>1 DEF NoCall
<1>5. call'[t].stage # "again"
  BY <1>3 DEF Stage
<1>6. /\ call'[t].span = Managed(t, s) /\ call'[t].beneath = current[Here(t)]
      /\ call'[t].shared = shared /\ call'[t].own = own /\ call'[t].id = id
  BY <1>3
<1>7. GetSession(Here(t)) \/ UNCHANGED sid
  BY <1>1
<1> HIDE DEF record
<1>8. QED
  BY <1>1, <1>2, <1>3, <1>4, <1>5, <1>6, <1>7

LEMMA PlacesNext == TypeOK /\ PlacesInv /\ SpansNest /\ [Next]_vars => PlacesInv'
<1> SUFFICES ASSUME TypeOK, PlacesInv, SpansNest, [Next]_vars PROVE PlacesInv'
  OBVIOUS
<1>0. Maps
  BY TypedMaps
<1>1. ASSUME NEW t \in Tasks, NEW s, NEW bodyRead, Arrive(t, s, bodyRead) PROVE PlacesInv'
  <2>1. PICK new \in {None, <<t, "request">>} :
          span' = [span EXCEPT ![t] = new] /\ open' = open \cup ({new} \ {None})
    <3>1. PICK new \in Started(<<t, "request">>) :
            span' = [span EXCEPT ![t] = new] /\ open' = open \cup ({new} \ {None})
      BY <1>1 DEF Arrive
    <3>2. new \in {None, <<t, "request">>}
      BY StartedTyped, ContextTyped
    <3>3. QED
      BY <3>1, <3>2
  <2>2. span'[t] \in {None, <<t, "request">>}
        /\ \A u \in Tasks : u # t => span'[u] = span[u]
    BY <1>0, <2>1 DEF Maps
  <2>3. \A u \in Tasks : Left(u) \notin open' => Left(u) \notin open
    BY <2>1
  <2>4. QED
    BY <1>0, <1>1, <2>2, <2>3 DEF Arrive, At, PlacesInv, Maps, clients
<1>2. ASSUME NEW t \in Tasks, AppStops(t) \/ (\E m : AppRaises(t, m)) \/ RequestEnds(t)
      PROVE  PlacesInv'
  <2>1. /\ UNCHANGED <<header, span, away, call, open>>
        /\ phase[t] \in {"app", "ending"} /\ phase'[t] \in {"ending", "done"}
        /\ phase[t] = "app" => away[t] \/ call[t] = NoCall
        /\ \A u \in Tasks : u # t => phase'[u] = phase[u]
    BY <1>0, <1>2 DEF AppStops, AppRaises, RequestEnds, InTask, At, Maps, clients, contexts
  <2>2. QED
    BY <2>1 DEF PlacesInv
<1>3. ASSUME NEW t \in Tasks, GoesAway(t) \/ ComesBack(t) PROVE PlacesInv'
  BY <1>0, <1>3 DEF GoesAway, ComesBack, InTask, PlacesInv, Maps, clients
<1>4. ASSUME NEW t \in Tasks, AppLogs(t) \/ \E code : AppStarts(t, code) PROVE PlacesInv'
  BY <1>4 DEF AppLogs, AppStarts, PlacesInv, clients, contexts
<1>5. ASSUME NEW t \in Tasks, NEW kind \in Kinds, NEW shared, NEW own,
             CallBegins(t, kind, shared, own)
      PROVE  PlacesInv'
  <2>1. UNCHANGED <<phase, header, span, away>> /\ Works(t)
    BY <1>5 DEF CallBegins
  <2>2. Left(t) \notin open => current[Here(t)] = span[t]
    BY <2>1, <1>0 DEF SpansNest, Nests, OwnSpan, Works, Here, Maps
  <2>3. PICK s \in {None, <<t, "call">>, Left(t)} :
          /\ Managed(t, s) \in {None, <<t, "call">>} /\ call'[t].span = Managed(t, s)
          /\ call'[t].beneath = current[Here(t)]
          /\ \A u \in Tasks : u # t => call'[u] = call[u]
          /\ open' = open \cup ({s} \ {None})
    BY <1>0, <1>5, NewCall
  <2>4. \A u \in Tasks : Left(u) \notin open' => Left(u) \notin open
    BY <2>3
  <2>5. QED
    BY <1>0, <2>1, <2>2, <2>3, <2>4 DEF PlacesInv, Works
<1>6. ASSUME NEW t \in Tasks, CallGoes(t) \/ CallGoesAgain(t) PROVE PlacesInv'
  <2>1. UNCHANGED <<phase, header, span, away, open>>
    BY <1>6 DEF CallGoes, CallGoesAgain, contexts
  <2>2. QED
    BY <1>0, <1>6, <2>1, CallSteps DEF PlacesInv
<1>7. ASSUME NEW t \in Tasks, NEW how, NEW logs, CallEnds(t, how, logs) PROVE PlacesInv'
  <2>1. /\ UNCHANGED <<phase, header, span, away>> /\ call[t] # NoCall /\ call'[t] = NoCall
        /\ \A u \in Tasks : u # t => call'[u] = call[u]
        /\ open' = open \ {call[t].span}
    BY <1>0, <1>7 DEF CallEnds, InCall, SpanToEnd, Maps
  <2>2. call[t].span \in {None, <<t, "call">>}
    BY <2>1 DEF PlacesInv
  <2>3. \A u \in Tasks : Left(u) # None /\ Left(u) # <<t, "call">>
    BY DEF Left, None
  <2>4. \A u \in Tasks : Left(u) \notin open' => Left(u) \notin open
    BY <2>1, <2>2, <2>3
  <2>5. QED
    BY <2>1, <2>4 DEF PlacesInv
<1>8. CASE UNCHANGED vars
  BY <1>8 DEF vars, PlacesInv, clients, contexts
<1>9. ASSUME NEW t \in Tasks, NoText(t) PROVE PlacesInv'
  BY <1>0, <1>9 DEF NoText, At, PlacesInv, Maps, clients, contexts
<1>10. QED
  BY <1>1, <1>2, <1>3, <1>4, <1>5, <1>6, <1>7, <1>8, <1>9 DEF Next

-----------------------------------------------------------------------------
(* What clients get.                                                        *)

\* The part of TypeOK that is about answers.
Messages == Seq(Statuses)
Answers ==
  /\ asked \in [Tasks -> Statuses \cup {NoStatus}] /\ error \in [Tasks -> {"none", "silent", "told"}]
  /\ wire \in [Tasks -> Messages] /\ phase \in [Tasks -> {"idle", "app", "ending", "done", "gone"}]

LEMMA TypedAnswers == TypeOK => Answers
  BY DEF TypeOK, Answers, Messages

LEMMA OneMore ==
  /\ \A c : Append(Silence, c) = Answer(c)
  /\ \A c : Append(Answer(c), 500) = AnswerAnd500(c)
  /\ AtMostOne(Silence) /\ \A c : AtMostOne(Answer(c))
<1>1. ASSUME NEW c PROVE Append(<<>>, c) = <<c>>
  <2>1. <<>> \in Seq({c}) /\ <<c>> \in Seq({c}) /\ Len(<<c>>) = 1 /\ <<c>>[1] = c
    OBVIOUS
  <2>2. Append(<<>>, c) \in Seq({c}) /\ Len(Append(<<>>, c)) = 1 /\ Append(<<>>, c)[1] = c
    BY <2>1
  <2>3. QED
    BY <2>1, <2>2
<1>2. ASSUME NEW c PROVE Append(<<c>>, 500) = <<c, 500>>
  <2> DEFINE S == {c, 500}
  <2>1. <<c>> \in Seq(S) /\ Len(<<c>>) = 1 /\ <<c>>[1] = c /\ 500 \in S
    OBVIOUS
  <2>2. <<c, 500>> \in Seq(S) /\ Len(<<c, 500>>) = 2 /\ <<c, 500>>[1] = c /\ <<c, 500>>[2] = 500
    OBVIOUS
  <2>3. /\ Append(<<c>>, 500) \in Seq(S) /\ Len(Append(<<c>>, 500)) = 2
        /\ Append(<<c>>, 500)[1] = c /\ Append(<<c>>, 500)[2] = 500
    BY <2>1
  <2> DEFINE s == Append(<<c>>, 500)
             r == <<c, 500>>
  <2> HIDE DEF S, s, r
  <2>4. s \in Seq(S) /\ r \in Seq(S) /\ Len(s) = 2 /\ Len(r) = 2 /\ s[1] = r[1] /\ s[2] = r[2]
    BY <2>2, <2>3 DEF s, r
  <2>5. \A i \in 1..Len(s) : s[i] = r[i]
    BY <2>4
  <2>6. s = r
    BY <2>4, <2>5, SeqEqual
  <2>7. QED
    BY <2>6 DEF s, r
<1>3. Len(<<>>) <= 1
  OBVIOUS
<1>4. ASSUME NEW c PROVE Len(<<c>>) <= 1
  OBVIOUS
<1>5. QED
  BY <1>1, <1>2, <1>3, <1>4 DEF Silence, Answer, AnswerAnd500, AtMostOne

LEMMA AnswersNext == TypeOK /\ AnswersInv /\ [Next]_vars => AnswersInv'
<1> SUFFICES ASSUME TypeOK, AnswersInv, [Next]_vars PROVE AnswersInv'
  OBVIOUS
<1>0. Answers
  BY TypedAnswers
<1>1. ASSUME NEW t \in Tasks, NEW s, NEW bodyRead, Arrive(t, s, bodyRead) PROVE AnswersInv'
  BY <1>0, <1>1 DEF Arrive, At, AnswersInv, Answers, responses
<1>2. ASSUME NEW t \in Tasks, NEW code \in Codes, AppStarts(t, code) PROVE AnswersInv'
  <2>1. /\ phase[t] = "app" /\ asked[t] = NoStatus /\ asked' = [asked EXCEPT ![t] = code]
        /\ UNCHANGED <<phase, error>>
    BY <1>2 DEF AppStarts, InTask
  <2>2. error[t] = "none" /\ t \notin unsent /\ wire[t] = Silence
    BY <1>0, <2>1 DEF AnswersInv, Answers
  <2>3. code # NoStatus
    BY RequestBounds DEF NoStatus
  <2>4. CASE Passes(t, code)
    <3>1. wire'[t] = Answer(code) /\ (\A u \in Tasks : u # t => wire'[u] = wire[u]) /\ unsent' = unsent
      BY <1>0, <2>2, <2>4, OneMore DEF Passes, Answers
    <3>2. QED
      BY <1>0, <2>1, <2>2, <2>3, <3>1 DEF AnswersInv, Answers
  <2>5. CASE SendRaises(t)
    BY <1>0, <2>1, <2>2, <2>3, <2>5 DEF AnswersInv, Answers, SendRaises
  <2>6. QED
    BY <1>2, <2>4, <2>5 DEF AppStarts
<1>3. ASSUME NEW t \in Tasks, AppStops(t) PROVE AnswersInv'
  <2>1. wire' = wire /\ phase[t] = "app"
    BY <1>0, <1>3 DEF AppStops, AfterStop, Answers, InTask
  <2>2. QED
    BY <1>0, <1>3, <2>1 DEF AppStops, At, AnswersInv, Answers
<1>4. ASSUME NEW t \in Tasks, NEW m \in {"silent", "told"}, AppRaises(t, m) PROVE AnswersInv'
  <2>1. /\ phase[t] = "app" /\ phase' = [phase EXCEPT ![t] = "ending"]
        /\ error' = [error EXCEPT ![t] = m] /\ UNCHANGED asked
    BY <1>4 DEF AppRaises, InTask, At
  <2>2. error[t] = "none" /\ error'[t] # "none" /\ phase'[t] = "ending"
        /\ wire[t] = IF asked[t] = NoStatus \/ t \in unsent THEN Silence ELSE Answer(asked[t])
    BY <1>0, <2>1 DEF AnswersInv, Answers
  <2>3. CASE Passes(t, 500)
    <3>1. /\ wire'[t] = IF asked[t] = NoStatus \/ t \in unsent THEN Answer(500)
                                                             ELSE AnswerAnd500(asked[t])
          /\ (\A u \in Tasks : u # t => wire'[u] = wire[u]) /\ unsent' = unsent
      BY <1>0, <2>2, <2>3, OneMore DEF Passes, Answers
    <3>2. t \in unsent => AtMostOne(wire'[t])
      BY <3>1, OneMore
    <3>3. QED
      BY <1>0, <2>1, <2>2, <3>1, <3>2 DEF AnswersInv, Answers
  <2>4. CASE SendRaises(t)
    <3>1. AtMostOne(wire[t])
      BY <2>2, OneMore
    <3>2. wire' = wire /\ unsent' = unsent \cup {t}
      BY <2>4 DEF SendRaises
    <3>3. QED
      BY <1>0, <2>1, <2>2, <3>1, <3>2 DEF AnswersInv, Answers
  <2>5. QED
    BY <1>4, <2>3, <2>4 DEF AppRaises
<1>5. ASSUME NEW t \in Tasks, RequestEnds(t) PROVE AnswersInv'
  <2>1. wire' = [wire EXCEPT ![t] = Silence]
    BY <1>5 DEF RequestEnds, Silence
  <2>2. /\ phase' = [phase EXCEPT ![t] = "done"] /\ asked' = [asked EXCEPT ![t] = NoStatus]
        /\ error' = [error EXCEPT ![t] = "none"] /\ unsent' = unsent \ {t}
    BY <1>5 DEF RequestEnds, At
  <2>3. QED
    BY <1>0, <2>1, <2>2 DEF AnswersInv, Answers
<1>6. ASSUME NEW t \in Tasks,
             \/ GoesAway(t) \/ ComesBack(t) \/ AppLogs(t) \/ CallGoes(t) \/ CallGoesAgain(t)
             \/ \E kind, shared, own : CallBegins(t, kind, shared, own)
             \/ \E how, logs : CallEnds(t, how, logs)
      PROVE  AnswersInv'
  <2>1. UNCHANGED <<phase, error, responses>>
    BY <1>6 DEF GoesAway, ComesBack, AppLogs, CallGoes, CallGoesAgain, CallBegins, CallEnds
  <2>2. QED
    BY <2>1 DEF responses, AnswersInv
<1>7. CASE UNCHANGED vars
  BY <1>7 DEF vars, responses, AnswersInv
<1>8. ASSUME NEW t \in Tasks, NoText(t) PROVE AnswersInv'
  BY <1>0, <1>8 DEF NoText, At, AnswersInv, Answers, responses
<1>9. QED
  BY <1>1, <1>2, <1>3, <1>4, <1>5, <1>6, <1>7, <1>8 DEF Next

-----------------------------------------------------------------------------
(* Ids.                                                                     *)

\* An id that is there is not replaced by one that is made up.
LEMMA SessionKept ==
  ASSUME Maps, NEW c \in Contexts, GetSession(c)
  PROVE  \A d \in Contexts : sid[d] # Empty => sid'[d] = sid[d]
  BY DEF GetSession, SessionOf, Maps

LEMMA ContextsOf ==
  ASSUME NEW t \in Tasks
  PROVE  <<t, "task">> \in Contexts /\ <<t, "worker">> \in Contexts /\ Here(t) \in Contexts
  BY DEF Contexts, Here

\* A step that takes no id away and makes no call.
LEMMA CarryKept ==
  ASSUME CarryTheirRequest, UNCHANGED <<header, call>>,
         \A t \in Tasks : away'[t] => away[t],
         \A c \in Contexts : sid[c] # Empty => sid'[c] = sid[c], Maps
  PROVE  CarryTheirRequest'
<1> SUFFICES ASSUME NEW t \in Tasks, header[t] # Empty
             PROVE  /\ sid'[<<t, "task">>] = header[t]
                    /\ away'[t] => sid'[<<t, "worker">>] = header[t]
                    /\ call[t] # NoCall =>
                         call[t].shared \/ call[t].id = Empty \/ call[t].id = header[t]
  BY DEF CarryTheirRequest
<1>1. QED
  BY ContextsOf DEF CarryTheirRequest

LEMMA CarryNext == TypeOK /\ PlacesInv /\ CarryTheirRequest /\ [Next]_vars => CarryTheirRequest'
<1> SUFFICES ASSUME TypeOK, PlacesInv, CarryTheirRequest, [Next]_vars PROVE CarryTheirRequest'
  OBVIOUS
<1>0. Maps
  BY TypedMaps
<1>1. ASSUME NEW t \in Tasks, NEW s, NEW bodyRead, Arrive(t, s, bodyRead)
      PROVE  CarryTheirRequest'
  <2>1. /\ header' = [header EXCEPT ![t] = s] /\ sid' = [sid EXCEPT ![<<t, "task">>] = s]
        /\ UNCHANGED <<away, call>> /\ ~away[t] /\ call[t] = NoCall
    BY <1>1 DEF Arrive, clients, PlacesInv
  <2>2. header'[t] = s /\ sid'[<<t, "task">>] = s
    BY <1>0, <2>1, ContextsOf DEF Maps
  <2>3. ASSUME NEW u \in Tasks, u # t
        PROVE  header'[u] = header[u] /\ sid'[<<u, "task">>] = sid[<<u, "task">>]
               /\ sid'[<<u, "worker">>] = sid[<<u, "worker">>]
    BY <1>0, <2>1, <2>3, ContextsOf DEF Maps
  <2>4. QED
    BY <2>1, <2>2, <2>3 DEF CarryTheirRequest
<1>2. ASSUME NEW t \in Tasks,
             (\E m : AppRaises(t, m)) \/ RequestEnds(t) \/ AppLogs(t)
      PROVE  CarryTheirRequest'
  <2>1. UNCHANGED <<header, call, away>> /\ \E c \in Contexts : GetSession(c)
    BY <1>2, ContextsOf DEF AppRaises, RequestEnds, AppLogs, clients
  <2>2. QED
    BY <1>0, <2>1, SessionKept, CarryKept
<1>3. ASSUME NEW t \in Tasks, AppStops(t) \/ \E code : AppStarts(t, code)
      PROVE  CarryTheirRequest'
  BY <1>3 DEF AppStops, AppStarts, contexts, clients, CarryTheirRequest
<1>4. ASSUME NEW t \in Tasks, GoesAway(t) PROVE CarryTheirRequest'
  <2>1. /\ away' = [away EXCEPT ![t] = TRUE] /\ UNCHANGED <<header, call>>
        /\ sid' = [sid EXCEPT ![<<t, "worker">>] = sid[<<t, "task">>]]
    BY <1>4 DEF GoesAway, CopiedContext, clients
  <2>2. sid'[<<t, "worker">>] = sid[<<t, "task">>]
        /\ \A c \in Contexts : c # <<t, "worker">> => sid'[c] = sid[c]
    BY <1>0, <2>1, ContextsOf DEF Maps
  <2>3. ASSUME NEW u \in Tasks
        PROVE  sid'[<<u, "task">>] = sid[<<u, "task">>]
               /\ (u # t => sid'[<<u, "worker">>] = sid[<<u, "worker">>] /\ away'[u] = away[u])
    BY <1>0, <2>1, <2>2, ContextsOf DEF Maps
  <2>4. QED
    BY <2>1, <2>2, <2>3 DEF CarryTheirRequest
<1>5. ASSUME NEW t \in Tasks, ComesBack(t) PROVE CarryTheirRequest'
  <2>1. /\ away' = [away EXCEPT ![t] = FALSE] /\ UNCHANGED <<header, call>>
        /\ sid' = [sid EXCEPT ![<<t, "worker">>] = Empty]
    BY <1>5 DEF ComesBack, clients
  <2>2. ASSUME NEW u \in Tasks
        PROVE  sid'[<<u, "task">>] = sid[<<u, "task">>]
               /\ (u # t => sid'[<<u, "worker">>] = sid[<<u, "worker">>] /\ away'[u] = away[u])
               /\ ~away'[t]
    BY <1>0, <2>1, ContextsOf DEF Maps
  <2>3. QED
    BY <2>1, <2>2 DEF CarryTheirRequest
<1>6. ASSUME NEW t \in Tasks, NEW kind \in Kinds, NEW shared, NEW own,
             CallBegins(t, kind, shared, own)
      PROVE  CarryTheirRequest'
  <2>1. UNCHANGED <<header, away>> /\ Works(t)
    BY <1>6 DEF CallBegins
  <2>2. /\ call'[t].id = IF Carries(kind) THEN SessionOf(Here(t)) ELSE Empty
        /\ \A u \in Tasks : u # t => call'[u] = call[u]
        /\ GetSession(Here(t)) \/ UNCHANGED sid
    BY <1>0, <1>6, NewCall
  <2>3. \A c \in Contexts : sid[c] # Empty => sid'[c] = sid[c]
    BY <1>0, <2>2, SessionKept, ContextsOf
  <2>4. header[t] # Empty => call'[t].id \in {Empty, header[t]}
    BY <2>2, ContextsOf DEF CarryTheirRequest, SessionOf, Here
  <2>5. QED
    BY <2>1, <2>2, <2>3, <2>4, ContextsOf DEF CarryTheirRequest
<1>7. ASSUME NEW t \in Tasks, CallGoes(t) \/ CallGoesAgain(t) PROVE CarryTheirRequest'
  <2>1. UNCHANGED <<header, sid, away>>
    BY <1>7 DEF CallGoes, CallGoesAgain, contexts
  <2>2. call'[t].shared \/ call'[t].id \in {Empty, call[t].id}
    <3>1. CASE CallGoes(t)
      <4>1. call' = [call EXCEPT ![t].stage = "sent", ![t].id = HeaderOf(t)] /\ call[t] # NoCall
        BY <3>1 DEF CallGoes, Goes, InCall
      <4>2. call[t] \in CallRecord
        BY <1>0, <4>1 DEF Maps
      <4>3. call'[t].id = HeaderOf(t) /\ call'[t].shared = call[t].shared
        BY <1>0, <4>1, <4>2 DEF Maps, CallRecord
      <4>4. QED
        BY <4>2, <4>3 DEF HeaderOf, CallRecord
    <3>2. CASE CallGoesAgain(t)
      <4>1. call' = [call EXCEPT ![t].stage = "again", ![t].id = Empty] /\ call[t] # NoCall
        BY <3>2 DEF CallGoesAgain, Goes, InCall
      <4>2. call[t] \in CallRecord
        BY <1>0, <4>1 DEF Maps
      <4>3. call'[t].id = Empty
        BY <1>0, <4>1, <4>2 DEF Maps, CallRecord
      <4>4. QED
        BY <4>3
    <3>3. QED
      BY <1>7, <3>1, <3>2
  <2>3. call[t] # NoCall /\ call'[t].shared = call[t].shared
        /\ \A u \in Tasks : u # t => call'[u] = call[u]
    BY <1>0, <1>7, CallSteps
  <2>4. QED
    BY <2>1, <2>2, <2>3 DEF CarryTheirRequest
<1>8. ASSUME NEW t \in Tasks, NEW how, NEW logs, CallEnds(t, how, logs) PROVE CarryTheirRequest'
  <2>1. UNCHANGED <<header, away>> /\ call' = [call EXCEPT ![t] = NoCall]
        /\ (GetSession(Here(t)) \/ UNCHANGED sid)
    BY <1>8 DEF CallEnds
  <2>2. \A c \in Contexts : sid[c] # Empty => sid'[c] = sid[c]
    BY <1>0, <2>1, SessionKept, ContextsOf
  <2>3. QED
    BY <1>0, <2>1, <2>2, ContextsOf DEF CarryTheirRequest, Maps
<1>9. CASE UNCHANGED vars
  BY <1>9 DEF vars, contexts, clients, CarryTheirRequest
<1>10. ASSUME NEW t \in Tasks, NoText(t) PROVE CarryTheirRequest'
  BY <1>10 DEF NoText, contexts, clients, CarryTheirRequest
<1>11. QED
  BY <1>1, <1>2, <1>3, <1>4, <1>5, <1>6, <1>7, <1>8, <1>9, <1>10 DEF Next

-----------------------------------------------------------------------------
(* Spans.                                                                   *)

\* What SpansNest says of one request.
Fine(t) == (Left(t) \notin open => Nests(t)) /\ CallSpanEnds(t)

LEMMA AllFine == (SpansNest <=> \A t \in Tasks : Fine(t)) /\ (SpansNest' <=> \A t \in Tasks : Fine(t)')
  BY DEF SpansNest, Fine

\* The spans of a request do not change with the steps of another.
LEMMA OthersFine ==
  ASSUME SpansNest, NEW t \in Tasks, NEW u \in Tasks, u # t,
         phase'[u] = phase[u], away'[u] = away[u], span'[u] = span[u], call'[u] = call[u],
         current'[<<u, "task">>] = current[<<u, "task">>],
         current'[<<u, "worker">>] = current[<<u, "worker">>],
         <<u, "call">> \in open' => <<u, "call">> \in open,
         Left(u) \notin open' => Left(u) \notin open
  PROVE  Fine(u)'
<1>1. Fine(u)
  BY AllFine
<1>2. OwnSpan(u)' = OwnSpan(u) /\ Left(u)' = Left(u)
  BY DEF OwnSpan, Left
<1>3. QED
  BY <1>1, <1>2 DEF Fine, Nests, CallSpanEnds

LEMMA SpansNext == TypeOK /\ PlacesInv /\ SpansNest /\ [Next]_vars => SpansNest'
<1> SUFFICES ASSUME TypeOK, PlacesInv, SpansNest, [Next]_vars PROVE SpansNest'
  OBVIOUS
<1>0. Maps
  BY TypedMaps
<1>1. ASSUME NEW t \in Tasks, NEW s, NEW bodyRead, Arrive(t, s, bodyRead) PROVE SpansNest'
  <2>1. PICK new \in {None, <<t, "request">>} :
          /\ open' = open \cup ({new} \ {None})
          /\ span' = [span EXCEPT ![t] = new]
          /\ current' = [current EXCEPT ![<<t, "task">>] = new]
    <3>1. PICK new \in Started(<<t, "request">>) :
            /\ open' = open \cup ({new} \ {None})
            /\ span' = [span EXCEPT ![t] = new]
            /\ current' = [current EXCEPT ![<<t, "task">>] = new]
      BY <1>1 DEF Arrive
    <3>2. new \in {None, <<t, "request">>}
      BY StartedTyped, ContextTyped
    <3>3. QED
      BY <3>1, <3>2
  <2>2. phase[t] = "idle" /\ phase' = [phase EXCEPT ![t] = IF bodyRead THEN "app" ELSE "gone"]
        /\ UNCHANGED <<away, call>> /\ ~away[t] /\ call[t] = NoCall
    BY <1>1 DEF Arrive, At, clients, PlacesInv
  <2>3. Fine(t)'
    <3>1. span'[t] = new /\ current'[<<t, "task">>] = new /\ phase'[t] \in {"app", "gone"}
      BY <1>0, <2>1, <2>2, ContextsOf DEF Maps
    <3>2. <<t, "call">> \notin open'
      <4>1. <<t, "call">> \notin open
        BY <2>2 DEF SpansNest, CallSpanEnds
      <4>2. <<t, "call">> # <<t, "request">>
        OBVIOUS
      <4>3. QED
        BY <2>1, <4>1, <4>2
    <3>3. QED
      BY <2>2, <3>1, <3>2 DEF Fine, Nests, OwnSpan, CallSpanEnds
  <2>4. ASSUME NEW u \in Tasks, u # t PROVE Fine(u)'
    <3>1. /\ phase'[u] = phase[u] /\ span'[u] = span[u]
          /\ current'[<<u, "task">>] = current[<<u, "task">>]
          /\ current'[<<u, "worker">>] = current[<<u, "worker">>]
          /\ <<u, "call">> \in open' => <<u, "call">> \in open
          /\ Left(u) \notin open' => Left(u) \notin open
      BY <1>0, <2>1, <2>2, <2>4, ContextsOf DEF Maps
    <3>2. QED
      BY <2>2, <2>4, <3>1, OthersFine
  <2>5. QED
    BY <2>3, <2>4, AllFine
<1>2. ASSUME NEW t \in Tasks, AppStops(t) \/ \E m : AppRaises(t, m) PROVE SpansNest'
  <2>1. /\ phase[t] = "app" /\ phase' = [phase EXCEPT ![t] = "ending"]
        /\ UNCHANGED <<away, span, call, current, open>> /\ (away[t] \/ call[t] = NoCall)
    BY <1>2 DEF AppStops, AppRaises, InTask, At, contexts, clients
  <2>2. Fine(t)'
    BY <1>0, <2>1 DEF SpansNest, Fine, Nests, OwnSpan, CallSpanEnds, Maps
  <2>3. ASSUME NEW u \in Tasks, u # t PROVE Fine(u)'
    BY <1>0, <2>1, <2>3, OthersFine DEF Maps
  <2>4. QED
    BY <2>2, <2>3, AllFine
<1>3. ASSUME NEW t \in Tasks, RequestEnds(t) PROVE SpansNest'
  <2>1. /\ phase[t] = "ending" /\ phase' = [phase EXCEPT ![t] = "done"]
        /\ current' = IF span[t] = None THEN current ELSE [current EXCEPT ![<<t, "task">>] = None]
        /\ UNCHANGED <<away, span, call, open>>
    BY <1>3 DEF RequestEnds, At, clients
  <2>2. ASSUME NEW u \in Tasks
        PROVE  /\ current'[<<t, "task">>] = IF span[t] = None THEN current[<<t, "task">>] ELSE None
               /\ phase'[t] = "done"
               /\ current'[<<u, "worker">>] = current[<<u, "worker">>]
               /\ u # t => current'[<<u, "task">>] = current[<<u, "task">>] /\ phase'[u] = phase[u]
    BY <1>0, <2>1, ContextsOf DEF Maps
  <2>3. Fine(t)'
    BY <2>1, <2>2 DEF SpansNest, Fine, Nests, OwnSpan, CallSpanEnds
  <2>4. ASSUME NEW u \in Tasks, u # t PROVE Fine(u)'
    BY <2>1, <2>2, <2>4, OthersFine
  <2>5. QED
    BY <2>3, <2>4, AllFine
<1>4. ASSUME NEW t \in Tasks, GoesAway(t) PROVE SpansNest'
  <2>1. /\ phase[t] = "app" /\ ~away[t] /\ call[t] = NoCall
        /\ away' = [away EXCEPT ![t] = TRUE]
        /\ current' = [current EXCEPT ![<<t, "worker">>] = current[<<t, "task">>]]
        /\ UNCHANGED <<phase, span, call, open>>
    BY <1>4 DEF GoesAway, InTask, CopiedContext, clients
  <2>2. ASSUME NEW u \in Tasks
        PROVE  /\ current'[<<t, "worker">>] = current[<<t, "task">>] /\ away'[t]
               /\ current'[<<u, "task">>] = current[<<u, "task">>]
               /\ u # t => current'[<<u, "worker">>] = current[<<u, "worker">>] /\ away'[u] = away[u]
    BY <1>0, <2>1, ContextsOf DEF Maps
  <2>3. Fine(t)'
    BY <2>1, <2>2 DEF SpansNest, Fine, Nests, OwnSpan, CallSpanEnds
  <2>4. ASSUME NEW u \in Tasks, u # t PROVE Fine(u)'
    BY <2>1, <2>2, <2>4, OthersFine
  <2>5. QED
    BY <2>3, <2>4, AllFine
<1>5. ASSUME NEW t \in Tasks, ComesBack(t) PROVE SpansNest'
  <2>1. /\ away[t] /\ call[t] = NoCall /\ away' = [away EXCEPT ![t] = FALSE]
        /\ current' = [current EXCEPT ![<<t, "worker">>] = None]
        /\ UNCHANGED <<phase, span, call, open>>
    BY <1>5 DEF ComesBack, clients
  <2>2. ASSUME NEW u \in Tasks
        PROVE  /\ ~away'[t] /\ current'[<<u, "task">>] = current[<<u, "task">>]
               /\ u # t => current'[<<u, "worker">>] = current[<<u, "worker">>] /\ away'[u] = away[u]
    BY <1>0, <2>1, ContextsOf DEF Maps
  <2>3. Fine(t)'
    BY <2>1, <2>2 DEF SpansNest, Fine, Nests, OwnSpan, CallSpanEnds
  <2>4. ASSUME NEW u \in Tasks, u # t PROVE Fine(u)'
    BY <2>1, <2>2, <2>4, OthersFine
  <2>5. QED
    BY <2>3, <2>4, AllFine
<1>6. ASSUME NEW t \in Tasks, AppLogs(t) \/ \E code : AppStarts(t, code) PROVE SpansNest'
  BY <1>6 DEF AppLogs, AppStarts, contexts, clients, SpansNest, Nests, OwnSpan, CallSpanEnds
<1>7. ASSUME NEW t \in Tasks, NEW kind \in Kinds, NEW shared, NEW own,
             CallBegins(t, kind, shared, own)
      PROVE  SpansNest'
  <2>1. UNCHANGED <<phase, span, away>> /\ call[t] = NoCall /\ (phase[t] = "app" \/ away[t])
    BY <1>7 DEF CallBegins, Works
  <2>2. PICK s \in {None, <<t, "call">>, Left(t)} :
          /\ call'[t] # NoCall /\ call'[t].span = Managed(t, s)
          /\ (s # Left(t) => Managed(t, s) = s)
          /\ \A u \in Tasks : u # t => call'[u] = call[u]
          /\ open' = open \cup ({s} \ {None})
          /\ current' = IF s = None THEN current ELSE [current EXCEPT ![Here(t)] = s]
    BY <1>0, <1>7, NewCall
  <2>3. \A u \in Tasks : Left(u) # None /\ Left(u) # <<u, "call">>
    BY DEF Left, None
  <2>4. Fine(t)'
    <3>1. ASSUME Left(t) \notin open' PROVE Nests(t)'
      <4>1. Left(t) \notin open /\ s \in {None, <<t, "call">>} /\ call'[t].span = s
        BY <2>2, <2>3, <3>1
      <4>2. current[Here(t)] = span[t] /\ Nests(t)
        BY <2>1, <4>1 DEF SpansNest, Nests, OwnSpan, Here
      <4>3. current'[Here(t)] = OwnSpan(t)'
            /\ \A c \in Contexts : c # Here(t) => current'[c] = current[c]
        BY <1>0, <2>1, <2>2, <4>1, <4>2, ContextsOf DEF Maps, OwnSpan
      <4>4. QED
        BY <2>1, <2>2, <4>2, <4>3, ContextsOf DEF Nests, Here
    <3>2. CallSpanEnds(t)'
      <4>1. <<t, "call">> \notin open
        BY <2>1 DEF SpansNest, CallSpanEnds
      <4>2. <<t, "call">> \in open' => s = <<t, "call">>
        BY <2>2, <4>1
      <4>3. QED
        BY <2>2, <2>3, <4>2 DEF CallSpanEnds, None
    <3>3. QED
      BY <3>1, <3>2 DEF Fine, Left
  <2>5. ASSUME NEW u \in Tasks, u # t PROVE Fine(u)'
    <3>1. (<<u, "call">> \in open' => <<u, "call">> \in open)
          /\ (Left(u) \notin open' => Left(u) \notin open)
      BY <2>2, <2>5 DEF Left
    <3>2. current'[<<u, "task">>] = current[<<u, "task">>]
          /\ current'[<<u, "worker">>] = current[<<u, "worker">>]
      BY <1>0, <2>2, <2>5, ContextsOf DEF Maps, Here
    <3>3. QED
      BY <2>1, <2>2, <2>5, <3>1, <3>2, OthersFine
  <2>6. QED
    BY <2>4, <2>5, AllFine
<1>8. ASSUME NEW t \in Tasks, CallGoes(t) \/ CallGoesAgain(t) PROVE SpansNest'
  <2>1. UNCHANGED <<phase, span, away, current, open>>
    BY <1>8 DEF CallGoes, CallGoesAgain, contexts
  <2>2. /\ call[t] # NoCall /\ call'[t] # NoCall /\ call'[t].span = call[t].span
        /\ \A u \in Tasks : u # t => call'[u] = call[u]
    BY <1>0, <1>8, CallSteps
  <2>3. ASSUME NEW u \in Tasks PROVE OwnSpan(u)' = OwnSpan(u)
    BY <2>1, <2>2 DEF OwnSpan
  <2>4. QED
    BY <2>1, <2>2, <2>3 DEF SpansNest, Nests, CallSpanEnds, Left
<1>9. ASSUME NEW t \in Tasks, NEW how, NEW logs, CallEnds(t, how, logs) PROVE SpansNest'
  <2>1. /\ call[t] # NoCall /\ call' = [call EXCEPT ![t] = NoCall]
        /\ open' = open \ {call[t].span}
        /\ current' = IF call[t].span = None THEN current
                      ELSE [current EXCEPT ![Here(t)] = call[t].beneath]
        /\ UNCHANGED <<phase, span, away>>
    BY <1>9 DEF CallEnds, InCall, SpanToEnd, Beneath
  <2>2. /\ call[t].span \in {None, <<t, "call">>} /\ (away[t] \/ phase[t] = "app")
        /\ Left(t) \notin open => call[t].beneath = span[t]
    BY <2>1 DEF PlacesInv
  <2>3. /\ call'[t] = NoCall /\ \A u \in Tasks : u # t => call'[u] = call[u]
    BY <1>0, <2>1 DEF Maps
  <2>4. \A u \in Tasks : Left(u) \notin open' => Left(u) \notin open
    BY <2>1, <2>2 DEF Left, None
  <2>5. Fine(t)'
    <3>1. <<t, "call">> \notin open'
      BY <2>1, <2>2 DEF SpansNest, CallSpanEnds
    <3>2. ASSUME Left(t) \notin open' PROVE Nests(t)'
      <4>1. Nests(t) /\ call[t].beneath = span[t]
        BY <2>2, <2>4, <3>2 DEF SpansNest
      <4>2. CASE call[t].span = None
        BY <2>1, <2>2, <2>3, <4>1, <4>2 DEF Nests, OwnSpan
      <4>3. CASE call[t].span # None
        <5>1. current'[Here(t)] = span[t] /\ \A c \in Contexts : c # Here(t) => current'[c] = current[c]
          BY <1>0, <2>1, <4>1, <4>3, ContextsOf DEF Maps
        <5>2. QED
          BY <2>1, <2>2, <2>3, <4>1, <5>1, ContextsOf DEF Nests, OwnSpan, Here
      <4>4. QED
        BY <4>2, <4>3
    <3>3. QED
      BY <3>1, <3>2 DEF Fine, CallSpanEnds, Left
  <2>6. ASSUME NEW u \in Tasks, u # t PROVE Fine(u)'
    <3>1. current'[<<u, "task">>] = current[<<u, "task">>]
          /\ current'[<<u, "worker">>] = current[<<u, "worker">>]
      BY <1>0, <2>1, <2>6, ContextsOf DEF Here, Maps
    <3>2. QED
      BY <2>1, <2>3, <2>4, <2>6, <3>1, OthersFine
  <2>7. QED
    BY <2>5, <2>6, AllFine
<1>10. CASE UNCHANGED vars
  BY <1>10 DEF vars, contexts, clients, SpansNest, Nests, OwnSpan, CallSpanEnds
<1>11. ASSUME NEW t \in Tasks, NoText(t) PROVE SpansNest'
  <2>1. /\ phase[t] = "idle" /\ phase' = [phase EXCEPT ![t] = "gone"]
        /\ UNCHANGED <<away, span, call, current, open>> /\ span[t] = None /\ call[t] = NoCall
        /\ ~away[t]
    BY <1>11 DEF NoText, At, contexts, clients, PlacesInv
  <2>2. Fine(t)'
    BY <1>0, <2>1 DEF SpansNest, Fine, Nests, OwnSpan, CallSpanEnds, Maps
  <2>3. ASSUME NEW u \in Tasks, u # t PROVE Fine(u)'
    BY <1>0, <2>1, <2>3, OthersFine DEF Maps
  <2>4. QED
    BY <2>2, <2>3, AllFine
<1>12. QED
  BY <1>1, <1>2, <1>3, <1>4, <1>5, <1>6, <1>7, <1>8, <1>9, <1>10, <1>11 DEF Next

-----------------------------------------------------------------------------
(* The calls and their entries.                                             *)

LEMMA CalledNext ==
  TypeOK /\ IsFiniteSet(InACall) /\ CalledOnce /\ PlacesInv /\ [Next]_vars
    => IsFiniteSet(InACall)' /\ CalledOnce'
<1> SUFFICES ASSUME TypeOK, IsFiniteSet(InACall), CalledOnce, PlacesInv, [Next]_vars
             PROVE  IsFiniteSet(InACall)' /\ CalledOnce'
  OBVIOUS
<1> DEFINE N == Cardinality(InACall)
           Counted == calls = told + unlogged + refused + N
<1>0. Maps /\ calls \in Int /\ told \in Int /\ unlogged \in Int /\ refused \in Int
  <2>1. calls \in 0..MaxCalls /\ told \in Nat /\ unlogged \in Nat /\ refused \in Nat
    BY DEF TypeOK
  <2>2. QED
    BY <2>1, TypedMaps, RequestBounds
<1>1. N \in Nat /\ Counted /\ \A t \in Tasks : InCall(t, "again") => ~call[t].own
  BY FS_CardinalityType DEF CalledOnce, InACall
<1>2. Counted' /\ (\A t \in Tasks : InCall(t, "again")' => ~call'[t].own) => CalledOnce'
  BY DEF CalledOnce, InACall
<1> HIDE DEF N
<1>3. ASSUME UNCHANGED <<call, calls, told, unlogged, refused>>
      PROVE  IsFiniteSet(InACall)' /\ CalledOnce'
  <2>1. InACall' = InACall
    BY <1>3 DEF InACall
  <2>2. N' = N
    BY <2>1 DEF N
  <2>3. QED
    BY <1>1, <1>2, <1>3, <2>1, <2>2 DEF InCall
<1>4. ASSUME NEW t \in Tasks, NEW kind \in Kinds, NEW shared, NEW own,
             CallBegins(t, kind, shared, own)
      PROVE  IsFiniteSet(InACall)' /\ CalledOnce'
  <2>1. call[t] = NoCall /\ calls' = calls + 1 /\ UNCHANGED <<told, unlogged, refused>>
    BY <1>4 DEF CallBegins, Works, entries
  <2>2. /\ call'[t] # NoCall /\ call'[t].stage # "again"
        /\ \A u \in Tasks : u # t => call'[u] = call[u]
    BY <1>0, <1>4, NewCall
  <2>3. InACall' = InACall \cup {t} /\ t \notin InACall
    BY <2>1, <2>2 DEF InACall
  <2>4. IsFiniteSet(InACall)' /\ N' = N + 1
    BY <2>3, FS_AddElement DEF N
  <2>5. Counted'
    BY <1>0, <1>1, <2>1, <2>4
  <2>6. \A u \in Tasks : InCall(u, "again")' => ~call'[u].own
    BY <1>1, <2>2 DEF InCall
  <2>7. QED
    BY <1>2, <2>4, <2>5, <2>6
<1>5. ASSUME NEW t \in Tasks, CallGoes(t) \/ CallGoesAgain(t)
      PROVE  IsFiniteSet(InACall)' /\ CalledOnce'
  <2>1. UNCHANGED <<calls, told, unlogged, refused>>
    BY <1>5 DEF CallGoes, CallGoesAgain, entries
  <2>2. /\ call[t] # NoCall /\ call'[t] # NoCall /\ call'[t].own = call[t].own
        /\ \A u \in Tasks : u # t => call'[u] = call[u]
    BY <1>0, <1>5, CallSteps
  <2>3. InACall' = InACall
    BY <2>2 DEF InACall
  <2>4. N' = N
    BY <2>3 DEF N
  <2>5. InCall(t, "again")' => ~call'[t].own
    <3>1. CASE CallGoes(t)
      <4>1. call' = [call EXCEPT ![t].stage = "sent", ![t].id = HeaderOf(t)] /\ call[t] # NoCall
        BY <3>1 DEF CallGoes, Goes, InCall
      <4>2. call[t] \in CallRecord
        BY <1>0, <4>1 DEF Maps
      <4>3. call'[t].stage = "sent"
        BY <1>0, <4>1, <4>2 DEF Maps, CallRecord
      <4>4. QED
        BY <4>3 DEF InCall
    <3>2. CASE CallGoesAgain(t)
      BY <2>2, <3>2 DEF CallGoesAgain, RunsAgain
    <3>3. QED
      BY <1>5, <3>1, <3>2
  <2>6. \A u \in Tasks : InCall(u, "again")' => ~call'[u].own
    BY <1>1, <2>2, <2>5 DEF InCall
  <2>7. QED
    BY <1>1, <1>2, <2>1, <2>3, <2>4, <2>6
<1>6. ASSUME NEW t \in Tasks, NEW how, NEW logs, CallEnds(t, how, logs)
      PROVE  IsFiniteSet(InACall)' /\ CalledOnce'
  <2>1. /\ call[t] # NoCall /\ call' = [call EXCEPT ![t] = NoCall] /\ UNCHANGED calls
        /\ told' = told + (IF logs THEN EntriesFor(call[t].kind, how) ELSE 0)
        /\ unlogged' = unlogged + (IF logs THEN 0 ELSE EntriesFor(call[t].kind, how))
        /\ refused' = refused + (IF call[t].kind = "produce" /\ how = "raises" THEN 1 ELSE 0)
    BY <1>6 DEF CallEnds, InCall
  <2>2. call'[t] = NoCall /\ \A u \in Tasks : u # t => call'[u] = call[u]
    BY <1>0, <2>1 DEF Maps
  <2>3. InACall' = InACall \ {t} /\ t \in InACall
    BY <2>1, <2>2 DEF InACall
  <2>4. IsFiniteSet(InACall)' /\ N' = N - 1
    BY <2>3, FS_RemoveElement DEF N
  <2>5. Counted'
    BY <1>0, <1>1, <2>1, <2>4 DEF EntriesFor
  <2>6. \A u \in Tasks : InCall(u, "again")' => ~call'[u].own
    BY <1>1, <2>2 DEF InCall
  <2>7. QED
    BY <1>2, <2>4, <2>5, <2>6
<1>7. ASSUME NEW t \in Tasks,
             \/ NoText(t) \/ \E s, bodyRead : Arrive(t, s, bodyRead)
             \/ AppStops(t) \/ (\E m : AppRaises(t, m)) \/ \E code : AppStarts(t, code)
             \/ RequestEnds(t) \/ GoesAway(t) \/ ComesBack(t) \/ AppLogs(t)
      PROVE  UNCHANGED <<call, calls, told, unlogged, refused>>
  BY <1>7 DEF Arrive, NoText, AppStops, AppRaises, AppStarts, RequestEnds, GoesAway, ComesBack,
              AppLogs, clients, entries
<1>8. CASE UNCHANGED vars
  BY <1>3, <1>8 DEF vars, clients, entries
<1>9. QED
  BY <1>3, <1>4, <1>5, <1>6, <1>7, <1>8 DEF Next

-----------------------------------------------------------------------------
(* The theorems.                                                            *)

LEMMA InvInit == Init => IInv
<1> SUFFICES ASSUME Init PROVE IInv
  OBVIOUS
<1>1. TypeOK
  BY InitTyped
<1>2. PlacesInv /\ AnswersInv
  BY DEF Init, PlacesInv, AnswersInv, Silence
<1>3. InACall = {}
  BY DEF Init, InACall
<1>4. CarryTheirRequest
  BY DEF Init, CarryTheirRequest
<1>5. IsFiniteSet(InACall) /\ Cardinality(InACall) = 0
  BY <1>3, FS_EmptySet
<1>6. CalledOnce
  BY <1>5 DEF Init, CalledOnce, InACall, InCall
<1>7. SpansNest
  BY ContextsOf DEF Init, SpansNest, Nests, OwnSpan, CallSpanEnds
<1>8. QED
  BY <1>1, <1>2, <1>4, <1>5, <1>6, <1>7 DEF IInv

LEMMA InvNext == IInv /\ [Next]_vars => IInv'
  BY TypeNext, PlacesNext, AnswersNext, CarryNext, CalledNext, SpansNext DEF IInv

LEMMA InvHolds == Spec => []IInv
  BY InvInit, InvNext, PTL DEF Spec

\* The status in a request's entry is the one its client got.
LEMMA StatusFollows == IInv => StatusIsSent
<1> SUFFICES ASSUME IInv, NEW t \in Tasks, phase[t] = "ending", wire[t] # <<>>,
                    t \notin unsent, error[t] # "silent"
             PROVE  StatusOf(t) = wire[t][1]
  BY DEF StatusIsSent
<1>1. error[t] \in {"none", "silent", "told"} /\ wire[t] # Silence
  BY DEF IInv, TypeOK, Silence
<1>2. \A c : Answer(c)[1] = c /\ AnswerAnd500(c)[1] = c
  BY DEF Answer, AnswerAnd500
<1>3. CASE error[t] = "none"
  BY <1>1, <1>2, <1>3 DEF IInv, AnswersInv, StatusOf
<1>4. CASE error[t] = "told"
  BY <1>1, <1>2, <1>4 DEF IInv, AnswersInv, StatusOf
<1>5. QED
  BY <1>1, <1>3, <1>4

LEMMA AnswerFollows == IInv => OneAnswer
<1> SUFFICES ASSUME IInv, NEW t \in Tasks
             PROVE  /\ Len(wire[t]) > 1 => error[t] # "none" /\ asked[t] # NoStatus
                                             /\ wire[t] = <<asked[t], 500>>
                    /\ phase[t] = "ending" /\ error[t] # "none" /\ t \notin unsent
                         => Last(wire[t]) = 500
  BY DEF OneAnswer
<1>1. /\ error[t] = "none" => wire[t] \in {Silence, Answer(asked[t])}
      /\ error[t] # "none" /\ t \notin unsent =>
           wire[t] = IF asked[t] = NoStatus THEN Answer(500) ELSE AnswerAnd500(asked[t])
      /\ error[t] # "none" /\ t \in unsent => AtMostOne(wire[t])
  BY DEF IInv, AnswersInv
<1>2. \A c : AtMostOne(Answer(c)) /\ AtMostOne(Silence)
  BY OneMore
<1>3. wire[t] \in Seq(Statuses)
  BY DEF IInv, TypeOK
<1>4. AtMostOne(wire[t]) => ~(Len(wire[t]) > 1)
  BY <1>3 DEF AtMostOne
<1>5. \A c : Last(Answer(c)) = c /\ Last(AnswerAnd500(c)) = 500
  BY DEF Answer, AnswerAnd500, Last
<1>6. QED
  BY <1>1, <1>2, <1>4, <1>5 DEF AnswerAnd500

\* The access entry has the status that was sent.
THEOREM StatusIsTrue == Spec => []StatusIsSent
  BY StatusFollows, InvHolds, PTL

\* No second answer, but for the 500 after an answer that had begun.
THEOREM AnsweredOnce == Spec => []OneAnswer
  BY AnswerFollows, InvHolds, PTL

\* What a request logs and its calls carry has the session id it came with, but
\* for HTTP calls whose dict of headers another request may write its id into.
THEOREM IdsAreCarried == Spec => []CarryTheirRequest
<1>1. IInv => CarryTheirRequest
  BY DEF IInv
<1>2. QED
  BY <1>1, InvHolds, PTL

\* Each call makes one log call as it ends, however it ends, but a message that is
\* not taken, which makes none; a log call that raises leaves no entry.  No method
\* runs twice with the caller's metadata.
THEOREM CallsAreLogged == Spec => []CalledOnce
<1>1. IInv => CalledOnce
  BY DEF IInv
<1>2. QED
  BY <1>1, InvHolds, PTL

\* Contexts have the span of what they are in, but in requests whose calls lost the
\* manager of a span; the spans that have their manager end with their calls.
THEOREM SpansAreNested == Spec => []SpansNest
<1>1. IInv => SpansNest
  BY DEF IInv
<1>2. QED
  BY <1>1, InvHolds, PTL
=============================================================================
