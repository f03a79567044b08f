-------------------------- MODULE RouteGuide_proofs --------------------------
(***************************************************************************)
(* The route guide is made of one client call and one server call, and of  *)
(* nothing else: whatever program, database and requests, what a behaviour *)
(* does to the state of each is a behaviour of ClientCall and of           *)
(* ServerCall.  From the first follows that no callback outlives the       *)
(* function that made it, and from what is proved of both that the answers *)
(* which the programs are given are right.                                 *)
(***************************************************************************)
EXTENDS RouteGuide, SequenceTheorems, FiniteSetTheorems, WellFoundedInduction, TLAPS

LEMMA SameClient ==
  ASSUME UNCHANGED client
  PROVE  UNCHANGED Client!vars
BY DEF client, Client!vars, Client!call, Client!requests, Client!network, Client!reading,
   Client!loop

LEMMA SameServer ==
  ASSUME UNCHANGED server
  PROVE  UNCHANGED Server!vars
BY DEF server, Server!vars, Server!answer, Server!client

\* The programs and the connection, seen from the client.
LEMMA ProgramSteps ==
  ASSUME WriteNext \/ CloseWriting \/ Read \/ ShutdownByCallback \/ ShutdownByFunction
         \/ CallbackReturns \/ Run \/ CallBack \/ DropCopy
  PROVE  Client!Next /\ UNCHANGED <<returned, server>>
<1>1. CASE WriteNext \/ CloseWriting
  BY <1>1 DEF WriteNext, CloseWriting, OnClient, content, Client!Next, Client!Sync
<1>2. CASE Read
  BY <1>2 DEF Read, OnClient, content, Client!Next, Client!Sync
<1>3. CASE ShutdownByCallback \/ ShutdownByFunction
  BY <1>3 DEF ShutdownByCallback, ShutdownByFunction, OnClient, content, Client!Next
<1>4. CASE CallbackReturns \/ Run \/ CallBack
  BY <1>4 DEF CallbackReturns, Run, CallBack, OnClient, content, Client!Next
<1>5. CASE DropCopy
  BY <1>5 DEF DropCopy, OnClient, content, Client!Next
<1> QED BY <1>1, <1>2, <1>3, <1>4, <1>5

LEMMA ConnectionSteps ==
  ASSUME DeliverRequest \/ DeliverEnd \/ DeliverReply \/ Break \/ ClientLearns \/ ServerLearns
  PROVE  /\ Client!Next \/ UNCHANGED client
         /\ Server!Next \/ UNCHANGED server
         /\ UNCHANGED returned
<1>1. CASE DeliverRequest \/ DeliverEnd \/ ServerLearns
  BY <1>1 DEF DeliverRequest, DeliverEnd, ServerLearns, content, Server!Next, Server!ClientDone
<1>2. CASE DeliverReply \/ ClientLearns
  BY <1>2 DEF DeliverReply, ClientLearns, content, Client!Next
<1>3. CASE Break
  BY <1>3 DEF Break, content
<1> QED BY <1>1, <1>2, <1>3

LEMMA ServerSteps ==
  ASSUME ServerThread \/ ReaderThread \/ UserThread
  PROVE  /\ Server!Next \/ UNCHANGED server
         /\ UNCHANGED <<returned, client>>
<1>1. "handler" \in Server!Holders /\ "reader" \in Server!Holders /\ "t" \in Server!Holders
  BY DEF Server!Holders
<1>2. CASE Entry \/ HandlerReturns
  BY <1>2 DEF Entry, HandlerReturns, OnServer, content, Server!Next, Server!CallMethod
<1>3. CASE ReplyFeature \/ ListFeatures
  BY <1>1, <1>3 DEF ReplyFeature, ListFeatures, OnServer, content, Server!Next, Server!User
<1>4. CASE OnMsgStr \/ ReaderEnds \/ OnPoint \/ OnNote
  BY <1>4 DEF OnMsgStr, ReaderEnds, OnPoint, OnNote, OnServer, content, Server!Next, Server!Reader
<1>5. CASE EchoNote \/ OnEnd
  BY <1>1, <1>5 DEF EchoNote, OnEnd, OnServer, content, Server!Next, Server!User, Server!Reader
<1>6. CASE ListNext \/ ReplySummary
  BY <1>1, <1>6 DEF ListNext, ReplySummary, content, Server!Next, Server!User
<1>7. CASE ThreadEnds
  BY <1>7 DEF ThreadEnds, OnServer, content, Server!Next
<1> QED BY <1>2, <1>3, <1>4, <1>5, <1>6, <1>7 DEF ServerThread, ReaderThread, UserThread

LEMMA Parts ==
  ASSUME [Next]_vars
  PROVE  /\ [Client!Next]_(Client!vars)
         /\ [Server!Next]_(Server!vars)
<1>1. CASE WriteNext \/ CloseWriting \/ Read \/ ShutdownByCallback \/ ShutdownByFunction
           \/ CallbackReturns \/ Run \/ CallBack \/ DropCopy
  BY <1>1, ProgramSteps, SameServer
<1>2. CASE Return
  BY <1>2, SameClient, SameServer DEF Return
<1>3. CASE DeliverRequest \/ DeliverEnd \/ DeliverReply \/ Break \/ ClientLearns \/ ServerLearns
  BY <1>3, ConnectionSteps, SameClient, SameServer
<1>4. CASE ServerThread \/ ReaderThread \/ UserThread
  BY <1>4, ServerSteps, SameClient, SameServer
<1>5. CASE UNCHANGED vars
  BY <1>5, SameClient, SameServer DEF vars
<1> QED BY <1>1, <1>2, <1>3, <1>4, <1>5 DEF Next

\* A behaviour of the route guide is one of ClientCall and one of ServerCall: the
\* programs of the examples use both as their modules allow, and whatever is proved
\* of the two holds in it.
THEOREM Composition ==
  Spec => /\ Client!Init /\ [][Client!Next]_(Client!vars)
          /\ Server!Init /\ [][Server!Next]_(Server!vars)
<1>1. Init => Client!Init /\ Server!Init
  BY DEF Init
<1>2. [Next]_vars => [Client!Next]_(Client!vars) /\ [Server!Next]_(Server!vars)
  BY Parts
<1> QED BY <1>1, <1>2, PTL DEF Spec
-----------------------------------------------------------------------------
(***************************************************************************)
(* Callbacks run within Run, and a function that has returned is past it.  *)
(***************************************************************************)
InRun ==
  /\ running \subseteq {"run"} /\ running \cap ran = {}
  /\ busy \in running \cup {"nobody"}
  /\ (busy = "nobody") = (pc # "callback")

Over == pc = "done" \/ ran = {"run"}

Inv == InRun /\ (returned => Over)

\* What a synchronous call does, and the events of an asynchronous one.
LEMMA ReadingKeeps ==
  ASSUME InRun, Client!Sync
  PROVE  InRun' /\ (Over => Over')
<1>1. pc # "callback" /\ pc # "done" /\ pc' # "callback" /\ UNCHANGED <<busy, running, ran>>
  BY DEF Client!Sync, Client!SyncReturns, Client!Close, Client!ReadOne, Client!ParseFromString,
     Client!SetErrorStatus, Client!RecvStatus, Client!ReadEach, Client!loop
<1> QED BY <1>1 DEF InRun, Over

LEMMA EventKeeps ==
  ASSUME InRun, NEW r \in {"run"}, Client!Event(r)
  PROVE  InRun' /\ (Over => Over')
<1>1. /\ r \in running /\ busy = "nobody" /\ pc # "done" /\ UNCHANGED <<running, ran>>
  BY DEF Client!Event, Client!Respond, Client!OnClose, Client!OnMsg, Client!OnEnd,
     Client!Dispatch, Client!loop
<1>2. \/ pc' = "callback" /\ busy' = r
      \/ pc' # "callback" /\ busy' = busy
  <2>1. CASE Client!Respond(r) \/ Client!OnEnd(r)
    BY <2>1 DEF Client!Respond, Client!OnEnd, Client!CallStatus, Client!Call
  <2>2. CASE Client!OnClose(r)
    BY <2>2 DEF Client!OnClose, Client!Call
  <2>3. CASE Client!OnMsg(r)
    <3>1. pc # "callback"
      BY <1>1 DEF InRun
    <3> QED BY <2>3, <3>1 DEF Client!OnMsg, Client!Call
  <2> QED BY <2>1, <2>2, <2>3 DEF Client!Event
<1>3. r = "run" /\ r # "nobody"
  OBVIOUS
<1>4. InRun'
  BY <1>1, <1>2, <1>3 DEF InRun
<1>5. Over => Over'
  BY <1>1 DEF Over
<1> QED BY <1>4, <1>5

LEMMA ClientKeeps ==
  ASSUME InRun, Client!Next
  PROVE  InRun' /\ (Over => Over')
<1>1. ASSUME NEW r \in {"run"}, Client!CallbackReturns(r)
      PROVE  InRun' /\ (Over => Over')
  BY <1>1 DEF Client!CallbackReturns, Client!loop, InRun, Over
<1>2. ASSUME NEW r \in {"run"}, Client!Run(r)
      PROVE  InRun' /\ (Over => Over')
  BY <1>2 DEF Client!Run, Client!reading, InRun, Over
<1>3. ASSUME NEW r \in {"run"}, Client!RunReturns(r)
      PROVE  InRun' /\ (Over => Over')
  <2>1. /\ busy = "nobody" /\ running' = {} /\ ran' = ran \cup {"run"}
        /\ UNCHANGED <<pc, busy>>
    BY <1>3 DEF Client!RunReturns, Client!reading, InRun
  <2> QED BY <2>1 DEF InRun, Over
<1>4. ASSUME \/ Client!Shutdown \/ Client!Write \/ Client!CloseWriting
             \/ \E who \in {"reader", "writer"} : Client!Drop(who)
             \/ \E m \in {"good", "bad"} : Client!ServerSends(m)
             \/ Client!ServerFinishes \/ Client!Breaks
      PROVE  InRun' /\ (Over => Over')
  <2>1. UNCHANGED <<pc, busy, running, ran>>
    BY <1>4 DEF Client!Shutdown, Client!Write, Client!CloseWriting, Client!Drop,
       Client!ServerSends, Client!ServerFinishes, Client!Breaks, Client!reading, Client!loop
  <2> QED BY <2>1 DEF InRun, Over
<1> QED BY <1>1, <1>2, <1>3, <1>4, ReadingKeeps, EventKeeps DEF Client!Next

LEMMA InitInv == ASSUME Init PROVE Inv
<1>1. /\ running = {} /\ ran = {} /\ busy = "nobody" /\ returned = FALSE /\ pc # "callback"
  BY DEF Init, Client!Init
<1> QED BY <1>1 DEF Inv, InRun

LEMMA NextInv == ASSUME Inv, [Next]_vars PROVE Inv'
<1>1. CASE Client!Next /\ UNCHANGED returned
  BY <1>1, ClientKeeps DEF Inv
<1>2. CASE UNCHANGED <<returned, client>>
  BY <1>2 DEF Inv, InRun, Over, client
<1>3. CASE Return
  BY <1>3 DEF Return, Ready, Inv, InRun, Over, client
<1>4. CASE DeliverRequest \/ DeliverEnd \/ DeliverReply \/ Break \/ ClientLearns \/ ServerLearns
  BY <1>1, <1>2, <1>4, ConnectionSteps
<1>5. CASE UNCHANGED vars
  BY <1>2, <1>5 DEF vars, content
<1> QED BY <1>1, <1>2, <1>3, <1>4, <1>5, ProgramSteps, ServerSteps DEF Next

\* No callback runs when the function that made the call has returned, in any
\* program, whatever the connection does: the references to locals that the callbacks
\* of the examples hold never dangle.
THEOREM LocalsOutliveCallbacks == Spec => []NoDangling
<1>1. Inv => NoDangling
  BY DEF Inv, InRun, Over, NoDangling
<1> QED BY <1>1, InitInv, NextInv, PTL DEF Spec

-----------------------------------------------------------------------------
(***************************************************************************)
(* Induction over the naturals, said of sets.                              *)
(***************************************************************************)
LEMMA Least ==
  ASSUME NEW T \in SUBSET Nat, T # {}
  PROVE  \E n \in T : \A m \in T : n <= m
<1>1. IsWellFoundedOn(OpToRel(<, Nat), Nat)
  BY NatLessThanWellFounded
<1>2. PICK n \in T : \A y \in T : ~ (<<y, n>> \in OpToRel(<, Nat))
  BY <1>1, WFMin
<1>3. \A y \in T : ~ (y < n)
  BY <1>2 DEF OpToRel
<1> QED BY <1>3

LEMMA NatInd ==
  ASSUME NEW S, 0 \in S, \A n \in Nat : n \in S => n + 1 \in S
  PROVE  Nat \subseteq S
<1> SUFFICES ASSUME NEW x \in Nat, x \notin S PROVE FALSE
  OBVIOUS
<1> DEFINE T == Nat \ S
<1>1. PICK n \in T : \A m \in T : n <= m
  BY Least
<1>2. n # 0 /\ n - 1 \in Nat /\ n - 1 \in S
  BY <1>1
<1> QED BY <1>1, <1>2

\* g holds the first m values of a recursion.
Upto(V, base, step, m, g) ==
  g \in [0 .. m -> V] /\ g[0] = base /\ \A i \in 1 .. m : g[i] = step[i, g[i - 1]]

LEMMA Longer ==
  ASSUME NEW V, NEW base \in V, NEW n \in Nat, NEW step \in [(1 .. n) \X V -> V],
         NEW m \in Nat, m + 1 <= n, NEW g, Upto(V, base, step, m, g)
  PROVE  \E h : Upto(V, base, step, m + 1, h)
<1>1. g \in [0 .. m -> V] /\ g[0] = base /\ \A i \in 1 .. m : g[i] = step[i, g[i - 1]]
  BY DEF Upto
<1>2. m + 1 \in 1 .. n /\ m \in 0 .. m
  OBVIOUS
<1>2a. g[m] \in V
  BY <1>1, <1>2
<1> DEFINE last == step[m + 1, g[m]]
<1>3. last \in V
  <2>1. <<m + 1, g[m]>> \in (1 .. n) \X V
    BY <1>2, <1>2a
  <2> QED BY <2>1
<1> HIDE DEF last
<1> DEFINE more == [k \in 0 .. m + 1 |-> IF k = m + 1 THEN last ELSE g[k]]
<1>4. \A k \in 0 .. m + 1 : k # m + 1 => g[k] \in V
  <2>1. \A k \in 0 .. m + 1 : k # m + 1 => k \in 0 .. m
    OBVIOUS
  <2> QED BY <1>1, <2>1
<1>5. more \in [0 .. m + 1 -> V]
  BY <1>3, <1>4
<1>6. more[m + 1] = last /\ \A k \in 0 .. m : more[k] = g[k]
  OBVIOUS
<1> HIDE DEF more
<1>7. ASSUME NEW i \in 1 .. m + 1 PROVE more[i] = step[i, more[i - 1]]
  <2>1. CASE i = m + 1
    <3>1. i - 1 = m /\ more[m] = g[m] /\ more[i] = last
      BY <1>2, <1>6, <2>1
    <3> QED BY <2>1, <3>1 DEF last
  <2>2. CASE i # m + 1
    <3>1. i \in 1 .. m /\ i \in 0 .. m /\ i - 1 \in 0 .. m
      BY <2>2
    <3> QED BY <1>1, <1>6, <3>1
  <2> QED BY <2>1, <2>2
<1>8. more[0] = base
  <2>1. 0 \in 0 .. m
    OBVIOUS
  <2> QED BY <1>1, <1>6, <2>1
<1> QED BY <1>5, <1>7, <1>8 DEF Upto

\* A function defined by recursion over the places of a sequence exists.
LEMMA RecursionExists ==
  ASSUME NEW V, NEW base \in V, NEW n \in Nat, NEW step \in [(1 .. n) \X V -> V]
  PROVE  \E g : Upto(V, base, step, n, g)
<1> DEFINE S == { m \in Nat : m <= n => \E g : Upto(V, base, step, m, g) }
<1>1. 0 \in S
  <2>1. Upto(V, base, step, 0, [k \in 0 .. 0 |-> base])
    BY DEF Upto
  <2> QED BY <2>1
<1>2. ASSUME NEW m \in Nat, m \in S PROVE m + 1 \in S
  <2> SUFFICES ASSUME m + 1 <= n PROVE \E g : Upto(V, base, step, m + 1, g)
    OBVIOUS
  <2>1. PICK g : Upto(V, base, step, m, g)
    <3>1. m <= n
      OBVIOUS
    <3> QED BY <1>2, <3>1
  <2> QED BY <2>1, Longer
<1> HIDE DEF S
<1>3. n \in S
  BY <1>1, <1>2, NatInd
<1> QED BY <1>3 DEF S

-----------------------------------------------------------------------------
(***************************************************************************)
(* What the functions of Expected that are defined by recursion are.       *)
(***************************************************************************)
LEMMA SeqFacts ==
  ASSUME NEW S, NEW s \in Seq(S)
  PROVE  Len(s) \in Nat /\ \A i \in 1 .. Len(s) : s[i] \in S
BY ElementOfSeq, LenProperties

LEMMA ChosenIs ==
  ASSUME NEW S, NEW seq \in Seq(S), NEW places
  PROVE  /\ Chosen(seq, places)[0] = << >>
         /\ \A i \in 1 .. Len(seq) :
              Chosen(seq, places)[i] = IF i \in places THEN Append(Chosen(seq, places)[i - 1], seq[i])
                                       ELSE Chosen(seq, places)[i - 1]
         /\ \A i \in 0 .. Len(seq) : Chosen(seq, places)[i] \in Seq(S)
<1> DEFINE n == Len(seq)
           Body(g) == [i \in 0 .. n |->
                         IF i = 0 THEN << >>
                         ELSE IF i \in places THEN Append(g[i - 1], seq[i]) ELSE g[i - 1]]
           V == Seq(S)
           step == [p \in (1 .. n) \X V |->
                      IF p[1] \in places THEN Append(p[2], seq[p[1]]) ELSE p[2]]
<1>1. n \in Nat /\ << >> \in V /\ \A i \in 1 .. n : seq[i] \in S
  BY EmptySeq, SeqFacts
<1>2. step \in [(1 .. n) \X V -> V]
  <2>1. \A i \in 1 .. n, t \in V : Append(t, seq[i]) \in V
    BY <1>1, AppendProperties
  <2> HIDE DEF V
  <2> QED BY <2>1
<1>3. PICK g : /\ g \in [0 .. n -> V] /\ g[0] = << >>
               /\ \A i \in 1 .. n : g[i] = step[i, g[i - 1]]
  <2> HIDE DEF n, V, step
  <2>1. \E g : Upto(V, << >>, step, n, g)
    BY <1>1, <1>2, RecursionExists
  <2> QED BY <2>1 DEF Upto
<1>4. ASSUME NEW i \in 1 .. n
      PROVE  g[i] = IF i \in places THEN Append(g[i - 1], seq[i]) ELSE g[i - 1]
  <2> HIDE DEF V
  <2>1. i - 1 \in 0 .. n
    BY <1>1
  <2>2. g[i - 1] \in V
    BY <1>3, <2>1
  <2>3. <<i, g[i - 1]>> \in (1 .. n) \X V
    BY <2>2
  <2> QED BY <1>3, <2>3
<1>5. g = Body(g)
  <2> HIDE DEF V
  <2>1. \A i \in 0 .. n : i = 0 \/ i \in 1 .. n
    BY <1>1
  <2>2. \A i \in 0 .. n : g[i] = IF i = 0 THEN << >>
                                ELSE IF i \in places THEN Append(g[i - 1], seq[i]) ELSE g[i - 1]
    BY <1>3, <1>4, <2>1
  <2> QED BY <1>3, <2>2
<1> DEFINE chosen == CHOOSE f : f = Body(f)
<1>6. chosen = Body(chosen)
  BY <1>5
<1>7. Chosen(seq, places) = chosen
  BY DEF Chosen
<1>8. chosen[0] = << >> /\ \A i \in 1 .. n :
        chosen[i] = IF i \in places THEN Append(chosen[i - 1], seq[i]) ELSE chosen[i - 1]
  <2> HIDE DEF chosen
  <2>1. 0 \in 0 .. n /\ \A i \in 1 .. n : i \in 0 .. n /\ i # 0
    BY <1>1
  <2> HIDE DEF n
  <2> QED BY <1>6, <2>1
<1> DEFINE T == { i \in Nat : i <= n => chosen[i] \in V }
<1> HIDE DEF chosen
<1>9. 0 \in T
  BY <1>1, <1>8
<1>10. ASSUME NEW i \in Nat, i \in T PROVE i + 1 \in T
  <2> SUFFICES ASSUME i + 1 <= n PROVE chosen[i + 1] \in V
    OBVIOUS
  <2>1. chosen[i] \in V /\ i + 1 \in 1 .. n
    BY <1>1, <1>10
  <2>2. chosen[i + 1] = IF i + 1 \in places THEN Append(chosen[i], seq[i + 1]) ELSE chosen[i]
    BY <1>8, <2>1
  <2> QED BY <1>1, <2>1, <2>2, AppendProperties
<1> HIDE DEF T
<1>11. Nat \subseteq T
  BY <1>9, <1>10, NatInd
<1> QED BY <1>1, <1>7, <1>8, <1>11 DEF T

LEMMA WayIs ==
  ASSUME NEW route \in Seq(Point)
  PROVE  /\ Way(route)[0] = 0
         /\ \A i \in 1 .. Len(route) :
              Way(route)[i] = IF i = 1 THEN 0
                              ELSE Way(route)[i - 1] + GetDistance(route[i - 1], route[i])
         /\ \A i \in 0 .. Len(route) : Way(route)[i] \in Int
<1> DEFINE n == Len(route)
           Body(g) == [i \in 0 .. n |->
                         IF i <= 1 THEN 0 ELSE g[i - 1] + GetDistance(route[i - 1], route[i])]
           step == [p \in (1 .. n) \X Int |->
                      IF p[1] <= 1 THEN 0 ELSE p[2] + GetDistance(route[p[1] - 1], route[p[1]])]
<1>1. n \in Nat /\ \A i \in 1 .. n : route[i] \in Point
  BY SeqFacts
<1>1a. \A i \in 1 .. n : i > 1 => GetDistance(route[i - 1], route[i]) \in Int
  <2>1. ASSUME NEW p \in Point, NEW q \in Point PROVE GetDistance(p, q) \in Int
    BY DEF Point, GetDistance, Abs
  <2>2. ASSUME NEW i \in 1 .. n, i > 1 PROVE i - 1 \in 1 .. n
    BY <1>1, <2>2
  <2> QED BY <1>1, <2>1, <2>2
<1>2. step \in [(1 .. n) \X Int -> Int]
  <2>1. \A i \in 1 .. n, t \in Int :
          i > 1 => t + GetDistance(route[i - 1], route[i]) \in Int
    BY <1>1a
  <2> HIDE DEF n
  <2>2. \A p \in (1 .. n) \X Int : step[p] \in Int
    <3> SUFFICES ASSUME NEW i \in 1 .. n, NEW t \in Int
                 PROVE  (IF i <= 1 THEN 0 ELSE t + GetDistance(route[i - 1], route[i])) \in Int
      OBVIOUS
    <3>1. i <= 1 \/ i > 1
      BY <1>1
    <3> QED BY <2>1, <3>1
  <2> QED BY <2>2
<1>3. PICK g : /\ g \in [0 .. n -> Int] /\ g[0] = 0
               /\ \A i \in 1 .. n : g[i] = step[i, g[i - 1]]
  <2> HIDE DEF n, step
  <2>1. \E g : Upto(Int, 0, step, n, g)
    <3> DEFINE V == Int
    <3>1. 0 \in V /\ n \in Nat /\ step \in [(1 .. n) \X V -> V]
      BY <1>1, <1>2
    <3> HIDE DEF V
    <3>2. \E g : Upto(V, 0, step, n, g)
      BY <3>1, RecursionExists
    <3> QED BY <3>2 DEF V
  <2> QED BY <2>1 DEF Upto
<1>4. ASSUME NEW i \in 1 .. n
      PROVE  g[i] = IF i <= 1 THEN 0 ELSE g[i - 1] + GetDistance(route[i - 1], route[i])
  <2>1. i - 1 \in 0 .. n
    BY <1>1
  <2>2. g[i - 1] \in Int
    BY <1>3, <2>1
  <2>3. <<i, g[i - 1]>> \in (1 .. n) \X Int
    BY <2>2
  <2> QED BY <1>3, <2>3
<1>5. g = Body(g)
  <2>1. \A i \in 0 .. n : (i = 0 /\ i <= 1) \/ i \in 1 .. n
    BY <1>1
  <2>2. ASSUME NEW i \in 0 .. n
        PROVE  g[i] = IF i <= 1 THEN 0 ELSE g[i - 1] + GetDistance(route[i - 1], route[i])
    <3>1. CASE i = 0 /\ i <= 1
      BY <1>3, <3>1
    <3>2. CASE i \in 1 .. n
      BY <1>4, <3>2
    <3> QED BY <2>1, <3>1, <3>2
  <2> QED BY <1>3, <2>2
<1> DEFINE way == CHOOSE f : f = Body(f)
<1>6. way = Body(way)
  BY <1>5
<1>7. Way(route) = way
  BY DEF Way
<1>8. way[0] = 0 /\ \A i \in 1 .. n :
        way[i] = IF i = 1 THEN 0 ELSE way[i - 1] + GetDistance(route[i - 1], route[i])
  <2> HIDE DEF way
  <2>1. 0 \in 0 .. n /\ 0 <= 1
    BY <1>1
  <2>2. \A i \in 1 .. n : i \in 0 .. n /\ (i <= 1 <=> i = 1)
    BY <1>1
  <2> HIDE DEF n
  <2>3. way[0] = 0
    BY <1>6, <2>1
  <2>4. ASSUME NEW i \in 1 .. n
        PROVE  way[i] = IF i = 1 THEN 0 ELSE way[i - 1] + GetDistance(route[i - 1], route[i])
    <3>1. way[i] = IF i <= 1 THEN 0 ELSE way[i - 1] + GetDistance(route[i - 1], route[i])
      BY <1>6, <2>2
    <3> QED BY <2>2, <3>1
  <2> QED BY <2>3, <2>4
<1> DEFINE T == { i \in Nat : i <= n => way[i] \in Int }
<1> HIDE DEF way
<1>9. 0 \in T
  BY <1>1, <1>8
<1>10. ASSUME NEW i \in Nat, i \in T PROVE i + 1 \in T
  <2> SUFFICES ASSUME i + 1 <= n PROVE way[i + 1] \in Int
    OBVIOUS
  <2>1. way[i] \in Int /\ i + 1 \in 1 .. n /\ (i + 1) - 1 = i /\ (i + 1 = 1 \/ i + 1 > 1)
    BY <1>1, <1>10
  <2>2. i + 1 > 1 => GetDistance(route[i], route[i + 1]) \in Int
    BY <1>1a, <2>1
  <2>3. way[i + 1] = IF i + 1 = 1 THEN 0 ELSE way[i] + GetDistance(route[i], route[i + 1])
    BY <1>8, <2>1
  <2> QED BY <2>1, <2>2, <2>3
<1> HIDE DEF T
<1>11. Nat \subseteq T
  BY <1>9, <1>10, NatInd
<1> QED BY <1>1, <1>7, <1>8, <1>11 DEF T

Note == [message : STRING, location : Point]

LEMMA EchoesIs ==
  ASSUME NEW notes \in Seq(Note)
  PROVE  /\ Echoes(notes)[0] = << >>
         /\ \A i \in 1 .. Len(notes) :
              Echoes(notes)[i] = Echoes(notes)[i - 1] \o Chosen(notes, Before(notes, i))[i - 1]
         /\ \A i \in 0 .. Len(notes) : Echoes(notes)[i] \in Seq(Note)
<1> DEFINE n == Len(notes)
           V == Seq(Note)
           Body(g) == [i \in 0 .. n |->
                         IF i = 0 THEN << >>
                         ELSE g[i - 1] \o Chosen(notes, Before(notes, i))[i - 1]]
           step == [p \in (1 .. n) \X V |->
                      p[2] \o Chosen(notes, Before(notes, p[1]))[p[1] - 1]]
<1>1. n \in Nat /\ << >> \in V
  BY EmptySeq, SeqFacts
<1>1a. \A i \in 1 .. n : Chosen(notes, Before(notes, i))[i - 1] \in V
  <2>1. \A i \in 1 .. n : i - 1 \in 0 .. n
    BY <1>1
  <2> QED BY <2>1, ChosenIs
<1>1b. \A s, t \in V : s \o t \in V
  BY ConcatProperties
<1> HIDE DEF V
<1>2. step \in [(1 .. n) \X V -> V]
  BY <1>1a, <1>1b
<1>3. PICK g : /\ g \in [0 .. n -> V] /\ g[0] = << >>
               /\ \A i \in 1 .. n : g[i] = step[i, g[i - 1]]
  <2> HIDE DEF n, step
  <2>1. \E g : Upto(V, << >>, step, n, g)
    BY <1>1, <1>2, RecursionExists
  <2> QED BY <2>1 DEF Upto
<1>4. ASSUME NEW i \in 1 .. n
      PROVE  g[i] = g[i - 1] \o Chosen(notes, Before(notes, i))[i - 1]
  <2>1. i - 1 \in 0 .. n
    BY <1>1
  <2>2. g[i - 1] \in V
    BY <1>3, <2>1
  <2>3. <<i, g[i - 1]>> \in (1 .. n) \X V
    BY <2>2
  <2> QED BY <1>3, <2>3
<1>5. g = Body(g)
  <2>1. \A i \in 0 .. n : i = 0 \/ i \in 1 .. n
    BY <1>1
  <2>2. \A i \in 0 .. n : g[i] = IF i = 0 THEN << >>
                                ELSE g[i - 1] \o Chosen(notes, Before(notes, i))[i - 1]
    BY <1>3, <1>4, <2>1
  <2> QED BY <1>3, <2>2
<1> DEFINE echoes == CHOOSE f : f = Body(f)
<1>6. echoes = Body(echoes)
  BY <1>5
<1>7. Echoes(notes) = echoes
  BY DEF Echoes
<1>8. echoes[0] = << >> /\ \A i \in 1 .. n :
        echoes[i] = echoes[i - 1] \o Chosen(notes, Before(notes, i))[i - 1]
  <2> HIDE DEF echoes
  <2>1. 0 \in 0 .. n /\ \A i \in 1 .. n : i \in 0 .. n /\ i # 0
    BY <1>1
  <2> HIDE DEF n
  <2> QED BY <1>6, <2>1
<1> DEFINE T == { i \in Nat : i <= n => echoes[i] \in V }
<1> HIDE DEF echoes
<1>9. 0 \in T
  BY <1>1, <1>8
<1>10. ASSUME NEW i \in Nat, i \in T PROVE i + 1 \in T
  <2> SUFFICES ASSUME i + 1 <= n PROVE echoes[i + 1] \in V
    OBVIOUS
  <2>1. echoes[i] \in V /\ i + 1 \in 1 .. n /\ (i + 1) - 1 = i
    BY <1>1, <1>10
  <2>2. echoes[i + 1] = echoes[i] \o Chosen(notes, Before(notes, i + 1))[i]
    BY <1>8, <2>1
  <2>3. Chosen(notes, Before(notes, i + 1))[i] \in V
    BY <1>1a, <2>1
  <2> QED BY <1>1b, <2>1, <2>2, <2>3
<1> HIDE DEF T
<1>11. Nat \subseteq T
  BY <1>9, <1>10, NatInd
<1>12. \A i \in 0 .. n : echoes[i] \in V
  BY <1>1, <1>11 DEF T
<1> HIDE DEF n
<1>13. n = Len(notes)
  BY DEF n
<1> QED BY <1>7, <1>8, <1>12, <1>13 DEF V

\* The first n elements decide what is chosen of them.
LEMMA ChosenAgrees ==
  ASSUME NEW S, NEW s \in Seq(S), NEW t \in Seq(S), NEW P, NEW n \in Nat,
         n <= Len(s), n <= Len(t), \A i \in 1 .. n : s[i] = t[i]
  PROVE  Chosen(s, P)[n] = Chosen(t, P)[n]
<1>1. /\ Len(s) \in Nat /\ Len(t) \in Nat
      /\ Chosen(s, P)[0] = << >> /\ Chosen(t, P)[0] = << >>
      /\ \A i \in 1 .. Len(s) :
           Chosen(s, P)[i] = IF i \in P THEN Append(Chosen(s, P)[i - 1], s[i])
                             ELSE Chosen(s, P)[i - 1]
      /\ \A i \in 1 .. Len(t) :
           Chosen(t, P)[i] = IF i \in P THEN Append(Chosen(t, P)[i - 1], t[i])
                             ELSE Chosen(t, P)[i - 1]
  BY SeqFacts, ChosenIs
<1> DEFINE T == { i \in Nat : i <= n => Chosen(s, P)[i] = Chosen(t, P)[i] }
<1>2. 0 \in T
  BY <1>1
<1>3. ASSUME NEW i \in Nat, i \in T PROVE i + 1 \in T
  <2> SUFFICES ASSUME i + 1 <= n PROVE Chosen(s, P)[i + 1] = Chosen(t, P)[i + 1]
    OBVIOUS
  <2>1. /\ i + 1 \in 1 .. n /\ i + 1 \in 1 .. Len(s) /\ i + 1 \in 1 .. Len(t) /\ (i + 1) - 1 = i
        /\ Chosen(s, P)[i] = Chosen(t, P)[i]
    BY <1>1, <1>3
  <2>2. s[i + 1] = t[i + 1]
    BY <2>1
  <2> QED BY <1>1, <2>1, <2>2
<1> HIDE DEF T
<1>4. Nat \subseteq T
  BY <1>2, <1>3, NatInd
<1> QED BY <1>4 DEF T

LEMMA EchoesAgree ==
  ASSUME NEW s \in Seq(Note), NEW t \in Seq(Note), NEW n \in Nat,
         n <= Len(s), n <= Len(t), \A i \in 1 .. n : s[i] = t[i]
  PROVE  Echoes(s)[n] = Echoes(t)[n]
<1>1. /\ Len(s) \in Nat /\ Len(t) \in Nat
      /\ Echoes(s)[0] = << >> /\ Echoes(t)[0] = << >>
      /\ \A i \in 1 .. Len(s) :
           Echoes(s)[i] = Echoes(s)[i - 1] \o Chosen(s, Before(s, i))[i - 1]
      /\ \A i \in 1 .. Len(t) :
           Echoes(t)[i] = Echoes(t)[i - 1] \o Chosen(t, Before(t, i))[i - 1]
  BY SeqFacts, EchoesIs
<1>2. ASSUME NEW i \in 1 .. n
      PROVE  Chosen(s, Before(s, i))[i - 1] = Chosen(t, Before(t, i))[i - 1]
  <2>1. Before(s, i) = Before(t, i)
    BY DEF Before
  <2>2. /\ i - 1 \in Nat /\ i - 1 <= Len(s) /\ i - 1 <= Len(t)
        /\ \A k \in 1 .. i - 1 : s[k] = t[k]
    BY <1>1
  <2> DEFINE S == Note
             P == Before(s, i)
             m == i - 1
  <2>3. s \in Seq(S) /\ t \in Seq(S)
    OBVIOUS
  <2> HIDE DEF S, P, m
  <2>4. Chosen(s, P)[m] = Chosen(t, P)[m]
    <3>1. m \in Nat /\ m <= Len(s) /\ m <= Len(t) /\ \A k \in 1 .. m : s[k] = t[k]
      BY <2>2 DEF m
    <3> QED BY <2>3, <3>1, ChosenAgrees
  <2> QED BY <2>1, <2>4 DEF P, m
<1> DEFINE T == { i \in Nat : i <= n => Echoes(s)[i] = Echoes(t)[i] }
<1>3. 0 \in T
  BY <1>1
<1>4. ASSUME NEW i \in Nat, i \in T PROVE i + 1 \in T
  <2> SUFFICES ASSUME i + 1 <= n PROVE Echoes(s)[i + 1] = Echoes(t)[i + 1]
    OBVIOUS
  <2>1. /\ i + 1 \in 1 .. n /\ i + 1 \in 1 .. Len(s) /\ i + 1 \in 1 .. Len(t) /\ (i + 1) - 1 = i
        /\ Echoes(s)[i] = Echoes(t)[i]
    BY <1>1, <1>4
  <2>2. Chosen(s, Before(s, i + 1))[(i + 1) - 1] = Chosen(t, Before(t, i + 1))[(i + 1) - 1]
    BY <1>2, <2>1
  <2>3. /\ Echoes(s)[i + 1] = Echoes(s)[(i + 1) - 1] \o Chosen(s, Before(s, i + 1))[(i + 1) - 1]
        /\ Echoes(t)[i + 1] = Echoes(t)[(i + 1) - 1] \o Chosen(t, Before(t, i + 1))[(i + 1) - 1]
    BY <1>1, <2>1
  <2> QED BY <2>1, <2>2, <2>3
<1> HIDE DEF T
<1>5. Nat \subseteq T
  BY <1>3, <1>4, NatInd
<1> QED BY <1>5 DEF T

LEMMA WayAgrees ==
  ASSUME NEW s \in Seq(Point), NEW t \in Seq(Point), NEW n \in Nat,
         n <= Len(s), n <= Len(t), \A i \in 1 .. n : s[i] = t[i]
  PROVE  Way(s)[n] = Way(t)[n]
<1>1. /\ Len(s) \in Nat /\ Len(t) \in Nat
      /\ Way(s)[0] = 0 /\ Way(t)[0] = 0
      /\ \A i \in 1 .. Len(s) :
           Way(s)[i] = IF i = 1 THEN 0 ELSE Way(s)[i - 1] + GetDistance(s[i - 1], s[i])
      /\ \A i \in 1 .. Len(t) :
           Way(t)[i] = IF i = 1 THEN 0 ELSE Way(t)[i - 1] + GetDistance(t[i - 1], t[i])
  BY SeqFacts, WayIs
<1> DEFINE T == { i \in Nat : i <= n => Way(s)[i] = Way(t)[i] }
<1>2. 0 \in T
  BY <1>1
<1>3. ASSUME NEW i \in Nat, i \in T PROVE i + 1 \in T
  <2> SUFFICES ASSUME i + 1 <= n PROVE Way(s)[i + 1] = Way(t)[i + 1]
    OBVIOUS
  <2>1. /\ i + 1 \in 1 .. n /\ i + 1 \in 1 .. Len(s) /\ i + 1 \in 1 .. Len(t) /\ (i + 1) - 1 = i
        /\ Way(s)[i] = Way(t)[i] /\ (i + 1 # 1 => i \in 1 .. n)
    BY <1>1, <1>3
  <2>2. s[i + 1] = t[i + 1] /\ (i + 1 # 1 => s[i] = t[i])
    BY <2>1
  <2>3. /\ Way(s)[i + 1] = IF i + 1 = 1 THEN 0 ELSE Way(s)[i] + GetDistance(s[i], s[i + 1])
        /\ Way(t)[i + 1] = IF i + 1 = 1 THEN 0 ELSE Way(t)[i] + GetDistance(t[i], t[i + 1])
    BY <1>1, <2>1
  <2> QED BY <2>1, <2>2, <2>3
<1> HIDE DEF T
<1>4. Nat \subseteq T
  BY <1>2, <1>3, NatInd
<1> QED BY <1>4 DEF T

\* A sequence that begins with another.
Extends(t, s) == Len(s) <= Len(t) /\ \A i \in 1 .. Len(s) : t[i] = s[i]

LEMMA ExtendsFacts ==
  ASSUME NEW S, NEW s \in Seq(S)
  PROVE  /\ Extends(s, s) /\ Extends(s, << >>)
         /\ \A x \in S : Extends(Append(s, x), s)
         /\ \A r \in Seq(S) : Extends(s \o r, s)
         /\ \A r, t \in Seq(S) : Extends(r, s) /\ Extends(t, r) => Extends(t, s)
<1>1. Len(s) \in Nat /\ Extends(s, s) /\ Extends(s, << >>)
  BY LenProperties DEF Extends
<1>2. \A x \in S : Extends(Append(s, x), s)
  BY <1>1, AppendProperties DEF Extends
<1>3. \A r \in Seq(S) : Extends(s \o r, s)
  BY <1>1, ConcatProperties, LenProperties DEF Extends
<1>4. \A r, t \in Seq(S) : Extends(r, s) /\ Extends(t, r) => Extends(t, s)
  BY <1>1, LenProperties DEF Extends
<1> QED BY <1>1, <1>2, <1>3, <1>4

LEMMA ExtendsConcat ==
  ASSUME NEW S, NEW s \in Seq(S), NEW r \in Seq(S), NEW t \in Seq(S), Extends(t, r)
  PROVE  Extends(s \o t, s \o r)
<1>1. Len(s) \in Nat /\ Len(r) \in Nat /\ Len(t) \in Nat /\ Len(r) <= Len(t)
      /\ \A i \in 1 .. Len(r) : t[i] = r[i]
  BY LenProperties DEF Extends
<1>2. /\ Len(s \o t) = Len(s) + Len(t) /\ Len(s \o r) = Len(s) + Len(r)
      /\ \A i \in 1 .. Len(s) + Len(t) : (s \o t)[i] = IF i <= Len(s) THEN s[i] ELSE t[i - Len(s)]
      /\ \A i \in 1 .. Len(s) + Len(r) : (s \o r)[i] = IF i <= Len(s) THEN s[i] ELSE r[i - Len(s)]
  BY ConcatProperties
<1>3. ASSUME NEW i \in 1 .. Len(s) + Len(r) PROVE (s \o t)[i] = (s \o r)[i]
  <2>1. CASE i <= Len(s)
    BY <1>1, <1>2, <2>1
  <2>2. CASE ~ (i <= Len(s))
    <3>1. i - Len(s) \in 1 .. Len(r) /\ i \in 1 .. Len(s) + Len(t)
      BY <1>1, <2>2
    <3> QED BY <1>1, <1>2, <2>2, <3>1
  <2> QED BY <2>1, <2>2
<1> QED BY <1>1, <1>2, <1>3 DEF Extends

LEMMA ExtendsPrefix ==
  ASSUME NEW S, NEW s \in Seq(S), NEW t \in Seq(S), Extends(t, s), NEW n \in 0 .. Len(s)
  PROVE  IsPrefix(SubSeq(s, 1, n), t)
<1>1. Len(s) \in Nat /\ Len(t) \in Nat /\ Len(s) <= Len(t)
      /\ \A i \in 1 .. Len(s) : t[i] = s[i]
  BY LenProperties DEF Extends
<1>2. /\ SubSeq(s, 1, n) = [i \in 1 .. n |-> s[i]]
      /\ SubSeq(t, 1, n) = [i \in 1 .. n |-> t[i]]
      /\ SubSeq(s, 1, n) \in Seq(S) /\ Len(SubSeq(s, 1, n)) = n
  BY <1>1
<1>3. SubSeq(SubSeq(s, 1, n), 1, n) = [i \in 1 .. n |-> s[i]]
  BY <1>1, <1>2
<1>4. \A i \in 1 .. n : s[i] = t[i]
  BY <1>1
<1> QED BY <1>1, <1>2, <1>3, <1>4 DEF IsPrefix

LEMMA ChosenGrows ==
  ASSUME NEW S, NEW s \in Seq(S), NEW P, NEW m \in Nat, NEW n \in Nat, m <= n, n <= Len(s)
  PROVE  Extends(Chosen(s, P)[n], Chosen(s, P)[m])
<1>1. /\ Len(s) \in Nat /\ \A i \in 1 .. Len(s) : s[i] \in S
      /\ \A i \in 1 .. Len(s) :
           Chosen(s, P)[i] = IF i \in P THEN Append(Chosen(s, P)[i - 1], s[i])
                             ELSE Chosen(s, P)[i - 1]
      /\ \A i \in 0 .. Len(s) : Chosen(s, P)[i] \in Seq(S)
  BY SeqFacts, ChosenIs
<1> DEFINE T == { k \in Nat : m + k <= n => Extends(Chosen(s, P)[m + k], Chosen(s, P)[m]) }
<1>2. 0 \in T
  <2>1. m \in 0 .. Len(s) /\ m + 0 = m
    BY <1>1
  <2>2. Chosen(s, P)[m] \in Seq(S)
    BY <1>1, <2>1
  <2> QED BY <2>1, <2>2, ExtendsFacts
<1>3. ASSUME NEW k \in Nat, k \in T PROVE k + 1 \in T
  <2> DEFINE i == m + (k + 1)
  <2> SUFFICES ASSUME i <= n PROVE Extends(Chosen(s, P)[i], Chosen(s, P)[m])
    OBVIOUS
  <2>1. /\ i \in 1 .. Len(s) /\ i \in 0 .. Len(s) /\ i - 1 \in 0 .. Len(s) /\ m \in 0 .. Len(s)
        /\ i - 1 = m + k /\ m + k <= n
    BY <1>1
  <2> HIDE DEF i
  <2>2. Extends(Chosen(s, P)[i - 1], Chosen(s, P)[m])
    BY <1>3, <2>1
  <2>3. /\ Chosen(s, P)[i] \in Seq(S) /\ Chosen(s, P)[i - 1] \in Seq(S)
        /\ Chosen(s, P)[m] \in Seq(S) /\ s[i] \in S
    BY <1>1, <2>1
  <2>4. Extends(Chosen(s, P)[i], Chosen(s, P)[i - 1])
    BY <1>1, <2>1, <2>3, ExtendsFacts, SMTT(60)
  <2> QED BY <2>2, <2>3, <2>4, ExtendsFacts
<1> HIDE DEF T
<1>4. Nat \subseteq T
  BY <1>2, <1>3, NatInd
<1>5. n - m \in T /\ m + (n - m) = n
  BY <1>4
<1> QED BY <1>5 DEF T

LEMMA EchoesGrow ==
  ASSUME NEW s \in Seq(Note), NEW m \in Nat, NEW n \in Nat, m <= n, n <= Len(s)
  PROVE  Extends(Echoes(s)[n], Echoes(s)[m])
<1> HIDE DEF Note
<1>1. /\ Len(s) \in Nat
      /\ \A i \in 1 .. Len(s) :
           Echoes(s)[i] = Echoes(s)[i - 1] \o Chosen(s, Before(s, i))[i - 1]
      /\ \A i \in 0 .. Len(s) : Echoes(s)[i] \in Seq(Note)
  BY SeqFacts, EchoesIs
<1>1a. \A i \in 1 .. Len(s) : Chosen(s, Before(s, i))[i - 1] \in Seq(Note)
  <2>1. \A i \in 1 .. Len(s) : i - 1 \in 0 .. Len(s)
    BY <1>1
  <2> QED BY <2>1, ChosenIs
<1> DEFINE T == { k \in Nat : m + k <= n => Extends(Echoes(s)[m + k], Echoes(s)[m]) }
<1>2. 0 \in T
  <2>1. m \in 0 .. Len(s) /\ m + 0 = m
    BY <1>1
  <2>2. Echoes(s)[m] \in Seq(Note)
    BY <1>1, <2>1
  <2> QED BY <2>1, <2>2, ExtendsFacts
<1>3. ASSUME NEW k \in Nat, k \in T PROVE k + 1 \in T
  <2> DEFINE i == m + (k + 1)
  <2> SUFFICES ASSUME i <= n PROVE Extends(Echoes(s)[i], Echoes(s)[m])
    OBVIOUS
  <2>1. /\ i \in 1 .. Len(s) /\ i \in 0 .. Len(s) /\ i - 1 \in 0 .. Len(s) /\ m \in 0 .. Len(s)
        /\ i - 1 = m + k /\ m + k <= n
    BY <1>1
  <2> HIDE DEF i
  <2>2. Extends(Echoes(s)[i - 1], Echoes(s)[m])
    BY <1>3, <2>1
  <2>3. /\ Echoes(s)[i] \in Seq(Note) /\ Echoes(s)[i - 1] \in Seq(Note)
        /\ Echoes(s)[m] \in Seq(Note)
    BY <1>1, <2>1
  <2>4. Extends(Echoes(s)[i], Echoes(s)[i - 1])
    <3>1. /\ Echoes(s)[i] = Echoes(s)[i - 1] \o Chosen(s, Before(s, i))[i - 1]
          /\ Chosen(s, Before(s, i))[i - 1] \in Seq(Note)
      BY <1>1, <1>1a, <2>1
    <3> QED BY <2>3, <3>1, ExtendsFacts
  <2> QED BY <2>2, <2>3, <2>4, ExtendsFacts
<1> HIDE DEF T
<1>4. Nat \subseteq T
  BY <1>2, <1>3, NatInd
<1>5. n - m \in T /\ m + (n - m) = n
  BY <1>4
<1> QED BY <1>5 DEF T

-----------------------------------------------------------------------------
(***************************************************************************)
(* RouteGuideImpl's own computations, and what Expected says of them.      *)
(***************************************************************************)
LEMMA MinOf2 ==
  ASSUME NEW x \in Int, NEW y \in Int
  PROVE  /\ Min({x, y}) = IF x <= y THEN x ELSE y
         /\ Max({x, y}) = IF x <= y THEN y ELSE x
<1>1. CASE x <= y
  <2>1. x \in {x, y} /\ \A z \in {x, y} : x =< z
    BY <1>1
  <2>2. y \in {x, y} /\ \A z \in {x, y} : y >= z
    BY <1>1
  <2>3. \A v \in {x, y} : (\A z \in {x, y} : v =< z) => v = x
    BY <1>1
  <2>4. \A v \in {x, y} : (\A z \in {x, y} : v >= z) => v = y
    BY <1>1
  <2> QED BY <1>1, <2>1, <2>2, <2>3, <2>4 DEF Min, Max
<1>2. CASE ~ (x <= y)
  <2>1. y \in {x, y} /\ \A z \in {x, y} : y =< z
    BY <1>2
  <2>2. x \in {x, y} /\ \A z \in {x, y} : x >= z
    BY <1>2
  <2>3. \A v \in {x, y} : (\A z \in {x, y} : v =< z) => v = y
    BY <1>2
  <2>4. \A v \in {x, y} : (\A z \in {x, y} : v >= z) => v = x
    BY <1>2
  <2> QED BY <1>2, <2>1, <2>2, <2>3, <2>4 DEF Min, Max
<1> QED BY <1>1, <1>2

LEMMA FeatureIs ==
  ASSUME NEW i \in DOMAIN Features
  PROVE  Features[i].location \in Point
<1>1. Features[i] \in [name : STRING, location : Point]
  <2>1. DOMAIN Features = 1 .. Len(Features)
    BY FeaturesAssumption, LenProperties
  <2> DEFINE S == [name : STRING, location : Point]
  <2>2. Features \in Seq(S)
    BY FeaturesAssumption
  <2> HIDE DEF S
  <2>3. Features[i] \in S
    BY <2>1, <2>2, SeqFacts
  <2> QED BY <2>3 DEF S
<1> QED BY <1>1

Rectangle == [lo : Point, hi : Point]

LEMMA RectangleIs ==
  ASSUME NEW i \in DOMAIN Features, NEW r \in Rectangle
  PROVE  InRectangle(Features[i], r) <=> i \in Inside(r)
<1> DEFINE f == Features[i]
<1>1. /\ r.lo[1] \in Int /\ r.lo[2] \in Int /\ r.hi[1] \in Int /\ r.hi[2] \in Int
      /\ f.location[1] \in Int /\ f.location[2] \in Int
  BY FeatureIs DEF Rectangle, Point
<1>2. \A x, y, z \in Int : (y >= Min({x, z}) /\ y <= Max({x, z})) <=> Between(x, y, z)
  <2> SUFFICES ASSUME NEW x \in Int, NEW y \in Int, NEW z \in Int
               PROVE  (y >= Min({x, z}) /\ y <= Max({x, z})) <=> Between(x, y, z)
    OBVIOUS
  <2>1. /\ Min({x, z}) = IF x <= z THEN x ELSE z
        /\ Max({x, z}) = IF x <= z THEN z ELSE x
    BY MinOf2
  <2> QED BY <2>1 DEF Between
<1> HIDE DEF f
<1>3. InRectangle(f, r) <=> /\ Between(r.lo[1], f.location[1], r.hi[1])
                            /\ Between(r.lo[2], f.location[2], r.hi[2])
  BY <1>1, <1>2 DEF InRectangle
<1>4. i \in Inside(r) <=> /\ Between(r.lo[1], f.location[1], r.hi[1])
                          /\ Between(r.lo[2], f.location[2], r.hi[2])
  <2>1. i \in Inside(r) <=> \A axis \in 1 .. 2 :
                              Between(r.lo[axis], f.location[axis], r.hi[axis])
    BY DEF Inside, f
  <2>2. 1 .. 2 = {1, 2}
    OBVIOUS
  <2> QED BY <2>1, <2>2
<1> QED BY <1>3, <1>4 DEF f

LEMMA SameIs ==
  ASSUME NEW p \in Point, NEW q \in Point
  PROVE  Same(p, q) <=> p = q
BY DEF Same, Point

LEMMA NameIs ==
  ASSUME NEW p \in Point
  PROVE  GetFeatureName(p) = NameAt(p)
<1>1. { i \in DOMAIN Features : Same(Features[i].location, p) }
        = { i \in DOMAIN Features : Features[i].location = p }
  BY FeatureIs, SameIs
<1> QED BY <1>1 DEF GetFeatureName, NameAt

\* The features known by their names among the first n places of a route.
KnownTo(route, n) == { i \in 1 .. n : NameAt(route[i]) # "" }

LEMMA KnownIs ==
  ASSUME NEW route, NEW n \in Nat
  PROVE  /\ Cardinality(KnownTo(route, n)) \in Nat
         /\ Cardinality(KnownTo(route, 0)) = 0
         /\ Cardinality(KnownTo(route, n + 1))
              = Cardinality(KnownTo(route, n)) + IF NameAt(route[n + 1]) # "" THEN 1 ELSE 0
<1>1. IsFiniteSet(1 .. n)
  BY FS_Interval
<1>2. KnownTo(route, n) \subseteq 1 .. n
  BY DEF KnownTo
<1>3. IsFiniteSet(KnownTo(route, n)) /\ Cardinality(KnownTo(route, n)) \in Nat
  BY <1>1, <1>2, FS_Subset, FS_CardinalityType
<1>4. Cardinality(KnownTo(route, 0)) = 0
  <2>1. KnownTo(route, 0) = {}
    BY DEF KnownTo
  <2> QED BY <2>1, FS_EmptySet
<1>5. 1 .. n + 1 = (1 .. n) \cup {n + 1} /\ n + 1 \notin 1 .. n
  OBVIOUS
<1>6. CASE NameAt(route[n + 1]) # ""
  <2>1. KnownTo(route, n + 1) = KnownTo(route, n) \cup {n + 1}
    BY <1>5, <1>6 DEF KnownTo
  <2>2. n + 1 \notin KnownTo(route, n)
    BY <1>2, <1>5
  <2>3. Cardinality(KnownTo(route, n + 1)) = Cardinality(KnownTo(route, n)) + 1
    BY <1>3, <2>1, <2>2, FS_AddElement
  <2> QED BY <1>3, <1>4, <1>6, <2>3
<1>7. CASE ~ (NameAt(route[n + 1]) # "")
  <2>1. KnownTo(route, n + 1) = KnownTo(route, n)
    BY <1>5, <1>7 DEF KnownTo
  <2>2. Cardinality(KnownTo(route, n + 1)) = Cardinality(KnownTo(route, n)) + 0
    BY <1>3, <2>1
  <2> QED BY <1>3, <1>4, <1>7, <2>2
<1> QED BY <1>3, <1>4, <1>6, <1>7

-----------------------------------------------------------------------------
(***************************************************************************)
(* What is proved of ClientCall and of ServerCall, for the instances that  *)
(* the route guide is made of.                                             *)
(***************************************************************************)
ClientProofs == INSTANCE ClientCall_proofs WITH
  Apis <- { Api[p] : p \in Programs }, Runners <- {"run"},
  MaxReplies <- MaxStream, MaxWrites <- MaxStream
ServerProofs == INSTANCE ServerCall_proofs WITH
  Kinds <- {"unary", "server", "client", "bidi"}, Threads <- {"t"}, MaxSent <- MaxStream,
  pc <- entry

LEMMA ClientAssumptions ==
  /\ { Api[p] : p \in Programs } \subseteq ClientProofs!AllApis
  /\ "nobody" \notin {"run"}
  /\ MaxStream \in Nat
BY ProgramsAssumption, BoundsAssumption
   DEF Api, ClientProofs!AllApis, ClientProofs!Writers, ClientProofs!ReaderWriters

LEMMA ServerAssumptions == ServerProofs!KindsAssumption /\ ServerProofs!ThreadsAssumption
<1>1. IsFiniteSet({"t"})
  BY FS_Singleton
<1> QED BY <1>1 DEF ServerProofs!KindsAssumption, ServerProofs!ThreadsAssumption,
          ServerProofs!IsFiniteSet, IsFiniteSet

\* What is proved of the client call and of the server call.
LEMMA ClientInit == Client!Init => ClientProofs!Inv
<1>1. Client!Init => ClientProofs!Init
  BY DEF Client!Init, ClientProofs!Init, Client!Givens, ClientProofs!Givens,
     Client!Writers, ClientProofs!Writers, Client!ReaderWriters, ClientProofs!ReaderWriters,
     Client!SyncReaders, ClientProofs!SyncReaders, Client!AsyncReaders, ClientProofs!AsyncReaders
<1> QED BY <1>1, ClientAssumptions, ClientProofs!InitInv
       DEF ClientProofs!InitInv, ClientProofs!ApisAssumption, ClientProofs!RunnersAssumption,
       ClientProofs!BoundsAssumption

LEMMA ServerInit == Server!Init => ServerProofs!Inv
<1>1. Server!Init => ServerProofs!Init
  BY DEF Server!Init, ServerProofs!Init, Server!Holders, ServerProofs!Holders,
     Server!ClientStreaming, ServerProofs!ClientStreaming
<1> QED BY <1>1, ServerAssumptions, ServerProofs!InvInit DEF ServerProofs!InvInit

\* The steps of the instances of the modules of proofs are the same steps.
LEMMA SameClientNext == Client!Next => ClientProofs!Next
BY DEF Client!SyncReaders, ClientProofs!SyncReaders, Client!AsyncReaders,
   ClientProofs!AsyncReaders, Client!ReaderWriters, ClientProofs!ReaderWriters,
   Client!Writers, ClientProofs!Writers, Client!AllApis, ClientProofs!AllApis, Client!call,
   ClientProofs!call, Client!requests, ClientProofs!requests, Client!network,
   ClientProofs!network, Client!reading, ClientProofs!reading, Client!loop,
   ClientProofs!loop, Client!vars, ClientProofs!vars, Client!OneReply,
   ClientProofs!OneReply, Client!Givens, ClientProofs!Givens, Client!Init,
   ClientProofs!Init, Client!Parses, ClientProofs!Parses, Client!Unwrap,
   ClientProofs!Unwrap, Client!SyncReturns, ClientProofs!SyncReturns, Client!Close,
   ClientProofs!Close, Client!Ended, ClientProofs!Ended, Client!ReadOne,
   ClientProofs!ReadOne, Client!ParseFromString, ClientProofs!ParseFromString,
   Client!SetErrorStatus, ClientProofs!SetErrorStatus, Client!RecvStatus,
   ClientProofs!RecvStatus, Client!ReadEach, ClientProofs!ReadEach, Client!Dispatch,
   ClientProofs!Dispatch, Client!Call, ClientProofs!Call, Client!CallStatus,
   ClientProofs!CallStatus, Client!WrapMsgCb, ClientProofs!WrapMsgCb, Client!Respond,
   ClientProofs!Respond, Client!OnClose, ClientProofs!OnClose, Client!OnMsg,
   ClientProofs!OnMsg, Client!OnEnd, ClientProofs!OnEnd, Client!CallbackReturns,
   ClientProofs!CallbackReturns, Client!Event, ClientProofs!Event, Client!Run,
   ClientProofs!Run, Client!RunReturns, ClientProofs!RunReturns, Client!Shutdown,
   ClientProofs!Shutdown, Client!Write, ClientProofs!Write, Client!CloseWriting,
   ClientProofs!CloseWriting, Client!Droppable, ClientProofs!Droppable, Client!Drop,
   ClientProofs!Drop, Client!ServerSends, ClientProofs!ServerSends, Client!ServerFinishes,
   ClientProofs!ServerFinishes, Client!Breaks, ClientProofs!Breaks, Client!Sync,
   ClientProofs!Sync, Client!Next, ClientProofs!Next

LEMMA SameServerNext == Server!Next => ServerProofs!Next
BY DEF Server!Holders, ServerProofs!Holders, Server!client, ServerProofs!client,
   Server!answer, ServerProofs!answer, Server!vars, ServerProofs!vars, Server!HasWriter,
   ServerProofs!HasWriter, Server!ClientStreaming, ServerProofs!ClientStreaming,
   Server!Init, ServerProofs!Init, Server!Finish, ServerProofs!Finish, Server!Write,
   ServerProofs!Write, Server!Unheld, ServerProofs!Unheld, Server!Drop, ServerProofs!Drop,
   Server!NoRequest, ServerProofs!NoRequest, Server!MakeHandle, ServerProofs!MakeHandle,
   Server!CallHandler, ServerProofs!CallHandler, Server!RefuseRequest,
   ServerProofs!RefuseRequest, Server!MakeHandleForReader, ServerProofs!MakeHandleForReader,
   Server!Unimplemented, ServerProofs!Unimplemented, Server!HandlerReturns,
   ServerProofs!HandlerReturns, Server!HandlerReturnsReader,
   ServerProofs!HandlerReturnsReader, Server!StartResets, ServerProofs!StartResets,
   Server!StartReads, ServerProofs!StartReads, Server!EntryReturns,
   ServerProofs!EntryReturns, Server!AssertHandle, ServerProofs!AssertHandle,
   Server!OnError, ServerProofs!OnError, Server!OnMsgStr, ServerProofs!OnMsgStr,
   Server!OnBroken, ServerProofs!OnBroken, Server!OnEnd, ServerProofs!OnEnd,
   Server!OnMsgReturns, ServerProofs!OnMsgReturns, Server!LastCallbackReturns,
   ServerProofs!LastCallbackReturns, Server!Runs, ServerProofs!Runs, Server!Uses,
   ServerProofs!Uses, Server!UserFinishes, ServerProofs!UserFinishes, Server!UserWrites,
   ServerProofs!UserWrites, Server!UserStartsThread, ServerProofs!UserStartsThread,
   Server!ThreadEnds, ServerProofs!ThreadEnds, Server!ClientSends, ServerProofs!ClientSends,
   Server!ClientEnds, ServerProofs!ClientEnds, Server!CallMethod, ServerProofs!CallMethod,
   Server!Reader, ServerProofs!Reader, Server!User, ServerProofs!User, Server!ClientDone,
   ServerProofs!ClientDone, Server!Next, ServerProofs!Next

LEMMA ClientKept ==
  ASSUME ClientProofs!Inv, [Next]_vars
  PROVE  ClientProofs!Inv' /\ ClientProofs!Step
<1>1. [Client!Next]_(Client!vars)
  BY Parts
<1>2. [ClientProofs!Next]_(ClientProofs!vars)
  BY <1>1, SameClientNext DEF Client!vars, ClientProofs!vars, Client!call, ClientProofs!call,
     Client!requests, ClientProofs!requests, Client!network, ClientProofs!network,
     Client!reading, ClientProofs!reading, Client!loop, ClientProofs!loop
<1> QED BY <1>2, ClientAssumptions, ClientProofs!NextInv, ClientProofs!NextSteps
       DEF ClientProofs!NextInv, ClientProofs!NextSteps, ClientProofs!ApisAssumption,
       ClientProofs!RunnersAssumption, ClientProofs!BoundsAssumption

LEMMA ServerKept ==
  ASSUME ServerProofs!Inv, [Next]_vars
  PROVE  ServerProofs!Inv'
<1>1. [Server!Next]_(Server!vars)
  BY Parts
<1>2. [ServerProofs!Next]_(ServerProofs!vars)
  BY <1>1, SameServerNext DEF Server!vars, ServerProofs!vars, Server!answer,
     ServerProofs!answer, Server!client, ServerProofs!client
<1> QED BY <1>2, ServerAssumptions, ServerProofs!InvNext DEF ServerProofs!InvNext

-----------------------------------------------------------------------------
(***************************************************************************)
(* What holds of the program, the connection and the server in every       *)
(* state.                                                                  *)
(***************************************************************************)
HasWriter == kind \in {"server", "bidi"}

fixed == <<program, api, given, kind, request, overrides>>

Fixed ==
  /\ program \in Programs
  /\ api = Api[program]
  /\ given.msg
  /\ kind = Kind[Method(program)]
  /\ request = IF Streams THEN "null" ELSE "good"
  /\ ~ overrides

\* The requests are sent in order...
Asked ==
  /\ kind = "client" => asked \in Seq(Point) /\ todo \in Seq(Point)
  /\ kind = "bidi" => asked \in Seq(Note) /\ todo \in Seq(Note)
  /\ ~ Streams => asked \in Requests[Method(program)] /\ todo = << >> /\ writing = "closed"
  /\ writing = "closed" => todo = << >>
  /\ kind = "bidi" /\ "writer" \notin copies => writing = "closed"

\* ...and the server is given them, up to the end if it is not told otherwise.
Carried ==
  /\ arrived \in 0 .. Len(asked)
  /\ seen \in Nat
  /\ seen + Len(inbox) = IF Streams THEN arrived ELSE 0
  /\ \A i \in 1 .. Len(inbox) : inbox[i] = "good"
  /\ ~ Streams => stream = "open" /\ ~ reading
  /\ stream = "ended" => writing = "closed" /\ arrived = Len(asked)
  /\ stream = "broken" => broken
  /\ callback = "OnMsg" => seen > 0
  /\ callback # "OnError"

\* The handler or the reader has started the thread when it is done with the call.
Handled ==
  /\ "t" \notin started => held["t"] = 0
  /\ ~ Streams => entry \notin {"reset", "start", "leave"}
  /\ kind = "server" /\ entry = "returned" => "t" \in started
  /\ kind = "server" /\ "t" \in started /\ held["t"] = 0 => next > Len(Features)
  /\ Streams /\ entry \in {"leave", "returned"} /\ ~ reading /\ ~ broken => "t" \in started
  /\ Streams /\ (callback = "OnEnd" \/ "t" \in started) =>
       stream = "ended" /\ inbox = << >> /\ callback # "OnMsg"

\* The responses are given to the client, up to the end if the call succeeds.
Msgs == IF first = "none" THEN Len(sent) ELSE Len(sent) - 1

Fetched ==
  /\ fetched \in 0 .. Len(sent)
  /\ HasWriter /\ final = "none" => Len(replies) = fetched
  /\ HasWriter => Len(replies) <= Msgs
  /\ final = "ok" => first # "none"

\* What was written was sent, unless the connection broke.
Counted ==
  /\ HasWriter => Len(answered) \in Nat /\ Msgs <= Len(answered)
  /\ HasWriter /\ ~ broken => Msgs = Len(answered) /\ first \in {"none", "auto"}
  /\ ~ HasWriter /\ ~ broken => first \in {"none", "ok"}

Listed ==
  kind = "server" =>
    /\ next \in 1 .. Len(Features) + 1
    /\ \E k \in 0 .. next - 1 :
         /\ answered = Chosen(Features, Inside(asked[1]))[k]
         /\ k = next - 1 \/ (broken /\ next = Len(Features) + 1)

\* How many requests OnMsg is done with.
Handed == IF callback = "OnMsg" THEN seen - 1 ELSE seen

Echoed ==
  kind = "bidi" =>
    /\ received_notes_ = SubSeq(asked, 1, Handed)
    /\ callback = "OnMsg" => next \in 1 .. seen
    /\ answered = IF callback = "OnMsg"
                    THEN Echoes(asked)[seen - 1] \o Chosen(asked, Before(asked, seen))[next - 1]
                    ELSE Echoes(asked)[seen]

Recorded ==
  kind = "client" =>
    record_route_result_ =
      [point_count |-> Handed, feature_count |-> Cardinality(KnownTo(asked, Handed)),
       distance |-> Way(asked)[Handed],
       previous |-> IF Handed = 0 THEN <<0, 0>> ELSE asked[Handed]]

Replied == ~ HasWriter /\ first = "ok" => answered = Expected /\ writing = "closed"

\* A call that succeeds was answered in full.
Whole ==
  final = "ok" =>
    /\ first = IF HasWriter THEN "auto" ELSE "ok"
    /\ writing = "closed"
    /\ answered = Expected
    /\ Len(replies) = Len(answered)

Outcome == outcome = "ok" => final = "ok" /\ delivered = Len(replies)

Right ==
  /\ ClientProofs!Inv /\ ServerProofs!Inv
  /\ Fixed /\ Asked /\ Carried /\ Handled
  /\ Fetched /\ Counted
  /\ Listed /\ Echoed /\ Recorded /\ Replied
  /\ Whole /\ Outcome

-----------------------------------------------------------------------------
(***************************************************************************)
(* What the parts say in the terms of this module.                         *)
(***************************************************************************)
LEMMA ApiIs ==
  ASSUME NEW p \in DOMAIN Api
  PROVE  /\ Kind[Method(p)] \in {"unary", "server", "client", "bidi"}
         /\ Kind[Method(p)] = "server" => /\ Method(p) = "ListFeatures"
                                          /\ Api[p] \in {"SyncReader", "AsyncReader"}
         /\ Kind[Method(p)] = "client" => /\ Method(p) = "RecordRoute"
                                          /\ Api[p] \in {"SyncWriter", "AsyncWriter"}
         /\ Kind[Method(p)] = "bidi" => /\ Method(p) = "RouteChat"
                                        /\ Api[p] \in {"SyncReaderWriter", "AsyncReaderWriter"}
         /\ Kind[Method(p)] = "unary" => /\ Method(p) \in {"SayHello", "GetFeature"}
                                         /\ Api[p] \in {"SyncRequest", "AsyncRequest"}
<1>1. CASE p \in {"SyncSayHello", "AsyncSayHello"}
  BY <1>1 DEF Api, Method, Kind
<1>2. CASE p \in {"SyncGetOneFeature", "GetFeatureAsync"}
  BY <1>2 DEF Api, Method, Kind
<1>3. CASE p \in {"SyncListFeatures", "ListFeaturesAsync"}
  BY <1>3 DEF Api, Method, Kind
<1>4. CASE p \in {"SyncRecordRoute", "RecordRouteAsync"}
  BY <1>4 DEF Api, Method, Kind
<1>5. CASE p \in {"SyncRouteChat", "RouteChatAsync"}
  BY <1>5 DEF Api, Method, Kind
<1> QED BY <1>1, <1>2, <1>3, <1>4, <1>5 DEF Api

\* The kinds of calls: of which interface, for which method.
Kinds ==
  /\ kind \in {"unary", "server", "client", "bidi"}
  /\ Streams = (kind \in {"client", "bidi"})
  /\ HasWriter = (kind \in {"server", "bidi"})
  /\ kind = "server" => Method(program) = "ListFeatures"
  /\ kind = "client" => Method(program) = "RecordRoute"
  /\ kind = "bidi" => Method(program) = "RouteChat"
  /\ kind = "unary" => Method(program) \in {"SayHello", "GetFeature"}

LEMMA KindsAre == ASSUME Fixed PROVE Kinds
<1>1. program \in DOMAIN Api /\ kind = Kind[Method(program)]
  BY ProgramsAssumption DEF Fixed
<1>2. (kind \in {"client", "bidi"}) \in BOOLEAN /\ (kind \in {"server", "bidi"}) \in BOOLEAN
  OBVIOUS
<1> QED BY <1>1, <1>2, ApiIs DEF Kinds, Streams, HasWriter

LEMMA InterfacesAre ==
  ASSUME Fixed
  PROVE  /\ Client!OneReply <=> ~ HasWriter
         /\ api \in Client!ReaderWriters <=> kind = "bidi"
         /\ api \in Client!Writers <=> Streams
         /\ api \in {"SyncWriter", "AsyncWriter"} <=> kind = "client"
<1>1. program \in DOMAIN Api /\ kind = Kind[Method(program)] /\ api = Api[program]
  BY ProgramsAssumption DEF Fixed
<1>2. /\ kind \in {"unary", "server", "client", "bidi"}
      /\ kind = "server" => api \in {"SyncReader", "AsyncReader"}
      /\ kind = "client" => api \in {"SyncWriter", "AsyncWriter"}
      /\ kind = "bidi" => api \in {"SyncReaderWriter", "AsyncReaderWriter"}
      /\ kind = "unary" => api \in {"SyncRequest", "AsyncRequest"}
  BY <1>1, ApiIs
<1> QED BY <1>2 DEF Client!OneReply, Client!SyncReaders, Client!AsyncReaders,
          Client!ReaderWriters, Client!Writers, HasWriter, Streams

ClientFacts ==
  /\ replies \in Seq({"good", "bad"}) /\ Len(replies) \in Nat /\ taken \in Nat
  /\ final \in {"none", "ok", "rpc"}
  /\ writing \in {"open", "closed"}
  /\ copies \subseteq {"reader", "writer"}
  /\ outcome \in {"none", "ok", "rpc", "parse"}
  /\ delivered \in 0 .. Len(replies)
  /\ Client!OneReply => IF final = "ok" THEN Len(replies) = 1 ELSE replies = << >>

LEMMA ClientFactsAre == ASSUME ClientProofs!Inv PROVE ClientFacts
BY DEF ClientProofs!Inv, ClientProofs!TypeOK, ClientProofs!Single, ClientFacts,
   Client!OneReply, ClientProofs!OneReply, Client!SyncReaders, ClientProofs!SyncReaders,
   Client!AsyncReaders, ClientProofs!AsyncReaders

Holders == {"entry", "handler", "reader", "t"}
Finals == {"ok", "error", "auto"}

ServerFacts ==
  /\ entry \in {"called", "deserialize", "handler", "reset", "start", "leave", "returned"}
  /\ made \in {0, 1}
  /\ held \in [Holders -> 0 .. made]
  /\ started \subseteq {"t"}
  /\ sent \in Seq(Finals \cup {"msg"}) /\ Len(sent) \in Nat
  /\ reading \in BOOLEAN
  /\ callback \in {"idle", "OnMsg", "OnEnd", "OnError"}
  /\ callback # "idle" => reading
  /\ reading => entry \in {"leave", "returned"} /\ held["reader"] # 0
  /\ inbox \in Seq({"good", "bad"}) /\ Len(inbox) \in Nat
  /\ stream \in {"open", "ended", "broken"}
  /\ first \in Finals \cup {"none"}
  /\ entry = "called" => made = 0
  /\ made = 0 => entry \in {"called", "returned"} /\ first = "none"
  /\ entry \in {"deserialize", "handler", "reset", "start", "leave"} => held["entry"] = 1
  /\ entry = "handler" => held["handler"] = 1
  /\ entry = "start" => held["reader"] = 1
  /\ done = IF first = "none" THEN {} ELSE {1}
  /\ \A i \in 1 .. Len(sent) - 1 : sent[i] = "msg"
  /\ first = IF sent # << >> /\ sent[Len(sent)] # "msg" THEN sent[Len(sent)] ELSE "none"
  /\ first = "auto" => \A h \in Holders : held[h] = 0

LEMMA ServerFactsAre == ASSUME ServerProofs!Inv PROVE ServerFacts
<1>1. Holders = ServerProofs!Holders /\ Finals = ServerProofs!Finals
  BY DEF Holders, ServerProofs!Holders, Finals, ServerProofs!Finals
<1>2. /\ ServerProofs!TypeOK /\ ServerProofs!Stage /\ ServerProofs!OneCore
      /\ ServerProofs!AnsweredOnce /\ ServerProofs!ClosedByLast
  BY DEF ServerProofs!Inv
<1>3. Len(sent) \in Nat /\ Len(inbox) \in Nat
  BY <1>2 DEF ServerProofs!TypeOK
<1>4. /\ made \in {0, 1}
      /\ entry = "called" => made = 0
      /\ made = 0 => entry \in {"called", "returned"} /\ first = "none"
      /\ entry \in {"deserialize", "handler", "reset", "start", "leave"} => held["entry"] = 1
      /\ entry = "handler" => held["handler"] = 1
      /\ entry = "start" => held["reader"] = 1
  BY <1>2 DEF ServerProofs!Stage
<1>5. /\ entry \in {"called", "deserialize", "handler", "reset", "start", "leave", "returned"}
      /\ held \in [Holders -> 0 .. made]
      /\ started \subseteq {"t"}
      /\ sent \in Seq(Finals \cup {"msg"})
      /\ reading \in BOOLEAN
      /\ callback \in {"idle", "OnMsg", "OnEnd", "OnError"}
      /\ callback # "idle" => reading
      /\ reading => entry \in {"leave", "returned"} /\ held["reader"] # 0
      /\ inbox \in Seq({"good", "bad"})
      /\ stream \in {"open", "ended", "broken"}
      /\ first \in Finals \cup {"none"}
  BY <1>1, <1>2 DEF ServerProofs!TypeOK
<1>6. /\ \A i \in 1 .. Len(sent) - 1 : sent[i] = "msg"
      /\ first = IF sent # << >> /\ sent[Len(sent)] # "msg" THEN sent[Len(sent)] ELSE "none"
  BY <1>2 DEF ServerProofs!AnsweredOnce
<1>7. first = "auto" => \A h \in Holders : held[h] = 0
  BY <1>1, <1>2 DEF ServerProofs!ClosedByLast
<1>8. done = IF first = "none" THEN {} ELSE {1}
  BY <1>2 DEF ServerProofs!OneCore
<1> QED BY <1>3, <1>4, <1>5, <1>6, <1>7, <1>8 DEF ServerFacts

-----------------------------------------------------------------------------
(***************************************************************************)
(* The steps.  None changes the program or what follows from it.           *)
(***************************************************************************)
\* Of the client call, of the server call and of the program.
LEMMA ClientFixed == ASSUME [Client!Next]_(Client!vars) PROVE UNCHANGED <<api, given>>
<1>1. CASE Client!Sync
  BY <1>1 DEF Client!Sync, Client!SyncReturns, Client!Close, Client!ReadOne, Client!ParseFromString,
     Client!SetErrorStatus, Client!RecvStatus, Client!ReadEach, Client!call
<1>2. ASSUME NEW r \in {"run"},
             Client!Event(r) \/ Client!CallbackReturns(r) \/ Client!Run(r) \/ Client!RunReturns(r)
      PROVE  UNCHANGED <<api, given>>
  BY <1>2 DEF Client!Event, Client!Respond, Client!OnClose, Client!OnMsg, Client!OnEnd,
     Client!CallbackReturns, Client!Run, Client!RunReturns, Client!call
<1>3. CASE \/ Client!Shutdown \/ Client!Write \/ Client!CloseWriting
           \/ \E who \in {"reader", "writer"} : Client!Drop(who)
           \/ \E m \in {"good", "bad"} : Client!ServerSends(m)
           \/ Client!ServerFinishes \/ Client!Breaks
  BY <1>3 DEF Client!Shutdown, Client!Write, Client!CloseWriting, Client!Drop,
     Client!ServerSends, Client!ServerFinishes, Client!Breaks, Client!call
<1>4. CASE UNCHANGED Client!vars
  BY <1>4 DEF Client!vars, Client!call
<1> QED BY <1>1, <1>2, <1>3, <1>4 DEF Client!Next

LEMMA ServerFixed ==
  ASSUME [Server!Next]_(Server!vars)
  PROVE  UNCHANGED <<kind, request, overrides>>
<1>1. CASE Server!CallMethod
  BY <1>1 DEF Server!CallMethod, Server!NoRequest, Server!MakeHandle, Server!CallHandler,
     Server!RefuseRequest, Server!MakeHandleForReader, Server!Unimplemented,
     Server!HandlerReturns, Server!HandlerReturnsReader, Server!StartResets,
     Server!StartReads, Server!EntryReturns
<1>2. CASE Server!Reader
  BY <1>2 DEF Server!Reader, Server!OnMsgStr, Server!OnBroken, Server!OnEnd,
     Server!OnMsgReturns, Server!LastCallbackReturns
<1>3. CASE Server!User \/ (\E t \in {"t"} : Server!ThreadEnds(t))
  BY <1>3 DEF Server!User, Server!UserFinishes, Server!UserWrites, Server!UserStartsThread,
     Server!ThreadEnds
<1>4. CASE (\E msg \in {"good", "bad"} : Server!ClientSends(msg)) \/ Server!ClientDone
  BY <1>4 DEF Server!ClientSends, Server!ClientDone, Server!ClientEnds
<1>5. CASE UNCHANGED Server!vars
  BY <1>5 DEF Server!vars
<1> QED BY <1>1, <1>2, <1>3, <1>4, <1>5 DEF Server!Next

LEMMA ProgramFixed == ASSUME [Next]_vars PROVE UNCHANGED program
<1>1. CASE WriteNext \/ CloseWriting \/ Read \/ ShutdownByCallback \/ ShutdownByFunction
           \/ CallbackReturns \/ Run \/ CallBack \/ DropCopy \/ Return
  BY <1>1 DEF WriteNext, CloseWriting, Read, ShutdownByCallback, ShutdownByFunction,
     CallbackReturns, Run, CallBack, DropCopy, Return, OnClient, content
<1>2. CASE DeliverRequest \/ DeliverEnd \/ DeliverReply \/ Break \/ ClientLearns \/ ServerLearns
  BY <1>2 DEF DeliverRequest, DeliverEnd, DeliverReply, Break, ClientLearns, ServerLearns, content
<1>3. CASE ServerThread
  BY <1>3 DEF ServerThread, Entry, ReplyFeature, ListFeatures, HandlerReturns, OnServer, content
<1>4. CASE ReaderThread
  BY <1>4 DEF ReaderThread, OnMsgStr, ReaderEnds, OnPoint, EchoNote, OnNote, OnEnd, OnServer,
     content
<1>5. CASE UserThread
  BY <1>5 DEF UserThread, ListNext, ReplySummary, ThreadEnds, OnServer, content
<1>6. CASE UNCHANGED vars
  BY <1>6 DEF vars, content
<1> QED BY <1>1, <1>2, <1>3, <1>4, <1>5, <1>6 DEF Next

LEMMA FixedKept == ASSUME Fixed, [Next]_vars PROVE UNCHANGED fixed /\ Fixed'
<1>1. UNCHANGED fixed
  BY Parts, ClientFixed, ServerFixed, ProgramFixed DEF fixed
<1> QED BY <1>1 DEF Fixed, fixed, Streams

-----------------------------------------------------------------------------
(***************************************************************************)
(* What each part of the invariant depends on.                             *)
(***************************************************************************)
LEMMA AskedKept ==
  ASSUME Asked, UNCHANGED fixed, UNCHANGED <<asked, todo, copies>>,
         writing' \in {writing, "closed"}, writing' = "closed" => todo = << >>
  PROVE  Asked'
BY DEF Asked, fixed, Streams

LEMMA CarriedKept ==
  ASSUME Carried, UNCHANGED fixed, UNCHANGED <<arrived, asked, seen, inbox, reading, stream, callback>>,
         writing' \in {writing, "closed"}, broken => broken'
  PROVE  Carried'
BY DEF Carried, fixed, Streams

LEMMA HandledKept ==
  ASSUME Handled, UNCHANGED fixed,
         UNCHANGED <<started, held, entry, next, reading, callback, stream, inbox>>,
         broken => broken'
  PROVE  Handled'
BY DEF Handled, fixed, Streams

LEMMA FetchedKept ==
  ASSUME Fetched, UNCHANGED fixed, UNCHANGED <<fetched, sent, first, final, replies>>
  PROVE  Fetched'
BY DEF Fetched, Msgs, HasWriter, fixed

LEMMA CountedKept ==
  ASSUME Counted, UNCHANGED fixed, UNCHANGED <<sent, first, answered>>, broken => broken'
  PROVE  Counted'
BY DEF Counted, Msgs, HasWriter, fixed

LEMMA ListedKept ==
  ASSUME Listed, UNCHANGED fixed, UNCHANGED <<next, answered, asked>>, broken => broken'
  PROVE  Listed'
BY DEF Listed, fixed

LEMMA EchoedKept ==
  ASSUME Echoed, UNCHANGED fixed, UNCHANGED <<received_notes_, asked, seen, callback, answered, next>>
  PROVE  Echoed'
BY DEF Echoed, Handed, fixed

LEMMA RecordedKept ==
  ASSUME Recorded, UNCHANGED fixed, UNCHANGED <<record_route_result_, asked, seen, callback>>
  PROVE  Recorded'
BY DEF Recorded, Handed, fixed

LEMMA ExpectedKept ==
  ASSUME UNCHANGED fixed, UNCHANGED <<asked, todo>>
  PROVE  Expected' = Expected
BY DEF Expected, Plan, fixed

LEMMA RepliedKept ==
  ASSUME Replied, UNCHANGED fixed, UNCHANGED <<first, answered, asked, todo>>,
         writing' \in {writing, "closed"}
  PROVE  Replied'
BY ExpectedKept DEF Replied, HasWriter, fixed

LEMMA WholeKept ==
  ASSUME Whole, UNCHANGED fixed, UNCHANGED <<final, first, replies, answered, asked, todo>>,
         writing' \in {writing, "closed"}
  PROVE  Whole'
BY ExpectedKept DEF Whole, HasWriter, fixed

\* The part of the invariant that is proved here, and with what the other parts say.
World ==
  /\ Asked /\ Carried /\ Handled
  /\ Fetched /\ Counted
  /\ Listed /\ Echoed /\ Recorded /\ Replied
  /\ Whole

Here == ClientFacts /\ ServerFacts /\ Fixed /\ World

-----------------------------------------------------------------------------
(***************************************************************************)
(* The programs.                                                           *)
(***************************************************************************)
\* A step of the client that gives nothing to the connection, or only the end.
LEMMA CallerKeeps ==
  ASSUME Here, UNCHANGED fixed, UNCHANGED <<content, connection, server>>, UNCHANGED <<replies, final>>,
         writing' \in {writing, "closed"}, writing' = "closed" => todo = << >>,
         kind = "bidi" /\ "writer" \notin copies' => writing' = "closed"
  PROVE  World'
<1>1. /\ UNCHANGED <<todo, asked, answered, seen, next, record_route_result_, received_notes_>>
      /\ UNCHANGED <<arrived, fetched, broken>>
      /\ UNCHANGED <<entry, made, held, started, sent, reading, callback, inbox, stream, first>>
  BY DEF content, connection, server
<1>2. Asked'
  BY <1>1 DEF Here, World, Asked, fixed, Streams
<1>3. Carried' /\ Handled' /\ Fetched' /\ Counted'
  BY <1>1, CarriedKept, HandledKept, FetchedKept, CountedKept DEF Here, World
<1>4. Listed' /\ Echoed' /\ Recorded' /\ Replied' /\ Whole'
  BY <1>1, ListedKept, EchoedKept, RecordedKept, RepliedKept, WholeKept DEF Here, World
<1> QED BY <1>2, <1>3, <1>4 DEF World

\* The actions of ClientCall that are such steps.
LEMMA QuietSteps ==
  ASSUME \/ Client!SyncReturns \/ Client!ReadOne \/ Client!ParseFromString \/ Client!SetErrorStatus
         \/ Client!RecvStatus \/ Client!ReadEach \/ Client!Shutdown
         \/ \E r \in {"run"} : Client!Event(r) \/ Client!CallbackReturns(r) \/ Client!Run(r)
                                \/ Client!RunReturns(r)
  PROVE  UNCHANGED <<replies, final, writing, copies>>
BY DEF Client!SyncReturns, Client!ReadOne, Client!ParseFromString, Client!SetErrorStatus,
   Client!RecvStatus, Client!ReadEach, Client!Shutdown, Client!Event, Client!Respond,
   Client!OnClose, Client!OnMsg, Client!OnEnd, Client!CallbackReturns, Client!Run,
   Client!RunReturns, Client!network, Client!requests

LEMMA ReadingSteps ==
  ASSUME Here, UNCHANGED fixed,
         Read \/ ShutdownByCallback \/ ShutdownByFunction \/ CallbackReturns \/ Run \/ CallBack
  PROVE  World'
<1>1. UNCHANGED <<content, connection, server>> /\ UNCHANGED <<replies, final, writing, copies>>
  <2>1. CASE Read
    BY <2>1, QuietSteps DEF Read, OnClient
  <2>2. CASE ShutdownByCallback \/ ShutdownByFunction
    BY <2>2, QuietSteps DEF ShutdownByCallback, ShutdownByFunction, OnClient
  <2>3. CASE CallbackReturns \/ Run \/ CallBack
    BY <2>3, QuietSteps DEF CallbackReturns, Run, CallBack, OnClient
  <2> QED BY <2>1, <2>2, <2>3
<1>2. /\ writing = "closed" => todo = << >>
      /\ kind = "bidi" /\ "writer" \notin copies => writing = "closed"
  BY DEF Here, World, Asked
<1> QED BY <1>1, <1>2, CallerKeeps

LEMMA ClosingSteps ==
  ASSUME Here, UNCHANGED fixed, CloseWriting \/ DropCopy \/ Return
  PROVE  World'
<1>1. /\ writing = "closed" => todo = << >>
      /\ kind = "bidi" /\ "writer" \notin copies => writing = "closed"
      /\ copies \subseteq {"reader", "writer"}
  BY DEF Here, World, Asked, ClientFacts
<1>2. CASE CloseWriting
  <2>1. /\ UNCHANGED <<content, connection, server, replies, final, copies>>
        /\ todo = << >> /\ writing' = "closed"
    BY <1>2 DEF CloseWriting, OnClient, Client!Close, Client!CloseWriting, Client!network
  <2> QED BY <1>1, <2>1, CallerKeeps
<1>3. CASE DropCopy
  <2>1. PICK who \in {"reader", "writer"} :
          /\ Client!Drop(who) /\ (who = "writer" => writing = "closed")
          /\ UNCHANGED <<content, connection, server>>
    BY <1>3 DEF DropCopy, OnClient
  <2>2. /\ UNCHANGED <<replies, final>> /\ copies' = copies \ {who}
        /\ writing' = IF copies' = {} THEN "closed" ELSE writing
        /\ who \in copies /\ api \in Client!ReaderWriters
    BY <2>1 DEF Client!Drop, Client!Droppable, Client!network
  <2>3. kind = "bidi"
    BY <2>2, InterfacesAre DEF Here
  <2>4. writing' = writing /\ ("writer" \notin copies' => writing = "closed")
    <3>1. CASE who = "writer"
      BY <2>1, <2>2, <3>1
    <3>2. CASE who = "reader"
      <4>1. "writer" \notin copies' => "writer" \notin copies
        BY <2>2, <3>2
      <4>2. copies' = {} => "writer" \notin copies'
        OBVIOUS
      <4> QED BY <1>1, <2>2, <2>3, <4>1, <4>2
    <3> QED BY <3>1, <3>2
  <2> QED BY <1>1, <2>1, <2>2, <2>4, CallerKeeps
<1>4. CASE Return
  <2>1. UNCHANGED <<todo, asked, answered, seen, next, record_route_result_, received_notes_>>
        /\ UNCHANGED <<connection, client, server>>
    BY <1>4 DEF Return
  <2>2. UNCHANGED <<arrived, fetched, broken>>
        /\ UNCHANGED <<entry, made, held, started, sent, reading, callback, inbox, stream, first>>
        /\ UNCHANGED <<replies, final, writing, copies>>
    BY <2>1 DEF connection, client, server
  <2>3. Asked' /\ Carried' /\ Handled' /\ Fetched' /\ Counted'
    BY <1>1, <2>1, <2>2, AskedKept, CarriedKept, HandledKept, FetchedKept, CountedKept DEF Here, World
  <2>4. Listed' /\ Echoed' /\ Recorded' /\ Replied' /\ Whole'
    BY <2>1, <2>2, ListedKept, EchoedKept, RecordedKept, RepliedKept, WholeKept DEF Here, World
  <2> QED BY <2>3, <2>4 DEF World
<1> QED BY <1>2, <1>3, <1>4

\* What was computed of the first n requests stays right when more are sent.
LEMMA NotesLonger ==
  ASSUME NEW s \in Seq(Note), NEW t \in Seq(Note), Extends(t, s), NEW n \in 0 .. Len(s)
  PROVE  /\ SubSeq(t, 1, n) = SubSeq(s, 1, n)
         /\ Echoes(t)[n] = Echoes(s)[n]
         /\ \A m \in 0 .. n : Chosen(t, Before(t, n))[m] = Chosen(s, Before(s, n))[m]
<1> HIDE DEF Note
<1>1. /\ Len(s) \in Nat /\ Len(t) \in Nat /\ n \in Nat /\ n <= Len(s) /\ n <= Len(t)
      /\ \A i \in 1 .. n : t[i] = s[i]
  BY LenProperties DEF Extends
<1>2. SubSeq(t, 1, n) = SubSeq(s, 1, n)
  BY <1>1
<1>3. Echoes(t)[n] = Echoes(s)[n]
  BY <1>1, EchoesAgree
<1>4. Before(t, n) = Before(s, n)
  <2>1. \A k \in 1 .. n - 1 : k \in 1 .. n /\ n \in 1 .. n
    BY <1>1
  <2>2. \A k \in 1 .. n - 1 : t[k].location = t[n].location <=> s[k].location = s[n].location
    BY <1>1, <2>1
  <2> QED BY <2>2 DEF Before
<1>5. ASSUME NEW m \in 0 .. n
      PROVE  Chosen(t, Before(t, n))[m] = Chosen(s, Before(s, n))[m]
  <2> DEFINE S == Note
             P == Before(s, n)
  <2>1. m \in Nat /\ m <= Len(s) /\ m <= Len(t) /\ \A i \in 1 .. m : t[i] = s[i]
    BY <1>1
  <2>2. s \in Seq(S) /\ t \in Seq(S)
    OBVIOUS
  <2> HIDE DEF S, P
  <2>3. Chosen(t, P)[m] = Chosen(s, P)[m]
    BY <2>1, <2>2, ChosenAgrees
  <2> QED BY <1>4, <2>3 DEF P
<1> QED BY <1>2, <1>3, <1>5

LEMMA RouteLonger ==
  ASSUME NEW s \in Seq(Point), NEW t \in Seq(Point), Extends(t, s), NEW n \in 0 .. Len(s)
  PROVE  /\ KnownTo(t, n) = KnownTo(s, n)
         /\ Way(t)[n] = Way(s)[n]
         /\ n # 0 => t[n] = s[n]
<1> HIDE DEF Point
<1>1. /\ Len(s) \in Nat /\ Len(t) \in Nat /\ n \in Nat /\ n <= Len(s) /\ n <= Len(t)
      /\ \A i \in 1 .. n : t[i] = s[i]
  BY LenProperties DEF Extends
<1>2. KnownTo(t, n) = KnownTo(s, n)
  BY <1>1 DEF KnownTo
<1>3. Way(t)[n] = Way(s)[n]
  BY <1>1, WayAgrees
<1> QED BY <1>1, <1>2, <1>3

LEMMA SentMore ==
  ASSUME NEW S, asked \in Seq(S), todo \in Seq(S), todo # << >>,
         asked' = asked \/ asked' = Append(asked, Head(todo)),
         todo' = << >> \/ todo' = Tail(todo)
  PROVE  /\ asked' \in Seq(S) /\ todo' \in Seq(S)
         /\ Extends(asked', asked)
<1>1. Head(todo) \in S /\ Tail(todo) \in Seq(S) /\ << >> \in Seq(S)
  BY HeadTailProperties, EmptySeq
<1>2. CASE asked' = asked
  BY <1>1, <1>2, ExtendsFacts
<1>3. CASE asked' = Append(asked, Head(todo))
  BY <1>1, <1>3, ExtendsFacts, AppendProperties
<1> QED BY <1>2, <1>3

LEMMA HandedIs ==
  ASSUME Here, Streams
  PROVE  /\ seen \in 0 .. Len(asked) /\ Handed \in 0 .. Len(asked)
         /\ callback = "OnMsg" => seen - 1 \in 0 .. Len(asked)
         /\ Len(asked) \in Nat
<1>1. Len(asked) \in Nat
  <2>1. kind \in {"client", "bidi"}
    BY DEF Streams
  <2>2. CASE kind = "client"
    <3>1. asked \in Seq(Point)
      BY <2>2 DEF Here, World, Asked
    <3> QED BY <3>1, LenProperties
  <2>3. CASE kind = "bidi"
    <3>1. asked \in Seq(Note)
      BY <2>3 DEF Here, World, Asked
    <3> QED BY <3>1, LenProperties
  <2> QED BY <2>1, <2>2, <2>3
<1>2. /\ arrived \in 0 .. Len(asked) /\ seen \in Nat /\ seen + Len(inbox) = arrived
      /\ Len(inbox) \in Nat /\ (callback = "OnMsg" => seen > 0)
  BY DEF Here, World, Carried, ServerFacts
<1>3. seen \in 0 .. Len(asked) /\ (callback = "OnMsg" => seen - 1 \in 0 .. Len(asked))
  BY <1>1, <1>2
<1> QED BY <1>1, <1>3 DEF Handed

LEMMA WritingSteps ==
  ASSUME Here, UNCHANGED fixed, WriteNext
  PROVE  World'
<1>1. /\ todo # << >> /\ writing = "open" /\ UNCHANGED <<writing, copies, replies, final>>
      /\ asked' = asked \/ asked' = Append(asked, Head(todo))
      /\ todo' = << >> \/ todo' = Tail(todo)
      /\ UNCHANGED <<answered, seen, next, record_route_result_, received_notes_>>
      /\ UNCHANGED <<connection, server>>
  BY DEF WriteNext, Client!Write, Client!network
<1>2. /\ UNCHANGED <<arrived, fetched, broken>>
      /\ UNCHANGED <<entry, made, held, started, sent, reading, callback, inbox, stream, first>>
  BY <1>1 DEF connection, server
<1>3. Streams /\ kind \in {"client", "bidi"}
  BY <1>1 DEF Here, World, Asked, Streams
<1>4. /\ kind = "client" => /\ asked \in Seq(Point) /\ asked' \in Seq(Point) /\ todo' \in Seq(Point)
                            /\ Extends(asked', asked)
      /\ kind = "bidi" => /\ asked \in Seq(Note) /\ asked' \in Seq(Note) /\ todo' \in Seq(Note)
                          /\ Extends(asked', asked)
  <2>1. CASE kind = "client"
    <3>1. asked \in Seq(Point) /\ todo \in Seq(Point)
      BY <2>1 DEF Here, World, Asked
    <3> QED BY <1>1, <2>1, <3>1, SentMore
  <2>2. CASE kind = "bidi"
    <3>1. asked \in Seq(Note) /\ todo \in Seq(Note)
      BY <2>2 DEF Here, World, Asked
    <3> QED BY <1>1, <2>2, <3>1, SentMore
  <2> QED BY <1>3, <2>1, <2>2
<1>5. Asked'
  BY <1>1, <1>3, <1>4 DEF Here, World, Asked, fixed, Streams
<1>6. Carried'
  <2>1. Len(asked) <= Len(asked') /\ Len(asked) \in Nat /\ Len(asked') \in Nat
    <3>1. CASE kind = "client"
      BY <1>4, <3>1, LenProperties DEF Extends
    <3>2. CASE kind = "bidi"
      BY <1>4, <3>2, LenProperties DEF Extends
    <3> QED BY <1>3, <3>1, <3>2
  <2>2. arrived \in 0 .. Len(asked')
    BY <2>1 DEF Here, World, Carried
  <2> QED BY <1>1, <1>2, <2>2 DEF Here, World, Carried, fixed, Streams
<1>7. Handled' /\ Fetched' /\ Counted'
  BY <1>1, <1>2, HandledKept, FetchedKept, CountedKept DEF Here, World
<1>8. Listed'
  BY <1>3 DEF Listed, fixed
<1>9. Echoed'
  <2> SUFFICES ASSUME kind = "bidi" PROVE Echoed'
    BY DEF Echoed, fixed
  <2>1. /\ seen \in 0 .. Len(asked) /\ Handed \in 0 .. Len(asked) /\ Handed' = Handed
        /\ callback = "OnMsg" => seen - 1 \in 0 .. Len(asked) /\ next - 1 \in 0 .. seen
    <3>1. callback = "OnMsg" => next \in 1 .. seen
      BY DEF Here, World, Echoed
    <3>2. Handed' = Handed
      BY <1>1, <1>2 DEF Handed
    <3> QED BY <1>3, <3>1, <3>2, HandedIs
  <2>2. SubSeq(asked', 1, Handed) = SubSeq(asked, 1, Handed)
    BY <1>4, <2>1, NotesLonger
  <2>3. Echoes(asked')[seen] = Echoes(asked)[seen]
    BY <1>4, <2>1, NotesLonger
  <2>4. callback = "OnMsg" =>
          /\ Echoes(asked')[seen - 1] = Echoes(asked)[seen - 1]
          /\ Chosen(asked', Before(asked', seen))[next - 1] = Chosen(asked, Before(asked, seen))[next - 1]
    BY <1>4, <2>1, NotesLonger
  <2> QED BY <1>1, <1>2, <2>1, <2>2, <2>3, <2>4 DEF Here, World, Echoed, fixed
<1>10. Recorded'
  <2> SUFFICES ASSUME kind = "client" PROVE Recorded'
    BY DEF Recorded, fixed
  <2>1. Handed \in 0 .. Len(asked) /\ Handed' = Handed
    <3>1. Handed' = Handed
      BY <1>1, <1>2 DEF Handed
    <3> QED BY <1>3, <3>1, HandedIs
  <2>2. /\ KnownTo(asked', Handed) = KnownTo(asked, Handed)
        /\ Way(asked')[Handed] = Way(asked)[Handed]
        /\ Handed # 0 => asked'[Handed] = asked[Handed]
    BY <1>4, <2>1, RouteLonger
  <2> QED BY <1>1, <2>1, <2>2 DEF Here, World, Recorded, fixed
<1>11. Replied' /\ Whole'
  BY <1>1, <1>2 DEF Here, World, Replied, Whole, HasWriter, fixed
<1> QED BY <1>5, <1>6, <1>7, <1>8, <1>9, <1>10, <1>11 DEF World

-----------------------------------------------------------------------------
(***************************************************************************)
(* The connection.                                                         *)
(***************************************************************************)
\* What the server is given.
LEMMA DeliveringSteps ==
  ASSUME Here, UNCHANGED fixed, DeliverRequest \/ DeliverEnd \/ ServerLearns
  PROVE  World'
<1>1. /\ UNCHANGED <<todo, asked, answered, seen, next, record_route_result_, received_notes_>>
      /\ UNCHANGED <<fetched, broken>> /\ UNCHANGED <<replies, final, writing, copies>>
      /\ UNCHANGED <<entry, held, started, sent, reading, callback, first>>
  BY DEF DeliverRequest, DeliverEnd, ServerLearns, Server!ClientSends, Server!ClientEnds,
     Server!answer, content, connection, client, server
<1>2. Asked' /\ Fetched' /\ Counted' /\ Listed' /\ Echoed' /\ Recorded' /\ Replied' /\ Whole'
  <2>1. writing = "closed" => todo = << >>
    BY DEF Here, World, Asked
  <2> QED BY <1>1, <2>1, AskedKept, FetchedKept, CountedKept, ListedKept, EchoedKept, RecordedKept, RepliedKept,
             WholeKept DEF Here, World
<1>3. CASE DeliverRequest /\ Streams
  <2>1. /\ arrived < Len(asked) /\ arrived' = arrived + 1
        /\ stream = "open" /\ stream' = stream /\ inbox' = Append(inbox, "good")
    BY <1>3 DEF DeliverRequest, Server!ClientSends
  <2>2. /\ inbox' \in Seq({"good", "bad"}) /\ Len(inbox') = Len(inbox) + 1 /\ Len(inbox) \in Nat
        /\ \A i \in 1 .. Len(inbox') : inbox'[i] = "good"
    BY <2>1 DEF Here, ServerFacts, World, Carried
  <2>3. arrived \in Nat /\ seen \in Nat /\ seen + Len(inbox) = arrived /\ arrived' \in 0 .. Len(asked)
    <3>1. Len(asked) \in Nat
      BY <1>3, HandedIs
    <3> QED BY <1>3, <2>1, <3>1 DEF Here, World, Carried
  <2>4. seen + Len(inbox') = arrived'
    BY <2>1, <2>2, <2>3
  <2>5. Carried'
    BY <1>1, <1>3, <2>1, <2>2, <2>3, <2>4 DEF Here, World, Carried, fixed, Streams
  <2>6. Handled'
    BY <1>1, <1>3, <2>1 DEF Here, World, Handled, fixed, Streams
  <2> QED BY <1>2, <2>5, <2>6 DEF World
<1>4. CASE DeliverRequest /\ ~ Streams
  <2>1. /\ arrived < Len(asked) /\ arrived' = arrived + 1 /\ UNCHANGED <<stream, inbox>>
    BY <1>4 DEF DeliverRequest, server
  <2>2. asked = <<asked[1]>>
    <3>1. asked \in Requests[Method(program)] /\ Method(program) \in {"SayHello", "GetFeature", "ListFeatures"}
      BY <1>4, KindsAre DEF Here, World, Asked, Kinds, Streams
    <3> QED BY <3>1, RequestsAssumption
  <2>3. arrived' \in 0 .. Len(asked)
    BY <2>1, <2>2 DEF Here, World, Carried
  <2>4. Carried'
    BY <1>1, <1>4, <2>1, <2>3 DEF Here, World, Carried, fixed, Streams
  <2>5. Handled'
    BY <1>1, <2>1, HandledKept DEF Here, World
  <2> QED BY <1>2, <2>4, <2>5 DEF World
<1>5. CASE DeliverEnd \/ ServerLearns
  <2>1. /\ UNCHANGED <<arrived, inbox>> /\ Streams /\ stream = "open"
        /\ \/ stream' = "ended" /\ writing = "closed" /\ arrived = Len(asked)
           \/ stream' = "broken" /\ broken
    BY <1>5 DEF DeliverEnd, ServerLearns, Server!ClientEnds, Server!ClientStreaming, Streams,
       connection
  <2>2. Carried'
    BY <1>1, <2>1 DEF Here, World, Carried, fixed, Streams
  <2>3. Handled'
    BY <1>1, <2>1 DEF Here, World, Handled, fixed, Streams
  <2> QED BY <1>2, <2>2, <2>3 DEF World
<1> QED BY <1>3, <1>4, <1>5

LEMMA BreakingSteps ==
  ASSUME Here, UNCHANGED fixed, Break
  PROVE  World'
<1>1. /\ UNCHANGED <<todo, asked, answered, seen, next, record_route_result_, received_notes_>>
      /\ UNCHANGED <<arrived, fetched>> /\ UNCHANGED <<replies, final, writing, copies>>
      /\ UNCHANGED <<entry, held, started, sent, reading, callback, inbox, stream, first>>
      /\ broken'
  BY DEF Break, content, client, server
<1>2. writing = "closed" => todo = << >>
  BY DEF Here, World, Asked
<1>3. Asked' /\ Carried' /\ Handled' /\ Fetched' /\ Counted'
  BY <1>1, <1>2, AskedKept, CarriedKept, HandledKept, FetchedKept, CountedKept DEF Here, World
<1>4. Listed' /\ Echoed' /\ Recorded' /\ Replied' /\ Whole'
  BY <1>1, ListedKept, EchoedKept, RecordedKept, RepliedKept, WholeKept DEF Here, World
<1> QED BY <1>3, <1>4 DEF World

LEMMA PlanIs ==
  ASSUME Here, Streams, writing = "closed"
  PROVE  Plan = asked
<1>1. todo = << >> /\ kind \in {"client", "bidi"}
  BY DEF Here, World, Asked, Streams
<1>2. CASE kind = "client"
  <2>1. asked \in Seq(Point)
    BY <1>2 DEF Here, World, Asked
  <2> QED BY <1>1, <2>1, ConcatEmptySeq DEF Plan
<1>3. CASE kind = "bidi"
  <2>1. asked \in Seq(Note)
    BY <1>3 DEF Here, World, Asked
  <2> QED BY <1>1, <2>1, ConcatEmptySeq DEF Plan
<1> QED BY <1>1, <1>2, <1>3

\* A writer closes only when the loop of ListFeatures, or the reader of RouteChat, is
\* done.
LEMMA ClosedIs ==
  ASSUME Here, ~ broken, first = "auto", HasWriter
  PROVE  answered = Expected /\ writing = "closed"
<1>1. /\ \A h \in Holders : held[h] = 0
      /\ made # 0 /\ entry \in {"called", "deserialize", "handler", "reset", "start", "leave", "returned"}
      /\ entry = "called" => made = 0
      /\ entry \in {"deserialize", "handler", "reset", "start", "leave"} => held["entry"] = 1
  BY DEF Here, ServerFacts
<1>2. held["entry"] = 0 /\ held["reader"] = 0 /\ held["t"] = 0
  BY <1>1 DEF Holders
<1>3. entry = "returned"
  BY <1>1, <1>2
<1>4. Kinds
  BY KindsAre DEF Here
<1>5. CASE kind = "server"
  <2>1. next > Len(Features)
    BY <1>2, <1>3, <1>5 DEF Here, World, Handled
  <2>2. Len(Features) \in Nat
    BY FeaturesAssumption, LenProperties
  <2>3. answered = Chosen(Features, Inside(asked[1]))[Len(Features)]
    <3>1. PICK k \in 0 .. next - 1 :
            /\ answered = Chosen(Features, Inside(asked[1]))[k]
            /\ k = next - 1 \/ (broken /\ next = Len(Features) + 1)
      BY <1>5 DEF Here, World, Listed
    <3>2. next \in 1 .. Len(Features) + 1
      BY <1>5 DEF Here, World, Listed
    <3>3. k = Len(Features)
      BY <2>1, <2>2, <3>1, <3>2
    <3> QED BY <3>1, <3>3
  <2>4. Method(program) = "ListFeatures" /\ writing = "closed"
    BY <1>4, <1>5 DEF Kinds, Here, World, Asked
  <2> QED BY <2>3, <2>4 DEF Expected
<1>6. CASE kind = "bidi"
  <2>1. Streams /\ ~ reading
    BY <1>2, <1>6 DEF Streams, Here, ServerFacts
  <2>2. stream = "ended" /\ inbox = << >> /\ callback # "OnMsg"
    <3>1. "t" \in started
      BY <1>3, <2>1 DEF Here, World, Handled
    <3> QED BY <2>1, <3>1 DEF Here, World, Handled
  <2>3. writing = "closed" /\ seen = Len(asked)
    BY <2>1, <2>2, HandedIs DEF Here, World, Carried
  <2>4. answered = Echoes(asked)[Len(asked)]
    BY <1>6, <2>2, <2>3 DEF Here, World, Echoed
  <2>5. Plan = asked
    BY <2>1, <2>3, PlanIs
  <2>6. Method(program) = "RouteChat"
    BY <1>4, <1>6 DEF Kinds
  <2> QED BY <2>3, <2>4, <2>5, <2>6 DEF Expected
<1> QED BY <1>5, <1>6 DEF HasWriter

LEMMA OneIs ==
  ASSUME Here, ~ HasWriter, answered = Expected
  PROVE  Len(answered) = 1
<1>1. Method(program) \in {"SayHello", "GetFeature", "RecordRoute"}
  BY KindsAre DEF Here, Kinds
<1> QED BY <1>1 DEF Expected

LEMMA FetchingSteps ==
  ASSUME Here, ClientFacts', UNCHANGED fixed, DeliverReply \/ ClientLearns
  PROVE  World'
<1>1. /\ UNCHANGED <<todo, asked, answered, seen, next, record_route_result_, received_notes_>>
      /\ UNCHANGED <<arrived, broken>> /\ UNCHANGED <<writing, copies>>
      /\ UNCHANGED <<entry, held, started, sent, reading, callback, inbox, stream, first>>
  BY DEF DeliverReply, ClientLearns, Client!ServerSends, Client!ServerFinishes, Client!Breaks,
     Client!requests, content, connection, client, server
<1>2. writing = "closed" => todo = << >>
  BY DEF Here, World, Asked
<1>3. Asked' /\ Carried' /\ Handled' /\ Counted'
  BY <1>1, <1>2, AskedKept, CarriedKept, HandledKept, CountedKept DEF Here, World
<1>4. Listed' /\ Echoed' /\ Recorded' /\ Replied'
  BY <1>1, ListedKept, EchoedKept, RecordedKept, RepliedKept DEF Here, World
<1>5. CASE ClientLearns
  <2>1. /\ final = "none" /\ final' = "rpc" /\ UNCHANGED fetched
        /\ \E n \in taken .. Len(replies) : replies' = SubSeq(replies, 1, n)
    BY <1>5 DEF ClientLearns, Client!Breaks, connection
  <2>2. Len(replies') <= Len(replies) /\ Len(replies) \in Nat /\ Len(replies') \in Nat
    BY <2>1 DEF Here, ClientFacts
  <2>3. HasWriter => Len(replies') <= Msgs
    <3>1. HasWriter => Len(replies) <= Msgs
      BY DEF Here, World, Fetched
    <3>2. Msgs \in Int
      BY DEF Here, ServerFacts, Msgs
    <3> QED BY <2>2, <3>1, <3>2
  <2>4. Fetched'
    BY <1>1, <2>1, <2>3 DEF Here, World, Fetched, Msgs, HasWriter, fixed
  <2>5. Whole'
    BY <2>1 DEF Whole
  <2> QED BY <1>3, <1>4, <2>4, <2>5 DEF World
<1>6. CASE DeliverReply
  <2>1. /\ ~ broken /\ fetched < Len(sent) /\ fetched' = fetched + 1
        /\ fetched \in Nat /\ Len(sent) \in Nat /\ fetched' \in 1 .. Len(sent)
    BY <1>6 DEF DeliverReply, Here, World, Fetched, ServerFacts
  <2>2. CASE sent[fetched'] = "msg"
    <3>1. /\ HasWriter /\ final = "none" /\ final' = "none"
          /\ replies' = Append(replies, "good")
      BY <1>6, <2>2, InterfacesAre DEF DeliverReply, Client!ServerSends, Here
    <3>2. Len(replies') = Len(replies) + 1 /\ Len(replies) = fetched
      BY <3>1 DEF Here, ClientFacts, World, Fetched
    <3>3. fetched' <= Msgs
      <4>1. CASE first = "none"
        BY <2>1, <4>1 DEF Msgs
      <4>2. CASE first # "none"
        <5>1. sent[Len(sent)] # "msg"
          BY <4>2 DEF Here, ServerFacts
        <5> QED BY <2>1, <2>2, <4>2, <5>1 DEF Msgs
      <4> QED BY <4>1, <4>2
    <3>4. Fetched'
      BY <1>1, <2>1, <3>1, <3>2, <3>3 DEF Fetched, Msgs, HasWriter, fixed
    <3>5. Whole'
      BY <3>1 DEF Whole
    <3> QED BY <1>3, <1>4, <3>4, <3>5 DEF World
  <2>3. CASE sent[fetched'] # "msg"
    <3>1. /\ final = "none" /\ final' = "ok"
          /\ HasWriter => UNCHANGED replies
      BY <1>6, <2>3, InterfacesAre DEF DeliverReply, Client!ServerFinishes, Here
    <3>2. fetched' = Len(sent) /\ first = sent[Len(sent)] /\ first # "none"
      <4>1. ~ (fetched' \in 1 .. Len(sent) - 1)
        BY <2>3 DEF Here, ServerFacts
      <4>2. fetched' = Len(sent)
        BY <2>1, <4>1
      <4>3. sent[Len(sent)] \in Finals \cup {"msg"} /\ sent # << >>
        BY <2>1, <4>2 DEF Here, ServerFacts
      <4>4. first = sent[Len(sent)]
        BY <2>3, <4>2, <4>3 DEF Here, ServerFacts
      <4> QED BY <2>3, <4>2, <4>3, <4>4 DEF Finals
    <3>3. Fetched'
      <4>1. HasWriter => Len(replies') <= Msgs
        BY <3>1 DEF Here, World, Fetched
      <4> QED BY <1>1, <2>1, <3>1, <3>2, <4>1 DEF Fetched, Msgs, HasWriter, fixed
    <3>4. /\ first = IF HasWriter THEN "auto" ELSE "ok"
          /\ writing = "closed"
          /\ answered = Expected
          /\ Len(replies') = Len(answered)
      <4>1. CASE HasWriter
        <5>1. first = "auto" /\ Msgs = Len(answered)
          BY <2>1, <3>2, <4>1 DEF Here, World, Counted
        <5>2. Len(replies') = Len(sent) - 1
          BY <2>1, <3>1, <3>2, <4>1 DEF Here, World, Fetched
        <5> QED BY <2>1, <3>2, <4>1, <5>1, <5>2, ClosedIs DEF Msgs
      <4>2. CASE ~ HasWriter
        <5>1. first = "ok"
          BY <2>1, <3>2, <4>2 DEF Here, World, Counted
        <5>2. answered = Expected /\ writing = "closed"
          BY <4>2, <5>1 DEF Here, World, Replied
        <5>3. Client!OneReply'
          BY <4>2, InterfacesAre DEF Here, fixed, Client!OneReply
        <5>4. Len(replies') = 1
          BY <3>1, <5>3 DEF ClientFacts
        <5> QED BY <4>2, <5>1, <5>2, <5>4, OneIs
      <4> QED BY <4>1, <4>2
    <3>5. Whole'
      BY <1>1, <3>1, <3>4, ExpectedKept DEF Whole, HasWriter, fixed
    <3> QED BY <1>3, <1>4, <3>3, <3>5 DEF World
  <2> QED BY <2>2, <2>3
<1> QED BY <1>5, <1>6

-----------------------------------------------------------------------------
(***************************************************************************)
(* The server.  What its steps leave alone, and what they can do to the    *)
(* answer: nothing, the final answer, a message.                           *)
(***************************************************************************)
Served == UNCHANGED <<todo, asked, arrived, fetched, broken, replies, final, writing, copies>>

Gives ==
  \/ UNCHANGED <<sent, first, answered>>
  \/ /\ first = "none" /\ first' # "none" /\ sent' = Append(sent, first')
     /\ IF HasWriter THEN answered' = answered /\ (broken \/ first' = "auto")
                     ELSE broken \/ first' = "ok"
  \/ /\ HasWriter /\ first' = first
     /\ Len(answered') = Len(answered) + 1
     /\ \/ first = "none" /\ sent' = Append(sent, "msg")
        \/ first # "none" /\ first # "auto" /\ UNCHANGED sent

LEMMA AnswerKeeps ==
  ASSUME Here, UNCHANGED fixed, Served, Gives
  PROVE  Fetched' /\ Counted' /\ Whole' /\ Asked'
<1>1. /\ UNCHANGED <<todo, asked, arrived, fetched, broken, replies, final, writing, copies>>
      /\ HasWriter' = HasWriter
  BY DEF Served, HasWriter, fixed
<1>2. Asked'
  BY <1>1, AskedKept DEF Here, World, Asked
<1>3. CASE UNCHANGED <<sent, first, answered>>
  BY <1>1, <1>2, <1>3, FetchedKept, CountedKept, WholeKept DEF Here, World
<1>4. /\ sent \in Seq(Finals \cup {"msg"}) /\ Len(sent) \in Nat /\ Msgs \in Int
      /\ Fetched /\ Counted /\ Whole
  BY DEF Here, World, ServerFacts, Msgs
<1>5. CASE /\ first = "none" /\ first' # "none" /\ sent' = Append(sent, first')
           /\ IF HasWriter THEN answered' = answered /\ (broken \/ first' = "auto")
                           ELSE broken \/ first' = "ok"
  <2>1. Len(sent') = Len(sent) + 1 /\ Msgs' = Msgs /\ Msgs = Len(sent)
    <3>1. Len(sent') = Len(sent) + 1
      BY <1>4, <1>5
    <3> QED BY <1>4, <1>5, <3>1 DEF Msgs
  <2>2. final # "ok"
    BY <1>4, <1>5 DEF Fetched
  <2>3. Fetched'
    BY <1>1, <1>4, <2>1, <2>2 DEF Fetched
  <2>4. Counted'
    BY <1>1, <1>4, <1>5, <2>1 DEF Counted
  <2>5. Whole'
    BY <1>1, <2>2 DEF Whole
  <2> QED BY <1>2, <2>3, <2>4, <2>5
<1>6. CASE /\ HasWriter /\ first' = first
           /\ Len(answered') = Len(answered) + 1
           /\ \/ first = "none" /\ sent' = Append(sent, "msg")
              \/ first # "none" /\ first # "auto" /\ UNCHANGED sent
  <2>1. final # "ok"
    BY <1>4, <1>6 DEF Fetched, Whole
  <2>2. \/ first = "none" /\ Len(sent') = Len(sent) + 1 /\ Msgs' = Msgs + 1
        \/ first # "none" /\ broken /\ UNCHANGED sent /\ Msgs' = Msgs
    <3>1. CASE first = "none"
      <4>1. Len(sent') = Len(sent) + 1
        BY <1>4, <1>6, <3>1
      <4> QED BY <1>4, <1>6, <3>1, <4>1 DEF Msgs
    <3>2. CASE first # "none"
      BY <1>4, <1>6, <3>2 DEF Msgs, Counted
    <3> QED BY <3>1, <3>2
  <2>3. Len(sent) <= Len(sent') /\ Len(sent') \in Nat /\ Msgs <= Msgs' /\ Msgs' \in Int
    BY <1>4, <2>2
  <2>4. Fetched'
    BY <1>1, <1>4, <2>1, <2>3 DEF Fetched
  <2>5. Counted'
    <3>1. Len(answered) \in Nat /\ Msgs <= Len(answered) /\ (~ broken => Msgs = Len(answered))
      BY <1>4, <1>6 DEF Counted
    <3>2. Len(answered') \in Nat /\ Msgs' <= Len(answered') /\ (~ broken => Msgs' = Len(answered'))
      BY <1>4, <1>6, <2>2, <3>1
    <3>3. ~ broken => first' \in {"none", "auto"}
      BY <1>4, <1>6 DEF Counted
    <3> QED BY <1>1, <1>6, <3>2, <3>3 DEF Counted
  <2>6. Whole'
    BY <1>1, <2>1 DEF Whole
  <2> QED BY <1>2, <2>4, <2>5, <2>6
<1> QED BY <1>3, <1>5, <1>6 DEF Gives

-----------------------------------------------------------------------------
(***************************************************************************)
(* The operations of ServerCall in these terms.                            *)
(***************************************************************************)
LEMMA HoldersAre == Server!Holders = Holders
BY DEF Server!Holders, Holders

LEMMA RunsIs ==
  ASSUME Here, NEW h \in Holders, Server!Runs(h)
  PROVE  held[h] = 1 /\ first # "auto"
<1>1. held \in [Holders -> 0 .. made] /\ made \in {0, 1}
  BY DEF Here, ServerFacts
<1>2. held[h] # 0
  <2>1. h = "handler" /\ entry = "handler" => held["handler"] = 1
    BY DEF Here, ServerFacts
  <2>2. h = "reader" /\ callback # "idle" => held["reader"] # 0
    BY DEF Here, ServerFacts
  <2> QED BY <2>1, <2>2 DEF Server!Runs
<1>3. held[h] \in 0 .. made
  BY <1>1
<1>4. held[h] = 1
  BY <1>1, <1>2, <1>3
<1>5. first = "auto" => held[h] = 0
  BY DEF Here, ServerFacts
<1> QED BY <1>4, <1>5

LEMMA FinishIs ==
  ASSUME Here, NEW how \in Finals, Server!Finish(1, how)
  PROVE  \/ first = "none" /\ first' = how /\ sent' = Append(sent, how)
         \/ first # "none" /\ UNCHANGED <<sent, first>>
<1>1. done = IF first = "none" THEN {} ELSE {1}
  BY DEF Here, ServerFacts
<1>2. how # "none"
  BY DEF Finals
<1> QED BY <1>1, <1>2 DEF Server!Finish

LEMMA WriteIs ==
  ASSUME Here, Server!Write(1)
  PROVE  /\ first' = first
         /\ \/ first = "none" /\ sent' = Append(sent, "msg")
            \/ first # "none" /\ UNCHANGED sent
<1>1. done = IF first = "none" THEN {} ELSE {1}
  BY DEF Here, ServerFacts
<1> QED BY <1>1 DEF Server!Write

LEMMA DropIs ==
  ASSUME Here, NEW H \in SUBSET Holders, Server!Drop(H)
  PROVE  /\ held' = [h \in Holders |-> IF h \in H THEN 0 ELSE held[h]]
         /\ \/ UNCHANGED <<sent, first>>
            \/ HasWriter /\ first = "none" /\ first' = "auto" /\ sent' = Append(sent, "auto")
<1> DEFINE Closes(h) == held[h] # 0 /\ Server!Unheld(held[h])
<1>1. held' = [h \in Holders |-> IF h \in H THEN 0 ELSE held[h]]
  BY HoldersAre DEF Server!Drop
<1>2. held \in [Holders -> 0 .. made] /\ made \in {0, 1}
  BY DEF Here, ServerFacts
<1>3. CASE Server!HasWriter /\ \E h \in H : Closes(h)
  <2>1. Server!Finish(held[CHOOSE h \in H : Closes(h)], "auto")
    BY <1>3 DEF Server!Drop
  <2>2. (CHOOSE h \in H : Closes(h)) \in H /\ Closes(CHOOSE h \in H : Closes(h))
    BY <1>3
  <2>3. PICK g \in H : Closes(g) /\ Server!Finish(held[g], "auto")
    BY <2>1, <2>2
  <2>4. held[g] = 1
    <3>1. held[g] \in 0 .. made
      BY <1>2
    <3> QED BY <1>2, <2>3, <3>1
  <2>5. "auto" \in Finals
    BY DEF Finals
  <2>6. \/ first = "none" /\ first' = "auto" /\ sent' = Append(sent, "auto")
        \/ first # "none" /\ UNCHANGED <<sent, first>>
    BY <2>3, <2>4, <2>5, FinishIs
  <2> QED BY <1>1, <1>3, <2>6 DEF Server!HasWriter, HasWriter
<1>4. CASE ~ (Server!HasWriter /\ \E h \in H : Closes(h))
  <2>1. UNCHANGED <<sent, first>>
    BY <1>4 DEF Server!Drop, Server!answer
  <2> QED BY <1>1, <2>1
<1> QED BY <1>3, <1>4

-----------------------------------------------------------------------------
(***************************************************************************)
(* The threads of the server.                                              *)
(***************************************************************************)
\* What the actions of a server leave alone.
LEMMA ServerActions ==
  ASSUME UNCHANGED <<connection, client>>, UNCHANGED <<todo, asked>>
  PROVE  Served
BY DEF Served, connection, client

LEMMA OnServerActions ==
  ASSUME UNCHANGED <<content, connection, client>>
  PROVE  Served /\ UNCHANGED <<answered, seen, next, record_route_result_, received_notes_>>
BY DEF Served, content, connection, client

\* A step that only moves handles and changes who runs.  What it does to the answer
\* is to close the writer, or to give up when the connection is broken.
LEMMA MovingKeeps ==
  ASSUME Here, UNCHANGED fixed, UNCHANGED <<content, connection, client>>,
         UNCHANGED <<inbox, stream>>,
         callback' = callback \/ (callback # "OnMsg" /\ callback' \in {"idle", "OnEnd"}),
         \/ UNCHANGED <<sent, first>>
         \/ HasWriter /\ first = "none" /\ first' = "auto" /\ sent' = Append(sent, "auto")
         \/ broken /\ first = "none" /\ first' = "error" /\ sent' = Append(sent, "error"),
         ~ Streams => ~ reading', Handled'
  PROVE  World'
<1>1. Served /\ UNCHANGED <<answered, seen, next, record_route_result_, received_notes_>>
  BY OnServerActions
<1>2. UNCHANGED <<todo, asked, arrived, fetched, broken, replies, final, writing, copies>>
  BY <1>1 DEF Served
<1>3. Gives
  <2>1. CASE UNCHANGED <<sent, first>>
    BY <1>1, <2>1 DEF Gives
  <2>2. CASE HasWriter /\ first = "none" /\ first' = "auto" /\ sent' = Append(sent, "auto")
    BY <1>1, <2>2 DEF Gives
  <2>3. CASE broken /\ first = "none" /\ first' = "error" /\ sent' = Append(sent, "error")
    BY <1>1, <2>3 DEF Gives
  <2> QED BY <2>1, <2>2, <2>3
<1>4. Fetched' /\ Counted' /\ Whole' /\ Asked'
  BY <1>1, <1>3, AnswerKeeps
<1>5. Carried'
  BY <1>1, <1>2 DEF Here, World, Carried, fixed, Streams
<1>6. (callback' = "OnMsg" <=> callback = "OnMsg") /\ Handed' = Handed
  BY <1>1 DEF Handed
<1>7. Listed'
  BY <1>1, <1>2, ListedKept DEF Here, World
<1>8. Echoed'
  BY <1>1, <1>2, <1>6 DEF Here, World, Echoed, fixed
<1>9. Recorded'
  BY <1>1, <1>2, <1>6 DEF Here, World, Recorded, fixed
<1>10. Replied'
  <2>1. first' = "ok" => first = "ok"
    OBVIOUS
  <2>2. Expected' = Expected
    BY <1>2, ExpectedKept
  <2> QED BY <1>1, <1>2, <2>1, <2>2 DEF Here, World, Replied, HasWriter, fixed
<1> QED BY <1>4, <1>5, <1>7, <1>8, <1>9, <1>10 DEF World

LEMMA EntrySteps ==
  ASSUME Here, UNCHANGED fixed, Entry
  PROVE  World'
<1>1. /\ UNCHANGED <<content, connection, client>>
      /\ Streams \/ arrived > 0
      /\ \/ Server!MakeHandle \/ Server!CallHandler \/ Server!MakeHandleForReader
         \/ Server!StartResets \/ Server!StartReads \/ Server!EntryReturns
  BY DEF Entry, OnServer
<1>2. /\ UNCHANGED <<next, broken>>
      /\ held \in [Holders -> 0 .. made] /\ Handled /\ Server!ClientStreaming = Streams
      /\ ~ Streams => ~ reading
  BY <1>1 DEF content, connection, Here, World, Carried, ServerFacts, Server!ClientStreaming,
     Streams
<1>3. CASE Server!MakeHandle \/ Server!CallHandler \/ Server!MakeHandleForReader
           \/ Server!StartResets
  <2>1. /\ UNCHANGED <<started, callback, inbox, stream, sent, first, reading>>
        /\ entry \in {"called", "deserialize", "reset"}
        /\ \/ entry' \in {"deserialize", "handler"}
           \/ entry = "reset" /\ entry' = "start"
    BY <1>3 DEF Server!MakeHandle, Server!CallHandler, Server!MakeHandleForReader,
       Server!StartResets, Server!answer, Server!client
  <2>2. held'["t"] = held["t"]
    BY <1>2, <1>3 DEF Server!MakeHandle, Server!CallHandler, Server!MakeHandleForReader,
       Server!StartResets, Holders
  <2>3. Handled'
    BY <1>2, <2>1, <2>2 DEF Handled, fixed, Streams
  <2> QED BY <1>1, <1>2, <2>1, <2>3, MovingKeeps
<1>4. CASE Server!StartReads
  <2>1. /\ UNCHANGED <<started, callback, inbox, stream, sent, first, held>>
        /\ reading' = TRUE /\ entry = "start" /\ entry' = "leave"
    BY <1>4 DEF Server!StartReads, Server!answer, Server!client
  <2>2. Streams
    BY <1>2, <2>1 DEF Handled
  <2>3. Handled'
    BY <1>2, <2>1, <2>2 DEF Handled, fixed, Streams
  <2> QED BY <1>1, <2>1, <2>2, <2>3, MovingKeeps
<1>5. CASE Server!EntryReturns
  <2>1. /\ UNCHANGED <<started, callback, inbox, stream, reading>>
        /\ entry = "leave" /\ entry' = "returned" /\ Server!Drop({"entry"})
    BY <1>5 DEF Server!EntryReturns, Server!client
  <2>2. /\ held' = [h \in Holders |-> IF h \in {"entry"} THEN 0 ELSE held[h]]
        /\ \/ UNCHANGED <<sent, first>>
           \/ HasWriter /\ first = "none" /\ first' = "auto" /\ sent' = Append(sent, "auto")
    BY <2>1, DropIs DEF Holders
  <2>3. held'["t"] = held["t"]
    BY <2>2 DEF Holders
  <2>4. Streams /\ kind # "server"
    BY <1>2, <2>1 DEF Handled, Streams
  <2>5. Handled'
    BY <1>2, <2>1, <2>3, <2>4 DEF Handled, fixed, Streams
  <2> QED BY <1>1, <1>2, <2>1, <2>2, <2>5, MovingKeeps
<1> QED BY <1>1, <1>3, <1>4, <1>5

LEMMA ReturningSteps ==
  ASSUME Here, UNCHANGED fixed, HandlerReturns
  PROVE  World'
<1>1. /\ UNCHANGED <<content, connection, client>>
      /\ \/ Server!HandlerReturns /\ ~ Streams /\ (kind = "server" => started # {})
         \/ Server!HandlerReturnsReader
  BY DEF HandlerReturns, OnServer
<1>2. /\ UNCHANGED <<next, broken>>
      /\ started \subseteq {"t"} /\ Handled /\ Server!ClientStreaming = Streams
      /\ ~ Streams => ~ reading
  BY <1>1 DEF content, connection, Here, World, Carried, ServerFacts, Server!ClientStreaming,
     Streams
<1>3. /\ UNCHANGED <<started, callback, inbox, stream, reading>> /\ entry = "handler"
      /\ \/ entry' = "returned" /\ ~ Streams /\ (kind = "server" => started # {})
         \/ entry' = "reset" /\ Streams
      /\ \E H \in SUBSET {"handler", "entry"} : Server!Drop(H)
  BY <1>1, <1>2 DEF Server!HandlerReturns, Server!HandlerReturnsReader, Server!client
<1>4. PICK H \in SUBSET {"handler", "entry"} : Server!Drop(H)
  BY <1>3
<1>5. /\ held' = [h \in Holders |-> IF h \in H THEN 0 ELSE held[h]]
      /\ \/ UNCHANGED <<sent, first>>
         \/ HasWriter /\ first = "none" /\ first' = "auto" /\ sent' = Append(sent, "auto")
  <2>1. H \in SUBSET Holders
    BY DEF Holders
  <2> QED BY <1>4, <2>1, DropIs
<1>6. held'["t"] = held["t"]
  <2>1. "t" \notin H /\ "t" \in Holders
    BY DEF Holders
  <2> QED BY <1>5, <2>1
<1>7. Handled'
  <2>1. kind = "server" /\ entry' = "returned" => "t" \in started
    BY <1>2, <1>3 DEF Streams
  <2> QED BY <1>2, <1>3, <1>6, <2>1 DEF Handled, fixed, Streams
<1> QED BY <1>1, <1>2, <1>3, <1>5, <1>7, MovingKeeps

\* ThreadEnds of the thread that ListFeatures or the reader started.
LEMMA EndingSteps ==
  ASSUME Here, UNCHANGED fixed, ThreadEnds
  PROVE  World'
<1>1. /\ UNCHANGED <<content, connection, client>>
      /\ kind = "server" => next > Len(Features)
      /\ held["t"] # 0 /\ Server!Drop({"t"})
      /\ UNCHANGED <<started, entry, callback, inbox, stream, reading>>
  BY DEF ThreadEnds, OnServer, Server!ThreadEnds, Server!client
<1>2. UNCHANGED <<next, broken>> /\ Handled /\ (~ Streams => ~ reading)
  BY <1>1 DEF content, connection, Here, World, Carried
<1>3. /\ held' = [h \in Holders |-> IF h \in {"t"} THEN 0 ELSE held[h]]
      /\ \/ UNCHANGED <<sent, first>>
         \/ HasWriter /\ first = "none" /\ first' = "auto" /\ sent' = Append(sent, "auto")
  BY <1>1, DropIs DEF Holders
<1>4. held'["t"] = 0
  BY <1>3 DEF Holders
<1>5. Handled'
  BY <1>1, <1>2, <1>4 DEF Handled, fixed, Streams
<1> QED BY <1>1, <1>2, <1>3, <1>5, MovingKeeps

\* ReplyFeature: GetFeature and SayHello reply with what is expected.
LEMMA ReplyingSteps ==
  ASSUME Here, UNCHANGED fixed, ReplyFeature
  PROVE  World'
<1>1. /\ entry = "handler" /\ kind = "unary" /\ done = {}
      /\ Server!UserFinishes("handler", "ok")
      /\ answered' = <<Answer(asked[1])>>
      /\ UNCHANGED <<todo, asked, seen, next, record_route_result_, received_notes_>>
      /\ UNCHANGED <<connection, client>>
  BY DEF ReplyFeature
<1>2. /\ UNCHANGED <<entry, held, started, reading, callback, inbox, stream>>
      /\ Server!Runs("handler") /\ Server!Finish(held["handler"], "ok")
  BY <1>1 DEF Server!UserFinishes, Server!client
<1>3. first = "none" /\ first' = "ok" /\ sent' = Append(sent, "ok")
  <2>1. held["handler"] = 1
    BY <1>2, RunsIs DEF Holders
  <2>2. first = "none"
    BY <1>1 DEF Here, ServerFacts
  <2> QED BY <1>2, <2>1, <2>2, FinishIs DEF Finals
<1>4. Kinds /\ Kinds'
  BY KindsAre DEF Here, Kinds, fixed, Streams, HasWriter
<1>5. ~ HasWriter /\ ~ Streams /\ Method(program) \in {"SayHello", "GetFeature"}
  BY <1>1, <1>4 DEF Kinds
<1>6. Served /\ UNCHANGED <<arrived, broken, writing>>
  BY <1>1, ServerActions DEF connection, client
<1>7. Fetched' /\ Counted' /\ Whole' /\ Asked'
  BY <1>3, <1>5, <1>6, AnswerKeeps DEF Gives
<1>8. Carried' /\ Handled' /\ Recorded'
  BY <1>1, <1>2, <1>6, CarriedKept, HandledKept, RecordedKept DEF Here, World
<1>9. Listed' /\ Echoed'
  BY <1>1 DEF Listed, Echoed, fixed
<1>10. answered' = Expected /\ writing = "closed"
  <2>1. asked \in Requests[Method(program)] /\ writing = "closed"
    BY <1>5 DEF Here, World, Asked
  <2>2. CASE Method(program) = "SayHello"
    BY <1>1, <2>1, <2>2 DEF Answer, Expected
  <2>3. CASE Method(program) = "GetFeature"
    <3>1. asked[1] \in Point
      BY <2>1, <2>3, RequestsAssumption
    <3>2. GetFeatureName(asked[1]) = NameAt(asked[1])
      BY <3>1, NameIs
    <3> QED BY <1>1, <2>1, <2>3, <3>2 DEF Answer, Expected
  <2> QED BY <1>5, <2>2, <2>3, <2>1
<1>11. Replied'
  BY <1>1, <1>6, <1>10, ExpectedKept DEF Replied
<1> QED BY <1>7, <1>8, <1>9, <1>11 DEF World

LEMMA ListingSteps ==
  ASSUME Here, UNCHANGED fixed, ListFeatures
  PROVE  World'
<1>1. /\ kind = "server" /\ UNCHANGED <<content, connection, client>>
      /\ UNCHANGED <<entry, sent, first, reading, callback, inbox, stream>>
      /\ Server!Runs("handler")
      /\ started' = started \cup {"t"}
      /\ held' = [held EXCEPT !["t"] = held["handler"]]
  BY DEF ListFeatures, OnServer, Server!UserStartsThread, Server!answer, Server!client
<1>2. entry = "handler" /\ held["handler"] = 1
  BY <1>1, RunsIs DEF Holders, Server!Runs
<1>3. held'["t"] = 1
  BY <1>1, <1>2 DEF Here, ServerFacts, Holders
<1>4. ~ Streams /\ ~ reading
  BY <1>1 DEF Streams, Here, World, Carried
<1>5. Handled'
  BY <1>1, <1>2, <1>3, <1>4 DEF Handled, fixed, Streams
<1> QED BY <1>1, <1>4, <1>5, MovingKeeps

-----------------------------------------------------------------------------
(***************************************************************************)
(* The readers of RecordRoute and RouteChat.                               *)
(***************************************************************************)
LEMMA ReaderKinds ==
  ASSUME Here, reading
  PROVE  Streams /\ kind \in {"client", "bidi"}
BY DEF Here, World, Carried, Streams

LEMMA TakingSteps ==
  ASSUME Here, UNCHANGED fixed, OnMsgStr
  PROVE  World'
<1>1. /\ Server!OnMsgStr
      /\ seen' = seen + 1 /\ next' = 1
      /\ UNCHANGED <<todo, asked, answered, record_route_result_, received_notes_>>
      /\ UNCHANGED <<connection, client>>
  BY DEF OnMsgStr
<1>2. /\ reading /\ callback = "idle" /\ inbox # << >> /\ inbox' = Tail(inbox)
      /\ UNCHANGED <<entry, started, stream>>
      /\ Head(inbox) = "good" =>
           callback' = "OnMsg" /\ UNCHANGED <<sent, first, held, reading>>
  BY <1>1 DEF Server!OnMsgStr, Server!answer
<1>3. Streams /\ kind \in {"client", "bidi"}
  BY <1>2, ReaderKinds
<1>4. /\ inbox \in Seq({"good", "bad"}) /\ Len(inbox) \in Nat /\ Len(inbox) # 0
      /\ \A i \in 1 .. Len(inbox) : inbox[i] = "good"
      /\ seen \in Nat /\ seen + Len(inbox) = arrived /\ arrived \in 0 .. Len(asked)
      /\ stream = "ended" => writing = "closed" /\ arrived = Len(asked)
      /\ stream = "broken" => broken
  BY <1>2, <1>3 DEF Here, ServerFacts, World, Carried
<1>5. /\ Head(inbox) = "good"
      /\ Len(inbox') = Len(inbox) - 1
      /\ \A i \in 1 .. Len(inbox') : inbox'[i] = "good"
  BY <1>2, <1>4
<1>6. callback' = "OnMsg" /\ UNCHANGED <<sent, first, held, reading>>
  BY <1>2, <1>5
<1>7. Served /\ UNCHANGED <<arrived, broken, writing>>
  BY <1>1, ServerActions DEF connection, client
<1>8. Fetched' /\ Counted' /\ Whole' /\ Asked'
  BY <1>1, <1>6, <1>7, AnswerKeeps DEF Gives
<1>9. Carried'
  <2>1. seen' + Len(inbox') = arrived' /\ seen' \in Nat /\ seen' > 0
    <3>1. /\ seen' = seen + 1 /\ seen \in Nat /\ Len(inbox) \in Nat
          /\ Len(inbox') = Len(inbox) - 1 /\ seen + Len(inbox) = arrived /\ arrived' = arrived
      BY <1>1, <1>4, <1>5, <1>7
    <3> QED BY <3>1
  <2> QED BY <1>1, <1>2, <1>3, <1>4, <1>5, <1>6, <1>7, <2>1 DEF Carried, fixed, Streams
<1>10. Handled'
  BY <1>1, <1>2, <1>3, <1>6, <1>7 DEF Here, World, Handled, fixed, Streams
<1>11. Listed'
  BY <1>3 DEF Listed, fixed
<1>12. Handed' = Handed /\ Handed = seen /\ seen' - 1 = seen
  BY <1>1, <1>2, <1>4, <1>6 DEF Handed
<1>13. Echoed'
  <2> SUFFICES ASSUME kind = "bidi" PROVE Echoed'
    BY DEF Echoed, fixed
  <2>1. /\ received_notes_ = SubSeq(asked, 1, Handed) /\ answered = Echoes(asked)[seen]
    BY <1>2 DEF Here, World, Echoed
  <2>2. next' \in 1 .. seen' /\ next' - 1 = 0
    BY <1>1, <1>4
  <2>3. asked \in Seq(Note) /\ Echoes(asked)[seen] \in Seq(Note)
    <3>1. asked \in Seq(Note)
      BY DEF Here, World, Asked
    <3>2. seen \in 0 .. Len(asked)
      BY <1>3, HandedIs
    <3> QED BY <3>1, <3>2, EchoesIs
  <2>4. Chosen(asked, Before(asked, seen'))[0] = << >>
    <3> DEFINE S == Note
               P == Before(asked, seen')
    <3>1. asked \in Seq(S)
      BY <2>3
    <3> HIDE DEF S, P
    <3>2. Chosen(asked, P)[0] = << >>
      BY <3>1, ChosenIs
    <3> QED BY <3>2 DEF P
  <2>5. answered = Echoes(asked)[seen] \o << >>
    <3> DEFINE V == Note
    <3>1. Echoes(asked)[seen] \in Seq(V)
      BY <2>3
    <3> HIDE DEF V
    <3> QED BY <2>1, <3>1, ConcatEmptySeq
  <2>6. answered' = Echoes(asked')[seen' - 1] \o Chosen(asked', Before(asked', seen'))[next' - 1]
    BY <1>1, <1>12, <2>2, <2>4, <2>5
  <2> QED BY <1>1, <1>6, <1>12, <2>1, <2>2, <2>6 DEF Echoed
<1>14. Recorded'
  BY <1>1, <1>12 DEF Here, World, Recorded, fixed
<1>15. Replied'
  BY <1>1, <1>6, <1>7, RepliedKept DEF Here, World
<1> QED BY <1>8, <1>9, <1>10, <1>11, <1>13, <1>14, <1>15 DEF World

LEMMA EndingReaderSteps ==
  ASSUME Here, UNCHANGED fixed, ReaderEnds
  PROVE  World'
<1>1. /\ UNCHANGED <<content, connection, client>>
      /\ Server!OnEnd \/ Server!OnBroken
  BY DEF ReaderEnds, OnServer
<1>2. /\ UNCHANGED <<next, broken>> /\ Handled /\ Carried
  BY <1>1 DEF content, connection, Here, World
<1>3. CASE Server!OnEnd
  <2>1. /\ reading /\ callback = "idle" /\ inbox = << >> /\ stream = "ended" /\ callback' = "OnEnd"
        /\ UNCHANGED <<started, entry, held, sent, first, reading, inbox, stream>>
    BY <1>3 DEF Server!OnEnd, Server!answer, Server!client
  <2>2. Handled'
    BY <1>2, <2>1 DEF Handled, fixed, Streams
  <2>3. Streams
    BY <2>1, ReaderKinds
  <2> QED BY <1>1, <2>1, <2>2, <2>3, MovingKeeps
<1>4. CASE Server!OnBroken
  <2>1. /\ reading /\ callback = "idle" /\ stream = "broken" /\ Server!OnError
        /\ UNCHANGED <<started, entry, inbox, stream>>
    BY <1>4 DEF Server!OnBroken, Server!client
  <2>2. /\ Server!Finish(held["reader"], "error") /\ held' = [held EXCEPT !["reader"] = 0]
        /\ reading' = FALSE /\ callback' = callback
    BY <2>1 DEF Server!OnError, Here, Fixed
  <2>3. held["reader"] = 1
    <3>1. held["reader"] \in 0 .. made /\ made \in {0, 1} /\ held["reader"] # 0
      BY <2>1 DEF Here, ServerFacts, Holders
    <3> QED BY <3>1
  <2>4. \/ first = "none" /\ first' = "error" /\ sent' = Append(sent, "error")
        \/ first # "none" /\ UNCHANGED <<sent, first>>
    BY <2>2, <2>3, FinishIs DEF Finals
  <2>5. held'["t"] = held["t"]
    BY <2>2 DEF Here, ServerFacts, Holders
  <2>6. broken /\ Streams
    BY <1>2, <2>1, ReaderKinds DEF Carried
  <2>7. Handled'
    BY <1>2, <2>1, <2>2, <2>5, <2>6 DEF Handled, fixed, Streams
  <2> QED BY <1>1, <2>1, <2>2, <2>4, <2>6, <2>7, MovingKeeps
<1> QED BY <1>1, <1>3, <1>4

\* OnEnd starts the thread that closes, or replies.
LEMMA OnEndSteps ==
  ASSUME Here, UNCHANGED fixed, OnEnd
  PROVE  World'
<1>1. /\ UNCHANGED <<content, connection, client>>
      /\ \/ callback = "OnEnd" /\ Server!UserStartsThread("reader", "t")
         \/ started # {} /\ Server!LastCallbackReturns
  BY DEF OnEnd, OnServer
<1>2. /\ UNCHANGED <<next, broken>> /\ Handled /\ Carried /\ started \subseteq {"t"}
  BY <1>1 DEF content, connection, Here, World, ServerFacts
<1>3. callback = "OnEnd" /\ reading
  <2>1. callback \in {"OnEnd", "OnError"}
    BY <1>1 DEF Server!LastCallbackReturns
  <2>2. callback = "OnEnd"
    BY <1>2, <2>1 DEF Carried
  <2> QED BY <2>2 DEF Here, ServerFacts
<1>4. Streams /\ kind \in {"client", "bidi"}
  BY <1>3, ReaderKinds
<1>5. CASE Server!UserStartsThread("reader", "t")
  <2>1. /\ UNCHANGED <<entry, sent, first, reading, callback, inbox, stream>>
        /\ Server!Runs("reader")
        /\ started' = started \cup {"t"}
        /\ held' = [held EXCEPT !["t"] = held["reader"]]
    BY <1>5 DEF Server!UserStartsThread, Server!answer, Server!client
  <2>2. held["reader"] = 1
    BY <2>1, RunsIs DEF Holders
  <2>3. held'["t"] = 1
    BY <2>1, <2>2 DEF Here, ServerFacts, Holders
  <2>4. Handled'
    BY <1>2, <1>3, <1>4, <2>1, <2>3 DEF Handled, fixed, Streams
  <2> QED BY <1>1, <1>4, <2>1, <2>4, MovingKeeps
<1>6. CASE started # {} /\ Server!LastCallbackReturns
  <2>1. /\ UNCHANGED <<started, entry, inbox, stream>> /\ "t" \in started
        /\ callback' = "idle" /\ reading' = FALSE /\ Server!Drop({"reader"})
    BY <1>2, <1>6 DEF Server!LastCallbackReturns, Server!client
  <2>2. /\ held' = [h \in Holders |-> IF h \in {"reader"} THEN 0 ELSE held[h]]
        /\ \/ UNCHANGED <<sent, first>>
           \/ HasWriter /\ first = "none" /\ first' = "auto" /\ sent' = Append(sent, "auto")
    BY <2>1, DropIs DEF Holders
  <2>3. held'["t"] = held["t"]
    BY <2>2 DEF Holders
  <2>4. Handled'
    BY <1>2, <1>3, <1>4, <2>1, <2>3 DEF Handled, fixed, Streams
  <2> QED BY <1>1, <1>3, <1>4, <2>1, <2>2, <2>4, MovingKeeps
<1> QED BY <1>1, <1>5, <1>6

\* OnMsg returns, with what it did to the reader's own variables.
LEMMA ReturningKeeps ==
  ASSUME Here, UNCHANGED fixed, Server!OnMsgReturns,
         UNCHANGED <<todo, asked, answered, seen, next>>, UNCHANGED <<connection, client>>,
         Echoed', Recorded'
  PROVE  World'
<1>1. /\ callback = "OnMsg" /\ callback' = "idle"
      /\ UNCHANGED <<started, entry, held, sent, first, reading, inbox, stream>>
  BY DEF Server!OnMsgReturns, Server!answer, Server!client
<1>2. Served /\ UNCHANGED <<arrived, broken, writing>>
  BY ServerActions DEF connection, client
<1>3. Fetched' /\ Counted' /\ Whole' /\ Asked'
  BY <1>1, <1>2, AnswerKeeps DEF Gives
<1>4. Carried'
  BY <1>1, <1>2 DEF Here, World, Carried, fixed, Streams
<1>5. Handled'
  BY <1>1, <1>2 DEF Here, World, Handled, fixed, Streams
<1>6. Listed' /\ Replied'
  BY <1>1, <1>2, ListedKept, RepliedKept DEF Here, World
<1> QED BY <1>3, <1>4, <1>5, <1>6 DEF World

LEMMA PointSteps ==
  ASSUME Here, UNCHANGED fixed, OnPoint
  PROVE  World'
<1>1. /\ kind = "client" /\ Server!OnMsgReturns
      /\ record_route_result_' = AddPoint(record_route_result_, asked[seen])
      /\ UNCHANGED <<todo, asked, answered, seen, next, received_notes_>>
      /\ UNCHANGED <<connection, client>>
  BY DEF OnPoint
<1>2. callback = "OnMsg" /\ callback' = "idle"
  BY <1>1 DEF Server!OnMsgReturns
<1>3. Echoed'
  BY <1>1 DEF Echoed, fixed
<1>4. Recorded'
  <2> DEFINE n == seen - 1
  <2>1. /\ asked \in Seq(Point) /\ Len(asked) \in Nat /\ seen \in 1 .. Len(asked)
        /\ n \in Nat /\ n + 1 = seen /\ Handed = n /\ Handed' = n + 1
        /\ n # 0 => n \in 1 .. Len(asked)
    <3>1. asked \in Seq(Point)
      BY <1>1 DEF Here, World, Asked
    <3>2. seen \in 0 .. Len(asked) /\ seen - 1 \in 0 .. Len(asked) /\ Len(asked) \in Nat
      BY <1>1, <1>2, HandedIs DEF Streams
    <3>3. Handed = n /\ Handed' = seen
      BY <1>1, <1>2 DEF Handed
    <3> QED BY <3>1, <3>2, <3>3
  <2>2. record_route_result_ =
          [point_count |-> n, feature_count |-> Cardinality(KnownTo(asked, n)),
           distance |-> Way(asked)[n],
           previous |-> IF n = 0 THEN <<0, 0>> ELSE asked[n]]
    BY <1>1, <2>1 DEF Here, World, Recorded
  <2>3. asked[n + 1] \in Point /\ GetFeatureName(asked[n + 1]) = NameAt(asked[n + 1])
    <3> DEFINE S == Point
    <3>1. asked \in Seq(S)
      BY <2>1
    <3> HIDE DEF S
    <3>2. asked[n + 1] \in S
      BY <2>1, <3>1, SeqFacts
    <3> QED BY <3>2, NameIs DEF S
  <2>4. Cardinality(KnownTo(asked, n + 1))
          = Cardinality(KnownTo(asked, n)) + IF GetFeatureName(asked[n + 1]) # "" THEN 1 ELSE 0
    BY <2>1, <2>3, KnownIs
  <2> HIDE DEF n
  <2>5. Way(asked)[n + 1] = Way(asked)[n] + IF n # 0 THEN GetDistance(asked[n], asked[n + 1]) ELSE 0
    <3>1. Way(asked)[n + 1] = IF n + 1 = 1 THEN 0 ELSE Way(asked)[(n + 1) - 1]
                                                      + GetDistance(asked[(n + 1) - 1], asked[n + 1])
      BY <2>1, WayIs
    <3>2. Way(asked)[n] \in Int /\ Way(asked)[0] = 0
      <4>1. n \in 0 .. Len(asked)
        BY <2>1
      <4> QED BY <2>1, <4>1, WayIs
    <3>3. (n + 1) - 1 = n
      BY <2>1
    <3>4. CASE n = 0
      BY <3>1, <3>2, <3>4
    <3>5. CASE n # 0
      <4>1. n + 1 # 1
        BY <2>1, <3>5
      <4> QED BY <3>1, <3>3, <3>5, <4>1
    <3> QED BY <3>4, <3>5
  <2>6. AddPoint(record_route_result_, asked[n + 1]) =
          [point_count |-> n + 1,
           feature_count |-> Cardinality(KnownTo(asked, n))
                               + IF GetFeatureName(asked[n + 1]) # "" THEN 1 ELSE 0,
           distance |-> Way(asked)[n] + IF n # 0 THEN GetDistance(asked[n], asked[n + 1]) ELSE 0,
           previous |-> asked[n + 1]]
    <3>1. CASE n = 0
      BY <2>2, <3>1 DEF AddPoint
    <3>2. CASE n # 0
      BY <2>2, <3>2 DEF AddPoint
    <3> QED BY <3>1, <3>2
  <2>7. n + 1 # 0
    BY <2>1
  <2>8. record_route_result_' =
          [point_count |-> n + 1, feature_count |-> Cardinality(KnownTo(asked, n + 1)),
           distance |-> Way(asked)[n + 1], previous |-> asked[n + 1]]
    BY <1>1, <2>1, <2>4, <2>5, <2>6
  <2> QED BY <1>1, <2>1, <2>7, <2>8 DEF Recorded
<1> QED BY <1>1, <1>3, <1>4, ReturningKeeps

LEMMA NoteSteps ==
  ASSUME Here, UNCHANGED fixed, OnNote
  PROVE  World'
<1>1. /\ kind = "bidi" /\ Server!OnMsgReturns
      /\ next > Len(received_notes_)
      /\ received_notes_' = Append(received_notes_, asked[seen])
      /\ UNCHANGED <<todo, asked, answered, seen, next, record_route_result_>>
      /\ UNCHANGED <<connection, client>>
  BY DEF OnNote
<1>2. callback = "OnMsg" /\ callback' = "idle"
  BY <1>1 DEF Server!OnMsgReturns
<1>3. Recorded'
  BY <1>1 DEF Recorded, fixed
<1>4. Echoed'
  <2>1. asked \in Seq(Note)
    BY <1>1 DEF Here, World, Asked
  <2>2. seen \in 1 .. Len(asked) /\ Len(asked) \in Nat /\ Handed = seen - 1 /\ Handed' = seen
    <3>1. seen \in 0 .. Len(asked) /\ seen - 1 \in 0 .. Len(asked) /\ Len(asked) \in Nat
      BY <1>1, <1>2, HandedIs DEF Streams
    <3>2. Handed = seen - 1 /\ Handed' = seen
      BY <1>1, <1>2 DEF Handed
    <3> QED BY <3>1, <3>2
  <2>3. /\ received_notes_ = SubSeq(asked, 1, seen - 1)
        /\ next \in 1 .. seen
        /\ answered = Echoes(asked)[seen - 1] \o Chosen(asked, Before(asked, seen))[next - 1]
    BY <1>1, <1>2, <2>2 DEF Here, World, Echoed
  <2> DEFINE S == Note
  <2>4. asked \in Seq(S)
    BY <2>1
  <2> HIDE DEF S
  <2>5. Len(received_notes_) = seen - 1
    BY <2>2, <2>3, <2>4
  <2>6. next = seen
    BY <1>1, <2>2, <2>3, <2>5
  <2>7. received_notes_' = SubSeq(asked, 1, seen)
    BY <1>1, <2>2, <2>3, <2>4
  <2>8. answered = Echoes(asked)[seen]
    BY <2>1, <2>2, <2>3, <2>6, EchoesIs
  <2> QED BY <1>1, <1>2, <2>2, <2>7, <2>8 DEF Echoed
<1> QED BY <1>1, <1>3, <1>4, ReturningKeeps

\* One turn of the loop of OnMsg of RouteChat.
LEMMA EchoSteps ==
  ASSUME Here, UNCHANGED fixed, EchoNote
  PROVE  World'
<1>1. /\ kind = "bidi" /\ callback = "OnMsg" /\ next <= Len(received_notes_)
      /\ IF Same(received_notes_[next].location, asked[seen].location)
           THEN Server!UserWrites("reader") /\ answered' = Append(answered, received_notes_[next])
           ELSE UNCHANGED <<answered, server>>
      /\ next' = next + 1
      /\ UNCHANGED <<todo, asked, seen, record_route_result_, received_notes_>>
      /\ UNCHANGED <<connection, client>>
  BY DEF EchoNote
<1>2. UNCHANGED <<entry, held, started, reading, callback, inbox, stream>>
  BY <1>1 DEF Server!UserWrites, Server!client, server
<1>3. HasWriter /\ Streams
  BY <1>1 DEF HasWriter, Streams
<1>4. /\ asked \in Seq(Note) /\ Len(asked) \in Nat
      /\ seen \in 1 .. Len(asked) /\ Handed = seen - 1 /\ Handed' = seen - 1
      /\ received_notes_ = SubSeq(asked, 1, seen - 1)
      /\ next \in 1 .. seen
      /\ answered = Echoes(asked)[seen - 1] \o Chosen(asked, Before(asked, seen))[next - 1]
  <2>1. asked \in Seq(Note)
    BY <1>1 DEF Here, World, Asked
  <2>2. seen \in 0 .. Len(asked) /\ seen - 1 \in 0 .. Len(asked) /\ Len(asked) \in Nat
    BY <1>1, <1>3, HandedIs
  <2>3. Handed = seen - 1 /\ Handed' = seen - 1
    BY <1>1, <1>2 DEF Handed
  <2>4. seen \in 1 .. Len(asked)
    BY <2>2
  <2> QED BY <1>1, <2>1, <2>2, <2>3, <2>4 DEF Here, World, Echoed
<1>5. next \in 1 .. seen - 1 /\ next \in 1 .. Len(asked) /\ next - 1 \in 0 .. Len(asked)
      /\ received_notes_[next] = asked[next] /\ next' - 1 = next /\ next' \in 1 .. seen
  <2> DEFINE S == Note
  <2>1. asked \in Seq(S)
    BY <1>4
  <2> HIDE DEF S
  <2>2. Len(SubSeq(asked, 1, seen - 1)) = seen - 1
        /\ \A i \in 1 .. seen - 1 : SubSeq(asked, 1, seen - 1)[i] = asked[i]
    BY <1>4, <2>1
  <2>3. next \in 1 .. seen - 1
    BY <1>1, <1>4, <2>2
  <2>4. received_notes_[next] = asked[next]
    BY <1>4, <2>2, <2>3
  <2> QED BY <1>1, <1>4, <2>3, <2>4
<1> DEFINE B == Before(asked, seen)
           E == Echoes(asked)[seen - 1]
           C == Chosen(asked, B)[next - 1]
<1>6. asked[next] \in Note /\ asked[seen] \in Note
  <2> DEFINE S == Note
  <2>1. asked \in Seq(S)
    BY <1>4
  <2> HIDE DEF S
  <2>2. asked[next] \in S /\ asked[seen] \in S
    BY <1>4, <1>5, <2>1, SeqFacts
  <2> QED BY <2>2 DEF S
<1>7. Same(received_notes_[next].location, asked[seen].location) <=> next \in B
  <2>1. asked[next].location \in Point /\ asked[seen].location \in Point
    BY <1>6 DEF Note
  <2>2. next \in B <=> asked[next].location = asked[seen].location
    BY <1>5 DEF Before
  <2> QED BY <1>5, <2>1, <2>2, SameIs
<1>8. /\ E \in Seq(Note) /\ C \in Seq(Note) /\ answered = E \o C
      /\ Chosen(asked, B)[next] = IF next \in B THEN Append(C, asked[next]) ELSE C
  <2> DEFINE S == Note
  <2>1. E \in Seq(S)
    <3>1. seen - 1 \in 0 .. Len(asked)
      BY <1>4
    <3> QED BY <1>4, <3>1, EchoesIs
  <2>2. asked \in Seq(S)
    BY <1>4
  <2> HIDE DEF S, B
  <2>3. C \in Seq(S) /\ Chosen(asked, B)[next] = IF next \in B THEN Append(C, asked[next]) ELSE C
    BY <1>5, <2>2, ChosenIs
  <2> QED BY <1>4, <2>1, <2>3 DEF S, B
<1>9. /\ answered' = E \o Chosen(asked, B)[next]
      /\ Gives
  <2>1. CASE next \in B
    <3>1. Server!UserWrites("reader") /\ answered' = Append(answered, asked[next])
      BY <1>1, <1>5, <1>7, <2>1
    <3> DEFINE S == Note
    <3>2. E \in Seq(S) /\ C \in Seq(S) /\ asked[next] \in S
      BY <1>6, <1>8
    <3> HIDE DEF S, E, C
    <3>3. /\ Append(E \o C, asked[next]) = E \o Append(C, asked[next])
          /\ Len(Append(E \o C, asked[next])) = Len(E \o C) + 1
      BY <3>2
    <3>4. answered' = E \o Append(C, asked[next]) /\ Len(answered') = Len(answered) + 1
      BY <1>8, <3>1, <3>3
    <3>5. Server!Runs("reader") /\ Server!Write(held["reader"])
      BY <3>1 DEF Server!UserWrites
    <3>6. held["reader"] = 1 /\ first # "auto"
      BY <3>5, RunsIs DEF Holders
    <3>7. /\ first' = first
          /\ \/ first = "none" /\ sent' = Append(sent, "msg")
             \/ first # "none" /\ UNCHANGED sent
      BY <3>5, <3>6, WriteIs
    <3>8. Gives
      BY <1>3, <3>4, <3>6, <3>7 DEF Gives
    <3> QED BY <1>8, <2>1, <3>4, <3>8
  <2>2. CASE next \notin B
    <3>1. UNCHANGED <<answered, server>>
      BY <1>1, <1>7, <2>2
    <3>2. Gives
      BY <3>1 DEF Gives, server
    <3> QED BY <1>8, <2>2, <3>1, <3>2
  <2> QED BY <2>1, <2>2
<1>10. Served /\ UNCHANGED <<arrived, broken, writing>>
  BY <1>1, ServerActions DEF connection, client
<1>11. Fetched' /\ Counted' /\ Whole' /\ Asked'
  BY <1>9, <1>10, AnswerKeeps
<1>12. Carried' /\ Recorded'
  BY <1>1, <1>2, <1>10, CarriedKept, RecordedKept DEF Here, World
<1>13. Handled'
  BY <1>1, <1>2, <1>3, <1>10 DEF Here, World, Handled, fixed, Streams
<1>14. Listed' /\ Replied'
  BY <1>1 DEF Listed, Replied, HasWriter, fixed
<1>15. Echoed'
  BY <1>1, <1>2, <1>4, <1>5, <1>9 DEF Echoed
<1> QED BY <1>11, <1>12, <1>13, <1>14, <1>15 DEF World

\* One turn of the loop of ListFeatures.
LEMMA ListSteps ==
  ASSUME Here, UNCHANGED fixed, ListNext
  PROVE  World'
<1>1. /\ kind = "server" /\ held["t"] # 0 /\ next <= Len(Features)
      /\ \/ /\ InRectangle(Features[next], asked[1])
            /\ Server!UserWrites("t")
            /\ answered' = Append(answered, Features[next])
            /\ next' = next + 1
         \/ /\ InRectangle(Features[next], asked[1])
            /\ broken
            /\ next' = Len(Features) + 1
            /\ UNCHANGED <<answered, server>>
         \/ /\ ~ InRectangle(Features[next], asked[1])
            /\ next' = next + 1
            /\ UNCHANGED <<answered, server>>
      /\ UNCHANGED <<todo, asked, seen, record_route_result_, received_notes_>>
      /\ UNCHANGED <<connection, client>>
  BY DEF ListNext
<1>2. UNCHANGED <<entry, held, started, reading, callback, inbox, stream>>
  BY <1>1 DEF Server!UserWrites, Server!client, server
<1>3. HasWriter /\ ~ Streams
  BY <1>1 DEF HasWriter, Streams
<1> DEFINE S == [name : STRING, location : Point]
           B == Inside(asked[1])
<1>4. Features \in Seq(S) /\ Len(Features) \in Nat
  BY FeaturesAssumption, LenProperties
<1>5. /\ next \in 1 .. Len(Features) /\ next - 1 \in 0 .. Len(Features)
      /\ answered = Chosen(Features, B)[next - 1]
  <2>1. PICK k \in 0 .. next - 1 :
          /\ answered = Chosen(Features, B)[k]
          /\ k = next - 1 \/ (broken /\ next = Len(Features) + 1)
    BY <1>1 DEF Here, World, Listed
  <2>2. next \in 1 .. Len(Features) + 1
    BY <1>1 DEF Here, World, Listed
  <2>3. next # Len(Features) + 1 /\ next \in 1 .. Len(Features) /\ next - 1 \in 0 .. Len(Features)
    BY <1>1, <1>4, <2>2
  <2> QED BY <2>1, <2>3
<1>6. InRectangle(Features[next], asked[1]) <=> next \in B
  <2>1. asked[1] \in Rectangle
    <3>1. Method(program) = "ListFeatures"
      BY <1>1, KindsAre DEF Here, Kinds
    <3>2. asked \in Requests["ListFeatures"]
      BY <1>3, <3>1 DEF Here, World, Asked
    <3> QED BY <3>2, RequestsAssumption DEF Rectangle
  <2>2. next \in DOMAIN Features
    BY <1>4, <1>5
  <2> QED BY <2>1, <2>2, RectangleIs
<1>7. /\ Chosen(Features, B)[next - 1] \in Seq(S)
      /\ Chosen(Features, B)[next] = IF next \in B THEN Append(Chosen(Features, B)[next - 1], Features[next])
                                     ELSE Chosen(Features, B)[next - 1]
      /\ Features[next] \in S
  <2> HIDE DEF S, B
  <2> QED BY <1>4, <1>5, ChosenIs, SeqFacts
<1>8. Served /\ UNCHANGED <<arrived, broken, writing>>
  BY <1>1, ServerActions DEF connection, client
<1>9. Gives /\ Listed'
  <2>1. CASE /\ InRectangle(Features[next], asked[1])
             /\ Server!UserWrites("t")
             /\ answered' = Append(answered, Features[next])
             /\ next' = next + 1
    <3>2. Server!Runs("t") /\ Server!Write(held["t"])
      BY <2>1 DEF Server!UserWrites
    <3>3. held["t"] = 1 /\ first # "auto"
      BY <3>2, RunsIs DEF Holders
    <3>4. /\ first' = first
          /\ \/ first = "none" /\ sent' = Append(sent, "msg")
             \/ first # "none" /\ UNCHANGED sent
      BY <3>2, <3>3, WriteIs
    <3>5. Len(answered') = Len(answered) + 1
      <4> HIDE DEF S, B
      <4> QED BY <1>5, <1>7, <2>1
    <3>6. Gives
      BY <1>3, <3>3, <3>4, <3>5 DEF Gives
    <3>7. answered' = Chosen(Features, B)[next]
      BY <1>5, <1>6, <1>7, <2>1
    <3>8. next \in 0 .. next' - 1 /\ next = next' - 1 /\ next' \in 1 .. Len(Features) + 1
      BY <1>4, <1>5, <2>1
    <3>9. Listed'
      BY <1>1, <3>7, <3>8 DEF Listed
    <3> QED BY <3>6, <3>9
  <2>2. CASE broken /\ next' = Len(Features) + 1 /\ UNCHANGED <<answered, server>>
    <3>1. Gives
      BY <2>2 DEF Gives, server
    <3>2. next - 1 \in 0 .. next' - 1 /\ next' \in 1 .. Len(Features) + 1
      BY <1>4, <1>5, <2>2
    <3>3. Listed'
      BY <1>1, <1>5, <1>8, <2>2, <3>2 DEF Listed
    <3> QED BY <3>1, <3>3
  <2>3. CASE ~ InRectangle(Features[next], asked[1]) /\ next' = next + 1 /\ UNCHANGED <<answered, server>>
    <3>1. Gives
      BY <2>3 DEF Gives, server
    <3>2. answered' = Chosen(Features, B)[next]
      BY <1>5, <1>6, <1>7, <2>3
    <3>3. next \in 0 .. next' - 1 /\ next = next' - 1 /\ next' \in 1 .. Len(Features) + 1
      BY <1>4, <1>5, <2>3
    <3>4. Listed'
      BY <1>1, <3>2, <3>3 DEF Listed
    <3> QED BY <3>1, <3>4
  <2> QED BY <1>1, <2>1, <2>2, <2>3
<1>10. Fetched' /\ Counted' /\ Whole' /\ Asked'
  BY <1>8, <1>9, AnswerKeeps
<1>11. Carried' /\ Recorded'
  BY <1>1, <1>2, <1>8, CarriedKept, RecordedKept DEF Here, World
<1>12. Handled'
  <2>1. "t" \in started
    BY <1>1 DEF Here, World, Handled
  <2> QED BY <1>1, <1>2, <1>3, <1>8, <2>1 DEF Here, World, Handled, fixed, Streams
<1>13. Echoed' /\ Replied'
  BY <1>1 DEF Echoed, Replied, HasWriter, fixed
<1> QED BY <1>9, <1>10, <1>11, <1>12, <1>13 DEF World

\* ReplySummary: the thread of RecordRoute replies with what the reader counted.
LEMMA SummarySteps ==
  ASSUME Here, UNCHANGED fixed, ReplySummary
  PROVE  World'
<1>1. /\ kind = "client" /\ done = {} /\ Server!UserFinishes("t", "ok")
      /\ answered' = <<[r \in DOMAIN record_route_result_ \ {"previous"} |-> record_route_result_[r]]>>
      /\ UNCHANGED <<todo, asked, seen, next, record_route_result_, received_notes_>>
      /\ UNCHANGED <<connection, client>>
  BY DEF ReplySummary
<1>2. /\ UNCHANGED <<entry, held, started, reading, callback, inbox, stream>>
      /\ Server!Runs("t") /\ Server!Finish(held["t"], "ok")
  BY <1>1 DEF Server!UserFinishes, Server!client
<1>3. held["t"] = 1
  BY <1>2, RunsIs DEF Holders
<1>4. first = "none" /\ first' = "ok" /\ sent' = Append(sent, "ok")
  <2>1. first = "none"
    BY <1>1 DEF Here, ServerFacts
  <2> QED BY <1>2, <1>3, <2>1, FinishIs DEF Finals
<1>5. Streams /\ ~ HasWriter
  BY <1>1 DEF Streams, HasWriter
<1>6. Served /\ UNCHANGED <<arrived, broken, writing>>
  BY <1>1, ServerActions DEF connection, client
<1>7. Fetched' /\ Counted' /\ Whole' /\ Asked'
  BY <1>4, <1>5, <1>6, AnswerKeeps DEF Gives
<1>8. Carried' /\ Handled' /\ Recorded'
  BY <1>1, <1>2, <1>6, CarriedKept, HandledKept, RecordedKept DEF Here, World
<1>9. Listed' /\ Echoed'
  BY <1>1 DEF Listed, Echoed, fixed
<1>10. stream = "ended" /\ inbox = << >> /\ callback # "OnMsg"
  <2>1. "t" \in started
    BY <1>3 DEF Here, World, Handled
  <2> QED BY <1>5, <2>1 DEF Here, World, Handled
<1>11. writing = "closed" /\ Handed = Len(asked)
  <2>1. writing = "closed" /\ arrived = Len(asked) /\ seen + Len(inbox) = arrived
        /\ seen \in Nat /\ Len(inbox) = 0
    BY <1>5, <1>10 DEF Here, World, Carried
  <2> QED BY <1>10, <2>1 DEF Handed
<1>12. answered' = Expected
  <2>1. Plan = asked /\ Method(program) = "RecordRoute"
    BY <1>1, <1>5, <1>11, PlanIs, KindsAre DEF Here, Kinds
  <2>2. Known(asked) = KnownTo(asked, Len(asked))
    <3>1. asked \in Seq(Point)
      BY <1>1 DEF Here, World, Asked
    <3>2. DOMAIN asked = 1 .. Len(asked)
      BY <3>1, LenProperties
    <3> QED BY <3>2 DEF Known, KnownTo
  <2> DEFINE r == [point_count |-> Len(asked),
                   feature_count |-> Cardinality(KnownTo(asked, Len(asked))),
                   distance |-> Way(asked)[Len(asked)]]
  <2>3. record_route_result_ =
          [point_count |-> Len(asked),
           feature_count |-> Cardinality(KnownTo(asked, Len(asked))),
           distance |-> Way(asked)[Len(asked)],
           previous |-> IF Len(asked) = 0 THEN <<0, 0>> ELSE asked[Len(asked)]]
    BY <1>1, <1>11 DEF Here, World, Recorded
  <2>4. DOMAIN record_route_result_ \ {"previous"} = {"point_count", "feature_count", "distance"}
    BY <2>3
  <2>5. [f \in {"point_count", "feature_count", "distance"} |-> record_route_result_[f]] = r
    BY <2>3
  <2>6. answered' = <<r>>
    BY <1>1, <2>4, <2>5
  <2>7. Expected = <<r>>
    BY <2>1, <2>2 DEF Expected
  <2> QED BY <2>6, <2>7
<1>13. Replied'
  BY <1>1, <1>6, <1>11, <1>12, ExpectedKept DEF Replied
<1> QED BY <1>7, <1>8, <1>9, <1>13 DEF World

-----------------------------------------------------------------------------
(***************************************************************************)
(* All together.                                                           *)
(***************************************************************************)
LEMMA WorldKept ==
  ASSUME Here, ClientFacts', UNCHANGED fixed, [Next]_vars
  PROVE  World'
<1>1. CASE WriteNext
  BY <1>1, WritingSteps
<1>2. CASE CloseWriting \/ DropCopy \/ Return
  BY <1>2, ClosingSteps
<1>3. CASE Read \/ ShutdownByCallback \/ ShutdownByFunction \/ CallbackReturns \/ Run \/ CallBack
  BY <1>3, ReadingSteps
<1>4. CASE DeliverRequest \/ DeliverEnd \/ ServerLearns
  BY <1>4, DeliveringSteps
<1>5. CASE DeliverReply \/ ClientLearns
  BY <1>5, FetchingSteps
<1>6. CASE Break
  BY <1>6, BreakingSteps
<1>7. CASE ServerThread
  BY <1>7, EntrySteps, ReplyingSteps, ListingSteps, ReturningSteps DEF ServerThread
<1>8. CASE ReaderThread
  BY <1>8, TakingSteps, EndingReaderSteps, PointSteps, EchoSteps, NoteSteps, OnEndSteps
     DEF ReaderThread
<1>9. CASE UserThread
  BY <1>9, ListSteps, SummarySteps, EndingSteps DEF UserThread
<1>10. CASE UNCHANGED vars
  <2>1. UNCHANGED <<content, connection, server, replies, final, writing, copies>>
    BY <1>10 DEF vars, client
  <2>2. /\ writing = "closed" => todo = << >>
        /\ kind = "bidi" /\ "writer" \notin copies => writing = "closed"
    BY DEF Here, World, Asked
  <2> QED BY <2>1, <2>2, CallerKeeps
<1> QED BY <1>1, <1>2, <1>3, <1>4, <1>5, <1>6, <1>7, <1>8, <1>9, <1>10 DEF Next

\* What the caller was told stays true: nothing is sent or delivered after it.
LEMMA OutcomeKept ==
  ASSUME Outcome, Fixed, ClientFacts, Fixed', ClientProofs!Step
  PROVE  Outcome'
<1>1. given.msg
  BY DEF Fixed
<1>2. CASE ClientProofs!Promise!Network
  BY <1>2 DEF ClientProofs!Promise!Network, Outcome
<1>3. CASE ClientProofs!Promise!Deliver
  BY <1>1, <1>3 DEF ClientProofs!Promise!Deliver, ClientProofs!Promise!Succeeded, Outcome
<1>4. CASE ClientProofs!Promise!Tell
  BY <1>1, <1>4 DEF ClientProofs!Promise!Tell, ClientProofs!Promise!Succeeded, Outcome
<1>5. CASE UNCHANGED ClientProofs!Promise!vars
  BY <1>5 DEF ClientProofs!Promise!vars, Outcome
<1> QED BY <1>2, <1>3, <1>4, <1>5 DEF ClientProofs!Step, ClientProofs!Promise!Next

LEMMA RightKept == ASSUME Right, [Next]_vars PROVE Right'
<1>1. ClientProofs!Inv /\ ServerProofs!Inv /\ Fixed /\ World /\ Outcome
  BY DEF Right, World
<1>2. ClientProofs!Inv' /\ ClientProofs!Step /\ ServerProofs!Inv'
  BY <1>1, ClientKept, ServerKept
<1>3. UNCHANGED fixed /\ Fixed'
  BY <1>1, FixedKept
<1>4. ClientFacts /\ ServerFacts
  BY <1>1, ClientFactsAre, ServerFactsAre
<1>5. ClientFacts'
  BY <1>2, ClientFactsAre, PTL
<1>6. World'
  BY <1>1, <1>3, <1>4, <1>5, WorldKept DEF Here
<1>7. Outcome'
  BY <1>1, <1>2, <1>3, <1>4, OutcomeKept
<1> QED BY <1>2, <1>3, <1>6, <1>7 DEF Right, World

LEMMA RightAtFirst == ASSUME Init PROVE Right
<1>1. ClientProofs!Inv /\ ServerProofs!Inv
  BY ClientInit, ServerInit DEF Init
<1>2. /\ writing = IF api \in Client!Writers THEN "open" ELSE "closed"
      /\ copies = IF api \in Client!ReaderWriters THEN {"reader", "writer"} ELSE {"reader"}
      /\ replies = << >> /\ final = "none" /\ outcome = "none"
  BY DEF Init, Client!Init
<1>3. /\ entry = "called" /\ held = [h \in Holders |-> 0] /\ started = {} /\ sent = << >>
      /\ reading = FALSE /\ callback = "idle" /\ inbox = << >> /\ stream = "open" /\ first = "none"
  BY HoldersAre DEF Init, Server!Init
<1>4. Fixed
  BY DEF Init, Fixed
<1>5. Kinds /\ (api \in Client!ReaderWriters <=> kind = "bidi") /\ (api \in Client!Writers <=> Streams)
  BY <1>4, KindsAre, InterfacesAre
<1>6. PICK r \in Requests[Method(program)] :
        todo = (IF Streams THEN r ELSE << >>) /\ asked = (IF Streams THEN << >> ELSE r)
  BY DEF Init
<1>7. answered = << >> /\ arrived = 0 /\ fetched = 0 /\ broken = FALSE /\ seen = 0 /\ next = 1
  BY DEF Init
<1>8. Asked
  <2>1. kind = "client" => asked \in Seq(Point) /\ todo \in Seq(Point)
    BY <1>5, <1>6, RequestsAssumption, EmptySeq DEF Kinds
  <2>2. kind = "bidi" => asked \in Seq(Note) /\ todo \in Seq(Note)
    BY <1>5, <1>6, RequestsAssumption, EmptySeq DEF Kinds, Note
  <2>3. ~ Streams => asked \in Requests[Method(program)] /\ todo = << >> /\ writing = "closed"
    BY <1>2, <1>5, <1>6
  <2>4. writing = "closed" => ~ Streams
    BY <1>2, <1>5
  <2>5. kind = "bidi" => "writer" \in copies
    BY <1>2, <1>5
  <2> QED BY <2>1, <2>2, <2>3, <2>4, <2>5 DEF Asked
<1>9. Carried
  <2>1. 0 \in 0 .. Len(asked)
    <3>1. CASE Streams
      BY <1>6, <3>1
    <3>2. CASE ~ Streams
      <4>1. Method(program) \in {"SayHello", "GetFeature", "ListFeatures"}
        BY <1>5, <3>2 DEF Kinds
      <4>2. asked = <<asked[1]>>
        BY <1>6, <3>2, <4>1, RequestsAssumption
      <4> QED BY <4>2
    <3> QED BY <3>1, <3>2
  <2>2. Len(inbox) = 0
    BY <1>3
  <2> QED BY <1>3, <1>7, <2>1, <2>2 DEF Carried
<1>10. Handled
  <2>1. held["t"] = 0
    BY <1>3 DEF Holders
  <2> QED BY <1>3, <2>1 DEF Handled
<1>11. Fetched /\ Counted
  <2>1. Len(sent) = 0 /\ Len(replies) = 0 /\ Len(answered) = 0
    BY <1>2, <1>3, <1>7
  <2> QED BY <1>2, <1>3, <1>7, <2>1 DEF Fetched, Counted, Msgs
<1>12. Listed
  <2> DEFINE S == [name : STRING, location : Point]
             B == Inside(asked[1])
  <2>1. Features \in Seq(S)
    BY FeaturesAssumption
  <2> HIDE DEF S
  <2>2. Chosen(Features, B)[0] = << >> /\ Len(Features) \in Nat
    BY <2>1, ChosenIs, LenProperties
  <2>3. 0 \in 0 .. next - 1 /\ 0 = next - 1 /\ next \in 1 .. Len(Features) + 1
    BY <1>7, <2>2
  <2> QED BY <1>7, <2>2, <2>3 DEF Listed
<1>13. Echoed
  <2> SUFFICES ASSUME kind = "bidi" PROVE Echoed
    BY DEF Echoed
  <2>1. asked = << >> /\ asked \in Seq(Note)
    BY <1>6, <1>8 DEF Asked, Streams
  <2>2. Echoes(asked)[0] = << >>
    BY <2>1, EchoesIs
  <2>3. SubSeq(asked, 1, 0) = << >>
    BY <2>1
  <2>4. received_notes_ = << >>
    BY DEF Init
  <2> QED BY <1>3, <1>7, <2>2, <2>3, <2>4 DEF Echoed, Handed
<1>14. Recorded
  <2> SUFFICES ASSUME kind = "client" PROVE Recorded
    BY DEF Recorded
  <2>1. asked \in Seq(Point)
    BY <1>8 DEF Asked
  <2>2. Way(asked)[0] = 0 /\ Cardinality(KnownTo(asked, 0)) = 0
    BY <2>1, WayIs, KnownIs
  <2>3. record_route_result_ =
          [point_count |-> 0, feature_count |-> 0, distance |-> 0, previous |-> <<0, 0>>]
    BY DEF Init
  <2> QED BY <1>3, <1>7, <2>2, <2>3 DEF Recorded, Handed
<1>15. Replied /\ Whole /\ Outcome
  BY <1>2, <1>3 DEF Replied, Whole, Outcome
<1> QED BY <1>1, <1>4, <1>8, <1>9, <1>10, <1>11, <1>12, <1>13, <1>14, <1>15 DEF Right

\* What was written so far is the beginning of what is expected.
LEMMA ListedIsPrefix ==
  ASSUME Here, kind = "server", NEW n \in 0 .. Len(answered)
  PROVE  /\ IsPrefix(SubSeq(answered, 1, n), Expected)
         /\ SubSeq(answered, 1, Len(answered)) = answered
<1> DEFINE V == [name : STRING, location : Point]
           B == Inside(asked[1])
<1>1. Features \in Seq(V) /\ Len(Features) \in Nat
  BY FeaturesAssumption, LenProperties
<1>2. PICK k \in 0 .. next - 1 : answered = Chosen(Features, B)[k]
  BY DEF Here, World, Listed
<1>3. k \in 0 .. Len(Features) /\ k <= Len(Features) /\ k \in Nat
      /\ Len(Features) \in 0 .. Len(Features)
  <2>1. next \in 1 .. Len(Features) + 1
    BY DEF Here, World, Listed
  <2> QED BY <1>1, <2>1
<1>4. Expected = Chosen(Features, B)[Len(Features)]
  <2>1. Method(program) = "ListFeatures"
    BY KindsAre DEF Here, Kinds
  <2> QED BY <2>1 DEF Expected
<1> HIDE DEF V, B
<1>5. answered \in Seq(V) /\ Expected \in Seq(V)
  BY <1>1, <1>2, <1>3, <1>4, ChosenIs
<1>6. Extends(Expected, answered)
  BY <1>1, <1>2, <1>3, <1>4, ChosenGrows
<1> QED BY <1>5, <1>6, ExtendsPrefix

LEMMA EchoedIsPrefix ==
  ASSUME Here, kind = "bidi", NEW n \in 0 .. Len(answered)
  PROVE  /\ IsPrefix(SubSeq(answered, 1, n), Expected)
         /\ SubSeq(answered, 1, Len(answered)) = answered
<1>1. /\ asked \in Seq(Note) /\ todo \in Seq(Note)
      /\ callback = "OnMsg" => next \in 1 .. seen
      /\ answered = IF callback = "OnMsg"
                      THEN Echoes(asked)[seen - 1] \o Chosen(asked, Before(asked, seen))[next - 1]
                      ELSE Echoes(asked)[seen]
  BY DEF Here, World, Asked, Echoed
<1>2. seen \in 0 .. Len(asked) /\ Len(asked) \in Nat
      /\ (callback = "OnMsg" => seen - 1 \in 0 .. Len(asked))
  BY HandedIs DEF Streams
<1> DEFINE V == Note
<1>3. asked \in Seq(V) /\ todo \in Seq(V)
  BY <1>1
<1>4. Extends(Echoes(asked)[seen], answered) /\ answered \in Seq(V) /\ Echoes(asked)[seen] \in Seq(V)
  <2>1. Echoes(asked)[seen] \in Seq(V)
    BY <1>1, <1>2, EchoesIs
  <2>2. CASE callback = "OnMsg"
    <3> DEFINE B == Before(asked, seen)
               E == Echoes(asked)[seen - 1]
    <3>1. /\ seen \in 1 .. Len(asked) /\ next - 1 \in 0 .. Len(asked) /\ seen - 1 \in 0 .. Len(asked)
          /\ next - 1 \in Nat /\ seen - 1 \in Nat /\ next - 1 <= seen - 1 /\ seen - 1 <= Len(asked)
      BY <1>1, <1>2, <2>2
    <3>2. Echoes(asked)[seen] = E \o Chosen(asked, B)[seen - 1] /\ E \in Seq(V)
      BY <1>1, <3>1, EchoesIs
    <3> HIDE DEF V, B, E
    <3>3. Chosen(asked, B)[seen - 1] \in Seq(V) /\ Chosen(asked, B)[next - 1] \in Seq(V)
      BY <1>3, <3>1, ChosenIs
    <3>4. Extends(Chosen(asked, B)[seen - 1], Chosen(asked, B)[next - 1])
      BY <1>3, <3>1, ChosenGrows
    <3>5. Extends(E \o Chosen(asked, B)[seen - 1], E \o Chosen(asked, B)[next - 1])
      BY <3>2, <3>3, <3>4, ExtendsConcat
    <3>6. answered = E \o Chosen(asked, B)[next - 1]
      BY <1>1, <2>2 DEF B, E
    <3>7. answered \in Seq(V)
      BY <3>2, <3>3, <3>6, ConcatProperties
    <3> QED BY <2>1, <3>2, <3>5, <3>6, <3>7
  <2>3. CASE callback # "OnMsg"
    <3>1. answered = Echoes(asked)[seen]
      BY <1>1, <2>3
    <3> HIDE DEF V
    <3> QED BY <2>1, <3>1, ExtendsFacts
  <2> QED BY <2>2, <2>3
<1>5. /\ Plan \in Seq(V) /\ Len(Plan) \in Nat /\ Extends(Plan, asked)
      /\ Len(asked) <= Len(Plan)
  <2> HIDE DEF V
  <2>1. Plan \in Seq(V) /\ Extends(Plan, asked)
    BY <1>3, ConcatProperties, ExtendsFacts DEF Plan
  <2> QED BY <2>1, LenProperties DEF Extends
<1>6. Echoes(Plan)[seen] = Echoes(asked)[seen]
  BY <1>1, <1>2, <1>5, NotesLonger
<1>7. Extends(Echoes(Plan)[Len(Plan)], Echoes(Plan)[seen])
  <2>1. seen \in Nat /\ seen <= Len(Plan) /\ Len(Plan) <= Len(Plan)
    BY <1>2, <1>5
  <2> QED BY <1>5, <2>1, EchoesGrow
<1>8. Expected = Echoes(Plan)[Len(Plan)] /\ Expected \in Seq(V)
  <2>1. Method(program) = "RouteChat"
    BY KindsAre DEF Here, Kinds
  <2>2. Len(Plan) \in 0 .. Len(Plan)
    BY <1>5
  <2> QED BY <1>5, <2>1, <2>2, EchoesIs DEF Expected
<1> HIDE DEF V
<1>9. Extends(Expected, answered)
  BY <1>4, <1>6, <1>7, <1>8, ExtendsFacts
<1> QED BY <1>4, <1>8, <1>9, ExtendsPrefix

LEMMA RightIsEnough == ASSUME Right PROVE AnswersRight
<1>1. ClientFacts /\ ServerFacts /\ Fixed /\ World /\ Outcome
  BY ClientFactsAre, ServerFactsAre DEF Right, World
<1>2. Here
  BY <1>1 DEF Here
<1>3. /\ delivered \in 0 .. Len(replies) /\ Len(replies) \in Nat
      /\ outcome = "ok" => final = "ok" /\ delivered = Len(replies)
      /\ final = "ok" => answered = Expected /\ Len(replies) = Len(answered)
  BY <1>1 DEF ClientFacts, World, Whole, Outcome
<1>4. CASE HasWriter
  <2>1. delivered \in 0 .. Len(answered)
    <3>1. Len(answered) \in Nat /\ Msgs <= Len(answered) /\ Len(replies) <= Msgs /\ Msgs \in Int
      BY <1>1, <1>4 DEF World, Fetched, Counted, ServerFacts, Msgs
    <3> QED BY <1>3, <3>1
  <2>2. /\ IsPrefix(SubSeq(answered, 1, delivered), Expected)
        /\ SubSeq(answered, 1, Len(answered)) = answered
    <3>1. CASE kind = "server"
      BY <1>2, <2>1, <3>1, ListedIsPrefix
    <3>2. CASE kind = "bidi"
      BY <1>2, <2>1, <3>2, EchoedIsPrefix
    <3> QED BY <1>4, <3>1, <3>2 DEF HasWriter
  <2> QED BY <1>3, <2>2 DEF AnswersRight
<1>5. CASE ~ HasWriter
  <2>1. Client!OneReply
    BY <1>1, <1>5, InterfacesAre
  <2>2. Expected = <<Expected[1]>>
    <3>1. Method(program) \in {"SayHello", "GetFeature", "RecordRoute"}
      BY <1>1, <1>5, KindsAre DEF Kinds
    <3> QED BY <3>1 DEF Expected
  <2> DEFINE x == Expected[1]
             V == {x}
  <2>3. Expected \in Seq(V) /\ Len(Expected) = 1
    <3>1. \A e : <<e>> \in Seq({e}) /\ Len(<<e>>) = 1
      OBVIOUS
    <3>2. <<x>> \in Seq(V) /\ Len(<<x>>) = 1
      BY <3>1
    <3> QED BY <2>2, <3>2
  <2> HIDE DEF V
  <2>4. CASE final = "ok"
    <3>1. answered = Expected /\ delivered \in 0 .. Len(Expected)
      BY <1>3, <2>4
    <3>2. Extends(Expected, Expected) /\ SubSeq(Expected, 1, Len(Expected)) = Expected
      BY <2>3, ExtendsFacts
    <3>3. IsPrefix(SubSeq(answered, 1, delivered), Expected)
      BY <2>3, <3>1, <3>2, ExtendsPrefix
    <3> QED BY <1>3, <3>1, <3>2, <3>3 DEF AnswersRight
  <2>5. CASE final # "ok"
    <3>1. delivered = 0 /\ outcome # "ok"
      <4>1. Len(replies) = 0
        BY <1>1, <2>1, <2>5 DEF ClientFacts
      <4> QED BY <1>3, <2>5, <4>1
    <3>2. SubSeq(answered, 1, 0) = << >>
      OBVIOUS
    <3>3. IsPrefix(<< >>, Expected)
      BY <2>3 DEF IsPrefix
    <3> QED BY <3>1, <3>2, <3>3 DEF AnswersRight
  <2> QED BY <2>4, <2>5
<1> QED BY <1>4, <1>5

\* What a program is given of the right answer is a beginning of it, and all of it
\* when the program is told that the call succeeded, whatever the interface, the
\* feature database, the requests and the connection.
THEOREM AnswersAreRight == Spec => []AnswersRight
<1>1. Init => Right
  BY RightAtFirst
<1>2. Right /\ [Next]_vars => Right'
  BY RightKept
<1>3. Right => AnswersRight
  BY RightIsEnough
<1> QED BY <1>1, <1>2, <1>3, PTL DEF Spec
=============================================================================
