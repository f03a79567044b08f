-------------------------- MODULE ClientCall_proofs --------------------------
(***************************************************************************)
(* The safety of ClientCall, for any interfaces, any threads in Run and    *)
(* streams of any length: its type invariant, and that it implements       *)
(* CallPromise.  The invariant says for each place of the reading side how *)
(* far the responses delivered are behind those taken and what was told:   *)
(* a response that was taken and not delivered is the one that did not     *)
(* parse, and the error of it is kept until it can be told.                *)
(***************************************************************************)
EXTENDS ClientCall, TLAPS

\* The places where the reading side of an interface can be.
Places(a) ==
  CASE a = "SyncRequest" -> {"waiting", "done"}
    [] a = "SyncWriter" -> {"made", "waiting", "done"}
    [] a = "AsyncRequest" -> {"waiting", "callback", "idle"}
    [] a = "AsyncWriter" -> {"made", "waiting", "callback", "idle"}
    [] a \in SyncReaders -> {"idle", "parse", "set", "ended", "done"}
    [] OTHER -> {"made", "idle", "callback"}

Placed == given \in Givens(api) /\ pc \in Places(api)

\* The one response comes with the success of the call.
Single ==
  OneReply =>
    /\ taken = 0
    /\ IF final = "ok" THEN Len(replies) = 1 ELSE replies = << >>
    /\ pc \in {"made", "waiting"} =>
         delivered = 0 /\ error = "ok" /\ outcome = "none" /\ ~ over

Taken == taken \in 1 .. Len(replies) /\ delivered = taken - 1
Unparsed == Taken /\ replies[taken] = "bad"

\* What ReadOne took is delivered, being parsed, or the cause of the error.
ReadSync ==
  api \in SyncReaders =>
    /\ pc \in {"idle", "parse", "set"} => error = "ok"
    /\ pc # "done" => outcome = "none"
    /\ CASE pc = "idle" -> delivered = taken
         [] pc = "parse" -> Taken
         [] pc = "set" -> Unparsed
         [] pc = "ended" -> IF error = "ok" THEN delivered = taken /\ Ended ELSE Unparsed
         [] OTHER -> delivered <= taken

\* So is what the core passed to the message callback, if there is one.
ReadAsync ==
  api \in AsyncReaders =>
    /\ ~ over => outcome = "none"
    /\ IF given.msg THEN IF error = "ok" THEN delivered = taken ELSE Unparsed
                    ELSE delivered = 0 /\ error = "ok"

Inv == TypeOK /\ Placed /\ Single /\ ReadSync /\ ReadAsync

-----------------------------------------------------------------------------
(***************************************************************************)
(* What the interfaces have in common.                                     *)
(***************************************************************************)
LEMMA Interfaces ==
  ASSUME Inv
  PROVE  /\ api \in AllApis
         /\ given.msg \in BOOLEAN /\ given.status \in BOOLEAN
         /\ api \in SyncReaders => given.msg
         /\ api = "AsyncWriter" => given.status = given.msg
<1>1. api \in AllApis /\ given \in [msg : BOOLEAN, status : BOOLEAN]
  BY ApisAssumption DEF Inv, TypeOK
<1>2. api \in SyncReaders => given.msg
  BY <1>1 DEF Inv, Placed, Givens, SyncReaders, AsyncReaders
<1>3. api = "AsyncWriter" => given.status = given.msg
  BY <1>1 DEF Inv, Placed, Givens, SyncReaders, AsyncReaders
<1> QED BY <1>1, <1>2, <1>3

\* A step that leaves the reading side and the network alone keeps the rest.
LEMMA Aside ==
  ASSUME Inv, UNCHANGED <<call, network, reading>>, TypeOK'
  PROVE  Inv'
<1>1. Placed'
  BY DEF Inv, Placed, call, reading, Givens, Places
<1>2. Single'
  BY DEF Inv, Single, OneReply, call, network, reading
<1>3. ReadSync'
  BY DEF Inv, ReadSync, Taken, Unparsed, Ended, call, network, reading
<1>4. ReadAsync'
  BY DEF Inv, ReadAsync, Taken, Unparsed, call, network, reading
<1> QED BY <1>1, <1>2, <1>3, <1>4 DEF Inv

\* What the first n responses of the list are.
LEMMA FirstOf ==
  ASSUME NEW s \in Seq({"good", "bad"}), NEW n \in 0 .. Len(s)
  PROVE  /\ SubSeq(s, 1, n) \in Seq({"good", "bad"})
         /\ Len(SubSeq(s, 1, n)) = n
         /\ \A i \in 1 .. n : SubSeq(s, 1, n)[i] = s[i]
  OBVIOUS

LEMMA OneMore ==
  ASSUME NEW s \in Seq({"good", "bad"}), NEW m \in {"good", "bad"}
  PROVE  /\ Append(s, m) \in Seq({"good", "bad"})
         /\ Len(Append(s, m)) = Len(s) + 1
         /\ \A i \in 1 .. Len(s) : Append(s, m)[i] = s[i]
  OBVIOUS

-----------------------------------------------------------------------------
(***************************************************************************)
(* The server and the network.                                             *)
(***************************************************************************)
LEMMA SendsKeeps ==
  ASSUME Inv, NEW m \in {"good", "bad"}, ServerSends(m)
  PROVE  Inv'
<1> DEFINE more == Append(replies, m)
<1>1. /\ replies \in Seq({"good", "bad"}) /\ Len(replies) \in Nat /\ taken \in 0 .. Len(replies)
      /\ final = "none"
      /\ replies' = more /\ UNCHANGED <<call, requests, final, reading, loop>>
  BY DEF Inv, TypeOK, ServerSends
<1>2. /\ more \in Seq({"good", "bad"}) /\ Len(more) = Len(replies) + 1
      /\ \A i \in 1 .. Len(replies) : more[i] = replies[i]
  BY <1>1, OneMore
<1> HIDE DEF more
<1>3. TypeOK'
  BY <1>1, <1>2 DEF Inv, TypeOK, call, requests, reading, loop
<1>4. Placed' /\ Single'
  BY <1>1 DEF Inv, Placed, Single, ServerSends, OneReply, Givens, Places, call, reading
<1>5. ReadSync'
  BY <1>1, <1>2 DEF Inv, ReadSync, Taken, Unparsed, Ended, call, reading
<1>6. ReadAsync'
  BY <1>1, <1>2 DEF Inv, ReadAsync, Taken, Unparsed, call, reading
<1> QED BY <1>3, <1>4, <1>5, <1>6 DEF Inv

LEMMA FinishesKeeps ==
  ASSUME Inv, ServerFinishes
  PROVE  Inv'
<1>1. /\ final = "none" /\ final' = "ok" /\ UNCHANGED <<call, requests, reading, loop>>
  BY DEF ServerFinishes
<1>2. CASE OneReply
  <2>1. replies = << >> /\ taken = 0
    BY <1>1, <1>2 DEF Inv, Single
  <2>2. PICK m \in {"good", "bad"} : replies' = <<m>>
    BY <1>2 DEF ServerFinishes
  <2>3. replies' \in Seq({"good", "bad"}) /\ Len(replies') = 1 /\ Len(replies) = 0
    BY <2>1, <2>2
  <2>4. TypeOK'
    BY <1>1, <2>1, <2>3 DEF Inv, TypeOK, call, requests, reading, loop
  <2>5. Placed' /\ Single'
    BY <1>1, <2>1, <2>3 DEF Inv, Placed, Single, OneReply, Givens, Places, call, reading
  <2>6. api' \notin SyncReaders /\ api' \notin AsyncReaders
    BY <1>1, <1>2 DEF OneReply, call
  <2> QED BY <2>4, <2>5, <2>6 DEF Inv, ReadSync, ReadAsync
<1>3. CASE ~ OneReply
  <2>1. UNCHANGED replies
    BY <1>3 DEF ServerFinishes
  <2>2. TypeOK'
    BY <1>1, <2>1 DEF Inv, TypeOK, call, requests, reading, loop
  <2>3. Placed' /\ Single'
    BY <1>1, <1>3 DEF Inv, Placed, Single, OneReply, Givens, Places, call, reading
  <2>4. ReadSync'
    BY <1>1, <2>1 DEF Inv, ReadSync, Taken, Unparsed, Ended, call, reading
  <2>5. ReadAsync'
    BY <1>1, <2>1 DEF Inv, ReadAsync, Taken, Unparsed, call, reading
  <2> QED BY <2>2, <2>3, <2>4, <2>5 DEF Inv
<1> QED BY <1>2, <1>3

\* No response is delivered before it is taken, while the call is on.
LEMMA BehindTaken ==
  ASSUME Inv, final = "none"
  PROVE  delivered <= taken
<1>1. taken \in Nat /\ delivered \in Nat
  BY DEF Inv, TypeOK
<1>2. CASE OneReply
  BY <1>1, <1>2 DEF Inv, TypeOK, Single
<1>3. CASE api \in SyncReaders
  <2>1. pc \in {"idle", "parse", "set", "ended", "done"}
    BY <1>3 DEF Inv, Placed, Places, SyncReaders
  <2> QED BY <1>1, <1>3, <2>1 DEF Inv, ReadSync, Taken, Unparsed
<1>4. CASE api \in AsyncReaders
  BY <1>1, <1>4 DEF Inv, ReadAsync, Taken, Unparsed
<1> QED BY <1>2, <1>3, <1>4 DEF OneReply

LEMMA BreaksKeeps ==
  ASSUME Inv, Breaks
  PROVE  Inv'
<1>1. /\ replies \in Seq({"good", "bad"}) /\ Len(replies) \in Nat /\ taken \in 0 .. Len(replies)
      /\ final = "none" /\ final' = "rpc" /\ UNCHANGED <<call, requests, reading, loop>>
  BY DEF Inv, TypeOK, Breaks
<1>2. PICK n \in taken .. Len(replies) : replies' = SubSeq(replies, 1, n)
  BY DEF Breaks
<1>3. /\ n \in 0 .. Len(replies) /\ replies' \in Seq({"good", "bad"}) /\ Len(replies') = n
      /\ \A i \in 1 .. n : replies'[i] = replies[i]
  BY <1>1, <1>2, FirstOf
<1>4. delivered <= taken
  BY <1>1, BehindTaken
<1>5. TypeOK'
  BY <1>1, <1>2, <1>3, <1>4 DEF Inv, TypeOK, call, requests, reading, loop
<1>6. Placed'
  BY <1>1 DEF Inv, Placed, Givens, Places, call, reading
<1>7. Single'
  BY <1>1, <1>3 DEF Inv, Single, OneReply, call, reading
<1>8. ReadSync'
  BY <1>1, <1>2, <1>3 DEF Inv, ReadSync, Taken, Unparsed, Ended, call, reading
<1>9. ReadAsync'
  BY <1>1, <1>2, <1>3 DEF Inv, ReadAsync, Taken, Unparsed, call, reading
<1> QED BY <1>5, <1>6, <1>7, <1>8, <1>9 DEF Inv

-----------------------------------------------------------------------------
(***************************************************************************)
(* The threads of the user that wait for an answer or read.                *)
(***************************************************************************)
LEMMA SyncReturnsKeeps ==
  ASSUME Inv, SyncReturns
  PROVE  Inv'
<1>1. /\ api \in {"SyncRequest", "SyncWriter"} /\ pc = "waiting" /\ pc' = "done" /\ over' = TRUE
      /\ final # "none" /\ OneReply
      /\ UNCHANGED <<call, requests, network, taken, error, busy, loop>>
  BY DEF SyncReturns, OneReply, SyncReaders, AsyncReaders
<1>2. /\ delivered = 0 /\ delivered' \in 0 .. Len(replies) /\ outcome' \in {"ok", "rpc", "parse"}
  BY <1>1, SMTT(60) DEF Inv, TypeOK, Single, SyncReturns, Unwrap
<1>3. TypeOK'
  BY <1>1, <1>2 DEF Inv, TypeOK, call, requests, network, loop
<1>4. Placed'
  BY <1>1 DEF Inv, Placed, Givens, Places, call
<1>5. Single' /\ api' \notin SyncReaders /\ api' \notin AsyncReaders
  BY <1>1 DEF Inv, Single, OneReply, call, network
<1> QED BY <1>3, <1>4, <1>5 DEF Inv, ReadSync, ReadAsync

LEMMA CloseKeeps ==
  ASSUME Inv, Close
  PROVE  Inv'
<1>1. /\ api \in {"SyncWriter", "AsyncWriter"} /\ OneReply
      /\ pc = "made" /\ pc' = "waiting" /\ writing' = "closed"
      /\ UNCHANGED <<call, written, copies, network, taken, error, busy, delivered, outcome, over, loop>>
  BY DEF Close, OneReply, SyncReaders, AsyncReaders
<1>2. TypeOK'
  BY <1>1 DEF Inv, TypeOK, call, network, loop
<1>3. Placed'
  BY <1>1 DEF Inv, Placed, Givens, Places, call
<1>4. Single' /\ api' \notin SyncReaders /\ api' \notin AsyncReaders
  BY <1>1 DEF Inv, Single, OneReply, call, network
<1> QED BY <1>2, <1>3, <1>4 DEF Inv, ReadSync, ReadAsync

\* SyncReaders and AsyncReaders have nothing in common, nor have their places.
LEMMA OfSyncReader ==
  ASSUME api \in SyncReaders
  PROVE  /\ api \notin AsyncReaders /\ ~ OneReply
         /\ Places(api) = {"idle", "parse", "set", "ended", "done"}
BY DEF SyncReaders, AsyncReaders, OneReply, Places

LEMMA OfAsyncReader ==
  ASSUME api \in AsyncReaders
  PROVE  /\ api \notin SyncReaders /\ ~ OneReply
         /\ Places(api) = {"made", "idle", "callback"}
BY DEF SyncReaders, AsyncReaders, OneReply, Places

LEMMA ReadOneKeeps ==
  ASSUME Inv, ReadOne
  PROVE  Inv'
<1>1. /\ api \in SyncReaders /\ pc = "idle"
      /\ UNCHANGED <<call, requests, network, error, busy, delivered, outcome, over, loop>>
      /\ \/ taken < Len(replies) /\ taken' = taken + 1 /\ pc' = "parse"
         \/ Ended /\ pc' = "ended" /\ UNCHANGED taken
  BY DEF ReadOne
<1>2. /\ taken \in 0 .. Len(replies) /\ Len(replies) \in Nat /\ busy = "nobody"
      /\ error = "ok" /\ outcome = "none" /\ delivered = taken
  BY <1>1 DEF Inv, TypeOK, ReadSync
<1>3. TypeOK'
  BY <1>1, <1>2 DEF Inv, TypeOK, call, requests, network, loop
<1>4. Placed' /\ Single' /\ ReadAsync'
  BY <1>1, OfSyncReader DEF Inv, Placed, Givens, Places, Single, OneReply, ReadAsync, SyncReaders,
     AsyncReaders, call
<1>5. ReadSync'
  BY <1>1, <1>2 DEF ReadSync, Taken, Unparsed, Ended, call, network
<1> QED BY <1>3, <1>4, <1>5 DEF Inv

LEMMA ParseKeeps ==
  ASSUME Inv, ParseFromString
  PROVE  Inv'
<1>1. /\ api \in SyncReaders /\ pc = "parse"
      /\ UNCHANGED <<call, requests, network, taken, error, busy, outcome, over, loop>>
      /\ \/ replies[taken] = "good" /\ delivered' = delivered + 1 /\ pc' = "idle"
         \/ replies[taken] # "good" /\ pc' = "set" /\ UNCHANGED delivered
  BY DEF ParseFromString
<1>2. /\ Len(replies) \in Nat /\ taken \in 1 .. Len(replies) /\ delivered = taken - 1
      /\ replies[taken] \in {"good", "bad"} /\ error = "ok" /\ outcome = "none"
      /\ busy = "nobody"
  BY <1>1 DEF Inv, TypeOK, ReadSync, Taken
<1>3. TypeOK'
  BY <1>1, <1>2 DEF Inv, TypeOK, call, requests, network, loop
<1>4. Placed' /\ Single' /\ ReadAsync'
  BY <1>1, OfSyncReader DEF Inv, Placed, Givens, Places, Single, OneReply, ReadAsync, SyncReaders,
     AsyncReaders, call
<1>5. ReadSync'
  BY <1>1, <1>2 DEF ReadSync, Taken, Unparsed, call, network
<1> QED BY <1>3, <1>4, <1>5 DEF Inv

\* Only a synchronous reader is at these places.
LEMMA SyncPlaces ==
  ASSUME Inv, pc \in {"parse", "set", "ended"}
  PROVE  api \in SyncReaders
BY DEF Inv, Placed, Places

LEMMA SetErrorKeeps ==
  ASSUME Inv, SetErrorStatus
  PROVE  Inv'
<1>1. /\ api \in SyncReaders /\ pc = "set" /\ pc' = "ended" /\ error' = "parse"
      /\ UNCHANGED <<call, requests, network, taken, busy, delivered, outcome, over, loop>>
  BY SyncPlaces DEF SetErrorStatus
<1>2. Unparsed /\ outcome = "none" /\ busy = "nobody"
  BY <1>1 DEF Inv, TypeOK, ReadSync
<1>3. TypeOK'
  BY <1>1, <1>2 DEF Inv, TypeOK, call, requests, network, loop
<1>4. Placed' /\ Single' /\ ReadAsync'
  BY <1>1, OfSyncReader DEF Inv, Placed, Givens, Places, Single, OneReply, ReadAsync, SyncReaders,
     AsyncReaders, call
<1>5. ReadSync'
  BY <1>1, <1>2 DEF ReadSync, Taken, Unparsed, call, network
<1> QED BY <1>3, <1>4, <1>5 DEF Inv

LEMMA RecvStatusKeeps ==
  ASSUME Inv, RecvStatus
  PROVE  Inv'
<1>1. /\ api \in SyncReaders /\ pc = "ended" /\ pc' = "done" /\ over' = TRUE
      /\ UNCHANGED <<call, requests, network, taken, error, busy, delivered, loop>>
      /\ outcome' = error \/ (outcome' = final /\ final # "none")
  BY SyncPlaces DEF RecvStatus
<1>2. delivered <= taken /\ busy = "nobody"
  BY <1>1 DEF Inv, TypeOK, ReadSync, Taken, Unparsed
<1>3. TypeOK'
  BY <1>1, <1>2 DEF Inv, TypeOK, call, requests, network, loop
<1>4. Placed' /\ Single' /\ ReadAsync'
  BY <1>1, OfSyncReader DEF Inv, Placed, Givens, Places, Single, OneReply, ReadAsync, SyncReaders,
     AsyncReaders, call
<1>5. ReadSync'
  BY <1>1, <1>2 DEF ReadSync, call, network
<1> QED BY <1>3, <1>4, <1>5 DEF Inv

LEMMA ReadEachKeeps ==
  ASSUME Inv, ReadEach
  PROVE  Inv'
<1>1. /\ api \in AsyncReaders /\ pc = "made" /\ pc' = "idle"
      /\ UNCHANGED <<call, requests, network, taken, error, busy, delivered, outcome, over, loop>>
  BY DEF ReadEach
<1>2. TypeOK'
  BY <1>1 DEF Inv, TypeOK, call, requests, network, loop
<1>3. Placed' /\ Single' /\ ReadSync'
  BY <1>1, OfAsyncReader DEF Inv, Placed, Givens, Places, Single, OneReply, ReadSync, SyncReaders,
     AsyncReaders, call
<1>4. ReadAsync'
  BY <1>1 DEF Inv, ReadAsync, Taken, Unparsed, call, network
<1> QED BY <1>2, <1>3, <1>4 DEF Inv

-----------------------------------------------------------------------------
(***************************************************************************)
(* The threads in Run.                                                     *)
(***************************************************************************)
LEMMA RespondKeeps ==
  ASSUME Inv, NEW r \in Runners, Respond(r)
  PROVE  Inv'
<1>1. /\ api = "AsyncRequest" /\ OneReply /\ pc = "waiting" /\ over' = TRUE
      /\ r \in running /\ busy = "nobody"
      /\ UNCHANGED <<call, requests, network, taken, loop>>
  BY DEF Respond, Dispatch, OneReply, SyncReaders, AsyncReaders
<1>2. /\ delivered = 0 /\ error = "ok" /\ outcome = "none" /\ r # "nobody"
      /\ final = "ok" => Len(replies) = 1
  BY <1>1, RunnersAssumption DEF Inv, Single
<1>3. /\ delivered' \in 0 .. Len(replies) /\ error' \in {"ok", "parse"}
      /\ outcome' \in {"none", "rpc", "parse"}
      /\ \/ pc' = "callback" /\ busy' = r
         \/ pc' = "idle" /\ busy' = busy
  <2>1. CASE final = "ok" /\ given.msg
    <3>1. WrapMsgCb(replies[1])
      BY <2>1 DEF Respond
    <3>2. IF error' = "ok" THEN Call(r) /\ UNCHANGED outcome ELSE CallStatus(r, error')
      BY <2>1 DEF Respond
    <3>3. delivered' \in 0 .. Len(replies) /\ error' \in {"ok", "parse"}
      BY <1>2, <2>1, <3>1 DEF WrapMsgCb
    <3> QED BY <1>2, <3>2, <3>3 DEF Call, CallStatus
  <2>2. CASE ~ (final = "ok" /\ given.msg)
    BY <1>1, <1>2, <2>2 DEF Respond, CallStatus, Call, Inv, TypeOK
  <2> QED BY <2>1, <2>2
<1>4. TypeOK'
  BY <1>1, <1>2, <1>3 DEF Inv, TypeOK, call, requests, network, loop
<1>5. Placed'
  BY <1>1, <1>3 DEF Inv, Placed, Givens, Places, call
<1>6. Single' /\ api' \notin SyncReaders /\ api' \notin AsyncReaders
  BY <1>1, <1>3 DEF Inv, Single, OneReply, call, network
<1> QED BY <1>4, <1>5, <1>6 DEF Inv, ReadSync, ReadAsync

LEMMA OnCloseKeeps ==
  ASSUME Inv, NEW r \in Runners, OnClose(r)
  PROVE  Inv'
<1>1. /\ api = "AsyncWriter" /\ OneReply /\ pc = "waiting" /\ over' = TRUE
      /\ r \in running /\ busy = "nobody" /\ final # "none"
      /\ UNCHANGED <<call, requests, network, taken, error, loop>>
  BY DEF OnClose, Dispatch, OneReply, SyncReaders, AsyncReaders
<1>2. /\ delivered = 0 /\ outcome = "none" /\ r # "nobody"
      /\ final = "ok" => Len(replies) = 1
  BY <1>1, RunnersAssumption DEF Inv, Single
<1>3. /\ delivered' \in 0 .. Len(replies) /\ outcome' \in {"none", "ok", "rpc", "parse"}
      /\ \/ pc' = "callback" /\ busy' = r
         \/ pc' = "idle" /\ busy' = busy
  BY <1>1, <1>2 DEF OnClose, Unwrap, Call, Inv, TypeOK
<1>4. TypeOK'
  BY <1>1, <1>2, <1>3 DEF Inv, TypeOK, call, requests, network, loop
<1>5. Placed'
  BY <1>1, <1>3 DEF Inv, Placed, Givens, Places, call
<1>6. Single' /\ api' \notin SyncReaders /\ api' \notin AsyncReaders
  BY <1>1, <1>3 DEF Inv, Single, OneReply, call, network
<1> QED BY <1>4, <1>5, <1>6 DEF Inv, ReadSync, ReadAsync

LEMMA OnMsgKeeps ==
  ASSUME Inv, NEW r \in Runners, OnMsg(r)
  PROVE  Inv'
<1>1. /\ api \in AsyncReaders /\ pc = "idle" /\ r \in running /\ busy = "nobody" /\ ~ over
      /\ error = "ok" /\ taken < Len(replies) /\ taken' = taken + 1
      /\ UNCHANGED <<call, requests, network, outcome, over, loop>>
  BY DEF OnMsg, Dispatch
<1>2. /\ taken \in Nat /\ Len(replies) \in Nat /\ taken' \in 1 .. Len(replies)
      /\ replies[taken'] \in {"good", "bad"} /\ outcome = "none" /\ r # "nobody"
      /\ IF given.msg THEN delivered = taken ELSE delivered = 0
  BY <1>1, RunnersAssumption DEF Inv, TypeOK, ReadAsync
<1>3. CASE given.msg
  <2>1. /\ WrapMsgCb(replies[taken'])
        /\ IF error' = "ok" THEN Call(r) ELSE UNCHANGED <<pc, busy>>
    BY <1>3 DEF OnMsg
  <2>2. \/ replies[taken'] = "good" /\ delivered' = taken' /\ error' = "ok"
        \/ replies[taken'] = "bad" /\ delivered' = taken' - 1 /\ error' = "parse"
    BY <1>1, <1>2, <1>3, <2>1 DEF WrapMsgCb
  <2>3. delivered' \in 0 .. Len(replies) /\ error' \in {"ok", "parse"}
    BY <1>2, <2>2
  <2>4. \/ pc' = "callback" /\ busy' = r
        \/ pc' = "idle" /\ busy' = "nobody"
    BY <1>1, <2>1 DEF Call
  <2>5. TypeOK'
    BY <1>1, <1>2, <2>3, <2>4 DEF Inv, TypeOK, call, requests, network, loop
  <2>6. Placed' /\ Single' /\ ReadSync'
    BY <1>1, <2>4, OfAsyncReader DEF Inv, Placed, Givens, Places, Single, OneReply, ReadSync,
       SyncReaders, AsyncReaders, call
  <2>7. ReadAsync'
    BY <1>1, <1>2, <1>3, <2>2 DEF ReadAsync, Taken, Unparsed, call, network
  <2> QED BY <2>5, <2>6, <2>7 DEF Inv
<1>4. CASE ~ given.msg
  <2>1. UNCHANGED <<error, pc, busy, delivered>>
    BY <1>4 DEF OnMsg
  <2>2. TypeOK'
    BY <1>1, <1>2, <2>1 DEF Inv, TypeOK, call, requests, network, loop
  <2>3. Placed' /\ Single' /\ ReadSync'
    BY <1>1, <2>1, OfAsyncReader DEF Inv, Placed, Givens, Places, Single, OneReply, ReadSync,
       SyncReaders, AsyncReaders, call
  <2>4. ReadAsync'
    BY <1>1, <1>2, <1>4, <2>1 DEF ReadAsync, call, network
  <2> QED BY <2>2, <2>3, <2>4 DEF Inv
<1> QED BY <1>3, <1>4

LEMMA OnEndKeeps ==
  ASSUME Inv, NEW r \in Runners, OnEnd(r)
  PROVE  Inv'
<1>1. /\ api \in AsyncReaders /\ pc = "idle" /\ r \in running /\ busy = "nobody"
      /\ over' = TRUE
      /\ UNCHANGED <<call, requests, network, taken, error, delivered, loop>>
      /\ CallStatus(r, error) \/ CallStatus(r, final)
  BY DEF OnEnd, Dispatch
<1>2. /\ r # "nobody" /\ outcome' \in {"none", "ok", "rpc", "parse"}
      /\ \/ pc' = "callback" /\ busy' = r
         \/ pc' = "idle" /\ busy' = busy
  BY <1>1, RunnersAssumption DEF CallStatus, Call, Inv, TypeOK
<1>3. TypeOK'
  BY <1>1, <1>2 DEF Inv, TypeOK, call, requests, network, loop
<1>4. Placed' /\ Single' /\ ReadSync'
  BY <1>1, <1>2, OfAsyncReader DEF Inv, Placed, Givens, Places, Single, OneReply, ReadSync,
     SyncReaders, AsyncReaders, call
<1>5. ReadAsync'
  BY <1>1, <1>2 DEF Inv, ReadAsync, Taken, Unparsed, call, network
<1> QED BY <1>3, <1>4, <1>5 DEF Inv

LEMMA CallbackReturnsKeeps ==
  ASSUME Inv, NEW r \in Runners, CallbackReturns(r)
  PROVE  Inv'
<1>1. /\ pc = "callback" /\ pc' = "idle" /\ busy' = "nobody"
      /\ UNCHANGED <<call, requests, network, taken, error, delivered, outcome, over, loop>>
  BY DEF CallbackReturns
<1>2. api \in {"AsyncRequest", "AsyncWriter"} \cup AsyncReaders
  BY <1>1, Interfaces DEF Inv, Placed, Places, AllApis, Writers, ReaderWriters, SyncReaders, AsyncReaders
<1>3. TypeOK'
  BY <1>1 DEF Inv, TypeOK, call, requests, network, loop
<1>4. Placed' /\ Single' /\ ReadSync'
  BY <1>1, <1>2, OfAsyncReader DEF Inv, Placed, Givens, Places, Single, OneReply, ReadSync,
     SyncReaders, AsyncReaders, call, network
<1>5. ReadAsync'
  BY <1>1 DEF Inv, ReadAsync, Taken, Unparsed, call, network
<1> QED BY <1>3, <1>4, <1>5 DEF Inv

-----------------------------------------------------------------------------
(***************************************************************************)
(* The invariant, and with it the types.                                   *)
(***************************************************************************)
LEMMA InitInv == ASSUME Init PROVE Inv
<1>1. /\ api \in Apis /\ given \in Givens(api) /\ replies = << >> /\ Len(replies) = 0
      /\ final = "none" /\ taken = 0 /\ error = "ok" /\ busy = "nobody" /\ delivered = 0
      /\ outcome = "none" /\ over = FALSE
      /\ pc = CASE api \in {"SyncRequest", "AsyncRequest"} -> "waiting"
                 [] api \in SyncReaders -> "idle"
                 [] OTHER -> "made"
  BY DEF Init
<1>2. api \in AllApis
  BY <1>1, ApisAssumption
<1>3. given \in [msg : BOOLEAN, status : BOOLEAN]
  BY <1>1, <1>2 DEF Givens, AllApis, Writers, ReaderWriters, SyncReaders, AsyncReaders
<1>4. pc \in {"waiting", "idle", "made"} /\ pc \in Places(api)
  BY <1>1, <1>2 DEF Places, AllApis, Writers, ReaderWriters, SyncReaders, AsyncReaders
<1>5. TypeOK
  <2>1. /\ writing \in {"open", "closed"} /\ written \in 0 .. MaxWrites
        /\ copies \subseteq {"reader", "writer"}
        /\ running = {} /\ ran = {} /\ shutdown = FALSE
    BY BoundsAssumption DEF Init
  <2>2. replies \in Seq({"good", "bad"}) /\ taken \in 0 .. Len(replies) /\ delivered \in 0 .. Len(replies)
    BY <1>1
  <2> QED BY <1>1, <1>3, <1>4, <2>1, <2>2 DEF TypeOK
<1>6. Placed /\ Single
  BY <1>1, <1>4 DEF Placed, Single
<1>7. api \in SyncReaders => pc = "idle"
  BY <1>1 DEF SyncReaders
<1>8. ReadSync /\ ReadAsync
  BY <1>1, <1>7 DEF ReadSync, ReadAsync
<1> QED BY <1>5, <1>6, <1>8 DEF Inv

LEMMA NextInv == ASSUME Inv, [Next]_vars PROVE Inv'
<1>1. CASE Sync
  BY <1>1, SyncReturnsKeeps, CloseKeeps, ReadOneKeeps, ParseKeeps, SetErrorKeeps, RecvStatusKeeps,
     ReadEachKeeps DEF Sync
<1>2. ASSUME NEW r \in Runners, Event(r) \/ CallbackReturns(r)
      PROVE  Inv'
  BY <1>2, RespondKeeps, OnCloseKeeps, OnMsgKeeps, OnEndKeeps, CallbackReturnsKeeps DEF Event
<1>3. ASSUME NEW r \in Runners, Run(r)
      PROVE  Inv'
  <2>1. /\ running' = running \cup {r}
        /\ UNCHANGED <<call, requests, network, reading, ran, shutdown>>
    BY <1>3 DEF Run
  <2>2. TypeOK'
    BY <2>1 DEF Inv, TypeOK, call, requests, network, reading
  <2> QED BY <2>1, <2>2, Aside
<1>4. ASSUME NEW r \in Runners, RunReturns(r)
      PROVE  Inv'
  <2>1. /\ busy # r /\ running' = running \ {r} /\ ran' = ran \cup {r}
        /\ UNCHANGED <<call, requests, network, reading, shutdown>>
    BY <1>4 DEF RunReturns
  <2>2. TypeOK'
    BY <2>1 DEF Inv, TypeOK, call, requests, network, reading
  <2> QED BY <2>1, <2>2, Aside
<1>5. CASE Shutdown
  <2>1. TypeOK' /\ UNCHANGED <<call, network, reading>>
    BY <1>5 DEF Shutdown, Inv, TypeOK, call, requests, network, reading
  <2> QED BY <2>1, Aside
<1>6. CASE Write
  <2>1. written' \in 0 .. MaxWrites
    BY <1>6, BoundsAssumption DEF Write, Inv, TypeOK
  <2>2. TypeOK' /\ UNCHANGED <<call, network, reading>>
    BY <1>6, <2>1 DEF Write, Inv, TypeOK, call, network, reading, loop
  <2> QED BY <2>2, Aside
<1>7. CASE CloseWriting
  <2>1. TypeOK' /\ UNCHANGED <<call, network, reading>>
    BY <1>7 DEF CloseWriting, Inv, TypeOK, call, network, reading, loop
  <2> QED BY <2>1, Aside
<1>8. ASSUME NEW who \in {"reader", "writer"}, Drop(who)
      PROVE  Inv'
  <2>1. TypeOK' /\ UNCHANGED <<call, network, reading>>
    BY <1>8 DEF Drop, Inv, TypeOK, call, network, reading, loop
  <2> QED BY <2>1, Aside
<1>9. ASSUME NEW m \in {"good", "bad"}, ServerSends(m)
      PROVE  Inv'
  BY <1>9, SendsKeeps
<1>10. CASE ServerFinishes \/ Breaks
  BY <1>10, FinishesKeeps, BreaksKeeps
<1>11. CASE UNCHANGED vars
  <2>1. TypeOK' /\ UNCHANGED <<call, network, reading>>
    BY <1>11 DEF vars, Inv, TypeOK, call, requests, network, reading, loop
  <2> QED BY <2>1, Aside
<1> QED BY <1>1, <1>2, <1>3, <1>4, <1>5, <1>6, <1>7, <1>8, <1>9, <1>10, <1>11 DEF Next

LEMMA Invariant == Spec => []Inv
<1>1. Init /\ [][Next]_vars => []Inv
  BY InitInv, NextInv, PTL
<1> QED BY <1>1, PTL DEF Spec

\* Every variable has its type, and a callback runs in a thread that is in Run,
\* however many threads there are.
THEOREM TypeCorrect == Spec => []TypeOK
<1>1. Inv => TypeOK
  BY DEF Inv
<1> QED BY <1>1, Invariant, PTL

-----------------------------------------------------------------------------
(***************************************************************************)
(* CallPromise: every step is one of its steps, or changes nothing of what *)
(* the caller sees.                                                        *)
(***************************************************************************)
Step == [Promise!Next]_(Promise!vars)

\* A step that gives and tells the caller nothing, without a change of the network.
LEMMA Silent ==
  ASSUME UNCHANGED <<call, network, delivered, outcome>>
  PROVE  Step
BY DEF Step, Promise!vars, call, network

\* The caller is told the outcome of a call without a response, or told nothing.
LEMMA TellsRight ==
  ASSUME outcome = "none", UNCHANGED <<call, network, delivered>>,
         \/ outcome' = "none"
         \/ outcome' = "rpc" /\ final = "rpc"
         \/ outcome' = "ok" /\ final = "ok" /\ (given.msg => delivered = Len(replies))
         \/ /\ outcome' = "parse" /\ given.msg
            /\ delivered < Len(replies) /\ replies[delivered + 1] = "bad"
  PROVE  Step
BY DEF Step, Promise!vars, Promise!Next, Promise!Tell, Promise!Succeeded, call, network

\* A response is delivered, and with the last one the success may be told.
LEMMA DeliversRight ==
  ASSUME outcome = "none", UNCHANGED <<call, network>>,
         given.msg, delivered < Len(replies), replies[delivered + 1] = "good",
         delivered' = delivered + 1,
         \/ outcome' = "none"
         \/ outcome' = "ok" /\ final = "ok" /\ delivered' = Len(replies)
  PROVE  Step
BY DEF Step, Promise!vars, Promise!Next, Promise!Deliver, Promise!Succeeded, call, network

\* Unwrap, of a call that is waiting for its one response.
LEMMA UnwrapsRight ==
  ASSUME Inv, OneReply, pc \in {"made", "waiting"}, final # "none", Unwrap,
         UNCHANGED <<call, network>>
  PROVE  Step
<1>1. /\ delivered = 0 /\ outcome = "none" /\ final \in {"ok", "rpc"}
      /\ final = "ok" => Len(replies) = 1 /\ replies[1] \in {"good", "bad"}
  BY DEF Inv, TypeOK, Single
<1>2. CASE final # "ok" \/ ~ given.msg
  BY <1>1, <1>2, TellsRight DEF Unwrap
<1>3. CASE final = "ok" /\ given.msg /\ replies[1] = "good"
  <2>1. delivered' = 1 /\ outcome' = "ok"
    BY <1>3 DEF Unwrap, Parses
  <2> QED BY <1>1, <1>3, <2>1, DeliversRight
<1>4. CASE final = "ok" /\ given.msg /\ replies[1] = "bad"
  <2>1. UNCHANGED delivered /\ outcome' = "parse"
    BY <1>4 DEF Unwrap, Parses
  <2> QED BY <1>1, <1>4, <2>1, TellsRight
<1> QED BY <1>1, <1>2, <1>3, <1>4

LEMMA NetworkSteps ==
  ASSUME Inv, (\E m \in {"good", "bad"} : ServerSends(m)) \/ ServerFinishes \/ Breaks
  PROVE  Step
<1>1. final = "none" /\ UNCHANGED <<call, delivered, outcome>>
  BY DEF ServerSends, ServerFinishes, Breaks, reading
<1>2. CASE \E m \in {"good", "bad"} : ServerSends(m)
  BY <1>1, <1>2 DEF ServerSends, Step, Promise!Next, Promise!Network, call
<1>3. CASE ServerFinishes
  <2>1. final' = "ok"
    BY <1>3 DEF ServerFinishes
  <2>2. CASE OneReply
    <3>1. PICK m \in {"good", "bad"} : replies' = <<m>>
      BY <1>3, <2>2 DEF ServerFinishes
    <3>2. replies = << >>
      BY <1>1, <2>2 DEF Inv, Single
    <3>3. replies' = Append(replies, m)
      BY <3>1, <3>2
    <3> QED BY <1>1, <2>1, <3>3 DEF Step, Promise!Next, Promise!Network, call
  <2>3. CASE ~ OneReply
    BY <1>1, <1>3, <2>1, <2>3 DEF ServerFinishes, Step, Promise!Next, Promise!Network, call
  <2> QED BY <2>2, <2>3
<1>4. CASE Breaks
  <2>1. PICK n \in taken .. Len(replies) : replies' = SubSeq(replies, 1, n)
    BY <1>4 DEF Breaks
  <2>2. Len(replies) \in Nat /\ taken \in Nat /\ delivered \in Nat
    BY DEF Inv, TypeOK
  <2>3. delivered <= taken
    BY BehindTaken, <1>1
  <2>4. n \in delivered .. Len(replies) /\ final' = "rpc"
    BY <1>4, <2>1, <2>2, <2>3 DEF Breaks
  <2> QED BY <1>1, <2>1, <2>4 DEF Step, Promise!Next, Promise!Network, call
<1> QED BY <1>2, <1>3, <1>4

LEMMA SyncSteps ==
  ASSUME Inv, Sync
  PROVE  Step
<1>1. CASE SyncReturns
  <2>1. /\ OneReply /\ pc = "waiting" /\ final # "none" /\ Unwrap /\ UNCHANGED <<call, network>>
    BY <1>1 DEF SyncReturns, OneReply, SyncReaders, AsyncReaders
  <2> QED BY <2>1, UnwrapsRight
<1>2. CASE Close \/ ReadOne \/ SetErrorStatus \/ ReadEach
  BY <1>2, Silent DEF Close, ReadOne, SetErrorStatus, ReadEach
<1>3. CASE ParseFromString
  <2>1. /\ api \in SyncReaders /\ pc = "parse" /\ UNCHANGED <<call, network, outcome>>
    BY <1>3 DEF ParseFromString
  <2>2. /\ taken \in 1 .. Len(replies) /\ Len(replies) \in Nat /\ delivered = taken - 1
        /\ outcome = "none" /\ given.msg
    BY <2>1, Interfaces DEF Inv, TypeOK, ReadSync, Taken
  <2>3. CASE replies[taken] = "good"
    <3>1. delivered' = delivered + 1
      BY <1>3, <2>3 DEF ParseFromString
    <3> QED BY <2>1, <2>2, <2>3, <3>1, DeliversRight
  <2>4. CASE replies[taken] # "good"
    BY <1>3, <2>1, <2>4, Silent DEF ParseFromString
  <2> QED BY <2>3, <2>4
<1>4. CASE RecvStatus
  <2>1. /\ pc = "ended" /\ api \in SyncReaders
        /\ UNCHANGED <<call, network, delivered>>
        /\ \/ error # "ok" /\ outcome' = error
           \/ error = "ok" /\ final # "none" /\ outcome' = final
    BY <1>4, SyncPlaces DEF RecvStatus
  <2>2. /\ outcome = "none" /\ given.msg /\ error \in {"ok", "parse"}
        /\ final \in {"none", "ok", "rpc"} /\ taken \in 0 .. Len(replies) /\ Len(replies) \in Nat
        /\ IF error = "ok" THEN delivered = taken /\ Ended ELSE Unparsed
    BY <2>1, Interfaces DEF Inv, TypeOK, ReadSync
  <2>3. CASE error = "ok"
    BY <2>1, <2>2, <2>3, TellsRight DEF Ended
  <2>4. CASE error = "parse"
    BY <2>1, <2>2, <2>4, TellsRight DEF Unparsed, Taken
  <2> QED BY <2>2, <2>3, <2>4
<1> QED BY <1>1, <1>2, <1>3, <1>4 DEF Sync

LEMMA EventSteps ==
  ASSUME Inv, NEW r \in Runners, Event(r)
  PROVE  Step
<1>1. CASE Respond(r)
  <2>1. /\ api = "AsyncRequest" /\ OneReply /\ pc = "waiting" /\ UNCHANGED <<call, network>>
    BY <1>1 DEF Respond, OneReply, SyncReaders, AsyncReaders
  <2>2. /\ delivered = 0 /\ outcome = "none" /\ error = "ok"
        /\ final = "ok" => Len(replies) = 1 /\ replies[1] \in {"good", "bad"}
    BY <2>1 DEF Inv, TypeOK, Single
  <2>3. CASE final = "ok" /\ given.msg
    <3>1. /\ WrapMsgCb(replies[1])
          /\ IF error' = "ok" THEN Call(r) /\ UNCHANGED outcome ELSE CallStatus(r, error')
      BY <1>1, <2>3 DEF Respond
    <3>2. CASE replies[1] = "good"
      <4>1. delivered' = delivered + 1 /\ outcome' = "none"
        BY <2>2, <3>1, <3>2 DEF WrapMsgCb
      <4> QED BY <2>1, <2>2, <2>3, <3>2, <4>1, DeliversRight
    <3>3. CASE replies[1] = "bad"
      <4>1. /\ UNCHANGED delivered /\ outcome' \in {"none", "parse"}
        BY <2>2, <3>1, <3>3 DEF WrapMsgCb, CallStatus
      <4>2. delivered < Len(replies) /\ replies[delivered + 1] = "bad"
        BY <2>2, <2>3, <3>3
      <4> QED BY <2>1, <2>2, <2>3, <4>1, <4>2, TellsRight
    <3> QED BY <2>2, <2>3, <3>2, <3>3
  <2>4. CASE final = "ok" /\ ~ given.msg
    BY <1>1, <2>1, <2>4, Silent DEF Respond
  <2>5. CASE final # "ok"
    <3>1. final = "rpc" /\ UNCHANGED delivered /\ outcome' \in {"none", "rpc"}
      BY <1>1, <2>2, <2>5 DEF Respond, CallStatus
    <3> QED BY <2>1, <2>2, <3>1, TellsRight
  <2> QED BY <2>3, <2>4, <2>5
<1>2. CASE OnClose(r)
  <2>1. /\ OneReply /\ pc = "waiting" /\ final # "none" /\ UNCHANGED <<call, network>>
        /\ IF given.status THEN Unwrap ELSE UNCHANGED <<delivered, outcome>>
    BY <1>2 DEF OnClose, OneReply, SyncReaders, AsyncReaders
  <2> QED BY <2>1, UnwrapsRight, Silent
<1>3. CASE OnMsg(r)
  <2>1. /\ api \in AsyncReaders /\ ~ over /\ error = "ok" /\ taken < Len(replies)
        /\ taken' = taken + 1 /\ UNCHANGED <<call, network, outcome>>
    BY <1>3 DEF OnMsg, Dispatch
  <2>2. /\ outcome = "none" /\ taken \in Nat
        /\ given.msg => delivered = taken
    BY <2>1 DEF Inv, TypeOK, ReadAsync
  <2>3. CASE given.msg /\ replies[taken'] = "good"
    <3>1. delivered' = delivered + 1
      BY <1>3, <2>3 DEF OnMsg, WrapMsgCb
    <3> QED BY <2>1, <2>2, <2>3, <3>1, DeliversRight
  <2>4. CASE given.msg /\ replies[taken'] # "good"
    BY <1>3, <2>1, <2>4, Silent DEF OnMsg, WrapMsgCb
  <2>5. CASE ~ given.msg
    BY <1>3, <2>1, <2>5, Silent DEF OnMsg
  <2> QED BY <2>3, <2>4, <2>5
<1>4. CASE OnEnd(r)
  <2>1. /\ api \in AsyncReaders /\ ~ over /\ UNCHANGED <<call, network, delivered>>
        /\ \/ error # "ok" /\ CallStatus(r, error)
           \/ error = "ok" /\ Ended /\ CallStatus(r, final)
    BY <1>4 DEF OnEnd, Dispatch
  <2>2. /\ outcome = "none" /\ error \in {"ok", "parse"}
        /\ taken \in 0 .. Len(replies) /\ Len(replies) \in Nat
        /\ error = "ok" /\ given.msg => delivered = taken
        /\ error = "parse" => given.msg /\ Unparsed
    BY <2>1 DEF Inv, TypeOK, ReadAsync
  <2>3. CASE error = "ok"
    <3>1. Ended /\ outcome' \in {"none", final}
      BY <2>1, <2>2, <2>3 DEF CallStatus
    <3> QED BY <2>1, <2>2, <2>3, <3>1, TellsRight DEF Ended
  <2>4. CASE error = "parse"
    <3>1. outcome' \in {"none", "parse"}
      BY <2>1, <2>2, <2>4 DEF CallStatus
    <3> QED BY <2>1, <2>2, <2>4, <3>1, TellsRight DEF Unparsed, Taken
  <2> QED BY <2>2, <2>3, <2>4
<1> QED BY <1>1, <1>2, <1>3, <1>4 DEF Event

LEMMA NextSteps == ASSUME Inv, [Next]_vars PROVE Step
<1>1. CASE Sync
  BY <1>1, SyncSteps
<1>2. ASSUME NEW r \in Runners, Event(r) \/ CallbackReturns(r) \/ Run(r) \/ RunReturns(r)
      PROVE  Step
  <2>1. CASE Event(r)
    BY <2>1, EventSteps
  <2>2. CASE CallbackReturns(r) \/ Run(r) \/ RunReturns(r)
    BY <2>2, Silent DEF CallbackReturns, Run, RunReturns, reading
  <2> QED BY <1>2, <2>1, <2>2
<1>3. CASE Shutdown \/ Write \/ CloseWriting \/ UNCHANGED vars
  BY <1>3, Silent DEF Shutdown, Write, CloseWriting, vars, reading
<1>4. ASSUME NEW who \in {"reader", "writer"}, Drop(who)
      PROVE  Step
  BY <1>4, Silent DEF Drop, reading
<1>5. CASE (\E m \in {"good", "bad"} : ServerSends(m)) \/ ServerFinishes \/ Breaks
  BY <1>5, NetworkSteps
<1> QED BY <1>1, <1>2, <1>3, <1>4, <1>5 DEF Next

\* Whatever the interface, its user gets the responses in order up to the first
\* that does not parse, and then at most one outcome, for the right reason.
THEOREM Refinement == Spec => ImplementsCall
<1>1. Init => Promise!Init
  <2>1. ASSUME Init PROVE given.msg \in BOOLEAN
    BY <2>1, InitInv, Interfaces
  <2> QED BY <2>1 DEF Init, Promise!Init
<1>2. Inv /\ [Next]_vars => [Promise!Next]_(Promise!vars)
  BY NextSteps DEF Step
<1> QED BY <1>1, <1>2, Invariant, PTL DEF Spec, ImplementsCall, Promise!Spec
=============================================================================
