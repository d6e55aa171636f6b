---------------------------- MODULE ServiceProofs ----------------------------
(***************************************************************************)
(* Proofs about Service, for any servers, calls and threads: the two ends  *)
(* of a connection stay in step, a server's end takes back its own         *)
(* registration and no other, and the servers and callers implement Rpc.   *)
(***************************************************************************)
EXTENDS Service, SequenceTheorems, TLAPS

USE ServiceAssumption

\* The callback has run at most once, and for every reply and every answer.
RanRight(k) ==
    /\ ran[k] \in {0, 1}
    /\ stage[k] = "header" => ran[k] = 0 /\ reply[k] \in {<<>>, <<"greet">>}
    /\ stage[k] = "response" => \/ reply[k] = <<>>
                                \/ reply[k] = <<"reply">> /\ ran[k] = 1
    /\ stage[k] = "answered" => ran[k] = 1
    /\ stage[k] \in {"header", "response", "answered"} => op[k] # "none"
    /\ op[k] # "none" => stage[k] \notin {"idle", "connect"}
    /\ stage[k] = "misled" => op[k] = "gone"

Requests == {<<"len", "body">>, <<"zero">>}

\* Before the server's header is written, after it, and after the callback.
Ungreeted(k) == ran[k] = 0 /\ reply[k] = <<>> /\ stage[k] \notin {"response", "answered"}

Greeted(k) ==
    /\ ran[k] = 0
    /\ stage[k] = "header" => reply[k] = <<"greet">> /\ request[k] = <<>>
    /\ stage[k] = "response" => reply[k] = <<>>

Served(k) == ran[k] = 1 /\ request[k] = <<>>

\* What is on its way to a connection, and what it has read, is what the
\* handler that runs next expects: by the operation it waits for.
AtAccept(k) == Ungreeted(k) /\ ec[k] = "pending" /\ request[k] = <<"hdrlen", "hdr">>

AtHeaderLength(k) ==
    /\ Ungreeted(k)
    /\ \/ ec[k] = "pending" /\ request[k] = <<"hdrlen", "hdr">>
       \/ ec[k] = "ok" /\ got[k] = "hdrlen" /\ request[k] = <<"hdr">>

AtHeader(k) ==
    /\ Ungreeted(k)
    /\ \/ ec[k] = "pending" /\ request[k] = <<"hdr">>
       \/ ec[k] = "ok" /\ got[k] = "hdr" /\ request[k] = <<>>

AtGreeting(k) ==
    \/ ec[k] = "pending" /\ Ungreeted(k) /\ request[k] = <<>>
    \/ ec[k] = "ok" /\ Greeted(k) /\ request[k] \in Requests \cup {<<>>}
    \/ ec[k] = "error" /\ stage[k] \in Over

AtRequestLength(k) ==
    \/ ec[k] = "pending" /\ Greeted(k) /\ request[k] \in Requests \cup {<<>>}
    \/ ec[k] = "pending" /\ Served(k) /\ (stage[k] = "response" => reply[k] # <<>>)
    \/ /\ ec[k] = "ok" /\ Greeted(k) /\ stage[k] # "header"
       /\ \/ got[k] = "len" /\ request[k] = <<"body">>
          \/ got[k] = "zero" /\ request[k] = <<>>
    \/ ec[k] = "error" /\ stage[k] \in Over

AtRequest(k) ==
    /\ Greeted(k) /\ stage[k] # "header"
    /\ \/ ec[k] = "pending" /\ request[k] = <<"body">>
       \/ ec[k] = "ok" /\ got[k] = "body" /\ request[k] = <<>>

AtReply(k) ==
    /\ Served(k) /\ stage[k] # "header"
    /\ \/ ec[k] = "pending" /\ (stage[k] = "response" => reply[k] = <<>>)
       \/ ec[k] = "ok" /\ (stage[k] = "response" => reply[k] = <<"reply">>)
       \/ ec[k] = "error" /\ stage[k] \in Over

StreamRight(k) ==
    /\ op[k] = "none" => Ungreeted(k) /\ ec[k] = "pending" /\ request[k] = <<>>
    /\ op[k] \in {"backlog", "accept"} => AtAccept(k)
    /\ op[k] = "hdrlen" => AtHeaderLength(k)
    /\ op[k] = "hdr" => AtHeader(k)
    /\ op[k] = "greet" => AtGreeting(k)
    /\ op[k] = "reqlen" => AtRequestLength(k)
    /\ op[k] = "req" => AtRequest(k)
    /\ op[k] = "reply" => AtReply(k)

Right(k) == RanRight(k) /\ StreamRight(k)

IInv == TypeOK /\ RegistryLive /\ \A k \in Call : Right(k)

-----------------------------------------------------------------------------
(* Steps seen from one call.                                               *)

\* Nothing a handler of k or its caller can see changes.
Same(k) ==
    /\ stage'[k] = stage[k] /\ op'[k] = op[k] /\ ec'[k] = ec[k] /\ got'[k] = got[k]
    /\ request'[k] = request[k] /\ reply'[k] = reply[k] /\ ran'[k] = ran[k]

\* A step that touches nothing of a call leaves it right.
LEMMA SameRight ==
    ASSUME NEW k \in Call, Right(k), Same(k)
    PROVE  Right(k)'
  BY DEF Right, RanRight, StreamRight, AtAccept, AtHeaderLength, AtHeader, AtGreeting,
         AtRequestLength, AtRequest,
         AtReply, Ungreeted, Greeted, Served, Same

\* A caller that ends without an answer, or a connection that is let go.
LEMMA EndedRight ==
    ASSUME NEW k \in Call, Right(k),
           stage'[k] = stage[k] \/ stage'[k] \in Over \ {"answered"},
           \/ op'[k] = op[k] /\ ec'[k] = ec[k] /\ got'[k] = got[k] /\ request'[k] = request[k]
           \/ op[k] # "none" /\ op'[k] = "gone",
           reply'[k] = reply[k] \/ (reply'[k] = <<>> /\ stage'[k] \in Over \ {"answered"}),
           stage'[k] = "misled" => stage[k] = "misled" \/ op'[k] = "gone",
           ran'[k] = ran[k]
    PROVE  Right(k)'
  BY DEF Right, RanRight, StreamRight, AtAccept, AtHeaderLength, AtHeader, AtGreeting,
         AtRequestLength, AtRequest,
         AtReply, Ungreeted, Greeted, Served, Over

\* The kernel takes the connection and the header.
LEMMA ConnectRight ==
    ASSUME TypeOK, NEW k \in Call, Right(k), Connect(k)
    PROVE  Right(k)'
  BY DEF TypeOK, Right, RanRight, StreamRight, AtAccept, Ungreeted, Connect

\* The caller reads the header and writes the request.
LEMMA ReadHeaderRight ==
    ASSUME TypeOK, NEW k \in Call, Right(k), ReadHeader(k)
    PROVE  Right(k)'
  <1>1. CASE stage'[k] = "response"
    <2>1. /\ stage[k] = "header" /\ reply[k] = <<"greet">> /\ ran[k] = 0
          /\ reply' = [reply EXCEPT ![k] = Tail(@)]
          /\ \E r \in Requests : request' = [request EXCEPT ![k] = @ \o r]
          /\ op' = op /\ ec' = ec /\ got' = got /\ ran' = ran
      BY <1>1 DEF TypeOK, Right, RanRight, ReadHeader, Request, Requests
    <2>2. reply'[k] = <<>> /\ reply[k] # <<>>
      BY <2>1 DEF TypeOK
    <2>3. CASE op[k] = "gone"
      BY <1>1, <2>1, <2>2, <2>3 DEF Right, RanRight, StreamRight
    <2>4. CASE op[k] # "gone"
      <3>1. StreamRight(k) /\ op[k] # "none" /\ op[k] \in {"backlog", "accept"} \cup Reads \cup Writes
        BY <2>1, <2>4 DEF TypeOK, Right, RanRight
      <3>2. op[k] \notin {"backlog", "accept", "hdrlen", "hdr", "req", "reply"}
        BY <2>1, <2>2, <3>1 DEF StreamRight, AtAccept, AtHeaderLength, AtHeader, AtRequest,
                                    AtReply, Ungreeted, Served
      <3>3. op[k] \in {"greet", "reqlen"}
        BY <3>1, <3>2 DEF Reads, Writes
      <3>4. /\ Greeted(k)
            /\ \/ op[k] = "greet" /\ ec[k] = "ok"
               \/ op[k] = "reqlen" /\ ec[k] = "pending"
        <4>1. stage[k] \notin Over /\ ~Ungreeted(k) /\ ~Served(k)
          BY <2>1, <2>2 DEF Over, Ungreeted, Served
        <4>2. CASE op[k] = "greet"
          BY <3>1, <4>1, <4>2 DEF StreamRight, AtGreeting
        <4>3. CASE op[k] = "reqlen"
          BY <2>1, <3>1, <4>1, <4>3 DEF StreamRight, AtRequestLength
        <4> QED BY <3>3, <4>2, <4>3
      <3>5. PICK r \in Requests : request' = [request EXCEPT ![k] = @ \o r]
        BY <2>1
      <3>6. request[k] = <<>> /\ <<>> \o r = r
        BY <2>1, <3>4 DEF Greeted, Requests
      <3>7. request'[k] = r
        BY <3>5, <3>6 DEF TypeOK
      <3> QED BY <1>1, <2>1, <2>2, <3>3, <3>4, <3>7
            DEF Right, RanRight, StreamRight, AtGreeting, AtRequestLength, Greeted
    <2> QED BY <2>3, <2>4
  <1>2. CASE stage'[k] # "response"
    <2>1. /\ stage'[k] = "threw" /\ op' = op /\ ec' = ec /\ got' = got
          /\ request' = request /\ reply' = reply /\ ran' = ran
      BY <1>2 DEF TypeOK, ReadHeader
    <2> QED BY <2>1, EndedRight DEF Over
  <1> QED BY <1>1, <1>2

\* The caller reads the response.
LEMMA ReadResponseRight ==
    ASSUME TypeOK, NEW k \in Call, Right(k), ReadResponse(k)
    PROVE  Right(k)'
  <1>1. /\ stage[k] = "response" /\ reply[k] = <<"reply">> /\ ran[k] = 1
        /\ stage'[k] = "answered" /\ reply'[k] = <<>> /\ ran' = ran
        /\ op' = op /\ ec' = ec /\ got' = got /\ request' = request
    BY DEF TypeOK, Right, RanRight, ReadResponse
  <1> QED BY <1>1 DEF TypeOK, Right, RanRight, StreamRight, AtAccept, AtHeaderLength, AtHeader,
                      AtGreeting, AtRequestLength, AtRequest,
         AtReply, Ungreeted, Greeted, Served, Over

\* A read completes: the next token is the one its handler expects.
LEMMA ReadReadyRight ==
    ASSUME TypeOK, NEW k \in Call, Right(k), ReadReady(k)
    PROVE  Right(k)'
  <1>1. /\ op[k] \in Reads /\ ec[k] = "pending" /\ RanRight(k) /\ StreamRight(k)
        /\ stage' = stage /\ op' = op /\ reply' = reply /\ ran' = ran
    BY DEF Right, ReadReady
  <1>2. CASE request[k] # <<>>
    <2>1. got'[k] = Head(request[k]) /\ request'[k] = Tail(request[k]) /\ ec'[k] = "ok"
      BY <1>2 DEF TypeOK, ReadReady
    <2>2. RanRight(k)'
      BY <1>1 DEF RanRight
    <2>3. CASE op[k] = "hdrlen"
      <3>1. AtHeaderLength(k) /\ Ungreeted(k)'
        BY <1>1, <2>3 DEF StreamRight, AtHeaderLength, Ungreeted
      <3>2. got'[k] = "hdrlen" /\ request'[k] = <<"hdr">>
        <4>1. request[k] = <<"hdrlen", "hdr">>
          BY <1>1, <3>1 DEF AtHeaderLength
        <4> QED BY <2>1, <4>1
      <3> QED BY <1>1, <2>1, <2>2, <2>3, <3>1, <3>2 DEF Right, StreamRight, AtHeaderLength
    <2>4. CASE op[k] = "hdr"
      <3>1. AtHeader(k) /\ Ungreeted(k)'
        BY <1>1, <2>4 DEF StreamRight, AtHeader, Ungreeted
      <3>2. got'[k] = "hdr" /\ request'[k] = <<>>
        <4>1. request[k] = <<"hdr">>
          BY <1>1, <3>1 DEF AtHeader
        <4> QED BY <2>1, <4>1
      <3> QED BY <1>1, <2>1, <2>2, <2>4, <3>1, <3>2 DEF Right, StreamRight, AtHeader
    <2>5. CASE op[k] = "reqlen"
      <3>1. Greeted(k) /\ request[k] \in Requests
        BY <1>1, <1>2, <2>5 DEF StreamRight, AtRequestLength, Served
      <3>2. \/ got'[k] = "len" /\ request'[k] = <<"body">>
            \/ got'[k] = "zero" /\ request'[k] = <<>>
        <4>1. CASE request[k] = <<"len", "body">>
          BY <2>1, <4>1
        <4>2. CASE request[k] = <<"zero">>
          BY <2>1, <4>2
        <4> QED BY <3>1, <4>1, <4>2 DEF Requests
      <3>3. stage[k] # "header" /\ Greeted(k)'
        BY <1>1, <1>2, <3>1 DEF Greeted
      <3> QED BY <1>1, <2>1, <2>2, <2>5, <3>2, <3>3 DEF Right, StreamRight, AtRequestLength
    <2>6. CASE op[k] = "req"
      <3>1. AtRequest(k) /\ stage[k] # "header" /\ Greeted(k)'
        BY <1>1, <2>6 DEF StreamRight, AtRequest, Greeted
      <3>2. got'[k] = "body" /\ request'[k] = <<>>
        <4>1. request[k] = <<"body">>
          BY <1>1, <3>1 DEF AtRequest
        <4> QED BY <2>1, <4>1
      <3> QED BY <1>1, <2>1, <2>2, <2>6, <3>1, <3>2 DEF Right, StreamRight, AtRequest
    <2> QED BY <1>1, <2>3, <2>4, <2>5, <2>6 DEF Reads
  <1>3. CASE request[k] = <<>>
    <2>1. stage[k] \in Over /\ ec'[k] = "error" /\ got' = got /\ request' = request
      BY <1>3 DEF TypeOK, ReadReady
    <2>2. op[k] = "reqlen"
      BY <1>1, <1>3 DEF StreamRight, AtHeaderLength, AtHeader, AtRequest, Reads
    <2> QED BY <1>1, <2>1, <2>2 DEF Right, RanRight, StreamRight, AtRequestLength
  <1> QED BY <1>2, <1>3

\* A write completes: what the caller finds is the header or the reply.
LEMMA WriteReadyRight ==
    ASSUME TypeOK, NEW k \in Call, Right(k), WriteReady(k)
    PROVE  Right(k)'
  <1>1. /\ op[k] \in Writes /\ ec[k] = "pending" /\ RanRight(k) /\ StreamRight(k)
        /\ stage' = stage /\ op' = op /\ got' = got /\ request' = request /\ ran' = ran
    BY DEF Right, WriteReady
  <1>2. \/ ec'[k] = "ok" /\ reply'[k] = Append(reply[k], op[k])
        \/ ec'[k] \in {"ok", "error"} /\ reply' = reply /\ stage[k] \in Over
    BY DEF TypeOK, WriteReady
  <1>3. CASE op[k] = "greet"
    <2>1. Ungreeted(k) /\ request[k] = <<>>
      BY <1>1, <1>3 DEF StreamRight, AtGreeting
    <2>2. Append(<<>>, op[k]) = <<"greet">>
      BY <1>3
    <2>3. RanRight(k)'
      BY <1>1, <1>2, <2>1, <2>2 DEF RanRight, Ungreeted, Over
    <2> QED BY <1>1, <1>2, <1>3, <2>1, <2>2, <2>3
            DEF Right, StreamRight, AtGreeting, Ungreeted, Greeted, Over
  <1>4. CASE op[k] = "reply"
    <2>1. Served(k) /\ stage[k] # "header" /\ (stage[k] = "response" => reply[k] = <<>>)
      BY <1>1, <1>4 DEF StreamRight, AtReply
    <2>2. Append(<<>>, op[k]) = <<"reply">>
      BY <1>4
    <2>3. RanRight(k)'
      BY <1>1, <1>2, <2>1, <2>2 DEF RanRight, Served, Over
    <2> QED BY <1>1, <1>2, <1>4, <2>1, <2>2, <2>3 DEF Right, StreamRight, AtReply, Served, Over
  <1> QED BY <1>1, <1>3, <1>4 DEF Writes

\* An accepted connection waits for the length of the header.
LEMMA AcceptRight ==
    ASSUME NEW k \in Call, Right(k), ec'[k] = ec[k], got'[k] = got[k], stage'[k] = stage[k],
           request'[k] = request[k], reply'[k] = reply[k], ran'[k] = ran[k],
           \/ op[k] = "backlog" /\ op'[k] = "accept"
           \/ op[k] = "accept" /\ op'[k] = "hdrlen"
    PROVE  Right(k)'
  BY DEF Right, RanRight, StreamRight, AtAccept, AtHeaderLength, Ungreeted

\* A handler that is given an error lets the connection go.
LEMMA GoneRight ==
    ASSUME NEW k \in Call, Right(k), op[k] # "none", op'[k] = "gone", stage'[k] = stage[k],
           reply'[k] = reply[k], ran'[k] = ran[k]
    PROVE  Right(k)'
  BY DEF Right, RanRight, StreamRight

\* The handlers that run no callback start the operation that comes next.
LEMMA HandlesRight ==
    ASSUME TypeOK, NEW k \in Call, Right(k),
           \/ HandleReadHeaderLength(k) \/ HandleReadHeader(k) \/ HandleWriteHeader(k)
           \/ HandleWrite(k)
           \/ got[k] # "zero" /\ Handles(k, "reqlen", "req") /\ ran' = ran
    PROVE  Right(k)'
  <1>1. /\ RanRight(k) /\ StreamRight(k) /\ ec[k] # "pending" /\ ec'[k] = "pending"
        /\ op[k] \in Reads \cup Writes /\ stage' = stage
        /\ request' = request /\ reply' = reply /\ ran' = ran
    BY DEF TypeOK, Right, HandleReadHeaderLength, HandleReadHeader, HandleWriteHeader,
           HandleWrite, Handles, Reads, Writes
  <1>2. CASE ec[k] # "ok"
    <2>1. op'[k] = "gone" /\ op[k] # "none"
      BY <1>1, <1>2 DEF TypeOK, HandleReadHeaderLength, HandleReadHeader, HandleWriteHeader,
                        HandleWrite, Handles, AfterError, Reads, Writes
    <2> QED BY <1>1, <2>1, GoneRight
  <1>3. CASE ec[k] = "ok"
    <2>1. <<op[k], op'[k]>> \in {<<"hdrlen", "hdr">>, <<"hdr", "greet">>, <<"greet", "reqlen">>,
                                <<"reply", "reqlen">>, <<"reqlen", "req">>}
      BY <1>3 DEF TypeOK, HandleReadHeaderLength, HandleReadHeader, HandleWriteHeader,
                  HandleWrite, Handles, AfterHeaderLength, AfterGreeting
    <2>2. op[k] = "reqlen" => got[k] # "zero"
      BY <1>3 DEF HandleReadHeaderLength, HandleReadHeader, HandleWriteHeader, HandleWrite,
                  Handles
    <2>3. RanRight(k)'
      BY <1>1, <2>1 DEF RanRight
    <2>4. CASE op[k] = "hdrlen"
      BY <1>1, <1>3, <2>1, <2>3, <2>4
        DEF Right, StreamRight, AtHeaderLength, AtHeader, Ungreeted
    <2>5. CASE op[k] = "hdr"
      BY <1>1, <1>3, <2>1, <2>3, <2>5
        DEF Right, StreamRight, AtHeader, AtGreeting, Ungreeted
    <2>6. CASE op[k] = "greet"
      BY <1>1, <1>3, <2>1, <2>3, <2>6
        DEF Right, StreamRight, AtGreeting, AtRequestLength, Greeted
    <2>7. CASE op[k] = "reply"
      <3>1. Served(k) /\ (stage[k] = "response" => reply[k] = <<"reply">>)
        BY <1>1, <1>3, <2>7 DEF StreamRight, AtReply
      <3>2. op'[k] = "reqlen" /\ <<"reply">> # <<>>
        BY <2>1, <2>7
      <3>3. AtRequestLength(k)'
        BY <1>1, <3>1, <3>2 DEF AtRequestLength, Served
      <3> QED BY <2>3, <3>2, <3>3 DEF Right, StreamRight
    <2>8. CASE op[k] = "reqlen"
      BY <1>1, <1>3, <2>1, <2>2, <2>3, <2>8
        DEF Right, StreamRight, AtRequestLength, AtRequest, Greeted
    <2> QED BY <2>1, <2>4, <2>5, <2>6, <2>7, <2>8
  <1> QED BY <1>2, <1>3

\* handle_call runs the callback, for the first time.
LEMMA HandleCallRight ==
    ASSUME TypeOK, NEW k \in Call, Right(k),
           \/ got[k] = "zero" /\ HandleCall(k, "reqlen")
           \/ HandleCall(k, "req")
    PROVE  /\ Right(k)'
           /\ ran'[k] # ran[k] => /\ ran[k] = 0 /\ ran'[k] = 1
                                  /\ stage[k] \in {"response", "threw", "killed"}
  <1>1. /\ RanRight(k) /\ StreamRight(k) /\ ec[k] # "pending" /\ ec'[k] = "pending"
        /\ op[k] \in {"reqlen", "req"} /\ (op[k] = "reqlen" => got[k] = "zero")
        /\ stage' = stage /\ request' = request /\ reply' = reply
        /\ op'[k] = (IF ec[k] = "ok" THEN "reply" ELSE "gone")
        /\ ran'[k] = IF ec[k] = "ok" THEN ran[k] + 1 ELSE ran[k]
    BY DEF TypeOK, Right, HandleCall, Handles, AfterError
  <1>2. CASE ec[k] # "ok"
    BY <1>1, <1>2, GoneRight
  <1>3. CASE ec[k] = "ok"
    <2>1. Greeted(k) /\ stage[k] # "header" /\ request[k] = <<>>
      BY <1>1, <1>3 DEF StreamRight, AtRequestLength, AtRequest
    <2>2. ran[k] = 0 /\ ran'[k] = 1 /\ stage[k] \notin {"idle", "connect", "header", "answered", "misled"}
      BY <1>1, <1>3, <2>1 DEF Greeted, RanRight
    <2>3. Right(k)'
      BY <1>1, <1>3, <2>1, <2>2
        DEF Right, RanRight, StreamRight, AtReply, Greeted, Served
    <2> QED BY <2>2, <2>3 DEF TypeOK, Waiting, Over
  <1> QED BY <1>2, <1>3

\* It may throw, before or after the callback has run.
LEMMA ThrowsRight ==
    ASSUME TypeOK, NEW k \in Call, Right(k), HandleCallThrows(k)
    PROVE  /\ Right(k)'
           /\ ran'[k] # ran[k] => /\ ran[k] = 0 /\ ran'[k] = 1
                                  /\ stage[k] \in {"response", "threw", "killed"}
  <1>1. /\ RanRight(k) /\ StreamRight(k) /\ ec[k] = "ok"
        /\ op[k] \in {"reqlen", "req"} /\ (op[k] = "reqlen" => got[k] = "zero")
        /\ stage' = stage /\ request' = request /\ reply' = reply
        /\ op'[k] = "gone" /\ ran'[k] \in {ran[k], ran[k] + 1}
    BY DEF TypeOK, Right, HandleCallThrows
  <1>2. Greeted(k) /\ stage[k] # "header"
    BY <1>1 DEF StreamRight, AtRequestLength, AtRequest
  <1>3. ran[k] = 0 /\ stage[k] \notin {"idle", "connect", "header", "answered", "misled"}
    BY <1>1, <1>2 DEF Greeted, RanRight
  <1>4. Right(k)'
    BY <1>1, <1>3 DEF Right, RanRight, StreamRight
  <1> QED BY <1>1, <1>3, <1>4 DEF TypeOK, Waiting, Over

-----------------------------------------------------------------------------
(* The inductive invariant.                                                *)

\* A step of call k that no other call sees preserves it.
LEMMA OneCall ==
    ASSUME IInv, NEW k \in Call, TypeOK', RegistryLive', Right(k)',
           \A j \in Call \ {k} : Same(j)
    PROVE  IInv'
  BY SameRight DEF IInv

\* The initial state satisfies it.
LEMMA InitIInv == Init => IInv
  BY DEF Init, IInv, TypeOK, RegistryLive, Right, RanRight, StreamRight, Ungreeted, Reads, Writes

\* The steps of the callers preserve it.
LEMMA CallerSteps ==
    ASSUME IInv, NEW k \in Call,
           LookupService(k) \/ CallerStep(k) \/ CallerKilled(k)
    PROVE  IInv'
  <1>1. TypeOK /\ RegistryLive /\ Right(k)
    BY DEF IInv
  <1>2. \A j \in Call \ {k} : Same(j)
    BY <1>1 DEF TypeOK, Same, LookupService, CallerStep, Connect, ReadHeader,
           ReadResponse, ReadNothing, CallerKilled
  <1>3. RegistryLive'
    BY <1>1 DEF RegistryLive, LookupService, CallerStep, Connect, ReadHeader,
           ReadResponse, ReadNothing, CallerKilled
  <1>4. CASE LookupService(k)
    <2>1. TypeOK'
      BY <1>1, <1>4 DEF TypeOK, LookupService, Waiting, Over
    <2>2. Right(k)'
      BY <1>1, <1>4 DEF TypeOK, Right, RanRight, StreamRight, Ungreeted, LookupService
    <2> QED BY <1>2, <1>3, <2>1, <2>2, OneCall
  <1>5. CASE Connect(k)
    <2>1. <<"hdrlen", "hdr">> \in Seq(Tokens)
      BY DEF Tokens
    <2>2. TypeOK'
      <3>1. /\ stage' \in [Call -> {"idle"} \cup Waiting \cup Over]
            /\ op' \in [Call -> {"none", "backlog", "accept", "gone"} \cup Reads \cup Writes]
        <4>1. /\ stage \in [Call -> {"idle"} \cup Waiting \cup Over]
              /\ op \in [Call -> {"none", "backlog", "accept", "gone"} \cup Reads \cup Writes]
          BY <1>1 DEF TypeOK
        <4>2. \/ stage' = [stage EXCEPT ![k] = "header"] /\ op' = [op EXCEPT ![k] = "backlog"]
              \/ stage' = [stage EXCEPT ![k] = "threw"] /\ op' = op
          BY <1>5 DEF Connect
        <4> QED BY <4>1, <4>2 DEF Waiting, Over
      <3>2. request' \in [Call -> Seq(Tokens)]
        <4> DEFINE Texts == Seq(Tokens)
        <4>1. request \in [Call -> Texts] /\ <<"hdrlen", "hdr">> \in Texts
          BY <1>1, <2>1 DEF TypeOK
        <4>2. \/ request' = request
              \/ request' = [request EXCEPT ![k] = <<"hdrlen", "hdr">>]
          BY <1>5 DEF Connect
        <4> HIDE DEF Texts
        <4>3. request' \in [Call -> Texts]
          BY <4>1, <4>2
        <4> QED BY <4>3 DEF Texts
      <3> QED BY <1>1, <1>5, <3>1, <3>2 DEF TypeOK, Connect
    <2> QED BY <1>1, <1>2, <1>3, <1>5, <2>2, ConnectRight, OneCall
  <1>6. CASE ReadHeader(k)
    <2>1. \A r \in Requests : r \in Seq(Tokens)
      <3>1. <<"len", "body">> \in Seq(Tokens) /\ <<"zero">> \in Seq(Tokens)
        BY DEF Tokens
      <3> QED BY <3>1 DEF Requests
    <2>2. request[k] \in Seq(Tokens) /\ reply[k] \in Seq(Writes)
      BY <1>1 DEF TypeOK
    <2>3. \A r \in Requests : request[k] \o r \in Seq(Tokens)
      BY <2>1, <2>2
    <2>4. reply[k] # <<>> => Tail(reply[k]) \in Seq(Writes)
      BY <2>2
    <2>5. TypeOK'
      <3>1. stage' \in [Call -> {"idle"} \cup Waiting \cup Over]
        <4>1. stage \in [Call -> {"idle"} \cup Waiting \cup Over]
          BY <1>1 DEF TypeOK
        <4>2. PICK t \in {"response", "threw"} : stage' = [stage EXCEPT ![k] = t]
          BY <1>6 DEF ReadHeader
        <4> QED BY <4>1, <4>2 DEF Waiting, Over
      <3>2. request' \in [Call -> Seq(Tokens)]
        <4> DEFINE Texts == Seq(Tokens)
        <4>1. request \in [Call -> Texts] /\ \A r \in Requests : request[k] \o r \in Texts
          BY <1>1, <2>3 DEF TypeOK
        <4>2. \/ request' = request
              \/ \E r \in Requests : request' = [request EXCEPT ![k] = request[k] \o r]
          BY <1>6 DEF ReadHeader, Request, Requests
        <4> HIDE DEF Texts
        <4>3. request' \in [Call -> Texts]
          BY <4>1, <4>2
        <4> QED BY <4>3 DEF Texts
      <3>3. reply' \in [Call -> Seq(Writes)]
        <4> DEFINE Texts == Seq(Writes)
        <4>1. reply \in [Call -> Texts] /\ (reply[k] # <<>> => Tail(reply[k]) \in Texts)
          BY <1>1, <2>4 DEF TypeOK
        <4>2. \/ reply' = reply
              \/ reply[k] # <<>> /\ reply' = [reply EXCEPT ![k] = Tail(reply[k])]
          BY <1>6 DEF ReadHeader
        <4> HIDE DEF Texts
        <4>3. reply' \in [Call -> Texts]
          BY <4>1, <4>2
        <4> QED BY <4>3 DEF Texts
      <3> QED BY <1>1, <1>6, <3>1, <3>2, <3>3 DEF TypeOK, ReadHeader
    <2> QED BY <1>1, <1>2, <1>3, <1>6, <2>5, ReadHeaderRight, OneCall
  <1>7. CASE ReadResponse(k)
    <2>1. TypeOK'
      <3>1. reply[k] # <<>> /\ reply[k] \in Seq(Writes) => Tail(reply[k]) \in Seq(Writes)
        OBVIOUS
      <3>2. reply' \in [Call -> Seq(Writes)]
        <4> DEFINE Texts == Seq(Writes)
        <4>1. reply \in [Call -> Texts] /\ Tail(reply[k]) \in Texts
          BY <1>1, <1>7, <3>1 DEF TypeOK, ReadResponse
        <4>2. reply' = [reply EXCEPT ![k] = Tail(reply[k])]
          BY <1>7 DEF ReadResponse
        <4> HIDE DEF Texts
        <4>3. reply' \in [Call -> Texts]
          BY <4>1, <4>2
        <4> QED BY <4>3 DEF Texts
      <3> QED BY <1>1, <1>7, <3>2 DEF TypeOK, ReadResponse, Waiting, Over
    <2> QED BY <1>1, <1>2, <1>3, <1>7, <2>1, ReadResponseRight, OneCall
  <1>8. CASE CallerKilled(k)
    <2>1. TypeOK'
      <3>1. reply' \in [Call -> Seq(Writes)]
        <4> DEFINE Texts == Seq(Writes)
        <4>1. reply \in [Call -> Texts] /\ <<>> \in Texts
          BY <1>1 DEF TypeOK
        <4>2. reply' = [reply EXCEPT ![k] = <<>>]
          BY <1>8 DEF CallerKilled
        <4> HIDE DEF Texts
        <4>3. reply' \in [Call -> Texts]
          BY <4>1, <4>2
        <4> QED BY <4>3 DEF Texts
      <3> QED BY <1>1, <1>8, <3>1 DEF TypeOK, CallerKilled, Waiting, Over
    <2>2. Right(k)'
      BY <1>1, <1>8, EndedRight DEF TypeOK, CallerKilled, Over
    <2> QED BY <1>2, <1>3, <2>1, <2>2, OneCall
  <1>9. CASE ReadNothing(k)
    <2>1. TypeOK'
      BY <1>1, <1>9 DEF TypeOK, ReadNothing, Waiting, Over
    <2>2. Right(k)'
      BY <1>1, <1>9, EndedRight DEF TypeOK, ReadNothing, Severed, Over
    <2> QED BY <1>2, <1>3, <2>1, <2>2, OneCall
  <1> QED BY <1>4, <1>5, <1>6, <1>7, <1>8, <1>9 DEF CallerStep

\* The completions of a connection's operations preserve it.
LEMMA SocketSteps ==
    ASSUME IInv, NEW k \in Call, AcceptReady(k) \/ ReadReady(k) \/ WriteReady(k)
    PROVE  IInv'
  <1>1. TypeOK /\ RegistryLive /\ Right(k)
    BY DEF IInv
  <1>2. \A j \in Call \ {k} : Same(j)
    BY <1>1 DEF TypeOK, Same, AcceptReady, ReadReady, WriteReady
  <1>3. RegistryLive'
    BY <1>1 DEF RegistryLive, AcceptReady, ReadReady, WriteReady
  <1>4. CASE AcceptReady(k)
    <2>1. TypeOK'
      BY <1>1, <1>4 DEF TypeOK, AcceptReady
    <2>2. Right(k)'
      BY <1>1, <1>4, AcceptRight DEF TypeOK, AcceptReady
    <2> QED BY <1>2, <1>3, <2>1, <2>2, OneCall
  <1>5. CASE ReadReady(k)
    <2>1. request[k] # <<>> => Head(request[k]) \in Tokens /\ Tail(request[k]) \in Seq(Tokens)
      BY <1>1 DEF TypeOK
    <2>2. TypeOK'
      <3>1. request' \in [Call -> Seq(Tokens)] /\ got' \in [Call -> Tokens \cup {"none"}]
        <4> DEFINE Texts == Seq(Tokens)
        <4>1. /\ request \in [Call -> Texts] /\ got \in [Call -> Tokens \cup {"none"}]
              /\ request[k] # <<>> => Head(request[k]) \in Tokens /\ Tail(request[k]) \in Texts
          BY <1>1, <2>1 DEF TypeOK
        <4>2. \/ request' = request /\ got' = got
              \/ /\ request[k] # <<>>
                 /\ request' = [request EXCEPT ![k] = Tail(request[k])]
                 /\ got' = [got EXCEPT ![k] = Head(request[k])]
          BY <1>5 DEF ReadReady
        <4> HIDE DEF Texts
        <4>3. request' \in [Call -> Texts]
          BY <4>1, <4>2
        <4>4. got' \in [Call -> Tokens \cup {"none"}]
          BY <4>1, <4>2
        <4> QED BY <4>3, <4>4 DEF Texts
      <3>2. ec' \in [Call -> {"pending", "ok", "error"}]
        BY <1>1, <1>5 DEF TypeOK, ReadReady
      <3> QED BY <1>1, <1>5, <3>1, <3>2 DEF TypeOK, ReadReady
    <2> QED BY <1>1, <1>2, <1>3, <1>5, <2>2, ReadReadyRight, OneCall
  <1>6. CASE WriteReady(k)
    <2>1. Append(reply[k], op[k]) \in Seq(Writes)
      <3>1. reply[k] \in Seq(Writes) /\ op[k] \in Writes
        BY <1>1, <1>6 DEF TypeOK, WriteReady
      <3> QED BY <3>1
    <2>2. TypeOK'
      <3>1. reply' \in [Call -> Seq(Writes)]
        <4>1. reply \in [Call -> Seq(Writes)]
          BY <1>1 DEF TypeOK
        <4>2. reply' = reply \/ reply' = [reply EXCEPT ![k] = Append(reply[k], op[k])]
          BY <1>6 DEF WriteReady
        <4> DEFINE Texts == Seq(Writes)
        <4>3. reply \in [Call -> Texts] /\ Append(reply[k], op[k]) \in Texts
          BY <2>1, <4>1
        <4> HIDE DEF Texts
        <4>4. reply' \in [Call -> Texts]
          BY <4>2, <4>3
        <4> QED BY <4>4 DEF Texts
      <3>2. ec' \in [Call -> {"pending", "ok", "error"}]
        <4>1. PICK e \in {"ok", "error"} : ec' = [ec EXCEPT ![k] = e]
          BY <1>6 DEF WriteReady
        <4> QED BY <1>1, <4>1 DEF TypeOK
      <3> QED BY <1>1, <1>6, <3>1, <3>2 DEF TypeOK, WriteReady
    <2> QED BY <1>1, <1>2, <1>3, <1>6, <2>2, WriteReadyRight, OneCall
  <1> QED BY <1>4, <1>5, <1>6

\* The handlers of a connection preserve it.
LEMMA HandlerSteps ==
    ASSUME IInv, NEW k \in Call,
           \/ HandleReadHeaderLength(k) \/ HandleReadHeader(k) \/ HandleWriteHeader(k)
           \/ HandleReadRequestLen(k) \/ HandleReadRequest(k) \/ HandleWrite(k)
    PROVE  IInv'
  <1>1. TypeOK /\ RegistryLive /\ Right(k)
    BY DEF IInv
  <1>2. PICK o, next \in Reads \cup Writes :
           /\ Handles(k, o, next)
           /\ ran' \in {ran, [ran EXCEPT ![k] = @ + 1]}
    BY <1>1 DEF TypeOK, HandleReadHeaderLength, HandleReadHeader, HandleWriteHeader,
                HandleReadRequestLen, HandleReadRequest, HandleWrite, HandleCall,
                AfterHeaderLength, AfterGreeting, Reads, Writes
  <1>3. \A j \in Call \ {k} : Same(j)
    BY <1>1, <1>2 DEF TypeOK, Same, Handles
  <1>4. RegistryLive'
    BY <1>1, <1>2 DEF RegistryLive, Handles
  <1>5. TypeOK'
    <2>1. op' \in [Call -> {"none", "backlog", "accept", "gone"} \cup Reads \cup Writes]
      BY <1>1, <1>2 DEF TypeOK, Handles, AfterError
    <2>2. ran' \in [Call -> Nat]
      <3>1. ran \in [Call -> Nat]
        BY <1>1 DEF TypeOK
      <3>2. [ran EXCEPT ![k] = @ + 1] \in [Call -> Nat]
        BY <3>1
      <3> QED BY <1>2, <3>1, <3>2
    <2>3. ec' \in [Call -> {"pending", "ok", "error"}]
      BY <1>1, <1>2 DEF TypeOK, Handles
    <2>4. got' \in [Call -> Tokens \cup {"none"}]
      BY <1>1, <1>2 DEF TypeOK, Handles
    <2> QED BY <1>1, <1>2, <2>1, <2>2, <2>3, <2>4 DEF TypeOK, Handles
  <1>6. Right(k)'
    BY <1>1, HandlesRight, HandleCallRight DEF HandleReadRequestLen, HandleReadRequest
  <1> QED BY <1>3, <1>4, <1>5, <1>6, OneCall

\* So does one that throws.
LEMMA ThrowSteps ==
    ASSUME IInv, NEW k \in Call, HandleCallThrows(k)
    PROVE  IInv'
  <1>1. TypeOK /\ RegistryLive /\ Right(k)
    BY DEF IInv
  <1>2. \A j \in Call \ {k} : Same(j)
    BY <1>1 DEF TypeOK, Same, HandleCallThrows
  <1>3. RegistryLive'
    BY <1>1 DEF TypeOK, RegistryLive, HandleCallThrows, Free
  <1>4. TypeOK'
    <2>1. op' \in [Call -> {"none", "backlog", "accept", "gone"} \cup Reads \cup Writes]
      BY <1>1 DEF TypeOK, HandleCallThrows
    <2>2. ran' \in [Call -> Nat]
      <3>1. ran \in [Call -> Nat]
        BY <1>1 DEF TypeOK
      <3>2. [ran EXCEPT ![k] = @ + 1] \in [Call -> Nat]
        BY <3>1
      <3> QED BY <3>1, <3>2 DEF HandleCallThrows
    <2>3. ec' \in [Call -> {"pending", "ok", "error"}]
      BY <1>1 DEF TypeOK, HandleCallThrows
    <2>4. got' \in [Call -> Tokens \cup {"none"}]
      BY <1>1 DEF TypeOK, HandleCallThrows
    <2>5. loop' \in [Node -> {"running", "stopped", "thrown", "killed", "undefined"}]
      BY <1>1 DEF TypeOK, HandleCallThrows
    <2> QED BY <1>1, <2>1, <2>2, <2>3, <2>4, <2>5 DEF TypeOK, HandleCallThrows
  <1> QED BY <1>1, <1>2, <1>3, <1>4, ThrowsRight, OneCall

\* The accepts of the servers preserve it.
LEMMA AcceptSteps ==
    ASSUME IInv, NEW v \in Server, AcceptFails(v) \/ AcceptHandler(v)
    PROVE  IInv'
  <1>1. TypeOK /\ RegistryLive
    BY DEF IInv
  <1>2. TypeOK'
    <2>1. op' \in [Call -> {"none", "backlog", "accept", "gone"} \cup Reads \cup Writes]
      BY <1>1 DEF TypeOK, AcceptFails, AcceptHandler, Reads
    <2>2. /\ accept' \in [Server -> {"none", "pending", "ok", "failed"}]
          /\ loop' \in [Node -> {"running", "stopped", "thrown", "killed", "undefined"}]
          /\ \A w \in Server : accept'[w] = "none" => accept[w] = "none"
      BY <1>1 DEF TypeOK, AcceptFails, AcceptHandler, NextAccept
    <2> QED BY <1>1, <2>1, <2>2 DEF TypeOK, AcceptFails, AcceptHandler
  <1>3. RegistryLive'
    BY <1>1 DEF TypeOK, RegistryLive, AcceptFails, AcceptHandler, Free
  <1>4. ASSUME NEW k \in Call PROVE Right(k)'
    <2>1. Right(k)
      BY DEF IInv
    <2>2. CASE op'[k] = op[k]
      BY <1>1, <2>1, <2>2, SameRight DEF Same, AcceptFails, AcceptHandler
    <2>3. CASE op[k] = "accept" /\ op'[k] = "hdrlen"
      BY <2>1, <2>3, AcceptRight DEF AcceptFails, AcceptHandler
    <2> QED BY <2>2, <2>3 DEF AcceptFails, AcceptHandler
  <1> QED BY <1>2, <1>3, <1>4 DEF IInv

\* The constructors and destructors of servers, and a stop of their loop,
\* preserve it.
LEMMA LifeSteps ==
    ASSUME IInv,
           \/ \E v \in Server : CreateServer(v) \/ DestroyServer(v)
           \/ \E n \in Node : StopLoop(n)
    PROVE  IInv'
  <1>1. TypeOK /\ RegistryLive
    BY DEF IInv
  <1>2. TypeOK'
    <2>1. ASSUME NEW v \in Server, CreateServer(v) PROVE TypeOK'
      BY <1>1, <2>1 DEF TypeOK, CreateServer, Inserted
    <2>2. ASSUME NEW v \in Server, DestroyServer(v) PROVE TypeOK'
      BY <1>1, <2>2 DEF TypeOK, DestroyServer, Unregister, OwnUri, Erased
    <2>3. ASSUME NEW n \in Node, StopLoop(n) PROVE TypeOK'
      BY <1>1, <2>3 DEF TypeOK, StopLoop
    <2> QED BY <2>1, <2>2, <2>3
  <1>3. RegistryLive'
    <2>1. ASSUME NEW v \in Server, CreateServer(v) PROVE RegistryLive'
      BY <1>1, <2>1 DEF TypeOK, RegistryLive, CreateServer, Inserted
    <2>2. ASSUME NEW v \in Server, DestroyServer(v) PROVE RegistryLive'
      BY <1>1, <2>2 DEF TypeOK, RegistryLive, DestroyServer, Unregister, OwnUri, Erased
    <2>3. ASSUME NEW n \in Node, StopLoop(n) PROVE RegistryLive'
      BY <1>1, <2>3 DEF TypeOK, RegistryLive, StopLoop, Free
    <2> QED BY <2>1, <2>2, <2>3
  <1>4. ASSUME NEW k \in Call PROVE Right(k)'
    <2>1. Right(k)
      BY DEF IInv
    <2> QED BY <2>1, EndedRight DEF CreateServer, DestroyServer, StopLoop
  <1> QED BY <1>2, <1>3, <1>4 DEF IInv

\* The end of a process preserves it: its callers never have their answer.
LEMMA ProcessSteps ==
    ASSUME IInv, NEW n \in Node, ProcessEnds(n)
    PROVE  IInv'
  <1>1. TypeOK /\ RegistryLive
    BY DEF IInv
  <1>2. TypeOK'
    <2>1. request' \in [Call -> Seq(Tokens)]
      <3> DEFINE Texts == Seq(Tokens)
                 Cut(k) == op[k] # "none" /\ Home[to[k]] = n
      <3>1. request \in [Call -> Texts] /\ <<>> \in Texts
        BY <1>1 DEF TypeOK
      <3>2. request' = [k \in Call |-> IF Cut(k) THEN <<>> ELSE request[k]]
        BY DEF ProcessEnds
      <3> HIDE DEF Texts, Cut
      <3>3. request' \in [Call -> Texts]
        BY <3>1, <3>2
      <3> QED BY <3>3 DEF Texts
    <2>2. /\ stage' \in [Call -> {"idle"} \cup Waiting \cup Over]
          /\ op' \in [Call -> {"none", "backlog", "accept", "gone"} \cup Reads \cup Writes]
          /\ ec' \in [Call -> {"pending", "ok", "error"}]
          /\ got' \in [Call -> Tokens \cup {"none"}]
      BY <1>1 DEF TypeOK, ProcessEnds, Over
    <2>3. /\ state' \in [Server -> {"new", "live", "dead"}]
          /\ accept' \in [Server -> {"none", "pending", "ok", "failed"}]
          /\ \A v \in Server : state'[v] = "live" => accept'[v] # "none"
          /\ m_services' \in SUBSET Server
          /\ loop' \in [Node -> {"running", "stopped", "thrown", "killed", "undefined"}]
      BY <1>1 DEF TypeOK, ProcessEnds
    <2> QED BY <1>1, <2>1, <2>2, <2>3 DEF TypeOK, ProcessEnds
  <1>3. RegistryLive'
    BY <1>1 DEF TypeOK, RegistryLive, ProcessEnds
  <1>4. ASSUME NEW k \in Call PROVE Right(k)'
    <2>1. Right(k)
      BY DEF IInv
    <2>2. /\ reply' = reply /\ ran' = ran
          /\ stage'[k] = stage[k] \/ stage'[k] = "killed"
          /\ \/ op'[k] = op[k] /\ ec'[k] = ec[k] /\ got'[k] = got[k] /\ request'[k] = request[k]
             \/ op[k] # "none" /\ op'[k] = "gone"
      BY DEF ProcessEnds
    <2> QED BY <2>1, <2>2, EndedRight DEF Over
  <1> QED BY <1>2, <1>3, <1>4 DEF IInv

\* It holds in every reachable state.
THEOREM Invariance == Spec => []IInv
  <1>1. IInv /\ [Next]_vars => IInv'
    <2>1. ASSUME IInv, UNCHANGED vars PROVE IInv'
      <3>1. TypeOK' /\ RegistryLive'
        BY <2>1 DEF vars, IInv, TypeOK, RegistryLive
      <3>2. \A k \in Call : Right(k)'
        BY <2>1, SameRight DEF vars, IInv, Same
      <3> QED BY <3>1, <3>2 DEF IInv
    <2>2. ASSUME IInv, NEW k \in Call, ReadCrashes(k) \/ \E n \in Node : KillNode(n)
          PROVE  IInv'
      BY <2>2, ProcessSteps DEF ReadCrashes, KillNode
    <2> QED BY <2>1, <2>2, CallerSteps, SocketSteps, HandlerSteps, ThrowSteps, AcceptSteps,
               LifeSteps, ProcessSteps DEF Next, ConnectionStep, KillNode
  <1> QED BY <1>1, InitIInv, PTL DEF Spec

-----------------------------------------------------------------------------
(* What follows from it.                                                   *)

\* Every variable keeps its type, and a server always has an accept.
THEOREM TypeCorrect == Spec => []TypeOK
  <1>1. IInv => TypeOK
    BY DEF IInv
  <1> QED BY <1>1, Invariance, PTL

\* Handlers and callers read what they take it for.
THEOREM Steps == Spec => []InStep
  <1>1. IInv => InStep
    <2> SUFFICES ASSUME IInv, NEW k \in Call
                 PROVE  /\ op[k] \in Reads /\ ec[k] = "ok" =>
                              got[k] \in (CASE op[k] = "hdrlen" -> {"hdrlen"}
                                            [] op[k] = "hdr"    -> {"hdr"}
                                            [] op[k] = "reqlen" -> {"len", "zero"}
                                            [] op[k] = "req"    -> {"body"})
                        /\ stage[k] = "header" => reply[k] \in {<<>>, <<"greet">>}
                        /\ stage[k] = "response" => reply[k] \in {<<>>, <<"reply">>}
      BY DEF InStep
    <2>1. RanRight(k) /\ StreamRight(k)
      BY DEF IInv, Right
    <2>2. ASSUME ec[k] = "ok"
          PROVE  /\ op[k] = "hdrlen" => got[k] = "hdrlen"
                 /\ op[k] = "hdr" => got[k] = "hdr"
                 /\ op[k] = "reqlen" => got[k] \in {"len", "zero"}
                 /\ op[k] = "req" => got[k] = "body"
      BY <2>1, <2>2 DEF StreamRight, AtHeaderLength, AtHeader, AtRequestLength, AtRequest
    <2> QED BY <2>1, <2>2 DEF RanRight, Reads
  <1> QED BY <1>1, Invariance, PTL

\* What is registered is there, unless its process was killed, and a server's
\* end takes back its own registration and no other.
THEOREM Registered == Spec => Registrations
  <1>1. IInv => RegistryLive
    BY DEF IInv
  <1>2. IInv /\ [Next]_vars => [OwnRegistration]_vars
    <2> SUFFICES ASSUME IInv, Next, provider' # provider PROVE OwnRegistration
      BY DEF OwnRegistration
    <2>1. TypeOK
      BY DEF IInv
    <2>2. PICK v \in Server : CreateServer(v) \/ DestroyServer(v)
      BY DEF Next, LookupService, CallerStep, Connect, ReadHeader, ReadResponse, ReadNothing,
         ReadCrashes, ProcessEnds, CallerKilled, AcceptReady, ConnectionStep, ReadReady,
         WriteReady, HandleReadHeaderLength, HandleReadHeader, HandleWriteHeader,
         HandleReadRequestLen, HandleReadRequest, HandleWrite, HandleCall, Handles,
         HandleCallThrows, AcceptFails, AcceptHandler, KillNode, StopLoop
    <2>3. CASE CreateServer(v)
      BY <2>3 DEF CreateServer, OwnRegistration
    <2>4. CASE DestroyServer(v)
      BY <2>1, <2>4 DEF TypeOK, DestroyServer, Unregister, OwnUri, OwnRegistration
    <2> QED BY <2>2, <2>3, <2>4
  <1> QED BY <1>1, <1>2, Invariance, PTL DEF Spec, Registrations

-----------------------------------------------------------------------------
(* What CallsEnd rests on: the two ends of a connection never both wait.    *)

\* The server's end of k can go on, once its loop is free.
ServerCanGoOn(k) ==
    \/ op[k] = "backlog" /\ state[to[k]] = "live" /\ accept[to[k]] # "none"
    \/ op[k] = "accept" /\ accept[to[k]] = "ok"
    \/ op[k] \in Reads /\ (ec[k] # "pending" \/ request[k] # <<>>)
    \/ op[k] \in Writes

CanGoOn(k) ==
    \/ stage[k] = "connect"
    \/ reply[k] # <<>> \/ op[k] = "gone"
    \/ Free(Home[to[k]]) /\ ServerCanGoOn(k)

\* A call that waits can go on, or its server's loop has come to a halt or
\* makes a call: whatever of headers, requests and replies has gone over the
\* connection, its two ends do not wait for each other.
Unblocked ==
    \A k \in Call : stage[k] \in Waiting =>
        \/ CanGoOn(k)
        \/ Halted(Home[to[k]])
        \/ \E j \in Call : Thread[j] = Home[to[k]] /\ stage[j] \in Waiting

AwaitsRequest(k) == op[k] = "greet" \/ (op[k] = "reqlen" /\ ec[k] = "pending")

\* A connection belongs to a server, which listens while it is in the backlog
\* and has an accept to handle when it has been accepted, and ends with it, but
\* not before, as long as the caller waits; and when the caller has read the
\* header, its request has been sent.
PlaceRight(k) ==
    /\ stage[k] \in Waiting \/ op[k] # "none" => to[k] \in Server
    /\ op[k] = "backlog" => state[to[k]] = "live"
    /\ op[k] = "accept" => accept[to[k]] = "ok" /\ state[to[k]] # "new"
    /\ op[k] \notin {"none", "gone"} => loop[Home[to[k]]] # "killed"
    /\ op[k] = "gone" /\ stage[k] \in Waiting => Ended(to[k])
    /\ stage[k] = "response" /\ ran[k] = 0 /\ AwaitsRequest(k) => request[k] # <<>>

KilledDead == \A v \in Server : loop[Home[v]] = "killed" => state[v] = "dead"

Placed == KilledDead /\ \A k \in Call : PlaceRight(k)

\* Of the fields that PlaceRight is about, a step changes none for j.
LEMMA SamePlace ==
    ASSUME NEW j \in Call, PlaceRight(j), Same(j), to'[j] = to[j],
           loop' = loop, state' = state, accept' = accept
    PROVE  PlaceRight(j)'
  BY DEF PlaceRight, AwaitsRequest, Ended, Same

\* Callers find servers that listen, and write a request when they have read
\* a header.
LEMMA CallerPlaces ==
    ASSUME IInv, Placed, NEW k \in Call,
           LookupService(k) \/ CallerStep(k) \/ CallerKilled(k)
    PROVE  Placed'
  <1>1. TypeOK /\ Right(k) /\ PlaceRight(k) /\ KilledDead
    BY DEF IInv, Placed
  <1>2. loop' = loop /\ state' = state /\ accept' = accept
    BY DEF LookupService, CallerStep, Connect, ReadHeader, ReadResponse, ReadNothing, CallerKilled
  <1>3. \A j \in Call \ {k} : Same(j) /\ to'[j] = to[j]
    BY <1>1 DEF TypeOK, Same, LookupService, CallerStep, Connect, ReadHeader, ReadResponse,
                ReadNothing, CallerKilled
  <1>4. ASSUME PlaceRight(k)' PROVE Placed'
    BY <1>1, <1>2, <1>3, <1>4, SamePlace DEF Placed, KilledDead
  <1>5. CASE LookupService(k)
    <2>1. op[k] = "none" /\ op' = op
      BY <1>1, <1>5 DEF TypeOK, Right, RanRight, LookupService
    <2>2. to'[k] = provider /\ (stage'[k] \in Waiting => provider \in Server)
          /\ stage'[k] # "response"
      BY <1>1, <1>5 DEF TypeOK, LookupService, Waiting
    <2> QED BY <1>4, <2>1, <2>2 DEF PlaceRight
  <1>6. CASE Connect(k)
    <2>1. /\ to' = to /\ to[k] \in Server
          /\ stage'[k] # "response" /\ op[k] = "none"
          /\ op'[k] = op[k] \/ (op'[k] = "backlog" /\ state[to[k]] = "live")
      BY <1>1, <1>6 DEF TypeOK, Right, RanRight, PlaceRight, Connect, Waiting
    <2> QED BY <1>1, <1>2, <1>4, <2>1 DEF PlaceRight, KilledDead
  <1>7. CASE ReadHeader(k)
    <2>1. request[k] \in Seq(Tokens)
      BY <1>1 DEF TypeOK
    <2>2. \A r \in Requests : request[k] \o r # <<>>
      BY <2>1 DEF Requests
    <2>3. /\ to' = to /\ op' = op /\ ec' = ec /\ ran' = ran
          /\ stage[k] \in Waiting
          /\ stage'[k] = "response" => \E r \in Requests : request'[k] = request[k] \o r
      BY <1>1, <1>7 DEF TypeOK, ReadHeader, Request, Requests, Waiting
    <2> QED BY <1>1, <1>2, <1>4, <2>2, <2>3 DEF PlaceRight, Ended
  <1>8. CASE ReadResponse(k) \/ ReadNothing(k) \/ CallerKilled(k)
    <2>1. /\ to' = to /\ op' = op
          /\ stage[k] \in Waiting
          /\ stage'[k] \notin Waiting
      BY <1>1, <1>8 DEF TypeOK, ReadResponse, ReadNothing, Severed, CallerKilled, Waiting
    <2> QED BY <1>1, <1>2, <1>4, <2>1 DEF PlaceRight, Waiting
  <1> QED BY <1>5, <1>6, <1>7, <1>8 DEF CallerStep

\* Completions and handlers of a connection leave it with its server, and take
\* a request only to handle it.
LEMMA ServerPlaces ==
    ASSUME IInv, Placed, NEW k \in Call,
           \/ ReadReady(k) \/ WriteReady(k)
           \/ HandleReadHeaderLength(k) \/ HandleReadHeader(k) \/ HandleWriteHeader(k)
           \/ HandleReadRequestLen(k) \/ HandleReadRequest(k) \/ HandleWrite(k)
    PROVE  Placed'
  <1>1. TypeOK /\ Right(k) /\ PlaceRight(k) /\ KilledDead
    BY DEF IInv, Placed
  <1>2. /\ loop' = loop /\ state' = state /\ accept' = accept /\ to' = to /\ stage' = stage
        /\ \A j \in Call \ {k} : Same(j)
    BY <1>1 DEF TypeOK, Same, ReadReady, WriteReady, Handles, HandleCall, HandleReadHeaderLength,
       HandleReadHeader, HandleWriteHeader, HandleReadRequestLen, HandleReadRequest, HandleWrite
  <1>3. /\ op[k] \notin {"none", "gone"}
        /\ op'[k] \notin {"none", "backlog", "accept"}
    BY <1>1 DEF TypeOK, Reads, Writes, ReadReady, WriteReady, Handles, HandleCall,
       HandleReadHeaderLength, HandleReadHeader, HandleWriteHeader, HandleReadRequestLen,
       HandleReadRequest, HandleWrite, AfterHeaderLength, AfterGreeting, AfterError
  <1>4. ASSUME stage[k] = "response", ran'[k] = 0,
               AwaitsRequest(k)'
        PROVE  request'[k] # <<>>
    <2>1. CASE ReadReady(k) \/ WriteReady(k)
      BY <1>1, <1>4, <2>1 DEF TypeOK, Reads, Writes, ReadReady, WriteReady, PlaceRight,
         AwaitsRequest
    <2>2. CASE HandleReadHeaderLength(k) \/ HandleReadHeader(k)
      BY <1>1, <1>4, <2>2 DEF TypeOK, Right, StreamRight, AtHeaderLength, AtHeader, Ungreeted,
         HandleReadHeaderLength, HandleReadHeader, Handles,
         AwaitsRequest, AfterHeaderLength
    <2>3. CASE HandleWriteHeader(k)
      BY <1>1, <1>4, <2>3 DEF TypeOK, HandleWriteHeader, Handles, PlaceRight, AwaitsRequest,
         AfterError
    <2>4. CASE HandleReadRequestLen(k) \/ HandleReadRequest(k)
      BY <1>1, <1>4, <2>4 DEF TypeOK, HandleReadRequestLen, HandleReadRequest, HandleCall,
                              Handles,
         AfterError, AwaitsRequest
    <2>5. CASE HandleWrite(k)
      BY <1>1, <1>4, <2>5 DEF TypeOK, Right, StreamRight, AtReply, Served, HandleWrite, Handles,
         AwaitsRequest, AfterError
    <2> QED BY <2>1, <2>2, <2>3, <2>4, <2>5
  <1>5. ASSUME op'[k] = "gone" PROVE stage[k] \in Over
    <2>1. ec[k] = "error" /\ op[k] \in Reads \cup Writes
      BY <1>1, <1>3, <1>5 DEF TypeOK, Reads, Writes, ReadReady, WriteReady, Handles, HandleCall,
         HandleReadHeaderLength, HandleReadHeader, HandleWriteHeader, HandleReadRequestLen,
         HandleReadRequest, HandleWrite, AfterHeaderLength, AfterGreeting
    <2> QED BY <1>1, <2>1 DEF Right, StreamRight, AtHeaderLength, AtHeader, AtGreeting,
               AtRequestLength, AtRequest, AtReply, Reads, Writes
  <1>6. stage[k] \in Over => stage[k] \notin Waiting
    BY DEF Over, Waiting
  <1>7. PlaceRight(k)'
    BY <1>1, <1>2, <1>3, <1>4, <1>5, <1>6 DEF PlaceRight
  <1> QED BY <1>1, <1>2, <1>7, SamePlace DEF Placed, KilledDead

\* A handler that throws takes the loop of its server with it.
LEMMA ThrowPlaces ==
    ASSUME IInv, Placed, NEW k \in Call, HandleCallThrows(k)
    PROVE  Placed'
  <1>1. TypeOK /\ KilledDead /\ PlaceRight(k)
    BY DEF IInv, Placed
  <1>2. /\ state' = state /\ accept' = accept /\ to' = to /\ stage' = stage
        /\ request' = request /\ op'[k] = "gone"
        /\ \A j \in Call \ {k} : op'[j] = op[j] /\ ec'[j] = ec[j] /\ ran'[j] = ran[j]
    BY <1>1 DEF TypeOK, HandleCallThrows
  <1>3. /\ to[k] \in Server /\ loop[Home[to[k]]] = "running"
        /\ loop' = [loop EXCEPT ![Home[to[k]]] = "thrown"]
    BY <1>1 DEF HandleCallThrows, PlaceRight, Free
  <1>4. \A v \in Server : /\ loop'[Home[v]] = "killed" => loop[Home[v]] = "killed"
                          /\ Ended(v) => Ended(v)'
    BY <1>1, <1>2, <1>3 DEF TypeOK, Ended
  <1>5. PlaceRight(k)'
    BY <1>1, <1>2, <1>3 DEF TypeOK, PlaceRight, AwaitsRequest, Ended
  <1>6. ASSUME NEW j \in Call \ {k} PROVE PlaceRight(j)'
    <2>1. PlaceRight(j)
      BY DEF Placed
    <2> QED BY <1>2, <1>4, <2>1 DEF PlaceRight, AwaitsRequest
  <1> QED BY <1>1, <1>2, <1>4, <1>5, <1>6 DEF Placed, KilledDead

\* An accepted connection leaves the backlog of its server.
LEMMA AcceptPlaces ==
    ASSUME IInv, Placed,
           \/ \E k \in Call : AcceptReady(k)
           \/ \E v \in Server : AcceptFails(v) \/ AcceptHandler(v)
    PROVE  Placed'
  <1>1. TypeOK /\ KilledDead
    BY DEF IInv, Placed
  <1>2. ASSUME NEW j \in Call, NEW k \in Call, AcceptReady(k)
        PROVE  PlaceRight(j)'
    <2>1. PlaceRight(j) /\ PlaceRight(k)
      BY DEF Placed
    <2>2. to[k] \in Server /\ accept' = [accept EXCEPT ![to[k]] = "ok"]
      BY <1>2, <2>1 DEF AcceptReady, PlaceRight
    <2>3. /\ loop' = loop /\ state' = state /\ to' = to /\ stage' = stage /\ ran' = ran
          /\ ec' = ec /\ request' = request /\ op' = [op EXCEPT ![k] = "accept"]
          /\ op[k] = "backlog"
      BY <1>2 DEF AcceptReady
    <2> QED BY <1>1, <2>1, <2>2, <2>3 DEF TypeOK, PlaceRight, AwaitsRequest, Ended
  <1>3. ASSUME NEW j \in Call, NEW v \in Server, AcceptFails(v) \/ AcceptHandler(v)
        PROVE  PlaceRight(j)'
    <2>1. PlaceRight(j) /\ Right(j)
      BY DEF Placed, IInv
    <2>2. CASE AcceptFails(v)
      BY <1>1, <2>1, <2>2 DEF TypeOK, PlaceRight, AwaitsRequest, Ended, AcceptFails
    <2>3. CASE AcceptHandler(v)
      <3>1. /\ state' = state /\ to' = to /\ stage' = stage /\ ran' = ran /\ ec' = ec
            /\ request' = request
            /\ op'[j] = IF op[j] = "accept" /\ to[j] = v THEN "hdrlen" ELSE op[j]
            /\ \A w \in Server \ {v} : accept'[w] = accept[w]
            /\ loop' = loop \/ loop' = [loop EXCEPT ![Home[v]] = "undefined"]
            /\ loop[Home[v]] = "running"
        BY <1>1, <2>3 DEF TypeOK, AcceptHandler, Free
      <3>2. \A w \in Server : /\ loop'[Home[w]] = "killed" => loop[Home[w]] = "killed"
                              /\ loop[Home[w]] = "thrown" => loop'[Home[w]] = "thrown"
        BY <1>1, <3>1 DEF TypeOK
      <3> QED BY <2>1, <3>1, <3>2 DEF PlaceRight, AwaitsRequest, Ended
    <2> QED BY <1>3, <2>2, <2>3
  <1>4. KilledDead'
    BY <1>1 DEF TypeOK, KilledDead, AcceptReady, AcceptFails, AcceptHandler, Free
  <1> QED BY <1>2, <1>3, <1>4 DEF Placed

\* A server that is destroyed takes its backlog with it.
LEMMA LifePlaces ==
    ASSUME IInv, Placed,
           \/ \E v \in Server : CreateServer(v) \/ DestroyServer(v)
           \/ \E n \in Node : StopLoop(n)
    PROVE  Placed'
  <1>1. TypeOK /\ KilledDead
    BY DEF IInv, Placed
  <1>2. ASSUME NEW j \in Call, NEW v \in Server, CreateServer(v) \/ DestroyServer(v)
        PROVE  PlaceRight(j)'
    <2>1. PlaceRight(j)
      BY DEF Placed
    <2>2. /\ to' = to /\ stage' = stage /\ ran' = ran /\ ec' = ec /\ request' = request
          /\ loop' = loop
          /\ \A w \in Server \ {v} : state'[w] = state[w] /\ accept'[w] = accept[w]
      BY <1>1, <1>2 DEF TypeOK, CreateServer, DestroyServer
    <2>3. /\ op'[j] = op[j] \/ (op[j] = "backlog" /\ op'[j] = "gone" /\ to[j] = v /\ Ended(v)')
          /\ op'[j] = "backlog" /\ to[j] = v => state'[v] = "live"
          /\ op[j] = "accept" /\ to[j] = v => accept'[v] = "ok" /\ state'[v] # "new"
          /\ Ended(v) => Ended(v)'
      BY <1>1, <1>2, <2>1 DEF TypeOK, PlaceRight, Ended, CreateServer, DestroyServer
    <2>4. CASE to[j] = v
      BY <2>1, <2>2, <2>3, <2>4 DEF PlaceRight, AwaitsRequest
    <2>5. CASE to[j] # v
      BY <2>1, <2>2, <2>3, <2>5 DEF PlaceRight, AwaitsRequest, Ended
    <2> QED BY <2>4, <2>5
  <1>3. ASSUME NEW j \in Call, NEW n \in Node, StopLoop(n) PROVE PlaceRight(j)'
    <2>1. PlaceRight(j)
      BY DEF Placed
    <2>2. \A w \in Server : /\ loop'[Home[w]] = "killed" => loop[Home[w]] = "killed"
                            /\ loop[Home[w]] = "thrown" => loop'[Home[w]] = "thrown"
      BY <1>1, <1>3 DEF TypeOK, StopLoop, Free
    <2> QED BY <1>3, <2>1, <2>2 DEF PlaceRight, AwaitsRequest, Ended, StopLoop
  <1>4. ASSUME NEW v \in Server, CreateServer(v) \/ DestroyServer(v) PROVE KilledDead'
    BY <1>1, <1>4 DEF TypeOK, KilledDead, CreateServer, DestroyServer, Free
  <1>5. ASSUME NEW n \in Node, StopLoop(n) PROVE KilledDead'
    BY <1>1, <1>5 DEF TypeOK, KilledDead, StopLoop, Free
  <1> QED BY <1>2, <1>3, <1>4, <1>5 DEF Placed

\* A process that ends takes all connections of its servers with it.
LEMMA ProcessPlaces ==
    ASSUME IInv, Placed, NEW n \in Node, ProcessEnds(n)
    PROVE  Placed'
  <1>1. TypeOK /\ KilledDead
    BY DEF IInv, Placed
  <1>2. \A v \in Server : /\ Home[v] = n => state'[v] = "dead"
                          /\ Home[v] # n => /\ state'[v] = state[v] /\ accept'[v] = accept[v]
                                            /\ loop'[Home[v]] = loop[Home[v]]
    BY <1>1 DEF TypeOK, ProcessEnds
  <1>3. ASSUME NEW j \in Call PROVE PlaceRight(j)'
    <2>1. PlaceRight(j)
      BY DEF Placed
    <2>2. /\ to' = to /\ ran' = ran
          /\ stage'[j] \in {stage[j], "killed"}
          /\ IF op[j] # "none" /\ Home[to[j]] = n
              THEN op'[j] = "gone"
              ELSE op'[j] = op[j] /\ ec'[j] = ec[j] /\ request'[j] = request[j]
      BY DEF ProcessEnds
    <2>3. "killed" \notin Waiting
      BY DEF Waiting
    <2>4. CASE op[j] # "none" /\ Home[to[j]] = n
      BY <1>2, <2>1, <2>2, <2>4 DEF PlaceRight, AwaitsRequest, Ended
    <2>5. CASE ~(op[j] # "none" /\ Home[to[j]] = n)
      BY <1>2, <2>1, <2>2, <2>3, <2>5 DEF PlaceRight, AwaitsRequest, Ended
    <2> QED BY <2>4, <2>5
  <1>4. KilledDead'
    BY <1>1, <1>2 DEF KilledDead
  <1> QED BY <1>3, <1>4 DEF Placed

\* It holds in every reachable state.
LEMMA AlwaysPlaced == Spec => []Placed
  <1>1. Init => Placed
    BY DEF Init, Placed, KilledDead, PlaceRight, AwaitsRequest, Waiting
  <1>2. IInv /\ Placed /\ [Next]_vars => Placed'
    <2>1. ASSUME Placed, UNCHANGED vars PROVE Placed'
      BY <2>1 DEF vars, Placed, KilledDead, PlaceRight, AwaitsRequest, Ended
    <2> QED BY <2>1, CallerPlaces, ServerPlaces, ThrowPlaces, AcceptPlaces, LifePlaces,
               ProcessPlaces DEF Next, ConnectionStep, ReadCrashes, KillNode
  <1> QED BY <1>1, <1>2, Invariance, PTL DEF Spec

\* The safety half of CallsEnd: with the fairness of a server's loop, which
\* TLC checks, a call that can go on does.
THEOREM NeverStuck == Spec => []Unblocked
  <1>1. IInv /\ Placed => Unblocked
    <2> SUFFICES ASSUME IInv, Placed, NEW k \in Call, stage[k] \in Waiting, ~CanGoOn(k),
                        ~Halted(Home[to[k]])
                 PROVE  \E j \in Call : Thread[j] = Home[to[k]] /\ stage[j] \in Waiting
      BY DEF Unblocked
    <2>1. TypeOK /\ RanRight(k) /\ StreamRight(k) /\ PlaceRight(k)
      BY DEF IInv, Placed, Right
    <2>2. stage[k] \in {"header", "response"} /\ op[k] \notin {"none", "gone"} /\ reply[k] = <<>>
      BY <2>1 DEF CanGoOn, Waiting, RanRight
    <2>3. to[k] \in Server /\ loop[Home[to[k]]] = "running"
      BY <2>1, <2>2 DEF TypeOK, PlaceRight, Halted
    <2>4. CASE op[k] \in {"backlog", "accept"}
      <3>1. ServerCanGoOn(k)
        BY <2>1, <2>3, <2>4 DEF TypeOK, PlaceRight, ServerCanGoOn
      <3> QED BY <2>3, <3>1 DEF CanGoOn, Free
    <2>5. CASE op[k] \in Reads
      <3>1. CASE ec[k] = "pending"
        <4>1. <<"hdrlen", "hdr">> # <<>> /\ <<"hdr">> # <<>> /\ <<"body">> # <<>>
          OBVIOUS
        <4>2. ASSUME op[k] \in {"hdrlen", "hdr", "req"} PROVE request[k] # <<>>
          BY <2>1, <3>1, <4>1, <4>2 DEF StreamRight, AtHeaderLength, AtHeader, AtRequest
        <4>3. ASSUME op[k] = "reqlen" PROVE request[k] # <<>>
          <5>1. /\ stage[k] = "response"
                /\ ran[k] = 0
            BY <2>1, <2>2, <3>1, <4>3 DEF RanRight, StreamRight, AtRequestLength, Greeted, Served
          <5> QED BY <2>1, <3>1, <4>3, <5>1 DEF PlaceRight, AwaitsRequest
        <4>4. request[k] # <<>>
          BY <2>5, <4>2, <4>3 DEF Reads
        <4> QED BY <2>3, <2>5, <4>4 DEF CanGoOn, ServerCanGoOn, Free
      <3>2. CASE ec[k] # "pending"
        BY <2>3, <2>5, <3>2 DEF CanGoOn, ServerCanGoOn, Free
      <3> QED BY <3>1, <3>2
    <2>6. CASE op[k] \in Writes
      BY <2>3, <2>6 DEF CanGoOn, ServerCanGoOn, Free
    <2> QED BY <2>1, <2>2, <2>4, <2>5, <2>6 DEF TypeOK
  <1> QED BY <1>1, AlwaysPlaced, Invariance, PTL

-----------------------------------------------------------------------------
(* Servers and callers implement Rpc.                                      *)

\* A server that has ended does not come back.
LEMMA EndedForGood ==
    ASSUME IInv, Next, NEW v \in Server, Ended(v)
    PROVE  Ended(v)'
  <1>1. TypeOK
    BY DEF IInv
  <1>2. CASE \E n \in Node : ProcessEnds(n)
    BY <1>1, <1>2 DEF TypeOK, Ended, ProcessEnds
  <1>3. CASE state' = state /\ loop' = loop
    BY <1>3 DEF Ended
  <1>4. CASE \E w \in Server : CreateServer(w) \/ DestroyServer(w)
    BY <1>1, <1>4 DEF TypeOK, Ended, CreateServer, DestroyServer
  <1>5. CASE \E n \in Node : /\ loop[n] = "running" /\ state' = state
                             /\ \E new \in {"stopped", "thrown", "undefined"} :
                                   loop' = [loop EXCEPT ![n] = new]
    BY <1>1, <1>5 DEF TypeOK, Ended
  <1>6. ASSUME NEW k \in Call, HandleCallThrows(k)
        PROVE  Ended(v)'
    BY <1>1, <1>6 DEF TypeOK, Ended, HandleCallThrows, Free
  <1>7. ASSUME NEW w \in Server, AcceptHandler(w)
        PROVE  Ended(v)'
    BY <1>1, <1>3, <1>5, <1>7 DEF AcceptHandler, Free
  <1>8. ASSUME NEW n \in Node, StopLoop(n)
        PROVE  Ended(v)'
    BY <1>5, <1>8 DEF StopLoop, Free
  <1>9. CASE \E k \in Call : \/ LookupService(k) \/ CallerStep(k) \/ CallerKilled(k)
                             \/ AcceptReady(k) \/ ConnectionStep(k)
    BY <1>3, <1>9 DEF LookupService, CallerStep, Connect, ReadHeader, ReadResponse, ReadNothing,
       CallerKilled, AcceptReady, ConnectionStep, ReadReady, WriteReady, HandleReadHeaderLength,
       HandleReadHeader, HandleWriteHeader, HandleReadRequestLen, HandleReadRequest, HandleWrite,
       HandleCall, Handles
  <1>10. CASE \E w \in Server : AcceptFails(w)
    BY <1>3, <1>10 DEF AcceptFails
  <1> QED BY <1>2, <1>4, <1>6, <1>7, <1>8, <1>9, <1>10 DEF Next, ReadCrashes, KillNode

\* A call that was made stays with the server it was told to go to.
LEMMA UnservedGrows ==
    ASSUME IInv, Next
    PROVE  Unserved \subseteq Unserved'
  <1> SUFFICES ASSUME NEW k \in Unserved PROVE k \in Unserved'
    OBVIOUS
  <1>1. TypeOK /\ k \in Call /\ stage[k] # "idle"
    BY DEF IInv, Unserved
  <1>2. PICK v \in Server : to[k] = v /\ Ended(v)
    BY <1>1 DEF TypeOK, Unserved
  <1>3. Ended(v)'
    BY <1>2, EndedForGood
  <1>4. ASSUME NEW j \in Call, LookupService(j) \/ CallerStep(j) \/ CallerKilled(j)
        PROVE  to'[k] = to[k] /\ stage'[k] # "idle"
    BY <1>1, <1>4 DEF TypeOK, LookupService, CallerStep, Connect, ReadHeader, ReadResponse,
       ReadNothing, CallerKilled
  <1>5. ASSUME NEW n \in Node, ProcessEnds(n)
        PROVE  to'[k] = to[k] /\ stage'[k] # "idle"
    BY <1>1, <1>5 DEF ProcessEnds
  <1>6. ASSUME NEW j \in Call, AcceptReady(j) \/ ConnectionStep(j) \/ HandleCallThrows(j)
        PROVE  to' = to /\ stage' = stage
    BY <1>6 DEF AcceptReady, ConnectionStep, ReadReady, WriteReady, HandleReadHeaderLength,
       HandleReadHeader, HandleWriteHeader, HandleReadRequestLen, HandleReadRequest, HandleWrite,
       HandleCall, Handles, HandleCallThrows
  <1>7. ASSUME NEW w \in Server,
               AcceptFails(w) \/ AcceptHandler(w) \/ CreateServer(w) \/ DestroyServer(w)
        PROVE  to' = to /\ stage' = stage
    BY <1>7 DEF AcceptFails, AcceptHandler, CreateServer, DestroyServer
  <1>8. ASSUME NEW n \in Node, StopLoop(n)
        PROVE  to' = to /\ stage' = stage
    BY <1>8 DEF StopLoop
  <1>9. to'[k] = to[k] /\ stage'[k] # "idle"
    BY <1>1, <1>4, <1>5, <1>6, <1>7, <1>8, ServiceAssumption DEF Next, ReadCrashes, KillNode
  <1>10. to'[k] = v /\ v # NoOne
    BY <1>2, <1>9
  <1> QED BY <1>1, <1>3, <1>9, <1>10 DEF Unserved, Ended

\* What Rpc's calls come to, servers that end apart.
CallsNext ==
    \/ \E k \in Call : R!Make(k) \/ R!Run(k) \/ R!Answer(k) \/ R!Mislead(k)
    \/ \E S \in SUBSET Call : R!Fail(S)
    \/ Status' = Status /\ ran' = ran

\* A step of a caller makes its call, ends it or is not seen.
LEMMA CallerRefines ==
    ASSUME IInv, Placed, NEW k \in Call,
           LookupService(k) \/ CallerStep(k) \/ CallerKilled(k)
    PROVE  CallsNext
  <1>1. TypeOK /\ RanRight(k) /\ PlaceRight(k)
    BY DEF IInv, Right, Placed
  <1>2. /\ ran' = ran /\ \A j \in Call \ {k} : stage'[j] = stage[j]
        /\ \/ stage[k] = "idle" /\ stage'[k] \in {"threw", "connect"}
           \/ stage[k] = "connect" /\ stage'[k] \in {"header", "threw", "killed"}
           \/ stage[k] = "header" /\ stage'[k] \in {"response", "threw", "killed"}
           \/ stage[k] = "response" /\ stage'[k] \in {"threw", "killed"}
           \/ stage[k] = "response" /\ stage'[k] = "answered" /\ ran[k] = 1
           \/ /\ stage[k] \in {"header", "response"} /\ stage'[k] = "misled"
              /\ op[k] = "gone"
    BY <1>1 DEF TypeOK, RanRight, LookupService, CallerStep, Connect, ReadHeader, ReadResponse,
                ReadNothing, Severed, CallerKilled, Waiting
  <1>3. \A j \in Call \ {k} : Status'[j] = Status[j]
    BY <1>2 DEF Status
  <1>4. CASE Status'[k] = Status[k]
    <2>1. Status' = Status
      BY <1>3, <1>4 DEF Status
    <2> QED BY <1>2, <2>1 DEF CallsNext
  <1>5. CASE Status'[k] = "called" /\ Status[k] = "idle"
    <2>1. Status' = [Status EXCEPT ![k] = "called"]
      BY <1>3, <1>5 DEF Status
    <2> QED BY <1>2, <1>5, <2>1 DEF CallsNext, R!Make, R!Turns
  <1>6. CASE Status'[k] = "failed" /\ Status[k] \in {"idle", "called"}
    <2>1. Status' = [j \in Call |-> IF j \in {k} THEN "failed" ELSE Status[j]]
      BY <1>3, <1>6 DEF Status
    <2>2. R!Fail({k})
      BY <1>2, <1>6, <2>1 DEF R!Fail
    <2> QED BY <2>2 DEF CallsNext
  <1>7. CASE Status'[k] = "answered" /\ Status[k] = "called" /\ ran[k] = 1
    <2>1. Status' = [Status EXCEPT ![k] = "answered"]
      BY <1>3, <1>7 DEF Status
    <2> QED BY <1>2, <1>7, <2>1 DEF CallsNext, R!Answer, R!Turns
  <1>8. CASE Status'[k] = "misled" /\ Status[k] = "called" /\ k \in Unserved
    <2>1. Status' = [Status EXCEPT ![k] = "misled"]
      BY <1>3, <1>8 DEF Status
    <2> QED BY <1>2, <1>8, <2>1 DEF CallsNext, R!Mislead, R!Turns
  <1>9. \/ Status'[k] = Status[k]
        \/ Status'[k] = "called" /\ Status[k] = "idle"
        \/ Status'[k] = "failed" /\ Status[k] \in {"idle", "called"}
        \/ Status'[k] = "answered" /\ Status[k] = "called" /\ ran[k] = 1
        \/ Status'[k] = "misled" /\ Status[k] = "called" /\ k \in Unserved
    BY <1>1, <1>2 DEF Status, Waiting, PlaceRight, Unserved
  <1> QED BY <1>4, <1>5, <1>6, <1>7, <1>8, <1>9

\* The callback runs for a call that was made and has no answer.
LEMMA HandlerRefines ==
    ASSUME IInv, NEW k \in Call,
           HandleReadRequestLen(k) \/ HandleReadRequest(k) \/ HandleCallThrows(k)
    PROVE  CallsNext
  <1>1. TypeOK /\ Right(k)
    BY DEF IInv
  <1>2. Status' = Status
    BY DEF Status, HandleReadRequestLen, HandleReadRequest, HandleCall, Handles, HandleCallThrows
  <1>3. CASE ran' = ran
    BY <1>2, <1>3 DEF CallsNext
  <1>4. CASE ran' # ran
    <2>1. \/ got[k] = "zero" /\ HandleCall(k, "reqlen")
          \/ HandleCall(k, "req")
          \/ HandleCallThrows(k)
      BY <1>4 DEF HandleReadRequestLen, HandleReadRequest
    <2>2. /\ ran'[k] # ran[k] => /\ ran[k] = 0 /\ ran'[k] = 1
                                 /\ stage[k] \in {"response", "threw", "killed"}
      BY <1>1, <2>1, HandleCallRight, ThrowsRight
    <2>3. ran' = [ran EXCEPT ![k] = ran'[k]] /\ ran'[k] # ran[k]
      BY <1>1, <1>4, <2>1 DEF TypeOK, HandleCall, HandleCallThrows
    <2>4. Status[k] \in {"called", "failed"}
      BY <2>2, <2>3 DEF Status, Waiting
    <2>5. R!Run(k)
      BY <1>2, <2>2, <2>3, <2>4 DEF R!Run
    <2> QED BY <2>5 DEF CallsNext
  <1> QED BY <1>3, <1>4

\* The callers of a process that ends all fail.
LEMMA ProcessRefines ==
    ASSUME IInv, NEW n \in Node, ProcessEnds(n)
    PROVE  CallsNext
  <1> DEFINE S == {k \in Call : Thread[k] = n /\ stage[k] \notin Over}
  <1>1. TypeOK
    BY DEF IInv
  <1>2. \A k \in S : Status[k] \in {"idle", "called"}
    BY <1>1 DEF TypeOK, Status, Waiting, Over
  <1>3. Status' = [k \in Call |-> IF k \in S THEN "failed" ELSE Status[k]]
    <2>1. ASSUME NEW k \in Call
          PROVE  Status'[k] = IF k \in S THEN "failed" ELSE Status[k]
      <3>1. stage'[k] = IF k \in S THEN "killed" ELSE stage[k]
        BY DEF ProcessEnds
      <3> QED BY <3>1 DEF Status, Waiting
    <2> QED BY <2>1 DEF Status
  <1>4. R!Fail(S)
    BY <1>2, <1>3 DEF R!Fail, ProcessEnds
  <1> QED BY <1>4 DEF CallsNext

\* The service implements the abstract remote procedure calls: at most one run,
\* answers only of calls that have run, and calls that return without an answer
\* only when their server has ended.
THEOREM Implementation == Spec => RpcSpec
  <1>1. Init => R!Init
    BY DEF Init, R!Init, Status, Unserved, Waiting
  <1>2. IInv /\ Placed /\ [Next]_vars => [R!Next]_(R!rpcVars)
    <2>1. ASSUME UNCHANGED vars PROVE UNCHANGED R!rpcVars
      BY <2>1 DEF vars, R!rpcVars, Status, Unserved, Ended
    <2>2. ASSUME IInv, Placed, Next PROVE CallsNext
      <3>1. CASE stage' = stage /\ ran' = ran
        BY <3>1 DEF CallsNext, Status
      <3>2. ASSUME NEW k \in Call, LookupService(k) \/ CallerStep(k) \/ CallerKilled(k)
            PROVE  CallsNext
        BY <2>2, <3>2, CallerRefines
      <3>3. ASSUME NEW k \in Call,
                   HandleReadRequestLen(k) \/ HandleReadRequest(k) \/ HandleCallThrows(k)
            PROVE  CallsNext
        BY <2>2, <3>3, HandlerRefines
      <3>4. ASSUME NEW n \in Node, ProcessEnds(n) PROVE CallsNext
        BY <2>2, <3>4, ProcessRefines
      <3> QED BY <2>2, <3>1, <3>2, <3>3, <3>4
              DEF Next, ReadCrashes, KillNode, AcceptReady, ConnectionStep, ReadReady, WriteReady,
                  AcceptFails, AcceptHandler, HandleReadHeaderLength, HandleReadHeader,
                  HandleWriteHeader, HandleWrite, Handles, CreateServer, DestroyServer, StopLoop
    <2>3. ASSUME IInv, Placed, Next PROVE R!Next
      <3>1. Unserved \subseteq Unserved' /\ CallsNext
        BY <2>2, <2>3, UnservedGrows
      <3> QED BY <3>1 DEF CallsNext, R!Next
    <2> QED BY <2>1, <2>3
  <1> QED BY Invariance, AlwaysPlaced, <1>1, <1>2, PTL DEF Spec, RpcSpec, R!Spec
=============================================================================
