-------------------------- MODULE HttpExchangeProofs --------------------------
(***************************************************************************)
(* What a public HTTP request and its response look like at the other end  *)
(* of the tunnel, for every set of requests and wherever the session ends. *)
(***************************************************************************)
EXTENDS HttpExchange, SequenceTheorems, TLAPS

-----------------------------------------------------------------------------
(* The queues of frames.                                                   *)

(* A written frame comes last.                                             *)
LEMMA FrameWritten ==
    ASSUME NEW queue \in Seq(Frame), NEW f \in Frame
    PROVE  /\ Append(queue, f) \in Seq(Frame)
           /\ Len(Append(queue, f)) = Len(queue) + 1
           /\ \A i \in 1..Len(queue) : Append(queue, f)[i] = queue[i]
           /\ Append(queue, f)[Len(queue) + 1] = f
OBVIOUS

(* What a reader takes is the first frame; the others move up.             *)
LEMMA FrameTaken ==
    ASSUME NEW queue \in Seq(Frame), queue # <<>>
    PROVE  /\ Len(queue) \in Nat \ {0}
           /\ Head(queue) \in Frame /\ Head(queue) = queue[1]
           /\ Tail(queue) \in Seq(Frame)
           /\ Len(Tail(queue)) = Len(queue) - 1
           /\ \A i \in 1..Len(queue) - 1 : Tail(queue)[i] = queue[i + 1]
BY EmptySeq, HeadTailProperties

(* Nothing is left after a frame that was alone.                           *)
LEMMA FrameTakenAlone ==
    ASSUME NEW queue \in Seq(Frame), Len(queue) = 1
    PROVE  Tail(queue) = <<>>
<1>1. queue # <<>> BY EmptySeq
<1>2. Tail(queue) \in Seq(Frame) /\ Len(Tail(queue)) = 0
  BY <1>1, FrameTaken
<1> QED BY <1>2, EmptySeq

(* What the end of a session leaves of a queue has the frames of the queue *)
(* up to some point; the last may have lost its end, not its length field. *)
LEMMA QueueTruncated ==
    ASSUME NEW queue \in Seq(Frame), NEW left \in Remains(queue)
    PROVE  /\ left \in Seq(Frame)
           /\ Len(left) <= Len(queue)
           /\ queue = <<>> => left = <<>>
           /\ \A i \in 1..Len(left) : left[i].size = queue[i].size
<1>1. ASSUME NEW p \in Prefixes(queue)
      PROVE  /\ p \in Seq(Frame) /\ Len(p) \in Nat /\ Len(p) <= Len(queue)
             /\ \A i \in 1..Len(p) : p[i] = queue[i]
  <2>1. PICK l \in 0..Len(queue) : p = SubSeq(queue, 1, l)
    BY <1>1 DEF Prefixes
  <2>2. \A i \in 1..l : queue[i] \in Frame
    BY ElementOfSeq
  <2>3. /\ p \in Seq(Frame) /\ Len(p) = l
        /\ \A i \in 1..l : p[i] = queue[i]
    BY <2>1, <2>2
  <2> QED BY <2>3
<1>2. CASE left \in Prefixes(queue)
  BY <1>1, <1>2
<1>3. CASE \E p \in Prefixes(queue) \ {<<>>} :
              left = Append(Front(p), Cut(Last(p)))
  <2>1. PICK p \in Prefixes(queue) \ {<<>>} :
               left = Append(Front(p), Cut(Last(p)))
    BY <1>3
  <2>2. /\ p \in Seq(Frame) /\ Len(p) \in Nat \ {0} /\ Len(p) <= Len(queue)
        /\ \A i \in 1..Len(p) : p[i] = queue[i]
    BY <1>1, <2>1, EmptySeq
  <2>3. Last(p) \in Frame /\ Last(p) = queue[Len(p)]
    BY <2>2, ElementOfSeq DEF Last
  <2>4. Cut(Last(p)) \in Frame /\ Cut(Last(p)).size = queue[Len(p)].size
    BY <2>3 DEF Cut, Frame
  <2>5. \A i \in 1..Len(p) - 1 : p[i] \in Frame
    BY <2>2, ElementOfSeq
  <2>6. /\ Front(p) \in Seq(Frame) /\ Len(Front(p)) = Len(p) - 1
        /\ \A i \in 1..Len(p) - 1 : Front(p)[i] = queue[i]
    <3>1. Front(p) = SubSeq(p, 1, Len(p) - 1) BY DEF Front
    <3>2. PICK n \in Nat : n = Len(p) - 1 BY <2>2
    <3>3. \A i \in 1..n : p[i] \in Frame BY <2>5, <3>2
    <3>4. /\ SubSeq(p, 1, n) \in Seq(Frame) /\ Len(SubSeq(p, 1, n)) = n
          /\ \A i \in 1..n : SubSeq(p, 1, n)[i] = p[i]
      BY <3>3
    <3> QED BY <2>2, <3>1, <3>2, <3>4
  <2>7. /\ left \in Seq(Frame) /\ Len(left) = Len(p)
        /\ \A i \in 1..Len(p) - 1 : left[i] = queue[i]
        /\ left[Len(p)] = Cut(Last(p))
    BY <2>1, <2>2, <2>4, <2>6, FrameWritten
  <2> QED BY <2>2, <2>4, <2>7
<1>4. /\ left \in Seq(Frame) /\ Len(left) <= Len(queue)
      /\ \A i \in 1..Len(left) : left[i].size = queue[i].size
  BY <1>2, <1>3 DEF Remains
<1> QED BY <1>4, EmptySeq

-----------------------------------------------------------------------------
(* The inductive invariant.                                                *)

(* A header and then a body of size z, or the beginning of that.           *)
CarriesBoth(queue, z) ==
    /\ Len(queue) <= 2
    /\ Len(queue) >= 1 => queue[1].size = "some"
    /\ Len(queue) = 2 => queue[2].size = z

(* A body of size z, or nothing.                                           *)
CarriesBody(queue, z) ==
    /\ Len(queue) <= 1
    /\ Len(queue) = 1 => queue[1].size = z

(* A frame written to an empty queue is its first, and may be all of it.   *)
LEMMA FirstFrame ==
    ASSUME NEW f \in Frame, NEW z
    PROVE  /\ Len(Append(<<>>, f)) = 1
           /\ f.size = z => CarriesBody(Append(<<>>, f), z)
           /\ f.size = "some" => CarriesBoth(Append(<<>>, f), z)
<1>1. <<>> \in Seq(Frame) /\ Len(<<>>) = 0 BY EmptySeq
<1>2. Len(Append(<<>>, f)) = 1 /\ Append(<<>>, f)[1] = f
  BY <1>1, FrameWritten
<1> QED BY <1>2 DEF CarriesBoth, CarriesBody

(* A frame written after the header is the body.                           *)
LEMMA SecondFrame ==
    ASSUME NEW f \in Frame, NEW queue \in Seq(Frame), Len(queue) = 1,
           CarriesBoth(queue, f.size)
    PROVE  CarriesBoth(Append(queue, f), f.size)
<1>1. queue[1].size = "some" BY DEF CarriesBoth
<1>2. /\ Len(Append(queue, f)) = 2
      /\ Append(queue, f)[1] = queue[1] /\ Append(queue, f)[2] = f
  <2>1. /\ Len(Append(queue, f)) = Len(queue) + 1
        /\ \A i \in 1..Len(queue) : Append(queue, f)[i] = queue[i]
        /\ Append(queue, f)[Len(queue) + 1] = f
    BY FrameWritten
  <2>2. Len(queue) + 1 = 2 /\ 1 \in 1..Len(queue) OBVIOUS
  <2> QED BY <2>1, <2>2
<1> QED BY <1>1, <1>2 DEF CarriesBoth

(* On the way to the CLI: what the CLI has still to read is what the       *)
(* server has written of this request, in its order.                       *)
RequestOK(working, atServer, atClient, queue, z, given) ==
    /\ atClient \in {"none", "header"} => CarriesBoth(queue, z)
    /\ atClient = "body" => CarriesBody(queue, z)
    /\ atServer \in {"new", "opening", "encoding", "header"} =>
          queue = <<>> /\ atClient # "body"
    /\ working /\ atServer = "body" =>
          /\ atClient \in {"none", "header"} => Len(queue) = 1
          /\ atClient = "body" => queue = <<>>
    /\ given \in {"none", z}

(* The body of the response to an answer of the local service.             *)
BodyOf(reply) == IF reply = "error" THEN "some" ELSE reply

(* On the way back: what the server has still to read is what the CLI made *)
(* of the local service's answer, and only once there is one.              *)
ReplyOK(working, atServer, atClient, queue, reply, ans) ==
    /\ atClient \in {"none", "header", "body", "forwarding", "replying"} =>
          /\ queue = <<>> /\ atServer # "awaiting body"
          /\ ans \in Error \cup {"none"}
    /\ atClient \in {"replying", "replying body", "pushing"} => reply # "none"
    /\ queue # <<>> \/ atServer = "awaiting body" => reply # "none"
    /\ atServer \notin {"awaiting body", "closing", "done"} =>
          CarriesBoth(queue, BodyOf(reply))
    /\ atServer = "awaiting body" => CarriesBody(queue, BodyOf(reply))
    /\ working /\ atClient = "replying body" =>
          /\ atServer \notin {"awaiting body", "closing", "done"} =>
                Len(queue) = 1
          /\ atServer = "awaiting body" => queue = <<>>
    /\ ans \notin Error \cup {"none"} =>
          reply # "none" /\ ans = BodyOf(reply) /\ ans # "huge"

RequestInv ==
    \A q \in Request : RequestOK(session, server[q], client[q], toClient[q],
                                 sent[q], seen[q])

ReplyInv ==
    \A q \in Request : ReplyOK(session, server[q], client[q], toServer[q],
                               served[q], answer[q])

ExchangeInv == TypeOK /\ RequestInv /\ ReplyInv

(* A step of one request leaves the others alone.                          *)
LEMMA OneRequestMoves ==
    ASSUME RequestInv, ReplyInv, NEW q \in Request, session' = session,
           \A p \in Request \ {q} :
              /\ server'[p] = server[p] /\ client'[p] = client[p]
              /\ toClient'[p] = toClient[p] /\ toServer'[p] = toServer[p]
              /\ sent'[p] = sent[p] /\ seen'[p] = seen[p]
              /\ served'[p] = served[p] /\ answer'[p] = answer[p],
           RequestOK(session, server'[q], client'[q], toClient'[q], sent'[q],
                     seen'[q]),
           ReplyOK(session, server'[q], client'[q], toServer'[q], served'[q],
                   answer'[q])
    PROVE  RequestInv' /\ ReplyInv'
<1>1. \A p \in Request :
         /\ RequestOK(session', server'[p], client'[p], toClient'[p], sent'[p],
                      seen'[p])
         /\ ReplyOK(session', server'[p], client'[p], toServer'[p], served'[p],
                    answer'[p])
  <2> TAKE p \in Request
  <2>1. CASE p = q BY <2>1
  <2>2. CASE p # q BY <2>2 DEF RequestInv, ReplyInv
  <2> QED BY <2>1, <2>2
<1> QED BY <1>1 DEF RequestInv, ReplyInv

(* What a session leaves behind.                                           *)
LEMMA SessionEndsKeeps ==
    ASSUME ExchangeInv, SessionEnds PROVE ExchangeInv'
<1>1. \A q \in Request : toClient[q] \in Seq(Frame) /\ toServer[q] \in Seq(Frame)
  BY DEF ExchangeInv, TypeOK
<1>2. ASSUME NEW queues \in [Request -> Seq(Frame)],
             NEW left \in Truncated(queues), NEW q \in Request
      PROVE  /\ left[q] \in Seq(Frame) /\ Len(left[q]) <= Len(queues[q])
             /\ Len(left[q]) \in Nat /\ Len(queues[q]) \in Nat
             /\ queues[q] = <<>> => left[q] = <<>>
             /\ \A i \in 1..Len(left[q]) : left[q][i].size = queues[q][i].size
  <2>1. left[q] \in Remains(queues[q]) /\ queues[q] \in Seq(Frame)
    BY <1>2 DEF Truncated
  <2> QED BY <2>1, QueueTruncated
<1>3. /\ UNCHANGED <<routed, server, client, sent, seen, served, answer>>
      /\ session' = FALSE
      /\ toClient' \in Truncated(toClient) /\ toServer' \in Truncated(toServer)
  BY DEF SessionEnds
<1>4. /\ toClient \in [Request -> Seq(Frame)]
      /\ toServer \in [Request -> Seq(Frame)]
  BY DEF ExchangeInv, TypeOK
<1>5. TypeOK'
  <2>1. \A queues \in [Request -> Seq(Frame)] : \A left \in Truncated(queues) :
           left \in [Request -> Seq(Frame)]
    <3> TAKE queues \in [Request -> Seq(Frame)]
    <3> TAKE left \in Truncated(queues)
    <3>1. \A q \in Request : left[q] \in Seq(Frame) BY <1>2
    <3>2. DOMAIN left = Request /\ left = [q \in Request |-> left[q]]
      BY DEF Truncated
    <3> QED BY <3>1, <3>2
  <2> QED BY <1>3, <1>4, <2>1 DEF ExchangeInv, TypeOK
<1>6. ASSUME NEW q \in Request
      PROVE  /\ RequestOK(FALSE, server[q], client[q], toClient'[q], sent[q],
                          seen[q])
             /\ ReplyOK(FALSE, server[q], client[q], toServer'[q], served[q],
                        answer[q])
  <2>1. /\ Len(toClient'[q]) \in Nat /\ Len(toClient[q]) \in Nat
        /\ Len(toClient'[q]) <= Len(toClient[q])
        /\ toClient[q] = <<>> => toClient'[q] = <<>>
        /\ \A i \in 1..Len(toClient'[q]) :
              toClient'[q][i].size = toClient[q][i].size
    BY <1>2, <1>3, <1>4
  <2>2. /\ Len(toServer'[q]) \in Nat /\ Len(toServer[q]) \in Nat
        /\ Len(toServer'[q]) <= Len(toServer[q])
        /\ toServer[q] = <<>> => toServer'[q] = <<>>
        /\ \A i \in 1..Len(toServer'[q]) :
              toServer'[q][i].size = toServer[q][i].size
    BY <1>2, <1>3, <1>4
  <2>3. /\ RequestOK(session, server[q], client[q], toClient[q], sent[q],
                     seen[q])
        /\ ReplyOK(session, server[q], client[q], toServer[q], served[q],
                   answer[q])
    BY DEF ExchangeInv, RequestInv, ReplyInv
  <2>4. RequestOK(FALSE, server[q], client[q], toClient'[q], sent[q], seen[q])
    BY <2>1, <2>3 DEF RequestOK, CarriesBoth, CarriesBody
  <2>5. \A z : /\ CarriesBoth(toServer[q], z) => CarriesBoth(toServer'[q], z)
               /\ CarriesBody(toServer[q], z) => CarriesBody(toServer'[q], z)
    BY <2>2 DEF CarriesBoth, CarriesBody
  <2>6. ReplyOK(FALSE, server[q], client[q], toServer'[q], served[q], answer[q])
    BY <2>2, <2>3, <2>5 DEF ReplyOK
  <2> QED BY <2>4, <2>6
<1> QED BY <1>3, <1>5, <1>6 DEF ExchangeInv, RequestInv, ReplyInv

-----------------------------------------------------------------------------
(* HTTPProxy.Handler.                                                      *)

(* Each step of the server keeps the types, and keeps RequestOK and        *)
(* ReplyOK of its request.                                                 *)
LEMMA ServerKeeps ==
    ASSUME ExchangeInv, NEW q \in Request,
           Route(q) \/ EncodeRequest(q) \/ ServerStep(q)
    PROVE  ExchangeInv'
<1> USE DEF Serves, Answers, clientSide, serverSide
<1>1. /\ TypeOK
      /\ toClient[q] \in Seq(Frame) /\ toServer[q] \in Seq(Frame)
      /\ Len(toClient[q]) \in Nat /\ Len(toServer[q]) \in Nat
      /\ sent[q] \in Size
      /\ RequestOK(session, server[q], client[q], toClient[q], sent[q], seen[q])
      /\ ReplyOK(session, server[q], client[q], toServer[q], served[q],
                 answer[q])
  <2>1. TypeOK /\ RequestInv /\ ReplyInv BY DEF ExchangeInv
  <2>2. /\ toClient[q] \in Seq(Frame) /\ toServer[q] \in Seq(Frame)
        /\ sent[q] \in Size
    BY <2>1 DEF TypeOK
  <2>3. Len(toClient[q]) \in Nat /\ Len(toServer[q]) \in Nat
    BY <2>2, LenProperties
  <2> QED BY <2>1, <2>2, <2>3 DEF RequestInv, ReplyInv
<1>2. Header \in Frame /\ Header.size = "some"
      /\ Whole(sent[q]) \in Frame /\ Whole(sent[q]).size = sent[q]
  BY <1>1, SizeAssumption DEF Header, Whole, Frame
<1>3. ASSUME session' = session,
             \A p \in Request \ {q} :
                /\ server'[p] = server[p] /\ client'[p] = client[p]
                /\ toClient'[p] = toClient[p] /\ toServer'[p] = toServer[p]
                /\ sent'[p] = sent[p] /\ seen'[p] = seen[p]
                /\ served'[p] = served[p] /\ answer'[p] = answer[p],
             TypeOK',
             RequestOK(session, server'[q], client'[q], toClient'[q], sent'[q],
                       seen'[q]),
             ReplyOK(session, server'[q], client'[q], toServer'[q], served'[q],
                     answer'[q])
      PROVE  ExchangeInv'
  BY <1>3, OneRequestMoves DEF ExchangeInv
(* A step that only moves on, and one that answers with an error.          *)
<1>4. ASSUME UNCHANGED <<routed, session, client, toClient, toServer, sent,
                         seen, served, answer>>,
             NEW from, NEW to \in {"opening", "encoding", "header", "done"},
             Serves(q, from, to),
             \/ (to = "done" /\ from = "closing")
             \/ (to # "done" /\ from \in {"new", "opening", "encoding"})
      PROVE  ExchangeInv'
  <2>1. TypeOK' BY <1>1, <1>4 DEF TypeOK
  <2>2. /\ server[q] = from /\ server'[q] = to
        /\ \A p \in Request \ {q} : server'[p] = server[p]
    BY <1>1, <1>4 DEF TypeOK
  <2>3. RequestOK(session, to, client[q], toClient[q], sent[q], seen[q])
    BY <1>1, <1>4, <2>2 DEF RequestOK
  <2>4. ReplyOK(session, to, client[q], toServer[q], served[q], answer[q])
    BY <1>1, <1>4, <2>2 DEF ReplyOK
  <2> QED BY <1>3, <1>4, <2>1, <2>2, <2>3, <2>4
<1>5. ASSUME UNCHANGED <<routed, session, client, toClient, toServer, sent,
                         seen, served>>,
             NEW from, NEW what \in Error, Answers(q, from, what)
      PROVE  ExchangeInv'
  <2>1. TypeOK' BY <1>1, <1>5 DEF TypeOK
  <2>2. /\ server'[q] = "closing" /\ answer'[q] = what
        /\ \A p \in Request \ {q} : server'[p] = server[p]
        /\ \A p \in Request \ {q} : answer'[p] = answer[p]
    BY <1>1, <1>5 DEF TypeOK
  <2>3. RequestOK(session, "closing", client[q], toClient[q], sent[q], seen[q])
    BY <1>1 DEF RequestOK
  <2>4. ReplyOK(session, "closing", client[q], toServer[q], served[q], what)
    BY <1>1, <1>5 DEF ReplyOK
  <2> QED BY <1>3, <1>5, <2>1, <2>2, <2>3, <2>4
<1>6. /\ "forbidden" \in Error /\ "not found" \in Error
      /\ "bad request" \in Error /\ "relay error" \in Error
  BY DEF Error
<1> HIDE DEF Serves, Answers
<1>7. CASE Route(q) \/ OpenStream(q) \/ EncodeRequest(q)
  BY <1>4, <1>5, <1>6, <1>7 DEF Route, OpenStream, EncodeRequest
<1>8. CASE PushFails(q) \/ CloseStream(q)
  <2>1. CASE PushFails(q) BY <1>5, <1>6, <2>1 DEF PushFails
  <2>2. CASE CloseStream(q)
    <3>1. /\ Serves(q, "closing", "done")
          /\ UNCHANGED <<routed, session, client, toClient, toServer, sent,
                         seen, served, answer>>
      BY <2>2 DEF CloseStream
    <3> QED BY <1>4, <3>1
  <2> QED BY <1>8, <2>1, <2>2
(* A frame goes out while the session works.                               *)
<1>9. ASSUME UNCHANGED <<routed, session, client, toServer, sent, seen, served,
                         answer>>,
             session,
             NEW f \in Frame,
             toClient' = [toClient EXCEPT ![q] = Append(@, f)],
             NEW from, NEW to, Serves(q, from, to),
             \/ /\ from = "header" /\ to \in {"body", "awaiting"}
                /\ f.size = "some"
             \/ /\ from = "body" /\ to \in {"pushing", "awaiting"}
                /\ f.size = sent[q]
      PROVE  ExchangeInv'
  <2>1. /\ toClient'[q] \in Seq(Frame)
        /\ Len(toClient'[q]) = Len(toClient[q]) + 1
        /\ \A i \in 1..Len(toClient[q]) : toClient'[q][i] = toClient[q][i]
        /\ toClient'[q][Len(toClient[q]) + 1] = f
        /\ \A p \in Request \ {q} : toClient'[p] = toClient[p]
    <3>1. /\ toClient'[q] = Append(toClient[q], f)
          /\ \A p \in Request \ {q} : toClient'[p] = toClient[p]
      BY <1>1, <1>9 DEF TypeOK
    <3> QED BY <1>1, <1>9, <3>1, FrameWritten
  <2>2. /\ server[q] = from /\ server'[q] = to
        /\ \A p \in Request \ {q} : server'[p] = server[p]
    BY <1>1, <1>9 DEF TypeOK, Serves
  <2>3. TypeOK'
    <3>1. server' \in [Request ->
            {"new", "opening", "encoding", "header", "body", "pushing",
             "awaiting", "awaiting body", "closing", "done"}]
      BY <1>1, <1>9 DEF TypeOK, Serves
    <3>2. toClient' \in [Request -> Seq(Frame)]
      BY <1>1, <1>9, <2>1 DEF TypeOK
    <3> QED BY <1>1, <1>9, <3>1, <3>2 DEF TypeOK
  <2>4. RequestOK(session, to, client[q], toClient'[q], sent[q], seen[q])
    <3>1. CASE from = "header"
      <4>1. toClient[q] = <<>> /\ client[q] # "body"
        BY <1>1, <2>2, <3>1 DEF RequestOK
      <4>2. Len(toClient'[q]) = 1 /\ toClient'[q][1].size = "some"
        BY <1>9, <2>1, <3>1, <4>1
      <4> QED BY <1>1, <1>9, <2>2, <3>1, <4>1, <4>2 DEF RequestOK, CarriesBoth
    <3>2. CASE from = "body"
      <4>1. CASE client[q] \in {"none", "header"}
        <5>1. Len(toClient[q]) = 1 /\ toClient[q][1].size = "some"
          BY <1>1, <1>9, <2>2, <3>2, <4>1 DEF RequestOK, CarriesBoth
        <5>2. /\ Len(toClient'[q]) = 2 /\ toClient'[q][1].size = "some"
              /\ toClient'[q][2].size = sent[q]
          BY <1>9, <2>1, <3>2, <5>1
        <5> QED BY <1>1, <1>9, <2>2, <3>2, <4>1, <5>2 DEF RequestOK, CarriesBoth
      <4>2. CASE client[q] = "body"
        <5>1. toClient[q] = <<>>
          BY <1>1, <1>9, <2>2, <3>2, <4>2 DEF RequestOK
        <5>2. Len(toClient'[q]) = 1 /\ toClient'[q][1].size = sent[q]
          BY <1>9, <2>1, <3>2, <5>1
        <5> QED BY <1>1, <1>9, <2>2, <3>2, <4>2, <5>2 DEF RequestOK, CarriesBody
      <4>3. CASE client[q] \notin {"none", "header", "body"}
        BY <1>1, <1>9, <2>2, <3>2, <4>3 DEF RequestOK
      <4> QED BY <4>1, <4>2, <4>3
    <3> QED BY <1>9, <3>1, <3>2
  <2>5. ReplyOK(session, to, client[q], toServer[q], served[q], answer[q])
    BY <1>1, <1>9, <2>2 DEF ReplyOK
  <2> QED BY <1>3, <1>9, <2>1, <2>2, <2>3, <2>4, <2>5
<1>10. CASE WriteHeader(q)
  <2>1. CASE session
    <3>1. PICK to \in {"body", "awaiting"} : Serves(q, "header", to)
      BY <1>10, <2>1 DEF WriteHeader, AfterHeader
    <3>2. /\ UNCHANGED <<routed, session, client, toServer, sent, seen, served,
                         answer>>
          /\ toClient' = [toClient EXCEPT ![q] = Append(@, Header)]
      BY <1>10, <2>1 DEF WriteHeader
    <3> QED BY <1>2, <1>9, <2>1, <3>1, <3>2
  <2>2. CASE ~ session
    BY <1>5, <1>6, <1>10, <2>2 DEF WriteHeader
  <2> QED BY <2>1, <2>2
<1>11. CASE WriteBody(q)
  <2>1. CASE session
    <3>1. PICK to \in {"pushing", "awaiting"} : Serves(q, "body", to)
      BY <1>11, <2>1 DEF WriteBody
    <3>2. /\ UNCHANGED <<routed, session, client, toServer, sent, seen, served,
                         answer>>
          /\ toClient' = [toClient EXCEPT ![q] = Append(@, Whole(sent[q]))]
      BY <1>11, <2>1 DEF WriteBody
    <3> QED BY <1>2, <1>9, <2>1, <3>1, <3>2
  <2>2. CASE ~ session
    BY <1>5, <1>6, <1>11, <2>2 DEF WriteBody
  <2> QED BY <2>1, <2>2
(* A frame comes in: its reader is the first to read it.                   *)
<1>12. ASSUME Arrived(toServer[q])
       PROVE  /\ Head(toServer[q]) = toServer[q][1]
              /\ Content(Head(toServer[q])) = toServer[q][1].size
              /\ toServer[q][1].size # "huge"
              /\ toServer[q] # <<>> /\ Len(toServer[q]) >= 1
              /\ Tail(toServer[q]) \in Seq(Frame)
              /\ Len(Tail(toServer[q])) \in Nat
              /\ Len(Tail(toServer[q])) = Len(toServer[q]) - 1
              /\ \A i \in 1..Len(toServer[q]) - 1 :
                    Tail(toServer[q])[i] = toServer[q][i + 1]
  <2>1. /\ toServer[q] # <<>>
        /\ Head(toServer[q]).whole /\ Head(toServer[q]).size # "huge"
    BY <1>12 DEF Arrived, FrameReads
  <2>2. /\ Len(toServer[q]) \in Nat \ {0}
        /\ Head(toServer[q]) = toServer[q][1]
        /\ Tail(toServer[q]) \in Seq(Frame)
        /\ Len(Tail(toServer[q])) = Len(toServer[q]) - 1
        /\ \A i \in 1..Len(toServer[q]) - 1 :
              Tail(toServer[q])[i] = toServer[q][i + 1]
    BY <1>1, <2>1, FrameTaken
  <2> QED BY <2>1, <2>2 DEF Content
<1>13. CASE ReadResponse(q)
  <2>1. CASE Arrived(toServer[q])
    <3>1. CASE /\ Serves(q, "awaiting", "awaiting body")
               /\ toServer' = [toServer EXCEPT ![q] = Tail(@)]
               /\ UNCHANGED <<routed, session, client, toClient, sent, seen,
                              served, answer>>
      <4>1. /\ server[q] = "awaiting" /\ server'[q] = "awaiting body"
            /\ toServer'[q] = Tail(toServer[q])
            /\ \A p \in Request \ {q} : server'[p] = server[p]
            /\ \A p \in Request \ {q} : toServer'[p] = toServer[p]
        BY <1>1, <3>1 DEF TypeOK, Serves
      <4>2. TypeOK'
        <5>1. toServer' \in [Request -> Seq(Frame)]
          BY <1>1, <1>12, <2>1, <3>1 DEF TypeOK
        <5> QED BY <1>1, <3>1, <5>1 DEF TypeOK, Serves
      <4>3. RequestOK(session, "awaiting body", client[q], toClient[q], sent[q],
                      seen[q])
        BY <1>1, <4>1 DEF RequestOK
      <4>4. CarriesBody(Tail(toServer[q]), BodyOf(served[q]))
        <5>1. CarriesBoth(toServer[q], BodyOf(served[q]))
          BY <1>1, <4>1 DEF ReplyOK
        <5> QED BY <1>1, <1>12, <2>1, <5>1 DEF CarriesBoth, CarriesBody
      <4>5. /\ client[q] \notin {"none", "header", "body", "forwarding",
                                 "replying"}
            /\ served[q] # "none"
        BY <1>1, <1>12, <2>1 DEF ReplyOK
      <4>6. session /\ client[q] = "replying body" => Tail(toServer[q]) = <<>>
        <5> SUFFICES ASSUME session, client[q] = "replying body"
                     PROVE  Tail(toServer[q]) = <<>>
          OBVIOUS
        <5>1. Len(toServer[q]) = 1 BY <1>1, <4>1 DEF ReplyOK
        <5> QED BY <1>1, <5>1, FrameTakenAlone
      <4>7. ReplyOK(session, "awaiting body", client[q], Tail(toServer[q]),
                    served[q], answer[q])
        BY <1>1, <4>4, <4>5, <4>6 DEF ReplyOK
      <4> QED BY <1>3, <3>1, <4>1, <4>2, <4>3, <4>7
    <3>2. CASE /\ Answers(q, "awaiting", "relay error")
               /\ UNCHANGED <<routed, session, client, toClient, toServer, sent,
                              seen, served>>
      BY <1>5, <1>6, <3>2
    <3> QED BY <1>13, <3>1, <3>2 DEF ReadResponse
  <2>2. CASE ~ Arrived(toServer[q])
    BY <1>5, <1>6, <1>13, <2>2 DEF ReadResponse
  <2> QED BY <2>1, <2>2
<1>14. CASE ReadResponseBody(q)
  <2>1. CASE /\ Arrived(toServer[q])
             /\ Answers(q, "awaiting body", Content(Head(toServer[q])))
             /\ toServer' = [toServer EXCEPT ![q] = Tail(@)]
    <3>1. UNCHANGED <<routed, session, client, toClient, sent, seen, served>>
      BY <1>14 DEF ReadResponseBody
    <3>2. /\ server[q] = "awaiting body" /\ server'[q] = "closing"
          /\ toServer'[q] = Tail(toServer[q])
          /\ answer'[q] = toServer[q][1].size
          /\ \A p \in Request \ {q} : server'[p] = server[p]
          /\ \A p \in Request \ {q} : answer'[p] = answer[p]
          /\ \A p \in Request \ {q} : toServer'[p] = toServer[p]
      BY <1>1, <1>12, <2>1 DEF TypeOK, Serves, Answers
    <3>3. /\ client[q] \notin {"none", "header", "body", "forwarding",
                               "replying"}
          /\ served[q] # "none" /\ CarriesBody(toServer[q], BodyOf(served[q]))
      BY <1>1, <3>2 DEF ReplyOK
    <3>4. Len(toServer[q]) = 1 /\ answer'[q] = BodyOf(served[q])
      <4>1. Len(toServer[q]) \in Nat /\ Len(toServer[q]) >= 1
        BY <1>1, <1>12, <2>1
      <4>2. /\ Len(toServer[q]) <= 1
            /\ Len(toServer[q]) = 1 => toServer[q][1].size = BodyOf(served[q])
        BY <3>3 DEF CarriesBody
      <4>3. \A n \in Nat : n <= 1 /\ n >= 1 => n = 1 OBVIOUS
      <4>4. Len(toServer[q]) = 1 BY <4>1, <4>2, <4>3
      <4> QED BY <3>2, <4>2, <4>4
    <3>5. Tail(toServer[q]) = <<>>
      BY <1>1, <1>12, <2>1, <3>4, FrameTakenAlone
    <3>6. BodyOf(served[q]) \in Size \cup {"some"}
      BY <1>1, <3>3 DEF BodyOf, TypeOK
    <3>7. TypeOK'
      <4>1. toServer' \in [Request -> Seq(Frame)]
        BY <1>1, <1>12, <2>1 DEF TypeOK
      <4>2. answer' \in [Request ->
                            Size \cup Error \cup {"none", "some", "part"}]
        BY <1>1, <2>1, <3>2, <3>4, <3>6 DEF TypeOK, Answers
      <4> QED BY <1>1, <2>1, <3>1, <4>1, <4>2 DEF TypeOK, Serves, Answers
    <3>8. RequestOK(session, "closing", client[q], toClient[q], sent[q], seen[q])
      BY <1>1 DEF RequestOK
    <3>9. ReplyOK(session, "closing", client[q], <<>>, served[q], answer'[q])
      BY <1>1, <1>12, <2>1, <3>2, <3>3, <3>4 DEF ReplyOK
    <3> QED BY <1>3, <3>1, <3>2, <3>5, <3>7, <3>8, <3>9
  <2>2. CASE Answers(q, "awaiting body", "relay error") /\ UNCHANGED toServer
    <3>1. UNCHANGED <<routed, session, client, toClient, toServer, sent, seen,
                      served>>
      BY <1>14, <2>2 DEF ReadResponseBody
    <3> QED BY <1>5, <1>6, <2>2, <3>1
  <2> QED BY <1>14, <2>1, <2>2 DEF ReadResponseBody
<1> QED BY <1>7, <1>8, <1>10, <1>11, <1>13, <1>14 DEF ServerStep

-----------------------------------------------------------------------------
(* handleHTTPStream.                                                       *)

(* Each step of the CLI, and of the local service, does so too.            *)
LEMMA ClientKeeps ==
    ASSUME ExchangeInv, NEW q \in Request, ClientStep(q) \/ Forward(q)
    PROVE  ExchangeInv'
<1> USE DEF clientSide, serverSide
<1>1. /\ TypeOK
      /\ toClient[q] \in Seq(Frame) /\ toServer[q] \in Seq(Frame)
      /\ Len(toClient[q]) \in Nat /\ Len(toServer[q]) \in Nat
      /\ sent[q] \in Size /\ served[q] \in Size \cup {"none", "error"}
      /\ RequestOK(session, server[q], client[q], toClient[q], sent[q], seen[q])
      /\ ReplyOK(session, server[q], client[q], toServer[q], served[q],
                 answer[q])
  <2>1. TypeOK /\ RequestInv /\ ReplyInv BY DEF ExchangeInv
  <2>2. /\ toClient[q] \in Seq(Frame) /\ toServer[q] \in Seq(Frame)
        /\ sent[q] \in Size /\ served[q] \in Size \cup {"none", "error"}
    BY <2>1 DEF TypeOK
  <2>3. Len(toClient[q]) \in Nat /\ Len(toServer[q]) \in Nat
    BY <2>2, LenProperties
  <2> QED BY <2>1, <2>2, <2>3 DEF RequestInv, ReplyInv
<1>2. ASSUME session' = session,
             \A p \in Request \ {q} :
                /\ server'[p] = server[p] /\ client'[p] = client[p]
                /\ toClient'[p] = toClient[p] /\ toServer'[p] = toServer[p]
                /\ sent'[p] = sent[p] /\ seen'[p] = seen[p]
                /\ served'[p] = served[p] /\ answer'[p] = answer[p],
             TypeOK',
             RequestOK(session, server'[q], client'[q], toClient'[q], sent'[q],
                       seen'[q]),
             ReplyOK(session, server'[q], client'[q], toServer'[q], served'[q],
                     answer'[q])
      PROVE  ExchangeInv'
  BY <1>2, OneRequestMoves DEF ExchangeInv
<1>3. ASSUME NEW from, NEW to \in {"none", "header", "body", "forwarding",
                                   "replying", "replying body", "pushing",
                                   "done"},
             Handles(q, from, to)
      PROVE  /\ client[q] = from /\ client'[q] = to
             /\ \A p \in Request \ {q} : client'[p] = client[p]
             /\ client' \in [Request ->
                  {"none", "header", "body", "forwarding", "replying",
                   "replying body", "pushing", "done"}]
  BY <1>1, <1>3 DEF TypeOK, Handles
(* A step that only moves on.                                              *)
<1>4. ASSUME UNCHANGED <<routed, session, server, toClient, toServer, sent,
                         seen, served, answer>>,
             NEW from, NEW to \in {"header", "replying body", "pushing", "done"},
             Handles(q, from, to),
             from = "none" \/ to # "header",
             \/ to \in {"header", "done"}
             \/ ~ session /\ from \in {"replying", "replying body"}
      PROVE  ExchangeInv'
  <2>1. /\ client[q] = from /\ client'[q] = to
        /\ \A p \in Request \ {q} : client'[p] = client[p]
    BY <1>3, <1>4
  <2>2. TypeOK' BY <1>1, <1>3, <1>4 DEF TypeOK
  <2>3. RequestOK(session, server[q], to, toClient[q], sent[q], seen[q])
    BY <1>1, <1>4, <2>1 DEF RequestOK
  <2>4. ReplyOK(session, server[q], to, toServer[q], served[q], answer[q])
    BY <1>1, <1>4, <2>1 DEF ReplyOK
  <2> QED BY <1>2, <1>4, <2>1, <2>2, <2>3, <2>4
<1>5. CASE AcceptStream(q) BY <1>4, <1>5 DEF AcceptStream
<1>6. CASE ReplyPushFails(q) BY <1>4, <1>6 DEF ReplyPushFails
<1>7. ASSUME Arrived(toClient[q])
      PROVE  /\ Content(Head(toClient[q])) = toClient[q][1].size
             /\ toClient[q] # <<>> /\ Len(toClient[q]) >= 1
             /\ Tail(toClient[q]) \in Seq(Frame)
             /\ Len(Tail(toClient[q])) \in Nat
             /\ Len(Tail(toClient[q])) = Len(toClient[q]) - 1
             /\ \A i \in 1..Len(toClient[q]) - 1 :
                   Tail(toClient[q])[i] = toClient[q][i + 1]
  <2>1. toClient[q] # <<>> /\ Head(toClient[q]).whole
    BY <1>7 DEF Arrived, FrameReads
  <2>2. /\ Len(toClient[q]) \in Nat \ {0}
        /\ Head(toClient[q]) = toClient[q][1]
        /\ Tail(toClient[q]) \in Seq(Frame)
        /\ Len(Tail(toClient[q])) = Len(toClient[q]) - 1
        /\ \A i \in 1..Len(toClient[q]) - 1 :
              Tail(toClient[q])[i] = toClient[q][i + 1]
    BY <1>1, <2>1, FrameTaken
  <2> QED BY <2>1, <2>2 DEF Content
(* A frame comes in.                                                       *)
<1>8. ASSUME Arrived(toClient[q]), NEW from \in {"header", "body"},
             NEW to \in {"body", "forwarding"}, Handles(q, from, to),
             (to = "body") <=> (from = "header"),
             toClient' = [toClient EXCEPT ![q] = Tail(@)],
             UNCHANGED <<routed, session, server, toServer, sent, served,
                         answer>>,
             seen' \in [Request -> Size \cup {"none", "part"}],
             \A p \in Request \ {q} : seen'[p] = seen[p],
             seen'[q] \in {"none", sent[q]}
      PROVE  ExchangeInv'
  <2>1. /\ client[q] = from /\ client'[q] = to
        /\ \A p \in Request \ {q} : client'[p] = client[p]
        /\ client' \in [Request ->
             {"none", "header", "body", "forwarding", "replying",
              "replying body", "pushing", "done"}]
    BY <1>3, <1>8
  <2>2. /\ toClient'[q] = Tail(toClient[q])
        /\ \A p \in Request \ {q} : toClient'[p] = toClient[p]
        /\ toClient' \in [Request -> Seq(Frame)]
    BY <1>1, <1>7, <1>8 DEF TypeOK
  <2>3. TypeOK' BY <1>1, <1>8, <2>1, <2>2 DEF TypeOK
  <2>4. server[q] \notin {"new", "opening", "encoding", "header"}
    BY <1>1, <1>7, <1>8 DEF RequestOK
  <2>5. CASE from = "header"
    <3>1. CarriesBody(Tail(toClient[q]), sent[q])
      <4>1. CarriesBoth(toClient[q], sent[q])
        BY <1>1, <2>1, <2>5 DEF RequestOK
      <4> QED BY <1>1, <1>7, <1>8, <4>1 DEF CarriesBoth, CarriesBody
    <3>2. session /\ server[q] = "body" => Tail(toClient[q]) = <<>>
      <4> SUFFICES ASSUME session, server[q] = "body"
                   PROVE  Tail(toClient[q]) = <<>>
        OBVIOUS
      <4>1. Len(toClient[q]) = 1 BY <1>1, <2>1, <2>5 DEF RequestOK
      <4> QED BY <1>1, <4>1, FrameTakenAlone
    <3>3. RequestOK(session, server[q], "body", Tail(toClient[q]), sent[q],
                    seen'[q])
      BY <1>8, <2>4, <3>1, <3>2 DEF RequestOK
    <3>4. ReplyOK(session, server[q], "body", toServer[q], served[q], answer[q])
      BY <1>1, <2>1, <2>5 DEF ReplyOK
    <3> QED BY <1>2, <1>8, <2>1, <2>2, <2>3, <2>5, <3>3, <3>4
  <2>6. CASE from = "body"
    <3>1. to = "forwarding" BY <1>8, <2>6
    <3>2. RequestOK(session, server[q], "forwarding", Tail(toClient[q]),
                    sent[q], seen'[q])
      <4>1. ~ (session /\ server[q] = "body")
        BY <1>1, <1>7, <1>8, <2>1, <2>6 DEF RequestOK
      <4> QED BY <1>8, <2>4, <4>1 DEF RequestOK
    <3>3. ReplyOK(session, server[q], "forwarding", toServer[q], served[q],
                  answer[q])
      BY <1>1, <2>1, <2>6 DEF ReplyOK
    <3> QED BY <1>2, <1>8, <2>1, <2>2, <2>3, <3>1, <3>2, <3>3
  <2> QED BY <2>5, <2>6
<1>9. CASE ReadRequest(q)
  <2>1. CASE /\ Arrived(toClient[q]) /\ Handles(q, "header", "body")
             /\ toClient' = [toClient EXCEPT ![q] = Tail(@)]
    <3>1. UNCHANGED <<routed, session, server, toServer, sent, seen, served,
                      answer>>
      BY <1>9 DEF ReadRequest, Reads
    <3>2. /\ seen \in [Request -> Size \cup {"none", "part"}]
          /\ seen[q] \in {"none", sent[q]}
      BY <1>1 DEF TypeOK, RequestOK
    <3> QED BY <1>8, <2>1, <3>1, <3>2
  <2>2. CASE Handles(q, "header", "done") /\ UNCHANGED toClient
    BY <1>4, <1>9, <2>2 DEF ReadRequest, Reads
  <2> QED BY <1>9, <2>1, <2>2 DEF ReadRequest, Reads
<1>10. CASE ReadBody(q)
  <2>1. CASE /\ Arrived(toClient[q]) /\ Handles(q, "body", "forwarding")
             /\ toClient' = [toClient EXCEPT ![q] = Tail(@)]
    <3>1. UNCHANGED <<routed, session, server, toServer, sent, served, answer>>
      BY <1>10 DEF ReadBody, Reads
    <3>2. seen' = [seen EXCEPT ![q] = Content(Head(toClient[q]))]
      BY <1>10, <2>1 DEF ReadBody
    <3>3. Content(Head(toClient[q])) = sent[q]
      <4>1. CarriesBody(toClient[q], sent[q])
        BY <1>1, <1>3, <2>1 DEF RequestOK
      <4>2. /\ Len(toClient[q]) <= 1
            /\ Len(toClient[q]) = 1 => toClient[q][1].size = sent[q]
        BY <4>1 DEF CarriesBody
      <4>3. \A n \in Nat : n <= 1 /\ n >= 1 => n = 1 OBVIOUS
      <4>4. Len(toClient[q]) = 1 BY <1>1, <1>7, <2>1, <4>2, <4>3
      <4> QED BY <1>7, <2>1, <4>2, <4>4
    <3>4. /\ seen' \in [Request -> Size \cup {"none", "part"}]
          /\ \A p \in Request \ {q} : seen'[p] = seen[p]
          /\ seen'[q] = sent[q]
      BY <1>1, <3>2, <3>3 DEF TypeOK
    <3> QED BY <1>8, <2>1, <3>1, <3>4
  <2>2. CASE /\ Fails(toClient[q], server[q]) /\ ~ Arrived(toClient[q])
             /\ Handles(q, "body", "done") /\ UNCHANGED toClient
    <3>1. UNCHANGED <<routed, session, server, toServer, sent, served, answer>>
      BY <1>10 DEF ReadBody, Reads
    <3>2. seen' = seen
      BY <1>1, <1>10, <2>2 DEF ReadBody, TypeOK
    <3> QED BY <1>4, <2>2, <3>1, <3>2
  <2>3. Fails(toClient[q], server[q]) => ~ Arrived(toClient[q])
    BY DEF Fails, Arrived
  <2> QED BY <1>10, <2>1, <2>2, <2>3 DEF ReadBody, Reads
<1>11. CASE Forward(q)
  <2>1. PICK z \in Size \cup {"error"} : served' = [served EXCEPT ![q] = z]
    BY <1>11 DEF Forward
  <2>2. /\ UNCHANGED <<routed, session, server, toClient, toServer, sent, seen,
                       answer>>
        /\ Handles(q, "forwarding", "replying")
    BY <1>11 DEF Forward
  <2>3. /\ served'[q] = z /\ z # "none"
        /\ \A p \in Request \ {q} : served'[p] = served[p]
        /\ served' \in [Request -> Size \cup {"none", "error"}]
    BY <1>1, <2>1, SizeAssumption DEF TypeOK
  <2>4. TypeOK' BY <1>1, <1>3, <2>2, <2>3 DEF TypeOK
  <2>5. RequestOK(session, server[q], "replying", toClient[q], sent[q], seen[q])
    BY <1>1, <1>3, <2>2 DEF RequestOK
  <2>6. CarriesBoth(<<>>, BodyOf(z)) BY DEF CarriesBoth
  <2>7. ReplyOK(session, server[q], "replying", toServer[q], z, answer[q])
    <3>1. /\ toServer[q] = <<>> /\ server[q] # "awaiting body"
          /\ answer[q] \in Error \cup {"none"}
      BY <1>1, <1>3, <2>2 DEF ReplyOK
    <3> QED BY <2>3, <2>6, <3>1 DEF ReplyOK
  <2> QED BY <1>2, <1>3, <2>2, <2>3, <2>4, <2>5, <2>7
(* A frame goes out while the session works.                               *)
<1>12. ASSUME session, NEW f \in Frame,
              NEW from, NEW to \in {"replying body", "pushing", "done"},
              Handles(q, from, to),
              toServer' = [toServer EXCEPT ![q] = Append(@, f)],
              UNCHANGED <<routed, session, server, toClient, sent, seen, served,
                          answer>>,
              \/ /\ from = "replying" /\ to = "replying body"
                 /\ f.size = "some"
              \/ /\ from = "replying body" /\ to # "replying body"
                 /\ f.size = BodyOf(served[q])
       PROVE  ExchangeInv'
  <2>1. /\ client[q] = from /\ client'[q] = to
        /\ \A p \in Request \ {q} : client'[p] = client[p]
        /\ client' \in [Request ->
             {"none", "header", "body", "forwarding", "replying",
              "replying body", "pushing", "done"}]
    BY <1>3, <1>12
  <2>2. /\ toServer'[q] = Append(toServer[q], f)
        /\ toServer' \in [Request -> Seq(Frame)]
        /\ \A p \in Request \ {q} : toServer'[p] = toServer[p]
    <3>1. /\ toServer'[q] = Append(toServer[q], f)
          /\ \A p \in Request \ {q} : toServer'[p] = toServer[p]
      BY <1>1, <1>12 DEF TypeOK
    <3>2. Append(toServer[q], f) \in Seq(Frame) BY <1>1, <1>12, FrameWritten
    <3>3. toServer' \in [Request -> Seq(Frame)]
      BY <1>1, <1>12, <3>2 DEF TypeOK
    <3> QED BY <3>1, <3>3
  <2>3. TypeOK' BY <1>1, <1>12, <2>1, <2>2 DEF TypeOK
  <2>4. RequestOK(session, server[q], to, toClient[q], sent[q], seen[q])
    BY <1>1, <1>12 DEF RequestOK
  <2>5. served[q] # "none" BY <1>1, <1>12, <2>1 DEF ReplyOK
  <2>6. ReplyOK(session, server[q], to, toServer'[q], served[q], answer[q])
    <3>1. CASE from = "replying"
      <4>1. /\ toServer[q] = <<>> /\ server[q] # "awaiting body"
            /\ answer[q] \in Error \cup {"none"}
        BY <1>1, <2>1, <3>1 DEF ReplyOK
      <4>2. /\ Len(toServer'[q]) = 1
            /\ CarriesBoth(toServer'[q], BodyOf(served[q]))
        BY <1>12, <2>2, <3>1, <4>1, FirstFrame
      <4>3. to = "replying body" BY <1>12, <3>1
      <4> QED BY <2>5, <4>1, <4>2, <4>3 DEF ReplyOK
    <3>2. CASE from = "replying body"
      <4>1. f.size = BodyOf(served[q]) /\ to \in {"pushing", "done"}
        BY <1>12, <3>2
      <4>2. CASE server[q] \notin {"awaiting body", "closing", "done"}
        <5>1. /\ Len(toServer[q]) = 1
              /\ CarriesBoth(toServer[q], BodyOf(served[q]))
          BY <1>1, <1>12, <2>1, <3>2, <4>2 DEF ReplyOK
        <5>2. CarriesBoth(toServer'[q], BodyOf(served[q]))
          BY <1>1, <1>12, <2>2, <4>1, <5>1, SecondFrame
        <5> QED BY <1>1, <2>5, <4>1, <4>2, <5>2 DEF ReplyOK
      <4>3. CASE server[q] = "awaiting body"
        <5>1. toServer[q] = <<>>
          BY <1>1, <1>12, <2>1, <3>2, <4>3 DEF ReplyOK
        <5>2. CarriesBody(toServer'[q], BodyOf(served[q]))
          BY <1>12, <2>2, <4>1, <5>1, FirstFrame
        <5> QED BY <1>1, <2>5, <4>1, <4>3, <5>2 DEF ReplyOK
      <4>4. CASE server[q] \in {"closing", "done"}
        BY <1>1, <2>5, <4>1, <4>4 DEF ReplyOK
      <4> QED BY <4>2, <4>3, <4>4
    <3> QED BY <1>12, <3>1, <3>2
  <2> QED BY <1>2, <1>12, <2>1, <2>2, <2>3, <2>4, <2>6
<1>13. ASSUME NEW from, NEW to, NEW f, Replies(q, from, to, f), ~ session
       PROVE  /\ Handles(q, from, to)
              /\ UNCHANGED <<routed, session, server, toClient, toServer, sent,
                             seen, served, answer>>
  BY <1>1, <1>13 DEF Replies, TypeOK
<1>14. ASSUME NEW from, NEW to, NEW f, Replies(q, from, to, f), session
       PROVE  /\ Handles(q, from, to)
              /\ toServer' = [toServer EXCEPT ![q] = Append(@, f)]
              /\ UNCHANGED <<routed, session, server, toClient, sent, seen,
                             served, answer>>
  BY <1>14 DEF Replies
<1>15. CASE WriteReply(q)
  <2>1. Header \in Frame /\ Header.size = "some" BY DEF Header, Whole, Frame
  <2>2. Replies(q, "replying", "replying body", Header)
    BY <1>15 DEF WriteReply
  <2>3. CASE session BY <1>12, <1>14, <2>1, <2>2, <2>3
  <2>4. CASE ~ session BY <1>4, <1>13, <2>2, <2>4
  <2> QED BY <2>3, <2>4
<1>16. CASE WriteReplyBody(q)
  <2>1. PICK to \in {"pushing", "done"} :
               Replies(q, "replying body", to, Whole(ReplyBody(q)))
    BY <1>16 DEF WriteReplyBody
  <2>2. Handles(q, "replying body", to) BY <2>1 DEF Replies
  <2>3. served[q] # "none" BY <1>1, <1>3, <2>2 DEF ReplyOK
  <2>4. Whole(ReplyBody(q)) \in Frame
        /\ Whole(ReplyBody(q)).size = BodyOf(served[q])
    BY <1>1, <2>3, SizeAssumption DEF Whole, ReplyBody, BodyOf, Frame
  <2>5. CASE session
    <3>1. /\ Handles(q, "replying body", to)
          /\ toServer' = [toServer EXCEPT ![q] = Append(@, Whole(ReplyBody(q)))]
          /\ UNCHANGED <<routed, session, server, toClient, sent, seen, served,
                         answer>>
      BY <1>14, <2>1, <2>5
    <3> QED BY <1>12, <2>4, <2>5, <3>1
  <2>6. CASE ~ session BY <1>4, <1>13, <2>1, <2>6
  <2> QED BY <2>5, <2>6
<1> QED BY <1>5, <1>6, <1>9, <1>10, <1>11, <1>15, <1>16 DEF ClientStep

-----------------------------------------------------------------------------
(* What holds of every state.                                              *)

(* ExchangeInv holds at the start and is kept by every step.               *)
LEMMA ExchangeInductive ==
    /\ Init => ExchangeInv
    /\ ExchangeInv /\ [Next]_vars => ExchangeInv'
<1>1. ASSUME Init PROVE ExchangeInv
  <2>1. <<>> \in Seq(Frame) /\ Len(<<>>) = 0 BY EmptySeq
  <2>2. TypeOK BY <1>1, <2>1 DEF Init, TypeOK
  <2>3. RequestInv
    BY <1>1, <2>1 DEF Init, RequestInv, RequestOK, CarriesBoth
  <2>4. ReplyInv
    BY <1>1, <2>1 DEF Init, ReplyInv, ReplyOK, CarriesBoth
  <2> QED BY <2>2, <2>3, <2>4 DEF ExchangeInv
<1>2. ASSUME ExchangeInv, [Next]_vars PROVE ExchangeInv'
  <2>1. CASE Unregister
    BY <1>2, <2>1 DEF Unregister, clientSide, serverSide, ExchangeInv, TypeOK,
                      RequestInv, ReplyInv
  <2>2. CASE SessionEnds BY <1>2, <2>2, SessionEndsKeeps
  <2>3. ASSUME NEW q \in Request,
               Route(q) \/ EncodeRequest(q) \/ ServerStep(q)
        PROVE  ExchangeInv'
    BY <1>2, <2>3, ServerKeeps
  <2>4. ASSUME NEW q \in Request, ClientStep(q) \/ Forward(q)
        PROVE  ExchangeInv'
    BY <1>2, <2>4, ClientKeeps
  <2>5. CASE UNCHANGED vars
    BY <1>2, <2>5 DEF vars, ExchangeInv, TypeOK, RequestInv, ReplyInv
  <2> QED BY <1>2, <2>1, <2>2, <2>3, <2>4, <2>5 DEF Next
<1> QED BY <1>1, <1>2

(* The type invariant of the exchange: in particular neither end ever      *)
(* takes part of a frame for a body.                                       *)
THEOREM ExchangeTypeCorrect == Spec => []TypeOK
<1>1. ExchangeInv => TypeOK BY DEF ExchangeInv
<1> QED BY <1>1, ExchangeInductive, PTL DEF Spec

(* A caller that gets a response gets the whole of what the local service  *)
(* answered this request, wherever the session ends and however many       *)
(* requests share it.                                                      *)
THEOREM ExchangeAnswersWhole == Spec => []AnswerIsWhole
<1>1. ExchangeInv => AnswerIsWhole
  BY DEF ExchangeInv, ReplyInv, ReplyOK, AnswerIsWhole, ReplyBody, BodyOf
<1> QED BY <1>1, ExchangeInductive, PTL DEF Spec

(* The local service is called with the body the caller sent or not at     *)
(* all.                                                                    *)
THEOREM ExchangeForwardsWhole == Spec => []ServiceSeesWholeBody
<1>1. ExchangeInv => ServiceSeesWholeBody
  BY DEF ExchangeInv, RequestInv, RequestOK, ServiceSeesWholeBody
<1> QED BY <1>1, ExchangeInductive, PTL DEF Spec

=============================================================================
