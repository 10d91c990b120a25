----------------------------- MODULE HttpExchange -----------------------------
(***************************************************************************)
(* Public HTTP requests through one tunnel: HTTPProxy.Handler on the relay *)
(* server (server/internal/relayserver/httpproxy.go), handleHTTPStream in  *)
(* the CLI (cli/internal/relayclient/client.go), the frames between them   *)
(* (internal/relay/frames.go) and the local service behind the CLI.        *)
(*                                                                         *)
(* Every request has a yamux stream of its own, two queues of frames.  An  *)
(* end of it is closed when its goroutine is "done".  When the relay       *)
(* session ends, what was not yet delivered is lost, in the middle of a    *)
(* frame if need be; what was delivered can still be read, then comes EOF. *)
(*                                                                         *)
(* Neither side sets a deadline, so what waits for a frame waits for the   *)
(* frame, for the other end to close, or for the session to end.           *)
(***************************************************************************)
EXTENDS Naturals, SequencesExt

CONSTANTS
    Request,      \* public requests
    Upgrade,      \* those that ask for a WebSocket
    Size          \* sizes of bodies; "huge" is more than frameSizeLimit

ASSUME UpgradeAssumption == Upgrade \subseteq Request
ASSUME SizeAssumption == Size \subseteq {"empty", "some", "huge"}

VARIABLES
    routed,       \* whether the registry has an entry for the host
    session,      \* whether the relay session works
    server,       \* where HTTPProxy's handler of each request is
    client,       \* where handleHTTPStream of each request is
    toClient,     \* frames on the way to the CLI
    toServer,     \* frames on the way back
    sent,         \* history: size of the body of each public request
    seen,         \* history: size of the body the local service was given
    served,       \* what the local service answered
    answer        \* what the public caller got: an error or a body

vars == <<routed, session, server, client, toClient, toServer, sent, seen,
          served, answer>>
clientSide == <<client, toServer, seen, served>>
serverSide == <<server, toClient, sent, answer>>

Frame == [size : {"empty", "some", "huge"}, whole : BOOLEAN]
Whole(z) == [size |-> z, whole |-> TRUE]
Cut(f) == [f EXCEPT !.whole = FALSE]

(* WriteJSON: one frame, small.                                            *)
Header == Whole("some")

Init ==
    /\ routed = TRUE
    /\ session = TRUE
    /\ server = [q \in Request |-> "new"]
    /\ client = [q \in Request |-> "none"]
    /\ toClient = [q \in Request |-> <<>>]
    /\ toServer = [q \in Request |-> <<>>]
    /\ sent \in [Request -> Size]
    /\ seen = [q \in Request |-> "none"]
    /\ served = [q \in Request |-> "none"]
    /\ answer = [q \in Request |-> "none"]

-----------------------------------------------------------------------------
(* The tunnel around the requests.                                         *)

(* The registry's entry goes: clean-up, or a kill, which leaves the        *)
(* session as it is.                                                       *)
Unregister ==
    /\ routed
    /\ routed' = FALSE
    /\ UNCHANGED <<session, clientSide, serverSide>>

(* What may be left of a queue: a prefix, or one with half a frame after.  *)
Remains(queue) ==
    Prefixes(queue)
        \cup {Append(Front(p), Cut(Last(p))) : p \in Prefixes(queue) \ {<<>>}}

Truncated(queues) ==
    {left \in [Request -> UNION {Remains(queues[q]) : q \in Request}] :
        \A q \in Request : left[q] \in Remains(queues[q])}

(* Either end notices.                                                     *)
SessionEnds ==
    /\ session
    /\ session' = FALSE
    /\ toClient' \in Truncated(toClient)
    /\ toServer' \in Truncated(toServer)
    /\ UNCHANGED <<routed, server, client, sent, seen, served, answer>>

(* Mutant: a read that comes back short is taken for the frame.            *)
FrameReadsShort(f) == f.size # "huge"

(* ReadFrame's checks: both reads were full, and the length is in range.   *)
FrameReads(f) == f.whole /\ f.size # "huge"

(* What those reads return.                                                *)
Content(f) == IF f.whole THEN f.size ELSE "part"

Arrived(queue) == queue # <<>> /\ FrameReads(Head(queue))

(* ReadFrame fails: on such a frame, or on the end of the stream.          *)
Fails(queue, peer) ==
    IF queue = <<>> THEN ~ session \/ peer = "done"
                    ELSE ~ FrameReads(Head(queue))

-----------------------------------------------------------------------------
(* HTTPProxy.Handler, one request.                                         *)

Serves(q, from, to) == server[q] = from /\ server' = [server EXCEPT ![q] = to]

(* http.Error or the response, and the return.                             *)
Answers(q, from, what) ==
    /\ Serves(q, from, "closing")
    /\ answer' = [answer EXCEPT ![q] = what]

(* The host has an entry, or none; the allowlist may refuse the caller.    *)
Route(q) ==
    /\ \/ routed /\ Serves(q, "new", "opening") /\ UNCHANGED answer
       \/ routed /\ Answers(q, "new", "forbidden")
       \/ ~ routed /\ Answers(q, "new", "not found")
    /\ UNCHANGED <<routed, session, clientSide, toClient, sent>>

(* OpenStream on the session that was looked up.                           *)
OpenStream(q) ==
    /\ \/ session /\ Serves(q, "opening", "encoding") /\ UNCHANGED answer
       \/ ~ session /\ Answers(q, "opening", "relay error")
    /\ UNCHANGED <<routed, session, clientSide, toClient, sent>>

(* EncodeRequest reads the whole body; the caller may hang up meanwhile.   *)
EncodeRequest(q) ==
    /\ \/ Serves(q, "encoding", "header") /\ UNCHANGED answer
       \/ Answers(q, "encoding", "bad request")
    /\ UNCHANGED <<routed, session, clientSide, toClient, sent>>

(* Mutant: no request has a body frame.                                    *)
AfterHeaderNoBody(q) == "awaiting"

(* A WebSocket request has no body frame.                                  *)
AfterHeader(q) == IF q \in Upgrade THEN "awaiting" ELSE "body"

WriteHeader(q) ==
    /\ \/ /\ session
          /\ Serves(q, "header", AfterHeader(q))
          /\ toClient' = [toClient EXCEPT ![q] = Append(@, Header)]
          /\ UNCHANGED answer
       \/ ~ session /\ Answers(q, "header", "relay error") /\ UNCHANGED toClient
    /\ UNCHANGED <<routed, session, clientSide, sent>>

(* A frame beyond the stream's window is written as far as that goes.      *)
WriteBody(q) ==
    /\ \/ /\ session
          /\ Serves(q, "body", IF sent[q] = "huge" THEN "pushing" ELSE "awaiting")
          /\ toClient' = [toClient EXCEPT ![q] = Append(@, Whole(sent[q]))]
          /\ UNCHANGED answer
       \/ ~ session /\ Answers(q, "body", "relay error") /\ UNCHANGED toClient
    /\ UNCHANGED <<routed, session, clientSide, sent>>

(* The rest of it goes out only if the CLI reads on.  It does not: the     *)
(* write fails when the session ends, or when yamux resets the stream some *)
(* time (StreamCloseTimeout) after the CLI closed its end.                 *)
PushFails(q) ==
    /\ ~ session \/ client[q] = "done"
    /\ Answers(q, "pushing", "relay error")
    /\ UNCHANGED <<routed, session, clientSide, toClient, sent>>

ReadResponse(q) ==
    /\ \/ /\ Arrived(toServer[q])
          /\ Serves(q, "awaiting", "awaiting body")
          /\ toServer' = [toServer EXCEPT ![q] = Tail(@)]
          /\ UNCHANGED answer
       \/ /\ Fails(toServer[q], client[q])
          /\ Answers(q, "awaiting", "relay error")
          /\ UNCHANGED toServer
    /\ UNCHANGED <<routed, session, client, toClient, sent, seen, served>>

ReadResponseBody(q) ==
    /\ \/ /\ Arrived(toServer[q])
          /\ Answers(q, "awaiting body", Content(Head(toServer[q])))
          /\ toServer' = [toServer EXCEPT ![q] = Tail(@)]
       \/ /\ Fails(toServer[q], client[q])
          /\ Answers(q, "awaiting body", "relay error")
          /\ UNCHANGED toServer
    /\ UNCHANGED <<routed, session, client, toClient, sent, seen, served>>

(* Mutant: only the last return closes the stream.                         *)
CloseAnswered(q) ==
    /\ answer[q] \in Size
    /\ Serves(q, "closing", "done")
    /\ UNCHANGED <<routed, session, clientSide, toClient, sent, answer>>

(* The deferred stream.Close.                                              *)
CloseStream(q) ==
    /\ Serves(q, "closing", "done")
    /\ UNCHANGED <<routed, session, clientSide, toClient, sent, answer>>

-----------------------------------------------------------------------------
(* handleHTTPStream, one stream.                                           *)

Handles(q, from, to) == client[q] = from /\ client' = [client EXCEPT ![q] = to]

Opened(q) ==
    /\ server[q] \notin {"new", "opening"}
    /\ answer[q] \notin {"forbidden", "not found"}

(* The CLI's accept loop; yamux announces a stream when it is opened.      *)
AcceptStream(q) ==
    /\ session
    /\ Opened(q)
    /\ Handles(q, "none", "header")
    /\ UNCHANGED <<routed, session, serverSide, toServer, seen, served>>

Reads(q, from, to) ==
    /\ \/ /\ Arrived(toClient[q])
          /\ Handles(q, from, to)
          /\ toClient' = [toClient EXCEPT ![q] = Tail(@)]
       \/ /\ Fails(toClient[q], server[q])
          /\ Handles(q, from, "done")
          /\ UNCHANGED toClient
    /\ UNCHANGED <<routed, session, server, toServer, sent, served, answer>>

ReadRequest(q) == Reads(q, "header", "body") /\ UNCHANGED seen

(* The body is read before the request is looked at: also a WebSocket's.   *)
ReadBody(q) ==
    /\ Reads(q, "body", "forwarding")
    /\ seen' = [seen EXCEPT ![q] =
                   IF Arrived(toClient[q]) THEN Content(Head(toClient[q])) ELSE @]

(* forwardHTTPRequest: the local service answers, or the CLI answers for   *)
(* it with an error and a short text.                                      *)
Forward(q) ==
    /\ Handles(q, "forwarding", "replying")
    /\ \E z \in Size \cup {"error"} : served' = [served EXCEPT ![q] = z]
    /\ UNCHANGED <<routed, session, serverSide, toServer, seen>>

(* Mutant: an error has no text.                                           *)
ReplyAsServed(q) == served[q]

ReplyBody(q) == IF served[q] = "error" THEN "some" ELSE served[q]

Replies(q, from, to, f) ==
    /\ Handles(q, from, to)
    /\ toServer' = [toServer EXCEPT ![q] = IF session THEN Append(@, f) ELSE @]
    /\ UNCHANGED <<routed, session, serverSide, seen, served>>

(* Errors of either write are ignored.                                     *)
WriteReply(q) == Replies(q, "replying", "replying body", Header)

WriteReplyBody(q) ==
    Replies(q, "replying body",
            IF ReplyBody(q) = "huge" THEN "pushing" ELSE "done",
            Whole(ReplyBody(q)))

(* As PushFails, from this side.                                           *)
ReplyPushFails(q) ==
    /\ ~ session \/ server[q] = "done"
    /\ Handles(q, "pushing", "done")
    /\ UNCHANGED <<routed, session, serverSide, toServer, seen, served>>

-----------------------------------------------------------------------------
(* Specification.                                                          *)

ServerStep(q) ==
    \/ OpenStream(q) \/ WriteHeader(q) \/ WriteBody(q) \/ PushFails(q)
    \/ ReadResponse(q) \/ ReadResponseBody(q) \/ CloseStream(q)

ClientStep(q) ==
    \/ AcceptStream(q) \/ ReadRequest(q) \/ ReadBody(q)
    \/ WriteReply(q) \/ WriteReplyBody(q) \/ ReplyPushFails(q)

Next ==
    \/ Unregister \/ SessionEnds
    \/ \E q \in Request :
          Route(q) \/ EncodeRequest(q) \/ Forward(q)
              \/ ServerStep(q) \/ ClientStep(q)

(* Goroutines run when they can.  Callers need not call nor send their     *)
(* bodies, and the local service need not answer.                          *)
Fairness ==
    \A q \in Request : WF_vars(ServerStep(q)) /\ WF_vars(ClientStep(q))

Spec == Init /\ [][Next]_vars /\ Fairness

-----------------------------------------------------------------------------
(* Properties.                                                             *)

Error == {"forbidden", "not found", "bad request", "relay error"}

TypeOK ==
    /\ routed \in BOOLEAN /\ session \in BOOLEAN
    /\ server \in [Request ->
          {"new", "opening", "encoding", "header", "body", "pushing",
           "awaiting", "awaiting body", "closing", "done"}]
    /\ client \in [Request ->
          {"none", "header", "body", "forwarding", "replying",
           "replying body", "pushing", "done"}]
    /\ toClient \in [Request -> Seq(Frame)]
    /\ toServer \in [Request -> Seq(Frame)]
    /\ sent \in [Request -> Size]
    /\ seen \in [Request -> Size \cup {"none", "part"}]
    /\ served \in [Request -> Size \cup {"none", "error"}]
    /\ answer \in [Request -> Size \cup Error \cup {"none", "some", "part"}]

(* A caller that gets a response gets the one the local service gave to    *)
(* this request, whole: a session that ends in the middle of the header,   *)
(* between header and body or inside the body makes a 502 of it            *)
(* (httpproxy.go:111, 124).                                                *)
AnswerIsWhole ==
    \A q \in Request : answer[q] \notin Error \cup {"none"} =>
        served[q] # "none" /\ answer[q] = ReplyBody(q) /\ answer[q] # "huge"

(* The local service is called only with the body the caller sent, never   *)
(* with the part that arrived before the session ended or the stream was   *)
(* closed (client.go:195).                                                 *)
ServiceSeesWholeBody == \A q \in Request : seen[q] \in {"none", sent[q]}

Forwarding(q) == client[q] = "forwarding"

(* Without deadlines on either side, a request that was sent on is         *)
(* answered all the same, whatever ends in between, unless the local       *)
(* service is called and never answers (httpproxy.go:97-137).              *)
RequestAnswered ==
    \A q \in Request :
        (server[q] = "header") ~> (answer[q] # "none" \/ []Forwarding(q))

(* The CLI keeps no goroutine and no stream of a request that the server   *)
(* has answered, unless the local service never answers (client.go:189).   *)
ClientStreamEnds ==
    \A q \in Request :
        (server[q] = "closing") ~>
            (client[q] \in {"none", "done"} \/ []Forwarding(q))

=============================================================================
