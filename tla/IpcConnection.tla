--------------------------- MODULE IpcConnection ----------------------------
(***************************************************************************)
(* One connection of cloudsync-ipc: the client's request (client.rs), the  *)
(* server's handle_connection (server.rs) and the lines between them       *)
(* (transport.rs).  The socket delivers bytes in order; each line travels  *)
(* in two parts, so that a read_line that is cancelled, by the client's    *)
(* timeout or by the server's select!, may have consumed the first part.   *)
(***************************************************************************)
EXTENDS Integers, Sequences

CONSTANT MaxRequests      \* bound: requests on the connection

ASSUME ConstantsAssumption == MaxRequests \in Nat

\* "ok": Request parses; "bad": it does not (an unknown request, say);
\* "huge": longer than MAX_MESSAGE_SIZE.
RequestKind == {"ok", "bad", "huge"}

\* "answer": what the handler returned, its error included; "malformed": the
\* error response to a line that is not a request.
ResponseKind == {"answer", "hugeAnswer", "malformed"}
Response == [to : Nat, kind : ResponseKind]

\* The first part of the line that is read next: still in the socket, in the
\* buffer of the present read_line, or consumed by one that was cancelled.
Part == {"unread", "held", "lost"}

VARIABLES
    requests,   \* the kinds of all lines the client has written
    sRead,      \* how many of them the server has read
    sPart,      \* of the next one
    server,     \* where handle_connection is; "cut": it ended within a write
    shutdown,   \* the watch channel's value
    gone,       \* the watch channel's sender was dropped without a shutdown
    responses,  \* all lines the server has begun to write
    cRead,      \* how many of them the client has read
    cPart,      \* of the next one
    client,     \* "idle", "waiting" in request, or "closed"
    \* history variables, read by properties only:
    answers,    \* what request has returned: the request and the response it got
    timeouts    \* how often request has timed out

history == <<answers, timeouts>>
serverVars == <<sRead, sPart, server, responses>>
clientVars == <<requests, cRead, cPart, client, history>>
vars == <<serverVars, clientVars, shutdown, gone>>

TypeOK ==
    /\ requests \in Seq(RequestKind)
    /\ sRead \in Nat
    /\ sPart \in Part
    /\ server \in {"reading", "handling", "writing", "closed", "cut"}
    /\ shutdown \in BOOLEAN
    /\ gone \in BOOLEAN
    /\ responses \in Seq(Response)
    /\ cRead \in Nat
    /\ cPart \in Part
    /\ client \in {"idle", "waiting", "closed"}
    /\ answers \in Seq([request : Nat, response : Nat])
    /\ timeouts \in Nat

Init ==
    /\ requests = <<>>
    /\ sRead = 0
    /\ sPart = "unread"
    /\ server = "reading"
    /\ shutdown = FALSE
    /\ gone = FALSE
    /\ responses = <<>>
    /\ cRead = 0
    /\ cPart = "unread"
    /\ client = "idle"
    /\ answers = <<>>
    /\ timeouts = 0

Ended == server \in {"closed", "cut"}

\* A read_line is cancelled and drops what it has read.
Cancelled(part) == IF part = "held" THEN "lost" ELSE part

-----------------------------------------------------------------------------
(* The server: handle_connection.                                          *)

\* read_message: the first part of a line arrives.
ReadPart ==
    /\ server = "reading"
    /\ sPart = "unread"
    /\ sRead < Len(requests)
    /\ sPart' = "held"
    /\ UNCHANGED <<sRead, server, responses, clientVars, shutdown, gone>>

\* The rest of a line whose first part was lost is no request.
Parses == requests[sRead + 1] = "ok" /\ sPart = "held"

\* Begins to write the response to the line that was read as number n.
Respond(n, kind) ==
    /\ responses' = Append(responses, [to |-> n, kind |-> kind])
    /\ server' = "writing"

\* read_message: the line is complete.  A request is handled, a line that does
\* not parse gets an error response, one that is too long ends the connection.
ReadLine ==
    /\ server = "reading"
    /\ sPart # "unread"
    /\ sRead' = sRead + 1
    /\ sPart' = "unread"
    /\ \/ /\ Parses
          /\ server' = "handling"
          /\ UNCHANGED responses
       \/ /\ ~ Parses
          /\ requests[sRead + 1] = "huge" => sPart = "lost"
          /\ Respond(sRead + 1, "malformed")
       \/ /\ requests[sRead + 1] = "huge"
          /\ server' = "closed"
          /\ UNCHANGED responses
    /\ UNCHANGED <<clientVars, shutdown, gone>>

\* handler.handle; its response, or its error as one, is written.
Handle ==
    /\ server = "handling"
    /\ \E kind \in {"answer", "hugeAnswer"} : Respond(sRead, kind)
    /\ UNCHANGED <<sRead, sPart, clientVars, shutdown, gone>>

\* write_message returns: the rest of the line is in the socket.
Wrote ==
    /\ server = "writing"
    /\ client # "closed"
    /\ server' = "reading"
    /\ UNCHANGED <<sRead, sPart, responses, clientVars, shutdown, gone>>

\* write_message fails: the client has gone.
WriteFails ==
    /\ server = "writing"
    /\ client = "closed"
    /\ server' = "cut"
    /\ UNCHANGED <<sRead, sPart, responses, clientVars, shutdown, gone>>

\* read_message returns None: the client has gone.
ReadEof ==
    /\ server = "reading"
    /\ client = "closed"
    /\ sRead = Len(requests)
    /\ server' = "closed"
    /\ UNCHANGED <<sRead, sPart, responses, clientVars, shutdown, gone>>

\* Mutant of SeeShutdown: the flag is read, and the loop goes on.
SeeShutdownContinues ==
    /\ server = "reading"
    /\ shutdown
    /\ UNCHANGED vars

\* select!: changed() is ready and the value is true.
SeeShutdown ==
    /\ server = "reading"
    /\ shutdown
    /\ server' = "closed"
    /\ UNCHANGED <<sRead, sPart, responses, clientVars, shutdown, gone>>

\* Mutant of SeeNoSender: any wake-up of the select! may restart the read.
SeeAnyWakeup ==
    /\ server = "reading"
    /\ sPart = "held"
    /\ sPart' = Cancelled(sPart)
    /\ UNCHANGED <<sRead, server, responses, clientVars, shutdown, gone>>

\* select!: changed() fails as the sender was dropped; the value is false, the
\* loop continues, and the read_line under way is cancelled.
SeeNoSender ==
    /\ server = "reading"
    /\ gone
    /\ sPart = "held"
    /\ sPart' = Cancelled(sPart)
    /\ UNCHANGED <<sRead, server, responses, clientVars, shutdown, gone>>

-----------------------------------------------------------------------------
(* The rest of the daemon.                                                 *)

Shutdown ==
    /\ ~ shutdown /\ ~ gone
    /\ shutdown' = TRUE
    /\ UNCHANGED <<serverVars, clientVars, gone>>

\* run returns the error of accept, and the IpcServer is dropped.
AcceptFails ==
    /\ ~ shutdown /\ ~ gone
    /\ gone' = TRUE
    /\ UNCHANGED <<serverVars, clientVars, shutdown>>

\* The daemon is killed.
Kill ==
    /\ ~ Ended
    /\ server' = IF server = "writing" THEN "cut" ELSE "closed"
    /\ UNCHANGED <<sRead, sPart, responses, clientVars, shutdown, gone>>

-----------------------------------------------------------------------------
(* The client: request.                                                    *)

\* write_message; with the server gone it fails and nothing is sent.
Send(kind) ==
    /\ client = "idle"
    /\ ~ Ended
    /\ Len(requests) < MaxRequests
    /\ requests' = Append(requests, kind)
    /\ client' = "waiting"
    /\ UNCHANGED <<serverVars, cRead, cPart, history, shutdown, gone>>

\* read_message: the first part of a line arrives.
ReceivePart ==
    /\ client = "waiting"
    /\ cPart = "unread"
    /\ cRead < Len(responses)
    /\ cPart' = "held"
    /\ UNCHANGED <<serverVars, requests, cRead, client, history, shutdown, gone>>

\* Whether the line that is read next is the one that the server has not
\* finished, or never will.
InWrite == cRead + 1 = Len(responses) /\ server = "writing"
CutOff == cRead + 1 = Len(responses) /\ server = "cut"

\* The line is read, whatever comes of it.
Received ==
    /\ client' = "idle"
    /\ cRead' = cRead + 1
    /\ cPart' = "unread"
    /\ UNCHANGED <<serverVars, requests, timeouts, shutdown, gone>>

\* Mutant of Receive: the line stays in the buffer for the next read.
ReceiveAndKeep ==
    /\ client = "waiting"
    /\ cPart = "held"
    /\ ~ InWrite /\ ~ CutOff
    /\ answers' = Append(answers, [request |-> Len(requests), response |-> responses[cRead + 1].to])
    /\ client' = "idle"
    /\ UNCHANGED <<serverVars, requests, cRead, cPart, timeouts, shutdown, gone>>

\* read_message: a whole line, which is returned as the response.
Receive ==
    /\ client = "waiting"
    /\ cPart = "held"
    /\ ~ InWrite /\ ~ CutOff
    /\ responses[cRead + 1].kind # "hugeAnswer"
    /\ answers' = Append(answers, [request |-> Len(requests), response |-> responses[cRead + 1].to])
    /\ Received

\* Mutant of ReceiveBroken: what has arrived so far is taken for the line.
ReceivePartial ==
    /\ client = "waiting"
    /\ \/ /\ cPart = "held"
          /\ client' = "idle"
          /\ cPart' = "lost"
          /\ UNCHANGED <<serverVars, requests, cRead, history, shutdown, gone>>
       \/ /\ cPart = "lost"
          /\ ~ InWrite
          /\ UNCHANGED answers
          /\ Received

\* read_message: a line that is too long, whose first part was lost, or that
\* ends with the connection: IpcError::Protocol.
ReceiveBroken ==
    /\ client = "waiting"
    /\ cPart # "unread"
    /\ ~ InWrite
    /\ \/ cPart = "lost" /\ ~ CutOff
       \/ cPart = "held" /\ (CutOff \/ responses[cRead + 1].kind = "hugeAnswer")
    /\ UNCHANGED answers
    /\ Received

\* read_message returns None: DaemonUnresponsive.
ReceiveEof ==
    /\ client = "waiting"
    /\ Ended
    /\ \/ cRead = Len(responses)
       \/ cPart = "lost" /\ CutOff
    /\ client' = "idle"
    /\ UNCHANGED <<serverVars, requests, cRead, cPart, history, shutdown, gone>>

\* RESPONSE_TIMEOUT: DaemonUnresponsive, and read_message is dropped.
Timeout ==
    /\ client = "waiting"
    /\ client' = "idle"
    /\ cPart' = Cancelled(cPart)
    /\ timeouts' = timeouts + 1
    /\ UNCHANGED <<serverVars, requests, cRead, answers, shutdown, gone>>

\* The client is dropped, between requests or within one.
Close ==
    /\ client # "closed"
    /\ client' = "closed"
    /\ UNCHANGED <<serverVars, requests, cRead, cPart, history, shutdown, gone>>

-----------------------------------------------------------------------------
ServerStep ==
    \/ ReadPart \/ ReadLine \/ Handle \/ Wrote \/ WriteFails \/ ReadEof

Next ==
    \/ ServerStep \/ SeeShutdown \/ SeeNoSender
    \/ Shutdown \/ AcceptFails \/ Kill
    \/ \E kind \in RequestKind : Send(kind)
    \/ ReceivePart \/ Receive \/ ReceiveBroken \/ ReceiveEof \/ Timeout \/ Close

Spec == Init /\ [][Next]_vars

\* The runtime polls the task while it can run, the handler returns, and the
\* branches of select! are polled in random order, so that a ready changed() is
\* not passed over for ever.
FairSpec == Spec /\ WF_vars(ServerStep) /\ SF_vars(SeeShutdown)

-----------------------------------------------------------------------------
(* Properties.                                                             *)

\* A response that request returns is that of the request itself or of an
\* earlier one, which then lies back no further than there were timeouts.
\* Without timeouts it is the request's own ("Send a request and wait for a
\* single response"), whatever lines were malformed, too long or cut off.
LagNeedsTimeouts ==
    \A i \in 1..Len(answers) :
        /\ answers[i].response <= answers[i].request
        /\ answers[i].request <= answers[i].response + timeouts

\* No response is returned twice, and none after a later one.
EachOnce ==
    \A i, j \in 1..Len(answers) : i < j => answers[i].response < answers[j].response

\* As long as the IpcServer lives, a request that parses reaches the handler: no
\* part of it is lost between the branches of handle_connection's select!.
RequestsHandled ==
    ~ gone =>
        \A i \in 1..Len(responses) :
            requests[responses[i].to] = "ok" => responses[i].kind # "malformed"

\* A connection ends after shutdown, whatever it is doing and however many
\* requests are waiting.
ShutdownEnds == shutdown ~> Ended

-----------------------------------------------------------------------------
(***************************************************************************)
(* The inductive invariant (proved in Ipc_proofs).                         *)
(***************************************************************************)

\* Every line the server has read has its response, in the same order.
ServerInv ==
    /\ TypeOK
    /\ sRead <= Len(requests)
    /\ sPart # "unread" => sRead < Len(requests)
    /\ server = "handling" => sPart = "unread" /\ Len(responses) + 1 = sRead
    /\ server \in {"reading", "writing"} => Len(responses) = sRead
    /\ Len(responses) <= sRead
    /\ server \in {"writing", "cut"} => Len(responses) > 0
    /\ \A i \in 1..Len(responses) : responses[i].to = i

\* The responses the client has not read are those of the requests it gave up
\* on, and of the one it waits for; after the end of the connection no more come.
ClientInv ==
    /\ cRead <= Len(responses)
    /\ cPart # "unread" => cRead < Len(responses)
    /\ LET pending == Len(requests) - cRead
       IN  \/ client = "idle" /\ pending <= timeouts
           \/ client = "waiting" /\ pending <= timeouts + 1
           \/ client = "closed"
           \/ Ended /\ (cRead = Len(responses) \/ (cPart = "lost" /\ CutOff))
    /\ \A i \in 1..Len(answers) : answers[i].response <= cRead
    /\ LagNeedsTimeouts
    /\ EachOnce

ConnectionInv == ServerInv /\ ClientInv

\* While the server lives nothing of a line is lost.
HandledInv ==
    ~ gone => /\ sPart # "lost"
              /\ server = "handling" => requests[sRead] = "ok"
              /\ RequestsHandled
=============================================================================
