----------------------------- MODULE Ipc_proofs -----------------------------
(***************************************************************************)
(* Proofs about cloudsync-ipc.                                             *)
(*                                                                         *)
(* The connection (IpcConnection).  ServerInv: one response per line, in   *)
(* the order of the lines.  ClientInv: the responses the client has not    *)
(* read are no more than its timeouts, and the one it waits for.           *)
(*                                                                         *)
(* The socket (IpcSocket).  SocketInv holds for any daemons; RaceInv adds  *)
(* why racing starts never all fail, SerialInv why starts that do not      *)
(* overlap leave every server reachable.                                   *)
(***************************************************************************)
EXTENDS IpcConnection, IpcSocket, SequenceTheorems, TLAPS

USE ConstantsAssumption

\* The initial states satisfy the invariants.
LEMMA InitInv == Init => ConnectionInv /\ HandledInv
<1> SUFFICES ASSUME Init PROVE ConnectionInv /\ HandledInv
  OBVIOUS
<1>1. TypeOK
  <2>1. shutdown \in BOOLEAN /\ gone \in BOOLEAN
    BY Zenon DEF Init
  <2>2. requests \in Seq(RequestKind) /\ responses \in Seq(Response)
        /\ answers \in Seq([request : Nat, response : Nat])
    BY DEF Init
  <2> QED BY <2>1, <2>2 DEF Init, TypeOK, Part
<1>2. Len(requests) = 0 /\ Len(responses) = 0 /\ Len(answers) = 0
  BY DEF Init
<1> QED BY <1>1, <1>2 DEF Init, ConnectionInv, ServerInv, ClientInv, HandledInv, LagNeedsTimeouts,
                         EachOnce, RequestsHandled

\* What the history of answers holds are numbers.
LEMMA AnswersType ==
    ASSUME TypeOK
    PROVE  \A i \in 1..Len(answers) : answers[i].request \in Nat /\ answers[i].response \in Nat
<1>1. \A i \in 1..Len(answers) : answers[i] \in [request : Nat, response : Nat]
  BY ElementOfSeq DEF TypeOK
<1> QED BY <1>1

\* The response that begins to be written is the next line's, and a response.
LEMMA RespondInv ==
    ASSUME responses \in Seq(Response), \A i \in 1..Len(responses) : responses[i].to = i,
           NEW n \in Nat, n = Len(responses) + 1, NEW kind \in ResponseKind, Respond(n, kind)
    PROVE  /\ responses' \in Seq(Response)
           /\ Len(responses') = n
           /\ \A i \in 1..Len(responses) : responses'[i] = responses[i]
           /\ responses'[n] = [to |-> n, kind |-> kind]
           /\ \A i \in 1..Len(responses') : responses'[i].to = i
           /\ server' = "writing"
<1> DEFINE r == [to |-> n, kind |-> kind]
<1>1. r \in Response
  BY DEF Response
<1>2. r.to = n
  OBVIOUS
<1>3. responses' = Append(responses, r) /\ server' = "writing"
  BY DEF Respond
<1> HIDE DEF r
<1>4. /\ responses' \in Seq(Response)
      /\ Len(responses') = n
      /\ \A i \in 1..Len(responses) : responses'[i] = responses[i]
      /\ responses'[n] = r
  BY <1>1, <1>3, AppendProperties
<1>5. ASSUME NEW i \in 1..Len(responses') PROVE responses'[i].to = i
  <2>1. CASE i = n
    BY <2>1, <1>2, <1>4
  <2>2. CASE i # n
    <3>1. i \in 1..Len(responses)
      BY <2>2, <1>4, <1>5
    <3> QED BY <3>1, <1>4
  <2> QED BY <2>1, <2>2
<1> QED BY <1>3, <1>4, <1>5 DEF r

\* An answer is added to those there are.
LEMMA ReceiveType ==
    ASSUME TypeOK, Receive, cRead < Len(responses)
    PROVE  /\ answers' \in Seq([request : Nat, response : Nat])
           /\ Len(answers') = Len(answers) + 1
           /\ \A i \in 1..Len(answers) : answers'[i] = answers[i]
           /\ answers'[Len(answers) + 1] =
                [request |-> Len(requests), response |-> responses[cRead + 1].to]
<1>1. responses[cRead + 1] \in Response
  BY ElementOfSeq DEF TypeOK
<1>2. responses[cRead + 1].to \in Nat
  BY <1>1 DEF Response
<1>3. [request |-> Len(requests), response |-> responses[cRead + 1].to]
        \in [request : Nat, response : Nat]
  BY <1>2 DEF TypeOK
<1> QED BY <1>3 DEF Receive, TypeOK

\* The server's half is inductive.
LEMMA ServerStepInv ==
    ASSUME ConnectionInv, [Next]_vars
    PROVE  ServerInv'
<1>0. ServerInv /\ TypeOK
  BY DEF ConnectionInv, ServerInv
<1> USE <1>0 DEF TypeOK, ServerInv, serverVars, clientVars, history, Part
<1>a. Len(requests) \in Nat /\ Len(responses) \in Nat
  OBVIOUS
<1>1. CASE ReadPart
  BY <1>1 DEF ReadPart
<1>2. CASE ReadLine
  <2>1. CASE Parses /\ server' = "handling" /\ UNCHANGED responses
    BY <1>2, <2>1 DEF ReadLine
  <2>2. CASE Respond(sRead + 1, "malformed")
    <3>1. Len(responses) = sRead /\ sRead < Len(requests)
      BY <1>2 DEF ReadLine
    <3>2. /\ responses' \in Seq(Response)
          /\ Len(responses') = sRead + 1
          /\ \A i \in 1..Len(responses') : responses'[i].to = i
          /\ server' = "writing"
      <4> HIDE DEF TypeOK, ServerInv
      <4>1. responses \in Seq(Response) /\ (\A i \in 1..Len(responses) : responses[i].to = i)
            /\ sRead \in Nat
        BY DEF ServerInv, TypeOK
      <4>2. PICK n \in Nat : n = sRead + 1 /\ Respond(n, "malformed")
        BY <2>2, <4>1
      <4> QED BY <3>1, <4>1, <4>2, RespondInv DEF ResponseKind
    <3>3. /\ sRead' = sRead + 1 /\ sPart' = "unread"
          /\ UNCHANGED <<requests, cRead, cPart, client, answers, timeouts, shutdown, gone>>
      BY <1>2 DEF ReadLine
    <3> QED BY <3>1, <3>2, <3>3
  <2>3. CASE server' = "closed" /\ UNCHANGED responses
    BY <1>2, <2>3 DEF ReadLine
  <2> QED BY <1>2, <2>1, <2>2, <2>3 DEF ReadLine
<1>3. CASE Handle
  <2> PICK kind \in {"answer", "hugeAnswer"} : Respond(sRead, kind)
    BY <1>3 DEF Handle
  <2>1. Len(responses) + 1 = sRead
    BY <1>3 DEF Handle
  <2>2. /\ responses' \in Seq(Response)
        /\ Len(responses') = sRead
        /\ \A i \in 1..Len(responses') : responses'[i].to = i
        /\ server' = "writing"
    <3> HIDE DEF TypeOK, ServerInv
    <3>1. responses \in Seq(Response) /\ (\A i \in 1..Len(responses) : responses[i].to = i)
          /\ sRead \in Nat
      BY DEF ServerInv, TypeOK
    <3> QED BY <2>1, <3>1, RespondInv DEF ResponseKind
  <2>3. UNCHANGED <<requests, sRead, sPart, cRead, cPart, client, answers, timeouts, shutdown, gone>>
    BY <1>3 DEF Handle
  <2>4. TypeOK'
    BY <2>2, <2>3
  <2>5. sRead' <= Len(requests') /\ sPart' = "unread" /\ Len(responses') = sRead' /\ sRead' > 0
    BY <1>3, <2>1, <2>2, <2>3 DEF Handle
  <2> QED BY <2>2, <2>4, <2>5
<1>4. CASE Wrote \/ WriteFails \/ ReadEof \/ SeeShutdown
  BY <1>4 DEF Wrote, WriteFails, ReadEof, SeeShutdown
<1>5. CASE SeeNoSender
  BY <1>5 DEF SeeNoSender, Cancelled
<1>6. CASE Shutdown
  BY <1>6 DEF Shutdown
<1>7. CASE AcceptFails
  BY <1>7 DEF AcceptFails
<1>8. CASE Kill
  BY <1>8 DEF Kill, Ended
<1>9. ASSUME NEW kind \in RequestKind, Send(kind) PROVE ServerInv'
  BY <1>9 DEF Send
<1>10. CASE ReceivePart
  BY <1>10 DEF ReceivePart
<1>11. CASE Receive
  <2>1. cRead < Len(responses)
    BY <1>11 DEF ConnectionInv, ClientInv, Receive
  <2>2. answers' \in Seq([request : Nat, response : Nat])
    BY <1>11, <2>1, ReceiveType
  <2> QED BY <1>11, <2>2 DEF Receive, Received
<1>12. CASE ReceiveBroken
  BY <1>12 DEF ReceiveBroken, Received
<1>13. CASE ReceiveEof \/ Close
  BY <1>13 DEF ReceiveEof, Close
<1>14. CASE Timeout
  <2>1. cPart' \in Part /\ timeouts' \in Nat
    BY <1>14 DEF Timeout, Cancelled
  <2> QED BY <1>14, <2>1 DEF Timeout
<1>15. CASE UNCHANGED vars
  BY <1>15 DEF vars
<1> QED
  BY <1>1, <1>2, <1>3, <1>4, <1>5, <1>6, <1>7, <1>8, <1>9, <1>10, <1>11, <1>12, <1>13, <1>14,
     <1>15 DEF Next, ServerStep

\* The client's half is inductive.
LEMMA ClientStepInv ==
    ASSUME ConnectionInv, [Next]_vars
    PROVE  ClientInv'
<1>0. ServerInv /\ ClientInv /\ TypeOK /\ TypeOK'
  BY ServerStepInv DEF ConnectionInv, ServerInv
<1> USE <1>0 DEF TypeOK, serverVars, clientVars, history, Ended
<1>a. /\ Len(requests) \in Nat /\ Len(responses) \in Nat /\ Len(answers) \in Nat
      /\ Len(requests') \in Nat /\ Len(responses') \in Nat /\ Len(answers') \in Nat
  OBVIOUS
<1>b. \A i \in 1..Len(answers) : answers[i].request \in Nat /\ answers[i].response \in Nat
  BY AnswersType
<1>1. ASSUME UNCHANGED <<requests, cRead, cPart, client, answers, timeouts>>,
             Len(responses') >= Len(responses), Ended => UNCHANGED <<server, responses>>
      PROVE  ClientInv'
  BY <1>1, <1>a DEF ClientInv, LagNeedsTimeouts, EachOnce, CutOff
<1>2. CASE ReadPart \/ Wrote \/ WriteFails \/ ReadEof \/ SeeShutdown \/ SeeNoSender \/ Kill
            \/ Shutdown \/ AcceptFails
  BY <1>1, <1>2, <1>a DEF ReadPart, Wrote, WriteFails, ReadEof, SeeShutdown, SeeNoSender, Kill,
                          Shutdown, AcceptFails
<1>3. CASE ReadLine
  <2>1. Len(responses') >= Len(responses)
    <3>1. CASE UNCHANGED responses
      BY <3>1, <1>a
    <3>2. CASE Respond(sRead + 1, "malformed")
      <4>1. [to |-> sRead + 1, kind |-> "malformed"] \in Response
        BY DEF Response, ResponseKind
      <4> QED BY <3>2, <4>1 DEF Respond
    <3> QED BY <1>3, <3>1, <3>2 DEF ReadLine
  <2> QED BY <1>1, <1>3, <2>1 DEF ReadLine
<1>4. CASE Handle
  <2>1. Len(responses') >= Len(responses)
    <3> PICK kind \in {"answer", "hugeAnswer"} : Respond(sRead, kind)
      BY <1>4 DEF Handle
    <3> QED BY <1>4, <1>a, RespondInv DEF ResponseKind, Handle, ServerInv
  <2> QED BY <1>1, <1>4, <2>1 DEF Handle
<1>5. ASSUME NEW kind \in RequestKind, Send(kind) PROVE ClientInv'
  <2>1. Len(requests') = Len(requests) + 1
    BY <1>5 DEF Send
  <2> QED BY <1>5, <2>1 DEF Send, ClientInv, LagNeedsTimeouts, EachOnce
<1>6. CASE ReceivePart
  BY <1>6 DEF ReceivePart, ClientInv, LagNeedsTimeouts, EachOnce
<1>7. CASE Receive
  <2>1. cRead < Len(responses)
    BY <1>7 DEF ClientInv, Receive
  <2>2. responses[cRead + 1].to = cRead + 1
    BY <2>1 DEF ServerInv
  <2>3. /\ Len(answers') = Len(answers) + 1
        /\ \A i \in 1..Len(answers) : answers'[i] = answers[i]
        /\ answers'[Len(answers) + 1].request = Len(requests)
        /\ answers'[Len(answers) + 1].response = cRead + 1
    BY <1>7, <2>1, <2>2, ReceiveType
  <2>4. cRead' = cRead + 1 /\ cPart' = "unread" /\ client' = "idle"
        /\ UNCHANGED <<requests, responses, server, timeouts>>
    BY <1>7 DEF Receive, Received
  <2>5. Len(requests) <= cRead + 1 + timeouts
    BY <1>7, <2>1, <1>a DEF Receive, ClientInv, CutOff
  <2>6. cRead + 1 <= Len(requests)
    BY <2>1, <1>a DEF ServerInv
  <2>a. timeouts \in Nat /\ cRead \in Nat /\ LagNeedsTimeouts /\ EachOnce
        /\ \A i \in 1..Len(answers) : answers[i].response <= cRead
    BY DEF ClientInv
  <2> HIDE <1>0 DEF TypeOK
  <2>b. ASSUME NEW i \in 1..Len(answers'), i # Len(answers) + 1
        PROVE  i \in 1..Len(answers) /\ answers'[i] = answers[i]
    BY <2>b, <2>3, <1>a
  <2>7. LagNeedsTimeouts'
    <3> SUFFICES ASSUME NEW i \in 1..Len(answers')
                 PROVE  /\ answers'[i].response <= answers'[i].request
                        /\ answers'[i].request <= answers'[i].response + timeouts'
      BY DEF LagNeedsTimeouts
    <3>1. CASE i = Len(answers) + 1
      BY <3>1, <2>3, <2>4, <2>5, <2>6, <2>a, <1>a
    <3>2. CASE i # Len(answers) + 1
      BY <3>2, <2>4, <2>a, <2>b DEF LagNeedsTimeouts
    <3> QED BY <3>1, <3>2
  <2>8. EachOnce' /\ \A i \in 1..Len(answers') : answers'[i].response <= cRead'
    <3>1. ASSUME NEW i \in 1..Len(answers') PROVE answers'[i].response <= cRead'
      <4>1. CASE i = Len(answers) + 1
        BY <4>1, <2>3, <2>4, <2>a
      <4>2. CASE i # Len(answers) + 1
        BY <4>2, <2>4, <2>a, <2>b, <1>b
      <4> QED BY <4>1, <4>2
    <3>2. ASSUME NEW i \in 1..Len(answers'), NEW j \in 1..Len(answers'), i < j
          PROVE  answers'[i].response < answers'[j].response
      <4>1. i # Len(answers) + 1
        BY <3>2, <2>3, <1>a
      <4>2. CASE j = Len(answers) + 1
        BY <4>1, <4>2, <2>3, <2>a, <2>b, <1>b
      <4>3. CASE j # Len(answers) + 1
        BY <4>1, <4>3, <3>2, <2>a, <2>b DEF EachOnce
      <4> QED BY <4>2, <4>3
    <3> QED BY <3>1, <3>2 DEF EachOnce
  <2> USE <1>0 DEF TypeOK
  <2> QED BY <2>1, <2>4, <2>5, <2>7, <2>8, <1>a DEF ClientInv
<1>8. CASE ReceiveBroken
  <2>1. cRead < Len(responses)
    BY <1>8 DEF ClientInv, ReceiveBroken
  <2>2. Len(requests) <= cRead + 1 + timeouts
    BY <1>8, <2>1, <1>a DEF ReceiveBroken, ClientInv, CutOff
  <2>3. /\ cRead' = cRead + 1 /\ cPart' = "unread" /\ client' = "idle"
        /\ UNCHANGED <<requests, responses, server, timeouts, answers>>
    BY <1>8 DEF ReceiveBroken, Received
  <2> QED BY <2>1, <2>2, <2>3, <1>a, <1>b DEF ClientInv, LagNeedsTimeouts, EachOnce
<1>9. CASE ReceiveEof
  BY <1>9 DEF ReceiveEof, ClientInv, LagNeedsTimeouts, EachOnce, CutOff
<1>10. CASE Timeout
  <2>1. answers' = answers /\ cRead' = cRead /\ timeouts' = timeouts + 1
    BY <1>10 DEF Timeout
  <2>2. LagNeedsTimeouts'
    <3> SUFFICES ASSUME NEW i \in 1..Len(answers)
                 PROVE  /\ answers[i].response <= answers[i].request
                        /\ answers[i].request <= answers[i].response + (timeouts + 1)
      BY <2>1 DEF LagNeedsTimeouts
    <3>1. timeouts \in Nat /\ LagNeedsTimeouts
      BY DEF ClientInv
    <3> HIDE <1>0 DEF TypeOK
    <3>2. /\ answers[i].response <= answers[i].request
          /\ answers[i].request <= answers[i].response + timeouts
          /\ answers[i].request \in Nat /\ answers[i].response \in Nat
      BY <3>1, <1>b DEF LagNeedsTimeouts
    <3> QED BY <3>1, <3>2
  <2> QED BY <1>10, <2>2 DEF Timeout, Cancelled, ClientInv, EachOnce, CutOff
<1>11. CASE Close
  BY <1>11 DEF Close, ClientInv, LagNeedsTimeouts, EachOnce
<1>12. CASE UNCHANGED vars
  BY <1>1, <1>12 DEF vars
<1> QED
  BY <1>2, <1>3, <1>4, <1>5, <1>6, <1>7, <1>8, <1>9, <1>10, <1>11, <1>12 DEF Next, ServerStep

\* HandledInv is inductive: once the server has gone it says nothing more.
LEMMA HandledStep ==
    ASSUME ServerInv, HandledInv, [Next]_vars
    PROVE  HandledInv'
<1> SUFFICES ASSUME ~ gone' PROVE HandledInv'
  BY DEF HandledInv
<1>00. ~ gone
  BY DEF Next, ServerStep, ReadPart, ReadLine, Handle, Wrote, WriteFails, ReadEof, SeeShutdown,
         SeeNoSender, Shutdown, AcceptFails, Kill, Send, ReceivePart, Receive, ReceiveBroken,
         Received, ReceiveEof, Timeout, Close, vars
<1> USE <1>00
<1>0. /\ TypeOK /\ responses \in Seq(Response)
      /\ Len(requests) \in Nat /\ Len(responses) \in Nat
      /\ Len(responses) <= sRead /\ sRead <= Len(requests)
      /\ \A i \in 1..Len(responses) : responses[i].to = i
  BY DEF ServerInv, TypeOK
<1> USE DEF serverVars, clientVars, history
<1>1. ASSUME UNCHANGED <<requests, responses>>, gone' = gone, sPart' # "lost",
             server' = "handling" => requests[sRead'] = "ok"
      PROVE  HandledInv'
  BY <1>1 DEF HandledInv, RequestsHandled
<1>2. CASE ReadPart
  BY <1>1, <1>2 DEF ReadPart, HandledInv
<1>3. CASE ReadLine
  <2>1. CASE Parses /\ server' = "handling" /\ UNCHANGED responses
    BY <1>1, <1>3, <2>1 DEF ReadLine, HandledInv, Parses
  <2>2. CASE ~ Parses /\ Respond(sRead + 1, "malformed")
    <3>1. requests[sRead + 1] # "ok" /\ Len(responses) = sRead /\ sRead \in Nat
      BY <1>3, <2>2 DEF ReadLine, Parses, HandledInv, ServerInv, TypeOK, Part
    <3>2. PICK n \in Nat : n = sRead + 1 /\ Respond(n, "malformed")
      BY <2>2, <3>1
    <3>3. /\ Len(responses') = n
          /\ \A i \in 1..Len(responses) : responses'[i] = responses[i]
          /\ responses'[n].to = n
      <4>1. /\ Len(responses') = n
            /\ \A i \in 1..Len(responses) : responses'[i] = responses[i]
            /\ responses'[n] = [to |-> n, kind |-> "malformed"]
        BY <1>0, <3>1, <3>2, RespondInv DEF ResponseKind
      <4> QED BY <4>1
    <3>4. ASSUME NEW i \in 1..Len(responses'), requests'[responses'[i].to] = "ok"
          PROVE  responses'[i].kind # "malformed"
      <4>1. i # n /\ i \in 1..Len(responses)
        BY <1>3, <3>1, <3>2, <3>3, <3>4 DEF ReadLine
      <4> QED BY <1>3, <3>3, <3>4, <4>1 DEF ReadLine, HandledInv, RequestsHandled
    <3> QED BY <1>3, <2>2, <3>4 DEF ReadLine, Respond, HandledInv, RequestsHandled
  <2>3. CASE server' = "closed" /\ UNCHANGED responses
    BY <1>1, <1>3, <2>3 DEF ReadLine, HandledInv
  <2> QED BY <1>3, <2>1, <2>2, <2>3 DEF ReadLine
<1>4. CASE Handle
  <2>1. PICK kind \in {"answer", "hugeAnswer"} : Respond(sRead, kind)
    BY <1>4 DEF Handle
  <2>2. Len(responses) + 1 = sRead /\ sRead \in Nat
    BY <1>4 DEF Handle, ServerInv, TypeOK
  <2>3. /\ Len(responses') = sRead
        /\ \A i \in 1..Len(responses) : responses'[i] = responses[i]
        /\ responses'[sRead].kind = kind
    <3>1. /\ Len(responses') = sRead
          /\ \A i \in 1..Len(responses) : responses'[i] = responses[i]
          /\ responses'[sRead] = [to |-> sRead, kind |-> kind]
      BY <1>0, <2>1, <2>2, RespondInv DEF ResponseKind
    <3> QED BY <3>1
  <2>4. ASSUME NEW i \in 1..Len(responses'), requests[responses'[i].to] = "ok"
        PROVE  responses'[i].kind # "malformed"
    <3>1. CASE i = sRead
      BY <3>1, <2>3
    <3>2. CASE i # sRead
      <4>1. i \in 1..Len(responses)
        BY <3>2, <2>2, <2>3
      <4> QED BY <2>3, <2>4, <4>1 DEF HandledInv, RequestsHandled
    <3> QED BY <3>1, <3>2
  <2> QED BY <1>4, <2>1, <2>4 DEF Handle, Respond, HandledInv, RequestsHandled
<1>5. CASE Wrote \/ WriteFails \/ ReadEof \/ SeeShutdown \/ Kill
  BY <1>1, <1>5 DEF Wrote, WriteFails, ReadEof, SeeShutdown, Kill, HandledInv
<1>6. CASE SeeNoSender \/ AcceptFails
  BY <1>6 DEF SeeNoSender, AcceptFails, HandledInv
<1>7. ASSUME NEW kind \in RequestKind, Send(kind) PROVE HandledInv'
  <2>1. \A i \in 1..Len(requests) : requests'[i] = requests[i]
    BY <1>7, <1>0 DEF Send, TypeOK
  <2>2. \A i \in 1..Len(responses) : responses[i].to \in 1..Len(requests)
    BY <1>0 DEF TypeOK
  <2>3. RequestsHandled'
    BY <1>7, <2>1, <2>2 DEF Send, HandledInv, RequestsHandled
  <2>4. server = "handling" => sRead \in 1..Len(requests)
    BY <1>0 DEF ServerInv, TypeOK
  <2> QED BY <1>7, <2>1, <2>3, <2>4 DEF Send, HandledInv
<1>8. CASE ReceivePart \/ Receive \/ ReceiveBroken \/ ReceiveEof \/ Timeout \/ Close \/ Shutdown
  BY <1>1, <1>8 DEF ReceivePart, Receive, ReceiveBroken, ReceiveEof, Timeout, Close, Shutdown,
                    Received, HandledInv
<1>9. CASE UNCHANGED vars
  BY <1>1, <1>9 DEF vars, HandledInv
<1> QED
  BY <1>2, <1>3, <1>4, <1>5, <1>6, <1>7, <1>8, <1>9 DEF Next, ServerStep

-----------------------------------------------------------------------------

\* The connection's invariant holds in every state.
LEMMA Invariance == Spec => []ConnectionInv
<1>1. Init => ConnectionInv
  BY InitInv
<1>2. ConnectionInv /\ [Next]_vars => ConnectionInv'
  BY ServerStepInv, ClientStepInv DEF ConnectionInv
<1> QED BY <1>1, <1>2, PTL DEF Spec

\* The variables keep their types, for any number of requests.
THEOREM TypeCorrect == Spec => []TypeOK
<1>1. ConnectionInv => TypeOK
  BY DEF ConnectionInv, ServerInv
<1> QED BY <1>1, Invariance, PTL

\* A response that request returns lies back no further than there were
\* timeouts; without timeouts it is the request's own.
THEOREM LagSafety == Spec => []LagNeedsTimeouts
<1>1. ConnectionInv => LagNeedsTimeouts
  BY DEF ConnectionInv, ClientInv
<1> QED BY <1>1, Invariance, PTL

\* No response is returned twice, and none after a later one.
THEOREM OnceSafety == Spec => []EachOnce
<1>1. ConnectionInv => EachOnce
  BY DEF ConnectionInv, ClientInv
<1> QED BY <1>1, Invariance, PTL

\* Until accept fails, every request that parses reaches the handler.
THEOREM HandledSafety == Spec => []RequestsHandled
<1>1. Init => HandledInv
  BY InitInv
<1>2. ConnectionInv /\ HandledInv /\ [Next]_vars => HandledInv'
  BY HandledStep DEF ConnectionInv
<1>3. HandledInv => RequestsHandled
  BY DEF HandledInv, RequestsHandled
<1> QED BY <1>1, <1>2, <1>3, Invariance, PTL DEF Spec

-----------------------------------------------------------------------------
(* The socket.                                                             *)

USE SocketAssumption DEF Binding, Up

\* The initial states satisfy the invariants.
LEMMA SocketInitInv == ASSUME SocketInit PROVE RaceInv /\ SerialInv
<1>1. alone \in [Daemons -> BOOLEAN] /\ overlapped \in BOOLEAN
  BY Zenon DEF SocketInit
<1>2. SocketInv
  BY <1>1 DEF SocketInit, SocketInv, SocketTypeOK
<1>3. Serial
  BY DEF SocketInit, Serial, Answered, Connects
<1> QED BY <1>2, <1>3 DEF SocketInit, RaceInv, SerialInv

\* Every step keeps the types.
LEMMA SocketTypeStep == ASSUME SocketTypeOK, [SocketNext]_socketVars PROVE SocketTypeOK'
<1> USE DEF SocketTypeOK, Goto
<1>1. ASSUME NEW d \in Daemons, Start(d) PROVE SocketTypeOK'
  <2>1. alone' \in [Daemons -> BOOLEAN]
    BY <1>1, Zenon DEF Start
  <2>2. overlapped' \in BOOLEAN
    BY <1>1, Zenon DEF Start
  <2> QED BY <1>1, <2>1, <2>2 DEF Start
<1>2. ASSUME NEW d \in Daemons, Probe(d) PROVE SocketTypeOK'
  BY <1>2 DEF Probe
<1>3. ASSUME NEW d \in Daemons, Remove(d) PROVE SocketTypeOK'
  BY <1>3 DEF Remove
<1>4. ASSUME NEW d \in Daemons, Bind(d) PROVE SocketTypeOK'
  BY <1>4 DEF Bind
<1>5. ASSUME NEW d \in Daemons, Perms(d) PROVE SocketTypeOK'
  BY <1>5 DEF Perms
<1>6. ASSUME NEW d \in Daemons, RunEnds(d) \/ DropCheck(d) \/ DropUnlink(d) \/ DropClose(d)
      PROVE SocketTypeOK'
  BY <1>6 DEF RunEnds, DropCheck, DropUnlink, DropClose
<1>7. ASSUME NEW d \in Daemons, KillDaemon(d) PROVE SocketTypeOK'
  BY <1>7 DEF KillDaemon
<1>8. CASE UNCHANGED socketVars
  BY <1>8 DEF socketVars
<1> QED BY <1>1, <1>2, <1>3, <1>4, <1>5, <1>6, <1>7, <1>8 DEF SocketNext

\* Sockets keep their numbers and their owners.
LEMMA SocketInvStep == ASSUME SocketInv, [SocketNext]_socketVars PROVE SocketInv'
<1>0. SocketTypeOK /\ SocketTypeOK'
  BY SocketTypeStep DEF SocketInv
<1> USE <1>0 DEF SocketInv, SocketTypeOK, Goto
<1>1. ASSUME NEW d \in Daemons, Start(d) PROVE SocketInv'
  BY <1>1 DEF Start
<1>2. ASSUME NEW d \in Daemons, Probe(d) PROVE SocketInv'
  BY <1>2 DEF Probe
<1>3. ASSUME NEW d \in Daemons, Remove(d) PROVE SocketInv'
  BY <1>3 DEF Remove
<1>4. ASSUME NEW d \in Daemons, Bind(d) PROVE SocketInv'
  BY <1>4 DEF Bind
<1>5. ASSUME NEW d \in Daemons, Perms(d) PROVE SocketInv'
  BY <1>5 DEF Perms
<1>6. ASSUME NEW d \in Daemons, RunEnds(d) \/ DropCheck(d) PROVE SocketInv'
  BY <1>6 DEF RunEnds, DropCheck
<1>7. ASSUME NEW d \in Daemons, DropUnlink(d) PROVE SocketInv'
  BY <1>7 DEF DropUnlink
<1>8. ASSUME NEW d \in Daemons, DropClose(d) PROVE SocketInv'
  BY <1>8 DEF DropClose
<1>9. ASSUME NEW d \in Daemons, KillDaemon(d) PROVE SocketInv'
  BY <1>9 DEF KillDaemon
<1>10. CASE UNCHANGED socketVars
  BY <1>10 DEF socketVars
<1> QED BY <1>1, <1>2, <1>3, <1>4, <1>5, <1>6, <1>7, <1>8, <1>9, <1>10 DEF SocketNext

\* RaceInv is inductive.
LEMMA RaceStep == ASSUME RaceInv, [SocketNext]_socketVars PROVE RaceInv'
<1>0. SocketInv /\ SocketInv' /\ SocketTypeOK
  BY SocketInvStep DEF RaceInv, SocketInv
<1> USE <1>0 DEF RaceInv, SocketTypeOK, Goto
<1>1. ASSUME NEW d \in Daemons, Start(d) PROVE RaceInv'
  BY <1>1 DEF Start
<1>2. ASSUME NEW d \in Daemons, Probe(d) PROVE RaceInv'
  BY <1>2 DEF Probe, Answered, Connects, SocketInv
<1>3. ASSUME NEW d \in Daemons, Remove(d) PROVE RaceInv'
  BY <1>3 DEF Remove, SocketInv
<1>4. ASSUME NEW d \in Daemons, Bind(d) PROVE RaceInv'
  BY <1>4 DEF Bind, SocketInv
<1>5. ASSUME NEW d \in Daemons, Perms(d) PROVE RaceInv'
  BY <1>5 DEF Perms, SocketInv
<1>6. ASSUME NEW d \in Daemons, RunEnds(d) \/ DropCheck(d) PROVE RaceInv'
  BY <1>6 DEF RunEnds, DropCheck, SocketInv
<1>7. ASSUME NEW d \in Daemons, DropUnlink(d) PROVE RaceInv'
  BY <1>7 DEF DropUnlink, SocketInv
<1>8. ASSUME NEW d \in Daemons, DropClose(d) PROVE RaceInv'
  BY <1>8 DEF DropClose
<1>9. ASSUME NEW d \in Daemons, KillDaemon(d) PROVE RaceInv'
  BY <1>9 DEF KillDaemon
<1>10. CASE UNCHANGED socketVars
  BY <1>10 DEF socketVars
<1> QED BY <1>1, <1>2, <1>3, <1>4, <1>5, <1>6, <1>7, <1>8, <1>9, <1>10 DEF SocketNext

\* SerialInv is inductive: a step that makes calls of bind overlap says so.
LEMMA SerialStep == ASSUME SerialInv, [SocketNext]_socketVars PROVE SerialInv'
<1>0. SocketInv /\ SocketInv' /\ SocketTypeOK
  BY SocketInvStep DEF SerialInv, SocketInv
<1> SUFFICES ASSUME ~ overlapped' PROVE Serial'
  BY <1>0 DEF SerialInv
<1>00. Serial
  <2>1. ASSUME NEW d \in Daemons, Start(d) PROVE ~ overlapped
    BY <2>1, Zenon DEF Start
  <2>2. (\A d \in Daemons : ~ Start(d)) => overlapped' = overlapped
    BY DEF SocketNext, Probe, Remove, Bind, Perms, RunEnds, DropCheck, DropUnlink,
           DropClose, KillDaemon, socketVars
  <2>3. ~ overlapped
    BY <2>1, <2>2, Zenon
  <2> QED BY <2>3 DEF SerialInv
<1> USE <1>0, <1>00 DEF Serial, SocketTypeOK, Goto, Answered, Connects
<1>1. ASSUME NEW d \in Daemons, Start(d) PROVE Serial'
  <2>1. \A e \in Daemons : pc[e] \notin Binding
    BY <1>1, Zenon DEF Start
  <2> QED BY <1>1, <2>1 DEF Start, SocketInv
<1>2. ASSUME NEW d \in Daemons, Probe(d) PROVE Serial'
  BY <1>2 DEF Probe, SocketInv
<1>3. ASSUME NEW d \in Daemons, Remove(d) PROVE Serial'
  BY <1>3 DEF Remove, SocketInv
<1>4. ASSUME NEW d \in Daemons, Bind(d) PROVE Serial'
  BY <1>4 DEF Bind, SocketInv
<1>5. ASSUME NEW d \in Daemons, Perms(d) PROVE Serial'
  BY <1>5 DEF Perms, SocketInv
<1>6. ASSUME NEW d \in Daemons, RunEnds(d) \/ DropCheck(d) PROVE Serial'
  BY <1>6 DEF RunEnds, DropCheck, SocketInv
<1>7. ASSUME NEW d \in Daemons, DropUnlink(d) PROVE Serial'
  BY <1>7 DEF DropUnlink, SocketInv
<1>8. ASSUME NEW d \in Daemons, DropClose(d) PROVE Serial'
  BY <1>8 DEF DropClose, SocketInv
<1>9. ASSUME NEW d \in Daemons, KillDaemon(d) PROVE Serial'
  BY <1>9 DEF KillDaemon, SocketInv
<1>10. CASE UNCHANGED socketVars
  BY <1>10 DEF socketVars
<1> QED BY <1>1, <1>2, <1>3, <1>4, <1>5, <1>6, <1>7, <1>8, <1>9, <1>10 DEF SocketNext

-----------------------------------------------------------------------------

\* SerialInv holds in every state.
LEMMA SerialInvariance == SocketSpec => []SerialInv
<1>1. SocketInit => SerialInv
  BY SocketInitInv
<1>2. SerialInv /\ [SocketNext]_socketVars => SerialInv'
  BY SerialStep
<1> QED BY <1>1, <1>2, PTL DEF SocketSpec

\* The variables keep their types, for any daemons and bounds.
THEOREM SocketTypes == SocketSpec => []SocketTypeOK
<1>1. SocketInit => SocketTypeOK
  BY SocketInitInv DEF RaceInv, SocketInv
<1>2. SocketTypeOK /\ [SocketNext]_socketVars => SocketTypeOK'
  BY SocketTypeStep
<1> QED BY <1>1, <1>2, PTL DEF SocketSpec

\* However many daemons race in bind, with drops and kills at any of its calls,
\* they never all end up without a server.
THEOREM RaceSafety == SocketSpec => []NotAllFail
<1>1. SocketInit => RaceInv
  BY SocketInitInv
<1>2. RaceInv /\ [SocketNext]_socketVars => RaceInv'
  BY RaceStep
<1>3. RaceInv => NotAllFail
  BY DEF RaceInv, SocketInv, SocketTypeOK, NotAllFail
<1> QED BY <1>1, <1>2, <1>3, PTL DEF SocketSpec

\* As long as no two calls of bind overlap, every server that serves is the one
\* that clients reach.
THEOREM SerialSafety == SocketSpec => []Reachable
<1>1. SerialInv => Reachable
  BY DEF SerialInv, Serial, SocketInv, SocketTypeOK, Reachable, Connects
<1> QED BY <1>1, SerialInvariance, PTL

\* ... and a stale file keeps nobody from serving who starts while no other is up.
THEOREM StaleSafety == SocketSpec => []StaleNeverBlocks
<1>1. SerialInv => StaleNeverBlocks
  BY DEF SerialInv, Serial, StaleNeverBlocks
<1> QED BY <1>1, SerialInvariance, PTL
=============================================================================
