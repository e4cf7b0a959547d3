----------------------------- MODULE ServiceProofs -----------------------------
(***************************************************************************)
(* The example service acts on whole requests only and its answers are     *)
(* true, for any number of clients, any requests, any size of the buffer   *)
(* and every way the requests arrive in pieces.                            *)
(*                                                                         *)
(* AnswerIsTrue is not inductive: an answer of 200 is true only if nothing *)
(* has been deployed for its client before, so the invariant says of every *)
(* client that has not been served that nothing has (FreshInv), and that   *)
(* no client is served twice (QueueInv).  ActsOnWholeRequest rests on a    *)
(* lemma about the parser: a piece of a request that is a request itself   *)
(* has the same first line (PieceIsWhole).                                 *)
(***************************************************************************)
EXTENDS ExampleService, WellFoundedInduction, TLAPS

Serving == {"recv", "handle", "gather", "deploy", "send", "close"}

\* Steps at which nothing has been done for the client yet.
Undone == {"recv", "handle", "gather", "deploy"}

Waiting == {backlog[k] : k \in DOMAIN backlog}

\* Clients for which the service has done nothing so far.
Fresh(c) == link[c] = "none" \/ c \in Waiting \/ (c = peer /\ pc \in Undone)

QueueInv ==
    /\ pc \in {"check", "enter", "poll", "accept", "ended"} \cup Serving
    /\ link \in [Clients -> {"none", "open", "data"}]
    /\ backlog \in Seq(Clients)
    /\ \A j, k \in DOMAIN backlog : backlog[j] = backlog[k] => j = k
    /\ \A k \in DOMAIN backlog : link[backlog[k]] # "none"
    /\ pc = "accept" => backlog # <<>>
    /\ pc \in Serving => peer \in Clients /\ link[peer] # "none" /\ peer \notin Waiting

StatusInv ==
    /\ status \in [Clients -> {None, "200", "202", "400", "404", "closed"}]
    /\ \A d \in effects : d[1] \in Clients
    /\ pc = "send" => answer \in {"200", "202", "400", "404"}

FreshInv == \A c \in Clients : Fresh(c) => status[c] = None /\ \A d \in effects : d[1] # c

\* An answer is true when it is made.
AnswerInv ==
    /\ pc = "send" /\ answer = "202" => \E d \in effects : d[1] = peer
    /\ pc = "send" /\ answer = "200" => \A d \in effects : d[1] # peer

\* b is what the whole request of c asks for.
Wanted(c, b) ==
    LET r == ParseRequest(request[c])
    IN  r # Malformed /\ DeployRequest(r) /\ b = BundleOf(r.params)

RequestInv ==
    /\ request = [c \in Clients |-> request[c]]
    /\ \A c \in Clients : link[c] # "none" => request[c] \in Requests
    /\ pc = "handle" => \E n \in 1..Len(request[peer]) : raw = SubSeq(request[peer], 1, n)
    /\ pc \in {"gather", "deploy"} => Wanted(peer, bundle)
    /\ \A d \in deployed : d[1] \in Clients /\ link[d[1]] # "none" /\ Wanted(d[1], d[2])

IInv == QueueInv /\ StatusInv /\ FreshInv /\ AnswerInv /\ RequestInv /\ AnswerIsTrue
-----------------------------------------------------------------------------
\* The parser.

LEMMA Smallest ==
    ASSUME NEW S \in SUBSET Nat, S # {}
    PROVE  \E m \in S : \A k \in S : m <= k
<1>1. PICK m \in S : \A k \in S : <<k, m>> \notin OpToRel(<, Nat)
  BY WFMin, NatLessThanWellFounded, Zenon
<1>2. \A k \in S : ~(k < m)
  BY <1>1 DEF OpToRel
<1> QED
  BY <1>2

\* The line of a piece that has one is the line of the whole.
LEMMA LineOfPiece ==
    ASSUME NEW T, NEW s \in Seq(T), NEW n \in 1..Len(s), HasLine(SubSeq(s, 1, n))
    PROVE  HasLine(s) /\ LineOf(s) = LineOf(SubSeq(s, 1, n))
<1> DEFINE w == SubSeq(s, 1, n)
           Ends(k) == s[k] = CRLF /\ \A j \in 1..(k - 1) : s[j] # CRLF
<1>1. w \in Seq(T) /\ Len(w) = n /\ DOMAIN w = 1..n /\ \A k \in 1..n : w[k] = s[k]
  OBVIOUS
<1>2. PICK i \in 1..n : s[i] = CRLF
  BY <1>1 DEF HasLine, Contains
<1>3. PICK m \in 1..n : Ends(m)
  <2> DEFINE S == {k \in 1..n : s[k] = CRLF}
  <2>1. S \in SUBSET Nat /\ S # {}
    BY <1>2
  <2>2. PICK m \in S : \A k \in S : m <= k
    BY <2>1, Smallest
  <2>3. \A j \in 1..(m - 1) : s[j] # CRLF
    <3> SUFFICES ASSUME NEW j \in 1..(m - 1), s[j] = CRLF PROVE FALSE
      OBVIOUS
    <3>1. j \in S /\ j < m
      OBVIOUS
    <3> QED
      BY <2>2, <3>1
  <2> QED
    BY <2>2, <2>3
<1>4. \A k \in 1..Len(s) : Ends(k) => k = m
  BY <1>3
<1>5. (CHOOSE k \in DOMAIN s : Ends(k)) = m
  BY <1>3, <1>4
<1>6. (CHOOSE k \in DOMAIN w : w[k] = CRLF /\ \A j \in 1..(k - 1) : w[j] # CRLF) = m
  <2>1. \A k \in DOMAIN w : (w[k] = CRLF /\ \A j \in 1..(k - 1) : w[j] # CRLF) <=> Ends(k)
    BY <1>1
  <2> QED
    BY <1>1, <1>3, <1>4, <2>1
<1>7. LineOf(s) = SubSeq(s, 1, m - 1) /\ LineOf(w) = SubSeq(w, 1, m - 1)
  BY <1>5, <1>6 DEF LineOf
<1>8. SubSeq(s, 1, m - 1) = SubSeq(w, 1, m - 1)
  BY <1>1, <1>3
<1> QED
  BY <1>2, <1>7, <1>8 DEF HasLine, Contains

\* parse_request_line: what is not malformed is not cut off.
LEMMA PieceIsWhole ==
    ASSUME NEW T, NEW s \in Seq(T), NEW n \in 1..Len(s), ParseRequest(SubSeq(s, 1, n)) # Malformed
    PROVE  ParseRequest(s) = ParseRequest(SubSeq(s, 1, n))
<1> DEFINE w == SubSeq(s, 1, n)
<1>1. HasLine(w)
  BY DEF ParseRequest
<1>2. HasLine(s) /\ LineOf(s) = LineOf(w)
  BY <1>1, LineOfPiece
<1> HIDE DEF w
<1>3. ParseRequest(w) = ParseRequest(s)
  BY <1>1, <1>2 DEF ParseRequest
<1> QED
  BY <1>3 DEF w
-----------------------------------------------------------------------------
LEMMA InitInv == Init => IInv
<1> SUFFICES ASSUME Init PROVE IInv
  OBVIOUS
<1>1. QueueInv
  BY DEF Init, QueueInv, Serving
<1>2. StatusInv /\ FreshInv /\ AnswerInv
  BY DEF Init, StatusInv, FreshInv, AnswerInv
<1>3. RequestInv
  BY DEF Init, RequestInv
<1>4. AnswerIsTrue
  BY ServiceAssumption DEF Init, AnswerIsTrue
<1> QED
  BY <1>1, <1>2, <1>3, <1>4 DEF IInv

\* Steps of the loop and of a signal: nobody is served.
LEMMA LoopStep ==
    ASSUME IInv, UNCHANGED <<dryRun, backlog, peer, raw, bundle, answer, clientVars, history>>,
           \/ pc' = pc
           \/ pc \notin Serving /\ pc' \in {"check", "enter", "poll", "ended"}
           \/ pc \notin Serving /\ pc' = "accept" /\ backlog # <<>>
           \/ pc = "recv" /\ pc' = "close"
           \/ pc = "gather" /\ pc' = "deploy"
    PROVE  IInv'
<1> USE DEF clientVars, history
<1>1. QueueInv'
  BY DEF IInv, QueueInv, Serving, Waiting
<1>2. pc' \in Undone => pc \in Undone
  BY DEF Serving, Undone
<1>3. \A c \in Clients : Fresh(c)' => Fresh(c)
  BY <1>2 DEF Fresh, Waiting
<1>4. FreshInv'
  BY <1>3 DEF IInv, FreshInv
<1>5. StatusInv' /\ AnswerInv'
  BY DEF IInv, StatusInv, AnswerInv, Serving
<1>6. RequestInv'
  BY DEF IInv, RequestInv, Wanted, Serving
<1>7. AnswerIsTrue'
  BY DEF IInv, AnswerIsTrue
<1> QED
  BY <1>1, <1>4, <1>5, <1>6, <1>7 DEF IInv

LEMMA LoopSteps ==
    ASSUME IInv, CheckStop \/ EnterPoll \/ PollReturns \/ ListenerFails \/ RecvNothing \/ Signal
    PROVE  IInv'
<1>1. UNCHANGED <<dryRun, backlog, peer, raw, bundle, answer, clientVars, history>>
  BY DEF CheckStop, EnterPoll, PollReturns, ListenerFails, RecvNothing, Signal
<1>2. \/ pc' = pc
      \/ pc \notin Serving /\ pc' \in {"check", "enter", "poll", "ended"}
      \/ pc \notin Serving /\ pc' = "accept" /\ backlog # <<>>
      \/ pc = "recv" /\ pc' = "close"
  BY DEF CheckStop, EnterPoll, PollReturns, ListenerFails, RecvNothing, Signal, Goto, Serving
<1> QED
  BY <1>1, <1>2, LoopStep

\* The client accepted was waiting, and waits no longer.
LEMMA AcceptStep ==
    ASSUME IInv, Accept
    PROVE  IInv'
<1>1. /\ pc = "accept" /\ pc' = "recv" /\ peer' = Head(backlog) /\ backlog' = Tail(backlog)
      /\ UNCHANGED <<dryRun, raw, bundle, answer, request, link, closed, status, deployed, effects>>
  BY DEF Accept, Goto, clientVars, history
<1>2. backlog \in Seq(Clients) /\ backlog # <<>>
  BY <1>1 DEF IInv, QueueInv
<1>3. /\ Tail(backlog) \in Seq(Clients) /\ DOMAIN Tail(backlog) = 1..(Len(backlog) - 1)
      /\ \A k \in DOMAIN Tail(backlog) : k + 1 \in DOMAIN backlog /\ k + 1 # 1 /\ k \in Nat
                                         /\ Tail(backlog)[k] = backlog[k + 1]
      /\ 1 \in DOMAIN backlog /\ Head(backlog) = backlog[1] /\ backlog[1] \in Clients
  BY <1>2
<1>4. peer' \in Waiting /\ peer' \notin Waiting' /\ Waiting' \subseteq Waiting
  BY <1>1, <1>3 DEF IInv, QueueInv, Waiting
<1>5. QueueInv'
  <2>1. \A j, k \in DOMAIN Tail(backlog) : Tail(backlog)[j] = Tail(backlog)[k] => j = k
    BY <1>3 DEF IInv, QueueInv
  <2>2. \A k \in DOMAIN Tail(backlog) : link[Tail(backlog)[k]] # "none"
    BY <1>3 DEF IInv, QueueInv
  <2> QED
    BY <1>1, <1>3, <1>4, <2>1, <2>2 DEF IInv, QueueInv, Serving
<1>6. FreshInv'
  <2>1. \A c \in Clients : Fresh(c)' => Fresh(c)
    BY <1>1, <1>4 DEF Fresh
  <2> QED
    BY <1>1, <2>1 DEF IInv, FreshInv
<1>7. StatusInv' /\ AnswerInv' /\ RequestInv' /\ AnswerIsTrue'
  BY <1>1 DEF IInv, StatusInv, AnswerInv, RequestInv, AnswerIsTrue, Wanted
<1> QED
  BY <1>5, <1>6, <1>7 DEF IInv

\* What is received is the beginning of what the client sends.
LEMMA RecvStep ==
    ASSUME IInv, Recv
    PROVE  IInv'
<1>1. /\ pc = "recv" /\ pc' = "handle" /\ \E n \in 1..Len(request[peer]) : raw' = SubSeq(request[peer], 1, n)
      /\ UNCHANGED <<dryRun, backlog, peer, bundle, answer, request, link, closed, status, deployed, effects>>
  BY DEF Recv, Goto, clientVars, history
<1>2. QueueInv'
  BY <1>1 DEF IInv, QueueInv, Serving, Waiting
<1>3. FreshInv'
  BY <1>1 DEF IInv, FreshInv, Fresh, Waiting, Undone
<1>4. StatusInv' /\ AnswerInv' /\ RequestInv' /\ AnswerIsTrue'
  BY <1>1 DEF IInv, StatusInv, AnswerInv, RequestInv, AnswerIsTrue, Wanted
<1> QED
  BY <1>2, <1>3, <1>4 DEF IInv

\* An answer before anything was done.
LEMMA EarlyAnswer ==
    ASSUME IInv, pc \in {"handle", "gather"}, pc' = "send", answer' \in {"200", "400", "404"},
           UNCHANGED <<dryRun, backlog, peer, raw, clientVars, history>>
    PROVE  IInv'
<1> USE DEF clientVars, history
<1>1. Fresh(peer) /\ peer \in Clients
  BY DEF IInv, QueueInv, Serving, Fresh, Undone
<1>2. QueueInv'
  BY DEF IInv, QueueInv, Serving, Waiting
<1>3. FreshInv'
  BY DEF IInv, FreshInv, Fresh, Waiting, Undone
<1>4. StatusInv' /\ AnswerInv'
  BY <1>1 DEF IInv, StatusInv, FreshInv, AnswerInv
<1>5. RequestInv' /\ AnswerIsTrue'
  BY DEF IInv, RequestInv, AnswerIsTrue, Wanted
<1> QED
  BY <1>2, <1>3, <1>4, <1>5 DEF IInv

\* A request that is taken for a deployment is one as a whole.
LEMMA HandleRequestStep ==
    ASSUME IInv, HandleRequest
    PROVE  IInv'
<1>1. pc = "handle" /\ UNCHANGED <<dryRun, backlog, peer, raw, clientVars, history>>
  BY DEF HandleRequest
<1> DEFINE r == ParseRequest(raw)
<1>2. \/ pc' = "send" /\ answer' \in {"200", "400", "404"}
      \/ /\ r # Malformed /\ DeployRequest(r) /\ bundle' = BundleOf(r.params)
         /\ pc' = "gather" /\ answer' = answer
  BY DEF HandleRequest, Answer, Goto
<1>3. CASE pc' = "send" /\ answer' \in {"200", "400", "404"}
  BY <1>1, <1>3, EarlyAnswer
<1>4. CASE /\ r # Malformed /\ DeployRequest(r) /\ bundle' = BundleOf(r.params)
           /\ pc' = "gather" /\ answer' = answer
  <2> USE DEF clientVars, history
  <2>1. peer \in Clients /\ link[peer] # "none"
    BY <1>1 DEF IInv, QueueInv, Serving
  <2>2. request[peer] \in Requests
    BY <2>1 DEF IInv, RequestInv
  <2>3. PICK T : request[peer] \in Seq(T)
    BY <2>2, ServiceAssumption
  <2>4. PICK n \in 1..Len(request[peer]) : raw = SubSeq(request[peer], 1, n)
    BY <1>1 DEF IInv, RequestInv
  <2>5. ParseRequest(request[peer]) = r
    BY <1>4, <2>3, <2>4, PieceIsWhole
  <2>6. Wanted(peer, bundle)'
    BY <1>1, <1>4, <2>5 DEF Wanted
  <2>7. QueueInv'
    BY <1>1, <1>4 DEF IInv, QueueInv, Serving, Waiting
  <2>8. FreshInv'
    BY <1>1, <1>4 DEF IInv, FreshInv, Fresh, Waiting, Undone
  <2>9. RequestInv'
    <3>1. \A d \in deployed : Wanted(d[1], d[2])'
      BY <1>1 DEF IInv, RequestInv, Wanted
    <3> QED
      BY <1>1, <1>4, <2>6, <3>1 DEF IInv, RequestInv
  <2>10. StatusInv' /\ AnswerInv' /\ AnswerIsTrue'
    BY <1>1, <1>4 DEF IInv, StatusInv, AnswerInv, AnswerIsTrue
  <2> QED
    BY <2>7, <2>8, <2>9, <2>10 DEF IInv
<1> QED
  BY <1>2, <1>3, <1>4

LEMMA GatherStep ==
    ASSUME IInv, Gather
    PROVE  IInv'
<1>1. pc = "gather" /\ UNCHANGED <<dryRun, backlog, peer, raw, bundle, clientVars, history>>
  BY DEF Gather
<1>2. \/ pc' = "deploy" /\ answer' = answer
      \/ pc' = "send" /\ answer' = "400"
  BY DEF Gather, Answer, Goto
<1> QED
  BY <1>1, <1>2, LoopStep, EarlyAnswer
-----------------------------------------------------------------------------
\* The deployment is the first thing that is done for its client.
LEMMA DeployReturnsStep ==
    ASSUME IInv, DeployReturns
    PROVE  IInv'
<1> DEFINE d0 == <<peer, bundle>>
<1>1. /\ pc = "deploy" /\ pc' = "send" /\ deployed' = deployed \cup {d0}
      /\ UNCHANGED <<dryRun, backlog, peer, raw, bundle, request, link, closed, status>>
  BY DEF DeployReturns, Answer, Goto, clientVars
<1>2. \/ answer' = "200" /\ dryRun /\ effects' = effects
      \/ answer' = "202" /\ ~dryRun /\ effects' = effects \cup {d0}
      \/ answer' = "400" /\ effects' = effects
      \/ answer' = "400" /\ ~dryRun /\ effects' = effects \cup {d0}
  BY DEF DeployReturns, Answer
<1>3. d0[1] = peer /\ d0[2] = bundle /\ Fresh(peer) /\ peer \in Clients /\ link[peer] # "none"
      /\ peer \notin Waiting
  BY <1>1 DEF IInv, QueueInv, Serving, Fresh, Undone
<1>4. QueueInv'
  BY <1>1 DEF IInv, QueueInv, Serving, Waiting
<1>5. FreshInv'
  <2>1. \A c \in Clients : Fresh(c)' => Fresh(c) /\ c # peer
    BY <1>1, <1>3 DEF Fresh, Waiting, Undone
  <2> QED
    BY <1>1, <1>2, <1>3, <2>1 DEF IInv, FreshInv
<1>6. StatusInv'
  BY <1>1, <1>2, <1>3 DEF IInv, StatusInv
<1>7. AnswerInv'
  <2>1. \A d \in effects : d[1] # peer
    BY <1>3 DEF IInv, FreshInv
  <2> QED
    BY <1>1, <1>2, <1>3, <2>1 DEF AnswerInv
<1>8. RequestInv'
  <2>1. Wanted(peer, bundle)' /\ \A d \in deployed : Wanted(d[1], d[2])'
    BY <1>1 DEF IInv, RequestInv, Wanted
  <2> QED
    BY <1>1, <1>3, <2>1 DEF IInv, RequestInv
<1>9. AnswerIsTrue'
  <2>1. status[peer] = None
    BY <1>3 DEF IInv, FreshInv
  <2>2. \A c \in Clients : status[c] = "202" => \E d \in effects' : d[1] = c
    BY <1>2 DEF IInv, AnswerIsTrue
  <2>3. \A c \in Clients : status[c] = "200" => \A d \in effects' : d[1] # c
    BY <1>2, <1>3, <2>1, ServiceAssumption DEF IInv, AnswerIsTrue
  <2>4. dryRun => effects' = {}
    BY <1>2 DEF IInv, AnswerIsTrue
  <2> QED
    BY <1>1, <2>2, <2>3, <2>4 DEF AnswerIsTrue
<1> QED
  BY <1>4, <1>5, <1>6, <1>7, <1>8, <1>9 DEF IInv

\* The end of a connection: its client is told something, or nothing.
LEMMA EndStep ==
    ASSUME IInv, pc \in {"send", "close"}, pc' \in {"close", "check"},
           pc' = "close" => peer' = peer,
           UNCHANGED <<dryRun, backlog, request, link, closed, history>>,
           \/ status' = status
           \/ pc = "send" /\ status' = [status EXCEPT ![peer] = answer]
           \/ status' = [status EXCEPT ![peer] = "closed"]
    PROVE  IInv'
<1> USE DEF history
<1>1. peer \in Clients /\ link[peer] # "none" /\ peer \notin Waiting
  BY DEF IInv, QueueInv, Serving
<1>2. QueueInv'
  BY <1>1 DEF IInv, QueueInv, Serving, Waiting
<1>3. \A c \in Clients \ {peer} : status'[c] = status[c]
  BY DEF IInv, StatusInv
<1>4. FreshInv'
  <2>1. \A c \in Clients : Fresh(c)' => Fresh(c) /\ c # peer
    BY <1>1 DEF Fresh, Waiting, Undone
  <2> QED
    BY <1>3, <2>1 DEF IInv, FreshInv
<1>5. StatusInv'
  BY DEF IInv, StatusInv
<1>6. AnswerInv' /\ RequestInv'
  BY DEF IInv, AnswerInv, RequestInv, Wanted
<1>7. AnswerIsTrue'
  <2>1. \/ status'[peer] = status[peer] \/ status'[peer] = "closed"
        \/ pc = "send" /\ status'[peer] = answer
    BY <1>1 DEF IInv, StatusInv
  <2>2. /\ status'[peer] = "202" => \E d \in effects : d[1] = peer
        /\ status'[peer] = "200" => \A d \in effects : d[1] # peer
    BY <1>1, <2>1 DEF IInv, AnswerInv, AnswerIsTrue
  <2> QED
    BY <1>3, <2>2 DEF IInv, AnswerIsTrue
<1> QED
  BY <1>2, <1>4, <1>5, <1>6, <1>7 DEF IInv

LEMMA SendStep ==
    ASSUME IInv, Send
    PROVE  IInv'
<1>1. /\ pc = "send" /\ pc' = "close" /\ peer' = peer
      /\ UNCHANGED <<dryRun, backlog, request, link, closed, history>>
      /\ status' = status \/ status' = [status EXCEPT ![peer] = answer]
  BY DEF Send, Goto
<1> QED
  BY <1>1, EndStep

LEMMA CloseClientStep ==
    ASSUME IInv, CloseClient
    PROVE  IInv'
<1>1. /\ pc = "close" /\ pc' = "check"
      /\ UNCHANGED <<dryRun, backlog, request, link, closed, history>>
      /\ status' = [status EXCEPT ![peer] = IF status[peer] = None THEN "closed" ELSE status[peer]]
  BY DEF CloseClient, Goto
<1>2. status' = status \/ status' = [status EXCEPT ![peer] = "closed"]
  BY <1>1 DEF IInv, StatusInv
<1> QED
  BY <1>1, <1>2, EndStep
-----------------------------------------------------------------------------
\* The clients.

\* Who connects has not been served, and waits behind the others.
LEMMA ConnectStep ==
    ASSUME IInv, NEW c \in Clients, NEW r \in Requests, Connect(c, r)
    PROVE  IInv'
<1>1. /\ link[c] = "none" /\ link' = [link EXCEPT ![c] = "open"]
      /\ request' = [request EXCEPT ![c] = r] /\ backlog' = Append(backlog, c)
      /\ UNCHANGED <<dryRun, pc, peer, raw, bundle, answer, closed, status, deployed, effects>>
  BY DEF Connect, history
<1>2. /\ link' \in [Clients -> {"none", "open", "data"}] /\ link'[c] = "open"
      /\ \A v \in Clients \ {c} : link'[v] = link[v]
  BY <1>1 DEF IInv, QueueInv
<1>3. /\ request' = [v \in Clients |-> request'[v]] /\ request'[c] = r
      /\ \A v \in Clients \ {c} : request'[v] = request[v]
  BY <1>1 DEF IInv, RequestInv
<1>4. backlog \in Seq(Clients) /\ c \notin Waiting
  BY <1>1 DEF IInv, QueueInv, Waiting
<1>5. /\ backlog' \in Seq(Clients) /\ backlog' # <<>> /\ Len(backlog) \in Nat
      /\ DOMAIN backlog = 1..Len(backlog) /\ DOMAIN backlog' = 1..(Len(backlog) + 1)
      /\ \A k \in 1..Len(backlog) : backlog'[k] = backlog[k] /\ backlog[k] \in Clients
      /\ backlog'[Len(backlog) + 1] = c
  BY <1>1, <1>4
<1>6. Waiting' = Waiting \cup {c}
  BY <1>5 DEF Waiting
<1>7. pc \in Serving => peer # c
  BY <1>1 DEF IInv, QueueInv
<1>8. QueueInv'
  <2>1. \A j, k \in DOMAIN backlog' : backlog'[j] = backlog'[k] => j = k
    <3>1. \A k \in 1..Len(backlog) : backlog[k] # c
      BY <1>4, <1>5 DEF Waiting
    <3> QED
      BY <1>5, <3>1 DEF IInv, QueueInv
  <2>2. \A k \in DOMAIN backlog' : link'[backlog'[k]] # "none"
    BY <1>2, <1>5 DEF IInv, QueueInv
  <2>3. pc \in Serving => peer \in Clients /\ link'[peer] # "none" /\ peer \notin Waiting'
    BY <1>2, <1>6, <1>7 DEF IInv, QueueInv
  <2> QED
    BY <1>1, <1>2, <1>5, <2>1, <2>2, <2>3 DEF IInv, QueueInv
<1>9. FreshInv'
  <2>1. \A v \in Clients : Fresh(v)' => Fresh(v)
    BY <1>1, <1>2, <1>6 DEF Fresh
  <2> QED
    BY <1>1, <2>1 DEF IInv, FreshInv
<1>10. RequestInv'
  <2>1. \A d \in deployed : d[1] # c /\ Wanted(d[1], d[2])'
    BY <1>1, <1>3 DEF IInv, RequestInv, Wanted
  <2>2. pc \in {"gather", "deploy"} => Wanted(peer, bundle)'
    BY <1>1, <1>3, <1>7 DEF IInv, RequestInv, QueueInv, Wanted, Serving
  <2>3. pc = "handle" => request'[peer] = request[peer]
    BY <1>3, <1>7 DEF IInv, QueueInv, Serving
  <2>4. \A v \in Clients : link'[v] # "none" => request'[v] \in Requests
    BY <1>2, <1>3 DEF IInv, RequestInv
  <2>5. pc' = "handle" => \E n \in 1..Len(request'[peer']) : raw' = SubSeq(request'[peer'], 1, n)
    BY <1>1, <2>3 DEF IInv, RequestInv
  <2>6. \A d \in deployed' : d[1] \in Clients /\ link'[d[1]] # "none" /\ Wanted(d[1], d[2])'
    BY <1>1, <1>2, <2>1 DEF IInv, RequestInv
  <2>7. pc' \in {"gather", "deploy"} => Wanted(peer, bundle)'
    BY <1>1, <2>2
  <2> QED
    BY <1>3, <2>4, <2>5, <2>6, <2>7 DEF RequestInv
<1>11. StatusInv' /\ AnswerInv' /\ AnswerIsTrue'
  BY <1>1 DEF IInv, StatusInv, AnswerInv, AnswerIsTrue
<1> QED
  BY <1>8, <1>9, <1>10, <1>11 DEF IInv

LEMMA ClientStep ==
    ASSUME IInv, NEW c \in Clients, ClientSends(c) \/ ClientCloses(c)
    PROVE  IInv'
<1>1. /\ UNCHANGED <<dryRun, pc, backlog, peer, raw, bundle, answer, request, status, deployed, effects>>
      /\ link' = link \/ (link[c] # "none" /\ link' = [link EXCEPT ![c] = "data"])
  BY DEF ClientSends, ClientCloses, Connected, loopVars, history
<1>2. /\ link' \in [Clients -> {"none", "open", "data"}]
      /\ \A v \in Clients : link'[v] = "none" <=> link[v] = "none"
  BY <1>1 DEF IInv, QueueInv
<1>3. QueueInv'
  BY <1>1, <1>2 DEF IInv, QueueInv, Waiting
<1>4. FreshInv'
  <2>1. \A v \in Clients : Fresh(v)' => Fresh(v)
    BY <1>1, <1>2 DEF Fresh, Waiting
  <2> QED
    BY <1>1, <2>1 DEF IInv, FreshInv
<1>5. RequestInv'
  BY <1>1, <1>2 DEF IInv, RequestInv, Wanted
<1>6. StatusInv' /\ AnswerInv' /\ AnswerIsTrue'
  BY <1>1 DEF IInv, StatusInv, AnswerInv, AnswerIsTrue
<1> QED
  BY <1>3, <1>4, <1>5, <1>6 DEF IInv

LEMMA NextInv == IInv /\ [Next]_vars => IInv'
<1> SUFFICES ASSUME IInv, [Next]_vars PROVE IInv'
  OBVIOUS
<1>1. ASSUME Serve PROVE IInv'
  BY <1>1, LoopSteps, AcceptStep, RecvStep, HandleRequestStep, GatherStep, DeployReturnsStep,
     SendStep, CloseClientStep DEF Serve
<1>2. ASSUME ListenerFails \/ Signal PROVE IInv'
  BY <1>2, LoopSteps
<1>3. ASSUME NEW c \in Clients, (\E r \in Requests : Connect(c, r)) \/ ClientSends(c) \/ ClientCloses(c)
      PROVE  IInv'
  BY <1>3, ConnectStep, ClientStep
<1>4. ASSUME UNCHANGED vars PROVE IInv'
  BY <1>4, LoopStep DEF vars, loopVars
<1> QED
  BY <1>1, <1>2, <1>3, <1>4 DEF Next, Ended
-----------------------------------------------------------------------------
\* The invariant that the two properties follow from.
THEOREM Invariant == Spec => []IInv
<1> QED
  BY InitInv, NextInv, PTL DEF Spec

\* handle_request: whatever pieces requests arrive in, a deployment is one that its
\* client asked for with its whole request.
THEOREM RequestsAreWhole == Spec => []ActsOnWholeRequest
<1>1. IInv => ActsOnWholeRequest
  BY DEF IInv, RequestInv, Wanted, ActsOnWholeRequest
<1> QED
  BY <1>1, Invariant, PTL

\* handle_deploy_bundle: 202 means that the deployment of this client has taken
\* place, 200 that none has, and a dry run changes nothing.
THEOREM AnswersAreTrue == Spec => []AnswerIsTrue
<1>1. IInv => AnswerIsTrue
  BY DEF IInv
<1> QED
  BY <1>1, Invariant, PTL
===============================================================================
