---------------------------- MODULE ExampleService ----------------------------
(***************************************************************************)
(* The example service (src/examples/orchestrator_service.cpp): one thread *)
(* that accepts a connection, receives once, handles what it received as   *)
(* an HTTP request, answers and closes, until a signal sets the stop flag. *)
(*                                                                         *)
(* A request is a sequence of words; they arrive in any number of pieces.  *)
(* A query parameter is one word that holds its key and its value, or that *)
(* cannot be decoded.  What resolve_user, the staged files and deploy()    *)
(* answer is open here: see StagedFile and Deployment.                     *)
(***************************************************************************)
EXTENDS Naturals, Sequences, SequencesExt, FiniteSets

CONSTANTS
    Clients,    \* each connects once
    Requests,   \* what a client may send, as sequences of words
    Buffer,     \* words one recv can take (4096 bytes in the code)
    None        \* no such parameter, no client, nothing answered

\* The words of a request.
Word(w) == <<"word", w>>
Param(key, value) == <<"param", key, value>>
BadEscape == <<"escape">>
Version == <<"version">>
CRLF == <<"crlf">>

ASSUME ServiceAssumption ==
    /\ Buffer \in Nat \ {0}
    /\ None \notin Clients /\ None \notin {"200", "202"}
    /\ <<>> \notin Requests
    /\ \A r \in Requests : r \in Seq({r[k] : k \in DOMAIN r})

VARIABLES
    dryRun,    \* Config::dry_run
    pc,        \* next step of the main loop, or "ended"
    stop,      \* g_stop
    backlog,   \* connections not accepted yet
    peer,      \* the client being served
    raw,       \* what recv returned
    bundle,    \* what handle_deploy_bundle has gathered
    answer     \* the status of the answer to send

VARIABLES
    request,   \* what each client wants to send
    link,      \* "none", "open", or "data" when some of it has arrived
    closed,    \* clients that closed their connection
    status     \* the status each client got, "closed" for none, or None

\* History: calls of deploy() by client and bundle, and those with an effect.
VARIABLES deployed, effects

loopVars   == <<pc, backlog, peer, raw, bundle, answer>>
clientVars == <<request, link, closed, status>>
history    == <<deployed, effects>>
vars       == <<dryRun, stop, loopVars, clientVars, history>>

NoBundle == [client |-> None]

Goto(step) == pc' = step

Answer(code) == answer' = code /\ Goto("send")
-----------------------------------------------------------------------------
\* parse_request_line and parse_query

Malformed == [method |-> Word(""), path |-> Word(""), params |-> <<>>]

HasLine(words) == Contains(words, CRLF)

LineOf(words) ==
    SubSeq(words, 1, (CHOOSE k \in DOMAIN words :
                          words[k] = CRLF /\ \A j \in 1..(k - 1) : words[j] # CRLF) - 1)

Fields(line) == [method |-> line[1], path |-> line[2], params |-> SubSeq(line, 3, Len(line) - 1)]

\* Mutant: what was received is taken for the line, and the version for optional.
ParseRequest_Lenient(words) ==
    LET line == IF HasLine(words) THEN LineOf(words) ELSE words
    IN  IF Len(line) < 2 \/ Contains(line, BadEscape)
        THEN Malformed
        ELSE IF Last(line) = Version THEN Fields(line) ELSE Fields(Append(line, Version))

\* The line must end with CRLF and consist of method, target and version; every
\* key and value of the query must decode.
ParseRequest(words) ==
    IF \/ ~HasLine(words)
       \/ Len(LineOf(words)) < 3
       \/ Last(LineOf(words)) # Version
       \/ Contains(LineOf(words), BadEscape)
    THEN Malformed
    ELSE Fields(LineOf(words))

\* Query::one: the first value of a key.
One(params, key) ==
    LET found == SelectSeq(params, LAMBDA p : p[2] = key)
    IN  IF found = <<>> THEN None ELSE Head(found)[3]

ValueOr(value, default) == IF value = None THEN default ELSE value

HealthRequest(r) == r.method = Word("GET") /\ r.path = Word("/healthz")
DeployRequest(r) == r.method = Word("POST") /\ r.path = Word("/v1/deploy-bundle")

\* The bundle and the options made of a query; the service name defaults to the
\* one of the Quadlet.
BundleOf(params) ==
    [user    |-> One(params, "user"),
     quadlet |-> One(params, "quadletPath"),
     service |-> ValueOr(One(params, "service"), One(params, "quadletPath")),
     archive |-> One(params, "imageArchive"),
     load    |-> ValueOr(One(params, "loadImage"), "true") # "false",
     restart |-> ValueOr(One(params, "restart"), "true") # "false"]
-----------------------------------------------------------------------------
Init ==
    /\ dryRun \in BOOLEAN
    /\ pc = "check"
    /\ stop = FALSE
    /\ backlog = <<>>
    /\ peer = None
    /\ raw = <<>>
    /\ bundle = NoBundle
    /\ answer = None
    /\ request = [c \in Clients |-> <<>>]
    /\ link = [c \in Clients |-> "none"]
    /\ closed = {}
    /\ status = [c \in Clients |-> None]
    /\ deployed = {}
    /\ effects = {}

\* while (!g_stop)
CheckStop ==
    /\ pc = "check"
    /\ Goto(IF stop THEN "ended" ELSE "enter")
    /\ UNCHANGED <<dryRun, stop, backlog, peer, raw, bundle, answer, clientVars, history>>

EnterPoll ==
    /\ pc = "enter"
    /\ Goto("poll")
    /\ UNCHANGED <<dryRun, stop, backlog, peer, raw, bundle, answer, clientVars, history>>

\* Mutant: poll without a timeout.
PollReturns_Never ==
    /\ pc = "poll"
    /\ backlog # <<>>
    /\ Goto("accept")
    /\ UNCHANGED <<dryRun, stop, backlog, peer, raw, bundle, answer, clientVars, history>>

\* poll finds a connection, or 250 ms pass.
PollReturns ==
    /\ pc = "poll"
    /\ Goto(IF backlog # <<>> THEN "accept" ELSE "check")
    /\ UNCHANGED <<dryRun, stop, backlog, peer, raw, bundle, answer, clientVars, history>>

\* An error of poll or accept other than EINTR ends the loop.
ListenerFails ==
    /\ pc \in {"poll", "accept"}
    /\ Goto("ended")
    /\ UNCHANGED <<dryRun, stop, backlog, peer, raw, bundle, answer, clientVars, history>>

Accept ==
    /\ pc = "accept"
    /\ peer' = Head(backlog)
    /\ backlog' = Tail(backlog)
    /\ Goto("recv")
    /\ UNCHANGED <<dryRun, stop, raw, bundle, answer, clientVars, history>>

\* One recv, which waits for data and takes what has arrived by then.
Recv ==
    /\ pc = "recv"
    /\ link[peer] = "data"
    /\ \E n \in 1..Len(request[peer]) :
          n <= Buffer /\ raw' = SubSeq(request[peer], 1, n)
    /\ Goto("handle")
    /\ UNCHANGED <<dryRun, stop, backlog, peer, bundle, answer, clientVars, history>>

\* The client has closed the connection, or reset it.
RecvNothing ==
    /\ pc = "recv"
    /\ peer \in closed
    /\ Goto("close")
    /\ UNCHANGED <<dryRun, stop, backlog, peer, raw, bundle, answer, clientVars, history>>

\* handle_request, and the parameters handle_deploy_bundle insists on.
HandleRequest ==
    /\ pc = "handle"
    /\ LET r == ParseRequest(raw)
       IN  \/ r = Malformed /\ Answer("400") /\ UNCHANGED bundle
           \/ /\ r # Malformed
              /\ \/ HealthRequest(r) /\ Answer("200") /\ UNCHANGED bundle
                 \/ /\ DeployRequest(r)
                    /\ bundle' = BundleOf(r.params)
                    /\ IF bundle'.user = None \/ bundle'.quadlet = None
                       THEN Answer("400")
                       ELSE Goto("gather") /\ UNCHANGED answer
                 \/ ~HealthRequest(r) /\ ~DeployRequest(r) /\ Answer("404") /\ UNCHANGED bundle
    /\ UNCHANGED <<dryRun, stop, backlog, peer, raw, clientVars, history>>

\* resolve_user, the staged Quadlet, its service name and the staged archive: all
\* there, or an answer that says what is not.
Gather ==
    /\ pc = "gather"
    /\ \/ Goto("deploy") /\ UNCHANGED answer
       \/ Answer("400")
    /\ UNCHANGED <<dryRun, stop, backlog, peer, raw, bundle, clientVars, history>>

\* Mutant: the option dry_run is not passed on.
DeployReturns_NotDry ==
    /\ pc = "deploy"
    /\ deployed' = deployed \cup {<<peer, bundle>>}
    /\ \/ /\ Answer(IF dryRun THEN "200" ELSE "202")
          /\ effects' = effects \cup {<<peer, bundle>>}
       \/ Answer("400") /\ UNCHANGED effects
    /\ UNCHANGED <<dryRun, stop, backlog, peer, raw, bundle, clientVars>>

\* deploy() succeeds or fails; a failed deployment may have had an effect, a dry
\* run has none.
DeployReturns ==
    /\ pc = "deploy"
    /\ deployed' = deployed \cup {<<peer, bundle>>}
    /\ \/ /\ Answer(IF dryRun THEN "200" ELSE "202")
          /\ effects' = IF dryRun THEN effects ELSE effects \cup {<<peer, bundle>>}
       \/ /\ Answer("400")
          /\ effects' \in {effects, IF dryRun THEN effects ELSE effects \cup {<<peer, bundle>>}}
    /\ UNCHANGED <<dryRun, stop, backlog, peer, raw, bundle, clientVars>>

\* One send, whose result is not looked at.
Send ==
    /\ pc = "send"
    /\ status' = IF peer \in closed THEN status ELSE [status EXCEPT ![peer] = answer]
    /\ Goto("close")
    /\ UNCHANGED <<dryRun, stop, backlog, peer, raw, bundle, answer, request, link, closed, history>>

CloseClient ==
    /\ pc = "close"
    /\ status' = [status EXCEPT ![peer] = IF @ = None THEN "closed" ELSE @]
    /\ peer' = None
    /\ raw' = <<>>
    /\ bundle' = NoBundle
    /\ answer' = None
    /\ Goto("check")
    /\ UNCHANGED <<dryRun, stop, backlog, request, link, closed, history>>
-----------------------------------------------------------------------------
\* The environment.

\* SIGINT or SIGTERM: the handler sets the flag.  poll is interrupted; recv and
\* accept are restarted after a handler installed with signal().
Signal ==
    /\ ~stop /\ pc # "ended"
    /\ stop' = TRUE
    /\ Goto(IF pc = "poll" THEN "check" ELSE pc)
    /\ UNCHANGED <<dryRun, backlog, peer, raw, bundle, answer, clientVars, history>>

Connect(c, r) ==
    /\ link[c] = "none"
    /\ pc # "ended"
    /\ link' = [link EXCEPT ![c] = "open"]
    /\ request' = [request EXCEPT ![c] = r]
    /\ backlog' = Append(backlog, c)
    /\ UNCHANGED <<dryRun, stop, pc, peer, raw, bundle, answer, closed, status, history>>

Connected(c) == link[c] # "none" /\ c \notin closed /\ status[c] = None /\ pc # "ended"

\* Data arrives; how much of it before recv returns is chosen there, and what
\* arrives later is not read.
ClientSends(c) ==
    /\ Connected(c)
    /\ link[c] = "open"
    /\ link' = [link EXCEPT ![c] = "data"]
    /\ UNCHANGED <<dryRun, stop, loopVars, request, closed, status, history>>

ClientCloses(c) ==
    /\ Connected(c)
    /\ closed' = closed \cup {c}
    /\ UNCHANGED <<dryRun, stop, loopVars, request, link, status, history>>

Ended == pc = "ended" /\ UNCHANGED vars
-----------------------------------------------------------------------------
\* The steps of the service that do not wait for a client.
Serve ==
    \/ CheckStop \/ EnterPoll \/ PollReturns
    \/ Accept \/ Recv \/ RecvNothing
    \/ HandleRequest \/ Gather \/ DeployReturns \/ Send \/ CloseClient

Next ==
    \/ Serve \/ ListenerFails \/ Signal
    \/ \E c \in Clients : (\E r \in Requests : Connect(c, r)) \/ ClientSends(c) \/ ClientCloses(c)
    \/ Ended

Spec == Init /\ [][Next]_vars

\* poll has a timeout, deploy() returns (HeldLockIsReleased of Deployment and what
\* it rests on), and the Quadlet and archive opened are no FIFOs.
FairSpec == Spec /\ WF_vars(Serve)
-----------------------------------------------------------------------------
\* Properties.

\* A deployment is one that its client asked for: no piece of a request is taken
\* for the whole, no default takes the place of a parameter that has not arrived
\* yet, and nothing is left of the request served before.
ActsOnWholeRequest ==
    \A d \in deployed :
        LET r == ParseRequest(request[d[1]])
        IN  r # Malformed /\ DeployRequest(r) /\ d[2] = BundleOf(r.params)

\* What a client is told is so: 202 means its own deployment has taken place, 200
\* for a deployment that there was none, and a dry run changes nothing.
AnswerIsTrue ==
    /\ dryRun => effects = {}
    /\ \A c \in Clients :
          /\ status[c] = "202" => \E d \in effects : d[1] = c
          /\ status[c] = "200" => \A d \in effects : d[1] # c

\* Whoever is connected does not keep the service waiting in recv for ever.
ClientsGoOn == \A c \in Clients : [](pc = "recv" /\ peer = c => <>(link[c] = "data" \/ c \in closed))

\* After SIGINT or SIGTERM the service ends, also when the signal comes between
\* the test of the flag and poll, or in a blocking call that is restarted, unless
\* a client holds it in recv.
StopEndsService == ClientsGoOn => (stop ~> pc = "ended")
===============================================================================
