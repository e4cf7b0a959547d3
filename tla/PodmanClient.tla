----------------------------- MODULE PodmanClient -----------------------------
(***************************************************************************)
(* PodmanClient (src/src/podman_client.cpp): calls of several threads to   *)
(* one Podman service over its socket.  A call is one request without a    *)
(* retry: it is answered, or it fails or times out while the request may   *)
(* still be under way, and Podman may serve it later, after other calls.   *)
(*                                                                         *)
(* Podman keeps a set of containers; it is modelled by what its API does   *)
(* to them.  Uploading an image archive is in StagedFile.                  *)
(***************************************************************************)
EXTENDS ContainerSpec, FiniteSets

CONSTANTS
    Callers,   \* threads with a PodmanClient
    Calls,     \* calls they may make
    MaxCalls   \* bound: calls of all threads together

\* Operations on one container, named in the path.
OnContainer == {"start", "stop", "remove"}

ASSUME ClientAssumption ==
    /\ MaxCalls \in Nat
    /\ \A k \in Calls :
          /\ k.op \in {"ping", "info", "list", "create"} \cup OnContainer
          /\ k.op = "create" => IsSpec(k.spec)
          /\ k.op \in OnContainer => k.name \in Seq(Byte)
          /\ k.op = "remove" => k.force \in BOOLEAN
          /\ k.op = "list" => k.filters \in Seq(Seq(Byte))

VARIABLES
    pc,          \* "idle", "waiting", or the result of the last call: "ok", "error"
    made,        \* calls so far, in the order in which they began
    id           \* number of the call each thread makes, or made last

VARIABLES
    wire,        \* requests Podman has not served yet, by number
    answers,     \* status of the answers that have not been received, by number
    containers   \* by name: specification and whether it runs

\* History: the requests that succeeded, as Podman understood them.
VARIABLE performed

clientVars == <<pc, made, id>>
podmanVars == <<wire, answers, containers, performed>>
vars       == <<clientVars, podmanVars>>

Without(f, x) == Restrict(f, DOMAIN f \ {x})

\* A call is refused before anything is sent.
Refuses(k) ==
    \/ k.op = "create" /\ ~ValidSpec(k.spec)
    \/ k.op = "stop" /\ k.timeout < 0

\* The query is the JSON text of the filters, encoded; the parts of it that are
\* the same for all filters are left out.
Request(k) ==
    CASE k.op = "create" -> [op |-> "create", body |-> CreateJson(k.spec)]
      [] k.op \in OnContainer -> [op |-> k.op, name |-> UrlEncode(k.name),
                                  force |-> k.op = "remove" /\ k.force,
                                  timeout |-> IF k.op = "stop" THEN k.timeout ELSE 0]
      [] k.op = "list" -> [op |-> "list", all |-> k.all,
                           filters |-> [n \in DOMAIN k.filters |-> UrlEncode(FilterString(k.filters[n]))]]
      [] OTHER -> [op |-> k.op]

\* A name that is no name once it is in a path, where libcurl and Podman's router
\* remove the segments "", "." and "..".
Dissolves(name) ==
    \E segment \in {<<>>, <<46>>, <<46, 46>>} :
        <<47>> \o segment \o <<47>> \in SubSeqs(<<47>> \o name \o <<47>>)

\* A request for a path at which there is nothing.
Nowhere == [op |-> "none"]

\* What Podman reads from a request.
Understood(r) ==
    CASE r.op = "create" -> [op |-> "create", spec |-> SpecOf(r.body)]
      [] r.op \in OnContainer -> LET name == UrlDecode(r.name, FALSE)
                                 IN  IF Dissolves(name) THEN Nowhere ELSE [r EXCEPT !.name = name]
      [] r.op = "list" -> [r EXCEPT !.filters = [n \in DOMAIN @ |-> JsonDecode(UrlDecode(@[n], TRUE))]]
      [] OTHER -> r
-----------------------------------------------------------------------------
Init ==
    /\ pc = [c \in Callers |-> "idle"]
    /\ made = <<>>
    /\ id = [c \in Callers |-> 0]
    /\ wire = <<>>
    /\ answers = <<>>
    /\ containers = <<>>
    /\ performed = {}

Call(c, k) ==
    /\ pc[c] # "waiting"
    /\ Len(made) < MaxCalls
    /\ made' = Append(made, k)
    /\ id' = [id EXCEPT ![c] = Len(made')]
    /\ \/ /\ Refuses(k)
          /\ pc' = [pc EXCEPT ![c] = "error"]
          /\ UNCHANGED wire
       \/ /\ ~Refuses(k)
          /\ pc' = [pc EXCEPT ![c] = "waiting"]
          /\ wire' = [n \in DOMAIN wire \cup {id'[c]} |-> IF n = id'[c] THEN Request(k) ELSE wire[n]]
    /\ UNCHANGED <<answers, containers, performed>>

\* Mutant: every answer but an error of client or server is a success.
Success_BelowError(status) == status \in 200..399

\* require_success
Success(status) == status \in 200..299

Receive(c) ==
    /\ pc[c] = "waiting"
    /\ id[c] \in DOMAIN answers
    /\ pc' = [pc EXCEPT ![c] = IF Success(answers[id[c]]) THEN "ok" ELSE "error"]
    /\ answers' = Without(answers, id[c])
    /\ UNCHANGED <<made, id, wire, containers, performed>>

\* curl_easy_perform fails or reaches CURLOPT_TIMEOUT_MS.  Nobody waits for the
\* answer any more; the request may have been lost or may still be served.
GiveUp(c) ==
    /\ pc[c] = "waiting"
    /\ pc' = [pc EXCEPT ![c] = "error"]
    /\ answers' = Without(answers, id[c])
    /\ wire' \in {wire, Without(wire, id[c])}
    /\ UNCHANGED <<made, id, containers, performed>>
-----------------------------------------------------------------------------
\* Podman.

Exists(name) == name \in DOMAIN containers

Runs(name) == containers[name].running

Status(r) ==
    CASE r.op = "create" /\ Exists(r.spec.name) -> 409
      [] r.op = "create" /\ ~Exists(r.spec.name) -> 201
      [] r.op \in OnContainer /\ ~Exists(r.name) -> 404
      [] r.op = "start" /\ Exists(r.name) -> IF Runs(r.name) THEN 304 ELSE 204
      [] r.op = "stop" /\ Exists(r.name) -> IF Runs(r.name) THEN 204 ELSE 304
      [] r.op = "remove" /\ Exists(r.name) -> IF Runs(r.name) /\ ~r.force THEN 409 ELSE 200
      [] r.op = "none" -> 404
      [] r.op = "list" -> IF \E n \in DOMAIN r.filters : r.filters[n] = Undecodable THEN 400 ELSE 200
      [] OTHER -> 200

Effect(r) ==
    CASE r.op = "create" ->
            [n \in DOMAIN containers \cup {r.spec.name} |->
                IF n = r.spec.name THEN [spec |-> r.spec, running |-> FALSE] ELSE containers[n]]
      [] r.op = "start" -> [containers EXCEPT ![r.name].running = TRUE]
      [] r.op = "stop" -> [containers EXCEPT ![r.name].running = FALSE]
      [] r.op = "remove" -> Without(containers, r.name)
      [] OTHER -> containers

Awaited(n) == \E c \in Callers : pc[c] = "waiting" /\ id[c] = n

AnswerTo(n, status) ==
    answers' = IF Awaited(n)
               THEN [m \in DOMAIN answers \cup {n} |-> IF m = n THEN status ELSE answers[m]]
               ELSE answers

Serve(n) ==
    /\ n \in DOMAIN wire
    /\ LET r == Understood(wire[n])
       IN  /\ AnswerTo(n, Status(r))
           /\ containers' = IF Status(r) \in 200..299 THEN Effect(r) ELSE containers
           /\ performed' = IF Status(r) \in 200..299 THEN performed \cup {<<n, r>>} ELSE performed
    /\ wire' = Without(wire, n)
    /\ UNCHANGED clientVars

\* Podman fails for reasons of its own.
ServeFails(n) ==
    /\ n \in DOMAIN wire
    /\ AnswerTo(n, 500)
    /\ wire' = Without(wire, n)
    /\ UNCHANGED <<clientVars, containers, performed>>

\* A container ends by itself.
ContainerEnds(name) ==
    /\ Exists(name) /\ Runs(name)
    /\ containers' = [containers EXCEPT ![name].running = FALSE]
    /\ UNCHANGED <<clientVars, wire, answers, performed>>

NoMoreCalls ==
    /\ Len(made) = MaxCalls /\ wire = <<>>
    /\ \A c \in Callers : pc[c] # "waiting"
    /\ UNCHANGED vars
-----------------------------------------------------------------------------
Next ==
    \/ \E c \in Callers : (\E k \in Calls : Call(c, k)) \/ Receive(c) \/ GiveUp(c)
    \/ \E n \in 1..MaxCalls : Serve(n) \/ ServeFails(n)
    \/ \E name \in DOMAIN containers : ContainerEnds(name)
    \/ NoMoreCalls

Spec == Init /\ [][Next]_vars
-----------------------------------------------------------------------------
\* Properties.

\* A text that is UTF-8 has arrived as it is.
Kept(text, read) == ValidUtf8(text) => read = text

KeptAll(texts, read) == DOMAIN read = DOMAIN texts /\ \A k \in DOMAIN texts : Kept(texts[k], read[k])

KeptMap(map, read) ==
    (\A key \in DOMAIN map : ValidUtf8(key) /\ ValidUtf8(map[key])) => read = map

\* Podman's specification is the caller's; security_opt is not part of it.
KeptSpec(spec, read) ==
    /\ read.name = spec.name
    /\ Kept(spec.image, read.image)
    /\ KeptAll(spec.command, read.command)
    /\ KeptMap(spec.env, read.env) /\ KeptMap(spec.labels, read.labels)
    /\ read.read_only_filesystem = spec.read_only_filesystem
    /\ KeptAll(spec.cap_drop, read.cap_drop)
    /\ read.limits = spec.limits

\* What Podman has read, r, is what the caller of k means.
Means(k, r) ==
    /\ r.op = k.op
    /\ k.op = "create" => KeptSpec(k.spec, r.spec)
    /\ k.op \in OnContainer => r.name = k.name
    /\ k.op = "stop" => r.timeout = k.timeout
    /\ k.op = "remove" => r.force = k.force
    /\ k.op = "list" => r.all = k.all /\ KeptAll(k.filters, r.filters)

\* A call that returns success has been performed, by this very request and in the
\* sense of its caller: on the container of that name, with these filters, with this
\* specification.  Neither a refused or superfluous operation nor the answer to
\* another call counts.  Podman replaces what is not UTF-8 in JSON, so of such texts
\* nothing is said; names, which travel in the path, arrive whatever their bytes.
SuccessWasDone ==
    \A c \in Callers : pc[c] = "ok" =>
        \E p \in performed : p[1] = id[c] /\ Means(made[id[c]], p[2])

\* Whatever exists in Podman was asked for by a call that was made, perhaps given up,
\* with a valid specification, and is as that call said: every limit, label and
\* argument, and every text that is UTF-8.  The exception is security_opt, which
\* Podman drops.
CreatedAsAsked ==
    \A name \in DOMAIN containers : \E p \in performed :
        LET k == made[p[1]]
        IN  /\ k.op = "create" /\ ValidSpec(k.spec) /\ k.spec.name = name
            /\ KeptSpec(k.spec, containers[name].spec)
===============================================================================
