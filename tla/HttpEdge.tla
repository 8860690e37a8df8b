------------------------------- MODULE HttpEdge -------------------------------
(***************************************************************************)
(* The way of a request to its handler: authentication, principal and rate *)
(* limit (main.py), trusted hosts, RequestBodyLimitMiddleware, and the     *)
(* route that reads the body.  The limiter is seen through one window;     *)
(* RateLimiter has its windows and its table.                              *)
(***************************************************************************)
EXTENDS Integers, SequencesExt

CONSTANTS
    Keys,           \* the API keys of a deployment that has some
    Requests,       \* [path, scheme, secret, client, host, declared, chunks]
    MaxBody,        \* settings.max_request_body_bytes
    MaxMediaBody,   \* the file limit and the multipart overhead
    RequestsPerWindow,
    MaxArrivals     \* requests in a behaviour

ASSUME EdgeAssumption ==
    /\ MaxBody \in Nat /\ MaxMediaBody \in Nat
    /\ RequestsPerWindow \in Nat \ {0} /\ MaxArrivals \in Nat
    /\ \A r \in Requests :
          /\ r.path \in {"chat", "media", "open"} /\ r.chunks \in Seq(Nat)
          /\ r.declared \in {"none", "malformed", "honest", "short"}

VARIABLES
    keys,       \* settings.api_keys: none, or Keys
    gate,       \* what the request is about to pass, or "idle"
    request,    \* the request under way
    bytes,      \* body bytes its handler has read
    chunk,      \* chunks it has read
    spent,      \* requests counted for each identity
    results     \* [request, bytes, status] of those answered, in order

edgeVars == <<keys, gate, request, bytes, chunk, spent, results>>

NoRequest ==
    [path |-> "open", scheme |-> "none", secret |-> "none", client |-> "none",
     host |-> "trusted", declared |-> "none", chunks |-> <<>>]

Protected(r) == r.path \in {"chat", "media"}

-----------------------------------------------------------------------------
\* bearer_token_is_allowed: the scheme in any case, a secret that is configured.
TokenAllowed(r) == r.scheme \in {"Bearer", "bearer"} /\ r.secret \in keys

\* DefaultPrincipalResolver: the credential where credentials are configured,
\* the client's address otherwise.
Principal(r) == IF keys # {} THEN <<"credential", r.secret>> ELSE <<"client", r.client>>

Owners == IF keys # {} THEN {<<"credential", key>> : key \in keys}
          ELSE {<<"client", r.client>> : r \in Requests}

Close(status) ==
    /\ results' = Append(results, [request |-> request, bytes |-> bytes', status |-> status])
    /\ gate' = "idle" /\ request' = NoRequest

GoOn(next) == gate' = next /\ UNCHANGED <<request, results>>

Arrive ==
    /\ gate = "idle" /\ Len(results) < MaxArrivals
    /\ request' \in Requests
    /\ gate' = (IF Protected(request') THEN "authentication" ELSE "host")
    /\ bytes' = 0 /\ chunk' = 0
    /\ UNCHANGED <<keys, spent, results>>

\* proxy_authentication: the key, then the limiter of the principal.
Authenticate ==
    LET who == Principal(request)
        allowed == keys = {} \/ TokenAllowed(request)
        used == IF who \in DOMAIN spent THEN spent[who] ELSE 0
    IN  /\ gate = "authentication"
        /\ UNCHANGED <<keys, bytes, chunk>>
        /\ \/ ~ allowed /\ Close(401) /\ UNCHANGED spent
           \/ allowed /\ used >= RequestsPerWindow /\ Close(429) /\ UNCHANGED spent
           \/ /\ allowed /\ used < RequestsPerWindow /\ GoOn("host")
              /\ spent' = [w \in DOMAIN spent \cup {who} |->
                             IF w = who THEN used + 1 ELSE spent[w]]

CheckHost ==
    /\ gate = "host"
    /\ UNCHANGED <<keys, bytes, chunk, spent>>
    /\ IF request.host = "trusted" THEN GoOn("length") ELSE Close(400)

BodyLimit(r) == IF r.path = "media" THEN MaxMediaBody ELSE MaxBody

\* What a body is, and an honest client declares.
BodyLength(chunks) ==
    LET upTo[n \in 0 .. Len(chunks)] == IF n = 0 THEN 0 ELSE upTo[n - 1] + chunks[n]
    IN  upTo[Len(chunks)]

\* A declared length is refused when it is too long or no number.
CheckLength ==
    LET malformed == Protected(request) /\ request.declared = "malformed"
        tooLong == /\ Protected(request) /\ request.declared = "honest"
                   /\ BodyLength(request.chunks) > BodyLimit(request)
    IN  /\ gate = "length"
        /\ UNCHANGED <<keys, bytes, chunk, spent>>
        /\ \/ malformed /\ Close(400)
           \/ tooLong /\ Close(413)
           \/ ~ malformed /\ ~ tooLong /\ GoOn("route")

\* Mutant: each chunk is held against the limit, not what has come so far.
TooMuchAtOnce(received, size) == size > BodyLimit(request)

TooMuch(received, size) == received + size > BodyLimit(request)

\* limited_receive.  What it raises reaches the middleware, or the framework
\* that was reading the body makes a refusal of its own of it.
ReadBody ==
    LET size == request.chunks[chunk + 1]
    IN  /\ gate = "route" /\ chunk < Len(request.chunks)
        /\ chunk' = chunk + 1
        /\ bytes' = bytes + size
        /\ IF Protected(request) /\ TooMuch(bytes, size)
           THEN \E status \in {413, 400} : Close(status)
           ELSE GoOn("route")
        /\ UNCHANGED <<keys, spent>>

\* The handler runs once the whole body is there.
Handle ==
    /\ gate = "route" /\ chunk = Len(request.chunks)
    /\ UNCHANGED <<keys, bytes, chunk, spent>>
    /\ Close(200)

EdgeInit ==
    /\ keys \in {{}, Keys}
    /\ gate = "idle" /\ request = NoRequest /\ bytes = 0 /\ chunk = 0
    /\ spent = <<>> /\ results = <<>>

EdgeNext ==
    Arrive \/ Authenticate \/ CheckHost \/ CheckLength \/ ReadBody \/ Handle

EdgeSpec == EdgeInit /\ [][EdgeNext]_edgeVars

-----------------------------------------------------------------------------
Mine(who, upTo) ==
    {n \in 1 .. upTo : Protected(results[n].request) /\ Principal(results[n].request) = who}

\* Nothing reaches a protected handler without a configured key, beyond the rate
\* of its principal, under a foreign host name or with a body over the limit of its
\* path, however it was cut into chunks and whatever length it declared.
AdmittedIsAdmissible ==
    \A n \in DOMAIN results :
        LET r == results[n].request
        IN  results[n].status = 200 =>
              /\ r.host = "trusted"
              /\ Protected(r) =>
                    /\ keys = {} \/ TokenAllowed(r)
                    /\ results[n].bytes <= BodyLimit(r)
                    /\ Cardinality({m \in Mine(Principal(r), n) : results[m].status = 200})
                          <= RequestsPerWindow

\* Only who holds a key is counted, once for each request: nobody can use up the
\* requests of another, and no request without a key makes an entry.
OnlyOwnersPay ==
    /\ DOMAIN spent \subseteq Owners
    /\ \A who \in DOMAIN spent :
          gate \in {"idle", "authentication"} =>
              spent[who] = Cardinality({m \in Mine(who, Len(results)) :
                                           results[m].status \notin {401, 429}})

\* A request that keeps all rules is handled.
RightfulRequestsPass ==
    \A n \in DOMAIN results :
        LET r == results[n].request
        IN  /\ r.host = "trusted" /\ r.declared # "malformed"
            /\ BodyLength(r.chunks) <= BodyLimit(r)
            /\ keys = {} \/ TokenAllowed(r)
            /\ Cardinality(Mine(Principal(r), n)) <= RequestsPerWindow
            => results[n].status = 200 \/ ~ Protected(r)

\* The edge lets through what it should and nothing else, and charges nobody for
\* the requests of others.
OnlyTheRightfulPass == AdmittedIsAdmissible /\ RightfulRequestsPass /\ OnlyOwnersPay
===============================================================================
