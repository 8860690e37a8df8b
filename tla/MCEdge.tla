-------------------------------- MODULE MCEdge --------------------------------
(***************************************************************************)
(* Requests for HttpEdge: right and wrong keys, hosts, lengths and bodies  *)
(* at the limits of their paths.                                           *)
(***************************************************************************)
EXTENDS HttpEdge

Asks(path, scheme, secret, host, declared, chunks) ==
    [path |-> path, scheme |-> scheme, secret |-> secret, client |-> secret, host |-> host,
     declared |-> declared, chunks |-> chunks]

MCEdgeRequests ==
    {Asks("chat", scheme, secret, "trusted", "none", <<1>>) :
        scheme \in {"Bearer", "bearer", "Basic"}, secret \in {"key1", "key2", "guess"}}
    \cup {Asks(path, "Bearer", "key1", "trusted", declared, chunks) :
             path \in {"chat", "media", "open"},
             declared \in {"none", "honest", "malformed", "short"},
             chunks \in {<<>>, <<2, 1>>, <<2, 2>>, <<3, 3>>}}
    \cup {Asks(path, "Bearer", "key2", "foreign", "honest", <<1>>) : path \in {"chat", "open"}}
===============================================================================
