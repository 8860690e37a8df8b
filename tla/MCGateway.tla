------------------------------ MODULE MCGateway -------------------------------
(***************************************************************************)
(* The limits and guards around a turn, part by part: the way of a request *)
(* to its handler, the rate limiter, uploads, the trimming of a history    *)
(* and the guard over a stream.  Parts share no state; a behaviour is one  *)
(* of one part, while the others rest.                                     *)
(***************************************************************************)
EXTENDS MCRateLimiter, HistoryTrim, StreamGuard, MCEdge, MCMedia

VARIABLE part

GatewayInit ==
    /\ part \in {"edge", "limiter", "media", "history", "stream"}
    /\ Init /\ TrimInit /\ GuardInit
    /\ EdgeInit
    /\ part # "edge" => keys = {}
    /\ MediaInit
    /\ part # "media" => upload = Simple /\ installed

GatewayNext ==
    /\ UNCHANGED part
    /\ \/ /\ part = "edge" /\ EdgeNext
          /\ UNCHANGED <<vars, trimVars, guardVars, mediaVars>>
       \/ /\ part = "limiter" /\ Next
          /\ UNCHANGED <<edgeVars, trimVars, guardVars, mediaVars>>
       \/ /\ part = "media" /\ MediaNext
          /\ UNCHANGED <<vars, edgeVars, trimVars, guardVars>>
       \/ /\ part = "history" /\ TrimNext
          /\ UNCHANGED <<vars, edgeVars, guardVars, mediaVars>>
       \/ /\ part = "stream" /\ GuardNext
          /\ UNCHANGED <<vars, edgeVars, trimVars, mediaVars>>

GatewaySpec ==
    GatewayInit /\ [][GatewayNext]_<<part, vars, edgeVars, trimVars, guardVars, mediaVars>>

-----------------------------------------------------------------------------
\* The types of the limiter, the trimming and the stream guard.
GatewayTypeOK == TypeOK /\ TrimTypeOK /\ GuardTypeOK
===============================================================================
