----------------------------- MODULE MCProviders ------------------------------
(***************************************************************************)
(* The side of the providers, part by part: requests on their way to one,  *)
(* the bodies it answers with, and the events of its streamed answers.     *)
(* Parts share no state; a behaviour is one of one part, while the others  *)
(* rest.                                                                   *)
(***************************************************************************)
EXTENDS MCAdapters, MCStreams, MCCalls

VARIABLE part

FirstMessage == ChatMessage("user", <<A>>, <<>>, <<>>, <<>>, FALSE)

Init ==
    /\ part \in {"requests", "streams", "calls"}
    /\ AdaptersInit
    /\ part # "requests" =>
          /\ ingress = ChatName /\ egress = ChatName /\ policies = <<Closed, Closed>>
          /\ wire = ChatWire(Plain(ChatName), <<FirstMessage>>)
    /\ StreamsInit
    /\ part # "streams" => adapter = "chat" /\ ~ structured
    /\ \/ part = "calls" /\ CallInit
       \/ /\ part # "calls" /\ Untouched
          /\ client = "openai" /\ mode = "stream" /\ script = Body(200, 0, <<Blank>>)

Next ==
    /\ UNCHANGED part
    /\ \/ part = "requests" /\ AdaptersNext /\ UNCHANGED <<streamsVars, callVars>>
       \/ part = "streams" /\ StreamsNext /\ UNCHANGED <<adaptersVars, callVars>>
       \/ part = "calls" /\ CallNext /\ UNCHANGED <<adaptersVars, streamsVars>>

Spec == Init /\ [][Next]_<<part, adaptersVars, streamsVars, callVars>>
===============================================================================
