------------------------------ MODULE MCPrivacy -------------------------------
(***************************************************************************)
(* Privacy inside a turn, part by part: the decision about a text, what is *)
(* put in place of its values, and the guards over the whole JSON.  Parts  *)
(* share no state; a behaviour is one of one part, while the others rest.  *)
(***************************************************************************)
EXTENDS MCRuntime, MCGuards, MCMask

VARIABLE part

PrivacyInit ==
    /\ part \in {"decision", "payload", "replacement"}
    /\ RuntimeInit
    /\ part # "decision" => /\ text = Sample(Plain(3), {}) /\ profile = "balanced"
                           /\ document = Open /\ request = Request("t", "user")
    /\ JsonInit
    /\ part # "payload" => asked = Metadata(<<>>) /\ known = {}
    /\ MaskInit
    /\ part # "replacement" => mode = "placeholder"

PrivacyNext ==
    /\ UNCHANGED part
    /\ \/ part = "decision" /\ RuntimeNext /\ UNCHANGED <<jsonVars, maskVars>>
       \/ part = "payload" /\ JsonNext /\ UNCHANGED <<runtimeVars, maskVars>>
       \/ part = "replacement" /\ MaskNext /\ UNCHANGED <<runtimeVars, jsonVars>>

PrivacySpec == PrivacyInit /\ [][PrivacyNext]_<<part, runtimeVars, jsonVars, maskVars>>

-----------------------------------------------------------------------------
\* The types of the decision and of the payload.
PrivacyTypeOK == RuntimeTypeOK /\ JsonTypeOK
===============================================================================
