------------------------------ MODULE MCStreams -------------------------------
\* Answers of two choices for ProviderStreams: texts, a refusal and two calls.
EXTENDS ProviderStreams

Piecewise(choice, index, kind) == [choice |-> choice, index |-> index, kind |-> kind]
MCBlocks ==
    {Piecewise(0, 0, "text"), Piecewise(0, 1, "text"), Piecewise(0, 0, "call"), Piecewise(0, 1, "call"),
     Piecewise(1, 0, "text"), Piecewise(1, 0, "refusal")}
MCReasons == {"completed", "length"}
===============================================================================
