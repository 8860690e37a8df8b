-------------------------------- MODULE MCMask --------------------------------
(***************************************************************************)
(* Names and addresses for Rehydration, some spelled like surrogates.      *)
(***************************************************************************)
EXTENDS Rehydration

MCProse == {<<"hi">>, <<"Demo Person", "1">>, <<"<MG:", "x">>}
MCValues ==
    {[type |-> "PERSON", spelling |-> <<name>>] : name \in {"ann", "bob", "eve"}}
    \cup {[type |-> "PERSON", spelling |-> <<"Demo Person", "1", "0">>],
          [type |-> "EMAIL", spelling |-> <<"joe@">>],
          [type |-> "EMAIL", spelling |-> <<"demo", "1", "@example.test">>]}
===============================================================================
