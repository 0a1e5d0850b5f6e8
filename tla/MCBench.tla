-------------------------------- MODULE MCBench --------------------------------
(***************************************************************************)
(* A small instance of Bench for TLC: three cases that share a cassette    *)
(* file, as `a/b/c`, `a_b/c` and `a/b_c` do.                               *)
(***************************************************************************)
EXTENDS Bench, TLC

Shared == <<"x", "x", "x">>

Answer(parses, validates, schema, fields, ms) ==
    [parses |-> parses, validates |-> validates, fits_schema |-> schema,
     fields |-> fields, type |-> TRUE, ms |-> ms]

SomeAnswers ==
    {Answer("yes", TRUE, TRUE, TRUE, 3), Answer("normalized", TRUE, TRUE, TRUE, 1),
     Answer("yes", TRUE, FALSE, TRUE, 2)}

Whole == {{1, 2, 3}}
===============================================================================
