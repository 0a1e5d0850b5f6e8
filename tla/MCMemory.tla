------------------------------- MODULE MCMemory -------------------------------
(***************************************************************************)
(* Small instances of MemoryRuntime for TLC: two processes on two files    *)
(* share the global store.                                                 *)
(***************************************************************************)
EXTENDS MemoryRuntime, TLC

OwnFile == 1 :> "a" @@ 2 :> "b"

Permanent == [kind |-> "permanent", ticks |-> 0]
Duration(n) == [kind |-> "duration", ticks |-> n]

\* a failed node, a node with an upsert that runs out, one that writes in both
\* scopes
SomeEffects ==
    {<<>>,
     <<"project", "k">> :> Duration(1),
     <<"project", "k">> :> Permanent @@ <<"global", "k">> :> Permanent}
===============================================================================
