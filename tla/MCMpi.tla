------------------------------- MODULE MCMpi -------------------------------
EXTENDS Mpi

CONSTANT MaxCalls       \* length of the programs

Matrices == {<<3, 2>>, <<4, 1>>}
Matrix == {<<2, 1>>}

(* A new matrix takes a communicator of its own.                           *)
Calls ==
    {<<"duplicate", "gather">>, <<"duplicate", "scatter">>, <<"duplicate", "copy">>,
     <<"equal">>, <<"replicate">>, <<"restore">>, <<"equalWhole">>, <<"transform">>,
     <<"fill">>, <<"writeRoot">>, <<"clear">>}
RaggedCalls == {<<"clear">>, <<"equalWhole">>, <<"replicate">>}

ProgramsOf(calls) == {FlattenSeq(cs) : cs \in UNION {[1 .. n -> calls] : n \in 1 .. MaxCalls}}
AllPrograms    == ProgramsOf(Calls)
RaggedPrograms == ProgramsOf(RaggedCalls)
=============================================================================
