--------------------------- MODULE MCMemoryManager ---------------------------
(***************************************************************************)
(* Small heaps, and programs that are less careful.                        *)
(***************************************************************************)
EXTENDS MemoryManager, TLC

MCSize == [c \in Classes |-> IF c = "dtor" THEN 2 ELSE 1]

\* An object is exported again under its own name.
ExportsAgain == \E n \in Names, o \in Slots : o = exports[n] /\ Export(n, o)
ReexportSpec == Init /\ [][Next \/ ExportsAgain]_vars

\* A destructor that is not unsafe reads a field of its object.
ReadsField ==
    /\ phase = "dtor"
    /\ \E v \in refs[current] : locals' = locals \cup {v}
    /\ UNCHANGED <<heap, statics, holders, remote, literals, memory, cycle, control>>
DtorSpec == Init /\ [][Next \/ ReadsField]_vars
=============================================================================
