-------------------------------- MODULE Pipe --------------------------------
(***************************************************************************)
(* What a stream owes its users: each end reads what the other has         *)
(* written, all of it, in order, once.                                     *)
(***************************************************************************)
EXTENDS Sequences, SequencesExt

CONSTANT Ends

VARIABLES
    wrote,  \* what each end has written
    read    \* what has been read of it by the other

Init == wrote = [x \in Ends |-> << >>] /\ read = [x \in Ends |-> << >>]

Write(x) ==
    /\ IsStrictPrefix(wrote[x], wrote'[x])
    /\ wrote' = [wrote EXCEPT ![x] = wrote'[x]]
    /\ UNCHANGED read

Read(x) ==
    /\ IsStrictPrefix(read[x], read'[x]) /\ IsPrefix(read'[x], wrote[x])
    /\ read' = [read EXCEPT ![x] = read'[x]]
    /\ UNCHANGED wrote

\* One end answers what it reads.
ReadAndWrite(x, y) ==
    /\ IsStrictPrefix(read[x], read'[x]) /\ IsPrefix(read'[x], wrote[x])
    /\ read' = [read EXCEPT ![x] = read'[x]]
    /\ IsStrictPrefix(wrote[y], wrote'[y])
    /\ wrote' = [wrote EXCEPT ![y] = wrote'[y]]

Next == \E x, y \in Ends : Write(x) \/ Read(x) \/ ReadAndWrite(x, y)

Spec == Init /\ [][Next]_<<wrote, read>>
=============================================================================
