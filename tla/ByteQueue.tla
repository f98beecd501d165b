------------------------------ MODULE ByteQueue ------------------------------
(***************************************************************************)
(* What a muduo Buffer promises: a queue of bytes.  append() and readFd()  *)
(* add exactly the bytes they were given at the end, retrieve() takes from *)
(* the front, unwrite() from the end and prepend() puts a header in front; *)
(* nothing else changes the content.                                       *)
(***************************************************************************)
EXTENDS Naturals, Sequences

CONSTANT Data  \* the sequences of bytes that callers add

VARIABLES
    content,
    call       \* the last call: <<operation, argument>>

Init == content = <<>> /\ call = <<"create", 0>>

AddBack(d) == content' = content \o d /\ call' = <<"addBack", d>>
AddFront(d) == content' = d \o content /\ call' = <<"addFront", d>>
TakeFront(n) == content' = SubSeq(content, n + 1, Len(content)) /\ call' = <<"takeFront", n>>
TakeBack(n) == content' = SubSeq(content, 1, Len(content) - n) /\ call' = <<"takeBack", n>>
Tidy == UNCHANGED content /\ call' = <<"tidy", 0>>

Next ==
    \/ \E d \in Data : AddBack(d) \/ AddFront(d)
    \/ \E n \in 0 .. Len(content) : TakeFront(n) \/ TakeBack(n)
    \/ Tidy

Spec == Init /\ [][Next]_<<content, call>>
=============================================================================
