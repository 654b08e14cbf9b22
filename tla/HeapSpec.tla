------------------------------- MODULE HeapSpec -----------------------------
(***************************************************************************)
(* What kmalloc promises: a block of memory at least as large as asked for *)
(* that shares no byte with a block handed out before, or null.  There is  *)
(* no kfree, so a block stays its caller's for good.                       *)
(***************************************************************************)
EXTENDS Naturals

CONSTANTS
  Addresses,  \* where blocks may lie
  Sizes       \* what callers ask for

VARIABLES
  handed,     \* the blocks handed out, records [at, size]
  answer      \* the last answer: a block, or at = 0 for null

vars == <<handed, answer>>

Apart(a, b) == a.at + a.size <= b.at \/ b.at + b.size <= a.at

Init == handed = {} /\ answer = [at |-> 0, size |-> 0]

Grant(size) ==
  \E at \in Addresses \ {0} :
    LET block == [at |-> at, size |-> size] IN
    /\ answer' = block
    /\ at .. (at + size - 1) \subseteq Addresses
    /\ \A other \in handed : Apart(block, other)
    /\ handed' = handed \cup {block}

Refuse(size) ==
  /\ answer' = [at |-> 0, size |-> size]
  /\ UNCHANGED handed

Next == \E size \in Sizes : Grant(size) \/ Refuse(size)

Spec == Init /\ [][Next]_vars
=============================================================================
