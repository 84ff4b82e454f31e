------------------------------- MODULE Queue --------------------------------
(* Sequences without repetition, as the list of tasks is seen. *)
EXTENDS Integers, Sequences

Members(q) == {q[i] : i \in 1 .. Len(q)}

Distinct(q) == \A i, j \in 1 .. Len(q) : q[i] = q[j] => i = j

IndexOf(q, x) == CHOOSE i \in 1 .. Len(q) : q[i] = x

(* q without its i-th element *)
Without(q, i) == SubSeq(q, 1, i - 1) \o SubSeq(q, i + 1, Len(q))
=============================================================================
