------------------------------- MODULE Lists --------------------------------
(***************************************************************************)
(* The lists the program collects: a loop over a table adds the entries    *)
(* that pass a test to a linked list, at its end.                          *)
(***************************************************************************)
EXTENDS Integers, Sequences

(* hits are the places of the table whose entries pass the test. *)
ListOf(table, hits) ==
    LET list[i \in 0..Len(table)] ==
            IF i = 0 THEN <<>>
            ELSE IF i \in hits THEN Append(list[i - 1], table[i]) ELSE list[i - 1]
    IN  list[Len(table)]
=============================================================================
