------------------------------ MODULE MCLeb128 ------------------------------
(***************************************************************************)
(* Numbers of 64 bits made of three stretches of equal groups, with the    *)
(* groups at which a carry, a sign or a continuation could go wrong.       *)
(***************************************************************************)
EXTENDS Leb128

Edges == {0, 1, 63, 64, 127}

Stretches(top) ==
  {[k \in 1 .. Groups |-> IF k <= i THEN a ELSE IF k <= j THEN b
                          ELSE IF k < Groups THEN c ELSE t] :
     a \in Edges, b \in Edges, c \in {0, 64, 127}, t \in top,
     i \in 0 .. 3, j \in {4, 5, 7, 9}}

Samples == {[signed |-> FALSE, groups |-> g] : g \in Stretches({0, 1})} \cup
           {[signed |-> TRUE, groups |-> g] : g \in Stretches({0, 127})}

\* Bits 28 to 34, where 32 and 33 bits end.
Fifth == {[signed |-> s, groups |-> [k \in 1 .. Groups |->
             IF k < 5 THEN 127 ELSE IF k = 5 THEN g ELSE fill]] :
            s \in {FALSE, TRUE}, g \in {7, 8, 15, 16, 31, 32, 112, 120, 124}, fill \in {0}}
         \cup {[signed |-> TRUE, groups |-> [k \in 1 .. Groups |->
             IF k < 5 THEN 0 ELSE IF k = 5 THEN g ELSE 127]] :
            g \in {95, 96, 111, 112, 119, 120}}

Tested == Samples \cup Fifth
=============================================================================
