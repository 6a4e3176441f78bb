------------------------------ MODULE LinkedLists ------------------------------
(* Lists of nodes linked by a field `next`, as the stacks and the queues keep*)
(* them.  link is that field, a function from nodes to nodes and null.       *)
EXTENDS Integers, SequencesExt

(* The nodes from w on, in their order; at most m of them. *)
ListFrom(link, null, w, m) ==
    LET walk[i \in 0 .. m] ==
            [n \in DOMAIN link \union {null} |->
                IF i = 0 \/ n = null THEN <<>>
                ELSE <<n>> \o walk[i - 1][link[n]]]
    IN walk[m][w]

(* The sequence s is the whole list from w on: it ends, and no node is in it *)
(* twice.                                                                    *)
IsListFrom(s, link, null, w) ==
    /\ s \in Seq(DOMAIN link)
    /\ IsInjective(s)
    /\ w = IF s = <<>> THEN null ELSE s[1]
    /\ \A i \in 1 .. Len(s) :
          link[s[i]] = IF i = Len(s) THEN null ELSE s[i + 1]
=============================================================================
