--------------------------------- MODULE TVec ---------------------------------
(* Vectors of toggle bits, one per thread (libconcurrent/includes/tvec.h):   *)
(* arrays of words, the cells, of WordSize bits each.  PWFComb, PWFStack and *)
(* PWFQueue take a vector for the set of threads whose bit is 1; ToggleOps   *)
(* shows that it is one.                                                     *)
EXTENDS Integers, Bitwise, SequencesExt

CONSTANT Shift    \* _TVEC_DIVISION_SHIFT_BITS_

(* _TVEC_BIWORD_SIZE_, and what bitword_t wraps at. *)
WordSize == 2 ^ Shift
Width    == 2 ^ WordSize

(* _TVEC_CELLS_, lines 13 and 64: the cells of a vector of n threads. *)
CellsOf(n) == 0 .. n \div WordSize

(* Lines 60-82: TVEC_INIT, TVEC_INIT_AT, TVEC_SET_ZERO. *)
ZeroVector(n) == [i \in CellsOf(n) |-> 0]

(* TVEC_GET_BANK_OF_BIT, lines 26-31. *)
BankOfBit(bit, n) == IF n > WordSize THEN bit \div WordSize ELSE 0

(* The cell and the offset in it of a bit, lines 97-98. *)
CellOf(bit)   == bit \div WordSize
OffsetOf(bit) == bit % WordSize

Negated(word) == (Width - word) % Width

(* Mutant: nothing is negated. *)
NegativeBankNot(vector, bank) == vector

(* TVEC_NEGATIVE_BANK of a vector into itself, lines 45-47. *)
NegativeBank(vector, bank) == [vector EXCEPT ![bank] = Negated(@)]

(* TVEC_NEGATIVE, lines 88-92. *)
Negative(vector) == [i \in DOMAIN vector |-> Negated(vector[i])]

(* TVEC_ATOMIC_ADD_BANK, lines 37-43. *)
AddBank(vector, added, bank) ==
    [vector EXCEPT ![bank] = (@ + added[bank]) % Width]

(* TVEC_REVERSE_BIT, TVEC_SET_BIT and TVEC_IS_SET, lines 94-119. *)
ReverseBit(vector, bit) ==
    [vector EXCEPT ![CellOf(bit)] = @ ^^ (2 ^ OffsetOf(bit))]

SetBit(vector, bit) == [vector EXCEPT ![CellOf(bit)] = @ | (2 ^ OffsetOf(bit))]

IsSet(vector, bit) == shiftR(vector[CellOf(bit)], OffsetOf(bit)) % 2 = 1

(* TVEC_OR and TVEC_XOR, lines 121-125 and 133-137; TVEC_XOR_BANKS, lines    *)
(* 49-51, with the bank alone. *)
OrVector(v, w)  == [i \in DOMAIN v |-> v[i] | w[i]]
XorVector(v, w) == [i \in DOMAIN v |-> v[i] ^^ w[i]]
XorBank(v, w, bank) == [i \in {bank} |-> v[i] ^^ w[i]]

(* Mutant: from the other end. *)
BitSearchLast(word) ==
    CHOOSE pos \in 0 .. WordSize - 1 : word \div 2 ^ pos = 1

(* synchBitSearchFirst, primitives.c:108-114: the place of the lowest bit.   *)
BitSearchFirst(word) ==
    CHOOSE pos \in 0 .. WordSize - 1 :
        word % (2 ^ pos) = 0 /\ (word \div 2 ^ pos) % 2 = 1

(* The loops over a vector, pwfcombstack.c:208-219 and others: the bits of a *)
(* cell, each found by synchBitSearchFirst and cleared, and the cells one    *)
(* after another.                                                            *)
BitsVisited(word) ==
    LET visit[w \in 0 .. Width - 1] ==
            IF w = 0 THEN <<>>
            ELSE LET pos == BitSearchFirst(w)
                 IN <<pos>> \o visit[w ^^ (2 ^ pos)]
    IN visit[word]

Visited(vector) ==
    LET InCell(i) == [j \in DOMAIN BitsVisited(vector[i]) |->
                         i * WordSize + BitsVisited(vector[i])[j]]
    IN FlattenSeq([c \in 1 .. Cardinality(DOMAIN vector) |-> InCell(c - 1)])
=============================================================================
