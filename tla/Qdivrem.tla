------------------------------ MODULE Qdivrem ------------------------------
(***************************************************************************)
(* Division of 64 bit numbers in C (misc/gccisms.c, __qdivrem), which the  *)
(* compiler calls for / and % on long long.  Numbers are four digits of    *)
(* HALF_BITS bits; a u_int has two.  Knuth's algorithm D on arrays of      *)
(* digits; a | b of disjoint bits is a + b.                                *)
(***************************************************************************)
EXTENDS Integers, Sequences, SequencesExt

CONSTANT HALF_BITS

B == 2^HALF_BITS

ASSUME QdivremAssumption == HALF_BITS \in Nat \ {0}

u_int(x) == x % (B * B)
HHALF(x) == x \div B
LHALF(x) == x % B
COMBINE(a, b) == u_int(a * B) + b

digits(x) == <<x \div B^3, (x \div B^2) % B, (x \div B) % B, x % B>>

RECURSIVE number(_)
number(ds) == IF ds = <<>> THEN 0 ELSE B * number(Front(ds)) + Last(ds)

zeros(ds) == SelectInSeq(ds, LAMBDA x : x # 0) - 1

(* One significant digit: "Change of plan, per exercise 16".               *)
RECURSIVE divide_by_digit(_, _)
divide_by_digit(u, t) ==
    IF u = <<>> THEN [q |-> <<>>, r |-> 0]
    ELSE LET s == divide_by_digit(Front(u), t)
             rbj == COMBINE(s.r, Last(u))
         IN  [q |-> Append(s.q, rbj \div t), r |-> rbj % t]

(* Shift p[1]..p[Len(p)] left sh bits.                                     *)
shl(p, sh) ==
    [i \in 1..Len(p) |->
        LHALF(p[i] * 2^sh) + IF i < Len(p) THEN p[i + 1] \div 2^(HALF_BITS - sh) ELSE 0]

(* D3: the loop that lowers qhat, from its test and from qhat_too_big.     *)
RECURSIVE lower_qhat(_, _, _, _, _)
qhat_too_big(qhat, rhat, v1, v2, uj2) ==
    IF rhat + v1 >= B THEN qhat - 1 ELSE lower_qhat(qhat - 1, rhat + v1, v1, v2, uj2)
lower_qhat(qhat, rhat, v1, v2, uj2) ==
    IF u_int(v2 * qhat) > COMBINE(rhat, uj2) THEN qhat_too_big(qhat, rhat, v1, v2, uj2) ELSE qhat

qhat_of(uj0, uj1, uj2, v1, v2) ==
    IF uj0 = v1 THEN qhat_too_big(B, uj1, v1, v2, uj2)
    ELSE LET nn == COMBINE(uj0, uj1) IN lower_qhat(nn \div v1, nn % v1, v1, v2, uj2)

(* D4: u[j..j+n] less qhat times v, from digit i to the left; t is the    *)
(* borrow.                                                                 *)
RECURSIVE multiply_subtract(_, _, _, _, _, _)
multiply_subtract(u, v, j, qhat, i, t) ==
    LET t1 == u_int(u[i + j] - (IF i > 0 THEN v[i] * qhat ELSE 0) - t)
        u1 == [u EXCEPT ![i + j] = LHALF(t1)]
    IN  IF i = 0 THEN [u |-> u1, t |-> t1]
        ELSE multiply_subtract(u1, v, j, qhat, i - 1, (B - HHALF(t1)) % B)

(* D6: v is added back.                                                    *)
RECURSIVE add_back(_, _, _, _, _)
add_back(u, v, j, i, t) ==
    LET t1 == u[i + j] + (IF i > 0 THEN v[i] ELSE 0) + t
        u1 == [u EXCEPT ![i + j] = LHALF(t1)]
    IN  IF i = 0 THEN u1 ELSE add_back(u1, v, j, i - 1, HHALF(t1))

(* D3 to D6 for quotient digit j; u[1] here is the code's u[0].            *)
digit_no_test(u, j, v) ==   \* fault: D5 is missing
    LET qhat == qhat_of(u[j], u[j + 1], u[j + 2], v[1], v[2])
    IN  [u |-> multiply_subtract(u, v, j, qhat, Len(v), 0).u, q |-> qhat]

digit(u, j, v) ==
    LET qhat == qhat_of(u[j], u[j + 1], u[j + 2], v[1], v[2])
        r == multiply_subtract(u, v, j, qhat, Len(v), 0)
    IN  IF HHALF(r.t) = 0 THEN [u |-> r.u, q |-> qhat]
        ELSE [u |-> add_back(r.u, v, j, Len(v), 0), q |-> qhat - 1]

(* D7: the digits 1..j.                                                    *)
RECURSIVE program_d(_, _, _)
program_d(u, j, v) ==
    IF j = 0 THEN [u |-> u, q |-> <<>>]
    ELSE LET s == program_d(u, j - 1, v)
             r == digit(s.u, j, v)
         IN  [u |-> r.u, q |-> Append(s.q, r.q)]

(* The remainder shifted back; digits m+2..Len(u) are its own.             *)
shr(u, m, d) ==
    IF d = 0 THEN u
    ELSE [i \in 1..Len(u) |->
             IF i = m + 1 THEN 0
             ELSE IF i <= m THEN u[i]
             ELSE u[i] \div 2^d + LHALF(u[i - 1] * 2^(HALF_BITS - d))]

significant(x) == SubSeq(digits(x), zeros(digits(x)) + 1, 4)

(* The quotient and the remainder of uq by vq.                             *)
qdivrem(uq, vq) ==
    LET v == significant(vq)
        u == significant(uq)
        m == Len(u) - Len(v)
        d == CHOOSE k \in 0..HALF_BITS - 1 : v[1] * 2^k \in B \div 2 .. B - 1
        end == program_d(shl(<<0>> \o u, d), m + 1, shl(v, d))
        short == divide_by_digit(digits(uq), v[1])
    IN  IF uq < vq THEN [q |-> 0, r |-> uq]
        ELSE IF Len(v) = 1 THEN [q |-> number(short.q), r |-> short.r]
        ELSE [q |-> number(end.q), r |-> number(shr(end.u, m, d))]
-----------------------------------------------------------------------------
VARIABLES division   \* operands and results of the last division

DivideInit == division = <<0, 1, [q |-> 0, r |-> 0]>>

divide(uq, vq) == division' = <<uq, vq, qdivrem(uq, vq)>>

(* Every quotient and every remainder is the one of the integers, also     *)
(* where the first guess of a digit is too large by one or two.            *)
QuotientExact ==
    division[3] = [q |-> division[1] \div division[2], r |-> division[1] % division[2]]
=============================================================================
