------------------------------ MODULE Arithmetic ------------------------------
(* Facts about numbers that the proofs of several components rest on:        *)
(* remainders, and the least and the greatest member of a set.               *)
EXTENDS Integers, WellFoundedInduction, TLAPS

(* Remainders. *)

LEMMA ModDivision ==
    ASSUME NEW M \in Nat \ {0}, NEW a \in Int
    PROVE  /\ a % M \in 0 .. M - 1
           /\ a \div M \in Int
           /\ a = M * (a \div M) + (a % M)
    OBVIOUS

LEMMA ModUnique ==
    ASSUME NEW M \in Nat \ {0}, NEW a \in Int, NEW q \in Int,
           NEW r \in 0 .. M - 1, a = M * q + r
    PROVE  a % M = r
    OBVIOUS

LEMMA ModSmall ==
    ASSUME NEW M \in Nat \ {0}, NEW a \in Int
    PROVE  /\ 0 <= a /\ a < M => a % M = a
           /\ -M <= a /\ a < 0 => a % M = a + M
    OBVIOUS

\* A multiple of M added to a number leaves its remainder alone.
LEMMA ModShift ==
    ASSUME NEW M \in Nat \ {0}, NEW a \in Int, NEW k \in Int,
           NEW b \in Int, b = a + M * k
    PROVE  b % M = a % M
    <1> DEFINE q == a \div M
               r == a % M
    <1>1. a = M * q + r /\ q \in Int /\ r \in 0 .. M - 1
        BY ModDivision
    <1> HIDE DEF q, r
    <1>2. M * (q + k) = M * q + M * k /\ M * q \in Int /\ M * k \in Int
        BY <1>1
    <1>3. b = M * (q + k) + r /\ q + k \in Int
        BY <1>1, <1>2
    <1>4. b % M = r
        BY <1>1, <1>3, ModUnique
    <1> QED
        BY <1>4 DEF r

\* Remainders of sums and differences.
LEMMA ModAdd ==
    ASSUME NEW M \in Nat \ {0}, NEW a \in Int, NEW b \in Int
    PROVE  ((a % M) + b) % M = (a + b) % M
    <1> DEFINE q == a \div M
               c == (a % M) + b
               d == a + b
    <1>1. a = M * q + (a % M) /\ q \in Int /\ a % M \in Int
        BY ModDivision
    <1>2. d = c + M * q /\ c \in Int /\ d \in Int
        BY <1>1
    <1> HIDE DEF q, c, d
    <1>3. c % M = d % M
        BY <1>1, <1>2, ModShift
    <1> QED
        BY <1>3 DEF c, d

LEMMA ModSub ==
    ASSUME NEW M \in Nat \ {0}, NEW a \in Int, NEW b \in Int
    PROVE  ((a % M) - (b % M)) % M = (a - b) % M
    <1> DEFINE q == a \div M
               p == b \div M
               k == q - p
               c == (a % M) - (b % M)
               d == a - b
    <1>1. a = M * q + (a % M) /\ q \in Int /\ a % M \in Int
        BY ModDivision
    <1>2. b = M * p + (b % M) /\ p \in Int /\ b % M \in Int
        BY ModDivision
    <1>3. M * k = M * q - M * p /\ M * q \in Int /\ M * p \in Int /\ k \in Int
        BY <1>1, <1>2
    <1>4. d = c + M * k /\ c \in Int /\ d \in Int
        BY <1>1, <1>2, <1>3
    <1> HIDE DEF q, p, k, c, d
    <1>5. c % M = d % M
        BY <1>3, <1>4, ModShift
    <1> QED
        BY <1>5 DEF c, d

-----------------------------------------------------------------------------
(* Least and greatest members. *)

\* A set of numbers with a member has a least one.
LEMMA Least ==
    ASSUME NEW T, T \subseteq Nat, T # {},
           NEW m, m = CHOOSE i \in T : \A j \in T : i <= j
    PROVE  m \in T /\ \A j \in T : m <= j
    <1>1. PICK x \in T : \A y \in T : ~(<<y, x>> \in OpToRel(<, Nat))
        BY NatLessThanWellFounded, WFMin
    <1>2. \A y \in T : ~(y < x)
        BY <1>1, Zenon DEF OpToRel
    <1>3. \A y \in T : x <= y
        BY <1>2
    <1> QED
        BY <1>3, Zenon

\* A set of numbers up to n with a member has a greatest one.
LEMMA Greatest ==
    ASSUME NEW n \in Nat, NEW T, T \subseteq 0 .. n, T # {},
           NEW m, m = CHOOSE i \in T : \A j \in T : j <= i
    PROVE  m \in T /\ \A j \in T : j <= m
    <1> DEFINE D == {k \in 0 .. n : n - k \in T}
               d == CHOOSE i \in D : \A j \in D : i <= j
    <1>1. PICK t \in T : TRUE
        OBVIOUS
    <1>2. n - t \in 0 .. n /\ n - (n - t) = t
        BY <1>1
    <1>3. D \subseteq Nat /\ D # {}
        <2>1. n - (n - t) \in T
            BY <1>1, <1>2, Zenon
        <2>2. n - t \in D
            BY <1>2, <2>1, Zenon
        <2>3. \A k \in D : k \in 0 .. n
            BY Zenon
        <2> HIDE DEF D
        <2> QED
            BY <2>2, <2>3
    <1> HIDE DEF D
    <1>4. d \in D /\ \A j \in D : d <= j
        BY <1>3, Least, Zenon
    <1> HIDE DEF d
    <1>5. n - d \in T /\ d \in 0 .. n
        BY <1>4 DEF D
    <1>6. ASSUME NEW j \in T PROVE j <= n - d
        <2>1. n - j \in D /\ j \in 0 .. n
            BY DEF D
        <2>2. d <= n - j
            BY <1>4, <2>1
        <2> QED
            BY <2>1, <2>2, <1>5
    <1> QED
        BY <1>5, <1>6, Zenon

\* A set has all numbers from n down to 1 if it has each of them once it has those
\* above it.
LEMMA Downwards ==
    ASSUME NEW n \in Nat, NEW T, T \subseteq 1 .. n,
           \A i \in 1 .. n : (\A j \in i + 1 .. n : j \in T) => i \in T
    PROVE  T = 1 .. n
    <1> DEFINE D == 1 .. n \ T
               d == CHOOSE i \in D : \A j \in D : j <= i
    <1> SUFFICES ASSUME D # {} PROVE FALSE
        OBVIOUS
    <1>1. D \subseteq 0 .. n
        OBVIOUS
    <1> HIDE DEF D
    <1>2. d \in D /\ \A j \in D : j <= d
        BY <1>1, Greatest, Zenon
    <1> HIDE DEF d
    <1>3. d \in 1 .. n /\ d \notin T
        BY <1>2 DEF D
    <1>4. ASSUME NEW j \in d + 1 .. n PROVE j \in T
        <2>1. j \in 1 .. n /\ ~(j <= d)
            BY <1>3
        <2> QED
            BY <1>2, <2>1 DEF D
    <1> QED
        BY <1>3, <1>4

\* ... and from 0 up to n if it has each of them once it has those below it.
LEMMA Upwards ==
    ASSUME NEW n \in Nat, NEW T, T \subseteq 0 .. n,
           \A i \in 0 .. n : (\A j \in 0 .. i - 1 : j \in T) => i \in T
    PROVE  T = 0 .. n
    <1> DEFINE D == 0 .. n \ T
               d == CHOOSE i \in D : \A j \in D : i <= j
    <1> SUFFICES ASSUME D # {} PROVE FALSE
        OBVIOUS
    <1>1. D \subseteq Nat
        OBVIOUS
    <1> HIDE DEF D
    <1>2. d \in D /\ \A j \in D : d <= j
        BY <1>1, Least, Zenon
    <1> HIDE DEF d
    <1>3. d \in 0 .. n /\ d \notin T
        BY <1>2 DEF D
    <1>4. ASSUME NEW j \in 0 .. d - 1 PROVE j \in T
        <2>1. j \in 0 .. n /\ ~(d <= j)
            BY <1>3
        <2> QED
            BY <1>2, <2>1 DEF D
    <1> QED
        BY <1>3, <1>4
=============================================================================
